------------------------------ MODULE Discovery ------------------------------
(***************************************************************************)
(* What the agent knows of its peers: Agent Cards (verifyCardStatus,       *)
(* a2aCacheDiscoveredCard, handleDiscoveryCard, agentImportCard), the pin  *)
(* of the first key of each payment identity, the eviction of old cards,   *)
(* and the account a settlement pays (matchedCardLogos,                    *)
(* discoveredPayoutFor), all in pilot_a2a.cpp.                             *)
(*                                                                         *)
(* A card is a record: the payment identity it claims (npk), the key it    *)
(* publishes and signs with, whether the signature verifies, and the       *)
(* account it wants paid.                                                  *)
(* Signatures cannot be forged: that a key is somebody's is not modelled,  *)
(* a forgery is a card that verifies under another key.                    *)
(***************************************************************************)
EXTENDS EventLoop, FiniteSets

CONSTANTS
  Npks,            \* payment identities, as cards spell them
  Same,            \* Same[n]: the identity extractEncryptionKey reads from n
  Keys,            \* signing keys
  Cards,           \* the cards there are
  Hires,           \* tasks we submit
  None,            \* no key, no card, no account
  CacheMax,        \* kA2ADiscoveredAgentsMax
  MaxTime          \* bound: the clock stops here

ASSUME DiscoveryAssumption ==
  /\ None \notin Npks \cup Keys \cup Cards
  /\ Same \in [Npks -> Npks]
  /\ Cards \subseteq [npk : Npks, key : Keys \cup {None}, sig : {"good", "bad", "none"},
                      payout : Npks]
  /\ IsFiniteSet(Npks)
  /\ CacheMax \in Nat /\ MaxTime \in Nat

VARIABLES
  pinned,          \* pinned_identities
  card,            \* discovered_agents: card_json
  seenAt,          \* discovered_agents: last_seen
  hire,            \* outbound_tasks: whom they hire, paid and (history) who asked
  now              \* wall clock

marketVars == <<pinned, card, seenAt, hire>>

NotHired == [st |-> "none", to |-> None, paid |-> None, asked |-> None]

MarketTypeOK ==
  /\ pinned \in [Npks -> Keys \cup {None}]
  /\ card \in [Npks -> Cards \cup {None}]
  /\ seenAt \in [Npks -> 0..MaxTime]
  /\ hire \in [Hires -> [st : {"none", "open", "awaiting", "settled"},
                         to : Npks \cup {None}, paid : Npks \cup {None},
                         asked : Npks \cup {None}]]
  /\ now \in 0..MaxTime

MarketInit ==
  /\ pinned = [n \in Npks |-> None]
  /\ card = [n \in Npks |-> None]
  /\ seenAt = [n \in Npks |-> 0]
  /\ hire = [h \in Hires |-> NotHired]
  /\ now = 0

-------------------------------------------------------------------------------
(***************************************************************************)
(* Verdicts.                                                               *)
(***************************************************************************)
\* verifyCardStatus of the card alone.
SelfStatus(c) == CASE c.sig = "none"  -> "unsigned"
                   [] c.key = None    -> "unbound"
                   [] c.sig = "bad"   -> "invalid"
                   [] OTHER           -> "valid"

\* Looking at a card that verifies pins its key if the identity has none yet.
Pin(c, pins) ==
  IF SelfStatus(c) = "valid" /\ pins[c.npk] = None
  THEN [pins EXCEPT ![c.npk] = c.key] ELSE pins

\* verifyCardStatus against the pins, after the card was looked at.
Status(c, pins) ==
  IF SelfStatus(c) = "valid" /\ pins[c.npk] # c.key THEN "invalid" ELSE SelfStatus(c)

ValidCard(n) == card[n] # None /\ Status(card[n], pinned) = "valid"

-------------------------------------------------------------------------------
(***************************************************************************)
(* Cards in and out.                                                       *)
(***************************************************************************)
\* a2aCacheDiscoveredCard: a card that is not valid never replaces one that is.
Cache(c) ==
  /\ pinned' = Pin(c, pinned)
  /\ IF Status(c, pinned') = "valid" \/ ~ValidCard(c.npk)
       THEN /\ card' = [card EXCEPT ![c.npk] = c]
            /\ seenAt' = [seenAt EXCEPT ![c.npk] = now]
       ELSE UNCHANGED <<card, seenAt>>

\* handleDiscoveryCard: a card we hold already is not looked at again.
Learn(c) == IF card[c.npk] = c THEN UNCHANGED <<pinned, card, seenAt>> ELSE Cache(c)

\* agentImportCard: the same from a file.
Import(c) == Cache(c) /\ UNCHANGED hire

\* Mutant: no card is spared.
NeededNone == {}

\* Cards of tasks in flight, which the eviction spares.
Needed == {hire[h].to : h \in {g \in Hires : hire[g].st \in {"open", "awaiting"}}}

\* a2aEvictDiscoveryCache: of the others only the CacheMax last seen stay; kept
\* are those, in any order when they were seen in the same second.
Freshest(kept) ==
  LET rows == {n \in Npks : card[n] # None}
  IN /\ kept \subseteq rows
     /\ Cardinality(kept) = IF Cardinality(rows) < CacheMax THEN Cardinality(rows)
                            ELSE CacheMax
     /\ \A n \in kept, m \in rows \ kept : seenAt[n] >= seenAt[m]

EvictCards(kept) ==
  /\ Freshest(kept)
  /\ card' = [n \in Npks |-> IF n \in kept \cup Needed THEN card[n] ELSE None]
  /\ seenAt' = [n \in Npks |-> IF n \in kept \cup Needed THEN seenAt[n] ELSE 0]

-------------------------------------------------------------------------------
(***************************************************************************)
(* Hiring and paying.                                                      *)
(***************************************************************************)
\* matchedCardLogos: the valid cards of an address, which must agree.
Matches(a) == {n \in Npks : ValidCard(n) /\ Same[n] = Same[a]}

\* Mutant: any account a valid card asks for.
PayeesUnbound(a) ==
  LET accounts == {card[n].payout : n \in Matches(a)}
  IN IF Cardinality(accounts) = 1 THEN accounts ELSE {None}

\* discoveredPayoutFor: the account of the first match, in any order of rows, and
\* only if it is the identity of that card itself.
Payees(a) ==
  IF Cardinality({card[n].payout : n \in Matches(a)}) # 1 THEN {None}
  ELSE {IF card[n].payout = n THEN n ELSE None : n \in Matches(a)}

\* agentTask to a peer we know, by the address its card spells.
Hire(h, a) ==
  /\ hire[h].st = "none" /\ ValidCard(a)
  /\ hire' = [hire EXCEPT ![h].st = "open", ![h].to = a]
  /\ UNCHANGED <<pinned, card, seenAt>>

\* settleOutboundReply reads the account when the answer is there; with none, or
\* nothing to pay, the task ends.  The owner may have to decide (st "awaiting").
Settle(h, st) ==
  /\ hire[h].st = "open"
  /\ \E p \in Payees(hire[h].to) \cup {None} :
       /\ p = None => st = "settled"
       /\ hire' = [hire EXCEPT ![h].st = st, ![h].paid = p,
                     ![h].asked = IF ValidCard(hire[h].to) THEN card[hire[h].to].payout
                                  ELSE None]
  /\ UNCHANGED <<pinned, card, seenAt>>

\* The owner decides on a payment that waits.
Decide(h) ==
  /\ hire[h].st = "awaiting"
  /\ hire' = [hire EXCEPT ![h].st = "settled"]
  /\ UNCHANGED <<pinned, card, seenAt>>

-------------------------------------------------------------------------------
(***************************************************************************)
(* Properties.                                                             *)
(***************************************************************************)
\* SAFETY.  From hiring to settlement the card that will pay the peer stays in
\* the cache, valid: no forged or unsigned card, no re-pinning and no eviction
\* takes it away (L2, FIX-E).
CardOfHireKept ==
  \A h \in Hires : hire[h].st = "open" => ValidCard(hire[h].to)

\* SAFETY.  A settlement pays an account of the identity that was hired, and one
\* its pinned signer asked for, or nobody: whatever cards arrive, expire or
\* contradict one another in between (H1, M5).
PaidWhoWasHired ==
  \A h \in Hires : hire[h].paid # None =>
                     Same[hire[h].paid] = Same[hire[h].to] /\ hire[h].paid = hire[h].asked
===============================================================================
