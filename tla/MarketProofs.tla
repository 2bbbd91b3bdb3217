---------------------------- MODULE MarketProofs ----------------------------
(***************************************************************************)
(* Theorems about Discovery and MessageIntake, for every value of their    *)
(* constants: whom a settlement pays, how often the store hands a message  *)
(* over and which ones it passes by, and where the agent listens.          *)
(***************************************************************************)
EXTENDS MessageIntake, FiniteSetTheorems, TLAPS

USE DiscoveryAssumption, IntakeAssumption, LoopAssumption

-------------------------------------------------------------------------------
(***************************************************************************)
(* The cache.  An entry is filed under the identity its card claims, and   *)
(* what a valid card has reached it does not lose to another card.         *)
(***************************************************************************)
Filed == \A n \in Npks : card[n] # None => card[n].npk = n

CacheOK == MarketTypeOK /\ Filed

LEMMA PinType ==
  ASSUME CacheOK, NEW c \in Cards
  PROVE  /\ Pin(c, pinned) \in [Npks -> Keys \cup {None}]
         /\ \A n \in Npks : pinned[n] # None => Pin(c, pinned)[n] = pinned[n]
BY DEF CacheOK, MarketTypeOK, Pin, SelfStatus

LEMMA CacheType ==
  ASSUME CacheOK, NEW c \in Cards, Cache(c), UNCHANGED <<hire, now>>
  PROVE  CacheOK'
<1>1. pinned' \in [Npks -> Keys \cup {None}]
  BY PinType DEF Cache
<1>2. card' \in [Npks -> Cards \cup {None}] /\ seenAt' \in [Npks -> 0..MaxTime] /\ Filed'
  BY DEF CacheOK, MarketTypeOK, Filed, Cache
<1> QED BY <1>1, <1>2 DEF CacheOK, MarketTypeOK

LEMMA CacheKeepsValid ==
  ASSUME CacheOK, NEW c \in Cards, Cache(c), NEW n \in Npks, ValidCard(n)
  PROVE  ValidCard(n)'
<1>1. /\ card[n] \in Cards /\ card[n].npk = n /\ card[n] # None
      /\ SelfStatus(card[n]) = "valid" /\ pinned[n] = card[n].key /\ pinned[n] # None
  BY DEF CacheOK, MarketTypeOK, Filed, ValidCard, Status, SelfStatus
<1>2. pinned'[n] = pinned[n]
  BY <1>1, PinType DEF Cache
<1>3. CASE card'[n] = card[n]
  BY <1>1, <1>2, <1>3 DEF ValidCard, Status
<1>4. CASE card'[n] # card[n]
  <2>1. card'[n] = c /\ Status(c, pinned') = "valid"
    BY <1>4 DEF Cache, CacheOK, MarketTypeOK
  <2>2. c # None
    OBVIOUS
  <2> QED BY <2>1, <2>2 DEF ValidCard, Status
<1> QED BY <1>3, <1>4

LEMMA NoteCard ==
  ASSUME NEW m \in Messages, Note(m)
  PROVE  \/ UNCHANGED marketVars
         \/ \E c \in Cards : Cache(c) /\ UNCHANGED hire
<1>1. CASE Topic(m) = "discovery"
  <2>1. Content[m].card \in Cards
    BY <1>1 DEF Topic
  <2> QED BY <1>1, <2>1 DEF Note, Learn, marketVars
<1>2. CASE Topic(m) # "discovery"
  BY <1>2 DEF Note, marketVars
<1> QED BY <1>1, <1>2

-------------------------------------------------------------------------------
(***************************************************************************)
(* Hires.  The card of an open hire stays valid, so its settlement finds   *)
(* one account only.                                                       *)
(***************************************************************************)
\* What a hire's record says before it is settled.
HireOK ==
  \A h \in Hires :
    /\ hire[h].st \in {"none", "open"} => hire[h].paid = None
    /\ hire[h].st = "open" => hire[h].to \in Npks

MarketInv == CacheOK /\ HireOK /\ CardOfHireKept /\ PaidWhoWasHired

LEMMA MarketStutter ==
  ASSUME MarketInv, UNCHANGED <<marketVars, now>>
  PROVE  MarketInv'
BY DEF marketVars, MarketInv, CacheOK, MarketTypeOK, Filed, HireOK, CardOfHireKept,
   PaidWhoWasHired, ValidCard, Status

LEMMA CardArrives ==
  ASSUME MarketInv, NEW c \in Cards, Cache(c), UNCHANGED <<hire, now>>
  PROVE  MarketInv'
<1>1. CacheOK'
  BY CacheType DEF MarketInv
<1>2. CardOfHireKept'
  BY CacheKeepsValid DEF MarketInv, CardOfHireKept, HireOK
<1> QED BY <1>1, <1>2 DEF MarketInv, HireOK, PaidWhoWasHired

HireRecords == [st : {"none", "open", "awaiting", "settled"}, to : Npks \cup {None},
                paid : Npks \cup {None}, asked : Npks \cup {None}]

\* Only one hire changes in a step, to a record r.
OnlyHire(h, r) ==
  /\ hire' \in [Hires -> HireRecords]
  /\ \A g \in Hires : g # h => hire'[g] = hire[g]
  /\ hire'[h].st = r.st /\ hire'[h].to = r.to /\ hire'[h].paid = r.paid
  /\ hire'[h].asked = r.asked

LEMMA HireSteps ==
  ASSUME MarketInv, NEW h \in Hires, NEW a \in Npks, Hire(h, a), UNCHANGED now
  PROVE  MarketInv'
<1>1. OnlyHire(h, [st |-> "open", to |-> a, paid |-> None, asked |-> hire[h].asked])
  <2>1. hire \in [Hires -> HireRecords]
    BY DEF MarketInv, CacheOK, MarketTypeOK, HireRecords
  <2>2. hire[h] \in HireRecords /\ hire[h].paid = None
    BY <2>1 DEF Hire, MarketInv, HireOK
  <2>3. hire' = [hire EXCEPT ![h] = [[hire[h] EXCEPT !.st = "open"] EXCEPT !.to = a]]
    BY <2>1 DEF Hire
  <2>4. [[hire[h] EXCEPT !.st = "open"] EXCEPT !.to = a] \in HireRecords
    BY <2>2 DEF HireRecords
  <2>5. hire' \in [Hires -> HireRecords] /\ \A g \in Hires : g # h => hire'[g] = hire[g]
    BY <2>1, <2>3, <2>4
  <2>6. hire'[h].st = "open" /\ hire'[h].to = a /\ hire'[h].paid = None
        /\ hire'[h].asked = hire[h].asked
    BY <2>1, <2>2, <2>3 DEF HireRecords
  <2> QED BY <2>5, <2>6 DEF OnlyHire
<1>2. CacheOK'
  BY <1>1 DEF OnlyHire, Hire, MarketInv, CacheOK, MarketTypeOK, Filed, HireRecords
<1>3. HireOK' /\ PaidWhoWasHired'
  BY <1>1 DEF OnlyHire, MarketInv, HireOK, PaidWhoWasHired
<1>4. \A n \in Npks : ValidCard(n)' = ValidCard(n)
  BY DEF Hire, ValidCard, Status
<1>5. CardOfHireKept'
  <2>1. \A n \in Npks : ValidCard(n) => ValidCard(n)'
    BY <1>4
  <2>2. ASSUME NEW g \in Hires, hire'[g].st = "open"
        PROVE  hire'[g].to \in Npks /\ ValidCard(hire'[g].to)
    BY <1>1, <2>2 DEF OnlyHire, Hire, MarketInv, HireOK, CardOfHireKept
  <2> QED BY <2>1, <2>2 DEF CardOfHireKept
<1> QED BY <1>2, <1>3, <1>5 DEF MarketInv

\* A settlement finds at most the account that the valid card of the hire asks for,
\* and it is one of the hired identity.
LEMMA OnePayee ==
  ASSUME CacheOK, NEW a \in Npks, ValidCard(a), NEW p \in Payees(a), p # None
  PROVE  p = card[a].payout /\ p \in Npks /\ Same[p] = Same[a]
<1> DEFINE accounts == {card[n].payout : n \in Matches(a)}
<1>1. a \in Matches(a) /\ accounts \subseteq Npks
  BY DEF Matches, ValidCard, CacheOK, MarketTypeOK
<1>2. IsFiniteSet(accounts)
  BY <1>1, FS_Subset
<1>3. Cardinality(accounts) = 1
  BY DEF Payees
<1>4. PICK x : accounts = {x}
  BY <1>2, <1>3, FS_Singleton
<1>5. PICK n \in Matches(a) : p = (IF card[n].payout = n THEN n ELSE None)
  BY <1>3 DEF Payees
<1>6. p = n /\ card[n].payout = n /\ n \in Npks /\ Same[n] = Same[a]
  BY <1>5 DEF Matches
<1>7. card[n].payout = card[a].payout
  <2>1. card[n].payout \in accounts /\ card[a].payout \in accounts
    BY <1>1, <1>5, Zenon
  <2> HIDE DEF accounts
  <2> QED BY <1>4, <2>1
<1> QED BY <1>6, <1>7

LEMMA SettleSteps ==
  ASSUME MarketInv, NEW h \in Hires, NEW st \in {"awaiting", "settled"}, Settle(h, st),
         UNCHANGED now
  PROVE  MarketInv'
<1>1. hire[h].st = "open" /\ hire[h].to \in Npks /\ ValidCard(hire[h].to)
  BY DEF Settle, MarketInv, HireOK, CardOfHireKept
<1>2. PICK p \in Payees(hire[h].to) \cup {None} :
        hire' = [hire EXCEPT ![h].st = st, ![h].paid = p,
                             ![h].asked = IF ValidCard(hire[h].to)
                                          THEN card[hire[h].to].payout ELSE None]
  BY DEF Settle
<1>3. p # None => p = card[hire[h].to].payout /\ p \in Npks /\ Same[p] = Same[hire[h].to]
  BY <1>1, OnePayee DEF MarketInv
<1>4. card[hire[h].to].payout \in Npks
  BY <1>1 DEF ValidCard, MarketInv, CacheOK, MarketTypeOK
<1>5. OnlyHire(h, [st |-> st, to |-> hire[h].to, paid |-> p,
                   asked |-> card[hire[h].to].payout])
  <2>1. hire \in [Hires -> HireRecords] /\ p \in Npks \cup {None}
    BY <1>3 DEF MarketInv, CacheOK, MarketTypeOK, HireRecords
  <2>2. hire' = [hire EXCEPT ![h].st = st, ![h].paid = p,
                             ![h].asked = card[hire[h].to].payout]
    BY <1>1, <1>2
  <2>3. hire'[h].st = st /\ hire'[h].to = hire[h].to /\ hire'[h].paid = p
        /\ hire'[h].asked = card[hire[h].to].payout
    BY <2>1, <2>2 DEF HireRecords
  <2>4. \A g \in Hires : g # h => hire'[g] = hire[g]
    BY <2>1, <2>2
  <2>5. hire' \in [Hires -> HireRecords]
    <3>1. hire[h] \in HireRecords
      BY <2>1
    <3>2. [[[hire[h] EXCEPT !.st = st] EXCEPT !.paid = p]
             EXCEPT !.asked = card[hire[h].to].payout] \in HireRecords
      BY <1>4, <2>1, <3>1 DEF HireRecords
    <3> QED BY <2>1, <2>2, <3>2
  <2> QED BY <2>3, <2>4, <2>5 DEF OnlyHire
<1>6. CacheOK'
  BY <1>5 DEF OnlyHire, HireRecords, Settle, MarketInv, CacheOK, MarketTypeOK, Filed
<1>7. HireOK' /\ PaidWhoWasHired'
  BY <1>3, <1>5 DEF OnlyHire, MarketInv, HireOK, PaidWhoWasHired
<1>8. \A n : ValidCard(n) => ValidCard(n)'
  BY DEF Settle, ValidCard, Status
<1>9. \A g \in Hires : hire'[g].st = "open" => hire'[g].to = hire[g].to /\ hire[g].st = "open"
  BY <1>1, <1>5 DEF OnlyHire
<1>10. CardOfHireKept'
  BY <1>8, <1>9 DEF MarketInv, CardOfHireKept
<1> QED BY <1>6, <1>7, <1>10 DEF MarketInv

LEMMA DecideSteps ==
  ASSUME MarketInv, NEW h \in Hires, Decide(h), UNCHANGED now
  PROVE  MarketInv'
<1>1. OnlyHire(h, [st |-> "settled", to |-> hire[h].to, paid |-> hire[h].paid,
                   asked |-> hire[h].asked])
  BY DEF Decide, OnlyHire, HireRecords, MarketInv, CacheOK, MarketTypeOK
<1>2. CacheOK'
  BY <1>1 DEF OnlyHire, HireRecords, Decide, MarketInv, CacheOK, MarketTypeOK, Filed
<1>3. HireOK' /\ PaidWhoWasHired'
  BY <1>1 DEF OnlyHire, MarketInv, HireOK, PaidWhoWasHired
<1>4. \A n : ValidCard(n) => ValidCard(n)'
  BY DEF Decide, ValidCard, Status
<1>5. \A g \in Hires : hire'[g].st = "open" => hire'[g].to = hire[g].to /\ hire[g].st = "open"
  BY <1>1 DEF OnlyHire
<1>6. CardOfHireKept'
  BY <1>4, <1>5 DEF MarketInv, CardOfHireKept
<1> QED BY <1>2, <1>3, <1>6 DEF MarketInv

LEMMA EvictionSteps ==
  ASSUME MarketInv, NEW kept \in SUBSET Npks, EvictCards(kept), UNCHANGED <<pinned, hire, now>>
  PROVE  MarketInv'
<1>1. CacheOK'
  BY DEF EvictCards, MarketInv, CacheOK, MarketTypeOK, Filed
<1>2. ASSUME NEW h \in Hires, hire[h].st = "open"
      PROVE  card'[hire[h].to] = card[hire[h].to]
  BY <1>2 DEF EvictCards, Needed, MarketInv, HireOK
<1>3. CardOfHireKept'
  BY <1>2 DEF MarketInv, CardOfHireKept, ValidCard, Status
<1> QED BY <1>1, <1>3 DEF MarketInv, HireOK, PaidWhoWasHired

-------------------------------------------------------------------------------
(***************************************************************************)
(* Messages from the store.                                                *)
(***************************************************************************)
\* A message that is not remembered now was handed over once for each time the
\* hashes were forgotten, at most.
HandedInv ==
  /\ handed \in [Messages -> Nat] /\ forgets \in Nat
  /\ \A m \in Messages : handed[m] <= forgets + IF m \in seen THEN 1 ELSE 0

MarketSpecInv == MarketInv /\ HandedInv

LEMMA ReadSteps ==
  ASSUME MarketSpecInv, NEW m \in Messages, ReadNext(m)
  PROVE  MarketSpecInv'
<1>1. MarketInv'
  <2>1. UNCHANGED now /\ (UNCHANGED marketVars \/ \E c \in Cards : Cache(c) /\ UNCHANGED hire)
    BY NoteCard DEF ReadNext
  <2>2. CASE UNCHANGED marketVars
    BY <2>1, <2>2, MarketStutter DEF MarketSpecInv
  <2>3. CASE \E c \in Cards : Cache(c) /\ UNCHANGED hire
    BY <2>1, <2>3, CardArrives DEF MarketSpecInv
  <2> QED BY <2>1, <2>2, <2>3
<1>2. m \notin seen /\ handed[m] <= forgets
  BY DEF ReadNext, MarketSpecInv, HandedInv
<1>3. HandedInv'
  <2>1. CASE seen' = {m} /\ forgets' = forgets + 1
    BY <1>2, <2>1 DEF ReadNext, MarketSpecInv, HandedInv
  <2>2. CASE seen' = seen \cup {m} /\ forgets' = forgets
    BY <1>2, <2>2 DEF ReadNext, MarketSpecInv, HandedInv
  <2> QED BY <2>1, <2>2 DEF ReadNext, Remember
<1> QED BY <1>1, <1>3 DEF MarketSpecInv

\* Steps that handle no message of the store and touch no card and no hire.
LEMMA QuietSteps ==
  ASSUME MarketSpecInv, UNCHANGED <<marketVars, now, seen, handed, forgets>>
  PROVE  MarketSpecInv'
BY MarketStutter DEF MarketSpecInv, HandedInv

LEMMA NetworkSteps ==
  ASSUME MarketSpecInv, Network
  PROVE  MarketSpecInv'
<1>1. CASE Tick
  <2>1. now' \in 0..MaxTime
    BY <1>1 DEF Tick, MarketSpecInv, MarketInv, CacheOK, MarketTypeOK
  <2>2. MarketInv'
    BY <1>1, <2>1 DEF Tick, marketVars, MarketSpecInv, MarketInv, CacheOK, MarketTypeOK, Filed,
       HireOK, CardOfHireKept, PaidWhoWasHired, ValidCard, Status
  <2> QED BY <1>1, <2>2 DEF Tick, intakeVars, MarketSpecInv, HandedInv
<1>2. ASSUME NEW m \in Messages, Pushed(m) PROVE MarketSpecInv'
  <2>1. UNCHANGED <<now, seen, handed, forgets>>
    BY <1>2 DEF Pushed
  <2>2. UNCHANGED marketVars \/ \E c \in Cards : Cache(c) /\ UNCHANGED hire
    BY <1>2, NoteCard DEF Pushed
  <2>3. MarketInv'
    BY <2>1, <2>2, CardArrives, MarketStutter DEF MarketSpecInv
  <2> QED BY <2>1, <2>3 DEF MarketSpecInv, HandedInv
<1>3. ASSUME NEW m \in Messages, NEW at \in 0..MaxTime, Land(m, at) PROVE MarketSpecInv'
  BY <1>3, QuietSteps DEF Land
<1> QED BY <1>1, <1>2, <1>3 DEF Network

LEMMA IntakeSteps ==
  ASSUME MarketSpecInv, Intake
  PROVE  MarketSpecInv'
<1>1. CASE AgentPoll \/ AgentDiscover
  BY <1>1, QuietSteps DEF AgentPoll, AgentDiscover, Poll, intakeVars
<1>2. CASE Fetched \/ PollEnds
  BY <1>2, QuietSteps DEF Fetched, PollEnds
<1>3. CASE FetchFails \/ Handled \/ PushHandled
  BY <1>3, QuietSteps DEF FetchFails, Handled, PushHandled, intakeVars
<1>4. CASE Armed
  <2>1. MarketInv'
    BY <1>4, EvictionSteps DEF Armed, MarketSpecInv
  <2> QED BY <1>4, <2>1 DEF Armed, intakeVars, MarketSpecInv, HandedInv
<1>5. ASSUME NEW m \in Messages, ReadNext(m) PROVE MarketSpecInv'
  BY <1>5, ReadSteps
<1> QED BY <1>1, <1>2, <1>3, <1>4, <1>5 DEF Intake

LEMMA ListenSteps ==
  ASSUME MarketSpecInv, Listen
  PROVE  MarketSpecInv'
<1>1. UNCHANGED <<marketVars, now, seen, handed, forgets>>
  BY DEF Listen, OpenForHire, CloseForHire, AgentCard, Subscribed, Unsubscribed,
     ReconcileEnds, Subscribe, Unsubscribe, intakeVars
<1> QED BY <1>1, QuietSteps

LEMMA OwnerSteps ==
  ASSUME MarketSpecInv, OwnerActs
  PROVE  MarketSpecInv'
<1>1. UNCHANGED <<now, seen, handed, forgets>>
  BY DEF OwnerActs, intakeVars
<1>2. MarketInv'
  <2>1. ASSUME NEW c \in Files, Import(c) PROVE MarketInv'
    BY <1>1, <2>1, CardArrives DEF Import, MarketSpecInv
  <2>2. ASSUME NEW h \in Hires, NEW a \in Npks, Hire(h, a) PROVE MarketInv'
    BY <1>1, <2>2, HireSteps DEF MarketSpecInv
  <2>3. ASSUME NEW h \in Hires, NEW st \in {"awaiting", "settled"}, Settle(h, st)
        PROVE  MarketInv'
    BY <1>1, <2>3, SettleSteps DEF MarketSpecInv
  <2>4. ASSUME NEW h \in Hires, Decide(h) PROVE MarketInv'
    BY <1>1, <2>4, DecideSteps DEF MarketSpecInv
  <2> QED BY <2>1, <2>2, <2>3, <2>4 DEF OwnerActs
<1> QED BY <1>1, <1>2 DEF MarketSpecInv, HandedInv

LEMMA RestartSteps ==
  ASSUME MarketSpecInv, Restart
  PROVE  MarketSpecInv'
<1>1. MarketInv'
  BY EvictionSteps DEF Restart, MarketSpecInv
<1>2. HandedInv'
  BY DEF Restart, MarketSpecInv, HandedInv
<1> QED BY <1>1, <1>2 DEF MarketSpecInv

\* The inductive invariant: cards are filed under the identity they claim, hires keep
\* their valid card, and the store's hashes account for what was handed over.
THEOREM MarketInvariant == IntakeSpec => []MarketSpecInv
<1>1. IntakeInit => MarketSpecInv
  BY DEF IntakeInit, MarketInit, NotHired, MarketSpecInv, MarketInv, CacheOK, MarketTypeOK,
     Filed, HireOK, CardOfHireKept, PaidWhoWasHired, HandedInv
<1>2. MarketSpecInv /\ [IntakeNext]_vars => MarketSpecInv'
  <2>1. CASE UNCHANGED vars
    BY <2>1, QuietSteps DEF vars, intakeVars
  <2> QED BY <2>1, NetworkSteps, IntakeSteps, ListenSteps, OwnerSteps, RestartSteps
      DEF IntakeNext
<1> QED BY <1>1, <1>2, PTL DEF IntakeSpec

-------------------------------------------------------------------------------
(***************************************************************************)
(* Activations.  Those of polls keep to their order in time, and read from *)
(* the store only; those that reconcile ask for discovery always.          *)
(***************************************************************************)
Polling == {"poll", "discover"}
Listing == {"open", "close", "assert"}
Steps   == {"fetching", "reading", "handling", "arming",
            "subscribe", "subscribing", "unsubscribing"}

Calls == [op : Polling \cup Listing \cup {"pushed"}, pc : Steps, topics : SUBSET Topics,
          at : 0..MaxTime, from : Int, todo : SUBSET (Topics \cup Messages),
          held : SUBSET Topics, topic : Topics]

Fetches(f)    == f.pc = "fetching"
Reads(f)      == f.pc = "reading" \/ (f.pc = "handling" /\ f.op # "pushed")
Reconciles(f) == f.op \in Listing

CallOK(f, t) ==
  /\ f.pc \in {"fetching", "reading", "arming"} => f.op \in Polling
  /\ f.pc = "handling" => f.op \in Polling \cup {"pushed"}
  /\ f.pc \in {"subscribe", "subscribing", "unsubscribing"} => f.op \in Listing
  /\ f.op = "discover" => f.topics \subseteq {"discovery", "named"}
  /\ Reconciles(f) => "discovery" \in f.topics
  /\ f.at <= t

CallsOK == /\ stack \in Seq(Calls)
           /\ \A d \in DOMAIN stack : CallOK(stack[d], now)

-------------------------------------------------------------------------------
(***************************************************************************)
(* Windows.  A message is accounted for when the store handed it over, or  *)
(* a poll of this process did not ask for it or had no room for it.        *)
(***************************************************************************)
Accounted(m) == handed[m] > 0 \/ m \in excused

\* The messages before a window that this process looked back to.
AccountedBefore(t) == \A m \in stored : floor <= sent[m] /\ sent[m] < t => Accounted(m)

\* A poll that asks the store: the first of the process, or one whose window starts where
\* everything before it is accounted for, and nothing will land there any more.
FetchOK(f) ==
  IF since = Never THEN f.from = f.at - LookBack
  ELSE f.from <= 0 \/ f.from <= floor \/ (f.from <= now - Overlap /\ AccountedBefore(f.from))

\* A poll that reads its page has what it asked for in its hands.
ReadOK(f) ==
  /\ since = Never => floor >= f.at - LookBack \/ f.at <= LookBack
  /\ \A m \in stored : Topic(m) \in f.topics /\ floor <= sent[m] /\ sent[m] < f.at - Overlap
                         => Accounted(m) \/ m \in f.todo

WindowInv ==
  /\ \A m \in seen : handed[m] > 0
  /\ since # Never => since <= now /\ AccountedBefore(since - Overlap)
  /\ \A d, e \in DOMAIN stack : d < e /\ (Fetches(stack[d]) \/ Reads(stack[d]))
                                      /\ (Fetches(stack[e]) \/ Reads(stack[e]))
                                  => stack[d].at <= stack[e].at
  /\ \A d \in DOMAIN stack : /\ Fetches(stack[d]) => FetchOK(stack[d])
                             /\ Reads(stack[d]) => ReadOK(stack[d])
  /\ since = Never /\ floor # 0 =>
       \E d \in DOMAIN stack : Reads(stack[d]) /\ floor <= stack[d].at - LookBack

\* Types.
StoreOK ==
  /\ sent \in [Messages -> 0..MaxTime \cup {Never}]
  /\ stored \subseteq Messages /\ \A m \in stored : sent[m] \in 0..now
  /\ seen \subseteq stored /\ IsFiniteSet(seen) /\ Cardinality(seen) <= SeenCap + 1
  /\ since \in 0..MaxTime \cup {Never} /\ floor \in Nat
  /\ \A d \in DOMAIN stack : Reads(stack[d]) => stack[d].todo \subseteq stored

-------------------------------------------------------------------------------
(***************************************************************************)
(* Listening.                                                              *)
(***************************************************************************)
Listed == {"discovery"} \cup Inboxes
Heard  == listening \cap Listed

\* A reconciliation, when no other ran in it.
RunOK(f) ==
  /\ f.topics = IdentityTopics(open) /\ f.todo \subseteq f.topics
  /\ IF f.op = "close" THEN ~open ELSE persisted = open
  /\ f.pc = "subscribe" => Heard = subscribed /\ f.topics \subseteq subscribed \cup f.todo
  /\ f.pc = "subscribing" => /\ Heard = subscribed \cup {f.topic} /\ f.topic \in f.topics
                             /\ f.topics \subseteq subscribed \cup f.todo \cup {f.topic}
  /\ f.pc = "unsubscribing" => /\ Heard = subscribed \ {f.topic} /\ f.topic \notin f.topics
                               /\ f.topics \subseteq subscribed /\ f.held = subscribed
                               /\ f.todo = {}

\* discovery is the first topic a process subscribes to, and it keeps it.
DiscoveryFirst ==
  "discovery" \in listening
    \/ /\ Len(stack) = 1 /\ At("subscribe") /\ "discovery" \in Top.todo
       /\ subscribed = {}

\* One reconciliation at most, which gets where it should.
Orderly ==
  /\ subscribed \subseteq Listed
  /\ \A d, e \in DOMAIN stack : Reconciles(stack[d]) /\ Reconciles(stack[e]) => d = e
  /\ ~Reconciling => /\ subscribed = IdentityTopics(open) /\ Heard = subscribed
                     /\ persisted = open
  /\ \A d \in DOMAIN stack : Reconciles(stack[d]) => RunOK(stack[d])

ListenInv ==
  /\ DiscoveryFirst
  /\ subscribed \subseteq Topics /\ listening \subseteq Topics
  /\ {open, persisted, raced} \subseteq BOOLEAN
  /\ ~raced => Orderly

LEMMA TopCall ==
  ASSUME CallsOK, stack # <<>>
  PROVE  /\ Len(stack) \in Nat \ {0} /\ Len(stack) \in DOMAIN stack
         /\ DOMAIN stack = 1..Len(stack)
         /\ Top = stack[Len(stack)] /\ Top \in Calls /\ CallOK(Top, now)
<1>1. Len(stack) \in Nat \ {0} /\ Len(stack) \in DOMAIN stack /\ DOMAIN stack = 1..Len(stack)
  BY DEF CallsOK
<1> QED BY <1>1 DEF CallsOK, Top

LEMMA Older ==
  ASSUME NEW f \in Calls, NEW t \in Int, NEW u \in Int, t <= u, CallOK(f, t)
  PROVE  CallOK(f, u)
<1>1. f.at \in Int
  BY DiscoveryAssumption DEF Calls
<1>2. f.at <= u
  BY <1>1 DEF CallOK
<1> QED BY <1>2 DEF CallOK

LEMMA BecomeStack ==
  ASSUME CallsOK, stack # <<>>, now <= now', now \in Int, now' \in Int,
         NEW f \in Calls, CallOK(f, now'), Become(f)
  PROVE  /\ CallsOK' /\ Len(stack') = Len(stack) /\ DOMAIN stack' = DOMAIN stack
         /\ stack' # <<>> /\ Top' = f /\ stack'[Len(stack)] = f
         /\ \A d \in DOMAIN stack : d # Len(stack) => stack'[d] = stack[d]
<1>1. /\ Len(stack) \in Nat \ {0} /\ Len(stack) \in DOMAIN stack
      /\ DOMAIN stack = 1..Len(stack)
  BY TopCall
<1>2. /\ stack' \in Seq(Calls) /\ Len(stack') = Len(stack) /\ DOMAIN stack' = DOMAIN stack
      /\ stack'[Len(stack)] = f
      /\ \A d \in DOMAIN stack : d # Len(stack) => stack'[d] = stack[d]
  BY SMTT(40), <1>1 DEF CallsOK, Become
<1>3. ASSUME NEW d \in DOMAIN stack' PROVE CallOK(stack'[d], now')
  <2>1. CASE d = Len(stack)
    BY <1>2, <2>1
  <2>2. CASE d # Len(stack)
    BY <1>2, <1>3, <2>2, Older DEF CallsOK
  <2> QED BY <2>1, <2>2
<1>4. stack' # <<>> /\ Top' = f
  BY <1>1, <1>2 DEF Top
<1> QED BY <1>1, <1>2, <1>3, <1>4 DEF CallsOK

LEMMA PopStack ==
  ASSUME CallsOK, stack # <<>>, now' = now, Pop
  PROVE  /\ CallsOK' /\ Len(stack') = Len(stack) - 1
         /\ DOMAIN stack' = 1..(Len(stack) - 1)
         /\ \A d \in DOMAIN stack' : /\ d \in DOMAIN stack /\ d # Len(stack)
                                     /\ stack'[d] = stack[d]
<1>1. /\ Len(stack) \in Nat \ {0} /\ DOMAIN stack = 1..Len(stack)
  BY TopCall
<1>2. stack' \in Seq(Calls) /\ Len(stack') = Len(stack) - 1
      /\ DOMAIN stack' = 1..(Len(stack) - 1)
      /\ \A d \in 1..(Len(stack) - 1) : stack'[d] = stack[d]
  BY SMTT(40), <1>1 DEF CallsOK, Pop
<1>3. \A d \in DOMAIN stack' : d \in DOMAIN stack /\ d # Len(stack) /\ stack'[d] = stack[d]
  BY <1>1, <1>2
<1> QED BY <1>2, <1>3 DEF CallsOK

LEMMA PushStack ==
  ASSUME CallsOK, now' = now, NEW f \in Calls, CallOK(f, now), Push(f)
  PROVE  /\ CallsOK' /\ Len(stack) \in Nat /\ Len(stack') = Len(stack) + 1
         /\ DOMAIN stack = 1..Len(stack) /\ DOMAIN stack' = 1..(Len(stack) + 1)
         /\ stack' # <<>> /\ Top' = f /\ stack'[Len(stack) + 1] = f
         /\ \A d \in DOMAIN stack : d # Len(stack) + 1 /\ stack'[d] = stack[d]
<1>1. Len(stack) \in Nat /\ DOMAIN stack = 1..Len(stack)
  BY DEF CallsOK
<1>2. stack' \in Seq(Calls) /\ Len(stack') = Len(stack) + 1
      /\ DOMAIN stack' = 1..(Len(stack) + 1)
      /\ stack'[Len(stack) + 1] = f
      /\ \A d \in 1..Len(stack) : stack'[d] = stack[d]
  BY SMTT(40), <1>1 DEF CallsOK, Push
<1>3. ASSUME NEW d \in DOMAIN stack' PROVE CallOK(stack'[d], now')
  <2>1. CASE d = Len(stack) + 1
    BY <1>2, <2>1
  <2>2. CASE d # Len(stack) + 1
    <3>1. d \in DOMAIN stack /\ stack'[d] = stack[d]
      BY <1>1, <1>2, <1>3, <2>2
    <3> QED BY <3>1 DEF CallsOK
  <2> QED BY <2>1, <2>2
<1> QED BY <1>1, <1>2, <1>3 DEF CallsOK, Top

\* The activations there are.
LEMMA Called ==
  ASSUME NEW op \in Polling \cup Listing \cup {"pushed"}, NEW pc \in Steps
  PROVE  /\ Call(op, pc) \in Calls /\ Call(op, pc).op = op /\ Call(op, pc).pc = pc
         /\ Call(op, pc).topics = {} /\ Call(op, pc).at = 0 /\ Call(op, pc).todo = {}
<1>1. /\ "owner" \in Topics /\ 0 \in 0..MaxTime /\ 0 \in Int
      /\ {} \in SUBSET Topics /\ {} \in SUBSET (Topics \cup Messages)
  BY DiscoveryAssumption DEF Topics
<1> QED BY <1>1 DEF Call, Calls

LEMMA ReconcilerCalled ==
  ASSUME NEW op \in Listing, NEW isOpen \in BOOLEAN, NEW f, f = Reconciler(op, isOpen)
  PROVE  /\ f \in Calls /\ f.op = op /\ f.pc = "subscribe" /\ f.at = 0
         /\ f.topics = IdentityTopics(isOpen) /\ f.todo = IdentityTopics(isOpen)
<1>1. Call(op, "subscribe") \in Calls /\ Call(op, "subscribe").op = op
      /\ Call(op, "subscribe").pc = "subscribe" /\ Call(op, "subscribe").at = 0
  BY Called DEF Steps
<1>2. IdentityTopics(isOpen) \in SUBSET Topics
  BY DEF IdentityTopics, Topics
<1> QED BY <1>1, <1>2 DEF Reconciler, Calls

-------------------------------------------------------------------------------
(***************************************************************************)
(* Steps that leave the store and what was read of it alone.               *)
(***************************************************************************)
Works(f) == Fetches(f) \/ Reads(f)

Like(f, g) == /\ Fetches(f) <=> Fetches(g)
              /\ Reads(f) <=> Reads(g)
              /\ f.at = g.at /\ f.from = g.from /\ f.topics = g.topics /\ f.todo = g.todo

StoreVars == <<now, sent, stored, seen, since, handed, excused, floor>>

LEMMA Kept ==
  ASSUME StoreOK, WindowInv, UNCHANGED StoreVars,
         \A d \in DOMAIN stack' : Works(stack'[d]) => /\ d \in DOMAIN stack
                                                      /\ Like(stack'[d], stack[d]),
         \A d \in DOMAIN stack : Reads(stack[d]) => d \in DOMAIN stack' /\ Like(stack'[d], stack[d])
  PROVE  StoreOK' /\ WindowInv'
<1>1. StoreOK'
  <2>1. \A d \in DOMAIN stack' : Reads(stack'[d]) => stack'[d].todo \subseteq stored
    BY DEF StoreOK, Works, Like
  <2> QED BY <2>1 DEF StoreOK, StoreVars
<1>2. (\A m \in seen : handed[m] > 0)'
  BY DEF WindowInv, StoreVars
<1>3. (since # Never => since <= now /\ AccountedBefore(since - Overlap))'
  BY DEF WindowInv, StoreVars, AccountedBefore, Accounted
<1>4. \A d, e \in DOMAIN stack' : d < e /\ Works(stack'[d]) /\ Works(stack'[e])
                                   => stack'[d].at <= stack'[e].at
  BY DEF WindowInv, Works, Like
<1>5. ASSUME NEW d \in DOMAIN stack'
      PROVE  (Fetches(stack[d]) => FetchOK(stack[d]))' /\ (Reads(stack[d]) => ReadOK(stack[d]))'
  <2>1. CASE Works(stack'[d])
    <3>1. d \in DOMAIN stack /\ Like(stack'[d], stack[d])
      BY <2>1
    <3>2. (Fetches(stack[d]) => FetchOK(stack[d])) /\ (Reads(stack[d]) => ReadOK(stack[d]))
      BY <3>1 DEF WindowInv
    <3>3. /\ Fetches(stack[d]) /\ FetchOK(stack[d]) => FetchOK(stack[d])'
          /\ Reads(stack[d]) /\ ReadOK(stack[d]) => ReadOK(stack[d])'
      <4>1. stack'[d].at = stack[d].at /\ stack'[d].from = stack[d].from
            /\ stack'[d].topics = stack[d].topics /\ stack'[d].todo = stack[d].todo
        BY <3>1 DEF Like
      <4>2. FetchOK(stack[d]) => FetchOK(stack[d])'
        BY <4>1 DEF FetchOK, AccountedBefore, Accounted, StoreVars
      <4>3. ReadOK(stack[d]) => ReadOK(stack[d])'
        BY <4>1 DEF ReadOK, Accounted, StoreVars
      <4> QED BY <4>2, <4>3
    <3> QED BY <3>1, <3>2, <3>3 DEF Like, Fetches, Reads
  <2>2. CASE ~Works(stack'[d])
    BY <2>2 DEF Works, Fetches, Reads
  <2> QED BY <2>1, <2>2
<1>6. (since = Never /\ floor # 0 =>
        \E d \in DOMAIN stack : Reads(stack[d]) /\ floor <= stack[d].at - LookBack)'
  BY DEF WindowInv, StoreVars, Like
<1>7. WindowInv'
  BY <1>2, <1>3, <1>4, <1>5, <1>6 DEF WindowInv, Works, Fetches, Reads
<1> QED BY <1>1, <1>7

LEMMA PushKept ==
  ASSUME CallsOK, StoreOK, WindowInv, UNCHANGED StoreVars,
         NEW f \in Calls, CallOK(f, now), ~Works(f), Push(f)
  PROVE  CallsOK' /\ StoreOK' /\ WindowInv'
<1>1. now' = now
  BY DEF StoreVars
<1>2. /\ CallsOK' /\ DOMAIN stack = 1..Len(stack) /\ DOMAIN stack' = 1..(Len(stack) + 1)
      /\ stack'[Len(stack) + 1] = f /\ Len(stack) \in Nat
      /\ \A d \in DOMAIN stack : d # Len(stack) + 1 /\ stack'[d] = stack[d]
  BY <1>1, PushStack
<1>3. \A d \in DOMAIN stack' : Works(stack'[d]) => d \in DOMAIN stack /\ Like(stack'[d], stack[d])
  <2> SUFFICES ASSUME NEW d \in DOMAIN stack', Works(stack'[d])
               PROVE  d \in DOMAIN stack /\ Like(stack'[d], stack[d])
    OBVIOUS
  <2>1. d \in DOMAIN stack
    BY <1>2
  <2> QED BY <1>2, <2>1 DEF Like
<1>4. \A d \in DOMAIN stack : d \in DOMAIN stack' /\ Like(stack'[d], stack[d])
  BY <1>2 DEF Like
<1> QED BY <1>2, <1>3, <1>4, Kept

LEMMA PopKept ==
  ASSUME CallsOK, StoreOK, WindowInv, UNCHANGED StoreVars, stack # <<>>, ~Reads(Top), Pop
  PROVE  CallsOK' /\ StoreOK' /\ WindowInv'
<1>1. now' = now
  BY DEF StoreVars
<1>2. /\ CallsOK' /\ DOMAIN stack = 1..Len(stack) /\ DOMAIN stack' = 1..(Len(stack) - 1)
      /\ Len(stack) \in Nat \ {0} /\ Top = stack[Len(stack)]
      /\ \A d \in DOMAIN stack' : /\ d \in DOMAIN stack /\ d # Len(stack)
                                  /\ stack'[d] = stack[d]
  BY <1>1, PopStack, TopCall
<1>3. \A d \in DOMAIN stack' : d \in DOMAIN stack /\ Like(stack'[d], stack[d])
  BY <1>2 DEF Like
<1>4. \A d \in DOMAIN stack : Reads(stack[d]) => d \in DOMAIN stack' /\ Like(stack'[d], stack[d])
  <2> SUFFICES ASSUME NEW d \in DOMAIN stack, Reads(stack[d])
               PROVE  d \in DOMAIN stack' /\ Like(stack'[d], stack[d])
    OBVIOUS
  <2>1. d # Len(stack)
    BY <1>2
  <2>2. d \in DOMAIN stack'
    BY <1>2, <2>1
  <2> QED BY <1>3, <2>2
<1> QED BY <1>2, <1>3, <1>4, Kept

LEMMA BecomeKept ==
  ASSUME CallsOK, StoreOK, WindowInv, UNCHANGED StoreVars, now \in Int, stack # <<>>,
         NEW f \in Calls, CallOK(f, now), Become(f),
         Like(f, Top) \/ (~Reads(Top) /\ ~Works(f))
  PROVE  CallsOK' /\ StoreOK' /\ WindowInv'
<1>1. now' = now /\ now <= now'
  BY DEF StoreVars
<1>2. /\ CallsOK' /\ DOMAIN stack' = DOMAIN stack /\ stack'[Len(stack)] = f
      /\ Top = stack[Len(stack)]
      /\ \A d \in DOMAIN stack : d # Len(stack) => stack'[d] = stack[d]
  BY <1>1, BecomeStack, TopCall
<1>3. \A d \in DOMAIN stack : d # Len(stack) => Like(stack'[d], stack[d])
  BY <1>2 DEF Like
<1>4. \A d \in DOMAIN stack' : Works(stack'[d]) => d \in DOMAIN stack /\ Like(stack'[d], stack[d])
  BY <1>2, <1>3
<1>5. \A d \in DOMAIN stack : Reads(stack[d]) => d \in DOMAIN stack' /\ Like(stack'[d], stack[d])
  BY <1>2, <1>3
<1> QED BY <1>2, <1>4, <1>5, Kept

-------------------------------------------------------------------------------
(***************************************************************************)
(* Steps that read the store.                                              *)
(***************************************************************************)
StoreInv == CallsOK /\ StoreOK /\ WindowInv

LEMMA Numbers ==
  ASSUME MarketSpecInv, CallsOK, StoreOK
  PROVE  /\ now \in Nat /\ now <= MaxTime /\ since \in Int /\ floor \in Nat
         /\ \A m \in stored : m \in Messages /\ sent[m] \in Nat /\ sent[m] <= now
         /\ handed \in [Messages -> Nat]
         /\ \A d \in DOMAIN stack : /\ stack[d] \in Calls /\ stack[d].at \in Nat
                                    /\ stack[d].from \in Int /\ stack[d].at <= now
         /\ Overlap \in Nat /\ LookBack \in Nat /\ MaxTime \in Nat /\ Never < 0
         /\ Never \in Int
<1>1. now \in Nat /\ now <= MaxTime
  BY DEF MarketSpecInv, MarketInv, CacheOK, MarketTypeOK
<1>2. /\ Overlap \in Nat /\ LookBack \in Nat /\ MaxTime \in Nat /\ Never < 0
      /\ Never \in Int
  BY DEF Never
<1>3. \A d \in DOMAIN stack : stack[d] \in Calls /\ CallOK(stack[d], now)
  BY DEF CallsOK
<1>4. \A d \in DOMAIN stack : /\ stack[d] \in Calls /\ stack[d].at \in Nat
                              /\ stack[d].from \in Int /\ stack[d].at <= now
  BY <1>3 DEF Calls, CallOK
<1>5. \A m \in stored : m \in Messages /\ sent[m] \in Nat /\ sent[m] <= now
  BY <1>1 DEF StoreOK
<1>6. since \in Int /\ floor \in Nat
  BY <1>2 DEF StoreOK
<1>7. handed \in [Messages -> Nat]
  BY DEF MarketSpecInv, HandedInv
<1> QED BY <1>1, <1>2, <1>4, <1>5, <1>6, <1>7

\* An older activation keeps what it knows when more is accounted for.
LEMMA OthersKeep ==
  ASSUME MarketSpecInv, StoreInv, UNCHANGED <<now, sent, stored, since>>,
         floor' \in Nat, floor <= floor', since # Never => floor' = floor,
         \A m \in stored : Accounted(m) => Accounted(m)',
         NEW d \in DOMAIN stack, stack'[d] = stack[d]
  PROVE  (Fetches(stack[d]) => FetchOK(stack[d]))' /\ (Reads(stack[d]) => ReadOK(stack[d]))'
<1>1. (Fetches(stack[d]) => FetchOK(stack[d])) /\ (Reads(stack[d]) => ReadOK(stack[d]))
  BY DEF StoreInv, WindowInv
<1>2. /\ floor \in Nat /\ \A m \in stored : sent[m] \in Nat
      /\ stack[d].at \in Nat /\ stack[d].from \in Int /\ LookBack \in Nat
      /\ Overlap \in Nat /\ now \in Nat
  BY Numbers DEF StoreInv
<1>3. FetchOK(stack[d]) => FetchOK(stack[d])'
  <2>1. AccountedBefore(stack[d].from) => AccountedBefore(stack[d].from)'
    BY <1>2 DEF AccountedBefore
  <2> QED BY <1>2, <2>1 DEF FetchOK
<1>4. ReadOK(stack[d]) => ReadOK(stack[d])'
  <2>1. ReadOK(stack[d]) /\ since' = Never =>
          floor' >= stack'[d].at - LookBack \/ stack'[d].at <= LookBack
    BY <1>2 DEF ReadOK
  <2>2. ASSUME NEW m \in stored, ReadOK(stack[d]), Topic(m) \in stack[d].topics,
               floor' <= sent[m], sent[m] < stack[d].at - Overlap
        PROVE  Accounted(m)' \/ m \in stack[d].todo
    <3>1. floor <= sent[m]
      BY <1>2, <2>2
    <3> QED BY <2>2, <3>1 DEF ReadOK
  <2> QED BY <2>1, <2>2 DEF ReadOK
<1>5. (Fetches(stack[d])' <=> Fetches(stack[d])) /\ (Reads(stack[d])' <=> Reads(stack[d]))
  BY DEF Fetches, Reads
<1> QED BY <1>1, <1>3, <1>4, <1>5

LEMMA PollSteps ==
  ASSUME MarketSpecInv, StoreInv, NEW op \in Polling, NEW topics \in SUBSET Topics,
         op = "discover" => topics \subseteq {"discovery", "named"}, Poll(op, topics)
  PROVE  StoreInv'
<1> DEFINE f == [Call(op, "fetching") EXCEPT !.topics = topics, !.at = now, !.from = From]
<1>1. /\ now \in Nat /\ now <= MaxTime /\ since \in Int /\ From \in Int
      /\ \A d \in DOMAIN stack : stack[d].at \in Nat /\ stack[d].at <= now
  BY Numbers DEF StoreInv, From
<1>3. UNCHANGED <<now, sent, stored, seen, since, handed, excused, floor>> /\ Push(f)
  BY DEF Poll, intakeVars
<1>2. f = [Call(op, "fetching") EXCEPT !.topics = topics, !.at = now, !.from = From]
  OBVIOUS
<1> HIDE DEF f
<1>20. now \in 0..MaxTime
  BY <1>1
<1>21. /\ f \in Calls /\ f.op = op /\ f.pc = "fetching" /\ f.topics = topics
       /\ f.at = now /\ f.from = From
  <2>1. Call(op, "fetching") \in Calls /\ Call(op, "fetching").op = op
        /\ Call(op, "fetching").pc = "fetching"
    BY Called DEF Steps
  <2> QED BY <1>1, <1>2, <1>20, <2>1 DEF Calls
<1>4. CallOK(f, now)
  BY <1>1, <1>21 DEF CallOK, Reconciles, Polling, Listing
<1>5. /\ CallsOK' /\ DOMAIN stack = 1..Len(stack) /\ DOMAIN stack' = 1..(Len(stack) + 1)
      /\ stack'[Len(stack) + 1] = f /\ Len(stack) \in Nat
      /\ \A d \in DOMAIN stack : d # Len(stack) + 1 /\ stack'[d] = stack[d]
  BY <1>21, <1>3, <1>4, PushStack DEF StoreInv
<1>6. \A d \in DOMAIN stack' : d = Len(stack) + 1 \/ d \in DOMAIN stack
  BY <1>5
<1>7. Fetches(f) /\ ~Reads(f)
  BY <1>21 DEF Fetches, Reads
<1>8. StoreOK'
  <2>1. \A d \in DOMAIN stack' : Reads(stack'[d]) => stack'[d].todo \subseteq stored
    BY <1>5, <1>6, <1>7 DEF StoreInv, StoreOK
  <2> QED BY <1>3, <2>1 DEF StoreInv, StoreOK
<1>9. (\A m \in seen : handed[m] > 0)'
  BY <1>3 DEF StoreInv, WindowInv
<1>10. (since # Never => since <= now /\ AccountedBefore(since - Overlap))'
  BY <1>3 DEF StoreInv, WindowInv, AccountedBefore, Accounted
<1>11. ASSUME NEW d \in DOMAIN stack', NEW e \in DOMAIN stack', d < e,
              Works(stack'[d]), Works(stack'[e])
       PROVE  stack'[d].at <= stack'[e].at
  <2>1. d \in DOMAIN stack
    BY <1>5, <1>11
  <2>2. CASE e = Len(stack) + 1
    BY <1>1, <1>21, <1>5, <2>1, <2>2
  <2>3. CASE e \in DOMAIN stack
    BY <1>5, <1>11, <2>1, <2>3 DEF StoreInv, WindowInv, Works
  <2> QED BY <1>6, <2>2, <2>3
<1>12. ASSUME NEW d \in DOMAIN stack'
       PROVE  (Fetches(stack[d]) => FetchOK(stack[d]))' /\ (Reads(stack[d]) => ReadOK(stack[d]))'
  <2>1. CASE d = Len(stack) + 1
    <3>1. stack'[d] = f
      BY <1>5, <2>1
    <3>2. ~Reads(stack[d])'
      BY <1>7, <3>1 DEF Reads
    <3>3. CASE since = Never
      BY <1>21, <1>3, <3>1, <3>2, <3>3 DEF FetchOK, From
    <3>4. CASE since # Never
      <4>1. From = since - Overlap /\ since <= now /\ AccountedBefore(From)
        BY <3>4 DEF From, StoreInv, WindowInv
      <4>2. From <= now - Overlap
        BY <1>1, <4>1
      <4>3. AccountedBefore(stack[d].from)'
        BY <1>21, <1>3, <3>1, <4>1 DEF AccountedBefore, Accounted
      <4> QED BY <1>21, <1>3, <3>1, <3>2, <3>4, <4>2, <4>3 DEF FetchOK
    <3> QED BY <3>2, <3>3, <3>4
  <2>2. CASE d \in DOMAIN stack
    <3>1. stack'[d] = stack[d]
      BY <1>5, <2>2
    <3>2. \A m \in stored : Accounted(m) => Accounted(m)'
      BY <1>3 DEF Accounted
    <3>3. floor' \in Nat /\ floor <= floor' /\ floor' = floor
      BY <1>3, Numbers DEF StoreInv
    <3> QED BY <1>3, <2>2, <3>1, <3>2, <3>3, OthersKeep
  <2> QED BY <1>6, <2>1, <2>2
<1>13. (since = Never /\ floor # 0 =>
          \E d \in DOMAIN stack : Reads(stack[d]) /\ floor <= stack[d].at - LookBack)'
  <2>1. CASE since = Never /\ floor # 0
    <3>1. PICK d \in DOMAIN stack : Reads(stack[d]) /\ floor <= stack[d].at - LookBack
      BY <2>1 DEF StoreInv, WindowInv
    <3>2. d \in DOMAIN stack' /\ stack'[d] = stack[d]
      BY <1>5, <3>1
    <3> QED BY <1>3, <3>1, <3>2 DEF Reads
  <2> QED BY <1>3, <2>1
<1>14. WindowInv'
  BY <1>9, <1>10, <1>11, <1>12, <1>13 DEF WindowInv, Works, Fetches, Reads
<1> QED BY <1>5, <1>8, <1>14 DEF StoreInv

\* The store answers: a message of the window is on the page, or the page had no room.
LEMMA FetchedSteps ==
  ASSUME MarketSpecInv, StoreInv, Fetched
  PROVE  StoreInv'
<1> DEFINE inWindow == {m \in stored : Topic(m) \in Top.topics /\ sent[m] >= Top.from}
<1>1. stack # <<>> /\ Top.pc = "fetching"
  BY DEF Fetched, At
<1>2. /\ Len(stack) \in Nat \ {0} /\ Len(stack) \in DOMAIN stack
      /\ DOMAIN stack = 1..Len(stack)
      /\ Top = stack[Len(stack)] /\ Top \in Calls /\ CallOK(Top, now)
  BY <1>1, TopCall DEF StoreInv
<1>3. PICK page \in SUBSET inWindow :
        /\ excused' = excused \cup (inWindow \ page)
        /\ Become([Top EXCEPT !.pc = "reading", !.todo = page, !.from = 0])
  BY DEF Fetched
<1> DEFINE g == [Top EXCEPT !.pc = "reading", !.todo = page, !.from = 0]
<1>4. page \subseteq stored /\ stored \subseteq Messages /\ inWindow \subseteq stored
  BY DEF StoreInv, StoreOK
<1>5. /\ g \in Calls /\ g.pc = "reading" /\ g.todo = page /\ g.op = Top.op
      /\ g.at = Top.at /\ g.topics = Top.topics
  <2>1. "reading" \in Steps /\ page \in SUBSET (Topics \cup Messages) /\ 0 \in Int
    BY <1>4 DEF Steps
  <2> QED BY <1>2, <2>1 DEF Calls
<1>6. Become(g)
  BY <1>3
<1>7. \A m : m \in inWindow <=> m \in stored /\ Topic(m) \in Top.topics /\ sent[m] >= Top.from
  OBVIOUS
<1>8. excused' = excused \cup (inWindow \ page)
  BY <1>3
<1> HIDE DEF g, inWindow
<1>9. UNCHANGED <<now, sent, stored, seen, since, handed>>
  BY DEF Fetched
<1>10. floor' = IF since = Never /\ Top.from > 0 THEN Top.from ELSE floor
  BY DEF Fetched
<1>11. /\ now \in Nat /\ floor \in Nat /\ LookBack \in Nat /\ Overlap \in Nat
       /\ \A m \in stored : sent[m] \in Nat
       /\ \A d \in DOMAIN stack : stack[d].at \in Nat /\ stack[d].from \in Int
       /\ Top.at \in Nat /\ Top.from \in Int /\ now <= now'
  <2>1. /\ now \in Nat /\ floor \in Nat /\ LookBack \in Nat /\ Overlap \in Nat
        /\ \A m \in stored : sent[m] \in Nat
        /\ \A d \in DOMAIN stack : stack[d].at \in Nat /\ stack[d].from \in Int
    BY Numbers DEF StoreInv
  <2>2. Top.at \in Nat /\ Top.from \in Int
    BY <1>2, <2>1
  <2>3. now <= now'
    BY <1>9, <2>1
  <2> QED BY <2>1, <2>2, <2>3
<1>12. Fetches(Top) /\ Works(Top) /\ FetchOK(Top) /\ Works(g) /\ Reads(g)
  BY <1>1, <1>2, <1>5 DEF Fetches, Works, Reads, StoreInv, WindowInv
<1>13. CallOK(g, now')
  BY <1>1, <1>2, <1>5, <1>9 DEF CallOK, Reconciles, Polling, Listing
<1>14. /\ CallsOK' /\ DOMAIN stack' = DOMAIN stack /\ stack'[Len(stack)] = g
       /\ \A d \in DOMAIN stack : d # Len(stack) => stack'[d] = stack[d]
  BY <1>1, <1>5, <1>6, <1>11, <1>13, BecomeStack, <1>9 DEF StoreInv
<1>15. floor <= floor' /\ floor' \in Nat /\ (since # Never => floor' = floor)
  <2>1. CASE since = Never /\ Top.from > 0 /\ floor # 0
    <3>1. PICK d \in DOMAIN stack : Reads(stack[d]) /\ floor <= stack[d].at - LookBack
      BY <2>1 DEF StoreInv, WindowInv
    <3>2. d # Len(stack)
      BY <1>1, <1>2, <3>1 DEF Reads
    <3>3. d < Len(stack) /\ Works(stack[d]) /\ Works(stack[Len(stack)])
      BY <1>2, <1>12, <3>1, <3>2 DEF Works
    <3>4. stack[d].at <= Top.at
      BY <1>2, <3>3 DEF StoreInv, WindowInv, Works
    <3>5. Top.from = Top.at - LookBack
      BY <1>12, <2>1 DEF FetchOK
    <3> QED BY <1>10, <1>11, <2>1, <3>1, <3>4, <3>5
  <2>2. CASE ~(since = Never /\ Top.from > 0 /\ floor # 0)
    BY <1>10, <1>11, <2>2
  <2> QED BY <2>1, <2>2
<1>16. \A m \in stored : Accounted(m) => Accounted(m)'
  BY <1>8, <1>9 DEF Accounted
<1>17. StoreOK'
  <2>1. \A d \in DOMAIN stack' : Reads(stack'[d]) => stack'[d].todo \subseteq stored
    BY <1>4, <1>5, <1>14 DEF StoreInv, StoreOK
  <2> QED BY <1>9, <1>15, <2>1 DEF StoreInv, StoreOK
<1>18. (\A m \in seen : handed[m] > 0)'
  BY <1>9 DEF StoreInv, WindowInv
<1>19. (since # Never => since <= now /\ AccountedBefore(since - Overlap))'
  <2>1. since # Never /\ AccountedBefore(since - Overlap) => AccountedBefore(since - Overlap)'
    BY <1>9, <1>15, <1>16 DEF AccountedBefore
  <2> QED BY <1>9, <2>1 DEF StoreInv, WindowInv
<1>20. \A d \in DOMAIN stack : (Works(stack'[d]) => Works(stack[d])) /\ stack'[d].at = stack[d].at
  BY <1>2, <1>5, <1>12, <1>14
<1>21. \A d, e \in DOMAIN stack' : d < e /\ Works(stack'[d]) /\ Works(stack'[e])
                                   => stack'[d].at <= stack'[e].at
  BY <1>14, <1>20 DEF StoreInv, WindowInv, Works
<1>22. ASSUME NEW d \in DOMAIN stack'
       PROVE  (Fetches(stack[d]) => FetchOK(stack[d]))' /\ (Reads(stack[d]) => ReadOK(stack[d]))'
  <2>1. CASE d = Len(stack)
    <3>1. stack'[d] = g
      BY <1>14, <2>1
    <3>2. ~Fetches(stack[d])'
      BY <1>5, <3>1 DEF Fetches
    <3>3. (since = Never => floor >= stack[d].at - LookBack \/ stack[d].at <= LookBack)'
      <4>1. since = Never => Top.from = Top.at - LookBack
        BY <1>12 DEF FetchOK
      <4>2. since = Never => floor' >= Top.at - LookBack \/ Top.at <= LookBack
        BY <1>10, <1>11, <4>1
      <4> QED BY <1>5, <1>9, <3>1, <4>2
    <3>4. ASSUME NEW m \in stored, Topic(m) \in Top.topics, floor' <= sent[m],
                 sent[m] < Top.at - Overlap
          PROVE  Accounted(m)' \/ m \in page
      <4>1. CASE sent[m] >= Top.from
        BY <1>7, <1>8, <3>4, <4>1 DEF Accounted
      <4>2. CASE sent[m] < Top.from
        <5>1. Top.from > 0
          BY <1>11, <4>2
        <5>2. since # Never
          BY <1>10, <1>11, <3>4, <4>2, <5>1
        <5>3. floor <= sent[m] /\ ~(Top.from <= 0) /\ ~(Top.from <= floor)
          BY <1>11, <1>15, <3>4, <4>2, <5>1
        <5>4. AccountedBefore(Top.from)
          BY <1>12, <5>2, <5>3 DEF FetchOK
        <5>5. Accounted(m)
          BY <4>2, <5>3, <5>4 DEF AccountedBefore
        <5> QED BY <1>16, <5>5
      <4> QED BY <1>11, <4>1, <4>2
    <3>5. ReadOK(stack[d])'
      <4>1. \A m \in stored' : Topic(m) \in stack'[d].topics /\ floor' <= sent'[m]
                                 /\ sent'[m] < stack'[d].at - Overlap
                               => Accounted(m)' \/ m \in stack'[d].todo
        BY <1>5, <1>9, <3>1, <3>4
      <4> QED BY <3>3, <4>1 DEF ReadOK
    <3> QED BY <3>2, <3>5
  <2>2. CASE d # Len(stack)
    BY <1>9, <1>14, <1>15, <1>16, <2>2, OthersKeep
  <2> QED BY <2>1, <2>2
<1>23. (since = Never /\ floor # 0 =>
          \E d \in DOMAIN stack : Reads(stack[d]) /\ floor <= stack[d].at - LookBack)'
  <2>1. CASE since = Never /\ Top.from > 0
    <3>1. Top.from = Top.at - LookBack
      BY <1>12, <2>1 DEF FetchOK
    <3>2. Len(stack) \in DOMAIN stack' /\ Reads(stack'[Len(stack)])
          /\ floor' <= stack'[Len(stack)].at - LookBack
      <4>1. floor' <= Top.at - LookBack
        BY <1>10, <1>11, <2>1, <3>1
      <4>2. stack'[Len(stack)].at = Top.at
        BY <1>5, <1>14
      <4>3. Len(stack) \in DOMAIN stack' /\ Reads(stack'[Len(stack)])
        BY <1>2, <1>12, <1>14
      <4> QED BY <4>1, <4>2, <4>3
    <3> QED BY <3>2 DEF Reads
  <2>2. CASE since = Never /\ ~(Top.from > 0) /\ floor # 0
    <3>1. PICK d \in DOMAIN stack : Reads(stack[d]) /\ floor <= stack[d].at - LookBack
      BY <2>2 DEF StoreInv, WindowInv
    <3>2. d # Len(stack)
      BY <1>1, <1>2, <3>1 DEF Reads
    <3>3. d \in DOMAIN stack' /\ stack'[d] = stack[d] /\ floor' = floor
      BY <1>10, <1>14, <2>2, <3>1, <3>2
    <3> QED BY <3>1, <3>3 DEF Reads
  <2> QED BY <1>9, <1>10, <2>1, <2>2
<1>24. WindowInv'
  BY <1>18, <1>19, <1>21, <1>22, <1>23 DEF WindowInv, Works, Fetches, Reads
<1> QED BY <1>14, <1>17, <1>24 DEF StoreInv

LEMMA ReadNextSteps ==
  ASSUME MarketSpecInv, StoreInv, NEW m \in Messages, ReadNext(m)
  PROVE  StoreInv'
<1> DEFINE g == [Top EXCEPT !.todo = {n \in @ \ {m} : sent[n] >= sent[m]},
                            !.pc = IF Slow(m) THEN "handling" ELSE "reading"]
<1>1. stack # <<>> /\ Top.pc = "reading" /\ m \in Top.todo \ seen
      /\ \A n \in Top.todo \ seen : sent[m] <= sent[n]
  BY DEF ReadNext, At
<1>2. /\ Len(stack) \in Nat \ {0} /\ Len(stack) \in DOMAIN stack
      /\ DOMAIN stack = 1..Len(stack)
      /\ Top = stack[Len(stack)] /\ Top \in Calls /\ CallOK(Top, now)
  BY <1>1, TopCall DEF StoreInv
<1>3. Reads(Top) /\ ReadOK(Top) /\ Top.todo \subseteq stored /\ Top.op \in Polling
  BY <1>1, <1>2 DEF Reads, StoreInv, StoreOK, WindowInv, CallOK
<1>4. /\ g \in Calls /\ g.todo = {n \in Top.todo \ {m} : sent[n] >= sent[m]}
      /\ g.pc \in {"reading", "handling"} /\ g.op = Top.op
      /\ g.at = Top.at /\ g.topics = Top.topics
  <2>1. {"reading", "handling"} \subseteq Steps
    BY DEF Steps
  <2>2. {n \in Top.todo \ {m} : sent[n] >= sent[m]} \in SUBSET (Topics \cup Messages)
    BY <1>2 DEF Calls
  <2> QED BY <1>2, <2>1, <2>2 DEF Calls
<1>5. Become(g)
  BY DEF ReadNext
<1> HIDE DEF g
<1>6. UNCHANGED <<now, sent, stored, since, excused, floor>>
      /\ handed' = [handed EXCEPT ![m] = @ + 1]
  BY DEF ReadNext, Note, Learn, Cache
<1>7. /\ now \in Nat /\ floor \in Nat /\ LookBack \in Nat /\ Overlap \in Nat
      /\ \A n \in stored : sent[n] \in Nat
      /\ \A d \in DOMAIN stack : stack[d].at \in Nat /\ stack[d].from \in Int
      /\ Top.at \in Nat /\ now <= now' /\ handed \in [Messages -> Nat]
  <2>1. /\ now \in Nat /\ floor \in Nat /\ LookBack \in Nat /\ Overlap \in Nat
        /\ \A n \in stored : sent[n] \in Nat
        /\ \A d \in DOMAIN stack : stack[d].at \in Nat /\ stack[d].from \in Int
        /\ handed \in [Messages -> Nat]
    BY Numbers DEF StoreInv
  <2>2. Top.at \in Nat
    BY <1>2, <2>1
  <2>3. now <= now'
    BY <1>6, <2>1
  <2> QED BY <2>1, <2>2, <2>3
<1>8. Works(Top) /\ Works(g) /\ Reads(g)
  <2>1. g.op # "pushed" /\ g.pc \in {"reading", "handling"}
    BY <1>3, <1>4 DEF Polling
  <2> QED BY <1>3, <2>1 DEF Works, Reads
<1>9. CallOK(g, now')
  BY <1>2, <1>3, <1>4, <1>6 DEF CallOK, Reconciles, Polling, Listing
<1>10. /\ CallsOK' /\ DOMAIN stack' = DOMAIN stack /\ stack'[Len(stack)] = g
       /\ \A d \in DOMAIN stack : d # Len(stack) => stack'[d] = stack[d]
  BY <1>1, <1>4, <1>5, <1>6, <1>7, <1>9, BecomeStack DEF StoreInv
<1>11. /\ handed'[m] > 0 /\ \A n \in Messages : handed[n] > 0 => handed'[n] > 0
  BY <1>6, <1>7
<1>12. \A n \in stored : Accounted(n) => Accounted(n)'
  BY <1>6, <1>11 DEF Accounted, StoreInv, StoreOK
<1>13. seen' = {m} \/ (seen' = seen \cup {m} /\ ~(Cardinality(seen) > SeenCap))
  BY DEF ReadNext, Remember
<1>14. StoreOK'
  <2>1. IsFiniteSet(seen') /\ Cardinality(seen') <= SeenCap + 1
    <3>1. SeenCap \in Nat /\ IsFiniteSet(seen) /\ Cardinality(seen) \in Nat
      BY FS_CardinalityType DEF StoreInv, StoreOK
    <3>2. IsFiniteSet({m}) /\ Cardinality({m}) = 1
      BY FS_Singleton
    <3>3. IsFiniteSet(seen \cup {m}) /\ Cardinality(seen \cup {m}) = Cardinality(seen) + 1
      BY <1>1, <3>1, FS_AddElement, Zenon
    <3>4. CASE seen' = {m}
      BY <3>1, <3>2, <3>4
    <3>5. CASE seen' = seen \cup {m} /\ ~(Cardinality(seen) > SeenCap)
      <4>1. Cardinality(seen \cup {m}) \in Nat
        BY <3>3, FS_CardinalityType
      <4> QED BY <3>1, <3>3, <3>5, <4>1
    <3> QED BY <1>13, <3>4, <3>5
  <2>2. seen' \subseteq stored
    BY <1>1, <1>3, <1>13 DEF StoreInv, StoreOK
  <2>3. \A d \in DOMAIN stack' : Reads(stack'[d]) => stack'[d].todo \subseteq stored
    BY <1>3, <1>4, <1>10 DEF StoreInv, StoreOK
  <2> QED BY <1>6, <2>1, <2>2, <2>3 DEF StoreInv, StoreOK
<1>15. (\A n \in seen : handed[n] > 0)'
  <2>1. \A n \in seen : n \in Messages /\ handed[n] > 0
    BY DEF StoreInv, StoreOK, WindowInv
  <2> QED BY <1>11, <1>13, <2>1
<1>16. (since # Never => since <= now /\ AccountedBefore(since - Overlap))'
  <2>1. AccountedBefore(since - Overlap) => AccountedBefore(since - Overlap)'
    BY <1>6, <1>12 DEF AccountedBefore
  <2> QED BY <1>6, <2>1 DEF StoreInv, WindowInv
<1>17. \A d \in DOMAIN stack : (Works(stack'[d]) => Works(stack[d])) /\ stack'[d].at = stack[d].at
  BY <1>2, <1>4, <1>8, <1>10
<1>18. \A d, e \in DOMAIN stack' : d < e /\ Works(stack'[d]) /\ Works(stack'[e])
                                   => stack'[d].at <= stack'[e].at
  BY <1>10, <1>17 DEF StoreInv, WindowInv, Works
<1>19. ASSUME NEW d \in DOMAIN stack'
       PROVE  (Fetches(stack[d]) => FetchOK(stack[d]))' /\ (Reads(stack[d]) => ReadOK(stack[d]))'
  <2>1. CASE d = Len(stack)
    <3>1. stack'[d] = g
      BY <1>10, <2>1
    <3>2. ~Fetches(stack[d])'
      BY <1>4, <3>1 DEF Fetches
    <3>3. (since = Never => floor >= stack[d].at - LookBack \/ stack[d].at <= LookBack)'
      BY <1>3, <1>4, <1>6, <3>1 DEF ReadOK
    <3>4. ASSUME NEW n \in stored, n \in Top.todo, n \notin g.todo
          PROVE  Accounted(n)'
      <4>1. CASE n = m
        BY <1>11, <4>1 DEF Accounted
      <4>2. CASE n # m
        <5>1. ~(sent[n] >= sent[m])
          BY <1>4, <3>4, <4>2
        <5>2. n \in seen
          BY <1>1, <1>3, <1>7, <3>4, <5>1
        <5>3. Accounted(n)
          BY <5>2 DEF Accounted, StoreInv, WindowInv
        <5> QED BY <1>12, <5>3
      <4> QED BY <4>1, <4>2
    <3>5. ReadOK(stack[d])'
      <4>1. \A n \in stored' : Topic(n) \in stack'[d].topics /\ floor' <= sent'[n]
                                 /\ sent'[n] < stack'[d].at - Overlap
                               => Accounted(n)' \/ n \in stack'[d].todo
        BY <1>3, <1>4, <1>6, <1>12, <3>1, <3>4 DEF ReadOK
      <4> QED BY <3>3, <4>1 DEF ReadOK
    <3> QED BY <3>2, <3>5
  <2>2. CASE d # Len(stack)
    BY <1>6, <1>7, <1>10, <1>12, <2>2, OthersKeep
  <2> QED BY <2>1, <2>2
<1>20. (since = Never /\ floor # 0 =>
          \E d \in DOMAIN stack : Reads(stack[d]) /\ floor <= stack[d].at - LookBack)'
  <2>1. CASE since = Never /\ floor # 0
    <3>1. PICK d \in DOMAIN stack : Reads(stack[d]) /\ floor <= stack[d].at - LookBack
      BY <2>1 DEF StoreInv, WindowInv
    <3>2. Reads(stack'[d]) /\ stack'[d].at = stack[d].at
      BY <1>2, <1>8, <1>10, <1>17, <3>1
    <3> QED BY <1>6, <1>10, <3>1, <3>2 DEF Reads
  <2> QED BY <1>6, <2>1
<1>21. WindowInv'
  BY <1>15, <1>16, <1>18, <1>19, <1>20 DEF WindowInv, Works, Fetches, Reads
<1> QED BY <1>10, <1>14, <1>21 DEF StoreInv

\* The page is read: what the window passes by now was handed over, or was not asked for.
LEMMA PollEndsSteps ==
  ASSUME MarketSpecInv, StoreInv, PollEnds
  PROVE  StoreInv'
<1>1. stack # <<>> /\ Top.pc = "reading" /\ Top.todo \subseteq seen
  BY DEF PollEnds, At
<1>2. /\ Len(stack) \in Nat \ {0} /\ Len(stack) \in DOMAIN stack
      /\ DOMAIN stack = 1..Len(stack)
      /\ Top = stack[Len(stack)] /\ Top \in Calls /\ CallOK(Top, now)
  BY <1>1, TopCall DEF StoreInv
<1>3. Reads(Top) /\ Works(Top) /\ ReadOK(Top) /\ Top.op \in Polling
  BY <1>1, <1>2 DEF Reads, Works, StoreInv, WindowInv, CallOK
<1>4. UNCHANGED <<now, sent, stored, seen, handed, floor>> /\ since' = Top.at
      /\ excused' = excused \cup {m \in Messages : Topic(m) \notin Top.topics}
      /\ AfterPoll
  BY DEF PollEnds
<1>5. /\ now \in Nat /\ floor \in Nat /\ LookBack \in Nat /\ Overlap \in Nat
      /\ \A n \in stored : n \in Messages /\ sent[n] \in Nat
      /\ \A d \in DOMAIN stack : stack[d].at \in Nat /\ stack[d].from \in Int
      /\ Top.at \in Nat /\ Top.at <= now /\ now <= now' /\ now' = now
      /\ Never < 0 /\ Never \in Int
  <2>1. /\ now \in Nat /\ floor \in Nat /\ LookBack \in Nat /\ Overlap \in Nat
        /\ \A n \in stored : n \in Messages /\ sent[n] \in Nat
        /\ \A d \in DOMAIN stack : /\ stack[d].at \in Nat /\ stack[d].from \in Int
                                   /\ stack[d].at <= now
        /\ Never < 0 /\ Never \in Int
    BY Numbers DEF StoreInv
  <2>2. Top.at \in Nat /\ Top.at <= now
    BY <1>2, <2>1
  <2>3. now <= now' /\ now' = now
    BY <1>4, <2>1
  <2> QED BY <2>1, <2>2, <2>3
<1>6. since' # Never /\ since' \in 0..MaxTime
  BY <1>2, <1>4, <1>5 DEF Calls
\* The activations that go on.
<1>7. /\ CallsOK'
      /\ \A d \in DOMAIN stack' : /\ d \in DOMAIN stack
                                  /\ IF d = Len(stack) THEN ~Works(stack'[d])
                                     ELSE stack'[d] = stack[d]
  <2>1. CASE Top.op = "poll"
    <3>1. Pop
      BY <1>4, <2>1 DEF AfterPoll
    <3> QED BY <1>1, <1>5, <3>1, PopStack DEF StoreInv
  <2>2. CASE Top.op # "poll"
    <3>1. Call("discover", "arming") \in Calls /\ Call("discover", "arming").op = "discover"
          /\ Call("discover", "arming").pc = "arming" /\ Call("discover", "arming").topics = {}
          /\ Call("discover", "arming").at = 0
      BY Called DEF Polling, Steps
    <3>2. CallOK(Call("discover", "arming"), now')
      BY <1>5, <3>1 DEF CallOK, Polling, Reconciles, Listing
    <3>3. Become(Call("discover", "arming"))
      BY <1>4, <2>2 DEF AfterPoll
    <3>4. ~Works(Call("discover", "arming"))
      BY <3>1 DEF Works, Fetches, Reads
    <3>5. /\ CallsOK' /\ DOMAIN stack' = DOMAIN stack
          /\ stack'[Len(stack)] = Call("discover", "arming")
          /\ \A d \in DOMAIN stack : d # Len(stack) => stack'[d] = stack[d]
      BY <1>1, <1>5, <3>1, <3>2, <3>3, BecomeStack DEF StoreInv
    <3> QED BY <3>4, <3>5
  <2> QED BY <2>1, <2>2
<1>8. \A d \in DOMAIN stack' : Works(stack'[d]) => /\ d \in DOMAIN stack /\ d < Len(stack)
                                                   /\ stack'[d] = stack[d]
  BY <1>2, <1>7
<1>9. \A m \in stored : Accounted(m) => Accounted(m)'
  BY <1>4 DEF Accounted
<1>10. StoreOK'
  <2>1. \A d \in DOMAIN stack' : Reads(stack'[d]) => stack'[d].todo \subseteq stored
    BY <1>8 DEF StoreInv, StoreOK, Works
  <2> QED BY <1>4, <1>6, <2>1 DEF StoreInv, StoreOK
<1>11. (\A m \in seen : handed[m] > 0)'
  BY <1>4 DEF StoreInv, WindowInv
<1>12. (since # Never => since <= now /\ AccountedBefore(since - Overlap))'
  <2>1. ASSUME NEW m \in stored, floor <= sent[m], sent[m] < Top.at - Overlap
        PROVE  Accounted(m)'
    <3>1. CASE Topic(m) \in Top.topics
      <4>1. Accounted(m) \/ m \in Top.todo
        BY <1>3, <2>1, <3>1 DEF ReadOK
      <4>2. m \in Top.todo => Accounted(m)
        BY <1>1 DEF Accounted, StoreInv, WindowInv
      <4> QED BY <1>9, <4>1, <4>2
    <3>2. CASE Topic(m) \notin Top.topics
      BY <1>4, <1>5, <3>2 DEF Accounted
    <3> QED BY <3>1, <3>2
  <2>2. AccountedBefore(since - Overlap)'
    BY <1>4, <2>1 DEF AccountedBefore
  <2> QED BY <1>4, <1>5, <2>2
<1>13. \A d, e \in DOMAIN stack' : d < e /\ Works(stack'[d]) /\ Works(stack'[e])
                                   => stack'[d].at <= stack'[e].at
  BY <1>8 DEF StoreInv, WindowInv, Works
<1>14. ASSUME NEW d \in DOMAIN stack'
       PROVE  (Fetches(stack[d]) => FetchOK(stack[d]))' /\ (Reads(stack[d]) => ReadOK(stack[d]))'
  <2>1. CASE Works(stack'[d])
    <3>1. d \in DOMAIN stack /\ d < Len(stack) /\ stack'[d] = stack[d] /\ Works(stack[d])
      BY <1>8, <2>1
    <3>2. (Fetches(stack[d]) => FetchOK(stack[d])) /\ (Reads(stack[d]) => ReadOK(stack[d]))
      BY <3>1 DEF StoreInv, WindowInv
    <3>3. stack[d].at <= Top.at
      BY <1>2, <1>3, <3>1 DEF StoreInv, WindowInv, Works
    <3>4. FetchOK(stack[d]) => FetchOK(stack[d])'
      <4>1. CASE since = Never
        <5>1. floor >= Top.at - LookBack \/ Top.at <= LookBack
          BY <1>3, <4>1 DEF ReadOK
        <5>2. FetchOK(stack[d]) => stack[d].from <= 0 \/ stack[d].from <= floor
          <6>1. FetchOK(stack[d]) => stack[d].from = stack[d].at - LookBack
            BY <4>1 DEF FetchOK
          <6>2. stack[d].at \in Nat /\ stack[d].from \in Int
            BY <1>5, <3>1
          <6>3. stack[d].from = stack[d].at - LookBack
                  => stack[d].from <= 0 \/ stack[d].from <= floor
            BY <1>5, <3>3, <5>1, <6>2
          <6> QED BY <6>1, <6>3
        <5> QED BY <1>4, <1>6, <3>1, <5>2 DEF FetchOK
      <4>2. CASE since # Never
        <5>1. AccountedBefore(stack[d].from) => AccountedBefore(stack[d].from)'
          BY <1>4, <1>9, <3>1 DEF AccountedBefore
        <5> QED BY <1>4, <1>6, <3>1, <4>2, <5>1 DEF FetchOK
      <4> QED BY <4>1, <4>2
    <3>5. ReadOK(stack[d]) => ReadOK(stack[d])'
      <4>1. ReadOK(stack[d]) =>
              \A m \in stored : Topic(m) \in stack[d].topics /\ floor <= sent[m]
                                  /\ sent[m] < stack[d].at - Overlap
                                => Accounted(m)' \/ m \in stack[d].todo
        BY <1>9 DEF ReadOK
      <4> QED BY <1>4, <1>6, <3>1, <4>1 DEF ReadOK
    <3> QED BY <3>1, <3>2, <3>4, <3>5 DEF Fetches, Reads
  <2>2. CASE ~Works(stack'[d])
    BY <2>2 DEF Works, Fetches, Reads
  <2> QED BY <2>1, <2>2
<1>15. WindowInv'
  BY <1>6, <1>11, <1>12, <1>13, <1>14 DEF WindowInv, Works, Fetches, Reads
<1> QED BY <1>7, <1>10, <1>15 DEF StoreInv

\* Time and the store.  A message lands within Overlap, so no window has passed it yet.
LEMMA TickSteps ==
  ASSUME MarketSpecInv, StoreInv, Tick
  PROVE  StoreInv'
<1>1. now' = now + 1 /\ now < MaxTime
      /\ UNCHANGED <<stack, sent, stored, seen, since, handed, excused, floor>>
  BY DEF Tick, intakeVars
<1>2. /\ now \in Nat /\ Overlap \in Nat /\ since \in Int
      /\ \A m \in stored : sent[m] \in Nat /\ sent[m] <= now
      /\ \A d \in DOMAIN stack : stack[d] \in Calls /\ stack[d].at \in Nat
                                 /\ stack[d].from \in Int
  BY Numbers DEF StoreInv
<1>3. CallsOK'
  <2>1. \A d \in DOMAIN stack : CallOK(stack[d], now')
    <3> SUFFICES ASSUME NEW d \in DOMAIN stack PROVE CallOK(stack[d], now')
      OBVIOUS
    <3>1. CallOK(stack[d], now) /\ now <= now' /\ now \in Int /\ now' \in Int
      BY <1>1, <1>2 DEF StoreInv, CallsOK
    <3> QED BY <1>2, <3>1, Older
  <2> QED BY <1>1, <2>1 DEF StoreInv, CallsOK
<1>4. StoreOK'
  BY <1>1, <1>2 DEF StoreInv, StoreOK, Reads
<1>5. (\A m \in seen : handed[m] > 0)'
  BY <1>1 DEF StoreInv, WindowInv
<1>6. (since # Never => since <= now /\ AccountedBefore(since - Overlap))'
  BY <1>1, <1>2 DEF StoreInv, WindowInv, AccountedBefore, Accounted
<1>7. \A d, e \in DOMAIN stack' : d < e /\ Works(stack'[d]) /\ Works(stack'[e])
                                   => stack'[d].at <= stack'[e].at
  BY <1>1 DEF StoreInv, WindowInv, Works
<1>8. ASSUME NEW d \in DOMAIN stack
      PROVE  (Fetches(stack[d]) => FetchOK(stack[d]))' /\ (Reads(stack[d]) => ReadOK(stack[d]))'
  <2>1. (Fetches(stack[d]) => FetchOK(stack[d])) /\ (Reads(stack[d]) => ReadOK(stack[d]))
    BY DEF StoreInv, WindowInv
  <2>2. FetchOK(stack[d]) => FetchOK(stack[d])'
    BY <1>1, <1>2 DEF FetchOK, AccountedBefore, Accounted
  <2>3. ReadOK(stack[d]) => ReadOK(stack[d])'
    BY <1>1 DEF ReadOK, Accounted
  <2> QED BY <1>1, <2>1, <2>2, <2>3 DEF Fetches, Reads
<1>9. (since = Never /\ floor # 0 =>
         \E d \in DOMAIN stack : Reads(stack[d]) /\ floor <= stack[d].at - LookBack)'
  BY <1>1 DEF StoreInv, WindowInv, Reads
<1>10. WindowInv'
  BY <1>1, <1>5, <1>6, <1>7, <1>8, <1>9 DEF WindowInv, Works, Fetches, Reads
<1> QED BY <1>3, <1>4, <1>10 DEF StoreInv

LEMMA LandSteps ==
  ASSUME MarketSpecInv, StoreInv, NEW m \in Messages, NEW at \in 0..MaxTime,
         at <= now, now <= at + Overlap, Land(m, at)
  PROVE  StoreInv'
<1>1. /\ m \notin stored /\ stored' = stored \cup {m} /\ sent' = [sent EXCEPT ![m] = at]
      /\ UNCHANGED <<stack, now, seen, since, handed, excused, floor>>
  BY DEF Land
<1>2. /\ now \in Nat /\ Overlap \in Nat /\ since \in Int /\ at \in Nat
      /\ \A n \in stored : n \in Messages /\ sent[n] \in Nat /\ sent[n] <= now
      /\ \A d \in DOMAIN stack : stack[d].at \in Nat /\ stack[d].from \in Int
                                 /\ stack[d].at <= now
  BY Numbers DEF StoreInv
<1>3. sent'[m] = at /\ \A n \in stored : n # m /\ sent'[n] = sent[n]
  BY <1>1, <1>2 DEF StoreInv, StoreOK
<1>4. \A n \in stored' : n \in stored \/ n = m
  BY <1>1
<1>5. CallsOK'
  BY <1>1 DEF StoreInv, CallsOK
<1>6. StoreOK'
  <2>1. sent' \in [Messages -> 0..MaxTime \cup {Never}]
    BY <1>1 DEF StoreInv, StoreOK
  <2>2. stored' \subseteq Messages /\ seen' \subseteq stored'
    BY <1>1 DEF StoreInv, StoreOK
  <2>3. \A n \in stored' : sent'[n] \in 0..now'
    BY <1>1, <1>2, <1>3, <1>4
  <2>4. \A d \in DOMAIN stack' : Reads(stack'[d]) => stack'[d].todo \subseteq stored'
    BY <1>1 DEF StoreInv, StoreOK
  <2> QED BY <1>1, <2>1, <2>2, <2>3, <2>4 DEF StoreInv, StoreOK, Reads
<1>7. (\A n \in seen : handed[n] > 0)'
  BY <1>1 DEF StoreInv, WindowInv
<1>8. (since # Never => since <= now /\ AccountedBefore(since - Overlap))'
  BY <1>1, <1>2, <1>3, <1>4 DEF StoreInv, WindowInv, AccountedBefore, Accounted
<1>9. \A d, e \in DOMAIN stack' : d < e /\ Works(stack'[d]) /\ Works(stack'[e])
                                   => stack'[d].at <= stack'[e].at
  BY <1>1 DEF StoreInv, WindowInv, Works
<1>10. ASSUME NEW d \in DOMAIN stack
      PROVE  (Fetches(stack[d]) => FetchOK(stack[d]))' /\ (Reads(stack[d]) => ReadOK(stack[d]))'
  <2>1. (Fetches(stack[d]) => FetchOK(stack[d])) /\ (Reads(stack[d]) => ReadOK(stack[d]))
    BY DEF StoreInv, WindowInv
  <2>2. FetchOK(stack[d]) => FetchOK(stack[d])'
    <3>1. stack[d].from <= now - Overlap /\ AccountedBefore(stack[d].from)
            => AccountedBefore(stack[d].from)'
      BY <1>1, <1>2, <1>3, <1>4 DEF AccountedBefore, Accounted
    <3> QED BY <1>1, <3>1 DEF FetchOK
  <2>3. ReadOK(stack[d]) => ReadOK(stack[d])'
    BY <1>1, <1>2, <1>3, <1>4 DEF ReadOK, Accounted
  <2> QED BY <1>1, <2>1, <2>2, <2>3 DEF Fetches, Reads
<1>11. (since = Never /\ floor # 0 =>
         \E d \in DOMAIN stack : Reads(stack[d]) /\ floor <= stack[d].at - LookBack)'
  BY <1>1 DEF StoreInv, WindowInv, Reads
<1>12. WindowInv'
  BY <1>1, <1>7, <1>8, <1>9, <1>10, <1>11 DEF WindowInv, Works, Fetches, Reads
<1> QED BY <1>5, <1>6, <1>12 DEF StoreInv

\* What was in memory is gone: nothing works, and nothing was looked at.
LEMMA RestartReads ==
  ASSUME MarketSpecInv, StoreInv, persisted \in BOOLEAN, Restart
  PROVE  StoreInv'
<1>1. /\ stack' = <<Reconciler("assert", persisted)>> /\ seen' = {} /\ since' = Never
      /\ floor' = 0 /\ UNCHANGED <<now, sent, stored, handed>>
  BY DEF Restart
<1>2. /\ Reconciler("assert", persisted) \in Calls
      /\ Reconciler("assert", persisted).op = "assert"
      /\ Reconciler("assert", persisted).pc = "subscribe"
      /\ Reconciler("assert", persisted).at = 0
      /\ Reconciler("assert", persisted).topics = IdentityTopics(persisted)
  BY ReconcilerCalled DEF Listing
<1>3. DOMAIN stack' = {1} /\ stack'[1] = Reconciler("assert", persisted)
      /\ stack' \in Seq(Calls)
  BY <1>1, <1>2
<1>4. now' \in Nat
  BY <1>1, Numbers DEF StoreInv
<1>5. CallOK(Reconciler("assert", persisted), now')
  BY <1>2, <1>4 DEF CallOK, Reconciles, Polling, Listing, IdentityTopics
<1>6. ~Fetches(Reconciler("assert", persisted)) /\ ~Reads(Reconciler("assert", persisted))
  BY <1>2 DEF Fetches, Reads
<1>7. CallsOK'
  BY <1>3, <1>5 DEF CallsOK
<1>8. \A d \in DOMAIN stack' : ~Fetches(stack'[d]) /\ ~Reads(stack'[d])
  BY <1>3, <1>6
<1>9. StoreOK'
  <2>1. IsFiniteSet({}) /\ Cardinality({}) = 0 /\ 0 <= SeenCap + 1
    BY FS_EmptySet
  <2> QED BY <1>1, <1>8, <2>1 DEF StoreInv, StoreOK
<1>10. WindowInv'
  BY <1>1, <1>8 DEF WindowInv, Fetches, Reads
<1> QED BY <1>7, <1>9, <1>10 DEF StoreInv

-------------------------------------------------------------------------------
(***************************************************************************)
(* The other steps leave the store and its windows alone.                  *)
(***************************************************************************)
LEMMA PushedKept ==
  ASSUME MarketSpecInv, StoreInv, NEW m \in Messages, Pushed(m)
  PROVE  StoreInv'
<1>1. UNCHANGED StoreVars
  BY DEF Pushed, StoreVars, Note, Learn, Cache
<1>2. CASE UNCHANGED stack
  <2>1. CallsOK'
    BY <1>1, <1>2 DEF StoreInv, CallsOK, StoreVars
  <2>2. \A d \in DOMAIN stack : d \in DOMAIN stack' /\ Like(stack'[d], stack[d])
    BY <1>2 DEF Like
  <2>3. \A d \in DOMAIN stack' : d \in DOMAIN stack
    BY <1>2
  <2>4. StoreOK' /\ WindowInv'
    BY <1>1, <2>2, <2>3, Kept DEF StoreInv
  <2> QED BY <2>1, <2>4 DEF StoreInv
<1>3. CASE Push(Call("pushed", "handling"))
  <2>1. /\ Call("pushed", "handling") \in Calls /\ Call("pushed", "handling").op = "pushed"
        /\ Call("pushed", "handling").pc = "handling" /\ Call("pushed", "handling").at = 0
    BY Called DEF Steps
  <2>2. CallOK(Call("pushed", "handling"), now)
    <3>1. now \in Nat
      BY Numbers DEF StoreInv
    <3> QED BY <2>1, <3>1 DEF CallOK, Polling, Listing, Reconciles
  <2>3. ~Works(Call("pushed", "handling"))
    BY <2>1 DEF Works, Fetches, Reads
  <2> QED BY <1>1, <1>3, <2>1, <2>2, <2>3, PushKept DEF StoreInv
<1> QED BY <1>2, <1>3 DEF Pushed

LEMMA FetchFailsKept ==
  ASSUME MarketSpecInv, StoreInv, FetchFails
  PROVE  StoreInv'
<1>1. UNCHANGED StoreVars /\ stack # <<>> /\ Top.pc = "fetching" /\ AfterPoll
  BY DEF FetchFails, intakeVars, StoreVars, At
<1>2. ~Reads(Top) /\ now \in Int
  BY <1>1, Numbers DEF Reads, StoreInv
<1>3. CASE Top.op = "poll"
  BY <1>1, <1>2, <1>3, PopKept DEF AfterPoll, StoreInv
<1>4. CASE Top.op # "poll"
  <2>1. /\ Call("discover", "arming") \in Calls /\ Call("discover", "arming").op = "discover"
        /\ Call("discover", "arming").pc = "arming" /\ Call("discover", "arming").at = 0
        /\ Call("discover", "arming").topics = {}
    BY Called DEF Polling, Steps
  <2>2. CallOK(Call("discover", "arming"), now)
    <3>1. now \in Nat
      BY Numbers DEF StoreInv
    <3> QED BY <2>1, <3>1 DEF CallOK, Polling, Listing, Reconciles
  <2>3. ~Works(Call("discover", "arming"))
    BY <2>1 DEF Works, Fetches, Reads
  <2>4. Become(Call("discover", "arming"))
    BY <1>1, <1>4 DEF AfterPoll
  <2> QED BY <1>1, <1>2, <2>1, <2>2, <2>3, <2>4, BecomeKept DEF StoreInv
<1> QED BY <1>3, <1>4

\* An activation that ends and read nothing.
LEMMA EndsKept ==
  ASSUME MarketSpecInv, StoreInv, PushHandled \/ Armed \/ ReconcileEnds
  PROVE  StoreInv'
<1>1. UNCHANGED StoreVars /\ stack # <<>> /\ Pop
  BY DEF PushHandled, Armed, ReconcileEnds, intakeVars, StoreVars, At
<1>2. ~Reads(Top)
  BY DEF PushHandled, Armed, ReconcileEnds, At, Reads
<1> QED BY <1>1, <1>2, PopKept DEF StoreInv

LEMMA HandledKept ==
  ASSUME MarketSpecInv, StoreInv, Handled
  PROVE  StoreInv'
<1> DEFINE g == [Top EXCEPT !.pc = "reading"]
<1>1. UNCHANGED StoreVars /\ stack # <<>> /\ Top.pc = "handling" /\ Top.op # "pushed" /\ Become(g)
  BY DEF Handled, intakeVars, StoreVars, At, Goto
<1>2. Top \in Calls /\ CallOK(Top, now) /\ now \in Int
  BY <1>1, TopCall, Numbers DEF StoreInv
<1>3. /\ g \in Calls /\ g.pc = "reading" /\ g.op = Top.op /\ g.at = Top.at
      /\ g.from = Top.from /\ g.topics = Top.topics /\ g.todo = Top.todo
  BY <1>2 DEF Calls, Steps
<1> HIDE DEF g
<1>4. CallOK(g, now) /\ Like(g, Top)
  BY <1>1, <1>2, <1>3 DEF CallOK, Like, Fetches, Reads, Reconciles, Polling, Listing
<1> QED BY <1>1, <1>2, <1>3, <1>4, BecomeKept DEF StoreInv

\* A reconciliation begins or goes on.
LEMMA ReconcileKept ==
  ASSUME MarketSpecInv, StoreInv, UNCHANGED StoreVars,
         NEW op \in Listing, NEW isOpen \in BOOLEAN, Push(Reconciler(op, isOpen))
  PROVE  StoreInv'
<1>1. /\ Reconciler(op, isOpen) \in Calls
      /\ Reconciler(op, isOpen).op = op
      /\ Reconciler(op, isOpen).pc = "subscribe"
      /\ Reconciler(op, isOpen).at = 0
      /\ Reconciler(op, isOpen).topics = IdentityTopics(isOpen)
  BY ReconcilerCalled
<1>2. CallOK(Reconciler(op, isOpen), now)
  <2>1. now \in Nat
    BY Numbers DEF StoreInv
  <2> QED BY <1>1, <2>1 DEF CallOK, Polling, Listing, Reconciles, IdentityTopics
<1>3. ~Works(Reconciler(op, isOpen))
  BY <1>1 DEF Works, Fetches, Reads
<1> QED BY <1>1, <1>2, <1>3, PushKept DEF StoreInv

LEMMA GoesOnKept ==
  ASSUME MarketSpecInv, StoreInv, UNCHANGED StoreVars, stack # <<>>,
         Top.pc \in {"subscribe", "subscribing", "unsubscribing"},
         NEW g \in Calls, g.pc \in {"subscribe", "subscribing", "unsubscribing"},
         g.op = Top.op, g.at = Top.at, g.topics = Top.topics, Become(g)
  PROVE  StoreInv'
<1>1. Top \in Calls /\ CallOK(Top, now) /\ now \in Int
  BY TopCall, Numbers DEF StoreInv
<1>2. CallOK(g, now)
  BY <1>1 DEF CallOK, Reconciles, Polling, Listing
<1>3. ~Reads(Top) /\ ~Works(g)
  BY DEF Works, Fetches, Reads
<1> QED BY <1>1, <1>2, <1>3, BecomeKept DEF StoreInv

-------------------------------------------------------------------------------
(***************************************************************************)
(* Steps aside: no reconciliation begins, moves or ends in them.           *)
(***************************************************************************)
\* What the stack is like after a step, of any activation.
LEMMA StackAfter ==
  ASSUME stack \in Seq(Calls)
  PROVE  /\ Len(stack) \in Nat /\ DOMAIN stack = 1..Len(stack)
         /\ \A f : Become(f) /\ stack # <<>> =>
              /\ DOMAIN stack' = DOMAIN stack /\ stack'[Len(stack)] = f
              /\ Len(stack) \in DOMAIN stack
              /\ \A d \in DOMAIN stack : d # Len(stack) => stack'[d] = stack[d]
         /\ Pop /\ stack # <<>> =>
              /\ DOMAIN stack' = 1..(Len(stack) - 1)
              /\ \A d \in DOMAIN stack' : d \in DOMAIN stack /\ stack'[d] = stack[d]
<1>1. Len(stack) \in Nat /\ DOMAIN stack = 1..Len(stack)
  OBVIOUS
<1>2. stack # <<>> => Len(stack) \in DOMAIN stack
  BY <1>1
<1>3. ASSUME NEW f, Become(f), stack # <<>>
      PROVE  /\ DOMAIN stack' = DOMAIN stack /\ stack'[Len(stack)] = f
             /\ \A d \in DOMAIN stack : d # Len(stack) => stack'[d] = stack[d]
  BY <1>1, <1>2, <1>3 DEF Become
<1>4. ASSUME Pop, stack # <<>>
      PROVE  /\ DOMAIN stack' = 1..(Len(stack) - 1)
             /\ \A d \in DOMAIN stack' : d \in DOMAIN stack /\ stack'[d] = stack[d]
  BY SMTT(40), <1>1, <1>2, <1>4 DEF Pop
<1> QED BY <1>1, <1>2, <1>3, <1>4

\* Where no reconciliation is about to subscribe, discovery is heard.
LEMMA DiscoveryHeard ==
  ASSUME ListenInv, ~At("subscribe")
  PROVE  "discovery" \in listening
BY DEF ListenInv, Orderly, DiscoveryFirst

LEMMA AsideSteps ==
  ASSUME ListenInv, UNCHANGED <<open, persisted, subscribed, raced>>,
         "discovery" \in listening', listening' \subseteq Topics, Heard' = Heard,
         \A d \in DOMAIN stack' : Reconciles(stack'[d]) => /\ d \in DOMAIN stack
                                                           /\ stack'[d] = stack[d],
         \A d \in DOMAIN stack : Reconciles(stack[d]) => /\ d \in DOMAIN stack'
                                                         /\ stack'[d] = stack[d]
  PROVE  ListenInv'
<1>1. DiscoveryFirst'
  BY DEF DiscoveryFirst
<1>2. Reconciling' <=> Reconciling
  BY DEF Reconciling, Reconciles, Listing
<1>3. ASSUME ~raced
      PROVE  Orderly'
  <2>1. \A d, e \in DOMAIN stack' : Reconciles(stack'[d]) /\ Reconciles(stack'[e]) => d = e
    BY <1>3 DEF ListenInv, Orderly
  <2>2. subscribed' \subseteq Listed
    BY <1>3 DEF ListenInv, Orderly
  <2>3. ~Reconciling' => /\ subscribed' = IdentityTopics(open') /\ Heard' = subscribed'
                         /\ persisted' = open'
    BY <1>2, <1>3 DEF ListenInv, Orderly
  <2>4. ASSUME NEW d \in DOMAIN stack', Reconciles(stack'[d])
        PROVE  RunOK(stack[d])'
    <3>1. d \in DOMAIN stack /\ stack'[d] = stack[d] /\ Reconciles(stack[d])
      BY <2>4
    <3>2. RunOK(stack[d])
      BY <1>3, <3>1 DEF ListenInv, Orderly
    <3> QED BY <3>1, <3>2 DEF RunOK
  <2> QED BY <2>1, <2>2, <2>3, <2>4 DEF Reconciles, Listed, Orderly
<1> QED BY <1>1, <1>3 DEF ListenInv, Orderly

LEMMA AsideQuiet ==
  ASSUME ListenInv, UNCHANGED <<stack, listenVars>>
  PROVE  ListenInv'
<1>1. DiscoveryFirst'
  BY DEF ListenInv, Orderly, DiscoveryFirst, At, Top, listenVars
<1>2. Heard' = Heard /\ (Reconciling' <=> Reconciling)
  BY DEF Heard, Listed, Reconciling, listenVars
<1>3. \A d \in DOMAIN stack' : (RunOK(stack[d]) => RunOK(stack[d])')
  BY <1>2 DEF RunOK, listenVars
<1> QED BY <1>1, <1>2, <1>3 DEF ListenInv, Orderly, listenVars, Reconciles, Listed

LEMMA AsidePush ==
  ASSUME StoreInv, ListenInv, UNCHANGED listenVars, ~At("subscribe"),
         NEW f \in Calls, CallOK(f, now), now' = now, ~Reconciles(f), Push(f)
  PROVE  ListenInv'
<1>1. /\ DOMAIN stack = 1..Len(stack) /\ DOMAIN stack' = 1..(Len(stack) + 1)
      /\ stack'[Len(stack) + 1] = f /\ Len(stack) \in Nat
      /\ \A d \in DOMAIN stack : d # Len(stack) + 1 /\ stack'[d] = stack[d]
  BY PushStack DEF StoreInv
<1>2. \A d \in DOMAIN stack' : Reconciles(stack'[d]) => d \in DOMAIN stack /\ stack'[d] = stack[d]
  <2> SUFFICES ASSUME NEW d \in DOMAIN stack', Reconciles(stack'[d])
               PROVE  d \in DOMAIN stack /\ stack'[d] = stack[d]
    OBVIOUS
  <2>1. d # Len(stack) + 1
    BY <1>1
  <2> QED BY <1>1, <2>1
<1>3. \A d \in DOMAIN stack : d \in DOMAIN stack' /\ stack'[d] = stack[d]
  BY <1>1
<1>4. "discovery" \in listening' /\ listening' \subseteq Topics /\ Heard' = Heard
  BY DiscoveryHeard DEF listenVars, ListenInv, Orderly, Heard, Listed
<1> QED BY <1>2, <1>3, <1>4, AsideSteps DEF listenVars

\* Steps of an activation that does not reconcile.
LEMMA AsideTop ==
  ASSUME StoreInv, ListenInv, stack # <<>>, ~Reconciles(Top),
         UNCHANGED <<open, persisted, subscribed, raced>>,
         listening \subseteq listening', listening' \subseteq listening \cup {"discovery", "named"},
         Pop \/ \E f : Become(f) /\ ~Reconciles(f)
  PROVE  ListenInv'
<1>1. /\ Len(stack) \in Nat \ {0} /\ Len(stack) \in DOMAIN stack
      /\ DOMAIN stack = 1..Len(stack)
      /\ Top = stack[Len(stack)] /\ CallOK(Top, now) /\ stack \in Seq(Calls)
  BY TopCall DEF StoreInv, CallsOK
<1>2. "discovery" \in listening
  BY <1>1, DiscoveryHeard DEF CallOK, Reconciles, At
<1>3. "discovery" \in listening' /\ listening' \subseteq Topics /\ Heard' = Heard
  BY <1>2 DEF ListenInv, Orderly, Heard, Listed, Topics
<1>4. /\ \A d \in DOMAIN stack' : Reconciles(stack'[d]) => d \in DOMAIN stack /\ stack'[d] = stack[d]
      /\ \A d \in DOMAIN stack : Reconciles(stack[d]) => d \in DOMAIN stack' /\ stack'[d] = stack[d]
  <2>1. CASE Pop
    <3>1. /\ DOMAIN stack' = 1..(Len(stack) - 1)
          /\ \A d \in DOMAIN stack' : d \in DOMAIN stack /\ stack'[d] = stack[d]
      BY <1>1, <2>1, StackAfter
    <3>2. ASSUME NEW d \in DOMAIN stack, Reconciles(stack[d])
          PROVE  d \in DOMAIN stack' /\ stack'[d] = stack[d]
      <4>1. d # Len(stack)
        BY <1>1, <3>2
      <4>2. d \in DOMAIN stack'
        BY <1>1, <3>1, <4>1
      <4> QED BY <3>1, <4>2
    <3> QED BY <3>1, <3>2
  <2>2. ASSUME NEW f, Become(f), ~Reconciles(f)
        PROVE  /\ \A d \in DOMAIN stack' : Reconciles(stack'[d]) => d \in DOMAIN stack /\ stack'[d] = stack[d]
               /\ \A d \in DOMAIN stack : Reconciles(stack[d]) => d \in DOMAIN stack' /\ stack'[d] = stack[d]
    <3>1. /\ DOMAIN stack' = DOMAIN stack /\ stack'[Len(stack)] = f
          /\ \A d \in DOMAIN stack : d # Len(stack) => stack'[d] = stack[d]
      BY <1>1, <2>2, StackAfter
    <3> QED BY <1>1, <2>2, <3>1
  <2> QED BY <2>1, <2>2
<1> QED BY <1>3, <1>4, AsideSteps

LEMMA AfterPollListens ==
  ASSUME StoreInv, ListenInv, stack # <<>>, Top.pc \in {"fetching", "reading"}, AfterPoll,
         UNCHANGED <<open, persisted, subscribed, raced>>
  PROVE  ListenInv'
<1>1. Top.op \in Polling /\ (Top.op = "discover" => Top.topics \subseteq {"discovery", "named"})
  BY TopCall DEF StoreInv, CallOK
<1>2. ~Reconciles(Top)
  BY <1>1 DEF Reconciles, Polling, Listing
<1>3. CASE Top.op = "poll"
  BY <1>2, <1>3, AsideTop DEF AfterPoll
<1>4. CASE Top.op = "discover"
  <2>1. Call("discover", "arming").op = "discover"
    BY Called DEF Polling, Steps
  <2>2. ~Reconciles(Call("discover", "arming"))
    BY <2>1 DEF Reconciles, Listing
  <2>3. Become(Call("discover", "arming")) /\ listening' = listening \cup Top.topics
    BY <1>4 DEF AfterPoll
  <2>4. listening \subseteq listening' /\ listening' \subseteq listening \cup {"discovery", "named"}
    BY <1>1, <1>4, <2>3
  <2> QED BY <1>2, <2>2, <2>3, <2>4, AsideTop
<1> QED BY <1>1, <1>3, <1>4 DEF Polling

LEMMA IntakeListens ==
  ASSUME MarketSpecInv, StoreInv, ListenInv, Intake
  PROVE  ListenInv'
<1>1. ASSUME NEW op \in Polling, NEW topics \in SUBSET Topics, Poll(op, topics),
             op = "discover" => topics \subseteq {"discovery", "named"}
      PROVE  ListenInv'
  <2> DEFINE f == [Call(op, "fetching") EXCEPT !.topics = topics, !.at = now, !.from = From]
  <2>1. /\ Call(op, "fetching") \in Calls /\ Call(op, "fetching").op = op
        /\ Call(op, "fetching").pc = "fetching"
    BY Called DEF Steps
  <2>2. now \in 0..MaxTime /\ From \in Int
    BY Numbers DEF StoreInv, From
  <2>3. /\ f \in Calls /\ f.op = op /\ f.pc = "fetching" /\ f.topics = topics /\ f.at = now
    BY <2>1, <2>2 DEF Calls
  <2>4. Push(f) /\ UNCHANGED listenVars /\ now' = now /\ ~At("subscribe")
    BY <1>1 DEF Poll, Event, Served, Parked, Waits, At
  <2> HIDE DEF f
  <2>5. CallOK(f, now) /\ ~Reconciles(f)
    BY <1>1, <2>2, <2>3 DEF CallOK, Reconciles, Polling, Listing
  <2> QED BY <2>3, <2>4, <2>5, AsidePush
<1>2. CASE AgentPoll
  <2>1. PollTopics \in SUBSET Topics
    BY DEF PollTopics, IdentityTopics, Topics
  <2> QED BY <1>1, <1>2, <2>1 DEF AgentPoll, Polling
<1>3. CASE AgentDiscover
  <2>1. PICK t \in Searched : Poll("discover", {t})
    BY <1>3 DEF AgentDiscover
  <2>2. {t} \subseteq {"discovery", "named"} /\ {t} \in SUBSET Topics
    BY <2>1 DEF Topics
  <2> QED BY <1>1, <2>1, <2>2 DEF Polling
<1>4. CASE Fetched
  <2>1. stack # <<>> /\ Top.pc = "fetching" /\ UNCHANGED listenVars
    BY <1>4 DEF Fetched, At
  <2>2. Top \in Calls /\ Top.op \in Polling
    BY <2>1, TopCall DEF StoreInv, CallOK
  <2>3. PICK page : Become([Top EXCEPT !.pc = "reading", !.todo = page, !.from = 0])
    BY <1>4 DEF Fetched
  <2>4. [Top EXCEPT !.pc = "reading", !.todo = page, !.from = 0].op = Top.op
    BY <2>2 DEF Calls
  <2>5. ~Reconciles(Top) /\ ~Reconciles([Top EXCEPT !.pc = "reading", !.todo = page, !.from = 0])
    BY <2>2, <2>4 DEF Reconciles, Polling, Listing
  <2> QED BY <2>1, <2>3, <2>5, AsideTop DEF listenVars
<1>5. CASE FetchFails
  BY <1>5, AfterPollListens DEF FetchFails, At
<1>6. CASE PollEnds
  BY <1>6, AfterPollListens DEF PollEnds, At
<1>7. CASE Handled
  <2>1. stack # <<>> /\ Top.pc = "handling" /\ UNCHANGED listenVars
        /\ Become([Top EXCEPT !.pc = "reading"])
    BY <1>7 DEF Handled, At, Goto
  <2>2. Top \in Calls /\ Top.op \in Polling \cup {"pushed"}
    BY <2>1, TopCall DEF StoreInv, CallOK
  <2>3. [Top EXCEPT !.pc = "reading"].op = Top.op
    BY <2>2 DEF Calls
  <2>4. ~Reconciles(Top) /\ ~Reconciles([Top EXCEPT !.pc = "reading"])
    BY <2>2, <2>3 DEF Reconciles, Polling, Listing
  <2> QED BY <2>1, <2>4, AsideTop DEF listenVars
<1>8. CASE PushHandled \/ Armed
  <2>1. stack # <<>> /\ Top.pc \in {"handling", "arming"} /\ UNCHANGED listenVars /\ Pop
    BY <1>8 DEF PushHandled, Armed, At
  <2>2. Top.op \in Polling \cup {"pushed"}
    BY <2>1, TopCall DEF StoreInv, CallOK
  <2>3. ~Reconciles(Top)
    BY <2>2 DEF Reconciles, Polling, Listing
  <2> QED BY <2>1, <2>3, AsideTop DEF listenVars
<1>9. ASSUME NEW m \in Messages, ReadNext(m) PROVE ListenInv'
  <2> DEFINE g == [Top EXCEPT !.todo = {n \in @ \ {m} : sent[n] >= sent[m]},
                              !.pc = IF Slow(m) THEN "handling" ELSE "reading"]
  <2>1. stack # <<>> /\ Top.pc = "reading" /\ UNCHANGED listenVars /\ Become(g)
    BY <1>9 DEF ReadNext, At
  <2>2. Top \in Calls /\ Top.op \in Polling
    BY <2>1, TopCall DEF StoreInv, CallOK
  <2>3. g.op = Top.op
    BY <2>2 DEF Calls
  <2> HIDE DEF g
  <2>4. ~Reconciles(Top) /\ ~Reconciles(g)
    BY <2>2, <2>3 DEF Reconciles, Polling, Listing
  <2> QED BY <2>1, <2>4, AsideTop DEF listenVars
<1> QED BY <1>2, <1>3, <1>4, <1>5, <1>6, <1>7, <1>8, <1>9 DEF Intake

LEMMA NetworkListens ==
  ASSUME MarketSpecInv, StoreInv, ListenInv, Network
  PROVE  ListenInv'
<1>1. CASE Tick
  BY <1>1, AsideQuiet DEF Tick
<1>2. ASSUME NEW m \in Messages, NEW at \in 0..MaxTime, Land(m, at) PROVE ListenInv'
  BY <1>2, AsideQuiet DEF Land
<1>3. ASSUME NEW m \in Messages, Pushed(m) PROVE ListenInv'
  <2>1. UNCHANGED listenVars /\ now' = now /\ ~At("subscribe")
    BY <1>3 DEF Pushed, Event, Served, Parked, Waits, At
  <2>2. CASE UNCHANGED stack
    BY <2>1, <2>2, AsideQuiet
  <2>3. CASE Push(Call("pushed", "handling"))
    <3>1. /\ Call("pushed", "handling") \in Calls /\ Call("pushed", "handling").op = "pushed"
          /\ Call("pushed", "handling").pc = "handling" /\ Call("pushed", "handling").at = 0
      BY Called DEF Steps
    <3>2. now \in Nat
      BY Numbers DEF StoreInv
    <3>3. CallOK(Call("pushed", "handling"), now) /\ ~Reconciles(Call("pushed", "handling"))
      BY <3>1, <3>2 DEF CallOK, Polling, Listing, Reconciles
    <3> QED BY <2>1, <2>3, <3>1, <3>3, AsidePush
  <2> QED BY <1>3, <2>2, <2>3 DEF Pushed
<1> QED BY <1>1, <1>2, <1>3 DEF Network

-------------------------------------------------------------------------------
(***************************************************************************)
(* Reconciliations.                                                        *)
(***************************************************************************)
\* A reconciliation begins.
LEMMA BeginListens ==
  ASSUME MarketSpecInv, StoreInv, ListenInv, ~At("subscribe"), now' = now,
         NEW op \in Listing, NEW isOpen \in BOOLEAN, Push(Reconciler(op, isOpen)),
         raced' = (raced \/ Reconciling), open' = isOpen, persisted' \in BOOLEAN,
         op = "close" => ~isOpen,
         op # "close" /\ ~raced /\ ~Reconciling => persisted' = isOpen,
         UNCHANGED <<subscribed, listening>>
  PROVE  ListenInv'
<1>1. /\ Reconciler(op, isOpen) \in Calls
      /\ Reconciler(op, isOpen).op = op
      /\ Reconciler(op, isOpen).pc = "subscribe"
      /\ Reconciler(op, isOpen).at = 0
      /\ Reconciler(op, isOpen).topics = IdentityTopics(isOpen)
      /\ Reconciler(op, isOpen).todo = IdentityTopics(isOpen)
  BY ReconcilerCalled
<1>2. CallOK(Reconciler(op, isOpen), now)
  <2>1. now \in Nat
    BY Numbers DEF StoreInv
  <2> QED BY <1>1, <2>1 DEF CallOK, Polling, Listing, Reconciles, IdentityTopics
<1>3. /\ DOMAIN stack = 1..Len(stack) /\ DOMAIN stack' = 1..(Len(stack) + 1)
      /\ stack'[Len(stack) + 1] = Reconciler(op, isOpen) /\ Len(stack) \in Nat
      /\ \A d \in DOMAIN stack : d # Len(stack) + 1 /\ stack'[d] = stack[d]
  BY <1>1, <1>2, PushStack DEF StoreInv
<1>4. DiscoveryFirst'
  BY DiscoveryHeard DEF DiscoveryFirst
<1>5. raced' \in BOOLEAN
  BY DEF ListenInv, Orderly, Reconciling
<1>6. Heard' = Heard
  BY DEF Heard, Listed
<1>7. ASSUME ~raced'
      PROVE  Orderly'
  <2>1. ~raced /\ ~Reconciling
    BY <1>7 DEF ListenInv, Orderly, Reconciling
  <2>2. \A d \in DOMAIN stack : ~Reconciles(stack[d])
    BY <2>1 DEF Reconciling, Reconciles, Listing
  <2>3. \A d \in DOMAIN stack' : Reconciles(stack'[d]) => d = Len(stack) + 1
    BY <1>3, <2>2 DEF Reconciles
  <2>4. Reconciling'
    <3>1. Len(stack) + 1 \in DOMAIN stack' /\ stack'[Len(stack) + 1].op \in Listing
      BY <1>1, <1>3
    <3> QED BY <3>1 DEF Reconciling, Listing
  <2>5. subscribed \subseteq Listed /\ Heard = subscribed
    BY <2>1 DEF ListenInv, Orderly
  <2>6. ASSUME NEW d \in DOMAIN stack', Reconciles(stack'[d]) PROVE RunOK(stack[d])'
    <3>1. d = Len(stack) + 1
      BY <2>3, <2>6
    <3>2. stack'[d] = stack'[Len(stack) + 1]
      BY <3>1
    <3>3. stack'[d].op = op /\ stack'[d].pc = "subscribe"
          /\ stack'[d].topics = IdentityTopics(isOpen)
          /\ stack'[d].todo = IdentityTopics(isOpen)
      BY <1>1, <1>3, <3>2
    <3> QED BY <1>6, <2>1, <2>5, <3>3 DEF RunOK
  <2>7. \A d, e \in DOMAIN stack' : Reconciles(stack'[d]) /\ Reconciles(stack'[e]) => d = e
    BY <2>3
  <2> QED BY <2>4, <2>5, <2>6, <2>7 DEF Reconciles, Listed, Orderly
<1> QED BY <1>4, <1>5, <1>7 DEF ListenInv, Orderly

\* What is innermost reconciles, and goes on as g.
LEMMA MovesOn ==
  ASSUME StoreInv, ListenInv, UNCHANGED <<open, persisted, raced>>,
         stack # <<>>, Reconciles(Top), NEW g, Become(g), Reconciles(g),
         DiscoveryFirst', subscribed' \subseteq Topics, listening' \subseteq Topics,
         ~raced => subscribed' \subseteq Listed /\ (RunOK(Top) => RunOK(Top)')
  PROVE  ListenInv'
<1>1. /\ Len(stack) \in Nat \ {0} /\ Len(stack) \in DOMAIN stack
      /\ Top = stack[Len(stack)] /\ stack \in Seq(Calls)
  BY TopCall DEF StoreInv, CallsOK
<1>2. /\ DOMAIN stack' = DOMAIN stack /\ stack'[Len(stack)] = g
      /\ \A d \in DOMAIN stack : d # Len(stack) => stack'[d] = stack[d]
  BY <1>1, StackAfter
<1>3. Len(stack') = Len(stack) /\ Top' = stack'[Len(stack)]
  BY <1>1 DEF Become, Top
<1>4. Reconciling' /\ Reconciling
  BY <1>1, <1>2 DEF Reconciling, Reconciles, Listing
<1>5. ASSUME ~raced
      PROVE  Orderly'
  <2>1. \A d \in DOMAIN stack : Reconciles(stack[d]) => d = Len(stack)
    BY <1>1, <1>5 DEF ListenInv, Orderly
  <2>2. \A d \in DOMAIN stack' : Reconciles(stack'[d]) => d = Len(stack)
    BY <1>2, <2>1
  <2>3. RunOK(Top)
    BY <1>1, <1>5 DEF ListenInv, Orderly
  <2>4. RunOK(Top)'
    BY <1>5, <2>3
  <2>5. ASSUME NEW d \in DOMAIN stack', Reconciles(stack'[d]) PROVE RunOK(stack[d])'
    <3>1. d = Len(stack)
      BY <2>2, <2>5
    <3>2. Top' = stack'[d]
      BY <1>3, <3>1
    <3> QED BY <2>4, <3>2 DEF RunOK
  <2>6. \A d, e \in DOMAIN stack' : Reconciles(stack'[d]) /\ Reconciles(stack'[e]) => d = e
    BY <2>2
  <2> QED BY <1>4, <1>5, <2>5, <2>6 DEF Reconciles, Listed, Orderly
<1> QED BY <1>5 DEF ListenInv, Orderly

LEMMA SubscribeListens ==
  ASSUME MarketSpecInv, StoreInv, ListenInv, NEW t \in Topics, Subscribe(t)
  PROVE  StoreInv' /\ ListenInv'
<1> DEFINE g == [Top EXCEPT !.pc = "subscribing", !.topic = t, !.todo = @ \ {t, "discovery"}]
<1>1. stack # <<>> /\ Top.pc = "subscribe" /\ t \in Top.todo \ subscribed
      /\ ("discovery" \in Top.todo \ subscribed => t = "discovery")
      /\ listening' = listening \cup {t} /\ UNCHANGED <<open, persisted, subscribed, raced>>
  BY DEF Subscribe, At
<1>2. UNCHANGED StoreVars /\ Become(g)
  BY DEF Subscribe, intakeVars, StoreVars
<1>3. Top \in Calls /\ CallOK(Top, now)
  BY <1>1, TopCall DEF StoreInv
<1>4. /\ g \in Calls /\ g.pc = "subscribing" /\ g.topic = t /\ g.todo = Top.todo \ {t, "discovery"}
      /\ g.op = Top.op /\ g.at = Top.at /\ g.topics = Top.topics
  BY <1>3 DEF Calls, Steps
<1> HIDE DEF g
<1>5. StoreInv'
  BY <1>1, <1>2, <1>4, GoesOnKept
<1>6. Reconciles(Top) /\ Reconciles(g) /\ "discovery" \in Top.topics
  BY <1>1, <1>3, <1>4 DEF CallOK, Reconciles
<1>7. DiscoveryFirst'
  BY <1>1 DEF DiscoveryFirst, ListenInv, Orderly
<1>8. Top' = g
  <2>1. CallOK(g, now') /\ now <= now' /\ now \in Int /\ now' \in Int
    <3>1. now' = now /\ now \in Nat
      BY <1>2, Numbers DEF StoreInv, StoreVars
    <3>2. CallOK(g, now)
      BY <1>1, <1>3, <1>4, <1>6 DEF CallOK, Reconciles, Polling, Listing
    <3> QED BY <3>1, <3>2
  <2> QED BY <1>1, <1>2, <1>4, <2>1, BecomeStack DEF StoreInv
<1>9. ASSUME RunOK(Top) PROVE RunOK(Top)'
  <2>1. Top.topics = IdentityTopics(open) /\ Top.todo \subseteq Top.topics
        /\ Heard = subscribed /\ Top.topics \subseteq subscribed \cup Top.todo
        /\ IF Top.op = "close" THEN ~open ELSE persisted = open
    BY <1>1, <1>9 DEF RunOK
  <2>2. t \in Listed
    BY <1>1, <2>1 DEF IdentityTopics, Listed
  <2>3. Heard' = subscribed \cup {t}
    BY <1>1, <2>1, <2>2 DEF Heard, Listed
  <2>4. Top.topics \subseteq subscribed \cup (Top.todo \ {t, "discovery"}) \cup {t}
    BY <1>1, <2>1
  <2>5. t \in Top.topics
    BY <1>1, <2>1
  <2> QED BY <1>1, <1>4, <1>8, <2>1, <2>3, <2>4, <2>5 DEF RunOK
<1>10. subscribed' \subseteq Topics /\ listening' \subseteq Topics
       /\ (~raced => subscribed' \subseteq Listed)
  BY <1>1 DEF ListenInv, Orderly
<1>11. ListenInv'
  BY <1>1, <1>2, <1>6, <1>7, <1>9, <1>10, MovesOn
<1> QED BY <1>5, <1>11

LEMMA SubscribedListens ==
  ASSUME MarketSpecInv, StoreInv, ListenInv, Subscribed
  PROVE  StoreInv' /\ ListenInv'
<1> DEFINE g == [Top EXCEPT !.pc = "subscribe"]
<1>1. stack # <<>> /\ Top.pc = "subscribing" /\ subscribed' = subscribed \cup {Top.topic}
      /\ UNCHANGED <<open, persisted, listening, raced>>
  BY DEF Subscribed, At
<1>2. UNCHANGED StoreVars /\ Become(g)
  BY DEF Subscribed, intakeVars, StoreVars, Goto
<1>3. Top \in Calls /\ CallOK(Top, now) /\ Top.topic \in Topics
  BY <1>1, TopCall DEF StoreInv, Calls
<1>4. /\ g \in Calls /\ g.pc = "subscribe" /\ g.topic = Top.topic /\ g.todo = Top.todo
      /\ g.op = Top.op /\ g.at = Top.at /\ g.topics = Top.topics
  BY <1>3 DEF Calls, Steps
<1> HIDE DEF g
<1>5. StoreInv'
  BY <1>1, <1>2, <1>4, GoesOnKept
<1>6. Reconciles(Top) /\ Reconciles(g)
  BY <1>1, <1>3, <1>4 DEF CallOK, Reconciles
<1>7. DiscoveryFirst'
  BY <1>1, DiscoveryHeard DEF DiscoveryFirst, At
<1>8. Top' = g
  <2>1. CallOK(g, now') /\ now <= now' /\ now \in Int /\ now' \in Int
    <3>1. now' = now /\ now \in Nat
      BY <1>2, Numbers DEF StoreInv, StoreVars
    <3>2. CallOK(g, now)
      BY <1>1, <1>3, <1>4, <1>6 DEF CallOK, Reconciles, Polling, Listing
    <3> QED BY <3>1, <3>2
  <2> QED BY <1>1, <1>2, <1>4, <2>1, BecomeStack DEF StoreInv
<1>9. ASSUME RunOK(Top) PROVE RunOK(Top)'
  <2>1. Top.topics = IdentityTopics(open) /\ Top.todo \subseteq Top.topics
        /\ Heard = subscribed \cup {Top.topic}
        /\ Top.topics \subseteq subscribed \cup Top.todo \cup {Top.topic}
        /\ IF Top.op = "close" THEN ~open ELSE persisted = open
    BY <1>1, <1>9 DEF RunOK
  <2>2. Heard' = subscribed'
    BY <1>1, <2>1 DEF Heard, Listed
  <2> QED BY <1>1, <1>4, <1>8, <2>1, <2>2 DEF RunOK
<1>10. subscribed' \subseteq Topics /\ listening' \subseteq Topics
  BY <1>1, <1>3 DEF ListenInv, Orderly
<1>11. ~raced => subscribed' \subseteq Listed
  <2>1. ~raced => RunOK(Top) /\ subscribed \subseteq Listed
    <3>1. Len(stack) \in DOMAIN stack /\ Top = stack[Len(stack)]
      BY <1>1, TopCall DEF StoreInv
    <3> QED BY <1>6, <3>1 DEF ListenInv, Orderly
  <2>2. RunOK(Top) => Top.topic \in Listed
    BY <1>1 DEF RunOK, IdentityTopics, Listed
  <2> QED BY <1>1, <2>1, <2>2
<1>12. ListenInv'
  BY <1>1, <1>2, <1>6, <1>7, <1>9, <1>10, <1>11, MovesOn
<1> QED BY <1>5, <1>12

LEMMA UnsubscribeListens ==
  ASSUME MarketSpecInv, StoreInv, ListenInv, NEW t \in Topics, Unsubscribe(t)
  PROVE  StoreInv' /\ ListenInv'
<1> DEFINE g == [Top EXCEPT !.pc = "unsubscribing", !.topic = t, !.held = subscribed,
                            !.todo = {}]
<1>1. stack # <<>> /\ Top.pc = "subscribe" /\ Top.todo \subseteq subscribed
      /\ t \in subscribed /\ t \notin Top.topics
      /\ listening' = listening \ {t} /\ UNCHANGED <<open, persisted, subscribed, raced>>
  BY DEF Unsubscribe, At, Excess
<1>2. UNCHANGED StoreVars /\ Become(g)
  BY DEF Unsubscribe, intakeVars, StoreVars
<1>3. Top \in Calls /\ CallOK(Top, now) /\ subscribed \in SUBSET Topics
  BY <1>1, TopCall DEF StoreInv, ListenInv, Orderly
<1>4. /\ g \in Calls /\ g.pc = "unsubscribing" /\ g.topic = t /\ g.todo = {}
      /\ g.held = subscribed
      /\ g.op = Top.op /\ g.at = Top.at /\ g.topics = Top.topics
  <2>1. "unsubscribing" \in Steps /\ {} \in SUBSET (Topics \cup Messages)
    BY DEF Steps
  <2> QED BY <1>3, <2>1 DEF Calls
<1> HIDE DEF g
<1>5. StoreInv'
  BY <1>1, <1>2, <1>4, GoesOnKept
<1>6. Reconciles(Top) /\ Reconciles(g) /\ "discovery" \in Top.topics
  BY <1>1, <1>3, <1>4 DEF CallOK, Reconciles
<1>7. DiscoveryFirst'
  <2>1. "discovery" \in listening
    BY <1>1 DEF ListenInv, Orderly, DiscoveryFirst
  <2> QED BY <1>1, <1>6, <2>1 DEF DiscoveryFirst
<1>8. Top' = g
  <2>1. CallOK(g, now') /\ now <= now' /\ now \in Int /\ now' \in Int
    <3>1. now' = now /\ now \in Nat
      BY <1>2, Numbers DEF StoreInv, StoreVars
    <3>2. CallOK(g, now)
      BY <1>1, <1>3, <1>4, <1>6 DEF CallOK, Reconciles, Polling, Listing
    <3> QED BY <3>1, <3>2
  <2> QED BY <1>1, <1>2, <1>4, <2>1, BecomeStack DEF StoreInv
<1>9. ASSUME RunOK(Top) PROVE RunOK(Top)'
  <2>1. Top.topics = IdentityTopics(open)
        /\ Heard = subscribed /\ Top.topics \subseteq subscribed
        /\ IF Top.op = "close" THEN ~open ELSE persisted = open
    BY <1>1, <1>9 DEF RunOK
  <2>2. Heard' = subscribed \ {t}
    BY <1>1, <2>1 DEF Heard, Listed
  <2> QED BY <1>1, <1>4, <1>8, <2>1, <2>2 DEF RunOK
<1>10. subscribed' \subseteq Topics /\ listening' \subseteq Topics
       /\ (~raced => subscribed' \subseteq Listed)
  BY <1>1 DEF ListenInv, Orderly
<1>11. ListenInv'
  BY <1>1, <1>2, <1>6, <1>7, <1>9, <1>10, MovesOn
<1> QED BY <1>5, <1>11

LEMMA UnsubscribedListens ==
  ASSUME MarketSpecInv, StoreInv, ListenInv, Unsubscribed
  PROVE  StoreInv' /\ ListenInv'
<1> DEFINE g == [Top EXCEPT !.pc = "subscribe"]
<1>1. stack # <<>> /\ Top.pc = "unsubscribing"
      /\ UNCHANGED <<open, persisted, listening, raced>>
      /\ subscribed' \subseteq subscribed
      /\ (subscribed = Top.held => subscribed' = subscribed \ {Top.topic})
  BY DEF Unsubscribed, At
<1>2. UNCHANGED StoreVars /\ Become(g)
  BY DEF Unsubscribed, intakeVars, StoreVars, Goto
<1>3. Top \in Calls /\ CallOK(Top, now)
  BY <1>1, TopCall DEF StoreInv, Calls
<1>4. /\ g \in Calls /\ g.pc = "subscribe" /\ g.todo = Top.todo
      /\ g.op = Top.op /\ g.at = Top.at /\ g.topics = Top.topics
  BY <1>3 DEF Calls, Steps
<1> HIDE DEF g
<1>5. StoreInv'
  BY <1>1, <1>2, <1>4, GoesOnKept
<1>6. Reconciles(Top) /\ Reconciles(g)
  BY <1>1, <1>3, <1>4 DEF CallOK, Reconciles
<1>7. DiscoveryFirst'
  BY <1>1, DiscoveryHeard DEF DiscoveryFirst, At
<1>8. Top' = g
  <2>1. CallOK(g, now') /\ now <= now' /\ now \in Int /\ now' \in Int
    <3>1. now' = now /\ now \in Nat
      BY <1>2, Numbers DEF StoreInv, StoreVars
    <3>2. CallOK(g, now)
      BY <1>1, <1>3, <1>4, <1>6 DEF CallOK, Reconciles, Polling, Listing
    <3> QED BY <3>1, <3>2
  <2> QED BY <1>1, <1>2, <1>4, <2>1, BecomeStack DEF StoreInv
<1>9. ASSUME RunOK(Top) PROVE RunOK(Top)'
  <2>1. Top.topics = IdentityTopics(open) /\ Top.todo = {}
        /\ Heard = subscribed \ {Top.topic} /\ Top.topic \notin Top.topics
        /\ Top.topics \subseteq subscribed /\ Top.held = subscribed
        /\ IF Top.op = "close" THEN ~open ELSE persisted = open
    BY <1>1, <1>9 DEF RunOK
  <2>2. subscribed' = subscribed \ {Top.topic} /\ Heard' = subscribed'
    BY <1>1, <2>1 DEF Heard, Listed
  <2>3. Top.topics \subseteq subscribed'
    BY <2>1, <2>2
  <2> QED BY <1>1, <1>4, <1>8, <2>1, <2>2, <2>3 DEF RunOK
<1>10. subscribed' \subseteq Topics /\ listening' \subseteq Topics
       /\ (~raced => subscribed' \subseteq Listed)
  BY <1>1 DEF ListenInv, Orderly
<1>11. ListenInv'
  BY <1>1, <1>2, <1>6, <1>7, <1>9, <1>10, MovesOn
<1> QED BY <1>5, <1>11

\* A reconciliation ends when we hold what we want and nothing else.
LEMMA EndListens ==
  ASSUME MarketSpecInv, StoreInv, ListenInv, ReconcileEnds
  PROVE  ListenInv'
<1>1. stack # <<>> /\ Top.pc = "subscribe" /\ Top.todo \subseteq subscribed /\ Pop
      /\ subscribed \subseteq Top.topics
      /\ persisted' = (IF Top.op = "close" THEN FALSE ELSE persisted)
      /\ UNCHANGED <<open, subscribed, listening, raced>>
  BY DEF ReconcileEnds, At, Excess
<1>2. /\ Len(stack) \in Nat \ {0} /\ Len(stack) \in DOMAIN stack
      /\ DOMAIN stack = 1..Len(stack)
      /\ Top = stack[Len(stack)] /\ CallOK(Top, now) /\ stack \in Seq(Calls)
  BY <1>1, TopCall DEF StoreInv, CallsOK
<1>3. Reconciles(Top)
  BY <1>1, <1>2 DEF CallOK, Reconciles
<1>4. /\ DOMAIN stack' = 1..(Len(stack) - 1)
      /\ \A d \in DOMAIN stack' : d \in DOMAIN stack /\ d # Len(stack) /\ stack'[d] = stack[d]
  <2>1. /\ DOMAIN stack' = 1..(Len(stack) - 1)
        /\ \A d \in DOMAIN stack' : d \in DOMAIN stack /\ stack'[d] = stack[d]
    BY <1>1, <1>2, StackAfter
  <2>2. Len(stack) \notin 1..(Len(stack) - 1)
    BY <1>2
  <2> QED BY <2>1, <2>2
<1>5. DiscoveryFirst'
  <2>1. "discovery" \in listening
    BY <1>1 DEF ListenInv, Orderly, DiscoveryFirst
  <2> QED BY <1>1, <2>1 DEF DiscoveryFirst
<1>6. Heard' = Heard
  BY <1>1 DEF Heard, Listed
<1>7. persisted' \in BOOLEAN
  <2>1. persisted \in BOOLEAN
    BY DEF ListenInv, Orderly
  <2> QED BY <1>1, <2>1
<1>8. ASSUME ~raced
      PROVE  Orderly'
  <2>1. \A d \in DOMAIN stack : Reconciles(stack[d]) => d = Len(stack)
    BY <1>2, <1>3, <1>8 DEF ListenInv, Orderly
  <2>2. \A d \in DOMAIN stack' : ~Reconciles(stack'[d])
    BY <1>4, <2>1
  <2>3. RunOK(Top)
    BY <1>2, <1>3, <1>8 DEF ListenInv, Orderly
  <2>4. subscribed = IdentityTopics(open) /\ Heard = subscribed
    <3>1. Top.topics = IdentityTopics(open) /\ Heard = subscribed
          /\ Top.topics \subseteq subscribed \cup Top.todo
      BY <1>1, <2>3 DEF RunOK
    <3>2. subscribed = Top.topics
      <4>1. \A t : t \in subscribed <=> t \in Top.topics
        BY <1>1, <3>1
      <4> QED BY <4>1
    <3> QED BY <3>1, <3>2
  <2>5. persisted' = open
    <3>1. open \in BOOLEAN
      BY DEF ListenInv, Orderly
    <3>2. IF Top.op = "close" THEN ~open ELSE persisted = open
      BY <2>3 DEF RunOK
    <3> QED BY <1>1, <3>1, <3>2
  <2>6. subscribed \subseteq Listed
    BY <1>8 DEF ListenInv, Orderly
  <2> QED BY <1>1, <1>6, <2>2, <2>4, <2>5, <2>6 DEF Reconciles, Listed, Orderly
<1> QED BY <1>1, <1>5, <1>7, <1>8 DEF ListenInv, Orderly

\* A process that has just begun, as Init and Restart leave it.
Begins ==
  /\ stack = <<Reconciler("assert", open)>> /\ subscribed = {} /\ listening = {}
  /\ raced = FALSE /\ open \in BOOLEAN /\ persisted = open

LEMMA BeginsListening == Begins => ListenInv
<1> SUFFICES ASSUME Begins PROVE ListenInv
  OBVIOUS
<1>1. /\ Reconciler("assert", open).op = "assert"
      /\ Reconciler("assert", open).pc = "subscribe"
      /\ Reconciler("assert", open).topics = IdentityTopics(open)
      /\ Reconciler("assert", open).todo = IdentityTopics(open)
      /\ Reconciler("assert", open) \in Calls
  BY ReconcilerCalled DEF Listing, Begins
<1>2. /\ DOMAIN stack = {1} /\ Len(stack) = 1 /\ stack # <<>>
      /\ stack[1] = Reconciler("assert", open) /\ Top = stack[1]
  BY DEF Begins, Top
<1>3. DiscoveryFirst
  BY <1>1, <1>2 DEF DiscoveryFirst, At, Begins, IdentityTopics
<1>4. Reconciling
  BY <1>1, <1>2 DEF Reconciling
<1>5. Heard = {}
  BY DEF Heard, Begins
<1>6. \A d \in DOMAIN stack : RunOK(stack[d])
  <2> SUFFICES RunOK(stack[1])
    BY <1>2
  <2> QED BY <1>1, <1>2, <1>5 DEF RunOK, Begins
<1>7. \A d, e \in DOMAIN stack : d = e
  BY <1>2
<1> QED BY <1>3, <1>4, <1>6, <1>7 DEF ListenInv, Orderly, Begins

LEMMA BeginsListeningAgain == Begins' => ListenInv'
BY BeginsListening, PTL

LEMMA ListenListens ==
  ASSUME MarketSpecInv, StoreInv, ListenInv, Listen
  PROVE  StoreInv' /\ ListenInv'
<1>1. CASE OpenForHire
  <2>1. /\ Push(Reconciler("open", TRUE)) /\ raced' = (raced \/ Reconciling) /\ open' = TRUE
        /\ persisted' = TRUE /\ UNCHANGED <<subscribed, listening>> /\ ~At("subscribe")
        /\ UNCHANGED StoreVars /\ now' = now
    BY <1>1 DEF OpenForHire, Reconcile, Event, Served, Parked, Waits, At, intakeVars, StoreVars
  <2>2. "open" \in Listing /\ "open" # "close"
    BY DEF Listing
  <2>3. StoreInv'
    BY <2>1, <2>2, ReconcileKept
  <2>4. ListenInv'
    BY <2>1, <2>2, BeginListens
  <2> QED BY <2>3, <2>4
<1>2. CASE CloseForHire
  <2>1. /\ Push(Reconciler("close", FALSE)) /\ raced' = (raced \/ Reconciling) /\ open' = FALSE
        /\ UNCHANGED <<persisted, subscribed, listening>> /\ ~At("subscribe")
        /\ UNCHANGED StoreVars /\ now' = now
    BY <1>2 DEF CloseForHire, Reconcile, Event, Served, Parked, Waits, At, intakeVars, StoreVars
  <2>2. "close" \in Listing /\ persisted' \in BOOLEAN
    BY <2>1 DEF Listing, ListenInv, Orderly
  <2>3. StoreInv'
    BY <2>1, <2>2, ReconcileKept
  <2>4. ListenInv'
    BY <2>1, <2>2, BeginListens
  <2> QED BY <2>3, <2>4
<1>3. CASE AgentCard
  <2>1. /\ Push(Reconciler("assert", TRUE)) /\ raced' = (raced \/ Reconciling)
        /\ open /\ open' = open
        /\ UNCHANGED <<persisted, subscribed, listening>> /\ ~At("subscribe")
        /\ UNCHANGED StoreVars /\ now' = now
    BY <1>3 DEF AgentCard, Reconcile, Event, Served, Parked, Waits, At, intakeVars, StoreVars
  <2>2. "assert" \in Listing /\ "assert" # "close" /\ persisted' \in BOOLEAN
    BY <2>1 DEF Listing, ListenInv, Orderly
  <2>3. StoreInv'
    BY <2>1, <2>2, ReconcileKept
  <2>4. open' = TRUE
    BY <2>1 DEF ListenInv, Orderly
  <2>5. ~raced /\ ~Reconciling => persisted' = TRUE
    BY <2>1, <2>4 DEF ListenInv, Orderly
  <2>6. ListenInv'
    BY <2>1, <2>2, <2>4, <2>5, BeginListens
  <2> QED BY <2>3, <2>6
<1>4. CASE Subscribed
  BY <1>4, SubscribedListens
<1>5. CASE Unsubscribed
  BY <1>5, UnsubscribedListens
<1>6. CASE ReconcileEnds
  BY <1>6, EndsKept, EndListens
<1>7. ASSUME NEW t \in Topics, Subscribe(t) \/ Unsubscribe(t)
      PROVE  StoreInv' /\ ListenInv'
  BY <1>7, SubscribeListens, UnsubscribeListens
<1> QED BY <1>1, <1>2, <1>3, <1>4, <1>5, <1>6, <1>7 DEF Listen

-------------------------------------------------------------------------------
(***************************************************************************)
(* The inductive invariant of the store and of the subscriptions.          *)
(***************************************************************************)
IntakeInv == MarketSpecInv /\ StoreInv /\ ListenInv

LEMMA IntakeReads ==
  ASSUME MarketSpecInv, StoreInv, Intake
  PROVE  StoreInv'
<1>1. CASE AgentPoll
  <2>1. PollTopics \in SUBSET Topics
    BY DEF PollTopics, IdentityTopics, Topics
  <2>2. "poll" \in Polling /\ "poll" # "discover"
    BY DEF Polling
  <2> QED BY <1>1, <2>1, <2>2, PollSteps DEF AgentPoll
<1>2. CASE AgentDiscover
  <2>1. PICK t \in Searched : Poll("discover", {t})
    BY <1>2 DEF AgentDiscover
  <2>2. {t} \subseteq {"discovery", "named"} /\ {t} \in SUBSET Topics
    BY <2>1 DEF Topics
  <2>3. "discover" \in Polling
    BY DEF Polling
  <2> QED BY <2>1, <2>2, <2>3, PollSteps
<1>3. CASE Fetched \/ PollEnds
  BY <1>3, FetchedSteps, PollEndsSteps
<1>4. CASE FetchFails \/ Handled \/ PushHandled \/ Armed
  BY <1>4, FetchFailsKept, HandledKept, EndsKept
<1>5. ASSUME NEW m \in Messages, ReadNext(m) PROVE StoreInv'
  BY <1>5, ReadNextSteps
<1> QED BY <1>1, <1>2, <1>3, <1>4, <1>5 DEF Intake

LEMMA NetworkReads ==
  ASSUME MarketSpecInv, StoreInv, Network
  PROVE  StoreInv'
<1>1. CASE Tick
  BY <1>1, TickSteps
<1>2. ASSUME NEW m \in Messages, Pushed(m) PROVE StoreInv'
  BY <1>2, PushedKept
<1>3. ASSUME NEW m \in Messages, NEW at \in 0..MaxTime, at <= now, now <= at + Overlap,
             Land(m, at)
      PROVE  StoreInv'
  BY <1>3, LandSteps
<1> QED BY <1>1, <1>2, <1>3 DEF Network

\* Steps that touch neither the store nor the subscriptions nor the stack.
LEMMA StoreQuiet ==
  ASSUME StoreInv, UNCHANGED <<stack, StoreVars>>
  PROVE  StoreInv'
<1>1. \A d \in DOMAIN stack : d \in DOMAIN stack' /\ Like(stack'[d], stack[d])
  BY DEF Like
<1>2. \A d \in DOMAIN stack' : d \in DOMAIN stack
  OBVIOUS
<1>3. StoreOK' /\ WindowInv'
  BY <1>1, <1>2, Kept DEF StoreInv
<1>4. CallsOK'
  BY DEF StoreInv, CallsOK, StoreVars
<1> QED BY <1>3, <1>4 DEF StoreInv

LEMMA IntakeBegins == IntakeInit => StoreInv /\ ListenInv
<1> SUFFICES ASSUME IntakeInit PROVE StoreInv /\ ListenInv
  OBVIOUS
<1>1. /\ now = 0 /\ seen = {} /\ since = Never
      /\ floor = 0 /\ stored = {} /\ sent = [m \in Messages |-> Never]
  BY DEF IntakeInit, MarketInit
<1>2. Begins
  BY DEF Begins, IntakeInit
<1>20. ListenInv
  BY <1>2, BeginsListening
<1>3. /\ Reconciler("assert", open) \in Calls
      /\ Reconciler("assert", open).op = "assert"
      /\ Reconciler("assert", open).pc = "subscribe"
      /\ Reconciler("assert", open).at = 0
      /\ Reconciler("assert", open).topics = IdentityTopics(open)
  BY <1>2, ReconcilerCalled DEF Listing, Begins
<1>4. DOMAIN stack = {1} /\ stack[1] = Reconciler("assert", open) /\ stack \in Seq(Calls)
  BY <1>2, <1>3 DEF Begins
<1>5. CallOK(Reconciler("assert", open), 0)
  BY <1>3 DEF CallOK, Reconciles, Polling, Listing, IdentityTopics
<1>6. CallsOK
  BY <1>1, <1>4, <1>5 DEF CallsOK
<1>7. \A d \in DOMAIN stack : ~Fetches(stack[d]) /\ ~Reads(stack[d])
  BY <1>3, <1>4 DEF Fetches, Reads
<1>8. StoreOK
  <2>1. IsFiniteSet({}) /\ Cardinality({}) = 0 /\ 0 <= SeenCap + 1
    BY FS_EmptySet
  <2> QED BY <1>1, <1>7, <2>1 DEF StoreOK
<1>9. WindowInv
  BY <1>1, <1>7 DEF WindowInv
<1> QED BY <1>6, <1>8, <1>9, <1>20 DEF StoreInv

LEMMA IntakeStep ==
  ASSUME IntakeInv, [IntakeNext]_vars
  PROVE  StoreInv' /\ ListenInv'
<1>1. CASE UNCHANGED vars
  BY <1>1, StoreQuiet, AsideQuiet DEF vars, intakeVars, StoreVars, IntakeInv
<1>2. CASE Network
  BY <1>2, NetworkReads, NetworkListens DEF IntakeInv
<1>3. CASE Intake
  BY <1>3, IntakeReads, IntakeListens DEF IntakeInv
<1>4. CASE Listen
  BY <1>4, ListenListens DEF IntakeInv
<1>5. CASE OwnerActs
  <2>1. UNCHANGED <<stack, StoreVars>> /\ UNCHANGED <<stack, listenVars>>
    BY <1>5 DEF OwnerActs, intakeVars, StoreVars
  <2> QED BY <2>1, StoreQuiet, AsideQuiet DEF IntakeInv
<1>6. CASE Restart
  <2>1. persisted \in BOOLEAN
    BY DEF IntakeInv, ListenInv, Orderly
  <2>2. Begins'
    BY <1>6, <2>1 DEF Begins, Restart
  <2> QED BY <1>6, <2>1, <2>2, RestartReads, BeginsListeningAgain DEF IntakeInv
<1> QED BY <1>1, <1>2, <1>3, <1>4, <1>5, <1>6 DEF IntakeNext

\* What a window has passed is accounted for, and the subscriptions follow the decision
\* step by step.
THEOREM IntakeInvariant == IntakeSpec => []IntakeInv
<1>1. IntakeInit => StoreInv /\ ListenInv
  BY IntakeBegins
<1>2. MarketSpecInv /\ StoreInv /\ ListenInv /\ [IntakeNext]_vars => StoreInv' /\ ListenInv'
  BY IntakeStep DEF IntakeInv
<1> QED BY <1>1, <1>2, MarketInvariant, PTL DEF IntakeSpec, IntakeInv

-------------------------------------------------------------------------------
(***************************************************************************)
(* The theorems.                                                           *)
(***************************************************************************)
\* From hiring to settlement the valid card of the hired peer stays in the cache,
\* whatever cards arrive, are imported or evicted, across restarts.
THEOREM HiredCardStays == IntakeSpec => []CardOfHireKept
<1>1. MarketSpecInv => CardOfHireKept
  BY DEF MarketSpecInv, MarketInv
<1> QED BY <1>1, MarketInvariant, PTL

\* A settlement pays an account of the identity that was hired, which its pinned
\* signer asked for, or nobody.
THEOREM PaysTheHired == IntakeSpec => []PaidWhoWasHired
<1>1. MarketSpecInv => PaidWhoWasHired
  BY DEF MarketSpecInv, MarketInv
<1> QED BY <1>1, MarketInvariant, PTL

\* The store hands a message over once for each time the hashes were forgotten, and
\* once more: whatever windows overlap, polls nest and handlers wait.
THEOREM StoreHandsOverOnce == IntakeSpec => []HandledOnce
<1>1. MarketSpecInv => HandledOnce
  BY DEF MarketSpecInv, HandedInv, HandledOnce
<1> QED BY <1>1, MarketInvariant, PTL

\* Every value of the market, the store and the subscriptions is of its type, and the
\* hashes remembered are at most one more than the cap.
THEOREM IntakeTyped == IntakeSpec => []IntakeTypeOK
<1>1. ASSUME IntakeInv PROVE IntakeTypeOK
  <2>1. MarketTypeOK
    BY <1>1 DEF IntakeInv, MarketSpecInv, MarketInv, CacheOK
  <2>2. \A d \in DOMAIN stack : stack[d].topics \cup stack[d].held \subseteq Topics
    <3>1. \A d \in DOMAIN stack : stack[d] \in Calls
      BY <1>1 DEF IntakeInv, StoreInv, CallsOK
    <3> QED BY <3>1 DEF Calls
  <2> QED BY <1>1, <2>1, <2>2 DEF IntakeInv, StoreInv, StoreOK, ListenInv, Orderly, IntakeTypeOK
<1> QED BY <1>1, IntakeInvariant, PTL

\* A window passes a message by only for a reason: a poll of this process did not ask for
\* its topic, or a page had no room for it.
THEOREM PassedWithReason == IntakeSpec => []PassedForAReason
<1>1. ASSUME IntakeInv PROVE PassedForAReason
  <2> SUFFICES ASSUME NEW m \in Messages, Passed(m) PROVE m \in excused
    BY DEF PassedForAReason
  <2>1. since # Never /\ m \in stored /\ floor <= sent[m] /\ sent[m] < since - Overlap
        /\ handed[m] = 0
    BY DEF Passed
  <2>2. Accounted(m)
    BY <1>1, <2>1 DEF IntakeInv, StoreInv, WindowInv, AccountedBefore
  <2> QED BY <2>1, <2>2 DEF Accounted
<1> QED BY <1>1, IntakeInvariant, PTL

\* When the owner's decision has been carried out the agent listens exactly where its
\* card says, believes so, and would after a restart, unless reconciliations overlapped.
THEOREM ListensWhereSaid == IntakeSpec => []ReconciledUnlessRaced
<1>1. IntakeInv => ReconciledUnlessRaced
  BY DEF IntakeInv, ListenInv, Orderly, ReconciledUnlessRaced, Heard, Listed
<1> QED BY <1>1, IntakeInvariant, PTL
===============================================================================
