---------------------------- MODULE MessageIntake ----------------------------
(***************************************************************************)
(* How messages reach the agent, and where it listens.  A message is       *)
(* pushed by the delivery module (handleInboundMessage, for topics it is   *)
(* subscribed to) or pulled from the relay's store (pollStore, from        *)
(* agentPoll and agentDiscover).  The topics it listens on follow the      *)
(* owner's open-for-hire decision (subscribeIdentityTopics).  Cards that   *)
(* come this way go into the cache of Discovery.                           *)
(*                                                                         *)
(* An HTTP read, a call of the delivery module and the handling of a       *)
(* peer's message wait in a nested event loop.  What the handlers of tasks *)
(* and replies do is in InboundServer and TaskPayments: here they take     *)
(* time.  Calls reach the delivery module in the order they are issued.    *)
(***************************************************************************)
EXTENDS Discovery

CONSTANTS
  Files,           \* cards the owner may import
  Messages,        \* messages the network ever carries
  Content,         \* Content[m]: its topic, and its card if it is one
  Searched,        \* topics agentDiscover is called with ("" is "discovery")
  Inboxes,         \* topics named after our keys (one, or two with a legacy key)
  Overlap,         \* seconds a poll reads again (60)
  LookBack,        \* seconds the first poll reads (900)
  PageSize,        \* messages in one answer of the store (100)
  SeenCap,         \* hashes remembered (20000)
  MaxEvents        \* bound: calls and deliveries

Topics == {"discovery", "named", "owner", "reply"} \cup Inboxes

ASSUME IntakeAssumption ==
  /\ Content \in [Messages -> [topic : Topics, card : Cards \cup {None}]]
  /\ \A m \in Messages : Content[m].topic = "discovery" => Content[m].card # None
  /\ Files \subseteq Cards /\ Searched \subseteq {"discovery", "named"}
  /\ Inboxes \cap {"discovery", "named", "owner", "reply"} = {}
  /\ {Overlap, LookBack, PageSize, SeenCap, MaxEvents} \subseteq Nat

VARIABLES
  sent,            \* when a message of the store was published
  stored,          \* messages in the relay's store
  seen,            \* seenStoreHashes_
  since,           \* storePollSinceNs_ (Never = 0)
  open,            \* openForHire_
  persisted,       \* config a2a.open_for_hire
  subscribed,      \* subscribedTopics_
  listening,       \* topics the delivery module serves to us
  events,          \* how many calls and deliveries there were
  handed,          \* history: how often the store handed a message over
  pushed,          \* history: messages pushed
  forgets,         \* history: how often the hashes were forgotten
  excused,         \* history: messages a poll did not ask for or a page had no room for
  floor,           \* history: how far back this process has looked
  raced            \* history: two reconciliations of this process overlapped

intakeVars == <<sent, stored, seen, since, handed, pushed, forgets, excused, floor>>
listenVars == <<open, persisted, subscribed, listening, raced>>
vars == <<stack, now, events, marketVars, intakeVars, listenVars>>

Never == -1 - LookBack

Topic(m) == Content[m].topic

\* An activation: the operation, what it does next, and what it has to do.
Call(op, pc) == [op |-> op, pc |-> pc, topics |-> {}, at |-> 0, from |-> 0,
                 todo |-> {}, held |-> {}, topic |-> "owner"]

IntakeTypeOK ==
  /\ MarketTypeOK
  /\ sent \in [Messages -> 0..MaxTime \cup {Never}]
  /\ stored \subseteq Messages
  /\ seen \subseteq stored /\ Cardinality(seen) <= SeenCap + 1
  /\ since \in 0..MaxTime \cup {Never}
  /\ {open, persisted, raced} \subseteq BOOLEAN
  /\ subscribed \subseteq Topics /\ listening \subseteq Topics
  /\ \A d \in DOMAIN stack : stack[d].topics \cup stack[d].held \subseteq Topics

-------------------------------------------------------------------------------
(***************************************************************************)
(* Activations.                                                            *)
(***************************************************************************)
Waits  == {"fetching", "handling", "arming", "subscribing", "unsubscribing"}
Served == Parked(Waits)
Event  == Served /\ events < MaxEvents /\ events' = events + 1
Goto(pc) == Become([Top EXCEPT !.pc = pc])

\* identityTopics.
IdentityTopics(isOpen) == {"discovery"} \cup IF isOpen THEN Inboxes ELSE {}

\* agentPollTopics.  The topics of groups are polled like the owner's.
PollTopics ==
  IdentityTopics(open) \cup {"owner"}
    \cup IF \E h \in Hires : hire[h].st = "open" THEN {"reply"} ELSE {}

\* subscribeIdentityTopics computes the topics once, at its start.
Reconciler(op, isOpen) ==
  [Call(op, "subscribe") EXCEPT !.topics = IdentityTopics(isOpen),
                                !.todo = IdentityTopics(isOpen)]

Reconciling == \E d \in DOMAIN stack : stack[d].op \in {"open", "close", "assert"}

IntakeInit ==
  /\ MarketInit
  /\ sent = [m \in Messages |-> Never] /\ stored = {} /\ seen = {} /\ since = Never
  /\ handed = [m \in Messages |-> 0] /\ pushed = {} /\ forgets = 0
  /\ excused = {} /\ floor = 0
  /\ open = FALSE /\ persisted = FALSE /\ subscribed = {} /\ listening = {} /\ raced = FALSE
  /\ stack = <<Reconciler("assert", FALSE)>>
  /\ events = 0

-------------------------------------------------------------------------------
(***************************************************************************)
(* The network.  A published message reaches the store within Overlap.     *)
(***************************************************************************)
Land(m, at) ==
  /\ m \notin stored
  /\ stored' = stored \cup {m}
  /\ sent' = [sent EXCEPT ![m] = at]
  /\ UNCHANGED <<stack, now, events, marketVars, seen, since, handed, pushed, forgets, excused,
                 floor, listenVars>>

Tick ==
  /\ now < MaxTime
  /\ now' = now + 1
  /\ UNCHANGED <<stack, events, marketVars, intakeVars, listenVars>>

-------------------------------------------------------------------------------
(***************************************************************************)
(* handleInboundMessage.                                                   *)
(***************************************************************************)
\* What the message does to what we know of peers.
Note(m) ==
  /\ IF Topic(m) = "discovery" THEN Learn(Content[m].card)
     ELSE UNCHANGED <<pinned, card, seenAt>>
  /\ UNCHANGED hire

\* The handlers of tasks and replies call the model, the wallet and peers.
Slow(m) == Topic(m) \in Inboxes \cup {"reply"}

\* The delivery module pushes a message.
Pushed(m) ==
  /\ Event
  /\ m \in stored \ pushed /\ Topic(m) \in listening
  /\ pushed' = pushed \cup {m}
  /\ Note(m)
  /\ IF Slow(m) THEN Push(Call("pushed", "handling")) ELSE UNCHANGED stack
  /\ UNCHANGED <<now, sent, stored, seen, since, handed, forgets, excused, floor,
                 listenVars>>

PushHandled ==
  /\ At("handling") /\ Top.op = "pushed" /\ Pop
  /\ UNCHANGED <<now, events, marketVars, intakeVars, listenVars>>

-------------------------------------------------------------------------------
(***************************************************************************)
(* pollStore, for agentPoll and agentDiscover.                             *)
(***************************************************************************)
\* Mutant: the next window starts where the last one ended.
FromLast == IF since = Never THEN now - LookBack ELSE since

\* Where the window starts.
From == IF since = Never THEN now - LookBack ELSE since - Overlap

Poll(op, topics) ==
  /\ Event
  /\ Push([Call(op, "fetching") EXCEPT !.topics = topics, !.at = now, !.from = From])
  /\ UNCHANGED <<now, marketVars, intakeVars, listenVars>>

AgentPoll == Poll("poll", PollTopics)

AgentDiscover == \E t \in Searched : Poll("discover", {t})

\* The oldest of a set of messages, PageSize of them.
Oldest(ms, page) ==
  /\ page \subseteq ms
  /\ Cardinality(page) = IF Cardinality(ms) < PageSize THEN Cardinality(ms) ELSE PageSize
  /\ \A m \in page, n \in ms \ page : sent[m] <= sent[n]

\* The store answers with one page.
Fetched ==
  /\ At("fetching")
  /\ LET inWindow == {m \in stored : Topic(m) \in Top.topics /\ sent[m] >= Top.from}
     IN \E page \in SUBSET inWindow :
          /\ Oldest(inWindow, page)
          /\ excused' = excused \cup (inWindow \ page)
          /\ Become([Top EXCEPT !.pc = "reading", !.todo = page, !.from = 0])
  /\ floor' = IF since = Never /\ Top.from > 0 THEN Top.from ELSE floor
  /\ UNCHANGED <<now, events, marketVars, sent, stored, seen, since, handed, pushed,
                 forgets, listenVars>>

\* What follows a poll: agentDiscover arms the topic.
AfterPoll ==
  IF Top.op = "poll" THEN Pop /\ UNCHANGED listening
  ELSE Become(Call("discover", "arming")) /\ listening' = listening \cup Top.topics

\* The store does not answer: the window stays where it was.
FetchFails ==
  /\ At("fetching")
  /\ AfterPoll
  /\ UNCHANGED <<now, events, marketVars, intakeVars, open, persisted, subscribed, raced>>

\* Mutant: what a peer asks is remembered by its own handler.
RememberQuick(m) ==
  /\ seen' = IF Slow(m) THEN seen ELSE seen \cup {m}
  /\ UNCHANGED forgets

\* Mutant: nothing is ever forgotten.
RememberAll(m) == seen' = seen \cup {m} /\ UNCHANGED forgets

\* The hash is remembered first; when there are too many all are forgotten.
Remember(m) ==
  IF Cardinality(seen) > SeenCap
  THEN seen' = {m} /\ forgets' = forgets + 1
  ELSE seen' = seen \cup {m} /\ UNCHANGED forgets

\* The next message of the page that was not seen is handled.
ReadNext(m) ==
  /\ At("reading") /\ m \in Top.todo \ seen
  /\ \A n \in Top.todo \ seen : sent[m] <= sent[n]
  /\ Remember(m)
  /\ handed' = [handed EXCEPT ![m] = @ + 1]
  /\ Note(m)
  /\ Become([Top EXCEPT !.todo = {n \in @ \ {m} : sent[n] >= sent[m]},
                        !.pc = IF Slow(m) THEN "handling" ELSE "reading"])
  /\ UNCHANGED <<now, events, sent, stored, since, pushed, excused, floor, listenVars>>

Handled ==
  /\ At("handling") /\ Top.op # "pushed" /\ Goto("reading")
  /\ UNCHANGED <<now, events, marketVars, intakeVars, listenVars>>

\* The page is read: the next window starts when this poll did.
PollEnds ==
  /\ At("reading") /\ Top.todo \subseteq seen
  /\ since' = Top.at
  /\ excused' = excused \cup {m \in Messages : Topic(m) \notin Top.topics}
  /\ AfterPoll
  /\ UNCHANGED <<now, events, marketVars, sent, stored, seen, handed, pushed, forgets, floor,
                 open, persisted, subscribed, raced>>

\* agentDiscover ends with the eviction of old cards.
Armed ==
  /\ At("arming") /\ Pop
  /\ \E kept \in SUBSET Npks : EvictCards(kept)
  /\ UNCHANGED <<now, events, pinned, hire, intakeVars, listenVars>>

-------------------------------------------------------------------------------
(***************************************************************************)
(* Open for hire: subscribeIdentityTopics and what calls it.               *)
(***************************************************************************)
\* An activation that will make the subscriptions those of isOpen.
Reconcile(op, isOpen) ==
  /\ Push(Reconciler(op, isOpen))
  /\ raced' = (raced \/ Reconciling)

\* agentOpenForHire: the decision is recorded first.
OpenForHire ==
  /\ Event /\ open' = TRUE /\ persisted' = TRUE /\ Reconcile("open", TRUE)
  /\ UNCHANGED <<now, marketVars, intakeVars, subscribed, listening>>

\* agentCloseForHire: the decision is recorded last.
CloseForHire ==
  /\ Event /\ open' = FALSE /\ Reconcile("close", FALSE)
  /\ UNCHANGED <<now, marketVars, intakeVars, persisted, subscribed, listening>>

\* agentCard of an open agent subscribes again before it publishes.
AgentCard ==
  /\ Event /\ open /\ Reconcile("assert", TRUE)
  /\ UNCHANGED <<now, marketVars, intakeVars, open, persisted, subscribed, listening>>

\* The next topic we want and do not have; discovery is the first of them.
Subscribe(t) ==
  /\ At("subscribe") /\ t \in Top.todo \ subscribed
  /\ "discovery" \in Top.todo \ subscribed => t = "discovery"
  /\ listening' = listening \cup {t}
  /\ Become([Top EXCEPT !.pc = "subscribing", !.topic = t, !.todo = @ \ {t, "discovery"}])
  /\ UNCHANGED <<now, events, marketVars, intakeVars, open, persisted, subscribed, raced>>

\* It is recorded whatever the delivery module says.
Subscribed ==
  /\ At("subscribing")
  /\ subscribed' = subscribed \cup {Top.topic}
  /\ Goto("subscribe")
  /\ UNCHANGED <<now, events, marketVars, intakeVars, open, persisted, listening, raced>>

\* Mutant: nothing is unsubscribed.
ExcessNone == {}

\* Topics we hold and do not want.
Excess == subscribed \ Top.topics

Unsubscribe(t) ==
  /\ At("subscribe") /\ Top.todo \subseteq subscribed /\ t \in Excess
  /\ listening' = listening \ {t}
  /\ Become([Top EXCEPT !.pc = "unsubscribing", !.topic = t, !.held = subscribed,
                        !.todo = {}])
  /\ UNCHANGED <<now, events, marketVars, intakeVars, open, persisted, subscribed, raced>>

\* The iterator of the loop is still good if the list did not change; if it did,
\* any entry may be the one that is erased, or none.
Unsubscribed ==
  /\ At("unsubscribing")
  /\ subscribed' \in IF subscribed = Top.held THEN {subscribed \ {Top.topic}}
                     ELSE {subscribed \ {t} : t \in Topics}
  /\ Goto("subscribe")
  /\ UNCHANGED <<now, events, marketVars, intakeVars, open, persisted, listening, raced>>

ReconcileEnds ==
  /\ At("subscribe") /\ Top.todo \subseteq subscribed /\ Excess = {}
  /\ persisted' = IF Top.op = "close" THEN FALSE ELSE persisted
  /\ Pop
  /\ UNCHANGED <<now, events, marketVars, intakeVars, open, subscribed, listening, raced>>

-------------------------------------------------------------------------------
(***************************************************************************)
(* The owner hires; the process dies and comes back.                       *)
(***************************************************************************)
\* agentImportCard and the tasks we submit.
OwnerActs ==
  /\ Event
  /\ \/ \E c \in Files : Import(c)
     \/ \E h \in Hires, a \in Npks : Hire(h, a)
     \/ \E h \in Hires, st \in {"awaiting", "settled"} : Settle(h, st)
     \/ \E h \in Hires : Decide(h)
  /\ UNCHANGED <<stack, now, intakeVars, listenVars>>

\* What was in memory is gone; initialize evicts old cards and subscribes what was decided.
Restart ==
  /\ events < MaxEvents /\ events' = events + 1
  /\ stack' = <<Reconciler("assert", persisted)>>
  /\ open' = persisted /\ subscribed' = {} /\ listening' = {} /\ raced' = FALSE
  /\ seen' = {} /\ since' = Never /\ forgets' = forgets + 1
  /\ excused' = {} /\ floor' = 0
  /\ \E kept \in SUBSET Npks : EvictCards(kept)
  /\ UNCHANGED <<now, pinned, hire, sent, stored, handed, pushed, persisted>>

-------------------------------------------------------------------------------
Network ==
  \/ Tick
  \/ \E m \in Messages :
       \/ Pushed(m)
       \/ \E at \in 0..MaxTime : at <= now /\ now <= at + Overlap /\ Land(m, at)

Intake ==
  \/ AgentPoll \/ AgentDiscover \/ Fetched \/ FetchFails \/ Handled \/ PushHandled
  \/ PollEnds \/ Armed \/ \E m \in Messages : ReadNext(m)

Listen ==
  \/ OpenForHire \/ CloseForHire \/ AgentCard \/ Subscribed \/ Unsubscribed \/ ReconcileEnds
  \/ \E t \in Topics : Subscribe(t) \/ Unsubscribe(t)

IntakeNext == Network \/ Intake \/ Listen \/ OwnerActs \/ Restart

IntakeSpec == IntakeInit /\ [][IntakeNext]_vars

-------------------------------------------------------------------------------
(***************************************************************************)
(* Properties.                                                             *)
(***************************************************************************)
\* A message this process should have read, and the window has passed it.
Passed(m) ==
  /\ since # Never /\ m \in stored
  /\ floor <= sent[m] /\ sent[m] < since - Overlap
  /\ handed[m] = 0

\* SAFETY.  The store hands a message over once, as long as its hash is remembered:
\* overlapping windows and polls inside the handling of a message included.
HandledOnce == \A m \in Messages : handed[m] <= 1 + forgets

\* SAFETY.  A window passes a message by only if some poll did not ask for its topic
\* or a page ended before it: late arrival at the store, slow handling, nested polls
\* and answers that fail lose nothing (pilot_a2a.cpp:701-703).
PassedForAReason ==
  \A m \in Messages : Passed(m) => m \in excused

\* SAFETY.  When the owner's decision has been carried out, the agent listens exactly
\* where its card says, believes so, and would after a restart: unless two
\* reconciliations overlapped, which no later one of the process repairs.
ReconciledUnlessRaced ==
  ~Reconciling /\ ~raced =>
    /\ subscribed = IdentityTopics(open)
    /\ listening \cap ({"discovery"} \cup Inboxes) = subscribed
    /\ persisted = open

\* The claim of pilot_impl.h:164-176 and pilot_a2a.cpp:701-703: a message of the
\* owner, whose topic every agentPoll reads, is not skipped.
NothingSkipped == \A m \in Messages : Topic(m) = "owner" => ~Passed(m)
===============================================================================
