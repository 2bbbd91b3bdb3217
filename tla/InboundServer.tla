---------------------------- MODULE InboundServer ----------------------------
(***************************************************************************)
(* The server side of A2A for the skills that move no money:               *)
(* processInboundRequest of pilot_a2a_inbox.cpp with the skills it answers *)
(* at once, the one it services with the language model (agent-ask) and    *)
(* those it parks for the owner, its caps, its eviction of old rows and    *)
(* its restart.  The wallet-send skill is in TaskPayments.                 *)
(*                                                                         *)
(* Activations live on the stack of EventLoop as long as they have a state *)
(* change to make; a handler that only waits for its reply to be accepted  *)
(* by delivery is over.                                                    *)
(***************************************************************************)
EXTENDS EventLoop, FiniteSets

CONSTANTS
  Tasks,           \* ids peers give to their tasks
  Senders,         \* authenticated peers (sender_npk)
  PeerKeys,        \* keys that sign requests
  None,            \* no key, no task
  InboundMax,      \* kA2AInboundMaxPerWindow
  ServiceMax,      \* kA2AServiceMaxPerWindow
  Window,          \* kA2AServiceWindowSec
  TTL,             \* kA2AInboundTaskTTLSec
  RowCap,          \* kA2AInboundTaskMaxRows
  MaxTime,         \* bound: the clock stops here
  MaxEvents        \* bound: how many things happen to the agent from outside

ASSUME ServerAssumption ==
  /\ IsFiniteSet(Tasks)
  /\ None \notin Tasks \cup PeerKeys
  /\ {InboundMax, ServiceMax, Window, TTL, RowCap, MaxTime, MaxEvents} \subseteq Nat
  /\ Window <= TTL

VARIABLES
  row,             \* inbound_tasks: state, sender_npk, skill, created_at
  keyPin,          \* pinned_request_identities
  llm,             \* llmInFlight_
  up,              \* the process runs
  now,             \* wall clock
  events,          \* how many outside events have happened
  runs,            \* history: how often the row's skill was dispatched
  evicted,         \* history: how often its row was evicted
  served,          \* history: dispatches of agent-ask: for whom, which task, its nth run, when
  crowded,         \* history: the row cap deleted a row of the current window
  answers,         \* history: final states told to peers since the row exists
  signers          \* history: keys under which a sender was heard

serverVars == <<row, keyPin, stack, llm, up, now, events, runs, evicted, served,
                crowded, answers, signers>>
history    == <<runs, evicted, served, crowded, answers, signers>>

Skills   == {"ping", "agent-ask", "risky", "other"}
Terminal == {"completed", "failed", "canceled"}
States   == {"none", "accepted", "working", "input-required"} \cup Terminal
NoRow    == [st |-> "none", sender |-> None, skill |-> "other", at |-> 0]

\* An activation: what it does next, for which task, on whose behalf.
Frame(pc, arg, by) == [pc |-> pc, arg |-> arg, by |-> by]

ServerTypeOK ==
  /\ row \in [Tasks -> [st : States, sender : Senders \cup {None}, skill : Skills,
                        at : 0..MaxTime]]
  /\ keyPin \in [Senders -> PeerKeys \cup {None}]
  /\ llm \in 0..MaxDepth
  /\ up \in BOOLEAN /\ now \in 0..MaxTime /\ events \in 0..MaxEvents
  /\ Len(stack) <= MaxDepth

ServerInit ==
  /\ row = [t \in Tasks |-> NoRow]
  /\ keyPin = [s \in Senders |-> None]
  /\ stack = <<>> /\ llm = 0 /\ up = TRUE
  /\ now = 0 /\ events = 0
  /\ runs = [t \in Tasks |-> 0]
  /\ evicted = [t \in Tasks |-> 0]
  /\ served = {}
  /\ crowded = FALSE
  /\ answers = [t \in Tasks |-> {}]
  /\ signers = [s \in Senders |-> {}]

-------------------------------------------------------------------------------
(***************************************************************************)
(* Activations.                                                            *)
(***************************************************************************)
\* Where an activation waits in a nested event loop.
Waits == {"asking", "thinking", "answering"}

\* Calls and events are served while nothing runs or all activations wait.
Served == up /\ Parked(Waits)

\* Something happens from outside.
Outside == events < MaxEvents /\ events' = events + 1

\* Activations inside LLMProvider::complete.
Completing == {d \in DOMAIN stack : stack[d].pc \in {"asking", "thinking"}}

-------------------------------------------------------------------------------
(***************************************************************************)
(* Rows of inbound_tasks.                                                  *)
(***************************************************************************)
\* inboundTaskSetState: a terminal state is never left.
SetState(rows, t, st) ==
  IF rows[t].st \in Terminal \cup {"none"} THEN rows ELSE [rows EXCEPT ![t].st = st]

\* Mutant: a row being worked on does not count as handled.
HandledOnceAnswered(t) == row[t].st \in Terminal \cup {"input-required"}

\* The idempotency check of tasks/send.
AlreadyHandled(t) == row[t].st \in Terminal \cup {"working", "input-required"}

\* Mutant: only rows that are not finished count against the quota.
UnfinishedInWindow(s, skills) ==
  Cardinality({t \in Tasks : /\ row[t].st \notin Terminal \cup {"none"}
                             /\ row[t].sender = s
                             /\ row[t].skill \in skills
                             /\ row[t].at >= now - Window})

\* a2aRecentSkillCount, the new row included.
CountInWindow(s, skills) ==
  Cardinality({t \in Tasks : /\ row[t].st # "none"
                             /\ row[t].sender = s
                             /\ row[t].skill \in skills
                             /\ row[t].at >= now - Window})

\* a2aEvictOldInboundTasks: finished rows past the TTL go, and all but the
\* newest RowCap of the rest; rows of the same second go in any order.
TooOld(rows) == {t \in Tasks : rows[t].st \in Terminal /\ rows[t].at < now - TTL}

Newest(rows, kept) ==
  LET finished == {t \in Tasks : rows[t].st \in Terminal} \ TooOld(rows)
  IN /\ kept \subseteq finished
     /\ Cardinality(kept) = IF Cardinality(finished) < RowCap
                            THEN Cardinality(finished) ELSE RowCap
     /\ \A t \in kept, u \in finished \ kept : rows[t].at >= rows[u].at

Gone(rows, kept) == {t \in Tasks : rows[t].st \in Terminal} \ kept

Without(rows, gone) == [t \in Tasks |-> IF t \in gone THEN NoRow ELSE rows[t]]

Evict(rows, kept) ==
  /\ Newest(rows, kept)
  /\ evicted' = [t \in Tasks |-> evicted[t] + IF t \in Gone(rows, kept) THEN 1 ELSE 0]
  /\ crowded' = (crowded \/ \E t \in Gone(rows, kept) : rows[t].at >= now - Window)

\* The peer is told the state of t.
Tell(t, st) == answers' = [answers EXCEPT ![t] = @ \cup ({st} \cap Terminal)]

-------------------------------------------------------------------------------
(***************************************************************************)
(* tasks/send.                                                             *)
(***************************************************************************)
\* Mutant: the key of the last message is pinned.
TrustsLast(s, key) == keyPin' = [keyPin EXCEPT ![s] = key]

\* verifyInboundRequest: the first key a sender is heard under is pinned.
Trusts(s, key) == /\ keyPin[s] \in {None, key}
                  /\ keyPin' = [keyPin EXCEPT ![s] = key]

Heard(s, key) == signers' = [signers EXCEPT ![s] = @ \cup {key}]

\* A new task: the row is inserted, for a sender that is authenticated.
Send(t, s, key, skill) ==
  /\ Outside /\ Served /\ Trusts(s, key) /\ Heard(s, key)
  /\ ~AlreadyHandled(t)
  /\ Push(Frame("accepted", t, "peer"))
  /\ row' = [row EXCEPT ![t] = [st |-> "accepted", sender |-> s, skill |-> skill,
                                at |-> now]]
  /\ answers' = [answers EXCEPT ![t] = {}]
  /\ UNCHANGED <<llm, up, now, runs, evicted, served, crowded>>

\* A redelivered tasks/send, and tasks/sendSubscribe: the stored state.
AnswerAgain(t, s, key) ==
  /\ Outside /\ Served /\ Trusts(s, key) /\ Heard(s, key)
  /\ AlreadyHandled(t)
  /\ Tell(t, row[t].st)
  /\ UNCHANGED <<row, stack, llm, up, now, runs, evicted, served, crowded>>

\* The flood gate over all skills comes before the eviction.
TooMany(t) ==
  /\ At("accepted") /\ Top.arg = t
  /\ CountInWindow(row[t].sender, Skills) > InboundMax
  /\ row' = SetState(row, t, "failed")
  /\ Tell(t, "failed")
  /\ Pop
  /\ UNCHANGED <<keyPin, llm, up, now, events, runs, evicted, served, crowded, signers>>

Admitted(t) == /\ At("accepted") /\ Top.arg = t
               /\ CountInWindow(row[t].sender, Skills) <= InboundMax

\* A task that ends in the call that brought it.
EndsAtOnce(t, st, kept) ==
  /\ Evict(row, kept)
  /\ row' = SetState(Without(row, Gone(row, kept)), t, st)
  /\ Tell(t, st)
  /\ Pop
  /\ UNCHANGED <<keyPin, llm, up, now, events, runs, served, signers>>

\* ping and capabilities.
AnswerPing(t, kept) ==
  Admitted(t) /\ row[t].skill = "ping" /\ EndsAtOnce(t, "completed", kept)

\* agent-ask over its quota, or with arguments over their size.
RefuseAsk(t, kept) ==
  Admitted(t) /\ row[t].skill = "agent-ask" /\ EndsAtOnce(t, "failed", kept)

\* What is not offered to strangers.
Unsupported(t, kept) ==
  Admitted(t) /\ row[t].skill = "other" /\ EndsAtOnce(t, "failed", kept)

\* storage-, messaging- and program- skills wait for the owner; nothing runs.
ParkForOwner(t, kept) ==
  /\ Admitted(t) /\ row[t].skill = "risky"
  /\ Evict(row, kept)
  /\ row' = [Without(row, Gone(row, kept)) EXCEPT ![t].st = "input-required"]
  /\ Pop
  /\ UNCHANGED <<keyPin, llm, up, now, events, runs, served, answers, signers>>

Dispatched(t, kept) ==
  /\ Admitted(t) /\ row[t].skill = "agent-ask"
  /\ CountInWindow(row[t].sender, {"agent-ask"}) <= ServiceMax
  /\ Evict(row, kept)
  /\ runs' = [runs EXCEPT ![t] = @ + 1]
  /\ served' = served \cup {[sender |-> row[t].sender, task |-> t, nth |-> runs[t],
                             at |-> now]}
  /\ UNCHANGED <<keyPin, up, now, events, signers>>

\* Mutant: strangers may wait for one another.
FreeForTwo == llm < 2

\* kMaxConcurrentLLMCalls.
Free == llm < 1

\* agentAsk starts a completion, in a nested event loop ...
AskStarts(t, kept) ==
  /\ Dispatched(t, kept)
  /\ Free
  /\ row' = SetState(Without(row, Gone(row, kept)), t, "working")
  /\ llm' = llm + 1
  /\ Become(Frame("asking", t, "peer"))
  /\ UNCHANGED answers

\* ... or refuses: the model is busy or not configured, the prompt is empty.
AskRefused(t, kept) ==
  /\ Dispatched(t, kept)
  /\ row' = SetState(Without(row, Gone(row, kept)), t, "failed")
  /\ Tell(t, "failed")
  /\ Pop
  /\ UNCHANGED llm

\* Mutant: the peer is told what the handler wanted to store.
AskReturnsUnread(st) ==
  /\ At("asking") /\ Top.by = "peer" /\ st \in {"completed", "failed"}
  /\ row' = SetState(row, Top.arg, st)
  /\ Tell(Top.arg, st)
  /\ llm' = llm - 1
  /\ Pop
  /\ UNCHANGED <<keyPin, up, now, events, runs, evicted, served, crowded, signers>>

\* The completion returns; the peer is told what is in the row by now.
AskReturns(st) ==
  /\ At("asking") /\ Top.by = "peer" /\ st \in {"completed", "failed"}
  /\ row' = SetState(row, Top.arg, st)
  /\ Tell(Top.arg, row'[Top.arg].st)
  /\ llm' = llm - 1
  /\ Pop
  /\ UNCHANGED <<keyPin, up, now, events, runs, evicted, served, crowded, signers>>

\* The owner's client calls the skill itself, through dispatchSkill.
ClientAsks ==
  /\ Outside /\ Served /\ Free
  /\ Push(Frame("asking", None, "client"))
  /\ llm' = llm + 1
  /\ UNCHANGED <<row, keyPin, up, now, history>>

ClientAnswered ==
  /\ At("asking") /\ Top.by = "client"
  /\ llm' = llm - 1
  /\ Pop
  /\ UNCHANGED <<row, keyPin, up, now, events, history>>

-------------------------------------------------------------------------------
(***************************************************************************)
(* tasks/cancel, the clock, crash and restart.                             *)
(***************************************************************************)
\* Only the peer that sent the task may withdraw it, and only once.
Cancel(t, s, key) ==
  /\ Outside /\ Served /\ Trusts(s, key) /\ Heard(s, key)
  /\ row[t].st \notin Terminal \cup {"none"} /\ row[t].sender = s
  /\ row' = SetState(row, t, "canceled")
  /\ Tell(t, "canceled")
  /\ UNCHANGED <<stack, llm, up, now, runs, evicted, served, crowded>>

\* Bounds: a completion has a timeout far below the TTL of a row, and what runs without
\* waiting runs within a second.
Tick ==
  /\ Outside /\ now < MaxTime /\ Parked(Waits)
  /\ \A d \in DOMAIN stack : stack[d].arg \in Tasks => now < row[stack[d].arg].at + TTL
  /\ now' = now + 1
  /\ UNCHANGED <<row, keyPin, stack, llm, up, history>>

Dies ==
  /\ Outside /\ up
  /\ up' = FALSE /\ stack' = <<>> /\ llm' = 0
  /\ UNCHANGED <<row, keyPin, now, history>>

\* What inboundTasksRecover makes of the rows before it evicts.
Recovered == [t \in Tasks |-> IF row[t].st \in {"accepted", "working"}
                              THEN [row[t] EXCEPT !.st = "failed"] ELSE row[t]]

Restart(kept) ==
  /\ ~up /\ up' = TRUE
  /\ Evict(Recovered, kept)
  /\ row' = Without(Recovered, Gone(Recovered, kept))
  /\ UNCHANGED <<keyPin, stack, llm, now, events, runs, served, answers, signers>>

Handler ==
  \E t \in Tasks :
    \/ TooMany(t)
    \/ \E kept \in SUBSET Tasks :
         \/ AnswerPing(t, kept)
         \/ RefuseAsk(t, kept)
         \/ Unsupported(t, kept)
         \/ ParkForOwner(t, kept)
         \/ AskStarts(t, kept)
         \/ AskRefused(t, kept)

LlmReturns == ClientAnswered \/ \E st \in {"completed", "failed"} : AskReturns(st)

PeerRequest ==
  \E t \in Tasks, s \in Senders, key \in PeerKeys :
    \/ \E skill \in Skills : Send(t, s, key, skill)
    \/ AnswerAgain(t, s, key)
    \/ Cancel(t, s, key)

ServerNext ==
  \/ PeerRequest
  \/ ClientAsks
  \/ Handler
  \/ LlmReturns
  \/ Tick

-------------------------------------------------------------------------------
(***************************************************************************)
(* Properties.                                                             *)
(***************************************************************************)
\* SAFETY.  While the row of a task lives, its peer never hears two different final
\* answers for it, even when its cancel is served inside the completion it asked for
\* (L5): the late result is neither stored nor told.
AnswersAgree == \A t \in Tasks : Cardinality(answers[t]) <= 1

\* SAFETY.  Delivery is at-least-once, but a billable skill is dispatched again
\* for the same task only if its row was evicted in between.
RerunOnlyAfterEviction == \A t \in Tasks : runs[t] <= 1 + evicted[t]

\* The dispatches for one sender in the window that ends with e.
WindowOf(e) == {f \in served : f.sender = e.sender /\ f.at \in (e.at - Window)..e.at}

\* SAFETY.  In no window do the completions run for one sender exceed the
\* quota, across restarts and evictions, as long as the row cap does not delete
\* rows of the window itself (H3).
FloodBound == ~crowded => \A e \in served : Cardinality(WindowOf(e)) <= ServiceMax

\* SAFETY.  A stranger's completion is never started on top of another one
\* (L6), and the counter that guarantees it is exact at every nesting.
StrangersNeverNest ==
  /\ llm = Cardinality(Completing)
  /\ \A d \in DOMAIN stack : stack[d].pc = "asking" => \A e \in Completing : e >= d

\* SAFETY.  A sender is only ever heard under one key (H2, TOFU), across
\* restarts and whatever else arrives in its name.
OneKeyPerSender == \A s \in Senders : Cardinality(signers[s]) <= 1
===============================================================================
