------------------------------- MODULE Spending -------------------------------
(***************************************************************************)
(* The spending component of the Pilot agent: pilot-module/src/            *)
(* pilot_spending.cpp.  A spend request is a row of the SQLite table       *)
(* spend_requests; every UPDATE is its own autocommit transaction.         *)
(*                                                                         *)
(* CONCURRENCY.  The module has one thread.  A call to another module (the *)
(* wallet, delivery) blocks on a nested Qt event loop, and that loop keeps *)
(* serving other calls (pilot_identity.cpp:96, pilot_impl.cpp:892).  So    *)
(* the activations of the module form a STACK: a call parked at an RPC can *)
(* be interrupted by a whole other call, which must finish before the      *)
(* interrupted one goes on.  frame[1..depth] is that stack; frame[d].pc    *)
(* says what activation d does next.  A step between two RPCs cannot be    *)
(* interrupted, but the process can die there, so every commit is a step.  *)
(*                                                                         *)
(* The rows of outbound_tasks and inbound_tasks that are linked to a spend *)
(* are part of the state: an owner decision also moves them.               *)
(***************************************************************************)
EXTENDS Integers, FiniteSets, FiniteSetsExt

CONSTANTS
  Spends,           \* identifiers createSpendRequest may hand out
  OutTasks,         \* tasks we submitted to peers (outbound_tasks)
  InTasks,          \* tasks peers submitted to us (inbound_tasks)
  None,             \* no spend, no task
  Amounts,          \* amounts a request may carry
  PerTxLimit,       \* spendLimitPerTx_
  PerPeriodLimit,   \* spendLimitPerPeriod_
  Period,           \* spendPeriodSeconds_, in clock ticks
  ApprovalWindow,   \* the 3600 s of createSpendRequest, in clock ticks
  MaxTime,          \* bound: the clock stops here
  LastArrival,      \* bound: no request is created after this time
  MaxDepth          \* bound: how deep event loops nest

ASSUME SpendingAssumption ==
  /\ None \notin Spends \cup OutTasks \cup InTasks
  /\ IsFiniteSet(Spends)
  /\ Amounts \subseteq Nat
  /\ PerTxLimit \in Nat /\ PerPeriodLimit \in Nat
  /\ Period \in Nat /\ ApprovalWindow \in Nat
  /\ MaxTime \in Nat /\ LastArrival \in Nat
  /\ MaxDepth \in Nat \ {0}

VARIABLES
  spend,            \* spend_requests: state, amount, created_at
  out,              \* outbound_tasks: state, price, spend_request_id
  inb,              \* inbound_tasks: state, spend_request_id
  frame, depth,     \* the stack of activations
  phase,            \* "down", "db" (database open), "up" (identity loaded)
  now,              \* wall clock
  orphan,           \* wallet jobs still running that nobody waits for
  moved,            \* history: times the wallet moved the amount
  autoGrants,       \* history: times the limits let the request through
  ownerGrants,      \* history: times the owner approved it
  surfaced          \* history: interrupted spends the owner was told of

db    == <<spend, out, inb>>
stack == <<frame, depth>>
hist  == <<moved, autoGrants, ownerGrants, surfaced>>
vars  == <<spend, out, inb, frame, depth, phase, now, orphan,
           moved, autoGrants, ownerGrants, surfaced>>

SpendStates == {"none", "CREATED", "HELD", "NOTIFIED", "APPROVED", "EXECUTING",
                "COMPLETED", "TX_FAILED", "TX_UNKNOWN", "REJECTED", "EXPIRED"}
OutStates   == {"none", "submitted", "settling", "awaiting-approval", "paid",
                "pay-failed", "pay-unresolved", "accepted-nopay", "failed",
                "canceled", "rejected"}
InStates    == {"none", "accepted", "working", "input-required", "completed",
                "failed", "canceled"}
Ops == {"idle", "send", "approve", "reject", "sweep", "settle", "inbound",
        "cancel", "boot"}
Pcs == {"idle", "gate", "holding", "park", "execute", "transfer", "sent",
        "record", "notify", "replying", "advance", "held-spend", "announce",
        "release", "heal", "rearm", "reconcile", "unknown",
        "unknown-advance", "unknown-resume", "unknown-reply",
        "unknown-owner", "recover"}

Rows   == [st : SpendStates, amount : Amounts \cup {0}, at : 0..MaxTime]
Frames == [op : Ops, pc : Pcs, s : Spends \cup {None},
           t : OutTasks \cup InTasks \cup {None}, ok : BOOLEAN,
           todo : SUBSET (Spends \cup {None})]
Idle   == [op |-> "idle", pc |-> "idle", s |-> None, t |-> None, ok |-> FALSE,
           todo |-> {}]

SpendOK == spend \in [Spends -> Rows]
OutOK   == out \in [OutTasks -> [st : OutStates, price : Amounts \cup {0},
                                 s : Spends \cup {None}]]
InbOK   == inb \in [InTasks -> [st : InStates, s : Spends \cup {None}]]
StackOK == depth \in 0..MaxDepth /\ frame \in [1..MaxDepth -> Frames]
WorldOK == /\ phase \in {"down", "db", "up"}
           /\ now \in 0..MaxTime
           /\ orphan \in [Spends -> Nat]
HistOK  == /\ moved \in [Spends -> Nat]
           /\ autoGrants \in [Spends -> Nat]
           /\ ownerGrants \in [Spends -> Nat]
           /\ surfaced \subseteq Spends \cup {None}

TypeOK == SpendOK /\ OutOK /\ InbOK /\ StackOK /\ WorldOK /\ HistOK

Init ==
  /\ spend = [s \in Spends |-> [st |-> "none", amount |-> 0, at |-> 0]]
  /\ out = [o \in OutTasks |-> [st |-> "none", price |-> 0, s |-> None]]
  /\ inb = [i \in InTasks |-> [st |-> "none", s |-> None]]
  /\ frame = [d \in 1..MaxDepth |-> Idle]
  /\ depth = 0
  /\ phase = "up"
  /\ now = 0
  /\ orphan = [s \in Spends |-> 0]
  /\ moved = [s \in Spends |-> 0]
  /\ autoGrants = [s \in Spends |-> 0]
  /\ ownerGrants = [s \in Spends |-> 0]
  /\ surfaced = {}

-------------------------------------------------------------------------------
(***************************************************************************)
(* The stack of activations.                                               *)
(***************************************************************************)
Top == frame[depth]

At(pc) == depth > 0 /\ Top.pc = pc

\* Where an activation waits in a nested event loop: in a wallet or delivery
\* call.  sendToOwner makes a call only once the owner channel is loaded.
Waiting(f) == \/ f.pc \in {"transfer", "sent", "replying", "rearm",
                           "unknown-reply", "recover"}
              \/ f.pc \in {"notify", "holding", "announce"} /\ phase = "up"

\* A new call is served when no activation runs, or all of them wait.
Served == depth > 0 => Waiting(Top)

Begin(op, pc, s, t, ok, todo) ==
  /\ Served /\ depth < MaxDepth
  /\ depth' = depth + 1
  /\ frame' = [frame EXCEPT ![depth + 1] =
                 [op |-> op, pc |-> pc, s |-> s, t |-> t, ok |-> ok, todo |-> todo]]

Become(f) == /\ frame' = [frame EXCEPT ![depth] = f]
             /\ UNCHANGED depth

Goto(pc) == Become([Top EXCEPT !.pc = pc])

Return == /\ frame' = [frame EXCEPT ![depth] = Idle]
          /\ depth' = depth - 1

-------------------------------------------------------------------------------
(***************************************************************************)
(* Rows.                                                                   *)
(***************************************************************************)
SetSpend(s, st) == spend' = [spend EXCEPT ![s].st = st]

\* createSpendRequest: a fresh row in state CREATED.
Created(s, a) == [spend EXCEPT ![s] = [st |-> "CREATED", amount |-> a, at |-> now]]

Fresh(s) == spend[s].st = "none" /\ now <= LastArrival

Decidable(s) == spend[s].st \in {"HELD", "NOTIFIED"}

Expired(s) == now > spend[s].at + ApprovalWindow

\* executeSpend never runs a request that reached execution or was refused; its
\* callers never ask for it, so the early return has no action of its own.
Runnable(s) == spend[s].st \notin {"COMPLETED", "EXECUTING", "TX_FAILED", "REJECTED",
                                  "EXPIRED", "TX_UNKNOWN"}

\* Mutant: only requests the owner was told of time out.
StaleSpendsNotifiedOnly == {s \in Spends : spend[s].st = "NOTIFIED" /\ Expired(s)}

\* What expireStaleSpends selects.
StaleSpends == {s \in Spends : spend[s].st \in {"CREATED", "HELD", "NOTIFIED"}
                                 /\ Expired(s)}

\* Mutants: money in flight, or of unknown fate, is not counted.
CommittedWithoutInFlight == {"COMPLETED", "APPROVED", "TX_UNKNOWN"}
CommittedWithoutUnknown == {"COMPLETED", "EXECUTING", "APPROVED"}

\* States whose tokens are spent or committed to be spent.
Committed == {"COMPLETED", "EXECUTING", "APPROVED", "TX_UNKNOWN"}

PeriodSpent ==
  MapThenSumSet(LAMBDA s : spend[s].amount,
                {s \in Spends : /\ spend[s].st \in Committed
                                /\ spend[s].at > now - Period})

\* Both limits: the condition under which a spend needs no owner.
WithinLimits(s) == /\ spend[s].amount <= PerTxLimit
                   /\ PeriodSpent + spend[s].amount <= PerPeriodLimit

\* Mutant: a task parked behind the owner is forgotten.
AdvanceSettlingOnly(s, st) ==
  [o \in OutTasks |-> IF out[o].s = s /\ out[o].st = "settling"
                      THEN [out[o] EXCEPT !.st = st] ELSE out[o]]

\* The outbound task of spend s, if it waits for it, moves to state st.
AdvanceLinked(s, st) ==
  [o \in OutTasks |->
     IF out[o].s = s /\ out[o].st \in {"awaiting-approval", "settling"}
     THEN [out[o] EXCEPT !.st = st] ELSE out[o]]

\* The inbound task parked behind spend s.
ParkedFor(s) == {i \in InTasks : inb[i].s = s /\ inb[i].st = "input-required"}

ResumeInbound(s, ok) ==
  [i \in InTasks |->
     IF i \in ParkedFor(s)
     THEN [inb[i] EXCEPT !.st = IF ok THEN "completed" ELSE "failed"]
     ELSE inb[i]]

-------------------------------------------------------------------------------
(***************************************************************************)
(* walletSend and programCall: a request comes in from the owner's client, *)
(* the owner channel or the LLM.                                           *)
(***************************************************************************)
WalletSend(s, a) ==
  /\ phase = "up" /\ Fresh(s)
  /\ spend' = Created(s, a)
  /\ Begin("send", "gate", s, None, FALSE, {})
  /\ UNCHANGED <<out, inb, phase, now, orphan, hist>>

\* A program call above the per-transaction limit leaves a CREATED row and
\* answers "held".
ProgramCallHeld(s, a) ==
  /\ phase = "up" /\ Served /\ Fresh(s) /\ a > PerTxLimit
  /\ spend' = Created(s, a)
  /\ UNCHANGED <<out, inb, stack, phase, now, orphan, hist>>

-------------------------------------------------------------------------------
(***************************************************************************)
(* The gate, and holdForApproval behind it.  No RPC separates the reading  *)
(* of the budget from the write of EXECUTING.                              *)
(***************************************************************************)
GateExecute ==
  /\ At("gate") /\ WithinLimits(Top.s) /\ Runnable(Top.s)
  /\ SetSpend(Top.s, "EXECUTING")
  /\ autoGrants' = [autoGrants EXCEPT ![Top.s] = @ + 1]
  /\ Goto("transfer")
  /\ UNCHANGED <<out, inb, phase, now, orphan, moved, ownerGrants, surfaced>>

\* Mutant: a held send is executed anyway, "to make progress".
AfterHoldExecutes == IF Top.op = "settle" THEN Goto("park") ELSE Goto("execute")

AfterHold == IF Top.op = "settle" THEN Goto("park") ELSE Return

\* notified is FALSE when there is no owner channel or the owner's key cannot
\* be encrypted to: no call is made and the row stays HELD.
GateHold(notified) ==
  /\ At("gate") /\ ~WithinLimits(Top.s)
  /\ SetSpend(Top.s, "HELD")
  /\ IF notified THEN Goto("holding") ELSE AfterHold
  /\ UNCHANGED <<out, inb, phase, now, orphan, hist>>

\* The owner's notification went out; whatever was served meanwhile, the row
\* becomes NOTIFIED.
HoldNotified ==
  /\ At("holding")
  /\ SetSpend(Top.s, "NOTIFIED")
  /\ AfterHold
  /\ UNCHANGED <<out, inb, phase, now, orphan, hist>>

-------------------------------------------------------------------------------
(***************************************************************************)
(* executeSpend.  The wallet is another process: it may move the money     *)
(* while the call waits, after the caller gave up waiting, or never.       *)
(***************************************************************************)
ExecuteApproved ==
  /\ At("execute") /\ Runnable(Top.s)
  /\ SetSpend(Top.s, "EXECUTING")
  /\ Goto("transfer")
  /\ UNCHANGED <<out, inb, phase, now, orphan, hist>>

WalletMoves(d) ==
  /\ d \in 1..depth /\ frame[d].pc = "transfer"
  /\ frame' = [frame EXCEPT ![d] = [@ EXCEPT !.pc = "sent"]]
  /\ moved' = [moved EXCEPT ![frame[d].s] = @ + 1]
  /\ UNCHANGED <<db, depth, phase, now, orphan, autoGrants, ownerGrants, surfaced>>

\* What executeSpend's caller does with the result.
AfterExecute(ok) ==
  \/ /\ Top.op = "send"
     /\ Return
  \/ /\ Top.op = "approve"
     /\ Become([Top EXCEPT !.pc = "notify", !.ok = ok, !.todo = {Top.s}])
  \/ /\ Top.op \notin {"send", "approve"}
     /\ Become([Top EXCEPT !.pc = "record", !.ok = ok])

\* The wallet answers success.
TransferConfirmed ==
  /\ At("sent")
  /\ SetSpend(Top.s, "COMPLETED")
  /\ AfterExecute(TRUE)
  /\ UNCHANGED <<out, inb, phase, now, orphan, hist>>

\* A malformed recipient, no wallet, or a wallet that answers failure.
TransferRefused ==
  /\ At("transfer")
  /\ SetSpend(Top.s, "TX_FAILED")
  /\ AfterExecute(FALSE)
  /\ UNCHANGED <<out, inb, phase, now, orphan, hist>>

\* Mutant: a lost answer is retried.
TransferLostRetries ==
  /\ At("transfer") \/ At("sent")
  /\ SetSpend(Top.s, "APPROVED")
  /\ orphan' = IF Top.pc = "transfer" THEN [orphan EXCEPT ![Top.s] = @ + 1] ELSE orphan
  /\ Goto("execute")
  /\ UNCHANGED <<out, inb, phase, now, hist>>

\* The call's ceiling passes, or its reply is lost: an empty result reads as
\* a failure, while the wallet's job goes on.
TransferLost ==
  /\ At("transfer") \/ At("sent")
  /\ SetSpend(Top.s, "TX_FAILED")
  /\ orphan' = IF Top.pc = "transfer" THEN [orphan EXCEPT ![Top.s] = @ + 1] ELSE orphan
  /\ AfterExecute(FALSE)
  /\ UNCHANGED <<out, inb, phase, now, hist>>

LateMove(s) ==
  /\ orphan[s] > 0
  /\ orphan' = [orphan EXCEPT ![s] = @ - 1]
  /\ moved' = [moved EXCEPT ![s] = @ + 1]
  /\ UNCHANGED <<db, stack, phase, now, autoGrants, ownerGrants, surfaced>>

LateFailure(s) ==
  /\ orphan[s] > 0
  /\ orphan' = [orphan EXCEPT ![s] = @ - 1]
  /\ UNCHANGED <<db, stack, phase, now, hist>>

-------------------------------------------------------------------------------
(***************************************************************************)
(* The owner decides, or the approval window closes.                       *)
(***************************************************************************)
Approve(s) ==
  /\ phase # "down" /\ Decidable(s) /\ ~Expired(s)
  /\ SetSpend(s, "APPROVED")
  /\ ownerGrants' = [ownerGrants EXCEPT ![s] = @ + 1]
  /\ Begin("approve", "execute", s, None, FALSE, {})
  /\ UNCHANGED <<out, inb, phase, now, orphan, moved, autoGrants, surfaced>>

\* An approval after the window expires the row and tells the owner; it does
\* not touch the linked tasks.
ApproveTooLate(s) ==
  /\ phase # "down" /\ Served /\ Decidable(s) /\ Expired(s)
  /\ SetSpend(s, "EXPIRED")
  /\ UNCHANGED <<out, inb, stack, phase, now, orphan, hist>>

Reject(s) ==
  /\ phase # "down" /\ Decidable(s)
  /\ SetSpend(s, "REJECTED")
  /\ Begin("reject", "notify", s, None, FALSE, {s})
  /\ UNCHANGED <<out, inb, phase, now, orphan, hist>>

AllExpired(S) == [s \in Spends |-> IF s \in S THEN [spend[s] EXCEPT !.st = "EXPIRED"]
                                              ELSE spend[s]]

\* getPendingSpends first sweeps out what timed out.
ExpireStale ==
  /\ phase # "down" /\ StaleSpends # {}
  /\ spend' = AllExpired(StaleSpends)
  /\ Begin("sweep", "notify", None, None, FALSE, StaleSpends)
  /\ UNCHANGED <<out, inb, phase, now, orphan, hist>>

\* After a decision, for each request: sendToOwner returns, then the inbound
\* task is resumed (which tells the peer), then the outbound task advanced.
ResumeTask(s) ==
  /\ At("notify") /\ s \in Top.todo
  /\ inb' = ResumeInbound(s, Top.ok)
  /\ Become([Top EXCEPT !.s = s,
                        !.pc = IF ParkedFor(s) = {} THEN "advance" ELSE "replying"])
  /\ UNCHANGED <<spend, out, phase, now, orphan, hist>>

AdvanceTask ==
  /\ At("advance") \/ At("replying")
  /\ out' = AdvanceLinked(Top.s, IF Top.ok THEN "paid" ELSE "pay-failed")
  /\ IF Top.todo = {Top.s}
       THEN Return
       ELSE Become([Top EXCEPT !.todo = @ \ {Top.s}, !.pc = "notify"])
  /\ UNCHANGED <<spend, inb, phase, now, orphan, hist>>

-------------------------------------------------------------------------------
\* Time passes while calls wait; the steps between two waits take none.
Tick == /\ Served /\ now < MaxTime
        /\ now' = now + 1
        /\ UNCHANGED <<db, stack, phase, orphan, hist>>

\* Steps an activation takes by itself, once its RPC has returned.
Progress ==
  \/ GateExecute
  \/ \E notified \in BOOLEAN : GateHold(notified)
  \/ HoldNotified
  \/ ExecuteApproved
  \/ \E s \in Spends : ResumeTask(s)
  \/ AdvanceTask

Wallet ==
  \/ \E d \in 1..MaxDepth : WalletMoves(d)
  \/ TransferConfirmed
  \/ TransferRefused
  \/ TransferLost
  \/ \E s \in Spends : LateMove(s) \/ LateFailure(s)

Requests ==
  \/ \E s \in Spends, a \in Amounts : WalletSend(s, a) \/ ProgramCallHeld(s, a)
  \/ \E s \in Spends : Approve(s) \/ ApproveTooLate(s) \/ Reject(s)
  \/ ExpireStale

SpendingNext == Progress \/ Wallet \/ Requests \/ Tick

-------------------------------------------------------------------------------
(***************************************************************************)
(* Properties.                                                             *)
(***************************************************************************)
Quiescent == phase = "up" /\ depth = 0

\* Activations that will hand s to the wallet, or have done so and wait.
InFlight(s) == {d \in 1..depth : frame[d].pc \in {"execute", "transfer"}
                                   /\ frame[d].s = s}

\* SAFETY.  However calls nest, fail, time out or get lost, every movement of
\* a request's amount, made or still to be made, is backed by a decision of
\* its own: one pass through the limits or one owner approval in approveSpend
\* pays for one executeSpend.
MovesCoveredByGrants ==
  \A s \in Spends :
    moved[s] + orphan[s] + Cardinality(InFlight(s)) <= autoGrants[s] + ownerGrants[s]

\* SAFETY.  In any period the agent spends on its own no more than
\* spend_limit_per_period: however settlements, sends and approvals
\* interleave, the budget that periodSpent reads is not promised twice.
AutonomousWithinBudget ==
  MapThenSumSet(LAMBDA s : spend[s].amount,
                {s \in Spends : /\ autoGrants[s] > 0
                                /\ spend[s].st # "TX_FAILED"
                                /\ spend[s].at > now - Period}) <= PerPeriodLimit

\* The component seen as a ledger of grants and payments.
Ledger == INSTANCE SpendLedger
            WITH granted <- [s \in Spends |-> autoGrants[s] + ownerGrants[s]],
                 paid <- moved

\* REFINEMENT.  The spending gate of pilot_spending.cpp implements the ledger.
LedgerSpec == Ledger!Spec

\* What docs/payment-model.md:23 and the idempotency guard of executeSpend
\* (pilot_spending.cpp:237) say: a request that reached execution is not run
\* again, so its amount moves at most once.
AtMostOnce == \A s \in Spends : moved[s] <= 1

\* What docs/security-model.md:127 and the comment on periodSpent say: the
\* amount of a TX_FAILED request never moved.
FailedNeverMoved == \A s \in Spends : spend[s].st = "TX_FAILED" => moved[s] = 0
===============================================================================
