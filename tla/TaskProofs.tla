----------------------------- MODULE TaskProofs -----------------------------
(***************************************************************************)
(* More theorems about PilotAgent, for every value of its constants: what  *)
(* becomes of the tasks behind spend requests, and that what reads paid    *)
(* was paid, across crashes.                                               *)
(***************************************************************************)
EXTENDS PilotAgentProofs

USE SpendingAssumption, CrashAssumption

-------------------------------------------------------------------------------
(***************************************************************************)
(* The inductive invariant.                                                *)
(***************************************************************************)
\* The request of an inbound task was never at the gate: what is at the gate is a
\* request of its own, and only a request that exists was let through.
LinkInv ==
  /\ \A s \in Spends : spend[s].st = "none" => autoGrants[s] = 0
  /\ \A i \in InTasks : inb[i].s \in Spends =>
                          spend[inb[i].s].st # "none" /\ autoGrants[inb[i].s] = 0
  /\ \A d \in 1..depth : frame[d].pc = "gate" =>
                           /\ frame[d].s \in Spends /\ spend[frame[d].s].st # "none"
                           /\ \A i \in InTasks : inb[i].s # frame[d].s

\* A task that can be claimed has no request.
ClaimInv == \A o \in OutTasks : out[o].st \in {"none", "submitted"} => out[o].s = None

\* Nothing is served between the acceptance of an inbound task and its request.
NoHeld == \A d \in 1..depth : frame[d].pc # "held-spend"
HoldInv ==
  \A d \in 1..depth : frame[d].pc = "held-spend" =>
    d = depth /\ frame[d].t \in InTasks /\ inb[frame[d].t].st = "accepted"

TaskInv == TypeOK /\ LinkInv /\ ClaimInv /\ HoldInv

\* What a step says of finished inbound tasks and of tasks with a request.
Final == \A i \in InTasks : inb[i].st \in Terminal => inb'[i] = inb[i]
OneSpend == \A o \in OutTasks : out[o].s \in Spends => out'[o].s = out[o].s

-------------------------------------------------------------------------------
(***************************************************************************)
(* Quiet steps: they let nothing through, create no link and no claim, and *)
(* leave no activation between acceptance and request.                     *)
(***************************************************************************)
GatesShrink ==
  \A d \in 1..depth' : frame'[d].pc = "gate" =>
    d \in 1..depth /\ frame[d].pc = "gate" /\ frame'[d].s = frame[d].s

QuietStack == GatesShrink /\ NoHeld'

RowsKept  == \A s \in Spends : spend[s].st # "none" => spend'[s].st # "none"
LinksKept == \A i \in InTasks : /\ inb'[i].s = inb[i].s
                                /\ inb[i].st \in Terminal => inb'[i] = inb[i]
ClaimsKept ==
  \A o \in OutTasks :
    /\ out'[o].s = out[o].s
    /\ out'[o].st \in {"none", "submitted"} =>
         out[o].st \in {"none", "submitted"} \/ out[o].s = None

Quiet == RowsKept /\ LinksKept /\ ClaimsKept /\ QuietStack /\ UNCHANGED autoGrants

LEMMA QuietKeeps ==
  ASSUME TaskInv, TypeOK', Quiet
  PROVE  TaskInv' /\ Final /\ OneSpend
<1>1. LinkInv'
  <2>1. \A s \in Spends : spend'[s].st = "none" => autoGrants'[s] = 0
    BY DEF TaskInv, LinkInv, Quiet, RowsKept
  <2>2. \A i \in InTasks : inb'[i].s \in Spends =>
                             spend'[inb'[i].s].st # "none" /\ autoGrants'[inb'[i].s] = 0
    BY DEF TaskInv, LinkInv, Quiet, RowsKept, LinksKept
  <2>3. ASSUME NEW d \in 1..depth', frame'[d].pc = "gate"
        PROVE  /\ frame'[d].s \in Spends /\ spend'[frame'[d].s].st # "none"
               /\ \A i \in InTasks : inb'[i].s # frame'[d].s
    <3>1. d \in 1..depth /\ frame[d].pc = "gate" /\ frame'[d].s = frame[d].s
      BY <2>3 DEF Quiet, QuietStack, GatesShrink
    <3> QED BY <3>1 DEF TaskInv, LinkInv, Quiet, RowsKept, LinksKept
  <2> QED BY <2>1, <2>2, <2>3 DEF LinkInv
<1>2. ClaimInv' /\ OneSpend
  BY DEF TaskInv, ClaimInv, Quiet, ClaimsKept, OneSpend
<1>3. HoldInv' /\ Final
  BY DEF HoldInv, Quiet, QuietStack, NoHeld, LinksKept, Final
<1> QED BY <1>1, <1>2, <1>3 DEF TaskInv

Unmarked == {"gate", "held-spend"}

LEMMA ServedNoHeld ==
  ASSUME StackOK, HoldInv, Served
  PROVE  NoHeld
<1> SUFFICES ASSUME NEW d \in 1..depth, frame[d].pc = "held-spend"
             PROVE  FALSE
  BY DEF NoHeld
<1>1. d = depth /\ depth > 0
  BY DEF HoldInv, StackOK
<1> QED BY <1>1 DEF Served, Waiting, Top

LEMMA ServedQuiet ==
  ASSUME StackOK, HoldInv, Served, UNCHANGED stack
  PROVE  QuietStack
BY ServedNoHeld DEF QuietStack, GatesShrink, NoHeld, stack

LEMMA ReturnQuiet ==
  ASSUME StackOK, HoldInv, depth > 0, Return
  PROVE  QuietStack
BY DEF QuietStack, GatesShrink, NoHeld, HoldInv, Return, StackOK

LEMMA BecomeQuiet ==
  ASSUME StackOK, HoldInv, depth > 0, NEW f, f.pc \notin Unmarked, Become(f)
  PROVE  QuietStack
BY DEF QuietStack, GatesShrink, NoHeld, HoldInv, Become, StackOK, Unmarked

LEMMA GotoQuiet ==
  ASSUME StackOK, HoldInv, depth > 0, NEW pc \in Pcs \ Unmarked, Goto(pc)
  PROVE  QuietStack
<1>1. [Top EXCEPT !.pc = pc].pc = pc
  BY TopType DEF Frames
<1> QED BY <1>1, BecomeQuiet DEF Goto

\* A call is served: one activation more, on top.
Serves(pc) ==
  /\ Served /\ depth' = depth + 1 /\ frame'[depth + 1].pc = pc
  /\ \A d \in 1..depth : frame'[d] = frame[d]

LEMMA ServesQuiet ==
  ASSUME StackOK, HoldInv, NEW pc, pc \notin Unmarked, Serves(pc)
  PROVE  QuietStack
<1>1. NoHeld /\ depth \in Nat
  BY ServedNoHeld DEF Serves, StackOK
<1> QED BY <1>1 DEF Serves, QuietStack, GatesShrink, NoHeld, Unmarked

LEMMA AfterExecuteQuiet ==
  ASSUME StackOK, HoldInv, depth > 0, NEW ok \in BOOLEAN, AfterExecute(ok)
  PROVE  QuietStack
<1>1. /\ [Top EXCEPT !.pc = "notify", !.ok = ok, !.todo = {Top.s}].pc \notin Unmarked
      /\ [Top EXCEPT !.pc = "record", !.ok = ok].pc \notin Unmarked
  BY TopType DEF Frames, Unmarked
<1> QED BY <1>1, ReturnQuiet, BecomeQuiet DEF AfterExecute

LEMMA SetSpendKeeps ==
  ASSUME SpendOK, NEW s, NEW st, st # "none", SetSpend(s, st)
  PROVE  RowsKept
BY DEF SpendOK, SetSpend, RowsKept

LEMMA CreatedKeeps ==
  ASSUME SpendOK, NEW s \in Spends, NEW a, spend' = Created(s, a)
  PROVE  RowsKept
BY DEF SpendOK, Created, RowsKept

LEMMA ExpiredKeeps ==
  ASSUME SpendOK, NEW S, spend' = AllExpired(S)
  PROVE  RowsKept
BY DEF SpendOK, AllExpired, RowsKept, Rows

LEMMA ResumeKeeps ==
  ASSUME InbOK, NEW s, NEW ok, inb' = ResumeInbound(s, ok)
  PROVE  LinksKept
BY DEF InbOK, ResumeInbound, ParkedFor, LinksKept, Terminal

LEMMA SetInbKeeps ==
  ASSUME InbOK, NEW i \in InTasks, NEW st, inb[i].st \notin Terminal, SetInb(i, st)
  PROVE  LinksKept
BY DEF InbOK, SetInb, LinksKept

LEMMA AdvanceKeeps ==
  ASSUME OutOK, NEW s, NEW st \in OutStates \ {"none", "submitted"},
         out' = AdvanceLinked(s, st)
  PROVE  ClaimsKept
BY DEF OutOK, AdvanceLinked, ClaimsKept

LEMMA SetOutKeeps ==
  ASSUME OutOK, NEW o, NEW st \in OutStates \ {"none", "submitted"}, SetOut(o, st)
  PROVE  ClaimsKept
BY DEF OutOK, SetOut, ClaimsKept

LEMMA RowsStay ==
  /\ UNCHANGED spend => RowsKept
  /\ UNCHANGED inb => LinksKept
  /\ UNCHANGED out => ClaimsKept
BY DEF RowsKept, LinksKept, ClaimsKept

-------------------------------------------------------------------------------
(***************************************************************************)
(* One case per action.                                                    *)
(***************************************************************************)
LEMMA ProgressLinks ==
  ASSUME TaskInv, Progress, ~GateExecute
  PROVE  Quiet
<1> USE RowsStay DEF hist
<1>0. StackOK /\ HoldInv /\ SpendOK /\ OutOK /\ InbOK
  BY DEF TaskInv, TypeOK
<1>1. CASE \E notified \in BOOLEAN : GateHold(notified)
  <2>1. QuietStack
    BY <1>0, <1>1, ReturnQuiet, GotoQuiet DEF GateHold, AfterHold, At, Pcs, Unmarked
  <2> QED BY <1>0, <1>1, <2>1, SetSpendKeeps DEF GateHold, Quiet
<1>2. CASE HoldNotified
  <2>1. QuietStack
    BY <1>0, <1>2, ReturnQuiet, GotoQuiet DEF HoldNotified, AfterHold, At, Pcs, Unmarked
  <2> QED BY <1>0, <1>2, <2>1, SetSpendKeeps DEF HoldNotified, Quiet
<1>3. CASE ExecuteApproved
  <2>1. QuietStack
    BY <1>0, <1>3, GotoQuiet DEF ExecuteApproved, At, Pcs, Unmarked
  <2> QED BY <1>0, <1>3, <2>1, SetSpendKeeps DEF ExecuteApproved, Quiet
<1>4. ASSUME NEW x \in Spends, ResumeTask(x)
      PROVE  Quiet
  <2>1. Top \in Frames /\ depth > 0
    BY <1>0, <1>4, TopType DEF ResumeTask, At
  <2>2. [Top EXCEPT !.s = x, !.pc = IF ParkedFor(x) = {} THEN "advance" ELSE "replying"].pc
          \notin Unmarked
    BY <2>1 DEF Frames, Unmarked
  <2>3. QuietStack
    BY <1>0, <1>4, <2>1, <2>2, BecomeQuiet DEF ResumeTask
  <2> QED BY <1>0, <1>4, <2>3, ResumeKeeps DEF ResumeTask, Quiet
<1>5. CASE AdvanceTask
  <2>1. Top \in Frames /\ depth > 0
    BY <1>0, <1>5, TopType DEF AdvanceTask, At
  <2>2. [Top EXCEPT !.todo = @ \ {Top.s}, !.pc = "notify"].pc \notin Unmarked
    BY <2>1 DEF Frames, Unmarked
  <2>3. QuietStack
    BY <1>0, <1>5, <2>1, <2>2, BecomeQuiet, ReturnQuiet DEF AdvanceTask
  <2>4. ClaimsKept
    BY <1>0, <1>5, AdvanceKeeps DEF AdvanceTask, OutStates
  <2> QED BY <1>5, <2>3, <2>4 DEF AdvanceTask, Quiet
<1> QED BY <1>1, <1>2, <1>3, <1>4, <1>5 DEF Progress

\* What the limits let through is at the gate, so no inbound task is linked to it.
LEMMA GateLinks ==
  ASSUME TaskInv, TypeOK', GateExecute
  PROVE  TaskInv' /\ Final /\ OneSpend
<1>0. StackOK /\ HoldInv /\ SpendOK /\ depth > 0 /\ depth \in 1..depth
      /\ autoGrants \in [Spends -> Nat]
  BY DEF TaskInv, TypeOK, GateExecute, At, HistOK, StackOK
<1>1. QuietStack
  BY <1>0, GotoQuiet DEF GateExecute, Pcs, Unmarked
<1>2. RowsKept
  BY <1>0, SetSpendKeeps DEF GateExecute
<1>3. Top.s \in Spends /\ spend[Top.s].st # "none" /\ \A i \in InTasks : inb[i].s # Top.s
  BY <1>0 DEF TaskInv, LinkInv, GateExecute, At, Top
<1>4. \A s \in Spends : s # Top.s => autoGrants'[s] = autoGrants[s]
  BY <1>0 DEF GateExecute
<1>5. LinkInv'
  <2>1. \A s \in Spends : spend'[s].st = "none" => autoGrants'[s] = 0
    BY <1>2, <1>3, <1>4 DEF TaskInv, LinkInv, RowsKept
  <2>2. \A i \in InTasks : inb'[i].s \in Spends =>
                             spend'[inb'[i].s].st # "none" /\ autoGrants'[inb'[i].s] = 0
    BY <1>2, <1>3, <1>4 DEF TaskInv, LinkInv, RowsKept, GateExecute
  <2>3. ASSUME NEW d \in 1..depth', frame'[d].pc = "gate"
        PROVE  /\ frame'[d].s \in Spends /\ spend'[frame'[d].s].st # "none"
               /\ \A i \in InTasks : inb'[i].s # frame'[d].s
    <3>1. d \in 1..depth /\ frame[d].pc = "gate" /\ frame'[d].s = frame[d].s
      BY <1>1, <2>3 DEF QuietStack, GatesShrink
    <3> QED BY <1>2, <3>1 DEF TaskInv, LinkInv, RowsKept, GateExecute
  <2> QED BY <2>1, <2>2, <2>3 DEF LinkInv
<1>6. HoldInv'
  BY <1>1 DEF QuietStack, NoHeld, HoldInv
<1>7. ClaimInv' /\ Final /\ OneSpend
  BY DEF TaskInv, ClaimInv, GateExecute, Final, OneSpend
<1> QED BY <1>5, <1>6, <1>7 DEF TaskInv

\* The wallet's answers.
LEMMA WalletLinks ==
  ASSUME TaskInv, WalletAnswers
  PROVE  Quiet
<1> USE RowsStay DEF hist
<1>0. StackOK /\ HoldInv /\ SpendOK
  BY DEF TaskInv, TypeOK
<1>1. QuietStack
  BY <1>0, AfterExecuteQuiet
  DEF WalletAnswers, TransferConfirmed, TransferRefused, TransferLost, At
<1>2. RowsKept
  BY <1>0, SetSpendKeeps DEF WalletAnswers, TransferConfirmed, TransferRefused, TransferLost
<1> QED BY <1>1, <1>2 DEF WalletAnswers, TransferConfirmed, TransferRefused, TransferLost, Quiet

\* Steps of the wallet's process, which interrupt anything.
LEMMA MoneyLinks ==
  ASSUME TaskInv, TypeOK',
         \/ \E d \in 1..MaxDepth : WalletMoves(d)
         \/ \E s \in Spends : LateMove(s) \/ LateFailure(s)
         \/ UNCHANGED vars
  PROVE  TaskInv' /\ Final /\ OneSpend
<1>1. UNCHANGED <<db, depth, autoGrants>>
  BY DEF WalletMoves, LateMove, LateFailure, vars, db, stack, hist
<1>2. \A d \in 1..depth : frame'[d] = frame[d] \/ frame'[d].pc \notin Unmarked
  <2>1. ASSUME NEW e \in 1..MaxDepth, WalletMoves(e)
        PROVE  \A d \in 1..depth : frame'[d] = frame[d] \/ frame'[d].pc \notin Unmarked
    <3>1. frame \in [1..MaxDepth -> Frames] /\ depth \in 0..MaxDepth
      BY DEF TaskInv, TypeOK, StackOK
    <3>2. frame' = [frame EXCEPT ![e] = [frame[e] EXCEPT !.pc = "sent"]]
      BY <2>1 DEF WalletMoves
    <3>3. [frame[e] EXCEPT !.pc = "sent"].pc = "sent"
      BY <3>1 DEF Frames
    <3> QED BY <3>1, <3>2, <3>3 DEF Unmarked
  <2>2. CASE UNCHANGED frame
    BY <2>2
  <2> QED BY <2>1, <2>2 DEF LateMove, LateFailure, vars, stack
<1>3. LinkInv'
  BY <1>1, <1>2 DEF TaskInv, LinkInv, db, Unmarked
<1>4. ClaimInv' /\ OneSpend /\ Final
  BY <1>1 DEF TaskInv, ClaimInv, OneSpend, Final, db
<1>5. HoldInv'
  BY <1>1, <1>2 DEF TaskInv, HoldInv, db, Unmarked
<1> QED BY <1>3, <1>4, <1>5 DEF TaskInv

\* A new request starts at the gate; nothing is linked to it yet.
LEMMA FreshAtGate ==
  ASSUME TaskInv, TypeOK', NEW s \in Spends, NEW a, NEW op, NEW t, Fresh(s),
         spend' = Created(s, a), Begin(op, "gate", s, t, FALSE, {}),
         ClaimInv', OneSpend, UNCHANGED <<inb, autoGrants>>
  PROVE  TaskInv' /\ Final /\ OneSpend
<1>0. StackOK /\ HoldInv /\ SpendOK
  BY DEF TaskInv, TypeOK
<1>1. NoHeld
  BY <1>0, ServedNoHeld DEF Begin
<1>2. /\ depth' = depth + 1 /\ depth \in Nat
      /\ frame'[depth + 1].pc = "gate" /\ frame'[depth + 1].s = s
      /\ \A d \in 1..depth : frame'[d] = frame[d]
  BY <1>0 DEF Begin, StackOK
<1>3. RowsKept /\ spend'[s].st # "none"
  BY <1>0, CreatedKeeps DEF Created, SpendOK
<1>4. \A i \in InTasks : inb[i].s # s
  BY DEF TaskInv, LinkInv, Fresh
<1>5. LinkInv'
  <2>1. \A x \in Spends : spend'[x].st = "none" => autoGrants'[x] = 0
    BY <1>3 DEF TaskInv, LinkInv, RowsKept
  <2>2. \A i \in InTasks : inb'[i].s \in Spends =>
                             spend'[inb'[i].s].st # "none" /\ autoGrants'[inb'[i].s] = 0
    BY <1>3 DEF TaskInv, LinkInv, RowsKept
  <2>3. ASSUME NEW d \in 1..depth', frame'[d].pc = "gate"
        PROVE  /\ frame'[d].s \in Spends /\ spend'[frame'[d].s].st # "none"
               /\ \A i \in InTasks : inb'[i].s # frame'[d].s
    <3>1. CASE d = depth + 1
      BY <1>2, <1>3, <1>4, <3>1
    <3>2. CASE d \in 1..depth
      BY <1>2, <1>3, <2>3, <3>2 DEF TaskInv, LinkInv, RowsKept
    <3> QED BY <1>2, <3>1, <3>2
  <2> QED BY <2>1, <2>2, <2>3 DEF LinkInv
<1>6. HoldInv'
  BY <1>1, <1>2 DEF HoldInv, NoHeld
<1>7. Final
  BY DEF Final
<1> QED BY <1>5, <1>6, <1>7 DEF TaskInv

LEMMA RequestsLinks ==
  ASSUME TaskInv, TypeOK', Requests
  PROVE  TaskInv' /\ Final /\ OneSpend
<1> USE RowsStay DEF hist
<1>0. StackOK /\ HoldInv /\ SpendOK
  BY DEF TaskInv, TypeOK
<1>1. ASSUME NEW s \in Spends, NEW a \in Amounts, WalletSend(s, a)
      PROVE  TaskInv' /\ Final /\ OneSpend
  <2>1. ClaimInv' /\ OneSpend /\ UNCHANGED <<inb, autoGrants>>
    BY <1>1 DEF WalletSend, TaskInv, ClaimInv, OneSpend
  <2> QED BY <1>1, <2>1, FreshAtGate DEF WalletSend
<1>2. ASSUME NEW s \in Spends, NEW a \in Amounts, ProgramCallHeld(s, a)
      PROVE  Quiet
  BY <1>0, <1>2, CreatedKeeps, ServedQuiet DEF ProgramCallHeld, Quiet
<1>3. ASSUME NEW s \in Spends, Approve(s)
      PROVE  Quiet
  <2>1. Serves("execute")
    BY <1>0, <1>3 DEF Approve, Begin, Serves, StackOK
  <2>2. QuietStack
    BY <1>0, <2>1, ServesQuiet DEF Unmarked
  <2> QED BY <1>0, <1>3, <2>2, SetSpendKeeps DEF Approve, Quiet
<1>4. ASSUME NEW s \in Spends, ApproveTooLate(s)
      PROVE  Quiet
  BY <1>0, <1>4, SetSpendKeeps, ServedQuiet DEF ApproveTooLate, Quiet
<1>5. ASSUME NEW s \in Spends, Reject(s)
      PROVE  Quiet
  <2>1. Serves("notify")
    BY <1>0, <1>5 DEF Reject, Begin, Serves, StackOK
  <2>2. QuietStack
    BY <1>0, <2>1, ServesQuiet DEF Unmarked
  <2> QED BY <1>0, <1>5, <2>2, SetSpendKeeps DEF Reject, Quiet
<1>6. CASE ExpireStale
  <2>1. Serves("notify")
    BY <1>0, <1>6 DEF ExpireStale, Begin, Serves, StackOK
  <2>2. QuietStack
    BY <1>0, <2>1, ServesQuiet DEF Unmarked
  <2>3. Quiet
    BY <1>0, <1>6, <2>2, ExpiredKeeps DEF ExpireStale, Quiet
  <2> QED BY <2>3, QuietKeeps
<1> QED BY <1>1, <1>2, <1>3, <1>4, <1>5, <1>6, QuietKeeps DEF Requests

\* The request of an inbound task is a fresh row that nothing let through.
LEMMA HoldLinks ==
  ASSUME TaskInv, TypeOK', NEW s \in Spends, NEW a \in Amounts, HoldInbound(s, a)
  PROVE  TaskInv' /\ Final /\ OneSpend
<1>0. StackOK /\ HoldInv /\ SpendOK /\ InbOK /\ depth > 0 /\ depth \in 1..depth
      /\ Top.pc = "held-spend" /\ spend[s].st = "none"
  BY DEF TaskInv, TypeOK, HoldInbound, At, StackOK
<1>1. QuietStack
  BY <1>0, GotoQuiet DEF HoldInbound, Pcs, Unmarked
<1>2. Top.t \in InTasks /\ inb[Top.t].st = "accepted"
  BY <1>0 DEF HoldInv, Top
<1>3. /\ spend'[s].st = "HELD" /\ \A x \in Spends : x # s => spend'[x] = spend[x]
      /\ inb'[Top.t].s = s /\ \A i \in InTasks : i # Top.t => inb'[i] = inb[i]
      /\ UNCHANGED <<out, autoGrants>>
  BY <1>0, <1>2 DEF HoldInbound, SpendOK, InbOK, hist
<1>4. autoGrants[s] = 0 /\ \A d \in 1..depth : frame[d].pc = "gate" => frame[d].s # s
  BY <1>0 DEF TaskInv, LinkInv
<1>5. LinkInv'
  <2>1. \A x \in Spends : spend'[x].st = "none" => autoGrants'[x] = 0
    BY <1>3 DEF TaskInv, LinkInv
  <2>2. \A i \in InTasks : inb'[i].s \in Spends =>
                             spend'[inb'[i].s].st # "none" /\ autoGrants'[inb'[i].s] = 0
    BY <1>3, <1>4 DEF TaskInv, LinkInv
  <2>3. ASSUME NEW d \in 1..depth', frame'[d].pc = "gate"
        PROVE  /\ frame'[d].s \in Spends /\ spend'[frame'[d].s].st # "none"
               /\ \A i \in InTasks : inb'[i].s # frame'[d].s
    <3>1. d \in 1..depth /\ frame[d].pc = "gate" /\ frame'[d].s = frame[d].s
      BY <1>1, <2>3 DEF QuietStack, GatesShrink
    <3> QED BY <1>3, <1>4, <3>1 DEF TaskInv, LinkInv
  <2> QED BY <2>1, <2>2, <2>3 DEF LinkInv
<1>6. HoldInv'
  BY <1>1 DEF QuietStack, NoHeld, HoldInv
<1>7. ClaimInv' /\ OneSpend
  BY <1>3 DEF TaskInv, ClaimInv, OneSpend
<1>8. Final
  BY <1>2, <1>3 DEF Final, Terminal
<1> QED BY <1>5, <1>6, <1>7, <1>8 DEF TaskInv

LEMMA TaskProgressLinks ==
  ASSUME TaskInv, TypeOK', TaskProgress
  PROVE  TaskInv' /\ Final /\ OneSpend
<1> USE RowsStay DEF hist, db
<1>0. StackOK /\ HoldInv /\ SpendOK /\ OutOK
  BY DEF TaskInv, TypeOK
<1>1. CASE ParkTask
  <2>1. QuietStack /\ ClaimsKept
    BY <1>0, <1>1, ReturnQuiet, SetOutKeeps DEF ParkTask, At, OutStates
  <2> QED BY <1>1, <2>1, QuietKeeps DEF ParkTask, Quiet
<1>2. CASE RecordSettlement
  <2>1. QuietStack /\ ClaimsKept
    BY <1>0, <1>2, ReturnQuiet, SetOutKeeps DEF RecordSettlement, At, OutStates
  <2> QED BY <1>2, <2>1, QuietKeeps DEF RecordSettlement, Quiet
<1>3. CASE Announced
  <2>1. QuietStack
    BY <1>0, <1>3, ReturnQuiet DEF Announced, At
  <2> QED BY <1>3, <2>1, QuietKeeps DEF Announced, Quiet
<1>4. CASE ReleaseHeldSpend
  <2>1. QuietStack /\ RowsKept
    BY <1>0, <1>4, ReturnQuiet, SetSpendKeeps DEF ReleaseHeldSpend, At
  <2> QED BY <1>4, <2>1, QuietKeeps DEF ReleaseHeldSpend, Quiet
<1> QED BY <1>1, <1>2, <1>3, <1>4, HoldLinks DEF TaskProgress

\* A claim: the task had no request, and gets one.
LEMMA ClaimLinks ==
  ASSUME TaskInv, TypeOK', NEW o \in OutTasks, NEW s \in Spends, CompletedPayable(o, s)
  PROVE  TaskInv' /\ Final /\ OneSpend
<1>1. /\ out[o].s = None /\ out'[o].st = "settling"
      /\ \A p \in OutTasks : p # o => out'[p] = out[p]
  BY DEF TaskInv, TypeOK, OutOK, ClaimInv, CompletedPayable
<1>2. ClaimInv' /\ OneSpend
  BY <1>1 DEF TaskInv, ClaimInv, OneSpend
<1>3. UNCHANGED <<inb, autoGrants>>
  BY DEF CompletedPayable, hist
<1> QED BY <1>2, <1>3, FreshAtGate DEF CompletedPayable

\* An inbound task is accepted: it waits for nothing but its request.
LEMMA AcceptLinks ==
  ASSUME TaskInv, TypeOK', NEW i \in InTasks, AcceptWalletSend(i)
  PROVE  TaskInv' /\ Final /\ OneSpend
<1>0. StackOK /\ HoldInv /\ InbOK
  BY DEF TaskInv, TypeOK
<1>1. Serves("held-spend") /\ frame'[depth + 1].t = i /\ depth \in Nat
  BY <1>0 DEF AcceptWalletSend, Begin, Serves, StackOK
<1>2. NoHeld
  BY <1>0, <1>1, ServedNoHeld DEF Serves
<1>3. inb'[i].st = "accepted" /\ inb'[i].s = inb[i].s /\ inb[i].st = "none"
      /\ \A j \in InTasks : j # i => inb'[j] = inb[j]
  BY <1>0 DEF AcceptWalletSend, SetInb, InbOK
<1>4. HoldInv'
  BY <1>1, <1>2, <1>3 DEF HoldInv, NoHeld, Serves
<1>5. LinkInv'
  <2>1. \A d \in 1..depth' : frame'[d].pc = "gate" => d \in 1..depth /\ frame'[d] = frame[d]
    BY <1>1 DEF Serves
  <2>2. UNCHANGED <<spend, autoGrants>> /\ \A j \in InTasks : inb'[j].s = inb[j].s
    BY <1>3 DEF AcceptWalletSend, hist
  <2> QED BY <2>1, <2>2 DEF TaskInv, LinkInv
<1>6. ClaimInv' /\ OneSpend
  BY DEF AcceptWalletSend, TaskInv, ClaimInv, OneSpend
<1>7. Final
  BY <1>3 DEF Final, Terminal
<1> QED BY <1>4, <1>5, <1>6, <1>7 DEF TaskInv

LEMMA TaskRequestsLinks ==
  ASSUME TaskInv, TypeOK', TaskRequests
  PROVE  TaskInv' /\ Final /\ OneSpend
<1> USE RowsStay DEF hist
<1>0. StackOK /\ HoldInv /\ SpendOK /\ OutOK /\ InbOK
  BY DEF TaskInv, TypeOK
<1>1. ASSUME NEW o \in OutTasks, NEW price \in Amounts \cup {0}, SubmitTask(o, price)
      PROVE  Quiet
  <2>1. ClaimsKept
    BY <1>0, <1>1 DEF SubmitTask, TaskInv, ClaimInv, OutOK, ClaimsKept
  <2> QED BY <1>0, <1>1, <2>1, ServedQuiet DEF SubmitTask, Quiet
<1>2. ASSUME NEW o \in OutTasks,
             \/ CancelTask(o)
             \/ CompletedUnpaid(o)
             \/ \E verdict \in Verdicts : NegativeReply(o, verdict)
      PROVE  Quiet
  <2>1. ClaimsKept
    BY <1>0, <1>2, SetOutKeeps
    DEF CancelTask, CompletedUnpaid, NegativeReply, Verdicts, OutStates
  <2> QED BY <1>0, <1>2, <2>1, ServedQuiet DEF CancelTask, CompletedUnpaid, NegativeReply, Quiet
<1>3. ASSUME NEW o \in OutTasks, RetractHeld(o)
      PROVE  Quiet
  <2>1. Serves("notify")
    BY <1>0, <1>3 DEF RetractHeld, Reject, Begin, Serves, StackOK
  <2>2. QuietStack
    BY <1>0, <2>1, ServesQuiet DEF Unmarked
  <2> QED BY <1>0, <1>3, <2>2, SetSpendKeeps DEF RetractHeld, Reject, Quiet
<1>4. ASSUME NEW i \in InTasks, RefuseWalletSend(i)
      PROVE  Quiet
  <2>1. LinksKept
    BY <1>0, <1>4, SetInbKeeps DEF RefuseWalletSend, Terminal
  <2> QED BY <1>0, <1>4, <2>1, ServedQuiet DEF RefuseWalletSend, Quiet
<1>5. ASSUME NEW i \in InTasks, PeerCancels(i)
      PROVE  Quiet
  <2>1. Serves("release")
    BY <1>0, <1>5 DEF PeerCancels, Begin, Serves, StackOK
  <2>2. QuietStack
    BY <1>0, <2>1, ServesQuiet DEF Unmarked
  <2>3. LinksKept
    BY <1>0, <1>5, SetInbKeeps DEF PeerCancels
  <2> QED BY <1>5, <2>2, <2>3 DEF PeerCancels, Quiet
<1> QED BY <1>1, <1>2, <1>3, <1>4, <1>5, QuietKeeps, ClaimLinks, AcceptLinks DEF TaskRequests

LEMMA RecoveryLinks ==
  ASSUME TaskInv, Recovery
  PROVE  Quiet
<1> USE RowsStay DEF hist, db
<1>0. StackOK /\ HoldInv /\ SpendOK /\ OutOK /\ InbOK
  BY DEF TaskInv, TypeOK
<1>1. CASE HealUnlinked
  <2>1. QuietStack
    BY <1>0, <1>1, GotoQuiet DEF HealUnlinked, At, Pcs, Unmarked
  <2>2. ClaimsKept
    BY <1>0, <1>1 DEF HealUnlinked, ClaimsKept, OutOK
  <2> QED BY <1>1, <2>1, <2>2 DEF HealUnlinked, Quiet
<1>2. CASE ReconcileSettling
  <2>1. Top \in Frames /\ depth > 0
    BY <1>0, <1>2, TopType DEF ReconcileSettling, At
  <2>2. [Top EXCEPT !.pc = "unknown",
            !.todo = {s \in Spends : spend[s].st = "EXECUTING"}].pc \notin Unmarked
    BY <2>1 DEF Frames, Unmarked
  <2>3. QuietStack
    BY <1>0, <1>2, <2>1, <2>2, BecomeQuiet DEF ReconcileSettling
  <2>4. ClaimsKept
    BY <1>0, <1>2 DEF ReconcileSettling, Reconciled, ClaimsKept, OutOK
  <2> QED BY <1>2, <2>3, <2>4 DEF ReconcileSettling, Quiet
<1>3. ASSUME NEW x \in Spends, MarkUnknown(x)
      PROVE  Quiet
  <2>1. Top \in Frames /\ depth > 0 /\ Top.pc = "unknown"
    BY <1>0, <1>3, TopType DEF MarkUnknown, At
  <2>2. /\ [Top EXCEPT !.s = x, !.pc = "unknown-advance"].pc \notin Unmarked
        /\ [Top EXCEPT !.todo = @ \ {x}].pc \notin Unmarked
    BY <2>1 DEF Frames, Unmarked
  <2>3. QuietStack
    BY <1>0, <1>3, <2>1, <2>2, BecomeQuiet DEF MarkUnknown
  <2>4. RowsKept
    BY <1>0, <1>3, SetSpendKeeps DEF MarkUnknown
  <2> QED BY <1>3, <2>3, <2>4 DEF MarkUnknown, Quiet
<1>4. CASE UnknownAdvance
  <2>1. QuietStack /\ ClaimsKept
    BY <1>0, <1>4, GotoQuiet, AdvanceKeeps DEF UnknownAdvance, At, Pcs, Unmarked, OutStates
  <2> QED BY <1>4, <2>1 DEF UnknownAdvance, Quiet
<1>5. CASE UnknownResume
  <2>1. QuietStack
    BY <1>0, <1>5, GotoQuiet DEF UnknownResume, At, Pcs, Unmarked
  <2>2. inb' = ResumeInbound(Top.s, FALSE)
    BY <1>5 DEF UnknownResume
  <2>3. LinksKept
    BY <1>0, <2>2 DEF InbOK, ResumeInbound, ParkedFor, LinksKept, Terminal
  <2> QED BY <1>5, <2>1, <2>3 DEF UnknownResume, Quiet
<1>6. CASE SurfaceUnknown
  <2>1. Top \in Frames /\ depth > 0
    BY <1>0, <1>6, TopType DEF SurfaceUnknown, At
  <2>2. [Top EXCEPT !.todo = @ \ {Top.s}, !.pc = "unknown"].pc \notin Unmarked
    BY <2>1 DEF Frames, Unmarked
  <2>3. QuietStack
    BY <1>0, <1>6, <2>1, <2>2, BecomeQuiet DEF SurfaceUnknown
  <2> QED BY <1>6, <2>3 DEF SurfaceUnknown, Quiet
<1>7. CASE LoadIdentity
  <2>1. QuietStack
    BY <1>0, <1>7, GotoQuiet DEF LoadIdentity, At, Pcs, Unmarked
  <2> QED BY <1>7, <2>1 DEF LoadIdentity, Quiet
<1>8. CASE RecoverPending
  <2>1. Top \in Frames /\ depth > 0
    BY <1>0, <1>8, TopType DEF RecoverPending, At
  <2>2. [Top EXCEPT !.pc = "notify", !.todo = StaleSpends].pc \notin Unmarked
    BY <2>1 DEF Frames, Unmarked
  <2>3. QuietStack
    BY <1>0, <1>8, <2>1, <2>2, BecomeQuiet, ReturnQuiet DEF RecoverPending
  <2>4. RowsKept
    BY <1>0, <1>8, ExpiredKeeps DEF RecoverPending
  <2> QED BY <1>8, <2>3, <2>4 DEF RecoverPending, Quiet
<1> QED BY <1>1, <1>2, <1>3, <1>4, <1>5, <1>6, <1>7, <1>8 DEF Recovery

\* A crash empties the stack, a start puts one activation on it.
LEMMA ProcessLinks ==
  ASSUME TaskInv, Crash \/ Boot
  PROVE  Quiet
<1> USE RowsStay DEF hist, db
<1>0. StackOK /\ HoldInv /\ InbOK
  BY DEF TaskInv, TypeOK
<1>1. CASE Crash
  BY <1>1 DEF Crash, Quiet, QuietStack, GatesShrink, NoHeld
<1>2. CASE Boot
  <2>1. Serves("heal")
    BY <1>0, <1>2 DEF Boot, Begin, Serves, StackOK
  <2>2. QuietStack
    BY <1>0, <2>1, ServesQuiet DEF Unmarked
  <2>3. LinksKept
    BY <1>0, <1>2 DEF Boot, LinksKept, InbOK, Terminal
  <2> QED BY <1>2, <2>2, <2>3 DEF Boot, Quiet
<1> QED BY <1>1, <1>2

LEMMA TaskStep ==
  ASSUME TaskInv, TypeOK', [AgentNext]_agentVars
  PROVE  TaskInv' /\ Final /\ OneSpend
<1>1. CASE Progress
  BY <1>1, ProgressLinks, GateLinks, QuietKeeps
<1>2. CASE Wallet
  BY <1>2, WalletLinks, MoneyLinks, QuietKeeps DEF Wallet, WalletAnswers
<1>3. CASE Tick
  <2>1. Quiet
    BY <1>3, ServedQuiet, RowsStay DEF Tick, TaskInv, TypeOK, Quiet, hist, db, stack
  <2> QED BY <2>1, QuietKeeps
<1>4. CASE Recovery \/ Crash \/ Boot
  BY <1>4, RecoveryLinks, ProcessLinks, QuietKeeps
<1>5. CASE UNCHANGED agentVars
  BY <1>5, MoneyLinks DEF agentVars
<1> QED
  BY <1>1, <1>2, <1>3, <1>4, <1>5, RequestsLinks, TaskProgressLinks, TaskRequestsLinks
  DEF AgentNext, TaskNext, SpendingNext

LEMMA TaskInvariant == Spec => [](TaskInv /\ TypeOK)
<1>1. AgentInit => TaskInv
  <2>1. AgentInit => TypeOK
    BY DEF AgentInit, Init, TypeOK, SpendOK, OutOK, InbOK, StackOK, WorldOK, HistOK, Rows,
       SpendStates, OutStates, InStates, Frames, Idle, Ops, Pcs
  <2>2. AgentInit => LinkInv /\ ClaimInv /\ HoldInv
    BY DEF AgentInit, Init, LinkInv, ClaimInv, HoldInv
  <2> QED BY <2>1, <2>2 DEF TaskInv
<1>2. AgentTypeOK => TypeOK
  BY DEF AgentTypeOK
<1>3. TaskInv /\ TypeOK' /\ [AgentNext]_agentVars => TaskInv'
  BY TaskStep
<1>4. TaskInv => TypeOK
  BY DEF TaskInv
<1> QED BY <1>1, <1>2, <1>3, <1>4, TypeCorrect, PTL DEF Spec

-------------------------------------------------------------------------------
(***************************************************************************)
(* The theorems.                                                           *)
(***************************************************************************)
\* No inbound wallet-send is let through by the limits, whatever its amount and
\* however requests, decisions and crashes interleave (processInboundRequest).
THEOREM InboundWaitsForOwner == Spec => []InboundNeverAutonomous
<1>1. TaskInv => InboundNeverAutonomous
  BY DEF TaskInv, LinkInv, InboundNeverAutonomous
<1> QED BY <1>1, TaskInvariant, PTL

\* A task is settled through one request only, also across crashes
\* (settleOutboundReply, outboundTasksRecover).
THEOREM OneSpendPerTask == Spec => SettledThroughOneSpend
<1>1. TaskInv /\ TypeOK' /\ [AgentNext]_agentVars =>
        [\A o \in OutTasks : out[o].s \in Spends => out'[o].s = out[o].s]_vars
  BY TaskStep DEF OneSpend
<1> QED BY <1>1, TaskInvariant, PTL DEF Spec, SettledThroughOneSpend

\* A peer that was given a final answer is never given another one, also across
\* crashes (inboundTaskSetState, inboundTasksRecover).
THEOREM FinalAnswers == Spec => InboundTerminalFinal
<1>1. TaskInv /\ TypeOK' /\ [AgentNext]_agentVars =>
        [\A i \in InTasks : inb[i].st \in Terminal => inb'[i] = inb[i]]_vars
  BY TaskStep DEF Final
<1> QED BY <1>1, TaskInvariant, PTL DEF Spec, InboundTerminalFinal

-------------------------------------------------------------------------------
(***************************************************************************)
(* What was paid.  An activation that reports success has seen the money   *)
(* move, and the request it acts for is that of its task.                  *)
(***************************************************************************)
Landed(s, m) == s \in Spends /\ m[s] > 0

\* From the gate to the record, an activation acts for a request.
Acting == {"gate", "holding", "park", "execute", "transfer", "sent", "record"}

\* Activation f, when o are the outbound tasks and m the movements.
FrameOK(f, o, m) ==
  /\ f.pc \in Acting =>
       /\ f.s \in Spends
       /\ f.op \notin {"send", "approve"} => f.t \in OutTasks /\ o[f.t].s = f.s
  /\ f.pc = "record" => f.op \notin {"send", "approve"}
  /\ f.pc = "sent" => Landed(f.s, m)
  /\ f.ok => /\ f.pc \in {"record", "notify", "advance", "replying"}
             /\ f.pc # "notify" => Landed(f.s, m)
             /\ f.pc # "record" => \A s \in f.todo : Landed(s, m)

StackPays == \A d \in 1..depth : FrameOK(frame[d], out, moved)
RowsPay   == PaidMeansMoved /\ \A s \in Spends : spend[s].st = "COMPLETED" => moved[s] > 0

PaidInv == StackPays /\ RowsPay

-------------------------------------------------------------------------------
(***************************************************************************)
(* Honest steps: what newly reads paid or completed was paid.              *)
(***************************************************************************)
MoneyStays == \A s \in Spends : moved[s] > 0 => moved'[s] > 0
Steady     == OneSpend /\ MoneyStays

HonestStack == \A d \in 1..depth' : \/ d \in 1..depth /\ frame'[d] = frame[d]
                                    \/ FrameOK(frame'[d], out', moved')
HonestSpend == \A s \in Spends : spend'[s].st = "COMPLETED" =>
                                   spend[s].st = "COMPLETED" \/ moved'[s] > 0
HonestOut   == \A o \in OutTasks : out'[o].st = "paid" =>
                 out[o].st = "paid" \/ Landed(out'[o].s, moved')
HonestInb   == \A i \in InTasks : inb'[i].st = "completed" =>
                 inb[i].st = "completed" \/ Landed(inb'[i].s, moved')

Honest == MoneyStays /\ HonestStack /\ HonestSpend /\ HonestOut /\ HonestInb

\* What is true of an activation stays true while tasks keep their requests and
\* money that moved has moved.
LEMMA FrameStays ==
  ASSUME NEW f, NEW o, NEW m, NEW p, NEW n, FrameOK(f, o, m),
         \A t \in OutTasks : o[t].s \in Spends => p[t].s = o[t].s,
         \A s \in Spends : m[s] > 0 => n[s] > 0
  PROVE  FrameOK(f, p, n)
<1>1. \A s : Landed(s, m) => Landed(s, n)
  BY DEF Landed
<1> QED BY <1>1 DEF FrameOK, Acting

LEMMA SteadyFrame ==
  ASSUME Steady, NEW f, FrameOK(f, out, moved)
  PROVE  FrameOK(f, out', moved')
BY FrameStays DEF Steady, OneSpend, MoneyStays

LEMMA HonestKeeps ==
  ASSUME PaidInv, OneSpend, Final, Honest
  PROVE  PaidInv'
<1>1. ASSUME NEW d \in 1..depth'
      PROVE  FrameOK(frame'[d], out', moved')
  BY SteadyFrame DEF Honest, HonestStack, Steady, PaidInv, StackPays
<1>2. ASSUME NEW o \in OutTasks, out'[o].st = "paid"
      PROVE  Landed(out'[o].s, moved')
  BY <1>2 DEF Honest, HonestOut, MoneyStays, OneSpend, PaidInv, RowsPay, PaidMeansMoved, Landed
<1>3. ASSUME NEW i \in InTasks, inb'[i].st = "completed"
      PROVE  Landed(inb'[i].s, moved')
  BY <1>3 DEF Honest, HonestInb, MoneyStays, Final, Terminal, PaidInv, RowsPay, PaidMeansMoved,
     Landed
<1>4. \A s \in Spends : spend'[s].st = "COMPLETED" => moved'[s] > 0
  BY DEF Honest, HonestSpend, MoneyStays, PaidInv, RowsPay
<1> QED BY <1>1, <1>2, <1>3, <1>4 DEF PaidInv, StackPays, RowsPay, PaidMeansMoved, Landed

\* The running activation's part of the invariant, before and after the step.
LEMMA TopPays ==
  ASSUME StackOK, PaidInv, depth > 0
  PROVE  depth \in 1..MaxDepth /\ Top \in Frames /\ FrameOK(Top, out, moved)
BY TopType DEF PaidInv, StackPays, StackOK, Top

LEMMA StayHonest ==
  ASSUME UNCHANGED stack
  PROVE  HonestStack
BY DEF HonestStack, stack

LEMMA ReturnHonest ==
  ASSUME StackOK, depth > 0, Return
  PROVE  HonestStack
BY DEF HonestStack, Return, StackOK

LEMMA BecomeHonest ==
  ASSUME StackOK, depth > 0, NEW f, FrameOK(f, out', moved'), Become(f)
  PROVE  HonestStack
BY DEF HonestStack, Become, StackOK

LEMMA GotoHonest ==
  ASSUME StackOK, depth > 0, NEW pc \in Pcs \ (Acting \cup {"notify"}), Goto(pc), ~Top.ok
  PROVE  HonestStack
<1>1. Top \in Frames /\ depth \in 1..MaxDepth
  BY TopType
<1>2. [Top EXCEPT !.pc = pc].pc = pc /\ ~[Top EXCEPT !.pc = pc].ok
  BY <1>1 DEF Frames
<1>3. FrameOK([Top EXCEPT !.pc = pc], out', moved')
  BY <1>2 DEF FrameOK, Acting
<1> QED BY <1>3, BecomeHonest DEF Goto

\* A held request stays that of the task being settled.
LEMMA HeldHonest ==
  ASSUME StackOK, PaidInv, Steady, depth > 0, Top.pc \in {"gate", "holding"},
         NEW pc \in {"holding", "park"}, Goto(pc)
  PROVE  HonestStack
<1> DEFINE f == [Top EXCEPT !.pc = pc]
<1>1. Top \in Frames /\ FrameOK(Top, out', moved')
  BY TopPays, SteadyFrame
<1>2. f.pc = pc /\ f.s = Top.s /\ f.op = Top.op /\ f.t = Top.t /\ f.ok = Top.ok
  BY <1>1 DEF Frames
<1>3. Become(f)
  BY DEF Goto
<1> HIDE DEF f
<1>4. FrameOK(f, out', moved')
  BY <1>1, <1>2 DEF FrameOK, Acting
<1> QED BY <1>3, <1>4, BecomeHonest

LEMMA BeginHonest ==
  ASSUME StackOK, NEW op, NEW pc, NEW s, NEW t, NEW todo, Begin(op, pc, s, t, FALSE, todo),
         pc \in Acting =>
           /\ pc \notin {"record", "sent"} /\ s \in Spends
           /\ op \notin {"send", "approve"} => t \in OutTasks /\ out'[t].s = s
  PROVE  HonestStack
<1> DEFINE f == [op |-> op, pc |-> pc, s |-> s, t |-> t, ok |-> FALSE, todo |-> todo]
<1>1. depth \in Nat /\ depth' = depth + 1 /\ frame'[depth + 1] = f
      /\ \A d \in 1..depth : frame'[d] = frame[d]
  BY DEF Begin, StackOK
<1>2. FrameOK(f, out', moved')
  BY DEF FrameOK, Acting
<1> HIDE DEF f
<1> QED BY <1>1, <1>2 DEF HonestStack

\* What the steps write in the tables.
LEMMA SetSpendHonest ==
  ASSUME SpendOK, NEW s, NEW st, st # "COMPLETED", SetSpend(s, st)
  PROVE  HonestSpend
BY DEF SpendOK, SetSpend, HonestSpend, Rows

LEMMA CreatedHonest ==
  ASSUME SpendOK, NEW s \in Spends, NEW a, spend' = Created(s, a)
  PROVE  HonestSpend
BY DEF SpendOK, Created, HonestSpend

LEMMA ExpiredHonest ==
  ASSUME SpendOK, NEW S, spend' = AllExpired(S)
  PROVE  HonestSpend
BY DEF SpendOK, AllExpired, HonestSpend, Rows

LEMMA SetOutHonest ==
  ASSUME OutOK, NEW o, NEW st, SetOut(o, st), st = "paid" => Landed(out[o].s, moved')
  PROVE  HonestOut
BY DEF OutOK, SetOut, HonestOut

LEMMA AdvanceHonest ==
  ASSUME OutOK, NEW s, NEW st, out' = AdvanceLinked(s, st), st = "paid" => Landed(s, moved')
  PROVE  HonestOut
BY DEF OutOK, AdvanceLinked, HonestOut

LEMMA SetInbHonest ==
  ASSUME InbOK, NEW i, NEW st, st # "completed", SetInb(i, st)
  PROVE  HonestInb
BY DEF InbOK, SetInb, HonestInb

LEMMA ResumeHonest ==
  ASSUME InbOK, NEW s, NEW ok \in BOOLEAN, inb' = ResumeInbound(s, ok), ok => Landed(s, moved')
  PROVE  HonestInb
BY DEF InbOK, ResumeInbound, ParkedFor, HonestInb

LEMMA SameHonest ==
  /\ UNCHANGED spend => HonestSpend
  /\ UNCHANGED out => HonestOut
  /\ UNCHANGED inb => HonestInb
  /\ UNCHANGED moved => MoneyStays
BY DEF HonestSpend, HonestOut, HonestInb, MoneyStays

-------------------------------------------------------------------------------
(***************************************************************************)
(* One case per action.                                                    *)
(***************************************************************************)
LEMMA ProgressHonest ==
  ASSUME TypeOK, PaidInv, OneSpend, Progress
  PROVE  Honest
<1> USE SameHonest DEF hist
<1>0. StackOK /\ SpendOK /\ OutOK /\ InbOK
  BY DEF TypeOK
<1>1. MoneyStays
  BY DEF Progress, GateExecute, GateHold, HoldNotified, ExecuteApproved, ResumeTask, AdvanceTask
<1>2. Steady
  BY <1>1 DEF Steady
<1>3. CASE GateExecute \/ ExecuteApproved
  <2>1. Top \in Frames /\ depth > 0 /\ FrameOK(Top, out, moved)
        /\ Top.pc \in {"gate", "execute"}
    BY <1>0, <1>3, TopPays DEF GateExecute, ExecuteApproved, At
  <2> DEFINE f == [Top EXCEPT !.pc = "transfer"]
  <2>2. /\ f.pc = "transfer" /\ f.s = Top.s /\ f.op = Top.op /\ f.t = Top.t /\ f.ok = Top.ok
    BY <2>1 DEF Frames
  <2>3. Become(f) /\ SetSpend(Top.s, "EXECUTING") /\ UNCHANGED <<out, inb>>
    BY <1>3 DEF GateExecute, ExecuteApproved, Goto
  <2> HIDE DEF f
  <2>4. FrameOK(Top, out', moved')
    BY <1>2, <2>1, SteadyFrame
  <2>5. FrameOK(f, out', moved')
    BY <2>1, <2>2, <2>4 DEF FrameOK, Acting
  <2>6. HonestStack /\ HonestSpend
    BY <1>0, <2>1, <2>3, <2>5, BecomeHonest, SetSpendHonest
  <2> QED BY <1>1, <2>3, <2>6 DEF Honest
<1>4. ASSUME NEW notified \in BOOLEAN, GateHold(notified)
      PROVE  Honest
  <2>1. depth > 0 /\ Top.pc = "gate" /\ SetSpend(Top.s, "HELD") /\ UNCHANGED <<out, inb>>
        /\ (Goto("holding") \/ Goto("park") \/ Return)
    BY <1>0, <1>4 DEF GateHold, AfterHold, At, StackOK
  <2>2. HonestStack
    BY <1>0, <1>2, <2>1, HeldHonest, ReturnHonest
  <2> QED BY <1>0, <1>1, <2>1, <2>2, SetSpendHonest DEF Honest
<1>5. CASE HoldNotified
  <2>1. depth > 0 /\ Top.pc = "holding" /\ SetSpend(Top.s, "NOTIFIED") /\ UNCHANGED <<out, inb>>
        /\ (Goto("park") \/ Return)
    BY <1>0, <1>5 DEF HoldNotified, AfterHold, At, StackOK
  <2>2. HonestStack
    BY <1>0, <1>2, <2>1, HeldHonest, ReturnHonest
  <2> QED BY <1>0, <1>1, <2>1, <2>2, SetSpendHonest DEF Honest
<1>6. ASSUME NEW x \in Spends, ResumeTask(x)
      PROVE  Honest
  <2>1. Top \in Frames /\ depth > 0 /\ FrameOK(Top, out, moved)
        /\ Top.pc = "notify" /\ x \in Top.todo
    BY <1>0, <1>6, TopPays DEF ResumeTask, At
  <2> DEFINE f == [Top EXCEPT !.s = x,
                              !.pc = IF ParkedFor(x) = {} THEN "advance" ELSE "replying"]
  <2>2. f.pc \in {"advance", "replying"} /\ f.s = x /\ f.ok = Top.ok /\ f.todo = Top.todo
    BY <2>1 DEF Frames
  <2>3. Become(f) /\ UNCHANGED <<spend, out>> /\ inb' = ResumeInbound(x, Top.ok)
    BY <1>6 DEF ResumeTask
  <2> HIDE DEF f
  <2>4. FrameOK(Top, out', moved')
    BY <1>2, <2>1, SteadyFrame
  <2>5. FrameOK(f, out', moved') /\ (Top.ok => Landed(x, moved'))
    BY <2>1, <2>2, <2>4 DEF FrameOK, Acting
  <2>6. HonestStack
    BY <1>0, <2>1, <2>3, <2>5, BecomeHonest
  <2>7. HonestInb
    BY <1>0, <2>1, <2>3, <2>5, ResumeHonest DEF Frames
  <2> QED BY <1>1, <2>3, <2>6, <2>7 DEF Honest
<1>7. CASE AdvanceTask
  <2>1. Top \in Frames /\ depth > 0 /\ FrameOK(Top, out, moved)
        /\ Top.pc \in {"advance", "replying"}
    BY <1>0, <1>7, TopPays DEF AdvanceTask, At
  <2> DEFINE f == [Top EXCEPT !.todo = @ \ {Top.s}, !.pc = "notify"]
  <2>2. f.pc = "notify" /\ f.ok = Top.ok /\ f.todo = Top.todo \ {Top.s}
    BY <2>1 DEF Frames
  <2>3. /\ Return \/ Become(f)
        /\ UNCHANGED <<spend, inb>>
        /\ out' = AdvanceLinked(Top.s, IF Top.ok THEN "paid" ELSE "pay-failed")
    BY <1>7 DEF AdvanceTask
  <2> HIDE DEF f
  <2>4. FrameOK(Top, out', moved')
    BY <1>2, <2>1, SteadyFrame
  <2>5. FrameOK(f, out', moved') /\ (Top.ok => Landed(Top.s, moved'))
    BY <2>1, <2>2, <2>4 DEF FrameOK, Acting
  <2>6. HonestStack
    BY <1>0, <2>1, <2>3, <2>5, BecomeHonest, ReturnHonest
  <2>7. HonestOut
    BY <1>0, <2>3, <2>5, AdvanceHonest
  <2> QED BY <1>1, <2>3, <2>6, <2>7 DEF Honest
<1> QED BY <1>3, <1>4, <1>5, <1>6, <1>7 DEF Progress

\* The wallet's answers: success is reported only of money that moved.
LEMMA WalletHonest ==
  ASSUME TypeOK, PaidInv, OneSpend, WalletAnswers
  PROVE  Honest
<1> USE SameHonest DEF hist
<1>0. StackOK /\ SpendOK
  BY DEF TypeOK
<1>1. MoneyStays /\ UNCHANGED <<out, inb>>
  BY DEF WalletAnswers, TransferConfirmed, TransferRefused, TransferLost
<1>2. Top \in Frames /\ depth > 0 /\ FrameOK(Top, out, moved)
      /\ Top.pc \in {"transfer", "sent"}
  BY <1>0, TopPays DEF WalletAnswers, TransferConfirmed, TransferRefused, TransferLost, At
<1>3. FrameOK(Top, out', moved')
  BY <1>1, <1>2, SteadyFrame DEF Steady
<1>4. ASSUME NEW ok \in BOOLEAN, AfterExecute(ok), ok => Landed(Top.s, moved')
      PROVE  HonestStack
  <2> DEFINE f == [Top EXCEPT !.pc = "notify", !.ok = ok, !.todo = {Top.s}]
             g == [Top EXCEPT !.pc = "record", !.ok = ok]
  <2>1. f.pc = "notify" /\ f.ok = ok /\ f.todo = {Top.s}
    BY <1>2 DEF Frames
  <2>2. g.pc = "record" /\ g.ok = ok /\ g.s = Top.s /\ g.op = Top.op /\ g.t = Top.t
    BY <1>2 DEF Frames
  <2>3. Return \/ Become(f) \/ (Top.op \notin {"send", "approve"} /\ Become(g))
    BY <1>4 DEF AfterExecute
  <2> HIDE DEF f, g
  <2>4. FrameOK(f, out', moved')
    BY <1>4, <2>1 DEF FrameOK, Acting
  <2>5. Top.op \notin {"send", "approve"} => FrameOK(g, out', moved')
    BY <1>2, <1>3, <1>4, <2>2 DEF FrameOK, Acting
  <2> QED BY <1>0, <1>2, <2>3, <2>4, <2>5, ReturnHonest, BecomeHonest
<1>5. CASE TransferConfirmed
  <2>1. Landed(Top.s, moved')
    BY <1>3, <1>5 DEF TransferConfirmed, At, FrameOK
  <2>2. HonestStack
    BY <1>4, <1>5, <2>1 DEF TransferConfirmed
  <2>3. HonestSpend
    BY <1>0, <1>5, <2>1 DEF TransferConfirmed, SetSpend, SpendOK, HonestSpend, Landed
  <2> QED BY <1>1, <2>2, <2>3 DEF Honest
<1>6. CASE TransferRefused \/ TransferLost
  <2>1. HonestStack
    BY <1>4, <1>6 DEF TransferRefused, TransferLost
  <2>2. HonestSpend
    BY <1>0, <1>6, SetSpendHonest DEF TransferRefused, TransferLost
  <2> QED BY <1>1, <2>1, <2>2 DEF Honest
<1> QED BY <1>5, <1>6 DEF WalletAnswers

\* Steps of the wallet's process: money moves, and whoever waits for it may say so.
LEMMA MoneyHonest ==
  ASSUME TypeOK, PaidInv, OneSpend,
         \/ \E d \in 1..MaxDepth : WalletMoves(d)
         \/ \E s \in Spends : LateMove(s) \/ LateFailure(s)
         \/ UNCHANGED vars
  PROVE  Honest
<1> USE SameHonest
<1>0. StackOK /\ moved \in [Spends -> Nat]
  BY DEF TypeOK, HistOK
<1>1. UNCHANGED <<spend, out, inb>>
  BY DEF WalletMoves, LateMove, LateFailure, vars, db
<1>2. ASSUME NEW e \in 1..MaxDepth, WalletMoves(e)
      PROVE  Honest
  <2>1. e \in 1..depth /\ frame[e] \in Frames /\ frame[e].pc = "transfer"
        /\ FrameOK(frame[e], out, moved)
    BY <1>0, <1>2 DEF WalletMoves, StackOK, PaidInv, StackPays
  <2>2. frame[e].s \in Spends
    BY <2>1 DEF FrameOK, Acting
  <2>3. MoneyStays /\ moved'[frame[e].s] > 0
    BY <1>0, <1>2, <2>2 DEF WalletMoves, MoneyStays
  <2> DEFINE f == [frame[e] EXCEPT !.pc = "sent"]
  <2>4. f.pc = "sent" /\ f.s = frame[e].s /\ f.op = frame[e].op /\ f.t = frame[e].t
        /\ f.ok = frame[e].ok
    BY <2>1 DEF Frames
  <2>5. depth' = depth /\ frame'[e] = f /\ \A d \in 1..depth : d # e => frame'[d] = frame[d]
    BY <1>0, <1>2, <2>1 DEF WalletMoves, StackOK
  <2> HIDE DEF f
  <2>6. FrameOK(frame[e], out', moved')
    BY <2>1, <2>3, SteadyFrame DEF Steady
  <2>7. FrameOK(f, out', moved')
    BY <2>1, <2>2, <2>3, <2>4, <2>6 DEF FrameOK, Acting, Landed
  <2>8. HonestStack
    BY <2>5, <2>7 DEF HonestStack
  <2> QED BY <1>1, <2>3, <2>8 DEF Honest
<1>3. CASE (\E s \in Spends : LateMove(s) \/ LateFailure(s)) \/ UNCHANGED vars
  <2>1. UNCHANGED stack
    BY <1>3 DEF LateMove, LateFailure, vars, stack
  <2>2. MoneyStays
    BY <1>0, <1>3 DEF LateMove, LateFailure, vars, hist, MoneyStays
  <2> QED BY <1>1, <2>1, <2>2, StayHonest DEF Honest
<1> QED BY <1>2, <1>3

LEMMA RequestsHonest ==
  ASSUME TypeOK, Requests
  PROVE  Honest
<1> USE SameHonest DEF hist
<1>0. StackOK /\ SpendOK
  BY DEF TypeOK
<1>1. MoneyStays /\ UNCHANGED <<out, inb>>
  BY DEF Requests, WalletSend, ProgramCallHeld, Approve, ApproveTooLate, Reject, ExpireStale
<1>2. ASSUME NEW s \in Spends, NEW a \in Amounts, WalletSend(s, a)
      PROVE  HonestStack /\ HonestSpend
  BY <1>0, <1>2, BeginHonest, CreatedHonest DEF WalletSend
<1>3. ASSUME NEW s \in Spends, NEW a \in Amounts, ProgramCallHeld(s, a)
      PROVE  HonestStack /\ HonestSpend
  BY <1>0, <1>3, StayHonest, CreatedHonest DEF ProgramCallHeld
<1>4. ASSUME NEW s \in Spends, Approve(s)
      PROVE  HonestStack /\ HonestSpend
  BY <1>0, <1>4, BeginHonest, SetSpendHonest DEF Approve
<1>5. ASSUME NEW s \in Spends, ApproveTooLate(s)
      PROVE  HonestStack /\ HonestSpend
  BY <1>0, <1>5, StayHonest, SetSpendHonest DEF ApproveTooLate
<1>6. ASSUME NEW s \in Spends, Reject(s)
      PROVE  HonestStack /\ HonestSpend
  BY <1>0, <1>6, BeginHonest, SetSpendHonest DEF Reject, Acting
<1>7. CASE ExpireStale
  <2>1. HonestStack /\ HonestSpend
    BY <1>0, <1>7, BeginHonest, ExpiredHonest DEF ExpireStale, Acting
  <2> QED BY <1>1, <2>1 DEF Honest
<1> QED BY <1>1, <1>2, <1>3, <1>4, <1>5, <1>6, <1>7 DEF Requests, Honest

LEMMA TaskProgressHonest ==
  ASSUME TypeOK, PaidInv, TaskProgress
  PROVE  Honest
<1> USE SameHonest DEF hist, db
<1>0. StackOK /\ SpendOK /\ OutOK /\ InbOK
  BY DEF TypeOK
<1>1. MoneyStays /\ UNCHANGED moved
  BY DEF TaskProgress, ParkTask, RecordSettlement, HoldInbound, Announced, ReleaseHeldSpend
<1>2. CASE ParkTask
  <2>1. HonestStack /\ HonestOut
    BY <1>0, <1>2, ReturnHonest, SetOutHonest DEF ParkTask, At
  <2> QED BY <1>1, <1>2, <2>1 DEF ParkTask, Honest
<1>3. CASE RecordSettlement
  <2>1. depth > 0 /\ FrameOK(Top, out, moved) /\ Top.pc = "record"
    BY <1>0, <1>3, TopPays DEF RecordSettlement, At
  <2>2. Top.ok => Landed(out[Top.t].s, moved')
    BY <1>1, <2>1 DEF FrameOK, Acting
  <2>3. HonestOut
    BY <1>0, <1>3, <2>2, SetOutHonest DEF RecordSettlement
  <2>4. HonestStack
    BY <1>0, <1>3, <2>1, ReturnHonest DEF RecordSettlement
  <2> QED BY <1>1, <1>3, <2>3, <2>4 DEF RecordSettlement, Honest
<1>4. ASSUME NEW s \in Spends, NEW a \in Amounts, HoldInbound(s, a)
      PROVE  Honest
  <2>1. depth > 0 /\ ~Top.ok
    BY <1>0, <1>4, TopPays DEF HoldInbound, At, FrameOK
  <2>2. HonestStack
    BY <1>0, <1>4, <2>1, GotoHonest DEF HoldInbound, Pcs, Acting
  <2>3. HonestSpend /\ HonestInb
    BY <1>0, <1>4 DEF HoldInbound, SpendOK, InbOK, HonestSpend, HonestInb
  <2> QED BY <1>1, <1>4, <2>2, <2>3 DEF HoldInbound, Honest
<1>5. CASE Announced
  <2>1. HonestStack
    BY <1>0, <1>5, ReturnHonest DEF Announced, At
  <2> QED BY <1>1, <1>5, <2>1 DEF Announced, Honest
<1>6. CASE ReleaseHeldSpend
  <2>1. HonestStack /\ HonestSpend
    BY <1>0, <1>6, ReturnHonest, SetSpendHonest DEF ReleaseHeldSpend, At
  <2> QED BY <1>1, <1>6, <2>1 DEF ReleaseHeldSpend, Honest
<1> QED BY <1>2, <1>3, <1>4, <1>5, <1>6 DEF TaskProgress

LEMMA TaskRequestsHonest ==
  ASSUME TypeOK, TaskRequests
  PROVE  Honest
<1> USE SameHonest DEF hist
<1>0. StackOK /\ SpendOK /\ OutOK /\ InbOK
  BY DEF TypeOK
<1>1. ASSUME NEW o \in OutTasks, NEW price \in Amounts \cup {0}, SubmitTask(o, price)
      PROVE  Honest
  <2>1. HonestOut
    BY <1>0, <1>1 DEF SubmitTask, OutOK, HonestOut
  <2> QED BY <1>1, <2>1, StayHonest DEF SubmitTask, Honest
<1>2. ASSUME NEW o \in OutTasks,
             \/ CancelTask(o) \/ CompletedUnpaid(o)
             \/ \E verdict \in Verdicts : NegativeReply(o, verdict)
      PROVE  Honest
  <2>1. HonestOut
    BY <1>0, <1>2, SetOutHonest DEF CancelTask, CompletedUnpaid, NegativeReply, Verdicts
  <2> QED BY <1>2, <2>1, StayHonest DEF CancelTask, CompletedUnpaid, NegativeReply, Honest
<1>3. ASSUME NEW o \in OutTasks, NEW s \in Spends, CompletedPayable(o, s)
      PROVE  Honest
  <2>1. out'[o].s = s /\ HonestOut
    BY <1>0, <1>3 DEF CompletedPayable, OutOK, HonestOut
  <2>2. HonestStack
    BY <1>0, <1>3, <2>1, BeginHonest DEF CompletedPayable
  <2>3. HonestSpend
    BY <1>0, <1>3, CreatedHonest DEF CompletedPayable
  <2> QED BY <1>3, <2>1, <2>2, <2>3 DEF CompletedPayable, Honest
<1>4. ASSUME NEW o \in OutTasks, RetractHeld(o)
      PROVE  Honest
  <2>1. HonestStack /\ HonestSpend
    BY <1>0, <1>4, BeginHonest, SetSpendHonest DEF RetractHeld, Reject, Acting
  <2> QED BY <1>4, <2>1 DEF RetractHeld, Reject, Honest
<1>5. ASSUME NEW i \in InTasks, AcceptWalletSend(i)
      PROVE  Honest
  <2>1. HonestStack /\ HonestInb
    BY <1>0, <1>5, BeginHonest, SetInbHonest DEF AcceptWalletSend, Acting
  <2> QED BY <1>5, <2>1 DEF AcceptWalletSend, Honest
<1>6. ASSUME NEW i \in InTasks, RefuseWalletSend(i)
      PROVE  Honest
  <2>1. HonestStack /\ HonestInb
    BY <1>0, <1>6, StayHonest, SetInbHonest DEF RefuseWalletSend
  <2> QED BY <1>6, <2>1 DEF RefuseWalletSend, Honest
<1>7. ASSUME NEW i \in InTasks, PeerCancels(i)
      PROVE  Honest
  <2>1. HonestStack /\ HonestInb
    BY <1>0, <1>7, BeginHonest, SetInbHonest DEF PeerCancels, Acting
  <2> QED BY <1>7, <2>1 DEF PeerCancels, Honest
<1> QED BY <1>1, <1>2, <1>3, <1>4, <1>5, <1>6, <1>7 DEF TaskRequests

\* Recovery reports success of nothing but a COMPLETED request.
LEMMA RecoveryHonest ==
  ASSUME TypeOK, PaidInv, OneSpend, Recovery
  PROVE  Honest
<1> USE SameHonest DEF hist, db
<1>0. StackOK /\ SpendOK /\ OutOK /\ InbOK
  BY DEF TypeOK
<1>1. UNCHANGED moved
  BY DEF Recovery, HealUnlinked, ReconcileSettling, MarkUnknown, UnknownAdvance, UnknownResume,
     SurfaceUnknown, LoadIdentity, RecoverPending
<1> DEFINE Starts == {"heal", "rearm", "reconcile", "unknown", "unknown-advance",
                     "unknown-resume", "unknown-reply", "unknown-owner", "recover"}
<1>2. ASSUME depth > 0, Top.pc \in Starts, NEW f, Become(f), f.ok = Top.ok,
             f.pc \notin Acting
      PROVE  HonestStack
  <2>1. ~Top.ok
    BY <1>0, <1>2, TopPays DEF FrameOK
  <2>2. FrameOK(f, out', moved')
    BY <1>2, <2>1 DEF FrameOK, Acting
  <2> QED BY <1>0, <1>2, <2>2, BecomeHonest
<1>3. ASSUME depth > 0, Top.pc \in Starts, NEW pc \in Starts, Goto(pc)
      PROVE  HonestStack
  <2>1. [Top EXCEPT !.pc = pc].ok = Top.ok /\ [Top EXCEPT !.pc = pc].pc \notin Acting
    BY <1>0, <1>3, TopType DEF Frames, Acting
  <2> QED BY <1>2, <1>3, <2>1 DEF Goto
<1>4. CASE HealUnlinked
  <2>1. HonestStack
    BY <1>3, <1>4 DEF HealUnlinked, At
  <2>2. HonestOut
    BY <1>0, <1>4 DEF HealUnlinked, OutOK, HonestOut
  <2> QED BY <1>1, <1>4, <2>1, <2>2 DEF HealUnlinked, Honest
<1>5. CASE ReconcileSettling
  <2> DEFINE f == [Top EXCEPT !.pc = "unknown",
                              !.todo = {s \in Spends : spend[s].st = "EXECUTING"}]
  <2>1. depth > 0 /\ Top.pc \in Starts /\ Become(f) /\ f.ok = Top.ok /\ f.pc \notin Acting
    BY <1>0, <1>5, TopType DEF ReconcileSettling, At, Frames, Acting
  <2> HIDE DEF f
  <2>2. HonestStack
    BY <1>2, <2>1
  <2>3. ASSUME NEW o \in OutTasks, out'[o].st = "paid", out[o].st # "paid"
        PROVE  Landed(out'[o].s, moved')
    <3>1. out[o].s \in Spends /\ out'[o].s = out[o].s /\ Reconciled(out[o]) = "paid"
      BY <1>0, <1>5, <2>3 DEF ReconcileSettling, OutOK
    <3>2. spend[out[o].s].st = "COMPLETED"
      BY <3>1 DEF Reconciled
    <3> QED BY <1>1, <3>1, <3>2 DEF PaidInv, RowsPay, Landed
  <2> QED BY <1>1, <1>5, <2>2, <2>3 DEF ReconcileSettling, Honest, HonestOut
<1>6. ASSUME NEW x \in Spends, MarkUnknown(x)
      PROVE  Honest
  <2> DEFINE f == [Top EXCEPT !.s = x, !.pc = "unknown-advance"]
             g == [Top EXCEPT !.todo = @ \ {x}]
  <2>1. /\ depth > 0 /\ Top.pc \in Starts /\ (Become(f) \/ Become(g))
        /\ f.ok = Top.ok /\ f.pc \notin Acting /\ g.ok = Top.ok /\ g.pc \notin Acting
    BY <1>0, <1>6, TopType DEF MarkUnknown, At, Frames, Acting
  <2> HIDE DEF f, g
  <2>2. HonestStack
    BY <1>2, <2>1
  <2>3. HonestSpend
    BY <1>0, <1>6, SetSpendHonest DEF MarkUnknown
  <2> QED BY <1>1, <1>6, <2>2, <2>3 DEF MarkUnknown, Honest
<1>7. CASE UnknownAdvance
  <2>1. HonestStack
    BY <1>3, <1>7 DEF UnknownAdvance, At
  <2>2. HonestOut
    BY <1>0, <1>7, AdvanceHonest DEF UnknownAdvance
  <2> QED BY <1>1, <1>7, <2>1, <2>2 DEF UnknownAdvance, Honest
<1>8. CASE UnknownResume
  <2>1. HonestStack
    BY <1>3, <1>8 DEF UnknownResume, At
  <2>2. HonestInb
    BY <1>0, <1>8, ResumeHonest DEF UnknownResume
  <2> QED BY <1>1, <1>8, <2>1, <2>2 DEF UnknownResume, Honest
<1>9. CASE SurfaceUnknown
  <2> DEFINE f == [Top EXCEPT !.todo = @ \ {Top.s}, !.pc = "unknown"]
  <2>1. depth > 0 /\ Top.pc \in Starts /\ Become(f) /\ f.ok = Top.ok /\ f.pc \notin Acting
    BY <1>0, <1>9, TopType DEF SurfaceUnknown, At, Frames, Acting
  <2> HIDE DEF f
  <2>2. HonestStack
    BY <1>2, <2>1
  <2> QED BY <1>1, <1>9, <2>2 DEF SurfaceUnknown, Honest
<1>10. CASE LoadIdentity
  <2>1. HonestStack
    BY <1>3, <1>10 DEF LoadIdentity, At
  <2> QED BY <1>1, <1>10, <2>1 DEF LoadIdentity, Honest
<1>11. CASE RecoverPending
  <2> DEFINE f == [Top EXCEPT !.pc = "notify", !.todo = StaleSpends]
  <2>1. /\ depth > 0 /\ Top.pc \in Starts /\ (Return \/ Become(f))
        /\ f.ok = Top.ok /\ f.pc \notin Acting
    BY <1>0, <1>11, TopType DEF RecoverPending, At, Frames, Acting
  <2> HIDE DEF f
  <2>2. HonestStack
    BY <1>0, <1>2, <2>1, ReturnHonest
  <2>3. HonestSpend
    BY <1>0, <1>11, ExpiredHonest DEF RecoverPending
  <2> QED BY <1>1, <1>11, <2>2, <2>3 DEF RecoverPending, Honest
<1> QED BY <1>4, <1>5, <1>6, <1>7, <1>8, <1>9, <1>10, <1>11 DEF Recovery

LEMMA ProcessHonest ==
  ASSUME TypeOK, Crash \/ Boot
  PROVE  Honest
<1> USE SameHonest DEF hist, db
<1>0. StackOK /\ InbOK
  BY DEF TypeOK
<1>1. CASE Crash
  BY <1>1 DEF Crash, Honest, HonestStack
<1>2. CASE Boot
  <2>1. HonestStack
    BY <1>0, <1>2, BeginHonest DEF Boot, Acting
  <2>2. HonestInb
    BY <1>0, <1>2 DEF Boot, InbOK, HonestInb
  <2> QED BY <1>2, <2>1, <2>2 DEF Boot, Honest
<1> QED BY <1>1, <1>2

LEMMA PaidStep ==
  ASSUME TypeOK, PaidInv, OneSpend, Final, [AgentNext]_agentVars
  PROVE  PaidInv'
<1>1. CASE Wallet
  BY <1>1, WalletHonest, MoneyHonest, HonestKeeps DEF Wallet, WalletAnswers
<1>2. CASE Tick
  <2>1. Honest
    BY <1>2, SameHonest, StayHonest DEF Tick, db, hist, Honest
  <2> QED BY <2>1, HonestKeeps
<1>3. CASE UNCHANGED agentVars
  BY <1>3, MoneyHonest, HonestKeeps DEF agentVars
<1> QED
  BY <1>1, <1>2, <1>3, ProgressHonest, RequestsHonest, TaskProgressHonest, TaskRequestsHonest,
     RecoveryHonest, ProcessHonest, HonestKeeps
  DEF AgentNext, TaskNext, SpendingNext

LEMMA PaidInvariant == Spec => []PaidInv
<1>1. AgentInit => PaidInv
  BY DEF AgentInit, Init, PaidInv, StackPays, RowsPay, PaidMeansMoved
<1>2. TaskInv /\ TypeOK /\ TypeOK' /\ PaidInv /\ [AgentNext]_agentVars => PaidInv'
  BY TaskStep, PaidStep
<1> QED BY <1>1, <1>2, TaskInvariant, PTL DEF Spec

\* A task reads paid, and an inbound wallet-send completed, only if the wallet moved the
\* money of its request, in every order of nested replies, owner decisions, lost answers
\* and crashes (settleOutboundReply, advanceLinkedTask, outboundTasksRecover).
THEOREM PaidWasMoved == Spec => []PaidMeansMoved
<1>1. PaidInv => PaidMeansMoved
  BY DEF PaidInv, RowsPay
<1> QED BY <1>1, PaidInvariant, PTL
===============================================================================
