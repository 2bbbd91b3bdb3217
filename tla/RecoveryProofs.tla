--------------------------- MODULE RecoveryProofs ---------------------------
(***************************************************************************)
(* More theorems about PilotAgent, for every value of its constants: a     *)
(* transfer that was started is waited for or reconciled, across crashes,  *)
(* and what the agent spends on its own stays within the period's limit.   *)
(***************************************************************************)
EXTENDS PilotAgentProofs

USE SpendingAssumption, CrashAssumption

-------------------------------------------------------------------------------
(***************************************************************************)
(* Recovery, and the rows it has to look at.  It is the first activation   *)
(* of a process and runs exactly while the phase is "db".  A row in        *)
(* EXECUTING has an activation that waits for its transfer, or recovery    *)
(* will still come to it: it has not selected the rows yet, or the row is  *)
(* selected and not the one that it has just moved to TX_UNKNOWN.          *)
(***************************************************************************)
Selecting  == {"heal", "rearm", "reconcile"}
Restarting == Selecting \cup {"unknown", "unknown-advance", "unknown-resume",
                              "unknown-reply", "unknown-owner"}
Handed     == {"transfer", "sent"}

BootInv ==
  /\ phase = "down" => depth = 0
  /\ phase = "db" => depth > 0 /\ frame[1].pc \in Restarting
  /\ \A d \in 1..depth : frame[d].pc \in Restarting => d = 1 /\ phase = "db"

Transferred(s) == \E d \in 1..depth : frame[d].s = s /\ frame[d].pc \in Handed

\* Activation f of recovery will still come to the row s.
WillReach(f, s) == \/ f.pc \in Selecting
                   \/ s \in f.todo /\ (f.pc # "unknown" => f.s # s)

ExecInv ==
  \A s \in Spends : spend[s].st = "EXECUTING" =>
    phase = "down" \/ Transferred(s) \/ (phase = "db" /\ WillReach(frame[1], s))

StrandInv == TypeOK /\ BootInv /\ ExecInv

-------------------------------------------------------------------------------
(***************************************************************************)
(* Calm steps: recovery stays where it is, and every transfer is still     *)
(* waited for, except perhaps that of x.                                   *)
(***************************************************************************)
Plain ==
  /\ UNCHANGED phase
  /\ phase = "down" => depth' = 0
  /\ phase = "db" => depth' > 0 /\ frame'[1] = frame[1]
  /\ \A d \in 1..depth' : frame'[d].pc \in Restarting =>
                            d \in 1..depth /\ frame'[d] = frame[d]

Calm(x) ==
  /\ Plain
  /\ \A s \in Spends : s # x /\ Transferred(s) => Transferred(s)'

NoNewTransfer == \A s \in Spends : spend'[s].st = "EXECUTING" => spend[s].st = "EXECUTING"

LEMMA PlainBoot ==
  ASSUME StrandInv, Plain
  PROVE  BootInv'
BY DEF StrandInv, BootInv, Plain

LEMMA CalmKeeps ==
  ASSUME StrandInv, TypeOK', NEW x, Calm(x), NoNewTransfer,
         x \in Spends => spend'[x].st # "EXECUTING"
  PROVE  StrandInv'
<1>1. BootInv'
  BY PlainBoot DEF Calm
<1>2. ASSUME NEW s \in Spends, spend'[s].st = "EXECUTING"
      PROVE  phase' = "down" \/ Transferred(s)' \/ (phase' = "db" /\ WillReach(frame'[1], s))
  <2>1. s # x /\ spend[s].st = "EXECUTING"
    BY <1>2 DEF NoNewTransfer
  <2>2. phase = "down" \/ Transferred(s) \/ (phase = "db" /\ WillReach(frame[1], s))
    BY <2>1 DEF StrandInv, ExecInv
  <2>3. UNCHANGED phase /\ (phase = "db" => frame'[1] = frame[1])
        /\ (Transferred(s) => Transferred(s)')
    BY <2>1 DEF Calm, Plain
  <2>4. CASE phase = "db" /\ WillReach(frame[1], s)
    BY <2>3, <2>4
  <2> QED BY <2>2, <2>3, <2>4
<1> QED BY <1>1, <1>2 DEF StrandInv, ExecInv

LEMMA StayCalm ==
  ASSUME StrandInv, UNCHANGED <<stack, phase>>
  PROVE  Calm(None)
BY DEF Calm, Plain, StrandInv, BootInv, stack, Transferred

\* The running activation is not recovery's.
LEMMA AboveRecovery ==
  ASSUME StrandInv, depth > 0, Top.pc \notin Restarting
  PROVE  /\ depth \in 1..MaxDepth /\ phase # "down"
         /\ phase = "db" => depth > 1
BY DEF StrandInv, BootInv, TypeOK, StackOK, Top

LEMMA ReturnCalm ==
  ASSUME StrandInv, depth > 0, Top.pc \notin Restarting, Return, UNCHANGED phase
  PROVE  Calm(Top.s) /\ (Top.pc \notin Handed => Calm(None))
<1>1. depth \in 1..MaxDepth /\ phase # "down" /\ (phase = "db" => depth > 1)
  BY AboveRecovery
<1>2. /\ depth' = depth - 1
      /\ \A d \in 1..depth' : d \in 1..depth /\ d # depth /\ frame'[d] = frame[d]
  BY <1>1 DEF Return, StrandInv, TypeOK, StackOK
<1>3. Plain
  BY <1>1, <1>2 DEF Plain
<1>4. ASSUME NEW s \in Spends, Transferred(s), s # Top.s \/ Top.pc \notin Handed
      PROVE  Transferred(s)'
  <2>1. PICK d \in 1..depth : frame[d].s = s /\ frame[d].pc \in Handed
    BY <1>4 DEF Transferred
  <2>2. d # depth
    BY <1>4, <2>1 DEF Top
  <2>3. d \in 1..depth' /\ frame'[d] = frame[d]
    BY <1>1, <1>2, <2>2
  <2> QED BY <2>1, <2>3 DEF Transferred
<1> QED BY <1>3, <1>4 DEF Calm

LEMMA BecomeCalm ==
  ASSUME StrandInv, depth > 0, Top.pc \notin Restarting, NEW f, f.pc \notin Restarting,
         Become(f), UNCHANGED phase
  PROVE  Calm(Top.s) /\ (Top.pc \notin Handed => Calm(None))
<1>1. depth \in 1..MaxDepth /\ phase # "down" /\ (phase = "db" => depth > 1)
  BY AboveRecovery
<1>2. /\ depth' = depth /\ frame'[depth] = f
      /\ \A d \in 1..depth : d # depth => frame'[d] = frame[d]
  BY <1>1 DEF Become, StrandInv, TypeOK, StackOK
<1>3. Plain
  BY <1>1, <1>2 DEF Plain
<1>4. ASSUME NEW s \in Spends, Transferred(s), s # Top.s \/ Top.pc \notin Handed
      PROVE  Transferred(s)'
  <2>1. PICK d \in 1..depth : frame[d].s = s /\ frame[d].pc \in Handed
    BY <1>4 DEF Transferred
  <2>2. d # depth
    BY <1>4, <2>1 DEF Top
  <2> QED BY <1>2, <2>1, <2>2 DEF Transferred
<1> QED BY <1>3, <1>4 DEF Calm

LEMMA GotoCalm ==
  ASSUME StrandInv, depth > 0, Top.pc \notin Restarting \cup Handed,
         NEW pc \in Pcs \ Restarting, Goto(pc), UNCHANGED phase
  PROVE  Calm(None)
<1>1. [Top EXCEPT !.pc = pc].pc = pc
  BY TopType DEF Frames, StrandInv, TypeOK
<1> QED BY <1>1, BecomeCalm DEF Goto

LEMMA BeginCalm ==
  ASSUME StrandInv, phase # "down", NEW op, NEW pc, pc \notin Restarting, NEW s, NEW t,
         NEW ok, NEW todo, Begin(op, pc, s, t, ok, todo), UNCHANGED phase
  PROVE  Calm(None)
<1>1. depth \in Nat /\ depth' = depth + 1 /\ frame'[depth + 1].pc = pc
      /\ \A d \in 1..depth : frame'[d] = frame[d]
  BY DEF Begin, StrandInv, TypeOK, StackOK
<1>2. Plain
  BY <1>1 DEF Plain, StrandInv, BootInv
<1>3. ASSUME NEW x \in Spends, Transferred(x)
      PROVE  Transferred(x)'
  BY <1>1, <1>3 DEF Transferred
<1> QED BY <1>2, <1>3 DEF Calm

LEMMA AfterExecuteCalm ==
  ASSUME StrandInv, depth > 0, Top.pc \in Handed, NEW ok \in BOOLEAN, AfterExecute(ok),
         UNCHANGED phase
  PROVE  Calm(Top.s)
<1>1. /\ [Top EXCEPT !.pc = "notify", !.ok = ok, !.todo = {Top.s}].pc \notin Restarting
      /\ [Top EXCEPT !.pc = "record", !.ok = ok].pc \notin Restarting
      /\ Top.pc \notin Restarting
  BY TopType DEF Frames, StrandInv, TypeOK, Restarting, Selecting, Handed
<1> QED BY <1>1, ReturnCalm, BecomeCalm DEF AfterExecute

\* What the steps write in spend_requests.
LEMMA SetSpendCalm ==
  ASSUME SpendOK, NEW s, NEW st, st # "EXECUTING", SetSpend(s, st)
  PROVE  NoNewTransfer /\ (s \in Spends => spend'[s].st # "EXECUTING")
BY DEF SpendOK, SetSpend, NoNewTransfer, Rows

LEMMA CreatedCalm ==
  ASSUME SpendOK, NEW s \in Spends, NEW a, spend' = Created(s, a)
  PROVE  NoNewTransfer
BY DEF SpendOK, Created, NoNewTransfer

LEMMA ExpiredCalm ==
  ASSUME SpendOK, NEW S, spend' = AllExpired(S)
  PROVE  NoNewTransfer
BY DEF SpendOK, AllExpired, NoNewTransfer, Rows

LEMMA SameSpendCalm ==
  ASSUME UNCHANGED spend
  PROVE  NoNewTransfer
BY DEF NoNewTransfer

-------------------------------------------------------------------------------
(***************************************************************************)
(* One case per action.                                                    *)
(***************************************************************************)
\* A transfer begins: the row and the activation change together.
LEMMA StartsTransfer ==
  ASSUME StrandInv, TypeOK', depth > 0, Top.pc \in {"gate", "execute"},
         SetSpend(Top.s, "EXECUTING"), Goto("transfer"), UNCHANGED phase
  PROVE  StrandInv'
<1>1. depth \in 1..MaxDepth /\ Top \in Frames /\ SpendOK
  BY TopType DEF StrandInv, TypeOK
<1>2. Calm(None)
  BY <1>1, GotoCalm DEF Pcs, Restarting, Selecting, Handed
<1>3. BootInv'
  BY <1>2, PlainBoot DEF Calm
<1>4. ASSUME NEW s \in Spends, s = Top.s
      PROVE  Transferred(s)'
  <2>1. depth' = depth /\ frame'[depth] = [Top EXCEPT !.pc = "transfer"]
    BY <1>1 DEF Goto, Become, StrandInv, TypeOK, StackOK
  <2>2. frame'[depth].s = s /\ frame'[depth].pc = "transfer"
    BY <1>1, <1>4, <2>1 DEF Frames
  <2>3. depth \in 1..depth' /\ frame'[depth].pc \in Handed
    BY <1>1, <2>1, <2>2 DEF Handed
  <2> QED BY <2>2, <2>3, Zenon DEF Transferred
<1>5. ASSUME NEW s \in Spends, spend'[s].st = "EXECUTING", s # Top.s
      PROVE  phase' = "down" \/ Transferred(s)' \/ (phase' = "db" /\ WillReach(frame'[1], s))
  <2>1. spend[s].st = "EXECUTING"
    BY <1>1, <1>5 DEF SetSpend, SpendOK
  <2>2. phase = "down" \/ Transferred(s) \/ (phase = "db" /\ WillReach(frame[1], s))
    BY <2>1 DEF StrandInv, ExecInv
  <2>3. UNCHANGED phase /\ (phase = "db" => frame'[1] = frame[1])
        /\ (Transferred(s) => Transferred(s)')
    BY <1>2 DEF Calm, Plain
  <2>4. CASE phase = "db" /\ WillReach(frame[1], s)
    BY <2>3, <2>4
  <2> QED BY <2>2, <2>3, <2>4
<1> QED BY <1>3, <1>4, <1>5 DEF StrandInv, ExecInv

\* Progress of the running activation.
LEMMA ProgressStrands ==
  ASSUME StrandInv, TypeOK', Progress
  PROVE  StrandInv'
<1> USE SameSpendCalm
<1>0. SpendOK /\ (depth > 0 => Top \in Frames)
  BY TopType DEF StrandInv, TypeOK
<1>1. CASE GateExecute
  BY <1>1, StartsTransfer DEF GateExecute, At
<1>2. ASSUME NEW notified \in BOOLEAN, GateHold(notified)
      PROVE  StrandInv'
  <2>1. Calm(None)
    BY <1>0, <1>2, ReturnCalm, GotoCalm
    DEF GateHold, AfterHold, At, Pcs, Restarting, Selecting, Handed
  <2>2. NoNewTransfer
    BY <1>0, <1>2, SetSpendCalm DEF GateHold
  <2> QED BY <2>1, <2>2, CalmKeeps
<1>3. CASE HoldNotified
  <2>1. Calm(None)
    BY <1>0, <1>3, ReturnCalm, GotoCalm
    DEF HoldNotified, AfterHold, At, Pcs, Restarting, Selecting, Handed
  <2>2. NoNewTransfer
    BY <1>0, <1>3, SetSpendCalm DEF HoldNotified
  <2> QED BY <2>1, <2>2, CalmKeeps
<1>4. CASE ExecuteApproved
  BY <1>4, StartsTransfer DEF ExecuteApproved, At
<1>5. ASSUME NEW x \in Spends, ResumeTask(x)
      PROVE  StrandInv'
  <2>1. [Top EXCEPT !.s = x, !.pc = IF ParkedFor(x) = {} THEN "advance" ELSE "replying"].pc
          \notin Restarting
    BY <1>0, <1>5 DEF ResumeTask, At, Frames, Restarting, Selecting
  <2>2. Calm(None)
    BY <1>5, <2>1, BecomeCalm DEF ResumeTask, At, Restarting, Selecting, Handed
  <2> QED BY <1>5, <2>2, CalmKeeps DEF ResumeTask
<1>6. CASE AdvanceTask
  <2>1. [Top EXCEPT !.todo = @ \ {Top.s}, !.pc = "notify"].pc \notin Restarting
    BY <1>0, <1>6 DEF AdvanceTask, At, Frames, Restarting, Selecting
  <2>2. Calm(None)
    BY <1>6, <2>1, BecomeCalm, ReturnCalm
    DEF AdvanceTask, At, Restarting, Selecting, Handed
  <2> QED BY <1>6, <2>2, CalmKeeps DEF AdvanceTask
<1> QED BY <1>1, <1>2, <1>3, <1>4, <1>5, <1>6 DEF Progress

\* The wallet's answers end the waiting and the row's EXECUTING together.
LEMMA WalletStrands ==
  ASSUME StrandInv, TypeOK', WalletAnswers
  PROVE  StrandInv'
<1>1. Calm(Top.s)
  BY AfterExecuteCalm
  DEF WalletAnswers, TransferConfirmed, TransferRefused, TransferLost, At, Handed
<1>2. NoNewTransfer /\ (Top.s \in Spends => spend'[Top.s].st # "EXECUTING")
  BY SetSpendCalm
  DEF WalletAnswers, TransferConfirmed, TransferRefused, TransferLost, StrandInv, TypeOK
<1> QED BY <1>1, <1>2, CalmKeeps

\* Steps of the wallet's process: a transfer that arrived is still waited for.
LEMMA MoneyStrands ==
  ASSUME StrandInv, TypeOK',
         \/ \E d \in 1..MaxDepth : WalletMoves(d)
         \/ \E s \in Spends : LateMove(s) \/ LateFailure(s)
         \/ UNCHANGED vars
  PROVE  StrandInv'
<1>1. ASSUME NEW e \in 1..MaxDepth, WalletMoves(e)
      PROVE  StrandInv'
  <2>1. e \in 1..depth /\ frame[e].pc = "transfer" /\ frame[e] \in Frames
    BY <1>1 DEF WalletMoves, StrandInv, TypeOK, StackOK
  <2>2. /\ UNCHANGED <<spend, depth, phase>>
        /\ frame'[e].s = frame[e].s /\ frame'[e].pc = "sent"
        /\ \A d \in 1..depth : d # e => frame'[d] = frame[d]
    BY <1>1, <2>1 DEF WalletMoves, db, StrandInv, TypeOK, StackOK, Frames
  <2>3. frame[e].pc \notin Restarting /\ frame'[e].pc \notin Restarting
    BY <2>1, <2>2 DEF Restarting, Selecting
  <2>4. Plain
    <3>0. depth \in Nat /\ depth > 0 /\ 1 \in 1..depth
      BY <2>1 DEF StrandInv, TypeOK, StackOK
    <3>1. phase # "down" /\ (phase = "db" => e # 1)
      BY <2>3, <3>0 DEF StrandInv, BootInv
    <3>2. ASSUME NEW d \in 1..depth', frame'[d].pc \in Restarting
          PROVE  d \in 1..depth /\ frame'[d] = frame[d]
      BY <2>2, <2>3, <3>2
    <3> QED BY <2>2, <3>0, <3>1, <3>2 DEF Plain
  <2>5. ASSUME NEW s \in Spends, Transferred(s)
        PROVE  Transferred(s)'
    BY <2>2, <2>5 DEF Transferred, Handed
  <2> QED BY <2>2, <2>4, <2>5, SameSpendCalm, CalmKeeps DEF Calm
<1>2. CASE (\E s \in Spends : LateMove(s) \/ LateFailure(s)) \/ UNCHANGED vars
  <2>1. UNCHANGED <<spend, stack, phase>>
    BY <1>2 DEF LateMove, LateFailure, vars, db, stack
  <2> QED BY <2>1, StayCalm, SameSpendCalm, CalmKeeps
<1> QED BY <1>1, <1>2

LEMMA RequestsStrand ==
  ASSUME StrandInv, TypeOK', Requests
  PROVE  StrandInv'
<1>0. SpendOK /\ \A pc \in {"gate", "execute", "notify"} : pc \notin Restarting
  BY DEF StrandInv, TypeOK, Restarting, Selecting
<1>1. ASSUME NEW s \in Spends, NEW a \in Amounts, WalletSend(s, a)
      PROVE  StrandInv'
  <2>1. Calm(None) /\ NoNewTransfer
    BY <1>0, <1>1, BeginCalm, CreatedCalm DEF WalletSend
  <2> QED BY <2>1, CalmKeeps
<1>2. ASSUME NEW s \in Spends, NEW a \in Amounts, ProgramCallHeld(s, a)
      PROVE  StrandInv'
  <2>1. Calm(None) /\ NoNewTransfer
    BY <1>0, <1>2, StayCalm, CreatedCalm DEF ProgramCallHeld
  <2> QED BY <2>1, CalmKeeps
<1>3. ASSUME NEW s \in Spends, Approve(s)
      PROVE  StrandInv'
  <2>1. Calm(None) /\ NoNewTransfer
    BY <1>0, <1>3, BeginCalm, SetSpendCalm DEF Approve
  <2> QED BY <2>1, CalmKeeps
<1>4. ASSUME NEW s \in Spends, ApproveTooLate(s)
      PROVE  StrandInv'
  <2>1. Calm(None) /\ NoNewTransfer
    BY <1>0, <1>4, StayCalm, SetSpendCalm DEF ApproveTooLate
  <2> QED BY <2>1, CalmKeeps
<1>5. ASSUME NEW s \in Spends, Reject(s)
      PROVE  StrandInv'
  <2>1. Calm(None) /\ NoNewTransfer
    BY <1>0, <1>5, BeginCalm, SetSpendCalm DEF Reject
  <2> QED BY <2>1, CalmKeeps
<1>6. CASE ExpireStale
  <2>1. Calm(None) /\ NoNewTransfer
    BY <1>0, <1>6, BeginCalm, ExpiredCalm DEF ExpireStale
  <2> QED BY <2>1, CalmKeeps
<1> QED BY <1>1, <1>2, <1>3, <1>4, <1>5, <1>6 DEF Requests

LEMMA TasksStrand ==
  ASSUME StrandInv, TypeOK', TaskProgress \/ TaskRequests
  PROVE  StrandInv'
<1> USE SameSpendCalm
<1>0. SpendOK /\ \A pc \in {"gate", "held-spend", "release", "notify"} : pc \notin Restarting
  BY DEF StrandInv, TypeOK, Restarting, Selecting
<1>1. CASE ParkTask \/ RecordSettlement \/ Announced
  <2>1. Calm(None) /\ NoNewTransfer
    BY <1>1, ReturnCalm
    DEF ParkTask, RecordSettlement, Announced, At, db, Restarting, Selecting, Handed
  <2> QED BY <2>1, CalmKeeps
<1>2. CASE ReleaseHeldSpend
  <2>1. Calm(None)
    BY <1>2, ReturnCalm DEF ReleaseHeldSpend, At, Restarting, Selecting, Handed
  <2>2. NoNewTransfer
    BY <1>0, <1>2, SetSpendCalm DEF ReleaseHeldSpend
  <2> QED BY <2>1, <2>2, CalmKeeps
<1>3. ASSUME NEW s \in Spends, NEW a \in Amounts, HoldInbound(s, a)
      PROVE  StrandInv'
  <2>1. Calm(None)
    BY <1>3, GotoCalm DEF HoldInbound, At, Pcs, Restarting, Selecting, Handed
  <2>2. NoNewTransfer
    BY <1>0, <1>3 DEF HoldInbound, SpendOK, NoNewTransfer
  <2> QED BY <2>1, <2>2, CalmKeeps
<1>4. ASSUME NEW o \in OutTasks,
             \/ \E price \in Amounts \cup {0} : SubmitTask(o, price)
             \/ CancelTask(o) \/ CompletedUnpaid(o)
             \/ \E verdict \in Verdicts : NegativeReply(o, verdict)
      PROVE  StrandInv'
  <2>1. Calm(None) /\ NoNewTransfer
    BY <1>4, StayCalm DEF SubmitTask, CancelTask, CompletedUnpaid, NegativeReply
  <2> QED BY <2>1, CalmKeeps
<1>5. ASSUME NEW o \in OutTasks, NEW s \in Spends, CompletedPayable(o, s)
      PROVE  StrandInv'
  <2>1. Calm(None) /\ NoNewTransfer
    BY <1>0, <1>5, BeginCalm, CreatedCalm DEF CompletedPayable
  <2> QED BY <2>1, CalmKeeps
<1>6. ASSUME NEW o \in OutTasks, RetractHeld(o)
      PROVE  StrandInv'
  <2>1. Calm(None) /\ NoNewTransfer
    BY <1>0, <1>6, BeginCalm, SetSpendCalm DEF RetractHeld, Reject
  <2> QED BY <2>1, CalmKeeps
<1>7. ASSUME NEW i \in InTasks, AcceptWalletSend(i) \/ RefuseWalletSend(i) \/ PeerCancels(i)
      PROVE  StrandInv'
  <2>1. Calm(None) /\ NoNewTransfer
    BY <1>0, <1>7, BeginCalm, StayCalm DEF AcceptWalletSend, RefuseWalletSend, PeerCancels
  <2> QED BY <2>1, CalmKeeps
<1> QED BY <1>1, <1>2, <1>3, <1>4, <1>5, <1>6, <1>7 DEF TaskProgress, TaskRequests

\* When recovery runs it is alone, and all that is in EXECUTING is its business.
LEMMA Recovering ==
  ASSUME StrandInv, depth > 0, Top.pc \in Restarting
  PROVE  /\ depth = 1 /\ phase = "db" /\ Top = frame[1] /\ Top \in Frames
         /\ \A s \in Spends : spend[s].st = "EXECUTING" => WillReach(Top, s)
<1>1. depth \in 1..depth /\ Top \in Frames
  BY TopType DEF StrandInv, TypeOK, StackOK
<1>2. depth = 1 /\ phase = "db" /\ Top = frame[1]
  BY <1>1 DEF StrandInv, BootInv, Top
<1>3. \A s : ~Transferred(s)
  BY <1>2 DEF Transferred, Restarting, Selecting, Handed
<1> QED BY <1>1, <1>2, <1>3 DEF StrandInv, ExecInv

\* Recovery goes on, and still comes to all that is in EXECUTING.
LEMMA RecoveryGoesOn ==
  ASSUME StrandInv, TypeOK', depth = 1, phase = "db", NEW f, f.pc \in Restarting,
         Become(f), UNCHANGED phase,
         \A s \in Spends : spend'[s].st = "EXECUTING" => WillReach(f, s)
  PROVE  StrandInv'
<1>1. depth' = 1 /\ frame'[1] = f
  BY DEF Become, StrandInv, TypeOK, StackOK
<1>2. BootInv'
  BY <1>1 DEF BootInv
<1> QED BY <1>1, <1>2 DEF StrandInv, ExecInv

LEMMA RecoveryStrands ==
  ASSUME StrandInv, TypeOK', Recovery
  PROVE  StrandInv'
<1>0. SpendOK
  BY DEF StrandInv, TypeOK
<1> DEFINE Alone(f) == /\ depth = 1 /\ phase = "db" /\ f = frame[1] /\ f \in Frames
                       /\ \A s \in Spends : spend[s].st = "EXECUTING" => WillReach(f, s)
<1>1. CASE HealUnlinked
  <2>1. Alone(Top) /\ depth > 0
    BY <1>1, Recovering DEF HealUnlinked, At, Restarting, Selecting
  <2>2. ASSUME NEW pc \in {"rearm", "reconcile"}, Goto(pc)
        PROVE  StrandInv'
    <3>1. [Top EXCEPT !.pc = pc].pc \in Selecting
      BY <2>1 DEF Frames, Selecting
    <3> QED BY <1>1, <2>1, <2>2, <3>1, RecoveryGoesOn
        DEF HealUnlinked, Goto, WillReach, Restarting
  <2> QED BY <1>1, <2>2 DEF HealUnlinked
<1>2. CASE ReconcileSettling
  <2>1. Alone(Top)
    BY <1>2, Recovering DEF ReconcileSettling, At, Restarting, Selecting
  <2> DEFINE f == [Top EXCEPT !.pc = "unknown",
                              !.todo = {s \in Spends : spend[s].st = "EXECUTING"}]
  <2>2. f.pc = "unknown" /\ f.todo = {s \in Spends : spend[s].st = "EXECUTING"}
    BY <2>1 DEF Frames
  <2>3. Become(f) /\ UNCHANGED <<spend, phase>>
    BY <1>2 DEF ReconcileSettling
  <2> HIDE DEF f
  <2> QED BY <2>1, <2>2, <2>3, RecoveryGoesOn DEF WillReach, Restarting
<1>3. ASSUME NEW x \in Spends, MarkUnknown(x)
      PROVE  StrandInv'
  <2>1. Alone(Top) /\ Top.pc = "unknown" /\ x \in Top.todo
    BY <1>3, Recovering DEF MarkUnknown, At, Restarting, Selecting
  <2>2. CASE spend[x].st = "EXECUTING"
    <3> DEFINE f == [Top EXCEPT !.s = x, !.pc = "unknown-advance"]
    <3>1. f.pc = "unknown-advance" /\ f.s = x /\ f.todo = Top.todo
      BY <2>1 DEF Frames
    <3>2. Become(f) /\ SetSpend(x, "TX_UNKNOWN") /\ UNCHANGED phase
      BY <1>3, <2>2 DEF MarkUnknown
    <3>3. spend'[x].st = "TX_UNKNOWN" /\ NoNewTransfer
      BY <1>0, <3>2, SetSpendCalm DEF SetSpend, SpendOK, Rows
    <3> HIDE DEF f
    <3>4. \A s \in Spends : spend'[s].st = "EXECUTING" => WillReach(f, s)
      BY <2>1, <3>1, <3>3 DEF NoNewTransfer, WillReach, Selecting
    <3> QED BY <2>1, <3>1, <3>2, <3>4, RecoveryGoesOn DEF Restarting
  <2>3. CASE spend[x].st # "EXECUTING"
    <3> DEFINE f == [Top EXCEPT !.todo = @ \ {x}]
    <3>1. f.pc = "unknown" /\ f.todo = Top.todo \ {x}
      BY <2>1 DEF Frames
    <3>2. Become(f) /\ UNCHANGED <<spend, phase>>
      BY <1>3, <2>3 DEF MarkUnknown
    <3> HIDE DEF f
    <3>3. \A s \in Spends : spend'[s].st = "EXECUTING" => WillReach(f, s)
      BY <2>1, <2>3, <3>1, <3>2 DEF WillReach, Selecting
    <3> QED BY <2>1, <3>1, <3>2, <3>3, RecoveryGoesOn DEF Restarting
  <2> QED BY <2>2, <2>3
<1>4. CASE UnknownAdvance \/ UnknownResume
  <2>1. Alone(Top) /\ Top.pc \in {"unknown-advance", "unknown-resume"}
    BY <1>4, Recovering DEF UnknownAdvance, UnknownResume, At, Restarting, Selecting
  <2>2. PICK pc \in {"unknown-resume", "unknown-reply", "unknown-owner"} : Goto(pc)
    BY <1>4 DEF UnknownAdvance, UnknownResume
  <2> DEFINE f == [Top EXCEPT !.pc = pc]
  <2>3. f.pc = pc /\ f.s = Top.s /\ f.todo = Top.todo
    BY <2>1 DEF Frames
  <2>4. Become(f) /\ UNCHANGED <<spend, phase>>
    BY <1>4, <2>2 DEF UnknownAdvance, UnknownResume, Goto
  <2> HIDE DEF f
  <2>5. \A s \in Spends : spend'[s].st = "EXECUTING" => WillReach(f, s)
    BY <2>1, <2>3, <2>4 DEF WillReach, Selecting
  <2> QED BY <2>1, <2>2, <2>3, <2>4, <2>5, RecoveryGoesOn DEF Restarting
<1>5. CASE SurfaceUnknown
  <2>1. Alone(Top) /\ Top.pc \in {"unknown-reply", "unknown-owner"}
    BY <1>5, Recovering DEF SurfaceUnknown, At, Restarting, Selecting
  <2> DEFINE f == [Top EXCEPT !.todo = @ \ {Top.s}, !.pc = "unknown"]
  <2>2. f.pc = "unknown" /\ f.todo = Top.todo \ {Top.s}
    BY <2>1 DEF Frames
  <2>3. Become(f) /\ UNCHANGED <<spend, phase>>
    BY <1>5 DEF SurfaceUnknown, db
  <2> HIDE DEF f
  <2>4. \A s \in Spends : spend'[s].st = "EXECUTING" => WillReach(f, s)
    BY <2>1, <2>2, <2>3 DEF WillReach, Selecting
  <2> QED BY <2>1, <2>2, <2>3, <2>4, RecoveryGoesOn DEF Restarting
<1>6. CASE LoadIdentity
  <2>1. Alone(Top) /\ Top.pc = "unknown" /\ Top.todo = {}
    BY <1>6, Recovering DEF LoadIdentity, At, Restarting, Selecting
  <2>2. \A s \in Spends : spend'[s].st # "EXECUTING"
    BY <1>6, <2>1 DEF LoadIdentity, db, WillReach, Selecting
  <2>3. depth' = 1 /\ frame'[1] = [Top EXCEPT !.pc = "recover"] /\ phase' = "up"
    BY <1>6, <2>1 DEF LoadIdentity, Goto, Become, StrandInv, TypeOK, StackOK
  <2>4. frame'[1].pc \notin Restarting
    BY <2>1, <2>3 DEF Frames, Restarting, Selecting
  <2>5. \A d \in 1..depth' : frame'[d].pc \notin Restarting
    <3>1. \A d \in 1..depth' : d = 1
      BY <2>3
    <3> QED BY <2>4, <3>1
  <2>6. BootInv'
    BY <2>3, <2>5 DEF BootInv
  <2> QED BY <2>2, <2>6 DEF StrandInv, ExecInv
<1>7. CASE RecoverPending
  <2>1. depth > 0 /\ Top \in Frames /\ Top.pc = "recover"
    BY <1>7, TopType DEF RecoverPending, At, StrandInv, TypeOK
  <2>2. [Top EXCEPT !.pc = "notify", !.todo = StaleSpends].pc \notin Restarting
    BY <2>1 DEF Frames, Restarting, Selecting
  <2>3. Calm(None)
    BY <1>7, <2>1, <2>2, BecomeCalm, ReturnCalm
    DEF RecoverPending, Restarting, Selecting, Handed
  <2>4. NoNewTransfer
    BY <1>0, <1>7, ExpiredCalm DEF RecoverPending
  <2> QED BY <2>3, <2>4, CalmKeeps
<1> QED BY <1>1, <1>2, <1>3, <1>4, <1>5, <1>6, <1>7 DEF Recovery

\* A crash leaves rows in EXECUTING with nobody; the next start begins with them all.
LEMMA ProcessStrands ==
  ASSUME StrandInv, TypeOK', Crash \/ Boot
  PROVE  StrandInv'
<1>1. CASE Crash
  <2>1. phase' = "down" /\ depth' = 0
    BY <1>1 DEF Crash
  <2> QED BY <2>1 DEF StrandInv, BootInv, ExecInv
<1>2. CASE Boot
  <2>1. phase' = "db" /\ depth' = 1 /\ frame'[1].pc = "heal"
    BY <1>2 DEF Boot, Begin, StrandInv, BootInv, TypeOK, StackOK
  <2>2. BootInv'
    BY <2>1 DEF BootInv, Restarting, Selecting
  <2> QED BY <2>1, <2>2 DEF StrandInv, ExecInv, WillReach, Selecting
<1> QED BY <1>1, <1>2

LEMMA StrandStep ==
  ASSUME StrandInv, TypeOK', [AgentNext]_agentVars
  PROVE  StrandInv'
<1>1. CASE Wallet
  BY <1>1, WalletStrands, MoneyStrands DEF Wallet, WalletAnswers
<1>2. CASE Tick
  <2>1. Calm(None) /\ NoNewTransfer
    BY <1>2, StayCalm, SameSpendCalm DEF Tick, db
  <2> QED BY <2>1, CalmKeeps
<1>3. CASE UNCHANGED agentVars
  BY <1>3, MoneyStrands DEF agentVars
<1> QED
  BY <1>1, <1>2, <1>3, ProgressStrands, RequestsStrand, TasksStrand, RecoveryStrands,
     ProcessStrands
  DEF AgentNext, TaskNext, SpendingNext

LEMMA StrandInvariant == Spec => []StrandInv
<1>1. AgentInit /\ AgentTypeOK => StrandInv
  BY DEF AgentInit, Init, AgentTypeOK, StrandInv, BootInv, ExecInv
<1>2. StrandInv /\ AgentTypeOK' /\ [AgentNext]_agentVars => StrandInv'
  BY StrandStep DEF AgentTypeOK
<1> QED BY <1>1, <1>2, TypeCorrect, PTL DEF Spec

\* However the process dies and whatever is served in the middle of recovery, once the
\* agent is up a row in EXECUTING has an activation that waits for its transfer
\* (executeSpend, reconcileExecutingSpends, L7).
THEOREM NoneStranded == Spec => []NoStrandedExecution
<1>1. StrandInv => NoStrandedExecution
  BY DEF StrandInv, ExecInv, Transferred, Handed, NoStrandedExecution
<1> QED BY <1>1, StrandInvariant, PTL

-------------------------------------------------------------------------------
(***************************************************************************)
(* Totals.  Each fact about a sum over a finite set is shown on a smallest *)
(* set for which it fails: the sets below it satisfy it, and the order of  *)
(* inclusion on the subsets of a finite set is well founded.               *)
(***************************************************************************)
\* The sum that AutonomousWithinBudget and PeriodSpent write.
Total(r, S) == MapThenSumSet(LAMBDA s : r[s].amount, S)

\* What MapThenSumSet comes to: the function g on subsets that takes one
\* element out at a time.
Picked(T) == CHOOSE x \in T : TRUE
Adds(r, g, T) == IF T = {} THEN 0 ELSE r[Picked(T)].amount + g[T \ {Picked(T)}]
IsAdder(r, g, S) == g = [T \in SUBSET S |-> Adds(r, g, T)]
Adder(r, S) == CHOOSE g : IsAdder(r, g, S)

\* The library sums with such a function, chosen for the whole set.
LEMMA TotalIsAdder ==
  ASSUME NEW r, NEW S
  PROVE  Total(r, S) = Adder(r, S)[S]
BY Zenon DEF Total, MapThenSumSet, MapThenFoldSet, Adder, IsAdder, Adds, Picked

LEMMA PickedIn ==
  ASSUME NEW T, T # {}
  PROVE  Picked(T) \in T
BY DEF Picked

Smallest(T, B) == \A U \in B : U \subseteq T => U = T

\* A set of subsets of a finite set has a member with no smaller one.
LEMMA SmallestSubset ==
  ASSUME NEW S, IsFiniteSet(S), NEW B, B \subseteq SUBSET S, B # {}
  PROVE  \E T \in B : Smallest(T, B)
<1>1. FiniteSubsetsOf(S) = SUBSET S
  BY FS_FiniteSubsetsOfFinite, Zenon
<1>2. IsWellFoundedOn(StrictSubsetOrdering(S), SUBSET S)
  BY <1>1, FS_StrictSubsetOrderingWellFounded, Zenon
<1>3. PICK T \in B : \A U \in B : ~ (<<U, T>> \in StrictSubsetOrdering(S))
  BY <1>2, WFMin, Zenon
<1>4. ASSUME NEW U \in B, U \subseteq T PROVE U = T
  BY <1>3, <1>4 DEF StrictSubsetOrdering
<1> QED BY <1>4 DEF Smallest

\* Two functions that satisfy the equation agree where both do.
LEMMA AddersAgree ==
  ASSUME NEW r, NEW S, IsFiniteSet(S), NEW R \in SUBSET S,
         NEW g, NEW h, IsAdder(r, g, S), IsAdder(r, h, R)
  PROVE  \A T \in SUBSET R : g[T] = h[T]
<1> DEFINE B == {T \in SUBSET R : g[T] # h[T]}
<1> SUFFICES ASSUME B # {} PROVE FALSE
  OBVIOUS
<1>1. PICK T \in B : Smallest(T, B)
  <2>1. IsFiniteSet(R) /\ B \subseteq SUBSET R
    BY FS_Subset
  <2> HIDE DEF B
  <2> QED BY <2>1, SmallestSubset
<1>2. T \in SUBSET R /\ T \in SUBSET S
  OBVIOUS
<1>3. g[T] = Adds(r, g, T) /\ h[T] = Adds(r, h, T)
  BY <1>2, Zenon DEF IsAdder
<1>4. CASE T = {}
  BY <1>3, <1>4 DEF Adds
<1>5. CASE T # {}
  <2>1. Picked(T) \in T
    BY <1>5, PickedIn
  <2>2. T \ {Picked(T)} \in SUBSET R /\ T \ {Picked(T)} # T
    BY <1>2, <2>1
  <2>3. g[T \ {Picked(T)}] = h[T \ {Picked(T)}]
    BY <1>1, <2>2 DEF Smallest
  <2> QED BY <1>3, <1>5, <2>3 DEF Adds
<1> QED BY <1>4, <1>5

\* There is one for every finite set: a smallest set without one would have it,
\* from those of its proper subsets.
LEMMA AdderExists ==
  ASSUME NEW r, NEW S, IsFiniteSet(S)
  PROVE  IsAdder(r, Adder(r, S), S)
<1> DEFINE B == {T \in SUBSET S : ~IsAdder(r, Adder(r, T), T)}
<1> SUFFICES ASSUME B # {} PROVE FALSE
  BY DEF B
<1>1. PICK T \in B : Smallest(T, B)
  <2>1. B \subseteq SUBSET S
    OBVIOUS
  <2> HIDE DEF B
  <2> QED BY <2>1, SmallestSubset
<1>2. ASSUME NEW U \in SUBSET T, U # T PROVE IsAdder(r, Adder(r, U), U)
  BY <1>1, <1>2 DEF Smallest
<1> HIDE DEF B
<1>3. T \in SUBSET S /\ IsFiniteSet(T)
  BY <1>1, FS_Subset DEF B
<1> DEFINE prev(U) == U \ {Picked(U)}
           g == [U \in SUBSET T |-> IF U = {} THEN 0
                  ELSE r[Picked(U)].amount + Adder(r, prev(U))[prev(U)]]
<1>4. ASSUME NEW U \in SUBSET T PROVE g[U] = Adds(r, g, U)
  <2>1. CASE U = {}
    BY <2>1 DEF Adds
  <2>2. CASE U # {}
    <3> DEFINE V == U \ {Picked(U)}
    <3>1. Picked(U) \in U
      BY <2>2, PickedIn
    <3>2. V \in SUBSET T /\ V # T /\ V \in SUBSET U
      BY <3>1
    <3>3. IsAdder(r, Adder(r, V), V)
      BY <1>2, <3>2
    <3>4. g[U] = r[Picked(U)].amount + Adder(r, V)[V]
      BY <2>2
    <3>5. Adds(r, g, U) = r[Picked(U)].amount + g[V]
      BY <2>2 DEF Adds
    <3>6. Adder(r, V)[V] = Adds(r, Adder(r, V), V)
      BY <3>3, Zenon DEF IsAdder
    <3> HIDE DEF V
    <3>7. CASE V = {}
      BY <3>2, <3>4, <3>5, <3>6, <3>7 DEF Adds
    <3>8. CASE V # {}
      <4> DEFINE W == V \ {Picked(V)}
      <4>1. Picked(V) \in V
        BY <3>8, PickedIn
      <4>2. W \in SUBSET T /\ W # T /\ W \in SUBSET V
        BY <3>2, <4>1
      <4>3. IsAdder(r, Adder(r, W), W)
        BY <1>2, <4>2
      <4>4. Adder(r, V)[W] = Adder(r, W)[W]
        <5>1. IsFiniteSet(V) /\ W \in SUBSET W
          BY <1>3, <3>2, FS_Subset
        <5> HIDE DEF W
        <5> QED BY <3>3, <4>2, <4>3, <5>1, AddersAgree
      <4>5. g[V] = r[Picked(V)].amount + Adder(r, W)[W]
        BY <3>2, <3>8
      <4>6. Adder(r, V)[V] = r[Picked(V)].amount + Adder(r, V)[W]
        BY <3>6, <3>8 DEF Adds
      <4> QED BY <3>4, <3>5, <4>4, <4>5, <4>6
    <3> QED BY <3>7, <3>8
  <2> QED BY <2>1, <2>2
<1>5. IsAdder(r, g, T)
  <2> HIDE DEF prev
  <2>1. g = [U \in SUBSET T |-> g[U]]
    OBVIOUS
  <2> HIDE DEF g
  <2> QED BY <1>4, <2>1, Zenon DEF IsAdder
<1>6. IsAdder(r, Adder(r, T), T)
  BY <1>5, Zenon DEF Adder
<1> QED BY <1>1, <1>6 DEF B

LEMMA TotalEmpty ==
  ASSUME NEW r
  PROVE  Total(r, {}) = 0
<1>1. IsAdder(r, Adder(r, {}), {}) /\ {} \in SUBSET {}
  BY AdderExists, FS_EmptySet
<1>2. Adder(r, {})[{}] = Adds(r, Adder(r, {}), {})
  BY <1>1, Zenon DEF IsAdder
<1> QED BY <1>2, TotalIsAdder DEF Adds

LEMMA TotalPicks ==
  ASSUME NEW r, NEW S, IsFiniteSet(S), S # {}
  PROVE  Total(r, S) = r[Picked(S)].amount + Total(r, S \ {Picked(S)})
<1> DEFINE R == S \ {Picked(S)}
<1>1. R \in SUBSET S /\ R \in SUBSET R /\ S \in SUBSET S /\ IsFiniteSet(R)
  BY FS_Subset
<1>2. IsAdder(r, Adder(r, S), S) /\ IsAdder(r, Adder(r, R), R)
  BY <1>1, AdderExists
<1>3. Adder(r, S)[S] = Adds(r, Adder(r, S), S)
  BY <1>1, <1>2, Zenon DEF IsAdder
<1>4. Adds(r, Adder(r, S), S) = r[Picked(S)].amount + Adder(r, S)[R]
  BY DEF Adds
<1> HIDE DEF R
<1>5. Adder(r, S)[R] = Adder(r, R)[R]
  BY <1>1, <1>2, AddersAgree
<1>6. Total(r, S) = r[Picked(S)].amount + Total(r, R)
  BY <1>3, <1>4, <1>5, TotalIsAdder, Zenon
<1> QED BY <1>6 DEF R

\* A total of naturals is a natural.
LEMMA TotalType ==
  ASSUME NEW r, NEW S, IsFiniteSet(S), \A s \in S : r[s].amount \in Nat
  PROVE  Total(r, S) \in Nat
<1> DEFINE B == {T \in SUBSET S : Total(r, T) \notin Nat}
<1> SUFFICES ASSUME B # {} PROVE FALSE
  OBVIOUS
<1>1. PICK T \in B : Smallest(T, B)
  <2>1. B \subseteq SUBSET S
    OBVIOUS
  <2> HIDE DEF B
  <2> QED BY <2>1, SmallestSubset
<1>2. T \in SUBSET S /\ IsFiniteSet(T) /\ Total(r, T) \notin Nat
  BY FS_Subset
<1>3. T # {}
  BY <1>2, TotalEmpty
<1>4. Picked(T) \in T
  BY <1>3, PickedIn
<1>5. Total(r, T \ {Picked(T)}) \in Nat
  BY <1>1, <1>2, <1>4 DEF Smallest
<1> HIDE DEF B
<1>6. r[Picked(T)].amount \in Nat
  BY <1>2, <1>4
<1> QED BY <1>2, <1>3, <1>5, <1>6, TotalPicks

\* Any element may be the first.
LEMMA TotalTakes ==
  ASSUME NEW r, NEW S, IsFiniteSet(S), \A s \in S : r[s].amount \in Nat, NEW x \in S
  PROVE  Total(r, S) = r[x].amount + Total(r, S \ {x})
<1> DEFINE Good(T) == \A y \in T : Total(r, T) = r[y].amount + Total(r, T \ {y})
           B == {T \in SUBSET S : ~Good(T)}
<1> SUFFICES ASSUME B # {} PROVE FALSE
  OBVIOUS
<1>1. PICK T \in B : Smallest(T, B)
  <2>1. B \subseteq SUBSET S
    OBVIOUS
  <2> HIDE DEF B
  <2> QED BY <2>1, SmallestSubset
<1>2. T \in SUBSET S /\ IsFiniteSet(T)
  BY FS_Subset
<1>3. PICK y \in T : Total(r, T) # r[y].amount + Total(r, T \ {y})
  OBVIOUS
<1> DEFINE p == Picked(T)
<1>4. p \in T /\ Total(r, T) = r[p].amount + Total(r, T \ {p})
  BY <1>2, <1>3, PickedIn, TotalPicks
<1> HIDE DEF p
<1>5. p # y /\ y \in T \ {p} /\ p \in T \ {y}
  BY <1>3, <1>4
<1>6. /\ Total(r, T \ {p}) = r[y].amount + Total(r, (T \ {p}) \ {y})
      /\ Total(r, T \ {y}) = r[p].amount + Total(r, (T \ {y}) \ {p})
  <2>1. /\ T \ {p} \in SUBSET S /\ T \ {p} \subseteq T /\ T \ {p} # T
        /\ T \ {y} \in SUBSET S /\ T \ {y} \subseteq T /\ T \ {y} # T
    BY <1>2, <1>4
  <2>2. Good(T \ {p}) /\ Good(T \ {y})
    BY <1>1, <2>1 DEF Smallest
  <2> QED BY <1>5, <2>2
<1>7. Total(r, (T \ {p}) \ {y}) = Total(r, (T \ {y}) \ {p})
  <2>1. (T \ {p}) \ {y} = (T \ {y}) \ {p}
    OBVIOUS
  <2> QED BY <2>1, Zenon
<1>8. /\ r[p].amount \in Nat /\ r[y].amount \in Nat
      /\ Total(r, (T \ {y}) \ {p}) \in Nat
  <2>1. (T \ {y}) \ {p} \in SUBSET S
    BY <1>2
  <2>2. IsFiniteSet((T \ {y}) \ {p})
    BY <2>1, FS_Subset
  <2> QED BY <1>2, <1>3, <1>4, <2>1, <2>2, TotalType
<1> HIDE DEF B, Good
<1> QED BY <1>3, <1>4, <1>6, <1>7, <1>8

\* Less to add, a smaller total; the rows may be others where they are not added.
LEMMA TotalGrows ==
  ASSUME NEW r, NEW q, NEW S, IsFiniteSet(S), NEW R \in SUBSET S,
         \A s \in S : q[s].amount \in Nat,
         \A s \in R : r[s].amount = q[s].amount
  PROVE  Total(r, R) <= Total(q, S)
<1> DEFINE B == {T \in SUBSET S : ~(Total(r, T \cap R) <= Total(q, T))}
<1> SUFFICES B = {}
  <2>1. S \notin B /\ S \cap R = R
    OBVIOUS
  <2> QED BY <2>1
<1> SUFFICES ASSUME B # {} PROVE FALSE
  OBVIOUS
<1>1. PICK T \in B : Smallest(T, B)
  <2>1. B \subseteq SUBSET S
    OBVIOUS
  <2> HIDE DEF B
  <2> QED BY <2>1, SmallestSubset
<1>2. T \in SUBSET S /\ IsFiniteSet(T) /\ ~(Total(r, T \cap R) <= Total(q, T))
  BY FS_Subset
<1>3. T # {}
  <2>1. SUFFICES ASSUME T = {} PROVE FALSE
    OBVIOUS
  <2>2. T \cap R = {}
    BY <2>1
  <2>3. Total(r, T \cap R) = 0 /\ Total(q, T) = 0
    BY <2>1, <2>2, TotalEmpty, Zenon
  <2> QED BY <1>2, <2>3
<1>4. PICK x \in T : TRUE
  BY <1>3
<1> DEFINE U == T \ {x}
<1>5. Total(r, U \cap R) <= Total(q, U)
  BY <1>1, <1>2 DEF Smallest
<1> HIDE DEF B
<1>6. /\ IsFiniteSet(U) /\ IsFiniteSet(U \cap R) /\ IsFiniteSet(T \cap R)
      /\ U \in SUBSET S /\ T \cap R \in SUBSET S /\ U \cap R \in SUBSET S
  BY <1>2, FS_Subset
<1>7. Total(q, T) = q[x].amount + Total(q, U)
  BY <1>2, TotalTakes
<1>8. /\ q[x].amount \in Nat /\ Total(q, U) \in Nat /\ Total(r, U \cap R) \in Nat
  <2>1. (\A s \in U : q[s].amount \in Nat) /\ (\A s \in U \cap R : r[s].amount \in Nat)
    BY <1>6
  <2> HIDE DEF U
  <2> QED BY <1>2, <1>6, <2>1, TotalType
<1>9. CASE x \in R
  <2>1. (T \cap R) \ {x} = U \cap R /\ x \in T \cap R
    BY <1>9
  <2>2. \A s \in T \cap R : r[s].amount \in Nat
    BY <1>6
  <2>3. Total(r, T \cap R) = r[x].amount + Total(r, U \cap R)
    BY <1>6, <2>1, <2>2, TotalTakes
  <2> HIDE DEF U
  <2> QED BY <1>2, <1>5, <1>7, <1>8, <1>9, <2>3
<1>10. CASE x \notin R
  <2>1. T \cap R = U \cap R
    BY <1>10
  <2> HIDE DEF U
  <2>2. Total(r, T \cap R) = Total(r, U \cap R)
    BY <2>1, Zenon
  <2> QED BY <1>2, <1>5, <1>7, <1>8, <2>2
<1> QED BY <1>9, <1>10

-------------------------------------------------------------------------------
(***************************************************************************)
(* The budget.  What the limits let through in this period and did not     *)
(* fail adds up to no more than the limit.  The gate reads another sum, of *)
(* the requests that are spent or committed in the period, and there is    *)
(* more in it: whatever the limits let through is executing, done or lost. *)
(***************************************************************************)
\* Activations whose request the limits have not let through, and the states
\* that a request they let through may be in.
Asking == {"gate", "holding"}
Passed == {"EXECUTING", "COMPLETED", "TX_FAILED", "TX_UNKNOWN"}

\* What the limits let through is executed at once: it never waits for the owner.
PassedInv == \A s \in Spends : autoGrants[s] > 0 => spend[s].st \in Passed

\* What an activation still knows of its request.
AskInv ==
  \A s \in Spends, d \in 1..depth : frame[d].s = s =>
    /\ frame[d].pc \in Asking \cup Handed => spend[s].st # "none"
    /\ frame[d].pc \in Asking => autoGrants[s] = 0
    /\ frame[d].pc \in Handed /\ autoGrants[s] > 0 => spend[s].st # "TX_FAILED"

\* The gate is passed without a wait, by one activation for each request; so a
\* request the limits let through is handed to the wallet by one only.
GateInv ==
  /\ \A d \in 1..depth : frame[d].pc = "gate" => d = depth
  /\ \A s \in Spends, d \in 1..depth, e \in 1..depth :
       d # e /\ frame[d].s = s /\ frame[e].s = s =>
         /\ frame[d].pc = "gate" => frame[e].pc \notin Asking \cup Handed
         /\ frame[d].pc \in Handed /\ frame[e].pc \in Handed => autoGrants[s] = 0

\* The requests the budget property adds, and those that periodSpent adds.
Alone  == {s \in Spends : /\ autoGrants[s] > 0
                          /\ spend[s].st # "TX_FAILED"
                          /\ spend[s].at > now - Period}
Recent == {s \in Spends : spend[s].st \in Committed /\ spend[s].at > now - Period}

LimitInv == Total(spend, Alone) <= PerPeriodLimit

BudgetInv == TypeOK /\ PassedInv /\ AskInv /\ GateInv /\ LimitInv

\* Amounts are naturals, so their totals are.
LEMMA AmountsAdd ==
  ASSUME TypeOK
  PROVE  /\ \A s \in Spends : spend[s].amount \in Nat
         /\ \A S \in SUBSET Spends : IsFiniteSet(S) /\ Total(spend, S) \in Nat
<1>1. ASSUME NEW s \in Spends PROVE spend[s].amount \in Nat
  <2>1. spend[s].amount \in Amounts \cup {0}
    BY DEF TypeOK, SpendOK, Rows
  <2>2. \A a \in Amounts \cup {0} : a \in Nat
    OBVIOUS
  <2> QED BY <2>1, <2>2, Zenon
<1>2. ASSUME NEW S \in SUBSET Spends PROVE IsFiniteSet(S) /\ Total(spend, S) \in Nat
  BY <1>1, FS_Subset, TotalType
<1> QED BY <1>1, <1>2

-------------------------------------------------------------------------------
(***************************************************************************)
(* Tame steps.  They take no request to the gate or to the wallet, and     *)
(* what the limits let through keeps its amount and date, and fails only   *)
(* with the one activation that handed it over.                            *)
(***************************************************************************)
TameFrames ==
  \A d \in 1..depth' : frame'[d].pc \in Asking \cup Handed =>
    /\ d \in 1..depth /\ frame'[d].s = frame[d].s
    /\ frame'[d].pc \in Handed => frame[d].pc \in Handed
    /\ frame'[d].pc \in Asking => frame[d].pc \in Asking
    /\ frame'[d].pc = "gate" => frame[d].pc = "gate" /\ depth' = depth

TameRows ==
  \A s \in Spends :
    /\ spend[s].st # "none" => spend'[s].st # "none"
    /\ autoGrants[s] > 0 =>
         /\ spend'[s].st \in Passed
         /\ spend'[s].amount = spend[s].amount /\ spend'[s].at = spend[s].at
         /\ spend[s].st = "TX_FAILED" => spend'[s].st = "TX_FAILED"
         /\ spend'[s].st = "TX_FAILED" => spend[s].st = "TX_FAILED" \/ ~Transferred(s)'

\* What the budget adds may only shrink.
LEMMA SmallerKeeps ==
  ASSUME TypeOK, LimitInv, Alone' \subseteq Alone,
         \A s \in Alone' : spend'[s].amount = spend[s].amount
  PROVE  LimitInv'
<1>1. IsFiniteSet(Alone) /\ (\A s \in Alone : spend[s].amount \in Nat)
      /\ Total(spend, Alone) \in Nat
  BY AmountsAdd DEF Alone
<1>2. IsFiniteSet(Alone') /\ (\A s \in Alone' : spend'[s].amount \in Nat)
  BY <1>1, FS_Subset
<1>3. Total(spend', Alone') \in Nat
  BY <1>2, TotalType
<1>4. Total(spend', Alone') <= Total(spend, Alone)
  BY <1>1, TotalGrows
<1> QED BY <1>1, <1>3, <1>4 DEF LimitInv

\* A tame step adds nothing to what the budget adds.
LEMMA TameKeeps ==
  ASSUME BudgetInv, TypeOK', TameFrames, TameRows, UNCHANGED autoGrants, now <= now'
  PROVE  BudgetInv'
<1>1. /\ TypeOK /\ PassedInv /\ AskInv /\ GateInv /\ LimitInv
      /\ autoGrants \in [Spends -> Nat] /\ now \in Nat /\ now' \in Nat
      /\ \A s \in Spends : spend[s].at \in Nat
  BY DEF BudgetInv, TypeOK, HistOK, WorldOK, SpendOK, Rows
<1>2. PassedInv'
  BY <1>1 DEF PassedInv, TameRows
<1>3. AskInv'
  <2> SUFFICES ASSUME NEW s \in Spends, NEW d \in 1..depth', frame'[d].s = s,
                      frame'[d].pc \in Asking \cup Handed
               PROVE  /\ spend'[s].st # "none"
                      /\ frame'[d].pc \in Asking => autoGrants[s] = 0
                      /\ frame'[d].pc \in Handed /\ autoGrants[s] > 0
                           => spend'[s].st # "TX_FAILED"
    BY DEF AskInv
  <2>1. /\ d \in 1..depth /\ frame[d].s = s
        /\ frame'[d].pc \in Handed => frame[d].pc \in Handed
        /\ frame'[d].pc \in Asking => frame[d].pc \in Asking
    BY DEF TameFrames
  <2>2. frame[d].pc \in Asking \cup Handed
    BY <2>1
  <2>3. /\ spend[s].st # "none"
        /\ frame[d].pc \in Asking => autoGrants[s] = 0
        /\ frame[d].pc \in Handed /\ autoGrants[s] > 0 => spend[s].st # "TX_FAILED"
    BY <1>1, <2>1, <2>2 DEF AskInv
  <2>4. frame'[d].pc \in Handed => Transferred(s)'
    BY DEF Transferred
  <2> QED BY <2>1, <2>3, <2>4 DEF TameRows
<1>4. GateInv'
  <2>0. \A d \in 1..depth' : frame'[d].pc = "gate" => d = depth'
    BY <1>1 DEF GateInv, TameFrames, Asking
  <2> SUFFICES ASSUME NEW s \in Spends, NEW d \in 1..depth', NEW e \in 1..depth',
                      d # e, frame'[d].s = s, frame'[e].s = s,
                      frame'[d].pc \in Asking \cup Handed, frame'[e].pc \in Asking \cup Handed
               PROVE  /\ frame'[d].pc # "gate"
                      /\ frame'[d].pc \in Handed /\ frame'[e].pc \in Handed => autoGrants[s] = 0
    BY <2>0 DEF GateInv, Asking
  <2>1. /\ d \in 1..depth /\ frame[d].s = s /\ e \in 1..depth /\ frame[e].s = s
        /\ frame'[d].pc \in Handed => frame[d].pc \in Handed
        /\ frame'[e].pc \in Handed => frame[e].pc \in Handed
        /\ frame[e].pc \in Asking \cup Handed
        /\ frame'[d].pc = "gate" => frame[d].pc = "gate"
    BY DEF TameFrames
  <2> QED BY <1>1, <2>1 DEF GateInv
<1>5. LimitInv'
  <2>1. Alone' \subseteq Alone /\ \A s \in Alone' : spend'[s].amount = spend[s].amount
    BY <1>1 DEF Alone, TameRows, SpendingAssumption
  <2> QED BY <1>1, <2>1, SmallerKeeps
<1> QED BY <1>2, <1>3, <1>4, <1>5 DEF BudgetInv

\* The property, and what the gate reads, are totals.
LEMMA BudgetIs == AutonomousWithinBudget <=> LimitInv
BY Zenon DEF AutonomousWithinBudget, LimitInv, Total, Alone

LEMMA PeriodIs == PeriodSpent = Total(spend, Recent)
BY Zenon DEF PeriodSpent, Total, Recent

\* The running activation has no transfer any more.
TopLetsGo ==
  \A d \in 1..depth' : frame'[d].pc \in Handed =>
                         d \in 1..depth /\ d # depth /\ frame'[d] = frame[d]

-------------------------------------------------------------------------------
(***************************************************************************)
(* What the operators on the stack and on the table do.                    *)
(***************************************************************************)
LEMMA StackTame ==
  ASSUME UNCHANGED stack
  PROVE  TameFrames
BY DEF TameFrames, stack

LEMMA ReturnTame ==
  ASSUME BudgetInv, depth > 0, Return
  PROVE  TameFrames /\ TopLetsGo
BY DEF TameFrames, TopLetsGo, Return, StackOK, BudgetInv, TypeOK, GateInv, Asking

LEMMA BecomeTame ==
  ASSUME BudgetInv, depth > 0, NEW f, f.pc \notin Asking \cup Handed, Become(f)
  PROVE  TameFrames /\ TopLetsGo
BY DEF TameFrames, TopLetsGo, Become, StackOK, BudgetInv, TypeOK

LEMMA GotoTame ==
  ASSUME BudgetInv, depth > 0, NEW pc \in Pcs \ (Asking \cup Handed), Goto(pc)
  PROVE  TameFrames
<1>1. [Top EXCEPT !.pc = pc].pc = pc
  BY TopType DEF Frames, BudgetInv, TypeOK
<1> QED BY <1>1, BecomeTame DEF Goto

LEMMA BeginTame ==
  ASSUME BudgetInv, NEW op, NEW pc, pc \notin Asking \cup Handed, NEW s, NEW t, NEW ok, NEW todo,
         Begin(op, pc, s, t, ok, todo)
  PROVE  TameFrames
<1>1. /\ depth' = depth + 1 /\ depth + 1 \in 1..MaxDepth
      /\ frame'[depth + 1].pc = pc
      /\ \A d \in 1..depth : frame'[d] = frame[d]
  BY DEF Begin, StackOK, BudgetInv, TypeOK
<1>2. \A d \in 1..depth' : d \in 1..depth \/ d = depth + 1
  BY <1>1 DEF StackOK, BudgetInv, TypeOK
<1>3. ASSUME NEW d \in 1..depth, frame[d].pc = "gate" PROVE FALSE
  <2>1. d = depth /\ depth > 0
    BY <1>3 DEF StackOK, BudgetInv, TypeOK, GateInv
  <2> QED BY <1>3, <2>1 DEF Begin, Served, Waiting, Top
<1> QED BY <1>1, <1>2, <1>3 DEF TameFrames

LEMMA AfterExecuteTame ==
  ASSUME BudgetInv, depth > 0, NEW ok \in BOOLEAN, AfterExecute(ok)
  PROVE  TameFrames /\ TopLetsGo
<1>1. /\ [Top EXCEPT !.pc = "notify", !.ok = ok, !.todo = {Top.s}].pc
           \notin Asking \cup Handed
      /\ [Top EXCEPT !.pc = "record", !.ok = ok].pc \notin Asking \cup Handed
  BY TopType DEF Frames, BudgetInv, TypeOK, Asking, Handed
<1> QED BY <1>1, ReturnTame, BecomeTame DEF AfterExecute

\* What the tables do: a request the limits let through is left alone, or was
\* not let through.
LEMMA SameRows ==
  ASSUME BudgetInv, UNCHANGED spend
  PROVE  TameRows
BY DEF TameRows, BudgetInv, PassedInv

LEMMA FreeRows ==
  ASSUME BudgetInv,
         \A s \in Spends : \/ spend'[s] = spend[s]
                           \/ spend[s].st \notin Passed /\ spend'[s].st # "none"
  PROVE  TameRows
BY DEF TameRows, BudgetInv, PassedInv

LEMMA SetFreeRow ==
  ASSUME BudgetInv, NEW x, NEW st, st # "none", SetSpend(x, st),
         x \in Spends => autoGrants[x] = 0
  PROVE  TameRows
<1>1. ASSUME NEW s \in Spends, s # x PROVE spend'[s] = spend[s]
  BY <1>1 DEF BudgetInv, TypeOK, SpendOK, SetSpend
<1>2. ASSUME x \in Spends PROVE spend'[x].st = st
  BY <1>2 DEF BudgetInv, TypeOK, SpendOK, SetSpend, Rows
<1> QED BY <1>1, <1>2 DEF TameRows, BudgetInv, PassedInv

LEMMA ExpiredRows ==
  ASSUME BudgetInv, spend' = AllExpired(StaleSpends)
  PROVE  TameRows
<1>1. ASSUME NEW s \in Spends
      PROVE  \/ spend'[s] = spend[s]
             \/ spend[s].st \notin Passed /\ spend'[s].st # "none"
  BY DEF AllExpired, StaleSpends, Passed, BudgetInv, TypeOK, SpendOK, Rows
<1> QED BY <1>1, FreeRows

-------------------------------------------------------------------------------
(***************************************************************************)
(* One case per action.                                                    *)
(***************************************************************************)
Tame == TameFrames /\ TameRows /\ UNCHANGED autoGrants /\ now <= now'

\* The request of an activation at the gate was not let through yet.
LEMMA TopAsks ==
  ASSUME BudgetInv, depth > 0, Top.pc \in Asking
  PROVE  Top.s \in Spends => autoGrants[Top.s] = 0
BY DEF BudgetInv, TypeOK, StackOK, AskInv, Top

LEMMA GateTame ==
  ASSUME BudgetInv, At("gate"), Goto("holding")
  PROVE  TameFrames
<1>1. /\ [Top EXCEPT !.pc = "holding"].pc = "holding"
      /\ [Top EXCEPT !.pc = "holding"].s = Top.s
  BY TopType DEF Frames, BudgetInv, TypeOK, At
<1> QED BY <1>1 DEF TameFrames, Goto, Become, At, Top, Asking, Handed, BudgetInv, TypeOK, StackOK

LEMMA AfterHoldTame ==
  ASSUME BudgetInv, depth > 0, AfterHold
  PROVE  TameFrames
<1>1. "park" \in Pcs \ (Asking \cup Handed)
  BY DEF Pcs, Asking, Handed
<1> QED BY <1>1, GotoTame, ReturnTame DEF AfterHold

\* The steps of the running activation that hand nothing to the wallet are tame.
LEMMA ProgressTame ==
  ASSUME BudgetInv, Progress, ~GateExecute, ~ExecuteApproved
  PROVE  Tame
<1> USE DEF Tame, hist
<1>0. now \in Nat /\ StackOK
  BY DEF BudgetInv, TypeOK, WorldOK
<1>1. ASSUME NEW notified \in BOOLEAN, GateHold(notified) PROVE Tame
  <2>1. depth > 0 /\ Top.pc = "gate"
    BY <1>1 DEF GateHold, At
  <2>2. TameRows
    BY <1>1, <2>1, TopAsks, SetFreeRow DEF GateHold, Asking
  <2>3. TameFrames
    BY <1>1, <2>1, GateTame, AfterHoldTame DEF GateHold, At
  <2> QED BY <1>0, <1>1, <2>2, <2>3 DEF GateHold
<1>2. CASE HoldNotified
  <2>1. depth > 0 /\ Top.pc = "holding"
    BY <1>2 DEF HoldNotified, At
  <2>2. TameRows
    BY <1>2, <2>1, TopAsks, SetFreeRow DEF HoldNotified, Asking
  <2>3. TameFrames
    BY <1>2, <2>1, AfterHoldTame DEF HoldNotified
  <2> QED BY <1>0, <1>2, <2>2, <2>3 DEF HoldNotified
<1>3. ASSUME NEW x \in Spends, ResumeTask(x) PROVE Tame
  <2>1. Top \in Frames /\ depth > 0
    BY <1>0, <1>3, TopType DEF ResumeTask, At
  <2>2. [Top EXCEPT !.s = x, !.pc = IF ParkedFor(x) = {} THEN "advance" ELSE "replying"].pc
          \notin Asking \cup Handed
    BY <2>1 DEF Frames, Asking, Handed
  <2>3. TameFrames
    BY <1>3, <2>1, <2>2, BecomeTame DEF ResumeTask
  <2>4. UNCHANGED <<spend, autoGrants, now>>
    BY <1>3 DEF ResumeTask
  <2> QED BY <1>0, <2>3, <2>4, SameRows
<1>4. CASE AdvanceTask
  <2>1. Top \in Frames /\ depth > 0
    BY <1>0, <1>4, TopType DEF AdvanceTask, At
  <2>2. [Top EXCEPT !.todo = @ \ {Top.s}, !.pc = "notify"].pc \notin Asking \cup Handed
    BY <2>1 DEF Frames, Asking, Handed
  <2>3. TameFrames
    BY <1>4, <2>1, <2>2, BecomeTame, ReturnTame DEF AdvanceTask
  <2>4. UNCHANGED <<spend, autoGrants, now>>
    BY <1>4 DEF AdvanceTask
  <2> QED BY <1>0, <2>3, <2>4, SameRows
<1> QED BY <1>1, <1>2, <1>3, <1>4 DEF Progress

\* So are the wallet's: only its failure for the activation that handed the
\* request over takes it out of the budget.
LEMMA WalletTame ==
  ASSUME BudgetInv, Wallet
  PROVE  Tame
<1> USE DEF Tame, hist
<1>0. now \in Nat /\ StackOK
  BY DEF BudgetInv, TypeOK, WorldOK
<1>1. ASSUME NEW d \in 1..MaxDepth, WalletMoves(d) PROVE Tame
  <2>1. d \in 1..depth /\ frame[d] \in Frames /\ frame[d].pc = "transfer"
    BY <1>0, <1>1 DEF WalletMoves, StackOK
  <2>2. /\ [frame[d] EXCEPT !.pc = "sent"].pc = "sent"
        /\ [frame[d] EXCEPT !.pc = "sent"].s = frame[d].s
    BY <2>1 DEF Frames
  <2>3. /\ frame'[d].pc = "sent" /\ frame'[d].s = frame[d].s /\ depth' = depth
        /\ \A e \in 1..depth : e # d => frame'[e] = frame[e]
    BY <1>0, <1>1, <2>1, <2>2 DEF WalletMoves, StackOK
  <2>4. TameFrames
    BY <2>1, <2>3 DEF TameFrames, Asking, Handed
  <2>5. UNCHANGED <<spend, autoGrants, now>>
    BY <1>1 DEF WalletMoves, db
  <2> QED BY <1>0, <2>4, <2>5, SameRows
<1>2. CASE TransferConfirmed \/ TransferRefused \/ TransferLost
  <2>1. depth > 0 /\ Top.pc \in Handed
    BY <1>2 DEF TransferConfirmed, TransferRefused, TransferLost, At, Handed
  <2>2. depth \in 1..depth /\ Top = frame[depth]
    BY <1>0, <2>1 DEF Top, StackOK
  <2>3. UNCHANGED <<autoGrants, now>>
    BY <1>2 DEF TransferConfirmed, TransferRefused, TransferLost
  <2>4. TameFrames /\ TopLetsGo
    BY <1>2, <2>1, AfterExecuteTame DEF TransferConfirmed, TransferRefused, TransferLost
  <2>5. PICK st \in {"COMPLETED", "TX_FAILED"} : SetSpend(Top.s, st)
    BY <1>2 DEF TransferConfirmed, TransferRefused, TransferLost
  <2>6. ASSUME NEW s \in Spends, s # Top.s PROVE spend'[s] = spend[s]
    BY <2>5, <2>6 DEF SetSpend, BudgetInv, TypeOK, SpendOK
  <2>7. ASSUME NEW s \in Spends, s = Top.s
        PROVE  /\ spend'[s].st = st
               /\ spend'[s].amount = spend[s].amount /\ spend'[s].at = spend[s].at
    BY <2>5, <2>7 DEF SetSpend, BudgetInv, TypeOK, SpendOK, Rows
  <2>8. ASSUME NEW s \in Spends, s = Top.s, autoGrants[s] > 0
        PROVE  spend[s].st # "TX_FAILED" /\ ~Transferred(s)'
    <3>1. spend[s].st # "TX_FAILED"
      BY <2>1, <2>2, <2>8 DEF BudgetInv, AskInv
    <3>2. ASSUME NEW d \in 1..depth', frame'[d].s = s, frame'[d].pc \in Handed
          PROVE  FALSE
      <4>1. d \in 1..depth /\ d # depth /\ frame[d].s = s /\ frame[d].pc \in Handed
        BY <2>4, <3>2 DEF TopLetsGo
      <4> QED BY <2>1, <2>2, <2>8, <4>1 DEF BudgetInv, GateInv
    <3> QED BY <3>1, <3>2 DEF Transferred
  <2>9. TameRows
    <3> SUFFICES ASSUME NEW s \in Spends
                 PROVE  /\ spend[s].st # "none" => spend'[s].st # "none"
                        /\ autoGrants[s] > 0 =>
                             /\ spend'[s].st \in Passed
                             /\ spend'[s].amount = spend[s].amount
                             /\ spend'[s].at = spend[s].at
                             /\ spend[s].st = "TX_FAILED" => spend'[s].st = "TX_FAILED"
                             /\ spend'[s].st = "TX_FAILED" =>
                                  spend[s].st = "TX_FAILED" \/ ~Transferred(s)'
      BY DEF TameRows
    <3>1. CASE s = Top.s
      BY <2>7, <2>8, <3>1 DEF Passed
    <3>2. CASE s # Top.s
      BY <2>6, <3>2 DEF BudgetInv, PassedInv
    <3> QED BY <3>1, <3>2
  <2> QED BY <1>0, <2>3, <2>4, <2>9
<1>3. ASSUME NEW x \in Spends, LateMove(x) \/ LateFailure(x) PROVE Tame
  <2>1. UNCHANGED <<spend, stack, autoGrants, now>>
    BY <1>3 DEF LateMove, LateFailure, db
  <2> QED BY <1>0, <2>1, StackTame, SameRows
<1> QED BY <1>1, <1>2, <1>3 DEF Wallet

\* A fresh request goes to the gate.
LEMMA AskKeeps ==
  ASSUME BudgetInv, TypeOK', NEW x \in Spends, spend[x].st = "none", NEW a,
         spend' = Created(x, a), NEW op, NEW t, Begin(op, "gate", x, t, FALSE, {}),
         UNCHANGED <<autoGrants, now>>
  PROVE  BudgetInv'
<1>1. /\ TypeOK /\ PassedInv /\ AskInv /\ GateInv
      /\ autoGrants \in [Spends -> Nat] /\ StackOK
  BY DEF BudgetInv, TypeOK, HistOK
<1>2. autoGrants[x] = 0
  BY <1>1 DEF PassedInv, Passed
<1>3. /\ spend'[x].st = "CREATED"
      /\ \A s \in Spends : s # x => spend'[s] = spend[s]
  BY <1>1 DEF Created, TypeOK, SpendOK
<1>4. /\ depth' = depth + 1 /\ depth + 1 \in 1..MaxDepth
      /\ frame'[depth + 1].pc = "gate" /\ frame'[depth + 1].s = x
      /\ \A d \in 1..depth : frame'[d] = frame[d]
      /\ \A d \in 1..depth' : d \in 1..depth \/ d = depth + 1
  BY <1>1 DEF Begin, StackOK
<1>5. ASSUME NEW d \in 1..depth PROVE frame[d].pc # "gate"
  <2>1. ASSUME frame[d].pc = "gate" PROVE d = depth /\ depth > 0
    BY <1>1, <2>1 DEF GateInv, StackOK
  <2> QED BY <2>1 DEF Begin, Served, Waiting, Top
<1>6. ASSUME NEW d \in 1..depth, frame[d].s = x
      PROVE  frame[d].pc \notin Asking \cup Handed
  BY <1>1, <1>6 DEF AskInv
<1>7. PassedInv'
  BY <1>1, <1>2, <1>3 DEF PassedInv
<1>8. AskInv'
  <2> SUFFICES ASSUME NEW s \in Spends, NEW d \in 1..depth', frame'[d].s = s
               PROVE  /\ frame'[d].pc \in Asking \cup Handed => spend'[s].st # "none"
                      /\ frame'[d].pc \in Asking => autoGrants[s] = 0
                      /\ frame'[d].pc \in Handed /\ autoGrants[s] > 0
                           => spend'[s].st # "TX_FAILED"
    BY DEF AskInv
  <2>1. CASE d \in 1..depth
    BY <1>1, <1>3, <1>4, <1>6, <2>1 DEF AskInv
  <2>2. CASE d = depth + 1
    BY <1>2, <1>3, <1>4, <2>2
  <2> QED BY <1>4, <2>1, <2>2
<1>9. GateInv'
  <2>1. \A d \in 1..depth' : frame'[d].pc = "gate" => d = depth'
    BY <1>4, <1>5
  <2>2. ASSUME NEW s \in Spends, NEW d \in 1..depth', NEW e \in 1..depth',
               d # e, frame'[d].s = s, frame'[e].s = s
        PROVE  /\ frame'[d].pc = "gate" => frame'[e].pc \notin Asking \cup Handed
               /\ frame'[d].pc \in Handed /\ frame'[e].pc \in Handed => autoGrants[s] = 0
    <3>1. CASE d \in 1..depth /\ e \in 1..depth
      BY <1>1, <1>4, <2>2, <3>1 DEF GateInv
    <3>2. CASE d = depth + 1 /\ e \in 1..depth
      BY <1>2, <1>4, <1>6, <2>2, <3>2
    <3>3. CASE e = depth + 1 /\ d \in 1..depth
      BY <1>2, <1>4, <1>5, <2>2, <3>3
    <3> QED BY <1>4, <2>2, <3>1, <3>2, <3>3
  <2> QED BY <2>1, <2>2 DEF GateInv
<1>10. LimitInv'
  <2>1. Alone' \subseteq Alone /\ \A s \in Alone' : spend'[s].amount = spend[s].amount
    BY <1>2, <1>3 DEF Alone
  <2> QED BY <1>1, <2>1, SmallerKeeps DEF BudgetInv
<1> QED BY <1>7, <1>8, <1>9, <1>10 DEF BudgetInv

\* The running activation hands its request to the wallet.
LEMMA HandOver ==
  ASSUME StackOK, depth > 0, Goto("transfer")
  PROVE  /\ depth \in 1..MaxDepth /\ depth' = depth
         /\ frame'[depth].pc = "transfer" /\ frame'[depth].s = Top.s
         /\ \A d \in 1..depth : d # depth => frame'[d] = frame[d]
<1>1. /\ [Top EXCEPT !.pc = "transfer"].pc = "transfer"
      /\ [Top EXCEPT !.pc = "transfer"].s = Top.s
  BY TopType DEF Frames
<1> QED BY <1>1 DEF Goto, Become, StackOK

\* A request the owner approved was not let through by the limits.
LEMMA ApprovedKeeps ==
  ASSUME BudgetInv, TypeOK', ExecuteApproved
  PROVE  BudgetInv'
<1>1. /\ TypeOK /\ PassedInv /\ AskInv /\ GateInv /\ StackOK /\ SpendOK
      /\ autoGrants \in [Spends -> Nat]
  BY DEF BudgetInv, TypeOK, HistOK
<1>2. /\ depth > 0 /\ Top.pc = "execute" /\ Runnable(Top.s) /\ Goto("transfer")
      /\ SetSpend(Top.s, "EXECUTING") /\ UNCHANGED <<autoGrants, now>>
  BY DEF ExecuteApproved, At, hist
<1>3. /\ depth \in 1..MaxDepth /\ depth' = depth
      /\ frame'[depth].pc = "transfer" /\ frame'[depth].s = Top.s
      /\ \A d \in 1..depth : d # depth => frame'[d] = frame[d]
  BY <1>1, <1>2, HandOver
<1>4. ASSUME NEW s \in Spends, s = Top.s
      PROVE  autoGrants[s] = 0 /\ spend'[s].st = "EXECUTING"
  <2>1. spend[s].st \notin Passed
    BY <1>2, <1>4 DEF Runnable, Passed
  <2>2. autoGrants[s] = 0
    BY <1>1, <2>1 DEF PassedInv
  <2> QED BY <1>1, <1>2, <1>4, <2>2 DEF SetSpend, SpendOK, Rows
<1>5. ASSUME NEW s \in Spends, s # Top.s PROVE spend'[s] = spend[s]
  BY <1>1, <1>2, <1>5 DEF SetSpend, SpendOK
<1>6. ASSUME NEW d \in 1..depth PROVE frame[d].pc # "gate"
  BY <1>1, <1>2, <1>3 DEF GateInv, Top
<1>7. PassedInv'
  BY <1>1, <1>2, <1>4, <1>5 DEF PassedInv
<1>8. AskInv'
  <2> SUFFICES ASSUME NEW s \in Spends, NEW d \in 1..depth, frame'[d].s = s
               PROVE  /\ frame'[d].pc \in Asking \cup Handed => spend'[s].st # "none"
                      /\ frame'[d].pc \in Asking => autoGrants[s] = 0
                      /\ frame'[d].pc \in Handed /\ autoGrants[s] > 0
                           => spend'[s].st # "TX_FAILED"
    BY <1>2, <1>3 DEF AskInv
  <2>1. CASE s = Top.s
    BY <1>4, <2>1
  <2>2. CASE s # Top.s
    BY <1>1, <1>3, <1>5, <2>2 DEF AskInv
  <2> QED BY <2>1, <2>2
<1>9. GateInv'
  <2>1. \A d \in 1..depth' : frame'[d].pc = "gate" => d = depth'
    BY <1>3, <1>6
  <2>2. ASSUME NEW s \in Spends, NEW d \in 1..depth, NEW e \in 1..depth,
               d # e, frame'[d].s = s, frame'[e].s = s
        PROVE  /\ frame'[d].pc # "gate"
               /\ frame'[d].pc \in Handed /\ frame'[e].pc \in Handed => autoGrants[s] = 0
    <3>1. CASE s = Top.s
      BY <1>3, <1>4, <1>6, <3>1
    <3>2. CASE s # Top.s
      BY <1>1, <1>3, <1>6, <2>2, <3>2 DEF GateInv
    <3> QED BY <3>1, <3>2
  <2> QED BY <1>2, <1>3, <2>1, <2>2 DEF GateInv
<1>10. LimitInv'
  <2>1. Alone' \subseteq Alone /\ \A s \in Alone' : spend'[s].amount = spend[s].amount
    <3>1. ASSUME NEW s \in Spends, autoGrants[s] > 0 PROVE spend'[s] = spend[s]
      BY <1>4, <1>5, <3>1
    <3> QED BY <1>2, <3>1 DEF Alone
  <2> QED BY <1>1, <2>1, SmallerKeeps DEF BudgetInv
<1> QED BY <1>7, <1>8, <1>9, <1>10 DEF BudgetInv

\* The gate itself: everything the budget adds but the new request is among what
\* periodSpent has just read, and both together are within the limit.
LEMMA GateKeeps ==
  ASSUME BudgetInv, TypeOK', GateExecute
  PROVE  BudgetInv'
<1>1. /\ TypeOK /\ PassedInv /\ AskInv /\ GateInv /\ StackOK /\ SpendOK
      /\ autoGrants \in [Spends -> Nat] /\ Top \in Frames
  BY TopType DEF BudgetInv, TypeOK, HistOK, GateExecute, At
<1>2. /\ depth > 0 /\ Top.pc = "gate" /\ WithinLimits(Top.s) /\ Goto("transfer")
      /\ SetSpend(Top.s, "EXECUTING") /\ UNCHANGED now
      /\ autoGrants' = [autoGrants EXCEPT ![Top.s] = @ + 1]
  BY DEF GateExecute, At
<1>3. /\ depth \in 1..MaxDepth /\ depth' = depth
      /\ frame'[depth].pc = "transfer" /\ frame'[depth].s = Top.s
      /\ \A d \in 1..depth : d # depth => frame'[d] = frame[d]
  BY <1>1, <1>2, HandOver
<1>4. ASSUME NEW s \in Spends, s = Top.s
      PROVE  /\ spend'[s].st = "EXECUTING" /\ autoGrants'[s] > 0
             /\ spend'[s].amount = spend[s].amount /\ spend'[s].at = spend[s].at
  BY <1>1, <1>2, <1>4 DEF SetSpend, SpendOK, Rows
<1>5. ASSUME NEW s \in Spends, s # Top.s
      PROVE  spend'[s] = spend[s] /\ autoGrants'[s] = autoGrants[s]
  BY <1>1, <1>2, <1>5 DEF SetSpend, SpendOK
<1>6. ASSUME NEW d \in 1..depth, d # depth
      PROVE  /\ frame[d].pc # "gate"
             /\ Top.s \in Spends /\ frame[d].s = Top.s => frame[d].pc \notin Asking \cup Handed
  BY <1>1, <1>2, <1>3, <1>6 DEF GateInv, Top
<1>7. PassedInv'
  BY <1>1, <1>4, <1>5 DEF PassedInv, Passed
<1>8. AskInv'
  <2> SUFFICES ASSUME NEW s \in Spends, NEW d \in 1..depth, frame'[d].s = s,
                      frame'[d].pc \in Asking \cup Handed
               PROVE  /\ spend'[s].st # "none"
                      /\ frame'[d].pc \in Asking => autoGrants'[s] = 0
                      /\ frame'[d].pc \in Handed /\ autoGrants'[s] > 0
                           => spend'[s].st # "TX_FAILED"
    BY <1>3 DEF AskInv
  <2>1. CASE s = Top.s
    <3>1. d = depth
      BY <1>3, <1>6, <2>1
    <3> QED BY <1>3, <1>4, <2>1, <3>1 DEF Asking
  <2>2. CASE s # Top.s
    <3>1. d # depth
      BY <1>3, <2>2
    <3> QED BY <1>1, <1>3, <1>5, <2>2, <3>1 DEF AskInv
  <2> QED BY <2>1, <2>2
<1>9. GateInv'
  <2>1. \A d \in 1..depth' : frame'[d].pc # "gate"
    BY <1>3, <1>6
  <2>2. ASSUME NEW s \in Spends, NEW d \in 1..depth, NEW e \in 1..depth,
               d # e, frame'[d].s = s, frame'[e].s = s,
               frame'[d].pc \in Handed, frame'[e].pc \in Handed
        PROVE  autoGrants'[s] = 0
    <3>1. CASE s = Top.s
      <4>1. d = depth /\ e = depth
        BY <1>3, <1>6, <2>2, <3>1
      <4> QED BY <2>2, <4>1
    <3>2. CASE s # Top.s
      <4>1. d # depth /\ e # depth
        BY <1>3, <2>2, <3>2
      <4> QED BY <1>1, <1>3, <1>5, <2>2, <3>2, <4>1 DEF GateInv
    <3> QED BY <3>1, <3>2
  <2> QED BY <1>3, <2>1, <2>2 DEF GateInv
<1>10. LimitInv'
  <2>1. \A s \in Spends : spend'[s].amount = spend[s].amount /\ spend'[s].at = spend[s].at
    BY <1>4, <1>5
  <2>2. ASSUME NEW s \in Alone', s # Top.s PROVE s \in Recent
    BY <1>1, <1>2, <1>5, <2>2 DEF Alone, Recent, PassedInv, Passed, Committed
  <2>3. CASE Top.s \in Spends
    <3> DEFINE x == Top.s
               S == Recent \cup {x}
    <3>1. /\ Alone' \subseteq S /\ S \in SUBSET Spends /\ Recent \in SUBSET Spends
      BY <2>2, <2>3 DEF Recent
    <3>2. /\ IsFiniteSet(S) /\ Total(spend, S) \in Nat /\ Total(spend, Recent) \in Nat
          /\ \A s \in S : spend[s].amount \in Nat
      BY <1>1, <3>1, AmountsAdd
    <3>3. Total(spend, Recent) + spend[x].amount <= PerPeriodLimit
      BY <1>2, PeriodIs DEF WithinLimits
    <3>4. Total(spend, S) <= Total(spend, Recent) + spend[x].amount
      <4>1. CASE x \in Recent
        <5>1. S = Recent
          BY <4>1
        <5>2. Total(spend, S) = Total(spend, Recent)
          BY <5>1, Zenon
        <5> QED BY <3>2, <5>2
      <4>2. CASE x \notin Recent
        <5>1. S \ {x} = Recent /\ x \in S
          BY <4>2
        <5>2. Total(spend, S) = spend[x].amount + Total(spend, S \ {x})
          BY <3>2, <5>1, TotalTakes
        <5>3. Total(spend, S \ {x}) = Total(spend, Recent)
          BY <5>1, Zenon
        <5> HIDE DEF S, x
        <5> QED BY <3>2, <5>1, <5>2, <5>3
      <4> QED BY <4>1, <4>2
    <3> HIDE DEF S
    <3>5. \A s \in Alone' : spend'[s].amount = spend[s].amount
      BY <2>1 DEF Alone
    <3>6. Total(spend', Alone') <= Total(spend, S)
      BY <3>1, <3>2, <3>5, TotalGrows
    <3>7. Total(spend', Alone') \in Nat
      <4>1. IsFiniteSet(Alone') /\ \A s \in Alone' : spend'[s].amount \in Nat
        BY <3>1, <3>2, <3>5, FS_Subset
      <4> QED BY <4>1, TotalType
    <3>8. spend[x].amount \in Nat
      BY <1>1, <2>3, AmountsAdd
    <3> QED BY <3>2, <3>3, <3>4, <3>6, <3>7, <3>8 DEF LimitInv
  <2>4. CASE Top.s \notin Spends
    <3>1. Alone' \subseteq Alone
      BY <1>2, <1>5, <2>4 DEF Alone
    <3> QED BY <1>1, <2>1, <3>1, SmallerKeeps DEF BudgetInv, Alone
  <2> QED BY <2>3, <2>4
<1> QED BY <1>7, <1>8, <1>9, <1>10 DEF BudgetInv


\* A request that did not exist, or waits for the owner, was not let through.
LEMMA FreshRow ==
  ASSUME BudgetInv, NEW x \in Spends, spend[x].st = "none", NEW row, row.st # "none",
         spend' = [spend EXCEPT ![x] = row]
  PROVE  TameRows
<1>1. ASSUME NEW s \in Spends, s # x PROVE spend'[s] = spend[s]
  BY <1>1 DEF BudgetInv, TypeOK, SpendOK
<1>2. spend'[x] = row
  BY DEF BudgetInv, TypeOK, SpendOK
<1> QED BY <1>1, <1>2, FreeRows DEF Passed

LEMMA DecidedRow ==
  ASSUME BudgetInv, NEW x \in Spends, Decidable(x), NEW st, st # "none", SetSpend(x, st)
  PROVE  TameRows
<1>1. autoGrants[x] = 0
  BY DEF Decidable, BudgetInv, TypeOK, HistOK, PassedInv, Passed
<1> QED BY <1>1, SetFreeRow

LEMMA RejectTame ==
  ASSUME BudgetInv, NEW x \in Spends, Reject(x)
  PROVE  Tame
<1>1. TameRows
  BY DecidedRow DEF Reject
<1>2. TameFrames
  BY BeginTame DEF Reject, Asking, Handed
<1>3. UNCHANGED <<autoGrants, now>> /\ now \in Nat
  BY DEF Reject, hist, BudgetInv, TypeOK, WorldOK
<1> QED BY <1>1, <1>2, <1>3 DEF Tame

LEMMA RequestsBudget ==
  ASSUME BudgetInv, TypeOK', Requests
  PROVE  BudgetInv'
<1> USE DEF hist
<1>0. now \in Nat
  BY DEF BudgetInv, TypeOK, WorldOK
<1>1. ASSUME NEW s \in Spends, NEW a \in Amounts, WalletSend(s, a) PROVE BudgetInv'
  BY <1>1, AskKeeps DEF WalletSend, Fresh
<1>2. ASSUME NEW s \in Spends, NEW a \in Amounts, ProgramCallHeld(s, a) PROVE Tame
  <2>1. TameRows
    BY <1>2, FreshRow DEF ProgramCallHeld, Created, Fresh
  <2>2. TameFrames
    BY <1>2, StackTame DEF ProgramCallHeld
  <2> QED BY <1>0, <1>2, <2>1, <2>2 DEF ProgramCallHeld, Tame
<1>3. ASSUME NEW s \in Spends, Approve(s) PROVE Tame
  <2>1. TameRows
    BY <1>3, DecidedRow DEF Approve
  <2>2. TameFrames
    BY <1>3, BeginTame DEF Approve, Asking, Handed
  <2> QED BY <1>0, <1>3, <2>1, <2>2 DEF Approve, Tame
<1>4. ASSUME NEW s \in Spends, ApproveTooLate(s) PROVE Tame
  <2>1. TameRows
    BY <1>4, DecidedRow DEF ApproveTooLate
  <2>2. TameFrames
    BY <1>4, StackTame DEF ApproveTooLate
  <2> QED BY <1>0, <1>4, <2>1, <2>2 DEF ApproveTooLate, Tame
<1>5. ASSUME NEW s \in Spends, Reject(s) PROVE Tame
  BY <1>5, RejectTame
<1>6. ASSUME ExpireStale PROVE Tame
  <2>1. TameRows
    BY <1>6, ExpiredRows DEF ExpireStale
  <2>2. TameFrames
    BY <1>6, BeginTame DEF ExpireStale, Asking, Handed
  <2> QED BY <1>0, <1>6, <2>1, <2>2 DEF ExpireStale, Tame
<1>7. Tame => BudgetInv'
  BY TameKeeps DEF Tame
<1> QED BY <1>1, <1>2, <1>3, <1>4, <1>5, <1>6, <1>7 DEF Requests

LEMMA TaskProgressTame ==
  ASSUME BudgetInv, TaskProgress
  PROVE  Tame
<1> USE DEF Tame, hist
<1>0. now \in Nat /\ StackOK
  BY DEF BudgetInv, TypeOK, WorldOK
<1>1. CASE ParkTask \/ RecordSettlement \/ Announced
  <2>1. TameFrames
    BY <1>1, ReturnTame DEF ParkTask, RecordSettlement, Announced, At
  <2>2. UNCHANGED <<spend, autoGrants, now>>
    BY <1>1 DEF ParkTask, RecordSettlement, Announced, db
  <2> QED BY <1>0, <2>1, <2>2, SameRows
<1>2. ASSUME NEW x \in Spends, NEW a \in Amounts, HoldInbound(x, a) PROVE Tame
  <2>1. TameRows
    BY <1>2, FreshRow DEF HoldInbound
  <2>2. "announce" \in Pcs \ (Asking \cup Handed)
    BY DEF Pcs, Asking, Handed
  <2>3. TameFrames
    BY <1>2, <2>2, GotoTame DEF HoldInbound, At
  <2> QED BY <1>0, <1>2, <2>1, <2>3 DEF HoldInbound
<1>3. CASE ReleaseHeldSpend
  <2>1. TameRows
    BY <1>3, DecidedRow, SameRows DEF ReleaseHeldSpend
  <2>2. TameFrames
    BY <1>3, ReturnTame DEF ReleaseHeldSpend, At
  <2> QED BY <1>0, <1>3, <2>1, <2>2 DEF ReleaseHeldSpend
<1> QED BY <1>1, <1>2, <1>3 DEF TaskProgress

LEMMA TaskRequestsBudget ==
  ASSUME BudgetInv, TypeOK', TaskRequests
  PROVE  BudgetInv'
<1> USE DEF hist
<1>0. now \in Nat
  BY DEF BudgetInv, TypeOK, WorldOK
<1>1. Tame => BudgetInv'
  BY TameKeeps DEF Tame
<1>2. ASSUME TameFrames, UNCHANGED <<spend, autoGrants, now>> PROVE BudgetInv'
  BY <1>0, <1>1, <1>2, SameRows DEF Tame
<1>3. ASSUME NEW o \in OutTasks, NEW x \in Spends, CompletedPayable(o, x) PROVE BudgetInv'
  BY <1>3, AskKeeps DEF CompletedPayable, Fresh
<1>4. ASSUME NEW o \in OutTasks, RetractHeld(o) PROVE BudgetInv'
  BY <1>1, <1>4, RejectTame DEF RetractHeld
<1>5. ASSUME NEW o \in OutTasks,
             \/ \E price \in Amounts \cup {0} : SubmitTask(o, price)
             \/ CancelTask(o)
             \/ CompletedUnpaid(o)
             \/ \E verdict \in Verdicts : NegativeReply(o, verdict)
      PROVE  BudgetInv'
  <2>1. UNCHANGED <<spend, stack, autoGrants, now>>
    BY <1>5 DEF SubmitTask, CancelTask, CompletedUnpaid, NegativeReply
  <2> QED BY <1>2, <2>1, StackTame
<1>6. ASSUME NEW i \in InTasks, AcceptWalletSend(i) \/ PeerCancels(i) PROVE BudgetInv'
  <2>1. TameFrames
    BY <1>6, BeginTame DEF AcceptWalletSend, PeerCancels, Asking, Handed
  <2>2. UNCHANGED <<spend, autoGrants, now>>
    BY <1>6 DEF AcceptWalletSend, PeerCancels
  <2> QED BY <1>2, <2>1, <2>2
<1>7. ASSUME NEW i \in InTasks, RefuseWalletSend(i) PROVE BudgetInv'
  <2>1. UNCHANGED <<spend, stack, autoGrants, now>>
    BY <1>7 DEF RefuseWalletSend
  <2> QED BY <1>2, <2>1, StackTame
<1> QED BY <1>3, <1>4, <1>5, <1>6, <1>7 DEF TaskRequests

LEMMA RecoveryTame ==
  ASSUME BudgetInv, Recovery \/ Boot
  PROVE  Tame
<1> USE DEF Tame, hist
<1>0. now \in Nat /\ StackOK
  BY DEF BudgetInv, TypeOK, WorldOK
<1>1. ASSUME TameFrames, UNCHANGED <<spend, autoGrants, now>> PROVE Tame
  BY <1>0, <1>1, SameRows
<1>2. {"rearm", "reconcile", "unknown-resume", "unknown-owner", "unknown-reply", "recover"}
        \subseteq Pcs \ (Asking \cup Handed)
  BY DEF Pcs, Asking, Handed
<1>3. CASE HealUnlinked
  <2>1. TameFrames
    BY <1>2, <1>3, GotoTame DEF HealUnlinked, At
  <2> QED BY <1>1, <1>3, <2>1 DEF HealUnlinked
<1>4. CASE ReconcileSettling
  <2>1. depth > 0 /\ Top \in Frames
    BY <1>0, <1>4, TopType DEF ReconcileSettling, At
  <2> DEFINE f == [Top EXCEPT !.pc = "unknown",
                              !.todo = {s \in Spends : spend[s].st = "EXECUTING"}]
  <2>2. f.pc \notin Asking \cup Handed
    BY <2>1 DEF Frames, Asking, Handed
  <2>3. Become(f) /\ UNCHANGED <<spend, autoGrants, now>>
    BY <1>4 DEF ReconcileSettling
  <2> HIDE DEF f
  <2> QED BY <1>1, <2>1, <2>2, <2>3, BecomeTame
<1>5. ASSUME NEW x \in Spends, MarkUnknown(x) PROVE Tame
  <2>1. depth > 0 /\ Top \in Frames /\ Top.pc = "unknown"
    BY <1>0, <1>5, TopType DEF MarkUnknown, At
  <2>2. /\ [Top EXCEPT !.s = x, !.pc = "unknown-advance"].pc \notin Asking \cup Handed
        /\ [Top EXCEPT !.todo = @ \ {x}].pc \notin Asking \cup Handed
    BY <2>1 DEF Frames, Asking, Handed
  <2>3. TameFrames
    BY <1>5, <2>1, <2>2, BecomeTame DEF MarkUnknown
  <2>4. TameRows
    <3>1. CASE spend[x].st = "EXECUTING" /\ SetSpend(x, "TX_UNKNOWN")
      <4>1. ASSUME NEW s \in Spends, s # x PROVE spend'[s] = spend[s]
        BY <3>1, <4>1 DEF SetSpend, BudgetInv, TypeOK, SpendOK
      <4>2. /\ spend'[x].st = "TX_UNKNOWN"
            /\ spend'[x].amount = spend[x].amount /\ spend'[x].at = spend[x].at
        BY <3>1 DEF SetSpend, BudgetInv, TypeOK, SpendOK, Rows
      <4> QED BY <3>1, <4>1, <4>2 DEF TameRows, BudgetInv, PassedInv, Passed
    <3>2. CASE UNCHANGED spend
      BY <3>2, SameRows
    <3> QED BY <1>5, <3>1, <3>2 DEF MarkUnknown
  <2>5. UNCHANGED <<autoGrants, now>>
    BY <1>5 DEF MarkUnknown
  <2> QED BY <1>0, <2>3, <2>4, <2>5
<1>6. CASE UnknownAdvance \/ UnknownResume
  <2>1. TameFrames
    BY <1>2, <1>6, GotoTame DEF UnknownAdvance, UnknownResume, At
  <2> QED BY <1>1, <1>6, <2>1 DEF UnknownAdvance, UnknownResume
<1>7. CASE SurfaceUnknown
  <2>1. depth > 0 /\ Top \in Frames
    BY <1>0, <1>7, TopType DEF SurfaceUnknown, At
  <2>2. [Top EXCEPT !.todo = @ \ {Top.s}, !.pc = "unknown"].pc \notin Asking \cup Handed
    BY <2>1 DEF Frames, Asking, Handed
  <2>3. TameFrames
    BY <1>7, <2>1, <2>2, BecomeTame DEF SurfaceUnknown
  <2> QED BY <1>1, <1>7, <2>3 DEF SurfaceUnknown, db
<1>8. CASE LoadIdentity
  <2>1. TameFrames
    BY <1>2, <1>8, GotoTame DEF LoadIdentity, At
  <2> QED BY <1>1, <1>8, <2>1 DEF LoadIdentity, db
<1>9. CASE RecoverPending
  <2>1. depth > 0 /\ Top \in Frames
    BY <1>0, <1>9, TopType DEF RecoverPending, At
  <2>2. [Top EXCEPT !.pc = "notify", !.todo = StaleSpends].pc \notin Asking \cup Handed
    BY <2>1 DEF Frames, Asking, Handed
  <2>3. TameFrames
    BY <1>9, <2>1, <2>2, BecomeTame, ReturnTame DEF RecoverPending
  <2>4. TameRows
    BY <1>9, ExpiredRows DEF RecoverPending
  <2> QED BY <1>0, <1>9, <2>3, <2>4 DEF RecoverPending
<1>10. CASE Boot
  <2>1. TameFrames
    BY <1>10, BeginTame DEF Boot, Asking, Handed
  <2> QED BY <1>1, <1>10, <2>1 DEF Boot
<1> QED BY <1>3, <1>4, <1>5, <1>6, <1>7, <1>8, <1>9, <1>10 DEF Recovery

LEMMA CrashTame ==
  ASSUME BudgetInv, Crash \/ Tick \/ UNCHANGED agentVars
  PROVE  Tame
<1> USE DEF Tame, hist, db
<1>0. now \in Nat
  BY DEF BudgetInv, TypeOK, WorldOK
<1>1. CASE Crash
  <2>1. TameFrames
    BY <1>1 DEF Crash, TameFrames
  <2>2. UNCHANGED <<spend, autoGrants, now>>
    BY <1>1 DEF Crash
  <2> QED BY <1>0, <2>1, <2>2, SameRows
<1>2. CASE Tick
  <2>1. TameFrames
    BY <1>2, StackTame DEF Tick
  <2>2. UNCHANGED <<spend, autoGrants>> /\ now' = now + 1
    BY <1>2 DEF Tick
  <2> QED BY <1>0, <2>1, <2>2, SameRows
<1>3. CASE UNCHANGED agentVars
  <2>1. UNCHANGED <<spend, stack, autoGrants, now>>
    BY <1>3 DEF agentVars, vars, stack
  <2> QED BY <1>0, <2>1, StackTame, SameRows
<1> QED BY <1>1, <1>2, <1>3

\* Nothing is spent at first.
LEMMA BudgetStart ==
  ASSUME AgentInit
  PROVE  LimitInv /\ PassedInv /\ AskInv /\ GateInv
<1>1. depth = 0 /\ \A s \in Spends : autoGrants[s] = 0
  BY DEF AgentInit, Init
<1>2. Alone = {}
  BY <1>1 DEF Alone
<1>3. Total(spend, Alone) = 0
  BY <1>2, TotalEmpty, Zenon
<1> QED BY <1>1, <1>3 DEF LimitInv, PassedInv, AskInv, GateInv

LEMMA BudgetStep ==
  ASSUME BudgetInv, TypeOK', [AgentNext]_agentVars
  PROVE  BudgetInv'
<1>1. Tame => BudgetInv'
  BY TameKeeps DEF Tame
<1>2. CASE GateExecute
  BY <1>2, GateKeeps
<1>3. CASE ExecuteApproved
  BY <1>3, ApprovedKeeps
<1>4. CASE Progress /\ ~GateExecute /\ ~ExecuteApproved
  BY <1>1, <1>4, ProgressTame
<1>5. CASE Wallet
  BY <1>1, <1>5, WalletTame
<1>6. CASE Requests
  BY <1>6, RequestsBudget
<1>7. CASE TaskProgress
  BY <1>1, <1>7, TaskProgressTame
<1>8. CASE TaskRequests
  BY <1>8, TaskRequestsBudget
<1>9. CASE Recovery \/ Boot
  BY <1>1, <1>9, RecoveryTame
<1>10. CASE Crash \/ Tick \/ UNCHANGED agentVars
  BY <1>1, <1>10, CrashTame
<1> QED
  BY <1>2, <1>3, <1>4, <1>5, <1>6, <1>7, <1>8, <1>9, <1>10
  DEF AgentNext, TaskNext, SpendingNext

\* However settlements, sends, approvals and expiries nest, whatever the wallet
\* answers, and across crashes, what the limits let through in any period adds up
\* to no more than spend_limit_per_period (periodSpent, walletSend).
THEOREM SpendsWithinBudget == Spec => []AutonomousWithinBudget
<1>1. AgentInit /\ AgentTypeOK => BudgetInv
  BY BudgetStart DEF AgentTypeOK, BudgetInv
<1>2. BudgetInv /\ AgentTypeOK' /\ [AgentNext]_agentVars => BudgetInv'
  BY BudgetStep DEF AgentTypeOK
<1>3. BudgetInv => AutonomousWithinBudget
  BY BudgetIs DEF BudgetInv
<1> QED BY <1>1, <1>2, <1>3, TypeCorrect, PTL DEF Spec
===============================================================================
