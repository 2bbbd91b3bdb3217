-------------------------- MODULE PilotAgentProofs --------------------------
(***************************************************************************)
(* Theorems about PilotAgent, for every value of its constants.            *)
(***************************************************************************)
EXTENDS PilotAgent, FiniteSetTheorems, TLAPS

USE SpendingAssumption, CrashAssumption

-------------------------------------------------------------------------------
(***************************************************************************)
(* Type correctness.  The lemmas say it of the operators that the actions  *)
(* are built from.                                                         *)
(***************************************************************************)
LEMMA SetSpendType ==
  ASSUME SpendOK, NEW s, NEW st \in SpendStates, SetSpend(s, st)
  PROVE  SpendOK'
BY DEF SpendOK, SetSpend, Rows

LEMMA CreatedType ==
  ASSUME SpendOK, WorldOK, NEW s \in Spends, NEW a \in Amounts \cup {0},
         spend' = Created(s, a)
  PROVE  SpendOK'
BY DEF SpendOK, WorldOK, Created, Rows, SpendStates

LEMMA ExpiredType ==
  ASSUME SpendOK, NEW S, spend' = AllExpired(S)
  PROVE  SpendOK'
BY DEF SpendOK, AllExpired, Rows, SpendStates

LEMMA SetOutType ==
  ASSUME OutOK, NEW o, NEW st \in OutStates, SetOut(o, st)
  PROVE  OutOK'
BY DEF OutOK, SetOut

LEMMA AdvanceType ==
  ASSUME OutOK, NEW s, NEW st \in OutStates, out' = AdvanceLinked(s, st)
  PROVE  OutOK'
BY DEF OutOK, AdvanceLinked

LEMMA SetInbType ==
  ASSUME InbOK, NEW i, NEW st \in InStates, SetInb(i, st)
  PROVE  InbOK'
BY DEF InbOK, SetInb

LEMMA ResumeType ==
  ASSUME InbOK, NEW s, NEW ok \in BOOLEAN, inb' = ResumeInbound(s, ok)
  PROVE  InbOK'
BY DEF InbOK, ResumeInbound, InStates

LEMMA TopType ==
  ASSUME StackOK, depth > 0
  PROVE  depth \in 1..MaxDepth /\ Top \in Frames
BY DEF StackOK, Top

LEMMA BecomeType ==
  ASSUME StackOK, depth > 0, NEW f \in Frames, Become(f)
  PROVE  StackOK'
BY DEF StackOK, Become

LEMMA GotoType ==
  ASSUME StackOK, depth > 0, NEW pc \in Pcs, Goto(pc)
  PROVE  StackOK'
<1>1. [Top EXCEPT !.pc = pc] \in Frames
  BY TopType DEF Frames
<1> QED BY <1>1, BecomeType DEF Goto

LEMMA ReturnType ==
  ASSUME StackOK, depth > 0, Return
  PROVE  StackOK'
BY DEF StackOK, Return, Frames, Idle, Ops, Pcs

LEMMA BeginType ==
  ASSUME StackOK,
         NEW op, NEW pc, NEW s, NEW t, NEW ok, NEW todo, Begin(op, pc, s, t, ok, todo),
         [op |-> op, pc |-> pc, s |-> s, t |-> t, ok |-> ok, todo |-> todo] \in Frames
  PROVE  StackOK'
BY DEF StackOK, Begin

LEMMA AfterExecuteType ==
  ASSUME StackOK, depth > 0, NEW ok \in BOOLEAN, AfterExecute(ok)
  PROVE  StackOK'
<1>1. /\ [Top EXCEPT !.pc = "notify", !.ok = ok, !.todo = {Top.s}] \in Frames
      /\ [Top EXCEPT !.pc = "record", !.ok = ok] \in Frames
  BY TopType DEF Frames, Pcs
<1>2. CASE Return
  BY <1>2, ReturnType
<1>3. CASE Become([Top EXCEPT !.pc = "notify", !.ok = ok, !.todo = {Top.s}])
  BY <1>1, <1>3, BecomeType
<1>4. CASE Become([Top EXCEPT !.pc = "record", !.ok = ok])
  BY <1>1, <1>4, BecomeType
<1> QED BY <1>2, <1>3, <1>4 DEF AfterExecute

LEMMA BumpType ==
  ASSUME NEW f \in [Spends -> Nat], NEW s
  PROVE  [f EXCEPT ![s] = @ + 1] \in [Spends -> Nat]
<1>1. CASE s \in Spends
  BY <1>1
<1>2. CASE s \notin Spends
  BY <1>2
<1> QED BY <1>1, <1>2

LEMMA ProgressType ==
  ASSUME TypeOK, Progress
  PROVE  TypeOK'
<1> USE DEF TypeOK
<1>1. CASE GateExecute
  <2>1. SpendOK' /\ StackOK'
    BY <1>1, SetSpendType, GotoType DEF GateExecute, At, SpendStates, Pcs
  <2>2. HistOK'
    BY <1>1, BumpType DEF GateExecute, HistOK
  <2> QED BY <1>1, <2>1, <2>2 DEF GateExecute, OutOK, InbOK, WorldOK
<1>2. CASE \E notified \in BOOLEAN : GateHold(notified)
  <2>1. SpendOK' /\ StackOK'
    BY <1>2, SetSpendType, GotoType, ReturnType
    DEF GateHold, AfterHold, At, SpendStates, Pcs
  <2> QED BY <1>2, <2>1 DEF GateHold, OutOK, InbOK, WorldOK, HistOK, hist
<1>3. CASE HoldNotified
  <2>1. SpendOK' /\ StackOK'
    BY <1>3, SetSpendType, GotoType, ReturnType
    DEF HoldNotified, AfterHold, At, SpendStates, Pcs
  <2> QED BY <1>3, <2>1 DEF HoldNotified, OutOK, InbOK, WorldOK, HistOK, hist
<1>4. CASE ExecuteApproved
  <2>1. SpendOK' /\ StackOK'
    BY <1>4, SetSpendType, GotoType DEF ExecuteApproved, At, SpendStates, Pcs
  <2> QED BY <1>4, <2>1 DEF ExecuteApproved, OutOK, InbOK, WorldOK, HistOK, hist
<1>5. ASSUME NEW s \in Spends, ResumeTask(s) PROVE TypeOK'
  <2>1. Top \in Frames /\ depth > 0
    BY <1>5, TopType DEF ResumeTask, At
  <2>2. InbOK'
    BY <1>5, <2>1, ResumeType DEF ResumeTask, Frames
  <2>3. [Top EXCEPT !.s = s,
           !.pc = IF ParkedFor(s) = {} THEN "advance" ELSE "replying"] \in Frames
    BY <2>1 DEF Frames, Pcs
  <2>4. StackOK'
    BY <1>5, <2>1, <2>3, BecomeType DEF ResumeTask
  <2> QED BY <1>5, <2>2, <2>4 DEF ResumeTask, SpendOK, OutOK, WorldOK, HistOK, hist
<1>6. CASE AdvanceTask
  <2>1. Top \in Frames /\ depth > 0
    BY <1>6, TopType DEF AdvanceTask, At
  <2>2. OutOK'
    BY <1>6, AdvanceType DEF AdvanceTask, OutStates
  <2>3. [Top EXCEPT !.todo = @ \ {Top.s}, !.pc = "notify"] \in Frames
    BY <2>1 DEF Frames, Pcs
  <2>4. StackOK'
    BY <1>6, <2>1, <2>3, BecomeType, ReturnType DEF AdvanceTask
  <2> QED BY <1>6, <2>2, <2>4 DEF AdvanceTask, SpendOK, InbOK, WorldOK, HistOK, hist
<1> QED BY <1>1, <1>2, <1>3, <1>4, <1>5, <1>6 DEF Progress

LEMMA WalletType ==
  ASSUME TypeOK, Wallet
  PROVE  TypeOK'
<1> USE DEF TypeOK
<1>1. ASSUME NEW d \in 1..MaxDepth, WalletMoves(d) PROVE TypeOK'
  <2>1. [frame[d] EXCEPT !.pc = "sent"] \in Frames
    BY DEF StackOK, Frames, Pcs
  <2>2. StackOK'
    BY <1>1, <2>1 DEF WalletMoves, StackOK
  <2>3. HistOK'
    BY <1>1, BumpType DEF WalletMoves, HistOK
  <2> QED BY <1>1, <2>2, <2>3 DEF WalletMoves, SpendOK, OutOK, InbOK, WorldOK, db
<1>2. CASE TransferConfirmed
  <2>1. SpendOK' /\ StackOK'
    BY <1>2, SetSpendType, AfterExecuteType DEF TransferConfirmed, At, SpendStates
  <2> QED BY <1>2, <2>1 DEF TransferConfirmed, OutOK, InbOK, WorldOK, HistOK, hist
<1>3. CASE TransferRefused
  <2>1. SpendOK' /\ StackOK'
    BY <1>3, SetSpendType, AfterExecuteType DEF TransferRefused, At, SpendStates
  <2> QED BY <1>3, <2>1 DEF TransferRefused, OutOK, InbOK, WorldOK, HistOK, hist
<1>4. CASE TransferLost
  <2>1. SpendOK' /\ StackOK'
    BY <1>4, SetSpendType, AfterExecuteType DEF TransferLost, At, SpendStates
  <2>2. WorldOK'
    BY <1>4, BumpType DEF TransferLost, WorldOK
  <2> QED BY <1>4, <2>1, <2>2 DEF TransferLost, OutOK, InbOK, HistOK, hist
<1>5. ASSUME NEW s \in Spends, LateMove(s) \/ LateFailure(s) PROVE TypeOK'
  <2>1. WorldOK' /\ HistOK'
    BY <1>5 DEF LateMove, LateFailure, WorldOK, HistOK, hist
  <2> QED BY <1>5, <2>1 DEF LateMove, LateFailure, SpendOK, OutOK, InbOK, StackOK, db, stack
<1> QED BY <1>1, <1>2, <1>3, <1>4, <1>5 DEF Wallet

LEMMA RequestsType ==
  ASSUME TypeOK, Requests
  PROVE  TypeOK'
<1> USE DEF TypeOK
<1>1. ASSUME NEW s \in Spends, NEW a \in Amounts, WalletSend(s, a) PROVE TypeOK'
  <2>1. SpendOK'
    BY <1>1, CreatedType DEF WalletSend
  <2>2. StackOK'
    BY <1>1, BeginType DEF WalletSend, Frames, Ops, Pcs
  <2> QED BY <1>1, <2>1, <2>2 DEF WalletSend, OutOK, InbOK, WorldOK, HistOK, hist
<1>2. ASSUME NEW s \in Spends, NEW a \in Amounts, ProgramCallHeld(s, a) PROVE TypeOK'
  <2>1. SpendOK'
    BY <1>2, CreatedType DEF ProgramCallHeld
  <2> QED BY <1>2, <2>1 DEF ProgramCallHeld, OutOK, InbOK, StackOK, WorldOK, HistOK, hist, stack
<1>3. ASSUME NEW s \in Spends, Approve(s) PROVE TypeOK'
  <2>1. SpendOK'
    BY <1>3, SetSpendType DEF Approve, SpendStates
  <2>2. StackOK'
    BY <1>3, BeginType DEF Approve, Frames, Ops, Pcs
  <2>3. HistOK'
    BY <1>3 DEF Approve, HistOK
  <2> QED BY <1>3, <2>1, <2>2, <2>3 DEF Approve, OutOK, InbOK, WorldOK
<1>4. ASSUME NEW s \in Spends, ApproveTooLate(s) PROVE TypeOK'
  <2>1. SpendOK'
    BY <1>4, SetSpendType DEF ApproveTooLate, SpendStates
  <2> QED BY <1>4, <2>1 DEF ApproveTooLate, OutOK, InbOK, StackOK, WorldOK, HistOK, hist, stack
<1>5. ASSUME NEW s \in Spends, Reject(s) PROVE TypeOK'
  <2>1. SpendOK'
    BY <1>5, SetSpendType DEF Reject, SpendStates
  <2>2. StackOK'
    BY <1>5, BeginType DEF Reject, Frames, Ops, Pcs
  <2> QED BY <1>5, <2>1, <2>2 DEF Reject, OutOK, InbOK, WorldOK, HistOK, hist
<1>6. CASE ExpireStale
  <2>1. SpendOK'
    BY <1>6, ExpiredType DEF ExpireStale
  <2>2. StackOK'
    BY <1>6, BeginType DEF ExpireStale, StaleSpends, Frames, Ops, Pcs
  <2> QED BY <1>6, <2>1, <2>2 DEF ExpireStale, OutOK, InbOK, WorldOK, HistOK, hist
<1> QED BY <1>1, <1>2, <1>3, <1>4, <1>5, <1>6 DEF Requests

LEMMA TaskProgressType ==
  ASSUME TypeOK, TaskProgress
  PROVE  TypeOK'
<1> USE DEF TypeOK
<1>1. CASE ParkTask
  <2>1. OutOK' /\ StackOK'
    BY <1>1, SetOutType, ReturnType DEF ParkTask, At, OutStates
  <2> QED BY <1>1, <2>1 DEF ParkTask, SpendOK, InbOK, WorldOK, HistOK, hist
<1>2. CASE RecordSettlement
  <2>1. OutOK' /\ StackOK'
    BY <1>2, SetOutType, ReturnType DEF RecordSettlement, At, OutStates
  <2> QED BY <1>2, <2>1 DEF RecordSettlement, SpendOK, InbOK, WorldOK, HistOK, hist
<1>3. ASSUME NEW s \in Spends, NEW a \in Amounts, HoldInbound(s, a) PROVE TypeOK'
  <2>1. SpendOK'
    BY <1>3 DEF HoldInbound, SpendOK, WorldOK, Rows, SpendStates
  <2>2. InbOK'
    BY <1>3 DEF HoldInbound, InbOK, InStates
  <2>3. StackOK'
    BY <1>3, GotoType DEF HoldInbound, At, Pcs
  <2> QED BY <1>3, <2>1, <2>2, <2>3 DEF HoldInbound, OutOK, WorldOK, HistOK, hist
<1>4. CASE Announced
  <2>1. StackOK'
    BY <1>4, ReturnType DEF Announced, At
  <2> QED BY <1>4, <2>1 DEF Announced, SpendOK, OutOK, InbOK, WorldOK, HistOK, hist, db
<1>5. CASE ReleaseHeldSpend
  <2>1. SpendOK'
    BY <1>5, SetSpendType DEF ReleaseHeldSpend, SpendOK, SpendStates
  <2>2. StackOK'
    BY <1>5, ReturnType DEF ReleaseHeldSpend, At
  <2> QED BY <1>5, <2>1, <2>2 DEF ReleaseHeldSpend, OutOK, InbOK, WorldOK, HistOK, hist
<1> QED BY <1>1, <1>2, <1>3, <1>4, <1>5 DEF TaskProgress

LEMMA OutRequestsType ==
  ASSUME TypeOK, NEW o \in OutTasks,
         \/ \E price \in Amounts \cup {0} : SubmitTask(o, price)
         \/ CancelTask(o)
         \/ CompletedUnpaid(o)
         \/ \E s \in Spends : CompletedPayable(o, s)
         \/ \E verdict \in Verdicts : NegativeReply(o, verdict)
         \/ RetractHeld(o)
  PROVE  TypeOK'
<1> USE DEF TypeOK
<1>1. ASSUME NEW price \in Amounts \cup {0}, SubmitTask(o, price) PROVE TypeOK'
  <2>1. OutOK'
    BY <1>1 DEF SubmitTask, OutOK, OutStates
  <2> QED BY <1>1, <2>1 DEF SubmitTask, SpendOK, InbOK, StackOK, WorldOK, HistOK, hist, stack
<1>2. CASE CancelTask(o)
  <2>1. OutOK'
    BY <1>2, SetOutType DEF CancelTask, OutStates
  <2> QED BY <1>2, <2>1 DEF CancelTask, SpendOK, InbOK, StackOK, WorldOK, HistOK, hist, stack
<1>3. CASE CompletedUnpaid(o)
  <2>1. OutOK'
    BY <1>3, SetOutType DEF CompletedUnpaid, OutStates
  <2> QED BY <1>3, <2>1 DEF CompletedUnpaid, SpendOK, InbOK, StackOK, WorldOK, HistOK, hist, stack
<1>4. ASSUME NEW s \in Spends, CompletedPayable(o, s) PROVE TypeOK'
  <2>1. out[o].price \in Amounts \cup {0}
    BY DEF OutOK
  <2>2. SpendOK'
    BY <1>4, <2>1, CreatedType DEF CompletedPayable
  <2>3. OutOK'
    BY <1>4 DEF CompletedPayable, OutOK, OutStates
  <2>4. StackOK'
    BY <1>4, BeginType DEF CompletedPayable, Frames, Ops, Pcs
  <2> QED BY <1>4, <2>2, <2>3, <2>4 DEF CompletedPayable, InbOK, WorldOK, HistOK, hist
<1>5. ASSUME NEW verdict \in Verdicts, NegativeReply(o, verdict) PROVE TypeOK'
  <2>1. OutOK'
    BY <1>5, SetOutType DEF NegativeReply, OutStates, Verdicts
  <2> QED BY <1>5, <2>1 DEF NegativeReply, SpendOK, InbOK, StackOK, WorldOK, HistOK, hist, stack
<1>6. CASE RetractHeld(o)
  <2>1. Requests
    BY <1>6 DEF RetractHeld, Requests
  <2> QED BY <2>1, RequestsType
<1> QED BY <1>1, <1>2, <1>3, <1>4, <1>5, <1>6

LEMMA InRequestsType ==
  ASSUME TypeOK, NEW i \in InTasks,
         AcceptWalletSend(i) \/ RefuseWalletSend(i) \/ PeerCancels(i)
  PROVE  TypeOK'
<1> USE DEF TypeOK
<1>1. CASE AcceptWalletSend(i)
  <2>1. InbOK'
    BY <1>1, SetInbType DEF AcceptWalletSend, InStates
  <2>2. StackOK'
    BY <1>1, BeginType DEF AcceptWalletSend, Frames, Ops, Pcs
  <2> QED BY <1>1, <2>1, <2>2 DEF AcceptWalletSend, SpendOK, OutOK, WorldOK, HistOK, hist
<1>2. CASE RefuseWalletSend(i)
  <2>1. InbOK'
    BY <1>2, SetInbType DEF RefuseWalletSend, InStates
  <2> QED BY <1>2, <2>1 DEF RefuseWalletSend, SpendOK, OutOK, StackOK, WorldOK, HistOK, hist, stack
<1>3. CASE PeerCancels(i)
  <2>1. InbOK'
    BY <1>3, SetInbType DEF PeerCancels, InStates
  <2>2. inb[i].s \in Spends \cup {None}
    BY DEF InbOK
  <2>3. StackOK'
    BY <1>3, <2>2, BeginType DEF PeerCancels, Frames, Ops, Pcs
  <2> QED BY <1>3, <2>1, <2>3 DEF PeerCancels, SpendOK, OutOK, WorldOK, HistOK, hist
<1> QED BY <1>1, <1>2, <1>3

LEMMA TaskNextType ==
  ASSUME TypeOK, TaskNext
  PROVE  TypeOK'
<1>1. CASE Tick
  BY <1>1 DEF Tick, TypeOK, SpendOK, OutOK, InbOK, StackOK, WorldOK, HistOK, db, stack, hist
<1> QED
  BY <1>1, ProgressType, WalletType, RequestsType, TaskProgressType, OutRequestsType,
     InRequestsType
  DEF TaskNext, SpendingNext, TaskRequests

LEMMA RecoveryType ==
  ASSUME TypeOK, Recovery
  PROVE  TypeOK'
<1> USE DEF TypeOK
<1>1. CASE HealUnlinked
  <2>1. OutOK'
    BY <1>1 DEF HealUnlinked, OutOK, OutStates
  <2>2. StackOK'
    BY <1>1, GotoType DEF HealUnlinked, At, Pcs
  <2> QED BY <1>1, <2>1, <2>2 DEF HealUnlinked, SpendOK, InbOK, WorldOK, HistOK, hist
<1>2. CASE ReconcileSettling
  <2>1. OutOK'
    BY <1>2 DEF ReconcileSettling, OutOK, OutStates, Reconciled
  <2>2. Top \in Frames /\ depth > 0
    BY <1>2, TopType DEF ReconcileSettling, At
  <2>3. [Top EXCEPT !.pc = "unknown", !.todo = {s \in Spends : spend[s].st = "EXECUTING"}]
          \in Frames
    BY <2>2 DEF Frames, Pcs
  <2>4. StackOK'
    BY <1>2, <2>2, <2>3, BecomeType DEF ReconcileSettling
  <2> QED BY <1>2, <2>1, <2>4 DEF ReconcileSettling, SpendOK, InbOK, WorldOK, HistOK, hist
<1>3. ASSUME NEW s \in Spends, MarkUnknown(s) PROVE TypeOK'
  <2>1. SpendOK'
    BY <1>3, SetSpendType DEF MarkUnknown, SpendOK, SpendStates
  <2>2. Top \in Frames /\ depth > 0
    BY <1>3, TopType DEF MarkUnknown, At
  <2>3. /\ [Top EXCEPT !.s = s, !.pc = "unknown-advance"] \in Frames
        /\ [Top EXCEPT !.todo = @ \ {s}] \in Frames
    BY <2>2 DEF Frames, Pcs
  <2>4. StackOK'
    BY <1>3, <2>2, <2>3, BecomeType DEF MarkUnknown
  <2> QED BY <1>3, <2>1, <2>4 DEF MarkUnknown, OutOK, InbOK, WorldOK, HistOK, hist
<1>4. CASE UnknownAdvance
  <2>1. OutOK' /\ StackOK'
    BY <1>4, AdvanceType, GotoType DEF UnknownAdvance, At, OutStates, Pcs
  <2> QED BY <1>4, <2>1 DEF UnknownAdvance, SpendOK, InbOK, WorldOK, HistOK, hist
<1>5. CASE UnknownResume
  <2>1. InbOK' /\ StackOK'
    BY <1>5, ResumeType, GotoType DEF UnknownResume, At, Pcs
  <2> QED BY <1>5, <2>1 DEF UnknownResume, SpendOK, OutOK, WorldOK, HistOK, hist
<1>6. CASE SurfaceUnknown
  <2>1. Top \in Frames /\ depth > 0
    BY <1>6, TopType DEF SurfaceUnknown, At
  <2>2. [Top EXCEPT !.todo = @ \ {Top.s}, !.pc = "unknown"] \in Frames
    BY <2>1 DEF Frames, Pcs
  <2>3. StackOK'
    BY <1>6, <2>1, <2>2, BecomeType DEF SurfaceUnknown
  <2>4. HistOK'
    BY <1>6, <2>1 DEF SurfaceUnknown, HistOK, Frames
  <2> QED BY <1>6, <2>3, <2>4 DEF SurfaceUnknown, SpendOK, OutOK, InbOK, WorldOK, db
<1>7. CASE LoadIdentity
  <2>1. StackOK'
    BY <1>7, GotoType DEF LoadIdentity, At, Pcs
  <2> QED BY <1>7, <2>1 DEF LoadIdentity, SpendOK, OutOK, InbOK, WorldOK, HistOK, db, hist
<1>8. CASE RecoverPending
  <2>1. Top \in Frames /\ depth > 0
    BY <1>8, TopType DEF RecoverPending, At
  <2>2. [Top EXCEPT !.pc = "notify", !.todo = StaleSpends] \in Frames
    BY <2>1 DEF Frames, Pcs, StaleSpends
  <2>3. SpendOK' /\ StackOK'
    BY <1>8, <2>1, <2>2, ExpiredType, BecomeType, ReturnType DEF RecoverPending
  <2> QED BY <1>8, <2>3 DEF RecoverPending, OutOK, InbOK, WorldOK, HistOK, hist
<1> QED BY <1>1, <1>2, <1>3, <1>4, <1>5, <1>6, <1>7, <1>8 DEF Recovery

\* Transferring(s) and InFlight(s) are finite: they are sets of stack levels.
LEMMA LevelsFinite ==
  ASSUME StackOK, NEW S, S \subseteq 1..depth
  PROVE  IsFiniteSet(S) /\ Cardinality(S) \in Nat
<1>1. IsFiniteSet(1..depth)
  BY FS_Interval DEF StackOK
<1> QED BY <1>1, FS_Subset, FS_CardinalityType

LEMMA CrashType ==
  ASSUME TypeOK, Crash
  PROVE  TypeOK'
<1> USE DEF TypeOK
<1>1. StackOK'
  BY DEF Crash, StackOK, Frames, Idle, Ops, Pcs
<1>2. \A s \in Spends : Cardinality(Transferring(s)) \in Nat
  BY LevelsFinite DEF Transferring
<1>3. WorldOK'
  BY <1>2 DEF Crash, WorldOK
<1> QED BY <1>1, <1>3 DEF Crash, SpendOK, OutOK, InbOK, HistOK, db, hist

LEMMA BootType ==
  ASSUME TypeOK, Boot
  PROVE  TypeOK'
<1> USE DEF TypeOK
<1>1. InbOK'
  BY DEF Boot, InbOK, InStates
<1>2. StackOK'
  BY BeginType DEF Boot, Frames, Ops, Pcs
<1> QED BY <1>1, <1>2 DEF Boot, SpendOK, OutOK, WorldOK, HistOK, hist

\* The state stays within its types, however calls nest and wherever the
\* process dies.
THEOREM TypeCorrect == Spec => []AgentTypeOK
<1>1. AgentInit => AgentTypeOK
  BY DEF AgentInit, AgentTypeOK, Init, TypeOK, SpendOK, OutOK, InbOK, StackOK, WorldOK,
         HistOK, Rows, SpendStates, OutStates, InStates, Frames, Idle, Ops, Pcs
<1>2. AgentTypeOK /\ [AgentNext]_agentVars => AgentTypeOK'
  <2> SUFFICES ASSUME AgentTypeOK, [AgentNext]_agentVars PROVE AgentTypeOK'
    OBVIOUS
  <2> USE DEF AgentTypeOK
  <2>1. CASE TaskNext /\ UNCHANGED life
    BY <2>1, TaskNextType DEF life
  <2>2. CASE Crash
    <3>1. crashes' \in 0..MaxCrashes
      BY <2>2 DEF Crash
    <3>2. cut' \subseteq (Spends \cup {None}) \X Halves
      <4>1. \A d \in 1..depth : frame[d].s \in Spends \cup {None}
        BY DEF TypeOK, StackOK, Frames
      <4> QED BY <2>2, <4>1 DEF Crash
    <3> QED BY <2>2, <3>1, <3>2, CrashType
  <2>3. CASE Boot
    BY <2>3, BootType DEF Boot, life
  <2>4. CASE Recovery
    <3>1. UNCHANGED life
      BY <2>4 DEF Recovery, HealUnlinked, ReconcileSettling, MarkUnknown, UnknownAdvance,
                  UnknownResume, SurfaceUnknown, LoadIdentity, RecoverPending
    <3> QED BY <2>4, <3>1, RecoveryType DEF life
  <2>5. CASE UNCHANGED agentVars
    BY <2>5 DEF agentVars, life, vars, TypeOK, SpendOK, OutOK, InbOK, StackOK, WorldOK,
                HistOK
  <2> QED BY <2>1, <2>2, <2>3, <2>4, <2>5 DEF AgentNext
<1> QED BY <1>1, <1>2, PTL DEF Spec

-------------------------------------------------------------------------------
(***************************************************************************)
(* Money moves only under grants.  MovesCoveredByGrants is inductive on    *)
(* top of the types.  Most steps are quiet: they touch no counter, and no  *)
(* activation enters InFlight.                                             *)
(***************************************************************************)
Flying == {"execute", "transfer"}

LEMMA UnchangedShrinks ==
  ASSUME NEW s, UNCHANGED stack
  PROVE  InFlight(s)' \subseteq InFlight(s)
BY DEF InFlight, stack

LEMMA ReturnShrinks ==
  ASSUME StackOK, depth > 0, NEW s, Return
  PROVE  InFlight(s)' \subseteq InFlight(s) \ {depth}
BY DEF InFlight, Return, StackOK

LEMMA BecomeShrinks ==
  ASSUME StackOK, depth > 0, NEW s, NEW f, f.pc \notin Flying, Become(f)
  PROVE  InFlight(s)' \subseteq InFlight(s) \ {depth}
BY DEF InFlight, Become, StackOK, Flying

LEMMA GotoShrinks ==
  ASSUME StackOK, depth > 0, NEW s, NEW pc \in Pcs \ Flying, Goto(pc)
  PROVE  InFlight(s)' \subseteq InFlight(s) \ {depth}
<1>1. [Top EXCEPT !.pc = pc].pc = pc
  BY TopType DEF Frames
<1> QED BY <1>1, BecomeShrinks DEF Goto

LEMMA AfterExecuteShrinks ==
  ASSUME StackOK, depth > 0, NEW s, NEW ok \in BOOLEAN, AfterExecute(ok)
  PROVE  InFlight(s)' \subseteq InFlight(s) \ {depth}
<1>1. /\ [Top EXCEPT !.pc = "notify", !.ok = ok, !.todo = {Top.s}].pc \notin Flying
      /\ [Top EXCEPT !.pc = "record", !.ok = ok].pc \notin Flying
  BY TopType DEF Frames, Flying
<1> QED BY <1>1, ReturnShrinks, BecomeShrinks DEF AfterExecute

LEMMA InFlightFinite ==
  ASSUME StackOK, NEW s
  PROVE  IsFiniteSet(InFlight(s)) /\ Cardinality(InFlight(s)) \in Nat
BY LevelsFinite DEF InFlight

LEMMA ShrinkCount ==
  ASSUME StackOK, NEW s, InFlight(s)' \subseteq InFlight(s)
  PROVE  /\ Cardinality(InFlight(s)') \in Nat
         /\ Cardinality(InFlight(s)') <= Cardinality(InFlight(s))
BY InFlightFinite, FS_Subset, FS_CardinalityType

LEMMA RemoveCount ==
  ASSUME StackOK, NEW s, NEW d \in InFlight(s), InFlight(s)' \subseteq InFlight(s) \ {d}
  PROVE  /\ Cardinality(InFlight(s)') \in Nat
         /\ Cardinality(InFlight(s)') <= Cardinality(InFlight(s)) - 1
<1>1. /\ IsFiniteSet(InFlight(s) \ {d})
      /\ Cardinality(InFlight(s) \ {d}) = Cardinality(InFlight(s)) - 1
  BY InFlightFinite, FS_RemoveElement
<1> QED BY <1>1, FS_Subset, FS_CardinalityType

LEMMA AddCount ==
  ASSUME StackOK, NEW s, NEW d, InFlight(s)' \subseteq InFlight(s) \cup {d}
  PROVE  /\ Cardinality(InFlight(s)') \in Nat
         /\ Cardinality(InFlight(s)') <= Cardinality(InFlight(s)) + 1
<1>1. /\ IsFiniteSet(InFlight(s) \cup {d})
      /\ Cardinality(InFlight(s) \cup {d}) \in
           {Cardinality(InFlight(s)), Cardinality(InFlight(s)) + 1}
  BY InFlightFinite, FS_AddElement
<1> QED BY <1>1, InFlightFinite, FS_Subset, FS_CardinalityType

Counters == <<orphan, moved, autoGrants, ownerGrants>>

LEMMA QuietStep ==
  ASSUME TypeOK, MovesCoveredByGrants, UNCHANGED Counters,
         \A s \in Spends : InFlight(s)' \subseteq InFlight(s)
  PROVE  MovesCoveredByGrants'
<1> SUFFICES ASSUME NEW s \in Spends
             PROVE  (moved[s] + orphan[s] + Cardinality(InFlight(s))
                       <= autoGrants[s] + ownerGrants[s])'
  BY DEF MovesCoveredByGrants
<1>1. moved[s] + orphan[s] + Cardinality(InFlight(s)) <= autoGrants[s] + ownerGrants[s]
  BY DEF MovesCoveredByGrants
<1>2. /\ Cardinality(InFlight(s)) \in Nat
      /\ Cardinality(InFlight(s)') \in Nat
      /\ Cardinality(InFlight(s)') <= Cardinality(InFlight(s))
  BY ShrinkCount, InFlightFinite DEF TypeOK
<1>3. moved[s] \in Nat /\ orphan[s] \in Nat /\ autoGrants[s] \in Nat /\ ownerGrants[s] \in Nat
  BY DEF TypeOK, WorldOK, HistOK
<1> QED BY <1>1, <1>2, <1>3 DEF Counters

\* The steps that neither grant nor move.
LEMMA ProgressQuiet ==
  ASSUME StackOK, Progress, ~GateExecute
  PROVE  UNCHANGED Counters /\ \A s \in Spends : InFlight(s)' \subseteq InFlight(s)
<1> USE DEF Counters, hist
<1>1. CASE \E notified \in BOOLEAN : GateHold(notified)
  BY <1>1, ReturnShrinks, GotoShrinks DEF GateHold, AfterHold, At, Pcs, Flying
<1>2. CASE HoldNotified
  BY <1>2, ReturnShrinks, GotoShrinks DEF HoldNotified, AfterHold, At, Pcs, Flying
<1>3. CASE ExecuteApproved
  <2>1. Top \in Frames /\ depth \in 1..MaxDepth /\ Top.pc = "execute"
    BY <1>3, TopType DEF ExecuteApproved, At
  <2>2. /\ [Top EXCEPT !.pc = "transfer"].pc = "transfer"
        /\ [Top EXCEPT !.pc = "transfer"].s = Top.s
    BY <2>1 DEF Frames
  <2>3. ASSUME NEW s \in Spends PROVE InFlight(s)' \subseteq InFlight(s)
    BY <1>3, <2>1, <2>2 DEF ExecuteApproved, Goto, Become, InFlight, StackOK, Top
  <2> QED BY <1>3, <2>3 DEF ExecuteApproved
<1>4. ASSUME NEW x \in Spends, ResumeTask(x)
      PROVE  UNCHANGED Counters /\ \A s \in Spends : InFlight(s)' \subseteq InFlight(s)
  <2>1. Top \in Frames /\ depth > 0
    BY <1>4, TopType DEF ResumeTask, At
  <2>2. [Top EXCEPT !.s = x, !.pc = IF ParkedFor(x) = {} THEN "advance" ELSE "replying"].pc
          \notin Flying
    BY <2>1 DEF Frames, Flying
  <2> QED BY <1>4, <2>1, <2>2, BecomeShrinks DEF ResumeTask
<1>5. CASE AdvanceTask
  <2>1. Top \in Frames /\ depth > 0
    BY <1>5, TopType DEF AdvanceTask, At
  <2>2. [Top EXCEPT !.todo = @ \ {Top.s}, !.pc = "notify"].pc \notin Flying
    BY <2>1 DEF Frames, Flying
  <2> QED BY <1>5, <2>1, <2>2, BecomeShrinks, ReturnShrinks DEF AdvanceTask
<1> QED BY <1>1, <1>2, <1>3, <1>4, <1>5 DEF Progress

LEMMA RequestsQuiet ==
  ASSUME StackOK, Requests, \A s \in Spends : ~Approve(s)
  PROVE  UNCHANGED Counters /\ \A s \in Spends : InFlight(s)' \subseteq InFlight(s)
<1> USE DEF Counters, hist
<1>1. ASSUME NEW s \in Spends, NEW a \in Amounts, WalletSend(s, a)
      PROVE  UNCHANGED Counters /\ \A x \in Spends : InFlight(x)' \subseteq InFlight(x)
  BY <1>1 DEF WalletSend, Begin, InFlight, StackOK, Flying
<1>2. ASSUME NEW s \in Spends, NEW a \in Amounts, ProgramCallHeld(s, a)
      PROVE  UNCHANGED Counters /\ \A x \in Spends : InFlight(x)' \subseteq InFlight(x)
  BY <1>2, UnchangedShrinks DEF ProgramCallHeld
<1>3. ASSUME NEW s \in Spends, ApproveTooLate(s)
      PROVE  UNCHANGED Counters /\ \A x \in Spends : InFlight(x)' \subseteq InFlight(x)
  BY <1>3, UnchangedShrinks DEF ApproveTooLate
<1>4. ASSUME NEW s \in Spends, Reject(s)
      PROVE  UNCHANGED Counters /\ \A x \in Spends : InFlight(x)' \subseteq InFlight(x)
  BY <1>4 DEF Reject, Begin, InFlight, StackOK, Flying
<1>5. CASE ExpireStale
  BY <1>5 DEF ExpireStale, Begin, InFlight, StackOK, Flying
<1> QED BY <1>1, <1>2, <1>3, <1>4, <1>5 DEF Requests

LEMMA TaskProgressQuiet ==
  ASSUME StackOK, TaskProgress
  PROVE  UNCHANGED Counters /\ \A s \in Spends : InFlight(s)' \subseteq InFlight(s)
<1> USE DEF Counters, hist
<1>1. CASE ParkTask
  BY <1>1, ReturnShrinks DEF ParkTask, At
<1>2. CASE RecordSettlement
  BY <1>2, ReturnShrinks DEF RecordSettlement, At
<1>3. ASSUME NEW s \in Spends, NEW a \in Amounts, HoldInbound(s, a)
      PROVE  UNCHANGED Counters /\ \A x \in Spends : InFlight(x)' \subseteq InFlight(x)
  BY <1>3, GotoShrinks DEF HoldInbound, At, Pcs, Flying
<1>4. CASE Announced
  BY <1>4, ReturnShrinks DEF Announced, At
<1>5. CASE ReleaseHeldSpend
  BY <1>5, ReturnShrinks DEF ReleaseHeldSpend, At
<1> QED BY <1>1, <1>2, <1>3, <1>4, <1>5 DEF TaskProgress

LEMMA TaskRequestsQuiet ==
  ASSUME StackOK, TaskRequests
  PROVE  UNCHANGED Counters /\ \A s \in Spends : InFlight(s)' \subseteq InFlight(s)
<1> USE DEF Counters, hist
<1>1. ASSUME NEW o \in OutTasks, NEW s \in Spends, CompletedPayable(o, s)
      PROVE  UNCHANGED Counters /\ \A x \in Spends : InFlight(x)' \subseteq InFlight(x)
  BY <1>1 DEF CompletedPayable, Begin, InFlight, StackOK, Flying
<1>2. ASSUME NEW o \in OutTasks, RetractHeld(o)
      PROVE  UNCHANGED Counters /\ \A x \in Spends : InFlight(x)' \subseteq InFlight(x)
  BY <1>2 DEF RetractHeld, Reject, Begin, InFlight, StackOK, Flying
<1>3. ASSUME NEW o \in OutTasks,
             \/ \E price \in Amounts \cup {0} : SubmitTask(o, price)
             \/ CancelTask(o)
             \/ CompletedUnpaid(o)
             \/ \E verdict \in Verdicts : NegativeReply(o, verdict)
      PROVE  UNCHANGED Counters /\ \A x \in Spends : InFlight(x)' \subseteq InFlight(x)
  BY <1>3, UnchangedShrinks DEF SubmitTask, CancelTask, CompletedUnpaid, NegativeReply
<1>4. ASSUME NEW i \in InTasks, AcceptWalletSend(i)
      PROVE  UNCHANGED Counters /\ \A x \in Spends : InFlight(x)' \subseteq InFlight(x)
  BY <1>4 DEF AcceptWalletSend, Begin, InFlight, StackOK, Flying
<1>5. ASSUME NEW i \in InTasks, RefuseWalletSend(i)
      PROVE  UNCHANGED Counters /\ \A x \in Spends : InFlight(x)' \subseteq InFlight(x)
  BY <1>5, UnchangedShrinks DEF RefuseWalletSend
<1>6. ASSUME NEW i \in InTasks, PeerCancels(i)
      PROVE  UNCHANGED Counters /\ \A x \in Spends : InFlight(x)' \subseteq InFlight(x)
  BY <1>6 DEF PeerCancels, Begin, InFlight, StackOK, Flying
<1> QED BY <1>1, <1>2, <1>3, <1>4, <1>5, <1>6 DEF TaskRequests

LEMMA RecoveryQuiet ==
  ASSUME StackOK, Recovery \/ Boot
  PROVE  UNCHANGED Counters /\ \A s \in Spends : InFlight(s)' \subseteq InFlight(s)
<1> USE DEF Counters, hist
<1>1. CASE HealUnlinked
  BY <1>1, GotoShrinks DEF HealUnlinked, At, Pcs, Flying
<1>2. CASE ReconcileSettling
  <2>1. Top \in Frames /\ depth > 0
    BY <1>2, TopType DEF ReconcileSettling, At
  <2>2. [Top EXCEPT !.pc = "unknown",
            !.todo = {s \in Spends : spend[s].st = "EXECUTING"}].pc \notin Flying
    BY <2>1 DEF Frames, Flying
  <2> QED BY <1>2, <2>1, <2>2, BecomeShrinks DEF ReconcileSettling
<1>3. ASSUME NEW x \in Spends, MarkUnknown(x)
      PROVE  UNCHANGED Counters /\ \A s \in Spends : InFlight(s)' \subseteq InFlight(s)
  <2>1. Top \in Frames /\ depth > 0 /\ Top.pc = "unknown"
    BY <1>3, TopType DEF MarkUnknown, At
  <2>2. /\ [Top EXCEPT !.s = x, !.pc = "unknown-advance"].pc \notin Flying
        /\ [Top EXCEPT !.todo = @ \ {x}].pc \notin Flying
    BY <2>1 DEF Frames, Flying
  <2> QED BY <1>3, <2>1, <2>2, BecomeShrinks DEF MarkUnknown
<1>4. CASE UnknownAdvance
  BY <1>4, GotoShrinks DEF UnknownAdvance, At, Pcs, Flying
<1>5. CASE UnknownResume
  BY <1>5, GotoShrinks DEF UnknownResume, At, Pcs, Flying
<1>6. CASE SurfaceUnknown
  <2>1. Top \in Frames /\ depth > 0
    BY <1>6, TopType DEF SurfaceUnknown, At
  <2>2. [Top EXCEPT !.todo = @ \ {Top.s}, !.pc = "unknown"].pc \notin Flying
    BY <2>1 DEF Frames, Flying
  <2> QED BY <1>6, <2>1, <2>2, BecomeShrinks DEF SurfaceUnknown
<1>7. CASE LoadIdentity
  BY <1>7, GotoShrinks DEF LoadIdentity, At, Pcs, Flying
<1>8. CASE RecoverPending
  <2>1. Top \in Frames /\ depth > 0
    BY <1>8, TopType DEF RecoverPending, At
  <2>2. [Top EXCEPT !.pc = "notify", !.todo = StaleSpends].pc \notin Flying
    BY <2>1 DEF Frames, Flying
  <2> QED BY <1>8, <2>1, <2>2, BecomeShrinks, ReturnShrinks DEF RecoverPending
<1>9. CASE Boot
  BY <1>9 DEF Boot, Begin, InFlight, StackOK, Flying
<1> QED BY <1>1, <1>2, <1>3, <1>4, <1>5, <1>6, <1>7, <1>8, <1>9 DEF Recovery

\* The steps that grant or move, one request at a time.
LEMMA GateExecuteCovered ==
  ASSUME TypeOK, MovesCoveredByGrants, GateExecute
  PROVE  MovesCoveredByGrants'
<1> SUFFICES ASSUME NEW s \in Spends
             PROVE  (moved[s] + orphan[s] + Cardinality(InFlight(s))
                       <= autoGrants[s] + ownerGrants[s])'
  BY DEF MovesCoveredByGrants
<1>1. StackOK /\ Top \in Frames /\ depth \in 1..MaxDepth /\ Top.pc = "gate"
  BY TopType DEF GateExecute, At, TypeOK
<1>2. /\ [Top EXCEPT !.pc = "transfer"].pc = "transfer"
      /\ [Top EXCEPT !.pc = "transfer"].s = Top.s
  BY <1>1 DEF Frames
<1>3. moved[s] + orphan[s] + Cardinality(InFlight(s)) <= autoGrants[s] + ownerGrants[s]
  BY DEF MovesCoveredByGrants
<1>4. /\ moved[s] \in Nat /\ orphan[s] \in Nat /\ autoGrants[s] \in Nat /\ ownerGrants[s] \in Nat
      /\ autoGrants \in [Spends -> Nat]
      /\ Cardinality(InFlight(s)) \in Nat
  BY <1>1, InFlightFinite DEF TypeOK, WorldOK, HistOK
<1>5. CASE s = Top.s
  <2>1. InFlight(s)' \subseteq InFlight(s) \cup {depth}
    BY <1>1 DEF GateExecute, Goto, Become, InFlight, StackOK
  <2>2. /\ Cardinality(InFlight(s)') \in Nat
        /\ Cardinality(InFlight(s)') <= Cardinality(InFlight(s)) + 1
    BY <1>1, <2>1, AddCount
  <2>3. autoGrants'[s] = autoGrants[s] + 1
    BY <1>4, <1>5 DEF GateExecute
  <2> QED BY <1>3, <1>4, <2>2, <2>3 DEF GateExecute
<1>6. CASE s # Top.s
  <2>1. InFlight(s)' \subseteq InFlight(s)
    BY <1>1, <1>2, <1>6 DEF GateExecute, Goto, Become, InFlight, StackOK
  <2>2. /\ Cardinality(InFlight(s)') \in Nat
        /\ Cardinality(InFlight(s)') <= Cardinality(InFlight(s))
    BY <1>1, <2>1, ShrinkCount
  <2>3. autoGrants'[s] = autoGrants[s]
    BY <1>4, <1>6 DEF GateExecute
  <2> QED BY <1>3, <1>4, <2>2, <2>3 DEF GateExecute
<1> QED BY <1>5, <1>6

LEMMA ApproveCovered ==
  ASSUME TypeOK, MovesCoveredByGrants, NEW x \in Spends, Approve(x)
  PROVE  MovesCoveredByGrants'
<1> SUFFICES ASSUME NEW s \in Spends
             PROVE  (moved[s] + orphan[s] + Cardinality(InFlight(s))
                       <= autoGrants[s] + ownerGrants[s])'
  BY DEF MovesCoveredByGrants
<1>1. StackOK
  BY DEF TypeOK
<1>2. moved[s] + orphan[s] + Cardinality(InFlight(s)) <= autoGrants[s] + ownerGrants[s]
  BY DEF MovesCoveredByGrants
<1>3. /\ moved[s] \in Nat /\ orphan[s] \in Nat /\ autoGrants[s] \in Nat /\ ownerGrants[s] \in Nat
      /\ ownerGrants \in [Spends -> Nat]
      /\ Cardinality(InFlight(s)) \in Nat
  BY <1>1, InFlightFinite DEF TypeOK, WorldOK, HistOK
<1>4. CASE s = x
  <2>1. InFlight(s)' \subseteq InFlight(s) \cup {depth + 1}
    BY <1>1 DEF Approve, Begin, InFlight, StackOK
  <2>2. /\ Cardinality(InFlight(s)') \in Nat
        /\ Cardinality(InFlight(s)') <= Cardinality(InFlight(s)) + 1
    BY <1>1, <2>1, AddCount
  <2>3. ownerGrants'[s] = ownerGrants[s] + 1
    BY <1>3, <1>4 DEF Approve
  <2> QED BY <1>2, <1>3, <2>2, <2>3 DEF Approve
<1>5. CASE s # x
  <2>1. InFlight(s)' \subseteq InFlight(s)
    BY <1>1, <1>5 DEF Approve, Begin, InFlight, StackOK
  <2>2. /\ Cardinality(InFlight(s)') \in Nat
        /\ Cardinality(InFlight(s)') <= Cardinality(InFlight(s))
    BY <1>1, <2>1, ShrinkCount
  <2>3. ownerGrants'[s] = ownerGrants[s]
    BY <1>3, <1>5 DEF Approve
  <2> QED BY <1>2, <1>3, <2>2, <2>3 DEF Approve
<1> QED BY <1>4, <1>5

\* One unit leaves InFlight and is moved, or becomes an orphan.
LEMMA LandingCovered ==
  ASSUME TypeOK, MovesCoveredByGrants, NEW d \in 1..depth, frame[d].pc = "transfer",
         \A s \in Spends : InFlight(s)' \subseteq InFlight(s) \ {d},
         UNCHANGED <<autoGrants, ownerGrants>>,
         \/ moved' = [moved EXCEPT ![frame[d].s] = @ + 1] /\ UNCHANGED orphan
         \/ orphan' = [orphan EXCEPT ![frame[d].s] = @ + 1] /\ UNCHANGED moved
  PROVE  MovesCoveredByGrants'
<1> SUFFICES ASSUME NEW s \in Spends
             PROVE  (moved[s] + orphan[s] + Cardinality(InFlight(s))
                       <= autoGrants[s] + ownerGrants[s])'
  BY DEF MovesCoveredByGrants
<1>1. StackOK
  BY DEF TypeOK
<1>2. moved[s] + orphan[s] + Cardinality(InFlight(s)) <= autoGrants[s] + ownerGrants[s]
  BY DEF MovesCoveredByGrants
<1>3. /\ moved \in [Spends -> Nat] /\ orphan \in [Spends -> Nat]
      /\ moved[s] \in Nat /\ orphan[s] \in Nat /\ autoGrants[s] \in Nat /\ ownerGrants[s] \in Nat
      /\ Cardinality(InFlight(s)) \in Nat
  BY <1>1, InFlightFinite DEF TypeOK, WorldOK, HistOK
<1>4. CASE s = frame[d].s
  <2>1. d \in InFlight(s)
    BY <1>4 DEF InFlight
  <2>2. /\ Cardinality(InFlight(s)') \in Nat
        /\ Cardinality(InFlight(s)') <= Cardinality(InFlight(s)) - 1
    BY <1>1, <2>1, RemoveCount
  <2>3. moved'[s] + orphan'[s] = moved[s] + orphan[s] + 1
    BY <1>3, <1>4
  <2>4. moved'[s] \in Nat /\ orphan'[s] \in Nat
    BY <1>3, <1>4
  <2> QED BY <1>2, <1>3, <2>2, <2>3, <2>4
<1>5. CASE s # frame[d].s
  <2>1. /\ Cardinality(InFlight(s)') \in Nat
        /\ Cardinality(InFlight(s)') <= Cardinality(InFlight(s))
    BY <1>1, ShrinkCount
  <2>2. moved'[s] = moved[s] /\ orphan'[s] = orphan[s]
    BY <1>3, <1>5
  <2> QED BY <1>2, <1>3, <2>1, <2>2
<1> QED BY <1>4, <1>5

LEMMA WalletCovered ==
  ASSUME TypeOK, MovesCoveredByGrants, Wallet
  PROVE  MovesCoveredByGrants'
<1>0. StackOK
  BY DEF TypeOK
<1>1. ASSUME NEW d \in 1..MaxDepth, WalletMoves(d) PROVE MovesCoveredByGrants'
  <2>1. d \in 1..depth /\ frame[d] \in Frames
    BY <1>0, <1>1 DEF WalletMoves, StackOK
  <2>2. [frame[d] EXCEPT !.pc = "sent"].pc = "sent"
    BY <2>1 DEF Frames
  <2>3. \A s \in Spends : InFlight(s)' \subseteq InFlight(s) \ {d}
    BY <1>0, <1>1, <2>1, <2>2 DEF WalletMoves, InFlight, StackOK
  <2> QED BY <1>1, <2>1, <2>3, LandingCovered DEF WalletMoves
<1>2. CASE TransferConfirmed \/ TransferRefused
  <2>1. \A s \in Spends : InFlight(s)' \subseteq InFlight(s)
    BY <1>0, <1>2, AfterExecuteShrinks DEF TransferConfirmed, TransferRefused, At
  <2>2. UNCHANGED Counters
    BY <1>2 DEF TransferConfirmed, TransferRefused, Counters, hist
  <2> QED BY <2>1, <2>2, QuietStep
<1>3. CASE TransferLost
  <2>1. \A s \in Spends : InFlight(s)' \subseteq InFlight(s) \ {depth}
    BY <1>0, <1>3, AfterExecuteShrinks DEF TransferLost, At
  <2>2. CASE Top.pc = "transfer"
    <3>1. depth \in 1..depth /\ frame[depth].pc = "transfer"
      BY <1>0, <1>3, <2>2 DEF TransferLost, At, Top, StackOK
    <3> QED BY <1>3, <2>1, <2>2, <3>1, LandingCovered DEF TransferLost, hist, Top
  <2>3. CASE Top.pc # "transfer"
    <3>1. UNCHANGED Counters
      BY <1>3, <2>3 DEF TransferLost, Counters, hist
    <3> QED BY <2>1, <3>1, QuietStep
  <2> QED BY <2>2, <2>3
<1>4. ASSUME NEW x \in Spends, LateMove(x) \/ LateFailure(x) PROVE MovesCoveredByGrants'
  <2> SUFFICES ASSUME NEW s \in Spends
               PROVE  (moved[s] + orphan[s] + Cardinality(InFlight(s))
                         <= autoGrants[s] + ownerGrants[s])'
    BY DEF MovesCoveredByGrants
  <2>1. moved[s] + orphan[s] + Cardinality(InFlight(s)) <= autoGrants[s] + ownerGrants[s]
    BY DEF MovesCoveredByGrants
  <2>2. /\ moved \in [Spends -> Nat] /\ orphan \in [Spends -> Nat]
        /\ moved[s] \in Nat /\ orphan[s] \in Nat /\ autoGrants[s] \in Nat /\ ownerGrants[s] \in Nat
        /\ Cardinality(InFlight(s)) \in Nat
    BY <1>0, InFlightFinite DEF TypeOK, WorldOK, HistOK
  <2>3. InFlight(s)' = InFlight(s)
    BY <1>4 DEF LateMove, LateFailure, InFlight, stack
  <2>4. moved'[s] + orphan'[s] <= moved[s] + orphan[s] /\ moved'[s] \in Nat /\ orphan'[s] \in Int
    BY <1>4, <2>2 DEF LateMove, LateFailure, hist
  <2>5. autoGrants' = autoGrants /\ ownerGrants' = ownerGrants
    BY <1>4 DEF LateMove, LateFailure, hist
  <2> QED BY <2>1, <2>2, <2>3, <2>4, <2>5
<1> QED BY <1>1, <1>2, <1>3, <1>4 DEF Wallet

LEMMA CrashCovered ==
  ASSUME TypeOK, MovesCoveredByGrants, Crash
  PROVE  MovesCoveredByGrants'
<1> SUFFICES ASSUME NEW s \in Spends
             PROVE  (moved[s] + orphan[s] + Cardinality(InFlight(s))
                       <= autoGrants[s] + ownerGrants[s])'
  BY DEF MovesCoveredByGrants
<1>0. StackOK
  BY DEF TypeOK
<1>1. moved[s] + orphan[s] + Cardinality(InFlight(s)) <= autoGrants[s] + ownerGrants[s]
  BY DEF MovesCoveredByGrants
<1>2. /\ moved[s] \in Nat /\ orphan[s] \in Nat /\ autoGrants[s] \in Nat /\ ownerGrants[s] \in Nat
      /\ Cardinality(InFlight(s)) \in Nat /\ IsFiniteSet(InFlight(s))
  BY <1>0, InFlightFinite DEF TypeOK, WorldOK, HistOK
<1>3. Transferring(s) \subseteq InFlight(s)
  BY DEF Transferring, InFlight
<1>4. Cardinality(Transferring(s)) <= Cardinality(InFlight(s))
      /\ Cardinality(Transferring(s)) \in Nat
  BY <1>2, <1>3, FS_Subset, FS_CardinalityType
<1>5. InFlight(s)' = {}
  BY DEF Crash, InFlight
<1>6. Cardinality(InFlight(s)') = 0
  BY <1>5, FS_EmptySet
<1>7. orphan'[s] = orphan[s] + Cardinality(Transferring(s))
  BY DEF Crash
<1> QED BY <1>1, <1>2, <1>4, <1>6, <1>7 DEF Crash, hist

LEMMA CoveredStep ==
  ASSUME AgentTypeOK, MovesCoveredByGrants, [AgentNext]_agentVars
  PROVE  MovesCoveredByGrants'
<1>0. TypeOK /\ StackOK
  BY DEF AgentTypeOK, TypeOK
<1>1. CASE Progress
  BY <1>0, <1>1, GateExecuteCovered, ProgressQuiet, QuietStep
<1>2. CASE Wallet
  BY <1>0, <1>2, WalletCovered
<1>3. CASE Requests
  BY <1>0, <1>3, ApproveCovered, RequestsQuiet, QuietStep
<1>4. CASE TaskProgress
  BY <1>0, <1>4, TaskProgressQuiet, QuietStep
<1>5. CASE TaskRequests
  BY <1>0, <1>5, TaskRequestsQuiet, QuietStep
<1>6. CASE Recovery \/ Boot
  BY <1>0, <1>6, RecoveryQuiet, QuietStep
<1>7. CASE Crash
  BY <1>0, <1>7, CrashCovered
<1>8. CASE Tick \/ UNCHANGED agentVars
  <2>1. UNCHANGED stack /\ UNCHANGED Counters
    BY <1>8 DEF Tick, agentVars, vars, stack, Counters, hist
  <2> QED BY <1>0, <2>1, UnchangedShrinks, QuietStep
<1> QED
  BY <1>1, <1>2, <1>3, <1>4, <1>5, <1>6, <1>7, <1>8 DEF AgentNext, TaskNext, SpendingNext

\* Every movement of money, made or still to be made, is backed by a decision
\* of its own (executeSpend runs once per pass through the limits and once per
\* approveSpend), whatever nests, fails, is lost or dies.
THEOREM GrantsCoverMoves == Spec => []MovesCoveredByGrants
<1>1. AgentInit => MovesCoveredByGrants
  <2> SUFFICES ASSUME AgentInit PROVE MovesCoveredByGrants
    OBVIOUS
  <2>1. \A s \in Spends : InFlight(s) = {}
    BY DEF AgentInit, Init, InFlight
  <2>2. \A s \in Spends : Cardinality(InFlight(s)) = 0
    BY <2>1, FS_EmptySet
  <2> QED BY <2>2 DEF AgentInit, Init, MovesCoveredByGrants
<1>2. AgentTypeOK /\ MovesCoveredByGrants /\ [AgentNext]_agentVars => MovesCoveredByGrants'
  BY CoveredStep
<1> QED BY <1>1, <1>2, TypeCorrect, PTL DEF Spec

-------------------------------------------------------------------------------
(***************************************************************************)
(* The agent implements the ledger.  A step that bumps a grant counter is  *)
(* Ledger!Grant, one that bumps moved is Ledger!Pay, every other one is a  *)
(* stutter.  GrantsCoverMoves is what makes Pay's guard true.              *)
(***************************************************************************)
Granted == [s \in Spends |-> autoGrants[s] + ownerGrants[s]]

LEMMA LedgerStutter ==
  ASSUME UNCHANGED Counters
  PROVE  UNCHANGED Ledger!vars
BY DEF Counters, Ledger!vars

LEMMA LedgerGrant ==
  ASSUME TypeOK, NEW x, UNCHANGED moved,
         \/ autoGrants' = [autoGrants EXCEPT ![x] = @ + 1] /\ UNCHANGED ownerGrants
         \/ ownerGrants' = [ownerGrants EXCEPT ![x] = @ + 1] /\ UNCHANGED autoGrants
  PROVE  [Ledger!Next]_(Ledger!vars)
<1>1. /\ autoGrants \in [Spends -> Nat]
      /\ ownerGrants \in [Spends -> Nat]
  BY DEF TypeOK, HistOK
<1>2. CASE x \in Spends
  <2>0. \A s \in Spends : autoGrants'[s] + ownerGrants'[s] =
          IF s = x THEN autoGrants[s] + ownerGrants[s] + 1 ELSE autoGrants[s] + ownerGrants[s]
    BY <1>1, <1>2
  <2>1. Granted' = [Granted EXCEPT ![x] = @ + 1]
    BY <1>2, <2>0 DEF Granted
  <2>2. Ledger!Grant(x)
    BY <2>1 DEF Ledger!Grant, Granted
  <2> QED BY <1>2, <2>2 DEF Ledger!Next
<1>3. CASE x \notin Spends
  <2>1. UNCHANGED <<autoGrants, ownerGrants>>
    BY <1>1, <1>3
  <2> QED BY <2>1 DEF Ledger!vars
<1> QED BY <1>2, <1>3

LEMMA LedgerPay ==
  ASSUME TypeOK, MovesCoveredByGrants, NEW x,
         moved' = [moved EXCEPT ![x] = @ + 1], UNCHANGED <<autoGrants, ownerGrants>>,
         x \in Spends => orphan[x] > 0 \/ InFlight(x) # {}
  PROVE  [Ledger!Next]_(Ledger!vars)
<1>1. /\ moved \in [Spends -> Nat] /\ orphan \in [Spends -> Nat]
      /\ autoGrants \in [Spends -> Nat]
      /\ ownerGrants \in [Spends -> Nat]
  BY DEF TypeOK, WorldOK, HistOK
<1>2. CASE x \in Spends
  <2>1. /\ IsFiniteSet(InFlight(x)) /\ Cardinality(InFlight(x)) \in Nat
        /\ Cardinality(InFlight(x)) = 0 <=> InFlight(x) = {}
    BY InFlightFinite, FS_EmptySet DEF TypeOK
  <2>2. moved[x] < autoGrants[x] + ownerGrants[x]
    BY <1>1, <1>2, <2>1 DEF MovesCoveredByGrants
  <2>3. Ledger!Pay(x)
    BY <1>2, <2>2 DEF Ledger!Pay
  <2> QED BY <1>2, <2>3 DEF Ledger!Next
<1>3. CASE x \notin Spends
  <2>1. UNCHANGED moved
    BY <1>1, <1>3
  <2> QED BY <2>1 DEF Ledger!vars
<1> QED BY <1>2, <1>3

LEMMA LedgerWallet ==
  ASSUME TypeOK, MovesCoveredByGrants, Wallet
  PROVE  [Ledger!Next]_(Ledger!vars)
<1>1. ASSUME NEW d \in 1..MaxDepth, WalletMoves(d) PROVE [Ledger!Next]_(Ledger!vars)
  <2>1. d \in InFlight(frame[d].s)
    BY <1>1 DEF WalletMoves, InFlight
  <2> QED BY <1>1, <2>1, LedgerPay DEF WalletMoves
<1>2. CASE TransferConfirmed \/ TransferRefused \/ TransferLost
  BY <1>2 DEF TransferConfirmed, TransferRefused, TransferLost, hist, Ledger!vars
<1>3. ASSUME NEW x \in Spends, LateMove(x) PROVE [Ledger!Next]_(Ledger!vars)
  BY <1>3, LedgerPay DEF LateMove
<1>4. ASSUME NEW x \in Spends, LateFailure(x) PROVE [Ledger!Next]_(Ledger!vars)
  BY <1>4 DEF LateFailure, hist, Ledger!vars
<1> QED BY <1>1, <1>2, <1>3, <1>4 DEF Wallet

LEMMA LedgerStep ==
  ASSUME AgentTypeOK, MovesCoveredByGrants, [AgentNext]_agentVars
  PROVE  [Ledger!Next]_(Ledger!vars)
<1>0. TypeOK /\ StackOK
  BY DEF AgentTypeOK, TypeOK
<1>1. CASE GateExecute
  BY <1>0, <1>1, LedgerGrant DEF GateExecute
<1>2. CASE Progress /\ ~GateExecute
  BY <1>0, <1>2, ProgressQuiet, LedgerStutter
<1>3. CASE Wallet
  BY <1>0, <1>3, LedgerWallet
<1>4. ASSUME NEW s \in Spends, Approve(s) PROVE [Ledger!Next]_(Ledger!vars)
  BY <1>0, <1>4, LedgerGrant DEF Approve
<1>5. CASE Requests /\ \A s \in Spends : ~Approve(s)
  BY <1>0, <1>5, RequestsQuiet, LedgerStutter
<1>6. CASE TaskProgress
  BY <1>0, <1>6, TaskProgressQuiet, LedgerStutter
<1>7. CASE TaskRequests
  BY <1>0, <1>7, TaskRequestsQuiet, LedgerStutter
<1>8. CASE Recovery \/ Boot
  BY <1>0, <1>8, RecoveryQuiet, LedgerStutter
<1>9. CASE Crash \/ Tick \/ UNCHANGED agentVars
  BY <1>9 DEF Crash, Tick, agentVars, vars, hist, Ledger!vars
<1> QED
  BY <1>1, <1>2, <1>3, <1>4, <1>5, <1>6, <1>7, <1>8, <1>9
  DEF AgentNext, TaskNext, SpendingNext, Requests

\* The agent, with its tasks, nesting and crashes, implements SpendLedger: the
\* wallet never moves an amount that the limits or the owner did not let
\* through, and at most once per decision.
THEOREM ImplementsLedger == Spec => LedgerSpec
<1>1. AgentInit => Ledger!Init
  BY DEF AgentInit, Init, Ledger!Init
<1>2. AgentTypeOK /\ MovesCoveredByGrants /\ [AgentNext]_agentVars
        => [Ledger!Next]_(Ledger!vars)
  BY LedgerStep
<1> QED BY <1>1, <1>2, TypeCorrect, GrantsCoverMoves, PTL DEF Spec, LedgerSpec, Ledger!Spec
===============================================================================
