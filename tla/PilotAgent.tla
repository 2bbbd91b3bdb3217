----------------------------- MODULE PilotAgent -----------------------------
(***************************************************************************)
(* The money core of the agent as a process that can die at any step and   *)
(* start again: TaskPayments plus PilotImpl::initialize                    *)
(* (pilot_identity.cpp) and the recovery functions it calls.               *)
(*                                                                         *)
(* A crash loses the activations and keeps the database.  A transfer that  *)
(* was in flight goes on in the wallet's process.  initialize opens the    *)
(* database (phase "db"), recovers tasks, reconciles interrupted spends,   *)
(* and only then loads the identity (phase "up"): owner channel, limits    *)
(* and keys.  Its own calls block on nested event loops like any other, so *)
(* requests are served in the middle of recovery.                          *)
(***************************************************************************)
EXTENDS TaskPayments

CONSTANT MaxCrashes          \* bound: how often the process dies

ASSUME CrashAssumption == MaxCrashes \in Nat

VARIABLES
  crashes,                   \* how often it has died
  cut                        \* history: at which steps of a settlement it died

\* Steps between the commit that moves a request and the one that tells its task,
\* or between two that move it, with no reader of the row to finish them later.
Halves == {"gate", "holding", "park", "execute", "unknown-advance"}

life      == <<crashes, cut>>
agentVars == <<vars, life>>

AgentTypeOK ==
  /\ TypeOK
  /\ crashes \in 0..MaxCrashes
  /\ cut \subseteq (Spends \cup {None}) \X Halves

AgentInit == Init /\ crashes = 0 /\ cut = {}

-------------------------------------------------------------------------------
\* Activations with a transfer of s in the wallet's hands.
Transferring(s) == {d \in 1..depth : frame[d].pc = "transfer" /\ frame[d].s = s}

\* A task that is being settled waits for s.
Settles(s) == \E o \in OutTasks : out[o].st = "settling" /\ out[o].s = s

Crash ==
  /\ phase # "down" /\ crashes < MaxCrashes
  /\ crashes' = crashes + 1
  /\ cut' = cut \cup {<<frame[d].s, frame[d].pc>> :
                         d \in {e \in 1..depth : frame[e].pc \in Halves /\ Settles(frame[e].s)}}
  /\ phase' = "down"
  /\ depth' = 0
  /\ frame' = [d \in 1..MaxDepth |-> Idle]
  /\ orphan' = [s \in Spends |-> orphan[s] + Cardinality(Transferring(s))]
  /\ UNCHANGED <<db, now, hist>>

\* Mutant: fails finished tasks too.
BootFailsAll ==
  /\ phase = "down"
  /\ phase' = "db"
  /\ inb' = [i \in InTasks |-> IF inb[i].st \notin {"none", "input-required"}
                               THEN [inb[i] EXCEPT !.st = "failed"] ELSE inb[i]]
  /\ Begin("boot", "heal", None, None, FALSE, {})
  /\ UNCHANGED <<spend, out, now, orphan, hist, life>>

\* initDatabase and inboundTasksRecover: what was not parked is failed.
Boot ==
  /\ phase = "down"
  /\ phase' = "db"
  /\ inb' = [i \in InTasks |-> IF inb[i].st \in {"accepted", "working"}
                               THEN [inb[i] EXCEPT !.st = "failed"] ELSE inb[i]]
  /\ Begin("boot", "heal", None, None, FALSE, {})
  /\ UNCHANGED <<spend, out, now, orphan, hist, life>>

\* outboundTasksRecover (0): a claimed task without a spend is re-armed; then
\* (1) the reply topics are subscribed again, in delivery calls.
HealUnlinked ==
  /\ At("heal")
  /\ out' = [o \in OutTasks |-> IF out[o].st = "settling" /\ out[o].s = None
                                THEN [out[o] EXCEPT !.st = "submitted"] ELSE out[o]]
  /\ Goto(IF \E o \in OutTasks : out'[o].st = "submitted" THEN "rearm" ELSE "reconcile")
  /\ UNCHANGED <<spend, inb, phase, now, orphan, hist, life>>

\* Mutants: a started transfer is taken for a finished one; a failed one is
\* left for a retry that never comes.
ReconciledOptimistic(row) ==
  CASE spend[row.s].st \in {"COMPLETED", "EXECUTING"}           -> "paid"
    [] spend[row.s].st \in {"TX_FAILED", "REJECTED", "EXPIRED"} -> "pay-failed"
    [] OTHER                                                  -> "settling"
ReconciledPaidOnly(row) ==
  IF spend[row.s].st = "COMPLETED" THEN "paid" ELSE "settling"

\* What a settling task becomes, by the state its spend is in.
Reconciled(row) ==
  CASE spend[row.s].st = "COMPLETED"                          -> "paid"
    [] spend[row.s].st \in {"TX_FAILED", "REJECTED", "EXPIRED"} -> "pay-failed"
    [] OTHER                                                  -> "settling"

\* Mutant: only the requests of tasks are looked at, not plain sends.
ReconcileTasksOnly ==
  /\ At("rearm") \/ At("reconcile")
  /\ out' = [o \in OutTasks |-> IF out[o].st = "settling" /\ out[o].s \in Spends
                                THEN [out[o] EXCEPT !.st = Reconciled(out[o])] ELSE out[o]]
  /\ Become([Top EXCEPT !.pc = "unknown",
                        !.todo = {s \in Spends : /\ spend[s].st = "EXECUTING"
                                                 /\ \E o \in OutTasks : out[o].s = s}])
  /\ UNCHANGED <<spend, inb, phase, now, orphan, hist, life>>

\* outboundTasksRecover (2), and the SELECT of reconcileExecutingSpends.
ReconcileSettling ==
  /\ At("rearm") \/ At("reconcile")
  /\ out' = [o \in OutTasks |-> IF out[o].st = "settling" /\ out[o].s \in Spends
                                THEN [out[o] EXCEPT !.st = Reconciled(out[o])] ELSE out[o]]
  /\ Become([Top EXCEPT !.pc = "unknown",
                        !.todo = {s \in Spends : spend[s].st = "EXECUTING"}])
  /\ UNCHANGED <<spend, inb, phase, now, orphan, hist, life>>

\* reconcileExecutingSpends, one row: three transactions and a reply ...
MarkUnknown(s) ==
  /\ At("unknown") /\ s \in Top.todo
  /\ IF spend[s].st = "EXECUTING"
       THEN /\ SetSpend(s, "TX_UNKNOWN")
            /\ Become([Top EXCEPT !.s = s, !.pc = "unknown-advance"])
       ELSE /\ Become([Top EXCEPT !.todo = @ \ {s}])
            /\ UNCHANGED spend
  /\ UNCHANGED <<out, inb, phase, now, orphan, hist, life>>

\* Mutant: a state no reader of outbound_tasks knows.
UnknownAdvanceMisnamed ==
  /\ At("unknown-advance")
  /\ out' = AdvanceLinked(Top.s, "unresolved")
  /\ Goto("unknown-resume")
  /\ UNCHANGED <<spend, inb, phase, now, orphan, hist, life>>

UnknownAdvance ==
  /\ At("unknown-advance")
  /\ out' = AdvanceLinked(Top.s, "pay-unresolved")
  /\ Goto("unknown-resume")
  /\ UNCHANGED <<spend, inb, phase, now, orphan, hist, life>>

UnknownResume ==
  /\ At("unknown-resume")
  /\ inb' = ResumeInbound(Top.s, FALSE)
  /\ Goto(IF ParkedFor(Top.s) = {} THEN "unknown-owner" ELSE "unknown-reply")
  /\ UNCHANGED <<spend, out, phase, now, orphan, hist, life>>

\* Mutant: waits for the owner channel, which is loaded later.
SurfaceUnknownBlocks ==
  /\ At("unknown-reply") \/ At("unknown-owner")
  /\ phase = "up"
  /\ surfaced' = surfaced \cup {Top.s}
  /\ Become([Top EXCEPT !.todo = @ \ {Top.s}, !.pc = "unknown"])
  /\ UNCHANGED <<db, phase, now, orphan, moved, autoGrants, ownerGrants, life>>

\* ... and the message to the owner, which needs the owner channel.
SurfaceUnknown ==
  /\ At("unknown-reply") \/ At("unknown-owner")
  /\ surfaced' = IF phase = "up" THEN surfaced \cup {Top.s} ELSE surfaced
  /\ Become([Top EXCEPT !.todo = @ \ {Top.s}, !.pc = "unknown"])
  /\ UNCHANGED <<db, phase, now, orphan, moved, autoGrants, ownerGrants, life>>

\* Mutant: the identity is loaded before the interrupted spends are reconciled.
LoadIdentityEarly ==
  /\ At("unknown")
  /\ phase' = "up"
  /\ Goto("recover")
  /\ UNCHANGED <<db, now, orphan, hist, life>>

\* loadIdentity; initWallet and the subscriptions are calls.
LoadIdentity ==
  /\ At("unknown") /\ Top.todo = {}
  /\ phase' = "up"
  /\ Goto("recover")
  /\ UNCHANGED <<db, now, orphan, hist, life>>

\* recoverPendingTransactions: expire first, then announce what still waits.
RecoverPending ==
  /\ At("recover")
  /\ spend' = AllExpired(StaleSpends)
  /\ IF StaleSpends = {}
       THEN Return
       ELSE Become([Top EXCEPT !.pc = "notify", !.todo = StaleSpends])
  /\ UNCHANGED <<out, inb, phase, now, orphan, hist, life>>

Recovery ==
  \/ HealUnlinked
  \/ ReconcileSettling
  \/ \E s \in Spends : MarkUnknown(s)
  \/ UnknownAdvance
  \/ UnknownResume
  \/ SurfaceUnknown
  \/ LoadIdentity
  \/ RecoverPending

AgentNext ==
  \/ TaskNext /\ UNCHANGED life
  \/ Crash
  \/ Boot
  \/ Recovery

Spec == AgentInit /\ [][AgentNext]_agentVars

\* A call into the wallet returns: it answers, or the caller's ceiling passes
\* (kTransferTimeoutMs, kPublicTransferTimeoutMs).
WalletAnswers == TransferConfirmed \/ TransferRefused \/ TransferLost

\* FAIRNESS.  The running activation goes on, delivery and wallet calls return
\* (they all carry a timeout), the clock runs, the host restarts a dead
\* module, and the owner's client goes on asking for the status or the pending
\* list: expiry has no timer of its own, getPendingSpends drives it.  Nothing
\* is assumed of the owner's decisions or of peers.
FairSpec ==
  /\ Spec
  /\ WF_agentVars((Progress \/ TaskProgress) /\ UNCHANGED life)
  /\ WF_agentVars(Recovery)
  /\ WF_agentVars(WalletAnswers /\ UNCHANGED life)
  /\ WF_agentVars(Tick /\ UNCHANGED life)
  /\ WF_agentVars(ExpireStale /\ UNCHANGED life)
  /\ WF_agentVars(Boot)

-------------------------------------------------------------------------------
(***************************************************************************)
(* Properties.                                                             *)
(***************************************************************************)
\* Recovery has not reached the end of reconcileExecutingSpends.
Reconciling == \E d \in 1..depth :
                 frame[d].pc \in {"heal", "rearm", "reconcile", "unknown",
                                  "unknown-advance", "unknown-resume",
                                  "unknown-reply", "unknown-owner"}

\* SAFETY.  Once the agent is up, a row in EXECUTING has an activation that
\* waits for its transfer: no crash leaves a row there for ever (L7).
NoStrandedExecution ==
  phase = "up" =>
    \A s \in Spends : spend[s].st = "EXECUTING" =>
      \E d \in 1..depth : frame[d].s = s /\ frame[d].pc \in {"transfer", "sent"}

\* The steps at which a process that dies leaves a settling task behind a request in
\* state st, for good or until the owner decides: the claim was committed and the gate
\* not passed (the residual of pilot_spending.cpp:632); the request was held and its
\* task not parked, and its approval may have come too late since; it was approved and
\* not started; it was found interrupted and its task not told.
CutAt(st) ==
  CASE st = "CREATED"                       -> {"gate"}
    [] st \in {"HELD", "NOTIFIED", "EXPIRED"} -> {"holding", "park"}
    [] st = "APPROVED"                      -> {"execute"}
    [] st = "TX_UNKNOWN"                    -> {"unknown-advance"}
    [] OTHER                                -> {}

\* SAFETY.  When no call runs, a task is 'settling' only if the process died at the very
\* step of its settlement that has nobody to repeat it.  A request that was paid, failed,
\* rejected or runs has no such step: whatever was served in between, its task is told
\* by an activation or by the next start (M7).  One in TX_UNKNOWN has: dying between
\* its commit and the report (pilot_spending.cpp:657 and 665) leaves the task 'settling'
\* on every later start, against pilot_spending.cpp:630-631; no other crash does.
SettlingReconciled ==
  Quiescent =>
    \A o \in OutTasks : out[o].st = "settling" =>
      /\ out[o].s \in Spends
      /\ \E pc \in CutAt(spend[out[o].s].st) : <<out[o].s, pc>> \in cut

\* What docs/security-model.md:128 and pilot_spending.cpp:631 say: a spend
\* that was interrupted is surfaced to the owner on the next start.
UnknownSurfaced ==
  phase = "up" => \A s \in Spends : spend[s].st = "TX_UNKNOWN" => s \in surfaced

\* LIVENESS.  A request parked behind the owner never waits for ever: it is
\* decided or it expires, also across a restart.
EveryHeldRequestDecided ==
  \A s \in Spends : Decidable(s) ~> ~Decidable(s)

\* LIVENESS.  A transfer that was started gets an outcome: the wallet's, the
\* ceiling's, or TX_UNKNOWN from the next start.
EveryTransferResolved ==
  \A s \in Spends : spend[s].st = "EXECUTING" ~>
     spend[s].st \in {"COMPLETED", "TX_FAILED", "TX_UNKNOWN"}

\* LIVENESS.  A claimed settlement ends, unless the process dies in it (the
\* residual that pilot_spending.cpp:632 names).
EverySettlementEnds ==
  \A o \in OutTasks : out[o].st = "settling" ~> out[o].st # "settling" \/ crashes > 0

\* LIVENESS.  A restart ends with the identity loaded: no call served in the
\* middle of recovery keeps it from finishing.
RecoveryCompletes == phase = "down" ~> phase = "up"
===============================================================================
