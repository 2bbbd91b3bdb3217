---------------------------- MODULE TaskPayments ----------------------------
(***************************************************************************)
(* The A2A paths that create or decide spend requests.                     *)
(*                                                                         *)
(* Outbound (pilot_a2a.cpp): we submit a priced task to a peer and pay     *)
(* when it reports 'completed'.  Inbound (pilot_a2a_inbox.cpp): a peer     *)
(* asks us to run wallet-send, which always waits for the owner.           *)
(*                                                                         *)
(* Replies and requests reach these actions already authenticated: they    *)
(* can only be decrypted and checked once the identity is loaded, so all   *)
(* of them need phase = "up".  Delivery is at-least-once and unordered:    *)
(* any reply may arrive at any time and any number of times.               *)
(***************************************************************************)
EXTENDS Spending

Verdicts == {"failed", "canceled", "rejected"}

-------------------------------------------------------------------------------
(***************************************************************************)
(* Outbound tasks.                                                         *)
(***************************************************************************)
SetOut(o, st) == out' = [out EXCEPT ![o].st = st]

SubmitTask(o, price) ==
  /\ phase = "up" /\ Served /\ out[o].st = "none"
  /\ out' = [out EXCEPT ![o] = [st |-> "submitted", price |-> price, s |-> None]]
  /\ UNCHANGED <<spend, inb, stack, phase, now, orphan, hist>>

CancelTask(o) ==
  /\ phase = "up" /\ Served /\ out[o].st = "submitted"
  /\ SetOut(o, "canceled")
  /\ UNCHANGED <<spend, inb, stack, phase, now, orphan, hist>>

\* 'completed' for a task without a price, or from a peer whose card declares
\* no payout account.
CompletedUnpaid(o) ==
  /\ phase = "up" /\ Served /\ out[o].st = "submitted"
  /\ SetOut(o, IF out[o].price = 0 THEN "accepted-nopay" ELSE "pay-failed")
  /\ UNCHANGED <<spend, inb, stack, phase, now, orphan, hist>>

\* Mutant: settles without claiming the task.
CompletedPayableUnclaimed(o, s) ==
  /\ phase = "up" /\ out[o].st \in {"submitted", "settling", "awaiting-approval"}
  /\ out[o].price > 0 /\ Fresh(s)
  /\ spend' = Created(s, out[o].price)
  /\ out' = [out EXCEPT ![o].st = "settling", ![o].s = s]
  /\ Begin("settle", "gate", s, o, FALSE, {})
  /\ UNCHANGED <<inb, phase, now, orphan, hist>>

\* 'completed' for a priced task: claim, create and link in one transaction,
\* then the gate.
CompletedPayable(o, s) ==
  /\ phase = "up" /\ out[o].st = "submitted" /\ out[o].price > 0 /\ Fresh(s)
  /\ spend' = Created(s, out[o].price)
  /\ out' = [out EXCEPT ![o].st = "settling", ![o].s = s]
  /\ Begin("settle", "gate", s, o, FALSE, {})
  /\ UNCHANGED <<inb, phase, now, orphan, hist>>

\* After holdForApproval the row is parked, whatever was served meanwhile.
ParkTask ==
  /\ At("park")
  /\ SetOut(Top.t, "awaiting-approval")
  /\ Return
  /\ UNCHANGED <<spend, inb, phase, now, orphan, hist>>

\* Mutant: a failed transfer leaves the row as it is.
RecordSuccessOnly ==
  /\ At("record")
  /\ IF Top.ok THEN SetOut(Top.t, "paid") ELSE UNCHANGED out
  /\ Return
  /\ UNCHANGED <<spend, inb, phase, now, orphan, hist>>

\* After executeSpend the row records its result, whatever was served
\* meanwhile.
RecordSettlement ==
  /\ At("record")
  /\ SetOut(Top.t, IF Top.ok THEN "paid" ELSE "pay-failed")
  /\ Return
  /\ UNCHANGED <<spend, inb, phase, now, orphan, hist>>

\* A negative reply stops a task that is not decided yet.
NegativeReply(o, verdict) ==
  /\ phase = "up" /\ Served /\ out[o].st \in {"submitted", "settling"}
  /\ SetOut(o, verdict)
  /\ UNCHANGED <<spend, inb, stack, phase, now, orphan, hist>>

\* A negative reply to a task parked behind the owner withdraws the request,
\* by the path of an owner's rejection.
RetractHeld(o) ==
  /\ phase = "up" /\ out[o].st = "awaiting-approval" /\ out[o].s \in Spends
  /\ Reject(out[o].s)

-------------------------------------------------------------------------------
(***************************************************************************)
(* Inbound wallet-send tasks.                                              *)
(***************************************************************************)
\* inboundTaskSetState never leaves a terminal state.
Terminal == {"completed", "failed", "canceled"}

SetInb(i, st) == inb' = [inb EXCEPT ![i].st = st]

AcceptWalletSend(i) ==
  /\ phase = "up" /\ inb[i].st = "none"
  /\ \E s \in Spends : Fresh(s)         \* bound: an identifier is left
  /\ SetInb(i, "accepted")
  /\ Begin("inbound", "held-spend", None, i, FALSE, {})
  /\ UNCHANGED <<spend, out, phase, now, orphan, hist>>

\* A task over the sender's rate limit, or without a recipient.
RefuseWalletSend(i) ==
  /\ phase = "up" /\ Served /\ inb[i].st = "none"
  /\ SetInb(i, "failed")
  /\ UNCHANGED <<spend, out, stack, phase, now, orphan, hist>>

\* Mutant: a small inbound request takes the autonomous path.
HoldInboundUnlessSmall(s, a) ==
  /\ At("held-spend") /\ spend[s].st = "none"
  /\ inb' = [inb EXCEPT ![Top.t] = [st |-> "input-required", s |-> s]]
  /\ IF a <= PerTxLimit
       THEN /\ spend' = [spend EXCEPT ![s] = [st |-> "EXECUTING", amount |-> a, at |-> now]]
            /\ autoGrants' = [autoGrants EXCEPT ![s] = @ + 1]
            /\ Become([Top EXCEPT !.pc = "transfer", !.s = s])
       ELSE /\ spend' = [spend EXCEPT ![s] = [st |-> "HELD", amount |-> a, at |-> now]]
            /\ UNCHANGED autoGrants
            /\ Goto("announce")
  /\ UNCHANGED <<out, phase, now, orphan, moved, ownerGrants, surfaced>>

\* Create, link, park and hold in one transaction; the owner is told after it.
HoldInbound(s, a) ==
  /\ At("held-spend") /\ spend[s].st = "none"
  /\ spend' = [spend EXCEPT ![s] = [st |-> "HELD", amount |-> a, at |-> now]]
  /\ inb' = [inb EXCEPT ![Top.t] = [st |-> "input-required", s |-> s]]
  /\ Goto("announce")
  /\ UNCHANGED <<out, phase, now, orphan, hist>>

\* The request stays HELD: its notification is sent but not recorded.
Announced ==
  /\ At("announce")
  /\ Return
  /\ UNCHANGED <<db, phase, now, orphan, hist>>

\* tasks/cancel from the peer that sent the task: first the task ...
PeerCancels(i) ==
  /\ phase = "up" /\ inb[i].st \notin Terminal \cup {"none"}
  /\ SetInb(i, "canceled")
  /\ Begin("cancel", "release", inb[i].s, i, FALSE, {})
  /\ UNCHANGED <<spend, out, phase, now, orphan, hist>>

\* Mutant: only a request the owner was told of is released.
ReleaseNotifiedSpend ==
  /\ At("release")
  /\ IF Top.s \in Spends /\ spend[Top.s].st = "NOTIFIED"
       THEN SetSpend(Top.s, "REJECTED") ELSE UNCHANGED spend
  /\ Return
  /\ UNCHANGED <<out, inb, phase, now, orphan, hist>>

\* ... then, in a second transaction, the request behind it.
ReleaseHeldSpend ==
  /\ At("release")
  /\ IF Top.s \in Spends /\ Decidable(Top.s) THEN SetSpend(Top.s, "REJECTED")
                                            ELSE UNCHANGED spend
  /\ Return
  /\ UNCHANGED <<out, inb, phase, now, orphan, hist>>

-------------------------------------------------------------------------------
TaskProgress ==
  \/ ParkTask
  \/ RecordSettlement
  \/ \E s \in Spends, a \in Amounts : HoldInbound(s, a)
  \/ Announced
  \/ ReleaseHeldSpend

TaskRequests ==
  \/ \E o \in OutTasks :
       \/ \E price \in Amounts \cup {0} : SubmitTask(o, price)
       \/ CancelTask(o)
       \/ CompletedUnpaid(o)
       \/ \E s \in Spends : CompletedPayable(o, s)
       \/ \E verdict \in Verdicts : NegativeReply(o, verdict)
       \/ RetractHeld(o)
  \/ \E i \in InTasks : AcceptWalletSend(i) \/ RefuseWalletSend(i) \/ PeerCancels(i)

TaskNext == SpendingNext \/ TaskProgress \/ TaskRequests

-------------------------------------------------------------------------------
(***************************************************************************)
(* Properties.                                                             *)
(***************************************************************************)
\* SAFETY.  The request of an inbound wallet-send is never let through by the
\* limits, whatever its amount: a peer is not the owner.
InboundNeverAutonomous ==
  \A i \in InTasks : inb[i].s \in Spends => autoGrants[inb[i].s] = 0

\* SAFETY.  A task reads 'paid', or an inbound wallet-send 'completed', only
\* if the wallet moved the money, in every order of nested replies, owner
\* decisions and crashes.
PaidMeansMoved ==
  /\ \A o \in OutTasks : out[o].st = "paid" => out[o].s \in Spends /\ moved[out[o].s] > 0
  /\ \A i \in InTasks : inb[i].st = "completed" => inb[i].s \in Spends /\ moved[inb[i].s] > 0

\* SAFETY, while the process lives.  When no call runs, a task that waits for
\* the owner has a request the owner, or the expiry, can still decide; only a
\* request that an approval came too late for is already EXPIRED.
WaitingTaskHasOpenSpend ==
  Quiescent =>
    /\ \A o \in OutTasks : out[o].st = "awaiting-approval" =>
          spend[out[o].s].st \in {"HELD", "NOTIFIED", "EXPIRED"}
    /\ \A i \in InTasks : inb[i].st = "input-required" =>
          spend[inb[i].s].st \in {"HELD", "EXPIRED"}

\* ACTION, while the process lives.  Once a peer withdrew its task no owner
\* approval of the request behind it is accepted (releaseHeldSpend, L3).
WithdrawnNeverGranted ==
  [][\A i \in InTasks : inb[i].st = "canceled" /\ inb[i].s \in Spends =>
        ownerGrants'[inb[i].s] = ownerGrants[inb[i].s]]_vars

\* ACTION.  A task is settled through one request only: neither a repeated
\* 'completed' nor the recovery after a crash creates a second one for it.
SettledThroughOneSpend ==
  [][\A o \in OutTasks : out[o].s \in Spends => out'[o].s = out[o].s]_vars

\* ACTION.  A peer that was given a final answer is never given another one
\* (the monotonic guard L5), also when the process restarts.
InboundTerminalFinal ==
  [][\A i \in InTasks : inb[i].st \in Terminal => inb'[i] = inb[i]]_vars

\* What pilot_spending.cpp:386-389 and 474-478 say: no outbound task is left
\* in 'awaiting-approval' behind a request that is decided (M6).
NeverOrphaned ==
  Quiescent => \A o \in OutTasks : out[o].st = "awaiting-approval" =>
                 Decidable(out[o].s)
===============================================================================
