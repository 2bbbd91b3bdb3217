--------------------------- MODULE SettlementProofs ---------------------------
(***************************************************************************)
(* The last theorems about PilotAgent, for every value of its constants:   *)
(* when nothing runs, a task is 'settling' only if the process died at a   *)
(* step of its settlement that nobody repeats; and while the process       *)
(* lives, no task waits for an owner who cannot decide, and no withdrawn   *)
(* one can still be approved.  They rest on the invariants of the modules  *)
(* it extends.                                                             *)
(***************************************************************************)
EXTENDS TaskProofs, RecoveryProofs

USE SpendingAssumption, CrashAssumption

-------------------------------------------------------------------------------
(***************************************************************************)
(* Whose request is whose.  A request is that of one outbound task, of one *)
(* inbound task or of a plain send, never of two.                          *)
(***************************************************************************)
Linked(s) == \E o \in OutTasks : out[o].s = s

\* Activations that act for a request of no outbound task.
Outsider(f) == f.op = "send" \/ f.pc = "release"

\* Which operations are at the gate and in the wallet, and where a send can be.
FrameOwn(f) ==
  /\ f.op = "send" => f.pc \in {"gate", "holding", "transfer", "sent"}
  /\ f.pc \in {"gate", "holding", "park"} => f.op \in {"send", "settle"}
  /\ f.pc \in {"execute", "transfer", "sent"} => f.op \in {"send", "settle", "approve"}

OwnInv ==
  /\ \A o, p \in OutTasks : out[o].s \in Spends /\ out[p].s = out[o].s => o = p
  /\ \A o \in OutTasks : out[o].s \in Spends =>
       spend[out[o].s].st # "none" /\ \A i \in InTasks : inb[i].s # out[o].s
  /\ \A o \in OutTasks : out[o].st = "settling" => out[o].s \in Spends
  /\ \A d \in 1..depth :
       /\ FrameOwn(frame[d])
       /\ Outsider(frame[d]) /\ frame[d].s \in Spends =>
            spend[frame[d].s].st # "none" /\ ~Linked(frame[d].s)

-------------------------------------------------------------------------------
(***************************************************************************)
(* Who will tell the task.  A settling task has a request that runs, or    *)
(* one that an activation is about to move on, or was when the process     *)
(* died; or the request is over, and an activation will write that to the  *)
(* task, or recovery has not compared tasks and requests yet.              *)
(***************************************************************************)
Compared == {"COMPLETED", "TX_FAILED", "REJECTED", "EXPIRED"}

\* Activation f will write the outcome of s to its task o: it settles the task, it
\* executes an approval of s, or s is on its list.
Owes(f, o, s) ==
  \/ /\ f.op = "settle" /\ f.t = o
     /\ f.pc \in {"gate", "holding", "park", "transfer", "sent", "record"}
  \/ /\ f.op = "approve" /\ f.s = s
     /\ f.pc \in {"execute", "transfer", "sent"}
  \/ f.pc \in {"notify", "advance", "replying"} /\ s \in f.todo

Owed(o) == \E d \in 1..depth : Owes(frame[d], o, out[o].s)

Tended(o) ==
  \/ spend[out[o].s].st = "EXECUTING"
  \/ \E d \in 1..depth : frame[d].s = out[o].s /\ frame[d].pc \in CutAt(spend[out[o].s].st)
  \/ \E pc \in CutAt(spend[out[o].s].st) : <<out[o].s, pc>> \in cut
  \/ /\ spend[out[o].s].st \in Compared
     /\ phase = "down" \/ Owed(o) \/ (phase = "db" /\ frame[1].pc \in Selecting)

SettledInv == \A o \in OutTasks : out[o].st = "settling" => Tended(o)

\* The invariants of the other modules, and those of this one.
Known     == TypeOK /\ TaskInv /\ StrandInv /\ PaidInv
SettleInv == Known /\ OwnInv /\ SettledInv

-------------------------------------------------------------------------------
(***************************************************************************)
(* What steps leave alone.                                                 *)
(***************************************************************************)
OutKept == \A o \in OutTasks : /\ out'[o].s = out[o].s
                               /\ out'[o].st = "settling" => out[o].st = "settling"
InbKept == \A i \in InTasks : inb'[i].s = inb[i].s

OutsidersKept ==
  \A d \in 1..depth' :
    /\ FrameOwn(frame'[d])
    /\ Outsider(frame'[d]) => d \in 1..depth /\ Outsider(frame[d]) /\ frame'[d].s = frame[d].s

OwedKept == \A o \in OutTasks : out'[o].st = "settling" /\ Owed(o) => Owed(o)'

\* Only the requests of X change their state; an activation at half of a settlement
\* stays there, unless it is that of X.
TouchesOnly(X) == \A s \in Spends : s \notin X => spend'[s].st = spend[s].st
HalvesKept(X) ==
  \A d \in 1..depth : frame[d].pc \in Halves /\ frame[d].s \notin X =>
    d \in 1..depth' /\ frame'[d].s = frame[d].s /\ frame'[d].pc = frame[d].pc

\* The tasks of X are told of, or not settling any more.
TendedAfter(X) ==
  \A o \in OutTasks : out[o].s \in X /\ out[o].s \in Spends /\ out'[o].st = "settling" =>
    Tended(o)'

Orderly(X) == Plain /\ OutsidersKept /\ OwedKept /\ HalvesKept(X)

LEMMA CutAtHalves ==
  ASSUME NEW st
  PROVE  CutAt(st) \subseteq Halves
BY DEF CutAt, Halves

LEMMA OwnKeeps ==
  ASSUME OwnInv, RowsKept, OutKept, InbKept, OutsidersKept
  PROVE  OwnInv'
<1>1. \A s : Linked(s)' => Linked(s)
  BY DEF Linked, OutKept
<1>2. ASSUME NEW d \in 1..depth'
      PROVE  /\ FrameOwn(frame'[d])
             /\ Outsider(frame'[d]) /\ frame'[d].s \in Spends =>
                  spend'[frame'[d].s].st # "none" /\ \A o \in OutTasks : out'[o].s # frame'[d].s
  BY DEF OwnInv, OutsidersKept, RowsKept, OutKept, Linked
<1>3. /\ \A o, p \in OutTasks : out'[o].s \in Spends /\ out'[p].s = out'[o].s => o = p
      /\ \A o \in OutTasks : out'[o].s \in Spends =>
           spend'[out'[o].s].st # "none" /\ \A i \in InTasks : inb'[i].s # out'[o].s
      /\ \A o \in OutTasks : out'[o].st = "settling" => out'[o].s \in Spends
  BY DEF OwnInv, OutKept, InbKept, RowsKept
<1> QED BY <1>2, <1>3 DEF OwnInv, Linked

LEMMA SettledKeeps ==
  ASSUME OwnInv, SettledInv, OutKept, Plain, OwedKept, UNCHANGED life, NEW X, TouchesOnly(X),
         HalvesKept(X), TendedAfter(X)
  PROVE  SettledInv'
<1> SUFFICES ASSUME NEW o \in OutTasks, out'[o].st = "settling"
             PROVE  Tended(o)'
  BY DEF SettledInv
<1>1. out[o].st = "settling" /\ out'[o].s = out[o].s /\ out[o].s \in Spends
  BY DEF OutKept, OwnInv
<1>2. CASE out[o].s \in X
  BY <1>1, <1>2 DEF TendedAfter
<1>3. CASE out[o].s \notin X
  <2>1. spend'[out'[o].s].st = spend[out[o].s].st /\ UNCHANGED cut
    BY <1>1, <1>3 DEF TouchesOnly, life
  <2>2. UNCHANGED phase /\ (phase = "db" => frame'[1] = frame[1]) /\ (Owed(o) => Owed(o)')
    BY DEF Plain, OwedKept
  <2>3. Tended(o)
    BY <1>1 DEF SettledInv
  <2>4. ASSUME NEW d \in 1..depth, frame[d].s = out[o].s,
               frame[d].pc \in CutAt(spend[out[o].s].st)
        PROVE  Tended(o)'
    <3>1. d \in 1..depth' /\ frame'[d].s = frame[d].s /\ frame'[d].pc = frame[d].pc
      BY <1>3, <2>4, CutAtHalves DEF HalvesKept
    <3> QED BY <1>1, <2>1, <2>4, <3>1 DEF Tended
  <2>5. CASE \/ spend[out[o].s].st = "EXECUTING"
             \/ \E pc \in CutAt(spend[out[o].s].st) : <<out[o].s, pc>> \in cut
    BY <1>1, <2>1, <2>5 DEF Tended
  <2>6. CASE /\ spend[out[o].s].st \in Compared
             /\ phase = "down" \/ Owed(o) \/ (phase = "db" /\ frame[1].pc \in Selecting)
    <3>1. phase' = "down" \/ Owed(o)' \/ (phase' = "db" /\ frame'[1].pc \in Selecting)
      BY <2>2, <2>6
    <3> QED BY <2>1, <2>6, <3>1 DEF Tended
  <2> QED BY <2>3, <2>4, <2>5, <2>6 DEF Tended
<1> QED BY <1>2, <1>3

LEMMA OrderlyKeeps ==
  ASSUME SettleInv, UNCHANGED life, RowsKept, OutKept, InbKept, NEW X, Orderly(X),
         TouchesOnly(X), TendedAfter(X)
  PROVE  OwnInv' /\ SettledInv'
BY OwnKeeps, SettledKeeps DEF SettleInv, Orderly

\* Steps that change the state of no request.
LEMMA StillKeeps ==
  ASSUME SettleInv, UNCHANGED life, RowsKept, OutKept, InbKept, Orderly({}), TouchesOnly({})
  PROVE  OwnInv' /\ SettledInv'
<1>1. TendedAfter({})
  BY DEF TendedAfter
<1> QED BY <1>1, OrderlyKeeps

-------------------------------------------------------------------------------
(***************************************************************************)
(* The stack.                                                              *)
(***************************************************************************)
LEMMA TopOwn ==
  ASSUME SettleInv, depth > 0
  PROVE  /\ depth \in 1..MaxDepth /\ depth \in 1..depth /\ Top \in Frames /\ FrameOwn(Top)
         /\ FrameOK(Top, out, moved)
         /\ Outsider(Top) /\ Top.s \in Spends => ~Linked(Top.s)
BY TopType DEF SettleInv, Known, PaidInv, StackPays, OwnInv, TypeOK, StackOK, Top

LEMMA StayOrderly ==
  ASSUME SettleInv, UNCHANGED <<stack, phase>>, OutKept, NEW X
  PROVE  Orderly(X)
<1>1. Plain
  BY StayCalm DEF Calm, SettleInv, Known
<1>2. OutsidersKept
  BY DEF OutsidersKept, stack, SettleInv, OwnInv
<1>3. OwedKept /\ HalvesKept(X)
  BY DEF OwedKept, Owed, OutKept, HalvesKept, stack
<1> QED BY <1>1, <1>2, <1>3 DEF Orderly

LEMMA ReturnOrderly ==
  ASSUME SettleInv, depth > 0, Top.pc \notin Restarting, Return, UNCHANGED phase, OutKept,
         \A o \in OutTasks : out'[o].st = "settling" => ~Owes(Top, o, out[o].s),
         NEW X, Top.pc \in Halves => Top.s \in X
  PROVE  Orderly(X)
<1>1. Plain
  BY ReturnCalm DEF Calm, SettleInv, Known
<1>2. depth' = depth - 1 /\ depth \in 1..MaxDepth
      /\ \A d \in 1..depth' : d \in 1..depth /\ frame'[d] = frame[d]
  BY TopOwn DEF Return, SettleInv, Known, TypeOK, StackOK
<1>3. OutsidersKept
  BY <1>2 DEF OutsidersKept, SettleInv, OwnInv
<1>4. ASSUME NEW o \in OutTasks, out'[o].st = "settling", Owed(o)
      PROVE  Owed(o)'
  <2>1. PICK d \in 1..depth : Owes(frame[d], o, out[o].s)
    BY <1>4 DEF Owed
  <2>2. d # depth
    BY <1>4, <2>1 DEF Top
  <2>3. d \in 1..depth' /\ frame'[d] = frame[d] /\ out'[o].s = out[o].s
    BY <1>2, <2>2 DEF OutKept
  <2> QED BY <2>1, <2>3 DEF Owed
<1>5. HalvesKept(X)
  BY <1>2 DEF HalvesKept, Top
<1> QED BY <1>1, <1>3, <1>4, <1>5 DEF Orderly, OwedKept

LEMMA BecomeOrderly ==
  ASSUME SettleInv, depth > 0, Top.pc \notin Restarting, UNCHANGED phase, OutKept,
         NEW f, Become(f), f.pc \notin Restarting, FrameOwn(f),
         Outsider(f) => Outsider(Top) /\ f.s = Top.s,
         \A o \in OutTasks : out'[o].st = "settling" /\ Owes(Top, o, out[o].s) =>
                               Owes(f, o, out[o].s),
         NEW X, Top.pc \in Halves => Top.s \in X
  PROVE  Orderly(X)
<1>1. Plain
  BY BecomeCalm DEF Calm, SettleInv, Known
<1>2. /\ depth' = depth /\ depth \in 1..depth /\ frame'[depth] = f
      /\ \A d \in 1..depth : d # depth => frame'[d] = frame[d]
  BY TopOwn DEF Become, SettleInv, Known, TypeOK, StackOK
<1>3. OutsidersKept
  BY <1>2 DEF OutsidersKept, SettleInv, OwnInv, Top
<1>4. ASSUME NEW o \in OutTasks, out'[o].st = "settling", Owed(o)
      PROVE  Owed(o)'
  <2>1. PICK d \in 1..depth : Owes(frame[d], o, out[o].s)
    BY <1>4 DEF Owed
  <2>2. Owes(frame'[d], o, out[o].s)
    BY <1>2, <1>4, <2>1 DEF Top
  <2> QED BY <1>2, <2>1, <2>2 DEF Owed, OutKept
<1>5. HalvesKept(X)
  BY <1>2 DEF HalvesKept, Top
<1> QED BY <1>1, <1>3, <1>4, <1>5 DEF Orderly, OwedKept

\* A call that is served owes what is on its list, and takes nothing from the others.
LEMMA BeginKeeps ==
  ASSUME SettleInv, phase # "down", UNCHANGED phase, NEW op, NEW pc, NEW s, NEW t, NEW todo,
         Begin(op, pc, s, t, FALSE, todo), pc \notin Restarting, FrameOwn(frame'[depth + 1]),
         NEW X
  PROVE  /\ Plain /\ HalvesKept(X)
         /\ (\A o \in OutTasks : out'[o].s = out[o].s) => OwedKept
         /\ depth' = depth + 1 /\ depth \in Nat
         /\ \A d \in 1..depth : frame'[d] = frame[d] /\ FrameOwn(frame[d])
         /\ frame'[depth + 1] = [op |-> op, pc |-> pc, s |-> s, t |-> t, ok |-> FALSE,
                                  todo |-> todo]
<1>1. Plain
  BY BeginCalm DEF Calm, SettleInv, Known
<1>2. /\ depth' = depth + 1 /\ depth \in Nat
      /\ \A d \in 1..depth : frame'[d] = frame[d] /\ FrameOwn(frame[d])
      /\ frame'[depth + 1] = [op |-> op, pc |-> pc, s |-> s, t |-> t, ok |-> FALSE,
                              todo |-> todo]
  BY DEF Begin, SettleInv, OwnInv, Known, TypeOK, StackOK
<1>3. (\A o \in OutTasks : out'[o].s = out[o].s) => OwedKept
  BY <1>2 DEF OwedKept, Owed
<1>4. HalvesKept(X)
  BY <1>2 DEF HalvesKept
<1> QED BY <1>1, <1>2, <1>3, <1>4

LEMMA BeginOrderly ==
  ASSUME SettleInv, phase # "down", UNCHANGED phase, OutKept,
         NEW op, NEW pc, NEW s, NEW t, NEW todo, Begin(op, pc, s, t, FALSE, todo),
         pc \notin Restarting \cup {"gate", "holding", "park", "transfer", "sent", "release"},
         op # "send", pc = "execute" => op = "approve", NEW X
  PROVE  Orderly(X)
<1> DEFINE f == [op |-> op, pc |-> pc, s |-> s, t |-> t, ok |-> FALSE, todo |-> todo]
<1>1. frame'[depth + 1] = f
  BY DEF Begin, SettleInv, Known, TypeOK, StackOK
<1>2. FrameOwn(f) /\ ~Outsider(f)
  BY DEF FrameOwn, Outsider
<1>3. /\ Plain /\ OwedKept /\ depth' = depth + 1 /\ depth \in Nat
      /\ HalvesKept(X)
      /\ \A d \in 1..depth : frame'[d] = frame[d] /\ FrameOwn(frame[d])
  BY <1>1, <1>2, BeginKeeps DEF OutKept
<1> HIDE DEF f
<1>4. OutsidersKept
  BY <1>1, <1>2, <1>3 DEF OutsidersKept
<1> QED BY <1>3, <1>4 DEF Orderly

\* The activation that begins is the top one, and owes what is on its list.
LEMMA BeginTop ==
  ASSUME SettleInv, OutKept,
         NEW op, NEW pc, NEW s, NEW t, NEW todo, Begin(op, pc, s, t, FALSE, todo)
  PROVE  /\ \A o \in OutTasks : pc = "notify" /\ out[o].s \in todo => Owed(o)'
         /\ depth + 1 \in 1..depth' /\ frame'[depth + 1].pc = pc /\ frame'[depth + 1].s = s
<1> DEFINE f == [op |-> op, pc |-> pc, s |-> s, t |-> t, ok |-> FALSE, todo |-> todo]
<1>1. frame'[depth + 1] = f /\ depth + 1 \in 1..depth'
  BY DEF Begin, SettleInv, Known, TypeOK, StackOK
<1>2. f.pc = pc /\ f.s = s /\ \A o, x : pc = "notify" /\ x \in todo => Owes(f, o, x)
  BY DEF Owes
<1> HIDE DEF f
<1>3. \A o \in OutTasks : pc = "notify" /\ out[o].s \in todo => Owed(o)'
  BY <1>1, <1>2 DEF Owed, OutKept
<1> QED BY <1>1, <1>2, <1>3

\* The steps of an activation from the gate, from an approval and from an acceptance.
Onward(pc) ==
  \/ Top.pc = "gate" /\ pc \in {"holding", "transfer"}
  \/ Top.pc \in {"gate", "holding"} /\ pc = "park" /\ Top.op = "settle"
  \/ Top.pc = "execute" /\ pc = "transfer"
  \/ Top.pc = "held-spend" /\ pc = "announce"

LEMMA GotoOrderly ==
  ASSUME SettleInv, depth > 0, UNCHANGED phase, OutKept, NEW pc, Goto(pc), Onward(pc),
         NEW X, Top.pc \in Halves => Top.s \in X
  PROVE  /\ Orderly(X)
         /\ depth \in 1..depth' /\ frame'[depth].pc = pc /\ frame'[depth].s = Top.s
<1> DEFINE f == [Top EXCEPT !.pc = pc]
<1>1. Top \in Frames /\ FrameOwn(Top)
  BY TopOwn
<1>2. f.pc = pc /\ f.op = Top.op /\ f.s = Top.s /\ f.t = Top.t /\ f.todo = Top.todo
  BY <1>1 DEF Frames
<1>3. Become(f)
  BY DEF Goto
<1> HIDE DEF f
<1>4. Top.pc \notin Restarting /\ f.pc \notin Restarting
  BY <1>2 DEF Onward, Restarting, Selecting
<1>5. FrameOwn(f) /\ (Outsider(f) => Outsider(Top) /\ f.s = Top.s)
  BY <1>1, <1>2 DEF FrameOwn, Outsider, Onward
<1>6. \A o, s : Owes(Top, o, s) => Owes(f, o, s)
  BY <1>1, <1>2 DEF Owes, Onward, FrameOwn
<1>7. Orderly(X)
  BY <1>3, <1>4, <1>5, <1>6, BecomeOrderly
<1>8. depth \in 1..depth' /\ frame'[depth] = f
  BY <1>3, TopOwn DEF Become, SettleInv, Known, TypeOK, StackOK
<1> QED BY <1>2, <1>7, <1>8

\* What the steps write in the tables.
LEMMA SetSpendTouches ==
  ASSUME SpendOK, NEW s, NEW st, SetSpend(s, st)
  PROVE  TouchesOnly({s}) /\ (s \in Spends => spend'[s].st = st)
BY DEF SpendOK, SetSpend, TouchesOnly, Rows

LEMMA CreatedTouches ==
  ASSUME SpendOK, NEW s \in Spends, NEW a, spend' = Created(s, a)
  PROVE  TouchesOnly({s}) /\ spend'[s].st = "CREATED"
BY DEF SpendOK, Created, TouchesOnly

LEMMA ExpiredTouches ==
  ASSUME SpendOK, NEW S \in SUBSET Spends, spend' = AllExpired(S)
  PROVE  TouchesOnly(S) /\ \A s \in S : spend'[s].st = "EXPIRED"
BY DEF SpendOK, AllExpired, TouchesOnly, Rows

\* A request of no task has nobody to tell.
LEMMA UnlinkedTended ==
  ASSUME NEW s, s \in Spends => ~Linked(s)
  PROVE  TendedAfter({s})
BY DEF TendedAfter, Linked

LEMMA SetOutKept ==
  ASSUME OutOK, NEW o, NEW st, st # "settling", SetOut(o, st)
  PROVE  /\ OutKept
         /\ o \in OutTasks => out'[o].st = st
BY DEF OutOK, SetOut, OutKept

LEMMA AdvanceOutKept ==
  ASSUME OutOK, NEW s, NEW st, st # "settling", out' = AdvanceLinked(s, st)
  PROVE  /\ OutKept
         /\ \A o \in OutTasks : out[o].s = s => out'[o].st # "settling"
BY DEF OutOK, AdvanceLinked, OutKept

LEMMA InbStays ==
  /\ LinksKept => InbKept
  /\ UNCHANGED inb => InbKept
  /\ UNCHANGED out => OutKept
  /\ UNCHANGED spend => TouchesOnly({}) /\ RowsKept
BY DEF LinksKept, InbKept, OutKept, TouchesOnly, RowsKept

-------------------------------------------------------------------------------
(***************************************************************************)
(* One case per action.                                                    *)
(***************************************************************************)
LEMMA ProgressSettles ==
  ASSUME SettleInv, UNCHANGED life, Progress
  PROVE  OwnInv' /\ SettledInv'
<1> USE InbStays
<1>0. SpendOK /\ OutOK /\ InbOK
  BY DEF SettleInv, Known, TypeOK
<1>1. CASE GateExecute \/ ExecuteApproved
  <2>1. depth > 0 /\ UNCHANGED <<out, inb, phase>> /\ SetSpend(Top.s, "EXECUTING")
        /\ Goto("transfer") /\ Onward("transfer")
    BY <1>1 DEF GateExecute, ExecuteApproved, At, Onward
  <2>2. Orderly({Top.s})
    BY <2>1, GotoOrderly
  <2>3. /\ TouchesOnly({Top.s}) /\ RowsKept
        /\ Top.s \in Spends => spend'[Top.s].st = "EXECUTING"
    BY <1>0, <2>1, SetSpendTouches, SetSpendKeeps
  <2>4. TendedAfter({Top.s})
    BY <2>1, <2>3 DEF TendedAfter, Tended
  <2> QED BY <2>1, <2>2, <2>3, <2>4, OrderlyKeeps
<1>2. CASE (\E notified \in BOOLEAN : GateHold(notified)) \/ HoldNotified
  <2>1. /\ depth > 0 /\ UNCHANGED <<out, inb, phase>>
        /\ SetSpend(Top.s, "HELD") \/ SetSpend(Top.s, "NOTIFIED")
        /\ Top.pc \in {"gate", "holding"}
    BY <1>2 DEF GateHold, HoldNotified, At
  <2>2. /\ TouchesOnly({Top.s}) /\ RowsKept
        /\ Top.s \in Spends => spend'[Top.s].st \in {"HELD", "NOTIFIED"}
    BY <1>0, <2>1, SetSpendTouches, SetSpendKeeps
  <2>3. ASSUME NEW pc \in {"holding", "park"}, Goto(pc), Onward(pc)
        PROVE  OwnInv' /\ SettledInv'
    <3>1. /\ Orderly({Top.s})
          /\ depth \in 1..depth' /\ frame'[depth].pc = pc /\ frame'[depth].s = Top.s
      BY <2>1, <2>3, GotoOrderly
    <3>2. TendedAfter({Top.s})
      BY <2>1, <2>2, <3>1 DEF TendedAfter, Tended, CutAt
    <3> QED BY <2>1, <2>2, <3>1, <3>2, OrderlyKeeps
  <2>4. CASE Top.op # "settle" /\ Return
    <3>1. /\ Top.pc \notin Restarting
          /\ \A o \in OutTasks : ~Owes(Top, o, out[o].s)
      BY <2>1, <2>4 DEF Restarting, Selecting, Owes
    <3>2. Orderly({Top.s})
      BY <2>1, <2>4, <3>1, ReturnOrderly
    <3>3. TendedAfter({Top.s})
      BY <2>1, <2>4, TopOwn, UnlinkedTended DEF FrameOwn, Outsider
    <3> QED BY <2>1, <2>2, <3>2, <3>3, OrderlyKeeps
  <2> QED BY <1>2, <2>1, <2>3, <2>4 DEF GateHold, HoldNotified, AfterHold, At, Onward
<1>3. ASSUME NEW x \in Spends, ResumeTask(x)
      PROVE  OwnInv' /\ SettledInv'
  <2>1. depth > 0 /\ Top \in Frames /\ FrameOwn(Top) /\ Top.pc = "notify"
    BY <1>3, TopOwn DEF ResumeTask, At
  <2> DEFINE f == [Top EXCEPT !.s = x,
                              !.pc = IF ParkedFor(x) = {} THEN "advance" ELSE "replying"]
  <2>2. f.pc \in {"advance", "replying"} /\ f.op = Top.op /\ f.todo = Top.todo
    BY <2>1 DEF Frames
  <2>3. Become(f) /\ UNCHANGED <<spend, out, phase>> /\ inb' = ResumeInbound(x, Top.ok)
    BY <1>3 DEF ResumeTask
  <2> HIDE DEF f
  <2>4. Top.pc \notin Restarting /\ f.pc \notin Restarting /\ FrameOwn(f) /\ ~Outsider(f)
    BY <2>1, <2>2 DEF Restarting, Selecting, FrameOwn, Outsider
  <2>5. \A o, s : Owes(Top, o, s) => Owes(f, o, s)
    BY <2>1, <2>2 DEF Owes
  <2>6. Orderly({})
    BY <2>1, <2>3, <2>4, <2>5, BecomeOrderly DEF Halves
  <2>7. InbKept
    BY <1>0, <2>3, ResumeKeeps
  <2> QED BY <2>3, <2>6, <2>7, StillKeeps
<1>4. CASE AdvanceTask
  <2>1. depth > 0 /\ Top \in Frames /\ FrameOwn(Top) /\ Top.pc \in {"advance", "replying"}
    BY <1>4, TopOwn DEF AdvanceTask, At
  <2> DEFINE f == [Top EXCEPT !.todo = @ \ {Top.s}, !.pc = "notify"]
  <2>2. f.pc = "notify" /\ f.op = Top.op /\ f.todo = Top.todo \ {Top.s}
    BY <2>1 DEF Frames
  <2>3. /\ IF Top.todo = {Top.s} THEN Return ELSE Become(f)
        /\ UNCHANGED <<spend, inb, phase>>
        /\ out' = AdvanceLinked(Top.s, IF Top.ok THEN "paid" ELSE "pay-failed")
    BY <1>4 DEF AdvanceTask
  <2> HIDE DEF f
  <2>4. OutKept /\ \A o \in OutTasks : out[o].s = Top.s => out'[o].st # "settling"
    BY <1>0, <2>3, AdvanceOutKept
  <2>5. Top.pc \notin Restarting /\ f.pc \notin Restarting /\ FrameOwn(f) /\ ~Outsider(f)
    BY <2>1, <2>2 DEF Restarting, Selecting, FrameOwn, Outsider
  <2>6. \A o, s : Owes(Top, o, s) => s \in Top.todo
    BY <2>1 DEF Owes
  <2>7. \A o, s : s \in Top.todo /\ s # Top.s => Owes(f, o, s)
    BY <2>2 DEF Owes
  <2>8. CASE Top.todo = {Top.s}
    <3>1. \A o \in OutTasks : out'[o].st = "settling" => ~Owes(Top, o, out[o].s)
      BY <2>4, <2>6, <2>8
    <3>2. Orderly({})
      BY <2>1, <2>3, <2>4, <2>5, <2>8, <3>1, ReturnOrderly DEF Halves
    <3> QED BY <2>3, <2>4, <3>2, StillKeeps
  <2>9. CASE Top.todo # {Top.s}
    <3>1. \A o \in OutTasks : out'[o].st = "settling" /\ Owes(Top, o, out[o].s) =>
                                Owes(f, o, out[o].s)
      BY <2>4, <2>6, <2>7
    <3>2. Orderly({})
      BY <2>1, <2>3, <2>4, <2>5, <2>9, <3>1, BecomeOrderly DEF Halves
    <3> QED BY <2>3, <2>4, <3>2, StillKeeps
  <2> QED BY <2>8, <2>9
<1> QED BY <1>1, <1>2, <1>3, <1>4 DEF Progress

\* The wallet's answers give an outcome: to a plain send, which has no task, or to a
\* request whose activation goes on to tell its task.
LEMMA WalletSettles ==
  ASSUME SettleInv, UNCHANGED life, WalletAnswers
  PROVE  OwnInv' /\ SettledInv'
<1> USE InbStays
<1>1. /\ depth > 0 /\ Top.pc \in {"transfer", "sent"} /\ UNCHANGED <<out, inb, phase>>
      /\ \E ok \in BOOLEAN : AfterExecute(ok)
      /\ SetSpend(Top.s, "COMPLETED") \/ SetSpend(Top.s, "TX_FAILED")
  BY DEF WalletAnswers, TransferConfirmed, TransferRefused, TransferLost, At
<1>2. /\ depth \in 1..depth /\ Top \in Frames /\ FrameOwn(Top) /\ FrameOK(Top, out, moved)
      /\ Outsider(Top) /\ Top.s \in Spends => ~Linked(Top.s)
  BY <1>1, TopOwn
<1>3. /\ TouchesOnly({Top.s}) /\ RowsKept
      /\ Top.s \in Spends => spend'[Top.s].st \in Compared
  BY <1>1, SetSpendTouches, SetSpendKeeps DEF SettleInv, Known, TypeOK, Compared
<1>4. OwnInv /\ SettledInv /\ Top.pc \notin Restarting /\ Top.s \in Spends
      /\ Top.op \in {"send", "settle", "approve"}
  BY <1>1, <1>2 DEF SettleInv, FrameOwn, FrameOK, Acting, Restarting, Selecting
<1>5. PICK ok \in BOOLEAN : AfterExecute(ok)
  BY <1>1
<1> DEFINE f == [Top EXCEPT !.pc = "notify", !.ok = ok, !.todo = {Top.s}]
           g == [Top EXCEPT !.pc = "record", !.ok = ok]
<1>6. f.pc = "notify" /\ f.op = Top.op /\ f.todo = {Top.s}
  BY <1>2 DEF Frames
<1>7. g.pc = "record" /\ g.op = Top.op /\ g.t = Top.t /\ g.todo = Top.todo
  BY <1>2 DEF Frames
<1>8. \/ Top.op = "send" /\ Return
      \/ Top.op = "approve" /\ Become(f)
      \/ Top.op = "settle" /\ Become(g)
  BY <1>4, <1>5 DEF AfterExecute
<1> HIDE DEF f, g
<1>9. CASE Top.op = "send" /\ Return
  <2>1. \A o, s : ~Owes(Top, o, s)
    BY <1>1, <1>9 DEF Owes
  <2>2. Orderly({Top.s})
    BY <1>1, <1>4, <1>9, <2>1, ReturnOrderly DEF Halves
  <2>3. TendedAfter({Top.s})
    BY <1>2, <1>9, UnlinkedTended DEF Outsider
  <2> QED BY <1>1, <1>3, <2>2, <2>3, OrderlyKeeps
<1>10. CASE Top.op = "approve" /\ Become(f)
  <2>1. f.pc \notin Restarting /\ FrameOwn(f) /\ ~Outsider(f)
    BY <1>6, <1>10 DEF Restarting, Selecting, FrameOwn, Outsider
  <2>2. \A o, s : Owes(Top, o, s) => s = Top.s
    BY <1>1, <1>10 DEF Owes
  <2>3. \A o : Owes(f, o, Top.s)
    BY <1>6 DEF Owes
  <2>4. Orderly({Top.s})
    BY <1>1, <1>4, <1>10, <2>1, <2>2, <2>3, BecomeOrderly
  <2>5. depth \in 1..depth' /\ frame'[depth] = f
    BY <1>2, <1>10 DEF Become, SettleInv, Known, TypeOK, StackOK
  <2>6. \A o \in OutTasks : out[o].s = Top.s => Owed(o)'
    BY <1>1, <2>3, <2>5 DEF Owed
  <2>7. TendedAfter({Top.s})
    BY <1>1, <1>3, <2>6 DEF TendedAfter, Tended
  <2> QED BY <1>1, <1>3, <2>4, <2>7, OrderlyKeeps
<1>11. CASE Top.op = "settle" /\ Become(g)
  <2>1. g.pc \notin Restarting /\ FrameOwn(g) /\ ~Outsider(g)
    BY <1>7, <1>11 DEF Restarting, Selecting, FrameOwn, Outsider
  <2>2. /\ \A o, s : Owes(Top, o, s) => Owes(g, o, s)
        /\ \A s : Owes(g, Top.t, s)
    BY <1>1, <1>7, <1>11 DEF Owes
  <2>3. Orderly({Top.s})
    BY <1>1, <1>4, <1>11, <2>1, <2>2, BecomeOrderly
  <2>4. depth \in 1..depth' /\ frame'[depth] = g
    BY <1>2, <1>11 DEF Become, SettleInv, Known, TypeOK, StackOK
  <2>5. Top.t \in OutTasks /\ out[Top.t].s = Top.s
    BY <1>1, <1>2, <1>11 DEF FrameOK, Acting
  <2>6. \A o \in OutTasks : out[o].s = Top.s => o = Top.t
    BY <1>4, <2>5 DEF OwnInv
  <2>7. ASSUME NEW o \in OutTasks, out[o].s = Top.s
        PROVE  Owed(o)'
    <3>1. Owes(g, o, out'[o].s)
      BY <2>2, <2>6, <2>7
    <3> QED BY <2>4, <3>1 DEF Owed
  <2>8. TendedAfter({Top.s})
    BY <1>1, <1>3, <2>7 DEF TendedAfter, Tended
  <2> QED BY <1>1, <1>3, <2>3, <2>8, OrderlyKeeps
<1> QED BY <1>8, <1>9, <1>10, <1>11

\* Steps of the wallet's process, and of the clock.
LEMMA MoneySettles ==
  ASSUME SettleInv, UNCHANGED life,
         \/ \E d \in 1..MaxDepth : WalletMoves(d)
         \/ \E s \in Spends : LateMove(s) \/ LateFailure(s)
         \/ Tick
         \/ UNCHANGED vars
  PROVE  OwnInv' /\ SettledInv'
<1> USE InbStays
<1>1. ASSUME NEW e \in 1..MaxDepth, WalletMoves(e)
      PROVE  OwnInv' /\ SettledInv'
  <2>1. /\ e \in 1..depth /\ frame[e].pc = "transfer" /\ frame[e] \in Frames
        /\ FrameOwn(frame[e])
    BY <1>1 DEF WalletMoves, SettleInv, OwnInv, Known, TypeOK, StackOK
  <2>2. /\ UNCHANGED <<spend, out, inb, depth, phase>>
        /\ frame'[e] = [frame[e] EXCEPT !.pc = "sent"]
        /\ \A d \in 1..depth : d # e => frame'[d] = frame[d]
    BY <1>1, <2>1 DEF WalletMoves, db, SettleInv, Known, TypeOK, StackOK
  <2>3. /\ frame'[e].pc = "sent" /\ frame'[e].s = frame[e].s /\ frame'[e].op = frame[e].op
        /\ frame'[e].t = frame[e].t
    BY <2>1, <2>2 DEF Frames
  <2>4. OutsidersKept
    BY <2>1, <2>2, <2>3 DEF OutsidersKept, SettleInv, OwnInv, FrameOwn, Outsider
  <2>5. ASSUME NEW o \in OutTasks, NEW d \in 1..depth, Owes(frame[d], o, out[o].s)
        PROVE  Owes(frame'[d], o, out[o].s)
    BY <2>1, <2>2, <2>3, <2>5 DEF Owes
  <2>6. \A o \in OutTasks : Owed(o) => Owed(o)'
    BY <2>2, <2>5 DEF Owed
  <2>7. HalvesKept({})
    BY <2>1, <2>2, <2>3 DEF HalvesKept, Halves
  <2>8. Plain
    <3>1. /\ phase = "down" => depth = 0
          /\ phase = "db" => depth > 0 /\ frame[1].pc \in Restarting
      BY DEF SettleInv, Known, StrandInv, BootInv
    <3>2. "transfer" \notin Restarting /\ "sent" \notin Restarting
      BY DEF Restarting, Selecting
    <3>3. phase = "db" => e # 1
      BY <2>1, <3>1, <3>2
    <3>4. phase # "down"
      BY <2>1, <3>1
    <3>5. depth' = depth /\ UNCHANGED phase
          /\ \A d \in 1..depth : d # e => frame'[d] = frame[d]
      BY <2>2
    <3>6. phase = "db" => depth' > 0 /\ frame'[1] = frame[1]
      <4>1. depth \in Nat
        BY DEF SettleInv, Known, TypeOK, StackOK
      <4> QED BY <3>1, <3>3, <3>5, <4>1
    <3>7. \A d \in 1..depth' : frame'[d].pc \in Restarting => d \in 1..depth /\ frame'[d] = frame[d]
      BY <2>3, <3>2, <3>5
    <3> QED BY <3>4, <3>5, <3>6, <3>7 DEF Plain
  <2>9. Orderly({}) /\ RowsKept /\ TouchesOnly({}) /\ OutKept /\ InbKept
    BY <2>2, <2>4, <2>6, <2>7, <2>8 DEF Orderly, OwedKept
  <2> QED BY <2>9, StillKeeps
<1>2. CASE (\E s \in Spends : LateMove(s) \/ LateFailure(s)) \/ Tick \/ UNCHANGED vars
  <2>1. UNCHANGED <<spend, out, inb, stack, phase>>
    BY <1>2 DEF LateMove, LateFailure, Tick, vars, db, stack
  <2> QED BY <2>1, StayOrderly, StillKeeps
<1> QED BY <1>1, <1>2

\* A call that acts for a request of no task, or for none.
LEMMA BeginOwn ==
  ASSUME SettleInv, UNCHANGED life, phase # "down", UNCHANGED <<out, phase>>, RowsKept, InbKept,
         NEW op, NEW pc, NEW s, NEW t, TouchesOnly({s}), Begin(op, pc, s, t, FALSE, {}),
         <<op, pc>> \in {<<"send", "gate">>, <<"cancel", "release">>},
         s \in Spends => spend'[s].st # "none" /\ ~Linked(s)
  PROVE  OwnInv' /\ SettledInv'
<1> USE InbStays
<1> DEFINE f == [op |-> op, pc |-> pc, s |-> s, t |-> t, ok |-> FALSE, todo |-> {}]
<1>1. frame'[depth + 1] = f /\ pc \notin Restarting
  BY DEF Begin, SettleInv, Known, TypeOK, StackOK, Restarting, Selecting
<1>2. FrameOwn(f) /\ f.s = s
  BY DEF FrameOwn
<1>3. /\ Plain /\ OwedKept /\ HalvesKept({s}) /\ depth' = depth + 1 /\ depth \in Nat
      /\ \A d \in 1..depth : frame'[d] = frame[d] /\ FrameOwn(frame[d])
  BY <1>1, <1>2, BeginKeeps
<1> HIDE DEF f
<1>4. ASSUME NEW d \in 1..depth'
      PROVE  /\ FrameOwn(frame'[d])
             /\ Outsider(frame'[d]) /\ frame'[d].s \in Spends =>
                  spend'[frame'[d].s].st # "none" /\ \A o \in OutTasks : out'[o].s # frame'[d].s
  <2>1. CASE d \in 1..depth
    BY <1>3, <2>1 DEF SettleInv, OwnInv, RowsKept, Linked
  <2>2. CASE d = depth + 1
    BY <1>1, <1>2, <2>2 DEF Linked
  <2> QED BY <1>3, <2>1, <2>2
<1>5. OwnInv'
  <2>1. /\ \A o, p \in OutTasks : out'[o].s \in Spends /\ out'[p].s = out'[o].s => o = p
        /\ \A o \in OutTasks : out'[o].s \in Spends =>
             spend'[out'[o].s].st # "none" /\ \A i \in InTasks : inb'[i].s # out'[o].s
        /\ \A o \in OutTasks : out'[o].st = "settling" => out'[o].s \in Spends
    BY DEF SettleInv, OwnInv, InbKept, RowsKept
  <2> QED BY <1>4, <2>1 DEF OwnInv, Linked
<1>6. TendedAfter({s})
  BY UnlinkedTended
<1> QED BY <1>3, <1>5, <1>6, SettledKeeps DEF SettleInv

LEMMA RejectSettles ==
  ASSUME SettleInv, UNCHANGED life, NEW s \in Spends, Reject(s)
  PROVE  OwnInv' /\ SettledInv'
<1> USE InbStays
<1>1. /\ phase # "down" /\ UNCHANGED <<out, inb, phase>> /\ SetSpend(s, "REJECTED")
      /\ Begin("reject", "notify", s, None, FALSE, {s})
  BY DEF Reject
<1>2. TouchesOnly({s}) /\ RowsKept /\ spend'[s].st = "REJECTED"
  BY <1>1, SetSpendTouches, SetSpendKeeps DEF SettleInv, Known, TypeOK
<1>3. Orderly({s}) /\ \A o \in OutTasks : out[o].s \in {s} => Owed(o)'
  <2>1. "notify" \notin Restarting \cup {"gate", "holding", "park", "transfer", "sent", "release"}
    BY DEF Restarting, Selecting
  <2>2. OutKept
    BY <1>1
  <2>3. Orderly({s})
    BY <1>1, <2>1, <2>2, BeginOrderly
  <2>4. \A o \in OutTasks : out[o].s \in {s} => Owed(o)'
    BY <1>1, <2>2, BeginTop
  <2> QED BY <2>3, <2>4
<1>4. TendedAfter({s})
  BY <1>1, <1>2, <1>3 DEF TendedAfter, Tended, Compared
<1> QED BY <1>1, <1>2, <1>3, <1>4, OrderlyKeeps

LEMMA RequestsSettle ==
  ASSUME SettleInv, UNCHANGED life, Requests
  PROVE  OwnInv' /\ SettledInv'
<1> USE InbStays
<1>0. SpendOK
  BY DEF SettleInv, Known, TypeOK
<1>1. ASSUME NEW s \in Spends, NEW a \in Amounts, WalletSend(s, a)
      PROVE  OwnInv' /\ SettledInv'
  <2>1. /\ phase # "down" /\ UNCHANGED <<out, inb, phase>> /\ spend' = Created(s, a)
        /\ Begin("send", "gate", s, None, FALSE, {}) /\ spend[s].st = "none"
    BY <1>1 DEF WalletSend, Fresh
  <2>2. TouchesOnly({s}) /\ RowsKept /\ spend'[s].st # "none"
    BY <1>0, <2>1, CreatedTouches, CreatedKeeps
  <2>3. ~Linked(s)
    BY <2>1 DEF SettleInv, OwnInv, Linked
  <2> QED BY <2>1, <2>2, <2>3, BeginOwn
<1>2. ASSUME NEW s \in Spends, NEW a \in Amounts, ProgramCallHeld(s, a)
      PROVE  OwnInv' /\ SettledInv'
  <2>1. /\ UNCHANGED <<out, inb, stack, phase>>
        /\ spend[s].st = "none" /\ RowsKept /\ TouchesOnly({s})
    BY <1>0, <1>2, CreatedTouches, CreatedKeeps DEF ProgramCallHeld, Fresh
  <2>2. TendedAfter({s})
    BY <2>1, UnlinkedTended DEF SettleInv, OwnInv, Linked
  <2> QED BY <2>1, <2>2, StayOrderly, OrderlyKeeps
<1>3. ASSUME NEW s \in Spends, Approve(s)
      PROVE  OwnInv' /\ SettledInv'
  <2>1. /\ phase # "down" /\ UNCHANGED <<out, inb, phase>> /\ SetSpend(s, "APPROVED")
        /\ Begin("approve", "execute", s, None, FALSE, {})
    BY <1>3 DEF Approve
  <2>2. TouchesOnly({s}) /\ RowsKept /\ spend'[s].st = "APPROVED"
    BY <1>0, <2>1, SetSpendTouches, SetSpendKeeps
  <2>3. /\ Orderly({s})
        /\ depth + 1 \in 1..depth' /\ frame'[depth + 1].pc = "execute"
        /\ frame'[depth + 1].s = s
    <3>1. "execute" \notin Restarting \cup {"gate", "holding", "park", "transfer", "sent", "release"}
      BY DEF Restarting, Selecting
    <3>2. OutKept
      BY <2>1
    <3>3. Orderly({s})
      BY <2>1, <3>1, <3>2, BeginOrderly
    <3> QED BY <2>1, <3>2, <3>3, BeginTop
  <2>4. TendedAfter({s})
    BY <2>1, <2>2, <2>3 DEF TendedAfter, Tended, CutAt
  <2> QED BY <2>1, <2>2, <2>3, <2>4, OrderlyKeeps
<1>4. ASSUME NEW s \in Spends, ApproveTooLate(s)
      PROVE  OwnInv' /\ SettledInv'
  <2>1. /\ UNCHANGED <<out, inb, stack, phase>> /\ Decidable(s) /\ SetSpend(s, "EXPIRED")
    BY <1>4 DEF ApproveTooLate
  <2>2. TouchesOnly({s}) /\ RowsKept /\ spend'[s].st = "EXPIRED"
    BY <1>0, <2>1, SetSpendTouches, SetSpendKeeps
  <2>3. /\ spend[s].st \in {"HELD", "NOTIFIED"}
        /\ CutAt(spend[s].st) = CutAt(spend'[s].st)
    BY <2>1, <2>2 DEF Decidable, CutAt
  <2>4. ASSUME NEW o \in OutTasks, out[o].s = s, out'[o].st = "settling"
        PROVE  Tended(o)'
    <3>1. Tended(o) /\ UNCHANGED cut
      BY <2>1, <2>4 DEF SettleInv, SettledInv, life
    <3> QED BY <2>1, <2>3, <2>4, <3>1 DEF Tended, Compared, stack
  <2>5. TendedAfter({s})
    BY <2>4 DEF TendedAfter
  <2> QED BY <2>1, <2>2, <2>5, StayOrderly, OrderlyKeeps
<1>5. CASE ExpireStale
  <2>1. /\ phase # "down" /\ UNCHANGED <<out, inb, phase>> /\ spend' = AllExpired(StaleSpends)
        /\ Begin("sweep", "notify", None, None, FALSE, StaleSpends)
        /\ StaleSpends \subseteq Spends
    BY <1>5 DEF ExpireStale, StaleSpends
  <2>2. /\ TouchesOnly(StaleSpends) /\ RowsKept
        /\ \A s \in StaleSpends : spend'[s].st = "EXPIRED"
    BY <1>0, <2>1, ExpiredTouches, ExpiredKeeps
  <2>3. /\ Orderly(StaleSpends)
        /\ \A o \in OutTasks : out[o].s \in StaleSpends => Owed(o)'
    <3>1. "notify" \notin Restarting \cup {"gate", "holding", "park", "transfer", "sent", "release"}
      BY DEF Restarting, Selecting
    <3>2. OutKept
      BY <2>1
    <3>3. Orderly(StaleSpends)
      BY <2>1, <3>1, <3>2, BeginOrderly
    <3> QED BY <2>1, <3>2, <3>3, BeginTop
  <2>4. TendedAfter(StaleSpends)
    BY <2>1, <2>2, <2>3 DEF TendedAfter, Tended, Compared
  <2> QED BY <2>1, <2>2, <2>3, <2>4, OrderlyKeeps
<1> QED BY <1>1, <1>2, <1>3, <1>4, <1>5, RejectSettles DEF Requests

LEMMA TaskProgressSettles ==
  ASSUME SettleInv, UNCHANGED life, TaskProgress
  PROVE  OwnInv' /\ SettledInv'
<1> USE InbStays
<1>0. SpendOK /\ OutOK /\ InbOK
  BY DEF SettleInv, Known, TypeOK
<1>1. CASE ParkTask \/ RecordSettlement
  <2>1. /\ depth > 0 /\ Top.pc \in {"park", "record"} /\ Return
        /\ UNCHANGED <<spend, inb, phase>>
    BY <1>1 DEF ParkTask, RecordSettlement, At
  <2>2. PICK st \in {"awaiting-approval", "paid", "pay-failed"} : SetOut(Top.t, st)
    BY <1>1 DEF ParkTask, RecordSettlement
  <2>3. OutKept /\ (Top.t \in OutTasks => out'[Top.t].st # "settling")
    BY <1>0, <2>2, SetOutKept
  <2>4. \A o \in OutTasks : out'[o].st = "settling" => ~Owes(Top, o, out[o].s)
    BY <2>1, <2>3 DEF Owes
  <2>5. Orderly({Top.s})
    BY <2>1, <2>3, <2>4, ReturnOrderly DEF Restarting, Selecting
  <2>6. Top.pc = "park" => Top.t \in OutTasks /\ out[Top.t].s = Top.s
    BY <2>1, TopOwn DEF FrameOwn, FrameOK, Acting
  <2>7. CASE Top.pc = "park"
    <3>1. TendedAfter({Top.s})
      BY <2>3, <2>6, <2>7 DEF TendedAfter, SettleInv, OwnInv
    <3>2. TouchesOnly({Top.s})
      BY <2>1 DEF TouchesOnly
    <3> QED BY <2>1, <2>3, <2>5, <3>1, <3>2, OrderlyKeeps
  <2>8. CASE Top.pc = "record"
    <3>1. Orderly({})
      BY <2>1, <2>3, <2>4, <2>8, ReturnOrderly DEF Restarting, Selecting, Halves
    <3> QED BY <2>1, <2>3, <3>1, StillKeeps
  <2> QED BY <2>1, <2>7, <2>8
<1>2. CASE Announced
  <2>1. depth > 0 /\ Top.pc = "announce" /\ Return /\ UNCHANGED <<spend, out, inb, phase>>
    BY <1>2 DEF Announced, At, db
  <2>2. \A o, s : ~Owes(Top, o, s)
    BY <2>1 DEF Owes
  <2>3. Orderly({})
    BY <2>1, <2>2, ReturnOrderly DEF Restarting, Selecting, Halves
  <2> QED BY <2>1, <2>3, StillKeeps
<1>3. CASE ReleaseHeldSpend
  <2>1. /\ depth > 0 /\ Top.pc = "release" /\ Return /\ UNCHANGED <<out, inb, phase>>
        /\ (SetSpend(Top.s, "REJECTED") /\ Top.s \in Spends) \/ UNCHANGED spend
    BY <1>3 DEF ReleaseHeldSpend, At
  <2>2. \A o, s : ~Owes(Top, o, s)
    BY <2>1 DEF Owes
  <2>3. Orderly({Top.s})
    BY <2>1, <2>2, ReturnOrderly DEF Restarting, Selecting
  <2>4. RowsKept /\ TouchesOnly({Top.s})
    BY <1>0, <2>1, SetSpendKeeps, SetSpendTouches DEF TouchesOnly
  <2>5. TendedAfter({Top.s})
    BY <2>1, TopOwn, UnlinkedTended DEF Outsider
  <2> QED BY <2>1, <2>3, <2>4, <2>5, OrderlyKeeps
<1>4. ASSUME NEW s \in Spends, NEW a \in Amounts, HoldInbound(s, a)
      PROVE  OwnInv' /\ SettledInv'
  <2>1. /\ depth > 0 /\ Onward("announce") /\ Goto("announce") /\ UNCHANGED <<out, phase>>
        /\ spend[s].st = "none"
    BY <1>4 DEF HoldInbound, At, Onward
  <2>2. /\ \A x \in Spends : x # s => spend'[x] = spend[x]
        /\ spend'[s].st = "HELD"
        /\ \A i \in InTasks : inb'[i].s = inb[i].s \/ inb'[i].s = s
    BY <1>0, <1>4 DEF HoldInbound, SpendOK, InbOK
  <2>3. Orderly({s})
    BY <2>1, GotoOrderly DEF Onward, Halves
  <2>4. TouchesOnly({s}) /\ RowsKept
    BY <2>1, <2>2 DEF TouchesOnly, RowsKept
  <2>5. OwnInv'
    <3>1. \A o \in OutTasks : out'[o].s \in Spends =>
            spend'[out'[o].s].st # "none" /\ \A i \in InTasks : inb'[i].s # out'[o].s
      BY <2>1, <2>2, <2>4 DEF SettleInv, OwnInv, RowsKept
    <3>2. ASSUME NEW d \in 1..depth'
          PROVE  /\ FrameOwn(frame'[d])
                 /\ Outsider(frame'[d]) /\ frame'[d].s \in Spends =>
                      /\ spend'[frame'[d].s].st # "none"
                      /\ \A o \in OutTasks : out'[o].s # frame'[d].s
      BY <2>1, <2>3, <2>4 DEF Orderly, OutsidersKept, SettleInv, OwnInv, RowsKept, Linked
    <3>3. /\ \A o, p \in OutTasks : out'[o].s \in Spends /\ out'[p].s = out'[o].s => o = p
          /\ \A o \in OutTasks : out'[o].st = "settling" => out'[o].s \in Spends
      BY <2>1 DEF SettleInv, OwnInv
    <3> QED BY <3>1, <3>2, <3>3 DEF OwnInv, Linked
  <2>6. TendedAfter({s})
    BY <2>1, UnlinkedTended DEF SettleInv, OwnInv, Linked
  <2>7. SettledInv'
    BY <2>1, <2>3, <2>4, <2>6, SettledKeeps DEF SettleInv, Orderly
  <2> QED BY <2>5, <2>7
<1> QED BY <1>1, <1>2, <1>3, <1>4 DEF TaskProgress

\* A claim: the task gets a fresh request, and an activation that will tell it.
LEMMA ClaimSettles ==
  ASSUME SettleInv, UNCHANGED life, NEW o \in OutTasks, NEW s \in Spends,
         CompletedPayable(o, s)
  PROVE  OwnInv' /\ SettledInv'
<1> USE InbStays
<1>0. SpendOK /\ OutOK
  BY DEF SettleInv, Known, TypeOK
<1>1. /\ phase = "up" /\ UNCHANGED <<inb, phase>> /\ spend' = Created(s, out[o].price)
      /\ Begin("settle", "gate", s, o, FALSE, {}) /\ spend[s].st = "none"
      /\ out' = [out EXCEPT ![o].st = "settling", ![o].s = s]
  BY DEF CompletedPayable, Fresh
<1>2. /\ out'[o].s = s /\ \A p \in OutTasks : p # o => out'[p] = out[p]
      /\ spend'[s].st = "CREATED" /\ \A x \in Spends : x # s => spend'[x] = spend[x]
  BY <1>0, <1>1 DEF OutOK, SpendOK, Created
<1>3. RowsKept /\ TouchesOnly({s})
  BY <1>0, <1>1, CreatedKeeps, CreatedTouches
<1> DEFINE f == [op |-> "settle", pc |-> "gate", s |-> s, t |-> o, ok |-> FALSE, todo |-> {}]
<1>4. frame'[depth + 1] = f
  BY <1>1 DEF Begin, SettleInv, Known, TypeOK, StackOK
<1>5. FrameOwn(f) /\ ~Outsider(f) /\ f.pc = "gate" /\ f.s = s
  BY DEF FrameOwn, Outsider
<1> HIDE DEF f
<1>6. /\ depth' = depth + 1 /\ depth \in Nat
      /\ \A d \in 1..depth : frame'[d] = frame[d] /\ FrameOwn(frame[d])
  BY <1>1, <1>4, <1>5, BeginKeeps DEF Restarting, Selecting
<1>7. \A p \in OutTasks : out[p].s # s
  BY <1>1 DEF SettleInv, OwnInv
<1>8. \A i \in InTasks : inb[i].s # s
  BY <1>1 DEF SettleInv, Known, TaskInv, LinkInv
<1>9. OwnInv'
  <2>1. \A p, q \in OutTasks : out'[p].s \in Spends /\ out'[q].s = out'[p].s => p = q
    BY <1>2, <1>7 DEF SettleInv, OwnInv
  <2>2. ASSUME NEW p \in OutTasks, out'[p].s \in Spends
        PROVE  spend'[out'[p].s].st # "none" /\ \A i \in InTasks : inb'[i].s # out'[p].s
    <3>1. CASE p = o
      BY <1>1, <1>2, <1>8, <3>1
    <3>2. CASE p # o
      <4>1. out'[p].s = out[p].s /\ out[p].s \in Spends
        BY <1>2, <2>2, <3>2
      <4>2. spend[out[p].s].st # "none" /\ \A i \in InTasks : inb[i].s # out[p].s
        BY <4>1 DEF SettleInv, OwnInv
      <4>3. inb' = inb
        BY <1>1
      <4> QED BY <1>3, <4>1, <4>2, <4>3 DEF RowsKept
    <3> QED BY <3>1, <3>2
  <2>3. \A p \in OutTasks : out'[p].st = "settling" => out'[p].s \in Spends
    BY <1>2 DEF SettleInv, OwnInv
  <2>4. ASSUME NEW d \in 1..depth'
        PROVE  /\ FrameOwn(frame'[d])
               /\ Outsider(frame'[d]) /\ frame'[d].s \in Spends =>
                    /\ spend'[frame'[d].s].st # "none"
                    /\ \A p \in OutTasks : out'[p].s # frame'[d].s
    <3>1. CASE d \in 1..depth
      <4>1. /\ frame'[d] = frame[d] /\ FrameOwn(frame[d])
            /\ Outsider(frame[d]) /\ frame[d].s \in Spends =>
                 spend[frame[d].s].st # "none" /\ ~Linked(frame[d].s)
        BY <1>6, <3>1 DEF SettleInv, OwnInv
      <4>2. ASSUME Outsider(frame[d]), frame[d].s \in Spends
            PROVE  /\ spend'[frame[d].s].st # "none"
                   /\ \A p \in OutTasks : out'[p].s # frame[d].s
        <5>1. spend[frame[d].s].st # "none" /\ \A p \in OutTasks : out[p].s # frame[d].s
          BY <4>1, <4>2 DEF Linked
        <5>2. spend'[frame[d].s].st # "none"
          BY <1>3, <4>2, <5>1 DEF RowsKept
        <5>3. frame[d].s # s
          BY <1>1, <5>1 DEF Fresh
        <5> QED BY <1>2, <5>1, <5>2, <5>3
      <4> QED BY <4>1, <4>2
    <3>2. CASE d = depth + 1
      BY <1>4, <1>5, <3>2
    <3> QED BY <1>6, <3>1, <3>2
  <2> QED BY <2>1, <2>2, <2>3, <2>4 DEF OwnInv, Linked
<1>10. ASSUME NEW p \in OutTasks, out'[p].st = "settling"
       PROVE  Tended(p)'
  <2>1. CASE p = o
    <3>1. /\ out'[p].s = s /\ spend'[s].st = "CREATED"
          /\ depth + 1 \in 1..depth' /\ frame'[depth + 1].pc = "gate"
          /\ frame'[depth + 1].s = s
      BY <1>2, <1>4, <1>5, <1>6, <2>1
    <3> QED BY <3>1 DEF Tended, CutAt
  <2>2. CASE p # o
    <3>1. /\ out'[p].st = out[p].st /\ out'[p].s = out[p].s /\ out[p].st = "settling"
          /\ out[p].s \in Spends /\ out[p].s # s
      BY <1>2, <1>7, <1>10, <2>2 DEF SettleInv, OwnInv
    <3>2. spend'[out'[p].s].st = spend[out[p].s].st /\ Tended(p) /\ UNCHANGED cut
      BY <1>3, <3>1 DEF TouchesOnly, SettleInv, SettledInv, life
    <3>3. phase = "up" /\ phase' = "up" /\ \A d \in 1..depth : d \in 1..depth' /\ frame'[d] = frame[d]
      BY <1>1, <1>6
    <3>4. Owed(p) => Owed(p)'
      BY <3>1, <3>3 DEF Owed
    <3> QED BY <3>1, <3>2, <3>3, <3>4 DEF Tended
  <2> QED BY <2>1, <2>2
<1> QED BY <1>9, <1>10 DEF SettledInv

LEMMA TaskRequestsSettle ==
  ASSUME SettleInv, UNCHANGED life, TaskRequests
  PROVE  OwnInv' /\ SettledInv'
<1> USE InbStays
<1>0. OutOK /\ InbOK
  BY DEF SettleInv, Known, TypeOK
<1>1. ASSUME NEW o \in OutTasks,
             \/ \E price \in Amounts \cup {0} : SubmitTask(o, price)
             \/ CancelTask(o) \/ CompletedUnpaid(o)
             \/ \E verdict \in Verdicts : NegativeReply(o, verdict)
      PROVE  OwnInv' /\ SettledInv'
  <2>1. UNCHANGED <<spend, inb, stack, phase>>
    BY <1>1 DEF SubmitTask, CancelTask, CompletedUnpaid, NegativeReply
  <2>2. CASE \E price \in Amounts \cup {0} : SubmitTask(o, price)
    BY <1>0, <2>1, <2>2, StayOrderly, StillKeeps
    DEF SubmitTask, OutKept, OutOK, SettleInv, Known, TaskInv, ClaimInv
  <2>3. CASE ~\E price \in Amounts \cup {0} : SubmitTask(o, price)
    <3>1. PICK st \in Verdicts \cup {"accepted-nopay", "pay-failed"} : SetOut(o, st)
      BY <1>1, <2>3 DEF CancelTask, CompletedUnpaid, NegativeReply, Verdicts
    <3>2. OutKept
      BY <1>0, <3>1, SetOutKept DEF Verdicts
    <3> QED BY <2>1, <3>2, StayOrderly, StillKeeps
  <2> QED BY <2>2, <2>3
<1>2. ASSUME NEW o \in OutTasks, RetractHeld(o)
      PROVE  OwnInv' /\ SettledInv'
  BY <1>2, RejectSettles DEF RetractHeld
<1>3. ASSUME NEW i \in InTasks, AcceptWalletSend(i)
      PROVE  OwnInv' /\ SettledInv'
  <2>1. /\ phase # "down" /\ UNCHANGED <<spend, out, phase>>
        /\ Begin("inbound", "held-spend", None, i, FALSE, {})
    BY <1>3 DEF AcceptWalletSend
  <2>2. InbKept
    BY <1>0, <1>3 DEF AcceptWalletSend, SetInb, InbOK, InbKept
  <2>3. Orderly({})
    BY <2>1, BeginOrderly DEF Restarting, Selecting
  <2> QED BY <2>1, <2>2, <2>3, StillKeeps
<1>4. ASSUME NEW i \in InTasks, RefuseWalletSend(i)
      PROVE  OwnInv' /\ SettledInv'
  <2>1. UNCHANGED <<spend, out, stack, phase>> /\ InbKept
    BY <1>0, <1>4 DEF RefuseWalletSend, SetInb, InbOK, InbKept
  <2> QED BY <2>1, StayOrderly, StillKeeps
<1>5. ASSUME NEW i \in InTasks, PeerCancels(i)
      PROVE  OwnInv' /\ SettledInv'
  <2>1. /\ phase # "down" /\ UNCHANGED <<spend, out, phase>> /\ InbKept
        /\ Begin("cancel", "release", inb[i].s, i, FALSE, {})
    BY <1>0, <1>5 DEF PeerCancels, SetInb, InbOK, InbKept
  <2>2. inb[i].s \in Spends => spend'[inb[i].s].st # "none" /\ ~Linked(inb[i].s)
    BY <2>1 DEF SettleInv, OwnInv, Known, TaskInv, LinkInv, Linked
  <2>3. TouchesOnly({inb[i].s}) /\ RowsKept
    BY <2>1 DEF TouchesOnly
  <2> QED BY <2>1, <2>2, <2>3, BeginOwn
<1> QED BY <1>1, <1>2, <1>3, <1>4, <1>5, ClaimSettles DEF TaskRequests

-------------------------------------------------------------------------------
(***************************************************************************)
(* Crashes and recovery.                                                   *)
(***************************************************************************)
\* Recovery acts for no request, and owes nothing before it serves anyone.
LEMMA RecoveryOwn ==
  ASSUME SettleInv, depth > 0, Top.pc \in Restarting, NEW f, Become(f), f.op = Top.op,
         f.pc \in Restarting \cup {"recover"}
  PROVE  OutsidersKept /\ depth' = 1 /\ frame'[1] = f
<1>1. depth = 1 /\ Top = frame[1] /\ FrameOwn(Top)
  BY Recovering, TopOwn DEF SettleInv, Known
<1>2. depth' = 1 /\ frame'[1] = f
  BY <1>1 DEF Become, SettleInv, Known, TypeOK, StackOK
<1>3. FrameOwn(f) /\ ~Outsider(f)
  BY <1>1 DEF FrameOwn, Outsider, Restarting, Selecting
<1>4. \A d \in 1..depth' : d = 1
  BY <1>2
<1> QED BY <1>2, <1>3, <1>4 DEF OutsidersKept

\* After the comparison no task is left behind a request that is over, and the rest of
\* recovery ends none.
LEMMA ComparedSettles ==
  ASSUME SettleInv, UNCHANGED life, depth > 0, Top.pc \in Restarting \ Selecting, OutKept,
         NEW X, TouchesOnly(X), TendedAfter(X), Top.pc \in Halves => Top.s \in X
  PROVE  SettledInv'
<1>1. depth = 1 /\ phase = "db" /\ Top = frame[1]
  BY Recovering DEF SettleInv, Known
<1>2. \A o : ~Owed(o)
  <2>1. \A o, s : ~Owes(Top, o, s)
    BY DEF Owes, Restarting, Selecting
  <2>2. \A d \in 1..depth : frame[d] = Top
    BY <1>1
  <2> QED BY <2>1, <2>2 DEF Owed
<1>3. ASSUME NEW o \in OutTasks, out'[o].st = "settling"
      PROVE  Tended(o)'
  <2>1. out[o].st = "settling" /\ out'[o].s = out[o].s /\ out[o].s \in Spends
    BY <1>3 DEF OutKept, SettleInv, OwnInv
  <2>2. CASE out[o].s \in X
    BY <1>3, <2>1, <2>2 DEF TendedAfter
  <2>3. CASE out[o].s \notin X
    <3>1. spend'[out'[o].s].st = spend[out[o].s].st /\ UNCHANGED cut
      BY <2>1, <2>3 DEF TouchesOnly, life
    <3>2. ASSUME NEW d \in 1..depth, frame[d].s = out[o].s,
                 frame[d].pc \in CutAt(spend[out[o].s].st)
          PROVE  FALSE
      BY <1>1, <2>3, <3>2, CutAtHalves
    <3>3. Tended(o)
      BY <2>1 DEF SettleInv, SettledInv
    <3>4. \/ spend[out[o].s].st = "EXECUTING"
          \/ \E pc \in CutAt(spend[out[o].s].st) : <<out[o].s, pc>> \in cut
      BY <1>1, <1>2, <3>2, <3>3 DEF Tended
    <3> QED BY <2>1, <3>1, <3>4 DEF Tended
  <2> QED BY <2>2, <2>3
<1> QED BY <1>3 DEF SettledInv

\* Before the comparison nobody is at half of a settlement.
LEMMA SelectingTended ==
  ASSUME SettleInv, UNCHANGED <<spend, life>>, depth > 0, Top.pc \in Selecting, NEW o \in OutTasks,
         out[o].st = "settling", out'[o].s = out[o].s
  PROVE  spend[out[o].s].st \in Compared \/ Tended(o)'
<1>1. depth = 1 /\ Top = frame[1] /\ Tended(o)
  BY Recovering DEF SettleInv, SettledInv, Known, Restarting
<1>2. ASSUME NEW d \in 1..depth, frame[d].pc \in CutAt(spend[out[o].s].st)
      PROVE  FALSE
  BY <1>1, <1>2, CutAtHalves DEF Selecting, Halves
<1> QED BY <1>1, <1>2 DEF Tended, life

LEMMA RecoverySettles ==
  ASSUME SettleInv, UNCHANGED life, Recovery
  PROVE  OwnInv' /\ SettledInv'
<1> USE InbStays
<1>0. SpendOK /\ OutOK /\ InbOK /\ OwnInv /\ (depth > 0 => Top \in Frames)
  BY TopOwn DEF SettleInv, Known, TypeOK
<1>1. CASE HealUnlinked
  <2>1. depth > 0 /\ Top.pc \in Restarting
    BY <1>1 DEF HealUnlinked, At, Restarting, Selecting
  <2>2. PICK pc \in {"rearm", "reconcile"} : Goto(pc)
    BY <1>1 DEF HealUnlinked
  <2> DEFINE f == [Top EXCEPT !.pc = pc]
  <2>3. f.pc \in Selecting /\ f.op = Top.op
    BY <1>0, <2>1 DEF Frames, Selecting
  <2>4. Become(f) /\ UNCHANGED <<spend, inb, phase>>
    BY <1>1, <2>2 DEF HealUnlinked, Goto
  <2> HIDE DEF f
  <2>5. OutsidersKept /\ frame'[1] = f /\ phase = "db"
    BY <2>1, <2>3, <2>4, RecoveryOwn, Recovering DEF SettleInv, Known, Restarting
  <2>6. OutKept
    BY <1>0, <1>1 DEF HealUnlinked, OutOK, OutKept
  <2>7. OwnInv'
    BY <1>0, <2>4, <2>5, <2>6, OwnKeeps
  <2>8. Top.pc \in Selecting
    BY <1>1 DEF HealUnlinked, At, Selecting
  <2>9. ASSUME NEW o \in OutTasks, out'[o].st = "settling"
        PROVE  Tended(o)'
    <3>1. out[o].st = "settling" /\ out'[o].s = out[o].s
      BY <2>6, <2>9 DEF OutKept
    <3>2. spend[out[o].s].st \in Compared \/ Tended(o)'
      BY <2>1, <2>4, <2>8, <3>1, SelectingTended
    <3>3. spend[out[o].s].st \in Compared => Tended(o)'
      BY <2>3, <2>4, <2>5, <3>1 DEF Tended
    <3> QED BY <3>2, <3>3
  <2> QED BY <2>7, <2>9 DEF SettledInv
<1>2. CASE ReconcileSettling
  <2>1. depth > 0 /\ Top.pc \in Restarting
    BY <1>2 DEF ReconcileSettling, At, Restarting, Selecting
  <2> DEFINE f == [Top EXCEPT !.pc = "unknown",
                              !.todo = {s \in Spends : spend[s].st = "EXECUTING"}]
  <2>2. f.pc \in Restarting /\ f.op = Top.op
    BY <1>0, <2>1 DEF Frames, Restarting
  <2>3. Become(f) /\ UNCHANGED <<spend, inb, phase>>
    BY <1>2 DEF ReconcileSettling
  <2> HIDE DEF f
  <2>4. OutsidersKept
    BY <2>1, <2>2, <2>3, RecoveryOwn
  <2>5. OutKept
    BY <1>0, <1>2 DEF ReconcileSettling, Reconciled, OutOK, OutKept
  <2>6. OwnInv'
    BY <1>0, <2>3, <2>4, <2>5, OwnKeeps
  <2>7. ASSUME NEW o \in OutTasks, out'[o].st = "settling"
        PROVE  Tended(o)'
    <3>1. out[o].st = "settling" /\ out'[o].s = out[o].s /\ out[o].s \in Spends
      BY <1>0, <2>5, <2>7 DEF OutKept, OwnInv
    <3>2. out'[o].st = Reconciled(out[o])
      BY <1>0, <1>2, <3>1 DEF ReconcileSettling, OutOK
    <3>3. spend[out[o].s].st \notin Compared
      BY <2>7, <3>2 DEF Reconciled, Compared
    <3>4. Top.pc \in Selecting
      BY <1>2 DEF ReconcileSettling, At, Selecting
    <3> QED BY <2>1, <2>3, <3>1, <3>3, <3>4, SelectingTended
  <2> QED BY <2>6, <2>7 DEF SettledInv
<1>3. ASSUME NEW x \in Spends, MarkUnknown(x)
      PROVE  OwnInv' /\ SettledInv'
  <2> DEFINE f == [Top EXCEPT !.s = x, !.pc = "unknown-advance"]
             g == [Top EXCEPT !.todo = @ \ {x}]
  <2>1. /\ depth > 0 /\ Top.pc \in Restarting \ Selecting /\ Top.pc = "unknown"
        /\ UNCHANGED <<out, inb>>
        /\ \/ SetSpend(x, "TX_UNKNOWN") /\ Become(f)
           \/ UNCHANGED spend /\ Become(g)
    BY <1>3 DEF MarkUnknown, At, Restarting, Selecting
  <2>2. /\ f.pc \in Restarting /\ f.op = Top.op /\ f.pc = "unknown-advance" /\ f.s = x
        /\ g.pc \in Restarting /\ g.op = Top.op
    BY <1>0, <2>1 DEF Frames, Restarting
  <2> HIDE DEF f, g
  <2>3. OutsidersKept
    BY <2>1, <2>2, RecoveryOwn
  <2>4. RowsKept /\ TouchesOnly({x})
    BY <1>0, <2>1, SetSpendTouches, SetSpendKeeps DEF TouchesOnly
  <2>5. OwnInv'
    BY <1>0, <2>1, <2>3, <2>4, OwnKeeps
  <2>6. CASE SetSpend(x, "TX_UNKNOWN") /\ Become(f)
    <3>1. 1 \in 1..depth' /\ frame'[1] = f
      BY <2>1, <2>2, <2>6, RecoveryOwn
    <3>2. spend'[x].st = "TX_UNKNOWN"
      BY <1>0, <2>6, SetSpendTouches
    <3>3. TendedAfter({x})
      BY <2>1, <2>2, <3>1, <3>2 DEF TendedAfter, Tended, CutAt
    <3> QED BY <2>1, <2>4, <2>5, <3>3, ComparedSettles DEF Halves
  <2>7. CASE UNCHANGED spend /\ Become(g)
    <3>1. TouchesOnly({}) /\ TendedAfter({})
      BY <2>7 DEF TouchesOnly, TendedAfter
    <3> QED BY <2>1, <2>5, <3>1, ComparedSettles DEF Halves
  <2> QED BY <2>1, <2>6, <2>7
<1>4. CASE UnknownAdvance \/ UnknownResume
  <2>1. /\ depth > 0 /\ Top.pc \in Restarting \ Selecting /\ UNCHANGED spend
    BY <1>4 DEF UnknownAdvance, UnknownResume, At, Restarting, Selecting
  <2>2. PICK pc \in {"unknown-resume", "unknown-reply", "unknown-owner"} : Goto(pc)
    BY <1>4 DEF UnknownAdvance, UnknownResume
  <2> DEFINE f == [Top EXCEPT !.pc = pc]
  <2>3. f.pc \in Restarting /\ f.op = Top.op
    BY <1>0, <2>1 DEF Frames, Restarting
  <2>4. Become(f)
    BY <2>2 DEF Goto
  <2> HIDE DEF f
  <2>5. OutsidersKept
    BY <2>1, <2>3, <2>4, RecoveryOwn
  <2>6. OutKept
    BY <1>0, <1>4, AdvanceOutKept DEF UnknownAdvance, UnknownResume
  <2>7. InbKept
    BY <1>0, <1>4, ResumeKeeps DEF UnknownAdvance, UnknownResume
  <2>8. OwnInv'
    BY <1>0, <2>1, <2>5, <2>6, <2>7, OwnKeeps
  <2>9. TouchesOnly({Top.s})
    BY <2>1 DEF TouchesOnly
  <2>10. CASE UnknownAdvance
    <3>1. \A o \in OutTasks : out[o].s = Top.s => out'[o].st # "settling"
      BY <1>0, <2>10, AdvanceOutKept DEF UnknownAdvance
    <3>2. TendedAfter({Top.s})
      BY <3>1 DEF TendedAfter
    <3> QED BY <2>1, <2>6, <2>8, <2>9, <3>2, ComparedSettles
  <2>11. CASE UnknownResume
    <3>1. TouchesOnly({}) /\ TendedAfter({}) /\ Top.pc \notin Halves
      BY <2>1, <2>11 DEF TouchesOnly, TendedAfter, UnknownResume, At, Halves
    <3> QED BY <2>1, <2>6, <2>8, <3>1, ComparedSettles
  <2> QED BY <1>4, <2>10, <2>11
<1>5. CASE SurfaceUnknown \/ LoadIdentity
  <2>1. depth > 0 /\ Top.pc \in Restarting \ Selecting /\ UNCHANGED <<spend, out, inb>>
    BY <1>5 DEF SurfaceUnknown, LoadIdentity, At, db, Restarting, Selecting
  <2> DEFINE f == [Top EXCEPT !.todo = @ \ {Top.s}, !.pc = "unknown"]
             g == [Top EXCEPT !.pc = "recover"]
  <2>2. f.pc \in Restarting /\ f.op = Top.op /\ g.pc = "recover" /\ g.op = Top.op
    BY <1>0, <2>1 DEF Frames, Restarting
  <2>3. Become(f) \/ Become(g)
    BY <1>5 DEF SurfaceUnknown, LoadIdentity, Goto
  <2> HIDE DEF f, g
  <2>4. OutsidersKept
    BY <2>1, <2>2, <2>3, RecoveryOwn
  <2>5. OwnInv'
    BY <1>0, <2>1, <2>4, OwnKeeps
  <2>6. TouchesOnly({}) /\ TendedAfter({}) /\ Top.pc \notin Halves
    BY <1>5, <2>1 DEF TouchesOnly, TendedAfter, SurfaceUnknown, LoadIdentity, At, Halves
  <2> QED BY <2>1, <2>5, <2>6, ComparedSettles
<1>6. CASE RecoverPending
  <2> DEFINE f == [Top EXCEPT !.pc = "notify", !.todo = StaleSpends]
  <2>1. /\ depth > 0 /\ Top.pc = "recover" /\ UNCHANGED <<out, inb, phase>>
        /\ spend' = AllExpired(StaleSpends) /\ StaleSpends \subseteq Spends
        /\ (StaleSpends = {} /\ Return) \/ Become(f)
    BY <1>6 DEF RecoverPending, At, StaleSpends
  <2>2. f.pc = "notify" /\ f.op = Top.op /\ f.todo = StaleSpends
    BY <1>0, <2>1 DEF Frames
  <2> HIDE DEF f
  <2>3. FrameOwn(f) /\ ~Outsider(f) /\ {Top.pc, f.pc} \cap Restarting = {}
    BY <2>1, <2>2, TopOwn DEF FrameOwn, Outsider, Restarting, Selecting
  <2>4. \A o, s : ~Owes(Top, o, s)
    BY <2>1 DEF Owes
  <2>5. Orderly(StaleSpends)
    BY <2>1, <2>3, <2>4, ReturnOrderly, BecomeOrderly DEF Halves
  <2>6. /\ TouchesOnly(StaleSpends) /\ RowsKept
        /\ \A s \in StaleSpends : spend'[s].st = "EXPIRED"
    BY <1>0, <2>1, ExpiredTouches, ExpiredKeeps
  <2>7. ASSUME NEW o \in OutTasks, out[o].s \in StaleSpends
        PROVE  Owed(o)'
    <3>1. depth \in 1..depth' /\ frame'[depth] = f
      BY <2>1, <2>7, TopOwn DEF Become, SettleInv, Known, TypeOK, StackOK
    <3> QED BY <2>1, <2>2, <2>7, <3>1 DEF Owed, Owes
  <2>8. TendedAfter(StaleSpends)
    BY <2>1, <2>6, <2>7 DEF TendedAfter, Tended, Compared
  <2> QED BY <2>1, <2>5, <2>6, <2>8, OrderlyKeeps
<1> QED BY <1>1, <1>2, <1>3, <1>4, <1>5, <1>6 DEF Recovery

LEMMA ProcessSettles ==
  ASSUME SettleInv, Crash \/ Boot
  PROVE  OwnInv' /\ SettledInv'
<1> USE InbStays
<1>1. CASE Crash
  <2>1. /\ UNCHANGED <<spend, out, inb>> /\ depth' = 0 /\ phase' = "down" /\ cut \subseteq cut'
        /\ \A d \in 1..depth : frame[d].pc \in Halves /\ Settles(frame[d].s) =>
             <<frame[d].s, frame[d].pc>> \in cut'
    BY <1>1 DEF Crash, db
  <2>2. OwnInv'
    BY <2>1, OwnKeeps DEF OutsidersKept, SettleInv
  <2>3. ASSUME NEW o \in OutTasks, out'[o].st = "settling"
        PROVE  Tended(o)'
    <3>1. Tended(o) /\ Settles(out[o].s)
      BY <2>1, <2>3 DEF SettleInv, SettledInv, Settles
    <3>2. ASSUME NEW d \in 1..depth, frame[d].s = out[o].s,
                 frame[d].pc \in CutAt(spend[out[o].s].st)
          PROVE  Tended(o)'
      BY <2>1, <3>1, <3>2, CutAtHalves DEF Tended
    <3> QED BY <2>1, <3>1, <3>2 DEF Tended
  <2> QED BY <2>2, <2>3 DEF SettledInv
<1>2. CASE Boot
  <2> DEFINE f == [op |-> "boot", pc |-> "heal", s |-> None, t |-> None, ok |-> FALSE,
                   todo |-> {}]
  <2>1. UNCHANGED <<spend, out>> /\ phase' = "db" /\ depth' = 1 /\ frame'[1] = f
    BY <1>2 DEF Boot, Begin, SettleInv, Known, StrandInv, BootInv, TypeOK, StackOK
  <2>2. f.pc \in Selecting /\ FrameOwn(f) /\ ~Outsider(f)
    BY DEF FrameOwn, Outsider, Selecting
  <2> HIDE DEF f
  <2>3. InbKept
    BY <1>2 DEF Boot, InbKept, SettleInv, Known, TypeOK, InbOK
  <2>4. \A d \in 1..depth' : frame'[d] = f
    BY <2>1
  <2>5. OwnInv'
    BY <2>1, <2>2, <2>3, <2>4, OwnKeeps DEF OutsidersKept, SettleInv
  <2>6. ASSUME NEW o \in OutTasks, out'[o].st = "settling"
        PROVE  Tended(o)'
    <3>1. Tended(o) /\ 1..depth = {} /\ UNCHANGED cut
      BY <1>2, <2>1, <2>6 DEF SettleInv, SettledInv, Boot, life, Known, StrandInv, BootInv
    <3>2. \/ spend[out[o].s].st \in Compared
          \/ spend[out[o].s].st = "EXECUTING"
          \/ \E pc \in CutAt(spend[out[o].s].st) : <<out[o].s, pc>> \in cut
      BY <3>1 DEF Tended
    <3> QED BY <2>1, <2>2, <3>1, <3>2 DEF Tended
  <2> QED BY <2>5, <2>6 DEF SettledInv
<1> QED BY <1>1, <1>2

-------------------------------------------------------------------------------
(***************************************************************************)
(* The theorem.                                                            *)
(***************************************************************************)
LEMMA SettleStep ==
  ASSUME SettleInv, [AgentNext]_agentVars
  PROVE  OwnInv' /\ SettledInv'
<1>1. CASE Wallet /\ UNCHANGED life
  BY <1>1, WalletSettles, MoneySettles DEF Wallet, WalletAnswers
<1>2. CASE (Tick /\ UNCHANGED life) \/ UNCHANGED agentVars
  BY <1>2, MoneySettles DEF agentVars
<1>3. CASE Crash \/ Boot
  BY <1>3, ProcessSettles
<1>4. CASE Recovery
  <2>1. UNCHANGED life
    BY <1>4 DEF Recovery, HealUnlinked, ReconcileSettling, MarkUnknown, UnknownAdvance,
       UnknownResume, SurfaceUnknown, LoadIdentity, RecoverPending
  <2> QED BY <1>4, <2>1, RecoverySettles
<1> QED
  BY <1>1, <1>2, <1>3, <1>4, ProgressSettles, RequestsSettle, TaskProgressSettles,
     TaskRequestsSettle
  DEF AgentNext, TaskNext, SpendingNext

LEMMA SettleInvariant == Spec => []SettleInv
<1>1. AgentInit => OwnInv /\ SettledInv
  BY DEF AgentInit, Init, OwnInv, SettledInv
<1>2. AgentTypeOK /\ TaskInv /\ StrandInv /\ PaidInv => Known
  BY DEF AgentTypeOK, Known
<1>3. Known /\ OwnInv /\ SettledInv /\ [AgentNext]_agentVars => OwnInv' /\ SettledInv'
  BY SettleStep DEF SettleInv
<1>4. Known /\ OwnInv /\ SettledInv => SettleInv
  BY DEF SettleInv
<1> QED
  BY <1>1, <1>2, <1>3, <1>4, TypeCorrect, TaskInvariant, StrandInvariant, PaidInvariant, PTL
  DEF Spec

\* Whatever is served in the middle of a settlement or of recovery: when no call runs, a
\* task is 'settling' only if the process died at the step of its settlement that nobody
\* repeats (CutAt).  No task is so behind a request that was paid, failed or rejected, or
\* that runs (outboundTasksRecover, advanceTask, M7, L7); one in TX_UNKNOWN is if and
\* where the report of it was cut off (pilot_spending.cpp:657 and 665).
THEOREM NoSettlementForgotten == Spec => []SettlingReconciled
<1>1. SettleInv => SettlingReconciled
  <2> SUFFICES ASSUME SettleInv, Quiescent, NEW o \in OutTasks, out[o].st = "settling"
               PROVE  /\ out[o].s \in Spends
                      /\ \E pc \in CutAt(spend[out[o].s].st) : <<out[o].s, pc>> \in cut
    BY DEF SettlingReconciled
  <2>1. out[o].s \in Spends /\ phase = "up" /\ 1..depth = {}
    BY DEF SettleInv, OwnInv, Quiescent
  <2>2. spend[out[o].s].st # "EXECUTING"
    BY <2>1 DEF SettleInv, Known, StrandInv, ExecInv, Transferred
  <2>3. Tended(o) /\ ~Owed(o)
    BY <2>1 DEF SettleInv, SettledInv, Owed
  <2> QED BY <2>1, <2>2, <2>3 DEF Tended
<1> QED BY <1>1, SettleInvariant, PTL

-------------------------------------------------------------------------------
(***************************************************************************)
(* While the process lives.  A task that waits for the owner has a request *)
(* that can still be decided, or an activation that will tell it of the    *)
(* decision; a withdrawn task has none, or the activation that releases it *)
(* runs.  A crash loses these activations: all of it holds until one.      *)
(***************************************************************************)
\* Where an activation waits once the owner channel is loaded.
Parking == {"transfer", "sent", "notify", "replying", "holding", "announce"}
Gated   == {"gate", "holding"}
Telling == {"notify", "advance", "replying"}
Open    == {"HELD", "NOTIFIED", "EXPIRED"}
Awaited == {"HELD", "EXPIRED"}

\* Activation f executes an approval of s; will move the outbound task of s; will
\* resume the inbound task of s.
Approves(f, s) == f.op = "approve" /\ f.s = s /\ f.pc \in {"execute", "transfer", "sent"}
Decides(f, s)  == Approves(f, s) \/ (f.pc \in Telling /\ s \in f.todo)
Resumes(f, s)  == \/ Approves(f, s)
                  \/ f.pc \in Telling /\ s \in f.todo /\ (f.pc # "notify" => f.s # s)

\* No inbound task has the request s; no outbound task waits for the owner with it.
NotInbound(s) == \A i \in InTasks : inb[i].s # s
NotWaiting(s) == \A o \in OutTasks : out[o].s = s => out[o].st # "awaiting-approval"

\* What an activation knows of its request, by where it is.
GateKnows(f) ==
  /\ f.s \in Spends /\ spend[f.s].st # "none" /\ NotInbound(f.s)
  /\ f.op \in {"send", "settle"}
  /\ f.op = "settle" => f.t \in OutTasks /\ out[f.t].s = f.s
FrameKnows(f) ==
  /\ f.pc \notin Restarting \cup {"recover"}
  /\ f.pc \in Gated => GateKnows(f)
  /\ f.pc = "gate" => NotWaiting(f.s) /\ spend[f.s].st = "CREATED"
  /\ f.pc = "park" => /\ f.t \in OutTasks /\ out[f.t].s = f.s /\ f.s \in Spends
                      /\ spend[f.s].st \in {"HELD", "NOTIFIED"}
  /\ f.pc = "execute" => f.op = "approve" /\ f.s \in Spends /\ spend[f.s].st = "APPROVED"
  /\ f.pc \in Handed => /\ f.s \in Spends /\ spend[f.s].st = "EXECUTING"
                        /\ f.op # "approve" => NotInbound(f.s) /\ NotWaiting(f.s)
  /\ f.pc = "release" => f.t \in InTasks /\ inb[f.t] = [st |-> "canceled", s |-> f.s]

StackKnows == \A d \in 1..depth : FrameKnows(frame[d]) /\ (d < depth => frame[d].pc \in Parking)

\* A request is in the wallet's hands once, and not at the gate above that.
Bound == Gated \cup Handed \cup {"execute"}
Apart == \A d, e \in 1..depth :
           d < e /\ frame[d].pc \in Handed /\ frame[e].pc \in Bound => frame[d].s # frame[e].s

OneInbound == \A i, j \in InTasks : inb[i].s \in Spends /\ inb[j].s = inb[i].s => i = j

OutWaits ==
  \A o \in OutTasks : out[o].st = "awaiting-approval" =>
    /\ out[o].s \in Spends
    /\ spend[out[o].s].st \in Open \/ \E d \in 1..depth : Decides(frame[d], out[o].s)
InbWaits ==
  \A i \in InTasks : inb[i].st = "input-required" =>
    /\ inb[i].s \in Spends
    /\ spend[inb[i].s].st \in Awaited \/ \E d \in 1..depth : Resumes(frame[d], inb[i].s)
Released ==
  \A i \in InTasks : inb[i].st = "canceled" /\ inb[i].s \in Spends =>
    ~Decidable(inb[i].s) \/ (At("release") /\ Top.s = inb[i].s)

Living  == phase = "up" /\ StackKnows /\ Apart /\ OneInbound /\ OutWaits /\ InbWaits /\ Released
LifeInv == crashes = 0 => Living

-------------------------------------------------------------------------------
(***************************************************************************)
(* A step between two activations: those up to k stay, and wait; only the  *)
(* request x changes its state, apart from those that expire.              *)
(***************************************************************************)
KeptUnder(k) ==
  /\ k \in Nat /\ depth \in {k, k + 1} /\ depth' \in {k, k + 1}
  /\ \A d \in 1..k : frame'[d] = frame[d] /\ frame[d].pc \in Parking

\* There is an activation above those.
OnTop(k)  == depth = k + 1
OnTop2(k) == depth' = k + 1

ChangesOnly(x, k) ==
  /\ \A s \in Spends : s # x =>
       \/ spend'[s].st = spend[s].st
       \/ spend'[s].st = "EXPIRED" /\ spend[s].st \in {"CREATED", "HELD", "NOTIFIED"}
  /\ x \in Spends => /\ spend'[x].st # "none"
                     /\ \A d \in 1..k : frame[d].pc \in Handed => frame[d].s # x

LinksGrow ==
  /\ \A i \in InTasks : inb'[i].s # inb[i].s =>
       inb'[i].s \in Spends /\ spend[inb'[i].s].st = "none"
  /\ \A i, j \in InTasks : inb'[i].s # inb[i].s /\ inb'[j].s # inb[j].s => i = j

\* Tasks that begin to wait have a request that can be decided.
NewWaits(k) ==
  /\ \A o \in OutTasks : out'[o].st = "awaiting-approval" =>
       /\ out'[o].s = out[o].s
       /\ \/ out[o].st = "awaiting-approval"
          \/ out[o].s \in Spends /\ spend[out[o].s].st \in {"HELD", "NOTIFIED"}
  /\ \A i \in InTasks : inb'[i].st = "input-required" =>
       inb'[i] = inb[i] \/ (inb'[i].s \in Spends /\ spend'[inb'[i].s].st = "HELD")
  /\ \A i \in InTasks : inb'[i].st = "canceled" /\ inb'[i].s \in Spends =>
       inb'[i] = inb[i] \/ (OnTop2(k) /\ Top'.pc = "release" /\ Top'.s = inb'[i].s)

\* The activation on top knows its request.
TopKnows(k) ==
  OnTop2(k) => /\ FrameKnows(Top)'
               /\ Top'.pc \in Bound => \A d \in 1..k : frame[d].pc \in Handed =>
                                                        frame[d].s # Top'.s

\* Whoever waits for x is answered or will be, and nobody waits in vain for the
\* activation that was on top.
OutTold(x, k) ==
  \A o \in OutTasks : out'[o].st = "awaiting-approval" =>
    /\ out[o].s = x /\ x \in Spends =>
         spend'[x].st \in Open \/ (OnTop2(k) /\ Decides(Top', x))
    /\ out[o].s # x /\ OnTop(k) /\ Decides(Top, out[o].s) =>
         OnTop2(k) /\ Decides(Top', out[o].s)
InbTold(x, k) ==
  \A i \in InTasks : inb'[i].st = "input-required" /\ inb'[i] = inb[i] =>
    /\ inb[i].s = x /\ x \in Spends =>
         spend'[x].st \in Awaited \/ (OnTop2(k) /\ Resumes(Top', x))
    /\ inb[i].s # x /\ OnTop(k) /\ Resumes(Top, inb[i].s) =>
         OnTop2(k) /\ Resumes(Top', inb[i].s)
StaysReleased(x, k) ==
  \A i \in InTasks : inb[i].st = "canceled" =>
    /\ inb[i].s = x /\ x \in Spends => spend'[x].st \notin {"HELD", "NOTIFIED"}
    /\ OnTop(k) /\ Top.pc = "release" /\ inb[i].s = Top.s /\ Top.s \in Spends =>
         spend'[inb[i].s].st \notin {"HELD", "NOTIFIED"}

Told(x, k) == OutTold(x, k) /\ InbTold(x, k) /\ StaysReleased(x, k)

\* What is known of a living process.
LifeKnown == SettleInv /\ Living

LEMMA KnowsUnder ==
  ASSUME LifeKnown, OneSpend, NEW x, NEW k, KeptUnder(k), ChangesOnly(x, k), LinksGrow,
         NewWaits(k), NEW d \in 1..k
  PROVE  FrameKnows(frame[d])' /\ frame'[d].pc \in Parking
<1>1. /\ frame'[d] = frame[d] /\ frame[d].pc \in Parking /\ FrameKnows(frame[d])
      /\ d \in 1..depth
  BY DEF KeptUnder, LifeKnown, Living, StackKnows
<1>2. /\ frame'[d].pc \notin Restarting \cup {"recover"}
      /\ frame'[d].pc \notin {"gate", "park", "execute", "release"}
  BY <1>1 DEF Parking, FrameKnows
<1>3. CASE frame[d].pc = "holding"
  <2>1. GateKnows(frame[d])
    BY <1>1, <1>3 DEF FrameKnows, Gated
  <2>2. \A i \in InTasks : inb'[i].s # frame[d].s
    BY <2>1 DEF GateKnows, NotInbound, LinksGrow
  <2>3. spend'[frame[d].s].st # "none"
    BY <2>1 DEF GateKnows, ChangesOnly
  <2>4. frame[d].op = "settle" => out'[frame[d].t].s = frame[d].s
    BY <2>1 DEF GateKnows, OneSpend
  <2>5. GateKnows(frame[d])'
    BY <1>1, <2>1, <2>2, <2>3, <2>4 DEF GateKnows, NotInbound
  <2>6. frame'[d].pc \notin Handed
    BY <1>1, <1>3 DEF Handed
  <2> QED BY <1>1, <1>2, <2>5, <2>6 DEF FrameKnows
<1>4. CASE frame[d].pc \in Handed
  <2>1. /\ frame[d].s \in Spends /\ spend[frame[d].s].st = "EXECUTING"
        /\ frame[d].op # "approve" => NotInbound(frame[d].s) /\ NotWaiting(frame[d].s)
    BY <1>1, <1>4 DEF FrameKnows
  <2>2. spend'[frame[d].s].st = "EXECUTING"
    BY <1>4, <2>1 DEF ChangesOnly
  <2>3. ASSUME frame[d].op # "approve"
        PROVE  /\ \A i \in InTasks : inb'[i].s # frame[d].s
               /\ \A o \in OutTasks : out'[o].s = frame[d].s =>
                                        out'[o].st # "awaiting-approval"
    BY <2>1, <2>3 DEF NotInbound, NotWaiting, LinksGrow, NewWaits
  <2>4. frame'[d].pc \notin Gated
    BY <1>1, <1>4 DEF Handed, Gated
  <2> QED BY <1>1, <1>2, <2>1, <2>2, <2>3, <2>4 DEF FrameKnows, NotInbound, NotWaiting
<1>5. CASE frame[d].pc \notin Handed /\ frame[d].pc # "holding"
  BY <1>1, <1>2, <1>5 DEF FrameKnows, Gated
<1> QED BY <1>3, <1>4, <1>5

LEMMA StackLives ==
  ASSUME LifeKnown, OneSpend, NEW x, NEW k, KeptUnder(k), ChangesOnly(x, k), LinksGrow,
         NewWaits(k), TopKnows(k)
  PROVE  StackKnows' /\ Apart'
<1>1. \A d \in 1..k : FrameKnows(frame[d])' /\ frame'[d].pc \in Parking
  BY KnowsUnder
<1>2. k \in Nat /\ depth' \in {k, k + 1} /\ depth \in {k, k + 1}
  BY DEF KeptUnder
<1>3. ASSUME NEW d \in 1..depth'
      PROVE  FrameKnows(frame[d])' /\ (d < depth' => frame'[d].pc \in Parking)
  <2>1. CASE d \in 1..k
    BY <1>1, <2>1
  <2>2. CASE d \notin 1..k
    <3>1. d = depth' /\ OnTop2(k)
      BY <1>2, <1>3, <2>2 DEF OnTop2
    <3>2. FrameKnows(Top)'
      BY <3>1 DEF TopKnows
    <3> QED BY <1>2, <3>1, <3>2 DEF Top
  <2> QED BY <2>1, <2>2
<1>4. ASSUME NEW d \in 1..depth', NEW e \in 1..depth', d < e,
             frame'[d].pc \in Handed, frame'[e].pc \in Bound
      PROVE  frame'[d].s # frame'[e].s
  <2>1. d \in 1..k /\ d \in 1..depth /\ frame'[d] = frame[d]
    BY <1>2, <1>4 DEF KeptUnder
  <2>2. CASE e \in 1..k
    <3>1. e \in 1..depth /\ frame'[e] = frame[e]
      BY <1>2, <2>2 DEF KeptUnder
    <3> QED BY <1>4, <2>1, <3>1 DEF LifeKnown, Living, Apart
  <2>3. CASE e \notin 1..k
    <3>1. e = depth' /\ OnTop2(k) /\ frame'[e] = Top'
      BY <1>2, <1>4, <2>3 DEF OnTop2, Top
    <3> QED BY <1>4, <2>1, <3>1 DEF TopKnows
  <2> QED BY <2>2, <2>3
<1> QED BY <1>3, <1>4 DEF StackKnows, Apart

\* An activation among those that stay, or the one on top.
LEMMA SomeKept ==
  ASSUME NEW k, KeptUnder(k), NEW d \in 1..depth
  PROVE  \/ d \in 1..k /\ d \in 1..depth' /\ frame'[d] = frame[d]
         \/ OnTop(k) /\ frame[d] = Top
BY DEF KeptUnder, OnTop, Top

LEMMA SomeNew ==
  ASSUME NEW k, KeptUnder(k), OnTop2(k)
  PROVE  depth' \in 1..depth' /\ frame'[depth'] = Top'
BY DEF KeptUnder, OnTop2, Top

LEMMA LifeKeeps ==
  ASSUME LifeKnown, OneSpend, UNCHANGED phase, NEW x, NEW k, KeptUnder(k),
         ChangesOnly(x, k), LinksGrow, NewWaits(k), TopKnows(k), Told(x, k)
  PROVE  Living'
<1>1. StackKnows' /\ Apart' /\ phase' = "up"
  BY StackLives DEF LifeKnown, Living
<1>2. OneInbound'
  <2>1. \A i \in InTasks : inb[i].s \in Spends => spend[inb[i].s].st # "none"
    BY DEF LifeKnown, SettleInv, Known, TaskInv, LinkInv
  <2> QED BY <2>1 DEF LifeKnown, Living, OneInbound, LinksGrow
<1>3. ASSUME NEW o \in OutTasks, out'[o].st = "awaiting-approval"
      PROVE  /\ out'[o].s \in Spends
             /\ spend'[out'[o].s].st \in Open \/ \E d \in 1..depth' : Decides(frame'[d], out'[o].s)
  <2>1. out'[o].s = out[o].s /\ out[o].s \in Spends
    BY <1>3 DEF NewWaits, LifeKnown, Living, OutWaits
  <2>2. CASE out[o].s = x
    <3>1. spend'[x].st \in Open \/ (OnTop2(k) /\ Decides(Top', x))
      BY <1>3, <2>1, <2>2 DEF Told, OutTold
    <3> QED BY <2>1, <2>2, <3>1, SomeNew
  <2>3. CASE out[o].s # x
    <3>1. spend[out[o].s].st \in Open \/ \E d \in 1..depth : Decides(frame[d], out[o].s)
      BY <1>3 DEF NewWaits, LifeKnown, Living, OutWaits, Open
    <3>2. CASE spend[out[o].s].st \in Open
      BY <2>1, <2>3, <3>2 DEF ChangesOnly, Open
    <3>3. ASSUME NEW d \in 1..depth, Decides(frame[d], out[o].s)
          PROVE  \E e \in 1..depth' : Decides(frame'[e], out[o].s)
      <4>1. CASE d \in 1..depth' /\ frame'[d] = frame[d]
        BY <3>3, <4>1
      <4>2. CASE OnTop(k) /\ frame[d] = Top
        <5>1. OnTop2(k) /\ Decides(Top', out[o].s)
          BY <1>3, <2>3, <3>3, <4>2 DEF Told, OutTold
        <5> QED BY <5>1, SomeNew
      <4> QED BY <4>1, <4>2, SomeKept
    <3> QED BY <2>1, <3>1, <3>2, <3>3
  <2> QED BY <2>2, <2>3
<1>4. ASSUME NEW i \in InTasks, inb'[i].st = "input-required"
      PROVE  /\ inb'[i].s \in Spends
             /\ spend'[inb'[i].s].st \in Awaited \/ \E d \in 1..depth' : Resumes(frame'[d], inb'[i].s)
  <2>1. CASE inb'[i] # inb[i]
    BY <1>4, <2>1 DEF NewWaits, Awaited
  <2>2. CASE inb'[i] = inb[i] /\ inb[i].s = x
    <3>1. inb[i].s \in Spends
      BY <1>4, <2>2 DEF LifeKnown, Living, InbWaits
    <3>2. spend'[x].st \in Awaited \/ (OnTop2(k) /\ Resumes(Top', x))
      BY <1>4, <2>2, <3>1 DEF Told, InbTold
    <3> QED BY <2>2, <3>1, <3>2, SomeNew
  <2>3. CASE inb'[i] = inb[i] /\ inb[i].s # x
    <3>1. /\ inb[i].s \in Spends
          /\ spend[inb[i].s].st \in Awaited \/ \E d \in 1..depth : Resumes(frame[d], inb[i].s)
      BY <1>4, <2>3 DEF LifeKnown, Living, InbWaits
    <3>2. CASE spend[inb[i].s].st \in Awaited
      BY <2>3, <3>1, <3>2 DEF ChangesOnly, Awaited
    <3>3. ASSUME NEW d \in 1..depth, Resumes(frame[d], inb[i].s)
          PROVE  \E e \in 1..depth' : Resumes(frame'[e], inb[i].s)
      <4>1. CASE d \in 1..depth' /\ frame'[d] = frame[d]
        BY <3>3, <4>1
      <4>2. CASE OnTop(k) /\ frame[d] = Top
        <5>1. OnTop2(k) /\ Resumes(Top', inb[i].s)
          BY <1>4, <2>3, <3>3, <4>2 DEF Told, InbTold
        <5> QED BY <5>1, SomeNew
      <4> QED BY <4>1, <4>2, SomeKept
    <3> QED BY <2>3, <3>1, <3>2, <3>3
  <2> QED BY <2>1, <2>2, <2>3
<1>5. ASSUME NEW i \in InTasks, inb'[i].st = "canceled", inb'[i].s \in Spends
      PROVE  \/ spend'[inb'[i].s].st \notin {"HELD", "NOTIFIED"}
             \/ depth' > 0 /\ Top'.pc = "release" /\ Top'.s = inb'[i].s
  <2>0. k \in Nat /\ (OnTop2(k) => depth' > 0)
    BY DEF KeptUnder, OnTop2
  <2>1. CASE inb'[i] # inb[i]
    BY <1>5, <2>0, <2>1 DEF NewWaits
  <2>2. CASE inb'[i] = inb[i]
    <3>1. ~Decidable(inb[i].s) \/ (At("release") /\ Top.s = inb[i].s)
      BY <1>5, <2>2 DEF LifeKnown, Living, Released
    <3>2. CASE inb[i].s = x
      BY <1>5, <2>2, <3>2 DEF Told, StaysReleased
    <3>3. CASE inb[i].s # x /\ ~Decidable(inb[i].s)
      BY <1>5, <2>2, <3>3 DEF ChangesOnly, Decidable
    <3>4. CASE inb[i].s # x /\ At("release") /\ Top.s = inb[i].s
      <4>1. OnTop(k)
        BY <2>0, <3>4 DEF KeptUnder, OnTop, At, Top, Parking
      <4> QED BY <1>5, <2>2, <3>4, <4>1 DEF Told, StaysReleased, At
    <3> QED BY <3>1, <3>2, <3>3, <3>4
  <2> QED BY <2>1, <2>2
<1> QED BY <1>1, <1>2, <1>3, <1>4, <1>5 DEF Living, OutWaits, InbWaits, Released, At, Decidable

-------------------------------------------------------------------------------
(***************************************************************************)
(* The stack, and what is known of requests.                               *)
(***************************************************************************)
LEMMA TopLives ==
  ASSUME LifeKnown, depth > 0
  PROVE  /\ depth \in 1..MaxDepth /\ depth \in 1..depth /\ Top \in Frames
         /\ FrameKnows(Top) /\ FrameOwn(Top) /\ FrameOK(Top, out, moved)
<1>1. /\ depth \in 1..MaxDepth /\ depth \in 1..depth /\ Top \in Frames
      /\ FrameOwn(Top) /\ FrameOK(Top, out, moved)
  BY TopOwn DEF LifeKnown
<1> QED BY <1>1 DEF LifeKnown, Living, StackKnows, Top

LEMMA ServedParks ==
  ASSUME LifeKnown, Served
  PROVE  depth > 0 => Top.pc \in Parking
<1> SUFFICES ASSUME depth > 0
             PROVE  Top.pc \in Parking
  OBVIOUS
<1>1. Waiting(Top) /\ FrameKnows(Top)
  BY TopLives DEF Served
<1> QED BY <1>1 DEF Waiting, FrameKnows, Parking, Restarting, Selecting

LEMMA AllPark ==
  ASSUME LifeKnown
  PROVE  /\ depth \in Nat
         /\ \A d \in 1..(depth - 1) : frame[d].pc \in Parking
         /\ Served => \A d \in 1..depth : frame[d].pc \in Parking
<1>1. depth \in Nat
  BY DEF LifeKnown, SettleInv, Known, TypeOK, StackOK
<1>2. \A d \in 1..depth : d < depth => frame[d].pc \in Parking
  BY DEF LifeKnown, Living, StackKnows
<1>3. Served /\ depth > 0 => frame[depth].pc \in Parking
  BY ServedParks DEF Top
<1>4. \A d \in 1..depth : d < depth \/ d = depth
  BY <1>1
<1> QED BY <1>1, <1>2, <1>3, <1>4

LEMMA PopKeeps ==
  ASSUME LifeKnown, depth > 0, Return
  PROVE  KeptUnder(depth - 1) /\ OnTop(depth - 1) /\ ~OnTop2(depth - 1)
<1>1. depth \in 1..MaxDepth /\ frame \in [1..MaxDepth -> Frames]
  BY TopLives DEF LifeKnown, SettleInv, Known, TypeOK, StackOK
<1> QED BY <1>1, AllPark DEF Return, KeptUnder, OnTop, OnTop2

LEMMA SwapKeeps ==
  ASSUME LifeKnown, depth > 0, NEW f, Become(f)
  PROVE  KeptUnder(depth - 1) /\ OnTop(depth - 1) /\ OnTop2(depth - 1) /\ Top' = f
<1>1. depth \in 1..MaxDepth /\ frame \in [1..MaxDepth -> Frames]
  BY TopLives DEF LifeKnown, SettleInv, Known, TypeOK, StackOK
<1> QED BY <1>1, AllPark DEF Become, KeptUnder, OnTop, OnTop2, Top

LEMMA PushKeeps ==
  ASSUME LifeKnown, NEW op, NEW pc, NEW s, NEW t, NEW todo, Begin(op, pc, s, t, FALSE, todo)
  PROVE  /\ KeptUnder(depth) /\ ~OnTop(depth) /\ OnTop2(depth)
         /\ Top'.op = op /\ Top'.pc = pc /\ Top'.s = s /\ Top'.t = t /\ Top'.todo = todo
<1>1. /\ depth \in Nat /\ depth + 1 \in 1..MaxDepth /\ frame \in [1..MaxDepth -> Frames]
      /\ MaxDepth \in Nat
  BY DEF LifeKnown, SettleInv, Known, TypeOK, StackOK, Begin
<1> QED BY <1>1, AllPark DEF Begin, KeptUnder, OnTop, OnTop2, Top

LEMMA StayKeeps ==
  ASSUME LifeKnown, Served, UNCHANGED stack
  PROVE  KeptUnder(depth) /\ ~OnTop(depth) /\ ~OnTop2(depth)
BY AllPark DEF stack, KeptUnder, OnTop, OnTop2

\* No activation below the top has the top's request in the wallet's hands.
LEMMA TopApart ==
  ASSUME LifeKnown, depth > 0, Top.pc \in Bound
  PROVE  \A d \in 1..(depth - 1) : frame[d].pc \in Handed => frame[d].s # Top.s
<1>1. depth \in Nat
  BY AllPark
<1> QED BY <1>1 DEF LifeKnown, Living, Apart, Top

LEMMA NotHanded ==
  ASSUME LifeKnown, NEW s \in Spends, spend[s].st # "EXECUTING"
  PROVE  \A d \in 1..depth : frame[d].pc \in Handed => frame[d].s # s
BY DEF LifeKnown, Living, StackKnows, FrameKnows

LEMMA LinkedExists ==
  ASSUME LifeKnown
  PROVE  /\ \A o \in OutTasks : out[o].s \in Spends =>
              spend[out[o].s].st # "none" /\ \A i \in InTasks : inb[i].s # out[o].s
         /\ \A i \in InTasks : inb[i].s \in Spends => spend[inb[i].s].st # "none"
BY DEF LifeKnown, SettleInv, OwnInv, Known, TaskInv, LinkInv

LEMMA SetSpendChanges ==
  ASSUME SpendOK, NEW s \in Spends, NEW st, st # "none", SetSpend(s, st), NEW k,
         \A d \in 1..k : frame[d].pc \in Handed => frame[d].s # s
  PROVE  ChangesOnly(s, k) /\ spend'[s].st = st
BY DEF SpendOK, SetSpend, ChangesOnly, Rows

LEMMA TypesLive ==
  ASSUME LifeKnown
  PROVE  /\ SpendOK /\ OutOK /\ InbOK /\ StackOK /\ phase = "up" /\ None \notin Spends
BY DEF LifeKnown, SettleInv, Known, TypeOK, Living

LEMMA TablesStay ==
  ASSUME NEW k
  PROVE  /\ UNCHANGED inb => LinksGrow
         /\ UNCHANGED <<out, inb>> => NewWaits(k)
         /\ UNCHANGED spend => ChangesOnly(None, k)
BY DEF LinksGrow, NewWaits, ChangesOnly

-------------------------------------------------------------------------------
(***************************************************************************)
(* The gate and the approval.                                              *)
(***************************************************************************)
LEMMA GateLives ==
  ASSUME LifeKnown, OneSpend, GateExecute \/ \E notified \in BOOLEAN : GateHold(notified)
  PROVE  Living'
<1> DEFINE x == Top.s
<1>0. SpendOK /\ Top \in Frames /\ depth > 0 /\ Top.pc = "gate" /\ FrameOK(Top, out, moved)
  BY TypesLive, TopLives DEF GateExecute, GateHold, At
<1>1. GateKnows(Top) /\ NotWaiting(x) /\ x \in Spends
  BY <1>0, TopLives DEF FrameKnows, Gated, GateKnows
<1>2. \A d \in 1..(depth - 1) : frame[d].pc \in Handed => frame[d].s # x
  BY <1>0, TopApart DEF Bound, Gated
<1>3. UNCHANGED <<out, inb, phase>> /\ LinksGrow /\ NewWaits(depth - 1)
  BY TablesStay DEF GateExecute, GateHold
<1>4. ASSUME NEW st \in {"EXECUTING", "HELD"}, SetSpend(x, st),
             KeptUnder(depth - 1), TopKnows(depth - 1)
      PROVE  Living'
  <2>1. ChangesOnly(x, depth - 1) /\ spend'[x].st = st
    BY <1>0, <1>1, <1>2, <1>4 DEF SetSpend, SpendOK, ChangesOnly, Rows
  <2>2. OutTold(x, depth - 1)
    BY <1>0, <1>1, <1>3 DEF OutTold, NotWaiting, Decides, Approves, Telling
  <2>3. InbTold(x, depth - 1)
    BY <1>0, <1>1, <1>3 DEF InbTold, GateKnows, NotInbound, Resumes, Approves, Telling
  <2>4. StaysReleased(x, depth - 1)
    BY <1>0, <1>1 DEF StaysReleased, GateKnows, NotInbound
  <2> QED BY <1>3, <1>4, <2>1, <2>2, <2>3, <2>4, LifeKeeps DEF Told
<1>5. CASE GateExecute
  <2> DEFINE f == [Top EXCEPT !.pc = "transfer"]
  <2>1. f.pc = "transfer" /\ f.s = x /\ f.op = Top.op
    BY <1>0 DEF Frames
  <2>2. Become(f)
    BY <1>5 DEF GateExecute, Goto
  <2> HIDE DEF f
  <2>3. KeptUnder(depth - 1) /\ OnTop2(depth - 1) /\ Top' = f
    BY <1>0, <2>2, SwapKeeps
  <2>4. spend'[x].st = "EXECUTING" /\ SetSpend(x, "EXECUTING")
    BY <1>0, <1>1, <1>5 DEF GateExecute, SetSpend, SpendOK
  <2>5. FrameKnows(Top)'
    BY <1>1, <1>3, <2>1, <2>3, <2>4
    DEF FrameKnows, GateKnows, NotInbound, NotWaiting, Gated, Handed, Restarting, Selecting
  <2>6. TopKnows(depth - 1)
    BY <1>2, <2>1, <2>3, <2>5 DEF TopKnows
  <2> QED BY <1>4, <2>3, <2>4, <2>6
<1>6. ASSUME NEW notified \in BOOLEAN, GateHold(notified)
      PROVE  Living'
  <2>1. spend'[x].st = "HELD" /\ SetSpend(x, "HELD")
    BY <1>0, <1>1, <1>6 DEF GateHold, SetSpend, SpendOK
  <2>2. CASE Return
    BY <1>0, <1>4, <2>1, <2>2, PopKeeps DEF TopKnows
  <2>3. ASSUME NEW pc, pc = "holding" \/ (pc = "park" /\ Top.op = "settle"), Goto(pc)
        PROVE  Living'
    <3> DEFINE f == [Top EXCEPT !.pc = pc]
    <3>1. f.pc = pc /\ f.s = x /\ f.op = Top.op /\ f.t = Top.t
      BY <1>0 DEF Frames
    <3>2. Become(f)
      BY <2>3 DEF Goto
    <3> HIDE DEF f
    <3>3. KeptUnder(depth - 1) /\ OnTop2(depth - 1) /\ Top' = f
      BY <1>0, <3>2, SwapKeeps
    <3>4. FrameKnows(Top)'
      BY <1>1, <1>3, <2>1, <2>3, <3>1, <3>3
      DEF FrameKnows, GateKnows, NotInbound, Gated, Handed, Restarting, Selecting
    <3>5. TopKnows(depth - 1)
      BY <1>2, <3>1, <3>3, <3>4 DEF TopKnows
    <3> QED BY <1>4, <2>1, <3>3, <3>5
  <2> QED BY <1>6, <2>2, <2>3 DEF GateHold, AfterHold
<1> QED BY <1>5, <1>6

LEMMA HoldingLives ==
  ASSUME LifeKnown, OneSpend, HoldNotified
  PROVE  Living'
<1> DEFINE x == Top.s
<1>0. SpendOK /\ Top \in Frames /\ depth > 0 /\ Top.pc = "holding"
  BY TypesLive, TopLives DEF HoldNotified, At
<1>1. GateKnows(Top) /\ x \in Spends
  BY <1>0, TopLives DEF FrameKnows, Gated, GateKnows
<1>2. \A d \in 1..(depth - 1) : frame[d].pc \in Handed => frame[d].s # x
  BY <1>0, TopApart DEF Bound, Gated
<1>3. UNCHANGED <<out, inb, phase>> /\ LinksGrow /\ NewWaits(depth - 1)
  BY TablesStay DEF HoldNotified
<1>4. ChangesOnly(x, depth - 1) /\ spend'[x].st = "NOTIFIED"
  BY <1>0, <1>1, <1>2, SetSpendChanges DEF HoldNotified
<1>5. Told(x, depth - 1)
  <2>1. OutTold(x, depth - 1)
    BY <1>0, <1>4 DEF OutTold, Open, Decides, Approves, Telling
  <2>2. InbTold(x, depth - 1)
    BY <1>0, <1>1, <1>3 DEF InbTold, GateKnows, NotInbound, Resumes, Approves, Telling
  <2>3. StaysReleased(x, depth - 1)
    BY <1>0, <1>1 DEF StaysReleased, GateKnows, NotInbound
  <2> QED BY <2>1, <2>2, <2>3 DEF Told
<1>6. KeptUnder(depth - 1) /\ TopKnows(depth - 1)
  <2>1. CASE Return
    BY <1>0, <2>1, PopKeeps DEF TopKnows
  <2>2. CASE Top.op = "settle" /\ Goto("park")
    <3> DEFINE f == [Top EXCEPT !.pc = "park"]
    <3>1. f.pc = "park" /\ f.s = x /\ f.t = Top.t
      BY <1>0 DEF Frames
    <3>2. Become(f)
      BY <2>2 DEF Goto
    <3> HIDE DEF f
    <3>3. KeptUnder(depth - 1) /\ OnTop2(depth - 1) /\ Top' = f
      BY <1>0, <3>2, SwapKeeps
    <3>4. FrameKnows(Top)'
      BY <1>1, <1>3, <1>4, <2>2, <3>1, <3>3
      DEF FrameKnows, GateKnows, Gated, Handed, Restarting, Selecting
    <3> QED BY <1>2, <3>1, <3>3, <3>4 DEF TopKnows
  <2> QED BY <2>1, <2>2 DEF HoldNotified, AfterHold
<1> QED BY <1>3, <1>4, <1>5, <1>6, LifeKeeps

LEMMA ExecuteLives ==
  ASSUME LifeKnown, OneSpend, ExecuteApproved
  PROVE  Living'
<1> DEFINE x == Top.s
           f == [Top EXCEPT !.pc = "transfer"]
<1>0. SpendOK /\ Top \in Frames /\ depth > 0 /\ Top.pc = "execute"
  BY TypesLive, TopLives DEF ExecuteApproved, At
<1>1. Top.op = "approve" /\ x \in Spends
  BY <1>0, TopLives DEF FrameKnows
<1>2. \A d \in 1..(depth - 1) : frame[d].pc \in Handed => frame[d].s # x
  BY <1>0, TopApart DEF Bound
<1>3. UNCHANGED <<out, inb, phase>> /\ LinksGrow /\ NewWaits(depth - 1)
  BY TablesStay DEF ExecuteApproved
<1>4. ChangesOnly(x, depth - 1) /\ spend'[x].st = "EXECUTING"
  BY <1>0, <1>1, <1>2, SetSpendChanges DEF ExecuteApproved
<1>5. f.pc = "transfer" /\ f.s = x /\ f.op = "approve"
  BY <1>0, <1>1 DEF Frames
<1>6. Become(f)
  BY DEF ExecuteApproved, Goto
<1> HIDE DEF f
<1>7. KeptUnder(depth - 1) /\ OnTop2(depth - 1) /\ Top' = f
  BY <1>0, <1>6, SwapKeeps
<1>8. FrameKnows(Top)'
  BY <1>1, <1>4, <1>5, <1>7 DEF FrameKnows, Gated, Handed, Restarting, Selecting
<1>9. TopKnows(depth - 1)
  BY <1>2, <1>5, <1>7, <1>8 DEF TopKnows
<1>10. Told(x, depth - 1)
  <2>1. Decides(Top', x) /\ Resumes(Top', x)
    BY <1>5, <1>7 DEF Decides, Resumes, Approves
  <2>2. \A s : Decides(Top, s) \/ Resumes(Top, s) => s = x
    BY <1>0 DEF Decides, Resumes, Approves, Telling
  <2> QED BY <1>0, <1>4, <1>7, <2>1, <2>2 DEF Told, OutTold, InbTold, StaysReleased
<1> QED BY <1>3, <1>4, <1>7, <1>9, <1>10, LifeKeeps

-------------------------------------------------------------------------------
(***************************************************************************)
(* The wallet.                                                             *)
(***************************************************************************)
LEMMA WalletLives ==
  ASSUME LifeKnown, OneSpend, WalletAnswers
  PROVE  Living'
<1> DEFINE x == Top.s
<1>0. SpendOK /\ Top \in Frames /\ depth > 0 /\ Top.pc \in Handed
      /\ FrameKnows(Top) /\ FrameOwn(Top)
  BY TypesLive, TopLives
  DEF WalletAnswers, TransferConfirmed, TransferRefused, TransferLost, At, Handed
<1>1. /\ x \in Spends /\ Top.op \in {"send", "settle", "approve"}
      /\ Top.op # "approve" => NotInbound(x) /\ NotWaiting(x)
  BY <1>0 DEF FrameKnows, FrameOwn, Handed
<1>2. \A d \in 1..(depth - 1) : frame[d].pc \in Handed => frame[d].s # x
  BY <1>0, TopApart DEF Bound
<1>3. UNCHANGED <<out, inb, phase>> /\ LinksGrow /\ NewWaits(depth - 1)
  BY TablesStay DEF WalletAnswers, TransferConfirmed, TransferRefused, TransferLost
<1>4. PICK ok \in BOOLEAN, st \in {"COMPLETED", "TX_FAILED"} :
        SetSpend(x, st) /\ AfterExecute(ok)
  BY DEF WalletAnswers, TransferConfirmed, TransferRefused, TransferLost
<1>5. ChangesOnly(x, depth - 1) /\ spend'[x].st = st
  BY <1>0, <1>1, <1>2, <1>4 DEF SetSpend, SpendOK, ChangesOnly, Rows
<1>6. \A s : Decides(Top, s) \/ Resumes(Top, s) => s = x
  BY <1>0 DEF Decides, Resumes, Approves, Telling, Handed
<1>7. ASSUME KeptUnder(depth - 1), TopKnows(depth - 1),
             Top.op = "approve" => OnTop2(depth - 1) /\ Decides(Top', x) /\ Resumes(Top', x)
      PROVE  Living'
  <2>1. OutTold(x, depth - 1)
    BY <1>1, <1>3, <1>6, <1>7 DEF OutTold, NotWaiting
  <2>2. InbTold(x, depth - 1)
    BY <1>1, <1>3, <1>6, <1>7 DEF InbTold, NotInbound
  <2>3. StaysReleased(x, depth - 1)
    BY <1>0, <1>5 DEF StaysReleased, Handed
  <2> QED BY <1>3, <1>5, <1>7, <2>1, <2>2, <2>3, LifeKeeps DEF Told
<1>8. CASE Top.op = "send" /\ Return
  BY <1>0, <1>7, <1>8, PopKeeps DEF TopKnows
<1>9. CASE Top.op = "approve" /\ Become([Top EXCEPT !.pc = "notify", !.ok = ok, !.todo = {Top.s}])
  <2> DEFINE f == [Top EXCEPT !.pc = "notify", !.ok = ok, !.todo = {Top.s}]
  <2>1. f.pc = "notify" /\ f.todo = {x}
    BY <1>0 DEF Frames
  <2> HIDE DEF f
  <2>2. KeptUnder(depth - 1) /\ OnTop2(depth - 1) /\ Top' = f
    BY <1>0, <1>9, SwapKeeps DEF f
  <2>3. FrameKnows(Top)' /\ Top'.pc \notin Bound
    BY <2>1, <2>2 DEF FrameKnows, Gated, Handed, Restarting, Selecting, Bound
  <2>4. Decides(Top', x) /\ Resumes(Top', x)
    BY <2>1, <2>2 DEF Decides, Resumes, Telling
  <2> QED BY <1>7, <2>2, <2>3, <2>4 DEF TopKnows
<1>10. CASE Top.op \notin {"send", "approve"} /\ Become([Top EXCEPT !.pc = "record", !.ok = ok])
  <2> DEFINE f == [Top EXCEPT !.pc = "record", !.ok = ok]
  <2>1. f.pc = "record"
    BY <1>0 DEF Frames
  <2> HIDE DEF f
  <2>2. KeptUnder(depth - 1) /\ OnTop2(depth - 1) /\ Top' = f
    BY <1>0, <1>10, SwapKeeps DEF f
  <2>3. FrameKnows(Top)' /\ Top'.pc \notin Bound
    BY <2>1, <2>2 DEF FrameKnows, Gated, Handed, Restarting, Selecting, Bound
  <2> QED BY <1>7, <1>10, <2>2, <2>3 DEF TopKnows
<1> QED BY <1>4, <1>8, <1>9, <1>10 DEF AfterExecute

LEMMA MoneyLives ==
  ASSUME LifeKnown,
         \/ \E d \in 1..MaxDepth : WalletMoves(d)
         \/ \E s \in Spends : LateMove(s) \/ LateFailure(s)
         \/ UNCHANGED vars
  PROVE  Living'
<1>1. UNCHANGED <<spend, out, inb, depth, phase>>
  BY DEF WalletMoves, LateMove, LateFailure, vars, db, stack, hist
<1>2. \A d \in 1..depth :
        \/ frame'[d] = frame[d]
        \/ /\ frame[d].pc = "transfer" /\ frame'[d].pc = "sent"
           /\ frame'[d].s = frame[d].s /\ frame'[d].op = frame[d].op
  <2>1. ASSUME NEW e \in 1..MaxDepth, WalletMoves(e), NEW d \in 1..depth
        PROVE  \/ frame'[d] = frame[d]
               \/ /\ frame[d].pc = "transfer" /\ frame'[d].pc = "sent"
                  /\ frame'[d].s = frame[d].s /\ frame'[d].op = frame[d].op
    <3>1. frame \in [1..MaxDepth -> Frames] /\ depth \in 0..MaxDepth
      BY DEF LifeKnown, SettleInv, Known, TypeOK, StackOK
    <3>2. frame' = [frame EXCEPT ![e] = [frame[e] EXCEPT !.pc = "sent"]]
          /\ frame[e].pc = "transfer"
      BY <2>1 DEF WalletMoves
    <3>3. /\ [frame[e] EXCEPT !.pc = "sent"].pc = "sent"
          /\ [frame[e] EXCEPT !.pc = "sent"].s = frame[e].s
          /\ [frame[e] EXCEPT !.pc = "sent"].op = frame[e].op
      BY <3>1 DEF Frames
    <3> QED BY <3>1, <3>2, <3>3
  <2>2. CASE UNCHANGED frame
    BY <2>2
  <2> QED BY <2>1, <2>2 DEF LateMove, LateFailure, vars, stack
<1>3. StackKnows'
  <2>1. ASSUME NEW d \in 1..depth
        PROVE  FrameKnows(frame[d])' /\ (d < depth => frame'[d].pc \in Parking)
    <3>1. FrameKnows(frame[d]) /\ (d < depth => frame[d].pc \in Parking)
      BY DEF LifeKnown, Living, StackKnows
    <3>2. CASE frame'[d] = frame[d]
      BY <1>1, <3>1, <3>2 DEF FrameKnows, GateKnows, NotInbound, NotWaiting
    <3>3. CASE /\ frame[d].pc = "transfer" /\ frame'[d].pc = "sent"
               /\ frame'[d].s = frame[d].s /\ frame'[d].op = frame[d].op
      <4>1. /\ frame[d].s \in Spends /\ spend[frame[d].s].st = "EXECUTING"
            /\ frame[d].op # "approve" => NotInbound(frame[d].s) /\ NotWaiting(frame[d].s)
        BY <3>1, <3>3 DEF FrameKnows, Handed
      <4>2. FrameKnows(frame[d])'
        BY <1>1, <3>3, <4>1
        DEF FrameKnows, NotInbound, NotWaiting, Gated, Handed, Restarting, Selecting
      <4> QED BY <3>3, <4>2 DEF Parking
    <3> QED BY <1>2, <3>2, <3>3
  <2> QED BY <1>1, <2>1 DEF StackKnows
<1>4. Apart'
  BY <1>1, <1>2 DEF LifeKnown, Living, Apart, Handed, Bound, Gated
<1>5. OneInbound'
  BY <1>1 DEF LifeKnown, Living, OneInbound
<1>6. \A s : \A d \in 1..depth :
          /\ Decides(frame[d], s) => Decides(frame'[d], s)
          /\ Resumes(frame[d], s) => Resumes(frame'[d], s)
  BY <1>2 DEF Decides, Resumes, Approves, Telling
<1>7. OutWaits' /\ InbWaits'
  BY <1>1, <1>6 DEF LifeKnown, Living, OutWaits, InbWaits
<1>8. Released'
  <2>1. depth > 0 /\ Top.pc = "release" => Top' = Top
    BY <1>1, <1>2, TopLives DEF Top
  <2> QED BY <1>1, <2>1 DEF LifeKnown, Living, Released, At, Decidable
<1> QED BY <1>1, <1>3, <1>4, <1>5, <1>7, <1>8 DEF LifeKnown, Living

-------------------------------------------------------------------------------
(***************************************************************************)
(* Telling the tasks.                                                      *)
(***************************************************************************)
LEMMA ResumeLives ==
  ASSUME LifeKnown, OneSpend, NEW s \in Spends, ResumeTask(s)
  PROVE  Living'
<1> DEFINE f == [Top EXCEPT !.s = s,
                            !.pc = IF ParkedFor(s) = {} THEN "advance" ELSE "replying"]
<1>0. InbOK /\ Top \in Frames /\ depth > 0 /\ Top.pc = "notify" /\ s \in Top.todo
  BY TypesLive, TopLives DEF ResumeTask, At
<1>1. f.pc \in {"advance", "replying"} /\ f.s = s /\ f.todo = Top.todo /\ f.op = Top.op
  BY <1>0 DEF Frames
<1>2. Become(f)
  BY DEF ResumeTask
<1> HIDE DEF f
<1>3. KeptUnder(depth - 1) /\ OnTop2(depth - 1) /\ Top' = f
  BY <1>0, <1>2, SwapKeeps
<1>4. UNCHANGED <<spend, out, phase>> /\ inb' = ResumeInbound(s, Top.ok)
  BY DEF ResumeTask
<1>5. \A i \in InTasks : /\ inb'[i].s = inb[i].s
                         /\ \/ inb'[i] = inb[i] /\ i \notin ParkedFor(s)
                            \/ inb'[i].st \in {"completed", "failed"}
  BY <1>0, <1>4 DEF InbOK, ResumeInbound
<1>6. LinksGrow /\ NewWaits(depth - 1) /\ ChangesOnly(None, depth - 1)
  BY <1>4, <1>5, TablesStay DEF LinksGrow, NewWaits
<1>7. TopKnows(depth - 1)
  BY <1>1, <1>3 DEF TopKnows, FrameKnows, Gated, Handed, Restarting, Selecting, Bound
<1>8. OutTold(None, depth - 1)
  BY <1>0, <1>1, <1>3, TypesLive DEF OutTold, Decides, Approves, Telling
<1>9. InbTold(None, depth - 1)
  <2> SUFFICES ASSUME NEW i \in InTasks, inb'[i].st = "input-required", inb'[i] = inb[i],
                      Resumes(Top, inb[i].s)
               PROVE  Resumes(Top', inb[i].s)
    BY <1>3, TypesLive DEF InbTold
  <2>1. inb[i].s # s
    BY <1>5 DEF ParkedFor
  <2>2. inb[i].s \in Top.todo
    BY <1>0 DEF Resumes, Approves
  <2> QED BY <1>1, <1>3, <2>1, <2>2 DEF Resumes, Telling
<1>10. StaysReleased(None, depth - 1)
  BY <1>0, TypesLive DEF StaysReleased
<1> QED BY <1>3, <1>4, <1>6, <1>7, <1>8, <1>9, <1>10, LifeKeeps DEF Told

LEMMA AdvanceLives ==
  ASSUME LifeKnown, OneSpend, AdvanceTask
  PROVE  Living'
<1> DEFINE f == [Top EXCEPT !.todo = @ \ {Top.s}, !.pc = "notify"]
<1>0. OutOK /\ Top \in Frames /\ depth > 0 /\ Top.pc \in {"advance", "replying"}
  BY TypesLive, TopLives DEF AdvanceTask, At
<1>1. f.pc = "notify" /\ f.todo = Top.todo \ {Top.s}
  BY <1>0 DEF Frames
<1>2. (Return /\ Top.todo = {Top.s}) \/ Become(f)
  BY DEF AdvanceTask
<1> HIDE DEF f
<1>3. KeptUnder(depth - 1) /\ (OnTop2(depth - 1) => Top' = f)
      /\ (Top.todo # {Top.s} => OnTop2(depth - 1) /\ Top' = f)
  BY <1>0, <1>2, SwapKeeps, PopKeeps
<1>4. UNCHANGED <<spend, inb, phase>>
      /\ out' = AdvanceLinked(Top.s, IF Top.ok THEN "paid" ELSE "pay-failed")
  BY DEF AdvanceTask
<1>5. \A o \in OutTasks : /\ out'[o].s = out[o].s
                          /\ out'[o].st = "awaiting-approval" =>
                               out[o].st = "awaiting-approval" /\ out[o].s # Top.s
  BY <1>0, <1>4 DEF OutOK, AdvanceLinked
<1>6. LinksGrow /\ NewWaits(depth - 1) /\ ChangesOnly(None, depth - 1)
  BY <1>4, <1>5, TablesStay DEF NewWaits
<1>7. TopKnows(depth - 1)
  BY <1>1, <1>3 DEF TopKnows, FrameKnows, Gated, Handed, Restarting, Selecting, Bound
<1>8. ASSUME NEW s, s # Top.s, Decides(Top, s) \/ Resumes(Top, s)
      PROVE  OnTop2(depth - 1) /\ Decides(Top', s) /\ Resumes(Top', s)
  <2>1. s \in Top.todo /\ Top.todo # {Top.s}
    BY <1>0, <1>8 DEF Decides, Resumes, Approves
  <2> QED BY <1>1, <1>3, <1>8, <2>1 DEF Decides, Resumes, Telling
<1>9. OutTold(None, depth - 1)
  BY <1>5, <1>8, TypesLive DEF OutTold
<1>10. InbTold(None, depth - 1)
  <2>1. \A s : Resumes(Top, s) => s # Top.s
    BY <1>0 DEF Resumes, Approves
  <2> QED BY <1>8, <2>1, TypesLive DEF InbTold
<1>11. StaysReleased(None, depth - 1)
  BY <1>0, TypesLive DEF StaysReleased
<1> QED BY <1>3, <1>4, <1>6, <1>7, <1>9, <1>10, <1>11, LifeKeeps DEF Told

-------------------------------------------------------------------------------
(***************************************************************************)
(* What is served.                                                         *)
(***************************************************************************)
\* Served calls that leave the requests alone.
LEMMA ServedLives ==
  ASSUME LifeKnown, OneSpend, UNCHANGED <<spend, phase>>, KeptUnder(depth), LinksGrow,
         NewWaits(depth), TopKnows(depth)
  PROVE  Living'
<1>1. ~OnTop(depth) /\ ChangesOnly(None, depth)
  BY AllPark, TablesStay DEF OnTop
<1>2. Told(None, depth)
  BY <1>1, TypesLive DEF Told, OutTold, InbTold, StaysReleased
<1> QED BY <1>1, <1>2, LifeKeeps

\* A new request: nobody waits for it.
LEMMA CreatedLives ==
  ASSUME LifeKnown, OneSpend, NEW s \in Spends, NEW a, Fresh(s), spend' = Created(s, a),
         UNCHANGED <<inb, phase>>, KeptUnder(depth), NewWaits(depth), TopKnows(depth)
  PROVE  Living'
<1>1. ChangesOnly(s, depth)
  <2>1. \A d \in 1..depth : frame[d].pc \in Handed => frame[d].s # s
    BY NotHanded DEF Fresh
  <2> QED BY <2>1, TypesLive DEF Created, ChangesOnly, SpendOK
<1>2. /\ \A o \in OutTasks : out[o].s # s
      /\ \A i \in InTasks : inb[i].s # s
      /\ ~OnTop(depth)
  BY LinkedExists, AllPark DEF Fresh, OnTop
<1>3. Told(s, depth)
  BY <1>2 DEF Told, OutTold, InbTold, StaysReleased
<1> QED BY <1>1, <1>3, TablesStay, LifeKeeps

\* A request is decided, and the activation that was begun tells of it.
LEMMA DecidedLives ==
  ASSUME LifeKnown, OneSpend, NEW s \in Spends, NEW st, SetSpend(s, st),
         st \in {"APPROVED", "REJECTED", "EXPIRED"}, Decidable(s), UNCHANGED <<out, inb, phase>>,
         KeptUnder(depth), TopKnows(depth),
         st # "EXPIRED" => OnTop2(depth) /\ Decides(Top', s) /\ Resumes(Top', s)
  PROVE  Living'
<1>1. ChangesOnly(s, depth) /\ spend'[s].st = st
  <2>1. \A d \in 1..depth : frame[d].pc \in Handed => frame[d].s # s
    BY NotHanded DEF Decidable
  <2> QED BY <2>1, TypesLive DEF SetSpend, SpendOK, ChangesOnly, Rows
<1>2. Told(s, depth)
  <2>1. ~OnTop(depth)
    BY AllPark DEF OnTop
  <2> QED BY <1>1, <2>1 DEF Told, OutTold, InbTold, StaysReleased, Open, Awaited
<1> QED BY <1>1, <1>2, TablesStay, LifeKeeps

LEMMA RejectLives ==
  ASSUME LifeKnown, OneSpend, NEW s \in Spends, Reject(s)
  PROVE  Living'
<1>1. /\ Begin("reject", "notify", s, None, FALSE, {s}) /\ SetSpend(s, "REJECTED")
      /\ Decidable(s) /\ UNCHANGED <<out, inb, phase>>
  BY DEF Reject
<1>2. KeptUnder(depth) /\ OnTop2(depth) /\ Top'.pc = "notify" /\ Top'.todo = {s}
  BY <1>1, PushKeeps
<1>3. TopKnows(depth)
  BY <1>2 DEF TopKnows, FrameKnows, Gated, Handed, Restarting, Selecting, Bound
<1>4. Decides(Top', s) /\ Resumes(Top', s)
  BY <1>2 DEF Decides, Resumes, Telling
<1> QED BY <1>1, <1>2, <1>3, <1>4, DecidedLives

LEMMA RequestsLive ==
  ASSUME LifeKnown, OneSpend, Requests
  PROVE  Living'
<1>1. ASSUME NEW s \in Spends, NEW a \in Amounts, WalletSend(s, a)
      PROVE  Living'
  <2>1. /\ Begin("send", "gate", s, None, FALSE, {}) /\ Fresh(s) /\ spend' = Created(s, a)
        /\ UNCHANGED <<out, inb, phase>>
    BY <1>1 DEF WalletSend
  <2>2. /\ KeptUnder(depth) /\ OnTop2(depth)
        /\ Top'.op = "send" /\ Top'.pc = "gate" /\ Top'.s = s
    BY <2>1, PushKeeps
  <2>3. spend'[s].st = "CREATED"
    BY <2>1, TypesLive DEF Created, SpendOK
  <2>4. /\ \A o \in OutTasks : out[o].s # s
        /\ \A i \in InTasks : inb[i].s # s
    BY <2>1, LinkedExists DEF Fresh
  <2>5. FrameKnows(Top)'
    BY <2>1, <2>2, <2>3, <2>4
    DEF FrameKnows, GateKnows, NotInbound, NotWaiting, Gated, Handed, Restarting, Selecting
  <2>6. TopKnows(depth)
    BY <2>1, <2>2, <2>5, NotHanded DEF TopKnows, Fresh
  <2> QED BY <2>1, <2>2, <2>6, CreatedLives, TablesStay
<1>2. ASSUME NEW s \in Spends, NEW a \in Amounts, ProgramCallHeld(s, a)
      PROVE  Living'
  <2>1. /\ Served /\ Fresh(s) /\ spend' = Created(s, a)
        /\ UNCHANGED <<out, inb, phase>> /\ UNCHANGED stack
    BY <1>2 DEF ProgramCallHeld
  <2>2. KeptUnder(depth) /\ TopKnows(depth)
    BY <2>1, StayKeeps DEF TopKnows
  <2> QED BY <2>1, <2>2, CreatedLives, TablesStay
<1>3. ASSUME NEW s \in Spends, Approve(s)
      PROVE  Living'
  <2>1. /\ Begin("approve", "execute", s, None, FALSE, {}) /\ SetSpend(s, "APPROVED")
        /\ Decidable(s) /\ UNCHANGED <<out, inb, phase>>
    BY <1>3 DEF Approve
  <2>2. /\ KeptUnder(depth) /\ OnTop2(depth)
        /\ Top'.op = "approve" /\ Top'.pc = "execute" /\ Top'.s = s
    BY <2>1, PushKeeps
  <2>3. spend'[s].st = "APPROVED"
    BY <2>1, TypesLive DEF SetSpend, SpendOK, Rows
  <2>4. FrameKnows(Top)'
    BY <2>2, <2>3 DEF FrameKnows, Gated, Handed, Restarting, Selecting
  <2>5. TopKnows(depth)
    BY <2>1, <2>2, <2>4, NotHanded DEF TopKnows, Decidable
  <2>6. Decides(Top', s) /\ Resumes(Top', s)
    BY <2>2 DEF Decides, Resumes, Approves
  <2> QED BY <2>1, <2>2, <2>5, <2>6, DecidedLives
<1>4. ASSUME NEW s \in Spends, ApproveTooLate(s)
      PROVE  Living'
  <2>1. /\ Served /\ Decidable(s) /\ SetSpend(s, "EXPIRED")
        /\ UNCHANGED <<out, inb, phase>> /\ UNCHANGED stack
    BY <1>4 DEF ApproveTooLate
  <2>2. KeptUnder(depth) /\ TopKnows(depth)
    BY <2>1, StayKeeps DEF TopKnows
  <2> QED BY <2>1, <2>2, DecidedLives
<1>5. ASSUME NEW s \in Spends, Reject(s)
      PROVE  Living'
  BY <1>5, RejectLives
<1>6. CASE ExpireStale
  <2>1. /\ Begin("sweep", "notify", None, None, FALSE, StaleSpends)
        /\ spend' = AllExpired(StaleSpends) /\ UNCHANGED <<out, inb, phase>>
    BY <1>6 DEF ExpireStale
  <2>2. KeptUnder(depth) /\ ~OnTop(depth) /\ Top'.pc = "notify"
    BY <2>1, PushKeeps
  <2>3. ChangesOnly(None, depth)
    BY <2>1, TypesLive DEF ChangesOnly, AllExpired, StaleSpends, SpendOK, Rows
  <2>4. TopKnows(depth)
    BY <2>2 DEF TopKnows, FrameKnows, Gated, Handed, Restarting, Selecting, Bound
  <2>5. Told(None, depth)
    BY <2>2, TypesLive DEF Told, OutTold, InbTold, StaysReleased
  <2> QED BY <2>1, <2>2, <2>3, <2>4, <2>5, TablesStay, LifeKeeps
<1> QED BY <1>1, <1>2, <1>3, <1>4, <1>5, <1>6 DEF Requests

-------------------------------------------------------------------------------
(***************************************************************************)
(* Tasks.                                                                  *)
(***************************************************************************)
\* An activation that tells nobody ends.
LEMMA ReturnLives ==
  ASSUME LifeKnown, OneSpend, UNCHANGED <<spend, phase>>, depth > 0, Return,
         Top.pc \in {"park", "record", "announce"}, LinksGrow, NewWaits(depth - 1)
  PROVE  Living'
<1>1. KeptUnder(depth - 1) /\ TopKnows(depth - 1) /\ ChangesOnly(None, depth - 1)
  BY PopKeeps, TablesStay DEF TopKnows
<1>2. \A s : ~Decides(Top, s) /\ ~Resumes(Top, s)
  BY DEF Decides, Resumes, Approves, Telling
<1>3. Told(None, depth - 1)
  BY <1>2, TypesLive DEF Told, OutTold, InbTold, StaysReleased
<1> QED BY <1>1, <1>3, LifeKeeps

LEMMA HoldInboundLives ==
  ASSUME LifeKnown, OneSpend, NEW s \in Spends, NEW a \in Amounts, HoldInbound(s, a)
  PROVE  Living'
<1> DEFINE f == [Top EXCEPT !.pc = "announce"]
<1>0. /\ Top \in Frames /\ depth > 0 /\ depth \in 1..depth /\ Top.pc = "held-spend"
      /\ SpendOK /\ InbOK /\ spend[s].st = "none"
  BY TypesLive, TopLives DEF HoldInbound, At
<1>1. Top.t \in InTasks
  BY <1>0 DEF LifeKnown, SettleInv, Known, TaskInv, HoldInv, Top
<1>2. f.pc = "announce"
  BY <1>0 DEF Frames
<1>3. Become(f)
  BY DEF HoldInbound, Goto
<1> HIDE DEF f
<1>4. KeptUnder(depth - 1) /\ Top' = f
  BY <1>0, <1>3, SwapKeeps
<1>5. /\ UNCHANGED <<out, phase>> /\ spend'[s].st = "HELD"
      /\ \A x \in Spends : x # s => spend'[x] = spend[x]
      /\ inb'[Top.t] = [st |-> "input-required", s |-> s]
      /\ \A i \in InTasks : i # Top.t => inb'[i] = inb[i]
  BY <1>0, <1>1 DEF HoldInbound, SpendOK, InbOK
<1>6. ChangesOnly(s, depth - 1)
  <2>1. \A d \in 1..(depth - 1) : frame[d].pc \in Handed => frame[d].s # s
    BY <1>0, NotHanded, AllPark
  <2> QED BY <1>5, <2>1 DEF ChangesOnly
<1>7. LinksGrow
  BY <1>0, <1>5 DEF LinksGrow
<1>8. NewWaits(depth - 1)
  BY <1>1, <1>5 DEF NewWaits
<1>9. TopKnows(depth - 1)
  BY <1>2, <1>4 DEF TopKnows, FrameKnows, Gated, Handed, Restarting, Selecting, Bound
<1>10. Told(s, depth - 1)
  <2>1. \A x : ~Decides(Top, x) /\ ~Resumes(Top, x)
    BY <1>0 DEF Decides, Resumes, Approves, Telling
  <2>2. /\ \A o \in OutTasks : out[o].s # s
        /\ \A i \in InTasks : inb[i].s # s
    BY <1>0, LinkedExists
  <2> QED BY <1>0, <2>1, <2>2 DEF Told, OutTold, InbTold, StaysReleased
<1> QED BY <1>4, <1>5, <1>6, <1>7, <1>8, <1>9, <1>10, LifeKeeps

LEMMA ReleaseLives ==
  ASSUME LifeKnown, OneSpend, ReleaseHeldSpend
  PROVE  Living'
<1>0. /\ SpendOK /\ depth > 0 /\ Top.pc = "release"
      /\ Top.t \in InTasks /\ inb[Top.t] = [st |-> "canceled", s |-> Top.s]
  BY TypesLive, TopLives DEF ReleaseHeldSpend, At, FrameKnows
<1>1. UNCHANGED <<out, inb, phase>> /\ Return
  BY DEF ReleaseHeldSpend
<1>2. KeptUnder(depth - 1) /\ ~OnTop2(depth - 1) /\ TopKnows(depth - 1)
  BY <1>0, <1>1, PopKeeps DEF TopKnows
<1>3. \A x : ~Decides(Top, x) /\ ~Resumes(Top, x)
  BY <1>0 DEF Decides, Resumes, Approves, Telling
<1>4. CASE Top.s \in Spends /\ Decidable(Top.s)
  <2>1. SetSpend(Top.s, "REJECTED")
    BY <1>4 DEF ReleaseHeldSpend
  <2>2. \A d \in 1..(depth - 1) : frame[d].pc \in Handed => frame[d].s # Top.s
    BY <1>4, NotHanded, AllPark DEF Decidable
  <2>3. ChangesOnly(Top.s, depth - 1) /\ spend'[Top.s].st = "REJECTED"
    BY <1>0, <1>4, <2>1, <2>2 DEF SetSpend, SpendOK, ChangesOnly, Rows
  <2>4. \A o \in OutTasks : out[o].s # Top.s
    BY <1>0, <1>4, LinkedExists
  <2>5. \A i \in InTasks : inb[i].s = Top.s => inb[i].st = "canceled"
    BY <1>0, <1>4 DEF LifeKnown, Living, OneInbound
  <2>6. Told(Top.s, depth - 1)
    BY <1>3, <2>3, <2>4, <2>5, <1>1 DEF Told, OutTold, InbTold, StaysReleased
  <2> QED BY <1>1, <1>2, <2>3, <2>6, TablesStay, LifeKeeps
<1>5. CASE ~(Top.s \in Spends /\ Decidable(Top.s))
  <2>1. UNCHANGED spend
    BY <1>5 DEF ReleaseHeldSpend
  <2>2. StaysReleased(None, depth - 1)
    <3>1. ASSUME NEW i \in InTasks, inb[i].s = Top.s, Top.s \in Spends
          PROVE  spend'[inb[i].s].st \notin {"HELD", "NOTIFIED"}
      BY <3>1, <1>5, <2>1 DEF Decidable
    <3> QED BY <3>1, TypesLive DEF StaysReleased
  <2>3. Told(None, depth - 1)
    BY <1>3, <2>2, TypesLive DEF Told, OutTold, InbTold
  <2> QED BY <1>1, <1>2, <2>1, <2>3, TablesStay, LifeKeeps
<1> QED BY <1>4, <1>5

LEMMA TaskProgressLives ==
  ASSUME LifeKnown, OneSpend, TaskProgress
  PROVE  Living'
<1>1. CASE ParkTask
  <2>1. /\ OutOK /\ depth > 0 /\ Top.pc = "park" /\ Return
        /\ Top.s \in Spends /\ Top.t \in OutTasks /\ out[Top.t].s = Top.s
        /\ spend[Top.s].st \in {"HELD", "NOTIFIED"}
        /\ UNCHANGED <<spend, inb, phase>> /\ SetOut(Top.t, "awaiting-approval")
    BY <1>1, TypesLive, TopLives DEF ParkTask, At, FrameKnows
  <2>2. NewWaits(depth - 1)
    BY <2>1 DEF OutOK, SetOut, NewWaits
  <2> QED BY <2>1, <2>2, ReturnLives, TablesStay
<1>2. CASE RecordSettlement
  <2>1. /\ OutOK /\ depth > 0 /\ Top.pc = "record" /\ Return
        /\ UNCHANGED <<spend, inb, phase>>
        /\ SetOut(Top.t, IF Top.ok THEN "paid" ELSE "pay-failed")
    BY <1>2, TypesLive DEF RecordSettlement, At
  <2>2. NewWaits(depth - 1)
    BY <2>1 DEF OutOK, SetOut, NewWaits
  <2> QED BY <2>1, <2>2, ReturnLives, TablesStay
<1>3. ASSUME NEW s \in Spends, NEW a \in Amounts, HoldInbound(s, a)
      PROVE  Living'
  BY <1>3, HoldInboundLives
<1>4. CASE Announced
  <2>1. /\ depth > 0 /\ Top.pc = "announce" /\ Return
        /\ UNCHANGED <<spend, out, inb, phase>>
    BY <1>4 DEF Announced, At, db
  <2> QED BY <2>1, ReturnLives, TablesStay
<1>5. CASE ReleaseHeldSpend
  BY <1>5, ReleaseLives
<1> QED BY <1>1, <1>2, <1>3, <1>4, <1>5 DEF TaskProgress

LEMMA ClaimLives ==
  ASSUME LifeKnown, OneSpend, NEW o \in OutTasks, NEW s \in Spends, CompletedPayable(o, s)
  PROVE  Living'
<1>1. /\ Begin("settle", "gate", s, o, FALSE, {}) /\ Fresh(s)
      /\ spend' = Created(s, out[o].price) /\ UNCHANGED <<inb, phase>>
      /\ out' = [out EXCEPT ![o].st = "settling", ![o].s = s]
  BY DEF CompletedPayable
<1>2. /\ KeptUnder(depth) /\ OnTop2(depth)
      /\ Top'.op = "settle" /\ Top'.pc = "gate" /\ Top'.s = s /\ Top'.t = o
  BY <1>1, PushKeeps
<1>3. spend'[s].st = "CREATED"
  BY <1>1, TypesLive DEF Created, SpendOK
<1>4. /\ \A p \in OutTasks : out[p].s # s
      /\ \A i \in InTasks : inb[i].s # s
  BY <1>1, LinkedExists DEF Fresh
<1>5. /\ out'[o].s = s /\ out'[o].st = "settling"
      /\ \A p \in OutTasks : p # o => out'[p] = out[p]
  BY <1>1, TypesLive DEF OutOK
<1>6. FrameKnows(Top)'
  BY <1>1, <1>2, <1>3, <1>4, <1>5
  DEF FrameKnows, GateKnows, NotInbound, NotWaiting, Gated, Handed, Restarting, Selecting
<1>7. TopKnows(depth)
  BY <1>1, <1>2, <1>6, NotHanded DEF TopKnows, Fresh
<1>8. NewWaits(depth)
  BY <1>1, <1>5 DEF NewWaits
<1> QED BY <1>1, <1>2, <1>7, <1>8, CreatedLives

LEMMA InboundLives ==
  ASSUME LifeKnown, OneSpend, NEW i \in InTasks,
         AcceptWalletSend(i) \/ RefuseWalletSend(i) \/ PeerCancels(i)
  PROVE  Living'
<1>0. InbOK /\ UNCHANGED <<spend, out, phase>>
  BY TypesLive DEF AcceptWalletSend, RefuseWalletSend, PeerCancels
<1>1. ASSUME NEW st, SetInb(i, st)
      PROVE  /\ inb'[i] = [st |-> st, s |-> inb[i].s]
             /\ \A j \in InTasks : j # i => inb'[j] = inb[j]
             /\ LinksGrow
  <2>1. /\ inb'[i] = [st |-> st, s |-> inb[i].s]
        /\ \A j \in InTasks : j # i => inb'[j] = inb[j]
    BY <1>0, <1>1 DEF SetInb, InbOK
  <2> QED BY <2>1 DEF LinksGrow
<1>2. CASE AcceptWalletSend(i)
  <2>1. SetInb(i, "accepted") /\ Begin("inbound", "held-spend", None, i, FALSE, {})
    BY <1>2 DEF AcceptWalletSend
  <2>2. KeptUnder(depth) /\ Top'.pc = "held-spend"
    BY <2>1, PushKeeps
  <2>3. inb'[i] = [st |-> "accepted", s |-> inb[i].s]
    BY <1>1, <2>1
  <2>4. TopKnows(depth)
    BY <2>2 DEF TopKnows, FrameKnows, Gated, Handed, Restarting, Selecting, Bound
  <2>5. NewWaits(depth)
    BY <1>0, <1>1, <2>1, <2>3 DEF NewWaits
  <2> QED BY <1>0, <1>1, <2>1, <2>2, <2>4, <2>5, ServedLives
<1>3. CASE RefuseWalletSend(i)
  <2>1. SetInb(i, "failed") /\ Served /\ UNCHANGED stack
    BY <1>3 DEF RefuseWalletSend
  <2>2. KeptUnder(depth) /\ TopKnows(depth)
    BY <2>1, StayKeeps DEF TopKnows
  <2>3. inb'[i] = [st |-> "failed", s |-> inb[i].s]
    BY <1>1, <2>1
  <2>4. NewWaits(depth)
    BY <1>0, <1>1, <2>1, <2>3 DEF NewWaits
  <2> QED BY <1>0, <1>1, <2>1, <2>2, <2>4, ServedLives
<1>4. CASE PeerCancels(i)
  <2>1. SetInb(i, "canceled") /\ Begin("cancel", "release", inb[i].s, i, FALSE, {})
    BY <1>4 DEF PeerCancels
  <2>2. /\ KeptUnder(depth) /\ OnTop2(depth)
        /\ Top'.pc = "release" /\ Top'.s = inb[i].s /\ Top'.t = i
    BY <2>1, PushKeeps
  <2>3. inb'[i] = [st |-> "canceled", s |-> inb[i].s]
    BY <1>1, <2>1
  <2>4. TopKnows(depth)
    BY <2>2, <2>3 DEF TopKnows, FrameKnows, Gated, Handed, Restarting, Selecting, Bound
  <2>5. NewWaits(depth)
    BY <1>0, <1>1, <2>1, <2>2, <2>3 DEF NewWaits
  <2> QED BY <1>0, <1>1, <2>1, <2>2, <2>4, <2>5, ServedLives
<1> QED BY <1>2, <1>3, <1>4

LEMMA TaskRequestsLive ==
  ASSUME LifeKnown, OneSpend, TaskRequests
  PROVE  Living'
<1>1. ASSUME NEW o \in OutTasks, NEW price, SubmitTask(o, price)
      PROVE  Living'
  <2>1. /\ Served /\ UNCHANGED stack /\ UNCHANGED <<spend, inb, phase>>
        /\ out' = [out EXCEPT ![o] = [st |-> "submitted", price |-> price, s |-> None]]
    BY <1>1 DEF SubmitTask
  <2>2. NewWaits(depth)
    BY <2>1, TypesLive DEF NewWaits, OutOK
  <2> QED BY <2>1, <2>2, StayKeeps, ServedLives, TablesStay DEF TopKnows
<1>2. ASSUME NEW o \in OutTasks, NEW st, st # "awaiting-approval", SetOut(o, st),
             Served, UNCHANGED stack, UNCHANGED <<spend, inb, phase>>
      PROVE  Living'
  <2>1. NewWaits(depth)
    BY <1>2, TypesLive DEF NewWaits, OutOK, SetOut
  <2> QED BY <1>2, <2>1, StayKeeps, ServedLives, TablesStay DEF TopKnows
<1>3. ASSUME NEW o \in OutTasks,
             \/ CancelTask(o) \/ CompletedUnpaid(o)
             \/ \E verdict \in Verdicts : NegativeReply(o, verdict)
      PROVE  Living'
  <2>1. /\ Served /\ UNCHANGED stack /\ UNCHANGED <<spend, inb, phase>>
        /\ \E st \in Verdicts \cup {"accepted-nopay", "pay-failed"} : SetOut(o, st)
    BY <1>3 DEF CancelTask, CompletedUnpaid, NegativeReply, Verdicts
  <2>2. "awaiting-approval" \notin Verdicts \cup {"accepted-nopay", "pay-failed"}
    BY DEF Verdicts
  <2> QED BY <1>2, <2>1, <2>2
<1>4. ASSUME NEW o \in OutTasks, RetractHeld(o)
      PROVE  Living'
  <2>1. PICK s \in Spends : s = out[o].s /\ Reject(s)
    BY <1>4 DEF RetractHeld
  <2> QED BY <2>1, RejectLives
<1> QED BY <1>1, <1>3, <1>4, ClaimLives, InboundLives DEF TaskRequests

-------------------------------------------------------------------------------
(***************************************************************************)
(* The theorems.                                                           *)
(***************************************************************************)
LEMMA NoRecovery ==
  ASSUME LifeKnown
  PROVE  ~Recovery /\ ~Boot
<1>1. ~Boot
  BY TypesLive DEF Boot
<1>2. depth > 0 => Top.pc \notin Restarting \cup {"recover"}
  BY TopLives DEF FrameKnows
<1> QED
  BY <1>1, <1>2
  DEF Recovery, HealUnlinked, ReconcileSettling, MarkUnknown, UnknownAdvance, UnknownResume,
      SurfaceUnknown, LoadIdentity, RecoverPending, At, Restarting, Selecting

LEMMA LifeStep ==
  ASSUME SettleInv, LifeInv, AgentTypeOK, OneSpend, [AgentNext]_agentVars
  PROVE  LifeInv'
<1> SUFFICES ASSUME crashes' = 0
             PROVE  Living'
  BY DEF LifeInv
<1>1. crashes = 0 /\ ~Crash
  <2>1. crashes \in Nat
    BY DEF AgentTypeOK
  <2>2. Recovery => UNCHANGED crashes
    BY DEF Recovery, HealUnlinked, ReconcileSettling, MarkUnknown, UnknownAdvance,
           UnknownResume, SurfaceUnknown, LoadIdentity, RecoverPending, life
  <2>3. UNCHANGED crashes \/ crashes' = crashes + 1
    BY <2>2 DEF AgentNext, agentVars, life, Crash, Boot
  <2>4. crashes = 0
    BY <2>1, <2>3
  <2> QED BY <2>4 DEF Crash
<1>2. LifeKnown
  BY <1>1 DEF LifeKnown, LifeInv
<1>3. CASE Progress
  BY <1>2, <1>3, GateLives, HoldingLives, ExecuteLives, ResumeLives, AdvanceLives
  DEF Progress
<1>4. CASE Wallet
  BY <1>2, <1>4, WalletLives, MoneyLives DEF Wallet, WalletAnswers
<1>5. CASE UNCHANGED agentVars
  BY <1>2, <1>5, MoneyLives DEF agentVars
<1>6. CASE Tick
  <2>1. Served /\ UNCHANGED <<spend, out, inb, phase>> /\ UNCHANGED stack
    BY <1>6 DEF Tick, db
  <2> QED BY <1>2, <2>1, StayKeeps, ServedLives, TablesStay DEF TopKnows
<1> QED
  BY <1>1, <1>2, <1>3, <1>4, <1>5, <1>6, NoRecovery, RequestsLive, TaskProgressLives,
     TaskRequestsLive
  DEF AgentNext, TaskNext, SpendingNext

\* Only an owner's approval grants on the owner's behalf.
LEMMA OnlyApprovals ==
  ASSUME AgentNext, ~UNCHANGED ownerGrants
  PROVE  \E s \in Spends : Approve(s)
<1> USE DEF hist
<1>1. ~Progress /\ ~Wallet /\ ~Tick
  BY DEF Progress, GateExecute, GateHold, HoldNotified, ExecuteApproved, ResumeTask, AdvanceTask,
         Wallet, WalletMoves, TransferConfirmed, TransferRefused, TransferLost, LateMove,
         LateFailure, Tick
<1>2. ~TaskProgress
  BY DEF TaskProgress, ParkTask, RecordSettlement, HoldInbound, Announced, ReleaseHeldSpend
<1>3. ~TaskRequests
  BY DEF TaskRequests, SubmitTask, CancelTask, CompletedUnpaid, CompletedPayable, NegativeReply,
         RetractHeld, Reject, AcceptWalletSend, RefuseWalletSend, PeerCancels
<1>4. ~Recovery /\ ~Crash /\ ~Boot
  BY DEF Recovery, HealUnlinked, ReconcileSettling, MarkUnknown, UnknownAdvance,
         UnknownResume, SurfaceUnknown, LoadIdentity, RecoverPending, Crash, Boot
<1>5. Requests
  BY <1>1, <1>2, <1>3, <1>4 DEF AgentNext, TaskNext, SpendingNext
<1> QED
  BY <1>5 DEF Requests, WalletSend, ProgramCallHeld, ApproveTooLate, Reject, ExpireStale

LEMMA LifeInvariant == Spec => [](SettleInv /\ LifeInv)
<1>1. AgentInit => LifeInv
  BY DEF AgentInit, Init, LifeInv, Living, StackKnows, Apart, OneInbound, OutWaits, InbWaits,
         Released
<1>2. TaskInv /\ TypeOK' /\ [AgentNext]_agentVars => OneSpend
  BY TaskStep
<1>3. SettleInv => TaskInv
  BY DEF SettleInv, Known
<1>4. AgentTypeOK => TypeOK
  BY DEF AgentTypeOK
<1>5. SettleInv /\ LifeInv /\ AgentTypeOK /\ OneSpend /\ [AgentNext]_agentVars => LifeInv'
  BY LifeStep
<1> QED BY <1>1, <1>2, <1>3, <1>4, <1>5, SettleInvariant, TypeCorrect, PTL DEF Spec

\* Until a process dies: whatever is served in the middle of notifications, transfers and
\* settlements, a task that waits for the owner when no call runs has a request that can
\* be decided, or that an approval came too late for (holdForApproval, settleOutboundReply,
\* resumeInboundTask).
THEOREM WaitingStaysOpen == Spec => [](crashes = 0 => WaitingTaskHasOpenSpend)
<1>1. LifeInv => (crashes = 0 => WaitingTaskHasOpenSpend)
  <2> SUFFICES ASSUME Living, Quiescent
               PROVE  /\ \A o \in OutTasks : out[o].st = "awaiting-approval" =>
                           spend[out[o].s].st \in {"HELD", "NOTIFIED", "EXPIRED"}
                      /\ \A i \in InTasks : inb[i].st = "input-required" =>
                           spend[inb[i].s].st \in {"HELD", "EXPIRED"}
    BY DEF LifeInv, WaitingTaskHasOpenSpend
  <2>1. 1..depth = {}
    BY DEF Quiescent
  <2> QED BY <2>1 DEF Living, OutWaits, InbWaits, Open, Awaited
<1> QED BY <1>1, LifeInvariant, PTL

\* While no process dies, an approval of a request whose task the peer withdrew is never
\* accepted: the activation that withdraws it lets nothing be served before it has
\* released the request (tasks/cancel, releaseHeldSpend, L3).
THEOREM WithdrawnStaysClosed == MaxCrashes = 0 => (Spec => WithdrawnNeverGranted)
<1> SUFFICES ASSUME MaxCrashes = 0
             PROVE  Spec => WithdrawnNeverGranted
  OBVIOUS
<1>1. SettleInv /\ LifeInv /\ AgentTypeOK /\ [AgentNext]_agentVars =>
        [\A i \in InTasks : inb[i].st = "canceled" /\ inb[i].s \in Spends =>
           ownerGrants'[inb[i].s] = ownerGrants[inb[i].s]]_vars
  <2> SUFFICES ASSUME SettleInv, LifeInv, AgentTypeOK, AgentNext, NEW i \in InTasks,
                      inb[i].st = "canceled", inb[i].s \in Spends,
                      ownerGrants'[inb[i].s] # ownerGrants[inb[i].s]
               PROVE  FALSE
    BY DEF agentVars
  <2>1. LifeKnown
    BY DEF AgentTypeOK, LifeInv, LifeKnown
  <2>2. PICK s \in Spends : Approve(s)
    BY OnlyApprovals
  <2>3. s = inb[i].s
    BY <2>1, <2>2 DEF Approve, AgentTypeOK, TypeOK, HistOK
  <2>4. depth > 0 /\ Top.pc = "release"
    BY <2>1, <2>2, <2>3 DEF LifeKnown, Living, Released, Approve, At
  <2>5. Top.pc \in Parking
    BY <2>1, <2>2, <2>4, ServedParks DEF Approve, Begin
  <2> QED BY <2>4, <2>5 DEF Parking
<1> QED BY <1>1, LifeInvariant, TypeCorrect, PTL DEF Spec, WithdrawnNeverGranted
===============================================================================
