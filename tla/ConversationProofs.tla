-------------------------- MODULE ConversationProofs --------------------------
(***************************************************************************)
(* More theorems about Conversation, for every value of its constants: the *)
(* owner's queue and its drain, whose messages get into it, and what the   *)
(* conversation with the language model holds.                             *)
(***************************************************************************)
EXTENDS ServiceProofs

USE LoopAssumption, ServerAssumption, ConversationAssumption

-------------------------------------------------------------------------------
(***************************************************************************)
(* The drain.  At most one activation answers the owner; it is the one     *)
(* thing ownerDraining_ stands for, besides the armed timer.               *)
(***************************************************************************)
Drains(d) == d \in DOMAIN stack /\ stack[d].by = "owner"

\* What an activation does, and for whom.
Fits(f) ==
  IF f.by = "owner"
    THEN /\ f.pc \in {"next", "thinking", "answering"}
         /\ f.pc # "next" => f.arg \in Message
    ELSE /\ f.pc \notin {"next", "answering"}
         /\ f.pc = "thinking" => f.arg = ByClient

DrainTypes ==
  /\ timer \in BOOLEAN /\ draining \in BOOLEAN
  /\ queue \in Seq(Message) /\ order \in Seq(Message)
  /\ \A d \in DOMAIN stack : Fits(stack[d])

DrainInv ==
  /\ \A d, e : Drains(d) /\ Drains(e) => d = e
  /\ timer => ~\E d : Drains(d)
  /\ draining => timer \/ \E d : Drains(d)
  /\ timer \/ (\E d : Drains(d)) => draining
  /\ queue # <<>> => draining

\* What is left to answer: the message being answered, and the queue.
OrderInv ==
  /\ (~\E d : Drains(d)) => order = queue
  /\ \A d : Drains(d) => order = IF stack[d].pc = "next" THEN queue
                                 ELSE <<stack[d].arg>> \o queue

OwnerInv == DrainTypes /\ DrainInv /\ OrderInv

\* Where the stack differs from the one before, nothing of the owner comes or goes.
LEMMA StackKept ==
  ASSUME OwnerInv, UNCHANGED <<timer, draining, queue, order>>,
         \A d \in DOMAIN stack' : Fits(stack'[d]),
         \A d : Drains(d)' <=> Drains(d),
         \A d : Drains(d) => stack'[d] = stack[d]
  PROVE  OwnerInv'
<1>1. DrainTypes'
  BY DEF OwnerInv, DrainTypes
<1>2. DrainInv'
  <2>1. (\E d : Drains(d)') <=> (\E d : Drains(d))
    OBVIOUS
  <2>2. \A d, e : Drains(d)' /\ Drains(e)' => d = e
    BY DEF OwnerInv, DrainInv
  <2> QED BY <2>1, <2>2, Zenon DEF OwnerInv, DrainInv
<1>3. OrderInv'
  BY DEF OwnerInv, OrderInv
<1> QED BY <1>1, <1>2, <1>3 DEF OwnerInv

LEMMA PushOther ==
  ASSUME StackInv, OwnerInv, NEW f \in Activations, f.by # "owner", Fits(f), Push(f),
         UNCHANGED <<timer, draining, queue, order>>
  PROVE  OwnerInv'
<1> DEFINE top == Len(stack) + 1
<1>1. /\ stack \in Seq(Activations) /\ Len(stack) \in Nat
      /\ stack' \in Seq(Activations) /\ Len(stack') = top /\ stack'[top] = f
      /\ \A d \in 1..Len(stack) : stack'[d] = stack[d]
  BY DEF Push, StackInv
<1>2. \A d \in DOMAIN stack' : d = top \/ (d \in DOMAIN stack /\ stack'[d] = stack[d])
  BY <1>1
<1>3. \A d \in DOMAIN stack : d \in DOMAIN stack' /\ d # top /\ stack'[d] = stack[d]
  BY SMTT(40), <1>1
<1>4. top \in DOMAIN stack' /\ stack'[top] = f
  BY <1>1
<1> HIDE DEF top
<1>5. \A d \in DOMAIN stack' : Fits(stack'[d])
  BY <1>2, <1>4 DEF OwnerInv, DrainTypes
<1>6. \A d : Drains(d)' <=> Drains(d)
  BY <1>2, <1>3, <1>4 DEF Drains
<1>7. \A d : Drains(d) => stack'[d] = stack[d]
  BY <1>3 DEF Drains
<1> QED BY <1>5, <1>6, <1>7, StackKept

LEMMA BecomeOther ==
  ASSUME StackInv, OwnerInv, stack # <<>>, NEW f \in Activations, Top.by # "owner",
         f.by # "owner", Fits(f), Become(f), UNCHANGED <<timer, draining, queue, order>>
  PROVE  OwnerInv'
<1> DEFINE top == Len(stack)
<1>1. /\ stack \in Seq(Activations) /\ top \in DOMAIN stack
      /\ DOMAIN stack' = DOMAIN stack /\ stack'[top] = f
      /\ \A d \in DOMAIN stack : d # top => stack'[d] = stack[d]
      /\ stack[top].by # "owner"
  BY DEF Become, StackInv, Top
<1> HIDE DEF top
<1>5. \A d \in DOMAIN stack' : Fits(stack'[d])
  BY <1>1 DEF OwnerInv, DrainTypes
<1>6. \A d : Drains(d)' <=> Drains(d)
  BY <1>1 DEF Drains
<1>7. \A d : Drains(d) => stack'[d] = stack[d]
  BY <1>1 DEF Drains
<1> QED BY <1>5, <1>6, <1>7, StackKept

LEMMA PopOther ==
  ASSUME StackInv, OwnerInv, stack # <<>>, Top.by # "owner", Pop,
         UNCHANGED <<timer, draining, queue, order>>
  PROVE  OwnerInv'
<1> DEFINE top == Len(stack)
<1>1. /\ stack \in Seq(Activations) /\ top \in Nat \ {0} /\ top \in DOMAIN stack
      /\ stack' \in Seq(Activations) /\ DOMAIN stack' = 1..(top - 1)
      /\ \A d \in 1..(top - 1) : stack'[d] = stack[d]
      /\ stack[top].by # "owner"
  BY DEF Pop, StackInv, Top
<1>2. \A d \in DOMAIN stack' : d \in DOMAIN stack /\ stack'[d] = stack[d]
  BY SMTT(40), <1>1
<1>3. \A d \in DOMAIN stack : d # top => d \in DOMAIN stack'
  BY <1>1
<1> HIDE DEF top
<1>5. \A d \in DOMAIN stack' : Fits(stack'[d])
  BY <1>2 DEF OwnerInv, DrainTypes
<1>6. \A d : Drains(d)' <=> Drains(d)
  BY <1>1, <1>2, <1>3 DEF Drains
<1>7. \A d : Drains(d) => stack'[d] = stack[d]
  BY <1>2, <1>6 DEF Drains
<1> QED BY <1>5, <1>6, <1>7, StackKept

LEMMA StackAlone ==
  ASSUME OwnerInv, UNCHANGED <<stack, timer, draining, queue, order>>
  PROVE  OwnerInv'
BY StackKept DEF OwnerInv, DrainTypes, Drains

\* A message is taken in: the drain that runs takes it, or one is armed.
LEMMA EnqueueOwner ==
  ASSUME OwnerInv, NEW m \in Message, Enqueue(m), UNCHANGED stack
  PROVE  OwnerInv'
<1>1. /\ queue' = Append(queue, m) /\ order' = Append(order, m)
      /\ queue \in Seq(Message) /\ order \in Seq(Message)
      /\ draining' = TRUE /\ timer \in BOOLEAN /\ draining \in BOOLEAN
  BY DEF Enqueue, OwnerInv, DrainTypes
<1>2. timer' = (timer \/ ~draining)
  BY DEF Enqueue
<1>3. timer' <=> (timer \/ ~draining)
  BY <1>2, Zenon
<1>4. timer' \in BOOLEAN
  BY <1>2
<1>5. DrainTypes'
  BY <1>1, <1>4 DEF OwnerInv, DrainTypes
<1>6. \A d : Drains(d)' <=> Drains(d)
  BY DEF Drains
<1>7. DrainInv'
  <2>1. draining'
    BY <1>1
  <2>2. \A d, e : Drains(d)' /\ Drains(e)' => d = e
    BY <1>6 DEF OwnerInv, DrainInv
  <2>3. (\E d : Drains(d)') <=> (\E d : Drains(d))
    BY <1>6
  <2>4. timer' => ~\E d : Drains(d)'
    BY <1>3, <2>3 DEF OwnerInv, DrainInv
  <2>5. timer' \/ \E d : Drains(d)'
    BY <1>3, <2>3 DEF OwnerInv, DrainInv
  <2> QED BY <2>1, <2>2, <2>4, <2>5, Zenon DEF DrainInv
<1>8. OrderInv'
  <2>1. ASSUME order = queue
        PROVE  order' = queue'
    BY <1>1, <2>1
  <2>2. ASSUME NEW d, Drains(d), stack[d].pc # "next"
        PROVE  order' = <<stack[d].arg>> \o queue'
    <3>1. stack[d].arg \in Message /\ order = <<stack[d].arg>> \o queue
      BY <2>2 DEF OwnerInv, DrainTypes, OrderInv, Drains, Fits
    <3> QED BY SMTT(40), <1>1, <3>1
  <2> QED BY <1>6, <2>1, <2>2 DEF OwnerInv, OrderInv
<1> QED BY <1>5, <1>7, <1>8 DEF OwnerInv

\* The timer fires: the one drain begins.
LEMMA FiresOwner ==
  ASSUME StackInv, OwnerInv, DrainFires
  PROVE  OwnerInv'
<1> DEFINE top == Len(stack) + 1
           f == Frame("next", None, "owner")
<1>1. /\ timer /\ timer' = FALSE /\ Push(f) /\ UNCHANGED <<draining, queue, order>>
  BY DEF DrainFires
<1>2. /\ stack \in Seq(Activations) /\ Len(stack) \in Nat
      /\ f.by = "owner" /\ f.pc = "next" /\ Fits(f)
      /\ stack' = Append(stack, f)
  BY <1>1 DEF Push, StackInv, Frame, Fits
<1>3. /\ \A d \in DOMAIN stack' : d = top \/ (d \in DOMAIN stack /\ stack'[d] = stack[d])
      /\ top \in DOMAIN stack' /\ stack'[top] = f
  BY <1>2
<1> HIDE DEF top, f
<1>4. \A d : ~Drains(d)
  BY <1>1 DEF OwnerInv, DrainInv
<1>5. \A d : Drains(d)' <=> d = top
  BY <1>2, <1>3, <1>4 DEF Drains
<1>6. order = queue /\ draining
  BY <1>1, <1>4 DEF OwnerInv, OrderInv, DrainInv
<1>7. DrainTypes'
  BY <1>1, <1>2, <1>3 DEF OwnerInv, DrainTypes
<1>8. DrainInv'
  <2>1. draining' /\ ~timer'
    BY <1>1, <1>6
  <2> QED BY <1>5, <2>1 DEF DrainInv
<1>9. OrderInv'
  BY <1>1, <1>2, <1>3, <1>5, <1>6 DEF OrderInv
<1> QED BY <1>7, <1>8, <1>9 DEF OwnerInv

\* The innermost activation is the drain: it is the only one.
LEMMA TopDrains ==
  ASSUME StackInv, OwnerInv, stack # <<>>, Top.by = "owner"
  PROVE  /\ Len(stack) \in DOMAIN stack /\ Top = stack[Len(stack)]
         /\ \A d : Drains(d) <=> d = Len(stack)
         /\ draining /\ ~timer
         /\ order = IF Top.pc = "next" THEN queue ELSE <<Top.arg>> \o queue
         /\ Fits(Top)
<1>1. Len(stack) \in DOMAIN stack /\ Top = stack[Len(stack)]
  BY DEF StackInv, Top
<1>2. Drains(Len(stack))
  BY <1>1 DEF Drains
<1>3. \A d : Drains(d) <=> d = Len(stack)
  BY <1>2 DEF OwnerInv, DrainInv
<1>4. draining /\ ~timer
  BY <1>2, Zenon DEF OwnerInv, DrainInv
<1> QED BY <1>1, <1>2, <1>3, <1>4 DEF OwnerInv, OrderInv, DrainTypes

\* At these places only the drain stands.
LEMMA OnlyDrains ==
  ASSUME StackInv, OwnerInv, At("next") \/ At("answering")
  PROVE  stack # <<>> /\ Top.by = "owner"
<1>1. stack # <<>> /\ Top.pc \in {"next", "answering"}
  BY DEF At
<1>2. Len(stack) \in DOMAIN stack
  BY <1>1 DEF StackInv
<1>3. Fits(Top)
  BY <1>2 DEF OwnerInv, DrainTypes, Top
<1> QED BY <1>1, <1>3 DEF Fits

\* The drain goes on: with a message, with the answer, with the next message.
LEMMA BecomeOwner ==
  ASSUME StackInv, OwnerInv, stack # <<>>, Top.by = "owner",
         NEW f \in Activations, f.by = "owner", Fits(f), Become(f),
         UNCHANGED <<timer, draining>>, queue' \in Seq(Message), order' \in Seq(Message),
         order' = IF f.pc = "next" THEN queue' ELSE <<f.arg>> \o queue'
  PROVE  OwnerInv'
<1> DEFINE top == Len(stack)
<1>1. /\ stack \in Seq(Activations) /\ top \in DOMAIN stack
      /\ DOMAIN stack' = DOMAIN stack /\ stack'[top] = f
      /\ \A d \in DOMAIN stack : d # top => stack'[d] = stack[d]
  BY DEF Become, StackInv
<1>2. (\A d : Drains(d) <=> d = top) /\ draining /\ ~timer
  BY TopDrains
<1> HIDE DEF top
<1>3. \A d : Drains(d)' <=> d = top
  BY <1>1, <1>2 DEF Drains
<1>4. DrainTypes'
  BY <1>1 DEF OwnerInv, DrainTypes
<1>5. DrainInv'
  <2>1. draining' /\ ~timer'
    BY <1>2
  <2> QED BY <1>3, <2>1 DEF DrainInv
<1>6. OrderInv'
  BY <1>1, <1>3 DEF OrderInv
<1> QED BY <1>4, <1>5, <1>6 DEF OwnerInv

LEMMA TakeNextOwner ==
  ASSUME StackInv, OwnerInv, NEW pc \in {"thinking", "answering"}, TakeNext(pc)
  PROVE  OwnerInv'
<1> DEFINE f == Frame(pc, Head(queue), "owner")
<1>1. /\ At("next") /\ queue # <<>> /\ queue' = Tail(queue) /\ Become(f)
      /\ UNCHANGED <<timer, draining, order>>
  BY DEF TakeNext
<1>2. stack # <<>> /\ Top.by = "owner" /\ Top.pc = "next"
  BY <1>1, OnlyDrains DEF At
<1>3. queue \in Seq(Message) /\ order \in Seq(Message)
  BY DEF OwnerInv, DrainTypes
<1>4. Head(queue) \in Message /\ Tail(queue) \in Seq(Message)
      /\ queue = <<Head(queue)>> \o Tail(queue)
  BY <1>1, <1>3
<1>5. order = queue
  BY <1>2, TopDrains
<1>6. f \in Activations /\ f.by = "owner" /\ f.pc # "next" /\ f.arg = Head(queue) /\ Fits(f)
  BY <1>4 DEF Frame, Activations, Fits
<1>7. order' = IF f.pc = "next" THEN queue' ELSE <<f.arg>> \o queue'
  BY <1>1, <1>4, <1>5, <1>6
<1> HIDE DEF f
<1> QED BY <1>1, <1>2, <1>3, <1>4, <1>6, <1>7, BecomeOwner

LEMMA AnsweredOwner ==
  ASSUME StackInv, OwnerInv, Answered
  PROVE  OwnerInv' /\ order = <<Top.arg>> \o queue /\ Top.arg \in Message /\ order' = queue
<1> DEFINE f == Frame("next", None, "owner")
<1>1. /\ At("answering") /\ Become(f) /\ order' = Tail(order)
      /\ UNCHANGED <<timer, draining, queue>>
  BY DEF Answered
<1>2. stack # <<>> /\ Top.by = "owner" /\ Top.pc = "answering"
  BY <1>1, OnlyDrains DEF At
<1>3. queue \in Seq(Message)
  BY DEF OwnerInv, DrainTypes
<1>4. order = <<Top.arg>> \o queue /\ Top.arg \in Message
  BY <1>2, TopDrains DEF Fits
<1>5. order' = queue
  BY SMTT(40), <1>1, <1>3, <1>4
<1>6. f \in Activations /\ f.by = "owner" /\ f.pc = "next" /\ Fits(f)
  BY DEF Frame, Activations, Fits
<1> HIDE DEF f
<1>7. OwnerInv'
  BY <1>1, <1>2, <1>3, <1>5, <1>6, BecomeOwner
<1> QED BY <1>4, <1>5, <1>7

LEMMA EndsOwner ==
  ASSUME StackInv, OwnerInv, DrainEnds
  PROVE  OwnerInv'
<1> DEFINE top == Len(stack)
<1>1. /\ At("next") /\ queue = <<>> /\ draining' = FALSE /\ Pop
      /\ UNCHANGED <<timer, queue, order>>
  BY DEF DrainEnds
<1>2. stack # <<>> /\ Top.by = "owner" /\ Top.pc = "next"
  BY <1>1, OnlyDrains DEF At
<1>3. (\A d : Drains(d) <=> d = top) /\ ~timer /\ order = queue
  BY <1>2, TopDrains
<1>4. /\ stack \in Seq(Activations) /\ top \in Nat \ {0}
      /\ stack' \in Seq(Activations) /\ DOMAIN stack' = 1..(top - 1)
      /\ \A d \in 1..(top - 1) : stack'[d] = stack[d]
  BY <1>1, <1>2 DEF Pop, StackInv
<1>5. \A d \in DOMAIN stack' : d \in DOMAIN stack /\ d # top /\ stack'[d] = stack[d]
  BY SMTT(40), <1>4
<1> HIDE DEF top
<1>6. \A d : ~Drains(d)'
  BY <1>3, <1>5 DEF Drains
<1>7. DrainTypes'
  BY <1>1, <1>5 DEF OwnerInv, DrainTypes
<1>8. DrainInv'
  <2>1. ~draining' /\ ~timer' /\ queue' = <<>>
    BY <1>1, <1>3
  <2> QED BY <1>6, <2>1 DEF DrainInv
<1>9. OrderInv'
  BY <1>1, <1>3, <1>6 DEF OrderInv
<1> QED BY <1>7, <1>8, <1>9 DEF OwnerInv

LEMMA TurnEndsOwner ==
  ASSUME StackInv, OwnerInv, NEW ok \in BOOLEAN, TurnEnds(ok)
  PROVE  OwnerInv'
<1> DEFINE f == [Top EXCEPT !.pc = "answering"]
<1>1. /\ At("thinking") /\ UNCHANGED <<timer, draining, queue, order>>
      /\ IF Top.by = "owner" THEN Become(f) ELSE Pop
  BY DEF TurnEnds
<1>2. stack # <<>> /\ Top.pc = "thinking" /\ Top \in Activations
  BY <1>1 DEF At, StackInv, Top
<1>3. CASE Top.by # "owner"
  BY <1>1, <1>2, <1>3, PopOther
<1>4. CASE Top.by = "owner"
  <2>1. Top.arg \in Message /\ order = <<Top.arg>> \o queue
    BY <1>2, <1>4, TopDrains DEF Fits
  <2>2. f \in Activations /\ f.by = "owner" /\ f.pc = "answering" /\ f.arg = Top.arg
    BY <1>2, <1>4 DEF Activations
  <2>3. Fits(f)
    BY <2>1, <2>2 DEF Fits
  <2>4. queue \in Seq(Message) /\ order \in Seq(Message) /\ Become(f)
    BY <1>1, <1>4 DEF OwnerInv, DrainTypes
  <2> HIDE DEF f
  <2> QED BY <1>1, <1>2, <1>4, <2>1, <2>2, <2>3, <2>4, BecomeOwner
<1> QED BY <1>3, <1>4

LEMMA CrashOwner ==
  ASSUME Crash
  PROVE  OwnerInv'
<1>1. /\ queue' = <<>> /\ order' = <<>> /\ draining' = FALSE /\ timer' = FALSE
      /\ stack' = <<>>
  BY DEF Crash, Dies
<1>2. \A d : ~Drains(d)'
  BY <1>1 DEF Drains
<1>3. DrainTypes'
  <2>1. timer' \in BOOLEAN /\ draining' \in BOOLEAN
    BY <1>1
  <2>2. queue' \in Seq(Message) /\ order' \in Seq(Message) /\ DOMAIN stack' = {}
    BY <1>1
  <2> QED BY <2>1, <2>2 DEF DrainTypes
<1>5. OrderInv'
  BY <1>1, <1>2 DEF OrderInv
<1>4. DrainInv'
  <2>1. ~draining' /\ ~timer' /\ queue' = <<>>
    BY <1>1
  <2> QED BY <1>2, <2>1 DEF DrainInv
<1> QED BY <1>3, <1>4, <1>5 DEF OwnerInv

\* Peers' tasks, the client's calls, the clock and the restart.
LEMMA PeersOwner ==
  ASSUME StackInv, OwnerInv, ServerInv, ServerNext, UNCHANGED ownerVars
  PROVE  OwnerInv'
<1>1. UNCHANGED <<timer, draining, queue, order>>
  BY DEF ownerVars
<1>2. ASSUME NEW t \in Tasks, NEW s \in Senders, NEW key \in PeerKeys, NEW skill \in Skills,
             Send(t, s, key, skill)
      PROVE  OwnerInv'
  <2> DEFINE f == Frame("accepted", t, "peer")
  <2>1. f \in Activations /\ f.by # "owner" /\ Fits(f) /\ Push(f)
    BY <1>2 DEF Send, Frame, Activations, Fits
  <2> QED BY <1>1, <2>1, PushOther
<1>3. CASE PeerRequest
  <2>1. ASSUME NEW t \in Tasks, NEW s \in Senders, NEW key \in PeerKeys,
               AnswerAgain(t, s, key) \/ Cancel(t, s, key)
        PROVE  UNCHANGED stack
    BY <2>1 DEF AnswerAgain, Cancel
  <2> QED BY <1>1, <1>2, <1>3, <2>1, StackAlone DEF PeerRequest
<1>4. CASE ClientAsks
  <2> DEFINE f == Frame("asking", None, "client")
  <2>1. f \in Activations /\ f.by # "owner" /\ Fits(f) /\ Push(f)
    BY <1>4 DEF ClientAsks, Frame, Activations, Fits
  <2> QED BY <1>1, <2>1, PushOther
<1>5. ASSUME At("accepted") \/ At("asking")
      PROVE  stack # <<>> /\ Top.by # "owner"
  <2>1. stack # <<>> /\ Top.pc \notin {"next", "thinking", "answering"}
    BY <1>5 DEF At
  <2>2. Fits(Top)
    BY <2>1 DEF OwnerInv, DrainTypes, Top, StackInv
  <2> QED BY <2>1, <2>2 DEF Fits
<1>6. CASE Handler
  <2>1. At("accepted") /\ (Pop \/ \E t \in Tasks : Become(Frame("asking", t, "peer")))
    BY <1>6 DEF Handler, TooMany, AnswerPing, RefuseAsk, Unsupported, ParkForOwner, AskStarts,
       AskRefused, Dispatched, EndsAtOnce, Admitted
  <2>2. CASE Pop
    BY <1>1, <1>5, <2>1, <2>2, PopOther
  <2>3. ASSUME NEW t \in Tasks, Become(Frame("asking", t, "peer"))
        PROVE  OwnerInv'
    <3> DEFINE f == Frame("asking", t, "peer")
    <3>1. f \in Activations /\ f.by # "owner" /\ Fits(f)
      BY DEF Frame, Activations, Fits
    <3> QED BY <1>1, <1>5, <2>1, <2>3, <3>1, BecomeOther
  <2> QED BY <2>1, <2>2, <2>3
<1>7. CASE LlmReturns
  <2>1. At("asking") /\ Pop
    BY <1>7 DEF LlmReturns, AskReturns, ClientAnswered
  <2> QED BY <1>1, <1>5, <2>1, PopOther
<1>8. CASE Tick
  BY <1>1, <1>8, StackAlone DEF Tick
<1> QED BY <1>3, <1>4, <1>6, <1>7, <1>8 DEF ServerNext

LEMMA OwnerSteps ==
  ASSUME StackInv, OwnerInv, ServerInv, [ServiceNext]_serviceVars
  PROVE  OwnerInv'
<1>1. CASE ServerNext /\ UNCHANGED ownerVars
  BY <1>1, PeersOwner
<1>2. CASE OwnerRequest
  <2>1. ASSUME NEW m \in Message, SignedArrives(m)
        PROVE  OwnerInv'
    <3>1. UNCHANGED stack /\ (Enqueue(m) \/ UNCHANGED <<timer, draining, queue, order>>)
      BY <2>1 DEF SignedArrives
    <3> QED BY <3>1, EnqueueOwner, StackAlone
  <2>2. ASSUME NEW m \in Message, PlainArrives(m)
        PROVE  OwnerInv'
    BY <2>2, EnqueueOwner DEF PlainArrives
  <2>3. CASE BindOwner
    BY <2>3, StackAlone DEF BindOwner
  <2>4. CASE ClientChats
    <3> DEFINE f == Frame("thinking", ByClient, "client")
    <3>1. f \in Activations /\ f.by # "owner" /\ Fits(f) /\ Push(f)
      BY <2>4 DEF ClientChats, Frame, Activations, Fits
    <3>2. UNCHANGED <<timer, draining, queue, order>>
      BY <2>4 DEF ClientChats, ownerVars
    <3> QED BY <3>1, <3>2, PushOther
  <2> QED BY <1>2, <2>1, <2>2, <2>3, <2>4 DEF OwnerRequest
<1>3. CASE Drain
  BY <1>3, FiresOwner, TakeNextOwner, AnsweredOwner, EndsOwner DEF Drain
<1>4. ASSUME NEW ok \in BOOLEAN, TurnEnds(ok)
      PROVE  OwnerInv'
  BY <1>4, TurnEndsOwner
<1>5. CASE Crash
  BY <1>5, CrashOwner
<1>6. CASE Boot
  BY <1>6, StackAlone DEF Boot, Restart, ownerVars
<1>7. CASE UNCHANGED serviceVars
  BY <1>7, StackAlone DEF serviceVars, serverVars, ownerVars
<1> QED BY <1>1, <1>2, <1>3, <1>4, <1>5, <1>6, <1>7 DEF ServiceNext

-------------------------------------------------------------------------------
(***************************************************************************)
(* The conversation.  What is queued or being thought about is not in it   *)
(* yet, and everything signed is bounded by the last nonce.                *)
(***************************************************************************)
Entry     == [role : {"user", "assistant"}, of : Message \cup {ByClient}]
Signed(m) == m.key # None
Seen(m)   == Signed(m) => m.nonce <= lastNonce

\* What the drain has in hand, and has not put into the conversation.
Thought(m) == \E d : Drains(d) /\ stack[d].pc = "thinking" /\ stack[d].arg = m

Said(m) == \E j \in DOMAIN chat : chat[j].of = m

ChatInv ==
  /\ chat \in Seq(Entry)
  /\ \A i \in DOMAIN order : Seen(order[i])
  /\ \A j \in DOMAIN chat : Seen(chat[j].of)
  /\ \A i, j \in DOMAIN order : i < j /\ Signed(order[i]) => order[i] # order[j]
  /\ \A i \in DOMAIN queue : Signed(queue[i]) => ~Said(queue[i])
  /\ \A m : Thought(m) /\ Signed(m) => ~Said(m)
  /\ PairsTogether

ConversationInv == OwnerInv /\ ChatInv

LEMMA ByClientUnsigned == ~Signed(ByClient)
BY DEF Signed, ByClient

\* Nothing is taken in, said or begun.
LEMMA ChatKept ==
  ASSUME ChatInv, UNCHANGED <<chat, lastNonce, queue, order>>,
         \A m : Thought(m)' => Thought(m)
  PROVE  ChatInv'
BY DEF ChatInv, Seen, Said, PairsTogether

LEMMA JoinTypes ==
  ASSUME NEW S, NEW s \in Seq(S), NEW t \in Seq(S)
  PROVE  s \o t \in Seq(S) /\ Len(s \o t) = Len(s) + Len(t)
OBVIOUS

LEMMA JoinFront ==
  ASSUME NEW S, NEW s \in Seq(S), NEW t \in Seq(S), NEW i \in DOMAIN s
  PROVE  i \in DOMAIN (s \o t) /\ (s \o t)[i] = s[i]
OBVIOUS

LEMMA TwoJoined ==
  ASSUME NEW u, NEW a
  PROVE  <<u>> \o <<a>> = <<u, a>>
<1> DEFINE s == <<u>> \o <<a>>
           t == <<u, a>>
           S == {u, a}
<1>1. s \in Seq(S) /\ Len(s) = 2 /\ s[1] = u /\ s[2] = a
  OBVIOUS
<1>2. t \in Seq(S) /\ Len(t) = 2 /\ t[1] = u /\ t[2] = a
  OBVIOUS
<1>3. s = t
  <2> HIDE DEF s, t
  <2> QED BY <1>1, <1>2
<1> QED BY Zenon, <1>3 DEF s, t

LEMMA JoinTwo ==
  ASSUME NEW S, NEW s \in Seq(S), NEW u \in S, NEW a \in S
  PROVE  (s \o <<u, a>>)[Len(s) + 1] = u /\ (s \o <<u, a>>)[Len(s) + 2] = a
BY SMTT(40)

LEMMA InFront ==
  ASSUME NEW S, NEW m \in S, NEW s \in Seq(S), NEW i \in DOMAIN s
  PROVE  /\ 1 \in DOMAIN (<<m>> \o s) /\ (<<m>> \o s)[1] = m /\ 1 < i + 1
         /\ i + 1 \in DOMAIN (<<m>> \o s) /\ (<<m>> \o s)[i + 1] = s[i]
OBVIOUS

\* The conversation with a turn added.
LEMMA TurnAdded ==
  ASSUME NEW ok \in BOOLEAN, NEW m \in Message \cup {ByClient}, chat \in Seq(Entry)
  PROVE  LET all == chat \o Turn(m, ok)
         IN /\ all \in Seq(Entry) /\ Len(all) \in {Len(chat) + 1, Len(chat) + 2}
            /\ \A i \in DOMAIN chat : i \in DOMAIN all /\ all[i] = chat[i]
            /\ all[Len(chat) + 1] = [role |-> "user", of |-> m]
            /\ Len(all) = Len(chat) + 2
                 => all[Len(chat) + 2] = [role |-> "assistant", of |-> m]
<1> DEFINE u == [role |-> "user", of |-> m]
           a == [role |-> "assistant", of |-> m]
<1>1. u \in Entry /\ a \in Entry
  BY DEF Entry
<1> HIDE DEF u, a
<1>2. CASE ok
  <2>1. Turn(m, ok) = <<u, a>>
    BY <1>2, TwoJoined DEF Turn, u, a
  <2> DEFINE t == <<u, a>>
  <2>2. t \in Seq(Entry) /\ Len(t) = 2
    BY <1>1
  <2>3. (chat \o t)[Len(chat) + 1] = u /\ (chat \o t)[Len(chat) + 2] = a
    BY SMTT(40), <1>1, JoinTwo
  <2> HIDE DEF t
  <2>4. chat \o t \in Seq(Entry) /\ Len(chat \o t) = Len(chat) + Len(t)
    BY Zenon, <2>2, JoinTypes
  <2>5. ASSUME NEW i \in DOMAIN chat
        PROVE  i \in DOMAIN (chat \o t) /\ (chat \o t)[i] = chat[i]
    BY SMTT(40), <2>2, <2>5, JoinFront
  <2> QED BY SMTT(40), <2>1, <2>2, <2>3, <2>4, <2>5 DEF u, a, t
<1>3. CASE ~ok
  <2>1. Turn(m, ok) = <<u>>
    BY <1>3 DEF Turn, u, a
  <2> QED BY <1>1, <2>1 DEF u, a
<1> QED BY <1>2, <1>3

\* Trimming takes entries off the front.
LEMMA Trimmed ==
  ASSUME NEW all \in Seq(Entry), Len(all) <= HistoryCap + 2
  PROVE  /\ Trim(all) \in Seq(Entry) /\ Len(Trim(all)) <= HistoryCap
         /\ \E k \in {0, 2} : \A i \in DOMAIN Trim(all) : i + k \in DOMAIN all
                                                        /\ Trim(all)[i] = all[i + k]
<1>0. HistoryCap \in Nat \ {0} /\ Len(all) \in Nat
  BY ConversationAssumption
<1>1. CASE Len(all) <= HistoryCap
  BY <1>1 DEF Trim
<1>2. CASE ~(Len(all) <= HistoryCap)
  <2>1. Trim(all) = SubSeq(all, 3, Len(all))
    BY <1>2 DEF Trim
  <2>2. CASE Len(all) < 3
    <3>1. SubSeq(all, 3, Len(all)) = <<>>
      BY <1>0, <2>2
    <3> QED BY SMTT(40), <1>0, <2>1, <3>1
  <2>3. CASE Len(all) >= 3
    <3>1. /\ SubSeq(all, 3, Len(all)) \in Seq(Entry)
          /\ Len(SubSeq(all, 3, Len(all))) = Len(all) - 2
          /\ \A i \in 1..(Len(all) - 2) : SubSeq(all, 3, Len(all))[i] = all[i + 2]
      BY <1>0, <2>3
    <3> QED BY SMTT(40), <1>0, <2>1, <3>1
  <2> QED BY <1>0, <2>2, <2>3
<1> QED BY <1>1, <1>2

LEMMA TurnChat ==
  ASSUME StackInv, OwnerInv, ChatInv, Len(chat) <= HistoryCap, NEW ok \in BOOLEAN, TurnEnds(ok)
  PROVE  ChatInv' /\ Len(chat') <= HistoryCap
<1> DEFINE m == Top.arg
           all == chat \o Turn(m, ok)
           n == Len(chat)
<1>1. /\ At("thinking") /\ UNCHANGED <<queue, order, lastNonce>> /\ chat' = Trim(all)
      /\ IF Top.by = "owner" THEN Become([Top EXCEPT !.pc = "answering"]) ELSE Pop
  BY DEF TurnEnds
<1>2. /\ stack # <<>> /\ Top.pc = "thinking" /\ stack \in Seq(Activations)
      /\ Len(stack) \in DOMAIN stack /\ Top = stack[Len(stack)] /\ Fits(Top)
  BY SMTT(40), <1>1 DEF At, StackInv, OwnerInv, DrainTypes, Top
<1>3. m \in Message \cup {ByClient} /\ (Top.by # "owner" => m = ByClient)
  BY <1>2 DEF Fits
<1>4. chat \in Seq(Entry) /\ n \in Nat
  BY DEF ChatInv
<1>5. /\ all \in Seq(Entry) /\ Len(all) \in {n + 1, n + 2}
      /\ \A i \in DOMAIN chat : i \in DOMAIN all /\ all[i] = chat[i]
      /\ all[n + 1] = [role |-> "user", of |-> m]
      /\ Len(all) = n + 2 => all[n + 2] = [role |-> "assistant", of |-> m]
  BY SMTT(40), <1>3, <1>4, TurnAdded
<1> HIDE DEF all
<1>6. Len(all) <= HistoryCap + 2
  BY <1>4, <1>5, ConversationAssumption
<1>7. /\ chat' \in Seq(Entry) /\ Len(chat') <= HistoryCap
      /\ \E k \in {0, 2} : \A i \in DOMAIN chat' : i + k \in DOMAIN all
                                                   /\ chat'[i] = all[i + k]
  <2>1. /\ Trim(all) \in Seq(Entry) /\ Len(Trim(all)) <= HistoryCap
        /\ \E k \in {0, 2} : \A i \in DOMAIN Trim(all) : i + k \in DOMAIN all
                                                       /\ Trim(all)[i] = all[i + k]
    <3>1. all \in Seq(Entry)
      BY <1>5
    <3> QED BY Zenon, <1>6, <3>1, Trimmed
  <2>2. chat' = Trim(all)
    BY <1>1
  <2> QED BY Zenon, <2>1, <2>2
<1>8. PICK k \in {0, 2} : \A i \in DOMAIN chat' : i + k \in DOMAIN all /\ chat'[i] = all[i + k]
  BY <1>7
\* An entry is an old one or one of the turn.
<1>9. \A i \in DOMAIN all : \/ i \in DOMAIN chat /\ all[i] = chat[i]
                            \/ i = n + 1 /\ all[i] = [role |-> "user", of |-> m]
                            \/ /\ i = n + 2 /\ Len(all) = n + 2
                               /\ all[i] = [role |-> "assistant", of |-> m]
  BY SMTT(40), <1>4, <1>5
<1>10. Top.by = "owner" => order = <<m>> \o queue /\ m \in Message /\ m = order[1]
                           /\ Thought(m)
  <2>1. CASE Top.by = "owner"
    <3>1. order = <<m>> \o queue /\ m \in Message
      BY <1>2, <2>1, TopDrains DEF Fits
    <3>2. order[1] = m
      BY <3>1 DEF OwnerInv, DrainTypes
    <3>3. Thought(m)
      BY <1>2, <2>1 DEF Thought, Drains
    <3> QED BY <3>1, <3>2, <3>3
  <2> QED BY <2>1
<1>11. Signed(m) => Top.by = "owner" /\ ~Said(m)
  BY <1>3, <1>10, ByClientUnsigned DEF ChatInv
<1> HIDE DEF m, n
<1>12. Seen(m)
  <2>1. CASE Signed(m)
    <3>1. m = order[1] /\ 1 \in DOMAIN order
      BY <1>3, <1>10, <1>11, <2>1 DEF OwnerInv, DrainTypes
    <3> QED BY <3>1 DEF ChatInv
  <2> QED BY <2>1 DEF Seen
<1>13. \A i \in DOMAIN all : Seen(all[i].of)
  BY <1>9, <1>12 DEF ChatInv
<1>14. \A i \in DOMAIN all, j \in DOMAIN all : Signed(all[i].of) /\ all[i] = all[j] => i = j
  <2> SUFFICES ASSUME NEW i \in DOMAIN all, NEW j \in DOMAIN all,
                      Signed(all[i].of), all[i] = all[j]
               PROVE  i = j
    OBVIOUS
  <2>1. CASE i \in DOMAIN chat /\ all[i] = chat[i] /\ j \in DOMAIN chat /\ all[j] = chat[j]
    <3>1. chat[i].of.key # None /\ chat[j] = chat[i]
      BY <2>1 DEF Signed
    <3> QED BY <2>1, <3>1 DEF ChatInv, PairsTogether
  <2>2. CASE i \in DOMAIN chat /\ all[i] = chat[i] /\ all[j].of = m
    BY <1>11, <2>2 DEF Said
  <2>3. CASE j \in DOMAIN chat /\ all[j] = chat[j] /\ all[i].of = m
    BY <1>11, <2>3 DEF Said
  <2>4. CASE i \in {n + 1, n + 2} /\ j \in {n + 1, n + 2}
    <3>1. i = n + 1 => all[i].role = "user"
      BY <1>5
    <3>2. j = n + 1 => all[j].role = "user"
      BY <1>5
    <3>3. i = n + 2 => all[i].role = "assistant"
      BY <1>4, <1>9 DEF n
    <3>4. j = n + 2 => all[j].role = "assistant"
      BY <1>4, <1>9 DEF n
    <3> QED BY <2>4, <3>1, <3>2, <3>3, <3>4
  <2> QED BY <1>9, <2>1, <2>2, <2>3, <2>4
<1>15. \A i \in DOMAIN all : all[i].role = "assistant" /\ i > 1 =>
         all[i - 1] = [role |-> "user", of |-> all[i].of]
  <2> SUFFICES ASSUME NEW i \in DOMAIN all, all[i].role = "assistant", i > 1
               PROVE  all[i - 1] = [role |-> "user", of |-> all[i].of]
    OBVIOUS
  <2>1. CASE i \in DOMAIN chat /\ all[i] = chat[i]
    <3>1. chat[i - 1] = [role |-> "user", of |-> chat[i].of]
      BY <2>1 DEF ChatInv, PairsTogether
    <3>2. i - 1 \in DOMAIN chat
      BY <1>4, <2>1
    <3> QED BY <1>5, <2>1, <3>1, <3>2
  <2>2. CASE i = n + 2 /\ all[i] = [role |-> "assistant", of |-> m]
    <3>1. i - 1 = n + 1
      BY <1>4, <2>2 DEF n
    <3> QED BY <1>5, <2>2, <3>1
  <2> QED BY <1>9, <2>1, <2>2
<1>16. PairsTogether'
  <2>1. ASSUME NEW i \in DOMAIN chat', chat'[i].role = "assistant", i > 1
        PROVE  chat'[i - 1] = [role |-> "user", of |-> chat'[i].of]
    <3>1. i \in Nat /\ i - 1 \in DOMAIN chat' /\ (i - 1) + k = (i + k) - 1 /\ i + k > 1
      BY SMTT(40), <1>7, <2>1
    <3>2. /\ i + k \in DOMAIN all /\ chat'[i] = all[i + k]
          /\ (i - 1) + k \in DOMAIN all /\ chat'[i - 1] = all[(i - 1) + k]
      BY <1>8, <2>1, <3>1
    <3>3. all[i + k].role = "assistant"
      BY <2>1, <3>2
    <3>4. all[(i + k) - 1] = [role |-> "user", of |-> all[i + k].of]
      BY <1>15, <3>1, <3>2, <3>3
    <3> QED BY <3>1, <3>2, <3>4
  <2>2. ASSUME NEW i \in DOMAIN chat', NEW j \in DOMAIN chat', chat'[i].of.key # None,
               chat'[j] = chat'[i]
        PROVE  j = i
    <3>1. i + k = j + k
      BY <1>8, <1>14, <2>2 DEF Signed
    <3>2. i \in Nat /\ j \in Nat
      BY SMTT(40), <1>7
    <3> QED BY <3>1, <3>2
  <2> QED BY <2>1, <2>2 DEF PairsTogether
<1>17. \A x : Said(x)' => Said(x) \/ x = m
  <2> SUFFICES ASSUME NEW x, Said(x)'
               PROVE  Said(x) \/ x = m
    OBVIOUS
  <2>1. PICK j \in DOMAIN chat' : chat'[j].of = x
    BY DEF Said
  <2>2. j + k \in DOMAIN all /\ all[j + k].of = x
    BY <1>8, <2>1
  <2> QED BY <1>9, <2>2 DEF Said
<1>18. \A i \in DOMAIN queue : Signed(queue[i]) => ~Said(queue[i])'
  <2> SUFFICES ASSUME NEW i \in DOMAIN queue, Signed(queue[i]), Said(queue[i])'
               PROVE  FALSE
    OBVIOUS
  <2>1. ~Said(queue[i])
    BY DEF ChatInv
  <2>2. queue[i] = m /\ Signed(m)
    <3>1. Said(queue[i]) \/ queue[i] = m
      BY <1>1, <1>17 DEF Said
    <3> QED BY <2>1, <3>1
  <2>3. order = <<m>> \o queue /\ queue \in Seq(Message) /\ m \in Message
    BY <1>10, <1>11, <2>2 DEF OwnerInv, DrainTypes
  <2>4. /\ 1 \in DOMAIN order /\ order[1] = m
        /\ i + 1 \in DOMAIN order /\ order[i + 1] = queue[i] /\ 1 < i + 1
    BY SMTT(40), <2>3, InFront
  <2> QED BY <2>2, <2>4 DEF ChatInv
<1>19. \A x : Thought(x)' => Thought(x) /\ (Top.by # "owner" \/ ~Signed(x))
  <2>1. CASE Top.by = "owner"
    <3> DEFINE f == [Top EXCEPT !.pc = "answering"]
    <3>1. \A d : Drains(d) <=> d = Len(stack)
      BY <1>2, <2>1, TopDrains
    <3>2. /\ DOMAIN stack' = DOMAIN stack /\ stack'[Len(stack)] = f
          /\ \A d \in DOMAIN stack : d # Len(stack) => stack'[d] = stack[d]
      BY <1>1, <1>2, <2>1 DEF Become
    <3>3. f.pc = "answering"
      BY <1>2 DEF Activations
    <3> HIDE DEF f
    <3>4. \A d : Drains(d)' => d = Len(stack)
      BY <3>1, <3>2 DEF Drains
    <3> QED BY <3>2, <3>3, <3>4 DEF Thought
  <2>2. CASE Top.by # "owner"
    <3>1. /\ DOMAIN stack' = 1..(Len(stack) - 1) /\ Len(stack) \in Nat
          /\ \A d \in 1..(Len(stack) - 1) : stack'[d] = stack[d]
      BY SMTT(40), <1>1, <1>2, <2>2 DEF Pop
    <3>2. \A d \in DOMAIN stack' : d \in DOMAIN stack /\ stack'[d] = stack[d]
      BY SMTT(40), <1>2, <3>1
    <3> QED BY <2>2, <3>2 DEF Thought, Drains
  <2> QED BY <2>1, <2>2
<1>20. \A x : Thought(x)' /\ Signed(x) => ~Said(x)'
  <2> SUFFICES ASSUME NEW x, Thought(x)', Signed(x), Said(x)'
               PROVE  FALSE
    OBVIOUS
  <2>1. Thought(x) /\ Top.by # "owner"
    BY <1>19
  <2>2. ~Said(x)
    BY <2>1 DEF ChatInv
  <2>3. x = m /\ m = ByClient
    BY <1>3, <1>17, <2>1, <2>2
  <2> QED BY <2>3, ByClientUnsigned
<1>21. \A j \in DOMAIN chat' : Seen(chat'[j].of)
  BY <1>8, <1>13
<1> QED BY <1>1, <1>7, <1>16, <1>18, <1>20, <1>21 DEF ChatInv, Seen

\* A message is taken in: one that is signed is newer than all there are.
LEMMA EnqueueChat ==
  ASSUME OwnerInv, ChatInv, NEW m \in Message, Enqueue(m), UNCHANGED <<stack, chat>>,
         lastNonce \in 0..MaxNonce, lastNonce' \in 0..MaxNonce, lastNonce <= lastNonce',
         Signed(m) => m.nonce > lastNonce /\ m.nonce <= lastNonce'
  PROVE  ChatInv'
<1>1. /\ queue \in Seq(Message) /\ order \in Seq(Message)
      /\ queue' = Append(queue, m) /\ order' = Append(order, m)
  BY DEF Enqueue, OwnerInv, DrainTypes
<1>2. \A x \in Message \cup {ByClient} : x.nonce \in Int
  BY DEF Message, ByClient
<1>3. /\ chat \in Seq(Entry)
      /\ \A j \in DOMAIN chat : chat[j].of \in Message \cup {ByClient} /\ Seen(chat[j].of)
  <2>1. chat \in Seq(Entry) /\ \A j \in DOMAIN chat : Seen(chat[j].of)
    BY DEF ChatInv
  <2>2. \A j \in DOMAIN chat : chat[j] \in Entry
    BY <2>1
  <2>3. \A x \in Entry : x.of \in Message \cup {ByClient}
    BY DEF Entry
  <2> QED BY <2>1, <2>2, <2>3
<1>4. /\ \A i \in DOMAIN order' : \/ i \in DOMAIN order /\ order'[i] = order[i]
                                  \/ i = Len(order) + 1 /\ order'[i] = m
      /\ \A i \in DOMAIN queue' : \/ i \in DOMAIN queue /\ queue'[i] = queue[i]
                                  \/ i = Len(queue) + 1 /\ queue'[i] = m
  BY SMTT(40), <1>1
<1>15. \A i \in DOMAIN order : order[i] \in Message /\ Seen(order[i])
  BY <1>1 DEF ChatInv
<1>5. \A x \in Message \cup {ByClient} : Seen(x) => Seen(x)'
  <2> SUFFICES ASSUME NEW x \in Message \cup {ByClient}, Seen(x), Signed(x)
               PROVE  x.nonce <= lastNonce'
    BY DEF Seen, Signed
  <2>1. x.nonce \in Int /\ x.nonce <= lastNonce
    BY <1>2 DEF Seen
  <2> QED BY <2>1
<1>7. \A i \in DOMAIN order' : Signed(order'[i]) => order'[i].nonce <= lastNonce'
  BY <1>4, <1>5, <1>15 DEF Seen
<1>8. \A j \in DOMAIN chat : Signed(chat[j].of) => chat[j].of.nonce <= lastNonce'
  BY <1>3, <1>5 DEF Seen
\* What is there is not m, when m is signed.
<1>9. Signed(m) => /\ \A i \in DOMAIN order : order[i] # m
                   /\ ~Said(m)
  <2> SUFFICES ASSUME Signed(m)
               PROVE  /\ \A i \in DOMAIN order : order[i] # m
                      /\ ~Said(m)
    OBVIOUS
  <2>1. ~Seen(m)
    <3>1. m.nonce \in Int /\ m.nonce > lastNonce /\ lastNonce \in Int
      BY <1>2
    <3> QED BY <3>1 DEF Seen
  <2> QED BY <1>3, <1>15, <2>1 DEF Said
<1>10. \A i, j \in DOMAIN order' : i < j /\ Signed(order'[i]) => order'[i] # order'[j]
  <2> SUFFICES ASSUME NEW i \in DOMAIN order', NEW j \in DOMAIN order', i < j,
                      Signed(order'[i]), order'[i] = order'[j]
               PROVE  FALSE
    OBVIOUS
  <2>1. CASE j \in DOMAIN order
    <3>1. i \in DOMAIN order /\ order'[i] = order[i] /\ order'[j] = order[j]
      BY SMTT(40), <1>1, <2>1
    <3> QED BY <2>1, <3>1 DEF ChatInv
  <2>2. CASE j = Len(order) + 1
    <3>1. i \in DOMAIN order /\ order'[i] = order[i] /\ order'[j] = m
      BY <1>1, <2>2
    <3> QED BY <1>9, <3>1
  <2> QED BY <1>4, <2>1, <2>2
<1>11. \A x : Said(x)' <=> Said(x)
  BY DEF Said
<1>12. \A i \in DOMAIN queue' : Signed(queue'[i]) => ~\E j \in DOMAIN chat : chat[j].of = queue'[i]
  <2> SUFFICES ASSUME NEW i \in DOMAIN queue', Signed(queue'[i])
               PROVE  ~Said(queue'[i])
    BY DEF Said
  <2>1. CASE i \in DOMAIN queue /\ queue'[i] = queue[i]
    BY <2>1 DEF ChatInv
  <2>2. CASE queue'[i] = m
    BY <1>9, <2>2
  <2> QED BY <1>4, <2>1, <2>2
<1>13. \A x : (Thought(x)' => Thought(x)) /\ (Thought(x) /\ Signed(x) => ~Said(x))
  BY DEF Thought, Drains, ChatInv
<1>14. PairsTogether'
  BY DEF ChatInv, PairsTogether
<1> QED BY <1>3, <1>7, <1>8, <1>10, <1>11, <1>12, <1>13, <1>14 DEF ChatInv, Seen, Said

LEMMA TakeNextChat ==
  ASSUME StackInv, OwnerInv, ChatInv, NEW pc \in {"thinking", "answering"}, TakeNext(pc)
  PROVE  ChatInv'
<1> DEFINE f == Frame(pc, Head(queue), "owner")
<1>1. /\ At("next") /\ queue # <<>> /\ queue' = Tail(queue) /\ Become(f)
      /\ UNCHANGED <<order, chat, lastNonce>>
  BY DEF TakeNext
<1>2. stack # <<>> /\ Top.by = "owner"
  BY <1>1, OnlyDrains
<1>3. queue \in Seq(Message)
  BY DEF OwnerInv, DrainTypes
<1>4. /\ 1 \in DOMAIN queue /\ Head(queue) = queue[1]
      /\ \A i \in DOMAIN queue' : i + 1 \in DOMAIN queue /\ queue'[i] = queue[i + 1]
  BY <1>1, <1>3
<1>5. f.arg = queue[1]
  BY <1>4 DEF Frame
<1> HIDE DEF f
<1>6. /\ DOMAIN stack' = DOMAIN stack /\ Len(stack) \in DOMAIN stack
      /\ stack'[Len(stack)] = f
      /\ \A d \in DOMAIN stack : d # Len(stack) => stack'[d] = stack[d]
  BY <1>1, <1>2 DEF Become, StackInv
<1>7. \A d : Drains(d) <=> d = Len(stack)
  BY <1>2, TopDrains
<1>8. \A x : Thought(x)' => x = queue[1]
  BY <1>5, <1>6, <1>7 DEF Thought, Drains
<1>9. \A x : Said(x)' <=> Said(x)
  BY <1>1 DEF Said
<1>10. Signed(queue[1]) => ~Said(queue[1])
  BY <1>4 DEF ChatInv
<1>11. \A i \in DOMAIN queue' : Signed(queue'[i]) => ~\E j \in DOMAIN chat : chat[j].of = queue'[i]
  BY <1>4 DEF ChatInv, Said
<1>12. /\ chat' \in Seq(Entry) /\ PairsTogether'
       /\ \A i \in DOMAIN order' : Seen(order[i])'
       /\ \A j \in DOMAIN chat' : Seen(chat[j].of)'
       /\ \A i, j \in DOMAIN order' : i < j /\ Signed(order'[i]) => order'[i] # order'[j]
  BY <1>1 DEF ChatInv, PairsTogether, Seen
<1>13. \A x : Thought(x)' /\ Signed(x) => ~Said(x)'
  BY <1>8, <1>9, <1>10
<1>14. \A i \in DOMAIN queue' : Signed(queue'[i]) => ~Said(queue[i])'
  BY <1>1, <1>11 DEF Said
<1> QED BY <1>12, <1>13, <1>14 DEF ChatInv

LEMMA AnsweredChat ==
  ASSUME StackInv, OwnerInv, ChatInv, Answered
  PROVE  ChatInv'
<1> DEFINE f == Frame("next", None, "owner")
<1>1. /\ order = <<Top.arg>> \o queue /\ Top.arg \in Message /\ order' = queue
      /\ queue \in Seq(Message) /\ order \in Seq(Message)
  BY AnsweredOwner DEF OwnerInv, DrainTypes
<1>2. At("answering") /\ Become(f) /\ UNCHANGED <<queue, chat, lastNonce>> /\ f.pc = "next"
  BY DEF Answered, Frame
<1> HIDE DEF f
<1>3. \A i \in DOMAIN order' : i \in Int /\ i + 1 \in DOMAIN order /\ order'[i] = order[i + 1]
  BY SMTT(40), <1>1
<1>4. \A i \in DOMAIN order' : Seen(order[i])'
  BY <1>2, <1>3 DEF ChatInv, Seen
<1>5. \A i, j \in DOMAIN order' : i < j /\ Signed(order'[i]) => order'[i] # order'[j]
  <2> SUFFICES ASSUME NEW i \in DOMAIN order', NEW j \in DOMAIN order', i < j,
                      Signed(order'[i])
               PROVE  order'[i] # order'[j]
    OBVIOUS
  <2>1. i + 1 \in DOMAIN order /\ j + 1 \in DOMAIN order /\ i + 1 < j + 1
    BY <1>3
  <2> QED BY <1>3, <2>1 DEF ChatInv
<1>6. stack # <<>>
  BY <1>2 DEF At
<1>7. /\ DOMAIN stack' = DOMAIN stack /\ Len(stack) \in DOMAIN stack
      /\ stack'[Len(stack)] = f
      /\ \A d \in DOMAIN stack : d # Len(stack) => stack'[d] = stack[d]
  BY <1>2, <1>6 DEF Become, StackInv
<1>8. \A x : Thought(x)' => Thought(x)
  BY <1>2, <1>7 DEF Thought, Drains
<1>9. \A x : Said(x)' <=> Said(x)
  BY <1>2 DEF Said
<1>10. \A i \in DOMAIN queue' : Signed(queue'[i]) => ~Said(queue[i])'
  BY <1>2 DEF ChatInv, Said
<1>11. \A x : Thought(x)' /\ Signed(x) => ~Said(x)'
  BY <1>8, <1>9 DEF ChatInv
<1>12. chat' \in Seq(Entry) /\ PairsTogether' /\ \A j \in DOMAIN chat' : Seen(chat[j].of)'
  BY <1>2 DEF ChatInv, PairsTogether, Seen
<1> QED BY <1>4, <1>5, <1>10, <1>11, <1>12 DEF ChatInv

LEMMA CrashChat ==
  ASSUME Crash
  PROVE  ChatInv' /\ chat' = <<>>
<1>1. queue' = <<>> /\ order' = <<>> /\ chat' = <<>> /\ stack' = <<>>
  BY DEF Crash, Dies
<1>2. DOMAIN queue' = {} /\ DOMAIN order' = {} /\ DOMAIN chat' = {} /\ DOMAIN stack' = {}
  BY <1>1
<1>3. \A x : ~Thought(x)'
  BY <1>2 DEF Thought, Drains
<1>4. chat' \in Seq(Entry)
  BY <1>1
<1> QED BY <1>1, <1>2, <1>3, <1>4 DEF ChatInv, PairsTogether

\* Nothing is begun for the owner when the stack changes like this.
LEMMA ThoughtFades ==
  ASSUME StackInv,
         \/ UNCHANGED stack
         \/ stack # <<>> /\ Pop
         \/ \E f \in Activations : /\ f.by # "owner" \/ f.pc # "thinking"
                                   /\ Push(f) \/ (stack # <<>> /\ Become(f))
  PROVE  \A m : Thought(m)' => Thought(m)
<1>1. CASE UNCHANGED stack
  BY <1>1 DEF Thought, Drains
<1>2. ASSUME stack # <<>>, Pop
      PROVE  \A m : Thought(m)' => Thought(m)
  <2>1. /\ stack \in Seq(Activations) /\ Len(stack) \in Nat \ {0}
        /\ DOMAIN stack' = 1..(Len(stack) - 1)
        /\ \A d \in 1..(Len(stack) - 1) : stack'[d] = stack[d]
    BY <1>2 DEF Pop, StackInv
  <2>2. \A d \in DOMAIN stack' : d \in DOMAIN stack /\ stack'[d] = stack[d]
    BY <2>1
  <2> QED BY <2>2 DEF Thought, Drains
<1>3. ASSUME NEW f \in Activations, f.by # "owner" \/ f.pc # "thinking", Push(f)
      PROVE  \A m : Thought(m)' => Thought(m)
  <2> DEFINE top == Len(stack) + 1
  <2>1. /\ \A d \in DOMAIN stack' : d = top \/ (d \in DOMAIN stack /\ stack'[d] = stack[d])
        /\ stack'[top] = f
    BY <1>3 DEF Push, StackInv
  <2> HIDE DEF top
  <2> QED BY <1>3, <2>1 DEF Thought, Drains
<1>4. ASSUME NEW f \in Activations, f.by # "owner" \/ f.pc # "thinking", stack # <<>>, Become(f)
      PROVE  \A m : Thought(m)' => Thought(m)
  <2>1. /\ DOMAIN stack' = DOMAIN stack /\ stack'[Len(stack)] = f
        /\ \A d \in DOMAIN stack : d # Len(stack) => stack'[d] = stack[d]
    BY <1>4 DEF Become, StackInv
  <2> QED BY <1>4, <2>1 DEF Thought, Drains
<1> QED BY <1>1, <1>2, <1>3, <1>4

\* The server side begins nothing for the owner.
LEMMA PeersBegin ==
  ASSUME StackInv, ServerNext
  PROVE  \A m : Thought(m)' => Thought(m)
<1>1. \A t \in Tasks : /\ Frame("accepted", t, "peer") \in Activations
                       /\ Frame("accepted", t, "peer").by # "owner"
                       /\ Frame("asking", t, "peer") \in Activations
                       /\ Frame("asking", t, "peer").by # "owner"
  BY DEF Frame, Activations
<1>2. /\ Frame("asking", None, "client") \in Activations
      /\ Frame("asking", None, "client").by # "owner"
  BY DEF Frame, Activations
<1>3. CASE PeerRequest
  <2>1. UNCHANGED stack \/ \E t \in Tasks : Push(Frame("accepted", t, "peer"))
    BY <1>3 DEF PeerRequest, Send, AnswerAgain, Cancel
  <2> QED BY <1>1, <2>1, ThoughtFades
<1>4. CASE ClientAsks
  <2>1. Push(Frame("asking", None, "client"))
    BY <1>4 DEF ClientAsks
  <2> QED BY <1>2, <2>1, ThoughtFades
<1>5. CASE Handler
  <2>1. stack # <<>> /\ (Pop \/ \E t \in Tasks : Become(Frame("asking", t, "peer")))
    BY <1>5 DEF Handler, TooMany, AnswerPing, RefuseAsk, Unsupported, ParkForOwner, AskStarts,
       AskRefused, Dispatched, EndsAtOnce, Admitted, At
  <2> QED BY <1>1, <2>1, ThoughtFades
<1>6. CASE LlmReturns
  <2>1. stack # <<>> /\ Pop
    BY <1>6 DEF LlmReturns, AskReturns, ClientAnswered, At
  <2> QED BY <2>1, ThoughtFades
<1>7. CASE Tick
  BY <1>7, ThoughtFades DEF Tick
<1> QED BY <1>3, <1>4, <1>5, <1>6, <1>7 DEF ServerNext

-------------------------------------------------------------------------------
(***************************************************************************)
(* The rest of the type invariant.                                         *)
(***************************************************************************)
ConfigInv ==
  /\ bound \in BOOLEAN /\ up \in BOOLEAN /\ events \in 0..MaxEvents
  /\ ownerPin \in OwnerKeys \cup {None} /\ lastNonce \in 0..MaxNonce
  /\ Len(chat) <= HistoryCap

LEMMA OutsideCounts ==
  ASSUME events \in 0..MaxEvents, Outside \/ UNCHANGED events
  PROVE  events' \in 0..MaxEvents
BY BoundsAreNat DEF Outside

LEMMA ChatSteps ==
  ASSUME StackInv, OwnerInv, ServerInv, ChatInv, ConfigInv, [ServiceNext]_serviceVars
  PROVE  ChatInv' /\ ConfigInv'
<1> USE DEF ConfigInv
<1>1. CASE ServerNext /\ UNCHANGED ownerVars
  <2>1. ChatInv'
    BY <1>1, PeersBegin, ChatKept DEF ownerVars
  <2>2. (Outside \/ UNCHANGED events) /\ UNCHANGED up
    BY <1>1 DEF ServerNext, PeerRequest, Send, AnswerAgain, Cancel, ClientAsks, Handler, TooMany,
       AnswerPing, RefuseAsk, Unsupported, ParkForOwner, AskStarts, AskRefused, Dispatched,
       EndsAtOnce, LlmReturns, AskReturns, ClientAnswered, Tick
  <2>3. events' \in 0..MaxEvents /\ up' \in BOOLEAN
    BY <2>2, OutsideCounts
  <2> QED BY <1>1, <2>1, <2>3 DEF ownerVars
<1>2. ASSUME NEW m \in Message, SignedArrives(m)
      PROVE  ChatInv' /\ ConfigInv'
  <2>1. /\ Outside /\ m.key \in OwnerKeys /\ UNCHANGED <<stack, up, bound, chat>>
        /\ ownerPin' = IF ownerPin = None THEN m.key ELSE ownerPin
        /\ \/ m.nonce > lastNonce /\ lastNonce' = m.nonce /\ Enqueue(m)
           \/ UNCHANGED <<lastNonce, queue, order>>
    BY <1>2 DEF SignedArrives, Fresh
  <2>2. m.nonce \in 0..MaxNonce
    BY ConversationAssumption DEF Message
  <2>3. MaxNonce \in Nat
    BY ConversationAssumption
  <2>4. ChatInv' /\ lastNonce' \in 0..MaxNonce
    <3>1. CASE m.nonce > lastNonce /\ lastNonce' = m.nonce /\ Enqueue(m)
      <4>1. lastNonce <= lastNonce' /\ m.nonce <= lastNonce'
        BY SMTT(40), <2>2, <2>3, <3>1
      <4> QED BY <2>1, <2>2, <3>1, <4>1, EnqueueChat
    <3>2. CASE UNCHANGED <<lastNonce, queue, order>>
      <4>1. \A x : Thought(x)' => Thought(x)
        BY <2>1, ThoughtFades
      <4> QED BY <2>1, <3>2, <4>1, ChatKept
    <3> QED BY <2>1, <3>1, <3>2
  <2>5. events' \in 0..MaxEvents /\ up' \in BOOLEAN /\ bound' \in BOOLEAN
    BY <2>1, OutsideCounts
  <2> QED BY <2>1, <2>4, <2>5
<1>3. ASSUME NEW m \in Message, PlainArrives(m)
      PROVE  ChatInv' /\ ConfigInv'
  <2>1. Outside /\ m.key = None /\ Enqueue(m)
        /\ UNCHANGED <<stack, up, bound, chat, ownerPin, lastNonce>>
    BY <1>3 DEF PlainArrives
  <2>2. ~Signed(m) /\ lastNonce <= lastNonce'
    BY <2>1, ConversationAssumption DEF Signed
  <2>3. ChatInv'
    BY <2>1, <2>2, EnqueueChat
  <2>4. events' \in 0..MaxEvents /\ up' \in BOOLEAN /\ bound' \in BOOLEAN
    BY <2>1, OutsideCounts
  <2> QED BY <2>1, <2>3, <2>4
<1>4. CASE BindOwner
  <2>1. /\ Outside /\ bound' = TRUE
        /\ UNCHANGED <<stack, up, chat, ownerPin, lastNonce, queue, order>>
    BY <1>4 DEF BindOwner
  <2>2. ChatInv'
    BY <2>1, ThoughtFades, ChatKept
  <2>3. events' \in 0..MaxEvents /\ up' \in BOOLEAN /\ bound' \in BOOLEAN
    BY <2>1, OutsideCounts
  <2> QED BY <2>1, <2>2, <2>3
<1>5. CASE ClientChats
  <2> DEFINE f == Frame("thinking", ByClient, "client")
  <2>1. Outside /\ Push(f) /\ UNCHANGED <<up, bound, chat, ownerPin, lastNonce, queue, order>>
    BY <1>5 DEF ClientChats, ownerVars
  <2>2. f \in Activations /\ f.by # "owner"
    BY DEF Frame, Activations
  <2>3. ChatInv'
    BY <2>1, <2>2, ThoughtFades, ChatKept
  <2>4. events' \in 0..MaxEvents /\ up' \in BOOLEAN /\ bound' \in BOOLEAN
    BY <2>1, OutsideCounts
  <2> QED BY <2>1, <2>3, <2>4
<1>6. CASE Drain
  <2>1. UNCHANGED <<up, events, bound, chat, ownerPin, lastNonce>>
    BY <1>6 DEF Drain, DrainFires, TakeNext, Answered, DrainEnds
  <2>2. CASE DrainFires
    <3> DEFINE f == Frame("next", None, "owner")
    <3>1. f \in Activations /\ f.pc # "thinking" /\ Push(f) /\ UNCHANGED <<queue, order>>
      BY <2>2 DEF DrainFires, Frame, Activations
    <3> QED BY <2>1, <3>1, ThoughtFades, ChatKept
  <2>3. CASE DrainEnds
    <3>1. stack # <<>> /\ Pop /\ UNCHANGED <<queue, order>>
      BY <2>3 DEF DrainEnds, At
    <3> QED BY <2>1, <3>1, ThoughtFades, ChatKept
  <2>4. CASE Answered \/ \E pc \in {"thinking", "answering"} : TakeNext(pc)
    BY <2>1, <2>4, AnsweredChat, TakeNextChat
  <2> QED BY <1>6, <2>2, <2>3, <2>4 DEF Drain
<1>7. ASSUME NEW ok \in BOOLEAN, TurnEnds(ok)
      PROVE  ChatInv' /\ ConfigInv'
  <2>1. UNCHANGED <<up, events, bound, ownerPin, lastNonce>>
    BY <1>7 DEF TurnEnds
  <2> QED BY <1>7, <2>1, TurnChat
<1>8. CASE Crash
  <2>1. Outside /\ up' = FALSE /\ UNCHANGED <<bound, ownerPin, lastNonce>>
    BY <1>8 DEF Crash, Dies
  <2>2. ChatInv' /\ Len(chat') <= HistoryCap
    BY <1>8, CrashChat, ConversationAssumption
  <2>3. events' \in 0..MaxEvents /\ up' \in BOOLEAN
    BY <2>1, OutsideCounts
  <2> QED BY <2>1, <2>2, <2>3
<1>9. CASE Boot
  <2>1. up' = TRUE /\ UNCHANGED <<stack, events, ownerVars>>
    BY <1>9 DEF Boot, Restart
  <2>2. ChatInv'
    BY <2>1, ThoughtFades, ChatKept DEF ownerVars
  <2> QED BY <2>1, <2>2 DEF ownerVars
<1>10. CASE UNCHANGED serviceVars
  <2>1. UNCHANGED <<stack, up, events, bound, ownerPin, lastNonce, queue, order, chat>>
    BY <1>10 DEF serviceVars, serverVars, ownerVars
  <2> QED BY <2>1, ThoughtFades, ChatKept
<1> QED BY <1>1, <1>2, <1>3, <1>4, <1>5, <1>6, <1>7, <1>8, <1>9, <1>10
        DEF ServiceNext, OwnerRequest

-------------------------------------------------------------------------------
(***************************************************************************)
(* The theorems.                                                           *)
(***************************************************************************)
\* The inductive invariant of the owner's side, on top of ServiceInv and ServerInv.
THEOREM ConversationInvariant == ServiceSpec => [](ConversationInv /\ ConfigInv)
<1>1. ServiceInit => ConversationInv /\ ConfigInv
  <2> SUFFICES ASSUME ServiceInit
               PROVE  ConversationInv /\ ConfigInv
    OBVIOUS
  <2>1. /\ stack = <<>> /\ queue = <<>> /\ order = <<>> /\ chat = <<>>
        /\ draining = FALSE /\ timer = FALSE /\ lastNonce = 0 /\ ownerPin = None
        /\ up = TRUE /\ events = 0 /\ bound \in BOOLEAN
    BY DEF ServiceInit, ServerInit
  <2>2. \A x : ~Drains(x)
    BY <2>1 DEF Drains
  <2>3. OwnerInv
    <3>1. timer \in BOOLEAN /\ draining \in BOOLEAN /\ ~timer /\ ~draining
      BY <2>1
    <3> QED BY <2>1, <2>2, <3>1 DEF OwnerInv, DrainTypes, DrainInv, OrderInv
  <2>4. ChatInv
    BY <2>1, <2>2 DEF ChatInv, PairsTogether, Thought
  <2>5. ConfigInv
    BY <2>1, BoundsAreNat, ConversationAssumption DEF ConfigInv
  <2> QED BY <2>3, <2>4, <2>5 DEF ConversationInv
<1>2. /\ ServiceInv /\ ServerInv /\ ConversationInv /\ ConfigInv
      /\ [ServiceNext]_serviceVars
      => (ConversationInv /\ ConfigInv)'
  BY OwnerSteps, ChatSteps DEF ServiceInv, ConversationInv
<1> QED BY <1>1, <1>2, ServiceInvariant, ServerInvariant, PTL DEF ServiceSpec

\* Type correctness of the service: above all that the history stays within its cap and
\* the completions within the depth of the loop (processOwnerMessage, agentAsk).
THEOREM ConversationTyped == ServiceSpec => []ConversationTypeOK
<1>1. ASSUME StackInv, LoopInv
      PROVE  llm \in 0..MaxDepth
  <2>8. stack \in Seq(Activations)
    BY <1>1 DEF StackInv
  <2>9. DOMAIN stack = 1..Len(stack) /\ Len(stack) \in Nat
    BY <2>8
  <2>1. Completing \subseteq 1..Len(stack) /\ Len(stack) \in Nat
    BY <2>9 DEF Completing
  <2>2. IsFiniteSet(1..Len(stack)) /\ Cardinality(1..Len(stack)) = Len(stack)
    <3> DEFINE n == Len(stack)
    <3>1. n \in Int /\ 1 \in Int /\ n >= 0
      BY <2>1
    <3> HIDE DEF n
    <3>2. /\ IsFiniteSet(1..n)
          /\ Cardinality(1..n) = IF 1 > n THEN 0 ELSE n - 1 + 1
      BY <3>1, FS_Interval, Zenon
    <3>3. Cardinality(1..n) = n
      BY <3>1, <3>2
    <3> QED BY <3>2, <3>3 DEF n
  <2>3. Cardinality(Completing) <= Cardinality(1..Len(stack))
    BY <2>1, <2>2, FS_Subset
  <2>4. IsFiniteSet(Completing)
    BY <2>1, <2>2, FS_Subset
  <2>5. Cardinality(Completing) \in Nat
    BY <2>4, FS_CardinalityType
  <2>6. llm = Cardinality(Completing)
    BY <1>1 DEF StackInv
  <2>7. Len(stack) <= MaxDepth
    BY <1>1 DEF LoopInv
  <2> QED BY <2>1, <2>2, <2>3, <2>5, <2>6, <2>7, LoopAssumption
<1>2. ServiceInv /\ ServerInv /\ ConversationInv /\ ConfigInv => ConversationTypeOK
  BY <1>1 DEF ServiceInv, PinInv, ServerInv, RowTypes, Rows, Row, LoopInv, ConversationInv,
     OwnerInv, DrainTypes, ConfigInv, ConversationTypeOK, ServerTypeOK
<1> QED BY <1>2, ServiceInvariant, ServerInvariant, ConversationInvariant, PTL

\* No lost wake-up: queued messages have a drain that runs or is due (queueOwnerMessage).
THEOREM QueuedIsServed == ServiceSpec => []QueueIsWatched
<1>1. ConversationInv => QueueIsWatched
  BY Zenon DEF ConversationInv, OwnerInv, DrainInv, Drains, QueueIsWatched
<1> QED BY <1>1, ConversationInvariant, PTL

\* Messages are answered one after the other, in the order they came (drainOwnerQueue).
THEOREM AnsweredInOrder == ServiceSpec => []OwnerInOrder
<1>1. ASSUME OwnerInv
      PROVE  OwnerInOrder
  <2> DEFINE answered == {d \in DOMAIN stack : stack[d].by = "owner" /\ stack[d].pc # "next"}
  <2>1. \A d : d \in answered <=> Drains(d) /\ stack[d].pc # "next"
    BY DEF Drains
  <2>2. CASE answered = {}
    <3>1. order = queue
      BY <1>1, <2>1, <2>2 DEF OwnerInv, OrderInv
    <3> QED BY <2>2, <3>1 DEF OwnerInOrder
  <2>3. ASSUME NEW d \in answered
        PROVE  OwnerInOrder
    <3>1. \A e \in answered : e = d
      BY <1>1, <2>1 DEF OwnerInv, DrainInv
    <3>2. answered = {d}
      BY <3>1
    <3>3. order = <<stack[d].arg>> \o queue
      BY <1>1, <2>1 DEF OwnerInv, OrderInv
    <3> QED BY <3>2, <3>3 DEF OwnerInOrder
  <2> QED BY <2>2, <2>3
<1>2. ConversationInv => OwnerInOrder
  BY <1>1 DEF ConversationInv
<1> QED BY <1>2, ConversationInvariant, PTL

\* The conversation keeps answers with their questions, however turns nest and however
\* it is trimmed (processOwnerMessage).
THEOREM AnswersStayPaired == ServiceSpec => []PairsTogether
<1>1. ConversationInv => PairsTogether
  BY DEF ConversationInv, ChatInv
<1> QED BY <1>1, ConversationInvariant, PTL

\* Once a key is pinned, only messages under it are taken in, and it stays, across
\* restarts (verifyOwnerMessage).
THEOREM PinnedOwnerOnly == ServiceSpec => OnlyThePinnedOwner
<1> DEFINE Obeys == ownerPin # None =>
                      /\ ownerPin' = ownerPin
                      /\ Len(order') > Len(order) => Last(order').key = ownerPin
<1>1. StackInv /\ OwnerInv /\ [ServiceNext]_serviceVars => [Obeys]_serviceVars
  <2> SUFFICES ASSUME StackInv, OwnerInv, ServiceNext, ownerPin # None
               PROVE  /\ ownerPin' = ownerPin
                      /\ Len(order') > Len(order) => Last(order').key = ownerPin
    BY DEF Obeys
  <2>1. order \in Seq(Message) /\ Len(order) \in Nat
    BY DEF OwnerInv, DrainTypes
  <2>2. CASE UNCHANGED <<ownerPin, order>>
    BY <2>1, <2>2
  <2>3. ASSUME NEW m \in Message, SignedArrives(m)
        PROVE  /\ ownerPin' = ownerPin
               /\ Len(order') > Len(order) => Last(order').key = ownerPin
    <3>1. ownerPin' = ownerPin
      BY <2>3 DEF SignedArrives
    <3>2. CASE m.key = ownerPin' /\ Enqueue(m)
      <4>1. order' = Append(order, m)
        BY <3>2 DEF Enqueue
      <4>2. order'[Len(order')] = m
        BY <2>1, <4>1
      <4> QED BY <3>1, <3>2, <4>2 DEF Last
    <3>3. CASE UNCHANGED order
      BY <2>1, <3>1, <3>3
    <3> QED BY <2>3, <3>2, <3>3 DEF SignedArrives
  <2>4. ASSUME NEW m \in Message, PlainArrives(m)
        PROVE  FALSE
    BY <2>4 DEF PlainArrives, Setup
  <2>5. CASE Answered
    <3>1. order = <<Top.arg>> \o queue /\ order' = queue /\ Top.arg \in Message
          /\ queue \in Seq(Message)
      BY <2>5, AnsweredOwner DEF OwnerInv, DrainTypes
    <3>2. Len(order) = Len(order') + 1 /\ Len(order') \in Nat
      BY <3>1
    <3> QED BY <2>5, <3>2 DEF Answered
  <2>6. CASE Crash
    <3>1. order' = <<>> /\ ownerPin' = ownerPin
      BY <2>6 DEF Crash
    <3> QED BY <2>1, <3>1
  <2>7. CASE ServerNext /\ UNCHANGED ownerVars
    BY <2>2, <2>7 DEF ownerVars
  <2>8. CASE BindOwner \/ ClientChats \/ Boot
    BY <2>2, <2>8 DEF BindOwner, ClientChats, Boot, ownerVars
  <2>9. ASSUME \/ DrainFires \/ DrainEnds
               \/ \E pc \in {"thinking", "answering"} : TakeNext(pc)
               \/ \E ok \in BOOLEAN : TurnEnds(ok)
        PROVE  UNCHANGED <<ownerPin, order>>
    BY <2>9 DEF DrainFires, DrainEnds, TakeNext, TurnEnds
  <2> QED BY <2>2, <2>3, <2>4, <2>5, <2>6, <2>7, <2>8, <2>9
          DEF ServiceNext, OwnerRequest, Drain
<1>2. ServiceInv /\ ConversationInv => StackInv /\ OwnerInv
  BY DEF ServiceInv, ConversationInv
<1> QED BY <1>1, <1>2, ServiceInvariant, ConversationInvariant, PTL
        DEF ServiceSpec, OnlyThePinnedOwner
===============================================================================
