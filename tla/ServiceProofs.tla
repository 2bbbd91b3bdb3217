---------------------------- MODULE ServiceProofs ----------------------------
(***************************************************************************)
(* Theorems about InboundServer and Conversation, for every value of their *)
(* constants: whom the agent listens to (owner messages once, peers under  *)
(* one key), whose completions nest, how often a skill is dispatched for   *)
(* strangers and what they are told.                                       *)
(***************************************************************************)
EXTENDS Conversation, FiniteSetTheorems, TLAPS

USE LoopAssumption, ServerAssumption, ConversationAssumption

-------------------------------------------------------------------------------
(***************************************************************************)
(* The call stack.  What a step does to it decides which activations are   *)
(* inside a completion.                                                    *)
(***************************************************************************)
Activations == [pc : {"accepted", "asking", "thinking", "answering", "next"},
                arg : Tasks \cup {None, ByClient} \cup Message,
                by : {"peer", "client", "owner"}]

Slow(f) == f.pc \in {"asking", "thinking"}

\* The counter is exact, and what nests inside a stranger's completion is above it.
StackInv ==
  /\ stack \in Seq(Activations)
  /\ IsFiniteSet(Completing)
  /\ llm = Cardinality(Completing) /\ llm \in Nat
  /\ \A d \in DOMAIN stack : stack[d].pc = "asking" => \A e \in Completing : e >= d

LEMMA NoneCompleting ==
  ASSUME stack = <<>>, llm = 0
  PROVE  StackInv
<1>1. Completing = {}
  BY DEF Completing
<1>2. IsFiniteSet({}) /\ Cardinality({}) = 0
  BY FS_EmptySet
<1> QED BY <1>1, <1>2 DEF StackInv

LEMMA NoneCompletingNext ==
  ASSUME stack' = <<>>, llm' = 0
  PROVE  StackInv'
<1>1. Completing' = {}
  BY DEF Completing
<1>2. IsFiniteSet({}) /\ Cardinality({}) = 0
  BY FS_EmptySet
<1> QED BY <1>1, <1>2 DEF StackInv

LEMMA PushStack ==
  ASSUME StackInv, NEW f \in Activations, Push(f),
         f.pc = "asking" => llm = 0,
         llm' = llm + IF Slow(f) THEN 1 ELSE 0
  PROVE  StackInv'
<1> DEFINE top == Len(stack) + 1
<1>1. stack' \in Seq(Activations) /\ Len(stack') = top /\ stack'[top] = f
      /\ \A d \in 1..Len(stack) : stack'[d] = stack[d]
  BY DEF Push, StackInv
<1>2. Completing \subseteq 1..Len(stack) /\ top \notin Completing /\ Len(stack) \in Nat
  BY DEF Completing, StackInv
<1>3. Completing' = IF Slow(f) THEN Completing \cup {top} ELSE Completing
  <2>1. \A d : d \in Completing' <=> d \in DOMAIN stack' /\ Slow(stack'[d])
    BY DEF Completing, Slow
  <2>2. \A d : d \in Completing <=> d \in DOMAIN stack /\ Slow(stack[d])
    BY DEF Completing, Slow
  <2>3. DOMAIN stack = 1..Len(stack) /\ DOMAIN stack' = 1..top
    BY <1>1 DEF StackInv
  <2>4. \A d : d # top => (d \in Completing' <=> d \in Completing)
    <3>1. 1..top = 1..Len(stack) \cup {top}
      BY <1>2
    <3> QED BY <1>1, <2>1, <2>2, <2>3, <3>1
  <2>5. top \in Completing' <=> Slow(f)
    BY <1>1, <1>2, <2>1, <2>3
  <2>6. CASE Slow(f)
    BY <2>4, <2>5, <2>6
  <2>7. CASE ~Slow(f)
    <3>1. top \notin Completing /\ top \notin Completing'
      BY <1>2, <2>5, <2>7
    <3>2. \A d : d \in Completing' <=> d \in Completing
      BY <2>4, <3>1, Zenon
    <3>3. Completing' = Completing
      BY <3>2, Zenon
    <3> QED BY <2>7, <3>3
  <2> QED BY <2>6, <2>7
<1>4. IsFiniteSet(Completing') /\ llm' = Cardinality(Completing') /\ llm' \in Nat
  <2>1. CASE Slow(f)
    <3>1. Completing' = Completing \cup {top} /\ IsFiniteSet(Completing)
      BY <1>3, <2>1 DEF StackInv
    <3>2. /\ IsFiniteSet(Completing \cup {top})
          /\ Cardinality(Completing \cup {top}) = Cardinality(Completing) + 1
      BY <1>2, <3>1, FS_AddElement
    <3> QED BY <2>1, <3>1, <3>2 DEF StackInv
  <2>2. CASE ~Slow(f)
    BY <1>3, <2>2 DEF StackInv
  <2> QED BY <2>1, <2>2
<1>5. f.pc = "asking" => Completing = {}
  BY FS_EmptySet DEF StackInv
<1>6. ASSUME NEW d \in DOMAIN stack', stack'[d].pc = "asking", NEW e \in Completing'
      PROVE  e >= d
  <2>1. CASE d = top
    BY <1>1, <1>3, <1>5, <1>6, <2>1
  <2>2. CASE d \in 1..Len(stack)
    BY SMTT(40), <1>1, <1>2, <1>3, <1>6, <2>2 DEF StackInv
  <2> QED BY <1>1, <1>2, <1>6, <2>1, <2>2
<1> QED BY <1>1, <1>4, <1>6 DEF StackInv

LEMMA BecomeStack ==
  ASSUME StackInv, stack # <<>>, ~Slow(Top), NEW f \in Activations, Become(f),
         f.pc = "asking" => llm = 0,
         llm' = llm + IF Slow(f) THEN 1 ELSE 0
  PROVE  StackInv'
<1> DEFINE top == Len(stack)
<1>1. stack' \in Seq(Activations) /\ Len(stack') = top /\ stack'[top] = f
      /\ top \in DOMAIN stack /\ top \in Nat
      /\ \A d \in 1..top : d # top => stack'[d] = stack[d]
  BY DEF Become, StackInv
<1>2. Completing \subseteq 1..top /\ top \notin Completing
  BY SMTT(40) DEF Completing, StackInv, Top, Slow
<1>3. Completing' = IF Slow(f) THEN Completing \cup {top} ELSE Completing
  <2>1. \A d : d \in Completing' <=> d \in DOMAIN stack' /\ Slow(stack'[d])
    BY DEF Completing, Slow
  <2>2. \A d : d \in Completing <=> d \in DOMAIN stack /\ Slow(stack[d])
    BY DEF Completing, Slow
  <2>3. DOMAIN stack = 1..Len(stack) /\ DOMAIN stack' = 1..top
    BY <1>1 DEF StackInv
  <2>4. \A d : d # top => (d \in Completing' <=> d \in Completing)
    BY <1>1, <1>2, <2>1, <2>2, <2>3
  <2>5. top \in Completing' <=> Slow(f)
    BY <1>1, <1>2, <2>1, <2>3
  <2>6. CASE Slow(f)
    BY <2>4, <2>5, <2>6
  <2>7. CASE ~Slow(f)
    <3>1. top \notin Completing /\ top \notin Completing'
      BY <1>2, <2>5, <2>7
    <3>2. \A d : d \in Completing' <=> d \in Completing
      BY <2>4, <3>1, Zenon
    <3>3. Completing' = Completing
      BY <3>2, Zenon
    <3> QED BY <2>7, <3>3
  <2> QED BY <2>6, <2>7
<1>4. IsFiniteSet(Completing') /\ llm' = Cardinality(Completing') /\ llm' \in Nat
  <2>1. CASE Slow(f)
    <3>1. Completing' = Completing \cup {top} /\ IsFiniteSet(Completing)
      BY <1>3, <2>1 DEF StackInv
    <3>2. /\ IsFiniteSet(Completing \cup {top})
          /\ Cardinality(Completing \cup {top}) = Cardinality(Completing) + 1
      BY <1>2, <3>1, FS_AddElement
    <3> QED BY <2>1, <3>1, <3>2 DEF StackInv
  <2>2. CASE ~Slow(f)
    BY <1>3, <2>2 DEF StackInv
  <2> QED BY <2>1, <2>2
<1>5. f.pc = "asking" => Completing = {}
  BY FS_EmptySet DEF StackInv
<1>6. ASSUME NEW d \in DOMAIN stack', stack'[d].pc = "asking", NEW e \in Completing'
      PROVE  e >= d
  <2>1. CASE d = top
    BY <1>1, <1>3, <1>5, <1>6, <2>1
  <2>2. CASE d \in 1..top /\ d # top
    BY <1>1, <1>2, <1>3, <1>6, <2>2 DEF StackInv
  <2> QED BY <1>1, <1>6, <2>1, <2>2
<1> QED BY <1>1, <1>4, <1>6 DEF StackInv

\* A completion returns: its activation ends, or goes on as something else.
LEMMA CompletionEnds ==
  ASSUME StackInv, stack # <<>>, Slow(Top), llm' = llm - 1,
         Pop \/ \E f \in Activations : ~Slow(f) /\ Become(f)
  PROVE  StackInv'
<1> DEFINE top == Len(stack)
<1>1. top \in DOMAIN stack /\ top \in Nat \ {0} /\ top \in Completing
  BY DEF StackInv, Completing, Top, Slow
<1>2. /\ stack' \in Seq(Activations)
      /\ \A d \in 1..top : d # top => d \in DOMAIN stack' /\ stack'[d] = stack[d]
      /\ DOMAIN stack' \subseteq 1..top
      /\ top \in DOMAIN stack' => ~Slow(stack'[top])
  <2>1. CASE Pop
    BY SMTT(40), <1>1, <2>1 DEF Pop, StackInv
  <2>2. ASSUME NEW f \in Activations, ~Slow(f), Become(f)
        PROVE  stack' \in Seq(Activations) /\ DOMAIN stack' = DOMAIN stack
               /\ stack'[top] = f /\ \A d \in 1..top : d # top => stack'[d] = stack[d]
    BY <1>1, <2>2 DEF Become, StackInv
  <2>3. DOMAIN stack = 1..top
    BY DEF StackInv
  <2> QED BY <2>1, <2>2, <2>3
<1>3. Completing' = Completing \ {top}
  <2>1. \A d : d \in Completing' <=> d \in DOMAIN stack' /\ Slow(stack'[d])
    BY DEF Completing, Slow
  <2>2. \A d : d \in Completing <=> d \in DOMAIN stack /\ Slow(stack[d])
    BY DEF Completing, Slow
  <2>3. DOMAIN stack = 1..top
    BY DEF StackInv
  <2>4. \A d : d \in Completing' <=> d \in Completing /\ d # top
    BY <1>2, <2>1, <2>2, <2>3
  <2> QED BY <2>4
<1>4. IsFiniteSet(Completing') /\ llm' = Cardinality(Completing') /\ llm' \in Nat
  <2>1. IsFiniteSet(Completing)
    BY DEF StackInv
  <2>2. /\ IsFiniteSet(Completing \ {top})
        /\ Cardinality(Completing \ {top}) = Cardinality(Completing) - 1
    BY <1>1, <2>1, FS_RemoveElement
  <2>3. Cardinality(Completing \ {top}) \in Nat
    BY <2>2, FS_CardinalityType
  <2> QED BY <1>3, <2>2, <2>3 DEF StackInv
<1>5. \A d \in DOMAIN stack' : stack'[d].pc = "asking" => \A e \in Completing' : e >= d
  BY SMTT(40), <1>2, <1>3 DEF StackInv, Slow
<1> QED BY <1>2, <1>4, <1>5 DEF StackInv

LEMMA PopStack ==
  ASSUME StackInv, stack # <<>>, ~Slow(Top), Pop, UNCHANGED llm
  PROVE  StackInv'
<1> DEFINE top == Len(stack)
<1>1. /\ top \in Nat \ {0} /\ top \in DOMAIN stack
      /\ stack' \in Seq(Activations) /\ DOMAIN stack' = 1..(top - 1)
      /\ \A d \in 1..(top - 1) : stack'[d] = stack[d]
  BY DEF Pop, StackInv
<1>2. Completing' = Completing
  <2>1. \A d : d \in Completing' <=> d \in DOMAIN stack' /\ Slow(stack'[d])
    BY DEF Completing, Slow
  <2>2. \A d : d \in Completing <=> d \in DOMAIN stack /\ Slow(stack[d])
    BY DEF Completing, Slow
  <2>3. DOMAIN stack = 1..top /\ ~Slow(stack[top])
    BY DEF StackInv, Top
  <2>4. \A d : d \in DOMAIN stack' <=> d \in DOMAIN stack /\ d # top
    BY <1>1, <2>3
  <2>5. ASSUME NEW d
        PROVE  d \in Completing' <=> d \in Completing
    <3>1. CASE d \in DOMAIN stack'
      <4>1. stack'[d] = stack[d]
        BY <1>1, <3>1
      <4> QED BY <2>1, <2>2, <2>4, <3>1, <4>1, Zenon
    <3>2. CASE d \notin DOMAIN stack'
      BY <2>1, <2>2, <2>3, <2>4, <3>2, Zenon
    <3> QED BY <3>1, <3>2
  <2>6. \A d : d \in Completing' <=> d \in Completing
    BY <2>5, Zenon
  <2>7. Completing' \subseteq Completing /\ Completing \subseteq Completing'
    BY <2>6, Zenon
  <2> QED BY <2>7, Zenon
<1>3. \A d \in DOMAIN stack' : stack'[d].pc = "asking" => \A e \in Completing' : e >= d
  <2>1. ASSUME NEW d \in DOMAIN stack'
        PROVE  d \in DOMAIN stack /\ stack'[d] = stack[d]
    <3>1. DOMAIN stack = 1..top
      BY DEF StackInv
    <3> QED BY <1>1, <3>1
  <2>2. \A d \in DOMAIN stack : stack[d].pc = "asking" => \A e \in Completing : e >= d
    BY DEF StackInv
  <2> QED BY <1>2, <2>1, <2>2, Zenon
<1> QED BY <1>1, <1>2, <1>3 DEF StackInv

LEMMA SameStack ==
  ASSUME StackInv, UNCHANGED <<stack, llm>>
  PROVE  StackInv'
BY DEF StackInv, Completing

-------------------------------------------------------------------------------
(***************************************************************************)
(* The inductive invariant: the stack; a nonce bounds what was accepted;   *)
(* the pinned key is the only one a sender was heard under.                *)
(***************************************************************************)
NonceInv ==
  /\ lastNonce \in Nat
  /\ accepted \in [Message -> Nat]
  /\ \A m \in Message : /\ accepted[m] <= 1
                        /\ accepted[m] > 0 => m.nonce <= lastNonce

\* A key heard is the one pinned.
PinInv ==
  /\ keyPin \in [Senders -> PeerKeys \cup {None}]
  /\ signers \in [Senders -> SUBSET PeerKeys]
  /\ \A s \in Senders : signers[s] \subseteq {keyPin[s]}

QueueInv == queue \in Seq(Message)

ServiceInv == StackInv /\ NonceInv /\ PinInv /\ QueueInv

LEMMA PinsHold ==
  ASSUME PinInv, NEW s \in Senders, NEW key \in PeerKeys, Trusts(s, key), Heard(s, key)
  PROVE  PinInv'
BY DEF PinInv, Trusts, Heard

\* Steps that pin no key, accept no owner message and leave the queue.
LEMMA OthersHold ==
  ASSUME ServiceInv, StackInv', UNCHANGED <<keyPin, signers, lastNonce, accepted, queue>>
  PROVE  ServiceInv'
BY DEF ServiceInv, NonceInv, PinInv, QueueInv

LEMMA PeerSteps ==
  ASSUME ServiceInv, PeerRequest, UNCHANGED ownerVars
  PROVE  ServiceInv'
<1> USE DEF ServiceInv
<1>1. NonceInv' /\ QueueInv'
  BY DEF ownerVars, NonceInv, QueueInv
<1>2. PICK t \in Tasks, s \in Senders, key \in PeerKeys :
        \/ \E skill \in Skills : Send(t, s, key, skill)
        \/ AnswerAgain(t, s, key)
        \/ Cancel(t, s, key)
  BY DEF PeerRequest
<1>3. PinInv'
  BY <1>2, PinsHold DEF Send, AnswerAgain, Cancel
<1>4. ASSUME NEW skill \in Skills, Send(t, s, key, skill)
      PROVE  StackInv'
  <2> DEFINE f == Frame("accepted", t, "peer")
  <2>1. f \in Activations /\ f.pc = "accepted" /\ Push(f) /\ llm' = llm
    BY <1>4 DEF Send, Frame, Activations
  <2>2. llm' = llm + IF Slow(f) THEN 1 ELSE 0
    BY <2>1 DEF Slow, StackInv
  <2> QED BY <2>1, <2>2, PushStack
<1>5. ASSUME AnswerAgain(t, s, key) \/ Cancel(t, s, key)
      PROVE  StackInv'
  BY <1>5, SameStack DEF AnswerAgain, Cancel
<1> QED BY <1>1, <1>2, <1>3, <1>4, <1>5

\* The handler of a task ends, or starts a completion when none runs.
LEMMA HandlerSteps ==
  ASSUME ServiceInv, Handler, UNCHANGED ownerVars
  PROVE  ServiceInv'
<1>1. UNCHANGED <<keyPin, signers, lastNonce, accepted, queue>>
  BY DEF Handler, TooMany, AnswerPing, RefuseAsk, Unsupported, ParkForOwner, AskStarts,
     AskRefused, EndsAtOnce, Dispatched, ownerVars
<1>2. stack # <<>> /\ ~Slow(Top)
  BY DEF Handler, TooMany, AnswerPing, RefuseAsk, Unsupported, ParkForOwner, AskStarts,
     AskRefused, Dispatched, Admitted, At, Slow
<1>3. CASE Pop /\ UNCHANGED llm
  BY <1>1, <1>2, <1>3, PopStack, OthersHold DEF ServiceInv
<1>4. ASSUME NEW t \in Tasks, NEW kept \in SUBSET Tasks, AskStarts(t, kept)
      PROVE  ServiceInv'
  <2> DEFINE f == Frame("asking", t, "peer")
  <2>1. f \in Activations /\ f.pc = "asking" /\ Become(f) /\ llm' = llm + 1
    BY <1>4 DEF AskStarts, Frame, Activations
  <2>2. llm = 0
    BY <1>4 DEF AskStarts, Free, ServiceInv, StackInv
  <2>3. llm' = llm + IF Slow(f) THEN 1 ELSE 0
    BY <2>1 DEF Slow
  <2>4. StackInv'
    BY <1>2, <2>1, <2>2, <2>3, BecomeStack DEF ServiceInv
  <2> QED BY <1>1, <2>4, OthersHold
<1> QED
  BY <1>3, <1>4 DEF Handler, TooMany, AnswerPing, RefuseAsk, Unsupported, ParkForOwner,
     AskRefused, EndsAtOnce

LEMMA ReturnSteps ==
  ASSUME ServiceInv, LlmReturns, UNCHANGED ownerVars
  PROVE  ServiceInv'
<1>1. UNCHANGED <<keyPin, signers, lastNonce, accepted, queue>>
  BY DEF LlmReturns, ClientAnswered, AskReturns, history, ownerVars
<1>2. stack # <<>> /\ Slow(Top) /\ Pop /\ llm' = llm - 1
  BY DEF LlmReturns, ClientAnswered, AskReturns, At, Slow
<1>3. StackInv'
  BY <1>2, CompletionEnds DEF ServiceInv
<1> QED BY <1>1, <1>3, OthersHold

LEMMA AskSteps ==
  ASSUME ServiceInv, ClientAsks, UNCHANGED ownerVars
  PROVE  ServiceInv'
<1> DEFINE f == Frame("asking", None, "client")
<1>1. UNCHANGED <<keyPin, signers, lastNonce, accepted, queue>>
  BY DEF ClientAsks, history, ownerVars
<1>2. f \in Activations /\ f.pc = "asking" /\ Push(f) /\ llm' = llm + 1
  BY DEF ClientAsks, Frame, Activations
<1>3. llm = 0 /\ llm' = llm + IF Slow(f) THEN 1 ELSE 0
  BY <1>2 DEF ClientAsks, Free, ServiceInv, StackInv, Slow
<1>4. StackInv'
  BY <1>2, <1>3, PushStack DEF ServiceInv
<1> QED BY <1>1, <1>4, OthersHold

LEMMA TickSteps ==
  ASSUME ServiceInv, Tick, UNCHANGED ownerVars
  PROVE  ServiceInv'
<1>1. UNCHANGED <<keyPin, signers, lastNonce, accepted, queue, stack, llm>>
  BY DEF Tick, history, ownerVars
<1> QED BY <1>1, SameStack, OthersHold DEF ServiceInv

\* A signed message that is accepted is newer than all that were.
LEMMA NonceAdvances ==
  ASSUME NonceInv, NEW m \in Message, m.key \in OwnerKeys, Fresh(m), lastNonce' = m.nonce,
         accepted' = [accepted EXCEPT ![m] = @ + 1]
  PROVE  NonceInv'
<1>1. m.nonce \in Nat
  BY DEF Message
<1>2. accepted[m] = 0
  BY <1>1 DEF NonceInv, Fresh
<1>3. \A n \in Message : accepted'[n] <= 1 /\ (accepted'[n] > 0 => n.nonce <= m.nonce)
  <2> TAKE n \in Message
  <2>1. n.nonce \in Int
    BY DEF Message
  <2>2. CASE n = m
    BY <1>1, <1>2, <2>2 DEF NonceInv
  <2>3. CASE n # m
    BY <1>1, <2>1, <2>3 DEF NonceInv, Fresh
  <2> QED BY <2>2, <2>3
<1> QED BY <1>1, <1>3 DEF NonceInv

LEMMA OwnerRequestSteps ==
  ASSUME ServiceInv, OwnerRequest
  PROVE  ServiceInv'
<1>1. ASSUME NEW m \in Message, SignedArrives(m)
      PROVE  ServiceInv'
  <2>1. StackInv' /\ PinInv'
    BY <1>1, SameStack DEF SignedArrives, ServiceInv, PinInv, history
  <2>2. QueueInv'
    <3>1. CASE Enqueue(m)
      BY <3>1 DEF Enqueue, ServiceInv, QueueInv
    <3>2. CASE UNCHANGED queue
      BY <3>2 DEF ServiceInv, QueueInv
    <3> QED BY <1>1, <3>1, <3>2 DEF SignedArrives
  <2>3. NonceInv'
    BY <1>1, NonceAdvances DEF SignedArrives, ServiceInv, NonceInv
  <2> QED BY <2>1, <2>2, <2>3 DEF ServiceInv
<1>2. ASSUME NEW m \in Message, PlainArrives(m)
      PROVE  ServiceInv'
  <2>1. StackInv' /\ PinInv' /\ NonceInv'
    BY <1>2, SameStack DEF PlainArrives, ServiceInv, PinInv, NonceInv, history
  <2>2. QueueInv'
    BY <1>2 DEF PlainArrives, Enqueue, ServiceInv, QueueInv
  <2> QED BY <2>1, <2>2 DEF ServiceInv
<1>3. CASE BindOwner
  BY <1>3, SameStack, OthersHold DEF BindOwner, ServiceInv, history
<1>4. CASE ClientChats
  <2> DEFINE f == Frame("thinking", ByClient, "client")
  <2>1. f \in Activations /\ f.pc = "thinking" /\ Push(f) /\ llm' = llm + 1
    BY <1>4 DEF ClientChats, Frame, Activations
  <2>2. llm' = llm + IF Slow(f) THEN 1 ELSE 0
    BY <2>1 DEF Slow
  <2>3. StackInv'
    BY <2>1, <2>2, PushStack DEF ServiceInv
  <2> QED BY <1>4, <2>3, OthersHold DEF ClientChats, history, ownerVars
<1> QED BY <1>1, <1>2, <1>3, <1>4 DEF OwnerRequest

LEMMA DrainSteps ==
  ASSUME ServiceInv, Drain
  PROVE  ServiceInv'
<1> USE DEF history
<1>1. CASE DrainFires
  <2> DEFINE f == Frame("next", None, "owner")
  <2>1. f \in Activations /\ f.pc = "next" /\ Push(f) /\ llm' = llm
    BY <1>1 DEF DrainFires, Frame, Activations
  <2>2. llm' = llm + IF Slow(f) THEN 1 ELSE 0
    BY <2>1 DEF Slow, ServiceInv, StackInv
  <2>3. StackInv'
    BY <2>1, <2>2, PushStack DEF ServiceInv
  <2> QED BY <1>1, <2>3, OthersHold DEF DrainFires
<1>2. ASSUME NEW pc \in {"thinking", "answering"}, TakeNext(pc)
      PROVE  ServiceInv'
  <2> DEFINE f == Frame(pc, Head(queue), "owner")
  <2>1. Head(queue) \in Message /\ Tail(queue) \in Seq(Message)
    BY <1>2 DEF TakeNext, ServiceInv, QueueInv
  <2>2. f \in Activations /\ f.pc = pc /\ Become(f)
    BY <1>2, <2>1 DEF TakeNext, Frame, Activations
  <2>3. stack # <<>> /\ ~Slow(Top)
    BY <1>2 DEF TakeNext, At, Slow
  <2>4. llm' = llm + IF Slow(f) THEN 1 ELSE 0
    BY <1>2, <2>2 DEF TakeNext, Slow, ServiceInv, StackInv
  <2>5. StackInv'
    BY <2>2, <2>3, <2>4, BecomeStack DEF ServiceInv
  <2>6. NonceInv' /\ PinInv' /\ QueueInv'
    BY <1>2, <2>1 DEF TakeNext, ServiceInv, NonceInv, PinInv, QueueInv
  <2> QED BY <2>5, <2>6 DEF ServiceInv
<1>3. CASE Answered
  <2> DEFINE f == Frame("next", None, "owner")
  <2>1. f \in Activations /\ f.pc = "next" /\ Become(f) /\ llm' = llm
    BY <1>3 DEF Answered, Frame, Activations
  <2>2. stack # <<>> /\ ~Slow(Top) /\ llm' = llm + IF Slow(f) THEN 1 ELSE 0
    BY <1>3, <2>1 DEF Answered, At, Slow, ServiceInv, StackInv
  <2>3. StackInv'
    BY <2>1, <2>2, BecomeStack DEF ServiceInv
  <2> QED BY <1>3, <2>3, OthersHold DEF Answered
<1>4. CASE DrainEnds
  <2>1. stack # <<>> /\ ~Slow(Top) /\ Pop
    BY <1>4 DEF DrainEnds, At, Slow
  <2>2. StackInv'
    BY <1>4, <2>1, PopStack DEF ServiceInv, DrainEnds
  <2> QED BY <1>4, <2>2, OthersHold DEF DrainEnds
<1> QED BY <1>1, <1>2, <1>3, <1>4 DEF Drain

LEMMA TurnSteps ==
  ASSUME ServiceInv, NEW ok \in BOOLEAN, TurnEnds(ok)
  PROVE  ServiceInv'
<1> DEFINE f == [Top EXCEPT !.pc = "answering"]
<1>1. stack # <<>> /\ Slow(Top) /\ llm' = llm - 1 /\ (Pop \/ Become(f))
  BY DEF TurnEnds, At, Slow
<1>2. Top \in Activations
  BY <1>1 DEF ServiceInv, StackInv, Top
<1>3. f \in Activations /\ ~Slow(f)
  BY <1>2 DEF Activations, Slow
<1>4. StackInv'
  BY <1>1, <1>3, CompletionEnds DEF ServiceInv
<1> QED BY <1>4, OthersHold DEF TurnEnds, history

LEMMA ProcessSteps ==
  ASSUME ServiceInv, Crash \/ Boot
  PROVE  ServiceInv'
<1>1. CASE Crash
  <2>1. StackInv'
    BY <1>1, NoneCompletingNext DEF Crash, Dies
  <2>2. NonceInv' /\ PinInv' /\ QueueInv'
    BY <1>1 DEF Crash, Dies, history, ServiceInv, NonceInv, PinInv, QueueInv
  <2> QED BY <2>1, <2>2 DEF ServiceInv
<1>2. CASE Boot
  BY <1>2, SameStack, OthersHold DEF Boot, Restart, ownerVars, ServiceInv
<1> QED BY <1>1, <1>2

\* The inductive invariant: the counter of completions, the owner's nonces and the
\* peers' keys are what the handlers take them for, across restarts.
THEOREM ServiceInvariant == ServiceSpec => []ServiceInv
<1>1. ServiceInit => ServiceInv
  <2>1. ServiceInit => StackInv
    BY NoneCompleting DEF ServiceInit, ServerInit
  <2>2. ServiceInit => NonceInv /\ PinInv /\ QueueInv
    BY DEF ServiceInit, ServerInit, NonceInv, PinInv, QueueInv
  <2> QED BY <2>1, <2>2 DEF ServiceInv
<1>2. ServiceInv /\ [ServiceNext]_serviceVars => ServiceInv'
  <2> SUFFICES ASSUME ServiceInv, [ServiceNext]_serviceVars
               PROVE  ServiceInv'
    OBVIOUS
  <2>1. CASE ServerNext /\ UNCHANGED ownerVars
    BY <2>1, PeerSteps, HandlerSteps, ReturnSteps, AskSteps, TickSteps DEF ServerNext
  <2>2. CASE UNCHANGED serviceVars
    BY <2>2, SameStack, OthersHold DEF serviceVars, serverVars, ownerVars, ServiceInv
  <2> QED BY <2>1, <2>2, OwnerRequestSteps, DrainSteps, TurnSteps, ProcessSteps
          DEF ServiceNext
<1> QED BY <1>1, <1>2, PTL DEF ServiceSpec

-------------------------------------------------------------------------------
(***************************************************************************)
(* The theorems.                                                           *)
(***************************************************************************)
\* A signed message of the owner is accepted at most once, however often it is
\* delivered and however often the process dies (verifyOwnerMessage).
THEOREM OwnerHeardOnce == ServiceSpec => []OwnerMessageOnce
<1>1. ServiceInv => OwnerMessageOnce
  BY DEF ServiceInv, NonceInv, OwnerMessageOnce
<1> QED BY <1>1, ServiceInvariant, PTL

\* A peer is heard under one key for ever (verifyInboundRequest).
THEOREM PeerKeyStays == ServiceSpec => []OneKeyPerSender
<1>1. ASSUME PinInv, NEW s \in Senders
      PROVE  Cardinality(signers[s]) <= 1
  <2>1. CASE signers[s] = {}
    BY <2>1, FS_EmptySet
  <2>2. CASE signers[s] = {keyPin[s]}
    <3>1. Cardinality({keyPin[s]}) = 1
      BY FS_Singleton
    <3> QED BY <2>2, <3>1
  <2> QED BY <1>1, <2>1, <2>2 DEF PinInv
<1>2. ServiceInv => OneKeyPerSender
  BY <1>1 DEF ServiceInv, OneKeyPerSender
<1> QED BY <1>2, ServiceInvariant, PTL

\* No stranger's completion starts on top of another one, and the counter of
\* completions is exact at every depth (agentAsk, processOwnerMessage).
THEOREM StrangersWait == ServiceSpec => []StrangersNeverNest
<1>1. ServiceInv => StrangersNeverNest
  BY DEF ServiceInv, StackInv, StrangersNeverNest
<1> QED BY <1>1, ServiceInvariant, PTL

-------------------------------------------------------------------------------
(***************************************************************************)
(* The nested event loop.  Only the innermost activation is not waiting.   *)
(***************************************************************************)
LoopInv ==
  /\ Len(stack) <= MaxDepth
  /\ stack # <<>> => up
  /\ \A d \in DOMAIN stack : d # Len(stack) => stack[d].pc \in Waits
  /\ \A d \in DOMAIN stack : stack[d].pc = "accepted" \/ stack[d].by = "peer"
                             => stack[d].arg \in Tasks

Sound(f) == f \in Activations /\ (f.pc = "accepted" \/ f.by = "peer" => f.arg \in Tasks)

LEMMA PushLoop ==
  ASSUME StackInv, LoopInv, Served, NEW f, Sound(f), Push(f), up' = up
  PROVE  LoopInv' /\ stack' # <<>> /\ Top' = f
<1> DEFINE top == Len(stack) + 1
<1>1. /\ stack \in Seq(Activations) /\ Len(stack) \in Nat
      /\ stack' \in Seq(Activations) /\ Len(stack') = top /\ stack'[top] = f
      /\ \A d \in 1..Len(stack) : stack'[d] = stack[d]
  BY DEF Push, StackInv, Sound
<1>2. Len(stack') <= MaxDepth /\ stack' # <<>>
  <2>1. Len(stack) < MaxDepth
    BY DEF Push
  <2> QED BY <1>1, <2>1, LoopAssumption
<1>6. up'
  <2>1. up
    BY DEF Served
  <2> QED BY <2>1
<1>3. ASSUME NEW d \in DOMAIN stack', d # Len(stack')
      PROVE  stack'[d].pc \in Waits
  <2>1. d \in 1..Len(stack) /\ stack'[d] = stack[d]
    BY <1>1, <1>3
  <2>2. CASE d # Len(stack)
    BY <1>1, <2>1, <2>2 DEF LoopInv
  <2>3. CASE d = Len(stack)
    BY <1>1, <2>1, <2>3 DEF Served, Parked, Top
  <2> QED BY <2>2, <2>3
<1>4. ASSUME NEW d \in DOMAIN stack', stack'[d].pc = "accepted" \/ stack'[d].by = "peer"
      PROVE  stack'[d].arg \in Tasks
  <2>1. CASE d = top
    BY <1>1, <1>4, <2>1 DEF Sound
  <2>2. CASE d \in 1..Len(stack)
    BY SMTT(40), <1>1, <1>4, <2>2 DEF LoopInv
  <2> QED BY <1>1, <2>1, <2>2
<1>5. Top' = f
  BY <1>1 DEF Top
<1> QED BY <1>2, <1>3, <1>4, <1>5, <1>6 DEF LoopInv

LEMMA BecomeLoop ==
  ASSUME StackInv, LoopInv, stack # <<>>, NEW f, Sound(f), Become(f), up' = up
  PROVE  LoopInv' /\ stack' # <<>> /\ Top' = f
<1> DEFINE top == Len(stack)
<1>1. /\ stack \in Seq(Activations) /\ top \in Nat \ {0}
      /\ stack' \in Seq(Activations) /\ Len(stack') = top /\ stack'[top] = f
      /\ \A d \in 1..top : d # top => stack'[d] = stack[d]
  BY DEF Become, StackInv, Sound
<1>2. Len(stack') <= MaxDepth /\ stack' # <<>>
  BY <1>1 DEF LoopInv
<1>6. up'
  BY Zenon DEF LoopInv
<1>3. \A d \in DOMAIN stack' : d # Len(stack') => stack'[d].pc \in Waits
  BY SMTT(40), <1>1 DEF LoopInv
<1>4. ASSUME NEW d \in DOMAIN stack', stack'[d].pc = "accepted" \/ stack'[d].by = "peer"
      PROVE  stack'[d].arg \in Tasks
  <2>1. CASE d = top
    BY <1>1, <1>4, <2>1 DEF Sound
  <2>2. CASE d # top
    BY SMTT(40), <1>1, <1>4, <2>2 DEF LoopInv
  <2> QED BY <2>1, <2>2
<1>5. Top' = f
  BY <1>1 DEF Top
<1> QED BY <1>2, <1>3, <1>4, <1>5, <1>6 DEF LoopInv

LEMMA PopLoop ==
  ASSUME StackInv, LoopInv, stack # <<>>, Pop, up' = up
  PROVE  LoopInv' /\ (stack' # <<>> => Top'.pc \in Waits)
<1> DEFINE top == Len(stack)
<1>1. /\ stack \in Seq(Activations) /\ top \in Nat \ {0}
      /\ stack' \in Seq(Activations) /\ DOMAIN stack' = 1..(top - 1)
      /\ \A d \in 1..(top - 1) : stack'[d] = stack[d]
  BY SMTT(40) DEF Pop, StackInv
<1>2. Len(stack') = top - 1 /\ DOMAIN stack = 1..top
  BY <1>1
<1>3. Len(stack') <= MaxDepth
  BY <1>1, LoopAssumption DEF LoopInv
<1>7. up'
  BY Zenon DEF LoopInv
<1>8. \A d \in DOMAIN stack' : d \in DOMAIN stack /\ d # top /\ stack'[d] = stack[d]
  BY <1>1, <1>2
<1>4. \A d \in DOMAIN stack' : stack'[d].pc \in Waits
  BY <1>8 DEF LoopInv
<1>5. \A d \in DOMAIN stack' : stack'[d].pc = "accepted" \/ stack'[d].by = "peer"
                                => stack'[d].arg \in Tasks
  BY <1>8 DEF LoopInv
<1>6. stack' # <<>> => Top'.pc \in Waits
  BY SMTT(40), <1>1, <1>2, <1>4 DEF Top
<1> QED BY <1>3, <1>4, <1>5, <1>6, <1>7 DEF LoopInv

-------------------------------------------------------------------------------
(***************************************************************************)
(* Rows.                                                                   *)
(***************************************************************************)
Row  == [st : States, sender : Senders \cup {None}, skill : Skills, at : 0..MaxTime]
Rows == [Tasks -> Row]

LEMMA BoundsAreNat ==
  InboundMax \in Nat /\ ServiceMax \in Nat /\ Window \in Nat /\ TTL \in Nat /\ RowCap \in Nat
  /\ MaxTime \in Nat /\ MaxEvents \in Nat
<1>1. {InboundMax, ServiceMax, Window, TTL, RowCap, MaxTime, MaxEvents} \subseteq Nat
  BY ServerAssumption
<1> QED BY <1>1, Zenon

LEMMA SetStateRows ==
  ASSUME NEW rows \in Rows, NEW t \in Tasks, NEW st \in States
  PROVE  /\ SetState(rows, t, st) \in Rows
         /\ \A u \in Tasks : u # t => SetState(rows, t, st)[u] = rows[u]
         /\ SetState(rows, t, st)[t] = IF rows[t].st \in Terminal \cup {"none"} THEN rows[t]
                                       ELSE [rows[t] EXCEPT !.st = st]
BY DEF Rows, Row, SetState

LEMMA WithoutRows ==
  ASSUME NEW rows \in Rows, NEW gone
  PROVE  /\ Without(rows, gone) \in Rows
         /\ \A u \in Tasks : Without(rows, gone)[u] = IF u \in gone THEN NoRow ELSE rows[u]
<1>1. NoRow \in Row
  BY BoundsAreNat DEF NoRow, Row, States, Skills, Terminal
<1> QED BY <1>1 DEF Rows, Without


-------------------------------------------------------------------------------
(***************************************************************************)
(* The invariants of the rows.                                             *)
(***************************************************************************)
RowTypes ==
  /\ row \in Rows
  /\ now \in 0..MaxTime
  /\ runs \in [Tasks -> Nat] /\ evicted \in [Tasks -> Nat]
  /\ answers \in [Tasks -> SUBSET Terminal]
  /\ served \subseteq [sender : Senders \cup {None}, task : Tasks, nth : Nat, at : 0..MaxTime]

\* A row that is accepted is the one the innermost activation handles, and is new.
RowInv ==
  /\ At("accepted") => row[Top.arg].st = "accepted" /\ row[Top.arg].at = now
  /\ \A t \in Tasks : row[t].st = "accepted" => ~up \/ (At("accepted") /\ Top.arg = t)
  /\ \A t \in Tasks : row[t].st # "none" => row[t].at <= now

\* What was told is what the row says, as long as it is there.
TellInv ==
  \A t \in Tasks : /\ row[t].st # "none" => answers[t] \subseteq {row[t].st}
                   /\ \E st \in Terminal : answers[t] \subseteq {st}

Began(t) == row[t].st \notin {"none", "accepted"}

\* A task ran once for each time its row was evicted, and once for the row it has.
RunInv == \A t \in Tasks : runs[t] <= evicted[t] + IF Began(t) THEN 1 ELSE 0

Recent(e) == e.at >= now - Window

\* Each dispatch of the window still has its row.
QuotaInv ==
  /\ \A e \in served : e.nth < runs[e.task] /\ e.at <= now
  /\ ~crowded =>
       /\ \A e \in served : Recent(e) =>
            /\ Began(e.task) /\ row[e.task].sender = e.sender
            /\ row[e.task].at = e.at /\ row[e.task].skill = "agent-ask"
       /\ \A e, f \in served : Recent(e) /\ Recent(f) /\ e.task = f.task => e = f
  /\ FloodBound

ServerInv == RowTypes /\ LoopInv /\ RowInv /\ TellInv /\ RunInv /\ QuotaInv

\* Steps that leave rows and clock alone, and neither begin nor end with a new task.
LEMMA RowsRest ==
  ASSUME ServerInv, LoopInv', ~At("accepted"), ~At("accepted")',
         UNCHANGED <<row, up, now, history>>
  PROVE  ServerInv'
<1>1. RowTypes' /\ TellInv' /\ RunInv'
  BY DEF ServerInv, RowTypes, TellInv, RunInv, Began, history
<1>2. RowInv'
  BY DEF ServerInv, RowInv
<1>3. QuotaInv'
  BY DEF ServerInv, QuotaInv, Recent, Began, FloodBound, WindowOf, history
<1> QED BY <1>1, <1>2, <1>3 DEF ServerInv

LEMMA SendRows ==
  ASSUME ServerInv, StackInv, NEW t \in Tasks, NEW s \in Senders, NEW key \in PeerKeys,
         NEW skill \in Skills, Send(t, s, key, skill)
  PROVE  ServerInv'
<1> DEFINE f == Frame("accepted", t, "peer")
           new == [st |-> "accepted", sender |-> s, skill |-> skill, at |-> now]
<1> USE DEF ServerInv
<1>1. Sound(f) /\ f.pc = "accepted" /\ f.arg = t
  BY DEF Sound, Frame, Activations
<1>2. LoopInv' /\ stack' # <<>> /\ Top' = f
  BY <1>1, PushLoop DEF Send
<1>3. At("accepted")' /\ Top'.arg = t
  BY <1>1, <1>2 DEF At
<1>4. ~At("accepted") /\ up
  BY DEF Send, Served, Parked, At, Waits
<1>5. row[t].st = "none"
  <2>1. row[t].st # "accepted"
    BY <1>4 DEF RowInv
  <2>2. row[t].st \in States
    BY DEF RowTypes, Rows, Row
  <2> QED BY <2>1, <2>2 DEF Send, AlreadyHandled, States
<1>6. row' = [row EXCEPT ![t] = new] /\ new \in Row
      /\ answers' = [answers EXCEPT ![t] = {}]
      /\ UNCHANGED <<now, runs, evicted, served, crowded>>
  BY DEF Send, RowTypes, Row, States
<1>7. RowTypes'
  BY <1>6 DEF RowTypes, Rows
<1>8. row'[t] = new /\ answers'[t] = {}
      /\ \A u \in Tasks : u # t => row'[u] = row[u] /\ answers'[u] = answers[u]
  BY <1>6 DEF RowTypes, Rows
<1> HIDE DEF f
<1>9. RowInv'
  BY <1>3, <1>4, <1>6, <1>8 DEF RowInv, RowTypes
<1>10. TellInv'
  BY <1>6, <1>8 DEF TellInv, Terminal
<1>11. RunInv'
  BY <1>5, <1>6, <1>8 DEF RunInv, Began
<1>12. QuotaInv'
  <2>1. \A u \in Tasks : Began(u) => u # t /\ Began(u)' /\ row'[u] = row[u]
    BY <1>5, <1>8 DEF Began
  <2>2. \A e \in served : e.task \in Tasks
    BY DEF RowTypes
  <2>3. FloodBound'
    BY <1>6 DEF QuotaInv, FloodBound, WindowOf
  <2> QED BY <1>6, <2>1, <2>2, <2>3 DEF QuotaInv, Recent
<1> QED BY <1>2, <1>7, <1>9, <1>10, <1>11, <1>12

\* A row is given its final state, and its peer is told what it says then.
LEMMA RowSettled ==
  ASSUME ServerInv, NEW t \in Tasks, NEW st \in Terminal,
         row' = SetState(row, t, st), Tell(t, row'[t].st),
         UNCHANGED <<now, runs, evicted, served, crowded>>
  PROVE  /\ RowTypes' /\ TellInv' /\ RunInv' /\ QuotaInv'
         /\ \A u \in Tasks : /\ u # t => row'[u] = row[u]
                             /\ row'[u].st # "none" => row'[u].at <= now
         /\ row'[t].st # "accepted"
<1> USE DEF ServerInv
<1>1. /\ st \in States /\ st \notin {"none", "accepted"}
      /\ row \in Rows /\ answers \in [Tasks -> SUBSET Terminal]
  BY DEF RowTypes, States, Terminal
<1>2. /\ row' \in Rows
      /\ \A u \in Tasks : u # t => row'[u] = row[u]
      /\ row'[t] = IF row[t].st \in Terminal \cup {"none"} THEN row[t]
                   ELSE [row[t] EXCEPT !.st = st]
  BY <1>1, SetStateRows
<1>3. /\ answers' \in [Tasks -> SUBSET Terminal]
      /\ \A u \in Tasks : u # t => answers'[u] = answers[u]
      /\ answers'[t] = answers[t] \cup ({row'[t].st} \cap Terminal)
  BY <1>1 DEF Tell
<1>4. RowTypes'
  BY <1>2, <1>3 DEF RowTypes
<1>5. row[t] \in Row
  BY <1>1 DEF Rows
<1>6. /\ row'[t].sender = row[t].sender /\ row'[t].at = row[t].at
      /\ row'[t].skill = row[t].skill
      /\ row'[t].st = IF row[t].st \in Terminal \cup {"none"} THEN row[t].st ELSE st
  BY <1>2, <1>5 DEF Row
<1>7. TellInv'
  <2>1. ASSUME NEW u \in Tasks, u # t
        PROVE  /\ row'[u].st # "none" => answers'[u] \subseteq {row'[u].st}
               /\ \E x \in Terminal : answers'[u] \subseteq {x}
    BY <1>2, <1>3, <2>1 DEF TellInv
  <2>2. /\ row[t].st # "none" => answers[t] \subseteq {row[t].st}
        /\ \E x \in Terminal : answers[t] \subseteq {x}
        /\ answers[t] \subseteq Terminal
    BY <1>1 DEF TellInv
  <2>3. CASE row[t].st = "none"
    <3>1. answers'[t] = answers[t] /\ row'[t].st = "none"
      BY <1>3, <1>6, <2>3 DEF Terminal
    <3> QED BY <2>1, <2>2, <3>1 DEF TellInv
  <2>4. CASE row[t].st \in Terminal
    <3>1. answers'[t] \subseteq {row'[t].st} /\ row'[t].st \in Terminal
      BY <1>3, <1>6, <2>2, <2>4 DEF Terminal
    <3> QED BY <2>1, <3>1 DEF TellInv
  <2>5. CASE row[t].st \notin Terminal \cup {"none"}
    <3>1. answers[t] = {} /\ row'[t].st = st
      BY <1>6, <2>2, <2>5
    <3>2. answers'[t] \subseteq {row'[t].st} /\ row'[t].st \in Terminal
      BY <1>3, <3>1
    <3> QED BY <2>1, <3>2 DEF TellInv
  <2> QED BY <2>3, <2>4, <2>5
<1>8. /\ \A u \in Tasks : Began(u) => Began(u)'
      /\ \A u \in Tasks : /\ row'[u].sender = row[u].sender /\ row'[u].at = row[u].at
                          /\ row'[u].skill = row[u].skill
  BY <1>1, <1>2, <1>6 DEF Began
<1>9. RunInv'
  BY <1>8 DEF RunInv, RowTypes
<1>10. QuotaInv'
  <2>1. \A e \in served : e.task \in Tasks
    BY DEF RowTypes
  <2>2. FloodBound'
    BY DEF QuotaInv, FloodBound, WindowOf
  <2> QED BY <1>8, <2>1, <2>2 DEF QuotaInv, Recent
<1>11. \A u \in Tasks : row'[u].st # "none" => row'[u].at <= now
  BY <1>2, <1>6, <1>1 DEF RowInv
<1>12. row'[t].st # "accepted"
  BY <1>1, <1>6 DEF Terminal
<1> QED BY <1>2, <1>4, <1>7, <1>9, <1>10, <1>11, <1>12

\* No handler is at work: nothing is accepted.
LEMMA NoneAccepted ==
  ASSUME ServerInv, up, ~At("accepted")
  PROVE  \A t \in Tasks : row[t].st # "accepted"
BY DEF ServerInv, RowInv

LEMMA NoneHandled ==
  ASSUME ~At("accepted")', UNCHANGED now,
         \A t \in Tasks : /\ row'[t].st # "accepted"
                          /\ row'[t].st # "none" => row'[t].at <= now
  PROVE  RowInv'
BY DEF RowInv

LEMMA AgainRows ==
  ASSUME ServerInv, NEW t \in Tasks, NEW s \in Senders, NEW key \in PeerKeys,
         AnswerAgain(t, s, key)
  PROVE  ServerInv'
<1> USE DEF ServerInv
<1>1. /\ UNCHANGED <<row, stack, up, now, runs, evicted, served, crowded>>
      /\ answers \in [Tasks -> SUBSET Terminal]
  BY DEF AnswerAgain, RowTypes
<1>2. row[t].st # "none" /\ row[t].st \in States
  BY DEF AnswerAgain, AlreadyHandled, RowTypes, Rows, Row, Terminal
<1>3. /\ answers' \in [Tasks -> SUBSET Terminal]
      /\ \A u \in Tasks : u # t => answers'[u] = answers[u]
      /\ answers'[t] = answers[t] \cup ({row[t].st} \cap Terminal)
  BY <1>1 DEF AnswerAgain, Tell
<1>4. TellInv'
  <2>1. answers'[t] \subseteq {row[t].st}
    BY <1>2, <1>3 DEF TellInv
  <2>2. \E x \in Terminal : answers'[t] \subseteq {x}
    <3>1. CASE row[t].st \in Terminal
      BY <2>1, <3>1
    <3>2. CASE row[t].st \notin Terminal
      BY <1>3, <3>2 DEF TellInv
    <3> QED BY <3>1, <3>2
  <2> QED BY <1>1, <1>3, <2>1, <2>2 DEF TellInv
<1>5. RowTypes' /\ RunInv'
  BY <1>1, <1>3 DEF RowTypes, RunInv, Began
<1>6. RowInv'
  BY <1>1 DEF RowInv, At, Top
<1>7. LoopInv'
  BY <1>1 DEF LoopInv
<1>8. QuotaInv'
  BY <1>1 DEF QuotaInv, Recent, Began, FloodBound, WindowOf
<1> QED BY <1>4, <1>5, <1>6, <1>7, <1>8

LEMMA CancelRows ==
  ASSUME ServerInv, NEW t \in Tasks, NEW s \in Senders, NEW key \in PeerKeys,
         Cancel(t, s, key)
  PROVE  ServerInv'
<1>1. UNCHANGED <<stack, up, now, runs, evicted, served, crowded>>
  BY DEF Cancel
<1>2. ~At("accepted") /\ up
  BY DEF Cancel, Served, Parked, At, Waits
<1>3. row' = SetState(row, t, "canceled") /\ "canceled" \in Terminal
  BY DEF Cancel, Terminal
<1>9. row \in Rows /\ row[t] \in Row /\ "canceled" \in States
  BY DEF ServerInv, RowTypes, Rows, States, Terminal
<1>10. row[t].st \notin Terminal \cup {"none"}
  BY DEF Cancel
<1>4. row'[t].st = "canceled"
  <2>1. row'[t] = [row[t] EXCEPT !.st = "canceled"]
    BY <1>3, <1>9, <1>10, SetStateRows
  <2> QED BY <1>9, <2>1 DEF Row
<1>5. Tell(t, row'[t].st)
  BY <1>4 DEF Cancel
<1>6. RowTypes' /\ TellInv' /\ RunInv' /\ QuotaInv'
  BY <1>1, <1>3, <1>5, RowSettled
<1>11. \A u \in Tasks : /\ u # t => row'[u] = row[u]
                        /\ row'[u].st # "none" => row'[u].at <= now
  BY <1>1, <1>3, <1>5, RowSettled
<1>7. LoopInv' /\ ~At("accepted")'
  BY <1>1, <1>2 DEF ServerInv, LoopInv, At, Top
<1>8. RowInv'
  <2>1. \A u \in Tasks : row[u].st # "accepted"
    BY <1>2, NoneAccepted
  <2>2. \A u \in Tasks : row'[u].st # "accepted"
    BY <1>4, <1>11, <2>1
  <2> QED BY <1>1, <1>11, <1>7, <2>2, NoneHandled
<1> QED BY <1>6, <1>7, <1>8 DEF ServerInv

LEMMA TooManyRows ==
  ASSUME ServerInv, StackInv, NEW t \in Tasks, TooMany(t)
  PROVE  ServerInv'
<1>1. UNCHANGED <<up, now, runs, evicted, served, crowded>> /\ stack # <<>> /\ Pop
      /\ At("accepted") /\ Top.arg = t
  BY DEF TooMany, At
<1>2. row' = SetState(row, t, "failed") /\ "failed" \in Terminal
  BY DEF TooMany, Terminal
<1>3. row[t].st = "accepted"
  BY <1>1 DEF ServerInv, RowInv
<1>10. row \in Rows /\ row[t] \in Row /\ "failed" \in States
       /\ row[t].st \notin Terminal \cup {"none"}
  BY <1>3 DEF ServerInv, RowTypes, Rows, States, Terminal
<1>4. row'[t].st = "failed"
  <2>1. row'[t] = [row[t] EXCEPT !.st = "failed"]
    BY <1>2, <1>10, SetStateRows
  <2> QED BY <1>10, <2>1 DEF Row
<1>5. Tell(t, row'[t].st)
  BY <1>4 DEF TooMany
<1>6. RowTypes' /\ TellInv' /\ RunInv' /\ QuotaInv'
  BY <1>1, <1>2, <1>5, RowSettled
<1>11. \A u \in Tasks : /\ u # t => row'[u] = row[u]
                        /\ row'[u].st # "none" => row'[u].at <= now
  BY <1>1, <1>2, <1>5, RowSettled
<1>7. LoopInv' /\ ~At("accepted")'
  BY <1>1, PopLoop DEF ServerInv, At, Waits
<1>8. \A u \in Tasks : u # t => row[u].st # "accepted"
  BY <1>1 DEF ServerInv, RowInv, LoopInv
<1>9. RowInv'
  <2>1. \A u \in Tasks : row'[u].st # "accepted"
    BY <1>4, <1>11, <1>8
  <2> QED BY <1>1, <1>11, <1>7, <2>1, NoneHandled
<1> QED BY <1>6, <1>7, <1>9 DEF ServerInv

LEMMA AskReturnsRows ==
  ASSUME ServerInv, StackInv, NEW st \in {"completed", "failed"}, AskReturns(st)
  PROVE  ServerInv'
<1> DEFINE t == Top.arg
<1>1. /\ UNCHANGED <<up, now, runs, evicted, served, crowded>> /\ stack # <<>> /\ Pop
      /\ ~At("accepted") /\ Top.by = "peer" /\ Len(stack) \in DOMAIN stack
  BY DEF AskReturns, At, StackInv
<1>2. t \in Tasks /\ up
  BY <1>1 DEF ServerInv, LoopInv, Top
<1>3. row' = SetState(row, t, st) /\ st \in Terminal /\ Tell(t, row'[t].st)
  BY DEF AskReturns, Terminal
<1> HIDE DEF t
<1>6. RowTypes' /\ TellInv' /\ RunInv' /\ QuotaInv'
  BY <1>1, <1>2, <1>3, RowSettled
<1>11. \A u \in Tasks : /\ u # t => row'[u] = row[u]
                        /\ row'[u].st # "none" => row'[u].at <= now
  BY <1>1, <1>2, <1>3, RowSettled
<1>12. row'[t].st # "accepted"
  BY <1>1, <1>2, <1>3, RowSettled
<1>7. LoopInv' /\ ~At("accepted")'
  BY <1>1, PopLoop DEF ServerInv, At, Waits
<1>9. RowInv'
  <2>1. \A u \in Tasks : row[u].st # "accepted"
    BY <1>1, <1>2, NoneAccepted
  <2>2. \A u \in Tasks : row'[u].st # "accepted"
    BY <1>11, <1>12, <2>1
  <2> QED BY <1>1, <1>11, <1>7, <2>2, NoneHandled
<1> QED BY <1>6, <1>7, <1>9 DEF ServerInv

-------------------------------------------------------------------------------
(***************************************************************************)
(* The handler of a new task.                                              *)
(***************************************************************************)
\* What the eviction does to the rows, to the history and to the window.
LEMMA EvictRows ==
  ASSUME ServerInv, NEW rows \in Rows, NEW kept \in SUBSET Tasks, Evict(rows, kept)
  PROVE  /\ Without(rows, Gone(rows, kept)) \in Rows
         /\ evicted' \in [Tasks -> Nat]
         /\ \A t \in Tasks :
              \/ /\ Without(rows, Gone(rows, kept))[t] = rows[t]
                 /\ evicted'[t] = evicted[t]
              \/ /\ Without(rows, Gone(rows, kept))[t] = NoRow
                 /\ evicted'[t] = evicted[t] + 1
                 /\ rows[t].st \in Terminal
                 /\ ~crowded' => ~(rows[t].at >= now - Window)
         /\ ~crowded' => ~crowded
<1> DEFINE gone == Gone(rows, kept)
<1>1. /\ Without(rows, gone) \in Rows
      /\ \A t \in Tasks : Without(rows, gone)[t] = IF t \in gone THEN NoRow ELSE rows[t]
  BY WithoutRows
<1>2. evicted \in [Tasks -> Nat]
  BY DEF ServerInv, RowTypes
<1>3. evicted' = [t \in Tasks |-> evicted[t] + IF t \in gone THEN 1 ELSE 0]
  BY DEF Evict
<1>4. crowded' = (crowded \/ \E t \in gone : rows[t].at >= now - Window)
  BY DEF Evict
<1>5. ~crowded' => ~crowded /\ \A t \in gone : ~(rows[t].at >= now - Window)
  BY <1>4, Zenon
<1>6. \A t \in gone : t \in Tasks /\ rows[t].st \in Terminal
  BY DEF Gone
<1> HIDE DEF gone
<1>7. evicted' \in [Tasks -> Nat]
  BY <1>2, <1>3
<1>8. ASSUME NEW t \in Tasks
      PROVE  \/ /\ Without(rows, gone)[t] = rows[t]
                /\ evicted'[t] = evicted[t]
             \/ /\ Without(rows, gone)[t] = NoRow
                /\ evicted'[t] = evicted[t] + 1
                /\ rows[t].st \in Terminal
                /\ ~crowded' => ~(rows[t].at >= now - Window)
  <2>1. CASE t \in gone
    BY <1>1, <1>2, <1>3, <1>5, <1>6, <2>1
  <2>2. CASE t \notin gone
    BY <1>1, <1>2, <1>3, <2>2
  <2> QED BY <2>1, <2>2
<1> QED BY <1>1, <1>5, <1>7, <1>8 DEF gone

\* A dispatch within the quota: each run of the window is a row that was counted.
LEMMA FloodStays ==
  ASSUME ServerInv, NEW t \in Tasks, NEW e,
         row[t].st = "accepted", row[t].skill = "agent-ask", row[t].at = now,
         CountInWindow(row[t].sender, {"agent-ask"}) <= ServiceMax,
         e = [sender |-> row[t].sender, task |-> t, nth |-> runs[t], at |-> now],
         served' = served \cup {e}, UNCHANGED now, ~crowded' => ~crowded
  PROVE  FloodBound'
<1> SUFFICES ASSUME ~crowded', NEW w \in served'
             PROVE  Cardinality(WindowOf(w)') <= ServiceMax
  BY DEF FloodBound
<1> USE DEF ServerInv
<1>1. ~crowded /\ now \in Nat /\ Window \in Nat
  BY BoundsAreNat DEF RowTypes
<1>2. /\ \A f \in served : f.at \in Nat /\ f.at <= now /\ f.task \in Tasks
      /\ e.at = now /\ e.sender = row[t].sender /\ e.task = t
  BY <1>1 DEF RowTypes, QuotaInv
<1>3. WindowOf(w)' = {f \in served' : f.sender = w.sender /\ f.at \in (w.at - Window)..w.at}
  BY DEF WindowOf
<1>4. CASE w.sender = row[t].sender /\ w.at = now
  <2> DEFINE W == WindowOf(w)'
             C == {u \in Tasks : /\ row[u].st # "none"
                                 /\ row[u].sender = row[t].sender
                                 /\ row[u].skill \in {"agent-ask"}
                                 /\ row[u].at >= now - Window}
             task == [f \in W |-> f.task]
  <2>1. \A f \in W : f \in served' /\ f.sender = row[t].sender /\ f.at >= now - Window
    BY <1>1, <1>2, <1>3, <1>4
  <2>2. ASSUME NEW f \in W, f # e
        PROVE  /\ f \in served /\ Recent(f) /\ f.task # t /\ f.task \in C
    <3>1. f \in served /\ Recent(f)
      BY <2>1, <2>2 DEF Recent
    <3>2. /\ Began(f.task) /\ row[f.task].sender = f.sender
          /\ row[f.task].at = f.at /\ row[f.task].skill = "agent-ask"
      BY <1>1, <3>1 DEF QuotaInv
    <3> QED BY <1>2, <2>1, <3>1, <3>2 DEF Began, Recent
  <2>3. t \in C
    BY <1>1
  <2>4. task \in [W -> C]
    BY <1>2, <2>2, <2>3
  <2>5. ASSUME NEW f \in W, NEW g \in W, task[f] = task[g]
        PROVE  f = g
    <3>1. f.task = g.task
      BY <2>5
    <3>2. CASE f = e \/ g = e
      BY <1>2, <2>2, <3>1, <3>2
    <3>3. CASE f # e /\ g # e
      BY <1>1, <2>2, <3>1, <3>3 DEF QuotaInv
    <3> QED BY <3>2, <3>3
  <2>6. task \in Injection(W, C)
    BY <2>4, <2>5 DEF Injection, IsInjective
  <2>7. IsFiniteSet(C) /\ Cardinality(C) = CountInWindow(row[t].sender, {"agent-ask"})
    <3>1. IsFiniteSet(C)
      BY FS_Subset, ServerAssumption
    <3> QED BY <3>1 DEF CountInWindow
  <2> HIDE DEF W, C, task
  <2>8. IsFiniteSet(W) /\ Cardinality(W) <= Cardinality(C)
    BY <2>6, <2>7, FS_Injection
  <2>9. Cardinality(W) \in Nat /\ Cardinality(C) \in Nat
    BY <2>7, <2>8, FS_CardinalityType
  <2> QED BY <2>7, <2>8, <2>9, BoundsAreNat DEF W
<1>5. CASE ~(w.sender = row[t].sender /\ w.at = now)
  <2>1. w \in served
    BY <1>2, <1>5
  <2>2. e.sender = w.sender => e.at \notin (w.at - Window)..w.at
    BY <1>1, <1>2, <1>5, <2>1
  <2>3. WindowOf(w)' = WindowOf(w)
    BY <1>3, <2>2 DEF WindowOf
  <2> QED BY <1>1, <2>1, <2>3 DEF QuotaInv, FloodBound
<1> QED BY <1>4, <1>5

\* What every branch of the handler after the flood gate does: old rows go, its own gets
\* a state, which its peer is told when it is final; the skill may have been dispatched.
HandledAs(t, st, kept) ==
  /\ At("accepted") /\ Top.arg = t
  /\ Evict(row, kept)
  /\ row' = [Without(row, Gone(row, kept)) EXCEPT ![t].st = st]
  /\ answers' = [answers EXCEPT ![t] = @ \cup ({st} \cap Terminal)]
  /\ Pop \/ Become(Frame("asking", t, "peer"))
  /\ UNCHANGED <<now, up>>
  /\ \/ UNCHANGED <<runs, served>>
     \/ /\ row[t].skill = "agent-ask"
        /\ CountInWindow(row[t].sender, {"agent-ask"}) <= ServiceMax
        /\ runs' = [runs EXCEPT ![t] = @ + 1]
        /\ served' = served \cup {[sender |-> row[t].sender, task |-> t, nth |-> runs[t],
                                   at |-> now]}

LEMMA HandledRows ==
  ASSUME ServerInv, StackInv, NEW t \in Tasks, NEW kept \in SUBSET Tasks,
         NEW st \in {"completed", "failed", "working", "input-required"},
         HandledAs(t, st, kept)
  PROVE  ServerInv'
<1> DEFINE left == Without(row, Gone(row, kept))
           e == [sender |-> row[t].sender, task |-> t, nth |-> runs[t], at |-> now]
<1> USE DEF ServerInv
<1>1. /\ At("accepted") /\ Top.arg = t /\ stack # <<>> /\ up
      /\ Evict(row, kept) /\ UNCHANGED <<now, up>>
      /\ row' = [left EXCEPT ![t].st = st]
      /\ answers' = [answers EXCEPT ![t] = @ \cup ({st} \cap Terminal)]
      /\ Pop \/ Become(Frame("asking", t, "peer"))
  BY DEF HandledAs, At, LoopInv
<1>2. /\ row[t].st = "accepted" /\ row[t].at = now
      /\ \A u \in Tasks : u # t => row[u].st # "accepted"
  BY <1>1 DEF RowInv
<1>3. row \in Rows /\ row[t] \in Row /\ now \in 0..MaxTime
  BY DEF RowTypes, Rows
<1>4. /\ left \in Rows /\ evicted' \in [Tasks -> Nat]
      /\ \A u \in Tasks :
           \/ /\ left[u] = row[u]
              /\ evicted'[u] = evicted[u]
           \/ /\ left[u] = NoRow
              /\ evicted'[u] = evicted[u] + 1
              /\ row[u].st \in Terminal
              /\ ~crowded' => ~(row[u].at >= now - Window)
      /\ ~crowded' => ~crowded
  BY <1>1, <1>3, EvictRows
<1>5. left[t] = row[t] /\ evicted'[t] = evicted[t]
  BY <1>2, <1>4 DEF Terminal
<1> HIDE DEF left
<1>6. /\ row' \in Rows
      /\ row'[t] = [row[t] EXCEPT !.st = st]
      /\ \A u \in Tasks : u # t => row'[u] = left[u]
  <2>1. row' = [left EXCEPT ![t] = [row[t] EXCEPT !.st = st]]
    BY <1>1, <1>4, <1>5 DEF Rows
  <2>2. [row[t] EXCEPT !.st = st] \in Row
    BY <1>3 DEF Row, States, Terminal
  <2> QED BY <1>4, <2>1, <2>2 DEF Rows
<1>7. /\ row'[t].st = st /\ row'[t].sender = row[t].sender /\ row'[t].at = now
      /\ row'[t].skill = row[t].skill
  BY <1>2, <1>3, <1>6 DEF Row
<1>8. \A u \in Tasks : u # t => row'[u].st # "accepted"
  BY <1>2, <1>4, <1>6 DEF NoRow
<1>9. /\ answers' \in [Tasks -> SUBSET Terminal]
      /\ \A u \in Tasks : u # t => answers'[u] = answers[u]
      /\ answers'[t] = answers[t] \cup ({st} \cap Terminal)
  BY <1>1 DEF RowTypes
<1>10. /\ runs' \in [Tasks -> Nat]
       /\ runs[t] \in Nat /\ runs'[t] \in Nat /\ runs'[t] <= runs[t] + 1 /\ runs[t] <= runs'[t]
       /\ \A u \in Tasks : u # t => runs'[u] = runs[u]
  BY DEF HandledAs, RowTypes
<1>11. \/ UNCHANGED <<runs, served>>
       \/ /\ row[t].skill = "agent-ask"
          /\ CountInWindow(row[t].sender, {"agent-ask"}) <= ServiceMax
          /\ runs'[t] = runs[t] + 1
          /\ served' = served \cup {e}
  BY DEF HandledAs, RowTypes
<1>12. RowTypes'
  <2>1. e \in [sender : Senders \cup {None}, task : Tasks, nth : Nat, at : 0..MaxTime]
    BY <1>3, <1>10 DEF Row
  <2>2. served' \subseteq [sender : Senders \cup {None}, task : Tasks, nth : Nat, at : 0..MaxTime]
    BY <1>11, <2>1 DEF RowTypes
  <2> QED BY <1>1, <1>3, <1>4, <1>6, <1>9, <1>10, <2>2 DEF RowTypes
<1>13. LoopInv' /\ RowInv'
  <2>1. LoopInv' /\ ~At("accepted")'
    <3>1. CASE Pop
      BY <1>1, <3>1, PopLoop DEF At, Waits
    <3>2. CASE Become(Frame("asking", t, "peer"))
      <4> DEFINE f == Frame("asking", t, "peer")
      <4>1. Sound(f) /\ f.pc = "asking"
        BY DEF Sound, Frame, Activations
      <4>2. LoopInv' /\ stack' # <<>> /\ Top' = f
        BY <1>1, <3>2, <4>1, BecomeLoop
      <4> QED BY <4>1, <4>2 DEF At
    <3> QED BY <1>1, <3>1, <3>2
  <2>2. \A u \in Tasks : row'[u].st # "none" => row'[u].at <= now
    <3>1. now <= now
      BY <1>3, BoundsAreNat
    <3>2. ASSUME NEW u \in Tasks, u # t, row'[u].st # "none"
          PROVE  row'[u].at <= now
      <4>1. row'[u] = row[u]
        BY <1>4, <1>6, <3>2 DEF NoRow
      <4> QED BY <3>2, <4>1 DEF RowInv
    <3> QED BY <1>7, <3>1, <3>2
  <2>3. \A u \in Tasks : row'[u].st # "accepted"
    BY <1>7, <1>8
  <2>4. RowInv'
    BY <1>1, <2>1, <2>2, <2>3, NoneHandled
  <2> QED BY <2>1, <2>4
<1>14. TellInv'
  <2>1. answers[t] = {}
    BY <1>2, <1>3 DEF TellInv, RowTypes, Terminal
  <2>2. /\ answers'[t] \subseteq {row'[t].st}
        /\ \E x \in Terminal : answers'[t] \subseteq {x}
    BY <1>7, <1>9, <2>1 DEF Terminal
  <2>3. ASSUME NEW u \in Tasks, u # t
        PROVE  /\ row'[u].st # "none" => answers'[u] \subseteq {row'[u].st}
               /\ \E x \in Terminal : answers'[u] \subseteq {x}
    BY <1>4, <1>6, <1>9, <2>3 DEF TellInv, NoRow
  <2> QED BY <2>2, <2>3 DEF TellInv
<1>15. RunInv'
  <2>1. runs'[t] <= evicted'[t] + 1 /\ Began(t)'
    BY <1>2, <1>3, <1>4, <1>5, <1>7, <1>10 DEF RunInv, Began, RowTypes
  <2>2. ASSUME NEW u \in Tasks, u # t
        PROVE  runs'[u] <= evicted'[u] + IF Began(u)' THEN 1 ELSE 0
    <3>1. runs[u] \in Nat /\ evicted[u] \in Nat
          /\ runs[u] <= evicted[u] + IF Began(u) THEN 1 ELSE 0
      BY DEF RunInv, RowTypes
    <3>2. CASE row'[u] = row[u] /\ evicted'[u] = evicted[u]
      BY <1>10, <2>2, <3>1, <3>2 DEF Began
    <3>3. CASE row'[u] = NoRow /\ evicted'[u] = evicted[u] + 1
      BY <1>10, <2>2, <3>1, <3>3 DEF Began, NoRow
    <3> QED BY <1>4, <1>6, <2>2, <3>2, <3>3
  <2> QED BY <2>1, <2>2 DEF RunInv
<1>16. QuotaInv'
  <2>1. FloodBound'
    <3>1. CASE UNCHANGED <<runs, served>>
      BY <1>4, <3>1 DEF QuotaInv, FloodBound, WindowOf
    <3>2. CASE served' = served \cup {e} /\ row[t].skill = "agent-ask"
               /\ CountInWindow(row[t].sender, {"agent-ask"}) <= ServiceMax
      BY <1>1, <1>2, <1>4, <3>2, FloodStays
    <3> QED BY <1>11, <3>1, <3>2
  <2>2. \A f \in served : f.task \in Tasks /\ f.at \in Nat /\ f.nth \in Nat
    BY BoundsAreNat DEF RowTypes
  <2>3. \A f \in served' : f \in served \/ (f = e /\ runs'[t] = runs[t] + 1
                                           /\ row[t].skill = "agent-ask")
    BY <1>11
  <2>4. \A f \in served' : f.nth < runs'[f.task] /\ f.at <= now
    <3>1. \A f \in served : runs[f.task] <= runs'[f.task] /\ runs[f.task] \in Nat
          /\ runs'[f.task] \in Nat
      BY <1>10, <2>2 DEF RowTypes
    <3>2. \A f \in served : f.nth < runs[f.task] /\ f.at <= now
      BY DEF QuotaInv
    <3>3. e.nth = runs[t] /\ e.task = t /\ e.at = now /\ now \in Nat
      BY <1>3, BoundsAreNat
    <3> QED BY <1>10, <2>2, <2>3, <3>1, <3>2, <3>3
  <2>5. ASSUME ~crowded'
        PROVE  /\ \A f \in served' : Recent(f) =>
                    /\ Began(f.task)' /\ row'[f.task].sender = f.sender
                    /\ row'[f.task].at = f.at /\ row'[f.task].skill = "agent-ask"
               /\ \A f, g \in served' : Recent(f) /\ Recent(g) /\ f.task = g.task => f = g
    <3>1. ASSUME NEW f \in served, Recent(f)
          PROVE  /\ f.task # t /\ Began(f.task)' /\ row'[f.task].sender = f.sender
                 /\ row'[f.task].at = f.at /\ row'[f.task].skill = "agent-ask"
      <4>1. /\ Began(f.task) /\ row[f.task].sender = f.sender
            /\ row[f.task].at = f.at /\ row[f.task].skill = "agent-ask"
        BY <1>4, <2>5, <3>1 DEF QuotaInv
      <4>2. f.task # t
        BY <1>2, <4>1 DEF Began
      <4>3. row'[f.task] = row[f.task]
        BY <1>4, <1>6, <2>2, <2>5, <3>1, <4>1, <4>2 DEF Recent
      <4> QED BY <4>1, <4>2, <4>3 DEF Began
    <3>2. ASSUME NEW f \in served', f = e, runs'[t] = runs[t] + 1, row[t].skill = "agent-ask"
          PROVE  /\ f.task = t /\ Began(f.task)' /\ row'[f.task].sender = f.sender
                 /\ row'[f.task].at = f.at /\ row'[f.task].skill = "agent-ask"
      BY <1>7, <3>2 DEF Began
    <3>3. \A f, g \in served : Recent(f) /\ Recent(g) /\ f.task = g.task => f = g
      BY <1>4, <2>5 DEF QuotaInv
    <3> HIDE DEF e
    <3>4. \A f \in served' : Recent(f) =>
             /\ Began(f.task)' /\ row'[f.task].sender = f.sender
             /\ row'[f.task].at = f.at /\ row'[f.task].skill = "agent-ask"
      BY <2>3, <3>1, <3>2
    <3>5. \A f, g \in served' : Recent(f) /\ Recent(g) /\ f.task = g.task => f = g
      BY <2>3, <3>1, <3>2, <3>3
    <3> QED BY <3>4, <3>5
  <2> QED BY <1>1, <2>1, <2>4, <2>5 DEF QuotaInv, Recent
<1> QED BY <1>12, <1>13, <1>14, <1>15, <1>16

LEMMA HandlerRows ==
  ASSUME ServerInv, StackInv, Handler
  PROVE  ServerInv'
<1>1. PICK t \in Tasks : \/ TooMany(t)
                         \/ \E kept \in SUBSET Tasks :
                              \/ AnswerPing(t, kept) \/ RefuseAsk(t, kept)
                              \/ Unsupported(t, kept) \/ ParkForOwner(t, kept)
                              \/ AskStarts(t, kept) \/ AskRefused(t, kept)
  BY DEF Handler
<1>2. CASE TooMany(t)
  BY <1>2, TooManyRows
<1>3. ASSUME NEW kept \in SUBSET Tasks,
             \/ AnswerPing(t, kept) \/ RefuseAsk(t, kept)
             \/ Unsupported(t, kept) \/ ParkForOwner(t, kept)
             \/ AskStarts(t, kept) \/ AskRefused(t, kept)
      PROVE  ServerInv'
  <2> DEFINE left == Without(row, Gone(row, kept))
  <2>1. At("accepted") /\ Top.arg = t
    BY <1>3 DEF AnswerPing, RefuseAsk, Unsupported, ParkForOwner, AskStarts, AskRefused,
       Dispatched, Admitted
  <2>2. Evict(row, kept) /\ UNCHANGED <<now, up>>
    BY <1>3 DEF AnswerPing, RefuseAsk, Unsupported, ParkForOwner, AskStarts, AskRefused,
       Dispatched, EndsAtOnce
  <2>3. row \in Rows /\ row[t].st = "accepted" /\ answers \in [Tasks -> SUBSET Terminal]
    BY <2>1 DEF ServerInv, RowInv, RowTypes
  <2>4. left[t].st = "accepted"
    BY <2>2, <2>3, EvictRows DEF Terminal
  <2>5. \A st : SetState(left, t, st) = [left EXCEPT ![t].st = st]
    BY <2>4 DEF SetState, Terminal
  <2>6. answers = [answers EXCEPT ![t] = @ \cup ({"input-required"} \cap Terminal)]
    BY <2>3 DEF Terminal
  <2>7. answers = [answers EXCEPT ![t] = @ \cup ({"working"} \cap Terminal)]
    BY <2>3 DEF Terminal
  <2> HIDE DEF left
  <2>8. ASSUME NEW st \in {"completed", "failed"}, EndsAtOnce(t, st, kept)
        PROVE  ServerInv'
    <3>1. HandledAs(t, st, kept)
      <4>1. row' = [left EXCEPT ![t].st = st]
        BY <2>5, <2>8 DEF EndsAtOnce, left
      <4> QED BY <2>1, <2>2, <2>8, <4>1 DEF EndsAtOnce, HandledAs, Tell, left
    <3> QED BY <3>1, HandledRows
  <2>9. CASE ParkForOwner(t, kept)
    <3>1. HandledAs(t, "input-required", kept)
      BY <2>1, <2>2, <2>6, <2>9 DEF ParkForOwner, HandledAs, left
    <3> QED BY <3>1, HandledRows
  <2>10. CASE AskStarts(t, kept)
    <3>1. HandledAs(t, "working", kept)
      <4>1. row' = [left EXCEPT ![t].st = "working"] /\ UNCHANGED answers
            /\ Become(Frame("asking", t, "peer")) /\ row[t].skill = "agent-ask"
        BY <2>5, <2>10 DEF AskStarts, Dispatched, Admitted, left
      <4> QED BY <2>1, <2>2, <2>7, <2>10, <4>1 DEF AskStarts, Dispatched, HandledAs, left
    <3> QED BY <3>1, HandledRows
  <2>11. CASE AskRefused(t, kept)
    <3>1. HandledAs(t, "failed", kept)
      <4>1. row' = [left EXCEPT ![t].st = "failed"] /\ Pop /\ row[t].skill = "agent-ask"
        BY <2>5, <2>11 DEF AskRefused, Dispatched, Admitted, left
      <4> QED BY <2>1, <2>2, <2>11, <4>1 DEF AskRefused, Dispatched, HandledAs, Tell, left
    <3> QED BY <3>1, HandledRows
  <2> QED BY <1>3, <2>8, <2>9, <2>10, <2>11 DEF AnswerPing, RefuseAsk, Unsupported
<1> QED BY <1>1, <1>2, <1>3

\* The clock stands still while a new task is handled.
LEMMA TickRows ==
  ASSUME ServerInv, Tick
  PROVE  ServerInv'
<1> USE DEF ServerInv
<1>1. /\ UNCHANGED <<row, stack, up, runs, evicted, served, crowded, answers>>
      /\ now' = now + 1 /\ now < MaxTime /\ ~At("accepted")
  BY DEF Tick, history, Parked, At, Waits
<1>2. now \in Nat /\ MaxTime \in Nat /\ Window \in Nat
  BY BoundsAreNat DEF RowTypes
<1>3. RowTypes' /\ LoopInv' /\ TellInv' /\ RunInv'
  BY <1>1, <1>2 DEF RowTypes, LoopInv, TellInv, RunInv, Began
<1>4. RowInv'
  <2>1. \A t \in Tasks : row[t].at \in Nat
    BY <1>2 DEF RowTypes, Rows, Row
  <2>2. \A t \in Tasks : row'[t].st # "none" => row'[t].at <= now'
    BY <1>1, <1>2, <2>1 DEF RowInv
  <2>3. ~At("accepted")'
    BY <1>1 DEF At, Top
  <2>4. \A t \in Tasks : row'[t].st = "accepted" => ~up'
    BY <1>1 DEF RowInv
  <2> QED BY <2>2, <2>3, <2>4 DEF RowInv
<1>5. QuotaInv'
  <2>1. \A e \in served : e.at \in Nat
    BY <1>2 DEF RowTypes
  <2>2. \A e \in served : (Recent(e))' => Recent(e)
    BY <1>1, <1>2, <2>1 DEF Recent
  <2>3. FloodBound'
    BY <1>1 DEF QuotaInv, FloodBound, WindowOf
  <2>4. \A e \in served : e.nth < runs[e.task] /\ e.at <= now'
    BY <1>1, <1>2, <2>1 DEF QuotaInv
  <2> QED BY <1>1, <2>2, <2>3, <2>4 DEF QuotaInv, Began
<1> QED BY <1>3, <1>4, <1>5

\* What recovery makes of a row has begun if it is there at all.
LEMMA BootRows ==
  ASSUME ServerInv, Boot
  PROVE  ServerInv'
<1> USE DEF ServerInv
<1>1. PICK kept \in SUBSET Tasks : Restart(kept)
  BY DEF Boot
<1>2. /\ UNCHANGED <<stack, now, runs, served, answers>> /\ ~up /\ up'
      /\ Evict(Recovered, kept)
      /\ row' = Without(Recovered, Gone(Recovered, kept))
  BY <1>1 DEF Restart
<1>3. stack = <<>> /\ ~At("accepted") /\ ~At("accepted")' /\ row \in Rows
  BY <1>2 DEF LoopInv, At, RowTypes
<1>4. /\ Recovered \in Rows
      /\ \A t \in Tasks :
           /\ Recovered[t].sender = row[t].sender /\ Recovered[t].at = row[t].at
           /\ Recovered[t].skill = row[t].skill
           /\ Recovered[t].st # "accepted"
           /\ \/ Recovered[t].st = row[t].st
              \/ Recovered[t].st = "failed" /\ row[t].st \in {"accepted", "working"}
  <2>1. ASSUME NEW t \in Tasks
        PROVE  /\ Recovered[t] \in Row
               /\ Recovered[t].sender = row[t].sender /\ Recovered[t].at = row[t].at
               /\ Recovered[t].skill = row[t].skill
               /\ Recovered[t].st # "accepted"
               /\ \/ Recovered[t].st = row[t].st
                  \/ Recovered[t].st = "failed" /\ row[t].st \in {"accepted", "working"}
    <3>1. row[t] \in Row
      BY <1>3 DEF Rows
    <3>2. Recovered[t] = IF row[t].st \in {"accepted", "working"}
                         THEN [row[t] EXCEPT !.st = "failed"] ELSE row[t]
      BY DEF Recovered
    <3>3. CASE row[t].st \in {"accepted", "working"}
      BY <3>1, <3>2, <3>3 DEF Row, States, Terminal
    <3>4. CASE row[t].st \notin {"accepted", "working"}
      BY <3>1, <3>2, <3>4
    <3> QED BY <3>3, <3>4
  <2>2. Recovered \in Rows
    <3>1. Recovered = [t \in Tasks |-> Recovered[t]]
      BY DEF Recovered
    <3> QED BY <2>1, <3>1 DEF Rows
  <2> QED BY <2>1, <2>2
<1>5. /\ row' \in Rows /\ evicted' \in [Tasks -> Nat]
      /\ \A t \in Tasks :
           \/ /\ row'[t] = Recovered[t]
              /\ evicted'[t] = evicted[t]
           \/ /\ row'[t] = NoRow
              /\ evicted'[t] = evicted[t] + 1
              /\ Recovered[t].st \in Terminal
              /\ ~crowded' => ~(Recovered[t].at >= now - Window)
      /\ ~crowded' => ~crowded
  BY <1>2, <1>4, EvictRows
<1>6. RowTypes' /\ LoopInv'
  BY <1>2, <1>3, <1>5 DEF RowTypes, LoopInv
<1>7. RowInv'
  <2>1. \A t \in Tasks : row'[t].st # "accepted"
    BY <1>4, <1>5 DEF NoRow
  <2>2. \A t \in Tasks : row'[t].st # "none" => row'[t].at <= now
    <3> SUFFICES ASSUME NEW t \in Tasks, row'[t].st # "none"
                 PROVE  row'[t].at <= now
      OBVIOUS
    <3>1. row'[t].at = row[t].at /\ row[t].st # "none"
      BY <1>4, <1>5 DEF NoRow
    <3> QED BY <3>1 DEF RowInv
  <2> QED BY <1>2, <1>3, <2>1, <2>2, NoneHandled
<1>8. TellInv'
  <2>1. ASSUME NEW t \in Tasks, row'[t].st # "none"
        PROVE  answers[t] \subseteq {row'[t].st}
    <3>1. row'[t].st = row[t].st \/ row[t].st \in {"accepted", "working"}
      BY <1>4, <1>5, <2>1 DEF NoRow
    <3>2. answers[t] \subseteq Terminal /\ (row[t].st # "none" => answers[t] \subseteq {row[t].st})
      BY DEF RowTypes, TellInv
    <3>3. CASE row[t].st \in {"accepted", "working"}
      BY <3>2, <3>3 DEF Terminal
    <3>4. CASE row'[t].st = row[t].st
      BY <2>1, <3>2, <3>4
    <3> QED BY <3>1, <3>3, <3>4
  <2> QED BY <1>2, <2>1 DEF TellInv
<1>9. RunInv'
  <2>1. ASSUME NEW t \in Tasks
        PROVE  runs[t] <= evicted'[t] + IF Began(t)' THEN 1 ELSE 0
    <3>1. runs[t] \in Nat /\ evicted[t] \in Nat
          /\ runs[t] <= evicted[t] + IF Began(t) THEN 1 ELSE 0
      BY DEF RunInv, RowTypes
    <3>2. CASE row'[t] = Recovered[t] /\ evicted'[t] = evicted[t]
      <4>1. Began(t) => Began(t)'
        BY <1>4, <3>2 DEF Began
      <4> QED BY <3>1, <3>2, <4>1
    <3>3. CASE row'[t] = NoRow /\ evicted'[t] = evicted[t] + 1
      BY <3>1, <3>3 DEF Began, NoRow
    <3> QED BY <1>5, <3>2, <3>3
  <2> QED BY <1>2, <2>1 DEF RunInv
<1>10. QuotaInv'
  <2>1. FloodBound'
    BY <1>2, <1>5 DEF QuotaInv, FloodBound, WindowOf
  <2>2. ASSUME ~crowded', NEW e \in served, Recent(e)
        PROVE  /\ Began(e.task)' /\ row'[e.task].sender = e.sender
               /\ row'[e.task].at = e.at /\ row'[e.task].skill = "agent-ask"
    <3>1. /\ Began(e.task) /\ row[e.task].sender = e.sender /\ e.task \in Tasks
          /\ row[e.task].at = e.at /\ row[e.task].skill = "agent-ask"
      BY <1>5, <2>2 DEF QuotaInv, RowTypes
    <3>2. row'[e.task] = Recovered[e.task]
      BY <1>4, <1>5, <2>2, <3>1 DEF Recent
    <3> QED BY <1>4, <3>1, <3>2 DEF Began
  <2>3. /\ \A e \in served : e.nth < runs[e.task] /\ e.at <= now
        /\ ~crowded' => \A e, f \in served : Recent(e) /\ Recent(f) /\ e.task = f.task => e = f
    BY <1>5 DEF QuotaInv
  <2> QED BY <1>2, <2>1, <2>2, <2>3 DEF QuotaInv, Recent
<1> QED BY <1>6, <1>7, <1>8, <1>9, <1>10

LEMMA CrashRows ==
  ASSUME ServerInv, Crash
  PROVE  ServerInv'
<1> USE DEF ServerInv
<1>1. /\ UNCHANGED <<row, now, runs, evicted, served, crowded, answers>>
      /\ stack' = <<>> /\ ~up'
  BY DEF Crash, Dies, history
<1>2. RowTypes' /\ TellInv' /\ RunInv'
  BY <1>1 DEF RowTypes, TellInv, RunInv, Began
<1>3. LoopInv'
  BY <1>1, LoopAssumption DEF LoopInv
<1>4. RowInv'
  BY <1>1 DEF RowInv, At
<1>5. QuotaInv'
  BY <1>1 DEF QuotaInv, Recent, Began, FloodBound, WindowOf
<1> QED BY <1>2, <1>3, <1>4, <1>5

\* The owner's side and the local client: activations that handle no task of a peer.
LEMMA OthersRows ==
  ASSUME ServerInv, StackInv, QueueInv,
         \/ ClientAsks \/ ClientAnswered \/ OwnerRequest \/ Drain
         \/ \E ok \in BOOLEAN : TurnEnds(ok)
  PROVE  ServerInv'
<1> USE DEF ServerInv
<1>1. UNCHANGED <<row, up, now, history>>
  BY DEF ClientAsks, ClientAnswered, OwnerRequest, SignedArrives, PlainArrives, BindOwner,
     ClientChats, Drain, DrainFires, TakeNext, Answered, DrainEnds, TurnEnds
<1>2. ~At("accepted")
  BY DEF ClientAsks, ClientAnswered, OwnerRequest, SignedArrives, PlainArrives, BindOwner,
     ClientChats, Drain, DrainFires, TakeNext, Answered, DrainEnds, TurnEnds,
     Served, Parked, At, Waits
<1>3. CASE UNCHANGED stack
  BY <1>1, <1>2, <1>3, RowsRest DEF LoopInv, At, Top
<1>4. ASSUME Pop, stack # <<>>
      PROVE  ServerInv'
  <2>1. LoopInv' /\ ~At("accepted")'
    BY <1>1, <1>4, PopLoop DEF At, Waits
  <2> QED BY <1>1, <1>2, <2>1, RowsRest
<1>5. ASSUME NEW f, Sound(f), f.pc # "accepted", Served, Push(f)
      PROVE  ServerInv'
  <2>1. LoopInv' /\ ~At("accepted")'
    BY <1>1, <1>5, PushLoop DEF At
  <2> QED BY <1>1, <1>2, <2>1, RowsRest
<1>6. ASSUME NEW f, Sound(f), f.pc # "accepted", Become(f), stack # <<>>
      PROVE  ServerInv'
  <2>1. LoopInv' /\ ~At("accepted")'
    BY <1>1, <1>6, BecomeLoop DEF At
  <2> QED BY <1>1, <1>2, <2>1, RowsRest
<1>7. CASE ClientAsks
  <2>1. Sound(Frame("asking", None, "client")) /\ Frame("asking", None, "client").pc # "accepted"
    BY DEF Sound, Frame, Activations
  <2> QED BY <1>5, <1>7, <2>1 DEF ClientAsks
<1>8. CASE ClientAnswered
  BY <1>4, <1>8 DEF ClientAnswered, At
<1>9. CASE OwnerRequest
  <2>1. CASE ClientChats
    <3>1. Sound(Frame("thinking", ByClient, "client"))
          /\ Frame("thinking", ByClient, "client").pc # "accepted"
      BY DEF Sound, Frame, Activations
    <3> QED BY <1>5, <2>1, <3>1 DEF ClientChats
  <2>2. CASE ~ClientChats
    BY <1>3, <1>9, <2>2 DEF OwnerRequest, SignedArrives, PlainArrives, BindOwner
  <2> QED BY <2>1, <2>2
<1>10. CASE Drain
  <2> DEFINE next == Frame("next", None, "owner")
  <2>1. Sound(next) /\ next.pc # "accepted"
    BY DEF Sound, Frame, Activations
  <2>2. CASE DrainFires
    BY <1>5, <2>1, <2>2 DEF DrainFires
  <2>3. ASSUME NEW pc \in {"thinking", "answering"}, TakeNext(pc)
        PROVE  ServerInv'
    <3> DEFINE f == Frame(pc, Head(queue), "owner")
    <3>1. Head(queue) \in Message /\ Become(f) /\ stack # <<>>
      BY <2>3 DEF TakeNext, QueueInv, At
    <3>2. Sound(f) /\ f.pc # "accepted"
      BY <3>1 DEF Sound, Frame, Activations
    <3> QED BY <1>6, <3>1, <3>2
  <2>4. CASE Answered
    BY <1>6, <2>1, <2>4 DEF Answered, At
  <2>5. CASE DrainEnds
    BY <1>4, <2>5 DEF DrainEnds, At
  <2> QED BY <1>10, <2>2, <2>3, <2>4, <2>5 DEF Drain
<1>11. ASSUME NEW ok \in BOOLEAN, TurnEnds(ok)
       PROVE  ServerInv'
  <2> DEFINE f == [Top EXCEPT !.pc = "answering"]
  <2>1. stack # <<>> /\ At("thinking") /\ (Pop \/ (Top.by = "owner" /\ Become(f)))
    BY <1>11 DEF TurnEnds, At
  <2>2. CASE Pop
    BY <1>4, <2>1, <2>2
  <2>3. CASE Top.by = "owner" /\ Become(f)
    <3>1. Top \in Activations
      BY <2>1 DEF StackInv, Top
    <3>2. Sound(f) /\ f.pc # "accepted"
      BY <2>3, <3>1 DEF Sound, Activations
    <3> QED BY <1>6, <2>1, <2>3, <3>2
  <2> QED BY <2>1, <2>2, <2>3
<1> QED BY <1>7, <1>8, <1>9, <1>10, <1>11

LEMMA PeerRows ==
  ASSUME ServerInv, StackInv, PeerRequest
  PROVE  ServerInv'
BY SendRows, AgainRows, CancelRows DEF PeerRequest

\* The inductive invariant of the server side, on top of ServiceInv.
THEOREM ServerInvariant == ServiceSpec => []ServerInv
<1>1. ServiceInit => ServerInv
  <2> SUFFICES ASSUME ServiceInit
               PROVE  ServerInv
    OBVIOUS
  <2> USE DEF ServiceInit, ServerInit
  <2>1. RowTypes
    <3>1. NoRow \in Row /\ 0 \in 0..MaxTime
      BY BoundsAreNat DEF NoRow, Row, States, Skills, Terminal
    <3> QED BY <3>1 DEF RowTypes, Rows
  <2>2. LoopInv
    BY LoopAssumption DEF LoopInv
  <2>3. RowInv
    BY DEF RowInv, At, NoRow
  <2>4. TellInv /\ RunInv
    BY DEF TellInv, RunInv, Terminal, NoRow, Began
  <2>5. QuotaInv
    BY DEF QuotaInv, FloodBound
  <2> QED BY <2>1, <2>2, <2>3, <2>4, <2>5 DEF ServerInv
<1>2. ServiceInv /\ ServerInv /\ [ServiceNext]_serviceVars => ServerInv'
  <2> SUFFICES ASSUME ServiceInv, ServerInv, [ServiceNext]_serviceVars
               PROVE  ServerInv'
    OBVIOUS
  <2>1. StackInv /\ QueueInv
    BY DEF ServiceInv
  <2>2. CASE ServerNext
    <3>1. CASE LlmReturns
      BY <2>1, <3>1, AskReturnsRows, OthersRows DEF LlmReturns
    <3> QED BY <2>1, <2>2, <3>1, PeerRows, HandlerRows, TickRows, OthersRows DEF ServerNext
  <2>3. CASE UNCHANGED serviceVars
    <3>1. UNCHANGED <<row, up, now, stack, runs, evicted, served, crowded, answers>>
      BY <2>3 DEF serviceVars, serverVars
    <3>2. RowTypes' /\ LoopInv' /\ RowInv'
      BY <3>1 DEF ServerInv, RowTypes, LoopInv, RowInv, At, Top
    <3>3. TellInv' /\ RunInv' /\ QuotaInv'
      BY <3>1 DEF ServerInv, TellInv, RunInv, QuotaInv, Recent, Began, FloodBound, WindowOf
    <3> QED BY <3>2, <3>3 DEF ServerInv
  <2>4. CASE Crash \/ Boot
    BY <2>4, CrashRows, BootRows
  <2>5. CASE OwnerRequest \/ Drain \/ \E ok \in BOOLEAN : TurnEnds(ok)
    BY <2>1, <2>5, OthersRows
  <2> QED BY <2>2, <2>3, <2>4, <2>5 DEF ServiceNext
<1> QED BY <1>1, <1>2, ServiceInvariant, PTL DEF ServiceSpec

\* A peer never hears two different final answers for one task: a result that comes
\* after a cancel is neither stored nor told (inboundTaskSetState, processInboundRequest).
THEOREM AnswersNeverConflict == ServiceSpec => []AnswersAgree
<1>1. ASSUME ServerInv, NEW t \in Tasks
      PROVE  Cardinality(answers[t]) <= 1
  <2>1. PICK st \in Terminal : answers[t] \subseteq {st}
    BY <1>1 DEF ServerInv, TellInv
  <2>2. IsFiniteSet({st}) /\ Cardinality({st}) = 1
    BY FS_Singleton
  <2>3. Cardinality(answers[t]) <= Cardinality({st})
    BY <2>1, <2>2, FS_Subset
  <2> QED BY <2>2, <2>3
<1>2. ServerInv => AnswersAgree
  BY <1>1 DEF AnswersAgree
<1> QED BY <1>2, ServerInvariant, PTL

\* A billable skill runs again for the same task only after its row was evicted, across
\* redeliveries, nested requests and restarts (tasks/send, a2aEvictOldInboundTasks).
THEOREM RerunsFollowEvictions == ServiceSpec => []RerunOnlyAfterEviction
<1>1. ASSUME ServerInv, NEW t \in Tasks
      PROVE  runs[t] <= 1 + evicted[t]
  BY <1>1 DEF ServerInv, RunInv, RowTypes
<1>2. ServerInv => RerunOnlyAfterEviction
  BY <1>1 DEF RerunOnlyAfterEviction
<1> QED BY <1>2, ServerInvariant, PTL

\* The completions run for a stranger in a window stay within the quota, whatever is
\* evicted, redelivered or restarted, unless the row cap ate rows of the window itself
\* (a2aRecentSkillCount).
THEOREM QuotaHolds == ServiceSpec => []FloodBound
<1>1. ServerInv => FloodBound
  BY DEF ServerInv, QuotaInv
<1> QED BY <1>1, ServerInvariant, PTL
===============================================================================
