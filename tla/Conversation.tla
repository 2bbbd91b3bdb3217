---------------------------- MODULE Conversation ----------------------------
(***************************************************************************)
(* The owner's side of the same event loop: authentication of owner        *)
(* messages (verifyOwnerMessage), their queue and its drain, the language  *)
(* model's conversation (processOwnerMessage) and its history, all in      *)
(* pilot_impl.cpp.  InboundServer is the other user of the loop and of the *)
(* in-flight counter.                                                      *)
(*                                                                         *)
(* A message of the owner is a record: the key it is signed with (None     *)
(* when it is plain text) and its nonce; 0 stands for one that is missing. *)
(***************************************************************************)
EXTENDS InboundServer, SequencesExt

CONSTANTS
  OwnerKeys,       \* keys that sign messages on the owner channel
  MaxNonce,        \* bound: nonces
  HistoryCap       \* the 40 entries of chatHistory_

ASSUME ConversationAssumption ==
  /\ None \notin OwnerKeys
  /\ MaxNonce \in Nat /\ HistoryCap \in Nat \ {0}

VARIABLES
  bound,           \* owner.npk is set
  ownerPin,        \* config owner.signing_key
  lastNonce,       \* config owner.last_nonce
  queue,           \* ownerQueue_
  draining,        \* ownerDraining_
  timer,           \* a singleShot(0) is armed
  chat,            \* chatHistory_
  accepted,        \* history: signed messages accepted, how often
  order            \* history: messages taken in and not answered, in order

ownerVars == <<bound, ownerPin, lastNonce, queue, draining, timer, chat, accepted, order>>
serviceVars == <<serverVars, ownerVars>>

Message == [key : OwnerKeys, nonce : 0..MaxNonce] \cup {[key |-> None, nonce |-> 0]}
ByClient == [key |-> None, nonce |-> -1]    \* a text the local client passes in

ConversationTypeOK ==
  /\ ServerTypeOK
  /\ bound \in BOOLEAN /\ draining \in BOOLEAN /\ timer \in BOOLEAN
  /\ ownerPin \in OwnerKeys \cup {None} /\ lastNonce \in 0..MaxNonce
  /\ queue \in Seq(Message) /\ order \in Seq(Message)
  /\ Len(chat) <= HistoryCap

ServiceInit ==
  /\ ServerInit
  /\ bound \in BOOLEAN
  /\ ownerPin = None /\ lastNonce = 0
  /\ queue = <<>> /\ draining = FALSE /\ timer = FALSE
  /\ chat = <<>>
  /\ accepted = [m \in Message |-> 0]
  /\ order = <<>>

-------------------------------------------------------------------------------
(***************************************************************************)
(* Arrival.                                                                *)
(***************************************************************************)
\* Mutant: a second drain is armed while the first one waits.
EnqueueAlwaysArmed(m) ==
  /\ queue' = Append(queue, m)
  /\ order' = Append(order, m)
  /\ draining' = TRUE
  /\ timer' = TRUE

\* queueOwnerMessage: the running drain takes the message, or one is armed.
Enqueue(m) ==
  /\ queue' = Append(queue, m)
  /\ order' = Append(order, m)
  /\ draining' = TRUE
  /\ timer' = (timer \/ ~draining)

\* Mutant: an equal nonce passes.
NotStale(m) == m.nonce >= lastNonce

Fresh(m) == m.nonce > lastNonce

\* A signed message pins its key before its nonce is looked at.
SignedArrives(m) ==
  /\ Outside /\ Served
  /\ m.key \in OwnerKeys
  /\ ownerPin' = IF ownerPin = None THEN m.key ELSE ownerPin
  /\ IF m.key = ownerPin' /\ Fresh(m)
       THEN /\ lastNonce' = m.nonce
            /\ accepted' = [accepted EXCEPT ![m] = @ + 1]
            /\ Enqueue(m)
       ELSE UNCHANGED <<lastNonce, accepted, queue, order, draining, timer>>
  /\ UNCHANGED <<row, keyPin, stack, llm, up, now, history, bound, chat>>

\* Mutant: plain text stays welcome after a signed owner was pinned.
SetupUntilBound == ~bound

\* Plain text is accepted in the setup window only.
Setup == ~bound /\ ownerPin = None

PlainArrives(m) ==
  /\ Outside /\ Served
  /\ m.key = None /\ Setup
  /\ Enqueue(m)
  /\ UNCHANGED <<row, keyPin, stack, llm, up, now, history, bound, ownerPin,
                 lastNonce, chat, accepted>>

\* metaConfigure owner.npk.
BindOwner ==
  /\ Outside /\ Served /\ ~bound
  /\ bound' = TRUE
  /\ UNCHANGED <<row, keyPin, stack, llm, up, now, history, ownerPin, lastNonce,
                 queue, draining, timer, chat, accepted, order>>

-------------------------------------------------------------------------------
(***************************************************************************)
(* The drain, and the local client's chat.                                 *)
(***************************************************************************)
\* The timer fires in whichever event loop runs.
DrainFires ==
  /\ Served /\ timer
  /\ timer' = FALSE
  /\ Push(Frame("next", None, "owner"))
  /\ UNCHANGED <<row, keyPin, llm, up, now, events, history, bound, ownerPin, lastNonce,
                 queue, draining, chat, accepted, order>>

\* Mutant: the user's entry goes in before the completion.
TakeNextCommitsEarly(pc) ==
  /\ At("next") /\ queue # <<>> /\ pc \in {"thinking", "answering"}
  /\ queue' = Tail(queue)
  /\ llm' = IF pc = "thinking" THEN llm + 1 ELSE llm
  /\ Become(Frame(pc, Head(queue), "owner"))
  /\ chat' = Append(chat, [role |-> "user", of |-> Head(queue)])
  /\ UNCHANGED <<row, keyPin, up, now, events, history, bound, ownerPin, lastNonce,
                 draining, timer, accepted, order>>

\* Commands, and texts without a model, need no completion.
TakeNext(pc) ==
  /\ At("next") /\ queue # <<>> /\ pc \in {"thinking", "answering"}
  /\ queue' = Tail(queue)
  /\ llm' = IF pc = "thinking" THEN llm + 1 ELSE llm
  /\ Become(Frame(pc, Head(queue), "owner"))
  /\ UNCHANGED <<row, keyPin, up, now, events, history, bound, ownerPin, lastNonce,
                 draining, timer, chat, accepted, order>>

\* Mutant: one message per drain.
AnsweredOnly ==
  /\ At("answering")
  /\ Pop
  /\ draining' = FALSE
  /\ order' = Tail(order)
  /\ UNCHANGED <<row, keyPin, llm, up, now, events, history, bound, ownerPin, lastNonce,
                 queue, timer, chat, accepted>>

\* ownerCommand has run and sendToOwner returned (or either threw).
Answered ==
  /\ At("answering")
  /\ Become(Frame("next", None, "owner"))
  /\ order' = Tail(order)
  /\ UNCHANGED <<row, keyPin, llm, up, now, events, history, bound, ownerPin, lastNonce,
                 queue, draining, timer, chat, accepted>>

DrainEnds ==
  /\ At("next") /\ queue = <<>>
  /\ draining' = FALSE
  /\ Pop
  /\ UNCHANGED <<row, keyPin, llm, up, now, events, history, bound, ownerPin, lastNonce,
                 queue, timer, chat, accepted, order>>

ClientChats ==
  /\ Outside /\ Served
  /\ Push(Frame("thinking", ByClient, "client"))
  /\ llm' = llm + 1
  /\ UNCHANGED <<row, keyPin, up, now, history, ownerVars>>

\* Mutant: one entry is taken off, once.
TrimOne(entries) ==
  IF Len(entries) <= HistoryCap THEN entries ELSE Tail(entries)

\* chatHistory_ loses its two oldest entries when it outgrows its cap; a turn
\* adds two at most.
Trim(entries) ==
  IF Len(entries) <= HistoryCap THEN entries ELSE SubSeq(entries, 3, Len(entries))

\* A failed completion leaves the user's entry alone.
Turn(m, ok) == <<[role |-> "user", of |-> m]>>
               \o (IF ok THEN <<[role |-> "assistant", of |-> m]>> ELSE <<>>)

\* The completion returns: the turn is committed after it, as one unit.
TurnEnds(ok) ==
  /\ At("thinking")
  /\ llm' = llm - 1
  /\ chat' = Trim(chat \o Turn(Top.arg, ok))
  /\ IF Top.by = "owner" THEN Become([Top EXCEPT !.pc = "answering"]) ELSE Pop
  /\ UNCHANGED <<row, keyPin, up, now, events, history, bound, ownerPin, lastNonce,
                 queue, draining, timer, accepted, order>>

-------------------------------------------------------------------------------
(***************************************************************************)
(* Crash and restart: the database keeps the owner's key and nonce, memory *)
(* loses the queue and the conversation.                                   *)
(***************************************************************************)
Crash ==
  /\ Dies
  /\ queue' = <<>> /\ order' = <<>>
  /\ draining' = FALSE /\ timer' = FALSE
  /\ chat' = <<>>
  /\ UNCHANGED <<bound, ownerPin, lastNonce, accepted>>

Boot == (\E kept \in SUBSET Tasks : Restart(kept)) /\ UNCHANGED ownerVars

OwnerRequest ==
  \/ \E m \in Message : SignedArrives(m) \/ PlainArrives(m)
  \/ BindOwner
  \/ ClientChats

Drain ==
  \/ DrainFires
  \/ \E pc \in {"thinking", "answering"} : TakeNext(pc)
  \/ Answered
  \/ DrainEnds

ServiceNext ==
  \/ ServerNext /\ UNCHANGED ownerVars
  \/ OwnerRequest
  \/ Drain
  \/ \E ok \in BOOLEAN : TurnEnds(ok)
  \/ Crash
  \/ Boot

ServiceSpec == ServiceInit /\ [][ServiceNext]_serviceVars

-------------------------------------------------------------------------------
(***************************************************************************)
(* Properties.                                                             *)
(***************************************************************************)
\* SAFETY.  A signed message of the owner is acted on at most once: however
\* often and in whatever order delivery brings it, and across restarts (M1).
OwnerMessageOnce == \A m \in Message : accepted[m] <= 1

\* SAFETY.  Messages are answered one after the other in the order they were
\* taken in, also when more arrive, or a timer fires, inside the answer: the
\* one being answered and the queued ones are what is left to answer.
OwnerInOrder ==
  LET answered == {d \in DOMAIN stack : stack[d].by = "owner" /\ stack[d].pc # "next"}
  IN IF answered = {} THEN order = queue
     ELSE \E d \in answered : answered = {d} /\ order = <<stack[d].arg>> \o queue

\* SAFETY.  In the conversation an answer stands directly after the question it
\* answers (I1), unless trimming took the question, and no accepted message is
\* in it twice, although turns nest.  So two answers are never neighbours.
PairsTogether ==
  \A i \in DOMAIN chat :
    /\ chat[i].role = "assistant" /\ i > 1 =>
         chat[i - 1] = [role |-> "user", of |-> chat[i].of]
    /\ chat[i].of.key # None => \A j \in DOMAIN chat : chat[j] = chat[i] => j = i

\* ACTION.  From the first signed message on, nothing but messages under its
\* key is taken in, and the key stays, across restarts.
OnlyThePinnedOwner ==
  [][ownerPin # None =>
       /\ ownerPin' = ownerPin
       /\ Len(order') > Len(order) => Last(order').key = ownerPin]_serviceVars

\* SAFETY.  No lost wake-up: while a message is queued a drain runs or is due,
\* also when the message came in while a drain was busy.
QueueIsWatched == queue # <<>> => timer \/ \E d \in DOMAIN stack : stack[d].by = "owner"
===============================================================================
