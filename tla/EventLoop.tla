------------------------------ MODULE EventLoop ------------------------------
(***************************************************************************)
(* The one thread of the module.  A call into another module, the language *)
(* model or the relay blocks on a nested Qt event loop, and that loop goes *)
(* on serving calls and events.  So the running activations form a stack:  *)
(* only the innermost one moves, and a new call is served only when it is  *)
(* parked.                                                                 *)
(***************************************************************************)
EXTENDS Integers, Sequences

CONSTANT MaxDepth          \* bound: how deep event loops nest

ASSUME LoopAssumption == MaxDepth \in Nat

VARIABLE stack             \* running activations, innermost last

Top    == stack[Len(stack)]
At(pc) == stack # <<>> /\ Top.pc = pc

\* Nothing runs, or the innermost activation waits at one of these places.
Parked(places) == stack # <<>> => Top.pc \in places

Push(f)   == Len(stack) < MaxDepth /\ stack' = Append(stack, f)
Pop       == stack' = SubSeq(stack, 1, Len(stack) - 1)
Become(f) == stack' = [stack EXCEPT ![Len(stack)] = f]
===============================================================================
