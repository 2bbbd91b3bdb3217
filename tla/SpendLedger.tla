----------------------------- MODULE SpendLedger -----------------------------
(***************************************************************************)
(* What the spending component promises about money, without its states,  *)
(* tables or control flow.                                                 *)
(*                                                                         *)
(* A request is granted each time somebody entitled to decide lets it      *)
(* through: the spending limits (an autonomous spend) or the owner         *)
(* (/approve).  The wallet may move the amount of a request at most once   *)
(* per grant, and never before the grant.  docs/security-model.md, 3:      *)
(* "Every value-moving action ... passes through a single spending gate    *)
(* before any funds move."                                                 *)
(***************************************************************************)
EXTENDS Integers

CONSTANT Spends          \* identifiers of spend requests

VARIABLES granted,       \* how often each request was let through
          paid           \* how often its amount was moved

vars == <<granted, paid>>

TypeOK == /\ granted \in [Spends -> Nat]
          /\ paid \in [Spends -> Nat]

Init == /\ granted = [s \in Spends |-> 0]
        /\ paid = [s \in Spends |-> 0]

Grant(s) == /\ granted' = [granted EXCEPT ![s] = @ + 1]
            /\ UNCHANGED paid

Pay(s) == /\ paid[s] < granted[s]
          /\ paid' = [paid EXCEPT ![s] = @ + 1]
          /\ UNCHANGED granted

Next == \E s \in Spends : Grant(s) \/ Pay(s)

Spec == Init /\ [][Next]_vars
==============================================================================
