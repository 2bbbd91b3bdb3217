------------------------------ MODULE MCMarket ------------------------------
(***************************************************************************)
(* MessageIntake on a small instance: two spellings of one payment         *)
(* identity with their genuine cards, and a forgery under another key that *)
(* asks for somebody else's account.  The forgery is broadcast, a task and *)
(* an owner's message are sent.                                            *)
(***************************************************************************)
EXTENDS MessageIntake

CONSTANTS n1, n2, n3, k1, k2, m1, m2, m3

A_Card(npk, key, payout) ==
  [npk |-> npk, key |-> key, sig |-> "good", payout |-> payout]

Genuine == A_Card(n1, k1, n1)
Second  == A_Card(n2, k2, n2)
Forged  == A_Card(n1, k2, n3)

MCSame    == [n \in {n1, n2, n3} |-> IF n = n2 THEN n1 ELSE n]
MCCards   == {Genuine, Second, Forged}
MCFiles   == {Genuine, Second}
MCContent == [m \in Messages |->
               IF m = m1 THEN [topic |-> "discovery", card |-> Forged]
               ELSE [topic |-> IF m = m2 THEN "inbox" ELSE "owner", card |-> None]]
===============================================================================
