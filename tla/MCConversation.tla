--------------------------- MODULE MCConversation ---------------------------
(***************************************************************************)
(* Conversation on a small instance.  Tasks and keys are interchangeable.  *)
(***************************************************************************)
EXTENDS Conversation

Symmetry == Permutations(Tasks) \cup Permutations(PeerKeys) \cup Permutations(OwnerKeys)
===============================================================================
