------------------------------ MODULE MCSession ------------------------------
(***************************************************************************)
(* SessionLoop on small instances.  Rows of one kind are told apart only by *)
(* their sequence number, so a permutation of them is a symmetry of every   *)
(* safety property (not used by the runs that check liveness).             *)
(***************************************************************************)
EXTENDS SessionLoop, TLC

RowSymmetry ==
  UNION {Permutations(Chat), Permutations(Clear), Permutations(Task),
         Permutations(Context), Permutations(OnWake), Permutations(Answer)}
==============================================================================
