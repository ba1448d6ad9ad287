------------------------------- MODULE MCLibrary -------------------------------
(* Instances of Library: interchangeable pictures and sessions. *)
EXTENDS Library, TLC

Symmetry == Permutations(Picture) \cup Permutations(Session)

================================================================================
