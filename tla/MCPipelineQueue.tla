---------------------------- MODULE MCPipelineQueue ----------------------------
(* Small instances of PipelineQueue for TLC. *)
EXTENDS PipelineQueue, TLC

CONSTANTS p1, p2, p3, b1, b2, chat, vision

PhotoSymmetry == Permutations(Photo) \cup Permutations(Backend)

================================================================================
