--------------------------------- MODULE MCChat ---------------------------------
(* Instance of Chat: two messages, three configurations. *)
EXTENDS Chat
CONSTANTS t1, t2
================================================================================
