------------------------------- MODULE MCDesktop -------------------------------
(* Instance of Desktop: launches, crashes and downloads in small numbers. *)
EXTENDS Desktop
================================================================================
