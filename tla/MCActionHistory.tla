----------------------------- MODULE MCActionHistory -----------------------------
(* Instance of ActionHistory: three photos in two folders, two of one base name. *)
EXTENDS ActionHistory, TLC

CONSTANTS p1, p2, p3, dA, dB, m, n

BaseNames == (p1 :> m) @@ (p2 :> m) @@ (p3 :> n)
Folders == (p1 :> dA) @@ (p2 :> dB) @@ (p3 :> dA)

================================================================================
