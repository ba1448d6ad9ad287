-------------------------------- MODULE MCIntake --------------------------------
(* Instances of Intake: watched folders, their destination, a scanned folder. *)
EXTENDS Intake

CONSTANTS c1, c2, w1, w2

OwnNames == [p \in Incoming |-> IF p = "in/a" THEN "archive/a" ELSE "archive/b"]
SameName == [p \in Incoming |-> "archive/a"]
OneFolder == [p \in Incoming |-> w1]
TwoFolders == [p \in Incoming |-> IF p = "in/a" THEN w1 ELSE w2]

================================================================================
