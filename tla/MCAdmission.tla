---------------------------- MODULE MCAdmission -----------------------------
(* Model-checking instance of Admission: all joins name one PIN, the first  *)
(* two one nickname.                                                        *)
EXTENDS Admission

MCNickname == [j \in Joins |-> IF j = "j3" THEN "budi" ELSE "ana"]
MCPin == [j \in Joins |-> "p1"]

=============================================================================
