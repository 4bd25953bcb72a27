--------------------------- MODULE MCProfileSync ---------------------------
(* Small instances of ProfileSync.                                         *)
EXTENDS ProfileSync, TLC

CONSTANTS i1, i2, t1, t2, t3, p1

MCTokenFile == [i \in Install |-> IF i = i1 THEN t1 ELSE t2]

\* One machine is shared by two accounts; one of them plays on the other too.
MCAccount == [i \in Install |-> IF i = i1 THEN Pid ELSE {p1}]
=============================================================================
