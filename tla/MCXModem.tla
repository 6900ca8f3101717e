------------------------------ MODULE MCXModem ------------------------------
(***************************************************************************)
(* Small instances of XModem.  With five sequence numbers, the sixth packet *)
(* has the number of the first one, and the fourth has the value of EOT.   *)
(* The third packet has every value that means something among its         *)
(* contents.                                                               *)
(***************************************************************************)
EXTENDS XModem, TLC

MCValues == [k \in 1..N |-> IF k = 3 THEN 0..4 \cup {CAN} ELSE {}]
MCBlanks == {{}, {2}}
NoBlanks == {{}}
=============================================================================
