------------------------------ MODULE MCZModem ------------------------------
(***************************************************************************)
(* Small instances of ZModem.  A unit occurs in one file only; zero is the *)
(* unit of the holes.                                                      *)
(***************************************************************************)
EXTENDS ZModem, TLC

CONSTANTS f1, g1, bad, lost      \* two files, one with a refused name, one unreadable

MCUnit == 0..3
MCContent == f1 :> <<1, 2>> @@ g1 :> <<3>> @@ bad :> <<>> @@ lost :> <<>>

\* f1 is there in part, or nothing is.
Partial == {f1 :> <<1>> @@ g1 :> Absent @@ bad :> Absent @@ lost :> Absent}
Empty == {[x \in {f1, g1, bad, lost} |-> Absent]}

Plainly == {<<lost, f1, g1>>}
OrRefused == {<<lost, f1, g1>>, <<g1, bad>>}
=============================================================================
