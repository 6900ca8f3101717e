------------------------------ MODULE MCWSLink ------------------------------
(***************************************************************************)
(* Small instances of WSLink.  A unit of content is a number that occurs   *)
(* nowhere else, so that a unit out of place is noticed.                   *)
(***************************************************************************)
EXTENDS WSLink, TLC

CONSTANTS a1, a2, b1        \* files of A and of B

MCUnit == 1..12
MCName == a1 :> "a1" @@ a2 :> "a2" @@ b1 :> "b1"
MCNames == {"a1", "a2", "b1"}

Both(x, y) == A :> x @@ B :> y
Dir(c1, c2, d1) == "a1" :> c1 @@ "a2" :> c2 @@ "b1" :> d1
EmptyDir == Dir(Absent, Absent, Absent)

\* a1 ends in a short block when BlockSize is 2; the others are one block.
MCContent == a1 :> <<1, 2, 3, 4, 5>> @@ a2 :> <<6, 7>> @@ b1 :> <<8, 9>>
OneWay == Both(<<a1, a2>>, <<>>)
BothWays == Both(<<a1, a2>>, <<b1>>)
OneEach == Both(<<a1>>, <<b1>>)
Nothing == Both(EmptyDir, EmptyDir)

\* Two files of three blocks that cross on the link.
ThreeEach == a1 :> <<1, 2, 3, 4, 5>> @@ a2 :> <<6, 7>> @@ b1 :> <<8, 9, 10, 11, 12>>

\* The receiver already has a2.
HasA2 == Both(EmptyDir, Dir(Absent, <<6, 7>>, Absent))
=============================================================================
