------------------------------ MODULE MCFramer ------------------------------
(***************************************************************************)
(* Small instances of Framer.                                              *)
(***************************************************************************)
EXTENDS Framer

\* Z has no payload; the payload of the other one is all control characters.
TypeZ == {1, 3, 4, 6}
TypeA == {0, 6}
MCPackets == {<<TypeZ>>, <<TypeA, CAN, DLE>>}

\* Every character with a meaning, one with none, and the zero byte.
MCNoise == {START, END, DLE, CAN, TypeZ, {}}
=============================================================================
