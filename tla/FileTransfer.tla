---------------------------- MODULE FileTransfer ----------------------------
(***************************************************************************)
(* What a file transfer promises, without packets, windows or sessions:    *)
(* the receiver builds its copy of a file from the front, piece by piece,  *)
(* and the sender reports the file only when the copy is the file.  An     *)
(* unreported copy may be discarded and begun again.                       *)
(***************************************************************************)
EXTENDS Naturals, Sequences

CONSTANTS Files, Content, Before, Absent

VARIABLES
  copy,        \* the receiver's copy of each file, or Absent
  reported     \* files the sender has declared transferred

vars == <<copy, reported>>

Init == copy = [f \in Files |-> Before[f]] /\ reported = {}

Begin(f) ==
  /\ f \notin reported
  /\ copy' = [copy EXCEPT ![f] = <<>>]
  /\ UNCHANGED reported

Extend(f) ==
  /\ f \notin reported /\ copy[f] # Absent
  /\ \E n \in Len(copy[f]) + 1 .. Len(Content[f]) :
       /\ copy[f] = SubSeq(Content[f], 1, Len(copy[f]))
       /\ copy' = [copy EXCEPT ![f] = SubSeq(Content[f], 1, n)]
  /\ UNCHANGED reported

Report(f) ==
  /\ f \notin reported /\ copy[f] = Content[f]
  /\ reported' = reported \cup {f}
  /\ UNCHANGED copy

Next == \E f \in Files : Begin(f) \/ Extend(f) \/ Report(f)

Spec == Init /\ [][Next]_vars

\* A complete copy is eventually reported.
FairSpec == Spec /\ \A f \in Files : WF_vars(Report(f))
=============================================================================
