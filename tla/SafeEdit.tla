------------------------------ MODULE SafeEdit ------------------------------
(***************************************************************************)
(* What timescaledb-tune promises about postgresql.conf, with everything   *)
(* that decides what is written left out: the file, the texts of it that   *)
(* are archived, and whether somebody is writing.  A text is archived      *)
(* before it is replaced, the archive never shrinks, and a restore writes  *)
(* nothing but what is archived.  Any step may be the last one: a file     *)
(* that was being written then stays as it is.                             *)
(***************************************************************************)
EXTENDS Integers, Sequences

CONSTANT Texts   \* what the file may hold at first

VARIABLES
  conf,    \* the lines of the file
  kept,    \* the archived texts
  phase    \* "still", or who is writing: "tuning" or "restoring"

state == <<conf, kept, phase>>

\* The beginnings of a text, the empty one and the whole one included.
Beginnings(text) == {SubSeq(text, 1, n) : n \in 0..Len(text)}

Init == conf \in Texts /\ kept = {} /\ phase = "still"

\* A backup of the file as it is, or as much of it as could be written.
Archive ==
  /\ phase = "still" /\ phase' = phase
  /\ conf' = conf
  /\ \E text \in Beginnings(conf) : kept' = kept \cup {text}

\* The user adds lines.
Extend ==
  /\ phase = "still" /\ phase' = phase
  /\ conf \in Beginnings(conf')
  /\ kept' = kept

\* Only a text that is archived is given up for an edited one.
BeginTuning ==
  /\ phase = "still" /\ phase' = "tuning"
  /\ conf \in kept
  /\ conf' = <<>>
  /\ kept' = kept

\* A restore archives nothing.
BeginRestoring ==
  /\ phase = "still" /\ phase' = "restoring"
  /\ kept # {}
  /\ conf' = <<>>
  /\ kept' = kept

WriteLine ==
  /\ phase # "still" /\ phase' = phase
  /\ Len(conf') = Len(conf) + 1 /\ conf \in Beginnings(conf')
  /\ phase = "restoring" => \E text \in kept : conf' \in Beginnings(text)
  /\ kept' = kept

End ==
  /\ phase # "still" /\ phase' = "still"
  /\ UNCHANGED <<conf, kept>>

Next == Archive \/ Extend \/ BeginTuning \/ BeginRestoring \/ WriteLine \/ End

Spec == Init /\ [][Next]_state
=============================================================================
