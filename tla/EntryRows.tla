----------------------------- MODULE EntryRows -----------------------------
(***************************************************************************)
(* What a dictionary entry read promises its consumer (spec 4.1): after a  *)
(* fill, "while (nextData()) use(data())" hands out the entry's logical    *)
(* rows one at a time, in order, and then reports that none are left.      *)
(* Copying the reader hands the rows still to come to the copy.  This is   *)
(* the abstract specification DicEntryBuffer is checked against.           *)
(***************************************************************************)
EXTENDS Sequences

CONSTANTS
  Entries   \* the entries a fill may load, each with its logical rows

VARIABLES
  pending,  \* rows the next nextData() calls will hand out
  got,      \* rows handed out since the fill
  phase     \* "idle" (nothing filled), "iter", "end" (nextData was false)

vars == <<pending, got, phase>>

(* before the first fill the reader holds nothing meaningful *)
Init == phase = "idle" /\ got = <<>>

Fill ==
  /\ phase \in {"idle", "end"}
  /\ \E e \in Entries : pending' = e.rows
  /\ got' = <<>> /\ phase' = "iter"

Read ==
  /\ phase = "iter" /\ pending # <<>>
  /\ got' = Append(got, Head(pending)) /\ pending' = Tail(pending)
  /\ UNCHANGED phase

Exhausted ==
  /\ phase = "iter" /\ pending = <<>>
  /\ phase' = "end"
  /\ UNCHANGED <<pending, got>>

Next == Fill \/ Read \/ Exhausted

Spec == Init /\ [][Next]_vars

=============================================================================
