------------------------------ MODULE PathWalk ------------------------------
(***************************************************************************)
(* What a walk over an analysis path promises its client (spec section 4.4 *)
(* and P5): the path is a sequence of beam pointers in morpheme order, and *)
(* a walk hands them out one at a time, each exactly once and in that      *)
(* order.  A new path, or a restart, begins the walk again.                *)
(***************************************************************************)
EXTENDS Naturals, Sequences

CONSTANT Ptrs   \* beam pointers

VARIABLES
  path,    \* the pointers of the current path, BOS to EOS
  handed   \* the pointers handed to the client so far in this walk

vars == <<path, handed>>

Init == path = <<>> /\ handed = <<>>

(* a new path is filled in *)
Load == path' \in Seq(Ptrs) /\ handed' = <<>>

(* the client starts the walk again *)
Restart == handed' = <<>> /\ UNCHANGED path

(* the next pointer of the path is handed out *)
Hand ==
  /\ Len(handed) < Len(path)
  /\ handed' = Append(handed, path[Len(handed) + 1])
  /\ UNCHANGED path

Next == Load \/ Restart \/ Hand

Spec == Init /\ [][Next]_vars

=============================================================================
