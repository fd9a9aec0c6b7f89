--------------------------- MODULE MCLatticeFormat ---------------------------
EXTENDS LatticeFormat

(* a three-codepoint input, boundaries 2 .. 4, EOS at 5: three nodes at 2 *)
(* (lengths 1, 2, 3), two at 3 and one at 4, giving four BOS-to-EOS paths  *)
(* that share nodes and previous nodes; the second node at boundary 3 is   *)
(* an alias of two entries                                                 *)
N20 == [boundary |-> 2, position |-> 0]
N21 == [boundary |-> 2, position |-> 1]
N22 == [boundary |-> 2, position |-> 2]
N30 == [boundary |-> 3, position |-> 0]
N31 == [boundary |-> 3, position |-> 1]
N40 == [boundary |-> 4, position |-> 0]

MCNodes == {N20, N21, N22, N30, N31, N40}
MCNodeLen == N20 :> 1 @@ N21 :> 2 @@ N22 :> 3 @@ N30 :> 1 @@ N31 :> 2 @@ N40 :> 1
MCNodeEntries == N20 :> 1 @@ N21 :> 1 @@ N22 :> 1 @@ N30 :> 1 @@ N31 :> 2 @@ N40 :> 1

=============================================================================
