------------------------ MODULE MCFullExampleReader ------------------------
EXTENDS FullExampleReader

CONSTANTS c, k, u, h

MCSurfs == {<<c>>, <<c, c>>}
MCVals == {k, u}
(* str2int knows k only *)
MCId == k :> 3
MCComments == {h}

=============================================================================
