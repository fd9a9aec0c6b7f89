-------------------------- MODULE MCDicEntryBuffer --------------------------
EXTENDS DicEntryBuffer

(* an uninitialised dataBuffer_[0]: negative, zero or a positive count *)
MCGarbage == {-1, 0, 2}

=============================================================================
