-------------------------- MODULE MCSliceableArray --------------------------
(* SliceableArray as model-checked: the constants are given in the .cfg  *)
(* files (rows of one or two elements, arrays of up to three rows).      *)
EXTENDS SliceableArray
=============================================================================
