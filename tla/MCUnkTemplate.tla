---------------------------- MODULE MCUnkTemplate ----------------------------
EXTENDS UnkTemplate

(* three features, the last replaced by the surface hash; the template  *)
(* agrees with some entries on the two pattern fields and not others    *)
MCBase == 0 :> 1 @@ 1 :> 0 @@ 2 :> 1

(* murmur values (at 8 bits for the code's 32) at the edges of the trim *)
(* and of the top bit: 0, 2^7 - 1, 2^7, 2^8 + 5, 2^16 - 1               *)
MCMurmur == {0, 127, 128, 261, 65535}

(* an uninitialised int *)
MCGarbage == {-1}

=============================================================================
