-------------------------- MODULE MCLatticeBuilder --------------------------
(* A chunking maker for the class of a and b, a single maker for k, and a *)
(* codepoint z of a class no maker handles, so that both covered and      *)
(* uncovered inputs occur.                                                 *)
EXTENDS LatticeBuilder

CONSTANTS a, b, kk, z

MCClassOf == [c \in {a, b, kk, z} |->
                CASE c = kk -> {"Kanji"}
                  [] c = z  -> {"Other"}
                  [] OTHER  -> {"Kata"}]

MCWords == {<<a>>, <<a, b>>, <<b, a, b>>, <<kk, kk>>, <<z>>, <<b, kk>>}

MCMakers == << [kind |-> "chunking", cls |-> "Kata"],
               [kind |-> "single",   cls |-> "Kanji"] >>
=============================================================================
