--------------------------- MODULE MCAnalysisPath ---------------------------
(* Paths over boundaries 2..5 (0 and 1 are the two BOS boundaries) with   *)
(* beams of up to two pointers; the seeking client asks for boundaries    *)
(* the path may or may not hold, including ones before and after it.     *)
EXTENDS AnalysisPath
=============================================================================
