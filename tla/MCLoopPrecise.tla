--------------------------- MODULE MCLoopPrecise ---------------------------
(* Constants for model checking LoopPrecise.                               *)
EXTENDS LoopPrecise

(* "load " is "load" restated with other white space.                      *)
MCTexts == {"load", "load ", "sum"}
MCNorm == [t \in MCTexts |-> IF t = "load " THEN "load" ELSE t]
=============================================================================
