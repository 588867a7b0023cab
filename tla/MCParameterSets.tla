--------------------------- MODULE MCParameterSets ---------------------------
EXTENDS ParameterSets

MCApsIds == [t \in ApsTypes |-> IF t = "alf" THEN {0, 1} ELSE {0}]
=============================================================================
