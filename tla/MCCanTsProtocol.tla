--------------------------- MODULE MCCanTsProtocol ---------------------------
(* CanTsProtocol for TLC: two nodes, of which the second serves the first  *)
(* and has no telemetry handler yet; but its handlers make calls too.      *)
EXTENDS CanTsProtocol

CONSTANTS n1, n2, ch1, ch2

MCTargets ==
    [n \in {n1, n2} |-> IF n = n1 THEN {<<n2, ch1>>, <<n2, ch2>>, <<Everyone, ch1>>}
                                  ELSE {<<n1, ch1>>}]

MCPreset == [n \in {n1, n2} |-> IF n = n1 THEN Kinds ELSE Kinds \ {"tm"}]
==============================================================================
