--------------------------- MODULE MCDegradation ---------------------------
(***************************************************************************)
(* Small instances of ClusterDegradationMonitor: the values its            *)
(* configurations give to the CONSTANTS.                                   *)
(***************************************************************************)
EXTENDS DegradationProperties

OneOperator  == {"dns"}
TwoOperators == {"dns", "ingress"}

OpStatus(a, d) == [available |-> a, degraded |-> d, progressing |-> "False"]

\* Healthy, degraded, and degraded without a condition Available.
BadStatuses == {OpStatus("True", "False"), OpStatus("True", "True"),
                OpStatus("", "True")}
\* Degraded, and unavailable for want of a condition Available.
TroubleStatuses == {OpStatus("True", "True"), OpStatus("", "False")}

CheckSpec ==
    [degradedThreshold |-> 2, operatorFilter |-> {}, suspend |-> FALSE]

PlainSpec  == {CheckSpec}
\* Two thresholds and filters, the first suspended or not.
SafetySpecs ==
    {CheckSpec, [CheckSpec EXCEPT !.suspend = TRUE],
     [CheckSpec EXCEPT !.degradedThreshold = 1, !.operatorFilter = {"dns"}]}
=============================================================================
