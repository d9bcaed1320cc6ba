---------------------------- MODULE MCRBACDrift ----------------------------
(***************************************************************************)
(* Small instances of RBACDriftMonitor: the values its configurations give *)
(* to the CONSTANTS.                                                       *)
(***************************************************************************)
EXTENDS RBACDriftProperties

\* A ClusterRole and a RoleBinding: the two ways of comparing.
MCRefs   == {"cr", "rb"}
MCKindOf == [r \in MCRefs |-> IF r = "cr" THEN "ClusterRole" ELSE "RoleBinding"]

\* "c1s" is "c1" with the verbs of a rule in another order: the same for a role,
\* another for a binding.
MCContents  == {"c1", "c1s"}
MCNormRules == [c \in MCContents |-> "c1"]

\* Nobody is captured with a nil list, or whoever grants "none".
NoNilLists == {}
NilNone    == {"none"}
OrNone     == {"c1", "none"}
OrNoneNorm == [c \in OrNone |-> c]

TwoContents  == {"c1", "c2"}
TwoNormRules == [c \in TwoContents |-> c]

OneRef    == {"cr"}
OneKindOf == [r \in OneRef |-> "ClusterRole"]

MCAnnKeys    == {}
IgnoreKey    == {"ignore"}
NoPrefixes   == [p \in {} |-> {}]

E1(r) == [ref |-> r, want |-> "c1"]

RulesSpec(b) ==
    [baseline |-> b, severity |-> "Warning", suspend |-> FALSE,
     mode |-> "RulesBased", detectUnexpected |-> FALSE,
     excludePatterns |-> {}, excludeAnnotations |-> {}]

Suspended(s)  == [s EXCEPT !.suspend = TRUE]
Unexpected(s) == [s EXCEPT !.detectUnexpected = TRUE]
Critical(s)   == [s EXCEPT !.severity = "Critical"]
Mode(s, md)   == [s EXCEPT !.mode = md]

\* Two baselines that differ in what they name, the first suspended or not.
SafetySpecs ==
    {Critical(RulesSpec({E1("cr")})), RulesSpec({E1("cr"), E1("rb")}),
     Suspended(RulesSpec({E1("cr")}))}
\* With and without detection of unexpected resources, and suspended.
LiveSpecs ==
    {Critical(RulesSpec({E1("cr")})), Suspended(RulesSpec({E1("cr")})),
     Unexpected(RulesSpec({}))}
\* Every way into and out of the snapshot mode.
SnapshotSpecs ==
    {Mode(RulesSpec({}), SnapshotBased), RulesSpec({E1("cr")}),
     Unexpected(Mode(RulesSpec({}), SnapshotBased)),
     Suspended(Mode(RulesSpec({}), SnapshotBased))}
\* The mode as the CRD spells it.
CRDModeSpecs == {Mode(RulesSpec({E1("cr")}), "SnapshotBased")}
CriticalUnexpected ==
    {Critical(Unexpected([RulesSpec({}) EXCEPT !.excludeAnnotations = {"ignore"}]))}

\* What the safety and snapshot runs leave out of a state: no action asks what the
\* recorder has not sent yet or what the API server has, and none of the properties
\* of these runs does.
WithoutBroadcast == <<runtimeVars, clusterVars, checkVars, told>>

=============================================================================
