--------------------------- MODULE MCCertificate ---------------------------
(***************************************************************************)
(* Small instances of CertificateExpiryMonitor: the values its             *)
(* configurations give to the CONSTANTS.  A day has two units of time.     *)
(***************************************************************************)
EXTENDS CertificateProperties

\* Two secrets of the same name in two namespaces, or one secret.
MCNamespaces == {"n1", "n2"}
OneNamespace == {"n1"}
TwoSecrets   == {"a", "b"}
OneSecret    == {"a"}
MCNsOf       == [s \in TwoSecrets |-> IF s = "a" THEN "n1" ELSE "n2"]
SameNs       == [s \in TwoSecrets |-> "n1"]
SameName     == [s \in TwoSecrets |-> "tls"]
OwnName      == [s \in TwoSecrets |-> s]
OneNsOf      == [s \in OneSecret |-> "n1"]
OneName      == [s \in OneSecret |-> "tls"]

ScanSpec ==
    [warningDays |-> 2, criticalDays |-> 1, selector |-> {"watched"},
     exclude |-> {}, suspend |-> FALSE]

PlainSpec == {ScanSpec}
\* The thresholds in either order, an excluded namespace, an invalid selector,
\* and suspended.
WakeupSpecs == {ScanSpec,
                [ScanSpec EXCEPT !.suspend = TRUE],
                [ScanSpec EXCEPT !.selector = Nil]}
AllSpecs == WakeupSpecs \cup
            {[ScanSpec EXCEPT !.warningDays = 2, !.criticalDays = 3,
                              !.exclude = {"n2"}]}

\* What the safety run leaves out of a state: no action asks what the recorder has
\* not sent yet or what the API server has, and none of its properties does.
WithoutBroadcast == <<runtimeVars, clusterVars, scanVars, told>>
=============================================================================
