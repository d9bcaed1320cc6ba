----------------------- MODULE DegradationProperties -----------------------
(***************************************************************************)
(* What is asked of ClusterDegradationMonitor.                             *)
(***************************************************************************)
EXTENDS ClusterDegradationMonitor

Version == MonitorObject(Status) \cup {Nil}

Phases == {"idle", "get", "putSuspended", "list", "putListFailed", "putReport"}

\* Every variable keeps its type, and the worker has a key and a copy of the
\* monitor in every phase of Reconcile that uses them.
TypeOK ==
    /\ api \in [Monitors -> Version]
    /\ mwatch \in [Monitors -> Seq(Version)]
    /\ late \in SUBSET LateUpdates(Status)
    /\ \A u \in late : api[u.key] # Nil
    /\ mcache \in [Monitors -> Version]
    /\ queue \in [Monitors -> QueueState]
    /\ pc \in Phases
    /\ key \in Monitors \cup {Nil}
    /\ obj \in Version
    /\ fresh \in BOOLEAN
    /\ (pc = "idle") <=> (key = Nil)
    /\ pc \notin {"idle", "get"} => obj # Nil
    /\ now \in Nat
    /\ {edits, faults, crashes} \subseteq Nat
    /\ operators \in [Operators -> OperatorStatuses \cup {Nil}]
    /\ ocache \in [Operators -> OperatorStatuses \cup {Nil}]
    /\ owatch \in [Operators -> Seq(OperatorStatuses \cup {Nil})]
    /\ emitted \in SUBSET Event

Active(m) == api[m] # Nil /\ ~api[m].spec.suspend

\* No lost wakeup: an active monitor is being reconciled, waits in the queue, or
\* has a watch event on the way, also after a List that failed and a status
\* update whose error is only logged (lines 88-103 and 249-259).
ActiveIsScheduled == \A m \in Monitors : Active(m) => Scheduled(m)

Listed(status) == ToSet(status.list)

\* A status that claims the current generation judges the operators it lists by
\* the threshold and the filter of the current spec, also after checks that
\* failed and when the monitor was deleted and created again (lines 88-103, 166-204).
VerdictFitsSpec ==
    \A m \in Monitors :
        api[m] # Nil /\ api[m].status.obsGen = api[m].gen =>
            LET status == api[m].status
            IN  /\ status.overallHealth = OverallHealth(api[m].spec, Listed(status))
                /\ \A h \in Listed(status) : InFilter(api[m].spec, h.operator)

Accurate(m) ==
    /\ api[m].status.obsGen = api[m].gen
    /\ Listed(api[m].status) = HealthsOf(api[m].spec, operators)

Settled(m) ==
    /\ key # m
    /\ queue[m] # "ready"
    /\ mwatch[m] = <<>>
    /\ \A c \in Operators : owatch[c] = <<>>

\* The watches alone keep the status right: as long as no call has failed, once
\* an active monitor has no event left to handle, its status lists exactly the
\* operators of its filter as they are (lines 263-292).
SettledReportIsAccurate ==
    \A m \in Monitors :
        faults = 0 /\ Active(m) /\ Settled(m) => Accurate(m)

\* No trouble is reported in silence: when a reconcile changes the number of
\* degraded or of unavailable operators in a status to one above zero, it has
\* recorded an event with that number (lines 186-193).
TroubleIsAnnounced ==
    [][\A m \in Monitors :
          api[m] # Nil /\ api'[m] # Nil /\ pc = "putReport" /\ pc' = "idle" =>
              /\ api'[m].status.degraded \notin {0, api[m].status.degraded} =>
                    [reason |-> "ClusterDegraded",
                     count |-> api'[m].status.degraded] \in emitted
              /\ api'[m].status.unavailable \notin {0, api[m].status.unavailable} =>
                    [reason |-> "ClusterUnavailable",
                     count |-> api'[m].status.unavailable] \in emitted]_api

\* When spec and cluster stand still the status becomes right and stays right,
\* and says so in Ready: a List that failed is repeated after 30 seconds.
ReportEventuallyAccurate ==
    <>[](\A m \in Monitors : Active(m) =>
            Accurate(m) /\ api[m].status.conds["Ready"].reason = "CorrelationComplete")

-----------------------------------------------------------------------------
(***************************************************************************)
(* The contract of MonitorContract, read off the stored monitors.          *)
(***************************************************************************)
Outcome(cond) ==
    CASE cond = Nil -> "None"
      [] cond # Nil /\ cond.status -> "Complete"
      [] cond # Nil /\ ~cond.status /\ cond.reason = "Suspended" -> "Suspended"
      [] OTHER -> "Failed"

ReadyOf(status) ==
    LET cond == status.conds["Ready"]
    IN  [gen |-> IF cond = Nil THEN 0 ELSE cond.gen, outcome |-> Outcome(cond)]

Finding(status) == [verdict |-> status.overallHealth, operators |-> Listed(status)]

AdmissibleFor(spec) ==
    {f \in [verdict : Health, operators : SUBSET ClusterOperatorHealth] :
        /\ f.verdict = OverallHealth(spec, f.operators)
        /\ \A h \in f.operators : InFilter(spec, h.operator)}

ReportOf(status) == [gen |-> status.obsGen, finding |-> Finding(status)]

StoredStatus(m) == IF api[m] = Nil THEN NoStatus ELSE api[m].status

ASSUME NilIsNoDesire == Nil \notin [gen : Nat, spec : Specs]

Contract == INSTANCE MonitorContract WITH
    Suspended  <- {s \in Specs : s.suspend},
    Admissible <- [s \in Specs |-> AdmissibleFor(s)],
    NoFinding  <- Finding(NoStatus),
    desired    <- [m \in Monitors |->
                      IF api[m] = Nil THEN Nil
                      ELSE [gen |-> api[m].gen, spec |-> api[m].spec]],
    report     <- [m \in Monitors |-> ReportOf(StoredStatus(m))],
    ready      <- [m \in Monitors |-> ReadyOf(StoredStatus(m))]

\* Every step of the controller is one of the contract's: in spite of stale
\* copies, abandoned updates and failed Lists a verdict is only stored with the
\* operators it judges and for the very spec it was made for, and a failed check
\* changes nothing but Ready (lines 62-103 and 195-260).
ImplementsContract == Contract!Spec

=============================================================================
