--------------------- MODULE ClusterDegradationMonitor ---------------------
(***************************************************************************)
(* The cluster degradation controller: internal/controller/                *)
(* clusterdegradationmonitor_controller.go on the runtime of               *)
(* ControllerRuntime.                                                      *)
(*                                                                         *)
(* Of a ClusterOperator the model keeps the status of its three            *)
(* conditions; versions, messages and transition times are left out.       *)
(***************************************************************************)
EXTENDS ControllerRuntime, SequencesExt

CONSTANTS
    Operators,        \* names of ClusterOperators
    OperatorStatuses  \* the conditions a ClusterOperator can have

\* "" stands for a condition that the ClusterOperator does not have.
ConditionStatus == {"True", "False", "Unknown", ""}

\* An empty filter selects every operator.
SpecRecord ==
    [degradedThreshold : Nat, operatorFilter : SUBSET Operators, suspend : BOOLEAN]

ASSUME DegradationAssumption ==
    /\ IsFiniteSet(Operators)
    /\ OperatorStatuses \subseteq
          [available : ConditionStatus, degraded : ConditionStatus,
           progressing : ConditionStatus]
    /\ Specs \subseteq SpecRecord

VARIABLES
    operators,  \* the ClusterOperators in the API server, or Nil
    owatch,     \* per operator, the versions not yet in the cache
    ocache,     \* the informer cache of the operators
    emitted     \* the Events recorded by the running reconcile

clusterVars == <<operators, owatch, ocache>>
vars == <<runtimeVars, operators, owatch, ocache, emitted>>

ClusterOperatorHealth ==
    [operator : Operators, available : BOOLEAN, degraded : BOOLEAN,
     progressing : BOOLEAN]
Health == {"", "Healthy", "Warning", "Critical"}
ConditionType == {"Ready", "ClusterDegraded", "ClusterUnavailable"}
Reason == {"Suspended", "ListFailed", "OperatorsDegraded", "NoOperatorsDegraded",
           "OperatorsUnavailable", "AllOperatorsAvailable", "CorrelationComplete"}
Event == [reason : {"ClusterDegraded", "ClusterUnavailable"}, count : Nat]

Status ==
    [conds : [ConditionType -> Condition(Reason) \cup {Nil}],
     list : Seq(ClusterOperatorHealth),
     degraded : Nat, unavailable : Nat, progressing : Nat,
     overallHealth : Health, lastCorrelation : Nat, obsGen : Nat]

ASSUME NilIsNoObject ==
    /\ Nil \notin MonitorObject(Status)
    /\ Nil \notin Condition(Reason)

NoStatus ==
    [conds |-> [t \in ConditionType |-> Nil], list |-> <<>>,
     degraded |-> 0, unavailable |-> 0, progressing |-> 0,
     overallHealth |-> "", lastCorrelation |-> 0, obsGen |-> 0]

-----------------------------------------------------------------------------
(***************************************************************************)
(* The cluster: ClusterOperators come, go and change their conditions.     *)
(***************************************************************************)
ChangeOperator(c, o) ==
    /\ edits < MaxEdits
    /\ o # operators[c]
    /\ operators' = [operators EXCEPT ![c] = o]
    /\ owatch' = [owatch EXCEPT ![c] = Append(@, o)]
    /\ edits' = edits + 1
    /\ UNCHANGED <<storeVars, mcache, queue, workerVars, now, faults, crashes,
                   ocache, emitted>>

\* The test of the filter set, which Reconcile and the mapping share.
InFilter(spec, c) == spec.operatorFilter = {} \/ c \in spec.operatorFilter

\* Faulty variant: an empty filter selects no operator.
mapClusterOperatorToMonitor_EmptyIsNone(c) ==
    {m \in Monitors : /\ mcache[m] # Nil
                      /\ ~mcache[m].spec.suspend
                      /\ c \in mcache[m].spec.operatorFilter}

mapClusterOperatorToMonitor(c) ==
    {m \in Monitors : /\ mcache[m] # Nil
                      /\ ~mcache[m].spec.suspend
                      /\ InFilter(mcache[m].spec, c)}

DeliverOperator(c) ==
    /\ owatch[c] # <<>>
    /\ ocache' = [ocache EXCEPT ![c] = Head(owatch[c])]
    /\ owatch' = [owatch EXCEPT ![c] = Tail(@)]
    /\ \/ queue' = Enqueue(mapClusterOperatorToMonitor(c)) /\ UNCHANGED faults
       \/ Fault /\ UNCHANGED queue
    /\ UNCHANGED <<storeVars, mcache, workerVars, now, edits, crashes,
                   operators, emitted>>

-----------------------------------------------------------------------------
(***************************************************************************)
(* Correlation of the operators of a spec, as world holds them.            *)
(***************************************************************************)
\* A condition that is Unknown or missing is not True: the operator then counts
\* as unavailable.
HealthOf(c, world) ==
    [operator |-> c,
     available   |-> world[c].available = "True",
     degraded    |-> world[c].degraded = "True",
     progressing |-> world[c].progressing = "True"]

HealthsOf(spec, world) ==
    {HealthOf(c, world) : c \in {d \in Operators : world[d] # Nil /\ InFilter(spec, d)}}

DegradedCount(hs)    == Cardinality({h \in hs : h.degraded})
UnavailableCount(hs) == Cardinality({h \in hs : ~h.available})
ProgressingCount(hs) == Cardinality({h \in hs : h.progressing})

DegradedThreshold(spec) ==
    IF spec.degradedThreshold = 0 THEN 3 ELSE spec.degradedThreshold

OverallHealth(spec, hs) ==
    CASE \/ UnavailableCount(hs) > 0
         \/ DegradedCount(hs) >= DegradedThreshold(spec) -> "Critical"
      [] /\ UnavailableCount(hs) = 0
         /\ DegradedCount(hs) \in 1 .. (DegradedThreshold(spec) - 1) -> "Warning"
      [] OTHER -> "Healthy"

\* Faulty variant: the events of an unavailable operator hide those of a
\* degraded one.
HealthEvents_OneOnly(hs) ==
    {e \in {[reason |-> "ClusterDegraded", count |-> DegradedCount(hs)],
            [reason |-> "ClusterUnavailable", count |-> UnavailableCount(hs)]} :
        e.count > 0 /\ (e.reason = "ClusterDegraded" => UnavailableCount(hs) = 0)}

HealthEvents(hs) ==
    {e \in {[reason |-> "ClusterDegraded", count |-> DegradedCount(hs)],
            [reason |-> "ClusterUnavailable", count |-> UnavailableCount(hs)]} :
        e.count > 0}

\* One of a pair of conditions on a count.
CountCondition(conds, type, count, yes, no, gen) ==
    SetStatusCondition(conds, type, count > 0, IF count > 0 THEN yes ELSE no, gen)

Report(o, list) ==
    LET hs == ToSet(list)
    IN  [o EXCEPT !.status =
          [list |-> list,
           degraded |-> DegradedCount(hs),
           unavailable |-> UnavailableCount(hs),
           progressing |-> ProgressingCount(hs),
           overallHealth |-> OverallHealth(o.spec, hs),
           lastCorrelation |-> now,
           obsGen |-> o.gen,
           conds |-> SetStatusCondition(
               CountCondition(
                   CountCondition(o.status.conds, "ClusterDegraded", DegradedCount(hs),
                       "OperatorsDegraded", "NoOperatorsDegraded", o.gen),
                   "ClusterUnavailable", UnavailableCount(hs),
                   "OperatorsUnavailable", "AllOperatorsAvailable", o.gen),
               "Ready", TRUE, "CorrelationComplete", o.gen)]]

NotReady(o, reason) ==
    [o EXCEPT !.status.conds =
        SetStatusCondition(@, "Ready", FALSE, reason, o.gen)]

-----------------------------------------------------------------------------
(***************************************************************************)
(* Reconcile, one action per call to the API server or to the cache.       *)
(***************************************************************************)
GetFails ==
    /\ pc = "get"
    /\ Fault
    /\ FinishedRequeue
    /\ UNCHANGED <<storeVars, mcache, now, edits, crashes, clusterVars, emitted>>

\* Faulty variant: the return is missing and the empty object is checked.
MonitorGone_GoesOn ==
    /\ pc = "get"
    /\ mcache[key] = Nil
    /\ pc' = "list"
    /\ UNCHANGED <<storeVars, mcache, queue, key, obj, fresh, boundVars,
                   clusterVars, emitted>>

MonitorGone ==
    /\ pc = "get"
    /\ mcache[key] = Nil
    /\ Finished
    /\ UNCHANGED <<storeVars, mcache, boundVars, clusterVars, emitted>>

ReconcileSuspended ==
    /\ pc = "get"
    /\ mcache[key] # Nil
    /\ mcache[key].spec.suspend
    /\ CopyFromCache(NotReady(mcache[key], "Suspended"))
    /\ pc' = "putSuspended"
    /\ UNCHANGED <<storeVars, mcache, queue, key, boundVars, clusterVars, emitted>>

ReconcileActive ==
    /\ pc = "get"
    /\ mcache[key] # Nil
    /\ ~mcache[key].spec.suspend
    /\ CopyFromCache(mcache[key])
    /\ pc' = "list"
    /\ UNCHANGED <<storeVars, mcache, queue, key, boundVars, clusterVars, emitted>>

PutSuspended ==
    /\ pc = "putSuspended"
    /\ \/ StatusUpdated /\ Finished
       \/ StatusUpdateFailed /\ FinishedRequeue
    /\ UNCHANGED <<mcache, now, edits, crashes, clusterVars, emitted>>

\* Faulty variant: the failed check counts as one of the current generation.
ListFails_ClaimsGeneration ==
    /\ pc = "list"
    /\ Fault
    /\ obj' = [NotReady(obj, "ListFailed") EXCEPT !.status.obsGen = obj.gen]
    /\ pc' = "putListFailed"
    /\ UNCHANGED <<storeVars, mcache, queue, key, fresh, now, edits, crashes,
                   clusterVars, emitted>>

ListFails ==
    /\ pc = "list"
    /\ Fault
    /\ obj' = NotReady(obj, "ListFailed")
    /\ pc' = "putListFailed"
    /\ UNCHANGED <<storeVars, mcache, queue, key, fresh, now, edits, crashes,
                   clusterVars, emitted>>

\* The List of the operators, which the cache returns in no particular order,
\* and the correlation.
Correlate ==
    /\ pc = "list"
    /\ LET hs == HealthsOf(obj.spec, ocache)
       IN  /\ \E list \in SetToSeqs(hs) : obj' = Report(obj, list)
           /\ emitted' = HealthEvents(hs)
    /\ pc' = "putReport"
    /\ UNCHANGED <<storeVars, mcache, queue, key, fresh, boundVars, clusterVars>>

\* Faulty variant: no RequeueAfter after a failed List.
PutListFailed_NoRetry ==
    /\ pc = "putListFailed"
    /\ StatusUpdated \/ StatusUpdateFailed
    /\ Finished
    /\ UNCHANGED <<mcache, now, edits, crashes, clusterVars, emitted>>

\* The error of this update is logged and dropped; the check is repeated after
\* 30 seconds in any case.
PutListFailed ==
    /\ pc = "putListFailed"
    /\ StatusUpdated \/ StatusUpdateFailed
    /\ FinishedRequeue
    /\ UNCHANGED <<mcache, now, edits, crashes, clusterVars, emitted>>

\* Faulty variant: the error of the status update is logged and dropped.
PutReport_ErrorDropped ==
    /\ pc = "putReport"
    /\ \/ StatusUpdated /\ FinishedRequeue
       \/ StatusUpdateFailed /\ Finished
    /\ emitted' = {}
    /\ UNCHANGED <<mcache, now, edits, crashes, clusterVars>>

\* CheckIntervalMinutes is at least 1, so that success requeues as well.
PutReport ==
    /\ pc = "putReport"
    /\ StatusUpdated \/ StatusUpdateFailed
    /\ FinishedRequeue
    /\ emitted' = {}
    /\ UNCHANGED <<mcache, now, edits, crashes, clusterVars>>

Restart ==
    /\ RestartRuntime
    /\ ocache' = operators
    /\ owatch' = [c \in Operators |-> <<>>]
    /\ emitted' = {}
    /\ UNCHANGED operators

-----------------------------------------------------------------------------
Reconcile ==
    \/ GetFails
    \/ MonitorGone
    \/ ReconcileSuspended
    \/ ReconcileActive
    \/ PutSuspended
    \/ ListFails
    \/ Correlate
    \/ PutListFailed
    \/ PutReport

RuntimeStep(m) ==
    /\ \/ \E s \in Specs : CreateMonitor(m, s, NoStatus) \/ UpdateSpec(m, s)
       \/ DeleteMonitor(m)
       \/ DeliverMonitor(m)
       \/ FireTimer(m)
       \/ Dequeue(m)
    /\ UNCHANGED <<clusterVars, emitted>>

Clock == Tick /\ UNCHANGED <<clusterVars, emitted>>

Arrival(u) == LateUpdate(u) /\ UNCHANGED <<clusterVars, emitted>>

Init ==
    /\ RuntimeInit
    /\ operators \in [Operators -> OperatorStatuses \cup {Nil}]
    /\ ocache = operators
    /\ owatch = [c \in Operators |-> <<>>]
    /\ emitted = {}

Next ==
    \/ \E m \in Monitors : RuntimeStep(m)
    \/ \E c \in Operators : \E o \in OperatorStatuses \cup {Nil} : ChangeOperator(c, o)
    \/ \E c \in Operators : DeliverOperator(c)
    \/ Reconcile
    \/ Clock
    \/ \E u \in late : Arrival(u)
    \/ Restart

Spec == Init /\ [][Next]_vars

\* The informers, the queue and the worker keep running; users, the cluster
\* and the clock owe nothing.
Fairness ==
    /\ WF_vars(Reconcile)
    /\ \A m \in Monitors :
          /\ WF_vars(DeliverMonitor(m) /\ UNCHANGED <<clusterVars, emitted>>)
          /\ WF_vars(FireTimer(m) /\ UNCHANGED <<clusterVars, emitted>>)
          /\ WF_vars(Dequeue(m) /\ UNCHANGED <<clusterVars, emitted>>)
    /\ \A c \in Operators : WF_vars(DeliverOperator(c))

FairSpec == Spec /\ Fairness

=============================================================================
