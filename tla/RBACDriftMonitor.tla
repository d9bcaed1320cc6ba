-------------------------- MODULE RBACDriftMonitor --------------------------
(***************************************************************************)
(* The RBAC drift controller: internal/controller/                         *)
(* rbacdriftmonitor_controller.go on the runtime of ControllerRuntime.     *)
(*                                                                         *)
(* A ref stands for one ClusterRole, ClusterRoleBinding, Role or           *)
(* RoleBinding, that is a kind, a name and a namespace.  A list of a       *)
(* baseline is the set of its entries: the checks take them in any order,  *)
(* of which the order of the code is one.                                  *)
(***************************************************************************)
EXTENDS ControllerRuntime, EventRecorder

CONSTANTS
    Refs,        \* the RBAC resources
    KindOf,      \* the kind of each
    Contents,    \* what a resource grants: rules, or roleRef and subjects
    NormRules,   \* sortPolicyRules on contents
    NilLists,    \* the contents without any rule, or without any subject
    AnnKeys,     \* annotation keys
    PrefixedBy   \* for each exclude pattern, the refs whose name it prefixes

Kinds == {"ClusterRole", "ClusterRoleBinding", "Role", "RoleBinding"}
RoleKinds == {"ClusterRole", "Role"}

Entry == [ref : Refs, want : Contents]
Resource == [content : Contents, ann : SUBSET AnnKeys]

RulesBased    == "rules"
SnapshotBased == "snapshot"

SpecRecord ==
    [baseline : SUBSET Entry,
     severity : {"Warning", "Critical"},
     suspend : BOOLEAN,
     mode : STRING,
     detectUnexpected : BOOLEAN,
     excludePatterns : SUBSET DOMAIN PrefixedBy,
     excludeAnnotations : SUBSET AnnKeys]

ASSUME RBACAssumption ==
    /\ KindOf \in [Refs -> Kinds]
    /\ NormRules \in [Contents -> Contents]
    /\ NilLists \subseteq Contents
    /\ \A p \in DOMAIN PrefixedBy : PrefixedBy[p] \subseteq Refs
    /\ Specs \subseteq SpecRecord
    /\ Nil \notin Resource

VARIABLES
    rbac,     \* the RBAC resources in the API server, or Nil
    rwatch,   \* per resource, the versions not yet in the cache
    rcache,   \* the informer cache of the RBAC resources
    todo,     \* baseline entries the running check has still to compare
    items,    \* driftItems of the running check
    at,       \* now of the running check
    kinds,    \* kinds the running snapshot or detection has still to list
    snapshot, \* snapshot of MakeBaselineSnapshot
    unexpected  \* driftItems of DetectUnexpectedDrifts

clusterVars == <<rbac, rwatch, rcache>>
checkVars   == <<todo, items, at, kinds, snapshot, unexpected>>
vars == <<runtimeVars, rbac, rwatch, rcache, todo, items, at, kinds, snapshot,
          unexpected, told, unsent, events>>

DriftType == {"Modified", "Deleted", "Unexpected"}
Drift == [ref : Refs, type : DriftType, at : Nat]
ConditionType == {"Ready", "DriftDetected"}
Reason == {"Suspended", "BaselineSnapshotFailed", "DriftFound", "NoDrift",
           "ReconcileComplete"}
Event == [reason : {"DriftDetected", "UnexpectedDriftDetected"},
          monitor : Monitors, ref : Refs, type : DriftType]

Status ==
    [conds : [ConditionType -> Condition(Reason) \cup {Nil}],
     items : SUBSET Drift,
     lastCheck : Nat,
     obsGen : Nat,
     snap : (SUBSET Entry) \cup {Nil}]

ASSUME NilIsNoObject ==
    /\ Nil \notin MonitorObject(Status)
    /\ Nil \notin Condition(Reason)
    /\ \A S \in SUBSET Entry : S # Nil

NoStatus ==
    [conds |-> [t \in ConditionType |-> Nil],
     items |-> {}, lastCheck |-> 0, obsGen |-> 0, snap |-> Nil]

-----------------------------------------------------------------------------
(***************************************************************************)
(* The cluster: someone creates, changes or deletes an RBAC resource.  The *)
(* watch event maps to the monitors whose spec, as cached at that moment,  *)
(* is not suspended and references the resource; when the list of monitors *)
(* fails the event is dropped.                                             *)
(***************************************************************************)
ChangeResource(r, o) ==
    /\ edits < MaxEdits
    /\ o # rbac[r]
    /\ rbac' = [rbac EXCEPT ![r] = o]
    /\ rwatch' = [rwatch EXCEPT ![r] = Append(@, o)]
    /\ edits' = edits + 1
    /\ UNCHANGED <<storeVars, mcache, queue, workerVars, now, faults, crashes,
                   rcache, checkVars, eventVars>>

\* Faulty variant: the switch over the kinds forgets the bindings.
baselineReferencesResource_RolesOnly(spec, r) ==
    KindOf[r] \in RoleKinds /\ \E e \in spec.baseline : e.ref = r

baselineReferencesResource(spec, r) == \E e \in spec.baseline : e.ref = r

mapRBACToMonitor(r) ==
    {m \in Monitors : /\ mcache[m] # Nil
                      /\ ~mcache[m].spec.suspend
                      /\ baselineReferencesResource(mcache[m].spec, r)}

DeliverResource(r) ==
    /\ rwatch[r] # <<>>
    /\ rcache' = [rcache EXCEPT ![r] = Head(rwatch[r])]
    /\ rwatch' = [rwatch EXCEPT ![r] = Tail(@)]
    /\ \/ queue' = Enqueue(mapRBACToMonitor(r)) /\ UNCHANGED faults
       \/ Fault /\ UNCHANGED queue
    /\ UNCHANGED <<storeVars, mcache, workerVars, now, edits, crashes,
                   rbac, checkVars, eventVars>>

-----------------------------------------------------------------------------
(***************************************************************************)
(* Comparing one baseline entry with the resource read from the cache.     *)
(***************************************************************************)
Differs(e, actual) ==
    IF KindOf[e.ref] \in RoleKinds
    THEN NormRules[e.want] # NormRules[actual.content]
    ELSE e.want # actual.content

CompareEntry(e, actual) ==
    CASE actual = Nil       -> "Deleted"
      [] actual # Nil /\ Differs(e, actual) -> "Modified"
      [] OTHER              -> "Match"

CheckedEntries(o) ==
    IF o.spec.mode = SnapshotBased
    THEN {e \in o.status.snap : KindOf[e.ref] = "ClusterRole"}
    ELSE o.spec.baseline

ListedKinds == {KindOf[r] : r \in Refs}

SnapshotOf(k) ==
    {[ref |-> r, want |-> rcache[r].content] :
        r \in {q \in Refs : KindOf[q] = k /\ rcache[q] # Nil}}

(***************************************************************************)
(* Detection of unexpected resources: the ones in the cache that no entry  *)
(* of .spec.baseline names and no exclusion covers.                        *)
(***************************************************************************)
shouldExclude(r, ann, spec) ==
    \/ \E p \in spec.excludePatterns : r \in PrefixedBy[p]
    \/ ann \cap spec.excludeAnnotations # {}

UnexpectedRefs(spec, k) ==
    {r \in Refs : /\ KindOf[r] = k
                  /\ rcache[r] # Nil
                  /\ ~baselineReferencesResource(spec, r)
                  /\ ~shouldExclude(r, rcache[r].ann, spec)}

(***************************************************************************)
(* r.Recorder.Event.  client-go takes Normal and Warning events and        *)
(* refuses an event of any other type at the call; what becomes of those   *)
(* it takes is EventRecorder's.                                            *)
(***************************************************************************)
Recorded(eventType, es) == IF eventType \in {"Normal", "Warning"} THEN es ELSE {}

\* Faulty variant: an event only for what the status does not list yet.
DriftEvents_NewOnly(o, ds) ==
    Recorded("Warning",
             {[reason |-> "DriftDetected", monitor |-> key,
               ref |-> d.ref, type |-> d.type] :
                 d \in {f \in ds : \A g \in o.status.items :
                                     g.ref # f.ref \/ g.type # f.type}})

\* Faulty variant: the severity as the type of the event.
DriftEvents_BySeverity(o, ds) ==
    Recorded(o.spec.severity,
             {[reason |-> "DriftDetected", monitor |-> key,
               ref |-> d.ref, type |-> d.type] : d \in ds})

DriftEvents(o, ds) ==
    Recorded("Warning",
             {[reason |-> "DriftDetected", monitor |-> key,
               ref |-> d.ref, type |-> d.type] : d \in ds})

UnexpectedEvents(o, rs) ==
    Recorded(IF o.spec.severity = "Critical" THEN "Critical" ELSE "Warning",
             {[reason |-> "UnexpectedDriftDetected", monitor |-> key,
               ref |-> r, type |-> "Unexpected"] : r \in rs})

-----------------------------------------------------------------------------
(***************************************************************************)
(* Reconcile, one action per call to the API server or to the cache.       *)
(***************************************************************************)
ClearCheck ==
    /\ todo' = {}
    /\ items' = {}
    /\ at' = 0
    /\ kinds' = {}
    /\ snapshot' = {}
    /\ unexpected' = {}

StartListing(phase) ==
    /\ pc' = phase
    /\ kinds' = ListedKinds
    /\ UNCHANGED <<todo, items, at, snapshot, unexpected>>

StartCheck(o) ==
    /\ pc' = "check"
    /\ todo' = CheckedEntries(o)
    /\ at' = now
    /\ unexpected' = {}
    /\ UNCHANGED <<items, kinds, snapshot>>

\* Where Reconcile goes with the copy o once there is a snapshot, or none is
\* needed.
Proceed(o) ==
    IF o.spec.detectUnexpected THEN StartListing("unexpected") ELSE StartCheck(o)

GetFails ==
    /\ pc = "get"
    /\ Fault
    /\ FinishedRequeue
    /\ UNCHANGED <<storeVars, mcache, now, edits, crashes,
                   clusterVars, checkVars, eventVars>>

\* Faulty variant: the return is missing and the empty object is checked.
MonitorGone_GoesOn ==
    /\ pc = "get"
    /\ mcache[key] = Nil
    /\ pc' = "check"
    /\ UNCHANGED <<storeVars, mcache, queue, key, obj, fresh, boundVars,
                   clusterVars, checkVars, eventVars>>

MonitorGone ==
    /\ pc = "get"
    /\ mcache[key] = Nil
    /\ Finished
    /\ UNCHANGED <<storeVars, mcache, boundVars, clusterVars, checkVars, eventVars>>

\* Faulty variant: the condition is set to True.
NotReady_ConditionTrue(o, reason) ==
    [o EXCEPT !.status.conds =
        SetStatusCondition(@, "Ready", TRUE, reason, o.gen)]

NotReady(o, reason) ==
    [o EXCEPT !.status.conds =
        SetStatusCondition(@, "Ready", FALSE, reason, o.gen)]

ReconcileSuspended ==
    /\ pc = "get"
    /\ mcache[key] # Nil
    /\ mcache[key].spec.suspend
    /\ CopyFromCache(NotReady(mcache[key], "Suspended"))
    /\ pc' = "putSuspended"
    /\ UNCHANGED <<storeVars, mcache, queue, key, boundVars,
                   clusterVars, checkVars, eventVars>>

\* Faulty variant: the suspended monitor is reconciled as well.
ReconcileActive_SuspendIgnored ==
    /\ pc = "get"
    /\ mcache[key] # Nil
    /\ CopyFromCache(mcache[key])
    /\ Proceed(mcache[key])
    /\ UNCHANGED <<storeVars, mcache, queue, key, boundVars, clusterVars, eventVars>>

\* Faulty variant: a new snapshot on every reconcile.
ReconcileActive_Resnapshot ==
    /\ pc = "get"
    /\ mcache[key] # Nil
    /\ ~mcache[key].spec.suspend
    /\ CopyFromCache(mcache[key])
    /\ IF mcache[key].spec.mode = SnapshotBased
       THEN StartListing("snapshot")
       ELSE Proceed(mcache[key])
    /\ UNCHANGED <<storeVars, mcache, queue, key, boundVars, clusterVars, eventVars>>

\* Faulty variant: every reconcile first writes Ready = False to the status.
ReconcileActive_MarksProgress ==
    /\ pc = "get"
    /\ mcache[key] # Nil
    /\ mwatch[key] = <<>>
    /\ ~mcache[key].spec.suspend
    /\ obj' = NotReady(mcache[key], "Suspended")
    /\ fresh' = TRUE
    /\ Write(key, obj')
    /\ Proceed(obj')
    /\ UNCHANGED <<mcache, queue, key, boundVars, clusterVars, eventVars>>

ReconcileActive ==
    /\ pc = "get"
    /\ mcache[key] # Nil
    /\ ~mcache[key].spec.suspend
    /\ CopyFromCache(mcache[key])
    /\ IF mcache[key].spec.mode = SnapshotBased /\ mcache[key].status.snap = Nil
       THEN StartListing("snapshot")
       ELSE Proceed(mcache[key])
    /\ UNCHANGED <<storeVars, mcache, queue, key, boundVars, clusterVars, eventVars>>

\* Faulty variant: the error of the status update is logged and dropped.
PutSuspended_ErrorDropped ==
    /\ pc = "putSuspended"
    /\ StatusUpdated \/ StatusUpdateFailed
    /\ Finished
    /\ UNCHANGED <<mcache, now, edits, crashes, clusterVars, checkVars, eventVars>>

PutSuspended ==
    /\ pc = "putSuspended"
    /\ \/ StatusUpdated /\ Finished
       \/ StatusUpdateFailed /\ FinishedRequeue
    /\ UNCHANGED <<mcache, now, edits, crashes, clusterVars, checkVars, eventVars>>

SnapshotKind(k) ==
    /\ pc = "snapshot"
    /\ k \in kinds
    /\ kinds' = kinds \ {k}
    /\ snapshot' = snapshot \cup SnapshotOf(k)
    /\ UNCHANGED <<storeVars, mcache, queue, workerVars, boundVars, clusterVars,
                   todo, items, at, unexpected, eventVars>>

\* Faulty variant: Reconcile goes on when the snapshot could not be made.
SnapshotFails_GoesOn ==
    /\ pc = "snapshot"
    /\ kinds # {}
    /\ Fault
    /\ pc' = "check"
    /\ ClearCheck
    /\ UNCHANGED <<storeVars, mcache, queue, key, obj, fresh, now, edits, crashes,
                   clusterVars, eventVars>>

\* The first List that fails ends the snapshot.
SnapshotFails ==
    /\ pc = "snapshot"
    /\ kinds # {}
    /\ Fault
    /\ obj' = NotReady(obj, "BaselineSnapshotFailed")
    /\ pc' = "putSnapshotFailed"
    /\ ClearCheck
    /\ UNCHANGED <<storeVars, mcache, queue, key, fresh, now, edits, crashes,
                   clusterVars, eventVars>>

SnapshotListed ==
    /\ pc = "snapshot"
    /\ kinds = {}
    /\ obj' = [obj EXCEPT !.status.snap = snapshot]
    /\ pc' = "putSnapshot"
    /\ ClearCheck
    /\ UNCHANGED <<storeVars, mcache, queue, key, fresh, boundVars, clusterVars,
                   eventVars>>

\* A captured nil list is null in the request, where the CRD requires an array:
\* the API server refuses the status, whatever else it says.
Admitted(status) == status.snap # Nil => \A e \in status.snap : e.want \notin NilLists

SnapshotStored == Admitted(obj.status) /\ StatusUpdated

SnapshotNotStored ==
    \/ Admitted(obj.status) /\ StatusUpdateFailed
    \/ ~Admitted(obj.status) /\ UNCHANGED <<storeVars, faults>>

PutSnapshot ==
    /\ pc = "putSnapshot"
    /\ \/ /\ SnapshotStored
          /\ obj' = api'[key]
          /\ fresh' = TRUE
          /\ Proceed(api'[key])
       \/ /\ SnapshotNotStored
          /\ fresh' = (fresh /\ api' = api)
          /\ obj' = NotReady(obj, "BaselineSnapshotFailed")
          /\ pc' = "putSnapshotFailed"
          /\ UNCHANGED checkVars
    /\ UNCHANGED <<mcache, queue, key, now, edits, crashes, clusterVars, eventVars>>

\* Faulty variant: the error of the status update is logged and dropped.
PutSnapshotFailed_ErrorDropped ==
    /\ pc = "putSnapshotFailed"
    /\ SnapshotStored \/ SnapshotNotStored
    /\ Finished
    /\ UNCHANGED <<mcache, now, edits, crashes, clusterVars, checkVars, eventVars>>

\* The copy still holds the snapshot that could not be stored.
PutSnapshotFailed ==
    /\ pc = "putSnapshotFailed"
    /\ \/ SnapshotStored /\ Finished
       \/ SnapshotNotStored /\ FinishedRequeue
    /\ UNCHANGED <<mcache, now, edits, crashes, clusterVars, checkVars, eventVars>>

\* detectUnexpectedCRBs and its three siblings.  A kind whose List fails is left
\* out.
DetectUnexpected(k) ==
    /\ pc = "unexpected"
    /\ k \in kinds
    /\ kinds' = kinds \ {k}
    /\ \/ Fault /\ UNCHANGED unexpected
       \/ /\ unexpected' = unexpected \cup UnexpectedRefs(obj.spec, k)
          /\ UNCHANGED faults
    /\ UNCHANGED <<storeVars, mcache, queue, workerVars, now, edits, crashes,
                   clusterVars, todo, items, at, snapshot, eventVars>>

DetectUnexpectedDrifts ==
    /\ pc = "unexpected"
    /\ kinds = {}
    /\ Record(UnexpectedEvents(obj, unexpected))
    /\ StartCheck(obj)
    /\ UNCHANGED <<storeVars, mcache, queue, key, obj, fresh, boundVars, clusterVars>>

CheckEntry(e) ==
    /\ pc = "check"
    /\ e \in todo
    /\ todo' = todo \ {e}
    /\ \/ Fault /\ UNCHANGED items
       \/ /\ UNCHANGED faults
          /\ LET type == CompareEntry(e, rcache[e.ref])
             IN  items' = IF type = "Match" THEN items
                          ELSE items \cup {[ref |-> e.ref, type |-> type, at |-> at]}
    /\ UNCHANGED <<storeVars, mcache, queue, workerVars, now, edits, crashes,
                   clusterVars, at, kinds, snapshot, unexpected, eventVars>>

\* Faulty variant: no else branch, as in checkDriftSnapshotBased.
DriftCondition_NoElse(conds, ds, gen) ==
    IF ds # {}
    THEN SetStatusCondition(conds, "DriftDetected", TRUE, "DriftFound", gen)
    ELSE conds

DriftCondition(conds, ds, gen) ==
    IF ds # {}
    THEN SetStatusCondition(conds, "DriftDetected", TRUE, "DriftFound", gen)
    ELSE SetStatusCondition(conds, "DriftDetected", FALSE, "NoDrift", gen)

Report(o) ==
    [o EXCEPT !.status.items = items,
              !.status.lastCheck = at,
              !.status.obsGen = o.gen,
              !.status.conds =
                  SetStatusCondition(DriftCondition(@, items, o.gen),
                                     "Ready", TRUE, "ReconcileComplete", o.gen)]

FinishRulesBased ==
    /\ pc = "check"
    /\ todo = {}
    /\ obj.spec.mode # SnapshotBased
    /\ Record(DriftEvents(obj, items))
    /\ obj' = Report(obj)
    /\ pc' = "putReport"
    /\ ClearCheck
    /\ UNCHANGED <<storeVars, mcache, queue, key, fresh, boundVars, clusterVars>>

\* The snapshot check fills the status of the in-memory copy and returns
\* Result{}, nil: the copy is dropped.
FinishSnapshotBased ==
    /\ pc = "check"
    /\ todo = {}
    /\ obj.spec.mode = SnapshotBased
    /\ Record(DriftEvents(obj, items))
    /\ Finished
    /\ ClearCheck
    /\ UNCHANGED <<storeVars, mcache, boundVars, clusterVars>>

\* Faulty variant: the error of the status update is logged and dropped.
PutReport_ErrorDropped ==
    /\ pc = "putReport"
    /\ \/ StatusUpdated /\ FinishedRequeue
       \/ StatusUpdateFailed /\ Finished
    /\ UNCHANGED <<mcache, now, edits, crashes, clusterVars, checkVars, eventVars>>

\* Faulty variant: no RequeueAfter, as in checkDriftSnapshotBased.
PutReport_NoRecheck ==
    /\ pc = "putReport"
    /\ \/ StatusUpdated /\ Finished
       \/ StatusUpdateFailed /\ FinishedRequeue
    /\ UNCHANGED <<mcache, now, edits, crashes, clusterVars, checkVars, eventVars>>

\* Faulty variant: a patch of the status, without the resourceVersion.
PutReport_Patch ==
    /\ pc = "putReport"
    /\ IF api[key] # Nil THEN WriteStatus ELSE UNCHANGED storeVars
    /\ FinishedRequeue
    /\ UNCHANGED <<mcache, boundVars, clusterVars, checkVars, eventVars>>

\* CheckIntervalMinutes is at least 1, so that success requeues as well.
PutReport ==
    /\ pc = "putReport"
    /\ StatusUpdated \/ StatusUpdateFailed
    /\ FinishedRequeue
    /\ UNCHANGED <<mcache, now, edits, crashes, clusterVars, checkVars, eventVars>>

\* The other goroutine of the recorder.
Broadcast ==
    /\ SendEvent \/ DropEvent
    /\ UNCHANGED <<runtimeVars, clusterVars, checkVars>>

Restart ==
    /\ RestartRuntime
    /\ late' # late => Admitted(obj.status)
    /\ rcache' = rbac
    /\ rwatch' = [r \in Refs |-> <<>>]
    /\ ClearCheck
    /\ DropUnsent
    /\ UNCHANGED rbac

-----------------------------------------------------------------------------
Reconcile ==
    \/ GetFails
    \/ MonitorGone
    \/ ReconcileSuspended
    \/ ReconcileActive
    \/ PutSuspended
    \/ \E k \in kinds : SnapshotKind(k)
    \/ SnapshotFails
    \/ SnapshotListed
    \/ PutSnapshot
    \/ PutSnapshotFailed
    \/ \E k \in kinds : DetectUnexpected(k)
    \/ DetectUnexpectedDrifts
    \/ \E e \in todo : CheckEntry(e)
    \/ FinishRulesBased
    \/ FinishSnapshotBased
    \/ PutReport

RuntimeStep(m) ==
    /\ \/ \E s \in Specs : CreateMonitor(m, s, NoStatus) \/ UpdateSpec(m, s)
       \/ DeleteMonitor(m)
       \/ DeliverMonitor(m)
       \/ FireTimer(m)
       \/ Dequeue(m)
    /\ UNCHANGED <<clusterVars, checkVars, eventVars>>

Clock == Tick /\ UNCHANGED <<clusterVars, checkVars, eventVars>>

Arrival(u) == LateUpdate(u) /\ UNCHANGED <<clusterVars, checkVars, eventVars>>

Init ==
    /\ RuntimeInit
    /\ rbac \in [Refs -> Resource \cup {Nil}]
    /\ rcache = rbac
    /\ rwatch = [r \in Refs |-> <<>>]
    /\ todo = {}
    /\ items = {}
    /\ at = 0
    /\ kinds = {}
    /\ snapshot = {}
    /\ unexpected = {}
    /\ RecorderInit

Next ==
    \/ \E m \in Monitors : RuntimeStep(m)
    \/ \E r \in Refs : \E o \in Resource \cup {Nil} : ChangeResource(r, o)
    \/ \E r \in Refs : DeliverResource(r)
    \/ Reconcile
    \/ Clock
    \/ \E u \in late : Arrival(u)
    \/ Broadcast
    \/ Restart

Spec == Init /\ [][Next]_vars

\* The informers, the queue and the worker keep running; users, the cluster
\* and the clock owe nothing.  The recorder may drop an Event, but not every one
\* that it is given again and again.
Fairness ==
    /\ WF_vars(Reconcile)
    /\ \A m \in Monitors :
          /\ WF_vars(DeliverMonitor(m) /\ UNCHANGED <<clusterVars, checkVars, eventVars>>)
          /\ WF_vars(FireTimer(m) /\ UNCHANGED <<clusterVars, checkVars, eventVars>>)
          /\ WF_vars(Dequeue(m) /\ UNCHANGED <<clusterVars, checkVars, eventVars>>)
    /\ \A r \in Refs : WF_vars(DeliverResource(r))
    /\ SF_vars(SendEvent /\ UNCHANGED <<runtimeVars, clusterVars, checkVars>>)

FairSpec == Spec /\ Fairness

=============================================================================
