--------------------------- MODULE RBACDriftProofs ---------------------------
(***************************************************************************)
(* Proofs about RBACDriftMonitor for every number of monitors, every spec, *)
(* every set of RBAC resources and every bound:                            *)
(*   TypeCorrect      the type invariant                                   *)
(*   SnapshotPresent  SnapshotIsThereForTheCheck, with the former from the *)
(*                    inductive TypeInv                                    *)
(*   NothingLost      ActiveIsScheduled, from the inductive SchedulingInv  *)
(***************************************************************************)
EXTENDS RBACDriftProperties, TLAPS

MonitorObjects == MonitorObject(Status)

\* Adding keys to the work queue keeps its type, and its entries.
LEMMA EnqueueFacts ==
    ASSUME queue \in [Monitors -> QueueState], NEW ms
    PROVE  /\ Enqueue(ms) \in [Monitors -> QueueState]
           /\ \A m \in Monitors : queue[m] # "none" => Enqueue(ms)[m] # "none"
           /\ \A m \in Monitors : queue[m] = "ready" => Enqueue(ms)[m] = "ready"
           /\ \A m \in Monitors \cap ms : Enqueue(ms)[m] = "ready"
BY DEF Enqueue, QueueState

LEMMA EnqueueAfterFacts ==
    ASSUME queue \in [Monitors -> QueueState], NEW m \in Monitors
    PROVE  /\ EnqueueAfter(m) \in [Monitors -> QueueState]
           /\ EnqueueAfter(m)[m] # "none"
           /\ \A n \in Monitors \ {m} : EnqueueAfter(m)[n] = queue[n]
BY DEF EnqueueAfter, QueueState

\* A write keeps the type of the store and leaves a version on the watch.
LEMMA WriteFacts ==
    ASSUME StoreTypeOK, NEW m \in Monitors, NEW o \in Version, Write(m, o)
    PROVE  /\ StoreTypeOK'
           /\ mwatch'[m] # <<>>
           /\ mwatch'[m][Len(mwatch'[m])] = o
           /\ api'[m] = o
           /\ \A n \in Monitors \ {m} : api'[n] = api[n] /\ mwatch'[n] = mwatch[n]
<1>1. mwatch[m] \in Seq(Version)
  BY DEF StoreTypeOK
<1>2. /\ Append(mwatch[m], o) \in Seq(Version)
      /\ Append(mwatch[m], o) # <<>>
      /\ Append(mwatch[m], o)[Len(Append(mwatch[m], o))] = o
  BY <1>1
<1>3. /\ mwatch'[m] = Append(mwatch[m], o)
      /\ api'[m] = o
      /\ \A n \in Monitors \ {m} : api'[n] = api[n] /\ mwatch'[n] = mwatch[n]
  BY DEF Write, StoreTypeOK
<1>4. StoreTypeOK'
  BY <1>2 DEF Write, StoreTypeOK
<1> QED
  BY <1>2, <1>3, <1>4

\* What Status().Update does to the stored monitors: nothing, or a write that
\* keeps the spec.
StatusWritten ==
    \/ UNCHANGED <<api, mwatch>>
    \/ \E o \in MonitorObjects : /\ Write(key, o)
                                 /\ api[key] # Nil
                                 /\ o.spec = api[key].spec

LEMMA WriteStatusFacts ==
    ASSUME RuntimeTypeOK, pc \in PutPhases, Current, WriteStatus
    PROVE  /\ StatusWritten
           /\ StoreTypeOK'
           /\ api'[key] \in MonitorObjects
           /\ api'[key].spec = api[key].spec
           /\ api'[key].status = obj.status
<1>1. key \in Monitors /\ obj \in MonitorObjects
  BY DEF RuntimeTypeOK, StoreTypeOK, PutPhases, Version, MonitorObjects
<1>2. api[key] \in MonitorObjects
  BY <1>1 DEF RuntimeTypeOK, StoreTypeOK, Version, MonitorObjects, Current
<1>3. CASE api[key].status = obj.status
  BY <1>2, <1>3 DEF WriteStatus, StatusWritten, RuntimeTypeOK, StoreTypeOK, storeVars
<1>4. CASE api[key].status # obj.status
  <2> DEFINE o == [api[key] EXCEPT !.status = obj.status]
  <2>1. /\ o \in MonitorObjects
        /\ o.spec = api[key].spec
        /\ o.status = obj.status
    <3>1. /\ obj.status \in Status
          /\ api[key] \in [gen : Nat, spec : Specs, status : Status]
      BY <1>1, <1>2 DEF MonitorObjects, MonitorObject
    <3> QED
      BY <3>1 DEF MonitorObjects, MonitorObject
  <2>2. Write(key, o)
    BY <1>4 DEF WriteStatus
  <2>3. o \in Version
    BY <2>1 DEF Version, MonitorObjects
  <2>4. api'[key] = o /\ StoreTypeOK'
    BY <1>1, <2>2, <2>3, WriteFacts DEF RuntimeTypeOK
  <2> QED
    BY <2>1, <2>2, <2>4 DEF StatusWritten, Current
<1> QED
  BY <1>3, <1>4

\* A request that is left on the way carries a status.
LEMMA AbandonedType ==
    ASSUME RuntimeTypeOK, pc \in PutPhases
    PROVE  /\ Abandoned \in SUBSET LateUpdates(Status)
           /\ \A u \in Abandoned : u.key = key
<1>1. key \in Monitors /\ obj.status \in Status
  BY DEF RuntimeTypeOK, PutPhases, Version, MonitorObject
<1> QED
  BY <1>1 DEF Abandoned, LateUpdates

LEMMA StatusCallFacts ==
    ASSUME RuntimeTypeOK, pc \in PutPhases, StatusUpdated \/ StatusUpdateFailed
    PROVE  /\ StatusWritten
           /\ StoreTypeOK'
           /\ faults' \in Nat
<1>1. faults' \in Nat
  BY DEF StatusUpdated, StatusUpdateFailed, Fault, RuntimeTypeOK
<1>2. CASE Current /\ WriteStatus
  BY <1>1, <1>2, WriteStatusFacts
<1>3. CASE UNCHANGED storeVars
  BY <1>1, <1>3 DEF StatusWritten, RuntimeTypeOK, StoreTypeOK, storeVars
<1>4. CASE Current /\ UNCHANGED <<api, mwatch>> /\ late' = late \cup Abandoned
  BY <1>1, <1>4, AbandonedType DEF StatusWritten, Current, RuntimeTypeOK, StoreTypeOK
<1> QED
  BY <1>2, <1>3, <1>4 DEF StatusUpdated, StatusUpdateFailed, storeVars

\* The same of an update that the CRD may refuse.
LEMMA SnapshotCallFacts ==
    ASSUME RuntimeTypeOK, pc \in PutPhases, SnapshotStored \/ SnapshotNotStored
    PROVE  /\ StatusWritten
           /\ StoreTypeOK'
           /\ faults' \in Nat
<1>1. CASE UNCHANGED <<storeVars, faults>>
  BY <1>1 DEF StatusWritten, RuntimeTypeOK, StoreTypeOK, storeVars
<1> QED
  BY <1>1, StatusCallFacts DEF SnapshotStored, SnapshotNotStored

\* An abandoned update that arrives writes a version with the same spec, or
\* changes nothing.
LEMMA LateUpdateFacts ==
    ASSUME RuntimeTypeOK, NEW u \in late, LateUpdate(u)
    PROVE  /\ \/ UNCHANGED <<api, mwatch>>
              \/ \E m \in Monitors : \E o \in MonitorObjects : Write(m, o)
           /\ StoreTypeOK'
           /\ fresh' \in BOOLEAN
<1>1. u.key \in Monitors /\ u.status \in Status /\ api[u.key] # Nil
  BY DEF RuntimeTypeOK, StoreTypeOK, LateUpdates
<1>2. CASE api[u.key].status = u.status
  BY <1>2 DEF LateUpdate, RuntimeTypeOK, StoreTypeOK
<1>3. CASE api[u.key].status # u.status
  <2> DEFINE o == [api[u.key] EXCEPT !.status = u.status]
  <2>1. api[u.key] \in [gen : Nat, spec : Specs, status : Status]
    BY <1>1 DEF RuntimeTypeOK, StoreTypeOK, Version, MonitorObject
  <2>2. o \in MonitorObjects
    BY <1>1, <2>1 DEF MonitorObjects, MonitorObject
  <2>3. Write(u.key, o)
    BY <1>3 DEF LateUpdate
  <2>4. StoreTypeOK'
    BY <1>1, <2>2, <2>3, WriteFacts DEF RuntimeTypeOK, Version, MonitorObjects
  <2>5. fresh' \in BOOLEAN
    BY <1>3, Zenon DEF LateUpdate, RuntimeTypeOK
  <2> QED
    BY <1>1, <2>2, <2>3, <2>4, <2>5
<1> QED
  BY <1>2, <1>3

-----------------------------------------------------------------------------
(***************************************************************************)
(* The type invariant, one lemma per group of actions.                     *)
(***************************************************************************)
LEMMA NoStatusType == NoStatus \in Status
BY DEF NoStatus, Status, ConditionType

\* What a process gives to its recorder, and what becomes of it there.
LEMMA RecordType ==
    ASSUME RecorderTypeOK, NEW es \in SUBSET Event, Record(es)
    PROVE  RecorderTypeOK'
BY DEF RecorderTypeOK, Record

LEMMA BroadcastType ==
    ASSUME RecorderTypeOK, SendEvent \/ DropEvent \/ DropUnsent \/ UNCHANGED eventVars
    PROVE  RecorderTypeOK'
BY DEF RecorderTypeOK, SendEvent, DropEvent, DropUnsent, eventVars

\* The edits of a user, and the events of the monitor that follow.
LEMMA RuntimeStepType ==
    ASSUME TypeOK, NEW m \in Monitors, RuntimeStep(m)
    PROVE  TypeOK'
<1>1. RuntimeTypeOK'
  <2>1. ASSUME NEW s \in Specs, CreateMonitor(m, s, NoStatus)
        PROVE  RuntimeTypeOK'
    <3>1. [gen |-> 1, spec |-> s, status |-> NoStatus] \in Version
      BY NoStatusType DEF Version, MonitorObject, TypeOK, RuntimeTypeOK, StoreTypeOK
    <3>2. StoreTypeOK'
      BY <2>1, <3>1, WriteFacts DEF CreateMonitor, UserWrite, TypeOK, RuntimeTypeOK
    <3> QED
      BY <2>1, <3>2 DEF CreateMonitor, UserWrite, TypeOK, RuntimeTypeOK, workerVars
  <2>2. ASSUME NEW s \in Specs, UpdateSpec(m, s)
        PROVE  RuntimeTypeOK'
    <3>1. /\ api[m] \in [gen : Nat, spec : Specs, status : Status]
          /\ api[m].gen + 1 \in Nat
      BY <2>2
      DEF UpdateSpec, Version, MonitorObject, TypeOK, RuntimeTypeOK, StoreTypeOK
    <3>2. [api[m] EXCEPT !.gen = @ + 1, !.spec = s] \in Version
      BY <3>1 DEF Version, MonitorObject
    <3>3. StoreTypeOK'
      BY <2>2, <3>2, WriteFacts DEF UpdateSpec, UserWrite, TypeOK, RuntimeTypeOK
    <3> QED
      BY <2>2, <3>3 DEF UpdateSpec, UserWrite, TypeOK, RuntimeTypeOK, workerVars
  <2>3. CASE DeleteMonitor(m)
    <3>1. StoreTypeOK'
      BY <2>3, WriteFacts DEF DeleteMonitor, UserWrite, TypeOK, RuntimeTypeOK, Version
    <3> QED
      BY <2>3, <3>1 DEF DeleteMonitor, UserWrite, TypeOK, RuntimeTypeOK, workerVars
  <2>4. CASE DeliverMonitor(m)
    <3>1. mwatch[m] \in Seq(Version) /\ mwatch[m] # <<>>
      BY <2>4 DEF DeliverMonitor, TypeOK, RuntimeTypeOK, StoreTypeOK
    <3>2. Head(mwatch[m]) \in Version /\ Tail(mwatch[m]) \in Seq(Version)
      BY <3>1
    <3>3. queue' \in [Monitors -> QueueState]
      BY <2>4, EnqueueFacts DEF DeliverMonitor, TypeOK, RuntimeTypeOK
    <3> QED
      BY <2>4, <3>2, <3>3
      DEF DeliverMonitor, TypeOK, RuntimeTypeOK, StoreTypeOK, workerVars, boundVars
  <2>5. CASE FireTimer(m)
    <3>1. queue' \in [Monitors -> QueueState]
      BY <2>5, EnqueueFacts DEF FireTimer, TypeOK, RuntimeTypeOK
    <3> QED
      BY <2>5, <3>1
      DEF FireTimer, TypeOK, RuntimeTypeOK, StoreTypeOK, storeVars, workerVars, boundVars
  <2>6. CASE Dequeue(m)
    BY <2>6, NilAssumption
    DEF Dequeue, TypeOK, RuntimeTypeOK, StoreTypeOK, QueueState, Phases,
        storeVars, boundVars
  <2> QED
    BY <2>1, <2>2, <2>3, <2>4, <2>5, <2>6 DEF RuntimeStep
<1> QED
  BY <1>1 DEF RuntimeStep, TypeOK, clusterVars, checkVars, CheckTypeOK,
        eventVars, RecorderTypeOK

\* The RBAC resources and their watch events.
LEMMA ClusterStepType ==
    ASSUME TypeOK, NEW r \in Refs,
           \/ \E o \in Resource \cup {Nil} : ChangeResource(r, o)
           \/ DeliverResource(r)
    PROVE  TypeOK'
<1>1. ASSUME NEW o \in Resource \cup {Nil}, ChangeResource(r, o)
      PROVE  TypeOK'
  <2>1. Append(rwatch[r], o) \in Seq(Resource \cup {Nil})
    BY DEF TypeOK
  <2> QED
    BY <1>1, <2>1
    DEF ChangeResource, TypeOK, RuntimeTypeOK, StoreTypeOK, storeVars, workerVars,
        checkVars, CheckTypeOK,
        eventVars, RecorderTypeOK
<1>2. CASE DeliverResource(r)
  <2>1. rwatch[r] \in Seq(Resource \cup {Nil}) /\ rwatch[r] # <<>>
    BY <1>2 DEF DeliverResource, TypeOK
  <2>2. /\ Head(rwatch[r]) \in Resource \cup {Nil}
        /\ Tail(rwatch[r]) \in Seq(Resource \cup {Nil})
    BY <2>1
  <2>3. queue' \in [Monitors -> QueueState]
    BY <1>2, EnqueueFacts DEF DeliverResource, TypeOK, RuntimeTypeOK
  <2>4. faults' \in Nat
    BY <1>2 DEF DeliverResource, Fault, TypeOK, RuntimeTypeOK
  <2> QED
    BY <1>2, <2>2, <2>3, <2>4
    DEF DeliverResource, TypeOK, RuntimeTypeOK, StoreTypeOK, storeVars, workerVars,
        checkVars, CheckTypeOK,
        eventVars, RecorderTypeOK
<1> QED
  BY <1>1, <1>2

\* The values Reconcile builds.
Conditions == [ConditionType -> Condition(Reason) \cup {Nil}]

LEMMA SetStatusConditionType ==
    ASSUME NEW conds \in Conditions,
           NEW type \in ConditionType, NEW reason \in Reason, NEW gen \in Nat
    PROVE  /\ SetStatusCondition(conds, type, TRUE, reason, gen)
                  \in Conditions
           /\ SetStatusCondition(conds, type, FALSE, reason, gen)
                  \in Conditions
<1>1. /\ [status |-> TRUE, reason |-> reason, gen |-> gen] \in Condition(Reason)
      /\ [status |-> FALSE, reason |-> reason, gen |-> gen] \in Condition(Reason)
  BY DEF Condition
<1> QED
  BY <1>1 DEF SetStatusCondition, Conditions

LEMMA NotReadyFacts ==
    ASSUME NEW o \in MonitorObjects, NEW reason \in Reason
    PROVE  /\ NotReady(o, reason) \in MonitorObjects
           /\ NotReady(o, reason).spec = o.spec
<1> DEFINE c == SetStatusCondition(o.status.conds, "Ready", FALSE, reason, o.gen)
<1>1. /\ o \in [gen : Nat, spec : Specs, status : Status]
      /\ o.status.conds \in Conditions
      /\ "Ready" \in ConditionType
  BY DEF MonitorObjects, MonitorObject, Status, ConditionType, Conditions
<1>2. c \in Conditions
  BY <1>1, SetStatusConditionType
<1>3. [o.status EXCEPT !.conds = c] \in Status
  BY <1>1, <1>2 DEF Status, Conditions
<1>4. NotReady(o, reason) = [o EXCEPT !.status = [o.status EXCEPT !.conds = c]]
  BY <1>1 DEF NotReady, MonitorObjects, Status, Conditions
<1> QED
  BY <1>1, <1>3, <1>4 DEF MonitorObjects, MonitorObject

LEMMA ReportFacts ==
    ASSUME NEW o \in MonitorObjects, items \in SUBSET Drift, at \in Nat
    PROVE  /\ Report(o) \in MonitorObjects
           /\ Report(o).spec = o.spec
<1> DEFINE d == DriftCondition(o.status.conds, items, o.gen)
           c == SetStatusCondition(d, "Ready", TRUE, "ReconcileComplete", o.gen)
           s == [o.status EXCEPT !.items = items, !.lastCheck = at,
                                 !.obsGen = o.gen, !.conds = c]
<1>1. /\ o \in [gen : Nat, spec : Specs, status : Status]
      /\ o.status.conds \in Conditions
      /\ o.gen \in Nat
      /\ "Ready" \in ConditionType
      /\ "DriftDetected" \in ConditionType
      /\ {"DriftFound", "NoDrift", "ReconcileComplete"} \subseteq Reason
  BY DEF MonitorObjects, MonitorObject, Status, ConditionType, Conditions, Reason
<1>2. d \in Conditions
  <2>1. SetStatusCondition(o.status.conds, "DriftDetected", TRUE, "DriftFound", o.gen)
           \in Conditions
    BY <1>1, SetStatusConditionType
  <2>2. SetStatusCondition(o.status.conds, "DriftDetected", FALSE, "NoDrift", o.gen)
           \in Conditions
    BY <1>1, SetStatusConditionType
  <2> QED
    BY <2>1, <2>2 DEF DriftCondition
<1>3. c \in Conditions
  <2> HIDE DEF d
  <2> QED
    BY <1>1, <1>2, SetStatusConditionType
<1>4. s \in Status
  BY <1>1, <1>3 DEF Status, Conditions
<1>5. Report(o) = [o EXCEPT !.status = s]
  BY <1>1 DEF Report, Status, Conditions
<1> QED
  BY <1>1, <1>4, <1>5 DEF MonitorObjects, MonitorObject

LEMMA SnapshotOfType ==
    ASSUME rcache \in [Refs -> Resource \cup {Nil}], NEW k
    PROVE  SnapshotOf(k) \in SUBSET Entry
BY DEF SnapshotOf, Resource, Entry

LEMMA ListedKindsType == ListedKinds \in SUBSET Kinds
BY RBACAssumption DEF ListedKinds

LEMMA WithSnapshotFacts ==
    ASSUME NEW o \in MonitorObjects, NEW S \in SUBSET Entry
    PROVE  LET p == [o EXCEPT !.status.snap = S]
           IN  /\ p \in MonitorObjects
               /\ p.spec = o.spec
               /\ p.status.snap = S
<1>1. o \in [gen : Nat, spec : Specs, status : Status]
  BY DEF MonitorObjects, MonitorObject
<1>2. /\ [o.status EXCEPT !.snap = S] \in Status
      /\ [o.status EXCEPT !.snap = S].snap = S
  BY <1>1 DEF Status
<1>3. [o EXCEPT !.status.snap = S] = [o EXCEPT !.status = [o.status EXCEPT !.snap = S]]
  BY <1>1 DEF Status
<1> QED
  BY <1>1, <1>2, <1>3 DEF MonitorObjects, MonitorObject

LEMMA CheckedEntriesType ==
    ASSUME NEW o \in MonitorObjects,
           o.spec.mode = SnapshotBased => o.status.snap # Nil
    PROVE  CheckedEntries(o) \in SUBSET Entry
BY RBACAssumption
DEF CheckedEntries, MonitorObjects, MonitorObject, Status, SpecRecord

LEMMA ProceedFacts ==
    ASSUME TypeOK, NEW o \in MonitorObjects,
           o.spec.mode = SnapshotBased => o.status.snap # Nil,
           Proceed(o)
    PROVE  /\ pc' \in {"unexpected", "check"}
           /\ CheckTypeOK'
BY CheckedEntriesType, ListedKindsType
DEF Proceed, StartListing, StartCheck, TypeOK, RuntimeTypeOK, CheckTypeOK

LEMMA CompareEntryType ==
    ASSUME NEW e, NEW actual
    PROVE  CompareEntry(e, actual) \in DriftType \cup {"Match"}
BY DEF CompareEntry, DriftType

LEMMA DriftEventsType ==
    ASSUME key \in Monitors, NEW o, NEW ds \in SUBSET Drift
    PROVE  DriftEvents(o, ds) \in SUBSET Event
BY DEF DriftEvents, Recorded, Event, Drift

LEMMA UnexpectedEventsType ==
    ASSUME key \in Monitors, NEW o, NEW rs \in SUBSET Refs
    PROVE  UnexpectedEvents(o, rs) \in SUBSET Event
<1>1. {[reason |-> "UnexpectedDriftDetected", monitor |-> key,
        ref |-> r, type |-> "Unexpected"] : r \in rs} \in SUBSET Event
  BY DEF Event, DriftType
<1> QED
  BY <1>1 DEF UnexpectedEvents, Recorded

\* The end of a reconcile frees the worker.
LEMMA FinishedType ==
    ASSUME TypeOK, key \in Monitors, Finished \/ FinishedRequeue
    PROVE  /\ queue' \in [Monitors -> QueueState]
           /\ pc' = "idle" /\ key' = Nil /\ obj' = Nil /\ fresh' = FALSE
BY EnqueueAfterFacts
DEF Finished, FinishedRequeue, WorkerFree, TypeOK, RuntimeTypeOK

\* One step of Reconcile.
LEMMA ReconcileType ==
    ASSUME TypeInv, Reconcile
    PROVE  TypeInv'
<1> USE DEF TypeInv, SnapshotIsThereForTheCheck, SnapshotMade
<1>1. pc # "idle" => key \in Monitors
  BY DEF TypeOK, RuntimeTypeOK
<1>2. pc \notin {"idle", "get"} => obj \in MonitorObjects
  BY DEF TypeOK, RuntimeTypeOK, Version, MonitorObjects
<1>3. UNCHANGED storeVars => StoreTypeOK'
  BY DEF TypeOK, RuntimeTypeOK, StoreTypeOK, storeVars
<1>4. \A o \in MonitorObjects : o \in Version /\ o # Nil
  BY NilIsNoObject DEF MonitorObjects, Version
<1>17. UNCHANGED eventVars => RecorderTypeOK'
  BY BroadcastType DEF TypeOK
<1>5. CASE GetFails
  <2>1. faults' \in Nat
    BY <1>5 DEF GetFails, Fault, TypeOK, RuntimeTypeOK
  <2> QED
    BY <1>1, <1>3, <1>5, <2>1, FinishedType
    DEF GetFails, TypeOK, RuntimeTypeOK, Version, Phases, clusterVars, checkVars, CheckTypeOK,
        eventVars, RecorderTypeOK
<1>6. CASE MonitorGone
  BY <1>1, <1>3, <1>6, FinishedType
  DEF MonitorGone, TypeOK, RuntimeTypeOK, Version, Phases, clusterVars, checkVars, CheckTypeOK,
        eventVars, RecorderTypeOK,
      boundVars
<1>7. CASE ReconcileSuspended
  <2>1. mcache[key] \in MonitorObjects
    BY <1>1, <1>7
    DEF ReconcileSuspended, TypeOK, RuntimeTypeOK, Version, MonitorObjects
  <2>2. obj' \in MonitorObjects
    BY <1>7, <2>1, NotReadyFacts DEF ReconcileSuspended, CopyFromCache, Reason
  <2> QED
    BY <1>1, <1>3, <1>4, <1>7, <2>2
    DEF ReconcileSuspended, CopyFromCache, TypeOK, RuntimeTypeOK, Phases, clusterVars, checkVars, CheckTypeOK,
        eventVars, RecorderTypeOK,
        boundVars
<1>8. CASE ReconcileActive
  <2>1. mcache[key] \in MonitorObjects
    BY <1>1, <1>8
    DEF ReconcileActive, TypeOK, RuntimeTypeOK, Version, MonitorObjects
  <2>2. CASE mcache[key].spec.mode = SnapshotBased /\ mcache[key].status.snap = Nil
    BY <1>1, <1>3, <1>4, <1>8, <2>1, <2>2, ListedKindsType
    DEF StartListing, CheckTypeOK, ReconcileActive, CopyFromCache, TypeOK, RuntimeTypeOK, Phases, clusterVars, checkVars, CheckTypeOK,
        eventVars, RecorderTypeOK,
        boundVars
  <2>3. CASE ~(mcache[key].spec.mode = SnapshotBased /\ mcache[key].status.snap = Nil)
    <3>1. Proceed(mcache[key])
      BY <1>8, <2>3 DEF ReconcileActive
    <3>2. /\ pc' \in {"unexpected", "check"}
          /\ CheckTypeOK'
      BY <2>1, <2>3, <3>1, ProceedFacts
    <3> QED
      BY <1>1, <1>3, <1>4, <1>8, <2>1, <2>3, <3>2, <1>17
      DEF ReconcileActive, CopyFromCache, TypeOK, RuntimeTypeOK, Phases, clusterVars, boundVars
  <2> QED
    BY <2>2, <2>3
<1>9. CASE PutSuspended \/ PutReport \/ PutSnapshotFailed
  <2>1. /\ pc \in PutPhases
        /\ \/ StatusUpdated \/ StatusUpdateFailed
           \/ SnapshotStored \/ SnapshotNotStored
    BY <1>9 DEF PutSuspended, PutReport, PutSnapshotFailed, PutPhases
  <2>2. Finished \/ FinishedRequeue
    BY <1>9 DEF PutSuspended, PutReport, PutSnapshotFailed
  <2>3. StoreTypeOK' /\ faults' \in Nat
    BY <2>1, StatusCallFacts, SnapshotCallFacts DEF TypeOK
  <2>4. /\ queue' \in [Monitors -> QueueState]
        /\ pc' = "idle" /\ key' = Nil /\ obj' = Nil /\ fresh' = FALSE
    BY <1>1, <2>1, <2>2, FinishedType DEF PutPhases
  <2> QED
    BY <1>9, <2>3, <2>4
    DEF PutSuspended, PutReport, PutSnapshotFailed, TypeOK, RuntimeTypeOK, Version,
        Phases, clusterVars, checkVars, CheckTypeOK,
        eventVars, RecorderTypeOK
<1>10. CASE SnapshotFails \/ SnapshotListed
  <2>1. faults' \in Nat
    BY <1>10
    DEF SnapshotFails, SnapshotListed, Fault, boundVars, TypeOK, RuntimeTypeOK
  <2>2. obj \in MonitorObjects
    BY <1>2, <1>10 DEF SnapshotFails, SnapshotListed
  <2>3. obj' \in MonitorObjects /\ (pc' = "putSnapshot" => obj'.status.snap # Nil)
    <3>1. NotReady(obj, "BaselineSnapshotFailed") \in MonitorObjects
      BY <2>2, NotReadyFacts DEF Reason
    <3>2. snapshot \in SUBSET Entry /\ snapshot # Nil
      BY NilIsNoObject DEF TypeOK, CheckTypeOK
    <3>3. LET p == [obj EXCEPT !.status.snap = snapshot]
          IN  p \in MonitorObjects /\ p.status.snap = snapshot
      BY <2>2, <3>2, WithSnapshotFacts
    <3> QED
      BY <1>10, <3>1, <3>2, <3>3 DEF SnapshotFails, SnapshotListed
  <2>4. CheckTypeOK'
    BY <1>10 DEF SnapshotFails, SnapshotListed, ClearCheck, CheckTypeOK
  <2> QED
    BY <1>1, <1>3, <1>4, <1>10, <2>1, <2>3, <2>4, <1>17
    DEF SnapshotFails, SnapshotListed, TypeOK, RuntimeTypeOK, Phases, clusterVars,
        boundVars
<1>11. CASE PutSnapshot
  <2>1. pc \in PutPhases /\ (SnapshotStored \/ SnapshotNotStored)
    BY <1>11 DEF PutSnapshot, PutPhases
  <2>2. StoreTypeOK' /\ faults' \in Nat
    BY <2>1, SnapshotCallFacts DEF TypeOK
  <2>3. CASE SnapshotStored /\ obj' = api'[key] /\ fresh' = TRUE /\ Proceed(api'[key])
    <3>1. api'[key] \in MonitorObjects /\ api'[key].status.snap # Nil
      BY <1>11, <2>1, <2>3, WriteStatusFacts
      DEF SnapshotStored, StatusUpdated, PutSnapshot, TypeOK
    <3>2. /\ pc' \in {"unexpected", "check"}
          /\ CheckTypeOK'
      BY <2>3, <3>1, ProceedFacts
    <3> QED
      BY <1>1, <1>4, <1>11, <2>2, <3>1, <3>2, <1>17
      DEF PutSnapshot, TypeOK, RuntimeTypeOK, Phases, clusterVars
  <2>4. CASE /\ fresh' = (fresh /\ api' = api)
             /\ obj' = NotReady(obj, "BaselineSnapshotFailed")
             /\ pc' = "putSnapshotFailed"
             /\ UNCHANGED checkVars
    <3>1. obj \in MonitorObjects /\ "BaselineSnapshotFailed" \in Reason
      BY <1>2, <1>11 DEF PutSnapshot, Reason
    <3>2. NotReady(obj, "BaselineSnapshotFailed") \in MonitorObjects
      BY <3>1, NotReadyFacts
    <3>3. obj' \in MonitorObjects
      BY <2>4, <3>2
    <3> QED
      BY <1>1, <1>4, <1>11, <2>2, <2>4, <3>3
      DEF PutSnapshot, TypeOK, RuntimeTypeOK, Phases, clusterVars, checkVars, CheckTypeOK,
        eventVars, RecorderTypeOK
  <2> QED
    BY <1>11, <2>3, <2>4 DEF PutSnapshot
<1>12. CASE DetectUnexpectedDrifts
  <2>1. RecorderTypeOK'
    <3>1. UnexpectedEvents(obj, unexpected) \in SUBSET Event
      BY <1>1, <1>12, UnexpectedEventsType
      DEF DetectUnexpectedDrifts, TypeOK, CheckTypeOK
    <3> QED
      BY <1>12, <3>1, RecordType DEF DetectUnexpectedDrifts, TypeOK
  <2>2. CheckTypeOK'
    BY <1>2, <1>12, CheckedEntriesType
    DEF DetectUnexpectedDrifts, StartCheck, TypeOK, RuntimeTypeOK, CheckTypeOK
  <2> QED
    BY <1>1, <1>2, <1>3, <1>12, <2>1, <2>2
    DEF DetectUnexpectedDrifts, StartCheck, TypeOK, RuntimeTypeOK, Phases,
        clusterVars, boundVars
<1>16. CASE \E k \in kinds : SnapshotKind(k) \/ DetectUnexpected(k)
  <2>1. PICK k \in kinds : SnapshotKind(k) \/ DetectUnexpected(k)
    BY <1>16
  <2>2. faults' \in Nat
    BY <2>1
    DEF SnapshotKind, DetectUnexpected, Fault, boundVars, TypeOK, RuntimeTypeOK
  <2>3. CheckTypeOK'
    <3>1. SnapshotOf(k) \in SUBSET Entry
      BY SnapshotOfType DEF TypeOK
    <3>2. UnexpectedRefs(obj.spec, k) \in SUBSET Refs
      BY DEF UnexpectedRefs
    <3> QED
      BY <2>1, <3>1, <3>2 DEF SnapshotKind, DetectUnexpected, TypeOK, CheckTypeOK
  <2> QED
    BY <1>1, <1>2, <1>3, <2>1, <2>2, <2>3, <1>17
    DEF SnapshotKind, DetectUnexpected, TypeOK, RuntimeTypeOK, workerVars, boundVars,
        clusterVars
<1>13. CASE \E e \in todo : CheckEntry(e)
  <2>1. PICK e \in todo : CheckEntry(e)
    BY <1>13
  <2>2. faults' \in Nat
    BY <2>1 DEF CheckEntry, Fault, TypeOK, RuntimeTypeOK
  <2>3. items' \in SUBSET Drift
    <3>1. CASE UNCHANGED items
      BY <3>1 DEF TypeOK, CheckTypeOK
    <3>2. CASE ~UNCHANGED items
      <4> DEFINE type == CompareEntry(e, rcache[e.ref])
      <4>1. type # "Match" => [ref |-> e.ref, type |-> type, at |-> at] \in Drift
        <5>1. type \in DriftType \cup {"Match"}
          BY CompareEntryType
        <5> HIDE DEF type
        <5> QED
          BY <5>1 DEF Drift, Entry, TypeOK, CheckTypeOK
      <4> QED
        BY <2>1, <3>2, <4>1 DEF CheckEntry, TypeOK, CheckTypeOK
    <3> QED
      BY <3>1, <3>2
  <2> QED
    BY <1>1, <1>2, <1>3, <2>1, <2>2, <2>3, <1>17
    DEF CheckEntry, CheckTypeOK, TypeOK, RuntimeTypeOK, workerVars, clusterVars
<1>14. CASE FinishRulesBased
  <2>1. obj' \in MonitorObjects
    BY <1>2, <1>14, ReportFacts DEF FinishRulesBased, TypeOK, CheckTypeOK
  <2>2. RecorderTypeOK'
    BY <1>1, <1>14, DriftEventsType, RecordType DEF FinishRulesBased, TypeOK, CheckTypeOK
  <2> QED
    BY <1>1, <1>3, <1>4, <1>14, <2>1, <2>2
    DEF FinishRulesBased, ClearCheck, CheckTypeOK, TypeOK, RuntimeTypeOK, Phases, clusterVars,
        boundVars
<1>15. CASE FinishSnapshotBased
  <2>1. RecorderTypeOK'
    BY <1>1, <1>15, DriftEventsType, RecordType DEF FinishSnapshotBased, TypeOK, CheckTypeOK
  <2> QED
    BY <1>1, <1>3, <1>15, <2>1, FinishedType
    DEF FinishSnapshotBased, ClearCheck, CheckTypeOK, TypeOK, RuntimeTypeOK, Version, Phases,
        clusterVars, boundVars
<1> QED
  BY <1>5, <1>6, <1>7, <1>8, <1>9, <1>10, <1>11, <1>12, <1>13, <1>14, <1>15, <1>16
  DEF Reconcile

\* The clock, an abandoned update that arrives, and a restart of the operator.
LEMMA OtherStepType ==
    ASSUME TypeOK, Clock \/ Restart \/ Broadcast \/ \E u \in late : Arrival(u)
    PROVE  TypeOK'
<1>1. CASE Clock
  BY <1>1
  DEF Clock, Tick, TypeOK, RuntimeTypeOK, StoreTypeOK, storeVars, workerVars,
      clusterVars, checkVars, CheckTypeOK,
        eventVars, RecorderTypeOK
<1>2. CASE Restart
  <2>1. mwatch' \in [Monitors -> Seq(Version)] /\ rwatch' \in [Refs -> Seq(Resource \cup {Nil})]
    BY <1>2 DEF Restart, RestartRuntime
  <2>2. fresh' \in BOOLEAN
    BY <1>2, Zenon DEF Restart, RestartRuntime, WorkerFree
  <2>3. /\ late' \in SUBSET LateUpdates(Status)
        /\ \A u \in late' : api'[u.key] # Nil
    BY <1>2, AbandonedType
    DEF Restart, RestartRuntime, Current, TypeOK, RuntimeTypeOK, StoreTypeOK
  <2> QED
    BY <1>2, <2>1, <2>2, <2>3, BroadcastType
    DEF Restart, RestartRuntime, WorkerFree, ClearCheck, CheckTypeOK, TypeOK, RuntimeTypeOK,
        StoreTypeOK, QueueState, Phases, Version
<1>4. CASE Broadcast
  BY <1>4, BroadcastType
  DEF Broadcast, TypeOK, RuntimeTypeOK, StoreTypeOK, runtimeVars, clusterVars, checkVars,
      CheckTypeOK
<1>3. CASE \E u \in late : Arrival(u)
  <2>1. PICK u \in late : Arrival(u)
    BY <1>3
  <2>2. StoreTypeOK' /\ fresh' \in BOOLEAN
    BY <2>1, LateUpdateFacts DEF Arrival, TypeOK
  <2> QED
    BY <2>1, <2>2
    DEF Arrival, LateUpdate, TypeOK, RuntimeTypeOK, boundVars, clusterVars, checkVars,
        CheckTypeOK, eventVars, RecorderTypeOK
<1> QED
  BY <1>1, <1>2, <1>3, <1>4

LEMMA InitType == Init => TypeInv
<1> SUFFICES ASSUME Init
             PROVE  TypeInv
  OBVIOUS
<1>1. fresh \in BOOLEAN
  BY Zenon DEF Init, RuntimeInit
<1> QED
  BY <1>1, BoundsAssumption
  DEF Init, RuntimeInit, RecorderInit, RecorderTypeOK, TypeInv, CheckTypeOK, TypeOK, RuntimeTypeOK, StoreTypeOK, Version,
      QueueState, Phases, SnapshotIsThereForTheCheck, SnapshotMade

LEMMA NextType ==
    ASSUME TypeInv, [Next]_vars
    PROVE  TypeInv'
<1> USE DEF TypeInv, SnapshotIsThereForTheCheck, SnapshotMade
<1>1. ASSUME NEW m \in Monitors, RuntimeStep(m)
      PROVE  TypeInv'
  <2>1. UNCHANGED <<pc, obj>> \/ pc' = "get"
    BY <1>1
    DEF RuntimeStep, CreateMonitor, UpdateSpec, DeleteMonitor, UserWrite,
        DeliverMonitor, FireTimer, Dequeue, workerVars
  <2> QED
    BY <1>1, <2>1, RuntimeStepType
<1>2. ASSUME NEW r \in Refs, NEW o \in Resource \cup {Nil}, ChangeResource(r, o)
      PROVE  TypeInv'
  BY <1>2, ClusterStepType DEF ChangeResource, workerVars
<1>3. ASSUME NEW r \in Refs, DeliverResource(r)
      PROVE  TypeInv'
  BY <1>3, ClusterStepType DEF DeliverResource, workerVars
<1>4. CASE Reconcile
  BY <1>4, ReconcileType
<1>5. CASE Clock
  BY <1>5, OtherStepType DEF Clock, Tick, workerVars
<1>6. CASE Restart
  BY <1>6, OtherStepType DEF Restart, RestartRuntime, WorkerFree
<1>9. CASE Broadcast
  BY <1>9, OtherStepType DEF Broadcast, runtimeVars
<1>7. CASE UNCHANGED vars
  BY <1>7 DEF vars, runtimeVars, CheckTypeOK, RecorderTypeOK, TypeOK, RuntimeTypeOK, StoreTypeOK
<1>8. ASSUME NEW u \in late, Arrival(u)
      PROVE  TypeInv'
  BY <1>8, OtherStepType DEF Arrival, LateUpdate
<1> QED
  BY <1>1, <1>2, <1>3, <1>4, <1>5, <1>6, <1>7, <1>8, <1>9 DEF Next

\* Every variable keeps its type in every reachable state, and every phase of
\* Reconcile has the key and the copy of the monitor that it uses.
THEOREM TypeCorrect == Spec => []TypeOK
<1>1. Spec => []TypeInv
  BY InitType, NextType, PTL DEF Spec
<1>2. TypeInv => TypeOK
  BY DEF TypeInv
<1> QED
  BY <1>1, <1>2, PTL

\* No check in snapshot mode dereferences a nil snapshot (line 133), however
\* suspensions, changes of the mode and failed calls interleave with it.
THEOREM SnapshotPresent == Spec => []SnapshotIsThereForTheCheck
<1>1. Spec => []TypeInv
  BY InitType, NextType, PTL DEF Spec
<1>2. TypeInv => SnapshotIsThereForTheCheck
  BY DEF TypeInv
<1> QED
  BY <1>1, <1>2, PTL

-----------------------------------------------------------------------------
(***************************************************************************)
(* No lost wakeup.                                                         *)
(***************************************************************************)
\* A write of any monitor, by the user or by Reconcile: the other monitors are
\* as they were and the watch of this one is not empty.
LEMMA WriteCatchesUp ==
    ASSUME TypeOK, CacheCatchesUp, UNCHANGED mcache,
           NEW m \in Monitors, NEW o \in Version, Write(m, o)
    PROVE  /\ CacheCatchesUp'
           /\ mwatch'[m] # <<>>
           /\ \A n \in Monitors \ {m} : api'[n] = api[n] /\ mwatch'[n] = mwatch[n]
BY WriteFacts DEF CacheCatchesUp, TypeOK, RuntimeTypeOK

LEMMA StatusWrittenFacts ==
    ASSUME TypeOK, CacheCatchesUp, UNCHANGED mcache, key \in Monitors, StatusWritten
    PROVE  /\ CacheCatchesUp'
           /\ UNCHANGED <<api, mwatch>> \/ mwatch'[key] # <<>>
           /\ \A n \in Monitors \ {key} : api'[n] = api[n] /\ mwatch'[n] = mwatch[n]
<1>1. CASE UNCHANGED <<api, mwatch>>
  BY <1>1 DEF CacheCatchesUp
<1>2. CASE \E o \in MonitorObjects : Write(key, o)
  BY <1>2, WriteCatchesUp DEF MonitorObjects, Version
<1> QED
  BY <1>1, <1>2 DEF StatusWritten

\* An edit of a monitor leaves its event on the watch.
LEMMA EditSchedules ==
    ASSUME SchedulingInv, NEW m \in Monitors, NEW o \in Version, Write(m, o),
           UNCHANGED <<mcache, queue, pc, key, obj>>
    PROVE  CacheCatchesUp' /\ CopyIsCurrent' /\ PhaseFitsCopy' /\ ActiveIsScheduled'
<1>1. /\ CacheCatchesUp'
      /\ mwatch'[m] # <<>>
      /\ \A n \in Monitors \ {m} : api'[n] = api[n] /\ mwatch'[n] = mwatch[n]
  BY WriteCatchesUp DEF SchedulingInv, TypeInv
<1>2. pc \notin {"idle", "get"} => key \in Monitors
  BY DEF SchedulingInv, TypeInv, TypeOK, RuntimeTypeOK
<1>3. CopyIsCurrent'
  BY <1>1, <1>2 DEF SchedulingInv, CopyIsCurrent
<1>4. PhaseFitsCopy'
  BY DEF SchedulingInv, PhaseFitsCopy
<1>5. ActiveIsScheduled'
  BY <1>1 DEF SchedulingInv, ActiveIsScheduled, Active, Scheduled
<1> QED
  BY <1>1, <1>3, <1>4, <1>5

LEMMA DeliverCatchesUp ==
    ASSUME SchedulingInv, NEW m \in Monitors, DeliverMonitor(m)
    PROVE  CacheCatchesUp'
<1>1. mwatch[m] \in Seq(Version) /\ mwatch[m] # <<>>
  BY DEF DeliverMonitor, SchedulingInv, TypeInv, TypeOK, RuntimeTypeOK, StoreTypeOK
<1>2. CASE Tail(mwatch[m]) = <<>>
  <2>1. /\ Tail(mwatch[m]) \in Seq(Version)
        /\ Len(Tail(mwatch[m])) = Len(mwatch[m]) - 1
        /\ Len(mwatch[m]) \in Nat
    BY <1>1
  <2>2. Len(mwatch[m]) = 1
    <3>1. \A t \in Seq(Version) : t = <<>> => Len(t) = 0
      OBVIOUS
    <3>2. Len(Tail(mwatch[m])) = 0
      BY <1>2, <2>1, <3>1
    <3> QED
      BY <2>1, <3>2
  <2>3. Head(mwatch[m]) = mwatch[m][Len(mwatch[m])]
    BY <1>1, <2>2
  <2> QED
    BY <1>1, <1>2, <2>3
    DEF DeliverMonitor, SchedulingInv, CacheCatchesUp, TypeInv, TypeOK, RuntimeTypeOK,
        StoreTypeOK
<1>3. CASE Tail(mwatch[m]) # <<>>
  <2>1. Tail(mwatch[m])[Len(Tail(mwatch[m]))] = mwatch[m][Len(mwatch[m])]
    BY <1>1, <1>3
  <2> QED
    BY <1>1, <1>3, <2>1
    DEF DeliverMonitor, SchedulingInv, CacheCatchesUp, TypeInv, TypeOK, RuntimeTypeOK,
        StoreTypeOK
<1> QED
  BY <1>2, <1>3

LEMMA RuntimeStepSchedules ==
    ASSUME SchedulingInv, NEW m \in Monitors, RuntimeStep(m)
    PROVE  CacheCatchesUp' /\ CopyIsCurrent' /\ PhaseFitsCopy' /\ ActiveIsScheduled'
<1>1. TypeOK /\ RuntimeTypeOK
  BY DEF SchedulingInv, TypeInv, TypeOK
<1>2. ASSUME NEW s \in Specs, CreateMonitor(m, s, NoStatus) \/ UpdateSpec(m, s)
      PROVE  \E o \in Version : Write(m, o)
  <2>1. api'[m] \in Version
    <3>1. TypeOK'
      BY <1>1, RuntimeStepType
    <3> QED
      BY <3>1 DEF TypeOK, RuntimeTypeOK, StoreTypeOK
  <2>2. \E o : Write(m, o)
    BY <1>2 DEF CreateMonitor, UpdateSpec, UserWrite
  <2> QED
    BY <1>1, <2>1, <2>2 DEF Write, RuntimeTypeOK, StoreTypeOK
<1>3. CASE DeleteMonitor(m) \/ \E s \in Specs : CreateMonitor(m, s, NoStatus) \/ UpdateSpec(m, s)
  <2>1. \E o \in Version : Write(m, o)
    BY <1>2, <1>3 DEF DeleteMonitor, UserWrite, Version
  <2>2. UNCHANGED <<mcache, queue, pc, key, obj>>
    BY <1>3 DEF CreateMonitor, UpdateSpec, DeleteMonitor, UserWrite, workerVars
  <2> QED
    BY <2>1, <2>2, EditSchedules
<1>4. CASE DeliverMonitor(m)
  <2>1. CacheCatchesUp'
    BY <1>4, DeliverCatchesUp
  <2>2. /\ UNCHANGED <<api, pc, key, obj>>
        /\ queue'[m] = "ready"
        /\ \A n \in Monitors : queue[n] # "none" => queue'[n] # "none"
        /\ \A n \in Monitors \ {m} : queue'[n] = queue[n] /\ mwatch'[n] = mwatch[n]
    BY <1>1, <1>4
    DEF DeliverMonitor, Enqueue, RuntimeTypeOK, StoreTypeOK, workerVars
  <2>3. CopyIsCurrent' /\ PhaseFitsCopy'
    BY <1>1, <2>2
    DEF SchedulingInv, CopyIsCurrent, PhaseFitsCopy, RuntimeTypeOK
  <2>4. ActiveIsScheduled'
    BY <2>2 DEF SchedulingInv, ActiveIsScheduled, Active, Scheduled
  <2> QED
    BY <2>1, <2>3, <2>4
<1>5. CASE FireTimer(m)
  <2>1. /\ UNCHANGED <<api, mwatch, mcache, pc, key, obj>>
        /\ queue'[m] = "ready"
        /\ \A n \in Monitors \ {m} : queue'[n] = queue[n]
    BY <1>1, <1>5 DEF FireTimer, Enqueue, storeVars, workerVars
  <2>2. CacheCatchesUp'
    BY <2>1 DEF SchedulingInv, CacheCatchesUp
  <2>3. CopyIsCurrent' /\ PhaseFitsCopy'
    BY <1>1, <2>1
    DEF SchedulingInv, CopyIsCurrent, PhaseFitsCopy, RuntimeTypeOK
  <2>4. ActiveIsScheduled'
    BY <2>1 DEF SchedulingInv, ActiveIsScheduled, Active, Scheduled
  <2> QED
    BY <2>2, <2>3, <2>4
<1>6. CASE Dequeue(m)
  <2>1. /\ UNCHANGED <<api, mwatch, mcache>>
        /\ pc' = "get" /\ key = Nil /\ key' = m
        /\ \A n \in Monitors \ {m} : queue'[n] = queue[n]
    BY <1>1, <1>6 DEF Dequeue, storeVars, RuntimeTypeOK
  <2> QED
    BY <2>1, NilAssumption
    DEF SchedulingInv, CacheCatchesUp, CopyIsCurrent, PhaseFitsCopy,
        ActiveIsScheduled, Active, Scheduled
<1> QED
  BY <1>3, <1>4, <1>5, <1>6 DEF RuntimeStep

\* A reconcile that ends: with a requeue, with nothing left to do for this
\* monitor, or with an event of its own write on the watch.
LEMMA FinishedSchedules ==
    ASSUME SchedulingInv, UNCHANGED mcache, key \in Monitors, StatusWritten,
           \/ FinishedRequeue
           \/ Finished /\ (Active(key) => queue[key] # "none" \/ mwatch'[key] # <<>>)
    PROVE  CacheCatchesUp' /\ CopyIsCurrent' /\ PhaseFitsCopy' /\ ActiveIsScheduled'
<1>1. TypeOK /\ CacheCatchesUp /\ RuntimeTypeOK
  BY DEF SchedulingInv, TypeInv, TypeOK
<1>2. /\ CacheCatchesUp'
      /\ UNCHANGED <<api, mwatch>> \/ mwatch'[key] # <<>>
      /\ \A n \in Monitors \ {key} : api'[n] = api[n] /\ mwatch'[n] = mwatch[n]
  BY <1>1, StatusWrittenFacts
<1>3. pc' = "idle"
  BY DEF Finished, FinishedRequeue, WorkerFree
<1>4. \A n \in Monitors : queue[n] # "none" => queue'[n] # "none"
  BY <1>1, EnqueueAfterFacts DEF Finished, FinishedRequeue, RuntimeTypeOK
<1>5. ASSUME NEW n \in Monitors, Active(n)'
      PROVE  Scheduled(n)'
  <2>1. CASE n # key
    BY <1>2, <1>4, <1>5, <2>1 DEF SchedulingInv, ActiveIsScheduled, Active, Scheduled
  <2>2. CASE n = key /\ FinishedRequeue
    BY <1>1, <2>2, EnqueueAfterFacts DEF FinishedRequeue, RuntimeTypeOK, Scheduled
  <2>3. CASE n = key /\ mwatch'[key] # <<>>
    BY <2>3 DEF Scheduled
  <2>4. CASE /\ n = key
             /\ Finished
             /\ Active(key) => queue[key] # "none" \/ mwatch'[key] # <<>>
             /\ UNCHANGED <<api, mwatch>>
    BY <1>5, <2>4 DEF Finished, Active, Scheduled
  <2> QED
    BY <1>2, <2>1, <2>2, <2>3, <2>4
<1> QED
  BY <1>2, <1>3, <1>5 DEF CopyIsCurrent, PhaseFitsCopy, ActiveIsScheduled

\* A step inside a reconcile that leaves queue and key alone.
LEMMA InnerStepSchedules ==
    ASSUME SchedulingInv, UNCHANGED <<mcache, queue, key>>, key \in Monitors,
           StatusWritten, pc' # "idle", CopyIsCurrent', PhaseFitsCopy'
    PROVE  CacheCatchesUp' /\ CopyIsCurrent' /\ PhaseFitsCopy' /\ ActiveIsScheduled'
<1>1. /\ CacheCatchesUp'
      /\ \A n \in Monitors \ {key} : api'[n] = api[n] /\ mwatch'[n] = mwatch[n]
  BY StatusWrittenFacts DEF SchedulingInv, TypeInv
<1>2. ActiveIsScheduled'
  BY <1>1 DEF SchedulingInv, ActiveIsScheduled, Active, Scheduled
<1> QED
  BY <1>1, <1>2

LEMMA ReconcileSchedules ==
    ASSUME SchedulingInv, Reconcile
    PROVE  CacheCatchesUp' /\ CopyIsCurrent' /\ PhaseFitsCopy' /\ ActiveIsScheduled'
<1>1. TypeOK /\ RuntimeTypeOK /\ CacheCatchesUp /\ CopyIsCurrent /\ PhaseFitsCopy
  BY DEF SchedulingInv, TypeInv, TypeOK
<1>2. pc # "idle" => key \in Monitors
  BY <1>1 DEF RuntimeTypeOK
<1>3. pc \notin {"idle", "get"} => obj \in MonitorObjects
  BY <1>1 DEF RuntimeTypeOK, Version, MonitorObjects
<1>4. UNCHANGED storeVars => StatusWritten
  BY DEF StatusWritten, storeVars
<1>5. ASSUME pc \notin {"idle", "get"}, Active(key),
             queue[key] # "ready", mwatch[key] = <<>>
      PROVE  ~obj.spec.suspend /\ obj.spec.mode # SnapshotBased
  BY <1>1, <1>5 DEF CopyIsCurrent, Active
<1>6. CASE GetFails
  BY <1>2, <1>4, <1>6, FinishedSchedules DEF GetFails
<1>7. CASE MonitorGone
  <2>1. Active(key) => mwatch'[key] # <<>>
    BY <1>1, <1>2, <1>7 DEF MonitorGone, CacheCatchesUp, Active, storeVars
  <2> QED
    BY <1>2, <1>4, <1>7, <2>1, FinishedSchedules DEF MonitorGone
<1>8. CASE ReconcileSuspended \/ ReconcileActive
  <2>1. /\ mcache[key] \in MonitorObjects
        /\ obj'.spec = mcache[key].spec
        /\ UNCHANGED <<storeVars, mcache, queue, key>>
        /\ pc' \in {"putSuspended", "snapshot", "unexpected", "check"}
        /\ pc' = "putSuspended" => mcache[key].spec.suspend
        /\ pc' = "snapshot" => mcache[key].spec.mode = SnapshotBased
    <3>1. mcache[key] \in MonitorObjects
      BY <1>1, <1>2, <1>8
      DEF ReconcileSuspended, ReconcileActive, RuntimeTypeOK, Version, MonitorObjects
    <3>2. CASE ReconcileSuspended
      BY <3>1, <3>2, NotReadyFacts DEF ReconcileSuspended, CopyFromCache, Reason
    <3>3. CASE ReconcileActive
      BY <3>1, <3>3
      DEF ReconcileActive, CopyFromCache, Proceed, StartListing, StartCheck
    <3> QED
      BY <1>8, <3>2, <3>3, <3>1
  <2>2. CopyIsCurrent'
    BY <1>1, <1>2, <1>8, <2>1
    DEF CopyIsCurrent, CacheCatchesUp, storeVars, ReconcileSuspended, ReconcileActive
  <2>3. PhaseFitsCopy'
    BY <2>1 DEF PhaseFitsCopy
  <2> QED
    BY <1>2, <1>4, <1>8, <2>1, <2>2, <2>3, InnerStepSchedules
    DEF ReconcileSuspended, ReconcileActive
<1>9. CASE PutSuspended \/ PutSnapshotFailed
  <2>1. StatusWritten
    BY <1>1, <1>9, StatusCallFacts, SnapshotCallFacts
    DEF PutSuspended, PutSnapshotFailed, PutPhases
  <2>2. obj.spec.suspend \/ obj.spec.mode = SnapshotBased
    BY <1>1, <1>9 DEF PutSuspended, PutSnapshotFailed, PhaseFitsCopy
  <2>3. Active(key) => queue[key] # "none" \/ mwatch[key] # <<>>
    BY <1>5, <1>9, <2>2 DEF PutSuspended, PutSnapshotFailed
  <2>4. key \in Monitors /\ UNCHANGED mcache /\ (Finished \/ FinishedRequeue)
    BY <1>2, <1>9 DEF PutSuspended, PutSnapshotFailed
  <2>5. UNCHANGED <<api, mwatch>> \/ mwatch'[key] # <<>>
    BY <1>1, <2>1, <2>4, StatusWrittenFacts
  <2>6. Active(key) => queue[key] # "none" \/ mwatch'[key] # <<>>
    BY <2>3, <2>5
  <2> QED
    BY <2>1, <2>4, <2>6, FinishedSchedules
<1>10. CASE PutReport
  <2>1. StatusWritten
    BY <1>1, <1>10, StatusCallFacts DEF PutReport, PutPhases
  <2> QED
    BY <1>2, <1>10, <2>1, FinishedSchedules DEF PutReport
<1>11. CASE SnapshotFails \/ SnapshotListed
  <2>1. obj'.spec = obj.spec
    <3>1. NotReady(obj, "BaselineSnapshotFailed").spec = obj.spec
      BY <1>3, <1>11, NotReadyFacts DEF SnapshotFails, SnapshotListed, Reason
    <3>2. [obj EXCEPT !.status.snap = snapshot].spec = obj.spec
      BY <1>3, <1>11 DEF SnapshotFails, SnapshotListed, MonitorObjects, MonitorObject
    <3> QED
      BY <1>11, <3>1, <3>2 DEF SnapshotFails, SnapshotListed
  <2>2. CopyIsCurrent' /\ PhaseFitsCopy'
    BY <1>1, <1>11, <2>1
    DEF SnapshotFails, SnapshotListed, CopyIsCurrent, PhaseFitsCopy, storeVars
  <2> QED
    BY <1>2, <1>4, <1>11, <2>2, InnerStepSchedules DEF SnapshotFails, SnapshotListed
<1>12. CASE PutSnapshot
  <2>1. StatusWritten
    BY <1>1, <1>12, SnapshotCallFacts DEF PutSnapshot, PutPhases
  <2>2. key \in Monitors /\ obj \in MonitorObjects /\ obj.spec.mode = SnapshotBased
    BY <1>1, <1>2, <1>3, <1>12 DEF PutSnapshot, PhaseFitsCopy
  <2>3. UNCHANGED <<api, mwatch>> \/ mwatch'[key] # <<>>
    BY <1>1, <1>12, <2>1, <2>2, StatusWrittenFacts DEF PutSnapshot
  <2>4. CASE SnapshotStored /\ obj' = api'[key] /\ Proceed(api'[key])
    <3>1. api'[key] # Nil
      BY <1>1, <1>12, <2>4, WriteStatusFacts, NilIsNoObject
      DEF SnapshotStored, StatusUpdated, PutSnapshot, PutPhases, MonitorObjects
    <3> QED
      BY <1>12, <2>1, <2>2, <2>4, <3>1, InnerStepSchedules
      DEF PutSnapshot, Proceed, StartListing, StartCheck, CopyIsCurrent,
          PhaseFitsCopy
  <2>5. CASE /\ obj' = NotReady(obj, "BaselineSnapshotFailed")
             /\ pc' = "putSnapshotFailed"
    <3>1. obj'.spec = obj.spec
      BY <2>2, <2>5, NotReadyFacts DEF Reason
    <3>2. CopyIsCurrent' /\ PhaseFitsCopy'
      BY <1>1, <1>12, <2>2, <2>3, <2>5, <3>1
      DEF PutSnapshot, CopyIsCurrent, PhaseFitsCopy
    <3> QED
      BY <1>12, <2>1, <2>2, <2>5, <3>2, InnerStepSchedules DEF PutSnapshot
  <2> QED
    BY <1>12, <2>4, <2>5 DEF PutSnapshot
<1>13. CASE \/ \E k \in kinds : SnapshotKind(k) \/ DetectUnexpected(k)
            \/ DetectUnexpectedDrifts
            \/ \E e \in todo : CheckEntry(e)
  <2>1. /\ UNCHANGED <<storeVars, mcache, queue, key, obj>>
        /\ pc \in {"snapshot", "unexpected", "check"} /\ pc' \in {pc, "check"}
    BY <1>13
    DEF SnapshotKind, DetectUnexpected, DetectUnexpectedDrifts, StartCheck,
        CheckEntry, workerVars
  <2> QED
    BY <1>1, <1>2, <1>4, <2>1, InnerStepSchedules
    DEF CopyIsCurrent, PhaseFitsCopy, storeVars
<1>14. CASE FinishRulesBased
  <2>1. obj'.spec = obj.spec
    BY <1>1, <1>3, <1>14, ReportFacts DEF FinishRulesBased, TypeOK, CheckTypeOK
  <2> QED
    BY <1>1, <1>2, <1>4, <1>14, <2>1, InnerStepSchedules
    DEF FinishRulesBased, CopyIsCurrent, PhaseFitsCopy, storeVars
<1>15. CASE FinishSnapshotBased
  <2>1. Active(key) => queue[key] # "none" \/ mwatch'[key] # <<>>
    BY <1>5, <1>15 DEF FinishSnapshotBased, storeVars
  <2> QED
    BY <1>2, <1>4, <1>15, <2>1, FinishedSchedules DEF FinishSnapshotBased
<1> QED
  BY <1>6, <1>7, <1>8, <1>9, <1>10, <1>11, <1>12, <1>13, <1>14, <1>15 DEF Reconcile

LEMMA OtherStepSchedules ==
    ASSUME SchedulingInv,
           \/ Clock
           \/ Restart
           \/ Broadcast
           \/ \E u \in late : Arrival(u)
           \/ \E r \in Refs : DeliverResource(r)
           \/ \E r \in Refs : \E o \in Resource \cup {Nil} : ChangeResource(r, o)
           \/ UNCHANGED vars
    PROVE  CacheCatchesUp' /\ CopyIsCurrent' /\ PhaseFitsCopy' /\ ActiveIsScheduled'
<1>1. TypeOK /\ RuntimeTypeOK
  BY DEF SchedulingInv, TypeInv, TypeOK
<1>2. CASE Restart
  <2>1. /\ UNCHANGED api
        /\ mcache' = api
        /\ mwatch' = [m \in Monitors |-> <<>>]
        /\ queue' = [m \in Monitors |-> IF api[m] = Nil THEN "none" ELSE "ready"]
        /\ pc' = "idle"
    BY <1>2 DEF Restart, RestartRuntime, WorkerFree
  <2> QED
    BY <2>1
    DEF CacheCatchesUp, CopyIsCurrent, PhaseFitsCopy, ActiveIsScheduled, Active,
        Scheduled
<1>3. ASSUME UNCHANGED <<storeVars, mcache, workerVars>>,
             \A m \in Monitors : /\ queue[m] # "none" => queue'[m] # "none"
                                 /\ queue[m] = "ready" => queue'[m] = "ready"
      PROVE  CacheCatchesUp' /\ CopyIsCurrent' /\ PhaseFitsCopy' /\ ActiveIsScheduled'
  BY <1>1, <1>3
  DEF SchedulingInv, CacheCatchesUp, CopyIsCurrent, PhaseFitsCopy, ActiveIsScheduled,
      Active, Scheduled, storeVars, workerVars, RuntimeTypeOK
<1>4. ASSUME NEW r \in Refs, DeliverResource(r)
      PROVE  CacheCatchesUp' /\ CopyIsCurrent' /\ PhaseFitsCopy' /\ ActiveIsScheduled'
  BY <1>1, <1>3, <1>4, EnqueueFacts DEF DeliverResource, RuntimeTypeOK
<1>5. CASE Clock \/ Broadcast \/ UNCHANGED vars
  BY <1>3, <1>5
  DEF Clock, Tick, Broadcast, vars, runtimeVars, storeVars, workerVars
<1>6. ASSUME NEW r \in Refs, NEW o \in Resource \cup {Nil}, ChangeResource(r, o)
      PROVE  CacheCatchesUp' /\ CopyIsCurrent' /\ PhaseFitsCopy' /\ ActiveIsScheduled'
  BY <1>3, <1>6 DEF ChangeResource
<1>7. ASSUME NEW u \in late, Arrival(u)
      PROVE  CacheCatchesUp' /\ CopyIsCurrent' /\ PhaseFitsCopy' /\ ActiveIsScheduled'
  <2>1. UNCHANGED <<mcache, queue, pc, key, obj>>
    BY <1>7 DEF Arrival, LateUpdate
  <2>2. CASE UNCHANGED <<api, mwatch>>
    BY <2>1, <2>2
    DEF SchedulingInv, CacheCatchesUp, CopyIsCurrent, PhaseFitsCopy, ActiveIsScheduled,
        Active, Scheduled
  <2>3. CASE \E m \in Monitors : \E o \in MonitorObjects : Write(m, o)
    BY <2>1, <2>3, EditSchedules DEF MonitorObjects, Version
  <2> QED
    BY <1>1, <1>7, <2>2, <2>3, LateUpdateFacts DEF Arrival
<1> QED
  BY <1>2, <1>4, <1>5, <1>6, <1>7

LEMMA InitSchedules == Init => SchedulingInv
BY InitType
DEF SchedulingInv, Init, RuntimeInit, CacheCatchesUp, CopyIsCurrent, PhaseFitsCopy,
    ActiveIsScheduled, Active

LEMMA NextSchedules ==
    ASSUME SchedulingInv, [Next]_vars
    PROVE  SchedulingInv'
<1>1. TypeInv'
  BY NextType DEF SchedulingInv
<1>2. CacheCatchesUp' /\ CopyIsCurrent' /\ PhaseFitsCopy' /\ ActiveIsScheduled'
  BY RuntimeStepSchedules, ReconcileSchedules, OtherStepSchedules DEF Next
<1> QED
  BY <1>1, <1>2 DEF SchedulingInv

\* No wakeup is lost: an active monitor is always being reconciled, queued, or
\* about to be enqueued by an event, for any number of monitors, failures,
\* edits and restarts (Reconcile and the checks, lines 64-366).
THEOREM NothingLost == Spec => []ActiveIsScheduled
<1>1. Spec => []SchedulingInv
  BY InitSchedules, NextSchedules, PTL DEF Spec
<1>2. SchedulingInv => ActiveIsScheduled
  BY DEF SchedulingInv
<1> QED
  BY <1>1, <1>2, PTL

=============================================================================
