----------------------- MODULE RBACDriftAccuracyProofs -----------------------
(***************************************************************************)
(* Proofs about RBACDriftMonitor of what a monitor is left with that       *)
(* nothing will wake again, for every value of the constants:              *)
(*   DriftReportsAccurate    SettledReportIsAccurate, from AccuracyInv     *)
(*   MissingSnapshotRetried  MissingSnapshotIsRetried, from RetryInv       *)
(* Both invariants are ContractInv and CopyIsFresh, that a copy overtaken  *)
(* by a write is read again, with what may be missed until then.           *)
(***************************************************************************)
EXTENDS RBACDriftContractProofs

\* A copy that was overtaken by a write will be read again.
CopyIsFresh ==
    pc \notin {"idle", "get"} /\ queue[key] # "ready" /\ mwatch[key] = <<>> => fresh

\* What the steps of the others than the worker and the cluster do to a monitor
\* that the user does not touch: at most an abandoned update is written, which
\* shows on the watch.
LEMMA OthersFacts ==
    ASSUME ContractInv, NEW m \in Monitors,
           \/ \E n \in Monitors : RuntimeStep(n)
           \/ Clock
           \/ \E u \in late : Arrival(u)
    PROVE  /\ rbac' = rbac /\ rcache' = rcache /\ rwatch' = rwatch
           /\ obj' = obj /\ todo' = todo /\ items' = items
           /\ mwatch'[m] = <<>> =>
                 \/ queue'[m] = "ready"
                 \/ mwatch[m] = <<>> /\ api'[m] = api[m] /\ (m = key /\ fresh => fresh')
           /\ queue[m] = "ready" =>
                 queue'[m] = "ready" \/ (pc = "idle" /\ pc' = "get" /\ key' = m)
           /\ queue[m] # "none" =>
                 queue'[m] # "none" \/ (pc = "idle" /\ pc' = "get" /\ key' = m)
           /\ \/ pc' = pc /\ key' = key
              \/ pc = "idle" /\ pc' = "get" /\ key = Nil
           /\ faults' = faults
<1> DEFINE Still == /\ pc' = pc /\ key' = key /\ queue' = queue /\ faults' = faults
                    /\ mwatch'[m] = <<>> =>
                          mwatch[m] = <<>> /\ api'[m] = api[m] /\ (m = key /\ fresh => fresh')
<1>1. /\ mwatch \in [Monitors -> Seq(Version)]
      /\ api \in [Monitors -> Version]
      /\ queue \in [Monitors -> QueueState]
      /\ (pc = "idle") <=> (key = Nil)
      /\ \A u \in late : u.key \in Monitors
  BY DEF ContractInv, SchedulingInv, TypeInv, TypeOK, RuntimeTypeOK, StoreTypeOK, LateUpdates
<1>2. /\ rbac' = rbac /\ rcache' = rcache /\ rwatch' = rwatch
      /\ obj' = obj /\ todo' = todo /\ items' = items
  BY DEF RuntimeStep, CreateMonitor, UpdateSpec, DeleteMonitor, UserWrite, DeliverMonitor,
         FireTimer, Dequeue, Clock, Tick, Arrival, LateUpdate, workerVars, clusterVars,
         checkVars
<1>3. ASSUME NEW n \in Monitors, NEW o, Write(n, o)
      PROVE  /\ mwatch'[n] # <<>>
             /\ n # m => mwatch'[m] = mwatch[m] /\ api'[m] = api[m]
  <2>1. mwatch'[n] = Append(mwatch[n], o) /\ mwatch[n] \in Seq(Version)
    BY <1>1, <1>3 DEF Write
  <2>2. Append(mwatch[n], o) # <<>>
    BY <2>1
  <2> QED
    BY <1>1, <1>3, <2>1, <2>2 DEF Write
<1>4. ASSUME NEW n \in Monitors, NEW o, UserWrite(n, o)
      PROVE  Still
  <2>1. fresh /\ n # key => fresh'
    BY <1>4 DEF UserWrite
  <2> QED
    BY <1>3, <1>4, <2>1 DEF UserWrite
<1>5. ASSUME NEW u \in late, LateUpdate(u)
      PROVE  Still
  <2>1. u.key \in Monitors
    BY <1>1
  <2>2. CASE UNCHANGED <<api, mwatch, fresh>>
    BY <1>5, <2>2 DEF LateUpdate, boundVars
  <2>3. CASE /\ Write(u.key, [api[u.key] EXCEPT !.status = u.status])
             /\ fresh' = (fresh /\ u.key # key)
    <3>1. fresh /\ u.key # key => fresh'
      BY <2>3
    <3> QED
      BY <1>3, <1>5, <2>1, <2>3, <3>1 DEF LateUpdate, boundVars
  <2> QED
    BY <1>5, <2>2, <2>3 DEF LateUpdate
<1>6. Clock => Still
  BY DEF Clock, Tick, storeVars, workerVars
<1>7. ASSUME NEW n \in Monitors, DeliverMonitor(n) \/ FireTimer(n)
      PROVE  /\ pc' = pc /\ key' = key /\ fresh' = fresh /\ api' = api /\ faults' = faults
             /\ queue[m] = "ready" => queue'[m] = "ready"
             /\ queue[m] # "none" => queue'[m] # "none"
             /\ mwatch'[m] = mwatch[m] \/ queue'[m] = "ready"
  BY <1>1, <1>7
  DEF DeliverMonitor, FireTimer, Enqueue, workerVars, storeVars, boundVars
<1>8. ASSUME NEW n \in Monitors, Dequeue(n)
      PROVE  /\ api' = api /\ mwatch' = mwatch /\ fresh' = fresh /\ faults' = faults
             /\ pc = "idle" /\ pc' = "get" /\ key = Nil /\ key' = n
             /\ n # m => queue'[m] = queue[m]
  BY <1>1, <1>8 DEF Dequeue, storeVars, boundVars
<1> HIDE DEF Still
<1>9. CASE Still
  BY <1>2, <1>9 DEF Still
<1>10. CASE \E n \in Monitors : RuntimeStep(n)
  <2>1. PICK n \in Monitors : RuntimeStep(n)
    BY <1>10
  <2>2. CASE DeliverMonitor(n) \/ FireTimer(n)
    BY <1>2, <1>7, <2>2
  <2>3. CASE Dequeue(n)
    BY <1>2, <1>8, <2>3
  <2> QED
    BY <1>4, <1>9, <2>1, <2>2, <2>3
    DEF RuntimeStep, CreateMonitor, UpdateSpec, DeleteMonitor
<1>11. CASE \E u \in late : Arrival(u)
  BY <1>5, <1>9, <1>11 DEF Arrival
<1> QED
  BY <1>6, <1>9, <1>10, <1>11

\* The worker's status update shows on the watch if it changes anything.
LEMMA CallShows ==
    ASSUME RuntimeTypeOK, pc \in PutPhases, key \in Monitors,
           \/ StatusUpdated \/ StatusUpdateFailed
           \/ SnapshotStored \/ SnapshotNotStored
    PROVE  /\ \A m \in Monitors \ {key} : api'[m] = api[m] /\ mwatch'[m] = mwatch[m]
           /\ mwatch[key] # <<>> => mwatch'[key] # <<>>
           /\ mwatch'[key] = <<>> => api' = api
<1>1. StatusWritten /\ StoreTypeOK
  BY StatusCallFacts, SnapshotCallFacts DEF RuntimeTypeOK
<1>2. CASE UNCHANGED <<api, mwatch>>
  BY <1>2
<1>3. ASSUME NEW o \in MonitorObjects, Write(key, o)
      PROVE  /\ \A m \in Monitors \ {key} : api'[m] = api[m] /\ mwatch'[m] = mwatch[m]
             /\ mwatch'[key] # <<>>
  <2>1. o \in Version
    BY DEF MonitorObjects, Version
  <2> QED
    BY <1>1, <1>3, <2>1, WriteFacts
<1> QED
  BY <1>1, <1>2, <1>3 DEF StatusWritten

\* An update that was accepted and shows nothing found the status already stored.
LEMMA AcceptedInSilence ==
    ASSUME RuntimeTypeOK, pc \in PutPhases, key \in Monitors, Current, WriteStatus,
           mwatch'[key] = <<>>
    PROVE  api[key].status = obj.status
<1> SUFFICES ASSUME api[key].status # obj.status
             PROVE  FALSE
  OBVIOUS
<1> DEFINE o == [api[key] EXCEPT !.status = obj.status]
<1>1. Write(key, o) /\ StoreTypeOK
  BY DEF WriteStatus, RuntimeTypeOK
<1>2. o \in Version
  <2>1. /\ obj.status \in Status
        /\ api[key] \in [gen : Nat, spec : Specs, status : Status]
    BY DEF RuntimeTypeOK, StoreTypeOK, Version, MonitorObject, PutPhases, Current
  <2> QED
    BY <2>1 DEF Version, MonitorObject
<1> HIDE DEF o
<1> QED
  BY <1>1, <1>2, WriteFacts

\* What a step of the worker does: other monitors it leaves alone, and its own it
\* changes only by a write, which shows on the watch.
LEMMA WorkerFacts ==
    ASSUME ContractInv, Reconcile
    PROVE  /\ key \in Monitors /\ pc # "idle"
           /\ rbac' = rbac /\ rcache' = rcache /\ rwatch' = rwatch
           /\ key' = key \/ (key' = Nil /\ pc' = "idle")
           /\ \A m \in Monitors \ {key} :
                 api'[m] = api[m] /\ mwatch'[m] = mwatch[m] /\ queue'[m] = queue[m]
           /\ queue[key] = "ready" => queue'[key] = "ready"
           /\ queue[key] # "none" => queue'[key] # "none"
           /\ mwatch[key] # <<>> => mwatch'[key] # <<>>
           /\ mwatch'[key] = <<>> => api' = api
<1>1. /\ RuntimeTypeOK
      /\ queue \in [Monitors -> QueueState]
      /\ pc # "idle" => key \in Monitors
  BY DEF ContractInv, SchedulingInv, TypeInv, TypeOK, RuntimeTypeOK
<1>2. /\ pc # "idle"
      /\ rbac' = rbac /\ rcache' = rcache /\ rwatch' = rwatch
  BY DEF Reconcile, GetFails, MonitorGone, ReconcileSuspended, ReconcileActive, PutSuspended,
         SnapshotKind, SnapshotFails, SnapshotListed, PutSnapshot, PutSnapshotFailed,
         DetectUnexpected, DetectUnexpectedDrifts, CheckEntry, FinishRulesBased,
         FinishSnapshotBased, PutReport, clusterVars
<1>3. ASSUME \/ queue' = queue /\ key' = key
             \/ queue' = queue /\ key' = Nil /\ pc' = "idle"
             \/ queue' = EnqueueAfter(key) /\ key' = Nil /\ pc' = "idle"
      PROVE  /\ key' = key \/ (key' = Nil /\ pc' = "idle")
             /\ \A m \in Monitors \ {key} : queue'[m] = queue[m]
             /\ queue[key] = "ready" => queue'[key] = "ready"
             /\ queue[key] # "none" => queue'[key] # "none"
  BY <1>1, <1>2, <1>3 DEF EnqueueAfter
<1>4. CASE PutSuspended \/ PutSnapshot \/ PutSnapshotFailed \/ PutReport
  <2>1. /\ pc \in PutPhases
        /\ \/ StatusUpdated \/ StatusUpdateFailed
           \/ SnapshotStored \/ SnapshotNotStored
    BY <1>4 DEF PutSuspended, PutSnapshot, PutSnapshotFailed, PutReport, PutPhases
  <2>2. \/ queue' = queue /\ key' = key
        \/ queue' = queue /\ key' = Nil /\ pc' = "idle"
        \/ queue' = EnqueueAfter(key) /\ key' = Nil /\ pc' = "idle"
    BY <1>4
    DEF PutSuspended, PutSnapshot, PutSnapshotFailed, PutReport, Finished, FinishedRequeue,
        WorkerFree
  <2> QED
    BY <1>1, <1>2, <1>3, <2>1, <2>2, CallShows
<1>5. CASE ~(PutSuspended \/ PutSnapshot \/ PutSnapshotFailed \/ PutReport)
  <2>1. /\ api' = api /\ mwatch' = mwatch
        /\ \/ queue' = queue /\ key' = key
           \/ queue' = queue /\ key' = Nil /\ pc' = "idle"
           \/ queue' = EnqueueAfter(key) /\ key' = Nil /\ pc' = "idle"
    BY <1>5
    DEF Reconcile, GetFails, MonitorGone, ReconcileSuspended, ReconcileActive, SnapshotKind,
        SnapshotFails, SnapshotListed, DetectUnexpected, DetectUnexpectedDrifts, CheckEntry,
        FinishRulesBased, FinishSnapshotBased, Finished, FinishedRequeue, WorkerFree,
        storeVars, workerVars
  <2> QED
    BY <1>1, <1>2, <1>3, <2>1
<1> QED
  BY <1>4, <1>5

LEMMA CopyStaysFresh ==
    ASSUME ContractInv, CopyIsFresh, [Next]_vars
    PROVE  CopyIsFresh'
<1>1. /\ pc # "idle" => key \in Monitors
      /\ (pc = "idle") <=> (key = Nil)
      /\ RuntimeTypeOK
  BY DEF ContractInv, SchedulingInv, TypeInv, TypeOK, RuntimeTypeOK
<1>2. CASE \/ \E n \in Monitors : RuntimeStep(n)
           \/ Clock
           \/ \E u \in late : Arrival(u)
  <2>1. SUFFICES ASSUME pc' \notin {"idle", "get"}, queue'[key'] # "ready",
                        mwatch'[key'] = <<>>
                 PROVE  fresh'
    BY DEF CopyIsFresh
  <2>2. pc' = pc /\ key' = key /\ key \in Monitors
    BY <1>1, <1>2, <2>1
    DEF RuntimeStep, CreateMonitor, UpdateSpec, DeleteMonitor, UserWrite, DeliverMonitor,
        FireTimer, Dequeue, Clock, Tick, Arrival, LateUpdate, workerVars
  <2>3. mwatch[key] = <<>> /\ (fresh => fresh') /\ queue[key] # "ready"
    BY <1>2, <2>1, <2>2, OthersFacts
  <2> QED
    BY <2>1, <2>2, <2>3 DEF CopyIsFresh
<1>3. CASE Reconcile
  <2>1. CASE pc' = "idle"
    BY <2>1 DEF CopyIsFresh
  <2>2. CASE ReconcileSuspended \/ ReconcileActive
    BY <2>2 DEF ReconcileSuspended, ReconcileActive, CopyFromCache, CopyIsFresh, storeVars
  <2>3. CASE PutSnapshot
    <3>1. CASE fresh' = TRUE
      BY <3>1 DEF CopyIsFresh
    <3>2. CASE SnapshotNotStored /\ fresh' = (fresh /\ api' = api)
      <4>1. pc = "putSnapshot" /\ queue' = queue /\ key' = key
        BY <2>3 DEF PutSnapshot
      <4>2. /\ mwatch[key] # <<>> => mwatch'[key] # <<>>
            /\ mwatch'[key] = <<>> => api' = api
        BY <1>1, <3>2, <4>1, CallShows DEF PutPhases
      <4> QED
        BY <3>2, <4>1, <4>2 DEF CopyIsFresh
    <3> QED
      BY <2>3, <3>1, <3>2 DEF PutSnapshot
  <2>4. CASE ~PutSnapshot /\ ~(ReconcileSuspended \/ ReconcileActive) /\ pc' # "idle"
    <3>1. /\ pc \notin {"idle", "get"}
          /\ queue' = queue /\ key' = key /\ mwatch' = mwatch /\ fresh' = fresh
      BY <1>3, <2>4
      DEF Reconcile, GetFails, MonitorGone, PutSuspended, SnapshotKind, SnapshotFails,
          SnapshotListed, PutSnapshotFailed, DetectUnexpected, DetectUnexpectedDrifts,
          CheckEntry, FinishRulesBased, FinishSnapshotBased, PutReport, Finished,
          FinishedRequeue, WorkerFree, storeVars, workerVars
    <3> QED
      BY <3>1 DEF CopyIsFresh
  <2> QED
    BY <2>1, <2>2, <2>3, <2>4
<1>4. CASE Restart
  BY <1>4 DEF Restart, RestartRuntime, WorkerFree, CopyIsFresh
<1>5. ASSUME NEW r \in Refs,
             \/ \E o \in Resource \cup {Nil} : ChangeResource(r, o)
             \/ DeliverResource(r)
      PROVE  CopyIsFresh'
  <2>1. /\ pc' = pc /\ key' = key /\ fresh' = fresh /\ mwatch' = mwatch
        /\ \/ queue' = queue
           \/ queue' = Enqueue(mapRBACToMonitor(r))
    BY <1>5 DEF ChangeResource, DeliverResource, workerVars, storeVars
  <2>2. key \in Monitors /\ queue[key] = "ready" => queue'[key] = "ready"
    BY <2>1 DEF Enqueue
  <2> QED
    BY <1>1, <2>1, <2>2 DEF CopyIsFresh
<1>6. CASE Broadcast \/ UNCHANGED vars
  BY <1>6 DEF Broadcast, vars, runtimeVars, CopyIsFresh
<1> QED
  BY <1>2, <1>3, <1>4, <1>5, <1>6 DEF Next

-----------------------------------------------------------------------------
(***************************************************************************)
(* Why the report of a settled monitor is accurate.  A monitor whose       *)
(* report may be out of date has news on the way: a watch event of its     *)
(* own, one of a resource of its baseline, or a place in the queue.  While *)
(* it is being checked the same holds of what the worker has found so far. *)
(***************************************************************************)
NewsOf(m) ==
    \/ queue[m] = "ready"
    \/ mwatch[m] # <<>>
    \/ \E e \in api[m].spec.baseline : rwatch[e.ref] # <<>>

DriftOf(entries) ==
    {[ref |-> e.ref, type |-> CompareEntry(e, rbac[e.ref])] :
        e \in {f \in entries : CompareEntry(f, rbac[f.ref]) # "Match"}}

Found == {[ref |-> d.ref, type |-> d.type] : d \in items}

Reflects(status, m) ==
    /\ status.obsGen = api[m].gen
    /\ Reported(status) = Expected(api[m].spec)

UpToDate(m) ==
    IF key = m
    THEN /\ pc = "check" => Found = DriftOf(api[m].spec.baseline \ todo)
         /\ pc = "putReport" => Reflects(obj.status, m)
    ELSE Reflects(api[m].status, m)

\* The watch of a resource ends with what it is, and a cache with nothing on the
\* way holds it.
ResourcesCatchUp ==
    \A r \in Refs :
        IF rwatch[r] = <<>> THEN rcache[r] = rbac[r]
                            ELSE rwatch[r][Len(rwatch[r])] = rbac[r]

NothingMissed ==
    faults = 0 => \A m \in Monitors : Active(m) => NewsOf(m) \/ UpToDate(m)

AccuracyInv ==
    /\ ContractInv
    /\ CopyIsFresh
    /\ ResourcesCatchUp
    /\ NothingMissed

\* What is last stays last while a watch is read.
LEMMA LastStaysLast ==
    ASSUME NEW S, NEW s \in Seq(S), s # <<>>
    PROVE  IF Tail(s) = <<>> THEN Head(s) = s[Len(s)]
                             ELSE Tail(s)[Len(Tail(s))] = s[Len(s)]
<1>1. /\ Tail(s) \in Seq(S)
      /\ Len(Tail(s)) = Len(s) - 1 /\ Len(s) \in Nat
      /\ \A t \in Seq(S) : t = <<>> => Len(t) = 0
  OBVIOUS
<1>2. CASE Tail(s) = <<>>
  <2>1. Len(s) = 1
    BY <1>1, <1>2
  <2> QED
    BY <1>2, <2>1
<1>3. CASE Tail(s) # <<>>
  BY <1>3
<1> QED
  BY <1>2, <1>3

LEMMA CatchUpKept ==
    ASSUME ContractInv, ResourcesCatchUp, [Next]_vars
    PROVE  ResourcesCatchUp'
<1> DEFINE O == Resource \cup {Nil}
<1>1. /\ rbac \in [Refs -> O] /\ rcache \in [Refs -> O]
      /\ rwatch \in [Refs -> Seq(O)]
  BY DEF ContractInv, SchedulingInv, TypeInv, TypeOK
<1>2. ASSUME NEW r \in Refs, NEW o \in O, ChangeResource(r, o)
      PROVE  ResourcesCatchUp'
  <2>1. /\ rbac' = [rbac EXCEPT ![r] = o]
        /\ rwatch' = [rwatch EXCEPT ![r] = Append(rwatch[r], o)]
        /\ rcache' = rcache
    BY <1>2 DEF ChangeResource
  <2>2. /\ rwatch[r] \in Seq(O)
        /\ Append(rwatch[r], o) # <<>>
        /\ Append(rwatch[r], o)[Len(Append(rwatch[r], o))] = o
    <3> HIDE DEF O
    <3>1. rwatch[r] \in Seq(O)
      BY <1>1
    <3> QED
      BY <3>1
  <2>3. rwatch'[r] = Append(rwatch[r], o) /\ rbac'[r] = o
    BY <1>1, <2>1
  <2>4. \A q \in Refs \ {r} : rwatch'[q] = rwatch[q] /\ rbac'[q] = rbac[q]
    BY <1>1, <2>1
  <2> QED
    BY <2>1, <2>2, <2>3, <2>4 DEF ResourcesCatchUp
<1>3. ASSUME NEW r \in Refs, DeliverResource(r)
      PROVE  ResourcesCatchUp'
  <2>1. /\ rwatch[r] # <<>> /\ rwatch[r] \in Seq(O)
        /\ rbac' = rbac
        /\ rcache' = [rcache EXCEPT ![r] = Head(rwatch[r])]
        /\ rwatch' = [rwatch EXCEPT ![r] = Tail(rwatch[r])]
    BY <1>1, <1>3 DEF DeliverResource
  <2>2. rwatch[r][Len(rwatch[r])] = rbac[r]
    BY <2>1 DEF ResourcesCatchUp
  <2>3. IF Tail(rwatch[r]) = <<>> THEN Head(rwatch[r]) = rbac[r]
                                  ELSE Tail(rwatch[r])[Len(Tail(rwatch[r]))] = rbac[r]
    BY <2>1, <2>2, LastStaysLast
  <2> QED
    BY <1>1, <2>1, <2>3 DEF ResourcesCatchUp
<1>4. CASE Restart
  BY <1>1, <1>4 DEF Restart, ResourcesCatchUp
<1>5. CASE rbac' = rbac /\ rcache' = rcache /\ rwatch' = rwatch
  BY <1>5 DEF ResourcesCatchUp
<1>6. CASE Reconcile
  BY <1>5, <1>6, WorkerFacts
<1> QED
  BY <1>2, <1>3, <1>4, <1>5, <1>6
  DEF Next, RuntimeStep, Clock, Arrival, Broadcast, vars, clusterVars

\* A check compares one entry after the other and forgets none.
LEMMA EntryIsCounted ==
    ASSUME NEW STATE baseline, NEW e \in todo, todo \subseteq baseline,
           Found = DriftOf(baseline \ todo),
           rcache[e.ref] = rbac[e.ref],
           LET type == CompareEntry(e, rcache[e.ref])
           IN  items' = IF type = "Match" THEN items
                        ELSE items \cup {[ref |-> e.ref, type |-> type, at |-> at]}
    PROVE  Found' = DriftOf(baseline \ (todo \ {e}))
<1> DEFINE type == CompareEntry(e, rbac[e.ref])
           drift == [ref |-> e.ref, type |-> type]
           Drifting(es) == {f \in es : CompareEntry(f, rbac[f.ref]) # "Match"}
           Of(f) == [ref |-> f.ref, type |-> CompareEntry(f, rbac[f.ref])]
           checked == Drifting(baseline \ todo)
<1>1. /\ DriftOf(baseline \ todo) = {Of(f) : f \in checked}
      /\ DriftOf(baseline \ (todo \ {e})) = {Of(f) : f \in Drifting(baseline \ (todo \ {e}))}
  BY DEF DriftOf
<1>2. baseline \ (todo \ {e}) = (baseline \ todo) \cup {e}
  OBVIOUS
<1>3. CASE type = "Match"
  <2>1. items' = items
    BY <1>3
  <2>2. Drifting(baseline \ (todo \ {e})) = checked
    BY <1>2, <1>3
  <2> QED
    BY <1>1, <2>1, <2>2 DEF Found
<1>4. CASE type # "Match"
  <2>1. items' = items \cup {[ref |-> e.ref, type |-> type, at |-> at]}
    BY <1>4
  <2>2. Found' = Found \cup {drift}
    <3> DEFINE x == [ref |-> e.ref, type |-> type, at |-> at]
               Short(d) == [ref |-> d.ref, type |-> d.type]
    <3>1. Short(x) = drift
      <4> HIDE DEF type
      <4> QED
        OBVIOUS
    <3>2. {Short(d) : d \in items \cup {x}} = {Short(d) : d \in items} \cup {Short(x)}
      <4> HIDE DEF x
      <4> QED
        OBVIOUS
    <3> QED
      BY <2>1, <3>1, <3>2 DEF Found
  <2>3. Drifting(baseline \ (todo \ {e})) = checked \cup {e}
    BY <1>2, <1>4
  <2>4. {Of(f) : f \in checked \cup {e}} = {Of(f) : f \in checked} \cup {drift}
    OBVIOUS
  <2> QED
    BY <1>1, <2>2, <2>3, <2>4
<1> QED
  BY <1>3, <1>4

\* The step of the worker on the monitor m, when no call fails.
LEMMA WorkerMissesNothing ==
    ASSUME AccuracyInv, Reconcile, faults = 0, faults' = 0, NEW m \in Monitors, m = key,
           Active(m)', Active(m) => NewsOf(m) \/ UpToDate(m)
    PROVE  NewsOf(m)' \/ UpToDate(m)'
<1>1. /\ ContractInv /\ CopyIsFresh /\ ResourcesCatchUp
      /\ RuntimeTypeOK /\ CacheCatchesUp /\ CopyIsCurrent /\ PhaseFitsCopy
      /\ FreshCopy /\ CheckIsOfBaseline /\ CheckTypeOK
      /\ \A o \in Version : o # Nil => o \in MonitorObjects
  BY DEF AccuracyInv, ContractInv, SchedulingInv, TypeInv, TypeOK, Version, MonitorObjects
<1>2. ~Fault
  BY DEF Fault
<1> SUFFICES ASSUME ~NewsOf(m)'
             PROVE  UpToDate(m)'
  OBVIOUS
<1>3. /\ queue'[key] # "ready" /\ mwatch'[key] = <<>>
      /\ \A e \in api'[key].spec.baseline : rwatch'[e.ref] = <<>>
  BY DEF NewsOf
<1>4. /\ queue[key] # "ready" /\ mwatch[key] = <<>> /\ api' = api
      /\ rbac' = rbac
      /\ \A e \in api[key].spec.baseline : rwatch[e.ref] = <<>>
  BY <1>1, <1>3, WorkerFacts
<1>5. /\ Active(m) /\ ~NewsOf(m) /\ UpToDate(m)
      /\ api[key] # Nil /\ ~api[key].spec.suspend /\ api[key].spec.mode # SnapshotBased
      /\ mcache[key] = api[key]
  BY <1>1, <1>4 DEF Active, NewsOf, CacheCatchesUp
<1>6. ASSUME pc \notin {"idle", "get"}
      PROVE  fresh /\ obj.spec = api[key].spec /\ obj.gen = api[key].gen
  BY <1>1, <1>4, <1>6 DEF CopyIsFresh, FreshCopy
<1>7. pc \notin {"putSuspended", "snapshot", "putSnapshot", "putSnapshotFailed"}
  BY <1>1, <1>5, <1>6 DEF PhaseFitsCopy
<1>8. CASE GetFails \/ SnapshotFails
  BY <1>2, <1>8 DEF GetFails, SnapshotFails
<1>9. CASE MonitorGone \/ ReconcileSuspended
  BY <1>5, <1>9 DEF MonitorGone, ReconcileSuspended
<1>10. CASE \/ PutSuspended \/ SnapshotListed \/ PutSnapshot \/ PutSnapshotFailed
            \/ \E k \in kinds : SnapshotKind(k)
  BY <1>7, <1>10
  DEF PutSuspended, SnapshotListed, PutSnapshot, PutSnapshotFailed, SnapshotKind
<1>11. CASE FinishSnapshotBased
  BY <1>5, <1>6, <1>11 DEF FinishSnapshotBased
<1>12. Found = {} => Found = DriftOf(api[key].spec.baseline \ api[key].spec.baseline)
  BY DEF DriftOf
<1>13. ASSUME StartCheck(api[key]), items = {}, key' = key
       PROVE  UpToDate(m)'
  <2>1. /\ pc' = "check" /\ items' = {}
        /\ todo' = api'[key'].spec.baseline
    BY <1>4, <1>5, <1>13 DEF StartCheck, CheckedEntries
  <2>2. Found' = DriftOf(api[m].spec.baseline \ todo)'
    BY <1>13, <2>1 DEF Found, DriftOf
  <2> QED
    BY <1>13, <2>1, <2>2 DEF UpToDate
<1>14. CASE ReconcileActive
  <2>1. /\ pc = "get" /\ key' = key /\ items = {}
        /\ Proceed(api[key])
    BY <1>1, <1>5, <1>14 DEF ReconcileActive, CheckIsOfBaseline
  <2>2. CASE StartListing("unexpected")
    BY <2>1, <2>2 DEF StartListing, UpToDate
  <2> QED
    BY <1>13, <2>1, <2>2 DEF Proceed
<1>15. CASE \E k \in kinds : DetectUnexpected(k)
  BY <1>15 DEF DetectUnexpected, workerVars, UpToDate
<1>16. CASE DetectUnexpectedDrifts
  <2>1. /\ pc = "unexpected" /\ key' = key /\ items = {} /\ StartCheck(obj)
    BY <1>1, <1>16 DEF DetectUnexpectedDrifts, CheckIsOfBaseline
  <2>2. obj = api[key]
    <3>1. obj.status = api[key].status
      BY <1>1, <1>6, <2>1 DEF FreshCopy, CheckPhases
    <3>2. obj \in MonitorTypes /\ api[key] \in MonitorTypes
      BY <1>1, <1>5, <2>1, MonitorObjectsAre DEF RuntimeTypeOK, StoreTypeOK
    <3> QED
      BY <1>6, <2>1, <3>1, <3>2 DEF MonitorTypes
  <2> QED
    BY <1>13, <2>1, <2>2
<1>17. ASSUME NEW e \in todo, CheckEntry(e)
       PROVE  UpToDate(m)'
  <2>1. /\ pc = "check" /\ pc' = pc /\ key' = key
        /\ todo' = todo \ {e}
        /\ LET type == CompareEntry(e, rcache[e.ref])
           IN  items' = IF type = "Match" THEN items
                        ELSE items \cup {[ref |-> e.ref, type |-> type, at |-> at]}
    BY <1>2, <1>17 DEF CheckEntry, workerVars
  <2>2. todo \subseteq api[key].spec.baseline
    BY <1>1, <1>5, <1>6, <2>1 DEF CheckIsOfBaseline
  <2>3. rcache[e.ref] = rbac[e.ref]
    <3>1. e.ref \in Refs
      BY <1>1 DEF CheckTypeOK, Entry
    <3> QED
      BY <1>1, <1>4, <2>2, <3>1 DEF ResourcesCatchUp
  <2>4. Found = DriftOf(api[key].spec.baseline \ todo)
    BY <1>5, <2>1 DEF UpToDate
  <2> DEFINE baseline == api[key].spec.baseline
  <2>5. Found' = DriftOf(api[m].spec.baseline \ todo)'
    <3>1. baseline = api'[m].spec.baseline
      BY <1>4
    <3> HIDE DEF baseline
    <3>2. todo \subseteq baseline /\ Found = DriftOf(baseline \ todo)
      BY <2>2, <2>4 DEF baseline
    <3>3. Found' = DriftOf(baseline \ (todo \ {e}))
      BY <2>1, <2>3, <3>2, EntryIsCounted
    <3> QED
      BY <1>4, <2>1, <3>1, <3>3 DEF DriftOf
  <2> QED
    BY <2>1, <2>5 DEF UpToDate
<1>18. CASE FinishRulesBased
  <2>1. /\ pc = "check" /\ key' = key /\ pc' = "putReport"
        /\ todo = {} /\ obj' = Report(obj)
    BY <1>18 DEF FinishRulesBased
  <2>2. Found = Expected(api[key].spec)
    <3>1. Found = DriftOf(api[key].spec.baseline \ todo)
      BY <1>5, <2>1 DEF UpToDate
    <3> QED
      BY <2>1, <3>1 DEF DriftOf, Expected
  <2>3. obj'.status.items = items /\ obj'.status.obsGen = obj.gen
    <3>1. obj \in MonitorObjects /\ items \in SUBSET Drift /\ at \in Nat
      BY <1>1, <2>1 DEF RuntimeTypeOK, CheckTypeOK
    <3>2. \A d \in items : /\ d.type \in {"Modified", "Deleted"}
                           /\ baselineReferencesResource(obj.spec, d.ref)
      BY <1>1, <1>5, <1>6, <2>1 DEF CheckIsOfBaseline
    <3> QED
      BY <2>1, <3>1, <3>2, ReportStatus DEF CompletesReport
  <2>4. Reported(obj'.status) = Found
    BY <2>3 DEF Reported, Found
  <2>5. Expected(api[m].spec)' = Expected(api[key].spec)
    BY <1>4 DEF Expected
  <2>6. Reflects(obj.status, m)'
    BY <1>4, <1>6, <2>1, <2>2, <2>3, <2>4, <2>5 DEF Reflects
  <2> QED
    BY <2>1, <2>6 DEF UpToDate
<1>19. CASE PutReport
  <2>1. pc = "putReport" /\ key' = Nil /\ fresh
    BY <1>6, <1>19 DEF PutReport, FinishedRequeue, WorkerFree
  <2>2. api[key].status = obj.status
    <3>1. Current /\ WriteStatus /\ pc \in PutPhases /\ key \in Monitors
      BY <1>2, <1>5, <1>19, <2>1
      DEF PutReport, StatusUpdated, StatusUpdateFailed, Current, PutPhases
    <3> QED
      BY <1>1, <1>3, <3>1, AcceptedInSilence
  <2>3. Reflects(api[m].status, m)
    BY <1>5, <2>1, <2>2 DEF UpToDate
  <2>4. Reflects(api[m].status, m)'
    BY <1>4, <2>3 DEF Reflects, Expected
  <2> QED
    BY <2>1, <2>4, NilAssumption DEF UpToDate
<1> QED
  BY <1>8, <1>9, <1>10, <1>11, <1>14, <1>15, <1>16, <1>17, <1>18, <1>19 DEF Reconcile

\* Every other step, when no call fails.
LEMMA OthersMissNothing ==
    ASSUME AccuracyInv, [Next]_vars, ~Reconcile, faults = 0, faults' = 0,
           NEW m \in Monitors, Active(m)', Active(m) => NewsOf(m) \/ UpToDate(m)
    PROVE  NewsOf(m)' \/ UpToDate(m)'
<1>1. /\ ContractInv /\ ResourcesCatchUp /\ CacheCatchesUp
      /\ (pc = "idle") <=> (key = Nil)
      /\ rwatch \in [Refs -> Seq(Resource \cup {Nil})]
      /\ rbac \in [Refs -> Resource \cup {Nil}]
      /\ api \in [Monitors -> Version]
      /\ FreshCopy /\ CopyIsFresh /\ CopyIsCurrent /\ CheckIsOfBaseline
  BY DEF AccuracyInv, ContractInv, SchedulingInv, TypeInv, TypeOK, RuntimeTypeOK, StoreTypeOK
<1> SUFFICES ASSUME ~NewsOf(m)'
             PROVE  UpToDate(m)'
  OBVIOUS
<1>2. /\ queue'[m] # "ready" /\ mwatch'[m] = <<>>
      /\ \A e \in api'[m].spec.baseline : rwatch'[e.ref] = <<>>
  BY DEF NewsOf
<1>3. CASE \/ \E n \in Monitors : RuntimeStep(n)
           \/ Clock
           \/ \E u \in late : Arrival(u)
  <2>1. /\ rbac' = rbac /\ rwatch' = rwatch
        /\ obj' = obj /\ todo' = todo /\ items' = items
        /\ mwatch[m] = <<>> /\ api'[m] = api[m]
        /\ queue[m] = "ready" => pc' = "get" /\ key' = m
        /\ \/ pc' = pc /\ key' = key
           \/ pc = "idle" /\ pc' = "get" /\ key = Nil
    BY <1>1, <1>2, <1>3, OthersFacts
  <2>2. CASE pc' = "get" /\ key' = m
    BY <2>2 DEF UpToDate
  <2>3. CASE ~(pc' = "get" /\ key' = m)
    <3>1. ~NewsOf(m) /\ Active(m)
      BY <1>2, <2>1, <2>3 DEF NewsOf, Active
    <3>2. UpToDate(m)
      BY <3>1
    <3>3. (key' = m) => key = m /\ pc' = pc
      BY <2>1, <2>3
    <3>4. (key = m) => key' = m
      BY <1>1, <2>1, NilAssumption
    <3> QED
      BY <2>1, <3>2, <3>3, <3>4 DEF UpToDate, Reflects, Found, DriftOf, Expected
  <2> QED
    BY <2>2, <2>3
<1>4. ASSUME NEW r \in Refs, NEW o \in Resource \cup {Nil}, ChangeResource(r, o)
      PROVE  UpToDate(m)'
  <2>1. /\ rbac' = [rbac EXCEPT ![r] = o]
        /\ rwatch' = [rwatch EXCEPT ![r] = Append(rwatch[r], o)]
        /\ api' = api /\ mwatch' = mwatch /\ queue' = queue /\ key' = key /\ pc' = pc
        /\ obj' = obj /\ todo' = todo /\ items' = items
    BY <1>4 DEF ChangeResource, storeVars, workerVars, checkVars
  <2>2. rwatch'[r] # <<>>
    <3> DEFINE O == Resource \cup {Nil}
    <3>1. o \in O /\ rwatch[r] \in Seq(O) /\ rwatch'[r] = Append(rwatch[r], o)
      BY <1>1, <2>1
    <3> HIDE DEF O
    <3> QED
      BY <3>1
  <2>3. \A q \in Refs \ {r} : rwatch'[q] = rwatch[q] /\ rbac'[q] = rbac[q]
    BY <1>1, <2>1
  <2>4. \A e \in api[m].spec.baseline : e.ref \in Refs \ {r}
    <3>1. api[m].spec.baseline \subseteq Entry
      BY <1>1, <2>1, RBACAssumption DEF Active, Version, MonitorObject, SpecRecord
    <3> QED
      BY <1>2, <2>1, <2>2, <3>1 DEF Entry
  <2>5. ~NewsOf(m) /\ Active(m)
    BY <1>2, <2>1, <2>3, <2>4 DEF NewsOf, Active
  <2>6. /\ Expected(api[m].spec)' = Expected(api[m].spec)
        /\ DriftOf(api[m].spec.baseline \ todo)' = DriftOf(api[m].spec.baseline \ todo)
    <3> DEFINE spec == api[m].spec
    <3>1. \A e \in spec.baseline : CompareEntry(e, rbac'[e.ref]) = CompareEntry(e, rbac[e.ref])
      BY <2>3, <2>4
    <3>2. spec' = spec
      BY <2>1
    <3> HIDE DEF spec
    <3>3. Expected(spec)' = Expected(spec)
      BY <3>1, <3>2 DEF Expected
    <3>4. DriftOf(spec.baseline \ todo)' = DriftOf(spec.baseline \ todo)
      BY <2>1, <3>1, <3>2 DEF DriftOf
    <3> QED
      BY <3>3, <3>4 DEF spec
  <2> QED
    BY <2>1, <2>5, <2>6 DEF UpToDate, Reflects, Found
<1>5. ASSUME NEW r \in Refs, DeliverResource(r)
      PROVE  UpToDate(m)'
  <2>1. /\ rbac' = rbac
        /\ rwatch' = [rwatch EXCEPT ![r] = Tail(rwatch[r])]
        /\ api' = api /\ mwatch' = mwatch /\ key' = key /\ pc' = pc /\ obj' = obj
        /\ todo' = todo /\ items' = items
        /\ queue' = Enqueue(mapRBACToMonitor(r))
    BY <1>5 DEF DeliverResource, Fault, storeVars, workerVars, checkVars
  <2>2. mcache[m] = api[m]
    BY <1>1, <1>2, <2>1 DEF CacheCatchesUp
  <2>3. m \notin mapRBACToMonitor(r) /\ queue[m] # "ready"
    BY <1>2, <2>1 DEF Enqueue
  <2>4. ~baselineReferencesResource(api[m].spec, r) /\ Active(m)
    BY <2>1, <2>2, <2>3 DEF mapRBACToMonitor, Active
  <2>5. \A q \in Refs \ {r} : rwatch'[q] = rwatch[q]
    BY <1>1, <2>1
  <2>6. ~NewsOf(m)
    <3>1. api[m].spec.baseline \subseteq Entry
      BY <1>1, <2>4, RBACAssumption DEF Active, Version, MonitorObject, SpecRecord
    <3>2. \A e \in api[m].spec.baseline : e.ref \in Refs \ {r}
      BY <2>4, <3>1 DEF baselineReferencesResource, Entry
    <3> QED
      BY <1>2, <2>1, <2>3, <2>5, <3>2 DEF NewsOf
  <2> QED
    BY <2>1, <2>4, <2>6 DEF UpToDate, Reflects, Found, DriftOf, Expected
<1>6. CASE Restart
  <2>1. /\ api' = api
        /\ queue' = [n \in Monitors |-> IF api[n] = Nil THEN "none" ELSE "ready"]
    BY <1>6 DEF Restart, RestartRuntime
  <2> QED
    BY <1>2, <2>1 DEF Active
<1>7. CASE Broadcast \/ UNCHANGED vars
  <2>1. /\ rbac' = rbac /\ rwatch' = rwatch
        /\ api' = api /\ mwatch' = mwatch /\ key' = key /\ pc' = pc /\ obj' = obj
        /\ queue' = queue /\ todo' = todo /\ items' = items
    BY <1>7 DEF Broadcast, vars, runtimeVars, clusterVars, checkVars
  <2> QED
    BY <1>2, <2>1 DEF UpToDate, Reflects, NewsOf, Active, Found, DriftOf, Expected
<1> QED
  BY <1>3, <1>4, <1>5, <1>6, <1>7 DEF Next

\* Failures are counted and never forgotten.
LEMMA FaultsCounted ==
    ASSUME ContractInv, [Next]_vars
    PROVE  faults \in Nat /\ (faults' = faults \/ faults' = faults + 1)
<1>1. faults \in Nat
  BY DEF ContractInv, SchedulingInv, TypeInv, TypeOK, RuntimeTypeOK
<1> DEFINE Counted == faults' = faults \/ faults' = faults + 1
<1>2. Fault => Counted
  BY DEF Fault
<1>3. faults' = faults => Counted
  OBVIOUS
<1>4. StatusUpdated \/ StatusUpdateFailed => faults' = faults \/ Fault
  BY DEF StatusUpdated, StatusUpdateFailed
<1>5. SnapshotStored \/ SnapshotNotStored => faults' = faults \/ Fault
  BY <1>4 DEF SnapshotStored, SnapshotNotStored
<1> SUFFICES Counted
  BY <1>1
<1> HIDE DEF Counted
<1>6. CASE PutSuspended \/ PutSnapshot \/ PutSnapshotFailed \/ PutReport
  BY <1>2, <1>3, <1>4, <1>5, <1>6
  DEF PutSuspended, PutSnapshot, PutSnapshotFailed, PutReport
<1>7. CASE Reconcile /\ ~(PutSuspended \/ PutSnapshot \/ PutSnapshotFailed \/ PutReport)
  <2>1. faults' = faults \/ Fault
    BY <1>7
    DEF Reconcile, GetFails, MonitorGone, ReconcileSuspended, ReconcileActive,
        SnapshotKind, SnapshotFails, SnapshotListed, DetectUnexpected,
        DetectUnexpectedDrifts, CheckEntry, FinishRulesBased, FinishSnapshotBased, boundVars
  <2> QED
    BY <1>2, <1>3, <2>1
<1>8. CASE ~Reconcile
  <2>1. faults' = faults \/ Fault
    BY <1>8
    DEF Next, RuntimeStep, CreateMonitor, UpdateSpec, DeleteMonitor, UserWrite,
        DeliverMonitor, FireTimer, Dequeue, ChangeResource, DeliverResource, Clock, Tick,
        Arrival, LateUpdate, Broadcast, Restart, RestartRuntime, boundVars, vars,
        runtimeVars
  <2> QED
    BY <1>2, <1>3, <2>1
<1> QED
  BY <1>6, <1>7, <1>8

LEMMA NothingMissedKept ==
    ASSUME AccuracyInv, [Next]_vars
    PROVE  NothingMissed'
<1> SUFFICES ASSUME faults' = 0, NEW m \in Monitors, Active(m)'
             PROVE  NewsOf(m)' \/ UpToDate(m)'
  BY DEF NothingMissed
<1>1. faults = 0
  BY FaultsCounted DEF AccuracyInv
<1>2. Active(m) => NewsOf(m) \/ UpToDate(m)
  BY <1>1 DEF AccuracyInv, NothingMissed
<1>3. CASE ~Reconcile
  BY <1>1, <1>2, <1>3, OthersMissNothing
<1>4. CASE Reconcile /\ m = key
  BY <1>1, <1>2, <1>4, WorkerMissesNothing
<1>5. CASE Reconcile /\ m # key
  <2>1. /\ rbac' = rbac /\ rwatch' = rwatch
        /\ key # m /\ key' # m
        /\ api'[m] = api[m] /\ mwatch'[m] = mwatch[m] /\ queue'[m] = queue[m]
    BY <1>5, WorkerFacts, NilAssumption DEF AccuracyInv
  <2> QED
    BY <1>2, <2>1 DEF UpToDate, Reflects, NewsOf, Active, Expected
<1> QED
  BY <1>3, <1>4, <1>5

LEMMA AccuracyInvariant == Spec => []AccuracyInv
<1>1. Init => AccuracyInv
  <2> SUFFICES ASSUME Init
               PROVE  AccuracyInv
    OBVIOUS
  <2>1. ResourcesCatchUp /\ CopyIsFresh /\ NothingMissed
    BY DEF Init, RuntimeInit, ResourcesCatchUp, CopyIsFresh, NothingMissed, Active
  <2> QED
    BY <2>1, InitContract DEF AccuracyInv
<1>2. AccuracyInv /\ [Next]_vars => AccuracyInv'
  BY NextContract, CatchUpKept, CopyStaysFresh, NothingMissedKept DEF AccuracyInv
<1> QED
  BY <1>1, <1>2, PTL DEF Spec

\* The watches alone keep the report right: unless a call failed, an active monitor
\* with nothing left to handle reports exactly the drift between its spec and the
\* cluster, though both change while the worker compares an older state of them
\* entry by entry (lines 191-366, mapRBACToMonitor, lines 630-682, and the
\* self-watch of line 768).
THEOREM DriftReportsAccurate == Spec => []SettledReportIsAccurate
<1>1. AccuracyInv => SettledReportIsAccurate
  <2> SUFFICES ASSUME AccuracyInv, NEW m \in Monitors, faults = 0, Active(m), Settled(m)
               PROVE  Accurate(m)
    BY DEF SettledReportIsAccurate
  <2>1. ~NewsOf(m) /\ key # m
    BY DEF Settled, NewsOf
  <2>2. UpToDate(m)
    BY <2>1 DEF AccuracyInv, NothingMissed
  <2> QED
    BY <2>1, <2>2 DEF UpToDate, Reflects, Accurate
<1> QED
  BY <1>1, AccuracyInvariant, PTL

-----------------------------------------------------------------------------
(***************************************************************************)
(* Why a missing snapshot is tried again.  Reconcile ends for good only    *)
(* when it has written that the snapshot failed, which the watch brings    *)
(* back, unless the status said so before: then two Lists have failed.     *)
(***************************************************************************)
SnapshotFailed(status) ==
    /\ status.snap = Nil
    /\ status.conds["Ready"] # Nil
    /\ status.conds["Ready"].reason = "BaselineSnapshotFailed"

\* No status blames a snapshot on a List that did not fail.
FailureHasCause ==
    /\ \A m \in Monitors : api[m] # Nil /\ SnapshotFailed(api[m].status) => faults >= 1
    /\ \A u \in late : SnapshotFailed(u.status) => faults >= 1
    /\ pc \in PutPhases /\ SnapshotFailed(obj.status) => faults >= 1

\* A failure that the stored status already tells of is the second one.
SecondFailure ==
    /\ pc = "putSnapshotFailed"
    /\ fresh
    /\ obj.status.snap = Nil
    /\ api[key].status = obj.status

RetryInv ==
    /\ ContractInv
    /\ CopyIsFresh
    /\ FailureHasCause
    /\ SecondFailure => faults >= 2
    /\ MissingSnapshotIsRetried

\* Where a stored status, or one on the way, comes from.
LEMMA CallSources ==
    ASSUME RuntimeTypeOK, pc \in PutPhases, key \in Monitors,
           \/ StatusUpdated \/ StatusUpdateFailed
           \/ SnapshotStored \/ SnapshotNotStored
    PROVE  /\ \A m \in Monitors : api'[m] # Nil =>
                 \/ api'[m] = api[m]
                 \/ api'[m].status = obj.status
           /\ \A u \in late' : u \in late \/ u.status = obj.status
<1>1. CASE UNCHANGED <<api, late>>
  BY <1>1
<1>2. CASE Current /\ WriteStatus
  <2>1. api'[key].status = obj.status
    BY <1>2, WriteStatusFacts
  <2>2. \A m \in Monitors \ {key} : api'[m] = api[m]
    BY CallShows
  <2>3. late' \subseteq late
    BY <1>2 DEF WriteStatus, Write, storeVars
  <2> QED
    BY <2>1, <2>2, <2>3
<1>3. CASE api' = api /\ late' = late \cup Abandoned
  BY <1>3 DEF Abandoned
<1> QED
  BY <1>1, <1>2, <1>3
  DEF StatusUpdated, StatusUpdateFailed, SnapshotStored, SnapshotNotStored, storeVars

LEMMA StatusSources ==
    ASSUME ContractInv, [Next]_vars
    PROVE  /\ \A m \in Monitors : api'[m] # Nil =>
                 \/ api[m] # Nil /\ api'[m].status = api[m].status
                 \/ api'[m].status = NoStatus
                 \/ \E u \in late : api'[m].status = u.status
                 \/ pc \in PutPhases /\ api'[m].status = obj.status
           /\ \A u \in late' : u \in late \/ (pc \in PutPhases /\ u.status = obj.status)
<1>1. /\ RuntimeTypeOK /\ StoreTypeOK
      /\ api \in [Monitors -> Version]
      /\ \A u \in late : u.key \in Monitors /\ api[u.key] # Nil
      /\ pc # "idle" => key \in Monitors
      /\ \A m \in Monitors : api[m] # Nil => api[m] \in MonitorTypes
  <2>1. \A u \in late : u.key \in Monitors /\ api[u.key] # Nil
    BY DEF ContractInv, SchedulingInv, TypeInv, TypeOK, RuntimeTypeOK, StoreTypeOK,
           LateUpdates
  <2> QED
    BY <2>1, MonitorObjectsAre
    DEF ContractInv, SchedulingInv, TypeInv, TypeOK, RuntimeTypeOK, StoreTypeOK, Version,
        MonitorObjects
<1>2. CASE UNCHANGED <<api, late>>
  BY <1>2
<1>3. ASSUME NEW n \in Monitors, NEW o, Write(n, o),
             \/ o = Nil
             \/ api[n] # Nil /\ o.status = api[n].status
             \/ o.status = NoStatus
             \/ \E u \in late : o.status = u.status
      PROVE  /\ \A m \in Monitors : api'[m] # Nil =>
                   \/ api[m] # Nil /\ api'[m].status = api[m].status
                   \/ api'[m].status = NoStatus
                   \/ \E u \in late : api'[m].status = u.status
             /\ late' \subseteq late
  <2>1. api'[n] = o /\ (\A m \in Monitors \ {n} : api'[m] = api[m]) /\ late' \subseteq late
    BY <1>1, <1>3 DEF Write
  <2>2. ASSUME NEW m \in Monitors, api'[m] # Nil
        PROVE  \/ api[m] # Nil /\ api'[m].status = api[m].status
               \/ api'[m].status = NoStatus
               \/ \E u \in late : api'[m].status = u.status
    <3>1. CASE m = n
      BY <1>3, <2>1, <2>2, <3>1
    <3>2. CASE m # n
      BY <2>1, <2>2, <3>2
    <3> QED
      BY <3>1, <3>2
  <2> QED
    BY <2>1, <2>2
<1>4. ASSUME NEW n \in Monitors, RuntimeStep(n)
      PROVE  \/ UNCHANGED <<api, late>>
             \/ \E o : /\ Write(n, o)
                       /\ \/ o = Nil
                          \/ api[n] # Nil /\ o.status = api[n].status
                          \/ o.status = NoStatus
  <2>1. ASSUME NEW s \in Specs, UpdateSpec(n, s)
        PROVE  \E o : Write(n, o) /\ api[n] # Nil /\ o.status = api[n].status
    <3> DEFINE o == [api[n] EXCEPT !.gen = @ + 1, !.spec = s]
    <3>1. Write(n, o) /\ api[n] # Nil
      BY <2>1 DEF UpdateSpec, UserWrite
    <3>2. o.status = api[n].status
      BY <1>1, <3>1 DEF MonitorTypes
    <3> QED
      BY <3>1, <3>2
  <2>2. ASSUME NEW s \in Specs, CreateMonitor(n, s, NoStatus)
        PROVE  \E o : Write(n, o) /\ o.status = NoStatus
    <3> DEFINE o == [gen |-> 1, spec |-> s, status |-> NoStatus]
    <3>1. Write(n, o) /\ o.status = NoStatus
      BY <2>2 DEF CreateMonitor, UserWrite
    <3> QED
      BY <3>1
  <2>3. DeleteMonitor(n) => Write(n, Nil)
    BY DEF DeleteMonitor, UserWrite
  <2>4. DeliverMonitor(n) \/ FireTimer(n) \/ Dequeue(n) => UNCHANGED <<api, late>>
    BY DEF DeliverMonitor, FireTimer, Dequeue, storeVars
  <2> QED
    BY <1>4, <2>1, <2>2, <2>3, <2>4 DEF RuntimeStep
<1>5. CASE \E n \in Monitors : RuntimeStep(n)
  BY <1>2, <1>3, <1>4, <1>5
<1>6. ASSUME NEW u \in late, Arrival(u)
      PROVE  /\ \A m \in Monitors : api'[m] # Nil =>
                   \/ api[m] # Nil /\ api'[m].status = api[m].status
                   \/ api'[m].status = NoStatus
                   \/ \E v \in late : api'[m].status = v.status
             /\ late' \subseteq late
  <2> DEFINE o == [api[u.key] EXCEPT !.status = u.status]
  <2>1. CASE api' = api /\ late' = late \ {u}
    BY <2>1
  <2>2. CASE Write(u.key, o)
    <3>1. o.status = u.status
      BY <1>1 DEF MonitorTypes
    <3> HIDE DEF o
    <3> QED
      BY <1>1, <1>3, <2>2, <3>1
  <2> QED
    BY <1>6, <2>1, <2>2 DEF Arrival, LateUpdate
<1>7. CASE Restart
  <2>1. api' = api /\ (late' = late \/ (pc \in PutPhases /\ late' = late \cup Abandoned))
    BY <1>7 DEF Restart, RestartRuntime
  <2> QED
    BY <2>1 DEF Abandoned
<1>8. CASE PutSuspended \/ PutSnapshot \/ PutSnapshotFailed \/ PutReport
  <2>1. /\ pc \in PutPhases /\ key \in Monitors
        /\ \/ StatusUpdated \/ StatusUpdateFailed
           \/ SnapshotStored \/ SnapshotNotStored
    BY <1>1, <1>8 DEF PutSuspended, PutSnapshot, PutSnapshotFailed, PutReport, PutPhases
  <2> QED
    BY <1>1, <2>1, CallSources
<1>9. CASE Reconcile /\ ~(PutSuspended \/ PutSnapshot \/ PutSnapshotFailed \/ PutReport)
  <2>1. UNCHANGED <<api, late>>
    BY <1>9
    DEF Reconcile, GetFails, MonitorGone, ReconcileSuspended, ReconcileActive, SnapshotKind,
        SnapshotFails, SnapshotListed, DetectUnexpected, DetectUnexpectedDrifts, CheckEntry,
        FinishRulesBased, FinishSnapshotBased, storeVars
  <2> QED
    BY <1>2, <2>1
<1>10. CASE \/ \E r \in Refs : \E o \in Resource \cup {Nil} : ChangeResource(r, o)
            \/ \E r \in Refs : DeliverResource(r)
            \/ Clock \/ Broadcast
            \/ UNCHANGED vars
  BY <1>2, <1>10
  DEF ChangeResource, DeliverResource, Clock, Tick, Broadcast, vars, runtimeVars,
      storeVars
<1> QED
  BY <1>5, <1>6, <1>7, <1>8, <1>9, <1>10 DEF Next

\* What the others leave of the worker's copy.
LEMMA CopyLeftAlone ==
    ASSUME ContractInv, [Next]_vars, ~Reconcile, pc' \notin {"idle", "get"}
    PROVE  /\ pc' = pc /\ key' = key /\ obj' = obj
           /\ fresh' => fresh /\ api'[key] = api[key]
<1>1. /\ api \in [Monitors -> Version]
      /\ pc # "idle" => key \in Monitors
  BY DEF ContractInv, SchedulingInv, TypeInv, TypeOK, RuntimeTypeOK, StoreTypeOK
<1>2. pc' = pc /\ key' = key /\ obj' = obj
  BY DEF Next, RuntimeStep, CreateMonitor, UpdateSpec, DeleteMonitor, UserWrite,
         DeliverMonitor, FireTimer, Dequeue, ChangeResource, DeliverResource, Clock, Tick,
         Arrival, LateUpdate, Broadcast, Restart, RestartRuntime, WorkerFree,
         workerVars, vars, runtimeVars
<1>3. ASSUME NEW n, NEW o, Write(n, o), fresh' = (fresh /\ n # key)
      PROVE  fresh' => fresh /\ api'[key] = api[key]
  BY <1>1, <1>2, <1>3 DEF Write
<1>4. CASE api' = api /\ fresh' = fresh
  BY <1>2, <1>4
<1>5. CASE \E n \in Monitors : RuntimeStep(n)
  BY <1>2, <1>3, <1>4, <1>5
  DEF RuntimeStep, CreateMonitor, UpdateSpec, DeleteMonitor, UserWrite, DeliverMonitor,
      FireTimer, Dequeue, storeVars, workerVars
<1>6. CASE \E u \in late : Arrival(u)
  <2>1. PICK u \in late : LateUpdate(u)
    BY <1>6 DEF Arrival
  <2>2. \/ api' = api /\ fresh' = fresh
        \/ /\ Write(u.key, [api[u.key] EXCEPT !.status = u.status])
           /\ fresh' = (fresh /\ u.key # key)
    BY <2>1 DEF LateUpdate
  <2> QED
    BY <1>2, <1>3, <1>4, <2>2
<1>7. CASE ~(\E n \in Monitors : RuntimeStep(n)) /\ ~(\E u \in late : Arrival(u))
  <2>1. api' = api /\ fresh' = fresh
    BY <1>7
    DEF Next, ChangeResource, DeliverResource, Clock, Tick, Broadcast, Restart,
        RestartRuntime, WorkerFree, storeVars, workerVars, vars, runtimeVars
  <2> QED
    BY <1>4, <2>1
<1> QED
  BY <1>2, <1>5, <1>6, <1>7

\* The statuses that Reconcile builds: as long as no call has failed, none of them
\* blames a snapshot.
LEMMA WorkerBlamesNone ==
    ASSUME ContractInv, Reconcile, ~Fault, pc' \in PutPhases
    PROVE  ~SnapshotFailed(obj'.status)
<1>1. /\ RuntimeTypeOK /\ CheckTypeOK /\ CheckIsOfBaseline /\ SnapshotMade
      /\ pc # "idle" => key \in Monitors
      /\ \A o \in Version : o # Nil => o \in MonitorObjects
      /\ obj \in Version
  BY DEF ContractInv, SchedulingInv, TypeInv, TypeOK, RuntimeTypeOK, Version, MonitorObjects
<1>2. CASE ReconcileSuspended
  <2>1. mcache[key] \in MonitorObjects /\ "Suspended" \in Reason
    BY <1>1, <1>2 DEF ReconcileSuspended, RuntimeTypeOK, Reason
  <2>2. obj'.status.conds["Ready"].reason = "Suspended"
    <3>1. obj' = NotReady(mcache[key], "Suspended")
      BY <1>2 DEF ReconcileSuspended, CopyFromCache
    <3>2. obj'.status.conds["Ready"] =
             [status |-> FALSE, reason |-> "Suspended", gen |-> mcache[key].gen]
      BY <2>1, <3>1, NotReadyStatus
    <3> QED
      BY <3>2
  <2> QED
    BY <2>2 DEF SnapshotFailed
<1>3. CASE SnapshotListed
  <2>1. obj \in MonitorTypes /\ snapshot \in SUBSET Entry
    BY <1>1, <1>3, MonitorObjectsAre DEF SnapshotListed, RuntimeTypeOK, CheckTypeOK
  <2>2. obj'.status.snap = snapshot
    BY <1>3, <2>1 DEF SnapshotListed, MonitorTypes, Status
  <2> QED
    BY <2>1, <2>2, NilIsNoObject DEF SnapshotFailed
<1>4. CASE PutSnapshot
  <2>1. pc = "putSnapshot" /\ obj \in MonitorObjects /\ obj.status.snap # Nil
    BY <1>1, <1>4 DEF PutSnapshot, SnapshotMade, RuntimeTypeOK
  <2>2. obj' = NotReady(obj, "BaselineSnapshotFailed")
    BY <1>4 DEF PutSnapshot, Proceed, StartListing, StartCheck, PutPhases
  <2>3. obj'.status.snap = obj.status.snap
    BY <2>1, <2>2, NotReadyStatus DEF Reason
  <2> QED
    BY <2>1, <2>3 DEF SnapshotFailed
<1>5. CASE FinishRulesBased
  <2>1. /\ obj \in MonitorObjects /\ items \in SUBSET Drift /\ at \in Nat
        /\ obj' = Report(obj)
        /\ \A d \in items : /\ d.type \in {"Modified", "Deleted"}
                            /\ baselineReferencesResource(obj.spec, d.ref)
    BY <1>1, <1>5 DEF FinishRulesBased, RuntimeTypeOK, CheckTypeOK, CheckIsOfBaseline
  <2>2. obj'.status.conds["Ready"].reason = "ReconcileComplete"
    <3>1. obj'.status.conds["Ready"] =
             [status |-> TRUE, reason |-> "ReconcileComplete", gen |-> obj.gen]
      BY <2>1, ReportStatus DEF CompletesReport
    <3> QED
      BY <3>1
  <2> QED
    BY <2>2 DEF SnapshotFailed
<1>6. CASE GetFails \/ SnapshotFails
  BY <1>6 DEF GetFails, SnapshotFails
<1>7. CASE \/ MonitorGone \/ ReconcileActive \/ PutSuspended \/ PutSnapshotFailed
           \/ DetectUnexpectedDrifts \/ FinishSnapshotBased \/ PutReport
           \/ \E k \in kinds : SnapshotKind(k) \/ DetectUnexpected(k)
           \/ \E e \in todo : CheckEntry(e)
  <2>1. pc' \in {"idle", "snapshot", "unexpected", "check"}
    BY <1>7
    DEF MonitorGone, ReconcileActive, PutSuspended, PutSnapshotFailed,
        DetectUnexpectedDrifts, FinishSnapshotBased, PutReport, SnapshotKind,
        DetectUnexpected, CheckEntry, Finished, FinishedRequeue, WorkerFree, Proceed,
        StartListing, StartCheck, workerVars
  <2> QED
    BY <2>1 DEF PutPhases
<1> QED
  BY <1>2, <1>3, <1>4, <1>5, <1>6, <1>7 DEF Reconcile

LEMMA CauseKept ==
    ASSUME ContractInv, FailureHasCause, [Next]_vars
    PROVE  FailureHasCause'
<1>1. faults \in Nat /\ (faults' = faults \/ faults' = faults + 1)
  BY FaultsCounted
<1>2. CASE faults' >= 1
  BY <1>2 DEF FailureHasCause
<1>3. CASE ~(faults' >= 1)
  <2>1. ~(faults >= 1) /\ ~Fault
    BY <1>1, <1>3 DEF Fault
  <2>2. /\ \A m \in Monitors : api[m] # Nil => ~SnapshotFailed(api[m].status)
        /\ \A u \in late : ~SnapshotFailed(u.status)
        /\ pc \in PutPhases => ~SnapshotFailed(obj.status)
    BY <2>1 DEF FailureHasCause
  <2>3. ~SnapshotFailed(NoStatus)
    BY DEF SnapshotFailed, NoStatus, ConditionType
  <2>4. ASSUME NEW m \in Monitors, api'[m] # Nil
        PROVE  ~SnapshotFailed(api'[m].status)
    BY <2>2, <2>3, <2>4, StatusSources
  <2>5. ASSUME NEW u \in late'
        PROVE  ~SnapshotFailed(u.status)
    BY <2>2, <2>5, StatusSources
  <2>6. pc' \in PutPhases => ~SnapshotFailed(obj'.status)
    <3>1. CASE Reconcile
      BY <2>1, <3>1, WorkerBlamesNone
    <3>2. CASE ~Reconcile
      BY <2>2, <3>2, CopyLeftAlone DEF PutPhases
    <3> QED
      BY <3>1, <3>2
  <2> QED
    BY <2>4, <2>5, <2>6 DEF FailureHasCause, SnapshotFailed
<1> QED
  BY <1>2, <1>3

LEMMA SecondFailureKept ==
    ASSUME ContractInv, FailureHasCause, SecondFailure => faults >= 2, [Next]_vars,
           SecondFailure'
    PROVE  faults' >= 2
<1>1. faults \in Nat /\ (faults' = faults \/ faults' = faults + 1)
  BY FaultsCounted
<1>2. CASE ~Reconcile
  <2>1. SecondFailure
    BY <1>2, CopyLeftAlone DEF SecondFailure
  <2> QED
    BY <1>1, <2>1
<1>3. CASE Reconcile
  <2>1. /\ RuntimeTypeOK /\ FreshCopy /\ SnapshotMade
        /\ \A o \in Version : o # Nil => o \in MonitorObjects
        /\ pc # "idle" => key \in Monitors
    BY DEF ContractInv, SchedulingInv, TypeInv, TypeOK, RuntimeTypeOK, Version,
           MonitorObjects
  <2>2. CASE SnapshotFails
    <3>1. /\ pc = "snapshot" /\ faults' = faults + 1
          /\ api' = api /\ key' = key /\ fresh' = fresh
          /\ obj' = NotReady(obj, "BaselineSnapshotFailed")
          /\ obj \in MonitorObjects /\ key \in Monitors
      BY <2>1, <2>2 DEF SnapshotFails, Fault, storeVars, RuntimeTypeOK
    <3>2. /\ api[key] # Nil
          /\ api[key].status = obj'.status
          /\ obj'.status.snap = Nil
      BY <2>1, <3>1 DEF SecondFailure, FreshCopy
    <3>3. obj'.status.conds["Ready"] =
             [status |-> FALSE, reason |-> "BaselineSnapshotFailed", gen |-> obj.gen]
      BY <3>1, NotReadyStatus DEF Reason
    <3>4. obj'.status.conds["Ready"] # Nil
      <4>1. obj.gen \in Nat
        BY <3>1, MonitorObjectsAre DEF MonitorTypes
      <4>2. [status |-> FALSE, reason |-> "BaselineSnapshotFailed", gen |-> obj.gen]
               \in Condition(Reason)
        BY <4>1 DEF Condition, Reason
      <4> QED
        BY <3>3, <4>2, NilIsNoObject
    <3>5. SnapshotFailed(api[key].status)
      BY <3>2, <3>3, <3>4 DEF SnapshotFailed
    <3> QED
      BY <1>1, <3>1, <3>2, <3>5 DEF FailureHasCause
  <2>3. CASE PutSnapshot
    <3>1. pc = "putSnapshot" /\ obj \in MonitorObjects /\ obj.status.snap # Nil
      BY <2>1, <2>3 DEF PutSnapshot, SnapshotMade, RuntimeTypeOK
    <3>2. obj' = NotReady(obj, "BaselineSnapshotFailed")
      BY <2>3 DEF PutSnapshot, Proceed, StartListing, StartCheck, SecondFailure
    <3>3. obj'.status.snap = obj.status.snap
      BY <3>1, <3>2, NotReadyStatus DEF Reason
    <3> QED
      BY <3>1, <3>3 DEF SecondFailure
  <2>4. CASE ~SnapshotFails /\ ~PutSnapshot
    <3>1. pc' # "putSnapshotFailed"
      BY <1>3, <2>4
      DEF Reconcile, GetFails, MonitorGone, ReconcileSuspended, ReconcileActive,
          PutSuspended, SnapshotKind, SnapshotListed, PutSnapshotFailed, DetectUnexpected,
          DetectUnexpectedDrifts, CheckEntry, FinishRulesBased, FinishSnapshotBased,
          PutReport, Finished, FinishedRequeue, WorkerFree, Proceed, StartListing,
          StartCheck, workerVars
    <3> QED
      BY <3>1 DEF SecondFailure
  <2> QED
    BY <2>2, <2>3, <2>4
<1> QED
  BY <1>2, <1>3

\* A monitor in snapshot mode that still waits for its snapshot.
NoSnapshotYet(m) ==
    /\ api[m] # Nil
    /\ ~api[m].spec.suspend
    /\ api[m].spec.mode = SnapshotBased
    /\ api[m].status.snap = Nil

\* The worker does not end for good with such a monitor.
LEMMA WorkerTriesAgain ==
    ASSUME RetryInv, Reconcile, faults' < 2, NEW m \in Monitors, m = key,
           NoSnapshotYet(m)'
    PROVE  Scheduled(m)'
<1> SUFFICES ASSUME ~Scheduled(m)'
             PROVE  FALSE
  OBVIOUS
<1>1. /\ ContractInv /\ CopyIsFresh
      /\ RuntimeTypeOK /\ CacheCatchesUp /\ CopyIsCurrent /\ PhaseFitsCopy
      /\ FreshCopy /\ SnapshotIsThereForTheCheck
      /\ queue \in [Monitors -> QueueState]
      /\ SecondFailure => faults >= 2
  BY DEF RetryInv, ContractInv, SchedulingInv, TypeInv, TypeOK, RuntimeTypeOK
<1>2. key' # key /\ queue'[key] = "none" /\ mwatch'[key] = <<>>
  BY DEF Scheduled
<1>3. queue[key] = "none" /\ mwatch[key] = <<>> /\ api' = api
  BY <1>1, <1>2, WorkerFacts
<1>4. /\ api[key] # Nil /\ ~api[key].spec.suspend
      /\ api[key].spec.mode = SnapshotBased
      /\ api[key].status.snap = Nil
  BY <1>3 DEF NoSnapshotYet
<1>5. ~FinishedRequeue
  BY <1>1, <1>2, EnqueueAfterFacts DEF FinishedRequeue
<1>6. CASE MonitorGone
  BY <1>1, <1>3, <1>4, <1>6 DEF MonitorGone, CacheCatchesUp
<1>7. CASE PutSuspended
  BY <1>1, <1>3, <1>4, <1>7 DEF PutSuspended, CopyIsCurrent, PhaseFitsCopy
<1>8. CASE PutSnapshotFailed
  <2>1. /\ pc = "putSnapshotFailed" /\ pc \in PutPhases /\ fresh
        /\ Current /\ WriteStatus /\ faults' = faults
    BY <1>5, <1>8
    DEF PutSnapshotFailed, SnapshotStored, StatusUpdated, Current, PutPhases
  <2>2. api[key].status = obj.status
    BY <1>1, <1>2, <2>1, AcceptedInSilence
  <2>3. faults >= 2
    BY <1>1, <1>4, <2>1, <2>2 DEF SecondFailure
  <2>4. faults \in Nat
    BY <1>1 DEF RuntimeTypeOK
  <2> QED
    BY <2>1, <2>3, <2>4
<1>9. CASE FinishSnapshotBased
  <2>1. pc = "check" /\ obj.spec.mode = SnapshotBased
    BY <1>9 DEF FinishSnapshotBased
  <2>2. obj.status = api[key].status
    BY <1>1, <1>3, <2>1 DEF CopyIsFresh, FreshCopy, CheckPhases
  <2> QED
    BY <1>1, <1>4, <2>1, <2>2 DEF SnapshotIsThereForTheCheck
<1>10. CASE GetFails \/ PutReport
  BY <1>5, <1>10 DEF GetFails, PutReport
<1>11. CASE ~(\/ GetFails \/ MonitorGone \/ PutSuspended \/ PutSnapshotFailed
             \/ FinishSnapshotBased \/ PutReport)
  <2>1. key' = key
    BY <1>11
    DEF Reconcile, ReconcileSuspended, ReconcileActive, SnapshotKind, SnapshotFails,
        SnapshotListed, PutSnapshot, DetectUnexpected, DetectUnexpectedDrifts, CheckEntry,
        FinishRulesBased, workerVars
  <2> QED
    BY <1>2, <2>1
<1> QED
  BY <1>6, <1>7, <1>8, <1>9, <1>10, <1>11

\* Nor does any other step forget it.
LEMMA OthersForgetNone ==
    ASSUME RetryInv, [Next]_vars, ~Reconcile, NEW m \in Monitors, NoSnapshotYet(m)',
           NoSnapshotYet(m) => Scheduled(m)
    PROVE  Scheduled(m)'
<1>1. /\ ContractInv
      /\ queue \in [Monitors -> QueueState]
      /\ (pc = "idle") <=> (key = Nil)
  BY DEF RetryInv, ContractInv, SchedulingInv, TypeInv, TypeOK, RuntimeTypeOK
<1>2. CASE \/ \E n \in Monitors : RuntimeStep(n)
           \/ Clock
           \/ \E u \in late : Arrival(u)
  <2>1. SUFFICES ASSUME mwatch'[m] = <<>>, queue'[m] = "none"
                 PROVE  key' = m
    BY DEF Scheduled
  <2>2. mwatch[m] = <<>> /\ api'[m] = api[m]
    BY <1>1, <1>2, <2>1, OthersFacts
  <2>3. key = m \/ queue[m] # "none"
    BY <2>2 DEF NoSnapshotYet, Scheduled
  <2>4. CASE key = m
    <3>1. key # Nil
      BY <2>4, NilAssumption
    <3> QED
      BY <1>1, <1>2, <2>4, <3>1, OthersFacts
  <2>5. CASE queue[m] # "none"
    BY <1>1, <1>2, <2>1, <2>5, OthersFacts
  <2> QED
    BY <2>3, <2>4, <2>5
<1>3. CASE Restart
  BY <1>3 DEF Restart, RestartRuntime, NoSnapshotYet, Scheduled
<1>4. ASSUME api' = api, mwatch' = mwatch, key' = key,
             queue[m] # "none" => queue'[m] # "none"
      PROVE  Scheduled(m)'
  BY <1>4 DEF NoSnapshotYet, Scheduled
<1>5. ASSUME NEW r \in Refs, DeliverResource(r)
      PROVE  Scheduled(m)'
  <2>1. /\ api' = api /\ mwatch' = mwatch /\ key' = key
        /\ queue' = queue \/ queue' = Enqueue(mapRBACToMonitor(r))
    BY <1>5 DEF DeliverResource, storeVars, workerVars
  <2> QED
    BY <1>1, <1>4, <2>1, EnqueueFacts
<1>6. CASE \/ \E r \in Refs : \E o \in Resource \cup {Nil} : ChangeResource(r, o)
           \/ Broadcast \/ UNCHANGED vars
  <2>1. api' = api /\ mwatch' = mwatch /\ key' = key /\ queue' = queue
    BY <1>6 DEF ChangeResource, Broadcast, storeVars, workerVars, vars, runtimeVars
  <2> QED
    BY <1>4, <2>1
<1> QED
  BY <1>2, <1>3, <1>5, <1>6 DEF Next

LEMMA RetryKept ==
    ASSUME RetryInv, [Next]_vars
    PROVE  MissingSnapshotIsRetried'
<1> SUFFICES ASSUME faults' < 2, NEW m \in Monitors, NoSnapshotYet(m)'
             PROVE  Scheduled(m)'
  BY DEF MissingSnapshotIsRetried, NoSnapshotYet
<1>1. faults < 2
  BY FaultsCounted DEF RetryInv
<1>2. NoSnapshotYet(m) => Scheduled(m)
  BY <1>1 DEF RetryInv, MissingSnapshotIsRetried, NoSnapshotYet
<1>3. CASE ~Reconcile
  BY <1>2, <1>3, OthersForgetNone
<1>4. CASE Reconcile /\ m = key
  BY <1>4, WorkerTriesAgain
<1>5. CASE Reconcile /\ m # key
  <2>1. /\ key # m
        /\ api'[m] = api[m] /\ mwatch'[m] = mwatch[m] /\ queue'[m] = queue[m]
    BY <1>5, WorkerFacts DEF RetryInv
  <2> QED
    BY <1>2, <2>1 DEF NoSnapshotYet, Scheduled
<1> QED
  BY <1>3, <1>4, <1>5

LEMMA RetryInvariant == Spec => []RetryInv
<1>1. Init => RetryInv
  <2> SUFFICES ASSUME Init
               PROVE  RetryInv
    OBVIOUS
  <2>1. CopyIsFresh /\ FailureHasCause /\ ~SecondFailure /\ MissingSnapshotIsRetried
    BY DEF Init, RuntimeInit, CopyIsFresh, FailureHasCause, SecondFailure, PutPhases,
           MissingSnapshotIsRetried
  <2> QED
    BY <2>1, InitContract DEF RetryInv
<1>2. ASSUME RetryInv, [Next]_vars
      PROVE  RetryInv'
  <2>1. ContractInv' /\ CopyIsFresh' /\ FailureHasCause'
    BY <1>2, NextContract, CopyStaysFresh, CauseKept DEF RetryInv
  <2>2. (SecondFailure => faults >= 2)'
    BY <1>2, SecondFailureKept DEF RetryInv
  <2>3. MissingSnapshotIsRetried'
    BY <1>2, RetryKept
  <2> QED
    BY <2>1, <2>2, <2>3 DEF RetryInv
<1> QED
  BY <1>1, <1>2, PTL DEF Spec

\* The error paths that return without an error leave no monitor behind after one
\* failed List: the status that says so comes back on the watch, and only a second
\* failure writes nothing new (lines 91-109 and 739-740).
THEOREM MissingSnapshotRetried == Spec => []MissingSnapshotIsRetried
<1>1. RetryInv => MissingSnapshotIsRetried
  BY DEF RetryInv
<1> QED
  BY <1>1, RetryInvariant, PTL

=============================================================================
