----------------------- MODULE RBACDriftContractProofs -----------------------
(***************************************************************************)
(* Proofs that RBACDriftMonitor implements MonitorContract, and of what    *)
(* can be said of every stored status, for every value of the constants:   *)
(*   ContractImplemented   ImplementsContract                              *)
(*   ReportSpeaksOfBaseline, ConditionMatches, DriftAnnounced              *)
(*   SuspendedLeftAlone, SnapshotOnce                                      *)
(*   StoredIsTrustworthy   the theorem of MonitorContract, carried over    *)
(* All rest on the inductive ContractInv.                                  *)
(***************************************************************************)
EXTENDS RBACDriftProofs

MonitorTypes == [gen : Nat, spec : Specs, status : Status]

LEMMA MonitorObjectsAre == MonitorObjects = MonitorTypes
BY DEF MonitorObjects, MonitorObject, MonitorTypes

\* The statuses that Reconcile builds.
LEMMA NotReadyStatus ==
    ASSUME NEW o \in MonitorObjects, NEW reason \in Reason
    PROVE  LET p == NotReady(o, reason)
           IN  /\ p \in MonitorObjects
               /\ p.gen = o.gen
               /\ p.spec = o.spec
               /\ p.status.snap = o.status.snap
               /\ p.status.items = o.status.items
               /\ ReportOf(p.status) = ReportOf(o.status)
               /\ p.status.conds["Ready"] =
                     [status |-> FALSE, reason |-> reason, gen |-> o.gen]
<1> DEFINE ready == [status |-> FALSE, reason |-> reason, gen |-> o.gen]
           c == [o.status.conds EXCEPT !["Ready"] = ready]
           s == [o.status EXCEPT !.conds = c]
<1>1. /\ o \in [gen : Nat, spec : Specs, status : Status]
      /\ o.status.conds \in Conditions
      /\ "Ready" \in ConditionType
      /\ "DriftDetected" \in ConditionType
  BY DEF MonitorObjects, MonitorObject, Status, ConditionType, Conditions
<1>2. c["Ready"] = ready /\ c["DriftDetected"] = o.status.conds["DriftDetected"]
  BY <1>1 DEF Conditions
<1>3. /\ s.conds = c
      /\ s.snap = o.status.snap
      /\ s.items = o.status.items
      /\ s.obsGen = o.status.obsGen
  BY <1>1 DEF Status
<1>4. NotReady(o, reason) = [o EXCEPT !.status = s]
  BY <1>1 DEF NotReady, SetStatusCondition, Status
<1>5. ReportOf(s) = ReportOf(o.status)
  <2> HIDE DEF s, c
  <2> QED
    BY <1>2, <1>3 DEF ReportOf, Finding, Reported
<1>6. /\ [o EXCEPT !.status = s].status = s
      /\ [o EXCEPT !.status = s].gen = o.gen
      /\ [o EXCEPT !.status = s].spec = o.spec
  <2> HIDE DEF s
  <2> QED
    BY <1>1
<1> QED
  <2> HIDE DEF s, c, ready
  <2>1. NotReady(o, reason) \in MonitorObjects
    BY NotReadyFacts
  <2>2. ready = [status |-> FALSE, reason |-> reason, gen |-> o.gen]
    BY DEF ready
  <2> QED
    BY <1>2, <1>3, <1>4, <1>5, <1>6, <2>1, <2>2

\* The drifts of a rules check are admissible for the spec it was made for.
LEMMA ReportStatus ==
    ASSUME NEW o \in MonitorObjects, items \in SUBSET Drift, at \in Nat,
           \A d \in items : /\ d.type \in {"Modified", "Deleted"}
                            /\ baselineReferencesResource(o.spec, d.ref)
    PROVE  LET p == Report(o)
           IN  /\ p \in MonitorObjects
               /\ p.gen = o.gen
               /\ p.spec = o.spec
               /\ p.status.snap = o.status.snap
               /\ p.status.items = items
               /\ CompletesReport(o, p.status)
<1> DEFINE d == DriftCondition(o.status.conds, items, o.gen)
           ready == [status |-> TRUE, reason |-> "ReconcileComplete", gen |-> o.gen]
           c == SetStatusCondition(d, "Ready", TRUE, "ReconcileComplete", o.gen)
           s == [o.status EXCEPT !.items = items, !.lastCheck = at,
                                 !.obsGen = o.gen, !.conds = c]
<1>1. /\ o \in [gen : Nat, spec : Specs, status : Status]
      /\ o.status.conds \in Conditions
      /\ o.gen \in Nat
      /\ "Ready" \in ConditionType
      /\ "DriftDetected" \in ConditionType
  BY DEF MonitorObjects, MonitorObject, Status, ConditionType, Conditions
<1>2. /\ c["Ready"] = ready
      /\ c["DriftDetected"] # Nil /\ (c["DriftDetected"].status <=> items # {})
  <2>1. DOMAIN d = ConditionType
    BY <1>1 DEF DriftCondition, SetStatusCondition, Conditions
  <2>2. c["Ready"] = ready /\ c["DriftDetected"] = d["DriftDetected"]
    BY <1>1, <2>1 DEF SetStatusCondition
  <2>3. \A b \in BOOLEAN, r \in Reason : [status |-> b, reason |-> r, gen |-> o.gen] # Nil
    BY <1>1, NilIsNoObject DEF Condition
  <2>4. /\ d["DriftDetected"] # Nil
        /\ d["DriftDetected"].status <=> items # {}
    <3>1. CASE items # {}
      <4>1. d["DriftDetected"] = [status |-> TRUE, reason |-> "DriftFound", gen |-> o.gen]
        BY <1>1, <3>1 DEF DriftCondition, SetStatusCondition, Conditions
      <4>2. d["DriftDetected"].status = TRUE
        BY <4>1
      <4> QED
        BY <2>3, <3>1, <4>1, <4>2 DEF Reason
    <3>2. CASE items = {}
      <4>1. d["DriftDetected"] = [status |-> FALSE, reason |-> "NoDrift", gen |-> o.gen]
        BY <1>1, <3>2 DEF DriftCondition, SetStatusCondition, Conditions
      <4>2. d["DriftDetected"].status = FALSE
        BY <4>1
      <4> QED
        BY <2>3, <3>2, <4>1, <4>2 DEF Reason
    <3> QED
      BY <3>1, <3>2
  <2> QED
    BY <2>2, <2>4
<1>3. /\ s.conds = c
      /\ s.snap = o.status.snap
      /\ s.items = items
      /\ s.obsGen = o.gen
  BY <1>1 DEF Status
<1>4. Report(o) = [o EXCEPT !.status = s]
  BY <1>1 DEF Report, Status
<1>5. CompletesReport(o, s)
  <2> HIDE DEF s, c, d
  <2> DEFINE ds == {[ref |-> e.ref, type |-> e.type] : e \in items}
             b == items # {}
             D == SUBSET [ref : {e.ref : e \in o.spec.baseline},
                          type : {"Modified", "Deleted"}]
  <2>1. Finding(s) = [drifts |-> ds, detected |-> b]
    <3>1. Reported(s) = ds
      BY <1>3 DEF Reported
    <3>2. (s.conds["DriftDetected"] # Nil /\ s.conds["DriftDetected"].status) = b
      BY <1>2, <1>3
    <3> QED
      BY <3>1, <3>2 DEF Finding
  <2>2. ds \in D
    BY DEF baselineReferencesResource
  <2>3. b \in BOOLEAN
    OBVIOUS
  <2>4. b <=> ds # {}
    OBVIOUS
  <2>5. Finding(s) \in AdmissibleFor(o.spec)
    <3> DEFINE f == [drifts |-> ds, detected |-> b]
    <3> HIDE DEF ds, b, D
    <3>1. f \in [drifts : D, detected : BOOLEAN] /\ f.drifts = ds /\ f.detected = b
      BY <2>2, <2>3
    <3>2. f.detected <=> f.drifts # {}
      BY <2>4, <3>1
    <3> HIDE DEF f
    <3>3. f \in AdmissibleFor(o.spec)
      BY <3>1, <3>2, Zenon DEF AdmissibleFor, D
    <3> QED
      BY <2>1, <3>3 DEF f
  <2> QED
    BY <1>2, <1>3, <2>5 DEF CompletesReport
<1>6. /\ [o EXCEPT !.status = s].status = s
      /\ [o EXCEPT !.status = s].gen = o.gen
      /\ [o EXCEPT !.status = s].spec = o.spec
  <2> HIDE DEF s
  <2> QED
    BY <1>1
<1> QED
  <2> HIDE DEF s, c, d
  <2>1. Report(o) \in MonitorObjects
    BY ReportFacts
  <2> QED
    BY <1>3, <1>4, <1>5, <1>6, <2>1

-----------------------------------------------------------------------------
(***************************************************************************)
(* The stored monitors and the updates on the way to them.                 *)
(***************************************************************************)
LEMMA SoundAfter ==
    ASSUME NEW m \in Monitors, NEW o \in MonitorObjects, NEW status \in Status,
           Sound(m, o), MayFollow(o, status),
           Announcements(m, status.items) \subseteq told
    PROVE  Sound(m, [o EXCEPT !.status = status])
<1> DEFINE p == [o EXCEPT !.status = status]
<1>1. /\ o.gen \in Nat
      /\ p.gen = o.gen /\ p.spec = o.spec /\ p.status = status
  BY MonitorObjectsAre DEF MonitorTypes
<1>2. ASSUME ReportOf(status) = ReportOf(o.status),
             LET ready == status.conds["Ready"]
             IN  ready # Nil => (ready.status <=> ready.reason = "ReconcileComplete")
      PROVE  Sound(m, p)
  <2>1. status.obsGen = o.status.obsGen /\ Finding(status) = Finding(o.status)
    BY <1>2 DEF ReportOf
  <2> HIDE DEF p
  <2> QED
    BY <1>1, <1>2, <2>1 DEF Sound
<1>3. CASE o.spec.suspend
  <2>1. /\ ReportOf(status) = ReportOf(o.status)
        /\ status.conds["Ready"] =
              [status |-> FALSE, reason |-> "Suspended", gen |-> o.gen]
    <3>1. "Suspended" \in Reason
      BY DEF Reason
    <3>2. status = NotReady(o, "Suspended").status
      BY <1>3 DEF MayFollow
    <3> QED
      BY <3>1, <3>2, NotReadyStatus
  <2> QED
    BY <1>2, <2>1
<1>4. CASE KeepsReport(o, status)
  BY <1>2, <1>4 DEF KeepsReport, Sound
<1>5. CASE CompletesReport(o, status)
  <2>1. Finding(status).detected <=> Finding(status).drifts # {}
    BY <1>5 DEF CompletesReport, AdmissibleFor
  <2>2. LET ready == status.conds["Ready"]
        IN  ready # Nil => (ready.status <=> ready.reason = "ReconcileComplete")
    BY <1>5 DEF CompletesReport
  <2> HIDE DEF p
  <2> QED
    BY <1>1, <1>5, <2>1, <2>2 DEF CompletesReport, Sound
<1> QED
  BY <1>3, <1>4, <1>5 DEF MayFollow

\* A step that leaves the store alone, or only adds to what the recorder was told.
LEMMA StoreUnchanged ==
    ASSUME ContractInv, UNCHANGED <<api, late>>, told \subseteq told'
    PROVE  LateIsAcceptable' /\ StoredIsSound'
BY DEF ContractInv, LateIsAcceptable, Acceptable, StoredIsSound, Sound

\* A write takes the updates of the old version off the way.
LEMMA WriteKeeps ==
    ASSUME ContractInv, NEW m \in Monitors, NEW o \in Version, Write(m, o),
           o # Nil => Sound(m, o), UNCHANGED told
    PROVE  LateIsAcceptable' /\ StoredIsSound'
<1>1. StoreTypeOK
  BY DEF ContractInv, SchedulingInv, TypeInv, TypeOK, RuntimeTypeOK
<1>2. /\ api'[m] = o
      /\ \A n \in Monitors \ {m} : api'[n] = api[n]
      /\ late' = {u \in late : u.key # m}
  BY <1>1, WriteFacts DEF Write
<1>3. LateIsAcceptable'
  <2>1. \A u \in late : u.key \in Monitors
    BY <1>1 DEF StoreTypeOK, LateUpdates
  <2> QED
    BY <1>2, <2>1 DEF ContractInv, LateIsAcceptable, Acceptable
<1>4. StoredIsSound'
  BY <1>2 DEF ContractInv, StoredIsSound, Sound
<1> QED
  BY <1>3, <1>4

LEMMA AcceptedWrite ==
    ASSUME ContractInv, NEW m \in Monitors, NEW status \in Status, api[m] # Nil,
           Acceptable(m, status), Write(m, [api[m] EXCEPT !.status = status]),
           UNCHANGED told
    PROVE  LateIsAcceptable' /\ StoredIsSound'
<1>1. api[m] \in MonitorObjects
  BY DEF ContractInv, SchedulingInv, TypeInv, TypeOK, RuntimeTypeOK, StoreTypeOK, Version,
         MonitorObjects
<1>2. [api[m] EXCEPT !.status = status] \in Version
  BY <1>1, MonitorObjectsAre DEF MonitorTypes, Version, MonitorObjects
<1>3. Sound(m, [api[m] EXCEPT !.status = status])
  BY <1>1, SoundAfter DEF ContractInv, StoredIsSound, Acceptable
<1> QED
  BY <1>2, <1>3, WriteKeeps

\* A request that the worker leaves on the way is one it may have made.
LEMMA AbandonedKeeps ==
    ASSUME ContractInv, pc \in PutPhases, Current, UNCHANGED <<api, told>>,
           late' = late \cup Abandoned
    PROVE  LateIsAcceptable' /\ StoredIsSound'
<1>1. Acceptable(key, obj.status)
  BY DEF ContractInv, FreshCopy, PutPhases, Current
<1>2. LateIsAcceptable'
  BY <1>1 DEF ContractInv, LateIsAcceptable, Acceptable, Abandoned
<1>3. StoredIsSound'
  BY DEF ContractInv, StoredIsSound, Sound
<1> QED
  BY <1>2, <1>3

\* The worker's status update, and what becomes of it.
LEMMA CallKeeps ==
    ASSUME ContractInv, pc \in PutPhases, UNCHANGED told,
           \/ StatusUpdated \/ StatusUpdateFailed
           \/ SnapshotStored \/ SnapshotNotStored
    PROVE  LateIsAcceptable' /\ StoredIsSound'
<1>1. /\ RuntimeTypeOK
      /\ key \in Monitors
      /\ obj \in MonitorObjects
      /\ obj.status \in Status
  BY DEF ContractInv, SchedulingInv, TypeInv, TypeOK, RuntimeTypeOK, PutPhases, Version,
         MonitorObjects, MonitorObject
<1>2. Current => Acceptable(key, obj.status)
  BY DEF ContractInv, FreshCopy, PutPhases, Current
<1>3. CASE UNCHANGED <<api, late>>
  BY <1>3, StoreUnchanged
<1>4. CASE Current /\ WriteStatus
  BY <1>1, <1>2, <1>3, <1>4, AcceptedWrite DEF WriteStatus, Current, storeVars
<1>5. CASE Current /\ UNCHANGED api /\ late' = late \cup Abandoned
  BY <1>5, AbandonedKeeps
<1> QED
  BY <1>3, <1>4, <1>5
  DEF StatusUpdated, StatusUpdateFailed, SnapshotStored, SnapshotNotStored, storeVars

-----------------------------------------------------------------------------
(***************************************************************************)
(* The worker's copy, one lemma per group of actions.                      *)
(***************************************************************************)
LEMMA CopyUnchanged ==
    ASSUME FreshCopy, UNCHANGED <<pc, key, obj>>, told \subseteq told',
           fresh' => fresh /\ api'[key] = api[key]
    PROVE  FreshCopy'
BY DEF FreshCopy, Acceptable

LEMMA CheckUnchanged ==
    ASSUME CheckIsOfBaseline, items' = items, todo' = todo,
           \/ pc' = pc /\ obj' = obj
           \/ pc = "idle" /\ pc' = "get"
    PROVE  CheckIsOfBaseline'
BY DEF CheckIsOfBaseline, CheckPhases, PutPhases

\* Edits of the user, deliveries, timers and Dequeue.
LEMMA RuntimeStepKeeps ==
    ASSUME ContractInv, NEW m \in Monitors, RuntimeStep(m)
    PROVE  FreshCopy' /\ LateIsAcceptable' /\ CheckIsOfBaseline' /\ StoredIsSound'
<1>1. /\ TypeOK /\ RuntimeTypeOK /\ StoreTypeOK
      /\ FreshCopy /\ CheckIsOfBaseline /\ StoredIsSound
  BY DEF ContractInv, SchedulingInv, TypeInv, TypeOK, RuntimeTypeOK
<1>2. UNCHANGED <<items, todo, told>>
  BY DEF RuntimeStep, checkVars, eventVars
<1>3. ASSUME NEW o \in Version, UserWrite(m, o), o # Nil => Sound(m, o)
      PROVE  FreshCopy' /\ LateIsAcceptable' /\ CheckIsOfBaseline' /\ StoredIsSound'
  <2>1. LateIsAcceptable' /\ StoredIsSound'
    BY <1>2, <1>3, WriteKeeps DEF UserWrite
  <2>2. \A n \in Monitors \ {m} : api'[n] = api[n]
    BY <1>1, <1>3, WriteFacts DEF UserWrite
  <2>3. UNCHANGED <<pc, key, obj>> /\ (fresh' => fresh /\ m # key)
    BY <1>3 DEF UserWrite
  <2>4. FreshCopy'
    <3>1. CASE key \in Monitors
      BY <1>1, <1>2, <2>2, <2>3, <3>1, CopyUnchanged
    <3>2. CASE key \notin Monitors
      BY <1>1, <2>3, <3>2 DEF FreshCopy, RuntimeTypeOK
    <3> QED
      BY <3>1, <3>2
  <2>5. CheckIsOfBaseline'
    BY <1>1, <1>2, <2>3, CheckUnchanged
  <2> QED
    BY <2>1, <2>4, <2>5
<1>4. ASSUME NEW s \in Specs, CreateMonitor(m, s, NoStatus)
      PROVE  \E o \in Version : UserWrite(m, o) /\ (o # Nil => Sound(m, o))
  <2> DEFINE o == [gen |-> 1, spec |-> s, status |-> NoStatus]
  <2>1. o \in Version
    BY NoStatusType DEF Version, MonitorObject
  <2>2. Sound(m, o)
    <3>1. /\ NoStatus.obsGen = 0
          /\ NoStatus.items = {}
          /\ NoStatus.conds["Ready"] = Nil
          /\ NoStatus.conds["DriftDetected"] = Nil
      BY DEF NoStatus, ConditionType
    <3>2. Finding(NoStatus).detected = FALSE /\ Finding(NoStatus).drifts = {}
      <4> HIDE DEF NoStatus
      <4> QED
        BY <3>1 DEF Finding, Reported
    <3> QED
      BY <3>1, <3>2 DEF Sound, Announcements
  <2> QED
    BY <1>4, <2>1, <2>2 DEF CreateMonitor
<1>5. ASSUME NEW s \in Specs, UpdateSpec(m, s)
      PROVE  \E o \in Version : UserWrite(m, o) /\ (o # Nil => Sound(m, o))
  <2> DEFINE o == [api[m] EXCEPT !.gen = @ + 1, !.spec = s]
  <2>1. /\ api[m] \in MonitorTypes
        /\ api[m].gen \in Nat
        /\ api[m].status.obsGen \in Nat
    BY <1>1, <1>5 DEF UpdateSpec, StoreTypeOK, Version, MonitorObject, MonitorTypes, Status
  <2>2. /\ o \in Version
        /\ o.gen = api[m].gen + 1 /\ o.spec = s /\ o.status = api[m].status
    <3>1. api[m].gen + 1 \in Nat
      BY <2>1
    <3> QED
      BY <2>1, <3>1 DEF MonitorTypes, Version, MonitorObject
  <2>3. Sound(m, api[m])
    BY <1>1, <1>5 DEF StoredIsSound, UpdateSpec
  <2>4. Sound(m, o)
    <3> HIDE DEF o
    <3> QED
      BY <2>1, <2>2, <2>3 DEF Sound
  <2> QED
    BY <1>5, <2>2, <2>4 DEF UpdateSpec
<1>6. CASE DeleteMonitor(m)
  BY <1>3, <1>6 DEF DeleteMonitor, Version
<1>7. CASE DeliverMonitor(m) \/ FireTimer(m) \/ Dequeue(m)
  <2>1. /\ UNCHANGED <<api, late, obj, fresh>>
        /\ \/ UNCHANGED <<pc, key>>
           \/ pc = "idle" /\ pc' = "get"
    BY <1>7 DEF DeliverMonitor, FireTimer, Dequeue, storeVars, workerVars
  <2>2. LateIsAcceptable' /\ StoredIsSound'
    BY <1>2, <2>1, StoreUnchanged
  <2>3. FreshCopy'
    BY <1>1, <1>2, <2>1, CopyUnchanged DEF FreshCopy
  <2>4. CheckIsOfBaseline'
    BY <1>1, <1>2, <2>1, CheckUnchanged
  <2> QED
    BY <2>2, <2>3, <2>4
<1> QED
  BY <1>3, <1>4, <1>5, <1>6, <1>7 DEF RuntimeStep

\* The cluster, the clock, abandoned updates and restarts.
LEMMA OtherStepKeeps ==
    ASSUME ContractInv,
           \/ Clock
           \/ Restart
           \/ Broadcast
           \/ \E u \in late : Arrival(u)
           \/ \E r \in Refs : DeliverResource(r)
           \/ \E r \in Refs : \E o \in Resource \cup {Nil} : ChangeResource(r, o)
           \/ UNCHANGED vars
    PROVE  FreshCopy' /\ LateIsAcceptable' /\ CheckIsOfBaseline' /\ StoredIsSound'
<1>1. /\ TypeOK /\ RuntimeTypeOK /\ StoreTypeOK
      /\ FreshCopy /\ CheckIsOfBaseline /\ StoredIsSound
  BY DEF ContractInv, SchedulingInv, TypeInv, TypeOK, RuntimeTypeOK
<1>2. CASE Restart
  <2>1. /\ pc' = "idle" /\ items' = {}
        /\ UNCHANGED <<api, told>>
        /\ \/ late' = late
           \/ pc \in PutPhases /\ Current /\ late' = late \cup Abandoned
    BY <1>2 DEF Restart, RestartRuntime, WorkerFree, ClearCheck, DropUnsent
  <2>2. LateIsAcceptable' /\ StoredIsSound'
    BY <2>1, StoreUnchanged, AbandonedKeeps
  <2> QED
    BY <2>1, <2>2 DEF FreshCopy, CheckIsOfBaseline, CheckPhases, PutPhases
<1>3. CASE \E u \in late : Arrival(u)
  <2>1. PICK u \in late : Arrival(u)
    BY <1>3
  <2>2. /\ u.key \in Monitors /\ u.status \in Status
        /\ api[u.key] # Nil
        /\ Acceptable(u.key, u.status)
    BY <1>1 DEF StoreTypeOK, LateUpdates, ContractInv, LateIsAcceptable
  <2>3. UNCHANGED <<pc, key, obj, items, todo, told>>
    BY <2>1 DEF Arrival, LateUpdate, checkVars, eventVars
  <2>4. CheckIsOfBaseline'
    BY <1>1, <2>3, CheckUnchanged
  <2>5. CASE late' = late \ {u} /\ UNCHANGED <<api, mwatch, fresh>>
    <3>1. LateIsAcceptable' /\ StoredIsSound'
      BY <1>1, <2>3, <2>5
      DEF ContractInv, LateIsAcceptable, Acceptable, StoredIsSound, Sound
    <3>2. FreshCopy'
      BY <1>1, <2>3, <2>5, CopyUnchanged
    <3> QED
      BY <2>4, <3>1, <3>2
  <2>6. CASE /\ Write(u.key, [api[u.key] EXCEPT !.status = u.status])
             /\ fresh' = (fresh /\ u.key # key)
    <3>1. LateIsAcceptable' /\ StoredIsSound'
      BY <2>2, <2>3, <2>6, AcceptedWrite
    <3>2. \A n : n # u.key => api'[n] = api[n]
      BY <1>1, <2>6 DEF Write, StoreTypeOK
    <3>3. FreshCopy'
      BY <1>1, <2>3, <2>6, <3>2, CopyUnchanged
    <3> QED
      BY <2>4, <3>1, <3>3
  <2> QED
    BY <2>1, <2>5, <2>6 DEF Arrival, LateUpdate
<1>4. CASE UNCHANGED <<storeVars, workerVars, items, todo, told>>
  BY <1>1, <1>4, StoreUnchanged, CopyUnchanged, CheckUnchanged
  DEF storeVars, workerVars
<1>5. CASE \/ Clock \/ Broadcast
           \/ \E r \in Refs : DeliverResource(r)
           \/ \E r \in Refs : \E o \in Resource \cup {Nil} : ChangeResource(r, o)
           \/ UNCHANGED vars
  BY <1>4, <1>5
  DEF Clock, Tick, DeliverResource, ChangeResource, vars, runtimeVars, storeVars,
      workerVars, checkVars, eventVars, Broadcast, SendEvent, DropEvent
<1> QED
  BY <1>2, <1>3, <1>5

\* What a check that Proceed begins has to compare, and has found.
LEMMA ProceedKeeps ==
    ASSUME items = {}, NEW o, Proceed(o), obj' = o, ~o.spec.suspend
    PROVE  CheckIsOfBaseline' /\ pc' \in {"unexpected", "check"}
<1>1. CASE o.spec.detectUnexpected
  BY <1>1 DEF Proceed, StartListing, CheckIsOfBaseline
<1>2. CASE ~o.spec.detectUnexpected
  <2>1. /\ pc' = "check" /\ items' = {}
        /\ o.spec.mode # SnapshotBased => todo' = o.spec.baseline
    BY <1>2 DEF Proceed, StartCheck, CheckedEntries
  <2> QED
    BY <2>1 DEF CheckIsOfBaseline
<1> QED
  BY <1>1, <1>2

\* A snapshot that could not be made or stored.
LEMMA GiveUpKeeps ==
    ASSUME ContractInv, pc \in {"snapshot", "putSnapshot"},
           pc' = "putSnapshotFailed", obj' = NotReady(obj, "BaselineSnapshotFailed"),
           items' = {}, key' = key, UNCHANGED told, fresh' => fresh /\ api' = api
    PROVE  FreshCopy' /\ CheckIsOfBaseline'
<1> DEFINE p == NotReady(obj, "BaselineSnapshotFailed")
<1>1. obj \in MonitorObjects /\ "BaselineSnapshotFailed" \in Reason
  BY DEF ContractInv, SchedulingInv, TypeInv, TypeOK, RuntimeTypeOK, Version,
         MonitorObjects, Reason
<1>2. /\ p.gen = obj.gen
      /\ p.spec = obj.spec
      /\ p.status.snap = obj.status.snap
      /\ p.status.items = obj.status.items
      /\ ReportOf(p.status) = ReportOf(obj.status)
      /\ p.status.conds["Ready"] =
            [status |-> FALSE, reason |-> "BaselineSnapshotFailed", gen |-> obj.gen]
  BY <1>1, NotReadyStatus
<1>3. ~obj.spec.suspend
  BY DEF ContractInv, CheckIsOfBaseline, CheckPhases, PutPhases
<1> HIDE DEF p
<1>4. obj' = p
  BY DEF p
<1>5. CheckIsOfBaseline'
  BY <1>2, <1>3, <1>4 DEF CheckIsOfBaseline
<1>6. ASSUME fresh'
      PROVE  /\ api[key] # Nil
             /\ p.gen = api[key].gen
             /\ p.spec = api[key].spec
             /\ Acceptable(key, p.status)
  <2>1. /\ api[key] # Nil
        /\ obj.gen = api[key].gen
        /\ obj.spec = api[key].spec
        /\ pc = "snapshot" => obj.status = api[key].status
        /\ pc = "putSnapshot" =>
              /\ api[key].status.snap = Nil
              /\ obj.status = [api[key].status EXCEPT !.snap = obj.status.snap]
    BY <1>6 DEF ContractInv, FreshCopy, CheckPhases
  <2>2. /\ api[key].status \in Status
        /\ Announcements(key, api[key].status.items) \subseteq told
    <3>1. key \in Monitors
      BY DEF ContractInv, SchedulingInv, TypeInv, TypeOK, RuntimeTypeOK
    <3>2. Sound(key, api[key])
      BY <2>1, <3>1 DEF ContractInv, StoredIsSound
    <3>3. api[key] \in MonitorTypes
      BY <2>1, <3>1 DEF ContractInv, SchedulingInv, TypeInv, TypeOK, RuntimeTypeOK,
                        StoreTypeOK, Version, MonitorObject, MonitorTypes
    <3> QED
      BY <3>2, <3>3 DEF Sound, MonitorTypes
  <2>3. /\ ReportOf(obj.status) = ReportOf(api[key].status)
        /\ obj.status.items = api[key].status.items
        /\ api[key].status.snap # Nil => obj.status.snap = api[key].status.snap
    <3>1. CASE pc = "snapshot"
      BY <2>1, <3>1
    <3>2. CASE pc = "putSnapshot"
      <4> DEFINE s == [api[key].status EXCEPT !.snap = obj.status.snap]
      <4>1. /\ s.items = api[key].status.items
            /\ s.obsGen = api[key].status.obsGen
            /\ s.conds = api[key].status.conds
        BY <2>2 DEF Status
      <4>2. obj.status = s
        BY <2>1, <3>2
      <4> HIDE DEF s
      <4> QED
        BY <2>1, <3>2, <4>1, <4>2 DEF ReportOf, Finding, Reported
    <3> QED
      BY <3>1, <3>2
  <2>4. MayFollow(api[key], p.status)
    BY <1>2, <1>3, <2>1, <2>3 DEF MayFollow, KeepsReport
  <2> QED
    BY <1>2, <2>1, <2>2, <2>3, <2>4 DEF Acceptable
<1>7. FreshCopy'
  <2>1. ASSUME fresh'
        PROVE  /\ api'[key] # Nil
               /\ p.gen = api'[key].gen
               /\ p.spec = api'[key].spec
               /\ MayFollow(api'[key], p.status)
               /\ Announcements(key, p.status.items) \subseteq told'
    BY <1>6, <2>1 DEF Acceptable
  <2> QED
    BY <1>4, <2>1 DEF FreshCopy, Acceptable, CheckPhases
<1> QED
  BY <1>5, <1>7

LEMMA ReconcileKeeps ==
    ASSUME ContractInv, Reconcile
    PROVE  FreshCopy' /\ LateIsAcceptable' /\ CheckIsOfBaseline' /\ StoredIsSound'
<1>1. /\ TypeOK /\ RuntimeTypeOK /\ StoreTypeOK /\ CheckTypeOK /\ CacheCatchesUp
      /\ FreshCopy /\ CheckIsOfBaseline /\ StoredIsSound
  BY DEF ContractInv, SchedulingInv, TypeInv, TypeOK, RuntimeTypeOK
<1>2. pc # "idle" => key \in Monitors
  BY <1>1 DEF RuntimeTypeOK
<1>3. pc \notin {"idle", "get"} => obj \in MonitorObjects
  BY <1>1 DEF RuntimeTypeOK, Version, MonitorObjects
<1>4. pc # "check" => items = {}
  BY <1>1 DEF CheckIsOfBaseline
<1>5. ASSUME pc' = "idle", items' = {}
      PROVE  FreshCopy' /\ CheckIsOfBaseline'
  BY <1>5 DEF FreshCopy, CheckIsOfBaseline, CheckPhases, PutPhases
<1>6. UNCHANGED storeVars => UNCHANGED <<api, late>>
  BY DEF storeVars
<1>7. CASE GetFails \/ MonitorGone \/ FinishSnapshotBased
  <2>1. /\ pc' = "idle" /\ items' = {}
        /\ UNCHANGED <<api, late>> /\ told \subseteq told'
    BY <1>4, <1>6, <1>7
    DEF GetFails, MonitorGone, FinishSnapshotBased, Finished, FinishedRequeue, WorkerFree,
        checkVars, eventVars, ClearCheck, Record
  <2> QED
    BY <1>5, <2>1, StoreUnchanged
<1>8. CASE PutSuspended \/ PutSnapshotFailed \/ PutReport
  <2>1. /\ pc \in PutPhases /\ UNCHANGED told
        /\ \/ StatusUpdated \/ StatusUpdateFailed
           \/ SnapshotStored \/ SnapshotNotStored
    BY <1>8 DEF PutSuspended, PutSnapshotFailed, PutReport, PutPhases, eventVars
  <2>2. pc' = "idle" /\ items' = {}
    BY <1>4, <1>8
    DEF PutSuspended, PutSnapshotFailed, PutReport, Finished, FinishedRequeue, WorkerFree,
        checkVars
  <2> QED
    BY <1>5, <2>1, <2>2, CallKeeps
<1>9. CASE ReconcileSuspended
  <2> DEFINE p == NotReady(mcache[key], "Suspended")
  <2>1. /\ key \in Monitors
        /\ mcache[key] \in MonitorObjects
        /\ mcache[key].spec.suspend
        /\ "Suspended" \in Reason
    BY <1>1, <1>2, <1>9
    DEF ReconcileSuspended, RuntimeTypeOK, Version, MonitorObjects, Reason
  <2>2. /\ obj' = p
        /\ fresh' = (mwatch[key] = <<>>)
        /\ pc' = "putSuspended" /\ items' = {}
        /\ UNCHANGED <<api, late, key, told>>
    BY <1>4, <1>6, <1>9 DEF ReconcileSuspended, CopyFromCache, checkVars, eventVars
  <2>3. LateIsAcceptable' /\ StoredIsSound'
    BY <2>2, StoreUnchanged
  <2>4. /\ p.gen = mcache[key].gen
        /\ p.spec = mcache[key].spec
        /\ p.status.items = mcache[key].status.items
    BY <2>1, NotReadyStatus
  <2>5. ASSUME fresh'
        PROVE  /\ mcache[key] = api[key]
               /\ api[key] # Nil
               /\ Announcements(key, api[key].status.items) \subseteq told
    <3>1. mcache[key] = api[key] /\ api[key] # Nil
      BY <1>1, <1>9, <2>1, <2>2, <2>5 DEF CacheCatchesUp, ReconcileSuspended
    <3> QED
      BY <1>1, <2>1, <3>1 DEF StoredIsSound, Sound
  <2>6. FreshCopy'
    <3>1. fresh' => MayFollow(api[key], p.status)
      BY <2>1, <2>5 DEF MayFollow
    <3> HIDE DEF p
    <3> QED
      BY <2>2, <2>4, <2>5, <3>1 DEF FreshCopy, Acceptable, CheckPhases
  <2>7. CheckIsOfBaseline'
    BY <2>2 DEF CheckIsOfBaseline, CheckPhases
  <2> QED
    BY <2>3, <2>6, <2>7
<1>10. CASE ReconcileActive
  <2>1. /\ obj' = mcache[key] /\ mcache[key] # Nil
        /\ fresh' = (mwatch[key] = <<>>)
        /\ ~mcache[key].spec.suspend
        /\ items = {} /\ key \in Monitors
        /\ UNCHANGED <<api, late, key, told>>
    BY <1>2, <1>4, <1>6, <1>10 DEF ReconcileActive, CopyFromCache, eventVars
  <2>2. CheckIsOfBaseline' /\ pc' \in CheckPhases
    <3>1. CASE Proceed(mcache[key])
      BY <2>1, <3>1, ProceedKeeps DEF CheckPhases
    <3>2. CASE StartListing("snapshot") /\ mcache[key].status.snap = Nil
      BY <2>1, <3>2 DEF StartListing, CheckIsOfBaseline, CheckPhases
    <3> QED
      BY <1>10, <3>1, <3>2 DEF ReconcileActive
  <2>3. fresh' => mcache[key] = api[key]
    BY <1>1, <2>1 DEF CacheCatchesUp
  <2>4. FreshCopy'
    BY <2>1, <2>2, <2>3 DEF FreshCopy, CheckPhases, PutPhases
  <2> QED
    BY <2>1, <2>2, <2>4, StoreUnchanged
<1>11. CASE SnapshotFails
  <2>1. /\ UNCHANGED <<api, late, key, fresh, told>>
        /\ pc = "snapshot" /\ pc' = "putSnapshotFailed" /\ items' = {}
        /\ obj' = NotReady(obj, "BaselineSnapshotFailed")
    BY <1>6, <1>11 DEF SnapshotFails, ClearCheck, eventVars
  <2> QED
    BY <2>1, GiveUpKeeps, StoreUnchanged
<1>12. CASE SnapshotListed
  <2> DEFINE s == [obj.status EXCEPT !.snap = snapshot]
  <2>1. /\ obj \in MonitorTypes
        /\ snapshot \in SUBSET Entry
        /\ ~obj.spec.suspend /\ obj.status.snap = Nil
        /\ key \in Monitors
    BY <1>1, <1>2, <1>3, <1>12, MonitorObjectsAre
    DEF SnapshotListed, CheckTypeOK, CheckIsOfBaseline, CheckPhases
  <2>2. /\ UNCHANGED <<api, late, key, fresh, told>>
        /\ pc = "snapshot" /\ pc' = "putSnapshot" /\ items' = {}
        /\ obj' = [obj EXCEPT !.status.snap = snapshot]
    BY <1>6, <1>12 DEF SnapshotListed, ClearCheck, eventVars
  <2>3. /\ s.items = obj.status.items
        /\ s.obsGen = obj.status.obsGen
        /\ s.conds = obj.status.conds
        /\ s.snap = snapshot
    BY <2>1 DEF MonitorTypes, Status
  <2>4. obj'.gen = obj.gen /\ obj'.spec = obj.spec /\ obj'.status = s
    <3>1. [obj EXCEPT !.status.snap = snapshot] = [obj EXCEPT !.status = s]
      BY <2>1 DEF MonitorTypes
    <3> HIDE DEF s
    <3> QED
      BY <2>1, <2>2, <3>1 DEF MonitorTypes
  <2>5. CheckIsOfBaseline'
    BY <2>1, <2>2, <2>4 DEF CheckIsOfBaseline, CheckPhases
  <2>6. FreshCopy'
    <3>1. ASSUME fresh'
          PROVE  /\ api[key] # Nil
                 /\ obj.gen = api[key].gen
                 /\ obj.spec = api[key].spec
                 /\ obj.status = api[key].status
                 /\ Announcements(key, s.items) \subseteq told
      <4>1. /\ api[key] # Nil
            /\ obj.gen = api[key].gen
            /\ obj.spec = api[key].spec
            /\ obj.status = api[key].status
        BY <1>1, <2>2, <3>1 DEF FreshCopy, CheckPhases
      <4> HIDE DEF s
      <4> QED
        BY <1>1, <2>1, <2>3, <4>1 DEF StoredIsSound, Sound
    <3>2. fresh' => MayFollow(api[key], s)
      <4>1. KeepsReport(obj, s)
        <5> HIDE DEF s
        <5> QED
          BY <2>3 DEF KeepsReport, ReportOf, Finding, Reported
      <4> HIDE DEF s
      <4> QED
        BY <2>1, <3>1, <4>1 DEF MayFollow, KeepsReport
    <3>3. fresh' => s = [api[key].status EXCEPT !.snap = s.snap]
      BY <2>3, <3>1
    <3> HIDE DEF s
    <3> QED
      BY <2>1, <2>2, <2>4, <3>1, <3>2, <3>3 DEF FreshCopy, Acceptable, CheckPhases
  <2> QED
    BY <2>2, <2>5, <2>6, StoreUnchanged
<1>13. CASE PutSnapshot
  <2>1. /\ pc = "putSnapshot" /\ UNCHANGED <<key, told>> /\ items = {}
        /\ SnapshotStored \/ SnapshotNotStored
    BY <1>4, <1>13 DEF PutSnapshot, eventVars
  <2>2. LateIsAcceptable' /\ StoredIsSound'
    BY <2>1, CallKeeps DEF PutPhases
  <2>3. CASE SnapshotStored /\ obj' = api'[key] /\ Proceed(api'[key])
    <3>1. Current /\ WriteStatus
      BY <2>3 DEF SnapshotStored, StatusUpdated
    <3>2. api'[key] # Nil /\ api'[key].spec = api[key].spec
      BY <1>1, <2>1, <3>1, WriteStatusFacts, NilIsNoObject DEF PutPhases, MonitorObjects
    <3>3. ~api[key].spec.suspend
      BY <1>1, <2>1, <3>1
      DEF FreshCopy, CheckIsOfBaseline, CheckPhases, PutPhases, Current
    <3>4. CheckIsOfBaseline' /\ pc' \in {"unexpected", "check"}
      BY <2>1, <2>3, <3>2, <3>3, ProceedKeeps
    <3>5. FreshCopy'
      BY <2>1, <2>3, <3>2, <3>4 DEF FreshCopy, PutPhases
    <3> QED
      BY <2>2, <3>4, <3>5
  <2>4. CASE /\ fresh' = (fresh /\ api' = api)
             /\ obj' = NotReady(obj, "BaselineSnapshotFailed")
             /\ pc' = "putSnapshotFailed"
             /\ UNCHANGED checkVars
    <3>1. items' = {}
      BY <2>1, <2>4 DEF checkVars
    <3> QED
      BY <2>1, <2>2, <2>4, <3>1, GiveUpKeeps
  <2> QED
    BY <1>13, <2>3, <2>4 DEF PutSnapshot
<1>14. CASE \E k \in kinds : SnapshotKind(k) \/ DetectUnexpected(k)
  <2>1. UNCHANGED <<api, late, pc, key, obj, fresh, items, todo, told>>
    BY <1>14 DEF SnapshotKind, DetectUnexpected, storeVars, workerVars, eventVars
  <2> QED
    BY <1>1, <2>1, StoreUnchanged, CopyUnchanged, CheckUnchanged
<1>15. CASE DetectUnexpectedDrifts
  <2>1. /\ UNCHANGED <<api, late, key, obj, fresh>>
        /\ pc = "unexpected" /\ told \subseteq told' /\ StartCheck(obj)
        /\ items = {} /\ ~obj.spec.suspend
    BY <1>1, <1>4, <1>6, <1>15
    DEF DetectUnexpectedDrifts, Record, CheckIsOfBaseline, CheckPhases
  <2>2. CheckIsOfBaseline' /\ pc' = "check"
    BY <2>1 DEF StartCheck, CheckedEntries, CheckIsOfBaseline
  <2>3. FreshCopy'
    BY <1>1, <2>1, <2>2 DEF FreshCopy, CheckPhases, PutPhases
  <2> QED
    BY <2>1, <2>2, <2>3, StoreUnchanged
<1>16. CASE \E e \in todo : CheckEntry(e)
  <2>1. PICK e \in todo : CheckEntry(e)
    BY <1>16
  <2>2. /\ UNCHANGED <<api, late, pc, key, obj, fresh, told>>
        /\ pc = "check" /\ todo' = todo \ {e}
    BY <2>1 DEF CheckEntry, storeVars, workerVars, eventVars
  <2>3. CheckIsOfBaseline'
    <3>1. CASE items' = items
      BY <1>1, <2>2, <3>1 DEF CheckIsOfBaseline
    <3>2. CASE items' # items
      <4> DEFINE type == CompareEntry(e, rcache[e.ref])
      <4>1. type \in {"Deleted", "Modified", "Match"}
        BY DEF CompareEntry
      <4> HIDE DEF type
      <4>2. /\ items' = items \cup {[ref |-> e.ref, type |-> type, at |-> at]}
            /\ type # "Match"
        BY <2>1, <3>2 DEF CheckEntry, type
      <4> QED
        BY <1>1, <2>2, <4>1, <4>2 DEF CheckIsOfBaseline, baselineReferencesResource
    <3> QED
      BY <3>1, <3>2
  <2> QED
    BY <1>1, <2>2, <2>3, StoreUnchanged, CopyUnchanged
<1>17. CASE FinishRulesBased
  <2> DEFINE p == Report(obj)
  <2>1. /\ UNCHANGED <<api, late, key, fresh>>
        /\ pc = "check" /\ pc' = "putReport" /\ items' = {}
        /\ obj' = p
        /\ told' = told \cup DriftEvents(obj, items)
        /\ obj \in MonitorObjects /\ ~obj.spec.suspend
        /\ items \in SUBSET Drift /\ at \in Nat
    BY <1>1, <1>3, <1>6, <1>17
    DEF FinishRulesBased, Record, ClearCheck, CheckTypeOK, CheckIsOfBaseline, CheckPhases
  <2>2. \A d \in items : /\ d.type \in {"Modified", "Deleted"}
                         /\ baselineReferencesResource(obj.spec, d.ref)
    BY <1>1, <1>17 DEF FinishRulesBased, CheckIsOfBaseline
  <2>3. /\ p.gen = obj.gen
        /\ p.spec = obj.spec
        /\ p.status.snap = obj.status.snap
        /\ p.status.items = items
        /\ CompletesReport(obj, p.status)
    BY <2>1, <2>2, ReportStatus
  <2>4. Announcements(key, items) \subseteq told'
    BY <2>1 DEF DriftEvents, Recorded, Announcements
  <2> HIDE DEF p
  <2>5. fresh => /\ api[key] # Nil
                 /\ obj.gen = api[key].gen
                 /\ obj.spec = api[key].spec
                 /\ obj.status = api[key].status
    BY <1>1, <2>1 DEF FreshCopy, CheckPhases
  <2>6. fresh => MayFollow(api[key], p.status)
    BY <2>1, <2>3, <2>5 DEF MayFollow, CompletesReport
  <2>7. FreshCopy'
    BY <2>1, <2>3, <2>4, <2>5, <2>6 DEF FreshCopy, Acceptable, CheckPhases
  <2>8. CheckIsOfBaseline'
    BY <2>1, <2>3 DEF CheckIsOfBaseline
  <2> QED
    BY <2>1, <2>7, <2>8, StoreUnchanged
<1> QED
  BY <1>7, <1>8, <1>9, <1>10, <1>11, <1>12, <1>13, <1>14, <1>15, <1>16, <1>17
  DEF Reconcile

LEMMA InitContract == Init => ContractInv
BY InitSchedules
DEF ContractInv, Init, RuntimeInit, FreshCopy, LateIsAcceptable, CheckIsOfBaseline,
    CheckPhases, PutPhases, StoredIsSound

LEMMA NextContract ==
    ASSUME ContractInv, [Next]_vars
    PROVE  ContractInv'
<1>1. SchedulingInv'
  BY NextSchedules DEF ContractInv
<1>2. FreshCopy' /\ LateIsAcceptable' /\ CheckIsOfBaseline' /\ StoredIsSound'
  BY RuntimeStepKeeps, OtherStepKeeps, ReconcileKeeps DEF Next
<1> QED
  BY <1>1, <1>2 DEF ContractInv

LEMMA ContractInvariant == Spec => []ContractInv
BY InitContract, NextContract, PTL DEF Spec

-----------------------------------------------------------------------------
(***************************************************************************)
(* What can be said of every stored status.                                *)
(***************************************************************************)
\* A report that claims the generation stored names only resources of its
\* baseline, whatever was deleted, created again, edited or resent in between
\* (ObservedGeneration, line 331).
THEOREM ReportSpeaksOfBaseline == Spec => []CurrentReportSpeaksOfBaseline
<1>1. ContractInv => CurrentReportSpeaksOfBaseline
  <2> SUFFICES ASSUME ContractInv, NEW m \in Monitors, api[m] # Nil,
                      api[m].status.obsGen = api[m].gen,
                      NEW d \in api[m].status.items
               PROVE  baselineReferencesResource(api[m].spec, d.ref)
    BY DEF CurrentReportSpeaksOfBaseline
  <2> DEFINE ds == Finding(api[m].status).drifts
  <2>1. Finding(api[m].status) \in AdmissibleFor(api[m].spec)
    BY DEF ContractInv, StoredIsSound, Sound
  <2>2. ds \in SUBSET [ref : {e.ref : e \in api[m].spec.baseline},
                       type : {"Modified", "Deleted"}]
    BY <2>1 DEF AdmissibleFor
  <2>3. [ref |-> d.ref, type |-> d.type] \in ds
    BY DEF Finding, Reported
  <2> QED
    BY <2>2, <2>3 DEF baselineReferencesResource
<1> QED
  BY <1>1, ContractInvariant, PTL

\* DriftDetected and the list of drifts agree in every stored status (lines
\* 327-349).
THEOREM ConditionMatches == Spec => []DriftConditionMatchesItems
<1>1. ContractInv => DriftConditionMatchesItems
  <2> SUFFICES ASSUME ContractInv, NEW m \in Monitors, api[m] # Nil,
                      api[m].status.conds["DriftDetected"] # Nil
               PROVE  api[m].status.conds["DriftDetected"].status
                          <=> api[m].status.items # {}
    BY DEF DriftConditionMatchesItems
  <2> DEFINE f == Finding(api[m].status)
  <2>1. f.detected <=> f.drifts # {}
    BY DEF ContractInv, StoredIsSound, Sound
  <2>2. /\ f.detected <=> api[m].status.conds["DriftDetected"].status
        /\ f.drifts = Reported(api[m].status)
    BY DEF Finding
  <2>3. Reported(api[m].status) = {} <=> api[m].status.items = {}
    BY DEF Reported
  <2> QED
    BY <2>1, <2>2, <2>3
<1> QED
  BY <1>1, ContractInvariant, PTL

\* An Event of every drift in a status was given to the recorder of the process that
\* found it, before the update that carries the drift was on its way (lines
\* 317-353).  What the recorder makes of it is DriftEventuallyAnnounced's matter.
THEOREM DriftAnnounced == Spec => []ReportedDriftIsAnnounced
<1>1. ContractInv => ReportedDriftIsAnnounced
  BY DEF ContractInv, StoredIsSound, Sound, Announcements, ReportedDriftIsAnnounced
<1> QED
  BY <1>1, ContractInvariant, PTL

-----------------------------------------------------------------------------
(***************************************************************************)
(* What a step does to the stored monitors.                                *)
(***************************************************************************)
Created(m, s) ==
    /\ api[m] = Nil
    /\ api' = [api EXCEPT ![m] = [gen |-> 1, spec |-> s, status |-> NoStatus]]

Edited(m, s) ==
    /\ api[m] # Nil
    /\ api' = [api EXCEPT ![m] = [api[m] EXCEPT !.gen = @ + 1, !.spec = s]]

Deleted(m) ==
    /\ api[m] # Nil
    /\ api' = [api EXCEPT ![m] = Nil]

Updated(m, status) ==
    /\ api[m] # Nil
    /\ MayFollow(api[m], status)
    /\ api' = [api EXCEPT ![m] = [api[m] EXCEPT !.status = status]]

StoreStep ==
    \/ UNCHANGED api
    \/ \E m \in Monitors :
          \/ \E s \in Specs : Created(m, s) \/ Edited(m, s)
          \/ Deleted(m)
          \/ \E status \in Status : Updated(m, status)

LEMMA StoreSteps ==
    ASSUME ContractInv, [Next]_vars
    PROVE  StoreStep
<1>1. RuntimeTypeOK /\ StoreTypeOK
  BY DEF ContractInv, SchedulingInv, TypeInv, TypeOK, RuntimeTypeOK
<1>2. ASSUME NEW m \in Monitors, RuntimeStep(m)
      PROVE  StoreStep
  BY <1>2
  DEF RuntimeStep, CreateMonitor, UpdateSpec, DeleteMonitor, UserWrite, Write,
      DeliverMonitor, FireTimer, Dequeue, storeVars, StoreStep, Created, Edited, Deleted
<1>3. CASE \E u \in late : Arrival(u)
  <2>1. PICK u \in late : LateUpdate(u)
    BY <1>3 DEF Arrival
  <2>2. /\ u.key \in Monitors /\ u.status \in Status
        /\ api[u.key] # Nil
        /\ MayFollow(api[u.key], u.status)
    BY <1>1 DEF StoreTypeOK, LateUpdates, ContractInv, LateIsAcceptable, Acceptable
  <2> QED
    BY <2>1, <2>2 DEF LateUpdate, Write, StoreStep, Updated
<1>4. ASSUME pc \in PutPhases,
             \/ StatusUpdated \/ StatusUpdateFailed
             \/ SnapshotStored \/ SnapshotNotStored
      PROVE  StoreStep
  <2>1. key \in Monitors /\ obj.status \in Status
    BY <1>1, <1>4 DEF RuntimeTypeOK, PutPhases, Version, MonitorObject
  <2>2. Current => api[key] # Nil /\ MayFollow(api[key], obj.status)
    BY <1>4 DEF ContractInv, FreshCopy, PutPhases, Current, Acceptable
  <2>3. CASE Current /\ WriteStatus
    BY <2>1, <2>2, <2>3 DEF WriteStatus, Write, storeVars, StoreStep, Updated
  <2> QED
    BY <1>4, <2>3
    DEF StatusUpdated, StatusUpdateFailed, SnapshotStored, SnapshotNotStored, storeVars,
        StoreStep
<1>5. CASE Reconcile
  <2>1. CASE PutSuspended \/ PutSnapshot \/ PutSnapshotFailed \/ PutReport
    BY <1>4, <2>1 DEF PutSuspended, PutSnapshot, PutSnapshotFailed, PutReport, PutPhases
  <2> QED
    BY <1>5, <2>1
    DEF Reconcile, GetFails, MonitorGone, ReconcileSuspended, ReconcileActive,
        SnapshotKind, SnapshotFails, SnapshotListed, DetectUnexpected,
        DetectUnexpectedDrifts, CheckEntry, FinishRulesBased, FinishSnapshotBased,
        storeVars, StoreStep
<1>6. CASE \/ Clock \/ Restart \/ Broadcast \/ UNCHANGED vars
           \/ \E r \in Refs : DeliverResource(r)
           \/ \E r \in Refs : \E o \in Resource \cup {Nil} : ChangeResource(r, o)
  BY <1>6
  DEF Clock, Tick, Restart, RestartRuntime, Broadcast, DeliverResource, ChangeResource,
      vars, runtimeVars, storeVars, StoreStep
<1> QED
  BY <1>2, <1>3, <1>5, <1>6 DEF Next

\* What a status update leaves of a monitor.
LEMMA UpdatedFacts ==
    ASSUME StoreTypeOK, NEW m \in Monitors, NEW status \in Status, Updated(m, status)
    PROVE  /\ api[m] \in MonitorObjects
           /\ api'[m] \in MonitorObjects
           /\ api'[m].gen = api[m].gen
           /\ api'[m].spec = api[m].spec
           /\ api'[m].status = status
           /\ api'[m] # Nil
           /\ \A n \in Monitors \ {m} : api'[n] = api[n]
<1>1. api[m] \in MonitorTypes
  BY MonitorObjectsAre DEF StoreTypeOK, Version, Updated, MonitorObjects
<1>2. api'[m] = [api[m] EXCEPT !.status = status] /\ \A n \in Monitors \ {m} : api'[n] = api[n]
  BY DEF StoreTypeOK, Updated
<1>3. [api[m] EXCEPT !.status = status] \in MonitorTypes
  BY <1>1 DEF MonitorTypes
<1> QED
  BY <1>1, <1>2, <1>3, MonitorObjectsAre, NilIsNoObject DEF MonitorTypes, MonitorObjects

\* What an edit of the user leaves of the other monitors, and of its own.
LEMMA EditedFacts ==
    ASSUME StoreTypeOK, NEW m \in Monitors, NEW n \in Monitors,
           api[m] # Nil, api'[m] # Nil,
           (\E s \in Specs : Created(n, s) \/ Edited(n, s)) \/ Deleted(n)
    PROVE  \/ api'[m] = api[m]
           \/ api'[m].gen # api[m].gen /\ api'[m].status = api[m].status
<1>1. api[m] \in MonitorTypes
  BY DEF StoreTypeOK, Version, MonitorObject, MonitorTypes
<1>2. CASE n # m
  BY <1>2 DEF Created, Edited, Deleted, StoreTypeOK
<1>3. CASE n = m
  <2>1. PICK s \in Specs : Edited(m, s)
    BY <1>3 DEF Created, Deleted, StoreTypeOK
  <2>2. api'[m] = [api[m] EXCEPT !.gen = @ + 1, !.spec = s]
    BY <2>1 DEF Edited, StoreTypeOK
  <2>3. api[m].gen + 1 # api[m].gen
    BY <1>1 DEF MonitorTypes
  <2> QED
    BY <1>1, <2>2, <2>3 DEF MonitorTypes
<1> QED
  BY <1>2, <1>3

\* A suspension that was acknowledged is not written to again: the only status
\* that may follow is the acknowledgement, and it is there (lines 75-88).
THEOREM SuspendedLeftAlone == Spec => SuspendedIsLeftAlone
<1>1. ASSUME ContractInv, [Next]_vars
      PROVE  [\A m \in Monitors :
                  KnownSuspended(api[m]) /\ api'[m] # Nil /\ api'[m].gen = api[m].gen
                      => api'[m].status = api[m].status]_api
  <2> SUFFICES ASSUME NEW m \in Monitors, KnownSuspended(api[m]), api'[m] # Nil,
                      api'[m].gen = api[m].gen
               PROVE  api'[m].status = api[m].status
    OBVIOUS
  <2>1. StoreTypeOK /\ StoreStep
    BY <1>1, StoreSteps DEF ContractInv, SchedulingInv, TypeInv, TypeOK, RuntimeTypeOK
  <2>2. /\ api[m] \in MonitorTypes
        /\ api[m].spec.suspend
        /\ api[m].status.conds["Ready"].gen = api[m].gen
        /\ api[m].status.conds["Ready"].reason = "Suspended"
        /\ api[m].status.conds["Ready"] \in Condition(Reason)
    BY <2>1 DEF KnownSuspended, StoreTypeOK, Version, MonitorObject, MonitorTypes, Status,
                ConditionType
  <2>3. api[m].status.conds["Ready"] =
            [status |-> FALSE, reason |-> "Suspended", gen |-> api[m].gen]
    <3>1. ~api[m].status.conds["Ready"].status
      BY <1>1, <2>2 DEF ContractInv, StoredIsSound, Sound, KnownSuspended
    <3> QED
      BY <2>2, <3>1 DEF Condition
  <2>4. NotReady(api[m], "Suspended").status = api[m].status
    <3> DEFINE c == [api[m].status.conds EXCEPT !["Ready"] = api[m].status.conds["Ready"]]
               s == [api[m].status EXCEPT !.conds = c]
    <3>1. c = api[m].status.conds /\ s = api[m].status
      BY <2>2 DEF MonitorTypes, Status
    <3>2. NotReady(api[m], "Suspended") = [api[m] EXCEPT !.status = s]
      BY <2>2, <2>3 DEF NotReady, SetStatusCondition, MonitorTypes, Status
    <3> HIDE DEF s, c
    <3> QED
      BY <2>2, <3>1, <3>2 DEF MonitorTypes
  <2>5. ASSUME NEW n \in Monitors,
               \/ \E s \in Specs : Created(n, s) \/ Edited(n, s)
               \/ Deleted(n)
        PROVE  api'[m].status = api[m].status
    BY <2>1, <2>5, EditedFacts DEF KnownSuspended
  <2>6. ASSUME NEW n \in Monitors, NEW status \in Status, Updated(n, status)
        PROVE  api'[m].status = api[m].status
    <3>1. CASE n = m
      BY <2>1, <2>2, <2>4, <2>6, <3>1, UpdatedFacts DEF Updated, MayFollow
    <3>2. CASE n # m
      BY <2>1, <2>6, <3>2, UpdatedFacts
    <3> QED
      BY <3>1, <3>2
  <2> QED
    BY <2>1, <2>5, <2>6 DEF StoreStep
<1> QED
  BY <1>1, ContractInvariant, PTL DEF Spec, SuspendedIsLeftAlone

\* The snapshot of a monitor is never replaced (lines 91-109).
THEOREM SnapshotOnce == Spec => SnapshotTakenOnce
<1>1. ASSUME ContractInv, [Next]_vars
      PROVE  [\A m \in Monitors :
                  api[m] # Nil /\ api'[m] # Nil /\ api[m].status.snap # Nil
                      => api'[m].status.snap = api[m].status.snap]_api
  <2> SUFFICES ASSUME NEW m \in Monitors, api[m] # Nil, api'[m] # Nil,
                      api[m].status.snap # Nil
               PROVE  api'[m].status.snap = api[m].status.snap
    OBVIOUS
  <2>1. StoreTypeOK /\ StoreStep
    BY <1>1, StoreSteps DEF ContractInv, SchedulingInv, TypeInv, TypeOK, RuntimeTypeOK
  <2>2. api[m] \in MonitorTypes /\ api[m] \in MonitorObjects
    BY <2>1, MonitorObjectsAre DEF StoreTypeOK, Version, MonitorObjects
  <2>3. ASSUME NEW n \in Monitors,
               \/ \E s \in Specs : Created(n, s) \/ Edited(n, s)
               \/ Deleted(n)
        PROVE  api'[m].status.snap = api[m].status.snap
    BY <2>1, <2>3, EditedFacts
  <2>4. ASSUME NEW n \in Monitors, NEW status \in Status, Updated(n, status)
        PROVE  api'[m].status.snap = api[m].status.snap
    <3>1. "Suspended" \in Reason
      BY DEF Reason
    <3>2. NotReady(api[m], "Suspended").status.snap = api[m].status.snap
      BY <2>2, <3>1, NotReadyStatus
    <3>3. CASE n = m
      BY <2>1, <2>4, <3>2, <3>3, UpdatedFacts DEF Updated, MayFollow
    <3>4. CASE n # m
      BY <2>1, <2>4, <3>4, UpdatedFacts
    <3> QED
      BY <3>3, <3>4
  <2> QED
    BY <2>1, <2>3, <2>4 DEF StoreStep
<1> QED
  BY <1>1, ContractInvariant, PTL DEF Spec, SnapshotTakenOnce

-----------------------------------------------------------------------------
(***************************************************************************)
(* The refinement: what the contract sees of a step.                       *)
(***************************************************************************)
Desired ==
    [m \in Monitors |->
        IF api[m] = Nil THEN Nil ELSE [gen |-> api[m].gen, spec |-> api[m].spec]]

Reports == [m \in Monitors |-> ReportOf(StoredStatus(m))]

Readiness == [m \in Monitors |-> ReadyOf(StoredStatus(m))]

\* One monitor changes, in the contract as in the store.
LEMMA OneChanges ==
    ASSUME NEW m \in Monitors, \A n \in Monitors \ {m} : api'[n] = api[n]
    PROVE  /\ Desired' = [Desired EXCEPT ![m] = Desired'[m]]
           /\ Reports' = [Reports EXCEPT ![m] = Reports'[m]]
           /\ Readiness' = [Readiness EXCEPT ![m] = Readiness'[m]]
<1>1. ASSUME NEW n \in Monitors, n # m
      PROVE  /\ Desired'[n] = Desired[n]
             /\ StoredStatus(n)' = StoredStatus(n)
  BY <1>1 DEF Desired, StoredStatus
<1>2. ASSUME NEW n \in Monitors, n # m
      PROVE  Reports'[n] = Reports[n] /\ Readiness'[n] = Readiness[n]
  BY <1>1, <1>2 DEF Reports, Readiness
<1>3. Desired' = [Desired EXCEPT ![m] = Desired'[m]]
  BY <1>1 DEF Desired
<1>4. Reports' = [Reports EXCEPT ![m] = Reports'[m]]
  BY <1>2 DEF Reports
<1>5. Readiness' = [Readiness EXCEPT ![m] = Readiness'[m]]
  BY <1>2 DEF Readiness
<1> QED
  BY <1>3, <1>4, <1>5

\* The monitor that a reader sees, when it is there and when it is not.
LEMMA ReadOff ==
    ASSUME NEW m \in Monitors
    PROVE  /\ api[m] = Nil =>
                 /\ Desired[m] = Nil
                 /\ Reports[m] = ReportOf(NoStatus)
                 /\ Readiness[m] = ReadyOf(NoStatus)
           /\ api[m] # Nil =>
                 /\ Desired[m] = [gen |-> api[m].gen, spec |-> api[m].spec]
                 /\ Reports[m] = ReportOf(api[m].status)
                 /\ Readiness[m] = ReadyOf(api[m].status)
BY DEF Desired, Reports, Readiness, StoredStatus

LEMMA NewMonitor ==
    /\ ReportOf(NoStatus) = [gen |-> 0, finding |-> Finding(NoStatus)]
    /\ ReadyOf(NoStatus) = [gen |-> 0, outcome |-> "None"]
<1>1. NoStatus.obsGen = 0 /\ NoStatus.conds["Ready"] = Nil
  BY DEF NoStatus, ConditionType
<1> HIDE DEF NoStatus
<1> QED
  BY <1>1 DEF ReportOf, ReadyOf, Outcome

\* What the condition Ready says, once it says something.
LEMMA ReadyWord ==
    ASSUME NEW status, NEW gen \in Nat, NEW b \in BOOLEAN, NEW reason \in Reason,
           status.conds["Ready"] = [status |-> b, reason |-> reason, gen |-> gen]
    PROVE  ReadyOf(status) =
              [gen |-> gen,
               outcome |-> IF b THEN "Complete"
                           ELSE IF reason = "Suspended" THEN "Suspended" ELSE "Failed"]
<1>1. status.conds["Ready"] # Nil
  BY NilIsNoObject DEF Condition
<1>2. CASE b
  BY <1>1, <1>2 DEF ReadyOf, Outcome
<1>3. CASE ~b /\ reason = "Suspended"
  BY <1>1, <1>3 DEF ReadyOf, Outcome
<1>4. CASE ~b /\ reason # "Suspended"
  BY <1>1, <1>4 DEF ReadyOf, Outcome
<1> QED
  BY <1>2, <1>3, <1>4

LEMMA InitRefines == Init => Contract!Init
<1> SUFFICES ASSUME Init
             PROVE  Contract!Init
  OBVIOUS
<1>1. \A m \in Monitors : api[m] = Nil
  BY DEF Init, RuntimeInit
<1>2. /\ Desired = [m \in Monitors |-> Nil]
      /\ Reports = [m \in Monitors |-> [gen |-> 0, finding |-> Finding(NoStatus)]]
      /\ Readiness = [m \in Monitors |-> [gen |-> 0, outcome |-> "None"]]
  BY <1>1, NewMonitor DEF Desired, Reports, Readiness, StoredStatus
<1> QED
  BY <1>2
  DEF Contract!Init, Contract!Unseen, Contract!NoWord, Desired, Reports, Readiness

\* The user's edits are the contract's.
LEMMA EditRefines ==
    ASSUME StoreTypeOK, NEW m \in Monitors,
           (\E s \in Specs : Created(m, s) \/ Edited(m, s)) \/ Deleted(m)
    PROVE  Contract!Next
<1>1. /\ Desired' = [Desired EXCEPT ![m] = Desired'[m]]
      /\ Reports' = [Reports EXCEPT ![m] = Reports'[m]]
      /\ Readiness' = [Readiness EXCEPT ![m] = Readiness'[m]]
  <2>1. \A n \in Monitors \ {m} : api'[n] = api[n]
    BY DEF Created, Edited, Deleted, StoreTypeOK
  <2> QED
    BY <2>1, OneChanges
<1>2. /\ api'[m] = Nil => /\ Desired'[m] = Nil
                          /\ Reports'[m] = ReportOf(NoStatus)
                          /\ Readiness'[m] = ReadyOf(NoStatus)
      /\ api'[m] # Nil => /\ Desired'[m] = [gen |-> api'[m].gen, spec |-> api'[m].spec]
                          /\ Reports'[m] = ReportOf(api'[m].status)
                          /\ Readiness'[m] = ReadyOf(api'[m].status)
  BY DEF Desired, Reports, Readiness, StoredStatus
<1>3. /\ Reports = [Reports EXCEPT ![m] = Reports[m]]
      /\ Readiness = [Readiness EXCEPT ![m] = Readiness[m]]
  BY DEF Reports, Readiness
<1>4. ASSUME NEW s \in Specs, Created(m, s)
      PROVE  Contract!Create(m, s)
  <2> DEFINE o == [gen |-> 1, spec |-> s, status |-> NoStatus]
  <2>1. api[m] = Nil /\ api'[m] = o
    BY <1>4 DEF Created, StoreTypeOK
  <2>2. o # Nil /\ o.gen = 1 /\ o.spec = s /\ o.status = NoStatus
    BY NoStatusType, NilIsNoObject DEF MonitorObject
  <2> HIDE DEF o
  <2>3. /\ Desired[m] = Nil
        /\ Desired' = [Desired EXCEPT ![m] = [gen |-> 1, spec |-> s]]
        /\ Reports' = Reports
        /\ Readiness' = Readiness
    <3>1. /\ Desired[m] = Nil
          /\ Reports[m] = ReportOf(NoStatus)
          /\ Readiness[m] = ReadyOf(NoStatus)
      BY <2>1, ReadOff
    <3>2. /\ Desired'[m] = [gen |-> 1, spec |-> s]
          /\ Reports'[m] = ReportOf(NoStatus)
          /\ Readiness'[m] = ReadyOf(NoStatus)
      BY <1>2, <2>1, <2>2
    <3> QED
      BY <1>1, <1>3, <3>1, <3>2
  <2> QED
    BY <2>3 DEF Contract!Create, Desired, Reports, Readiness
<1>5. ASSUME NEW s \in Specs, Edited(m, s)
      PROVE  Contract!Edit(m, s)
  <2> DEFINE o == [api[m] EXCEPT !.gen = @ + 1, !.spec = s]
  <2>1. api[m] # Nil /\ api'[m] = o
    BY <1>5 DEF Edited, StoreTypeOK
  <2>2. api[m] \in MonitorTypes
    BY <2>1 DEF StoreTypeOK, Version, MonitorObject, MonitorTypes
  <2>3. /\ o.gen = api[m].gen + 1 /\ o.spec = s /\ o.status = api[m].status
        /\ o # Nil
    <3>1. api[m].gen + 1 \in Nat
      BY <2>2 DEF MonitorTypes
    <3>2. o \in MonitorTypes
      BY <2>2, <3>1 DEF MonitorTypes
    <3> QED
      BY <2>2, <3>2, NilIsNoObject DEF MonitorTypes, MonitorObject
  <2> HIDE DEF o
  <2>4. /\ Desired[m] # Nil
        /\ Desired[m].gen = api[m].gen
        /\ Desired' = [Desired EXCEPT ![m] = [gen |-> Desired[m].gen + 1, spec |-> s]]
        /\ Reports' = Reports
        /\ Readiness' = Readiness
    <3>1. Desired[m] = [gen |-> api[m].gen, spec |-> api[m].spec]
      BY <2>1, ReadOff
    <3>2. [gen |-> api[m].gen, spec |-> api[m].spec] # Nil
      BY <2>2, NilIsNoDesire DEF MonitorTypes
    <3> QED
      BY <1>1, <1>2, <1>3, <2>1, <2>3, <3>1, <3>2, ReadOff
  <2> QED
    BY <2>4 DEF Contract!Edit, Desired, Reports, Readiness
<1>6. ASSUME Deleted(m)
      PROVE  Contract!Delete(m)
  <2>1. api[m] # Nil /\ api'[m] = Nil
    BY <1>6 DEF Deleted, StoreTypeOK
  <2>2. api[m] \in MonitorTypes
    BY <2>1 DEF StoreTypeOK, Version, MonitorObject, MonitorTypes
  <2>3. Desired[m] # Nil
    <3>1. Desired[m] = [gen |-> api[m].gen, spec |-> api[m].spec]
      BY <2>1, ReadOff
    <3> QED
      BY <2>2, <3>1, NilIsNoDesire DEF MonitorTypes
  <2>4. /\ Desired' = [Desired EXCEPT ![m] = Nil]
        /\ Reports' = [Reports EXCEPT ![m] = [gen |-> 0, finding |-> Finding(NoStatus)]]
        /\ Readiness' = [Readiness EXCEPT ![m] = [gen |-> 0, outcome |-> "None"]]
    BY <1>1, <1>2, <2>1, NewMonitor
  <2> QED
    BY <2>3, <2>4
    DEF Contract!Delete, Contract!Unseen, Contract!NoWord, Desired, Reports, Readiness
<1> QED
  BY <1>4, <1>5, <1>6 DEF Contract!Next

\* A status update publishes, gives up, acknowledges, or shows nothing new.
LEMMA UpdateRefines ==
    ASSUME StoreTypeOK, NEW m \in Monitors, NEW status \in Status, Updated(m, status)
    PROVE  Contract!Next \/ UNCHANGED <<Desired, Reports, Readiness>>
<1>1. /\ api[m] \in MonitorTypes /\ api[m] # Nil
      /\ api'[m] # Nil
      /\ api'[m].gen = api[m].gen
      /\ api'[m].spec = api[m].spec
      /\ api'[m].status = status
      /\ \A n \in Monitors \ {m} : api'[n] = api[n]
  BY UpdatedFacts, MonitorObjectsAre DEF Updated
<1>2. /\ Desired[m] = [gen |-> api[m].gen, spec |-> api[m].spec]
      /\ Desired[m] # Nil
      /\ Reports[m] = ReportOf(api[m].status)
      /\ Readiness[m] = ReadyOf(api[m].status)
  <2>1. [gen |-> api[m].gen, spec |-> api[m].spec] # Nil
    BY <1>1, NilIsNoDesire DEF MonitorTypes
  <2> QED
    BY <1>1, <2>1, ReadOff
<1>3. /\ Desired'[m] = [gen |-> api[m].gen, spec |-> api[m].spec]
      /\ Reports'[m] = ReportOf(status)
      /\ Readiness'[m] = ReadyOf(status)
  <2>1. /\ Desired'[m] = [gen |-> api'[m].gen, spec |-> api'[m].spec]
        /\ Reports'[m] = ReportOf(api'[m].status)
        /\ Readiness'[m] = ReadyOf(api'[m].status)
    BY <1>1 DEF Desired, Reports, Readiness, StoredStatus
  <2> QED
    BY <1>1, <2>1
<1>4. /\ Desired' = Desired
      /\ Reports' = [Reports EXCEPT ![m] = ReportOf(status)]
      /\ Readiness' = [Readiness EXCEPT ![m] = ReadyOf(status)]
  <2>1. Desired = [Desired EXCEPT ![m] = Desired[m]]
    BY DEF Desired
  <2> QED
    BY <1>1, <1>2, <1>3, <2>1, OneChanges
<1>5. ReportOf(status) = ReportOf(api[m].status) => Reports' = Reports
  <2>1. Reports = [Reports EXCEPT ![m] = Reports[m]]
    BY DEF Reports
  <2> QED
    BY <1>2, <1>4, <2>1
<1>6. CASE api[m].spec.suspend
  <2>1. "Suspended" \in Reason /\ api[m] \in MonitorObjects
    BY <1>1, MonitorObjectsAre DEF Reason
  <2>2. status = NotReady(api[m], "Suspended").status
    BY <1>6 DEF Updated, MayFollow
  <2>3. /\ ReportOf(status) = ReportOf(api[m].status)
        /\ status.conds["Ready"] =
              [status |-> FALSE, reason |-> "Suspended", gen |-> api[m].gen]
    BY <2>1, <2>2, NotReadyStatus
  <2>4. ReadyOf(status) = [gen |-> api[m].gen, outcome |-> "Suspended"]
    BY <1>1, <2>1, <2>3, ReadyWord DEF MonitorTypes
  <2>5. /\ Desired[m].spec \in {s \in Specs : s.suspend}
        /\ Readiness' =
              [Readiness EXCEPT ![m] = [gen |-> Desired[m].gen, outcome |-> "Suspended"]]
    BY <1>1, <1>2, <1>4, <1>6, <2>4 DEF MonitorTypes
  <2>6. Contract!Acknowledge(m)
    BY <1>2, <1>4, <1>5, <2>3, <2>5
    DEF Contract!Acknowledge, Contract!Says, Desired, Reports, Readiness
  <2> QED
    BY <2>6 DEF Contract!Next
<1>7. CASE ~api[m].spec.suspend /\ KeepsReport(api[m], status)
  <2>1. ReportOf(status) = ReportOf(api[m].status)
    BY <1>7 DEF KeepsReport
  <2>2. CASE status.conds["Ready"] = api[m].status.conds["Ready"]
    <3>1. ReadyOf(status) = ReadyOf(api[m].status)
      BY <2>2 DEF ReadyOf
    <3>2. Readiness = [Readiness EXCEPT ![m] = Readiness[m]]
      BY DEF Readiness
    <3> QED
      BY <1>2, <1>4, <1>5, <2>1, <3>1, <3>2
  <2>3. CASE status.conds["Ready"] =
               [status |-> FALSE, reason |-> "BaselineSnapshotFailed", gen |-> api[m].gen]
    <3>1. ReadyOf(status) = [gen |-> api[m].gen, outcome |-> "Failed"]
      BY <1>1, <2>3, ReadyWord DEF Reason, MonitorTypes
    <3>2. /\ Desired[m].spec \notin {s \in Specs : s.suspend}
          /\ Readiness' =
                [Readiness EXCEPT ![m] = [gen |-> Desired[m].gen, outcome |-> "Failed"]]
      BY <1>2, <1>4, <1>7, <3>1
    <3>3. Contract!GiveUp(m)
      BY <1>2, <1>4, <1>5, <2>1, <3>2
      DEF Contract!GiveUp, Contract!Says, Desired, Reports, Readiness
    <3> QED
      BY <3>3 DEF Contract!Next
  <2> QED
    BY <1>7, <2>2, <2>3 DEF KeepsReport
<1>8. CASE ~api[m].spec.suspend /\ CompletesReport(api[m], status)
  <2>1. ReadyOf(status) = [gen |-> api[m].gen, outcome |-> "Complete"]
    BY <1>1, <1>8, ReadyWord DEF CompletesReport, Reason, MonitorTypes
  <2>2. ReportOf(status) = [gen |-> api[m].gen, finding |-> Finding(status)]
    BY <1>8 DEF CompletesReport, ReportOf
  <2>3. /\ Desired[m].spec \notin {s \in Specs : s.suspend}
        /\ Readiness' =
              [Readiness EXCEPT ![m] = [gen |-> Desired[m].gen, outcome |-> "Complete"]]
    BY <1>2, <1>4, <1>8, <2>1
  <2>4. Finding(status) \in [s \in Specs |-> AdmissibleFor(s)][Desired[m].spec]
    BY <1>1, <1>2, <1>8 DEF CompletesReport, MonitorTypes
  <2>5. Reports'[m] \in [gen : {Desired[m].gen},
                         finding : [s \in Specs |-> AdmissibleFor(s)][Desired[m].spec]]
    <3> DEFINE A == [s \in Specs |-> AdmissibleFor(s)][Desired[m].spec]
    <3> HIDE DEF A
    <3>1. Finding(status) \in A
      BY <2>4 DEF A
    <3>2. Reports'[m] \in [gen : {Desired[m].gen}, finding : A]
      BY <1>2, <1>3, <2>2, <3>1
    <3> QED
      BY <3>2 DEF A
  <2>6. Reports' = [Reports EXCEPT ![m] = Reports'[m]]
    BY <1>3, <1>4
  <2>7. Contract!Publish(m)
    BY <1>2, <1>4, <2>3, <2>5, <2>6
    DEF Contract!Publish, Contract!Says, Desired, Reports, Readiness
  <2> QED
    BY <2>7 DEF Contract!Next
<1> QED
  BY <1>6, <1>7, <1>8 DEF Updated, MayFollow

\* The controller implements the contract: whatever a stale copy, a failed call,
\* an abandoned update or a restart does in between, a reader of the stored
\* monitors sees only whole reports, each for the spec it was computed for, and
\* nothing but the acknowledgement on a suspended monitor (lines 64-123 and
\* 317-366).
THEOREM ContractImplemented == Spec => ImplementsContract
<1>1. ASSUME ContractInv, [Next]_vars
      PROVE  [Contract!Next]_(Contract!contractVars)
  <2>1. StoreTypeOK /\ StoreStep
    BY <1>1, StoreSteps DEF ContractInv, SchedulingInv, TypeInv, TypeOK, RuntimeTypeOK
  <2>2. Contract!Next \/ UNCHANGED <<Desired, Reports, Readiness>>
    <3>1. UNCHANGED api => UNCHANGED <<Desired, Reports, Readiness>>
      BY DEF Desired, Reports, Readiness, StoredStatus
    <3> QED
      BY <2>1, <3>1, EditRefines, UpdateRefines DEF StoreStep
  <2>3. UNCHANGED <<Desired, Reports, Readiness>> => UNCHANGED Contract!contractVars
    BY DEF Contract!contractVars, Desired, Reports, Readiness
  <2> QED
    BY <2>2, <2>3
<1> QED
  BY <1>1, InitRefines, ContractInvariant, PTL
  DEF Spec, ImplementsContract, Contract!Spec

\* What MonitorContract promises a reader holds of the stored monitors: nothing
\* claims a generation to come, Ready = True and the report are of one check, and
\* Ready says Suspended of the stored generation exactly if it is suspended.
THEOREM StoredIsTrustworthy == Spec => []Contract!AllTrustworthy
<1>1. Nil \notin Contract!Desire
  <2>1. Contract!Desire \subseteq [gen : Nat, spec : Specs]
    BY DEF Contract!Desire
  <2> QED
    BY <2>1, NilIsNoDesire
<1>2. Contract!Spec => []Contract!AllTrustworthy
  BY <1>1, Contract!Trust
<1> QED
  BY <1>2, ContractImplemented, PTL DEF ImplementsContract

=============================================================================
