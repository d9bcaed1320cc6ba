------------------------ MODULE RBACDriftProperties ------------------------
(***************************************************************************)
(* What is asked of RBACDriftMonitor.  The last section holds what the     *)
(* repository says of the program and the code does not do.                *)
(***************************************************************************)
EXTENDS RBACDriftMonitor

Version == MonitorObject(Status) \cup {Nil}

Phases == {"idle", "get", "putSuspended", "snapshot", "putSnapshot",
           "putSnapshotFailed", "unexpected", "check", "putReport"}

\* The values of the store.  An abandoned update has its monitor.
StoreTypeOK ==
    /\ api \in [Monitors -> Version]
    /\ mwatch \in [Monitors -> Seq(Version)]
    /\ late \in SUBSET LateUpdates(Status)
    /\ \A u \in late : api[u.key] # Nil

\* The values of the variables of the controller runtime.
RuntimeTypeOK ==
    /\ StoreTypeOK
    /\ mcache \in [Monitors -> Version]
    /\ queue \in [Monitors -> QueueState]
    /\ pc \in Phases
    /\ key \in Monitors \cup {Nil}
    /\ obj \in Version
    /\ fresh \in BOOLEAN
    /\ (pc = "idle") <=> (key = Nil)
    /\ pc \notin {"idle", "get"} => obj # Nil
    /\ now \in Nat
    /\ {edits, faults, crashes} \subseteq Nat

\* The values of the variables of a snapshot, a detection or a check.
CheckTypeOK ==
    /\ todo \in SUBSET Entry
    /\ items \in SUBSET Drift
    /\ at \in Nat
    /\ kinds \in SUBSET Kinds
    /\ snapshot \in SUBSET Entry
    /\ unexpected \in SUBSET Refs

\* The Events in the recorder, and the ones that left it, were given to it.
RecorderTypeOK ==
    /\ told \in SUBSET Event
    /\ unsent \in SUBSET told
    /\ events \in SUBSET told

\* Every variable keeps its type, and the worker has a key and a copy of the
\* monitor in every phase of Reconcile that uses them.
TypeOK ==
    /\ RuntimeTypeOK
    /\ rbac \in [Refs -> Resource \cup {Nil}]
    /\ rwatch \in [Refs -> Seq(Resource \cup {Nil})]
    /\ rcache \in [Refs -> Resource \cup {Nil}]
    /\ CheckTypeOK
    /\ RecorderTypeOK

\* checkDriftSnapshotBased dereferences Status.SnapShotBaseline (line 133)
\* without a test: whenever a check in snapshot mode lies ahead, the copy has
\* one.
SnapshotIsThereForTheCheck ==
    pc \in {"unexpected", "check"} /\ obj.spec.mode = SnapshotBased
        => obj.status.snap # Nil

\* MakeBaselineSnapshot writes a snapshot, never a nil one.
SnapshotMade == pc = "putSnapshot" => obj.status.snap # Nil

\* The inductive invariant behind the two above: the entries of a check are
\* entries only if there is a snapshot to take them from.
TypeInv ==
    /\ TypeOK
    /\ SnapshotIsThereForTheCheck
    /\ SnapshotMade

-----------------------------------------------------------------------------
(***************************************************************************)
(* What the proof that nothing is lost rests on.                           *)
(***************************************************************************)
\* The watch ends with the stored version, and a cache with nothing on the way
\* holds it.
CacheCatchesUp ==
    \A m \in Monitors :
        IF mwatch[m] = <<>> THEN mcache[m] = api[m]
                            ELSE mwatch[m][Len(mwatch[m])] = api[m]

\* The worker's copy has the stored spec unless its key will be handed out
\* again or a watch event is on the way that sees to it.
CopyIsCurrent ==
    pc \notin {"idle", "get"} /\ queue[key] # "ready" /\ mwatch[key] = <<>>
        => api[key] # Nil /\ api[key].spec = obj.spec

\* The phases that end without a requeue are those of suspended monitors and of
\* the snapshot mode.
PhaseFitsCopy ==
    /\ pc = "putSuspended" => obj.spec.suspend
    /\ pc \in {"snapshot", "putSnapshot", "putSnapshotFailed"}
          => obj.spec.mode = SnapshotBased

-----------------------------------------------------------------------------
\* The monitor exists, is not suspended and compares with .spec.baseline.
Active(m) ==
    /\ api[m] # Nil
    /\ ~api[m].spec.suspend
    /\ api[m].spec.mode # SnapshotBased

\* No lost wakeup: an active monitor is being reconciled, waits in the queue
\* (ready or on a timer), or has a watch event on the way that will enqueue it,
\* whatever failed before and however deletion, suspension and restarts
\* interleave with a reconcile (the results of Reconcile, lines 64-123 and
\* 191-366).
ActiveIsScheduled == \A m \in Monitors : Active(m) => Scheduled(m)

\* The inductive invariant behind ActiveIsScheduled.
SchedulingInv ==
    /\ TypeInv
    /\ CacheCatchesUp
    /\ CopyIsCurrent
    /\ PhaseFitsCopy
    /\ ActiveIsScheduled

Expected(spec) ==
    {[ref |-> e.ref, type |-> CompareEntry(e, rbac[e.ref])] :
        e \in {f \in spec.baseline : CompareEntry(f, rbac[f.ref]) # "Match"}}

Reported(status) == {[ref |-> d.ref, type |-> d.type] : d \in status.items}

Accurate(m) ==
    /\ api[m].status.obsGen = api[m].gen
    /\ Reported(api[m].status) = Expected(api[m].spec)

Settled(m) ==
    /\ key # m
    /\ queue[m] # "ready"
    /\ mwatch[m] = <<>>
    /\ \A e \in api[m].spec.baseline : rwatch[e.ref] = <<>>

\* The watches alone keep the report right: as long as no call has failed, once
\* an active monitor has no event left to handle, its status lists exactly the
\* drift between the current spec and the current cluster.  No timer is needed
\* (mapRBACToMonitor, lines 630-682, and the self-watch of line 768).
SettledReportIsAccurate ==
    \A m \in Monitors :
        faults = 0 /\ Active(m) /\ Settled(m) => Accurate(m)

\* A report that claims the current generation (ObservedGeneration, line 331)
\* only lists resources of the current baseline, also when the monitor was
\* deleted and created again while a reconcile was under way.
CurrentReportSpeaksOfBaseline ==
    \A m \in Monitors :
        api[m] # Nil /\ api[m].status.obsGen = api[m].gen
            => \A d \in api[m].status.items :
                   baselineReferencesResource(api[m].spec, d.ref)

\* The DriftDetected condition and the list of drifts are two accounts of one
\* check and agree in every stored status, after recoveries and suspensions too
\* (lines 327-349).
DriftConditionMatchesItems ==
    \A m \in Monitors :
        api[m] # Nil /\ api[m].status.conds["DriftDetected"] # Nil
            => (api[m].status.conds["DriftDetected"].status
                    <=> api[m].status.items # {})

\* A drift is announced before it is reported: no drift stands in a status,
\* whatever its severity and whichever process or late update wrote it, that was
\* not given to the recorder (lines 317-353).  What the recorder makes of it is
\* another matter: DriftEventuallyAnnounced.
ReportedDriftIsAnnounced ==
    \A m \in Monitors :
        api[m] # Nil =>
            \A d \in api[m].status.items :
                [reason |-> "DriftDetected", monitor |-> m,
                 ref |-> d.ref, type |-> d.type] \in told

KnownSuspended(o) ==
    /\ o # Nil
    /\ o.spec.suspend
    /\ o.status.conds["Ready"] # Nil
    /\ o.status.conds["Ready"].reason = "Suspended"
    /\ o.status.conds["Ready"].gen = o.gen

\* Once a suspension has been acknowledged the monitor is left alone: until the
\* user edits it, its status does not change, though reconciles started before
\* the suspension may still end (lines 75-88).
SuspendedIsLeftAlone ==
    [][\A m \in Monitors :
          KnownSuspended(api[m]) /\ api'[m] # Nil /\ api'[m].gen = api[m].gen
              => api'[m].status = api[m].status]_api

\* A monitor with a snapshot keeps that snapshot for the rest of its life: no
\* reconcile that started without it takes a second one over it (lines 91-109).
\* rbacdriftmonitor_types.go:165 describes another snapshot, one that each check
\* replaces; this is what the code does instead of it.
SnapshotTakenOnce ==
    [][\A m \in Monitors :
          api[m] # Nil /\ api'[m] # Nil /\ api[m].status.snap # Nil
              => api'[m].status.snap = api[m].status.snap]_api

\* A monitor in snapshot mode that has no snapshot yet is tried again, also when
\* the API server refuses the snapshot every time; one failed call does not end
\* it.  A second List that fails does: nothing is left to write, and line 105
\* returns without an error and without RequeueAfter (lines 91-109, 739-740).
MissingSnapshotIsRetried ==
    \A m \in Monitors :
        (/\ faults < 2
         /\ api[m] # Nil
         /\ ~api[m].spec.suspend
         /\ api[m].spec.mode = SnapshotBased
         /\ api[m].status.snap = Nil) => Scheduled(m)

\* When spec and cluster stop changing, the report becomes right and stays
\* right, whatever calls failed before: the periodic recheck makes up for events
\* and reads that were lost (lines 364-366).
ReportEventuallyAccurate ==
    <>[](\A m \in Monitors : Active(m) => Accurate(m))

\* The controller does not keep itself busy: each of its status writes comes back
\* as a watch event and starts another reconcile (line 768), but once spec,
\* cluster and clock stand still no reconcile writes anything new.
StatusSettles == <>[][UNCHANGED api]_vars

\* A suspension that lasts is acknowledged in the Ready condition.
SuspensionEventuallyAcknowledged ==
    \A m \in Monitors :
        (api[m] # Nil /\ api[m].spec.suspend)
            ~> (api[m] = Nil \/ ~api[m].spec.suspend \/ KnownSuspended(api[m]))

\* A drift that stays gets its Event to the API server, though the recorder can
\* drop it and a crash takes what has not been sent: every check announces all
\* that it finds, also what the status lists already (lines 317-324).
DriftEventuallyAnnounced ==
    \A m \in Monitors : \A r \in Refs : \A type \in {"Modified", "Deleted"} :
        LET Stands == Active(m) /\ [ref |-> r, type |-> type] \in Expected(api[m].spec)
        IN  Stands ~> \/ ~Stands
                      \/ [reason |-> "DriftDetected", monitor |-> m,
                          ref |-> r, type |-> type] \in events

\* The monitor looks for unexpected resources, and r is one.
IsUnexpected(m, r) ==
    /\ Active(m)
    /\ api[m].spec.detectUnexpected
    /\ rbac[r] # Nil
    /\ ~baselineReferencesResource(api[m].spec, r)
    /\ ~shouldExclude(r, rbac[r].ann, api[m].spec)

\* An unexpected resource that stays is announced, although no watch event of
\* a resource outside the baseline wakes the controller: the periodic recheck
\* finds it (lines 368-411 and 641), for monitors of severity Warning.
UnexpectedEventuallyAnnounced ==
    \A m \in Monitors : \A r \in Refs :
        IsUnexpected(m, r)
            ~> \/ ~IsUnexpected(m, r)
               \/ api[m].spec.severity = "Critical"
               \/ [reason |-> "UnexpectedDriftDetected", monitor |-> m,
                   ref |-> r, type |-> "Unexpected"] \in events

-----------------------------------------------------------------------------
(***************************************************************************)
(* The contract of MonitorContract, read off the stored monitors.          *)
(***************************************************************************)
Outcome(cond) ==
    CASE cond = Nil -> "None"
      [] cond # Nil /\ cond.status -> "Complete"
      [] cond # Nil /\ ~cond.status /\ cond.reason = "Suspended" -> "Suspended"
      [] OTHER -> "Failed"

ReadyOf(status) ==
    LET cond == status.conds["Ready"]
    IN  [gen |-> IF cond = Nil THEN 0 ELSE cond.gen, outcome |-> Outcome(cond)]

\* The drifts of a report, and what DriftDetected says of them.
Finding(status) ==
    LET cond == status.conds["DriftDetected"]
    IN  [drifts |-> Reported(status), detected |-> cond # Nil /\ cond.status]

AdmissibleFor(spec) ==
    {f \in [drifts : SUBSET [ref : {e.ref : e \in spec.baseline},
                            type : {"Modified", "Deleted"}],
            detected : BOOLEAN] : f.detected <=> f.drifts # {}}

ReportOf(status) == [gen |-> status.obsGen, finding |-> Finding(status)]

StoredStatus(m) == IF api[m] = Nil THEN NoStatus ELSE api[m].status

ASSUME NilIsNoDesire == Nil \notin [gen : Nat, spec : Specs]

Contract == INSTANCE MonitorContract WITH
    Suspended  <- {s \in Specs : s.suspend},
    Admissible <- [s \in Specs |-> AdmissibleFor(s)],
    NoFinding  <- Finding(NoStatus),
    desired    <- [m \in Monitors |->
                      IF api[m] = Nil THEN Nil
                      ELSE [gen |-> api[m].gen, spec |-> api[m].spec]],
    report     <- [m \in Monitors |-> ReportOf(StoredStatus(m))],
    ready      <- [m \in Monitors |-> ReadyOf(StoredStatus(m))]

\* Every step of the controller is one of the contract's: in spite of stale
\* copies, abandoned updates, conflicts and restarts a report is only stored for
\* the very spec it was computed for, whole, with its condition, and never on a
\* suspended monitor (lines 64-123 and 317-366).
ImplementsContract == Contract!Spec

-----------------------------------------------------------------------------
(***************************************************************************)
(* What the proof of the contract rests on.                                *)
(***************************************************************************)
Announcements(m, ds) ==
    {[reason |-> "DriftDetected", monitor |-> m, ref |-> d.ref, type |-> d.type] :
        d \in ds}

KeepsReport(o, status) ==
    /\ ReportOf(status) = ReportOf(o.status)
    /\ \/ status.conds["Ready"] = o.status.conds["Ready"]
       \/ status.conds["Ready"] =
              [status |-> FALSE, reason |-> "BaselineSnapshotFailed", gen |-> o.gen]

CompletesReport(o, status) ==
    /\ status.obsGen = o.gen
    /\ Finding(status) \in AdmissibleFor(o.spec)
    /\ status.conds["Ready"] =
          [status |-> TRUE, reason |-> "ReconcileComplete", gen |-> o.gen]

\* The statuses that may replace the one of the stored monitor o.
MayFollow(o, status) ==
    IF o.spec.suspend
    THEN status = NotReady(o, "Suspended").status
    ELSE /\ o.status.snap # Nil => status.snap = o.status.snap
         /\ KeepsReport(o, status) \/ CompletesReport(o, status)

\* An update that the API server would accept.
Acceptable(m, status) ==
    /\ MayFollow(api[m], status)
    /\ Announcements(m, status.items) \subseteq told

CheckPhases == {"snapshot", "unexpected", "check"}

\* As long as the copy has the resourceVersion of the stored monitor, it is that
\* monitor but for what Reconcile has put into it.
FreshCopy ==
    fresh /\ pc \notin {"idle", "get"} =>
        /\ api[key] # Nil
        /\ obj.gen = api[key].gen
        /\ obj.spec = api[key].spec
        /\ pc \in CheckPhases => obj.status = api[key].status
        /\ pc = "putSnapshot" =>
              /\ api[key].status.snap = Nil
              /\ obj.status = [api[key].status EXCEPT !.snap = obj.status.snap]
        /\ pc \in PutPhases => Acceptable(key, obj.status)

LateIsAcceptable == \A u \in late : Acceptable(u.key, u.status)

\* The work of a check: nothing is found outside one, and nothing is found that
\* was not asked for.
CheckIsOfBaseline ==
    /\ pc # "check" => items = {}
    /\ pc = "snapshot" => obj.status.snap = Nil
    /\ pc \in CheckPhases \cup (PutPhases \ {"putSuspended"}) => ~obj.spec.suspend
    /\ pc = "check" /\ obj.spec.mode # SnapshotBased =>
          /\ todo \subseteq obj.spec.baseline
          /\ \A d \in items : /\ d.type \in {"Modified", "Deleted"}
                             /\ baselineReferencesResource(obj.spec, d.ref)

\* What holds of the monitor m whenever it is stored as o.
Sound(m, o) ==
    LET status == o.status
        ready  == status.conds["Ready"]
    IN  /\ status.obsGen <= o.gen
        /\ status.obsGen = o.gen => Finding(status) \in AdmissibleFor(o.spec)
        /\ Finding(status).detected <=> Finding(status).drifts # {}
        /\ Announcements(m, status.items) \subseteq told
        /\ ready # Nil => (ready.status <=> ready.reason = "ReconcileComplete")

StoredIsSound == \A m \in Monitors : api[m] # Nil => Sound(m, api[m])

\* The inductive invariant behind ImplementsContract.
ContractInv ==
    /\ SchedulingInv
    /\ FreshCopy
    /\ LateIsAcceptable
    /\ CheckIsOfBaseline
    /\ StoredIsSound

-----------------------------------------------------------------------------
(***************************************************************************)
(* Statements of the repository that the code does not meet.               *)
(***************************************************************************)
\* rbacdriftmonitor_types.go:52 offers a mode "SnapshotBased": a monitor in that
\* mode whose current generation was processed has a snapshot.
SnapshotModeIsHonoured ==
    \A m \in Monitors :
        (/\ api[m] # Nil
         /\ api[m].spec.mode = "SnapshotBased"
         /\ api[m].status.obsGen = api[m].gen) => api[m].status.snap # Nil

\* rbacdriftmonitor_types.go:41: Severity for drift events is Warning or
\* Critical.  Detection of unexpected resources records an event for what it
\* finds under either.
UnexpectedDriftIsAnnounced ==
    [][pc = "unexpected" /\ pc' = "check" =>
          \A r \in unexpected :
              \E ev \in told' : ev.monitor = key /\ ev.ref = r
                                    /\ ev.type = "Unexpected"]_vars

=============================================================================
