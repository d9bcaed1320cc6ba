------------------------- MODULE ControllerRuntime -------------------------
(***************************************************************************)
(* What the three controllers of the operator share: the custom resources  *)
(* of one kind in the API server, the informer cache the manager's client  *)
(* reads, the watch events between the two, the controller's work queue    *)
(* and its one worker.  None of this is code of the repository: main.go    *)
(* builds a controller-runtime v0.23 manager with its default options      *)
(* (cached client, priority work queue with one entry per key,             *)
(* MaxConcurrentReconciles = 1) and each reconciler uses it.               *)
(*                                                                         *)
(* A controller module EXTENDS this one and adds its own Reconcile steps.  *)
(***************************************************************************)
EXTENDS Naturals, Sequences

CONSTANTS
    Monitors,    \* names of the custom resources of the controller's kind
    Specs,       \* the .spec values the API server admits
    Nil,         \* Go's nil: no object, no key
    MaxEdits,    \* bound on the user's and the cluster's edits
    MaxFaults,   \* bound on failed calls
    MaxCrashes,  \* bound on operator restarts
    MaxClock     \* bound on the wall clock, in seconds

ASSUME BoundsAssumption ==
    /\ MaxEdits \in Nat
    /\ MaxFaults \in Nat
    /\ MaxCrashes \in Nat
    /\ MaxClock \in Nat \ {0}

ASSUME NilAssumption == Nil \notin Monitors

VARIABLES
    api,      \* the objects stored by the API server, or Nil
    mwatch,   \* per monitor, the written versions not yet in the cache
    mcache,   \* the informer cache of the monitors
    queue,    \* the controller's work queue
    pc,       \* where the worker stands in Reconcile
    key,      \* the monitor it reconciles
    obj,      \* its in-memory copy of that monitor
    fresh,    \* whether the copy has the resourceVersion of the stored monitor
    late,     \* status updates on the way that nobody waits for any more
    now,      \* metav1.Now(), which is stored with a precision of 1 second
    edits, faults, crashes     \* counters of the bounds

storeVars  == <<api, mwatch, late>>
workerVars == <<pc, key, obj, fresh>>
boundVars  == <<now, edits, faults, crashes>>
runtimeVars == <<api, mwatch, late, mcache, queue, pc, key, obj, fresh,
                 now, edits, faults, crashes>>

(***************************************************************************)
(* Work queue.  A key has at most one entry: "ready" to be handed to the   *)
(* worker, or "delayed" by RequeueAfter or by the rate limiter.  Adding a  *)
(* key that is there keeps the earlier of the two times.                   *)
(***************************************************************************)
QueueState == {"none", "delayed", "ready"}

Enqueue(ms) == [m \in Monitors |-> IF m \in ms THEN "ready" ELSE queue[m]]

EnqueueAfter(m) == [queue EXCEPT ![m] = IF @ = "none" THEN "delayed" ELSE @]

(***************************************************************************)
(* API server: every write gives the monitor a new resourceVersion and is  *)
(* sent on the watch; the generation counts the edits of .spec.  All that  *)
(* is ever asked of a resourceVersion is whether the worker's copy has the *)
(* one of the stored monitor, which is what fresh says, and whether an     *)
(* update on the way has it: a write drops from late those that no longer  *)
(* do.                                                                     *)
(***************************************************************************)
MonitorObject(Statuses) == [gen : Nat, spec : Specs, status : Statuses]

LateUpdates(Statuses) == [key : Monitors, status : Statuses]

Write(m, o) ==
    /\ api' = [api EXCEPT ![m] = o]
    /\ mwatch' = [mwatch EXCEPT ![m] = Append(@, o)]
    /\ late' = {u \in late : u.key # m}

UserWrite(m, o) ==
    /\ edits < MaxEdits
    /\ edits' = edits + 1
    /\ Write(m, o)
    /\ fresh' = (fresh /\ m # key)
    /\ UNCHANGED <<mcache, queue, pc, key, obj, now, faults, crashes>>

CreateMonitor(m, spec, status) ==
    /\ api[m] = Nil
    /\ UserWrite(m, [gen |-> 1, spec |-> spec, status |-> status])

UpdateSpec(m, spec) ==
    /\ api[m] # Nil
    /\ spec # api[m].spec
    /\ UserWrite(m, [api[m] EXCEPT !.gen = @ + 1, !.spec = spec])

DeleteMonitor(m) ==
    /\ api[m] # Nil
    /\ UserWrite(m, Nil)

(***************************************************************************)
(* For(&Monitor{}) has no predicate: every version of a monitor that       *)
(* reaches the cache, its own status writes and its deletion included,     *)
(* enqueues the monitor.                                                   *)
(***************************************************************************)
DeliverMonitor(m) ==
    /\ mwatch[m] # <<>>
    /\ mcache' = [mcache EXCEPT ![m] = Head(mwatch[m])]
    /\ mwatch' = [mwatch EXCEPT ![m] = Tail(@)]
    /\ queue' = Enqueue({m})
    /\ UNCHANGED <<api, late, workerVars, boundVars>>

FireTimer(m) ==
    /\ queue[m] = "delayed"
    /\ queue' = Enqueue({m})
    /\ UNCHANGED <<storeVars, mcache, workerVars, boundVars>>

Tick ==
    /\ now < MaxClock
    /\ now' = now + 1
    /\ UNCHANGED <<storeVars, mcache, queue, workerVars, edits, faults, crashes>>

(***************************************************************************)
(* The worker.  Dequeue hands it a key, which may be added again while it  *)
(* is being reconciled but is not handed out before the reconcile ends.    *)
(* Reconcile ends in one of two ways: with Result{}, nil (Finished), or    *)
(* with an error or a RequeueAfter, which both add the key back later      *)
(* (FinishedRequeue).                                                      *)
(***************************************************************************)
\* A monitor whose turn will come: it is being reconciled, it waits in the queue,
\* or a watch event of it is on the way.
Scheduled(m) == key = m \/ queue[m] # "none" \/ mwatch[m] # <<>>

Dequeue(m) ==
    /\ pc = "idle"
    /\ queue[m] = "ready"
    /\ pc' = "get"
    /\ key' = m
    /\ queue' = [queue EXCEPT ![m] = "none"]
    /\ UNCHANGED <<storeVars, mcache, obj, fresh, boundVars>>

\* r.Get reads the cache, which holds the stored monitor when nothing of it is
\* on the watch.
CopyFromCache(o) ==
    /\ obj' = o
    /\ fresh' = (mwatch[key] = <<>>)

WorkerFree ==
    /\ pc' = "idle"
    /\ key' = Nil
    /\ obj' = Nil
    /\ fresh' = FALSE

Finished == WorkerFree /\ UNCHANGED queue

FinishedRequeue == WorkerFree /\ queue' = EnqueueAfter(key)

Fault ==
    /\ faults < MaxFaults
    /\ faults' = faults + 1

(***************************************************************************)
(* r.Status().Update(ctx, monitor), with the resourceVersion of the copy   *)
(* as precondition.  A write that changes nothing creates no version.      *)
(* When a call fails, or the process ends in the middle of one, the        *)
(* request may still be on the way and arrive at any later time.           *)
(***************************************************************************)
PutPhases == {"putSuspended", "putSnapshot", "putSnapshotFailed", "putListFailed",
              "putReport"}

Current == api[key] # Nil /\ fresh

WriteStatus ==
    IF api[key].status = obj.status
    THEN UNCHANGED storeVars
    ELSE Write(key, [api[key] EXCEPT !.status = obj.status])

StatusUpdated ==
    /\ Current
    /\ WriteStatus
    /\ UNCHANGED faults

\* The request that the worker has made, as it goes on without it.
Abandoned == {[key |-> key, status |-> obj.status]}

\* Conflict, NotFound, or a call that failed: before the write, after it when
\* the answer is lost, or with the request still on the way.
StatusUpdateFailed ==
    \/ /\ ~Current
       /\ UNCHANGED <<storeVars, faults>>
    \/ /\ Fault
       /\ UNCHANGED storeVars
    \/ /\ Fault
       /\ Current
       /\ WriteStatus
    \/ /\ Fault
       /\ Current
       /\ late' = late \cup Abandoned
       /\ UNCHANGED <<api, mwatch>>

\* An abandoned update arrives, with the resourceVersion of the stored monitor.
LateUpdate(u) ==
    /\ u \in late
    /\ IF api[u.key].status = u.status
       THEN late' = late \ {u} /\ UNCHANGED <<api, mwatch, fresh>>
       ELSE /\ Write(u.key, [api[u.key] EXCEPT !.status = u.status])
            /\ fresh' = (fresh /\ u.key # key)
    /\ UNCHANGED <<mcache, queue, pc, key, obj, boundVars>>

(***************************************************************************)
(* A crash, or the loss of the leader's lease, loses the queue, the cache  *)
(* and the work in progress, save for a request already sent.  The next    *)
(* process starts from a list of every kind it watches, and each existing  *)
(* monitor comes as a Create event.                                        *)
(***************************************************************************)
RestartRuntime ==
    /\ crashes < MaxCrashes
    /\ crashes' = crashes + 1
    /\ WorkerFree
    /\ mcache' = api
    /\ mwatch' = [m \in Monitors |-> <<>>]
    /\ queue' = [m \in Monitors |-> IF api[m] = Nil THEN "none" ELSE "ready"]
    /\ \/ late' = late
       \/ pc \in PutPhases /\ Current /\ late' = late \cup Abandoned
    /\ UNCHANGED <<api, now, edits, faults>>

RuntimeInit ==
    /\ api = [m \in Monitors |-> Nil]
    /\ mwatch = [m \in Monitors |-> <<>>]
    /\ mcache = [m \in Monitors |-> Nil]
    /\ queue = [m \in Monitors |-> "none"]
    /\ pc = "idle"
    /\ key = Nil
    /\ obj = Nil
    /\ fresh = FALSE
    /\ late = {}
    /\ now = 1
    /\ edits = 0
    /\ faults = 0
    /\ crashes = 0

(***************************************************************************)
(* meta.SetStatusCondition: one entry per type, replaced as a whole.       *)
(***************************************************************************)
Condition(Reasons) == [status : BOOLEAN, reason : Reasons, gen : Nat]

SetStatusCondition(conds, type, status, reason, gen) ==
    [conds EXCEPT ![type] = [status |-> status, reason |-> reason, gen |-> gen]]

=============================================================================
