----------------------- MODULE ControllerRuntimeProofs -----------------------
(***************************************************************************)
(* What the certificate and the degradation controller owe to the runtime  *)
(* they share, proved once for both: RuntimeInv is kept by every step that *)
(* is not the controller's own, and by the controller's own steps as long  *)
(* as they are of the forms Begins, GoesOn and Ends.                       *)
(*                                                                         *)
(* Sound is a set of monitors, as they may be stored: every monitor of the *)
(* right type, or only those whose status makes sense.  Moves is a set of  *)
(* pairs: what is stored, and what a status update may make of it.  An     *)
(* update is guarded by the resourceVersion of a copy, so that a monitor   *)
(* that was read, worked on and written back makes a move, however reads,  *)
(* writes, abandoned updates and restarts interleave (StoreStep).          *)
(***************************************************************************)
EXTENDS ControllerRuntime, TLAPS

\* The versions of a monitor, deletion included.
Versions(Sound) == Sound \cup {Nil}

Closed(Sound, Statuses, Moves) ==
    /\ Nil \notin MonitorObject(Statuses)
    /\ Sound \subseteq MonitorObject(Statuses)
    /\ \A o \in Sound, s \in Specs : [o EXCEPT !.gen = @ + 1, !.spec = s] \in Sound
    /\ \A o, p : <<o, p>> \in Moves =>
          o \in Sound /\ p \in Sound /\ p.gen = o.gen /\ p.spec = o.spec

StoreOK(Sound) ==
    /\ api \in [Monitors -> Versions(Sound)]
    /\ mwatch \in [Monitors -> Seq(Versions(Sound))]
    /\ mcache \in [Monitors -> Versions(Sound)]

LateOK(Statuses, Moves) ==
    /\ late \in SUBSET LateUpdates(Statuses)
    /\ \A u \in late :
          /\ api[u.key] # Nil
          /\ <<api[u.key], [api[u.key] EXCEPT !.status = u.status]>> \in Moves

WorkerOK(Sound) ==
    /\ queue \in [Monitors -> QueueState]
    /\ key \in Monitors \cup {Nil}
    /\ obj \in Versions(Sound)
    /\ fresh \in BOOLEAN
    /\ (pc = "idle") <=> (key = Nil)
    /\ pc \notin {"idle", "get"} => obj # Nil

CountersOK ==
    /\ now \in Nat
    /\ edits \in Nat /\ faults \in Nat /\ crashes \in Nat

\* The watch ends with the stored version, and a cache with nothing on the way
\* holds it.
CatchesUp ==
    \A m \in Monitors :
        IF mwatch[m] = <<>> THEN mcache[m] = api[m]
                            ELSE mwatch[m][Len(mwatch[m])] = api[m]

\* The worker leaves its copy as it is until the status is ready to be written.
FreshIsStored(Moves) ==
    fresh /\ pc \notin {"idle", "get"} =>
        /\ api[key] # Nil
        /\ IF pc \in PutPhases THEN <<api[key], obj>> \in Moves ELSE obj = api[key]

\* A suspended monitor is told so, and no other is.
Suspension ==
    /\ pc = "putSuspended" => obj.spec.suspend
    /\ pc \notin {"idle", "get"} \cup PutPhases => ~obj.spec.suspend

Live(m) == api[m] # Nil /\ ~api[m].spec.suspend

LiveIsScheduled == \A m \in Monitors : Live(m) => Scheduled(m)

\* A step of somebody else than the user, as it shows in the store.
Moved(Moves) ==
    \/ UNCHANGED api
    \/ \E m \in Monitors : \E p : /\ <<api[m], p>> \in Moves
                              /\ api[m] # Nil
                              /\ api' = [api EXCEPT ![m] = p]

RuntimeInv(Sound, Statuses, Moves) ==
    /\ StoreOK(Sound)
    /\ LateOK(Statuses, Moves)
    /\ WorkerOK(Sound)
    /\ CountersOK
    /\ CatchesUp
    /\ FreshIsStored(Moves)
    /\ Suspension
    /\ LiveIsScheduled

-----------------------------------------------------------------------------
(***************************************************************************)
(* The store.                                                              *)
(***************************************************************************)
\* A write, whoever makes it.
LEMMA WriteFacts ==
    ASSUME NEW Sound, NEW Statuses, NEW Moves, Closed(Sound, Statuses, Moves),
           StoreOK(Sound), LateOK(Statuses, Moves), CatchesUp, UNCHANGED mcache,
           NEW m \in Monitors, NEW o \in Versions(Sound), Write(m, o)
    PROVE  /\ StoreOK(Sound)' /\ LateOK(Statuses, Moves)' /\ CatchesUp'
           /\ api'[m] = o
           /\ mwatch'[m] # <<>>
           /\ \A n \in Monitors \ {m} : api'[n] = api[n] /\ mwatch'[n] = mwatch[n]
<1>1. /\ api' = [api EXCEPT ![m] = o]
      /\ mwatch' = [mwatch EXCEPT ![m] = Append(mwatch[m], o)]
      /\ late' = {u \in late : u.key # m}
  BY DEF Write
<1>2. mwatch[m] \in Seq(Versions(Sound))
  BY DEF StoreOK
<1>3. /\ Append(mwatch[m], o) \in Seq(Versions(Sound))
      /\ Len(Append(mwatch[m], o)) = Len(mwatch[m]) + 1
      /\ Append(mwatch[m], o)[Len(mwatch[m]) + 1] = o
      /\ Append(mwatch[m], o) # <<>>
  BY <1>2
<1>4. /\ api'[m] = o
      /\ mwatch'[m] = Append(mwatch[m], o)
      /\ \A n \in Monitors \ {m} : api'[n] = api[n] /\ mwatch'[n] = mwatch[n]
  BY <1>1 DEF StoreOK
<1>5. StoreOK(Sound)'
  BY <1>1, <1>3 DEF StoreOK
<1>6. LateOK(Statuses, Moves)'
  <2>1. \A u \in late : u.key \in Monitors
    BY DEF LateOK, LateUpdates
  <2> QED
    BY <1>1, <1>4, <2>1 DEF LateOK
<1>7. CatchesUp'
  <2>1. ASSUME NEW n \in Monitors
        PROVE  IF mwatch'[n] = <<>> THEN mcache'[n] = api'[n]
                                    ELSE mwatch'[n][Len(mwatch'[n])] = api'[n]
    <3>1. CASE n = m
      BY <1>3, <1>4, <3>1
    <3>2. CASE n # m
      BY <1>4, <2>1, <3>2 DEF CatchesUp
    <3> QED
      BY <3>1, <3>2
  <2> QED
    BY <2>1 DEF CatchesUp
<1> QED
  BY <1>3, <1>4, <1>5, <1>6, <1>7

\* A user's edit.
LEMMA UserKeeps ==
    ASSUME NEW Sound, NEW Statuses, NEW Moves, Closed(Sound, Statuses, Moves),
           RuntimeInv(Sound, Statuses, Moves),
           NEW m \in Monitors, NEW o \in Versions(Sound), UserWrite(m, o)
    PROVE  RuntimeInv(Sound, Statuses, Moves)'
<1>1. /\ StoreOK(Sound)' /\ LateOK(Statuses, Moves)' /\ CatchesUp'
      /\ mwatch'[m] # <<>>
      /\ \A n \in Monitors \ {m} : api'[n] = api[n] /\ mwatch'[n] = mwatch[n]
  BY WriteFacts DEF RuntimeInv, UserWrite
<1>2. /\ UNCHANGED <<queue, pc, key, obj, now, faults, crashes>>
      /\ edits' = edits + 1
      /\ fresh' \in BOOLEAN
      /\ fresh' => fresh /\ m # key
  BY DEF UserWrite
<1>3. WorkerOK(Sound)' /\ CountersOK' /\ Suspension'
  BY <1>2 DEF RuntimeInv, WorkerOK, CountersOK, Suspension
<1>4. FreshIsStored(Moves)'
  BY <1>1, <1>2 DEF RuntimeInv, FreshIsStored, WorkerOK
<1>5. LiveIsScheduled'
  BY <1>1, <1>2 DEF RuntimeInv, LiveIsScheduled, Live, Scheduled
<1> QED
  BY <1>1, <1>3, <1>4, <1>5 DEF RuntimeInv

\* The three edits of a user; none is the status of a new monitor.
LEMMA EditKeeps ==
    ASSUME NEW Sound, NEW Statuses, NEW Moves, Closed(Sound, Statuses, Moves),
           RuntimeInv(Sound, Statuses, Moves), NEW none,
           \A s \in Specs : [gen |-> 1, spec |-> s, status |-> none] \in Sound,
           NEW m \in Monitors,
           \/ \E s \in Specs : CreateMonitor(m, s, none) \/ UpdateSpec(m, s)
           \/ DeleteMonitor(m)
    PROVE  RuntimeInv(Sound, Statuses, Moves)'
<1>1. ASSUME NEW s \in Specs, CreateMonitor(m, s, none)
      PROVE  \E o \in Versions(Sound) : UserWrite(m, o)
  BY <1>1 DEF CreateMonitor, Versions
<1>2. ASSUME NEW s \in Specs, UpdateSpec(m, s)
      PROVE  \E o \in Versions(Sound) : UserWrite(m, o)
  <2>1. api[m] \in Sound
    BY <1>2 DEF UpdateSpec, RuntimeInv, StoreOK, Versions
  <2>2. [api[m] EXCEPT !.gen = @ + 1, !.spec = s] \in Versions(Sound)
    BY <2>1 DEF Closed, Versions
  <2> QED
    BY <1>2, <2>2 DEF UpdateSpec
<1>3. ASSUME DeleteMonitor(m)
      PROVE  \E o \in Versions(Sound) : UserWrite(m, o)
  BY <1>3 DEF DeleteMonitor, Versions
<1> QED
  BY <1>1, <1>2, <1>3, UserKeeps

\* An abandoned update that arrives.
LEMMA LateKeeps ==
    ASSUME NEW Sound, NEW Statuses, NEW Moves, Closed(Sound, Statuses, Moves),
           RuntimeInv(Sound, Statuses, Moves), NEW u \in late, LateUpdate(u)
    PROVE  RuntimeInv(Sound, Statuses, Moves)' /\ Moved(Moves)
<1>1. /\ u.key \in Monitors
      /\ api[u.key] # Nil
      /\ <<api[u.key], [api[u.key] EXCEPT !.status = u.status]>> \in Moves
      /\ [api[u.key] EXCEPT !.status = u.status] \in Versions(Sound)
  BY DEF RuntimeInv, LateOK, LateUpdates, Closed, Versions
<1>2. UNCHANGED <<mcache, queue, pc, key, obj, now, edits, faults, crashes>>
  BY DEF LateUpdate, boundVars
<1>3. CASE late' = late \ {u} /\ UNCHANGED <<api, mwatch, fresh>>
  BY <1>2, <1>3
  DEF RuntimeInv, StoreOK, LateOK, WorkerOK, CountersOK, CatchesUp, FreshIsStored,
      Suspension, LiveIsScheduled, Live, Scheduled, Moved
<1>4. CASE /\ Write(u.key, [api[u.key] EXCEPT !.status = u.status])
           /\ fresh' = (fresh /\ u.key # key)
  <2>1. /\ StoreOK(Sound)' /\ LateOK(Statuses, Moves)' /\ CatchesUp'
        /\ mwatch'[u.key] # <<>>
        /\ \A n \in Monitors \ {u.key} : api'[n] = api[n] /\ mwatch'[n] = mwatch[n]
    BY <1>1, <1>2, <1>4, WriteFacts DEF RuntimeInv
  <2>2. fresh' \in BOOLEAN /\ (fresh' => fresh /\ u.key # key)
    BY <1>4
  <2>3. WorkerOK(Sound)' /\ CountersOK' /\ Suspension'
    BY <1>2, <2>2 DEF RuntimeInv, WorkerOK, CountersOK, Suspension
  <2>4. FreshIsStored(Moves)'
    BY <1>2, <2>1, <2>2 DEF RuntimeInv, FreshIsStored, WorkerOK
  <2>5. LiveIsScheduled'
    BY <1>2, <2>1 DEF RuntimeInv, LiveIsScheduled, Live, Scheduled
  <2>6. Moved(Moves)
    BY <1>1, <1>4 DEF Moved, Write
  <2> QED
    BY <2>1, <2>3, <2>4, <2>5, <2>6 DEF RuntimeInv
<1> QED
  BY <1>3, <1>4 DEF LateUpdate

-----------------------------------------------------------------------------
(***************************************************************************)
(* The informer, the queue, the clock and restarts.                        *)
(***************************************************************************)
\* Keys are added to the queue, and nothing else happens that the worker sees.
LEMMA QueueKeeps ==
    ASSUME NEW Sound, NEW Statuses, NEW Moves, RuntimeInv(Sound, Statuses, Moves),
           NEW ms, queue' = Enqueue(ms) \/ UNCHANGED queue,
           UNCHANGED <<api, mwatch, late, mcache, pc, key, obj, fresh>>, CountersOK'
    PROVE  RuntimeInv(Sound, Statuses, Moves)'
<1>1. /\ queue' \in [Monitors -> QueueState]
      /\ \A m \in Monitors : queue[m] # "none" => queue'[m] # "none"
  BY DEF Enqueue, QueueState, RuntimeInv, WorkerOK
<1> QED
  BY <1>1
  DEF RuntimeInv, StoreOK, LateOK, WorkerOK, CatchesUp, FreshIsStored, Suspension,
      LiveIsScheduled, Live, Scheduled

LEMMA DeliverKeeps ==
    ASSUME NEW Sound, NEW Statuses, NEW Moves, RuntimeInv(Sound, Statuses, Moves),
           NEW m \in Monitors, DeliverMonitor(m)
    PROVE  RuntimeInv(Sound, Statuses, Moves)'
<1>1. /\ mwatch[m] \in Seq(Versions(Sound)) /\ mwatch[m] # <<>>
      /\ mcache' = [mcache EXCEPT ![m] = Head(mwatch[m])]
      /\ mwatch' = [mwatch EXCEPT ![m] = Tail(mwatch[m])]
      /\ queue' = [n \in Monitors |-> IF n \in {m} THEN "ready" ELSE queue[n]]
      /\ UNCHANGED <<api, late, pc, key, obj, fresh, now, edits, faults, crashes>>
  BY DEF DeliverMonitor, RuntimeInv, StoreOK, Enqueue, workerVars, boundVars
<1>2. /\ Head(mwatch[m]) \in Versions(Sound)
      /\ Tail(mwatch[m]) \in Seq(Versions(Sound))
  BY <1>1
<1>3. StoreOK(Sound)'
  BY <1>1, <1>2 DEF RuntimeInv, StoreOK
<1>4. LateOK(Statuses, Moves)' /\ WorkerOK(Sound)' /\ CountersOK' /\ FreshIsStored(Moves)'
      /\ Suspension'
  <2>1. queue' \in [Monitors -> QueueState]
    BY <1>1 DEF RuntimeInv, WorkerOK, QueueState
  <2> QED
    BY <1>1, <2>1
    DEF RuntimeInv, LateOK, WorkerOK, CountersOK, FreshIsStored, Suspension
<1>5. CatchesUp'
  <2>1. CASE Tail(mwatch[m]) = <<>>
    <3>1. /\ Len(Tail(mwatch[m])) = Len(mwatch[m]) - 1
          /\ Len(mwatch[m]) \in Nat
      BY <1>1
    <3>2. Len(mwatch[m]) = 1
      <4>1. \A t \in Seq(Versions(Sound)) : t = <<>> => Len(t) = 0
        OBVIOUS
      <4>2. Len(Tail(mwatch[m])) = 0
        BY <1>2, <2>1, <4>1
      <4> QED
        BY <3>1, <4>2
    <3>3. Head(mwatch[m]) = mwatch[m][Len(mwatch[m])]
      BY <1>1, <3>2
    <3>4. mcache'[m] = api'[m]
      BY <1>1, <3>3 DEF RuntimeInv, StoreOK, CatchesUp
    <3> QED
      BY <1>1, <2>1, <3>4 DEF RuntimeInv, StoreOK, CatchesUp
  <2>2. CASE Tail(mwatch[m]) # <<>>
    <3>1. Tail(mwatch[m])[Len(Tail(mwatch[m]))] = mwatch[m][Len(mwatch[m])]
      BY <1>1, <2>2
    <3>2. mwatch'[m][Len(mwatch'[m])] = api'[m]
      BY <1>1, <2>2, <3>1 DEF RuntimeInv, StoreOK, CatchesUp
    <3> QED
      BY <1>1, <2>2, <3>2 DEF RuntimeInv, StoreOK, CatchesUp
  <2> QED
    BY <2>1, <2>2
<1>6. LiveIsScheduled'
  BY <1>1 DEF RuntimeInv, StoreOK, LiveIsScheduled, Live, Scheduled
<1> QED
  BY <1>3, <1>4, <1>5, <1>6 DEF RuntimeInv

LEMMA FireTimerKeeps ==
    ASSUME NEW Sound, NEW Statuses, NEW Moves, RuntimeInv(Sound, Statuses, Moves),
           NEW m \in Monitors, FireTimer(m)
    PROVE  RuntimeInv(Sound, Statuses, Moves)'
BY QueueKeeps DEF FireTimer, storeVars, workerVars, boundVars, RuntimeInv, CountersOK

LEMMA DequeueKeeps ==
    ASSUME NEW Sound, NEW Statuses, NEW Moves, RuntimeInv(Sound, Statuses, Moves),
           NEW m \in Monitors, Dequeue(m), Nil \notin Monitors
    PROVE  RuntimeInv(Sound, Statuses, Moves)'
<1>1. /\ pc = "idle" /\ pc' = "get" /\ key' = m /\ key = Nil
      /\ queue' = [queue EXCEPT ![m] = "none"]
      /\ UNCHANGED <<api, mwatch, late, mcache, obj, fresh, now, edits, faults, crashes>>
  BY DEF Dequeue, storeVars, boundVars, RuntimeInv, WorkerOK
<1>2. WorkerOK(Sound)'
  BY <1>1 DEF RuntimeInv, WorkerOK, QueueState
<1>3. LiveIsScheduled'
  BY <1>1 DEF RuntimeInv, WorkerOK, LiveIsScheduled, Live, Scheduled
<1> QED
  BY <1>1, <1>2, <1>3
  DEF RuntimeInv, StoreOK, LateOK, CountersOK, CatchesUp, FreshIsStored, Suspension

LEMMA TickKeeps ==
    ASSUME NEW Sound, NEW Statuses, NEW Moves, RuntimeInv(Sound, Statuses, Moves), Tick
    PROVE  RuntimeInv(Sound, Statuses, Moves)'
<1>1. /\ UNCHANGED <<api, mwatch, late, mcache, queue, pc, key, obj, fresh>>
      /\ CountersOK'
  BY DEF Tick, storeVars, workerVars, RuntimeInv, CountersOK
<1> QED
  BY <1>1, QueueKeeps

\* The request the worker has on the way would store its own sound copy.
LEMMA AbandonedIsSound ==
    ASSUME NEW Sound, NEW Statuses, NEW Moves, Closed(Sound, Statuses, Moves),
           RuntimeInv(Sound, Statuses, Moves), pc \in PutPhases, Current
    PROVE  /\ key \in Monitors
           /\ obj \in Sound
           /\ obj.spec = api[key].spec
           /\ <<api[key], obj>> \in Moves
           /\ [api[key] EXCEPT !.status = obj.status] = obj
           /\ obj.status \in Statuses
<1>1. /\ key \in Monitors
      /\ <<api[key], obj>> \in Moves
  BY DEF RuntimeInv, WorkerOK, FreshIsStored, Current, PutPhases
<1>3. /\ obj \in Sound /\ api[key] \in Sound
      /\ obj.gen = api[key].gen /\ obj.spec = api[key].spec
  BY <1>1 DEF Closed
<1>2. /\ obj \in [gen : Nat, spec : Specs, status : Statuses]
      /\ api[key] \in [gen : Nat, spec : Specs, status : Statuses]
  BY <1>3 DEF Closed, MonitorObject
<1> QED
  BY <1>1, <1>2, <1>3

LEMMA AbandonedKeeps ==
    ASSUME NEW Sound, NEW Statuses, NEW Moves, Closed(Sound, Statuses, Moves),
           RuntimeInv(Sound, Statuses, Moves), UNCHANGED api,
           \/ late' = late
           \/ pc \in PutPhases /\ Current /\ late' = late \cup Abandoned
    PROVE  LateOK(Statuses, Moves)'
<1>1. CASE late' = late
  BY <1>1 DEF RuntimeInv, LateOK
<1>2. CASE pc \in PutPhases /\ Current /\ late' = late \cup Abandoned
  <2>1. /\ key \in Monitors /\ obj.status \in Statuses
        /\ <<api[key], [api[key] EXCEPT !.status = obj.status]>> \in Moves
        /\ api[key] # Nil
    BY <1>2, AbandonedIsSound DEF Current
  <2>2. \A u \in late' : u \in late \/ u = [key |-> key, status |-> obj.status]
    BY <1>2 DEF Abandoned
  <2> QED
    BY <2>1, <2>2 DEF RuntimeInv, LateOK, LateUpdates
<1> QED
  BY <1>1, <1>2

LEMMA RestartKeeps ==
    ASSUME NEW Sound, NEW Statuses, NEW Moves, Closed(Sound, Statuses, Moves),
           RuntimeInv(Sound, Statuses, Moves), RestartRuntime
    PROVE  RuntimeInv(Sound, Statuses, Moves)'
<1>1. /\ pc' = "idle" /\ key' = Nil /\ obj' = Nil /\ fresh' = FALSE
      /\ mcache' = api /\ api' = api
      /\ mwatch' = [m \in Monitors |-> <<>>]
      /\ queue' = [m \in Monitors |-> IF api[m] = Nil THEN "none" ELSE "ready"]
      /\ crashes' = crashes + 1 /\ now' = now /\ edits' = edits /\ faults' = faults
  BY DEF RestartRuntime, WorkerFree
<1>2. LateOK(Statuses, Moves)'
  BY <1>1, AbandonedKeeps DEF RestartRuntime
<1>3. StoreOK(Sound)'
  <2>1. <<>> \in Seq(Versions(Sound))
    OBVIOUS
  <2> QED
    BY <1>1, <2>1 DEF RuntimeInv, StoreOK
<1>4. WorkerOK(Sound)'
  BY <1>1 DEF WorkerOK, QueueState, Versions
<1>5. CountersOK' /\ CatchesUp' /\ FreshIsStored(Moves)' /\ Suspension'
  BY <1>1 DEF RuntimeInv, CountersOK, CatchesUp, FreshIsStored, Suspension
<1>6. LiveIsScheduled'
  BY <1>1 DEF LiveIsScheduled, Live, Scheduled
<1> QED
  BY <1>2, <1>3, <1>4, <1>5, <1>6 DEF RuntimeInv

-----------------------------------------------------------------------------
(***************************************************************************)
(* The steps of Reconcile.                                                 *)
(***************************************************************************)
\* The copy is taken from the cache, and may be made ready to be written.
Begins(Moves) ==
    /\ pc = "get"
    /\ mcache[key] # Nil
    /\ pc' \notin {"idle", "get"}
    /\ IF pc' \in PutPhases THEN <<mcache[key], obj'>> \in Moves ELSE obj' = mcache[key]
    /\ pc' = "putSuspended" => obj'.spec.suspend
    /\ pc' \notin PutPhases => ~obj'.spec.suspend
    /\ fresh' = (mwatch[key] = <<>>)
    /\ UNCHANGED <<api, mwatch, late, mcache, queue, key>>

\* A step in between, at the end of which the copy may be ready.
GoesOn(Moves) ==
    /\ {pc, pc'} \cap {"idle", "get"} = {}
    /\ pc \notin PutPhases
    /\ pc' # "putSuspended"
    /\ IF pc' \in PutPhases THEN <<obj, obj'>> \in Moves ELSE obj' = obj
    /\ UNCHANGED <<api, mwatch, late, mcache, queue, key, fresh>>

\* Reconcile returns, after a status update or without one.  It is not called
\* again only if the monitor is gone or has just been told of its suspension.
Ends ==
    /\ pc # "idle"
    /\ UNCHANGED mcache
    /\ \/ UNCHANGED storeVars /\ FinishedRequeue
       \/ UNCHANGED storeVars /\ Finished /\ pc = "get" /\ mcache[key] = Nil
       \/ pc \in PutPhases /\ (StatusUpdated \/ StatusUpdateFailed) /\ FinishedRequeue
       \/ pc = "putSuspended" /\ StatusUpdated /\ Finished

LEMMA BeginsKeeps ==
    ASSUME NEW Sound, NEW Statuses, NEW Moves, Closed(Sound, Statuses, Moves),
           RuntimeInv(Sound, Statuses, Moves), Begins(Moves), CountersOK'
    PROVE  RuntimeInv(Sound, Statuses, Moves)'
<1>1. /\ key \in Monitors /\ key' = key
      /\ UNCHANGED <<api, mwatch, late, mcache, queue>>
      /\ pc = "get" /\ pc' \notin {"idle", "get"}
      /\ fresh' = (mwatch[key] = <<>>)
      /\ obj' \in Sound /\ obj' # Nil
  BY DEF Begins, RuntimeInv, WorkerOK, StoreOK, Versions, Closed
<1>2. WorkerOK(Sound)'
  BY <1>1 DEF Begins, RuntimeInv, WorkerOK, Versions
<1>3. FreshIsStored(Moves)'
  BY <1>1 DEF Begins, RuntimeInv, CatchesUp, FreshIsStored
<1>4. Suspension'
  BY <1>1 DEF Begins, Suspension
<1>5. LiveIsScheduled'
  BY <1>1 DEF RuntimeInv, LiveIsScheduled, Live, Scheduled
<1>6. StoreOK(Sound)' /\ LateOK(Statuses, Moves)' /\ CatchesUp'
  BY <1>1 DEF RuntimeInv, StoreOK, LateOK, CatchesUp
<1> QED
  BY <1>2, <1>3, <1>4, <1>5, <1>6 DEF RuntimeInv

LEMMA GoesOnKeeps ==
    ASSUME NEW Sound, NEW Statuses, NEW Moves, Closed(Sound, Statuses, Moves),
           RuntimeInv(Sound, Statuses, Moves), GoesOn(Moves), CountersOK'
    PROVE  RuntimeInv(Sound, Statuses, Moves)'
<1>1. /\ UNCHANGED <<api, mwatch, late, mcache, queue, key, fresh>>
      /\ pc \notin {"idle", "get"} /\ pc' \notin {"idle", "get"}
      /\ obj' \in Sound /\ obj' # Nil
  BY DEF GoesOn, RuntimeInv, WorkerOK, Versions, Closed
<1>2. WorkerOK(Sound)'
  BY <1>1 DEF GoesOn, RuntimeInv, WorkerOK, Versions
<1>3. FreshIsStored(Moves)' /\ Suspension'
  BY <1>1 DEF GoesOn, RuntimeInv, FreshIsStored, Suspension
<1>4. LiveIsScheduled'
  BY <1>1 DEF RuntimeInv, LiveIsScheduled, Live, Scheduled
<1>5. StoreOK(Sound)' /\ LateOK(Statuses, Moves)' /\ CatchesUp'
  BY <1>1 DEF RuntimeInv, StoreOK, LateOK, CatchesUp
<1> QED
  BY <1>2, <1>3, <1>4, <1>5 DEF RuntimeInv

\* The status update writes the copy, or nothing.
LEMMA CallFacts ==
    ASSUME NEW Sound, NEW Statuses, NEW Moves, Closed(Sound, Statuses, Moves),
           RuntimeInv(Sound, Statuses, Moves), pc \in PutPhases, UNCHANGED mcache,
           StatusUpdated \/ StatusUpdateFailed
    PROVE  /\ StoreOK(Sound)' /\ LateOK(Statuses, Moves)' /\ CatchesUp'
           /\ \A n \in Monitors \ {key} : api'[n] = api[n] /\ mwatch'[n] = mwatch[n]
           /\ StatusUpdated => api'[key] # Nil /\ api'[key].spec = obj.spec
           /\ Moved(Moves)
<1>1. CASE UNCHANGED api /\ UNCHANGED mwatch /\ late' = late /\ ~StatusUpdated
  BY <1>1 DEF RuntimeInv, StoreOK, LateOK, CatchesUp, Moved
<1>2. CASE Current /\ WriteStatus
  <2>1. /\ key \in Monitors
        /\ obj \in Sound
        /\ obj.spec = api[key].spec
        /\ <<api[key], obj>> \in Moves
        /\ [api[key] EXCEPT !.status = obj.status] = obj
        /\ api[key] # Nil
        /\ obj # Nil
    BY <1>2, AbandonedIsSound DEF Current, Closed
  <2>2. CASE UNCHANGED storeVars
    BY <2>1, <2>2 DEF RuntimeInv, StoreOK, LateOK, CatchesUp, storeVars, Moved
  <2>3. CASE Write(key, obj)
    <3>1. Moved(Moves)
      BY <2>1, <2>3 DEF Write, Moved
    <3> QED
      BY <2>1, <2>3, <3>1, WriteFacts DEF RuntimeInv, Versions
  <2> QED
    BY <1>2, <2>1, <2>2, <2>3 DEF WriteStatus
<1>3. CASE Current /\ late' = late \cup Abandoned /\ UNCHANGED <<api, mwatch>>
           /\ ~StatusUpdated
  BY <1>3, AbandonedKeeps DEF RuntimeInv, StoreOK, CatchesUp, Moved
<1> QED
  BY <1>1, <1>2, <1>3 DEF StatusUpdated, StatusUpdateFailed, storeVars

\* A status update leaves on the watch what is there, and changes the monitor only
\* if it adds to it.  When the copy is the stored one and no call fails, nothing
\* is added only if there was nothing new to write.
LEMMA CallShows ==
    ASSUME NEW Sound, NEW Statuses, NEW Moves, Closed(Sound, Statuses, Moves),
           RuntimeInv(Sound, Statuses, Moves), pc \in PutPhases,
           StatusUpdated \/ StatusUpdateFailed
    PROVE  /\ mwatch[key] # <<>> => mwatch'[key] # <<>>
           /\ mwatch'[key] = <<>> => api'[key] = api[key]
           /\ mwatch'[key] = <<>> /\ Current /\ faults' = faults =>
                 StatusUpdated /\ api[key].status = obj.status
<1>1. key \in Monitors /\ mwatch \in [Monitors -> Seq(Versions(Sound))]
      /\ api \in [Monitors -> Versions(Sound)]
  BY DEF RuntimeInv, StoreOK, WorkerOK, PutPhases
<1>2. faults' = faults /\ Current => StatusUpdated
  BY DEF StatusUpdateFailed, Fault, RuntimeInv, CountersOK
<1>3. CASE api' = api /\ mwatch' = mwatch /\ ~StatusUpdated
  BY <1>2, <1>3
<1>4. CASE Current /\ WriteStatus
  <2>1. CASE api[key].status = obj.status
    BY <1>2, <1>4, <2>1 DEF WriteStatus, storeVars
  <2>2. CASE api[key].status # obj.status
    <3> DEFINE o == [api[key] EXCEPT !.status = obj.status]
    <3>1. Write(key, o)
      BY <1>4, <2>2 DEF WriteStatus
    <3>2. o \in Versions(Sound)
      BY <1>4, AbandonedIsSound DEF Versions
    <3> HIDE DEF o
    <3>3. mwatch'[key] = Append(mwatch[key], o)
      BY <1>1, <3>1 DEF Write
    <3>4. mwatch'[key] # <<>>
      BY <1>1, <3>2, <3>3
    <3> QED
      BY <3>4
  <2> QED
    BY <2>1, <2>2
<1> QED
  BY <1>3, <1>4 DEF StatusUpdated, StatusUpdateFailed, storeVars

LEMMA EndsKeeps ==
    ASSUME NEW Sound, NEW Statuses, NEW Moves, Closed(Sound, Statuses, Moves),
           RuntimeInv(Sound, Statuses, Moves), Ends, CountersOK', Nil \notin Monitors
    PROVE  RuntimeInv(Sound, Statuses, Moves)' /\ Moved(Moves)
<1>1. /\ key \in Monitors
      /\ pc' = "idle" /\ key' = Nil /\ obj' = Nil /\ fresh' = FALSE
      /\ queue' = queue \/ queue' = EnqueueAfter(key)
  BY DEF Ends, Finished, FinishedRequeue, WorkerFree, RuntimeInv, WorkerOK
<1>2. /\ StoreOK(Sound)' /\ LateOK(Statuses, Moves)' /\ CatchesUp'
      /\ \A n \in Monitors \ {key} : api'[n] = api[n] /\ mwatch'[n] = mwatch[n]
      /\ StatusUpdated /\ pc \in PutPhases
            => api'[key] # Nil /\ api'[key].spec = obj.spec
      /\ Moved(Moves)
  <2>1. CASE UNCHANGED storeVars /\ pc \notin PutPhases
    BY <2>1 DEF Ends, RuntimeInv, StoreOK, LateOK, CatchesUp, storeVars, Moved
  <2>2. CASE UNCHANGED storeVars /\ pc \in PutPhases /\ ~StatusUpdated
    BY <2>2 DEF Ends, RuntimeInv, StoreOK, LateOK, CatchesUp, storeVars, Moved
  <2>3. CASE pc \in PutPhases /\ (StatusUpdated \/ StatusUpdateFailed)
    BY <2>3, CallFacts DEF Ends
  <2> QED
    BY <2>1, <2>2, <2>3 DEF Ends, PutPhases
<1>3. WorkerOK(Sound)'
  <2>1. queue' \in [Monitors -> QueueState]
    BY <1>1 DEF EnqueueAfter, QueueState, RuntimeInv, WorkerOK
  <2> QED
    BY <1>1, <2>1 DEF WorkerOK, Versions
<1>4. FreshIsStored(Moves)' /\ Suspension'
  BY <1>1 DEF FreshIsStored, Suspension
<1>5. LiveIsScheduled'
  <2>1. ASSUME NEW n \in Monitors, Live(n)'
        PROVE  Scheduled(n)'
    <3>1. CASE n # key
      <4>1. Live(n) /\ key # n
        BY <1>2, <2>1, <3>1 DEF Live
      <4>2. queue[n] # "none" \/ mwatch[n] # <<>>
        BY <4>1 DEF RuntimeInv, LiveIsScheduled, Scheduled
      <4>3. queue'[n] = queue[n]
        BY <1>1, <3>1 DEF EnqueueAfter, RuntimeInv, WorkerOK
      <4> QED
        BY <1>2, <3>1, <4>2, <4>3 DEF Scheduled
    <3>2. CASE n = key /\ FinishedRequeue
      <4>1. queue'[key] # "none"
        BY <1>1, <3>2 DEF FinishedRequeue, EnqueueAfter, RuntimeInv, WorkerOK
      <4> QED
        BY <3>2, <4>1 DEF Scheduled
    <3>3. CASE n = key /\ mcache[key] = Nil /\ UNCHANGED storeVars
      <4>1. api'[key] # Nil /\ mcache'[key] = Nil
        BY <2>1, <3>3 DEF Live, Ends
      <4>2. mwatch'[key] # <<>>
        BY <1>1, <1>2, <4>1 DEF CatchesUp
      <4> QED
        BY <3>3, <4>2 DEF Scheduled
    <3>4. CASE n = key /\ pc = "putSuspended" /\ StatusUpdated
      BY <1>2, <2>1, <3>4 DEF RuntimeInv, Suspension, Live, PutPhases
    <3> QED
      BY <3>1, <3>2, <3>3, <3>4 DEF Ends
  <2> QED
    BY <2>1 DEF LiveIsScheduled
<1> QED
  BY <1>2, <1>3, <1>4, <1>5 DEF RuntimeInv, Ends

\* What may follow may follow when more is allowed.
LEMMA MoreMoves ==
    ASSUME NEW Sound, NEW Statuses, NEW Moves, NEW More, Moves \subseteq More,
           RuntimeInv(Sound, Statuses, Moves)
    PROVE  RuntimeInv(Sound, Statuses, More)
BY DEF RuntimeInv, LateOK, FreshIsStored

LEMMA RuntimeInitOK ==
    ASSUME NEW Sound, NEW Statuses, NEW Moves, RuntimeInit
    PROVE  RuntimeInv(Sound, Statuses, Moves)
<1>1. /\ api = [m \in Monitors |-> Nil]
      /\ mwatch = [m \in Monitors |-> <<>>]
      /\ mcache = [m \in Monitors |-> Nil]
      /\ queue = [m \in Monitors |-> "none"]
      /\ pc = "idle" /\ key = Nil /\ obj = Nil /\ late = {}
      /\ now = 1 /\ edits = 0 /\ faults = 0 /\ crashes = 0
  BY DEF RuntimeInit
<1>2. fresh \in BOOLEAN
  BY Zenon DEF RuntimeInit
<1>3. StoreOK(Sound)
  <2>1. <<>> \in Seq(Versions(Sound)) /\ Nil \in Versions(Sound)
    BY DEF Versions
  <2> QED
    BY <1>1, <2>1 DEF StoreOK
<1>4. LateOK(Statuses, Moves) /\ CountersOK /\ CatchesUp /\ FreshIsStored(Moves) /\ Suspension
      /\ LiveIsScheduled
  BY <1>1 DEF LateOK, CountersOK, CatchesUp, FreshIsStored, Suspension, LiveIsScheduled,
              Live
<1>5. WorkerOK(Sound)
  BY <1>1, <1>2 DEF WorkerOK, QueueState, Versions
<1> QED
  BY <1>3, <1>4, <1>5 DEF RuntimeInv

=============================================================================
