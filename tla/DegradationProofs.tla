-------------------------- MODULE DegradationProofs --------------------------
(***************************************************************************)
(* Proofs about ClusterDegradationMonitor for every number of monitors,    *)
(* every spec, every finite set of operators and every bound:              *)
(*   DegradationTypeCorrect  the type invariant                            *)
(*   DegradationNothingLost  ActiveIsScheduled                             *)
(*   VerdictsFit             VerdictFitsSpec                               *)
(*   TroubleAnnounced        TroubleIsAnnounced                            *)
(*   DegradationReportsAccurate  SettledReportIsAccurate                   *)
(*   DegradationImplements   ImplementsContract                            *)
(* All follow from DegradationInv, which is RuntimeInv for the monitors    *)
(* whose verdict fits their spec, and from what a status update may make   *)
(* of one: Moves.  That settled reports are accurate also needs            *)
(* AccuracyInv: whatever is out of date has news on the way.               *)
(***************************************************************************)
EXTENDS DegradationProperties, ControllerRuntimeProofs, FiniteSetTheorems

\* The verdict of a status that claims the generation gen is that of spec.
Fits(status, gen, spec) ==
    /\ status.obsGen <= gen
    /\ status.obsGen = gen =>
          /\ status.overallHealth = OverallHealth(spec, Listed(status))
          /\ \A h \in Listed(status) : InFilter(spec, h.operator)

SoundMonitors == {o \in MonitorObject(Status) : Fits(o.status, o.gen, o.spec)}

Says(o, status, b, reason) ==
    status.conds["Ready"] = [status |-> b, reason |-> reason, gen |-> o.gen]

Completes(o, status) ==
    /\ status.obsGen = o.gen
    /\ Finding(status) \in AdmissibleFor(o.spec)
    /\ Says(o, status, TRUE, "CorrelationComplete")

KeepsReport(o, status) ==
    /\ ReportOf(status) = ReportOf(o.status)
    /\ status.degraded = o.status.degraded
    /\ status.unavailable = o.status.unavailable

\* The statuses that may replace the one of the stored monitor o.
MayFollow(o, status) ==
    IF o.spec.suspend
    THEN KeepsReport(o, status) /\ Says(o, status, FALSE, "Suspended")
    ELSE \/ KeepsReport(o, status) /\ Says(o, status, FALSE, "ListFailed")
         \/ Completes(o, status)

MayBecome(o, p) == p.gen = o.gen /\ p.spec = o.spec /\ MayFollow(o, p.status)

Moves == {mv \in SoundMonitors \X SoundMonitors : MayBecome(mv[1], mv[2])}

\* The news of a status were told.
Told(status) ==
    /\ status.degraded > 0 =>
          [reason |-> "ClusterDegraded", count |-> status.degraded] \in emitted
    /\ status.unavailable > 0 =>
          [reason |-> "ClusterUnavailable", count |-> status.unavailable] \in emitted

DegradationInv ==
    /\ RuntimeInv(SoundMonitors, Status, Moves)
    /\ pc = "putReport" => Told(obj.status)
    /\ pc \in Phases
    /\ operators \in [Operators -> OperatorStatuses \cup {Nil}]
    /\ ocache \in [Operators -> OperatorStatuses \cup {Nil}]
    /\ owatch \in [Operators -> Seq(OperatorStatuses \cup {Nil})]
    /\ emitted \in SUBSET Event

Conditions == [ConditionType -> Condition(Reason) \cup {Nil}]

LEMMA SoundType ==
    ASSUME NEW o
    PROVE  o \in SoundMonitors <=> /\ o \in [gen : Nat, spec : Specs, status : Status]
                                   /\ Fits(o.status, o.gen, o.spec)
BY DEF SoundMonitors, MonitorObject

LEMMA MoveType ==
    ASSUME NEW o, NEW p
    PROVE  <<o, p>> \in Moves <=>
              o \in SoundMonitors /\ p \in SoundMonitors /\ MayBecome(o, p)
BY DEF Moves

\* An edit of the spec raises the generation above what the status claims.
LEMMA SoundIsClosed == Closed(SoundMonitors, Status, Moves)
<1>1. ASSUME NEW o \in SoundMonitors, NEW s \in Specs
      PROVE  [o EXCEPT !.gen = @ + 1, !.spec = s] \in SoundMonitors
  <2> DEFINE p == [o EXCEPT !.gen = @ + 1, !.spec = s]
  <2>1. /\ o \in [gen : Nat, spec : Specs, status : Status]
        /\ o.gen \in Nat /\ o.gen + 1 \in Nat
        /\ o.status.obsGen \in Nat /\ o.status.obsGen <= o.gen
    BY <1>1, SoundType DEF Fits, Status
  <2>2. /\ p \in [gen : Nat, spec : Specs, status : Status]
        /\ p.gen = o.gen + 1 /\ p.spec = s /\ p.status = o.status
    BY <2>1
  <2> HIDE DEF p
  <2>3. Fits(p.status, p.gen, p.spec)
    BY <2>1, <2>2 DEF Fits
  <2> QED
    BY <2>2, <2>3, SoundType
<1>2. \A o, p : <<o, p>> \in Moves =>
          o \in SoundMonitors /\ p \in SoundMonitors /\ p.gen = o.gen /\ p.spec = o.spec
  BY MoveType DEF MayBecome
<1> QED
  BY <1>1, <1>2, NilIsNoObject DEF Closed, SoundMonitors

LEMMA NewIsSound ==
    ASSUME NEW s \in Specs
    PROVE  [gen |-> 1, spec |-> s, status |-> NoStatus] \in SoundMonitors
<1>1. NoStatus \in Status
  BY DEF NoStatus, Status, ConditionType, Health
<1>2. NoStatus.obsGen = 0
  BY DEF NoStatus
<1> QED
  BY <1>1, <1>2, SoundType DEF Fits

LEMMA SetStatusConditionType ==
    ASSUME NEW conds \in Conditions, NEW type \in ConditionType, NEW b \in BOOLEAN,
           NEW reason \in Reason, NEW gen \in Nat
    PROVE  /\ SetStatusCondition(conds, type, b, reason, gen) \in Conditions
           /\ SetStatusCondition(conds, type, b, reason, gen)[type]
                 = [status |-> b, reason |-> reason, gen |-> gen]
<1>1. [status |-> b, reason |-> reason, gen |-> gen] \in Condition(Reason)
  BY DEF Condition
<1> QED
  BY <1>1 DEF SetStatusCondition, Conditions

\* Only Ready changes, so that the verdict stays as it was.
LEMMA NotReadySound ==
    ASSUME NEW o \in SoundMonitors, NEW reason \in Reason
    PROVE  /\ NotReady(o, reason) \in SoundMonitors
           /\ NotReady(o, reason).gen = o.gen
           /\ NotReady(o, reason).spec = o.spec
           /\ KeepsReport(o, NotReady(o, reason).status)
           /\ Says(o, NotReady(o, reason).status, FALSE, reason)
<1> DEFINE c == SetStatusCondition(o.status.conds, "Ready", FALSE, reason, o.gen)
           s == [o.status EXCEPT !.conds = c]
           p == [o EXCEPT !.status = s]
<1>1. /\ o \in [gen : Nat, spec : Specs, status : Status]
      /\ Fits(o.status, o.gen, o.spec)
      /\ o.status.conds \in Conditions
      /\ o.gen \in Nat
  BY SoundType DEF Status, Conditions
<1>2. /\ c \in Conditions
      /\ c["Ready"] = [status |-> FALSE, reason |-> reason, gen |-> o.gen]
  <2> DEFINE b == FALSE
  <2>1. b \in BOOLEAN /\ "Ready" \in ConditionType
    BY DEF ConditionType
  <2> HIDE DEF b
  <2>2. /\ SetStatusCondition(o.status.conds, "Ready", b, reason, o.gen) \in Conditions
        /\ SetStatusCondition(o.status.conds, "Ready", b, reason, o.gen)["Ready"]
              = [status |-> b, reason |-> reason, gen |-> o.gen]
    BY <1>1, <2>1, SetStatusConditionType
  <2> QED
    BY <2>2 DEF b
<1>3. NotReady(o, reason) = p
  BY <1>1 DEF NotReady, Status
<1> HIDE DEF c
<1>4. /\ s \in Status
      /\ s.obsGen = o.status.obsGen
      /\ s.overallHealth = o.status.overallHealth
      /\ s.list = o.status.list
      /\ s.degraded = o.status.degraded /\ s.unavailable = o.status.unavailable
      /\ s.conds = c
  BY <1>1, <1>2 DEF Status, Conditions
<1> HIDE DEF s
<1>5. /\ p \in [gen : Nat, spec : Specs, status : Status]
      /\ p.gen = o.gen /\ p.spec = o.spec /\ p.status = s
  BY <1>1, <1>4
<1> HIDE DEF p
<1>6. Fits(p.status, p.gen, p.spec)
  BY <1>1, <1>4, <1>5 DEF Fits, Listed
<1>7. KeepsReport(o, s)
  BY <1>4 DEF KeepsReport, ReportOf, Finding, Listed
<1>8. Says(o, s, FALSE, reason)
  BY <1>2, <1>4 DEF Says
<1> QED
  BY <1>3, <1>5, <1>6, <1>7, <1>8, SoundType

\* The healths of some operators are finitely many, and a list of them is one of
\* healths.
LEMMA HealthsFacts ==
    ASSUME NEW spec \in Specs, NEW world \in [Operators -> OperatorStatuses \cup {Nil}]
    PROVE  LET hs == HealthsOf(spec, world)
           IN  /\ hs \subseteq ClusterOperatorHealth
               /\ IsFiniteSet(hs)
               /\ \A h \in hs : InFilter(spec, h.operator)
<1> DEFINE D == {d \in Operators : world[d] # Nil /\ InFilter(spec, d)}
           hs == HealthsOf(spec, world)
           f == [c \in D |-> HealthOf(c, world)]
<1>1. hs = {HealthOf(c, world) : c \in D}
  BY DEF HealthsOf
<1>2. \A c \in D : /\ HealthOf(c, world) \in ClusterOperatorHealth
                   /\ HealthOf(c, world).operator = c
  BY DEF HealthOf, ClusterOperatorHealth
<1>3. IsFiniteSet(D)
  BY FS_Subset, DegradationAssumption
<1>4. f \in Surjection(D, hs)
  <2> HIDE DEF D, hs
  <2> QED
    BY <1>1, Zenon DEF Surjection
<1>5. IsFiniteSet(hs)
  BY <1>3, <1>4, FS_Surjection
<1> QED
  BY <1>1, <1>2, <1>5

LEMMA SequenceOfSet ==
    ASSUME NEW S, IsFiniteSet(S), NEW s \in SetToSeqs(S)
    PROVE  /\ s \in Seq(S)
           /\ ToSet(s) = S
<1> DEFINE D == 1 .. Cardinality(S)
<1>1. Cardinality(S) \in Nat /\ s \in [D -> S]
  BY FS_CardinalityType DEF SetToSeqs
<1>2. \A i, j \in D : s[i] = s[j] => i = j
  BY DEF SetToSeqs
<1>3. s \in Injection(D, S)
  BY <1>1, <1>2 DEF Injection, IsInjective
<1>4. Cardinality(D) = Cardinality(S)
  BY <1>1, FS_Interval
<1> HIDE DEF D
<1>5. s \in Surjection(D, S)
  BY <1>3, <1>4, FS_Injection
<1>6. \A x \in S : \E i \in D : s[i] = x
  BY <1>5 DEF Surjection
<1> QED
  BY <1>1, <1>6 DEF ToSet, D

LEMMA CountsAreNat ==
    ASSUME NEW hs, IsFiniteSet(hs)
    PROVE  /\ DegradedCount(hs) \in Nat
           /\ UnavailableCount(hs) \in Nat
           /\ ProgressingCount(hs) \in Nat
BY FS_Subset, FS_CardinalityType DEF DegradedCount, UnavailableCount, ProgressingCount

\* The report of the operators of a spec fits that spec.
LEMMA ReportSound ==
    ASSUME NEW o \in SoundMonitors,
           NEW world \in [Operators -> OperatorStatuses \cup {Nil}],
           NEW list \in SetToSeqs(HealthsOf(o.spec, world)), now \in Nat
    PROVE  /\ Report(o, list) \in SoundMonitors
           /\ Report(o, list).gen = o.gen
           /\ Report(o, list).spec = o.spec
           /\ Completes(o, Report(o, list).status)
           /\ LET hs == HealthsOf(o.spec, world)
              IN  /\ Report(o, list).status.degraded = DegradedCount(hs)
                  /\ Report(o, list).status.unavailable = UnavailableCount(hs)
<1> DEFINE hs == ToSet(list)
           d == CountCondition(o.status.conds, "ClusterDegraded", DegradedCount(hs),
                       "OperatorsDegraded", "NoOperatorsDegraded", o.gen)
           u == CountCondition(d, "ClusterUnavailable", UnavailableCount(hs),
                       "OperatorsUnavailable", "AllOperatorsAvailable", o.gen)
           c == SetStatusCondition(u, "Ready", TRUE, "CorrelationComplete", o.gen)
           s == [list |-> list,
                 degraded |-> DegradedCount(hs),
                 unavailable |-> UnavailableCount(hs),
                 progressing |-> ProgressingCount(hs),
                 overallHealth |-> OverallHealth(o.spec, hs),
                 lastCorrelation |-> now,
                 obsGen |-> o.gen,
                 conds |-> c]
           p == [o EXCEPT !.status = s]
<1>1. /\ o \in [gen : Nat, spec : Specs, status : Status]
      /\ o.status.conds \in Conditions
      /\ o.gen \in Nat /\ o.spec \in Specs
  BY SoundType DEF Status, Conditions
<1>2. /\ list \in Seq(ClusterOperatorHealth)
      /\ IsFiniteSet(hs)
      /\ \A h \in hs : InFilter(o.spec, h.operator)
      /\ hs = HealthsOf(o.spec, world)
      /\ hs \subseteq ClusterOperatorHealth
  <2> DEFINE all == HealthsOf(o.spec, world)
  <2>1. /\ all \subseteq ClusterOperatorHealth
        /\ IsFiniteSet(all)
        /\ \A h \in all : InFilter(o.spec, h.operator)
    BY <1>1, HealthsFacts
  <2> HIDE DEF all
  <2>2. list \in Seq(all) /\ hs = all
    <3>1. list \in SetToSeqs(all)
      BY DEF all
    <3> QED
      BY <2>1, <3>1, SequenceOfSet
  <2>3. list \in Seq(ClusterOperatorHealth)
    BY <2>1, <2>2
  <2> QED
    BY <2>1, <2>2, <2>3 DEF all
<1>3. /\ DegradedCount(hs) \in Nat
      /\ UnavailableCount(hs) \in Nat
      /\ ProgressingCount(hs) \in Nat
  <2> HIDE DEF hs
  <2> QED
    BY <1>2, CountsAreNat
<1>4. /\ c \in Conditions
      /\ c["Ready"] = [status |-> TRUE, reason |-> "CorrelationComplete", gen |-> o.gen]
  <2>1. \A n \in Nat : (n > 0) \in BOOLEAN
    OBVIOUS
  <2>2. d \in Conditions
    <3> DEFINE reason == IF DegradedCount(hs) > 0
                         THEN "OperatorsDegraded" ELSE "NoOperatorsDegraded"
               b == DegradedCount(hs) > 0
    <3>1. reason \in Reason /\ b \in BOOLEAN
      BY DEF Reason
    <3>2. d = SetStatusCondition(o.status.conds, "ClusterDegraded", b, reason, o.gen)
      BY DEF CountCondition
    <3> HIDE DEF b, reason, d
    <3> QED
      BY <1>1, <3>1, <3>2, SetStatusConditionType DEF ConditionType
  <2> HIDE DEF d
  <2>3. u \in Conditions
    <3> DEFINE reason == IF UnavailableCount(hs) > 0
                         THEN "OperatorsUnavailable" ELSE "AllOperatorsAvailable"
               b == UnavailableCount(hs) > 0
    <3>1. reason \in Reason /\ b \in BOOLEAN
      BY DEF Reason
    <3>2. u = SetStatusCondition(d, "ClusterUnavailable", b, reason, o.gen)
      BY DEF CountCondition
    <3> HIDE DEF b, reason, u
    <3> QED
      BY <1>1, <2>2, <3>1, <3>2, SetStatusConditionType DEF ConditionType
  <2> DEFINE b == TRUE
             reason == "CorrelationComplete"
  <2>4. b \in BOOLEAN /\ reason \in Reason /\ "Ready" \in ConditionType
    BY DEF Reason, ConditionType
  <2>5. c = SetStatusCondition(u, "Ready", b, reason, o.gen)
    OBVIOUS
  <2> HIDE DEF u, c, b, reason
  <2>6. c \in Conditions /\ c["Ready"] = [status |-> b, reason |-> reason, gen |-> o.gen]
    BY <1>1, <2>3, <2>4, <2>5, SetStatusConditionType
  <2> QED
    BY <2>6 DEF b, reason
<1>5. OverallHealth(o.spec, hs) \in Health
  BY <1>3 DEF OverallHealth, Health
<1>6. Report(o, list) = p
  BY DEF Report
<1> HIDE DEF c
<1>7. /\ s \in Status
      /\ s.obsGen = o.gen
      /\ s.overallHealth = OverallHealth(o.spec, hs)
      /\ Listed(s) = hs
      /\ s.degraded = DegradedCount(hs) /\ s.unavailable = UnavailableCount(hs)
      /\ s.conds = c
  <2> HIDE DEF hs
  <2>1. s.list = list
    OBVIOUS
  <2>2. ToSet(list) = hs
    BY DEF hs
  <2> QED
    BY <1>1, <1>2, <1>3, <1>4, <1>5, <2>1, <2>2 DEF Status, Conditions, Listed
<1> HIDE DEF s, hs
<1>8. /\ p \in [gen : Nat, spec : Specs, status : Status]
      /\ p.gen = o.gen /\ p.spec = o.spec /\ p.status = s
  BY <1>1, <1>7
<1> HIDE DEF p
<1>9. Fits(p.status, p.gen, p.spec)
  BY <1>1, <1>2, <1>7, <1>8 DEF Fits
<1>10. Finding(s) \in AdmissibleFor(o.spec)
  BY <1>2, <1>5, <1>7 DEF Finding, AdmissibleFor
<1>11. Completes(o, s)
  BY <1>4, <1>7, <1>10 DEF Completes, Says
<1> QED
  BY <1>2, <1>6, <1>7, <1>8, <1>9, <1>11, SoundType

LEMMA EventsType ==
    ASSUME NEW hs, IsFiniteSet(hs)
    PROVE  HealthEvents(hs) \in SUBSET Event
BY CountsAreNat DEF HealthEvents, Event

-----------------------------------------------------------------------------
LEMMA InitDegradation == Init => DegradationInv
<1> SUFFICES ASSUME Init
             PROVE  DegradationInv
  OBVIOUS
<1>1. RuntimeInv(SoundMonitors, Status, Moves)
  BY RuntimeInitOK DEF Init
<1> QED
  BY <1>1 DEF Init, RuntimeInit, DegradationInv, Phases

\* What a step does to the store.
StoreStep ==
    \/ Moved(Moves)
    \/ \E m \in Monitors :
          \/ \E s \in Specs : CreateMonitor(m, s, NoStatus) \/ UpdateSpec(m, s)
          \/ DeleteMonitor(m)

LEMMA ReconcileDegradation ==
    ASSUME DegradationInv, Reconcile
    PROVE  DegradationInv' /\ Moved(Moves)
<1> DEFINE Sound == SoundMonitors
<1>1. /\ RuntimeInv(Sound, Status, Moves) /\ Closed(Sound, Status, Moves)
      /\ pc \in Phases
      /\ ocache \in [Operators -> OperatorStatuses \cup {Nil}]
      /\ now \in Nat
  BY SoundIsClosed DEF DegradationInv, RuntimeInv, CountersOK
<1>2. UNCHANGED clusterVars /\ CountersOK'
  BY <1>1
  DEF Reconcile, GetFails, MonitorGone, ReconcileSuspended, ReconcileActive, PutSuspended,
      ListFails, Correlate, PutListFailed, PutReport, StatusUpdated, StatusUpdateFailed,
      Fault, boundVars, RuntimeInv, CountersOK
<1>3. /\ pc # "idle" => key \in Monitors
      /\ pc \notin {"idle", "get"} => obj \in Sound
      /\ \A m \in Monitors : mcache[m] # Nil => mcache[m] \in Sound
  BY <1>1 DEF RuntimeInv, WorkerOK, StoreOK, Versions
<1>4. ASSUME RuntimeInv(Sound, Status, Moves)', pc' \in Phases, emitted' \in SUBSET Event,
             pc' = "putReport" => Told(obj.status)'
      PROVE  DegradationInv'
  BY <1>2, <1>4 DEF DegradationInv, clusterVars
<1>5. emitted \in SUBSET Event /\ {} \in SUBSET Event
  BY DEF DegradationInv
<1>6. CASE GetFails \/ MonitorGone \/ PutSuspended \/ PutListFailed \/ PutReport
  <2>1. Ends
    BY <1>6
    DEF Ends, GetFails, MonitorGone, PutSuspended, PutListFailed, PutReport, PutPhases
  <2>2. RuntimeInv(Sound, Status, Moves)' /\ Moved(Moves)
    BY <1>1, <1>2, <2>1, EndsKeeps, NilAssumption
  <2>3. pc' = "idle" /\ (emitted' = emitted \/ emitted' = {})
    BY <1>6
    DEF GetFails, MonitorGone, PutSuspended, PutListFailed, PutReport, Finished,
        FinishedRequeue, WorkerFree
  <2> QED
    BY <1>4, <1>5, <2>2, <2>3 DEF Phases
<1>7. CASE ReconcileSuspended \/ ReconcileActive
  <2>1. /\ pc = "get" /\ mcache[key] # Nil /\ key \in Monitors
        /\ mcache[key] \in Sound
        /\ fresh' = (mwatch[key] = <<>>)
        /\ UNCHANGED <<api, mwatch, late, mcache, queue, key, emitted>>
        /\ \/ /\ obj' = NotReady(mcache[key], "Suspended")
              /\ pc' = "putSuspended" /\ mcache[key].spec.suspend
           \/ obj' = mcache[key] /\ pc' = "list"
    BY <1>3, <1>7 DEF ReconcileSuspended, ReconcileActive, CopyFromCache, storeVars
  <2>2. Begins(Moves)
    <3>1. CASE pc' = "list"
      BY <1>7, <2>1, <3>1 DEF Begins, PutPhases, ReconcileSuspended, ReconcileActive
    <3>2. CASE pc' = "putSuspended"
      <4>1. /\ obj' = NotReady(mcache[key], "Suspended") /\ mcache[key].spec.suspend
            /\ "Suspended" \in Reason
        BY <2>1, <3>2 DEF Reason
      <4>2. /\ obj' \in Sound
            /\ obj'.gen = mcache[key].gen /\ obj'.spec = mcache[key].spec
            /\ KeepsReport(mcache[key], obj'.status)
            /\ Says(mcache[key], obj'.status, FALSE, "Suspended")
        BY <2>1, <4>1, NotReadySound
      <4>3. <<mcache[key], obj'>> \in Moves
        BY <2>1, <4>1, <4>2, MoveType DEF MayBecome, MayFollow
      <4> QED
        BY <2>1, <3>2, <4>1, <4>2, <4>3 DEF Begins, PutPhases
    <3> QED
      BY <2>1, <3>1, <3>2
  <2>3. RuntimeInv(Sound, Status, Moves)'
    BY <1>1, <1>2, <2>2, BeginsKeeps
  <2> QED
    BY <1>4, <1>5, <2>1, <2>3 DEF Phases, Moved
<1>8. CASE ListFails \/ Correlate
  <2>1. /\ pc = "list" /\ obj \in Sound /\ ~obj.spec.suspend
        /\ UNCHANGED <<api, mwatch, late, mcache, queue, key, fresh>>
        /\ pc' \in {"putListFailed", "putReport"}
    BY <1>1, <1>3, <1>8
    DEF ListFails, Correlate, storeVars, RuntimeInv, Suspension, PutPhases
  <2>2. /\ <<obj, obj'>> \in Moves
        /\ emitted' \in SUBSET Event
        /\ pc' = "putReport" => Told(obj.status)'
    <3>1. CASE ListFails
      <4>1. /\ obj' = NotReady(obj, "ListFailed") /\ "ListFailed" \in Reason
            /\ emitted' = emitted /\ pc' = "putListFailed"
        BY <3>1 DEF ListFails, Reason
      <4>2. /\ obj' \in Sound /\ obj'.gen = obj.gen /\ obj'.spec = obj.spec
            /\ KeepsReport(obj, obj'.status)
            /\ Says(obj, obj'.status, FALSE, "ListFailed")
        BY <2>1, <4>1, NotReadySound
      <4> QED
        BY <1>5, <2>1, <4>1, <4>2, MoveType DEF MayBecome, MayFollow
    <3>2. CASE Correlate
      <4> DEFINE hs == HealthsOf(obj.spec, ocache)
      <4>1. PICK list \in SetToSeqs(hs) : obj' = Report(obj, list)
        BY <3>2 DEF Correlate
      <4>2. obj.spec \in Specs
        BY <2>1, SoundType
      <4>3. /\ emitted' = HealthEvents(hs) /\ emitted' \in SUBSET Event
            /\ DegradedCount(hs) \in Nat /\ UnavailableCount(hs) \in Nat
        BY <1>1, <3>2, <4>2, HealthsFacts, EventsType, CountsAreNat DEF Correlate
      <4>4. /\ obj' \in Sound /\ obj'.gen = obj.gen /\ obj'.spec = obj.spec
            /\ Completes(obj, obj'.status)
            /\ obj'.status.degraded = DegradedCount(hs)
            /\ obj'.status.unavailable = UnavailableCount(hs)
        BY <1>1, <2>1, <4>1, ReportSound
      <4> HIDE DEF hs
      <4>5. Told(obj.status)'
        BY <4>3, <4>4 DEF Told, HealthEvents
      <4> QED
        BY <2>1, <4>3, <4>4, <4>5, MoveType DEF MayBecome, MayFollow
    <3> QED
      BY <1>8, <3>1, <3>2
  <2>3. RuntimeInv(Sound, Status, Moves)'
    BY <1>1, <1>2, <2>1, <2>2, GoesOnKeeps DEF GoesOn, PutPhases
  <2> QED
    BY <1>4, <2>1, <2>2, <2>3 DEF Phases, Moved
<1> QED
  BY <1>6, <1>7, <1>8 DEF Reconcile

LEMMA NextDegradation ==
    ASSUME DegradationInv, [Next]_vars
    PROVE  DegradationInv' /\ StoreStep
<1> DEFINE Sound == SoundMonitors
<1>1. /\ RuntimeInv(Sound, Status, Moves) /\ Closed(Sound, Status, Moves)
      /\ CountersOK
      /\ \A s \in Specs : [gen |-> 1, spec |-> s, status |-> NoStatus] \in Sound
  BY SoundIsClosed, NewIsSound DEF DegradationInv, RuntimeInv
<1>2. ASSUME NEW m \in Monitors, RuntimeStep(m)
      PROVE  DegradationInv' /\ StoreStep
  <2>1. RuntimeInv(Sound, Status, Moves)'
    BY <1>1, <1>2, EditKeeps, DeliverKeeps, FireTimerKeeps, DequeueKeeps, NilAssumption
    DEF RuntimeStep
  <2>2. obj' = obj /\ (pc' = pc \/ pc' = "get") /\ emitted' = emitted
    BY <1>2
    DEF RuntimeStep, CreateMonitor, UpdateSpec, DeleteMonitor, UserWrite, DeliverMonitor,
        FireTimer, Dequeue, workerVars
  <2>3. StoreStep
    BY <1>2
    DEF RuntimeStep, StoreStep, Moved, DeliverMonitor, FireTimer, Dequeue, storeVars
  <2> QED
    BY <1>2, <2>1, <2>2, <2>3 DEF RuntimeStep, DegradationInv, clusterVars, Phases, Told
<1>3. ASSUME NEW c \in Operators, NEW o \in OperatorStatuses \cup {Nil}, ChangeOperator(c, o)
      PROVE  DegradationInv' /\ StoreStep
  <2>1. /\ UNCHANGED <<api, mwatch, late, mcache, queue, pc, key, obj, fresh>>
        /\ CountersOK'
    BY <1>1, <1>3 DEF ChangeOperator, storeVars, workerVars, CountersOK
  <2>2. RuntimeInv(Sound, Status, Moves)'
    BY <1>1, <2>1, QueueKeeps
  <2>3. Append(owatch[c], o) \in Seq(OperatorStatuses \cup {Nil})
    BY DEF DegradationInv
  <2> QED
    BY <1>3, <2>1, <2>2, <2>3
    DEF ChangeOperator, DegradationInv, Told, StoreStep, Moved
<1>4. ASSUME NEW c \in Operators, DeliverOperator(c)
      PROVE  DegradationInv' /\ StoreStep
  <2>1. /\ UNCHANGED <<api, mwatch, late, mcache, pc, key, obj, fresh>>
        /\ queue' = Enqueue(mapClusterOperatorToMonitor(c)) \/ UNCHANGED queue
        /\ CountersOK'
    BY <1>1, <1>4 DEF DeliverOperator, storeVars, workerVars, CountersOK, Fault
  <2>2. RuntimeInv(Sound, Status, Moves)'
    BY <1>1, <2>1, QueueKeeps
  <2>3. /\ owatch[c] \in Seq(OperatorStatuses \cup {Nil}) /\ owatch[c] # <<>>
    BY <1>4 DEF DegradationInv, DeliverOperator
  <2>4. /\ Head(owatch[c]) \in OperatorStatuses \cup {Nil}
        /\ Tail(owatch[c]) \in Seq(OperatorStatuses \cup {Nil})
    BY <2>3
  <2> QED
    BY <1>4, <2>1, <2>2, <2>4
    DEF DeliverOperator, DegradationInv, Told, StoreStep, Moved
<1>5. CASE Clock \/ \E u \in late : Arrival(u)
  <2>1. RuntimeInv(Sound, Status, Moves)' /\ Moved(Moves)
    BY <1>1, <1>5, TickKeeps, LateKeeps DEF Clock, Arrival, Tick, Moved, storeVars
  <2>2. UNCHANGED <<pc, obj, clusterVars, emitted>>
    BY <1>5 DEF Clock, Arrival, Tick, LateUpdate, workerVars
  <2> QED
    BY <2>1, <2>2 DEF DegradationInv, clusterVars, Told, StoreStep
<1>6. CASE Restart
  <2>1. RuntimeInv(Sound, Status, Moves)'
    BY <1>1, <1>6, RestartKeeps DEF Restart
  <2>2. pc' \in Phases /\ pc' = "idle" /\ api' = api
    BY <1>6 DEF Restart, RestartRuntime, WorkerFree, Phases
  <2>3. <<>> \in Seq(OperatorStatuses \cup {Nil})
    OBVIOUS
  <2> QED
    BY <1>6, <2>1, <2>2, <2>3 DEF Restart, DegradationInv, StoreStep, Moved
<1>7. CASE UNCHANGED vars
  <2>1. /\ UNCHANGED <<api, mwatch, late, mcache, queue, pc, key, obj, fresh>>
        /\ CountersOK'
    BY <1>1, <1>7 DEF vars, runtimeVars, CountersOK
  <2>2. RuntimeInv(Sound, Status, Moves)'
    BY <1>1, <2>1, QueueKeeps
  <2> QED
    BY <1>7, <2>1, <2>2 DEF vars, DegradationInv, Told, StoreStep, Moved
<1>8. CASE Reconcile
  BY <1>8, ReconcileDegradation DEF StoreStep
<1> QED
  BY <1>2, <1>3, <1>4, <1>5, <1>6, <1>7, <1>8 DEF Next

LEMMA DegradationInvariant == Spec => []DegradationInv
BY InitDegradation, NextDegradation, PTL DEF Spec

-----------------------------------------------------------------------------
\* The variables keep their types, and the worker has a key and a copy of the
\* monitor wherever Reconcile uses them (lines 62-260).
THEOREM DegradationTypeCorrect == Spec => []TypeOK
<1>1. DegradationInv => TypeOK
  <2> SUFFICES ASSUME DegradationInv
               PROVE  TypeOK
    OBVIOUS
  <2>1. Versions(SoundMonitors) \subseteq Version
    BY DEF Versions, Version, SoundMonitors
  <2>2. Seq(Versions(SoundMonitors)) \subseteq Seq(Version)
    <3> DEFINE V == Versions(SoundMonitors)
    <3> HIDE DEF V
    <3>1. V \subseteq Version
      BY <2>1 DEF V
    <3>2. Seq(V) \subseteq Seq(Version)
      BY <3>1
    <3> QED
      BY <3>2 DEF V
  <2>3. /\ api \in [Monitors -> Version]
        /\ mwatch \in [Monitors -> Seq(Version)]
        /\ mcache \in [Monitors -> Version]
    BY <2>1, <2>2 DEF DegradationInv, RuntimeInv, StoreOK
  <2> QED
    BY <2>1, <2>3 DEF DegradationInv, RuntimeInv, LateOK, WorkerOK, CountersOK, TypeOK
<1> QED
  BY <1>1, DegradationInvariant, PTL

\* No wakeup of an active monitor is lost: every return of Reconcile requeues,
\* but the two for a monitor that is gone or has been told of its suspension
\* (lines 66-103 and 249-259).
THEOREM DegradationNothingLost == Spec => []ActiveIsScheduled
<1>1. DegradationInv => ActiveIsScheduled
  BY DEF DegradationInv, RuntimeInv, LiveIsScheduled, Live, ActiveIsScheduled, Active
<1> QED
  BY <1>1, DegradationInvariant, PTL

\* A verdict is never stored for a spec it was not made for, though the spec may
\* change, and the monitor be deleted and created again, while it is being made
\* or while its update is on the way (lines 88-103 and 166-247).
THEOREM VerdictsFit == Spec => []VerdictFitsSpec
<1>1. DegradationInv => VerdictFitsSpec
  <2> SUFFICES ASSUME DegradationInv, NEW m \in Monitors, api[m] # Nil
               PROVE  Fits(api[m].status, api[m].gen, api[m].spec)
    BY DEF VerdictFitsSpec, Fits
  <2>1. api[m] \in SoundMonitors
    BY DEF DegradationInv, RuntimeInv, StoreOK, Versions
  <2> QED
    BY <2>1 DEF SoundMonitors
<1> QED
  BY <1>1, DegradationInvariant, PTL

\* When the number of degraded or of unavailable operators in a status changes, the
\* event with the new number came first, in this reconcile (lines 185-193).
THEOREM TroubleAnnounced == Spec => TroubleIsAnnounced
<1>1. ASSUME DegradationInv, [Next]_vars
      PROVE  [\A m \in Monitors :
                api[m] # Nil /\ api'[m] # Nil /\ pc = "putReport" /\ pc' = "idle" =>
                  /\ api'[m].status.degraded \notin {0, api[m].status.degraded} =>
                        [reason |-> "ClusterDegraded",
                         count |-> api'[m].status.degraded] \in emitted
                  /\ api'[m].status.unavailable \notin {0, api[m].status.unavailable} =>
                        [reason |-> "ClusterUnavailable",
                         count |-> api'[m].status.unavailable] \in emitted]_api
  <2> SUFFICES ASSUME NEW m \in Monitors, api[m] # Nil, api'[m] # Nil,
                      pc = "putReport", pc' = "idle", api' # api
               PROVE  /\ api'[m].status.degraded \notin {0, api[m].status.degraded} =>
                           [reason |-> "ClusterDegraded",
                            count |-> api'[m].status.degraded] \in emitted
                      /\ api'[m].status.unavailable \notin {0, api[m].status.unavailable} =>
                           [reason |-> "ClusterUnavailable",
                            count |-> api'[m].status.unavailable] \in emitted
    OBVIOUS
  <2>1. PutReport
    BY <1>1
    DEF Next, RuntimeStep, CreateMonitor, UpdateSpec, DeleteMonitor, UserWrite,
        DeliverMonitor, FireTimer, Dequeue, ChangeOperator, DeliverOperator, Clock, Tick,
        Arrival, LateUpdate, Restart, RestartRuntime, vars, runtimeVars, Reconcile,
        GetFails, MonitorGone, ReconcileSuspended, ReconcileActive, PutSuspended,
        ListFails, Correlate, PutListFailed, workerVars, storeVars
  <2>2. key \in Monitors /\ api \in [Monitors -> Versions(SoundMonitors)]
    BY <1>1 DEF DegradationInv, RuntimeInv, WorkerOK, StoreOK
  <2>3. api' = [api EXCEPT ![key] = [api[key] EXCEPT !.status = obj.status]]
    BY <2>1
    DEF PutReport, StatusUpdated, StatusUpdateFailed, WriteStatus, Write, storeVars
  <2>4. CASE m # key
    BY <2>2, <2>3, <2>4
  <2>5. CASE m = key
    <3>1. api[key] \in [gen : Nat, spec : Specs, status : Status]
      BY <2>2, <2>5, SoundType DEF Versions
    <3>2. api'[m].status = obj.status
      BY <2>2, <2>3, <2>5, <3>1
    <3>3. Told(obj.status)
      BY <1>1 DEF DegradationInv
    <3>4. obj.status.degraded \in Nat /\ obj.status.unavailable \in Nat
      <4>1. obj \in SoundMonitors
        BY <1>1 DEF DegradationInv, RuntimeInv, WorkerOK, Versions
      <4> QED
        BY <4>1, SoundType DEF Status
    <3> QED
      BY <3>2, <3>3, <3>4 DEF Told
  <2> QED
    BY <2>4, <2>5
<1> QED
  BY <1>1, DegradationInvariant, PTL DEF Spec, TroubleIsAnnounced

-----------------------------------------------------------------------------
(***************************************************************************)
(* Why the report of a settled monitor is accurate.  A monitor whose       *)
(* report may be out of date has news on the way: a watch event of its     *)
(* own, one of an operator it looks at, or a place in the queue.  While it *)
(* is being checked the same holds of the report the worker has made.      *)
(***************************************************************************)
NewsOf(m) ==
    \/ queue[m] = "ready"
    \/ mwatch[m] # <<>>
    \/ \E c \in Operators : owatch[c] # <<>> /\ InFilter(api[m].spec, c)

Reflects(status, m) ==
    /\ status.obsGen = api[m].gen
    /\ Listed(status) = HealthsOf(api[m].spec, operators)

UpToDate(m) ==
    IF key = m THEN pc = "putReport" => Reflects(obj.status, m)
               ELSE Reflects(api[m].status, m)

\* The watch of an operator ends with what it is, and a cache with nothing on the
\* way holds it.
OperatorsCatchUp ==
    \A c \in Operators :
        IF owatch[c] = <<>> THEN ocache[c] = operators[c]
                            ELSE owatch[c][Len(owatch[c])] = operators[c]

\* A copy that was overtaken by a write will be read again.
CopyIsFresh ==
    pc \notin {"idle", "get"} /\ queue[key] # "ready" /\ mwatch[key] = <<>> => fresh

NothingMissed ==
    faults = 0 =>
        /\ pc # "putListFailed"
        /\ \A m \in Monitors : Active(m) => NewsOf(m) \/ UpToDate(m)

AccuracyInv ==
    /\ DegradationInv
    /\ OperatorsCatchUp
    /\ CopyIsFresh
    /\ NothingMissed

\* Operators outside the filter do not show in the healths.
LEMMA HealthsAgree ==
    ASSUME NEW spec, NEW world, NEW cached,
           \A c \in Operators : InFilter(spec, c) => world[c] = cached[c]
    PROVE  HealthsOf(spec, world) = HealthsOf(spec, cached)
<1>1. {d \in Operators : world[d] # Nil /\ InFilter(spec, d)}
         = {d \in Operators : cached[d] # Nil /\ InFilter(spec, d)}
  OBVIOUS
<1>2. \A c \in Operators : InFilter(spec, c) => HealthOf(c, world) = HealthOf(c, cached)
  BY DEF HealthOf
<1> QED
  BY <1>1, <1>2 DEF HealthsOf

\* What is last stays last while a watch is read.
LEMMA LastStaysLast ==
    ASSUME NEW S, NEW s \in Seq(S), s # <<>>
    PROVE  IF Tail(s) = <<>> THEN Head(s) = s[Len(s)]
                             ELSE Tail(s)[Len(Tail(s))] = s[Len(s)]
<1>1. /\ Tail(s) \in Seq(S)
      /\ Len(Tail(s)) = Len(s) - 1 /\ Len(s) \in Nat
      /\ \A t \in Seq(S) : t = <<>> => Len(t) = 0
  OBVIOUS
<1>2. CASE Tail(s) = <<>>
  <2>1. Len(s) = 1
    BY <1>1, <1>2
  <2> QED
    BY <1>2, <2>1
<1>3. CASE Tail(s) # <<>>
  BY <1>3
<1> QED
  BY <1>2, <1>3

LEMMA CatchUpKept ==
    ASSUME DegradationInv, OperatorsCatchUp, [Next]_vars
    PROVE  OperatorsCatchUp'
<1> DEFINE O == OperatorStatuses \cup {Nil}
<1>1. /\ operators \in [Operators -> O] /\ ocache \in [Operators -> O]
      /\ owatch \in [Operators -> Seq(O)]
  BY DEF DegradationInv
<1>2. ASSUME NEW c \in Operators, NEW o \in O, ChangeOperator(c, o)
      PROVE  OperatorsCatchUp'
  <2>1. /\ operators' = [operators EXCEPT ![c] = o]
        /\ owatch' = [owatch EXCEPT ![c] = Append(owatch[c], o)]
        /\ ocache' = ocache
    BY <1>2 DEF ChangeOperator
  <2>2. /\ owatch[c] \in Seq(O)
        /\ Append(owatch[c], o) # <<>>
        /\ Append(owatch[c], o)[Len(Append(owatch[c], o))] = o
    <3> HIDE DEF O
    <3>1. owatch[c] \in Seq(O)
      BY <1>1
    <3> QED
      BY <3>1
  <2>3. owatch'[c] = Append(owatch[c], o) /\ operators'[c] = o
    BY <1>1, <2>1
  <2>4. \A d \in Operators \ {c} : owatch'[d] = owatch[d] /\ operators'[d] = operators[d]
    BY <1>1, <2>1
  <2> QED
    BY <2>1, <2>2, <2>3, <2>4 DEF OperatorsCatchUp
<1>3. ASSUME NEW c \in Operators, DeliverOperator(c)
      PROVE  OperatorsCatchUp'
  <2>1. /\ owatch[c] # <<>> /\ owatch[c] \in Seq(O)
        /\ operators' = operators
        /\ ocache' = [ocache EXCEPT ![c] = Head(owatch[c])]
        /\ owatch' = [owatch EXCEPT ![c] = Tail(owatch[c])]
    BY <1>1, <1>3 DEF DeliverOperator
  <2>2. owatch[c][Len(owatch[c])] = operators[c]
    BY <2>1 DEF OperatorsCatchUp
  <2>3. IF Tail(owatch[c]) = <<>> THEN Head(owatch[c]) = operators[c]
                                  ELSE Tail(owatch[c])[Len(Tail(owatch[c]))] = operators[c]
    BY <2>1, <2>2, LastStaysLast
  <2> QED
    BY <1>1, <2>1, <2>3 DEF OperatorsCatchUp
<1>4. CASE Restart
  BY <1>1, <1>4 DEF Restart, OperatorsCatchUp
<1>5. CASE UNCHANGED clusterVars
  BY <1>5 DEF clusterVars, OperatorsCatchUp
<1>6. CASE Reconcile
  <2>1. UNCHANGED clusterVars
    BY <1>6
    DEF Reconcile, GetFails, MonitorGone, ReconcileSuspended, ReconcileActive, PutSuspended,
        ListFails, Correlate, PutListFailed, PutReport
  <2> QED
    BY <1>5, <2>1
<1> QED
  BY <1>2, <1>3, <1>4, <1>5, <1>6 DEF Next, RuntimeStep, Clock, Arrival, vars, clusterVars

\* What the steps of the others than the worker do to a monitor that the user
\* does not touch: at most an abandoned update is written, which shows on the watch.
LEMMA OthersFacts ==
    ASSUME DegradationInv, NEW m \in Monitors,
           \/ \E n \in Monitors : RuntimeStep(n)
           \/ Clock
           \/ \E u \in late : Arrival(u)
    PROVE  /\ operators' = operators /\ ocache' = ocache /\ owatch' = owatch /\ obj' = obj
           /\ mwatch'[m] = <<>> =>
                 \/ queue'[m] = "ready"
                 \/ mwatch[m] = <<>> /\ api'[m] = api[m] /\ (m = key /\ fresh => fresh')
           /\ queue[m] = "ready" =>
                 queue'[m] = "ready" \/ (pc = "idle" /\ pc' = "get" /\ key' = m)
           /\ \/ pc' = pc /\ key' = key
              \/ pc = "idle" /\ pc' = "get" /\ key = Nil
           /\ faults' = faults
<1> DEFINE Sound == SoundMonitors
           Still == /\ pc' = pc /\ key' = key /\ queue' = queue /\ faults' = faults
                    /\ mwatch'[m] = <<>> =>
                          mwatch[m] = <<>> /\ api'[m] = api[m] /\ (m = key /\ fresh => fresh')
<1>1. /\ RuntimeInv(Sound, Status, Moves) /\ Closed(Sound, Status, Moves)
      /\ mwatch \in [Monitors -> Seq(Versions(Sound))]
      /\ api \in [Monitors -> Versions(Sound)]
      /\ mcache \in [Monitors -> Versions(Sound)]
      /\ queue \in [Monitors -> QueueState]
      /\ (pc = "idle") <=> (key = Nil)
  BY SoundIsClosed DEF DegradationInv, RuntimeInv, StoreOK, WorkerOK
<1>2. operators' = operators /\ ocache' = ocache /\ owatch' = owatch /\ obj' = obj
  BY DEF RuntimeStep, CreateMonitor, UpdateSpec, DeleteMonitor, UserWrite, DeliverMonitor,
         FireTimer, Dequeue, Clock, Tick, Arrival, LateUpdate, workerVars, clusterVars
<1>3. ASSUME NEW n \in Monitors, NEW o, Write(n, o)
      PROVE  /\ mwatch'[n] # <<>>
             /\ n # m => mwatch'[m] = mwatch[m] /\ api'[m] = api[m]
  <2>1. mwatch'[n] = Append(mwatch[n], o) /\ mwatch[n] \in Seq(Versions(Sound))
    BY <1>1, <1>3 DEF Write
  <2>2. Append(mwatch[n], o) # <<>>
    BY <2>1
  <2> QED
    BY <1>1, <1>3, <2>1, <2>2 DEF Write
<1>4. ASSUME NEW n \in Monitors, NEW o, UserWrite(n, o)
      PROVE  Still
  <2>1. fresh /\ n # key => fresh'
    BY <1>4 DEF UserWrite
  <2> QED
    BY <1>3, <1>4, <2>1 DEF UserWrite
<1>5. ASSUME NEW u \in late, LateUpdate(u)
      PROVE  Still
  <2>1. u.key \in Monitors
    BY <1>1 DEF RuntimeInv, LateOK, LateUpdates
  <2>2. CASE UNCHANGED <<api, mwatch, fresh>>
    BY <1>5, <2>2 DEF LateUpdate, boundVars
  <2>3. CASE /\ Write(u.key, [api[u.key] EXCEPT !.status = u.status])
             /\ fresh' = (fresh /\ u.key # key)
    <3>1. fresh /\ u.key # key => fresh'
      BY <2>3
    <3> QED
      BY <1>3, <1>5, <2>1, <2>3, <3>1 DEF LateUpdate, boundVars
  <2> QED
    BY <1>5, <2>2, <2>3 DEF LateUpdate
<1>6. Clock => Still
  BY DEF Clock, Tick, storeVars, workerVars
<1>7. ASSUME NEW n \in Monitors, DeliverMonitor(n) \/ FireTimer(n)
      PROVE  /\ pc' = pc /\ key' = key /\ fresh' = fresh /\ api' = api /\ faults' = faults
             /\ queue[m] = "ready" => queue'[m] = "ready"
             /\ mwatch'[m] = mwatch[m] \/ queue'[m] = "ready"
  BY <1>1, <1>7
  DEF DeliverMonitor, FireTimer, Enqueue, workerVars, storeVars, boundVars
<1>8. ASSUME NEW n \in Monitors, Dequeue(n)
      PROVE  /\ api' = api /\ mwatch' = mwatch /\ fresh' = fresh /\ faults' = faults
             /\ pc = "idle" /\ pc' = "get" /\ key = Nil /\ key' = n
             /\ n # m => queue'[m] = queue[m]
  BY <1>1, <1>8 DEF Dequeue, storeVars, boundVars
<1> HIDE DEF Still
<1>9. CASE Still
  BY <1>2, <1>9 DEF Still
<1>10. CASE \E n \in Monitors : RuntimeStep(n)
  BY <1>2, <1>4, <1>7, <1>8, <1>9, <1>10
  DEF RuntimeStep, CreateMonitor, UpdateSpec, DeleteMonitor
<1>11. CASE \E u \in late : Arrival(u)
  BY <1>5, <1>9, <1>11 DEF Arrival
<1> QED
  BY <1>6, <1>9, <1>10, <1>11

\* What a step of the worker does: other monitors it leaves alone, and its own it
\* changes only by a write, which shows on the watch.
LEMMA WorkerFacts ==
    ASSUME DegradationInv, Reconcile
    PROVE  /\ key \in Monitors /\ pc # "idle"
           /\ operators' = operators /\ ocache' = ocache /\ owatch' = owatch
           /\ key' = key \/ (key' = Nil /\ pc' = "idle")
           /\ \A m \in Monitors \ {key} :
                 api'[m] = api[m] /\ mwatch'[m] = mwatch[m] /\ queue'[m] = queue[m]
           /\ queue[key] = "ready" => queue'[key] = "ready"
           /\ mwatch[key] # <<>> => mwatch'[key] # <<>>
           /\ mwatch'[key] = <<>> => api'[key] = api[key]
<1> DEFINE Sound == SoundMonitors
<1>1. /\ RuntimeInv(Sound, Status, Moves) /\ Closed(Sound, Status, Moves)
      /\ queue \in [Monitors -> QueueState]
      /\ pc # "idle" => key \in Monitors
  BY SoundIsClosed DEF DegradationInv, RuntimeInv, WorkerOK
<1>2. /\ pc # "idle"
      /\ operators' = operators /\ ocache' = ocache /\ owatch' = owatch
  BY DEF Reconcile, GetFails, MonitorGone, ReconcileSuspended, ReconcileActive, PutSuspended,
         ListFails, Correlate, PutListFailed, PutReport, clusterVars
<1>3. CASE GetFails \/ MonitorGone \/ PutSuspended \/ PutListFailed \/ PutReport
  <2>1. /\ key' = Nil /\ pc' = "idle"
        /\ queue' = queue \/ queue' = EnqueueAfter(key)
    BY <1>3
    DEF GetFails, MonitorGone, PutSuspended, PutListFailed, PutReport, Finished,
        FinishedRequeue, WorkerFree
  <2>2. /\ \A m \in Monitors \ {key} : queue'[m] = queue[m]
        /\ queue[key] = "ready" => queue'[key] = "ready"
    BY <1>1, <1>2, <2>1 DEF EnqueueAfter
  <2>3. CASE api' = api /\ mwatch' = mwatch
    BY <1>1, <1>2, <2>1, <2>2, <2>3
  <2>4. CASE PutSuspended \/ PutListFailed \/ PutReport
    <3>1. /\ pc \in PutPhases /\ mcache' = mcache
          /\ StatusUpdated \/ StatusUpdateFailed
      BY <2>4 DEF PutSuspended, PutListFailed, PutReport, PutPhases
    <3>2. \A m \in Monitors \ {key} : api'[m] = api[m] /\ mwatch'[m] = mwatch[m]
      BY <1>1, <3>1, CallFacts
    <3>3. /\ mwatch[key] # <<>> => mwatch'[key] # <<>>
          /\ mwatch'[key] = <<>> => api'[key] = api[key]
      BY <1>1, <3>1, CallShows
    <3> QED
      BY <1>1, <1>2, <2>1, <2>2, <3>2, <3>3
  <2> QED
    BY <1>3, <2>3, <2>4 DEF GetFails, MonitorGone, storeVars
<1>4. CASE ReconcileSuspended \/ ReconcileActive \/ ListFails \/ Correlate
  <2>1. api' = api /\ mwatch' = mwatch /\ queue' = queue /\ key' = key
    BY <1>4 DEF ReconcileSuspended, ReconcileActive, ListFails, Correlate, storeVars
  <2> QED
    BY <1>1, <1>2, <2>1
<1> QED
  BY <1>3, <1>4 DEF Reconcile

LEMMA CopyStaysFresh ==
    ASSUME DegradationInv, CopyIsFresh, [Next]_vars
    PROVE  CopyIsFresh'
<1>1. /\ pc # "idle" => key \in Monitors
      /\ (pc = "idle") <=> (key = Nil)
  BY DEF DegradationInv, RuntimeInv, WorkerOK
<1>2. CASE \/ \E n \in Monitors : RuntimeStep(n)
           \/ Clock
           \/ \E u \in late : Arrival(u)
  <2>1. SUFFICES ASSUME pc' \notin {"idle", "get"}, queue'[key'] # "ready",
                        mwatch'[key'] = <<>>
                 PROVE  fresh'
    BY DEF CopyIsFresh
  <2>2. pc' = pc /\ key' = key /\ key \in Monitors
    BY <1>1, <1>2, <2>1
    DEF RuntimeStep, CreateMonitor, UpdateSpec, DeleteMonitor, UserWrite, DeliverMonitor,
        FireTimer, Dequeue, Clock, Tick, Arrival, LateUpdate, workerVars
  <2>3. mwatch[key] = <<>> /\ (fresh => fresh') /\ queue[key] # "ready"
    BY <1>2, <2>1, <2>2, OthersFacts
  <2> QED
    BY <2>1, <2>2, <2>3 DEF CopyIsFresh
<1>3. CASE Reconcile
  <2>1. CASE pc' = "idle"
    BY <2>1 DEF CopyIsFresh
  <2>2. CASE ReconcileSuspended \/ ReconcileActive
    BY <2>2 DEF ReconcileSuspended, ReconcileActive, CopyFromCache, CopyIsFresh, storeVars
  <2>3. CASE ListFails \/ Correlate
    <3>1. /\ pc \notin {"idle", "get"}
          /\ queue' = queue /\ key' = key /\ mwatch' = mwatch /\ fresh' = fresh
      BY <2>3 DEF ListFails, Correlate, storeVars
    <3> QED
      BY <3>1 DEF CopyIsFresh
  <2> QED
    BY <1>3, <2>1, <2>2, <2>3
    DEF Reconcile, GetFails, MonitorGone, PutSuspended, PutListFailed, PutReport,
        Finished, FinishedRequeue, WorkerFree
<1>4. CASE Restart
  BY <1>4 DEF Restart, RestartRuntime, WorkerFree, CopyIsFresh
<1>5. ASSUME NEW c \in Operators,
             \/ \E o \in OperatorStatuses \cup {Nil} : ChangeOperator(c, o)
             \/ DeliverOperator(c)
      PROVE  CopyIsFresh'
  <2>1. /\ pc' = pc /\ key' = key /\ fresh' = fresh /\ mwatch' = mwatch
        /\ \/ queue' = queue
           \/ queue' = Enqueue(mapClusterOperatorToMonitor(c))
    BY <1>5 DEF ChangeOperator, DeliverOperator, workerVars, storeVars
  <2>2. key \in Monitors /\ queue[key] = "ready" => queue'[key] = "ready"
    BY <2>1 DEF Enqueue
  <2> QED
    BY <1>1, <2>1, <2>2 DEF CopyIsFresh
<1>6. CASE UNCHANGED vars
  BY <1>6 DEF vars, runtimeVars, CopyIsFresh
<1> QED
  BY <1>2, <1>3, <1>4, <1>5, <1>6 DEF Next

\* The step of the worker on the monitor m, when no call fails.
LEMMA WorkerMissesNothing ==
    ASSUME AccuracyInv, Reconcile, faults' = 0, NEW m \in Monitors, m = key,
           Active(m)', Active(m) => NewsOf(m) \/ UpToDate(m), pc # "putListFailed"
    PROVE  NewsOf(m)' \/ UpToDate(m)'
<1> DEFINE Sound == SoundMonitors
<1>1. /\ RuntimeInv(Sound, Status, Moves) /\ Closed(Sound, Status, Moves)
      /\ faults = 0 /\ faults' = faults
      /\ ocache \in [Operators -> OperatorStatuses \cup {Nil}]
  <2>1. faults \in Nat
    BY DEF AccuracyInv, DegradationInv, RuntimeInv, CountersOK
  <2>2. faults' = faults \/ faults' = faults + 1
    BY DEF Reconcile, GetFails, MonitorGone, ReconcileSuspended, ReconcileActive,
           PutSuspended, ListFails, Correlate, PutListFailed, PutReport, StatusUpdated,
           StatusUpdateFailed, Fault, boundVars
  <2> QED
    BY <2>1, <2>2, SoundIsClosed DEF AccuracyInv, DegradationInv
<1>2. DegradationInv /\ CopyIsFresh /\ OperatorsCatchUp
  BY DEF AccuracyInv
<1> SUFFICES ASSUME ~NewsOf(m)'
             PROVE  UpToDate(m)'
  OBVIOUS
<1>3. /\ queue'[key] # "ready" /\ mwatch'[key] = <<>>
      /\ \A c \in Operators : InFilter(api'[key].spec, c) => owatch'[c] = <<>>
  BY DEF NewsOf
<1>4. /\ queue[key] # "ready" /\ mwatch[key] = <<>> /\ api'[key] = api[key]
      /\ operators' = operators
      /\ \A c \in Operators : InFilter(api[key].spec, c) => owatch[c] = <<>>
  BY <1>2, <1>3, WorkerFacts
<1>5. /\ Active(m) /\ ~NewsOf(m) /\ UpToDate(m)
      /\ api[key] # Nil /\ ~api[key].spec.suspend
      /\ mcache[key] = api[key]
  BY <1>1, <1>4 DEF Active, NewsOf, RuntimeInv, CatchesUp
<1>6. pc \notin {"idle", "get"} => fresh
  BY <1>2, <1>4 DEF CopyIsFresh
<1>7. CASE GetFails \/ ListFails
  BY <1>1, <1>7 DEF GetFails, ListFails, Fault
<1>8. CASE MonitorGone
  BY <1>5, <1>8 DEF MonitorGone
<1>9. CASE ReconcileSuspended \/ ReconcileActive
  <2>1. key' = key /\ pc' # "putReport"
    BY <1>9 DEF ReconcileSuspended, ReconcileActive
  <2> QED
    BY <2>1 DEF UpToDate
<1>10. CASE PutSuspended
  <2>1. <<api[key], obj>> \in Moves /\ obj.spec.suspend
    BY <1>1, <1>6, <1>10
    DEF PutSuspended, RuntimeInv, FreshIsStored, Suspension, PutPhases
  <2> QED
    BY <1>5, <2>1, MoveType DEF MayBecome
<1>11. CASE PutListFailed
  BY <1>11 DEF PutListFailed
<1>12. CASE Correlate
  <2>1. /\ obj = api[key] /\ key' = key
        /\ obj \in SoundMonitors
    BY <1>1, <1>5, <1>6, <1>12
    DEF Correlate, RuntimeInv, FreshIsStored, PutPhases, StoreOK, Versions
  <2> DEFINE hs == HealthsOf(obj.spec, ocache)
  <2>2. PICK list \in SetToSeqs(hs) : obj' = Report(obj, list)
    BY <1>12 DEF Correlate
  <2>3. obj.spec \in Specs
    BY <2>1, SoundType
  <2>4. IsFiniteSet(hs)
    BY <1>1, <2>3, HealthsFacts
  <2>5. hs = HealthsOf(api[key].spec, operators)
    <3>1. \A c \in Operators : InFilter(obj.spec, c) => ocache[c] = operators[c]
      BY <1>2, <1>4, <2>1 DEF OperatorsCatchUp
    <3> QED
      BY <2>1, <3>1, HealthsAgree
  <2>6. obj'.status.obsGen = api[key].gen /\ Listed(obj'.status) = ToSet(list)
    <3>1. now \in Nat
      BY <1>1 DEF RuntimeInv, CountersOK
    <3>2. Report(obj, list) \in SoundMonitors /\ Completes(obj, Report(obj, list).status)
      BY <1>1, <2>1, <2>2, <3>1, ReportSound
    <3>3. Report(obj, list).status.list = list
      <4>1. obj \in [gen : Nat, spec : Specs, status : Status]
        BY <2>1, SoundType
      <4> QED
        BY <4>1 DEF Report
    <3> QED
      BY <2>1, <2>2, <3>2, <3>3 DEF Completes, Listed
  <2>7. ToSet(list) = hs
    <3> HIDE DEF hs
    <3> QED
      BY <2>2, <2>4, SequenceOfSet
  <2> HIDE DEF hs
  <2>8. Reflects(obj.status, m)'
    BY <1>4, <2>5, <2>6, <2>7 DEF Reflects
  <2> QED
    BY <2>1, <2>8 DEF UpToDate
<1>13. CASE PutReport
  <2>1. /\ pc = "putReport" /\ key' = Nil
    BY <1>13 DEF PutReport, FinishedRequeue, WorkerFree
  <2>2. api[key].status = obj.status
    BY <1>1, <1>3, <1>5, <1>6, <1>13, CallShows DEF PutReport, PutPhases, Current
  <2>3. Reflects(api[m].status, m)
    BY <1>5, <2>1, <2>2 DEF UpToDate
  <2>4. Reflects(api[m].status, m)'
    BY <1>4, <2>3 DEF Reflects
  <2> QED
    BY <2>1, <2>4, NilAssumption DEF UpToDate
<1> QED
  BY <1>7, <1>8, <1>9, <1>10, <1>11, <1>12, <1>13 DEF Reconcile

\* Every other step, when no call fails.
LEMMA OthersMissNothing ==
    ASSUME AccuracyInv, [Next]_vars, ~Reconcile, faults' = 0, NEW m \in Monitors,
           Active(m)', faults = 0, Active(m) => NewsOf(m) \/ UpToDate(m)
    PROVE  NewsOf(m)' \/ UpToDate(m)'
<1>1. /\ DegradationInv /\ OperatorsCatchUp /\ CatchesUp
      /\ (pc = "idle") <=> (key = Nil)
      /\ owatch \in [Operators -> Seq(OperatorStatuses \cup {Nil})]
      /\ operators \in [Operators -> OperatorStatuses \cup {Nil}]
  BY DEF AccuracyInv, DegradationInv, RuntimeInv, WorkerOK
<1> SUFFICES ASSUME ~NewsOf(m)'
             PROVE  UpToDate(m)'
  OBVIOUS
<1>2. /\ queue'[m] # "ready" /\ mwatch'[m] = <<>>
      /\ \A c \in Operators : InFilter(api'[m].spec, c) => owatch'[c] = <<>>
  BY DEF NewsOf
<1>3. CASE \/ \E n \in Monitors : RuntimeStep(n)
           \/ Clock
           \/ \E u \in late : Arrival(u)
  <2>1. /\ operators' = operators /\ owatch' = owatch /\ obj' = obj
        /\ mwatch[m] = <<>> /\ api'[m] = api[m]
        /\ queue[m] = "ready" => pc' = "get" /\ key' = m
        /\ \/ pc' = pc /\ key' = key
           \/ pc = "idle" /\ pc' = "get" /\ key = Nil
    BY <1>1, <1>2, <1>3, OthersFacts
  <2>2. CASE pc' = "get" /\ key' = m
    BY <2>2 DEF UpToDate
  <2>3. CASE ~(pc' = "get" /\ key' = m)
    <3>1. ~NewsOf(m) /\ Active(m)
      BY <1>2, <2>1, <2>3 DEF NewsOf, Active
    <3>2. UpToDate(m)
      BY <3>1
    <3>3. (key' = m) => key = m /\ pc' = pc
      BY <2>1, <2>3
    <3>4. (key = m) => key' = m
      BY <1>1, <2>1, NilAssumption
    <3> QED
      BY <2>1, <3>2, <3>3, <3>4 DEF UpToDate, Reflects
  <2> QED
    BY <2>2, <2>3
<1>4. ASSUME NEW c \in Operators, NEW o \in OperatorStatuses \cup {Nil}, ChangeOperator(c, o)
      PROVE  UpToDate(m)'
  <2>1. /\ operators' = [operators EXCEPT ![c] = o]
        /\ owatch' = [owatch EXCEPT ![c] = Append(owatch[c], o)]
        /\ api' = api /\ mwatch' = mwatch /\ queue' = queue /\ key' = key /\ pc' = pc
        /\ obj' = obj
    BY <1>4 DEF ChangeOperator, storeVars, workerVars
  <2>2. owatch'[c] # <<>>
    <3> DEFINE O == OperatorStatuses \cup {Nil}
    <3>1. o \in O /\ owatch[c] \in Seq(O) /\ owatch'[c] = Append(owatch[c], o)
      BY <1>1, <2>1
    <3> HIDE DEF O
    <3> QED
      BY <3>1
  <2>3. \A d \in Operators \ {c} : owatch'[d] = owatch[d] /\ operators'[d] = operators[d]
    BY <1>1, <2>1
  <2>4. ~InFilter(api[m].spec, c)
    BY <1>2, <2>1, <2>2
  <2>5. ~NewsOf(m) /\ Active(m)
    BY <1>2, <2>1, <2>3, <2>4 DEF NewsOf, Active
  <2>6. HealthsOf(api[m].spec, operators') = HealthsOf(api[m].spec, operators)
    BY <2>3, <2>4, HealthsAgree
  <2> QED
    BY <2>1, <2>5, <2>6 DEF UpToDate, Reflects
<1>5. ASSUME NEW c \in Operators, DeliverOperator(c)
      PROVE  UpToDate(m)'
  <2>1. /\ operators' = operators
        /\ owatch' = [owatch EXCEPT ![c] = Tail(owatch[c])]
        /\ api' = api /\ mwatch' = mwatch /\ key' = key /\ pc' = pc /\ obj' = obj
        /\ queue' = Enqueue(mapClusterOperatorToMonitor(c))
    BY <1>5 DEF DeliverOperator, Fault, storeVars, workerVars
  <2>2. mcache[m] = api[m]
    BY <1>1, <1>2, <2>1 DEF CatchesUp
  <2>3. m \notin mapClusterOperatorToMonitor(c) /\ queue[m] # "ready"
    BY <1>2, <2>1 DEF Enqueue
  <2>4. ~InFilter(api[m].spec, c) /\ Active(m)
    BY <2>1, <2>2, <2>3 DEF mapClusterOperatorToMonitor, Active
  <2>5. \A d \in Operators \ {c} : owatch'[d] = owatch[d]
    BY <1>1, <2>1
  <2>6. ~NewsOf(m)
    BY <1>2, <2>1, <2>3, <2>4, <2>5 DEF NewsOf
  <2> QED
    BY <2>1, <2>4, <2>6 DEF UpToDate, Reflects
<1>6. CASE Restart
  <2>1. /\ api' = api
        /\ queue' = [n \in Monitors |-> IF api[n] = Nil THEN "none" ELSE "ready"]
    BY <1>6 DEF Restart, RestartRuntime
  <2> QED
    BY <1>2, <2>1 DEF Active
<1>7. CASE UNCHANGED vars
  <2>1. /\ operators' = operators /\ owatch' = owatch
        /\ api' = api /\ mwatch' = mwatch /\ key' = key /\ pc' = pc /\ obj' = obj
        /\ queue' = queue
    BY <1>7 DEF vars, runtimeVars
  <2> QED
    BY <1>2, <2>1 DEF UpToDate, Reflects, NewsOf, Active
<1> QED
  BY <1>3, <1>4, <1>5, <1>6, <1>7 DEF Next

LEMMA NothingMissedKept ==
    ASSUME AccuracyInv, [Next]_vars
    PROVE  NothingMissed'
<1> SUFFICES ASSUME faults' = 0
             PROVE  /\ pc' # "putListFailed"
                    /\ \A m \in Monitors : Active(m)' => NewsOf(m)' \/ UpToDate(m)'
  BY DEF NothingMissed
<1>1. faults = 0 /\ faults \in Nat
  <2>1. faults \in Nat
    BY DEF AccuracyInv, DegradationInv, RuntimeInv, CountersOK
  <2>2. faults' = faults \/ faults' = faults + 1
    BY DEF Next, RuntimeStep, CreateMonitor, UpdateSpec, DeleteMonitor, UserWrite,
           DeliverMonitor, FireTimer, Dequeue, ChangeOperator, DeliverOperator, Clock,
           Tick, Arrival, LateUpdate, Restart, RestartRuntime, vars, runtimeVars,
           Reconcile, GetFails, MonitorGone, ReconcileSuspended, ReconcileActive,
           PutSuspended, ListFails, Correlate, PutListFailed, PutReport, StatusUpdated,
           StatusUpdateFailed, Fault, boundVars
  <2> QED
    BY <2>1, <2>2
<1>2. /\ pc # "putListFailed"
      /\ \A m \in Monitors : Active(m) => NewsOf(m) \/ UpToDate(m)
  BY <1>1 DEF AccuracyInv, NothingMissed
<1>3. pc' # "putListFailed"
  <2>1. CASE Reconcile
    <3>1. ~ListFails
      BY <1>1 DEF ListFails, Fault
    <3> QED
      BY <2>1, <3>1
      DEF Reconcile, GetFails, MonitorGone, ReconcileSuspended, ReconcileActive, Correlate,
          PutSuspended, PutListFailed, PutReport, Finished, FinishedRequeue, WorkerFree
  <2>2. CASE ~Reconcile
    <3>1. pc' = pc \/ pc' \in {"idle", "get"}
      BY <2>2
      DEF Next, RuntimeStep, CreateMonitor, UpdateSpec, DeleteMonitor, UserWrite,
          DeliverMonitor, FireTimer, Dequeue, ChangeOperator, DeliverOperator, Clock,
          Tick, Arrival, LateUpdate, Restart, RestartRuntime, WorkerFree, vars,
          runtimeVars, workerVars
    <3> QED
      BY <1>2, <3>1
  <2> QED
    BY <2>1, <2>2
<1>4. ASSUME NEW m \in Monitors, Active(m)'
      PROVE  NewsOf(m)' \/ UpToDate(m)'
  <2>1. CASE ~Reconcile
    BY <1>1, <1>2, <1>4, <2>1, OthersMissNothing
  <2>2. CASE Reconcile /\ m = key
    BY <1>2, <1>4, <2>2, WorkerMissesNothing
  <2>3. CASE Reconcile /\ m # key
    <3>1. /\ operators' = operators /\ owatch' = owatch
          /\ key # m /\ key' # m
          /\ api'[m] = api[m] /\ mwatch'[m] = mwatch[m] /\ queue'[m] = queue[m]
      BY <2>3, WorkerFacts, NilAssumption DEF AccuracyInv
    <3> QED
      BY <1>2, <1>4, <3>1 DEF UpToDate, Reflects, NewsOf, Active
  <2> QED
    BY <2>1, <2>2, <2>3
<1> QED
  BY <1>3, <1>4

LEMMA AccuracyInvariant == Spec => []AccuracyInv
<1>1. Init => AccuracyInv
  <2> SUFFICES ASSUME Init
               PROVE  AccuracyInv
    OBVIOUS
  <2>1. OperatorsCatchUp /\ CopyIsFresh /\ NothingMissed
    BY DEF Init, RuntimeInit, OperatorsCatchUp, CopyIsFresh, NothingMissed, Active
  <2> QED
    BY <2>1, InitDegradation DEF AccuracyInv
<1>2. AccuracyInv /\ [Next]_vars => AccuracyInv'
  BY NextDegradation, CatchUpKept, CopyStaysFresh, NothingMissedKept DEF AccuracyInv
<1> QED
  BY <1>1, <1>2, PTL DEF Spec

\* The watches alone keep the status right: unless a call failed, a monitor with
\* nothing left to handle lists the operators of its filter as they are, though
\* spec and operators change while the worker judges an older state of them
\* (lines 88-103, 166-204 and 263-292).
THEOREM DegradationReportsAccurate == Spec => []SettledReportIsAccurate
<1>1. AccuracyInv => SettledReportIsAccurate
  <2> SUFFICES ASSUME AccuracyInv, NEW m \in Monitors, faults = 0, Active(m), Settled(m)
               PROVE  Accurate(m)
    BY DEF SettledReportIsAccurate
  <2>1. ~NewsOf(m) /\ key # m
    BY DEF Settled, NewsOf
  <2>2. UpToDate(m)
    BY <2>1 DEF AccuracyInv, NothingMissed
  <2> QED
    BY <2>1, <2>2 DEF UpToDate, Reflects, Accurate
<1> QED
  BY <1>1, AccuracyInvariant, PTL

-----------------------------------------------------------------------------
(***************************************************************************)
(* The refinement: what the contract sees of a step.                       *)
(***************************************************************************)
Desired ==
    [m \in Monitors |->
        IF api[m] = Nil THEN Nil ELSE [gen |-> api[m].gen, spec |-> api[m].spec]]

Reports == [m \in Monitors |-> ReportOf(StoredStatus(m))]

Readiness == [m \in Monitors |-> ReadyOf(StoredStatus(m))]

\* The monitor that a reader sees, when it is there and when it is not.
LEMMA ReadOff ==
    ASSUME NEW m \in Monitors
    PROVE  /\ api[m] = Nil =>
                 /\ Desired[m] = Nil
                 /\ Reports[m] = ReportOf(NoStatus)
                 /\ Readiness[m] = ReadyOf(NoStatus)
           /\ api[m] # Nil =>
                 /\ Desired[m] = [gen |-> api[m].gen, spec |-> api[m].spec]
                 /\ Reports[m] = ReportOf(api[m].status)
                 /\ Readiness[m] = ReadyOf(api[m].status)
           /\ api'[m] = Nil =>
                 /\ Desired'[m] = Nil
                 /\ Reports'[m] = ReportOf(NoStatus)
                 /\ Readiness'[m] = ReadyOf(NoStatus)
           /\ api'[m] # Nil =>
                 /\ Desired'[m] = [gen |-> api'[m].gen, spec |-> api'[m].spec]
                 /\ Reports'[m] = ReportOf(api'[m].status)
                 /\ Readiness'[m] = ReadyOf(api'[m].status)
BY DEF Desired, Reports, Readiness, StoredStatus

LEMMA NewMonitor ==
    /\ ReportOf(NoStatus) = [gen |-> 0, finding |-> Finding(NoStatus)]
    /\ ReadyOf(NoStatus) = [gen |-> 0, outcome |-> "None"]
<1>1. NoStatus.obsGen = 0 /\ NoStatus.conds["Ready"] = Nil
  BY DEF NoStatus, ConditionType
<1> HIDE DEF NoStatus
<1> QED
  BY <1>1 DEF ReportOf, ReadyOf, Outcome

\* What the condition Ready says, once it says something.
LEMMA ReadyWord ==
    ASSUME NEW status, NEW gen \in Nat, NEW b \in BOOLEAN, NEW reason \in Reason,
           status.conds["Ready"] = [status |-> b, reason |-> reason, gen |-> gen]
    PROVE  ReadyOf(status) =
              [gen |-> gen,
               outcome |-> IF b THEN "Complete"
                           ELSE IF reason = "Suspended" THEN "Suspended" ELSE "Failed"]
<1>1. status.conds["Ready"] # Nil
  BY NilIsNoObject DEF Condition
<1>2. CASE b
  BY <1>1, <1>2 DEF ReadyOf, Outcome
<1>3. CASE ~b /\ reason = "Suspended"
  BY <1>1, <1>3 DEF ReadyOf, Outcome
<1>4. CASE ~b /\ reason # "Suspended"
  BY <1>1, <1>4 DEF ReadyOf, Outcome
<1> QED
  BY <1>2, <1>3, <1>4

LEMMA InitRefines == Init => Contract!Init
<1> SUFFICES ASSUME Init
             PROVE  Contract!Init
  OBVIOUS
<1>1. \A m \in Monitors : api[m] = Nil
  BY DEF Init, RuntimeInit
<1>2. /\ Desired = [m \in Monitors |-> Nil]
      /\ Reports = [m \in Monitors |-> [gen |-> 0, finding |-> Finding(NoStatus)]]
      /\ Readiness = [m \in Monitors |-> [gen |-> 0, outcome |-> "None"]]
  BY <1>1, NewMonitor DEF Desired, Reports, Readiness, StoredStatus
<1> QED
  BY <1>2
  DEF Contract!Init, Contract!Unseen, Contract!NoWord, Desired, Reports, Readiness

\* One monitor changes, in the contract as in the store.
LEMMA TurnRefines ==
    ASSUME NEW m \in Monitors, \A n \in Monitors \ {m} : api'[n] = api[n],
           Contract!Turn(m)
    PROVE  Contract!Next
<1>1. ASSUME NEW n \in Monitors, n # m
      PROVE  Desired'[n] = Desired[n] /\ Reports'[n] = Reports[n]
             /\ Readiness'[n] = Readiness[n]
  <2>1. api'[n] = api[n]
    BY <1>1
  <2> QED
    BY <2>1, ReadOff
<1>2. Contract!OthersStay(m)
  BY <1>1 DEF Contract!OthersStay, Desired, Reports, Readiness
<1>3. /\ Desired = [n \in Monitors |-> Desired[n]]
      /\ Desired' = [n \in Monitors |-> Desired'[n]]
      /\ Reports = [n \in Monitors |-> Reports[n]]
      /\ Reports' = [n \in Monitors |-> Reports'[n]]
      /\ Readiness = [n \in Monitors |-> Readiness[n]]
      /\ Readiness' = [n \in Monitors |-> Readiness'[n]]
  BY DEF Desired, Reports, Readiness
<1> QED
  BY <1>2, <1>3, Contract!TurnIsStep DEF Desired, Reports, Readiness

\* The user's edits are the contract's.
LEMMA EditRefines ==
    ASSUME DegradationInv, NEW m \in Monitors,
           \/ \E s \in Specs : CreateMonitor(m, s, NoStatus) \/ UpdateSpec(m, s)
           \/ DeleteMonitor(m)
    PROVE  Contract!Next
<1>1. /\ \A n \in Monitors : api[n] # Nil =>
                api[n] \in [gen : Nat, spec : Specs, status : Status]
      /\ DOMAIN api = Monitors
      /\ Nil \notin [gen : Nat, spec : Specs, status : Status]
  BY SoundType, NilIsNoObject
  DEF DegradationInv, RuntimeInv, StoreOK, Versions, MonitorObject
<1>2. ASSUME NEW s \in Specs, CreateMonitor(m, s, NoStatus)
      PROVE  Contract!Next
  <2> DEFINE o == [gen |-> 1, spec |-> s, status |-> NoStatus]
  <2>1. /\ api[m] = Nil /\ api'[m] = o
        /\ \A n \in Monitors \ {m} : api'[n] = api[n]
    BY <1>1, <1>2 DEF CreateMonitor, UserWrite, Write
  <2>2. o # Nil /\ o.gen = 1 /\ o.spec = s /\ o.status = NoStatus
    <3>1. o \in SoundMonitors
      BY NewIsSound
    <3> QED
      BY <1>1, <3>1, SoundType
  <2> HIDE DEF o
  <2>3. /\ Desired[m] = Nil
        /\ Desired'[m] = [gen |-> 1, spec |-> s]
        /\ Reports'[m] = Reports[m] /\ Readiness'[m] = Readiness[m]
    BY <2>1, <2>2, ReadOff
  <2>4. Contract!Turn(m)
    BY <2>3 DEF Contract!Turn, Desired, Reports, Readiness
  <2> QED
    BY <2>1, <2>4, TurnRefines
<1>3. ASSUME NEW s \in Specs, UpdateSpec(m, s)
      PROVE  Contract!Next
  <2> DEFINE o == [api[m] EXCEPT !.gen = @ + 1, !.spec = s]
  <2>1. /\ api[m] # Nil /\ api'[m] = o
        /\ \A n \in Monitors \ {m} : api'[n] = api[n]
    BY <1>1, <1>3 DEF UpdateSpec, UserWrite, Write
  <2>2. /\ o.gen = api[m].gen + 1 /\ o.spec = s /\ o.status = api[m].status
        /\ o # Nil
    <3>1. api[m].gen + 1 \in Nat
      BY <1>1, <2>1
    <3>2. o \in [gen : Nat, spec : Specs, status : Status]
      BY <1>1, <2>1, <3>1
    <3> QED
      BY <1>1, <2>1, <3>2
  <2> HIDE DEF o
  <2>3. /\ Desired[m] # Nil
        /\ Desired'[m] = [gen |-> Desired[m].gen + 1, spec |-> s]
        /\ Reports'[m] = Reports[m] /\ Readiness'[m] = Readiness[m]
    <3>1. Desired[m] = [gen |-> api[m].gen, spec |-> api[m].spec]
      BY <2>1, ReadOff
    <3>2. Desired[m] # Nil
      BY <1>1, <2>1, <3>1, NilIsNoDesire
    <3> QED
      BY <2>1, <2>2, <3>1, <3>2, ReadOff
  <2>4. Contract!Turn(m)
    BY <2>3 DEF Contract!Turn, Desired, Reports, Readiness
  <2> QED
    BY <2>1, <2>4, TurnRefines
<1>4. ASSUME DeleteMonitor(m)
      PROVE  Contract!Next
  <2>1. /\ api[m] # Nil /\ api'[m] = Nil
        /\ \A n \in Monitors \ {m} : api'[n] = api[n]
    BY <1>1, <1>4 DEF DeleteMonitor, UserWrite, Write
  <2>2. Desired[m] # Nil
    <3>1. Desired[m] = [gen |-> api[m].gen, spec |-> api[m].spec]
      BY <2>1, ReadOff
    <3> QED
      BY <1>1, <2>1, <3>1, NilIsNoDesire
  <2>3. /\ Desired'[m] = Nil
        /\ Reports'[m] = [gen |-> 0, finding |-> Finding(NoStatus)]
        /\ Readiness'[m] = [gen |-> 0, outcome |-> "None"]
    BY <2>1, ReadOff, NewMonitor
  <2>4. Contract!Turn(m)
    BY <2>2, <2>3
    DEF Contract!Turn, Contract!Unseen, Contract!NoWord, Desired, Reports, Readiness
  <2> QED
    BY <2>1, <2>4, TurnRefines
<1> QED
  BY <1>2, <1>3, <1>4

\* A status update publishes, gives up or acknowledges.
LEMMA UpdateRefines ==
    ASSUME DegradationInv, NEW m \in Monitors, NEW p, <<api[m], p>> \in Moves,
           api[m] # Nil, api' = [api EXCEPT ![m] = p]
    PROVE  Contract!Next
<1>1. /\ api[m] \in [gen : Nat, spec : Specs, status : Status]
      /\ p # Nil /\ p.gen = api[m].gen /\ p.spec = api[m].spec
      /\ MayFollow(api[m], p.status)
      /\ api'[m] = p
      /\ \A n \in Monitors \ {m} : api'[n] = api[n]
  BY MoveType, SoundType, NilIsNoObject
  DEF DegradationInv, RuntimeInv, StoreOK, MonitorObject, MayBecome
<1>2. /\ Desired[m] = [gen |-> api[m].gen, spec |-> api[m].spec]
      /\ Desired[m] # Nil
      /\ Desired[m].gen = api[m].gen /\ Desired[m].spec = api[m].spec
      /\ Desired'[m] = Desired[m]
      /\ Reports[m] = ReportOf(api[m].status)
      /\ Reports'[m] = ReportOf(p.status)
      /\ Readiness'[m] = ReadyOf(p.status)
  <2>1. [gen |-> api[m].gen, spec |-> api[m].spec] # Nil
    BY <1>1, NilIsNoDesire
  <2> QED
    BY <1>1, <2>1, ReadOff
<1>3. CASE api[m].spec.suspend
  <2>1. ReportOf(p.status) = ReportOf(api[m].status)
    BY <1>1, <1>3 DEF MayFollow, KeepsReport
  <2>2. ReadyOf(p.status) = [gen |-> api[m].gen, outcome |-> "Suspended"]
    <3> DEFINE b == FALSE
               w == "Suspended"
    <3>1. /\ p.status.conds["Ready"] = [status |-> b, reason |-> w, gen |-> api[m].gen]
          /\ b \in BOOLEAN /\ w \in Reason /\ api[m].gen \in Nat
      BY <1>1, <1>3 DEF MayFollow, Says, Reason
    <3>2. b = FALSE /\ w = "Suspended"
      OBVIOUS
    <3> HIDE DEF b, w
    <3>3. ReadyOf(p.status) =
             [gen |-> api[m].gen,
              outcome |-> IF b THEN "Complete"
                          ELSE IF w = "Suspended" THEN "Suspended" ELSE "Failed"]
      BY <3>1, ReadyWord
    <3> QED
      BY <3>2, <3>3
  <2>3. Contract!Turn(m)
    BY <1>1, <1>2, <1>3, <2>1, <2>2 DEF Contract!Turn, Desired, Reports, Readiness
  <2> QED
    BY <1>1, <2>3, TurnRefines
<1>4. CASE /\ ~api[m].spec.suspend
           /\ KeepsReport(api[m], p.status)
           /\ Says(api[m], p.status, FALSE, "ListFailed")
  <2>1. ReportOf(p.status) = ReportOf(api[m].status)
    BY <1>4 DEF KeepsReport
  <2>2. ReadyOf(p.status) = [gen |-> api[m].gen, outcome |-> "Failed"]
    BY <1>1, <1>4, ReadyWord DEF Says, Reason
  <2>3. Contract!Turn(m)
    BY <1>1, <1>2, <1>4, <2>1, <2>2 DEF Contract!Turn, Desired, Reports, Readiness
  <2> QED
    BY <1>1, <2>3, TurnRefines
<1>5. CASE ~api[m].spec.suspend /\ Completes(api[m], p.status)
  <2>1. ReadyOf(p.status) = [gen |-> api[m].gen, outcome |-> "Complete"]
    BY <1>1, <1>5, ReadyWord DEF Completes, Says, Reason
  <2>2. ReportOf(p.status) = [gen |-> api[m].gen, finding |-> Finding(p.status)]
    BY <1>5 DEF Completes, ReportOf
  <2>3. Reports'[m] \in [gen : {Desired[m].gen},
                         finding : [s \in Specs |-> AdmissibleFor(s)][Desired[m].spec]]
    <3> DEFINE A == [s \in Specs |-> AdmissibleFor(s)][Desired[m].spec]
    <3>1. Finding(p.status) \in A
      BY <1>1, <1>2, <1>5 DEF Completes
    <3> HIDE DEF A
    <3>2. Reports'[m] \in [gen : {Desired[m].gen}, finding : A]
      BY <1>2, <2>2, <3>1
    <3> QED
      BY <3>2 DEF A
  <2>4. Contract!Turn(m)
    BY <1>2, <1>5, <2>1, <2>3 DEF Contract!Turn, Desired, Reports, Readiness
  <2> QED
    BY <1>1, <2>4, TurnRefines
<1> QED
  BY <1>1, <1>3, <1>4, <1>5 DEF MayFollow

\* The controller implements the contract: a verdict is stored with the operators
\* it judges and for the spec it was made for, and a check that failed changes
\* nothing but Ready, however copies grow stale, calls fail, abandoned updates
\* arrive late and the process restarts (lines 62-103 and 195-260).
THEOREM DegradationImplements == Spec => ImplementsContract
<1>1. ASSUME DegradationInv, [Next]_vars
      PROVE  [Contract!Next]_(Contract!contractVars)
  <2>1. StoreStep
    BY <1>1, NextDegradation
  <2>2. CASE UNCHANGED api
    BY <2>2 DEF Contract!contractVars, StoredStatus
  <2> QED
    BY <1>1, <2>1, <2>2, EditRefines, UpdateRefines DEF StoreStep, Moved
<1> QED
  BY <1>1, InitRefines, DegradationInvariant, PTL
  DEF Spec, ImplementsContract, Contract!Spec

\* What MonitorContract promises a reader holds of the stored monitors: nothing
\* claims a generation to come, Ready = True and the report are of one check, and
\* Ready says Suspended of the stored generation exactly if it is suspended.
THEOREM DegradationIsTrustworthy == Spec => []Contract!AllTrustworthy
<1>1. Nil \notin Contract!Desire
  <2>1. Contract!Desire \subseteq [gen : Nat, spec : Specs]
    BY DEF Contract!Desire
  <2> QED
    BY <2>1, NilIsNoDesire
<1>2. Contract!Spec => []Contract!AllTrustworthy
  BY <1>1, Contract!Trust
<1> QED
  BY <1>2, DegradationImplements, PTL DEF ImplementsContract

=============================================================================
