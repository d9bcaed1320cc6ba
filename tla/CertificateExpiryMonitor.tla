---------------------- MODULE CertificateExpiryMonitor ----------------------
(***************************************************************************)
(* The certificate controller: internal/controller/                        *)
(* certificateexpirymonitor_controller.go on the runtime of                *)
(* ControllerRuntime.                                                      *)
(*                                                                         *)
(* A secret stands for a name in a namespace.  Time is counted in units of *)
(* which DayLength make a day, so that a certificate can have less than a  *)
(* day left.  A namespace is known by its label set, which can change.     *)
(***************************************************************************)
EXTENDS ControllerRuntime, EventRecorder, Integers, SequencesExt

CONSTANTS
    Namespaces,
    LabelSets,     \* the label sets of namespaces
    Secrets,
    NsOf, NameOf,  \* the namespace and the name of each secret
    TLSSecrets,    \* the secrets of type kubernetes.io/tls
    NotAfters,     \* the expiry times of certificates
    DayLength      \* 24 hours

Severity == {"Warning", "Critical", "Expired"}

\* The tls.crt of a secret; pem is FALSE if it does not hold a certificate.
Certificate == [pem : {TRUE}, notAfter : NotAfters] \cup [pem : {FALSE}, notAfter : {0}]

\* selector holds the label sets that the selector matches, all of them when
\* there is none; it is Nil when the selector is not a valid one.
SpecRecord ==
    [warningDays : Nat, criticalDays : Nat,
     selector : (SUBSET LabelSets) \cup {Nil},
     exclude : SUBSET Namespaces,
     suspend : BOOLEAN]

ASSUME CertificateAssumption ==
    /\ IsFiniteSet(Namespaces)
    /\ IsFiniteSet(Secrets)
    /\ NsOf \in [Secrets -> Namespaces]
    /\ DOMAIN NameOf = Secrets
    /\ TLSSecrets \subseteq Secrets
    /\ NotAfters \subseteq Nat \ {0}
    /\ DayLength \in Nat \ {0}
    /\ Specs \subseteq SpecRecord
    /\ Nil \notin LabelSets

VARIABLES
    secrets,   \* the secrets in the API server, or Nil
    swatch,    \* per secret, the versions not yet in the cache
    scache,    \* the informer cache of the secrets
    nss,       \* the label set of each namespace, or Nil
    ncache,    \* the informer cache of the namespaces, which nothing watches
    todo,      \* namespaces the running scan has still to list
    found,     \* expiringCerts of the running scan
    scanned,   \* totalScanned of the running scan
    targets    \* the number of namespaces the running scan set out from

clusterVars == <<secrets, swatch, scache, nss, ncache>>
scanVars    == <<todo, found, scanned, targets>>
vars == <<runtimeVars, secrets, swatch, scache, nss, ncache,
          todo, found, scanned, targets, told, unsent, events>>

CertificateInfo ==
    [secret : Secrets, notAfter : NotAfters, days : Int, severity : Severity]
ConditionType == {"Ready", "CertificatesExpired", "CertificatesExpiring"}
Reason == {"Suspended", "CertificatesExpired", "NoCertificatesExpired",
           "CertificatesExpiring", "NoCertificatesExpiring", "ScanComplete"}
Event == [monitor : Monitors, secret : Secrets, severity : Severity]

\* across is the number of namespaces that the message of Ready speaks of.
Status ==
    [conds : [ConditionType -> Condition(Reason) \cup {Nil}],
     certs : Seq(CertificateInfo),
     total : Nat, expiring : Nat, expired : Nat,
     across : Int, lastScan : Nat, obsGen : Nat]

ASSUME NilIsNoObject ==
    /\ Nil \notin MonitorObject(Status)
    /\ Nil \notin Condition(Reason)

NoStatus ==
    [conds |-> [t \in ConditionType |-> Nil], certs |-> <<>>,
     total |-> 0, expiring |-> 0, expired |-> 0,
     across |-> 0, lastScan |-> 0, obsGen |-> 0]

-----------------------------------------------------------------------------
(***************************************************************************)
(* The cluster.  A secret lives in an existing namespace, and a namespace  *)
(* goes when it is empty; its labels can change at any time.               *)
(***************************************************************************)
ClusterEdit ==
    /\ edits < MaxEdits
    /\ edits' = edits + 1
    /\ UNCHANGED <<storeVars, mcache, queue, workerVars, now, faults, crashes,
                   scache, ncache, scanVars, eventVars>>

ChangeSecret(s, o) ==
    /\ ClusterEdit
    /\ nss[NsOf[s]] # Nil
    /\ o # secrets[s]
    /\ secrets' = [secrets EXCEPT ![s] = o]
    /\ swatch' = [swatch EXCEPT ![s] = Append(@, o)]
    /\ UNCHANGED nss

ChangeNamespace(n, l) ==
    /\ ClusterEdit
    /\ l # nss[n]
    /\ l = Nil => \A s \in Secrets : NsOf[s] = n => secrets[s] = Nil
    /\ nss' = [nss EXCEPT ![n] = l]
    /\ UNCHANGED <<secrets, swatch>>

mapTLSSecretToMonitor ==
    {m \in Monitors : mcache[m] # Nil /\ ~mcache[m].spec.suspend}

\* The predicate of the watch lets the TLS secrets through.
DeliverSecret(s) ==
    /\ swatch[s] # <<>>
    /\ scache' = [scache EXCEPT ![s] = Head(swatch[s])]
    /\ swatch' = [swatch EXCEPT ![s] = Tail(@)]
    /\ \/ /\ queue' = IF s \in TLSSecrets THEN Enqueue(mapTLSSecretToMonitor)
                                          ELSE queue
          /\ UNCHANGED faults
       \/ s \in TLSSecrets /\ Fault /\ UNCHANGED queue
    /\ UNCHANGED <<storeVars, mcache, workerVars, now, edits, crashes,
                   secrets, nss, ncache, scanVars, eventVars>>

DeliverNamespaces ==
    /\ ncache # nss
    /\ ncache' = nss
    /\ UNCHANGED <<storeVars, mcache, queue, workerVars, boundVars,
                   secrets, swatch, scache, nss, scanVars, eventVars>>

-----------------------------------------------------------------------------
(***************************************************************************)
(* parseCertificate.                                                       *)
(***************************************************************************)
\* The conversion to int32 truncates towards zero.
DaysUntil(t) ==
    IF t >= now THEN (t - now) \div DayLength ELSE -((now - t) \div DayLength)

OrDefault(days, default) == IF days = 0 THEN default ELSE days
WarningDays(spec)  == OrDefault(spec.warningDays, 30)
CriticalDays(spec) == OrDefault(spec.criticalDays, 7)

\* Faulty variant: the test for Critical, which Warning implies, comes last.
SeverityOf_WarningFirst(days, spec) ==
    CASE days <= 0                                       -> "Expired"
      [] days > 0 /\ days <= WarningDays(spec)           -> "Warning"
      [] days > WarningDays(spec) /\ days <= CriticalDays(spec) -> "Critical"
      [] OTHER                                           -> "None"

SeverityOf(days, spec) ==
    CASE days <= 0                                       -> "Expired"
      [] days > 0 /\ days <= CriticalDays(spec)          -> "Critical"
      [] days > CriticalDays(spec) /\ days <= WarningDays(spec) -> "Warning"
      [] OTHER                                           -> "None"

\* What parseCertificate returns for the secrets of S, as world holds them.
ExpiringOf(S, world, spec) ==
    LET days(s) == DaysUntil(world[s].notAfter)
    IN  {[secret |-> s, notAfter |-> world[s].notAfter, days |-> days(s),
          severity |-> SeverityOf(days(s), spec)] :
            s \in {t \in S : world[t].pem /\ SeverityOf(days(t), spec) # "None"}}

TLSSecretsIn(n, world) == {s \in TLSSecrets : NsOf[s] = n /\ world[s] # Nil}

-----------------------------------------------------------------------------
(***************************************************************************)
(* Reconcile, one action per call to the API server or to the cache.       *)
(***************************************************************************)
ClearScan ==
    /\ todo' = {}
    /\ found' = <<>>
    /\ scanned' = 0
    /\ targets' = 0

GetFails ==
    /\ pc = "get"
    /\ Fault
    /\ FinishedRequeue
    /\ UNCHANGED <<storeVars, mcache, now, edits, crashes,
                   clusterVars, scanVars, eventVars>>

\* Faulty variant: the return is missing and the empty object is scanned.
MonitorGone_GoesOn ==
    /\ pc = "get"
    /\ mcache[key] = Nil
    /\ pc' = "namespaces"
    /\ UNCHANGED <<storeVars, mcache, queue, key, obj, fresh, boundVars,
                   clusterVars, scanVars, eventVars>>

MonitorGone ==
    /\ pc = "get"
    /\ mcache[key] = Nil
    /\ Finished
    /\ UNCHANGED <<storeVars, mcache, boundVars, clusterVars, scanVars, eventVars>>

ReconcileSuspended ==
    /\ pc = "get"
    /\ mcache[key] # Nil
    /\ mcache[key].spec.suspend
    /\ CopyFromCache([mcache[key] EXCEPT !.status.conds =
           SetStatusCondition(@, "Ready", FALSE, "Suspended", mcache[key].gen)])
    /\ pc' = "putSuspended"
    /\ UNCHANGED <<storeVars, mcache, queue, key, boundVars,
                   clusterVars, scanVars, eventVars>>

PutSuspended ==
    /\ pc = "putSuspended"
    /\ \/ StatusUpdated /\ Finished
       \/ StatusUpdateFailed /\ FinishedRequeue
    /\ UNCHANGED <<mcache, now, edits, crashes, clusterVars, scanVars, eventVars>>

ReconcileActive ==
    /\ pc = "get"
    /\ mcache[key] # Nil
    /\ ~mcache[key].spec.suspend
    /\ CopyFromCache(mcache[key])
    /\ pc' = "namespaces"
    /\ UNCHANGED <<storeVars, mcache, queue, key, boundVars,
                   clusterVars, scanVars, eventVars>>

\* Faulty variant: the error of the selector or of the List ends the monitoring.
NamespacesFail_Dropped ==
    /\ pc = "namespaces"
    /\ \/ obj.spec.selector = Nil /\ UNCHANGED faults
       \/ Fault
    /\ Finished
    /\ UNCHANGED <<storeVars, mcache, now, edits, crashes,
                   clusterVars, scanVars, eventVars>>

NamespacesFail ==
    /\ pc = "namespaces"
    /\ \/ obj.spec.selector = Nil /\ UNCHANGED faults
       \/ Fault
    /\ FinishedRequeue
    /\ UNCHANGED <<storeVars, mcache, now, edits, crashes,
                   clusterVars, scanVars, eventVars>>

getTargetNamespaces ==
    /\ pc = "namespaces"
    /\ obj.spec.selector # Nil
    /\ pc' = "scan"
    /\ LET namespaces == {n \in Namespaces : ncache[n] \in obj.spec.selector}
       IN  /\ todo' = namespaces \ obj.spec.exclude
           /\ targets' = Cardinality(namespaces)
    /\ found' = <<>>
    /\ scanned' = 0
    /\ UNCHANGED <<storeVars, mcache, queue, key, obj, fresh, boundVars,
                   clusterVars, eventVars>>

\* One turn of the loop over the namespaces.  The cache lists the secrets of a
\* namespace in no particular order.
ScanNamespace(n) ==
    /\ pc = "scan"
    /\ n \in todo
    /\ todo' = todo \ {n}
    /\ \/ Fault /\ UNCHANGED <<found, scanned>>
       \/ LET listed == TLSSecretsIn(n, scache)
          IN  /\ UNCHANGED faults
              /\ scanned' = scanned + Cardinality(listed)
              /\ \E infos \in SetToSeqs(ExpiringOf(listed, scache, obj.spec)) :
                    found' = found \o infos
    /\ UNCHANGED <<storeVars, mcache, queue, workerVars, now, edits, crashes,
                   clusterVars, targets, eventVars>>

\* The first of the previous infos with this name, in any namespace.
getPreviousCertStatus(o, name) ==
    LET same == {i \in DOMAIN o.status.certs :
                    NameOf[o.status.certs[i].secret] = name}
    IN  IF same = {} THEN "" ELSE o.status.certs[Min(same)].severity

\* Faulty variant: no event for a certificate that was not listed before.
ExpiryEvents_KnownOnly(o) ==
    {[monitor |-> key, secret |-> c.secret, severity |-> c.severity] :
        c \in {d \in ToSet(found) :
                  getPreviousCertStatus(o, NameOf[d.secret])
                      \notin {"", Last(found).severity}}}

\* currentStatus is what the loop of the scan left in it: the severity of the
\* last info.
ExpiryEvents(o) ==
    {[monitor |-> key, secret |-> c.secret, severity |-> c.severity] :
        c \in {d \in ToSet(found) :
                  getPreviousCertStatus(o, NameOf[d.secret]) # Last(found).severity}}

Count(certs, severities) ==
    Cardinality({i \in DOMAIN certs : certs[i].severity \in severities})

\* One of a pair of conditions on a count.
CountCondition(conds, type, count, yes, no, gen) ==
    SetStatusCondition(conds, type, count > 0, IF count > 0 THEN yes ELSE no, gen)

\* Faulty variant: an expired certificate is not counted as expiring.
ExpiringCount_NotExpired(certs) == Count(certs, {"Warning", "Critical"})

ExpiringCount(certs) == Count(certs, Severity)
ExpiredCount(certs)  == Count(certs, {"Expired"})

Report(o) ==
    LET expired  == ExpiredCount(found)
        expiring == ExpiringCount(found)
    IN  [o EXCEPT !.status.certs = found, !.status.total = scanned,
                  !.status.expiring = expiring, !.status.expired = expired,
                  !.status.across = targets - Cardinality(o.spec.exclude),
                  !.status.lastScan = now, !.status.obsGen = o.gen,
                  !.status.conds = SetStatusCondition(
                      CountCondition(
                          CountCondition(@, "CertificatesExpired", expired,
                              "CertificatesExpired", "NoCertificatesExpired", o.gen),
                          "CertificatesExpiring", expiring,
                          "CertificatesExpiring", "NoCertificatesExpiring", o.gen),
                      "Ready", TRUE, "ScanComplete", o.gen)]

FinishScan ==
    /\ pc = "scan"
    /\ todo = {}
    /\ Record(ExpiryEvents(obj))
    /\ obj' = Report(obj)
    /\ pc' = "putReport"
    /\ ClearScan
    /\ UNCHANGED <<storeVars, mcache, queue, key, fresh, boundVars, clusterVars>>

\* Faulty variant: no RequeueAfter.
PutReport_NoRecheck ==
    /\ pc = "putReport"
    /\ \/ StatusUpdated /\ Finished
       \/ StatusUpdateFailed /\ FinishedRequeue
    /\ UNCHANGED <<mcache, now, edits, crashes, clusterVars, scanVars, eventVars>>

\* Faulty variant: a patch of the status, without the resourceVersion.
PutReport_Patch ==
    /\ pc = "putReport"
    /\ IF api[key] # Nil THEN WriteStatus ELSE UNCHANGED storeVars
    /\ FinishedRequeue
    /\ UNCHANGED <<mcache, boundVars, clusterVars, scanVars, eventVars>>

\* CheckIntervalMinutes is at least 1, so that success requeues as well.
PutReport ==
    /\ pc = "putReport"
    /\ StatusUpdated \/ StatusUpdateFailed
    /\ FinishedRequeue
    /\ UNCHANGED <<mcache, now, edits, crashes, clusterVars, scanVars, eventVars>>

\* The other goroutine of the recorder.
Broadcast ==
    /\ SendEvent \/ DropEvent
    /\ UNCHANGED <<runtimeVars, clusterVars, scanVars>>

Restart ==
    /\ RestartRuntime
    /\ scache' = secrets
    /\ swatch' = [s \in Secrets |-> <<>>]
    /\ ncache' = nss
    /\ ClearScan
    /\ DropUnsent
    /\ UNCHANGED <<secrets, nss>>

-----------------------------------------------------------------------------
Reconcile ==
    \/ GetFails
    \/ MonitorGone
    \/ ReconcileSuspended
    \/ PutSuspended
    \/ ReconcileActive
    \/ NamespacesFail
    \/ getTargetNamespaces
    \/ \E n \in todo : ScanNamespace(n)
    \/ FinishScan
    \/ PutReport

RuntimeStep(m) ==
    /\ \/ \E s \in Specs : CreateMonitor(m, s, NoStatus) \/ UpdateSpec(m, s)
       \/ DeleteMonitor(m)
       \/ DeliverMonitor(m)
       \/ FireTimer(m)
       \/ Dequeue(m)
    /\ UNCHANGED <<clusterVars, scanVars, eventVars>>

Clock == Tick /\ UNCHANGED <<clusterVars, scanVars, eventVars>>

Arrival(u) == LateUpdate(u) /\ UNCHANGED <<clusterVars, scanVars, eventVars>>

Init ==
    /\ RuntimeInit
    /\ nss \in [Namespaces -> LabelSets]
    /\ ncache = nss
    /\ secrets \in [Secrets -> Certificate \cup {Nil}]
    /\ scache = secrets
    /\ swatch = [s \in Secrets |-> <<>>]
    /\ todo = {}
    /\ found = <<>>
    /\ scanned = 0
    /\ targets = 0
    /\ RecorderInit

Next ==
    \/ \E m \in Monitors : RuntimeStep(m)
    \/ \E s \in Secrets : \E o \in Certificate \cup {Nil} : ChangeSecret(s, o)
    \/ \E n \in Namespaces : \E l \in LabelSets \cup {Nil} : ChangeNamespace(n, l)
    \/ \E s \in Secrets : DeliverSecret(s)
    \/ DeliverNamespaces
    \/ Reconcile
    \/ Clock
    \/ \E u \in late : Arrival(u)
    \/ Broadcast
    \/ Restart

Spec == Init /\ [][Next]_vars

\* The informers, the queue and the worker keep running; users, the cluster
\* and the clock owe nothing.
Fairness ==
    /\ WF_vars(Reconcile)
    /\ WF_vars(DeliverNamespaces)
    /\ \A m \in Monitors :
          /\ WF_vars(DeliverMonitor(m) /\ UNCHANGED <<clusterVars, scanVars, eventVars>>)
          /\ WF_vars(FireTimer(m) /\ UNCHANGED <<clusterVars, scanVars, eventVars>>)
          /\ WF_vars(Dequeue(m) /\ UNCHANGED <<clusterVars, scanVars, eventVars>>)
    /\ \A s \in Secrets : WF_vars(DeliverSecret(s))

FairSpec == Spec /\ Fairness

=============================================================================
