----------------------- MODULE CertificateProperties -----------------------
(***************************************************************************)
(* What is asked of CertificateExpiryMonitor.  The last section holds what *)
(* the repository says of the program and the code does not do.            *)
(***************************************************************************)
EXTENDS CertificateExpiryMonitor

Version == MonitorObject(Status) \cup {Nil}

Phases == {"idle", "get", "putSuspended", "namespaces", "scan", "putReport"}

\* Every variable keeps its type, and the worker has a key and a copy of the
\* monitor in every phase of Reconcile that uses them.
TypeOK ==
    /\ api \in [Monitors -> Version]
    /\ mwatch \in [Monitors -> Seq(Version)]
    /\ late \in SUBSET LateUpdates(Status)
    /\ \A u \in late : api[u.key] # Nil
    /\ mcache \in [Monitors -> Version]
    /\ queue \in [Monitors -> QueueState]
    /\ pc \in Phases
    /\ key \in Monitors \cup {Nil}
    /\ obj \in Version
    /\ fresh \in BOOLEAN
    /\ (pc = "idle") <=> (key = Nil)
    /\ pc \notin {"idle", "get"} => obj # Nil
    /\ now \in Nat
    /\ {edits, faults, crashes} \subseteq Nat
    /\ secrets \in [Secrets -> Certificate \cup {Nil}]
    /\ scache \in [Secrets -> Certificate \cup {Nil}]
    /\ swatch \in [Secrets -> Seq(Certificate \cup {Nil})]
    /\ nss \in [Namespaces -> LabelSets \cup {Nil}]
    /\ ncache \in [Namespaces -> LabelSets \cup {Nil}]
    /\ todo \in SUBSET Namespaces
    /\ found \in Seq(CertificateInfo)
    /\ {scanned, targets} \subseteq Nat
    /\ told \in SUBSET Event
    /\ unsent \in SUBSET told
    /\ events \in SUBSET told

Active(m) == api[m] # Nil /\ ~api[m].spec.suspend

\* No lost wakeup: an active monitor is being reconciled, waits in the queue, or
\* has a watch event on the way, also when its selector is invalid and when the
\* namespaces cannot be listed (lines 68-99 and 229-235).
ActiveIsScheduled == \A m \in Monitors : Active(m) => Scheduled(m)

Listed(status) == ToSet(status.certs)

\* The list, its two counters and the two conditions on them are accounts of one
\* scan and agree in every stored status (lines 153-219): an expired certificate
\* counts as expiring too, and no secret is listed twice.
StatusAddsUp ==
    \A m \in Monitors : api[m] # Nil =>
        LET status == api[m].status
            expired == {c \in Listed(status) : c.severity = "Expired"}
        IN  /\ status.expiring = Cardinality(Listed(status))
            /\ status.expired = Cardinality(expired)
            /\ status.expiring <= status.total
            /\ \A c, d \in Listed(status) : c.secret = d.secret => c = d
            /\ status.conds["CertificatesExpiring"] # Nil =>
                  (status.conds["CertificatesExpiring"].status <=> Listed(status) # {})
            /\ status.conds["CertificatesExpired"] # Nil =>
                  (status.conds["CertificatesExpired"].status <=> expired # {})

\* A certificate within the critical threshold of the generation the status
\* speaks of is never listed as a mere warning, whatever the order of the two
\* thresholds, which nothing constrains (lines 114-121 and 286-296).
CriticalIsNotPlayedDown ==
    \A m \in Monitors :
        api[m] # Nil /\ api[m].status.obsGen = api[m].gen =>
            \A c \in Listed(api[m].status) :
                c.days <= api[m].spec.criticalDays => c.severity # "Warning"

\* The first alarm is complete: when a status goes from no listed certificate to
\* some, an Event for each was given to the recorder of the process that made the
\* status, before the status could be read (lines 166-174).  That the API server
\* gets it is not said: Events that a crash loses are not recorded again.
FirstAlarmIsAnnounced ==
    [][\A m \in Monitors :
          (/\ api[m] # Nil
           /\ api'[m] # Nil
           /\ api[m].status.certs = <<>>) =>
              \A c \in Listed(api'[m].status) :
                  [monitor |-> m, secret |-> c.secret, severity |-> c.severity]
                      \in told]_api

InScope(spec, s) ==
    /\ s \in TLSSecrets
    /\ secrets[s] # Nil
    /\ secrets[s].pem
    /\ nss[NsOf[s]] \in spec.selector
    /\ NsOf[s] \notin spec.exclude

\* How a certificate with this much time left is to be listed.
DueSeverity(left, spec) ==
    CASE left < DayLength -> "Expired"
      [] DayLength <= left /\ left < (CriticalDays(spec) + 1) * DayLength -> "Critical"
      [] /\ DayLength <= left
         /\ (CriticalDays(spec) + 1) * DayLength <= left
         /\ left < (WarningDays(spec) + 1) * DayLength -> "Warning"
      [] OTHER -> "None"

Expected(spec) ==
    LET due(s) == DueSeverity(secrets[s].notAfter - now, spec)
    IN  {[secret |-> s, notAfter |-> secrets[s].notAfter, severity |-> due(s)] :
            s \in {t \in Secrets : InScope(spec, t) /\ due(t) # "None"}}

Accurate(m) ==
    /\ api[m].status.obsGen = api[m].gen
    /\ {[secret |-> c.secret, notAfter |-> c.notAfter, severity |-> c.severity] :
            c \in Listed(api[m].status)} = Expected(api[m].spec)

\* When spec, cluster and clock stand still the list becomes right and stays
\* right.  No event tells the controller that time has passed, that a namespace
\* got other labels or that a List failed: the periodic scan makes up for it (lines
\* 233-235).  Right is meant in time, not in whole days: a certificate counts as
\* expired when less than a day is left (line 284).
ReportEventuallyAccurate ==
    <>[](\A m \in Monitors :
            Active(m) /\ api[m].spec.selector # Nil => Accurate(m))

-----------------------------------------------------------------------------
(***************************************************************************)
(* The contract of MonitorContract, read off the stored monitors.          *)
(***************************************************************************)
Outcome(cond) ==
    CASE cond = Nil -> "None"
      [] cond # Nil /\ cond.status -> "Complete"
      [] cond # Nil /\ ~cond.status /\ cond.reason = "Suspended" -> "Suspended"
      [] OTHER -> "Failed"

ReadyOf(status) ==
    LET cond == status.conds["Ready"]
    IN  [gen |-> IF cond = Nil THEN 0 ELSE cond.gen, outcome |-> Outcome(cond)]

Finding(status) ==
    {[secret |-> c.secret, severity |-> c.severity] : c \in Listed(status)}

\* One severity for each of some secrets outside the excluded namespaces.
AdmissibleFor(spec) ==
    {f \in SUBSET [secret : TLSSecrets, severity : Severity] :
        /\ spec.selector # Nil
        /\ \A c \in f : NsOf[c.secret] \notin spec.exclude
        /\ \A c, d \in f : c.secret = d.secret => c = d}

ReportOf(status) == [gen |-> status.obsGen, finding |-> Finding(status)]

StoredStatus(m) == IF api[m] = Nil THEN NoStatus ELSE api[m].status

ASSUME NilIsNoDesire == Nil \notin [gen : Nat, spec : Specs]

Contract == INSTANCE MonitorContract WITH
    Suspended  <- {s \in Specs : s.suspend},
    Admissible <- [s \in Specs |-> AdmissibleFor(s)],
    NoFinding  <- Finding(NoStatus),
    desired    <- [m \in Monitors |->
                      IF api[m] = Nil THEN Nil
                      ELSE [gen |-> api[m].gen, spec |-> api[m].spec]],
    report     <- [m \in Monitors |-> ReportOf(StoredStatus(m))],
    ready      <- [m \in Monitors |-> ReadyOf(StoredStatus(m))]

\* Every step of the controller is one of the contract's: in spite of stale
\* copies, abandoned updates and failed Lists a scan is only stored for the very
\* spec it was made for, whole, and never on a suspended monitor or on one whose
\* selector is invalid (lines 68-99 and 176-236).
ImplementsContract == Contract!Spec

-----------------------------------------------------------------------------
(***************************************************************************)
(* Statements of the repository that the code does not meet.               *)
(***************************************************************************)
\* README.md:19: the operator warns of certificates that expire or have expired.
\* An Event for a listed certificate, with the severity it is listed with, was
\* given to the recorder.
ListedIsAnnounced ==
    \A m \in Monitors : api[m] # Nil =>
        \A c \in Listed(api[m].status) :
            [monitor |-> m, secret |-> c.secret, severity |-> c.severity] \in told

\* certificateexpirymonitor_types.go:37: CheckIntervalMinutes controls how often
\* the controller scans.  Every status write comes back through the watch and
\* starts the next scan at once, so a scan that lists the certificates the status
\* lists already writes them as they are.
RepeatedScanWritesNothing ==
    [][\A m \in Monitors :
          (/\ api[m] # Nil
           /\ api'[m] # Nil
           /\ api'[m].status.lastScan = api[m].status.lastScan
           /\ Listed(api'[m].status) = Listed(api[m].status))
              => api'[m].status.certs = api[m].status.certs]_api

=============================================================================
