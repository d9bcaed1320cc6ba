-------------------------- MODULE CertificateProofs --------------------------
(***************************************************************************)
(* Proofs about CertificateExpiryMonitor for every number of monitors,     *)
(* every spec, every finite set of secrets and namespaces and every bound: *)
(*   CertificateTypeCorrect  the type invariant                            *)
(*   CertificateNothingLost  ActiveIsScheduled                             *)
(*   CriticalStaysCritical   CriticalIsNotPlayedDown                       *)
(*   AccountsAgree           StatusAddsUp                                  *)
(*   FirstAlarmsAnnounced    FirstAlarmIsAnnounced                         *)
(*   CertificateImplements   ImplementsContract                            *)
(* All follow from CertificateInv: RuntimeInv for the monitors whose       *)
(* status adds up and plays nothing down and for what a status update may  *)
(* make of one (Moves), and what the running scan has found so far.  The   *)
(* alarms need AlarmInv besides: what the updates on the way would list.   *)
(* They end at the recorder, which promises no delivery.                   *)
(***************************************************************************)
EXTENDS CertificateProperties, ControllerRuntimeProofs, FiniteSetTheorems

Expired(status) == {c \in Listed(status) : c.severity = "Expired"}

AddsUp(status) ==
    /\ status.expiring = Cardinality(Listed(status))
    /\ status.expired = Cardinality(Expired(status))
    /\ status.expiring <= status.total
    /\ \A c, d \in Listed(status) : c.secret = d.secret => c = d
    /\ status.conds["CertificatesExpiring"] # Nil =>
          (status.conds["CertificatesExpiring"].status <=> Listed(status) # {})
    /\ status.conds["CertificatesExpired"] # Nil =>
          (status.conds["CertificatesExpired"].status <=> Expired(status) # {})

NotPlayedDown(status, spec) ==
    \A c \in Listed(status) : c.days <= spec.criticalDays => c.severity # "Warning"

\* What is wanted of a status that is stored with a generation and a spec.
Sensible(status, gen, spec) ==
    /\ AddsUp(status)
    /\ status.obsGen <= gen
    /\ status.obsGen = gen => NotPlayedDown(status, spec)

SoundMonitors == {o \in MonitorObject(Status) : Sensible(o.status, o.gen, o.spec)}

Says(o, status, b, reason) ==
    status.conds["Ready"] = [status |-> b, reason |-> reason, gen |-> o.gen]

Completes(o, status) ==
    /\ status.obsGen = o.gen
    /\ Finding(status) \in AdmissibleFor(o.spec)
    /\ Says(o, status, TRUE, "ScanComplete")

KeepsReport(o, status) == ReportOf(status) = ReportOf(o.status)

\* The statuses that may replace the one of the stored monitor o.
MayFollow(o, status) ==
    IF o.spec.suspend
    THEN KeepsReport(o, status) /\ Says(o, status, FALSE, "Suspended")
    ELSE Completes(o, status)

MayBecome(o, p) == p.gen = o.gen /\ p.spec = o.spec /\ MayFollow(o, p.status)

Moves == {mv \in SoundMonitors \X SoundMonitors : MayBecome(mv[1], mv[2])}

\* A scan lists a secret once, since each namespace is scanned once, and counts
\* what it lists.
ScanOK ==
    /\ todo \in SUBSET Namespaces
    /\ scanned \in Nat /\ targets \in Nat
    /\ found \in Seq(CertificateInfo)
    /\ Len(found) <= scanned
    /\ \A i \in DOMAIN found : NsOf[found[i].secret] \notin todo
    /\ \A i, j \in DOMAIN found : found[i].secret = found[j].secret => i = j

\* It leaves out the excluded namespaces of the spec that is worked on, and lists
\* with the severities of that spec.
ScanFits ==
    /\ obj.spec.selector # Nil
    /\ todo \cap obj.spec.exclude = {}
    /\ \A i \in DOMAIN found :
          /\ found[i].secret \in TLSSecrets
          /\ NsOf[found[i].secret] \notin obj.spec.exclude
          /\ found[i].severity = SeverityOf(found[i].days, obj.spec)

Contents == Certificate \cup {Nil}

RecorderOK ==
    /\ told \in SUBSET Event
    /\ unsent \in SUBSET told
    /\ events \in SUBSET told

CertificateInv ==
    /\ RuntimeInv(SoundMonitors, Status, Moves)
    /\ pc \in Phases
    /\ secrets \in [Secrets -> Contents]
    /\ scache \in [Secrets -> Contents]
    /\ swatch \in [Secrets -> Seq(Contents)]
    /\ nss \in [Namespaces -> LabelSets \cup {Nil}]
    /\ ncache \in [Namespaces -> LabelSets \cup {Nil}]
    /\ ScanOK
    /\ pc = "scan" => ScanFits
    /\ RecorderOK

Conditions == [ConditionType -> Condition(Reason) \cup {Nil}]

LEMMA SoundType ==
    ASSUME NEW o
    PROVE  o \in SoundMonitors <=> /\ o \in [gen : Nat, spec : Specs, status : Status]
                                   /\ Sensible(o.status, o.gen, o.spec)
BY DEF SoundMonitors, MonitorObject

LEMMA MoveType ==
    ASSUME NEW o, NEW p
    PROVE  <<o, p>> \in Moves <=>
              o \in SoundMonitors /\ p \in SoundMonitors /\ MayBecome(o, p)
BY DEF Moves

\* An edit of the spec raises the generation above what the status claims.
LEMMA SoundIsClosed == Closed(SoundMonitors, Status, Moves)
<1>1. ASSUME NEW o \in SoundMonitors, NEW s \in Specs
      PROVE  [o EXCEPT !.gen = @ + 1, !.spec = s] \in SoundMonitors
  <2> DEFINE p == [o EXCEPT !.gen = @ + 1, !.spec = s]
  <2>1. /\ o \in [gen : Nat, spec : Specs, status : Status]
        /\ o.gen \in Nat /\ o.gen + 1 \in Nat
        /\ o.status.obsGen \in Nat /\ o.status.obsGen <= o.gen
        /\ AddsUp(o.status)
    BY <1>1, SoundType DEF Sensible, Status
  <2>2. /\ p \in [gen : Nat, spec : Specs, status : Status]
        /\ p.gen = o.gen + 1 /\ p.spec = s /\ p.status = o.status
    BY <2>1
  <2> HIDE DEF p
  <2>3. Sensible(p.status, p.gen, p.spec)
    BY <2>1, <2>2 DEF Sensible
  <2> QED
    BY <2>2, <2>3, SoundType
<1>2. \A o, p : <<o, p>> \in Moves =>
          o \in SoundMonitors /\ p \in SoundMonitors /\ p.gen = o.gen /\ p.spec = o.spec
  BY MoveType DEF MayBecome
<1> QED
  BY <1>1, <1>2, NilIsNoObject DEF Closed, SoundMonitors

LEMMA NewIsSound ==
    ASSUME NEW s \in Specs
    PROVE  [gen |-> 1, spec |-> s, status |-> NoStatus] \in SoundMonitors
<1>1. NoStatus \in Status
  BY DEF NoStatus, Status, ConditionType
<1>2. /\ NoStatus.obsGen = 0 /\ NoStatus.expiring = 0 /\ NoStatus.expired = 0
      /\ NoStatus.total = 0 /\ NoStatus.certs = <<>>
      /\ NoStatus.conds["CertificatesExpiring"] = Nil
      /\ NoStatus.conds["CertificatesExpired"] = Nil
  BY DEF NoStatus, ConditionType
<1>3. Listed(NoStatus) = {} /\ Expired(NoStatus) = {}
  BY <1>2 DEF Listed, Expired, ToSet
<1>4. AddsUp(NoStatus)
  BY <1>2, <1>3, FS_EmptySet DEF AddsUp
<1> QED
  BY <1>1, <1>2, <1>4, SoundType DEF Sensible

LEMMA SetStatusConditionType ==
    ASSUME NEW conds \in Conditions, NEW type \in ConditionType, NEW b \in BOOLEAN,
           NEW reason \in Reason, NEW gen \in Nat
    PROVE  /\ SetStatusCondition(conds, type, b, reason, gen) \in Conditions
           /\ SetStatusCondition(conds, type, b, reason, gen)[type]
                 = [status |-> b, reason |-> reason, gen |-> gen]
           /\ \A other \in ConditionType \ {type} :
                 SetStatusCondition(conds, type, b, reason, gen)[other] = conds[other]
<1>1. [status |-> b, reason |-> reason, gen |-> gen] \in Condition(Reason)
  BY DEF Condition
<1> QED
  BY <1>1 DEF SetStatusCondition, Conditions

LEMMA CountConditionType ==
    ASSUME NEW conds \in Conditions, NEW type \in ConditionType, NEW count \in Nat,
           NEW yes \in Reason, NEW no \in Reason, NEW gen \in Nat
    PROVE  /\ CountCondition(conds, type, count, yes, no, gen) \in Conditions
           /\ CountCondition(conds, type, count, yes, no, gen)[type].status <=> count > 0
           /\ \A other \in ConditionType \ {type} :
                 CountCondition(conds, type, count, yes, no, gen)[other] = conds[other]
<1> DEFINE b == count > 0
           reason == IF count > 0 THEN yes ELSE no
<1>1. b \in BOOLEAN /\ reason \in Reason
  OBVIOUS
<1>2. CountCondition(conds, type, count, yes, no, gen)
          = SetStatusCondition(conds, type, b, reason, gen)
  BY DEF CountCondition
<1> HIDE DEF b, reason
<1>3. /\ SetStatusCondition(conds, type, b, reason, gen) \in Conditions
      /\ SetStatusCondition(conds, type, b, reason, gen)[type]
            = [status |-> b, reason |-> reason, gen |-> gen]
      /\ \A other \in ConditionType \ {type} :
            SetStatusCondition(conds, type, b, reason, gen)[other] = conds[other]
  BY <1>1, SetStatusConditionType
<1>4. SetStatusCondition(conds, type, b, reason, gen)[type].status <=> b
  BY <1>1, <1>3
<1>5. b <=> count > 0
  BY DEF b
<1> QED
  BY <1>2, <1>3, <1>4, <1>5

\* Only Ready changes, so that the accounts stay as they were.
LEMMA SuspendedSound ==
    ASSUME NEW o \in SoundMonitors
    PROVE  LET p == [o EXCEPT !.status.conds =
                        SetStatusCondition(@, "Ready", FALSE, "Suspended", o.gen)]
           IN  /\ p \in SoundMonitors /\ p.gen = o.gen /\ p.spec = o.spec
               /\ KeepsReport(o, p.status)
               /\ Says(o, p.status, FALSE, "Suspended")
<1> DEFINE c == SetStatusCondition(o.status.conds, "Ready", FALSE, "Suspended", o.gen)
           s == [o.status EXCEPT !.conds = c]
           p == [o EXCEPT !.status = s]
<1>1. /\ o \in [gen : Nat, spec : Specs, status : Status]
      /\ Sensible(o.status, o.gen, o.spec)
      /\ o.status.conds \in Conditions
      /\ o.gen \in Nat
  BY SoundType DEF Status, Conditions
<1>2. /\ c \in Conditions
      /\ c["Ready"] = [status |-> FALSE, reason |-> "Suspended", gen |-> o.gen]
      /\ c["CertificatesExpiring"] = o.status.conds["CertificatesExpiring"]
      /\ c["CertificatesExpired"] = o.status.conds["CertificatesExpired"]
  <2>1. "Ready" \in ConditionType /\ "Suspended" \in Reason
    BY DEF ConditionType, Reason
  <2>2. /\ c \in Conditions
        /\ c["Ready"] = [status |-> FALSE, reason |-> "Suspended", gen |-> o.gen]
        /\ \A other \in ConditionType \ {"Ready"} : c[other] = o.status.conds[other]
    <3> DEFINE b == FALSE
    <3>1. b \in BOOLEAN /\ c = SetStatusCondition(o.status.conds, "Ready", b, "Suspended", o.gen)
      OBVIOUS
    <3> HIDE DEF b, c
    <3>2. /\ c \in Conditions
          /\ c["Ready"] = [status |-> b, reason |-> "Suspended", gen |-> o.gen]
          /\ \A other \in ConditionType \ {"Ready"} : c[other] = o.status.conds[other]
      BY <1>1, <2>1, <3>1, SetStatusConditionType
    <3> QED
      BY <3>2 DEF b
  <2> HIDE DEF c
  <2> QED
    BY <2>2 DEF ConditionType
<1>3. [o EXCEPT !.status.conds =
          SetStatusCondition(@, "Ready", FALSE, "Suspended", o.gen)] = p
  BY <1>1 DEF Status
<1> HIDE DEF c
<1>4. /\ s \in Status
      /\ s.obsGen = o.status.obsGen /\ s.certs = o.status.certs
      /\ s.total = o.status.total /\ s.expiring = o.status.expiring
      /\ s.expired = o.status.expired /\ s.conds = c
  BY <1>1, <1>2 DEF Status, Conditions
<1> HIDE DEF s
<1>5. /\ p \in [gen : Nat, spec : Specs, status : Status]
      /\ p.gen = o.gen /\ p.spec = o.spec /\ p.status = s
  BY <1>1, <1>4
<1> HIDE DEF p
<1>6. Listed(s) = Listed(o.status) /\ Expired(s) = Expired(o.status)
  BY <1>4 DEF Listed, Expired
<1>7. Sensible(p.status, p.gen, p.spec)
  BY <1>1, <1>2, <1>4, <1>5, <1>6 DEF Sensible, AddsUp, NotPlayedDown
<1>8. KeepsReport(o, s)
  BY <1>4, <1>6 DEF KeepsReport, ReportOf, Finding
<1>9. Says(o, s, FALSE, "Suspended")
  BY <1>2, <1>4 DEF Says
<1> QED
  BY <1>3, <1>5, <1>7, <1>8, <1>9, SoundType

-----------------------------------------------------------------------------
(***************************************************************************)
(* The scan of a namespace.                                                *)
(***************************************************************************)
LEMMA DaysType ==
    ASSUME NEW t \in Nat, now \in Nat
    PROVE  DaysUntil(t) \in Int
BY CertificateAssumption DEF DaysUntil

\* What is found of the secrets of S: at most one info of each.
LEMMA ExpiringFacts ==
    ASSUME NEW S \in SUBSET Secrets, NEW world \in [Secrets -> Contents],
           \A s \in S : world[s] # Nil, NEW spec \in Specs, now \in Nat
    PROVE  LET E == ExpiringOf(S, world, spec)
           IN  /\ E \subseteq CertificateInfo
               /\ IsFiniteSet(E) /\ IsFiniteSet(S)
               /\ Cardinality(E) <= Cardinality(S)
               /\ \A c \in E : c.secret \in S
               /\ \A c \in E : c.severity = SeverityOf(c.days, spec)
               /\ \A c, d \in E : c.secret = d.secret => c = d
<1> DEFINE days(s) == DaysUntil(world[s].notAfter)
           T == {t \in S : world[t].pem /\ SeverityOf(days(t), spec) # "None"}
           info(s) == [secret |-> s, notAfter |-> world[s].notAfter, days |-> days(s),
                       severity |-> SeverityOf(days(s), spec)]
           E == ExpiringOf(S, world, spec)
           f == [s \in T |-> info(s)]
<1>1. E = {info(s) : s \in T}
  BY DEF ExpiringOf
<1>2. IsFiniteSet(S)
  BY FS_Subset, CertificateAssumption
<1>3. T \in SUBSET S
  OBVIOUS
<1>4. ASSUME NEW s \in T
      PROVE  /\ info(s) \in CertificateInfo
             /\ info(s).secret = s
             /\ info(s).severity = SeverityOf(info(s).days, spec)
  <2>1. world[s] \in Certificate /\ world[s].pem
    BY <1>4 DEF Contents
  <2>2. world[s].notAfter \in NotAfters /\ world[s].notAfter \in Nat
    BY <2>1, CertificateAssumption DEF Certificate
  <2>3. days(s) \in Int
    BY <2>2, DaysType
  <2>4. SeverityOf(days(s), spec) \in Severity
    BY <1>4, <2>3 DEF SeverityOf, Severity
  <2> HIDE DEF days
  <2> QED
    BY <1>4, <2>2, <2>3, <2>4 DEF CertificateInfo
<1> HIDE DEF T, info
<1>5. f \in Surjection(T, E)
  BY <1>1, Zenon DEF Surjection
<1>6. /\ IsFiniteSet(T) /\ Cardinality(T) <= Cardinality(S)
      /\ IsFiniteSet(E) /\ Cardinality(E) <= Cardinality(T)
      /\ Cardinality(S) \in Nat /\ Cardinality(T) \in Nat /\ Cardinality(E) \in Nat
  <2>1. IsFiniteSet(T) /\ Cardinality(T) <= Cardinality(S)
    BY <1>2, <1>3, FS_Subset
  <2>2. IsFiniteSet(E) /\ Cardinality(E) <= Cardinality(T)
    BY <1>5, <2>1, FS_Surjection
  <2> QED
    BY <1>2, <2>1, <2>2, FS_CardinalityType
<1> QED
  BY <1>1, <1>2, <1>3, <1>4, <1>6

LEMMA SequenceOfSet ==
    ASSUME NEW S, IsFiniteSet(S), NEW s \in SetToSeqs(S)
    PROVE  /\ s \in Seq(S)
           /\ Len(s) = Cardinality(S)
           /\ \A i, j \in DOMAIN s : s[i] = s[j] => i = j
<1>1. Cardinality(S) \in Nat /\ s \in [1 .. Cardinality(S) -> S]
  BY FS_CardinalityType DEF SetToSeqs
<1>2. \A i, j \in 1 .. Cardinality(S) : s[i] = s[j] => i = j
  BY DEF SetToSeqs
<1> QED
  BY <1>1, <1>2

\* One turn of the loop over the namespaces.
LEMMA ScanNamespaceKeeps ==
    ASSUME CertificateInv, NEW n \in todo, ScanNamespace(n)
    PROVE  ScanOK' /\ ScanFits'
<1>1. /\ ScanOK /\ ScanFits /\ pc = "scan" /\ now \in Nat
      /\ scache \in [Secrets -> Contents]
      /\ todo' = todo \ {n} /\ n \in todo
      /\ obj' = obj /\ targets' = targets
      /\ obj \in SoundMonitors
  BY DEF CertificateInv, ScanNamespace, workerVars, RuntimeInv, CountersOK, WorkerOK,
         Versions
<1>2. obj.spec \in Specs
  BY <1>1, SoundType
<1>3. CASE found' = found /\ scanned' = scanned
  BY <1>1, <1>3 DEF ScanOK, ScanFits
<1>4. CASE \E infos \in SetToSeqs(ExpiringOf(TLSSecretsIn(n, scache), scache, obj.spec)) :
              /\ found' = found \o infos
              /\ scanned' = scanned + Cardinality(TLSSecretsIn(n, scache))
  <2> DEFINE listed == TLSSecretsIn(n, scache)
             E == ExpiringOf(listed, scache, obj.spec)
  <2>1. PICK infos \in SetToSeqs(E) :
            found' = found \o infos /\ scanned' = scanned + Cardinality(listed)
    BY <1>4
  <2>2. /\ listed \in SUBSET Secrets
        /\ \A s \in listed : s \in TLSSecrets /\ NsOf[s] = n /\ scache[s] # Nil
    BY CertificateAssumption DEF TLSSecretsIn
  <2>3. /\ E \subseteq CertificateInfo
        /\ IsFiniteSet(E) /\ IsFiniteSet(listed)
        /\ Cardinality(E) <= Cardinality(listed)
        /\ \A c \in E : c.secret \in listed
        /\ \A c \in E : c.severity = SeverityOf(c.days, obj.spec)
        /\ \A c, d \in E : c.secret = d.secret => c = d
    BY <1>1, <1>2, <2>2, ExpiringFacts
  <2> HIDE DEF listed, E
  <2>4. Cardinality(E) \in Nat /\ Cardinality(listed) \in Nat
    BY <2>3, FS_CardinalityType
  <2>5. /\ infos \in Seq(E) /\ Len(infos) = Cardinality(E)
        /\ \A i, j \in DOMAIN infos : infos[i] = infos[j] => i = j
    BY <2>3, SequenceOfSet
  <2>6. /\ infos \in Seq(CertificateInfo)
        /\ \A i \in DOMAIN infos :
              /\ infos[i] \in E
              /\ infos[i].secret \in TLSSecrets
              /\ NsOf[infos[i].secret] = n
              /\ infos[i].severity = SeverityOf(infos[i].days, obj.spec)
        /\ \A i, j \in DOMAIN infos : infos[i].secret = infos[j].secret => i = j
    <3>1. \A i \in DOMAIN infos : infos[i] \in E
      BY <2>5
    <3>2. infos \in Seq(CertificateInfo)
      BY <2>3, <2>5
    <3> QED
      BY <2>2, <2>3, <2>5, <3>1, <3>2
  <2>7. /\ found \in Seq(CertificateInfo)
        /\ found' \in Seq(CertificateInfo)
        /\ Len(found') = Len(found) + Len(infos)
        /\ Len(found) \in Nat /\ Len(infos) \in Nat
        /\ DOMAIN found = 1 .. Len(found) /\ DOMAIN infos = 1 .. Len(infos)
        /\ DOMAIN found' = 1 .. (Len(found) + Len(infos))
        /\ \A i \in 1 .. (Len(found) + Len(infos)) :
              found'[i] = IF i <= Len(found) THEN found[i] ELSE infos[i - Len(found)]
    BY <1>1, <2>1, <2>6 DEF ScanOK
  <2>8. ASSUME NEW i \in DOMAIN found'
        PROVE  \/ i \in DOMAIN found /\ found'[i] = found[i]
               \/ /\ i - Len(found) \in DOMAIN infos
                  /\ found'[i] = infos[i - Len(found)]
    BY <2>7
  <2>9. Len(found') <= scanned'
    BY <1>1, <2>1, <2>3, <2>4, <2>5, <2>7 DEF ScanOK
  <2>10. scanned' \in Nat
    BY <1>1, <2>1, <2>4 DEF ScanOK
  <2>11. ScanFits'
    BY <1>1, <2>6, <2>8 DEF ScanFits
  <2>12. \A i \in DOMAIN found' : NsOf[found'[i].secret] \notin todo'
    BY <1>1, <2>6, <2>8 DEF ScanOK
  <2>13. \A i, j \in DOMAIN found' : found'[i].secret = found'[j].secret => i = j
    <3>1. ASSUME NEW i \in DOMAIN found', NEW j \in DOMAIN found',
                 found'[i].secret = found'[j].secret
          PROVE  i = j
      <4>1. i \in Int /\ j \in Int
        BY <2>7
      <4>2. CASE i \in DOMAIN found /\ found'[i] = found[i]
        <5>1. j \in DOMAIN found /\ found'[j] = found[j]
          BY <1>1, <2>6, <2>8, <3>1, <4>2 DEF ScanOK
        <5> QED
          BY <1>1, <3>1, <4>2, <5>1 DEF ScanOK
      <4>3. CASE i - Len(found) \in DOMAIN infos /\ found'[i] = infos[i - Len(found)]
        <5>1. j - Len(found) \in DOMAIN infos /\ found'[j] = infos[j - Len(found)]
          BY <1>1, <2>6, <2>8, <3>1, <4>3 DEF ScanOK
        <5>2. i - Len(found) = j - Len(found)
          BY <2>6, <3>1, <4>3, <5>1
        <5> QED
          BY <2>7, <4>1, <5>2
      <4> QED
        BY <2>8, <4>2, <4>3
    <3> QED
      BY <3>1
  <2> QED
    BY <1>1, <2>7, <2>9, <2>10, <2>11, <2>12, <2>13 DEF ScanOK
<1> QED
  BY <1>3, <1>4 DEF ScanNamespace

-----------------------------------------------------------------------------
(***************************************************************************)
(* The report of a scan.                                                   *)
(***************************************************************************)
\* Counting places in the list and counting infos is the same.
LEMMA CountIsCardinality ==
    ASSUME NEW certs \in Seq(CertificateInfo),
           \A i, j \in DOMAIN certs : certs[i].secret = certs[j].secret => i = j,
           NEW severities, NEW C \in SUBSET ToSet(certs),
           \A c \in ToSet(certs) : c \in C <=> c.severity \in severities
    PROVE  /\ Count(certs, severities) = Cardinality(C)
           /\ Count(certs, severities) \in Nat
           /\ Count(certs, severities) <= Len(certs)
           /\ Count(certs, severities) > 0 <=> C # {}
<1> DEFINE I == {i \in DOMAIN certs : certs[i].severity \in severities}
           f == [i \in I |-> certs[i]]
<1>1. Len(certs) \in Nat /\ DOMAIN certs = 1 .. Len(certs)
  OBVIOUS
<1>2. IsFiniteSet(1 .. Len(certs)) /\ Cardinality(1 .. Len(certs)) = Len(certs)
  BY <1>1, FS_Interval
<1>3. IsFiniteSet(I) /\ Cardinality(I) <= Len(certs)
  BY <1>1, <1>2, FS_Subset
<1>4. f \in Bijection(I, C)
  <2>1. \A i, j \in I : certs[i] = certs[j] => i = j
    OBVIOUS
  <2>2. \A i \in I : certs[i] \in C
    BY DEF ToSet
  <2>3. \A c \in C : \E i \in I : certs[i] = c
    BY DEF ToSet
  <2> HIDE DEF I
  <2> QED
    BY <2>1, <2>2, <2>3 DEF Bijection, Injection, Surjection, IsInjective
<1>5. Cardinality(C) = Cardinality(I) /\ IsFiniteSet(C)
  BY <1>3, <1>4, FS_Bijection DEF ExistsBijection
<1>6. Cardinality(C) \in Nat /\ (Cardinality(C) = 0 <=> C = {})
  BY <1>5, FS_CardinalityType, FS_EmptySet
<1>7. Count(certs, severities) = Cardinality(I)
  BY DEF Count
<1> QED
  BY <1>3, <1>5, <1>6, <1>7

\* A report speaks for its own scan.
LEMMA ReportSound ==
    ASSUME CertificateInv, pc = "scan"
    PROVE  /\ Report(obj) \in SoundMonitors
           /\ Report(obj).gen = obj.gen
           /\ Report(obj).spec = obj.spec
           /\ Completes(obj, Report(obj).status)
<1> DEFINE E == {x \in ToSet(found) : x.severity = "Expired"}
           expired == ExpiredCount(found)
           expiring == ExpiringCount(found)
           a == CountCondition(obj.status.conds, "CertificatesExpired", expired,
                       "CertificatesExpired", "NoCertificatesExpired", obj.gen)
           b == CountCondition(a, "CertificatesExpiring", expiring,
                       "CertificatesExpiring", "NoCertificatesExpiring", obj.gen)
           c == SetStatusCondition(b, "Ready", TRUE, "ScanComplete", obj.gen)
           across == targets - Cardinality(obj.spec.exclude)
           r == [obj.status EXCEPT !.certs = found, !.total = scanned,
                                   !.expiring = expiring, !.expired = expired]
           s == [r EXCEPT !.across = across, !.lastScan = now, !.obsGen = obj.gen,
                          !.conds = c]
           p == [obj EXCEPT !.status = s]
<1>1. /\ obj \in [gen : Nat, spec : Specs, status : Status]
      /\ obj.status.conds \in Conditions
      /\ obj.gen \in Nat /\ obj.spec \in SpecRecord
      /\ ScanOK /\ ScanFits /\ now \in Nat
  <2>1. obj \in SoundMonitors /\ ScanOK /\ ScanFits /\ now \in Nat
    BY DEF CertificateInv, RuntimeInv, WorkerOK, Versions, CountersOK
  <2>2. obj \in [gen : Nat, spec : Specs, status : Status]
    BY <2>1, SoundType
  <2> QED
    BY <2>1, <2>2, CertificateAssumption DEF Status, Conditions
<1>2. /\ found \in Seq(CertificateInfo)
      /\ Len(found) \in Nat /\ scanned \in Nat /\ Len(found) <= scanned
      /\ \A i, j \in DOMAIN found : found[i].secret = found[j].secret => i = j
  BY <1>1 DEF ScanOK
<1>3. /\ \A x \in ToSet(found) : x \in CertificateInfo /\ x.severity \in Severity
      /\ \A x, y \in ToSet(found) : x.secret = y.secret => x = y
      /\ \A x \in ToSet(found) : x.severity = SeverityOf(x.days, obj.spec)
  <2>1. \A i \in DOMAIN found : found[i] \in CertificateInfo
    BY <1>2
  <2> QED
    BY <1>1, <1>2, <2>1 DEF ToSet, CertificateInfo, ScanFits
<1>4. /\ expiring \in Nat /\ expiring <= scanned
      /\ expiring = Cardinality(ToSet(found))
      /\ expiring > 0 <=> ToSet(found) # {}
  <2> DEFINE C == ToSet(found)
  <2>1. C \in SUBSET ToSet(found)
        /\ \A x \in ToSet(found) : x \in C <=> x.severity \in Severity
    BY <1>3
  <2> HIDE DEF C
  <2>2. /\ expiring \in Nat /\ expiring <= Len(found) /\ expiring = Cardinality(C)
        /\ expiring > 0 <=> C # {}
    BY <1>2, <2>1, CountIsCardinality DEF ExpiringCount
  <2> HIDE DEF expiring
  <2> QED
    BY <1>2, <2>2 DEF C
<1>5. /\ expired \in Nat
      /\ expired = Cardinality(E)
      /\ expired > 0 <=> E # {}
  <2>1. E \in SUBSET ToSet(found)
        /\ \A x \in ToSet(found) : x \in E <=> x.severity \in {"Expired"}
    OBVIOUS
  <2> HIDE DEF E
  <2> QED
    BY <1>2, <2>1, CountIsCardinality DEF ExpiredCount
<1>6. across \in Int
  <2>1. IsFiniteSet(obj.spec.exclude)
    BY <1>1, FS_Subset, CertificateAssumption DEF SpecRecord
  <2> QED
    BY <1>1, <2>1, FS_CardinalityType DEF ScanOK
<1>7. Report(obj) = p
  BY <1>1 DEF Report
<1> HIDE DEF E, expiring, expired, across
<1>8. /\ c \in Conditions
      /\ c["Ready"] = [status |-> TRUE, reason |-> "ScanComplete", gen |-> obj.gen]
      /\ c["CertificatesExpired"].status <=> expired > 0
      /\ c["CertificatesExpiring"].status <=> expiring > 0
  <2>1. /\ "CertificatesExpired" \in Reason /\ "NoCertificatesExpired" \in Reason
        /\ "CertificatesExpiring" \in Reason /\ "NoCertificatesExpiring" \in Reason
        /\ "ScanComplete" \in Reason /\ "Ready" \in ConditionType
        /\ "CertificatesExpired" \in ConditionType
        /\ "CertificatesExpiring" \in ConditionType
    BY DEF Reason, ConditionType
  <2>2. /\ a \in Conditions
        /\ a["CertificatesExpired"].status <=> expired > 0
    BY <1>1, <1>5, <2>1, CountConditionType
  <2> HIDE DEF a
  <2>3. b \in Conditions
    BY <1>1, <1>4, <2>1, <2>2, CountConditionType
  <2>4. b["CertificatesExpiring"].status <=> expiring > 0
    BY <1>1, <1>4, <2>1, <2>2, CountConditionType
  <2>5. b["CertificatesExpired"] = a["CertificatesExpired"]
    BY <2>1, <2>2 DEF CountCondition, SetStatusCondition, Conditions
  <2> HIDE DEF b
  <2>6. /\ c \in Conditions
        /\ c["Ready"] = [status |-> TRUE, reason |-> "ScanComplete", gen |-> obj.gen]
    <3> DEFINE yes == TRUE
    <3>1. yes \in BOOLEAN /\ c = SetStatusCondition(b, "Ready", yes, "ScanComplete", obj.gen)
      OBVIOUS
    <3> HIDE DEF yes, c
    <3>2. /\ c \in Conditions
          /\ c["Ready"] = [status |-> yes, reason |-> "ScanComplete", gen |-> obj.gen]
      BY <1>1, <2>1, <2>3, <3>1, SetStatusConditionType
    <3> QED
      BY <3>2 DEF yes
  <2>7. /\ c["CertificatesExpired"] = b["CertificatesExpired"]
        /\ c["CertificatesExpiring"] = b["CertificatesExpiring"]
    BY <2>1, <2>3 DEF SetStatusCondition, Conditions
  <2> HIDE DEF c
  <2> QED
    BY <2>2, <2>4, <2>5, <2>6, <2>7
<1> HIDE DEF c
<1>9. /\ s \in Status
      /\ s.certs = found /\ s.total = scanned /\ s.obsGen = obj.gen
      /\ s.expiring = expiring /\ s.expired = expired /\ s.conds = c
  <2>1. c \in [ConditionType -> Condition(Reason) \cup {Nil}]
    BY <1>8 DEF Conditions
  <2>2. /\ r \in Status /\ r.certs = found /\ r.total = scanned
        /\ r.expiring = expiring /\ r.expired = expired
    BY <1>1, <1>2, <1>4, <1>5 DEF Status
  <2> HIDE DEF r
  <2> QED
    BY <1>1, <1>6, <2>1, <2>2 DEF Status
<1> HIDE DEF s
<1>10. /\ p \in [gen : Nat, spec : Specs, status : Status]
       /\ p.gen = obj.gen /\ p.spec = obj.spec /\ p.status = s
  BY <1>1, <1>9
<1> HIDE DEF p
<1>11. Listed(s) = ToSet(found)
       /\ Expired(s) = E
  BY <1>9 DEF Listed, Expired, E
<1>12. AddsUp(s)
  BY <1>3, <1>4, <1>5, <1>8, <1>9, <1>11 DEF AddsUp
<1>13. NotPlayedDown(s, obj.spec)
  <2>1. ASSUME NEW x \in ToSet(found), x.days <= obj.spec.criticalDays
        PROVE  x.severity # "Warning"
    <3>1. x.days \in Int /\ obj.spec.criticalDays \in Nat
      BY <1>1, <1>3 DEF CertificateInfo, SpecRecord
    <3>2. SeverityOf(x.days, obj.spec) # "Warning"
      BY <2>1, <3>1 DEF SeverityOf, CriticalDays, OrDefault
    <3> QED
      BY <1>3, <3>2
  <2> QED
    BY <1>11, <2>1 DEF NotPlayedDown
<1>14. Sensible(p.status, p.gen, p.spec)
  BY <1>1, <1>9, <1>10, <1>12, <1>13 DEF Sensible
<1>15. Finding(s) \in AdmissibleFor(obj.spec)
  <2>1. \A x \in ToSet(found) : /\ x.secret \in TLSSecrets
                                /\ NsOf[x.secret] \notin obj.spec.exclude
    BY <1>1 DEF ScanFits, ToSet
  <2>2. obj.spec.selector # Nil
    BY <1>1 DEF ScanFits
  <2>3. Finding(s) \in SUBSET [secret : TLSSecrets, severity : Severity]
    BY <1>3, <1>11, <2>1 DEF Finding
  <2>4. \A x \in Finding(s) : NsOf[x.secret] \notin obj.spec.exclude
    BY <1>11, <2>1 DEF Finding
  <2>5. \A x, y \in Finding(s) : x.secret = y.secret => x = y
    BY <1>3, <1>11 DEF Finding
  <2> QED
    BY <2>2, <2>3, <2>4, <2>5 DEF AdmissibleFor
<1>16. Completes(obj, s)
  BY <1>8, <1>9, <1>15 DEF Completes, Says
<1> QED
  BY <1>7, <1>10, <1>14, <1>16, SoundType

\* What the recorder does with Events keeps them Events.
LEMMA RecorderKeeps ==
    ASSUME RecorderOK,
           \/ \E es \in SUBSET Event : Record(es)
           \/ SendEvent \/ DropEvent \/ DropUnsent
           \/ UNCHANGED eventVars
    PROVE  RecorderOK'
BY DEF RecorderOK, Record, SendEvent, DropEvent, DropUnsent, eventVars

LEMMA EventsType ==
    ASSUME CertificateInv, pc = "scan"
    PROVE  ExpiryEvents(obj) \subseteq Event
<1>1. key \in Monitors
  BY DEF CertificateInv, RuntimeInv, WorkerOK
<1>2. \A i \in DOMAIN found : found[i] \in CertificateInfo
  BY DEF CertificateInv, ScanOK
<1> QED
  BY <1>1, <1>2 DEF ExpiryEvents, ToSet, Event, CertificateInfo

-----------------------------------------------------------------------------
(***************************************************************************)
(* The invariant.                                                          *)
(***************************************************************************)
LEMMA EmptyScan ==
    ASSUME todo = {}, found = <<>>, scanned = 0, targets = 0
    PROVE  ScanOK
<1>1. found \in Seq(CertificateInfo) /\ Len(found) = 0 /\ DOMAIN found = {}
  OBVIOUS
<1> QED
  BY <1>1 DEF ScanOK

LEMMA InitCertificate == Init => CertificateInv
<1> SUFFICES ASSUME Init
             PROVE  CertificateInv
  OBVIOUS
<1>1. RuntimeInv(SoundMonitors, Status, Moves)
  BY RuntimeInitOK DEF Init
<1>2. ScanOK
  BY EmptyScan DEF Init
<1>3. RecorderOK
  BY DEF Init, RecorderInit, RecorderOK
<1> QED
  BY <1>1, <1>2, <1>3 DEF Init, RuntimeInit, CertificateInv, Phases, Contents

\* What a step does to the store.
StoreStep ==
    \/ Moved(Moves)
    \/ \E m \in Monitors :
          \/ \E s \in Specs : CreateMonitor(m, s, NoStatus) \/ UpdateSpec(m, s)
          \/ DeleteMonitor(m)

LEMMA ReconcileCertificate ==
    ASSUME CertificateInv, Reconcile
    PROVE  CertificateInv' /\ Moved(Moves)
<1> DEFINE Sound == SoundMonitors
<1>1. /\ RuntimeInv(Sound, Status, Moves) /\ Closed(Sound, Status, Moves)
      /\ pc \in Phases /\ ScanOK
      /\ RecorderOK
      /\ now \in Nat
  BY SoundIsClosed DEF CertificateInv, RuntimeInv, CountersOK
<1>2. UNCHANGED clusterVars /\ CountersOK'
  BY <1>1
  DEF Reconcile, GetFails, MonitorGone, ReconcileSuspended, ReconcileActive, PutSuspended,
      NamespacesFail, getTargetNamespaces, ScanNamespace, FinishScan, PutReport,
      StatusUpdated, StatusUpdateFailed, Fault, boundVars, RuntimeInv, CountersOK
<1>3. /\ pc # "idle" => key \in Monitors
      /\ pc \notin {"idle", "get"} => obj \in Sound
      /\ \A m \in Monitors : mcache[m] # Nil => mcache[m] \in Sound
  BY <1>1 DEF RuntimeInv, WorkerOK, StoreOK, Versions
<1>4. ASSUME RuntimeInv(Sound, Status, Moves)', pc' \in Phases, ScanOK', pc' = "scan" => ScanFits',
             RecorderOK'
      PROVE  CertificateInv'
  BY <1>2, <1>4 DEF CertificateInv, clusterVars
<1>5. UNCHANGED scanVars => ScanOK'
  BY <1>1 DEF ScanOK, scanVars
<1>6. CASE GetFails \/ MonitorGone \/ PutSuspended \/ NamespacesFail \/ PutReport
  <2>1. Ends
    BY <1>6
    DEF Ends, GetFails, MonitorGone, PutSuspended, NamespacesFail, PutReport, PutPhases
  <2>2. RuntimeInv(Sound, Status, Moves)' /\ Moved(Moves)
    BY <1>1, <1>2, <2>1, EndsKeeps, NilAssumption
  <2>3. pc' = "idle" /\ UNCHANGED scanVars /\ UNCHANGED eventVars
    BY <1>6
    DEF GetFails, MonitorGone, PutSuspended, NamespacesFail, PutReport, Finished,
        FinishedRequeue, WorkerFree
  <2> QED
    BY <1>1, <1>4, <1>5, <2>2, <2>3, RecorderKeeps DEF Phases
<1>7. CASE ReconcileSuspended \/ ReconcileActive
  <2> DEFINE ack == [mcache[key] EXCEPT !.status.conds =
                 SetStatusCondition(@, "Ready", FALSE, "Suspended", mcache[key].gen)]
  <2>1. /\ pc = "get" /\ mcache[key] # Nil /\ key \in Monitors
        /\ mcache[key] \in Sound
        /\ fresh' = (mwatch[key] = <<>>)
        /\ UNCHANGED <<api, mwatch, late, mcache, queue, key>>
        /\ UNCHANGED scanVars /\ UNCHANGED eventVars
        /\ \/ obj' = ack /\ pc' = "putSuspended" /\ mcache[key].spec.suspend
           \/ obj' = mcache[key] /\ pc' = "namespaces" /\ ~mcache[key].spec.suspend
    BY <1>3, <1>7 DEF ReconcileSuspended, ReconcileActive, CopyFromCache, storeVars
  <2>2. /\ ack \in Sound
        /\ ack.gen = mcache[key].gen /\ ack.spec = mcache[key].spec
        /\ KeepsReport(mcache[key], ack.status)
        /\ Says(mcache[key], ack.status, FALSE, "Suspended")
    BY <2>1, SuspendedSound
  <2> HIDE DEF ack
  <2>3. mcache[key].spec.suspend => <<mcache[key], ack>> \in Moves
    BY <2>1, <2>2, MoveType DEF MayBecome, MayFollow
  <2>4. Begins(Moves)
    BY <2>1, <2>2, <2>3 DEF Begins, PutPhases
  <2>5. RuntimeInv(Sound, Status, Moves)'
    BY <1>1, <1>2, <2>4, BeginsKeeps
  <2> QED
    BY <1>1, <1>4, <1>5, <2>1, <2>5, RecorderKeeps DEF Phases, Moved
<1>8. CASE getTargetNamespaces \/ (\E n \in todo : ScanNamespace(n)) \/ FinishScan
  <2>1. /\ pc \in {"namespaces", "scan"} /\ obj \in Sound /\ ~obj.spec.suspend
        /\ UNCHANGED <<api, mwatch, late, mcache, queue, key, fresh>>
        /\ pc' \in {"scan", "putReport"}
    BY <1>1, <1>3, <1>8
    DEF getTargetNamespaces, ScanNamespace, FinishScan, storeVars, workerVars,
        RuntimeInv, Suspension, PutPhases
  <2>2. /\ IF pc' = "putReport" THEN <<obj, obj'>> \in Moves ELSE obj' = obj
        /\ ScanOK' /\ (pc' = "scan" => ScanFits')
        /\ RecorderOK'
    <3>1. CASE getTargetNamespaces
      <4>1. todo' \in SUBSET Namespaces /\ targets' \in Nat
        <5> DEFINE N == {n \in Namespaces : ncache[n] \in obj.spec.selector}
        <5>1. todo' \subseteq N /\ targets' = Cardinality(N)
          BY <3>1 DEF getTargetNamespaces
        <5>2. N \subseteq Namespaces
          OBVIOUS
        <5> HIDE DEF N
        <5>3. IsFiniteSet(N)
          BY <5>2, FS_Subset, CertificateAssumption
        <5> QED
          BY <5>1, <5>2, <5>3, FS_CardinalityType
      <4>2. found' = <<>> /\ scanned' = 0
        BY <3>1 DEF getTargetNamespaces
      <4>3. found' \in Seq(CertificateInfo) /\ Len(found') = 0 /\ DOMAIN found' = {}
        BY <4>2
      <4>4. /\ obj' = obj /\ obj.spec.selector # Nil
            /\ todo' \cap obj.spec.exclude = {}
        BY <3>1 DEF getTargetNamespaces
      <4>5. ScanOK' /\ ScanFits'
        BY <4>1, <4>2, <4>3, <4>4 DEF ScanOK, ScanFits
      <4> QED
        BY <1>1, <2>1, <3>1, <4>5, RecorderKeeps DEF getTargetNamespaces
    <3>2. CASE \E n \in todo : ScanNamespace(n)
      <4>1. ScanOK' /\ ScanFits'
        BY <3>2, ScanNamespaceKeeps
      <4> QED
        BY <1>1, <2>1, <3>2, <4>1, RecorderKeeps DEF ScanNamespace, workerVars
    <3>3. CASE FinishScan
      <4>1. /\ obj' = Report(obj) /\ pc = "scan" /\ pc' = "putReport"
            /\ Record(ExpiryEvents(obj))
            /\ todo' = {} /\ found' = <<>> /\ scanned' = 0 /\ targets' = 0
        BY <3>3 DEF FinishScan, ClearScan
      <4>2. found' \in Seq(CertificateInfo) /\ Len(found') = 0 /\ DOMAIN found' = {}
        BY <4>1
      <4>3. ScanOK'
        BY <4>1, <4>2 DEF ScanOK
      <4>4. <<obj, obj'>> \in Moves
        BY <2>1, <4>1, ReportSound, MoveType DEF MayBecome, MayFollow
      <4> QED
        BY <1>1, <4>1, <4>3, <4>4, EventsType, RecorderKeeps
    <3> QED
      BY <1>8, <3>1, <3>2, <3>3
  <2>3. RuntimeInv(Sound, Status, Moves)'
    BY <1>1, <1>2, <2>1, <2>2, GoesOnKeeps DEF GoesOn, PutPhases
  <2> QED
    BY <1>4, <2>1, <2>2, <2>3 DEF Phases, Moved
<1> QED
  BY <1>6, <1>7, <1>8 DEF Reconcile

LEMMA NextCertificate ==
    ASSUME CertificateInv, [Next]_vars
    PROVE  CertificateInv' /\ StoreStep
<1> DEFINE Sound == SoundMonitors
<1>1. /\ RuntimeInv(Sound, Status, Moves) /\ Closed(Sound, Status, Moves)
      /\ CountersOK
      /\ \A s \in Specs : [gen |-> 1, spec |-> s, status |-> NoStatus] \in Sound
  BY SoundIsClosed, NewIsSound DEF CertificateInv, RuntimeInv
<1>2. ASSUME UNCHANGED scanVars, pc' = pc \/ pc' = "get", pc' = "scan" => obj' = obj
      PROVE  ScanOK' /\ (pc' = "scan" => ScanFits') /\ pc' \in Phases
  BY <1>2 DEF CertificateInv, ScanOK, ScanFits, scanVars, Phases
<1>3. ASSUME NEW m \in Monitors, RuntimeStep(m)
      PROVE  CertificateInv' /\ StoreStep
  <2>1. RuntimeInv(Sound, Status, Moves)'
    BY <1>1, <1>3, EditKeeps, DeliverKeeps, FireTimerKeeps, DequeueKeeps, NilAssumption
    DEF RuntimeStep
  <2>2. (pc' = pc \/ pc' = "get") /\ obj' = obj
    BY <1>3
    DEF RuntimeStep, CreateMonitor, UpdateSpec, DeleteMonitor, UserWrite, DeliverMonitor,
        FireTimer, Dequeue, workerVars
  <2>3. UNCHANGED clusterVars /\ UNCHANGED scanVars /\ UNCHANGED eventVars
    BY <1>3 DEF RuntimeStep
  <2>4. StoreStep
    BY <1>3
    DEF RuntimeStep, StoreStep, Moved, DeliverMonitor, FireTimer, Dequeue, storeVars
  <2> QED
    BY <1>2, <2>1, <2>2, <2>3, <2>4, RecorderKeeps DEF CertificateInv, clusterVars
<1>4. ASSUME NEW s \in Secrets, NEW o \in Contents, ChangeSecret(s, o)
      PROVE  CertificateInv' /\ StoreStep
  <2>1. /\ UNCHANGED <<api, mwatch, late, mcache, queue, pc, key, obj, fresh>>
        /\ CountersOK'
    BY <1>1, <1>4 DEF ChangeSecret, ClusterEdit, storeVars, workerVars, CountersOK
  <2>2. RuntimeInv(Sound, Status, Moves)'
    BY <1>1, <2>1, QueueKeeps
  <2>3. Append(swatch[s], o) \in Seq(Contents)
    BY DEF CertificateInv, StoreStep, Moved
  <2>4. /\ secrets' = [secrets EXCEPT ![s] = o]
        /\ swatch' = [swatch EXCEPT ![s] = Append(swatch[s], o)]
        /\ UNCHANGED <<scache, nss, ncache>> /\ UNCHANGED scanVars
        /\ UNCHANGED eventVars
    BY <1>4 DEF ChangeSecret, ClusterEdit
  <2> QED
    BY <1>2, <2>1, <2>2, <2>3, <2>4, RecorderKeeps DEF CertificateInv, StoreStep, Moved
<1>5. ASSUME NEW n \in Namespaces, NEW l \in LabelSets \cup {Nil}, ChangeNamespace(n, l)
      PROVE  CertificateInv' /\ StoreStep
  <2>1. /\ UNCHANGED <<api, mwatch, late, mcache, queue, pc, key, obj, fresh>>
        /\ CountersOK'
    BY <1>1, <1>5 DEF ChangeNamespace, ClusterEdit, storeVars, workerVars, CountersOK
  <2>2. RuntimeInv(Sound, Status, Moves)'
    BY <1>1, <2>1, QueueKeeps
  <2>3. /\ nss' \in [Namespaces -> LabelSets \cup {Nil}]
        /\ UNCHANGED <<secrets, swatch, scache, ncache>> /\ UNCHANGED scanVars
        /\ UNCHANGED eventVars
    BY <1>5 DEF ChangeNamespace, ClusterEdit, CertificateInv
  <2> QED
    BY <1>2, <2>1, <2>2, <2>3, RecorderKeeps DEF CertificateInv, StoreStep, Moved
<1>6. ASSUME NEW s \in Secrets, DeliverSecret(s)
      PROVE  CertificateInv' /\ StoreStep
  <2>1. /\ UNCHANGED <<api, mwatch, late, mcache, pc, key, obj, fresh>>
        /\ queue' = Enqueue(mapTLSSecretToMonitor) \/ UNCHANGED queue
        /\ CountersOK'
    BY <1>1, <1>6 DEF DeliverSecret, storeVars, workerVars, CountersOK, Fault
  <2>2. RuntimeInv(Sound, Status, Moves)'
    BY <1>1, <2>1, QueueKeeps
  <2>3. swatch[s] \in Seq(Contents) /\ swatch[s] # <<>>
    BY <1>6 DEF CertificateInv, DeliverSecret
  <2>4. Head(swatch[s]) \in Contents /\ Tail(swatch[s]) \in Seq(Contents)
    BY <2>3
  <2>5. /\ scache' = [scache EXCEPT ![s] = Head(swatch[s])]
        /\ swatch' = [swatch EXCEPT ![s] = Tail(swatch[s])]
        /\ UNCHANGED <<secrets, nss, ncache>> /\ UNCHANGED scanVars
        /\ UNCHANGED eventVars
    BY <1>6 DEF DeliverSecret
  <2> QED
    BY <1>2, <2>1, <2>2, <2>4, <2>5, RecorderKeeps DEF CertificateInv, StoreStep, Moved
<1>7. CASE DeliverNamespaces
  <2>1. /\ UNCHANGED <<api, mwatch, late, mcache, queue, pc, key, obj, fresh>>
        /\ CountersOK'
    BY <1>1, <1>7 DEF DeliverNamespaces, storeVars, workerVars, boundVars, CountersOK
  <2>2. RuntimeInv(Sound, Status, Moves)'
    BY <1>1, <2>1, QueueKeeps
  <2>3. /\ ncache' = nss
        /\ UNCHANGED <<secrets, swatch, scache, nss>> /\ UNCHANGED scanVars
        /\ UNCHANGED eventVars
    BY <1>7 DEF DeliverNamespaces
  <2> QED
    BY <1>2, <2>1, <2>2, <2>3, RecorderKeeps DEF CertificateInv, StoreStep, Moved
<1>8. CASE Clock \/ \E u \in late : Arrival(u)
  <2>1. RuntimeInv(Sound, Status, Moves)' /\ Moved(Moves)
    BY <1>1, <1>8, TickKeeps, LateKeeps DEF Clock, Arrival, Tick, Moved, storeVars
  <2>2. /\ UNCHANGED <<pc, obj>> /\ UNCHANGED clusterVars /\ UNCHANGED scanVars
        /\ UNCHANGED eventVars
    BY <1>8 DEF Clock, Arrival, Tick, LateUpdate, workerVars
  <2> QED
    BY <1>2, <2>1, <2>2, RecorderKeeps DEF CertificateInv, clusterVars, StoreStep
<1>9. CASE Restart
  <2>1. RuntimeInv(Sound, Status, Moves)'
    BY <1>1, <1>9, RestartKeeps DEF Restart
  <2>2. pc' = "idle" /\ api' = api
    BY <1>9 DEF Restart, RestartRuntime, WorkerFree
  <2>3. <<>> \in Seq(Contents)
    OBVIOUS
  <2>4. /\ todo' = {} /\ found' = <<>> /\ scanned' = 0 /\ targets' = 0
        /\ scache' = secrets /\ ncache' = nss
        /\ swatch' = [s \in Secrets |-> <<>>]
        /\ UNCHANGED <<secrets, nss>> /\ DropUnsent
    BY <1>9 DEF Restart, ClearScan
  <2>5. found' \in Seq(CertificateInfo) /\ Len(found') = 0 /\ DOMAIN found' = {}
    BY <2>4
  <2>6. ScanOK'
    BY <2>4, <2>5 DEF ScanOK
  <2> QED
    BY <2>1, <2>2, <2>3, <2>4, <2>6, RecorderKeeps DEF CertificateInv, Phases, StoreStep, Moved
<1>10. CASE UNCHANGED vars
  <2>1. /\ UNCHANGED <<api, mwatch, late, mcache, queue, pc, key, obj, fresh>>
        /\ CountersOK'
    BY <1>1, <1>10 DEF vars, runtimeVars, CountersOK
  <2>2. RuntimeInv(Sound, Status, Moves)'
    BY <1>1, <2>1, QueueKeeps
  <2>3. UNCHANGED clusterVars /\ UNCHANGED scanVars /\ UNCHANGED eventVars
    BY <1>10 DEF vars, clusterVars, scanVars, eventVars
  <2> QED
    BY <1>2, <2>1, <2>2, <2>3, RecorderKeeps DEF CertificateInv, clusterVars, StoreStep, Moved
<1>11. CASE Broadcast
  <2>1. /\ UNCHANGED <<api, mwatch, late, mcache, queue, pc, key, obj, fresh>>
        /\ CountersOK'
    BY <1>1, <1>11 DEF Broadcast, runtimeVars, CountersOK
  <2>2. RuntimeInv(Sound, Status, Moves)'
    BY <1>1, <2>1, QueueKeeps
  <2>3. UNCHANGED clusterVars /\ UNCHANGED scanVars /\ (SendEvent \/ DropEvent)
    BY <1>11 DEF Broadcast
  <2> QED
    BY <1>2, <2>1, <2>2, <2>3, RecorderKeeps DEF CertificateInv, clusterVars, StoreStep, Moved
<1> QED
  BY <1>3, <1>4, <1>5, <1>6, <1>7, <1>8, <1>9, <1>10, <1>11, ReconcileCertificate
  DEF Next, Contents, StoreStep

LEMMA CertificateInvariant == Spec => []CertificateInv
BY InitCertificate, NextCertificate, PTL DEF Spec

-----------------------------------------------------------------------------
\* The variables keep their types, and the worker has a key and a copy of the
\* monitor wherever Reconcile uses them (lines 60-237).
THEOREM CertificateTypeCorrect == Spec => []TypeOK
<1>1. CertificateInv => TypeOK
  <2> SUFFICES ASSUME CertificateInv
               PROVE  TypeOK
    OBVIOUS
  <2>1. Versions(SoundMonitors) \subseteq Version
    BY DEF Versions, Version, SoundMonitors
  <2>2. Seq(Versions(SoundMonitors)) \subseteq Seq(Version)
    <3> DEFINE V == Versions(SoundMonitors)
    <3> HIDE DEF V
    <3>1. V \subseteq Version
      BY <2>1 DEF V
    <3>2. Seq(V) \subseteq Seq(Version)
      BY <3>1
    <3> QED
      BY <3>2 DEF V
  <2>3. /\ api \in [Monitors -> Version]
        /\ mwatch \in [Monitors -> Seq(Version)]
        /\ mcache \in [Monitors -> Version]
    BY <2>1, <2>2 DEF CertificateInv, RuntimeInv, StoreOK
  <2>4. /\ late \in SUBSET LateUpdates(Status)
        /\ \A u \in late : api[u.key] # Nil
        /\ queue \in [Monitors -> QueueState]
        /\ pc \in Phases /\ key \in Monitors \cup {Nil} /\ obj \in Version
        /\ fresh \in BOOLEAN
        /\ (pc = "idle") <=> (key = Nil)
        /\ pc \notin {"idle", "get"} => obj # Nil
        /\ now \in Nat /\ {edits, faults, crashes} \subseteq Nat
    BY <2>1 DEF CertificateInv, RuntimeInv, LateOK, WorkerOK, CountersOK
  <2> QED
    BY <2>3, <2>4 DEF CertificateInv, ScanOK, RecorderOK, Contents, TypeOK
<1> QED
  BY <1>1, CertificateInvariant, PTL

\* No wakeup of an active monitor is lost, also when its selector is invalid and
\* when a List fails: every return of Reconcile requeues, but the two for a
\* monitor that is gone or has been told of its suspension (lines 62-99, 229-235).
THEOREM CertificateNothingLost == Spec => []ActiveIsScheduled
<1>1. CertificateInv => ActiveIsScheduled
  BY DEF CertificateInv, RuntimeInv, LiveIsScheduled, Live, ActiveIsScheduled, Active
<1> QED
  BY <1>1, CertificateInvariant, PTL

\* The list, the counters and the conditions of every stored status are accounts
\* of one scan, in which no secret is met twice (lines 106-219).
THEOREM AccountsAgree == Spec => []StatusAddsUp
<1>1. CertificateInv => StatusAddsUp
  <2> SUFFICES ASSUME CertificateInv, NEW m \in Monitors, api[m] # Nil
               PROVE  AddsUp(api[m].status)
    BY DEF StatusAddsUp, AddsUp, Expired
  <2>1. api[m] \in SoundMonitors
    BY DEF CertificateInv, RuntimeInv, StoreOK, Versions
  <2> QED
    BY <2>1 DEF SoundMonitors, Sensible
<1> QED
  BY <1>1, CertificateInvariant, PTL

\* A certificate within the critical threshold of the spec that a stored status
\* claims to speak of is listed as no mere warning, whatever the thresholds
\* (lines 114-121 and 286-296).
THEOREM CriticalStaysCritical == Spec => []CriticalIsNotPlayedDown
<1>1. CertificateInv => CriticalIsNotPlayedDown
  <2> SUFFICES ASSUME CertificateInv, NEW m \in Monitors, api[m] # Nil,
                      api[m].status.obsGen = api[m].gen
               PROVE  NotPlayedDown(api[m].status, api[m].spec)
    BY DEF CriticalIsNotPlayedDown, NotPlayedDown
  <2>1. api[m] \in SoundMonitors
    BY DEF CertificateInv, RuntimeInv, StoreOK, Versions
  <2> QED
    BY <2>1 DEF SoundMonitors, Sensible
<1> QED
  BY <1>1, CertificateInvariant, PTL

-----------------------------------------------------------------------------
(***************************************************************************)
(* Why the Events of a first alarm were recorded.  Whatever may still be   *)
(* written over a status without certificates, the copy of the worker or   *)
(* an abandoned update, lists certificates whose Events were given to the  *)
(* recorder.                                                               *)
(***************************************************************************)
FirstAlarm(m, status) ==
    api[m].status.certs = <<>> =>
        \A c \in Listed(status) :
            [monitor |-> m, secret |-> c.secret, severity |-> c.severity] \in told

AlarmInv ==
    /\ CertificateInv
    /\ fresh /\ pc \in PutPhases => FirstAlarm(key, obj.status)
    /\ \A u \in late : FirstAlarm(u.key, u.status)

\* Without previous infos every certificate has a new severity.
LEMMA NewsAreTold ==
    ASSUME found \in Seq(CertificateInfo), NEW o, o.status.certs = <<>>
    PROVE  \A c \in ToSet(found) :
              [monitor |-> key, secret |-> c.secret, severity |-> c.severity]
                  \in ExpiryEvents(o)
<1>1. \A name : getPreviousCertStatus(o, name) = ""
  BY DEF getPreviousCertStatus
<1>2. ASSUME NEW c \in ToSet(found)
      PROVE  Last(found).severity # ""
  <2>1. found # <<>>
    BY <1>2 DEF ToSet
  <2>2. Last(found) \in CertificateInfo
    BY <2>1 DEF Last
  <2> QED
    BY <2>2 DEF CertificateInfo, Severity
<1> QED
  BY <1>1, <1>2 DEF ExpiryEvents

\* Where what may be written comes from.
LEMMA SourcesOfUpdates ==
    ASSUME CertificateInv, [Next]_vars
    PROVE  /\ told \subseteq told'
           /\ \A u \in late' :
                 \/ u \in late /\ api'[u.key] = api[u.key]
                 \/ u \in Abandoned /\ pc \in PutPhases /\ Current /\ api' = api
           /\ fresh' /\ pc' \in PutPhases =>
                 \/ /\ pc \in PutPhases /\ fresh
                    /\ key' = key /\ obj' = obj /\ api'[key] = api[key]
                 \/ ReconcileSuspended
                 \/ FinishScan
<1> DEFINE LateStays == \A u \in late' :
                           \/ u \in late /\ api'[u.key] = api[u.key]
                           \/ u \in Abandoned /\ pc \in PutPhases /\ Current /\ api' = api
           CopyStays == fresh' /\ pc' \in PutPhases =>
                           /\ pc \in PutPhases /\ fresh
                           /\ key' = key /\ obj' = obj /\ api'[key] = api[key]
<1>1. /\ DOMAIN api = Monitors
      /\ \A u \in late : u.key \in Monitors
      /\ pc # "idle" => key \in Monitors
  BY DEF CertificateInv, RuntimeInv, StoreOK, LateOK, LateUpdates, WorkerOK
<1>2. ASSUME NEW m \in Monitors, NEW o, Write(m, o)
      PROVE  LateStays /\ (\A n \in Monitors \ {m} : api'[n] = api[n])
  BY <1>1, <1>2 DEF Write
<1>3. ASSUME NEW m \in Monitors, NEW o, UserWrite(m, o)
      PROVE  LateStays /\ CopyStays
  <2>1. /\ pc' = pc /\ key' = key /\ obj' = obj
        /\ fresh' => fresh /\ m # key
    BY <1>3 DEF UserWrite
  <2> QED
    BY <1>1, <1>2, <1>3, <2>1 DEF UserWrite, PutPhases
<1>4. ASSUME NEW u \in late, LateUpdate(u)
      PROVE  LateStays /\ CopyStays
  <2>1. pc' = pc /\ key' = key /\ obj' = obj /\ u.key \in Monitors
    BY <1>1, <1>4 DEF LateUpdate
  <2>2. CASE late' = late \ {u} /\ UNCHANGED <<api, mwatch, fresh>>
    BY <2>1, <2>2
  <2>3. CASE /\ Write(u.key, [api[u.key] EXCEPT !.status = u.status])
             /\ fresh' = (fresh /\ u.key # key)
    <3>1. fresh' => fresh /\ u.key # key
      BY <2>3
    <3> QED
      BY <1>1, <1>2, <2>1, <2>3, <3>1 DEF PutPhases
  <2> QED
    BY <1>4, <2>2, <2>3 DEF LateUpdate
<1>5. api' = api /\ late' = late => LateStays
  OBVIOUS
<1>6. pc' \notin PutPhases => CopyStays
  OBVIOUS
<1>7. pc' = pc /\ fresh' = fresh /\ key' = key /\ obj' = obj /\ api' = api => CopyStays
  OBVIOUS
<1> HIDE DEF LateStays, CopyStays
<1>8. ASSUME NEW m \in Monitors, RuntimeStep(m)
      PROVE  LateStays /\ CopyStays /\ told' = told
  <2>1. CASE \/ \E s \in Specs : CreateMonitor(m, s, NoStatus) \/ UpdateSpec(m, s)
             \/ DeleteMonitor(m)
    BY <1>3, <1>8, <2>1
    DEF RuntimeStep, CreateMonitor, UpdateSpec, DeleteMonitor, eventVars
  <2>2. CASE DeliverMonitor(m) \/ FireTimer(m)
    BY <1>5, <1>7, <1>8, <2>2
    DEF RuntimeStep, DeliverMonitor, FireTimer, workerVars, storeVars, eventVars
  <2>3. CASE Dequeue(m)
    BY <1>5, <1>6, <1>8, <2>3 DEF RuntimeStep, Dequeue, storeVars, eventVars, PutPhases
  <2> QED
    BY <1>8, <2>1, <2>2, <2>3 DEF RuntimeStep
<1>9. CASE \/ \E s \in Secrets : \E o \in Certificate \cup {Nil} : ChangeSecret(s, o)
           \/ \E n \in Namespaces : \E l \in LabelSets \cup {Nil} : ChangeNamespace(n, l)
           \/ \E s \in Secrets : DeliverSecret(s)
           \/ DeliverNamespaces
           \/ Clock \/ Broadcast
           \/ UNCHANGED vars
  BY <1>5, <1>7, <1>9
  DEF ChangeSecret, ChangeNamespace, ClusterEdit, DeliverSecret, DeliverNamespaces, Clock,
      Tick, Broadcast, SendEvent, DropEvent, eventVars, vars, runtimeVars, workerVars,
      storeVars, LateStays, CopyStays
<1>10. ASSUME NEW u \in late, Arrival(u)
       PROVE  LateStays /\ CopyStays /\ told' = told
  BY <1>4, <1>10 DEF Arrival, eventVars
<1>11. ASSUME api' = api,
              \/ late' = late
              \/ pc \in PutPhases /\ Current /\ late' = late \cup Abandoned
       PROVE  LateStays
  BY <1>11 DEF LateStays
<1>12. CASE Restart
  BY <1>6, <1>11, <1>12
  DEF Restart, RestartRuntime, WorkerFree, DropUnsent, PutPhases, LateStays, CopyStays
<1>13. CASE GetFails \/ MonitorGone \/ NamespacesFail
  BY <1>5, <1>6, <1>13
  DEF GetFails, MonitorGone, NamespacesFail, Finished, FinishedRequeue, WorkerFree,
      storeVars, eventVars, PutPhases
<1>14. CASE PutSuspended \/ PutReport
  <2>1. /\ pc \in PutPhases /\ key \in Monitors /\ pc' = "idle" /\ told' = told
        /\ StatusUpdated \/ StatusUpdateFailed
    BY <1>1, <1>14
    DEF PutSuspended, PutReport, Finished, FinishedRequeue, WorkerFree, eventVars,
        PutPhases
  <2>2. LateStays
    <3>1. CASE Current /\ WriteStatus
      BY <1>2, <1>5, <2>1, <3>1 DEF WriteStatus, storeVars
    <3>2. CASE UNCHANGED storeVars
      BY <1>5, <3>2 DEF storeVars
    <3>3. CASE Current /\ late' = late \cup Abandoned /\ UNCHANGED <<api, mwatch>>
      BY <1>11, <2>1, <3>3
    <3> QED
      BY <2>1, <3>1, <3>2, <3>3 DEF StatusUpdated, StatusUpdateFailed, storeVars
  <2> QED
    BY <1>6, <2>1, <2>2 DEF PutPhases, LateStays, CopyStays
<1>15. CASE ReconcileActive \/ getTargetNamespaces \/ \E n \in todo : ScanNamespace(n)
  BY <1>5, <1>6, <1>15
  DEF ReconcileActive, getTargetNamespaces, ScanNamespace, storeVars, workerVars,
      eventVars, PutPhases
<1>16. CASE ReconcileSuspended \/ FinishScan
  BY <1>5, <1>16
  DEF ReconcileSuspended, FinishScan, Record, storeVars, eventVars, LateStays
<1> QED
  BY <1>8, <1>9, <1>10, <1>12, <1>13, <1>14, <1>15, <1>16
  DEF Next, Reconcile, LateStays, CopyStays

LEMMA AlarmKept ==
    ASSUME AlarmInv, [Next]_vars
    PROVE  AlarmInv'
<1>1. CertificateInv /\ CertificateInv'
  BY NextCertificate DEF AlarmInv
<1>2. /\ RuntimeInv(SoundMonitors, Status, Moves)
      /\ told \subseteq told'
      /\ found \in Seq(CertificateInfo)
  BY <1>1, SourcesOfUpdates DEF CertificateInv, ScanOK
<1>3. ASSUME NEW m, NEW status, FirstAlarm(m, status), api'[m] = api[m]
      PROVE  FirstAlarm(m, status)'
  BY <1>2, <1>3 DEF FirstAlarm
<1>4. ASSUME NEW u \in late'
      PROVE  FirstAlarm(u.key, u.status)'
  <2>1. CASE u \in late /\ api'[u.key] = api[u.key]
    BY <1>2, <2>1 DEF AlarmInv, FirstAlarm
  <2>2. CASE u \in Abandoned /\ pc \in PutPhases /\ Current /\ api' = api
    <3>1. u.key = key /\ u.status = obj.status
      BY <2>2 DEF Abandoned
    <3> QED
      BY <1>2, <2>2, <3>1 DEF AlarmInv, FirstAlarm, Current
  <2> QED
    BY <1>1, <2>1, <2>2, SourcesOfUpdates
<1>5. ASSUME fresh', pc' \in PutPhases
      PROVE  FirstAlarm(key, obj.status)'
  <2>1. CASE /\ pc \in PutPhases /\ fresh
             /\ key' = key /\ obj' = obj /\ api'[key] = api[key]
    BY <1>2, <2>1 DEF AlarmInv, FirstAlarm
  <2>2. CASE ReconcileSuspended
    <3> DEFINE ack == [mcache[key] EXCEPT !.status.conds =
                   SetStatusCondition(@, "Ready", FALSE, "Suspended", mcache[key].gen)]
    <3>1. /\ mcache[key] # Nil /\ key \in Monitors
          /\ obj' = ack /\ api' = api /\ key' = key
          /\ mwatch[key] = <<>>
      BY <1>2, <1>5, <2>2
      DEF ReconcileSuspended, CopyFromCache, storeVars, RuntimeInv, WorkerOK
    <3>2. mcache[key] = api[key] /\ mcache[key] \in SoundMonitors
      BY <1>2, <3>1 DEF RuntimeInv, CatchesUp, StoreOK, Versions
    <3>3. ack.status.certs = api[key].status.certs
      <4>1. mcache[key] \in [gen : Nat, spec : Specs, status : Status]
        BY <3>2, SoundType
      <4> QED
        BY <3>2, <4>1 DEF Status
    <3> HIDE DEF ack
    <3> QED
      BY <3>1, <3>3 DEF FirstAlarm, Listed, ToSet
  <2>3. CASE FinishScan
    <3>1. /\ pc = "scan" /\ obj' = Report(obj) /\ api' = api /\ key' = key
          /\ told' = told \cup ExpiryEvents(obj)
          /\ fresh' = fresh
      BY <2>3 DEF FinishScan, Record, storeVars
    <3>2. obj = api[key]
      BY <1>2, <1>5, <3>1 DEF RuntimeInv, FreshIsStored, PutPhases
    <3>3. Listed(Report(obj).status) = ToSet(found)
      <4>1. obj \in SoundMonitors
        BY <1>2, <3>1 DEF RuntimeInv, WorkerOK, Versions
      <4>2. obj \in [gen : Nat, spec : Specs, status : Status]
        BY <4>1, SoundType
      <4> QED
        BY <4>2 DEF Report, Listed, Status
    <3> QED
      BY <1>2, <3>1, <3>2, <3>3, NewsAreTold DEF FirstAlarm
  <2> QED
    BY <1>1, <1>5, <2>1, <2>2, <2>3, SourcesOfUpdates
<1> QED
  BY <1>1, <1>4, <1>5 DEF AlarmInv

LEMMA AlarmInvariant == Spec => []AlarmInv
<1>1. Init => AlarmInv
  BY InitCertificate DEF AlarmInv, Init, RuntimeInit, PutPhases
<1> QED
  BY <1>1, AlarmKept, PTL DEF Spec

\* A status that goes from no listed certificate to some was preceded by a call of
\* the recorder for each, though scans run on stale copies, updates are abandoned
\* and arrive late, maybe from a process that is gone, and the severity the code
\* compares with is that of the last certificate (lines 166-174).  Nothing is said
\* of the API server: what the recorder drops, or loses in a crash, is not
\* recorded again.
THEOREM FirstAlarmsAnnounced == Spec => FirstAlarmIsAnnounced
<1>1. ASSUME AlarmInv, [Next]_vars
      PROVE  [\A m \in Monitors :
                (/\ api[m] # Nil
                 /\ api'[m] # Nil
                 /\ api[m].status.certs = <<>>) =>
                    \A c \in Listed(api'[m].status) :
                        [monitor |-> m, secret |-> c.secret, severity |-> c.severity]
                            \in told]_api
  <2> SUFFICES ASSUME NEW m \in Monitors, api[m] # Nil, api'[m] # Nil,
                      api[m].status.certs = <<>>
               PROVE  \A c \in Listed(api'[m].status) :
                        [monitor |-> m, secret |-> c.secret, severity |-> c.severity]
                            \in told
    OBVIOUS
  <2>1. /\ CertificateInv
        /\ api[m] \in [gen : Nat, spec : Specs, status : Status]
        /\ DOMAIN api = Monitors
    <3>1. api[m] \in SoundMonitors /\ DOMAIN api = Monitors
      BY <1>1 DEF AlarmInv, CertificateInv, RuntimeInv, StoreOK, Versions
    <3> QED
      BY <1>1, <3>1, SoundType DEF AlarmInv
  <2>2. CASE api'[m].status = api[m].status
    BY <2>2 DEF Listed, ToSet
  <2>3. ASSUME NEW status, FirstAlarm(m, status), api'[m].status = status
        PROVE  \A c \in Listed(api'[m].status) :
                  [monitor |-> m, secret |-> c.secret, severity |-> c.severity] \in told
    BY <2>3 DEF FirstAlarm
  <2>4. ASSUME NEW n \in Monitors, RuntimeStep(n)
        PROVE  api'[m].status = api[m].status
    <3>1. CASE \E s \in Specs : CreateMonitor(n, s, NoStatus)
      BY <2>1, <3>1 DEF CreateMonitor, UserWrite, Write
    <3>2. ASSUME NEW s \in Specs, UpdateSpec(n, s)
          PROVE  api'[m].status = api[m].status
      BY <2>1, <3>2 DEF UpdateSpec, UserWrite, Write
    <3>3. CASE DeleteMonitor(n)
      BY <2>1, <3>3 DEF DeleteMonitor, UserWrite, Write
    <3>4. CASE DeliverMonitor(n) \/ FireTimer(n) \/ Dequeue(n)
      BY <3>4 DEF DeliverMonitor, FireTimer, Dequeue, storeVars
    <3> QED
      BY <2>4, <3>1, <3>2, <3>3, <3>4 DEF RuntimeStep
  <2>5. ASSUME NEW u \in late, Arrival(u)
        PROVE  \A c \in Listed(api'[m].status) :
                  [monitor |-> m, secret |-> c.secret, severity |-> c.severity] \in told
    <3>1. u.key \in Monitors
      BY <2>1 DEF CertificateInv, RuntimeInv, LateOK, LateUpdates
    <3>2. \/ api' = api
          \/ api' = [api EXCEPT ![u.key] = [api[u.key] EXCEPT !.status = u.status]]
      BY <2>5 DEF Arrival, LateUpdate, Write
    <3>3. \/ api'[m].status = api[m].status
          \/ m = u.key /\ api'[m].status = u.status
      BY <2>1, <3>1, <3>2
    <3>4. FirstAlarm(u.key, u.status)
      BY <1>1 DEF AlarmInv
    <3> QED
      BY <2>2, <2>3, <3>3, <3>4
  <2>6. CASE PutSuspended \/ PutReport
    <3>1. /\ pc \in PutPhases /\ key \in Monitors
          /\ StatusUpdated \/ StatusUpdateFailed
      BY <2>1, <2>6
      DEF PutSuspended, PutReport, PutPhases, CertificateInv, RuntimeInv, WorkerOK
    <3>2. \/ api' = api
          \/ /\ Current
             /\ api' = [api EXCEPT ![key] = [api[key] EXCEPT !.status = obj.status]]
      BY <3>1 DEF StatusUpdated, StatusUpdateFailed, WriteStatus, Write, storeVars
    <3>3. \/ api'[m].status = api[m].status
          \/ Current /\ m = key /\ api'[m].status = obj.status
      BY <2>1, <3>1, <3>2
    <3>4. Current => FirstAlarm(key, obj.status)
      BY <1>1, <3>1 DEF AlarmInv, Current
    <3> QED
      BY <2>2, <2>3, <3>3, <3>4
  <2>7. CASE ~(PutSuspended \/ PutReport) /\ ~(\E n \in Monitors : RuntimeStep(n))
             /\ ~(\E u \in late : Arrival(u))
    <3>1. api' = api
      BY <1>1, <2>7
      DEF Next, ChangeSecret, ChangeNamespace, ClusterEdit, DeliverSecret,
          DeliverNamespaces, Clock, Tick, Broadcast, Restart, RestartRuntime, vars, runtimeVars,
          Reconcile, GetFails, MonitorGone, ReconcileSuspended, ReconcileActive,
          NamespacesFail, getTargetNamespaces, ScanNamespace, FinishScan, storeVars
    <3> QED
      BY <2>2, <3>1
  <2> QED
    BY <2>2, <2>4, <2>5, <2>6, <2>7
<1> QED
  BY <1>1, AlarmInvariant, PTL DEF Spec, FirstAlarmIsAnnounced

-----------------------------------------------------------------------------
(***************************************************************************)
(* The refinement: what the contract sees of a step.                       *)
(***************************************************************************)
Desired ==
    [m \in Monitors |->
        IF api[m] = Nil THEN Nil ELSE [gen |-> api[m].gen, spec |-> api[m].spec]]

Reports == [m \in Monitors |-> ReportOf(StoredStatus(m))]

Readiness == [m \in Monitors |-> ReadyOf(StoredStatus(m))]

\* The monitor that a reader sees, when it is there and when it is not.
LEMMA ReadOff ==
    ASSUME NEW m \in Monitors
    PROVE  /\ api[m] = Nil =>
                 /\ Desired[m] = Nil
                 /\ Reports[m] = ReportOf(NoStatus)
                 /\ Readiness[m] = ReadyOf(NoStatus)
           /\ api[m] # Nil =>
                 /\ Desired[m] = [gen |-> api[m].gen, spec |-> api[m].spec]
                 /\ Reports[m] = ReportOf(api[m].status)
                 /\ Readiness[m] = ReadyOf(api[m].status)
           /\ api'[m] = Nil =>
                 /\ Desired'[m] = Nil
                 /\ Reports'[m] = ReportOf(NoStatus)
                 /\ Readiness'[m] = ReadyOf(NoStatus)
           /\ api'[m] # Nil =>
                 /\ Desired'[m] = [gen |-> api'[m].gen, spec |-> api'[m].spec]
                 /\ Reports'[m] = ReportOf(api'[m].status)
                 /\ Readiness'[m] = ReadyOf(api'[m].status)
BY DEF Desired, Reports, Readiness, StoredStatus

LEMMA NewMonitor ==
    /\ ReportOf(NoStatus) = [gen |-> 0, finding |-> Finding(NoStatus)]
    /\ ReadyOf(NoStatus) = [gen |-> 0, outcome |-> "None"]
<1>1. NoStatus.obsGen = 0 /\ NoStatus.conds["Ready"] = Nil
  BY DEF NoStatus, ConditionType
<1> HIDE DEF NoStatus
<1> QED
  BY <1>1 DEF ReportOf, ReadyOf, Outcome

\* What the condition Ready says, once it says something.
LEMMA ReadyWord ==
    ASSUME NEW status, NEW gen \in Nat, NEW b \in BOOLEAN, NEW reason \in Reason,
           status.conds["Ready"] = [status |-> b, reason |-> reason, gen |-> gen]
    PROVE  ReadyOf(status) =
              [gen |-> gen,
               outcome |-> IF b THEN "Complete"
                           ELSE IF reason = "Suspended" THEN "Suspended" ELSE "Failed"]
<1>1. status.conds["Ready"] # Nil
  BY NilIsNoObject DEF Condition
<1>2. CASE b
  BY <1>1, <1>2 DEF ReadyOf, Outcome
<1>3. CASE ~b /\ reason = "Suspended"
  BY <1>1, <1>3 DEF ReadyOf, Outcome
<1>4. CASE ~b /\ reason # "Suspended"
  BY <1>1, <1>4 DEF ReadyOf, Outcome
<1> QED
  BY <1>2, <1>3, <1>4

LEMMA InitRefines == Init => Contract!Init
<1> SUFFICES ASSUME Init
             PROVE  Contract!Init
  OBVIOUS
<1>1. \A m \in Monitors : api[m] = Nil
  BY DEF Init, RuntimeInit
<1>2. /\ Desired = [m \in Monitors |-> Nil]
      /\ Reports = [m \in Monitors |-> [gen |-> 0, finding |-> Finding(NoStatus)]]
      /\ Readiness = [m \in Monitors |-> [gen |-> 0, outcome |-> "None"]]
  BY <1>1, NewMonitor DEF Desired, Reports, Readiness, StoredStatus
<1> QED
  BY <1>2
  DEF Contract!Init, Contract!Unseen, Contract!NoWord, Desired, Reports, Readiness

\* One monitor changes, in the contract as in the store.
LEMMA TurnRefines ==
    ASSUME NEW m \in Monitors, \A n \in Monitors \ {m} : api'[n] = api[n],
           Contract!Turn(m)
    PROVE  Contract!Next
<1>1. ASSUME NEW n \in Monitors, n # m
      PROVE  Desired'[n] = Desired[n] /\ Reports'[n] = Reports[n]
             /\ Readiness'[n] = Readiness[n]
  <2>1. api'[n] = api[n]
    BY <1>1
  <2> QED
    BY <2>1, ReadOff
<1>2. Contract!OthersStay(m)
  BY <1>1 DEF Contract!OthersStay, Desired, Reports, Readiness
<1>3. /\ Desired = [n \in Monitors |-> Desired[n]]
      /\ Desired' = [n \in Monitors |-> Desired'[n]]
      /\ Reports = [n \in Monitors |-> Reports[n]]
      /\ Reports' = [n \in Monitors |-> Reports'[n]]
      /\ Readiness = [n \in Monitors |-> Readiness[n]]
      /\ Readiness' = [n \in Monitors |-> Readiness'[n]]
  BY DEF Desired, Reports, Readiness
<1> QED
  BY <1>2, <1>3, Contract!TurnIsStep DEF Desired, Reports, Readiness

\* The user's edits are the contract's.
LEMMA EditRefines ==
    ASSUME CertificateInv, NEW m \in Monitors,
           \/ \E s \in Specs : CreateMonitor(m, s, NoStatus) \/ UpdateSpec(m, s)
           \/ DeleteMonitor(m)
    PROVE  Contract!Next
<1>1. /\ \A n \in Monitors : api[n] # Nil =>
                api[n] \in [gen : Nat, spec : Specs, status : Status]
      /\ DOMAIN api = Monitors
      /\ Nil \notin [gen : Nat, spec : Specs, status : Status]
  BY SoundType, NilIsNoObject
  DEF CertificateInv, RuntimeInv, StoreOK, Versions, MonitorObject
<1>2. ASSUME NEW s \in Specs, CreateMonitor(m, s, NoStatus)
      PROVE  Contract!Next
  <2> DEFINE o == [gen |-> 1, spec |-> s, status |-> NoStatus]
  <2>1. /\ api[m] = Nil /\ api'[m] = o
        /\ \A n \in Monitors \ {m} : api'[n] = api[n]
    BY <1>1, <1>2 DEF CreateMonitor, UserWrite, Write
  <2>2. o # Nil /\ o.gen = 1 /\ o.spec = s /\ o.status = NoStatus
    <3>1. o \in SoundMonitors
      BY NewIsSound
    <3> QED
      BY <1>1, <3>1, SoundType
  <2> HIDE DEF o
  <2>3. /\ Desired[m] = Nil
        /\ Desired'[m] = [gen |-> 1, spec |-> s]
        /\ Reports'[m] = Reports[m] /\ Readiness'[m] = Readiness[m]
    BY <2>1, <2>2, ReadOff
  <2>4. Contract!Turn(m)
    BY <2>3 DEF Contract!Turn, Desired, Reports, Readiness
  <2> QED
    BY <2>1, <2>4, TurnRefines
<1>3. ASSUME NEW s \in Specs, UpdateSpec(m, s)
      PROVE  Contract!Next
  <2> DEFINE o == [api[m] EXCEPT !.gen = @ + 1, !.spec = s]
  <2>1. /\ api[m] # Nil /\ api'[m] = o
        /\ \A n \in Monitors \ {m} : api'[n] = api[n]
    BY <1>1, <1>3 DEF UpdateSpec, UserWrite, Write
  <2>2. /\ o.gen = api[m].gen + 1 /\ o.spec = s /\ o.status = api[m].status
        /\ o # Nil
    <3>1. api[m].gen + 1 \in Nat
      BY <1>1, <2>1
    <3>2. o \in [gen : Nat, spec : Specs, status : Status]
      BY <1>1, <2>1, <3>1
    <3> QED
      BY <1>1, <2>1, <3>2
  <2> HIDE DEF o
  <2>3. /\ Desired[m] # Nil
        /\ Desired'[m] = [gen |-> Desired[m].gen + 1, spec |-> s]
        /\ Reports'[m] = Reports[m] /\ Readiness'[m] = Readiness[m]
    <3>1. Desired[m] = [gen |-> api[m].gen, spec |-> api[m].spec]
      BY <2>1, ReadOff
    <3>2. Desired[m] # Nil
      BY <1>1, <2>1, <3>1, NilIsNoDesire
    <3> QED
      BY <2>1, <2>2, <3>1, <3>2, ReadOff
  <2>4. Contract!Turn(m)
    BY <2>3 DEF Contract!Turn, Desired, Reports, Readiness
  <2> QED
    BY <2>1, <2>4, TurnRefines
<1>4. ASSUME DeleteMonitor(m)
      PROVE  Contract!Next
  <2>1. /\ api[m] # Nil /\ api'[m] = Nil
        /\ \A n \in Monitors \ {m} : api'[n] = api[n]
    BY <1>1, <1>4 DEF DeleteMonitor, UserWrite, Write
  <2>2. Desired[m] # Nil
    <3>1. Desired[m] = [gen |-> api[m].gen, spec |-> api[m].spec]
      BY <2>1, ReadOff
    <3> QED
      BY <1>1, <2>1, <3>1, NilIsNoDesire
  <2>3. /\ Desired'[m] = Nil
        /\ Reports'[m] = [gen |-> 0, finding |-> Finding(NoStatus)]
        /\ Readiness'[m] = [gen |-> 0, outcome |-> "None"]
    BY <2>1, ReadOff, NewMonitor
  <2>4. Contract!Turn(m)
    BY <2>2, <2>3
    DEF Contract!Turn, Contract!Unseen, Contract!NoWord, Desired, Reports, Readiness
  <2> QED
    BY <2>1, <2>4, TurnRefines
<1> QED
  BY <1>2, <1>3, <1>4

\* A status update publishes or acknowledges.
LEMMA UpdateRefines ==
    ASSUME CertificateInv, NEW m \in Monitors, NEW p, <<api[m], p>> \in Moves,
           api[m] # Nil, api' = [api EXCEPT ![m] = p]
    PROVE  Contract!Next
<1>1. /\ api[m] \in [gen : Nat, spec : Specs, status : Status]
      /\ p # Nil /\ p.gen = api[m].gen /\ p.spec = api[m].spec
      /\ MayFollow(api[m], p.status)
      /\ api'[m] = p
      /\ \A n \in Monitors \ {m} : api'[n] = api[n]
  BY MoveType, SoundType, NilIsNoObject
  DEF CertificateInv, RuntimeInv, StoreOK, MonitorObject, MayBecome
<1>2. /\ Desired[m] = [gen |-> api[m].gen, spec |-> api[m].spec]
      /\ Desired[m] # Nil
      /\ Desired[m].gen = api[m].gen /\ Desired[m].spec = api[m].spec
      /\ Desired'[m] = Desired[m]
      /\ Reports[m] = ReportOf(api[m].status)
      /\ Reports'[m] = ReportOf(p.status)
      /\ Readiness'[m] = ReadyOf(p.status)
  <2>1. [gen |-> api[m].gen, spec |-> api[m].spec] # Nil
    BY <1>1, NilIsNoDesire
  <2> QED
    BY <1>1, <2>1, ReadOff
<1>3. CASE api[m].spec.suspend
  <2>1. ReportOf(p.status) = ReportOf(api[m].status)
    BY <1>1, <1>3 DEF MayFollow, KeepsReport
  <2>2. ReadyOf(p.status) = [gen |-> api[m].gen, outcome |-> "Suspended"]
    <3> DEFINE b == FALSE
               w == "Suspended"
    <3>1. /\ p.status.conds["Ready"] = [status |-> b, reason |-> w, gen |-> api[m].gen]
          /\ b \in BOOLEAN /\ w \in Reason /\ api[m].gen \in Nat
      BY <1>1, <1>3 DEF MayFollow, Says, Reason
    <3>2. b = FALSE /\ w = "Suspended"
      OBVIOUS
    <3> HIDE DEF b, w
    <3>3. ReadyOf(p.status) =
             [gen |-> api[m].gen,
              outcome |-> IF b THEN "Complete"
                          ELSE IF w = "Suspended" THEN "Suspended" ELSE "Failed"]
      BY <3>1, ReadyWord
    <3> QED
      BY <3>2, <3>3
  <2>3. Contract!Turn(m)
    BY <1>1, <1>2, <1>3, <2>1, <2>2 DEF Contract!Turn, Desired, Reports, Readiness
  <2> QED
    BY <1>1, <2>3, TurnRefines
<1>4. CASE ~api[m].spec.suspend /\ Completes(api[m], p.status)
  <2>1. ReadyOf(p.status) = [gen |-> api[m].gen, outcome |-> "Complete"]
    BY <1>1, <1>4, ReadyWord DEF Completes, Says, Reason
  <2>2. ReportOf(p.status) = [gen |-> api[m].gen, finding |-> Finding(p.status)]
    BY <1>4 DEF Completes, ReportOf
  <2>3. Reports'[m] \in [gen : {Desired[m].gen},
                         finding : [s \in Specs |-> AdmissibleFor(s)][Desired[m].spec]]
    <3> DEFINE A == [s \in Specs |-> AdmissibleFor(s)][Desired[m].spec]
    <3>1. Finding(p.status) \in A
      BY <1>1, <1>2, <1>4 DEF Completes
    <3> HIDE DEF A
    <3>2. Reports'[m] \in [gen : {Desired[m].gen}, finding : A]
      BY <1>2, <2>2, <3>1
    <3> QED
      BY <3>2 DEF A
  <2>4. Contract!Turn(m)
    BY <1>2, <1>4, <2>1, <2>3 DEF Contract!Turn, Desired, Reports, Readiness
  <2> QED
    BY <1>1, <2>4, TurnRefines
<1> QED
  BY <1>1, <1>3, <1>4 DEF MayFollow

\* The controller implements the contract: a scan is stored whole and for the spec
\* it was made for, and never on a suspended monitor or one whose selector is
\* invalid, however copies grow stale, calls fail, abandoned updates arrive late
\* and the process restarts (lines 68-99 and 176-236).
THEOREM CertificateImplements == Spec => ImplementsContract
<1>1. ASSUME CertificateInv, [Next]_vars
      PROVE  [Contract!Next]_(Contract!contractVars)
  <2>1. StoreStep
    BY <1>1, NextCertificate
  <2>2. CASE UNCHANGED api
    BY <2>2 DEF Contract!contractVars, StoredStatus
  <2> QED
    BY <1>1, <2>1, <2>2, EditRefines, UpdateRefines DEF StoreStep, Moved
<1> QED
  BY <1>1, InitRefines, CertificateInvariant, PTL
  DEF Spec, ImplementsContract, Contract!Spec

\* What MonitorContract promises a reader holds of the stored monitors: nothing
\* claims a generation to come, Ready = True and the report are of one check, and
\* Ready says Suspended of the stored generation exactly if it is suspended.
THEOREM CertificateIsTrustworthy == Spec => []Contract!AllTrustworthy
<1>1. Nil \notin Contract!Desire
  <2>1. Contract!Desire \subseteq [gen : Nat, spec : Specs]
    BY DEF Contract!Desire
  <2> QED
    BY <2>1, NilIsNoDesire
<1>2. Contract!Spec => []Contract!AllTrustworthy
  BY <1>1, Contract!Trust
<1> QED
  BY <1>2, CertificateImplements, PTL DEF ImplementsContract

=============================================================================
