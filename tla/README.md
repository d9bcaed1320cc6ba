# A TLA+ model of the OCP Guardian operator

The operator watches an OpenShift cluster with three reconcilers, each for one
kind of custom resource:

| custom resource             | controller (`src/internal/controller/`)   | what it reports in `.status`                                   |
|-----------------------------|-------------------------------------------|----------------------------------------------------------------|
| `RBACDriftMonitor`          | `rbacdriftmonitor_controller.go`          | RBAC resources that differ from a baseline, are gone, or are unexpected |
| `CertificateExpiryMonitor`  | `certificateexpirymonitor_controller.go`  | TLS certificates that expire soon or have expired              |
| `ClusterDegradationMonitor` | `clusterdegradationmonitor_controller.go` | health of the ClusterOperators and an overall verdict          |

This directory holds TLA+ modules of the three controllers, of the runtime they
share and of the comparison of policy rules; an abstract contract that all three
controllers implement; configurations that check them with TLC; and proofs that
TLAPS checks for every value of the constants.

1. Inventory  2. Modules  3. From code to model  4. Runs  5. Bounds and fairness
6. Proofs  7. Disagreements shown by a run  8. Disagreements without a run
9. Not modelled  10. What is left

## 1. Inventory

**Controller runtime** (a library; `src/main.go` selects its default options).
*State*: the objects in the API server, the informer caches, the watch events
between the two, the work queue, the one worker of each controller
(`MaxConcurrentReconciles` is 1). *Operations*: a write gives an object a new
resourceVersion and is sent on the watch; delivery updates the cache and enqueues
keys; a timer or the rate limiter makes a delayed key ready; the worker takes a
ready key and reconciles it. *Hard*: `r.Get` and `r.List` read a cache that lags
behind; `Status().Update` fails when the copy is old; any call can fail, before or
after it took effect; a request whose caller gave up, or lost the leader's lease, may
still arrive; the process can restart between any two calls; a controller is woken by its own status writes, since `For()` has no predicate.
*Must hold*: nothing that needs another look is forgotten.

**RBAC drift controller.** *State*: `.status` (drift items, conditions,
`observedGeneration`, the baseline snapshot) and, during a reconcile, a copy of
the monitor and the list of drifts found so far. *Operations*: suspend; snapshot
the cluster's RBAC; detect unexpected resources; compare the baseline with the
cluster, entry by entry; write the status; map a watch event of an RBAC resource
to the monitors that reference it. *Hard*: the mapping reads the cached spec, the
check reads the cached resources, and both change while the check runs; a read that
fails is skipped; the snapshot is decided on in one call and stored in another.
*Must hold*: the report converges to the truth and speaks of the generation it
claims; its two accounts (items, condition) agree; what it lists was announced;
a suspended monitor is left alone; a snapshot is there when it is used, and taken
once.

**Comparison of policy rules** (`sortPolicyRules`, `sortStrings`, `reflect.DeepEqual`).
*State*: the slices of strings of two lists of rules, which belong to the caller.
*Operations*: copy the list, sort each slice in place, compare. *Hard*: sorting in place
writes to slices that the caller goes on using (they are private: the cached client hands
out deep copies); slices can be nil or empty, strings repeated. *Must hold*: the caller's strings are only reordered; the answer is
equality up to the order within a slice; it ends.

**Event recorder** (client-go; `main.go` hands it to the reconcilers). *State*: the Events
that wait in the memory of the process. *Operations*: `Recorder.Event` returns at once;
another goroutine sends what waits. *Hard*: an Event can be dropped on the way and is lost
with the process, while the status written after the call stays. *Must hold*: a drift that
stays is announced in the end all the same.

**Certificate controller.** *State*: `.status` (list, three counters, three
conditions). *Operations*: select the namespaces, list and parse the TLS secrets
of each, announce, write the status; map an event of a TLS secret to every active
monitor. *Hard*: time passes without an event, namespaces are not watched, a
namespace whose List fails is skipped, days are truncated. *Must hold*: list,
counters and conditions are accounts of one scan; severities respect the
thresholds; alarms are announced; the list converges.

**Cluster degradation controller.** *State*: `.status` (list, counters, verdict,
conditions). *Operations*: list the ClusterOperators, correlate, record events,
write the status; map an event of an operator to the monitors whose filter
selects it. *Hard*: a failed List writes old numbers with new conditions and drops
the error of that write. *Must hold*: the verdict fits the generation it claims;
new trouble is announced; the status converges.

**Main** starts the manager, and with it the informers and the three controllers.
**API types** are the spec and status structures. **Generated deep copies, CRDs,
RBAC manifests, templates** and the **envtest suite** (which only starts a test API
server; there is no test of a reconciler) hold no behaviour of their own.

The controllers do not call each other and share no state but the API server. Each
reads its own kind and some cluster resources; each writes only the status of its
own kind, and Events. They can therefore be modelled one at a time.

The hazards of this code, each at its line, are listed in `PROJECT.json`.

## 2. Modules

| module                      | contents                                                                 |
|-----------------------------|--------------------------------------------------------------------------|
| `ControllerRuntime`         | API server, watch, cache, queue, worker, conflicts, failed calls, late updates, restart; every controller module extends it |
| `EventRecorder`             | client-go's recorder: Events told, waiting, sent, dropped; the RBAC and the certificate module extend it |
| `RBACDriftMonitor`          | the RBAC drift controller                                                |
| `CertificateExpiryMonitor`  | the certificate controller                                               |
| `ClusterDegradationMonitor` | the degradation controller                                               |
| `PolicyRules`               | `sortPolicyRules`, `sortStrings` and the comparison of two lists of rules, with their properties |
| `MonitorContract`           | what a monitor promises to its readers: the abstract specification, and the theorem about it |
| `RBACDriftProperties`, `CertificateProperties`, `DegradationProperties` | type invariant, properties, inductive invariants, and the refinement mapping to `MonitorContract` |
| `ControllerRuntimeProofs`   | lemmas about the runtime, for the certificate and the degradation proofs  |
| `RBACDriftProofs`, `RBACDriftContractProofs`, `RBACDriftAccuracyProofs`, `CertificateProofs`, `DegradationProofs`, `PolicyRulesProofs` | theorems with proofs |
| `MCRBACDrift`, `MCCertificate`, `MCDegradation`, `MCPolicyRules` | the values of the constants in the runs |

A definition named `X_Something`, marked "Faulty variant", is not part of the
specification: it is what a plausible mistake would make of `X`, and each property
has one that violates it.

## 3. From code to model

`PROJECT.json` ("map") names the source lines of every definition.

*The grain of atomicity.* One action is one call to the API server or to the cache
together with the code up to the next call. A reconcile of the RBAC controller in
rules mode is `Dequeue`, `ReconcileActive` (Get), one `CheckEntry` for each baseline
entry (Get of the resource), `FinishRulesBased` (events and the status in the
copy), `PutReport` (Status().Update). Between any two of them users edit, the
cluster changes, watch events arrive, or the process dies. `pc` says where the
worker stands.

*The runtime.* `api[m]` is the stored monitor with `gen` = metadata.generation;
`mwatch[m]` the versions on the way to `mcache[m]`. A resourceVersion is only ever
compared for equality, between the worker's copy and the stored object, at
`Status().Update`; `fresh` holds the result of that comparison: set when the copy is
read from a cache that has caught up, cleared by every write of others. `queue[m]`
is `none`, `delayed` (RequeueAfter or rate limiter) or `ready`; a key being
reconciled may be added again and is handed out afterwards. `Result{}, nil` is
`Finished`, an error or RequeueAfter is `FinishedRequeue`. `StatusUpdateFailed`
covers conflict and NotFound (the copy is not fresh), a call that failed, and an
answer that was lost after the write. A status write that changes nothing makes no
version and no event. `Restart` starts from an empty queue and full lists.

*Late updates.* A call that failed need not have failed at the server. When the caller
of `Status().Update` gives up, or its process loses the leader's lease or dies, the
request can still be on the way: `late` holds it, and `LateUpdate` lets it arrive at any
later moment, among the writes of users and of the next leader. It succeeds only if its
resourceVersion is still the stored one, and every write of the monitor removes it
from `late`. So the model has two writers of a status, at most one of which is alive.

*Events.* `Record` is `Recorder.Event`: the Event is in `told`, a history of what any
process gave to its recorder, and in `unsent`, the memory of this one. `SendEvent` brings it
to the API server (`events`), `DropEvent` is whatever may go wrong on the way (a full
channel, the spam filter, a refusal), and `Restart` loses what is `unsent`. The safety
properties speak of `told`, for nothing stronger is true of a status when it is written; the
liveness properties of the RBAC controller speak of `events`.

*The contract.* `MonitorContract` has three variables for each monitor: `desired`
(generation and spec), `report` (the finding and the generation it claims) and `ready`
(what Ready says and for which generation). Users create, edit and delete; the operator
may `Publish` a finding admissible for the stored spec as a report of the stored
generation, `GiveUp` (Ready becomes "Failed", the report stays) or `Acknowledge` a
suspension. Caches, queue, worker, copies and failures are not in it. Each Properties
module maps its store to the three variables (`Desired`, `Reports`, `Readiness`) and says
which findings are admissible: modified or deleted resources that the baseline names, with
a DriftDetected that agrees; certificates of namespaces in the selector and not excluded,
one severity each; operators selected by the filter, with the verdict of the threshold.

*RBAC.* A member of `Refs` is one ClusterRole, ClusterRoleBinding, Role or
RoleBinding; the four nearly identical functions of each task become one definition
over the kind. Contents are opaque; `NormRules` is the normalisation of rules by
`sortPolicyRules` before roles are compared (`PolicyRules` models it), while bindings are
compared as they are (`Differs`). A content in `NilLists` has no rules or no subjects; the
API server refuses a status whose snapshot holds one (`Admitted`), because the CRD
requires the list and Go serialises a nil slice as null. The baseline is a set: no property depends on the order of checking.
Snapshot and detection list one kind per step (`SnapshotKind`, `DetectUnexpected`),
since the cache changes in between, and a List can fail for one kind. `Recorded`
leaves out the Events of a type that client-go refuses at the call.

*Certificates.* A secret has a namespace and a name; `pem` is FALSE when `tls.crt`
holds no certificate. Time has units of which `DayLength` make a day, `DaysUntil`
truncates towards zero like the conversion in the code. A namespace is known by its label
set (`nss`, or `Nil`), which users change at any time; all of them exist at the start. A
selector is the set of the label sets it matches, `Nil` when it is invalid. The order in which the cache lists
secrets is arbitrary (it ranges over a Go map), so `ScanNamespace` chooses one.

*Degradation.* Of a ClusterOperator the model has the three conditions, each "True",
"False", "Unknown" or missing. `Correlate` is the List and the loop after it.
`emitted` holds the events that the reconcile under way gave to the recorder: what is asked
of them is asked before the status is written, so what the recorder does later is left out.

*Policy rules.* A slot is a field of a rule of one of the two lists and has a slice of
its own; `given` is what the check got, `slices` the same memory as it is now. One action is one turn of the inner
loop of `sortStrings` (`MoveDown`), one end of it (`InPlace`), or the step to the next
slice. `Compare` is `reflect.DeepEqual` of the two lists, which tells nil from empty.

*Abstracted*: messages, versions, `lastTransitionTime`, log lines; durations (a
delayed key becomes ready at any time); the clock has the granularity of
`metav1.Time`, one second in the RBAC and degradation models.

## 4. Runs

Eight runs pass; distinct states are those of the last measurement. Deadlock is not
checked: an operator with nothing to do, once users have made their edits, rests.

**RBACDrift_safety** (1 million states) — two resources (a ClusterRole and a
RoleBinding), two baselines, suspension, three edits, one failed call, one restart. The mode
is rules-based; the snapshot run changes it.
- `ActiveIsScheduled`: an active monitor is being reconciled, queued, or has an
  event on the way. There is no path on which a conflict, a deletion followed by
  re-creation, a suspension or a restart makes the operator forget it.
- `SettledReportIsAccurate`: as long as no call failed, a monitor with nothing left
  to handle lists exactly the drift between current spec and current cluster: the
  watches alone suffice. This is where an event mapped with an old spec would show.
- `CurrentReportSpeaksOfBaseline`: a report that claims the current generation lists
  only resources of the current baseline (optimistic locking protects this, even
  when the monitor is created again with the same generation).
- `DriftConditionMatchesItems`: the condition and the list agree in every status.
- `ReportedDriftIsAnnounced`: what is listed was given to the recorder before the status
  was on its way, whatever its severity and whichever process or late update wrote it.
- `SuspendedIsLeftAlone`: after a suspension is acknowledged, neither reconciles that
  were under way nor late updates change the status.
- `ImplementsContract`: the controller implements `MonitorContract`.

**RBACDrift_liveness** (0.2 million states) — one resource with two contents, so that it
can be modified as well as deleted, two edits, one failed call, one restart, two seconds.
`ReportEventuallyAccurate`, `SuspensionEventuallyAcknowledged`, `StatusSettles` (though every
status write wakes the controller, it comes to rest once the clock stands still),
`DriftEventuallyAnnounced` (a drift that stays gets its Event to the API server though the
recorder drops some and a restart loses others, since every check announces all it finds),
`UnexpectedEventuallyAnnounced` (resources outside the baseline wake nobody; the periodic
recheck finds them).

**RBACDrift_snapshot** (0.6 million states) — four specs into and out of the snapshot
mode, a role that may have no rules, three edits, two failed calls, one restart.
`SnapshotIsThereForTheCheck`: line 133 dereferences `Status.SnapShotBaseline` without a
test, and never meets nil. `SnapshotTakenOnce`: no stored snapshot is overwritten.
`MissingSnapshotIsRetried`: until a second call fails, a monitor in snapshot mode without a
snapshot is tried again, also when the API server refuses the snapshot every time (what a
second failure of the same kind does: section 8). `ImplementsContract` holds in this mode as well, which publishes no report.
The mode has the value of the Go constant here (see section 7 for why that matters).

**Certificate_safety** (0.5 million states) — two secrets in two namespaces, each expired,
in the warning period, not a certificate or absent; four specs, two edits, one failed call,
one restart; the clock stands still. `ActiveIsScheduled` (an invalid selector included),
`StatusAddsUp` (list, counters, conditions), `CriticalIsNotPlayedDown` (the thresholds in
either order), `FirstAlarmIsAnnounced` (when a status first lists certificates, an Event for
each was given to the recorder of the process that made it), `ImplementsContract`.

**Certificate_liveness** (0.9 million states) — one secret in one namespace with two label
sets, one of them selected; three edits, one failed call, one restart, two units of time.
`ReportEventuallyAccurate`: the certificate is good when the clock starts and due when
it stops, and the list must follow; so it must when the namespace is relabelled after a scan,
or deleted and created again, when the secret is replaced, when the selector was invalid, and
when a List failed. What is right is stated in units of time, not in the truncated days of
the code.

**Degradation_safety** (0.8 million states) — two operators (absent, degraded or
unavailable), three specs, three edits, two failed calls (the second List that fails
writes no news, so that only the timer brings the monitor back). `ActiveIsScheduled`,
`SettledReportIsAccurate`, `VerdictFitsSpec` (the verdict fits the generation the status
claims, also after a failed List), `TroubleIsAnnounced`, `ImplementsContract`.

**Degradation_liveness** (0.8 million states) — one operator (absent, healthy, degraded, or
degraded without a condition Available), three edits, one failed
call, one restart, two seconds. `ReportEventuallyAccurate`, which asks that the status is
right and that Ready says so.

**PolicyRules_compare** (0.9 million states) — all pairs of lists of up to two rules.
`OnlyReordered`: at every moment, also in the middle of an exchange sort, each slice of the
caller holds the strings it held before, as often. `AnswerIsRight`: the comparison says
"equal" exactly when the lists agree rule by rule and field by field up to the order of the
strings, nil and empty told apart. `EventuallyCompared`: sorting ends and an answer comes.

Four runs end in a violation, each of a statement of the repository: section 7.

`TypeOK` is checked in `RBACDrift_liveness`, `Certificate_liveness` and
`Degradation_safety`. It says, besides the types, that the worker
has a key and a copy of the monitor in every phase that uses them.

## 5. Bounds and fairness

`MaxEdits` counts what users and the cluster do, `MaxFaults` failed calls, `MaxCrashes`
restarts, `MaxClock` the seconds that pass. They bound everything: versions come from
edits and from status writes that change something, and a status can change only
finitely often within the edits, faults and seconds. One monitor is enough for the
properties of one monitor, because a reconcile touches only its own key; that
several keys in the queue do not disturb each other is part of what the proofs
(section 6), which have any number of monitors, establish. Three edits allow create,
edit or delete, and edit or re-create, with a reconcile under way at each; two faults
(snapshot and degradation runs) allow a failed attempt and a failed report of it; two resources allow
one to change between the checks of both.

`PolicyRules_compare` takes its inputs from all pairs of lists of at most two rules whose
slices have at most three strings, with repeated strings, empty and nil slices, so that
every case of both loops and both ways of telling nil from empty occur; two rules show that
the order of rules matters. Longer lists are for the proofs.

`RBACDrift_safety`, `RBACDrift_snapshot` and `Certificate_safety` have a `VIEW` that leaves
`unsent` and `events` out of a state. No guard and no other variable depends on these two,
and the properties of these runs do not mention them, so that two states that differ in
nothing else have the same future as far as these runs can tell. The liveness runs use no view.

The last clock value is `MaxClock`, the first is 1. In the liveness run of certificates
`NotAfters` is 7 with two units to a day: the time left passes from three whole days, which no
threshold reaches, to two, the warning threshold. The certificates' safety run and the RBAC
liveness run have two edits, creation and one change of the monitor or the cluster (which
starts in any state): each of their properties can be broken within that, as the faulty variants
show. In the safety run the clock stands, because none of its properties looks at the time.

The specifications of the controllers with fairness (`FairSpec`) assume weak fairness of informers
(delivery), of the queue's timers, of handing out a ready key and of the steps of a
reconcile. This is what the runtime does: goroutines that run for ever, with one
worker that blocks on nothing but its calls. Nothing is assumed of users, of the
cluster, of the clock or of failures; failures end only because `MaxFaults` bounds
them, so a liveness property reads "once calls stop failing". `PolicyRules` is
sequential code: weak fairness of its steps says only that it goes on running.

The RBAC controller has strong fairness of `SendEvent` besides: a recorder that is given
Events again and again gets one through. Strong, because the Event does not wait
for ever, as it can be dropped or lost each time; the code's part is that it is given again, which is what the
faulty variants leave out. What the assumption leaves out is in section 9.

## 6. Proofs

TLAPS proves, for any monitors, specs, resources, secrets, operators, rules and bounds:

| theorem | property | module |
|---------|----------|--------|
| `TypeCorrect`, `SnapshotPresent`, `NothingLost` | `TypeOK`, `SnapshotIsThereForTheCheck`, `ActiveIsScheduled` | `RBACDriftProofs` |
| `ReportSpeaksOfBaseline`, `ConditionMatches`, `DriftAnnounced` | `CurrentReportSpeaksOfBaseline`, `DriftConditionMatchesItems`, `ReportedDriftIsAnnounced` | `RBACDriftContractProofs` |
| `SuspendedLeftAlone`, `SnapshotOnce` | `SuspendedIsLeftAlone`, `SnapshotTakenOnce` | `RBACDriftContractProofs` |
| `DriftReportsAccurate`, `MissingSnapshotRetried` | `SettledReportIsAccurate`, `MissingSnapshotIsRetried` | `RBACDriftAccuracyProofs` |
| `ContractImplemented` | `ImplementsContract` (RBAC) | `RBACDriftContractProofs` |
| `Trust`, `StoredIsTrustworthy` | `AllTrustworthy` of the contract, and of the RBAC controller | `MonitorContract`, `RBACDriftContractProofs` |
| `CertificateTypeCorrect`, `CertificateNothingLost` | `TypeOK`, `ActiveIsScheduled` | `CertificateProofs` |
| `AccountsAgree`, `CriticalStaysCritical`, `FirstAlarmsAnnounced` | `StatusAddsUp`, `CriticalIsNotPlayedDown`, `FirstAlarmIsAnnounced` | `CertificateProofs` |
| `CertificateImplements`, `CertificateIsTrustworthy` | `ImplementsContract`; `AllTrustworthy` of the contract | `CertificateProofs` |
| `DegradationTypeCorrect`, `DegradationNothingLost` | `TypeOK`, `ActiveIsScheduled` | `DegradationProofs` |
| `VerdictsFit`, `TroubleAnnounced`, `DegradationReportsAccurate` | `VerdictFitsSpec`, `TroubleIsAnnounced`, `SettledReportIsAccurate` | `DegradationProofs` |
| `DegradationImplements`, `DegradationIsTrustworthy` | `ImplementsContract`; `AllTrustworthy` of the contract | `DegradationProofs` |
| `RulesOnlyReordered`, `ComparisonIsRight` | `OnlyReordered`, `AnswerIsRight` | `PolicyRulesProofs` |

The assumptions are those of the modules, which TLC evaluates in every run: bounds are
natural numbers; `Nil` is none of the objects, conditions or desires; `KindOf`, `NsOf` and
`NormRules` are functions on their sets; namespaces, secrets and operators are finitely
many; the specs are records of the CRD's shape; strings have the order of numbers.

*`TypeInv`* (RBAC). `TypeOK` alone is not inductive: `StartCheck` takes the entries of a
check in snapshot mode from `status.snap`, which is a set only if there is a snapshot. So the
type invariant needs `SnapshotIsThereForTheCheck`, and that needs `SnapshotMade`: what is
about to be written in the phase `putSnapshot` is not nil. The answer to a successful
status update replaces the copy (`obj' = api'[key]`), and carries the status just
written, so the proof needs no relation between the copy's and the stored spec.

*`SchedulingInv`* (RBAC). That no active monitor is forgotten turns on the reconciles that
end without a requeue: the monitor is gone, suspended, or in snapshot mode. Each ends
on the strength of a copy that may be old. The induction therefore carries
`CacheCatchesUp` (the last version on the watch is the stored one, and with an empty
watch the cache is), `CopyIsCurrent` (the copy has the stored spec unless the key is
ready again or an event is on the way) and `PhaseFitsCopy` (those phases are entered only
with such a copy). Then: if the stored monitor is active and such a reconcile ends, its
copy was not current, hence the key is queued or an event is on the way.

*`ContractInv`* (RBAC). Everything about stored statuses follows from what may replace one.
`MayFollow(o, status)` says it for the stored monitor `o`: on a suspended monitor only the
acknowledgement; otherwise the old report with its Ready or a failed one, or a completed
report of this generation with a finding its spec admits; and a snapshot stays. `FreshCopy`
carries this along a reconcile: while the copy has the stored resourceVersion it is the
stored monitor but for what Reconcile put into it, and what waits for `Status().Update` may
follow it. `LateIsAcceptable` says the same of the requests on the way, `CheckIsOfBaseline`
supplies what a check has found so far, and `StoredIsSound` collects what then holds
of the stored monitors. The update is only accepted while the resourceVersion is the
same, so each step leaves the store alone, is a write of a user, or replaces one status
by one that may follow it; these are, in this order, a stutter, `Create`/`Edit`/`Delete`,
and `Publish`/`GiveUp`/`Acknowledge` of the contract. Announcement is part of
`Acceptable`: what may be written was given to the recorder, and `told` only grows. So
`DriftAnnounced` says that no status lists a drift nobody recorded; that the Event
arrives is not provable (an SF assumption carries it) and is `DriftEventuallyAnnounced`.

*`Trust`*. The contract alone implies that a report that claims the stored generation fits
the stored spec, that "Suspended" is said of suspended monitors only, and that Ready =
True and the report are of the same check. As generations count from 1, a monitor that is
deleted and created again cannot inherit a claim. `StoredIsTrustworthy` carries it over.

*`RuntimeInv`* (certificates and degradation). The two reconciles have the same shape, so
`ControllerRuntimeProofs` proves their part of the runtime once, for a set `Sound` of
monitors that is closed under edits of the spec and a set `Moves` of pairs of them: a stored
monitor, and what a status update may make of it. `FreshIsStored` and `LateOK` say that what
is written, now or late, is a move of the monitor as it is stored *now*, since the update
is refused once the resourceVersion has changed. The controllers' actions fit one of three
forms, `Begins` (with a copy from the cache), `GoesOn` and `Ends`, which are all that the
lemmas ask of them; whatever steps interleave, a step leaves the store alone, is an
edit of a user, or makes a move (`Moved`). Each controller then chooses the sets. `Sound`: the
monitors whose verdict fits their spec; those whose accounts add up and play nothing
down. `Moves`, by `MayFollow`: on a suspended monitor only the acknowledgement, otherwise
a complete check of its own generation (or, for degradation, the failed List).

*The refinements* of these two follow from `Moved`. `TurnIsStep`, proved in
`MonitorContract`, reduces a step of the contract to what it does to one monitor;
`EditRefines` and `UpdateRefines` show that the edits of a user and the moves are such
turns.

*The scan of certificates.* Counters are cardinalities and lists are sequences, in an order
chosen by the cache. `ScanOK` says that the list so far is an enumeration without repetition
of certificates from namespaces already scanned; counting is then a bijection between
positions of the list and elements of its set. `ScanFits` ties each severity to the
thresholds, and each certificate to the namespaces, of the spec that is worked on.

*`AccuracyInv`* (RBAC and degradation). `SettledReportIsAccurate` speaks of monitors nobody
will wake and says nothing of the others, so it is not inductive. `AccuracyInv` says of
every active monitor, as long as no call failed, that it has news (`NewsOf`: it is queued, an
event of its own is on the watch, or one of a resource or operator it looks at) or is
`UpToDate`: its stored report is right or, while it is being worked on, what the worker has
made of it so far is. For the RBAC check, which compares one entry after the
other while the cluster goes on changing, this is `Found = DriftOf(baseline \ todo)`: the
drift found so far is that of the entries compared so far, in the cluster as it is now. A
change behind the back of the check falsifies that, and is itself the news.
The news must not be consumed too early: `ResourcesCatchUp` (`OperatorsCatchUp`) says
that with an empty watch the cache is the cluster, so that what is compared then is right;
the event is mapped through the cached specs, and if the cached spec is not the
stored one, an event of the monitor itself is on the way. `CopyIsFresh` says that
a copy overtaken by a write will be read again: the monitor is queued, or has an event
on the watch, so a check with an old spec cannot be the last one.

*`RetryInv`* (RBAC). A failed snapshot ends the reconcile without a requeue, and what brings
the monitor back is the event of the status that tells of the failure. There is none if the
status told the same before (`SecondFailure`; the API server drops an update that changes
nothing). `FailureHasCause`, that no status anywhere blames a snapshot before a call has
failed, makes that the second failed call, with which the promise ends.

*`AlarmInv`* (certificates). The announcements of a scan are made before its status is
written, and compare it with the list in the copy, not the stored one. Whatever may
still be written over a stored status without certificates (by the worker, if its copy is
fresh, or by an abandoned update) lists only certificates that were given to the recorder. `FirstAlarmsAnnounced`
ends there, for an Event that is lost after the status was written is lost (section 8). A status that
a restart or a conflict has overtaken is never written, which is where the invariant needs
the optimistic locking.

TLC checked `AccuracyInv` and `RetryInv` as invariants of the safety, snapshot and
degradation configurations, and with two monitors, before they were proved.

*`LoopInv`* (policy rules). The invariants of an insertion sort with exchanges: the first
strings are in order save for the one on its way down, and each slice is a permutation of
what the caller gave. That the comparison answers right needs that two sorted permutations
of each other are equal, which is proved by the pigeonhole principle on the positions of
the strings below a given one.

A proof that a step preserves an invariant has one step for each action; the effect of
`Status().Update` on the store (`StatusCallFacts`, `StatusWrittenFacts`, `WriteFacts`) and
of the queue operations are lemmas.

*Only model-checked*: the liveness properties `ReportEventuallyAccurate` (of each controller),
`SuspensionEventuallyAcknowledged`, `StatusSettles`, `DriftEventuallyAnnounced`,
`UnexpectedEventuallyAnnounced` and `EventuallyCompared`, because fairness and ENABLED are out of reach of the provers. Every
invariant and action property that a passing run checks is a theorem; for what happens
after a failed call, where `SettledReportIsAccurate` ends, `ActiveIsScheduled` is the part
that is proved and `ReportEventuallyAccurate` the part that is checked.

## 7. Disagreements shown by a run

| run | statement | what the code does |
|-----|-----------|--------------------|
| `RBACDrift_mode` | `rbacdriftmonitor_types.go:52`: the mode selects snapshot-based comparison | the enumeration admits "SnapshotBased", `Reconcile` compares with "snapshot" (line 91): the mode is processed as rules-based and no snapshot is ever taken |
| `RBACDrift_critical` | `rbacdriftmonitor_types.go:41`: the severity of drift events is Warning or Critical | the event of an unexpected resource gets the *type* "Critical" (line 404), which client-go does not record |
| `Certificate_announced` | `README.md:19`: the operator warns of certificates | whether a certificate is announced depends on a previous severity looked up by name in any namespace, and on the severity of the last certificate of the scan (line 169) |
| `Certificate_rescan` | `certificateexpirymonitor_types.go:37`: the interval controls how often is scanned | the list has the cache's random order; a scan that finds the same in another order writes the status, which wakes the controller at once |

## 8. Disagreements without a run

Met while modelling; the model has the code's behaviour, and no run is spent on them.

- `rbacdriftmonitor_types.go:143` says DetectedAt is the time of first detection; each
  check stamps every drift anew (lines 200-225).
- `rbacdriftmonitor_types.go:152` says DriftItems contains all drifts; unexpected
  resources are only announced (lines 368-411).
- `rbacdriftmonitor_controller.go:171` says the snapshot check updates the status; it
  fills its copy and drops it (line 187). It also returns without RequeueAfter, so that a
  monitor in snapshot mode is not rechecked; and it compares ClusterRoles only.
- `rbacdriftmonitor_types.go:165`, and the CRD after it, say that SnapshotBaseline captures
  the RBAC state at the time of the last check. It is captured once, by the first reconcile
  in snapshot mode (line 92), and no check refreshes it: that is `SnapshotTakenOnce`, which
  states what the code does. (With a snapshot of the last check each change would be
  reported by one check only.)
- Events of certificates are lost for good when the process dies, or the recorder drops them,
  after the status was written: the next scan finds the stored severity equal to the current
  one and records nothing (`certificateexpirymonitor_controller.go:166-174`). So
  `FirstAlarmIsAnnounced` ends at the recorder. A drift is recorded by every check.
- With a clock that runs, `lastCheckTime` has a new second in each status, so that each status write is an
  update of its own and wakes the controller through `For` (line 768): a reconcile that takes
  over a second starts the next one, whatever the interval says. `StatusSettles` therefore
  speaks of a clock that has stopped.
- `rbacdriftmonitor_controller.go:90-109` ensures a snapshot; when taking it fails twice
  with the same message the second status write changes nothing, no event comes back
  and nothing retries.
- `certificateexpirymonitor_types.go:92` says ExpiredCount counts certificates that have
  expired; a certificate in its last 24 hours has 0 days left and counts as expired.
- `certificateexpirymonitor_controller.go:131`: a namespace whose secrets cannot be listed
  is skipped, and "All certificates are within acceptable expiry range" may be said of it.
- `certificateexpirymonitor_controller.go:225`: the number of namespaces in the message of
  Ready subtracts excluded namespaces that were not selected, and can be negative.
- `clusterdegradationmonitor_controller.go:185` says events are for state changes; they are
  recorded on every check.
- `clusterdegradationmonitor_controller.go:213` and `218` say "All monitored ClusterOperators
  are healthy" whenever none is *degraded*, also while operators are unavailable and the
  verdict is Critical.
- `rbacdriftmonitor_controller.go:93-104`: a snapshot that the API server refuses (a role with
  no rules, a binding with no subjects) stays in the copy, so the status that was to say
  BaselineSnapshotFailed carries it too and is refused as well; the error of that second
  update is what makes the monitor be tried again.
- `rbacdriftmonitor_controller.go:605` says that a sorted copy is returned: the rules are
  copied but not sorted, and the strings are sorted in the caller's slices (private
  copies, as the cached client copies what it returns).
- Bindings are compared without normalisation: `subjects: []` in a baseline differs from a
  binding without subjects.
- The order of the operators in a status is as random as that of the certificates.

## 9. Not modelled

- `formatSubjects`, messages, transition times, versions, metrics and probes: wording
  and I/O.
- `PolicyRules` stands beside `RBACDriftMonitor`, whose constant `NormRules` is any function
  on contents: the controller's properties hold whatever the normalisation is.
- The recorder's limits: its spam filter lets some 25 Events of one object pass and then one
  in five minutes. That a monitor with more drifts than that has some of them dropped at every
  check, always the same ones, is excluded by the fairness of `SendEvent`. Aggregation of
  similar Events and the hour after which the API server forgets them are left out too.
- Validation of the CRD beyond the refusal of nil lists in a snapshot: `Specs` is what the
  API server admits. In the model of the
  snapshot mode the mode has the Go constant's value, which the shipped CRD refuses.
- Two leaders that both go on reconciling: a process that loses the lease exits; what it
  leaves behind, a request on the way, is modelled.
- Parsing of X.509: a flag of the secret.

## 10. What is left

- A run with two monitors that share the queue and a resource. The proofs hold for any
  number of monitors, but liveness is only checked for one.
- The order of lists in a status (section 8), if the code gets to sort them: then
  `StatusSettles` can be asked of all three controllers.
