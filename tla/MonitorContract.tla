--------------------------- MODULE MonitorContract ---------------------------
(***************************************************************************)
(* What a monitor of the operator promises to whoever reads it in the API  *)
(* server: each step changes one monitor; a finding is published whole and *)
(* only for the spec that is stored at that moment; a suspended monitor is *)
(* only ever told that it is suspended; and what is not published stays as *)
(* it was.  Caches, queue, worker, failed calls and restarts are out of    *)
(* sight.                                                                  *)
(*                                                                         *)
(* The three controllers implement it, each with its own findings.         *)
(***************************************************************************)
EXTENDS Naturals, TLAPS

CONSTANTS
    Monitors,    \* names of the custom resources
    Specs,       \* the .spec values
    Nil,         \* no object
    Suspended,   \* the specs that suspend the monitoring
    Admissible,  \* per spec, the findings that may be published for it
    NoFinding    \* the finding of a new monitor

VARIABLES
    desired,  \* per monitor, the stored generation and spec, or Nil
    report,   \* per monitor, the finding and the generation it is claimed for
    ready     \* per monitor, what the condition Ready says, and of which generation

contractVars == <<desired, report, ready>>

Outcome == {"None", "Complete", "Failed", "Suspended"}

Unseen  == [gen |-> 0, finding |-> NoFinding]
NoWord  == [gen |-> 0, outcome |-> "None"]

Says(m, outcome) == [ready EXCEPT ![m] = [gen |-> desired[m].gen, outcome |-> outcome]]

Create(m, s) ==
    /\ desired[m] = Nil
    /\ desired' = [desired EXCEPT ![m] = [gen |-> 1, spec |-> s]]
    /\ UNCHANGED <<report, ready>>

Edit(m, s) ==
    /\ desired[m] # Nil
    /\ desired' = [desired EXCEPT ![m] = [gen |-> @.gen + 1, spec |-> s]]
    /\ UNCHANGED <<report, ready>>

Delete(m) ==
    /\ desired[m] # Nil
    /\ desired' = [desired EXCEPT ![m] = Nil]
    /\ report' = [report EXCEPT ![m] = Unseen]
    /\ ready' = [ready EXCEPT ![m] = NoWord]

\* A check of the stored generation is complete.
Publish(m) ==
    /\ desired[m] # Nil
    /\ desired[m].spec \notin Suspended
    /\ report'[m] \in [gen : {desired[m].gen}, finding : Admissible[desired[m].spec]]
    /\ report' = [report EXCEPT ![m] = report'[m]]
    /\ ready' = Says(m, "Complete")
    /\ UNCHANGED desired

\* A check of the stored generation could not be made.
GiveUp(m) ==
    /\ desired[m] # Nil
    /\ desired[m].spec \notin Suspended
    /\ ready' = Says(m, "Failed")
    /\ UNCHANGED <<desired, report>>

Acknowledge(m) ==
    /\ desired[m] # Nil
    /\ desired[m].spec \in Suspended
    /\ ready' = Says(m, "Suspended")
    /\ UNCHANGED <<desired, report>>

Init ==
    /\ desired = [m \in Monitors |-> Nil]
    /\ report = [m \in Monitors |-> Unseen]
    /\ ready = [m \in Monitors |-> NoWord]

Next ==
    \E m \in Monitors :
        \/ \E s \in Specs : Create(m, s) \/ Edit(m, s)
        \/ Delete(m)
        \/ Publish(m)
        \/ GiveUp(m)
        \/ Acknowledge(m)

Spec == Init /\ [][Next]_contractVars

-----------------------------------------------------------------------------
(***************************************************************************)
(* What a reader may conclude from the contract.                           *)
(***************************************************************************)
\* Nothing speaks of a generation to come; what claims the stored generation
\* fits its spec; and Ready = True and the report are of one check.
Trustworthy(m) ==
    /\ desired[m] = Nil => report[m] = Unseen /\ ready[m] = NoWord
    /\ desired[m] # Nil =>
          /\ report[m].gen <= desired[m].gen
          /\ ready[m].gen <= desired[m].gen
          /\ report[m].gen = desired[m].gen =>
                report[m].finding \in Admissible[desired[m].spec]
          /\ ready[m].gen = desired[m].gen =>
                (ready[m].outcome = "Suspended" <=> desired[m].spec \in Suspended)
    /\ ready[m].outcome = "Complete" => report[m].gen = ready[m].gen

AllTrustworthy == \A m \in Monitors : Trustworthy(m)

Desire == [gen : Nat \ {0}, spec : Specs]

\* The inductive invariant behind AllTrustworthy: the generations count from 1,
\* which a new monitor's report and condition cannot claim.
TrustInv ==
    /\ desired \in [Monitors -> Desire \cup {Nil}]
    /\ DOMAIN report = Monitors
    /\ DOMAIN ready = Monitors
    /\ \A m \in Monitors : report[m].gen \in Nat /\ ready[m].gen \in Nat
    /\ AllTrustworthy

\* What the generation in a report and in the condition Ready is worth: a reader
\* who finds the stored generation there may rely on the rest (the fields
\* ObservedGeneration, which the controllers set last).
THEOREM Trust == Nil \notin Desire => (Spec => []AllTrustworthy)
<1> SUFFICES ASSUME Nil \notin Desire
             PROVE  Spec => []AllTrustworthy
  OBVIOUS
<1>1. Init => TrustInv
  BY DEF Init, TrustInv, AllTrustworthy, Trustworthy, Unseen, NoWord, Outcome
<1>2. ASSUME TrustInv, [Next]_contractVars
      PROVE  TrustInv'
  <2> USE <1>2 DEF TrustInv, AllTrustworthy
  <2>1. CASE UNCHANGED contractVars
    BY <2>1 DEF contractVars, Trustworthy, Unseen, NoWord
  <2>2. ASSUME NEW m \in Monitors,
               \A n \in Monitors \ {m} : /\ desired'[n] = desired[n]
                                         /\ report'[n] = report[n]
                                         /\ ready'[n] = ready[n],
               desired' \in [Monitors -> Desire \cup {Nil}],
               DOMAIN report' = Monitors, DOMAIN ready' = Monitors,
               report'[m].gen \in Nat, ready'[m].gen \in Nat,
               Trustworthy(m)'
        PROVE  TrustInv'
    BY <2>2 DEF Trustworthy, Unseen, NoWord
  <2>3. ASSUME NEW m \in Monitors, NEW s \in Specs, Create(m, s)
        PROVE  TrustInv'
    <3>1. /\ desired'[m] = [gen |-> 1, spec |-> s]
          /\ desired'[m] \in Desire
          /\ report[m] = Unseen /\ ready[m] = NoWord
      BY <2>3 DEF Create, Desire, Trustworthy
    <3>2. Trustworthy(m)'
      BY <2>3, <3>1 DEF Create, Desire, Trustworthy, Unseen, NoWord
    <3> QED
      BY <2>2, <2>3, <3>1, <3>2 DEF Create
  <2>4. ASSUME NEW m \in Monitors, NEW s \in Specs, Edit(m, s)
        PROVE  TrustInv'
    <3>1. /\ desired[m] \in Desire
          /\ desired'[m] = [gen |-> desired[m].gen + 1, spec |-> s]
      BY <2>4 DEF Edit
    <3>2. desired'[m] \in Desire
      BY <3>1 DEF Desire
    <3>3. Trustworthy(m)'
      BY <2>4, <3>1, <3>2 DEF Edit, Trustworthy, Desire
    <3> QED
      BY <2>2, <2>4, <3>1, <3>2, <3>3 DEF Edit
  <2>5. ASSUME NEW m \in Monitors, Delete(m)
        PROVE  TrustInv'
    <3>1. desired'[m] = Nil /\ report'[m] = Unseen /\ ready'[m] = NoWord
      BY <2>5 DEF Delete
    <3>2. Trustworthy(m)'
      BY <3>1 DEF Trustworthy, Unseen, NoWord
    <3> QED
      BY <2>2, <2>5, <3>1, <3>2 DEF Delete, Unseen, NoWord
  <2>6. ASSUME NEW m \in Monitors, Publish(m)
        PROVE  TrustInv'
    <3>1. /\ desired[m] \in Desire
          /\ desired'[m] = desired[m]
          /\ ready'[m] = [gen |-> desired[m].gen, outcome |-> "Complete"]
          /\ report'[m].gen = desired[m].gen
          /\ report'[m].finding \in Admissible[desired[m].spec]
          /\ desired[m].spec \notin Suspended
      BY <2>6 DEF Publish, Says
    <3>2. Trustworthy(m)'
      BY <3>1 DEF Trustworthy, Desire
    <3> QED
      BY <2>2, <2>6, <3>1, <3>2 DEF Publish, Says, Desire
  <2>7. ASSUME NEW m \in Monitors, GiveUp(m) \/ Acknowledge(m)
        PROVE  TrustInv'
    <3>1. /\ desired[m] \in Desire
          /\ desired'[m] = desired[m]
          /\ report'[m] = report[m]
          /\ ready'[m].gen = desired[m].gen
          /\ \/ ready'[m].outcome = "Failed" /\ desired[m].spec \notin Suspended
             \/ ready'[m].outcome = "Suspended" /\ desired[m].spec \in Suspended
      BY <2>7 DEF GiveUp, Acknowledge, Says
    <3>2. Trustworthy(m)'
      BY <3>1 DEF Trustworthy, Desire
    <3> QED
      BY <2>2, <2>7, <3>1, <3>2 DEF GiveUp, Acknowledge, Says, Desire
  <2> QED
    BY <2>1, <2>3, <2>4, <2>5, <2>6, <2>7 DEF Next
<1>3. TrustInv => AllTrustworthy
  BY DEF TrustInv
<1> QED
  BY <1>1, <1>2, <1>3, PTL DEF Spec

-----------------------------------------------------------------------------
(***************************************************************************)
(* The steps again, as they look to one monitor: what an implementation    *)
(* has to show of the one it changes.                                      *)
(***************************************************************************)
OthersStay(m) ==
    \A n \in Monitors \ {m} :
        desired'[n] = desired[n] /\ report'[n] = report[n] /\ ready'[n] = ready[n]

Turn(m) ==
    \/ /\ desired[m] = Nil
       /\ \E s \in Specs : desired'[m] = [gen |-> 1, spec |-> s]
       /\ report'[m] = report[m] /\ ready'[m] = ready[m]
    \/ /\ desired[m] # Nil
       /\ \E s \in Specs : desired'[m] = [gen |-> desired[m].gen + 1, spec |-> s]
       /\ report'[m] = report[m] /\ ready'[m] = ready[m]
    \/ /\ desired[m] # Nil
       /\ desired'[m] = Nil /\ report'[m] = Unseen /\ ready'[m] = NoWord
    \/ /\ desired[m] # Nil
       /\ desired'[m] = desired[m]
       /\ \/ /\ desired[m].spec \notin Suspended
             /\ report'[m] \in [gen : {desired[m].gen},
                                finding : Admissible[desired[m].spec]]
             /\ ready'[m] = [gen |-> desired[m].gen, outcome |-> "Complete"]
          \/ /\ desired[m].spec \notin Suspended
             /\ report'[m] = report[m]
             /\ ready'[m] = [gen |-> desired[m].gen, outcome |-> "Failed"]
          \/ /\ desired[m].spec \in Suspended
             /\ report'[m] = report[m]
             /\ ready'[m] = [gen |-> desired[m].gen, outcome |-> "Suspended"]

LEMMA TurnIsStep ==
    ASSUME NEW m \in Monitors, OthersStay(m), Turn(m),
           desired = [n \in Monitors |-> desired[n]],
           desired' = [n \in Monitors |-> desired'[n]],
           report = [n \in Monitors |-> report[n]],
           report' = [n \in Monitors |-> report'[n]],
           ready = [n \in Monitors |-> ready[n]],
           ready' = [n \in Monitors |-> ready'[n]]
    PROVE  Next
<1>1. /\ desired' = [desired EXCEPT ![m] = desired'[m]]
      /\ report' = [report EXCEPT ![m] = report'[m]]
      /\ ready' = [ready EXCEPT ![m] = ready'[m]]
  BY DEF OthersStay
<1>2. /\ desired'[m] = desired[m] => desired' = desired
      /\ report'[m] = report[m] => report' = report
      /\ ready'[m] = ready[m] => ready' = ready
  BY DEF OthersStay
<1>3. ASSUME NEW s \in Specs, desired[m] = Nil, desired'[m] = [gen |-> 1, spec |-> s],
             report'[m] = report[m], ready'[m] = ready[m]
      PROVE  Create(m, s)
  BY <1>1, <1>2, <1>3 DEF Create
<1>4. ASSUME NEW s \in Specs, desired[m] # Nil,
             desired'[m] = [gen |-> desired[m].gen + 1, spec |-> s],
             report'[m] = report[m], ready'[m] = ready[m]
      PROVE  Edit(m, s)
  BY <1>1, <1>2, <1>4 DEF Edit
<1>5. CASE /\ desired[m] # Nil
           /\ desired'[m] = Nil /\ report'[m] = Unseen /\ ready'[m] = NoWord
  <2>1. Delete(m)
    BY <1>1, <1>5 DEF Delete
  <2> QED
    BY <2>1 DEF Next
<1>6. CASE desired[m] # Nil /\ desired'[m] = desired[m] /\ Turn(m)
  <2>1. CASE /\ desired[m].spec \notin Suspended
             /\ report'[m] \in [gen : {desired[m].gen},
                                finding : Admissible[desired[m].spec]]
             /\ ready'[m] = [gen |-> desired[m].gen, outcome |-> "Complete"]
    BY <1>1, <1>2, <1>6, <2>1 DEF Publish, Says, Next
  <2>2. CASE /\ desired[m].spec \notin Suspended
             /\ report'[m] = report[m]
             /\ ready'[m] = [gen |-> desired[m].gen, outcome |-> "Failed"]
    BY <1>1, <1>2, <1>6, <2>2 DEF GiveUp, Says, Next
  <2>3. CASE /\ desired[m].spec \in Suspended
             /\ report'[m] = report[m]
             /\ ready'[m] = [gen |-> desired[m].gen, outcome |-> "Suspended"]
    BY <1>1, <1>2, <1>6, <2>3 DEF Acknowledge, Says, Next
  <2> QED
    BY <1>3, <1>4, <1>5, <1>6, <2>1, <2>2, <2>3 DEF Turn, Next
<1> QED
  BY <1>3, <1>4, <1>5, <1>6 DEF Turn, Next

=============================================================================
