----------------------------- MODULE HealthAlerts -----------------------------
(***************************************************************************)
(* The host health monitor (vps_health.py): each sample finds the issues   *)
(* of the moment, decide chooses between an alert, a recovery message and  *)
(* silence, and record saves the choice once every user has received it.   *)
(***************************************************************************)
EXTENDS Naturals, FiniteSets

CONSTANTS
  Issues,      \* issue keys
  Cooldown,    \* health_alert_cooldown_seconds, in samples
  Stable,      \* health_recovery_stable_seconds, in samples
  MaxFaults    \* bound on failing sends and restarts

VARIABLES
  present,    \* what the samples find
  sampled,    \* the issues of the current sample, while it is being announced
  event,      \* the decision being announced: "none", "alert" or "recovery"
  active,     \* the table: issues announced and not known to be over
  cooling,    \* the table: samples until an issue may be announced again
  candidate,  \* samples since _recovery_candidate_since, NoCandidate if None
  told,       \* the last announcement every user has received
  unrecorded, \* that was a recovery, which a crash kept from the table
  clear,      \* samples in a row that found nothing
  faults

vars == <<present, sampled, event, active, cooling, candidate, told,
          unrecorded, clear, faults>>

NoCandidate == Stable + 1
Fail == faults < MaxFaults /\ faults' = faults + 1
Capped(n, limit) == IF n < limit THEN n ELSE limit

Init ==
  /\ present = {} /\ sampled = {} /\ event = "none"
  /\ active = {} /\ cooling = [i \in Issues |-> 0] /\ candidate = NoCandidate
  /\ told = "recovery" /\ unrecorded = FALSE /\ clear = 0 /\ faults = 0

Change ==
  /\ event = "none" /\ present' \in SUBSET Issues \ {present}
  /\ UNCHANGED <<sampled, event, active, cooling, candidate, told, unrecorded, clear, faults>>

------------------------------------------------------------------------------
\* The age of the candidate at this sample.
Age == candidate + 1
\* Nothing is wrong now but was announced: a recovery, after a stable while.
\* Fault: the first clear sample is enough.
RecoversAtOnce == TRUE
Recovers == Stable = 0 \/ (candidate # NoCandidate /\ Age >= Stable)
\* Something is wrong that was never announced or not for the cooldown.
Due(issues) == \E i \in issues: cooling[i] <= 1

\* A sample and its decision.  What silence records is part of it: of the
\* issues announced the ones that are over become inactive.
Sample ==
  /\ event = "none"
  /\ sampled' = present /\ clear' = IF present = {} THEN Capped(clear + 1, Stable + 1) ELSE 0
  /\ cooling' = [i \in Issues |-> IF cooling[i] > 0 THEN cooling[i] - 1 ELSE 0]
  /\ CASE present = {} /\ active = {} -> event' = "none" /\ candidate' = NoCandidate /\ UNCHANGED active
       [] present = {} /\ active # {} ->
            /\ event' = (IF Recovers THEN "recovery" ELSE "none")
            /\ candidate' = (IF candidate = NoCandidate THEN 0 ELSE Capped(Age, Stable))
            /\ UNCHANGED active
       [] OTHER ->
            /\ event' = (IF Due(present) THEN "alert" ELSE "none")
            /\ candidate' = NoCandidate
            /\ active' = IF Due(present) THEN active ELSE active \cap present
  /\ UNCHANGED <<present, told, unrecorded, faults>>

\* Every user has received the message: it is recorded.
Record ==
  /\ event # "none" /\ event' = "none" /\ told' = event /\ unrecorded' = FALSE
  /\ active' = sampled
  /\ cooling' = [i \in Issues |-> IF i \in sampled THEN Cooldown ELSE cooling[i]]
  /\ candidate' = IF event = "recovery" THEN NoCandidate ELSE candidate
  /\ UNCHANGED <<present, sampled, clear, faults>>
\* The process ends after the sends and before the last write: the issues of
\* an alert are written first, those that are over after them.
CutRecord ==
  /\ event # "none" /\ Fail /\ event' = "none" /\ told' = event /\ candidate' = NoCandidate
  /\ unrecorded' = (event = "recovery")
  /\ \E written \in SUBSET sampled, over \in SUBSET (active \ sampled):
       /\ over = {} \/ written = sampled
       /\ active' = (active \cup written) \ over
       /\ cooling' = [i \in Issues |-> IF i \in written THEN Cooldown ELSE cooling[i]]
  /\ UNCHANGED <<present, sampled, clear>>
\* Somebody has not: nothing is recorded, the next sample decides again.
NotDelivered ==
  /\ event # "none" /\ Fail /\ event' = "none"
  /\ UNCHANGED <<present, sampled, active, cooling, candidate, told, unrecorded, clear>>

\* The table survives a restart, the recovery candidate does not.
Restart ==
  /\ Fail /\ event' = "none" /\ candidate' = NoCandidate
  /\ UNCHANGED <<present, sampled, active, cooling, told, unrecorded, clear>>

Next == Change \/ Sample \/ Record \/ CutRecord \/ NotDelivered \/ Restart
Spec == Init /\ [][Next]_vars

------------------------------------------------------------------------------
\* A recovery is announced only when the last thing everybody was told is an
\* alert, and when nothing was found at any sample of the stable period, over
\* restarts and messages that were not delivered.  It is repeated only when a
\* crash kept the one everybody was told from being recorded.
RecoveryIsTrue ==
  event = "recovery" => (told = "alert" \/ unrecorded) /\ sampled = {} /\ clear > Stable
=============================================================================
