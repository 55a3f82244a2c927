--------------------------- MODULE MismatchAlert ---------------------------
(***************************************************************************)
(* What the bridge watchdog promises the operator, with no word about      *)
(* ticks, sources or retries: a deviation above the threshold is raised    *)
(* once, a different one is raised again, a healthy observation clears it, *)
(* and a restarted watchdog remembers nothing.                             *)
(***************************************************************************)
EXTENDS Integers

CONSTANTS Threshold,   \* deviations up to this one are healthy
          Deviation    \* the deviations that can be observed

VARIABLES raised,      \* the deviation the watchdog holds raised, 0 for none
          delivered,   \* the last deviation PagerDuty accepted, 0 for none
          lost         \* was the last call to PagerDuty refused?

alertVars == <<raised, delivered, lost>>

Init == raised = 0 /\ delivered = 0 /\ lost = FALSE

Raise(d, accepted) ==
  /\ d > Threshold
  /\ d # raised
  /\ raised' = d
  /\ delivered' = IF accepted THEN d ELSE delivered
  /\ lost' = ~accepted

Clear ==
  /\ raised' = 0
  /\ UNCHANGED <<delivered, lost>>

Next == \/ \E d \in Deviation, accepted \in BOOLEAN : Raise(d, accepted)
        \/ Clear

Spec == Init /\ [][Next]_alertVars
=============================================================================
