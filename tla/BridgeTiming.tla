---------------------------- MODULE BridgeTiming ----------------------------
(***************************************************************************)
(* The watchdog's back-off, alarm and downtime arithmetic, measured by     *)
(* clocks the program does not have. The clocks below are history: they    *)
(* observe the steps of BridgeWatchdog and never hinder them.              *)
(***************************************************************************)
EXTENDS BridgeWatchdog

CONSTANTS MaxSinceFail, MaxEtherDown   \* bounds: clocks stop here

ASSUME TimingAssumption ==
  /\ MaxSinceFail \in Nat /\ MaxSinceFail >= Backoff
  /\ MaxEtherDown \in Nat /\ MaxEtherDown > EtherFailLimit * Backoff

VARIABLES
  sinceFail,    \* iterations since a source last failed
  etherDown,    \* iterations since EtherScan began to fail unreported, or NoTime
  etherAlone,   \* has only EtherScan failed since?
  outage        \* ticks since Google began to fail, or NoTime

clocks == <<sinceFail, etherDown, etherAlone, outage>>

Advance(t, max) == IF t \in 0..(max - 1) THEN t + 1 ELSE t
Iteration == SkipTick \/ BeginProbe
\* EtherScan's error is written to the log, and its counter reset.
EtherAlarm == EtherFails /\ etherFailCounter' = 0

TimingInit ==
  /\ Init
  /\ sinceFail = MaxSinceFail
  /\ etherDown = NoTime /\ etherAlone = TRUE
  /\ outage = NoTime

Forget ==
  /\ sinceFail' = MaxSinceFail
  /\ etherDown' = NoTime /\ etherAlone' = TRUE
  /\ outage' = NoTime

Measure ==
  /\ sinceFail' = IF Fails THEN 0
                  ELSE IF Iteration THEN Advance(sinceFail, MaxSinceFail)
                  ELSE sinceFail
  /\ etherDown' = IF EtherAlarm \/ EtherAnswers THEN NoTime
                  ELSE IF EtherFails /\ etherDown = NoTime THEN 0
                  ELSE IF Iteration THEN Advance(etherDown, MaxEtherDown)
                  ELSE etherDown
  /\ etherAlone' = IF EtherAlarm \/ EtherAnswers THEN TRUE
                   ELSE etherAlone /\ ~((GoogleFails \/ BnbFails) /\ etherDown # NoTime)
  /\ outage' = IF GoogleAnswers THEN NoTime
               ELSE IF GoogleFails /\ outage = NoTime THEN 0
               ELSE IF Clock THEN Advance(outage, MaxAge)
               ELSE outage

TimingNext == Next /\ IF pc' = "down" THEN Forget ELSE Measure
TimingSpec == TimingInit /\ [][TimingNext]_<<vars, clocks>>

\* The fairness of BridgeWatchdog's FairSpec: the clocks only observe.
FairTimingSpec == TimingSpec /\ WF_vars(Clock) /\ WF_vars(Loop)
-----------------------------------------------------------------------------
(* Properties. *)

\* Whatever failed, the sources are left alone until the Backoff-th iteration
\* after it, with SkipTick and BeginProbe sharing the countdown between them.
BackoffKept == [][BeginProbe => sinceFail + 1 >= Backoff]_<<vars, clocks>>

\* An EtherScan outage is not logged before EtherFailLimit back-offs have passed
\* (root.go:126-131, 137-141), even when Google or the BNB node fail in between
\* (they delay the alarm and keep the count). That is 3 h 20 min, not the hour of
\* the comment: LoggedWhenFailingAnHour states what the comment says.
AlarmIsPatient ==
  [][EtherAlarm => EtherFailLimit = 0 \/ etherDown >= EtherFailLimit * Backoff]_<<vars, clocks>>

\* root.go:128 "If failing for 1 hour", of the error that is logged. The ticker
\* fires every 200 s: a request that fails when EtherScan has been failing for
\* an hour of iterations is logged. The code does otherwise.
HourOfIterations == 3600 \div 200
LoggedWhenFailingAnHour ==
  [][EtherFails /\ etherDown >= HourOfIterations => EtherAlarm]_<<vars, clocks>>

\* It is logged no later than after EtherFailLimit back-offs, as long as nothing
\* else fails.
AlarmInTime ==
  etherAlone /\ etherDown # NoTime => etherDown <= EtherFailLimit * Backoff

\* The time kept for the "time down" message is that of a failed ping of the
\* outage it ends, the last one: never longer than the outage, which it may fall
\* short of (root.go:104 overwrites it), and kept exactly during one.
DowntimeWithinOutage ==
  /\ (wifiDowntime = NoTime) = (outage = NoTime)
  /\ wifiDowntime <= outage
=============================================================================
