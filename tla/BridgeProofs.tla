---------------------------- MODULE BridgeProofs ----------------------------
(***************************************************************************)
(* The bridge watchdog, for every value of the constants: its polling loop *)
(* (BridgeWatchdog), the times at which the loop probes and complains      *)
(* (BridgeTiming), and the decimals it computes with, as numbers and as    *)
(* text (DecimalArith, DecimalText).                                       *)
(***************************************************************************)
EXTENDS BridgeTiming, DecimalText, DataLemmas

\* Abs is a distance: what the step lemmas need of it.
LEMMA AbsProperties ==
  ASSUME NEW a \in Int, NEW b \in Int
  PROVE  /\ Abs(a) \in Nat
         /\ Abs(a + b) <= Abs(a) + Abs(b)
         /\ Abs(a) - Abs(b) <= Abs(a - b)
         /\ Abs(a - b) = Abs(b - a)
  BY DEF Abs

\* TypeOK holds initially and is kept by every action of Next.
LEMMA TypeInductive ==
  /\ Init => TypeOK
  /\ TypeOK /\ [Next]_vars => TypeOK'
<1> USE ConstantsAssumption DEF Sides, NoTime
<1>1. Init => TypeOK
  <2> SUFFICES ASSUME Init PROVE TypeOK OBVIOUS
  <2> USE DEF Init
  <2>1. bnbSide \in Sides /\ ethSide \in Sides /\ bnb \in Sides OBVIOUS
  <2>8. tick \in BOOLEAN /\ lost \in BOOLEAN BY Zenon
  <2>2. reportCounter \in 0..(ReportLimit + 1) OBVIOUS
  <2>3. tryAgainCounter \in 0..Backoff OBVIOUS
  <2>4. etherFailCounter \in 0..EtherFailLimit OBVIOUS
  <2>5. wifiDowntime \in {NoTime} \cup 0..MaxAge OBVIOUS
  <2>6. drift \in 0..MaxDrift OBVIOUS
  <2>7. QED BY <2>1, <2>2, <2>3, <2>4, <2>5, <2>6, <2>8 DEF TypeOK
<1>2. ASSUME TypeOK, [Next]_vars PROVE TypeOK'
  <2> USE <1>2 DEF TypeOK
  <2>1. CASE Start BY <2>1 DEF Start, bridge, counters, pager
  <2>2. CASE Stop
    <3>1. tick' \in BOOLEAN BY <2>2, Zenon DEF Stop
    <3>2. /\ 0 \in 0..(ReportLimit + 1) /\ 0 \in 0..Backoff
          /\ 0 \in 0..EtherFailLimit /\ 0 \in Sides /\ 0 \in 0..MaxDrift
      OBVIOUS
    <3>3. QED BY <2>2, <3>1, <3>2 DEF Stop, bridge, pager
  <2>3. CASE Clock BY <2>3 DEF Clock, bridge, counters, pager
  <2>4. CASE SkipTick
    <3>1. tick' \in BOOLEAN BY <2>4, Zenon DEF SkipTick
    <3>2. QED BY <2>4, <3>1 DEF SkipTick, CountReport, bridge, pager
  <2>5. CASE BeginProbe
    <3>1. tick' \in BOOLEAN BY <2>5, Zenon DEF BeginProbe
    <3>2. QED BY <2>5, <3>1 DEF BeginProbe, CountReport, bridge, pager
  <2>6. CASE GoogleFails BY <2>6 DEF GoogleFails, GiveUp, bridge, pager
  <2>7. CASE GoogleAnswers
    BY <2>7 DEF GoogleAnswers, bridge, counters, pager
  <2>8. CASE BnbFails BY <2>8 DEF BnbFails, GiveUp, bridge, pager
  <2>9. CASE BnbAnswers BY <2>9 DEF BnbAnswers, bridge, counters, pager
  <2>10. CASE EtherFails BY <2>10 DEF EtherFails, GiveUp, bridge, pager
  <2>11. CASE EtherAnswers
    <3>1. DeviationOf(bnb, ethSide) \in Nat /\ Deviation \in Nat
      BY AbsProperties DEF Deviation, DeviationOf, Abs
    <3>2. QED
      BY <2>11, <3>1 DEF EtherAnswers, bridge, pager
  <2>12. ASSUME NEW accepted \in BOOLEAN, Notify(accepted) PROVE TypeOK'
    BY <2>12 DEF Notify, bridge, counters
  <2>13. ASSUME NEW a \in Amounts, BnbMoves(a) PROVE TypeOK'
    <3>1. a \in Int /\ Abs(a) \in Nat BY AbsProperties DEF Abs
    <3>2. QED BY <2>13, <3>1 DEF BnbMoves, counters, pager
  <2>14. ASSUME NEW a \in Amounts, EthMoves(a) PROVE TypeOK'
    BY <2>14 DEF EthMoves, counters, pager
  <2>15. CASE UNCHANGED vars
    BY <2>15 DEF vars, bridge, counters, pager
  <2>16. QED
    BY <2>1, <2>2, <2>3, <2>4, <2>5, <2>6, <2>7, <2>8, <2>9, <2>10, <2>11,
       <2>12, <2>13, <2>14, <2>15 DEF Next, Loop, BridgeMoves
<1>3. QED BY <1>1, <1>2

\* Every reachable state of monitorNetwork's loop is well typed: the counters
\* never leave the ranges their resets give them.
THEOREM TypeCorrect == Spec => []TypeOK
<1>1. Init => TypeOK BY TypeInductive
<1>2. TypeOK /\ [Next]_vars => TypeOK' BY TypeInductive
<1>3. QED BY <1>1, <1>2, PTL DEF Spec
-----------------------------------------------------------------------------
ErrorInv == DriftCoversMovement /\ MeasurementErrorBounded

LEMMA ErrorInductive == TypeOK /\ TypeOK' /\ ErrorInv /\ [Next]_vars => ErrorInv'
<1> SUFFICES ASSUME TypeOK, TypeOK', ErrorInv, [Next]_vars PROVE ErrorInv'
  OBVIOUS
<1> USE ConstantsAssumption
        DEF ErrorInv, DriftCoversMovement, MeasurementErrorBounded
<1>1. CASE UNCHANGED vars BY <1>1 DEF vars, bridge
<1>2. CASE Start BY <1>2 DEF Start
<1>3. CASE Stop BY <1>3 DEF Stop
<1>4. CASE Clock BY <1>4 DEF Clock, bridge
<1>5. CASE SkipTick BY <1>5 DEF SkipTick
<1>6. CASE BeginProbe BY <1>6 DEF BeginProbe
<1>7. CASE GoogleFails BY <1>7 DEF GoogleFails, GiveUp
<1>8. CASE GoogleAnswers BY <1>8 DEF GoogleAnswers
<1>9. CASE BnbFails BY <1>9 DEF BnbFails, GiveUp
<1>10. CASE BnbAnswers
  BY <1>10 DEF BnbAnswers, bridge, TypeOK, Sides, Abs
<1>11. CASE EtherFails BY <1>11 DEF EtherFails, GiveUp
<1>12. CASE EtherAnswers
  \* |bnb + eth - E| and |bnbSide + eth - E| differ by at most |bnb - bnbSide|.
  <2> DEFINE told == bnb + ethSide - Expected
             actual == bnbSide + ethSide - Expected
  <2>1. told \in Int /\ actual \in Int /\ told - actual = bnb - bnbSide
    BY DEF TypeOK, Sides
  <2>2. Abs(bnbSide - bnb) <= drift /\ drift \in Int
    BY <1>12 DEF EtherAnswers, TypeOK
  <2>3. Abs(Abs(told) - Abs(actual)) <= Abs(bnbSide - bnb)
    BY <2>1 DEF Abs, TypeOK, Sides
  <2>4. pc' = "notify" => diff' = Abs(told) /\ trueDiff' = Abs(actual) /\ drift' = drift
    BY <1>12 DEF EtherAnswers, Deviation, DeviationOf
  <2>5. Abs(Abs(told) - Abs(actual)) \in Int /\ Abs(bnbSide - bnb) \in Int
    BY <2>1 DEF Abs, TypeOK, Sides
  <2>6. pc' # "ether" BY <1>12 DEF EtherAnswers
  <2> HIDE DEF told, actual
  <2>7. QED BY <2>2, <2>3, <2>4, <2>5, <2>6
<1>13. ASSUME NEW accepted \in BOOLEAN, Notify(accepted) PROVE ErrorInv'
  BY <1>13 DEF Notify
<1>14. ASSUME NEW a \in Amounts, BnbMoves(a) PROVE ErrorInv'
  <2>1. a \in Int OBVIOUS
  <2>2. CASE pc = "ether"
    <3>1. Abs(bnbSide - bnb) <= drift BY <2>2
    <3>2. Abs(bnbSide' - bnb) <= Abs(bnbSide - bnb) + Abs(a)
      BY <1>14, <2>1 DEF BnbMoves, TypeOK, Sides, Abs
    <3>3. pc' = pc /\ bnb' = bnb /\ drift' = drift + Abs(a)
      BY <1>14, <2>2 DEF BnbMoves
    <3>4. /\ Abs(bnbSide' - bnb) \in Int /\ Abs(bnbSide - bnb) \in Int
          /\ Abs(a) \in Int /\ drift \in Int
      BY <1>14, <2>1 DEF BnbMoves, Abs, TypeOK, Sides
    <3>5. QED BY <2>2, <3>1, <3>2, <3>3, <3>4
  <2>3. CASE pc # "ether" BY <1>14, <2>3 DEF BnbMoves
  <2>4. QED BY <2>2, <2>3
<1>15. ASSUME NEW a \in Amounts, EthMoves(a) PROVE ErrorInv'
  BY <1>15 DEF EthMoves
<1>16. QED
  BY <1>1, <1>2, <1>3, <1>4, <1>5, <1>6, <1>7, <1>8, <1>9, <1>10, <1>11,
     <1>12, <1>13, <1>14, <1>15 DEF Next, Loop, BridgeMoves

\* A page is wrong about the bridge by at most the movement of the BNB side
\* between the two reads, for every threshold, balance and movement.
THEOREM PagesAreAccurate == Spec => []MeasurementErrorBounded
<1>1. Init => ErrorInv
  BY DEF Init, ErrorInv, DriftCoversMovement, MeasurementErrorBounded
<1>2. TypeOK /\ TypeOK' /\ ErrorInv /\ [Next]_vars => ErrorInv'
  BY ErrorInductive
<1>3. ErrorInv => MeasurementErrorBounded BY DEF ErrorInv
<1>4. QED BY <1>1, <1>2, <1>3, TypeCorrect, PTL DEF Spec
-----------------------------------------------------------------------------
\* The loop is silent about a deviation only if PagerDuty has it or the last
\* call to PagerDuty was refused.
THEOREM SilenceIsExplained == Spec => []SilencedOnlyIfTold
<1>1. Init => SilencedOnlyIfTold BY DEF Init, SilencedOnlyIfTold
<1>2. TypeOK /\ SilencedOnlyIfTold /\ [Next]_vars => SilencedOnlyIfTold'
  <2> SUFFICES ASSUME TypeOK, SilencedOnlyIfTold, [Next]_vars
               PROVE  SilencedOnlyIfTold'
    OBVIOUS
  <2> USE DEF SilencedOnlyIfTold
  <2>1. CASE UNCHANGED <<lastDiff, pager>> BY <2>1 DEF pager
  <2>2. CASE Stop BY <2>2 DEF Stop
  <2>3. CASE EtherAnswers BY <2>3 DEF EtherAnswers, pager
  <2>4. ASSUME NEW accepted \in BOOLEAN, Notify(accepted)
        PROVE  SilencedOnlyIfTold'
    BY <2>4 DEF Notify
  <2>5. QED
    BY <2>1, <2>2, <2>3, <2>4
    DEF Next, Loop, BridgeMoves, vars, Start, Clock, SkipTick, BeginProbe,
        GoogleFails, GoogleAnswers, BnbFails, BnbAnswers, EtherFails, BnbMoves,
        EthMoves
<1>3. QED BY <1>1, <1>2, TypeCorrect, PTL DEF Spec
-----------------------------------------------------------------------------
\* While the call to PagerDuty is pending it is about a new, unhealthy and
\* possible deviation: the guard of Alert!Raise, established a step earlier.
NoticeInv ==
  pc = "notify" => /\ diff > Threshold
                   /\ diff # lastDiff
                   /\ diff \in 0..(2 * MaxSide + Expected)

LEMMA NoticeInductive == TypeOK /\ NoticeInv /\ [Next]_vars => NoticeInv'
<1> SUFFICES ASSUME TypeOK, NoticeInv, [Next]_vars PROVE NoticeInv'
  OBVIOUS
<1> USE ConstantsAssumption DEF NoticeInv
<1>1. CASE EtherAnswers
  <2>1. DeviationOf(bnb, ethSide) \in 0..(2 * MaxSide + Expected)
    BY DEF DeviationOf, Abs, TypeOK, Sides
  <2>2. QED BY <1>1, <2>1 DEF EtherAnswers
<1>2. CASE UNCHANGED <<pc, diff, lastDiff>> BY <1>2
<1>3. CASE pc' # "notify" BY <1>3
<1>4. QED
  BY <1>1, <1>2, <1>3
  DEF Next, Loop, BridgeMoves, vars, Start, Stop, Clock, SkipTick, BeginProbe,
      GoogleFails, GoogleAnswers, BnbFails, BnbAnswers, EtherFails, GiveUp,
      Notify, BnbMoves, EthMoves

\* The ticking, retrying, crashing loop implements what the operator is
\* promised: every step raises a new deviation, clears it, or shows nothing.
THEOREM WatchdogImplementsAlert == Spec => ImplementsAlert
<1>1. Init => Alert!Init BY DEF Init, Alert!Init
<1>2. NoticeInv /\ [Next]_vars => [Alert!Next]_(Alert!alertVars)
  <2> SUFFICES ASSUME NoticeInv, [Next]_vars
               PROVE  Alert!Next \/ UNCHANGED Alert!alertVars
    OBVIOUS
  <2>1. CASE UNCHANGED <<lastDiff, pager>>
    BY <2>1 DEF pager, Alert!alertVars
  <2>2. CASE Stop BY <2>2 DEF Stop, pager, Alert!Next, Alert!Clear
  <2>3. CASE EtherAnswers
    BY <2>3 DEF EtherAnswers, pager, Alert!Next, Alert!Clear, Alert!alertVars
  <2>4. ASSUME NEW accepted \in BOOLEAN, Notify(accepted)
        PROVE  Alert!Next
    <3>1. Alert!Raise(diff, accepted)
      BY <2>4 DEF Notify, NoticeInv, Alert!Raise
    <3>2. diff \in 0..(2 * MaxSide + Expected)
      BY <2>4 DEF Notify, NoticeInv
    <3>3. QED BY <3>1, <3>2 DEF Alert!Next
  <2>5. QED
    BY <2>1, <2>2, <2>3, <2>4
    DEF Next, Loop, BridgeMoves, vars, Start, Clock, SkipTick, BeginProbe,
        GoogleFails, GoogleAnswers, BnbFails, BnbAnswers, EtherFails, BnbMoves,
        EthMoves
<1>3. Init => NoticeInv BY DEF Init, NoticeInv
<1>4. TypeOK /\ NoticeInv /\ [Next]_vars => NoticeInv' BY NoticeInductive
<1>5. QED
  BY <1>1, <1>2, <1>3, <1>4, TypeCorrect, PTL
  DEF Spec, ImplementsAlert, Alert!Spec
-----------------------------------------------------------------------------
(* The times of the loop.                                                  *)

\* What the loop keeps between its calls: the countdown is over when a call is
\* made, and a stopped service remembers nothing.
CountdownInv ==
  /\ pc \in {"wifi", "bnb", "ether", "notify"} => tryAgainCounter = 0
  /\ pc = "notify" => etherFailCounter = 0
  /\ pc = "down" => /\ tryAgainCounter = 0 /\ etherFailCounter = 0
                    /\ wifiDowntime = NoTime
LoopInv == TypeOK /\ CountdownInv

LEMMA LoopInductive ==
  /\ Init => LoopInv
  /\ LoopInv /\ [Next]_vars => LoopInv'
<1>1. Init => LoopInv
  BY TypeInductive DEF Init, LoopInv, CountdownInv
<1>2. ASSUME LoopInv, [Next]_vars PROVE CountdownInv'
  <2> USE <1>2 DEF LoopInv, CountdownInv
  <2>1. CASE Start \/ Stop \/ Clock
    BY <2>1 DEF Start, Stop, Clock, counters, TypeOK
  <2>2. CASE SkipTick \/ BeginProbe
    BY <2>2 DEF SkipTick, BeginProbe
  <2>3. CASE GoogleFails \/ BnbFails \/ EtherFails
    BY <2>3 DEF GoogleFails, BnbFails, EtherFails, GiveUp
  <2>4. CASE GoogleAnswers \/ BnbAnswers
    BY <2>4 DEF GoogleAnswers, BnbAnswers, counters
  <2>5. CASE EtherAnswers
    BY <2>5 DEF EtherAnswers
  <2>6. ASSUME NEW accepted \in BOOLEAN, Notify(accepted) PROVE CountdownInv'
    BY <2>6 DEF Notify, counters
  <2>7. CASE BridgeMoves
    BY <2>7 DEF BridgeMoves, BnbMoves, EthMoves, counters
  <2>8. CASE UNCHANGED vars
    BY <2>8 DEF vars, counters
  <2> QED
    BY <2>1, <2>2, <2>3, <2>4, <2>5, <2>6, <2>7, <2>8 DEF Next, Loop
<1> QED
  BY <1>1, <1>2, TypeInductive DEF LoopInv
-----------------------------------------------------------------------------
(* What a step does to each counter, whichever action it is. *)

LEMMA FailureStep ==
  ASSUME LoopInv, Fails
  PROVE  /\ tryAgainCounter = 0 /\ tryAgainCounter' = Backoff
         /\ pc' = "idle" /\ ~Iteration /\ ~EtherAnswers
<1>1. pc \in {"wifi", "bnb", "ether"} /\ tryAgainCounter' = Backoff /\ pc' = "idle"
  BY DEF Fails, GoogleFails, BnbFails, EtherFails, GiveUp
<1>2. tryAgainCounter = 0
  BY <1>1 DEF LoopInv, CountdownInv
<1>3. ~Iteration
  BY <1>1 DEF Iteration, SkipTick, BeginProbe
<1>4. ~EtherAnswers
  <2>1. ASSUME EtherAnswers PROVE tryAgainCounter' = tryAgainCounter
    BY <2>1 DEF EtherAnswers
  <2> QED
    BY <1>1, <1>2, <2>1, ConstantsAssumption
<1> QED
  BY <1>1, <1>2, <1>3, <1>4

LEMMA IterationStep ==
  ASSUME Iteration
  PROVE  /\ pc = "idle"
         /\ \/ tryAgainCounter > 1 /\ tryAgainCounter' = tryAgainCounter - 1
            \/ tryAgainCounter <= 1 /\ tryAgainCounter' = 0 /\ pc' = "wifi"
         /\ etherFailCounter' = etherFailCounter /\ ~EtherFails /\ ~EtherAnswers
<1>1. CASE SkipTick
  BY <1>1 DEF SkipTick, EtherFails, EtherAnswers
<1>2. CASE BeginProbe
  BY <1>2 DEF BeginProbe, EtherFails, EtherAnswers
<1> QED
  BY <1>1, <1>2 DEF Iteration

LEMMA OtherStep ==
  ASSUME LoopInv, Next, pc' # "down", ~Fails, ~Iteration
  PROVE  /\ tryAgainCounter' = tryAgainCounter
         /\ EtherAnswers \/ etherFailCounter' = etherFailCounter
         /\ pc' = "idle" /\ ~EtherAnswers => pc = "idle" \/ etherFailCounter = 0
<1>1. CASE Start \/ Clock \/ GoogleAnswers \/ BnbAnswers
  BY <1>1 DEF Start, Clock, GoogleAnswers, BnbAnswers, counters, LoopInv, CountdownInv
<1>2. CASE EtherAnswers
  BY <1>2 DEF EtherAnswers
<1>3. ASSUME NEW accepted \in BOOLEAN, Notify(accepted)
      PROVE  UNCHANGED counters /\ pc = "notify"
  BY <1>3 DEF Notify
<1>4. CASE BridgeMoves
  BY <1>4 DEF BridgeMoves, BnbMoves, EthMoves, counters
<1>5. ~Stop
  BY DEF Stop
<1> QED
  BY <1>1, <1>2, <1>3, <1>4, <1>5
     DEF Next, Loop, Fails, Iteration, counters, LoopInv, CountdownInv

\* A step that ends in "down" forgets, or changes nothing the clocks see.
LEMMA DownStep ==
  ASSUME LoopInv, Next, pc' = "down"
  PROVE  etherFailCounter' = 0 /\ wifiDowntime' = NoTime
BY LoopInductive DEF LoopInv, CountdownInv

LEMMA DowntimeStep ==
  ASSUME LoopInv, Next, pc' # "down", ~GoogleFails, ~GoogleAnswers, ~Clock
  PROVE  wifiDowntime' = wifiDowntime
<1>1. CASE Start \/ SkipTick \/ BeginProbe \/ BnbFails \/ BnbAnswers \/ EtherFails \/ EtherAnswers
  BY <1>1 DEF Start, SkipTick, BeginProbe, BnbFails, BnbAnswers, EtherFails, EtherAnswers
<1>2. ASSUME NEW accepted \in BOOLEAN, Notify(accepted) PROVE UNCHANGED wifiDowntime
  BY <1>2 DEF Notify
<1>3. CASE BridgeMoves
  BY <1>3 DEF BridgeMoves, BnbMoves, EthMoves
<1>4. ~Stop
  BY DEF Stop
<1> QED
  BY <1>1, <1>2, <1>3, <1>4 DEF Next, Loop
-----------------------------------------------------------------------------
\* Arithmetic of a clock s that stops at m beside a countdown t from b to u.
LEMMA ClockReaches == \A b, m, u \in Nat : m >= b => m + u >= b
OBVIOUS

LEMMA ClockAdvances ==
  \A b, m \in Nat : \A s \in 0..m : \A t, u \in 0..b :
    m >= b /\ s + t >= b /\ (u = t - 1 \/ (t <= 1 /\ u = 0))
    => Advance(s, m) \in 0..m /\ Advance(s, m) + u >= b
BY DEF Advance

\* The countdown and the clock of the back-off add up.
BackoffInv == sinceFail \in 0..MaxSinceFail /\ sinceFail + tryAgainCounter >= Backoff

LEMMA BackoffInductive ==
  ASSUME LoopInv, LoopInv', BackoffInv, [TimingNext]_<<vars, clocks>> PROVE BackoffInv'
<1> USE DEF BackoffInv
<1>a. Backoff \in Nat /\ MaxSinceFail \in Nat /\ MaxSinceFail >= Backoff
  BY ConstantsAssumption, TimingAssumption
<1>0. tryAgainCounter \in 0..Backoff /\ tryAgainCounter' \in 0..Backoff
  BY DEF LoopInv, TypeOK
<1>1. CASE UNCHANGED <<vars, clocks>>
  BY <1>1 DEF vars, counters, clocks
<1>2. CASE TimingNext /\ pc' = "down"
  <2>1. sinceFail' = MaxSinceFail
    BY <1>2 DEF TimingNext, Forget
  <2>2. tryAgainCounter' \in Nat
    BY <1>a, <1>0
  <2>3. MaxSinceFail + tryAgainCounter' >= Backoff
    BY <1>a, <2>2, ClockReaches
  <2>4. MaxSinceFail \in 0..MaxSinceFail
    BY <1>a
  <2> QED
    BY <2>1, <2>3, <2>4
<1>3. CASE TimingNext /\ pc' # "down"
  <2>0. Next /\ Measure
    BY <1>3 DEF TimingNext
  <2>1. CASE Fails
    BY <1>a, <2>0, <2>1, FailureStep DEF Measure
  <2>2. CASE ~Fails /\ Iteration
    <3>1. sinceFail' = Advance(sinceFail, MaxSinceFail)
      BY <2>0, <2>2, Zenon DEF Measure
    <3>2. \/ tryAgainCounter' = tryAgainCounter - 1
          \/ tryAgainCounter <= 1 /\ tryAgainCounter' = 0
      BY <2>2, IterationStep
    <3> QED
      BY <1>a, <1>0, <3>1, <3>2, ClockAdvances
  <2>3. CASE ~Fails /\ ~Iteration
    BY <1>3, <2>0, <2>3, OtherStep DEF Measure
  <2> QED
    BY <2>1, <2>2, <2>3
<1> QED
  BY <1>1, <1>2, <1>3
-----------------------------------------------------------------------------
OutageInv == outage \in {NoTime} \cup 0..MaxAge /\ DowntimeWithinOutage

LEMMA OutageInductive ==
  ASSUME LoopInv, OutageInv, [TimingNext]_<<vars, clocks>> PROVE OutageInv'
<1> USE ConstantsAssumption DEF OutageInv, DowntimeWithinOutage, NoTime
<1>0. wifiDowntime \in {NoTime} \cup 0..MaxAge
  BY DEF LoopInv, TypeOK
<1>1. CASE UNCHANGED <<vars, clocks>>
  BY <1>1 DEF vars, clocks
<1>2. CASE TimingNext /\ pc' = "down"
  BY <1>2, DownStep DEF TimingNext, Forget
<1>3. CASE TimingNext /\ pc' # "down"
  <2>0. Next /\ Measure
    BY <1>3 DEF TimingNext
  <2>1. CASE GoogleAnswers
    BY <2>0, <2>1 DEF Measure, GoogleAnswers
  <2>2. CASE ~GoogleAnswers /\ GoogleFails
    <3>1. wifiDowntime' = 0 /\ ~Clock
      BY <2>2 DEF GoogleFails, Clock, GiveUp
    <3> QED
      BY <1>0, <2>0, <2>2, <3>1 DEF Measure
  <2>3. CASE ~GoogleAnswers /\ ~GoogleFails /\ Clock
    BY <1>0, <2>0, <2>3 DEF Measure, Clock, Advance
  <2>4. CASE ~GoogleAnswers /\ ~GoogleFails /\ ~Clock
    BY <1>3, <2>0, <2>4, DowntimeStep DEF Measure
  <2> QED
    BY <2>1, <2>2, <2>3, <2>4
<1> QED
  BY <1>1, <1>2, <1>3
-----------------------------------------------------------------------------
\* While EtherScan alone fails, the clock of the outage and the countdown add
\* up to the back-offs counted so far; other failures only put it off.
AlarmInv ==
  /\ etherDown \in {NoTime} \cup 0..MaxEtherDown
  /\ etherDown = NoTime <=> etherFailCounter = 0
  /\ etherFailCounter # 0 =>
       /\ etherDown + tryAgainCounter >= etherFailCounter * Backoff
       /\ etherAlone => /\ etherDown + tryAgainCounter <= etherFailCounter * Backoff
                        /\ pc = "idle" => tryAgainCounter >= 1

LEMMA Products ==
  \A c \in 0..EtherFailLimit :
    /\ c * Backoff \in Nat
    /\ c * Backoff <= EtherFailLimit * Backoff
    /\ c * Backoff <= MaxEtherDown
    /\ (c + 1) * Backoff = c * Backoff + Backoff
<1>1. /\ Backoff \in Nat /\ EtherFailLimit \in Nat /\ MaxEtherDown \in Nat
      /\ EtherFailLimit * Backoff < MaxEtherDown
  BY ConstantsAssumption, TimingAssumption
<1>2. \A b, c, l \in Nat : c <= l => /\ c * b \in Nat /\ c * b <= l * b
                                    /\ (c + 1) * b = c * b + b
  <2> SUFFICES ASSUME NEW b \in Nat, NEW c \in Nat, NEW l \in Nat, c <= l
               PROVE  c * b \in Nat /\ c * b <= l * b /\ (c + 1) * b = c * b + b
    OBVIOUS
  <2>1. c * b \in Nat /\ (c + 1) * b = c * b + b
    OBVIOUS
  <2>2. PICK k \in Nat : l = c + k
    <3>1. l - c \in Nat /\ l = c + (l - c)
      OBVIOUS
    <3> QED
      BY <3>1
  <2>3. (c + k) * b = c * b + k * b /\ k * b \in Nat
    OBVIOUS
  <2> QED
    BY <2>1, <2>2, <2>3
<1>3. \A p, q, m \in Nat : p <= q /\ q < m => p <= m
  OBVIOUS
<1> QED
  BY <1>1, <1>2, <1>3

\* Arithmetic of a clock d of an outage of p = c * b beside the countdown.
LEMMA OutageAdvances ==
  \A m, p \in Nat : \A d \in 0..m : \A t, u \in Nat :
    p <= m /\ (u = t - 1 \/ (t <= 1 /\ u = 0)) =>
      /\ Advance(d, m) \in 0..m
      /\ d + t >= p => Advance(d, m) + u >= p
      /\ d + t <= p /\ t >= 1 => Advance(d, m) + u <= p
BY DEF Advance

LEMMA AlarmInductive ==
  ASSUME LoopInv, LoopInv', AlarmInv, [TimingNext]_<<vars, clocks>> PROVE AlarmInv'
<1> DEFINE c == etherFailCounter
           p == c * Backoff
<1>a. /\ Backoff \in Nat /\ Backoff > 0 /\ MaxEtherDown \in Nat
      /\ EtherFailLimit \in Nat
  BY ConstantsAssumption, TimingAssumption
<1>b. /\ c \in 0..EtherFailLimit /\ c' \in 0..EtherFailLimit
      /\ tryAgainCounter \in Nat /\ tryAgainCounter' \in Nat
  BY <1>a DEF LoopInv, TypeOK
<1>c. p \in Nat /\ p <= MaxEtherDown /\ (c + 1) * Backoff = p + Backoff
  BY <1>b, Products
<1>1. CASE UNCHANGED <<vars, clocks>>
  BY <1>1 DEF AlarmInv, vars, counters, clocks
<1>2. CASE TimingNext /\ pc' = "down"
  BY <1>2, DownStep DEF TimingNext, Forget, AlarmInv
<1>3. CASE TimingNext /\ pc' # "down"
  <2>0. Next /\ Measure
    BY <1>3 DEF TimingNext
  <2>1. CASE EtherAlarm \/ EtherAnswers
    <3>1. etherDown' = NoTime
      BY <2>0, <2>1, Zenon DEF Measure
    <3>2. etherFailCounter' = 0
      BY <2>1 DEF EtherAlarm, EtherAnswers
    <3> QED
      BY <3>1, <3>2 DEF AlarmInv
  <2>2. CASE EtherFails /\ ~EtherAlarm
    <3>1. /\ ~EtherAnswers /\ ~Iteration
          /\ tryAgainCounter = 0 /\ tryAgainCounter' = Backoff
      BY <2>2, FailureStep DEF Fails
    <3>2. c' = c + 1
      BY <2>2 DEF EtherFails, EtherAlarm
    <3>3. etherDown' = IF etherDown = NoTime THEN 0 ELSE etherDown
      BY <2>0, <2>2, <3>1, Zenon DEF Measure
    <3>4. etherAlone' => etherAlone
      BY <2>0, <2>2, <3>1, Zenon DEF Measure
    <3>5. c' * Backoff = p + Backoff
      BY <1>c, <3>2
    <3> HIDE DEF p
    <3>6. /\ etherDown' \in 0..MaxEtherDown
          /\ etherDown' + Backoff >= p + Backoff
          /\ etherAlone' => etherDown' + Backoff <= p + Backoff
      <4>1. CASE etherDown = NoTime
        <5>1. c = 0 /\ p = 0
          BY <1>a, <4>1 DEF AlarmInv, p
        <5> QED
          BY <1>a, <3>3, <4>1, <5>1
      <4>2. CASE etherDown # NoTime
        <5>1. /\ etherDown \in 0..MaxEtherDown /\ etherDown >= p
              /\ etherAlone => etherDown <= p
          BY <1>c, <3>1, <4>2 DEF AlarmInv, p
        <5> QED
          BY <1>a, <1>c, <3>3, <3>4, <4>2, <5>1
      <4> QED
        BY <4>1, <4>2
    <3>7. c' # 0 /\ etherDown' # NoTime /\ tryAgainCounter' >= 1
      BY <1>a, <1>b, <3>1, <3>2, <3>6 DEF NoTime
    <3>8. /\ etherDown' + tryAgainCounter' >= c' * Backoff
          /\ etherAlone' => etherDown' + tryAgainCounter' <= c' * Backoff
      BY <3>1, <3>5, <3>6, Zenon
    <3> QED
      BY <3>6, <3>7, <3>8 DEF AlarmInv
  <2>3. CASE Iteration
    <3>1. /\ ~EtherAnswers /\ ~EtherAlarm /\ ~EtherFails /\ c' = c /\ pc = "idle"
          /\ \/ tryAgainCounter > 1 /\ tryAgainCounter' = tryAgainCounter - 1
             \/ tryAgainCounter <= 1 /\ tryAgainCounter' = 0 /\ pc' = "wifi"
      BY <2>3, IterationStep DEF EtherAlarm
    <3>2. etherDown' = Advance(etherDown, MaxEtherDown)
      BY <2>0, <2>3, <3>1, Zenon DEF Measure
    <3>3. etherAlone' => etherAlone
      BY <2>0, <2>3, <3>1, Zenon DEF Measure
    <3>4. c' * Backoff = p
      BY <3>1
    <3> HIDE DEF p
    <3>5. CASE c = 0
      BY <3>1, <3>2, <3>5 DEF AlarmInv, Advance, NoTime
    <3>6. CASE c # 0
      <4>1. /\ etherDown \in 0..MaxEtherDown /\ etherDown + tryAgainCounter >= p
            /\ etherAlone => /\ etherDown + tryAgainCounter <= p
                             /\ tryAgainCounter >= 1
        BY <3>1, <3>6 DEF AlarmInv, p
      <4>2. /\ etherDown' \in 0..MaxEtherDown
            /\ etherDown' + tryAgainCounter' >= p
            /\ etherAlone => etherDown' + tryAgainCounter' <= p
        BY <1>a, <1>b, <1>c, <3>1, <3>2, <4>1, OutageAdvances
      <4>3. pc' = "idle" => tryAgainCounter' >= 1
        BY <1>b, <3>1
      <4> QED
        BY <3>1, <3>3, <3>4, <3>6, <4>2, <4>3 DEF AlarmInv, NoTime
    <3> QED
      BY <3>5, <3>6
  <2>4. CASE GoogleFails \/ BnbFails
    <3>1. /\ ~EtherAnswers /\ ~Iteration
          /\ tryAgainCounter = 0 /\ tryAgainCounter' = Backoff
      BY <2>4, FailureStep DEF Fails
    <3>2. c' = c /\ ~EtherFails /\ ~EtherAlarm
      BY <2>4 DEF GoogleFails, BnbFails, EtherFails, EtherAlarm
    <3>3. etherDown' = etherDown
      BY <2>0, <3>1, <3>2, Zenon DEF Measure
    <3>4. etherDown # NoTime => ~etherAlone'
      BY <2>0, <2>4, <3>1, <3>2, Zenon DEF Measure
    <3>5. c' * Backoff = p
      BY <3>2
    <3> HIDE DEF p
    <3>6. CASE c = 0
      BY <3>2, <3>3, <3>6 DEF AlarmInv
    <3>7. CASE c # 0
      <4>1. etherDown \in 0..MaxEtherDown /\ etherDown + 0 >= p
        BY <3>1, <3>7 DEF AlarmInv, p
      <4>2. etherDown + Backoff >= p
        BY <1>a, <1>c, <4>1
      <4> QED
        BY <3>1, <3>2, <3>3, <3>4, <3>5, <3>7, <4>1, <4>2 DEF AlarmInv, NoTime
    <3> QED
      BY <3>6, <3>7
  <2>5. CASE ~Fails /\ ~Iteration /\ ~EtherAnswers
    <3>1. /\ c' = c /\ tryAgainCounter' = tryAgainCounter
          /\ pc' = "idle" => pc = "idle" \/ c = 0
      BY <1>3, <2>0, <2>5, OtherStep
    <3>2. ~EtherFails /\ ~GoogleFails /\ ~BnbFails /\ ~EtherAlarm
      BY <2>5 DEF Fails, EtherAlarm
    <3>3. etherDown' = etherDown
      BY <2>0, <2>5, <3>2, Zenon DEF Measure
    <3>4. etherAlone' <=> etherAlone
      BY <2>0, <2>5, <3>2, Zenon DEF Measure
    <3>5. c' * Backoff = p
      BY <3>1
    <3> HIDE DEF p
    <3> QED
      BY <3>1, <3>3, <3>4, <3>5 DEF AlarmInv, p
  <2> QED
    BY <2>1, <2>2, <2>3, <2>4, <2>5 DEF Fails
<1> QED
  BY <1>1, <1>2, <1>3
-----------------------------------------------------------------------------
TimingInv == LoopInv /\ BackoffInv /\ OutageInv /\ AlarmInv

LEMMA TimingInductive == TimingSpec => []TimingInv
<1>1. TimingInit => TimingInv
  <2> SUFFICES ASSUME TimingInit PROVE TimingInv
    OBVIOUS
  <2>1. LoopInv
    BY LoopInductive DEF TimingInit
  <2>2. BackoffInv
    BY TimingAssumption, ConstantsAssumption DEF TimingInit, Init, BackoffInv
  <2>3. OutageInv /\ AlarmInv
    BY DEF TimingInit, Init, OutageInv, AlarmInv, DowntimeWithinOutage, NoTime
  <2> QED
    BY <2>1, <2>2, <2>3 DEF TimingInv
<1>2. TimingInv /\ [TimingNext]_<<vars, clocks>> => TimingInv'
  <2> SUFFICES ASSUME TimingInv, [TimingNext]_<<vars, clocks>> PROVE TimingInv'
    OBVIOUS
  <2>1. [Next]_vars
    BY DEF TimingNext
  <2>2. LoopInv'
    BY <2>1, LoopInductive DEF TimingInv
  <2> QED
    BY <2>2, BackoffInductive, OutageInductive, AlarmInductive DEF TimingInv
<1> QED
  BY <1>1, <1>2, PTL DEF TimingSpec

\* root.go:97-100 and 105-170: after a failure, whichever source it was, the
\* loop makes its next calls no earlier than the Backoff-th iteration after it.
THEOREM BackoffIsKept == TimingSpec => BackoffKept
<1>1. TimingInv /\ [TimingNext]_<<vars, clocks>>
      => [BeginProbe => sinceFail + 1 >= Backoff]_<<vars, clocks>>
  <2> SUFFICES ASSUME TimingInv, BeginProbe PROVE sinceFail + 1 >= Backoff
    OBVIOUS
  <2>1. tryAgainCounter <= 1 /\ sinceFail + tryAgainCounter >= Backoff
    BY DEF BeginProbe, TimingInv, BackoffInv
  <2>2. sinceFail \in Nat /\ tryAgainCounter \in Nat /\ Backoff \in Nat
    BY TimingAssumption, ConstantsAssumption
       DEF TimingInv, BackoffInv, LoopInv, TypeOK
  <2> QED
    BY <2>1, <2>2
<1> QED
  BY <1>1, TimingInductive, PTL DEF TimingSpec, BackoffKept

\* root.go:102-112: the start kept for the "time down" message lies within the
\* outage it ends, and is kept exactly during one.
THEOREM DowntimeIsWithinOutage == TimingSpec => []DowntimeWithinOutage
<1>1. TimingInv => DowntimeWithinOutage
  BY DEF TimingInv, OutageInv
<1> QED
  BY <1>1, TimingInductive, PTL

\* root.go:123-147: with EtherScan alone failing, its error is logged by the
\* time EtherFailLimit back-offs have passed.
THEOREM AlarmComesInTime == TimingSpec => []AlarmInTime
<1>1. TimingInv => AlarmInTime
  <2> SUFFICES ASSUME TimingInv, etherAlone, etherDown # NoTime
               PROVE  etherDown <= EtherFailLimit * Backoff
    BY DEF AlarmInTime
  <2> DEFINE p == etherFailCounter * Backoff
             l == EtherFailLimit * Backoff
  <2>1. /\ etherDown \in Nat /\ tryAgainCounter \in Nat
        /\ etherDown + tryAgainCounter <= p
    BY ConstantsAssumption, TimingAssumption DEF TimingInv, AlarmInv, LoopInv, TypeOK
  <2>2. p \in Nat /\ p <= l
    BY Products DEF TimingInv, LoopInv, TypeOK
  <2>3. l \in Nat
    BY ConstantsAssumption, Products
  <2> HIDE DEF p, l
  <2>4. etherDown <= l
    BY <2>1, <2>2, <2>3
  <2> QED
    BY <2>4 DEF l
<1> QED
  BY <1>1, TimingInductive, PTL

\* The same lines: the error is never logged before EtherFailLimit back-offs
\* have passed, even if Google or the BNB node fail in between.
THEOREM AlarmIsNotHasty == TimingSpec => AlarmIsPatient
<1>1. TimingInv /\ [TimingNext]_<<vars, clocks>>
      => [EtherAlarm => EtherFailLimit = 0 \/ etherDown >= EtherFailLimit * Backoff]_<<vars, clocks>>
  <2> SUFFICES ASSUME TimingInv, EtherAlarm, EtherFailLimit # 0
               PROVE  etherDown >= EtherFailLimit * Backoff
    OBVIOUS
  <2>0. /\ EtherFailLimit \in Nat /\ etherFailCounter \in 0..EtherFailLimit
    BY ConstantsAssumption DEF TimingInv, LoopInv, TypeOK
  <2>1. etherFailCounter + 1 > EtherFailLimit
    BY <2>0 DEF EtherAlarm, EtherFails
  <2>2. etherFailCounter = EtherFailLimit
    BY <2>0, <2>1
  <2>3. tryAgainCounter = 0
    BY DEF EtherAlarm, EtherFails, TimingInv, LoopInv, CountdownInv
  <2> DEFINE l == EtherFailLimit * Backoff
  <2>4. etherDown + 0 >= l /\ etherDown \in 0..MaxEtherDown
    BY <2>2, <2>3 DEF TimingInv, AlarmInv
  <2>5. l \in Nat
    BY <2>0, Products
  <2> HIDE DEF l
  <2>6. etherDown >= l
    BY <2>4, <2>5
  <2> QED
    BY <2>6 DEF l
<1> QED
  BY <1>1, TimingInductive, PTL DEF TimingSpec, AlarmIsPatient
-----------------------------------------------------------------------------
(* The decimals.                                                           *)

LEMMA MulPos ==
  ASSUME NEW a \in Int, NEW b \in Int, a > 0, b >= 0 PROVE a * b >= 0
  OBVIOUS

LEMMA MulNeg ==
  ASSUME NEW a \in Int, NEW b \in Int, a > 0, b < 0 PROVE a * b <= -a
<1>1. a * (-b - 1) >= 0 BY MulPos
<1>2. a * (-b - 1) = -(a * b) - a OBVIOUS
<1>3. a * b \in Int OBVIOUS
<1>4. QED BY <1>1, <1>2, <1>3

\* The quotient of a natural number is one.
LEMMA DivNat ==
  ASSUME NEW n \in Nat, NEW p \in Int, p > 0 PROVE n \div p \in Nat
<1>1. n \div p \in Int /\ n % p \in 0..(p-1) /\ n = p * (n \div p) + (n % p)
  BY DivMod
<1>2. CASE n \div p < 0
  <2>1. p * (n \div p) <= -p BY <1>1, <1>2, MulNeg
  <2> DEFINE z == p * (n \div p)
  <2>2. z \in Int BY <1>1
  <2>3. n = z + (n % p) /\ z <= -p BY <1>1, <2>1
  <2> HIDE DEF z
  <2>4. QED BY <1>1, <2>2, <2>3
<1>3. QED BY <1>1, <1>2

-----------------------------------------------------------------------------
\* Bankers rounding errs by at most half a unit, and gives an even number
\* exactly when it has to choose.
LEMMA ChopNatRounds ==
  ASSUME NEW n \in Nat
  PROVE  /\ ChopNat(n) \in Nat
         /\ 2 * Mag(P * ChopNat(n) - n) <= P
         /\ 2 * Mag(P * ChopNat(n) - n) = P => ChopNat(n) % 2 = 0
<1> DEFINE q == n \div P
           m == n % P
           z == P * q
<1>1. /\ q \in Nat /\ m \in 0..(P - 1) /\ z \in Int /\ n = z + m
      /\ P * (q + 1) = z + P
  BY DivMod, DivNat, DecAssumption
<1>2. ChopNat(n) = IF 2 * m < P \/ (2 * m = P /\ q % 2 = 0)
                   THEN q ELSE q + 1
  BY DEF ChopNat
<1>3. P * q = z OBVIOUS
<1>4. q % 2 = 0 \/ (q + 1) % 2 = 0 BY <1>1
<1> HIDE DEF q, m, z
<1>5. CASE ChopNat(n) = q
  BY <1>1, <1>2, <1>3, <1>5, DecAssumption DEF Mag
<1>6. CASE ChopNat(n) = q + 1
  BY <1>1, <1>2, <1>4, <1>6, DecAssumption DEF Mag
<1>7. QED BY <1>2, <1>5, <1>6
LEMMA NegationOfEven ==
  ASSUME NEW k \in Int, k % 2 = 0 PROVE (-k) % 2 = 0
  OBVIOUS

\* The same for a number of either sign.
LEMMA ChopRounds ==
  ASSUME NEW d \in Int
  PROVE  /\ chopPrecisionAndRound(d) \in Int
         /\ 2 * Mag(P * chopPrecisionAndRound(d) - d) <= P
         /\ 2 * Mag(P * chopPrecisionAndRound(d) - d) = P
              => chopPrecisionAndRound(d) % 2 = 0
<1> DEFINE c == chopPrecisionAndRound(d)
<1>1. CASE d >= 0
  BY <1>1, ChopNatRounds DEF chopPrecisionAndRound
<1>2. CASE d < 0
  <2> DEFINE k == ChopNat(-d)
             z == P * k
  <2>1. /\ k \in Nat /\ 2 * Mag(z - (-d)) <= P
        /\ 2 * Mag(z - (-d)) = P => k % 2 = 0
    BY <1>2, ChopNatRounds
  <2>2. c = -k BY <1>2 DEF chopPrecisionAndRound
  <2> HIDE DEF c, k
  <2>3. k \in Int /\ P \in Int BY <2>1, DecAssumption
  <2>4. k % 2 = 0 => (-k) % 2 = 0 BY <2>3, NegationOfEven
  <2>8. z \in Int /\ P * (-k) = -z BY <2>3
  <2> HIDE DEF z
  <2>5. P * c = -z BY <2>2, <2>8
  <2>6. Mag(P * c - d) = Mag(z - (-d)) BY <2>8, <2>5 DEF Mag
  <2>7. QED BY <2>1, <2>2, <2>4, <2>6 DEF c
<1>3. QED BY <1>1, <1>2

\* Truncated division by a nonzero integer: an integer, less than one divisor
\* away from the dividend.
LEMMA QuoIntBounds ==
  ASSUME NEW a \in Int, NEW b \in Int, b # 0
  PROVE  /\ QuoInt(a, b) \in Int
         /\ Mag(QuoInt(a, b) * b - a) < Mag(b)
<1> DEFINE n == Mag(a)
           p == Mag(b)
           q == n \div p
           m == n % p
           z == p * q
<1>1. /\ n \in Nat /\ p \in Nat /\ p > 0
      /\ (a < 0 => a = -n) /\ (a >= 0 => a = n)
      /\ (b < 0 => b = -p) /\ (b >= 0 => b = p)
  BY DEF Mag
<1>2. QuoInt(a, b) = IF (a < 0) = (b < 0) THEN q ELSE -q BY DEF QuoInt
<1> HIDE DEF n, p
<1>3. q \in Int /\ m \in 0..(p - 1) /\ n = z + m BY <1>1, DivMod
<1>4. z \in Int BY <1>1, <1>3
<1>5. q * p = z /\ q * (-p) = -z /\ (-q) * p = -z /\ (-q) * (-p) = z
  BY <1>1, <1>3
<1> HIDE DEF q, m, z
<1>6. QuoInt(a, b) * b = IF a < 0 THEN -z ELSE z
  <2>1. CASE a < 0 /\ b < 0 BY <1>1, <1>2, <1>5, <2>1
  <2>2. CASE a < 0 /\ ~(b < 0) BY <1>1, <1>2, <1>5, <2>2
  <2>3. CASE ~(a < 0) /\ b < 0 BY <1>1, <1>2, <1>5, <2>3
  <2>4. CASE ~(a < 0) /\ ~(b < 0) BY <1>1, <1>2, <1>5, <2>4
  <2>5. QED BY <2>1, <2>2, <2>3, <2>4
<1>7. QuoInt(a, b) \in Int
  <2>1. -q \in Int BY <1>3
  <2>2. QED BY <1>2, <1>3, <2>1, Zenon
<1>8. CASE a < 0
  <2>1. QuoInt(a, b) * b - a = m BY <1>1, <1>3, <1>4, <1>6, <1>8
  <2>2. Mag(m) = m /\ m < p /\ Mag(b) = p BY <1>1, <1>3 DEF Mag
  <2>3. QED BY <1>7, <2>1, <2>2, <1>1, <1>3
<1>9. CASE ~(a < 0)
  <2>1. QuoInt(a, b) * b - a = -m BY <1>1, <1>3, <1>4, <1>6, <1>9
  <2>2. Mag(-m) = m /\ m < p /\ Mag(b) = p BY <1>1, <1>3 DEF Mag
  <2>3. QED BY <1>7, <2>1, <2>2, <1>1, <1>3
<1>10. QED BY <1>8, <1>9
LEMMA ProductOfIntegers ==
  ASSUME NEW a \in Int, NEW b \in Int PROVE a * b \in Int
  OBVIOUS

LEMMA TruncateIsInt ==
  ASSUME NEW d \in Int
  PROVE  /\ chopPrecisionAndTruncate(d) \in Int
         /\ chopPrecisionAndRoundUp(d) \in Int
         /\ RemInt(d, P) \in Int
<1>1. P \in Int /\ P # 0 /\ P > 0 BY DecAssumption
<1>2. QuoInt(d, P) \in Int /\ QuoInt(-d, P) \in Int /\ d \div P \in Int
  BY <1>1, QuoIntBounds, DivMod
<1>3. P * QuoInt(d, P) \in Int BY <1>1, <1>2
<1>4. chopPrecisionAndRoundUp(d) \in Int
  BY <1>1, <1>2 DEF chopPrecisionAndRoundUp, chopPrecisionAndTruncate
<1>5. RemInt(d, P) \in Int BY <1>3 DEF RemInt
<1>6. QED BY <1>2, <1>4, <1>5 DEF chopPrecisionAndTruncate

\* Every operation that does not divide by zero returns an integer.
LEMMA ResultIsInt ==
  ASSUME NEW o \in Ops, NEW a \in Int, NEW b \in Int, ~(o \in Divides /\ b = 0)
  PROVE  Result(o, a, b) \in Int
<1>1. P \in Int BY DecAssumption
<1>2. a * b \in Int /\ a * P * P \in Int BY <1>1, ProductOfIntegers
<1>3. CASE o \in {"Add", "Sub", "MulInt"} BY <1>2, <1>3 DEF Result
<1>4. CASE o \in {"Mul", "MulTruncate"}
  BY <1>2, <1>4, ChopRounds, TruncateIsInt DEF Result, Mul, MulTruncate
<1>5. CASE o \in Divides
  <2>1. QuoInt(a * P * P, b) \in Int /\ QuoInt(a, b) \in Int
    BY <1>2, <1>5, QuoIntBounds
  <2>2. QED
    BY <1>5, <2>1, ChopRounds, TruncateIsInt
    DEF Divides, Result, Quo, QuoTruncate, QuoRoundUp
<1>6. CASE o \in {"TruncateDec", "Ceil"}
  <2>1. QuoInt(a, P) \in Int BY TruncateIsInt DEF chopPrecisionAndTruncate
  <2>2. TruncateDec(a) \in Int
    BY <1>1, TruncateIsInt, ProductOfIntegers DEF TruncateDec
  <2>3. Ceil(a) \in Int
    <3>1. QuoInt(a, P) + (IF RemInt(a, P) > 0 THEN 1 ELSE 0) \in Int BY <2>1
    <3>2. QED BY <1>1, <3>1, ProductOfIntegers DEF Ceil
  <2>4. QED BY <1>6, <2>2, <2>3 DEF Result
<1>7. CASE o \in {"MinDec", "MaxDec"}
  BY <1>7 DEF Result, MinDec, MaxDecOf
<1>8. QED BY <1>3, <1>4, <1>5, <1>6, <1>7 DEF Ops, Divides, Plain, Unary

-----------------------------------------------------------------------------
\* The powers of the base.
LEMMA PowerIs ==
  /\ Power \in [Nat -> Nat]
  /\ Power[0] = 1
  /\ \A n \in Nat : Power[n + 1] = Base * Power[n]
<1> DEFINE step == [v \in Nat |-> Base * v]
           p == CHOOSE g : g = [n \in Nat |-> IF n = 0 THEN 1 ELSE Base * g[n - 1]]
<1>1. Base \in Nat
  BY TextAssumption
<1>2. step \in [Nat -> Nat]
  BY <1>1
<1>3. \A v \in Nat : step[v] = Base * v
  OBVIOUS
<1> HIDE DEF step
<1>4. PICK g : Iterates(g, Nat, 1, step)
  <2>1. 1 \in Nat
    OBVIOUS
  <2> HIDE DEF p
  <2> QED
    BY <1>2, <2>1, IterationExists
<1>5. g = [n \in Nat |-> IF n = 0 THEN 1 ELSE Base * g[n - 1]]
  <2>1. ASSUME NEW n \in Nat, n # 0 PROVE g[n] = Base * g[n - 1]
    <3>1. n - 1 \in Nat /\ (n - 1) + 1 = n
      BY <2>1
    <3>2. g[n] = step[g[n - 1]] /\ g[n - 1] \in Nat
      BY <1>4, <3>1 DEF Iterates
    <3> QED
      BY <1>3, <3>2
  <2> QED
    BY <1>4, <2>1 DEF Iterates
<1>6. p = [n \in Nat |-> IF n = 0 THEN 1 ELSE Base * p[n - 1]]
  BY <1>5, Zenon
<1>7. Power = p
  BY Zenon DEF Power
<1> HIDE DEF p
<1>8. p[0] = 1
  BY <1>6
<1>9. ASSUME NEW n \in Nat PROVE p[n + 1] = Base * p[n]
  <2>1. n + 1 \in Nat /\ n + 1 # 0 /\ (n + 1) - 1 = n
    OBVIOUS
  <2> QED
    BY <1>6, <2>1
<1> DEFINE W == {n \in Nat : p[n] \in Nat}
<1>10. 0 \in W /\ \A n \in Nat : n \in W => n + 1 \in W
  BY <1>1, <1>8, <1>9
<1> HIDE DEF W
<1>11. \A n \in Nat : p[n] \in Nat
  <2>1. Nat \subseteq W
    BY <1>10, NatsAreIn
  <2> QED
    BY <2>1 DEF W
<1>12. p \in [Nat -> Nat]
  <2>1. p = [n \in Nat |-> p[n]]
    BY <1>6
  <2> QED
    BY <1>11, <2>1
<1> QED
  BY <1>7, <1>8, <1>9, <1>12

LEMMA PowerGrows == \A n \in Nat : Power[n] \in Nat /\ n < Power[n]
<1> DEFINE W == {n \in Nat : n < Power[n]}
<1>1. 0 \in W
  BY PowerIs
<1>2. ASSUME NEW n \in Nat, n \in W PROVE n + 1 \in W
  <2> DEFINE q == Power[n]
             z == Base * q
  <2>1. q \in Nat /\ n < q /\ Power[n + 1] = z
    BY <1>2, PowerIs
  <2> HIDE DEF q
  <2>2. (Base - 2) * q \in Nat /\ (Base - 2) * q = z - 2 * q /\ z \in Int
    BY <2>1, TextAssumption
  <2> HIDE DEF z
  <2>3. n + 1 < z
    BY <2>1, <2>2
  <2> QED
    BY <2>1, <2>3
<1> HIDE DEF W
<1>3. Nat \subseteq W
  BY <1>1, <1>2, NatsAreIn
<1> QED
  BY <1>3, PowerIs DEF W

LEMMA PowerSum == \A m, n \in Nat : Power[m + n] = Power[m] * Power[n]
<1> SUFFICES ASSUME NEW m \in Nat PROVE \A n \in Nat : Power[m + n] = Power[m] * Power[n]
  OBVIOUS
<1> DEFINE W == {n \in Nat : Power[m + n] = Power[m] * Power[n]}
<1>1. 0 \in W
  BY PowerIs
<1>2. ASSUME NEW n \in Nat, n \in W PROVE n + 1 \in W
  <2> DEFINE a == Power[m]
             b == Power[n]
  <2>1. m + n \in Nat /\ m + (n + 1) = (m + n) + 1
    OBVIOUS
  <2>2. a \in Nat /\ b \in Nat /\ Base \in Nat
    BY PowerIs, TextAssumption
  <2>3. Power[m + (n + 1)] = Base * (a * b)
    BY <1>2, <2>1, PowerIs
  <2>4. Power[n + 1] = Base * b
    BY PowerIs
  <2> HIDE DEF a, b
  <2>5. Base * (a * b) = a * (Base * b)
    BY <2>2
  <2> QED
    BY <2>3, <2>4, <2>5 DEF a
<1> HIDE DEF W
<1>3. Nat \subseteq W
  BY <1>1, <1>2, NatsAreIn
<1> QED
  BY <1>3 DEF W

LEMMA PowerMonotone == \A m, n \in Nat : m <= n => Power[m] <= Power[n]
<1> SUFFICES ASSUME NEW m \in Nat, NEW n \in Nat, m <= n PROVE Power[m] <= Power[n]
  OBVIOUS
<1> DEFINE a == Power[m]
           b == Power[n - m]
<1>1. n - m \in Nat /\ m + (n - m) = n
  OBVIOUS
<1>2. Power[n] = a * b
  BY <1>1, PowerSum
<1>3. a \in Nat /\ b \in Nat /\ b > 0
  BY <1>1, PowerGrows
<1> HIDE DEF a, b
<1>4. a * (b - 1) \in Nat /\ a * (b - 1) = a * b - a /\ a * b \in Int
  BY <1>3
<1> QED
  BY <1>2, <1>3, <1>4 DEF a
-----------------------------------------------------------------------------
\* Whether v has the value of every beginning of the digits s.
IsValues(v, s) ==
  /\ v \in [0..Len(s) -> Nat]
  /\ v[0] = 0
  /\ \A k \in 0..(Len(s) - 1) : v[k + 1] = v[k] * Base + s[k + 1]

LEMMA ValueSteps ==
  ASSUME NEW s \in Seq(Digits)
  PROVE  \E v : IsValues(v, s) /\ ValueOf(s) = v[Len(s)]
<1> DEFINE n == Len(s)
           step == [i \in 1..n |-> [v \in Nat |-> v * Base + s[i]]]
           fold == CHOOSE g : g = [T \in SUBSET DOMAIN s |->
                     IF T = {} THEN 0 ELSE g[T \ {Max(T)}] * Base + s[Max(T)]]
<1>1. ValueOf(s) = fold[DOMAIN s]
  BY Zenon DEF ValueOf, FoldLeft, MapThenFoldSet
<1>2. n \in Nat /\ DOMAIN s = 1..n /\ \A i \in 1..n : s[i] \in Nat
  BY TextAssumption DEF Digits
<1> HIDE DEF n
<1>3. step \in [1..n -> [Nat -> Nat]]
  <2>1. ASSUME NEW i \in 1..n, NEW v \in Nat PROVE v * Base + s[i] \in Nat
    BY <1>2, TextAssumption
  <2> QED
    BY <2>1
<1>4. fold = [T \in SUBSET (1..n) |->
                IF T = {} THEN 0 ELSE fold[T \ {Max(T)}] * Base + s[Max(T)]]
  <2>1. PICK g : IsLeftFold(g, n, Nat, 0, step)
    <3> HIDE DEF step, fold
    <3>1. 0 \in Nat
      OBVIOUS
    <3> QED
      BY <1>2, <1>3, <3>1, LeftFoldExists
  <2>2. ASSUME NEW T \in SUBSET (1..n), T # {}
        PROVE  g[T] = g[T \ {Max(T)}] * Base + s[Max(T)]
    <3>1. Max(T) \in 1..n
      BY <1>2, <2>2, GreatestIndex
    <3>2. g[T] = step[Max(T)][g[T \ {Max(T)}]] /\ g[T \ {Max(T)}] \in Nat
      BY <2>1, <2>2 DEF IsLeftFold
    <3> QED
      BY <3>1, <3>2
  <2>3. g = [T \in SUBSET (1..n) |->
               IF T = {} THEN 0 ELSE g[T \ {Max(T)}] * Base + s[Max(T)]]
    BY <2>1, <2>2 DEF IsLeftFold
  <2> QED
    BY <1>2, <2>3, Zenon
<1> HIDE DEF fold, step
<1> DEFINE v == [k \in 0..n |-> fold[1..k]]
<1>5. v[0] = 0
  <2>1. 1..0 = {} /\ 0 \in 0..n
    BY <1>2
  <2> QED
    BY <1>4, <2>1
<1>6. ASSUME NEW k \in 0..(n - 1) PROVE v[k + 1] = v[k] * Base + s[k + 1]
  <2> DEFINE T == 1..(k + 1)
  <2>1. /\ T \in SUBSET (1..n) /\ T # {} /\ k + 1 \in 1..n
        /\ Max(T) = k + 1 /\ T \ {k + 1} = 1..k
    BY <1>2, InitialSegment
  <2>2. v[k + 1] = fold[T] /\ v[k] = fold[1..k]
    BY <1>2
  <2> HIDE DEF T, v
  <2>3. fold[T] = fold[1..k] * Base + s[k + 1]
    BY <1>4, <2>1
  <2> QED
    BY <2>2, <2>3
<1>7. v[n] = fold[DOMAIN s] /\ v = [k \in 0..n |-> v[k]]
  BY <1>2
<1> HIDE DEF v
<1> DEFINE W == {k \in Nat : k <= n => v[k] \in Nat}
<1>8. 0 \in W
  BY <1>5
<1>9. ASSUME NEW k \in Nat, k \in W PROVE k + 1 \in W
  <2> SUFFICES ASSUME k + 1 <= n PROVE v[k + 1] \in Nat
    OBVIOUS
  <2>1. k \in 0..(n - 1) /\ k + 1 \in 1..n /\ k <= n
    BY <1>2
  <2>2. v[k] \in Nat /\ s[k + 1] \in Nat /\ v[k + 1] = v[k] * Base + s[k + 1]
    BY <1>2, <1>6, <1>9, <2>1
  <2> QED
    BY <2>2, TextAssumption
<1> HIDE DEF W
<1>10. Nat \subseteq W
  BY <1>8, <1>9, NatsAreIn
<1>11. v \in [0..n -> Nat]
  <2>1. \A k \in 0..n : v[k] \in Nat
    BY <1>2, <1>10 DEF W
  <2> QED
    BY <1>7, <2>1
<1>12. IsValues(v, s)
  BY <1>5, <1>6, <1>11 DEF IsValues, n
<1> QED
  BY <1>1, <1>7, <1>12 DEF n

\* The value of the first k + j digits is that of the first k, j places up, and
\* something below it.
LEMMA ValueSplits ==
  ASSUME NEW s \in Seq(Digits), NEW v, IsValues(v, s), NEW k \in 0..Len(s)
  PROVE  \A j \in 0..(Len(s) - k) :
           \E e \in 0..(Power[j] - 1) : v[k + j] = Power[j] * v[k] + e
<1> DEFINE n == Len(s)
           W == {j \in Nat : k + j <= n =>
                   \E e \in 0..(Power[j] - 1) : v[k + j] = Power[j] * v[k] + e}
<1>1. n \in Nat /\ k \in Nat /\ k <= n /\ v[k] \in Nat
  BY DEF IsValues
<1>2. 0 \in W
  <2> DEFINE u == v[k]
  <2>1. k + 0 = k /\ u \in Nat /\ Power[0] = 1
    BY <1>1, PowerIs
  <2> HIDE DEF u
  <2>2. u = 1 * u + 0 /\ 0 \in 0..(1 - 1)
    BY <2>1
  <2> QED
    BY <2>1, <2>2 DEF u
<1>3. ASSUME NEW j \in Nat, j \in W PROVE j + 1 \in W
  <2> HIDE DEF n
  <2> SUFFICES ASSUME k + (j + 1) <= n
               PROVE  \E e \in 0..(Power[j + 1] - 1) :
                        v[k + (j + 1)] = Power[j + 1] * v[k] + e
    OBVIOUS
  <2>1. k + j <= n /\ k + j \in 0..(n - 1) /\ k + (j + 1) = (k + j) + 1 /\ (k + j) + 1 \in 1..n
    BY <1>1
  <2> DEFINE p == Power[j]
             d == s[(k + j) + 1]
             u == v[k]
  <2>2. PICK e \in 0..(p - 1) : v[k + j] = p * u + e
    BY <1>3, <2>1
  <2>3. v[k + (j + 1)] = v[k + j] * Base + d
    BY <2>1 DEF IsValues, n
  <2>4. d \in 0..(Base - 1) /\ Base \in Nat /\ Base > 0
    BY <2>1, TextAssumption DEF Digits, n
  <2>5. p \in Nat /\ p > 0 /\ Power[j + 1] = Base * p /\ u \in Nat
    BY <1>1, PowerIs, PowerGrows
  <2> DEFINE f == e * Base + d
  <2> HIDE DEF p, d, u
  <2>6. f \in 0..(Base * p - 1)
    <3> DEFINE eb == e * Base
               pb == Base * p
    <3>1. e \in Int /\ 0 <= e /\ (p - 1) - e \in Nat
      BY <2>5
    <3>2. ((p - 1) - e) * Base \in Nat /\ eb \in Nat /\ pb \in Nat
      BY <2>4, <2>5, <3>1
    <3>3. ((p - 1) - e) * Base = pb - Base - eb
      BY <2>4, <2>5, <3>1
    <3> HIDE DEF eb, pb
    <3>4. pb - Base - eb >= 0
      BY <3>2, <3>3
    <3>5. eb + d \in 0..(pb - 1)
      BY <2>4, <3>2, <3>4
    <3> QED
      BY <3>5 DEF eb, pb
  <2>7. (p * u + e) * Base + d = (Base * p) * u + f
    <3> DEFINE pu == p * u
    <3>1. pu \in Int /\ (Base * p) * u = Base * pu /\ e \in Int
      BY <2>4, <2>5
    <3> HIDE DEF pu
    <3>2. (pu + e) * Base = Base * pu + e * Base
      BY <2>4, <3>1
    <3> DEFINE bpu == Base * pu
               eb == e * Base
    <3>3. bpu \in Int /\ eb \in Int
      BY <2>4, <3>1
    <3> HIDE DEF bpu, eb
    <3>4. (bpu + eb) + d = bpu + (eb + d)
      BY <2>4, <3>3
    <3> QED
      BY <3>1, <3>2, <3>4 DEF bpu, eb, pu
  <2>8. v[k + (j + 1)] = Power[j + 1] * u + f /\ f \in 0..(Power[j + 1] - 1)
    BY <2>2, <2>3, <2>5, <2>6, <2>7
  <2> HIDE DEF f
  <2> QED
    BY <2>8 DEF u
<1> HIDE DEF W
<1>4. Nat \subseteq W
  BY <1>2, <1>3, NatsAreIn
<1> QED
  BY <1>1, <1>4 DEF W

\* The digits of a text are the places of its value, and it has no others.
LEMMA ValueDigits ==
  ASSUME NEW s \in Seq(Digits)
  PROVE  /\ ValueOf(s) \in Nat /\ ValueOf(s) < Power[Len(s)]
         /\ \A i \in 1..Len(s) : (ValueOf(s) \div Power[Len(s) - i]) % Base = s[i]
<1> DEFINE n == Len(s)
<1>1. PICK v : IsValues(v, s) /\ ValueOf(s) = v[n]
  BY ValueSteps
<1>2. n \in Nat /\ v \in [0..n -> Nat] /\ v[0] = 0 /\ Base \in Nat /\ Base > 0
  BY <1>1, TextAssumption DEF IsValues
<1>3. \A k \in 0..n, j \in 0..n : k + j = n =>
        \E e \in 0..(Power[j] - 1) : v[n] = Power[j] * v[k] + e
  <2> SUFFICES ASSUME NEW k \in 0..n, NEW j \in 0..n, k + j = n
               PROVE  \E e \in 0..(Power[j] - 1) : v[k + j] = Power[j] * v[k] + e
    OBVIOUS
  <2>1. j \in 0..(n - k)
    BY <1>2
  <2> QED
    BY <1>1, <2>1, ValueSplits
<1>4. v[n] \in Nat /\ v[n] < Power[n]
  <2>1. 0 \in 0..n /\ n \in 0..n /\ 0 + n = n
    BY <1>2
  <2>2. PICK e \in 0..(Power[n] - 1) : v[n] = Power[n] * 0 + e
    BY <1>2, <1>3, <2>1
  <2>3. Power[n] \in Nat
    BY <1>2, PowerIs
  <2> QED
    BY <2>2, <2>3
<1>5. ASSUME NEW i \in 1..n PROVE (v[n] \div Power[n - i]) % Base = s[i]
  <2> DEFINE p == Power[n - i]
             u == v[i - 1]
             d == s[i]
             w == u * Base + d
  <2>1. i \in 0..n /\ n - i \in 0..n /\ i + (n - i) = n /\ i - 1 \in 0..(n - 1) /\ (i - 1) + 1 = i
    BY <1>2
  <2>2. PICK e \in 0..(p - 1) : v[n] = p * v[i] + e
    BY <1>3, <2>1
  <2>3. v[i] = w /\ u \in Nat
    <3>1. v[(i - 1) + 1] = v[i - 1] * Base + s[(i - 1) + 1]
      BY <1>1, <2>1 DEF IsValues
    <3>2. i - 1 \in 0..n
      BY <1>2, <2>1
    <3> QED
      BY <1>2, <2>1, <3>1, <3>2
  <2>4. d \in 0..(Base - 1)
    BY <1>2 DEF Digits
  <2>5. p \in Int /\ p > 0
    BY <1>2, <2>1, PowerGrows
  <2>6. w \in Int /\ w = Base * u + d
    BY <1>2, <2>3, <2>4
  <2> HIDE DEF p, u, d, w
  <2>7. (p * w + e) \div p = w
    BY <2>5, <2>6, DivisionIs
  <2>8. (Base * u + d) % Base = d
    BY <1>2, <2>3, <2>4, DivisionIs
  <2> QED
    BY <2>2, <2>3, <2>6, <2>7, <2>8 DEF p, d
<1> QED
  BY <1>1, <1>4, <1>5

\* The places of a number, written in order, have that number as their value.
LEMMA PlacesHaveValue ==
  ASSUME NEW s \in Seq(Digits), NEW m \in Nat, m < Power[Len(s)],
         \A i \in 1..Len(s) : s[i] = (m \div Power[Len(s) - i]) % Base
  PROVE  ValueOf(s) = m
<1> DEFINE n == Len(s)
<1>1. PICK v : IsValues(v, s) /\ ValueOf(s) = v[n]
  BY ValueSteps
<1>2. n \in Nat /\ v \in [0..n -> Nat] /\ v[0] = 0 /\ Base \in Nat /\ Base > 0
  BY <1>1, TextAssumption DEF IsValues
<1> DEFINE W == {k \in Nat : k <= n => v[k] = m \div Power[n - k]}
<1>3. 0 \in W
  <2> DEFINE p == Power[n]
  <2>1. p \in Nat /\ m < p /\ n - 0 = n
    BY <1>2, PowerIs
  <2> HIDE DEF p, n
  <2>2. m \div p = 0
    <3>1. p \in Int /\ p > 0 /\ m \in 0..(p - 1) /\ m = p * 0 + m
      BY <2>1
    <3>2. (p * 0 + m) \div p = 0
      BY <3>1, DivisionIs
    <3> QED
      BY <3>1, <3>2
  <2> QED
    BY <1>2, <2>1, <2>2 DEF p
<1>4. ASSUME NEW k \in Nat, k \in W PROVE k + 1 \in W
  <2> SUFFICES ASSUME k + 1 <= n PROVE v[k + 1] = m \div Power[n - (k + 1)]
    OBVIOUS
  <2> DEFINE j == n - (k + 1)
             p == Power[j]
             q == m \div p
  <2>1. j \in Nat /\ j + 1 = n - k /\ k \in 0..(n - 1) /\ k + 1 \in 1..n /\ k <= n
    BY <1>2
  <2>2. p \in Nat /\ p > 0 /\ Power[n - k] = Base * p /\ Base * p = p * Base
    <3>1. Power[j + 1] = Base * p /\ p \in Nat /\ p > 0
      <4> HIDE DEF j
      <4>1. Power[j + 1] = Base * p
        BY <2>1, PowerIs
      <4>2. p \in Nat /\ j < p
        BY <2>1, PowerGrows
      <4> QED
        BY <2>1, <4>1, <4>2
    <3> HIDE DEF p, j
    <3>2. Base * p = p * Base
      BY <1>2, <3>1
    <3> QED
      BY <2>1, <3>1, <3>2
  <2>3. v[k + 1] = v[k] * Base + s[k + 1]
    BY <1>1, <2>1 DEF IsValues
  <2>4. v[k] = m \div (p * Base) /\ s[k + 1] = q % Base
    BY <1>4, <2>1, <2>2
  <2> HIDE DEF p, j, q
  <2>5. q \div Base = m \div (p * Base)
    BY <1>2, <2>2, DivTwice DEF q
  <2>6. q \in Int
    BY <2>2, DivMod DEF q
  <2>7. q \div Base \in Int /\ q % Base \in Int /\ q = Base * (q \div Base) + (q % Base)
    BY <1>2, <2>6, DivMod
  <2> DEFINE t == q \div Base
  <2>8. t \in Int /\ t = v[k]
    BY <2>4, <2>5, <2>7
  <2> HIDE DEF t
  <2>9. Base * t = t * Base
    BY <1>2, <2>8
  <2>10. v[k + 1] = q
    BY <2>3, <2>4, <2>7, <2>8, <2>9 DEF t
  <2> QED
    BY <2>10 DEF q, p, j
<1> HIDE DEF W
<1>5. Nat \subseteq W
  BY <1>3, <1>4, NatsAreIn
<1>6. v[n] = m \div Power[0]
  <2>1. n - n = 0 /\ n <= n
    BY <1>2
  <2> QED
    BY <1>2, <1>5, <2>1 DEF W
<1>7. m \div 1 = m
  OBVIOUS
<1> QED
  BY <1>1, <1>6, <1>7, PowerIs

\* Every natural number has a least number of digits it fits in.
LEMMA NumDigitsIs ==
  ASSUME NEW m \in Nat
  PROVE  NumDigits(m) \in Nat \ {0} /\ m < Power[NumDigits(m)]
<1> DEFINE S == {n \in 1..(m + 1) : m < Power[n]}
           Fits(n) == n \in 1..(m + 1) /\ m < Power[n] /\ (n = 1 \/ m >= Power[n - 1])
<1>1. m + 1 \in S
  <2>1. m + 1 \in 1..(m + 1) /\ m + 1 \in Nat
    OBVIOUS
  <2>2. Power[m + 1] \in Nat /\ m + 1 < Power[m + 1]
    BY <2>1, PowerGrows
  <2> QED
    BY <2>1, <2>2
<1>2. S \in SUBSET Int /\ IsFiniteSet(S) /\ S # {}
  <2>1. IsFiniteSet(1..(m + 1))
    BY FS_Interval
  <2>2. S \in SUBSET (1..(m + 1))
    OBVIOUS
  <2>3. 1..(m + 1) \subseteq Int
    OBVIOUS
  <2> HIDE DEF S
  <2> QED
    BY <1>1, <2>1, <2>2, <2>3, FS_Subset
<1> DEFINE l == Min(S)
<1>3. l \in S /\ \A h \in S : l <= h
  <2> HIDE DEF S
  <2> QED
    BY <1>2, ExtremesExist
<1> HIDE DEF l
<1>4. Fits(l)
  <2>1. l \in 1..(m + 1) /\ m < Power[l]
    BY <1>3
  <2>2. ASSUME l # 1 PROVE m >= Power[l - 1]
    <3>1. l - 1 \in 1..(m + 1) /\ l - 1 \in Nat /\ l - 1 < l
      BY <2>1, <2>2
    <3>2. l - 1 \notin S
      BY <1>3, <2>1, <3>1
    <3>3. Power[l - 1] \in Nat /\ ~(m < Power[l - 1])
      BY <3>1, <3>2, PowerGrows
    <3> QED
      BY <3>3
  <2> QED
    BY <2>1, <2>2
<1>5. Fits(CHOOSE n : Fits(n))
  BY <1>4, Zenon
<1>6. NumDigits(m) = CHOOSE n : Fits(n)
  BY Zenon DEF NumDigits
<1>7. Fits(NumDigits(m))
  BY <1>5, <1>6, Zenon
<1> DEFINE n == NumDigits(m)
<1>8. n \in 1..(m + 1) /\ m < Power[n]
  BY <1>7
<1> HIDE DEF n
<1>9. n \in Nat \ {0}
  BY <1>8
<1> QED
  BY <1>8, <1>9 DEF n

LEMMA DigitsOfIs ==
  ASSUME NEW m \in Nat
  PROVE  /\ DigitsOf(m) \in Seq(Digits)
         /\ Len(DigitsOf(m)) \in Nat \ {0}
         /\ m < Power[Len(DigitsOf(m))]
         /\ \A i \in 1..Len(DigitsOf(m)) :
              DigitsOf(m)[i] = (m \div Power[Len(DigitsOf(m)) - i]) % Base
<1> DEFINE n == NumDigits(m)
           z == [i \in 1..n |-> (m \div Power[n - i]) % Base]
<1>1. n \in Nat \ {0} /\ m < Power[n]
  BY NumDigitsIs
<1>2. DigitsOf(m) = z
  BY Zenon DEF DigitsOf
<1> HIDE DEF n
<1>3. ASSUME NEW i \in 1..n PROVE (m \div Power[n - i]) % Base \in Digits
  <2> DEFINE p == Power[n - i]
             q == m \div p
  <2>1. p \in Int /\ p > 0
    <3>1. n - i \in Nat
      BY <1>1
    <3> QED
      BY <3>1, PowerGrows
  <2> HIDE DEF p
  <2>2. q \in Int
    BY <2>1, DivMod
  <2> HIDE DEF q
  <2>3. q % Base \in 0..(Base - 1)
    BY <2>2, TextAssumption, DivMod
  <2> QED
    BY <2>3 DEF p, q, Digits
<1>4. z \in Seq(Digits) /\ Len(z) = n
  BY <1>1, <1>3
<1> QED
  BY <1>1, <1>2, <1>4

LEMMA FlattenOne ==
  ASSUME NEW D, NEW a \in Seq(D)
  PROVE  FlattenSeq(<<a>>) = a
<1> DEFINE seqs == <<a>>
           flat == CHOOSE f : f = [i \in 1..Len(seqs) |->
                     IF i = 1 THEN seqs[i] ELSE f[i - 1] \o seqs[i]]
           g == [i \in 1..1 |-> a]
<1>1. Len(seqs) = 1 /\ seqs[1] = a
  OBVIOUS
<1>2. FlattenSeq(seqs) = flat[Len(seqs)]
  <2>1. FlattenSeq(seqs) = IF Len(seqs) = 0 THEN seqs ELSE flat[Len(seqs)]
    BY Zenon DEF FlattenSeq
  <2> HIDE DEF flat
  <2> QED
    BY <1>1, <2>1
<1> HIDE DEF seqs
<1>3. g = [i \in 1..Len(seqs) |-> IF i = 1 THEN seqs[i] ELSE g[i - 1] \o seqs[i]]
  BY <1>1
<1>4. flat = [i \in 1..Len(seqs) |-> IF i = 1 THEN seqs[i] ELSE flat[i - 1] \o seqs[i]]
  BY <1>3, Zenon
<1> HIDE DEF flat
<1>5. flat[1] = a
  BY <1>1, <1>4
<1> QED
  BY <1>1, <1>2, <1>5 DEF seqs

LEMMA FlattenTwo ==
  ASSUME NEW D, NEW a \in Seq(D), NEW b \in Seq(D)
  PROVE  FlattenSeq(<<a, b>>) = a \o b
<1> DEFINE seqs == <<a, b>>
           flat == CHOOSE f : f = [i \in 1..Len(seqs) |->
                     IF i = 1 THEN seqs[i] ELSE f[i - 1] \o seqs[i]]
           g == [i \in 1..2 |-> IF i = 1 THEN a ELSE a \o b]
<1>1. Len(seqs) = 2 /\ seqs[1] = a /\ seqs[2] = b
  OBVIOUS
<1>2. FlattenSeq(seqs) = flat[Len(seqs)]
  <2>1. FlattenSeq(seqs) = IF Len(seqs) = 0 THEN seqs ELSE flat[Len(seqs)]
    BY Zenon DEF FlattenSeq
  <2> HIDE DEF flat
  <2> QED
    BY <1>1, <2>1
<1> HIDE DEF seqs
<1>3. g = [i \in 1..Len(seqs) |-> IF i = 1 THEN seqs[i] ELSE g[i - 1] \o seqs[i]]
  <2>1. \A i \in 1..2 : g[i] = IF i = 1 THEN seqs[i] ELSE g[i - 1] \o seqs[i]
    <3>1. g[1] = a /\ g[2] = a \o b
      OBVIOUS
    <3>2. \A i \in 1..2 : i = 1 \/ i = 2
      OBVIOUS
    <3>3. 2 - 1 = 1 /\ 2 # 1
      OBVIOUS
    <3> HIDE DEF g
    <3> QED
      BY <1>1, <3>1, <3>2, <3>3
  <2>2. g = [i \in 1..2 |-> g[i]]
    OBVIOUS
  <2> HIDE DEF g
  <2> QED
    BY <1>1, <2>1, <2>2
<1>4. flat = [i \in 1..Len(seqs) |-> IF i = 1 THEN seqs[i] ELSE flat[i - 1] \o seqs[i]]
  <2> HIDE DEF g
  <2> QED
    BY <1>3, Zenon
<1> HIDE DEF flat
<1>5. flat[1] = a /\ flat[2] = flat[1] \o b
  <2>1. 1 \in 1..2 /\ 2 \in 1..2 /\ 2 - 1 = 1 /\ 2 # 1
    OBVIOUS
  <2> QED
    BY <1>1, <1>4, <2>1
<1> QED
  BY <1>1, <1>2, <1>5 DEF seqs
-----------------------------------------------------------------------------
\* The digits handed to big.Int, and the parts of the text around its period.
Combined(t) == FlattenSeq(t.groups) \o Zeros(Precision - Decimals(t))
Whole(t)    == t.groups[1]
Fraction(t) == IF Len(t.groups) = 2 THEN t.groups[2] ELSE <<>>

LEMMA ZerosAre ==
  ASSUME NEW n \in Nat
  PROVE  /\ Zeros(n) \in Seq(Digits) /\ Len(Zeros(n)) = n
         /\ \A i \in 1..n : Zeros(n)[i] = 0
<1> DEFINE z == [i \in 1..n |-> 0]
<1>1. 0 \in Digits
  BY TextAssumption DEF Digits
<1>2. z \in Seq(Digits) /\ Len(z) = n /\ \A i \in 1..n : z[i] = 0
  BY <1>1
<1>3. Zeros(n) = z
  BY DEF Zeros
<1> QED
  BY <1>2, <1>3

LEMMA Concatenated ==
  ASSUME NEW D, NEW a \in Seq(D), NEW b \in Seq(D)
  PROVE  /\ a \o b \in Seq(D) /\ Len(a \o b) = Len(a) + Len(b)
         /\ \A i \in 1..Len(a) : (a \o b)[i] = a[i]
         /\ \A i \in 1..Len(b) : (a \o b)[Len(a) + i] = b[i]
<1>1. a \o b \in Seq(D) /\ Len(a \o b) = Len(a) + Len(b) /\ Len(a) \in Nat /\ Len(b) \in Nat
  OBVIOUS
<1>2. \A i \in 1..(Len(a) + Len(b)) : (a \o b)[i] = IF i <= Len(a) THEN a[i] ELSE b[i - Len(a)]
  OBVIOUS
<1>3. ASSUME NEW i \in 1..Len(a) PROVE (a \o b)[i] = a[i]
  BY <1>1, <1>2
<1>4. ASSUME NEW i \in 1..Len(b) PROVE (a \o b)[Len(a) + i] = b[i]
  <2>1. Len(a) + i \in 1..(Len(a) + Len(b)) /\ ~(Len(a) + i <= Len(a)) /\ (Len(a) + i) - Len(a) = i
    BY <1>1
  <2> QED
    BY <1>2, <2>1
<1> QED
  BY <1>1, <1>3, <1>4

\* The form a text has once its errors are ruled out.
InShape(t) ==
  /\ t.groups \in Seq(Seq(Digits))
  /\ Len(t.groups) \in 1..2
  /\ ~TooPrecise(t)

LEMMA CombinedIs ==
  ASSUME NEW t, InShape(t)
  PROVE  /\ Whole(t) \in Seq(Digits) /\ Fraction(t) \in Seq(Digits)
         /\ Decimals(t) = Len(Fraction(t)) /\ Len(Fraction(t)) <= Precision
         /\ Combined(t) \in Seq(Digits)
         /\ Len(Combined(t)) = Len(Whole(t)) + Precision
         /\ \A i \in 1..Len(Whole(t)) : Combined(t)[i] = Whole(t)[i]
         /\ \A i \in 1..Precision :
              Combined(t)[Len(Whole(t)) + i] = IF i <= Len(Fraction(t)) THEN Fraction(t)[i] ELSE 0
<1> DEFINE w == Whole(t)
           f == Fraction(t)
           k == Precision - Decimals(t)
           z == Zeros(k)
<1>1. /\ w \in Seq(Digits) /\ f \in Seq(Digits)
      /\ Decimals(t) = Len(f) /\ Len(f) <= Precision
  <2>1. CASE Len(t.groups) = 2
    <3>1. w = t.groups[1] /\ f = t.groups[2] /\ Decimals(t) = Len(f)
      BY <2>1 DEF Whole, Fraction, Decimals
    <3>2. t.groups[1] \in Seq(Digits) /\ t.groups[2] \in Seq(Digits)
      BY <2>1 DEF InShape
    <3> HIDE DEF w, f
    <3>3. Len(f) \in Nat /\ Precision \in Nat /\ ~(Len(f) > Precision)
      BY <3>1, <3>2, TextAssumption DEF InShape, TooPrecise
    <3> QED
      BY <3>1, <3>2, <3>3
  <2>2. CASE Len(t.groups) = 1
    <3>1. Fraction(t) = <<>> /\ Decimals(t) = 0 /\ Len(<<>>) = 0
      BY <2>2 DEF Fraction, Decimals
    <3>2. <<>> \in Seq(Digits)
      OBVIOUS
    <3> QED
      BY <2>2, <3>1, <3>2, TextAssumption DEF InShape, Whole
  <2> QED
    BY <2>1, <2>2 DEF InShape
<1>2. FlattenSeq(t.groups) = w \o f
  <2>1. CASE Len(t.groups) = 2
    <3>1. t.groups = <<w, f>>
      BY <2>1 DEF InShape, Whole, Fraction
    <3> HIDE DEF w, f
    <3> QED
      BY <1>1, <3>1, FlattenTwo
  <2>2. CASE Len(t.groups) = 1
    <3>1. t.groups = <<w>> /\ f = <<>>
      BY <2>2 DEF InShape, Whole, Fraction
    <3> HIDE DEF w, f
    <3>2. FlattenSeq(<<w>>) = w
      BY <1>1, FlattenOne
    <3>3. w \o <<>> = w
      BY <1>1
    <3> QED
      BY <3>1, <3>2, <3>3
  <2> QED
    BY <2>1, <2>2 DEF InShape
<1>3. k \in Nat /\ k = Precision - Len(f) /\ Len(f) \in Nat /\ Len(w) \in Nat /\ Precision \in Nat
  BY <1>1, TextAssumption
<1>4. z \in Seq(Digits) /\ Len(z) = k /\ \A i \in 1..k : z[i] = 0
  <2> HIDE DEF k
  <2> QED
    BY <1>3, ZerosAre
<1> DEFINE wf == w \o f
           c == wf \o z
<1>5. Combined(t) = c
  BY <1>2 DEF Combined
<1> HIDE DEF w, f, k, z
<1>6. /\ wf \in Seq(Digits) /\ Len(wf) = Len(w) + Len(f)
      /\ \A i \in 1..Len(w) : wf[i] = w[i]
      /\ \A i \in 1..Len(f) : wf[Len(w) + i] = f[i]
  BY <1>1, Concatenated
<1> HIDE DEF wf
<1>7. /\ c \in Seq(Digits) /\ Len(c) = Len(wf) + k
      /\ \A i \in 1..Len(wf) : c[i] = wf[i]
      /\ \A i \in 1..k : c[Len(wf) + i] = 0
  BY <1>4, <1>6, Concatenated
<1> HIDE DEF c
<1>8. Len(c) = Len(w) + Precision
  BY <1>3, <1>6, <1>7
<1>9. ASSUME NEW i \in 1..Len(w) PROVE c[i] = w[i]
  <2>1. i \in 1..Len(wf)
    BY <1>3, <1>6
  <2> QED
    BY <1>6, <1>7, <2>1
<1>10. ASSUME NEW i \in 1..Precision
       PROVE  c[Len(w) + i] = IF i <= Len(f) THEN f[i] ELSE 0
  <2>1. CASE i <= Len(f)
    <3>1. i \in 1..Len(f) /\ Len(w) + i \in 1..Len(wf)
      BY <1>3, <1>6, <2>1
    <3> QED
      BY <1>6, <1>7, <2>1, <3>1
  <2>2. CASE ~(i <= Len(f))
    <3>1. i - Len(f) \in 1..k /\ Len(wf) + (i - Len(f)) = Len(w) + i
      BY <1>3, <1>6, <2>2
    <3> QED
      BY <1>7, <2>2, <3>1
  <2> QED
    BY <2>1, <2>2
<1> QED
  BY <1>1, <1>5, <1>7, <1>8, <1>9, <1>10 DEF w, f

LEMMA ParsedIs ==
  ASSUME NEW t, InShape(t)
  PROVE  /\ Parsed(t) \in Int
         /\ t.inner = "none" =>
              Parsed(t) = IF t.minus THEN -ValueOf(Combined(t)) ELSE ValueOf(Combined(t))
<1> DEFINE v == ValueOf(Combined(t))
           u == IF t.inner = "minus" THEN -v ELSE v
<1>1. v \in Nat
  BY CombinedIs, ValueDigits
<1>2. Parsed(t) = IF t.minus THEN -u ELSE u
  BY DEF Parsed, Combined
<1> HIDE DEF v
<1>3. t.inner = "none" => u = v
  OBVIOUS
<1>4. u \in Int
  BY <1>1
<1> HIDE DEF u
<1> QED
  BY <1>2, <1>3, <1>4 DEF v

LEMMA DocumentedShape ==
  ASSUME NEW t, t.groups \in Seq(Seq(Digits)), Documented(t), ~TooPrecise(t)
  PROVE  InShape(t) /\ Parses(t)
<1>1. InShape(t)
  BY DEF InShape, Documented
<1>2. t.groups[1] # <<>> /\ (Len(t.groups) = 2 => t.groups[2] # <<>>)
  <2> DEFINE n == Len(t.groups)
  <2>1. DOMAIN t.groups = 1..n /\ n \in 1..2
    BY DEF Documented
  <2> HIDE DEF n
  <2>2. 1 \in 1..n /\ (n = 2 => 2 \in 1..n)
    BY <2>1
  <2> QED
    BY <2>1, <2>2 DEF Documented, n
<1>3. ~Empty(t)
  <2>1. t.groups = << <<>> >> => t.groups[1] = <<>>
    OBVIOUS
  <2> QED
    BY <1>2, <2>1 DEF Empty
<1>4. ~BadLength(t)
  BY <1>2, Zenon DEF BadLength
<1>5. ~TooManyDots(t)
  <2>1. \A n \in 1..2 : ~(n > 2)
    OBVIOUS
  <2> QED
    BY <2>1, Zenon DEF TooManyDots, Documented
<1> QED
  BY <1>1, <1>3, <1>4, <1>5 DEF Parses

\* Every text of the documented form with few enough decimals means, place by
\* place, the decimal it is read as.
LEMMA DocumentedMeans ==
  ASSUME NEW t, t.groups \in Seq(Seq(Digits)), t.minus \in BOOLEAN,
         Documented(t), ~TooPrecise(t)
  PROVE  Means(Parsed(t), t)
<1> DEFINE c == Combined(t)
           w == Whole(t)
           f == Fraction(t)
           v == ValueOf(c)
           d == Parsed(t)
           m == IF d < 0 THEN -d ELSE d
<1>1. InShape(t)
  BY DocumentedShape
<1>2. /\ c \in Seq(Digits) /\ Len(c) = Len(w) + Precision /\ w \in Seq(Digits)
      /\ \A i \in 1..Len(w) : c[i] = w[i]
      /\ \A i \in 1..Precision : c[Len(w) + i] = IF i <= Len(f) THEN f[i] ELSE 0
  BY <1>1, CombinedIs
<1> HIDE DEF c, w, f
<1>3. /\ v \in Nat /\ v < Power[Len(c)]
      /\ \A i \in 1..Len(c) : (v \div Power[Len(c) - i]) % Base = c[i]
  BY <1>2, ValueDigits
<1>4. d = IF t.minus THEN -v ELSE v
  <2>1. t.inner = "none"
    BY DEF Documented
  <2> QED
    BY <1>1, <2>1, ParsedIs DEF c
<1> HIDE DEF v, d
<1>5. m = v /\ ((d < 0) = (t.minus /\ d # 0))
  <2>1. CASE t.minus
    BY <1>3, <1>4, <2>1
  <2>2. CASE ~t.minus
    BY <1>3, <1>4, <2>2
  <2> QED
    BY <2>1, <2>2
<1>6. \A k : Place(d, k) = (v \div Power[k]) % Base
  BY <1>5 DEF Place
<1>7. Len(w) \in Nat /\ Precision \in Nat
  BY <1>2, TextAssumption
<1>8. ASSUME NEW i \in 1..Len(w) PROVE Place(d, Precision + Len(w) - i) = w[i]
  <2>1. i \in 1..Len(c) /\ Len(c) - i = Precision + Len(w) - i
    BY <1>2, <1>7
  <2> QED
    BY <1>2, <1>3, <1>6, <2>1
<1>9. ASSUME NEW i \in 1..Precision
      PROVE  Place(d, Precision - i) = IF i <= Len(f) THEN f[i] ELSE 0
  <2>1. Len(w) + i \in 1..Len(c) /\ Len(c) - (Len(w) + i) = Precision - i
    BY <1>2, <1>7
  <2> QED
    BY <1>2, <1>3, <1>6, <2>1
<1>10. m < Power[Precision + Len(w)]
  <2>1. Len(c) = Precision + Len(w)
    BY <1>2, <1>7
  <2> QED
    BY <1>3, <1>5, <2>1
<1> HIDE DEF m
<1>11. /\ \A i \in 1..Len(w) : Place(d, Precision + Len(w) - i) = w[i]
       /\ \A i \in 1..Precision : Place(d, Precision - i) = IF i <= Len(f) THEN f[i] ELSE 0
       /\ (d < 0) = (t.minus /\ d # 0)
       /\ m < Power[Precision + Len(w)]
  BY <1>5, <1>8, <1>9, <1>10
<1> QED
  BY <1>11, Zenon DEF Means, w, f, d, m, Whole, Fraction

\* The number that String prints, zeros in front of it included.
LEMMA PrintedIs ==
  ASSUME NEW d \in Int
  PROVE  LET t == String(d) IN
           /\ t.minus = (d < 0) /\ t.groups \in Seq(Seq(Digits))
           /\ Documented(t) /\ ~TooPrecise(t)
           /\ ValueOf(Combined(t)) = IF d < 0 THEN -d ELSE d
<1> DEFINE t == String(d)
           m == IF d < 0 THEN -d ELSE d
           b == DigitsOf(m)
           n == Len(b)
           cut == n - Precision
           w == IF cut <= 0 THEN <<0>> ELSE SubSeq(b, 1, cut)
           f == IF cut <= 0 THEN Zeros(-cut) \o b ELSE SubSeq(b, cut + 1, n)
<1>1. m \in Nat
  OBVIOUS
<1>2. t.minus = (d < 0) /\ t.inner = "none" /\ t.groups = <<w, f>>
  <2>1. String(d) = [minus |-> d < 0, inner |-> "none",
                     groups |-> IF cut <= 0 THEN << <<0>>, Zeros(-cut) \o b >>
                                ELSE << SubSeq(b, 1, cut), SubSeq(b, cut + 1, n) >>]
    BY Zenon DEF String
  <2> HIDE DEF m, b, n, cut
  <2>2. <<w, f>> = IF cut <= 0 THEN << <<0>>, Zeros(-cut) \o b >>
                   ELSE << SubSeq(b, 1, cut), SubSeq(b, cut + 1, n) >>
    BY Zenon
  <2>3. t = [minus |-> d < 0, inner |-> "none", groups |-> <<w, f>>]
    BY <2>1, <2>2, Zenon
  <2> HIDE DEF t, w, f
  <2> QED
    BY <2>3
<1> HIDE DEF t, m
<1>3. /\ b \in Seq(Digits) /\ n \in Nat \ {0} /\ m < Power[n]
      /\ \A i \in 1..n : b[i] = (m \div Power[n - i]) % Base
  BY <1>1, DigitsOfIs
<1> HIDE DEF b
<1>4. Precision \in Nat \ {0} /\ n \in Int /\ cut \in Int /\ cut = n - Precision
  BY <1>3, TextAssumption
<1> HIDE DEF n, cut
<1>5. /\ w \in Seq(Digits) /\ f \in Seq(Digits)
      /\ Len(w) \in Nat \ {0} /\ Len(f) = Precision
  <2>1. CASE cut <= 0
    <3>1. -cut \in Nat
      BY <1>4, <2>1
    <3>2. Zeros(-cut) \in Seq(Digits) /\ Len(Zeros(-cut)) = -cut
      BY <3>1, ZerosAre
    <3>3. f \in Seq(Digits) /\ Len(f) = -cut + n
      BY <1>3, <2>1, <3>2, Concatenated DEF n
    <3>4. 0 \in Digits
      BY TextAssumption DEF Digits
    <3>5. <<0>> \in Seq(Digits) /\ Len(<<0>>) = 1
      BY <3>4
    <3>6. w = <<0>> /\ -cut + n = Precision
      BY <1>4, <2>1
    <3> HIDE DEF w, f
    <3> QED
      BY <3>3, <3>5, <3>6
  <2>2. CASE ~(cut <= 0)
    <3>1. cut \in 1..n /\ cut + 1 \in 1..n /\ n \in 1..n
      BY <1>3, <1>4, <2>2
    <3>2. SubSeq(b, 1, cut) \in Seq(Digits) /\ Len(SubSeq(b, 1, cut)) = cut
      BY <1>3, <3>1 DEF n
    <3>3. SubSeq(b, cut + 1, n) \in Seq(Digits) /\ Len(SubSeq(b, cut + 1, n)) = n - cut
      BY <1>3, <3>1 DEF n
    <3> QED
      BY <1>4, <2>2, <3>1, <3>2, <3>3
  <2> QED
    BY <2>1, <2>2
<1>6. /\ cut <= 0 => /\ w[1] = 0 /\ Len(w) = 1
                     /\ \A i \in 1..(-cut) : f[i] = 0
                     /\ \A i \in 1..n : f[-cut + i] = b[i]
      /\ cut > 0 => /\ Len(w) = cut
                    /\ \A i \in 1..cut : w[i] = b[i]
                    /\ \A i \in 1..Precision : f[i] = b[cut + i]
  <2>1. CASE cut <= 0
    <3>1. -cut \in Nat
      BY <1>4, <2>1
    <3>2. /\ Zeros(-cut) \in Seq(Digits) /\ Len(Zeros(-cut)) = -cut
          /\ \A i \in 1..(-cut) : Zeros(-cut)[i] = 0
      BY <3>1, ZerosAre
    <3> DEFINE z == Zeros(-cut)
    <3> HIDE DEF z
    <3>3. /\ \A i \in 1..Len(z) : (z \o b)[i] = z[i]
          /\ \A i \in 1..n : (z \o b)[Len(z) + i] = b[i]
      BY <1>3, <3>2, Concatenated DEF n, z
    <3>4. f = z \o b /\ w = <<0>>
      BY <2>1 DEF z
    <3>5. <<0>>[1] = 0 /\ Len(<<0>>) = 1
      OBVIOUS
    <3> HIDE DEF f, w
    <3>6. Len(z) = -cut /\ \A i \in 1..(-cut) : z[i] = 0
      BY <3>2 DEF z
    <3>7. /\ \A i \in 1..(-cut) : f[i] = 0
          /\ \A i \in 1..n : f[-cut + i] = b[i]
      BY <3>3, <3>4, <3>6
    <3>8. ~(cut > 0)
      BY <1>4, <2>1
    <3> QED
      BY <3>4, <3>5, <3>7, <3>8
  <2>2. CASE ~(cut <= 0)
    <3>1. cut \in 1..n /\ cut + 1 \in 1..n /\ n \in 1..n
      BY <1>3, <1>4, <2>2
    <3>2. w = SubSeq(b, 1, cut) /\ f = SubSeq(b, cut + 1, n)
      BY <2>2
    <3>3. Len(w) = cut /\ \A i \in 1..cut : w[i] = b[i]
      BY <1>3, <3>1, <3>2 DEF n
    <3>4. \A i \in 1..(n - cut) : SubSeq(b, cut + 1, n)[i] = b[cut + i]
      <4> SUFFICES ASSUME NEW i \in 1..(n - cut)
                   PROVE SubSeq(b, cut + 1, n)[i] = b[cut + i]
        OBVIOUS
      <4>1. SubSeq(b, cut + 1, n)[i] = b[((cut + 1) + i) - 1]
        BY <1>3, <3>1 DEF n
      <4>2. ((cut + 1) + i) - 1 = cut + i
        BY <1>4
      <4> QED
        BY <4>1, <4>2
    <3>5. n - cut = Precision
      BY <1>4
    <3> HIDE DEF w, f
    <3> QED
      BY <1>4, <2>2, <3>2, <3>3, <3>4, <3>5
  <2> QED
    BY <2>1, <2>2
<1> HIDE DEF w, f
<1>7. t.groups \in Seq(Seq(Digits)) /\ Len(t.groups) = 2 /\ t.groups[1] = w /\ t.groups[2] = f
  BY <1>2, <1>5
<1>8. Documented(t)
  <2>1. Len(<<>>) = 0
    OBVIOUS
  <2>2. w # <<>> /\ f # <<>>
    BY <1>4, <1>5, <2>1
  <2>3. \A i \in DOMAIN t.groups : i = 1 \/ i = 2
    BY <1>7
  <2> QED
    BY <1>2, <1>7, <2>2, <2>3 DEF Documented
<1>9. ~TooPrecise(t)
  BY <1>4, <1>5, <1>7 DEF TooPrecise, Decimals
<1> DEFINE c == Combined(t)
<1>10. /\ c \in Seq(Digits) /\ Len(c) = Len(w) + Precision
       /\ \A i \in 1..Len(w) : c[i] = w[i]
       /\ \A i \in 1..Precision : c[Len(w) + i] = f[i]
  <2>1. InShape(t) /\ Whole(t) = w /\ Fraction(t) = f
    BY <1>7, <1>9 DEF InShape, Whole, Fraction
  <2> HIDE DEF c
  <2>2. /\ c \in Seq(Digits) /\ Len(c) = Len(w) + Precision
        /\ \A i \in 1..Len(w) : c[i] = w[i]
        /\ \A i \in 1..Precision : c[Len(w) + i] = IF i <= Len(f) THEN f[i] ELSE 0
    BY <2>1, CombinedIs DEF c
  <2> QED
    BY <1>5, <2>2
<1> HIDE DEF c
<1>11. m < Power[Len(c)] /\ \A i \in 1..Len(c) : c[i] = (m \div Power[Len(c) - i]) % Base
  <2>1. CASE cut > 0
    <3>1. Len(c) = n
      BY <1>4, <1>6, <1>10, <2>1
    <3>2. ASSUME NEW i \in 1..n PROVE c[i] = b[i]
      <4>1. CASE i <= cut
        BY <1>4, <1>6, <1>10, <2>1, <4>1
      <4>2. CASE ~(i <= cut)
        <5>1. i - cut \in 1..Precision /\ cut + (i - cut) = i
          BY <1>4, <2>1, <4>2
        <5> QED
          BY <1>6, <1>10, <2>1, <5>1
      <4> QED
        BY <4>1, <4>2
    <3> QED
      BY <1>3, <3>1, <3>2
  <2>2. CASE ~(cut > 0)
    <3>0. cut <= 0
      BY <1>4, <2>2
    <3>6. /\ w[1] = 0 /\ Len(w) = 1
          /\ \A i \in 1..(-cut) : f[i] = 0
          /\ \A i \in 1..n : f[-cut + i] = b[i]
      BY <1>6, <3>0
    <3>7. c[1] = 0 /\ Len(c) = 1 + Precision /\ \A i \in 1..Precision : c[1 + i] = f[i]
      <4>1. Len(w) = 1 /\ 1 \in 1..1
        BY <3>6
      <4> QED
        BY <1>10, <3>6, <4>1
    <3>1. Len(c) = Precision + 1 /\ Len(c) \in Nat /\ n <= Len(c) /\ n \in Nat
      BY <1>3, <1>4, <3>0, <3>7
    <3>2. Power[n] <= Power[Len(c)] /\ Power[n] \in Nat /\ Power[Len(c)] \in Nat
      BY <3>1, PowerMonotone, PowerIs
    <3>3. ASSUME NEW i \in 1..Len(c) PROVE c[i] = (m \div Power[Len(c) - i]) % Base
      <4>1. CASE i <= Len(c) - n
        <5>1. c[i] = 0
          <6>1. CASE i = 1
            BY <3>7, <6>1
          <6>2. CASE i # 1
            <7>1. i - 1 \in 1..(-cut) /\ i - 1 \in 1..Precision /\ 1 + (i - 1) = i
              BY <1>4, <3>0, <3>1, <4>1, <6>2
            <7> QED
              BY <3>6, <3>7, <7>1
          <6> QED
            BY <6>1, <6>2
        <5> DEFINE p == Power[Len(c) - i]
        <5>2. p \in Nat /\ Power[n] <= p
          <6>1. Len(c) - i \in Nat /\ n <= Len(c) - i
            BY <3>1, <4>1
          <6> QED
            BY <3>1, <6>1, PowerMonotone, PowerIs
        <5> HIDE DEF p
        <5>3. m \in 0..(p - 1) /\ p \in Int /\ p > 0 /\ p * 0 + m = m
          BY <1>1, <1>3, <3>2, <5>2
        <5>4. (p * 0 + m) \div p = 0
          BY <5>3, DivisionIs
        <5>5. 0 % Base = 0
          BY TextAssumption
        <5> QED
          BY <5>1, <5>3, <5>4, <5>5 DEF p
      <4>2. CASE ~(i <= Len(c) - n)
        <5> DEFINE j == i - (Len(c) - n)
        <5>1. j \in 1..n /\ Len(c) - i = n - j
          BY <3>1, <4>2
        <5>2. -cut + j \in 1..Precision /\ 1 + (-cut + j) = i
          BY <1>4, <3>0, <3>1, <5>1
        <5> HIDE DEF j
        <5>3. c[i] = b[j]
          BY <3>6, <3>7, <5>1, <5>2
        <5> QED
          BY <1>3, <5>1, <5>3
      <4> QED
        BY <4>1, <4>2
    <3> QED
      BY <1>1, <1>3, <3>2, <3>3
  <2> QED
    BY <2>1, <2>2
<1>12. ValueOf(c) = m
  BY <1>1, <1>10, <1>11, PlacesHaveValue
<1> QED
  BY <1>2, <1>7, <1>8, <1>9, <1>12 DEF t, c, m

\* What String (JSON, YAML) prints is read back as the decimal it was.
LEMMA PrintedReads ==
  ASSUME NEW d \in Int
  PROVE  LET t == String(d) IN
           /\ t.minus \in BOOLEAN /\ t.groups \in Seq(Seq(Digits))
           /\ Documented(t) /\ ~TooPrecise(t) /\ Parses(t) /\ Parsed(t) = d
<1> DEFINE t == String(d)
           m == IF d < 0 THEN -d ELSE d
<1>1. /\ t.minus = (d < 0) /\ t.groups \in Seq(Seq(Digits))
      /\ Documented(t) /\ ~TooPrecise(t)
      /\ ValueOf(Combined(t)) = m
  BY PrintedIs
<1> HIDE DEF t
<1>2. InShape(t) /\ Parses(t)
  BY <1>1, DocumentedShape
<1>3. Parsed(t) = IF t.minus THEN -m ELSE m
  <2>1. t.inner = "none"
    BY <1>1 DEF Documented
  <2> HIDE DEF m
  <2> QED
    BY <1>1, <1>2, <2>1, ParsedIs
<1>4. Parsed(t) = d
  <2>1. CASE d < 0
    <3>1. m = -d /\ -(-d) = d
      BY <2>1
    <3>2. t.minus
      <4>1. (d < 0) = TRUE
        BY <2>1
      <4> QED
        BY <1>1, <4>1, Zenon
    <3> HIDE DEF m
    <3> QED
      BY <1>3, <3>1, <3>2, Zenon
  <2>2. CASE ~(d < 0)
    BY <1>1, <1>3, <2>2
  <2> QED
    BY <2>1, <2>2
<1>5. t.minus \in BOOLEAN
  BY <1>1
<1> QED
  BY <1>1, <1>2, <1>4, <1>5 DEF t

\* A text that parses is read as an integer.
LEMMA ReadIsInt ==
  ASSUME NEW t \in Texts, Parses(t)
  PROVE  Parsed(t) \in Int
<1>1. t.groups \in Seq(Seq(Digits)) /\ t.groups # <<>>
  BY TextAssumption
<1> DEFINE n == Len(t.groups)
<1>2. n \in Nat \ {0} /\ ~(n > 2)
  BY <1>1 DEF Parses, TooManyDots
<1>3. n \in 1..2
  <2> HIDE DEF n
  <2> QED
    BY <1>2
<1>4. InShape(t)
  BY <1>1, <1>3 DEF InShape, Parses
<1> QED
  BY <1>4, ParsedIs

\* A caller computes, or goes on with a decimal it has just read.
Reading ==
  /\ op' = "none" /\ x' = 0 /\ y' = 0
  /\ r' \in Int
  /\ UNCHANGED panicked

LEMMA TextStep == [TextNext]_textVars => [DecNext]_decVars \/ Reading
<1> SUFFICES ASSUME [TextNext]_textVars PROVE [DecNext]_decVars \/ Reading
  OBVIOUS
<1>1. CASE Compute
  BY <1>1 DEF Compute
<1>2. CASE Format
  BY <1>2 DEF Format
<1>3. ASSUME NEW t \in Texts, NewDecFromStr(t) PROVE Reading
  <2>1. r' = IF Parses(t) THEN Parsed(t) ELSE 0
    BY <1>3 DEF NewDecFromStr
  <2>2. r' \in Int
    BY <2>1, ReadIsInt
  <2> QED
    BY <1>3, <2>2 DEF NewDecFromStr, Reading
<1>4. CASE UNCHANGED textVars
  BY <1>4 DEF textVars
<1> QED
  BY <1>1, <1>2, <1>3, <1>4 DEF TextNext

LEMMA DecTypeInductive == DecTypeOK /\ [TextNext]_textVars => DecTypeOK'
<1> SUFFICES ASSUME DecTypeOK, [TextNext]_textVars PROVE DecTypeOK'
  OBVIOUS
<1>1. CASE UNCHANGED decVars
  BY <1>1 DEF decVars, DecTypeOK
<1>2. ASSUME NEW o \in Ops, NEW b \in Arguments(o), Call(o, b) \/ Panic(o, b)
      PROVE  DecTypeOK'
  <2>1. b \in Int BY DecAssumption DEF Arguments
  <2>2. CASE Call(o, b)
    <3>1. r' \in Int BY <2>1, <2>2, ResultIsInt DEF Call, DecTypeOK
    <3>2. QED BY <2>1, <2>2, <3>1 DEF Call, DecTypeOK
  <2>3. CASE Panic(o, b)
    <3>1. panicked' \in BOOLEAN BY <2>3, Zenon DEF Panic
    <3>2. QED BY <2>1, <2>3, <3>1 DEF Panic, DecTypeOK
  <2>4. QED BY <1>2, <2>2, <2>3
<1>3. CASE Reading
  BY <1>3 DEF Reading, DecTypeOK
<1>4. QED BY <1>1, <1>2, <1>3, TextStep DEF DecNext

\* Whatever is called or read in whatever order, the registers hold integers: no
\* operation of decimal.go but a zero divisor is undefined.
THEOREM DecTypeCorrect == TextSpec => []DecTypeOK
<1>1. TextInit => DecTypeOK
  <2> SUFFICES ASSUME DecInit PROVE DecTypeOK BY DEF TextInit
  <2>1. panicked \in BOOLEAN BY Zenon DEF DecInit
  <2>2. QED BY <2>1, DecAssumption DEF DecInit, DecTypeOK
<1>2. QED BY <1>1, DecTypeInductive, PTL DEF TextSpec

\* What String prints of a decimal of any size and sign, NewDecFromStr reads
\* back, at every base and precision.
THEOREM PrintedIsRead == TextSpec => []PrintedIsReadBack
<1>1. DecTypeOK => PrintedIsReadBack
  <2> SUFFICES ASSUME r \in Int PROVE PrintedIsReadBack
    BY DEF DecTypeOK
  <2>1. LET t == String(r) IN
          /\ t.minus \in BOOLEAN /\ t.groups \in Seq(Seq(Digits))
          /\ Documented(t) /\ ~TooPrecise(t) /\ Parses(t) /\ Parsed(t) = r
    BY PrintedReads
  <2>2. QED BY <2>1 DEF PrintedIsReadBack
<1>2. QED BY <1>1, DecTypeCorrect, PTL

LEMMA DocumentedInductive ==
  DecTypeOK /\ DocumentedFormIsRead /\ [TextNext]_textVars => DocumentedFormIsRead'
<1> SUFFICES ASSUME DecTypeOK, DocumentedFormIsRead, [TextNext]_textVars,
                    (Documented(text) /\ ~TooPrecise(text))'
             PROVE  (~err /\ Means(r, text))'
  BY DEF DocumentedFormIsRead
<1>1. Documented(text') /\ ~TooPrecise(text')
  BY DEF Documented, TooPrecise, Decimals
<1>2. SUFFICES ~err' /\ Means(r', text')
  BY DEF Means, Place
<1>3. CASE Compute
  <2>1. text'.groups = <<>> /\ Len(<<>>) = 0
    BY <1>3 DEF Compute, NoText
  <2>2. Len(text'.groups) \notin 1..2
    BY <2>1
  <2>3. QED BY <1>1, <2>2 DEF Documented
<1>4. CASE Format
  <2> DEFINE t == String(r)
  <2>1. t.minus \in BOOLEAN /\ t.groups \in Seq(Seq(Digits)) /\ Parsed(t) = r
    BY PrintedReads DEF DecTypeOK
  <2>2. text' = t /\ err' = FALSE /\ r' = r
    BY <1>4 DEF Format, decVars
  <2> HIDE DEF t
  <2>3. Means(Parsed(t), t)
    BY <1>1, <2>1, <2>2, DocumentedMeans
  <2>4. QED BY <2>1, <2>2, <2>3
<1>5. ASSUME NEW t \in Texts, NewDecFromStr(t) PROVE ~err' /\ Means(r', text')
  <2>1. text' = t /\ err' = ~Parses(t) /\ r' = IF Parses(t) THEN Parsed(t) ELSE 0
    BY <1>5 DEF NewDecFromStr
  <2>2. t.groups \in Seq(Seq(Digits)) /\ t.minus \in BOOLEAN
    BY TextAssumption
  <2>3. Documented(t) /\ ~TooPrecise(t)
    BY <1>1, <2>1
  <2>4. Parses(t) /\ Means(Parsed(t), t)
    BY <2>2, <2>3, DocumentedShape, DocumentedMeans
  <2>5. QED BY <2>1, <2>4
<1>6. CASE UNCHANGED textVars
  <2>1. text' = text /\ err' = err /\ r' = r
    BY <1>6 DEF textVars, decVars
  <2>2. QED BY <1>1, <2>1 DEF DocumentedFormIsRead
<1>7. QED BY <1>3, <1>4, <1>5, <1>6 DEF TextNext

\* Every text of the form the comment of NewDecFromStr documents, printed or
\* passed, is accepted when it has few enough decimals, and place by place it
\* means the decimal it is read as, at every base and precision.
THEOREM DocumentedIsRead == TextSpec => []DocumentedFormIsRead
<1>1. TextInit => DocumentedFormIsRead
  <2> SUFFICES ASSUME text = NoText PROVE ~Documented(text)
    BY DEF TextInit, DocumentedFormIsRead
  <2>1. text.groups = <<>> /\ Len(<<>>) = 0
    BY DEF NoText
  <2>2. Len(text.groups) \notin 1..2
    BY <2>1
  <2>3. QED BY <2>2 DEF Documented
<1>2. QED BY <1>1, DocumentedInductive, DecTypeCorrect, PTL DEF TextSpec
-----------------------------------------------------------------------------
\* What Mul returns is Mul of its operands, still in the registers.
MulFromRegisters == Returned("Mul") => r = Mul(x, y)

\* Mul rounds half to even at every precision and for operands of every size
\* and sign, in every chain of calls.
THEOREM MulRoundsToEven == TextSpec => []MulIsBankersRounded
<1>1. TextInit => MulFromRegisters BY DEF TextInit, DecInit, MulFromRegisters, Returned
<1>2. MulFromRegisters /\ [TextNext]_textVars => MulFromRegisters'
  <2>1. MulFromRegisters /\ [DecNext]_decVars => MulFromRegisters'
    BY DEF MulFromRegisters, Returned, DecNext, decVars, Call, Panic, Result
  <2>2. Reading => MulFromRegisters' BY DEF Reading, MulFromRegisters, Returned
  <2>3. QED BY <2>1, <2>2, TextStep
<1>3. DecTypeOK /\ MulFromRegisters => MulIsBankersRounded
  <2> SUFFICES ASSUME DecTypeOK, Returned("Mul"), r = Mul(x, y)
               PROVE  /\ 2 * Mag(P * r - x * y) <= P
                      /\ 2 * Mag(P * r - x * y) = P => r % 2 = 0
    BY DEF MulFromRegisters, MulIsBankersRounded
  <2>1. x * y \in Int BY DEF DecTypeOK
  <2>2. r = chopPrecisionAndRound(x * y) BY DEF Mul
  <2>3. QED BY <2>1, <2>2, ChopRounds
<1>4. QED BY <1>1, <1>2, <1>3, DecTypeCorrect, PTL DEF TextSpec
-----------------------------------------------------------------------------
LEMMA AbsOfProduct ==
  ASSUME NEW a \in Int, NEW b \in Int
  PROVE  Mag(a * b) = Mag(a) * Mag(b)
<1>1. (-a) * b = -(a * b) /\ a * (-b) = -(a * b) /\ (-a) * (-b) = a * b
  OBVIOUS
<1>2. a * b \in Int OBVIOUS
<1>3. CASE a >= 0 /\ b >= 0
  <2>1. a * b >= 0 BY <1>3, MulPos
  <2>2. QED BY <1>2, <1>3, <2>1 DEF Mag
<1>4. CASE a < 0 /\ b < 0
  <2>1. (-a) * (-b) >= 0 BY <1>4, MulPos
  <2>2. QED BY <1>1, <1>2, <1>4, <2>1 DEF Mag
<1>5. CASE a < 0 /\ b >= 0
  <2>1. (-a) * b >= 0 BY <1>5, MulPos
  <2>2. Mag(a) = -a /\ Mag(b) = b BY <1>5 DEF Mag
  <2>3. Mag(a * b) = -(a * b) BY <1>1, <1>2, <2>1 DEF Mag
  <2>4. QED BY <1>1, <2>2, <2>3
<1>6. CASE a >= 0 /\ b < 0
  <2>1. (-b) * a >= 0 BY <1>6, MulPos
  <2>2. Mag(a) = a /\ Mag(b) = -b BY <1>6 DEF Mag
  <2>3. (-b) * a = -(a * b) OBVIOUS
  <2>4. Mag(a * b) = -(a * b) BY <1>2, <2>1, <2>3 DEF Mag
  <2>5. QED BY <1>1, <2>2, <2>4
<1>7. QED BY <1>3, <1>4, <1>5, <1>6

LEMMA ScaleInequality ==
  ASSUME NEW a \in Int, NEW b \in Int, NEW c \in Nat, a <= b
  PROVE  a * c <= b * c
<1>1. CASE c = 0 BY <1>1
<1>2. CASE c > 0
  <2>1. c * (b - a) >= 0 BY <1>2, MulPos
  <2>2. c * (b - a) = b * c - a * c OBVIOUS
  <2>3. a * c \in Int /\ b * c \in Int OBVIOUS
  <2>4. QED BY <2>1, <2>2, <2>3
<1>3. QED BY <1>1, <1>2

QuoFromRegisters == Returned("Quo") => y # 0 /\ r = Quo(x, y)

\* Quo is within half a unit and one P-th of a unit of the exact quotient, at
\* every precision and for operands of every size and sign.
THEOREM QuoIsAccurate == TextSpec => []QuoErrorBounded
<1>1. TextInit => QuoFromRegisters BY DEF TextInit, DecInit, QuoFromRegisters, Returned
<1>2. QuoFromRegisters /\ [TextNext]_textVars => QuoFromRegisters'
  <2>1. QuoFromRegisters /\ [DecNext]_decVars => QuoFromRegisters'
    BY DEF QuoFromRegisters, Returned, DecNext, decVars, Call, Panic, Result,
           Divides
  <2>2. Reading => QuoFromRegisters' BY DEF Reading, QuoFromRegisters, Returned
  <2>3. QED BY <2>1, <2>2, TextStep
<1>3. DecTypeOK /\ QuoFromRegisters => QuoErrorBounded
  <2> SUFFICES ASSUME DecTypeOK, y # 0, r = Quo(x, y)
               PROVE  2 * Mag(P * r * y - P * P * x) < (P + 2) * Mag(y)
    BY DEF QuoFromRegisters, QuoErrorBounded
  <2> DEFINE n == x * P * P
             t == QuoInt(n, y)
             e == P * r - t
  <2>1. x \in Int /\ y \in Int /\ r \in Int /\ P \in Int
    BY DecAssumption DEF DecTypeOK
  <2>2. n \in Int /\ P * P * x = n /\ P * r \in Int
    BY <2>1, ProductOfIntegers
  <2>3. t \in Int /\ Mag(t * y - n) < Mag(y) BY <2>1, <2>2, QuoIntBounds
  <2>4. r = chopPrecisionAndRound(t) BY DEF Quo
  <2>5. e \in Int /\ 2 * Mag(e) <= P BY <2>1, <2>2, <2>3, <2>4, ChopRounds
  <2>6. P * r * y = e * y + t * y BY <2>1, <2>2, <2>3
  <2> HIDE DEF n, t, e
  <2>7. Mag(y) \in Nat /\ Mag(e) \in Nat BY <2>1, <2>5 DEF Mag
  <2>8. 2 * Mag(e * y) <= P * Mag(y)
    <3>1. Mag(e * y) = Mag(e) * Mag(y) BY <2>1, <2>5, AbsOfProduct
    <3>2. (2 * Mag(e)) * Mag(y) <= P * Mag(y)
      BY <2>1, <2>5, <2>7, ScaleInequality
    <3>3. (2 * Mag(e)) * Mag(y) = 2 * (Mag(e) * Mag(y)) BY <2>7
    <3>4. QED BY <3>1, <3>2, <3>3
  <2>9. (P + 2) * Mag(y) = P * Mag(y) + 2 * Mag(y) BY <2>1, <2>7
  <2>10. e * y \in Int /\ t * y \in Int /\ P * Mag(y) \in Int
    BY <2>1, <2>3, <2>5, <2>7, ProductOfIntegers
  <2> DEFINE u == e * y
             v == t * y
             w == P * Mag(y)
  <2>11. /\ u \in Int /\ v \in Int /\ w \in Int /\ 2 * Mag(u) <= w
         /\ Mag(v - n) < Mag(y) /\ P * r * y = u + v
         /\ (P + 2) * Mag(y) = w + 2 * Mag(y)
    BY <2>3, <2>6, <2>8, <2>9, <2>10
  <2> HIDE DEF u, v, w
  <2>12. Mag(u + v - n) <= Mag(u) + Mag(v - n) BY <2>2, <2>11 DEF Mag
  <2>13. Mag(u + v - n) \in Int /\ Mag(u) \in Int /\ Mag(v - n) \in Int
    BY <2>2, <2>11 DEF Mag
  <2>14. 2 * Mag(u + v - n) < w + 2 * Mag(y)
    BY <2>7, <2>11, <2>12, <2>13
  <2>15. QED BY <2>2, <2>11, <2>14
<1>4. QED BY <1>1, <1>2, <1>3, DecTypeCorrect, PTL DEF TextSpec
-----------------------------------------------------------------------------
\* A whole number of units, divided by the unit.
LEMMA QuoIntExact ==
  ASSUME NEW k \in Int
  PROVE  QuoInt(k * P, P) = k
<1> DEFINE z == k * P
<1>1. P \in Int /\ P > 0 /\ z \in Int /\ Mag(P) = P
  BY DecAssumption DEF Mag
<1>2. CASE k >= 0
  <2>1. z >= 0 /\ z = P * k
    BY <1>1, <1>2, MulPos
  <2>2. z \div P = k
    BY <1>1, <2>1, DivExact
  <2> HIDE DEF z
  <2>3. QuoInt(z, P) = z \div P
    BY <1>1, <2>1 DEF QuoInt, Mag
  <2> QED
    BY <2>2, <2>3 DEF z
<1>3. CASE k < 0
  <2>1. P * k <= -P /\ z = P * k /\ -z = P * (-k)
    BY <1>1, <1>3, MulNeg
  <2>2. (-z) \div P = -k /\ z < 0
    BY <1>1, <2>1, DivExact
  <2> HIDE DEF z
  <2>3. QuoInt(z, P) = -((-z) \div P)
    BY <1>1, <2>2 DEF QuoInt, Mag
  <2> QED
    BY <2>2, <2>3 DEF z
<1> QED
  BY <1>2, <1>3

CeilFromRegisters == Returned("Ceil") => r = Ceil(x)

LEMMA CeilStays == TextSpec => []CeilFromRegisters
<1>1. TextInit => CeilFromRegisters
  BY DEF TextInit, DecInit, CeilFromRegisters, Returned
<1>2. CeilFromRegisters /\ [TextNext]_textVars => CeilFromRegisters'
  <2> SUFFICES ASSUME CeilFromRegisters, [TextNext]_textVars
               PROVE  CeilFromRegisters'
    OBVIOUS
  <2>1. CASE UNCHANGED decVars
    BY <2>1 DEF decVars, CeilFromRegisters, Returned
  <2>2. ASSUME NEW o \in Ops, NEW b \in Arguments(o), Call(o, b)
        PROVE  CeilFromRegisters'
    BY <2>2 DEF CeilFromRegisters, Returned, Call, Result, Divides
  <2>3. ASSUME NEW o \in Ops, NEW b \in Arguments(o), Panic(o, b)
        PROVE  CeilFromRegisters'
    BY <2>3 DEF CeilFromRegisters, Returned, Panic
  <2>4. CASE Reading
    BY <2>4 DEF Reading, CeilFromRegisters, Returned
  <2> QED
    BY <2>1, <2>2, <2>3, <2>4, TextStep DEF DecNext
<1> QED
  BY <1>1, <1>2, PTL DEF TextSpec

\* Ceil is the least whole decimal not below its argument, also below zero.
THEOREM CeilIsTheLeast == TextSpec => []CeilIsLeast
<1>1. DecTypeOK /\ CeilFromRegisters => CeilIsLeast
  <2> SUFFICES ASSUME DecTypeOK, CeilFromRegisters, Returned("Ceil")
               PROVE  r >= x /\ r - x < P /\ IsInteger(r)
    BY DEF CeilIsLeast
  <2> DEFINE q == QuoInt(x, P)
             z == P * q
             k == q + (IF RemInt(x, P) > 0 THEN 1 ELSE 0)
  <2>1. x \in Int /\ P \in Nat /\ P > 0 /\ Mag(P) = P
    BY DecAssumption DEF DecTypeOK, Mag
  <2>2. /\ q \in Int /\ z \in Int /\ RemInt(x, P) = x - z
        /\ (q + 1) * P = z + P /\ q * P = z
    <3>1. q \in Int
      BY <2>1, QuoIntBounds
    <3>2. RemInt(x, P) = x - P * q
      BY DEF RemInt
    <3> HIDE DEF q
    <3> QED
      BY <2>1, <3>1, <3>2
  <2>3. r = k * P /\ k \in Int
    BY <2>2 DEF CeilFromRegisters, Ceil
  <2>4. /\ x >= 0 => z <= x /\ x < z + P
        /\ x < 0  => x <= z /\ z < x + P
    <3>1. CASE x >= 0
      <4>1. q = x \div P
        BY <2>1, <3>1 DEF QuoInt, Mag
      <4>2. q \in Int /\ x % P \in 0..(P - 1) /\ x = z + (x % P)
        BY <2>1, <4>1, DivMod
      <4> HIDE DEF z
      <4> QED
        BY <2>1, <2>2, <3>1, <4>2
    <3>2. CASE x < 0
      <4> DEFINE d == (-x) \div P
                 u == P * d
      <4>1. q = -d
        BY <2>1, <3>2 DEF QuoInt, Mag
      <4>2. d \in Int /\ u \in Int /\ -x = u + ((-x) % P) /\ (-x) % P \in 0..(P - 1)
        BY <2>1, DivMod
      <4>3. z = -u
        BY <2>1, <4>1, <4>2
      <4> HIDE DEF u, z, d
      <4> QED
        BY <2>1, <3>2, <4>2, <4>3
    <3> QED
      BY <2>1, <3>1, <3>2
  <2>5. IsInteger(r)
    <3>1. QuoInt(r, P) = k
      BY <2>3, QuoIntExact
    <3>2. P * k = k * P /\ r \in Int
      BY <2>1, <2>3
    <3> QED
      BY <2>3, <3>1, <3>2 DEF IsInteger, RemInt
  <2>6. r = IF x - z > 0 THEN z + P ELSE z
    BY <2>2, <2>3
  <2>7. z \in Int /\ x \in Int /\ P \in Int
    BY <2>1, <2>2
  <2> HIDE DEF z, k, q
  <2>8. r >= x /\ r - x < P
    BY <2>4, <2>6, <2>7
  <2> QED
    BY <2>5, <2>8
<1> QED
  BY <1>1, CeilStays, DecTypeCorrect, PTL
=============================================================================
