--------------------------- MODULE BridgeWatchdog ---------------------------
(***************************************************************************)
(* The polling loop of the bridge watchdog (monitorNetwork in root.go),    *)
(* the two balances it compares, and the PagerDuty service it calls.       *)
(* One action per blocking call of the loop: between two of them the       *)
(* bridge may move, the 200 s ticker may fire and the daemon may die.      *)
(* Balances are whole tokens (the fixed-point arithmetic is module         *)
(* DecimalArith); a call's outcome is a free choice of the outside world.    *)
(***************************************************************************)
EXTENDS Integers

CONSTANTS
  Expected,        \* the --balance flag: what both sides must add up to
  Threshold,       \* deviations up to this one are tolerated (10 in the code)
  Backoff,         \* tryAgainCounter after a failure (10)
  EtherFailLimit,  \* etherFailCounter is logged and reset above this (6)
  ReportLimit,     \* reportCounter must exceed this for a report (6)
  MaxSide,         \* bound: the largest balance of one side
  Amounts,         \* bound: how much one side may change at once
  MaxDrift,        \* bound: movement of the BNB side between the two reads
  MaxAge           \* bound: ticks after which an outage is no longer told apart

ASSUME ConstantsAssumption ==
  /\ Expected \in Nat
  /\ Threshold \in Nat
  /\ Backoff \in Nat /\ Backoff > 0
  /\ EtherFailLimit \in Nat
  /\ ReportLimit \in Nat
  /\ MaxSide \in Nat
  /\ Amounts \subseteq Int
  /\ MaxDrift \in Nat
  /\ MaxAge \in Nat

VARIABLES
  bnbSide, ethSide,   \* the real balances of the two bridge accounts
  tick,               \* does the ticker's one-place channel hold a tick?
  pc,                 \* the call the loop is blocked in
  reportCounter, tryAgainCounter, etherFailCounter,
  wifiDowntime,       \* ticks since the time stored in it, NoTime when zero
  bnb,                \* the balance read from bnbcli in this iteration
  diff, lastDiff,
  delivered, lost,    \* PagerDuty: last deviation accepted, last call refused?
  drift, trueDiff     \* history: movement since bnb was read, deviation then

bridge   == <<bnbSide, ethSide>>
counters == <<reportCounter, tryAgainCounter, etherFailCounter>>
pager    == <<delivered, lost>>
vars == <<bridge, tick, pc, counters, wifiDowntime, bnb, diff, lastDiff,
          pager, drift, trueDiff>>

Abs(n) == IF n < 0 THEN -n ELSE n
NoTime == -1                       \* time.Time{}.IsZero()
Sides  == 0..MaxSide

DeviationOf(b, e) == Abs(b + e - Expected)
Deviation == DeviationOf(bnbSide, ethSide)

Init ==
  /\ bnbSide \in Sides /\ ethSide \in Sides
  /\ pc = "down"
  /\ tick = FALSE
  /\ reportCounter = 0 /\ tryAgainCounter = 0 /\ etherFailCounter = 0
  /\ wifiDowntime = NoTime
  /\ bnb = 0 /\ diff = 0 /\ lastDiff = 0
  /\ drift = 0 /\ trueDiff = 0
  /\ delivered = 0 /\ lost = FALSE
-----------------------------------------------------------------------------
(* The service. *)

Start ==
  /\ pc = "down"
  /\ pc' = "idle"
  /\ UNCHANGED <<bridge, tick, counters, wifiDowntime, bnb, diff, lastDiff,
                 pager, drift, trueDiff>>

\* A signal, a panic or a reboot: whatever the loop remembered is gone.
Stop ==
  /\ pc # "down"
  /\ pc' = "down"
  /\ tick' = FALSE
  /\ reportCounter' = 0 /\ tryAgainCounter' = 0 /\ etherFailCounter' = 0
  /\ wifiDowntime' = NoTime
  /\ bnb' = 0 /\ diff' = 0 /\ lastDiff' = 0
  /\ drift' = 0 /\ trueDiff' = 0
  /\ UNCHANGED <<bridge, pager>>

\* time.Tick drops a tick that finds the channel full; only time goes on.
Clock ==
  /\ pc # "down"
  /\ tick' = TRUE
  /\ wifiDowntime' = IF wifiDowntime \in 0..(MaxAge - 1)
                     THEN wifiDowntime + 1 ELSE wifiDowntime
  /\ UNCHANGED <<bridge, pc, counters, bnb, diff, lastDiff, pager, drift,
                 trueDiff>>
-----------------------------------------------------------------------------
(* The loop. *)

\* reportCounter++; only "> ReportLimit" is ever asked of it.
CountReport ==
  reportCounter' = IF reportCounter > ReportLimit
                   THEN reportCounter ELSE reportCounter + 1

\* An iteration that is spent waiting.
SkipTick ==
  /\ pc = "idle" /\ tick
  /\ tryAgainCounter > 1
  /\ tick' = FALSE
  /\ tryAgainCounter' = tryAgainCounter - 1
  /\ CountReport
  /\ UNCHANGED <<bridge, pc, etherFailCounter, wifiDowntime, bnb, diff,
                 lastDiff, pager, drift, trueDiff>>

\* An iteration that goes to the network.
BeginProbe ==
  /\ pc = "idle" /\ tick
  /\ tryAgainCounter <= 1
  /\ tick' = FALSE
  /\ tryAgainCounter' = 0
  /\ CountReport
  /\ pc' = "wifi"
  /\ UNCHANGED <<bridge, etherFailCounter, wifiDowntime, bnb, diff, lastDiff,
                 pager, drift, trueDiff>>

\* Mutants of GiveUp: a back-off one iteration too short, or too long.
GiveUpShort ==
  /\ tryAgainCounter' = Backoff - 1
  /\ pc' = "idle"
  /\ bnb' = 0 /\ drift' = 0
GiveUpLong ==
  /\ tryAgainCounter' = Backoff + 1
  /\ pc' = "idle"
  /\ bnb' = 0 /\ drift' = 0

\* Every failure ends the iteration the same way.
GiveUp ==
  /\ tryAgainCounter' = Backoff
  /\ pc' = "idle"
  /\ bnb' = 0 /\ drift' = 0

GoogleFails ==
  /\ pc = "wifi"
  /\ wifiDowntime' = 0
  /\ GiveUp
  /\ UNCHANGED <<bridge, tick, reportCounter, etherFailCounter, diff, lastDiff,
                 pager, trueDiff>>

\* Mutant: the downtime is not cleared.
GoogleAnswersNoReset ==
  /\ pc = "wifi"
  /\ pc' = "bnb"
  /\ UNCHANGED <<bridge, tick, counters, wifiDowntime, bnb, diff, lastDiff,
                 pager, drift, trueDiff>>

GoogleAnswers ==
  /\ pc = "wifi"
  /\ wifiDowntime' = NoTime
  /\ pc' = "bnb"
  /\ UNCHANGED <<bridge, tick, counters, bnb, diff, lastDiff, pager, drift,
                 trueDiff>>

\* Mutant: the missing "continue", ZeroDec() goes on as the balance.
BnbFailsOn ==
  /\ pc = "bnb"
  /\ bnb' = 0 /\ drift' = 0
  /\ pc' = "ether"
  /\ UNCHANGED <<bridge, tick, counters, wifiDowntime, diff, lastDiff, pager,
                 trueDiff>>

BnbFails ==
  /\ pc = "bnb"
  /\ GiveUp
  /\ UNCHANGED <<bridge, tick, reportCounter, etherFailCounter, wifiDowntime,
                 diff, lastDiff, pager, trueDiff>>

BnbAnswers ==
  /\ pc = "bnb"
  /\ bnb' = bnbSide
  /\ drift' = 0
  /\ pc' = "ether"
  /\ UNCHANGED <<bridge, tick, counters, wifiDowntime, diff, lastDiff, pager,
                 trueDiff>>

\* Mutants of EtherFails: the counter is never reset, or reset one too early.
EtherFailsNoReset ==
  /\ pc = "ether"
  /\ etherFailCounter' = etherFailCounter + 1
  /\ GiveUp
  /\ UNCHANGED <<bridge, tick, reportCounter, wifiDowntime, diff, lastDiff,
                 pager, trueDiff>>
EtherFailsEarly ==
  /\ pc = "ether"
  /\ etherFailCounter' = IF etherFailCounter + 1 >= EtherFailLimit
                         THEN 0 ELSE etherFailCounter + 1
  /\ GiveUp
  /\ UNCHANGED <<bridge, tick, reportCounter, wifiDowntime, diff, lastDiff,
                 pager, trueDiff>>

\* The request or the page it returns is no good.
EtherFails ==
  /\ pc = "ether"
  /\ etherFailCounter' = IF etherFailCounter + 1 > EtherFailLimit
                         THEN 0 ELSE etherFailCounter + 1
  /\ GiveUp
  /\ UNCHANGED <<bridge, tick, reportCounter, wifiDowntime, diff, lastDiff,
                 pager, trueDiff>>

\* Mutants of EtherAnswers: lastDiff set before the page is sent; every
\* deviation paged; a healthy balance that does not clear lastDiff.
EtherAnswersWith(pages, early, clears) ==
  LET d == DeviationOf(bnb, ethSide) IN
  /\ pc = "ether"
  /\ etherFailCounter' = 0
  /\ reportCounter' = IF reportCounter > ReportLimit THEN 0 ELSE reportCounter
  /\ bnb' = 0
  /\ IF d > Threshold /\ (pages \/ d # lastDiff)
     THEN /\ pc' = "notify" /\ diff' = d /\ trueDiff' = Deviation
          /\ lastDiff' = IF early THEN d ELSE lastDiff
          /\ UNCHANGED drift
     ELSE /\ pc' = "idle" /\ drift' = 0
          /\ lastDiff' = IF d > Threshold \/ ~clears THEN lastDiff ELSE 0
          /\ UNCHANGED <<diff, trueDiff>>
  /\ UNCHANGED <<bridge, tick, tryAgainCounter, wifiDowntime, pager>>
EtherAnswersEarly  == EtherAnswersWith(FALSE, TRUE, TRUE)
EtherAnswersAlways == EtherAnswersWith(TRUE, FALSE, TRUE)
EtherAnswersSticky == EtherAnswersWith(FALSE, FALSE, FALSE)

\* The EtherScan balance is the last thing read; what follows is local.
EtherAnswers ==
  LET d == DeviationOf(bnb, ethSide) IN
  /\ pc = "ether"
  /\ etherFailCounter' = 0
  /\ reportCounter' = IF reportCounter > ReportLimit THEN 0 ELSE reportCounter
  /\ bnb' = 0
  /\ \/ /\ d > Threshold /\ d # lastDiff
        /\ pc' = "notify"
        /\ diff' = d /\ trueDiff' = Deviation
        /\ UNCHANGED <<lastDiff, drift>>
     \/ /\ ~(d > Threshold /\ d # lastDiff)
        /\ pc' = "idle"
        /\ lastDiff' = IF d > Threshold THEN lastDiff ELSE 0
        /\ drift' = 0
        /\ UNCHANGED <<diff, trueDiff>>
  /\ UNCHANGED <<bridge, tick, tryAgainCounter, wifiDowntime, pager>>

\* The error of a refused event is printed and forgotten.
Notify(accepted) ==
  /\ pc = "notify"
  /\ delivered' = IF accepted THEN diff ELSE delivered
  /\ lost' = ~accepted
  /\ lastDiff' = diff
  /\ pc' = "idle"
  /\ diff' = 0 /\ trueDiff' = 0 /\ drift' = 0
  /\ UNCHANGED <<bridge, tick, counters, wifiDowntime, bnb>>
-----------------------------------------------------------------------------
(* The bridge moves whenever it likes. *)

BnbMoves(a) ==
  /\ bnbSide + a \in Sides
  /\ bnbSide' = bnbSide + a
  /\ IF pc = "ether"
     THEN drift + Abs(a) <= MaxDrift /\ drift' = drift + Abs(a)
     ELSE drift' = drift
  /\ UNCHANGED <<ethSide, tick, pc, counters, wifiDowntime, bnb, diff, lastDiff,
                 pager, trueDiff>>

EthMoves(a) ==
  /\ ethSide + a \in Sides
  /\ ethSide' = ethSide + a
  /\ UNCHANGED <<bnbSide, tick, pc, counters, wifiDowntime, bnb, diff, lastDiff,
                 pager, drift, trueDiff>>
-----------------------------------------------------------------------------
Fails  == GoogleFails \/ BnbFails \/ EtherFails
Loop   == \/ SkipTick \/ BeginProbe
          \/ GoogleFails \/ GoogleAnswers
          \/ BnbFails \/ BnbAnswers
          \/ EtherFails \/ EtherAnswers
          \/ \E accepted \in BOOLEAN : Notify(accepted)
BridgeMoves == \E a \in Amounts : BnbMoves(a) \/ EthMoves(a)

Next == Start \/ Stop \/ Clock \/ Loop \/ BridgeMoves

Spec == Init /\ [][Next]_vars

\* The ticker fires, the goroutine runs, and each outside call returns some
\* answer; a good answer, a restart or a quiet bridge is never assumed here.
FairSpec == Spec /\ WF_vars(Clock) /\ WF_vars(Loop)
-----------------------------------------------------------------------------
(* Properties. *)

\* Every variable keeps its type, the counters their ranges.
TypeOK ==
  /\ bnbSide \in Sides /\ ethSide \in Sides
  /\ tick \in BOOLEAN
  /\ pc \in {"down", "idle", "wifi", "bnb", "ether", "notify"}
  /\ reportCounter \in 0..(ReportLimit + 1)
  /\ tryAgainCounter \in 0..Backoff
  /\ etherFailCounter \in 0..EtherFailLimit
  /\ wifiDowntime \in {NoTime} \cup 0..MaxAge
  /\ bnb \in Sides
  /\ diff \in Nat /\ lastDiff \in Nat /\ trueDiff \in Nat /\ delivered \in Nat
  /\ lost \in BOOLEAN
  /\ drift \in 0..MaxDrift

\* The two balances are read one after the other, so a page can be wrong about
\* the bridge: but by no more than what the BNB side moved between the reads,
\* and not at all when it did not move, whatever the other side did.
MeasurementErrorBounded == pc = "notify" => Abs(diff - trueDiff) <= drift

\* What makes the bound inductive: between the two reads the BNB side is still
\* within the recorded movement of the balance that was read (bnbSide is read
\* by BnbAnswers, root.go:115, and used only at root.go:149).
DriftCoversMovement == pc = "ether" => Abs(bnbSide - bnb) <= drift

\* A deviation the loop will not page again has either reached PagerDuty or
\* was lost by the very last call to it: over restarts, failed probes and
\* deviations that come and go, the loop never silences itself otherwise.
SilencedOnlyIfTold == lastDiff # 0 => delivered = lastDiff \/ lost

\* Once the bridge rests, nothing fails and nobody stops the service, the loop
\* ends up holding exactly the deviation there is (none if it is tolerated).
Undisturbed == [][~(Fails \/ Start \/ Stop \/ BridgeMoves)]_vars
EventuallyAgrees ==
  <>Undisturbed =>
    <>[](pc # "down" =>
           lastDiff = IF Deviation > Threshold THEN Deviation ELSE 0)

\* What the operator sees is what MismatchAlert promises.
Alert == INSTANCE MismatchAlert WITH
           raised <- lastDiff, Deviation <- 0..(2 * MaxSide + Expected)
ImplementsAlert == Alert!Spec
=============================================================================
