---------------------------- MODULE BalanceRing ----------------------------
(***************************************************************************)
(* The scheduling side of balance-monitoring: cron starts upload.sh every  *)
(* five minutes, every third run takes a capture into a directory named by *)
(* the hour and minute, which comes round again a day later, and every run *)
(* writes the reports from the captures it finds. Runs may overlap, be     *)
(* late, be missed or die; nothing locks them out of each other's files.   *)
(* Time is counted in ticks of five minutes.                               *)
(***************************************************************************)
EXTENDS Integers, FiniteSets

CONSTANTS Run,          \* bound: runs of upload.sh alive at once
          HourTicks,    \* ticks of an hour (12), a multiple of SlotTicks
          DayHours,     \* hours of a day (24)
          QuadHours,    \* hours of quadly.sh's report (4)
          Lines,        \* addresses to check: lines of a complete capture
          MaxTime,      \* bound: ticks
          MaxMissed     \* bound: cron runs that do not happen, and reboots

SlotTicks == 3          \* "% 15" of a date in minutes

ASSUME RingAssumption ==
  /\ HourTicks \in Nat \ {0} /\ HourTicks % SlotTicks = 0
  /\ DayHours \in Nat \ {0, 1} /\ QuadHours \in 1..(DayHours - 1)
  /\ Lines \in Nat \ {0} /\ MaxTime \in Nat /\ MaxMissed \in Nat

VARIABLES
  now,        \* the time in ticks
  fired,      \* has cron started (or missed) this tick's run?
  missed,     \* runs missed and reboots so far
  late,       \* has a run outlived its time? (history, see OnTime)
  pc, began,  \* per run: its next script, the tick it, or its check, started
  place, left,\* per run: the directory of its check and the addresses left
  stamp,      \* generated/hour.txt and minute.txt
  balances,   \* captures/hour/minute/balances.txt
  temp,       \* captures/hour/minute/temp.txt, yesterday's
  report      \* what the last script compared

runs  == <<pc, began, place, left>>
files == <<stamp, balances, temp>>
ringVars == <<now, fired, missed, late, runs, files, report>>

Hours   == 0..(DayHours - 1)
Minutes == 0..(HourTicks - 1)
Dirs    == Hours \X Minutes

DirOf(t)   == <<(t \div HourTicks) % DayHours, t % HourTicks>>
NoFile     == [at |-> -1, lines |-> 0]
File(d)    == IF d \in Dirs THEN balances[d] ELSE NoFile   \* "-10" is no directory
IsSlot(t)  == t % SlotTicks = 0

PrevHour(h, n) == (h - n) % DayHours

\* Mutant: the minute wraps and the hour does not.
offlinePrevSameHour(d) == <<d[1], (d[2] - SlotTicks) % HourTicks>>

\* The directory each script compares the current one with.
offlinePrev(d) == IF d[2] = 0 THEN <<PrevHour(d[1], 1), HourTicks - SlotTicks>>
                  ELSE <<d[1], d[2] - SlotTicks>>
hourlyPrev(d) == <<PrevHour(d[1], 1), d[2]>>
quadlyPrev(d) == <<PrevHour(d[1], QuadHours), d[2]>>

Scripts == {"offline", "hourly", "quadly", "daily", "totally"}
After == [offline |-> "hourly", hourly |-> "quadly", quadly |-> "daily",
          daily |-> "totally", totally |-> "idle"]

\* What a script finds there: daily.sh the capture check.sh moved aside,
\* totally.sh asks for none.
Previous(script) ==
  CASE script = "offline" -> File(offlinePrev(stamp))
    [] script = "hourly"  -> File(hourlyPrev(stamp))
    [] script = "quadly"  -> File(quadlyPrev(stamp))
    [] script = "daily"   -> temp[stamp]
    [] script = "totally" -> NoFile

\* With what a reader of the report would like to know: which checks are
\* filling the current capture meanwhile.
Compared(script) ==
  [script |-> script, cur |-> File(stamp), prev |-> Previous(script),
   scanning |-> {r \in Run : pc[r] = "scan" /\ place[r] = stamp}]

NoReport == [script |-> "none", cur |-> NoFile, prev |-> NoFile, scanning |-> {}]
-----------------------------------------------------------------------------
Idle == [r \in Run |-> "idle"]
NoTick == [r \in Run |-> 0]
NoPlace == [r \in Run |-> <<0, 0>>]

\* A fresh deployment: captures/00/00 is about to be taken.
Init ==
  /\ now = 0 /\ fired = FALSE /\ missed = 0 /\ late = FALSE
  /\ pc = Idle /\ began = NoTick /\ place = NoPlace /\ left = NoTick
  /\ stamp = <<0, 0>>
  /\ balances = [d \in Dirs |-> NoFile] /\ temp = [d \in Dirs |-> NoFile]
  /\ report = NoReport

\* A run keeps its time when the list of addresses arrives within the tick and
\* its reports are out before a last run of a slot, which cleans up, starts.
OnTime(r) == pc[r] = "idle"
             \/ (pc[r] # "fetch" /\ (now + 1) % SlotTicks # SlotTicks - 1)

\* Five minutes pass; cron has dealt with the tick that ends.
Tick ==
  /\ now < MaxTime /\ fired
  /\ now' = now + 1 /\ fired' = FALSE
  /\ late' = (late \/ \E r \in Run : ~OnTime(r))
  /\ UNCHANGED <<missed, runs, files, report>>

\* upload.sh asks the date, then checks or goes straight to the reports.
StartRun(r) ==
  /\ ~fired /\ pc[r] = "idle"
  /\ fired' = TRUE
  /\ pc' = [pc EXCEPT ![r] = IF IsSlot(now) THEN "fetch" ELSE "hourly"]
  /\ began' = [began EXCEPT ![r] = now]
  /\ UNCHANGED <<now, missed, late, place, left, files, report>>

\* cron is down for this tick.
MissRun ==
  /\ ~fired /\ missed < MaxMissed
  /\ fired' = TRUE /\ missed' = missed + 1
  /\ UNCHANGED <<now, late, runs, files, report>>

\* Mutant: yesterday's capture copied, not moved.
BeginCheckCopies(r) ==
  LET d == DirOf(now) IN
  /\ pc[r] = "fetch"
  /\ pc' = [pc EXCEPT ![r] = "scan"]
  /\ began' = [began EXCEPT ![r] = now]
  /\ place' = [place EXCEPT ![r] = d] /\ left' = [left EXCEPT ![r] = Lines]
  /\ stamp' = d
  /\ temp' = [temp EXCEPT ![d] = balances[d]]
  /\ UNCHANGED <<now, fired, missed, late, balances, report>>

\* check.sh when the list of addresses has arrived: it dates itself, moves
\* yesterday's capture aside and starts an empty one. A capture is of the time
\* its check dates itself.
BeginCheck(r) ==
  LET d == DirOf(now) IN
  /\ pc[r] = "fetch"
  /\ pc' = [pc EXCEPT ![r] = "scan"]
  /\ began' = [began EXCEPT ![r] = now]
  /\ place' = [place EXCEPT ![r] = d] /\ left' = [left EXCEPT ![r] = Lines]
  /\ stamp' = d
  /\ IF balances[d] = NoFile THEN UNCHANGED <<balances, temp>>
     ELSE /\ temp' = [temp EXCEPT ![d] = balances[d]]
          /\ balances' = [balances EXCEPT ![d] = [at |-> now, lines |-> 0]]
  /\ UNCHANGED <<now, fired, missed, late, report>>

\* Mutant: a last line without a newline is not read.
CheckAddressDropsLast(r) ==
  LET d == place[r]  created == IF balances[d] = NoFile THEN began[r] ELSE balances[d].at IN
  /\ pc[r] = "scan"
  /\ balances' = [balances EXCEPT ![d] = [at |-> created, lines |-> @.lines + 1]]
  /\ left' = [left EXCEPT ![r] = @ - 1]
  /\ pc' = IF left[r] = 2 THEN [pc EXCEPT ![r] = "offline"] ELSE pc
  /\ UNCHANGED <<now, fired, missed, late, began, place, stamp, temp, report>>

\* One turn of check.sh's loop: the balance, or "-1 0", is appended; the first
\* line creates a file that was not there.
CheckAddress(r) ==
  LET d == place[r]  created == IF balances[d] = NoFile THEN began[r] ELSE balances[d].at IN
  /\ pc[r] = "scan"
  /\ balances' = [balances EXCEPT ![d] = [at |-> created, lines |-> @.lines + 1]]
  /\ left' = [left EXCEPT ![r] = @ - 1]
  /\ pc' = IF left[r] = 1 THEN [pc EXCEPT ![r] = "offline"] ELSE pc
  /\ UNCHANGED <<now, fired, missed, late, began, place, stamp, temp, report>>

\* Mutant: daily.sh cleans up one run too early.
RunScriptCleansEarly(r) ==
  /\ pc[r] \in Scripts
  /\ report' = Compared(pc[r])
  /\ temp' = IF pc[r] = "daily" /\ now % SlotTicks = SlotTicks - 2
             THEN [temp EXCEPT ![stamp] = NoFile] ELSE temp
  /\ pc' = [pc EXCEPT ![r] = After[pc[r]]]
  /\ IF After[pc[r]] = "idle"
     THEN /\ place' = [place EXCEPT ![r] = <<0, 0>>] /\ began' = [began EXCEPT ![r] = 0]
     ELSE UNCHANGED <<place, began>>
  /\ UNCHANGED <<now, fired, missed, late, left, stamp, balances>>

\* offline.sh, hourly.sh, quadly.sh, daily.sh and totally.sh in that order, of
\* the capture hour.txt and minute.txt name by then; daily.sh deletes
\* yesterday's capture in the last run before the next slot.
RunScript(r) ==
  /\ pc[r] \in Scripts
  /\ report' = Compared(pc[r])
  /\ temp' = IF pc[r] = "daily" /\ now % SlotTicks = SlotTicks - 1
             THEN [temp EXCEPT ![stamp] = NoFile] ELSE temp
  /\ pc' = [pc EXCEPT ![r] = After[pc[r]]]
  /\ IF After[pc[r]] = "idle"
     THEN /\ place' = [place EXCEPT ![r] = <<0, 0>>] /\ began' = [began EXCEPT ![r] = 0]
     ELSE UNCHANGED <<place, began>>
  /\ UNCHANGED <<now, fired, missed, late, left, stamp, balances>>

\* The machine reboots: every run dies where it is.
Reboot ==
  /\ missed < MaxMissed
  /\ missed' = missed + 1
  /\ \E r \in Run : pc[r] # "idle"
  /\ pc' = Idle /\ began' = NoTick /\ place' = NoPlace /\ left' = NoTick
  /\ UNCHANGED <<now, fired, late, files, report>>

Next ==
  \/ Tick \/ MissRun \/ Reboot
  \/ \E r \in Run : StartRun(r) \/ BeginCheck(r) \/ CheckAddress(r) \/ RunScript(r)

Spec == Init /\ [][Next]_ringVars
-----------------------------------------------------------------------------
(* Properties. *)

Day == HourTicks * DayHours
Interval == [offline |-> SlotTicks, hourly |-> HourTicks,
             quadly |-> HourTicks * QuadHours, daily |-> Day]
Compares == /\ report.script \in DOMAIN Interval
            /\ report.cur # NoFile /\ report.prev # NoFile
Apart == report.cur.at - report.prev.at

\* Whatever runs were missed or killed, as long as those that live keep their
\* time, the captures a report compares are apart by its interval, or by whole
\* days more where a capture of the ring was not renewed: a script is never
\* handed the capture of another time of day, nor one later than the current.
IntervalUpToDays ==
  Compares /\ ~late => Apart >= Interval[report.script]
                       /\ (Apart - Interval[report.script]) % Day = 0

\* With no run missed nor late, the intervals are exact and yesterday's capture
\* is still there for every 24 hour report of the slot: daily.sh's clean-up
\* comes after the last reader.
ReportsAreComplete ==
  report.script \in DOMAIN Interval /\ missed = 0 /\ ~late
  /\ report.cur # NoFile /\ report.cur.at >= Interval[report.script]
    => report.prev # NoFile /\ Apart = Interval[report.script]

\* A report made from an unfinished capture was made while a check was filling
\* it, or after a reboot: however runs overlap, a finished capture is whole.
PartialOnlyWhileScanning ==
  report.cur # NoFile /\ report.cur.lines < Lines /\ missed = 0
    => report.scanning # {}

\* No address is captured twice in a file while the checks keep their time: a
\* check that waits for its list until the next slot writes to that slot's file.
NoDoubleCapture == ~late => \A d \in Dirs : balances[d].lines <= Lines
=============================================================================
