---------------------------- MODULE BalanceProofs ----------------------------
(***************************************************************************)
(* balance-monitoring, for any addresses, runs, hours and slots. First the *)
(* ring of captures (BalanceRing): runs that keep their time never fill a  *)
(* capture twice, compare captures that are their interval apart, up to    *)
(* whole days, exactly so when no run is missed, and no run that lives     *)
(* leaves a capture unfinished, however late it is. Then what is said of   *)
(* the captures compared (BalanceReport): getdiff never joins the lines of *)
(* two addresses, whoever joins or leaves the list in between.             *)
(***************************************************************************)
EXTENDS BalanceRing, BalanceReport, DataLemmas, TLAPS

Checking == {"fetch", "scan"}
RingInv ==
  /\ now \in Nat /\ missed \in Nat
  /\ pc \in [Run -> {"idle"} \cup Checking \cup Scripts]
  /\ began \in [Run -> Nat]
  /\ place \in [Run -> Dirs]
  /\ left \in [Run -> 0..Lines]
  /\ \A r \in Run : pc[r] = "scan" => left[r] # 0
  /\ stamp \in Dirs
  /\ balances \in [Dirs -> [at : Int, lines : Nat]]

\* Only one run checks at a time, and begins at the start of a slot, which it
\* leaves before the last run of the slot starts.
AloneInv ==
  ~late =>
    /\ (now % SlotTicks = 2 \/ (IsSlot(now) /\ ~fired)) => \A r \in Run : pc[r] \notin Checking
    /\ \A r \in Run : pc[r] = "fetch" => IsSlot(now)
    /\ \A r, q \in Run : pc[r] \in Checking /\ pc[q] \in Checking => r = q

\* The lines that a run has left are those its capture lacks.
LinesInv ==
  ~late =>
    /\ NoDoubleCapture
    /\ \A r \in Run : pc[r] = "scan" => balances[place[r]].lines + left[r] = Lines

\* An unfinished capture has a run that will write what it lacks; while there is
\* no file nobody has written a line.
WholeInv ==
  missed = 0 =>
    /\ \A r \in Run : pc[r] = "scan" /\ balances[place[r]] = NoFile => left[r] = Lines
    /\ \A d \in Dirs :
         balances[d] = NoFile \/ balances[d].lines >= Lines
         \/ \E r \in Run : pc[r] = "scan" /\ place[r] = d /\ balances[d].lines + left[r] >= Lines

\* Captures of a time that is over and of their directory.
Dated(t, d) == t \in Nat /\ t <= now /\ DirOf(t) = d

\* The last check's capture is the latest, and yesterday's is earlier than today's.
TempInv == temp \in [Dirs -> [at : Int, lines : Nat]]
DateInv ==
  ~late =>
    /\ \A d \in Dirs : balances[d] # NoFile => Dated(balances[d].at, d)
    /\ \A d \in Dirs :
         temp[d] # NoFile => /\ Dated(temp[d].at, d)
                             /\ balances[d] # NoFile /\ temp[d].at < balances[d].at
    /\ \A r \in Run : pc[r] = "scan" =>
         /\ Dated(began[r], place[r]) /\ place[r] = stamp
         /\ \A d \in Dirs : balances[d] # NoFile => balances[d].at <= began[r]
         /\ balances[stamp] # NoFile => balances[stamp].at = began[r]
    /\ balances[stamp] # NoFile =>
         \A d \in Dirs : balances[d] # NoFile => balances[d].at <= balances[stamp].at

\* Before this tick's run has checked, all that was written is of earlier ticks.
EarlierInv ==
  ~late /\ (~fired \/ \E r \in Run : pc[r] = "fetch") =>
    /\ \A d \in Dirs : balances[d] # NoFile => balances[d].at < now
    /\ \A r \in Run : pc[r] = "scan" => began[r] < now

\* Captures are taken at the start of slots.
SlotInv ==
  ~late =>
    /\ \A d \in Dirs : balances[d] # NoFile => IsSlot(balances[d].at)
    /\ \A r \in Run : pc[r] = "scan" => IsSlot(began[r])

\* The slots whose check has dated itself, when no run was missed.
Begun(t) == /\ IsSlot(t) /\ t <= now
            /\ t = now => fired /\ \A r \in Run : pc[r] # "fetch"

\* A slot's check leaves a capture of its time in its directory, or of a later
\* day; only on the first day does it find none there.
CapturedInv ==
  missed = 0 /\ ~late =>
    /\ \A t \in Nat : Begun(t) =>
         \/ balances[DirOf(t)].at >= t
         \/ \E r \in Run : /\ pc[r] = "scan" /\ began[r] = t /\ place[r] = DirOf(t)
                           /\ balances[DirOf(t)] = NoFile
    /\ \A r \in Run : pc[r] = "scan" /\ balances[place[r]] = NoFile => began[r] < Day

\* The last run of a slot is alone.
LoneInv ==
  ~late /\ now % SlotTicks = 2 =>
    /\ ~fired => \A r \in Run : pc[r] = "idle"
    /\ \A r, q \in Run : pc[r] # "idle" /\ pc[q] # "idle" => r = q

\* Yesterday's capture is there until the last run of the slot has read it, and
\* then nobody reads it before the next check.
Kept == balances[stamp].at >= Day => temp[stamp].at = balances[stamp].at - Day
Cleaned ==
  \/ now % SlotTicks = 2 /\ fired /\ \A r \in Run : pc[r] \in {"idle", "totally"}
  \/ /\ IsSlot(now) /\ \A r \in Run : pc[r] \in {"idle", "totally", "fetch"}
     /\ ~fired \/ \E r \in Run : pc[r] = "fetch"
KeptInv == missed = 0 /\ ~late => Kept \/ Cleaned

LEMMA Constants ==
  /\ HourTicks \in Nat \ {0} /\ DayHours \in Nat \ {0, 1} /\ Lines \in Nat \ {0}
  /\ SlotTicks = 3
  /\ <<0, 0>> \in Dirs
  /\ \A t \in Nat : DirOf(t) \in Dirs
<1>1. HourTicks \in Nat \ {0} /\ DayHours \in Nat \ {0, 1} /\ Lines \in Nat \ {0}
  BY RingAssumption DEF RingAssumption
<1>2. <<0, 0>> \in Dirs
  BY <1>1 DEF Dirs, Hours, Minutes
<1>3. ASSUME NEW t \in Nat PROVE DirOf(t) \in Dirs
  <2> DEFINE h == t \div HourTicks
  <2>1. h \in Int /\ t % HourTicks \in 0..(HourTicks - 1)
    BY <1>1
  <2> HIDE DEF h
  <2>2. h % DayHours \in 0..(DayHours - 1)
    BY <1>1, <2>1
  <2> QED
    BY <2>1, <2>2 DEF DirOf, Dirs, Hours, Minutes, h
<1> QED
  BY <1>1, <1>2, <1>3 DEF SlotTicks

LEMMA ModThree ==
  ASSUME NEW n \in Nat, (n + 1) % 3 = 0 PROVE n % 3 = 2
OBVIOUS

LEMMA FileIs ==
  ASSUME NEW d \in Dirs PROVE File(d) = balances[d]
BY DEF File
-----------------------------------------------------------------------------
LEMMA RingInit == Init => RingInv /\ AloneInv /\ LinesInv /\ WholeInv
<1> SUFFICES ASSUME Init PROVE RingInv /\ AloneInv /\ LinesInv /\ WholeInv
  OBVIOUS
<1>1. NoFile \in [at : Int, lines : Nat] /\ NoFile.lines = 0
  BY DEF NoFile
<1>2. RingInv
  BY <1>1, Constants DEF Init, RingInv, Idle, NoTick, NoPlace
<1>3. AloneInv
  BY DEF Init, AloneInv, Idle, Checking
<1>4. LinesInv
  BY <1>1, Constants DEF Init, LinesInv, NoDoubleCapture, Idle
<1>5. WholeInv
  BY DEF Init, WholeInv, Idle
<1> QED
  BY <1>2, <1>3, <1>4, <1>5

LEMMA RingStep == RingInv /\ [Next]_ringVars => RingInv'
<1> SUFFICES ASSUME RingInv, [Next]_ringVars PROVE RingInv'
  OBVIOUS
<1> USE Constants
<1>1. CASE UNCHANGED ringVars
  BY <1>1 DEF ringVars, runs, files, RingInv
<1>2. CASE Tick \/ MissRun
  BY <1>2 DEF Tick, MissRun, RingInv, runs, files
<1>3. CASE Reboot
  BY <1>3 DEF Reboot, RingInv, files, Idle, NoTick, NoPlace
<1>4. ASSUME NEW r \in Run, StartRun(r) PROVE RingInv'
  BY <1>4 DEF StartRun, RingInv, files, Checking, Scripts
<1>5. ASSUME NEW r \in Run, BeginCheck(r) PROVE RingInv'
  <2>1. DirOf(now) \in Dirs
    BY DEF RingInv
  <2>2. balances' \in [Dirs -> [at : Int, lines : Nat]]
    <3>1. CASE balances[DirOf(now)] = NoFile
      BY <1>5, <3>1 DEF BeginCheck, RingInv
    <3>2. CASE balances[DirOf(now)] # NoFile
      <4>1. [at |-> now, lines |-> 0] \in [at : Int, lines : Nat]
        BY DEF RingInv
      <4> QED
        BY <1>5, <2>1, <3>2, <4>1 DEF BeginCheck, RingInv
    <3> QED
      BY <3>1, <3>2
  <2> QED
    BY <1>5, <2>1, <2>2 DEF BeginCheck, RingInv, Checking
<1>6. ASSUME NEW r \in Run, CheckAddress(r) PROVE RingInv'
  <2>1. place[r] \in Dirs /\ left[r] \in 1..Lines /\ began[r] \in Nat
    BY <1>6 DEF CheckAddress, RingInv
  <2>2. balances' \in [Dirs -> [at : Int, lines : Nat]]
    BY <1>6, <2>1 DEF CheckAddress, RingInv
  <2> QED
    BY <1>6, <2>1, <2>2 DEF CheckAddress, RingInv, Checking, Scripts
<1>7. ASSUME NEW r \in Run, RunScript(r) PROVE RingInv'
  <2>1. After[pc[r]] \in {"idle"} \cup Scripts
    BY <1>7 DEF RunScript, Scripts, After
  <2>2. place' \in [Run -> Dirs] /\ began' \in [Run -> Nat]
    <3>1. /\ place' = place \/ place' = [place EXCEPT ![r] = <<0, 0>>]
          /\ began' = began \/ began' = [began EXCEPT ![r] = 0]
      BY <1>7 DEF RunScript
    <3>2. place \in [Run -> Dirs] /\ began \in [Run -> Nat] /\ <<0, 0>> \in Dirs
      BY DEF RingInv
    <3>3. place' \in [Run -> Dirs]
      BY <3>1, <3>2
    <3>4. began' \in [Run -> Nat]
      BY <3>1, <3>2
    <3> QED
      BY <3>3, <3>4
  <2>3. pc' \in [Run -> {"idle"} \cup Checking \cup Scripts] /\ pc'[r] # "scan"
    BY <1>7, <2>1 DEF RunScript, RingInv, Scripts
  <2> QED
    BY <1>7, <2>2, <2>3 DEF RunScript, RingInv
<1> QED
  BY <1>1, <1>2, <1>3, <1>4, <1>5, <1>6, <1>7 DEF Next

LEMMA AloneStep == RingInv /\ AloneInv /\ [Next]_ringVars => AloneInv'
<1> SUFFICES ASSUME RingInv, AloneInv, [Next]_ringVars, ~late' PROVE AloneInv'
  BY DEF AloneInv
<1> USE Constants DEF IsSlot
<1>1. CASE UNCHANGED ringVars
  BY <1>1 DEF ringVars, runs, files, AloneInv
<1>2. CASE Tick
  <2>1. /\ ~late /\ pc' = pc /\ now' = now + 1 /\ ~fired'
        /\ \A r \in Run : OnTime(r)
    BY <1>2 DEF Tick, runs
  <2>2. \A r \in Run : pc[r] # "fetch"
    BY <2>1 DEF OnTime
  <2>3. (now + 1) % SlotTicks = 2 => \A r \in Run : pc[r] = "idle"
    BY <2>1 DEF OnTime
  <2>4. IsSlot(now + 1) => \A r \in Run : pc[r] \notin Checking
    <3>1. IsSlot(now + 1) => now % SlotTicks = 2
      BY ModThree DEF RingInv
    <3> QED
      BY <2>1, <3>1 DEF AloneInv
  <2> QED
    BY <2>1, <2>2, <2>3, <2>4 DEF AloneInv, RingInv, Checking
<1>3. CASE MissRun
  BY <1>3 DEF MissRun, AloneInv, runs
<1>4. CASE Reboot
  BY <1>4 DEF Reboot, AloneInv, Idle, Checking
<1>5. ASSUME NEW r \in Run, StartRun(r) PROVE AloneInv'
  <2>1. ~late /\ now' = now /\ fired' /\ ~fired /\ pc[r] = "idle"
    BY <1>5 DEF StartRun
  <2>2. CASE IsSlot(now)
    <3>1. \A q \in Run : pc[q] \notin Checking
      BY <2>1, <2>2 DEF AloneInv
    <3>2. now % SlotTicks # 2
      BY <2>2
    <3> QED
      BY <1>5, <2>1, <2>2, <3>1, <3>2 DEF StartRun, AloneInv, RingInv, Checking
  <2>3. CASE ~IsSlot(now)
    BY <1>5, <2>1, <2>3 DEF StartRun, AloneInv, RingInv, Checking
  <2> QED
    BY <2>2, <2>3
<1>6. ASSUME NEW r \in Run, BeginCheck(r) PROVE AloneInv'
  BY <1>6 DEF BeginCheck, AloneInv, RingInv, Checking
<1>7. ASSUME NEW r \in Run, CheckAddress(r) PROVE AloneInv'
  BY <1>7 DEF CheckAddress, AloneInv, RingInv, Checking
<1>8. ASSUME NEW r \in Run, RunScript(r) PROVE AloneInv'
  <2>1. After[pc[r]] \notin Checking /\ pc[r] \notin Checking
    BY <1>8 DEF RunScript, Scripts, After, Checking
  <2> QED
    BY <1>8, <2>1 DEF RunScript, AloneInv, RingInv, Checking
<1> QED
  BY <1>1, <1>2, <1>3, <1>4, <1>5, <1>6, <1>7, <1>8 DEF Next

LEMMA LinesStep == RingInv /\ AloneInv /\ LinesInv /\ [Next]_ringVars => LinesInv'
<1> SUFFICES ASSUME RingInv, AloneInv, LinesInv, [Next]_ringVars, ~late' PROVE LinesInv'
  BY DEF LinesInv
<1> USE Constants
<1>1. CASE UNCHANGED ringVars
  BY <1>1 DEF ringVars, runs, files, LinesInv, NoDoubleCapture
<1>2. CASE Tick \/ MissRun
  BY <1>2 DEF Tick, MissRun, runs, files, LinesInv, NoDoubleCapture
<1>3. CASE Reboot
  BY <1>3 DEF Reboot, files, LinesInv, NoDoubleCapture, Idle
<1>4. ASSUME NEW r \in Run, StartRun(r) PROVE LinesInv'
  BY <1>4 DEF StartRun, files, LinesInv, NoDoubleCapture, RingInv
<1>5. ASSUME NEW r \in Run, BeginCheck(r) PROVE LinesInv'
  <2> DEFINE d == DirOf(now)
  <2>1. d \in Dirs /\ ~late /\ pc[r] = "fetch"
    BY <1>5 DEF BeginCheck, RingInv
  <2>2. \A q \in Run \ {r} : pc'[q] # "scan"
    BY <1>5, <2>1 DEF BeginCheck, AloneInv, Checking, RingInv
  <2> HIDE DEF d
  <2>3. balances'[d].lines = 0 /\ \A e \in Dirs \ {d} : balances'[e] = balances[e]
    BY <1>5, <2>1 DEF BeginCheck, NoFile, RingInv, d
  <2>4. place'[r] = d /\ left'[r] = Lines
    BY <1>5 DEF BeginCheck, RingInv, d
  <2>5. \A e \in Dirs : balances'[e].lines <= Lines
    BY <2>1, <2>3 DEF LinesInv, NoDoubleCapture
  <2> QED
    BY <2>2, <2>3, <2>4, <2>5 DEF LinesInv, NoDoubleCapture
<1>6. ASSUME NEW r \in Run, CheckAddress(r) PROVE LinesInv'
  <2> DEFINE d == place[r]
  <2>1. /\ d \in Dirs /\ ~late /\ pc[r] = "scan" /\ left[r] \in 1..Lines
        /\ balances[d].lines \in Nat /\ place' = place
        /\ balances[d].lines + left[r] = Lines
    BY <1>6 DEF CheckAddress, RingInv, LinesInv
  <2>2. \A q \in Run \ {r} : pc'[q] # "scan"
    BY <1>6, <2>1 DEF CheckAddress, AloneInv, Checking, RingInv
  <2> HIDE DEF d
  <2>3. /\ balances'[d].lines = balances[d].lines + 1
        /\ \A e \in Dirs \ {d} : balances'[e] = balances[e]
        /\ left'[r] = left[r] - 1
    BY <1>6, <2>1 DEF CheckAddress, RingInv, d
  <2>4. \A e \in Dirs : balances'[e].lines <= Lines
    BY <2>1, <2>3 DEF LinesInv, NoDoubleCapture
  <2>5. balances'[place'[r]].lines + left'[r] = Lines
    BY <2>1, <2>3 DEF d
  <2> QED
    BY <2>2, <2>4, <2>5 DEF LinesInv, NoDoubleCapture
<1>7. ASSUME NEW r \in Run, RunScript(r) PROVE LinesInv'
  <2>1. /\ After[pc[r]] # "scan" /\ ~late /\ balances' = balances /\ left' = left
        /\ \A q \in Run \ {r} : pc'[q] = pc[q] /\ place'[q] = place[q]
        /\ pc'[r] # "scan"
    BY <1>7 DEF RunScript, Scripts, After, RingInv
  <2> QED
    BY <2>1 DEF LinesInv, NoDoubleCapture
<1> QED
  BY <1>1, <1>2, <1>3, <1>4, <1>5, <1>6, <1>7 DEF Next

LEMMA WholeStep == RingInv /\ WholeInv /\ [Next]_ringVars => WholeInv'
<1> SUFFICES ASSUME RingInv, WholeInv, [Next]_ringVars, missed' = 0 PROVE WholeInv'
  BY DEF WholeInv
<1> USE Constants
<1>1. CASE UNCHANGED ringVars
  BY <1>1 DEF ringVars, runs, files, WholeInv
<1>2. CASE Tick \/ MissRun \/ Reboot
  BY <1>2 DEF Tick, MissRun, Reboot, RingInv, runs, files, WholeInv
<1>3. ASSUME NEW r \in Run, StartRun(r) PROVE WholeInv'
  <2>1. /\ missed = 0 /\ balances' = balances /\ left' = left /\ place' = place
        /\ pc[r] # "scan" /\ pc'[r] # "scan" /\ \A q \in Run \ {r} : pc'[q] = pc[q]
    BY <1>3 DEF StartRun, files, RingInv
  <2> QED
    BY <2>1 DEF WholeInv
<1>4. ASSUME NEW r \in Run, BeginCheck(r) PROVE WholeInv'
  <2> DEFINE d == DirOf(now)
  <2>1. d \in Dirs /\ missed = 0 /\ pc[r] = "fetch" /\ now \in Nat
    BY <1>4 DEF BeginCheck, RingInv
  <2> HIDE DEF d
  <2>2. /\ pc'[r] = "scan" /\ place'[r] = d /\ left'[r] = Lines
        /\ \A q \in Run \ {r} : pc'[q] = pc[q] /\ place'[q] = place[q] /\ left'[q] = left[q]
    BY <1>4 DEF BeginCheck, RingInv, d
  <2>3. \A e \in Dirs \ {d} : balances'[e] = balances[e]
    BY <1>4 DEF BeginCheck, RingInv, d
  <2>4. \/ balances[d] = NoFile /\ balances'[d] = NoFile
        \/ balances'[d] # NoFile /\ balances'[d].lines = 0
    BY <1>4, <2>1 DEF BeginCheck, RingInv, NoFile, d
  <2>5. \A q \in Run : place'[q] \in Dirs /\ place[q] \in Dirs
    BY <2>1, <2>2 DEF RingInv
  <2>6. ASSUME NEW q \in Run, pc'[q] = "scan", balances'[place'[q]] = NoFile
        PROVE  left'[q] = Lines
    BY <2>1, <2>2, <2>3, <2>4, <2>5, <2>6 DEF WholeInv
  <2>7. ASSUME NEW e \in Dirs
        PROVE  balances'[e] = NoFile \/ balances'[e].lines >= Lines
               \/ \E q \in Run : pc'[q] = "scan" /\ place'[q] = e
                                 /\ balances'[e].lines + left'[q] >= Lines
    <3>1. CASE e = d
      BY <2>2, <2>4, <3>1
    <3>2. CASE e # d
      <4>1. CASE \E q \in Run : pc[q] = "scan" /\ place[q] = e
                                /\ balances[e].lines + left[q] >= Lines
        <5>1. PICK q \in Run : pc[q] = "scan" /\ place[q] = e
                               /\ balances[e].lines + left[q] >= Lines
          BY <4>1
        <5>2. q # r
          BY <2>1, <5>1
        <5> QED
          BY <2>2, <2>3, <3>2, <5>1, <5>2
      <4>2. CASE balances[e] = NoFile \/ balances[e].lines >= Lines
        BY <2>3, <3>2, <4>2
      <4> QED
        BY <2>1, <4>1, <4>2 DEF WholeInv
    <3> QED
      BY <3>1, <3>2
  <2> QED
    BY <2>6, <2>7 DEF WholeInv
<1>5. ASSUME NEW r \in Run, CheckAddress(r) PROVE WholeInv'
  <2> DEFINE d == place[r]
  <2>1. /\ d \in Dirs /\ missed = 0 /\ pc[r] = "scan" /\ left[r] \in 1..Lines
        /\ balances[d] \in [at : Int, lines : Nat] /\ began[r] \in Nat
    BY <1>5 DEF CheckAddress, RingInv
  <2>2. /\ place' = place /\ left'[r] = left[r] - 1
        /\ pc'[r] = IF left[r] = 1 THEN "offline" ELSE "scan"
        /\ \A q \in Run \ {r} : pc'[q] = pc[q] /\ left'[q] = left[q]
    BY <1>5 DEF CheckAddress, RingInv
  <2> HIDE DEF d
  <2>3. /\ balances'[d].lines = balances[d].lines + 1
        /\ \A e \in Dirs \ {d} : balances'[e] = balances[e]
    BY <1>5, <2>1 DEF CheckAddress, RingInv, d
  <2>4. balances'[d] # NoFile
    BY <2>1, <2>3 DEF NoFile
  <2>5. \A q \in Run : place[q] \in Dirs /\ left[q] \in 0..Lines
    BY DEF RingInv
  <2>6. ASSUME NEW q \in Run, pc'[q] = "scan", balances'[place'[q]] = NoFile
        PROVE  left'[q] = Lines
    <3>1. place[q] # d /\ q # r
      BY <2>2, <2>4, <2>6 DEF d
    <3> QED
      BY <2>1, <2>2, <2>3, <2>5, <2>6, <3>1 DEF WholeInv
  <2>7. ASSUME NEW e \in Dirs
        PROVE  balances'[e] = NoFile \/ balances'[e].lines >= Lines
               \/ \E q \in Run : pc'[q] = "scan" /\ place'[q] = e
                                 /\ balances'[e].lines + left'[q] >= Lines
    <3>1. CASE e # d
      <4>1. CASE \E q \in Run : pc[q] = "scan" /\ place[q] = e
                                /\ balances[e].lines + left[q] >= Lines
        <5>1. PICK q \in Run : pc[q] = "scan" /\ place[q] = e
                               /\ balances[e].lines + left[q] >= Lines
          BY <4>1
        <5>2. q # r
          BY <3>1, <5>1 DEF d
        <5> QED
          BY <2>2, <2>3, <3>1, <5>1, <5>2
      <4>2. CASE balances[e] = NoFile \/ balances[e].lines >= Lines
        BY <2>3, <3>1, <4>2
      <4> QED
        BY <2>1, <4>1, <4>2 DEF WholeInv
    <3>2. CASE e = d
      <4>1. PICK q \in Run : \/ balances[d].lines >= Lines
                             \/ pc[q] = "scan" /\ place[q] = d
                                /\ balances[d].lines + left[q] >= Lines
        <5>1. CASE balances[d] = NoFile
          <6>1. left[r] = Lines
            BY <2>1, <5>1 DEF WholeInv, d
          <6> QED
            BY <2>1, <6>1 DEF d
        <5>2. CASE balances[d] # NoFile
          BY <2>1, <5>2 DEF WholeInv
        <5> QED
          BY <5>1, <5>2
      <4>2. CASE balances[d].lines >= Lines
        BY <2>1, <2>3, <3>2, <4>2
      <4>3. CASE pc[q] = "scan" /\ place[q] = d /\ balances[d].lines + left[q] >= Lines
        <5>1. CASE q = r
          <6>1. CASE left[r] = 1
            BY <2>1, <2>3, <3>2, <4>3, <5>1, <6>1
          <6>2. CASE left[r] # 1
            BY <2>1, <2>2, <2>3, <3>2, <4>3, <5>1, <6>2
          <6> QED
            BY <6>1, <6>2
        <5>2. CASE q # r
          BY <2>1, <2>2, <2>3, <2>5, <3>2, <4>3, <5>2
        <5> QED
          BY <5>1, <5>2
      <4> QED
        BY <4>1, <4>2, <4>3
    <3> QED
      BY <3>1, <3>2
  <2> QED
    BY <2>6, <2>7 DEF WholeInv
<1>6. ASSUME NEW r \in Run, RunScript(r) PROVE WholeInv'
  <2>1. /\ missed = 0 /\ balances' = balances /\ left' = left
        /\ \A q \in Run \ {r} : pc'[q] = pc[q] /\ place'[q] = place[q]
        /\ pc[r] # "scan" /\ pc'[r] # "scan"
    BY <1>6 DEF RunScript, Scripts, After, RingInv
  <2> QED
    BY <2>1 DEF WholeInv
<1> QED
  BY <1>1, <1>2, <1>3, <1>4, <1>5, <1>6 DEF Next
-----------------------------------------------------------------------------
(* Dates. *)

LEMMA TempInit == Init => TempInv /\ DateInv /\ EarlierInv
BY DEF Init, TempInv, DateInv, EarlierInv, NoFile, Idle

LEMMA TempStep == RingInv /\ TempInv /\ [Next]_ringVars => TempInv'
<1> SUFFICES ASSUME RingInv, TempInv, [Next]_ringVars PROVE TempInv'
  OBVIOUS
<1>1. CASE temp' = temp
  BY <1>1 DEF TempInv
<1>2. ASSUME NEW d \in Dirs, NEW f \in [at : Int, lines : Nat], temp' = [temp EXCEPT ![d] = f]
      PROVE  TempInv'
  BY <1>2 DEF TempInv
<1>3. ASSUME NEW r \in Run, BeginCheck(r) PROVE TempInv'
  <2>1. DirOf(now) \in Dirs /\ balances[DirOf(now)] \in [at : Int, lines : Nat]
    BY Constants DEF RingInv
  <2> QED
    BY <1>1, <1>2, <1>3, <2>1 DEF BeginCheck
<1>4. ASSUME NEW r \in Run, RunScript(r) PROVE TempInv'
  <2>1. stamp \in Dirs /\ NoFile \in [at : Int, lines : Nat]
    BY DEF RingInv, NoFile
  <2> QED
    BY <1>1, <1>2, <1>4, <2>1 DEF RunScript
<1>5. CASE \/ Tick \/ MissRun \/ Reboot \/ UNCHANGED ringVars
           \/ \E r \in Run : StartRun(r) \/ CheckAddress(r)
  BY <1>1, <1>5 DEF Tick, MissRun, Reboot, StartRun, CheckAddress, files, ringVars
<1> QED
  BY <1>3, <1>4, <1>5 DEF Next

LEMMA EarlierStep == RingInv /\ AloneInv /\ DateInv /\ EarlierInv /\ [Next]_ringVars => EarlierInv'
<1> SUFFICES ASSUME RingInv, AloneInv, DateInv, EarlierInv, [Next]_ringVars, ~late',
                    ~fired' \/ \E r \in Run : pc'[r] = "fetch"
             PROVE  EarlierInv'
  BY DEF EarlierInv
<1> USE Constants
<1>1. CASE UNCHANGED ringVars
  BY <1>1 DEF ringVars, runs, files, EarlierInv
<1>2. CASE Tick
  <2>1. /\ ~late /\ now' = now + 1 /\ now \in Nat /\ balances' = balances
        /\ pc' = pc /\ began' = began
    BY <1>2 DEF Tick, runs, files, RingInv
  <2>2. /\ \A d \in Dirs : balances[d] # NoFile => balances[d].at \in Nat /\ balances[d].at <= now
        /\ \A r \in Run : pc[r] = "scan" => began[r] \in Nat /\ began[r] <= now
    BY <2>1 DEF DateInv, Dated
  <2> QED
    BY <2>1, <2>2 DEF EarlierInv
<1>3. CASE MissRun
  <2>1. \E r \in Run : pc[r] = "fetch"
    BY <1>3 DEF MissRun, runs
  <2> QED
    BY <1>3, <2>1 DEF MissRun, runs, files, EarlierInv
<1>4. CASE Reboot
  <2>1. ~fired /\ ~late /\ now' = now /\ balances' = balances /\ \A r \in Run : pc'[r] = "idle"
    BY <1>4 DEF Reboot, files, Idle
  <2> QED
    BY <2>1 DEF EarlierInv
<1>5. ASSUME NEW r \in Run, StartRun(r) PROVE EarlierInv'
  <2>1. /\ ~fired /\ ~late /\ now' = now /\ balances' = balances
        /\ pc'[r] # "scan" /\ \A q \in Run \ {r} : pc'[q] = pc[q] /\ began'[q] = began[q]
    BY <1>5 DEF StartRun, files, RingInv
  <2> QED
    BY <2>1 DEF EarlierInv
\* The run that begins its check was the only one.
<1>6. ASSUME NEW r \in Run, BeginCheck(r) PROVE FALSE
  <2>1. ~late /\ pc[r] = "fetch" /\ fired' = fired
    BY <1>6 DEF BeginCheck
  <2>2. fired /\ \A q \in Run : pc[q] = "fetch" => q = r
    BY <2>1 DEF AloneInv, Checking
  <2>3. \A q \in Run : pc'[q] # "fetch"
    BY <1>6, <2>2 DEF BeginCheck, RingInv
  <2> QED
    BY <2>1, <2>2, <2>3
<1>7. ASSUME NEW r \in Run, CheckAddress(r) PROVE EarlierInv'
  <2> DEFINE d == place[r]
  <2>1. /\ ~late /\ fired' = fired /\ now' = now /\ pc[r] = "scan" /\ d \in Dirs /\ began' = began
        /\ \A q \in Run : pc'[q] \in {"fetch", "scan"} => pc[q] = pc'[q]
    BY <1>7 DEF CheckAddress, RingInv
  <2>2. /\ \A e \in Dirs : balances[e] # NoFile => balances[e].at < now
        /\ \A q \in Run : pc[q] = "scan" => began[q] < now
    BY <2>1 DEF EarlierInv
  <2>3. /\ balances'[d].at = IF balances[d] = NoFile THEN began[r] ELSE balances[d].at
        /\ \A e \in Dirs \ {d} : balances'[e] = balances[e]
    BY <1>7, <2>1 DEF CheckAddress, RingInv
  <2> HIDE DEF d
  <2>4. \A e \in Dirs : balances'[e] # NoFile => balances'[e].at < now
    BY <2>1, <2>2, <2>3
  <2> QED
    BY <2>1, <2>2, <2>4 DEF EarlierInv
<1>8. ASSUME NEW r \in Run, RunScript(r) PROVE EarlierInv'
  <2>1. /\ ~late /\ fired' = fired /\ now' = now /\ balances' = balances
        /\ pc'[r] \notin {"fetch", "scan"}
        /\ \A q \in Run \ {r} : pc'[q] = pc[q] /\ began'[q] = began[q]
    BY <1>8 DEF RunScript, Scripts, After, RingInv
  <2> QED
    BY <2>1 DEF EarlierInv
<1> QED
  BY <1>1, <1>2, <1>3, <1>4, <1>5, <1>6, <1>7, <1>8 DEF Next

LEMMA DateStep ==
  RingInv /\ TempInv /\ AloneInv /\ DateInv /\ EarlierInv /\ [Next]_ringVars => DateInv'
<1> SUFFICES ASSUME RingInv, TempInv, AloneInv, DateInv, EarlierInv, [Next]_ringVars, ~late'
             PROVE  DateInv'
  BY DEF DateInv
<1> USE Constants
\* A step that adds no capture, at the same time or later.
<1>1. ASSUME ~late, now' \in Nat, now' >= now, UNCHANGED <<balances, stamp>>,
             \A d \in Dirs : temp'[d] = temp[d] \/ temp'[d] = NoFile,
             \A r \in Run : pc'[r] = "scan" =>
               pc[r] = "scan" /\ place'[r] = place[r] /\ began'[r] = began[r]
      PROVE  DateInv'
  <2>1. now \in Nat /\ stamp \in Dirs
    BY DEF RingInv
  <2>2. \A t, d : Dated(t, d) => Dated(t, d)'
    BY <1>1, <2>1 DEF Dated
  <2> QED
    BY <1>1, <2>1, <2>2 DEF DateInv
<1>2. CASE UNCHANGED ringVars
  BY <1>1, <1>2 DEF ringVars, runs, files, RingInv
<1>3. CASE Tick \/ MissRun
  <2>1. /\ ~late /\ UNCHANGED <<balances, stamp, temp, pc, place, began>>
        /\ now' = now \/ now' = now + 1
    <3>1. CASE Tick
      BY <3>1 DEF Tick, runs, files
    <3>2. CASE MissRun
      BY <3>2 DEF MissRun, runs, files
    <3> QED
      BY <1>3, <3>1, <3>2
  <2>2. now' \in Nat /\ now' >= now
    BY <2>1 DEF RingInv
  <2> QED
    BY <1>1, <2>1, <2>2
<1>4. CASE Reboot
  BY <1>1, <1>4 DEF Reboot, files, Idle, RingInv
<1>5. ASSUME NEW r \in Run, StartRun(r) PROVE DateInv'
  <2>1. /\ ~late /\ now' = now /\ now \in Nat /\ UNCHANGED <<balances, stamp, temp, place>>
        /\ pc'[r] # "scan" /\ \A q \in Run \ {r} : pc'[q] = pc[q] /\ began'[q] = began[q]
    BY <1>5 DEF StartRun, files, RingInv
  <2> QED
    BY <1>1, <2>1
<1>6. ASSUME NEW r \in Run, BeginCheck(r) PROVE DateInv'
  <2> DEFINE d == DirOf(now)
  <2>1. ~late /\ pc[r] = "fetch" /\ now' = now /\ now \in Nat /\ d \in Dirs /\ stamp' = d
    BY <1>6 DEF BeginCheck, RingInv
  <2>2. /\ pc'[r] = "scan" /\ began'[r] = now /\ place'[r] = d
        /\ \A q \in Run \ {r} : pc'[q] # "scan"
    BY <1>6, <2>1 DEF BeginCheck, RingInv, AloneInv, Checking
  <2>3. \A e \in Dirs : balances[e] # NoFile => Dated(balances[e].at, e) /\ balances[e].at < now
    BY <2>1 DEF DateInv, EarlierInv
  <2>4. Dated(now, d)
    BY <2>1 DEF Dated
  <2>5. \A t, e : Dated(t, e) => Dated(t, e)'
    BY <2>1 DEF Dated
  <2>6. \A e \in Dirs \ {d} : balances'[e] = balances[e] /\ temp'[e] = temp[e]
    BY <1>6, <2>1 DEF BeginCheck, RingInv, TempInv
  <2>7. \/ balances[d] = NoFile /\ balances'[d] = NoFile /\ temp'[d] = temp[d]
        \/ balances[d] # NoFile /\ balances'[d].at = now /\ temp'[d] = balances[d]
    BY <1>6, <2>1 DEF BeginCheck, RingInv, TempInv
  <2>8. NoFile.at = -1
    BY DEF NoFile
  <2> HIDE DEF d
  <2>9. \A e \in Dirs : balances'[e] # NoFile =>
          Dated(balances'[e].at, e) /\ balances'[e].at <= now /\ (e = d => balances'[e].at = now)
    BY <2>1, <2>3, <2>4, <2>6, <2>7 DEF Dated
  <2>10. \A e \in Dirs :
           temp'[e] # NoFile => /\ Dated(temp'[e].at, e)
                                /\ balances'[e] # NoFile /\ temp'[e].at < balances'[e].at
    <3> SUFFICES ASSUME NEW e \in Dirs, temp'[e] # NoFile
                 PROVE  /\ Dated(temp'[e].at, e)
                        /\ balances'[e] # NoFile /\ temp'[e].at < balances'[e].at
      OBVIOUS
    <3>1. CASE e # d
      BY <2>1, <2>6, <3>1 DEF DateInv
    <3>2. CASE e = d /\ balances[d] = NoFile
      BY <2>1, <2>7, <2>8, <3>2 DEF DateInv
    <3>3. CASE e = d /\ balances[d] # NoFile
      BY <2>1, <2>3, <2>7, <2>8, <3>3
    <3> QED
      BY <3>1, <3>2, <3>3
  <2> QED
    BY <2>1, <2>2, <2>4, <2>5, <2>9, <2>10 DEF DateInv
<1>7. ASSUME NEW r \in Run, CheckAddress(r) PROVE DateInv'
  <2> DEFINE d == place[r]
  <2>1. /\ ~late /\ pc[r] = "scan" /\ now' = now /\ d \in Dirs /\ UNCHANGED <<temp, stamp, began, place>>
    BY <1>7 DEF CheckAddress, RingInv
  <2>2. /\ Dated(began[r], d) /\ d = stamp
        /\ \A e \in Dirs : balances[e] # NoFile => balances[e].at <= began[r]
        /\ balances[d] # NoFile => balances[d].at = began[r]
    BY <2>1 DEF DateInv
  <2>3. \A q \in Run \ {r} : pc'[q] # "scan"
    BY <1>7, <2>1 DEF CheckAddress, RingInv, AloneInv, Checking
  <2>4. /\ balances'[d].at = IF balances[d] = NoFile THEN began[r] ELSE balances[d].at
        /\ \A e \in Dirs \ {d} : balances'[e] = balances[e]
    BY <1>7, <2>1 DEF CheckAddress, RingInv
  <2>5. \A t, e : Dated(t, e) => Dated(t, e)'
    BY <2>1 DEF Dated
  <2>6. NoFile.at = -1 /\ began[r] \in Nat
    BY <2>2 DEF NoFile, Dated
  <2> HIDE DEF d
  <2>7. balances'[d].at = began[r] /\ balances'[d] # NoFile
    BY <2>2, <2>4, <2>6
  <2>8. \A e \in Dirs : balances'[e] # NoFile => /\ Dated(balances'[e].at, e)
                                                 /\ balances'[e].at <= began[r]
    BY <2>1, <2>2, <2>4, <2>6, <2>7 DEF DateInv
  <2>9. \A e \in Dirs :
          temp'[e] # NoFile => /\ Dated(temp'[e].at, e)
                               /\ balances'[e] # NoFile /\ temp'[e].at < balances'[e].at
    BY <2>1, <2>2, <2>4, <2>7 DEF DateInv
  <2>10. place'[r] = d /\ began'[r] = began[r] /\ stamp' = d
    BY <2>1, <2>2 DEF d
  <2> QED
    BY <2>1, <2>2, <2>3, <2>5, <2>7, <2>8, <2>9, <2>10 DEF DateInv
<1>8. ASSUME NEW r \in Run, RunScript(r) PROVE DateInv'
  <2>1. /\ ~late /\ now' = now /\ now \in Nat /\ UNCHANGED <<balances, stamp>>
        /\ pc'[r] # "scan"
        /\ \A q \in Run \ {r} : pc'[q] = pc[q] /\ began'[q] = began[q] /\ place'[q] = place[q]
    BY <1>8 DEF RunScript, Scripts, After, RingInv
  <2>2. \A d \in Dirs : temp'[d] = temp[d] \/ temp'[d] = NoFile
    BY <1>8 DEF RunScript, TempInv, RingInv
  <2> QED
    BY <1>1, <2>1, <2>2
<1> QED
  BY <1>2, <1>3, <1>4, <1>5, <1>6, <1>7, <1>8 DEF Next

LEMMA DayIs ==
  /\ Day \in Nat /\ HourTicks < Day /\ SlotTicks < Day /\ SlotTicks <= HourTicks
  /\ HourTicks * QuadHours \in 1..(Day - 1)
  /\ HourTicks \in Nat \ {0} /\ QuadHours \in Nat \ {0}
<1>1. /\ HourTicks \in Nat \ {0} /\ HourTicks % SlotTicks = 0 /\ SlotTicks = 3
      /\ DayHours \in Nat \ {0, 1} /\ QuadHours \in 1..(DayHours - 1)
  BY RingAssumption DEF SlotTicks
<1>2. HourTicks >= 3
  BY <1>1
<1> DEFINE more == DayHours - 2
           rest == DayHours - QuadHours - 1
           part == QuadHours - 1
<1>3. more \in Nat /\ rest \in Nat /\ part \in Nat
  BY <1>1
<1>4. HourTicks * more \in Nat /\ HourTicks * rest \in Nat /\ HourTicks * part \in Nat
  BY <1>1, <1>3
<1>5. /\ Day = HourTicks * more + HourTicks + HourTicks
      /\ Day = HourTicks * QuadHours + HourTicks * rest + HourTicks
      /\ HourTicks * QuadHours = HourTicks * part + HourTicks
  BY <1>1 DEF Day
<1> HIDE DEF more, rest, part
<1>6. HourTicks * QuadHours \in Nat
  BY <1>1, <1>4, <1>5
<1> QED
  BY <1>1, <1>2, <1>4, <1>5, <1>6

\* A time is its day, its hour and its minute.
LEMMA DayOf ==
  ASSUME NEW t \in Nat
  PROVE  \E a \in Int : t = Day * a + HourTicks * DirOf(t)[1] + DirOf(t)[2]
<1> DEFINE h == t \div HourTicks
           m == t % HourTicks
           a == h \div DayHours
           b == h % DayHours
<1>1. HourTicks \in Nat /\ HourTicks > 0 /\ DayHours \in Nat /\ DayHours > 0
  BY Constants
<1>2. h \in Int /\ m \in Int /\ t = HourTicks * h + m
  BY <1>1, DivMod
<1> HIDE DEF h, m
<1>3. a \in Int /\ b \in Int /\ h = DayHours * a + b
  BY <1>1, <1>2, DivMod
<1>4. DirOf(t) = <<b, m>>
  BY DEF DirOf, h, m
<1> HIDE DEF a, b
<1>5. HourTicks * (DayHours * a + b) = (HourTicks * DayHours) * a + HourTicks * b
  BY <1>1, <1>3
<1>6. t = Day * a + HourTicks * b + m
  BY <1>2, <1>3, <1>5 DEF Day
<1> QED
  BY <1>3, <1>4, <1>6

\* The hour n hours before, on some day.
LEMMA HourBefore ==
  ASSUME NEW h \in Int, NEW n \in Int
  PROVE  \E c \in Int : h - n = DayHours * c + PrevHour(h, n)
<1>1. DayHours \in Int /\ DayHours > 0 /\ h - n \in Int
  BY Constants
<1> QED
  BY <1>1, DivMod DEF PrevHour

\* Two times, one in a directory n hours before that of the other.
LEMMA HoursApart ==
  ASSUME NEW t \in Nat, NEW u \in Nat, NEW n \in Int,
         DirOf(u)[1] = PrevHour(DirOf(t)[1], n)
  PROVE  \E k \in Int : t - u = Day * k + HourTicks * n + (DirOf(t)[2] - DirOf(u)[2])
<1> DEFINE h == DirOf(t)[1]
           m == DirOf(t)[2]
           g == DirOf(u)[1]
           o == DirOf(u)[2]
<1>1. h \in Int /\ m \in Int /\ g \in Int /\ o \in Int
  <2>1. DirOf(t) \in Dirs /\ DirOf(u) \in Dirs /\ Dirs \subseteq Int \X Int
    BY Constants DEF Dirs, Hours, Minutes
  <2> QED
    BY <2>1
<1>2. PICK a \in Int : t = Day * a + HourTicks * h + m
  BY DayOf
<1>3. PICK b \in Int : u = Day * b + HourTicks * g + o
  BY DayOf
<1>4. PICK c \in Int : h - n = DayHours * c + g
  <2>1. \E c \in Int : h - n = DayHours * c + PrevHour(h, n)
    BY <1>1, HourBefore
  <2> QED
    BY <2>1
<1> HIDE DEF h, m, g, o
<1>5. Day \in Int /\ HourTicks \in Int /\ DayHours \in Int /\ Day = HourTicks * DayHours
  BY Constants, DayIs DEF Day
<1>6. HourTicks * h = HourTicks * (DayHours * c + g + n)
  BY <1>1, <1>4, <1>5
<1>7. HourTicks * (DayHours * c + g + n) = Day * c + HourTicks * g + HourTicks * n
  BY <1>1, <1>4, <1>5
<1>8. Day * (a - b + c) = Day * a - Day * b + Day * c
  BY <1>2, <1>3, <1>4, <1>5
<1> DEFINE A == Day * a
           B == Day * b
           C == Day * c
           H == HourTicks * h
           G == HourTicks * g
           N == HourTicks * n
<1>9. A \in Int /\ B \in Int /\ C \in Int /\ H \in Int /\ G \in Int /\ N \in Int
  BY <1>1, <1>5
<1>10. H = C + G + N /\ t = A + H + m /\ u = B + G + o /\ Day * (a - b + c) = A - B + C
  BY <1>2, <1>3, <1>6, <1>7, <1>8
<1> HIDE DEF A, B, C, H, G, N
<1>11. t - u = Day * (a - b + c) + N + (m - o)
  BY <1>1, <1>9, <1>10
<1> QED
  BY <1>2, <1>3, <1>4, <1>11 DEF N, h, m, g, o

\* Two times apart by an interval up to days, of which the second is not before.
LEMMA NotBefore ==
  ASSUME NEW a \in Int, NEW k \in Int, NEW i \in Nat, a = Day * k + i,
         \/ i < Day /\ a >= 0
         \/ i <= Day /\ a > 0
  PROVE  a >= i /\ (a - i) % Day = 0
<1> DEFINE z == Day * k
<1>1. Day \in Nat /\ Day > 0
  BY DayIs
<1>2. k < 0 => z <= -Day
  <2>1. Day * (-k - 1) >= 0 \/ k >= 0
    BY <1>1
  <2>2. Day * (-k - 1) = -z - Day /\ z \in Int
    BY <1>1
  <2> QED
    BY <1>1, <2>1, <2>2
<1>3. k >= 0 => z >= 0
  BY <1>1
<1>4. z \in Int /\ a = z + i /\ a - i = z
  BY <1>1
<1>5. z % Day = 0
  BY <1>1, DivExact
<1> HIDE DEF z
<1> QED
  BY <1>1, <1>2, <1>3, <1>4, <1>5
-----------------------------------------------------------------------------
\* check.sh:5-16 and upload.sh: as long as runs keep their time, only one check
\* fills captures at a time, and no address has two lines in one.
THEOREM CapturedOnce == Spec => []NoDoubleCapture
<1>1. RingInv /\ LinesInv => NoDoubleCapture
  BY DEF LinesInv, NoDoubleCapture
<1> QED
  BY RingInit, RingStep, AloneStep, LinesStep, <1>1, PTL DEF Spec

\* However runs overlap, a report made from an unfinished capture was made while
\* a check was filling it, unless a run was missed or killed.
THEOREM UnfinishedIsScanned == Spec => []PartialOnlyWhileScanning
<1>1. Init => PartialOnlyWhileScanning
  BY DEF Init, PartialOnlyWhileScanning, NoReport
<1>2. RingInv /\ WholeInv /\ PartialOnlyWhileScanning /\ [Next]_ringVars
        => PartialOnlyWhileScanning'
  <2> SUFFICES ASSUME RingInv, WholeInv, PartialOnlyWhileScanning, [Next]_ringVars
               PROVE  PartialOnlyWhileScanning'
    OBVIOUS
  <2>1. CASE report' = report /\ (missed' = missed \/ missed' # 0)
    BY <2>1 DEF PartialOnlyWhileScanning
  <2>2. ASSUME NEW r \in Run, RunScript(r) PROVE PartialOnlyWhileScanning'
    <3>1. report' = Compared(pc[r]) /\ missed' = missed /\ stamp \in Dirs
      BY <2>2 DEF RunScript, RingInv
    <3>2. /\ report'.cur = balances[stamp]
          /\ report'.scanning = {q \in Run : pc[q] = "scan" /\ place[q] = stamp}
      BY <3>1, FileIs DEF Compared
    <3>3. balances[stamp].lines \in Nat /\ Lines \in Nat
      BY <3>1, Constants DEF RingInv
    <3> QED
      BY <3>1, <3>2, <3>3 DEF WholeInv, PartialOnlyWhileScanning
  <2>3. CASE Tick \/ \E r \in Run : StartRun(r) \/ BeginCheck(r) \/ CheckAddress(r)
    BY <2>1, <2>3 DEF Tick, StartRun, BeginCheck, CheckAddress
  <2>4. CASE MissRun \/ Reboot
    <3>1. missed' # 0 /\ report' = report
      BY <2>4 DEF MissRun, Reboot, RingInv
    <3> QED
      BY <2>1, <3>1
  <2>5. CASE UNCHANGED ringVars
    BY <2>1, <2>5 DEF ringVars
  <2> QED
    BY <2>2, <2>3, <2>4, <2>5 DEF Next
<1> QED
  BY RingInit, RingStep, WholeStep, <1>1, <1>2, PTL DEF Spec

LEMMA SameHour ==
  ASSUME NEW h \in Hours PROVE PrevHour(h, 0) = h
<1>1. DayHours \in Nat /\ h \in 0..(DayHours - 1) /\ h - 0 = h
  BY Constants DEF Hours
<1>2. h % DayHours = h
  BY <1>1
<1> QED
  BY <1>1, <1>2 DEF PrevHour

\* Each script's directory is its interval before the stamped one, up to days.
LEMMA IntervalsApart ==
  ASSUME NEW t \in Nat, NEW u \in Nat, u <= t, NEW d \in Dirs, DirOf(t) = d,
         NEW i \in Nat,
         \/ DirOf(u) = offlinePrev(d) /\ i = SlotTicks
         \/ DirOf(u) = hourlyPrev(d) /\ i = HourTicks
         \/ DirOf(u) = quadlyPrev(d) /\ i = HourTicks * QuadHours
         \/ DirOf(u) = d /\ u < t /\ i = Day
  PROVE  t - u >= i /\ (t - u - i) % Day = 0
<1> DEFINE h == d[1]
           m == d[2]
<1>1. d = <<h, m>> /\ h \in Hours /\ h \in Int /\ m \in Int
  BY Constants DEF Dirs, Hours, Minutes
<1>2. t - u \in Int /\ t - u >= 0
  OBVIOUS
<1>3. Day \in Nat /\ HourTicks \in Nat /\ SlotTicks \in Nat /\ QuadHours \in Nat
  BY DayIs DEF SlotTicks
<1> HIDE DEF h, m
<1>4. ASSUME DirOf(u) = offlinePrev(d), i = SlotTicks
      PROVE  \E k \in Int : t - u = Day * k + i
  <2>1. CASE m = 0
    <3>1. DirOf(u) = <<PrevHour(h, 1), HourTicks - SlotTicks>>
      BY <1>4, <2>1 DEF offlinePrev, h, m
    <3>2. PICK k \in Int : t - u = Day * k + HourTicks * 1 + (m - (HourTicks - SlotTicks))
      BY <3>1, HoursApart DEF h, m
    <3>3. HourTicks * 1 + (m - (HourTicks - SlotTicks)) = SlotTicks /\ Day * k \in Int
      BY <1>3, <2>1
    <3> QED
      BY <1>1, <1>3, <1>4, <3>2, <3>3
  <2>2. CASE m # 0
    <3>1. DirOf(u) = <<h, m - SlotTicks>> /\ PrevHour(h, 0) = h
      BY <1>1, <1>4, <2>2, SameHour DEF offlinePrev, h, m
    <3>2. PICK k \in Int : t - u = Day * k + HourTicks * 0 + (m - (m - SlotTicks))
      BY <3>1, HoursApart DEF h, m
    <3>3. HourTicks * 0 = 0 /\ m - (m - SlotTicks) = SlotTicks /\ Day * k \in Int
      BY <1>1, <1>3
    <3> QED
      BY <1>1, <1>3, <1>4, <3>2, <3>3
  <2> QED
    BY <2>1, <2>2
<1>5. ASSUME NEW n \in Nat, DirOf(u) = <<PrevHour(h, n), m>>, i = HourTicks * n
      PROVE  \E k \in Int : t - u = Day * k + i
  <2>1. PICK k \in Int : t - u = Day * k + HourTicks * n + (m - m)
    BY <1>5, HoursApart DEF h, m
  <2> QED
    BY <1>1, <1>3, <1>5, <2>1
<1>6. ASSUME DirOf(u) = d, i = Day
      PROVE  \E k \in Int : t - u = Day * k + i
  <2>1. DirOf(u) = <<PrevHour(h, 0), m>>
    BY <1>1, <1>6, SameHour
  <2>2. PICK k \in Int : t - u = Day * k + HourTicks * 0 + (m - m)
    BY <2>1, HoursApart DEF h, m
  <2>3. Day * (k - 1) = Day * k - Day /\ Day * k \in Int
    BY <1>3
  <2> QED
    BY <1>1, <1>3, <1>6, <2>2, <2>3
<1>7. \E k \in Int : t - u = Day * k + i
  <2>1. CASE DirOf(u) = offlinePrev(d) /\ i = SlotTicks
    BY <1>4, <2>1
  <2>2. CASE DirOf(u) = hourlyPrev(d) /\ i = HourTicks
    <3>1. HourTicks * 1 = HourTicks
      BY <1>3
    <3> QED
      BY <1>5, <2>2, <3>1 DEF hourlyPrev, h, m
  <2>3. CASE DirOf(u) = quadlyPrev(d) /\ i = HourTicks * QuadHours
    BY <1>3, <1>5, <2>3 DEF quadlyPrev, h, m
  <2>4. CASE DirOf(u) = d /\ u < t /\ i = Day
    BY <1>6, <2>4
  <2> QED
    BY <2>1, <2>2, <2>3, <2>4
<1>8. \/ i < Day /\ t - u >= 0
      \/ i <= Day /\ t - u > 0
  BY <1>2, DayIs
<1> QED
  BY <1>2, <1>7, <1>8, NotBefore

\* offline.sh to daily.sh: whatever runs were missed or killed, runs that keep
\* their time compare captures their interval apart, up to whole days.
THEOREM IntervalsAreKept == Spec => []IntervalUpToDays
<1>1. Init => IntervalUpToDays
  BY DEF Init, IntervalUpToDays, Compares, NoReport, Interval
<1>2. RingInv /\ TempInv /\ DateInv /\ IntervalUpToDays /\ [Next]_ringVars => IntervalUpToDays'
  <2> SUFFICES ASSUME RingInv, TempInv, DateInv, IntervalUpToDays, [Next]_ringVars, ~late'
               PROVE  IntervalUpToDays'
    BY DEF IntervalUpToDays
  <2>1. CASE report' = report /\ ~late
    BY <2>1 DEF IntervalUpToDays, Compares, Apart
  <2>2. ASSUME NEW r \in Run, RunScript(r) PROVE IntervalUpToDays'
    <3> SUFFICES ASSUME Compares'
                 PROVE  /\ Apart' >= Interval[report'.script]
                        /\ (Apart' - Interval[report'.script]) % Day = 0
      BY DEF IntervalUpToDays
    <3> DEFINE t == balances[stamp].at
               u == Previous(pc[r]).at
    <3>1. /\ ~late /\ stamp \in Dirs /\ report' = Compared(pc[r])
      BY <2>2 DEF RunScript, RingInv
    <3>2. /\ pc[r] \in DOMAIN Interval /\ report'.script = pc[r] /\ Apart' = t - u
          /\ balances[stamp] # NoFile /\ Previous(pc[r]) # NoFile
      BY <3>1, FileIs DEF Compares, Compared, Apart
    <3>3. /\ t \in Nat /\ DirOf(t) = stamp
          /\ \A d \in Dirs : balances[d] # NoFile =>
               balances[d].at \in Nat /\ balances[d].at <= t /\ DirOf(balances[d].at) = d
      BY <3>1, <3>2 DEF DateInv, Dated
    <3>4. \A d : File(d) # NoFile =>
            File(d).at \in Nat /\ File(d).at <= t /\ DirOf(File(d).at) = d
      BY <3>3 DEF File
    <3>5. temp[stamp] # NoFile =>
            temp[stamp].at \in Nat /\ temp[stamp].at < t /\ DirOf(temp[stamp].at) = stamp
      BY <3>1 DEF DateInv, Dated
    <3> HIDE DEF t
    <3>6. CASE pc[r] = "offline"
      <4>1. Previous(pc[r]) = File(offlinePrev(stamp)) /\ Interval[pc[r]] = SlotTicks
        BY <3>6 DEF Previous, Interval
      <4> QED
        BY <3>1, <3>2, <3>3, <3>4, <4>1, IntervalsApart DEF SlotTicks
    <3>7. CASE pc[r] = "hourly"
      <4>1. Previous(pc[r]) = File(hourlyPrev(stamp)) /\ Interval[pc[r]] = HourTicks
        BY <3>7 DEF Previous, Interval
      <4> QED
        BY <3>1, <3>2, <3>3, <3>4, <4>1, IntervalsApart, DayIs
    <3>8. CASE pc[r] = "quadly"
      <4>1. Previous(pc[r]) = File(quadlyPrev(stamp)) /\ Interval[pc[r]] = HourTicks * QuadHours
        BY <3>8 DEF Previous, Interval
      <4> QED
        BY <3>1, <3>2, <3>3, <3>4, <4>1, IntervalsApart, DayIs
    <3>9. CASE pc[r] = "daily"
      <4>1. Previous(pc[r]) = temp[stamp] /\ Interval[pc[r]] = Day
        BY <3>9 DEF Previous, Interval
      <4> QED
        BY <3>1, <3>2, <3>3, <3>5, <4>1, IntervalsApart, DayIs
    <3> QED
      BY <3>2, <3>6, <3>7, <3>8, <3>9 DEF Interval
  <2>3. CASE Tick \/ MissRun \/ Reboot
    BY <2>1, <2>3 DEF Tick, MissRun, Reboot
  <2>4. ASSUME NEW r \in Run, StartRun(r) \/ BeginCheck(r) \/ CheckAddress(r)
        PROVE  IntervalUpToDays'
    BY <2>1, <2>4 DEF StartRun, BeginCheck, CheckAddress
  <2>5. CASE UNCHANGED ringVars
    BY <2>1, <2>5 DEF ringVars
  <2> QED
    BY <2>2, <2>3, <2>4, <2>5 DEF Next
<1> QED
  BY RingInit, TempInit, RingStep, TempStep, AloneStep, DateStep, EarlierStep, <1>1, <1>2, PTL
     DEF Spec
-----------------------------------------------------------------------------
(* The time of day before: the directories the scripts read. *)

\* A time of which the day, the hour and the minute are known.
LEMMA DirIs ==
  ASSUME NEW u \in Nat, NEW k \in Int, NEW g \in Hours, NEW o \in Minutes,
         u = Day * k + HourTicks * g + o
  PROVE  DirOf(u) = <<g, o>>
<1> DEFINE h == DayHours * k + g
<1>1. /\ HourTicks \in Nat /\ HourTicks > 0 /\ DayHours \in Nat /\ DayHours > 0
      /\ g \in 0..(DayHours - 1) /\ o \in 0..(HourTicks - 1) /\ g \in Int /\ o \in Int
  BY Constants DEF Hours, Minutes
<1>2. h \in Int /\ u = HourTicks * h + o
  <2>1. HourTicks * (DayHours * k + g) = (HourTicks * DayHours) * k + HourTicks * g
    BY <1>1
  <2> QED
    BY <1>1, <2>1 DEF Day
<1>3. h % DayHours = g
  BY <1>1, DivisionIs
<1> HIDE DEF h
<1>4. u \div HourTicks = h /\ u % HourTicks = o
  BY <1>1, <1>2, DivisionIs
<1> QED
  BY <1>3, <1>4 DEF DirOf

\* The minute of a slot is one of a slot.
LEMMA SlotMinute ==
  ASSUME NEW t \in Nat, IsSlot(t)
  PROVE  DirOf(t)[2] \in Minutes /\ (DirOf(t)[2] = 0 \/ DirOf(t)[2] >= SlotTicks)
<1> DEFINE q == t \div HourTicks
           m == t % HourTicks
<1>1. HourTicks \in Nat /\ HourTicks > 0 /\ HourTicks % 3 = 0 /\ t % 3 = 0
  BY RingAssumption DEF RingAssumption, SlotTicks, IsSlot
<1>2. q \in Int /\ m \in 0..(HourTicks - 1) /\ t = HourTicks * q + m
  BY <1>1, DivMod
<1>3. DirOf(t)[2] = m
  BY DEF DirOf
<1> HIDE DEF q, m
<1>4. PICK w \in Int : HourTicks = 3 * w
  <2> DEFINE w == HourTicks \div 3
  <2>1. w \in Int /\ HourTicks = 3 * w
    BY <1>1
  <2> QED
    BY <2>1
<1> DEFINE z == w * q
<1>5. z \in Int /\ HourTicks * q = 3 * z
  <2>1. z \in Int
    BY <1>2, <1>4
  <2>2. (3 * w) * q = 3 * (w * q)
    BY <1>2, <1>4
  <2> QED
    BY <1>4, <2>1, <2>2
<1> HIDE DEF z
<1>6. t = 3 * z + m /\ m \in Int /\ m >= 0
  BY <1>2, <1>5
<1>7. m = 0 \/ m >= 3
  BY <1>1, <1>5, <1>6
<1> QED
  BY <1>2, <1>3, <1>7 DEF Minutes, SlotTicks

LEMMA SlotsBefore ==
  ASSUME NEW t \in Nat, IsSlot(t), NEW n \in Nat
  PROVE  HourTicks * n \in Nat /\ (t >= SlotTicks => IsSlot(t - SlotTicks))
         /\ (t >= HourTicks * n => IsSlot(t - HourTicks * n))
<1>1. HourTicks \in Nat /\ HourTicks > 0 /\ HourTicks % 3 = 0 /\ t % 3 = 0 /\ SlotTicks = 3
  BY RingAssumption DEF RingAssumption, SlotTicks, IsSlot
<1>2. PICK w \in Int : HourTicks = 3 * w
  <2> DEFINE w == HourTicks \div 3
  <2>1. w \in Int /\ HourTicks = 3 * w
    BY <1>1
  <2> QED
    BY <2>1
<1> DEFINE z == w * n
           i == HourTicks * n
<1>3. z \in Int /\ i \in Nat /\ i = 3 * z
  <2>1. z \in Int /\ i \in Nat
    BY <1>1, <1>2
  <2>2. (3 * w) * n = 3 * (w * n)
    BY <1>2
  <2> QED
    BY <1>2, <2>1, <2>2
<1> HIDE DEF z, i
<1>4. (t - i) % 3 = 0 /\ (t - 3) % 3 = 0
  BY <1>1, <1>3
<1> QED
  BY <1>1, <1>3, <1>4 DEF IsSlot, i

\* The capture of n hours before is in the directory n hours before.
LEMMA DirHoursBefore ==
  ASSUME NEW t \in Nat, NEW n \in Nat, NEW o \in Minutes, NEW u \in Nat,
         u = t - HourTicks * n - DirOf(t)[2] + o
  PROVE  DirOf(u) = <<PrevHour(DirOf(t)[1], n), o>>
<1> DEFINE h == DirOf(t)[1]
           m == DirOf(t)[2]
           g == PrevHour(h, n)
<1>1. h \in Int /\ m \in Int /\ HourTicks \in Int /\ DayHours \in Int /\ DayHours > 0 /\ o \in Int
      /\ Day = HourTicks * DayHours /\ Day \in Int
  <2>1. DirOf(t) \in Dirs /\ Dirs \subseteq Int \X Int
    BY Constants DEF Dirs, Hours, Minutes
  <2> QED
    BY <2>1, Constants, DayIs DEF Day, Minutes
<1>2. PICK a \in Int : t = Day * a + HourTicks * h + m
  BY DayOf
<1>3. PICK c \in Int : h - n = DayHours * c + g
  <2>1. \E c \in Int : h - n = DayHours * c + PrevHour(h, n)
    <3>1. h \in Int /\ n \in Int
      BY <1>1
    <3> HIDE DEF h
    <3> QED
      BY <3>1, HourBefore
  <2> QED
    BY <2>1
<1>4. g \in Hours /\ g \in Int
  <2>1. h - n \in Int
    BY <1>1
  <2>2. (h - n) % DayHours \in 0..(DayHours - 1)
    BY <1>1, <2>1
  <2> QED
    BY <2>2 DEF PrevHour, Hours
<1> HIDE DEF h, m, g
<1>5. HourTicks * (h - n) = HourTicks * (DayHours * c + g)
  BY <1>3
<1>6. HourTicks * (DayHours * c + g) = (HourTicks * DayHours) * c + HourTicks * g
  BY <1>1, <1>3, <1>4
<1>7. HourTicks * (h - n) = HourTicks * h - HourTicks * n
  BY <1>1
<1>8. Day * (a + c) = Day * a + Day * c
  BY <1>1, <1>2, <1>3
<1> DEFINE A == Day * a
           C == Day * c
           H == HourTicks * h
           G == HourTicks * g
           N == HourTicks * n
<1>9. A \in Int /\ C \in Int /\ H \in Int /\ G \in Int /\ N \in Int
  BY <1>1, <1>2, <1>3, <1>4
<1>10. /\ H - N = C + G /\ t = A + H + m /\ u = t - N - m + o
       /\ Day * (a + c) = A + C
  BY <1>1, <1>2, <1>5, <1>6, <1>7, <1>8 DEF m
<1> HIDE DEF A, C, H, G, N
<1>11. u = Day * (a + c) + G + o
  <2>1. /\ H - N = C + G /\ t = A + H + m /\ u = t - N - m + o
        /\ m \in Int /\ o \in Int /\ t \in Int
    BY <1>1, <1>10
  <2>2. u = A + C + G + o
    BY <1>9, <2>1
  <2> QED
    BY <1>10, <2>2, Zenon
<1>12. u = Day * (a + c) + HourTicks * g + o /\ a + c \in Int
  BY <1>2, <1>3, <1>11 DEF G
<1>13. DirOf(u) = <<g, o>>
  BY <1>4, <1>12, DirIs
<1> QED
  BY <1>13 DEF g, h

\* The directories of the scripts hold, if anything, the capture of their interval
\* before.
LEMMA DirsBefore ==
  ASSUME NEW t \in Nat, IsSlot(t)
  PROVE  /\ t >= SlotTicks => DirOf(t - SlotTicks) = offlinePrev(DirOf(t))
         /\ t >= HourTicks => DirOf(t - HourTicks) = hourlyPrev(DirOf(t))
         /\ t >= HourTicks * QuadHours => DirOf(t - HourTicks * QuadHours) = quadlyPrev(DirOf(t))
<1> DEFINE h == DirOf(t)[1]
           m == DirOf(t)[2]
<1>1. /\ HourTicks \in Nat /\ SlotTicks = 3 /\ SlotTicks <= HourTicks /\ QuadHours \in Nat
      /\ HourTicks * 1 = HourTicks /\ HourTicks * 0 = 0 /\ HourTicks * QuadHours \in Nat
  <2>1. HourTicks \in Nat /\ SlotTicks <= HourTicks /\ QuadHours \in Nat /\ HourTicks * QuadHours \in Nat
    BY DayIs
  <2> QED
    BY <2>1 DEF SlotTicks
<1>2. h \in Hours /\ m \in Minutes /\ m \in Int /\ (m = 0 \/ m >= 3)
  <2>1. DirOf(t) \in Dirs
    BY Constants
  <2> QED
    BY <2>1, SlotMinute DEF Dirs, SlotTicks, Hours, Minutes
<1> HIDE DEF h, m
<1>3. ASSUME NEW n \in Nat, t >= HourTicks * n, HourTicks * n \in Nat
      PROVE  DirOf(t - HourTicks * n) = <<PrevHour(h, n), m>>
  <2> DEFINE i == HourTicks * n
  <2>1. t - i \in Nat /\ t - i = t - i - m + m
    BY <1>2, <1>3
  <2> QED
    BY <1>2, <2>1, DirHoursBefore DEF h, m
<1>4. ASSUME t >= 3 PROVE DirOf(t - SlotTicks) = offlinePrev(DirOf(t))
  <2>1. t - 3 \in Nat
    BY <1>4
  <2>2. CASE m = 0
    <3>1. HourTicks - 3 \in Minutes
      BY <1>1 DEF Minutes
    <3>2. t - 3 = t - HourTicks * 1 - m + (HourTicks - 3)
      BY <1>1, <2>2
    <3>3. DirOf(t - 3) = <<PrevHour(h, 1), HourTicks - 3>>
      BY <2>1, <3>1, <3>2, DirHoursBefore DEF h, m
    <3> QED
      BY <1>1, <2>2, <3>3 DEF offlinePrev, h, m
  <2>3. CASE m # 0
    <3>1. m - 3 \in Minutes
      BY <1>1, <1>2, <2>3 DEF Minutes
    <3>2. t - 3 = t - HourTicks * 0 - m + (m - 3)
      BY <1>1, <1>2
    <3>3. DirOf(t - 3) = <<PrevHour(h, 0), m - 3>>
      BY <2>1, <3>1, <3>2, DirHoursBefore DEF h, m
    <3>4. PrevHour(h, 0) = h
      BY <1>2, SameHour
    <3> QED
      BY <1>1, <2>3, <3>3, <3>4 DEF offlinePrev, h, m
  <2> QED
    BY <2>2, <2>3
<1>5. t >= HourTicks => DirOf(t - HourTicks) = hourlyPrev(DirOf(t))
  <2>1. t >= HourTicks => DirOf(t - HourTicks * 1) = <<PrevHour(h, 1), m>>
    BY <1>1, <1>3
  <2> QED
    BY <1>1, <2>1 DEF hourlyPrev, h, m
<1>6. t >= HourTicks * QuadHours => DirOf(t - HourTicks * QuadHours) = quadlyPrev(DirOf(t))
  BY <1>1, <1>3 DEF quadlyPrev, h, m
<1> QED
  BY <1>1, <1>4, <1>5, <1>6
-----------------------------------------------------------------------------
(* With no run missed nor late, every capture is there when it is read. *)

LEMMA CaptureInit == Init => SlotInv /\ CapturedInv /\ LoneInv /\ KeptInv
<1> SUFFICES ASSUME Init PROVE SlotInv /\ CapturedInv /\ LoneInv /\ KeptInv
  OBVIOUS
<1>1. /\ now = 0 /\ ~fired /\ pc = Idle /\ balances = [d \in Dirs |-> NoFile] /\ stamp \in Dirs
      /\ \A r \in Run : pc[r] = "idle"
  BY Constants DEF Init, Idle
<1>2. SlotInv
  BY <1>1 DEF SlotInv
<1>3. CapturedInv
  <2>1. \A t \in Nat : ~Begun(t)
    BY <1>1 DEF Begun
  <2> QED
    BY <1>1, <2>1 DEF CapturedInv
<1>4. LoneInv
  BY <1>1 DEF LoneInv
<1>5. KeptInv
  <2>1. balances[stamp].at = -1 /\ Day \in Nat
    BY <1>1, DayIs DEF NoFile
  <2>2. Kept
    BY <2>1 DEF Kept
  <2> QED
    BY <2>2 DEF KeptInv
<1> QED
  BY <1>2, <1>3, <1>4, <1>5

LEMMA SlotStep == RingInv /\ AloneInv /\ SlotInv /\ [Next]_ringVars => SlotInv'
<1> SUFFICES ASSUME RingInv, AloneInv, SlotInv, [Next]_ringVars, ~late' PROVE SlotInv'
  BY DEF SlotInv
<1>1. /\ pc \in [Run -> {"idle"} \cup Checking \cup Scripts] /\ began \in [Run -> Nat]
      /\ place \in [Run -> Dirs] /\ balances \in [Dirs -> [at : Int, lines : Nat]] /\ now \in Nat
  BY DEF RingInv
<1>2. ASSUME ~late
      PROVE  /\ \A d \in Dirs : balances[d] # NoFile => IsSlot(balances[d].at)
             /\ \A r \in Run : pc[r] = "scan" => IsSlot(began[r])
             /\ \A r \in Run : pc[r] = "fetch" => IsSlot(now)
  BY <1>2 DEF SlotInv, AloneInv
<1>3. CASE Tick \/ MissRun \/ UNCHANGED ringVars
  <2>1. ~late /\ UNCHANGED <<pc, began, balances>>
    <3>1. CASE Tick
      BY <3>1 DEF Tick, runs, files
    <3>2. CASE MissRun
      BY <3>2 DEF MissRun, runs, files
    <3>3. CASE UNCHANGED ringVars
      BY <3>3 DEF ringVars, runs, files
    <3> QED
      BY <1>3, <3>1, <3>2, <3>3
  <2> QED
    BY <1>2, <2>1 DEF SlotInv
<1>4. CASE Reboot
  <2>1. ~late /\ balances' = balances /\ \A r \in Run : pc'[r] # "scan"
    BY <1>4 DEF Reboot, files, Idle
  <2> QED
    BY <1>2, <2>1 DEF SlotInv
<1>5. ASSUME NEW r \in Run, StartRun(r) PROVE SlotInv'
  <2>1. ~late /\ balances' = balances /\ pc'[r] # "scan"
        /\ \A q \in Run \ {r} : pc'[q] = pc[q] /\ began'[q] = began[q]
    BY <1>1, <1>5 DEF StartRun, files
  <2> QED
    BY <1>2, <2>1 DEF SlotInv
<1>6. ASSUME NEW r \in Run, BeginCheck(r) PROVE SlotInv'
  <2>1. ~late /\ pc[r] = "fetch" /\ began'[r] = now
        /\ \A q \in Run \ {r} : pc'[q] = pc[q] /\ began'[q] = began[q]
    BY <1>1, <1>6 DEF BeginCheck
  <2>2. \A d \in Dirs : balances'[d] = balances[d] \/ balances'[d].at = now
    BY <1>1, <1>6 DEF BeginCheck
  <2>3. IsSlot(now)
    BY <1>2, <2>1
  <2> QED
    BY <1>2, <2>1, <2>2, <2>3 DEF SlotInv
<1>7. ASSUME NEW r \in Run, CheckAddress(r) PROVE SlotInv'
  <2>1. ~late /\ pc[r] = "scan" /\ began' = began /\ \A q \in Run : pc'[q] = "scan" => pc[q] = "scan"
    BY <1>1, <1>7 DEF CheckAddress
  <2>2. \A d \in Dirs \ {place[r]} : balances'[d] = balances[d]
    BY <1>1, <1>7 DEF CheckAddress
  <2>3. /\ balances[place[r]] = NoFile => balances'[place[r]].at = began[r]
        /\ balances[place[r]] # NoFile => balances'[place[r]].at = balances[place[r]].at
    BY <1>1, <1>7 DEF CheckAddress
  <2>4. IsSlot(balances'[place[r]].at)
    BY <1>1, <1>2, <2>1, <2>3
  <2> QED
    BY <1>2, <2>1, <2>2, <2>4 DEF SlotInv
<1>8. ASSUME NEW r \in Run, RunScript(r) PROVE SlotInv'
  <2>1. ~late /\ balances' = balances /\ pc'[r] # "scan"
        /\ \A q \in Run \ {r} : pc'[q] = pc[q] /\ began'[q] = began[q]
    BY <1>1, <1>8 DEF RunScript, Scripts, After
  <2> QED
    BY <1>2, <2>1 DEF SlotInv
<1> QED
  BY <1>3, <1>4, <1>5, <1>6, <1>7, <1>8 DEF Next

LEMMA LoneStep == RingInv /\ LoneInv /\ [Next]_ringVars => LoneInv'
<1> SUFFICES ASSUME RingInv, LoneInv, [Next]_ringVars, ~late' PROVE LoneInv'
  BY DEF LoneInv
<1>1. pc \in [Run -> {"idle"} \cup Checking \cup Scripts] /\ SlotTicks = 3
  BY DEF RingInv, SlotTicks
<1>2. CASE Tick
  <2>1. now' = now + 1 /\ pc' = pc /\ \A r \in Run : OnTime(r)
    BY <1>2 DEF Tick, runs
  <2>2. now' % SlotTicks = 2 => \A r \in Run : pc'[r] = "idle"
    BY <1>1, <2>1 DEF OnTime
  <2> QED
    BY <2>2 DEF LoneInv
<1>3. CASE MissRun
  <2>1. ~late /\ fired' /\ now' = now /\ pc' = pc
    BY <1>3 DEF MissRun, runs
  <2> QED
    BY <2>1 DEF LoneInv
<1>4. CASE UNCHANGED ringVars
  <2>1. ~late /\ fired' = fired /\ now' = now /\ pc' = pc
    BY <1>4 DEF ringVars, runs
  <2> QED
    BY <2>1 DEF LoneInv
<1>5. CASE Reboot
  BY <1>5 DEF Reboot, Idle, LoneInv
<1>6. ASSUME NEW r \in Run, StartRun(r) PROVE LoneInv'
  <2>1. ~late /\ ~fired /\ fired' /\ now' = now /\ \A q \in Run \ {r} : pc'[q] = pc[q]
    BY <1>1, <1>6 DEF StartRun
  <2> QED
    BY <2>1 DEF LoneInv
<1>7. ASSUME NEW r \in Run, BeginCheck(r) \/ CheckAddress(r) \/ RunScript(r) PROVE LoneInv'
  <2>1. ~late /\ fired' = fired /\ now' = now /\ pc[r] # "idle"
        /\ \A q \in Run \ {r} : pc'[q] = pc[q]
    BY <1>1, <1>7 DEF BeginCheck, CheckAddress, RunScript, Scripts
  <2> QED
    BY <2>1 DEF LoneInv
<1> QED
  BY <1>2, <1>3, <1>4, <1>5, <1>6, <1>7 DEF Next

\* When a check dates itself, yesterday's capture is there; on the first day none is.
LEMMA DayBefore ==
  ASSUME RingInv, AloneInv, DateInv, EarlierInv, CapturedInv, missed = 0, ~late,
         NEW r \in Run, pc[r] = "fetch"
  PROVE  LET d == DirOf(now) IN
         IF now >= Day THEN balances[d] # NoFile /\ balances[d].at = now - Day
         ELSE balances[d] = NoFile
<1> DEFINE d == DirOf(now)
           b == balances[d].at
<1>1. /\ now \in Nat /\ d \in Dirs /\ balances \in [Dirs -> [at : Int, lines : Nat]]
      /\ Day \in Nat /\ Day > 0 /\ SlotTicks = 3
  BY Constants, DayIs DEF RingInv
<1>2. /\ IsSlot(now) /\ \A q \in Run : pc[q] # "scan"
  BY DEF AloneInv, Checking
<1>3. balances[d] # NoFile => b \in Nat /\ b < now /\ DirOf(b) = d
  BY <1>1 DEF EarlierInv, DateInv, Dated
<1>4. balances[d] # NoFile => now - b >= Day /\ (now - b - Day) % Day = 0
  <2>1. ASSUME balances[d] # NoFile PROVE now - b >= Day /\ (now - b - Day) % Day = 0
    <3>1. b \in Nat /\ b <= now /\ b < now /\ DirOf(b) = d /\ DirOf(now) = d
      BY <1>1, <1>3, <2>1
    <3> HIDE DEF b, d
    <3> QED
      BY <1>1, <3>1, IntervalsApart
  <2> QED
    BY <2>1
<1>5. CASE now >= Day
  <2> DEFINE t == now - Day
  <2>1. t \in Nat /\ t < now
    BY <1>1, <1>5
  <2>2. IsSlot(t) /\ DirOf(t) = d
    <3>1. Day = HourTicks * DayHours /\ DayHours \in Nat
      BY Constants DEF Day
    <3>2. IsSlot(now - HourTicks * DayHours)
      BY <1>1, <1>2, <1>5, <3>1, SlotsBefore
    <3>3. DirOf(t) = <<PrevHour(d[1], DayHours), d[2]>>
      <4>1. d[2] \in Minutes /\ d[2] \in Int
        BY <1>1, Constants DEF Dirs, Minutes
      <4>2. t = now - HourTicks * DayHours - DirOf(now)[2] + d[2]
        BY <1>1, <3>1, <4>1
      <4> QED
        BY <1>1, <2>1, <3>1, <4>1, <4>2, DirHoursBefore
    <3>4. PrevHour(d[1], DayHours) = d[1] /\ d = <<d[1], d[2]>>
      <4>1. d[1] \in 0..(DayHours - 1) /\ DayHours > 0 /\ d = <<d[1], d[2]>>
        BY <1>1, Constants DEF Dirs, Hours
      <4> DEFINE e == d[1]
      <4>2. DayHours \in Int /\ -1 \in Int /\ e \in 0..(DayHours - 1)
        BY <3>1, <4>1
      <4> HIDE DEF e
      <4>3. (DayHours * (-1) + e) % DayHours = e
        BY <4>1, <4>2, DivisionIs
      <4>4. e - DayHours = DayHours * (-1) + e
        BY <4>2
      <4>5. (e - DayHours) % DayHours = e
        BY <4>3, <4>4
      <4> QED
        BY <4>1, <4>5 DEF PrevHour, e
    <3> QED
      BY <3>1, <3>2, <3>3, <3>4
  <2>3. Begun(t)
    BY <1>1, <2>1, <2>2 DEF Begun
  <2>4. b >= t
    BY <1>2, <2>1, <2>2, <2>3 DEF CapturedInv
  <2>5. balances[d] # NoFile
    BY <2>1, <2>4 DEF NoFile
  <2>6. b = now - Day
    BY <1>1, <1>3, <1>4, <2>4, <2>5
  <2> QED
    BY <1>5, <2>5, <2>6
<1>6. CASE ~(now >= Day)
  BY <1>1, <1>3, <1>4, <1>6
<1> QED
  BY <1>5, <1>6

\* A run of another slot's part leaves captures and checks alone.
LEMMA CapturedStays ==
  ASSUME CapturedInv, missed = 0, ~late, balances' = balances, missed' = missed,
         \A t \in Nat : Begun(t)' => Begun(t),
         \A r \in Run : /\ pc[r] = "scan" <=> pc'[r] = "scan"
                        /\ pc[r] = "scan" => began'[r] = began[r] /\ place'[r] = place[r]
  PROVE  CapturedInv'
BY DEF CapturedInv

LEMMA CapturedStep ==
  RingInv /\ AloneInv /\ DateInv /\ EarlierInv /\ CapturedInv /\ [Next]_ringVars => CapturedInv'
<1> SUFFICES ASSUME RingInv, AloneInv, DateInv, EarlierInv, CapturedInv, [Next]_ringVars,
                    missed' = 0, ~late'
             PROVE  CapturedInv'
  BY DEF CapturedInv
<1>1. /\ pc \in [Run -> {"idle"} \cup Checking \cup Scripts] /\ began \in [Run -> Nat]
      /\ place \in [Run -> Dirs] /\ balances \in [Dirs -> [at : Int, lines : Nat]] /\ now \in Nat
      /\ missed \in Nat /\ Day \in Nat
  BY DayIs DEF RingInv
<1>2. CASE Tick
  <2>1. /\ ~late /\ fired /\ now' = now + 1 /\ ~fired' /\ missed' = missed
        /\ balances' = balances /\ pc' = pc /\ began' = began /\ place' = place
        /\ \A r \in Run : pc[r] # "fetch"
    BY <1>2 DEF Tick, OnTime, runs, files
  <2>2. ASSUME NEW t \in Nat, Begun(t)' PROVE Begun(t)
    BY <1>1, <2>1, <2>2 DEF Begun
  <2> QED
    BY <2>1, <2>2, CapturedStays
<1>3. CASE MissRun \/ Reboot
  <2>1. missed' = missed + 1
    BY <1>3 DEF MissRun, Reboot
  <2> QED
    BY <1>1, <2>1
<1>4. CASE UNCHANGED ringVars
  <2>1. /\ ~late /\ UNCHANGED <<now, fired, missed, pc, began, place, balances>>
    BY <1>4 DEF ringVars, runs, files
  <2>2. \A t \in Nat : Begun(t)' <=> Begun(t)
    BY <2>1 DEF Begun
  <2> QED
    BY <2>1, <2>2, CapturedStays
<1>5. ASSUME NEW r \in Run, StartRun(r) PROVE CapturedInv'
  <2>1. /\ ~late /\ ~fired /\ now' = now /\ missed' = missed /\ UNCHANGED balances
        /\ pc[r] = "idle" /\ pc'[r] = (IF IsSlot(now) THEN "fetch" ELSE "hourly")
        /\ \A q \in Run \ {r} : pc'[q] = pc[q] /\ began'[q] = began[q]
        /\ place' = place
    BY <1>1, <1>5 DEF StartRun, files
  <2>2. ASSUME NEW t \in Nat, Begun(t)' PROVE Begun(t)
    BY <2>1, <2>2 DEF Begun
  <2> QED
    BY <2>1, <2>2, CapturedStays
<1>6. ASSUME NEW r \in Run, RunScript(r) PROVE CapturedInv'
  <2>1. /\ ~late /\ now' = now /\ fired' = fired /\ missed' = missed /\ balances' = balances
        /\ pc[r] \in Scripts /\ pc'[r] \in Scripts \cup {"idle"}
        /\ \A q \in Run \ {r} : pc'[q] = pc[q] /\ began'[q] = began[q] /\ place'[q] = place[q]
    BY <1>1, <1>6 DEF RunScript, Scripts, After
  <2>2. ASSUME NEW t \in Nat, Begun(t)' PROVE Begun(t)
    BY <2>1, <2>2 DEF Begun, Scripts
  <2> QED
    BY <2>1, <2>2, CapturedStays DEF Scripts
<1>7. ASSUME NEW r \in Run, BeginCheck(r) PROVE CapturedInv'
  <2> DEFINE d == DirOf(now)
  <2>1. /\ ~late /\ now' = now /\ fired' = fired /\ missed' = missed /\ missed = 0
        /\ pc[r] = "fetch" /\ pc'[r] = "scan" /\ began'[r] = now /\ place'[r] = d /\ d \in Dirs
        /\ \A q \in Run \ {r} : pc'[q] = pc[q]
        /\ \A e \in Dirs \ {d} : balances'[e] = balances[e]
        /\ IF balances[d] = NoFile THEN balances' = balances ELSE balances'[d].at = now
    BY <1>1, <1>7, Constants DEF BeginCheck
  <2>2. \A q \in Run : pc[q] # "scan" /\ (pc'[q] = "scan" => q = r)
    BY <2>1 DEF AloneInv, Checking
  <2>3. IF now >= Day THEN balances[d] # NoFile /\ balances[d].at = now - Day ELSE balances[d] = NoFile
    BY <2>1, DayBefore
  <2>4. ASSUME NEW q \in Run, pc'[q] = "scan", balances'[place'[q]] = NoFile PROVE began'[q] < Day
    <3>1. q = r /\ balances'[d] = NoFile
      BY <2>1, <2>2, <2>4
    <3>2. balances[d] = NoFile
      BY <1>1, <2>1, <3>1 DEF NoFile
    <3> QED
      BY <1>1, <2>1, <2>3, <3>1, <3>2
  <2>5. ASSUME NEW t \in Nat, Begun(t)'
        PROVE  \/ balances'[DirOf(t)].at >= t
               \/ \E q \in Run : /\ pc'[q] = "scan" /\ began'[q] = t /\ place'[q] = DirOf(t)
                                 /\ balances'[DirOf(t)] = NoFile
    <3>1. IsSlot(t) /\ t <= now /\ DirOf(t) \in Dirs
      BY <2>1, <2>5, Constants DEF Begun
    <3>2. CASE t = now
      <4>1. CASE balances[d] = NoFile
        BY <2>1, <3>2, <4>1
      <4>2. CASE balances[d] # NoFile
        BY <1>1, <2>1, <3>2, <4>2
      <4> QED
        BY <4>1, <4>2
    <3>3. CASE t # now
      <4>1. balances[DirOf(t)].at >= t
        <5>1. Begun(t)
          BY <3>1, <3>3 DEF Begun
        <5> QED
          BY <2>1, <2>2, <5>1 DEF CapturedInv
      <4>2. CASE DirOf(t) # d
        BY <2>1, <3>1, <4>1, <4>2
      <4>3. CASE DirOf(t) = d
        <5>1. balances[d] # NoFile
          BY <4>1, <4>3 DEF NoFile
        <5> QED
          BY <1>1, <2>1, <3>1, <4>3, <5>1
      <4> QED
        BY <4>2, <4>3
    <3> QED
      BY <3>2, <3>3
  <2> QED
    BY <2>4, <2>5 DEF CapturedInv
<1>8. ASSUME NEW r \in Run, CheckAddress(r) PROVE CapturedInv'
  <2> DEFINE p == place[r]
  <2>1. /\ ~late /\ now' = now /\ fired' = fired /\ missed' = missed /\ missed = 0
        /\ pc[r] = "scan" /\ began' = began /\ place' = place /\ p \in Dirs
        /\ pc'[r] \in {"scan", "offline"}
        /\ \A q \in Run \ {r} : pc'[q] = pc[q]
        /\ \A e \in Dirs \ {p} : balances'[e] = balances[e]
        /\ balances'[p].at = IF balances[p] = NoFile THEN began[r] ELSE balances[p].at
    BY <1>1, <1>8 DEF CheckAddress
  <2>2. \A q \in Run : pc[q] = "scan" => q = r
    BY <2>1 DEF AloneInv, Checking
  <2>3. balances'[p] # NoFile
    <3>1. balances[p] # NoFile => balances[p].at \in Nat
      BY <2>1 DEF DateInv, Dated
    <3>2. balances'[p].at \in Nat
      BY <1>1, <2>1, <3>1
    <3> QED
      BY <3>2 DEF NoFile
  <2>4. ASSUME NEW q \in Run, pc'[q] = "scan", balances'[place'[q]] = NoFile PROVE began'[q] < Day
    BY <2>1, <2>2, <2>3, <2>4
  <2>5. ASSUME NEW t \in Nat, Begun(t)'
        PROVE  balances'[DirOf(t)].at >= t
    <3>1. Begun(t) /\ DirOf(t) \in Dirs
      <4>1. pc[r] # "fetch"
        BY <2>1
      <4> QED
        BY <2>1, <2>5, <4>1, Constants DEF Begun
    <3>2. \/ balances[DirOf(t)].at >= t
          \/ /\ began[r] = t /\ p = DirOf(t) /\ balances[DirOf(t)] = NoFile
      BY <2>1, <2>2, <3>1 DEF CapturedInv
    <3>3. CASE DirOf(t) # p
      BY <2>1, <3>1, <3>2, <3>3
    <3>4. CASE DirOf(t) = p
      <4>1. CASE balances[p] = NoFile
        <5>1. ~(balances[p].at >= t)
          BY <4>1 DEF NoFile
        <5> QED
          BY <1>1, <2>1, <3>2, <3>4, <4>1, <5>1
      <4>2. CASE balances[p] # NoFile
        BY <2>1, <3>2, <3>4, <4>2
      <4> QED
        BY <4>1, <4>2
    <3> QED
      BY <3>3, <3>4
  <2> QED
    BY <2>4, <2>5 DEF CapturedInv
<1> QED
  BY <1>2, <1>3, <1>4, <1>5, <1>6, <1>7, <1>8 DEF Next

LEMMA KeptStep ==
  RingInv /\ TempInv /\ AloneInv /\ DateInv /\ EarlierInv /\ CapturedInv /\ LoneInv /\ KeptInv
    /\ [Next]_ringVars => KeptInv'
<1> SUFFICES ASSUME RingInv, TempInv, AloneInv, DateInv, EarlierInv, CapturedInv, LoneInv, KeptInv,
                    [Next]_ringVars, missed' = 0, ~late'
             PROVE  Kept' \/ Cleaned'
  BY DEF KeptInv
<1>1. /\ pc \in [Run -> {"idle"} \cup Checking \cup Scripts] /\ began \in [Run -> Nat]
      /\ place \in [Run -> Dirs] /\ balances \in [Dirs -> [at : Int, lines : Nat]] /\ now \in Nat
      /\ missed \in Nat /\ Day \in Nat /\ SlotTicks = 3 /\ stamp \in Dirs
  BY DayIs DEF RingInv, SlotTicks
<1>2. UNCHANGED <<balances, temp, stamp>> => (Kept' <=> Kept)
  BY DEF Kept
<1>3. missed = 0 /\ ~late => Kept \/ Cleaned
  BY DEF KeptInv
<1>4. CASE Tick
  <2>1. /\ ~late /\ fired /\ now' = now + 1 /\ ~fired' /\ missed' = missed
        /\ UNCHANGED <<balances, temp, stamp, pc>> /\ \A r \in Run : pc[r] # "fetch"
    BY <1>4 DEF Tick, OnTime, runs, files
  <2>2. CASE Cleaned
    <3>1. now % 3 = 2 /\ \A r \in Run : pc[r] \in {"idle", "totally"}
      BY <1>1, <2>1, <2>2 DEF Cleaned
    <3>2. now' % 3 = 0
      <4>1. \A n \in Nat : n % 3 = 2 => (n + 1) % 3 = 0
        OBVIOUS
      <4> QED
        BY <1>1, <2>1, <3>1, <4>1
    <3> QED
      BY <1>1, <2>1, <3>1, <3>2 DEF Cleaned, IsSlot
  <2> QED
    BY <1>2, <1>3, <2>1, <2>2
<1>5. CASE MissRun \/ Reboot
  <2>1. missed' = missed + 1
    BY <1>5 DEF MissRun, Reboot
  <2> QED
    BY <1>1, <2>1
<1>6. CASE UNCHANGED ringVars
  <2>1. /\ ~late /\ UNCHANGED <<now, fired, missed, pc, balances, temp, stamp>>
    BY <1>6 DEF ringVars, runs, files
  <2> QED
    BY <1>2, <1>3, <2>1 DEF Cleaned
<1>7. ASSUME NEW r \in Run, StartRun(r) PROVE Kept' \/ Cleaned'
  <2>1. /\ ~late /\ ~fired /\ now' = now /\ missed' = missed /\ UNCHANGED <<balances, temp, stamp>>
        /\ pc'[r] = (IF IsSlot(now) THEN "fetch" ELSE "hourly")
        /\ \A q \in Run \ {r} : pc'[q] = pc[q]
    BY <1>1, <1>7 DEF StartRun, files
  <2>2. CASE Cleaned
    BY <2>1, <2>2 DEF Cleaned
  <2> QED
    BY <1>2, <1>3, <2>1, <2>2
<1>8. ASSUME NEW r \in Run, BeginCheck(r) PROVE Kept' \/ Cleaned'
  <2> DEFINE d == DirOf(now)
  <2>1. ~late /\ missed' = missed /\ missed = 0 /\ pc[r] = "fetch" /\ stamp' = d /\ d \in Dirs
    BY <1>1, <1>8, Constants DEF BeginCheck
  <2>2. IF now >= Day THEN balances[d] # NoFile /\ balances[d].at = now - Day ELSE balances[d] = NoFile
    BY <2>1, DayBefore
  <2>3. IF balances[d] = NoFile THEN balances' = balances /\ temp' = temp
        ELSE balances'[d].at = now /\ temp'[d] = balances[d]
    BY <1>1, <1>8, <2>1 DEF BeginCheck, TempInv
  <2>4. CASE now >= Day
    BY <2>1, <2>2, <2>3, <2>4 DEF Kept
  <2>5. CASE ~(now >= Day)
    <3>1. balances'[d].at = -1
      BY <2>2, <2>3, <2>5 DEF NoFile
    <3> QED
      BY <1>1, <2>1, <3>1 DEF Kept
  <2> QED
    BY <2>4, <2>5
<1>9. ASSUME NEW r \in Run, CheckAddress(r) PROVE Kept' \/ Cleaned'
  <2>1. /\ ~late /\ missed' = missed /\ missed = 0 /\ pc[r] = "scan"
        /\ temp' = temp /\ stamp' = stamp /\ place[r] = stamp
    BY <1>9 DEF CheckAddress, DateInv
  <2>2. Kept
    BY <1>3, <2>1 DEF Cleaned
  <2>3. balances'[stamp].at = IF balances[stamp] = NoFile THEN began[r] ELSE balances[stamp].at
    BY <1>1, <1>9, <2>1 DEF CheckAddress
  <2>4. balances[stamp] = NoFile => began[r] < Day
    BY <2>1 DEF CapturedInv
  <2> QED
    BY <1>1, <2>1, <2>2, <2>3, <2>4 DEF Kept
<1>10. ASSUME NEW r \in Run, RunScript(r) PROVE Kept' \/ Cleaned'
  <2>1. /\ ~late /\ now' = now /\ fired' = fired /\ missed' = missed /\ missed = 0
        /\ balances' = balances /\ stamp' = stamp
        /\ pc[r] \in Scripts /\ pc'[r] = After[pc[r]]
        /\ \A q \in Run \ {r} : pc'[q] = pc[q]
        /\ ~(pc[r] = "daily" /\ now % SlotTicks = SlotTicks - 1) => temp' = temp
    BY <1>1, <1>10 DEF RunScript
  <2>2. CASE Cleaned
    <3>1. pc[r] = "totally"
      BY <2>1, <2>2 DEF Cleaned, Scripts
    <3>2. pc'[r] = "idle" /\ temp' = temp
      BY <2>1, <3>1 DEF After
    <3> QED
      BY <2>1, <2>2, <3>1, <3>2 DEF Cleaned
  <2>3. CASE pc[r] = "daily" /\ now % SlotTicks = SlotTicks - 1
    <3>1. fired /\ (\A q \in Run : q # r => pc[q] = "idle") /\ now % SlotTicks = 2
      BY <1>1, <2>1, <2>3 DEF LoneInv
    <3>2. pc'[r] = "totally"
      BY <2>1, <2>3 DEF After
    <3> QED
      BY <2>1, <3>1, <3>2 DEF Cleaned
  <2>4. CASE Kept /\ ~(pc[r] = "daily" /\ now % SlotTicks = SlotTicks - 1)
    BY <1>2, <2>1, <2>4
  <2> QED
    BY <1>3, <2>1, <2>2, <2>3, <2>4
<1> QED
  BY <1>4, <1>5, <1>6, <1>7, <1>8, <1>9, <1>10 DEF Next

\* The capture of a script's interval before is in its directory, and of its time.
LEMMA PreviousIsThere ==
  ASSUME RingInv, DateInv, SlotInv, CapturedInv, missed = 0, ~late,
         balances[stamp] # NoFile, NEW i \in Nat, i < Day, i > 0, balances[stamp].at >= i,
         IsSlot(balances[stamp].at - i)
  PROVE  LET d == DirOf(balances[stamp].at - i) IN
         d \in Dirs /\ balances[d] # NoFile /\ balances[d].at = balances[stamp].at - i
<1> DEFINE c == balances[stamp].at
           t == c - i
           d == DirOf(t)
           b == balances[d].at
<1>1. /\ stamp \in Dirs /\ balances \in [Dirs -> [at : Int, lines : Nat]] /\ now \in Nat
      /\ Day \in Nat /\ Day > 0
  BY DayIs DEF RingInv
<1>2. c \in Nat /\ c <= now /\ \A e \in Dirs : balances[e] # NoFile => balances[e].at <= c
  BY <1>1 DEF DateInv, Dated
<1>3. t \in Nat /\ t < now /\ d \in Dirs
  BY <1>1, <1>2, Constants
<1>4. Begun(t)
  BY <1>1, <1>3 DEF Begun
<1>5. b >= t
  <2>1. CASE \E r \in Run : pc[r] = "scan" /\ place[r] = d /\ balances[d] = NoFile
    BY <2>1 DEF DateInv
  <2> QED
    BY <1>3, <1>4, <2>1 DEF CapturedInv
<1>6. balances[d] # NoFile
  BY <1>3, <1>5 DEF NoFile
<1>7. b \in Nat /\ b <= c /\ DirOf(b) = d
  BY <1>2, <1>3, <1>6 DEF DateInv, Dated
<1>8. b = t
  <2>1. t < b => b - t >= Day
    <3>1. ASSUME t < b PROVE b - t >= Day
      <4> HIDE DEF b, t, d
      <4>1. t <= b /\ DirOf(t) = DirOf(b)
        BY <1>3, <1>7, <3>1 DEF d
      <4>2. DirOf(b) \in Dirs
        BY <1>7, Constants
      <4> QED
        BY <1>1, <1>3, <1>7, <3>1, <4>1, <4>2, IntervalsApart
    <3> QED
      BY <3>1
  <2> QED
    BY <1>1, <1>2, <1>3, <1>5, <1>7, <2>1
<1> QED
  BY <1>3, <1>6, <1>8

\* With no run missed nor late, every report finds the capture of its interval
\* before: daily.sh:27-30 deletes yesterday's only after its last reader.
THEOREM ReportsFindTheirCaptures == Spec => []ReportsAreComplete
<1>1. Init => ReportsAreComplete
  BY DEF Init, ReportsAreComplete, NoReport
<1>2. RingInv /\ TempInv /\ DateInv /\ SlotInv /\ CapturedInv /\ KeptInv /\ ReportsAreComplete
        /\ [Next]_ringVars => ReportsAreComplete'
  <2> SUFFICES ASSUME RingInv, TempInv, DateInv, SlotInv, CapturedInv, KeptInv, ReportsAreComplete,
                      [Next]_ringVars, ~late', missed' = 0
               PROVE  ReportsAreComplete'
    BY DEF ReportsAreComplete
  <2>1. CASE report' = report /\ ~late /\ missed = 0
    BY <2>1 DEF ReportsAreComplete, Apart
  <2>2. ASSUME NEW r \in Run, RunScript(r) PROVE ReportsAreComplete'
    <3> SUFFICES ASSUME report'.script \in DOMAIN Interval, report'.cur # NoFile,
                        report'.cur.at >= Interval[report'.script]
                 PROVE  report'.prev # NoFile /\ Apart' = Interval[report'.script]
      BY DEF ReportsAreComplete
    <3> DEFINE c == balances[stamp].at
    <3>1. ~late /\ missed = 0 /\ stamp \in Dirs /\ report' = Compared(pc[r])
      BY <2>2 DEF RunScript, RingInv
    <3>2. /\ report'.script = pc[r] /\ report'.cur = balances[stamp] /\ balances[stamp] # NoFile
          /\ report'.prev = Previous(pc[r]) /\ Apart' = c - Previous(pc[r]).at
          /\ pc[r] \in DOMAIN Interval /\ c >= Interval[pc[r]]
      BY <3>1, FileIs DEF Compared, Apart
    <3>3. c \in Nat /\ DirOf(c) = stamp /\ IsSlot(c)
      BY <3>1, <3>2 DEF DateInv, Dated, SlotInv
    <3>4. ASSUME NEW i \in Nat, i < Day, i > 0, IsSlot(c - i), c >= i, Interval[pc[r]] = i,
                 Previous(pc[r]) = File(DirOf(c - i))
          PROVE  report'.prev # NoFile /\ Apart' = Interval[pc[r]]
      <4> DEFINE e == DirOf(c - i)
      <4>1. e \in Dirs /\ balances[e] # NoFile /\ balances[e].at = c - i
        BY <3>1, <3>2, <3>4, PreviousIsThere
      <4>2. Previous(pc[r]) = balances[e]
        BY <3>4, <4>1, FileIs
      <4> QED
        BY <3>2, <3>3, <3>4, <4>1, <4>2
    <3> HIDE DEF c
    <3>5. /\ SlotTicks \in Nat /\ SlotTicks > 0 /\ SlotTicks < Day
          /\ HourTicks \in Nat /\ HourTicks > 0 /\ HourTicks < Day
          /\ HourTicks * QuadHours \in Nat /\ HourTicks * QuadHours > 0 /\ HourTicks * QuadHours < Day
          /\ QuadHours \in Nat /\ HourTicks * 1 = HourTicks
      BY DayIs DEF SlotTicks
    <3>6. CASE pc[r] = "offline"
      <4>1. Interval[pc[r]] = SlotTicks /\ Previous(pc[r]) = File(offlinePrev(stamp))
        BY <3>6 DEF Previous, Interval
      <4>2. c >= SlotTicks /\ DirOf(c - SlotTicks) = offlinePrev(stamp) /\ IsSlot(c - SlotTicks)
        BY <3>2, <3>3, <3>5, <4>1, DirsBefore, SlotsBefore
      <4> QED
        BY <3>2, <3>4, <3>5, <4>1, <4>2
    <3>7. CASE pc[r] = "hourly"
      <4>1. Interval[pc[r]] = HourTicks /\ Previous(pc[r]) = File(hourlyPrev(stamp))
        BY <3>7 DEF Previous, Interval
      <4>2. c >= HourTicks /\ DirOf(c - HourTicks) = hourlyPrev(stamp)
        BY <3>2, <3>3, <4>1, DirsBefore
      <4>3. IsSlot(c - HourTicks)
        <5>1. c >= HourTicks * 1 => IsSlot(c - HourTicks * 1)
          BY <3>3, SlotsBefore
        <5> QED
          BY <3>5, <4>2, <5>1
      <4> QED
        BY <3>2, <3>4, <3>5, <4>1, <4>2, <4>3
    <3>8. CASE pc[r] = "quadly"
      <4>1. Interval[pc[r]] = HourTicks * QuadHours /\ Previous(pc[r]) = File(quadlyPrev(stamp))
        BY <3>8 DEF Previous, Interval
      <4>2. /\ c >= HourTicks * QuadHours /\ DirOf(c - HourTicks * QuadHours) = quadlyPrev(stamp)
            /\ IsSlot(c - HourTicks * QuadHours)
        BY <3>2, <3>3, <3>5, <4>1, DirsBefore, SlotsBefore
      <4> QED
        BY <3>2, <3>4, <3>5, <4>1, <4>2
    <3>9. CASE pc[r] = "daily"
      <4>1. Interval[pc[r]] = Day /\ Previous(pc[r]) = temp[stamp]
        BY <3>9 DEF Previous, Interval
      <4>2. ~Cleaned
        BY <3>9 DEF Cleaned
      <4>3. temp[stamp].at = c - Day /\ c >= Day
        BY <3>1, <3>2, <4>1, <4>2 DEF KeptInv, Kept, c
      <4>4. temp[stamp] # NoFile
        BY <3>3, <4>3, DayIs DEF NoFile
      <4> QED
        BY <3>2, <3>3, <4>1, <4>3, <4>4, DayIs
    <3> QED
      BY <3>2, <3>6, <3>7, <3>8, <3>9 DEF Interval
  <2>3. CASE Tick
    BY <2>1, <2>3 DEF Tick
  <2>4. CASE MissRun \/ Reboot
    <3>1. missed' = missed + 1 /\ missed \in Nat
      BY <2>4 DEF MissRun, Reboot, RingInv
    <3> QED
      BY <3>1
  <2>5. ASSUME NEW r \in Run, StartRun(r) \/ BeginCheck(r) \/ CheckAddress(r)
        PROVE  ReportsAreComplete'
    BY <2>1, <2>5 DEF StartRun, BeginCheck, CheckAddress
  <2>6. CASE UNCHANGED ringVars
    BY <2>1, <2>6 DEF ringVars
  <2> QED
    BY <2>2, <2>3, <2>4, <2>5, <2>6 DEF Next
<1> QED
  BY RingInit, TempInit, CaptureInit, RingStep, TempStep, AloneStep, DateStep, EarlierStep,
     SlotStep, CapturedStep, LoneStep, KeptStep, <1>1, <1>2, PTL DEF Spec
-----------------------------------------------------------------------------
(* The reports: every line is of one address. *)

\* A capture and the truth at its time are of the same addresses; an answer is
\* the truth, and an address that did not answer has nothing.
IsTrue(c, t) ==
  /\ DOMAIN c \in SUBSET Addr /\ DOMAIN t = DOMAIN c
  /\ \A a \in DOMAIN c :
       /\ t[a] \in Nat /\ c[a].shard \in Int
       /\ c[a].amount = IF c[a].shard = -1 THEN 0 ELSE t[a]

CapturesInv ==
  /\ listed \in SUBSET Addr /\ chain \in [Addr -> Nat]
  /\ Len(captures) \in Nat /\ DOMAIN captures = 1..Len(captures)
  /\ Len(truth) = Len(captures) /\ DOMAIN truth = 1..Len(captures)
  /\ \A n \in 1..Len(captures) : IsTrue(captures[n], truth[n])

LEMMA ReportConstants ==
  /\ Addr \in SUBSET Int /\ IsFiniteSet(Addr) /\ Lag \in Nat /\ Lag >= 1
BY ReportAssumption DEF ReportAssumption

\* getdiff pairs the lines of equal addresses.
LEMMA GetdiffIs ==
  ASSUME NEW cur, NEW prev, DOMAIN cur \in SUBSET Addr, DOMAIN prev \in SUBSET Addr
  PROVE  getdiff(cur, prev) =
           {Row(a, cur[a].shard, IF Known(prev, a) THEN cur[a].amount - prev[a].amount
                                 ELSE cur[a].amount) : a \in DOMAIN cur}
<1> DEFINE extra == {a \in DOMAIN cur : ~Known(prev, a)}
           both  == DOMAIN cur \ extra
           N     == Cardinality(both)
           curr  == Ascending(both)
           prevs == Ascending({a \in DOMAIN prev : Known(cur, a)})
           diff(a) == Row(a, cur[a].shard, cur[a].amount - prev[a].amount)
           whole(a) == Row(a, cur[a].shard, cur[a].amount)
           pasted(i) == Row(curr[i], cur[curr[i]].shard, cur[curr[i]].amount - prev[prevs[i]].amount)
<1>1. both = {a \in DOMAIN prev : Known(cur, a)} /\ both \in SUBSET Addr
  BY DEF Known
<1>2. curr = prevs
  BY <1>1, Zenon
<1>3. both \in SUBSET Int /\ IsFiniteSet(both)
  <2> HIDE DEF both
  <2> QED
    BY <1>1, ReportConstants, FS_Subset
<1> HIDE DEF curr, prevs, N
<1>4. /\ N \in Nat /\ curr \in [1..N -> both]
      /\ \A n \in both : \E i \in 1..N : curr[i] = n
  <2> HIDE DEF both
  <2> QED
    BY <1>3, AscendingIs DEF curr, N
<1>5. DOMAIN curr = 1..N /\ \A i \in 1..N : curr[i] \in both /\ pasted(i) = diff(curr[i])
  BY <1>2, <1>4
<1>6. {pasted(i) : i \in DOMAIN curr} = {diff(a) : a \in both}
  <2> HIDE DEF pasted, diff, both
  <2> QED
    BY <1>4, <1>5
<1>7. getdiff(cur, prev) = {pasted(i) : i \in DOMAIN curr} \cup {whole(a) : a \in extra}
  BY Zenon DEF getdiff, curr, prevs
<1>8. \A a \in DOMAIN cur : (Known(prev, a) <=> a \in both) /\ (~Known(prev, a) <=> a \in extra)
  OBVIOUS
<1> DEFINE line(a) == Row(a, cur[a].shard, IF Known(prev, a) THEN cur[a].amount - prev[a].amount
                                           ELSE cur[a].amount)
<1>9. (\A a \in both : line(a) = diff(a)) /\ (\A a \in extra : line(a) = whole(a))
      /\ DOMAIN cur = both \cup extra
  BY <1>8
<1> HIDE DEF pasted, diff, whole, both, extra
<1>10. getdiff(cur, prev) = {line(a) : a \in DOMAIN cur}
  <2> HIDE DEF line
  <2> QED
    BY <1>6, <1>7, <1>9
<1> QED
  BY <1>10, Zenon

\* A report has a line for each address, and no two for one.
LEMMA OneLineEach ==
  ASSUME NEW cur, NEW prev, DOMAIN cur \in SUBSET Addr, DOMAIN prev \in SUBSET Addr
  PROVE  /\ Addrs(getdiff(cur, prev)) = DOMAIN cur
         /\ Cardinality(getdiff(cur, prev)) = Cardinality(DOMAIN cur)
<1> DEFINE D == DOMAIN cur
           R == getdiff(cur, prev)
           line == [a \in D |-> Row(a, cur[a].shard, IF Known(prev, a)
                                                     THEN cur[a].amount - prev[a].amount
                                                     ELSE cur[a].amount)]
<1>1. R = {line[a] : a \in D}
  <2> DEFINE l(a) == Row(a, cur[a].shard, IF Known(prev, a) THEN cur[a].amount - prev[a].amount
                                          ELSE cur[a].amount)
  <2>1. R = {l(a) : a \in D}
    BY GetdiffIs
  <2>2. \A a \in D : line[a] = l(a)
    OBVIOUS
  <2> HIDE DEF l, line, R, D
  <2> QED
    BY <2>1, <2>2
<1>2. \A a \in D : line[a].addr = a
  BY DEF Row
<1> HIDE DEF R
<1>3. line \in Bijection(D, R)
  <2>1. line \in [D -> R] /\ \A r \in R : \E a \in D : line[a] = r
    <3> HIDE DEF line
    <3>1. \A a \in D : line[a] \in R
      BY <1>1
    <3>2. \A r \in R : \E a \in D : line[a] = r
      BY <1>1
    <3> QED
      BY <3>1, <3>2 DEF line
  <2> HIDE DEF line
  <2>2. \A a, b \in D : line[a] = line[b] => a = b
    BY <1>2
  <2> QED
    BY <2>1, <2>2 DEF Bijection, Injection, Surjection, IsInjective
<1>4. IsFiniteSet(D)
  BY ReportConstants, FS_Subset
<1>5. Cardinality(R) = Cardinality(D)
  <2> HIDE DEF line, D
  <2> QED
    BY <1>3, <1>4, FS_Bijection DEF ExistsBijection
<1>6. Addrs(R) = D
  <2> HIDE DEF line, D
  <2> QED
    BY <1>1, <1>2 DEF Addrs
<1> QED
  BY <1>5, <1>6 DEF R

LEMMA KeepIs ==
  ASSUME NEW seq, Len(seq) \in Nat, DOMAIN seq = 1..Len(seq), NEW new1
  PROVE  /\ Len(Keep(seq, new1)) = IF Len(seq) < Lag THEN Len(seq) + 1 ELSE Lag + 1
         /\ DOMAIN Keep(seq, new1) = 1..Len(Keep(seq, new1))
         /\ Keep(seq, new1)[1] = new1
         /\ \A n \in 2..Len(Keep(seq, new1)) : Keep(seq, new1)[n] = seq[n - 1] /\ n - 1 \in 1..Len(seq)
<1> DEFINE M == IF Len(seq) < Lag THEN Len(seq) + 1 ELSE Lag + 1
           all == <<new1>> \o seq
<1>1. /\ Lag \in Nat /\ M \in Nat /\ M >= 1 /\ M <= Len(seq) + 1
  BY ReportConstants
<1>2. /\ Len(all) = Len(seq) + 1 /\ all[1] = new1
      /\ \A n \in 2..(Len(seq) + 1) : all[n] = seq[n - 1]
  OBVIOUS
<1>3. Keep(seq, new1) = [n \in 1..M |-> all[n]]
  <2>1. Keep(seq, new1) = SubSeq(all, 1, M)
    BY DEF Keep
  <2> HIDE DEF all, M
  <2>2. \A n \in 1..M : n + 1 - 1 = n /\ n + 0 = n
    BY <1>1
  <2> QED
    BY <1>1, <2>1, <2>2
<1> HIDE DEF all, M
<1>4. Len(Keep(seq, new1)) = M /\ DOMAIN Keep(seq, new1) = 1..M
  BY <1>1, <1>3
<1>5. Keep(seq, new1)[1] = new1
  BY <1>1, <1>2, <1>3
<1>6. ASSUME NEW n \in 2..M PROVE Keep(seq, new1)[n] = seq[n - 1] /\ n - 1 \in 1..Len(seq)
  <2>1. n \in 1..M /\ n \in 2..(Len(seq) + 1) /\ n - 1 \in 1..Len(seq)
    BY <1>1
  <2> QED
    BY <1>2, <1>3, <2>1
<1> QED
  BY <1>4, <1>5, <1>6 DEF M

LEMMA ReportInitInv == ReportInit => CapturesInv
<1> SUFFICES ASSUME ReportInit PROVE CapturesInv
  OBVIOUS
<1>1. captures = <<>> /\ truth = <<>> /\ listed \in SUBSET Addr /\ chain \in [Addr -> 0..1]
  BY DEF ReportInit
<1>2. chain \in [Addr -> Nat]
  BY <1>1
<1>3. Len(captures) = 0 /\ Len(truth) = 0 /\ DOMAIN captures = 1..0 /\ DOMAIN truth = 1..0
  BY <1>1
<1> QED
  BY <1>1, <1>2, <1>3 DEF CapturesInv

\* What check.sh writes is the truth, but for the addresses that did not answer.
LEMMA TakenIs ==
  ASSUME CapturesInv, NEW failed, NEW taken, NEW actual,
         taken = [a \in listed |-> IF a \in failed THEN NotFound
                                   ELSE [shard |-> a % 4, amount |-> chain[a]]],
         actual = [a \in listed |-> chain[a]]
  PROVE  IsTrue(taken, actual)
<1>1. listed \in SUBSET Addr /\ chain \in [Addr -> Nat]
  BY DEF CapturesInv
<1>2. ASSUME NEW a \in listed
      PROVE  /\ actual[a] \in Nat /\ taken[a].shard \in Int
             /\ taken[a].amount = IF taken[a].shard = -1 THEN 0 ELSE actual[a]
  <2>1. a \in Int /\ actual[a] = chain[a] /\ chain[a] \in Nat
    BY <1>1, ReportConstants
  <2>2. CASE a \in failed
    BY <2>1, <2>2 DEF NotFound
  <2>3. CASE a \notin failed
    <3>1. taken[a].shard = a % 4 /\ taken[a].amount = chain[a]
      BY <2>3
    <3>2. a % 4 \in 0..3
      BY <2>1
    <3> QED
      BY <2>1, <3>1, <3>2
  <2> QED
    BY <2>2, <2>3
<1> QED
  BY <1>1, <1>2 DEF IsTrue

LEMMA ReportStep == CapturesInv /\ [ReportNext]_reportVars => CapturesInv'
<1> SUFFICES ASSUME CapturesInv, [ReportNext]_reportVars PROVE CapturesInv'
  OBVIOUS
<1>1. ASSUME NEW a \in Addr, Earn(a) \/ Spend(a) PROVE CapturesInv'
  <2>1. chain[a] \in Nat /\ UNCHANGED <<listed, captures, truth>>
        /\ \/ chain' = [chain EXCEPT ![a] = @ + 1]
           \/ chain[a] > 0 /\ chain' = [chain EXCEPT ![a] = @ - 1]
    BY <1>1 DEF Earn, Spend, CapturesInv
  <2>2. chain' \in [Addr -> Nat]
    BY <2>1 DEF CapturesInv
  <2> QED
    BY <2>1, <2>2 DEF CapturesInv
<1>2. ASSUME NEW a \in Addr, Relist(a) PROVE CapturesInv'
  <2>1. UNCHANGED <<chain, captures, truth>> /\ listed' \in SUBSET Addr
    BY <1>2 DEF Relist, CapturesInv
  <2> QED
    BY <2>1 DEF CapturesInv
<1>3. ASSUME NEW failed \in SUBSET listed, Check(failed) PROVE CapturesInv'
  <2> DEFINE taken == [a \in listed |-> IF a \in failed THEN NotFound
                                        ELSE [shard |-> a % 4, amount |-> chain[a]]]
             actual == [a \in listed |-> chain[a]]
  <2>1. captures' = Keep(captures, taken) /\ truth' = Keep(truth, actual) /\ UNCHANGED <<chain, listed>>
    BY <1>3 DEF Check
  <2>2. IsTrue(taken, actual)
    BY TakenIs
  <2> HIDE DEF taken, actual
  <2>3. /\ Len(captures) \in Nat /\ DOMAIN captures = 1..Len(captures)
        /\ Len(truth) = Len(captures) /\ DOMAIN truth = 1..Len(truth)
        /\ \A n \in 1..Len(captures) : IsTrue(captures[n], truth[n])
    BY DEF CapturesInv
  <2> DEFINE M == Len(captures')
  <2>4. /\ M = (IF Len(captures) < Lag THEN Len(captures) + 1 ELSE Lag + 1)
        /\ DOMAIN captures' = 1..M /\ captures'[1] = taken
        /\ \A n \in 2..M : captures'[n] = captures[n - 1] /\ n - 1 \in 1..Len(captures)
    BY <2>1, <2>3, KeepIs
  <2>5. /\ Len(truth') = M /\ DOMAIN truth' = 1..M /\ truth'[1] = actual
        /\ \A n \in 2..M : truth'[n] = truth[n - 1]
    BY <2>1, <2>3, <2>4, KeepIs
  <2>6. M \in Nat
    BY <2>3, <2>4, ReportConstants
  <2> HIDE DEF M
  <2>7. ASSUME NEW n \in 1..M PROVE IsTrue(captures'[n], truth'[n])
    <3>1. n = 1 \/ n \in 2..M
      BY <2>6
    <3> QED
      BY <2>2, <2>3, <2>4, <2>5, <3>1
  <2>8. \A n \in 1..M : IsTrue(captures[n], truth[n])'
    BY <2>7 DEF IsTrue
  <2>9. listed' \in SUBSET Addr /\ chain' \in [Addr -> Nat]
    BY <2>1 DEF CapturesInv
  <2> QED
    BY <2>4, <2>5, <2>6, <2>8, <2>9 DEF CapturesInv, M
<1>4. CASE UNCHANGED reportVars
  BY <1>4 DEF reportVars, CapturesInv
<1> QED
  BY <1>1, <1>2, <1>3, <1>4 DEF ReportNext

LEMMA CapturesAlways == ReportSpec => []CapturesInv
BY ReportInitInv, ReportStep, PTL DEF ReportSpec

\* The captures a report reads, there or not, are of addresses.
LEMMA NewestIs ==
  ASSUME CapturesInv, NEW n \in Nat \ {0}
  PROVE  /\ DOMAIN Newest(n) \in SUBSET Addr
         /\ \A a : Known(Newest(n), a) =>
              /\ n <= Len(captures) /\ IsTrue(Newest(n), truth[n])
<1>1. Len(captures) \in Nat
  BY DEF CapturesInv
<1>2. CASE n <= Len(captures)
  <2>1. n \in 1..Len(captures) /\ Newest(n) = captures[n]
    BY <1>1, <1>2 DEF Newest
  <2>2. IsTrue(captures[n], truth[n])
    BY <2>1 DEF CapturesInv
  <2> QED
    BY <1>2, <2>1, <2>2 DEF IsTrue
<1>3. CASE ~(n <= Len(captures))
  <2>1. Newest(n) = <<>> /\ DOMAIN <<>> = {}
    BY <1>3 DEF Newest, NoCapture
  <2> QED
    BY <2>1 DEF Known
<1> QED
  BY <1>2, <1>3

\* hourly.sh by getdiff: for addresses that answered both times, the line tells
\* what the chain did in between, whoever else joined or left the list.
THEOREM EarningsAreTrue == ReportSpec => []EarningsAreExact
<1>1. CapturesInv => EarningsAreExact
  <2> SUFFICES ASSUME CapturesInv, NEW row \in hourly,
                      Answered(current, row.addr), Answered(anHourAgo, row.addr)
               PROVE  row.ones = truth[1][row.addr] - truth[Lag + 1][row.addr]
    BY DEF EarningsAreExact
  <2>1. /\ DOMAIN current \in SUBSET Addr /\ DOMAIN anHourAgo \in SUBSET Addr
        /\ \A a : Known(current, a) => IsTrue(current, truth[1])
        /\ \A a : Known(anHourAgo, a) => IsTrue(anHourAgo, truth[Lag + 1])
    <3>1. 1 \in Nat \ {0} /\ Lag + 1 \in Nat \ {0}
      BY ReportConstants
    <3> QED
      BY <3>1, NewestIs DEF current, anHourAgo
  <2>2. PICK a \in DOMAIN current :
          row = Row(a, current[a].shard, IF Known(anHourAgo, a)
                                         THEN current[a].amount - anHourAgo[a].amount
                                         ELSE current[a].amount)
    BY <2>1, GetdiffIs DEF hourly
  <2>3. row.addr = a /\ Known(current, a) /\ Known(anHourAgo, a)
        /\ current[a].shard # -1 /\ anHourAgo[a].shard # -1
    BY <2>2 DEF Row, Answered
  <2>4. row.ones = current[a].amount - anHourAgo[a].amount
    BY <2>2, <2>3 DEF Row
  <2>5. current[a].amount = truth[1][a] /\ anHourAgo[a].amount = truth[Lag + 1][a]
    BY <2>1, <2>3 DEF IsTrue, Known
  <2> QED
    BY <2>3, <2>4, <2>5
<1> QED
  BY CapturesAlways, <1>1, PTL

\* Every node has one line, whoever joined or left the list.
THEOREM NodesAreReported == ReportSpec => []EveryNodeIsReported
<1>1. CapturesInv => EveryNodeIsReported
  <2> SUFFICES ASSUME CapturesInv PROVE EveryNodeIsReported
    OBVIOUS
  <2>1. DOMAIN current \in SUBSET Addr /\ DOMAIN anHourAgo \in SUBSET Addr
    <3>1. 1 \in Nat \ {0} /\ Lag + 1 \in Nat \ {0}
      BY ReportConstants
    <3> QED
      BY <3>1, NewestIs DEF current, anHourAgo
  <2> QED
    BY <2>1, OneLineEach DEF hourly, EveryNodeIsReported
<1> QED
  BY CapturesAlways, <1>1, PTL

\* What offline.sh finds: addresses of the capture, among them those that
\* neither of the last two checks reached.
OfflineInv ==
  /\ offline \in SUBSET DOMAIN current
  /\ \A a \in DOMAIN current :
       ~Answered(current, a) /\ ~Answered(previous, a) => a \in offline

LEMMA OfflineStep == CapturesInv /\ OfflineInv /\ [ReportNext]_reportVars => OfflineInv'
<1> SUFFICES ASSUME CapturesInv, OfflineInv, [ReportNext]_reportVars PROVE OfflineInv'
  OBVIOUS
<1>1. CASE UNCHANGED <<captures, offline>>
  BY <1>1 DEF OfflineInv, current, previous, Newest, Answered, Known
<1>2. ASSUME NEW failed \in SUBSET listed, Check(failed) PROVE OfflineInv'
  <2> DEFINE taken == [a \in listed |-> IF a \in failed THEN NotFound
                                        ELSE [shard |-> a % 4, amount |-> chain[a]]]
             actual == [a \in listed |-> chain[a]]
             M == Len(captures')
             found == Addrs({row \in getdiff(taken, current) : row.ones = 0})
  <2>1. captures' = Keep(captures, taken) /\ offline' = found
    BY <1>2 DEF Check
  <2>2. IsTrue(taken, actual)
    BY TakenIs
  <2> HIDE DEF taken, actual, found
  <2>3. Len(captures) \in Nat /\ DOMAIN captures = 1..Len(captures)
    BY DEF CapturesInv
  <2>4. /\ M = (IF Len(captures) < Lag THEN Len(captures) + 1 ELSE Lag + 1)
        /\ captures'[1] = taken /\ \A n \in 2..M : captures'[n] = captures[n - 1]
    BY <2>1, <2>3, KeepIs
  <2> HIDE DEF M
  <2>5. current' = taken
    <3>1. 1 <= M
      BY <2>3, <2>4, ReportConstants
    <3> QED
      BY <2>4, <3>1 DEF current, Newest, M
  <2>6. ASSUME NEW a, Known(current, a)
        PROVE  previous' = current /\ IsTrue(current, truth[1])
    <3>1. 1 <= Len(captures) /\ IsTrue(Newest(1), truth[1])
      BY <2>6, NewestIs DEF current
    <3>2. 2 \in 2..M /\ 2 <= M
      BY <2>3, <2>4, <3>1, ReportConstants
    <3>3. captures'[2] = captures[1]
      BY <2>4, <3>2
    <3> QED
      BY <3>1, <3>2, <3>3 DEF current, previous, Newest, M
  <2>7. DOMAIN current \in SUBSET Addr /\ DOMAIN taken \in SUBSET Addr
    BY <2>2, NewestIs DEF current, IsTrue
  <2> DEFINE line(a) == Row(a, taken[a].shard, IF Known(current, a)
                                               THEN taken[a].amount - current[a].amount
                                               ELSE taken[a].amount)
  <2>8. getdiff(taken, current) = {line(a) : a \in DOMAIN taken}
    BY <2>7, GetdiffIs
  <2>9. \A a \in DOMAIN taken :
          /\ line(a).addr = a
          /\ line(a).ones = IF Known(current, a) THEN taken[a].amount - current[a].amount
                                                 ELSE taken[a].amount
    BY DEF Row
  <2> HIDE DEF line
  <2>10. found \in SUBSET DOMAIN taken
    BY <2>8, <2>9 DEF found, Addrs
  <2>11. ASSUME NEW a \in DOMAIN taken, ~Answered(taken, a), ~Answered(previous', a)
         PROVE  a \in found
    <3>1. taken[a].shard = -1 /\ taken[a].amount = 0
      BY <2>2, <2>11 DEF Answered, Known, IsTrue
    <3>2. line(a).ones = 0
      <4>1. CASE ~Known(current, a)
        BY <2>9, <3>1, <4>1
      <4>2. CASE Known(current, a)
        <5>1. current[a].shard = -1 /\ IsTrue(current, truth[1])
          BY <2>6, <2>11, <4>2 DEF Answered
        <5>2. current[a].amount = 0
          BY <4>2, <5>1 DEF IsTrue, Known
        <5> QED
          BY <2>9, <3>1, <4>2, <5>2
      <4> QED
        BY <4>1, <4>2
    <3> QED
      BY <2>8, <2>9, <3>2 DEF found, Addrs
  <2> QED
    BY <2>1, <2>5, <2>10, <2>11 DEF OfflineInv, Answered, Known
<1>3. [ReportNext]_reportVars =>
        \/ UNCHANGED <<captures, offline>>
        \/ \E failed \in SUBSET listed : Check(failed)
  BY DEF ReportNext, Earn, Spend, Relist, reportVars
<1> QED
  BY <1>1, <1>2, <1>3

LEMMA OfflineAlways == ReportSpec => []OfflineInv
<1>1. ReportInit => OfflineInv
  <2> SUFFICES ASSUME ReportInit PROVE OfflineInv
    OBVIOUS
  <2>1. DOMAIN current = {} /\ offline = {}
    BY DEF ReportInit, current, Newest, NoCapture
  <2> QED
    BY <2>1 DEF OfflineInv
<1> QED
  BY <1>1, OfflineStep, CapturesAlways, PTL DEF ReportSpec

\* The lines of a report about some of its addresses are as many as these.
LEMMA LinesOf ==
  ASSUME NEW cur, NEW prev, DOMAIN cur \in SUBSET Addr, DOMAIN prev \in SUBSET Addr,
         NEW A \in SUBSET DOMAIN cur
  PROVE  Cardinality({row \in getdiff(cur, prev) : row.addr \in A}) = Cardinality(A)
<1> DEFINE line == [a \in A |-> Row(a, cur[a].shard, IF Known(prev, a)
                                                     THEN cur[a].amount - prev[a].amount
                                                     ELSE cur[a].amount)]
           R == {row \in getdiff(cur, prev) : row.addr \in A}
           l(a) == Row(a, cur[a].shard, IF Known(prev, a) THEN cur[a].amount - prev[a].amount
                                        ELSE cur[a].amount)
<1>1. getdiff(cur, prev) = {l(a) : a \in DOMAIN cur}
  BY GetdiffIs
<1>2. (\A a \in A : line[a] = l(a)) /\ (\A a \in DOMAIN cur : l(a).addr = a) /\ DOMAIN line = A
  BY DEF Row
<1> HIDE DEF line, l
<1>3. line \in Bijection(A, R)
  <2>1. \A a \in A : line[a] \in R
    BY <1>1, <1>2
  <2>2. \A r \in R : \E a \in A : line[a] = r
    BY <1>1, <1>2
  <2>3. \A a, b \in A : line[a] = line[b] => a = b
    BY <1>2
  <2>4. line \in [A -> R]
    BY <2>1 DEF line
  <2> QED
    BY <2>2, <2>3, <2>4 DEF Bijection, Injection, Surjection, IsInjective
<1>4. IsFiniteSet(A)
  BY ReportConstants, FS_Subset
<1> QED
  BY <1>3, <1>4, FS_Bijection DEF ExistsBijection

\* header and genjson count the same nodes.
THEOREM HeaderIsRight == ReportSpec => []HeaderCountsOnline
<1>1. CapturesInv /\ OfflineInv => HeaderCountsOnline
  <2> SUFFICES ASSUME CapturesInv, OfflineInv PROVE HeaderCountsOnline
    OBVIOUS
  <2> DEFINE on == DOMAIN current \ offline
  <2>1. DOMAIN current \in SUBSET Addr /\ DOMAIN anHourAgo \in SUBSET Addr
    <3>1. 1 \in Nat \ {0} /\ Lag + 1 \in Nat \ {0}
      BY ReportConstants
    <3> QED
      BY <3>1, NewestIs DEF current, anHourAgo
  <2>2. Cardinality({row \in hourly : row.addr \in on}) = Cardinality(on)
    BY <2>1, LinesOf DEF hourly
  <2>3. Addrs(hourly) = DOMAIN current
    BY <2>1, OneLineEach DEF hourly
  <2>4. onlineNodes(hourly) = {row \in hourly : row.addr \in on}
    BY <2>3 DEF onlineNodes, InOffline, Addrs
  <2>5. IsFiniteSet(DOMAIN current) /\ offline \in SUBSET DOMAIN current
    BY <2>1, ReportConstants, FS_Subset DEF OfflineInv
  <2>6. Cardinality(on) = Cardinality(DOMAIN current) - Cardinality(DOMAIN current \cap offline)
    BY <2>5, FS_Difference
  <2>7. DOMAIN current \cap offline = offline
    BY <2>5
  <2> QED
    BY <2>2, <2>4, <2>6, <2>7 DEF HeaderCountsOnline, num_on
<1> QED
  BY CapturesAlways, OfflineAlways, <1>1, PTL

\* A node that the last two checks did not reach is newly added in both reports.
THEOREM UnreachedAreNew == ReportSpec => []UnreachedIsNewlyAdded
<1>1. CapturesInv /\ OfflineInv => UnreachedIsNewlyAdded
  <2> SUFFICES ASSUME CapturesInv, OfflineInv, NEW row \in hourly,
                      ~Answered(current, row.addr), ~Answered(previous, row.addr)
               PROVE  /\ row \in newlyAdded(hourly) \cap newlyAddedNodes(hourly)
                      /\ row \notin onlineNodes(hourly)
    BY DEF UnreachedIsNewlyAdded
  <2>1. DOMAIN current \in SUBSET Addr /\ DOMAIN anHourAgo \in SUBSET Addr
    <3>1. 1 \in Nat \ {0} /\ Lag + 1 \in Nat \ {0}
      BY ReportConstants
    <3> QED
      BY <3>1, NewestIs DEF current, anHourAgo
  <2>2. PICK a \in DOMAIN current :
          row = Row(a, current[a].shard, IF Known(anHourAgo, a)
                                         THEN current[a].amount - anHourAgo[a].amount
                                         ELSE current[a].amount)
    BY <2>1, GetdiffIs DEF hourly
  <2>3. row.addr = a /\ row.shard = current[a].shard
    BY <2>2 DEF Row
  <2>4. row.shard = -1 /\ row.addr \in offline
    BY <2>3 DEF Answered, Known, OfflineInv
  <2> QED
    BY <2>4 DEF newlyAdded, newlyAddedNodes, onlineNodes, InOffline, MatchesMinusOne
<1> QED
  BY CapturesAlways, OfflineAlways, <1>1, PTL

\* offline.sh: who is called offline did not move between two checks that were
\* answered, or has nothing.
THEOREM OfflineIsForAReason == ReportSpec => []OfflineIsJustified
<1>1. ReportInit => OfflineIsJustified
  BY DEF ReportInit, OfflineIsJustified
<1>2. CapturesInv /\ OfflineIsJustified /\ [ReportNext]_reportVars => OfflineIsJustified'
  <2> SUFFICES ASSUME CapturesInv, OfflineIsJustified, [ReportNext]_reportVars
               PROVE  OfflineIsJustified'
    OBVIOUS
  <2>1. CASE UNCHANGED <<captures, truth, offline>>
    BY <2>1 DEF OfflineIsJustified, current, previous, Newest, Answered, Known
  <2>2. ASSUME NEW failed \in SUBSET listed, Check(failed) PROVE OfflineIsJustified'
    <3> DEFINE taken == [a \in listed |-> IF a \in failed THEN NotFound
                                          ELSE [shard |-> a % 4, amount |-> chain[a]]]
               actual == [a \in listed |-> chain[a]]
               M == Len(captures')
    <3>1. /\ captures' = Keep(captures, taken) /\ truth' = Keep(truth, actual)
          /\ offline' = Addrs({row \in getdiff(taken, current) : row.ones = 0})
      BY <2>2 DEF Check
    <3>2. IsTrue(taken, actual)
      BY TakenIs
    <3> HIDE DEF taken, actual
    <3>3. /\ Len(captures) \in Nat /\ DOMAIN captures = 1..Len(captures)
          /\ Len(truth) = Len(captures) /\ DOMAIN truth = 1..Len(truth)
      BY DEF CapturesInv
    <3>4. /\ M = (IF Len(captures) < Lag THEN Len(captures) + 1 ELSE Lag + 1)
          /\ captures'[1] = taken /\ \A n \in 2..M : captures'[n] = captures[n - 1]
          /\ truth'[1] = actual /\ Len(truth') = M /\ \A n \in 2..M : truth'[n] = truth[n - 1]
      BY <3>1, <3>3, KeepIs
    <3> HIDE DEF M
    <3>5. current' = taken
      <4>1. 1 <= M
        BY <3>3, <3>4, ReportConstants
      <4> QED
        BY <3>4, <4>1 DEF current, Newest, M
    <3>6. ASSUME NEW a, Known(current, a)
          PROVE  previous' = current /\ truth'[2] = truth[1] /\ IsTrue(current, truth[1])
      <4>1. 1 <= Len(captures) /\ IsTrue(Newest(1), truth[1])
        BY <3>6, NewestIs DEF current
      <4>2. 2 \in 2..M /\ 2 <= M
        BY <3>3, <3>4, <4>1, ReportConstants
      <4>3. captures'[2] = captures[1] /\ truth'[2] = truth[1]
        BY <3>4, <4>2
      <4> QED
        BY <4>1, <4>2, <4>3 DEF current, previous, Newest, M
    <3>7. ASSUME NEW a \in offline'
          PROVE  \/ current'[a].amount = 0
                 \/ /\ Answered(current', a) /\ Answered(previous', a)
                    /\ truth'[1][a] = truth'[2][a]
      <4>1. DOMAIN current \in SUBSET Addr /\ DOMAIN taken \in SUBSET Addr
        BY <3>2, NewestIs DEF current, IsTrue
      <4>2. PICK row \in getdiff(taken, current) : row.ones = 0 /\ row.addr = a
        BY <3>1, <3>7 DEF Addrs
      <4>3. PICK b \in DOMAIN taken :
              row = Row(b, taken[b].shard, IF Known(current, b)
                                           THEN taken[b].amount - current[b].amount
                                           ELSE taken[b].amount)
        BY <4>1, <4>2, GetdiffIs
      <4>4. a = b /\ (IF Known(current, a) THEN taken[a].amount - current[a].amount
                                           ELSE taken[a].amount) = 0
        BY <4>2, <4>3 DEF Row
      <4>5. CASE ~Known(current, a)
        BY <3>5, <4>4, <4>5
      <4>6. CASE Known(current, a)
        <5>1. previous' = current /\ truth'[2] = truth[1] /\ IsTrue(current, truth[1])
          BY <3>6, <4>6
        <5>2. /\ actual[a] \in Nat /\ taken[a].amount = IF taken[a].shard = -1 THEN 0 ELSE actual[a]
              /\ truth[1][a] \in Nat
              /\ current[a].amount = IF current[a].shard = -1 THEN 0 ELSE truth[1][a]
          BY <3>2, <4>3, <4>4, <4>6, <5>1 DEF IsTrue, Known
        <5>3. taken[a].amount = current[a].amount
          BY <4>4, <4>6, <5>2
        <5> QED
          BY <3>4, <3>5, <4>3, <4>4, <4>6, <5>1, <5>2, <5>3 DEF Answered, Known
      <4> QED
        BY <4>5, <4>6
    <3> QED
      BY <3>7 DEF OfflineIsJustified, Answered, Known
  <2>3. [ReportNext]_reportVars =>
          \/ UNCHANGED <<captures, truth, offline>>
          \/ \E failed \in SUBSET listed : Check(failed)
    BY DEF ReportNext, Earn, Spend, Relist, reportVars
  <2> QED
    BY <2>1, <2>2, <2>3
<1> QED
  BY CapturesAlways, <1>1, <1>2, PTL DEF ReportSpec
=============================================================================
