------------------------ MODULE BalanceMonitorProofs ------------------------
(***************************************************************************)
(* For every sleep, distance and number of captures kept: from the fifth   *)
(* page on every page has its gain, over three sleeps or more (one fewer   *)
(* than the rounds between the captures).                                  *)
(***************************************************************************)
EXTENDS BalanceMonitor, TLAPS

\* Captures read during their rounds, which lie a sleep or more apart; some of
\* each of the rounds lo..hi.
Spaced(S) == \A c \in S : /\ c.back \in Nat /\ c.age \in Int
                          /\ c.back = 0 => c.age <= 0 /\ -c.age <= since
                          /\ c.back > 0 => c.age >= (c.back - 1) * SleepTicks
Each(S, lo, hi) == \A b \in lo..hi : \E c \in S : c.back = b

\* What is in the queue, or with main, when a round is over, is behind the pages
\* rendered; the thread's captures are a round further back until it adds its own.
CountInv == /\ since \in Nat
            /\ rendered \in 0..(Behind + 1)
            /\ page \in Int
SleepInv == /\ main \in {"join", "get"} => since >= SleepTicks
            /\ main = "spawn" => since >= SleepTicks \/ data = {}
QueueInv == /\ thread = "done" /\ main # "spawn"
                 => /\ queue # <<>> => /\ queue = <<Head(queue)>> /\ Spaced(Head(queue))
                                       /\ Each(Head(queue), 0, rendered - 1)
            /\ main = "spawn" \/ thread # "done" => queue = <<>>
MainInv == main = "spawn" => /\ thread = "done" /\ Spaced(data)
                             /\ Each(data, 0, rendered - 1)
ThreadInv == /\ thread # "done" => main # "spawn"
             /\ thread = "collect" => Spaced(mine) /\ Each(mine, 1, rendered)
             /\ thread \in {"others", "render"} => Spaced(mine) /\ Each(mine, 0, rendered)
             /\ thread = "put" => Spaced(mine) /\ Each(mine, 0, rendered - 1)

MonitorInv == /\ CountInv /\ SleepInv /\ QueueInv /\ MainInv /\ ThreadInv
              /\ GainsAfterFiveRounds

LEMMA MonitorInit == Init => MonitorInv
BY MonitorAssumption DEF MonitorAssumption, Init, MonitorInv, CountInv, SleepInv, QueueInv,
   MainInv, ThreadInv, GainsAfterFiveRounds, Spaced, Each, NA

\* A round later, the captures that main got back.
LEMMA OneFurther ==
  ASSUME NEW S, Spaced(S), NEW n \in Nat, Each(S, 0, n - 1),
         since \in Nat, since >= SleepTicks \/ S = {},
         NEW T, T = {Capture(c.back + 1, c.age + since) : c \in S}
  PROVE  /\ \A c \in T : /\ c.back \in Nat \ {0} /\ c.age \in Int
                         /\ c.age >= (c.back - 1) * SleepTicks
         /\ Each(T, 1, n)
<1> SleepTicks \in Nat
  BY MonitorAssumption
<1>1. ASSUME NEW c \in S
      PROVE  /\ c.back + 1 \in Nat \ {0} /\ c.age + since \in Int
             /\ c.age + since >= ((c.back + 1) - 1) * SleepTicks
  <2>1. /\ c.back \in Nat /\ c.age \in Int /\ since >= SleepTicks
        /\ c.back = 0 => -c.age <= since
        /\ c.back > 0 => c.age >= (c.back - 1) * SleepTicks
    BY DEF Spaced
  <2>2. CASE c.back = 0
    BY <2>1, <2>2
  <2>3. CASE c.back > 0
    <3> DEFINE b == c.back - 1
               z == b * SleepTicks
    <3>1. b \in Nat /\ c.back = b + 1 /\ z \in Int
      BY <2>1, <2>3
    <3>2. ((c.back + 1) - 1) * SleepTicks = z + SleepTicks
      BY <3>1
    <3>3. c.age >= z
      BY <2>1, <2>3
    <3> HIDE DEF b, z
    <3> QED
      BY <2>1, <3>1, <3>2, <3>3
  <2> QED
    BY <2>1, <2>2, <2>3
<1>2. Each(T, 1, n)
  <2> SUFFICES ASSUME NEW b \in 1..n PROVE \E c \in T : c.back = b
    BY DEF Each
  <2>1. PICK c \in S : c.back = b - 1
    BY DEF Each
  <2>2. Capture(c.back + 1, c.age + since) \in T
    OBVIOUS
  <2> QED
    BY <2>1, <2>2 DEF Capture
<1>3. \A c \in T : /\ c.back \in Nat \ {0} /\ c.age \in Int
                   /\ c.age >= (c.back - 1) * SleepTicks
  BY <1>1 DEF Capture
<1> QED
  BY <1>2, <1>3

LEMMA SpawnStep == MonitorInv /\ Spawn => MonitorInv'
<1> SUFFICES ASSUME MonitorInv, Spawn PROVE MonitorInv'
  OBVIOUS
<1>1. /\ \A c \in mine' : /\ c.back \in Nat \ {0} /\ c.age \in Int
                          /\ c.age >= (c.back - 1) * SleepTicks
      /\ Each(mine', 1, rendered)
  <2>1. /\ Spaced(data) /\ Each(data, 0, rendered - 1) /\ rendered \in Nat
        /\ since \in Nat /\ (since >= SleepTicks \/ data = {})
        /\ mine' = {Capture(c.back + 1, c.age + since) : c \in data}
    BY DEF MonitorInv, Spawn, CountInv, SleepInv, MainInv
  <2> QED
    BY <2>1, OneFurther
<1>2. Spaced(mine)'
  BY <1>1 DEF Spaced
<1> QED
  BY <1>1, <1>2 DEF MonitorInv, Spawn, CountInv, SleepInv, QueueInv, MainInv, ThreadInv,
     GainsAfterFiveRounds, Spaced, Each

\* Neither time nor sleep touches a capture.
LEMMA TickStep == MonitorInv /\ Tick => MonitorInv'
BY MonitorAssumption DEF MonitorAssumption, MonitorInv, Tick, CountInv, SleepInv, QueueInv,
   MainInv, ThreadInv, GainsAfterFiveRounds, Spaced, Each

LEMMA WakeJoinStep == MonitorInv /\ (Wake \/ Join) => MonitorInv'
BY DEF MonitorInv, Wake, Join, Ended, CountInv, SleepInv, QueueInv, MainInv, ThreadInv,
   GainsAfterFiveRounds, Spaced, Each

LEMMA GetStep == MonitorInv /\ Get => MonitorInv'
<1> SUFFICES ASSUME MonitorInv, Get PROVE MonitorInv'
  OBVIOUS
<1>1. /\ thread = "done" /\ data' = Head(queue) /\ Spaced(data')
      /\ Each(data', 0, rendered - 1)
  BY DEF MonitorInv, Get, QueueInv
<1>2. queue' = <<>>
  <2>1. PICK S : queue = <<S>>
    BY DEF MonitorInv, Get, QueueInv
  <2> QED
    BY <2>1 DEF Get
<1> QED
  BY <1>1, <1>2 DEF MonitorInv, Get, CountInv, SleepInv, QueueInv, MainInv, ThreadInv,
     GainsAfterFiveRounds, Spaced, Each

LEMMA CollectStep == MonitorInv /\ (Collect \/ CollectOthers \/ CollectRaises) => MonitorInv'
<1>1. ASSUME MonitorInv, Collect PROVE MonitorInv'
  <2>1. /\ SleepTicks \in Nat /\ rendered \in Nat /\ since \in Nat /\ since' = since
        /\ Spaced(mine) /\ Each(mine, 1, rendered)
    BY <1>1, MonitorAssumption DEF MonitorAssumption, MonitorInv, CountInv, ThreadInv, Collect
  <2>2. Spaced(mine)'
    BY <1>1, <2>1 DEF Collect, Spaced, Capture
  <2>3. Each(mine', 0, rendered)
    <3> SUFFICES ASSUME NEW b \in 0..rendered PROVE \E c \in mine' : c.back = b
      BY DEF Each
    <3>1. CASE b = 0
      <4>1. Capture(0, -since) \in mine'
        BY <1>1 DEF Collect
      <4> QED
        BY <4>1, <3>1 DEF Capture
    <3>2. CASE b # 0
      BY <1>1, <2>1, <3>2 DEF Collect, Each
    <3> QED
      BY <3>1, <3>2
  <2> QED
    BY <1>1, <2>2, <2>3 DEF MonitorInv, Collect, CountInv, SleepInv, QueueInv, MainInv, ThreadInv,
       GainsAfterFiveRounds, Spaced, Each
<1>2. ASSUME MonitorInv, CollectOthers \/ CollectRaises PROVE MonitorInv'
  BY <1>2 DEF MonitorInv, CollectOthers, CollectRaises, CountInv, SleepInv, QueueInv, MainInv, ThreadInv,
     GainsAfterFiveRounds, Spaced, Each
<1> QED
  BY <1>1, <1>2

\* The round Behind rounds ago is there as soon as Behind pages were rendered.
LEMMA RenderStep == MonitorInv /\ Render => MonitorInv'
<1> SUFFICES ASSUME MonitorInv, Render PROVE MonitorInv'
  OBVIOUS
<1>1. /\ Behind \in Nat \ {0} /\ SleepTicks \in Nat \ {0} /\ rendered \in 0..(Behind + 1)
      /\ Spaced(mine) /\ Each(mine, 0, rendered)
  BY MonitorAssumption DEF MonitorAssumption, MonitorInv, CountInv, ThreadInv, Render
<1>2. /\ rendered' \in 0..(Behind + 1) /\ Each(mine, 0, rendered' - 1)
      /\ rendered' > Behind => rendered >= Behind
  BY <1>1 DEF Render, Each
<1>3. page' \in Int /\ (rendered' > Behind => page' >= (Behind - 1) * SleepTicks)
  <2>1. CASE PrevData(mine) = {}
    BY <1>1, <1>2, <2>1 DEF Render, Each, PrevData, NA
  <2>2. CASE PrevData(mine) # {}
    <3>1. PICK v \in LatestData(mine), p \in PrevData(mine) : page' = p.age - v.age
      BY <2>2 DEF Render
    <3>2. /\ v \in mine /\ v.back = 0 /\ v.age \in Int /\ v.age <= 0
          /\ p \in mine /\ p.back = Behind /\ p.age \in Int
          /\ p.age >= (Behind - 1) * SleepTicks
      BY <1>1 DEF PrevData, LatestData, Spaced
    <3> DEFINE z == (Behind - 1) * SleepTicks
    <3>3. z \in Int /\ p.age >= z
      BY <1>1, <3>2
    <3> HIDE DEF z
    <3>4. page' \in Int /\ page' >= z
      BY <3>1, <3>2, <3>3
    <3> QED
      BY <3>4 DEF z
  <2> QED
    BY <2>1, <2>2
<1> QED
  BY <1>1, <1>2, <1>3 DEF MonitorInv, Render, CountInv, SleepInv, QueueInv, MainInv, ThreadInv,
     GainsAfterFiveRounds, Spaced, Each

\* What is dropped is further back than any page needs.
LEMMA PutStep == MonitorInv /\ Put => MonitorInv'
<1> SUFFICES ASSUME MonitorInv, Put PROVE MonitorInv'
  OBVIOUS
<1>1. /\ Behind \in Nat /\ Keep \in Nat /\ Keep > Behind /\ rendered \in 0..(Behind + 1)
      /\ Spaced(mine) /\ Each(mine, 0, rendered - 1)
  BY MonitorAssumption DEF MonitorAssumption, MonitorInv, CountInv, ThreadInv, Put
<1>2. Spaced(Kept(mine)) /\ Each(Kept(mine), 0, rendered - 1)
  <2>1. Spaced(Kept(mine))
    BY <1>1 DEF Kept, Spaced
  <2>2. ASSUME NEW b \in 0..(rendered - 1) PROVE \E c \in Kept(mine) : c.back = b
    BY <1>1 DEF Each, Kept
  <2> QED
    BY <2>1, <2>2 DEF Each
<1>3. queue = <<>> /\ queue' = <<Kept(mine)>> /\ main # "spawn"
  BY DEF MonitorInv, QueueInv, ThreadInv, Put
<1>4. Head(queue') = Kept(mine) /\ queue' # <<>>
  BY <1>3
<1> QED
  BY <1>1, <1>2, <1>3, <1>4 DEF MonitorInv, Put, CountInv, SleepInv, QueueInv, MainInv, ThreadInv,
     GainsAfterFiveRounds, Spaced, Each

\* monitor.py:25-28, :55, :86-91 and collect_data.py:14-22: from the fifth page on
\* every page has its gain, and the two balances it compares were read three
\* sleeps or more apart, at whatever moment of its round each was read.
THEOREM GainsAreThere == Spec => []GainsAfterFiveRounds
<1>1. MonitorInv /\ [Next]_monitorVars => MonitorInv'
  <2> SUFFICES ASSUME MonitorInv, [Next]_monitorVars PROVE MonitorInv'
    OBVIOUS
  <2>1. CASE UNCHANGED monitorVars
    BY <2>1 DEF monitorVars, MonitorInv, CountInv, SleepInv, QueueInv, MainInv, ThreadInv,
       GainsAfterFiveRounds, Spaced, Each
  <2> QED
    BY <2>1, TickStep, SpawnStep, WakeJoinStep, GetStep, CollectStep, RenderStep, PutStep
       DEF Next, Main, Monitor
<1>2. MonitorInv => GainsAfterFiveRounds
  BY DEF MonitorInv
<1> QED
  BY MonitorInit, <1>1, <1>2, PTL DEF Spec
=============================================================================
