--------------------------- MODULE BalanceMonitor ---------------------------
(***************************************************************************)
(* balance-monitorV2: a main loop that starts a thread every quarter of an *)
(* hour; the thread reads the balances of all addresses, one request after *)
(* the other, renders the page of what they gained since four rounds ago   *)
(* and hands the captures it keeps back through a queue. What is followed  *)
(* is one address, any of the list: a capture is its row of a round, known *)
(* by how many rounds ago that was and by when the balance was read.       *)
(***************************************************************************)
EXTENDS Integers, Sequences

CONSTANTS SleepTicks,  \* ticks of time.sleep(900)
          Behind,      \* rounds between the two captures of a page (4)
          Keep,        \* captures kept: those of the last Keep rounds (10)
          MaxGap       \* bound: the ticks of a round that are told apart

ASSUME MonitorAssumption ==
  /\ SleepTicks \in Nat \ {0} /\ MaxGap \in Nat /\ MaxGap > SleepTicks
  /\ Behind \in Nat \ {0} /\ Keep \in Nat /\ Keep > Behind

VARIABLES
  main,      \* where the main loop is
  thread,    \* what the round's thread does next
  since,     \* ticks since that thread was started
  data,      \* the captures main got back
  mine,      \* the captures of the thread
  queue,
  page,      \* index.html: the ticks its gain covers, NA without a base
  rendered   \* history: pages rendered, as far as Behind + 1

monitorVars == <<main, thread, since, data, mine, queue, page, rendered>>

\* Of a round some rounds back, read so many ticks before this round began
\* (after, if negative).
Capture(b, t) == [back |-> b, age |-> t]
NA == -1
Ended == {"done", "dead"}

\* The rows of this round, and of the round four rounds ago.
LatestData(captures) == {c \in captures : c.back = 0}
PrevData(captures)   == {c \in captures : c.back = Behind}

\* Mutant: one capture too few for the next page.
KeptFew(captures) == {c \in captures : c.back < Behind - 1}
Kept(captures) == {c \in captures : c.back < Keep}
-----------------------------------------------------------------------------
Init ==
  /\ main = "spawn" /\ thread = "done" /\ since = 0
  /\ data = {} /\ mine = {} /\ queue = <<>>
  /\ page = NA /\ rendered = 0

Tick ==
  /\ since' = IF since < MaxGap THEN since + 1 ELSE since
  /\ UNCHANGED <<main, thread, data, mine, queue, page, rendered>>

\* The thread gets the round's number and the captures main has now; in the
\* rows it was given every round is one further back.
Spawn ==
  /\ main = "spawn"
  /\ main' = "sleep" /\ thread' = "collect"
  /\ since' = 0
  /\ mine' = {Capture(c.back + 1, c.age + since) : c \in data}
  /\ UNCHANGED <<data, queue, page, rendered>>

Wake ==
  /\ main = "sleep" /\ since >= SleepTicks
  /\ main' = "join"
  /\ UNCHANGED <<thread, since, data, mine, queue, page, rendered>>

Join ==
  /\ main = "join" /\ thread \in Ended
  /\ main' = "get"
  /\ UNCHANGED <<thread, since, data, mine, queue, page, rendered>>

\* Blocks for ever on the empty queue of a thread that raised.
Get ==
  /\ main = "get" /\ queue # <<>>
  /\ data' = Head(queue) /\ queue' = Tail(queue)
  /\ main' = "spawn"
  /\ UNCHANGED <<thread, since, mine, page, rendered>>

\* The request of this address, some time into the round.
Collect ==
  /\ thread = "collect"
  /\ mine' = mine \cup {Capture(0, -since)}
  /\ thread' = "others"
  /\ UNCHANGED <<main, since, data, queue, page, rendered>>

\* Those of the addresses behind it; none has a timeout.
CollectOthers ==
  /\ thread = "others"
  /\ thread' = "render"
  /\ UNCHANGED <<main, since, data, mine, queue, page, rendered>>

\* No connection, or an answer without a result, raises in the thread.
CollectRaises ==
  /\ thread \in {"collect", "others"}
  /\ thread' = "dead"
  /\ UNCHANGED <<main, since, data, mine, queue, page, rendered>>

Render ==
  /\ thread = "render"
  /\ IF PrevData(mine) = {}
     THEN page' = NA
     ELSE \E value \in LatestData(mine), past_value \in PrevData(mine) :
            page' = past_value.age - value.age
  /\ rendered' = IF rendered <= Behind THEN rendered + 1 ELSE rendered
  /\ thread' = "put"
  /\ UNCHANGED <<main, since, data, mine, queue>>

\* Mutant: nothing is handed back.
PutNothing ==
  /\ thread = "put"
  /\ thread' = "done"
  /\ UNCHANGED <<main, since, data, mine, queue, page, rendered>>

Put ==
  /\ thread = "put"
  /\ queue' = Append(queue, Kept(mine))
  /\ thread' = "done" /\ mine' = {}
  /\ UNCHANGED <<main, since, data, page, rendered>>

Main == Spawn \/ Wake \/ Join \/ Get
Monitor == Collect \/ CollectOthers \/ CollectRaises \/ Render \/ Put
Next == Tick \/ Main \/ Monitor

Spec == Init /\ [][Next]_monitorVars

\* Time passes, both threads are scheduled and every request returns.
FairSpec == /\ Spec /\ WF_monitorVars(Tick)
            /\ WF_monitorVars(Main) /\ WF_monitorVars(Monitor)
-----------------------------------------------------------------------------
(* Properties. *)

\* From the fifth page on every page has its gain, and it covers three sleeps or
\* more, however fast or slow each round is: the captures that are dropped before
\* they go back through the queue are never those a page needs. Four rounds are
\* not four sleeps between two reads: a balance may be read late in the first of
\* them and early in the last (collect_data.py:14-22), so that the page, which is
\* titled "1H", may cover 45 minutes; and there is no bound above.
GainsAfterFiveRounds == rendered > Behind => page >= (Behind - 1) * SleepTicks

\* Pages never stop coming, unless a thread raised.
AlwaysAnotherPage == []<>(thread = "put") \/ <>(thread = "dead")
=============================================================================
