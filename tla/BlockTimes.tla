----------------------------- MODULE BlockTimes -----------------------------
(***************************************************************************)
(* devops/unsual-block-time/unusual-block-delay.py: the blocks of a chain  *)
(* are fetched in chunks by a pool of threads, collected in the order the  *)
(* chunks are done, and sorted; the report tells the time each block took, *)
(* the miners of the blocks before an unusual delay, and how many blocks   *)
(* the chain is short of.                                                  *)
(***************************************************************************)
EXTENDS SortedSets, SequencesExt, FiniteSetsExt

CONSTANTS Start, End,   \* start_block, end_block
          Chunk,        \* blocks of a request: 1000
          Retries,      \* attempts of a request: 10
          Workers,      \* num_threads
          Threshold,    \* a longer time is unusual: 2 seconds
          Normal,       \* expected_block_time
          Gaps,         \* bound: the times a block may take
          Miner         \* the miner of each block

Heights == Start..End

ASSUME BlockTimesAssumption ==
  /\ Start \in Nat /\ End \in Nat /\ Threshold \in Nat /\ Normal \in Nat
  /\ {Chunk, Retries, Workers} \subseteq Nat \ {0}
  /\ Gaps \subseteq Nat
  /\ DOMAIN Miner = Heights

VARIABLES
  time,      \* the timestamp of each block on the chain
  state,     \* of each chunk's future
  tries,     \* attempts a chunk's thread has made
  blocks,    \* the blocks collected so far
  pc,        \* "fetch", "reported", "error"
  diffs,     \* block_time_diffs: <<block, seconds>>
  miners,    \* miner_blocks: <<miner, block, seconds>>, as a sequence
  missing    \* total_time_diff: Normal times the number printed

timesVars == <<time, state, tries, blocks, pc, diffs, miners, missing>>

Ranges == {n \in Heights : (n - Start) % Chunk = 0}   \* named by their first block
RangeOf(r) == [i \in 1..Min({Chunk, End - r + 1}) |-> r + i - 1]
In(s) == {r \in Ranges : state[r] = s}
-----------------------------------------------------------------------------
Init ==
  /\ \E gap \in [Heights -> Gaps] :
       time = [n \in Heights |-> SumFunctionOnSet(gap, Start..n)]
  /\ state = [r \in Ranges |-> "pending"] /\ tries = [r \in Ranges |-> 0]
  /\ blocks = <<>> /\ pc = "fetch"
  /\ diffs = <<>> /\ miners = <<>> /\ missing = 0

\* The executor gives the chunks to its threads in the order of submission.
Take(r) ==
  /\ state[r] = "pending" /\ \A q \in In("pending") : r <= q
  /\ Cardinality(In("running")) < Workers
  /\ state' = [state EXCEPT ![r] = "running"]
  /\ UNCHANGED <<time, tries, blocks, pc, diffs, miners, missing>>

Answer(r) ==
  /\ state[r] = "running"
  /\ state' = [state EXCEPT ![r] = "done"]
  /\ UNCHANGED <<time, tries, blocks, pc, diffs, miners, missing>>

\* Mutant: the last exception is retried like the others.
FailForever(r) ==
  /\ state[r] = "running"
  /\ tries' = [tries EXCEPT ![r] = (@ % Retries) + 1]
  /\ UNCHANGED <<time, state, blocks, pc, diffs, miners, missing>>

\* The last attempt raises its exception, the others are followed by a retry.
Fail(r) ==
  /\ state[r] = "running"
  /\ tries' = [tries EXCEPT ![r] = @ + 1]
  /\ state' = IF tries'[r] < Retries THEN state ELSE [state EXCEPT ![r] = "failed"]
  /\ UNCHANGED <<time, blocks, pc, diffs, miners, missing>>

\* as_completed: any chunk that is done; the blocks of a failed one are dropped.
Collect(r) ==
  /\ state[r] \in {"done", "failed"}
  /\ blocks' = IF state[r] = "done" THEN blocks \o RangeOf(r) ELSE blocks
  /\ state' = [state EXCEPT ![r] = IF @ = "done" THEN "collected" ELSE "dropped"]
  /\ UNCHANGED <<time, tries, pc, diffs, miners, missing>>

\* Mutant: the blocks are taken in the order they were collected.
Unsorted(bs) == bs
Sorted(bs)   == Ascending(ToSet(bs))

calculate_block_time_diffs(bs) ==
  [i \in 1..(Len(bs) - 1) |-> <<bs[i], time[bs[i + 1]] - time[bs[i]]>>]

\* Mutant: last_block_time follows the unusual blocks only.
StepToUnusual(a, n) ==
  LET d == a.last - time[n] IN
  IF d > Threshold THEN [last |-> time[n], found |-> Append(a.found, <<Miner[n], n, d>>)] ELSE a

\* One turn of the loop from the last block down.
StepTo(a, n) ==
  LET d == a.last - time[n] IN
  [last  |-> time[n],
   found |-> IF d > Threshold THEN Append(a.found, <<Miner[n], n, d>>) ELSE a.found]

get_last_miners(bs) ==
  FoldRight(LAMBDA n, a : StepTo(a, n), bs, [last |-> time[Last(bs)], found |-> <<>>]).found

\* Mutant: the normal time of every block, not of every difference.
ShortOfBlocks(ds) == FoldLeft(LAMBDA s, d : s + d[2], 0, ds) - (Len(ds) + 1) * Normal

\* analyze_block_production, which prints nothing for fewer than two differences.
ShortOf(ds) == FoldLeft(LAMBDA s, d : s + d[2], 0, ds) - Len(ds) * Normal

Report ==
  /\ pc = "fetch" /\ Ranges = In("collected") \cup In("dropped")
  /\ LET bs == Sorted(blocks) IN
       IF Len(bs) < 2 THEN pc' = "error" /\ UNCHANGED <<diffs, miners, missing>>
       ELSE /\ pc' = "reported"
            /\ diffs' = calculate_block_time_diffs(bs)
            /\ miners' = get_last_miners(bs)
            /\ missing' = IF Len(diffs') < 2 THEN 0 ELSE ShortOf(diffs')
  /\ UNCHANGED <<time, state, tries, blocks>>

RangeStep(r) == Take(r) \/ Answer(r) \/ Fail(r) \/ Collect(r)
Next == (\E r \in Ranges : RangeStep(r)) \/ Report

Spec == Init /\ [][Next]_timesVars
\* Threads run, requests return or time out.
FairSpec == Spec /\ WF_timesVars(Report) /\ \A r \in Ranges : WF_timesVars(RangeStep(r))
-----------------------------------------------------------------------------
(* Properties. *)

Fetched == UNION {ToSet(RangeOf(r)) : r \in In("collected")}
Lost    == UNION {ToSet(RangeOf(r)) : r \in In("dropped")}

\* Whatever the order in which chunks are done, the time told of a block is its
\* own: the time to the next block, or, exactly when the next chunks are lost, the
\* time to the first block behind them; no fetched block but the last is left out.
TimesAreNeighbours ==
  pc = "reported" =>
    /\ ToSet([i \in DOMAIN diffs |-> diffs[i][1]]) = Fetched \ {Max(Fetched)}
    /\ \A i \in DOMAIN diffs :
         LET n == diffs[i][1]
             next == Min({m \in Fetched : m > n})
         IN  /\ diffs[i][2] = time[next] - time[n]
             /\ (n + 1)..(next - 1) \subseteq Lost

\* The two files agree: miners.json names, each once and under its own miner, the
\* blocks whose time in blocks_time.json is above the threshold.
MinersAgreeWithTimes ==
  pc = "reported" =>
    /\ IsInjective(miners)
    /\ ToSet(miners) = {<<Miner[d[1]], d[1], d[2]>> : d \in {e \in ToSet(diffs) : e[2] > Threshold}}

\* The blocks the report calls missing are those the chain is short of over the
\* span that was fetched, and the lost ones within it, which it produced in time.
MissingCountsLost ==
  pc = "reported" /\ Len(diffs) >= 2 =>
    LET first == Min(Fetched)
        last  == Max(Fetched)
    IN  missing = time[last] - time[first] - (last - first) * Normal
                    + Normal * Cardinality(Lost \cap (first..last))

\* However requests fail, there is a report, or an error only when all chunks but
\* less than two blocks were lost.
EventuallyReported ==
  <>[](pc = "reported" \/ (pc = "error" /\ Cardinality(Fetched) < 2))
=============================================================================
