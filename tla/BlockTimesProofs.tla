-------------------------- MODULE BlockTimesProofs --------------------------
(***************************************************************************)
(* For every chain, chunk size, number of threads and of retries: what the *)
(* report tells of the blocks that were fetched, whichever requests fail   *)
(* and in whatever order they are answered.                                *)
(***************************************************************************)
EXTENDS BlockTimes, DataLemmas, SequenceTheorems, TLAPS

States == {"pending", "running", "done", "failed", "collected", "dropped"}

\* The blocks collected are those of the collected chunks.
FetchInv ==
  /\ state \in [Ranges -> States]
  /\ blocks \in Seq(Heights) /\ ToSet(blocks) = Fetched
  /\ pc \in {"fetch", "reported", "error"}

\* Blocks have times.
TimeInv == time \in [Heights -> Nat]

\* A report is made when every chunk is collected or dropped.
DoneInv == pc = "reported" => Ranges = In("collected") \cup In("dropped")

LEMMA BlockConstants ==
  /\ Start \in Nat /\ End \in Nat /\ Threshold \in Nat /\ Normal \in Nat
  /\ Chunk \in Nat \ {0} /\ Gaps \subseteq Nat
  /\ Heights = Start..End /\ IsFiniteSet(Heights)
BY BlockTimesAssumption, FS_Interval DEF BlockTimesAssumption, Heights
-----------------------------------------------------------------------------
(* The chunks of a chain: every block is in one. *)

LEMMA ChunkIs ==
  ASSUME NEW r \in Ranges
  PROVE  /\ r \in Heights
         /\ \E m \in Nat : RangeOf(r) = [i \in 1..m |-> r + i - 1]
         /\ ToSet(RangeOf(r)) = {n \in Heights : r <= n /\ n < r + Chunk}
<1> DEFINE m == Min({Chunk, End - r + 1})
<1>1. r \in Heights /\ r \in Nat /\ Start <= r /\ r <= End /\ Chunk \in Nat \ {0} /\ End \in Nat
      /\ Heights = Start..End /\ Start \in Nat
  BY BlockConstants DEF Ranges
<1>2. m \in Int /\ m <= Chunk /\ m <= End - r + 1 /\ (m = Chunk \/ m = End - r + 1)
  <2> DEFINE S == {Chunk, End - r + 1}
  <2>1. S \subseteq Int /\ Chunk \in S /\ End - r + 1 \in S /\ Chunk \in Int /\ End - r + 1 \in Int
    BY <1>1
  <2>2. CASE Chunk <= End - r + 1
    <3>1. \A y \in S : Chunk <= y
      BY <1>1, <2>2
    <3> HIDE DEF S
    <3>2. Min(S) = Chunk
      BY <2>1, <3>1, MinIs
    <3> QED
      BY <2>1, <2>2, <3>2 DEF S
  <2>3. CASE End - r + 1 <= Chunk
    <3>1. \A y \in S : End - r + 1 <= y
      BY <1>1, <2>3
    <3> HIDE DEF S
    <3>2. Min(S) = End - r + 1
      BY <2>1, <3>1, MinIs
    <3> QED
      BY <2>1, <2>3, <3>2 DEF S
  <2> QED
    BY <1>1, <2>2, <2>3
<1> HIDE DEF m
<1>3. RangeOf(r) = [i \in 1..m |-> r + i - 1]
  BY DEF RangeOf, m
<1>4. ToSet(RangeOf(r)) = {r + i - 1 : i \in 1..m}
  BY <1>3 DEF ToSet
<1>5. ASSUME NEW n \in Heights, r <= n, n < r + Chunk PROVE n \in {r + i - 1 : i \in 1..m}
  <2>1. n - r + 1 \in 1..m /\ n = r + (n - r + 1) - 1
    BY <1>1, <1>2, <1>5
  <2> QED
    BY <2>1
<1>6. ASSUME NEW i \in 1..m PROVE r + i - 1 \in Heights /\ r <= r + i - 1 /\ r + i - 1 < r + Chunk
  BY <1>1, <1>2
<1>7. m \in Nat
  BY <1>1, <1>2
<1> QED
  BY <1>1, <1>3, <1>4, <1>5, <1>6, <1>7

LEMMA ChunksCover ==
  ASSUME NEW n \in Heights
  PROVE  \E r \in Ranges : n \in ToSet(RangeOf(r))
<1> DEFINE k == (n - Start) \div Chunk
           z == Chunk * k
           m == (n - Start) % Chunk
<1>1. Start \in Nat /\ End \in Nat /\ Chunk \in Nat /\ Chunk > 0 /\ n \in Start..End /\ n - Start \in Int
  BY BlockConstants
<1>2. k \in Int /\ m \in 0..(Chunk - 1) /\ n - Start = z + m
  BY <1>1, DivMod
<1>3. z \in Int /\ z % Chunk = 0 /\ (k < 0 => z <= -Chunk) /\ (k >= 0 => z >= 0)
  <2>1. z % Chunk = 0
    BY <1>1, <1>2, DivExact
  <2> HIDE DEF k
  <2>2. k < 0 => Chunk * (-k - 1) >= 0
    BY <1>1, <1>2
  <2>3. Chunk * (-k - 1) = -z - Chunk /\ z \in Int
    BY <1>1, <1>2
  <2>4. k >= 0 => z >= 0
    BY <1>1, <1>2
  <2> QED
    BY <1>1, <2>1, <2>2, <2>3, <2>4
<1> HIDE DEF k, z, m
<1>4. z >= 0 /\ Start + z <= n /\ n < Start + z + Chunk
  BY <1>1, <1>2, <1>3
<1>5. Start + z \in Ranges
  <2>1. Start + z \in Heights /\ (Start + z) - Start = z
    BY <1>1, <1>3, <1>4, BlockConstants
  <2> QED
    BY <1>3, <2>1 DEF Ranges
<1> QED
  BY <1>4, <1>5, ChunkIs

LEMMA ChunksApart ==
  ASSUME NEW r \in Ranges, NEW q \in Ranges, NEW n,
         n \in ToSet(RangeOf(r)), n \in ToSet(RangeOf(q))
  PROVE  r = q
<1>1. /\ Start \in Nat /\ Chunk \in Nat /\ Chunk > 0 /\ r \in Nat /\ q \in Nat
      /\ (r - Start) % Chunk = 0 /\ (q - Start) % Chunk = 0
      /\ r - Start \in Int /\ q - Start \in Int
  BY BlockConstants DEF Ranges
<1>2. n \in Int /\ r <= n /\ n < r + Chunk /\ q <= n /\ n < q + Chunk
  BY ChunkIs, BlockConstants
<1>3. \A n0 \in Int : n0 % Chunk = 0 => \E a \in Int : n0 = Chunk * a
  <2> SUFFICES ASSUME NEW n0 \in Int, n0 % Chunk = 0 PROVE \E a \in Int : n0 = Chunk * a
    OBVIOUS
  <2> DEFINE a == n0 \div Chunk
             z == Chunk * a
             m == n0 % Chunk
  <2>1. a \in Int /\ z \in Int /\ m = 0
    BY <1>1
  <2>2. n0 = z + m
    BY <1>1, DivMod
  <2> HIDE DEF a, z, m
  <2>3. n0 = z
    BY <2>1, <2>2
  <2> QED
    BY <2>1, <2>3 DEF z
<1>4. PICK a \in Int, b \in Int : r - Start = Chunk * a /\ q - Start = Chunk * b
  BY <1>1, <1>3
<1>5. Chunk * (a - b) = r - q
  <2>1. Chunk * (a - b) = Chunk * a - Chunk * b
    BY <1>1
  <2> QED
    BY <1>1, <1>4, <2>1
<1>6. a = b
  <2>1. a - b >= 1 => Chunk * (a - b) >= Chunk
    BY <1>1
  <2>2. a - b <= -1 => Chunk * (a - b) <= -Chunk
    BY <1>1
  <2> QED
    BY <1>1, <1>2, <1>5, <2>1, <2>2
<1> QED
  BY <1>1, <1>4, <1>6

\* With all chunks done, a block is fetched or lost, not both.
LEMMA FetchedOrLost ==
  ASSUME Ranges = In("collected") \cup In("dropped")
  PROVE  Fetched \cup Lost = Heights /\ Fetched \cap Lost = {}
<1>1. \A r \in Ranges : ToSet(RangeOf(r)) \subseteq Heights
  BY ChunkIs
<1>2. Fetched \cup Lost \subseteq Heights
  BY <1>1 DEF Fetched, Lost, In
<1>3. Heights \subseteq Fetched \cup Lost
  BY ChunksCover DEF Fetched, Lost
<1>4. ASSUME NEW n \in Fetched, n \in Lost PROVE FALSE
  <2>1. PICK r \in In("collected") : n \in ToSet(RangeOf(r))
    BY DEF Fetched
  <2>2. PICK q \in In("dropped") : n \in ToSet(RangeOf(q))
    BY <1>4 DEF Lost
  <2>3. r = q
    BY <2>1, <2>2, ChunksApart DEF In
  <2> QED
    BY <2>1, <2>2, <2>3 DEF In
<1> QED
  BY <1>2, <1>3, <1>4
-----------------------------------------------------------------------------
(* The blocks in order. *)

LEMMA BlocksInOrder ==
  ASSUME NEW S \in SUBSET Heights
  PROVE  /\ IsFiniteSet(S) /\ Cardinality(S) \in Nat
         /\ Ascending(S) \in [1..Cardinality(S) -> S] /\ Len(Ascending(S)) = Cardinality(S)
         /\ \A n \in S : \E i \in 1..Cardinality(S) : Ascending(S)[i] = n
         /\ \A i, j \in 1..Cardinality(S) : i < j => Ascending(S)[i] < Ascending(S)[j]
<1>1. S \in SUBSET Int /\ IsFiniteSet(S)
  <2>1. IsFiniteSet(Heights) /\ Heights \subseteq Int
    BY BlockConstants
  <2>2. IsFiniteSet(S)
    BY <2>1, FS_Subset
  <2> QED
    BY <2>1, <2>2
<1> DEFINE N == Cardinality(S)
           bs == Ascending(S)
<1>2. /\ N \in Nat /\ bs \in [1..N -> S]
      /\ \A n \in S : \E i \in 1..N : bs[i] = n
      /\ \A i, j \in 1..N : i < j => bs[i] < bs[j]
  BY <1>1, AscendingIs
<1> HIDE DEF N, bs
<1>3. Len(bs) = N
  BY <1>2
<1> QED
  BY <1>1, <1>2, <1>3 DEF N, bs

\* The first, the last and the next of the blocks.
LEMMA Neighbours ==
  ASSUME NEW S \in SUBSET Heights, Cardinality(S) >= 1
  PROVE  LET N == Cardinality(S)  bs == Ascending(S) IN
         /\ Min(S) = bs[1] /\ Max(S) = bs[N]
         /\ \A i \in 1..(N - 1) :
              /\ Min({m \in S : m > bs[i]}) = bs[i + 1]
              /\ ((bs[i] + 1)..(bs[i + 1] - 1)) \cap S = {}
<1> DEFINE N == Cardinality(S)
           bs == Ascending(S)
<1>1. /\ N \in Nat /\ bs \in [1..N -> S] /\ S \subseteq Int
      /\ \A n \in S : \E i \in 1..N : bs[i] = n
      /\ \A i, j \in 1..N : i < j => bs[i] < bs[j]
      /\ N >= 1
  BY BlocksInOrder, BlockConstants
<1> HIDE DEF N, bs
<1>2. \A i, j \in 1..N : bs[i] < bs[j] => i < j
  <2> SUFFICES ASSUME NEW i \in 1..N, NEW j \in 1..N, bs[i] < bs[j], ~(i < j) PROVE FALSE
    OBVIOUS
  <2>1. i = j \/ j < i
    BY <1>1
  <2>2. bs[i] \in Int /\ bs[j] \in Int
    BY <1>1
  <2> QED
    BY <1>1, <2>1, <2>2
<1>3. Min(S) = bs[1]
  <2>1. bs[1] \in S /\ \A j \in 1..N : bs[1] <= bs[j]
    <3>1. \A j \in 1..N : (j = 1 \/ 1 < j) /\ 1 \in 1..N
      BY <1>1
    <3>2. \A j \in 1..N : bs[j] \in S /\ bs[j] \in Int
      BY <1>1
    <3> QED
      BY <1>1, <3>1, <3>2
  <2>2. \A y \in S : bs[1] <= y
    BY <1>1, <2>1
  <2> QED
    BY <1>1, <2>1, <2>2, MinIs
<1>4. Max(S) = bs[N]
  <2>1. bs[N] \in S /\ \A j \in 1..N : bs[N] >= bs[j]
    <3>1. \A j \in 1..N : (j = N \/ j < N) /\ N \in 1..N
      BY <1>1
    <3>2. \A j \in 1..N : bs[j] \in S /\ bs[j] \in Int
      BY <1>1
    <3> QED
      BY <1>1, <3>1, <3>2
  <2>2. \A y \in S : bs[N] >= y
    BY <1>1, <2>1
  <2> QED
    BY <1>1, <2>1, <2>2, MaxIs
<1>5. ASSUME NEW i \in 1..(N - 1)
      PROVE  /\ Min({m \in S : m > bs[i]}) = bs[i + 1]
             /\ ((bs[i] + 1)..(bs[i + 1] - 1)) \cap S = {}
  <2> DEFINE T == {m \in S : m > bs[i]}
  <2>1. i \in 1..N /\ i + 1 \in 1..N /\ i < i + 1 /\ bs[i] \in Int /\ bs[i + 1] \in Int
        /\ bs[i] < bs[i + 1]
    <3>1. i \in 1..N /\ i + 1 \in 1..N /\ i < i + 1
      BY <1>1
    <3> QED
      BY <1>1, <3>1
  <2>2. \A j \in 1..N : bs[i] < bs[j] => bs[i + 1] <= bs[j]
    <3> SUFFICES ASSUME NEW j \in 1..N, bs[i] < bs[j] PROVE bs[i + 1] <= bs[j]
      OBVIOUS
    <3>1. j = i + 1 \/ i + 1 < j
      <4>1. i < j
        BY <1>2, <2>1
      <4> QED
        BY <2>1, <4>1
    <3>2. bs[j] \in Int
      BY <1>1
    <3> QED
      BY <1>1, <2>1, <3>1, <3>2
  <2>3. \A y \in S : y > bs[i] => bs[i + 1] <= y
    <3> SUFFICES ASSUME NEW y \in S, y > bs[i] PROVE bs[i + 1] <= y
      OBVIOUS
    <3>1. PICK j \in 1..N : bs[j] = y
      BY <1>1
    <3> QED
      BY <1>1, <2>1, <2>2, <3>1
  <2>4. T \subseteq Int /\ bs[i + 1] \in T /\ \A y \in T : bs[i + 1] <= y
    BY <1>1, <2>1, <2>3
  <2>5. Min(T) = bs[i + 1]
    <3> HIDE DEF T
    <3> QED
      BY <2>4, MinIs
  <2>6. ((bs[i] + 1)..(bs[i + 1] - 1)) \cap S = {}
    BY <1>1, <2>1, <2>3
  <2> QED
    BY <2>5, <2>6
<1> QED
  BY <1>3, <1>4, <1>5 DEF N, bs
-----------------------------------------------------------------------------
(* What is collected, in whatever order. *)

LEMMA FetchInit == Init => FetchInv /\ DoneInv
<1> SUFFICES ASSUME Init PROVE FetchInv /\ DoneInv
  OBVIOUS
<1>1. state \in [Ranges -> States] /\ \A r \in Ranges : state[r] = "pending"
  BY DEF Init, States
<1>2. blocks = <<>> /\ pc = "fetch"
  BY DEF Init
<1>3. Fetched = {}
  BY <1>1 DEF Fetched, In
<1>4. ToSet(blocks) = {} /\ blocks \in Seq(Heights)
  BY <1>2 DEF ToSet
<1> QED
  BY <1>1, <1>2, <1>3, <1>4 DEF FetchInv, DoneInv

LEMMA RangeIsSeq ==
  ASSUME NEW r \in Ranges PROVE RangeOf(r) \in Seq(Heights)
<1>1. PICK m \in Nat : RangeOf(r) = [i \in 1..m |-> r + i - 1]
  BY ChunkIs
<1>2. \A i \in 1..m : RangeOf(r)[i] \in Heights
  BY <1>1, ChunkIs DEF ToSet
<1> QED
  BY <1>1, <1>2

LEMMA ConcatIs ==
  ASSUME NEW X, NEW s \in Seq(X), NEW t \in Seq(X)
  PROVE  s \o t \in Seq(X) /\ ToSet(s \o t) = ToSet(s) \cup ToSet(t)
<1>1. s \o t \in Seq(X)
  BY ConcatProperties
<1>2. Range(s \o t) = Range(s) \cup Range(t)
  BY RangeConcatenation
<1> QED
  BY <1>1, <1>2 DEF ToSet, Range

LEMMA FetchStep == FetchInv /\ DoneInv /\ [Next]_timesVars => FetchInv' /\ DoneInv'
<1> SUFFICES ASSUME FetchInv, DoneInv, [Next]_timesVars PROVE FetchInv' /\ DoneInv'
  OBVIOUS
<1>1. /\ state \in [Ranges -> States] /\ blocks \in Seq(Heights) /\ ToSet(blocks) = Fetched
      /\ pc \in {"fetch", "reported", "error"}
  BY DEF FetchInv
<1>2. ASSUME NEW r \in Ranges, Take(r) \/ Answer(r) \/ Fail(r)
      PROVE  FetchInv' /\ DoneInv'
  <2>1. /\ state[r] \in {"pending", "running"} /\ UNCHANGED <<blocks, pc>>
        /\ state' \in [Ranges -> States] /\ state'[r] \in {"pending", "running", "done", "failed"}
        /\ \A q \in Ranges \ {r} : state'[q] = state[q]
    BY <1>1, <1>2 DEF Take, Answer, Fail, States
  <2>2. In("collected")' = In("collected") /\ pc # "reported"
    BY <2>1 DEF In, DoneInv
  <2>3. Fetched' = Fetched
    BY <2>2 DEF Fetched
  <2> QED
    BY <1>1, <2>1, <2>2, <2>3 DEF FetchInv, DoneInv
<1>3. ASSUME NEW r \in Ranges, Collect(r) PROVE FetchInv' /\ DoneInv'
  <2>1. /\ state[r] \in {"done", "failed"} /\ pc' = pc
        /\ state' = [state EXCEPT ![r] = IF @ = "done" THEN "collected" ELSE "dropped"]
        /\ blocks' = IF state[r] = "done" THEN blocks \o RangeOf(r) ELSE blocks
    BY <1>3 DEF Collect
  <2>2. /\ state' \in [Ranges -> States]
        /\ state'[r] = IF state[r] = "done" THEN "collected" ELSE "dropped"
        /\ \A q \in Ranges \ {r} : state'[q] = state[q]
    BY <1>1, <2>1 DEF States
  <2>3. pc # "reported"
    BY <2>1 DEF DoneInv, In
  <2>4. CASE state[r] = "done"
    <3>1. In("collected")' = In("collected") \cup {r}
      BY <2>2, <2>4 DEF In
    <3>2. Fetched' = Fetched \cup ToSet(RangeOf(r))
      BY <3>1 DEF Fetched
    <3>3. blocks' \in Seq(Heights) /\ ToSet(blocks') = ToSet(blocks) \cup ToSet(RangeOf(r))
      BY <1>1, <2>1, <2>4, RangeIsSeq, ConcatIs
    <3> QED
      BY <1>1, <2>1, <2>2, <2>3, <3>2, <3>3 DEF FetchInv, DoneInv
  <2>5. CASE state[r] = "failed"
    <3>1. In("collected")' = In("collected")
      BY <2>2, <2>5 DEF In
    <3>2. Fetched' = Fetched /\ blocks' = blocks
      BY <2>1, <2>5, <3>1 DEF Fetched
    <3> QED
      BY <1>1, <2>1, <2>2, <2>3, <3>2 DEF FetchInv, DoneInv
  <2> QED
    BY <2>1, <2>4, <2>5
<1>4. CASE Report \/ UNCHANGED timesVars
  <2>1. /\ UNCHANGED <<state, blocks>> /\ pc' \in {pc, "reported", "error"}
        /\ pc' = "reported" => pc = "reported" \/ Ranges = In("collected") \cup In("dropped")
    BY <1>4 DEF Report, timesVars
  <2>2. Fetched' = Fetched /\ \A s : In(s)' = In(s)
    BY <2>1 DEF Fetched, In
  <2> QED
    BY <1>1, <2>1, <2>2 DEF FetchInv, DoneInv
<1> QED
  BY <1>2, <1>3, <1>4 DEF Next, RangeStep

\* Once there is a report, nothing changes.
LEMMA NothingAfter ==
  ASSUME FetchInv, DoneInv, [Next]_timesVars, pc' = "reported"
  PROVE  /\ Fetched' = Fetched /\ Lost' = Lost /\ time' = time
         /\ Report \/ (pc = "reported" /\ UNCHANGED <<diffs, miners, missing>>)
<1>1. ASSUME NEW r \in Ranges, RangeStep(r) PROVE FALSE
  <2>1. pc = "reported" /\ state[r] \notin {"collected", "dropped"}
    BY <1>1 DEF RangeStep, Take, Answer, Fail, Collect
  <2> QED
    BY <2>1 DEF DoneInv, In
<1>2. CASE Report
  BY <1>2 DEF Report, Fetched, Lost, In
<1>3. CASE UNCHANGED timesVars
  BY <1>3 DEF timesVars, Fetched, Lost, In
<1> QED
  BY <1>1, <1>2, <1>3 DEF Next

\* What is reported is of the fetched blocks in order.
LEMMA ReportIs ==
  ASSUME FetchInv, Report, pc' = "reported"
  PROVE  LET bs == Ascending(Fetched) IN
         /\ Fetched \in SUBSET Heights /\ Cardinality(Fetched) \in Nat
         /\ Cardinality(Fetched) >= 2
         /\ Fetched \cup Lost = Heights /\ Fetched \cap Lost = {}
         /\ diffs' = calculate_block_time_diffs(bs)
         /\ miners' = get_last_miners(bs)
         /\ missing' = IF Len(diffs') < 2 THEN 0 ELSE ShortOf(diffs')
<1>1. Fetched \in SUBSET Heights /\ Sorted(blocks) = Ascending(Fetched)
  <2>1. ToSet(blocks) = Fetched /\ blocks \in Seq(Heights)
    BY DEF FetchInv
  <2>2. ToSet(blocks) \subseteq Heights
    BY <2>1 DEF ToSet
  <2> QED
    BY <2>1, <2>2 DEF Sorted
<1>2. Ranges = In("collected") \cup In("dropped")
  BY DEF Report
<1>3. Len(Ascending(Fetched)) = Cardinality(Fetched) /\ Cardinality(Fetched) \in Nat
  BY <1>1, BlocksInOrder
<1>4. /\ ~(Len(Ascending(Fetched)) < 2)
      /\ diffs' = calculate_block_time_diffs(Ascending(Fetched))
      /\ miners' = get_last_miners(Ascending(Fetched))
      /\ missing' = IF Len(diffs') < 2 THEN 0 ELSE ShortOf(diffs')
  BY <1>1 DEF Report
<1>5. Fetched \cup Lost = Heights /\ Fetched \cap Lost = {}
  BY <1>2, FetchedOrLost
<1> QED
  BY <1>1, <1>3, <1>4, <1>5

LEMMA FetchAlways == Spec => [](FetchInv /\ DoneInv)
BY FetchInit, FetchStep, PTL DEF Spec
-----------------------------------------------------------------------------
\* calculate_block_time_diffs: in whatever order chunks are done and whichever
\* are lost, the time told of a block is the time to the next fetched one.
THEOREM TimesAreToTheNext == Spec => []TimesAreNeighbours
<1>1. Init => TimesAreNeighbours
  BY DEF Init, TimesAreNeighbours
<1>2. FetchInv /\ DoneInv /\ TimesAreNeighbours /\ [Next]_timesVars => TimesAreNeighbours'
  <2> SUFFICES ASSUME FetchInv, DoneInv, TimesAreNeighbours, [Next]_timesVars, pc' = "reported"
               PROVE  TimesAreNeighbours'
    BY DEF TimesAreNeighbours
  <2>1. /\ Fetched' = Fetched /\ Lost' = Lost /\ time' = time
        /\ Report \/ (pc = "reported" /\ UNCHANGED <<diffs, miners, missing>>)
    BY NothingAfter
  <2>2. CASE pc = "reported" /\ UNCHANGED <<diffs, miners, missing>>
    BY <2>1, <2>2 DEF TimesAreNeighbours
  <2>3. CASE Report
    <3> DEFINE N == Cardinality(Fetched)
               bs == Ascending(Fetched)
    <3>1. /\ Fetched \in SUBSET Heights /\ N \in Nat /\ N >= 2 /\ Fetched \cup Lost = Heights
          /\ diffs' = calculate_block_time_diffs(bs)
      BY <2>3, ReportIs
    <3>2. /\ bs \in [1..N -> Fetched] /\ Len(bs) = N
          /\ \A n \in Fetched : \E i \in 1..N : bs[i] = n
          /\ \A i, j \in 1..N : i < j => bs[i] < bs[j]
      BY <3>1, BlocksInOrder
    <3>3. /\ Max(Fetched) = bs[N]
          /\ \A i \in 1..(N - 1) : /\ Min({m \in Fetched : m > bs[i]}) = bs[i + 1]
                                   /\ ((bs[i] + 1)..(bs[i + 1] - 1)) \cap Fetched = {}
      <4>1. Cardinality(Fetched) >= 1
        BY <3>1
      <4> QED
        BY <3>1, <4>1, Neighbours
    <3> HIDE DEF N, bs
    <3>4. diffs' = [i \in 1..(N - 1) |-> <<bs[i], time[bs[i + 1]] - time[bs[i]]>>]
      BY <3>1, <3>2 DEF calculate_block_time_diffs
    <3>5. /\ DOMAIN diffs' = 1..(N - 1)
          /\ \A i \in 1..(N - 1) : /\ diffs'[i][1] = bs[i]
                                   /\ diffs'[i][2] = time[bs[i + 1]] - time[bs[i]]
      BY <3>4
    <3>6. ToSet([i \in DOMAIN diffs' |-> diffs'[i][1]]) = Fetched \ {Max(Fetched)}
      <4>1. ToSet([i \in DOMAIN diffs' |-> diffs'[i][1]]) = {bs[i] : i \in 1..(N - 1)}
        BY <3>5 DEF ToSet
      <4>2. \A i \in 1..(N - 1) : bs[i] \in Fetched /\ bs[i] # bs[N]
        <5> SUFFICES ASSUME NEW i \in 1..(N - 1) PROVE bs[i] \in Fetched /\ bs[i] # bs[N]
          OBVIOUS
        <5>1. i \in 1..N /\ N \in 1..N /\ i < N
          BY <3>1
        <5>2. bs[i] < bs[N] /\ bs[i] \in Fetched /\ bs[i] \in Int /\ bs[N] \in Int
          BY <3>1, <3>2, <5>1, BlockConstants
        <5> QED
          BY <5>2
      <4>3. \A n \in Fetched : n # bs[N] => \E i \in 1..(N - 1) : bs[i] = n
        <5> SUFFICES ASSUME NEW i \in 1..N, bs[i] # bs[N] PROVE i \in 1..(N - 1)
          BY <3>2
        <5> QED
          BY <3>1
      <4> QED
        BY <3>3, <4>1, <4>2, <4>3
    <3>7. ASSUME NEW i \in 1..(N - 1), NEW next, next = Min({m \in Fetched : m > bs[i]})
          PROVE  /\ diffs'[i][2] = time[next] - time[bs[i]]
                 /\ (bs[i] + 1)..(next - 1) \subseteq Lost
      <4>1. next = bs[i + 1] /\ diffs'[i][2] = time[next] - time[bs[i]]
        BY <3>3, <3>5, <3>7
      <4>2. (bs[i] + 1)..(next - 1) \subseteq Heights
        <5>1. i \in 1..N /\ i + 1 \in 1..N
          BY <3>1
        <5>2. bs[i] \in Heights /\ bs[i + 1] \in Heights
          BY <3>1, <3>2, <5>1
        <5> QED
          BY <4>1, <5>2, BlockConstants
      <4> QED
        BY <3>1, <3>3, <4>1, <4>2
    <3>8. \A i \in DOMAIN diffs' :
            LET n == diffs'[i][1]
                next == Min({m \in Fetched : m > n})
            IN  /\ diffs'[i][2] = time[next] - time[n]
                /\ (n + 1)..(next - 1) \subseteq Lost
      BY <3>5, <3>7
    <3> QED
      BY <2>1, <3>6, <3>8 DEF TimesAreNeighbours
  <2> QED
    BY <2>1, <2>2, <2>3
<1> QED
  BY FetchAlways, <1>1, <1>2, PTL DEF Spec
-----------------------------------------------------------------------------
(* The sum of the times of the blocks is the time from the first to the last. *)

LEMMA ShortOfTimes ==
  ASSUME NEW N \in Nat, NEW t \in [1..(N + 1) -> Int],
         NEW ds, DOMAIN ds = 1..N, Len(ds) = N, \A i \in 1..N : ds[i][2] = t[i + 1] - t[i]
  PROVE  ShortOf(ds) = t[N + 1] - t[1] - N * Normal
<1> DEFINE S == 1..N
           pick == [T \in (SUBSET S) \ {{}} |-> Max(T)]
           step == [T \in SUBSET S |-> [v \in Int |-> IF T = {} THEN v ELSE v + ds[Max(T)][2]]]
           sum == CHOOSE g : g = [T \in SUBSET S |-> IF T = {} THEN 0
                                                     ELSE g[T \ {Max(T)}] + ds[Max(T)][2]]
<1>1. IsFiniteSet(S) /\ S \subseteq Int
  BY FS_Interval
<1>2. ASSUME NEW T \in (SUBSET S) \ {{}}
      PROVE  Max(T) \in T /\ Max(T) \in S /\ ds[Max(T)][2] \in Int
  <2>1. IsFiniteSet(T) /\ T \in SUBSET Int /\ T # {}
    BY <1>1, FS_Subset
  <2>2. Max(T) \in T
    BY <2>1, ExtremesExist
  <2>3. \A i \in S : ds[i][2] \in Int
    <3> SUFFICES ASSUME NEW i \in S PROVE ds[i][2] \in Int
      OBVIOUS
    <3>1. i \in 1..(N + 1) /\ i + 1 \in 1..(N + 1)
      OBVIOUS
    <3> QED
      BY <3>1
  <2> QED
    BY <2>2, <2>3
<1>3. pick \in [(SUBSET S) \ {{}} -> S] /\ \A T \in (SUBSET S) \ {{}} : pick[T] \in T
  BY <1>2
<1>4. step \in [SUBSET S -> [Int -> Int]]
  <2>1. ASSUME NEW T \in SUBSET S, NEW v \in Int
        PROVE  (IF T = {} THEN v ELSE v + ds[Max(T)][2]) \in Int
    <3>1. CASE T = {}
      BY <3>1
    <3>2. CASE T # {}
      <4> DEFINE d == ds[Max(T)][2]
      <4>1. d \in Int
        BY <1>2, <3>2
      <4> HIDE DEF d
      <4>2. v + d \in Int
        BY <4>1
      <4> QED
        BY <3>2, <4>2 DEF d
    <3> QED
      BY <3>1, <3>2
  <2> QED
    BY <2>1
<1>5. PICK g : IsFold(g, S, Int, 0, pick, step)
  <2> HIDE DEF S, pick, step
  <2>1. 0 \in Int
    OBVIOUS
  <2>2. \E g : IsFold(g, S, Int, 0, pick, step)
    BY <1>1, <1>3, <1>4, <2>1, FoldExists
  <2> QED
    BY <2>2
<1>6. g \in [SUBSET S -> Int]
      /\ \A T \in SUBSET S : g[T] = IF T = {} THEN 0 ELSE g[T \ {Max(T)}] + ds[Max(T)][2]
  <2>1. g \in [SUBSET S -> Int]
    BY <1>5 DEF IsFold
  <2>2. ASSUME NEW T \in SUBSET S, T # {} PROVE g[T] = g[T \ {Max(T)}] + ds[Max(T)][2]
    <3>1. g[T] = step[T][g[T \ {pick[T]}]] /\ pick[T] = Max(T)
      BY <1>5, <2>2 DEF IsFold
    <3>2. g[T \ {Max(T)}] \in Int
      BY <2>1
    <3> QED
      BY <2>2, <3>1, <3>2
  <2>3. g[{}] = 0
    BY <1>5 DEF IsFold
  <2> QED
    BY <2>1, <2>2, <2>3
<1>7. sum = [T \in SUBSET S |-> IF T = {} THEN 0 ELSE sum[T \ {Max(T)}] + ds[Max(T)][2]]
  <2>1. g = [T \in SUBSET S |-> IF T = {} THEN 0 ELSE g[T \ {Max(T)}] + ds[Max(T)][2]]
    BY <1>6
  <2> QED
    BY <2>1, Zenon
<1>8. ShortOf(ds) = sum[S] - N * Normal
  BY Zenon DEF ShortOf, FoldLeft, MapThenFoldSet
<1> HIDE DEF sum, pick, step
<1> DEFINE W == {n \in Nat : n <= N => sum[1..n] = t[n + 1] - t[1]}
<1>9. 0 \in W
  <2>1. 1..0 = {} /\ sum[{}] = 0 /\ t[1] \in Int
    BY <1>7
  <2> QED
    BY <2>1
<1>10. ASSUME NEW n \in Nat, n \in W PROVE n + 1 \in W
  <2> SUFFICES ASSUME n + 1 <= N PROVE sum[1..(n + 1)] = t[(n + 1) + 1] - t[1]
    OBVIOUS
  <2>1. sum[1..n] = t[n + 1] - t[1]
    BY <1>10
  <2>2. Max(1..(n + 1)) = n + 1
    <3>1. 1..(n + 1) \subseteq Int /\ n + 1 \in 1..(n + 1) /\ \A y \in 1..(n + 1) : n + 1 >= y
      OBVIOUS
    <3> QED
      BY <3>1, MaxIs
  <2>3. 1..(n + 1) \in SUBSET S /\ n + 1 \in 1..(n + 1) /\ (1..(n + 1)) \ {n + 1} = 1..n
    <3>1. \A i \in 1..(n + 1) : i \in S
      OBVIOUS
    <3>2. \A i \in Int : i \in 1..(n + 1) /\ i # n + 1 <=> i \in 1..n
      OBVIOUS
    <3>3. (1..(n + 1)) \ {n + 1} = 1..n
      <4>1. 1..(n + 1) \subseteq Int /\ 1..n \subseteq Int
        OBVIOUS
      <4> HIDE DEF S
      <4> QED
        BY <3>2, <4>1
    <3>4. n + 1 \in 1..(n + 1)
      OBVIOUS
    <3> QED
      BY <3>1, <3>3, <3>4
  <2>4. sum[1..(n + 1)] = sum[1..n] + ds[n + 1][2]
    <3> DEFINE X == 1..(n + 1)
    <3>1. X \in SUBSET S /\ X # {} /\ X \ {Max(X)} = 1..n /\ Max(X) = n + 1 /\ X = 1..(n + 1)
      BY <2>2, <2>3
    <3> HIDE DEF X
    <3>2. sum[X] = sum[X \ {Max(X)}] + ds[Max(X)][2]
      BY <1>7, <3>1
    <3>3. sum[X] = sum[1..n] + ds[n + 1][2]
      BY <3>1, <3>2, Zenon
    <3> QED
      BY <3>3 DEF X
  <2>5. /\ ds[n + 1][2] = t[(n + 1) + 1] - t[n + 1]
        /\ t[(n + 1) + 1] \in Int /\ t[n + 1] \in Int /\ t[1] \in Int
    <3>1. n + 1 \in 1..N /\ (n + 1) + 1 \in 1..(N + 1) /\ n + 1 \in 1..(N + 1) /\ 1 \in 1..(N + 1)
      OBVIOUS
    <3> QED
      BY <3>1
  <2> QED
    BY <2>1, <2>4, <2>5
<1> HIDE DEF W
<1>11. N \in W
  BY <1>9, <1>10, NatsAreIn
<1> QED
  BY <1>8, <1>11 DEF W

\* The times of a chain are sums of what its blocks took.
LEMMA TimeInit == Init => TimeInv
<1>1. SUFFICES ASSUME NEW gap \in [Heights -> Gaps],
                      time = [n \in Heights |-> SumFunctionOnSet(gap, Start..n)]
               PROVE  TimeInv
  BY DEF Init
<1>2. ASSUME NEW n \in Heights
      PROVE  SumFunctionOnSet(gap, Start..n) \in Nat
  <2>1. /\ Start \in Int /\ n \in Int /\ Start..n \subseteq Heights
        /\ \A m \in Heights : gap[m] \in Nat
    <3>1. Start \in Nat /\ End \in Nat /\ Heights = Start..End /\ Gaps \subseteq Nat
      BY BlockConstants
    <3>2. n \in Start..End
      BY <3>1
    <3>3. Start..n \subseteq Start..End
      BY <3>1, <3>2
    <3>4. \A m \in Heights : gap[m] \in Gaps
      BY <1>1
    <3>5. Start \in Int /\ n \in Int /\ Start..n \subseteq Heights
      BY <3>1, <3>2, <3>3
    <3>6. \A m \in Heights : gap[m] \in Nat
      BY <3>1, <3>4
    <3> QED
      BY <3>5, <3>6
  <2>2. IsFiniteSet(Start..n) /\ \A m \in Start..n : gap[m] \in Nat
    BY <2>1, FS_Interval
  <2> QED
    BY <2>2, SumIsNat
<1> QED
  BY <1>1, <1>2, Zenon DEF TimeInv
LEMMA TimeAlways == Spec => []TimeInv
<1>1. TimeInv /\ [Next]_timesVars => TimeInv'
  <2>1. [Next]_timesVars => time' = time
    BY DEF Next, RangeStep, Take, Answer, Fail, Collect, Report, timesVars
  <2> QED
    BY <2>1 DEF TimeInv
<1> QED
  BY TimeInit, <1>1, PTL DEF Spec
-----------------------------------------------------------------------------
\* The blocks lost between the first and the last fetched one.
LEMMA LostWithin ==
  ASSUME NEW S \in SUBSET Heights, Cardinality(S) >= 1, NEW L, S \cup L = Heights, S \cap L = {}
  PROVE  LET first == Min(S)  last == Max(S) IN
         /\ first \in Heights /\ last \in Heights
         /\ Cardinality(L \cap (first..last)) = last - first + 1 - Cardinality(S)
<1> DEFINE N == Cardinality(S)
           bs == Ascending(S)
<1>1. /\ N \in Nat /\ N >= 1 /\ bs \in [1..N -> S] /\ IsFiniteSet(S)
      /\ \A n \in S : \E i \in 1..N : bs[i] = n
      /\ \A i, j \in 1..N : i < j => bs[i] < bs[j]
  BY BlocksInOrder
<1>2. Min(S) = bs[1] /\ Max(S) = bs[N]
  BY Neighbours
<1>3. Heights = Start..End /\ Start \in Nat /\ End \in Nat
  BY BlockConstants
<1> HIDE DEF N, bs
<1>4. \A n \in S : bs[1] <= n /\ n <= bs[N]
  <2> SUFFICES ASSUME NEW i \in 1..N PROVE bs[1] <= bs[i] /\ bs[i] <= bs[N]
    BY <1>1
  <2>1. (i = 1 \/ 1 < i) /\ (i = N \/ i < N) /\ 1 \in 1..N /\ N \in 1..N
    BY <1>1
  <2>2. (1 < i => bs[1] < bs[i]) /\ (i < N => bs[i] < bs[N])
    BY <1>1, <2>1
  <2>3. bs[1] \in Int /\ bs[i] \in Int /\ bs[N] \in Int
    BY <1>1, <1>3, <2>1
  <2> QED
    BY <2>1, <2>2, <2>3
<1> DEFINE first == bs[1]
           last  == bs[N]
           I == first..last
<1>5. first \in S /\ last \in S /\ first \in Heights /\ last \in Heights /\ first <= last
  <2>1. 1 \in 1..N /\ N \in 1..N
    BY <1>1
  <2> QED
    BY <1>1, <1>4, <2>1
<1>6. S \subseteq I /\ I \subseteq Heights
  BY <1>3, <1>4, <1>5
<1>7. L \cap I = I \ S
  BY <1>6
<1>8. IsFiniteSet(I) /\ Cardinality(I) = last - first + 1
  <2>1. first \in Int /\ last \in Int
    BY <1>3, <1>5
  <2> QED
    BY <1>5, <2>1, FS_Interval
<1>9. Cardinality(I \ S) = Cardinality(I) - Cardinality(I \cap S) /\ I \cap S = S
  BY <1>6, <1>8, FS_Difference
<1>10. Cardinality(L \cap I) = last - first + 1 - Cardinality(S)
  <2>1. Cardinality(L \cap I) = Cardinality(I) - Cardinality(I \cap S)
    BY <1>7, <1>9, Zenon
  <2>2. Cardinality(I \cap S) = Cardinality(S)
    BY <1>9, Zenon
  <2>3. last \in Int /\ first \in Int /\ Cardinality(S) \in Int
    BY <1>1, <1>3, <1>5 DEF N
  <2> HIDE DEF I
  <2> QED
    BY <1>8, <2>1, <2>2, <2>3
<1>11. Min(S) = first /\ Max(S) = last
  BY <1>2
<1> HIDE DEF first, last
<1> QED
  BY <1>5, <1>10, <1>11

\* analyze_block_production: the number called missing is what the chain is short
\* of over the fetched span, and the lost blocks within it.
THEOREM MissingIsShortAndLost == Spec => []MissingCountsLost
<1>1. Init => MissingCountsLost
  BY DEF Init, MissingCountsLost
<1>2. FetchInv /\ DoneInv /\ TimeInv /\ MissingCountsLost /\ [Next]_timesVars => MissingCountsLost'
  <2> SUFFICES ASSUME FetchInv, DoneInv, TimeInv, MissingCountsLost, [Next]_timesVars,
                      pc' = "reported"
               PROVE  MissingCountsLost'
    BY DEF MissingCountsLost
  <2>1. /\ Fetched' = Fetched /\ Lost' = Lost /\ time' = time
        /\ Report \/ (pc = "reported" /\ UNCHANGED <<diffs, miners, missing>>)
    BY NothingAfter
  <2>2. CASE pc = "reported" /\ UNCHANGED <<diffs, miners, missing>>
    BY <2>1, <2>2 DEF MissingCountsLost
  <2>3. CASE Report
    <3> DEFINE N == Cardinality(Fetched)
               bs == Ascending(Fetched)
               first == Min(Fetched)
               last == Max(Fetched)
               t == [i \in 1..N |-> time[bs[i]]]
               gone == Cardinality(Lost \cap (first..last))
    <3>1. /\ Fetched \in SUBSET Heights /\ N \in Nat /\ N >= 2
          /\ Fetched \cup Lost = Heights /\ Fetched \cap Lost = {}
          /\ diffs' = calculate_block_time_diffs(bs)
          /\ missing' = IF Len(diffs') < 2 THEN 0 ELSE ShortOf(diffs')
      BY <2>3, ReportIs
    <3>2. bs \in [1..N -> Fetched] /\ Len(bs) = N
      BY <3>1, BlocksInOrder
    <3>3. first = bs[1] /\ last = bs[N]
      BY <3>1, Neighbours
    <3>4. first \in Heights /\ last \in Heights /\ gone = last - first + 1 - N
      <4>1. N >= 1
        BY <3>1
      <4> QED
        BY <3>1, <4>1, LostWithin
    <3> HIDE DEF N, bs, first, last, gone
    <3>5. diffs' = [i \in 1..(N - 1) |-> <<bs[i], time[bs[i + 1]] - time[bs[i]]>>]
      BY <3>1, <3>2 DEF calculate_block_time_diffs
    <3>6. t \in [1..((N - 1) + 1) -> Int] /\ N - 1 \in Nat /\ (N - 1) + 1 = N
          /\ t[1] = time[first] /\ t[N] = time[last]
      <4>1. \A i \in 1..N : time[bs[i]] \in Int
        BY <3>1, <3>2 DEF TimeInv
      <4>2. 1 \in 1..N /\ N \in 1..N /\ (N - 1) + 1 = N /\ N - 1 \in Nat
        BY <3>1
      <4> QED
        BY <3>3, <4>1, <4>2
    <3>7. /\ DOMAIN diffs' = 1..(N - 1) /\ Len(diffs') = N - 1
          /\ \A i \in 1..(N - 1) : diffs'[i][2] = t[i + 1] - t[i]
      <4>1. \A i \in 1..(N - 1) : i \in 1..N /\ i + 1 \in 1..N
        BY <3>1
      <4>2. DOMAIN diffs' = 1..(N - 1) /\ Len(diffs') = N - 1
        BY <3>1, <3>5
      <4>3. \A i \in 1..(N - 1) : diffs'[i][2] = time[bs[i + 1]] - time[bs[i]]
        BY <3>5
      <4> QED
        BY <4>1, <4>2, <4>3
    <3> HIDE DEF t
    <3>8. ShortOf(diffs') = t[(N - 1) + 1] - t[1] - (N - 1) * Normal
      BY <3>6, <3>7, ShortOfTimes
    <3>9. N - 1 >= 2 => missing' = time[last] - time[first] - (N - 1) * Normal
      BY <3>1, <3>6, <3>7, <3>8
    <3>10. (N - 1) * Normal = (last - first) * Normal - Normal * gone
      <4>1. N - 1 = (last - first) - gone /\ last \in Int /\ first \in Int /\ gone \in Int /\ N \in Int
        BY <3>1, <3>4, BlockConstants
      <4>2. Normal \in Int
        BY BlockConstants
      <4>3. \A a, b, n \in Int : (a - b) * n = a * n - n * b
        OBVIOUS
      <4>4. ((last - first) - gone) * Normal = (last - first) * Normal - Normal * gone
        BY <4>1, <4>2, <4>3
      <4> QED
        BY <4>1, <4>4
    <3>11. /\ time[last] \in Int /\ time[first] \in Int /\ (last - first) * Normal \in Int
           /\ Normal * gone \in Int
      BY <3>1, <3>4, BlockConstants DEF TimeInv
    <3>12. N - 1 >= 2 =>
             missing' = time[last] - time[first] - (last - first) * Normal + Normal * gone
      BY <3>9, <3>10, <3>11
    <3> QED
      BY <2>1, <3>7, <3>12 DEF MissingCountsLost, first, last, gone
  <2> QED
    BY <2>1, <2>2, <2>3
<1> QED
  BY FetchAlways, TimeAlways, <1>1, <1>2, PTL DEF Spec
-----------------------------------------------------------------------------
(* The miners of the unusual blocks: the loop from the last block down. *)

Entries == {<<Miner[n], n, d>> : n \in Heights, d \in Int}
Turns   == [last : Int, found : Seq(Entries)]

LEMMA AppendNew ==
  ASSUME NEW X, NEW s \in Seq(X), NEW e \in X, IsInjective(s), e \notin ToSet(s)
  PROVE  IsInjective(Append(s, e)) /\ ToSet(Append(s, e)) = ToSet(s) \cup {e}
<1> DEFINE N == Len(s)
           t == Append(s, e)
<1>1. /\ N \in Nat /\ DOMAIN s = 1..N /\ DOMAIN t = 1..(N + 1) /\ t[N + 1] = e
      /\ \A i \in 1..N : t[i] = s[i]
  OBVIOUS
<1> HIDE DEF t
<1>2. ASSUME NEW i \in 1..(N + 1), NEW j \in 1..(N + 1), t[i] = t[j] PROVE i = j
  <2>1. (i = N + 1 \/ i \in 1..N) /\ (j = N + 1 \/ j \in 1..N)
    BY <1>1
  <2>2. \A k \in 1..N : s[k] # e
    BY <1>1 DEF ToSet
  <2> QED
    BY <1>1, <1>2, <2>1, <2>2 DEF IsInjective
<1>3. ToSet(t) = ToSet(s) \cup {e}
  <2>1. \A i \in 1..(N + 1) : i = N + 1 \/ i \in 1..N
    BY <1>1
  <2>2. \A i \in 1..N : i \in 1..(N + 1)
    BY <1>1
  <2>3. N + 1 \in 1..(N + 1)
    BY <1>1
  <2> QED
    BY <1>1, <2>1, <2>2, <2>3 DEF ToSet
<1> QED
  BY <1>1, <1>2, <1>3 DEF IsInjective, t

LEMMA StepIs ==
  ASSUME TimeInv, NEW a \in Turns, NEW n \in Heights
  PROVE  /\ StepTo(a, n) \in Turns /\ StepTo(a, n).last = time[n]
         /\ a.last - time[n] > Threshold =>
              /\ <<Miner[n], n, a.last - time[n]>> \in Entries
              /\ StepTo(a, n).found = Append(a.found, <<Miner[n], n, a.last - time[n]>>)
         /\ ~(a.last - time[n] > Threshold) => StepTo(a, n).found = a.found
<1> DEFINE d == a.last - time[n]
           e == <<Miner[n], n, d>>
<1>1. a.last \in Int /\ a.found \in Seq(Entries) /\ time[n] \in Int
  BY DEF Turns, TimeInv
<1>2. d \in Int
  BY <1>1
<1>3. e \in Entries
  <2> HIDE DEF d
  <2> QED
    BY <1>2 DEF Entries
<1> HIDE DEF e
<1>4. Append(a.found, e) \in Seq(Entries)
  BY <1>1, <1>3
<1>5. StepTo(a, n) = [last |-> time[n], found |-> IF d > Threshold THEN Append(a.found, e) ELSE a.found]
  BY DEF StepTo, e
<1>6. StepTo(a, n) \in Turns
  <2> HIDE DEF d
  <2> QED
    BY <1>1, <1>4, <1>5 DEF Turns
<1>7. /\ StepTo(a, n).last = time[n]
      /\ d > Threshold => StepTo(a, n).found = Append(a.found, e)
      /\ ~(d > Threshold) => StepTo(a, n).found = a.found
  <2> HIDE DEF d
  <2> QED
    BY <1>5
<1> QED
  BY <1>3, <1>6, <1>7 DEF e

LEMMA MinersFound ==
  ASSUME TimeInv, NEW N \in Nat, N >= 1, NEW bs \in [1..N -> Heights], Len(bs) = N,
         \A i, j \in 1..N : i < j => bs[i] < bs[j]
  PROVE  /\ IsInjective(get_last_miners(bs))
         /\ ToSet(get_last_miners(bs)) =
              {<<Miner[bs[i]], bs[i], time[bs[i + 1]] - time[bs[i]]>> :
                 i \in {k \in 1..(N - 1) : time[bs[k + 1]] - time[bs[k]] > Threshold}}
<1> DEFINE S == DOMAIN bs
           base == [last |-> time[Last(bs)], found |-> <<>>]
           pick == [T \in (SUBSET S) \ {{}} |-> Min(T)]
           step == [T \in SUBSET S |-> [v \in Turns |-> IF T = {} THEN v ELSE StepTo(v, bs[Min(T)])]]
           iter == CHOOSE g : g = [T \in SUBSET S |-> IF T = {} THEN base
                                                      ELSE StepTo(g[T \ {Min(T)}], bs[Min(T)])]
<1>1. S = 1..N /\ IsFiniteSet(S) /\ S \subseteq Int
  BY FS_Interval
<1>2. get_last_miners(bs) = iter[S].found
  BY Zenon DEF get_last_miners, FoldRight, MapThenFoldSet
<1>3. base \in Turns /\ base.last = time[bs[N]] /\ base.found = <<>>
  <2>1. Last(bs) = bs[N] /\ bs[N] \in Heights
    BY DEF Last
  <2>2. time[bs[N]] \in Int
    BY <2>1 DEF TimeInv
  <2>3. <<>> \in Seq(Entries)
    OBVIOUS
  <2> QED
    BY <2>1, <2>2, <2>3 DEF Turns
<1> HIDE DEF base
<1>4. ASSUME NEW T \in (SUBSET S) \ {{}} PROVE Min(T) \in T /\ Min(T) \in S /\ bs[Min(T)] \in Heights
  <2>1. IsFiniteSet(T) /\ T \in SUBSET Int /\ T # {}
    BY <1>1, FS_Subset
  <2>2. Min(T) \in T
    BY <2>1, ExtremesExist
  <2> QED
    BY <1>1, <2>2
<1>5. pick \in [(SUBSET S) \ {{}} -> S] /\ \A T \in (SUBSET S) \ {{}} : pick[T] \in T
  BY <1>4
<1>6. step \in [SUBSET S -> [Turns -> Turns]]
  <2>1. ASSUME NEW T \in SUBSET S, NEW v \in Turns
        PROVE  (IF T = {} THEN v ELSE StepTo(v, bs[Min(T)])) \in Turns
    <3>1. CASE T = {}
      BY <3>1
    <3>2. CASE T # {}
      <4>1. StepTo(v, bs[Min(T)]) \in Turns
        BY <1>4, <3>2, StepIs
      <4> QED
        BY <3>2, <4>1
    <3> QED
      BY <3>1, <3>2
  <2> QED
    BY <2>1
<1>7. PICK g : IsFold(g, S, Turns, base, pick, step)
  <2> HIDE DEF S, pick, step
  <2>1. \E g : IsFold(g, S, Turns, base, pick, step)
    BY <1>1, <1>3, <1>5, <1>6, FoldExists
  <2> QED
    BY <2>1
<1>8. g \in [SUBSET S -> Turns]
      /\ \A T \in SUBSET S : g[T] = IF T = {} THEN base ELSE StepTo(g[T \ {Min(T)}], bs[Min(T)])
  <2>1. g \in [SUBSET S -> Turns]
    BY <1>7 DEF IsFold
  <2>2. ASSUME NEW T \in SUBSET S, T # {} PROVE g[T] = StepTo(g[T \ {Min(T)}], bs[Min(T)])
    <3>1. g[T] = step[T][g[T \ {pick[T]}]] /\ pick[T] = Min(T)
      BY <1>7, <2>2 DEF IsFold
    <3>2. g[T \ {Min(T)}] \in Turns
      BY <2>1
    <3> QED
      BY <2>2, <3>1, <3>2
  <2>3. g[{}] = base
    BY <1>7 DEF IsFold
  <2> QED
    BY <2>1, <2>2, <2>3
<1>9. g = [T \in SUBSET S |-> IF T = {} THEN base ELSE StepTo(g[T \ {Min(T)}], bs[Min(T)])]
  BY <1>8
<1>10. iter = [T \in SUBSET S |-> IF T = {} THEN base ELSE StepTo(iter[T \ {Min(T)}], bs[Min(T)])]
  BY <1>9, Zenon
<1> HIDE DEF iter, pick, step, S
<1> DEFINE diff(i) == time[bs[i + 1]] - time[bs[i]]
           Entry(i) == <<Miner[bs[i]], bs[i], diff(i)>>
           Unusual(k) == {i \in k..(N - 1) : diff(i) > Threshold}
           Below(k) == IF k > N THEN N ELSE k
           Inv(k, v) == /\ v \in Turns /\ v.last = time[bs[Below(k)]]
                        /\ IsInjective(v.found) /\ ToSet(v.found) = {Entry(i) : i \in Unusual(k)}
<1>11. Inv(N + 1, base)
  <2>1. Unusual(N + 1) = {} /\ Below(N + 1) = N
    OBVIOUS
  <2>2. IsInjective(<<>>) /\ ToSet(<<>>) = {}
    BY DEF IsInjective, ToSet
  <2> HIDE DEF Unusual, Below, Entry
  <2> QED
    BY <1>3, <2>1, <2>2
<1>12. ASSUME NEW k \in 1..N, NEW v, Inv(k + 1, v) PROVE Inv(k, StepTo(v, bs[k]))
  <2> DEFINE w == StepTo(v, bs[k])
             e == <<Miner[bs[k]], bs[k], v.last - time[bs[k]]>>
  <2>1. v \in Turns /\ bs[k] \in Heights /\ Below(k) = k
    BY <1>12
  <2>2. /\ w \in Turns /\ w.last = time[bs[k]]
        /\ v.last - time[bs[k]] > Threshold => e \in Entries /\ w.found = Append(v.found, e)
        /\ ~(v.last - time[bs[k]] > Threshold) => w.found = v.found
    BY <2>1, StepIs
  <2> HIDE DEF w
  <2>3. CASE k = N
    <3>1. v.last - time[bs[k]] = 0 /\ ~(0 > Threshold)
      <4>1. Below(k + 1) = N /\ v.last = time[bs[N]]
        BY <1>12, <2>3
      <4>2. time[bs[N]] \in Int
        BY <2>1, <2>3 DEF TimeInv
      <4> QED
        BY <2>3, <4>1, <4>2, BlockConstants
    <3>2. w.found = v.found
      BY <2>2, <3>1
    <3>3. Unusual(k) = {} /\ Unusual(k + 1) = {}
      BY <2>3
    <3>4. Inv(k, w)
      <4> HIDE DEF Unusual, Entry, Below
      <4> QED
        BY <1>12, <2>1, <2>2, <3>2, <3>3
    <3> QED
      BY <3>4 DEF w
  <2>4. CASE k # N
    <3>1. k \in 1..(N - 1) /\ Below(k + 1) = k + 1
      BY <2>4
    <3>2. v.last - time[bs[k]] = diff(k) /\ e = Entry(k)
      BY <1>12, <3>1
    <3>3. \A i \in Int : i \in k..(N - 1) <=> i = k \/ i \in (k + 1)..(N - 1)
      BY <3>1
    <3>4. CASE diff(k) > Threshold
      <4>1. Unusual(k) = Unusual(k + 1) \cup {k}
        <5>1. \A i \in Int : i \in Unusual(k) <=> i \in Unusual(k + 1) \/ i = k
          <6> HIDE DEF diff
          <6> QED
            BY <3>3, <3>4
        <5>2. Unusual(k) \subseteq Int /\ Unusual(k + 1) \subseteq Int
          OBVIOUS
        <5> HIDE DEF Unusual
        <5> QED
          BY <5>1, <5>2
      <4>2. Entry(k) \notin {Entry(i) : i \in Unusual(k + 1)}
        <5>1. ASSUME NEW i \in Unusual(k + 1) PROVE bs[i] # bs[k]
          <6>1. i \in 1..N /\ k < i
            BY <3>1
          <6>2. bs[k] < bs[i] /\ bs[k] \in Int /\ bs[i] \in Int
            BY <6>1, BlockConstants
          <6> QED
            BY <6>2
        <5> HIDE DEF Unusual, diff
        <5> QED
          BY <5>1
      <4>3. w.found = Append(v.found, Entry(k)) /\ Entry(k) \in Entries
        <5> HIDE DEF Entry, diff, e
        <5> QED
          BY <2>2, <3>2, <3>4
      <4>4. v.found \in Seq(Entries)
        BY <2>1 DEF Turns
      <4> HIDE DEF Unusual, Entry, diff, Below
      <4>5. IsInjective(w.found) /\ ToSet(w.found) = ToSet(v.found) \cup {Entry(k)}
        BY <1>12, <4>2, <4>3, <4>4, AppendNew
      <4>6. ToSet(w.found) = {Entry(i) : i \in Unusual(k)}
        BY <1>12, <4>1, <4>5
      <4>7. Inv(k, w)
        BY <2>1, <2>2, <4>5, <4>6
      <4> QED
        BY <4>7 DEF w
    <3>5. CASE ~(diff(k) > Threshold)
      <4>1. Unusual(k) = Unusual(k + 1)
        <5>1. \A i \in Int : i \in Unusual(k) <=> i \in Unusual(k + 1)
          <6> HIDE DEF diff
          <6> QED
            BY <3>3, <3>5
        <5>2. Unusual(k) \subseteq Int /\ Unusual(k + 1) \subseteq Int
          OBVIOUS
        <5> HIDE DEF Unusual
        <5> QED
          BY <5>1, <5>2
      <4>2. w.found = v.found
        <5> HIDE DEF diff
        <5> QED
          BY <2>2, <3>2, <3>5
      <4> HIDE DEF Unusual, Entry, diff, Below
      <4>3. Inv(k, w)
        BY <1>12, <2>1, <2>2, <4>1, <4>2
      <4> QED
        BY <4>3 DEF w
    <3> QED
      BY <3>4, <3>5
  <2> QED
    BY <2>3, <2>4
<1> HIDE DEF Inv
<1> DEFINE W == {j \in Nat : j <= N => Inv(N - j + 1, iter[(N - j + 1)..N])}
<1>13. 0 \in W
  <2>1. (N - 0 + 1)..N = {} /\ N - 0 + 1 = N + 1
    OBVIOUS
  <2>2. iter[{}] = base
    BY <1>10
  <2>3. Inv(N - 0 + 1, iter[(N - 0 + 1)..N])
    BY <1>11, <2>1, <2>2, Zenon
  <2> QED
    BY <2>3
<1>14. ASSUME NEW j \in Nat, j \in W PROVE j + 1 \in W
  <2> SUFFICES ASSUME j + 1 <= N PROVE Inv(N - (j + 1) + 1, iter[(N - (j + 1) + 1)..N])
    OBVIOUS
  <2> DEFINE k == N - (j + 1) + 1
             X == k..N
  <2>1. k \in 1..N /\ N - j + 1 = k + 1 /\ k \in Int /\ k <= N
    OBVIOUS
  <2>2. Inv(k + 1, iter[(k + 1)..N])
    <3>1. Inv(N - j + 1, iter[(N - j + 1)..N])
      BY <1>14
    <3> HIDE DEF k
    <3> QED
      BY <2>1, <3>1, Zenon
  <2> HIDE DEF k
  <2>3. Min(X) = k
    <3>1. X \subseteq Int /\ k \in X /\ \A y \in X : k <= y
      BY <2>1
    <3> HIDE DEF X
    <3> QED
      BY <3>1, MinIs
  <2>4. X \in SUBSET S /\ X # {} /\ X \ {k} = (k + 1)..N
    <3>1. \A i \in Int : i \in X /\ i # k <=> i \in (k + 1)..N
      BY <2>1
    <3>2. X \subseteq Int /\ (k + 1)..N \subseteq Int
      BY <2>1
    <3>3. X \subseteq 1..N /\ k \in X
      BY <2>1
    <3> HIDE DEF X
    <3> QED
      BY <1>1, <3>1, <3>2, <3>3
  <2>5. iter[X] = StepTo(iter[(k + 1)..N], bs[k])
    <3> HIDE DEF X
    <3>1. iter[X] = StepTo(iter[X \ {Min(X)}], bs[Min(X)])
      BY <1>10, <2>4, Zenon
    <3> QED
      BY <2>3, <2>4, <3>1, Zenon
  <2>6. Inv(k, iter[X])
    BY <1>12, <2>1, <2>2, <2>5
  <2> QED
    BY <2>6 DEF k, X
<1> HIDE DEF W
<1>15. N \in W
  BY <1>13, <1>14, NatsAreIn
<1>16. Inv(1, iter[1..N])
  <2>1. Inv(N - N + 1, iter[(N - N + 1)..N])
    BY <1>15 DEF W
  <2>2. N - N + 1 = 1
    OBVIOUS
  <2> QED
    BY <2>1, <2>2, Zenon
<1>17. /\ IsInjective(get_last_miners(bs))
       /\ ToSet(get_last_miners(bs)) = {Entry(i) : i \in Unusual(1)}
  BY <1>1, <1>2, <1>16, Zenon DEF Inv
<1> QED
  BY <1>17, Zenon

\* get_last_miners: miners.json and blocks_time.json tell of the same times.
THEOREM MinersAreOfTheTimes == Spec => []MinersAgreeWithTimes
<1>1. Init => MinersAgreeWithTimes
  BY DEF Init, MinersAgreeWithTimes
<1>2. FetchInv /\ DoneInv /\ TimeInv /\ MinersAgreeWithTimes /\ [Next]_timesVars => MinersAgreeWithTimes'
  <2> SUFFICES ASSUME FetchInv, DoneInv, TimeInv, MinersAgreeWithTimes, [Next]_timesVars,
                      pc' = "reported"
               PROVE  MinersAgreeWithTimes'
    BY DEF MinersAgreeWithTimes
  <2>1. Report \/ (pc = "reported" /\ UNCHANGED <<diffs, miners, missing>>)
    BY NothingAfter
  <2>2. CASE pc = "reported" /\ UNCHANGED <<diffs, miners, missing>>
    BY <2>2 DEF MinersAgreeWithTimes
  <2>3. CASE Report
    <3> DEFINE N == Cardinality(Fetched)
               bs == Ascending(Fetched)
               diff(i) == time[bs[i + 1]] - time[bs[i]]
    <3>1. /\ Fetched \in SUBSET Heights /\ N \in Nat /\ N >= 2
          /\ diffs' = calculate_block_time_diffs(bs) /\ miners' = get_last_miners(bs)
      BY <2>3, ReportIs
    <3>2. /\ bs \in [1..N -> Fetched] /\ Len(bs) = N
          /\ \A i, j \in 1..N : i < j => bs[i] < bs[j]
      BY <3>1, BlocksInOrder
    <3> HIDE DEF N, bs
    <3>3. N >= 1 /\ bs \in [1..N -> Heights]
      BY <3>1, <3>2
    <3>4. /\ IsInjective(get_last_miners(bs))
          /\ ToSet(get_last_miners(bs)) =
               {<<Miner[bs[i]], bs[i], diff(i)>> : i \in {k \in 1..(N - 1) : diff(k) > Threshold}}
      BY <3>1, <3>2, <3>3, MinersFound
    <3>5. diffs' = [i \in 1..(N - 1) |-> <<bs[i], diff(i)>>]
      BY <3>1, <3>2 DEF calculate_block_time_diffs
    <3> HIDE DEF diff
    <3>6. ToSet(diffs') = {<<bs[i], diff(i)>> : i \in 1..(N - 1)}
      BY <3>5 DEF ToSet
    <3>7. {<<Miner[d[1]], d[1], d[2]>> : d \in {e \in ToSet(diffs') : e[2] > Threshold}} =
            {<<Miner[bs[i]], bs[i], diff(i)>> : i \in {k \in 1..(N - 1) : diff(k) > Threshold}}
      <4> DEFINE Long == {e \in ToSet(diffs') : e[2] > Threshold}
                 Unusual == {k \in 1..(N - 1) : diff(k) > Threshold}
      <4>1. \A i \in Unusual : <<bs[i], diff(i)>> \in Long
        BY <3>6
      <4>2. \A e \in Long : \E i \in Unusual : e = <<bs[i], diff(i)>>
        BY <3>6
      <4> DEFINE e(i) == <<bs[i], diff(i)>>
                 f(d) == <<Miner[d[1]], d[1], d[2]>>
                 h(i) == <<Miner[bs[i]], bs[i], diff(i)>>
      <4>3. \A i \in Unusual : f(e(i)) = h(i)
        OBVIOUS
      <4> HIDE DEF Long, Unusual, e, f, h
      <4>4. {f(d) : d \in Long} = {h(i) : i \in Unusual}
        <5>1. \A i \in Unusual : e(i) \in Long
          BY <4>1 DEF e
        <5>2. \A d \in Long : \E i \in Unusual : d = e(i)
          BY <4>2 DEF e
        <5>3. \A d \in Long : \E i \in Unusual : f(d) = h(i)
          BY <4>3, <5>2, Zenon
        <5>4. \A i \in Unusual : \E d \in Long : f(d) = h(i)
          BY <4>3, <5>1, Zenon
        <5> QED
          BY <5>3, <5>4, Zenon
      <4> QED
        BY <4>4 DEF Long, Unusual, f, h
    <3> QED
      BY <3>1, <3>4, <3>7 DEF MinersAgreeWithTimes
  <2> QED
    BY <2>1, <2>2, <2>3
<1> QED
  BY FetchAlways, TimeAlways, <1>1, <1>2, PTL DEF Spec
=============================================================================
