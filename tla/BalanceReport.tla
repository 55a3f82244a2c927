--------------------------- MODULE BalanceReport ---------------------------
(***************************************************************************)
(* What the reports of balance-monitoring say of the nodes: the captures   *)
(* check.sh takes, the join of two of them (getdiff), the offline list and *)
(* the sections of the text and JSON reports (monitoring.sh). Time slots,  *)
(* files and overlapping runs are module BalanceRing; here a round is one  *)
(* check.sh with its offline.sh, and the reports are read off the state.   *)
(***************************************************************************)
EXTENDS SortedSets, Sequences

CONSTANTS Addr,        \* the addresses; their order is the order of sort
          MaxBalance,  \* bound: balances on the chain
          Lag          \* captures between the two of an hourly report (4)

ASSUME ReportAssumption ==
  Addr \subseteq Nat /\ IsFiniteSet(Addr) /\ MaxBalance \in Nat /\ Lag \in Nat \ {0}

VARIABLES chain,     \* the balances on the chain
          listed,    \* the addresses in fn-keys
          captures,  \* the captures kept, newest first
          truth,     \* history: the balances when each of them was taken
          offline    \* generated/offline.txt

reportVars == <<chain, listed, captures, truth, offline>>

\* A capture: one line per address, an unanswered one as "address -1 0".
NotFound == [shard |-> -1, amount |-> 0]
NoCapture == << >>
Known(c, a) == a \in DOMAIN c

Newest(n) == IF n <= Len(captures) THEN captures[n] ELSE NoCapture
current  == Newest(1)
previous == Newest(2)             \* 15 minutes ago
anHourAgo == Newest(Lag + 1)

Row(a, s, d) == [addr |-> a, shard |-> s, ones |-> d]
\* Mutants of getdiff: the lines of dropped addresses left in the paste; the
\* extra lines forgotten.
getdiffUnfiltered(cur, prev) ==
  LET extra == {a \in DOMAIN cur : ~Known(prev, a)}
      curr  == Ascending(DOMAIN cur \ extra)
      prevs == Ascending(DOMAIN prev)
  IN {Row(curr[i], cur[curr[i]].shard, cur[curr[i]].amount - prev[prevs[i]].amount) :
        i \in DOMAIN curr}
     \cup {Row(a, cur[a].shard, cur[a].amount) : a \in extra}
getdiffNoExtra(cur, prev) ==
  {Row(a, cur[a].shard, cur[a].amount - prev[a].amount) :
     a \in DOMAIN cur \cap DOMAIN prev}

\* getdiff: the addresses both captures have are pasted side by side in sorted
\* order, line by line; the new ones follow with their whole balance.
getdiff(cur, prev) ==
  LET extra == {a \in DOMAIN cur : ~Known(prev, a)}
      curr  == Ascending(DOMAIN cur \ extra)
      prevs == Ascending({a \in DOMAIN prev : Known(cur, a)})
  IN {Row(curr[i], cur[curr[i]].shard, cur[curr[i]].amount - prev[prevs[i]].amount) :
        i \in DOMAIN curr}
     \cup {Row(a, cur[a].shard, cur[a].amount) : a \in extra}

hourly == getdiff(current, anHourAgo)

\* grep "-1" on a line finds the shard of an unanswered address, and every
\* difference that begins with -1 (balances here have one digit).
MatchesMinusOne(row) == row.shard = -1 \/ row.ones = -1

Addrs(rows) == {row.addr : row \in rows}
InOffline(row) == row.addr \in offline
OnShard(row) == row.shard \in 0..3

\* gentxt's three portions, genjson's three lists, of a report's rows.
earning(rows)      == {row \in rows : ~InOffline(row) /\ OnShard(row)}
notEarning(rows)   == {row \in rows : InOffline(row) /\ OnShard(row)}
newlyAdded(rows)   == {row \in rows : InOffline(row) /\ row.shard = -1}
onlineNodes(rows)  == {row \in rows : ~InOffline(row)}
offlineNodes(rows) == {row \in rows : InOffline(row) /\ ~MatchesMinusOne(row)}
newlyAddedNodes(rows) == {row \in rows : MatchesMinusOne(row)}

\* header's "validating w/ new": the lines of the capture less those of the
\* offline list.
num_on == Cardinality(DOMAIN current) - Cardinality(offline)
-----------------------------------------------------------------------------
ReportInit ==
  /\ chain \in [Addr -> 0..1]
  /\ listed \in SUBSET Addr \ {{}}
  /\ captures = <<>> /\ truth = <<>> /\ offline = {}

Earn(a) ==
  /\ chain[a] < MaxBalance
  /\ chain' = [chain EXCEPT ![a] = @ + 1]
  /\ UNCHANGED <<listed, captures, truth, offline>>

Spend(a) ==
  /\ chain[a] > 0
  /\ chain' = [chain EXCEPT ![a] = @ - 1]
  /\ UNCHANGED <<listed, captures, truth, offline>>

\* fn-keys gains or loses an address; it is never empty.
Relist(a) ==
  /\ listed # {a}
  /\ listed' = IF a \in listed THEN listed \ {a} ELSE listed \cup {a}
  /\ UNCHANGED <<chain, captures, truth, offline>>

Keep(seq, new1) == SubSeq(<<new1>> \o seq, 1,
                          IF Len(seq) < Lag THEN Len(seq) + 1 ELSE Lag + 1)

\* Mutant: offline.sh compares with the capture before the last one.
CheckHalfHour(failed) ==
  LET taken == [a \in listed |-> IF a \in failed THEN NotFound
                                 ELSE [shard |-> a % 4, amount |-> chain[a]]]
  IN /\ captures' = Keep(captures, taken)
     /\ truth' = Keep(truth, [a \in listed |-> chain[a]])
     /\ offline' = Addrs({row \in getdiff(taken, previous) : row.ones = 0})
     /\ UNCHANGED <<chain, listed>>

\* Mutant: ">>" for ">" in offline.sh.
CheckAppending(failed) ==
  LET taken == [a \in listed |-> IF a \in failed THEN NotFound
                                 ELSE [shard |-> a % 4, amount |-> chain[a]]]
  IN /\ captures' = Keep(captures, taken)
     /\ truth' = Keep(truth, [a \in listed |-> chain[a]])
     /\ offline' = offline \cup Addrs({row \in getdiff(taken, current) : row.ones = 0})
     /\ UNCHANGED <<chain, listed>>

\* check.sh, with the addresses that did not answer three times; offline.sh
\* follows with the difference to the capture before.
Check(failed) ==
  LET taken == [a \in listed |-> IF a \in failed THEN NotFound
                                 ELSE [shard |-> a % 4, amount |-> chain[a]]]
  IN /\ captures' = Keep(captures, taken)
     /\ truth' = Keep(truth, [a \in listed |-> chain[a]])
     /\ offline' = Addrs({row \in getdiff(taken, current) : row.ones = 0})
     /\ UNCHANGED <<chain, listed>>

ReportNext ==
  \/ \E a \in Addr : Earn(a) \/ Spend(a) \/ Relist(a)
  \/ \E failed \in SUBSET listed : Check(failed)

ReportSpec == ReportInit /\ [][ReportNext]_reportVars
-----------------------------------------------------------------------------
(* Properties. *)

Answered(c, a) == Known(c, a) /\ c[a].shard # -1

\* The line-by-line paste never pairs two different addresses: for an address
\* both checks reached, the report shows exactly what the chain did in between,
\* whoever was added to or dropped from fn-keys meanwhile.
EarningsAreExact ==
  \A row \in hourly :
    Answered(current, row.addr) /\ Answered(anHourAgo, row.addr) =>
      row.ones = truth[1][row.addr] - truth[Lag + 1][row.addr]

\* Every listed address has one row, whoever joined or left the list.
EveryNodeIsReported ==
  Addrs(hourly) = DOMAIN current /\ Cardinality(hourly) = Cardinality(DOMAIN current)

\* The header is computed from the capture and the offline list of the last
\* check, the JSON from the difference with a capture an hour older: the number
\* of validating nodes in the one is still the number of online nodes of the
\* other (monitoring.sh:72-74, 206).
HeaderCountsOnline == num_on = Cardinality(onlineNodes(hourly))

\* A node that neither of the last two checks reached is NEWLY ADDED in the text
\* and in the JSON, and online in neither, whatever an older capture says of it.
\* (Text and JSON contradict each other about a node that only the last check
\* failed to reach, and about differences that begin with -1.)
UnreachedIsNewlyAdded ==
  \A row \in hourly :
    ~Answered(current, row.addr) /\ ~Answered(previous, row.addr) =>
      /\ row \in newlyAdded(hourly) \cap newlyAddedNodes(hourly)
      /\ row \notin onlineNodes(hourly)

\* An address is only called offline if its last two checks found the same
\* amount on the chain, or if the last one found nothing: a check that failed
\* before, or an address just listed, never hides a balance.
OfflineIsJustified ==
  \A a \in offline :
    \/ current[a].amount = 0
    \/ /\ Answered(current, a) /\ Answered(previous, a)
       /\ truth[1][a] = truth[2][a]
=============================================================================
