---------------------------- MODULE MaxRateAudit ----------------------------
(***************************************************************************)
(* devops/maxrate-bug: the audit of undelegations that were cleared late.  *)
(* It scans the chain's past epoch by epoch, page by page, keeping what it *)
(* fetched in files, and refines what it suspects by the staking           *)
(* transactions of the delegators. A run may die at any call or write; the *)
(* next one begins again, with the files there are.                        *)
(***************************************************************************)
EXTENDS Integers, Sequences, Functions, FiniteSetsExt

CONSTANTS First, Last,   \* the epochs scanned
          Recent,        \* recent_epoch, behind them
          Limit,         \* epochs an undelegation may stay: 8
          Pages,         \* the sets of validators the pages list
          Pairs,         \* <<validator, delegator>>
          Undelegated,   \* epochs of undelegations
          Histories,     \* for each pair, what the epochs may list of it
          TxHistories,   \* the staking transactions a delegator may have made
          Unlisted,      \* a pair of which an epoch lists nothing
          Unknown,       \* a history with a call no signature is known of
          NoFile, Torn,  \* a file that is not there, or was not wholly written
          MaxDeaths      \* bound: runs that die

ASSUME AuditAssumption ==
  /\ First \in Nat \ {0} /\ Last \in Nat /\ Recent \in Nat /\ MaxDeaths \in Nat
  /\ First <= Last /\ Last < Recent
  /\ Limit \in Nat \ {0}
  /\ Undelegated \subseteq 0..Recent
  /\ Pages \in Seq(SUBSET {p[1] : p \in Pairs}) /\ Len(Pages) # 0
  /\ \A p \in Pairs : \E i \in DOMAIN Pages : p[1] \in Pages[i]
  /\ NoFile # Torn

Epochs == (First..Last) \cup {Recent}

\* An undelegation that an epoch lists its pair without does not come back.
ASSUME PastAssumption ==
  \A p \in Pairs, u \in Undelegated, e \in Epochs, f \in Epochs :
    \A h \in Histories[p] :
      u <= e /\ e <= f /\ Unlisted \notin {h[e], h[f]} /\ h[e][u] = 0 => h[f][u] = 0

Delegators == {p[2] : p \in Pairs}
Keys       == Pairs \X Undelegated     \* an undelegation, in Harmony and here

VARIABLES
  chain,    \* the past: pending undelegations of each pair at the end of an epoch
  made,     \* the staking transactions of each delegator
  infos,    \* validator-infos/: the validators an epoch's file has
  txs,      \* staking-txs/
  pc, epoch, page,
  got,      \* validators fetched for this epoch
  ledger,   \* all_pending_undelegation
  todo,     \* bad_undelegations left to refine
  before,   \* pending_undelegation-before-staking.json
  summary,  \* summarize_bad_undelegation-with-staking.json
  deaths

past  == <<chain, made>>
run   == <<pc, epoch, page, got, ledger, todo>>
auditVars == <<past, infos, txs, run, before, summary, deaths>>

\* The amount of an undelegation at an epoch, 0 if it is not pending.
Amount(e, k) == IF chain[e][k[1]] = Unlisted THEN 0 ELSE chain[e][k[1]][k[2]]
Lists(e, p)  == chain[e][p] # Unlisted
-----------------------------------------------------------------------------
Init ==
  /\ \E h \in [Pairs -> UNION Range(Histories)] :
       /\ \A p \in Pairs : h[p] \in Histories[p]
       /\ chain = [e \in Epochs |-> [p \in Pairs |-> h[p][e]]]
  /\ made \in [Delegators -> TxHistories]
  /\ infos = [e \in Epochs |-> NoFile] /\ txs = [d \in Delegators |-> NoFile]
  /\ pc = "idle" /\ epoch = First /\ page = 1 /\ got = {} /\ ledger = <<>> /\ todo = {}
  /\ before = NoFile /\ summary = NoFile /\ deaths = 0

Start ==
  /\ pc = "idle" /\ pc' = "load"
  /\ UNCHANGED <<past, infos, txs, epoch, page, got, ledger, todo, before, summary, deaths>>

\* What is in memory is lost.
GiveUp == pc' = "idle" /\ epoch' = First /\ page' = 1 /\ got' = {} /\ ledger' = <<>> /\ todo' = {}

Die ==
  /\ pc # "idle"
  /\ deaths < MaxDeaths /\ deaths' = deaths + 1
  /\ GiveUp
  /\ UNCHANGED <<past, infos, txs, before, summary>>

\* The run dies in write_json_to_file, after open(..., 'w'): of the file of an epoch
\* or a delegator, which the next run reads, or of a report, whole as an earlier run
\* may have left it.
Tear ==
  /\ deaths < MaxDeaths /\ deaths' = deaths + 1
  /\ \/ /\ pc = "save"
        /\ infos' = [infos EXCEPT ![epoch] = Torn]
        /\ UNCHANGED <<txs, before, summary>>
     \/ /\ pc = "refine"
        /\ \E k \in todo : txs[k[1][2]] = NoFile /\ txs' = [txs EXCEPT ![k[1][2]] = Torn]
        /\ UNCHANGED <<infos, before, summary>>
     \/ /\ pc = "scan" /\ epoch = Recent
        /\ before' = Torn
        /\ UNCHANGED <<infos, txs, summary>>
     \/ /\ pc = "refine" /\ todo = {}
        /\ summary' = Torn
        /\ UNCHANGED <<infos, txs, before>>
  /\ GiveUp
  /\ UNCHANGED past

\* json.load of a torn file, or a call whose signature is not known, ends every run.
FailToRead ==
  /\ \/ pc = "load" /\ infos[epoch] = Torn
     \/ pc = "refine" /\ \E k \in todo : \/ txs[k[1][2]] = Torn
                                         \/ txs[k[1][2]] = NoFile /\ made[k[1][2]] = Unknown
  /\ GiveUp
  /\ UNCHANGED <<past, infos, txs, before, summary, deaths>>

RemoveTorn ==
  /\ infos' = [e \in Epochs |-> IF infos[e] = Torn THEN NoFile ELSE infos[e]]
  /\ txs' = [d \in Delegators |-> IF txs[d] = Torn THEN NoFile ELSE txs[d]]
  /\ <<infos, txs>>' # <<infos, txs>>
  /\ UNCHANGED <<past, run, before, summary, deaths>>
-----------------------------------------------------------------------------
(* get_all_high_fee_validators_at_block. *)

Load ==
  /\ pc = "load" /\ infos[epoch] # Torn
  /\ IF infos[epoch] = NoFile THEN pc' = "fetch" /\ UNCHANGED got
     ELSE pc' = "scan" /\ got' = infos[epoch]
  /\ UNCHANGED <<past, infos, txs, epoch, page, ledger, todo, before, summary, deaths>>

\* Mutant: the file is written with every page.
FetchPageSaving ==
  /\ pc = "fetch"
  /\ got' = got \cup Pages[page]
  /\ infos' = [infos EXCEPT ![epoch] = got']
  /\ IF page < Len(Pages) THEN page' = page + 1 /\ UNCHANGED pc
     ELSE page' = 1 /\ pc' = "save"
  /\ UNCHANGED <<past, txs, epoch, ledger, todo, before, summary, deaths>>

FetchPage ==
  /\ pc = "fetch"
  /\ got' = got \cup Pages[page]
  /\ IF page < Len(Pages) THEN page' = page + 1 /\ UNCHANGED pc
     ELSE page' = 1 /\ pc' = "save"
  /\ UNCHANGED <<past, infos, txs, epoch, ledger, todo, before, summary, deaths>>

Save ==
  /\ pc = "save"
  /\ infos' = [infos EXCEPT ![epoch] = got]
  /\ pc' = "scan"
  /\ UNCHANGED <<past, txs, epoch, page, got, ledger, todo, before, summary, deaths>>
-----------------------------------------------------------------------------
(* The loop over the epochs. *)

Read(e, k) == IF k[1][1] \in got THEN Amount(e, k) ELSE 0
IsRead(e, k) == k[1][1] \in got /\ Lists(e, k[1])

Cleared(r, e, k) ==
  IF r.cleared = 0 /\ IsRead(e, k) /\ Read(e, k) = 0 THEN [r EXCEPT !.cleared = e] ELSE r

\* add_undelegation, after the known ones were looked for.
Added(old, e, k) ==
  IF k \in DOMAIN old
  THEN LET r == Cleared(old[k], e, k)
       IN  IF Read(e, k) # 0 THEN [r EXCEPT !.final = Read(e, k)] ELSE r
  ELSE [cleared |-> 0, original |-> Read(e, k), final |-> Read(e, k), malicious |-> FALSE]

Scan ==
  /\ pc = "scan" /\ epoch # Recent
  /\ ledger' = [k \in DOMAIN ledger \cup {j \in Keys : Read(epoch, j) # 0} |->
                  Added(ledger, epoch, k)]
  /\ epoch' = IF epoch = Last THEN Recent ELSE epoch + 1
  /\ pc' = "load" /\ got' = {}
  /\ UNCHANGED <<past, infos, txs, page, todo, before, summary, deaths>>
-----------------------------------------------------------------------------
(* The verdicts. *)

\* Mutant: the last epoch an undelegation may stay counts as late.
LateOrOnTime(r, u) == r.cleared # 0 /\ r.cleared - u >= Limit
Late(r, u) == r.cleared # 0 /\ r.cleared - u > Limit

\* A changed amount of an undelegation `already above' the seventh epoch: the
\* difference is the wrong way round, no undelegation is later than Recent.
Changed(r, u) == r.original # r.final /\ u - Recent > Limit - 1

Judged(r, k) ==
  LET s == IF Read(Recent, k) # 0 THEN [r EXCEPT !.final = Read(Recent, k)] ELSE r IN
  IF Late(r, k[2]) THEN [r EXCEPT !.malicious = TRUE]
  ELSE [s EXCEPT !.malicious = Read(Recent, k) # 0 /\ Changed(s, k[2])]

Judge ==
  /\ pc = "scan" /\ epoch = Recent
  /\ ledger' = [k \in DOMAIN ledger |-> Judged(ledger[k], k)]
  /\ before' = ledger'
  /\ todo' = {k \in DOMAIN ledger : ledger'[k].malicious}
  /\ pc' = "refine" /\ got' = {}
  /\ UNCHANGED <<past, infos, txs, epoch, page, summary, deaths>>

\* gather_staking_transactions: a successful delegation since the undelegation.
Redelegated(d, u) == \E tx \in made[d] : tx.epoch >= u /\ tx.status = 1 /\ tx.type = "Delegate"

\* Mutant: without a delegation the suspicion is left as it was.
RefineKeeping(k) ==
  /\ pc = "refine" /\ k \in todo
  /\ LET d == k[1][2] IN
       /\ txs[d] # Torn /\ made[d] # Unknown
       /\ txs' = [txs EXCEPT ![d] = d]
       /\ ledger' = [ledger EXCEPT ![k].malicious = ledger[k].cleared > k[2] + Limit]
  /\ todo' = todo \ {k}
  /\ UNCHANGED <<past, infos, pc, epoch, page, got, before, summary, deaths>>

Refine(k) ==
  /\ pc = "refine" /\ k \in todo
  /\ LET d == k[1][2]
         u == k[2]
     IN  /\ txs[d] # Torn /\ made[d] # Unknown
         /\ txs' = [txs EXCEPT ![d] = d]
         /\ ledger' = [ledger EXCEPT ![k].malicious =
                         Redelegated(d, u) /\ ledger[k].cleared > u + Limit]
  /\ todo' = todo \ {k}
  /\ UNCHANGED <<past, infos, pc, epoch, page, got, before, summary, deaths>>

\* The amounts of some undelegations added up for each delegator.
TotalOf(d, amounts) ==
  MapThenSumSet(LAMBDA k : amounts[k], {k \in DOMAIN amounts : k[1][2] = d})
Summarized(amounts) ==
  [d \in {k[1][2] : k \in DOMAIN amounts} |-> TotalOf(d, amounts)]

Finish ==
  /\ pc = "refine" /\ todo = {}
  /\ summary' = Summarized([k \in {j \in DOMAIN ledger : ledger[j].malicious} |->
                              ledger[k].original])
  /\ GiveUp
  /\ UNCHANGED <<past, infos, txs, before, deaths>>

Next == \/ Start \/ Load \/ FetchPage \/ Save \/ Scan \/ Judge \/ Finish
        \/ \E k \in Keys : Refine(k)
        \/ Die \/ Tear \/ FailToRead \/ RemoveTorn
Spec == Init /\ [][Next]_auditVars
-----------------------------------------------------------------------------
(* Properties. *)

\* A report that was written to its end.
Written(report) == report \notin {NoFile, Torn}

\* The past, read at once: when an undelegation is first listed, and when the pair
\* is first listed without it afterwards (0: never).
SeenAt(k)    == {e \in First..Last : Amount(e, k) # 0}
MissedAt(k)  == {e \in First..Last : Lists(e, k[1]) /\ Amount(e, k) = 0 /\ e > Min(SeenAt(k))}
FirstMiss(k) == IF MissedAt(k) = {} THEN 0 ELSE Min(MissedAt(k))

\* Whatever runs died before, and through whatever files, the ledger behind the
\* scan is what the past says: every undelegation once, with its first amount, its
\* last, and the first epoch that lists its pair without it.
LedgerIsHistory ==
  pc = "load" /\ epoch = Recent =>
    /\ DOMAIN ledger = {k \in Keys : SeenAt(k) # {}}
    /\ \A k \in DOMAIN ledger :
         /\ ledger[k].original = Amount(Min(SeenAt(k)), k)
         /\ ledger[k].final = Amount(Max(SeenAt(k)), k)
         /\ ledger[k].cleared = FirstMiss(k)

\* A summary that was written to its end adds up the first amounts of those and
\* only those undelegations that the past shows cleared late and redelegated,
\* whatever runs died before it, through whatever files they left, and whatever runs
\* died since: one that dies in the write of the summary leaves it torn, never
\* another sum.
Guilty == {k \in Keys : /\ SeenAt(k) # {} /\ FirstMiss(k) > k[2] + Limit
                        /\ Redelegated(k[1][2], k[2])}
SummaryIsTrue ==
  Written(summary) =>
    summary = Summarized([k \in Guilty |-> Amount(Min(SeenAt(k)), k)])

\* Nobody is suspected whose undelegation was gone in time: if the last epoch it
\* may stay lists its pair, it was still pending then.
SuspectsWerePending ==
  Written(before) =>
    \A k \in DOMAIN before :
      LET e == k[2] + Limit IN
      before[k].malicious /\ e \in First..Last /\ Lists(e, k[1]) => Amount(e, k) # 0

\* maxrate-bug.py:155-158 and :201: an undelegation whose amount is changed after
\* its seventh epoch is malicious.
ChangedAmountsAreFlagged ==
  Written(before) =>
    \A k \in DOMAIN before :
      /\ Amount(Recent, k) # 0 /\ Recent - k[2] > Limit - 1
      /\ before[k].original # before[k].final
      => before[k].malicious
=============================================================================
