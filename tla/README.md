# A TLA+ verification project for harmony-ops

`harmony-ops` is the toolbox of the people who operate the Harmony blockchain: watchdogs, balance
monitors, provisioning pipelines, node scripts. It has no common core and no tests of its own, so
this project models the programs that hold state of their own over time, one by one, and says for
each which properties make it correct. Line references are to the files under `src/`.

## 1. Inventory

| | Component | State it keeps | Operations | Where it is hard | What makes it correct |
|---|---|---|---|---|---|
| A | bridge watchdog, polling loop (`monitoring/bridge-monitor/bridge-watchdog/root.go`, `pager.go`) | `reportCounter`, `tryAgainCounter`, `etherFailCounter`, `wifiDowntime`, `lastDiff`, the BNB balance read; PagerDuty holds the incidents | start, die, tick, ping Google, ask bnbcli, scrape EtherScan, notify | two balances read at two moments; three failure paths share one back-off; a restart forgets; a refused page is forgotten | a page is as accurate as the bridge is quiet between the reads; a deviation is never silenced without having been told; the loop ends up agreeing with the bridge; back-off and alarm times |
| A' | its decimals (`decimal.go`) | the registers of a caller | `Add` ... `Ceil`, `NewDecFromStr`, `String` | rounding, double rounding, signs, padding, 315 bits | results against exact rationals; what is printed is read back |
| A" | its service commands (`daemon-cmds.go`, `main.go`) | the installed unit, the listener on :12500 | install, start, stop, remove, status | arguments lost at install, two watchdogs | one watchdog with the arguments given |
| B | balance-monitoring, reports (`check.sh`, `offline.sh`, `monitoring.sh`, `hourly.sh`) | captures, `offline.txt` | capture, compare, classify, print text and JSON | join by line number, failed queries stored as 0, `grep "-1"` | every node in one row, exact earnings, a header that counts what the JSON calls online |
| B' | balance-monitoring, schedule and files (`upload.sh`, `check.sh`, `*ly.sh`) | a ring of directories `captures/HH/MM`, `temp.txt`, `hour.txt`, `minute.txt` | cron run, check, five reports, clean-up | runs that overlap, are late, missed or killed; nothing locks | reports compare captures the stated time apart; no capture is filled twice |
| C | balance-monitorV2 (`monitor.py`, `common.py`, `collect_data.py`) | captures of the last rounds, a queue between two threads | spawn, collect, render, put, get | a thread that raises, a collection longer than the sleep | gains from the fifth page on; pages never stop |
| D | https/wss endpoints (`devops/create_https_wss_endpoints_aws/`) | AWS resources; module-wide dictionaries by region | lookup, certificate, target groups, balancer, listener, rule, targets, DNS; rerun | every call may fail and is then skipped; lists addressed by position; reruns | no shard wired to another; reruns complete, and keep, what is missing |
| E | `grafana/update_db_config.py` | node lists on GitHub; `prometheus.yml`, which outlives the runs; the dashboards and their versions | for each network: download the lists, create `prometheus.yml`, read and post each dashboard; install | curl stores an error page as a list; one file for two networks; a file torn or cut off by a death; an operator who edits between read and post; panel ids and lines counted by hand | what an install has put live shows what is scraped; panels do not collide; nobody's edit is lost; repeated runs end up monitoring what the lists name |
| F | `devops/maxrate-bug/` | files `validator-infos/`, `staking-txs/`; a ledger of undelegations in memory | fetch the pages of an epoch, scan it, judge, refine, summarise | runs die and begin again with the files there are; a file or a report half written; one verdict can never be true | the ledger is what the past says; the summary names the late and redelegated, and all of them |
| G | `devops/unsual-block-time/` | chunks of blocks in a thread pool | fetch with retries, collect, sort, compare neighbours, report | chunks end in any order, and some are dropped | the times told are those of neighbours; the files agree; the missing blocks are the lost ones |
| G' | `devops/get_blockchain/` | JSON files of blocks, lists of failures | parallel fetch, resume, classify | the same failure listed in two places | every height is fetched or listed |
| H | `test-automation/` (`api-tests/test.py`, CLI and localnet tests) | a key store, processes | set up, run, clean up | clean-up on some exceptions only | nothing is left behind |
| I | node scripts (`devops/bin`, `pssh`, `aws`, `viewchange_test`) | nodes reached by ssh | start, stop, upgrade, copy | parallel ssh, partial failure | each node is reached once |
| J | pga-monitoring (`monitoring/pga-monitoring/`) | as B, for another network; log directories | as B, with a parallel check; log synchronisation | lines appended in parallel | as B |
| K | uptime robot, status and node generators (`monitoring/*.sh`) | files of monitors and addresses | generate, post | partial posts | one monitor per node |
| L | templates, dashboards, docs | none | - | - | - |

**Interactions.** A calls three outside services in turn and PagerDuty at the end; A uses A' for
each balance. In B', cron starts `upload.sh`, which runs `check.sh` with `offline.sh` every third
time, then the report scripts; all of them meet only in the files of one machine, and B says what
those reports contain. C's two threads share one queue. D is a sequence of AWS calls whose only
memory between runs is AWS itself. E writes one file for Prometheus and posts to one Grafana, both
read by, and Grafana also edited by, others. F's runs meet in their files. The other components are
independent of one another.

## 2. Modules

| Module | Models | Composition |
|---|---|---|
| `BridgeWatchdog` | `monitorNetwork` (root.go:76-190), the bridge and PagerDuty around it | INSTANCEs `MismatchAlert` |
| `MismatchAlert` | abstract: what the watchdog promises the operator | - |
| `BridgeTiming` | history clocks beside the loop | EXTENDS `BridgeWatchdog`, conjoins `Next` |
| `DecimalArith`, `DecimalText` | decimal.go: arithmetic; parsing and printing | `DecimalText` EXTENDS `DecimalArith` |
| `BridgeProofs` | theorems of the loop, of its times and of the decimals | EXTENDS `BridgeTiming`, `DecimalText` |
| `SortedSets` | what sort(1) and `list.sort` return | - |
| `BalanceReport` | captures, join, offline list, sections of the reports | EXTENDS `SortedSets` |
| `BalanceRing` | cron, overlapping runs, the ring of directories | - |
| `BalanceProofs` | theorems of the captures and of the reports | EXTENDS `BalanceRing`, `BalanceReport` |
| `BalanceMonitor` | main loop, round threads, queue, captures kept | - |
| `BalanceMonitorProofs` | theorem of the gains | EXTENDS `BalanceMonitor` |
| `HttpsEndpoints` | the pipeline and the part of AWS it talks to | - |
| `HttpsEndpointsProofs` | theorems of the wiring | EXTENDS `HttpsEndpoints` |
| `GrafanaPanels` | what a dashboard shows and Prometheus scrapes, as functions of the node lists | - |
| `GrafanaUpdate` | the runs of the script, Prometheus, Grafana and its operators | EXTENDS `GrafanaPanels` |
| `GrafanaUpdateProofs` | theorems of the runs | EXTENDS `GrafanaUpdate` |
| `BlockTimes` | the block times of a chain: threads, retries, report | EXTENDS `SortedSets` |
| `BlockTimesProofs` | theorems of the report | EXTENDS `BlockTimes` |
| `MaxRateAudit` | the audit, its files and the past it reads | - |
| `MaxRateAuditProofs` | theorems of the audit | EXTENDS `MaxRateAudit` |
| `DataLemmas` | lemmas about division, sorting and folds | EXTENDed by the proof modules |

`MC*.tla` modules only give values to set-valued constants (and a symmetry set).

### BridgeWatchdog
`pc` is the blocking call the goroutine is in: `idle` (the ticker), `wifi` (http.Get of Google,
:101), `bnb` (bnbcli, :115), `ether` (EtherScan, :120), `notify` (PagerDuty, :163-181), or `down`.
Each action is one iteration's code from one such call to the next, so that the bridge may move,
the ticker may fire and the process may die between any two, and nowhere else. `tick` is the
one-place channel of `time.Tick`. `reportCounter` saturates one above the limit, because only
`> 6` is asked of it. Balances are whole tokens. Fault outcomes are free. `drift` and `trueDiff`
are history: how far the BNB side moved since it was read, and the deviation at the moment of the
page. Restart is `Stop` then `Start`: everything but PagerDuty's state is lost.

### BridgeTiming
Adds clocks in ticks of 200 s that observe the actions by name and never disable them:
`sinceFail`, `etherDown`, `outage`. Its properties are about times the program
cannot see. Both passing and violation runs of the loop check `FairTimingSpec`, the loop with its
clocks and its fairness, so that one run speaks of pages, times and liveness.

### DecimalArith, DecimalText
A `Dec` is an integer count of 1/P. `big.Int.Quo`/`Rem` truncate (`QuoInt`, `RemInt`); the chops
are translated one by one. `Call` feeds each result into the next call, as the loop does; `Panic`
is the bit-length check and the zero divisor. `DecimalText` extends it with a caller that also parses
and prints. There a text is what the parser
distinguishes: a first minus, the sign left for `big.Int.SetString`, the groups of digits between
periods. `Power` and `ValueOf` stand for `big.Int`'s Exp and SetString.

### BalanceReport, BalanceRing
`BalanceReport.Check` is one `check.sh` with its `offline.sh`, for any set of addresses that did not
answer three times (`address -1 0`). `getdiff` keeps the code's shape, two sorted files pasted by
line after filtering. The report sections are operators on the state. An empty `fn-keys` is not
modelled, and `fn-keys` is a set: a line written there twice, which `check.sh` would write twice
into the capture, is out of reach. The header's first count, `num_on`, is modelled; the second,
without new nodes, is not (see below). `BalanceRing` leaves out contents and keeps time: ticks of
five minutes, one capture slot in three ticks, directories named by hour and minute of a day of
`DayHours` hours. A capture is known by the time it was created and by its number of lines, so
"which capture did this report read, and was it whole" can be asked. A check dates itself by the
tick it gets its list in, so to five minutes and not to the minute: a list that is late by less than
that is on time here. `late` is history: some run did not keep the times of `OnTime`. Missed cron
runs and reboots share a bound. The upload to S3 and `leader.txt` are left out.

### BalanceMonitor
Two processes: the main loop (`Spawn`, `Wake`, `Join`, `Get`) and the round's thread (`Collect` or
`CollectRaises`, `Render`, `Put`). One address, any of the list, is followed: its balance may be read
at any moment of the collection (`Collect` reads it; `CollectOthers` goes on with the others), early
in one round and late in another, since the requests follow one another without a time-out. A capture
is its row of a round, known by how many rounds ago that was and by the time between the reading and
the start of the last round, which keeps the state finite. The page shows the gain
between the rows of two rounds, and the property is about the time between the two readings.

### HttpsEndpoints
One action per call of the pipeline, each with an `ok` outcome; failures are bounded by
`MaxFailures`. AWS is external and modelled as the script relies on it: creating what exists with
the same settings succeeds and returns it (target groups, balancers, listeners), a different
listener on the port is refused, a second rule of a priority is refused, a listener needs an issued
certificate, DNS records are upserted. `sslcerts`, `tgarn`, `hostedZone`, `listenerArn` are the
entries of the `dict_region_*` dictionaries for the region all shards share, addressed by position
as the code does.

### GrafanaPanels, GrafanaUpdate
`GrafanaPanels` holds the pure part: the jobs of each network and their targets, and the panels of a
dashboard, each a rectangle with an id and the node and metric it is about. Queries, units and
alerts are left out. `GrafanaUpdate` is `main()`, one action per call that may fail or be
interleaved: `Download` (curl, which keeps the page of an HTTP error as if it were the list),
`Create`, `Get` or `GetError` and `Post` for each dashboard, `Install`. `Relist` and `Edit` are the
people beside it. All curls of a network are one `Download`: a list that changes between two of them
(:45-101) would mix two contents; the mix is one more content of `Listings`, which the proofs allow
and the run does not have. A run may die at each call. `Tear` is a death between `open(..., 'w')`
and the end of `yaml.dump`: the file that is left is `Torn`, which no run can read (empty, or cut
off inside a job), or ends after one of its jobs, in the order of the file (`JobOrder`). The latter
is read by every later run, and the jobs it lacks stay away, because targets are only put into jobs
that are there. Operators may remove such a file at any time (`RemoveDamaged`), and the next run
begins with the template, without the targets of the other network. What Prometheus scrapes is
`etc`, the copy of the last `Install`. Three variables are history: `unwritten`, the jobs whose
targets no run has put into the file that is there; `fresh`, the dashboards posted since the targets
of their network were written; `live`, those of them that an install has met with their targets.
Grafana's versions are compared only, so they are 1, 2 (any later one) and `Past` (what a run has
read of a dashboard that was saved since). The mode "test" is left out: its node lists are not in
the repository. So are the lists of the DigitalOcean nodes: their URL (:96-97) is never completed,
what is stored is always an error page and no dashboard shows it.

### BlockTimes
One action per step of a chunk's future (`Take`, `Answer` or `Fail`, `Collect`), and `Report`, which
is the single-threaded rest. Timestamps are the sum of the times the blocks take, chosen at the
beginning. Chunks are handed to the threads in the order they were submitted and collected in any.

### MaxRateAudit
`chain` is the past: what each epoch lists of each pair of validator and delegator, with `Unlisted`
for a pair of which it lists nothing. The files `validator-infos/` hold the validators that were
fetched; what they say of them is the past itself. The ledger in memory is lost by a death; files
stay, and `Tear` leaves one half written, whichever the run was writing: validators, transactions,
the list of pending undelegations before the refinement or the summary. All are written by the same
`write_json_to_file` (:17-21). The last two are read by people, not by later runs, so
`Written(report)` says that there is one to read. `Refine` takes the suspects in any order, which
includes the dictionary's. The pages list the same validators at all epochs. Written but not
modelled: `pending_undelegation-with-staking.json` and `bad_undelegation-with-staking.json`, which
hold what the summary adds up.

## 3. Runs

Passing runs, one for each part of the system that is modelled:

| Run | Shows | Bounds, and why they are enough |
|---|---|---|
| `watchdog` | `TypeOK`, `MeasurementErrorBounded`, `SilencedOnlyIfTold`, `ImplementsAlert` under every interleaving of loop, ticker, bridge and crash; `BackoffKept`, `AlarmIsPatient`, `AlarmInTime`, `DowntimeWithinOutage` of the times; `EventuallyAgrees` under `FairTimingSpec` | the code's own back-off of 10 and limit of 6, a report limit of 0; sides 0..2, moves -2 and 1, threshold 0: deviations 0, 1, 2 cover none, one and another; two movements fit between the reads; the clock of failures reaches 61, one more than the alarm time, that of an outage 11 ticks, which hold two failed probes. The proofs cover all other values of the safety properties |
| `decimals` | `MulIsBankersRounded`, `QuoErrorBounded`, `CeilIsLeast`, `DocumentedFormIsRead`, `PrintedIsReadBack` | binary digits and two decimals, so P = 4: both signs, ties with odd and even quotient, exact and inexact results, a panic above 25; texts of up to three groups, one digit longer than the precision, all signs |
| `balance_report` | `EarningsAreExact`, `EveryNodeIsReported`, `HeaderCountsOnline`, `UnreachedIsNewlyAdded`, `OfflineIsJustified` | two addresses (one can be added or dropped before or after the other in sorted order); "an hour" is two captures, so that a capture lies between |
| `balance_ring` | `IntervalUpToDays`, `ReportsAreComplete`, `PartialOnlyWhileScanning`, `NoDoubleCapture` | a day of three hours of one slot each and 11 ticks: the ring goes round and the clean-up is reached; two runs alive; captures of two lines, so that a half one exists; one missed run or reboot |
| `endpoints` | `OwnShardOnly`, `RuleForwardsToWss`, `StaysComplete`, and `EventuallyComplete` under `FairSpec` | two shards, one explorer, three failures: enough to break two calls of a shard and one of the rerun |
| `balance_monitor` | `GainsAfterFiveRounds`, and `AlwaysAnotherPage` under `FairSpec` | the code's 4 rounds back; captures of 6 rounds kept instead of 10, since those further back are read by nobody; a sleep of one tick, rounds of one tick, or two and more; the one address is read in any tick of the round |
| `grafana_update` | `ShownIsScraped`, `PanelsWellPlaced`, `NoLostEdit`, and `EventuallyMonitored` under `FairSpec` | one shard and two services; two contents of mainnet's and of testnet's lists, with blank and repeated lines, a dns node that the shard's list has and one it lacks, a node that moves to another list, an empty list; the lists begin with one of the contents; two mishaps (lists changed, error pages, edits, deaths, torn files), so that an edit meets an error and a torn file a death between posts and install |
| `block_times` | `TimesAreNeighbours`, `MinersAgreeWithTimes`, `MissingCountsLost`, and `EventuallyReported` under `FairSpec` | five blocks in chunks of two, two and one; two threads, two attempts; a block takes 1, 2 (the threshold) or 5 seconds: every order of completion, every set of lost chunks, the middle one included |
| `maxrate_audit` | `LedgerIsHistory`, `SummaryIsTrue`, `SuspectsWerePending` | epochs 1 to 4 and a recent one, 6; a limit of one epoch; one delegator with two validators on a page each, undelegations of two epochs that shrink or go, one epoch that may list nothing; two deaths, torn files and reports included, so that the rerun of a dead run dies too |

Runs whose counterexample shows that the code does not do what a comment or message of it says:

| Run | What is said | What the code does |
|---|---|---|
| `alarm_hour` | root.go:128 "If failing for 1 hour" | :127 waits for seven failures and each backs off for ten ticks of 200 s (:87, :132): a request that fails when EtherScan has been failing for an hour is not logged, only one after 3 h 20 min is |
| `endpoints_default` | creation_listener.py:28 "tg-s[i]-api-pga-https" | after a failed https group the first of the list is the wss group |
| `maxrate_changed` | maxrate-bug.py:201 "those undelegation are malcious if the epoch of undelegation was already above 7" | :203 subtracts the other way round: the difference is never positive and no changed amount is flagged |

Read off the models, but not stated as properties:
- bridge watchdog: "Total time down" (:110) is the time since the last failed ping; the half hour of :88
  is seven ticks, 23 min 20 s;
- decimals: `chopPrecisionAndTruncate` (:492), "always rounds down", truncates towards zero, so it
  rounds negative numbers up. Nothing in the program calls it, so no property is spent on it;
  `QuoRoundUp`, "quotient, round up" (decimal.go:308), may be below the exact quotient, since the
  inner one has dropped its remainder; `NewDecFromStr` accepts a second sign (`Parsed`);
- reports: "newly added nodes" (monitoring.sh:251) are those that failed to answer, and differences
  that begin with -1; an unanswered check is kept as amount 0 and a later report shows the whole
  balance as earned (`Check`, `getdiff`); after a missed run "an hour ago" is a day and an hour ago
  (`IntervalUpToDays` allows whole days). The text and the JSON of one report contradict each other:
  a row that `offline.txt` names and whose difference begins with -1 is NOT EARNING in the text
  and newly added in the JSON; one whose last check failed and whose earlier amount was another is
  in no section of the text, and online in the JSON (monitoring.sh:158-172, 206, 230, 254).
  `HeaderCountsOnline` and `UnreachedIsNewlyAdded` state where they must agree. The header's
  count "w/o new" takes the new nodes off the total and adds them to the nodes that are on
  (monitoring.sh:80-86): it may be above 100 %, or divide by zero;
- balance-monitorV2: the "1H" is the time between two readings four rounds apart: three sleeps, 45
  minutes, if the first is read late in its round and the second early, and without a bound above
  (`GainsAfterFiveRounds`);
- Grafana: a `prometheus.yml` that lost its last jobs in a death is written back by every later run
  without them, and nobody is told; a run that dies between its posts and the install
  leaves dashboards of nodes that are not scraped before the next install (`ShownIsScraped` speaks of
  dashboards that an install has put live);
- max-rate audit: a delegation to any validator counts as redelegation (`Redelegated`), and a
  suspicion is dropped for want of one; the log of :165 says that the undelegation was gone before
  the eighth epoch, the code's condition is later than the eighth.

Deadlock is checked except where the system, or its bounded time, may stop: `BalanceRing` (time is
bounded), the decimals (a panic
ends the program) and `BlockTimes` (the script ends with its report).

### Fairness
- `BridgeTiming!FairTimingSpec`: the ticker fires and the goroutine runs. That every outside call
  returns is an assumption on the environment: `http.Get` at root.go:270 and the bnbcli process
  have no timeout. No good answer and no restart is assumed; `EventuallyAgrees` asks for agreement
  only if from some point on nothing fails and the bridge rests.
- `HttpsEndpoints!FairSpec`: the operator reruns the script, certificates are validated, calls
  return. Failures end because they are bounded by `MaxFailures`.
- `BalanceMonitor!FairSpec`: time passes, both threads are scheduled, every request returns.
- `GrafanaUpdate!FairSpec`: somebody runs the script for all networks again and again (strong
  fairness of `Start`, because runs for one network may come between), and its calls return.
  `EventuallyMonitored` asks for the goal only if from some point on lists rest, nobody edits, no
  call fails and a damaged `prometheus.yml` is removed.
- `BlockTimes!FairSpec`: threads run, and a request returns or raises, by the time-out of
  pyhmy at the latest, which is not part of the repository.

## 4. Proofs

All theorems hold for every value of the constants that satisfies the module's named ASSUME.

`DataLemmas`. The library's induction theorems take a predicate; here the predicate is a set: a set
that has 0 and with each number the next one has them all (`NatsAreIn`), and a set that has a subset
of S whenever it has the smaller ones has all subsets of S (`SubsetsAreIn`), both from the
well-foundedness theorems of the library. With these, what a fold of the community modules returns
can be reasoned about: its LET is a CHOOSE of a function that satisfies an equation; `FoldExists`
and `LeftFoldExists` give such a function, after which the equation holds of the one chosen, and
`InitialSegment` is the step from one element to the next. `AscendingIs`: the sorted sequence of a
finite set has each of its numbers once, in order.

`BridgeProofs`, the loop
- `TypeCorrect`: `TypeOK` is inductive by itself (one step per action).
- `PagesAreAccurate`: a page is compared with the bridge at `notify`, but the error arises between
  `bnb` and `ether`; the strengthening `DriftCoversMovement` says that while the loop waits for
  EtherScan the BNB side is within `drift` of what was read. With the triangle inequality
  (`AbsProperties`) `EtherAnswers` turns it into the bound.
- `SilenceIsExplained`: inductive over `Notify`, `EtherAnswers` and `Stop`.
- `WatchdogImplementsAlert`: refinement of `MismatchAlert` with `raised <- lastDiff`; needs
  `NoticeInv`, that a deviation on its way to PagerDuty is a new one and above zero.

`BridgeProofs`, its times
- `LoopInductive` adds to `TypeOK` what the loop keeps between its calls: the countdown is over
  whenever a call is made. `FailureStep`, `IterationStep`, `OtherStep` say what a step does to the
  counters, whichever action it is; the invariants below only use these.
- `BackoffIsKept`: invariant `sinceFail + tryAgainCounter >= Backoff`.
- `AlarmComesInTime`, `AlarmIsNotHasty`: invariant `AlarmInv`, with `c` failures counted
  `etherDown + tryAgainCounter >= c * Backoff` always, and `<=` as long as EtherScan alone fails.
- `DowntimeIsWithinOutage`: inductive with the range of `outage`.
These rest on `TimingAssumption`: the clocks stop no earlier than the times they are compared with.

`HttpsEndpointsProofs`
- `ShardsStayApart`, `WsHostIsForwardedToWss`: invariant `MemoryInv`, what the script remembers
  while it is in a given stage. The list of groups is the current shard's from the creation of its
  https group on, its second element, if any, is the wss group, and the zone is that of the shard
  from the creation of the balancer on. `RecordsDisjoint` says that a record belongs to one shard.
- `WorkingStaysWorking`: from the same invariant, one step per action (`CompleteStep`): a listener or
  rule that is there is refused or left as it is, targets are only added, and a record is written again
  with the zone of its own shard.

`BridgeProofs`, the arithmetic
- These are theorems of `TextSpec`: of a caller that also parses and prints. A decimal that was just
  read is an argument of the next call and no call's result (`TextStep`).
- `DecTypeCorrect`: every chain of calls and readings keeps integers in the registers.
- `MulRoundsToEven`, `QuoIsAccurate`: from `DivMod` (the facts about `\div` and `%` that all else
  rests on) and `ChopRounds` (the chop is within half a unit, and even in a tie), for every even
  precision unit. For `Quo` the error of the inner quotient (`QuoIntBounds`) is added to that of
  the chop.
- `CeilIsTheLeast`: from `QuoIntTowardsZero`, truncated division against the exact quotient.

`BridgeProofs`, the text of decimals
- `PowerIs` takes the powers of the base out of their recursive definition (`IterationExists` of
  `DataLemmas`), `ValueSteps` the value of digits out of its fold. `ValueSplits`: the value of some
  digits is that of the first ones, moved up, and something below that power. So the digits are the
  places of the value (`ValueDigits`) and the places of a number have that number as their value
  (`PlacesHaveValue`).
- `DocumentedIsRead`: `CombinedIs` says where each digit of the text is among those handed to
  `big.Int`; with `ValueDigits` they are the places of the decimal (`DocumentedMeans`). A text that
  was printed is of this form too.
- `PrintedIsRead`: `NumDigitsIs` (a number fits in the digits printed), then both forms of `String`, the
  padded and the cut one, are the places of the number, zeros in front included (`PrintedIs`).

`BalanceMonitorProofs`
- `GainsAreThere`: `MonitorInv` says, for each place of the main loop and of the thread, of which
  rounds there are captures (`Each`), and when they were read (`Spaced`): a row of this round not
  before the round began, a row `n` rounds back at least `n - 1` sleeps before. One sleep is lost to a
  reading late in its round. The queue holds at most one answer, and none while main is about to start a
  round; `OneFurther` is the round that passes in between. The page needs `Keep > Behind` and nothing
  else.

`BalanceProofs`, the captures
- `CapturedOnce`: `AloneInv`, one check at a time, begun at a slot and over before the last run of
  it starts; `LinesInv`, the lines left are those the capture lacks.
- `UnfinishedIsScanned`: `WholeInv`, an unfinished capture has a run that will write at least what it
  lacks. It holds of overlapping checks of one directory, of which the later one empties the file.
- `IntervalsAreKept`: `DateInv`, a capture is dated by its directory, the last check's is the latest
  and yesterday's is earlier than today's; `EarlierInv`, before the run of this tick has checked,
  whatever is written is of earlier ticks. `DayOf` and `HoursApart` turn directories into times up
  to whole days; `NotBefore` excludes the negative ones. The assumption that a day has more than one
  hour, and a slot fewer than a day, is needed: otherwise a script compares a capture with itself.
- `ReportsFindTheirCaptures`: that a capture is there needs, besides `DateInv`, `CapturedInv` (every
  slot that has begun has its capture in its directory, or a run that is about to write it there),
  `SlotInv` (whatever is written is of a slot), `LoneInv` (in the last part of a slot one run at
  most goes on) and `KeptInv`: yesterday's capture is kept aside, `Kept`, until the last script of
  the slot has read it, `Cleaned`. `DayBefore` is the check that moves it aside, `DirHoursBefore`
  the directory that the other scripts read. All four hold only while no run was missed, killed or
  late, as does the property.

`BalanceProofs`, the reports
- `CapturesInv`: a capture kept is, address by address, what the chain had then, or the line of an
  address that did not answer.
- `EarningsAreTrue`, `NodesAreReported`: `GetdiffIs`: getdiff pastes two sorted files line by line, and
  both have the same addresses in the same places, because each is what is left of a capture without
  the addresses that the other lacks. `OneLineEach` counts the lines.
- `OfflineIsForAReason`: inductive with `CapturesInv` over `Check`, which replaces both captures and
  the list at once.
- `HeaderIsRight`: the header subtracts the lines of `offline.txt` from those of the capture, the JSON
  asks of each row whether the file names it. They agree because `OfflineInv` keeps the file among the
  addresses of the capture it was made with, and because getdiff has one row for each of them.
- `UnreachedAreNew`: a node that two checks did not reach is in `offline.txt` (`OfflineInv`) and its row
  carries the shard -1 of the last capture (`GetdiffIs`), by which both reports call it newly added.

`BlockTimesProofs`
- `TimesAreToTheNext`: `FetchInv` (the blocks collected are those of the collected chunks, in
  whatever order) and `DoneInv` (at the report every chunk is collected or dropped). The differences
  are taken of `Ascending`, so a block's next is the next one fetched (`Neighbours`), and a block
  strictly between was fetched by nobody.
- `MissingIsShortAndLost`: the sum of the differences telescopes to the span, an induction over the
  fold of `ShortOf`.
- `MinersAreOfTheTimes`: an induction over the fold of `get_last_miners`, which runs from the last
  block backwards: after each block `found` holds exactly the slow ones seen so far, and `last` is the
  time of the block behind it. It needs `TimeInv`.

`MaxRateAuditProofs`
- `LedgerIsThePast`, `SummaryIsThePast`: invariant `AuditInv`. `FilesInv`: a file that is there and
  not torn lists every validator. `RunInv`: behind epoch n the ledger is what the past up to n says
  (`LedgerBy(n)`; `EntryBegins` and `EntryStep` for one entry), and during the refinement what is
  malicious follows from the past, except in what is left to do. `SummaryStep`: only a run that has
  nothing left to refine leaves a summary that is whole. `MinIs` and `MaxIs` take
  the Min and Max of the properties out of their CHOOSE.
- `SuspectsWereLate`: besides `BeforeInv` it needs `PastInv`, that what is gone does not come back,
  the assumption `PastAssumption` on the chain: an entry is cleared by the first epoch that lists its
  pair without it, which proves nothing of the epochs before that list the pair not at all.

`GrafanaUpdateProofs`
- `LiveIsScraped`: `RunInv` (the lists loaded are those of the network whose turn it is, and what is
  left to do are its dashboards), `FreshInv` (of a fresh dashboard, the targets of its job in the
  file, if they are written, are those of the lists it was posted with) and `LiveInv`, the same
  of a live one and of `etc`. A run for one network must leave the other's jobs alone, whether it
  writes the whole file or a part of it: `JobsWritten` and `OthersJobs`, which rest on the
  names of jobs being different, `ShardsAssumption`.
- `EditsAreKept`: `UnseenInv`, a dashboard edited since it was read is past its first version, and a
  run that is about to post it has read `Past`, or takes it for a new one; neither is accepted.
- `PanelsArePlaced`: `IsBuilt` is the loop invariant of the two nested loops: everything on the board
  lies above `y_point`, has an id up to `id_0`, and each node created has one panel of each metric
  (`NodeIsAdded`, `RowIsBegun`, `RowIsAdded`, `RowsAreAdded`, the last two inductions over the folds).
  `WithoutIs` and `RowsAre`: the rows of a shard, from which the dns lines were taken out, name what
  the dashboard shows. `ListsInv`: what a run has loaded are lists, error pages included.

Left to TLC: liveness (the prover has no ENABLED) and the violations. Every safety property that a
passing run checks is the property of a theorem.

## 5. Plan

Done: the modules above, in the order bridge watchdog, decimals, reports, ring, endpoints, V2,
Grafana, block times, max-rate audit.

1. Extend the model: block download (G': resumed files, failures listed in two places),
   `ApiTest` (H: set-up, test, clean-up), `WatchdogService` (A"), `leader.txt` and the parallel check in
   `BalanceRing` (B', J), log synchronisation (J), uptime robot (K).
2. Prove more: the properties that come with these extensions.

## 6. Not modelled

- Formatting of logs, HTML, CSV, e-mail texts; awk's `%.6g` digits: no property is about them.
- File descriptors leaked by the ping (root.go:101); the panic of a 315-bit balance (decimal.go:218)
  as seen by the daemon (it is the `Stop` of the loop); the service that is installed without the
  expected balance (daemon-cmds.go:29).
- `get_blockchain.py`. Read, but not modelled: the highest block is not fetched; the POST is outside
  the `try` that is there to "catch all to not halt" (:61); an answer that is no JSON is listed as a
  failure twice (:62, :160).
- ssh and cloud scripts of I: straight-line calls whose state is outside the repository.
- Templates, dashboards, documentation: no behaviour.
- Hazards without a property are listed with their reason in `PROJECT.json`.
