--------------------------- MODULE GrafanaUpdate ---------------------------
(***************************************************************************)
(* grafana/update_db_config.py: main(), one network after the other, with  *)
(* the node lists on GitHub, the file prometheus.yml that outlives a run,  *)
(* the configuration Prometheus runs with and the dashboards of Grafana,   *)
(* which operators edit too. A run may die at any call.                    *)
(***************************************************************************)
EXTENDS GrafanaPanels, FiniteSets

CONSTANTS Listings,    \* for each network, the contents its lists may have
          AtFirst,     \* and those they have at first
          ErrorPage,   \* what curl stores when the server answers an error
          MaxMishaps   \* bound: lists changed, errors answered, edits and deaths

ASSUME UpdateAssumption ==
  /\ MaxMishaps \in Nat
  /\ AtFirst = [mode \in {"mainnet", "testnet"} |-> AtFirst[mode]]
  /\ \A mode \in {"mainnet", "testnet"} : AtFirst[mode] \in Listings[mode]
  /\ \A mode \in {"mainnet", "testnet"} : \A ls \in Listings[mode] : \A f \in Files(mode) :
       ls[f] \in Seq(ToSet(ls[f]))

VARIABLES
  nodedb,      \* GitHub: the lists of each network
  prom,        \* the file prometheus/prometheus.yml, and the targets of its jobs
  etc,         \* /etc/prometheus/prometheus.yml, what Prometheus scrapes
  boards,      \* Grafana: the dashboards, version 0 before they exist
  pc, turns,   \* the run: where it is, the networks left
  lists,       \* the lists it has loaded
  todo,        \* dashboards left of this network
  version,     \* the version it read
  unseen,      \* history: dashboards edited since they were read last
  unwritten,   \* history: jobs whose targets are not in the file, because no run
               \* has written them yet or because a torn file took them
  fresh,       \* history: dashboards posted since their network's targets were written
  live,        \* history: those of them that an install has found with their targets
  mishaps      \* their number

server  == <<nodedb, boards, unseen>>
files   == <<prom, etc, unwritten>>
run     == <<pc, turns, lists, todo, version>>
shows   == <<fresh, live>>
updateVars == <<server, files, run, shows, mishaps>>

Mode    == {"mainnet", "testnet"}
\* A file is there or not, or torn: nothing that a run can read, or some of its
\* first jobs only.
Nowhere == [j \in {} |-> {}]
NoFile  == [file |-> "none", jobs |-> Nowhere]
Torn    == [file |-> "torn", jobs |-> Nowhere]
File(config) == [file |-> "readable", jobs |-> config]
Damaged == prom = Torn \/ (prom # NoFile /\ DOMAIN prom.jobs # Jobs)
BoardParts == Append(Shards, "service")
\* The dashboards of a network, in the order main() updates them.
BoardsIn(mode, category) ==
  [p \in DOMAIN BoardParts |-> <<mode, category, BoardParts[p]>>]
BoardsOf(mode) == BoardsIn(mode, "base") \o BoardsIn(mode, "network")
BoardIds == UNION {ToSet(BoardsOf(m)) : m \in Mode}
Content(id) == Board(id[1], id[3], lists)

\* Versions are compared only: 2 is every later one than the first, and the
\* version a run has read becomes Past when the dashboard is saved meanwhile.
Past == -1
Saved(v) == IF v = 0 THEN 1 ELSE 2
-----------------------------------------------------------------------------
Init ==
  /\ nodedb = AtFirst
  /\ prom = NoFile /\ etc = NoFile /\ unwritten = Jobs
  /\ boards = [id \in BoardIds |-> [version |-> 0, content |-> {}]]
  /\ pc = "idle" /\ turns = <<>> /\ lists = <<>> /\ todo = <<>> /\ version = 0
  /\ unseen = {} /\ fresh = {} /\ live = {}
  /\ mishaps = 0
-----------------------------------------------------------------------------
(* Others. *)

Mishap(n) == mishaps + n <= MaxMishaps /\ mishaps' = mishaps + n

Relist(mode) ==
  /\ Mishap(1)
  /\ \E l \in Listings[mode] \ {nodedb[mode]} : nodedb' = [nodedb EXCEPT ![mode] = l]
  /\ UNCHANGED <<boards, unseen, files, run, shows>>

\* An operator saves a dashboard of his own over the one there is.
Edit(id) ==
  /\ Mishap(1)
  /\ boards[id].version # 0
  /\ boards' = [boards EXCEPT ![id] = [version |-> Saved(@.version), content |-> {}]]
  /\ version' = IF pc = "post" /\ id = Head(todo) THEN Past ELSE version
  /\ unseen' = unseen \cup {id} /\ fresh' = fresh \ {id} /\ live' = live \ {id}
  /\ UNCHANGED <<nodedb, files, pc, turns, lists, todo>>
-----------------------------------------------------------------------------
(* A run. *)

GiveUp == pc' = "idle" /\ turns' = <<>> /\ lists' = <<>> /\ todo' = <<>> /\ version' = 0

Start(modes) ==
  /\ pc = "idle"
  /\ pc' = "download" /\ turns' = modes
  /\ UNCHANGED <<server, files, lists, todo, version, shows, mishaps>>

\* What create_prometheus_config writes. From here on the network's dashboards show
\* older lists.
NoTargets == [j \in Jobs |-> {}]
Config == WithTargets(IF prom = NoFile THEN NoTargets ELSE prom.jobs, Head(turns), lists)
Outdated == ToSet(BoardsOf(Head(turns)))
WriteJobs(config) ==
  /\ prom' = File(config)
  /\ unwritten' = (unwritten \ JobsOf(Head(turns))) \cup (Jobs \ DOMAIN config)
  /\ fresh' = fresh \ Outdated

\* A run dies in create_prometheus_config, between open(..., 'w') and the end of
\* yaml.dump: what is left cannot be read, and every later run fails until an
\* operator removes it; or it ends after some job, and the jobs it lacks never
\* come back, though the runs go on.
Tear ==
  /\ pc = "create" /\ prom # Torn
  /\ Mishap(1)
  /\ \/ prom' = Torn /\ unwritten' = Jobs /\ UNCHANGED fresh
     \/ \E n \in 0..Len(JobOrder) - 1 :
          LET kept == {JobOrder[i] : i \in 1..n} \cap DOMAIN Config
          IN  WriteJobs([j \in kept |-> Config[j]])
  /\ GiveUp
  /\ UNCHANGED <<server, etc, live>>

FailToRead ==
  /\ pc = "create" /\ prom = Torn
  /\ GiveUp
  /\ UNCHANGED <<server, files, shows, mishaps>>

RemoveDamaged ==
  /\ Damaged
  /\ prom' = NoFile /\ unwritten' = Jobs
  /\ UNCHANGED <<server, etc, run, shows, mishaps>>

\* An exception of curl, of requests or of an answer without a status.
Die ==
  /\ pc # "idle"
  /\ Mishap(1)
  /\ GiveUp
  /\ UNCHANGED <<server, files, shows>>

\* curl takes an error page for a list.
Download(bad) ==
  /\ pc = "download"
  /\ Mishap(Cardinality(bad))
  /\ lists' = [f \in Files(Head(turns)) |->
                IF f \in bad THEN <<ErrorPage>> ELSE nodedb[Head(turns)][f]]
  /\ pc' = "create"
  /\ UNCHANGED <<server, files, turns, todo, version, shows>>

\* Mutant: the template is loaded although there is a file.
CreateFromTemplate ==
  /\ pc = "create" /\ prom # Torn
  /\ WriteJobs(WithTargets(NoTargets, Head(turns), lists))
  /\ todo' = BoardsOf(Head(turns)) /\ pc' = "get"
  /\ UNCHANGED <<server, etc, turns, lists, version, live, mishaps>>

\* Mutant: the template is never loaded.
CreateFromFile ==
  /\ pc = "create" /\ prom # Torn
  /\ IF prom = NoFile THEN GiveUp /\ UNCHANGED <<files, shows>>
     ELSE /\ WriteJobs(Config)
          /\ todo' = BoardsOf(Head(turns)) /\ pc' = "get"
          /\ UNCHANGED <<turns, lists, version, etc, live>>
  /\ UNCHANGED <<server, mishaps>>

Create ==
  /\ pc = "create" /\ prom # Torn
  /\ WriteJobs(Config)
  /\ todo' = BoardsOf(Head(turns)) /\ pc' = "get"
  /\ UNCHANGED <<server, etc, turns, lists, version, live, mishaps>>

Get ==
  /\ pc = "get"
  /\ LET v == boards[Head(todo)].version IN version' = IF v # 0 THEN v ELSE 1
  /\ unseen' = unseen \ {Head(todo)}
  /\ pc' = "post"
  /\ UNCHANGED <<nodedb, boards, files, turns, lists, todo, shows, mishaps>>

\* The answer to the read is an error: the dashboard is taken for a new one.
GetError ==
  /\ pc = "get"
  /\ Mishap(1)
  /\ version' = 1
  /\ pc' = "post"
  /\ UNCHANGED <<server, files, turns, lists, todo, shows>>

\* After the last dashboard of a network comes the next network.
GoOn ==
  /\ todo' = Tail(todo)
  /\ IF todo' # <<>> THEN pc' = "get" /\ UNCHANGED turns
     ELSE /\ turns' = Tail(turns)
          /\ pc' = IF turns' = <<>> THEN "install" ELSE "download"

Save(id) ==
  /\ boards' = [boards EXCEPT ![id] =
                  [version |-> Saved(@.version), content |-> {Content(id)}]]
  /\ fresh' = fresh \cup {id} /\ live' = live \ {id}

\* Mutant: "overwrite": True.
PostOverwrite ==
  /\ pc = "post"
  /\ Save(Head(todo))
  /\ version' = 0 /\ GoOn
  /\ UNCHANGED <<nodedb, files, lists, unseen, mishaps>>

\* "overwrite": False; a refusal is logged and the run goes on.
Post ==
  /\ pc = "post"
  /\ IF boards[Head(todo)].version \in {0, version} THEN Save(Head(todo))
     ELSE UNCHANGED <<boards, shows>>
  /\ version' = 0 /\ GoOn
  /\ UNCHANGED <<nodedb, files, lists, unseen, mishaps>>

\* Copies the file; there is none when an operator has removed it in the meantime.
Install ==
  /\ pc = "install"
  /\ IF prom = NoFile THEN UNCHANGED <<etc, live>>
     ELSE /\ etc' = prom
          /\ live' = {id \in fresh : Job(id[1], id[3]) \notin unwritten}
  /\ pc' = "idle" /\ lists' = <<>> /\ version' = 0
  /\ UNCHANGED <<server, prom, unwritten, turns, todo, fresh, mishaps>>
-----------------------------------------------------------------------------
RunModes == {<<"mainnet", "testnet">>, <<"mainnet">>, <<"testnet">>}   \* -m
GoesWrong ==
  \/ pc = "download" /\ \E bad \in SUBSET Files(Head(turns)) \ {{}} : Download(bad)
  \/ GetError
Step == Download({}) \/ Create \/ FailToRead \/ Get \/ Post \/ Install
Others == (\E m \in Mode : Relist(m)) \/ (\E id \in BoardIds : Edit(id)) \/ RemoveDamaged
Next == (\E modes \in RunModes : Start(modes)) \/ Step \/ GoesWrong \/ Tear \/ Die \/ Others

Spec == Init /\ [][Next]_updateVars

\* The script is run for all networks again and again, and its calls return.
FairSpec == /\ Spec /\ WF_updateVars(Step)
            /\ SF_updateVars(Start(<<"mainnet", "testnet">>))
-----------------------------------------------------------------------------
(* Properties. *)

\* From the install on, until it is saved anew, a dashboard shows every node that
\* Prometheus scrapes for it, and no others but dns nodes that the shard's list
\* lacks: whichever runs wrote the targets, posted the dashboard and installed, for
\* this network or for the other one, and wherever runs died in between. Dashboards
\* of jobs whose targets a torn file took do not count before a run has written
\* them again (unwritten).
ShownIsScraped ==
  \A id \in live : \A b \in boards[id].content :
    b.job \in Jobs => /\ etc.jobs[b.job] \subseteq b.shown
                      /\ b.shown \subseteq etc.jobs[b.job] \cup b.dns

\* On no dashboard a run posts do two panels share an id or a place, and each
\* node it shows has a panel of each metric, once: ids and lines are counted by
\* hand, over blank and repeated lines and nodes of two lists.
PanelsWellPlaced ==
  pc = "post" =>
    LET id      == Head(todo)
        panels  == Panels(id[1], id[2], id[3], lists)
        ofNodes == {p \in panels : p.about # {}}
        due     == Content(id).shown \X ToSet(Metrics(id[2]))
    IN  /\ WellPlaced(panels)
        /\ UNION {p.about : p \in ofNodes} = due
        /\ Cardinality(ofNodes) = Cardinality(due)

\* What an operator saved after the script read a dashboard is overwritten by
\* operators only.
NoLostEdit ==
  [][\A id \in unseen : boards'[id] # boards[id] => Edit(id)]_updateVars

\* Once lists rest, nobody edits, runs succeed and a damaged prometheus.yml has been
\* removed, every dashboard shows and Prometheus scrapes what the lists name.
Settled ==
  /\ \A m \in Mode : \A j \in JobsOf(m) : etc.jobs[j] = TargetsOf(j, nodedb[m])
  /\ \A id \in BoardIds : boards[id].content = {Board(id[1], id[3], nodedb[id[1]])}
EventuallyMonitored ==
  <>[][mishaps' = mishaps]_updateVars /\ <>[]~Damaged
    => <>[](DOMAIN etc.jobs = Jobs /\ Settled)
=============================================================================
