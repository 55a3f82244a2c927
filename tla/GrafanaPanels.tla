--------------------------- MODULE GrafanaPanels ---------------------------
(***************************************************************************)
(* grafana/update_db_config.py: what a dashboard shows and what Prometheus *)
(* scrapes, as functions of the node lists. Texts, queries and alerts are  *)
(* left out: a panel is its place, its id, and the node and job it asks    *)
(* for. Lists are sequences of lines, with the blank and repeated ones     *)
(* they may have; a set of lists is a function from file names.            *)
(***************************************************************************)
EXTENDS Integers, SequencesExt

CONSTANTS Shards,     \* the shards, in order: range(shard_count)
          Services,   \* service_list
          Blank       \* what is left of a blank line

ASSUME ShardsAssumption ==
  /\ Shards \in Seq(STRING)
  /\ \A i \in DOMAIN Shards : Shards[i] \notin {"service", "explorer-api-metrics"}
  /\ Services \in Seq(STRING)

Shard   == ToSet(Shards)
Service == ToSet(Services)

Nodes(s) == <<"node", s>>            \* shard<s>.txt
Dns(s)   == <<"dns", s>>             \* dns.shard<s>.txt
Of(n)    == <<"service", n>>         \* services/<n>.txt
Api      == <<"api", "explorerv2">>  \* explorerapimetrics/explorerv2.txt
Files(mode) ==
  {Nodes(s) : s \in Shard} \cup
  IF mode = "mainnet" THEN {Dns(s) : s \in Shard} \cup {Of(n) : n \in Service} \cup {Api}
  ELSE {}

Job(mode, part) == <<mode, part>>    \* <part>_<mode>, part a shard or "service"
ApiJob == Job("mainnet", "explorer-api-metrics")
Jobs == {Job(m, s) : m \in {"mainnet", "testnet"}, s \in Shard}
          \cup {Job("mainnet", "service"), ApiJob}
\* In the order of the file.
JobOrder == <<ApiJob, Job("mainnet", "service")>>
              \o [i \in DOMAIN Shards |-> Job("mainnet", Shards[i])]
              \o [i \in DOMAIN Shards |-> Job("testnet", Shards[i])]

\* The lines of a list that name a node.
Named(list) == ToSet(list) \ {Blank}
-----------------------------------------------------------------------------
(* Prometheus. *)

JobsOf(mode) == {Job(mode, s) : s \in Shard} \cup
                IF mode = "mainnet" THEN {Job(mode, "service"), ApiJob} ELSE {}

TargetsOf(job, lists) ==
  IF job = ApiJob THEN Named(lists[Api])
  ELSE IF job[2] = "service" THEN UNION {Named(lists[Of(n)]) : n \in Service}
  ELSE Named(lists[Nodes(job[2])])

\* create_prometheus_config: the other network's jobs stay as they are, and a job
\* that the file lacks is not added.
WithTargets(config, mode, lists) ==
  [j \in DOMAIN config |-> IF j \in JobsOf(mode) THEN TargetsOf(j, lists) ELSE config[j]]
-----------------------------------------------------------------------------
(* Grafana. *)

\* The lines of a list that are not among those of another.
Without(list, other) ==
  FoldLeft(LAMBDA kept, ip : IF ip \in ToSet(other) THEN kept ELSE Append(kept, ip), <<>>, list)

\* The rows of nodes: on mainnet the dns nodes of a shard come first; a shard of
\* testnet has nodes only, and testnet has no services.
Rows(mode, part, lists) ==
  IF part = "service"
  THEN IF mode = "mainnet" THEN [i \in DOMAIN Services |-> lists[Of(Services[i])]] ELSE <<>>
  ELSE IF mode = "mainnet"
  THEN <<lists[Dns(part)], Without(lists[Nodes(part)], lists[Dns(part)])>>
  ELSE <<lists[Nodes(part)]>>

\* What a dashboard is about: the job it asks for and the nodes it has panels of.
Shown(mode, part, lists) ==
  IF part = "service"
  THEN IF mode = "mainnet" THEN UNION {Named(lists[Of(n)]) : n \in Service} ELSE {}
  ELSE Named(lists[Nodes(part)]) \cup IF mode = "mainnet" THEN Named(lists[Dns(part)]) ELSE {}
Board(mode, part, lists) ==
  [job   |-> Job(mode, part),
   dns   |-> IF mode = "mainnet" /\ part # "service" THEN Named(lists[Dns(part)]) ELSE {},
   shown |-> Shown(mode, part, lists)]

Rect(id, about, x, y, w, h) == [id |-> id, about |-> about, x |-> x, y |-> y, w |-> w, h |-> h]
Template == {Rect(1, {}, 10, 0, 4, 2), Rect(2, {}, 23, 0, 1, 2),
             Rect(3, {}, 0, 2, 12, 8), Rect(4, {}, 12, 2, 12, 8)}

\* create_grafana_base_panel_config, create_grafana_network_panel_config.
BaseMetrics    == <<"cpu", "ram", "disk", "io">>
NetworkMetrics == <<"net", "tcp">>
Metrics(category) == IF category = "base" THEN BaseMetrics ELSE NetworkMetrics

\* The panels of one node, side by side.
PanelsAt(metrics, ip, id, y) ==
  LET w == 24 \div Len(metrics) IN
  {Rect(id + 2 * i, {<<ip, metrics[i]>>}, (i - 1) * w, y, w, 6) : i \in DOMAIN metrics}

\* Mutant: the id is advanced once for a node.
WithNodeSameId(metrics, b, ip) ==
  IF ip = Blank \/ ip \in b.created THEN b
  ELSE [b EXCEPT !.panels = @ \cup PanelsAt(metrics, ip, b.id, b.y),
                 !.id = @ + 2, !.y = @ + 6, !.created = @ \cup {ip}]

\* id_0 and y_point go on below them.
WithNode(metrics, b, ip) ==
  IF ip = Blank \/ ip \in b.created THEN b
  ELSE [b EXCEPT !.panels = @ \cup PanelsAt(metrics, ip, b.id, b.y),
                 !.id = @ + 2 * Len(metrics), !.y = @ + 6, !.created = @ \cup {ip}]

\* A row of one type of node; none for an empty list.
WithRow(metrics, b, ips) ==
  IF ips = <<>> THEN b
  ELSE FoldLeft(LAMBDA a, ip : WithNode(metrics, a, ip),
                [b EXCEPT !.panels = @ \cup {Rect(b.id + 2, {}, 0, b.y, 24, 1)},
                          !.id = @ + 2, !.y = @ + 1],
                ips)

Panels(mode, category, part, lists) ==
  FoldLeft(LAMBDA b, ips : WithRow(Metrics(category), b, ips),
           [id |-> 10, y |-> 10, created |-> {}, panels |-> Template],
           Rows(mode, part, lists)).panels

Apart(p, q) == \/ p.x + p.w <= q.x \/ q.x + q.w <= p.x
               \/ p.y + p.h <= q.y \/ q.y + q.h <= p.y

\* No two panels share an id or a place.
WellPlaced(panels) ==
  \A p, q \in panels : p # q => p.id # q.id /\ Apart(p, q)
=============================================================================
