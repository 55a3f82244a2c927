------------------------ MODULE GrafanaUpdateProofs ------------------------
(* What is shown is scraped, no edit is lost and panels are well placed, for *)
(* every list and any number of changed lists, error pages, edits, deaths    *)
(* and torn files.                                                           *)
EXTENDS GrafanaUpdate, DataLemmas, TLAPS

Parts      == Shard \cup {"service"}
Categories == {"base", "network"}
IdsOf(mode) == {<<mode, c, p>> : c \in Categories, p \in Parts}

\* What of a dashboard has to do with the targets of its job.
Agrees(b, id, config) ==
  /\ b.job = Job(id[1], id[3])
  /\ b.job \in Jobs => /\ config[b.job] \subseteq b.shown
                       /\ b.shown \subseteq config[b.job] \cup b.dns

RunInv ==
  /\ pc \in {"idle", "download", "create", "get", "post", "install"}
  /\ pc \in {"download", "create", "get", "post"} => turns \in Seq(Mode) /\ turns # <<>>
  /\ pc \in {"get", "post"} =>
       /\ todo \in Seq(IdsOf(Head(turns))) /\ todo # <<>>
       /\ \A j \in JobsOf(Head(turns)) \ unwritten : prom.jobs[j] = TargetsOf(j, lists)

\* What the file lacks is unwritten, and what was posted with the targets that are
\* in the file agrees with them.
FreshInv ==
  /\ boards = [id \in BoardIds |-> boards[id]]
  /\ Jobs \ DOMAIN prom.jobs \subseteq unwritten /\ unwritten \subseteq Jobs
  /\ fresh \subseteq BoardIds
  /\ \A id \in fresh : Job(id[1], id[3]) \notin unwritten =>
       \A b \in boards[id].content : Agrees(b, id, prom.jobs)

LiveInv ==
  /\ live \subseteq BoardIds
  /\ \A id \in live : \A b \in boards[id].content : Agrees(b, id, etc.jobs)

\* A dashboard edited since it was read is past its first version, the run is not.
UnseenInv ==
  /\ boards = [id \in BoardIds |-> boards[id]]
  /\ \A id \in BoardIds : boards[id].version \in {0, 1, 2}
  /\ \A id \in unseen : id \in BoardIds /\ boards[id].version = 2
  /\ pc = "post" /\ Head(todo) \in unseen => version \in {Past, 1}
-----------------------------------------------------------------------------
(* The dashboards of a network, and its jobs. *)

LEMMA BoardsAre ==
  ASSUME NEW mode
  PROVE  /\ BoardsOf(mode) \in Seq(IdsOf(mode)) /\ BoardsOf(mode) # <<>>
         /\ ToSet(BoardsOf(mode)) = IdsOf(mode)
<1>1. /\ BoardParts \in Seq(Parts) /\ Len(BoardParts) = Len(Shards) + 1 /\ Len(Shards) \in Nat
      /\ \A i \in 1..Len(Shards) : BoardParts[i] = Shards[i]
      /\ BoardParts[Len(Shards) + 1] = "service"
  <2>1. Shards \in Seq(Parts)
    BY ShardsAssumption DEF Parts, Shard, ToSet
  <2> QED
    BY <2>1 DEF BoardParts, Parts
<1>2. Parts = {BoardParts[i] : i \in DOMAIN BoardParts}
  <2>1. ASSUME NEW p \in Shard PROVE \E i \in DOMAIN BoardParts : p = BoardParts[i]
    <3>1. PICK i \in 1..Len(Shards) : p = Shards[i]
      BY ShardsAssumption DEF Shard, ToSet
    <3> QED
      BY <1>1, <3>1
  <2>2. "service" \in {BoardParts[i] : i \in DOMAIN BoardParts}
    BY <1>1
  <2> QED
    BY <1>1, <2>1, <2>2 DEF Parts
<1>3. ASSUME NEW c \in Categories
      PROVE  /\ BoardsIn(mode, c) \in Seq(IdsOf(mode)) /\ BoardsIn(mode, c) # <<>>
             /\ ToSet(BoardsIn(mode, c)) = {<<mode, c, p>> : p \in Parts}
             /\ Len(BoardsIn(mode, c)) = Len(Shards) + 1
  BY <1>1, <1>2 DEF BoardsIn, IdsOf, ToSet
<1>4. ASSUME NEW s \in Seq(IdsOf(mode)), NEW t \in Seq(IdsOf(mode)), Len(s) # 0
      PROVE  /\ s \o t \in Seq(IdsOf(mode)) /\ s \o t # <<>>
             /\ ToSet(s \o t) = ToSet(s) \cup ToSet(t)
  <2>1. ToSet(s) \subseteq ToSet(s \o t)
    BY DEF ToSet
  <2>2. ASSUME NEW i \in 1..Len(t) PROVE t[i] \in ToSet(s \o t)
    <3>1. t[i] = (s \o t)[Len(s) + i] /\ Len(s) + i \in DOMAIN (s \o t)
      OBVIOUS
    <3> QED
      BY <3>1 DEF ToSet
  <2>3. ToSet(s \o t) \subseteq ToSet(s) \cup ToSet(t)
    BY DEF ToSet
  <2>4. ToSet(t) \subseteq ToSet(s \o t)
    BY <2>2 DEF ToSet
  <2>5. s \o t \in Seq(IdsOf(mode))
    OBVIOUS
  <2>6. s \o t # <<>>
    <3>1. Len(s \o t) = Len(s) + Len(t) /\ Len(s) \in Nat /\ Len(t) \in Nat
      OBVIOUS
    <3>2. Len(s \o t) # 0
      BY <1>4, <3>1
    <3> QED
      BY <3>2
  <2> QED
    BY <2>1, <2>3, <2>4, <2>5, <2>6
<1> QED
  BY <1>3, <1>4 DEF BoardsOf, IdsOf, Categories

LEMMA BoardIdsAre == BoardIds = UNION {IdsOf(m) : m \in Mode}
BY BoardsAre DEF BoardIds

\* The other network's jobs are left alone, this one's follow the lists, and no job
\* is added.
LEMMA TargetsWritten ==
  ASSUME NEW config, NEW mode \in Mode, NEW ls
  PROVE  /\ DOMAIN WithTargets(config, mode, ls) = DOMAIN config
         /\ \A j \in JobsOf(mode) \cap DOMAIN config :
              WithTargets(config, mode, ls)[j] = TargetsOf(j, ls)
         /\ \A j \in DOMAIN config \ JobsOf(mode) :
              WithTargets(config, mode, ls)[j] = config[j]
BY DEF WithTargets

LEMMA OthersJobs ==
  ASSUME NEW mode \in Mode, NEW id \in BoardIds \ IdsOf(mode)
  PROVE  Job(id[1], id[3]) \notin JobsOf(mode)
<1>1. \A j \in JobsOf(mode) : j[1] = mode
  BY DEF JobsOf, Job, ApiJob, Mode
<1>2. id[1] # mode
  BY BoardIdsAre DEF IdsOf
<1> QED
  BY <1>1, <1>2 DEF Job

\* A dashboard made of the lists the targets were made of agrees with them.
LEMMA BoardAgrees ==
  ASSUME NEW mode \in Mode, NEW id \in IdsOf(mode), NEW ls, NEW config,
         \A j \in JobsOf(mode) \cap {Job(id[1], id[3])} : config[j] = TargetsOf(j, ls)
  PROVE  Agrees(Board(id[1], id[3], ls), id, config)
<1> DEFINE b == Board(mode, id[3], ls)
           j == Job(mode, id[3])
<1>1. id[1] = mode /\ id[3] \in Parts
  BY DEF IdsOf
<1>2. b.job = j /\ b.shown = Shown(mode, id[3], ls)
  BY DEF Board
<1>3. j # ApiJob /\ j[2] = id[3]
  BY <1>1, ShardsAssumption DEF Parts, Shard, ToSet, Job, ApiJob
<1>4. ASSUME j \in Jobs
      PROVE  config[j] \subseteq b.shown /\ b.shown \subseteq config[j] \cup b.dns
  <2>1. j \in JobsOf(mode)
    BY <1>3, <1>4 DEF Jobs, JobsOf, Job, ApiJob, Mode
  <2>2. config[j] = TargetsOf(j, ls)
    BY <1>1, <2>1
  <2>3. CASE id[3] = "service"
    <3>1. mode = "mainnet"
      BY <1>1, <1>4, <2>3, ShardsAssumption DEF Jobs, Job, ApiJob, Mode, Shard, ToSet
    <3> QED
      BY <1>2, <1>3, <2>2, <2>3, <3>1 DEF TargetsOf, Shown
  <2>4. CASE id[3] # "service"
    <3>1. config[j] = Named(ls[Nodes(id[3])])
      BY <1>3, <2>2, <2>4 DEF TargetsOf
    <3>2. b.dns = IF mode = "mainnet" THEN Named(ls[Dns(id[3])]) ELSE {}
      BY <2>4 DEF Board
    <3>3. b.shown = Named(ls[Nodes(id[3])]) \cup b.dns
      BY <1>2, <2>4, <3>2 DEF Shown
    <3> HIDE DEF b
    <3> QED
      BY <3>1, <3>3
  <2> QED
    BY <2>3, <2>4
<1> QED
  BY <1>1, <1>2, <1>4 DEF Agrees
-----------------------------------------------------------------------------
(* The run. *)

LEMMA RunInit == Init => RunInv
BY DEF Init, RunInv

\* Writing some of the jobs of Config.
LEMMA JobsWritten ==
  ASSUME FreshInv, NEW config, WriteJobs(config), boards' = boards, Head(turns) \in Mode,
         DOMAIN config \subseteq DOMAIN Config, \A j \in DOMAIN config : config[j] = Config[j]
  PROVE  /\ FreshInv'
         /\ \A j \in JobsOf(Head(turns)) \ unwritten' : prom'.jobs[j] = TargetsOf(j, lists)
<1> DEFINE mode == Head(turns)
           before == IF prom = NoFile THEN NoTargets ELSE prom.jobs
<1>1. /\ prom'.jobs = config /\ fresh' = fresh \ IdsOf(mode)
      /\ unwritten' = (unwritten \ JobsOf(mode)) \cup (Jobs \ DOMAIN config)
  BY BoardsAre DEF WriteJobs, File, Outdated
<1>2. /\ DOMAIN Config = DOMAIN before
      /\ \A j \in JobsOf(mode) \cap DOMAIN before : Config[j] = TargetsOf(j, lists)
      /\ \A j \in DOMAIN before \ JobsOf(mode) : Config[j] = before[j]
  BY TargetsWritten DEF Config
<1>3. Jobs \ unwritten # {} => before = prom.jobs
  BY DEF FreshInv, NoFile, Nowhere
<1>4. JobsOf(mode) \subseteq Jobs
  BY DEF JobsOf, Jobs, Job, ApiJob, Mode
<1> HIDE DEF mode, before
<1>5. ASSUME NEW j \in JobsOf(mode) \ unwritten' PROVE config[j] = TargetsOf(j, lists)
  BY <1>1, <1>2, <1>4
<1>6. ASSUME NEW id \in fresh', Job(id[1], id[3]) \notin unwritten'
      PROVE  \A b \in boards[id].content : Agrees(b, id, config)
  <2> DEFINE j == Job(id[1], id[3])
  <2>1. id \in fresh /\ id \in BoardIds \ IdsOf(mode)
    BY <1>1 DEF FreshInv
  <2>2. j \notin JobsOf(mode)
    BY <2>1, OthersJobs DEF mode
  <2>3. j \notin unwritten
    BY <1>1, <1>6, <2>2
  <2>4. \A b \in boards[id].content : Agrees(b, id, prom.jobs)
    BY <2>1, <2>3 DEF FreshInv
  <2>5. j \in Jobs => config[j] = prom.jobs[j]
    BY <1>1, <1>2, <1>3, <1>6, <2>2, <2>3
  <2> QED
    BY <2>4, <2>5 DEF Agrees
<1>7. /\ boards' = [id \in BoardIds |-> boards'[id]] /\ fresh' \subseteq BoardIds
      /\ Jobs \ DOMAIN prom'.jobs \subseteq unwritten' /\ unwritten' \subseteq Jobs
  BY <1>1 DEF FreshInv
<1> QED
  BY <1>1, <1>5, <1>6, <1>7 DEF FreshInv, mode

LEMMA RunStep ==
  ASSUME RunInv, FreshInv, [Next]_updateVars
  PROVE  RunInv'
<1>1. CASE UNCHANGED <<run, prom, unwritten>>
  BY <1>1 DEF RunInv, run
<1>2. ASSUME NEW m \in RunModes, Start(m) PROVE RunInv'
  <2>1. <<"mainnet", "testnet">> \in Seq(Mode) /\ <<"mainnet", "testnet">> # <<>>
    BY DEF Mode
  <2>2. /\ <<"mainnet">> \in Seq(Mode) /\ <<"mainnet">> # <<>>
        /\ <<"testnet">> \in Seq(Mode) /\ <<"testnet">> # <<>>
    BY DEF Mode
  <2>3. m \in Seq(Mode) /\ m # <<>>
    BY <2>1, <2>2 DEF RunModes
  <2> QED
    BY <1>2, <2>3 DEF Start, RunInv
<1>3. CASE GiveUp
  BY <1>3 DEF GiveUp, RunInv
<1>4. ASSUME NEW bad, Download(bad) PROVE RunInv'
  BY <1>4 DEF Download, RunInv
<1>5. CASE Create
  <2>1. /\ WriteJobs(Config) /\ Head(turns) \in Mode /\ boards' = boards
        /\ turns' = turns /\ lists' = lists /\ turns \in Seq(Mode) /\ turns # <<>>
        /\ todo' = BoardsOf(Head(turns)) /\ pc' = "get"
    BY <1>5 DEF Create, RunInv, server
  <2>2. \A j \in JobsOf(Head(turns)) \ unwritten' : prom'.jobs[j] = TargetsOf(j, lists)
    BY <2>1, JobsWritten
  <2>3. todo' \in Seq(IdsOf(Head(turns))) /\ todo' # <<>>
    BY <2>1, BoardsAre
  <2> QED
    BY <2>1, <2>2, <2>3 DEF RunInv
<1>6. CASE Get \/ GetError
  BY <1>6 DEF Get, GetError, RunInv, files
<1>7. CASE Post
  <2>1. /\ todo \in Seq(IdsOf(Head(turns))) /\ todo # <<>>
        /\ turns \in Seq(Mode) /\ turns # <<>> /\ pc = "post"
        /\ todo' = Tail(todo) /\ prom' = prom /\ unwritten' = unwritten /\ lists' = lists
    BY <1>7 DEF Post, GoOn, RunInv, files
  <2>2. CASE todo' # <<>>
    <3>1. pc' = "get" /\ turns' = turns /\ todo' \in Seq(IdsOf(Head(turns)))
      BY <1>7, <2>1, <2>2 DEF Post, GoOn
    <3> QED
      BY <2>1, <2>2, <3>1 DEF RunInv
  <2>3. CASE todo' = <<>>
    <3>1. /\ turns' = Tail(turns) /\ turns' \in Seq(Mode)
          /\ pc' = IF turns' = <<>> THEN "install" ELSE "download"
      BY <1>7, <2>1, <2>3 DEF Post, GoOn
    <3> QED
      BY <3>1 DEF RunInv
  <2> QED
    BY <2>2, <2>3
<1>8. CASE Install
  BY <1>8 DEF Install, RunInv
<1>9. ASSUME NEW id, Edit(id) PROVE RunInv'
  BY <1>9 DEF Edit, RunInv, files
<1>10. CASE RemoveDamaged
  <2>1. unwritten' = Jobs /\ \A mode \in Mode : JobsOf(mode) \subseteq Jobs
    BY <1>10 DEF RemoveDamaged, JobsOf, Jobs, Job, ApiJob, Mode
  <2>2. UNCHANGED run
    BY <1>10 DEF RemoveDamaged
  <2>3. turns \in Seq(Mode) /\ turns # <<>> => Head(turns) \in Mode
    OBVIOUS
  <2> QED
    BY <2>1, <2>2, <2>3 DEF RunInv, run
<1> QED
  BY <1>1, <1>2, <1>3, <1>4, <1>5, <1>6, <1>7, <1>8, <1>9, <1>10
  DEF Next, Step, GoesWrong, Tear, Die, FailToRead, Others, Relist, updateVars, files
-----------------------------------------------------------------------------
(* Dashboards and targets. *)

LEMMA FreshInit == Init => FreshInv /\ LiveInv
BY DEF Init, FreshInv, LiveInv

LEMMA FreshStep ==
  ASSUME RunInv, FreshInv, [Next]_updateVars
  PROVE  FreshInv'
<1>1. CASE UNCHANGED <<prom, unwritten, boards, fresh>>
  BY <1>1 DEF FreshInv, Agrees
<1>2. ASSUME NEW id \in BoardIds, Edit(id) PROVE FreshInv'
  <2>1. /\ boards' = [boards EXCEPT ![id] = [version |-> Saved(@.version), content |-> {}]]
        /\ fresh' = fresh \ {id} /\ prom' = prom /\ unwritten' = unwritten
    BY <1>2 DEF Edit, files
  <2> QED
    BY <2>1 DEF FreshInv, Agrees
<1>3. CASE Tear
  <2>1. boards' = boards /\ Head(turns) \in Mode
    BY <1>3 DEF Tear, server, RunInv
  <2>2. CASE prom' = Torn /\ unwritten' = Jobs /\ UNCHANGED fresh
    <3>1. \A id \in fresh : Job(id[1], id[3]) \notin unwritten' =>
            \A b \in boards[id].content : Agrees(b, id, prom'.jobs)
      <4> SUFFICES ASSUME NEW id \in fresh, Job(id[1], id[3]) \notin Jobs,
                          NEW b \in boards[id].content
                   PROVE  Agrees(b, id, prom'.jobs)
        BY <2>2
      <4> QED
        BY DEF FreshInv, Agrees
    <3> QED
      BY <2>1, <2>2, <3>1 DEF FreshInv
  <2>3. ASSUME NEW n \in 0..Len(JobOrder) - 1,
               LET kept == {JobOrder[i] : i \in 1..n} \cap DOMAIN Config
               IN  WriteJobs([j \in kept |-> Config[j]])
        PROVE  FreshInv'
    <3> DEFINE config == [j \in {JobOrder[i] : i \in 1..n} \cap DOMAIN Config |-> Config[j]]
    <3>1. /\ WriteJobs(config) /\ DOMAIN config \subseteq DOMAIN Config
          /\ \A j \in DOMAIN config : config[j] = Config[j]
      BY <2>3
    <3> HIDE DEF config
    <3> QED
      BY <2>1, <3>1, JobsWritten
  <2> QED
    BY <1>3, <2>2, <2>3 DEF Tear
<1>4. CASE RemoveDamaged
  <2>1. prom' = NoFile /\ unwritten' = Jobs /\ UNCHANGED <<boards, fresh>>
    BY <1>4 DEF RemoveDamaged, server, shows
  <2> QED
    BY <2>1 DEF FreshInv, Agrees
<1>5. CASE Create
  BY <1>5, JobsWritten DEF Create, RunInv, server
<1>6. CASE Post
  <2> DEFINE id == Head(todo)
             mode == Head(turns)
  <2>1. /\ mode \in Mode /\ id \in IdsOf(mode) /\ prom' = prom /\ unwritten' = unwritten
        /\ \A j \in JobsOf(mode) \ unwritten : prom.jobs[j] = TargetsOf(j, lists)
    BY <1>6 DEF Post, RunInv, files
  <2>2. id \in BoardIds
    BY <2>1, BoardIdsAre
  <2>3. Job(id[1], id[3]) \notin unwritten => Agrees(Content(id), id, prom.jobs)
    BY <2>1, BoardAgrees DEF Content
  <2>4. \/ UNCHANGED <<boards, fresh>>
        \/ /\ boards' = [boards EXCEPT ![id] =
                           [version |-> Saved(@.version), content |-> {Content(id)}]]
           /\ fresh' = fresh \cup {id}
    BY <1>6 DEF Post, Save, shows
  <2> HIDE DEF id, mode
  <2>5. /\ boards' = [i \in BoardIds |-> boards'[i]] /\ fresh' \subseteq BoardIds
        /\ \A i \in fresh' : Job(i[1], i[3]) \notin unwritten =>
             \A b \in boards'[i].content : Agrees(b, i, prom.jobs)
    BY <2>2, <2>3, <2>4 DEF FreshInv
  <2> QED
    BY <2>1, <2>5 DEF FreshInv, Agrees
<1> QED
  BY <1>1, <1>2, <1>3, <1>4, <1>5, <1>6
  DEF Next, Step, GoesWrong, Start, Download, FailToRead, Get, GetError, Install, Die, Others,
      Relist, updateVars, server, files, shows

\* A dashboard is live from an install that finds it fresh, until it is saved.
LEMMA LiveStep ==
  ASSUME FreshInv, LiveInv, [Next]_updateVars
  PROVE  LiveInv'
<1>1. CASE UNCHANGED <<etc, boards, live>>
  BY <1>1 DEF LiveInv, Agrees
<1>2. ASSUME NEW id, live' = live \ {id}, etc' = etc,
             \A i \in BoardIds \ {id} : boards'[i] = boards[i]
      PROVE  LiveInv'
  BY <1>2 DEF LiveInv, Agrees
<1>3. ASSUME NEW id \in BoardIds, Edit(id) PROVE LiveInv'
  BY <1>2, <1>3 DEF Edit, FreshInv, files
<1>4. CASE Post
  <2>1. CASE Save(Head(todo))
    BY <1>2, <1>4, <2>1 DEF Post, Save, FreshInv, files
  <2>2. CASE UNCHANGED <<boards, shows>>
    BY <1>1, <1>4, <2>2 DEF Post, shows, files
  <2> QED
    BY <1>4, <2>1, <2>2 DEF Post
<1>5. CASE Install
  <2>1. CASE prom = NoFile
    BY <1>1, <1>5, <2>1 DEF Install, server
  <2>2. CASE prom # NoFile
    <3>1. /\ etc' = prom /\ boards' = boards
          /\ live' = {id \in fresh : Job(id[1], id[3]) \notin unwritten}
      BY <1>5, <2>2 DEF Install, server
    <3> QED
      BY <3>1 DEF LiveInv, FreshInv, Agrees
  <2> QED
    BY <2>1, <2>2
<1> QED
  BY <1>1, <1>3, <1>4, <1>5
  DEF Next, Step, GoesWrong, Start, Download, Create, Tear, RemoveDamaged, FailToRead, Get, GetError,
      Die, Others, Relist, updateVars, server, files, shows
-----------------------------------------------------------------------------
(* Versions. *)

LEMMA UnseenInit == Init => UnseenInv
BY DEF Init, UnseenInv

LEMMA UnseenStep ==
  ASSUME UnseenInv, [Next]_updateVars
  PROVE  UnseenInv'
<1>1. CASE UNCHANGED <<boards, unseen>> /\ (pc' # "post" \/ UNCHANGED <<pc, todo, version>>)
  BY <1>1 DEF UnseenInv
<1>2. ASSUME NEW id \in BoardIds, Edit(id) PROVE UnseenInv'
  <2>1. /\ boards' = [boards EXCEPT ![id] = [version |-> Saved(@.version), content |-> {}]]
        /\ unseen' = unseen \cup {id} /\ pc' = pc /\ todo' = todo
        /\ version' = IF pc = "post" /\ id = Head(todo) THEN Past ELSE version
    BY <1>2 DEF Edit
  <2>2. /\ boards' = [i \in BoardIds |-> boards'[i]] /\ boards'[id].version = 2
        /\ \A i \in BoardIds \ {id} : boards'[i] = boards[i]
    <3>1. boards[id].version \in {1, 2}
      BY <1>2 DEF UnseenInv, Edit
    <3>2. Saved(boards[id].version) = 2
      BY <3>1 DEF Saved
    <3> QED
      BY <2>1, <3>2 DEF UnseenInv
  <2>3. ASSUME NEW i \in BoardIds
        PROVE  boards'[i].version \in {0, 1, 2} /\ (i \in unseen' => boards'[i].version = 2)
    <3>1. CASE i = id
      BY <2>2, <3>1
    <3>2. CASE i # id
      BY <2>1, <2>2, <3>2 DEF UnseenInv
    <3> QED
      BY <3>1, <3>2
  <2>4. pc' = "post" /\ Head(todo') \in unseen' => version' \in {Past, 1}
    BY <2>1 DEF UnseenInv
  <2>5. unseen' \subseteq BoardIds
    BY <2>1 DEF UnseenInv
  <2> HIDE DEF BoardIds
  <2> QED
    BY <2>2, <2>3, <2>4, <2>5 DEF UnseenInv
<1>3. CASE Get
  BY <1>3 DEF Get, UnseenInv
<1>4. CASE Post
  <2>1. /\ \/ UNCHANGED boards
           \/ boards' = [boards EXCEPT ![Head(todo)] =
                           [version |-> Saved(@.version), content |-> {Content(Head(todo))}]]
        /\ unseen' = unseen /\ pc' # "post"
    BY <1>4 DEF Post, Save, GoOn
  <2>2. /\ boards' = [id \in BoardIds |-> boards'[id]]
        /\ \A id \in BoardIds : boards'[id].version \in
             {boards[id].version, Saved(boards[id].version)}
    BY <2>1 DEF UnseenInv
  <2>3. \A id \in BoardIds : /\ boards'[id].version \in {0, 1, 2}
                             /\ boards[id].version = 2 => boards'[id].version = 2
    BY <2>2 DEF UnseenInv, Saved
  <2> HIDE DEF BoardIds
  <2> QED
    BY <2>1, <2>2, <2>3 DEF UnseenInv
<1>5. CASE GetError
  BY <1>5 DEF GetError, UnseenInv, server
<1> QED
  BY <1>1, <1>2, <1>3, <1>4, <1>5
  DEF Next, Step, GoesWrong, Start, Download, Create, Tear, GiveUp, FailToRead, RemoveDamaged, Install,
      Die, Others, Relist, Save, updateVars, server, run
-----------------------------------------------------------------------------
(* The panels of a dashboard. *)

\* The panels that a board may have, of lines N and metrics Q, and what a board
\* under construction is: everything on it is above the line and below the id to go
\* on with, and each node it has created has one panel of each metric.
PanelSet(N, Q) ==
  [id : Int, about : SUBSET (N \X Q), x : Int, y : Int, w : Int, h : Int]
OneEach(b, Q) ==
  /\ \A p \in b.panels : p.about # {} =>
       \E ip \in b.created, q \in Q : p.about = {<<ip, q>>}
  /\ \A ip \in b.created, q \in Q : \E p \in b.panels : p.about = {<<ip, q>>}
  /\ \A p, r \in b.panels : p.about # {} /\ p.about = r.about => p = r
IsBuilt(b, Q) ==
  /\ IsFiniteSet(b.created)
  /\ \A p \in b.panels : p.id <= b.id /\ p.y + p.h <= b.y
  /\ WellPlaced(b.panels)
  /\ OneEach(b, Q)
Built(N, Q) ==
  {b \in [id : Int, y : Int, created : SUBSET N, panels : SUBSET PanelSet(N, Q)] : IsBuilt(b, Q)}

LEMMA LinesAreFinite ==
  ASSUME NEW n \in Nat, NEW s, DOMAIN s = 1..n
  PROVE  IsFiniteSet(ToSet(s))
<1> DEFINE f == [i \in 1..n |-> s[i]]
<1>1. f \in Surjection(1..n, ToSet(s))
  BY DEF Surjection, ToSet
<1>2. IsFiniteSet(1..n)
  BY FS_Interval
<1> HIDE DEF f
<1> QED
  BY <1>1, <1>2, FS_Surjection

LEMMA MetricsAre ==
  ASSUME NEW category
  PROVE  LET metrics == Metrics(category) IN
           /\ \/ Len(metrics) = 4 /\ DOMAIN metrics = 1..4 /\ 24 \div Len(metrics) = 6
              \/ Len(metrics) = 2 /\ DOMAIN metrics = 1..2 /\ 24 \div Len(metrics) = 12
           /\ ToSet(metrics) = {metrics[i] : i \in DOMAIN metrics}
           /\ \A i, j \in DOMAIN metrics : metrics[i] = metrics[j] => i = j
           /\ IsFiniteSet(ToSet(metrics))
<1>1. CASE Metrics(category) = BaseMetrics
  <2> DEFINE m == BaseMetrics
  <2>1. m = <<"cpu", "ram", "disk", "io">> /\ Len(m) = 4 /\ DOMAIN m = 1..4
    BY DEF BaseMetrics
  <2>2. /\ m[1] = "cpu" /\ m[2] = "ram" /\ m[3] = "disk" /\ m[4] = "io"
    BY <2>1
  <2>3. 24 \div 4 = 6
    OBVIOUS
  <2>4. ToSet(m) = {m[i] : i \in DOMAIN m}
    BY DEF ToSet
  <2>6. IsFiniteSet(ToSet(m))
    BY <2>1, LinesAreFinite
  <2>7. \A i, j \in DOMAIN m : m[i] = m[j] => i = j
    BY <2>1, <2>2
  <2> QED
    BY <1>1, <2>1, <2>3, <2>4, <2>6, <2>7
<1>2. CASE Metrics(category) = NetworkMetrics
  <2> DEFINE m == NetworkMetrics
  <2>1. m = <<"net", "tcp">> /\ Len(m) = 2 /\ DOMAIN m = 1..2
    BY DEF NetworkMetrics
  <2>2. m[1] = "net" /\ m[2] = "tcp"
    BY <2>1
  <2>3. 24 \div 2 = 12
    OBVIOUS
  <2>4. ToSet(m) = {m[i] : i \in DOMAIN m}
    BY DEF ToSet
  <2>6. IsFiniteSet(ToSet(m))
    BY <2>1, LinesAreFinite
  <2>7. \A i, j \in DOMAIN m : m[i] = m[j] => i = j
    BY <2>1, <2>2
  <2> QED
    BY <1>2, <2>1, <2>3, <2>4, <2>6, <2>7
<1> QED
  BY <1>1, <1>2 DEF Metrics

\* The panels of one node are side by side, with ids of their own.
AreOf(new, metrics, N, ip, id, y) ==
  /\ new \in SUBSET PanelSet(N, ToSet(metrics))
  /\ \A p \in new : /\ p.id > id /\ p.id <= id + 2 * Len(metrics)
                    /\ p.y = y /\ p.h = 6
                    /\ \E q \in ToSet(metrics) : p.about = {<<ip, q>>}
  /\ \A q \in ToSet(metrics) : \E p \in new : p.about = {<<ip, q>>}
  /\ \A p, r \in new : p.about = r.about => p = r
  /\ WellPlaced(new)

LEMMA PanelsAtAre ==
  ASSUME NEW category, NEW N, NEW ip \in N, NEW id \in Int, NEW y \in Int
  PROVE  AreOf(PanelsAt(Metrics(category), ip, id, y), Metrics(category), N, ip, id, y)
<1> DEFINE metrics == Metrics(category)
           Q == ToSet(metrics)
           L == Len(metrics)
           D == DOMAIN metrics
           w == 24 \div L
           panel(i) == Rect(id + 2 * i, {<<ip, metrics[i]>>}, (i - 1) * w, y, w, 6)
           new == PanelsAt(metrics, ip, id, y)
<1>1. /\ (L = 4 /\ D = 1..4 /\ w = 6) \/ (L = 2 /\ D = 1..2 /\ w = 12)
      /\ Q = {metrics[i] : i \in D}
      /\ \A i, j \in D : metrics[i] = metrics[j] => i = j
  BY MetricsAre
<1>2. new = {panel(i) : i \in D}
  BY DEF PanelsAt
<1> HIDE DEF metrics, Q, L, D, w, new
<1>3. ASSUME NEW i \in D
      PROVE  /\ panel(i) \in PanelSet(N, Q)
             /\ panel(i).id > id /\ panel(i).id <= id + 2 * L
             /\ panel(i).y = y /\ panel(i).h = 6
             /\ panel(i).about = {<<ip, metrics[i]>>} /\ metrics[i] \in Q
  <2>1. i \in Int /\ w \in Int /\ i >= 1 /\ i <= L /\ L \in Int
    BY <1>1
  <2>2. (i - 1) * w \in Int
    BY <2>1
  <2>3. metrics[i] \in Q
    BY <1>1
  <2> DEFINE x == (i - 1) * w
  <2> HIDE DEF x
  <2>4. panel(i) = [id |-> id + 2 * i, about |-> {<<ip, metrics[i]>>}, x |-> x, y |-> y, w |-> w, h |-> 6]
    BY DEF Rect, x
  <2> HIDE DEF panel
  <2>5. x \in Int
    BY <2>2 DEF x
  <2>6. {<<ip, metrics[i]>>} \in SUBSET (N \X Q)
    BY <2>3
  <2>7. panel(i) \in PanelSet(N, Q)
    BY <2>1, <2>4, <2>5, <2>6 DEF PanelSet
  <2> QED
    BY <2>1, <2>3, <2>4, <2>7
<1>4. ASSUME NEW i \in D, NEW j \in D, i # j
      PROVE  panel(i).id # panel(j).id /\ Apart(panel(i), panel(j)) /\ panel(i).about # panel(j).about
  <2>1. panel(i).about # panel(j).about
    <3>1. metrics[i] # metrics[j]
      BY <1>1, <1>4
    <3>2. <<ip, metrics[i]>> # <<ip, metrics[j]>>
      BY <3>1
    <3> DEFINE a == <<ip, metrics[i]>>
               b == <<ip, metrics[j]>>
    <3>3. a # b => {a} # {b}
      <4> HIDE DEF a, b
      <4> QED
        OBVIOUS
    <3> QED
      BY <1>3, <3>2, <3>3
  <2>2. /\ panel(i).id = id + 2 * i /\ panel(j).id = id + 2 * j
        /\ panel(i).x = (i - 1) * w /\ panel(j).x = (j - 1) * w /\ panel(i).w = w /\ panel(j).w = w
    BY DEF Rect
  <2>3. i \in Int /\ j \in Int
    BY <1>1
  <2> HIDE DEF panel
  <2>4. panel(i).x + panel(i).w <= panel(j).x \/ panel(j).x + panel(j).w <= panel(i).x
    <3>1. CASE w = 6
      BY <1>4, <2>2, <2>3, <3>1
    <3>2. CASE w = 12
      BY <1>4, <2>2, <2>3, <3>2
    <3> QED
      BY <1>1, <3>1, <3>2
  <2> QED
    BY <1>4, <2>1, <2>2, <2>3, <2>4 DEF Apart
<1> HIDE DEF panel
<1>5. new \in SUBSET PanelSet(N, Q)
  BY <1>2, <1>3
<1>6. \A p \in new : /\ p.id > id /\ p.id <= id + 2 * L
                     /\ p.y = y /\ p.h = 6
                     /\ \E q \in Q : p.about = {<<ip, q>>}
  BY <1>2, <1>3
<1>7. \A q \in Q : \E p \in new : p.about = {<<ip, q>>}
  BY <1>1, <1>2, <1>3
<1>8. (\A p, r \in new : p.about = r.about => p = r) /\ WellPlaced(new)
  BY <1>2, <1>4 DEF WellPlaced
<1> QED
  BY <1>5, <1>6, <1>7, <1>8 DEF metrics, Q, L, new, AreOf

\* Panels put below those there are, with greater ids.
Above(old, id, y) == WellPlaced(old) /\ \A p \in old : p.id <= id /\ p.y + p.h <= y
Between(new, id, y, id2, y2) ==
  /\ id \in Int /\ y \in Int /\ id2 \in Int /\ y2 \in Int /\ id <= id2 /\ y <= y2
  /\ WellPlaced(new)
  /\ \A p \in new : p.id > id /\ p.id <= id2 /\ p.y >= y /\ p.y + p.h <= y2

LEMMA PanelsBelow ==
  ASSUME NEW N, NEW Q, NEW old \in SUBSET PanelSet(N, Q), NEW new \in SUBSET PanelSet(N, Q),
         NEW id, NEW y, NEW id2, NEW y2, Above(old, id, y), Between(new, id, y, id2, y2)
  PROVE  Above(old \cup new, id2, y2)
<1> USE DEF Above, Between
<1>1. \A p \in old \cup new : p.id \in Int /\ p.y \in Int /\ p.h \in Int
  BY DEF PanelSet
<1>2. ASSUME NEW p \in old, NEW r \in new
      PROVE  p.id # r.id /\ r.id # p.id /\ Apart(p, r) /\ Apart(r, p)
  <2>1. p.id <= id /\ p.y + p.h <= y /\ r.id > id /\ r.y >= y
    OBVIOUS
  <2>2. p.id # r.id /\ p.y + p.h <= r.y
    BY <1>1, <2>1
  <2> QED
    BY <2>2 DEF Apart
<1>3. WellPlaced(old \cup new)
  BY <1>2 DEF WellPlaced
<1>4. ASSUME NEW p \in old \cup new PROVE p.id <= id2 /\ p.y + p.h <= y2
  <2>1. CASE p \in old
    <3>1. p.id <= id /\ p.y + p.h <= y
      BY <2>1
    <3> QED
      BY <1>1, <3>1
  <2>2. CASE p \in new
    BY <2>2
  <2> QED
    BY <2>1, <2>2
<1> QED
  BY <1>3, <1>4

\* A node gets one panel of each metric, unless it has them.
LEMMA NodeIsAdded ==
  ASSUME NEW category, NEW N, NEW b \in Built(N, ToSet(Metrics(category))), NEW ip \in N
  PROVE  LET a == WithNode(Metrics(category), b, ip)
         IN  /\ a \in Built(N, ToSet(Metrics(category)))
             /\ a.created = b.created \cup ({ip} \ {Blank})
<1> DEFINE metrics == Metrics(category)
           Q == ToSet(metrics)
           a == WithNode(metrics, b, ip)
           new == PanelsAt(metrics, ip, b.id, b.y)
           L == Len(metrics)
<1>1. CASE ip = Blank \/ ip \in b.created
  <2>1. a = b
    BY <1>1 DEF WithNode
  <2> HIDE DEF a
  <2> QED
    BY <1>1, <2>1 DEF a
<1>2. CASE ~(ip = Blank \/ ip \in b.created)
  <2>1. L \in Nat
    BY MetricsAre
  <2>2. /\ new \in SUBSET PanelSet(N, Q)
        /\ \A p \in new : /\ p.id > b.id /\ p.id <= b.id + 2 * L /\ p.y = b.y /\ p.h = 6
                          /\ \E q \in Q : p.about = {<<ip, q>>}
        /\ \A q \in Q : \E p \in new : p.about = {<<ip, q>>}
        /\ \A p, r \in new : p.about = r.about => p = r
        /\ WellPlaced(new)
    <3>1. b.id \in Int /\ b.y \in Int
      BY DEF Built
    <3>2. AreOf(new, metrics, N, ip, b.id, b.y)
      BY <3>1, PanelsAtAre
    <3> HIDE DEF new, Q, L, metrics
    <3> QED
      BY <3>2 DEF AreOf, Q, L
  <2>3. a = [b EXCEPT !.panels = @ \cup new, !.id = @ + 2 * L, !.y = @ + 6,
                      !.created = @ \cup {ip}]
    BY <1>2 DEF WithNode
  <2> HIDE DEF metrics, Q, L, new, a
  <2>4. /\ b.id \in Int /\ b.y \in Int /\ b.created \in SUBSET N /\ b.panels \in SUBSET PanelSet(N, Q)
        /\ b = [id |-> b.id, y |-> b.y, created |-> b.created, panels |-> b.panels]
        /\ IsBuilt(b, Q)
    BY DEF Built, Q, metrics
  <2>5. a = [id |-> b.id + 2 * L, y |-> b.y + 6, created |-> b.created \cup {ip},
             panels |-> b.panels \cup new]
    BY <2>3, <2>4
  <2>6. a \in [id : Int, y : Int, created : SUBSET N, panels : SUBSET PanelSet(N, Q)]
    <3>1. /\ b.id + 2 * L \in Int /\ b.y + 6 \in Int
          /\ b.created \cup {ip} \in SUBSET N /\ b.panels \cup new \in SUBSET PanelSet(N, Q)
      BY <2>1, <2>2, <2>4
    <3> QED
      BY <2>5, <3>1
  <2>7. a.id = b.id + 2 * L /\ a.y = b.y + 6 /\ a.created = b.created \cup {ip}
        /\ a.panels = b.panels \cup new
    BY <2>5
  <2> HIDE DEF IsBuilt
  <2>8. IsFiniteSet(a.created)
    BY <2>4, <2>7, FS_AddElement DEF IsBuilt
  <2>9. WellPlaced(a.panels) /\ \A p \in a.panels : p.id <= a.id /\ p.y + p.h <= a.y
    <3>1. /\ WellPlaced(b.panels)
          /\ \A p \in b.panels : p.id <= b.id /\ p.y + p.h <= b.y
      BY <2>4 DEF IsBuilt
    <3>2. a.id \in Int /\ a.y \in Int /\ b.id <= a.id /\ b.y <= a.y
      BY <2>1, <2>4, <2>7
    <3>3. \A p \in new : p.id > b.id /\ p.id <= a.id /\ p.y >= b.y /\ p.y + p.h <= a.y
      BY <2>2, <2>4, <2>7
    <3>4. Above(b.panels, b.id, b.y) /\ Between(new, b.id, b.y, a.id, a.y)
      BY <2>2, <2>4, <3>1, <3>2, <3>3 DEF Above, Between
    <3>5. Above(b.panels \cup new, a.id, a.y)
      BY <2>2, <2>4, <3>4, PanelsBelow
    <3> QED
      BY <2>7, <3>5 DEF Above
  <2>10. OneEach(a, Q)
    <3>1. /\ \A p \in b.panels : p.about # {} =>
               \E x \in b.created, q \in Q : p.about = {<<x, q>>}
          /\ \A x \in b.created, q \in Q : \E p \in b.panels : p.about = {<<x, q>>}
          /\ \A p, r \in b.panels : p.about # {} /\ p.about = r.about => p = r
      BY <2>4 DEF IsBuilt, OneEach
    <3>2. ASSUME NEW p \in a.panels, p.about # {}
          PROVE  \E x \in a.created, q \in Q : p.about = {<<x, q>>}
      BY <2>2, <2>7, <3>1, <3>2
    <3>3. ASSUME NEW x \in a.created, NEW q \in Q PROVE \E p \in a.panels : p.about = {<<x, q>>}
      BY <2>2, <2>7, <3>1
    <3>4. ASSUME NEW p \in b.panels, NEW r \in new PROVE p.about # r.about
      <4>1. PICK q \in Q : r.about = {<<ip, q>>}
        BY <2>2
      <4>2. SUFFICES ASSUME p.about = r.about PROVE FALSE
        OBVIOUS
      <4>3. PICK x \in b.created, u \in Q : p.about = {<<x, u>>}
        BY <3>1, <4>1, <4>2
      <4>4. <<x, u>> = <<ip, q>>
        BY <4>1, <4>2, <4>3
      <4> QED
        BY <1>2, <4>3, <4>4
    <3>5. ASSUME NEW p \in a.panels, NEW r \in a.panels, p.about # {}, p.about = r.about
          PROVE  p = r
      BY <2>2, <2>7, <3>1, <3>4, <3>5
    <3> QED
      BY <3>2, <3>3, <3>5 DEF OneEach
  <2>11. a \in Built(N, Q)
    BY <2>6, <2>8, <2>9, <2>10 DEF Built, IsBuilt
  <2>12. a.created = b.created \cup ({ip} \ {Blank})
    BY <1>2, <2>7
  <2> QED
    BY <2>11, <2>12 DEF a, Q, metrics
<1> QED
  BY <1>1, <1>2

\* A row has a title, then the panels of its nodes.
LEMMA RowIsBegun ==
  ASSUME NEW N, NEW Q, NEW b \in Built(N, Q)
  PROVE  LET a == [b EXCEPT !.panels = @ \cup {Rect(b.id + 2, {}, 0, b.y, 24, 1)},
                            !.id = @ + 2, !.y = @ + 1]
         IN  a \in Built(N, Q) /\ a.created = b.created
<1> DEFINE title == Rect(b.id + 2, {}, 0, b.y, 24, 1)
           a == [b EXCEPT !.panels = @ \cup {title}, !.id = @ + 2, !.y = @ + 1]
<1>1. /\ b.id \in Int /\ b.y \in Int /\ b.created \in SUBSET N /\ b.panels \in SUBSET PanelSet(N, Q)
      /\ b = [id |-> b.id, y |-> b.y, created |-> b.created, panels |-> b.panels]
      /\ IsBuilt(b, Q)
  BY DEF Built
<1>2. /\ title \in PanelSet(N, Q) /\ title.id = b.id + 2 /\ title.y = b.y /\ title.h = 1
      /\ title.about = {}
  BY <1>1 DEF PanelSet, Rect
<1>0. a = [b EXCEPT !.panels = @ \cup {title}, !.id = @ + 2, !.y = @ + 1]
  OBVIOUS
<1> HIDE DEF title, a
<1>3. a = [id |-> b.id + 2, y |-> b.y + 1, created |-> b.created, panels |-> b.panels \cup {title}]
  BY <1>0, <1>1
<1>4. /\ a.id = b.id + 2 /\ a.y = b.y + 1 /\ a.created = b.created
      /\ a.panels = b.panels \cup {title}
      /\ a.id \in Int /\ a.y \in Int /\ b.id <= a.id /\ b.y <= a.y
  BY <1>1, <1>3
<1>5. a \in [id : Int, y : Int, created : SUBSET N, panels : SUBSET PanelSet(N, Q)]
  BY <1>1, <1>2, <1>3
<1>6. Above(b.panels, b.id, b.y)
  BY <1>1 DEF IsBuilt, Above
<1>7. Between({title}, b.id, b.y, a.id, a.y)
  BY <1>1, <1>2, <1>4 DEF Between, WellPlaced
<1>8. Above(a.panels, a.id, a.y)
  BY <1>1, <1>2, <1>4, <1>6, <1>7, PanelsBelow
<1>9. OneEach(a, Q)
  BY <1>1, <1>2, <1>4 DEF IsBuilt, OneEach
<1>10. IsFiniteSet(a.created)
  BY <1>1, <1>4 DEF IsBuilt
<1>11. a \in Built(N, Q)
  BY <1>5, <1>8, <1>9, <1>10 DEF Built, IsBuilt, Above
<1> QED
  BY <1>4, <1>11 DEF a, title

LEMMA RowIsAdded ==
  ASSUME NEW category, NEW N, NEW b \in Built(N, ToSet(Metrics(category))), NEW ips \in Seq(N)
  PROVE  LET a == WithRow(Metrics(category), b, ips)
         IN  /\ a \in Built(N, ToSet(Metrics(category)))
             /\ a.created = b.created \cup Named(ips)
<1> DEFINE metrics == Metrics(category)
           V == Built(N, ToSet(metrics))
           n == Len(ips)
           base == [b EXCEPT !.panels = @ \cup {Rect(b.id + 2, {}, 0, b.y, 24, 1)},
                             !.id = @ + 2, !.y = @ + 1]
           step == [i \in 1..n |-> [v \in V |-> WithNode(metrics, v, ips[i])]]
           fold == CHOOSE g : g = [T \in SUBSET DOMAIN ips |->
                     IF T = {} THEN base ELSE WithNode(metrics, g[T \ {Max(T)}], ips[Max(T)])]
<1>1. n \in Nat /\ DOMAIN ips = 1..n /\ \A i \in 1..n : ips[i] \in N
  OBVIOUS
<1>2. base \in V /\ base.created = b.created
  BY RowIsBegun
<1> HIDE DEF n, base
<1>3. ASSUME NEW v \in V, NEW i \in 1..n
      PROVE  /\ WithNode(metrics, v, ips[i]) \in V
             /\ WithNode(metrics, v, ips[i]).created = v.created \cup ({ips[i]} \ {Blank})
  BY <1>1, NodeIsAdded
<1>4. Named(ips) = {ips[i] : i \in 1..n} \ {Blank}
  BY <1>1 DEF Named, ToSet
<1> HIDE DEF metrics, V
<1>5. step \in [1..n -> [V -> V]]
  BY <1>3
<1>6. fold = [T \in SUBSET (1..n) |->
                IF T = {} THEN base ELSE WithNode(metrics, fold[T \ {Max(T)}], ips[Max(T)])]
  <2>1. PICK g : IsLeftFold(g, n, V, base, step)
    <3> HIDE DEF step
    <3> QED
      BY <1>1, <1>2, <1>5, LeftFoldExists
  <2>2. ASSUME NEW T \in SUBSET (1..n), T # {}
        PROVE  g[T] = WithNode(metrics, g[T \ {Max(T)}], ips[Max(T)])
    <3>1. Max(T) \in 1..n
      BY <1>1, <2>2, GreatestIndex
    <3>2. g[T] = step[Max(T)][g[T \ {Max(T)}]] /\ g[T \ {Max(T)}] \in V
      BY <2>1, <2>2 DEF IsLeftFold
    <3> QED
      BY <3>1, <3>2
  <2>3. g = [T \in SUBSET (1..n) |->
               IF T = {} THEN base ELSE WithNode(metrics, g[T \ {Max(T)}], ips[Max(T)])]
    BY <2>1, <2>2 DEF IsLeftFold
  <2> QED
    BY <1>1, <2>3, Zenon
<1>7. WithRow(metrics, b, ips) = IF ips = <<>> THEN b ELSE fold[DOMAIN ips]
  BY Zenon DEF WithRow, FoldLeft, MapThenFoldSet, base
<1> HIDE DEF fold, step
<1> DEFINE W == {k \in Nat : k <= n =>
                   /\ fold[1..k] \in V
                   /\ fold[1..k].created = b.created \cup ({ips[i] : i \in 1..k} \ {Blank})}
<1>8. 0 \in W
  <2>1. 1..0 = {} /\ fold[{}] = base
    BY <1>6
  <2> QED
    BY <1>2, <2>1
<1>9. ASSUME NEW k \in Nat, k \in W PROVE k + 1 \in W
  <2> SUFFICES ASSUME k + 1 <= n
               PROVE  /\ fold[1..(k + 1)] \in V
                      /\ fold[1..(k + 1)].created
                           = b.created \cup ({ips[i] : i \in 1..(k + 1)} \ {Blank})
    OBVIOUS
  <2> DEFINE T == 1..(k + 1)
  <2>1. /\ T \in SUBSET (1..n) /\ T # {} /\ k + 1 \in 1..n
        /\ Max(T) = k + 1 /\ T \ {k + 1} = 1..k
    <3>1. k \in 0..(n - 1)
      BY <1>1
    <3> QED
      BY <1>1, <3>1, InitialSegment
  <2>2. T = (1..k) \cup {k + 1}
    OBVIOUS
  <2> HIDE DEF T
  <2>3. fold[T] = WithNode(metrics, fold[1..k], ips[k + 1])
    BY <1>6, <2>1
  <2>4. fold[1..k] \in V
        /\ fold[1..k].created = b.created \cup ({ips[i] : i \in 1..k} \ {Blank})
    BY <1>1, <1>9
  <2>5. /\ fold[T] \in V
        /\ fold[T].created = fold[1..k].created \cup ({ips[k + 1]} \ {Blank})
    <3> DEFINE v == fold[1..k]
    <3>1. v \in V /\ fold[T] = WithNode(metrics, v, ips[k + 1]) /\ k + 1 \in 1..n
      BY <2>1, <2>3, <2>4
    <3> HIDE DEF v
    <3>2. /\ WithNode(metrics, v, ips[k + 1]) \in V
          /\ WithNode(metrics, v, ips[k + 1]).created = v.created \cup ({ips[k + 1]} \ {Blank})
      BY <1>3, <3>1
    <3> QED
      BY <3>1, <3>2 DEF v
  <2>6. {ips[i] : i \in T} = {ips[i] : i \in 1..k} \cup {ips[k + 1]}
    BY <2>2
  <2> QED
    BY <2>4, <2>5, <2>6 DEF T
<1> HIDE DEF W
<1>10. n \in W
  BY <1>1, <1>8, <1>9, NatsAreIn
<1>11. fold[DOMAIN ips] \in V /\ fold[DOMAIN ips].created = b.created \cup Named(ips)
  BY <1>1, <1>4, <1>10 DEF W
<1>12. ips = <<>> => Named(ips) = {}
  BY DEF Named, ToSet
<1> QED
  BY <1>7, <1>11, <1>12 DEF metrics, V

LEMMA BoardIsBegun ==
  ASSUME NEW N, NEW Q
  PROVE  [id |-> 10, y |-> 10, created |-> {}, panels |-> Template] \in Built(N, Q)
<1> DEFINE b == [id |-> 10, y |-> 10, created |-> {}, panels |-> Template]
<1>1. Template = {[id |-> 1, about |-> {}, x |-> 10, y |-> 0, w |-> 4, h |-> 2],
                  [id |-> 2, about |-> {}, x |-> 23, y |-> 0, w |-> 1, h |-> 2],
                  [id |-> 3, about |-> {}, x |-> 0, y |-> 2, w |-> 12, h |-> 8],
                  [id |-> 4, about |-> {}, x |-> 12, y |-> 2, w |-> 12, h |-> 8]}
  BY DEF Template, Rect
<1>2. Template \in SUBSET PanelSet(N, Q)
  BY <1>1 DEF PanelSet
<1>3. \A p \in Template : p.id <= 10 /\ p.y + p.h <= 10 /\ p.about = {}
  BY <1>1
<1>4. WellPlaced(Template)
  BY <1>1 DEF WellPlaced, Apart
<1>5. b.id = 10 /\ b.y = 10 /\ b.created = {} /\ b.panels = Template
  OBVIOUS
<1>6. b \in [id : Int, y : Int, created : SUBSET N, panels : SUBSET PanelSet(N, Q)]
  BY <1>2
<1> HIDE DEF b
<1>7. IsFiniteSet(b.created)
  BY <1>5, FS_EmptySet
<1>8. IsBuilt(b, Q)
  BY <1>3, <1>4, <1>5, <1>7 DEF IsBuilt, OneEach
<1>9. b \in Built(N, Q)
  BY <1>6, <1>8 DEF Built
<1> QED
  BY <1>9 DEF b

NodesOf(rows) == UNION {Named(rows[i]) : i \in DOMAIN rows}

\* A board has the panels of its rows.
LEMMA RowsAreAdded ==
  ASSUME NEW mode, NEW category, NEW part, NEW ls, NEW N, Rows(mode, part, ls) \in Seq(Seq(N))
  PROVE  \E b \in Built(N, ToSet(Metrics(category))) :
           /\ Panels(mode, category, part, ls) = b.panels
           /\ b.created = NodesOf(Rows(mode, part, ls))
<1> DEFINE metrics == Metrics(category)
           V == Built(N, ToSet(metrics))
           rows == Rows(mode, part, ls)
           n == Len(rows)
           base == [id |-> 10, y |-> 10, created |-> {}, panels |-> Template]
           step == [i \in 1..n |-> [v \in V |-> WithRow(metrics, v, rows[i])]]
           fold == CHOOSE g : g = [T \in SUBSET DOMAIN rows |->
                     IF T = {} THEN base ELSE WithRow(metrics, g[T \ {Max(T)}], rows[Max(T)])]
<1>1. Panels(mode, category, part, ls) = fold[DOMAIN rows].panels
  BY Zenon DEF Panels, FoldLeft, MapThenFoldSet
<1>2. base \in V /\ base.created = {}
  BY BoardIsBegun
<1> HIDE DEF base, rows
<1>3. n \in Nat /\ DOMAIN rows = 1..n /\ \A i \in 1..n : rows[i] \in Seq(N)
  BY DEF rows
<1> HIDE DEF n
<1>4. ASSUME NEW v \in V, NEW i \in 1..n
      PROVE  /\ WithRow(metrics, v, rows[i]) \in V
             /\ WithRow(metrics, v, rows[i]).created = v.created \cup Named(rows[i])
  BY <1>3, RowIsAdded
<1> HIDE DEF metrics, V
<1>5. step \in [1..n -> [V -> V]]
  BY <1>4
<1>6. fold = [T \in SUBSET (1..n) |->
                IF T = {} THEN base ELSE WithRow(metrics, fold[T \ {Max(T)}], rows[Max(T)])]
  <2>1. PICK g : IsLeftFold(g, n, V, base, step)
    <3> HIDE DEF step
    <3> QED
      BY <1>2, <1>3, <1>5, LeftFoldExists
  <2>2. ASSUME NEW T \in SUBSET (1..n), T # {}
        PROVE  g[T] = WithRow(metrics, g[T \ {Max(T)}], rows[Max(T)])
    <3>1. Max(T) \in 1..n
      BY <1>3, <2>2, GreatestIndex
    <3>2. g[T] = step[Max(T)][g[T \ {Max(T)}]] /\ g[T \ {Max(T)}] \in V
      BY <2>1, <2>2 DEF IsLeftFold
    <3> QED
      BY <3>1, <3>2
  <2>3. g = [T \in SUBSET (1..n) |->
               IF T = {} THEN base ELSE WithRow(metrics, g[T \ {Max(T)}], rows[Max(T)])]
    BY <2>1, <2>2 DEF IsLeftFold
  <2> QED
    BY <1>3, <2>3, Zenon
<1> HIDE DEF fold, step
<1> DEFINE W == {k \in Nat : k <= n => /\ fold[1..k] \in V
                                       /\ fold[1..k].created = UNION {Named(rows[i]) : i \in 1..k}}
<1>7. 0 \in W
  <2>1. 1..0 = {} /\ fold[{}] = base
    BY <1>6
  <2> QED
    BY <1>2, <2>1
<1>8. ASSUME NEW k \in Nat, k \in W PROVE k + 1 \in W
  <2> SUFFICES ASSUME k + 1 <= n
               PROVE  /\ fold[1..(k + 1)] \in V
                      /\ fold[1..(k + 1)].created = UNION {Named(rows[i]) : i \in 1..(k + 1)}
    OBVIOUS
  <2> DEFINE T == 1..(k + 1)
             v == fold[1..k]
  <2>1. /\ T \in SUBSET (1..n) /\ T # {} /\ k + 1 \in 1..n
        /\ Max(T) = k + 1 /\ T \ {k + 1} = 1..k
    <3>1. k \in 0..(n - 1)
      BY <1>3
    <3> QED
      BY <1>3, <3>1, InitialSegment
  <2>2. T = (1..k) \cup {k + 1}
    OBVIOUS
  <2> HIDE DEF T
  <2>3. fold[T] = WithRow(metrics, v, rows[k + 1])
    BY <1>6, <2>1
  <2>4. v \in V /\ v.created = UNION {Named(rows[i]) : i \in 1..k}
    <3>1. k <= n
      BY <1>3
    <3> QED
      BY <1>8, <3>1
  <2> HIDE DEF v
  <2>5. fold[T] \in V /\ fold[T].created = v.created \cup Named(rows[k + 1])
    BY <1>4, <2>1, <2>3, <2>4
  <2>6. UNION {Named(rows[i]) : i \in T} = (UNION {Named(rows[i]) : i \in 1..k}) \cup Named(rows[k + 1])
    <3> DEFINE A == {Named(rows[i]) : i \in T}
               B == {Named(rows[i]) : i \in 1..k}
               c == Named(rows[k + 1])
    <3>1. A = B \cup {c}
      BY <2>2
    <3> HIDE DEF A, B, c
    <3>2. UNION A = (UNION B) \cup c
      <4>1. \A z : z \in UNION A <=> \E d \in A : z \in d
        OBVIOUS
      <4>2. \A z : z \in UNION B <=> \E d \in B : z \in d
        OBVIOUS
      <4> QED
        BY <3>1, <4>1, <4>2
    <3> QED
      BY <3>2 DEF A, B, c
  <2> QED
    BY <2>4, <2>5, <2>6 DEF T
<1> HIDE DEF W
<1>9. n \in W
  BY <1>3, <1>7, <1>8, NatsAreIn
<1>10. /\ fold[DOMAIN rows] \in V
       /\ fold[DOMAIN rows].created = NodesOf(rows)
  <2>1. fold[1..n] \in V /\ fold[1..n].created = UNION {Named(rows[i]) : i \in 1..n}
    BY <1>3, <1>9 DEF W
  <2>2. DOMAIN rows = 1..n
    BY <1>3
  <2> HIDE DEF rows
  <2> QED
    BY <2>1, <2>2 DEF NodesOf
<1> QED
  BY <1>1, <1>10 DEF metrics, V, rows
-----------------------------------------------------------------------------
(* The rows. *)

LEMMA WithoutIs ==
  ASSUME NEW N, NEW list \in Seq(N), NEW other
  PROVE  /\ Without(list, other) \in Seq(N)
         /\ ToSet(Without(list, other)) = ToSet(list) \ ToSet(other)
<1> DEFINE V == Seq(N)
           n == Len(list)
           Next1(v, ip) == IF ip \in ToSet(other) THEN v ELSE Append(v, ip)
           step == [i \in 1..n |-> [v \in V |-> Next1(v, list[i])]]
           fold == CHOOSE g : g = [T \in SUBSET DOMAIN list |->
                     IF T = {} THEN <<>> ELSE Next1(g[T \ {Max(T)}], list[Max(T)])]
<1>1. Without(list, other) = fold[DOMAIN list]
  BY Zenon DEF Without, FoldLeft, MapThenFoldSet
<1>2. n \in Nat /\ DOMAIN list = 1..n /\ \A i \in 1..n : list[i] \in N
  OBVIOUS
<1>3. <<>> \in V /\ ToSet(<<>>) = {}
  BY DEF ToSet
<1> HIDE DEF n
<1>4. ASSUME NEW v \in V, NEW ip \in N
      PROVE  /\ Next1(v, ip) \in V
             /\ ToSet(Next1(v, ip)) = ToSet(v) \cup ({ip} \ ToSet(other))
  <2>1. CASE ip \in ToSet(other)
    BY <2>1
  <2>2. CASE ip \notin ToSet(other)
    <3> DEFINE a == Append(v, ip)
    <3>1. Next1(v, ip) = a
      BY <2>2
    <3>2. /\ a \in Seq(N) /\ Len(v) \in Nat /\ DOMAIN v = 1..Len(v)
          /\ DOMAIN a = 1..(Len(v) + 1) /\ a[Len(v) + 1] = ip
          /\ \A i \in 1..Len(v) : a[i] = v[i]
      OBVIOUS
    <3> HIDE DEF a
    <3>3. ToSet(a) = ToSet(v) \cup {ip}
      <4>1. ToSet(a) = {a[i] : i \in 1..(Len(v) + 1)} /\ ToSet(v) = {v[i] : i \in 1..Len(v)}
        BY <3>2 DEF ToSet
      <4>2. 1..(Len(v) + 1) = (1..Len(v)) \cup {Len(v) + 1}
        BY <3>2
      <4> QED
        BY <3>2, <4>1, <4>2
    <3> QED
      BY <2>2, <3>1, <3>2, <3>3
  <2> QED
    BY <2>1, <2>2
<1> HIDE DEF V, Next1
<1>5. step \in [1..n -> [V -> V]]
  BY <1>2, <1>4
<1>6. fold = [T \in SUBSET (1..n) |->
                IF T = {} THEN <<>> ELSE Next1(fold[T \ {Max(T)}], list[Max(T)])]
  <2>1. PICK g : IsLeftFold(g, n, V, <<>>, step)
    <3> HIDE DEF step
    <3> QED
      BY <1>2, <1>3, <1>5, LeftFoldExists
  <2>2. ASSUME NEW T \in SUBSET (1..n), T # {}
        PROVE  g[T] = Next1(g[T \ {Max(T)}], list[Max(T)])
    <3>1. Max(T) \in 1..n
      BY <1>2, <2>2, GreatestIndex
    <3>2. g[T] = step[Max(T)][g[T \ {Max(T)}]] /\ g[T \ {Max(T)}] \in V
      BY <2>1, <2>2 DEF IsLeftFold
    <3> QED
      BY <3>1, <3>2
  <2>3. g = [T \in SUBSET (1..n) |->
               IF T = {} THEN <<>> ELSE Next1(g[T \ {Max(T)}], list[Max(T)])]
    BY <2>1, <2>2 DEF IsLeftFold
  <2> QED
    BY <1>2, <2>3, Zenon
<1> HIDE DEF fold, step
<1> DEFINE W == {k \in Nat : k <= n =>
                   /\ fold[1..k] \in V
                   /\ ToSet(fold[1..k]) = {list[i] : i \in 1..k} \ ToSet(other)}
<1>7. 0 \in W
  <2>1. 1..0 = {} /\ fold[{}] = <<>>
    BY <1>6
  <2> QED
    BY <1>3, <2>1
<1>8. ASSUME NEW k \in Nat, k \in W PROVE k + 1 \in W
  <2> SUFFICES ASSUME k + 1 <= n
               PROVE  /\ fold[1..(k + 1)] \in V
                      /\ ToSet(fold[1..(k + 1)]) = {list[i] : i \in 1..(k + 1)} \ ToSet(other)
    OBVIOUS
  <2> DEFINE T == 1..(k + 1)
             v == fold[1..k]
  <2>1. /\ T \in SUBSET (1..n) /\ T # {} /\ k + 1 \in 1..n
        /\ Max(T) = k + 1 /\ T \ {k + 1} = 1..k
    <3>1. k \in 0..(n - 1)
      BY <1>2
    <3> QED
      BY <1>2, <3>1, InitialSegment
  <2>2. T = (1..k) \cup {k + 1}
    OBVIOUS
  <2> HIDE DEF T
  <2>3. fold[T] = Next1(v, list[k + 1])
    BY <1>6, <2>1
  <2>4. v \in V /\ ToSet(v) = {list[i] : i \in 1..k} \ ToSet(other)
    BY <1>2, <1>8
  <2> HIDE DEF v
  <2>5. fold[T] \in V /\ ToSet(fold[T]) = ToSet(v) \cup ({list[k + 1]} \ ToSet(other))
    BY <1>2, <1>4, <2>1, <2>3, <2>4
  <2>6. {list[i] : i \in T} = {list[i] : i \in 1..k} \cup {list[k + 1]}
    BY <2>2
  <2> QED
    BY <2>4, <2>5, <2>6 DEF T
<1> HIDE DEF W
<1>9. n \in W
  BY <1>2, <1>7, <1>8, NatsAreIn
<1>10. fold[DOMAIN list] \in V /\ ToSet(fold[DOMAIN list]) = ToSet(list) \ ToSet(other)
  <2>1. ToSet(list) = {list[i] : i \in 1..n}
    BY <1>2 DEF ToSet
  <2> QED
    BY <1>2, <1>9, <2>1 DEF W
<1> QED
  BY <1>1, <1>10 DEF V

IsLists(ls, mode) == \A f \in Files(mode) : ls[f] \in Seq(ToSet(ls[f]))
LinesOf(ls, mode) == UNION {ToSet(ls[f]) : f \in Files(mode)}

\* The rows of a dashboard are lists, and name the nodes it shows.
LEMMA RowsAre ==
  ASSUME NEW mode \in Mode, NEW part \in Parts, NEW ls, IsLists(ls, mode)
  PROVE  /\ Rows(mode, part, ls) \in Seq(Seq(LinesOf(ls, mode)))
         /\ NodesOf(Rows(mode, part, ls)) = Shown(mode, part, ls)
<1> DEFINE N == LinesOf(ls, mode)
           rows == Rows(mode, part, ls)
<1>1. ASSUME NEW f \in Files(mode) PROVE ls[f] \in Seq(N)
  <2> DEFINE l == ls[f]
  <2>1. l \in Seq(ToSet(l)) /\ ToSet(l) \subseteq N
    BY DEF IsLists, LinesOf
  <2> HIDE DEF l, N
  <2>2. Len(l) \in Nat /\ l = [i \in 1..Len(l) |-> l[i]] /\ \A i \in 1..Len(l) : l[i] \in ToSet(l)
    BY <2>1
  <2> QED
    BY <2>1, <2>2 DEF l
<1> HIDE DEF N
<1>2. CASE part = "service" /\ mode = "mainnet"
  <2> DEFINE l(n) == ls[Of(n)]
  <2>1. rows = [i \in DOMAIN Services |-> l(Services[i])]
    BY <1>2 DEF Rows
  <2>2. Services \in Seq(STRING) /\ DOMAIN Services = 1..Len(Services) /\ Len(Services) \in Nat
    BY ShardsAssumption
  <2>3. Service = {Services[i] : i \in 1..Len(Services)}
    BY <2>2 DEF Service, ToSet
  <2>4. \A n \in Service : l(n) \in Seq(N)
    BY <1>1, <1>2 DEF Files
  <2>5. Shown(mode, part, ls) = UNION {Named(l(n)) : n \in Service}
    BY <1>2 DEF Shown
  <2> HIDE DEF rows, l
  <2>6. rows \in Seq(Seq(N)) /\ DOMAIN rows = 1..Len(Services)
    BY <2>1, <2>2, <2>3, <2>4
  <2>7. {Named(rows[i]) : i \in DOMAIN rows} = {Named(l(n)) : n \in Service}
    BY <2>1, <2>2, <2>3, <2>6
  <2> QED
    BY <2>5, <2>6, <2>7 DEF rows, N, NodesOf
<1>3. CASE part = "service" /\ mode # "mainnet"
  <2>1. rows = <<>> /\ Shown(mode, part, ls) = {}
    BY <1>3 DEF Rows, Shown
  <2> HIDE DEF rows
  <2>2. rows \in Seq(Seq(N)) /\ DOMAIN rows = {}
    BY <2>1
  <2> QED
    BY <2>1, <2>2 DEF rows, N, NodesOf
<1>4. CASE part # "service"
  <2> DEFINE nodes == ls[Nodes(part)]
             dns == ls[Dns(part)]
             kept == Without(nodes, dns)
  <2>1. part \in Shard
    BY <1>4 DEF Parts
  <2>2. Nodes(part) \in Files(mode) /\ (mode = "mainnet" => Dns(part) \in Files(mode))
    BY <2>1 DEF Files
  <2>3. nodes \in Seq(N)
    BY <1>1, <2>2
  <2>4. CASE mode = "mainnet"
    <3>1. rows = <<dns, kept>>
      BY <1>4, <2>4 DEF Rows
    <3>2. Shown(mode, part, ls) = Named(nodes) \cup Named(dns)
      BY <1>4, <2>4 DEF Shown
    <3> HIDE DEF nodes, rows
    <3>3. dns \in Seq(N)
      BY <1>1, <2>2, <2>4
    <3> HIDE DEF dns
    <3>4. kept \in Seq(N) /\ ToSet(kept) = ToSet(nodes) \ ToSet(dns)
      BY <2>3, WithoutIs
    <3> HIDE DEF kept
    <3>5. rows \in Seq(Seq(N)) /\ DOMAIN rows = {1, 2} /\ rows[1] = dns /\ rows[2] = kept
      BY <3>1, <3>3, <3>4
    <3>6. UNION {Named(rows[i]) : i \in DOMAIN rows} = Named(dns) \cup Named(kept)
      <4>1. {Named(rows[i]) : i \in {1, 2}} = {Named(dns), Named(kept)}
        BY <3>5
      <4> QED
        BY <3>5, <4>1
    <3>7. Named(kept) = (ToSet(nodes) \ ToSet(dns)) \ {Blank}
      BY <3>4 DEF Named
    <3>8. Named(dns) \cup Named(kept) = Named(nodes) \cup Named(dns)
      <4>1. Named(dns) = ToSet(dns) \ {Blank} /\ Named(nodes) = ToSet(nodes) \ {Blank}
        BY DEF Named
      <4> QED
        BY <3>7, <4>1
    <3> QED
      BY <3>2, <3>5, <3>6, <3>8 DEF rows, N, NodesOf
  <2>5. CASE mode # "mainnet"
    <3>1. rows = <<nodes>>
      BY <1>4, <2>5 DEF Rows
    <3>2. Shown(mode, part, ls) = Named(nodes)
      BY <1>4, <2>5 DEF Shown
    <3> HIDE DEF nodes, rows
    <3>3. rows \in Seq(Seq(N)) /\ DOMAIN rows = {1} /\ rows[1] = nodes
      BY <2>3, <3>1
    <3>4. {Named(rows[i]) : i \in {1}} = {Named(nodes)}
      BY <3>3
    <3> QED
      BY <3>2, <3>3, <3>4 DEF rows, N, NodesOf
  <2> QED
    BY <2>4, <2>5
<1> QED
  BY <1>2, <1>3, <1>4

\* What PanelsWellPlaced says of one dashboard.
EachPlaced(panels, due) ==
  LET ofNodes == {p \in panels : p.about # {}}
  IN  /\ WellPlaced(panels)
      /\ UNION {p.about : p \in ofNodes} = due
      /\ Cardinality(ofNodes) = Cardinality(due)

LEMMA BoardIsWellPlaced ==
  ASSUME NEW mode \in Mode, NEW category, NEW part \in Parts, NEW ls, IsLists(ls, mode)
  PROVE  EachPlaced(Panels(mode, category, part, ls),
                    Shown(mode, part, ls) \X ToSet(Metrics(category)))
<1> DEFINE N == LinesOf(ls, mode)
           Q == ToSet(Metrics(category))
           panels == Panels(mode, category, part, ls)
           shown == Shown(mode, part, ls)
           ofNodes == {p \in panels : p.about # {}}
           due == shown \X Q
<1>1. PICK b \in Built(N, Q) : panels = b.panels /\ b.created = shown
  <2>1. Rows(mode, part, ls) \in Seq(Seq(N))
    BY RowsAre
  <2>2. \E b \in Built(N, Q) : panels = b.panels /\ b.created = NodesOf(Rows(mode, part, ls))
    <3> HIDE DEF N
    <3> QED
      BY <2>1, RowsAreAdded
  <2>3. NodesOf(Rows(mode, part, ls)) = shown
    BY RowsAre
  <2> HIDE DEF N, Q, panels, shown
  <2> QED
    BY <2>2, <2>3
<1>2. IsFiniteSet(Q)
  BY MetricsAre
<1> HIDE DEF N, Q, panels, shown
<1>3. IsFiniteSet(shown) /\ WellPlaced(panels) /\ OneEach(b, Q)
  BY <1>1 DEF Built, IsBuilt
<1>4. /\ \A p \in ofNodes : \E ip \in shown, q \in Q : p.about = {<<ip, q>>}
      /\ \A ip \in shown, q \in Q : \E p \in ofNodes : p.about = {<<ip, q>>}
      /\ \A p, r \in ofNodes : p.about = r.about => p = r
  BY <1>1, <1>3 DEF OneEach
<1> HIDE DEF ofNodes
<1>5. UNION {p.about : p \in ofNodes} = due
  <2>1. \A p \in ofNodes : p.about \subseteq due
    BY <1>4
  <2>2. \A d \in due : \E p \in ofNodes : d \in p.about
    BY <1>4
  <2> HIDE DEF due
  <2> QED
    BY <2>1, <2>2
<1>6. IsFiniteSet(due)
  BY <1>2, <1>3, FS_Product
<1> DEFINE of == [d \in due |-> CHOOSE p \in ofNodes : p.about = {d}]
<1>7. ASSUME NEW d \in due PROVE of[d] \in ofNodes /\ of[d].about = {d}
  <2>1. \E p \in ofNodes : p.about = {d}
    BY <1>4
  <2>2. of[d] = CHOOSE p \in ofNodes : p.about = {d}
    OBVIOUS
  <2> HIDE DEF of, due
  <2> QED
    BY <2>1, <2>2
<1>8. \A p \in ofNodes : \E d \in due : p.about = {d}
  BY <1>4
<1>9. of \in Bijection(due, ofNodes)
  <2>1. DOMAIN of = due /\ of \in [due -> ofNodes]
    BY <1>7
  <2> HIDE DEF of, due
  <2>2. \A d, e \in due : of[d] = of[e] => d = e
    <3> SUFFICES ASSUME NEW d \in due, NEW e \in due, of[d] = of[e] PROVE d = e
      OBVIOUS
    <3>1. {d} = {e}
      BY <1>7
    <3> QED
      BY <3>1
  <2>3. \A p \in ofNodes : \E d \in due : of[d] = p
    <3> SUFFICES ASSUME NEW p \in ofNodes PROVE \E d \in due : of[d] = p
      OBVIOUS
    <3>1. PICK d \in due : p.about = {d}
      BY <1>8
    <3>2. of[d] \in ofNodes /\ of[d].about = p.about
      BY <1>7, <3>1
    <3> QED
      BY <1>4, <3>2
  <2> QED
    BY <2>1, <2>2, <2>3 DEF Bijection, Injection, Surjection, IsInjective
<1> HIDE DEF of
<1>10. Cardinality(ofNodes) = Cardinality(due)
  <2> HIDE DEF due
  <2> QED
    BY <1>6, <1>9, FS_Bijection DEF ExistsBijection
<1> QED
  BY <1>3, <1>5, <1>10 DEF ofNodes, panels, shown, Q, EachPlaced

\* The lists there are, on GitHub and those a run has loaded.
ListsInv ==
  /\ nodedb = [m \in Mode |-> nodedb[m]] /\ \A m \in Mode : nodedb[m] \in Listings[m]
  /\ pc \in {"create", "get", "post"} => IsLists(lists, Head(turns))

LEMMA ListsInit == Init => ListsInv
BY UpdateAssumption DEF Init, ListsInv, Mode

LEMMA ListsStep ==
  ASSUME RunInv, ListsInv, [Next]_updateVars
  PROVE  ListsInv'
<1>1. ASSUME NEW mode \in Mode, Relist(mode) PROVE ListsInv'
  BY <1>1 DEF ListsInv, Relist, run
<1>2. ASSUME NEW bad, Download(bad) PROVE ListsInv'
  <2> DEFINE m == Head(turns)
  <2>1. m \in Mode
    BY <1>2 DEF RunInv, Download
  <2>2. /\ lists' = [f \in Files(m) |-> IF f \in bad THEN <<ErrorPage>> ELSE nodedb[m][f]]
        /\ UNCHANGED <<nodedb, turns>>
    BY <1>2 DEF Download, server
  <2>3. \A f \in Files(m) : nodedb[m][f] \in Seq(ToSet(nodedb[m][f]))
    BY <2>1, UpdateAssumption DEF ListsInv, Mode
  <2>4. <<ErrorPage>> \in Seq(ToSet(<<ErrorPage>>))
    <3> DEFINE l == <<ErrorPage>>
    <3>1. l[1] = ErrorPage /\ DOMAIN l = {1} /\ ToSet(l) = {l[i] : i \in DOMAIN l}
      BY DEF ToSet
    <3>2. ErrorPage \in ToSet(l)
      BY <3>1
    <3> QED
      BY <3>2
  <2>5. ASSUME NEW f \in Files(m) PROVE lists'[f] \in Seq(ToSet(lists'[f]))
    BY <2>2, <2>3, <2>4
  <2>6. IsLists(lists', Head(turns'))
    BY <2>2, <2>5 DEF IsLists
  <2> QED
    BY <2>2, <2>6 DEF ListsInv
<1>3. CASE Post
  BY <1>3 DEF Post, GoOn, ListsInv
<1>4. CASE GetError \/ Get \/ UNCHANGED updateVars \/ \E id \in BoardIds : Edit(id)
  BY <1>4 DEF GetError, Get, Edit, server, updateVars, run, ListsInv
<1>5. CASE \/ \E modes \in RunModes : Start(modes)
           \/ Create \/ FailToRead \/ Install \/ Tear \/ Die \/ RemoveDamaged
  BY <1>5 DEF Start, Create, FailToRead, Install, Tear, Die, RemoveDamaged, GiveUp, server, run, ListsInv
<1> QED
  BY <1>1, <1>2, <1>3, <1>4, <1>5 DEF Next, Step, GoesWrong, Others
-----------------------------------------------------------------------------
(* The theorems. *)

LEMMA UpdateInvariant == Spec => [](RunInv /\ FreshInv /\ LiveInv /\ UnseenInv)
<1>1. Init => RunInv /\ FreshInv /\ LiveInv /\ UnseenInv
  BY RunInit, FreshInit, UnseenInit
<1>2. RunInv /\ FreshInv /\ LiveInv /\ UnseenInv /\ [Next]_updateVars
      => (RunInv /\ FreshInv /\ LiveInv /\ UnseenInv)'
  BY RunStep, FreshStep, LiveStep, UnseenStep
<1> QED
  BY <1>1, <1>2, PTL DEF Spec

\* From an install on, until it is saved anew, a dashboard shows what the installed
\* configuration scrapes, unless a torn file had taken its targets: one
\* prometheus.yml for both networks and for all runs, those that died included,
\* copied at the end of a run, update_db_config.py:527-598, :757-765 and :784.
THEOREM LiveIsScraped == Spec => []ShownIsScraped
<1>1. LiveInv => ShownIsScraped
  BY DEF LiveInv, ShownIsScraped, Agrees
<1> QED
  BY <1>1, UpdateInvariant, PTL

\* A dashboard an operator saved between the script's read and its post is kept:
\* the version read and "overwrite": False, update_db_config.py:611-628.
THEOREM EditsAreKept == Spec => NoLostEdit
<1>1. UnseenInv /\ [Next]_updateVars
      => \A id \in unseen : boards'[id] # boards[id] => Edit(id)
  <2> SUFFICES ASSUME UnseenInv, [Next]_updateVars, NEW id \in unseen, boards'[id] # boards[id]
               PROVE  Edit(id)
    OBVIOUS
  <2>1. CASE Post
    <3>1. boards' = boards
      BY <2>1 DEF Post, Save, UnseenInv, Past
    <3> QED
      BY <3>1
  <2>2. ASSUME NEW other \in BoardIds, Edit(other) PROVE Edit(id)
    <3>1. boards' = [boards EXCEPT ![other] = [version |-> Saved(@.version), content |-> {}]]
      BY <2>2 DEF Edit
    <3>2. id = other
      BY <3>1 DEF UnseenInv
    <3> QED
      BY <2>2, <3>2
  <2> QED
    BY <2>1, <2>2
    DEF Next, Step, GoesWrong, Start, Download, Create, Tear, FailToRead, RemoveDamaged, Get, GetError,
        Install, Die, Others, Relist, updateVars, server
<1> QED
  BY <1>1, UpdateInvariant, PTL DEF Spec, NoLostEdit

\* No two panels of a posted dashboard share an id or a place and every node has
\* one of each metric: id_0, y_point and ip_created, update_db_config.py:163-236 and
\* :274-340, and the dns lines taken out of a shard's list, :144-148.
THEOREM PanelsArePlaced == Spec => []PanelsWellPlaced
<1>1. RunInv /\ ListsInv => PanelsWellPlaced
  <2> SUFFICES ASSUME RunInv, ListsInv, pc = "post" PROVE PanelsWellPlaced
    BY DEF PanelsWellPlaced
  <2> DEFINE id == Head(todo)
             mode == id[1]
             part == id[3]
  <2>1. id \in IdsOf(Head(turns)) /\ Head(turns) \in Mode
    BY DEF RunInv
  <2>2. mode = Head(turns) /\ part \in Parts
    BY <2>1 DEF IdsOf
  <2>3. mode \in Mode /\ IsLists(lists, mode)
    BY <2>1, <2>2 DEF ListsInv
  <2>4. Content(id).shown = Shown(mode, part, lists)
    BY DEF Content, Board
  <2> HIDE DEF id
  <2>5. EachPlaced(Panels(mode, id[2], part, lists), Content(id).shown \X ToSet(Metrics(id[2])))
    BY <2>2, <2>3, <2>4, BoardIsWellPlaced
  <2> QED
    BY <2>5, Zenon DEF PanelsWellPlaced, EachPlaced, id
<1>2. ListsInv /\ RunInv /\ [Next]_updateVars => ListsInv'
  BY ListsStep
<1> QED
  BY <1>1, <1>2, ListsInit, UpdateInvariant, PTL DEF Spec
=============================================================================
