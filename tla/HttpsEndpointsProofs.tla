------------------------ MODULE HttpsEndpointsProofs ------------------------
(* The wiring of the endpoints, for every number of shards, every set of     *)
(* explorers and every number of failures.                                   *)
EXTENDS HttpsEndpoints, SequenceTheorems, TLAPS

Group == {Https(s) : s \in Shard} \cup {Wss(s) : s \in Shard}
Record == UNION {Records(s) : s \in Shard}

\* Where the script is decides what its memory is of: the list of groups is
\* the current shard's from the creation of the groups on, the zone from the
\* creation of the balancer on. A second group, if any, is the wss one.
HttpsGroupOf(s) == Len(tgarn) <= 1 /\ (tgarn # <<>> => tgarn[1] = Https(s))
GroupsOf(s) ==
  /\ tgarn # <<>> => tgarn[1] \in {Https(s), Wss(s)}
  /\ Len(tgarn) = 2 => tgarn[2] = Wss(s)

MemoryInv ==
  /\ shard \in Shard
  /\ tgarn \in Seq(Group)
  /\ pc = "tgwss" => HttpsGroupOf(shard)
  /\ pc \in {"elb", "listener", "rule"} => GroupsOf(shard)
  /\ pc \in {"listener", "rule", "register", "dns"} => hostedZone \in {None, shard}
  /\ pc = "dns" => todo \subseteq Records(shard)

\* Every shard has a place for its listener, rule and records.
Places ==
  /\ DOMAIN listeners = Shard /\ listeners = [s \in Shard |-> listeners[s]]
  /\ DOMAIN rules = Shard /\ rules = [s \in Shard |-> rules[s]]
  /\ DOMAIN dns = Record /\ dns = [r \in Record |-> dns[r]]

Wiring == Places /\ OwnShardOnly /\ RuleForwardsToWss
-----------------------------------------------------------------------------
\* A record belongs to one shard only.
LEMMA RecordsDisjoint ==
  ASSUME NEW s \in Shard, NEW t \in Shard, NEW r \in Records(s), r \in Records(t)
  PROVE  s = t
BY DEF Records

LEMMA WiringInit == Init => MemoryInv /\ Wiring
<1> SUFFICES ASSUME Init PROVE MemoryInv /\ Wiring
  OBVIOUS
<1>1. Places
  <2>1. DOMAIN listeners = Shard /\ DOMAIN rules = Shard /\ DOMAIN dns = Record
    BY DEF Init, Record
  <2> QED
    BY <2>1 DEF Init, Places, Record
<1>2. MemoryInv
  BY EndpointAssumption DEF Init, Shard, MemoryInv
<1>3. ASSUME NEW s \in Shard, NEW r \in Records(s) PROVE dns[r] = None
  BY <1>3 DEF Init
<1>4. OwnShardOnly /\ RuleForwardsToWss
  BY <1>3 DEF Init, OwnShardOnly, RuleForwardsToWss
<1> QED
  BY <1>1, <1>2, <1>4 DEF Wiring

\* What the creation of the https group, failed or not, leaves in the list.
LEMMA HttpsCreated ==
  ASSUME NEW s \in Shard, tgarn' = <<Https(s)>> \/ tgarn' = <<>>
  PROVE  tgarn' \in Seq(Group) /\ HttpsGroupOf(s)'
<1>1. Https(s) \in Group
  BY DEF Group
<1>2. <<Https(s)>> \in Seq(Group) /\ Len(<<Https(s)>>) = 1 /\ <<Https(s)>>[1] = Https(s)
  BY <1>1
<1>3. <<>> \in Seq(Group) /\ Len(<<>>) = 0
  BY EmptySeq
<1>4. CASE tgarn' = <<Https(s)>>
  BY <1>2, <1>4 DEF HttpsGroupOf
<1>5. CASE tgarn' = <<>>
  BY <1>3, <1>5 DEF HttpsGroupOf
<1> QED
  BY <1>4, <1>5

\* And that of the wss group after it.
LEMMA WssCreated ==
  ASSUME tgarn \in Seq(Group), NEW s \in Shard, HttpsGroupOf(s),
         tgarn' = Append(tgarn, Wss(s)) \/ tgarn' = tgarn
  PROVE  tgarn' \in Seq(Group) /\ GroupsOf(s)'
<1>1. Wss(s) \in Group
  BY DEF Group
<1>2. CASE tgarn' = tgarn
  BY <1>2 DEF GroupsOf, HttpsGroupOf
<1>3. CASE tgarn' = Append(tgarn, Wss(s))
  <2>1. /\ tgarn' \in Seq(Group) /\ Len(tgarn') = Len(tgarn) + 1
        /\ \A i \in 1..Len(tgarn) : tgarn'[i] = tgarn[i]
        /\ tgarn'[Len(tgarn) + 1] = Wss(s)
    BY <1>1, <1>3
  <2>2. CASE tgarn = <<>>
    BY <2>1, <2>2 DEF GroupsOf
  <2>3. CASE tgarn # <<>>
    <3>1. Len(tgarn) \in Nat \ {0}
      BY <2>3, EmptySeq, Zenon
    <3> QED
      BY <2>1, <2>3, <3>1 DEF GroupsOf, HttpsGroupOf
  <2> QED
    BY <2>2, <2>3
<1> QED
  BY <1>2, <1>3

\* Every step keeps the memory the current shard's.
LEMMA MemoryInductive == MemoryInv /\ [Next]_endpointVars => MemoryInv'
<1> SUFFICES ASSUME MemoryInv, [Next]_endpointVars PROVE MemoryInv'
  OBVIOUS
<1>1. CASE Start
  BY <1>1, EndpointAssumption DEF Start, Shard, MemoryInv
<1>2. ASSUME NEW ok \in BOOLEAN,
             LookUp(ok) \/ FindCertificate(ok) \/ RequestCertificate(ok)
      PROVE  MemoryInv'
  BY <1>2 DEF LookUp, FindCertificate, RequestCertificate, MemoryInv, memory
<1>3. ASSUME NEW ok \in BOOLEAN, CreateHttpsGroup(ok) PROVE MemoryInv'
  <2>1. tgarn' = <<Https(shard)>> \/ tgarn' = <<>>
    BY <1>3 DEF CreateHttpsGroup
  <2>2. shard \in Shard /\ shard' = shard /\ pc' = "tgwss"
    BY <1>3 DEF CreateHttpsGroup, MemoryInv
  <2>3. tgarn' \in Seq(Group) /\ HttpsGroupOf(shard)'
    BY <2>1, <2>2, HttpsCreated DEF HttpsGroupOf
  <2> QED
    BY <2>2, <2>3 DEF MemoryInv
<1>4. ASSUME NEW ok \in BOOLEAN, CreateWssGroup(ok) PROVE MemoryInv'
  <2>1. tgarn' = Append(tgarn, Wss(shard)) \/ tgarn' = tgarn
    BY <1>4 DEF CreateWssGroup
  <2>2. shard \in Shard /\ shard' = shard /\ pc' = "elb" /\ HttpsGroupOf(shard)
        /\ tgarn \in Seq(Group)
    BY <1>4 DEF CreateWssGroup, MemoryInv
  <2>3. tgarn' \in Seq(Group) /\ GroupsOf(shard)'
    BY <2>1, <2>2, WssCreated DEF GroupsOf
  <2> QED
    BY <2>2, <2>3 DEF MemoryInv
<1>5. ASSUME NEW ok \in BOOLEAN, CreateBalancer(ok) PROVE MemoryInv'
  BY <1>5 DEF CreateBalancer, MemoryInv, GroupsOf
<1>6. ASSUME NEW ok \in BOOLEAN, CreateListener(ok) PROVE MemoryInv'
  BY <1>6 DEF CreateListener, MemoryInv, GroupsOf
<1>7. ASSUME NEW ok \in BOOLEAN, CreateRule(ok) PROVE MemoryInv'
  BY <1>7 DEF CreateRule, MemoryInv, memory
<1>8. ASSUME NEW e \in todo, NEW ok1 \in BOOLEAN, NEW ok2 \in BOOLEAN, Register(e, ok1, ok2)
      PROVE  MemoryInv'
  BY <1>8 DEF Register, MemoryInv, memory
<1>9. CASE Registered
  BY <1>9 DEF Registered, MemoryInv, memory
<1>10. ASSUME NEW r \in todo, NEW ok \in BOOLEAN, CreateRecord(r, ok) PROVE MemoryInv'
  BY <1>10 DEF CreateRecord, MemoryInv, memory
<1>11. CASE NextShard
  BY <1>11, EndpointAssumption DEF NextShard, MemoryInv, memory, Shard
<1>12. ASSUME NEW s \in Shard, Validate(s) PROVE MemoryInv'
  BY <1>12 DEF Validate, MemoryInv, memory, HttpsGroupOf, GroupsOf
<1>13. CASE UNCHANGED endpointVars
  BY <1>13 DEF endpointVars, MemoryInv, memory, HttpsGroupOf, GroupsOf
<1> QED
  BY <1>1, <1>2, <1>3, <1>4, <1>5, <1>6, <1>7, <1>8, <1>9, <1>10, <1>11, <1>12, <1>13
     DEF Next, Step

\* Only three steps wire anything.
LEMMA WiringInductive == MemoryInv /\ Wiring /\ [Next]_endpointVars => Wiring'
<1> SUFFICES ASSUME MemoryInv, Wiring, [Next]_endpointVars PROVE Wiring'
  OBVIOUS
<1>1. CASE UNCHANGED <<listeners, rules, dns>>
  BY <1>1 DEF Wiring, Places, OwnShardOnly, RuleForwardsToWss
<1>2. ASSUME NEW ok \in BOOLEAN, CreateListener(ok) PROVE Wiring'
  <2>1. CASE UNCHANGED listeners
    BY <1>1, <1>2, <2>1 DEF CreateListener
  <2>2. CASE ~UNCHANGED listeners
    <3>1. /\ tgarn[1] \in {Https(shard), Wss(shard)}
          /\ listeners' = [listeners EXCEPT ![shard] = tgarn[1]]
          /\ UNCHANGED <<rules, dns>>
      BY <1>2, <2>2 DEF CreateListener, ListenerAccepted, MemoryInv, GroupsOf
    <3> QED
      BY <3>1 DEF Wiring, Places, OwnShardOnly, RuleForwardsToWss
  <2> QED
    BY <2>1, <2>2
<1>3. ASSUME NEW ok \in BOOLEAN, CreateRule(ok) PROVE Wiring'
  <2>1. CASE UNCHANGED rules
    BY <1>1, <1>3, <2>1 DEF CreateRule
  <2>2. CASE ~UNCHANGED rules
    <3>1. /\ tgarn[2] = Wss(shard)
          /\ rules' = [rules EXCEPT ![shard] = tgarn[2]]
          /\ UNCHANGED <<listeners, dns>>
      BY <1>3, <2>2 DEF CreateRule, MemoryInv, GroupsOf
    <3> QED
      BY <3>1 DEF Wiring, Places, OwnShardOnly, RuleForwardsToWss
  <2> QED
    BY <2>1, <2>2
<1>4. ASSUME NEW r \in todo, NEW ok \in BOOLEAN, CreateRecord(r, ok) PROVE Wiring'
  <2>1. CASE UNCHANGED dns
    BY <1>1, <1>4, <2>1 DEF CreateRecord
  <2>2. CASE ~UNCHANGED dns
    <3>1. /\ shard \in Shard /\ r \in Records(shard) /\ hostedZone = shard
          /\ dns' = [dns EXCEPT ![r] = shard]
          /\ UNCHANGED <<listeners, rules>>
      BY <1>4, <2>2 DEF CreateRecord, MemoryInv
    <3>2. ASSUME NEW s \in Shard, NEW q \in Records(s) PROVE dns'[q] \in {None, s}
      <4>1. q \in Record
        BY DEF Record
      <4>2. CASE q = r
        <5>1. s = shard
          BY <3>1, <4>2, RecordsDisjoint
        <5> QED
          BY <3>1, <4>1, <4>2, <5>1 DEF Wiring, Places
      <4>3. CASE q # r
        BY <3>1, <4>1, <4>3 DEF Wiring, Places, OwnShardOnly
      <4> QED
        BY <4>2, <4>3
    <3>3. Places'
      BY <3>1 DEF Wiring, Places
    <3> QED
      BY <3>1, <3>2, <3>3 DEF Wiring, OwnShardOnly, RuleForwardsToWss
  <2> QED
    BY <2>1, <2>2
<1>5. CASE Start \/ Registered \/ NextShard
  BY <1>1, <1>5 DEF Start, Registered, NextShard, aws
<1>6. ASSUME NEW ok \in BOOLEAN,
             \/ LookUp(ok) \/ FindCertificate(ok) \/ RequestCertificate(ok)
             \/ CreateHttpsGroup(ok) \/ CreateWssGroup(ok) \/ CreateBalancer(ok)
      PROVE  Wiring'
  BY <1>1, <1>6 DEF LookUp, FindCertificate, RequestCertificate, CreateHttpsGroup,
     CreateWssGroup, CreateBalancer, aws
<1>7. ASSUME NEW e \in todo, NEW ok1 \in BOOLEAN, NEW ok2 \in BOOLEAN, Register(e, ok1, ok2)
      PROVE  Wiring'
  BY <1>1, <1>7 DEF Register
<1>8. ASSUME NEW s \in Shard, Validate(s) PROVE Wiring'
  BY <1>1, <1>8 DEF Validate
<1>9. CASE UNCHANGED endpointVars
  BY <1>1, <1>9 DEF endpointVars, aws
<1> QED
  BY <1>2, <1>3, <1>4, <1>5, <1>6, <1>7, <1>8, <1>9 DEF Next, Step
-----------------------------------------------------------------------------
\* Whatever fails, no resource of a shard is wired to one of another: the
\* dictionaries of main.py, keyed by a region the shards share, never carry a
\* resource from one shard to the next.
THEOREM ShardsStayApart == Spec => []OwnShardOnly
<1>1. MemoryInv /\ Wiring /\ [Next]_endpointVars => MemoryInv' /\ Wiring'
  BY MemoryInductive, WiringInductive
<1>2. Wiring => OwnShardOnly
  BY DEF Wiring
<1> QED
  BY <1>1, <1>2, WiringInit, PTL DEF Spec

\* Whatever fails, the ws host is never forwarded to the https group although
\* creation_rule.py takes its group by position.
THEOREM WsHostIsForwardedToWss == Spec => []RuleForwardsToWss
<1>1. MemoryInv /\ Wiring /\ [Next]_endpointVars => MemoryInv' /\ Wiring'
  BY MemoryInductive, WiringInductive
<1>2. Wiring => RuleForwardsToWss
  BY DEF Wiring
<1> QED
  BY <1>1, <1>2, WiringInit, PTL DEF Spec

LEMMA GroupsAreNotNothing ==
  ASSUME NEW s \in Shard
  PROVE  Https(s) # Nothing /\ Wss(s) # Nothing
<1>1. Len(<<s, "https">>) = 2 /\ Len(<<s, "wss">>) = 2 /\ Len(<<>>) = 0
  OBVIOUS
<1> QED
  BY <1>1 DEF Https, Wss, Nothing

LEMMA CompleteStep ==
  ASSUME MemoryInv, Wiring, [Next]_endpointVars, NEW s \in Shard, Complete(s)
  PROVE  Complete(s)'
<1>1. CASE UNCHANGED <<listeners, rules, dns, targets>>
  BY <1>1 DEF Complete
<1>2. ASSUME NEW ok \in BOOLEAN, CreateListener(ok) PROVE Complete(s)'
  <2>1. listeners'[s] = listeners[s]
    <3>1. CASE UNCHANGED listeners
      BY <3>1
    <3>2. CASE ~UNCHANGED listeners
      <4>1. /\ listeners[shard] \in {Nothing, tgarn[1]}
            /\ listeners' = [listeners EXCEPT ![shard] = tgarn[1]]
        BY <1>2, <3>2 DEF CreateListener, ListenerAccepted
      <4>2. listeners[s] # Nothing
        BY GroupsAreNotNothing DEF Complete
      <4> QED
        BY <4>1, <4>2 DEF Wiring, Places
    <3> QED
      BY <3>1, <3>2
  <2> QED
    BY <1>2, <2>1 DEF CreateListener, Complete
<1>3. ASSUME NEW ok \in BOOLEAN, CreateRule(ok) PROVE Complete(s)'
  <2>1. rules'[s] = rules[s]
    <3>1. CASE UNCHANGED rules
      BY <3>1
    <3>2. CASE ~UNCHANGED rules
      <4>1. /\ rules[shard] = Nothing
            /\ rules' = [rules EXCEPT ![shard] = tgarn[2]]
        BY <1>3, <3>2 DEF CreateRule
      <4>2. rules[s] # Nothing
        BY GroupsAreNotNothing DEF Complete
      <4> QED
        BY <4>1, <4>2 DEF Wiring, Places
    <3> QED
      BY <3>1, <3>2
  <2> QED
    BY <1>3, <2>1 DEF CreateRule, Complete
<1>4. ASSUME NEW e \in todo, NEW ok1 \in BOOLEAN, NEW ok2 \in BOOLEAN, Register(e, ok1, ok2)
      PROVE  Complete(s)'
  <2>1. targets \subseteq targets' /\ UNCHANGED <<listeners, rules, dns>>
    BY <1>4 DEF Register
  <2> QED
    BY <2>1 DEF Complete
<1>5. ASSUME NEW r \in todo, NEW ok \in BOOLEAN, CreateRecord(r, ok) PROVE Complete(s)'
  <2>1. CASE UNCHANGED dns
    BY <1>1, <1>5, <2>1 DEF CreateRecord
  <2>2. CASE ~UNCHANGED dns
    <3>1. /\ shard \in Shard /\ r \in Records(shard) /\ hostedZone = shard
          /\ dns' = [dns EXCEPT ![r] = shard]
          /\ UNCHANGED <<listeners, rules, targets>>
      BY <1>5, <2>2 DEF CreateRecord, MemoryInv
    <3>2. ASSUME NEW q \in Records(s) PROVE dns'[q] = s
      <4>1. q \in Record
        BY DEF Record
      <4>2. CASE q = r
        <5>1. s = shard
          BY <3>1, <4>2, RecordsDisjoint
        <5> QED
          BY <3>1, <4>1, <4>2, <5>1 DEF Wiring, Places
      <4>3. CASE q # r
        BY <3>1, <4>1, <4>3 DEF Wiring, Places, Complete
      <4> QED
        BY <4>2, <4>3
    <3> QED
      BY <3>1, <3>2 DEF Complete
  <2> QED
    BY <2>1, <2>2
<1>6. CASE Start \/ Registered \/ NextShard
  BY <1>1, <1>6 DEF Start, Registered, NextShard, aws
<1>7. ASSUME NEW ok \in BOOLEAN,
             \/ LookUp(ok) \/ FindCertificate(ok) \/ RequestCertificate(ok)
             \/ CreateHttpsGroup(ok) \/ CreateWssGroup(ok) \/ CreateBalancer(ok)
      PROVE  Complete(s)'
  BY <1>1, <1>7 DEF LookUp, FindCertificate, RequestCertificate, CreateHttpsGroup,
     CreateWssGroup, CreateBalancer, aws
<1>8. ASSUME NEW t \in Shard, Validate(t) PROVE Complete(s)'
  BY <1>1, <1>8 DEF Validate
<1>9. CASE UNCHANGED endpointVars
  BY <1>1, <1>9 DEF endpointVars, aws
<1> QED
  BY <1>2, <1>3, <1>4, <1>5, <1>6, <1>7, <1>8, <1>9 DEF Next, Step

\* An endpoint that works goes on working, whatever fails in a later run: what
\* is there already is refused or left as it is, and a record is written again
\* with the zone of its own shard.
THEOREM WorkingStaysWorking == Spec => StaysComplete
<1>1. MemoryInv /\ Wiring /\ [Next]_endpointVars => MemoryInv' /\ Wiring'
  BY MemoryInductive, WiringInductive
<1>2. MemoryInv /\ Wiring /\ [Next]_endpointVars
        => [\A s \in Shard : Complete(s) => Complete(s)']_endpointVars
  BY CompleteStep
<1> QED
  BY <1>1, <1>2, WiringInit, PTL DEF Spec, StaysComplete
=============================================================================
