--------------------------- MODULE HttpsEndpoints ---------------------------
(***************************************************************************)
(* devops/create_https_wss_endpoints_aws: the pipeline that creates, shard *)
(* by shard, the certificate, target groups, load balancer, listener, rule *)
(* and DNS records of an endpoint. Every call to AWS may fail; the script  *)
(* prints the error and goes on with what it has, and is run again.        *)
(* Resources are named by their shard, which stands for their ARN.         *)
(***************************************************************************)
EXTENDS Integers, Sequences

CONSTANTS NUM_OF_SHARDS,
          Explorer,      \* the explorer nodes of a shard
          MaxFailures    \* bound: calls that fail though they need not

ASSUME EndpointAssumption ==
  NUM_OF_SHARDS \in Nat \ {0} /\ MaxFailures \in Nat

VARIABLES
  certs, groups, targets, balancers, listeners, rules, dns,      \* AWS
  pc, shard,                                                     \* the script
  sslcerts, tgarn, hostedZone, listenerArn,   \* its dict_region_* and results
  todo,                                       \* turns left of a loop
  failures

aws    == <<certs, groups, targets, balancers, listeners, rules, dns>>
memory == <<sslcerts, tgarn, hostedZone, listenerArn>>
endpointVars == <<aws, pc, shard, memory, todo, failures>>

Shard == 0..(NUM_OF_SHARDS - 1)
Https(s) == <<s, "https">>
Wss(s)   == <<s, "wss">>
Nothing  == <<>>
Records(s) == {<<"api", s>>, <<"ws", s>>}
Target(g, e, port) == [group |-> g, node |-> e, port |-> port]
None == -1                         \* Python's None, of a result
-----------------------------------------------------------------------------
Init ==
  /\ certs = [s \in Shard |-> "none"]
  /\ groups = {} /\ targets = {} /\ balancers = {}
  /\ listeners = [s \in Shard |-> Nothing] /\ rules = [s \in Shard |-> Nothing]
  /\ dns = [r \in UNION {Records(s) : s \in Shard} |-> None]
  /\ pc = "down" /\ shard = 0
  /\ sslcerts = <<>> /\ tgarn = <<>> /\ hostedZone = None /\ listenerArn = <<>>
  /\ todo = {} /\ failures = 0

\* main.py is run, by hand, as often as it takes.
Start ==
  /\ pc = "down"
  /\ pc' = "lookup" /\ shard' = 0
  /\ sslcerts' = <<>> /\ tgarn' = <<>> /\ hostedZone' = None /\ listenerArn' = <<>>
  /\ UNCHANGED <<aws, todo, failures>>

\* A call succeeds or, while the bound lasts, fails.
Outcome(ok) == /\ ok \/ failures < MaxFailures
               /\ failures' = IF ok THEN failures ELSE failures + 1

\* Region and instance ids of the explorers; not caught by anything.
LookUp(ok) ==
  /\ pc = "lookup" /\ Outcome(ok)
  /\ pc' = IF ok THEN "findcert" ELSE "down"
  /\ UNCHANGED <<aws, shard, memory, todo>>

\* get_existing_certs answers None on an error, and main.py indexes it.
FindCertificate(ok) ==
  /\ pc = "findcert" /\ Outcome(ok)
  /\ IF ~ok THEN pc' = "down" /\ UNCHANGED sslcerts
     ELSE IF certs[shard] # "none" THEN pc' = "tghttps" /\ sslcerts' = <<shard>>
     ELSE pc' = "requestcert" /\ sslcerts' = <<>>
  /\ UNCHANGED <<aws, shard, tgarn, hostedZone, listenerArn, todo>>

RequestCertificate(ok) ==
  /\ pc = "requestcert" /\ Outcome(ok)
  /\ certs' = IF ok THEN [certs EXCEPT ![shard] = "pending"] ELSE certs
  /\ sslcerts' = IF ok THEN <<shard>> ELSE <<>>
  /\ pc' = "tghttps"
  /\ UNCHANGED <<groups, targets, balancers, listeners, rules, dns, shard,
                 tgarn, hostedZone, listenerArn, todo>>

\* Mutant: dict_region_tgarn is not cleared for the next shard.
CreateHttpsGroupNoClear(ok) ==
  /\ pc = "tghttps" /\ Outcome(ok)
  /\ groups' = IF ok THEN groups \cup {Https(shard)} ELSE groups
  /\ tgarn' = IF ok THEN Append(tgarn, Https(shard)) ELSE tgarn
  /\ pc' = "tgwss"
  /\ UNCHANGED <<certs, targets, balancers, listeners, rules, dns, shard,
                 sslcerts, hostedZone, listenerArn, todo>>

\* The list of target groups starts empty for every shard and gets a group
\* when its creation succeeds: its first one need not be the https one.
CreateHttpsGroup(ok) ==
  /\ pc = "tghttps" /\ Outcome(ok)
  /\ groups' = IF ok THEN groups \cup {Https(shard)} ELSE groups
  /\ tgarn' = IF ok THEN <<Https(shard)>> ELSE <<>>
  /\ pc' = "tgwss"
  /\ UNCHANGED <<certs, targets, balancers, listeners, rules, dns, shard,
                 sslcerts, hostedZone, listenerArn, todo>>

CreateWssGroup(ok) ==
  /\ pc = "tgwss" /\ Outcome(ok)
  /\ groups' = IF ok THEN groups \cup {Wss(shard)} ELSE groups
  /\ tgarn' = IF ok THEN Append(tgarn, Wss(shard)) ELSE tgarn
  /\ pc' = "elb"
  /\ UNCHANGED <<certs, targets, balancers, listeners, rules, dns, shard,
                 sslcerts, hostedZone, listenerArn, todo>>

CreateBalancer(ok) ==
  /\ pc = "elb" /\ Outcome(ok)
  /\ balancers' = IF ok THEN balancers \cup {shard} ELSE balancers
  /\ hostedZone' = IF ok THEN shard ELSE None
  /\ pc' = "listener"
  /\ UNCHANGED <<certs, groups, targets, listeners, rules, dns, shard, sslcerts,
                 tgarn, listenerArn, todo>>

\* AWS refuses a certificate not issued, and a second listener on the port
\* unless it is the same; a missing first element raises IndexError.
ListenerAccepted ==
  /\ hostedZone # None /\ sslcerts # <<>> /\ tgarn # <<>>
  /\ certs[shard] = "issued"
  /\ listeners[shard] \in {Nothing, tgarn[1]}

\* Mutants of CreateListener: an existing listener is changed to the new
\* target group; the ARN of a listener that existed is not taken.
CreateListenerModifies(ok) ==
  /\ pc = "listener" /\ Outcome(ok)
  /\ IF ok /\ hostedZone # None /\ sslcerts # <<>> /\ tgarn # <<>> /\ certs[shard] = "issued"
     THEN listeners' = [listeners EXCEPT ![shard] = tgarn[1]] /\ listenerArn' = <<shard>>
     ELSE listenerArn' = <<>> /\ UNCHANGED listeners
  /\ pc' = "rule"
  /\ UNCHANGED <<certs, groups, targets, balancers, rules, dns, shard, sslcerts,
                 tgarn, hostedZone, todo>>
CreateListenerNewOnly(ok) ==
  /\ pc = "listener" /\ Outcome(ok)
  /\ IF ok /\ ListenerAccepted /\ listeners[shard] = Nothing
     THEN listeners' = [listeners EXCEPT ![shard] = tgarn[1]] /\ listenerArn' = <<shard>>
     ELSE listenerArn' = <<>> /\ UNCHANGED listeners
  /\ pc' = "rule"
  /\ UNCHANGED <<certs, groups, targets, balancers, rules, dns, shard, sslcerts,
                 tgarn, hostedZone, todo>>

CreateListener(ok) ==
  /\ pc = "listener" /\ Outcome(ok)
  /\ IF ok /\ ListenerAccepted
     THEN listeners' = [listeners EXCEPT ![shard] = tgarn[1]] /\ listenerArn' = <<shard>>
     ELSE listenerArn' = <<>> /\ UNCHANGED listeners
  /\ pc' = "rule"
  /\ UNCHANGED <<certs, groups, targets, balancers, rules, dns, shard, sslcerts,
                 tgarn, hostedZone, todo>>

\* Mutant: the rule for the ws host forwards to the first group.
CreateRuleFirst(ok) ==
  /\ pc = "rule" /\ Outcome(ok)
  /\ rules' = IF ok /\ listenerArn # <<>> /\ tgarn # <<>> /\ rules[shard] = Nothing
              THEN [rules EXCEPT ![shard] = tgarn[1]] ELSE rules
  /\ pc' = "register" /\ todo' = Explorer
  /\ UNCHANGED <<certs, groups, targets, balancers, listeners, dns, shard, memory>>

\* AWS refuses a second rule of the same priority.
CreateRule(ok) ==
  /\ pc = "rule" /\ Outcome(ok)
  /\ rules' = IF ok /\ listenerArn # <<>> /\ Len(tgarn) = 2 /\ rules[shard] = Nothing
              THEN [rules EXCEPT ![shard] = tgarn[2]] ELSE rules
  /\ pc' = "register" /\ todo' = Explorer
  /\ UNCHANGED <<certs, groups, targets, balancers, listeners, dns, shard, memory>>

\* One explorer into both groups; an error of the first call skips the second.
\* The second fails by IndexError when there is one group only.
Register(e, ok1, ok2) ==
  LET first == ok1 /\ tgarn # <<>>  second == ok2 /\ Len(tgarn) = 2 IN
  /\ pc = "register" /\ e \in todo
  /\ ok2 \/ (ok1 /\ tgarn # <<>>)                  \* one fault a turn at most
  /\ Outcome(ok1 /\ ok2)
  /\ targets' = targets
       \cup (IF first THEN {Target(tgarn[1], e, 9500)} ELSE {})
       \cup (IF first /\ second THEN {Target(tgarn[2], e, 9800)} ELSE {})
  /\ todo' = todo \ {e}
  /\ UNCHANGED <<certs, groups, balancers, listeners, rules, dns, pc, shard, memory>>

Registered ==
  /\ pc = "register" /\ todo = {}
  /\ pc' = "dns" /\ todo' = Records(shard)
  /\ UNCHANGED <<aws, shard, memory, failures>>

\* An UPSERT of one name; array_dns_zone[0] fails when there is no balancer.
CreateRecord(r, ok) ==
  /\ pc = "dns" /\ r \in todo /\ Outcome(ok)
  /\ dns' = IF ok /\ hostedZone # None THEN [dns EXCEPT ![r] = hostedZone] ELSE dns
  /\ todo' = todo \ {r}
  /\ UNCHANGED <<certs, groups, targets, balancers, listeners, rules, pc, shard, memory>>

\* The next shard, or the end of the run.
NextShard ==
  /\ pc = "dns" /\ todo = {}
  /\ IF shard + 1 \in Shard
     THEN shard' = shard + 1 /\ pc' = "lookup"
     ELSE shard' = 0 /\ pc' = "down"
  /\ UNCHANGED <<aws, memory, todo, failures>>

\* The owner of the domain answers the DNS challenge.
Validate(s) ==
  /\ certs[s] = "pending"
  /\ certs' = [certs EXCEPT ![s] = "issued"]
  /\ UNCHANGED <<groups, targets, balancers, listeners, rules, dns, pc, shard,
                 memory, todo, failures>>

Step ==
  \/ \E ok \in BOOLEAN :
       \/ LookUp(ok) \/ FindCertificate(ok) \/ RequestCertificate(ok)
       \/ CreateHttpsGroup(ok) \/ CreateWssGroup(ok) \/ CreateBalancer(ok)
       \/ CreateListener(ok) \/ CreateRule(ok)
       \/ \E r \in todo : CreateRecord(r, ok)
  \/ \E e \in todo, ok1, ok2 \in BOOLEAN : Register(e, ok1, ok2)
  \/ Registered \/ NextShard

Next == Start \/ Step \/ \E s \in Shard : Validate(s)

Spec == Init /\ [][Next]_endpointVars

\* The operator runs the script again, certificates are validated sooner or
\* later, and every call returns.
FairSpec == /\ Spec
            /\ WF_endpointVars(Start) /\ WF_endpointVars(Step)
            /\ \A s \in Shard : WF_endpointVars(Validate(s))
-----------------------------------------------------------------------------
(* Properties. *)

\* Whatever was created before a call failed, no resource of a shard is ever
\* wired to one of another shard: main.py keeps what it created in module-wide
\* dictionaries keyed by region, which shards share.
OwnShardOnly ==
  \A s \in Shard :
    /\ listeners[s] \in {Nothing, Https(s), Wss(s)}
    /\ rules[s] \in {Nothing, Https(s), Wss(s)}
    /\ \A r \in Records(s) : dns[r] \in {None, s}

\* The rule for the ws host never forwards to the https group, although it
\* finds its group by position in a list that failures leave short.
RuleForwardsToWss == \A s \in Shard : rules[s] \in {Nothing, Wss(s)}

Complete(s) ==
  /\ listeners[s] = Https(s) /\ rules[s] = Wss(s)
  /\ \A e \in Explorer : /\ Target(Https(s), e, 9500) \in targets
                         /\ Target(Wss(s), e, 9800) \in targets
  /\ \A r \in Records(s) : dns[r] = s

\* An endpoint that works goes on working whatever fails in a later run.
StaysComplete == [][\A s \in Shard : Complete(s) => Complete(s)']_endpointVars

\* Running the script again repairs everything earlier runs left undone, but
\* for a listener that was given the wss group.
EventuallyComplete ==
  \A s \in Shard : <>[](Complete(s) \/ listeners[s] = Wss(s))

\* creation_listener.py:28 "tg-s[i]-api-pga-https": what the listener's default
\* action forwards to.
DefaultIsHttps == \A s \in Shard : listeners[s] \in {Nothing, Https(s)}
=============================================================================
