--------------------------- MODULE MCMaxRateAudit ---------------------------
(* One delegator with two validators, on a page each; undelegations of two   *)
(* epochs that shrink or go, and one epoch that may list nothing of a pair.  *)
EXTENDS MaxRateAudit

CONSTANTS v1, v2, d1

MCPages == <<{v1}, {v2}>>
MCPairs == {<<v1, d1>>, <<v2, d1>>}

\* What is left, epoch by epoch, of an undelegation of 2 made at epoch u.
Left(u) ==
  {a \in [Epochs -> 0..2] :
     \A e \in Epochs : /\ a[e] = IF e < u THEN 0 ELSE IF e = u THEN 2 ELSE a[e]
                       /\ \A f \in Epochs : u <= f /\ f < e => a[e] <= a[f]}
Listing(a, u, off) ==
  [e \in Epochs |-> IF e \in off THEN Unlisted
                    ELSE [x \in Undelegated |-> IF x = u THEN a[e] ELSE 0]]

Off == {{}} \cup {{e} : e \in Epochs}
MCHistories ==
  [p \in MCPairs |->
     IF p[1] = v1 THEN {Listing(a, 1, off) : a \in Left(1), off \in Off}
     ELSE {Listing(a, 2, {}) : a \in {b \in Left(2) : b[Recent] # 1 /\ b[3] = 2}}]

Tx(e, status, type) == [epoch |-> e, status |-> status, type |-> type]
MCTxHistories ==
  {Unknown, {Tx(1, 1, "Delegate")}, {Tx(2, 1, "Delegate")},
   {Tx(3, 0, "Delegate"), Tx(3, 1, "CollectRewards")}}
=============================================================================
