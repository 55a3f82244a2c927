------------------------- MODULE MaxRateAuditProofs -------------------------
(* The audit's ledger, suspects and summary, for every past of the chain,    *)
(* every page layout and any number of deaths.                               *)
EXTENDS MaxRateAudit, DataLemmas, TLAPS

\* An epoch shows that an undelegation is gone.
Misses(e, k) == Lists(e, k[1]) /\ Amount(e, k) = 0

\* First and last sight of an undelegation, and its first miss, up to epoch n,
\* without Min and Max.
FirstSeen(m, k) == /\ m >= First /\ Amount(m, k) # 0
                   /\ \A e \in First..(m - 1) : Amount(e, k) = 0
LastSeen(x, k, n) == x <= n /\ Amount(x, k) # 0 /\ \A e \in (x + 1)..n : Amount(e, k) = 0
MissIs(c, m, k, n) ==
  \/ c = 0 /\ \A e \in (m + 1)..n : ~Misses(e, k)
  \/ /\ c \in (m + 1)..n /\ Misses(c, k)
     /\ \A e \in (m + 1)..(c - 1) : ~Misses(e, k)

OriginOf(r, k, n) ==
  \E m \in First..n : FirstSeen(m, k) /\ r.original = Amount(m, k) /\ MissIs(r.cleared, m, k, n)
FinalOf(r, k, n) == \E x \in First..n : LastSeen(x, k, n) /\ r.final = Amount(x, k)

KnownBy(n) == {k \in Keys : \E e \in First..n : Amount(e, k) # 0}
Amounts == {Amount(e, k) : e \in Epochs, k \in Keys}
Entries == [cleared : Nat, original : Amounts, final : Amounts, malicious : BOOLEAN]
LedgerBy(n) ==
  /\ ledger \in [KnownBy(n) -> Entries]
  /\ \A k \in KnownBy(n) : OriginOf(ledger[k], k, n) /\ FinalOf(ledger[k], k, n)

\* Every validator there is a pair of.
Whole(g) == \A p \in Pairs : p[1] \in g

\* Where the run is decides how far its ledger is, and how much it has fetched.
Before == IF epoch = Recent THEN Last ELSE epoch - 1
FilesInv == /\ infos = [e \in Epochs |-> infos[e]]
            /\ \A e \in Epochs : infos[e] \in {NoFile, Torn} \/ Whole(infos[e])
\* With its verdicts passed: a suspect left to refine is late, any other entry
\* is malicious exactly when it is late and redelegated.
JudgedBy(l) == /\ l \in [KnownBy(Last) -> Entries]
               /\ \A k \in KnownBy(Last) : OriginOf(l[k], k, Last)
RefineInv ==
  /\ JudgedBy(ledger)
  /\ todo \subseteq KnownBy(Last)
  /\ \A k \in todo : Late(ledger[k], k[2])
  /\ \A k \in KnownBy(Last) \ todo :
       ledger[k].malicious <=> Late(ledger[k], k[2]) /\ Redelegated(k[1][2], k[2])

RunInv ==
  /\ epoch \in Epochs /\ page \in 1..Len(Pages)
  /\ pc \in {"idle", "load", "fetch", "save", "scan", "refine"}
  /\ pc # "fetch" => page = 1
  /\ pc = "fetch" => \A i \in 1..(page - 1) : Pages[i] \subseteq got
  /\ pc \in {"save", "scan"} => Whole(got)
  /\ pc = "idle" => epoch = First /\ ledger = <<>>
  /\ pc \in {"load", "fetch", "save", "scan"} => LedgerBy(Before)
  /\ pc = "refine" => RefineInv

BeforeInv ==
  Written(before) =>
    JudgedBy(before) /\ \A k \in KnownBy(Last) : before[k].malicious <=> Late(before[k], k[2])
-----------------------------------------------------------------------------
(* The files. *)

LEMMA FilesInit == Init => FilesInv
BY DEF Init, FilesInv

LEMMA FilesStep ==
  ASSUME FilesInv, RunInv, [Next]_auditVars
  PROVE  FilesInv'
<1>1. ASSUME UNCHANGED infos PROVE FilesInv'
  BY <1>1 DEF FilesInv, Whole
<1>2. CASE Save
  <2>1. Whole(got) /\ epoch \in Epochs
    BY <1>2 DEF RunInv, Save
  <2> QED
    BY <1>2, <2>1 DEF FilesInv, Save, Whole
<1>3. CASE Tear
  <2>1. epoch \in Epochs
    BY DEF RunInv
  <2> QED
    BY <1>3, <2>1 DEF FilesInv, Tear, Whole
<1>4. CASE RemoveTorn
  BY <1>4 DEF FilesInv, RemoveTorn, Whole
<1> QED
  BY <1>1, <1>2, <1>3, <1>4 DEF Next, Start, Load, FetchPage, Scan, Judge, Finish, Refine, Die,
     FailToRead, auditVars
-----------------------------------------------------------------------------
(* One epoch more. *)

\* The past is the same after a step: what a ledger tells of it is, too.
LEMMA LedgerPrime ==
  ASSUME chain' = chain, NEW CONSTANT n, ledger' \in [KnownBy(n) -> Entries],
         \A k \in KnownBy(n) : OriginOf(ledger'[k], k, n) /\ FinalOf(ledger'[k], k, n)
  PROVE  LedgerBy(n)'
<1>1. \A e, k : Amount(e, k)' = Amount(e, k) /\ (Misses(e, k)' <=> Misses(e, k))
  BY DEF Amount, Misses, Lists
<1>2. KnownBy(n)' = KnownBy(n) /\ Amounts' = Amounts
  BY <1>1 DEF KnownBy, Amounts
<1>3. Entries' = Entries
  BY <1>2 DEF Entries
<1>4. ASSUME NEW k \in KnownBy(n) PROVE OriginOf(ledger[k], k, n)'
  BY DEF OriginOf, FirstSeen, MissIs, Misses, Amount, Lists
<1>5. ASSUME NEW k \in KnownBy(n) PROVE FinalOf(ledger[k], k, n)'
  BY DEF FinalOf, LastSeen, Amount
<1> QED
  BY <1>2, <1>3, <1>4, <1>5 DEF LedgerBy

\* The entry of an undelegation that was known.
LEMMA EntryStep ==
  ASSUME NEW n \in Nat, NEW k, NEW r, NEW s,
         OriginOf(r, k, n), FinalOf(r, k, n),
         s.original = r.original,
         s.cleared = IF r.cleared = 0 /\ Misses(n + 1, k) THEN n + 1 ELSE r.cleared,
         s.final = IF Amount(n + 1, k) # 0 THEN Amount(n + 1, k) ELSE r.final
  PROVE  OriginOf(s, k, n + 1) /\ FinalOf(s, k, n + 1)
<1> First \in Nat \ {0}
  BY AuditAssumption
<1>1. OriginOf(s, k, n + 1)
  <2>1. PICK m \in First..n : FirstSeen(m, k) /\ r.original = Amount(m, k) /\ MissIs(r.cleared, m, k, n)
    BY DEF OriginOf
  <2>2. MissIs(s.cleared, m, k, n + 1)
    BY <2>1 DEF MissIs
  <2> QED
    BY <2>1, <2>2 DEF OriginOf
<1>2. FinalOf(s, k, n + 1)
  <2>1. CASE Amount(n + 1, k) # 0
    <3>1. LastSeen(n + 1, k, n + 1) /\ n + 1 \in First..(n + 1)
      BY <2>1 DEF LastSeen, OriginOf
    <3> QED
      BY <2>1, <3>1 DEF FinalOf
  <2>2. CASE Amount(n + 1, k) = 0
    <3>1. PICK x \in First..n : LastSeen(x, k, n) /\ r.final = Amount(x, k)
      BY DEF FinalOf
    <3>2. LastSeen(x, k, n + 1)
      BY <2>2, <3>1 DEF LastSeen
    <3> QED
      BY <2>2, <3>1, <3>2 DEF FinalOf
  <2> QED
    BY <2>1, <2>2
<1> QED
  BY <1>1, <1>2

\* The entry of one that was not.
LEMMA EntryBegins ==
  ASSUME NEW n \in Nat, n + 1 >= First, NEW k \in Keys, NEW s, k \notin KnownBy(n), Amount(n + 1, k) # 0,
         s.original = Amount(n + 1, k), s.final = Amount(n + 1, k), s.cleared = 0
  PROVE  OriginOf(s, k, n + 1) /\ FinalOf(s, k, n + 1)
<1> First \in Nat \ {0}
  BY AuditAssumption
<1>1. FirstSeen(n + 1, k)
  BY DEF FirstSeen, KnownBy
<1>2. LastSeen(n + 1, k, n + 1) /\ MissIs(0, n + 1, k, n + 1)
  BY DEF LastSeen, MissIs
<1> QED
  BY <1>1, <1>2 DEF OriginOf, FinalOf

\* What a whole file is read as.
LEMMA ReadsAll ==
  ASSUME Whole(got), NEW k \in Keys, NEW e
  PROVE  Read(e, k) = Amount(e, k) /\ (IsRead(e, k) <=> Lists(e, k[1]))
<1>1. k[1][1] \in got
  BY DEF Whole, Keys
<1> QED
  BY <1>1 DEF Read, IsRead

LEMMA AddedIsEntry ==
  ASSUME Whole(got), NEW old, NEW e \in Epochs, NEW k \in Keys,
         k \in DOMAIN old => old[k] \in Entries
  PROVE  /\ Added(old, e, k) \in Entries
         /\ k \in DOMAIN old =>
              /\ Added(old, e, k).original = old[k].original
              /\ Added(old, e, k).cleared =
                   IF old[k].cleared = 0 /\ Misses(e, k) THEN e ELSE old[k].cleared
              /\ Added(old, e, k).final =
                   IF Amount(e, k) # 0 THEN Amount(e, k) ELSE old[k].final
         /\ k \notin DOMAIN old =>
              /\ Added(old, e, k).original = Amount(e, k)
              /\ Added(old, e, k).cleared = 0
              /\ Added(old, e, k).final = Amount(e, k)
<1>1. Amount(e, k) \in Amounts /\ e \in Nat
  BY AuditAssumption DEF Amounts, Epochs
<1>2. CASE k \in DOMAIN old
  <2> DEFINE r == Cleared(old[k], e, k)
  <2>1. /\ r \in Entries /\ r.original = old[k].original /\ r.final = old[k].final
        /\ r.cleared = IF old[k].cleared = 0 /\ Misses(e, k) THEN e ELSE old[k].cleared
    BY <1>1, <1>2, ReadsAll DEF Cleared, Misses, Entries
  <2>2. Added(old, e, k) = IF Amount(e, k) # 0 THEN [r EXCEPT !.final = Amount(e, k)] ELSE r
    BY <1>2, ReadsAll DEF Added
  <2> HIDE DEF r
  <2> QED
    BY <1>1, <1>2, <2>1, <2>2 DEF Entries
<1>3. CASE k \notin DOMAIN old
  BY <1>1, <1>3, ReadsAll DEF Added, Entries
<1> QED
  BY <1>2, <1>3

LEMMA ScanStep ==
  ASSUME NEW n \in Nat, epoch = n + 1, epoch \in First..Last, Whole(got), LedgerBy(n),
         Scan
  PROVE  LedgerBy(n + 1)'
<1> First \in Nat \ {0} /\ Last \in Nat /\ epoch \in Epochs
  BY AuditAssumption DEF Epochs
<1>1. KnownBy(n + 1) = KnownBy(n) \cup {k \in Keys : Read(epoch, k) # 0}
  <2>1. First..(n + 1) = First..n \cup {n + 1}
    OBVIOUS
  <2> QED
    BY <2>1, ReadsAll DEF KnownBy
<1>2. ledger' = [k \in KnownBy(n + 1) |-> Added(ledger, epoch, k)]
  BY <1>1 DEF Scan, LedgerBy
<1>3. ASSUME NEW k \in KnownBy(n + 1)
      PROVE  /\ Added(ledger, epoch, k) \in Entries
             /\ OriginOf(Added(ledger, epoch, k), k, n + 1)
             /\ FinalOf(Added(ledger, epoch, k), k, n + 1)
  <2> DEFINE s == Added(ledger, epoch, k)
  <2>0. k \in Keys /\ DOMAIN ledger = KnownBy(n)
    BY DEF KnownBy, LedgerBy
  <2>1. CASE k \in KnownBy(n)
    <3>1. ledger[k] \in Entries /\ OriginOf(ledger[k], k, n) /\ FinalOf(ledger[k], k, n)
      BY <2>1 DEF LedgerBy
    <3>2. /\ s \in Entries /\ s.original = ledger[k].original
          /\ s.cleared = IF ledger[k].cleared = 0 /\ Misses(n + 1, k) THEN n + 1 ELSE ledger[k].cleared
          /\ s.final = IF Amount(n + 1, k) # 0 THEN Amount(n + 1, k) ELSE ledger[k].final
      BY <2>0, <2>1, <3>1, AddedIsEntry
    <3> QED
      BY <3>1, <3>2, EntryStep
  <2>2. CASE k \notin KnownBy(n)
    <3>1. Amount(n + 1, k) # 0
      BY <1>1, <2>0, <2>2, ReadsAll
    <3>2. /\ s \in Entries /\ s.original = Amount(n + 1, k) /\ s.cleared = 0
          /\ s.final = Amount(n + 1, k)
      BY <2>0, <2>2, AddedIsEntry
    <3> QED
      BY <2>0, <2>2, <3>1, <3>2, EntryBegins
  <2> QED
    BY <2>1, <2>2
<1>4. chain' = chain
  BY DEF Scan, past
<1> HIDE DEF Added
<1>5. /\ ledger' \in [KnownBy(n + 1) -> Entries]
      /\ \A k \in KnownBy(n + 1) : OriginOf(ledger'[k], k, n + 1) /\ FinalOf(ledger'[k], k, n + 1)
  BY <1>2, <1>3
<1> QED
  BY <1>4, <1>5, LedgerPrime
-----------------------------------------------------------------------------
(* The verdicts. *)

LEMMA JudgedPrime ==
  ASSUME chain' = chain, NEW CONSTANT l, JudgedBy(l)
  PROVE  JudgedBy(l)'
<1>1. \A e, k : Amount(e, k)' = Amount(e, k)
  BY DEF Amount
<1>2. KnownBy(Last)' = KnownBy(Last) /\ Amounts' = Amounts
  BY <1>1 DEF KnownBy, Amounts
<1>3. Entries' = Entries
  BY <1>2 DEF Entries
<1>4. ASSUME NEW k \in KnownBy(Last) PROVE OriginOf(l[k], k, Last)'
  BY DEF OriginOf, FirstSeen, MissIs, Misses, Amount, Lists, JudgedBy
<1> QED
  BY <1>2, <1>3, <1>4 DEF JudgedBy

LEMMA KeyEpoch ==
  ASSUME NEW k \in Keys
  PROVE  k[2] \in 0..Recent /\ k[2] \in Nat
<1>1. k[2] \in Undelegated
  BY DEF Keys
<1>2. Undelegated \subseteq 0..Recent /\ Recent \in Nat
  BY AuditAssumption
<1>3. k[2] \in 0..Recent
  BY <1>1, <1>2
<1> QED
  BY <1>2, <1>3

\* No undelegation is later than Recent: a changed amount is never malicious.
LEMMA NothingIsChanged ==
  ASSUME NEW k \in Keys, NEW r
  PROVE  ~Changed(r, k[2])
BY KeyEpoch, AuditAssumption DEF Changed

LEMMA JudgedIsEntry ==
  ASSUME Whole(got), NEW k \in Keys, NEW r \in Entries
  PROVE  /\ Judged(r, k) \in Entries
         /\ Judged(r, k).original = r.original /\ Judged(r, k).cleared = r.cleared
         /\ Judged(r, k).malicious <=> Late(r, k[2])
<1>1. Amount(Recent, k) \in Amounts
  BY DEF Amounts, Epochs
<1> DEFINE s == IF Read(Recent, k) # 0 THEN [r EXCEPT !.final = Read(Recent, k)] ELSE r
<1>2. s \in Entries /\ s.original = r.original /\ s.cleared = r.cleared
  BY <1>1, ReadsAll DEF Entries
<1>3. Judged(r, k) = IF Late(r, k[2]) THEN [r EXCEPT !.malicious = TRUE]
                     ELSE [s EXCEPT !.malicious = FALSE]
  BY NothingIsChanged DEF Judged
<1> HIDE DEF s
<1> QED
  BY <1>2, <1>3 DEF Entries

LEMMA JudgeStep ==
  ASSUME Whole(got), LedgerBy(Last), Judge
  PROVE  RefineInv' /\ BeforeInv'
<1> chain' = chain /\ made' = made /\ KnownBy(Last) \subseteq Keys
  BY DEF Judge, past, KnownBy
<1>1. ledger \in [KnownBy(Last) -> Entries] /\ \A k \in KnownBy(Last) : OriginOf(ledger[k], k, Last)
  BY DEF LedgerBy
<1>2. ledger' = [k \in KnownBy(Last) |-> Judged(ledger[k], k)]
  BY <1>1 DEF Judge
<1>3. ASSUME NEW k \in KnownBy(Last)
      PROVE  /\ ledger'[k] \in Entries /\ OriginOf(ledger'[k], k, Last)
             /\ ledger'[k].malicious <=> Late(ledger'[k], k[2])
  <2>1. /\ ledger'[k] \in Entries
        /\ ledger'[k].original = ledger[k].original /\ ledger'[k].cleared = ledger[k].cleared
        /\ ledger'[k].malicious <=> Late(ledger[k], k[2])
    BY <1>1, <1>2, JudgedIsEntry
  <2> QED
    BY <1>1, <2>1 DEF OriginOf, Late
<1> HIDE DEF Judged
<1>4. JudgedBy(ledger')
  BY <1>2, <1>3 DEF JudgedBy
<1>5. PICK l : l = ledger'
  OBVIOUS
<1>6. JudgedBy(l)'
  BY <1>4, <1>5, JudgedPrime
<1>7. KnownBy(Last)' = KnownBy(Last)
  BY DEF KnownBy, Amount
<1>8. /\ todo' = {k \in KnownBy(Last) : ledger'[k].malicious}
      /\ before' = ledger'
  BY <1>1 DEF Judge
<1>9. RefineInv'
  <2>1. /\ todo' \subseteq KnownBy(Last)'
        /\ \A k \in todo' : Late(ledger'[k], k[2])
        /\ \A k \in KnownBy(Last)' \ todo' : ~ledger'[k].malicious /\ ~Late(ledger'[k], k[2])
    BY <1>3, <1>7, <1>8
  <2> QED
    BY <1>5, <1>6, <2>1 DEF RefineInv
<1>10. BeforeInv'
  BY <1>3, <1>5, <1>6, <1>7, <1>8 DEF BeforeInv
<1> QED
  BY <1>9, <1>10

LEMMA RefineStep ==
  ASSUME RefineInv, NEW k \in Keys, Refine(k)
  PROVE  RefineInv'
<1> chain' = chain /\ made' = made /\ k \in KnownBy(Last) /\ KnownBy(Last)' = KnownBy(Last)
  BY DEF Refine, past, RefineInv, KnownBy, Amount
<1> DEFINE verdict == Redelegated(k[1][2], k[2]) /\ ledger[k].cleared > k[2] + Limit
<1>1. /\ ledger' = [ledger EXCEPT ![k].malicious = verdict]
      /\ todo' = todo \ {k} /\ verdict \in BOOLEAN
  BY DEF Refine
<1>2. verdict <=> Late(ledger[k], k[2]) /\ Redelegated(k[1][2], k[2])
  <2>1. k[2] \in Nat /\ ledger[k].cleared \in Nat /\ Limit \in Nat \ {0}
    BY KeyEpoch, AuditAssumption DEF RefineInv, JudgedBy, Entries
  <2> QED
    BY <2>1 DEF Late
<1> HIDE DEF verdict
<1>3. /\ ledger' \in [KnownBy(Last) -> Entries]
      /\ \A j \in KnownBy(Last) : /\ ledger'[j].original = ledger[j].original
                                  /\ ledger'[j].cleared = ledger[j].cleared
                                  /\ j # k => ledger'[j] = ledger[j]
      /\ ledger'[k].malicious = verdict
  BY <1>1 DEF RefineInv, JudgedBy, Entries
<1>4. \A j \in KnownBy(Last) : /\ OriginOf(ledger'[j], j, Last)
                               /\ Late(ledger'[j], j[2]) <=> Late(ledger[j], j[2])
  BY <1>3 DEF RefineInv, JudgedBy, OriginOf, Late
<1>5. PICK l : l = ledger'
  OBVIOUS
<1>6. JudgedBy(l)'
  BY <1>3, <1>4, <1>5, JudgedPrime DEF JudgedBy
<1>7. /\ todo' \subseteq KnownBy(Last)
      /\ \A j \in todo' : Late(ledger'[j], j[2])
  BY <1>1, <1>4 DEF RefineInv
<1>8. ASSUME NEW j \in KnownBy(Last) \ todo'
      PROVE  ledger'[j].malicious <=> Late(ledger'[j], j[2]) /\ Redelegated(j[1][2], j[2])
  BY <1>1, <1>2, <1>3, <1>4, <1>8 DEF RefineInv
<1>9. \A d, u : Redelegated(d, u)' <=> Redelegated(d, u)
  BY DEF Redelegated
<1> QED
  BY <1>5, <1>6, <1>7, <1>8, <1>9 DEF RefineInv
-----------------------------------------------------------------------------
(* The run. *)

LEMMA LedgerStays ==
  ASSUME chain' = chain, ledger' = ledger, NEW CONSTANT n, LedgerBy(n)
  PROVE  LedgerBy(n)'
BY LedgerPrime DEF LedgerBy

LEMMA RefineStays ==
  ASSUME chain' = chain, made' = made, ledger' = ledger, todo' = todo, RefineInv
  PROVE  RefineInv'
<1>1. PICK l : l = ledger
  OBVIOUS
<1>2. JudgedBy(l)'
  BY <1>1, JudgedPrime DEF RefineInv
<1>3. KnownBy(Last)' = KnownBy(Last)
  BY DEF KnownBy, Amount
<1>4. \A d, u : Redelegated(d, u)' <=> Redelegated(d, u)
  BY DEF Redelegated
<1> QED
  BY <1>1, <1>2, <1>3, <1>4 DEF RefineInv, Late

LEMMA RunInit == Init => RunInv
<1>1. First \in Epochs /\ 1 \in 1..Len(Pages)
  BY AuditAssumption DEF Epochs
<1> QED
  BY <1>1 DEF Init, RunInv

LEMMA RunStep ==
  ASSUME FilesInv, RunInv, [Next]_auditVars
  PROVE  RunInv'
<1> USE AuditAssumption
<1>0. First \in Epochs /\ Recent \in Epochs /\ 1 \in 1..Len(Pages) /\ Epochs \subseteq Nat
  BY DEF Epochs
<1>p. chain' = chain
  BY DEF Next, Start, Load, FetchPage, Save, Scan, Judge, Finish, Refine, Die, Tear, FailToRead,
     RemoveTorn, auditVars, past
<1>1. CASE Start
  <2>1. LedgerBy(First - 1)'
    <3>1. First..(First - 1) = {} /\ ledger' = <<>>
      BY <1>1 DEF Start, RunInv
    <3> QED
      BY <3>1 DEF LedgerBy, KnownBy
  <2>2. Before' = First - 1
    BY <1>0, <1>1 DEF Start, RunInv, Before
  <2> QED
    BY <1>1, <2>1, <2>2 DEF Start, RunInv
<1>2. CASE GiveUp
  BY <1>0, <1>2 DEF GiveUp, RunInv
<1>3. ASSUME ledger' = ledger, epoch' = epoch, LedgerBy(Before)
      PROVE  LedgerBy(Before)'
  BY <1>p, <1>3, LedgerStays DEF Before
<1>4. CASE Load
  BY <1>0, <1>3, <1>4 DEF Load, RunInv, FilesInv
<1>5. CASE FetchPage
  BY <1>0, <1>3, <1>5 DEF FetchPage, RunInv, Whole
<1>6. CASE Save
  BY <1>3, <1>6 DEF Save, RunInv, Whole
<1>7. CASE Scan
  <2>1. /\ epoch \in First..Last /\ Before = epoch - 1 /\ Whole(got) /\ LedgerBy(epoch - 1)
        /\ epoch - 1 \in Nat /\ epoch = (epoch - 1) + 1
    BY <1>7 DEF Scan, RunInv, Before, Epochs
  <2>2. PICK n \in Nat : n = epoch - 1
    BY <2>1
  <2>3. LedgerBy(n + 1)'
    BY <1>7, <2>1, <2>2, ScanStep
  <2>4. epoch' \in Epochs /\ Before' = n + 1
    BY <1>7, <2>1, <2>2 DEF Scan, Before, Epochs
  <2> QED
    BY <1>7, <2>3, <2>4 DEF Scan, RunInv
<1>8. CASE Judge
  BY <1>8, JudgeStep DEF Judge, RunInv, Before
<1>9. ASSUME NEW k \in Keys, Refine(k) PROVE RunInv'
  BY <1>9, RefineStep DEF Refine, RunInv
<1>10. CASE RemoveTorn \/ UNCHANGED auditVars
  <2>1. UNCHANGED run /\ made' = made
    BY <1>10 DEF RemoveTorn, auditVars, past
  <2>2. pc = "refine" => RefineInv'
    BY <1>p, <2>1, RefineStays DEF RunInv, run
  <2> QED
    BY <1>3, <2>1, <2>2 DEF RunInv, run, Whole
<1> QED
  BY <1>1, <1>2, <1>4, <1>5, <1>6, <1>7, <1>8, <1>9, <1>10
  DEF Next, Finish, Die, Tear, FailToRead

LEMMA BeforeStep ==
  ASSUME RunInv, BeforeInv, [Next]_auditVars
  PROVE  BeforeInv'
<1>1. chain' = chain
  BY DEF Next, Start, Load, FetchPage, Save, Scan, Judge, Finish, Refine, Die, Tear, FailToRead,
     RemoveTorn, auditVars, past
<1>2. CASE Judge
  BY <1>2, JudgeStep DEF Judge, RunInv, Before
<1>3. CASE UNCHANGED before
  <2>1. PICK l : l = before
    OBVIOUS
  <2>2. Written(before) => JudgedBy(l)'
    BY <1>1, <2>1, JudgedPrime DEF BeforeInv
  <2>3. KnownBy(Last)' = KnownBy(Last)
    BY <1>1 DEF KnownBy, Amount
  <2> QED
    BY <1>3, <2>1, <2>2, <2>3 DEF BeforeInv, Late, Written
<1>4. CASE before' = Torn
  BY <1>4 DEF BeforeInv, Written
<1> QED
  BY <1>2, <1>3, <1>4 DEF Next, Start, Load, FetchPage, Save, Scan, Finish, Refine, Die, Tear,
     FailToRead, RemoveTorn, auditVars
-----------------------------------------------------------------------------
(* What an entry says, in the words of the properties. *)

LEMMA OriginIsFirst ==
  ASSUME NEW k, NEW r, OriginOf(r, k, Last)
  PROVE  r.original = Amount(Min(SeenAt(k)), k) /\ r.cleared = FirstMiss(k)
<1> First \in Nat \ {0} /\ Last \in Nat
  BY AuditAssumption
<1>1. PICK m \in First..Last :
        FirstSeen(m, k) /\ r.original = Amount(m, k) /\ MissIs(r.cleared, m, k, Last)
  BY DEF OriginOf
<1>2. Min(SeenAt(k)) = m
  <2>1. m \in SeenAt(k) /\ \A e \in SeenAt(k) : m <= e
    BY <1>1 DEF SeenAt, FirstSeen
  <2>2. SeenAt(k) \subseteq Int
    BY DEF SeenAt
  <2> QED
    BY <2>1, <2>2, MinIs
<1>3. MissedAt(k) = {e \in (m + 1)..Last : Misses(e, k)}
  BY <1>1, <1>2 DEF MissedAt, Misses
<1>4. ASSUME r.cleared = 0 /\ \A e \in (m + 1)..Last : ~Misses(e, k)
      PROVE  r.cleared = FirstMiss(k)
  BY <1>3, <1>4 DEF FirstMiss
<1>5. ASSUME /\ r.cleared \in (m + 1)..Last /\ Misses(r.cleared, k)
             /\ \A e \in (m + 1)..(r.cleared - 1) : ~Misses(e, k)
      PROVE  r.cleared = FirstMiss(k)
  <2>1. r.cleared \in MissedAt(k) /\ \A e \in MissedAt(k) : r.cleared <= e
    BY <1>3, <1>5
  <2>2. MissedAt(k) \subseteq Int
    BY <1>3
  <2>3. Min(MissedAt(k)) = r.cleared
    BY <2>1, <2>2, MinIs
  <2> QED
    BY <2>1, <2>3 DEF FirstMiss
<1> QED
  BY <1>1, <1>2, <1>4, <1>5 DEF MissIs

LEMMA FinalIsLast ==
  ASSUME NEW k, NEW r, FinalOf(r, k, Last)
  PROVE  r.final = Amount(Max(SeenAt(k)), k)
<1> First \in Nat \ {0} /\ Last \in Nat
  BY AuditAssumption
<1>1. PICK x \in First..Last : LastSeen(x, k, Last) /\ r.final = Amount(x, k)
  BY DEF FinalOf
<1>2. x \in SeenAt(k) /\ \A e \in SeenAt(k) : x >= e
  BY <1>1 DEF SeenAt, LastSeen
<1>3. SeenAt(k) \subseteq Int
  BY DEF SeenAt
<1>4. Max(SeenAt(k)) = x
  BY <1>2, <1>3, MaxIs
<1> QED
  BY <1>1, <1>4

LEMMA KnownIsSeen == KnownBy(Last) = {k \in Keys : SeenAt(k) # {}}
BY DEF KnownBy, SeenAt
-----------------------------------------------------------------------------
(* The theorems. *)

\* What is gone does not come back.
PastInv ==
  \A e \in Epochs, f \in Epochs, k \in Keys :
    k[2] <= e /\ e <= f /\ Misses(e, k) => Amount(f, k) = 0

LEMMA PastInit == Init => PastInv
<1> SUFFICES ASSUME Init, NEW e \in Epochs, NEW f \in Epochs, NEW p \in Pairs,
                    NEW u \in Undelegated, u <= e, e <= f, Misses(e, <<p, u>>)
             PROVE  Amount(f, <<p, u>>) = 0
  BY DEF PastInv, Keys
<1>1. PICK h : /\ h[p] \in Histories[p]
               /\ chain = [x \in Epochs |-> [q \in Pairs |-> h[q][x]]]
  BY DEF Init
<1>2. chain[e][p] = h[p][e] /\ chain[f][p] = h[p][f]
  BY <1>1
<1>3. h[p][e] # Unlisted /\ h[p][e][u] = 0
  BY <1>2 DEF Misses, Lists, Amount
<1>4. h[p][f] # Unlisted => h[p][f][u] = 0
  BY <1>1, <1>3, PastAssumption
<1> QED
  BY <1>2, <1>4 DEF Amount

LEMMA PastStep == PastInv /\ [Next]_auditVars => PastInv'
<1> SUFFICES ASSUME PastInv, [Next]_auditVars PROVE PastInv'
  OBVIOUS
<1>1. chain' = chain
  BY DEF Next, Start, Load, FetchPage, Save, Scan, Judge, Finish, Refine, Die, Tear, FailToRead,
     RemoveTorn, auditVars, past
<1> QED
  BY <1>1 DEF PastInv, Misses, Lists, Amount

AuditInv == FilesInv /\ RunInv /\ BeforeInv /\ PastInv

LEMMA AuditInvariant == Spec => []AuditInv
<1>1. Init => AuditInv
  BY FilesInit, RunInit, PastInit DEF AuditInv, BeforeInv, Written, Init
<1>2. AuditInv /\ [Next]_auditVars => AuditInv'
  BY FilesStep, RunStep, BeforeStep, PastStep DEF AuditInv
<1> QED
  BY <1>1, <1>2, PTL DEF Spec

\* The ledger behind the scan is what the chain's past says, through however many
\* runs that died and files they left: the loop of maxrate-bug.py:112-148.
THEOREM LedgerIsThePast == Spec => []LedgerIsHistory
<1>1. AuditInv => LedgerIsHistory
  <2> SUFFICES ASSUME RunInv, pc = "load", epoch = Recent
               PROVE  /\ DOMAIN ledger = {k \in Keys : SeenAt(k) # {}}
                      /\ \A k \in DOMAIN ledger :
                           /\ ledger[k].original = Amount(Min(SeenAt(k)), k)
                           /\ ledger[k].final = Amount(Max(SeenAt(k)), k)
                           /\ ledger[k].cleared = FirstMiss(k)
    BY DEF AuditInv, LedgerIsHistory
  <2>1. LedgerBy(Last)
    BY DEF RunInv, Before
  <2>2. DOMAIN ledger = KnownBy(Last)
    BY <2>1 DEF LedgerBy
  <2>3. \A k \in KnownBy(Last) : OriginOf(ledger[k], k, Last) /\ FinalOf(ledger[k], k, Last)
    BY <2>1 DEF LedgerBy
  <2> QED
    BY <2>2, <2>3, KnownIsSeen, OriginIsFirst, FinalIsLast
<1> QED
  BY <1>1, AuditInvariant, PTL

\* Whoever is suspected had an undelegation that was still pending when it should
\* have been gone, if that epoch lists the pair: maxrate-bug.py:163-170.
THEOREM SuspectsWereLate == Spec => []SuspectsWerePending
<1>1. AuditInv => SuspectsWerePending
  <2> SUFFICES ASSUME BeforeInv, PastInv, Written(before), NEW k \in DOMAIN before,
                      before[k].malicious, k[2] + Limit \in First..Last,
                      Lists(k[2] + Limit, k[1])
               PROVE  Amount(k[2] + Limit, k) # 0
    BY DEF AuditInv, SuspectsWerePending
  <2>1. JudgedBy(before) /\ k \in KnownBy(Last)
    BY DEF BeforeInv, JudgedBy
  <2>2. Late(before[k], k[2]) /\ OriginOf(before[k], k, Last)
    BY <2>1 DEF BeforeInv, JudgedBy
  <2> DEFINE e == k[2] + Limit
             c == before[k].cleared
  <2>3. PICK m \in First..Last : FirstSeen(m, k) /\ MissIs(c, m, k, Last)
    BY <2>2 DEF OriginOf
  <2>4. /\ k \in Keys /\ k[2] \in Nat /\ e \in Epochs /\ m \in Epochs /\ k[2] <= e
        /\ First \in Nat /\ Last \in Nat
    BY <2>1, KeyEpoch, AuditAssumption DEF KnownBy, Epochs
  <2>5. /\ c \in (m + 1)..Last /\ e < c
        /\ \A x \in (m + 1)..(c - 1) : ~Misses(x, k)
    BY <2>2, <2>3, <2>4, AuditAssumption DEF Late, MissIs
  <2>6. CASE e <= m
    BY <2>3, <2>4, <2>6 DEF PastInv, FirstSeen, Misses
  <2>7. CASE m < e
    <3>1. ~Misses(e, k)
      BY <2>4, <2>5, <2>7
    <3> QED
      BY <3>1 DEF Misses
  <2> QED
    BY <2>4, <2>6, <2>7
<1> QED
  BY <1>1, AuditInvariant, PTL

LEMMA GuiltyAreMalicious ==
  ASSUME RefineInv, todo = {}
  PROVE  [k \in {j \in DOMAIN ledger : ledger[j].malicious} |-> ledger[k].original]
           = [k \in Guilty |-> Amount(Min(SeenAt(k)), k)]
<1>1. DOMAIN ledger = KnownBy(Last)
  BY DEF RefineInv, JudgedBy
<1>2. ASSUME NEW k \in KnownBy(Last)
      PROVE  /\ k \in Keys /\ SeenAt(k) # {}
             /\ ledger[k].original = Amount(Min(SeenAt(k)), k)
             /\ ledger[k].malicious <=> k \in Guilty
  <2>1. k \in Keys /\ SeenAt(k) # {}
    BY KnownIsSeen
  <2>2. OriginOf(ledger[k], k, Last) /\ ledger[k].cleared \in Nat
    BY DEF RefineInv, JudgedBy, Entries
  <2>3. /\ ledger[k].original = Amount(Min(SeenAt(k)), k)
        /\ ledger[k].cleared = FirstMiss(k)
    BY <2>2, OriginIsFirst
  <2>4. k[2] \in Nat /\ Limit \in Nat
    BY <2>1, KeyEpoch, AuditAssumption
  <2>5. Late(ledger[k], k[2]) <=> FirstMiss(k) > k[2] + Limit
    BY <2>2, <2>3, <2>4 DEF Late
  <2>6. ledger[k].malicious <=> Late(ledger[k], k[2]) /\ Redelegated(k[1][2], k[2])
    BY DEF RefineInv
  <2> QED
    BY <2>1, <2>3, <2>5, <2>6 DEF Guilty
<1>3. Guilty \subseteq KnownBy(Last)
  BY KnownIsSeen DEF Guilty
<1>4. {j \in DOMAIN ledger : ledger[j].malicious} = Guilty
  BY <1>1, <1>2, <1>3
<1> QED
  BY <1>1, <1>2, <1>4

LEMMA SummaryStep ==
  ASSUME RunInv, SummaryIsTrue, [Next]_auditVars
  PROVE  SummaryIsTrue'
<1>1. chain' = chain /\ made' = made
  BY DEF Next, Start, Load, FetchPage, Save, Scan, Judge, Finish, Refine, Die, Tear, FailToRead,
     RemoveTorn, auditVars, past
<1> DEFINE told == [k \in Guilty |-> Amount(Min(SeenAt(k)), k)]
<1>2. told' = told
  BY <1>1 DEF Guilty, SeenAt, FirstMiss, MissedAt, Lists, Amount, Redelegated
<1>3. CASE Finish
  <2>1. summary' = Summarized(told)
    BY <1>3, GuiltyAreMalicious DEF Finish, RunInv
  <2> HIDE DEF told
  <2>2. summary' = Summarized(told')
    BY <1>2, <2>1
  <2> QED
    BY <2>2 DEF SummaryIsTrue, Written, told
<1>4. CASE UNCHANGED summary
  <2>1. Written(summary') => summary' = Summarized(told)
    BY <1>4 DEF SummaryIsTrue, Written
  <2> HIDE DEF told
  <2>2. Written(summary') => summary' = Summarized(told')
    BY <1>2, <2>1
  <2> QED
    BY <2>2 DEF SummaryIsTrue, Written, told
<1>5. CASE summary' = Torn
  BY <1>5 DEF SummaryIsTrue, Written
<1> QED
  BY <1>3, <1>4, <1>5 DEF Next, Start, Load, FetchPage, Save, Scan, Judge, Refine, Die, Tear,
     FailToRead, RemoveTorn, auditVars

\* A summary written to its end adds up the undelegations cleared late and redelegated
\* and nothing else, through deaths, torn files and cached fetches: its own write is
\* no exception, a run that dies in it leaves no sum at all. maxrate-bug.py:237-272
\* and :17-21.
THEOREM SummaryIsThePast == Spec => []SummaryIsTrue
<1>1. Init => SummaryIsTrue
  BY DEF Init, SummaryIsTrue, Written
<1>2. AuditInv /\ SummaryIsTrue /\ [Next]_auditVars => SummaryIsTrue'
  BY SummaryStep DEF AuditInv
<1> QED
  BY <1>1, <1>2, AuditInvariant, PTL DEF Spec
=============================================================================
