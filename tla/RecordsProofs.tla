---------------------------- MODULE RecordsProofs ----------------------------
(***************************************************************************)
(* What the indexes of executions can be believed about, for every number   *)
(* of runs, every limit and every order of their calls to the store.        *)
(***************************************************************************)
EXTENDS ExecutionHistory, SequenceTheorems, FiniteSetTheorems, TLAPS
-----------------------------------------------------------------------------
(* Execution history: what an index list may name. *)

\* A new id goes to the front, the ids behind it keep their order.
LEMMA BoundedIs ==
  ASSUME NEW ids \in Seq(Runs), NEW r \in Runs
  PROVE  /\ Bounded(ids, r) \in Seq(Runs)
         /\ \A i \in DOMAIN Bounded(ids, r) :
              IF i = 1 THEN Bounded(ids, r)[i] = r
              ELSE i - 1 \in DOMAIN ids /\ Bounded(ids, r)[i] = ids[i - 1]
         /\ Len(Bounded(ids, r)) = IF Len(ids) < IndexLimit THEN Len(ids) + 1 ELSE IndexLimit
         /\ Len(Bounded(ids, r)) >= 1 /\ Len(Bounded(ids, r)) <= IndexLimit
<1> DEFINE s == <<r>> \o ids
           n == IF Len(ids) < IndexLimit THEN Len(ids) + 1 ELSE IndexLimit
<1>1. /\ s \in Seq(Runs) /\ Len(s) = Len(ids) + 1 /\ Len(ids) \in Nat
      /\ s[1] = r /\ \A i \in 1 .. Len(ids) : s[i + 1] = ids[i]
      /\ DOMAIN ids = 1 .. Len(ids)
  OBVIOUS
<1>2. n \in Nat /\ n >= 1 /\ n <= Len(s) /\ n <= IndexLimit
  BY <1>1, HistoryAssumption
<1> HIDE DEF n
<1>3. \A i \in 1 .. n : s[i] \in Runs
  BY <1>1, <1>2
<1>4. /\ SubSeq(s, 1, n) \in Seq(Runs) /\ Len(SubSeq(s, 1, n)) = n
      /\ \A i \in 1 .. n : SubSeq(s, 1, n)[i] = s[i]
  <2>1. /\ SubSeq(s, 1, n) \in Seq(Runs)
        /\ Len(SubSeq(s, 1, n)) = IF 1 <= n THEN n - 1 + 1 ELSE 0
        /\ \A i \in 1 .. n - 1 + 1 : SubSeq(s, 1, n)[i] = s[1 + i - 1]
    BY <1>2, <1>3, SubSeqProperties, 1 \in Int, n \in Int
  <2>2. n - 1 + 1 = n /\ \A i \in 1 .. n : 1 + i - 1 = i
    BY <1>2
  <2> QED
    BY <1>2, <2>1, <2>2
<1>5. Bounded(ids, r) = SubSeq(s, 1, n)
  BY DEF Bounded, n
<1>6. DOMAIN SubSeq(s, 1, n) = 1 .. n
  BY <1>4
<1>7. ASSUME NEW i \in 1 .. n
      PROVE  IF i = 1 THEN s[i] = r ELSE i - 1 \in 1 .. Len(ids) /\ s[i] = ids[i - 1]
  <2>1. CASE i = 1
    BY <1>1, <2>1
  <2>2. CASE i # 1
    <3>1. i - 1 \in 1 .. Len(ids) /\ (i - 1) + 1 = i
      BY <1>1, <1>2, <2>2
    <3> QED
      BY <1>1, <2>2, <3>1
  <2> QED
    BY <2>1, <2>2
<1>8. Len(Bounded(ids, r)) = n
  BY <1>4, <1>5
<1> QED
  BY <1>1, <1>2, <1>4, <1>5, <1>6, <1>7, <1>8 DEF n

\* Of the records recs, that of run r may be named by list k.
Belongs(recs, k, r) ==
  /\ recs[r] # Unstored
  /\ k[1] = "goal" => recs[r].goal = k[2]
  /\ k[1] = "failure" => recs[r].outcome = "failed" /\
       \E j \in DOMAIN recs[r].actions : recs[r].actions[j] = k[2]

HistoryTypeOK ==
  /\ records \in [Runs -> Record \cup {Unstored}]
  /\ index \in [IndexKeys -> Seq(Runs)]
  /\ at \in [Runs -> {"running", "ended", "reading", "writing", "done", "broken"}]
  /\ own \in [Runs -> Record \cup {Unstored}]
  /\ keys \in [Runs -> Seq(IndexKeys)]
  /\ seen \in [Runs -> Seq(Runs)]
  /\ pushed \in [IndexKeys -> Seq(Runs)]

\* A record is stored once; its run pushes only to lists it belongs to, and writes
\* back only ids that belong there.
HistoryInv ==
  /\ HistoryTypeOK
  /\ \A r \in Runs :
       /\ at[r] = "ended" => own[r] \in Record
       /\ at[r] \in {"running", "ended"} => records[r] = Unstored
       /\ at[r] \in {"reading", "writing"} =>
            keys[r] # <<>> /\ \A i \in DOMAIN keys[r] : Belongs(records, keys[r][i], r)
       /\ at[r] = "writing" => \A i \in DOMAIN seen[r] : Belongs(records, Head(keys[r]), seen[r][i])
  /\ \A k \in IndexKeys : \A i \in DOMAIN index[k] : Belongs(records, k, index[k][i])

LEMMA KeysOfType ==
  ASSUME NEW record \in Record
  PROVE  /\ KeysOf(record) \in Seq(IndexKeys) /\ KeysOf(record) # <<>>
         /\ \A i \in DOMAIN KeysOf(record) :
              \/ KeysOf(record)[i] = <<"goal", record.goal>>
              \/ /\ record.outcome = "failed"
                 /\ \E j \in DOMAIN record.actions :
                      KeysOf(record)[i] = <<"failure", record.actions[j]>>
<1> DEFINE g == <<<<"goal", record.goal>>>>
           f == FailureKeys(record)
           n == Len(record.actions)
<1>1. /\ record.actions \in Seq(ActionNames) /\ n \in Nat
      /\ DOMAIN record.actions = 1 .. n /\ record.goal \in GoalHashes
      /\ \A i \in 1 .. n : record.actions[i] \in ActionNames
  BY DEF Record
<1>2. <<"goal", record.goal>> \in IndexKeys
  BY <1>1 DEF IndexKeys
<1>3. g \in Seq(IndexKeys) /\ Len(g) = 1 /\ g[1] = <<"goal", record.goal>> /\ g # <<>>
  BY <1>2
<1>4. \A i \in 1 .. n : <<"failure", record.actions[i]>> \in IndexKeys
  BY <1>1 DEF IndexKeys
<1>5. f \in [1 .. n -> IndexKeys] /\ \A i \in 1 .. n : f[i] = <<"failure", record.actions[i]>>
  BY <1>1, <1>4 DEF FailureKeys
<1> HIDE DEF f, g
<1>6. f \in Seq(IndexKeys) /\ Len(f) = n
  <2>1. f \in Seq(IndexKeys)
    BY <1>1, <1>5, SeqDef
  <2>2. DOMAIN f = 1 .. n /\ DOMAIN f = 1 .. Len(f) /\ Len(f) \in Nat
    BY <1>5, <2>1, LenProperties
  <2> QED
    BY <1>1, <2>1, <2>2
<1>7. /\ g \o f \in Seq(IndexKeys) /\ Len(g \o f) = 1 + n
      /\ \A i \in 1 .. 1 + n : (g \o f)[i] = IF i <= 1 THEN g[i] ELSE f[i - 1]
  <2>1. /\ g \o f \in Seq(IndexKeys) /\ Len(g \o f) = Len(g) + Len(f)
        /\ \A i \in 1 .. Len(g) + Len(f) :
             (g \o f)[i] = IF i <= Len(g) THEN g[i] ELSE f[i - Len(g)]
    BY <1>3, <1>6, ConcatProperties
  <2> QED
    BY <1>3, <1>6, <2>1
<1>8. CASE record.outcome = "failed"
  <2>1. KeysOf(record) = g \o f
    BY <1>8 DEF KeysOf, g, f
  <2>2. DOMAIN KeysOf(record) = 1 .. 1 + n /\ KeysOf(record) # <<>>
    BY <1>1, <1>7, <2>1
  <2>3. ASSUME NEW i \in 1 .. 1 + n
        PROVE  \/ KeysOf(record)[i] = <<"goal", record.goal>>
               \/ \E j \in 1 .. n : KeysOf(record)[i] = <<"failure", record.actions[j]>>
    <3>1. CASE i = 1
      BY <1>3, <1>7, <2>1, <3>1
    <3>2. CASE i # 1
      <4>1. i - 1 \in 1 .. n /\ ~(i <= 1)
        BY <1>1, <3>2
      <4>2. KeysOf(record)[i] = f[i - 1]
        BY <1>7, <2>1, <4>1
      <4> QED
        BY <1>5, <4>1, <4>2
    <3> QED
      BY <3>1, <3>2
  <2> QED
    BY <1>1, <1>7, <1>8, <2>1, <2>2, <2>3
<1>9. CASE record.outcome # "failed"
  <2>1. KeysOf(record) = g
    BY <1>9 DEF KeysOf, g
  <2>2. DOMAIN KeysOf(record) = {1}
    <3>1. DOMAIN g = 1 .. 1
      BY <1>3, LenProperties
    <3> QED
      BY <2>1, <3>1
  <2> QED
    BY <1>3, <2>1, <2>2
<1> QED
  BY <1>8, <1>9

LEMMA HistoryInitially == HistoryInit => HistoryInv
BY DEF HistoryInit, HistoryInv, HistoryTypeOK

\* A run ends, breaks off, or reads a list: no list and no record changes.
LEMMA HistoryQuietStep ==
  ASSUME HistoryInv, NEW r \in Runs, EndRun(r) \/ ReadIds(r) \/ BreakOff(r)
  PROVE  HistoryInv'
<1>1. records' = records /\ index' = index /\ pushed' = pushed
  BY DEF EndRun, ReadIds, BreakOff
<1>2. CASE EndRun(r)
  <2>1. \A g \in GoalHashes, p \in PlanNames, status \in EndsAs \cap DOMAIN OutcomeOf :
          [goal |-> g, actions |-> p, outcome |-> OutcomeOf[status]] \in Record
    <3>1. \A status \in DOMAIN OutcomeOf : OutcomeOf[status] \in {"success", "failed"}
      BY DEF OutcomeOf
    <3> QED
      BY <3>1, HistoryAssumption DEF Record
  <2>2. HistoryTypeOK'
    <3>1. /\ at' \in [Runs -> {"running", "ended", "reading", "writing", "done", "broken"}]
          /\ own' \in [Runs -> Record \cup {Unstored}]
      <4>1. at' = [at EXCEPT ![r] = "ended"] \/ at' = [at EXCEPT ![r] = "done"]
        BY <1>2 DEF EndRun
      <4>2. own' = own \/ \E rec \in Record : own' = [own EXCEPT ![r] = rec]
        BY <1>2, <2>1 DEF EndRun
      <4> QED
        BY <4>1, <4>2 DEF HistoryInv, HistoryTypeOK
    <3>2. UNCHANGED <<records, index, keys, seen, pushed>>
      BY <1>2 DEF EndRun
    <3> QED
      BY <3>1, <3>2 DEF HistoryInv, HistoryTypeOK
  <2>3. /\ \A q \in Runs : q # r => at'[q] = at[q] /\ own'[q] = own[q]
        /\ at[r] = "running"
        /\ \/ at'[r] = "ended" /\ own'[r] \in Record
           \/ at'[r] = "done"
        /\ keys' = keys /\ seen' = seen
    BY <1>2, <2>1 DEF EndRun, HistoryInv, HistoryTypeOK
  <2> QED
    BY <1>1, <2>2, <2>3 DEF HistoryInv
<1>3. CASE ReadIds(r)
  <2>1. /\ \A q \in Runs : q # r => at'[q] = at[q] /\ seen'[q] = seen[q]
        /\ at[r] = "reading" /\ at'[r] = "writing" /\ seen'[r] = index[Head(keys[r])]
        /\ keys' = keys /\ own' = own
    BY <1>3 DEF ReadIds, HistoryInv, HistoryTypeOK
  <2>2. keys[r] \in Seq(IndexKeys) /\ keys[r] # <<>>
    BY <2>1 DEF HistoryInv, HistoryTypeOK
  <2>3. Head(keys[r]) \in IndexKeys
    BY <2>2
  <2>4. HistoryTypeOK'
    BY <1>1, <1>3, <2>3 DEF ReadIds, HistoryInv, HistoryTypeOK
  <2>5. \A i \in DOMAIN seen'[r] : Belongs(records, Head(keys[r]), seen'[r][i])
    BY <2>1, <2>3 DEF HistoryInv
  <2> QED
    BY <1>1, <2>1, <2>4, <2>5 DEF HistoryInv
<1>4. CASE BreakOff(r)
  <2>1. /\ \A q \in Runs : q # r => /\ at'[q] = at[q] /\ seen'[q] = seen[q]
                                    /\ keys'[q] = keys[q]
        /\ at'[r] = "broken" /\ own' = own
    BY <1>4 DEF BreakOff, HistoryInv, HistoryTypeOK
  <2>2. HistoryTypeOK'
    BY <1>1, <1>4 DEF BreakOff, HistoryInv, HistoryTypeOK
  <2> QED
    BY <1>1, <2>1, <2>2 DEF HistoryInv
<1> QED
  BY <1>2, <1>3, <1>4

\* The record comes first: then its run belongs to every list it will push to.
LEMMA PutRecordStep ==
  ASSUME HistoryInv, NEW r \in Runs, PutRecord(r)
  PROVE  HistoryInv'
<1>1. /\ at[r] = "ended" /\ own[r] \in Record /\ records[r] = Unstored
      /\ records' = [records EXCEPT ![r] = own[r]]
      /\ keys' = [keys EXCEPT ![r] = KeysOf(own[r])]
      /\ at' = [at EXCEPT ![r] = "reading"]
      /\ UNCHANGED <<index, own, seen, pushed>>
  BY DEF PutRecord, HistoryInv
<1>2. HistoryTypeOK'
  BY <1>1, KeysOfType DEF HistoryInv, HistoryTypeOK
<1>3. /\ records'[r] = own[r] /\ keys'[r] = KeysOf(own[r]) /\ at'[r] = "reading"
      /\ \A q \in Runs : q # r => /\ records'[q] = records[q] /\ keys'[q] = keys[q]
                                  /\ at'[q] = at[q]
  BY <1>1 DEF HistoryInv, HistoryTypeOK
<1>4. ASSUME NEW k, NEW q \in Runs, Belongs(records, k, q)
      PROVE  Belongs(records', k, q)
  BY <1>1, <1>3, <1>4 DEF Belongs
<1>5. own[r] # Unstored
  BY <1>1, HistoryAssumption
<1>6. ASSUME NEW i \in DOMAIN KeysOf(own[r])
      PROVE  Belongs(records', KeysOf(own[r])[i], r)
  <2>1. CASE KeysOf(own[r])[i] = <<"goal", own[r].goal>>
    BY <1>3, <1>5, <2>1 DEF Belongs
  <2>2. CASE /\ own[r].outcome = "failed"
             /\ \E j \in DOMAIN own[r].actions :
                  KeysOf(own[r])[i] = <<"failure", own[r].actions[j]>>
    BY <1>3, <1>5, <2>2 DEF Belongs
  <2> QED
    BY <1>1, <2>1, <2>2, KeysOfType
<1>7. KeysOf(own[r]) # <<>>
  BY <1>1, KeysOfType
<1>8. ASSUME NEW k \in IndexKeys, NEW i \in DOMAIN index[k]
      PROVE  Belongs(records', k, index[k][i])
  <2>1. index[k][i] \in Runs
    BY DEF HistoryInv, HistoryTypeOK
  <2> QED
    BY <1>4, <2>1 DEF HistoryInv
<1>9. ASSUME NEW q \in Runs, q # r, at[q] = "writing", NEW i \in DOMAIN seen[q]
      PROVE  Belongs(records', Head(keys[q]), seen[q][i])
  <2>1. seen[q][i] \in Runs
    BY DEF HistoryInv, HistoryTypeOK
  <2> QED
    BY <1>4, <1>9, <2>1 DEF HistoryInv
<1>10. ASSUME NEW q \in Runs
       PROVE  /\ at'[q] = "ended" => own'[q] \in Record
              /\ at'[q] \in {"running", "ended"} => records'[q] = Unstored
              /\ at'[q] \in {"reading", "writing"} =>
                   keys'[q] # <<>> /\ \A i \in DOMAIN keys'[q] : Belongs(records', keys'[q][i], q)
              /\ at'[q] = "writing" =>
                   \A i \in DOMAIN seen'[q] : Belongs(records', Head(keys'[q]), seen'[q][i])
  <2>1. CASE q = r
    BY <1>3, <1>6, <1>7, <2>1
  <2>2. CASE q # r
    BY <1>1, <1>3, <1>4, <1>9, <2>2 DEF HistoryInv
  <2> QED
    BY <2>1, <2>2
<1> QED
  BY <1>1, <1>2, <1>8, <1>10 DEF HistoryInv

LEMMA WriteIdsStep ==
  ASSUME HistoryInv, NEW r \in Runs, WriteIds(r)
  PROVE  HistoryInv'
<1> DEFINE k == Head(keys[r])
<1>1. /\ at[r] = "writing"
      /\ index' = [index EXCEPT ![k] = Bounded(seen[r], r)]
      /\ pushed' = [pushed EXCEPT ![k] = <<r>> \o @]
      /\ keys' = [keys EXCEPT ![r] = Tail(@)]
      /\ seen' = [seen EXCEPT ![r] = <<>>]
      /\ at' = [at EXCEPT ![r] = IF Len(keys[r]) = 1 THEN "done" ELSE "reading"]
      /\ UNCHANGED <<records, own>>
  BY DEF WriteIds
<1>2. /\ keys[r] \in Seq(IndexKeys) /\ keys[r] # <<>> /\ seen[r] \in Seq(Runs)
      /\ \A i \in DOMAIN keys[r] : Belongs(records, keys[r][i], r)
      /\ \A i \in DOMAIN seen[r] : Belongs(records, k, seen[r][i])
  BY <1>1 DEF HistoryInv, HistoryTypeOK
<1>3. /\ k \in IndexKeys /\ k = keys[r][1] /\ 1 \in DOMAIN keys[r]
      /\ Tail(keys[r]) \in Seq(IndexKeys)
      /\ Len(keys[r]) # 1 => Tail(keys[r]) # <<>>
      /\ \A i \in DOMAIN Tail(keys[r]) :
           i + 1 \in DOMAIN keys[r] /\ Tail(keys[r])[i] = keys[r][i + 1]
  <2> DEFINE s == keys[r]
  <2>1. s \in Seq(IndexKeys) /\ s # <<>>
    BY <1>2
  <2> HIDE DEF s
  <2>2. /\ Len(s) \in Nat /\ Len(s) >= 1 /\ DOMAIN s = 1 .. Len(s) /\ Head(s) = s[1]
        /\ Tail(s) \in Seq(IndexKeys) /\ Len(Tail(s)) = Len(s) - 1
        /\ DOMAIN Tail(s) = 1 .. Len(s) - 1
        /\ \A i \in 1 .. Len(Tail(s)) : Tail(s)[i] = s[i + 1]
    <3>1. /\ Tail(s) \in Seq(IndexKeys) /\ Len(Tail(s)) = Len(s) - 1
          /\ \A i \in 1 .. Len(Tail(s)) : Tail(s)[i] = s[i + 1]
      BY <2>1, HeadTailProperties
    <3>2. Len(s) \in Nat \ {0} /\ DOMAIN s = 1 .. Len(s) /\ Head(s) = s[1]
      BY <2>1, LenProperties, EmptySeq
    <3>3. DOMAIN Tail(s) = 1 .. Len(Tail(s))
      BY <3>1, LenProperties
    <3> QED
      BY <3>1, <3>2, <3>3
  <2>3. Len(s) # 1 => Tail(s) # <<>>
    <3> SUFFICES ASSUME Tail(s) = <<>> PROVE Len(s) = 1
      OBVIOUS
    <3>1. Len(Tail(s)) = Len(<<>>)
      BY Zenon
    <3>2. Len(<<>>) = 0
      BY EmptySeq
    <3> QED
      BY <2>2, <3>1, <3>2
  <2>4. \A i \in 1 .. Len(s) - 1 : i + 1 \in 1 .. Len(s)
    BY <2>2
  <2>5. 1 \in DOMAIN s /\ s[1] \in IndexKeys
    BY <2>1, <2>2
  <2> QED
    BY <2>2, <2>3, <2>4, <2>5 DEF s, k
<1> HIDE DEF k
<1>4. /\ Bounded(seen[r], r) \in Seq(Runs)
      /\ \A i \in DOMAIN Bounded(seen[r], r) : Belongs(records, k, Bounded(seen[r], r)[i])
  <2>1. Belongs(records, k, r)
    BY <1>2, <1>3
  <2> DEFINE new == Bounded(seen[r], r)
  <2>2. /\ new \in Seq(Runs)
        /\ \A i \in DOMAIN new :
             IF i = 1 THEN new[i] = r ELSE i - 1 \in DOMAIN seen[r] /\ new[i] = seen[r][i - 1]
    BY <1>2, BoundedIs
  <2> HIDE DEF new
  <2>3. \A i \in DOMAIN new : Belongs(records, k, new[i])
    BY <1>2, <2>1, <2>2
  <2> QED
    BY <2>2, <2>3 DEF new
<1>5. HistoryTypeOK'
  <2>1. <<r>> \o pushed[k] \in Seq(Runs)
    BY <1>3 DEF HistoryInv, HistoryTypeOK
  <2>2. /\ index' \in [IndexKeys -> Seq(Runs)] /\ pushed' \in [IndexKeys -> Seq(Runs)]
    BY <1>1, <1>3, <1>4, <2>1 DEF HistoryInv, HistoryTypeOK
  <2>3. /\ keys' \in [Runs -> Seq(IndexKeys)] /\ seen' \in [Runs -> Seq(Runs)]
    BY <1>1, <1>3 DEF HistoryInv, HistoryTypeOK
  <2>4. at' \in [Runs -> {"running", "ended", "reading", "writing", "done", "broken"}]
    BY <1>1 DEF HistoryInv, HistoryTypeOK
  <2> QED
    BY <1>1, <2>2, <2>3, <2>4 DEF HistoryInv, HistoryTypeOK
<1>6. ASSUME NEW l \in IndexKeys, NEW i \in DOMAIN index'[l]
      PROVE  Belongs(records, l, index'[l][i])
  <2>1. CASE l = k
    BY <1>1, <1>3, <1>4, <1>6, <2>1 DEF HistoryInv, HistoryTypeOK
  <2>2. CASE l # k
    BY <1>1, <1>6, <2>2 DEF HistoryInv, HistoryTypeOK
  <2> QED
    BY <2>1, <2>2
<1>7. \A q \in Runs : q # r => at'[q] = at[q] /\ keys'[q] = keys[q] /\ seen'[q] = seen[q]
  BY <1>1 DEF HistoryInv, HistoryTypeOK
<1>8. /\ at'[r] = IF Len(keys[r]) = 1 THEN "done" ELSE "reading"
      /\ keys'[r] = Tail(keys[r])
  BY <1>1 DEF HistoryInv, HistoryTypeOK
<1>9. \A i \in DOMAIN keys'[r] : Belongs(records, keys'[r][i], r)
  BY <1>2, <1>3, <1>8
<1> QED
  BY <1>1, <1>3, <1>5, <1>6, <1>7, <1>8, <1>9 DEF HistoryInv

LEMMA HistoryStepKeeps == HistoryInv /\ [HistoryNext]_historyVars => HistoryInv'
<1>1. HistoryInv /\ UNCHANGED historyVars => HistoryInv'
  BY DEF historyVars, HistoryInv, HistoryTypeOK
<1> QED
  BY <1>1, HistoryQuietStep, PutRecordStep, WriteIdsStep DEF HistoryNext, HistoryStep

\* Whoever overlaps, raises or dies: an index list names only stored records, of its
\* goal, or of failed runs whose plan has its action.
THEOREM IndexNamesWhatBelongs == HistorySpec => []IndexedBelongs
<1>1. HistoryInv => IndexedBelongs
  BY DEF HistoryInv, Belongs, IndexedBelongs
<1> QED
  BY <1>1, HistoryInitially, HistoryStepKeeps, PTL DEF HistorySpec
-----------------------------------------------------------------------------
(* Execution history: the order of a list. *)

\* The ids of list l were pushed in its order, the first one last.
Ordered(l, p) ==
  /\ \A i \in DOMAIN l : \E m \in DOMAIN p : p[m] = l[i]
  /\ \A i, j \in DOMAIN l : i < j =>
       \E m, n \in DOMAIN p : m < n /\ p[m] = l[i] /\ p[n] = l[j]

LEMMA OrderedAfterPush ==
  ASSUME NEW l \in Seq(Runs), NEW p \in Seq(Runs), NEW r \in Runs, Ordered(l, p)
  PROVE  Ordered(l, <<r>> \o p) /\ Ordered(Bounded(l, r), <<r>> \o p)
<1> DEFINE q == <<r>> \o p
           b == Bounded(l, r)
<1>1. /\ q \in Seq(Runs) /\ 1 \in DOMAIN q /\ q[1] = r
      /\ \A m \in DOMAIN p : m \in Nat /\ m + 1 \in DOMAIN q /\ q[m + 1] = p[m] /\ 1 < m + 1
  OBVIOUS
<1>2. /\ b \in Seq(Runs)
      /\ \A i \in DOMAIN b : IF i = 1 THEN b[i] = r ELSE i - 1 \in DOMAIN l /\ b[i] = l[i - 1]
  BY BoundedIs
<1>3. DOMAIN b \subseteq Nat \ {0} /\ DOMAIN l \subseteq Nat \ {0}
  BY <1>2
<1> HIDE DEF q, b
<1>4. ASSUME NEW i \in DOMAIN l
      PROVE  \E m \in DOMAIN q : 1 < m /\ q[m] = l[i]
  <2>1. PICK m \in DOMAIN p : p[m] = l[i]
    BY DEF Ordered
  <2> QED
    BY <1>1, <2>1
<1>5. ASSUME NEW i \in DOMAIN l, NEW j \in DOMAIN l, i < j
      PROVE  \E m, n \in DOMAIN q : m < n /\ q[m] = l[i] /\ q[n] = l[j]
  <2>1. PICK m \in DOMAIN p, n \in DOMAIN p : m < n /\ p[m] = l[i] /\ p[n] = l[j]
    BY <1>5 DEF Ordered
  <2>2. m + 1 \in DOMAIN q /\ n + 1 \in DOMAIN q /\ m + 1 < n + 1
    BY <1>1, <2>1
  <2>3. q[m + 1] = l[i] /\ q[n + 1] = l[j]
    BY <1>1, <2>1
  <2> QED
    BY <2>2, <2>3
<1>6. Ordered(l, q)
  BY <1>4, <1>5 DEF Ordered
<1>7. ASSUME NEW i \in DOMAIN b
      PROVE  \E m \in DOMAIN q : q[m] = b[i]
  <2>1. CASE i = 1
    BY <1>1, <1>2, <2>1
  <2>2. CASE i # 1
    BY <1>2, <1>4, <2>2
  <2> QED
    BY <2>1, <2>2
<1>8. ASSUME NEW i \in DOMAIN b, NEW j \in DOMAIN b, i < j
      PROVE  \E m, n \in DOMAIN q : m < n /\ q[m] = b[i] /\ q[n] = b[j]
  <2>1. j # 1 /\ j - 1 \in DOMAIN l /\ b[j] = l[j - 1]
    BY <1>2, <1>3, <1>8
  <2>2. CASE i = 1
    <3>1. PICK n \in DOMAIN q : 1 < n /\ q[n] = b[j]
      BY <1>4, <2>1
    <3> QED
      BY <1>1, <1>2, <2>2, <3>1
  <2>3. CASE i # 1
    <3>1. i - 1 \in DOMAIN l /\ b[i] = l[i - 1] /\ i - 1 < j - 1
      BY <1>2, <1>3, <1>8, <2>3
    <3> QED
      BY <1>5, <2>1, <3>1
  <2> QED
    BY <2>2, <2>3
<1>9. Ordered(b, q)
  BY <1>7, <1>8 DEF Ordered
<1> QED
  BY <1>6, <1>9 DEF q, b

\* So is the list a run has read and is about to write back.
OrderInv ==
  /\ \A k \in IndexKeys : Ordered(index[k], pushed[k])
  /\ \A r \in Runs : at[r] = "writing" => Ordered(seen[r], pushed[Head(keys[r])])

LEMMA OrderStep ==
  ASSUME HistoryInv, HistoryInv', OrderInv, NEW r \in Runs, HistoryStep(r)
  PROVE  OrderInv'
<1>1. HistoryTypeOK
  BY DEF HistoryInv
<1>2. ASSUME NEW q \in Runs, at[q] \in {"reading", "writing"}
      PROVE  Head(keys[q]) \in IndexKeys
  <2>1. keys[q] \in Seq(IndexKeys) /\ keys[q] # <<>>
    BY <1>2 DEF HistoryInv, HistoryTypeOK
  <2> QED
    BY <2>1
<1>3. CASE EndRun(r) \/ PutRecord(r) \/ BreakOff(r)
  <2>1. /\ index' = index /\ pushed' = pushed
        /\ at'[r] # "writing"
        /\ \A q \in Runs : q # r => at'[q] = at[q] /\ seen'[q] = seen[q] /\ keys'[q] = keys[q]
    BY <1>1, <1>3 DEF EndRun, PutRecord, BreakOff, HistoryTypeOK
  <2> QED
    BY <2>1 DEF OrderInv
<1>4. CASE ReadIds(r)
  <2>1. /\ index' = index /\ pushed' = pushed /\ keys' = keys
        /\ at[r] = "reading" /\ seen'[r] = index[Head(keys[r])]
        /\ \A q \in Runs : q # r => at'[q] = at[q] /\ seen'[q] = seen[q]
    BY <1>1, <1>4 DEF ReadIds, HistoryTypeOK
  <2>2. Head(keys[r]) \in IndexKeys
    BY <1>2, <2>1
  <2>3. Ordered(seen'[r], pushed[Head(keys[r])])
    BY <2>1, <2>2 DEF OrderInv
  <2> QED
    BY <2>1, <2>3 DEF OrderInv
<1>5. CASE WriteIds(r)
  <2> DEFINE k == Head(keys[r])
             p == <<r>> \o pushed[k]
             b == Bounded(seen[r], r)
  <2>1. /\ at[r] = "writing" /\ k \in IndexKeys /\ at'[r] # "writing"
        /\ index'[k] = b /\ pushed'[k] = p
        /\ \A l \in IndexKeys : l # k => index'[l] = index[l] /\ pushed'[l] = pushed[l]
        /\ \A q \in Runs : q # r => at'[q] = at[q] /\ seen'[q] = seen[q] /\ keys'[q] = keys[q]
    <3>1. at[r] = "writing" /\ k \in IndexKeys
      BY <1>2, <1>5 DEF WriteIds
    <3>2. /\ index' = [index EXCEPT ![k] = b] /\ pushed' = [pushed EXCEPT ![k] = p]
          /\ keys' = [keys EXCEPT ![r] = Tail(@)] /\ seen' = [seen EXCEPT ![r] = <<>>]
          /\ at' = [at EXCEPT ![r] = IF Len(keys[r]) = 1 THEN "done" ELSE "reading"]
      BY <1>5 DEF WriteIds
    <3> HIDE DEF k, b, p
    <3> QED
      BY <1>1, <3>1, <3>2 DEF HistoryTypeOK
  <2>2. seen[r] \in Seq(Runs) /\ pushed[k] \in Seq(Runs) /\ Ordered(seen[r], pushed[k])
    BY <1>1, <2>1 DEF HistoryTypeOK, OrderInv
  <2>3. Ordered(b, p)
    BY <2>2, OrderedAfterPush
  <2>4. ASSUME NEW q \in Runs, q # r, at[q] = "writing"
        PROVE  Ordered(seen[q], pushed'[Head(keys[q])])
    <3>1. /\ Head(keys[q]) \in IndexKeys /\ seen[q] \in Seq(Runs)
          /\ Ordered(seen[q], pushed[Head(keys[q])])
      BY <1>1, <1>2, <2>4 DEF HistoryTypeOK, OrderInv
    <3>2. CASE Head(keys[q]) = k
      <4>1. Ordered(seen[q], <<r>> \o pushed[k])
        BY <2>2, <3>1, <3>2, OrderedAfterPush
      <4> QED
        BY <2>1, <3>2, <4>1
    <3>3. CASE Head(keys[q]) # k
      BY <2>1, <3>1, <3>3
    <3> QED
      BY <3>2, <3>3
  <2> HIDE DEF k, b, p
  <2>5. \A l \in IndexKeys : Ordered(index'[l], pushed'[l])
    BY <2>1, <2>3 DEF OrderInv
  <2> QED
    BY <2>1, <2>4, <2>5 DEF OrderInv
<1> QED
  BY <1>3, <1>4, <1>5 DEF HistoryStep

\* A list that lost ids to a race is in order all the same: of two ids in a list the
\* first was pushed later.
THEOREM ListsAreInOrder == HistorySpec => []NewestFirst
<1>1. HistoryInit => OrderInv
  BY DEF HistoryInit, OrderInv, Ordered
<1>2. HistoryInv /\ HistoryInv' /\ OrderInv /\ [HistoryNext]_historyVars => OrderInv'
  <2>1. OrderInv /\ UNCHANGED historyVars => OrderInv'
    BY DEF historyVars, OrderInv
  <2> QED
    BY <2>1, OrderStep DEF HistoryNext
<1>3. OrderInv => NewestFirst
  BY DEF OrderInv, Ordered, NewestFirst
<1> QED
  BY <1>1, <1>2, <1>3, HistoryInitially, HistoryStepKeeps, PTL DEF HistorySpec
-----------------------------------------------------------------------------
(* Execution history: nobody is lost but to a race. *)

\* Run r stands in list l, with at most as many ids before it as were pushed after
\* it to p, or as many as a list holds were pushed after it.
Kept(l, p, r) ==
  \/ \E i \in DOMAIN l : l[i] = r /\ \A j \in 1 .. i - 1 : j \in DOMAIN p /\ p[j] # r
  \/ \A j \in 1 .. IndexLimit : j \in DOMAIN p /\ p[j] # r

Pushed(p, r) == \E j \in DOMAIN p : p[j] = r

\* The ids run r has pushed, or has yet to push, itself to.
Accounted(r, k) ==
  \/ \E j \in DOMAIN keys[r] : keys[r][j] = k
  \/ Pushed(pushed[k], r)

\* A run no writer of a list has missed is kept in the list, and in what every run
\* has read of it and is about to write back, unless that run has missed it.
FoundInv ==
  /\ lost \in [IndexKeys -> SUBSET Runs] /\ unseen \in [Runs -> SUBSET Runs]
  /\ \A k \in IndexKeys :
       /\ Len(index[k]) <= IndexLimit
       /\ \A r \in Runs \ lost[k] : Pushed(pushed[k], r) =>
            /\ Kept(index[k], pushed[k], r)
            /\ \A q \in Pushing(k) : r \in unseen[q] \/ Kept(seen[q], pushed[k], r)
  /\ \A r \in Runs :
       /\ at[r] = "running" => own[r] = Unstored
       /\ at[r] = "done" => keys[r] = <<>> \/ own[r] = Unstored
       /\ at[r] \in {"reading", "writing", "done"} /\ own[r] # Unstored =>
            \A i \in DOMAIN KeysOf(own[r]) : Accounted(r, KeysOf(own[r])[i])

LEMMA PushedShifts ==
  ASSUME NEW s \in Seq(Runs), NEW r \in Runs
  PROVE  /\ 1 \in DOMAIN (<<r>> \o s) /\ (<<r>> \o s)[1] = r
         /\ \A j \in DOMAIN s : j + 1 \in DOMAIN (<<r>> \o s) /\ (<<r>> \o s)[j + 1] = s[j]
         /\ \A j \in DOMAIN (<<r>> \o s) : j = 1 \/ (j - 1 \in DOMAIN s /\ (<<r>> \o s)[j] = s[j - 1])
<1> DEFINE p == <<r>> \o s
<1>1. /\ Len(s) \in Nat /\ DOMAIN s = 1 .. Len(s) /\ DOMAIN p = 1 .. Len(s) + 1 /\ p[1] = r
      /\ \A j \in 1 .. Len(s) : p[j + 1] = s[j]
  OBVIOUS
<1> HIDE DEF p
<1>2. ASSUME NEW j \in DOMAIN p, j # 1 PROVE j - 1 \in DOMAIN s /\ p[j] = s[j - 1]
  <2>1. j - 1 \in 1 .. Len(s) /\ (j - 1) + 1 = j
    BY <1>1, <1>2
  <2> QED
    BY <1>1, <2>1
<1>3. \A j \in 1 .. Len(s) : j + 1 \in DOMAIN p
  BY <1>1
<1>4. 1 \in DOMAIN p
  BY <1>1
<1>5. \A j \in DOMAIN s : j + 1 \in DOMAIN p /\ p[j + 1] = s[j]
  BY <1>1, <1>3
<1>6. \A j \in DOMAIN p : j = 1 \/ (j - 1 \in DOMAIN s /\ p[j] = s[j - 1])
  BY <1>2, Zenon
<1>7. p[1] = r
  BY <1>1
<1> QED
  BY <1>4, <1>5, <1>6, <1>7, Zenon DEF p

\* Whoever pushes is at the front of the list.
LEMMA KeptItself ==
  ASSUME NEW l \in Seq(Runs), NEW p, NEW r \in Runs
  PROVE  Kept(Bounded(l, r), p, r)
<1> DEFINE b == Bounded(l, r)
<1>1. 1 \in DOMAIN b /\ b[1] = r
  <2>1. /\ b \in Seq(Runs) /\ Len(b) >= 1
        /\ \A i \in DOMAIN b :
             IF i = 1 THEN b[i] = r ELSE i - 1 \in DOMAIN l /\ b[i] = l[i - 1]
    BY BoundedIs
  <2> HIDE DEF b
  <2>2. 1 \in DOMAIN b
    BY <2>1
  <2> QED
    BY <2>1, <2>2
<1> HIDE DEF b
<1>2. 1 .. 1 - 1 = {}
  OBVIOUS
<1>3. Kept(b, p, r)
  BY <1>1, <1>2 DEF Kept
<1> QED
  BY <1>3 DEF b

\* Another push keeps whoever is kept, in the list it extends and in the others.
LEMMA KeptByOthers ==
  ASSUME NEW l \in Seq(Runs), NEW p \in Seq(Runs), NEW r \in Runs, NEW w \in Runs \ {r},
         Kept(l, p, r)
  PROVE  Kept(l, <<w>> \o p, r) /\ Kept(Bounded(l, w), <<w>> \o p, r)
<1> DEFINE q == <<w>> \o p
           b == Bounded(l, w)
<1>1. /\ q[1] # r /\ 1 \in DOMAIN q
      /\ \A j \in Nat \ {0} : j \in DOMAIN p /\ p[j] # r =>
           j + 1 \in DOMAIN q /\ q[j + 1] # r
  BY PushedShifts
<1>2. /\ b \in Seq(Runs) /\ Len(b) = (IF Len(l) < IndexLimit THEN Len(l) + 1 ELSE IndexLimit)
      /\ \A i \in DOMAIN b :
           IF i = 1 THEN b[i] = w ELSE i - 1 \in DOMAIN l /\ b[i] = l[i - 1]
  BY BoundedIs
<1> HIDE DEF q, b
<1>3. ASSUME NEW n \in Nat, \A j \in 1 .. n : j \in DOMAIN p /\ p[j] # r
      PROVE  \A j \in 1 .. n + 1 : j \in DOMAIN q /\ q[j] # r
  <2> SUFFICES ASSUME NEW j \in 1 .. n + 1 PROVE j \in DOMAIN q /\ q[j] # r
    OBVIOUS
  <2>1. CASE j = 1
    BY <1>1, <2>1
  <2>2. CASE j # 1
    <3>1. j - 1 \in 1 .. n /\ j - 1 \in Nat \ {0} /\ (j - 1) + 1 = j
      BY <2>2
    <3>2. j - 1 \in DOMAIN p /\ p[j - 1] # r
      BY <1>3, <3>1
    <3>3. (j - 1) + 1 \in DOMAIN q /\ q[(j - 1) + 1] # r
      BY <1>1, <3>1, <3>2
    <3> QED
      BY <3>1, <3>3
  <2> QED
    BY <2>1, <2>2
<1>4. ASSUME NEW n \in Nat, NEW m \in Nat, n <= m, \A j \in 1 .. m : j \in DOMAIN q /\ q[j] # r
      PROVE  \A j \in 1 .. n : j \in DOMAIN q /\ q[j] # r
  BY <1>4
<1>5. CASE \A j \in 1 .. IndexLimit : j \in DOMAIN p /\ p[j] # r
  <2>1. IndexLimit \in Nat /\ IndexLimit + 1 \in Nat /\ IndexLimit <= IndexLimit + 1
    BY HistoryAssumption
  <2>2. \A j \in 1 .. IndexLimit + 1 : j \in DOMAIN q /\ q[j] # r
    BY <1>3, <1>5, <2>1
  <2>3. \A j \in 1 .. IndexLimit : j \in DOMAIN q /\ q[j] # r
    BY <1>4, <2>1, <2>2
  <2> QED
    BY <2>3 DEF Kept, q
<1>6. CASE \E i \in DOMAIN l : l[i] = r /\ \A j \in 1 .. i - 1 : j \in DOMAIN p /\ p[j] # r
  <2>1. PICK i \in DOMAIN l : l[i] = r /\ \A j \in 1 .. i - 1 : j \in DOMAIN p /\ p[j] # r
    BY <1>6
  <2>2. /\ i \in Nat \ {0} /\ i - 1 \in Nat /\ (i - 1) + 1 = i /\ i - 1 <= i
        /\ (i + 1) - 1 = i /\ i <= Len(l) /\ Len(l) \in Nat /\ DOMAIN b = 1 .. Len(b)
    BY <1>2, <2>1
  <2>3. \A j \in 1 .. i : j \in DOMAIN q /\ q[j] # r
    BY <1>3, <2>1, <2>2
  <2>4. \A j \in 1 .. i - 1 : j \in DOMAIN q /\ q[j] # r
    BY <1>4, <2>2, <2>3
  <2>5. Kept(l, q, r)
    BY <2>1, <2>4 DEF Kept
  <2>6. CASE i + 1 \in DOMAIN b
    <3>1. b[i + 1] = l[i]
      <4>1. i + 1 # 1
        BY <2>2
      <4> QED
        BY <1>2, <2>2, <2>6, <4>1
    <3>2. \A j \in 1 .. (i + 1) - 1 : j \in DOMAIN q /\ q[j] # r
      BY <2>2, <2>3
    <3>3. Kept(b, q, r)
      BY <2>1, <2>6, <3>1, <3>2 DEF Kept
    <3> QED
      BY <2>5, <3>3 DEF q, b
  <2>7. CASE i + 1 \notin DOMAIN b
    <3>1. IndexLimit \in Nat /\ IndexLimit <= i
      BY <1>2, <2>2, <2>7, HistoryAssumption
    <3>2. \A j \in 1 .. IndexLimit : j \in DOMAIN q /\ q[j] # r
      BY <1>4, <2>2, <2>3, <3>1
    <3>3. Kept(b, q, r)
      BY <3>2 DEF Kept
    <3> QED
      BY <2>5, <3>3 DEF q, b
  <2> QED
    BY <2>6, <2>7
<1> QED
  BY <1>5, <1>6 DEF Kept

LEMMA FoundQuietStep ==
  ASSUME HistoryInv, HistoryInv', FoundInv, NEW r \in Runs,
         EndRun(r) \/ PutRecord(r) \/ ReadIds(r) \/ BreakOff(r)
  PROVE  FoundInv'
<1>1. /\ UNCHANGED <<index, pushed, lost>> /\ HistoryTypeOK
      /\ \A q \in Runs \ {r} : /\ at'[q] = at[q] /\ own'[q] = own[q] /\ keys'[q] = keys[q]
                               /\ seen'[q] = seen[q] /\ unseen'[q] = unseen[q]
      /\ unseen' \in [Runs -> SUBSET Runs]
  BY DEF EndRun, PutRecord, ReadIds, BreakOff, HistoryInv, HistoryTypeOK, FoundInv
<1>2. \A q \in Runs \ {r} : \A k : Accounted(q, k)' = Accounted(q, k)
  BY <1>1 DEF Accounted, Pushed
<1>3. ASSUME \A k \in IndexKeys : \A q \in Pushing(k)' :
               \/ q \in Pushing(k) /\ seen'[q] = seen[q] /\ unseen'[q] = unseen[q]
               \/ seen'[q] = index[k]
      PROVE  \A k \in IndexKeys : \A q \in Runs \ lost[k] : Pushed(pushed[k], q) =>
               \A w \in Pushing(k)' : q \in unseen'[w] \/ Kept(seen'[w], pushed[k], q)
  BY <1>3 DEF FoundInv
<1>4. \A k : \A q \in Pushing(k)' \ {r} :
        q \in Pushing(k) /\ seen'[q] = seen[q] /\ unseen'[q] = unseen[q]
  BY <1>1 DEF Pushing
<1> DEFINE
  Local(q) ==
    /\ at[q] = "running" => own[q] = Unstored
    /\ at[q] = "done" => keys[q] = <<>> \/ own[q] = Unstored
    /\ at[q] \in {"reading", "writing", "done"} /\ own[q] # Unstored =>
         \A i \in DOMAIN KeysOf(own[q]) : Accounted(q, KeysOf(own[q])[i])
<1>9. \A q \in Runs \ {r} : Local(q)'
  BY <1>1, <1>2 DEF FoundInv
<1>10. ASSUME Local(r)', \A k \in IndexKeys : r \in Pushing(k)' => seen'[r] = index[k]
       PROVE  FoundInv'
  <2>1. \A k \in IndexKeys : \A q \in Runs \ lost[k] : Pushed(pushed[k], q) =>
               \A w \in Pushing(k)' : q \in unseen'[w] \/ Kept(seen'[w], pushed[k], q)
    BY <1>3, <1>4, <1>10
  <2>2. \A q \in Runs : Local(q)'
    BY <1>9, <1>10
  <2>3. /\ lost' \in [IndexKeys -> SUBSET Runs]
        /\ \A k \in IndexKeys :
             /\ Len(index'[k]) <= IndexLimit
             /\ \A q \in Runs \ lost'[k] : Pushed(pushed'[k], q) => Kept(index'[k], pushed'[k], q)
    BY <1>1 DEF FoundInv
  <2> HIDE DEF Local
  <2>4. \A k \in IndexKeys :
       /\ Len(index'[k]) <= IndexLimit
       /\ \A q \in Runs \ lost'[k] : Pushed(pushed'[k], q) =>
            /\ Kept(index'[k], pushed'[k], q)
            /\ \A w \in Pushing(k)' : q \in unseen'[w] \/ Kept(seen'[w], pushed'[k], q)
    BY <1>1, <2>1, <2>3
  <2> USE DEF Local
  <2> QED
    BY <1>1, <2>2, <2>3, <2>4 DEF FoundInv
<1>5. CASE EndRun(r)
  <2>1. /\ at[r] = "running" /\ keys'[r] = keys[r]
        /\ \/ at'[r] = "ended"
           \/ at'[r] = "done" /\ own'[r] = Unstored
    BY <1>1, <1>5 DEF EndRun, HistoryTypeOK, FoundInv
  <2>2. \A k : r \notin Pushing(k)'
    BY <2>1 DEF Pushing
  <2> QED
    BY <1>10, <2>1, <2>2 DEF FoundInv
<1>6. CASE PutRecord(r)
  <2>1. at[r] = "ended" /\ at'[r] = "reading" /\ own'[r] = own[r] /\ keys'[r] = KeysOf(own[r])
    BY <1>1, <1>6 DEF PutRecord, HistoryTypeOK
  <2>2. \A k : r \notin Pushing(k)'
    BY <2>1 DEF Pushing
  <2>3. (\A i \in DOMAIN KeysOf(own[r]) : Accounted(r, KeysOf(own[r])[i]))'
    BY <2>1 DEF Accounted
  <2> QED
    BY <1>10, <2>1, <2>2, <2>3
<1>7. CASE ReadIds(r)
  <2>1. /\ at[r] = "reading" /\ at'[r] = "writing" /\ own'[r] = own[r] /\ keys'[r] = keys[r]
        /\ seen'[r] = index[Head(keys[r])]
    BY <1>1, <1>7 DEF ReadIds, HistoryTypeOK
  <2>2. \A k : r \in Pushing(k)' => seen'[r] = index[k]
    BY <1>1, <2>1 DEF Pushing
  <2>3. \A q \in Runs : \A k : Accounted(q, k)' = Accounted(q, k)
    BY <1>1, <2>1 DEF Accounted, Pushed
  <2>4. Local(r)'
    BY <2>1, <2>3 DEF FoundInv
  <2> QED
    BY <1>10, <2>2, <2>4
<1>8. CASE BreakOff(r)
  <2>1. at'[r] = "broken" /\ own'[r] = own[r]
    BY <1>1, <1>8 DEF BreakOff, HistoryTypeOK
  <2>2. \A k : r \notin Pushing(k)'
    BY <2>1 DEF Pushing
  <2> QED
    BY <1>10, <2>1, <2>2
<1> QED
  BY <1>5, <1>6, <1>7, <1>8

LEMMA TailOfOne ==
  ASSUME NEW s \in Seq(IndexKeys), Len(s) = 1
  PROVE  Tail(s) = <<>>
<1>1. s # <<>>
  BY EmptySeq
<1>2. Tail(s) \in Seq(IndexKeys) /\ Len(Tail(s)) = 0
  BY <1>1, HeadTailProperties
<1> QED
  BY <1>2, EmptySeq

LEMMA HeadOrTail ==
  ASSUME NEW s \in Seq(IndexKeys), s # <<>>, NEW j \in DOMAIN s
  PROVE  s[j] = Head(s) \/ \E i \in DOMAIN Tail(s) : Tail(s)[i] = s[j]
<1>1. /\ Tail(s) \in Seq(IndexKeys) /\ Len(Tail(s)) = Len(s) - 1
      /\ \A i \in 1 .. Len(Tail(s)) : Tail(s)[i] = s[i + 1]
  BY HeadTailProperties
<1>2. Len(s) \in Nat \ {0} /\ DOMAIN s = 1 .. Len(s) /\ Head(s) = s[1]
  BY LenProperties, EmptySeq
<1>3. DOMAIN Tail(s) = 1 .. Len(s) - 1
  BY <1>1, LenProperties
<1>4. CASE j = 1
  BY <1>2, <1>4
<1>5. CASE j # 1
  <2>1. j - 1 \in 1 .. Len(s) - 1 /\ (j - 1) + 1 = j
    BY <1>2, <1>5
  <2>2. j - 1 \in DOMAIN Tail(s) /\ Tail(s)[j - 1] = s[j]
    BY <1>1, <1>3, <2>1
  <2> QED
    BY <2>2
<1> QED
  BY <1>4, <1>5

LEMMA FoundWriteStep ==
  ASSUME HistoryInv, HistoryInv', FoundInv, NEW r \in Runs, WriteIds(r)
  PROVE  FoundInv'
<1> DEFINE k == Head(keys[r])
           p == <<r>> \o pushed[k]
           b == Bounded(seen[r], r)
<1>1. /\ HistoryTypeOK /\ at[r] = "writing"
      /\ keys[r] \in Seq(IndexKeys) /\ keys[r] # <<>> /\ k \in IndexKeys
  <2>1. HistoryTypeOK /\ at[r] = "writing" /\ keys[r] \in Seq(IndexKeys) /\ keys[r] # <<>>
    BY DEF WriteIds, HistoryInv, HistoryTypeOK
  <2> QED
    BY <2>1
<1>2. /\ index'[k] = b /\ pushed'[k] = p /\ keys'[r] = Tail(keys[r]) /\ own' = own
      /\ at'[r] = (IF Len(keys[r]) = 1 THEN "done" ELSE "reading")
      /\ lost' = [lost EXCEPT ![k] = (@ \cup unseen[r]) \ {r}]
      /\ unseen' \in [Runs -> SUBSET Runs]
      /\ \A q \in Runs \ {r} : unseen[q] \subseteq unseen'[q]
      /\ \A q \in Pushing(k) \ {r} : r \in unseen'[q]
      /\ \A l \in IndexKeys \ {k} : index'[l] = index[l] /\ pushed'[l] = pushed[l]
      /\ \A q \in Runs \ {r} : /\ at'[q] = at[q] /\ seen'[q] = seen[q] /\ keys'[q] = keys[q]
  <2>1. /\ index' = [index EXCEPT ![k] = b] /\ pushed' = [pushed EXCEPT ![k] = p]
        /\ keys' = [keys EXCEPT ![r] = Tail(@)] /\ seen' = [seen EXCEPT ![r] = <<>>]
        /\ at' = [at EXCEPT ![r] = IF Len(keys[r]) = 1 THEN "done" ELSE "reading"]
        /\ unseen' = [q \in Runs |-> IF q = r THEN {}
                                     ELSE IF q \in Pushing(k) THEN unseen[q] \cup {r}
                                     ELSE unseen[q]]
        /\ lost' = [lost EXCEPT ![k] = (@ \cup unseen[r]) \ {r}]
        /\ own' = own
    BY DEF WriteIds
  <2>2. \A l : Pushing(l) \subseteq Runs
    BY DEF Pushing
  <2>3. unseen \in [Runs -> SUBSET Runs]
    BY DEF FoundInv
  <2> HIDE DEF k, b, p
  <2>4. /\ unseen' \in [Runs -> SUBSET Runs]
        /\ \A q \in Runs \ {r} : unseen[q] \subseteq unseen'[q]
        /\ \A q \in Pushing(k) \ {r} : r \in unseen'[q]
    BY <2>1, <2>2, <2>3
  <2> QED
    BY <1>1, <2>1, <2>4 DEF HistoryTypeOK
<1>3. /\ seen[r] \in Seq(Runs) /\ \A l \in IndexKeys : pushed[l] \in Seq(Runs)
  BY <1>1 DEF HistoryTypeOK
<1>4. r \in Pushing(k) /\ \A l : Pushing(l)' = Pushing(l) \ {r}
  BY <1>1, <1>2 DEF Pushing
<1>5. /\ \A j \in DOMAIN pushed[k] : j + 1 \in DOMAIN p /\ p[j + 1] = pushed[k][j]
      /\ \A j \in DOMAIN p : j = 1 \/ (j - 1 \in DOMAIN pushed[k] /\ p[j] = pushed[k][j - 1])
      /\ 1 \in DOMAIN p /\ p[1] = r
  <2>1. pushed[k] \in Seq(Runs)
    BY <1>1, <1>3
  <2> QED
    BY <2>1, PushedShifts
<1>6. \A j \in DOMAIN keys[r] :
        keys[r][j] = k \/ \E i \in DOMAIN Tail(keys[r]) : Tail(keys[r])[i] = keys[r][j]
  BY <1>1, HeadOrTail
<1>7. Len(keys[r]) = 1 => Tail(keys[r]) = <<>>
  BY <1>1, TailOfOne
<1>8. /\ b \in Seq(Runs) /\ Len(b) <= IndexLimit /\ \A l : Kept(b, l, r)
  BY <1>3, BoundedIs, KeptItself
<1>9. \A q \in Runs \ {r} : \A l \in Seq(Runs) :
        Kept(l, pushed[k], q) => Kept(l, p, q) /\ Kept(Bounded(l, r), p, q)
  BY <1>1, <1>3, KeptByOthers
<1>10. \A q \in Runs, l \in IndexKeys : Accounted(q, l) => Accounted(q, l)'
  <2> SUFFICES ASSUME NEW q \in Runs, NEW l \in IndexKeys, Accounted(q, l)
               PROVE  Accounted(q, l)'
    OBVIOUS
  <2> HIDE DEF k, p
  <2>1. CASE \E j \in DOMAIN pushed[l] : pushed[l][j] = q
    BY <1>2, <1>5, <2>1 DEF Accounted, Pushed
  <2>2. CASE q = r /\ \E j \in DOMAIN keys[r] : keys[r][j] = l
    <3>1. PICK j \in DOMAIN keys[r] : keys[r][j] = l
      BY <2>2
    <3>2. CASE l = k
      <4>1. pushed'[l] = p
        BY <1>2, <3>2
      <4> QED
        BY <1>5, <2>2, <4>1 DEF Accounted, Pushed
    <3>3. CASE l # k
      <4>1. \E i \in DOMAIN keys'[r] : keys'[r][i] = l
        BY <1>2, <1>6, <3>1, <3>3
      <4> QED
        BY <2>2, <4>1 DEF Accounted
    <3> QED
      BY <3>2, <3>3
  <2>3. CASE q # r /\ \E j \in DOMAIN keys[q] : keys[q][j] = l
    BY <1>2, <2>3 DEF Accounted
  <2> QED
    BY <2>1, <2>2, <2>3 DEF Accounted, Pushed
<1> HIDE DEF k, b, p
<1>11. ASSUME NEW l \in IndexKeys
       PROVE  /\ Len(index'[l]) <= IndexLimit
              /\ \A q \in Runs \ lost'[l] : Pushed(pushed'[l], q) =>
                   /\ Kept(index'[l], pushed'[l], q)
                   /\ \A w \in Pushing(l)' : q \in unseen'[w] \/ Kept(seen'[w], pushed'[l], q)
  <2>1. \A q \in Runs \ lost[l] : Pushed(pushed[l], q) =>
          /\ Kept(index[l], pushed[l], q)
          /\ \A w \in Pushing(l) : q \in unseen[w] \/ Kept(seen[w], pushed[l], q)
    BY DEF FoundInv
  <2>2. \A w \in Pushing(l)' : /\ w \in Pushing(l) /\ w \in Runs \ {r}
                               /\ seen'[w] = seen[w] /\ unseen[w] \subseteq unseen'[w]
    BY <1>2, <1>4 DEF Pushing
  <2>3. CASE l = k
    <3>1. index'[l] = b /\ pushed'[l] = p /\ lost'[l] = (lost[l] \cup unseen[r]) \ {r}
      BY <1>1, <1>2, <2>3 DEF FoundInv
    <3>2. ASSUME NEW q \in Runs \ lost'[l], Pushed(p, q)
          PROVE  /\ Kept(b, p, q)
                 /\ \A w \in Pushing(l)' : q \in unseen'[w] \/ Kept(seen'[w], p, q)
      <4>1. CASE q = r
        <5>1. \A w \in Pushing(l)' : r \in unseen'[w]
          BY <1>2, <2>2, <2>3
        <5> QED
          BY <1>8, <4>1, <5>1
      <4>2. CASE q # r
        <5>1. q \in Runs \ lost[l] /\ q \notin unseen[r] /\ q \in Runs \ {r}
          BY <3>1, <3>2, <4>2
        <5>2. Pushed(pushed[l], q)
          <6>1. PICK j \in DOMAIN p : p[j] = q
            BY <3>2 DEF Pushed
          <6>2. j # 1
            BY <1>5, <4>2, <6>1
          <6> QED
            BY <1>5, <2>3, <6>1, <6>2 DEF Pushed
        <5>3. Kept(seen[r], pushed[k], q)
          BY <1>4, <2>1, <2>3, <5>1, <5>2
        <5>4. Kept(b, p, q)
          BY <1>3, <1>9, <5>1, <5>3 DEF b
        <5>5. ASSUME NEW w \in Pushing(l)', q \notin unseen'[w]
              PROVE  Kept(seen'[w], p, q)
          <6>1. w \in Pushing(l) /\ w \in Runs /\ seen'[w] = seen[w] /\ q \notin unseen[w]
            BY <2>2, <5>5
          <6>2. Kept(seen[w], pushed[k], q) /\ seen[w] \in Seq(Runs)
            BY <1>1, <2>1, <2>3, <5>1, <5>2, <6>1 DEF HistoryTypeOK
          <6> QED
            BY <1>9, <5>1, <6>1, <6>2
        <5> QED
          BY <5>4, <5>5
      <4> QED
        BY <4>1, <4>2
    <3> QED
      BY <1>8, <3>1, <3>2
  <2>4. CASE l # k
    <3>1. index'[l] = index[l] /\ pushed'[l] = pushed[l] /\ lost'[l] = lost[l]
      BY <1>1, <1>2, <2>4 DEF FoundInv
    <3> QED
      BY <2>1, <2>2, <3>1 DEF FoundInv
  <2> QED
    BY <2>3, <2>4
<1>12. ASSUME NEW q \in Runs
       PROVE  /\ at'[q] = "running" => own'[q] = Unstored
              /\ at'[q] = "done" => keys'[q] = <<>> \/ own'[q] = Unstored
              /\ at'[q] \in {"reading", "writing", "done"} /\ own'[q] # Unstored =>
                   (\A i \in DOMAIN KeysOf(own[q]) : Accounted(q, KeysOf(own[q])[i]))'
  <2>1. CASE own[q] = Unstored
    BY <1>2, <2>1
  <2>2. CASE own[q] # Unstored
    <3>1. own[q] \in Record /\ \A i \in DOMAIN KeysOf(own[q]) : KeysOf(own[q])[i] \in IndexKeys
      <4>1. own[q] \in Record
        BY <1>1, <2>2 DEF HistoryTypeOK
      <4>2. KeysOf(own[q]) \in Seq(IndexKeys)
        BY <4>1, KeysOfType
      <4> QED
        BY <4>1, <4>2
    <3>2. at'[q] \in {"reading", "writing", "done"} => at[q] \in {"reading", "writing", "done"}
      BY <1>1, <1>2
    <3>3. at'[q] \in {"reading", "writing", "done"} =>
            (\A i \in DOMAIN KeysOf(own[q]) : Accounted(q, KeysOf(own[q])[i]))'
      <4>1. at[q] \in {"reading", "writing", "done"} =>
              \A i \in DOMAIN KeysOf(own[q]) : Accounted(q, KeysOf(own[q])[i])
        BY <2>2 DEF FoundInv
      <4>2. \A l \in IndexKeys : Accounted(q, l) => Accounted(q, l)'
        BY <1>10
      <4>3. own' = own
        BY <1>2
      <4> QED
        BY <3>1, <3>2, <4>1, <4>2, <4>3 DEF Accounted
    <3>4. at'[q] = "running" => own[q] = Unstored
      BY <1>2 DEF FoundInv
    <3>5. at'[q] = "done" => keys'[q] = <<>>
      BY <1>2, <1>7, <2>2 DEF FoundInv
    <3> QED
      BY <1>2, <3>3, <3>4, <3>5
  <2> QED
    BY <2>1, <2>2
<1>13. lost' \in [IndexKeys -> SUBSET Runs] /\ unseen' \in [Runs -> SUBSET Runs]
  <2>1. unseen[r] \subseteq Runs /\ lost \in [IndexKeys -> SUBSET Runs]
    BY DEF FoundInv
  <2> QED
    BY <1>1, <1>2, <2>1
<1> QED
  BY <1>11, <1>12, <1>13 DEF FoundInv

\* Within the limit, a query looks at every id of a list.
LEMMA QueryReturnsAll ==
  ASSUME HistoryInv, NEW k \in IndexKeys, Len(index[k]) <= IndexLimit, NEW i \in DOMAIN index[k]
  PROVE  index[k][i] \in Query(k, IndexLimit)
<1>1. index[k] \in Seq(Runs) /\ DOMAIN index[k] = 1 .. Len(index[k]) /\ Len(index[k]) \in Nat
  BY DEF HistoryInv, HistoryTypeOK
<1>2. Present(k) = 1 .. Len(index[k])
  BY <1>1 DEF Present, HistoryInv, Belongs
<1>3. {j \in Present(k) : j <= i} = 1 .. i
  BY <1>1, <1>2
<1>4. Cardinality(1 .. i) = i
  <2>1. i \in Int /\ 1 \in Int /\ i >= 1
    BY <1>1
  <2>2. Cardinality(1 .. i) = IF 1 > i THEN 0 ELSE i - 1 + 1
    BY <2>1, FS_Interval
  <2> QED
    BY <2>1, <2>2
<1>5. i \in Present(k) /\ i <= IndexLimit
  BY <1>1, <1>2, HistoryAssumption
<1> QED
  BY <1>3, <1>4, <1>5 DEF Query

\* A run that recorded to the end is found under every key of its record, until as
\* many newer ids as a list holds were pushed after it: only a writer that had read
\* the list before the run wrote it, and wrote it after, can lose it.
THEOREM FinishedFound == HistorySpec => []FinishedAreFound
<1>1. HistoryInit => FoundInv
  <2> SUFFICES ASSUME HistoryInit PROVE FoundInv
    OBVIOUS
  <2>1. \A k \in IndexKeys : index[k] = <<>> /\ pushed[k] = <<>> /\ lost[k] = {}
    BY DEF HistoryInit
  <2>2. /\ \A r \in Runs : at[r] = "running" /\ own[r] = Unstored
        /\ lost \in [IndexKeys -> SUBSET Runs] /\ unseen \in [Runs -> SUBSET Runs]
    BY DEF HistoryInit
  <2>3. \A r : ~Pushed(<<>>, r)
    BY DEF Pushed
  <2>4. Len(<<>>) <= IndexLimit
    BY HistoryAssumption
  <2> QED
    BY <2>1, <2>2, <2>3, <2>4 DEF FoundInv
<1>2. HistoryInv /\ HistoryInv' /\ FoundInv /\ [HistoryNext]_historyVars => FoundInv'
  <2>1. FoundInv /\ UNCHANGED historyVars => FoundInv'
    BY DEF historyVars, FoundInv, Pushing, Accounted
  <2> QED
    BY <2>1, FoundQuietStep, FoundWriteStep DEF HistoryNext, HistoryStep
<1>3. HistoryInv /\ FoundInv => FinishedAreFound
  <2> SUFFICES ASSUME HistoryInv, FoundInv, NEW r \in Runs, at[r] = "done", own[r] # Unstored,
                      NEW i \in DOMAIN KeysOf(own[r]), r \notin lost[KeysOf(own[r])[i]]
               PROVE  LET k == KeysOf(own[r])[i] IN
                      \/ r \in Query(k, IndexLimit)
                      \/ \A j \in 1 .. IndexLimit : j \in DOMAIN pushed[k] /\ pushed[k][j] # r
    BY DEF FinishedAreFound
  <2> DEFINE k == KeysOf(own[r])[i]
  <2>1. k \in IndexKeys
    <3>1. own[r] \in Record
      BY DEF HistoryInv, HistoryTypeOK
    <3>2. KeysOf(own[r]) \in Seq(IndexKeys)
      BY <3>1, KeysOfType
    <3> QED
      BY <3>2
  <2>2. Accounted(r, k) /\ keys[r] = <<>> /\ r \in Runs \ lost[k]
    BY DEF FoundInv
  <2> HIDE DEF k
  <2>3. Pushed(pushed[k], r)
    BY <2>2 DEF Accounted
  <2>4. Kept(index[k], pushed[k], r) /\ Len(index[k]) <= IndexLimit
    BY <2>1, <2>2, <2>3 DEF FoundInv
  <2>5. CASE \E m \in DOMAIN index[k] : index[k][m] = r
    <3>1. r \in Query(k, IndexLimit)
      BY <2>1, <2>4, <2>5, QueryReturnsAll
    <3> QED
      BY <3>1 DEF k
  <2>6. CASE \A j \in 1 .. IndexLimit : j \in DOMAIN pushed[k] /\ pushed[k][j] # r
    BY <2>6 DEF k
  <2> QED
    BY <2>4, <2>5, <2>6 DEF Kept
<1> QED
  BY <1>1, <1>2, <1>3, HistoryInitially, HistoryStepKeeps, PTL DEF HistorySpec
=============================================================================
