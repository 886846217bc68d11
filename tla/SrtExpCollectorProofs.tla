------------------------ MODULE SrtExpCollectorProofs ------------------------
(***************************************************************************)
(* Theorems of SrtExpCollector, for any number of sockets, variables and   *)
(* labels.                                                                 *)
(***************************************************************************)
EXTENDS SrtExpCollector, SrtExpFilterProofs

-----------------------------------------------------------------------------
(* The operators                                                           *)

\* A function on 1 .. n is a sequence of length n.
LEMMA FunctionIsSeq ==
    ASSUME NEW S, NEW n \in Nat, NEW f \in [1 .. n -> S]
    PROVE  f \in Seq(S) /\ Len(f) = n
<1>1. f \in Seq(S)
  BY SeqDef
<1>2. Len(f) \in Nat /\ DOMAIN f = 1 .. Len(f)
  BY <1>1, LenProperties
<1>3. DOMAIN f = 1 .. n
  OBVIOUS
<1>4. Len(f) = n
  BY <1>2, <1>3
<1> QED
  BY <1>1, <1>4

\* What LabelRegister does to a list: it appends, changes or erases one element.
LEMMA WithLabelCases ==
    ASSUME NEW list \in Seq(LabelType), NEW n \in LabelNames,
           NEW v \in LabelValues \cup {NULL}
    PROVE  LET i == FirstOf(list, n)
           IN  \/ v = NULL /\ i = 0 /\ WithLabel(list, n, v) = list
               \/ v = NULL /\ i \in 1 .. Len(list) /\ WithLabel(list, n, v) = RemoveAt(list, i)
               \/ /\ v \in LabelValues
                  /\ i = 0
                  /\ WithLabel(list, n, v) = Append(list, [name |-> n, value |-> v])
               \/ /\ v \in LabelValues
                  /\ i \in 1 .. Len(list)
                  /\ list[i].name = n
                  /\ WithLabel(list, n, v) = [list EXCEPT ![i] = [name |-> n, value |-> v]]
<1> DEFINE i == FirstOf(list, n)
<1>1. i \in 0 .. Len(list) /\ (i # 0 => list[i].name = n)
  BY FirstNamed
<1>2. WithLabel(list, n, v) =
        IF v = NULL THEN IF i = 0 THEN list ELSE RemoveAt(list, i)
        ELSE IF i = 0 THEN Append(list, [name |-> n, value |-> v])
        ELSE [list EXCEPT ![i].value = v]
  BY DEF WithLabel
<1>3. Len(list) \in Nat /\ \A j \in 1 .. Len(list) : list[j] \in LabelType
  BY LenProperties, ElementOfSeq
<1> HIDE DEF i
<1>4. i # 0 => i \in 1 .. Len(list) /\ [list[i] EXCEPT !.value = v] = [name |-> n, value |-> v]
  BY <1>1, <1>3 DEF LabelType
<1>5. v \in LabelValues => v # NULL
  BY CollectorAssumption
<1>6. i # 0 => [list EXCEPT ![i].value = v] = [list EXCEPT ![i] = [name |-> n, value |-> v]]
  BY <1>4
<1> SUFFICES
      \/ v = NULL /\ i = 0 /\ WithLabel(list, n, v) = list
      \/ v = NULL /\ i \in 1 .. Len(list) /\ WithLabel(list, n, v) = RemoveAt(list, i)
      \/ /\ v \in LabelValues
         /\ i = 0
         /\ WithLabel(list, n, v) = Append(list, [name |-> n, value |-> v])
      \/ /\ v \in LabelValues
         /\ i \in 1 .. Len(list)
         /\ list[i].name = n
         /\ WithLabel(list, n, v) = [list EXCEPT ![i] = [name |-> n, value |-> v]]
  BY DEF i
<1> QED
  BY <1>1, <1>2, <1>4, <1>5, <1>6

\* A list of labels stays one.
LEMMA WithLabelType ==
    ASSUME NEW list \in Seq(LabelType), NEW n \in LabelNames,
           NEW v \in LabelValues \cup {NULL}
    PROVE  WithLabel(list, n, v) \in Seq(LabelType)
<1> DEFINE i == FirstOf(list, n)
<1>1. v \in LabelValues => [name |-> n, value |-> v] \in LabelType
  BY DEF LabelType
<1>2. i \in 1 .. Len(list) => RemoveAt(list, i) \in Seq(LabelType)
  BY RemoveAtFacts
<1>3. v \in LabelValues => Append(list, [name |-> n, value |-> v]) \in Seq(LabelType)
  BY <1>1, AppendProperties
<1>4. v \in LabelValues /\ i \in 1 .. Len(list) =>
        [list EXCEPT ![i] = [name |-> n, value |-> v]] \in Seq(LabelType)
  BY <1>1, ExceptSeq
<1>5. \/ v = NULL /\ i = 0 /\ WithLabel(list, n, v) = list
      \/ v = NULL /\ i \in 1 .. Len(list) /\ WithLabel(list, n, v) = RemoveAt(list, i)
      \/ /\ v \in LabelValues
         /\ i = 0
         /\ WithLabel(list, n, v) = Append(list, [name |-> n, value |-> v])
      \/ /\ v \in LabelValues
         /\ i \in 1 .. Len(list)
         /\ WithLabel(list, n, v) = [list EXCEPT ![i] = [name |-> n, value |-> v]]
  BY WithLabelCases
<1> HIDE DEF i
<1> QED
  BY <1>2, <1>3, <1>4, <1>5

\* In a list that repeats no name a registration replaces the labels of one name by
\* the label it gives, or by none, and still no name is repeated.
LEMMA WithLabelReplaces ==
    ASSUME NEW list \in Seq(LabelType), DistinctNames(list), NEW n \in LabelNames,
           NEW v \in LabelValues \cup {NULL}
    PROVE  /\ DistinctNames(WithLabel(list, n, v))
           /\ ToSet(WithLabel(list, n, v)) =
                 {l \in ToSet(list) : l.name # n}
                    \cup IF v = NULL THEN {} ELSE {[name |-> n, value |-> v]}
<1> DEFINE i == FirstOf(list, n)
           e == [name |-> n, value |-> v]
           r == WithLabel(list, n, v)
           Others == {l \in ToSet(list) : l.name # n}
<1>1. \/ v = NULL /\ i = 0 /\ r = list
      \/ v = NULL /\ i \in 1 .. Len(list) /\ r = RemoveAt(list, i)
      \/ v \in LabelValues /\ i = 0 /\ r = Append(list, e)
      \/ /\ v \in LabelValues /\ i \in 1 .. Len(list) /\ list[i].name = n
         /\ r = [list EXCEPT ![i] = e]
  BY WithLabelCases
<1>2. i = 0 => \A j \in 1 .. Len(list) : list[j].name # n
  BY FirstNamed
<1>3. i # 0 => list[i].name = n
  BY FirstNamed
<1>4. /\ Len(list) \in Nat /\ DOMAIN list = 1 .. Len(list)
      /\ ToSet(list) = {list[j] : j \in 1 .. Len(list)}
  BY LenProperties, ToSetIs
<1>5. \A j, k \in 1 .. Len(list) : list[j].name = list[k].name => j = k
  BY <1>4 DEF DistinctNames
<1>6. i # 0 /\ i \in 1 .. Len(list) => \A j \in 1 .. Len(list) : list[j].name = n <=> j = i
  BY <1>3, <1>5
<1>7. e.name = n /\ (v \in LabelValues => e \in LabelType /\ v # NULL)
  BY CollectorAssumption DEF LabelType
<1>8. r \in Seq(LabelType) /\ DOMAIN r = 1 .. Len(r) /\ ToSet(r) = {r[j] : j \in 1 .. Len(r)}
  BY WithLabelType, LenProperties, ToSetIs
<1> SUFFICES /\ \A j, k \in 1 .. Len(r) : r[j].name = r[k].name => j = k
             /\ ToSet(r) = Others \cup IF v = NULL THEN {} ELSE {e}
  BY <1>8 DEF DistinctNames
<1> HIDE DEF i, r, e
<1>9. CASE v = NULL /\ i = 0 /\ r = list
  BY <1>2, <1>4, <1>5, <1>9
<1>10. CASE v = NULL /\ i \in 1 .. Len(list) /\ r = RemoveAt(list, i)
  <2>1. /\ Len(r) = Len(list) - 1
        /\ \A j \in 1 .. Len(list) - 1 : r[j] = IF j < i THEN list[j] ELSE list[j + 1]
    BY <1>10, RemoveAtFacts
  <2> DEFINE at == [j \in 1 .. Len(list) - 1 |-> IF j < i THEN j ELSE j + 1]
  <2>2. \A j \in 1 .. Len(r) : /\ at[j] \in 1 .. Len(list) /\ at[j] # i
                               /\ r[j] = list[at[j]]
    BY <1>4, <1>10, <2>1
  <2>3. \A j, k \in 1 .. Len(r) : at[j] = at[k] => j = k
    BY <1>4, <1>10, <2>1
  <2>4. ASSUME NEW k \in 1 .. Len(list), k # i
        PROVE  \E j \in 1 .. Len(r) : at[j] = k
    <3>1. CASE k < i
      <4>1. k \in 1 .. Len(r)
        BY <1>4, <1>10, <2>1, <3>1
      <4> QED
        BY <1>4, <2>1, <3>1, <4>1
    <3>2. CASE k > i
      <4>1. k - 1 \in 1 .. Len(r) /\ ~ (k - 1 < i) /\ k - 1 + 1 = k
        BY <1>4, <1>10, <2>1, <3>2
      <4> QED
        BY <1>4, <2>1, <4>1
    <3>3. k < i \/ k > i
      BY <1>4, <1>10, <2>4
    <3> QED
      BY <3>1, <3>2, <3>3
  <2> HIDE DEF at
  <2>5. \A j, k \in 1 .. Len(r) : r[j].name = r[k].name => j = k
    BY <1>5, <2>2, <2>3
  <2>6. ToSet(r) = Others
    <3>1. i # 0
      BY <1>10
    <3>2. ASSUME NEW j \in 1 .. Len(r) PROVE r[j] \in Others
      BY <1>4, <1>6, <1>10, <2>2, <3>1
    <3>3. ASSUME NEW k \in 1 .. Len(list), list[k].name # n PROVE list[k] \in ToSet(r)
      BY <1>6, <1>8, <1>10, <2>2, <2>4, <3>1, <3>3
    <3> QED
      BY <1>4, <1>8, <3>2, <3>3
  <2> QED
    BY <1>10, <2>5, <2>6
<1>11. CASE v \in LabelValues /\ i = 0 /\ r = Append(list, e)
  <2>1. /\ Len(r) = Len(list) + 1 /\ r[Len(list) + 1] = e
        /\ \A j \in 1 .. Len(list) : r[j] = list[j]
    BY <1>7, <1>11, AppendProperties
  <2>2. 1 .. Len(r) = (1 .. Len(list)) \cup {Len(list) + 1}
    BY <1>4, <2>1
  <2>3. ToSet(r) = ToSet(list) \cup {e}
    BY <1>4, <1>8, <2>1, <2>2
  <2>4. Others = ToSet(list)
    BY <1>2, <1>4, <1>11
  <2>5. \A j, k \in 1 .. Len(r) : r[j].name = r[k].name => j = k
    BY <1>2, <1>5, <1>7, <1>11, <2>1, <2>2
  <2> QED
    BY <1>7, <1>11, <2>3, <2>4, <2>5
<1>12. CASE /\ v \in LabelValues /\ i \in 1 .. Len(list) /\ list[i].name = n
            /\ r = [list EXCEPT ![i] = e]
  <2>1. Len(r) = Len(list) /\ \A j \in 1 .. Len(list) : r[j] = IF j = i THEN e ELSE list[j]
    BY <1>7, <1>12, ExceptSeq
  <2>2. i # 0 /\ \A j \in 1 .. Len(list) : list[j].name = n <=> j = i
    BY <1>4, <1>6, <1>12
  <2>3. \A j \in 1 .. Len(r) : r[j].name = list[j].name
    BY <1>7, <1>12, <2>1
  <2>4. \A j, k \in 1 .. Len(r) : r[j].name = r[k].name => j = k
    BY <1>5, <2>1, <2>3
  <2>5. ToSet(r) = Others \cup {e}
    BY <1>4, <1>8, <1>12, <2>1, <2>2
  <2> QED
    BY <1>7, <1>12, <2>4, <2>5
<1> QED
  BY <1>1, <1>9, <1>10, <1>11, <1>12 DEF i, r, e

\* The type of the labels of a metric.
MetricLabels ==
    Seq([name : {NULL, "srt_socket"} \cup LabelNames,
         value : {NULL} \cup Sockets \cup LabelValues])

\* A copy of a list into the last metric: its labels at the list's places become
\* the list's, and nothing else changes; or it does not fit.
LEMMA FillFacts ==
    ASSUME translated \in Seq(Family), translated # <<>>, undefined \in BOOLEAN,
           NEW list \in Seq(LabelType), NEW offset \in Nat, Fill(list, offset),
           NEW f, f = translated[Len(translated)],
           NEW g, g = translated'[Len(translated)]
    PROVE  /\ translated' \in Seq(Family)
           /\ Len(translated') = Len(translated)
           /\ Len(translated) \in Nat \ {0}
           /\ f \in Family /\ f.labels \in MetricLabels
           /\ undefined' \in BOOLEAN
           /\ \A i \in 1 .. Len(translated) :
                 i # Len(translated) => translated'[i] = translated[i]
           /\ g.name = f.name /\ g.sock = f.sock /\ g.value = f.value
           /\ Len(g.labels) = Len(f.labels)
           /\ offset + Len(list) <= Len(f.labels) =>
                 /\ undefined' = undefined
                 /\ \A j \in 1 .. Len(f.labels) :
                       g.labels[j] = IF j - offset \in 1 .. Len(list)
                                     THEN list[j - offset] ELSE f.labels[j]
<1> DEFINE n == Len(translated)
           L == [name : {NULL, "srt_socket"} \cup LabelNames,
                 value : {NULL} \cup Sockets \cup LabelValues]
           new == [i \in DOMAIN f.labels |->
                      IF i - offset \in DOMAIN list THEN list[i - offset] ELSE f.labels[i]]
           filled == [f EXCEPT !.labels = new]
<1>1. n \in Nat \ {0} /\ n \in 1 .. n
  BY EmptySeq
<1>2. f \in Family
  BY <1>1, ElementOfSeq
<1>3. f.labels \in Seq(L)
  BY <1>2 DEF Family
<1>4. Len(f.labels) \in Nat /\ DOMAIN f.labels = 1 .. Len(f.labels)
      /\ \A i \in 1 .. Len(f.labels) : f.labels[i] \in L
  BY <1>3, LenProperties, ElementOfSeq
<1>5. Len(list) \in Nat /\ DOMAIN list = 1 .. Len(list)
      /\ \A i \in 1 .. Len(list) : list[i] \in LabelType
  BY LenProperties, ElementOfSeq
<1>6. LabelType \subseteq L
  BY DEF LabelType
<1>7. new \in [1 .. Len(f.labels) -> L]
  BY <1>4, <1>5, <1>6
<1>8. new \in Seq(L) /\ Len(new) = Len(f.labels)
  BY <1>4, <1>7, FunctionIsSeq
<1>9. /\ filled \in Family /\ filled.labels = new
      /\ filled.name = f.name /\ filled.sock = f.sock /\ filled.value = f.value
  BY <1>2, <1>8 DEF Family
<1>10. f.labels \in MetricLabels
  BY <1>3 DEF MetricLabels
<1>11. IF offset + Len(list) > Len(f.labels)
       THEN undefined' = TRUE /\ translated' = translated
       ELSE undefined' = undefined /\ translated' = [translated EXCEPT ![n] = filled]
  BY DEF Fill
<1>12. CASE offset + Len(list) > Len(f.labels)
  <2>1. undefined' = TRUE /\ translated' = translated /\ g = f
    BY <1>11, <1>12
  <2>2. ~ (offset + Len(list) <= Len(f.labels))
    BY <1>4, <1>5, <1>12
  <2> HIDE DEF new
  <2> QED
    BY <1>1, <1>2, <1>10, <2>1, <2>2
<1>13. CASE ~ (offset + Len(list) > Len(f.labels))
  <2> HIDE DEF filled, new, L
  <2>1. undefined' = undefined /\ translated' = [translated EXCEPT ![n] = filled]
    BY <1>11, <1>13
  <2>2. /\ translated' \in Seq(Family)
        /\ Len(translated') = n
        /\ \A j \in 1 .. n : translated'[j] = IF j = n THEN filled ELSE translated[j]
    BY <1>1, <1>9, <2>1, ExceptSeq
  <2>3. g = filled /\ \A i \in 1 .. n : i # n => translated'[i] = translated[i]
    BY <1>1, <2>2
  <2>4. \A j \in 1 .. Len(f.labels) :
           new[j] = IF j - offset \in 1 .. Len(list) THEN list[j - offset] ELSE f.labels[j]
    BY <1>4, <1>5 DEF new
  <2>5. g.labels = new /\ g.name = f.name /\ g.sock = f.sock /\ g.value = f.value
    BY <1>9, <2>3
  <2>6. undefined' \in BOOLEAN
    BY <2>1
  <2> QED
    BY <1>1, <1>2, <1>8, <1>10, <2>1, <2>2, <2>3, <2>4, <2>5, <2>6
<1> QED
  BY <1>4, <1>5, <1>12, <1>13

\* A vector that has at most n elements.
LEMMA BoundedSeqFacts ==
    ASSUME NEW S, NEW n \in Nat, NEW s
    PROVE  s \in BoundedSeq(S, n) <=> s \in Seq(S) /\ Len(s) \in 0 .. n
<1>1. ASSUME s \in BoundedSeq(S, n)
      PROVE  s \in Seq(S) /\ Len(s) \in 0 .. n
  <2>1. PICK m \in 0 .. n : s \in [1 .. m -> S]
    BY <1>1 DEF BoundedSeq, SeqOf
  <2>2. m \in Nat
    BY <2>1
  <2> QED
    BY <2>1, <2>2, FunctionIsSeq
<1>2. ASSUME s \in Seq(S), Len(s) \in 0 .. n
      PROVE  s \in BoundedSeq(S, n)
  <2>1. s \in [1 .. Len(s) -> S]
    BY <1>2, LenProperties
  <2>2. s \in UNION {[1 .. m -> S] : m \in 0 .. n}
    BY ONLY <1>2, <2>1, Zenon
  <2> QED
    BY ONLY <2>2 DEF BoundedSeq, SeqOf
<1> QED
  BY <1>1, <1>2

\* What the types say of the indices.
LEMMA StateFacts ==
    ASSUME TypeOK
    PROVE  /\ srtSock \in Seq(Sockets)
           /\ Len(srtSock) \in 0 .. MaxSockets
           /\ Len(filteredData) \in Nat
           /\ Entries = 1 .. Len(filteredData)
           /\ \A k \in Entries : filteredData[k] \in EntryType
           /\ \A k \in Entries : label[k] \in Seq(LabelType) /\ data[k] \in Datum
           /\ \A i \in 1 .. Len(srtSock) : srtSock[i] \in Sockets
           /\ \A i \in DOMAIN translated : translated[i] \in Family
<1>1. filteredData \in Seq(EntryType) /\ translated \in Seq(Family)
      /\ label \in [Entries -> Seq(LabelType)] /\ data \in [Entries -> Datum]
      /\ srtSock \in BoundedSeq(Sockets, MaxSockets)
  BY DEF TypeOK
<1>4. srtSock \in Seq(Sockets) /\ Len(srtSock) \in 0 .. MaxSockets
  BY <1>1, BoundedSeqFacts, CollectorAssumption
<1>5. Len(filteredData) \in Nat /\ DOMAIN filteredData = 1 .. Len(filteredData)
      /\ DOMAIN translated = 1 .. Len(translated)
  BY <1>1, LenProperties
<1>6. /\ \A k \in 1 .. Len(filteredData) : filteredData[k] \in EntryType
      /\ \A i \in 1 .. Len(srtSock) : srtSock[i] \in Sockets
      /\ \A i \in 1 .. Len(translated) : translated[i] \in Family
  BY <1>1, <1>4, ElementOfSeq
<1> QED
  BY <1>1, <1>4, <1>5, <1>6 DEF Entries

\* The entries that the filter selects are entries of the table.
LEMMA FilterType ==
    ASSUME NEW cfg \in Configs
    PROVE  LoadFilterFromConfig(cfg) \in Seq(EntryType)
<1> DEFINE filtered == LoadFilterFromConfig(cfg)
<1>1. filtered \in Seq(TableEntries)
  BY CollectorAssumption, FilterSelects
<1>2. TableEntries \subseteq EntryType
  <2>1. DOMAIN DataMap = 1 .. 5
    BY DEF DataMap
  <2>2. \A i \in 1 .. 5 : i = 1 \/ i = 2 \/ i = 3 \/ i = 4 \/ i = 5
    OBVIOUS
  <2>3. /\ DataMap[1] = [name |-> DataMap[1].name, offset |-> DataMap[1].offset]
        /\ DataMap[2] = [name |-> DataMap[2].name, offset |-> DataMap[2].offset]
        /\ DataMap[3] = [name |-> DataMap[3].name, offset |-> DataMap[3].offset]
        /\ DataMap[4] = [name |-> DataMap[4].name, offset |-> DataMap[4].offset]
        /\ DataMap[5] = [name |-> DataMap[5].name, offset |-> DataMap[5].offset]
    BY DEF DataMap
  <2>4. \A i \in 1 .. 5 :
           /\ DataMap[i].name \in VarNames /\ DataMap[i].offset \in Offsets
           /\ DataMap[i] = [name |-> DataMap[i].name, offset |-> DataMap[i].offset]
    BY <2>1, <2>2, <2>3 DEF VarNames, Offsets
  <2>5. TableEntries = {DataMap[i] : i \in 1 .. 5}
    BY TableFacts
  <2> QED
    BY <2>4, <2>5 DEF EntryType
<1> HIDE DEF filtered
<1>3. Len(filtered) \in Nat /\ filtered \in [1 .. Len(filtered) -> TableEntries]
  BY <1>1, LenProperties
<1>4. filtered \in [1 .. Len(filtered) -> EntryType]
  BY <1>2, <1>3
<1>5. filtered \in Seq(EntryType)
  BY <1>3, <1>4, FunctionIsSeq
<1> QED
  BY <1>5 DEF filtered

-----------------------------------------------------------------------------
(* Types and iterators                                                     *)

\* A new collector satisfies the invariant.
LEMMA InvInit == Init => IInv
<1> SUFFICES ASSUME Init PROVE IInv
  OBVIOUS
<1>1. PICK cfg \in Configs :
        filteredData = LoadFilterFromConfig(cfg) /\ commonLabel = cfg.labelList
  BY DEF Init
<1>2. filteredData \in Seq(EntryType) /\ commonLabel \in Seq(LabelType)
      /\ MaxSockets \in Nat /\ MaxStat \in Nat
  BY <1>1, CollectorAssumption, FilterType
<1>3. Len(filteredData) \in Nat
  BY <1>2, LenProperties
<1>4. srtSock \in BoundedSeq(Sockets, MaxSockets)
  <2>1. srtSock \in Seq(Sockets) /\ Len(srtSock) \in 0 .. MaxSockets
    BY <1>2 DEF Init
  <2> QED
    BY <1>2, <2>1, BoundedSeqFacts
<1>5. label \in [Entries -> Seq(LabelType)]
  BY EmptySeq DEF Init
<1>6. data \in [Entries -> Datum]
  BY <1>2 DEF Init, Datum
<1>7. translated \in Seq(Family)
  BY EmptySeq DEF Init
<1>8. TypeOK
  <2>1. undefined \in BOOLEAN
    BY DEF Init
  <2>4. pc \in PcValues /\ sockIt \in 1 .. MaxSockets + 1 /\ open \subseteq Sockets
    BY <1>2 DEF Init, PcValues
  <2>2. mapIt \in 1 .. Len(filteredData) + 1
    BY <1>3 DEF Init
  <2>3. stat \in [Sockets -> 0 .. MaxStat \cup {NULL}]
        /\ before \in [Sockets -> 0 .. MaxStat \cup {NULL}]
    BY DEF Init
  <2> QED
    BY <1>2, <1>4, <1>5, <1>6, <1>7, <2>1, <2>2, <2>3, <2>4 DEF TypeOK
<1>9. StatInv
  BY DEF StatInv, Init
<1>10. ScrapeInv
  BY DEF ScrapeInv, Init, InMetric
<1> QED
  BY <1>8, <1>9, <1>10 DEF IInv

\* A registration of sockets in the middle of the loop over them ends the program.
LEMMA SocketsPreserve ==
    ASSUME IInv, NEW socks \in BoundedSeq(Sockets, MaxSockets), SrtSockRegister(socks)
    PROVE  IInv'
<1>1. TypeOK'
  BY DEF SrtSockRegister, labels, scrape, libsrt, IInv, TypeOK, Entries, Iterating,
         MayIterate, InMetric
<1>2. StatInv'
  BY DEF SrtSockRegister, scrape, libsrt, IInv, StatInv
<1>3. ScrapeInv'
  <2>1. ~ undefined' => ~ InMetric
    BY DEF SrtSockRegister, Iterating, MayIterate
  <2>2. ~ undefined' /\ pc = "socket" => sockIt = 1
    <3> SUFFICES ASSUME ~ undefined', pc = "socket", sockIt > 1
                 PROVE  FALSE
      BY CollectorAssumption DEF IInv, TypeOK
    <3>1. undefined' = MayIterate
      BY DEF SrtSockRegister, Iterating
    <3>2. srtSock = <<>>
      BY <3>1 DEF MayIterate
    <3>3. ~ (sockIt <= Len(srtSock))
      BY <3>2, CollectorAssumption DEF IInv, TypeOK
    <3> QED
      BY <3>3, CollectorAssumption DEF IInv, TypeOK, ScrapeInv, SrtSockRegister, MayRegister
  <2> QED
    BY <2>1, <2>2 DEF ScrapeInv, InMetric, SrtSockRegister, scrape
<1> QED
  BY <1>1, <1>2, <1>3 DEF IInv

\* A registration of a label leaves lists of labels.
LEMMA LabelPreserves ==
    ASSUME IInv, NEW n \in LabelNames \cup {NULL}, NEW v \in LabelValues \cup {NULL},
           NEW var, LabelRegister(n, v, var)
    PROVE  IInv'
<1>1. commonLabel' \in Seq(LabelType) /\ label' \in [Entries -> Seq(LabelType)]
  <2>1. CASE LabelRefused(n, var)
    BY <2>1 DEF LabelRegister, labels, IInv, TypeOK
  <2>2. CASE ~ LabelRefused(n, var)
    <3>1. n \in LabelNames
      BY <2>2 DEF LabelRefused
    <3>2. /\ commonLabel' = IF var = NULL THEN WithLabel(commonLabel, n, v) ELSE commonLabel
          /\ label' = [i \in Entries |->
                IF i = EntryOf(var) THEN WithLabel(label[i], n, v) ELSE label[i]]
      BY <2>2 DEF LabelRegister
    <3>3. commonLabel \in Seq(LabelType) /\ \A i \in Entries : label[i] \in Seq(LabelType)
      BY DEF IInv, TypeOK
    <3>4. /\ WithLabel(commonLabel, n, v) \in Seq(LabelType)
          /\ \A i \in Entries : WithLabel(label[i], n, v) \in Seq(LabelType)
      BY <3>1, <3>3, WithLabelType
    <3> QED
      BY <3>2, <3>3, <3>4
  <2> QED
    BY <2>1, <2>2
<1>2. undefined' \in BOOLEAN
  <2>1. undefined' = undefined \/ undefined' \in {FALSE, InMetric}
    BY DEF LabelRegister
  <2>2. InMetric \in BOOLEAN
    BY DEF InMetric
  <2> QED
    BY <2>1, <2>2 DEF IInv, TypeOK
<1>3. TypeOK'
  BY <1>1, <1>2 DEF LabelRegister, scrape, libsrt, IInv, TypeOK, Entries
<1>4. StatInv'
  BY DEF LabelRegister, scrape, libsrt, IInv, StatInv
<1>5. ScrapeInv'
  BY DEF LabelRegister, MayRegister, scrape, libsrt, IInv, ScrapeInv, InMetric
<1> QED
  BY <1>3, <1>4, <1>5 DEF IInv

\* What a scrape does before it translates a socket.
LEMMA SocketStepPreserves ==
    ASSUME IInv,
           CollectStarts \/ CollectSocket \/ SkipSocket \/ SocketDone \/ CollectNothing
    PROVE  IInv'
<1> USE CollectorAssumption
<1>1. CASE CollectStarts
  <2>1. translated' \in Seq(Family)
    BY <1>1, EmptySeq DEF CollectStarts
  <2>2. TypeOK'
    BY <1>1, <2>1 DEF CollectStarts, labels, libsrt, IInv, TypeOK, Entries, PcValues
  <2>3. StatInv'
    BY <1>1 DEF CollectStarts, libsrt, IInv, TypeOK, StatInv
  <2>4. ScrapeInv'
    BY <1>1 DEF CollectStarts, ScrapeInv, InMetric
  <2> QED
    BY <2>2, <2>3, <2>4 DEF IInv
<1>2. CASE CollectSocket
  <2>1. srtSock[sockIt] \in open /\ srtSock[sockIt] \in Sockets
    BY <1>2 DEF CollectSocket, IInv, TypeOK
  <2>2. stat[srtSock[sockIt]] \in 0 .. MaxStat
    BY <2>1 DEF IInv, TypeOK, StatInv
  <2>3. data' \in [Entries -> Datum]
    BY <1>2, <2>2, StateFacts DEF CollectSocket, Datum, EntryType, IInv
  <2>4. mapIt' \in 1 .. Len(filteredData') + 1
    BY <1>2, StateFacts DEF CollectSocket, IInv
  <2>5. TypeOK'
    BY <1>2, <2>3, <2>4 DEF CollectSocket, labels, libsrt, IInv, TypeOK, Entries, PcValues
  <2>6. StatInv'
    BY <1>2 DEF CollectSocket, libsrt, IInv, StatInv
  <2>7. ScrapeInv'
    BY <1>2 DEF CollectSocket, ScrapeInv, InMetric
  <2> QED
    BY <2>5, <2>6, <2>7 DEF IInv
<1>3. CASE SkipSocket \/ SocketDone
  <2>1. NextSocket /\ ~ undefined /\ sockIt <= Len(srtSock)
    BY <1>3 DEF SkipSocket, SocketDone, ScrapeAt, IInv, ScrapeInv, InMetric
  <2>2. sockIt' = sockIt + 1 /\ sockIt \in Nat /\ Len(srtSock) \in 0 .. MaxSockets
    BY <2>1, StateFacts DEF NextSocket, IInv, TypeOK
  <2>3. sockIt' \in 1 .. MaxSockets + 1
    BY <2>1, <2>2
  <2>4. TypeOK'
    BY <2>1, <2>3 DEF NextSocket, labels, libsrt, IInv, TypeOK, Entries, PcValues
  <2>5. StatInv'
    BY <2>1 DEF NextSocket, libsrt, IInv, StatInv
  <2>6. ScrapeInv'
    BY <2>1, <2>2 DEF NextSocket, ScrapeInv, InMetric
  <2> QED
    BY <2>4, <2>5, <2>6 DEF IInv
<1>4. CASE CollectNothing
  <2>1. TypeOK'
    BY <1>4 DEF CollectNothing, labels, libsrt, IInv, TypeOK, Entries, PcValues
  <2>2. StatInv'
    BY <1>4 DEF CollectNothing, libsrt, IInv, StatInv
  <2>3. ScrapeInv'
    BY <1>4 DEF CollectNothing, ScrapeInv, InMetric
  <2> QED
    BY <2>1, <2>2, <2>3 DEF IInv
<1> QED
  BY <1>1, <1>2, <1>3, <1>4

\* The metric that CountLabels makes.
LEMMA CountFacts ==
    ASSUME IInv, CountLabels
    PROVE  \E f \in Family :
              /\ translated' = Append(translated, f)
              /\ translated' \in Seq(Family) /\ translated' # <<>>
              /\ Len(translated') = Len(translated) + 1
              /\ \A i \in 1 .. Len(translated) : translated'[i] = translated[i]
              /\ translated'[Len(translated) + 1] = f
              /\ f.name = filteredData[mapIt].name
              /\ f.sock = srtSock[sockIt]
              /\ f.value = data[mapIt]
              /\ Counted(f, mapIt)
              /\ mapIt \in Entries
<1> DEFINE num == 1 + Len(label[mapIt]) + Len(commonLabel)
           sock == srtSock[sockIt]
           L == [name : {NULL, "srt_socket"} \cup LabelNames,
                 value : {NULL} \cup Sockets \cup LabelValues]
           new == [i \in 1 .. num |->
                      IF i = 1 THEN [name |-> "srt_socket", value |-> sock] ELSE EmptyLabel]
           f == [name |-> filteredData[mapIt].name, sock |-> sock, value |-> data[mapIt],
                 labels |-> new]
<1>1. mapIt \in Entries
  BY StateFacts DEF CountLabels, IInv, TypeOK
<1>2. /\ filteredData[mapIt].name \in VarNames
      /\ data[mapIt] \in Datum
      /\ label[mapIt] \in Seq(LabelType)
  BY <1>1, StateFacts DEF IInv, EntryType
<1>3. sock \in Sockets
  BY StateFacts DEF CountLabels, ScrapeAt, IInv, TypeOK, ScrapeInv, InMetric
<1>4. num \in Nat \ {0}
  BY <1>2, LenProperties DEF IInv, TypeOK
<1>5. new \in [1 .. num -> L]
  BY <1>3 DEF EmptyLabel
<1> HIDE DEF num, sock
<1>6. new \in Seq(L) /\ Len(new) = num
  BY <1>4, <1>5, FunctionIsSeq
<1>7. new[1] = [name |-> "srt_socket", value |-> sock]
  BY <1>4
<1> HIDE DEF new
<1>8. f \in Family
  BY <1>2, <1>3, <1>6 DEF Family
<1>9. Counted(f, mapIt)
  BY <1>6, <1>7 DEF Counted, num
<1>10. translated' = Append(translated, f)
  BY DEF CountLabels, new, num, sock
<1>11. translated \in Seq(Family)
  BY DEF IInv, TypeOK
<1> HIDE DEF f
<1>12. /\ translated' \in Seq(Family)
       /\ Len(translated') = Len(translated) + 1
       /\ \A i \in 1 .. Len(translated) : translated'[i] = translated[i]
       /\ translated'[Len(translated) + 1] = f
  BY <1>8, <1>10, <1>11, AppendProperties
<1>13. translated' # <<>>
  BY <1>8, <1>10, <1>11, LastFacts
<1>14. f.name = filteredData[mapIt].name /\ f.sock = srtSock[sockIt] /\ f.value = data[mapIt]
  BY DEF f, sock
<1> QED
  BY <1>1, <1>8, <1>9, <1>10, <1>12, <1>13, <1>14

\* What FillPrivate and FillCommon do to the last metric, which has room for it.
LEMMA FillStepFacts ==
    ASSUME IInv, FillPrivate \/ FillCommon
    PROVE  /\ mapIt \in Entries
           /\ translated \in Seq(Family) /\ translated # <<>>
           /\ undefined \in BOOLEAN
           /\ label[mapIt] \in Seq(LabelType) /\ commonLabel \in Seq(LabelType)
           /\ Len(label[mapIt]) \in Nat /\ Len(commonLabel) \in Nat
           /\ FillPrivate => Fill(label[mapIt], 1)
           /\ FillCommon => Fill(commonLabel, 1 + Len(label[mapIt]))
           /\ translated' \in Seq(Family) /\ Len(translated') = Len(translated)
           /\ undefined' \in BOOLEAN
           /\ \A i \in 1 .. Len(translated) :
                 /\ i # Len(translated) => translated'[i] = translated[i]
                 /\ translated'[i].name = translated[i].name
                 /\ translated'[i].sock = translated[i].sock
                 /\ translated'[i].value = translated[i].value
<1>1. ~ undefined /\ pc \in {"private", "common"}
  BY DEF FillPrivate, FillCommon, ScrapeAt
<1>2. translated # <<>> /\ mapIt <= Len(filteredData)
  BY <1>1 DEF IInv, ScrapeInv
<1>3. mapIt \in Entries
  BY <1>2, StateFacts DEF IInv, TypeOK
<1>4. translated \in Seq(Family) /\ commonLabel \in Seq(LabelType) /\ undefined \in BOOLEAN
  BY DEF IInv, TypeOK
<1>5. label[mapIt] \in Seq(LabelType)
  BY <1>3, StateFacts DEF IInv
<1>6. Len(label[mapIt]) \in Nat /\ Len(commonLabel) \in Nat
  BY <1>4, <1>5, LenProperties
<1>7. /\ FillPrivate => Fill(label[mapIt], 1)
      /\ FillCommon => Fill(commonLabel, 1 + Len(label[mapIt]))
  BY DEF FillPrivate, FillCommon
<1>8. \E list \in Seq(LabelType), offset \in Nat : Fill(list, offset)
  <2>1. CASE FillPrivate
    BY <1>5, <1>7, <2>1
  <2>2. CASE FillCommon
    <3>1. 1 + Len(label[mapIt]) \in Nat
      BY <1>6
    <3> QED
      BY <1>4, <1>7, <2>2, <3>1
  <2> QED
    BY <2>1, <2>2
<1>9. PICK list \in Seq(LabelType), offset \in Nat : Fill(list, offset)
  BY <1>8
<1>10. /\ translated' \in Seq(Family) /\ Len(translated') = Len(translated)
       /\ Len(translated) \in Nat \ {0}
       /\ undefined' \in BOOLEAN
       /\ \A i \in 1 .. Len(translated) :
             i # Len(translated) => translated'[i] = translated[i]
       /\ translated'[Len(translated)].name = translated[Len(translated)].name
       /\ translated'[Len(translated)].sock = translated[Len(translated)].sock
       /\ translated'[Len(translated)].value = translated[Len(translated)].value
  BY <1>2, <1>4, <1>9, FillFacts
<1>11. \A i \in 1 .. Len(translated) :
          /\ i # Len(translated) => translated'[i] = translated[i]
          /\ translated'[i].name = translated[i].name
          /\ translated'[i].sock = translated[i].sock
          /\ translated'[i].value = translated[i].value
  BY <1>10
<1> QED
  BY <1>2, <1>3, <1>4, <1>5, <1>6, <1>7, <1>10, <1>11

\* The steps of ValueToMetricFamily.
LEMMA MetricStepPreserves ==
    ASSUME IInv, CountLabels \/ FillPrivate \/ FillCommon
    PROVE  IInv'
<1> USE CollectorAssumption
<1>1. CASE CountLabels
  <2>1. translated' \in Seq(Family) /\ translated' # <<>>
    BY <1>1, CountFacts
  <2>2. TypeOK'
    BY <1>1, <2>1 DEF CountLabels, labels, libsrt, IInv, TypeOK, Entries, PcValues
  <2>3. StatInv'
    BY <1>1 DEF CountLabels, libsrt, IInv, StatInv
  <2>4. ScrapeInv'
    BY <1>1, <2>1 DEF CountLabels, ScrapeAt, IInv, ScrapeInv, InMetric
  <2> QED
    BY <2>2, <2>3, <2>4 DEF IInv
<1>2. CASE FillPrivate \/ FillCommon
  <2>1. /\ translated' \in Seq(Family) /\ undefined' \in BOOLEAN
        /\ Len(translated') = Len(translated) /\ translated # <<>>
        /\ translated \in Seq(Family)
    BY <1>2, FillStepFacts
  <2>2. translated' # <<>>
    BY <2>1, EmptySeq
  <2>3. mapIt \in Entries /\ Entries = 1 .. Len(filteredData) /\ Len(filteredData) \in Nat
    BY <1>2, FillStepFacts, StateFacts DEF IInv
  <2>4. /\ UNCHANGED <<labels, srtSock, filteredData, sockIt, data, before, libsrt>>
        /\ pc' \in {"common", "metric"}
        /\ mapIt' \in {mapIt, mapIt + 1}
        /\ pc' = "common" => mapIt' = mapIt
    BY <1>2 DEF FillPrivate, FillCommon
  <2>5. TypeOK'
    BY <2>1, <2>3, <2>4 DEF labels, libsrt, IInv, TypeOK, Entries, PcValues
  <2>6. StatInv'
    BY <2>4 DEF libsrt, IInv, StatInv
  <2>7. ScrapeInv'
    BY <1>2, <2>2, <2>3, <2>4
       DEF FillPrivate, FillCommon, ScrapeAt, IInv, ScrapeInv, InMetric
  <2> QED
    BY <2>5, <2>6, <2>7 DEF IInv
<1> QED
  BY <1>1, <1>2

\* The answer, and what happens in libsrt.
LEMMA OutsidePreserves ==
    ASSUME IInv, Reply \/ Libsrt
    PROVE  IInv'
<1> USE CollectorAssumption
<1>1. CASE Reply
  <2>1. TypeOK'
    BY <1>1 DEF Reply, labels, libsrt, IInv, TypeOK, Entries, PcValues
  <2>2. StatInv'
    BY <1>1 DEF Reply, libsrt, IInv, StatInv
  <2>3. ScrapeInv'
    BY <1>1 DEF Reply, ScrapeInv, InMetric
  <2> QED
    BY <2>1, <2>2, <2>3 DEF IInv
<1>2. CASE Libsrt
  <2>1. UNCHANGED <<labels, srtSock, filteredData, scrape, undefined>>
    BY <1>2 DEF Libsrt, StatGrows, SocketConnects, SocketCloses
  <2>2. /\ stat' \in [Sockets -> 0 .. MaxStat \cup {NULL}]
        /\ open' \subseteq Sockets
        /\ \A s \in open' : stat'[s] # NULL
        /\ \A s \in Sockets : stat[s] # NULL => stat'[s] # NULL /\ stat[s] <= stat'[s]
    <3>1. CASE StatGrows
      <4>1. PICK s \in open : stat[s] < MaxStat /\ stat' = [stat EXCEPT ![s] = stat[s] + 1]
        BY <3>1 DEF StatGrows
      <4>2. s \in Sockets /\ stat[s] \in 0 .. MaxStat /\ stat[s] + 1 \in 0 .. MaxStat
        BY <4>1 DEF IInv, TypeOK, StatInv
      <4>3. open' = open
        BY <3>1 DEF StatGrows
      <4> QED
        BY <4>1, <4>2, <4>3 DEF IInv, TypeOK, StatInv
    <3>2. CASE \E s \in Sockets : SocketConnects(s)
      BY <3>2 DEF SocketConnects, IInv, TypeOK, StatInv
    <3>3. CASE \E s \in open : SocketCloses(s)
      BY <3>3 DEF SocketCloses, IInv, TypeOK, StatInv
    <3> QED
      BY <1>2, <3>1, <3>2, <3>3 DEF Libsrt
  <2>3. TypeOK'
    BY <2>1, <2>2 DEF labels, scrape, IInv, TypeOK, Entries
  <2>4. StatInv'
    BY <2>1, <2>2 DEF scrape, IInv, TypeOK, StatInv
  <2>5. ScrapeInv'
    BY <2>1 DEF scrape, IInv, ScrapeInv, InMetric
  <2> QED
    BY <2>3, <2>4, <2>5 DEF IInv
<1> QED
  BY <1>1, <1>2

\* Every step keeps the invariant.
LEMMA InvNext == IInv /\ [Next]_vars => IInv'
<1> SUFFICES ASSUME IInv, [Next]_vars PROVE IInv'
  OBVIOUS
<1>1. CASE UNCHANGED vars
  BY <1>1 DEF vars, labels, scrape, libsrt, IInv, TypeOK, StatInv, ScrapeInv, Entries, InMetric
<1>2. CASE \E socks \in BoundedSeq(Sockets, MaxSockets) : SrtSockRegister(socks)
  BY <1>2, SocketsPreserve
<1>3. CASE \E n \in LabelNames \cup {NULL}, v \in LabelValues \cup {NULL},
              var \in VarNames \cup {NULL} : LabelRegister(n, v, var)
  BY <1>3, LabelPreserves
<1>4. CASE CollectStarts \/ CollectSocket \/ SkipSocket \/ SocketDone \/ CollectNothing
  BY <1>4, SocketStepPreserves
<1>5. CASE CountLabels \/ FillPrivate \/ FillCommon
  BY <1>5, MetricStepPreserves
<1>6. CASE Reply \/ Libsrt
  BY <1>6, OutsidePreserves
<1> QED
  BY <1>1, <1>2, <1>3, <1>4, <1>5, <1>6 DEF Next, CollectStep

\* Whatever is registered while a scrape runs, types, statistics and iterators
\* stay consistent as long as the program is defined.
THEOREM InvariantHolds == Spec => []IInv
<1> QED
  BY InvInit, InvNext, PTL DEF Spec

\* Every variable keeps its type: in particular no list ever holds a null label.
THEOREM TypeCorrect == Spec => []TypeOK
<1>1. IInv => TypeOK
  BY DEF IInv
<1> QED
  BY <1>1, InvariantHolds, PTL

-----------------------------------------------------------------------------
(* Values                                                                  *)

\* A datum stays fresh while the statistics of its socket grow.
LEMMA FreshStays ==
    ASSUME IInv, NEW d, NEW name, NEW s, FreshDatum(d, name, s), before' = before,
           UNCHANGED stat \/ Libsrt
    PROVE  FreshDatum(d, name, s)'
<1>1. UNCHANGED stat \/ StatGrows \/ \E x \in Sockets : SocketConnects(x)
  BY DEF Libsrt, SocketCloses
<1>2. CASE UNCHANGED stat
  BY <1>2 DEF FreshDatum, Since
<1>3. CASE \E x \in Sockets : SocketConnects(x)
  <2>1. PICK x \in Sockets : stat[x] = NULL /\ stat' = [stat EXCEPT ![x] = 0]
    BY <1>3 DEF SocketConnects
  <2>2. x # s /\ stat'[s] = stat[s]
    BY <2>1 DEF FreshDatum, IInv, TypeOK
  <2> QED
    BY <2>2 DEF FreshDatum, Since
<1>4. CASE StatGrows
  <2>1. PICK x \in open : stat[x] < MaxStat /\ stat' = [stat EXCEPT ![x] = stat[x] + 1]
    BY <1>4 DEF StatGrows
  <2>2. stat[s] \in 0 .. MaxStat /\ stat[x] \in 0 .. MaxStat
        /\ before[s] \in 0 .. MaxStat \cup {NULL}
    BY <2>1 DEF FreshDatum, IInv, TypeOK, StatInv
  <2>3. stat'[s] = IF x = s THEN stat[s] + 1 ELSE stat[s]
    BY <2>1 DEF FreshDatum, IInv, TypeOK
  <2>4. stat'[s] \in 0 .. MaxStat + 1 /\ stat[s] <= stat'[s] /\ stat'[s] # NULL
    BY <2>2, <2>3, CollectorAssumption
  <2>5. Since(s) \in 0 .. MaxStat /\ Since(s)' = Since(s)
    BY <2>2, CollectorAssumption DEF Since
  <2>6. d[2] \in Since(s) .. stat[s]
    BY DEF FreshDatum
  <2>7. d[2] \in Since(s)' .. stat'[s]
    BY <2>2, <2>4, <2>5, <2>6, CollectorAssumption
  <2> QED
    BY <2>4, <2>7 DEF FreshDatum
<1> QED
  BY <1>1, <1>2, <1>3, <1>4

\* Every step keeps the values fresh.
LEMMA ValuesNext == IInv /\ ValuesInv /\ [Next]_vars => ValuesInv'
<1> SUFFICES ASSUME IInv, ValuesInv, [Next]_vars PROVE ValuesInv'
  OBVIOUS
<1> USE CollectorAssumption
<1>1. CASE \/ UNCHANGED vars
           \/ \E socks \in BoundedSeq(Sockets, MaxSockets) : SrtSockRegister(socks)
           \/ \E n \in LabelNames \cup {NULL}, v \in LabelValues \cup {NULL},
                 var \in VarNames \cup {NULL} : LabelRegister(n, v, var)
           \/ SkipSocket \/ SocketDone \/ CollectNothing \/ Reply
           \/ Libsrt
  <2>1. UNCHANGED <<filteredData, data, translated, before>>
    BY <1>1 DEF vars, scrape, SrtSockRegister, LabelRegister, SkipSocket, SocketDone,
                NextSocket, CollectNothing, Reply, Libsrt, StatGrows, SocketConnects,
                SocketCloses
  <2>2. UNCHANGED stat \/ Libsrt
    BY <1>1 DEF vars, libsrt, SrtSockRegister, LabelRegister, SkipSocket, SocketDone,
                NextSocket, CollectNothing, Reply
  <2>3. /\ pc' # "idle" => pc # "idle"
        /\ ~ undefined' /\ InMetric' => ~ undefined /\ InMetric /\ UNCHANGED <<srtSock, sockIt>>
    <3>1. CASE UNCHANGED vars
      BY <3>1 DEF vars, scrape, InMetric
    <3>2. CASE \E socks \in BoundedSeq(Sockets, MaxSockets) : SrtSockRegister(socks)
      <4>1. UNCHANGED scrape /\ ~ undefined /\ (InMetric => undefined' = TRUE)
        BY <3>2 DEF SrtSockRegister, MayRegister, Iterating, MayIterate
      <4> QED
        BY <4>1 DEF scrape, InMetric
    <3>3. CASE \E n \in LabelNames \cup {NULL}, v \in LabelValues \cup {NULL},
                  var \in VarNames \cup {NULL} : LabelRegister(n, v, var)
      BY <3>3 DEF LabelRegister, MayRegister, scrape, InMetric
    <3>4. CASE SkipSocket \/ SocketDone \/ CollectNothing \/ Reply
      BY <3>4 DEF SkipSocket, SocketDone, NextSocket, CollectNothing, Reply, ScrapeAt, InMetric
    <3>5. CASE Libsrt
      BY <3>5 DEF Libsrt, StatGrows, SocketConnects, SocketCloses, scrape, InMetric
    <3> QED
      BY <1>1, <3>1, <3>2, <3>3, <3>4, <3>5
  <2>4. ASSUME NEW d, NEW name, NEW s, FreshDatum(d, name, s)
        PROVE  FreshDatum(d, name, s)'
    BY <2>1, <2>2, <2>4, FreshStays
  <2>5. \A k \in Entries' : filteredData'[k].offset = filteredData'[k].name
    BY <2>1 DEF ValuesInv, Entries
  <2>6. ~ undefined' /\ InMetric' =>
           \A k \in Entries : FreshDatum(data[k], filteredData[k].name, srtSock[sockIt])'
    BY <2>1, <2>3, <2>4 DEF ValuesInv
  <2>7. pc' # "idle" => \A i \in DOMAIN translated :
           FreshDatum(translated[i].value, translated[i].name, translated[i].sock)'
    BY <2>1, <2>3, <2>4 DEF ValuesInv
  <2> QED
    BY <2>1, <2>5, <2>6, <2>7 DEF ValuesInv, Entries
<1>2. CASE CollectStarts
  BY <1>2 DEF CollectStarts, ValuesInv, Entries, InMetric
<1>3. CASE CollectSocket
  <2> DEFINE s == srtSock[sockIt]
  <2>1. s \in open /\ s \in Sockets /\ pc = "socket"
    BY <1>3 DEF CollectSocket, ScrapeAt, IInv, TypeOK
  <2>2. UNCHANGED <<filteredData, srtSock, sockIt, translated, before, stat>>
    BY <1>3 DEF CollectSocket, libsrt
  <2>3. stat[s] # NULL /\ stat[s] \in 0 .. MaxStat /\ before[s] \in 0 .. MaxStat \cup {NULL}
        /\ (before[s] # NULL => before[s] <= stat[s])
    BY <2>1 DEF IInv, TypeOK, StatInv
  <2>4. stat[s] \in Since(s) .. stat[s]
    BY <2>3 DEF Since
  <2>5. \A k \in Entries : data'[k] = <<filteredData[k].name, stat[s]>>
    BY <1>3 DEF CollectSocket, ValuesInv
  <2>6. \A k \in Entries : FreshDatum(data'[k], filteredData[k].name, s)
    BY <2>1, <2>3, <2>4, <2>5 DEF FreshDatum
  <2>7. \A i \in DOMAIN translated :
          FreshDatum(translated[i].value, translated[i].name, translated[i].sock)
    BY <2>1 DEF ValuesInv
  <2> QED
    BY <2>2, <2>6, <2>7 DEF ValuesInv, Entries, FreshDatum, Since
<1>4. CASE CountLabels
  <2>1. PICK f \in Family :
          /\ translated' \in Seq(Family)
          /\ Len(translated') = Len(translated) + 1
          /\ \A i \in 1 .. Len(translated) : translated'[i] = translated[i]
          /\ translated'[Len(translated) + 1] = f
          /\ f.name = filteredData[mapIt].name
          /\ f.sock = srtSock[sockIt]
          /\ f.value = data[mapIt]
          /\ mapIt \in Entries
    BY <1>4, CountFacts
  <2>2. translated \in Seq(Family) /\ Len(translated) \in Nat
        /\ DOMAIN translated = 1 .. Len(translated)
        /\ DOMAIN translated' = 1 .. Len(translated) + 1
    BY <2>1, LenProperties DEF IInv, TypeOK
  <2>3. UNCHANGED <<filteredData, srtSock, sockIt, data, before, stat>>
        /\ ~ undefined /\ InMetric /\ pc # "idle"
    BY <1>4 DEF CountLabels, ScrapeAt, InMetric, libsrt
  <2>4. \A k \in Entries : FreshDatum(data[k], filteredData[k].name, srtSock[sockIt])
    BY <2>3 DEF ValuesInv
  <2>5. \A i \in DOMAIN translated' :
          FreshDatum(translated'[i].value, translated'[i].name, translated'[i].sock)
    <3> TAKE i \in DOMAIN translated'
    <3>1. CASE i \in 1 .. Len(translated)
      BY <2>1, <2>2, <2>3, <3>1 DEF ValuesInv
    <3>2. CASE i = Len(translated) + 1
      BY <2>1, <2>4, <3>2
    <3> QED
      BY <2>2, <3>1, <3>2
  <2> QED
    BY <2>3, <2>4, <2>5 DEF ValuesInv, Entries, FreshDatum, Since
<1>5. CASE FillPrivate \/ FillCommon
  <2>1. /\ translated \in Seq(Family)
        /\ translated' \in Seq(Family) /\ Len(translated') = Len(translated)
        /\ \A i \in 1 .. Len(translated) :
              /\ translated'[i].name = translated[i].name
              /\ translated'[i].sock = translated[i].sock
              /\ translated'[i].value = translated[i].value
    BY <1>5, FillStepFacts
  <2>2. DOMAIN translated = 1 .. Len(translated) /\ DOMAIN translated' = 1 .. Len(translated)
    BY <2>1, LenProperties
  <2>3. UNCHANGED <<filteredData, srtSock, sockIt, data, before, stat>>
        /\ ~ undefined /\ InMetric /\ pc # "idle"
    BY <1>5 DEF FillPrivate, FillCommon, ScrapeAt, InMetric, libsrt
  <2>4. \A k \in Entries : FreshDatum(data[k], filteredData[k].name, srtSock[sockIt])
    BY <2>3 DEF ValuesInv
  <2>5. \A i \in DOMAIN translated' :
          FreshDatum(translated'[i].value, translated'[i].name, translated'[i].sock)
    BY <2>1, <2>2, <2>3 DEF ValuesInv
  <2> QED
    BY <2>3, <2>4, <2>5 DEF ValuesInv, Entries, FreshDatum, Since
<1> QED
  BY <1>1, <1>2, <1>3, <1>4, <1>5 DEF Next, CollectStep

\* When every entry of the filter reads the statistic it is named for, a scrape
\* reports each socket with its own statistics of the time of the scrape, whatever
\* is registered meanwhile and whichever sockets connect or close.
THEOREM ValuesAreFresh == OwnOffsets => (Spec => []FreshValues)
<1> SUFFICES ASSUME OwnOffsets PROVE Spec => []FreshValues
  OBVIOUS
<1>1. Init => ValuesInv
  <2> SUFFICES ASSUME Init PROVE ValuesInv
    OBVIOUS
  <2>1. \A k \in Entries : filteredData[k].offset = filteredData[k].name
    BY DEF OwnOffsets, Init, Entries
  <2> QED
    BY <2>1 DEF Init, ValuesInv, InMetric
<1>2. ValuesInv => FreshValues
  BY DEF ValuesInv, FreshValues, FreshDatum
<1> QED
  BY <1>1, <1>2, InvInit, InvNext, ValuesNext, PTL DEF Spec

-----------------------------------------------------------------------------
(* Labels                                                                  *)

\* A registration between two scrapes, or a scrape's step that touches no metric.
LEMMA LabelsStay ==
    ASSUME IInv, LabelsInv, "quiet" \in Contract,
           \/ UNCHANGED vars
           \/ \E socks \in BoundedSeq(Sockets, MaxSockets) : SrtSockRegister(socks)
           \/ \E n \in LabelNames \cup {NULL}, v \in LabelValues \cup {NULL},
                 var \in VarNames \cup {NULL} : LabelRegister(n, v, var)
           \/ CollectStarts \/ CollectSocket \/ SkipSocket \/ SocketDone
           \/ CollectNothing \/ Reply
           \/ Libsrt
    PROVE  LabelsInv'
<1>1. CASE UNCHANGED vars \/ Libsrt
  <2>1. UNCHANGED <<commonLabel, label, filteredData, translated, pc, mapIt, undefined>>
    BY <1>1 DEF vars, labels, scrape, Libsrt, StatGrows, SocketConnects, SocketCloses
  <2>2. ASSUME NEW i \in DOMAIN translated, NEW k \in Entries, Labelled(i, k)
        PROVE  Labelled(i, k)'
    BY <2>1, <2>2 DEF Labelled, Counted, PrivateCopied, CommonCopied
  <2>3. pc # "idle" => \A i \in DOMAIN translated : \E k \in Entries : Labelled(i, k)
    BY DEF LabelsInv
  <2> QED
    BY <2>1, <2>2, <2>3 DEF LabelsInv, Entries
<1>2. CASE \E socks \in BoundedSeq(Sockets, MaxSockets) : SrtSockRegister(socks)
  BY <1>2 DEF SrtSockRegister, MayRegister, Iterating, MayIterate, InMetric, scrape, LabelsInv
<1>3. CASE \E n \in LabelNames \cup {NULL}, v \in LabelValues \cup {NULL},
              var \in VarNames \cup {NULL} : LabelRegister(n, v, var)
  <2>1. PICK n \in LabelNames \cup {NULL}, v \in LabelValues \cup {NULL},
             var \in VarNames \cup {NULL} : LabelRegister(n, v, var)
    BY <1>3
  <2>2. pc = "idle" /\ pc' = "idle" /\ ~ undefined
    BY <2>1 DEF LabelRegister, MayRegister, scrape
  <2>3. ~ undefined'
    <3>1. CASE LabelRefused(n, var)
      BY <2>1, <2>2, <3>1 DEF LabelRegister
    <3>2. CASE ~ LabelRefused(n, var)
      <4>1. undefined' = FALSE \/ undefined' = InMetric
        BY <2>1, <3>2 DEF LabelRegister
      <4>2. ~ InMetric
        BY <2>2 DEF InMetric
      <4> QED
        BY <4>1, <4>2
    <3> QED
      BY <3>1, <3>2
  <2> QED
    BY <2>2, <2>3 DEF LabelsInv
<1>4. CASE CollectStarts
  BY <1>4 DEF CollectStarts, LabelsInv
<1>5. CASE CollectSocket \/ SkipSocket \/ SocketDone \/ CollectNothing \/ Reply
  <2>1. /\ UNCHANGED <<commonLabel, label, filteredData, translated, undefined>>
        /\ pc \in {"socket", "metric", "done"}
        /\ pc' \in {"socket", "metric", "done", "idle"}
    BY <1>5 DEF CollectSocket, SkipSocket, SocketDone, CollectNothing, Reply, NextSocket,
                ScrapeAt, labels
  <2>2. ASSUME NEW i \in DOMAIN translated, NEW k \in Entries, Labelled(i, k)
        PROVE  Labelled(i, k)'
    BY <2>1, <2>2 DEF Labelled, Counted, PrivateCopied, CommonCopied
  <2>3. \A i \in DOMAIN translated : \E k \in Entries : Labelled(i, k)
    BY <2>1 DEF LabelsInv
  <2> QED
    BY <2>1, <2>2, <2>3 DEF LabelsInv, Entries
<1> QED
  BY <1>1, <1>2, <1>3, <1>4, <1>5

\* A new metric has its labels counted; those before it are complete.
LEMMA LabelsCounted ==
    ASSUME IInv, LabelsInv, CountLabels
    PROVE  LabelsInv'
<1>1. PICK f \in Family :
        /\ translated' \in Seq(Family)
        /\ Len(translated') = Len(translated) + 1
        /\ \A i \in 1 .. Len(translated) : translated'[i] = translated[i]
        /\ translated'[Len(translated) + 1] = f
        /\ f.name = filteredData[mapIt].name
        /\ Counted(f, mapIt)
        /\ mapIt \in Entries
  BY CountFacts
<1>2. Len(translated) \in Nat /\ DOMAIN translated = 1 .. Len(translated)
      /\ DOMAIN translated' = 1 .. Len(translated) + 1
  BY <1>1, LenProperties DEF IInv, TypeOK
<1>3. /\ UNCHANGED <<commonLabel, label, filteredData, mapIt, undefined>>
      /\ pc = "metric" /\ pc' = "private"
  BY DEF CountLabels, ScrapeAt, labels
<1>4. ASSUME NEW i \in 1 .. Len(translated), NEW k \in Entries, Labelled(i, k)
      PROVE  Labelled(i, k)'
  <2>1. i # Len(translated') /\ translated'[i] = translated[i]
    BY <1>1, <1>2
  <2> QED
    BY <1>3, <1>4, <2>1 DEF Labelled, Counted, PrivateCopied, CommonCopied
<1>6. \A i \in 1 .. Len(translated) : \E k \in Entries : Labelled(i, k)
  BY <1>2, <1>3 DEF LabelsInv
<1>7. \A i \in 1 .. Len(translated') : \E k \in Entries : Labelled(i, k)'
  <2> TAKE i \in 1 .. Len(translated')
  <2>1. CASE i \in 1 .. Len(translated)
    BY <1>4, <1>6, <2>1
  <2>2. CASE i = Len(translated')
    BY <1>1, <1>3, <2>2 DEF Labelled, Counted
  <2> QED
    BY <1>1, <1>2, <2>1, <2>2
<1> QED
  BY <1>1, <1>2, <1>3, <1>7 DEF LabelsInv, Entries

\* What is left to show when the last metric is filled in.
LEMMA LabelsOfLast ==
    ASSUME IInv, LabelsInv, FillPrivate \/ FillCommon, undefined' = undefined,
           NEW g, g = translated'[Len(translated)],
           g.name = translated[Len(translated)].name,
           Counted(g, mapIt),
           PrivateCopied(g, mapIt),
           FillCommon => CommonCopied(g, mapIt)
    PROVE  LabelsInv'
<1>1. /\ mapIt \in Entries
      /\ Len(translated') = Len(translated) /\ translated \in Seq(Family)
      /\ translated' \in Seq(Family) /\ translated # <<>>
      /\ \A i \in 1 .. Len(translated) :
            i # Len(translated) => translated'[i] = translated[i]
  BY FillStepFacts
<1>2. /\ Len(translated) \in Nat \ {0}
      /\ DOMAIN translated = 1 .. Len(translated) /\ DOMAIN translated' = 1 .. Len(translated)
  BY <1>1, LenProperties, EmptySeq
<1>3. /\ UNCHANGED <<commonLabel, label, filteredData>>
      /\ pc \in {"private", "common"} /\ pc' \in {"common", "metric"}
      /\ pc' = "common" => UNCHANGED mapIt
      /\ pc' # "common" => FillCommon
  BY DEF FillPrivate, FillCommon, ScrapeAt, labels
<1>4. \A i \in 1 .. Len(translated) : \E k \in Entries : Labelled(i, k)
  BY <1>2, <1>3 DEF LabelsInv
<1>5. \A i \in 1 .. Len(translated) : \E k \in Entries : Labelled(i, k)'
  <2> TAKE i \in 1 .. Len(translated)
  <2>1. PICK k \in Entries : Labelled(i, k)
    BY <1>4
  <2>2. CASE i # Len(translated)
    <3>1. translated'[i] = translated[i] /\ i # Len(translated')
      BY <1>1, <2>2
    <3>2. Labelled(i, k)'
      BY <1>3, <2>1, <2>2, <3>1 DEF Labelled, Counted, PrivateCopied, CommonCopied
    <3> QED
      BY <3>2
  <2>3. CASE i = Len(translated)
    <3>1. k = mapIt /\ translated[i].name = filteredData[k].name
      BY <1>3, <2>1, <2>3 DEF Labelled
    <3>2. translated'[i] = g /\ g.name = filteredData[k].name
      BY <2>3, <3>1
    <3>3. Labelled(i, k)'
      BY <1>1, <1>3, <2>3, <3>1, <3>2 DEF Labelled, Counted, PrivateCopied, CommonCopied
    <3> QED
      BY <3>3
  <2> QED
    BY <2>2, <2>3
<1> QED
  BY <1>1, <1>2, <1>3, <1>5 DEF LabelsInv, Entries

\* The two lists are copied to places that were counted for them.
LEMMA LabelsFilled ==
    ASSUME IInv, LabelsInv, FillPrivate \/ FillCommon
    PROVE  LabelsInv'
<1> DEFINE f == translated[Len(translated)]
           g == translated'[Len(translated)]
           p == label[mapIt]
<1>1. /\ mapIt \in Entries
      /\ translated \in Seq(Family) /\ translated # <<>>
      /\ undefined \in BOOLEAN
      /\ p \in Seq(LabelType) /\ commonLabel \in Seq(LabelType)
      /\ Len(p) \in Nat /\ Len(commonLabel) \in Nat
      /\ FillPrivate => Fill(p, 1)
      /\ FillCommon => Fill(commonLabel, 1 + Len(p))
  BY FillStepFacts
<1>2. Len(translated) \in 1 .. Len(translated) /\ DOMAIN translated = 1 .. Len(translated)
  BY <1>1, EmptySeq, LenProperties
<1>3. pc \in {"private", "common"}
  BY DEF FillPrivate, FillCommon, ScrapeAt
<1>4. PICK k \in Entries : Labelled(Len(translated), k)
  BY <1>2, <1>3 DEF LabelsInv
<1>5. /\ f.name = filteredData[mapIt].name
      /\ Counted(f, mapIt)
      /\ pc # "private" => PrivateCopied(f, mapIt)
  BY <1>3, <1>4 DEF Labelled
<1>6. /\ Len(f.labels) = 1 + Len(p) + Len(commonLabel)
      /\ f.labels[1] = [name |-> "srt_socket", value |-> f.sock]
      /\ pc # "private" => \A j \in 1 .. Len(p) : f.labels[1 + j] = p[j]
  BY <1>5 DEF Counted, PrivateCopied
<1> HIDE DEF f, g, p
<1>7. CASE FillPrivate
  <2>1. 1 + Len(p) <= Len(f.labels) /\ Fill(p, 1)
    BY <1>1, <1>6, <1>7
  <2>2. /\ g.name = f.name /\ g.sock = f.sock
        /\ Len(g.labels) = Len(f.labels)
        /\ undefined' = undefined
        /\ \A j \in 1 .. Len(f.labels) :
              g.labels[j] = IF j - 1 \in 1 .. Len(p) THEN p[j - 1] ELSE f.labels[j]
    <3>1. f = translated[Len(translated)] /\ g = translated'[Len(translated)]
      BY DEF f, g
    <3>2. translated \in Seq(Family) /\ translated # <<>> /\ undefined \in BOOLEAN
      BY <1>1
    <3> QED
      BY <1>1, <2>1, <3>1, <3>2, FillFacts, SMTT(30)
  <2>3. g.labels[1] = f.labels[1]
    <3>1. 1 \in 1 .. Len(f.labels) /\ 1 - 1 \notin 1 .. Len(p)
      BY <1>1, <1>6
    <3> QED
      BY <2>2, <3>1
  <2>4. \A j \in 1 .. Len(p) : g.labels[1 + j] = p[j]
    <3> TAKE j \in 1 .. Len(p)
    <3>1. 1 + j \in 1 .. Len(f.labels) /\ (1 + j) - 1 = j
      BY <1>1, <1>6
    <3> QED
      BY <2>2, <3>1
  <2>5. Counted(g, mapIt) /\ PrivateCopied(g, mapIt)
    BY <1>6, <2>2, <2>3, <2>4 DEF Counted, PrivateCopied, p
  <2>6. ~ FillCommon
    BY <1>7 DEF FillPrivate, FillCommon, ScrapeAt
  <2> QED
    BY <2>2, <2>5, <2>6, LabelsOfLast DEF f, g
<1>8. CASE FillCommon
  <2>1. 1 + Len(p) + Len(commonLabel) <= Len(f.labels) /\ Fill(commonLabel, 1 + Len(p))
        /\ 1 + Len(p) \in Nat /\ pc # "private"
    BY <1>1, <1>6, <1>8 DEF FillCommon, ScrapeAt
  <2>2. /\ g.name = f.name /\ g.sock = f.sock
        /\ Len(g.labels) = Len(f.labels)
        /\ undefined' = undefined
        /\ \A j \in 1 .. Len(f.labels) :
              g.labels[j] = IF j - (1 + Len(p)) \in 1 .. Len(commonLabel)
                            THEN commonLabel[j - (1 + Len(p))] ELSE f.labels[j]
    <3> DEFINE offset == 1 + Len(p)
    <3>1. offset \in Nat /\ Fill(commonLabel, offset) /\ offset + Len(commonLabel) <= Len(f.labels)
      BY <2>1
    <3> HIDE DEF offset
    <3>2. /\ g.name = f.name /\ g.sock = f.sock
          /\ Len(g.labels) = Len(f.labels)
          /\ undefined' = undefined
          /\ \A j \in 1 .. Len(f.labels) :
                g.labels[j] = IF j - offset \in 1 .. Len(commonLabel)
                              THEN commonLabel[j - offset] ELSE f.labels[j]
      <4>1. f = translated[Len(translated)] /\ g = translated'[Len(translated)]
        BY DEF f, g
      <4>2. translated \in Seq(Family) /\ translated # <<>> /\ undefined \in BOOLEAN
            /\ commonLabel \in Seq(LabelType)
        BY <1>1
      <4> QED
        BY <3>1, <4>1, <4>2, FillFacts, SMTT(30)
    <3> QED
      BY <3>2 DEF offset
  <2>3. g.labels[1] = f.labels[1]
    <3>1. 1 \in 1 .. Len(f.labels) /\ 1 - (1 + Len(p)) \notin 1 .. Len(commonLabel)
      BY <1>1, <1>6
    <3> QED
      BY <2>2, <3>1
  <2>4. \A j \in 1 .. Len(p) : g.labels[1 + j] = p[j]
    <3> TAKE j \in 1 .. Len(p)
    <3>1. /\ 1 + j \in 1 .. Len(f.labels)
          /\ (1 + j) - (1 + Len(p)) \notin 1 .. Len(commonLabel)
      BY <1>1, <1>6
    <3>2. g.labels[1 + j] = f.labels[1 + j]
      BY <2>2, <3>1
    <3> QED
      BY <1>6, <2>1, <3>2
  <2>5. \A j \in 1 .. Len(commonLabel) : g.labels[1 + Len(p) + j] = commonLabel[j]
    <3> TAKE j \in 1 .. Len(commonLabel)
    <3>1. /\ 1 + Len(p) + j \in 1 .. Len(f.labels)
          /\ (1 + Len(p) + j) - (1 + Len(p)) = j
      BY <1>1, <1>6
    <3> QED
      BY <2>2, <3>1
  <2>6. Counted(g, mapIt) /\ PrivateCopied(g, mapIt) /\ CommonCopied(g, mapIt)
    BY <1>6, <2>2, <2>3, <2>4, <2>5 DEF Counted, PrivateCopied, CommonCopied, p
  <2> QED
    BY <2>2, <2>6, LabelsOfLast DEF f, g
<1> QED
  BY <1>7, <1>8

\* Every step keeps the labels whole when no registration overlaps a scrape.
LEMMA LabelsNext ==
    ASSUME "quiet" \in Contract
    PROVE  IInv /\ LabelsInv /\ [Next]_vars => LabelsInv'
<1> SUFFICES ASSUME IInv, LabelsInv, [Next]_vars PROVE LabelsInv'
  OBVIOUS
<1>1. CASE \/ UNCHANGED vars
           \/ \E socks \in BoundedSeq(Sockets, MaxSockets) : SrtSockRegister(socks)
           \/ \E n \in LabelNames \cup {NULL}, v \in LabelValues \cup {NULL},
                 var \in VarNames \cup {NULL} : LabelRegister(n, v, var)
           \/ CollectStarts \/ CollectSocket \/ SkipSocket \/ SocketDone
           \/ CollectNothing \/ Reply
           \/ Libsrt
  BY <1>1, LabelsStay
<1>2. CASE CountLabels
  BY <1>2, LabelsCounted
<1>3. CASE FillPrivate \/ FillCommon
  BY <1>3, LabelsFilled
<1> QED
  BY <1>1, <1>2, <1>3 DEF Next, CollectStep

\* If no registration overlaps a scrape, no scrape ever writes past the labels it
\* counted or goes on with an iterator that was invalidated.
THEOREM ScrapesAreDefined == "quiet" \in Contract => (Spec => []NeverUndefined)
<1> SUFFICES ASSUME "quiet" \in Contract PROVE Spec => []NeverUndefined
  OBVIOUS
<1>1. Init => LabelsInv
  BY DEF Init, LabelsInv
<1>2. IInv /\ LabelsInv /\ [Next]_vars => LabelsInv'
  BY LabelsNext
<1>3. LabelsInv => NeverUndefined
  BY DEF LabelsInv, NeverUndefined
<1> QED
  BY <1>1, <1>2, <1>3, InvInit, InvNext, PTL DEF Spec

\* A metric that is complete has exactly its labels, in their order.
LEMMA CompleteLabels ==
    ASSUME TypeOK, NEW f \in Family, NEW k \in Entries,
           Counted(f, k), PrivateCopied(f, k), CommonCopied(f, k)
    PROVE  f.labels = <<[name |-> "srt_socket", value |-> f.sock]>> \o label[k] \o commonLabel
<1> DEFINE L == [name : {NULL, "srt_socket"} \cup LabelNames,
                 value : {NULL} \cup Sockets \cup LabelValues]
           one == <<[name |-> "srt_socket", value |-> f.sock]>>
           p == label[k]
           c == commonLabel
<1>1. f.labels \in Seq(L) /\ f.sock \in Sockets
  BY DEF Family
<1>2. p \in Seq(LabelType) /\ c \in Seq(LabelType)
  BY StateFacts DEF TypeOK
<1>3. LabelType \subseteq L
  BY DEF LabelType
<1>4. p \in Seq(L) /\ c \in Seq(L) /\ Len(p) \in Nat /\ Len(c) \in Nat
  <2>1. ASSUME NEW s \in Seq(LabelType) PROVE s \in Seq(L) /\ Len(s) \in Nat
    <3>1. Len(s) \in Nat /\ s \in [1 .. Len(s) -> LabelType]
      BY LenProperties
    <3>2. s \in [1 .. Len(s) -> L]
      BY <1>3, <3>1
    <3> QED
      BY <3>1, <3>2, FunctionIsSeq
  <2> QED
    BY <1>2, <2>1
<1>5. one \in Seq(L) /\ Len(one) = 1 /\ one[1] = [name |-> "srt_socket", value |-> f.sock]
  BY <1>1
<1>6. /\ Len(f.labels) = 1 + Len(p) + Len(c)
      /\ f.labels[1] = one[1]
      /\ \A j \in 1 .. Len(p) : f.labels[1 + j] = p[j]
      /\ \A j \in 1 .. Len(c) : f.labels[1 + Len(p) + j] = c[j]
  BY <1>5 DEF Counted, PrivateCopied, CommonCopied
<1> HIDE DEF L, one, p, c
<1> DEFINE q == one \o p
           w == q \o c
<1>7. /\ q \in Seq(L)
      /\ Len(q) = 1 + Len(p)
      /\ q[1] = one[1]
      /\ \A j \in 2 .. 1 + Len(p) : q[j] = p[j - 1]
  <2>1. /\ q \in Seq(L)
        /\ Len(q) = Len(one) + Len(p)
        /\ \A j \in 1 .. Len(one) + Len(p) :
              q[j] = IF j <= Len(one) THEN one[j] ELSE p[j - Len(one)]
    BY <1>4, <1>5, ConcatProperties
  <2> HIDE DEF q
  <2> QED
    BY <1>4, <1>5, <2>1
<1> HIDE DEF q
<1>8. /\ w \in Seq(L)
      /\ Len(w) = 1 + Len(p) + Len(c)
      /\ \A j \in 1 .. 1 + Len(p) : w[j] = q[j]
      /\ \A j \in 1 .. Len(c) : w[1 + Len(p) + j] = c[j]
  <2>1. /\ w \in Seq(L)
        /\ Len(w) = Len(q) + Len(c)
        /\ \A j \in 1 .. Len(q) + Len(c) :
              w[j] = IF j <= Len(q) THEN q[j] ELSE c[j - Len(q)]
    BY <1>4, <1>7, ConcatProperties
  <2> HIDE DEF w
  <2>2. ASSUME NEW j \in 1 .. Len(c) PROVE w[1 + Len(p) + j] = c[j]
    <3>1. /\ 1 + Len(p) + j \in 1 .. Len(q) + Len(c)
          /\ ~ (1 + Len(p) + j <= Len(q))
          /\ 1 + Len(p) + j - Len(q) = j
      BY <1>4, <1>7
    <3> QED
      BY <2>1, <3>1
  <2>3. \A j \in 1 .. 1 + Len(p) : w[j] = q[j]
    BY <1>4, <1>7, <2>1
  <2> QED
    BY <1>4, <1>7, <2>1, <2>2, <2>3
<1> HIDE DEF w
<1>9. ASSUME NEW j \in 1 .. Len(f.labels)
      PROVE  f.labels[j] = w[j]
  <2>1. j \in 1 .. 1 + Len(p) + Len(c)
    BY <1>6
  <2>2. CASE j = 1
    BY <1>4, <1>6, <1>7, <1>8, <2>2
  <2>3. CASE j \in 2 .. 1 + Len(p)
    <3>1. j - 1 \in 1 .. Len(p) /\ 1 + (j - 1) = j /\ j \in 1 .. 1 + Len(p)
      BY <1>4, <2>3
    <3>2. f.labels[j] = p[j - 1]
      BY <1>6, <3>1
    <3> QED
      BY <1>7, <1>8, <2>3, <3>1, <3>2
  <2>4. CASE j > 1 + Len(p)
    <3>1. j - (1 + Len(p)) \in 1 .. Len(c) /\ 1 + Len(p) + (j - (1 + Len(p))) = j
      BY <1>4, <2>1, <2>4
    <3> QED
      BY <1>6, <1>8, <3>1
  <2> QED
    BY <1>4, <2>1, <2>2, <2>3, <2>4
<1>10. f.labels = w
  BY <1>1, <1>6, <1>8, <1>9, SeqEqual
<1> QED
  BY <1>10 DEF w, q, one, p, c

\* If no registration overlaps a scrape and no variable has two entries, a metric
\* is sent with the socket, the labels of its variable and the common ones, and
\* with nothing else.
THEOREM LabelsAreWhole ==
    DistinctEntries /\ "quiet" \in Contract => (Spec => []LabelsWhole)
<1> SUFFICES ASSUME DistinctEntries, "quiet" \in Contract PROVE Spec => []LabelsWhole
  OBVIOUS
<1> DEFINE Distinct ==
        \A i, j \in Entries : filteredData[i].name = filteredData[j].name => i = j
<1>1. Init => LabelsInv
  BY DEF Init, LabelsInv
<1>2. IInv /\ LabelsInv /\ [Next]_vars => LabelsInv'
  BY LabelsNext
<1>3. Init => Distinct
  BY DEF Init, DistinctEntries, Entries
<1>4. Distinct /\ [Next]_vars => Distinct'
  <2>1. [Next]_vars => UNCHANGED filteredData
    BY DEF Next, CollectStep, Libsrt, vars, SrtSockRegister, LabelRegister, CollectStarts,
           CollectSocket, SkipSocket, SocketDone, NextSocket, CollectNothing, Reply,
           CountLabels, FillPrivate, FillCommon, StatGrows, SocketConnects, SocketCloses
  <2> QED
    BY <2>1 DEF Entries
<1>5. IInv /\ LabelsInv /\ Distinct => LabelsWhole
  <2> SUFFICES ASSUME IInv, LabelsInv, Distinct, pc = "done",
                      NEW i \in DOMAIN translated
               PROVE  LET f == translated[i]
                          k == EntryOf(f.name)
                      IN  f.labels = <<[name |-> "srt_socket", value |-> f.sock]>>
                                        \o label[k] \o commonLabel
    BY DEF LabelsWhole
  <2> DEFINE f == translated[i]
  <2>1. f \in Family /\ filteredData \in Seq(EntryType) /\ Len(filteredData) \in Nat
        /\ Entries = 1 .. Len(filteredData)
    BY StateFacts DEF IInv, TypeOK
  <2>2. PICK k \in Entries : Labelled(i, k)
    BY DEF LabelsInv
  <2>3. f.name = filteredData[k].name /\ Counted(f, k) /\ PrivateCopied(f, k)
        /\ CommonCopied(f, k)
    BY <2>2 DEF Labelled
  <2>4. EntryOf(f.name) = k
    <3>1. k \in 0 .. Len(filteredData) /\ k # 0
      BY <2>1
    <3>2. \A j \in 1 .. k - 1 : j \in Entries /\ j # k
      BY <2>1, <3>1
    <3>3. \A j \in 1 .. k - 1 : filteredData[j].name # f.name
      BY <2>3, <3>2
    <3> HIDE DEF f
    <3> QED
      BY <2>1, <2>3, <3>1, <3>3, FirstNamedIs DEF EntryOf
  <2>5. f.labels = <<[name |-> "srt_socket", value |-> f.sock]>> \o label[k] \o commonLabel
    BY <2>1, <2>3, CompleteLabels DEF IInv
  <2> QED
    BY <2>4, <2>5
<1> QED
  BY <1>1, <1>2, <1>3, <1>4, <1>5, InvInit, InvNext, PTL DEF Spec

-----------------------------------------------------------------------------
(* The selections that the theorems assume                                 *)

\* The lists of variables that let no entry of the table pass twice.
ListsOnce ==
    \A cfg \in Configs :
        \/ cfg.filterMode = "WHITELIST" /\ IsInjective(cfg.varList)
        \/ Len(cfg.varList) = 1

\* A whitelist without repetitions, and a list of one in either mode, export no
\* variable twice (LoadFilterFromConfig).
THEOREM ListsOnceAreDistinct == ListsOnce => DistinctEntries
<1> SUFFICES ASSUME ListsOnce, NEW cfg \in Configs,
                    NEW i \in DOMAIN LoadFilterFromConfig(cfg),
                    NEW j \in DOMAIN LoadFilterFromConfig(cfg),
                    LoadFilterFromConfig(cfg)[i].name = LoadFilterFromConfig(cfg)[j].name
             PROVE  i = j
  BY DEF DistinctEntries
<1> DEFINE filtered == LoadFilterFromConfig(cfg)
           list == cfg.varList
<1>1. list \in Seq(STRING)
  BY CollectorAssumption
<1>2. DOMAIN list = 1 .. Len(list)
  BY <1>1, LenProperties
<1>3. \A d \in TableEntries : \A k, l \in Lets(cfg, d) : k = l
  <2>1. CASE cfg.filterMode = "WHITELIST" /\ IsInjective(list)
    BY <2>1 DEF Lets, Passes, IsInjective
  <2>2. CASE Len(list) = 1
    BY <1>2, <2>2 DEF Lets
  <2> QED
    BY <2>1, <2>2 DEF ListsOnce
<1>4. filtered \in Seq(TableEntries) /\ IsInjective(filtered)
  BY <1>1, <1>3, FilterSelects
<1>5. filtered[i] \in TableEntries /\ filtered[j] \in TableEntries
  <2> HIDE DEF filtered
  <2>1. DOMAIN filtered = 1 .. Len(filtered)
    BY <1>4, LenProperties
  <2>2. i \in 1 .. Len(filtered) /\ j \in 1 .. Len(filtered)
    BY <2>1 DEF filtered
  <2> QED
    BY <1>4, <2>2, ElementOfSeq
<1>6. \A d, e \in TableEntries : d.name = e.name => d = e
  BY TableFacts
<1>7. filtered[i] = filtered[j]
  BY <1>5, <1>6
<1> QED
  BY <1>4, <1>7 DEF IsInjective

\* The one entry of the table that reads another statistic than its own is that of
\* pktRecvNAKTotal: without it all values are those of their names.
THEOREM OnlyNakIsWrong ==
    OwnOffsets <=>
        \A cfg \in Configs : \A i \in DOMAIN LoadFilterFromConfig(cfg) :
            LoadFilterFromConfig(cfg)[i].name # "pktRecvNAKTotal"
<1>1. \A d \in TableEntries : d.offset = d.name <=> d.name # "pktRecvNAKTotal"
  <2>1. /\ DataMap[1].name = "msTimeStamp" /\ DataMap[1].offset = "msTimeStamp"
        /\ DataMap[2].name = "pktSentTotal" /\ DataMap[2].offset = "pktSentTotal"
        /\ DataMap[3].name = "pktRecvTotal" /\ DataMap[3].offset = "pktRecvTotal"
        /\ DataMap[4].name = "pktRecvNAKTotal" /\ DataMap[4].offset = "pktRecvACKTotal"
        /\ DataMap[5].name = "msRTT" /\ DataMap[5].offset = "msRTT"
    BY DEF DataMap
  <2>2. \A i \in 1 .. 5 : i = 1 \/ i = 2 \/ i = 3 \/ i = 4 \/ i = 5
    OBVIOUS
  <2>3. \A i \in 1 .. 5 :
           DataMap[i].offset = DataMap[i].name <=> DataMap[i].name # "pktRecvNAKTotal"
    BY <2>1, <2>2
  <2> QED
    BY <2>3, TableFacts
<1>2. ASSUME NEW cfg \in Configs, NEW i \in DOMAIN LoadFilterFromConfig(cfg)
      PROVE  LoadFilterFromConfig(cfg)[i] \in TableEntries
  <2> DEFINE filtered == LoadFilterFromConfig(cfg)
  <2>1. filtered \in Seq(TableEntries) /\ i \in DOMAIN filtered
    BY CollectorAssumption, FilterSelects
  <2> HIDE DEF filtered
  <2>2. i \in 1 .. Len(filtered)
    BY <2>1, LenProperties
  <2>3. filtered[i] \in TableEntries
    BY <2>1, <2>2, ElementOfSeq
  <2> QED
    BY <2>3 DEF filtered
<1> QED
  BY <1>1, <1>2 DEF OwnOffsets

-----------------------------------------------------------------------------
(* The sockets of an answer                                                *)

\* The sockets at these positions, and the type of what is returned of a socket.
SocketsAt(order) == [i \in DOMAIN order |-> srtSock[order[i]]]
Row == Sockets \X VarNames

\* The first entries of a socket: none, one more, and all.
LEMMA RowsFacts ==
    ASSUME TypeOK, NEW s
    PROVE  /\ Rows(s, 0) = <<>>
           /\ \A n \in 0 .. Len(filteredData) :
                 /\ s \in Sockets => Rows(s, n) \in Seq(Row)
                 /\ Len(Rows(s, n)) = n
                 /\ \A k \in 1 .. n : Rows(s, n)[k] = <<s, filteredData[k].name>>
<1>1. Len(filteredData) \in Nat
      /\ \A k \in 1 .. Len(filteredData) : filteredData[k].name \in VarNames
  BY StateFacts DEF EntryType
<1>2. Rows(s, 0) = <<>>
  BY DEF Rows
<1>3. ASSUME NEW n \in 0 .. Len(filteredData)
      PROVE  /\ s \in Sockets => Rows(s, n) \in Seq(Row)
             /\ Len(Rows(s, n)) = n
             /\ \A k \in 1 .. n : Rows(s, n)[k] = <<s, filteredData[k].name>>
  <2> DEFINE any == {<<s, filteredData[k].name>> : k \in 1 .. n}
  <2>1. n \in Nat
    BY <1>1
  <2>2. Rows(s, n) \in [1 .. n -> any]
    BY DEF Rows
  <2>3. Len(Rows(s, n)) = n
    BY <2>1, <2>2, FunctionIsSeq
  <2>4. s \in Sockets => Rows(s, n) \in [1 .. n -> Row]
    BY <1>1, <2>1 DEF Rows, Row
  <2>5. s \in Sockets => Rows(s, n) \in Seq(Row)
    BY <2>1, <2>4, FunctionIsSeq
  <2> QED
    BY <2>3, <2>5 DEF Rows
<1> QED
  BY <1>2, <1>3

\* The families of no socket, and those of one socket more.
LEMMA FamiliesFacts ==
    ASSUME TypeOK
    PROVE  /\ Families(<<>>) = <<>>
           /\ \A socks \in Seq(Sockets) :
                 /\ Families(socks) \in Seq(Row)
                 /\ \A s \in Sockets :
                       Families(Append(socks, s))
                          = Families(socks) \o Rows(s, Len(filteredData))
<1> DEFINE n == Len(filteredData)
           R == Seq(Row)
           Each(socks) == [i \in DOMAIN socks |-> Rows(socks[i], n)]
<1>1. n \in Nat /\ n \in 0 .. n
  BY StateFacts
<1>2. \A s \in Sockets : Rows(s, n) \in R
  BY <1>1, RowsFacts
<1> HIDE DEF n, R
<1>3. ASSUME NEW socks \in Seq(Sockets)
      PROVE  Each(socks) \in Seq(R) /\ Len(Each(socks)) = Len(socks)
  <2>1. Len(socks) \in Nat /\ DOMAIN socks = 1 .. Len(socks)
        /\ \A i \in 1 .. Len(socks) : socks[i] \in Sockets
    BY LenProperties, ElementOfSeq
  <2>2. Each(socks) \in [1 .. Len(socks) -> R]
    BY <1>2, <2>1
  <2> HIDE DEF Each
  <2> QED
    BY <2>1, <2>2, FunctionIsSeq
<1>4. Families(<<>>) = <<>>
  <2>1. Each(<<>>) = <<>>
    OBVIOUS
  <2> QED
    BY <2>1, FlattenEmpty DEF Families, n
<1>5. ASSUME NEW socks \in Seq(Sockets)
      PROVE  Families(socks) \in R
  <2>1. Families(socks) = FlattenSeq(Each(socks))
    BY DEF Families, n
  <2> HIDE DEF Each
  <2>2. Each(socks) \in Seq(Seq(Row))
    BY <1>3 DEF R
  <2> QED
    BY <2>1, <2>2, FlattenElements DEF R
<1>6. ASSUME NEW socks \in Seq(Sockets), NEW s \in Sockets
      PROVE  Families(Append(socks, s)) = Families(socks) \o Rows(s, n)
  <2> DEFINE more == Append(socks, s)
  <2>1. /\ more \in Seq(Sockets) /\ Len(more) = Len(socks) + 1
        /\ \A i \in 1 .. Len(socks) : more[i] = socks[i]
        /\ more[Len(socks) + 1] = s
        /\ Len(socks) \in Nat /\ DOMAIN socks = 1 .. Len(socks)
    BY AppendProperties, LenProperties
  <2>2. DOMAIN more = 1 .. Len(socks) + 1
    BY <2>1, LenProperties
  <2> HIDE DEF more
  <2>3. /\ Each(more) \in Seq(R) /\ Len(Each(more)) = Len(socks) + 1
        /\ \A i \in 1 .. Len(socks) : Each(more)[i] = Rows(socks[i], n)
        /\ Each(more)[Len(socks) + 1] = Rows(s, n)
    <3>1. Each(more) \in Seq(R) /\ Len(Each(more)) = Len(more)
      BY <1>3, <2>1
    <3>2. \A i \in 1 .. Len(socks) + 1 : Each(more)[i] = Rows(more[i], n)
      BY <2>2
    <3> HIDE DEF Each
    <3> QED
      BY <2>1, <3>1, <3>2
  <2>4. /\ Each(socks) \in Seq(R) /\ Len(Each(socks)) = Len(socks)
        /\ \A i \in 1 .. Len(socks) : Each(socks)[i] = Rows(socks[i], n)
    BY <1>3, <2>1
  <2>5. Families(more) = FlattenSeq(Each(more)) /\ Families(socks) = FlattenSeq(Each(socks))
    BY DEF Families, n
  <2> DEFINE a == Each(socks)
             b == Each(more)
             t == Rows(s, n)
  <2> HIDE DEF Each, a, b, t
  <2>6. b = Append(a, t)
    <3>1. a \in Seq(R) /\ b \in Seq(R) /\ t \in R /\ Len(b) = Len(a) + 1 /\ Len(a) \in Nat
          /\ b[Len(a) + 1] = t /\ \A i \in 1 .. Len(a) : b[i] = a[i]
      BY <1>2, <2>1, <2>3, <2>4 DEF a, b, t
    <3>2. /\ Append(a, t) \in Seq(R) /\ Len(Append(a, t)) = Len(a) + 1
          /\ \A i \in 1 .. Len(a) : Append(a, t)[i] = a[i]
          /\ Append(a, t)[Len(a) + 1] = t
      BY <3>1, AppendProperties
    <3>3. \A i \in 1 .. Len(b) : b[i] = Append(a, t)[i]
      BY <3>1, <3>2
    <3> QED
      BY <3>1, <3>2, <3>3, SeqEqual
  <2>7. FlattenSeq(Append(a, t)) = FlattenSeq(a) \o t
    BY <1>2, <2>4, FlattenAppend DEF a, t, R
  <2> QED
    BY <2>5, <2>6, <2>7 DEF a, b, t, more
<1> QED
  BY <1>4, <1>5, <1>6 DEF n, R

\* What the types say of an order: its positions, its sockets, and their families.
LEMMA OrderFacts ==
    ASSUME TypeOK, NEW order \in BoundedSeq(1 .. sockIt - 1, sockIt - 1),
           sockIt <= Len(srtSock) + 1
    PROVE  /\ order \in Seq(1 .. sockIt - 1) /\ Len(order) \in 0 .. sockIt - 1
           /\ DOMAIN order = 1 .. Len(order)
           /\ sockIt \in Nat \ {0}
           /\ SocketsAt(order) \in Seq(Sockets) /\ Len(SocketsAt(order)) = Len(order)
           /\ Families(SocketsAt(order)) \in Seq(Row)
<1>1. sockIt \in Nat \ {0} /\ sockIt - 1 \in Nat
  BY CollectorAssumption DEF TypeOK
<1>2. order \in Seq(1 .. sockIt - 1) /\ Len(order) \in 0 .. sockIt - 1
  BY <1>1, BoundedSeqFacts
<1>3. DOMAIN order = 1 .. Len(order) /\ \A i \in 1 .. Len(order) : order[i] \in 1 .. sockIt - 1
  BY <1>2, LenProperties, ElementOfSeq
<1>4. \A i \in 1 .. Len(order) : srtSock[order[i]] \in Sockets
  BY <1>1, <1>3, StateFacts
<1>5. SocketsAt(order) \in [1 .. Len(order) -> Sockets]
  BY <1>3, <1>4 DEF SocketsAt
<1>6. SocketsAt(order) \in Seq(Sockets) /\ Len(SocketsAt(order)) = Len(order)
  <2>1. Len(order) \in Nat
    BY <1>1, <1>2
  <2> QED
    BY <1>5, <2>1, FunctionIsSeq
<1>7. Families(SocketsAt(order)) \in Seq(Row)
  BY <1>6, FamiliesFacts
<1> QED
  BY <1>1, <1>2, <1>3, <1>6, <1>7

\* The families of an order do not change with what the scrape does.
LEMMA FamiliesStay ==
    ASSUME UNCHANGED <<srtSock, filteredData>>, NEW order
    PROVE  /\ Families(SocketsAt(order))' = Families(SocketsAt(order))
           /\ \A s, n : Rows(s, n)' = Rows(s, n)
BY DEF Families, SocketsAt, Rows

\* A socket that is open after a step in a scrape, and was connected when the scrape
\* began, was open before the step.
LEMMA InOrderStays ==
    ASSUME UNCHANGED <<srtSock, before>>,
           \A s \in open' : before[s] # NULL => s \in open,
           NEW order, NEW n, InOrder(order, n)
    PROVE  InOrder(order, n)'
BY DEF InOrder

\* A step that neither changes what is reported nor goes on to another socket.
LEMMA ReportStays ==
    ASSUME ReportInv, pc # "idle",
           UNCHANGED <<srtSock, filteredData, sockIt, before>>,
           Reported' = Reported, Made' = Made,
           \A s \in open' : before[s] # NULL => s \in open,
           pc' = "done" => sockIt = Len(srtSock) + 1
    PROVE  ReportInv'
<1>1. PICK order \in BoundedSeq(1 .. sockIt - 1, sockIt - 1) :
        /\ InOrder(order, sockIt - 1)
        /\ Reported = Families(SocketsAt(order)) \o Rows(srtSock[sockIt], Made)
  BY DEF ReportInv, SocketsAt
<1>2. order \in BoundedSeq(1 .. sockIt' - 1, sockIt' - 1)
  OBVIOUS
<1>3. InOrder(order, sockIt - 1)'
  BY <1>1, InOrderStays
<1>4. Reported' = Families(SocketsAt(order))' \o Rows(srtSock[sockIt], Made)'
  <2>1. Rows(srtSock[sockIt], Made)' = Rows(srtSock[sockIt], Made)
    BY DEF Rows
  <2> QED
    BY <1>1, <2>1, FamiliesStay
<1>5. \E o \in BoundedSeq(1 .. sockIt' - 1, sockIt' - 1) :
        /\ InOrder(o, sockIt - 1)'
        /\ Reported' = Families(SocketsAt(o))' \o Rows(srtSock[sockIt], Made)'
  BY <1>2, <1>3, <1>4
<1> QED
  BY <1>5 DEF ReportInv, SocketsAt

\* Where the iterators of a scrape are that is still in its loop.
LEMMA IteratorFacts ==
    ASSUME IInv, ~ undefined, pc # "idle", pc # "done", srtSock # <<>>
    PROVE  /\ sockIt \in 1 .. Len(srtSock) /\ sockIt \in Nat \ {0}
           /\ Len(srtSock) \in Nat
           /\ srtSock[sockIt] \in Sockets
           /\ mapIt \in 1 .. Len(filteredData) + 1
<1>1. Len(srtSock) \in Nat \ {0} /\ sockIt \in Nat \ {0}
  BY StateFacts, CollectorAssumption, EmptySeq DEF IInv, TypeOK
<1>2. sockIt <= Len(srtSock)
  <2>1. pc \in {"socket", "metric", "private", "common"}
    BY DEF IInv, TypeOK, PcValues
  <2> QED
    BY <1>1, <2>1 DEF IInv, ScrapeInv, InMetric
<1> QED
  BY <1>1, <1>2, StateFacts DEF IInv, TypeOK

\* An order of the first m positions is one of the first m + 1, and the next position
\* can follow it.
LEMMA OrderGrows ==
    ASSUME NEW m \in Nat, NEW order \in BoundedSeq(1 .. m, m),
           NEW n, n = m + 1
    PROVE  /\ order \in BoundedSeq(1 .. n, n)
           /\ Append(order, n) \in BoundedSeq(1 .. n, n)
           /\ DOMAIN order = 1 .. Len(order) /\ Len(order) \in Nat
           /\ \A i \in 1 .. Len(order) : order[i] \in 1 .. m
<1>1. order \in Seq(1 .. m) /\ Len(order) \in 0 .. m
  BY BoundedSeqFacts
<1>2. Len(order) \in Nat /\ order \in [1 .. Len(order) -> 1 .. m]
  BY <1>1, LenProperties
<1>3. order \in [1 .. Len(order) -> 1 .. n]
  BY <1>2
<1>4. order \in Seq(1 .. n) /\ n \in 1 .. n /\ n \in Nat
  BY <1>2, <1>3, FunctionIsSeq
<1>5. Append(order, n) \in Seq(1 .. n) /\ Len(Append(order, n)) = Len(order) + 1
  BY <1>4, AppendProperties
<1>6. Len(order) \in 0 .. n /\ Len(Append(order, n)) \in 0 .. n
  BY <1>1, <1>5
<1> QED
  BY <1>1, <1>2, <1>4, <1>5, <1>6, BoundedSeqFacts

\* A socket that is left out was not open.
LEMMA ReportSkips ==
    ASSUME IInv, ReportInv, SkipSocket
    PROVE  ReportInv'
<1>1. /\ ~ undefined /\ pc = "socket" /\ pc' \in {"socket", "done"}
      /\ sockIt' = sockIt + 1
      /\ sockIt <= Len(srtSock) /\ srtSock[sockIt] \notin open
      /\ UNCHANGED <<srtSock, filteredData, translated, before, open>>
      /\ pc' = "done" => sockIt = Len(srtSock)
  BY DEF SkipSocket, NextSocket, ScrapeAt, libsrt
<1>2. sockIt \in Nat \ {0} /\ Len(srtSock) \in Nat
  BY StateFacts, CollectorAssumption DEF IInv, TypeOK
<1>3. PICK order \in BoundedSeq(1 .. sockIt - 1, sockIt - 1) :
        /\ InOrder(order, sockIt - 1)
        /\ Reported = Families(SocketsAt(order)) \o Rows(srtSock[sockIt], Made)
  BY <1>1 DEF ReportInv, SocketsAt
<1>4. order \in BoundedSeq(1 .. sockIt' - 1, sockIt' - 1)
  <2> DEFINE m == sockIt - 1
  <2>1. m \in Nat /\ sockIt = m + 1
    BY <1>2
  <2>2. order \in BoundedSeq(1 .. m, m)
    OBVIOUS
  <2> HIDE DEF m
  <2>3. order \in BoundedSeq(1 .. sockIt, sockIt)
    BY <2>1, <2>2, OrderGrows
  <2>4. sockIt' - 1 = sockIt
    BY <1>1, <1>2
  <2> QED
    BY <2>3, <2>4
<1>5. InOrder(order, sockIt - 1)'
  <2>1. sockIt' - 1 = sockIt /\ \A i \in 1 .. sockIt : i \in 1 .. sockIt - 1 \/ i = sockIt
    BY <1>1, <1>2
  <2> QED
    BY <1>1, <1>3, <2>1 DEF InOrder
<1>6. Reported' = Families(SocketsAt(order))' \o Rows(srtSock[sockIt], Made)'
  <2>1. Made = 0 /\ Made' = 0
    BY <1>1 DEF Made
  <2>2. Rows(srtSock[sockIt], Made) = <<>>
    BY <2>1 DEF Rows
  <2>3. Rows(srtSock[sockIt], Made)' = <<>>
    BY <2>1 DEF Rows
  <2>4. Reported' = Reported
    BY <1>1 DEF Reported
  <2> QED
    BY <1>1, <1>3, <2>2, <2>3, <2>4, FamiliesStay
<1>7. \E o \in BoundedSeq(1 .. sockIt' - 1, sockIt' - 1) :
        /\ InOrder(o, sockIt - 1)'
        /\ Reported' = Families(SocketsAt(o))' \o Rows(srtSock[sockIt], Made)'
  BY <1>4, <1>5, <1>6
<1>8. pc' = "done" => sockIt' = Len(srtSock') + 1
  BY <1>1
<1> QED
  BY <1>7, <1>8 DEF ReportInv, SocketsAt

\* A socket whose entries are all made is reported in full, after the others.
LEMMA ReportCompletes ==
    ASSUME IInv, ReportInv, SocketDone
    PROVE  ReportInv'
<1>1. /\ ~ undefined /\ pc = "metric" /\ pc' \in {"socket", "done"}
      /\ sockIt' = sockIt + 1 /\ mapIt > Len(filteredData)
      /\ UNCHANGED <<srtSock, filteredData, translated, before, open>>
      /\ pc' = "done" => sockIt = Len(srtSock)
  BY DEF SocketDone, NextSocket, ScrapeAt, libsrt
<1>2. /\ sockIt \in 1 .. Len(srtSock) /\ sockIt \in Nat \ {0}
      /\ Len(srtSock) \in Nat
      /\ srtSock[sockIt] \in Sockets
      /\ mapIt - 1 = Len(filteredData)
      /\ sockIt <= Len(srtSock) + 1
  <2>1. srtSock # <<>>
    <3>1. sockIt <= Len(srtSock) /\ sockIt \in Nat \ {0}
      BY <1>1, CollectorAssumption DEF IInv, TypeOK, ScrapeInv, InMetric
    <3>2. Len(<<>>) = 0
      OBVIOUS
    <3> QED
      BY <3>1, <3>2
  <2>2. /\ sockIt \in 1 .. Len(srtSock) /\ sockIt \in Nat \ {0}
        /\ Len(srtSock) \in Nat
        /\ srtSock[sockIt] \in Sockets
        /\ mapIt \in 1 .. Len(filteredData) + 1
    BY <1>1, <2>1, IteratorFacts
  <2> QED
    BY <1>1, <2>2, StateFacts DEF IInv
<1>3. PICK order \in BoundedSeq(1 .. sockIt - 1, sockIt - 1) :
        /\ InOrder(order, sockIt - 1)
        /\ Reported = Families(SocketsAt(order)) \o Rows(srtSock[sockIt], Made)
  BY <1>1 DEF ReportInv, SocketsAt
<1>4. PICK more : more = Append(order, sockIt)
  OBVIOUS
<1>5. /\ order \in BoundedSeq(1 .. sockIt, sockIt) /\ more \in BoundedSeq(1 .. sockIt, sockIt)
      /\ DOMAIN order = 1 .. Len(order) /\ Len(order) \in Nat
      /\ \A i \in 1 .. Len(order) : order[i] \in 1 .. sockIt - 1
  <2> DEFINE m == sockIt - 1
  <2>1. m \in Nat /\ sockIt = m + 1 /\ order \in BoundedSeq(1 .. m, m)
    BY <1>2
  <2> HIDE DEF m
  <2>2. /\ order \in BoundedSeq(1 .. sockIt, sockIt)
        /\ Append(order, sockIt) \in BoundedSeq(1 .. sockIt, sockIt)
        /\ DOMAIN order = 1 .. Len(order) /\ Len(order) \in Nat
        /\ \A i \in 1 .. Len(order) : order[i] \in 1 .. m
    BY <2>1, OrderGrows
  <2> QED
    BY <1>4, <2>2 DEF m
<1>6. /\ Len(more) = Len(order) + 1 /\ DOMAIN more = 1 .. Len(order) + 1
      /\ \A i \in 1 .. Len(order) : more[i] = order[i]
      /\ more[Len(order) + 1] = sockIt
  <2>1. order \in Seq(1 .. sockIt) /\ sockIt \in 1 .. sockIt
    BY <1>2, <1>5, BoundedSeqFacts
  <2>2. /\ more \in Seq(1 .. sockIt) /\ Len(more) = Len(order) + 1
        /\ \A i \in 1 .. Len(order) : more[i] = order[i]
        /\ more[Len(order) + 1] = sockIt
    BY <1>4, <2>1, AppendProperties
  <2>3. DOMAIN more = 1 .. Len(more)
    BY <2>2, LenProperties
  <2> QED
    BY <2>2, <2>3
<1>7. InOrder(more, sockIt)
  <2>1. \A i, j \in DOMAIN more : i < j => more[i] < more[j]
    <3> SUFFICES ASSUME NEW i \in 1 .. Len(order) + 1, NEW j \in 1 .. Len(order) + 1, i < j
                 PROVE  more[i] < more[j]
      BY <1>6
    <3>1. i \in 1 .. Len(order) /\ more[i] = order[i] /\ order[i] \in 1 .. sockIt - 1
      BY <1>5, <1>6
    <3>2. CASE j = Len(order) + 1
      BY <1>2, <1>6, <3>1, <3>2
    <3>3. CASE j # Len(order) + 1
      <4>1. j \in 1 .. Len(order) /\ more[j] = order[j]
        BY <1>5, <1>6, <3>3
      <4> QED
        BY <1>3, <1>5, <3>1, <4>1 DEF InOrder
    <3> QED
      BY <3>2, <3>3
  <2>2. ToSet(order) \subseteq ToSet(more) /\ sockIt \in ToSet(more)
    <3>1. \A i \in 1 .. Len(order) : i \in 1 .. Len(order) + 1
      BY <1>5
    <3>2. Len(order) + 1 \in 1 .. Len(order) + 1
      BY <1>5
    <3> QED
      BY <1>5, <1>6, <3>1, <3>2 DEF ToSet
  <2>3. \A i \in 1 .. sockIt : i \in 1 .. sockIt - 1 \/ i = sockIt
    BY <1>2
  <2> QED
    BY <1>3, <2>1, <2>2, <2>3 DEF InOrder
<1>8. Reported = Families(SocketsAt(more))
  <2> DEFINE s == srtSock[sockIt]
             socks == SocketsAt(order)
  <2>1. socks \in Seq(Sockets) /\ Len(socks) = Len(order)
    BY <1>2, OrderFacts DEF IInv
  <2>2. SocketsAt(more) = Append(socks, s)
    <3>1. /\ Append(socks, s) \in Seq(Sockets) /\ Len(Append(socks, s)) = Len(order) + 1
          /\ \A i \in 1 .. Len(order) : Append(socks, s)[i] = socks[i]
          /\ Append(socks, s)[Len(order) + 1] = s
      BY <1>2, <2>1, AppendProperties
    <3>2. \A i \in 1 .. Len(order) : socks[i] = srtSock[order[i]]
      BY <1>5 DEF SocketsAt
    <3> HIDE DEF s, socks
    <3>3. \A i \in 1 .. Len(order) + 1 : Append(socks, s)[i] = srtSock[more[i]]
      BY <1>5, <1>6, <3>1, <3>2 DEF s
    <3>4. DOMAIN Append(socks, s) = 1 .. Len(order) + 1
      BY <3>1, LenProperties
    <3>5. Append(socks, s) = [i \in 1 .. Len(order) + 1 |-> Append(socks, s)[i]]
      BY <3>1, <3>4, LenProperties
    <3>6. SocketsAt(more) = [i \in 1 .. Len(order) + 1 |-> srtSock[more[i]]]
      BY <1>6 DEF SocketsAt
    <3> QED
      BY <3>3, <3>5, <3>6
  <2>3. Made = Len(filteredData)
    BY <1>1, <1>2 DEF Made
  <2> HIDE DEF socks
  <2>4. Families(Append(socks, s)) = Families(socks) \o Rows(s, Len(filteredData))
    BY <1>2, <2>1, FamiliesFacts DEF IInv
  <2> QED
    BY <1>3, <2>2, <2>3, <2>4 DEF socks
<1>9. Reported' = Families(SocketsAt(more))' \o Rows(srtSock[sockIt], Made)'
  <2>1. Made' = 0
    BY <1>1 DEF Made
  <2>2. Rows(srtSock[sockIt], Made)' = <<>>
    BY <2>1 DEF Rows
  <2>3. Reported' = Reported
    BY <1>1 DEF Reported
  <2>4. SocketsAt(more) \in Seq(Sockets)
    <3>1. Len(order) + 1 \in Nat /\ \A i \in 1 .. Len(order) + 1 : srtSock[more[i]] \in Sockets
      <4>1. \A i \in 1 .. Len(order) + 1 : more[i] \in 1 .. sockIt
        <5>1. Len(order) \in Nat /\ sockIt \in 1 .. sockIt
              /\ \A i \in 1 .. sockIt - 1 : i \in 1 .. sockIt
          BY <1>2, <1>5
        <5>2. \A i \in 1 .. Len(order) + 1 : i \in 1 .. Len(order) \/ i = Len(order) + 1
          BY <5>1
        <5> QED
          BY <1>5, <1>6, <5>1, <5>2
      <4>2. \A i \in 1 .. sockIt : srtSock[i] \in Sockets
        BY <1>2, StateFacts DEF IInv
      <4> QED
        BY <1>5, <4>1, <4>2
    <3>2. SocketsAt(more) \in [1 .. Len(order) + 1 -> Sockets]
      BY <1>6, <3>1 DEF SocketsAt
    <3> QED
      BY <3>1, <3>2, FunctionIsSeq
  <2>5. Families(SocketsAt(more)) \in Seq(Row)
    BY <2>4, FamiliesFacts DEF IInv
  <2>6. Families(SocketsAt(more)) \o <<>> = Families(SocketsAt(more))
    BY <2>5, ConcatEmptySeq
  <2> QED
    BY <1>1, <1>8, <2>2, <2>3, <2>6, FamiliesStay
<1>10. InOrder(more, sockIt - 1)'
  <2>1. sockIt' - 1 = sockIt
    BY <1>1, <1>2
  <2> QED
    BY <1>1, <1>7, <2>1 DEF InOrder
<1>11. more \in BoundedSeq(1 .. sockIt' - 1, sockIt' - 1)
  <2>1. sockIt' - 1 = sockIt
    BY <1>1, <1>2
  <2> QED
    BY <1>5, <2>1
<1>12. \E o \in BoundedSeq(1 .. sockIt' - 1, sockIt' - 1) :
         /\ InOrder(o, sockIt - 1)'
         /\ Reported' = Families(SocketsAt(o))' \o Rows(srtSock[sockIt], Made)'
  BY <1>9, <1>10, <1>11
<1>13. pc' = "done" => sockIt' = Len(srtSock') + 1
  BY <1>1
<1> QED
  BY <1>12, <1>13 DEF ReportInv, SocketsAt

\* A metric that is made adds the next entry of the socket.
LEMMA ReportAdds ==
    ASSUME IInv, ReportInv, CountLabels
    PROVE  ReportInv'
<1> DEFINE s == srtSock[sockIt]
           e == <<s, filteredData[mapIt].name>>
           n == mapIt - 1
<1>1. /\ ~ undefined /\ pc = "metric" /\ pc' = "private"
      /\ UNCHANGED <<srtSock, filteredData, sockIt, mapIt, before, open>>
  BY DEF CountLabels, ScrapeAt, libsrt
<1>2. PICK f \in Family :
        /\ translated' \in Seq(Family)
        /\ Len(translated') = Len(translated) + 1
        /\ \A i \in 1 .. Len(translated) : translated'[i] = translated[i]
        /\ translated'[Len(translated) + 1] = f
        /\ f.name = filteredData[mapIt].name
        /\ f.sock = s
        /\ mapIt \in Entries
  BY CountFacts
<1>3. /\ s \in Sockets /\ sockIt <= Len(srtSock) + 1
      /\ mapIt \in 1 .. Len(filteredData) /\ Len(filteredData) \in Nat
      /\ filteredData[mapIt].name \in VarNames
  <2>1. sockIt <= Len(srtSock) /\ sockIt \in Nat \ {0} /\ Len(srtSock) \in Nat
    BY <1>1, StateFacts, CollectorAssumption DEF IInv, TypeOK, ScrapeInv, InMetric
  <2>2. s \in Sockets
    BY <2>1, StateFacts DEF IInv
  <2> QED
    BY <1>2, <2>1, <2>2, StateFacts DEF IInv, EntryType
<1>4. PICK order \in BoundedSeq(1 .. sockIt - 1, sockIt - 1) :
        /\ InOrder(order, sockIt - 1)
        /\ Reported = Families(SocketsAt(order)) \o Rows(s, Made)
  BY <1>1 DEF ReportInv, SocketsAt
<1>5. n \in 0 .. Len(filteredData) /\ mapIt \in 0 .. Len(filteredData) /\ e \in Row
      /\ mapIt = n + 1 /\ Made = n /\ Made' = mapIt
  BY <1>1, <1>3 DEF Made, Row
<1>6. /\ translated \in Seq(Family) /\ Len(translated) \in Nat
      /\ DOMAIN translated = 1 .. Len(translated)
      /\ DOMAIN translated' = 1 .. Len(translated) + 1
  BY <1>2, LenProperties DEF IInv, TypeOK
<1>7. /\ Reported \in Seq(Row) /\ Len(Reported) = Len(translated)
      /\ \A i \in 1 .. Len(translated) :
            Reported[i] = <<translated[i].sock, translated[i].name>>
  <2>1. \A i \in 1 .. Len(translated) : translated[i] \in Family
    BY <1>6, ElementOfSeq
  <2>2. Reported \in [1 .. Len(translated) -> Row]
    BY <1>6, <2>1 DEF Reported, Family, Row
  <2>3. Reported \in Seq(Row) /\ Len(Reported) = Len(translated)
    BY <1>6, <2>2, FunctionIsSeq
  <2> QED
    BY <1>6, <2>3 DEF Reported
<1>8. Reported' = Append(Reported, e)
  <2>1. /\ Append(Reported, e) \in Seq(Row)
        /\ Len(Append(Reported, e)) = Len(translated) + 1
        /\ \A i \in 1 .. Len(translated) : Append(Reported, e)[i] = Reported[i]
        /\ Append(Reported, e)[Len(translated) + 1] = e
    BY <1>5, <1>7, AppendProperties
  <2>2. Append(Reported, e)
          = [i \in 1 .. Len(translated) + 1 |-> Append(Reported, e)[i]]
    BY <2>1, LenProperties
  <2>3. Reported' = [i \in 1 .. Len(translated) + 1 |->
                        <<translated'[i].sock, translated'[i].name>>]
    BY <1>6 DEF Reported
  <2>4. translated'[Len(translated) + 1].sock = s
        /\ translated'[Len(translated) + 1].name = filteredData[mapIt].name
    BY <1>2
  <2> HIDE DEF s
  <2>5. \A i \in 1 .. Len(translated) + 1 :
           Append(Reported, e)[i] = <<translated'[i].sock, translated'[i].name>>
    <3> TAKE i \in 1 .. Len(translated) + 1
    <3>1. CASE i \in 1 .. Len(translated)
      BY <1>2, <1>7, <2>1, <3>1
    <3>2. CASE i = Len(translated) + 1
      BY <2>1, <2>4, <3>2
    <3>3. i \in 1 .. Len(translated) \/ i = Len(translated) + 1
      BY <1>6
    <3> QED
      BY ONLY <3>1, <3>2, <3>3
  <2> QED
    BY <2>2, <2>3, <2>5
<1>9. Rows(s, mapIt) = Append(Rows(s, n), e)
  <2>1. /\ Rows(s, n) \in Seq(Row) /\ Len(Rows(s, n)) = n
        /\ \A k \in 1 .. n : Rows(s, n)[k] = <<s, filteredData[k].name>>
        /\ Rows(s, mapIt) \in Seq(Row) /\ Len(Rows(s, mapIt)) = mapIt
        /\ \A k \in 1 .. mapIt : Rows(s, mapIt)[k] = <<s, filteredData[k].name>>
    BY <1>3, <1>5, RowsFacts DEF IInv
  <2>2. /\ Append(Rows(s, n), e) \in Seq(Row) /\ Len(Append(Rows(s, n), e)) = n + 1
        /\ \A k \in 1 .. n : Append(Rows(s, n), e)[k] = Rows(s, n)[k]
        /\ Append(Rows(s, n), e)[n + 1] = e
    BY <1>5, <2>1, AppendProperties
  <2>3. \A k \in 1 .. mapIt : Rows(s, mapIt)[k] = Append(Rows(s, n), e)[k]
    <3> TAKE k \in 1 .. mapIt
    <3>1. k \in 1 .. n \/ k = n + 1
      BY <1>3, <1>5
    <3>2. k = n + 1 => k = mapIt
      BY <1>5
    <3> HIDE DEF s, n
    <3> QED
      BY <2>1, <2>2, <3>1, <3>2
  <2>4. Len(Rows(s, mapIt)) = Len(Append(Rows(s, n), e))
    BY <1>5, <2>1, <2>2
  <2> QED
    BY <2>1, <2>2, <2>3, <2>4, SeqEqual
<1>10. Families(SocketsAt(order)) \in Seq(Row) /\ Rows(s, n) \in Seq(Row)
  BY <1>3, <1>5, OrderFacts, RowsFacts DEF IInv
<1>11. Reported' = Families(SocketsAt(order)) \o Rows(s, mapIt)
  <2> DEFINE a == Families(SocketsAt(order))
             b == Rows(s, n)
  <2>1. Reported = a \o b /\ a \in Seq(Row) /\ b \in Seq(Row) /\ e \in Row
    BY <1>4, <1>5, <1>10
  <2> HIDE DEF a, b, e
  <2>2. Append(a \o b, e) = a \o Append(b, e)
    <3>1. \A t \in Seq(Row) : Append(t, e) = t \o <<e>>
      BY <2>1, AppendIsConcat
    <3>2. a \o b \in Seq(Row) /\ <<e>> \in Seq(Row)
      BY <2>1, ConcatProperties
    <3>3. (a \o b) \o <<e>> = a \o (b \o <<e>>)
      BY <2>1, <3>2, ConcatAssociative
    <3> QED
      BY <2>1, <3>1, <3>2, <3>3
  <2> QED
    BY <1>8, <1>9, <2>1, <2>2 DEF a, b
<1>12. Reported' = Families(SocketsAt(order))' \o Rows(srtSock[sockIt], Made)'
  <2>1. Rows(srtSock[sockIt], Made)' = Rows(s, mapIt)
    BY <1>1, <1>5 DEF Rows
  <2> QED
    BY <1>1, <1>11, <2>1, FamiliesStay
<1>13. InOrder(order, sockIt - 1)'
  BY <1>1, <1>4 DEF InOrder
<1>14. order \in BoundedSeq(1 .. sockIt' - 1, sockIt' - 1)
  BY <1>1
<1>15. \E o \in BoundedSeq(1 .. sockIt' - 1, sockIt' - 1) :
         /\ InOrder(o, sockIt - 1)'
         /\ Reported' = Families(SocketsAt(o))' \o Rows(srtSock[sockIt], Made)'
  BY <1>12, <1>13, <1>14
<1> QED
  BY <1>1, <1>15 DEF ReportInv, SocketsAt

\* At its beginning a scrape has reported no socket.
LEMMA ReportStarts ==
    ASSUME IInv, CollectStarts
    PROVE  ReportInv'
<1>1. /\ translated' = <<>> /\ sockIt' = 1 /\ pc' = "socket"
      /\ UNCHANGED <<srtSock, filteredData>>
  BY DEF CollectStarts
<1>2. sockIt' - 1 = 0
  BY <1>1
<1>3. <<>> \in BoundedSeq(1 .. sockIt' - 1, sockIt' - 1)
  <2>1. <<>> \in Seq(1 .. 0) /\ Len(<<>>) \in 0 .. 0
    OBVIOUS
  <2>2. <<>> \in BoundedSeq(1 .. 0, 0)
    BY <2>1, BoundedSeqFacts
  <2> QED
    BY <1>2, <2>2
<1>4. InOrder(<<>>, sockIt - 1)'
  BY <1>1 DEF InOrder
<1>5. Reported' = Families(SocketsAt(<<>>))' \o Rows(srtSock[sockIt], Made)'
  <2>1. Made' = 0
    BY <1>1 DEF Made
  <2>2. Rows(srtSock[sockIt], Made)' = <<>>
    BY <2>1 DEF Rows
  <2>3. Reported' = <<>>
    BY <1>1 DEF Reported
  <2>4. SocketsAt(<<>>) = <<>>
    BY DEF SocketsAt
  <2>5. Families(SocketsAt(<<>>))' = <<>>
    BY <1>1, <2>4, FamiliesStay, FamiliesFacts DEF IInv
  <2>6. <<>> \o <<>> = <<>>
    OBVIOUS
  <2> QED
    BY <2>2, <2>3, <2>5, <2>6
<1>6. \E o \in BoundedSeq(1 .. sockIt' - 1, sockIt' - 1) :
         /\ InOrder(o, sockIt - 1)'
         /\ Reported' = Families(SocketsAt(o))' \o Rows(srtSock[sockIt], Made)'
  BY <1>3, <1>4, <1>5
<1> QED
  BY <1>1, <1>6 DEF ReportInv, SocketsAt

\* Every step keeps the report when no registration overlaps a scrape.
LEMMA ReportNext ==
    ASSUME "quiet" \in Contract
    PROVE  IInv /\ ReportInv /\ [Next]_vars => ReportInv'
<1> SUFFICES ASSUME IInv, ReportInv, [Next]_vars PROVE ReportInv'
  OBVIOUS
<1>1. CASE \/ \E socks \in BoundedSeq(Sockets, MaxSockets) : SrtSockRegister(socks)
           \/ \E n \in LabelNames \cup {NULL}, v \in LabelValues \cup {NULL},
                 var \in VarNames \cup {NULL} : LabelRegister(n, v, var)
           \/ Reply
  <2>1. pc' = "idle"
    BY <1>1 DEF SrtSockRegister, LabelRegister, MayRegister, Reply, scrape
  <2> QED
    BY <2>1 DEF ReportInv
<1>2. CASE CollectStarts
  BY <1>2, ReportStarts
<1>3. CASE SkipSocket
  BY <1>3, ReportSkips
<1>4. CASE SocketDone
  BY <1>4, ReportCompletes
<1>5. CASE CountLabels
  BY <1>5, ReportAdds
<1>6. CASE pc = "idle" /\ (UNCHANGED vars \/ Libsrt)
  <2>1. pc' = "idle"
    BY <1>6 DEF vars, scrape, Libsrt, StatGrows, SocketConnects, SocketCloses
  <2> QED
    BY <2>1 DEF ReportInv
<1>7. CASE pc # "idle" /\ (UNCHANGED vars \/ Libsrt)
  <2>1. UNCHANGED <<srtSock, filteredData, sockIt, mapIt, before, pc, translated>>
    BY <1>7 DEF vars, scrape, Libsrt, StatGrows, SocketConnects, SocketCloses
  <2>2. \A s \in open' : before[s] # NULL => s \in open
    <3>1. CASE \E s \in Sockets : SocketConnects(s)
      BY <3>1 DEF SocketConnects, IInv, StatInv
    <3>2. CASE open' \subseteq open
      BY <3>2
    <3> QED
      BY <1>7, <3>1, <3>2 DEF vars, libsrt, Libsrt, StatGrows, SocketCloses
  <2>3. Reported' = Reported /\ Made' = Made
    BY <2>1 DEF Reported, Made
  <2>4. pc' = "done" => sockIt = Len(srtSock) + 1
    BY <1>7, <2>1 DEF ReportInv
  <2> QED
    BY <1>7, <2>1, <2>2, <2>3, <2>4, ReportStays
<1>8. CASE CollectSocket \/ CollectNothing
  <2>1. /\ pc = "socket" /\ pc' \in {"metric", "done"}
        /\ UNCHANGED <<srtSock, filteredData, sockIt, before, translated, open>>
        /\ pc' = "metric" => mapIt' = 1
    BY <1>8 DEF CollectSocket, CollectNothing, ScrapeAt, libsrt
  <2>2. Reported' = Reported /\ Made' = Made
    BY <2>1 DEF Reported, Made
  <2>3. pc' = "done" => sockIt = Len(srtSock) + 1
    <3> SUFFICES ASSUME CollectNothing PROVE sockIt = Len(srtSock) + 1
      BY <1>8 DEF CollectSocket
    <3>1. srtSock = <<>> /\ ~ undefined /\ pc = "socket"
      BY DEF CollectNothing, ScrapeAt
    <3>2. Len(srtSock) = 0
      BY <3>1
    <3>3. sockIt \in Nat \ {0} /\ (sockIt = 1 \/ sockIt <= Len(srtSock))
      BY <3>1, CollectorAssumption DEF IInv, TypeOK, ScrapeInv
    <3> QED
      BY <3>2, <3>3
  <2> QED
    BY <2>1, <2>2, <2>3, ReportStays
<1>9. CASE FillPrivate \/ FillCommon
  <2>1. /\ pc \in {"private", "common"} /\ pc' \in {"common", "metric"}
        /\ UNCHANGED <<srtSock, filteredData, sockIt, before, open>>
        /\ pc' = "common" => mapIt' = mapIt
        /\ pc' = "metric" => mapIt' = mapIt + 1
    BY <1>9 DEF FillPrivate, FillCommon, ScrapeAt, libsrt
  <2>2. Made' = Made
    BY <2>1, CollectorAssumption, StateFacts DEF Made, IInv, TypeOK
  <2>3. Reported' = Reported
    <3>1. /\ translated \in Seq(Family) /\ translated' \in Seq(Family)
          /\ Len(translated') = Len(translated)
          /\ \A i \in 1 .. Len(translated) :
                /\ translated'[i].name = translated[i].name
                /\ translated'[i].sock = translated[i].sock
      BY <1>9, FillStepFacts
    <3>2. DOMAIN translated = 1 .. Len(translated) /\ DOMAIN translated' = 1 .. Len(translated)
      BY <3>1, LenProperties
    <3> QED
      BY <3>1, <3>2 DEF Reported
  <2>4. pc # "idle" /\ pc' # "done"
    BY <2>1
  <2> QED
    BY <2>1, <2>2, <2>3, <2>4, ReportStays
<1> QED
  BY <1>1, <1>2, <1>3, <1>4, <1>5, <1>6, <1>7, <1>8, <1>9 DEF Next, CollectStep

\* When a scrape is done, the report is complete.
LEMMA ReportIsComplete == IInv /\ ReportInv => EverySocketReported
<1> SUFFICES ASSUME IInv, ReportInv, pc = "done"
             PROVE  \E order \in BoundedSeq(DOMAIN srtSock, Len(srtSock)) :
                       /\ InOrder(order, Len(srtSock))
                       /\ Reported = Families(SocketsAt(order))
  BY DEF EverySocketReported, SocketsAt
<1>1. PICK order \in BoundedSeq(1 .. sockIt - 1, sockIt - 1) :
        /\ InOrder(order, sockIt - 1)
        /\ Reported = Families(SocketsAt(order)) \o Rows(srtSock[sockIt], Made)
  BY DEF ReportInv, SocketsAt
<1>2. sockIt = Len(srtSock) + 1 /\ Len(srtSock) \in Nat /\ DOMAIN srtSock = 1 .. Len(srtSock)
  BY StateFacts, LenProperties DEF ReportInv, IInv
<1>3. sockIt - 1 = Len(srtSock)
  BY <1>2
<1>4. Made = 0
  BY DEF Made
<1>5. Rows(srtSock[sockIt], Made) = <<>>
  BY <1>4 DEF Rows
<1>6. Families(SocketsAt(order)) \in Seq(Row)
  BY <1>2, OrderFacts DEF IInv
<1>7. Families(SocketsAt(order)) \o <<>> = Families(SocketsAt(order))
  BY <1>6, ConcatEmptySeq
<1> QED
  BY <1>1, <1>2, <1>3, <1>5, <1>7

\* If no registration overlaps a scrape, it reports the registered sockets in their
\* order, each with all its variables, and leaves out none that was open all the time,
\* whatever connects, disconnects or is closed meanwhile.
THEOREM EverySocketIsReported == "quiet" \in Contract => (Spec => []EverySocketReported)
<1> SUFFICES ASSUME "quiet" \in Contract PROVE Spec => []EverySocketReported
  OBVIOUS
<1>1. Init => ReportInv
  BY DEF Init, ReportInv
<1>2. IInv /\ ReportInv /\ [Next]_vars => ReportInv'
  BY ReportNext
<1> QED
  BY <1>1, <1>2, InvInit, InvNext, ReportIsComplete, PTL DEF Spec

-----------------------------------------------------------------------------
(* What an answer tells of one socket and variable                         *)

\* The families of some sockets are those of each with each entry, and none is
\* repeated unless a socket or a variable is.
LEMMA FamiliesOnce ==
    ASSUME TypeOK, NEW socks \in Seq(Sockets)
    PROVE  /\ ToSet(Families(socks)) =
                 {<<s, filteredData[k].name>> : s \in ToSet(socks), k \in Entries}
           /\ IsInjective(socks) /\ DistinctNames(filteredData) =>
                 IsInjective(Families(socks))
<1> DEFINE n == Len(filteredData)
           R == Seq(Row)
           each == [i \in DOMAIN socks |-> Rows(socks[i], n)]
           Of(s) == {<<s, filteredData[k].name>> : k \in Entries}
<1>1. n \in Nat /\ n \in 0 .. n /\ Entries = 1 .. n /\ DOMAIN filteredData = 1 .. n
  BY StateFacts DEF Entries
<1>2. /\ Len(socks) \in Nat /\ DOMAIN socks = 1 .. Len(socks)
      /\ \A i \in 1 .. Len(socks) : socks[i] \in Sockets
      /\ ToSet(socks) = {socks[i] : i \in 1 .. Len(socks)}
  BY LenProperties, ElementOfSeq, ToSetIs
<1>3. ASSUME NEW s \in Sockets
      PROVE  /\ Rows(s, n) \in R
             /\ DOMAIN Rows(s, n) = 1 .. n
             /\ \A k \in 1 .. n : Rows(s, n)[k] = <<s, filteredData[k].name>>
             /\ ToSet(Rows(s, n)) = Of(s)
  <2>1. /\ Rows(s, n) \in Seq(Row) /\ Len(Rows(s, n)) = n
        /\ \A k \in 1 .. n : Rows(s, n)[k] = <<s, filteredData[k].name>>
    BY <1>1, RowsFacts
  <2>2. DOMAIN Rows(s, n) = 1 .. n
    BY <2>1, LenProperties
  <2> HIDE DEF n
  <2>3. ToSet(Rows(s, n)) = Of(s)
    BY <1>1, <2>1, <2>2 DEF ToSet
  <2> QED
    BY <2>1, <2>2, <2>3
<1>4. Families(socks) = FlattenSeq(each)
  BY DEF Families
<1>5. each \in Seq(R) /\ Len(each) = Len(socks)
  <2>1. each \in [1 .. Len(socks) -> R]
    BY <1>2, <1>3
  <2> HIDE DEF each
  <2> QED
    BY <1>2, <2>1, FunctionIsSeq
<1>6. \A i \in 1 .. Len(socks) : each[i] = Rows(socks[i], n)
  BY <1>2
<1> HIDE DEF n, each
<1>7. \A i \in 1 .. Len(socks) : ToSet(each[i]) = Of(socks[i])
  BY <1>2, <1>3, <1>6
<1>8. ToSet(Families(socks)) = {<<s, filteredData[k].name>> : s \in ToSet(socks), k \in Entries}
  <2>1. each \in Seq(Seq(Row))
    BY <1>5
  <2>2. ToSet(FlattenSeq(each)) = UNION {ToSet(each[i]) : i \in 1 .. Len(each)}
    BY <2>1, FlattenElements
  <2>3. ASSUME NEW x
        PROVE  x \in ToSet(Families(socks)) <=> \E s \in ToSet(socks) : x \in Of(s)
    <3> HIDE DEF Of
    <3>1. x \in ToSet(Families(socks)) <=> \E i \in 1 .. Len(each) : x \in ToSet(each[i])
      BY <1>4, <2>2
    <3>2. x \in ToSet(Families(socks)) <=> \E i \in 1 .. Len(socks) : x \in Of(socks[i])
      BY <1>5, <1>7, <3>1
    <3> QED
      BY <1>2, <3>2
  <2> QED
    BY <2>3
<1>9. ASSUME IsInjective(socks), DistinctNames(filteredData)
      PROVE  IsInjective(Families(socks))
  <2>1. each \in Seq(Seq(Row))
    BY <1>5
  <2>2. \A i \in 1 .. Len(each) : IsInjective(each[i])
    <3> TAKE i \in 1 .. Len(each)
    <3>1. /\ DOMAIN each[i] = 1 .. n
          /\ \A k \in 1 .. n : each[i][k] = <<socks[i], filteredData[k].name>>
      BY <1>2, <1>3, <1>5, <1>6
    <3>2. \A k, l \in 1 .. n : filteredData[k].name = filteredData[l].name => k = l
      BY <1>1, <1>9 DEF DistinctNames
    <3> QED
      BY <3>1, <3>2 DEF IsInjective
  <2>3. Disjoint(each)
    <3>1. \A i, j \in 1 .. Len(socks) : i # j => socks[i] # socks[j]
      BY <1>2, <1>9 DEF IsInjective
    <3>2. \A i, j \in 1 .. Len(socks) : i # j => Of(socks[i]) \cap Of(socks[j]) = {}
      BY <3>1
    <3> HIDE DEF Of
    <3> QED
      BY <1>5, <1>7, <3>2 DEF Disjoint
  <2>4. IsInjective(FlattenSeq(each))
    BY <2>1, <2>2, <2>3, FlattenInjective
  <2> QED
    BY <1>4, <2>4
<1> QED
  BY <1>8, <1>9

\* The answer has one family for each variable and each socket that was open all
\* the time, and each family is of an entry of the filter.
LEMMA ReportedOnce ==
    ASSUME TypeOK, EverySocketReported, pc = "done"
    PROVE  /\ \A i \in DOMAIN translated : \E k \in Entries :
                 translated[i].name = filteredData[k].name
           /\ IsInjective(srtSock) /\ DistinctNames(filteredData) =>
                 \A s \in ToSet(srtSock), k \in Entries :
                    s \in open /\ before[s] # NULL =>
                       \E i \in DOMAIN translated : \A j \in DOMAIN translated :
                          (translated[j].sock = s /\ translated[j].name = filteredData[k].name)
                             <=> j = i
<1> DEFINE n == Len(srtSock)
<1>1. srtSock \in Seq(Sockets) /\ n \in Nat /\ DOMAIN srtSock = 1 .. n
      /\ \A i \in 1 .. n : srtSock[i] \in Sockets
  BY StateFacts, LenProperties
<1>2. PICK order \in BoundedSeq(1 .. n, n) :
        InOrder(order, n) /\ Reported = Families(SocketsAt(order))
  BY <1>1 DEF EverySocketReported, SocketsAt
<1>3. order \in Seq(1 .. n) /\ Len(order) \in 0 .. n
  BY <1>1, BoundedSeqFacts
<1>4. DOMAIN order = 1 .. Len(order) /\ \A i \in 1 .. Len(order) : order[i] \in 1 .. n
  BY <1>3, LenProperties, ElementOfSeq
<1> DEFINE socks == SocketsAt(order)
<1>5. socks \in Seq(Sockets) /\ DOMAIN socks = 1 .. Len(order)
      /\ \A i \in 1 .. Len(order) : socks[i] = srtSock[order[i]]
  <2>1. socks \in [1 .. Len(order) -> Sockets]
    BY <1>1, <1>4 DEF SocketsAt
  <2>2. Len(order) \in Nat
    BY <1>1, <1>3
  <2>3. socks \in Seq(Sockets)
    <3> HIDE DEF socks
    <3> QED
      BY <2>1, <2>2, FunctionIsSeq
  <2> QED
    BY <1>4, <2>1, <2>3 DEF SocketsAt
<1> HIDE DEF socks
<1>6. /\ DOMAIN Reported = DOMAIN translated
      /\ \A i \in DOMAIN translated :
            Reported[i] = <<translated[i].sock, translated[i].name>>
  BY DEF Reported
<1>7. ToSet(Reported) = {<<s, filteredData[k].name>> : s \in ToSet(socks), k \in Entries}
  BY <1>2, <1>5, FamiliesOnce DEF socks
<1>8. \A i \in DOMAIN translated : \E k \in Entries : translated[i].name = filteredData[k].name
  <2> TAKE i \in DOMAIN translated
  <2>1. Reported[i] \in ToSet(Reported)
    BY <1>6 DEF ToSet
  <2>2. PICK s \in ToSet(socks), k \in Entries : Reported[i] = <<s, filteredData[k].name>>
    BY <1>7, <2>1
  <2> QED
    BY <1>6, <2>2
<1>9. ASSUME IsInjective(srtSock), DistinctNames(filteredData),
             NEW s \in ToSet(srtSock), NEW k \in Entries, s \in open, before[s] # NULL
      PROVE  \E i \in DOMAIN translated : \A j \in DOMAIN translated :
                (translated[j].sock = s /\ translated[j].name = filteredData[k].name) <=> j = i
  <2>1. PICK m \in 1 .. n : srtSock[m] = s
    BY <1>1 DEF ToSet
  <2>2. m \in ToSet(order)
    BY <1>2, <1>9, <2>1 DEF InOrder
  <2>3. PICK l \in 1 .. Len(order) : order[l] = m
    BY <1>4, <2>2 DEF ToSet
  <2>4. s \in ToSet(socks)
    BY <1>5, <2>1, <2>3 DEF ToSet
  <2>5. \A i, j \in 1 .. Len(order) : i < j => order[i] < order[j]
    BY <1>2, <1>4 DEF InOrder
  <2>6. \A i, j \in 1 .. Len(order) : order[i] = order[j] => i = j
    BY <1>1, <1>3, <1>4, <2>5
  <2>7. \A i, j \in 1 .. n : srtSock[i] = srtSock[j] => i = j
    BY <1>1, <1>9 DEF IsInjective
  <2>8. IsInjective(socks)
    BY <1>4, <1>5, <2>6, <2>7 DEF IsInjective
  <2>9. IsInjective(Reported)
    BY <1>2, <1>5, <1>9, <2>8, FamiliesOnce DEF socks
  <2>10. <<s, filteredData[k].name>> \in ToSet(Reported)
    BY <1>7, <2>4
  <2>11. PICK i \in DOMAIN translated : Reported[i] = <<s, filteredData[k].name>>
    BY <1>6, <2>10 DEF ToSet
  <2>12. \A j \in DOMAIN translated : Reported[j] = Reported[i] => j = i
    BY <1>6, <2>9 DEF IsInjective
  <2>13. \A j \in DOMAIN translated :
            (translated[j].sock = s /\ translated[j].name = filteredData[k].name) <=> j = i
    BY <1>6, <2>11, <2>12
  <2> QED
    BY <2>13
<1> QED
  BY <1>8, <1>9

-----------------------------------------------------------------------------
(* The registry of labels                                                  *)

\* A list of labels gives each name one of the values, or none.
LEMMA MapOfType ==
    ASSUME NEW list \in Seq(LabelType)
    PROVE  MapOf(list) \in [LabelNames -> LabelValues \cup {NULL}]
<1>1. ASSUME NEW n \in LabelNames
      PROVE  FirstOf(list, n) # 0 => list[FirstOf(list, n)].value \in LabelValues
  <2> DEFINE i == FirstOf(list, n)
  <2>1. i \in 0 .. Len(list) /\ Len(list) \in Nat
    BY FirstNamed, LenProperties
  <2> HIDE DEF i
  <2>2. i # 0 => list[i] \in LabelType
    BY <2>1, ElementOfSeq
  <2>3. i # 0 => list[i].value \in LabelValues
    BY <2>2 DEF LabelType
  <2> QED
    BY <2>3 DEF i
<1> QED
  BY <1>1 DEF MapOf

\* Erasing an element of another name leaves the value of m.
LEMMA MapOfErased ==
    ASSUME NEW list \in Seq(LabelType), NEW i \in 1 .. Len(list), NEW m \in LabelNames,
           list[i].name # m
    PROVE  MapOf(RemoveAt(list, i))[m] = MapOf(list)[m]
<1> DEFINE r == RemoveAt(list, i)
           k == FirstOf(list, m)
           l == IF k > i THEN k - 1 ELSE k
<1>1. /\ r \in Seq(LabelType)
      /\ Len(r) = Len(list) - 1
      /\ \A j \in 1 .. Len(list) - 1 : r[j] = IF j < i THEN list[j] ELSE list[j + 1]
  BY RemoveAtFacts
<1>2. /\ k \in 0 .. Len(list)
      /\ k = 0 => \A j \in 1 .. Len(list) : list[j].name # m
      /\ k # 0 => list[k].name = m /\ \A j \in 1 .. k - 1 : list[j].name # m
  BY FirstNamed
<1>3. Len(list) \in Nat
  BY LenProperties
<1> HIDE DEF r, k
<1>4. k # i
  BY <1>2
<1>5. /\ l \in 0 .. Len(r) /\ (l = 0 <=> k = 0)
      /\ k # 0 => r[l] = list[k]
  BY <1>1, <1>2, <1>3, <1>4
<1>6. l = 0 => \A j \in 1 .. Len(r) : r[j].name # m
  BY <1>1, <1>2, <1>3, <1>5
<1>7. l # 0 => r[l].name = m /\ \A j \in 1 .. l - 1 : r[j].name # m
  <2> SUFFICES ASSUME l # 0, NEW j \in 1 .. l - 1 PROVE r[j].name # m
    BY <1>2, <1>5
  <2>1. j \in 1 .. k - 1 /\ (~ (j < i) => j + 1 \in 1 .. k - 1) /\ j \in 1 .. Len(list) - 1
    BY <1>1, <1>2, <1>3, <1>4, <1>5
  <2> QED
    BY <1>1, <1>2, <1>5, <2>1
<1>8. FirstOf(r, m) = l
  <2> HIDE DEF l
  <2> QED
    BY <1>1, <1>5, <1>6, <1>7, FirstNamedIs
<1>9. MapOf(r)[m] = IF l = 0 THEN NULL ELSE r[l].value
  BY <1>8 DEF MapOf
<1>10. MapOf(list)[m] = IF k = 0 THEN NULL ELSE list[k].value
  BY DEF MapOf, k
<1> QED
  BY <1>5, <1>9, <1>10 DEF r

\* Appending an element of another name leaves the value of m.
LEMMA MapOfAppended ==
    ASSUME NEW list \in Seq(LabelType), NEW e \in LabelType, NEW m \in LabelNames,
           e.name # m
    PROVE  MapOf(Append(list, e))[m] = MapOf(list)[m]
<1> DEFINE r == Append(list, e)
           k == FirstOf(list, m)
<1>1. /\ r \in Seq(LabelType)
      /\ Len(r) = Len(list) + 1
      /\ \A j \in 1 .. Len(list) : r[j] = list[j]
      /\ r[Len(list) + 1] = e
  BY AppendProperties
<1>2. /\ k \in 0 .. Len(list)
      /\ k = 0 => \A j \in 1 .. Len(list) : list[j].name # m
      /\ k # 0 => list[k].name = m /\ \A j \in 1 .. k - 1 : list[j].name # m
  BY FirstNamed
<1>3. Len(list) \in Nat
  BY LenProperties
<1> HIDE DEF r, k
<1>4. k \in 0 .. Len(r) /\ (k # 0 => r[k] = list[k])
  BY <1>1, <1>2, <1>3
<1>5. k = 0 => \A j \in 1 .. Len(r) : r[j].name # m
  BY <1>1, <1>2, <1>3
<1>6. k # 0 => r[k].name = m /\ \A j \in 1 .. k - 1 : r[j].name # m
  BY <1>1, <1>2, <1>3
<1>7. FirstOf(r, m) = k
  BY <1>1, <1>4, <1>5, <1>6, FirstNamedIs
<1>8. MapOf(r)[m] = IF k = 0 THEN NULL ELSE r[k].value
  BY <1>7 DEF MapOf
<1>9. MapOf(list)[m] = IF k = 0 THEN NULL ELSE list[k].value
  BY DEF MapOf, k
<1> QED
  BY <1>4, <1>8, <1>9 DEF r

\* Changing an element of another name leaves the value of m.
LEMMA MapOfChanged ==
    ASSUME NEW list \in Seq(LabelType), NEW i \in 1 .. Len(list), NEW e \in LabelType,
           NEW m \in LabelNames, list[i].name # m, e.name # m
    PROVE  MapOf([list EXCEPT ![i] = e])[m] = MapOf(list)[m]
<1> DEFINE r == [list EXCEPT ![i] = e]
           k == FirstOf(list, m)
<1>1. /\ r \in Seq(LabelType)
      /\ Len(r) = Len(list)
      /\ \A j \in 1 .. Len(list) : r[j] = IF j = i THEN e ELSE list[j]
  BY ExceptSeq
<1>2. /\ k \in 0 .. Len(list)
      /\ k = 0 => \A j \in 1 .. Len(list) : list[j].name # m
      /\ k # 0 => list[k].name = m /\ \A j \in 1 .. k - 1 : list[j].name # m
  BY FirstNamed
<1>3. Len(list) \in Nat
  BY LenProperties
<1> HIDE DEF r, k
<1>4. k \in 0 .. Len(r) /\ (k # 0 => r[k] = list[k])
  BY <1>1, <1>2, <1>3
<1>5. k = 0 => \A j \in 1 .. Len(r) : r[j].name # m
  BY <1>1, <1>2, <1>3
<1>6. k # 0 => r[k].name = m /\ \A j \in 1 .. k - 1 : r[j].name # m
  BY <1>1, <1>2, <1>3
<1>7. FirstOf(r, m) = k
  BY <1>1, <1>4, <1>5, <1>6, FirstNamedIs
<1>8. MapOf(r)[m] = IF k = 0 THEN NULL ELSE r[k].value
  BY <1>7 DEF MapOf
<1>9. MapOf(list)[m] = IF k = 0 THEN NULL ELSE list[k].value
  BY DEF MapOf, k
<1> QED
  BY <1>4, <1>8, <1>9 DEF r

\* A registration under the name n leaves the values of all other names.
LEMMA WithLabelOthers ==
    ASSUME NEW list \in Seq(LabelType), NEW n \in LabelNames,
           NEW v \in LabelValues \cup {NULL}, NEW m \in LabelNames, m # n
    PROVE  MapOf(WithLabel(list, n, v))[m] = MapOf(list)[m]
<1> DEFINE i == FirstOf(list, n)
           e == [name |-> n, value |-> v]
<1>1. \/ v = NULL /\ i = 0 /\ WithLabel(list, n, v) = list
      \/ v = NULL /\ i \in 1 .. Len(list) /\ WithLabel(list, n, v) = RemoveAt(list, i)
      \/ /\ v \in LabelValues
         /\ i = 0
         /\ WithLabel(list, n, v) = Append(list, e)
      \/ /\ v \in LabelValues
         /\ i \in 1 .. Len(list)
         /\ list[i].name = n
         /\ WithLabel(list, n, v) = [list EXCEPT ![i] = e]
  BY WithLabelCases
<1>2. i # 0 => list[i].name = n
  BY FirstNamed
<1>3. v \in LabelValues => e \in LabelType
  BY DEF LabelType
<1>4. e.name = n
  OBVIOUS
<1>5. Len(list) \in Nat
  BY LenProperties
<1> HIDE DEF i, e
<1>6. CASE i \in 1 .. Len(list) /\ WithLabel(list, n, v) = RemoveAt(list, i)
  <2>1. list[i].name # m
    BY <1>2, <1>5, <1>6
  <2> QED
    BY <1>6, <2>1, MapOfErased
<1>7. CASE v \in LabelValues /\ WithLabel(list, n, v) = Append(list, e)
  BY <1>3, <1>4, <1>7, MapOfAppended
<1>8. CASE /\ v \in LabelValues /\ i \in 1 .. Len(list) /\ list[i].name = n
           /\ WithLabel(list, n, v) = [list EXCEPT ![i] = e]
  <2>1. e \in LabelType /\ e.name # m /\ list[i].name # m
    BY <1>3, <1>4, <1>8
  <2>2. i \in 1 .. Len(list)
    BY <1>8
  <2>3. MapOf([list EXCEPT ![i] = e])[m] = MapOf(list)[m]
    BY <2>1, <2>2, MapOfChanged
  <2> QED
    BY <1>8, <2>3
<1> QED
  BY <1>1, <1>6, <1>7, <1>8

\* A registration changes the map of its list at one name.
LEMMA MapOfRegistered ==
    ASSUME NEW list \in Seq(LabelType), NEW n \in LabelNames,
           NEW v \in LabelValues \cup {NULL}
    PROVE  \E u \in LabelValues \cup {NULL} :
              MapOf(WithLabel(list, n, v)) = [MapOf(list) EXCEPT ![n] = u]
<1> DEFINE M == MapOf(list)
           N == MapOf(WithLabel(list, n, v))
<1>1. M \in [LabelNames -> LabelValues \cup {NULL}]
      /\ N \in [LabelNames -> LabelValues \cup {NULL}]
  BY MapOfType, WithLabelType
<1>2. \A m \in LabelNames : m # n => N[m] = M[m]
  BY WithLabelOthers
<1> HIDE DEF M, N
<1>3. N = [M EXCEPT ![n] = N[n]] /\ N[n] \in LabelValues \cup {NULL}
  BY <1>1, <1>2
<1> QED
  BY <1>3 DEF M, N

Common == MapOf(commonLabel)
ListOf(x) == IF EntryOf(x) = 0 THEN <<>> ELSE label[EntryOf(x)]
Private == [x \in VarNames |-> MapOf(ListOf(x))]

RegistryStep == [Registry!RegistryNext]_<<Common, Private>>

\* Register in the registry, over the values the lists give to the names.
LEMMA RegistryRegister ==
    ASSUME NEW n \in LabelNames, NEW v \in LabelValues \cup {NULL},
           \/ Common' = [Common EXCEPT ![n] = v] /\ UNCHANGED Private
           \/ \E x \in VarNames :
                 Private' = [Private EXCEPT ![x][n] = v] /\ UNCHANGED Common
    PROVE  RegistryStep
BY DEF RegistryStep, Common, Private, ListOf, Registry!RegistryNext, Registry!Register

\* The search of an entry, and its list.
LEMMA EntryFacts ==
    ASSUME TypeOK, NEW x
    PROVE  /\ EntryOf(x) # 0 => EntryOf(x) \in Entries /\ filteredData[EntryOf(x)].name = x
           /\ x \notin VarNames => EntryOf(x) = 0
           /\ ListOf(x) \in Seq(LabelType)
<1>1. filteredData \in Seq(EntryType) /\ Len(filteredData) \in Nat
      /\ Entries = 1 .. Len(filteredData)
  BY StateFacts DEF TypeOK
<1>2. EntryOf(x) \in 0 .. Len(filteredData)
      /\ (EntryOf(x) # 0 => filteredData[EntryOf(x)].name = x)
  BY <1>1, FirstNamed DEF EntryOf
<1>3. EntryOf(x) # 0 => EntryOf(x) \in Entries /\ filteredData[EntryOf(x)].name \in VarNames
  BY <1>1, <1>2, StateFacts DEF EntryType
<1>4. ListOf(x) \in Seq(LabelType)
  BY <1>3, StateFacts, EmptySeq DEF ListOf
<1> QED
  BY <1>2, <1>3, <1>4

\* LabelRegister changes one name of one map, or nothing.
LEMMA LabelImplements ==
    ASSUME IInv, NEW n \in LabelNames \cup {NULL}, NEW v \in LabelValues \cup {NULL},
           NEW var \in VarNames \cup {NULL}, LabelRegister(n, v, var)
    PROVE  RegistryStep
<1>1. TypeOK /\ commonLabel \in Seq(LabelType) /\ UNCHANGED filteredData
      /\ label \in [Entries -> Seq(LabelType)]
  BY DEF IInv, TypeOK, LabelRegister
<1>2. \A x : EntryOf(x)' = EntryOf(x)
  BY <1>1 DEF EntryOf
<1>3. CASE LabelRefused(n, var)
  <2>1. UNCHANGED <<commonLabel, label>>
    BY <1>3 DEF LabelRegister, labels
  <2> QED
    BY <1>2, <2>1 DEF RegistryStep, Common, Private, ListOf, MapOf
<1>4. CASE ~ LabelRefused(n, var) /\ var = NULL
  <2>1. n \in LabelNames /\ EntryOf(var) = 0
    BY <1>1, <1>4, EntryFacts, CollectorAssumption DEF LabelRefused
  <2>2. commonLabel' = WithLabel(commonLabel, n, v)
        /\ label' = [i \in Entries |->
              IF i = EntryOf(var) THEN WithLabel(label[i], n, v) ELSE label[i]]
    BY <1>4 DEF LabelRegister
  <2>3. label' = label
    BY <1>1, <2>1, <2>2, StateFacts
  <2>4. PICK u \in LabelValues \cup {NULL} :
           MapOf(WithLabel(commonLabel, n, v)) = [MapOf(commonLabel) EXCEPT ![n] = u]
    BY <1>1, <2>1, MapOfRegistered
  <2>5. Common' = [Common EXCEPT ![n] = u]
    BY <2>2, <2>4 DEF Common, MapOf
  <2>6. UNCHANGED Private
    BY <1>2, <2>3 DEF Private, ListOf, MapOf
  <2> QED
    BY <2>1, <2>5, <2>6, RegistryRegister
<1>5. CASE ~ LabelRefused(n, var) /\ var # NULL
  <2> DEFINE e == EntryOf(var)
  <2>1. n \in LabelNames /\ var \in VarNames /\ e # 0
    BY <1>5 DEF LabelRefused
  <2>2. e \in Entries /\ filteredData[e].name = var
    BY <1>1, <2>1, EntryFacts
  <2>3. commonLabel' = commonLabel
        /\ label' = [i \in Entries |-> IF i = e THEN WithLabel(label[i], n, v) ELSE label[i]]
    BY <1>5 DEF LabelRegister
  <2>4. PICK u \in LabelValues \cup {NULL} :
           MapOf(WithLabel(label[e], n, v)) = [MapOf(label[e]) EXCEPT ![n] = u]
    BY <1>1, <2>1, <2>2, MapOfRegistered
  <2>5. \A x \in VarNames :
           ListOf(x)' = IF x = var THEN WithLabel(label[e], n, v) ELSE ListOf(x)
    <3> TAKE x \in VarNames
    <3>1. EntryOf(x) # 0 => EntryOf(x) \in Entries /\ filteredData[EntryOf(x)].name = x
      BY <1>1, EntryFacts
    <3>2. ListOf(x)' = IF EntryOf(x) = 0 THEN <<>> ELSE label'[EntryOf(x)]
      BY <1>2 DEF ListOf
    <3> QED
      BY <2>1, <2>2, <2>3, <3>1, <3>2 DEF ListOf
  <2>6. \A x \in VarNames :
           MapOf(ListOf(x))' = IF x = var THEN [MapOf(ListOf(x)) EXCEPT ![n] = u]
                               ELSE MapOf(ListOf(x))
    <3> TAKE x \in VarNames
    <3>1. MapOf(ListOf(x))' = MapOf(ListOf(x)')
      BY DEF MapOf
    <3>2. ListOf(var) = label[e]
      BY <2>1 DEF ListOf
    <3> QED
      BY <2>4, <2>5, <3>1, <3>2
  <2>7. Private' = [Private EXCEPT ![var][n] = u]
    BY <2>1, <2>6 DEF Private
  <2>8. UNCHANGED Common
    BY <2>3 DEF Common, MapOf
  <2> QED
    BY <2>1, <2>7, <2>8, RegistryRegister
<1> QED
  BY <1>3, <1>4, <1>5

\* The labels of all variables and those of each variable are maps that a
\* registration changes at one name, and that neither a scrape nor anything else
\* changes; in particular a registration for a variable that is not exported, or
\* without a name, changes none.
THEOREM RefinesLabels == Spec => ImplementsLabels
<1>1. Init => Registry!RegistryInit
  <2> SUFFICES ASSUME Init PROVE Registry!RegistryInit
    OBVIOUS
  <2>1. TypeOK /\ commonLabel \in Seq(LabelType)
    BY InvInit DEF IInv, TypeOK
  <2>2. Common \in [LabelNames -> LabelValues \cup {NULL}]
        /\ \A x \in VarNames : MapOf(ListOf(x)) \in [LabelNames -> LabelValues \cup {NULL}]
    BY <2>1, MapOfType, EntryFacts DEF Common
  <2> QED
    BY <2>2 DEF Common, ListOf, Registry!RegistryInit, Registry!LabelMap
<1>2. IInv /\ [Next]_vars => [Registry!RegistryNext]_(Registry!registryVars)
  <2> SUFFICES ASSUME IInv, [Next]_vars PROVE RegistryStep
    BY DEF RegistryStep, Common, Private, ListOf, Registry!registryVars
  <2>1. CASE \E n \in LabelNames \cup {NULL}, v \in LabelValues \cup {NULL},
                var \in VarNames \cup {NULL} : LabelRegister(n, v, var)
    BY <2>1, LabelImplements
  <2>2. CASE UNCHANGED <<commonLabel, label, filteredData>>
    BY <2>2 DEF RegistryStep, Common, Private, ListOf, EntryOf, MapOf
  <2> QED
    BY <2>1, <2>2
       DEF Next, CollectStep, Libsrt, vars, labels, SrtSockRegister, CollectStarts,
           CollectSocket, SkipSocket, SocketDone, NextSocket, CollectNothing, Reply,
           CountLabels, FillPrivate, FillCommon, StatGrows, SocketConnects, SocketCloses
<1> QED
  BY <1>1, <1>2, InvInit, InvNext, PTL DEF Spec, ImplementsLabels, Registry!RegistrySpec
=============================================================================
