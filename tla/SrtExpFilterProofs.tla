--------------------------- MODULE SrtExpFilterProofs ---------------------------
(***************************************************************************)
(* The searches by name that the loader and the collector share, and what  *)
(* the selection of the variables returns, for a list of any length.       *)
(***************************************************************************)
EXTENDS SrtExpFilter, VectorFacts

\* The search for a name returns the first element that has it, or 0.
LEMMA FirstNamed ==
    ASSUME NEW S, NEW list \in Seq(S), NEW n
    PROVE  LET i == FirstOf(list, n)
           IN  /\ i \in 0 .. Len(list)
               /\ i = 0 => \A j \in 1 .. Len(list) : list[j].name # n
               /\ i # 0 => list[i].name = n /\ \A j \in 1 .. i - 1 : list[j].name # n
<1> DEFINE I == {j \in 1 .. Len(list) : list[j].name = n}
           i == FirstOf(list, n)
<1>1. i = IF I # {} THEN Min(I) ELSE 0
  BY DEF FirstOf, SelectInSeq
<1>2. Len(list) \in Nat /\ I \in SUBSET Nat
  BY LenProperties
<1>3. I # {} => Min(I) \in I /\ \A y \in I : Min(I) =< y
  BY <1>2, MinOfNaturals
<1> HIDE DEF i
<1>4. CASE I = {}
  BY <1>1, <1>2, <1>4 DEF i
<1>5. CASE I # {}
  <2>1. i \in I /\ \A y \in I : i =< y
    BY <1>1, <1>3, <1>5
  <2>2. i \in 1 .. Len(list) /\ list[i].name = n
    BY <2>1
  <2>3. \A j \in 1 .. i - 1 : list[j].name # n
    <3> SUFFICES ASSUME NEW j \in 1 .. i - 1, list[j].name = n
                 PROVE  FALSE
      OBVIOUS
    <3>1. j \in I /\ j < i
      BY <1>2, <2>2
    <3> QED
      BY <1>2, <2>1, <2>2, <3>1
  <2> QED
    BY <1>2, <2>2, <2>3 DEF i
<1> QED
  BY <1>4, <1>5

\* That position is the only one with these two properties.
LEMMA FirstNamedIs ==
    ASSUME NEW S, NEW list \in Seq(S), NEW n, NEW k \in 0 .. Len(list),
           k = 0 => \A j \in 1 .. Len(list) : list[j].name # n,
           k # 0 => list[k].name = n /\ \A j \in 1 .. k - 1 : list[j].name # n
    PROVE  FirstOf(list, n) = k
<1> DEFINE i == FirstOf(list, n)
<1>1. /\ i \in 0 .. Len(list)
      /\ i = 0 => \A j \in 1 .. Len(list) : list[j].name # n
      /\ i # 0 => list[i].name = n /\ \A j \in 1 .. i - 1 : list[j].name # n
  BY FirstNamed
<1>2. Len(list) \in Nat
  BY LenProperties
<1> HIDE DEF i
<1>3. i = k
  BY <1>1, <1>2
<1> QED
  BY <1>3 DEF i

TableEntries == ToSet(DataMap)

\* The table: no name twice.
LEMMA TableFacts ==
    /\ DataMap \in Seq(TableEntries) /\ Len(DataMap) = 5
    /\ \A i, j \in 1 .. Len(DataMap) : DataMap[i].name = DataMap[j].name => i = j
    /\ TableEntries = {DataMap[i] : i \in 1 .. Len(DataMap)}
    /\ VarNames = {d.name : d \in TableEntries}
<1>1. Len(DataMap) = 5 /\ DOMAIN DataMap = 1 .. 5
  BY DEF DataMap
<1>2. \A i, j \in 1 .. 5 : DataMap[i].name = DataMap[j].name => i = j
  <2>1. /\ DataMap[1].name = "msTimeStamp" /\ DataMap[2].name = "pktSentTotal"
        /\ DataMap[3].name = "pktRecvTotal" /\ DataMap[4].name = "pktRecvNAKTotal"
        /\ DataMap[5].name = "msRTT"
    BY DEF DataMap
  <2>2. \A i \in 1 .. 5 : i = 1 \/ i = 2 \/ i = 3 \/ i = 4 \/ i = 5
    OBVIOUS
  <2> QED
    BY <2>1, <2>2
<1>3. TableEntries = {DataMap[i] : i \in 1 .. 5}
  BY <1>1 DEF TableEntries, ToSet
<1>4. DataMap = [i \in 1 .. 5 |-> DataMap[i]]
  BY DEF DataMap
<1>5. DataMap \in Seq(TableEntries)
  <2> DEFINE D(i) == DataMap[i]
  <2>1. 5 \in Nat /\ \A i \in 1 .. 5 : D(i) \in TableEntries
    BY <1>3
  <2>2. DataMap = [i \in 1 .. 5 |-> D(i)]
    BY <1>4
  <2> HIDE DEF D
  <2> QED
    BY <2>1, <2>2
<1>6. VarNames = {d.name : d \in TableEntries}
  BY <1>1, <1>3 DEF VarNames
<1> QED
  BY <1>1, <1>2, <1>3, <1>5, <1>6

\* The variables of the list that let an entry pass.
Lets(cfg, d) == {j \in DOMAIN cfg.varList : Passes(cfg, d, cfg.varList[j])}

\* One entry: pushed when a variable lets it pass, and twice only when two do.
LEMMA PushesFacts ==
    ASSUME NEW S, NEW cfg, cfg.varList \in Seq(S), NEW d
    PROVE  /\ Pushes(cfg, d) \in Seq({d})
           /\ ToSet(Pushes(cfg, d)) = IF Lets(cfg, d) # {} THEN {d} ELSE {}
           /\ (\A i, j \in Lets(cfg, d) : i = j) => IsInjective(Pushes(cfg, d))
<1> DEFINE n == Len(cfg.varList)
           P(j) == IF Passes(cfg, d, cfg.varList[j]) THEN <<d>> ELSE <<>>
           seqs == [j \in 1 .. n |-> P(j)]
<1>1. n \in Nat /\ DOMAIN cfg.varList = 1 .. n
  BY LenProperties
<1>2. Pushes(cfg, d) = FlattenSeq(seqs)
  BY <1>1 DEF Pushes
<1>3. <<d>> \in Seq({d}) /\ <<>> \in Seq({d})
  OBVIOUS
<1>4. \A j \in 1 .. n : P(j) \in Seq({d})
  BY <1>3
<1>5. /\ ToSet(<<d>>) = {d} /\ ToSet(<<>>) = {}
      /\ IsInjective(<<d>>) /\ IsInjective(<<>>)
  BY DEF ToSet, IsInjective
<1>6. \A j \in 1 .. n : /\ IsInjective(P(j))
                        /\ ToSet(P(j)) = IF j \in Lets(cfg, d) THEN {d} ELSE {}
  BY <1>1, <1>5 DEF Lets
<1>7. \A j \in Lets(cfg, d) : j \in 1 .. n
  BY <1>1 DEF Lets
<1> HIDE DEF n, P
<1>8. seqs \in Seq(Seq({d})) /\ Len(seqs) = n /\ \A j \in 1 .. n : seqs[j] = P(j)
  BY <1>1, <1>4
<1> HIDE DEF seqs
<1>9. /\ FlattenSeq(seqs) \in Seq({d})
      /\ ToSet(FlattenSeq(seqs)) = UNION {ToSet(seqs[j]) : j \in 1 .. n}
  BY <1>8, FlattenElements
<1>10. UNION {ToSet(seqs[j]) : j \in 1 .. n} = IF Lets(cfg, d) # {} THEN {d} ELSE {}
  <2>1. \A j \in 1 .. n : ToSet(seqs[j]) = IF j \in Lets(cfg, d) THEN {d} ELSE {}
    BY <1>6, <1>8
  <2>2. CASE Lets(cfg, d) = {}
    BY <2>1, <2>2
  <2>3. CASE Lets(cfg, d) # {}
    <3>1. PICK j \in 1 .. n : ToSet(seqs[j]) = {d}
      BY <1>7, <2>1, <2>3
    <3>2. \A i \in 1 .. n : ToSet(seqs[i]) \subseteq {d}
      BY <2>1
    <3> QED
      BY <2>3, <3>1, <3>2
  <2> QED
    BY <2>2, <2>3
<1>11. ASSUME \A i, j \in Lets(cfg, d) : i = j
       PROVE  IsInjective(FlattenSeq(seqs))
  <2>1. \A j \in 1 .. Len(seqs) : IsInjective(seqs[j])
    BY <1>6, <1>8
  <2>2. Disjoint(seqs)
    BY <1>6, <1>8, <1>11 DEF Disjoint
  <2> QED
    BY <1>8, <2>1, <2>2, FlattenInjective
<1> QED
  BY <1>2, <1>9, <1>10, <1>11

\* The whole selection: the entries that a variable lets pass, and each of them
\* once when no two variables let the same one pass.
LEMMA FilterSelects ==
    ASSUME NEW S, NEW cfg, cfg.varList \in Seq(S)
    PROVE  LET filtered == LoadFilterFromConfig(cfg)
           IN  /\ filtered \in Seq(TableEntries)
               /\ ToSet(filtered) = {d \in TableEntries : Lets(cfg, d) # {}}
               /\ (\A d \in TableEntries : \A i, j \in Lets(cfg, d) : i = j)
                     => IsInjective(filtered)
<1> DEFINE n == Len(DataMap)
           P(i) == Pushes(cfg, DataMap[i])
           seqs == [i \in 1 .. n |-> P(i)]
<1>1. n \in Nat /\ DOMAIN DataMap = 1 .. n /\ TableEntries = {DataMap[i] : i \in 1 .. n}
  BY TableFacts, LenProperties
<1>2. LoadFilterFromConfig(cfg) = FlattenSeq(seqs)
  BY <1>1 DEF LoadFilterFromConfig
<1>3. \A i \in 1 .. n :
         /\ P(i) \in Seq({DataMap[i]})
         /\ ToSet(P(i)) = IF Lets(cfg, DataMap[i]) # {} THEN {DataMap[i]} ELSE {}
         /\ (\A k, j \in Lets(cfg, DataMap[i]) : k = j) => IsInjective(P(i))
  BY PushesFacts
<1>4. \A i \in 1 .. n : P(i) \in Seq(TableEntries)
  <2> TAKE i \in 1 .. n
  <2>1. P(i) \in Seq({DataMap[i]}) /\ DataMap[i] \in TableEntries
    BY <1>1, <1>3
  <2> HIDE DEF P
  <2>2. Len(P(i)) \in Nat /\ P(i) = [k \in 1 .. Len(P(i)) |-> P(i)[k]]
        /\ \A k \in 1 .. Len(P(i)) : P(i)[k] \in {DataMap[i]}
    BY <2>1, LenProperties, ElementOfSeq
  <2>3. \A k \in 1 .. Len(P(i)) : P(i)[k] \in TableEntries
    BY <2>1, <2>2
  <2> QED
    BY <2>2, <2>3
<1> HIDE DEF n, P
<1>5. seqs \in Seq(Seq(TableEntries)) /\ Len(seqs) = n /\ \A i \in 1 .. n : seqs[i] = P(i)
  <2>1. n \in Nat
    BY <1>1
  <2>2. \A i \in 1 .. n : seqs[i] = P(i)
    OBVIOUS
  <2>3. seqs \in [1 .. n -> Seq(TableEntries)]
    BY <1>4
  <2>4. DOMAIN seqs = 1 .. n
    OBVIOUS
  <2> HIDE DEF seqs
  <2>5. seqs \in Seq(Seq(TableEntries))
    BY <2>1, <2>3
  <2> QED
    BY <2>1, <2>2, <2>4, <2>5, LenProperties
<1> HIDE DEF seqs
<1>6. /\ FlattenSeq(seqs) \in Seq(TableEntries)
      /\ ToSet(FlattenSeq(seqs)) = UNION {ToSet(seqs[i]) : i \in 1 .. n}
  BY <1>5, FlattenElements
<1>7. UNION {ToSet(seqs[i]) : i \in 1 .. n} = {d \in TableEntries : Lets(cfg, d) # {}}
  <2>1. \A i \in 1 .. n :
           ToSet(seqs[i]) = IF Lets(cfg, DataMap[i]) # {} THEN {DataMap[i]} ELSE {}
    BY <1>3, <1>5
  <2>2. ASSUME NEW x
        PROVE  x \in UNION {ToSet(seqs[i]) : i \in 1 .. n}
                  <=> \E i \in 1 .. n : Lets(cfg, DataMap[i]) # {} /\ x = DataMap[i]
    BY <2>1
  <2>3. ASSUME NEW x
        PROVE  x \in {d \in TableEntries : Lets(cfg, d) # {}}
                  <=> \E i \in 1 .. n : Lets(cfg, DataMap[i]) # {} /\ x = DataMap[i]
    BY <1>1
  <2> QED
    BY <2>2, <2>3
<1>8. ASSUME \A d \in TableEntries : \A i, j \in Lets(cfg, d) : i = j
      PROVE  IsInjective(FlattenSeq(seqs))
  <2>1. \A i \in 1 .. Len(seqs) : IsInjective(seqs[i])
    <3> SUFFICES ASSUME NEW i \in 1 .. n
                 PROVE  IsInjective(P(i))
      BY <1>5
    <3>1. DataMap[i] \in TableEntries
      BY <1>1
    <3> QED
      BY <1>3, <1>8, <3>1
  <2>2. Disjoint(seqs)
    <3>1. \A i, j \in 1 .. n : i # j => DataMap[i] # DataMap[j]
      BY TableFacts DEF n
    <3>2. \A i \in 1 .. n : ToSet(seqs[i]) \subseteq {DataMap[i]}
      BY <1>3, <1>5
    <3>3. \A i, j \in 1 .. n : i # j => ToSet(seqs[i]) \cap ToSet(seqs[j]) = {}
      BY <3>1, <3>2
    <3> QED
      BY <1>5, <3>3 DEF Disjoint
  <2> QED
    BY <1>5, <2>1, <2>2, FlattenInjective
<1> QED
  BY <1>2, <1>6, <1>7, <1>8

\* A whitelist exports the variables that it names and the table has, in any
\* order they are given, and each of them once unless it names one twice.
THEOREM WhitelistExports ==
    ASSUME NEW S, NEW cfg, cfg.varList \in Seq(S), cfg.filterMode = "WHITELIST"
    PROVE  LET filtered == LoadFilterFromConfig(cfg)
           IN  /\ {filtered[i].name : i \in DOMAIN filtered}
                      = ToSet(cfg.varList) \cap VarNames
               /\ IsInjective(cfg.varList) => IsInjective(filtered)
<1> DEFINE filtered == LoadFilterFromConfig(cfg)
<1>1. /\ filtered \in Seq(TableEntries)
      /\ ToSet(filtered) = {d \in TableEntries : Lets(cfg, d) # {}}
      /\ (\A d \in TableEntries : \A i, j \in Lets(cfg, d) : i = j) => IsInjective(filtered)
  BY FilterSelects
<1>2. \A d : Lets(cfg, d) = {j \in DOMAIN cfg.varList : d.name = cfg.varList[j]}
  BY DEF Lets, Passes
<1> HIDE DEF filtered
<1>3. {filtered[i].name : i \in DOMAIN filtered} = {d.name : d \in ToSet(filtered)}
  BY DEF ToSet
<1>4. {d.name : d \in ToSet(filtered)} = ToSet(cfg.varList) \cap VarNames
  <2>1. ToSet(cfg.varList) = {cfg.varList[j] : j \in DOMAIN cfg.varList}
    BY DEF ToSet
  <2>2. ToSet(filtered) = {d \in TableEntries : d.name \in ToSet(cfg.varList)}
    BY <1>1, <1>2, <2>1
  <2>3. VarNames = {d.name : d \in TableEntries}
    BY TableFacts
  <2>4. ASSUME NEW x
        PROVE  x \in {d.name : d \in ToSet(filtered)}
                  <=> x \in ToSet(cfg.varList) \cap VarNames
    BY <2>2, <2>3
  <2> QED
    BY <2>4
<1>5. IsInjective(cfg.varList) => IsInjective(filtered)
  BY <1>1, <1>2 DEF IsInjective
<1> QED
  BY <1>3, <1>4, <1>5 DEF filtered

\* A blacklist of one variable exports the others, each of them once.
THEOREM BlacklistOfOneExports ==
    ASSUME NEW v, NEW cfg, cfg.varList = <<v>>, cfg.filterMode # "WHITELIST"
    PROVE  LET filtered == LoadFilterFromConfig(cfg)
           IN  /\ {filtered[i].name : i \in DOMAIN filtered} = VarNames \ {v}
               /\ IsInjective(filtered)
<1> DEFINE filtered == LoadFilterFromConfig(cfg)
<1>1. cfg.varList \in Seq({v}) /\ DOMAIN cfg.varList = {1} /\ cfg.varList[1] = v
  OBVIOUS
<1>2. /\ filtered \in Seq(TableEntries)
      /\ ToSet(filtered) = {d \in TableEntries : Lets(cfg, d) # {}}
      /\ (\A d \in TableEntries : \A i, j \in Lets(cfg, d) : i = j) => IsInjective(filtered)
  BY <1>1, FilterSelects
<1>3. \A d : Lets(cfg, d) = {j \in {1} : d.name # v}
  BY <1>1 DEF Lets, Passes
<1> HIDE DEF filtered
<1>4. {filtered[i].name : i \in DOMAIN filtered} = {d.name : d \in ToSet(filtered)}
  BY DEF ToSet
<1>5. {d.name : d \in ToSet(filtered)} = VarNames \ {v}
  <2>1. ToSet(filtered) = {d \in TableEntries : d.name # v}
    BY <1>2, <1>3
  <2>2. VarNames = {d.name : d \in TableEntries}
    BY TableFacts
  <2>3. ASSUME NEW x
        PROVE  x \in {d.name : d \in ToSet(filtered)} <=> x \in VarNames \ {v}
    BY <2>1, <2>2
  <2> QED
    BY <2>3
<1> QED
  BY <1>2, <1>3, <1>4, <1>5 DEF filtered

\* A blacklist of two variables or more exports them all the same, and an empty
\* one exports nothing: what the documentation says of a blacklist is so only for
\* a blacklist of one.
THEOREM OtherBlacklists ==
    ASSUME NEW S, NEW cfg, cfg.varList \in Seq(S), cfg.filterMode # "WHITELIST"
    PROVE  LET names == {LoadFilterFromConfig(cfg)[i].name :
                            i \in DOMAIN LoadFilterFromConfig(cfg)}
           IN  /\ cfg.varList = <<>> => names = {}
               /\ (\E i, j \in DOMAIN cfg.varList : cfg.varList[i] # cfg.varList[j])
                     => names = VarNames
<1> DEFINE filtered == LoadFilterFromConfig(cfg)
           names == {filtered[i].name : i \in DOMAIN filtered}
<1>1. ToSet(filtered) = {d \in TableEntries : Lets(cfg, d) # {}}
  BY FilterSelects
<1>2. \A d : Lets(cfg, d) = {j \in DOMAIN cfg.varList : d.name # cfg.varList[j]}
  BY DEF Lets, Passes
<1> HIDE DEF filtered
<1>3. names = {d.name : d \in ToSet(filtered)}
  BY DEF ToSet
<1>4. CASE cfg.varList = <<>>
  <2>1. DOMAIN cfg.varList = {}
    BY <1>4
  <2>2. \A d : Lets(cfg, d) = {}
    BY <1>2, <2>1
  <2>3. ToSet(filtered) = {}
    BY <1>1, <2>2
  <2> QED
    BY <1>3, <1>4, <2>1, <2>3 DEF filtered
<1>5. ASSUME NEW i \in DOMAIN cfg.varList, NEW j \in DOMAIN cfg.varList,
             cfg.varList[i] # cfg.varList[j]
      PROVE  names = VarNames
  <2>1. \A d : Lets(cfg, d) # {}
    BY <1>2, <1>5
  <2>2. ToSet(filtered) = TableEntries
    BY <1>1, <2>1
  <2> QED
    BY <1>3, <2>2, TableFacts
<1>6. cfg.varList = <<>> => DOMAIN cfg.varList = {}
  OBVIOUS
<1> QED
  BY <1>4, <1>5, <1>6 DEF filtered
=============================================================================
