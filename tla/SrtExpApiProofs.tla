--------------------------- MODULE SrtExpApiProofs ---------------------------
(***************************************************************************)
(* Theorems of SrtExpApi, for any number of threads, workers, exporters,   *)
(* configurations and for every Contract.                                  *)
(***************************************************************************)
EXTENDS SrtExpApi, VectorFacts

USE DEF StartingPcs, DeinitPcs

\* FindSrtExporter(name): nullptr when no element has the name, else the id of
\* an element that has it.
LEMMA FindByNameFacts ==
    ASSUME srtExp \in Seq(Ids), NEW n
    PROVE  /\ FindByName(n) \in 0 .. MaxStarts
           /\ FindByName(n) # 0 => FindByName(n) \in Listed
           /\ FindByName(n) = 0 /\ n # NULL => \A e \in Listed : nameOf[e] # n
<1> DEFINE I == {j \in 1 .. Len(srtExp) : nameOf[srtExp[j]] = n}
           i == SelectInSeq(srtExp, LAMBDA e : nameOf[e] = n)
<1>1. i = IF I # {} THEN Min(I) ELSE 0
  BY DEF SelectInSeq
<1>2. I # {} => Min(I) \in I
  <2>1. I \in SUBSET (1 .. Len(srtExp))
    OBVIOUS
  <2> QED
    BY <2>1, FirstMatch
<1>3. FindByName(n) = IF n = NULL \/ i = 0 THEN 0 ELSE srtExp[i]
  BY DEF FindByName
<1>4. DOMAIN srtExp = 1 .. Len(srtExp) /\ \A j \in 1 .. Len(srtExp) : srtExp[j] \in Ids
  BY LenProperties, ElementOfSeq
<1> HIDE DEF i
<1>5. CASE I = {}
  <2>1. FindByName(n) = 0
    BY <1>1, <1>3, <1>5
  <2>2. \A j \in 1 .. Len(srtExp) : nameOf[srtExp[j]] # n
    BY <1>5
  <2> QED
    BY <1>4, <2>1, <2>2, ApiAssumption DEF Listed, ToSet
<1>6. CASE I # {}
  <2>1. i \in 1 .. Len(srtExp) /\ nameOf[srtExp[i]] = n
    BY <1>1, <1>2, <1>6
  <2> QED
    BY <1>3, <1>4, <2>1, ApiAssumption DEF Listed, ToSet, Ids
<1> QED
  BY <1>5, <1>6

\* Erase(e) removes e and nothing else, and keeps the order of the ids.
LEMMA EraseFacts ==
    ASSUME srtExp \in Seq(Ids), VectorInv, NEW e \in Listed
    PROVE  /\ Erase(e) \in Seq(Ids)
           /\ Increasing(Erase(e))
           /\ ToSet(Erase(e)) = Listed \ {e}
<1> DEFINE I == {j \in 1 .. Len(srtExp) : srtExp[j] = e}
           i == SelectInSeq(srtExp, LAMBDA x : x = e)
<1>1. i = IF I # {} THEN Min(I) ELSE 0
  BY DEF SelectInSeq
<1>2. I # {}
  BY LenProperties DEF Listed, ToSet
<1>3. Min(I) \in I
  <2>1. I \in SUBSET (1 .. Len(srtExp))
    OBVIOUS
  <2> QED
    BY <1>2, <2>1, FirstMatch
<1>4. Erase(e) = RemoveAt(srtExp, i)
  BY DEF Erase
<1> HIDE DEF i
<1>5. i \in 1 .. Len(srtExp) /\ srtExp[i] = e
  BY <1>1, <1>2, <1>3
<1>6. Ids \in SUBSET Int /\ Increasing(srtExp)
  BY ApiAssumption DEF Ids, VectorInv, Increasing
<1> QED
  BY <1>4, <1>5, <1>6, RemoveAtFacts, RemoveAtIncreasing DEF Listed

\* The address a new exporter begins with is an address.
LEMMA AddressType ==
    ASSUME NEW cfg \in ConfigType, NEW name
    PROVE  [ip |-> GetServerIp(cfg, name), port |-> FirstPort(cfg, name)] \in Address
<1> DEFINE I == {j \in 1 .. Len(cfg.objects) : cfg.objects[j].name = name}
           i == FindSrtExpObjConfig(cfg, name)
<1>1. i = IF I # {} THEN Min(I) ELSE 0
  BY DEF FindSrtExpObjConfig, SelectInSeq
<1>2. I # {} => Min(I) \in I
  <2>1. I \in SUBSET (1 .. Len(cfg.objects)) /\ cfg.objects \in Seq(ObjConfig)
    BY DEF ConfigType
  <2> QED
    BY <2>1, FirstMatch
<1>3. i # 0 => i \in 1 .. Len(cfg.objects)
  BY <1>1, <1>2
<1>4. cfg.ip \in IpValues /\ cfg.portMin \in Nat /\ cfg.objects \in Seq(ObjConfig)
  BY DEF ConfigType
<1>5. i # 0 => cfg.objects[i] \in ObjConfig
  BY <1>3, <1>4, ElementOfSeq
<1> HIDE DEF i
<1>6. GetServerIp(cfg, name) \in IpValues
  BY <1>4, <1>5 DEF GetServerIp, ObjConfig, i
<1>7. FirstPort(cfg, name) \in Int
  BY <1>4, <1>5 DEF FirstPort, HasOwnPort, ObjConfig, i
<1> QED
  BY <1>6, <1>7 DEF Address

\* What the invariant gives every step: the vector in the form the facts on
\* vectors need, and mutual exclusion.
LEMMA StateFacts ==
    ASSUME IInv
    PROVE  /\ srtExp \in Seq(Ids)
           /\ Ids \in SUBSET Int
           /\ Increasing(srtExp)
           /\ Listed \in SUBSET Ids
           /\ \A e \in Listed : e <= count
           /\ apiLock = NULL => \A t \in Threads : pc[t] \notin LockedPcs
           /\ \A t, u \in Threads :
                 pc[t] \in LockedPcs /\ pc[u] \in LockedPcs => t = u
<1>1. srtExp \in Seq(Ids) /\ Ids \in SUBSET Int
  BY ApiAssumption DEF IInv, TypeOK, Ids
<1>2. Listed \in SUBSET Ids
  BY <1>1, LenProperties, ElementOfSeq DEF Listed, ToSet
<1> QED
  BY <1>1, <1>2, ApiAssumption DEF IInv, LockInv, VectorInv, Increasing

\* The library as it is loaded, before any call, satisfies the invariant.
LEMMA InvInit ==
    ASSUME Init
    PROVE  IInv
<1>1. srtExp = <<>> /\ srtExp \in Seq(Ids) /\ Len(srtExp) = 0 /\ Listed = {}
  BY EmptySeq DEF Init, Listed, ToSet
<1>2. TypeOK
  <2>1. /\ nameOf \in [Ids -> NameValues \cup {NULL}]
        /\ addrOf \in [Ids -> Address \cup {NULL}]
        /\ server \in [Ids -> ServerStates]
        /\ worker \in [Ids -> [Workers -> WorkerStates]]
    BY DEF Init, ServerStates, WorkerStates
  <2>2. /\ pc \in [Threads -> PcValues]
        /\ arg \in [Threads -> NameValues \cup {NULL}]
        /\ cur \in [Threads -> 0 .. MaxStarts]
        /\ count \in 0 .. MaxStarts
    BY ApiAssumption DEF Init, PcValues
  <2>3. spare \in Seq(BOOLEAN)
    BY EmptySeq DEF Init
  <2> QED
    BY <1>1, <2>1, <2>2, <2>3 DEF Init, TypeOK
<1>3. LockInv /\ StartInv /\ StopInv
  BY ApiAssumption DEF Init, LockInv, LockedPcs, StartInv, StopInv
<1>4. VectorInv /\ ListedExportersWork
  BY <1>1 DEF VectorInv, UniqueNames, ListedExportersWork
<1>5. FreshInv /\ ServerInv
  BY DEF Init, FreshInv, ServerInv, Collecting
<1> QED
  BY <1>2, <1>3, <1>4, <1>5 DEF IInv

\* What push_back and the erases leave behind the vector are slots again.
LEMMA SpareFacts ==
    ASSUME IInv
    PROVE  /\ SpareAfterPush \in Seq(BOOLEAN)
           /\ SpareAfterPop \in Seq(BOOLEAN)
           /\ \A e \in Ids : SpareAfterErase(e) \in Seq(BOOLEAN)
<1>1. spare \in Seq(BOOLEAN) /\ srtExp \in Seq(Ids)
  BY DEF IInv, TypeOK
<1>2. SpareAfterPush \in Seq(BOOLEAN)
  <2>1. CASE spare # <<>>
    <3>1. Tail(spare) \in Seq(BOOLEAN)
      BY <1>1, <2>1
    <3> QED
      BY <2>1, <3>1 DEF SpareAfterPush
  <2>2. CASE spare = <<>> /\ Len(srtExp) = 0
    <3>1. SpareAfterPush = [i \in 1 .. 0 |-> TRUE]
      <4>1. 1 .. Len(srtExp) - 1 = 1 .. 0
        BY <2>2
      <4> QED
        BY <2>2, <4>1 DEF SpareAfterPush
    <3> QED
      BY <3>1
  <2>3. CASE spare = <<>> /\ Len(srtExp) # 0
    <3>1. Len(srtExp) - 1 \in Nat
      BY <1>1, <2>3, LenProperties
    <3> QED
      BY <2>3, <3>1 DEF SpareAfterPush
  <2> QED
    BY <2>1, <2>2, <2>3
<1>3. SpareAfterPop \in Seq(BOOLEAN)
  BY <1>1 DEF SpareAfterPop
<1>4. ASSUME NEW e \in Ids
      PROVE  SpareAfterErase(e) \in Seq(BOOLEAN)
  BY <1>1 DEF SpareAfterErase
<1> QED
  BY <1>2, <1>3, <1>4

\* The parts of the invariant that do not mention a thread's call hold after a
\* step that changes nothing else but the configuration, the undefined flag,
\* the foreign addresses, the lock and the count, which only grows.
LEMMA KeepsExporters ==
    ASSUME IInv, UNCHANGED <<srtExp, exporters>>, count' \in Nat, count <= count'
    PROVE  VectorInv' /\ FreshInv' /\ ServerInv'
<1>1. count \in Nat /\ Listed \in SUBSET Int /\ Ids \in SUBSET Int
  BY StateFacts, ApiAssumption DEF IInv, TypeOK, Ids
<1>2. VectorInv'
  BY <1>1 DEF IInv, VectorInv, UniqueNames, Listed, exporters
<1> QED
  BY <1>1, <1>2 DEF IInv, FreshInv, ServerInv, Collecting, exporters

\* A step of t outside the lock: it moves only the call of t, between points of
\* the code where the invariant asks nothing of it.
StaysOutside(t) ==
    /\ pc[t] \notin LockedPcs
    /\ pc'[t] \notin LockedPcs
    /\ \A u \in Threads \ {t} : pc'[u] = pc[u] /\ cur'[u] = cur[u]
    /\ UNCHANGED <<apiLock, srtExp, exporters>>
    /\ count' = count \/ (apiLock = NULL /\ count' \in Nat /\ count <= count')

\* A step of a call that does not hold api_lock before it nor after it keeps the
\* invariant: only its own pc, arg and cur move.
LEMMA OutsideLock ==
    ASSUME IInv, NEW t \in Threads, StaysOutside(t), TypeOK'
    PROVE  IInv'
<1>1. VectorInv' /\ FreshInv' /\ ServerInv'
  BY KeepsExporters, ApiAssumption DEF StaysOutside, IInv, TypeOK
<1>2. LockInv'
  BY DEF IInv, LockInv, StaysOutside
<1>3. StartInv'
  BY StateFacts DEF IInv, StartInv, LockedPcs, StaysOutside, exporters
<1>4. StopInv'
  BY DEF IInv, StopInv, LockedPcs, Listed, StaysOutside, exporters
<1>5. ListedExportersWork'
  BY DEF IInv, ListedExportersWork, Listed, Starting, LockedPcs, StaysOutside, exporters
<1> QED
  BY <1>1, <1>2, <1>3, <1>4, <1>5 DEF IInv

\* The invocation of a call of the API leaves the library as it is.
LEMMA CallPreserves ==
    ASSUME IInv, NEW t \in Threads,
           NEW label \in {"start", "stop", "register", "deinit"},
           NEW n \in NameValues \cup {NULL}, NEW e \in 0 .. MaxStarts,
           Call(t, label, n, e)
    PROVE  IInv'
<1>1. TypeOK'
  BY DEF Call, Goto, IInv, TypeOK, PcValues, world, list, exporters
<1>2. StaysOutside(t)
  BY DEF Call, At, Goto, IInv, TypeOK, LockedPcs, StaysOutside, list, exporters
<1> QED
  BY <1>1, <1>2, OutsideLock

\* So do all invocations; srtexp_init installs one of the configurations.
LEMMA InvocationPreserves ==
    ASSUME IInv, NEW t \in Threads, Invocation(t)
    PROVE  IInv'
<1> USE ApiAssumption
<1>1. CASE CallStart(t)
  <2>1. PICK n \in NameValues \cup {NULL} : Call(t, "start", n, 0)
    BY <1>1 DEF CallStart
  <2> QED
    BY <2>1, CallPreserves
<1>2. CASE CallStop(t)
  <2>1. PICK n \in NameValues \cup {NULL}, id \in 0 .. count : Call(t, "stop", n, id)
    BY <1>2 DEF CallStop
  <2>2. id \in 0 .. MaxStarts
    BY DEF IInv, TypeOK
  <2> QED
    BY <2>1, <2>2, CallPreserves
<1>3. CASE CallRegister(t)
  <2>1. PICK id \in 0 .. count : Call(t, "register", NULL, id)
    BY <1>3 DEF CallRegister
  <2>2. id \in 0 .. MaxStarts
    BY DEF IInv, TypeOK
  <2> QED
    BY <2>1, <2>2, CallPreserves
<1>4. CASE CallDeinit(t)
  BY <1>4, CallPreserves DEF CallDeinit
<1>5. CASE SrtExpInit(t)
  <2>1. TypeOK'
    BY <1>5 DEF SrtExpInit, IInv, TypeOK, list, call, exporters
  <2>2. StaysOutside(t)
    BY <1>5 DEF SrtExpInit, At, LockedPcs, StaysOutside, list, call
  <2> QED
    BY <2>1, <2>2, OutsideLock
<1> QED
  BY <1>1, <1>2, <1>3, <1>4, <1>5 DEF Invocation

\* push_back of the next id, and erase(end()): what they make of the vector.
LEMMA PushBackFacts ==
    ASSUME IInv, count + 1 \in Ids, srtExp' = Append(srtExp, count + 1)
    PROVE  /\ srtExp' \in Seq(Ids)
           /\ Increasing(srtExp')
           /\ srtExp' # <<>>
           /\ Last(srtExp') = count + 1
           /\ Listed' = Listed \cup {count + 1}
<1>1. /\ srtExp \in Seq(Ids) /\ Ids \in SUBSET Int /\ Increasing(srtExp)
      /\ \A x \in ToSet(srtExp) : x < count + 1
  BY StateFacts DEF Listed, IInv, TypeOK, Ids
<1>2. Increasing(srtExp') /\ ToSet(srtExp') = ToSet(srtExp) \cup {count + 1}
  BY <1>1, AppendIncreasing
<1>3. srtExp' \in Seq(Ids) /\ srtExp' # <<>> /\ Last(srtExp') = count + 1
  BY <1>1, LastFacts
<1> QED
  BY <1>2, <1>3 DEF Listed

\* erase(end()): the newest exporter leaves the vector, the others stay.
LEMMA PopBackFacts ==
    ASSUME IInv, srtExp # <<>>, srtExp' = Front(srtExp)
    PROVE  /\ srtExp' \in Seq(Ids)
           /\ Increasing(srtExp')
           /\ Listed' = Listed \ {Last(srtExp)}
<1>1. srtExp \in Seq(Ids) /\ Ids \in SUBSET Int /\ Increasing(srtExp)
  BY StateFacts
<1>2. Increasing(srtExp') /\ ToSet(srtExp') = ToSet(srtExp) \ {Last(srtExp)}
  BY <1>1, FrontIncreasing
<1>3. srtExp' \in Seq(Ids)
  BY <1>1, FrontFacts
<1> QED
  BY <1>2, <1>3 DEF Listed

\* What a step of the probe leaves alone.
LEMMA ProbeFacts ==
    ASSUME NEW t \in Threads, ProbeFinds(t) \/ ProbeRejects(t) \/ ProbeEnds(t)
    PROVE  /\ pc[t] = "start_probe"
           /\ \E next \in {"start_probe", "start_bind"} : pc' = [pc EXCEPT ![t] = next]
           /\ UNCHANGED <<world, list, apiLock, nameOf, worker, collector, server, arg, cur>>
  BY DEF ProbeFinds, ProbeRejects, ProbeEnds, ProbeGoto, At, Goto

\* A step of the probe changes the port of the new exporter and where the call is.
LEMMA ProbePreserves ==
    ASSUME IInv, NEW t \in Threads, pc[t] = "start_probe",
           NEW next \in {"start_probe", "start_bind"}, NEW port \in Int,
           ProbeGoto(t, next, port)
    PROVE  IInv'
<1> USE ApiAssumption, StateFacts
<1>1. /\ cur[t] = count /\ cur[t] \in Ids /\ srtExp # <<>> /\ Last(srtExp) = count
      /\ server[cur[t]] = "none" /\ addrOf[cur[t]] \in Address
  <2>1. cur[t] = count /\ srtExp # <<>> /\ Last(srtExp) = count /\ server[cur[t]] = "none"
        /\ addrOf[cur[t]] # NULL
    BY DEF IInv, StartInv
  <2>2. cur[t] \in Ids
    BY <2>1, LastFacts, ElementOfSeq
  <2> QED
    BY <2>1, <2>2 DEF IInv, TypeOK
<1>2. /\ pc' = [pc EXCEPT ![t] = next]
      /\ addrOf' = [addrOf EXCEPT ![cur[t]].port = port]
      /\ UNCHANGED <<world, list, apiLock, nameOf, worker, collector, server, arg, cur>>
  BY DEF ProbeGoto, Goto
<1>3. [addrOf[cur[t]] EXCEPT !.port = port] \in Address
      /\ addrOf' = [addrOf EXCEPT ![cur[t]] = [addrOf[cur[t]] EXCEPT !.port = port]]
  BY <1>1, <1>2 DEF Address
<1>4. TypeOK'
  BY <1>1, <1>2, <1>3 DEF IInv, TypeOK, PcValues, world, list
<1>5. LockInv' /\ VectorInv' /\ FreshInv'
  BY <1>2 DEF IInv, TypeOK, LockInv, LockedPcs, VectorInv, UniqueNames, Listed, FreshInv, list
<1>6. StartInv'
  <2>1. \A u \in Threads : pc'[u] \in LockedPcs => u = t
    BY <1>2 DEF IInv, TypeOK, LockedPcs
  <2>2. addrOf'[cur'[t]] # NULL
    BY <1>1, <1>2, <1>3 DEF IInv, TypeOK, Address
  <2>3. pc'[t] = next /\ cur'[t] = count' /\ Last(srtExp') = count' /\ srtExp' # <<>>
        /\ server'[cur'[t]] = "none"
    BY <1>1, <1>2 DEF IInv, TypeOK, list
  <2> QED
    BY <2>1, <2>2, <2>3 DEF StartInv, LockedPcs
<1>7. StopInv' /\ ServerInv' /\ ListedExportersWork'
  BY <1>2 DEF IInv, TypeOK, StopInv, LockedPcs, ServerInv, Collecting, ListedExportersWork,
              Listed, Starting, list
<1> QED
  BY <1>4, <1>5, <1>6, <1>7 DEF IInv

\* The steps of srtexp_start: the lock is held from the push to the return, and
\* the exporter that was pushed is complete, or erased, when it is given back.
LEMMA StartPreserves ==
    ASSUME IInv, NEW t \in Threads, StartStep(t)
    PROVE  IInv'
<1> USE ApiAssumption, StateFacts
<1>1. CASE StartThrows(t)
  <2>1. TypeOK'
    BY <1>1 DEF StartThrows, StartEnters, Goto, IInv, TypeOK, PcValues, world, exporters
  <2>2. StaysOutside(t)
    BY <1>1 DEF StartThrows, StartEnters, At, Goto, IInv, TypeOK, LockedPcs, StaysOutside
  <2> QED
    BY <2>1, <2>2, OutsideLock
<1>2. CASE ExceptionEscapes(t)
  <2>1. TypeOK'
    BY <1>2 DEF ExceptionEscapes, Return, Goto, IInv, TypeOK, PcValues, world, list, exporters
  <2>2. StaysOutside(t)
    BY <1>2 DEF ExceptionEscapes, Return, At, Goto, IInv, TypeOK, LockedPcs, StaysOutside,
                list
  <2> QED
    BY <2>1, <2>2, OutsideLock
<1>3. CASE StartWithoutConfig(t)
  <2>1. TypeOK'
    BY <1>3 DEF StartWithoutConfig, StartEnters, IInv, TypeOK, call, exporters
  <2>2. StaysOutside(t)
    BY <1>3 DEF StartWithoutConfig, StartEnters, At, IInv, TypeOK, LockedPcs, StaysOutside,
                call
  <2> QED
    BY <2>1, <2>2, OutsideLock
<1>4. CASE StartFinds(t)
  <2>1. FindByName(arg[t]) \in 0 .. MaxStarts
    BY FindByNameFacts
  <2>2. TypeOK'
    BY <1>4, <2>1 DEF StartFinds, StartEnters, Goto, IInv, TypeOK, PcValues, world,
                      exporters
  <2>3. VectorInv' /\ FreshInv' /\ ServerInv'
    <3>1. count' \in Nat /\ count <= count'
      BY <1>4 DEF StartFinds, StartEnters, IInv, TypeOK
    <3> QED
      BY <1>4, <3>1, KeepsExporters DEF StartFinds
  <2>4. LockInv' /\ StartInv' /\ StopInv' /\ ListedExportersWork'
    BY <1>4 DEF StartFinds, StartEnters, At, Goto, IInv, TypeOK, LockInv, LockedPcs,
                StartInv, StopInv, ListedExportersWork, Listed, Starting, exporters
  <2> QED
    BY <2>2, <2>3, <2>4 DEF IInv
<1>5. CASE StartCreates(t)
  <2>1. /\ count' = count + 1 /\ count + 1 \in Ids /\ count \in Nat
        /\ srtExp' = Append(srtExp, count + 1)
    BY <1>5 DEF StartCreates, StartEnters, IInv, TypeOK, Ids
  <2>2. /\ srtExp' \in Seq(Ids)
        /\ Increasing(srtExp')
        /\ srtExp' # <<>>
        /\ Last(srtExp') = count + 1
        /\ Listed' = Listed \cup {count + 1}
    BY <2>1, PushBackFacts
  <2> DEFINE first == [ip |-> GetServerIp(config, arg[t]), port |-> FirstPort(config, arg[t])]
             next == IF HasOwnPort(config, arg[t]) THEN "start_bind" ELSE "start_probe"
  <2>3. first \in Address /\ first # NULL
    <3>1. config \in ConfigType
      BY <1>5 DEF StartCreates, IInv, TypeOK
    <3> QED
      BY <3>1, AddressType DEF Address
  <2>4. /\ nameOf' = [nameOf EXCEPT ![count + 1] = arg[t]]
        /\ arg[t] \in NameValues /\ arg[t] # NULL
        /\ \A e \in Listed : nameOf[e] # arg[t]
    BY <1>5, <2>1, FindByNameFacts DEF StartCreates, IInv, TypeOK
  <2>5. /\ cur' = [cur EXCEPT ![t] = count + 1]
        /\ pc' = [pc EXCEPT ![t] = next]
        /\ next \in {"start_probe", "start_bind"}
        /\ apiLock = NULL /\ apiLock' = t
        /\ UNCHANGED <<world, worker, collector, server, arg>>
        /\ addrOf' = [addrOf EXCEPT ![count + 1] = first]
        /\ spare' = SpareAfterPush
    BY <1>5, <2>1 DEF StartCreates, StartEnters, Goto
  <2> HIDE DEF first, next
  <2>6. TypeOK'
    <3>1. spare' \in Seq(BOOLEAN)
      BY <2>5, SpareFacts
    <3>2. /\ nameOf' \in [Ids -> NameValues \cup {NULL}]
          /\ addrOf' \in [Ids -> Address \cup {NULL}]
      BY <2>1, <2>3, <2>4, <2>5 DEF IInv, TypeOK
    <3>3. /\ pc' \in [Threads -> PcValues]
          /\ cur' \in [Threads -> 0 .. MaxStarts]
      BY <2>1, <2>5 DEF IInv, TypeOK, PcValues, Ids
    <3> QED
      BY <2>1, <2>2, <2>5, <3>1, <3>2, <3>3 DEF IInv, TypeOK, world, Ids
  <2>7. VectorInv'
    <3>1. \A e \in Listed' : e <= count' /\ nameOf'[e] # NULL
      BY <2>1, <2>2, <2>4 DEF IInv, TypeOK, VectorInv
    <3>2. UniqueNames'
      BY <2>1, <2>2, <2>4 DEF IInv, TypeOK, VectorInv, UniqueNames
    <3> QED
      BY <2>2, <3>1, <3>2 DEF VectorInv, Increasing
  <2>8. LockInv' /\ FreshInv' /\ ServerInv'
    BY <2>1, <2>5 DEF IInv, TypeOK, LockInv, LockedPcs, FreshInv, ServerInv, Collecting, Ids
  <2>9. StartInv'
    <3>1. \A u \in Threads : pc'[u] \in LockedPcs => u = t
      BY <2>5 DEF IInv, TypeOK, LockedPcs
    <3>2. server[count + 1] = "none" /\ count + 1 <= MaxStarts
      BY <2>1 DEF IInv, FreshInv, Ids
    <3>3. addrOf'[count + 1] # NULL
      BY <2>1, <2>3, <2>5 DEF IInv, TypeOK
    <3>4. pc'[t] \in {"start_probe", "start_bind"} /\ cur'[t] = count + 1
      BY <2>5 DEF IInv, TypeOK
    <3> QED
      BY <2>1, <2>2, <2>5, <3>1, <3>2, <3>3, <3>4 DEF StartInv, LockedPcs
  <2>10. StopInv' /\ ListedExportersWork'
    BY <2>1, <2>2, <2>5 DEF IInv, TypeOK, StopInv, LockedPcs, ListedExportersWork, Starting
  <2> QED
    BY <2>6, <2>7, <2>8, <2>9, <2>10 DEF IInv
<1>6. CASE StartBinds(t)
  <2>1. /\ pc[t] = "start_bind" /\ pc' = [pc EXCEPT ![t] = "start_collector"]
        /\ server' = [server EXCEPT ![cur[t]] = "bound"]
        /\ UNCHANGED <<world, list, apiLock, nameOf, addrOf, worker, collector, arg, cur>>
        /\ cur[t] = count /\ srtExp # <<>> /\ Last(srtExp) = count
        /\ server[count] = "none"
    BY <1>6 DEF StartBinds, At, Goto, IInv, StartInv
  <2>2. TypeOK'
    BY <2>1 DEF IInv, TypeOK, PcValues, ServerStates, world, list
  <2>3. LockInv' /\ VectorInv' /\ FreshInv'
    BY <2>1 DEF IInv, TypeOK, LockInv, LockedPcs, VectorInv, UniqueNames, Listed, FreshInv, list
  <2>4. StartInv'
    <3>1. \A u \in Threads : pc'[u] \in LockedPcs => u = t
      BY <2>1 DEF IInv, TypeOK, LockedPcs
    <3>2. cur'[t] = count' /\ Last(srtExp') = count' /\ srtExp' # <<>>
      BY <2>1 DEF list
    <3>3. count \in Ids
      BY <2>1, LastFacts, ElementOfSeq
    <3>4. pc'[t] = "start_collector" /\ server'[cur'[t]] = "bound"
      BY <2>1, <3>3 DEF IInv, TypeOK
    <3> QED
      BY <3>1, <3>2, <3>4 DEF StartInv, LockedPcs
  <2>5. StopInv' /\ ServerInv' /\ ListedExportersWork'
    BY <2>1 DEF IInv, TypeOK, StopInv, LockedPcs, ServerInv, Collecting, ListedExportersWork,
                Listed, Starting, list
  <2> QED
    BY <2>2, <2>3, <2>4, <2>5 DEF IInv
<1>7. CASE StartFails(t)
  <2>1. /\ pc[t] = "start_bind" /\ pc' = [pc EXCEPT ![t] = "idle"]
        /\ cur' = [cur EXCEPT ![t] = 0] /\ arg' = [arg EXCEPT ![t] = NULL]
        /\ apiLock' = NULL /\ srtExp # <<>> /\ Last(srtExp) = cur[t]
        /\ srtExp' = Front(srtExp) /\ spare' = SpareAfterPop
        /\ UNCHANGED <<world, exporters, count>>
    BY <1>7 DEF StartFails, Return, Goto, At, IInv, StartInv
  <2>2. /\ srtExp' \in Seq(Ids)
        /\ Increasing(srtExp')
        /\ Listed' = Listed \ {cur[t]}
    BY <2>1, PopBackFacts
  <2>3. \A u \in Threads : pc'[u] \notin LockedPcs
    BY <2>1 DEF IInv, TypeOK, LockedPcs
  <2>4. TypeOK'
    BY <2>1, <2>2, SpareFacts DEF IInv, TypeOK, PcValues, world, exporters
  <2>5. VectorInv'
    BY <2>1, <2>2 DEF IInv, VectorInv, UniqueNames, Increasing, exporters
  <2>6. LockInv' /\ StartInv' /\ StopInv'
    BY <2>1, <2>3 DEF LockInv, StartInv, StopInv, LockedPcs
  <2>7. FreshInv' /\ ServerInv'
    BY <2>1 DEF IInv, FreshInv, ServerInv, Collecting, exporters
  <2>8. ListedExportersWork'
    BY <2>1, <2>2 DEF IInv, TypeOK, LockedPcs, ListedExportersWork, Starting, exporters
  <2> QED
    BY <2>4, <2>5, <2>6, <2>7, <2>8 DEF IInv
<1>10. CASE ProbeFinds(t) \/ ProbeRejects(t) \/ ProbeEnds(t)
  <2>1. PICK next \in {"start_probe", "start_bind"}, port \in Int :
           pc[t] = "start_probe" /\ ProbeGoto(t, next, port)
    <3>1. pc[t] = "start_probe" => cur[t] \in Ids /\ addrOf[cur[t]] \in Address
      <4>1. pc[t] = "start_probe" => cur[t] \in Ids
        BY LastFacts, ElementOfSeq DEF IInv, StartInv
      <4> QED
        BY <4>1 DEF IInv, TypeOK, StartInv
    <3> QED
      BY <1>10, <3>1 DEF ProbeFinds, ProbeRejects, ProbeEnds, Probed, At, Address
  <2> QED
    BY <2>1, ProbePreserves
<1>8. CASE StartDone(t) /\ config = NULL
  <2>1. UNCHANGED <<list, exporters, call, apiLock, config, foreign>> /\ undefined' = TRUE
    BY <1>8 DEF StartDone, exporters
  <2> QED
    BY <2>1 DEF IInv, TypeOK, LockInv, VectorInv, UniqueNames, FreshInv, StartInv, StopInv,
                ServerInv, Collecting, ListedExportersWork, Listed, Starting,
                list, exporters, call
<1>9. CASE StartDone(t) /\ config # NULL
  <2>1. /\ pc[t] = "start_collector" /\ pc' = [pc EXCEPT ![t] = "idle"]
        /\ cur' = [cur EXCEPT ![t] = 0] /\ arg' = [arg EXCEPT ![t] = NULL]
        /\ collector' = collector \cup {cur[t]}
        /\ server' = [server EXCEPT ![cur[t]] = "exporting"]
        /\ apiLock' = NULL
        /\ UNCHANGED <<world, list, nameOf, addrOf, worker>>
        /\ cur[t] \in Listed /\ cur[t] \in Ids
        /\ server[cur[t]] = "bound" /\ cur[t] <= count
    <3>1. pc[t] = "start_collector" /\ srtExp # <<>> /\ Last(srtExp) = cur[t]
      BY <1>9 DEF StartDone, At, IInv, StartInv
    <3>2. cur[t] \in Listed
      BY <3>1, LastFacts, LenProperties DEF Listed, ToSet
    <3> QED
      BY <1>9, <3>1, <3>2 DEF StartDone, Return, Goto, At, IInv, StartInv, world
  <2>2. \A u \in Threads : pc'[u] \notin LockedPcs
    BY <2>1 DEF IInv, TypeOK, LockedPcs
  <2>3. TypeOK'
    BY <2>1 DEF IInv, TypeOK, PcValues, ServerStates, world, list
  <2>4. LockInv' /\ StartInv' /\ StopInv'
    BY <2>1, <2>2 DEF LockInv, StartInv, StopInv, LockedPcs
  <2>5. VectorInv' /\ FreshInv' /\ ServerInv'
    BY <2>1 DEF IInv, TypeOK, VectorInv, UniqueNames, Listed, FreshInv, ServerInv, Collecting,
                list
  <2>6. ListedExportersWork'
    <3>1. \A e \in Listed : e \in Ids /\ (e = cur[t] \/ ~ Starting(e))
      BY <2>1 DEF Starting, LockedPcs
    <3> QED
      BY <2>1, <3>1 DEF IInv, TypeOK, ListedExportersWork, Listed, list
  <2> QED
    BY <2>3, <2>4, <2>5, <2>6 DEF IInv
<1> QED
  BY <1>1, <1>2, <1>3, <1>4, <1>5, <1>6, <1>7, <1>8, <1>9, <1>10 DEF StartStep

\* The steps of srtexp_stop: what it found stays listed until it erases it, and
\* from then on the exporter belongs to the call that releases it.
LEMMA StopPreserves ==
    ASSUME IInv, NEW t \in Threads, StopStep(t)
    PROVE  IInv'
<1> USE ApiAssumption, StateFacts
<1>1. CASE StopFinds(t)
  <2>1. StopTarget(t) \in 0 .. MaxStarts /\ StopTarget(t) \in Listed
    BY <1>1, FindByNameFacts DEF StopFinds, StopTarget, FindById, IInv, TypeOK
  <2>2. /\ apiLock = NULL /\ apiLock' = t
        /\ pc' = [pc EXCEPT ![t] = "stop_delete"]
        /\ cur' = [cur EXCEPT ![t] = StopTarget(t)]
        /\ UNCHANGED <<world, list, exporters, arg>>
    BY <1>1 DEF StopFinds, Goto
  <2>3. TypeOK'
    BY <2>1, <2>2 DEF IInv, TypeOK, PcValues, world, list, exporters
  <2>4. VectorInv' /\ FreshInv' /\ ServerInv'
    BY <2>2, KeepsExporters DEF IInv, TypeOK, list
  <2>5. \A u \in Threads : pc'[u] \in LockedPcs => u = t
    BY <2>2 DEF IInv, TypeOK, LockedPcs
  <2>6. StopInv'
    <3>1. pc'[t] = "stop_delete" /\ cur'[t] \in Listed'
      BY <2>1, <2>2 DEF IInv, TypeOK, Listed, list
    <3> QED
      BY <2>5, <3>1 DEF StopInv, LockedPcs
  <2>7. LockInv' /\ StartInv' /\ ListedExportersWork'
    BY <2>2, <2>5 DEF IInv, TypeOK, LockInv, LockedPcs, StartInv, ListedExportersWork,
                      Listed, Starting, list, exporters
  <2> QED
    BY <2>3, <2>4, <2>6, <2>7 DEF IInv
<1>2. CASE StopNotFound(t)
  <2>1. TypeOK'
    BY <1>2 DEF StopNotFound, Return, Goto, IInv, TypeOK, PcValues, world, list, exporters
  <2>2. StaysOutside(t)
    BY <1>2 DEF StopNotFound, Return, At, Goto, IInv, TypeOK, LockedPcs, StaysOutside, list
  <2> QED
    BY <2>1, <2>2, OutsideLock
<1>3. CASE DeleteSrtExporter(t)
  <2>1. /\ pc[t] = "stop_delete" /\ pc' = [pc EXCEPT ![t] = "stop_release"]
        /\ cur[t] \in Listed
        /\ collector' = collector \ {cur[t]}
        /\ srtExp' = Erase(cur[t]) /\ spare' = SpareAfterErase(cur[t])
        /\ UNCHANGED <<world, apiLock, count, nameOf, addrOf, worker, server, arg, cur>>
    BY <1>3 DEF DeleteSrtExporter, At, Goto, IInv, StopInv
  <2>2. /\ srtExp' \in Seq(Ids)
        /\ Increasing(srtExp')
        /\ Listed' = Listed \ {cur[t]}
    BY <2>1, EraseFacts DEF IInv, Listed
  <2>3. \A u \in Threads : pc[u] \in LockedPcs => u = t
    BY <2>1 DEF LockedPcs
  <2>4. server[cur[t]] = "exporting"
    <3>1. ~ Starting(cur[t])
      BY <2>1, <2>3 DEF Starting, LockedPcs
    <3> QED
      BY <2>1, <3>1 DEF IInv, ListedExportersWork
  <2>5. TypeOK'
    BY <2>1, <2>2, SpareFacts DEF IInv, TypeOK, PcValues, world
  <2>6. VectorInv'
    BY <2>1, <2>2 DEF IInv, VectorInv, UniqueNames, Increasing
  <2>7. LockInv' /\ StartInv' /\ FreshInv' /\ ServerInv'
    BY <2>1, <2>3 DEF IInv, TypeOK, LockInv, LockedPcs, StartInv, FreshInv, ServerInv,
                      Collecting
  <2>8. StopInv'
    BY <2>1, <2>2, <2>3, <2>4 DEF IInv, TypeOK, StopInv, LockedPcs
  <2>9. ListedExportersWork'
    BY <2>1, <2>2, <2>3 DEF IInv, ListedExportersWork, Starting, LockedPcs
  <2> QED
    BY <2>5, <2>6, <2>7, <2>8, <2>9 DEF IInv
<1>4. CASE StopReleasesLast(t)
  <2> USE <1>4 DEF StopReleasesLast, CollectorLive, At, Goto, world, list
  <2>1. TypeOK'
    BY DEF IInv, TypeOK, PcValues, ServerStates
  <2>2. LockInv' /\ VectorInv'
    BY DEF IInv, TypeOK, LockInv, LockedPcs, VectorInv, UniqueNames, Listed
  <2>3. FreshInv' /\ StartInv' /\ StopInv'
    BY DEF IInv, TypeOK, LockedPcs, FreshInv, StartInv, StopInv, Listed
  <2>4. ServerInv' /\ ListedExportersWork'
    BY DEF IInv, TypeOK, ServerInv, StopInv, Collecting, ListedExportersWork, Listed, Starting,
           LockedPcs
  <2> QED
    BY <2>1, <2>2, <2>3, <2>4 DEF IInv
<1>5. CASE StopReleasesShared(t)
  <2> USE <1>5 DEF StopReleasesShared, Return, At, Goto, world, list, exporters
  <2>1. TypeOK' /\ LockInv' /\ VectorInv' /\ FreshInv' /\ ServerInv'
    BY DEF IInv, TypeOK, PcValues, LockInv, LockedPcs, VectorInv, UniqueNames,
           Listed, FreshInv, ServerInv, Collecting
  <2>2. StartInv' /\ StopInv' /\ ListedExportersWork'
    BY DEF IInv, TypeOK, LockedPcs, StartInv, StopInv, ListedExportersWork, Listed, Starting
  <2> QED
    BY <2>1, <2>2 DEF IInv
<1>6. CASE StopDone(t)
  <2> USE <1>6 DEF StopDone, Return, At, Goto, world, list
  <2>1. TypeOK'
    <3>1. server' \in [Ids -> ServerStates]
      BY DEF IInv, TypeOK, ServerStates
    <3>2. /\ pc' \in [Threads -> PcValues]
          /\ arg' \in [Threads -> NameValues \cup {NULL}]
          /\ cur' \in [Threads -> 0 .. MaxStarts]
      BY DEF IInv, TypeOK, PcValues
    <3> QED
      BY <3>1, <3>2 DEF IInv, TypeOK
  <2>2. LockInv' /\ VectorInv'
    BY DEF IInv, TypeOK, LockInv, LockedPcs, VectorInv, UniqueNames, Listed
  <2>3. FreshInv' /\ StartInv' /\ StopInv'
    BY DEF IInv, TypeOK, LockedPcs, FreshInv, StartInv, StopInv, Listed
  <2>4. ServerInv' /\ ListedExportersWork'
    BY DEF IInv, TypeOK, ServerInv, StopInv, Collecting, ListedExportersWork, Listed, Starting,
           LockedPcs
  <2> QED
    BY <2>1, <2>2, <2>3, <2>4 DEF IInv
<1> QED
  BY <1>1, <1>2, <1>3, <1>4, <1>5, <1>6 DEF StopStep

\* The steps of srtexp_deinit: the last exporter leaves the vector, or memory is
\* corrupted and nothing follows, or the configuration is dropped.
LEMMA DeinitPreserves ==
    ASSUME IInv, NEW t \in Threads, DeinitStep(t)
    PROVE  IInv'
<1> USE ApiAssumption, StateFacts
<1>1. CASE DeinitPop(t)
  <2>1. /\ pc[t] = "deinit" /\ apiLock = NULL /\ srtExp # <<>>
        /\ srtExp' = Front(srtExp) /\ spare' = SpareAfterPop
        /\ UNCHANGED <<world, call, exporters, apiLock, count>>
    BY <1>1 DEF DeinitPop, At
  <2>2. /\ srtExp' \in Seq(Ids)
        /\ Increasing(srtExp')
        /\ Listed' = Listed \ {Last(srtExp)}
    BY <2>1, PopBackFacts
  <2>3. \A u \in Threads : pc[u] \notin LockedPcs
    BY <2>1
  <2>4. TypeOK'
    BY <2>1, <2>2, SpareFacts DEF IInv, TypeOK, world, exporters, call
  <2>5. VectorInv'
    BY <2>1, <2>2 DEF IInv, VectorInv, UniqueNames, Increasing, exporters
  <2>6. LockInv' /\ StartInv' /\ StopInv'
    BY <2>1, <2>3 DEF LockInv, StartInv, StopInv, LockedPcs, call
  <2>7. FreshInv' /\ ServerInv'
    BY <2>1 DEF IInv, FreshInv, ServerInv, Collecting, exporters
  <2>8. ListedExportersWork'
    BY <2>1, <2>2, <2>3 DEF IInv, ListedExportersWork, Starting, LockedPcs, exporters
  <2> QED
    BY <2>4, <2>5, <2>6, <2>7, <2>8 DEF IInv
<1>2. CASE DeinitCorrupts(t)
  <2>1. TypeOK'
    BY <1>2 DEF DeinitCorrupts, IInv, TypeOK, list, call, exporters
  <2>2. StaysOutside(t)
    BY <1>2 DEF DeinitCorrupts, At, LockedPcs, StaysOutside, list, call
  <2> QED
    BY <2>1, <2>2, OutsideLock
<1>3. CASE DeinitEnds(t)
  <2>1. TypeOK'
    BY <1>3 DEF DeinitEnds, Goto, IInv, TypeOK, PcValues, world, list, exporters
  <2>2. StaysOutside(t)
    BY <1>3 DEF DeinitEnds, At, Goto, IInv, TypeOK, LockedPcs, StaysOutside, list
  <2> QED
    BY <2>1, <2>2, OutsideLock
<1>4. CASE DeinitDone(t)
  <2>1. TypeOK'
    BY <1>4 DEF DeinitDone, Return, Goto, IInv, TypeOK, PcValues, list, exporters
  <2>2. StaysOutside(t)
    BY <1>4 DEF DeinitDone, Return, At, Goto, IInv, TypeOK, LockedPcs, StaysOutside, list
  <2> QED
    BY <2>1, <2>2, OutsideLock
<1> QED
  BY <1>1, <1>2, <1>3, <1>4 DEF DeinitStep

\* srtexp_label_register and srtexp_srt_socket_register change nothing that the
\* invariant speaks of.
LEMMA RegisterPreserves ==
    ASSUME IInv, NEW t \in Threads, Register(t)
    PROVE  IInv'
<1> USE ApiAssumption
<1>1. TypeOK'
  BY DEF Register, Return, Goto, IInv, TypeOK, PcValues, list, exporters
<1>2. StaysOutside(t)
  BY DEF Register, Return, At, Goto, IInv, TypeOK, LockedPcs, StaysOutside, list
<1> QED
  BY <1>1, <1>2, OutsideLock

\* A step of an http server moves one worker of one server; the rest of the
\* invariant depends on the servers only through the state of each server.
LEMMA WorkerPreserves ==
    ASSUME IInv, NEW e \in Ids, NEW w \in Workers, NEW state \in WorkerStates,
           WorkerGoto(e, w, state), UNCHANGED server,
           state = "collecting" => server[e] = "exporting" /\ ~ Collecting(e)
    PROVE  IInv'
<1> USE DEF WorkerGoto, world, list, call
<1>1. TypeOK' /\ LockInv' /\ VectorInv' /\ FreshInv'
  BY DEF IInv, TypeOK, LockInv, VectorInv, UniqueNames, Listed, FreshInv
<1>2. StartInv' /\ StopInv' /\ ListedExportersWork'
  BY DEF IInv, StartInv, StopInv, ListedExportersWork, Listed, Starting
<1>3. ServerInv'
  BY DEF IInv, TypeOK, ServerInv, Collecting
<1> QED
  BY <1>1, <1>2, <1>3 DEF IInv

\* The steps of a scrape: a worker enters a collector that lives, and the one that
\* drops the last reference closes a server that was exporting.
LEMMA ServerPreserves ==
    ASSUME IInv, NEW e \in Ids, NEW w \in Workers,
           Accept(e, w) \/ ScrapeStep(e, w)
    PROVE  IInv'
<1>1. CASE Accept(e, w)
  BY <1>1, WorkerPreserves DEF Accept, WorkerStates
<1>2. CASE Scrape(e, w)
  <2>1. e \in collector => server[e] = "exporting"
    BY DEF IInv, ServerInv
  <2> QED
    BY <1>2, <2>1, WorkerPreserves DEF Scrape, WorkerStates
<1>3. CASE CollectReturns(e, w)
  BY <1>3, WorkerPreserves DEF CollectReturns, WorkerStates
<1>4. CASE Reply(e, w)
  BY <1>4, WorkerPreserves DEF Reply, WorkerStates
<1>5. CASE CollectDestroys(e, w)
  <2>1. /\ worker[e][w] = "collecting" /\ e \notin collector /\ ~ Held(e)
        /\ server' = [server EXCEPT ![e] = "closing"]
        /\ worker' = [worker EXCEPT ![e][w] = "reaping"]
        /\ UNCHANGED <<world, list, call, apiLock, nameOf, addrOf, collector>>
    BY <1>5 DEF CollectDestroys, WorkerAt, WorkerGoto
  <2>2. server[e] = "exporting" /\ \A v \in Workers \ {w} : worker[e][v] # "collecting"
    BY <2>1 DEF IInv, ServerInv, Collecting
  <2>3. \A t \in Threads :
           pc[t] \in {"start_probe", "start_bind", "start_collector", "stop_delete",
                      "stop_release", "stop_wait"} => cur[t] # e
    BY <2>1, <2>2 DEF IInv, Held, StartInv, StopInv
  <2>4. TypeOK' /\ LockInv' /\ VectorInv' /\ FreshInv'
    BY <2>1, <2>2 DEF IInv, TypeOK, ServerStates, WorkerStates, LockInv, VectorInv,
                      UniqueNames, Listed, FreshInv, world, list, call
  <2>5. StartInv' /\ StopInv'
    BY <2>1, <2>3 DEF IInv, TypeOK, StartInv, StopInv, Listed, list, call
  <2>6. ServerInv'
    BY <2>1, <2>2 DEF IInv, TypeOK, ServerInv, Collecting
  <2>7. ListedExportersWork'
    BY <2>1, <2>3 DEF IInv, TypeOK, ListedExportersWork, Listed, Starting, list, call
  <2> QED
    BY <2>4, <2>5, <2>6, <2>7 DEF IInv
<1> QED
  BY <1>1, <1>2, <1>3, <1>4, <1>5 DEF ScrapeStep

\* Other processes move no variable of the library.
LEMMA ForeignPreserves ==
    ASSUME IInv, ForeignBind \/ ForeignRelease
    PROVE  IInv'
<1>1. foreign' \subseteq ForeignAddresses
      /\ UNCHANGED <<list, call, exporters, config, undefined, apiLock>>
  BY DEF ForeignBind, ForeignRelease, IInv, TypeOK
<1> QED
  BY <1>1 DEF IInv, TypeOK, LockInv, VectorInv, UniqueNames, FreshInv, StartInv, StopInv,
              ServerInv, Collecting, ListedExportersWork, Listed, Starting,
              list, exporters, call

-----------------------------------------------------------------------------
\* The inductive step: whatever the steps and whatever the Contract.
LEMMA InvStep ==
    ASSUME IInv, [Next]_vars
    PROVE  IInv'
<1>1. CASE UNCHANGED vars
  BY <1>1 DEF IInv, TypeOK, LockInv, VectorInv, UniqueNames, FreshInv, StartInv, StopInv,
              ServerInv, Collecting, ListedExportersWork, Listed, Starting,
              vars, world, list, exporters, call
<1>2. CASE Next
  BY <1>2, InvocationPreserves, StartPreserves, StopPreserves, DeinitPreserves,
     RegisterPreserves, ServerPreserves, ForeignPreserves DEF Next, CallStep
<1> QED
  BY <1>1, <1>2

\* In every reachable state the lock, the vector, the counter, the references
\* and the servers agree as IInv says.
THEOREM InvariantHolds == Spec => []IInv
<1>1. Init => IInv
  BY InvInit
<1>2. IInv /\ [Next]_vars => IInv'
  BY InvStep
<1> QED
  BY <1>1, <1>2, PTL DEF Spec

\* Every variable keeps its type.
THEOREM TypeCorrect == Spec => []TypeOK
<1>1. IInv => TypeOK
  BY DEF IInv
<1> QED
  BY <1>1, InvariantHolds, PTL

\* No two exporters of the vector share a name (srtexp_start looks the name up
\* and pushes the exporter under one lock).
THEOREM NamesAreUnique == Spec => []UniqueNames
<1>1. IInv => UniqueNames
  BY DEF IInv, VectorInv
<1> QED
  BY <1>1, InvariantHolds, PTL

\* srtExp.back() and erase(end()) in srtexp_start mean the exporter of that very
\* call, and a stop deletes the exporter it found.
THEOREM CallsKeepExporters == Spec => []CallsKeepTheirExporter
<1>1. IInv => CallsKeepTheirExporter
  BY DEF IInv, StartInv, StopInv, CallsKeepTheirExporter
<1> QED
  BY <1>1, InvariantHolds, PTL

\* An exporter that a lookup can return has its collector and its http server,
\* but for the one whose start holds the lock.
THEOREM ListedWork == Spec => []ListedExportersWork
<1>1. IInv => ListedExportersWork
  BY DEF IInv
<1> QED
  BY <1>1, InvariantHolds, PTL

\* The steps that take an exporter out of the vector.
LEMMA RemovalStep ==
    ASSUME IInv, Next, NEW e \in Listed, e \notin Listed'
    PROVE  \E t \in Threads : StartFails(t) \/ DeleteSrtExporter(t) \/ DeinitPop(t)
<1>1. srtExp' # srtExp
  BY DEF Listed
<1>2. ASSUME NEW t \in Threads, StartCreates(t)
      PROVE  FALSE
  <2>1. count + 1 \in Ids /\ srtExp' = Append(srtExp, count + 1)
    BY <1>2, ApiAssumption DEF StartCreates, StartEnters, IInv, TypeOK, Ids
  <2> QED
    BY <2>1, PushBackFacts
<1>3. ASSUME NEW t \in Threads, Invocation(t)
      PROVE  FALSE
  BY <1>1, <1>3 DEF Invocation, CallStart, CallStop, CallRegister, CallDeinit, Call,
                    SrtExpInit, list
<1>4. ASSUME NEW t \in Threads, CallStep(t)
      PROVE  StartFails(t) \/ DeleteSrtExporter(t) \/ DeinitPop(t)
  BY <1>1, <1>2, <1>4, ProbeFacts
     DEF CallStep, StartStep, StopStep, DeinitStep, StartThrows, ExceptionEscapes,
         StartFinds, StartWithoutConfig, StartBinds, StartDone, StopFinds, StopNotFound,
         StopReleasesLast, StopReleasesShared, StopDone, DeinitCorrupts, DeinitEnds, DeinitDone,
         Register, list
<1>5. ASSUME NEW d \in Ids, NEW w \in Workers, Accept(d, w) \/ ScrapeStep(d, w)
      PROVE  FALSE
  BY <1>1, <1>5 DEF ScrapeStep, Accept, Scrape, CollectReturns, CollectDestroys, Reply,
                    WorkerGoto, list
<1>6. ~ (ForeignBind \/ ForeignRelease)
  BY <1>1 DEF ForeignBind, ForeignRelease, list
<1> QED
  BY <1>3, <1>4, <1>5, <1>6 DEF Next

\* A working exporter leaves the vector only by a stop that found it or by
\* deinit: the erase(end()) of a failing start takes nobody else.
THEOREM StartRemovesNobody == Spec => OnlyStopRemoves
<1> DEFINE Removed ==
        \A e \in Listed : e \notin Listed' /\ ~ Starting(e) =>
            \E t \in Threads :
                \/ pc[t] = "stop_delete" /\ cur[t] = e
                \/ pc[t] = "deinit"
<1>1. ASSUME IInv, Next
      PROVE  Removed
  <2> SUFFICES ASSUME NEW e \in Listed, e \notin Listed', ~ Starting(e)
               PROVE  \E t \in Threads :
                          \/ pc[t] = "stop_delete" /\ cur[t] = e
                          \/ pc[t] = "deinit"
    OBVIOUS
  <2>1. PICK t \in Threads : StartFails(t) \/ DeleteSrtExporter(t) \/ DeinitPop(t)
    BY <1>1, RemovalStep
  <2>2. CASE StartFails(t)
    <3>1. pc[t] = "start_bind" /\ srtExp # <<>> /\ Last(srtExp) = cur[t]
      BY <1>1, <2>2 DEF StartFails, At, IInv, StartInv
    <3>2. Listed' = Listed \ {cur[t]}
      BY <1>1, <2>2, <3>1, PopBackFacts DEF StartFails
    <3> QED
      BY <3>1, <3>2 DEF Starting
  <2>3. CASE DeleteSrtExporter(t)
    <3>1. pc[t] = "stop_delete" /\ cur[t] \in Listed /\ srtExp' = Erase(cur[t])
      BY <1>1, <2>3 DEF DeleteSrtExporter, At, IInv, StopInv
    <3>2. Listed' = Listed \ {cur[t]}
      BY <1>1, <3>1, StateFacts, EraseFacts DEF IInv, Listed
    <3> QED
      BY <3>1, <3>2
  <2>4. CASE DeinitPop(t)
    BY <2>4 DEF DeinitPop, At
  <2> QED
    BY <2>1, <2>2, <2>3, <2>4
<1>2. IInv /\ [Next]_vars => [Removed]_vars
  BY <1>1
<1>3. [][Removed]_vars => OnlyStopRemoves
  BY PTL DEF OnlyStopRemoves
<1> QED
  BY <1>2, <1>3, InvariantHolds, PTL DEF Spec

-----------------------------------------------------------------------------
(* An application that sequences init and deinit and stops its exporters   *)
(* before it calls deinit.                                                 *)

SafeContract == {"sequenced", "stop_first"} \subseteq Contract

\* The end of the vector is the exporter of the start that is under way.
LEMMA LastIsListed ==
    ASSUME IInv, NEW t \in Threads, pc[t] \in {"start_bind", "start_collector"}
    PROVE  cur[t] \in Listed /\ srtExp # <<>> /\ Last(srtExp) = cur[t]
<1>1. srtExp # <<>> /\ Last(srtExp) = cur[t]
  BY DEF IInv, StartInv
<1>2. cur[t] \in Listed
  BY <1>1, StateFacts, LastFacts, LenProperties DEF Listed, ToSet
<1> QED
  BY <1>1, <1>2

\* A step that moves no server, and no stop that found its exporter, forgets
\* no server.
LEMMA NothingForgotten ==
    ASSUME NoForgottenServer, Listed \subseteq Listed', UNCHANGED <<server, worker>>,
           \A u \in Threads : pc[u] \in {"stop_delete", "stop_release", "stop_wait"} =>
               pc'[u] = pc[u] /\ cur'[u] = cur[u]
    PROVE  NoForgottenServer'
BY DEF NoForgottenServer, Held

\* A call that the contract allows starts with a configuration, and srtexp_deinit
\* with an empty vector and no other call under way.
LEMMA SafeInvocation ==
    ASSUME SafeContract, IInv, SafeInv, NEW t \in Threads, Invocation(t)
    PROVE  SafeInv'
<1>1. UNCHANGED <<list, exporters>> /\ pc[t] = "idle"
  BY DEF Invocation, CallStart, CallStop, CallRegister, CallDeinit, Call, SrtExpInit, At, list
<1>2. \A u \in Others(t) : pc'[u] = pc[u] /\ cur'[u] = cur[u]
  BY DEF Invocation, CallStart, CallStop, CallRegister, CallDeinit, Call, Goto, SrtExpInit,
         IInv, TypeOK, Others, call
<1>3. NoForgottenServer' /\ (collector \subseteq Listed)'
  <2>1. Listed \subseteq Listed' /\ UNCHANGED <<server, worker>>
    BY <1>1 DEF list, exporters, Listed
  <2>2. \A u \in Threads : pc[u] \in {"stop_delete", "stop_release", "stop_wait"} =>
            pc'[u] = pc[u] /\ cur'[u] = cur[u]
    BY <1>1, <1>2 DEF Others
  <2> QED
    BY <1>1, <2>1, <2>2, NothingForgotten DEF SafeInv, list, exporters, Listed
<1>4. CASE CallStart(t) \/ CallStop(t) \/ CallRegister(t)
  <2>1. /\ config # NULL /\ \A u \in Others(t) : pc[u] \notin DeinitPcs
        /\ pc'[t] \notin DeinitPcs /\ UNCHANGED <<config, undefined>>
    BY <1>4 DEF CallStart, CallStop, CallRegister, MayCall, SafeContract, Call, Goto,
                IInv, TypeOK, world
  <2> QED
    BY <1>1, <1>2, <1>3, <2>1 DEF SafeInv, OtherwiseDefined, Others, list
<1>5. CASE CallDeinit(t)
  <2>1. /\ srtExp = <<>> /\ \A u \in Others(t) : pc[u] = "idle"
        /\ pc'[t] = "deinit" /\ UNCHANGED <<config, undefined>>
    BY <1>5 DEF CallDeinit, MayInitOrDeinit, SafeContract, Call, Goto, IInv, TypeOK, world
  <2> QED
    BY <1>1, <1>2, <1>3, <2>1 DEF SafeInv, OtherwiseDefined, Others, list
<1>6. CASE SrtExpInit(t)
  <2>1. UNCHANGED pc /\ \A u \in Threads : pc[u] = "idle"
    BY <1>1, <1>6 DEF SrtExpInit, MayInitOrDeinit, SafeContract, call, Others
  <2>2. ~ undefined'
    BY <1>6, <2>1 DEF SrtExpInit
  <2> QED
    BY <1>1, <1>3, <2>1, <2>2 DEF SafeInv, OtherwiseDefined
<1> QED
  BY <1>4, <1>5, <1>6 DEF Invocation

\* srtexp_start finds its configuration, and its exporter is listed whenever its
\* server is up.
LEMMA SafeStart ==
    ASSUME IInv, SafeInv, NEW t \in Threads, StartStep(t)
    PROVE  SafeInv'
<1> USE ApiAssumption
<1>1. /\ pc[t] \in {"start", "threw"} \cup StartingPcs /\ config # NULL
      /\ pc'[t] \notin DeinitPcs
      /\ \A u \in Others(t) : pc'[u] = pc[u] /\ cur'[u] = cur[u]
  BY ProbeFacts DEF StartStep, StartThrows, ExceptionEscapes, StartFinds, StartCreates, StartWithoutConfig,
         StartBinds, StartFails, StartDone, StartEnters, At, Return, Goto, IInv, TypeOK, Others,
         SafeInv, call
<1>2. UNCHANGED <<config, undefined>>
  BY <1>1, ProbeFacts DEF StartStep, StartThrows, ExceptionEscapes, StartFinds, StartCreates,
              StartWithoutConfig, StartBinds, StartFails, StartDone, world
<1>3. \A u \in Others(t) : pc'[u] \notin DeinitPcs
  BY <1>1 DEF SafeInv, Others
<1>4. collector' \subseteq Listed' /\ NoForgottenServer'
  <2>1. \A u \in Threads : pc[u] \in {"stop_delete", "stop_release", "stop_wait"} =>
            pc'[u] = pc[u] /\ cur'[u] = cur[u]
    BY <1>1 DEF Others
  <2>2. CASE StartThrows(t) \/ ExceptionEscapes(t) \/ StartFinds(t)
    <3>1. UNCHANGED <<srtExp, exporters>>
      BY <2>2 DEF StartThrows, ExceptionEscapes, StartFinds, list
    <3>2. Listed \subseteq Listed' /\ UNCHANGED <<server, worker>>
      BY <3>1 DEF exporters, Listed
    <3> QED
      BY <2>1, <3>1, <3>2, NothingForgotten DEF SafeInv, exporters
  <2>3. CASE StartCreates(t)
    <3>1. count + 1 \in Ids /\ srtExp' = Append(srtExp, count + 1)
      BY <2>3 DEF StartCreates, StartEnters, IInv, TypeOK, Ids
    <3>2. Listed \subseteq Listed' /\ UNCHANGED <<server, worker, collector>>
      BY <2>3, <3>1, PushBackFacts DEF StartCreates
    <3> QED
      BY <2>1, <3>2, NothingForgotten DEF SafeInv
  <2>4. CASE StartBinds(t) \/ StartDone(t)
    <3>1. cur[t] \in Listed /\ cur[t] \in Ids
      BY <2>4, LastIsListed, StateFacts DEF StartBinds, StartDone, At
    <3>2. /\ Listed' = Listed /\ UNCHANGED worker
          /\ collector' \subseteq collector \cup {cur[t]}
          /\ \E l \in ServerStates : server' = [server EXCEPT ![cur[t]] = l]
      BY <1>1, <2>4 DEF StartBinds, StartDone, ServerStates, list, Listed
    <3>3. \A e \in Ids \ {cur[t]} : server'[e] = server[e]
      BY <3>1, <3>2 DEF IInv, TypeOK
    <3> QED
      BY <2>1, <3>1, <3>2, <3>3 DEF SafeInv, NoForgottenServer, Held
  <2>5. CASE StartFails(t)
    <3>1. /\ pc[t] = "start_bind" /\ cur[t] \in Listed /\ server[cur[t]] = "none"
          /\ srtExp # <<>> /\ Last(srtExp) = cur[t] /\ srtExp' = Front(srtExp)
          /\ UNCHANGED exporters
      BY <2>5, LastIsListed DEF StartFails, At, IInv, StartInv
    <3>2. Listed' = Listed \ {cur[t]} /\ cur[t] \notin collector
      BY <3>1, PopBackFacts, StateFacts DEF IInv, ServerInv
    <3> QED
      BY <2>1, <3>1, <3>2 DEF SafeInv, NoForgottenServer, Held, exporters
  <2>6. CASE ProbeFinds(t) \/ ProbeRejects(t) \/ ProbeEnds(t)
    <3>1. Listed \subseteq Listed' /\ UNCHANGED <<server, worker, collector>>
      BY <2>6, ProbeFacts DEF Listed, list
    <3> QED
      BY <2>1, <3>1, NothingForgotten DEF SafeInv
  <2> QED
    BY <1>1, <2>2, <2>3, <2>4, <2>5, <2>6 DEF StartStep, StartWithoutConfig
<1> QED
  BY <1>1, <1>2, <1>3, <1>4 DEF SafeInv, OtherwiseDefined, Others

\* srtexp_stop takes the collector with the exporter; its server is led to by the
\* call, or by the scrape that still runs in the collector.
LEMMA SafeStop ==
    ASSUME IInv, SafeInv, NEW t \in Threads, StopStep(t)
    PROVE  SafeInv'
<1> USE ApiAssumption
<1>1. /\ pc[t] \in {"stop", "stop_delete", "stop_release", "stop_wait"} /\ config # NULL
      /\ pc'[t] \notin DeinitPcs
      /\ \A u \in Others(t) : pc'[u] = pc[u] /\ cur'[u] = cur[u]
      /\ UNCHANGED <<config, undefined, worker>>
  BY DEF StopStep, StopFinds, StopNotFound, DeleteSrtExporter, StopReleasesLast,
         StopReleasesShared, StopDone, At, Return, Goto, IInv, TypeOK, Others, SafeInv,
         world, exporters
<1>2. \A u \in Others(t) : pc'[u] \notin DeinitPcs /\ pc[u] \notin DeinitPcs
  BY <1>1 DEF SafeInv, Others
<1>3. \A u \in Others(t) :
         pc[t] # "stop" => pc[u] \notin {"stop_delete", "stop_release", "stop_wait"}
  BY <1>1, StateFacts DEF Others, LockedPcs
<1>4. collector' \subseteq Listed' /\ NoForgottenServer'
  <2>1. CASE StopFinds(t) \/ StopNotFound(t)
    <3>1. UNCHANGED <<list, exporters>> /\ pc[t] = "stop"
      BY <2>1 DEF StopFinds, StopNotFound, At
    <3>2. Listed \subseteq Listed' /\ UNCHANGED <<server, worker>>
      BY <3>1 DEF list, exporters, Listed
    <3>3. \A u \in Threads : pc[u] \in {"stop_delete", "stop_release", "stop_wait"} =>
              pc'[u] = pc[u] /\ cur'[u] = cur[u]
      BY <1>1, <3>1 DEF Others
    <3> QED
      BY <3>1, <3>2, <3>3, NothingForgotten DEF SafeInv, list, exporters, Listed
  <2>2. CASE DeleteSrtExporter(t)
    <3>1. /\ pc[t] = "stop_delete" /\ cur[t] \in Listed /\ srtExp' = Erase(cur[t])
          /\ pc'[t] = "stop_release" /\ cur' = cur
          /\ collector' = collector \ {cur[t]} /\ server' = server
      BY <2>2 DEF DeleteSrtExporter, At, Goto, IInv, StopInv, TypeOK
    <3>2. Listed' = Listed \ {cur[t]}
      BY <3>1, StateFacts, EraseFacts DEF IInv, Listed
    <3> QED
      BY <1>1, <1>3, <3>1, <3>2 DEF SafeInv, NoForgottenServer, Held, Others
  <2>3. CASE StopReleasesLast(t) \/ StopReleasesShared(t) \/ StopDone(t)
    <3>1. /\ pc[t] \in {"stop_release", "stop_wait"} /\ UNCHANGED <<list, collector>>
          /\ \A e \in Ids \ {cur[t]} : server'[e] = server[e]
      BY <2>3 DEF StopReleasesLast, StopReleasesShared, StopDone, At, exporters, IInv, TypeOK
    <3>2. \A e \in Ids \ {cur[t]} :
             server'[e] \in {"bound", "exporting", "closing"} =>
                 \/ e \in Listed
                 \/ \E w \in Workers : worker[e][w] \in {"collecting", "reaping"}
      BY <1>3, <3>1 DEF SafeInv, NoForgottenServer, Held, Others
    <3>3. \/ pc'[t] = "stop_wait" /\ cur'[t] = cur[t]
          \/ cur[t] \in collector \/ Collecting(cur[t])
          \/ server'[cur[t]] = "down"
      BY <2>3 DEF StopReleasesLast, StopReleasesShared, StopDone, CollectorLive, Goto,
                  IInv, TypeOK, StopInv, At
    <3>4. cur[t] \notin collector
      BY <3>1 DEF IInv, StopInv
    <3> QED
      BY <1>1, <3>1, <3>2, <3>3, <3>4
         DEF SafeInv, NoForgottenServer, Collecting, list, Listed
  <2> QED
    BY <2>1, <2>2, <2>3 DEF StopStep
<1> QED
  BY <1>1, <1>2, <1>4 DEF SafeInv, OtherwiseDefined, Others

\* srtexp_deinit has nothing to erase, and a registration finds a collector in
\* every exporter it can look up.
LEMMA SafeDeinitOrRegister ==
    ASSUME IInv, SafeInv, NEW t \in Threads, DeinitStep(t) \/ Register(t)
    PROVE  SafeInv'
<1> USE ApiAssumption
<1>1. pc[t] \in DeinitPcs => srtExp = <<>> /\ \A u \in Others(t) : pc[u] = "idle"
  BY DEF SafeInv
<1>2. CASE DeinitStep(t)
  <2>1. /\ pc[t] \in DeinitPcs /\ UNCHANGED <<list, exporters>>
        /\ \A u \in Others(t) : pc[u] = "idle" /\ pc'[u] = "idle"
        /\ pc'[t] \in {"idle", "deinit_config"}
    BY <1>1, <1>2 DEF DeinitStep, DeinitPop, DeinitCorrupts, DeinitEnds, DeinitDone, At, Return,
                      Goto, IInv, TypeOK, Others
  <2>2. ~ undefined'
    <3>1. CASE DeinitEnds(t)
      BY <3>1 DEF DeinitEnds, SafeInv, OtherwiseDefined, world
    <3>2. CASE DeinitDone(t)
      BY <2>1, <3>2 DEF DeinitDone, At, Others
    <3> QED
      BY <1>1, <1>2, <2>1, <3>1, <3>2 DEF DeinitStep, DeinitPop, DeinitCorrupts, At
  <2> QED
    BY <1>1, <2>1, <2>2 DEF SafeInv, OtherwiseDefined, NoForgottenServer, Held,
                            list, exporters, Listed, Others
<1>3. CASE Register(t)
  <2>1. /\ pc[t] = "register" /\ apiLock = NULL /\ UNCHANGED <<list, exporters, config>>
        /\ pc' = [pc EXCEPT ![t] = "idle"] /\ cur' = [cur EXCEPT ![t] = 0]
    BY <1>3 DEF Register, At, Return, Goto
  <2>2. ~ undefined'
    <3>1. \A e \in Listed : e \in collector
      BY <2>1, StateFacts DEF IInv, ListedExportersWork, Starting, LockedPcs
    <3> QED
      BY <1>3, <3>1 DEF Register, FindById
  <2> QED
    BY <2>1, <2>2 DEF SafeInv, OtherwiseDefined, NoForgottenServer, Held, IInv, TypeOK,
                      list, exporters, Listed, Others
<1> QED
  BY <1>2, <1>3

\* A worker that leaves a collector either leaves the exporter to the vector or to
\* a stop, or destroys it itself.
LEMMA SafeServer ==
    ASSUME IInv, SafeInv, NEW e \in Ids, NEW w \in Workers,
           Accept(e, w) \/ ScrapeStep(e, w)
    PROVE  SafeInv'
<1>1. /\ UNCHANGED <<world, list, call, collector>>
      /\ \E l \in WorkerStates : worker' = [worker EXCEPT ![e][w] = l]
  BY DEF ScrapeStep, Accept, Scrape, CollectReturns, CollectDestroys, Reply, WorkerGoto,
         WorkerStates
<1>2. \A d \in Ids \ {e} : server'[d] = server[d] /\ worker'[d] = worker[d]
  BY <1>1 DEF ScrapeStep, Accept, Scrape, CollectReturns, CollectDestroys, Reply, IInv, TypeOK
<1>3. \A v \in Workers \ {w} : worker'[e][v] = worker[e][v]
  BY <1>1 DEF IInv, TypeOK
<1>4. \/ CollectDestroys(e, w) /\ worker'[e][w] = "reaping"
      \/ UNCHANGED server /\ worker[e][w] \notin {"collecting", "reaping"}
      \/ UNCHANGED server /\ (e \in collector \/ Held(e))
  BY DEF ScrapeStep, Accept, Scrape, CollectReturns, CollectDestroys, Reply, WorkerAt,
         WorkerGoto, IInv, TypeOK
<1>5. NoForgottenServer'
  BY <1>1, <1>2, <1>3, <1>4 DEF SafeInv, NoForgottenServer, Held, list, call, Listed
<1> QED
  BY <1>1, <1>5 DEF SafeInv, OtherwiseDefined, Listed, Others, world, list, call

\* The inductive step under the contract.
LEMMA SafeStep ==
    ASSUME SafeContract, IInv, SafeInv, [Next]_vars
    PROVE  SafeInv'
<1>1. CASE UNCHANGED <<list, call, exporters, config, undefined>>
  BY <1>1 DEF SafeInv, OtherwiseDefined, NoForgottenServer, Held, Listed, Others,
              list, call, exporters
<1>2. CASE \E t \in Threads : Invocation(t) \/ CallStep(t)
  BY <1>2, SafeInvocation, SafeStart, SafeStop, SafeDeinitOrRegister DEF CallStep
<1>3. CASE \E e \in Ids, w \in Workers : Accept(e, w) \/ ScrapeStep(e, w)
  BY <1>3, SafeServer
<1> QED
  BY <1>1, <1>2, <1>3 DEF Next, ForeignBind, ForeignRelease, vars, world

\* The invariant of an application that keeps the two rules.
LEMMA SafeInvariant ==
    ASSUME SafeContract
    PROVE  Spec => []SafeInv
<1>1. Init => SafeInv
  BY EmptySeq DEF Init, SafeInv, OtherwiseDefined, NoForgottenServer
<1>2. IInv /\ SafeInv /\ [Next]_vars => SafeInv'
  BY SafeStep
<1> QED
  BY <1>1, <1>2, InvariantHolds, PTL DEF Spec

\* Such an application follows no null pointer in srtexp_start and the
\* registrations, and srtexp_deinit stays in the vector.  The erase(end()) of a start
\* that fails (srtexp_api.cpp:96), which C++ leaves undefined, is not counted.
THEOREM SafeUse ==
    ASSUME SafeContract
    PROVE  Spec => []OtherwiseDefined
<1>1. SafeInv => OtherwiseDefined
  BY DEF SafeInv
<1> QED
  BY <1>1, SafeInvariant, PTL

\* And every http server that is up is led to by the vector, a call or a scrape that
\* is under way: no shared_ptr cycle of exporter and collector is left behind.
THEOREM NothingIsForgotten ==
    ASSUME SafeContract
    PROVE  Spec => []NoForgottenServer
<1>1. SafeInv => NoForgottenServer
  BY DEF SafeInv
<1> QED
  BY <1>1, SafeInvariant, PTL

-----------------------------------------------------------------------------
(* SrtExpApi implements ExporterRegistry.                                   *)

Running == {[id |-> e, name |-> nameOf[e]] : e \in Listed \cap collector}
Issued == {e \in Ids : server[e] \in {"exporting", "closing", "down"}}
Up == {e \in Ids : server[e] \in {"exporting", "closing"}}

RegistryStep == [Registry!RegistryNext]_<<Running, Issued, Up>>

\* The steps of the registry, over the values the vector and the servers have.
LEMMA RegistryStart ==
    ASSUME NEW e \in Ids, NEW n \in NameValues,
           \A i \in Issued : i < e,
           \A r \in Running : r.name # n,
           Running' = Running \cup {[id |-> e, name |-> n]},
           Issued' = Issued \cup {e}, Up' = Up \cup {e}
    PROVE  RegistryStep
BY DEF RegistryStep, Running, Issued, Up, Registry!RegistryNext, Registry!Start

\* Stop, in the same way.
LEMMA RegistryStop ==
    ASSUME NEW r \in Running, Running' = Running \ {r}, UNCHANGED <<Issued, Up>>
    PROVE  RegistryStep
BY DEF RegistryStep, Running, Issued, Up, Registry!RegistryNext, Registry!Stop

\* GoDown, of a server that is up while its exporter does not run.
LEMMA RegistryGoDown ==
    ASSUME NEW e \in Up, \A r \in Running : r.id # e,
           UNCHANGED <<Running, Issued>>, Up' = Up \ {e}
    PROVE  RegistryStep
BY DEF RegistryStep, Running, Issued, Up, Registry!RegistryNext, Registry!GoDown,
       Registry!RunningIds

\* An exporter that leaves the vector with its collector ends; if its start had
\* not created the collector, nobody saw it.
LEMMA RegistryRemoval ==
    ASSUME NEW e \in Listed, UNCHANGED <<nameOf, server>>,
           Listed' \cap collector' = (Listed \cap collector) \ {e}
    PROVE  RegistryStep
<1> DEFINE r == [id |-> e, name |-> nameOf[e]]
<1>1. UNCHANGED <<Issued, Up>>
  BY DEF Issued, Up
<1>2. Running' = Running \ {r}
  BY DEF Running
<1>3. CASE r \in Running
  BY <1>1, <1>2, <1>3, RegistryStop
<1>4. CASE r \notin Running
  BY <1>1, <1>2, <1>4 DEF RegistryStep
<1> QED
  BY <1>3, <1>4

\* What the registry does not see: an exporter that is in the vector without its
\* collector, a server that is bound but does not export, one that is closing.
LEMMA RegistryStutter ==
    ASSUME Listed' \cap collector' = Listed \cap collector,
           \A e \in Listed \cap collector : nameOf'[e] = nameOf[e],
           \A e \in Ids : server'[e] = server[e]
               \/ {server[e], server'[e]} \subseteq {"none", "bound"}
               \/ {server[e], server'[e]} \subseteq {"exporting", "closing"}
    PROVE  RegistryStep
<1>1. UNCHANGED <<Issued, Up>>
  BY DEF Issued, Up
<1>2. UNCHANGED Running
  BY DEF Running
<1> QED
  BY <1>1, <1>2 DEF RegistryStep

\* srtexp_start starts an exporter of the registry in its last step, when the
\* collector is registered; its other steps are not seen.
LEMMA StartImplements ==
    ASSUME IInv, NEW t \in Threads, StartStep(t)
    PROVE  RegistryStep
<1> USE ApiAssumption
<1>1. CASE StartCreates(t)
  <2>1. count + 1 \in Ids /\ srtExp' = Append(srtExp, count + 1) /\ count' = count + 1
    BY <1>1 DEF StartCreates, StartEnters, IInv, TypeOK, Ids
  <2>2. Listed' = Listed \cup {count + 1}
    BY <2>1, PushBackFacts
  <2>3. count + 1 \notin collector
    <3>1. count + 1 > count
      BY DEF IInv, TypeOK
    <3>2. server[count + 1] = "none"
      BY <2>1, <3>1 DEF IInv, FreshInv
    <3> QED
      BY <2>1, <3>2 DEF IInv, ServerInv
  <2>4. UNCHANGED <<server, collector>> /\ \A e \in Ids \ {count + 1} : nameOf'[e] = nameOf[e]
    BY <1>1, <2>1 DEF StartCreates, IInv, TypeOK
  <2>5. \A e \in Listed \cap collector : nameOf'[e] = nameOf[e]
    BY <2>3, <2>4, StateFacts
  <2> QED
    BY <2>2, <2>3, <2>4, <2>5, RegistryStutter
<1>2. CASE StartBinds(t)
  <2>1. UNCHANGED <<srtExp, nameOf, collector>> /\ server[cur[t]] = "none"
        /\ server' = [server EXCEPT ![cur[t]] = "bound"]
    BY <1>2 DEF StartBinds, At, IInv, StartInv, list
  <2>2. \A e \in Ids : server'[e] = server[e]
            \/ {server[e], server'[e]} \subseteq {"none", "bound"}
    BY <2>1 DEF IInv, TypeOK
  <2> QED
    BY <2>1, <2>2, RegistryStutter DEF Listed
<1>3. CASE StartFails(t)
  <2>1. /\ pc[t] = "start_bind" /\ srtExp' = Front(srtExp) /\ UNCHANGED exporters
        /\ cur[t] \in Listed /\ srtExp # <<>> /\ Last(srtExp) = cur[t]
    BY <1>3, LastIsListed DEF StartFails, At
  <2>2. Listed' = Listed \ {cur[t]}
    BY <2>1, PopBackFacts
  <2> QED
    BY <2>1, <2>2, RegistryRemoval DEF exporters
<1>4. CASE StartDone(t) /\ config # NULL
  <2> DEFINE e == cur[t]
  <2>1. /\ pc[t] = "start_collector" /\ UNCHANGED <<srtExp, nameOf>>
        /\ collector' = collector \cup {e}
        /\ server' = [server EXCEPT ![e] = "exporting"]
        /\ server[e] = "bound" /\ e = count
    BY <1>4 DEF StartDone, At, IInv, StartInv, list
  <2>2. e \in Listed /\ e \in Ids
    BY <2>1, LastIsListed, StateFacts
  <2>3. nameOf[e] \in NameValues
    BY <2>2 DEF IInv, TypeOK, VectorInv
  <2>4. \A i \in Issued : i < e
    <3> SUFFICES ASSUME NEW i \in Issued PROVE i < e
      OBVIOUS
    <3>1. i \in Ids /\ server[i] \notin {"none", "bound"}
      BY DEF Issued
    <3>2. ~ (i > count)
      BY <3>1 DEF IInv, FreshInv
    <3>3. i # e
      BY <2>1, <3>1
    <3>4. i \in Int /\ e \in Int /\ count \in Int
      BY <2>2, <3>1 DEF IInv, TypeOK, Ids
    <3> HIDE DEF e
    <3> QED
      BY <2>1, <3>2, <3>3, <3>4
  <2>5. e \notin collector
    BY <2>1, <2>2 DEF IInv, ServerInv
  <2>6. \A r \in Running : r.name # nameOf[e]
    BY <2>2, <2>5 DEF Running, IInv, VectorInv, UniqueNames
  <2>7. Running' = Running \cup {[id |-> e, name |-> nameOf[e]]}
    BY <2>1, <2>2 DEF Running, Listed
  <2>8. Issued' = Issued \cup {e} /\ Up' = Up \cup {e}
    BY <2>1, <2>2 DEF Issued, Up, IInv, TypeOK
  <2> HIDE DEF e
  <2> QED
    BY <2>2, <2>3, <2>4, <2>6, <2>7, <2>8, RegistryStart
<1>5. ASSUME UNCHANGED <<srtExp, nameOf, collector, server>>
      PROVE  RegistryStep
  BY <1>5, RegistryStutter DEF Listed
<1> QED
  BY <1>1, <1>2, <1>3, <1>4, <1>5, ProbeFacts
     DEF StartStep, StartThrows, ExceptionEscapes, StartFinds, StartWithoutConfig, StartDone,
         list, exporters

\* srtexp_stop stops the exporter of the registry when it erases it, and takes its
\* server down when the workers are joined.
LEMMA StopImplements ==
    ASSUME IInv, NEW t \in Threads, StopStep(t)
    PROVE  RegistryStep
<1> USE ApiAssumption
<1>1. CASE DeleteSrtExporter(t)
  <2>1. /\ cur[t] \in Listed /\ srtExp' = Erase(cur[t])
        /\ collector' = collector \ {cur[t]} /\ UNCHANGED <<nameOf, server>>
    BY <1>1 DEF DeleteSrtExporter, At, IInv, StopInv
  <2>2. Listed' = Listed \ {cur[t]}
    BY <2>1, StateFacts, EraseFacts DEF IInv, Listed
  <2> QED
    BY <2>1, <2>2, RegistryRemoval
<1>2. CASE StopReleasesLast(t)
  <2>1. /\ cur[t] \in Ids /\ server[cur[t]] = "exporting"
        /\ server' = [server EXCEPT ![cur[t]] = "closing"]
        /\ UNCHANGED <<srtExp, nameOf, collector>>
    BY <1>2 DEF StopReleasesLast, At, IInv, StopInv, list
  <2>2. \A e \in Ids : server'[e] = server[e]
            \/ {server[e], server'[e]} \subseteq {"exporting", "closing"}
    BY <2>1 DEF IInv, TypeOK
  <2> QED
    BY <2>1, <2>2, RegistryStutter DEF Listed
<1>3. CASE StopDone(t)
  <2> DEFINE e == cur[t]
  <2>1. /\ e \in Ids \ (Listed \cup collector) /\ server[e] = "closing"
        /\ server' = [server EXCEPT ![e] = "down"]
        /\ UNCHANGED <<srtExp, nameOf, collector>>
    BY <1>3 DEF StopDone, At, IInv, StopInv, list
  <2>2. UNCHANGED <<Running, Issued>> /\ Up' = Up \ {e} /\ e \in Up
    BY <2>1 DEF Running, Listed, Issued, Up, IInv, TypeOK
  <2>3. \A r \in Running : r.id # e
    BY <2>1 DEF Running
  <2> HIDE DEF e
  <2> QED
    BY <2>2, <2>3, RegistryGoDown
<1>4. ASSUME UNCHANGED <<srtExp, nameOf, collector, server>>
      PROVE  RegistryStep
  BY <1>4, RegistryStutter DEF Listed
<1> QED
  BY <1>1, <1>2, <1>3, <1>4
     DEF StopStep, StopFinds, StopNotFound, StopReleasesShared, list, exporters

\* srtexp_deinit stops one exporter of the registry with each erase.
LEMMA DeinitImplements ==
    ASSUME IInv, NEW t \in Threads, DeinitStep(t)
    PROVE  RegistryStep
<1> USE ApiAssumption
<1>1. CASE DeinitPop(t)
  <2>1. /\ srtExp # <<>> /\ srtExp' = Front(srtExp) /\ UNCHANGED exporters
    BY <1>1 DEF DeinitPop
  <2>2. Last(srtExp) \in Listed
    BY <2>1, StateFacts, LastFacts, LenProperties DEF Listed, ToSet
  <2>3. Listed' = Listed \ {Last(srtExp)}
    BY <2>1, PopBackFacts
  <2> QED
    BY <2>1, <2>2, <2>3, RegistryRemoval DEF exporters
<1>2. ASSUME UNCHANGED <<srtExp, nameOf, collector, server>>
      PROVE  RegistryStep
  BY <1>2, RegistryStutter DEF Listed
<1> QED
  BY <1>1, <1>2 DEF DeinitStep, DeinitCorrupts, DeinitEnds, DeinitDone, list, exporters

\* Every step of the library is a step of the registry or is not seen by it.
LEMMA NextImplements ==
    ASSUME IInv, [Next]_vars
    PROVE  RegistryStep
<1> USE ApiAssumption
<1>1. ASSUME UNCHANGED <<srtExp, nameOf, collector, server>>
      PROVE  RegistryStep
  BY <1>1, RegistryStutter DEF Listed
<1>2. ASSUME NEW t \in Threads, Invocation(t)
      PROVE  RegistryStep
  BY <1>1, <1>2 DEF Invocation, CallStart, CallStop, CallRegister, CallDeinit, SrtExpInit,
                    Call, list, exporters
<1>3. ASSUME NEW t \in Threads, CallStep(t)
      PROVE  RegistryStep
  <2>1. CASE Register(t)
    BY <1>1, <2>1 DEF Register, list, exporters
  <2> QED
    BY <1>3, <2>1, StartImplements, StopImplements, DeinitImplements DEF CallStep
<1>4. ASSUME NEW e \in Ids, NEW w \in Workers, Accept(e, w) \/ ScrapeStep(e, w)
      PROVE  RegistryStep
  <2>1. CASE CollectDestroys(e, w)
    <3>1. /\ server[e] = "exporting" /\ server' = [server EXCEPT ![e] = "closing"]
          /\ UNCHANGED <<srtExp, nameOf, collector>>
      BY <2>1 DEF CollectDestroys, WorkerAt, WorkerGoto, Collecting, IInv, ServerInv, list
    <3>2. \A d \in Ids : server'[d] = server[d]
              \/ {server[d], server'[d]} \subseteq {"exporting", "closing"}
      BY <3>1 DEF IInv, TypeOK
    <3> QED
      BY <3>1, <3>2, RegistryStutter DEF Listed
  <2> QED
    BY <1>1, <1>4, <2>1 DEF Accept, ScrapeStep, Scrape, CollectReturns, Reply, WorkerGoto, list
<1>5. CASE ForeignBind \/ ForeignRelease
  BY <1>1, <1>5 DEF ForeignBind, ForeignRelease, list, exporters
<1>6. CASE UNCHANGED vars
  BY <1>1, <1>6 DEF vars, list, exporters
<1> QED
  BY <1>2, <1>3, <1>4, <1>5, <1>6 DEF Next

\* The API promises what ExporterRegistry says, whatever its callers do: a
\* start adds one exporter of a new id and a new name, a stop ends one and no
\* other, and a server goes down only after its stop.
THEOREM Refines == Spec => ImplementsRegistry
<1>1. Init => Registry!RegistryInit
  BY DEF Init, Registry!RegistryInit, Listed, ToSet
<1>2. IInv /\ [Next]_vars => [Registry!RegistryNext]_(Registry!registryVars)
  BY NextImplements DEF RegistryStep, Registry!registryVars, Running, Issued, Up
<1> QED
  BY <1>1, <1>2, InvariantHolds, PTL DEF Spec, ImplementsRegistry, Registry!RegistrySpec

-----------------------------------------------------------------------------
(* The search for a port                                                   *)

\* The legal range of ports that the documentation asks for, and the exporters
\* that are given no port listen on the ip of all: the search probes that one.
ProbedAlike ==
    \A cfg \in Configs :
        /\ cfg.portMin >= 1 /\ cfg.portMax <= MaxPort
        /\ \A i \in DOMAIN cfg.objects :
              cfg.objects[i].port = 0 => cfg.objects[i].ip \in {NULL, cfg.ip}

\* Then the search starts at the first port, on the ip it probes.
LEMMA ProbedAddress ==
    ASSUME ProbedAlike, NEW cfg \in Configs, NEW name, ~ HasOwnPort(cfg, name)
    PROVE  GetServerIp(cfg, name) = cfg.ip /\ FirstPort(cfg, name) = cfg.portMin
<1> DEFINE I == {j \in 1 .. Len(cfg.objects) : cfg.objects[j].name = name}
           i == FindSrtExpObjConfig(cfg, name)
<1>1. i = IF I # {} THEN Min(I) ELSE 0
  BY DEF FindSrtExpObjConfig, SelectInSeq
<1>2. cfg.objects \in Seq(ObjConfig) /\ DOMAIN cfg.objects = 1 .. Len(cfg.objects)
  BY ApiAssumption, LenProperties DEF ConfigType
<1>3. I # {} => Min(I) \in I
  <2>1. I \in SUBSET (1 .. Len(cfg.objects))
    OBVIOUS
  <2> QED
    BY <1>2, <2>1, FirstMatch
<1>4. i # 0 => i \in DOMAIN cfg.objects
  BY <1>1, <1>2, <1>3
<1> HIDE DEF I, i
<1>5. i # 0 => cfg.objects[i].port = 0
  BY DEF HasOwnPort, i
<1>6. i # 0 => cfg.objects[i].ip \in {NULL, cfg.ip}
  BY <1>4, <1>5 DEF ProbedAlike
<1> QED
  BY <1>6 DEF GetServerIp, FirstPort, i

\* While a start searches or is about to bind, all other steps leave its address
\* to it, its configuration and the library's own servers as they are: whatever
\* would change them waits for the lock, or for the call.
LEMMA WhileItSearches ==
    ASSUME "sequenced" \in Contract, IInv, PortInv, Next,
           NEW t \in Threads, pc[t] \in {"start_probe", "start_bind"}
    PROVE  \/ ProbeFinds(t) \/ ProbeRejects(t) \/ ProbeEnds(t) \/ StartBinds(t) \/ StartFails(t)
           \/ /\ UNCHANGED <<config, addrOf, OwnAddresses>>
              /\ pc'[t] = pc[t] /\ cur'[t] = cur[t] /\ arg'[t] = arg[t]
<1> DEFINE Keeps == /\ UNCHANGED <<config, addrOf, server>>
                    /\ pc'[t] = pc[t] /\ cur'[t] = cur[t] /\ arg'[t] = arg[t]
<1>1. apiLock = t /\ apiLock # NULL /\ srtExp # <<>>
  BY ApiAssumption DEF IInv, LockInv, StartInv, StartingPcs, LockedPcs
<1>2. \A u \in Others(t) : pc[u] \notin LockedPcs
  BY StateFacts DEF Others, LockedPcs
<1>3. \A u \in Others(t) : pc[u] \notin DeinitPcs
  BY DEF PortInv, Others
<1>4. CASE \E u \in Threads : Invocation(u)
  <2>1. PICK u \in Threads : Invocation(u)
    BY <1>4
  <2>2. pc[u] = "idle" /\ u # t
    BY <2>1 DEF Invocation, CallStart, CallStop, CallRegister, CallDeinit, Call, SrtExpInit, At
  <2>3. ~ SrtExpInit(u)
    BY <2>2 DEF SrtExpInit, MayInitOrDeinit, Others
  <2>4. UNCHANGED <<config, addrOf, server>> /\ \A v \in Others(u) :
            pc'[v] = pc[v] /\ cur'[v] = cur[v] /\ arg'[v] = arg[v]
    BY <2>1, <2>3 DEF Invocation, CallStart, CallStop, CallRegister, CallDeinit, Call, Goto,
                      IInv, TypeOK, Others, world, exporters
  <2>5. Keeps
    BY <2>2, <2>4 DEF Others
  <2> QED
    BY <2>5 DEF OwnAddresses
<1>5. CASE \E u \in Others(t) : CallStep(u)
  <2>1. PICK u \in Others(t) : CallStep(u)
    BY <1>5
  <2>2. pc[u] \notin LockedPcs /\ pc[u] \notin DeinitPcs /\ u # t /\ u \in Threads
    BY <1>2, <1>3, <2>1 DEF Others
  <2>3. ExceptionEscapes(u)
    BY <1>1, <2>1, <2>2, ProbeFacts
       DEF CallStep, StartStep, StartThrows, StartFinds, StartCreates, StartWithoutConfig,
           StartEnters, StartBinds, StartFails, StartDone, StopStep, StopFinds, StopNotFound,
           DeleteSrtExporter, StopReleasesLast, StopReleasesShared, StopDone, DeinitStep,
           DeinitPop, DeinitCorrupts, DeinitEnds, DeinitDone, Register, At, LockedPcs
  <2>4. Keeps
    BY <2>2, <2>3 DEF ExceptionEscapes, Return, Goto, IInv, TypeOK, world, exporters
  <2> QED
    BY <2>4 DEF OwnAddresses
<1>6. CASE CallStep(t)
  BY <1>6, <1>1 DEF CallStep, StartStep, StartThrows, StartFinds, StartCreates, StartWithoutConfig,
           StartEnters, StartDone, ExceptionEscapes, StopStep, StopFinds, StopNotFound,
           DeleteSrtExporter, StopReleasesLast, StopReleasesShared, StopDone, DeinitStep,
           DeinitPop, DeinitCorrupts, DeinitEnds, DeinitDone, Register, At
<1>7. CASE \E e \in Ids, w \in Workers : Accept(e, w) \/ ScrapeStep(e, w)
  <2>1. PICK e \in Ids, w \in Workers : Accept(e, w) \/ ScrapeStep(e, w)
    BY <1>7
  <2>2. UNCHANGED <<config, addrOf, pc, cur, arg>>
    BY <2>1 DEF Accept, ScrapeStep, Scrape, CollectReturns, CollectDestroys, Reply, WorkerGoto,
                world, call
  <2>3. UNCHANGED server \/ (server[e] = "exporting" /\ server' = [server EXCEPT ![e] = "closing"])
    BY <2>1 DEF Accept, ScrapeStep, Scrape, CollectReturns, CollectDestroys, Reply, WorkerAt,
                Collecting, IInv, ServerInv
  <2>4. {x \in Ids : server[x] \in {"bound", "exporting", "closing"}}' =
            {x \in Ids : server[x] \in {"bound", "exporting", "closing"}}
    BY <2>1, <2>3 DEF IInv, TypeOK
  <2> QED
    BY <2>2, <2>4 DEF OwnAddresses
<1>8. CASE ForeignBind \/ ForeignRelease
  <2>1. Keeps
    BY <1>8 DEF ForeignBind, ForeignRelease, call, exporters
  <2> QED
    BY <2>1 DEF OwnAddresses
<1> QED
  BY <1>4, <1>5, <1>6, <1>7, <1>8 DEF Next, Others

\* A number that is not above the modulus is its own remainder.
LEMMA SmallRemainder ==
    ASSUME NEW m \in Nat, NEW p \in 1 .. m
    PROVE  p % (m + 1) = p /\ p # 0
OBVIOUS

\* The last port is a number; the lemma spares the provers the interval before it.
LEMMA MaxPortNat == MaxPort \in Nat
  BY DEF MaxPort

\* A port that htons keeps as it is, the http server takes.
LEMMA LegalPort ==
    ASSUME NEW ip, NEW port \in 1 .. MaxPort, NEW taken
    PROVE  /\ IsPortAvailable(ip, port, taken) <=>
                 CanBind([ip |-> ip, port |-> port], taken)
           /\ ExposerStarts([ip |-> ip, port |-> port], taken) <=>
                 CanBind([ip |-> ip, port |-> port], taken)
<1>1. MaxPort \in Nat
  BY MaxPortNat
<1>2. port % (MaxPort + 1) = port /\ port # 0
  BY <1>1, SmallRemainder
<1> QED
  BY <1>2 DEF IsPortAvailable, ExposerStarts, CanBind

\* More addresses in use can only stop a server by their own.
LEMMA MoreInUse ==
    ASSUME NEW a, NEW taken, NEW more
    PROVE  /\ ExposerStarts(a, taken \cup more) => ExposerStarts(a, taken)
           /\ ExposerStarts(a, taken) /\ ~ ExposerStarts(a, taken \cup more) =>
                 \E b \in more : Conflicts(a, b)
BY DEF ExposerStarts, CanBind

\* What a search works on: the address of its exporter, with the probe's ip.
LEMMA SearchFacts ==
    ASSUME ProbedAlike, IInv, PortInv, NEW t \in Threads, pc[t] = "start_probe"
    PROVE  /\ config \in Configs /\ config.portMin \in Nat /\ config.portMin >= 1
           /\ config.portMax \in Nat
           /\ Probed(t) <= config.portMax => Probed(t) \in 1 .. MaxPort
           /\ cur[t] \in Ids /\ addrOf[cur[t]] \in Address /\ server[cur[t]] = "none"
           /\ addrOf[cur[t]].ip = config.ip /\ Probed(t) \in Int /\ Probed(t) >= config.portMin
           /\ addrOf[cur[t]] = [ip |-> config.ip, port |-> Probed(t)]
<1>1. cur[t] \in Ids /\ addrOf[cur[t]] # NULL /\ server[cur[t]] = "none"
  <2>1. cur[t] = Last(srtExp) /\ srtExp # <<>> /\ addrOf[cur[t]] # NULL /\ server[cur[t]] = "none"
    BY DEF IInv, StartInv, StartingPcs
  <2>2. cur[t] \in Ids
    BY <2>1, StateFacts, LastFacts
  <2> QED
    BY <2>1, <2>2
<1>2. config \in Configs
  BY DEF PortInv, IInv, TypeOK
<1>3. addrOf[cur[t]] \in Address
  BY <1>1 DEF IInv, TypeOK
<1>4. addrOf[cur[t]].ip = config.ip /\ Probed(t) >= config.portMin
  BY DEF PortInv, Probed
<1>5. MaxPort \in Nat
  BY MaxPortNat
<1> QED
  BY <1>1, <1>2, <1>3, <1>4, <1>5, ApiAssumption DEF ConfigType, Address, Probed, ProbedAlike

\* The search goes one port on, or ends.
LEMMA PortProbe ==
    ASSUME ProbedAlike, IInv, PortInv, NEW t \in Threads,
           ProbeFinds(t) \/ ProbeRejects(t) \/ ProbeEnds(t)
    PROVE  PortInv'
<1> DEFINE a == addrOf[cur[t]]
           ip == config.ip
<1>1. pc[t] = "start_probe"
  BY ProbeFacts
<1>2. /\ config \in Configs /\ config.portMin \in Nat /\ config.portMin >= 1
      /\ config.portMax \in Nat
      /\ Probed(t) <= config.portMax => Probed(t) \in 1 .. MaxPort
      /\ cur[t] \in Ids /\ addrOf[cur[t]] \in Address /\ server[cur[t]] = "none"
      /\ addrOf[cur[t]].ip = config.ip /\ Probed(t) \in Int /\ Probed(t) >= config.portMin
      /\ addrOf[cur[t]] = [ip |-> config.ip, port |-> Probed(t)]
  BY <1>1, SearchFacts
<1>3. \A u \in Others(t) : /\ pc[u] \notin {"start_probe", "start_bind"} \cup DeinitPcs
                           /\ pc'[u] = pc[u]
  <2>1. \A u \in Others(t) : pc[u] \notin {"start_probe", "start_bind"}
    BY <1>1, StateFacts DEF Others, LockedPcs
  <2>2. \A u \in Others(t) : pc[u] \notin DeinitPcs
    BY <1>1 DEF PortInv, Others
  <2>3. PICK next \in {"start_probe", "start_bind"} : pc' = [pc EXCEPT ![t] = next]
    BY ProbeFacts
  <2>4. \A u \in Others(t) : pc'[u] = pc[u]
    BY <2>3 DEF Others, IInv, TypeOK
  <2> QED
    BY <2>1, <2>2, <2>4
<1>4. UNCHANGED <<config, server, cur, arg>> /\ config # NULL
  BY <1>1, ProbeFacts DEF world, PortInv
<1>5. ASSUME NEW port \in Int, addrOf' = [addrOf EXCEPT ![cur[t]].port = port]
      PROVE  /\ OwnAddresses' = OwnAddresses
             /\ addrOf'[cur[t]] = [ip |-> ip, port |-> port]
  <2>1. addrOf \in [Ids -> Address \cup {NULL}]
    BY DEF IInv, TypeOK
  <2>2. \A e \in Ids : server[e] # "none" => addrOf'[e] = addrOf[e]
    BY <1>2, <1>5, <2>1
  <2>3. OwnAddresses' = OwnAddresses
    BY <1>4, <2>2 DEF OwnAddresses
  <2>4. addrOf'[cur[t]] = [addrOf[cur[t]] EXCEPT !.port = port]
    BY <1>2, <1>5, <2>1
  <2> QED
    BY <1>2, <2>3, <2>4
<1>6. CASE ProbeFinds(t)
  <2>1. /\ addrOf' = [addrOf EXCEPT ![cur[t]].port = Probed(t)]
        /\ pc'[t] = "start_bind" /\ Probed(t) <= config.portMax
        /\ IsPortAvailable(ip, Probed(t), InUse)
    BY <1>6 DEF ProbeFinds, ProbeGoto, Goto, IInv, TypeOK
  <2>2. OwnAddresses' = OwnAddresses /\ addrOf'[cur[t]] = [ip |-> ip, port |-> Probed(t)]
    BY <1>2, <1>5, <2>1
  <2>3. Probed(t) \in 1 .. MaxPort
    BY <1>2, <2>1
  <2>4. CanBind([ip |-> ip, port |-> Probed(t)], InUse)
    BY <2>1, <2>3, LegalPort
  <2>5. ExposerStarts([ip |-> ip, port |-> Probed(t)], OwnAddresses)
    BY <2>3, <2>4, LegalPort, MoreInUse DEF InUse
  <2> QED
    BY <1>3, <1>4, <2>1, <2>2, <2>5 DEF PortInv, Others
<1>7. CASE ProbeRejects(t)
  <2>1. /\ addrOf' = [addrOf EXCEPT ![cur[t]].port = Probed(t) + 1]
        /\ pc'[t] = "start_probe" /\ Probed(t) <= config.portMax
        /\ ~ IsPortAvailable(ip, Probed(t), InUse)
    BY <1>7 DEF ProbeRejects, ProbeGoto, Goto, IInv, TypeOK
  <2>2. OwnAddresses' = OwnAddresses /\ addrOf'[cur[t]] = [ip |-> ip, port |-> Probed(t) + 1]
    <3>1. Probed(t) + 1 \in Int
      BY <1>2
    <3> QED
      BY <1>5, <2>1, <3>1
  <2>3. Probed(t) \in 1 .. MaxPort
    BY <1>2, <2>1
  <2>4. ~ CanBind([ip |-> ip, port |-> Probed(t)], InUse)
    BY <2>1, <2>3, LegalPort
  <2>5. Taken([ip |-> ip, port |-> Probed(t)])
    BY <2>4 DEF Taken, CanBind, InUse, IInv, TypeOK
  <2>6. \A p \in config.portMin .. Probed(t) - 1 : Taken([ip |-> ip, port |-> p])
    BY <1>1, <1>2 DEF PortInv, Probed
  <2>7. \A p \in config.portMin .. Probed(t) + 1 - 1 : Taken([ip |-> ip, port |-> p])
    BY <1>2, <2>5, <2>6
  <2>8. /\ addrOf'[cur[t]].ip = ip /\ addrOf'[cur[t]].port = Probed(t) + 1
        /\ Probed(t) + 1 >= config.portMin
    BY <1>2, <2>2
  <2>9. addrOf'[cur[t]].ip = config.ip /\ addrOf'[cur[t]].port >= config.portMin
        /\ \A p \in config.portMin .. addrOf'[cur[t]].port - 1 :
              \/ addrOf'[cur[t]].ip \notin LocalIps
              \/ \E b \in OwnAddresses \cup ForeignAddresses :
                    Conflicts([ip |-> addrOf'[cur[t]].ip, port |-> p], b)
    <3>1. ASSUME NEW p \in config.portMin .. addrOf'[cur[t]].port - 1
          PROVE  \/ addrOf'[cur[t]].ip \notin LocalIps
                 \/ \E b \in OwnAddresses \cup ForeignAddresses :
                       Conflicts([ip |-> addrOf'[cur[t]].ip, port |-> p], b)
      <4>1. p \in config.portMin .. Probed(t) + 1 - 1 /\ addrOf'[cur[t]].ip = ip
        <5>1. addrOf'[cur[t]].port - 1 = Probed(t) + 1 - 1
          BY <1>2, <2>8
        <5> HIDE DEF ip
        <5> QED
          BY <2>8, <5>1
      <4>2. Taken([ip |-> ip, port |-> p])
        BY <2>7, <4>1
      <4> QED
        BY <4>1, <4>2 DEF Taken
    <3> QED
      BY <2>8, <3>1
  <2> QED
    BY <1>3, <1>4, <2>1, <2>2, <2>9 DEF PortInv, Others, Taken
<1>8. CASE ProbeEnds(t)
  <2>1. addrOf' = [addrOf EXCEPT ![cur[t]].port = -1] /\ pc'[t] = "start_bind"
    BY <1>8 DEF ProbeEnds, ProbeGoto, Goto, IInv, TypeOK
  <2>2. addrOf'[cur[t]] = [ip |-> ip, port |-> -1]
    <3>1. -1 \in Int
      OBVIOUS
    <3> QED
      BY <1>5, <2>1, <3>1
  <2> QED
    BY <1>3, <1>4, <2>1, <2>2 DEF PortInv, Others
<1> QED
  BY <1>6, <1>7, <1>8

\* A start that got past the lock has an address to search from; nobody else is
\* in a search.
LEMMA PortCreated ==
    ASSUME ProbedAlike, IInv, PortInv, NEW t \in Threads, StartCreates(t)
    PROVE  PortInv'
<1>1. /\ pc[t] = "start" /\ apiLock = NULL /\ config # NULL /\ count + 1 \in Ids
      /\ UNCHANGED <<config, arg>> /\ count' = count + 1
  BY ApiAssumption DEF StartCreates, StartEnters, At, IInv, TypeOK, Ids, world
<1>2. \A u \in Others(t) : /\ pc[u] \notin {"start_probe", "start_bind"} \cup DeinitPcs
                           /\ pc'[u] = pc[u]
  <2>1. \A u \in Threads : pc[u] \notin LockedPcs
    BY <1>1, StateFacts
  <2>2. \A u \in Others(t) : pc[u] \notin DeinitPcs
    BY <1>1 DEF PortInv, Others
  <2>3. \A u \in Others(t) : pc'[u] = pc[u]
    BY DEF StartCreates, Goto, IInv, TypeOK, Others
  <2> QED
    BY <2>1, <2>2, <2>3 DEF LockedPcs, Others
<1>3. /\ cur'[t] = count + 1
      /\ pc'[t] = IF HasOwnPort(config, arg[t]) THEN "start_bind" ELSE "start_probe"
      /\ addrOf'[count + 1] =
            [ip |-> GetServerIp(config, arg[t]), port |-> FirstPort(config, arg[t])]
  BY <1>1 DEF StartCreates, Goto, IInv, TypeOK
<1>4. CASE HasOwnPort(config, arg[t])
  BY <1>1, <1>2, <1>3, <1>4 DEF PortInv, Others
<1>5. CASE ~ HasOwnPort(config, arg[t])
  <2>1. config \in Configs /\ config.portMin \in Nat
    BY <1>1, ApiAssumption DEF IInv, TypeOK, ConfigType
  <2>2. addrOf'[cur'[t]].ip = config.ip /\ addrOf'[cur'[t]].port = config.portMin
    BY <1>3, <1>5, <2>1, ProbedAddress
  <2>3. \A p \in config.portMin .. config.portMin - 1 : FALSE
    BY <2>1
  <2>4. config.portMin >= config.portMin
    BY <2>1
  <2> QED
    BY <1>1, <1>2, <1>3, <1>5, <2>2, <2>3, <2>4 DEF PortInv, Others
<1> QED
  BY <1>4, <1>5

\* A call of one thread leaves the calls of the others where they are.
LEMMA OnlyItsCallMoves ==
    ASSUME IInv, NEW t \in Threads, Invocation(t) \/ CallStep(t)
    PROVE  \A u \in Others(t) : pc'[u] = pc[u]
BY ProbeFacts
   DEF Invocation, CallStart, CallStop, CallRegister, CallDeinit, Call, SrtExpInit, CallStep,
       StartStep, StartThrows, ExceptionEscapes, StartFinds, StartCreates,
       StartWithoutConfig, StartBinds, StartFails, StartDone, StopStep, StopFinds,
       StopNotFound, DeleteSrtExporter, StopReleasesLast, StopReleasesShared, StopDone,
       DeinitStep, DeinitPop, DeinitCorrupts, DeinitEnds, DeinitDone, Register, Return, Goto,
       IInv, TypeOK, Others, call

\* All steps keep what a search has found out.
LEMMA PortStep ==
    ASSUME "sequenced" \in Contract, ProbedAlike, IInv, PortInv, [Next]_vars
    PROVE  PortInv'
<1>1. CASE UNCHANGED vars
  BY <1>1 DEF PortInv, Taken, OwnAddresses, Others, vars, world, exporters, call
<1>2. CASE \E t \in Threads :
             \/ ProbeFinds(t) \/ ProbeRejects(t) \/ ProbeEnds(t) \/ StartCreates(t)
  BY <1>2, PortProbe, PortCreated
<1>3. CASE /\ Next
           /\ ~ \E t \in Threads :
                  \/ ProbeFinds(t) \/ ProbeRejects(t) \/ ProbeEnds(t) \/ StartCreates(t)
  <2> SUFFICES ASSUME NEW t \in Threads
               PROVE  /\ pc'[t] \in DeinitPcs => \A u \in Others(t) : pc'[u] = "idle"
                      /\ pc'[t] \in {"start_probe", "start_bind"} =>
                           /\ pc[t] = pc'[t]
                           /\ UNCHANGED <<config, addrOf, OwnAddresses>>
                           /\ cur'[t] = cur[t] /\ arg'[t] = arg[t]
    BY <1>3 DEF PortInv, Taken, Others
  <2>1. ASSUME pc[t] \in {"start_probe", "start_bind"}, pc'[t] \in {"start_probe", "start_bind"}
        PROVE  /\ pc[t] = pc'[t]
               /\ UNCHANGED <<config, addrOf, OwnAddresses>>
               /\ cur'[t] = cur[t] /\ arg'[t] = arg[t]
    <3>1. ~ StartBinds(t) /\ ~ StartFails(t)
      BY <2>1 DEF StartBinds, StartFails, Return, Goto, IInv, TypeOK
    <3> QED
      BY <1>3, <2>1, <3>1, WhileItSearches
  <2>2. ASSUME pc'[t] \in {"start_probe", "start_bind"} \cup DeinitPcs, pc'[t] # pc[t]
        PROVE  CallDeinit(t) \/ DeinitEnds(t)
    <3>1. pc' # pc
      BY <2>2
    <3>2. PICK u \in Threads : Invocation(u) \/ CallStep(u)
      BY <1>3, <3>1 DEF Next, Accept, ScrapeStep, Scrape, CollectReturns, CollectDestroys,
                        Reply, WorkerGoto, ForeignBind, ForeignRelease, call
    <3>3. \A v \in Others(u) : pc'[v] = pc[v]
      BY <3>2, OnlyItsCallMoves
    <3>4. u = t
      BY <2>2, <3>3 DEF Others
    <3> QED
      BY <1>3, <2>2, <3>2, <3>4
         DEF Invocation, CallStart, CallStop, CallRegister, Call, SrtExpInit, CallStep,
             StartStep, StartThrows, ExceptionEscapes, StartFinds,
             StartWithoutConfig, StartBinds, StartFails, StartDone, StopStep, StopFinds,
             StopNotFound, DeleteSrtExporter, StopReleasesLast, StopReleasesShared, StopDone,
             DeinitStep, DeinitPop, DeinitCorrupts, DeinitEnds, DeinitDone, Register, Return, Goto,
             IInv, TypeOK, call
  <2>3. ASSUME pc'[t] \in DeinitPcs, NEW u \in Others(t) PROVE pc'[u] = "idle"
    <3>1. CASE CallDeinit(t)
      BY <2>3, <3>1 DEF CallDeinit, MayInitOrDeinit, Call, Goto, IInv, TypeOK, Others
    <3>2. CASE pc[t] \in DeinitPcs
      <4>1. pc[u] = "idle" /\ u \in Threads /\ t \in Others(u)
        BY <3>2 DEF PortInv, Others
      <4>2. SUFFICES ASSUME pc'[u] # "idle" PROVE FALSE
        OBVIOUS
      <4>3. PICK v \in Threads : Invocation(v) \/ CallStep(v)
        BY <1>3, <4>1, <4>2
           DEF Next, Accept, ScrapeStep, Scrape, CollectReturns, CollectDestroys,
               Reply, WorkerGoto, ForeignBind, ForeignRelease, call
      <4>4. v = u
        BY <4>1, <4>2, <4>3, OnlyItsCallMoves DEF Others
      <4>5. ~ CallStep(u)
        BY <4>1, ProbeFacts
           DEF CallStep, StartStep, StartThrows, ExceptionEscapes, StartFinds, StartCreates,
               StartWithoutConfig, StartEnters, StartBinds, StartFails, StartDone, StopStep,
               StopFinds, StopNotFound, DeleteSrtExporter, StopReleasesLast,
               StopReleasesShared, StopDone, DeinitStep, DeinitPop, DeinitCorrupts,
               DeinitEnds, DeinitDone, Register, At
      <4> QED
        BY <3>2, <4>1, <4>2, <4>3, <4>4, <4>5
           DEF Invocation, CallStart, CallStop, CallRegister, CallDeinit, SrtExpInit,
               MayCall, MayInitOrDeinit, call
    <3> QED
      BY <2>2, <2>3, <3>1, <3>2 DEF DeinitEnds, At
  <2>4. ~ (pc'[t] \in {"start_probe", "start_bind"} /\ pc'[t] # pc[t])
    BY <2>2 DEF CallDeinit, Call, DeinitEnds, Goto, IInv, TypeOK
  <2> QED
    BY <2>1, <2>3, <2>4
<1> QED
  BY <1>1, <1>2, <1>3

LEMMA PortInvariant ==
    ASSUME "sequenced" \in Contract, ProbedAlike
    PROVE  Spec => []PortInv
<1>1. Init => PortInv
  BY DEF Init, PortInv
<1>2. IInv /\ PortInv /\ [Next]_vars => PortInv'
  BY PortStep
<1> QED
  BY <1>1, <1>2, InvariantHolds, PTL DEF Spec

\* "An available port within a range would be chosen" (design.md:86): with init
\* and deinit sequenced, a legal range, and exporters that are given no port on the
\* ip that is probed, the port that a search ends with can be bound; when it ends
\* without one, none can that other processes do not use; and no other start of the
\* library ever takes the port of this one.  srtexp_config.cpp:103-134.
THEOREM ChosenPortIsAvailable ==
    ASSUME "sequenced" \in Contract, ProbedAlike
    PROVE  Spec => AvailablePortChosen
<1> DEFINE Chosen ==
        \A t \in Threads :
          LET a == addrOf[cur[t]]
              On(p) == [ip |-> a.ip, port |-> p]
          IN  /\ ProbeFinds(t) => ExposerStarts(a, InUse)
              /\ ProbeEnds(t) => \A p \in config.portMin .. config.portMax :
                    CanBind(On(p), InUse) => \E b \in ForeignAddresses : Conflicts(On(p), b)
              /\ StartFails(t) /\ ~ HasOwnPort(config, arg[t]) =>
                    a.port = -1 \/ \E b \in foreign : Conflicts(a, b)
<1>1. IInv /\ PortInv => Chosen
  <2> SUFFICES ASSUME IInv, PortInv, NEW t \in Threads
               PROVE  LET a == addrOf[cur[t]]
                          On(p) == [ip |-> a.ip, port |-> p]
                      IN  /\ ProbeFinds(t) => ExposerStarts(a, InUse)
                          /\ ProbeEnds(t) =>
                               \A p \in config.portMin .. config.portMax :
                                  CanBind(On(p), InUse) =>
                                     \E b \in ForeignAddresses : Conflicts(On(p), b)
                          /\ StartFails(t) /\ ~ HasOwnPort(config, arg[t]) =>
                               a.port = -1 \/ \E b \in foreign : Conflicts(a, b)
    OBVIOUS
  <2> DEFINE a == addrOf[cur[t]]
  <2>1. ASSUME ProbeFinds(t) PROVE ExposerStarts(a, InUse)
    <3>1. /\ pc[t] = "start_probe" /\ Probed(t) <= config.portMax
          /\ IsPortAvailable(config.ip, Probed(t), InUse)
      BY <2>1 DEF ProbeFinds, At
    <3>2. Probed(t) \in 1 .. MaxPort /\ a = [ip |-> config.ip, port |-> Probed(t)]
      BY <3>1, SearchFacts
    <3> QED
      BY <3>1, <3>2, LegalPort
  <2>2. ASSUME ProbeEnds(t), NEW p \in config.portMin .. config.portMax,
               CanBind([ip |-> a.ip, port |-> p], InUse)
        PROVE  \E b \in ForeignAddresses : Conflicts([ip |-> a.ip, port |-> p], b)
    <3>1. pc[t] = "start_probe" /\ Probed(t) > config.portMax
      BY <2>2 DEF ProbeEnds, At
    <3>2. p \in config.portMin .. Probed(t) - 1
      <4>1. config.portMin \in Nat /\ config.portMax \in Nat /\ Probed(t) \in Int
        BY <3>1, SearchFacts
      <4> QED
        BY <3>1, <4>1
    <3>3. Taken([ip |-> a.ip, port |-> p])
      BY <3>1, <3>2 DEF PortInv, Probed
    <3> QED
      BY <2>2, <3>3 DEF Taken, CanBind, InUse
  <2>3. ASSUME StartFails(t), ~ HasOwnPort(config, arg[t])
        PROVE  a.port = -1 \/ \E b \in foreign : Conflicts(a, b)
    <3>1. pc[t] = "start_bind" /\ ~ ExposerStarts(a, InUse)
      BY <2>3 DEF StartFails, At
    <3>2. a.port = -1 \/ ExposerStarts(a, OwnAddresses)
      BY <2>3, <3>1 DEF PortInv
    <3> QED
      BY <3>1, <3>2, MoreInUse DEF InUse
  <2> QED
    BY <2>1, <2>2, <2>3
<1>2. Spec => [][Chosen]_vars
  BY <1>1, InvariantHolds, PortInvariant, PTL DEF Spec
<1>3. [][Chosen]_vars => AvailablePortChosen
  BY PTL DEF AvailablePortChosen
<1> QED
  BY <1>2, <1>3, PTL
=============================================================================
