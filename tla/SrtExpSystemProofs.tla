--------------------------- MODULE SrtExpSystemProofs ---------------------------
(***************************************************************************)
(* Theorems of SrtExpSystem: the composition is a behaviour of each of its *)
(* two components, so that what is proved of them holds of it.             *)
(***************************************************************************)
EXTENDS SrtExpSystem, SrtExpApiProofs

-----------------------------------------------------------------------------
(* The API                                                                 *)

\* Each step of the application's thread is one of a call.
LEMMA ProgramMapsToApi ==
    ASSUME ProgramCalls \/ Proceeds \/ SocketConnects
    PROVE  [Next]_vars
<1>1. Main \in Threads
  BY SystemAssumption
<1>2. CASE CInit \/ Invokes
  <2>1. Invocation(Main)
    BY <1>2 DEF CInit, Invokes, CStart, CStop, CDeinit, CRegister, Invocation
  <2> QED
    BY <1>1, <2>1 DEF Next
<1>3. CASE Proceeds
  <2>1. CallStep(Main)
    BY <1>3 DEF Proceeds, RegisterInCollector, CallStep
  <2> QED
    BY <1>1, <2>1 DEF Next
<1>4. CASE ClosesSockets \/ SocketConnects
  BY <1>4 DEF ClosesSockets, SocketConnects
<1> QED
  BY <1>2, <1>3, <1>4 DEF ProgramCalls

\* Each step of a worker is one of its scrape; inside Collect the API sees none.
LEMMA ServerMapsToApi ==
    ASSUME Collects \/ (\E w \in Workers : WorkerSteps(w)) \/ Environment
    PROVE  [Next]_vars
<1>1. 1 \in Ids
  BY SystemAssumption DEF Ids
<1>2. CASE Collects
  BY <1>2 DEF Collects
<1>3. CASE \E w \in Workers : WorkerSteps(w)
  <2>1. PICK w \in Workers : WorkerSteps(w)
    BY <1>3
  <2>2. ScrapeStep(1, w)
    BY <2>1 DEF WorkerSteps, Scrapes, CollectEnds, ScrapeStep
  <2> QED
    BY <1>1, <2>2 DEF Next
<1>4. CASE Environment
  BY <1>1, <1>4 DEF Environment, Next
<1> QED
  BY <1>2, <1>3, <1>4

\* With either sample, and any other application of one thread, the system does
\* what SrtExpApi lets the API and the http server do: what is proved of SrtExpApi
\* holds of it.
THEOREM ApiIsImplemented == SystemSpec => Spec
<1>1. SystemInit => Init
  BY DEF SystemInit
<1>2. [SystemNext]_sysVars => [Next]_vars
  BY ProgramMapsToApi, ServerMapsToApi DEF SystemNext, sysVars
<1> QED
  BY <1>1, <1>2, PTL DEF SystemSpec, Spec

-----------------------------------------------------------------------------
(* The collector                                                           *)

\* The application is at one of its calls, or has ended.
ProgramInv == program \in Programs /\ step \in Nat \ {0}

\* Every step keeps it so.
LEMMA ProgramInvNext == ProgramInv /\ [SystemNext]_sysVars => ProgramInv'
<1> SUFFICES ASSUME ProgramInv, [SystemNext]_sysVars PROVE ProgramInv'
  OBVIOUS
<1>1. Len(program.calls) \in Nat \ {0}
  BY SystemAssumption, EmptySeq DEF ProgramInv
<1>2. UNCHANGED program
  BY DEF SystemNext, sysVars, ProgramCalls, CInit, Invokes, ClosesSockets, Proceeds,
         SocketConnects, Collects, WorkerSteps, Environment
<1>3. step' \in {step, step + 1, Len(program.calls)}
  BY DEF SystemNext, sysVars, ProgramCalls, CInit, Invokes, ClosesSockets, Proceeds,
         SocketConnects, Collects, WorkerSteps, Environment, Advance
<1> QED
  BY <1>1, <1>2, <1>3 DEF ProgramInv

\* What a call of each kind registers or connects.
LEMMA CurrentFacts ==
    ASSUME ProgramInv, ~ Ended
    PROVE  /\ Current.op = "label" =>
                /\ Current.name \in LabelNames \cup {NULL}
                /\ Current.value \in LabelValues \cup {NULL}
                /\ Current.var \in C!VarNames \cup {NULL}
           /\ Current.op = "sockets" => Current.socks \in C!BoundedSeq(Sockets, MaxSockets)
           /\ Current.op = "connect" => Current.sock \in Sockets
<1>1. program.calls \in Seq(CallType) /\ step \in 1 .. Len(program.calls)
  BY SystemAssumption, LenProperties DEF ProgramInv, Ended
<1>2. Current \in CallType
  BY <1>1, ElementOfSeq DEF Current
<1> QED
  BY <1>2 DEF CallType

\* A step of the system is a step of the collector, or leaves it alone.
LEMMA MapsToCollector == ProgramInv /\ [SystemNext]_sysVars => [C!Next]_(C!vars)
<1> SUFFICES ASSUME ProgramInv, [SystemNext]_sysVars PROVE [C!Next]_(C!vars)
  OBVIOUS
<1>1. CASE UNCHANGED collectorVars
  BY <1>1 DEF collectorVars, C!vars, C!labels, C!scrape, C!libsrt
<1>2. CASE Proceeds /\ ~ UNCHANGED collectorVars
  <2>1. ~ Ended
        /\ \/ Current.op = "label"
                /\ C!LabelRegister(Current.name, Current.value, Current.var)
           \/ Current.op = "sockets" /\ C!SrtSockRegister(Current.socks)
    BY <1>2 DEF Proceeds, RegisterInCollector, IsAt
  <2>2. CASE Current.op = "label"
             /\ C!LabelRegister(Current.name, Current.value, Current.var)
    <3>1. /\ Current.name \in LabelNames \cup {NULL}
          /\ Current.value \in LabelValues \cup {NULL}
          /\ Current.var \in C!VarNames \cup {NULL}
      BY <2>1, <2>2, CurrentFacts
    <3>2. \E n \in LabelNames \cup {NULL}, v \in LabelValues \cup {NULL},
             var \in C!VarNames \cup {NULL} : C!LabelRegister(n, v, var)
      BY <2>2, <3>1
    <3> QED
      BY <3>2 DEF C!Next
  <2>3. CASE Current.op = "sockets" /\ C!SrtSockRegister(Current.socks)
    BY <2>1, <2>3, CurrentFacts DEF C!Next
  <2> QED
    BY <2>1, <2>2, <2>3
<1>3. CASE SocketConnects
  BY <1>3, CurrentFacts DEF SocketConnects, IsAt, C!Next, C!Libsrt
<1>4. CASE ClosesSockets /\ ~ UNCHANGED collectorVars
  BY <1>4 DEF ClosesSockets, C!Next, C!Libsrt
<1>5. CASE Collects
  BY <1>5 DEF Collects, C!Next
<1>6. CASE (\E w \in Workers : WorkerSteps(w)) /\ ~ UNCHANGED collectorVars
  BY <1>6 DEF WorkerSteps, Scrapes, CollectEnds, C!Next
<1>7. CASE Environment /\ ~ UNCHANGED collectorVars
  BY <1>7 DEF Environment, C!Next, C!Libsrt
<1>8. CASE CInit \/ Invokes \/ UNCHANGED sysVars
  BY <1>1, <1>8 DEF CInit, Invokes, sysVars
<1> QED
  BY <1>1, <1>2, <1>3, <1>4, <1>5, <1>6, <1>7, <1>8 DEF SystemNext, ProgramCalls

\* With any application that makes legal calls, the collector in the system does
\* what SrtExpCollector lets one do: what is proved of SrtExpCollector holds of it.
THEOREM CollectorIsImplemented == SystemSpec => C!Spec
<1>1. SystemInit => C!Init /\ ProgramInv
  BY DEF SystemInit, ProgramInv
<1> QED
  BY <1>1, ProgramInvNext, MapsToCollector, PTL DEF SystemSpec, C!Spec
-----------------------------------------------------------------------------
(* What is proved of the collector                                         *)

\* The same collector, with the theorems about it.
CP == INSTANCE SrtExpCollectorProofs WITH
    Configs   <- {p.collector : p \in Programs},
    pc        <- scrapeAt,
    undefined <- raced

\* The assumptions of SrtExpCollector are those of the system.
LEMMA CollectorAssumed == CP!CollectorAssumption
<1>1. C!VarNames = CP!VarNames /\ C!LabelType = CP!LabelType
  BY DEF C!VarNames, CP!VarNames, C!DataMap, CP!DataMap, C!LabelType, CP!LabelType
<1> QED
  BY <1>1, SystemAssumption DEF CP!CollectorAssumption

\* Both instances say the same.
LEMMA SameCollector ==
    /\ C!Init <=> CP!Init
    /\ C!Next <=> CP!Next
<1>1. C!Init <=> CP!Init
  BY DEF
         C!Init, CP!Init, C!FlattenSeq, CP!FlattenSeq, C!LoadFilterFromConfig,
         CP!LoadFilterFromConfig, C!Pushes, CP!Pushes, C!Passes, CP!Passes, C!DataMap,
         CP!DataMap, C!Entries, CP!Entries
<1>2. C!Next <=> CP!Next
  BY DEF
         C!BoundedSeq, CP!BoundedSeq, C!SeqOf, CP!SeqOf, C!VarNames, CP!VarNames,
         C!DataMap, CP!DataMap, C!FirstOf, CP!FirstOf, C!SelectInSeq, CP!SelectInSeq,
         C!EntryOf, CP!EntryOf, C!Entries, CP!Entries, C!EntryType, CP!EntryType,
         C!LabelType, CP!LabelType, C!Min, CP!Min, C!RemoveAt, CP!RemoveAt, C!labels,
         CP!labels, C!scrape, CP!scrape, C!libsrt, CP!libsrt, C!vars, CP!vars,
         C!MayRegister, CP!MayRegister, C!InMetric, CP!InMetric, C!Iterating,
         CP!Iterating, C!MayIterate, CP!MayIterate, C!SrtSockRegister, CP!SrtSockRegister,
         C!WithLabel, CP!WithLabel, C!LabelRefused, CP!LabelRefused, C!LabelRegister,
         CP!LabelRegister, C!ScrapeAt, CP!ScrapeAt, C!CollectStarts, CP!CollectStarts,
         C!CollectSocket, CP!CollectSocket, C!NextSocket, CP!NextSocket, C!SkipSocket,
         CP!SkipSocket, C!EmptyLabel, CP!EmptyLabel, C!CountLabels, CP!CountLabels,
         C!Fill, CP!Fill, C!FillPrivate, CP!FillPrivate, C!FillCommon, CP!FillCommon,
         C!SocketDone, CP!SocketDone, C!CollectNothing, CP!CollectNothing, C!Reply,
         CP!Reply, C!SocketConnects, CP!SocketConnects, C!StatGrows, CP!StatGrows,
         C!SocketCloses, CP!SocketCloses, C!CollectStep, CP!CollectStep, C!Libsrt,
         CP!Libsrt, C!Next, CP!Next
<1> QED
  BY <1>1, <1>2

LEMMA CollectorRuns == SystemSpec => CP!Spec
<1>1. SystemInit => CP!Init /\ ProgramInv
  BY SameCollector DEF SystemInit, ProgramInv
<1>2. ProgramInv /\ [SystemNext]_sysVars => [CP!Next]_(CP!vars)
  <2> SUFFICES ASSUME ProgramInv, [SystemNext]_sysVars PROVE [CP!Next]_(CP!vars)
    OBVIOUS
  <2>1. C!Next \/ UNCHANGED C!vars
    BY MapsToCollector
  <2>2. UNCHANGED C!vars => UNCHANGED CP!vars
    BY DEF C!vars, CP!vars, C!labels, CP!labels, C!scrape, CP!scrape, C!libsrt, CP!libsrt
  <2> QED
    BY <2>1, <2>2, SameCollector
<1> QED
  BY <1>1, <1>2, ProgramInvNext, PTL DEF SystemSpec, CP!Spec

-----------------------------------------------------------------------------
(* An application in the order of the samples                              *)

\* The calls of such an application by their number.
LEMMA OpFacts ==
    ASSUME ProgramInv, Sequenced(program)
    PROVE  LET n == Len(program.calls)
           IN  /\ n \in Nat /\ n >= 5 /\ step \in Nat /\ step >= 1
               /\ program.name # NULL
               /\ ~ Ended <=> step <= n
               /\ ~ Ended =>
                    /\ Current.op = "init" <=> step = 1
                    /\ Current.op = "start" <=> step = 2
                    /\ Current.op \in {"label", "sockets", "connect"} <=> step \in 3 .. n - 3
                    /\ Current.op = "stop" <=> step = n - 2
                    /\ Current.op = "deinit" <=> step = n - 1
                    /\ Current.op = "close" <=> step = n
<1> DEFINE n == Len(program.calls)
           op == [k \in DOMAIN program.calls |-> program.calls[k].op]
<1>1. n \in Nat /\ DOMAIN program.calls = 1 .. n
  BY SystemAssumption, LenProperties DEF ProgramInv
<1>2. /\ program.name # NULL
      /\ n >= 5
      /\ op[1] = "init" /\ op[2] = "start"
      /\ \A k \in 3 .. n - 3 : op[k] \in {"label", "sockets", "connect"}
      /\ op[n - 2] = "stop" /\ op[n - 1] = "deinit" /\ op[n] = "close"
  BY DEF Sequenced
<1>3. step \in Nat /\ step >= 1 /\ (~ Ended <=> step <= n)
  BY <1>1 DEF ProgramInv, Ended
<1>4. ~ Ended => step \in 1 .. n /\ Current.op = op[step]
  BY <1>1, <1>3 DEF Current
<1> HIDE DEF op, n
<1>5. ASSUME ~ Ended
      PROVE  /\ Current.op = "init" <=> step = 1
             /\ Current.op = "start" <=> step = 2
             /\ Current.op \in {"label", "sockets", "connect"} <=> step \in 3 .. n - 3
             /\ Current.op = "stop" <=> step = n - 2
             /\ Current.op = "deinit" <=> step = n - 1
             /\ Current.op = "close" <=> step = n
  <2>1. step \in {1, 2, n - 2, n - 1, n} \/ step \in 3 .. n - 3
    BY <1>1, <1>2, <1>4, <1>5
  <2> QED
    BY <1>1, <1>2, <1>4, <1>5, <2>1
<1> QED
  BY <1>1, <1>2, <1>3, <1>5 DEF n

\* The call that the API is at is the application's.
LEMMA PcFacts ==
    ASSUME ProgramInv, Sequenced(program), PhaseInv
    PROVE  LET n == Len(program.calls)
           IN  /\ pc[Main] \in {"start"} \cup StartingPcs => step = 2
               /\ pc[Main] \in {"stop", "stop_delete", "stop_release", "stop_wait"} =>
                    step = n - 2
               /\ pc[Main] \in DeinitPcs => step = n - 1
               /\ pc[Main] = "register" => step \in 3 .. n - 3
               /\ pc[Main] \notin {"start_stop", "threw"}
<1>1. pc[Main] # "idle" => ~ Ended /\ pc[Main] \in CallPcs(Current.op)
  BY DEF PhaseInv
<1>2. CASE pc[Main] = "idle"
  BY <1>2 DEF StartingPcs, DeinitPcs
<1>3. CASE pc[Main] # "idle"
  BY <1>1, <1>3, OpFacts DEF CallPcs, StartingPcs, DeinitPcs
<1> QED
  BY <1>2, <1>3

LEMMA PhaseInit == SystemInit /\ Sequenced(program) => PhaseInv
<1> SUFFICES ASSUME SystemInit, Sequenced(program) PROVE PhaseInv
  OBVIOUS
<1>1. Main \in Threads /\ ProgramInv
  BY SystemAssumption DEF SystemInit, ProgramInv
<1> QED
  BY <1>1, OpFacts DEF SystemInit, Init, PhaseInv, HasExporter, StartingPcs, CallPcs

\* A call begins when the application is at it.
LEMMA PhaseInvokes ==
    ASSUME TypeOK, ProgramInv, Sequenced(program), PhaseInv, Invokes
    PROVE  PhaseInv'
<1>1. /\ Main \in Threads
      /\ pc \in [Threads -> PcValues]
      /\ arg \in [Threads -> NameValues \cup {NULL}]
      /\ cur \in [Threads -> 0 .. MaxStarts]
  BY SystemAssumption DEF TypeOK
<1>2. /\ UNCHANGED <<program, step, id, undefined, config, srtExp, collector>>
      /\ pc[Main] = "idle"
      /\ ~ Ended
      /\ \/ Current.op = "start" /\ pc'[Main] = "start" /\ arg'[Main] = program.name
         \/ Current.op = "stop" /\ pc'[Main] = "stop" /\ arg'[Main] = NULL /\ cur'[Main] = id
         \/ Current.op = "deinit" /\ pc'[Main] = "deinit"
         \/ /\ Current.op \in {"label", "sockets"}
            /\ pc'[Main] = "register" /\ arg'[Main] = NULL /\ cur'[Main] = id
  <2>1. CASE CStart
    BY <1>1, <2>1 DEF Invokes, CStart, IsAt, CallStart, Call, At, Goto, world, list, exporters
  <2>2. CASE CStop
    BY <1>1, <2>2 DEF Invokes, CStop, IsAt, CallStop, Call, At, Goto, world, list, exporters
  <2>3. CASE CDeinit
    BY <1>1, <2>3 DEF Invokes, CDeinit, IsAt, CallDeinit, Call, At, Goto, world, list, exporters
  <2>4. CASE CRegister
    BY <1>1, <2>4
       DEF Invokes, CRegister, IsAt, CallRegister, Call, At, Goto, world, list, exporters
  <2> QED
    BY <2>1, <2>2, <2>3, <2>4 DEF Invokes
<1>3. (Current.op)' = Current.op /\ (Ended <=> Ended')
  BY <1>2 DEF Current, Ended
<1>4. /\ pc'[Main] \in CallPcs(Current.op)
      /\ HasExporter' <=> HasExporter
  BY <1>2, OpFacts DEF CallPcs, HasExporter, DeinitPcs
<1> QED
  BY <1>2, <1>3, <1>4 DEF PhaseInv, StartingPcs, CallPcs, DeinitPcs

\* A step of srtexp_start: the vector is empty before it, so that the name is not
\* found, and a start that fails leaves it empty.
LEMMA PhaseStart ==
    ASSUME TypeOK, ProgramInv, Sequenced(program), PhaseInv, Proceeds, StartStep(Main)
    PROVE  PhaseInv'
<1> DEFINE n == Len(program.calls)
<1>1. /\ Main \in Threads
      /\ pc \in [Threads -> PcValues]
      /\ arg \in [Threads -> NameValues \cup {NULL}]
      /\ cur \in [Threads -> 0 .. MaxStarts]
      /\ count \in 0 .. 1
  BY SystemAssumption DEF TypeOK
<1>2. n \in Nat /\ n >= 5 /\ ProgramInv
  BY OpFacts
<1>3. step = 2 /\ pc[Main] \in {"start"} \cup StartingPcs
  <2>1. pc[Main] \in {"start", "start_stop", "threw"} \cup StartingPcs
    BY DEF StartStep, StartThrows, ExceptionEscapes, StartFinds, StartCreates,
           StartWithoutConfig, StartEnters, ProbeFinds, ProbeRejects, ProbeEnds, StartBinds,
           StartFails, StartDone, At, StartingPcs
  <2> QED
    BY <2>1, PcFacts
<1>4. /\ ~ undefined /\ config # NULL /\ arg[Main] = program.name /\ program.name # NULL
      /\ pc[Main] = "start" => srtExp = <<>>
      /\ pc[Main] # "start" => srtExp = <<1>> /\ cur[Main] = 1
      /\ collector = {}
      /\ ~ Ended /\ Current.op = "start"
      /\ id \in {0, 1}
  <2>1. /\ ~ undefined
        /\ arg[Main] = program.name
        /\ pc[Main] # "start" => cur[Main] = 1
        /\ step \in 2 .. n - 1 => config # NULL
        /\ srtExp = IF HasExporter \/ pc[Main] \in StartingPcs THEN <<1>> ELSE <<>>
        /\ collector = IF HasExporter THEN {1} ELSE {}
        /\ id \in {0, 1}
    BY <1>3 DEF PhaseInv, CallPcs, StartingPcs
  <2>2. ~ HasExporter
    BY <1>2, <1>3 DEF HasExporter
  <2> QED
    BY <1>2, <1>3, <2>1, <2>2, OpFacts DEF StartingPcs
<1>5. UNCHANGED program
  BY DEF Proceeds
<1>6. ASSUME step' = step, pc'[Main] \in StartingPcs, srtExp' = << 1 >>, cur'[Main] = 1,
             UNCHANGED <<undefined, config, arg, collector>>, id' \in {0, 1}
      PROVE  PhaseInv'
  <2>1. ~ HasExporter'
    BY <1>2, <1>3, <1>5, <1>6 DEF HasExporter
  <2>2. ~ Ended' /\ (Current.op)' = "start"
    BY <1>4, <1>5, <1>6 DEF Ended, Current
  <2> HIDE DEF n
  <2>3. step' \in 2 .. n - 1 /\ step' <= n + 1 /\ Len(program'.calls) = n
    BY <1>2, <1>3, <1>5, <1>6 DEF n
  <2> QED
    BY <1>3, <1>4, <1>5, <1>6, <2>1, <2>2, <2>3 DEF PhaseInv, CallPcs, StartingPcs
<1>7. pc[Main] = "start" => FindByName(arg[Main]) = 0
  <2>1. ASSUME pc[Main] = "start" PROVE Listed = {}
    BY <1>4, <2>1, EmptySeq DEF Listed, ToSet
  <2>2. FindByName(arg[Main]) # 0 => FindByName(arg[Main]) \in Listed
    BY FindByNameFacts DEF TypeOK
  <2> QED
    BY <2>1, <2>2
<1>8. CASE StartCreates(Main)
  <2>1. /\ pc[Main] = "start" /\ count' = count + 1 /\ count < 1
        /\ srtExp' = Append(srtExp, count')
        /\ UNCHANGED <<undefined, config, arg, collector>>
        /\ cur'[Main] = count'
        /\ pc'[Main] \in {"start_bind", "start_probe"}
    BY <1>1, <1>8, SystemAssumption
       DEF StartCreates, StartEnters, At, Goto, world
  <2>2. count' = 1 /\ srtExp' = <<1>>
    BY <1>1, <1>4, <2>1
  <2>3. step' = step /\ id' = id
    BY <1>1, <1>8, <2>1 DEF Proceeds, StartFails, StartDone, At
  <2> QED
    BY <1>4, <1>6, <2>1, <2>2, <2>3 DEF StartingPcs
<1>9. CASE ProbeFinds(Main) \/ ProbeRejects(Main) \/ ProbeEnds(Main)
  <2>1. /\ pc[Main] = "start_probe"
        /\ UNCHANGED <<undefined, config, srtExp, collector, arg, cur>>
        /\ pc'[Main] \in {"start_probe", "start_bind"}
    BY <1>1, <1>9
       DEF ProbeFinds, ProbeRejects, ProbeEnds, ProbeGoto, Goto, At, world, list
  <2>2. step' = step /\ id' = id
    BY <2>1 DEF Proceeds, StartFails, StartDone, At
  <2> QED
    BY <1>4, <1>6, <2>1, <2>2 DEF StartingPcs
<1>10. CASE StartBinds(Main)
  <2>1. /\ pc[Main] = "start_bind" /\ pc'[Main] = "start_collector"
        /\ UNCHANGED <<undefined, config, srtExp, collector, arg, cur>>
    BY <1>1, <1>10 DEF StartBinds, Goto, At, world, list
  <2>2. step' = step /\ id' = id
    BY <1>10, <2>1 DEF Proceeds, StartFails, StartDone, StartBinds, At
  <2> QED
    BY <1>4, <1>6, <2>1, <2>2 DEF StartingPcs
<1>11. CASE StartFails(Main)
  <2>1. /\ pc[Main] = "start_bind" /\ pc'[Main] = "idle"
        /\ UNCHANGED <<undefined, config, collector>>
        /\ srtExp' = Front(srtExp)
    BY <1>1, <1>11 DEF StartFails, Return, Goto, At, world, exporters
  <2>2. step' = n /\ id' = id
    BY <1>11, <2>1 DEF Proceeds, StartDone, At
  <2>3. srtExp' = <<>>
    BY <1>4, <2>1 DEF Front
  <2>4. ~ HasExporter'
    BY <1>2, <1>5, <2>2 DEF HasExporter
  <2> HIDE DEF n
  <2>5. step' \notin 2 .. n - 1 /\ step' <= n + 1 /\ Len(program'.calls) = n
    BY <1>2, <1>5, <2>2 DEF n
  <2> QED
    BY <1>4, <2>1, <2>2, <2>3, <2>4, <2>5 DEF PhaseInv, CallPcs, StartingPcs
<1>12. CASE StartDone(Main)
  <2>1. /\ pc[Main] = "start_collector" /\ pc'[Main] = "idle"
        /\ UNCHANGED <<undefined, config, srtExp>>
        /\ collector' = {1}
    BY <1>1, <1>4, <1>12 DEF StartDone, Return, Goto, At, world, list
  <2>2. step' = 3 /\ id' = 1
    BY <1>3, <1>4, <1>12, <2>1 DEF Proceeds, StartFails, At
  <2>3. HasExporter'
    BY <1>2, <1>5, <2>1, <2>2 DEF HasExporter
  <2> HIDE DEF n
  <2>4. step' \in 2 .. n - 1 /\ step' <= n + 1 /\ Len(program'.calls) = n
    BY <1>2, <1>5, <2>2 DEF n
  <2> QED
    BY <1>4, <2>1, <2>2, <2>3, <2>4 DEF PhaseInv, CallPcs, StartingPcs
<1>13. ~ (StartThrows(Main) \/ ExceptionEscapes(Main) \/ StartFinds(Main)
            \/ StartWithoutConfig(Main))
  BY <1>3, <1>4, <1>7
     DEF StartThrows, ExceptionEscapes, StartFinds, StartWithoutConfig, StartEnters, At,
         StartingPcs
<1> QED
  BY <1>8, <1>9, <1>10, <1>11, <1>12, <1>13 DEF StartStep

\* A step of srtexp_stop takes the exporter out of the vector, and its collector.
LEMMA PhaseStop ==
    ASSUME IInv, ProgramInv, Sequenced(program), PhaseInv, Proceeds, StopStep(Main)
    PROVE  PhaseInv'
<1> DEFINE n == Len(program.calls)
<1>1. /\ Main \in Threads
      /\ pc \in [Threads -> PcValues]
      /\ arg \in [Threads -> NameValues \cup {NULL}]
      /\ cur \in [Threads -> 0 .. MaxStarts]
  BY SystemAssumption DEF IInv, TypeOK
<1>2. n \in Nat /\ n >= 5
  BY OpFacts
<1>3. step = n - 2 /\ pc[Main] \in {"stop", "stop_delete", "stop_release", "stop_wait"}
  <2>1. pc[Main] \in {"stop", "stop_delete", "stop_release", "stop_wait"}
    BY DEF StopStep, StopFinds, StopNotFound, DeleteSrtExporter, StopReleasesLast,
           StopReleasesShared, StopDone, At
  <2> QED
    BY <2>1, PcFacts
<1>4. /\ HasExporter <=> pc[Main] \in {"stop", "stop_delete"}
      /\ ~ undefined /\ config # NULL
      /\ pc[Main] = "stop" => cur[Main] = 1 /\ arg[Main] = NULL
      /\ pc[Main] = "stop_delete" => cur[Main] = 1
      /\ srtExp = IF HasExporter THEN <<1>> ELSE <<>>
      /\ collector = IF HasExporter THEN {1} ELSE {}
      /\ id \in {0, 1} /\ (HasExporter => id = 1)
      /\ ~ Ended /\ Current.op = "stop"
  <2>1. HasExporter <=> pc[Main] \in {"stop", "stop_delete"}
    BY <1>2, <1>3 DEF HasExporter
  <2>2. step \in 2 .. n - 1 /\ ~ Ended /\ Current.op = "stop"
    BY <1>2, <1>3, OpFacts
  <2> HIDE DEF n
  <2>3. /\ ~ undefined
        /\ config # NULL
        /\ pc[Main] = "stop" => cur[Main] = id /\ arg[Main] = NULL
        /\ pc[Main] = "stop_delete" => cur[Main] = 1
        /\ srtExp = IF HasExporter \/ pc[Main] \in StartingPcs THEN <<1>> ELSE <<>>
        /\ collector = IF HasExporter THEN {1} ELSE {}
        /\ id \in {0, 1}
        /\ HasExporter => id = 1
    BY <2>2 DEF PhaseInv, n
  <2> QED
    BY <1>3, <2>1, <2>2, <2>3 DEF StartingPcs
<1>5. UNCHANGED program
  BY DEF Proceeds
<1>6. /\ ~ StartFails(Main) /\ ~ StartDone(Main)
  BY <1>3 DEF StartFails, StartDone, At
<1>7. id' = id /\ step' = IF pc'[Main] = "idle" THEN step + 1 ELSE step
  BY <1>6 DEF Proceeds
<1>8. ASSUME pc'[Main] = "stop_delete", UNCHANGED <<undefined, config, srtExp, collector>>,
             pc[Main] = "stop", cur'[Main] = 1
      PROVE  PhaseInv'
  <2>1. step' = step
    BY <1>7, <1>8
  <2>2. HasExporter' /\ step' \in 2 .. n - 1 /\ step' <= n + 1
    BY <1>2, <1>3, <1>5, <1>8, <2>1 DEF HasExporter
  <2>3. ~ Ended' /\ (Current.op)' = "stop" /\ Len(program'.calls) = n
    BY <1>4, <1>5, <2>1 DEF Ended, Current
  <2> HIDE DEF n
  <2> QED
    BY <1>4, <1>7, <1>8, <2>2, <2>3 DEF PhaseInv, CallPcs, StartingPcs
<1>9. ASSUME pc'[Main] \in {"stop_release", "stop_wait", "idle"}, srtExp' = <<>>,
             collector' = {}, UNCHANGED <<undefined, config>>
      PROVE  PhaseInv'
  <2>1. ~ HasExporter' /\ step' \in 2 .. n - 1 /\ step' <= n + 1
    BY <1>2, <1>3, <1>5, <1>7, <1>9 DEF HasExporter
  <2>2. pc'[Main] # "idle" => ~ Ended' /\ (Current.op)' = "stop"
    BY <1>4, <1>5, <1>7 DEF Ended, Current
  <2>3. Len(program'.calls) = n
    BY <1>5
  <2> HIDE DEF n
  <2> QED
    BY <1>4, <1>7, <1>9, <2>1, <2>2, <2>3 DEF PhaseInv, CallPcs, StartingPcs
<1>10. pc[Main] \in {"stop", "stop_delete"} => Listed = {1}
  <2>1. ASSUME srtExp = << 1 >> PROVE Listed = {1}
    BY <2>1 DEF Listed, ToSet
  <2> QED
    BY <1>4, <2>1
<1>11. CASE StopFinds(Main)
  <2>1. pc[Main] = "stop" /\ cur'[Main] = StopTarget(Main) /\ pc'[Main] = "stop_delete"
        /\ UNCHANGED <<undefined, config, srtExp, collector>>
    BY <1>1, <1>11 DEF StopFinds, At, Goto, world, list, exporters
  <2>2. StopTarget(Main) = 1
    BY <1>4, <1>10, <2>1 DEF StopTarget, FindById
  <2> QED
    BY <1>8, <2>1, <2>2
<1>12. ~ StopNotFound(Main)
  BY <1>4, <1>10 DEF StopNotFound, At, StopTarget, FindById
<1>13. CASE DeleteSrtExporter(Main)
  <2>1. /\ pc[Main] = "stop_delete" /\ pc'[Main] = "stop_release"
        /\ UNCHANGED <<undefined, config>>
        /\ collector' = collector \ {1} /\ srtExp' = Erase(1)
    BY <1>1, <1>4, <1>13 DEF DeleteSrtExporter, At, Goto, world
  <2>2. Erase(1) = <<>>
    <3>1. ToSet(Erase(1)) = {} /\ Erase(1) \in Seq(Ids)
      BY <1>10, <2>1, EraseFacts DEF IInv, TypeOK
    <3>2. Erase(1) # <<>> => 1 \in DOMAIN Erase(1)
      BY <3>1, EmptySeq
    <3> QED
      BY <3>1, <3>2 DEF ToSet
  <2>3. collector' = {}
    BY <1>4, <2>1
  <2> QED
    BY <1>9, <2>1, <2>2, <2>3
<1>14. CASE StopReleasesLast(Main) \/ StopReleasesShared(Main) \/ StopDone(Main)
  <2>1. /\ pc[Main] \in {"stop_release", "stop_wait"} /\ pc'[Main] \in {"stop_wait", "idle"}
        /\ UNCHANGED <<undefined, config, collector, srtExp>>
    BY <1>1, <1>14
       DEF StopReleasesLast, StopReleasesShared, StopDone, At, Goto, Return, world, list,
           exporters
  <2> QED
    BY <1>4, <1>9, <2>1
<1> QED
  BY <1>11, <1>12, <1>13, <1>14 DEF StopStep

\* Deinit finds an empty vector.
LEMMA PhaseDeinit ==
    ASSUME TypeOK, ProgramInv, Sequenced(program), PhaseInv, Proceeds, DeinitStep(Main)
    PROVE  PhaseInv'
<1> DEFINE n == Len(program.calls)
<1>1. Main \in Threads /\ pc \in [Threads -> PcValues]
  BY SystemAssumption DEF TypeOK
<1>2. n \in Nat /\ n >= 5
  BY OpFacts
<1>3. step = n - 1 /\ pc[Main] \in DeinitPcs
  <2>1. pc[Main] \in DeinitPcs
    BY DEF DeinitStep, DeinitPop, DeinitCorrupts, DeinitEnds, DeinitDone, At, DeinitPcs
  <2> QED
    BY <2>1, PcFacts
<1>4. ~ undefined /\ srtExp = <<>> /\ collector = {} /\ id \in {0, 1}
  <2>1. ~ HasExporter
    BY <1>3 DEF HasExporter, DeinitPcs
  <2> QED
    BY <1>3, <2>1 DEF PhaseInv, StartingPcs, DeinitPcs
<1>5. DeinitEnds(Main) \/ DeinitDone(Main)
  BY <1>4 DEF DeinitStep, DeinitPop, DeinitCorrupts
<1>6. UNCHANGED <<id, program>> /\ ~ StartFails(Main)
  BY <1>3 DEF Proceeds, StartFails, StartDone, At, DeinitPcs
<1>7. CASE DeinitEnds(Main)
  <2>1. /\ pc'[Main] = "deinit_config"
        /\ UNCHANGED <<undefined, config, collector, srtExp>>
    BY <1>1, <1>7 DEF DeinitEnds, Goto, world, list, exporters
  <2>2. step' = step
    BY <1>6, <2>1 DEF Proceeds
  <2>3. ~ HasExporter' /\ ~ Ended' /\ pc'[Main] \in CallPcs(Current.op)'
    <3>1. ~ Ended /\ Current.op = "deinit"
      BY <1>3, OpFacts DEF PhaseInv, DeinitPcs
    <3> QED
      BY <1>6, <2>1, <2>2, <3>1 DEF HasExporter, Ended, Current, CallPcs, DeinitPcs
  <2>4. step' <= n + 1 /\ step' \in 2 .. n - 1 /\ config # NULL
    BY <1>2, <1>3, <2>2 DEF PhaseInv
  <2> QED
    BY <1>4, <1>6, <2>1, <2>2, <2>3, <2>4 DEF PhaseInv, CallPcs, StartingPcs
<1>8. CASE DeinitDone(Main)
  <2>1. pc'[Main] = "idle" /\ UNCHANGED <<collector, srtExp>>
    BY <1>1, <1>8 DEF DeinitDone, Return, Goto, list, exporters
  <2>2. ~ undefined'
    BY <1>8, SystemAssumption DEF DeinitDone, At
  <2>3. step' = n
    BY <1>2, <1>3, <1>6, <2>1 DEF Proceeds
  <2>4. ~ HasExporter' /\ Len(program'.calls) = n
    BY <1>2, <1>6, <2>3 DEF HasExporter
  <2> HIDE DEF n
  <2>5. step' \notin 2 .. n - 1 /\ step' <= n + 1
    BY <1>2, <2>3
  <2> QED
    BY <1>4, <1>6, <2>1, <2>2, <2>4, <2>5 DEF PhaseInv, CallPcs, StartingPcs
<1> QED
  BY <1>5, <1>7, <1>8

\* A registration finds the exporter, and its collector.
LEMMA PhaseRegister ==
    ASSUME TypeOK, ProgramInv, Sequenced(program), PhaseInv, Proceeds, Register(Main)
    PROVE  /\ PhaseInv'
           /\ FindById(cur[Main]) = 1
           /\ step' = step + 1
           /\ HasExporter
           /\ UNCHANGED id
<1> DEFINE n == Len(program.calls)
<1>1. /\ Main \in Threads
      /\ pc \in [Threads -> PcValues]
      /\ cur \in [Threads -> 0 .. MaxStarts]
  BY SystemAssumption DEF TypeOK
<1>2. n \in Nat /\ n >= 5
  BY OpFacts
<1>3. pc[Main] = "register" /\ step \in 3 .. n - 3
  <2>1. pc[Main] = "register"
    BY DEF Register, At
  <2> QED
    BY <2>1, PcFacts
<1>4. HasExporter
  BY <1>2, <1>3 DEF HasExporter
<1>5. /\ ~ undefined /\ srtExp = <<1>> /\ collector = {1} /\ id = 1
      /\ cur[Main] = 1 /\ config # NULL
  <2>1. step \in 2 .. n - 1
    BY <1>2, <1>3
  <2> QED
    BY <1>3, <1>4, <2>1 DEF PhaseInv
<1>6. FindById(cur[Main]) = 1
  <2>1. Listed = {1}
    BY <1>5 DEF Listed, ToSet
  <2> QED
    BY <1>5, <2>1 DEF FindById
<1>7. /\ pc'[Main] = "idle" /\ undefined' = FALSE
      /\ UNCHANGED <<config, collector, srtExp>>
  BY <1>1, <1>5, <1>6 DEF Register, Return, Goto, list, exporters
<1>8. step' = step + 1 /\ id' = id /\ program' = program
  BY <1>3, <1>7 DEF Proceeds, StartFails, StartDone, At
<1>9. HasExporter' /\ Len(program'.calls) = n /\ step' \in 2 .. n - 1 /\ step' <= n + 1
  BY <1>2, <1>3, <1>7, <1>8 DEF HasExporter
<1> HIDE DEF n
<1>10. PhaseInv'
  BY <1>5, <1>7, <1>8, <1>9 DEF PhaseInv, CallPcs, StartingPcs
<1> QED
  BY <1>4, <1>6, <1>8, <1>10

\* The other steps of the application, and those of the server and of the world,
\* leave its exporter alone.
LEMMA PhaseOthers ==
    ASSUME TypeOK, ProgramInv, Sequenced(program), PhaseInv,
           \/ CInit \/ SocketConnects \/ ClosesSockets \/ Collects \/ Environment
           \/ \E w \in Workers : WorkerSteps(w)
           \/ UNCHANGED sysVars
    PROVE  PhaseInv' /\ UNCHANGED <<id, program>>
<1> DEFINE n == Len(program.calls)
<1>1. n \in Nat /\ n >= 5 /\ step \in Nat /\ step >= 1
  BY OpFacts
<1>2. ASSUME UNCHANGED <<program, step, id, undefined, config, srtExp, collector, pc, cur, arg>>
      PROVE  PhaseInv'
  <2>1. /\ (~ Ended')  <=> ~ Ended
        /\ Current' = Current
        /\ HasExporter' <=> HasExporter
    BY <1>2 DEF Ended, Current, HasExporter
  <2> QED
    BY <1>2, <2>1 DEF PhaseInv
<1>3. ASSUME pc[Main] = "idle", step \in {1} \cup 3 .. n - 3 \cup {n}, step' = step + 1,
             UNCHANGED <<program, id, undefined, srtExp, collector, pc, cur, arg>>,
             IF step = 1 THEN config' # NULL ELSE UNCHANGED config
      PROVE  PhaseInv'
  <2>1. /\ HasExporter <=> step \in 3 .. n - 3
        /\ HasExporter' <=> step \in 3 .. n - 3
        /\ ~ undefined
        /\ step \in 2 .. n - 1 => config # NULL
        /\ srtExp = IF HasExporter \/ pc[Main] \in StartingPcs THEN <<1>> ELSE <<>>
        /\ collector = IF HasExporter THEN {1} ELSE {}
        /\ id \in {0, 1} /\ (HasExporter => id = 1)
    BY <1>1, <1>3 DEF HasExporter, PhaseInv
  <2>2. Len(program'.calls) = n
    BY <1>3
  <2> HIDE DEF n
  <2>3. step' <= n + 1 /\ (step' \in 2 .. n - 1 => config' # NULL)
    BY <1>1, <1>3, <2>1
  <2> QED
    BY <1>3, <2>1, <2>2, <2>3 DEF PhaseInv, CallPcs, StartingPcs
<1>4. CASE CInit
  <2>1. step = 1 /\ pc[Main] = "idle"
    BY <1>4, OpFacts DEF CInit, IsAt, SrtExpInit, At
  <2>2. undefined' = FALSE
    BY <2>1, SystemAssumption, <1>4 DEF CInit, SrtExpInit
  <2>3. ~ undefined /\ config' \in Configs
    BY <1>4 DEF CInit, SrtExpInit, At
  <2>4. UNCHANGED undefined
    BY <2>2, <2>3 DEF TypeOK
  <2>5. UNCHANGED <<program, id, srtExp, collector, pc, cur, arg>> /\ step' = step + 1
    BY <1>4 DEF CInit, SrtExpInit, Advance, list, call, exporters, collectorVars
  <2>6. config' # NULL
    BY <2>3, ApiAssumption
  <2> QED
    BY <1>3, <2>1, <2>4, <2>5, <2>6
<1>5. CASE SocketConnects \/ ClosesSockets
  <2>1. step \in 3 .. n - 3 \cup {n} /\ pc[Main] = "idle"
    <3>1. ~ Ended /\ Current.op \in {"connect", "close"}
      BY <1>5 DEF SocketConnects, ClosesSockets, IsAt
    <3>2. pc[Main] # "idle" => pc[Main] \in CallPcs(Current.op)
      BY DEF PhaseInv
    <3>3. CallPcs(Current.op) = {}
      BY <3>1 DEF CallPcs
    <3> QED
      BY <3>1, <3>2, <3>3, OpFacts
  <2>2. UNCHANGED <<program, id, undefined, config, srtExp, collector, pc, cur, arg>>
        /\ step' = step + 1
    BY <1>5 DEF SocketConnects, ClosesSockets, Advance, vars, world, list, call, exporters
  <2> QED
    BY <1>1, <1>3, <2>1, <2>2
<1>6. CASE \/ Collects \/ Environment \/ UNCHANGED sysVars
           \/ \E w \in Workers : WorkerSteps(w)
  <2>1. UNCHANGED <<program, step, id, undefined, config, srtExp, collector, pc, cur, arg>>
    BY <1>6
       DEF Collects, Environment, WorkerSteps, Scrapes, CollectEnds, Accept, Scrape,
           CollectReturns, CollectDestroys, Reply, WorkerGoto, ForeignBind, ForeignRelease,
           sysVars, vars, world, list, call, exporters
  <2> QED
    BY <1>2, <2>1
<1> QED
  BY <1>4, <1>5, <1>6 DEF CInit, SocketConnects, ClosesSockets, Collects, Environment,
     WorkerSteps, sysVars

\* All steps keep the phase.
LEMMA PhaseNext ==
    ASSUME IInv, ProgramInv, Sequenced(program), PhaseInv, [SystemNext]_sysVars
    PROVE  PhaseInv'
<1>1. TypeOK
  BY DEF IInv
<1>2. CASE Invokes
  BY <1>1, <1>2, PhaseInvokes
<1>3. CASE Proceeds
  <2>1. StartStep(Main) \/ StopStep(Main) \/ DeinitStep(Main) \/ Register(Main)
    BY <1>3 DEF Proceeds, RegisterInCollector
  <2> QED
    BY <1>1, <1>3, <2>1, PhaseStart, PhaseStop, PhaseDeinit, PhaseRegister
<1>4. CASE \/ CInit \/ SocketConnects \/ ClosesSockets \/ Collects \/ Environment
           \/ \E w \in Workers : WorkerSteps(w)
           \/ UNCHANGED sysVars
  BY <1>1, <1>4, PhaseOthers
<1> QED
  BY <1>2, <1>3, <1>4 DEF SystemNext, ProgramCalls

\* The applications that may run are in the order of the samples.
AllSequenced == \A p \in Programs : Sequenced(p)

\* What is known of the API and of the application in every state.
LEMMA PhaseHolds ==
    ASSUME AllSequenced
    PROVE  SystemSpec => [](IInv /\ ProgramInv /\ Sequenced(program) /\ PhaseInv)
<1>1. SystemInit => ProgramInv /\ Sequenced(program) /\ PhaseInv
  <2>1. SystemInit => ProgramInv /\ Sequenced(program)
    BY DEF SystemInit, ProgramInv, AllSequenced
  <2> QED
    BY <2>1, PhaseInit
<1>2. ProgramInv' => Sequenced(program)'
  BY DEF ProgramInv, AllSequenced
<1>3. ProgramInv /\ Sequenced(program) /\ PhaseInv /\ IInv /\ [SystemNext]_sysVars
        => ProgramInv' /\ Sequenced(program)' /\ PhaseInv'
  BY <1>2, ProgramInvNext, PhaseNext
<1>4. SystemSpec => []IInv
  BY ApiIsImplemented, InvariantHolds, PTL
<1> QED
  BY <1>1, <1>3, <1>4, PTL DEF SystemSpec

\* An application that calls as the samples do, init, one start, its registrations,
\* stop and deinit, never makes the API use a null or stale pointer.  The erase(end())
\* of a start that fails (srtexp_api.cpp:96), which C++ leaves undefined, is not
\* counted: after it the theorem speaks of a build in which it does as StartFails.
THEOREM SamplesUseTheApiSafely == AllSequenced => (SystemSpec => []OtherwiseDefined)
<1> SUFFICES ASSUME AllSequenced PROVE SystemSpec => []OtherwiseDefined
  OBVIOUS
<1>1. PhaseInv => OtherwiseDefined
  BY DEF PhaseInv, OtherwiseDefined
<1> QED
  BY <1>1, PhaseHolds, PTL

-----------------------------------------------------------------------------
(* What the registrations leave in the collector                           *)

\* What the types of the collector say of its lists and of the search of an entry.
LEMMA ListFacts ==
    ASSUME CP!TypeOK
    PROVE  /\ commonLabel \in Seq(C!LabelType)
           /\ label \in [C!Entries -> Seq(C!LabelType)]
           /\ \A x : C!EntryOf(x) # 0 =>
                 C!EntryOf(x) \in C!Entries /\ filteredData[C!EntryOf(x)].name = x
           /\ C!EntryOf(NULL) = 0
<1>1. CP!CollectorAssumption
  BY CollectorAssumed
<1>2. C!LabelType = CP!LabelType /\ C!Entries = CP!Entries /\ C!VarNames = CP!VarNames
  BY DEF C!LabelType, CP!LabelType, C!Entries, CP!Entries, C!VarNames, CP!VarNames,
         C!DataMap, CP!DataMap
<1>3. ASSUME NEW x PROVE C!EntryOf(x) = CP!EntryOf(x)
  BY DEF C!EntryOf, CP!EntryOf, C!FirstOf, CP!FirstOf, C!SelectInSeq, CP!SelectInSeq,
         C!Min, CP!Min
<1>4. ASSUME NEW x
      PROVE  /\ CP!EntryOf(x) # 0 =>
                   CP!EntryOf(x) \in CP!Entries /\ filteredData[CP!EntryOf(x)].name = x
             /\ x \notin CP!VarNames => CP!EntryOf(x) = 0
  BY <1>1, CP!EntryFacts
<1>5. commonLabel \in Seq(CP!LabelType) /\ label \in [CP!Entries -> Seq(CP!LabelType)]
  BY DEF CP!TypeOK
<1>6. NULL \notin C!VarNames
  BY SystemAssumption
<1> QED
  BY <1>2, <1>3, <1>4, <1>5, <1>6

\* A label that is registered is what its list gives; what the list gives to other
\* names stays.
LEMMA RegisteredGives ==
    ASSUME NEW l \in Seq(C!LabelType), C!DistinctNames(l), NEW n \in LabelNames,
           NEW v \in LabelValues \cup {NULL}
    PROVE  LET r == C!WithLabel(l, n, v)
           IN  /\ C!DistinctNames(r)
               /\ \A x \in ToSet(r) : x.name = n \/ x \in ToSet(l)
               /\ \A c : c.name = n /\ c.value = v => Gives(r, c)
               /\ \A c : c.name # n /\ Gives(l, c) => Gives(r, c)
<1> DEFINE r == C!WithLabel(l, n, v)
<1>1. CP!CollectorAssumption
  BY CollectorAssumed
<1>2. C!LabelType = CP!LabelType /\ (C!DistinctNames(l) <=> CP!DistinctNames(l))
  BY DEF C!LabelType, CP!LabelType, C!DistinctNames, CP!DistinctNames
<1>3. C!WithLabel(l, n, v) = CP!WithLabel(l, n, v)
  BY DEF C!WithLabel, CP!WithLabel, C!FirstOf, CP!FirstOf, C!SelectInSeq, CP!SelectInSeq,
         C!Min, CP!Min, C!RemoveAt, CP!RemoveAt
<1>4. /\ CP!DistinctNames(r)
      /\ CP!ToSet(r) = {x \in CP!ToSet(l) : x.name # n}
                          \cup IF v = NULL THEN {} ELSE {[name |-> n, value |-> v]}
  BY <1>1, <1>2, <1>3, CP!WithLabelReplaces
<1> HIDE DEF r
<1>5. /\ C!DistinctNames(r)
      /\ ToSet(r) = {x \in ToSet(l) : x.name # n}
                       \cup IF v = NULL THEN {} ELSE {[name |-> n, value |-> v]}
  BY <1>4 DEF C!DistinctNames, CP!DistinctNames, ToSet, CP!ToSet
<1>6. \A x \in ToSet(r) : x.name = n \/ x \in ToSet(l)
  BY <1>5
<1>7. \A c : c.name = n /\ c.value = v => Gives(r, c)
  BY <1>5 DEF Gives
<1>8. \A c : c.name # n /\ Gives(l, c) => Gives(r, c)
  <2> SUFFICES ASSUME NEW c, c.name # n, Gives(l, c) PROVE Gives(r, c)
    OBVIOUS
  <2>1. [name |-> c.name, value |-> c.value].name # n
    OBVIOUS
  <2> QED
    BY <1>5, <2>1 DEF Gives
<1> QED
  BY <1>5, <1>6, <1>7, <1>8 DEF r

\* When the application goes on, the call it was at is later than those before it.
LEMMA Advances ==
    ASSUME ProgramInv, UNCHANGED program, step' = step + 1
    PROVE  /\ \A k \in 1 .. step' - 1 : k \in 1 .. step - 1 \/ k = step
           /\ \A k : Asked(k)' = Asked(k)
           /\ Asked(step) = Current
           /\ \A k \in 1 .. step - 1 : Later(k)' = Later(k) \cup {Current}
           /\ \A k \in 1 .. step - 1 : LastLabel(k)' =>
                 /\ LastLabel(k)
                 /\ Current.op = "label" =>
                       <<Current.name, Current.var>> # <<Asked(k).name, Asked(k).var>>
           /\ \A k \in 1 .. step - 1 : LastSockets(k)' =>
                 LastSockets(k) /\ Current.op # "sockets"
<1>1. step \in Nat /\ step >= 1 /\ step' - 1 = step
  BY DEF ProgramInv
<1>2. \A k \in 1 .. step' - 1 : k \in 1 .. step - 1 \/ k = step
  BY <1>1
<1>3. \A k : Asked(k)' = Asked(k)
  BY DEF Asked
<1>4. Asked(step) = Current
  BY DEF Asked, Current
<1>5. ASSUME NEW k \in 1 .. step - 1
      PROVE  /\ Later(k)' = Later(k) \cup {Current}
             /\ LastLabel(k)' =>
                   /\ LastLabel(k)
                   /\ Current.op = "label" =>
                         <<Current.name, Current.var>> # <<Asked(k).name, Asked(k).var>>
             /\ LastSockets(k)' => LastSockets(k) /\ Current.op # "sockets"
  <2>1. k + 1 .. step' - 1 = (k + 1 .. step - 1) \cup {step}
    BY <1>1
  <2>2. Later(k)' = Later(k) \cup {Current}
    BY <2>1 DEF Later, Current
  <2>3. Asked(k)' = Asked(k)
    BY <1>3
  <2> QED
    BY <2>2, <2>3 DEF LastLabel, LastSockets
<1> QED
  BY <1>2, <1>3, <1>4, <1>5

\* A step that leaves the lists and the sockets keeps what the calls have left, if it
\* gets past no registration.
LEMMA AskedKept ==
    ASSUME AskedInv, ProgramInv,
           UNCHANGED <<program, commonLabel, label, srtSock, filteredData>>,
           step' \in {1, 2} => id' = 0,
           id' = 0 => scrapeAt' = "idle",
           \/ id' = 0
           \/ id # 0 /\ step' = step
           \/ id # 0 /\ step' = step + 1 /\ Current.op \notin {"label", "sockets"}
           \/ \A k \in 1 .. step' - 1 : Asked(k)'.op \notin {"label", "sockets"}
    PROVE  AskedInv'
<1>1. /\ filteredData' = C!LoadFilterFromConfig(program'.collector)
      /\ C!DistinctNames(commonLabel')
      /\ \A l \in ToSet(commonLabel') : l.name \in CommonNames(program')
      /\ \A i \in C!Entries' :
            /\ C!DistinctNames(label'[i])
            /\ \A l \in ToSet(label'[i]) : l.name \in PrivateNames(program')
  BY DEF AskedInv, C!Entries
<1>2. \A x : C!EntryOf(x)' = C!EntryOf(x)
  BY DEF C!EntryOf
<1>3. ASSUME id' # 0, NEW k \in 1 .. step' - 1
      PROVE  /\ LastLabel(k)' =>
                   /\ Asked(k)'.var = NULL => Gives(commonLabel', Asked(k)')
                   /\ Asked(k)'.var # NULL /\ C!EntryOf(Asked(k).var)' # 0 =>
                         Gives(label'[C!EntryOf(Asked(k).var)'], Asked(k)')
             /\ LastSockets(k)' => srtSock' = Asked(k)'.socks
  <2>0. Asked(k)' = Asked(k) /\ C!EntryOf(Asked(k).var)' = C!EntryOf(Asked(k).var)
    BY DEF Asked, C!EntryOf
  <2>1. CASE \A i \in 1 .. step' - 1 : Asked(i)'.op \notin {"label", "sockets"}
    BY <2>1 DEF LastLabel, LastSockets
  <2>2. CASE id # 0 /\ step' = step
    <3>1. (LastLabel(k)' <=> LastLabel(k)) /\ (LastSockets(k)' <=> LastSockets(k))
      BY <2>2 DEF LastLabel, LastSockets, Asked, Later
    <3>2. k \in 1 .. step - 1
      BY <2>2
    <3> QED
      BY <2>0, <2>2, <3>1, <3>2 DEF AskedInv
  <2>3. CASE id # 0 /\ step' = step + 1 /\ Current.op \notin {"label", "sockets"}
    <3>1. CASE k = step
      <4>1. Asked(k)'.op \notin {"label", "sockets"}
        BY <2>0, <2>3, <3>1, Advances
      <4> QED
        BY <4>1 DEF LastLabel, LastSockets
    <3>2. CASE k \in 1 .. step - 1
      <4>1. (LastLabel(k)' => LastLabel(k)) /\ (LastSockets(k)' => LastSockets(k))
        BY <2>3, <3>2, Advances
      <4> QED
        BY <2>0, <2>3, <3>2, <4>1 DEF AskedInv
    <3> QED
      BY <2>3, <3>1, <3>2, Advances
  <2> QED
    BY <1>3, <2>1, <2>2, <2>3
<1> QED
  BY <1>1, <1>3 DEF AskedInv

\* A registration of sockets replaces those of the collector.
LEMMA AskedSockets ==
    ASSUME AskedInv, ProgramInv, id # 0, id' = id, UNCHANGED <<program, scrapeAt>>,
           step' = step + 1, step >= 3, Current.op = "sockets",
           srtSock' = Current.socks, UNCHANGED <<commonLabel, label, filteredData>>
    PROVE  AskedInv'
<1>1. /\ filteredData' = C!LoadFilterFromConfig(program'.collector)
      /\ C!DistinctNames(commonLabel')
      /\ \A l \in ToSet(commonLabel') : l.name \in CommonNames(program')
      /\ \A i \in C!Entries' :
            /\ C!DistinctNames(label'[i])
            /\ \A l \in ToSet(label'[i]) : l.name \in PrivateNames(program')
  BY DEF AskedInv, C!Entries
<1>2. step \in Nat
  BY DEF ProgramInv
<1>3. ASSUME NEW k \in 1 .. step' - 1
      PROVE  /\ LastLabel(k)' =>
                   /\ Asked(k)'.var = NULL => Gives(commonLabel', Asked(k)')
                   /\ Asked(k)'.var # NULL /\ C!EntryOf(Asked(k).var)' # 0 =>
                         Gives(label'[C!EntryOf(Asked(k).var)'], Asked(k)')
             /\ LastSockets(k)' => srtSock' = Asked(k)'.socks
  <2>1. Asked(k)' = Asked(k) /\ C!EntryOf(Asked(k).var)' = C!EntryOf(Asked(k).var)
    BY DEF Asked, C!EntryOf
  <2>2. CASE k = step
    <3>1. Asked(k) = Current
      BY <2>2, Advances
    <3> QED
      BY <2>1, <3>1 DEF LastLabel
  <2>3. CASE k \in 1 .. step - 1
    <3>1. (LastLabel(k)' => LastLabel(k)) /\ ~ LastSockets(k)'
      BY <2>3, Advances
    <3> QED
      BY <2>1, <2>3, <3>1 DEF AskedInv
  <2> QED
    BY <2>2, <2>3, Advances
<1> QED
  BY <1>1, <1>2, <1>3 DEF AskedInv

\* A registration of a label changes the list it is for, if it is not refused.
LEMMA AskedLabel ==
    ASSUME AskedInv, ProgramInv, CP!TypeOK, id # 0, id' = id, UNCHANGED <<program, scrapeAt>>,
           ~ Ended, step' = step + 1, step >= 3, Current.op = "label",
           C!LabelRegister(Current.name, Current.value, Current.var)
    PROVE  AskedInv'
<1> DEFINE n == Current.name
           v == Current.value
           var == Current.var
           e == C!EntryOf(var)
<1>1. n \in LabelNames \cup {NULL} /\ v \in LabelValues \cup {NULL}
  BY CurrentFacts
<1>2. UNCHANGED <<filteredData, srtSock>>
  BY DEF C!LabelRegister
<1>3. /\ commonLabel \in Seq(C!LabelType)
      /\ label \in [C!Entries -> Seq(C!LabelType)]
      /\ \A x : C!EntryOf(x) # 0 =>
            C!EntryOf(x) \in C!Entries /\ filteredData[C!EntryOf(x)].name = x
      /\ C!EntryOf(NULL) = 0
  BY ListFacts
<1>4. C!Entries' = C!Entries
  BY <1>2 DEF C!Entries
<1>5. Current \in LabelCalls(program)
  <2>1. step \in 1 .. Len(program.calls) /\ DOMAIN program.calls = 1 .. Len(program.calls)
    BY SystemAssumption, LenProperties DEF ProgramInv, Ended
  <2> QED
    BY <2>1 DEF LabelCalls, ToSet, Current
<1>6. CASE C!LabelRefused(n, var)
  <2>1. UNCHANGED <<commonLabel, label>>
    BY <1>6 DEF C!LabelRegister, C!labels
  <2>2. n = NULL \/ (var # NULL /\ e = 0)
    BY <1>6 DEF C!LabelRefused
  <2>3. ASSUME NEW k \in 1 .. step' - 1
        PROVE  /\ LastLabel(k)' =>
                     /\ Asked(k)'.var = NULL => Gives(commonLabel', Asked(k)')
                     /\ Asked(k)'.var # NULL /\ C!EntryOf(Asked(k).var)' # 0 =>
                           Gives(label'[C!EntryOf(Asked(k).var)'], Asked(k)')
               /\ LastSockets(k)' => srtSock' = Asked(k)'.socks
    <3>1. Asked(k)' = Asked(k) /\ C!EntryOf(Asked(k).var)' = C!EntryOf(Asked(k).var)
      BY <1>2 DEF Asked, C!EntryOf
    <3>2. CASE k = step
      <4>1. Asked(k) = Current
        BY <3>2, Advances
      <4> QED
        BY <2>2, <3>1, <4>1 DEF LastLabel, LastSockets
    <3>3. CASE k \in 1 .. step - 1
      <4>1. (LastLabel(k)' => LastLabel(k)) /\ (LastSockets(k)' => LastSockets(k))
        BY <3>3, Advances
      <4> QED
        BY <1>2, <2>1, <3>1, <3>3, <4>1 DEF AskedInv
    <3> QED
      BY <3>2, <3>3, Advances
  <2>4. step \in Nat
    BY DEF ProgramInv
  <2> QED
    BY <1>2, <1>4, <2>1, <2>3, <2>4 DEF AskedInv
<1>7. CASE ~ C!LabelRefused(n, var)
  <2>1. /\ commonLabel' = IF var = NULL THEN C!WithLabel(commonLabel, n, v) ELSE commonLabel
        /\ label' = [i \in C!Entries |->
              IF i = e THEN C!WithLabel(label[i], n, v) ELSE label[i]]
    BY <1>7 DEF C!LabelRegister
  <2>2. n \in LabelNames /\ (var # NULL => e # 0)
    BY <1>1, <1>7 DEF C!LabelRefused
  <2>3. C!DistinctNames(commonLabel) /\ \A i \in C!Entries : C!DistinctNames(label[i])
    BY DEF AskedInv
  <2>4. LET r == C!WithLabel(commonLabel, n, v)
        IN  /\ C!DistinctNames(r)
            /\ \A x \in ToSet(r) : x.name = n \/ x \in ToSet(commonLabel)
            /\ \A c : c.name = n /\ c.value = v => Gives(r, c)
            /\ \A c : c.name # n /\ Gives(commonLabel, c) => Gives(r, c)
    BY <1>1, <1>3, <2>2, <2>3, RegisteredGives
  <2>5. \A i \in C!Entries :
           LET r == C!WithLabel(label[i], n, v)
           IN  /\ C!DistinctNames(r)
               /\ \A x \in ToSet(r) : x.name = n \/ x \in ToSet(label[i])
               /\ \A c : c.name = n /\ c.value = v => Gives(r, c)
               /\ \A c : c.name # n /\ Gives(label[i], c) => Gives(r, c)
    <3> TAKE i \in C!Entries
    <3>1. label[i] \in Seq(C!LabelType) /\ C!DistinctNames(label[i])
      BY <1>3, <2>3
    <3> QED
      BY <1>1, <2>2, <3>1, RegisteredGives
  <2>6. C!DistinctNames(commonLabel') /\ \A l \in ToSet(commonLabel') : l.name \in CommonNames(program)
    <3>1. var = NULL => n \in CommonNames(program)
      BY <1>5 DEF CommonNames
    <3>2. \A l \in ToSet(commonLabel) : l.name \in CommonNames(program)
      BY DEF AskedInv
    <3> HIDE DEF n, v, var, e
    <3> QED
      BY <2>1, <2>3, <2>4, <3>1, <3>2
  <2>7. \A i \in C!Entries :
           /\ C!DistinctNames(label'[i])
           /\ \A l \in ToSet(label'[i]) : l.name \in PrivateNames(program)
    <3> TAKE i \in C!Entries
    <3>1. i = e => n \in PrivateNames(program)
      <4>1. 0 \notin C!Entries
        BY SystemAssumption, CP!TypeOK, LenProperties DEF C!Entries, CP!TypeOK
      <4>2. i = e => var # NULL
        BY <1>3, <4>1
      <4> QED
        BY <1>5, <4>2 DEF PrivateNames
    <3>2. \A l \in ToSet(label[i]) : l.name \in PrivateNames(program)
      BY DEF AskedInv
    <3>3. label'[i] = IF i = e THEN C!WithLabel(label[i], n, v) ELSE label[i]
      BY <2>1
    <3> HIDE DEF n, v, var, e
    <3> QED
      BY <2>3, <2>5, <3>1, <3>2, <3>3
  <2>8. ASSUME NEW k \in 1 .. step' - 1
        PROVE  /\ LastLabel(k)' =>
                     /\ Asked(k)'.var = NULL => Gives(commonLabel', Asked(k)')
                     /\ Asked(k)'.var # NULL /\ C!EntryOf(Asked(k).var)' # 0 =>
                           Gives(label'[C!EntryOf(Asked(k).var)'], Asked(k)')
               /\ LastSockets(k)' => srtSock' = Asked(k)'.socks
    <3> DEFINE c == Asked(k)
               j == C!EntryOf(Asked(k).var)
    <3>1. Asked(k)' = c /\ C!EntryOf(Asked(k).var)' = j
      BY <1>2 DEF Asked, C!EntryOf
    <3>2. j # 0 => /\ j \in C!Entries /\ filteredData[j].name = c.var
                   /\ label'[j] = IF j = e THEN C!WithLabel(label[j], n, v) ELSE label[j]
      BY <1>3, <2>1
    <3>3. e # 0 => filteredData[e].name = var
      BY <1>3
    <3>4. CASE k = step
      <4>1. c = Current
        BY <3>4, Advances
      <4>2. c.name = n /\ c.value = v /\ c.var = var /\ j = e
        BY <4>1
      <4>3. ~ LastSockets(k)'
        BY <3>1, <4>1 DEF LastSockets
      <4> HIDE DEF c, j, n, v, var, e
      <4>4. var = NULL => Gives(commonLabel', c)
        BY <2>1, <2>4, <4>2
      <4>5. j # 0 => Gives(label'[j], c)
        BY <2>5, <3>2, <4>2
      <4> QED
        BY <3>1, <4>2, <4>3, <4>4, <4>5
    <3>5. CASE k \in 1 .. step - 1
      <4>1. /\ LastLabel(k)' => LastLabel(k) /\ <<n, var>> # <<c.name, c.var>>
            /\ LastSockets(k)' => LastSockets(k)
        BY <3>5, Advances
      <4>2. /\ LastLabel(k) =>
                  /\ c.var = NULL => Gives(commonLabel, c)
                  /\ c.var # NULL /\ j # 0 => Gives(label[j], c)
            /\ LastSockets(k) => srtSock = c.socks
        BY <3>5 DEF AskedInv
      <4> HIDE DEF c, j, n, v, var, e
      <4>3. LastLabel(k)' /\ c.var = NULL => Gives(commonLabel', c)
        BY <2>1, <2>4, <4>1, <4>2
      <4>4. LastLabel(k)' /\ c.var # NULL /\ j # 0 => Gives(label'[j], c)
        BY <2>5, <3>2, <3>3, <4>1, <4>2
      <4> QED
        BY <1>2, <3>1, <4>1, <4>2, <4>3, <4>4
    <3> QED
      BY <3>4, <3>5, Advances
  <2>9. step \in Nat
    BY DEF ProgramInv
  <2> HIDE DEF n, v, var, e
  <2> QED
    BY <1>2, <1>4, <2>6, <2>7, <2>8, <2>9 DEF AskedInv
<1> QED
  BY <1>6, <1>7

\* The library as it is loaded, with the labels of the configuration.
LEMMA AskedInit == SystemInit /\ AsksOnce(program) => AskedInv
<1> SUFFICES ASSUME SystemInit, AsksOnce(program) PROVE AskedInv
  OBVIOUS
<1>1. /\ commonLabel = program.collector.labelList
      /\ filteredData = C!LoadFilterFromConfig(program.collector)
      /\ label = [i \in C!Entries |-> <<>>]
      /\ scrapeAt = "idle" /\ step = 1 /\ id = 0
  BY DEF SystemInit, C!Init
<1>2. C!DistinctNames(<<>>) /\ ToSet(<<>>) = {}
  BY DEF C!DistinctNames, ToSet
<1>3. C!DistinctNames(commonLabel)
  BY <1>1 DEF AsksOnce
<1>4. \A l \in ToSet(commonLabel) : l.name \in CommonNames(program)
  BY <1>1 DEF CommonNames
<1> QED
  BY <1>1, <1>2, <1>3, <1>4 DEF AskedInv

\* The steps that are not registrations.
LEMMA AskedOthers ==
    ASSUME TypeOK, ProgramInv, Sequenced(program), PhaseInv, AskedInv,
           \/ CInit \/ Invokes \/ SocketConnects \/ ClosesSockets \/ Collects \/ Environment
           \/ \E w \in Workers : WorkerSteps(w)
           \/ Proceeds /\ ~ Register(Main)
           \/ UNCHANGED sysVars
    PROVE  AskedInv'
<1>1. /\ step \in {1, 2} => id = 0
      /\ id = 0 => scrapeAt = "idle"
  BY DEF AskedInv
<1>2. step \in Nat /\ step >= 1 /\ Len(program.calls) \in Nat /\ Len(program.calls) >= 5
  BY OpFacts
<1>3. CASE CInit
  <2>1. /\ UNCHANGED <<program, commonLabel, label, srtSock, filteredData, scrapeAt, id>>
        /\ step' = step + 1 /\ step = 1
    BY <1>3, OpFacts DEF CInit, IsAt, Advance, collectorVars
  <2> QED
    BY <1>1, <2>1, AskedKept
<1>4. CASE Invokes \/ UNCHANGED sysVars
  <2>1. UNCHANGED <<program, commonLabel, label, srtSock, filteredData, scrapeAt, id, step>>
    BY <1>4 DEF Invokes, collectorVars, sysVars
  <2> QED
    BY <1>1, <2>1, AskedKept
<1>5. CASE SocketConnects \/ ClosesSockets
  <2>1. /\ UNCHANGED <<program, commonLabel, label, srtSock, filteredData, scrapeAt, id>>
        /\ step' = step + 1 /\ ~ Ended /\ Current.op \in {"connect", "close"}
    BY <1>5
       DEF SocketConnects, ClosesSockets, IsAt, Advance, collectorVars, C!SocketConnects,
           C!SocketCloses, C!labels, C!scrape
  <2>2. step \notin {1, 2}
    BY <2>1, OpFacts
  <2>3. step' \notin {1, 2}
    BY <1>2, <2>1, <2>2
  <2> QED
    BY <1>1, <2>1, <2>3, AskedKept
<1>6. CASE Collects \/ Environment \/ \E w \in Workers : WorkerSteps(w)
  <2>1. /\ UNCHANGED <<program, commonLabel, label, srtSock, filteredData, id, step>>
        /\ scrapeAt = "idle" => scrapeAt' = "idle" \/ 1 \in collector
    <3>1. CASE Collects
      BY <3>1
         DEF Collects, C!CollectStep, C!CollectSocket, C!SkipSocket, C!NextSocket, C!SocketDone,
             C!CollectNothing, C!CountLabels, C!FillPrivate, C!FillCommon, C!ScrapeAt, C!labels
    <3>2. CASE Environment
      BY <3>2 DEF Environment, C!StatGrows, C!SocketCloses, C!labels, C!scrape, collectorVars
    <3>3. CASE \E w \in Workers : WorkerSteps(w)
      <4>1. PICK w \in Workers : WorkerSteps(w)
        BY <3>3
      <4>2. CASE Scrapes(w)
        <5>1. worker'[1][w] = "collecting" => 1 \in collector
          <6>1. worker \in [Ids -> [Workers -> WorkerStates]] /\ 1 \in Ids
            BY SystemAssumption DEF TypeOK, Ids
          <6> QED
            BY <4>2, <6>1 DEF Scrapes, Scrape, WorkerGoto
        <5> QED
          BY <4>1, <4>2, <5>1
             DEF WorkerSteps, Scrapes, C!CollectStarts, C!labels, collectorVars
      <4>3. CASE CollectEnds(w) \/ (Reply(1, w) /\ UNCHANGED collectorVars)
        BY <4>1, <4>3 DEF WorkerSteps, CollectEnds, C!Reply, C!labels, collectorVars
      <4> QED
        BY <4>1, <4>2, <4>3 DEF WorkerSteps
    <3> QED
      BY <1>6, <3>1, <3>2, <3>3
  <2>2. 1 \in collector => id = 1
    BY DEF PhaseInv
  <2> QED
    BY <1>1, <2>1, <2>2, AskedKept
<1>7. CASE Proceeds /\ ~ Register(Main)
  <2>1. /\ UNCHANGED <<program, commonLabel, label, srtSock, filteredData, scrapeAt>>
        /\ StartStep(Main) \/ StopStep(Main) \/ DeinitStep(Main)
    BY <1>7 DEF Proceeds, RegisterInCollector, collectorVars
  <2>2. CASE StartFails(Main)
    <3>1. pc[Main] = "start_bind" /\ ~ StartDone(Main)
      BY <2>2 DEF StartFails, StartDone, At
    <3>2. step = 2
      BY <3>1, PcFacts DEF StartingPcs
    <3>3. id' = id
      BY <1>7, <3>1 DEF Proceeds
    <3> QED
      BY <1>1, <2>1, <3>2, <3>3, AskedKept
  <2>3. CASE StartDone(Main)
    <3>1. pc[Main] = "start_collector" /\ ~ StartFails(Main)
      BY <2>3 DEF StartFails, StartDone, At
    <3>2. step = 2
      BY <3>1, PcFacts DEF StartingPcs
    <3>3. step' \in {2, 3} /\ id' \in {id, cur[Main]}
      BY <1>7, <3>1, <3>2 DEF Proceeds
    <3>4. /\ ~ undefined'  /\ pc'[Main] = "idle" /\ cur[Main] = 1
      <4>1. PhaseInv'
        BY <1>7, <2>3, PhaseStart DEF StartStep
      <4>2. ~ undefined' /\ cur[Main] = 1
        BY <3>1, <4>1 DEF PhaseInv, StartingPcs
      <4>3. pc \in [Threads -> PcValues] /\ Main \in Threads
        BY SystemAssumption DEF TypeOK
      <4>4. config # NULL
        BY <2>3, <4>2 DEF StartDone
      <4> QED
        BY <2>3, <4>2, <4>3, <4>4 DEF StartDone, Return, Goto
    <3>5. step' = 3 /\ id' = 1
      BY <1>7, <2>3, <3>1, <3>2, <3>4 DEF Proceeds
    <3>6. \A k \in 1 .. step' - 1 : Asked(k)'.op \notin {"label", "sockets"}
      <4>1. Asked(1)' = Asked(1) /\ Asked(2)' = Asked(2)
        BY <2>1 DEF Asked
      <4>2. Asked(1).op = "init" /\ Asked(2).op = "start"
        <5>1. DOMAIN program.calls = 1 .. Len(program.calls)
          BY SystemAssumption, LenProperties DEF ProgramInv
        <5> QED
          BY <1>2, <5>1 DEF Sequenced, Asked
      <4>3. \A k \in 1 .. step' - 1 : k = 1 \/ k = 2
        BY <3>5
      <4> QED
        BY <4>1, <4>2, <4>3
    <3> QED
      BY <2>1, <3>5, <3>6, AskedKept
  <2>4. CASE ~ StartFails(Main) /\ ~ StartDone(Main)
    <3>1. id' = id /\ step' \in {step, step + 1}
      BY <1>7, <2>4 DEF Proceeds
    <3>2. step = 2 \/ step = Len(program.calls) - 2 \/ step = Len(program.calls) - 1
      BY <2>1, PcFacts
         DEF StartStep, StartThrows, ExceptionEscapes, StartFinds, StartCreates,
             StartWithoutConfig, StartEnters, ProbeFinds, ProbeRejects, ProbeEnds, StartBinds,
             StartFails, StartDone, StopStep, StopFinds, StopNotFound, DeleteSrtExporter,
             StopReleasesLast, StopReleasesShared, StopDone, DeinitStep, DeinitPop,
             DeinitCorrupts, DeinitEnds, DeinitDone, At, StartingPcs, DeinitPcs
    <3>3. Current.op \notin {"label", "sockets"}
      BY <1>2, <3>2, OpFacts
    <3>4. step' \in {1, 2} => id = 0
      BY <1>1, <1>2, <3>1, <3>2
    <3> QED
      BY <1>1, <2>1, <3>1, <3>3, <3>4, AskedKept
  <2> QED
    BY <2>2, <2>3, <2>4
<1> QED
  BY <1>3, <1>4, <1>5, <1>6, <1>7

\* A registration that ends has reached the collector of the exporter.
LEMMA AskedRegister ==
    ASSUME TypeOK, CP!TypeOK, ProgramInv, Sequenced(program), PhaseInv, AskedInv,
           Proceeds, Register(Main)
    PROVE  AskedInv'
<1>1. /\ PhaseInv' /\ FindById(cur[Main]) = 1 /\ step' = step + 1 /\ HasExporter
      /\ UNCHANGED id
  BY PhaseRegister
<1>2. pc[Main] = "register"
  BY DEF Register, At
<1>3. ~ (StartStep(Main) \/ StopStep(Main) \/ DeinitStep(Main))
  BY <1>2
     DEF StartStep, StartThrows, ExceptionEscapes, StartFinds, StartCreates,
         StartWithoutConfig, StartEnters, ProbeFinds, ProbeRejects, ProbeEnds, StartBinds,
         StartFails, StartDone, StopStep, StopFinds, StopNotFound, DeleteSrtExporter,
         StopReleasesLast, StopReleasesShared, StopDone, DeinitStep, DeinitPop,
         DeinitCorrupts, DeinitEnds, DeinitDone, At
<1>4. ~ undefined' /\ id = 1 /\ step >= 3
  BY <1>1, OpFacts DEF PhaseInv, HasExporter
<1>5. UNCHANGED program
  BY DEF Proceeds
<1>6. \/ IsAt("label") /\ C!LabelRegister(Current.name, Current.value, Current.var)
      \/ IsAt("sockets") /\ C!SrtSockRegister(Current.socks)
  BY <1>1, <1>3, <1>4 DEF Proceeds, RegisterInCollector
<1>7. CASE IsAt("label") /\ C!LabelRegister(Current.name, Current.value, Current.var)
  <2>1. UNCHANGED scrapeAt
    BY <1>7 DEF C!LabelRegister, C!scrape
  <2>2. ~ Ended /\ Current.op = "label"
    BY <1>7 DEF IsAt
  <2>3. id # 0
    BY <1>4
  <2> QED
    BY <1>1, <1>4, <1>5, <1>7, <2>1, <2>2, <2>3, AskedLabel
<1>8. CASE IsAt("sockets") /\ C!SrtSockRegister(Current.socks)
  <2>1. UNCHANGED <<scrapeAt, commonLabel, label, filteredData>>
        /\ srtSock' = Current.socks
    BY <1>8 DEF C!SrtSockRegister, C!scrape, C!labels
  <2>2. Current.op = "sockets"
    BY <1>8 DEF IsAt
  <2>3. id # 0
    BY <1>4
  <2> QED
    BY <1>1, <1>4, <1>5, <2>1, <2>2, <2>3, AskedSockets
<1> QED
  BY <1>6, <1>7, <1>8

\* All steps keep what was asked for.
LEMMA AskedNext ==
    ASSUME TypeOK, CP!TypeOK, ProgramInv, Sequenced(program), PhaseInv, AskedInv,
           [SystemNext]_sysVars
    PROVE  AskedInv'
<1>1. CASE Proceeds /\ Register(Main)
  BY <1>1, AskedRegister
<1>2. CASE \/ CInit \/ Invokes \/ SocketConnects \/ ClosesSockets \/ Collects \/ Environment
           \/ \E w \in Workers : WorkerSteps(w)
           \/ Proceeds /\ ~ Register(Main)
           \/ UNCHANGED sysVars
  BY <1>2, AskedOthers
<1> QED
  BY <1>1, <1>2 DEF SystemNext, ProgramCalls

\* The applications that may run ask for nothing twice.
AllAskOnce == \A p \in Programs : AsksOnce(p)

LEMMA AskedHolds ==
    ASSUME AllSequenced, AllAskOnce
    PROVE  SystemSpec => [](ProgramInv /\ CP!TypeOK /\ AskedInv)
<1>1. CP!CollectorAssumption
  BY CollectorAssumed
<1>2. SystemSpec => []CP!TypeOK
  <2>1. CP!Spec => []CP!TypeOK
    BY <1>1, CP!TypeCorrect
  <2> QED
    BY <2>1, CollectorRuns, PTL
<1>3. SystemInit => AskedInv
  <2>1. SystemInit => AsksOnce(program)
    BY DEF SystemInit, AllAskOnce
  <2> QED
    BY <2>1, AskedInit
<1>4. IInv /\ ProgramInv /\ Sequenced(program) /\ PhaseInv /\ CP!TypeOK /\ AskedInv
        /\ [SystemNext]_sysVars => AskedInv'
  BY AskedNext DEF IInv
<1> QED
  BY <1>2, <1>3, <1>4, PhaseHolds, PTL DEF SystemSpec

-----------------------------------------------------------------------------
(* What an answer tells                                                    *)

\* The entries of the filter are the variables of the list, each once.
LEMMA SelectedOnce ==
    ASSUME ProgramInv, AskedInv, AllAskOnce
    PROVE  /\ CP!DistinctNames(filteredData)
           /\ {filteredData[k].name : k \in DOMAIN filteredData}
                 = ToSet(program.collector.varList)
<1> DEFINE cfg == program.collector
<1>1. CP!CollectorAssumption
  BY CollectorAssumed
<1>2. AsksOnce(program) /\ cfg.varList \in Seq(STRING) /\ cfg \in {p.collector : p \in Programs}
  BY SystemAssumption DEF ProgramInv, AllAskOnce
<1>3. cfg.filterMode = "WHITELIST" /\ ToSet(cfg.varList) \subseteq C!VarNames
  BY <1>2 DEF AsksOnce
<1>4. filteredData = CP!LoadFilterFromConfig(cfg)
  <2>1. C!LoadFilterFromConfig(cfg) = CP!LoadFilterFromConfig(cfg)
    BY DEF C!FlattenSeq, CP!FlattenSeq, C!LoadFilterFromConfig, CP!LoadFilterFromConfig,
           C!Pushes, CP!Pushes, C!Passes, CP!Passes, C!DataMap, CP!DataMap
  <2> QED
    BY <2>1 DEF AskedInv
<1>5. CP!DistinctEntries
  <2>1. \A p \in Programs : p.collector.filterMode = "WHITELIST"
                            /\ CP!IsInjective(p.collector.varList)
    BY DEF AllAskOnce, AsksOnce, IsInjective, CP!IsInjective
  <2>2. CP!ListsOnce
    BY <2>1 DEF CP!ListsOnce
  <2> QED
    BY <1>1, <2>2, CP!ListsOnceAreDistinct
<1>6. CP!DistinctNames(filteredData)
  BY <1>2, <1>4, <1>5 DEF CP!DistinctEntries, CP!DistinctNames
<1>7. {filteredData[k].name : k \in DOMAIN filteredData}
         = CP!ToSet(cfg.varList) \cap CP!VarNames
  BY <1>1, <1>2, <1>3, <1>4, CP!WhitelistExports
<1>8. CP!ToSet(cfg.varList) = ToSet(cfg.varList) /\ C!VarNames = CP!VarNames
  BY DEF ToSet, CP!ToSet, C!VarNames, CP!VarNames, C!DataMap, CP!DataMap
<1> QED
  BY <1>3, <1>6, <1>7, <1>8

\* The families of the sockets that were asked for.
LEMMA SocketsAreTold ==
    ASSUME ProgramInv, AskedInv, AllAskOnce, CP!TypeOK, CP!EverySocketReported,
           scrapeAt = "done", NEW k \in 1 .. step - 1, LastSockets(k),
           k <= Len(program.calls),
           NEW s \in ToSet(Asked(k).socks), NEW n \in ToSet(program.collector.varList),
           s \in open, before[s] # NULL
    PROVE  TellsOnce(s, n)
<1>1. CP!CollectorAssumption
  BY CollectorAssumed
<1>2. id # 0
  BY DEF AskedInv
<1>3. srtSock = Asked(k).socks
  BY <1>2 DEF AskedInv
<1>4. CP!IsInjective(srtSock)
  <2>1. step \in Nat /\ DOMAIN program.calls = 1 .. Len(program.calls)
    BY SystemAssumption, LenProperties DEF ProgramInv
  <2>2. Asked(k) \in SocketCalls(program)
    BY <2>1 DEF SocketCalls, LastSockets, Asked, ToSet
  <2>3. IsInjective(Asked(k).socks)
    BY <2>2 DEF AllAskOnce, AsksOnce, ProgramInv
  <2> QED
    BY <1>3, <2>3 DEF IsInjective, CP!IsInjective
<1>5. PICK e \in CP!Entries : filteredData[e].name = n
  BY SelectedOnce DEF CP!Entries
<1>6. s \in CP!ToSet(srtSock)
  BY <1>3 DEF ToSet, CP!ToSet
<1>7. \E i \in DOMAIN translated : \A j \in DOMAIN translated :
         (translated[j].sock = s /\ translated[j].name = filteredData[e].name) <=> j = i
  BY <1>1, <1>4, <1>6, SelectedOnce, CP!ReportedOnce
<1> QED
  BY <1>5, <1>7 DEF TellsOnce

\* The parts of the labels of a metric.
LEMMA PartsOfLabels ==
    ASSUME NEW S, NEW h \in S, NEW a \in Seq(S), NEW b \in Seq(S)
    PROVE  /\ Len(a) \in Nat /\ Len(b) \in Nat
           /\ DOMAIN (<<h>> \o a \o b) = 1 .. 1 + Len(a) + Len(b)
           /\ (<<h>> \o a \o b)[1] = h
           /\ \A j \in 1 .. Len(a) : (<<h>> \o a \o b)[1 + j] = a[j]
           /\ \A j \in 1 .. Len(b) : (<<h>> \o a \o b)[1 + Len(a) + j] = b[j]
<1> DEFINE one == <<h>>
           q == one \o a
           w == q \o b
<1>1. Len(a) \in Nat /\ Len(b) \in Nat
  BY LenProperties
<1>2. one \in Seq(S) /\ Len(one) = 1 /\ one[1] = h
  OBVIOUS
<1> HIDE DEF one
<1>3. /\ q \in Seq(S)
      /\ Len(q) = Len(one) + Len(a)
      /\ \A j \in 1 .. Len(one) + Len(a) : q[j] = IF j <= Len(one) THEN one[j] ELSE a[j - Len(one)]
  <2>1. one \in Seq(S)
    BY <1>2
  <2> QED
    BY <2>1, ConcatProperties
<1> HIDE DEF q
<1>4. /\ w \in Seq(S)
      /\ Len(w) = Len(q) + Len(b)
      /\ \A j \in 1 .. Len(q) + Len(b) : w[j] = IF j <= Len(q) THEN q[j] ELSE b[j - Len(q)]
  <2>1. q \in Seq(S)
    BY <1>3
  <2> QED
    BY <2>1, ConcatProperties
<1> HIDE DEF w
<1>5. DOMAIN w = 1 .. 1 + Len(a) + Len(b)
  <2>1. DOMAIN w = 1 .. Len(w)
    BY <1>4, LenProperties
  <2> QED
    BY <1>1, <1>2, <1>3, <1>4, <2>1
<1>6. w[1] = h
  <2>1. 1 \in 1 .. Len(q) + Len(b) /\ 1 <= Len(q) /\ 1 \in 1 .. Len(one) + Len(a) /\ 1 <= Len(one)
    BY <1>1, <1>2, <1>3
  <2> QED
    BY <1>2, <1>3, <1>4, <2>1
<1>7. ASSUME NEW j \in 1 .. Len(a) PROVE w[1 + j] = a[j]
  <2>1. /\ 1 + j \in 1 .. Len(q) + Len(b) /\ 1 + j <= Len(q)
        /\ 1 + j \in 1 .. Len(one) + Len(a) /\ ~ (1 + j <= Len(one)) /\ 1 + j - Len(one) = j
    BY <1>1, <1>2, <1>3
  <2> QED
    BY <1>3, <1>4, <2>1
<1>8. ASSUME NEW j \in 1 .. Len(b) PROVE w[1 + Len(a) + j] = b[j]
  <2>1. /\ 1 + Len(a) + j \in 1 .. Len(q) + Len(b) /\ ~ (1 + Len(a) + j <= Len(q))
        /\ 1 + Len(a) + j - Len(q) = j
    BY <1>1, <1>2, <1>3
  <2> QED
    BY <1>4, <2>1
<1> QED
  BY <1>1, <1>5, <1>6, <1>7, <1>8 DEF w, q, one

\* What one of the lists gives, the labels of a metric carry, when no other part
\* of them has the name: here the private list ...
LEMMA CarriesPrivate ==
    ASSUME NEW S, NEW h \in S, NEW a \in Seq(S), NEW b \in Seq(S), NEW c,
           h.name # c.name, C!DistinctNames(a), Gives(a, c),
           \A x \in ToSet(b) : x.name # c.name
    PROVE  Carries(<<h>> \o a \o b, c.name, c.value)
<1> DEFINE w == <<h>> \o a \o b
<1>1. /\ Len(a) \in Nat /\ Len(b) \in Nat
      /\ DOMAIN w = 1 .. 1 + Len(a) + Len(b)
      /\ w[1] = h
      /\ \A j \in 1 .. Len(a) : w[1 + j] = a[j]
      /\ \A j \in 1 .. Len(b) : w[1 + Len(a) + j] = b[j]
  BY PartsOfLabels
<1> HIDE DEF w
<1>2. DOMAIN a = 1 .. Len(a) /\ DOMAIN b = 1 .. Len(b)
  BY LenProperties
<1>3. \A j \in 1 .. Len(b) : b[j].name # c.name
  BY <1>2 DEF ToSet
<1>4. ASSUME NEW i \in DOMAIN w, w[i].name = c.name
      PROVE  \E j \in 1 .. Len(a) : i = 1 + j /\ a[j].name = c.name
  <2>1. i \in 1 .. 1 + Len(a) + Len(b) /\ i # 1
    BY <1>1, <1>4
  <2>2. CASE i \in 2 .. 1 + Len(a)
    <3>1. i - 1 \in 1 .. Len(a) /\ i = 1 + (i - 1)
      BY <1>1, <2>2
    <3>2. a[i - 1].name = c.name
      BY <1>1, <1>4, <3>1
    <3> QED
      BY <3>1, <3>2
  <2>3. CASE i > 1 + Len(a)
    <3>1. i - 1 - Len(a) \in 1 .. Len(b) /\ i = 1 + Len(a) + (i - 1 - Len(a))
      <4>1. ASSUME NEW m \in Nat, NEW n \in Nat, NEW l \in 1 .. 1 + m + n, l > 1 + m
            PROVE  l - 1 - m \in 1 .. n /\ l = 1 + m + (l - 1 - m)
        BY <4>1
      <4> QED
        BY <1>1, <2>1, <2>3, <4>1
    <3>2. b[i - 1 - Len(a)].name = c.name
      BY <1>1, <1>4, <3>1
    <3> QED
      BY <1>3, <3>1, <3>2
  <2> QED
    BY <1>1, <2>1, <2>2, <2>3
<1>5. CASE c.value = NULL
  <2>1. \A j \in 1 .. Len(a) : a[j].name # c.name
    BY <1>2, <1>5 DEF Gives, ToSet
  <2> QED
    BY <1>4, <1>5, <2>1 DEF Carries, w
<1>6. CASE c.value # NULL
  <2>1. PICK j \in 1 .. Len(a) : a[j] = [name |-> c.name, value |-> c.value]
    BY <1>2, <1>6 DEF Gives, ToSet
  <2>2. 1 + j \in DOMAIN w /\ w[1 + j].name = c.name /\ w[1 + j].value = c.value
    BY <1>1, <2>1
  <2>3. ASSUME NEW i \in DOMAIN w, w[i].name = c.name PROVE i = 1 + j
    <3>1. PICK m \in 1 .. Len(a) : i = 1 + m /\ a[m].name = c.name
      BY <1>4, <2>3
    <3>2. m = j
      BY <1>2, <2>1, <3>1 DEF C!DistinctNames
    <3> QED
      BY <3>1, <3>2
  <2> QED
    BY <1>6, <2>2, <2>3 DEF Carries, w
<1> QED
  BY <1>5, <1>6

\* ... and here the common one.
LEMMA CarriesCommon ==
    ASSUME NEW S, NEW h \in S, NEW a \in Seq(S), NEW b \in Seq(S), NEW c,
           h.name # c.name, C!DistinctNames(b), Gives(b, c),
           \A x \in ToSet(a) : x.name # c.name
    PROVE  Carries(<<h>> \o a \o b, c.name, c.value)
<1> DEFINE w == <<h>> \o a \o b
<1>1. /\ Len(a) \in Nat /\ Len(b) \in Nat
      /\ DOMAIN w = 1 .. 1 + Len(a) + Len(b)
      /\ w[1] = h
      /\ \A j \in 1 .. Len(a) : w[1 + j] = a[j]
      /\ \A j \in 1 .. Len(b) : w[1 + Len(a) + j] = b[j]
  BY PartsOfLabels
<1> HIDE DEF w
<1>2. DOMAIN a = 1 .. Len(a) /\ DOMAIN b = 1 .. Len(b)
  BY LenProperties
<1>3. \A j \in 1 .. Len(a) : a[j].name # c.name
  BY <1>2 DEF ToSet
<1>4. ASSUME NEW i \in DOMAIN w, w[i].name = c.name
      PROVE  \E j \in 1 .. Len(b) : i = 1 + Len(a) + j /\ b[j].name = c.name
  <2>1. i \in 1 .. 1 + Len(a) + Len(b) /\ i # 1
    BY <1>1, <1>4
  <2>2. CASE i \in 2 .. 1 + Len(a)
    <3>1. i - 1 \in 1 .. Len(a) /\ i = 1 + (i - 1)
      BY <1>1, <2>2
    <3>2. a[i - 1].name = c.name
      BY <1>1, <1>4, <3>1
    <3> QED
      BY <1>3, <3>1, <3>2
  <2>3. CASE i > 1 + Len(a)
    <3>1. i - 1 - Len(a) \in 1 .. Len(b) /\ i = 1 + Len(a) + (i - 1 - Len(a))
      <4>1. ASSUME NEW m \in Nat, NEW n \in Nat, NEW l \in 1 .. 1 + m + n, l > 1 + m
            PROVE  l - 1 - m \in 1 .. n /\ l = 1 + m + (l - 1 - m)
        BY <4>1
      <4> QED
        BY <1>1, <2>1, <2>3, <4>1
    <3>2. b[i - 1 - Len(a)].name = c.name
      BY <1>1, <1>4, <3>1
    <3> QED
      BY <3>1, <3>2
  <2> QED
    BY <1>1, <2>1, <2>2, <2>3
<1>5. CASE c.value = NULL
  <2>1. \A j \in 1 .. Len(b) : b[j].name # c.name
    BY <1>2, <1>5 DEF Gives, ToSet
  <2> QED
    BY <1>4, <1>5, <2>1 DEF Carries, w
<1>6. CASE c.value # NULL
  <2>1. PICK j \in 1 .. Len(b) : b[j] = [name |-> c.name, value |-> c.value]
    BY <1>2, <1>6 DEF Gives, ToSet
  <2>2. 1 + Len(a) + j \in DOMAIN w
        /\ w[1 + Len(a) + j].name = c.name /\ w[1 + Len(a) + j].value = c.value
    BY <1>1, <2>1
  <2>3. ASSUME NEW i \in DOMAIN w, w[i].name = c.name PROVE i = 1 + Len(a) + j
    <3>1. PICK m \in 1 .. Len(b) : i = 1 + Len(a) + m /\ b[m].name = c.name
      BY <1>4, <2>3
    <3>2. m = j
      BY <1>2, <2>1, <3>1 DEF C!DistinctNames
    <3> QED
      BY <3>1, <3>2
  <2> QED
    BY <1>6, <2>2, <2>3 DEF Carries, w
<1> QED
  BY <1>5, <1>6

\* The labels that were asked for.
LEMMA LabelsAreTold ==
    ASSUME ProgramInv, AskedInv, AllAskOnce, CP!TypeOK, CP!EverySocketReported,
           CP!LabelsWhole, scrapeAt = "done",
           NEW k \in 1 .. step - 1, LastLabel(k), k <= Len(program.calls),
           NEW i \in DOMAIN translated, Asked(k).var \in {NULL, translated[i].name}
    PROVE  Carries(translated[i].labels, Asked(k).name, Asked(k).value)
<1> DEFINE c == Asked(k)
           f == translated[i]
           e == C!EntryOf(f.name)
           h == [name |-> "srt_socket", value |-> f.sock]
           T == C!LabelType \cup {h}
<1>1. CP!CollectorAssumption
  BY CollectorAssumed
<1>2. e = CP!EntryOf(f.name) /\ f.labels = <<h>> \o label[e] \o commonLabel
  <2>1. e = CP!EntryOf(f.name)
    BY DEF C!EntryOf, CP!EntryOf, C!FirstOf, CP!FirstOf, C!SelectInSeq, CP!SelectInSeq,
           C!Min, CP!Min
  <2>2. f.labels = <<h>> \o label[CP!EntryOf(f.name)] \o commonLabel
    BY DEF CP!LabelsWhole
  <2> QED
    BY <2>1, <2>2
<1>3. PICK j \in CP!Entries : f.name = filteredData[j].name
  BY <1>1, CP!ReportedOnce
<1>4. e # 0 /\ e \in C!Entries /\ filteredData[e].name = f.name
  <2>1. e # 0
    <3> DEFINE x == f.name
               E == CP!EntryType
    <3>1. filteredData \in Seq(E)
      BY DEF CP!TypeOK
    <3>2. j \in 1 .. Len(filteredData)
      BY <1>3, <3>1, LenProperties DEF CP!Entries
    <3> HIDE DEF x, E
    <3>3. CP!FirstOf(filteredData, x) = 0 =>
             \A l \in 1 .. Len(filteredData) : filteredData[l].name # x
      BY <1>1, <3>1, CP!FirstNamed
    <3> QED
      BY <1>2, <1>3, <3>2, <3>3 DEF CP!EntryOf, x
  <2> QED
    BY <2>1, ListFacts
<1>5. c \in LabelCalls(program) /\ c.name # "srt_socket" /\ c.op = "label"
  <2>1. step \in Nat /\ DOMAIN program.calls = 1 .. Len(program.calls)
    BY SystemAssumption, LenProperties DEF ProgramInv
  <2>2. c \in LabelCalls(program)
    BY <2>1 DEF LabelCalls, LastLabel, Asked, ToSet
  <2> QED
    BY <2>2 DEF AllAskOnce, AsksOnce, ProgramInv, LabelCalls
<1>6. id # 0
  BY DEF AskedInv
<1>7. /\ label[e] \in Seq(T) /\ commonLabel \in Seq(T) /\ h \in T /\ h.name # c.name
  <2>1. label[e] \in Seq(C!LabelType) /\ commonLabel \in Seq(C!LabelType)
    BY <1>4, ListFacts
  <2>2. ASSUME NEW s \in Seq(C!LabelType) PROVE s \in Seq(T)
    <3>1. Len(s) \in Nat /\ s \in [1 .. Len(s) -> C!LabelType]
      BY LenProperties
    <3>2. s \in [1 .. Len(s) -> T]
      BY <3>1
    <3> QED
      BY <1>1, <3>1, <3>2, CP!FunctionIsSeq
  <2> QED
    BY <1>5, <2>1, <2>2
<1>8. /\ C!DistinctNames(label[e]) /\ C!DistinctNames(commonLabel)
      /\ \A l \in ToSet(label[e]) : l.name \in PrivateNames(program)
      /\ \A l \in ToSet(commonLabel) : l.name \in CommonNames(program)
      /\ CommonNames(program) \cap PrivateNames(program) = {}
  BY <1>4 DEF AskedInv, AllAskOnce, AsksOnce, ProgramInv
<1>9. CASE c.var = NULL
  <2>1. c.name \in CommonNames(program)
    BY <1>5, <1>9 DEF CommonNames
  <2>2. Gives(commonLabel, c)
    BY <1>6, <1>9 DEF AskedInv
  <2>3. \A l \in ToSet(label[e]) : l.name # c.name
    BY <1>8, <2>1
  <2> HIDE DEF c, h, T, e
  <2>4. Carries(<<h>> \o label[e] \o commonLabel, c.name, c.value)
    BY <1>7, <1>8, <2>2, <2>3, CarriesCommon
  <2> QED
    BY <1>2, <2>4 DEF c
<1>10. CASE c.var # NULL
  <2>1. c.name \in PrivateNames(program) /\ c.var = f.name
    BY <1>5, <1>10 DEF PrivateNames
  <2>2. Gives(label[e], c)
    BY <1>4, <1>6, <1>10, <2>1 DEF AskedInv
  <2>3. \A l \in ToSet(commonLabel) : l.name # c.name
    BY <1>8, <2>1
  <2> HIDE DEF c, h, T, e
  <2>4. Carries(<<h>> \o label[e] \o commonLabel, c.name, c.value)
    BY <1>7, <1>8, <2>2, <2>3, CarriesPrivate
  <2> QED
    BY <1>2, <2>4 DEF c
<1> QED
  BY <1>9, <1>10

\* An application in the order of the samples that asks for nothing twice, and
\* registers in quiet moments, is told what it asked for by every answer of its
\* http server, whatever its calls are and however the scrapes fall between them.
THEOREM AnswersAreRight ==
    AllSequenced /\ AllAskOnce /\ "quiet" \in Contract =>
        (SystemSpec => []AnswersTellWhatWasAsked)
<1> SUFFICES ASSUME AllSequenced, AllAskOnce, "quiet" \in Contract
             PROVE  SystemSpec => []AnswersTellWhatWasAsked
  OBVIOUS
<1>1. CP!CollectorAssumption
  BY CollectorAssumed
<1>2. CP!DistinctEntries
  <2>1. CP!ListsOnce
    BY DEF AllAskOnce, AsksOnce, IsInjective, CP!IsInjective, CP!ListsOnce
  <2> QED
    BY <1>1, <2>1, CP!ListsOnceAreDistinct
<1>3. CP!Spec => []CP!EverySocketReported
  BY <1>1, CP!EverySocketIsReported
<1>4. CP!Spec => []CP!LabelsWhole
  BY <1>1, <1>2, CP!LabelsAreWhole
<1>5. ProgramInv /\ CP!TypeOK /\ AskedInv /\ PhaseInv
        /\ CP!EverySocketReported /\ CP!LabelsWhole => AnswersTellWhatWasAsked
  <2> SUFFICES ASSUME ProgramInv, CP!TypeOK, AskedInv, PhaseInv,
                      CP!EverySocketReported, CP!LabelsWhole, scrapeAt = "done",
                      NEW k \in 1 .. step - 1
               PROVE  /\ LastLabel(k) =>
                           \A i \in DOMAIN translated :
                              Asked(k).var \in {NULL, translated[i].name} =>
                                 Carries(translated[i].labels, Asked(k).name, Asked(k).value)
                      /\ LastSockets(k) =>
                           \A s \in ToSet(Asked(k).socks), n \in ToSet(program.collector.varList) :
                              s \in open /\ before[s] # NULL => TellsOnce(s, n)
    BY DEF AnswersTellWhatWasAsked
  <2>1. k <= Len(program.calls)
    <3>1. Len(program.calls) \in Nat /\ step <= Len(program.calls) + 1 /\ step \in Nat
      BY SystemAssumption, LenProperties DEF ProgramInv, PhaseInv
    <3> QED
      BY <3>1
  <2>2. ASSUME LastLabel(k), NEW i \in DOMAIN translated,
               Asked(k).var \in {NULL, translated[i].name}
        PROVE  Carries(translated[i].labels, Asked(k).name, Asked(k).value)
    BY <2>1, <2>2, LabelsAreTold
  <2>3. ASSUME LastSockets(k), NEW s \in ToSet(Asked(k).socks),
               NEW n \in ToSet(program.collector.varList), s \in open, before[s] # NULL
        PROVE  TellsOnce(s, n)
    BY <2>1, <2>3, SocketsAreTold
  <2> QED
    BY <2>2, <2>3
<1> QED
  BY <1>3, <1>4, <1>5, CollectorRuns, PhaseHolds, AskedHolds, PTL

\* The two samples are such applications.
THEOREM SamplesAskOnce ==
    ASSUME NEW s, NEW in, NULL \notin {"sample_srt_caller", "sample_srt_listener"}
    PROVE  /\ Sequenced(Caller(s)) /\ AsksOnce(Caller(s))
           /\ Sequenced(Listener(s, in)) /\ AsksOnce(Listener(s, in))
<1>1. "pktSentTotal" \in C!VarNames /\ "pktRecvTotal" \in C!VarNames /\ "msRTT" \in C!VarNames
  <2>1. /\ 2 \in DOMAIN C!DataMap /\ C!DataMap[2].name = "pktSentTotal"
        /\ 3 \in DOMAIN C!DataMap /\ C!DataMap[3].name = "pktRecvTotal"
        /\ 5 \in DOMAIN C!DataMap /\ C!DataMap[5].name = "msRTT"
    BY DEF C!DataMap
  <2> QED
    BY <2>1 DEF C!VarNames
<1>2. NULL \notin C!VarNames
  BY SystemAssumption
<1>3. Sequenced(Caller(s))
  <2> DEFINE c == Caller(s).calls
  <2>1. /\ Len(c) = 10 /\ DOMAIN c = 1 .. 10
        /\ c[1].op = "init" /\ c[2].op = "start" /\ c[3].op = "label" /\ c[4].op = "label"
        /\ c[5].op = "label" /\ c[6].op = "sockets" /\ c[7].op = "connect"
        /\ c[8].op = "stop" /\ c[9].op = "deinit" /\ c[10].op = "close"
    BY DEF Caller, Calls, Registers, RegistersSocket, Connects
  <2>2. Caller(s).name = "sample_srt_caller"
    BY DEF Caller
  <2>3. \A k \in 3 .. 7 : k = 3 \/ k = 4 \/ k = 5 \/ k = 6 \/ k = 7
    OBVIOUS
  <2> HIDE DEF c
  <2>4. \A k \in 3 .. Len(c) - 3 : c[k].op \in {"label", "sockets", "connect"}
    BY <2>1, <2>3
  <2> QED
    BY <2>1, <2>2, <2>4 DEF Sequenced, c
<1>4. Sequenced(Listener(s, in))
  <2> DEFINE c == Listener(s, in).calls
  <2>1. /\ Len(c) = 8 /\ DOMAIN c = 1 .. 8
        /\ c[1].op = "init" /\ c[2].op = "start" /\ c[3].op = "sockets"
        /\ c[4].op = "connect" /\ c[5].op = "sockets"
        /\ c[6].op = "stop" /\ c[7].op = "deinit" /\ c[8].op = "close"
    BY DEF Listener, Calls, RegistersSocket, Connects
  <2>2. Listener(s, in).name = "sample_srt_listener"
    BY DEF Listener
  <2>3. \A k \in 3 .. 5 : k = 3 \/ k = 4 \/ k = 5
    OBVIOUS
  <2> HIDE DEF c
  <2>4. \A k \in 3 .. Len(c) - 3 : c[k].op \in {"label", "sockets", "connect"}
    BY <2>1, <2>3
  <2> QED
    BY <2>1, <2>2, <2>4 DEF Sequenced, c
<1>5. AsksOnce(Caller(s))
  <2> DEFINE p == Caller(s)
             l1 == Registers("application", "sample_srtcaller", NULL)
             l2 == Registers("importance", "special", "pktSentTotal")
             l3 == Registers("importance", "normal", "pktSentTotal")
             q == RegistersSocket(s)
  <2>1. /\ p.collector.filterMode = "WHITELIST"
        /\ p.collector.varList = <<"pktSentTotal", "pktRecvTotal", "msRTT">>
        /\ p.collector.labelList = <<[name |-> "role", value |-> "srt_source"]>>
    BY DEF Caller, Exports
  <2>2. ToSet(p.calls) = {Calls("init"), Calls("start"), l1, l2, l3, q, Connects(s),
                          Calls("stop"), Calls("deinit"), Calls("close")}
    <3>1. /\ DOMAIN p.calls = 1 .. 10
          /\ p.calls[1] = Calls("init") /\ p.calls[2] = Calls("start")
          /\ p.calls[3] = l1 /\ p.calls[4] = l2 /\ p.calls[5] = l3 /\ p.calls[6] = q
          /\ p.calls[7] = Connects(s) /\ p.calls[8] = Calls("stop")
          /\ p.calls[9] = Calls("deinit") /\ p.calls[10] = Calls("close")
      BY DEF Caller
    <3>2. 1 .. 10 = {1, 2, 3, 4, 5, 6, 7, 8, 9, 10}
      OBVIOUS
    <3> HIDE DEF p, l1, l2, l3, q
    <3> QED
      BY <3>1, <3>2 DEF ToSet
  <2>3. /\ l1.op = "label" /\ l1.name = "application" /\ l1.var = NULL
        /\ l2.op = "label" /\ l2.name = "importance" /\ l2.var = "pktSentTotal"
        /\ l3.op = "label" /\ l3.name = "importance" /\ l3.var = "pktSentTotal"
        /\ q.op = "sockets" /\ q.socks = <<s>>
        /\ Connects(s).op = "connect"
        /\ \A op : Calls(op).op = op
    BY DEF Registers, RegistersSocket, Connects, Calls
  <2> HIDE DEF p, l1, l2, l3, q
  <2>4. LabelCalls(p) = {l1, l2, l3} /\ SocketCalls(p) = {q}
    BY <2>2, <2>3 DEF LabelCalls, SocketCalls
  <2>5. ToSet(p.collector.labelList) = {[name |-> "role", value |-> "srt_source"]}
    BY <2>1 DEF ToSet
  <2>6. CommonNames(p) \subseteq {"role", "application"} /\ PrivateNames(p) \subseteq {"importance"}
    BY <1>1, <1>2, <2>3, <2>4, <2>5 DEF CommonNames, PrivateNames
  <2>7. IsInjective(p.collector.varList) /\ ToSet(p.collector.varList) \subseteq C!VarNames
    BY <1>1, <2>1 DEF IsInjective, ToSet
  <2>8. C!DistinctNames(p.collector.labelList) /\ IsInjective(q.socks)
    BY <2>1, <2>3 DEF C!DistinctNames, IsInjective
  <2>9. \A c \in LabelCalls(p) : c.name # "srt_socket"
    BY <2>3, <2>4
  <2>10. CommonNames(p) \cap PrivateNames(p) = {}
    BY <2>6
  <2> QED
    BY <2>1, <2>4, <2>7, <2>8, <2>9, <2>10 DEF AsksOnce, p
<1>6. AsksOnce(Listener(s, in))
  <2> DEFINE p == Listener(s, in)
  <2>1. /\ p.collector.filterMode = "WHITELIST"
        /\ p.collector.varList = <<"pktRecvTotal", "msRTT">>
        /\ p.collector.labelList = <<[name |-> "role", value |-> "srt_destination"]>>
    BY DEF Listener, Exports, F!SrtDestinationVarList
  <2>2. ToSet(p.calls) = {Calls("init"), Calls("start"), RegistersSocket(s), Connects(in),
                          RegistersSocket(in), Calls("stop"), Calls("deinit"), Calls("close")}
    <3>1. /\ DOMAIN p.calls = 1 .. 8
          /\ p.calls[1] = Calls("init") /\ p.calls[2] = Calls("start")
          /\ p.calls[3] = RegistersSocket(s) /\ p.calls[4] = Connects(in)
          /\ p.calls[5] = RegistersSocket(in) /\ p.calls[6] = Calls("stop")
          /\ p.calls[7] = Calls("deinit") /\ p.calls[8] = Calls("close")
      BY DEF Listener
    <3>2. 1 .. 8 = {1, 2, 3, 4, 5, 6, 7, 8}
      OBVIOUS
    <3> HIDE DEF p
    <3> QED
      BY <3>1, <3>2 DEF ToSet
  <2>3. /\ \A x : RegistersSocket(x).op = "sockets" /\ RegistersSocket(x).socks = <<x>>
        /\ Connects(in).op = "connect"
        /\ \A op : Calls(op).op = op
    BY DEF RegistersSocket, Connects, Calls
  <2> HIDE DEF p
  <2>4. LabelCalls(p) = {} /\ SocketCalls(p) = {RegistersSocket(s), RegistersSocket(in)}
    BY <2>2, <2>3 DEF LabelCalls, SocketCalls
  <2>5. PrivateNames(p) = {}
    BY <2>4 DEF PrivateNames
  <2>6. IsInjective(p.collector.varList) /\ ToSet(p.collector.varList) \subseteq C!VarNames
    BY <1>1, <2>1 DEF IsInjective, ToSet
  <2>7. C!DistinctNames(p.collector.labelList) /\ \A x : IsInjective(<<x>>)
    BY <2>1 DEF C!DistinctNames, IsInjective
  <2>8. \A c \in SocketCalls(p) : IsInjective(c.socks)
    <3>1. \A c \in SocketCalls(p) : c.socks = <<s>> \/ c.socks = <<in>>
      BY <2>3, <2>4
    <3> QED
      BY <2>7, <3>1
  <2> QED
    BY <2>1, <2>4, <2>5, <2>6, <2>7, <2>8 DEF AsksOnce, p
<1> QED
  BY <1>3, <1>4, <1>5, <1>6
=============================================================================
