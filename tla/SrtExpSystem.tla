----------------------------- MODULE SrtExpSystem -----------------------------
(***************************************************************************)
(* The library put together, under the repository's own two applications:  *)
(* sample_srtcaller.c and sample_srtlistener.c, through the C wrapper      *)
(* (srtexp_api_c_wrapper.cpp).                                             *)
(*                                                                         *)
(* The API and the http server are SrtExpApi, with one application thread  *)
(* and one exporter; what a registration and a scrape do inside the        *)
(* collector of that exporter is SrtExpCollector.  A scrape that SrtExpApi *)
(* takes for granted to end ends here because Collect does.                *)
(***************************************************************************)
EXTENDS SrtExpApi

CONSTANTS
    Main,                       \* the application's only thread
    Programs,                   \* the applications
    Sockets, MaxSockets, LabelNames, LabelValues, MaxStat   \* see SrtExpCollector

VARIABLES
    program,    \* the application that runs
    step,       \* the call it is at
    id,         \* its variable id; 0 as long as no start succeeded
    commonLabel, srtSock, filteredData, label, data, translated,    \* the
    scrapeAt, sockIt, mapIt, before, stat, open, raced              \* collector

F == INSTANCE SrtExpFilter

C == INSTANCE SrtExpCollector WITH
    Configs   <- {p.collector : p \in Programs},
    pc        <- scrapeAt,
    undefined <- raced

\* The calls an application may make.
CallType ==
    [op : {"init", "start", "stop", "deinit", "close"}]
        \cup [op : {"label"}, name : LabelNames \cup {NULL}, value : LabelValues \cup {NULL},
              var : C!VarNames \cup {NULL}]
        \cup [op : {"sockets"}, socks : C!BoundedSeq(Sockets, MaxSockets)]
        \cup [op : {"connect"}, sock : Sockets]

ASSUME SystemAssumption ==
    /\ Threads = {Main}
    /\ MaxStarts = 1
    /\ MaxSockets \in Nat
    /\ MaxStat \in Nat
    /\ NULL \notin LabelNames \cup LabelValues \cup C!VarNames \cup Nat
    /\ \A p \in Programs :
          /\ p.calls \in Seq(CallType) \ {<<>>}
          /\ p.collector.labelList \in Seq(C!LabelType)
          /\ p.collector.varList \in Seq(STRING)

collectorVars ==
    <<commonLabel, srtSock, filteredData, label, data, translated, scrapeAt, sockIt,
      mapIt, before, stat, open, raced>>
sysVars == <<vars, collectorVars, program, step, id>>

-----------------------------------------------------------------------------
(* The two applications: their calls, in order, and their section of       *)
(* srt_exporter.yaml                                                       *)

Calls(op) == [op |-> op]
Registers(n, v, var) == [op |-> "label", name |-> n, value |-> v, var |-> var]
RegistersSocket(s) == [op |-> "sockets", socks |-> <<s>>]
Connects(s) == [op |-> "connect", sock |-> s]

Exports(varList, role) ==
    [filterMode |-> "WHITELIST", varList |-> varList,
     labelList  |-> <<[name |-> "role", value |-> role]>>]

\* Mutant: deinit comes before stop.
CallerDeinitsFirst(s) ==
    [name      |-> "sample_srt_caller",
     collector |-> Exports(<<"pktSentTotal", "pktRecvTotal", "msRTT">>, "srt_source"),
     calls     |-> <<Calls("init"), Calls("start"), RegistersSocket(s), Connects(s),
                     Calls("deinit"), Calls("stop"), Calls("close")>>]

Caller(s) ==
    [name      |-> "sample_srt_caller",
     collector |-> Exports(<<"pktSentTotal", "pktRecvTotal", "msRTT">>, "srt_source"),
     calls     |-> <<Calls("init"), Calls("start"),
                     Registers("application", "sample_srtcaller", NULL),
                     Registers("importance", "special", "pktSentTotal"),
                     Registers("importance", "normal", "pktSentTotal"),
                     RegistersSocket(s), Connects(s),
                     Calls("stop"), Calls("deinit"), Calls("close")>>]

\* It registers the socket that listens, and then the one that was accepted.
Listener(listening, in) ==
    [name      |-> "sample_srt_listener",
     collector |-> Exports(F!SrtDestinationVarList, "srt_destination"),
     calls     |-> <<Calls("init"), Calls("start"),
                     RegistersSocket(listening), Connects(in), RegistersSocket(in),
                     Calls("stop"), Calls("deinit"), Calls("close")>>]

SystemInit ==
    /\ Init
    /\ C!Init
    /\ program \in Programs
    /\ filteredData = C!LoadFilterFromConfig(program.collector)
    /\ commonLabel = program.collector.labelList
    /\ step = 1
    /\ id = 0

-----------------------------------------------------------------------------
(* The application                                                         *)

Current == program.calls[step]

Ended == step > Len(program.calls)

IsAt(op) == ~ raced /\ ~ Ended /\ Current.op = op

Advance == step' = step + 1

\* "quiet": the http server calls Collect while no registration is under way, and
\* no registration is called during a Collect.
Quiet == "quiet" \in Contract

\* The load of the file is SrtExpConfigLoad.
CInit ==
    /\ IsAt("init")
    /\ SrtExpInit(Main)
    /\ Advance
    /\ UNCHANGED <<collectorVars, program, id>>

CStart == IsAt("start") /\ CallStart(Main) /\ arg'[Main] = program.name

\* With a null name the wrapper takes the form of srtexp_stop that takes an id.
CStop == IsAt("stop") /\ CallStop(Main) /\ arg'[Main] = NULL /\ cur'[Main] = id

CDeinit == IsAt("deinit") /\ CallDeinit(Main)

CRegister ==
    /\ IsAt("label") \/ IsAt("sockets")
    /\ Quiet => scrapeAt = "idle"
    /\ CallRegister(Main)
    /\ cur'[Main] = id

Invokes ==
    /\ CStart \/ CStop \/ CDeinit \/ CRegister
    /\ UNCHANGED <<collectorVars, program, step, id>>

\* The rest of a registration: the method of the collector that was found.
RegisterInCollector ==
    /\ Register(Main)
    /\ IF FindById(cur[Main]) = 0 \/ undefined'
       THEN UNCHANGED collectorVars
       ELSE \/ IsAt("label") /\ C!LabelRegister(Current.name, Current.value, Current.var)
            \/ IsAt("sockets") /\ C!SrtSockRegister(Current.socks)

\* Mutant: the application goes on with its next call after a start that failed.
ProceedsAfterFailure ==
    /\ ~ raced
    /\ \/ RegisterInCollector
       \/ (StartStep(Main) \/ StopStep(Main) \/ DeinitStep(Main)) /\ UNCHANGED collectorVars
    /\ id' = IF StartDone(Main) /\ ~ undefined' THEN cur[Main] ELSE id
    /\ step' = IF pc'[Main] = "idle" THEN step + 1 ELSE step
    /\ UNCHANGED program

\* A start that fails sends the application to its end; another call that returns,
\* to its next one.
Proceeds ==
    /\ ~ raced
    /\ \/ RegisterInCollector
       \/ (StartStep(Main) \/ StopStep(Main) \/ DeinitStep(Main)) /\ UNCHANGED collectorVars
    /\ id' = IF StartDone(Main) /\ ~ undefined' THEN cur[Main] ELSE id
    /\ step' = IF StartFails(Main) THEN Len(program.calls)
               ELSE IF pc'[Main] = "idle" THEN step + 1 ELSE step
    /\ UNCHANGED program

\* srt_connect succeeds at last, or srt_accept returns a connected socket.
SocketConnects ==
    /\ IsAt("connect")
    /\ C!SocketConnects(Current.sock)
    /\ Advance
    /\ UNCHANGED <<vars, program, id>>

\* srt_close and srt_cleanup.
ClosesSockets ==
    /\ IsAt("close")
    /\ IF open = {} THEN UNCHANGED collectorVars ELSE \E s \in open : C!SocketCloses(s)
    /\ Advance
    /\ UNCHANGED <<vars, program, id>>

-----------------------------------------------------------------------------
(* The http server and the world                                           *)

Scrapes(w) ==
    /\ ~ raced
    /\ Scrape(1, w)
    /\ IF worker'[1][w] = "collecting"
       THEN C!CollectStarts /\ (Quiet => pc[Main] # "register")
       ELSE UNCHANGED collectorVars

CollectEnds(w) == C!Reply /\ (CollectReturns(1, w) \/ CollectDestroys(1, w))

WorkerSteps(w) ==
    /\ ~ raced
    /\ Scrapes(w) \/ CollectEnds(w) \/ (Reply(1, w) /\ UNCHANGED collectorVars)
    /\ UNCHANGED <<program, step, id>>

\* Collect, in the worker that has the handler's mutex.
Collects == ~ undefined /\ C!CollectStep /\ UNCHANGED <<vars, program, step, id>>

\* Requests, other processes; statistics grow and a peer goes away.
Environment ==
    \/ /\ ~ raced
       /\ (\E w \in Workers : Accept(1, w)) \/ ForeignBind \/ ForeignRelease
       /\ UNCHANGED <<collectorVars, program, step, id>>
    \/ /\ ~ undefined
       /\ C!StatGrows \/ \E s \in open : C!SocketCloses(s)
       /\ UNCHANGED <<vars, program, step, id>>

ProgramCalls == CInit \/ Invokes \/ ClosesSockets

SystemNext ==
    \/ ProgramCalls \/ Proceeds \/ SocketConnects
    \/ Collects
    \/ \E w \in Workers : WorkerSteps(w)
    \/ Environment

\* The application's thread and the workers run.  A registration that waits for
\* a quiet moment gets one; a connection may never come.
SystemFairness ==
    /\ SF_sysVars(ProgramCalls)
    /\ WF_sysVars(Proceeds)
    /\ WF_sysVars(Collects)
    /\ \A w \in Workers : WF_sysVars(WorkerSteps(w))

SystemSpec == SystemInit /\ [][SystemNext]_sysVars

FairSystemSpec == SystemSpec /\ SystemFairness

-----------------------------------------------------------------------------
(* Properties                                                              *)

Asked(k) == program.calls[k]

Later(k) == {program.calls[j] : j \in k + 1 .. step - 1}

\* The call is the last so far that sets this label, or that registers sockets.
LastLabel(k) ==
    /\ Asked(k).op = "label" /\ Asked(k).name # NULL
    /\ \A c \in Later(k) :
          c.op = "label" => <<c.name, c.var>> # <<Asked(k).name, Asked(k).var>>

LastSockets(k) == Asked(k).op = "sockets" /\ \A c \in Later(k) : c.op # "sockets"

\* One label has the name, and it has the value; none does for a null value.
Carries(labels, name, value) ==
    IF value = NULL
    THEN \A i \in DOMAIN labels : labels[i].name # name
    ELSE \E j \in DOMAIN labels :
            /\ labels[j].value = value
            /\ \A i \in DOMAIN labels : labels[i].name = name <=> i = j

\* One family is that of the socket and the variable.
TellsOnce(sock, name) ==
    \E i \in DOMAIN translated : \A j \in DOMAIN translated :
        (translated[j].sock = sock /\ translated[j].name = name) <=> j = i

\* Each answer of the http server tells what the application has asked for up to
\* then: the sockets of its last registration, if they are connected, with every
\* variable once, and each label it has set, once, with the value it was last
\* given, and none that it has removed.
AnswersTellWhatWasAsked ==
    scrapeAt = "done" =>
        \A k \in 1 .. step - 1 :
            /\ LastLabel(k) =>
                  \A i \in DOMAIN translated :
                      Asked(k).var \in {NULL, translated[i].name} =>
                          Carries(translated[i].labels, Asked(k).name, Asked(k).value)
            /\ LastSockets(k) =>
                  \A s \in ToSet(Asked(k).socks), n \in ToSet(program.collector.varList) :
                      s \in open /\ before[s] # NULL => TellsOnce(s, n)

\* The application gets its exporter, or its start fails and it comes to its end
\* without an http server.  From its last wait on, whenever it is scraped, it comes to
\* its end with its http server down, or being destroyed by a worker of its own.
SampleEnds ==
    /\ IsAt("start") ~> id # 0 \/ (Ended /\ server[1] = "none")
    /\ IsAt("stop") ~>
          Ended /\ (server[1] = "down" \/ \E w \in Workers : worker[1][w] = "reaping")

\* The composition is a behaviour of SrtExpApi, whose fairness says that a scrape
\* that was accepted is answered: Collect gets through its sockets and variables,
\* whatever disconnects meanwhile, and no registration keeps it waiting.
ImplementsApi == FairSpec

\* The samples register labels and sockets while their http server answers
\* requests: "dynamically" (design.md:151), "by call this API again" (line 156).
NeverRaced == ~ raced

-----------------------------------------------------------------------------
(* What the samples have in common, and the inductive invariants that      *)
(* follow from it                                                          *)

\* Between init and deinit an application starts one exporter, registers with it
\* and stops it.
Sequenced(p) ==
    LET n == Len(p.calls)
        op == [k \in DOMAIN p.calls |-> p.calls[k].op]
    IN  /\ p.name # NULL
        /\ n >= 5
        /\ op[1] = "init" /\ op[2] = "start"
        /\ \A k \in 3 .. n - 3 : op[k] \in {"label", "sockets", "connect"}
        /\ op[n - 2] = "stop" /\ op[n - 1] = "deinit" /\ op[n] = "close"

\* Where the API can be in a call.
CallPcs(op) ==
    CASE op = "start"               -> {"start"} \cup StartingPcs
      [] op = "stop"                -> {"stop", "stop_delete", "stop_release", "stop_wait"}
      [] op = "deinit"              -> DeinitPcs
      [] op \in {"label", "sockets"} -> {"register"}
      [] OTHER                      -> {}

\* The application has its exporter from the return of its start to its stop.
HasExporter ==
    /\ step \in 3 .. Len(program.calls) - 2
    /\ pc[Main] \in {"idle", "register", "stop", "stop_delete"}

\* The API is at the call that the application is at, with its arguments; the
\* vector has the exporter while it is started and as long as the application
\* has it.
PhaseInv ==
    LET n == Len(program.calls)
    IN  /\ ~ undefined
        /\ step <= n + 1
        /\ pc[Main] # "idle" => ~ Ended /\ pc[Main] \in CallPcs(Current.op)
        /\ pc[Main] \in CallPcs("start") => arg[Main] = program.name
        /\ pc[Main] \in {"register", "stop"} => cur[Main] = id /\ arg[Main] = NULL
        /\ pc[Main] \in StartingPcs \cup {"stop_delete"} => cur[Main] = 1
        /\ step \in 2 .. n - 1 => config # NULL
        /\ srtExp = IF HasExporter \/ pc[Main] \in StartingPcs THEN <<1>> ELSE <<>>
        /\ collector = IF HasExporter THEN {1} ELSE {}
        /\ id \in {0, 1}
        /\ HasExporter => id = 1

-----------------------------------------------------------------------------
(* What the samples ask for, and what it leaves in the collector           *)

LabelCalls(p) == {c \in ToSet(p.calls) : c.op = "label"}
SocketCalls(p) == {c \in ToSet(p.calls) : c.op = "sockets"}

\* The names of labels that all metrics may carry, and those of one variable's.
CommonNames(p) ==
    {l.name : l \in ToSet(p.collector.labelList)}
        \cup {c.name : c \in {d \in LabelCalls(p) : d.var = NULL}}
PrivateNames(p) == {c.name : c \in {d \in LabelCalls(p) : d.var # NULL}}

\* An application that asks for nothing twice: its list selects known variables,
\* and no variable, label of the configuration or socket of a registration is
\* repeated; and that calls no label of a variable by the name of a common one,
\* nor any by the name of the socket's.
AsksOnce(p) ==
    /\ p.collector.filterMode = "WHITELIST"
    /\ IsInjective(p.collector.varList)
    /\ ToSet(p.collector.varList) \subseteq C!VarNames
    /\ C!DistinctNames(p.collector.labelList)
    /\ CommonNames(p) \cap PrivateNames(p) = {}
    /\ \A c \in LabelCalls(p) : c.name # "srt_socket"
    /\ \A c \in SocketCalls(p) : IsInjective(c.socks)

\* The list has what the call asks for.
Gives(l, c) ==
    IF c.value = NULL THEN \A x \in ToSet(l) : x.name # c.name
    ELSE [name |-> c.name, value |-> c.value] \in ToSet(l)

\* The lists repeat no name and have no other's; each call has left what it asks
\* for, until a later one asks for something else.
AskedInv ==
    /\ filteredData = C!LoadFilterFromConfig(program.collector)
    /\ C!DistinctNames(commonLabel)
    /\ \A l \in ToSet(commonLabel) : l.name \in CommonNames(program)
    /\ \A i \in C!Entries :
          /\ C!DistinctNames(label[i])
          /\ \A l \in ToSet(label[i]) : l.name \in PrivateNames(program)
    /\ step \in {1, 2} => id = 0
    /\ id = 0 => scrapeAt = "idle"
    /\ id # 0 =>
          \A k \in 1 .. step - 1 :
              /\ LastLabel(k) =>
                    /\ Asked(k).var = NULL => Gives(commonLabel, Asked(k))
                    /\ Asked(k).var # NULL /\ C!EntryOf(Asked(k).var) # 0 =>
                          Gives(label[C!EntryOf(Asked(k).var)], Asked(k))
              /\ LastSockets(k) => srtSock = Asked(k).socks
=============================================================================
