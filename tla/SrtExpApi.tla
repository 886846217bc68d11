------------------------------ MODULE SrtExpApi ------------------------------
(***************************************************************************)
(* The library's API (srtexp_api.cpp) over the exporters it owns           *)
(* (srtexp_exporter.cpp): the vector srtExp guarded by api_lock, the        *)
(* configuration pointer that no lock guards, the start of an exporter in   *)
(* the steps another thread can see, and the lifetime of an exporter and    *)
(* its http server under the shared_ptr references that keep it alive:      *)
(* the vector's, a running stop's, and those of a scrape in progress.       *)
(*                                                                         *)
(* Exporters are named by their id.  A call of a thread is its invocation   *)
(* (Call...), then one action per step between which other threads can be   *)
(* observed; a step that takes the lock and gives it back is one action.    *)
(* The http server (prometheus-cpp and civetweb) is external: its workers   *)
(* run the scrapes.  What a scrape reads and a registration writes inside   *)
(* a collector is module SrtExpCollector.                                   *)
(***************************************************************************)
EXTENDS SrtExpConfig, FiniteSets

CONSTANTS
    Threads,            \* the application's threads
    Workers,            \* the threads of each http server
    Configs,            \* what srtexp_init can leave in srtExpConfig
    ForeignAddresses,   \* what other processes may bind and release
    Contract,           \* the rules the application keeps, see below
    MaxStarts           \* bound: calls of srtexp_start

ASSUME ApiAssumption ==
    /\ Configs \subseteq ConfigType
    /\ ForeignAddresses \subseteq Address
    /\ MaxStarts \in Nat
    /\ NULL \notin Threads
    /\ NULL \notin ConfigType \cup Address

VARIABLES
    config,     \* srtExpConfig, NULL before init and after deinit
    undefined,  \* the program reached undefined behaviour, other than the
                \* erase(end()) of StartFails; nothing follows
    apiLock,    \* the thread that holds api_lock, or NULL
    count,      \* the static counter of srtexp_start
    srtExp,     \* the vector srtExp, as the ids of its elements
    spare,      \* the slots allocated behind them: may each be a null pointer
    nameOf,     \* _exporterName of each exporter
    addrOf,     \* the address InitSrtExporter computed for it
    collector,  \* the exporters whose _collector is not null
    server,     \* the http server of each exporter
    worker,     \* what each worker thread of each server does
    foreign,    \* the addresses other processes have bound
    pc,         \* where the call of each thread is
    arg,        \* its exporterName
    cur         \* its exporter: the id given, found or created

world == <<config, undefined, foreign>>
list == <<count, srtExp, spare>>
exporters == <<nameOf, addrOf, collector, server, worker>>
call == <<pc, arg, cur>>
vars == <<world, apiLock, list, exporters, call>>

Ids == 1 .. MaxStarts

PcValues ==
    {"idle", "deinit", "deinit_config", "start", "start_stop", "start_probe",
     "start_bind", "start_collector", "threw", "stop", "stop_delete", "stop_release", "stop_wait", "register"}

ServerStates == {"none", "bound", "exporting", "closing", "down"}

WorkerStates == {"idle", "accepted", "collecting", "replying", "reaping"}

TypeOK ==
    /\ config \in Configs \cup {NULL}
    /\ undefined \in BOOLEAN
    /\ apiLock \in Threads \cup {NULL}
    /\ count \in 0 .. MaxStarts
    /\ srtExp \in Seq(Ids)
    /\ spare \in Seq(BOOLEAN)
    /\ nameOf \in [Ids -> NameValues \cup {NULL}]
    /\ addrOf \in [Ids -> Address \cup {NULL}]
    /\ collector \subseteq Ids
    /\ server \in [Ids -> ServerStates]
    /\ worker \in [Ids -> [Workers -> WorkerStates]]
    /\ foreign \subseteq ForeignAddresses
    /\ pc \in [Threads -> PcValues]
    /\ arg \in [Threads -> NameValues \cup {NULL}]
    /\ cur \in [Threads -> 0 .. MaxStarts]

Init ==
    /\ config = NULL
    /\ undefined = FALSE
    /\ apiLock = NULL
    /\ count = 0
    /\ srtExp = <<>>
    /\ spare = <<>>
    /\ nameOf = [e \in Ids |-> NULL]
    /\ addrOf = [e \in Ids |-> NULL]
    /\ collector = {}
    /\ server = [e \in Ids |-> "none"]
    /\ worker = [e \in Ids |-> [w \in Workers |-> "idle"]]
    /\ foreign = {}
    /\ pc = [t \in Threads |-> "idle"]
    /\ arg = [t \in Threads |-> NULL]
    /\ cur = [t \in Threads |-> 0]

-----------------------------------------------------------------------------
(* The vector, the references, the addresses                               *)

Listed == ToSet(srtExp)

\* Mutant: the search starts at the second element.
FindByNameSkipsFirst(n) ==
    LET i == SelectInSeq(srtExp, LAMBDA e : nameOf[e] = n)
    IN  IF n = NULL \/ i \in {0, 1} THEN 0 ELSE srtExp[i]

\* FindSrtExporter(name) and FindSrtExporter(id): the id of the first match,
\* 0 for nullptr.
FindByName(n) ==
    LET i == SelectInSeq(srtExp, LAMBDA e : nameOf[e] = n)
    IN  IF n = NULL \/ i = 0 THEN 0 ELSE srtExp[i]

FindById(id) == IF id \in Listed THEN id ELSE 0

\* Mutant: erase(begin() + pos, end()).
EraseToEnd(e) == SubSeq(srtExp, 1, SelectInSeq(srtExp, LAMBDA x : x = e) - 1)

\* The vector without the exporter of that id.
Erase(e) == RemoveAt(srtExp, SelectInSeq(srtExp, LAMBDA x : x = e))

\* push_back fills the first spare slot; a full vector moves to storage of twice
\* its size, which may be zeroed memory.
SpareAfterPush == IF spare # <<>> THEN Tail(spare) ELSE [i \in 1 .. Len(srtExp) - 1 |-> TRUE]

\* The elements behind the erased one move down, and the slot of the last becomes
\* spare.  It was moved from, and so null, unless it held the erased one itself.
SpareAfterErase(e) == <<e # Last(srtExp)>> \o spare

\* The last element is destroyed in its place, which keeps the old pointer.
SpareAfterPop == <<FALSE>> \o spare

\* A thread of the API holds the pointer p to the exporter it found.
Held(e) == \E t \in Threads : pc[t] \in {"stop_delete", "stop_release"} /\ cur[t] = e

Collecting(e) == \E w \in Workers : worker[e][w] = "collecting"

\* Somebody still points to the exporter's collector, and so to the exporter.
CollectorLive(e) == e \in collector \/ Collecting(e)

\* The addresses that the library's own servers listen on, and all that are bound.
OwnAddresses ==
    {addrOf[e] : e \in {x \in Ids : server[x] \in {"bound", "exporting", "closing"}}}

InUse == OwnAddresses \cup foreign

-----------------------------------------------------------------------------
(* Calls                                                                   *)

\* The call of t is at this point of its code, in a program still defined.
At(t, label) == ~ undefined /\ pc[t] = label

Goto(t, label) == pc' = [pc EXCEPT ![t] = label]

Return(t) ==
    /\ Goto(t, "idle")
    /\ arg' = [arg EXCEPT ![t] = NULL]
    /\ cur' = [cur EXCEPT ![t] = 0]

\* The rules an application may keep; each is in force when it is a member of
\* Contract.
\*   "sequenced"   init and deinit run alone, and other calls between them
\*   "stop_first"  deinit is called with every exporter stopped
\*   "fresh"       start is called with a name that no exporter has
\*   "named"       start is called with a name
Others(t) == Threads \ {t}

DeinitPcs == {"deinit", "deinit_config"}

MayInitOrDeinit(t) ==
    "sequenced" \in Contract => \A u \in Others(t) : pc[u] = "idle"

MayCall(t) ==
    "sequenced" \in Contract =>
        config # NULL /\ \A u \in Others(t) : pc[u] \notin DeinitPcs

MayStart(t, n) ==
    /\ "named" \in Contract => n # NULL
    /\ "fresh" \in Contract =>
        /\ \A e \in Listed : nameOf[e] # n
        /\ \A u \in Others(t) : pc[u] = "start" => arg[u] # n

Call(t, label, n, e) ==
    /\ At(t, "idle")
    /\ Goto(t, label)
    /\ arg' = [arg EXCEPT ![t] = n]
    /\ cur' = [cur EXCEPT ![t] = e]
    /\ UNCHANGED <<world, list, exporters, apiLock>>

PendingStarts == {t \in Threads : pc[t] = "start"}

CallStart(t) ==
    \E n \in NameValues \cup {NULL} :
        /\ MayCall(t)
        /\ MayStart(t, n)
        /\ count + Cardinality(PendingStarts) < MaxStarts
        /\ Call(t, "start", n, 0)

\* By name, or by id (name NULL); an id that no start returned is 0.
CallStop(t) ==
    \E n \in NameValues \cup {NULL}, id \in 0 .. count :
        /\ MayCall(t)
        /\ n # NULL => id = 0
        /\ Call(t, "stop", n, id)

CallRegister(t) ==
    \E id \in 0 .. count : MayCall(t) /\ Call(t, "register", NULL, id)

CallDeinit(t) ==
    /\ MayInitOrDeinit(t)
    /\ "stop_first" \in Contract => srtExp = <<>>
    /\ Call(t, "deinit", NULL, 0)

-----------------------------------------------------------------------------
(* srtexp_init and srtexp_deinit take no lock                              *)

\* A fresh configuration is installed whether the load succeeds or not.
\* Replacing the pointer while a start reads it is a data race.
SrtExpInit(t) ==
    /\ At(t, "idle")
    /\ MayInitOrDeinit(t)
    /\ config' \in Configs
    /\ undefined' \in
          {FALSE, \E u \in Threads : pc[u] \in {"start_probe", "start_bind", "start_collector"}}
    /\ UNCHANGED <<list, call, exporters, foreign, apiLock>>

\* *(srtExp.end()) = nullptr writes behind the last element; erase(end()) then
\* removes the last element.  The write does nothing in a spare slot that is null:
\* then the exporter is gone from the vector but never reset, and its collector,
\* which points back to it, keeps it alive.
DeinitPop(t) ==
    /\ At(t, "deinit")
    /\ srtExp # <<>>
    /\ apiLock = NULL
    /\ spare # <<>> /\ Head(spare)
    /\ srtExp' = Front(srtExp)
    /\ spare' = SpareAfterPop
    /\ UNCHANGED <<world, call, exporters, apiLock, count>>

\* Or it releases what an old element left there or what is behind the storage;
\* and it races with any call that is inside the lock.
DeinitCorrupts(t) ==
    /\ At(t, "deinit")
    /\ srtExp # <<>>
    /\ undefined' = TRUE
    /\ UNCHANGED <<list, call, exporters, config, foreign, apiLock>>

\* The size is 0, and the loop ends.
DeinitEnds(t) ==
    /\ At(t, "deinit")
    /\ srtExp = <<>>
    /\ Goto(t, "deinit_config")
    /\ UNCHANGED <<world, list, exporters, apiLock, arg, cur>>

\* The configuration is destroyed, also under a start that reads its ports.
DeinitDone(t) ==
    /\ At(t, "deinit_config")
    /\ config' = NULL
    /\ undefined' = (\E u \in Threads : pc[u] = "start_probe")
    /\ Return(t)
    /\ UNCHANGED <<list, exporters, foreign, apiLock>>

-----------------------------------------------------------------------------
(* srtexp_start, and InitSrtExporter under it                              *)

\* Lock, count, look the name up.
StartEnters(t) ==
    /\ At(t, "start")
    /\ apiLock = NULL
    /\ count < MaxStarts
    /\ count' = count + 1

\* std::string(nullptr) throws; the guard gives the lock back.
StartThrows(t) ==
    /\ StartEnters(t)
    /\ arg[t] = NULL
    /\ Goto(t, "threw")
    /\ UNCHANGED <<world, exporters, apiLock, srtExp, spare, arg, cur>>

\* The application catches what srtexp_start let escape.
ExceptionEscapes(t) ==
    /\ At(t, "threw")
    /\ Return(t)
    /\ UNCHANGED <<world, list, exporters, apiLock>>

\* The name runs: srtexp_stop is called with api_lock held, and waits for it.
StartFinds(t) ==
    /\ StartEnters(t)
    /\ FindByName(arg[t]) # 0
    /\ apiLock' = t
    /\ Goto(t, "start_stop")
    /\ cur' = [cur EXCEPT ![t] = FindByName(arg[t])]
    /\ UNCHANGED <<world, exporters, srtExp, spare, arg>>

\* Mutant: the id is taken before it is counted up.
StartCreatesBeforeCount(t) ==
    /\ StartEnters(t)
    /\ arg[t] # NULL
    /\ FindByName(arg[t]) = 0
    /\ config # NULL
    /\ apiLock' = t
    /\ srtExp' = Append(srtExp, count)
    /\ spare' = SpareAfterPush
    /\ cur' = [cur EXCEPT ![t] = count]
    /\ Goto(t, "start_bind")
    /\ UNCHANGED <<world, exporters, arg>>

\* push_back, then the address of the new exporter: its ip, and the port it was
\* given or the first one to probe.
StartCreates(t) ==
    /\ StartEnters(t)
    /\ arg[t] # NULL
    /\ FindByName(arg[t]) = 0
    /\ config # NULL
    /\ apiLock' = t
    /\ srtExp' = Append(srtExp, count')
    /\ spare' = SpareAfterPush
    /\ nameOf' = [nameOf EXCEPT ![count'] = arg[t]]
    /\ addrOf' = [addrOf EXCEPT ![count'] =
          [ip |-> GetServerIp(config, arg[t]), port |-> FirstPort(config, arg[t])]]
    /\ cur' = [cur EXCEPT ![t] = count']
    /\ Goto(t, IF HasOwnPort(config, arg[t]) THEN "start_bind" ELSE "start_probe")
    /\ UNCHANGED <<world, worker, collector, server, arg>>

\* InitSrtExporter reads the configuration through a null pointer.
StartWithoutConfig(t) ==
    /\ StartEnters(t)
    /\ arg[t] # NULL
    /\ FindByName(arg[t]) = 0
    /\ config = NULL
    /\ undefined' = TRUE
    /\ UNCHANGED <<call, exporters, config, foreign, apiLock, srtExp, spare>>

\* GetServerPort probes the ports of the range one by one, and other processes
\* bind and release ports in between.  The probe uses the global ip, whatever ip
\* the exporter will listen on.  A deinit that destroys the configuration meanwhile
\* is undefined (DeinitDone).
Probed(t) == addrOf[cur[t]].port

ProbeGoto(t, label, port) ==
    /\ addrOf' = [addrOf EXCEPT ![cur[t]].port = port]
    /\ Goto(t, label)
    /\ UNCHANGED <<world, list, apiLock, nameOf, worker, collector, server, arg, cur>>

\* The probe's socket is closed again, and the port is free until StartBinds.
ProbeFinds(t) ==
    /\ At(t, "start_probe")
    /\ Probed(t) <= config.portMax
    /\ IsPortAvailable(config.ip, Probed(t), InUse)
    /\ ProbeGoto(t, "start_bind", Probed(t))

ProbeRejects(t) ==
    /\ At(t, "start_probe")
    /\ Probed(t) <= config.portMax
    /\ ~ IsPortAvailable(config.ip, Probed(t), InUse)
    /\ ProbeGoto(t, "start_probe", Probed(t) + 1)

\* Mutant: the loop stops before portMax.
ProbeEndsEarly(t) ==
    /\ At(t, "start_probe")
    /\ Probed(t) >= config.portMax
    /\ ProbeGoto(t, "start_bind", -1)

ProbeEnds(t) ==
    /\ At(t, "start_probe")
    /\ Probed(t) > config.portMax
    /\ ProbeGoto(t, "start_bind", -1)

StartBinds(t) ==
    /\ At(t, "start_bind")
    /\ ExposerStarts(addrOf[cur[t]], InUse)
    /\ server' = [server EXCEPT ![cur[t]] = "bound"]
    /\ Goto(t, "start_collector")
    /\ UNCHANGED <<world, list, apiLock, nameOf, addrOf, worker, collector, arg, cur>>

\* Mutant: the failed exporter stays in the vector.
StartFailsKeeps(t) ==
    /\ At(t, "start_bind")
    /\ ~ ExposerStarts(addrOf[cur[t]], InUse)
    /\ apiLock' = NULL
    /\ Return(t)
    /\ UNCHANGED <<world, list, exporters>>

\* Mutant: the first exporter is erased instead of the last.
StartFailsErasesFirst(t) ==
    /\ At(t, "start_bind")
    /\ ~ ExposerStarts(addrOf[cur[t]], InUse)
    /\ srtExp' = Tail(srtExp)
    /\ spare' = SpareAfterPop
    /\ apiLock' = NULL
    /\ Return(t)
    /\ UNCHANGED <<world, exporters, count>>

\* The Exposer throws, and the start erases end().  C++ leaves that undefined; this
\* is what the library's build does, which removes the last element of the vector.
StartFails(t) ==
    /\ At(t, "start_bind")
    /\ ~ ExposerStarts(addrOf[cur[t]], InUse)
    /\ srtExp' = Front(srtExp)
    /\ spare' = SpareAfterPop
    /\ apiLock' = NULL
    /\ Return(t)
    /\ UNCHANGED <<world, exporters, count>>

\* The collector is created and registered with the http server.
StartDone(t) ==
    /\ At(t, "start_collector")
    /\ IF config = NULL
       THEN /\ undefined' = TRUE
            /\ UNCHANGED <<call, apiLock, collector, server>>
       ELSE /\ collector' = collector \cup {cur[t]}
            /\ server' = [server EXCEPT ![cur[t]] = "exporting"]
            /\ apiLock' = NULL
            /\ Return(t)
            /\ UNCHANGED undefined
    /\ UNCHANGED <<list, config, foreign, nameOf, addrOf, worker>>

-----------------------------------------------------------------------------
(* srtexp_stop, and DeleteSrtExporter under it                             *)

StopTarget(t) == IF arg[t] # NULL THEN FindByName(arg[t]) ELSE FindById(cur[t])

\* Mutant: the exporter is looked up before the lock is taken.
StopFindsUnlocked(t) ==
    /\ At(t, "stop")
    /\ StopTarget(t) # 0
    /\ apiLock' = t
    /\ cur' = [cur EXCEPT ![t] = StopTarget(t)]
    /\ Goto(t, "stop_delete")
    /\ UNCHANGED <<world, list, exporters, arg>>

StopFinds(t) ==
    /\ At(t, "stop")
    /\ apiLock = NULL
    /\ StopTarget(t) # 0
    /\ apiLock' = t
    /\ cur' = [cur EXCEPT ![t] = StopTarget(t)]
    /\ Goto(t, "stop_delete")
    /\ UNCHANGED <<world, list, exporters, arg>>

StopNotFound(t) ==
    /\ At(t, "stop")
    /\ apiLock = NULL
    /\ StopTarget(t) = 0
    /\ Return(t)
    /\ UNCHANGED <<world, list, exporters, apiLock>>

\* Mutant: the exporter is erased without ResetSrtExpCollector.
DeleteWithoutReset(t) ==
    /\ At(t, "stop_delete")
    /\ srtExp' = Erase(cur[t])
    /\ spare' = SpareAfterErase(cur[t])
    /\ Goto(t, "stop_release")
    /\ UNCHANGED <<world, exporters, apiLock, count, arg, cur>>

DeleteSrtExporter(t) ==
    /\ At(t, "stop_delete")
    /\ collector' = collector \ {cur[t]}
    /\ srtExp' = Erase(cur[t])
    /\ spare' = SpareAfterErase(cur[t])
    /\ Goto(t, "stop_release")
    /\ UNCHANGED <<world, apiLock, count, nameOf, addrOf, worker, server, arg, cur>>

\* The pointer p goes out of scope, before the lock does.  The last reference
\* destroys the exporter, and its http server with it.
StopReleasesLast(t) ==
    /\ At(t, "stop_release")
    /\ ~ CollectorLive(cur[t])
    /\ server' = [server EXCEPT ![cur[t]] = "closing"]
    /\ Goto(t, "stop_wait")
    /\ UNCHANGED <<world, list, apiLock, nameOf, addrOf, worker, collector, arg, cur>>

\* Mutant: this path returns without giving the lock back.
StopReleasesSharedLocked(t) ==
    /\ At(t, "stop_release")
    /\ CollectorLive(cur[t])
    /\ Return(t)
    /\ UNCHANGED <<world, list, exporters, apiLock>>

\* A scrape in progress holds the collector: the exporter outlives the call.
StopReleasesShared(t) ==
    /\ At(t, "stop_release")
    /\ CollectorLive(cur[t])
    /\ apiLock' = NULL
    /\ Return(t)
    /\ UNCHANGED <<world, list, exporters>>

\* The http server joins its workers.
StopDone(t) ==
    /\ At(t, "stop_wait")
    /\ \A w \in Workers : worker[cur[t]][w] = "idle"
    /\ server' = [server EXCEPT ![cur[t]] = "down"]
    /\ apiLock' = NULL
    /\ Return(t)
    /\ UNCHANGED <<world, list, nameOf, addrOf, worker, collector>>

-----------------------------------------------------------------------------
(* srtexp_label_register and srtexp_srt_socket_register: the part that is  *)
(* theirs, up to the call of the collector's method                        *)

\* Mutant: the exporter is looked up without the lock.
RegisterUnlocked(t) ==
    /\ At(t, "register")
    /\ undefined' = (FindById(cur[t]) # 0 /\ cur[t] \notin collector)
    /\ Return(t)
    /\ UNCHANGED <<list, exporters, config, foreign, apiLock>>

\* The collector of an exporter that is listed but not started is null.
Register(t) ==
    /\ At(t, "register")
    /\ apiLock = NULL
    /\ undefined' = (FindById(cur[t]) # 0 /\ cur[t] \notin collector)
    /\ Return(t)
    /\ UNCHANGED <<list, exporters, config, foreign, apiLock>>

-----------------------------------------------------------------------------
(* The http servers: a worker takes a request, calls Collect on the        *)
(* registered collector with the handler's mutex held, and writes the      *)
(* answer.  The server keeps a weak pointer to the collector.              *)

WorkerAt(e, w, state) == ~ undefined /\ worker[e][w] = state

WorkerGoto(e, w, state) ==
    /\ worker' = [worker EXCEPT ![e][w] = state]
    /\ UNCHANGED <<world, list, call, apiLock, nameOf, addrOf, collector>>

Accept(e, w) ==
    /\ WorkerAt(e, w, "idle")
    /\ server[e] \in {"bound", "exporting"}
    /\ WorkerGoto(e, w, "accepted")
    /\ UNCHANGED server

Scrape(e, w) ==
    /\ WorkerAt(e, w, "accepted")
    /\ ~ Collecting(e)
    /\ WorkerGoto(e, w, IF server[e] # "bound" /\ e \in collector
                        THEN "collecting" ELSE "replying")
    /\ UNCHANGED server

CollectReturns(e, w) ==
    /\ WorkerAt(e, w, "collecting")
    /\ e \in collector \/ Held(e)
    /\ WorkerGoto(e, w, "replying")
    /\ UNCHANGED server

\* The worker drops the last reference: it destroys the exporter, whose http
\* server joins its workers, this one included.
CollectDestroys(e, w) ==
    /\ WorkerAt(e, w, "collecting")
    /\ ~ (e \in collector \/ Held(e))
    /\ server' = [server EXCEPT ![e] = "closing"]
    /\ WorkerGoto(e, w, "reaping")

Reply(e, w) ==
    /\ WorkerAt(e, w, "replying")
    /\ WorkerGoto(e, w, "idle")
    /\ UNCHANGED server

-----------------------------------------------------------------------------
(* Other processes on the host                                             *)

ForeignBind ==
    ~ undefined /\ \E a \in ForeignAddresses \ foreign :
        /\ CanBind(a, InUse)
        /\ foreign' = foreign \cup {a}
        /\ UNCHANGED <<list, call, exporters, config, undefined, apiLock>>

ForeignRelease ==
    ~ undefined /\ \E a \in foreign :
        /\ foreign' = foreign \ {a}
        /\ UNCHANGED <<list, call, exporters, config, undefined, apiLock>>

-----------------------------------------------------------------------------
Invocation(t) ==
    CallStart(t) \/ CallStop(t) \/ CallRegister(t) \/ CallDeinit(t) \/ SrtExpInit(t)

StartStep(t) ==
    \/ StartThrows(t) \/ ExceptionEscapes(t) \/ StartFinds(t) \/ StartCreates(t)
    \/ StartWithoutConfig(t) \/ ProbeFinds(t) \/ ProbeRejects(t) \/ ProbeEnds(t)
    \/ StartBinds(t) \/ StartFails(t) \/ StartDone(t)

StopStep(t) ==
    \/ StopFinds(t) \/ StopNotFound(t) \/ DeleteSrtExporter(t)
    \/ StopReleasesLast(t) \/ StopReleasesShared(t) \/ StopDone(t)

DeinitStep(t) ==
    DeinitPop(t) \/ DeinitCorrupts(t) \/ DeinitEnds(t) \/ DeinitDone(t)

CallStep(t) == StartStep(t) \/ StopStep(t) \/ DeinitStep(t) \/ Register(t)

ScrapeStep(e, w) ==
    Scrape(e, w) \/ CollectReturns(e, w) \/ CollectDestroys(e, w) \/ Reply(e, w)

Next ==
    \/ \E t \in Threads : Invocation(t) \/ CallStep(t)
    \/ \E e \in Ids, w \in Workers : Accept(e, w) \/ ScrapeStep(e, w)
    \/ ForeignBind \/ ForeignRelease

Spec == Init /\ [][Next]_vars

\* A call that can take a step does, and so does a scrape that was accepted.
\* Nobody has to call, to scrape, or to bind.
Fairness ==
    /\ \A t \in Threads : WF_vars(CallStep(t))
    /\ \A e \in Ids, w \in Workers : WF_vars(ScrapeStep(e, w))

FairSpec == Spec /\ Fairness

-----------------------------------------------------------------------------
(* Properties                                                              *)

\* A start works on the exporter it has pushed.
StartingPcs == {"start_probe", "start_bind", "start_collector"}

Starting(e) == \E t \in Threads : pc[t] \in StartingPcs /\ cur[t] = e

\* srtexp_exporter.hpp calls _exporterName "the unique name": no two exporters
\* of the vector ever share one, whatever calls interleave, so that a lookup
\* by name can only mean one exporter.
UniqueNames ==
    \A d, e \in Listed : nameOf[d] = nameOf[e] => d = e

\* A step of srtexp_start that uses srtExp.back() or erases the end finds the
\* exporter this very call created there, and a stop that found an exporter
\* still finds it when it deletes: no other call moved it in between.
CallsKeepTheirExporter ==
    \A t \in Threads :
        /\ pc[t] \in StartingPcs => srtExp # <<>> /\ Last(srtExp) = cur[t]
        /\ pc[t] = "stop_delete" => cur[t] \in Listed

\* Every exporter a lookup can return has its collector and its http server,
\* unless its start still holds the lock: a failed start leaves no half-made
\* exporter behind.
ListedExportersWork ==
    \A e \in Listed : Starting(e) \/ (e \in collector /\ server[e] = "exporting")

\* No http server is forgotten: while one is up, the vector, a call or a scrape
\* that is under way still leads to it.  (One that is "reaping" waits for itself.)
NoForgottenServer ==
    \A e \in Ids : server[e] \in {"bound", "exporting", "closing"} =>
        \/ e \in Listed
        \/ Held(e)
        \/ \E t \in Threads : pc[t] = "stop_wait" /\ cur[t] = e
        \/ \E w \in Workers : worker[e][w] \in {"collecting", "reaping"}

\* An application that sequences init and deinit and stops its exporters first
\* dereferences no null configuration or collector, and deinit never writes past
\* the vector.  This is said of everything but line 96: the erase(end()) of a start
\* that fails is undefined in C++, and the property takes it for what this build
\* makes of it (StartFails).
OtherwiseDefined == ~ undefined

\* An exporter that works leaves the vector only by a stop that found it or by
\* deinit: "Each SRT Exporter object has a separate lifecycle" (design.md:17).
\* A failing start of another exporter takes nobody with it.
OnlyStopRemoves ==
    [][\A e \in Listed : e \notin Listed' /\ ~ Starting(e) =>
          \E t \in Threads :
              \/ pc[t] = "stop_delete" /\ cur[t] = e
              \/ pc[t] = "deinit"]_vars

\* "An available port within a range would be chosen" (design.md:86): a start
\* that was given no port ends its search with a port its server can bind, or
\* without one if no port of the range can be bound on that exporter's ip, but for
\* those another process has released behind it; and by the time it binds, only
\* another process can have taken the port, not another start.
AvailablePortChosen ==
    [][\A t \in Threads :
          LET a == addrOf[cur[t]]
              On(p) == [ip |-> a.ip, port |-> p]
          IN  /\ ProbeFinds(t) => ExposerStarts(a, InUse)
              /\ ProbeEnds(t) => \A p \in config.portMin .. config.portMax :
                    CanBind(On(p), InUse) => \E b \in ForeignAddresses : Conflicts(On(p), b)
              /\ StartFails(t) /\ ~ HasOwnPort(config, arg[t]) =>
                    a.port = -1 \/ \E b \in foreign : Conflicts(a, b)]_vars

\* api_lock is not kept for ever: each call that takes it gives it back, also
\* the stop that waits for the workers of a server to finish.
LockReleased == \A t \in Threads : apiLock = t ~> apiLock # t

\* The http server of an exporter that was stopped goes down, or one of its own
\* workers is the one destroying it.
StoppedIsTakenDown ==
    \A e \in Ids :
        (server[e] = "exporting" /\ e \notin Listed) ~>
            (server[e] = "down" \/ \E w \in Workers : worker[e][w] = "reaping")

\* "Use this API to stop an SRT Exporter object" (design.md:143): after a stop
\* the http server goes down.
StoppedGoesDown ==
    \A e \in Ids :
        (server[e] = "exporting" /\ e \notin Listed) ~> server[e] = "down"

\* "Clear all SRT Exporter objects" (design.md:130): when deinit is done no http
\* server of the library is up.
DeinitClears ==
    [][\A t \in Threads : DeinitDone(t) =>
          \A e \in Ids : server[e] \in {"none", "down"}]_vars

-----------------------------------------------------------------------------
(* The inductive invariant: what the lock, the vector, the counters and    *)
(* the references say of each other in every state, for every Contract.    *)

LockedPcs ==
    {"start_stop", "start_probe", "start_bind", "start_collector",
     "stop_delete", "stop_release", "stop_wait"}

\* The lock is held exactly by a call between its lock and its return.
LockInv == \A t \in Threads : apiLock = t <=> pc[t] \in LockedPcs

\* The vector is in the order of the ids, which the counter bounds, and its
\* exporters have names, no two the same.
VectorInv ==
    /\ \A i, j \in 1 .. Len(srtExp) : i < j => srtExp[i] < srtExp[j]
    /\ \A e \in Listed : e <= count /\ nameOf[e] # NULL
    /\ UniqueNames

\* An id that was not counted yet has left no trace.
FreshInv == \A e \in Ids : e > count => server[e] = "none"

\* The exporter of a start is the newest, and is as far as the call is.
StartInv ==
    \A t \in Threads :
        /\ pc[t] \in StartingPcs =>
              srtExp # <<>> /\ Last(srtExp) = cur[t] /\ cur[t] = count
        /\ pc[t] = "start_probe" => addrOf[cur[t]] # NULL
        /\ pc[t] \in {"start_probe", "start_bind"} => server[cur[t]] = "none"
        /\ pc[t] = "start_collector" => server[cur[t]] = "bound"

\* So is the exporter of a stop.
StopInv ==
    \A t \in Threads :
        /\ pc[t] = "stop_delete" => cur[t] \in Listed
        /\ pc[t] \in {"stop_release", "stop_wait"} =>
              cur[t] \in Ids \ (Listed \cup collector)
        /\ pc[t] = "stop_release" => server[cur[t]] = "exporting"
        /\ pc[t] = "stop_wait" => server[cur[t]] = "closing"

\* A collector, and a scrape that runs in it, keep the http server up; the
\* handler's mutex lets one scrape of an exporter run at a time.
ServerInv ==
    \A e \in Ids :
        /\ e \in collector => server[e] = "exporting"
        /\ Collecting(e) => server[e] = "exporting"
        /\ \A v, w \in Workers :
              worker[e][v] = "collecting" /\ worker[e][w] = "collecting" => v = w

IInv ==
    /\ TypeOK
    /\ LockInv
    /\ VectorInv
    /\ FreshInv
    /\ StartInv
    /\ StopInv
    /\ ServerInv
    /\ ListedExportersWork

\* With an application that sequences init and deinit and stops first, deinit
\* runs alone on an empty vector, every other call runs with a configuration,
\* and an exporter loses its collector when it leaves the vector.
SafeInv ==
    /\ OtherwiseDefined
    /\ \A t \in Threads : pc[t] \in DeinitPcs =>
          srtExp = <<>> /\ \A u \in Others(t) : pc[u] = "idle"
    /\ \A t \in Threads : pc[t] \notin {"idle"} \cup DeinitPcs => config # NULL
    /\ collector \subseteq Listed
    /\ NoForgottenServer

\* A server of the library listens on the address, or another process may; or the
\* host does not have it.
Taken(a) ==
    \/ a.ip \notin LocalIps
    \/ \E b \in OwnAddresses \cup ForeignAddresses : Conflicts(a, b)

\* What a search for a port has found out stays true while it has the lock: each
\* port behind it is taken, and the one it ends with is no other server's.  With
\* init and deinit sequenced it searches in one configuration.
PortInv ==
    \A t \in Threads :
        LET a == addrOf[cur[t]]
        IN  /\ pc[t] \in DeinitPcs => \A u \in Others(t) : pc[u] = "idle"
            /\ pc[t] \in {"start_probe", "start_bind"} => config # NULL
            /\ pc[t] = "start_probe" =>
                  /\ a.ip = config.ip /\ a.port >= config.portMin
                  /\ \A p \in config.portMin .. a.port - 1 : Taken([ip |-> a.ip, port |-> p])
            /\ pc[t] = "start_bind" /\ ~ HasOwnPort(config, arg[t]) =>
                  a.port = -1 \/ ExposerStarts(a, OwnAddresses)

-----------------------------------------------------------------------------
\* The exporters that run, the ids handed out and the servers that are up
\* change only as ExporterRegistry says.
Registry == INSTANCE ExporterRegistry WITH
    Names   <- NameValues,
    running <- {[id |-> e, name |-> nameOf[e]] : e \in Listed \cap collector},
    issued  <- {e \in Ids : server[e] \in {"exporting", "closing", "down"}},
    up      <- {e \in Ids : server[e] \in {"exporting", "closing"}}

ImplementsRegistry == Registry!RegistrySpec
=============================================================================
