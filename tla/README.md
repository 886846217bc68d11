# srt-prometheus-exporter in TLA+

A verification development of the SRT Prometheus exporter library: TLA+ models
of its API, its exporters, its configuration, its collectors and its logger, of
these put together under the repository's two sample applications, the TLC
configurations that check them on small instances, and proofs, checked by TLAPS,
of what holds for any number of threads, exporters, sockets, labels and files.
Line numbers refer to the repository's `src/`; `api.cpp` stands for
`source/srtexp_api.cpp`, `collector.cpp` for `source/srtexp_collector.cpp`, and
so on.

## The system

An application links the library, calls `srtexp_init` with a YAML file, starts
exporters by name, registers SRT sockets and labels with them, and stops them.
Each exporter owns an http server (prometheus-cpp on civetweb) from which
Prometheus scrapes the statistics of the registered sockets.

| Component | State | Operations | Modules |
|---|---|---|---|
| API (`api.cpp`) | `srtExp`, a vector of `shared_ptr`; `srtExpConfig`; `api_lock`; a static counter | `srtexp_init`, `srtexp_deinit`, `srtexp_start`, `srtexp_stop` by name or id, two registrations, two log settings | `SrtExpApi`, `ExporterRegistry`; the log settings in `SrtExpLogger` |
| Exporter (`exporter.cpp`, `exporter.hpp`) | name, id, http server, collector | `InitSrtExporter`, `SetSrtExpCollector`, `ResetSrtExpCollector`, destruction | `SrtExpApi` |
| Configuration (`config.cpp`, `config.hpp`) | global section, list of object sections | `LoadConfigFile`; lookups of ip, port, collector configuration; the search for a port | `SrtExpConfigLoad`, `SrtExpConfig`, `SrtExpFilter`; the search in `SrtExpApi` |
| Collector (`collector.cpp`, `collector.hpp`) | filtered table with a label list and a buffer per entry, common labels, sockets, translated metrics | constructor, `LabelRegister`, `SrtSockRegister`, `Collect` | `SrtExpFilter`, `SrtExpCollector`, `LabelRegistry` |
| Logger (`logger.cpp`) | destination, level | a line of each of three priorities; the two setters | `SrtExpLogger` |
| C wrapper (`api_c_wrapper.cpp`) | none | forwards; chooses between the two forms of stop | `SrtExpSystem`, `StopTarget` in `SrtExpApi` |
| Samples (`sample/*.c`) | the id they got, their sockets | one sequence of calls each | `SrtExpSystem` |

How they interact:

- The application's threads call the API. `api_lock` serialises all of it but
  `srtexp_init` and `srtexp_deinit`, which take no lock.
- An exporter holds its collector and the collector holds its exporter, a cycle
  of `shared_ptr` that only `ResetSrtExpCollector` breaks. The vector, a running
  stop and a running scrape hold further references; whoever drops the last one
  destroys the exporter and its http server.
- The http server's workers call `Collect` from threads of their own, under a
  mutex of the server but without `api_lock`, while the application registers
  labels and sockets.
- The configuration is read by `InitSrtExporter` and by the collector's
  constructor through the global pointer.
- Every thread logs, and reads the destination and the level without a lock.

What is hard in it: calls that interleave around one vector, with a slow http
server start in the middle; an http server that fails to start and has to be
undone; the last reference to an exporter dropped by a scrape; `Collect` racing
with registrations; exceptions that leave a load half done; ports that are
probed first and bound later while other processes come and go; settings that
are read in two steps. `PROJECT.json` lists each of these hazards at its line
with the properties that speak of it.

What makes each part correct:

- API: names stay unique, a step of a call works on the exporter of that call,
  only a stop removes an exporter, every listed exporter works, the lock is
  given back, no server is forgotten, nothing undefined is reached by an
  application that keeps the documented order of calls, but for the
  `erase(end())` of a start that fails.
- Configuration: a name finds its own section, a filter exports what is
  documented, a range stays a range, a port that is chosen can be bound.
- Collector: each scrape reports every open socket with its own statistics of
  this scrape and its own labels; a list of labels behaves as a map.
- Logger: one pair of settings explains where each line went.
- The whole: an answer of the http server tells what the application has asked
  for; every scrape ends, and so does an application that stops its exporter.

## The modules

`SrtExpApi` (extends `SrtExpConfig`). An exporter is its id, 1 to `MaxStarts`,
since ids are never reused. `srtExp` is the vector as a sequence of ids, and
`spare` are the slots allocated behind its last element, each with whether it may
be null; `nameOf`, `addrOf`, `collector` and `server` are the exporter's members;
`worker` says what each thread of its http server does. A call is an invocation
(`CallStart`, `CallStop`, `CallRegister`, `CallDeinit`) followed by one action
for every step that another thread or process can tell apart. A start is
`StartCreates` (lock, count, lookup, `push_back`, ip), the loop of
`GetServerPort` with one `ProbeFinds`, `ProbeRejects` or `ProbeEnds` per port,
`StartBinds` or `StartFails` (`Exposer`, `erase(end())`) and `StartDone`
(collector, registration, unlock). A stop is `StopFinds`, `DeleteSrtExporter`
and the release of its last pointer, `StopReleasesLast` followed by `StopDone`
when this destroys the exporter, `StopReleasesShared` when a scrape still holds
it. A deinit is `DeinitPop` while the size is not 0, then `DeinitEnds` and, since
other calls may come between the two, `DeinitDone` (`srtExpConfig = nullptr`).
What runs without a visible step in between is one action. Steps of the http
server (`Accept`, `Scrape`, `CollectReturns`, `CollectDestroys`, `Reply`) and of
other processes (`ForeignBind`, `ForeignRelease`) are external. Undefined
behaviour sets `undefined` and stops everything: a null configuration or
collector, a configuration replaced or destroyed while a start reads it, and
`srtexp_deinit` writing past the vector (`DeinitCorrupts`). That last write does
nothing where the slot behind the last element is allocated and null, and only
then `DeinitPop` is possible.

One undefined behaviour does not set `undefined`: the `srtExp.erase(srtExp.end())`
of a start that fails (`api.cpp:96`). C++ gives it no meaning; `StartFails` is what
the library's build makes of it, so that the rest of what happens after a failed
start can be checked. Every statement here about undefined behaviour of the API
(`OtherwiseDefined`) is therefore about all of it but line 96, and in a build where
that line does something else the models say nothing from there on.

`Contract` is the set of rules the application keeps: init and deinit run alone
(`"sequenced"`), deinit comes after every stop (`"stop_first"`), start gets a
name that is not running (`"fresh"`) and not null (`"named"`). A run or a theorem
without a rule shows what does not need it, or what happens when it is not kept.

`ExporterRegistry` is what the API promises, without vector, lock or
references: running exporters, ids handed out, servers up. `SrtExpApi`
implements it through the mapping at its end (`ImplementsRegistry`).

`SrtExpConfig` holds the lookups and the probe of one port as operators over a
configuration, with `bind(2)` and the start of the http server as external
operators on the set of addresses in use.

`SrtExpFilter` holds the table of the variables and `LoadFilterFromConfig`. The
table is cut down to one variable of each kind: for sources, for destinations,
for both, for neither, and the one whose offset is another's.

`SrtExpConfigLoad` (extends `SrtExpFilter`) is `srtexp_init` statement by
statement. A file is a record of sections whose values may be missing (`NULL`)
or of the wrong type (`Bad`). A conversion of a `Bad` value throws
`YAML::BadConversion`, which nothing in the library catches, and leaves what was
stored before it. `DumpConfig` only logs and is left out.

`SrtExpCollector` (extends `SrtExpFilter`) is one collector: `LabelRegister` and
`SrtSockRegister` as whole operations, and a scrape step by step, down to the
counting of the labels and the two loops that copy them. A statistic is
`<<offset, number>>`: which field was read and when. Sockets connect, count and
close at any time. Invalidated iterators, an overrun of the labels and a racing
write are `undefined`. `"quiet"` is the rule that no registration overlaps a
scrape; nothing in the library enforces it.

`LabelRegistry` is the abstraction of the labels: one map from names to values
for each variable and one for all. `SrtExpCollector` implements it
(`ImplementsLabels`), whatever the scrapes do.

`SrtExpLogger` is a line as its two reads, `LineBranches` of the destination and
`LineIsWritten` or `LineIsLeftOut` of the level, between the calls that set the
two, which come in any order. `inForce` remembers the pairs of settings in force
since a line has read the destination. `BothChanged` is the one way in which a line
can combine a destination and a level that were never in force together: the first
was changed and then the second, between the two reads.

`SrtExpSystem` composes `SrtExpApi`, for one thread and one exporter, with an
instance of `SrtExpCollector` for that exporter, under a program: `Caller` and
`Listener` are the two samples, their calls in order and their section of
`srt_exporter.yaml`. The calls go through the C wrapper (`CInit`, `CStart`,
`CRegister`, `CStop`, `CDeinit`). A registration is `Register` of the API and
the collector's method in one step, `RegisterInCollector`; a scrape is `Scrape`
with `CollectStarts`, then the steps of `Collect`, then `Reply` of the collector
with `CollectReturns` or `CollectDestroys`. A start that fails sends the program
to its last call, as in both samples. `raced` is the collector's `undefined`.

`VectorFacts`, `SrtExpFilterProofs`, `SrtExpApiProofs`, `SrtExpCollectorProofs`,
`SrtExpLoggerProofs`, `SrtExpConfigLoadProofs` and `SrtExpSystemProofs` hold the
lemmas and the theorems. The `MC...` modules give the constants for TLC.
Definitions commented "Mutant" are faulty variants of the definition that
follows them, kept to show that the properties notice.

## The runs

Runs that pass:

| Run | Question | Instance |
|---|---|---|
| `api_any_order` | Any calls in any order: `UniqueNames`, `CallsKeepTheirExporter`, `ListedExportersWork`, `OnlyStopRemoves`, `ImplementsRegistry` | 2 threads, 1 worker per server, 2 starts, 2 names, default configuration or one object section, empty contract |
| `api_contract` | What an application gets that keeps the four rules: `OtherwiseDefined` (all but `api.cpp:96`), `NoForgottenServer`, `AvailablePortChosen`, and under fairness `LockReleased`, `StoppedIsTakenDown` | 2 threads, 1 worker, 2 starts, one ip, a range of 2 ports, an object section with the last one, a foreign process that binds and releases the first |
| `config_load` | Every way a load ends: `NameFindsItsSection`, `ExportsAsDocumented`, `OnlyLastObjectPartial` | every file of up to two of ten exporter sections, and of up to three of four, each under several global sections |
| `collector_quiet` | What a scrape returns when registrations do not overlap it: `EverySocketReported`, `FreshValues`, `LabelsWhole`, `NeverUndefined` | 2 sockets registered in any order and multiplicity up to 2, 1 label name and value, 2 variables or an empty filter, statistics up to 1 |
| `collector_labels` | Do label lists behave as maps: `ImplementsLabels` | 2 names, 2 values, the common list and one variable's |
| `logger` | Where a line goes while the settings change: `OneSettingExplains` | 2 threads, both destinations and a wrong one, five levels of which two are out of range, set in any order |
| `system` | Do the samples get what they ask for: `AnswersTellWhatWasAsked`, `OtherwiseDefined` (all but `api.cpp:96`), and under fairness `SampleEnds`, `ImplementsApi` | either sample, 2 workers, the table and the whitelist cut down to the modelled variables, statistics up to 1, a foreign process on the listener's port, `"quiet"` |

Each of these also checks its module's `TypeOK` where one is listed in the cfg.
Deadlock is checked in all but two of them: in `api_any_order` a restart really
blocks, and in `system` the programs end.

Runs that find a disagreement between the code and what is said of it, each
quoted in `PROJECT.json`:

| Run | What TLC shows |
|---|---|
| `api_restart` | starting a running name calls `srtexp_stop` with `api_lock` held, for ever (`api.cpp:87`) |
| `api_deinit` | `srtexp_deinit` works on `end()`: the server of the exporter it drops stays up (`api.cpp:70`); another was stopped before, so that the write of line 70 hits a null slot and does nothing |
| `api_stop_in_scrape` | a stop during a scrape leaves the exporter to the worker, whose server's destructor waits for that very worker |
| `config_blacklist` | a blacklist of two exports all, some twice (`collector.cpp:176`) |
| `sample_overwrite` | the listener sample registers sockets while a request is answered, and changes the vector `Collect` iterates over (`collector.cpp:87`) |

More disagreements were met while modelling. They have no run of their own; the
models contain them, and the passing runs stay clear of them as said here:

| Where | What | How the passing runs avoid it |
|---|---|---|
| `config.cpp:109` | ports are probed on the global ip although the exporter listens on its own, so that "an available port within a range" (`design.md:86`) is not what it gets | `api_contract` has one ip; with `Configs <- TwoIpOnly`, `AvailablePortChosen` fails |
| `config.cpp:273` | `htons` truncates: the probe of port 65536 asks for any port and succeeds | ranges of legal ports; with `Configs <- HighPortOnly`, `AvailablePortChosen` fails |
| `config.cpp:77` | a name generated for an unnamed section can be the name of another section, which is then skipped | no file of `config_load` has one; with `Files <- GeneratedNameFiles`, `NameFindsItsSection` fails |
| `api.cpp:90` | a null name, "OK" by `design.md:137`, throws out of the API | it ends in `StartThrows`; the properties allow it |
| `config.cpp:203` | filter mode `srt_common` (`design.md:101`) exports nothing, in the shipped `srt_exporter.yaml` too | with `Files <- CommonFiles`, `ExportsAsDocumented` fails |
| `api.cpp:57` | a value of the wrong type throws out of `srtexp_init` and leaves half of the file, not the "default config" of line 59 | `OnlyLastObjectPartial` says how much can be left |
| `collector.cpp:106` | a label removed during a scrape ("dynamically", `design.md:151`) leaves one without a name | `collector_quiet` keeps registrations and scrapes apart; with `Contract <- NoContract`, `LabelsWhole` fails |
| `collector.hpp:45` | `pktRecvNAKTotal`, "total number of received NAK packets", reports `pktRecvACKTotal` | it is in `DataMap`, in no filter of `collector_quiet`; with it, `FreshValues` fails |
| `logger.cpp:34,40` | a destination and a level that were never set together can decide a line, when both change between the two reads, the destination first | `OneSettingExplains` exempts a line for which `BothChanged` holds; without the exemption it fails |
| `logger.cpp:41` | `SRT_EXP_STDERR` writes to `std::cout` (`design.md:161` says stderr) | the model has two destinations and does not say which stream the second is |

`"quiet"` is a rule of the model, kept by neither sample: `sample_overwrite` is
the same system without it. What the passing runs say under `"quiet"` is what an
application gets that serialises its registrations with the scrapes, or whose
server happens to be asked nothing meanwhile.

### Bounds

- Two threads and two starts: the lock, the vector and one exporter meet any
  interference from one other call; two exporters are what it takes for an
  erase to hit the wrong one or a name to be found twice, and, in `api_deinit`, for
  one of them to leave a slot behind the other. The proofs remove this bound.
- One worker is enough for a scrape to be in progress; `system` takes two, so
  that one reads while another waits for the server's mutex.
- Two ports, one of them contested, is the smallest range with a first choice, a
  second and none; the object section with the second, and the foreign process
  on the first, take both.
- Three sections: one before, one that repeats a name, one after. Values throw at
  every conversion of the loader in some file.
- Two sockets: one that closes before or after the other. One label per list is
  enough to be counted and gone; `collector_labels` takes two names, so that an
  erase has something to leave; the samples bring three.
- In `system` each sample registers one socket at a time (`MaxSockets` is 1), and
  statistics that grow once tell an old value from a new one. The repetitions of
  the samples' waiting loops (120 and 180 seconds) are one wait of any length.
- `MaxStarts`, `MaxSockets` and `MaxStat` are the only counters that are bounded,
  each by a guard that names it. Files and label lists are bounded by the sets
  they are drawn from.

### Fairness

`FairSpec` assumes weak fairness of the steps of each call (`CallStep`) and of
each accepted scrape (`ScrapeStep`). The code justifies it: each of these is
ordinary sequential code of a thread that the operating system schedules, blocked
only on `api_lock`, on the server's mutex or on a join. Nobody has to call the
API, to scrape, or to bind a port. `api_lock` and the server's mutex are not
assumed to be fair: a property that asked every waiting call to get the lock
would need that, and none does.

That a scrape in `FairSpec` ends takes for granted that `Collect` returns.
`SystemFairness` does not: it assumes weak fairness of the steps of the program's
call, of the steps of `Collect` and of the workers, and `ImplementsApi` checks
that the fairness of `FairSpec` follows. The program makes its next call under
strong fairness: under `"quiet"` a registration waits for a moment without a
scrape, and since no scrape is in progress for ever, such moments come again and
again. A connection may never come: `SocketConnects` has no fairness, and
the second part of `SampleEnds` speaks of a sample that has reached its stop. The
first part does not pass a wait: from its start on, a sample gets its exporter, or
comes to its end without an http server.

## What is proved

TLAPS checks, for every value of the constants that satisfies the assumptions
named in each module:

| Module, assumptions | Theorem | States |
|---|---|---|
| `SrtExpApiProofs` | `InvariantHolds` | `Spec => []IInv` |
| `ConfigAssumption`, `ApiAssumption`: configurations are records of the right type, `NULL` is nothing else | `TypeCorrect` | `Spec => []TypeOK` |
| | `NamesAreUnique` | `Spec => []UniqueNames` |
| | `CallsKeepExporters` | `Spec => []CallsKeepTheirExporter` |
| | `ListedWork` | `Spec => []ListedExportersWork` |
| | `StartRemovesNobody` | `Spec => OnlyStopRemoves` |
| | `SafeUse`, `NothingIsForgotten` | under `{"sequenced", "stop_first"} \subseteq Contract`: `[]OtherwiseDefined` (all but `api.cpp:96`), `[]NoForgottenServer` |
| | `Refines` | `Spec => ImplementsRegistry` |
| | `ChosenPortIsAvailable` | under `"sequenced"` and `ProbedAlike`: `Spec => AvailablePortChosen` |
| `SrtExpFilterProofs`, none | `WhitelistExports`, `BlacklistOfOneExports`, `OtherBlacklists` | what `LoadFilterFromConfig` selects for a list of any length |
| `SrtExpCollectorProofs` | `InvariantHolds`, `TypeCorrect` | `Spec => []IInv`, `Spec => []TypeOK` |
| `CollectorAssumption`: filters and labels are of the right type | `ValuesAreFresh` | `OwnOffsets => (Spec => []FreshValues)` |
| | `ScrapesAreDefined` | under `"quiet"`: `[]NeverUndefined` |
| | `EverySocketIsReported` | under `"quiet"`: `[]EverySocketReported` |
| | `LabelsAreWhole` | under `"quiet"` and `DistinctEntries`: `[]LabelsWhole` |
| | `ListsOnceAreDistinct`, `OnlyNakIsWrong` | which configurations satisfy `DistinctEntries` and `OwnOffsets` |
| | `RefinesLabels` | `Spec => ImplementsLabels` |
| `SrtExpConfigLoadProofs` | `InvariantHolds`, `TypeCorrect` | `Spec => []IInv`, `Spec => []TypeOK` |
| `LoadAssumption`: files are of the right type, there are names enough | `NamesFindTheirSections` | under `GeneratedApart`: `[]NameFindsItsSection` |
| | `FiltersExportAsDocumented` | under `GeneratedApart` and `PlainFilters`: `[]ExportsAsDocumented` |
| | `OnlyTheLastIsPartial` | under `PlainFilters`: `[]OnlyLastObjectPartial` |
| `SrtExpLoggerProofs`, `LoggerAssumption` | `InvariantHolds`, `TypeCorrect`, `OneSettingExplainsLines` | `Spec => []IInv`, `Spec => []TypeOK`, `Spec => OneSettingExplains` |
| `SrtExpSystemProofs`, `SystemAssumption` | `ApiIsImplemented`, `CollectorIsImplemented` | `SystemSpec => Spec`, `SystemSpec => C!Spec` |
| | `SamplesUseTheApiSafely` | under `AllSequenced`: `[]OtherwiseDefined` (all but `api.cpp:96`) |
| | `AnswersAreRight` | under `AllSequenced`, `AllAskOnce` and `"quiet"`: `[]AnswersTellWhatWasAsked` |
| | `SamplesAskOnce` | both samples satisfy `Sequenced` and `AsksOnce` |

The hypotheses on configurations and files exclude what the tables above list.
`GeneratedApart` excludes `config.cpp:77`. `OwnOffsets` excludes
`collector.hpp:45`: `OnlyNakIsWrong` proves that it holds of exactly the filters
without that entry. `ProbedAlike` excludes `config.cpp:109` and `config.cpp:273`:
ports of a range have 16 bits, and exporters that are given no port are given no
ip of their own. `PlainFilters` excludes `collector.cpp:176` and `config.cpp:203`,
and a list that repeats a variable; `OtherBlacklists` proves what the blacklists it
excludes select instead, all variables or none. `DistinctEntries` excludes lists whose
variables get two entries (`ListsOnceAreDistinct`).

The API. All but `SafeUse`, `NothingIsForgotten` and `ChosenPortIsAvailable` hold
for every `Contract`, the empty one included: up to the moment the program becomes undefined, whatever
its callers do. `Spec` stops there, as nothing can be said of what follows. None
of the properties is inductive by itself. That a start's `srtExp.back()` is its
own exporter needs to know that only the holder of the lock changes the vector
(`LockInv`), that a push goes to the end and its id is the count (`StartInv`),
and, for the erase in a stop to keep this and remove exactly one exporter, that
the ids in the vector increase (`VectorInv`). That a new exporter's server has no
past needs the counter to bound all ids in use (`FreshInv`). That a listed
exporter works needs the exporter of a failing start to be the last one
(`StartInv`), and its server to stay up while the collector is there
(`ServerInv`); a stop must own what it releases (`StopInv`). `IInv` is the
conjunction. What `SafeUse` establishes is that none of the causes of `undefined`
is reached; the undefined behaviour of line 96 is not among them (see above), and
it is reached by every start whose http server fails. `SafeInv` strengthens `IInv`
under the two rules: `srtexp_deinit` runs
alone and on an empty vector, calls run with a configuration, and only listed
exporters have a collector. `VectorFacts` proves what `push_back`, `erase` of a
position and `erase(end())` make of an increasing sequence. `Refines` maps the
last step of a start to the abstract start, the erase of a stop to the abstract
stop, the end of the join to the server going down, and every other step to a
stutter.

The search for a port goes on while other threads cannot, since the lock is held,
but other processes can. `PortInv` is what it knows: each port behind it is one
that a server of the library has, or that another process may take (`Taken`), and
that stays so, for servers of the library cannot go down meanwhile and which
addresses others may use is fixed; the port it ends with is in conflict with no
server of the library (`OwnAddresses`), and none can start before this one binds. The
probe asks on the global ip and the exporter binds on its own: `ProbedAddress`
shows where the two are the same, and uses that the configuration is the one the
start began with.

The filter. `FilterSelects` turns the double loop into a set: an entry is pushed
once for each variable of the list that lets it pass (`Lets`). What a mode makes
of a list follows by counting these.

The collector. `IInv` adds to the types that an open socket has statistics that
never shrink (`StatInv`) and where the iterators of a scrape may be
(`ScrapeInv`). `FreshValues` is about the end of a scrape; inductive is that the
buffers always hold what the socket at hand has answered during this scrape, and
each metric so far what its own socket did (`ValuesInv`), which a racing
registration cannot spoil without the scrape being undefined. `LabelsWhole` needs
the state of the metric under construction: its labels were counted from the
lists as they are, those before the private ones are filled in, then these, then
the common ones (`Counted`, `PrivateCopied`, `CommonCopied` in `LabelsInv`); the
lists cannot change meanwhile because of `"quiet"`. `EverySocketReported` is
`ReportInv` at its end: there is an increasing sequence of positions among the
sockets passed, which leaves out none that was open since the scrape began, and
what was translated is the families of these, in this order, followed by the
families of the socket at hand up to the metric at hand (`Rows`). A socket that
answers extends the sequence by one; one that does not was closed, or not yet
connected, at some time of the scrape. That a socket with an empty filter adds
nothing, and that a concatenation of rows grows by its last row, are the lemmas
about `FlattenSeq` in `VectorFacts`. `RefinesLabels` rests on what
append, change and erase of one element do to the map a list stands for. It needs
no invariant that the names in a list differ: erase and lookup both take the
first that matches, and when a configuration gave a name twice, erasing the first
is, in the map, a change to the value of the second.

The load. Half-way through a section, its object is the last one and describes
as much of the section as the statement reached has stored (`PartlyDescribes`);
all objects before it are described in full by a section that no earlier one of
the same name precedes (`Made`); and each section passed has an object of its
name (`NamesInv`). A lookup of a name thus finds the first section that has it.
What is stored of the filter at each statement (`PartlyFiltered`, for the global
section `GlobalMade`) is, once the section is complete, what its mode calls for
(`FilterSet`); with the theorems on the filter this is what is documented. For a
load that throws, `DoneInv` says of all objects but the last what `NamesInv` says
during the load: that they were completed, by a section behind. It outlives the
exception because nothing runs after it.

The logger. The pair of the destination a line has read and the level of now was
in force since that read, or `BothChanged` (`LineInv`). A new destination keeps
this; a new level that is set while the destination is still the one that was read
forms the pair anew, and one that is set after the destination was changed makes
`BothChanged` true. No rule for the application is assumed.

The system. Each step is shown to be one of `SrtExpApi` or none of it, and one of
`SrtExpCollector` or none of it. So every theorem about either holds of the
composition, for any program of one thread. `SamplesUseTheApiSafely` and
`AnswersAreRight` speak of what the program has done so far and need to know where
it is. `PhaseInv` says that the API is in the call that
the program is at, and that the vector holds its one exporter exactly from the
start to the stop; it needs `Sequenced`, the order of calls that both samples
have, and a start that fails jumps to the end of it. `AskedInv` says what the
calls have left in the collector: each label whose last call lies behind has its
value, or is gone if that was null, each list names a label once, and the sockets
are those of the last registration. It needs `AsksOnce`: with a label that is
registered both for one variable and for all, or with a list that names a
variable twice, an answer would say a thing twice. At the end of a scrape
`LabelsWhole` and `EverySocketReported`, brought over from the collector, say that
the answer has what the lists have, and so what was asked for.

`IInv`, `PortInv`, `NamesInv`, `DoneInv`, `ReportInv`, `PhaseInv` and `AskedInv` are
defined in the modules of the components, so that TLC can check them as
invariants of the runs above; each was, before it was proved.

Only model-checked: `LockReleased`, `StoppedIsTakenDown`, `SampleEnds` and the
fairness in `ImplementsApi`, since liveness under fairness is beyond the prover.

## External behaviour the models rely on

- prometheus-cpp calls `Collect` with a mutex of its handler held, so one scrape
  of an exporter runs at a time; it keeps a `weak_ptr` to the collector and holds
  a strong one during `Collect`. The destructor of `Exposer` stops civetweb, which
  joins its workers; the address stays in use until then. A port that is 0 or
  above 65535, or an address that cannot be bound, makes the constructor throw
  `std::runtime_error`.
- `std::vector::erase(end())` is undefined in C++. In the build of the Makefile
  (libstdc++, `-O0`, no debug assertions) it moves nothing and destroys the last
  element: that is what `StartFails` and `DeinitPop` do.
- A `std::vector` of libstdc++ that is full doubles its storage. An element that was
  moved to the one before it is null in its old slot; one that is destroyed in its
  place leaves the old pointer there; what a slot of new storage holds is not known,
  and the models let it be null (`SpareAfterPush`, `SpareAfterErase`,
  `SpareAfterPop`).
- `srt_bstats` fails for a socket that was closed, that listens or that is not
  connected yet; the statistics of an open one do not decrease.
- Conversions of yaml-cpp throw `YAML::BadConversion` for a value of the wrong
  type.

## What is not modelled, and why

- The conversion of a statistic to `double`, help texts, metric types, and the
  texts of log lines: data that no modelled control depends on.
- The dumps of the configuration and of the filter, which only log.
- Data races inside the standard library beyond "undefined": two racing steps are
  either in one order, in the other, or the end of the program. The logger's two
  words are read and written whole.
- Configurations that repeat a label name: `LoadFilterFromConfig` keeps both, and
  `LabelRegister` then finds the first only, so that removing it brings up the
  second. `ImplementsLabels` allows that; no document says what a repeated name
  means.
- The path of `IsPortAvailable` on which `socket` itself fails
  (`config.cpp:267-270`): the port counts as taken, so that a process without a
  free descriptor finds none.
- An id that overflows `int`: it takes two thousand million starts.
- Addresses that a closed connection keeps in TIME_WAIT. The probe, which does
  not set `SO_REUSEADDR`, may pass over a port that the http server could bind.
- `srtexp_init` in `SrtExpApi` is one step, although the defaults are visible
  before the file is read; an init that overlaps a start is undefined there in
  any case.
- The libraries beyond the behaviour listed above, the Makefiles and the
  installation documents.

## What is left

A composition of `SrtExpApi` with one collector per exporter and several
application threads; the theorems of `SrtExpSystemProofs` are for one of each.
