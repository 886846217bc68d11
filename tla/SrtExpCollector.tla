---------------------------- MODULE SrtExpCollector ----------------------------
(***************************************************************************)
(* One collector (srtexp_collector.cpp): its registrations, and a scrape   *)
(* that runs in it step by step.                                           *)
(*                                                                         *)
(* Registrations come one at a time, since the API calls them with         *)
(* api_lock held; scrapes come one at a time, since the http server calls  *)
(* Collect with its handler's mutex held.  Nothing orders a registration   *)
(* and a scrape: Collect takes no lock.  That the collector lives while    *)
(* either of them runs is module SrtExpApi.                                *)
(*                                                                         *)
(* The fields of SRT_TRACEBSTATS stand for one number per socket that      *)
(* grows: a value is <<offset, number>>, the field that was read and when. *)
(***************************************************************************)
EXTENDS SrtExpFilter

CONSTANTS
    NULL,
    Sockets, MaxSockets,        \* the sockets; bound: how many are registered
    LabelNames, LabelValues,
    Configs,                    \* the collector configurations
    MaxStat,                    \* bound: the statistics' number
    Contract                    \* {"quiet"}: no registration during a scrape

LabelType == [name : LabelNames, value : LabelValues]

EntryType == [name : VarNames, offset : Offsets]

ASSUME CollectorAssumption ==
    /\ MaxSockets \in Nat
    /\ MaxStat \in Nat
    /\ NULL \notin LabelNames \cup LabelValues \cup VarNames \cup Nat
    /\ \A cfg \in Configs :
          /\ cfg.labelList \in Seq(LabelType)
          /\ cfg.varList \in Seq(STRING)

VARIABLES
    commonLabel,    \* _commonLabel
    srtSock,        \* _srtSock
    filteredData,   \* _filteredData: name and offset of each entry
    label,          \* the label list of each entry
    data,           \* the data buffer of each entry
    translated,     \* _translated
    pc,             \* where the scrape is
    sockIt, mapIt,  \* its iterators: the next socket, the next entry
    before,         \* history: the statistics when the scrape began
    stat,           \* libsrt: the statistics, NULL for a socket not connected yet
    open,           \* libsrt: the sockets srt_bstats answers for
    undefined       \* the program reached undefined behaviour

labels == <<commonLabel, label>>
scrape == <<translated, pc, sockIt, mapIt, data, before>>
libsrt == <<stat, open>>
vars == <<labels, srtSock, filteredData, scrape, libsrt, undefined>>

PcValues == {"idle", "socket", "metric", "private", "common", "done"}

EmptyLabel == [name |-> NULL, value |-> NULL]

Entries == DOMAIN filteredData

\* The entry of a variable; 0 when the filter left it out.
EntryOf(name) == FirstOf(filteredData, name)

\* A statistic that was read: the field, NULL for none yet, and the number.
Datum == ({NULL} \cup Offsets) \X (0 .. MaxStat)

Family ==
    [name : VarNames, sock : Sockets, value : Datum,
     labels : Seq([name  : {NULL, "srt_socket"} \cup LabelNames,
                   value : {NULL} \cup Sockets \cup LabelValues])]

TypeOK ==
    /\ commonLabel \in Seq(LabelType)
    /\ srtSock \in BoundedSeq(Sockets, MaxSockets)
    /\ filteredData \in Seq(EntryType)
    /\ label \in [Entries -> Seq(LabelType)]
    /\ data \in [Entries -> Datum]
    /\ translated \in Seq(Family)
    /\ pc \in PcValues
    /\ sockIt \in 1 .. MaxSockets + 1
    /\ mapIt \in 1 .. Len(filteredData) + 1
    /\ stat \in [Sockets -> 0 .. MaxStat \cup {NULL}]
    /\ before \in [Sockets -> 0 .. MaxStat \cup {NULL}]
    /\ open \subseteq Sockets
    /\ undefined \in BOOLEAN

\* The constructor.
Init ==
    /\ \E cfg \in Configs :
          /\ filteredData = LoadFilterFromConfig(cfg)
          /\ commonLabel = cfg.labelList
    /\ srtSock = <<>>
    /\ label = [i \in Entries |-> <<>>]
    /\ data = [i \in Entries |-> <<NULL, 0>>]
    /\ translated = <<>>
    /\ pc = "idle"
    /\ sockIt = 1
    /\ mapIt = 1
    /\ stat = [s \in Sockets |-> NULL]
    /\ before = stat
    /\ open = {}
    /\ undefined = FALSE

-----------------------------------------------------------------------------
(* Registrations                                                           *)

MayRegister == ~ undefined /\ ("quiet" \in Contract => pc = "idle")

\* The scrape works on a metric, and so on lists of labels.
InMetric == pc \in {"metric", "private", "common"}

\* The scrape is inside the loop over the sockets; before its first srt_bstats it
\* may be there or not.
Iterating == InMetric \/ (pc = "socket" /\ sockIt > 1)
MayIterate == InMetric \/ (pc = "socket" /\ srtSock # <<>>)

\* clear and push_back invalidate the iterators of a loop that is running.
SrtSockRegister(socks) ==
    /\ MayRegister
    /\ srtSock' = socks
    /\ undefined' \in {Iterating, MayIterate}
    /\ UNCHANGED <<labels, filteredData, scrape, libsrt>>

\* Mutant: erase(label, end()).
WithLabelErasedToEnd(list, n, v) ==
    LET i == FirstOf(list, n)
    IN  IF v = NULL THEN IF i = 0 THEN list ELSE SubSeq(list, 1, i - 1)
        ELSE IF i = 0 THEN Append(list, [name |-> n, value |-> v])
        ELSE [list EXCEPT ![i].value = v]

\* Mutant: a null value is stored like any other.
WithLabelNullStored(list, n, v) ==
    LET i == FirstOf(list, n)
    IN  IF i = 0 THEN Append(list, [name |-> n, value |-> v])
                 ELSE [list EXCEPT ![i].value = v]

\* The list after a label was added, changed, or, for a null value, removed.
WithLabel(list, n, v) ==
    LET i == FirstOf(list, n)
    IN  IF v = NULL THEN IF i = 0 THEN list ELSE RemoveAt(list, i)
        ELSE IF i = 0 THEN Append(list, [name |-> n, value |-> v])
        ELSE [list EXCEPT ![i].value = v]

\* A call without a name changes nothing, nor does one for a variable that the
\* filter left out: it has no list.
LabelRefused(n, var) == n = NULL \/ (var # NULL /\ EntryOf(var) = 0)

\* var = NULL means the common list.  A label that the scrape accesses in the same
\* moment is a data race.
LabelRegister(n, v, var) ==
    /\ MayRegister
    /\ IF LabelRefused(n, var) THEN UNCHANGED <<labels, undefined>>
       ELSE /\ commonLabel' =
                  IF var = NULL THEN WithLabel(commonLabel, n, v) ELSE commonLabel
            /\ label' = [i \in Entries |->
                  IF i = EntryOf(var) THEN WithLabel(label[i], n, v) ELSE label[i]]
            /\ undefined' \in {FALSE, InMetric}
    /\ UNCHANGED <<srtSock, filteredData, scrape, libsrt>>

-----------------------------------------------------------------------------
(* Collect                                                                 *)

ScrapeAt(point) == ~ undefined /\ pc = point

\* Mutant: ClearTranslated is left out.
CollectStartsUncleared ==
    /\ ScrapeAt("idle")
    /\ sockIt' = 1
    /\ before' = stat
    /\ pc' = "socket"
    /\ UNCHANGED <<labels, srtSock, filteredData, translated, mapIt, data, libsrt, undefined>>

CollectStarts ==
    /\ ScrapeAt("idle")
    /\ translated' = <<>>
    /\ sockIt' = 1
    /\ before' = stat
    /\ pc' = "socket"
    /\ UNCHANGED <<labels, srtSock, filteredData, mapIt, data, libsrt, undefined>>

\* Mutant: the answer of srt_bstats is not checked.
CollectSocketUnchecked ==
    /\ ScrapeAt("socket")
    /\ sockIt <= Len(srtSock)
    /\ mapIt' = 1
    /\ pc' = "metric"
    /\ data' = IF srtSock[sockIt] \in open
               THEN [i \in Entries |-> <<filteredData[i].offset, stat[srtSock[sockIt]]>>]
               ELSE data
    /\ UNCHANGED <<labels, srtSock, filteredData, translated, sockIt, before, libsrt, undefined>>

\* srt_bstats, and DataAdaptor into the buffers.
CollectSocket ==
    /\ ScrapeAt("socket")
    /\ sockIt <= Len(srtSock)
    /\ srtSock[sockIt] \in open
    /\ data' = [i \in Entries |-> <<filteredData[i].offset, stat[srtSock[sockIt]]>>]
    /\ mapIt' = 1
    /\ pc' = "metric"
    /\ UNCHANGED <<labels, srtSock, filteredData, translated, sockIt, before, libsrt, undefined>>

\* The end of the loop was read when it began.
NextSocket ==
    /\ sockIt' = sockIt + 1
    /\ pc' = IF sockIt = Len(srtSock) THEN "done" ELSE "socket"
    /\ UNCHANGED <<labels, srtSock, filteredData, translated, mapIt, data, before,
                   libsrt, undefined>>

\* Mutant: a socket that srt_bstats fails for is tried again.
SkipSocketRetries ==
    /\ ScrapeAt("socket")
    /\ sockIt <= Len(srtSock)
    /\ srtSock[sockIt] \notin open
    /\ UNCHANGED vars

\* srt_bstats fails: the socket was closed, or is not connected yet.
SkipSocket ==
    /\ ScrapeAt("socket")
    /\ sockIt <= Len(srtSock)
    /\ srtSock[sockIt] \notin open
    /\ NextSocket

\* Mutant: the common labels are not counted.
CountLabelsPrivate ==
    /\ ScrapeAt("metric")
    /\ mapIt <= Len(filteredData)
    /\ translated' = Append(translated,
          [name   |-> filteredData[mapIt].name,
           sock   |-> srtSock[sockIt],
           value  |-> data[mapIt],
           labels |-> [i \in 1 .. 1 + Len(label[mapIt]) |->
                          IF i = 1 THEN [name |-> "srt_socket", value |-> srtSock[sockIt]]
                                   ELSE EmptyLabel]])
    /\ pc' = "private"
    /\ UNCHANGED <<labels, srtSock, filteredData, sockIt, mapIt, data, before, libsrt, undefined>>

\* ValueToMetricFamily: the labels are counted, and the metric gets that many.
CountLabels ==
    /\ ScrapeAt("metric")
    /\ mapIt <= Len(filteredData)
    /\ LET num == 1 + Len(label[mapIt]) + Len(commonLabel)
           sock == srtSock[sockIt]
       IN  translated' = Append(translated,
              [name   |-> filteredData[mapIt].name,
               sock   |-> sock,
               value  |-> data[mapIt],
               labels |-> [i \in 1 .. num |->
                              IF i = 1 THEN [name |-> "srt_socket", value |-> sock]
                                       ELSE EmptyLabel]])
    /\ pc' = "private"
    /\ UNCHANGED <<labels, srtSock, filteredData, sockIt, mapIt, data, before, libsrt, undefined>>

\* A list is copied to its place in the labels of the last metric.  Its length is
\* read again: when it has grown, the copy runs past the end.
Fill(list, offset) ==
    LET at == Len(translated)
        metric == translated[at].labels
    IN  IF offset + Len(list) > Len(metric)
        THEN undefined' = TRUE /\ UNCHANGED translated
        ELSE /\ translated' = [translated EXCEPT ![at].labels =
                  [i \in DOMAIN metric |->
                      IF i - offset \in DOMAIN list THEN list[i - offset] ELSE metric[i]]]
             /\ UNCHANGED undefined

FillPrivate ==
    /\ ScrapeAt("private")
    /\ Fill(label[mapIt], 1)
    /\ pc' = "common"
    /\ UNCHANGED <<labels, srtSock, filteredData, sockIt, mapIt, data, before, libsrt>>

\* Mutant: the common labels are copied over the private ones.
FillCommonOverPrivate ==
    /\ ScrapeAt("common")
    /\ Fill(commonLabel, 1)
    /\ mapIt' = mapIt + 1
    /\ pc' = "metric"
    /\ UNCHANGED <<labels, srtSock, filteredData, sockIt, data, before, libsrt>>

FillCommon ==
    /\ ScrapeAt("common")
    /\ Fill(commonLabel, 1 + Len(label[mapIt]))
    /\ mapIt' = mapIt + 1
    /\ pc' = "metric"
    /\ UNCHANGED <<labels, srtSock, filteredData, sockIt, data, before, libsrt>>

SocketDone ==
    /\ ScrapeAt("metric")
    /\ mapIt > Len(filteredData)
    /\ NextSocket

\* No socket is registered.
CollectNothing ==
    /\ ScrapeAt("socket")
    /\ srtSock = <<>>
    /\ pc' = "done"
    /\ UNCHANGED <<labels, srtSock, filteredData, translated, sockIt, mapIt, data, before,
                   libsrt, undefined>>

\* The http server sends translated.
Reply ==
    /\ ScrapeAt("done")
    /\ pc' = "idle"
    /\ UNCHANGED <<labels, srtSock, filteredData, translated, sockIt, mapIt, data, before,
                   libsrt, undefined>>

-----------------------------------------------------------------------------
(* libsrt: a socket connects, its statistics grow, and it may be closed.   *)

SocketConnects(s) ==
    /\ ~ undefined
    /\ stat[s] = NULL
    /\ stat' = [stat EXCEPT ![s] = 0]
    /\ open' = open \cup {s}
    /\ UNCHANGED <<labels, srtSock, filteredData, scrape, undefined>>

StatGrows ==
    /\ ~ undefined
    /\ \E s \in open : stat[s] < MaxStat /\ stat' = [stat EXCEPT ![s] = @ + 1]
    /\ UNCHANGED <<labels, srtSock, filteredData, scrape, open, undefined>>

SocketCloses(s) ==
    /\ ~ undefined
    /\ open' = open \ {s}
    /\ UNCHANGED <<labels, srtSock, filteredData, scrape, stat, undefined>>

\* The steps of Collect between its beginning and its return.
CollectStep ==
    \/ CollectSocket \/ SkipSocket \/ SocketDone \/ CollectNothing
    \/ CountLabels \/ FillPrivate \/ FillCommon

Libsrt ==
    \/ StatGrows
    \/ \E s \in Sockets : SocketConnects(s)
    \/ \E s \in open : SocketCloses(s)

Next ==
    \/ \E socks \in BoundedSeq(Sockets, MaxSockets) : SrtSockRegister(socks)
    \/ \E n \in LabelNames \cup {NULL}, v \in LabelValues \cup {NULL}, var \in VarNames \cup {NULL} :
          LabelRegister(n, v, var)
    \/ CollectStarts \/ CollectStep \/ Reply
    \/ Libsrt

Spec == Init /\ [][Next]_vars

-----------------------------------------------------------------------------
(* Properties of what a scrape returns                                     *)

\* The socket and the variable of each family that is returned.
Reported == [i \in DOMAIN translated |-> <<translated[i].sock, translated[i].name>>]

\* The first n entries of a socket.
Rows(s, n) == [k \in 1 .. n |-> <<s, filteredData[k].name>>]

\* All entries of the first of these sockets, then of the next.
Families(socks) ==
    FlattenSeq([i \in DOMAIN socks |-> Rows(socks[i], Len(filteredData))])

\* Positions among the first n sockets, in their order, and with every one whose
\* socket has been open since the scrape began.
InOrder(order, n) ==
    /\ \A i, j \in DOMAIN order : i < j => order[i] < order[j]
    /\ \A i \in 1 .. n :
          srtSock[i] \in open /\ before[srtSock[i]] # NULL => i \in ToSet(order)

\* A scrape reports the registered sockets in their order, each with every
\* variable of the filter once; it leaves out only sockets that were not open
\* all the time, and one that connects or closes in the middle of the scrape
\* takes no other with it.
EverySocketReported ==
    pc = "done" =>
        \E order \in BoundedSeq(DOMAIN srtSock, Len(srtSock)) :
            /\ InOrder(order, Len(srtSock))
            /\ Reported = Families([i \in DOMAIN order |-> srtSock[order[i]]])

\* The statistics of a socket when the scrape began.
Since(s) == IF before[s] = NULL THEN 0 ELSE before[s]

\* The buffers of the entries are shared by the sockets and by the scrapes; still
\* a socket is reported with its own statistics, each under its own name, as they
\* were during this very scrape.
FreshValues ==
    pc = "done" =>
        \A i \in DOMAIN translated :
            LET f == translated[i]
            IN  f.value[1] = f.name /\ f.value[2] \in Since(f.sock) .. stat[f.sock]

\* A metric carries the socket, the labels of its variable and the common ones,
\* and nothing else: no label was counted and not filled in, or filled in and
\* not counted.
LabelsWhole ==
    pc = "done" =>
        \A i \in DOMAIN translated :
            LET f == translated[i]
                k == EntryOf(f.name)
            IN  f.labels = <<[name |-> "srt_socket", value |-> f.sock]>>
                              \o label[k] \o commonLabel

\* A scrape is defined if no registration overlaps it: what is copied into the
\* labels of a metric fits, and no vector changes under an iterator.
NeverUndefined == ~ undefined

\* The values a list of labels gives to the names.
MapOf(list) ==
    [n \in LabelNames |->
        LET i == FirstOf(list, n)
        IN  IF i = 0 THEN NULL ELSE list[i].value]

\* The lists change as the maps of LabelRegistry do, and a scrape changes none.
Registry == INSTANCE LabelRegistry WITH
    Names     <- LabelNames,
    Values    <- LabelValues,
    Variables <- VarNames,
    common    <- MapOf(commonLabel),
    private   <- [x \in VarNames |->
                    MapOf(IF EntryOf(x) = 0 THEN <<>> ELSE label[EntryOf(x)])]

ImplementsLabels == Registry!RegistrySpec

-----------------------------------------------------------------------------
(* The inductive invariants                                                *)

\* The entries of the filter read their own statistic.
OwnOffsets ==
    \A cfg \in Configs : \A i \in DOMAIN LoadFilterFromConfig(cfg) :
        LoadFilterFromConfig(cfg)[i].offset = LoadFilterFromConfig(cfg)[i].name

\* No variable has two entries.
DistinctEntries ==
    \A cfg \in Configs : \A i, j \in DOMAIN LoadFilterFromConfig(cfg) :
        LoadFilterFromConfig(cfg)[i].name = LoadFilterFromConfig(cfg)[j].name => i = j

\* A socket that answers has statistics, and they only grow.
StatInv ==
    /\ \A s \in open : stat[s] # NULL
    /\ \A s \in Sockets : before[s] # NULL => stat[s] # NULL /\ before[s] <= stat[s]

FreshDatum(d, name, s) ==
    /\ s \in Sockets
    /\ stat[s] # NULL
    /\ d[1] = name
    /\ d[2] \in Since(s) .. stat[s]

\* The iterators point into their vectors; the last metric belongs to the socket
\* and the entry the scrape is at.
ScrapeInv ==
    ~ undefined =>
        /\ pc = "socket" => sockIt = 1 \/ sockIt <= Len(srtSock)
        /\ InMetric => sockIt <= Len(srtSock)
        /\ pc \in {"private", "common"} => mapIt <= Len(filteredData) /\ translated # <<>>

\* The buffers hold what the socket of now answered, and each metric what its
\* socket did.
ValuesInv ==
    /\ \A k \in Entries : filteredData[k].offset = filteredData[k].name
    /\ ~ undefined /\ InMetric =>
          \A k \in Entries : FreshDatum(data[k], filteredData[k].name, srtSock[sockIt])
    /\ pc # "idle" => \A i \in DOMAIN translated :
          FreshDatum(translated[i].value, translated[i].name, translated[i].sock)

IInv == TypeOK /\ StatInv /\ ScrapeInv

\* The labels of a metric f of entry k: their number and the first, those copied
\* from the entry's list, and those from the common one.
Counted(f, k) ==
    /\ Len(f.labels) = 1 + Len(label[k]) + Len(commonLabel)
    /\ f.labels[1] = [name |-> "srt_socket", value |-> f.sock]

PrivateCopied(f, k) == \A j \in 1 .. Len(label[k]) : f.labels[1 + j] = label[k][j]

CommonCopied(f, k) ==
    \A j \in 1 .. Len(commonLabel) : f.labels[1 + Len(label[k]) + j] = commonLabel[j]

\* Metric i belongs to entry k: its labels are counted, and they are copied, but for
\* those of the last one that the scrape is still at.
Labelled(i, k) ==
    LET f == translated[i]
        last == i = Len(translated)
    IN  /\ f.name = filteredData[k].name
        /\ Counted(f, k)
        /\ last /\ pc \in {"private", "common"} => k = mapIt
        /\ ~ (last /\ pc = "private") => PrivateCopied(f, k)
        /\ ~ (last /\ pc \in {"private", "common"}) => CommonCopied(f, k)

\* What holds when no registration overlaps a scrape.
LabelsInv ==
    /\ ~ undefined
    /\ pc # "idle" => \A i \in DOMAIN translated : \E k \in Entries : Labelled(i, k)

\* No two elements of a list have the same name.
DistinctNames(list) == \A i, j \in DOMAIN list : list[i].name = list[j].name => i = j

\* How many families of the socket of now the scrape has made.
Made ==
    IF pc = "metric" THEN mapIt - 1
    ELSE IF pc \in {"private", "common"} THEN mapIt
    ELSE 0

\* The sockets before the one of now are reported in full or were left out with
\* reason, and the one of now as far as the scrape has come.
ReportInv ==
    pc # "idle" =>
        /\ pc = "done" => sockIt = Len(srtSock) + 1
        /\ \E order \in BoundedSeq(1 .. sockIt - 1, sockIt - 1) :
              /\ InOrder(order, sockIt - 1)
              /\ Reported = Families([i \in DOMAIN order |-> srtSock[order[i]]])
                               \o Rows(srtSock[sockIt], Made)
=============================================================================
