--------------------------- MODULE SrtExpConfigLoad ---------------------------
(***************************************************************************)
(* srtexp_init: how a file becomes the configuration, statement by         *)
(* statement, because any conversion of a value may throw, and what was    *)
(* stored by then stays in the installed configuration.                    *)
(*                                                                         *)
(* A file is Missing, Unparsable, or a record [global, exporters] of       *)
(* its sections; global may be NULL.  A section is a record of the values  *)
(* the loader looks up; a value is NULL when it is not there and Bad when  *)
(* it cannot be converted.  filter is a record [mode, list], list being    *)
(* the value under the key that names the mode.                            *)
(***************************************************************************)
EXTENDS SrtExpFilter

CONSTANTS
    NULL, Bad, Missing, Unparsable,
    Texts,          \* the strings that a file's values may be
    Files,          \* the files srtexp_init may be given
    Generated,      \* Generated[n] is "unnamed_srt_exporter_" and n
    DefaultIp, DefaultPortMin, DefaultPortMax

\* A value that is looked up, and a sequence of values.
Value == {NULL, Bad} \cup Texts
Values == {NULL} \cup Seq({Bad} \cup Texts)
Number == {NULL, Bad} \cup Int

SectionType ==
    [name : Value, ip : Value, port : Number, portMin : Number, portMax : Number,
     collectorMode : Value, filter : {NULL} \cup [mode : Value, list : Values],
     labels : Values]

\* The filter modes that have a list of their own, and those that are one.
ListModes == {"whitelist", "blacklist"}
PresetModes == {"srt_source", "srt_destination"}

FileType == [global : {NULL} \cup SectionType, exporters : Seq(SectionType)]

ASSUME LoadAssumption ==
    /\ \A f \in Files \ {Missing, Unparsable} :
          f \in FileType /\ Len(f.exporters) <= Len(Generated)
    /\ Generated \in Seq(Texts)
    /\ {SrtSourceVarList, SrtDestinationVarList, SrtCommonVarList} \subseteq Seq(Texts)
    /\ NULL # Bad
    /\ {NULL, Bad} \cap (ListModes \cup PresetModes) = {}
    /\ DefaultIp \in Texts
    /\ DefaultPortMin \in Int /\ DefaultPortMax \in Int
    /\ DefaultPortMin <= DefaultPortMax

VARIABLES
    pc,         \* the statement the load is at
    file,       \* the file being loaded
    section,    \* 0 for the global section, i for the i-th exporter's
    config,     \* *srtExpConfig
    ret         \* what the last srtexp_init returned, or that it threw

vars == <<pc, file, section, config, ret>>

PcValues == {"idle", "ip", "port", "mode", "filter", "labels", "object"}

Outcomes == {"none", "SUCCESS", "INVALID_INPUT", "FAILURE", "threw"}

\* SrtExpConfig(): the defaults, and no object.
DefaultConfig ==
    [ip        |-> DefaultIp,
     portMin   |-> DefaultPortMin,
     portMax   |-> DefaultPortMax,
     collector |-> LoadDefaultSrtExpCollectorConfig,
     objects   |-> <<>>]

\* SrtExpObjConfig(): everything zero or empty.
EmptyObject(name) ==
    [name |-> name, ip |-> NULL, port |-> 0,
     collector |-> [filterMode |-> "0", varList |-> <<>>, labelList |-> <<>>]]

Init ==
    /\ pc = "idle"
    /\ file = NULL
    /\ section = 0
    /\ config = DefaultConfig
    /\ ret = "none"

-----------------------------------------------------------------------------
Section == IF section = 0 THEN file.global ELSE file.exporters[section]

Back == Len(config.objects)

\* What the section sets, in the global configuration or in the last object.
Target == IF section = 0 THEN config ELSE config.objects[Back]

Set(target) ==
    config' = IF section = 0 THEN target ELSE [config EXCEPT !.objects[Back] = target]

Collector == Target.collector

SetCollector(c) == Set([Target EXCEPT !.collector = c])

\* The elements a loop over the values stores before one of them throws.
Converted(values) ==
    LET i == SelectInSeq(values, LAMBDA v : v = Bad)
    IN  IF i = 0 THEN values ELSE SubSeq(values, 1, i - 1)

\* Mutant: the loop over the sections catches the exception and goes on.
ThrowIfContinues(failed, next) ==
    /\ pc' = IF failed THEN "object" ELSE next
    /\ UNCHANGED <<file, section, ret>>

\* YAML::BadConversion is not an SrtExpRet: srtexp_init lets it escape.
ThrowIf(failed, next) ==
    /\ pc' = IF failed THEN "idle" ELSE next
    /\ ret' = IF failed THEN "threw" ELSE ret
    /\ UNCHANGED <<file, section>>

\* A new configuration is installed before the file is opened.
SrtExpInit ==
    /\ pc = "idle"
    /\ config' = DefaultConfig
    /\ file' \in Files
    /\ IF file' \in {Missing, Unparsable}
       THEN /\ ret' = IF file' = Missing THEN "INVALID_INPUT" ELSE "FAILURE"
            /\ UNCHANGED <<pc, section>>
       ELSE /\ ret' = "none"
            /\ pc' = IF file'.global = NULL THEN "object" ELSE "ip"
            /\ section' = 0

LoadIp ==
    /\ pc = "ip"
    /\ Set(IF Section.ip \in {NULL, Bad} THEN Target ELSE [Target EXCEPT !.ip = Section.ip])
    /\ ThrowIf(Section.ip = Bad, "port")

\* Mutant: the range is stored without the comparison.
LoadGlobalPortsUnordered ==
    LET min == Section.portMin
        max == Section.portMax
        given == NULL \notin {min, max}
    IN  /\ pc = "port"
        /\ section = 0
        /\ config' = IF given /\ Bad \notin {min, max}
                     THEN [config EXCEPT !.portMin = min, !.portMax = max]
                     ELSE config
        /\ ThrowIf(given /\ Bad \in {min, max}, "mode")

LoadGlobalPorts ==
    LET min == Section.portMin
        max == Section.portMax
        given == NULL \notin {min, max}
    IN  /\ pc = "port"
        /\ section = 0
        /\ config' = IF given /\ Bad \notin {min, max} /\ min <= max
                     THEN [config EXCEPT !.portMin = min, !.portMax = max]
                     ELSE config
        /\ ThrowIf(given /\ Bad \in {min, max}, "mode")

LoadObjectPort ==
    /\ pc = "port"
    /\ section > 0
    /\ IF Section.port = Bad
       THEN UNCHANGED config
       ELSE Set([Target EXCEPT
                    !.port = IF Section.port = NULL THEN @ ELSE Section.port,
                    !.collector = LoadDefaultSrtExpCollectorConfig])
    /\ ThrowIf(Section.port = Bad, "mode")

\* Whatever the collector mode, COLLECT_ON_REQUEST is stored.
LoadCollectorMode ==
    /\ pc = "mode"
    /\ UNCHANGED config
    /\ ThrowIf(Section.collectorMode = Bad, "filter")

ModeOf(filter) == IF filter = NULL THEN NULL ELSE filter.mode

Mode == ModeOf(Section.filter)

AtFilter(modes) == pc = "filter" /\ Mode \in modes

KeepFilter ==
    /\ AtFilter({NULL})
    /\ UNCHANGED config
    /\ ThrowIf(FALSE, "labels")

LoadListFilter ==
    /\ AtFilter(ListModes)
    /\ LET list == IF Section.filter.list = NULL THEN <<>> ELSE Section.filter.list
       IN  /\ SetCollector([Collector EXCEPT
                   !.filterMode = IF Mode = "whitelist" THEN "WHITELIST" ELSE "BLACKLIST",
                   !.varList = Converted(list)])
           /\ ThrowIf(Bad \in ToSet(list), "labels")

LoadPresetFilter ==
    /\ AtFilter(PresetModes)
    /\ SetCollector([Collector EXCEPT
          !.filterMode = "WHITELIST",
          !.varList = IF Mode = "srt_source" THEN SrtSourceVarList
                                             ELSE SrtDestinationVarList])
    /\ ThrowIf(FALSE, "labels")

\* The list is cleared before the mode is converted, and a mode that none of
\* the branches knows leaves it so: "srt_common" is one of these.
LoadOtherFilter ==
    /\ pc = "filter"
    /\ Mode \notin {NULL} \cup ListModes \cup PresetModes
    /\ SetCollector([Collector EXCEPT !.varList = <<>>])
    /\ ThrowIf(Mode = Bad, "labels")

LoadLabels ==
    /\ pc = "labels"
    /\ IF Section.labels = NULL
       THEN UNCHANGED config
       ELSE SetCollector([Collector EXCEPT !.labelList = Converted(Section.labels)])
    /\ ThrowIf(Section.labels # NULL /\ Bad \in ToSet(Section.labels), "object")

\* The next element of srt_exporters.
More == pc = "object" /\ section < Len(file.exporters)

Known(name) == FirstOf(config.objects, name) # 0

NextName == file.exporters[section + 1].name

LoadBadName ==
    /\ More
    /\ NextName = Bad
    /\ ThrowIf(TRUE, "object")
    /\ UNCHANGED config

\* Mutant: the section is loaded over the last object instead.
SkipKnownNameReloads ==
    /\ More
    /\ NextName \notin {NULL, Bad}
    /\ Known(NextName)
    /\ section' = section + 1
    /\ pc' = "ip"
    /\ UNCHANGED <<file, config, ret>>

SkipKnownName ==
    /\ More
    /\ NextName \notin {NULL, Bad}
    /\ Known(NextName)
    /\ section' = section + 1
    /\ UNCHANGED <<pc, file, config, ret>>

AddObject ==
    /\ More
    /\ NextName # Bad
    /\ NextName # NULL => ~ Known(NextName)
    /\ config' = [config EXCEPT !.objects =
          Append(@, EmptyObject(IF NextName = NULL THEN Generated[Back + 1] ELSE NextName))]
    /\ section' = section + 1
    /\ pc' = "ip"
    /\ UNCHANGED <<file, ret>>

LoadDone ==
    /\ pc = "object"
    /\ section = Len(file.exporters)
    /\ pc' = "idle"
    /\ ret' = "SUCCESS"
    /\ UNCHANGED <<file, section, config>>

Next ==
    \/ SrtExpInit
    \/ LoadIp \/ LoadGlobalPorts \/ LoadObjectPort \/ LoadCollectorMode
    \/ KeepFilter \/ LoadListFilter \/ LoadPresetFilter \/ LoadOtherFilter
    \/ LoadLabels
    \/ LoadBadName \/ SkipKnownName \/ AddObject \/ LoadDone

Spec == Init /\ [][Next]_vars

-----------------------------------------------------------------------------
(* Properties                                                              *)

CollectorType ==
    [filterMode : FilterModes, varList : Seq(Texts), labelList : Seq(Texts)]

ObjectType ==
    [name : Texts, ip : {NULL} \cup Texts, port : Int, collector : CollectorType]

ConfigType ==
    [ip : Texts, portMin : Int, portMax : Int, collector : CollectorType,
     objects : Seq(ObjectType)]

\* Types; a stored range of ports is never empty.
TypeOK ==
    /\ pc \in PcValues
    /\ ret \in Outcomes
    /\ file \in Files \cup {NULL}
    /\ section \in Nat
    /\ config \in ConfigType
    /\ config.portMin <= config.portMax

Loaded == pc = "idle" /\ ret = "SUCCESS"

Or(value, default) == IF value = NULL THEN default ELSE value

\* What the documentation says a filter exports (design.md:97-101); without a
\* filter it is the common list.
DocumentedVars(f) ==
    LET mode == ModeOf(f)
    IN  CASE mode = "whitelist"       -> ToSet(Or(f.list, <<>>)) \cap VarNames
          [] mode = "blacklist"       -> VarNames \ ToSet(Or(f.list, <<>>))
          [] mode = "srt_source"      -> ToSet(SrtSourceVarList)
          [] mode = "srt_destination" -> ToSet(SrtDestinationVarList)
          [] mode \in {"srt_common", NULL} -> ToSet(SrtCommonVarList)

\* A collector made from this configuration exports the variables documented for
\* the filter, each of them once.
Exports(cfg, f) ==
    LET filtered == LoadFilterFromConfig(cfg)
    IN  /\ {filtered[i].name : i \in DOMAIN filtered} = DocumentedVars(f)
        /\ IsInjective(filtered)

Describes(s, object) ==
    /\ object.ip = s.ip
    /\ object.port = Or(s.port, 0)
    /\ object.collector.labelList = Or(s.labels, <<>>)

\* The index of the section a name stands for: the first that has it.
SectionOf(name) == FirstOf(file.exporters, name)

ObjectOf(name) == config.objects[FirstOf(config.objects, name)]

FileNames == {file.exporters[i].name : i \in DOMAIN file.exporters} \ {NULL, Bad}

\* "srt exporter's name string is the identity for srt exporter to allocate the
\* corresponding configuration" (srt_exporter.yaml:37): after a load that
\* succeeded, what a lookup by a name of the file finds is the first section of
\* that name, with nothing of another section or of the global one mixed in.
NameFindsItsSection ==
    Loaded => \A n \in FileNames :
        /\ Known(n)
        /\ Describes(file.exporters[SectionOf(n)], ObjectOf(n))

\* The filter of a section exports what the documentation says of its mode.
ExportsAsDocumented ==
    Loaded =>
        /\ file.global # NULL => Exports(config.collector, file.global.filter)
        /\ \A n \in FileNames :
              Exports(ObjectOf(n).collector, file.exporters[SectionOf(n)].filter)

\* However a load ends, and wherever it is, an object but the last is exactly
\* what its section says: an exception half-way leaves at most one half-made
\* object, at the end, and after it none.
OnlyLastObjectPartial ==
    \A i \in 1 .. Back - 1 :
        \E j \in 1 .. section - 1 :
            /\ config.objects[i].name \in {file.exporters[j].name, Generated[i]}
            /\ Describes(file.exporters[j], config.objects[i])
            /\ Exports(config.objects[i].collector, file.exporters[j].filter)

-----------------------------------------------------------------------------
(* The inductive invariants                                                *)

InSection == pc \notin {"idle", "object"}

\* While a file is loaded, there is a section or an object to work on.
LoadInv ==
    /\ pc # "idle" \/ Loaded =>
          /\ file \in Files \ {Missing, Unparsable}
          /\ section \in 0 .. Len(file.exporters)
          /\ Back <= section
    /\ InSection /\ section = 0 => file.global # NULL
    /\ InSection /\ section > 0 => config.objects # <<>>

IInv == TypeOK /\ LoadInv

\* No name generated for a section of the file is the name of another.
GeneratedApart ==
    \A f \in Files \ {Missing, Unparsable} : \A i, j \in DOMAIN f.exporters :
        f.exporters[j].name # Generated[i]

\* The filters that the documentation describes and the loops of the collector
\* select for: no list names a variable twice, a blacklist names one, and a mode is
\* one the loader knows.
PlainFilter(f) ==
    /\ ModeOf(f) \in {NULL, Bad} \cup ListModes \cup PresetModes
    /\ ModeOf(f) = "whitelist" => IsInjective(Or(f.list, <<>>))
    /\ ModeOf(f) = "blacklist" => Len(Or(f.list, <<>>)) = 1

PlainFilters ==
    \A f \in Files \ {Missing, Unparsable} :
        /\ f.global # NULL => PlainFilter(f.global.filter)
        /\ \A i \in DOMAIN f.exporters : PlainFilter(f.exporters[i].filter)

\* What the branch of a filter leaves in a collector that had the defaults.
FilterSet(c, f) ==
    /\ ModeOf(f) # Bad
    /\ c.filterMode = IF ModeOf(f) = "blacklist" THEN "BLACKLIST" ELSE "WHITELIST"
    /\ c.varList = CASE ModeOf(f) = NULL              -> SrtCommonVarList
                     [] ModeOf(f) \in ListModes       -> Or(f.list, <<>>)
                     [] ModeOf(f) = "srt_source"      -> SrtSourceVarList
                     [] ModeOf(f) = "srt_destination" -> SrtDestinationVarList
                     [] OTHER                         -> <<>>

\* What a load that is at the statement "at" has stored in the collector c of the
\* section s: the defaults, until its filter.
PartlyFiltered(s, c, at) ==
    /\ at \in {"mode", "filter"} \/ (section = 0 /\ at \in {"ip", "port"})
          => c = LoadDefaultSrtExpCollectorConfig
    /\ at \in {"labels", "object"} => FilterSet(c, s.filter)

\* What it has stored in the object o.
PartlyDescribes(s, o) ==
    /\ o.ip = IF pc = "ip" THEN NULL ELSE s.ip
    /\ o.port = IF pc \in {"ip", "port"} THEN 0 ELSE Or(s.port, 0)
    /\ o.collector.labelList = <<>>
    /\ PartlyFiltered(s, o.collector, pc)

FullyDescribes(s, o) == Describes(s, o) /\ FilterSet(o.collector, s.filter)

\* Object i was made of section j.
Made(i, j) ==
    LET s == file.exporters[j]
        o == config.objects[i]
        partial == i = Back /\ InSection
    IN  /\ s.name = NULL => o.name = Generated[i]
        /\ s.name # NULL => o.name = s.name /\ SectionOf(s.name) = j
        /\ partial => j = section /\ PartlyDescribes(s, o)
        /\ ~ partial => FullyDescribes(s, o)

\* The global section has set the global collector, or is about to.
GlobalMade ==
    file.global # NULL =>
        PartlyFiltered(file.global, config.collector,
                       IF section = 0 /\ InSection THEN pc ELSE "object")

\* Each section so far has made its object, or another had its name before.
NamesInv ==
    pc # "idle" \/ Loaded =>
        /\ Loaded => section = Len(file.exporters)
        /\ \A j \in 1 .. section :
              LET n == file.exporters[j].name
              IN  n # Bad /\ (n # NULL => Known(n))
        /\ \A i \in 1 .. Back : \E j \in 1 .. section : Made(i, j)
        /\ GlobalMade

\* An object but the last stays what its section made it, even after an exception.
DoneInv ==
    /\ Back > 1 => file \in Files \ {Missing, Unparsable}
    /\ \A i \in 1 .. Back - 1 :
          \E j \in 1 .. section - 1 :
              /\ j \in DOMAIN file.exporters
              /\ config.objects[i].name \in {file.exporters[j].name, Generated[i]}
              /\ FullyDescribes(file.exporters[j], config.objects[i])
=============================================================================
