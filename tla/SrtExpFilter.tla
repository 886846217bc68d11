----------------------------- MODULE SrtExpFilter -----------------------------
(***************************************************************************)
(* Which statistics an exporter exports: the table of the variables        *)
(* (SRT_DATA_MAP_INITIALIZER), the preset lists, and the selection the      *)
(* collector makes from its configuration (LoadFilterFromConfig).           *)
(*                                                                         *)
(* The table is cut down to one variable of each kind: one a source is     *)
(* interested in, one a destination is, one both are, one neither is, and  *)
(* the one whose offset is another variable's.                             *)
(*                                                                         *)
(* A collector configuration is [filterMode, varList, labelList].          *)
(***************************************************************************)
EXTENDS Integers, Sequences, SequencesExt

\* Each entry has a name and the offset of the statistic it reads.
DataMap ==
    << [name |-> "msTimeStamp",     offset |-> "msTimeStamp"],
       [name |-> "pktSentTotal",    offset |-> "pktSentTotal"],
       [name |-> "pktRecvTotal",    offset |-> "pktRecvTotal"],
       [name |-> "pktRecvNAKTotal", offset |-> "pktRecvACKTotal"],
       [name |-> "msRTT",           offset |-> "msRTT"] >>

SrtSourceVarList == <<"pktSentTotal", "msRTT">>
SrtDestinationVarList == <<"pktRecvTotal", "msRTT">>
SrtCommonVarList == <<"pktSentTotal", "pktRecvTotal", "msRTT">>

VarNames == {DataMap[i].name : i \in DOMAIN DataMap}
Offsets == {DataMap[i].offset : i \in DOMAIN DataMap}

\* The searches by name: the first element that has it, or 0.
FirstOf(list, name) == SelectInSeq(list, LAMBDA x : x.name = name)

\* The preset modes are WHITELIST by another name; 0 is the mode of an object
\* configuration before its defaults are loaded.
FilterModes == {"WHITELIST", "BLACKLIST", "0"}

LoadDefaultSrtExpCollectorConfig ==
    [filterMode |-> "WHITELIST", varList |-> SrtCommonVarList, labelList |-> <<>>]

\* Mutant: a whitelisted variable is compared with the first of the list only.
LoadFilterFirstOnly(cfg) ==
    SelectSeq(DataMap, LAMBDA d : cfg.varList # <<>> /\ cfg.varList[1] = d.name)

\* An entry and a variable of the list agree in whitelist mode, and differ in any
\* other mode.
Passes(cfg, d, v) == (cfg.filterMode = "WHITELIST") = (d.name = v)

\* One push of the entry for every variable of the list that lets it pass.
Pushes(cfg, d) ==
    FlattenSeq([j \in DOMAIN cfg.varList |->
        IF Passes(cfg, d, cfg.varList[j]) THEN <<d>> ELSE <<>>])

LoadFilterFromConfig(cfg) ==
    FlattenSeq([i \in DOMAIN DataMap |-> Pushes(cfg, DataMap[i])])
=============================================================================
