------------------------- MODULE SrtExpConfigLoadProofs -------------------------
(***************************************************************************)
(* Theorems of SrtExpConfigLoad, for any files.                            *)
(***************************************************************************)
EXTENDS SrtExpConfigLoad, SrtExpFilterProofs

-----------------------------------------------------------------------------
(* The operators                                                           *)

\* What a loop over the values has stored when it ends or throws: strings, and all
\* of them if none of them is bad.
LEMMA ConvertedFacts ==
    ASSUME NEW list \in Seq({Bad} \cup Texts)
    PROVE  /\ Converted(list) \in Seq(Texts)
           /\ Bad \notin ToSet(list) => Converted(list) = list
<1> DEFINE I == {j \in 1 .. Len(list) : list[j] = Bad}
           i == IF I # {} THEN Min(I) ELSE 0
<1>1. Len(list) \in Nat /\ I \in SUBSET Nat /\ DOMAIN list = 1 .. Len(list)
      /\ \A j \in 1 .. Len(list) : list[j] \in {Bad} \cup Texts
  BY LenProperties, ElementOfSeq
<1>2. SelectInSeq(list, LAMBDA v : v = Bad) = i
  BY DEF SelectInSeq
<1>3. Converted(list) = IF i = 0 THEN list ELSE SubSeq(list, 1, i - 1)
  BY <1>2 DEF Converted
<1>4. I # {} => Min(I) \in I /\ \A y \in I : Min(I) =< y
  BY <1>1, MinOfNaturals
<1>5. CASE I = {}
  <2>1. \A j \in 1 .. Len(list) : list[j] \in Texts
    BY <1>1, <1>5
  <2>2. list \in Seq(Texts)
    <3>1. list \in [1 .. Len(list) -> {Bad} \cup Texts]
      BY LenProperties
    <3>2. list \in [1 .. Len(list) -> Texts]
      BY <2>1, <3>1
    <3> QED
      BY <1>1, <3>2, SeqDef
  <2> QED
    BY <1>3, <1>5, <2>2
<1>6. CASE I # {}
  <2>1. i \in 1 .. Len(list) /\ list[i] = Bad /\ \A y \in I : i =< y
    BY <1>4, <1>6
  <2> HIDE DEF i
  <2>2. \A j \in 1 .. i - 1 : j \in 1 .. Len(list) /\ list[j] \in Texts
    <3> TAKE j \in 1 .. i - 1
    <3>1. j \in 1 .. Len(list) /\ j < i
      BY <1>1, <2>1
    <3>2. j \notin I
      BY <1>1, <2>1, <3>1
    <3> QED
      BY <1>1, <3>1, <3>2
  <2>3. SubSeq(list, 1, i - 1) \in Seq(Texts)
    BY <1>1, <2>1, <2>2, SubSeqProperties
  <2>4. Bad \in ToSet(list)
    BY <1>1, <2>1 DEF ToSet
  <2>5. i # 0
    BY <1>1, <2>1
  <2>6. Converted(list) = SubSeq(list, 1, i - 1)
    BY <1>3, <2>5
  <2> QED
    BY <2>3, <2>4, <2>6
<1> QED
  BY <1>5, <1>6

\* The defaults of a collector.
LEMMA DefaultCollector ==
    /\ LoadDefaultSrtExpCollectorConfig \in CollectorType
    /\ LoadDefaultSrtExpCollectorConfig.labelList = <<>>
<1>1. SrtCommonVarList \in Seq(Texts)
  BY LoadAssumption
<1>2. <<>> \in Seq(Texts) /\ "WHITELIST" \in FilterModes
  BY DEF FilterModes
<1>3. LoadDefaultSrtExpCollectorConfig =
         [filterMode |-> "WHITELIST", varList |-> SrtCommonVarList, labelList |-> <<>>]
  BY DEF LoadDefaultSrtExpCollectorConfig
<1> QED
  BY <1>1, <1>2, <1>3 DEF CollectorType

\* The types of what the statements of a load read.
LEMMA SectionFacts ==
    ASSUME IInv, pc # "idle"
    PROVE  /\ file \in FileType /\ section \in 0 .. Len(file.exporters)
           /\ Len(file.exporters) \in Nat
           /\ \A j \in 1 .. Len(file.exporters) : file.exporters[j] \in SectionType
           /\ config \in ConfigType /\ config.objects \in Seq(ObjectType)
           /\ Back \in 0 .. section
           /\ InSection => /\ Section \in SectionType
                           /\ section > 0 => Back \in 1 .. Back /\ Target \in ObjectType
                           /\ section = 0 => Target = config
                           /\ Collector \in CollectorType
<1>1. file \in FileType /\ section \in 0 .. Len(file.exporters)
      /\ (InSection /\ section = 0 => file.global # NULL)
      /\ (InSection /\ section > 0 => config.objects # <<>>)
      /\ Back <= section
  BY LoadAssumption DEF IInv, LoadInv
<1>2. file.exporters \in Seq(SectionType) /\ (file.global # NULL => file.global \in SectionType)
  BY <1>1 DEF FileType
<1>3. Len(file.exporters) \in Nat
      /\ \A j \in 1 .. Len(file.exporters) : file.exporters[j] \in SectionType
  BY <1>2, LenProperties, ElementOfSeq
<1>4. config \in ConfigType /\ config.objects \in Seq(ObjectType)
      /\ config.collector \in CollectorType
  BY DEF IInv, TypeOK, ConfigType
<1>5. Back \in Nat /\ (InSection /\ section > 0 => Back \in 1 .. Back)
  BY <1>1, <1>4, EmptySeq, LenProperties DEF Back
<1>6. InSection => Section \in SectionType
  BY <1>1, <1>2, <1>3 DEF Section
<1>7. InSection /\ section > 0 => Target \in ObjectType
  <2>1. InSection /\ section > 0 => config.objects[Back] \in ObjectType
    BY <1>4, <1>5, ElementOfSeq DEF Back
  <2> QED
    BY <1>1, <2>1 DEF Target
<1>8. section = 0 => Target = config
  BY DEF Target
<1>9. InSection => Collector \in CollectorType
  BY <1>1, <1>3, <1>4, <1>7, <1>8 DEF Collector, ObjectType
<1>10. Back \in 0 .. section
  BY <1>1, <1>3, <1>5
<1> QED
  BY <1>1, <1>3, <1>4, <1>5, <1>6, <1>7, <1>8, <1>9, <1>10

\* What a statement leaves: o in the place of the last object, when the section is
\* an exporter's, and the other objects as they are.
Stored(o) ==
    /\ config' \in ConfigType
    /\ config'.portMin <= config'.portMax
    /\ config'.collector = IF section = 0 THEN o.collector ELSE config.collector
    /\ Len(config'.objects) = Back
    /\ config'.objects \in Seq(ObjectType)
    /\ \A i \in 1 .. Back :
          config'.objects[i] = IF section > 0 /\ i = Back THEN o ELSE config.objects[i]

\* A value is stored in the global configuration or in the last object.
LEMMA SetFacts ==
    ASSUME IInv, InSection, NEW target, Set(target),
           section > 0 => target \in ObjectType,
           section = 0 => /\ target \in ConfigType
                          /\ target.portMin <= target.portMax
                          /\ target.objects = config.objects
    PROVE  Stored(target)
<1>1. section \in Nat /\ config \in ConfigType /\ config.portMin <= config.portMax
  BY DEF IInv, TypeOK
<1>2. config.objects \in Seq(ObjectType) /\ Back \in Nat /\ Back = Len(config.objects)
  BY <1>1, LenProperties DEF ConfigType, Back
<1>3. CASE section = 0
  <2>1. config' = target
    BY <1>3 DEF Set
  <2>2. config'.objects = config.objects /\ config' \in ConfigType
        /\ config'.portMin <= config'.portMax
    BY <1>3, <2>1
  <2> QED
    BY <1>2, <1>3, <2>1, <2>2 DEF Stored
<1>4. CASE section > 0
  <2> DEFINE objects == [config.objects EXCEPT ![Back] = target]
  <2>1. Back \in 1 .. Len(config.objects)
    BY <1>2, <1>4, SectionFacts DEF InSection
  <2>2. /\ objects \in Seq(ObjectType) /\ Len(objects) = Back
        /\ \A i \in 1 .. Back : objects[i] = IF i = Back THEN target ELSE config.objects[i]
    BY <1>2, <1>4, <2>1, ExceptSeq
  <2>3. config' = [config EXCEPT !.objects = objects]
    BY <1>4 DEF Set
  <2> HIDE DEF objects
  <2>4. /\ config' \in ConfigType /\ config'.objects = objects
        /\ config'.portMin = config.portMin /\ config'.portMax = config.portMax
        /\ config'.collector = config.collector
    BY <1>1, <2>2, <2>3 DEF ConfigType
  <2> QED
    BY <1>1, <1>4, <2>2, <2>4 DEF Stored
<1> QED
  BY <1>1, <1>3, <1>4

\* The same for its collector.
LEMMA SetCollectorFacts ==
    ASSUME IInv, InSection, NEW c \in CollectorType, SetCollector(c)
    PROVE  Stored([Target EXCEPT !.collector = c])
<1> DEFINE target == [Target EXCEPT !.collector = c]
<1>1. Set(target) /\ pc # "idle" /\ config.portMin <= config.portMax /\ section \in Nat
  BY DEF SetCollector, InSection, IInv, TypeOK
<1>2. section > 0 => target \in ObjectType
  BY <1>1, SectionFacts DEF ObjectType
<1>3. section = 0 => /\ target \in ConfigType
                     /\ target.portMin <= target.portMax
                     /\ target.objects = config.objects
  BY <1>1, SectionFacts DEF ConfigType
<1> HIDE DEF target
<1>4. Stored(target)
  BY <1>1, <1>2, <1>3, SetFacts
<1> QED
  BY <1>4 DEF target

-----------------------------------------------------------------------------
(* The statements of a section                                             *)

\* A statement that changes nothing leaves its target.
LEMMA KeptFacts ==
    ASSUME IInv, InSection, config' = config
    PROVE  Stored(Target)
<1>1. config \in ConfigType /\ config.portMin <= config.portMax /\ section \in Nat
  BY DEF IInv, TypeOK
<1>2. Target = IF section = 0 THEN config ELSE config.objects[Back]
  BY <1>1 DEF Target
<1>3. config.objects \in Seq(ObjectType) /\ Back = Len(config.objects)
  BY <1>1 DEF ConfigType, Back
<1> QED
  BY <1>1, <1>2, <1>3 DEF Stored

\* The address.
LEMMA IpFacts ==
    ASSUME IInv, LoadIp
    PROVE  Stored(IF Section.ip \in {NULL, Bad} THEN Target
                  ELSE [Target EXCEPT !.ip = Section.ip])
<1> DEFINE o == IF Section.ip \in {NULL, Bad} THEN Target
                ELSE [Target EXCEPT !.ip = Section.ip]
<1>1. Set(o) /\ pc # "idle" /\ InSection
  BY DEF LoadIp, InSection
<1>2. /\ Section \in SectionType
      /\ section > 0 => Target \in ObjectType
      /\ section = 0 => Target = config
      /\ config \in ConfigType /\ config.portMin <= config.portMax
  BY <1>1, SectionFacts DEF IInv, TypeOK
<1>3. Section.ip \in {NULL, Bad} \cup Texts
  BY <1>2 DEF SectionType, Value
<1>4. section > 0 => o \in ObjectType
  BY <1>2, <1>3 DEF ObjectType
<1>5. section = 0 => /\ o \in ConfigType /\ o.portMin <= o.portMax
                     /\ o.objects = config.objects
  BY <1>2, <1>3 DEF ConfigType
<1> HIDE DEF o
<1>6. Stored(o)
  BY <1>1, <1>4, <1>5, SetFacts
<1> QED
  BY <1>6 DEF o

\* The range of ports of the global section.
LEMMA PortsFacts ==
    ASSUME IInv, LoadGlobalPorts
    PROVE  Stored(Target)
<1>1. pc # "idle" /\ InSection /\ section = 0
  BY DEF LoadGlobalPorts, InSection
<1>2. Section \in SectionType /\ config \in ConfigType /\ config.portMin <= config.portMax
  BY <1>1, SectionFacts DEF IInv, TypeOK
<1>3. Section.portMin \in {NULL, Bad} \cup Int /\ Section.portMax \in {NULL, Bad} \cup Int
  BY <1>2 DEF SectionType, Number
<1>4. \/ config' = config
      \/ /\ Section.portMin \in Int /\ Section.portMax \in Int
         /\ Section.portMin <= Section.portMax
         /\ config' = [config EXCEPT !.portMin = Section.portMin, !.portMax = Section.portMax]
  BY <1>3 DEF LoadGlobalPorts
<1>5. /\ config' \in ConfigType /\ config'.portMin <= config'.portMax
      /\ config'.objects = config.objects /\ config'.collector = Target.collector
  BY <1>1, <1>2, <1>4 DEF ConfigType, Target
<1>6. config.objects \in Seq(ObjectType) /\ Back = Len(config.objects)
  BY <1>2 DEF ConfigType, Back
<1> QED
  BY <1>1, <1>5, <1>6 DEF Stored

\* The port of an exporter, and the defaults of its collector.
LEMMA PortFacts ==
    ASSUME IInv, LoadObjectPort
    PROVE  Stored(IF Section.port = Bad THEN Target
                  ELSE [Target EXCEPT
                          !.port = IF Section.port = NULL THEN @ ELSE Section.port,
                          !.collector = LoadDefaultSrtExpCollectorConfig])
<1> DEFINE o == [Target EXCEPT
                    !.port = IF Section.port = NULL THEN @ ELSE Section.port,
                    !.collector = LoadDefaultSrtExpCollectorConfig]
<1>1. pc # "idle" /\ InSection /\ section > 0
  BY DEF LoadObjectPort, InSection
<1>2. CASE Section.port = Bad
  <2>1. config' = config
    BY <1>2 DEF LoadObjectPort
  <2> QED
    BY <1>1, <1>2, <2>1, KeptFacts
<1>3. CASE Section.port # Bad
  <2>1. Section \in SectionType /\ Target \in ObjectType
    BY <1>1, SectionFacts
  <2>2. Section.port \in {NULL} \cup Int
    BY <1>3, <2>1 DEF SectionType, Number
  <2>3. o \in ObjectType
    BY <2>1, <2>2, DefaultCollector DEF ObjectType
  <2>4. Set(o)
    BY <1>3 DEF LoadObjectPort
  <2> HIDE DEF o
  <2>5. Stored(o)
    BY <1>1, <2>3, <2>4, SetFacts
  <2> QED
    BY <1>3, <2>5 DEF o
<1> QED
  BY <1>2, <1>3

\* The filter: whichever branch, the labels of the collector stay, and what the
\* filter says takes the place of the defaults unless the branch throws.
LEMMA FilterFacts ==
    ASSUME IInv, KeepFilter \/ LoadListFilter \/ LoadPresetFilter \/ LoadOtherFilter
    PROVE  \E c \in CollectorType :
              /\ c.labelList = Collector.labelList
              /\ Collector = LoadDefaultSrtExpCollectorConfig /\ pc' # "idle"
                    => FilterSet(c, Section.filter)
              /\ Stored([Target EXCEPT !.collector = c])
<1> DEFINE default == LoadDefaultSrtExpCollectorConfig
           Loads(c) == Collector = default /\ pc' # "idle" => FilterSet(c, Section.filter)
<1>0. /\ default.filterMode = "WHITELIST" /\ default.varList = SrtCommonVarList
      /\ \A failed, next : ThrowIf(failed, next) /\ pc' # "idle" => ~ failed
  BY DEF LoadDefaultSrtExpCollectorConfig, ThrowIf
<1>m. /\ Mode = ModeOf(Section.filter) /\ NULL # Bad
      /\ \A m \in {NULL, Bad} : m \notin ListModes /\ m \notin PresetModes
      /\ ListModes = {"whitelist", "blacklist"}
      /\ PresetModes = {"srt_source", "srt_destination"}
  BY LoadAssumption DEF Mode, ListModes, PresetModes
<1> HIDE DEF default
<1>1. pc # "idle" /\ InSection
  BY DEF KeepFilter, LoadListFilter, LoadPresetFilter, LoadOtherFilter, AtFilter, InSection
<1>2. /\ Section \in SectionType /\ Collector \in CollectorType
      /\ section = 0 => Target = config
      /\ section > 0 => Target \in ObjectType
      /\ section \in Nat /\ config \in ConfigType
  BY <1>1, SectionFacts DEF IInv, TypeOK
<1> SUFFICES \E c \in CollectorType :
                /\ c.labelList = Collector.labelList /\ Loads(c)
                /\ Stored([Target EXCEPT !.collector = c])
  BY DEF default
<1>3. ASSUME NEW c \in CollectorType, c.labelList = Collector.labelList, Loads(c),
             SetCollector(c)
      PROVE  \E d \in CollectorType :
                /\ d.labelList = Collector.labelList /\ Loads(d)
                /\ Stored([Target EXCEPT !.collector = d])
  <2>1. Stored([Target EXCEPT !.collector = c])
    BY <1>1, <1>3, SetCollectorFacts
  <2> QED
    BY <1>3, <2>1
<1>4. CASE KeepFilter
  <2>1. Stored(Target)
    BY <1>1, <1>4, KeptFacts DEF KeepFilter
  <2>2. [Target EXCEPT !.collector = Collector] = Target
    BY <1>2 DEF Collector, ObjectType, ConfigType
  <2>3. Loads(Collector)
    <3>1. Mode = NULL
      BY <1>4 DEF KeepFilter, AtFilter
    <3> QED
      BY <1>0, <1>m, <3>1 DEF FilterSet
  <2> QED
    BY <1>2, <2>1, <2>2, <2>3
<1>5. CASE LoadListFilter
  <2> DEFINE list == IF Section.filter.list = NULL THEN <<>> ELSE Section.filter.list
             mode == IF Mode = "whitelist" THEN "WHITELIST" ELSE "BLACKLIST"
             c == [Collector EXCEPT !.filterMode = mode, !.varList = Converted(list)]
  <2>1. /\ SetCollector(c) /\ Mode \in ListModes
        /\ ThrowIf(Bad \in ToSet(list), "labels")
    BY <1>5 DEF LoadListFilter, AtFilter
  <2>2. list \in Seq({Bad} \cup Texts)
    <3>1. Section.filter \in {NULL} \cup [mode : Value, list : Values]
      BY <1>2 DEF SectionType
    <3>2. CASE Section.filter = NULL
      <4>1. Mode = NULL
        BY <1>m, <3>2 DEF ModeOf
      <4> QED
        BY <1>m, <2>1, <4>1
    <3>3. CASE Section.filter \in [mode : Value, list : Values]
      BY <3>3 DEF Values
    <3> QED
      BY <3>1, <3>2, <3>3
  <2>3. Converted(list) \in Seq(Texts) /\ mode \in FilterModes
    BY <2>2, ConvertedFacts DEF FilterModes
  <2>5. Loads(c)
    <3> SUFFICES ASSUME pc' # "idle" PROVE FilterSet(c, Section.filter)
      OBVIOUS
    <3>1. Converted(list) = list
      BY <1>0, <2>1, <2>2, ConvertedFacts
    <3>2. c.filterMode = mode /\ c.varList = Converted(list)
      BY <1>2 DEF CollectorType
    <3>3. list = Or(Section.filter.list, <<>>) /\ Mode # NULL /\ Mode # Bad
      BY <1>m, <2>1 DEF Or
    <3>4. Mode = "blacklist" \/ (Mode = "whitelist" /\ Mode # "blacklist")
      BY <1>m, <2>1
    <3> HIDE DEF c, list
    <3> QED
      BY <1>m, <2>1, <3>1, <3>2, <3>3, <3>4 DEF FilterSet
  <2> HIDE DEF list, mode
  <2>4. c \in CollectorType /\ c.labelList = Collector.labelList
    BY <1>2, <2>3 DEF CollectorType
  <2> HIDE DEF c, Loads
  <2> QED
    BY <1>3, <2>1, <2>4, <2>5
<1>6. CASE LoadPresetFilter
  <2> DEFINE list == IF Mode = "srt_source" THEN SrtSourceVarList ELSE SrtDestinationVarList
             c == [Collector EXCEPT !.filterMode = "WHITELIST", !.varList = list]
  <2>1. SetCollector(c)
    BY <1>6 DEF LoadPresetFilter
  <2>2. list \in Seq(Texts) /\ "WHITELIST" \in FilterModes
    BY LoadAssumption DEF FilterModes
  <2>4. Loads(c)
    <3>1. c.filterMode = "WHITELIST" /\ c.varList = list
      BY <1>2 DEF CollectorType
    <3>2. Mode \in PresetModes
      BY <1>6 DEF LoadPresetFilter, AtFilter
    <3>3. /\ Mode # NULL /\ Mode # Bad /\ Mode \notin ListModes /\ Mode # "blacklist"
          /\ Mode = "srt_destination" \/ (Mode = "srt_source" /\ Mode # "srt_destination")
      BY <1>m, <3>2
    <3> HIDE DEF c
    <3> QED
      BY <1>m, <3>1, <3>3 DEF FilterSet
  <2> HIDE DEF list
  <2>3. c \in CollectorType /\ c.labelList = Collector.labelList
    BY <1>2, <2>2 DEF CollectorType
  <2> HIDE DEF c, Loads
  <2> QED
    BY <1>3, <2>1, <2>3, <2>4
<1>7. CASE LoadOtherFilter
  <2> DEFINE c == [Collector EXCEPT !.varList = <<>>]
  <2>1. SetCollector(c)
    BY <1>7 DEF LoadOtherFilter
  <2>2. <<>> \in Seq(Texts)
    OBVIOUS
  <2>3. c \in CollectorType /\ c.labelList = Collector.labelList
    BY <1>2, <2>2 DEF CollectorType
  <2>4. Loads(c)
    <3>1. ThrowIf(Mode = Bad, "labels") /\ Mode \notin {NULL} \cup ListModes \cup PresetModes
      BY <1>7 DEF LoadOtherFilter
    <3>2. pc' # "idle" => Mode # Bad
      BY <1>0, <3>1
    <3>3. c.filterMode = Collector.filterMode /\ c.varList = <<>>
      BY <1>2 DEF CollectorType
    <3> HIDE DEF c
    <3> QED
      BY <1>0, <3>1, <3>2, <3>3 DEF FilterSet, PresetModes, ListModes, Mode
  <2> HIDE DEF c, Loads
  <2> QED
    BY <1>3, <2>1, <2>3, <2>4
<1> QED
  BY <1>4, <1>5, <1>6, <1>7

\* The labels.
LEMMA LabelsFacts ==
    ASSUME IInv, LoadLabels
    PROVE  Stored(IF Section.labels = NULL THEN Target
                  ELSE [Target EXCEPT !.collector =
                          [Collector EXCEPT !.labelList = Converted(Section.labels)]])
<1>1. pc # "idle" /\ InSection
  BY DEF LoadLabels, InSection
<1>2. CASE Section.labels = NULL
  <2>1. config' = config
    BY <1>2 DEF LoadLabels
  <2> QED
    BY <1>1, <1>2, <2>1, KeptFacts
<1>3. CASE Section.labels # NULL
  <2> DEFINE c == [Collector EXCEPT !.labelList = Converted(Section.labels)]
  <2>1. SetCollector(c)
    BY <1>3 DEF LoadLabels
  <2>2. Section \in SectionType /\ Collector \in CollectorType
    BY <1>1, SectionFacts
  <2>3. Section.labels \in Seq({Bad} \cup Texts)
    BY <1>3, <2>2 DEF SectionType, Values
  <2>4. Converted(Section.labels) \in Seq(Texts)
    BY <2>3, ConvertedFacts
  <2>5. c \in CollectorType
    BY <2>2, <2>4 DEF CollectorType
  <2> HIDE DEF c
  <2>6. Stored([Target EXCEPT !.collector = c])
    BY <1>1, <2>1, <2>5, SetCollectorFacts
  <2> QED
    BY <1>3, <2>6 DEF c
<1> QED
  BY <1>2, <1>3

-----------------------------------------------------------------------------
(* Types                                                                   *)

\* The configuration that a load begins with.
LEMMA DefaultConfigFacts ==
    /\ DefaultConfig \in ConfigType
    /\ DefaultConfig.portMin <= DefaultConfig.portMax
    /\ DefaultConfig.objects = <<>>
<1>1. <<>> \in Seq(ObjectType)
  OBVIOUS
<1> QED
  BY <1>1, LoadAssumption, DefaultCollector DEF DefaultConfig, ConfigType

\* The invariant holds of a program that has not loaded a file.
LEMMA InvInit == Init => IInv
<1> SUFFICES ASSUME Init PROVE IInv
  OBVIOUS
<1>1. TypeOK
  BY DefaultConfigFacts DEF Init, TypeOK, PcValues, Outcomes
<1>2. LoadInv
  BY DEF Init, LoadInv, InSection, Loaded
<1> QED
  BY <1>1, <1>2 DEF IInv

\* A statement of a section keeps the invariant, however it ends.
LEMMA StatementInv ==
    ASSUME IInv, InSection, NEW o, Stored(o), NEW failed \in BOOLEAN,
           NEW next \in PcValues, next # "idle", ThrowIf(failed, next)
    PROVE  IInv'
<1>1. /\ pc' \in PcValues /\ (pc' # "idle" => ret' = ret)
      /\ (pc' = "idle" => ret' = "threw") /\ ret' \in Outcomes
      /\ file' = file /\ section' = section
  BY DEF ThrowIf, IInv, TypeOK, PcValues, Outcomes
<1>2. TypeOK'
  BY <1>1 DEF IInv, TypeOK, Stored
<1>3. pc # "idle" /\ ~ Loaded'
      /\ file \in Files \ {Missing, Unparsable} /\ section \in 0 .. Len(file.exporters)
      /\ Len(config'.objects) <= section
  BY <1>1 DEF InSection, IInv, LoadInv, Loaded, Stored
<1>4. section > 0 => Len(config'.objects) \in Nat \ {0}
  BY <1>3, SectionFacts DEF Stored
<1>5. section > 0 => config'.objects # <<>>
  BY <1>4
<1>6. section = 0 => file.global # NULL
  BY DEF IInv, LoadInv
<1>7. (pc # "idle" \/ Loaded =>
          /\ file \in Files \ {Missing, Unparsable}
          /\ section \in 0 .. Len(file.exporters)
          /\ Back <= section)'
  BY <1>1, <1>3 DEF Back
<1>8. (InSection /\ section = 0 => file.global # NULL)'
  BY <1>1, <1>6
<1>9. (InSection /\ section > 0 => config.objects # <<>>)'
  BY <1>1, <1>5
<1> QED
  BY <1>2, <1>7, <1>8, <1>9 DEF IInv, LoadInv

\* What any statement of a section does, and where it goes.
LEMMA StatementFacts ==
    ASSUME IInv,
           \/ LoadIp \/ LoadGlobalPorts \/ LoadObjectPort \/ LoadCollectorMode
           \/ KeepFilter \/ LoadListFilter \/ LoadPresetFilter \/ LoadOtherFilter
           \/ LoadLabels
    PROVE  InSection /\ \E o, failed, next :
              /\ Stored(o)
              /\ failed \in BOOLEAN /\ next \in PcValues \ {"idle"}
              /\ ThrowIf(failed, next)
<1>1. /\ "port" \in PcValues \ {"idle"} /\ "mode" \in PcValues \ {"idle"}
      /\ "filter" \in PcValues \ {"idle"} /\ "labels" \in PcValues \ {"idle"}
      /\ "object" \in PcValues \ {"idle"}
  BY DEF PcValues
<1>2. CASE LoadIp
  <2>1. InSection /\ ThrowIf(Section.ip = Bad, "port")
    BY <1>2 DEF LoadIp, InSection
  <2>2. \E o : Stored(o)
    BY <1>2, IpFacts
  <2> QED
    BY <1>1, <2>1, <2>2
<1>3. CASE LoadGlobalPorts
  <2> DEFINE failed == NULL \notin {Section.portMin, Section.portMax}
                       /\ Bad \in {Section.portMin, Section.portMax}
  <2>1. InSection /\ ThrowIf(failed, "mode")
    BY <1>3 DEF LoadGlobalPorts, InSection
  <2>2. \E o : Stored(o)
    BY <1>3, PortsFacts
  <2>3. failed \in BOOLEAN
    OBVIOUS
  <2> HIDE DEF failed
  <2> QED
    BY <1>1, <2>1, <2>2, <2>3
<1>4. CASE LoadObjectPort
  <2>1. InSection /\ ThrowIf(Section.port = Bad, "mode")
    BY <1>4 DEF LoadObjectPort, InSection
  <2>2. \E o : Stored(o)
    BY <1>4, PortFacts
  <2> QED
    BY <1>1, <2>1, <2>2
<1>5. CASE LoadCollectorMode
  <2>1. InSection /\ ThrowIf(Section.collectorMode = Bad, "filter") /\ config' = config
    BY <1>5 DEF LoadCollectorMode, InSection
  <2>2. \E o : Stored(o)
    BY <2>1, KeptFacts
  <2> QED
    BY <1>1, <2>1, <2>2
<1>6. CASE KeepFilter \/ LoadListFilter \/ LoadPresetFilter \/ LoadOtherFilter
  <2>1. InSection /\ \E failed \in BOOLEAN : ThrowIf(failed, "labels")
    <3> DEFINE list == IF Section.filter.list = NULL THEN <<>> ELSE Section.filter.list
    <3>1. InSection
      BY <1>6 DEF KeepFilter, LoadListFilter, LoadPresetFilter, LoadOtherFilter,
                  AtFilter, InSection
    <3>2. KeepFilter \/ LoadPresetFilter => ThrowIf(FALSE, "labels")
      BY DEF KeepFilter, LoadPresetFilter
    <3>3. LoadListFilter => ThrowIf(Bad \in ToSet(list), "labels")
      BY DEF LoadListFilter
    <3>4. LoadOtherFilter => ThrowIf(Mode = Bad, "labels")
      BY DEF LoadOtherFilter
    <3> DEFINE listFails == Bad \in ToSet(list)
               otherFails == Mode = Bad
    <3>5. listFails \in BOOLEAN /\ otherFails \in BOOLEAN
      OBVIOUS
    <3>6. /\ LoadListFilter => ThrowIf(listFails, "labels")
          /\ LoadOtherFilter => ThrowIf(otherFails, "labels")
      BY <3>3, <3>4
    <3> HIDE DEF list, listFails, otherFails
    <3> QED
      BY <1>6, <3>1, <3>2, <3>5, <3>6
  <2>2. \E o : Stored(o)
    BY <1>6, FilterFacts
  <2> QED
    BY <1>1, <2>1, <2>2
<1>7. CASE LoadLabels
  <2> DEFINE failed == Section.labels # NULL /\ Bad \in ToSet(Section.labels)
  <2>1. InSection /\ ThrowIf(failed, "object")
    BY <1>7 DEF LoadLabels, InSection
  <2>2. \E o : Stored(o)
    BY <1>7, LabelsFacts
  <2>3. failed \in BOOLEAN
    OBVIOUS
  <2> HIDE DEF failed
  <2> QED
    BY <1>1, <2>1, <2>2, <2>3
<1> QED
  BY <1>2, <1>3, <1>4, <1>5, <1>6, <1>7

\* The object that a named or unnamed section adds.
LEMMA AddFacts ==
    ASSUME IInv, AddObject
    PROVE  LET name == IF NextName = NULL THEN Generated[Back + 1] ELSE NextName
           IN  /\ pc = "object" /\ pc' = "ip" /\ section' = section + 1
               /\ file' = file /\ ret' = ret
               /\ section < Len(file.exporters)
               /\ NextName \in {NULL} \cup Texts
               /\ config' \in ConfigType
               /\ config'.portMin = config.portMin /\ config'.portMax = config.portMax
               /\ config'.collector = config.collector
               /\ Len(config'.objects) = Back + 1
               /\ \A i \in 1 .. Back : config'.objects[i] = config.objects[i]
               /\ config'.objects[Back + 1] = EmptyObject(name)
<1> DEFINE name == IF NextName = NULL THEN Generated[Back + 1] ELSE NextName
           new == EmptyObject(name)
<1>1. /\ pc = "object" /\ pc' = "ip" /\ section' = section + 1
      /\ file' = file /\ ret' = ret
      /\ section < Len(file.exporters) /\ NextName # Bad
      /\ config' = [config EXCEPT !.objects = Append(@, new)]
  BY DEF AddObject, More
<1>2. /\ section \in Nat /\ Len(file.exporters) \in Nat
      /\ \A j \in 1 .. Len(file.exporters) : file.exporters[j] \in SectionType
      /\ config \in ConfigType /\ config.objects \in Seq(ObjectType)
      /\ Back \in Nat /\ Back = Len(config.objects)
  BY <1>1, SectionFacts DEF Back
<1>3. NextName \in {NULL} \cup Texts
  <2>1. section + 1 \in 1 .. Len(file.exporters)
    BY <1>1, <1>2
  <2> QED
    BY <1>1, <1>2, <2>1 DEF NextName, SectionType, Value
<1> HIDE DEF new
<1>4. /\ Len(Append(config.objects, new)) = Back + 1
      /\ \A i \in 1 .. Back : Append(config.objects, new)[i] = config.objects[i]
      /\ Append(config.objects, new)[Back + 1] = new
      /\ new \in ObjectType => Append(config.objects, new) \in Seq(ObjectType)
  BY <1>2, AppendProperties
<1>5. /\ config'.objects = Append(config.objects, new)
      /\ config'.portMin = config.portMin /\ config'.portMax = config.portMax
      /\ config'.collector = config.collector
      /\ new \in ObjectType => config' \in ConfigType
  BY <1>1, <1>2, <1>4 DEF ConfigType
<1>6. new \in ObjectType
  <2>1. file \in Files \ {Missing, Unparsable} /\ Back <= section
    BY <1>1 DEF IInv, LoadInv
  <2>2. Len(file.exporters) <= Len(Generated) /\ Generated \in Seq(Texts)
    BY <2>1, LoadAssumption
  <2>3. Back + 1 \in 1 .. Len(Generated)
    BY <1>1, <1>2, <2>1, <2>2, LenProperties
  <2>4. name \in Texts
    BY <1>3, <2>2, <2>3, ElementOfSeq
  <2>5. [filterMode |-> "0", varList |-> <<>>, labelList |-> <<>>] \in CollectorType
    BY DEF CollectorType, FilterModes
  <2> QED
    BY <2>4, <2>5 DEF new, EmptyObject, ObjectType
<1> QED
  BY <1>1, <1>3, <1>4, <1>5, <1>6 DEF new

\* Every step keeps the invariant.
LEMMA InvNext == IInv /\ [Next]_vars => IInv'
<1> SUFFICES ASSUME IInv, [Next]_vars PROVE IInv'
  OBVIOUS
<1>1. CASE SrtExpInit
  <2>1. /\ config' = DefaultConfig /\ file' \in Files /\ pc = "idle"
        /\ ret' \in Outcomes /\ pc' \in PcValues
        /\ \/ pc' = "idle" /\ ret' # "SUCCESS" /\ section' = section
           \/ /\ file' \notin {Missing, Unparsable} /\ section' = 0
              /\ \/ pc' = "object"
                 \/ pc' = "ip" /\ file'.global # NULL
    BY <1>1 DEF SrtExpInit, Outcomes, PcValues, IInv, TypeOK
  <2>2. TypeOK'
    BY <2>1, DefaultConfigFacts DEF IInv, TypeOK
  <2>3. Len(config'.objects) = 0
    BY <2>1, DefaultConfigFacts
  <2>4. CASE pc' = "idle" /\ ret' # "SUCCESS"
    BY <2>2, <2>4 DEF IInv, LoadInv, InSection, Loaded
  <2>5. CASE /\ file' \notin {Missing, Unparsable} /\ section' = 0
             /\ \/ pc' = "object"
                \/ pc' = "ip" /\ file'.global # NULL
    <3>1. file' \in FileType
      BY <2>1, <2>5, LoadAssumption
    <3>2. Len(file'.exporters) \in Nat
      BY <3>1, LenProperties DEF FileType
    <3>3. section' \in 0 .. Len(file'.exporters)
      BY <2>5, <3>2
    <3> QED
      BY <2>1, <2>2, <2>3, <2>5, <3>3 DEF IInv, LoadInv, InSection, Back
  <2> QED
    BY <2>1, <2>4, <2>5
<1>2. CASE \/ LoadIp \/ LoadGlobalPorts \/ LoadObjectPort \/ LoadCollectorMode
           \/ KeepFilter \/ LoadListFilter \/ LoadPresetFilter \/ LoadOtherFilter
           \/ LoadLabels
  BY <1>2, StatementFacts, StatementInv
<1>3. CASE LoadBadName
  BY <1>3 DEF LoadBadName, More, ThrowIf, IInv, TypeOK, LoadInv, InSection, Loaded,
              PcValues, Outcomes, Back
<1>4. CASE SkipKnownName
  <2>1. /\ pc = "object" /\ section < Len(file.exporters) /\ section' = section + 1
        /\ pc' = pc /\ file' = file /\ config' = config /\ ret' = ret
    BY <1>4 DEF SkipKnownName, More
  <2>2. Len(file.exporters) \in Nat /\ section \in Nat /\ Back \in 0 .. section
        /\ file \in Files \ {Missing, Unparsable}
    BY <2>1, SectionFacts DEF IInv, LoadInv
  <2>3. section' \in 0 .. Len(file'.exporters) /\ section' \in Nat /\ Len(config'.objects) <= section'
    BY <2>1, <2>2 DEF Back
  <2>4. TypeOK'
    BY <2>1, <2>3 DEF IInv, TypeOK
  <2> QED
    BY <2>1, <2>2, <2>3, <2>4 DEF IInv, LoadInv, InSection, Back
<1>5. CASE AddObject
  <2>1. /\ pc = "object" /\ pc' = "ip" /\ section' = section + 1
        /\ file' = file /\ ret' = ret /\ section < Len(file.exporters)
        /\ config' \in ConfigType
        /\ config'.portMin = config.portMin /\ config'.portMax = config.portMax
        /\ Len(config'.objects) = Back + 1
    BY <1>5, AddFacts
  <2>2. Len(file.exporters) \in Nat /\ section \in Nat /\ Back \in 0 .. section
        /\ file \in Files \ {Missing, Unparsable}
    BY <2>1, SectionFacts DEF IInv, LoadInv
  <2>3. section' \in 1 .. Len(file'.exporters) /\ section' \in Nat
        /\ Len(config'.objects) <= section' /\ Len(config'.objects) # 0
    BY <2>1, <2>2
  <2>4. config'.objects # <<>>
    BY <2>3
  <2>5. TypeOK'
    BY <2>1, <2>3 DEF IInv, TypeOK, PcValues
  <2> QED
    BY <2>1, <2>2, <2>3, <2>4, <2>5 DEF IInv, LoadInv, InSection, Back
<1>6. CASE LoadDone
  BY <1>6 DEF LoadDone, IInv, TypeOK, LoadInv, InSection, Loaded, PcValues, Outcomes, Back
<1>7. CASE UNCHANGED vars
  BY <1>7 DEF vars, IInv, TypeOK, LoadInv, InSection, Loaded, Back
<1> QED
  BY <1>1, <1>2, <1>3, <1>4, <1>5, <1>6, <1>7 DEF Next

\* A load, at every statement of any file, has a section or an object to work on, and
\* no more objects than sections.
THEOREM InvariantHolds == Spec => []IInv
<1> QED
  BY InvInit, InvNext, PTL DEF Spec

\* The configuration is well typed at every statement, whatever was thrown, and its
\* range of ports is never empty, which the search for a port relies on.
THEOREM TypeCorrect == Spec => []TypeOK
<1>1. IInv => TypeOK
  BY DEF IInv
<1> QED
  BY <1>1, InvariantHolds, PTL

-----------------------------------------------------------------------------
(* The names                                                               *)

\* A name is known when an object has it.
LEMMA KnownIs ==
    ASSUME NEW S, NEW list \in Seq(S), NEW n
    PROVE  FirstOf(list, n) # 0 <=> \E i \in 1 .. Len(list) : list[i].name = n
<1> DEFINE k == FirstOf(list, n)
<1>1. /\ k \in 0 .. Len(list)
      /\ k = 0 => \A j \in 1 .. Len(list) : list[j].name # n
      /\ k # 0 => list[k].name = n
  BY FirstNamed
<1>2. Len(list) \in Nat
  BY LenProperties
<1> HIDE DEF k
<1>3. k # 0 <=> \E i \in 1 .. Len(list) : list[i].name = n
  BY <1>1, <1>2
<1> QED
  BY <1>3 DEF k

\* What a statement of a section leaves in its target, o being the target after it:
\* the address, the port and the labels of an object agree with the section from the
\* statement that loads them on, and so does the filter of any collector.
Agrees(o, next) ==
    LET s == file.exporters[section]
    IN  /\ next # "ip"
        /\ PartlyFiltered(Section, o.collector, next)
        /\ section > 0 =>
              /\ o.name = Target.name
              /\ o.ip = s.ip
              /\ o.port = IF next = "port" THEN 0 ELSE Or(s.port, 0)
              /\ o.collector.labelList = IF next = "object" THEN Or(s.labels, <<>>) ELSE <<>>

\* A statement of a section that does not throw keeps the names, and what is known of
\* every object.
LEMMA StatementNames ==
    ASSUME IInv, NamesInv, InSection, NEW o, Stored(o),
           NEW next \in PcValues, next # "idle", pc' = next,
           file' = file, section' = section, ret' = ret, Agrees(o, next)
    PROVE  NamesInv'
<1>1. /\ section \in Nat /\ Back \in 0 .. section /\ config.objects \in Seq(ObjectType)
      /\ section > 0 => Back \in 1 .. Back
      /\ Back = Len(config.objects) /\ pc # "idle" /\ ~ Loaded'
  BY SectionFacts DEF InSection, Back, Loaded
<1>2. /\ Len(config'.objects) = Back /\ config'.objects \in Seq(ObjectType)
      /\ \A i \in 1 .. Back :
            config'.objects[i] = IF section > 0 /\ i = Back THEN o ELSE config.objects[i]
  BY DEF Stored
<1>3. /\ \A j \in 1 .. section :
            LET n == file.exporters[j].name
            IN  n # Bad /\ (n # NULL => FirstOf(config.objects, n) # 0)
      /\ \A i \in 1 .. Back : \E j \in 1 .. section : Made(i, j)
      /\ GlobalMade
  BY <1>1 DEF NamesInv, Known
<1>4. Back' = Back
  BY <1>2 DEF Back
<1>5. section > 0 => o.name = config.objects[Back].name
  BY <1>1 DEF Agrees, Target
<1>6. \A i \in 1 .. Back : config'.objects[i].name = config.objects[i].name
  BY <1>1, <1>2, <1>5
<1>7. \A n : FirstOf(config'.objects, n) # 0 <=> FirstOf(config.objects, n) # 0
  <2> TAKE n
  <2>1. FirstOf(config'.objects, n) # 0 <=>
           \E i \in 1 .. Len(config'.objects) : config'.objects[i].name = n
    BY <1>2, KnownIs
  <2>2. FirstOf(config.objects, n) # 0 <=>
           \E i \in 1 .. Len(config.objects) : config.objects[i].name = n
    BY <1>1, KnownIs
  <2> QED
    BY <1>1, <1>2, <1>6, <2>1, <2>2
<1>8. ASSUME NEW i \in 1 .. Back
      PROVE  \E j \in 1 .. section : Made(i, j)'
  <2>1. PICK j \in 1 .. section : Made(i, j)
    BY <1>3
  <2> DEFINE s == file.exporters[j]
  <2>2. /\ s.name = NULL => config'.objects[i].name = Generated[i]
        /\ s.name # NULL => config'.objects[i].name = s.name
                            /\ FirstOf(file.exporters, s.name) = j
    BY <1>6, <2>1 DEF Made, SectionOf
  <2>3. CASE i # Back
    <3>1. FullyDescribes(s, config.objects[i]) /\ config'.objects[i] = config.objects[i]
      BY <1>2, <2>1, <2>3 DEF Made
    <3>2. FullyDescribes(s, config'.objects[i])
      BY <3>1
    <3> QED
      BY <1>4, <2>2, <2>3, <3>2 DEF Made, SectionOf, FullyDescribes, Describes
  <2>4. CASE i = Back
    <3>1. j = section /\ section > 0 /\ config'.objects[i] = o
      BY <1>1, <1>2, <2>1, <2>4 DEF Made
    <3>2. /\ next # "ip" /\ o.ip = s.ip
          /\ o.port = IF next = "port" THEN 0 ELSE Or(s.port, 0)
          /\ o.collector.labelList = IF next = "object" THEN Or(s.labels, <<>>) ELSE <<>>
          /\ PartlyFiltered(s, o.collector, next)
      BY <1>1, <3>1 DEF Agrees, Section
    <3>3. CASE next = "object"
      <4>1. ~ InSection' /\ FullyDescribes(s, o)
        BY <3>2, <3>3 DEF InSection, FullyDescribes, Describes, PartlyFiltered
      <4>2. FullyDescribes(s, config'.objects[i])
        BY <3>1, <4>1
      <4> QED
        BY <2>2, <4>1, <4>2 DEF Made, SectionOf, FullyDescribes, Describes
    <3>4. CASE next # "object"
      <4>1. /\ InSection' /\ i = Back'
            /\ (PartlyDescribes(file.exporters[j], config.objects[i]))'
        BY <1>4, <2>4, <3>1, <3>2, <3>4 DEF InSection, PartlyDescribes, PartlyFiltered
      <4> QED
        BY <2>2, <3>1, <4>1 DEF Made, SectionOf
    <3> QED
      BY <3>3, <3>4
  <2> QED
    BY <2>3, <2>4
<1>9. (\A j \in 1 .. section :
         LET n == file.exporters[j].name
         IN  n # Bad /\ (n # NULL => Known(n)))'
  BY <1>3, <1>7 DEF Known
<1>10. (\A i \in 1 .. Back : \E j \in 1 .. section : Made(i, j))'
  BY <1>4, <1>8
<1>11. GlobalMade'
  <2> SUFFICES ASSUME file.global # NULL PROVE GlobalMade'
    BY DEF GlobalMade
  <2>1. CASE section = 0
    <3>1. config'.collector = o.collector /\ Section = file.global
      BY <2>1 DEF Stored, Section
    <3>2. PartlyFiltered(file.global, o.collector, next)
      BY <3>1 DEF Agrees
    <3>3. InSection' \/ next = "object"
      BY DEF InSection
    <3> QED
      BY <2>1, <3>1, <3>2, <3>3 DEF GlobalMade, PartlyFiltered
  <2>2. CASE section # 0
    <3>1. config'.collector = config.collector
      BY <2>2 DEF Stored
    <3> QED
      BY <1>3, <2>2, <3>1 DEF GlobalMade, PartlyFiltered
  <2> QED
    BY <2>1, <2>2
<1> QED
  BY <1>1, <1>9, <1>10, <1>11 DEF NamesInv

\* Half-way through a section, the last object has what the statements so far load.
LEMMA PartlyLoaded ==
    ASSUME IInv, NamesInv, InSection, section > 0
    PROVE  /\ Section = file.exporters[section] /\ Section \in SectionType
           /\ Target \in ObjectType
           /\ PartlyDescribes(Section, Target)
<1>1. /\ pc # "idle" /\ section # 0 /\ Back \in 1 .. Back
      /\ Section \in SectionType /\ Target \in ObjectType
  BY SectionFacts DEF InSection
<1>2. Section = file.exporters[section] /\ Target = config.objects[Back]
  BY <1>1 DEF Section, Target
<1>3. PICK j \in 1 .. section : Made(Back, j)
  BY <1>1 DEF NamesInv
<1>4. j = section /\ PartlyDescribes(file.exporters[j], config.objects[Back])
  BY <1>3 DEF Made
<1> QED
  BY <1>1, <1>2, <1>4

\* So has the collector of any section.
LEMMA PartlyFilteredSoFar ==
    ASSUME IInv, NamesInv, InSection
    PROVE  PartlyFiltered(Section, Collector, pc)
<1>1. section \in Nat /\ pc # "idle"
  BY DEF IInv, TypeOK, InSection
<1>2. CASE section = 0
  <2>1. Section = file.global /\ Collector = config.collector /\ file.global # NULL
    BY <1>2 DEF Section, Collector, Target, IInv, LoadInv
  <2> QED
    BY <1>1, <1>2, <2>1 DEF NamesInv, GlobalMade
<1>3. CASE section > 0
  BY <1>3, PartlyLoaded DEF PartlyDescribes, Collector
<1> QED
  BY <1>1, <1>2, <1>3

\* A statement that does not throw loads the value its section has.
LEMMA StatementAgrees ==
    ASSUME IInv, NamesInv, pc' # "idle",
           \/ LoadIp \/ LoadGlobalPorts \/ LoadObjectPort \/ LoadCollectorMode
           \/ KeepFilter \/ LoadListFilter \/ LoadPresetFilter \/ LoadOtherFilter
           \/ LoadLabels
    PROVE  /\ InSection /\ file' = file /\ section' = section /\ ret' = ret
           /\ pc' \in PcValues
           /\ \E o : Stored(o) /\ Agrees(o, pc')
<1>1. ASSUME NEW failed, NEW next \in PcValues, ThrowIf(failed, next)
      PROVE  /\ ~ failed /\ pc' = next /\ pc' \in PcValues
             /\ file' = file /\ section' = section /\ ret' = ret
  BY <1>1 DEF ThrowIf
<1>2. /\ "port" \in PcValues /\ "mode" \in PcValues /\ "filter" \in PcValues
      /\ "labels" \in PcValues /\ "object" \in PcValues
  BY DEF PcValues
<1>3. InSection /\ section > 0 =>
        /\ Section = file.exporters[section] /\ Section \in SectionType
        /\ Target \in ObjectType /\ Collector = Target.collector
        /\ Target.ip = IF pc = "ip" THEN NULL ELSE Section.ip
        /\ Target.port = IF pc \in {"ip", "port"} THEN 0 ELSE Or(Section.port, 0)
        /\ Target.collector.labelList = <<>>
  BY PartlyLoaded DEF PartlyDescribes, Collector
<1>f. InSection => PartlyFiltered(Section, Collector, pc) /\ section \in Nat
  BY PartlyFilteredSoFar DEF IInv, TypeOK
<1>c. /\ Collector = Target.collector
      /\ InSection => /\ Collector \in CollectorType
                      /\ section = 0 => Target = config /\ config \in ConfigType
                      /\ section > 0 => Target \in ObjectType
  BY SectionFacts DEF Collector, InSection
<1>4. CASE LoadIp
  <2> DEFINE o == IF Section.ip \in {NULL, Bad} THEN Target
                  ELSE [Target EXCEPT !.ip = Section.ip]
  <2>1. InSection /\ pc = "ip" /\ ThrowIf(Section.ip = Bad, "port") /\ Stored(o)
    BY <1>4, IpFacts DEF LoadIp, InSection
  <2>2. /\ Section.ip # Bad /\ pc' = "port" /\ pc' \in PcValues
        /\ file' = file /\ section' = section /\ ret' = ret
    BY <1>1, <1>2, <2>1
  <2>3. o.collector = Collector
    BY <1>c, <2>1 DEF ObjectType, ConfigType
  <2>4. PartlyFiltered(Section, o.collector, pc')
    BY <1>f, <2>1, <2>2, <2>3 DEF PartlyFiltered
  <2>5. section > 0 => /\ o.name = Target.name /\ o.ip = Section.ip
                       /\ o.port = 0 /\ o.collector.labelList = <<>>
    BY <1>3, <2>1, <2>2 DEF ObjectType
  <2> HIDE DEF o
  <2>6. Agrees(o, pc')
    BY <1>3, <2>1, <2>2, <2>4, <2>5 DEF Agrees
  <2> QED
    BY <2>1, <2>2, <2>6
<1>5. CASE LoadGlobalPorts
  <2>1. InSection /\ pc = "port" /\ section = 0 /\ pc' = "mode" /\ Stored(Target)
        /\ file' = file /\ section' = section /\ ret' = ret
    BY <1>5, PortsFacts DEF LoadGlobalPorts, InSection, ThrowIf
  <2>2. Agrees(Target, pc')
    BY <1>c, <1>f, <2>1 DEF Agrees, PartlyFiltered
  <2> QED
    BY <1>2, <2>1, <2>2
<1>6. CASE LoadObjectPort
  <2> DEFINE o == [Target EXCEPT
                      !.port = IF Section.port = NULL THEN @ ELSE Section.port,
                      !.collector = LoadDefaultSrtExpCollectorConfig]
  <2>1. InSection /\ pc = "port" /\ section > 0 /\ ThrowIf(Section.port = Bad, "mode")
    BY <1>6 DEF LoadObjectPort, InSection
  <2>2. /\ Section.port # Bad /\ pc' = "mode" /\ pc' \in PcValues
        /\ file' = file /\ section' = section /\ ret' = ret
    BY <1>1, <1>2, <2>1
  <2>3. Stored(o)
    BY <1>6, <2>2, PortFacts
  <2>5. o.collector = LoadDefaultSrtExpCollectorConfig
    BY <1>c, <2>1 DEF ObjectType
  <2>6. PartlyFiltered(Section, o.collector, pc')
    BY <2>2, <2>5 DEF PartlyFiltered
  <2>7. /\ o.name = Target.name /\ o.ip = Section.ip
        /\ o.port = Or(Section.port, 0) /\ o.collector.labelList = <<>>
    BY <1>3, <2>1, <2>2, <2>5, DefaultCollector DEF ObjectType, Or
  <2> HIDE DEF o
  <2>4. Agrees(o, pc')
    BY <1>3, <2>1, <2>2, <2>6, <2>7 DEF Agrees
  <2> QED
    BY <2>1, <2>2, <2>3, <2>4
<1>7. CASE LoadCollectorMode
  <2>1. InSection /\ pc = "mode" /\ pc' = "filter" /\ config' = config
        /\ file' = file /\ section' = section /\ ret' = ret
    BY <1>7 DEF LoadCollectorMode, InSection, ThrowIf
  <2>2. Stored(Target)
    BY <2>1, KeptFacts
  <2>3. Agrees(Target, pc')
    BY <1>3, <1>c, <1>f, <2>1 DEF Agrees, PartlyFiltered
  <2> QED
    BY <1>2, <2>1, <2>2, <2>3
<1>8. CASE KeepFilter \/ LoadListFilter \/ LoadPresetFilter \/ LoadOtherFilter
  <2>1. InSection /\ pc = "filter" /\ pc' = "labels"
        /\ file' = file /\ section' = section /\ ret' = ret
    BY <1>8 DEF KeepFilter, LoadListFilter, LoadPresetFilter, LoadOtherFilter,
                AtFilter, InSection, ThrowIf
  <2>2. PICK c \in CollectorType :
              /\ c.labelList = Collector.labelList
              /\ Collector = LoadDefaultSrtExpCollectorConfig /\ pc' # "idle"
                    => FilterSet(c, Section.filter)
              /\ Stored([Target EXCEPT !.collector = c])
    BY <1>8, FilterFacts
  <2> DEFINE o == [Target EXCEPT !.collector = c]
  <2>4. o.collector = c
    BY <1>c, <1>f, <2>1 DEF ObjectType, ConfigType
  <2>5. Collector = LoadDefaultSrtExpCollectorConfig
    BY <1>f, <2>1 DEF PartlyFiltered
  <2>6. PartlyFiltered(Section, o.collector, pc')
    BY <2>1, <2>2, <2>4, <2>5 DEF PartlyFiltered
  <2>7. section > 0 => /\ o.name = Target.name /\ o.ip = Section.ip
                       /\ o.port = Or(Section.port, 0) /\ o.collector.labelList = <<>>
    BY <1>3, <2>1, <2>2, <2>4 DEF ObjectType
  <2>3. Agrees(o, pc')
    <3> HIDE DEF o
    <3> QED
      BY <1>3, <2>1, <2>6, <2>7 DEF Agrees
  <2> QED
    BY <1>2, <2>1, <2>2, <2>3
<1>9. CASE LoadLabels
  <2> DEFINE labels == Section.labels
             o == IF labels = NULL THEN Target
                  ELSE [Target EXCEPT !.collector =
                          [Collector EXCEPT !.labelList = Converted(labels)]]
  <2>1. InSection /\ pc = "labels" /\ Stored(o)
        /\ ThrowIf(labels # NULL /\ Bad \in ToSet(labels), "object")
    BY <1>9, LabelsFacts DEF LoadLabels, InSection
  <2>2. /\ ~ (labels # NULL /\ Bad \in ToSet(labels))
        /\ pc' = "object" /\ pc' \in PcValues
        /\ file' = file /\ section' = section /\ ret' = ret
    BY <1>1, <1>2, <2>1
  <2>3. section > 0 /\ labels # NULL => Converted(labels) = labels
    <3>1. section > 0 /\ labels # NULL => labels \in Seq({Bad} \cup Texts)
      BY <1>3, <2>1 DEF SectionType, Values
    <3> QED
      BY <2>2, <3>1, ConvertedFacts
  <2>5. FilterSet(Collector, Section.filter)
    BY <1>f, <2>1 DEF PartlyFiltered
  <2>6. /\ o.collector.filterMode = Collector.filterMode
        /\ o.collector.varList = Collector.varList
    BY <1>c, <1>f, <2>1 DEF ObjectType, ConfigType, CollectorType
  <2>7. PartlyFiltered(Section, o.collector, pc')
    BY <2>2, <2>5, <2>6 DEF PartlyFiltered, FilterSet
  <2>8. section > 0 => /\ o.name = Target.name /\ o.ip = Section.ip
                       /\ o.port = Or(Section.port, 0)
                       /\ o.collector.labelList = Or(Section.labels, <<>>)
    <3>1. CASE labels = NULL
      BY <1>3, <2>1, <3>1 DEF Or
    <3>2. CASE labels # NULL
      BY <1>3, <1>c, <2>1, <2>3, <3>2 DEF Or, ObjectType, CollectorType
    <3> QED
      BY <3>1, <3>2
  <2>4. Agrees(o, pc')
    <3> HIDE DEF o
    <3> QED
      BY <1>3, <2>1, <2>2, <2>7, <2>8 DEF Agrees
  <2> QED
    BY <2>1, <2>2, <2>4
<1> QED
  BY <1>4, <1>5, <1>6, <1>7, <1>8, <1>9

\* A new object is made of the section that adds it, which is the first of its name.
LEMMA AddNames ==
    ASSUME IInv, NamesInv, AddObject
    PROVE  NamesInv'
<1>0. PICK back, next, name :
         /\ back = Back + 1 /\ next = section + 1
         /\ name = IF NextName = NULL THEN Generated[Back + 1] ELSE NextName
  OBVIOUS
<1> DEFINE s == file.exporters[next]
<1>1. /\ pc = "object" /\ pc' = "ip" /\ section' = next
      /\ file' = file /\ ret' = ret
      /\ Len(config'.objects) = back
      /\ \A i \in 1 .. Back : config'.objects[i] = config.objects[i]
      /\ config'.objects[back] = EmptyObject(name)
      /\ config' \in ConfigType /\ config'.collector = config.collector
      /\ section < Len(file.exporters)
  BY <1>0, AddFacts
<1>2. /\ section \in Nat /\ Back \in 0 .. section /\ Back = Len(config.objects)
      /\ config.objects \in Seq(ObjectType) /\ config'.objects \in Seq(ObjectType)
      /\ file.exporters \in Seq(SectionType) /\ Len(file.exporters) \in Nat
      /\ next \in 1 .. Len(file.exporters) /\ next = section + 1 /\ back = Back + 1
  BY <1>0, <1>1, SectionFacts DEF Back, ConfigType, FileType
<1>3. /\ \A j \in 1 .. section :
            LET n == file.exporters[j].name
            IN  n # Bad /\ (n # NULL => FirstOf(config.objects, n) # 0)
      /\ \A i \in 1 .. Back : \E j \in 1 .. section : Made(i, j)
      /\ GlobalMade
  BY <1>1 DEF NamesInv, Known
<1>4. /\ NextName = s.name /\ s.name # Bad
      /\ s.name # NULL => FirstOf(config.objects, s.name) = 0 /\ name = s.name
  BY <1>0 DEF AddObject, NextName, Known
<1>5. Back' = back /\ InSection' /\ ~ Loaded' /\ ~ InSection
  BY <1>1 DEF Back, InSection, Loaded
<1>6. \A n : FirstOf(config.objects, n) # 0 \/ n = name => FirstOf(config'.objects, n) # 0
  <2> TAKE n
  <2>1. FirstOf(config'.objects, n) # 0 <=>
           \E i \in 1 .. Len(config'.objects) : config'.objects[i].name = n
    BY <1>2, KnownIs
  <2>2. FirstOf(config.objects, n) # 0 <=>
           \E i \in 1 .. Len(config.objects) : config.objects[i].name = n
    BY <1>2, KnownIs
  <2>3. config'.objects[back].name = name /\ back \in 1 .. Len(config'.objects)
    BY <1>1, <1>2 DEF EmptyObject
  <2>4. ASSUME NEW i \in 1 .. Len(config.objects)
        PROVE  i \in 1 .. Len(config'.objects) /\ config'.objects[i] = config.objects[i]
    BY <1>1, <1>2
  <2> QED
    BY <2>1, <2>2, <2>3, <2>4
<1>7. \A j \in 1 .. next :
         LET n == file.exporters[j].name
         IN  n # Bad /\ (n # NULL => FirstOf(config'.objects, n) # 0)
  <2> TAKE j \in 1 .. next
  <2>1. CASE j \in 1 .. section
    BY <1>3, <1>6, <2>1
  <2>2. CASE j = next
    BY <1>4, <1>6, <2>2
  <2> QED
    BY <1>2, <2>1, <2>2
<1>8. s.name # NULL => FirstOf(file.exporters, s.name) = next
  <2> SUFFICES ASSUME s.name # NULL PROVE FirstOf(file.exporters, s.name) = next
    OBVIOUS
  <2>1. \A j \in 1 .. next - 1 : file.exporters[j].name # s.name
    BY <1>2, <1>3, <1>4
  <2>2. next \in 0 .. Len(file.exporters) /\ next # 0
    BY <1>2
  <2> QED
    BY <1>2, <2>1, <2>2, FirstNamedIs
<1>9. Made(back, next)'
  <2>1. PICK o : o = EmptyObject(name)
    OBVIOUS
  <2>2. o.name = name /\ o.ip = NULL /\ o.port = 0 /\ o.collector.labelList = <<>>
    BY <2>1 DEF EmptyObject
  <2>3. /\ s.name = NULL => o.name = Generated[back]
        /\ s.name # NULL => o.name = s.name
    BY <1>0, <1>4, <2>2
  <2>4. config'.objects[back] = o /\ section' = next /\ file' = file /\ pc' = "ip"
    BY <1>1, <2>1
  <2>5. (PartlyDescribes(file.exporters[next], config.objects[back]))'
    BY <1>2, <2>2, <2>4 DEF PartlyDescribes, PartlyFiltered
  <2> QED
    BY <1>5, <1>8, <2>3, <2>4, <2>5 DEF Made, SectionOf
<1>10. ASSUME NEW i \in 1 .. Back
       PROVE  \E j \in 1 .. next : Made(i, j)'
  <2>1. PICK j \in 1 .. section : Made(i, j)
    BY <1>3
  <2>2. j \in 1 .. next /\ i # Back'
    BY <1>2, <1>5
  <2>3. /\ config'.objects[i] = config.objects[i]
        /\ FullyDescribes(file.exporters[j], config'.objects[i])
    BY <1>1, <1>5, <2>1 DEF Made
  <2>4. Made(i, j)'
    BY <1>1, <2>1, <2>2, <2>3 DEF Made, SectionOf, FullyDescribes, Describes
  <2> QED
    BY <2>2, <2>4
<1>11. \A i \in 1 .. back : \E j \in 1 .. next : Made(i, j)'
  <2>1. next \in 1 .. next /\ \A i \in 1 .. back : i \in 1 .. Back \/ i = back
    BY <1>2
  <2> QED
    BY <1>9, <1>10, <2>1
<1>12. (\A j \in 1 .. section :
         LET n == file.exporters[j].name
         IN  n # Bad /\ (n # NULL => Known(n)))'
  BY <1>1, <1>7 DEF Known
<1>13. (\A i \in 1 .. Back : \E j \in 1 .. section : Made(i, j))'
  BY <1>1, <1>5, <1>11
<1>14. GlobalMade'
  BY <1>1, <1>2, <1>3, <1>5 DEF GlobalMade, PartlyFiltered
<1> QED
  BY <1>5, <1>12, <1>13, <1>14 DEF NamesInv

\* Every step keeps what is known of the objects and their names.
LEMMA NamesNext == IInv /\ NamesInv /\ [Next]_vars => NamesInv'
<1> SUFFICES ASSUME IInv, NamesInv, [Next]_vars PROVE NamesInv'
  OBVIOUS
<1>1. CASE SrtExpInit
  <2>1. /\ config' = DefaultConfig
        /\ \/ pc' = "idle" /\ ret' # "SUCCESS"
           \/ section' = 0 /\ pc' \in {"object", "ip"}
    BY <1>1 DEF SrtExpInit
  <2>2. Len(config'.objects) = 0
    BY <2>1, DefaultConfigFacts
  <2>3. pc' # "idle" => GlobalMade'
    <3>1. /\ config'.collector = LoadDefaultSrtExpCollectorConfig
          /\ pc' # "idle" => /\ section' = 0
                             /\ pc' = IF file'.global = NULL THEN "object" ELSE "ip"
      BY <1>1 DEF SrtExpInit, DefaultConfig
    <3> QED
      BY <3>1 DEF GlobalMade, PartlyFiltered, InSection
  <2> QED
    BY <2>1, <2>2, <2>3 DEF NamesInv, Loaded, Back
<1>2. CASE \/ LoadIp \/ LoadGlobalPorts \/ LoadObjectPort \/ LoadCollectorMode
           \/ KeepFilter \/ LoadListFilter \/ LoadPresetFilter \/ LoadOtherFilter
           \/ LoadLabels
  <2>1. CASE pc' # "idle"
    BY <1>2, <2>1, StatementAgrees, StatementNames
  <2>2. CASE pc' = "idle"
    <3>1. PICK failed, next : next \in PcValues \ {"idle"} /\ ThrowIf(failed, next)
      BY <1>2, StatementFacts
    <3>2. ret' = "threw"
      BY <2>2, <3>1 DEF ThrowIf
    <3> QED
      BY <2>2, <3>2 DEF NamesInv, Loaded
  <2> QED
    BY <2>1, <2>2
<1>3. CASE LoadBadName
  BY <1>3 DEF LoadBadName, ThrowIf, NamesInv, Loaded
<1>4. CASE SkipKnownName
  <2>1. /\ pc = "object" /\ section < Len(file.exporters) /\ section' = section + 1
        /\ pc' = pc /\ file' = file /\ config' = config /\ ret' = ret
        /\ LET n == file.exporters[section + 1].name
           IN  n # Bad /\ (n # NULL => Known(n))
    BY <1>4 DEF SkipKnownName, More, NextName
  <2>2. section \in Nat
    BY DEF IInv, TypeOK
  <2>3. /\ \A j \in 1 .. section :
              LET n == file.exporters[j].name
              IN  n # Bad /\ (n # NULL => Known(n))
        /\ \A i \in 1 .. Back : \E j \in 1 .. section : Made(i, j)
        /\ GlobalMade
    BY <2>1 DEF NamesInv
  <2>4. (\A j \in 1 .. section :
            LET n == file.exporters[j].name
            IN  n # Bad /\ (n # NULL => Known(n)))'
    BY <2>1, <2>2, <2>3 DEF Known
  <2>5. \A i, j : Made(i, j) => Made(i, j)'
    BY <2>1 DEF Made, SectionOf, FullyDescribes, Describes, InSection, Back
  <2>8. GlobalMade'
    BY <2>1, <2>2, <2>3 DEF GlobalMade, PartlyFiltered, InSection
  <2>6. (\A i \in 1 .. Back : \E j \in 1 .. section : Made(i, j))'
    <3>1. \A j \in 1 .. section : j \in 1 .. section'
      BY <2>1, <2>2
    <3>2. Back' = Back
      BY <2>1 DEF Back
    <3> QED
      BY <2>3, <2>5, <3>1, <3>2
  <2>7. ~ Loaded'
    BY <2>1 DEF Loaded
  <2> QED
    BY <2>4, <2>6, <2>7, <2>8 DEF NamesInv
<1>5. CASE AddObject
  BY <1>5, AddNames
<1>6. CASE LoadDone
  <2>1. /\ pc = "object" /\ pc' = "idle" /\ section = Len(file.exporters)
        /\ file' = file /\ section' = section /\ config' = config
    BY <1>6 DEF LoadDone
  <2>2. \A i, j : Made(i, j) => Made(i, j)'
    BY <2>1 DEF Made, SectionOf, FullyDescribes, Describes, InSection, Back
  <2>3. GlobalMade => GlobalMade'
    BY <2>1 DEF GlobalMade, PartlyFiltered, InSection
  <2> QED
    BY <2>1, <2>2, <2>3 DEF NamesInv, Known, Back
<1>7. CASE UNCHANGED vars
  <2>1. \A i, j : Made(i, j) => Made(i, j)'
    BY <1>7 DEF vars, Made, SectionOf, FullyDescribes, Describes, PartlyDescribes,
                PartlyFiltered, InSection, Back
  <2>2. GlobalMade => GlobalMade'
    BY <1>7 DEF vars, GlobalMade, PartlyFiltered, InSection
  <2> QED
    BY <1>7, <2>1, <2>2 DEF vars, NamesInv, Loaded, Known, Back
<1> QED
  BY <1>1, <1>2, <1>3, <1>4, <1>5, <1>6, <1>7 DEF Next

\* What a lookup by a name of the file finds, after a load that succeeded.
LEMMA ObjectOfName ==
    ASSUME GeneratedApart, IInv, NamesInv, Loaded, NEW n \in FileNames
    PROVE  /\ Known(n)
           /\ SectionOf(n) \in DOMAIN file.exporters
           /\ FullyDescribes(file.exporters[SectionOf(n)], ObjectOf(n))
<1> DEFINE k == FirstOf(config.objects, n)
<1>1. /\ file \in Files \ {Missing, Unparsable} /\ section = Len(file.exporters)
      /\ Back <= section /\ config.objects \in Seq(ObjectType)
  BY DEF IInv, TypeOK, LoadInv, NamesInv, ConfigType
<1>2. /\ file.exporters \in Seq(SectionType) /\ section \in Nat
      /\ DOMAIN file.exporters = 1 .. section
  BY <1>1, LoadAssumption, LenProperties DEF FileType
<1>3. PICK m \in 1 .. section : file.exporters[m].name = n
  BY <1>2 DEF FileNames
<1>4. n # NULL /\ n # Bad
  BY DEF FileNames
<1>5. k # 0 /\ Known(n)
  BY <1>3, <1>4 DEF NamesInv, Known
<1>6. k \in 1 .. Len(config.objects) /\ config.objects[k].name = n
  <2>1. /\ k \in 0 .. Len(config.objects)
        /\ k # 0 => config.objects[k].name = n
    BY <1>1, FirstNamed
  <2> HIDE DEF k
  <2> QED
    BY <1>1, <1>5, <2>1, LenProperties
<1> HIDE DEF k
<1>7. k \in 1 .. Back /\ k \in 1 .. section
  BY <1>1, <1>2, <1>6, LenProperties DEF Back
<1>8. PICK j \in 1 .. section : Made(k, j)
  BY <1>7 DEF NamesInv
<1>9. file.exporters[j].name # NULL
  <2>1. n # Generated[k]
    BY <1>1, <1>2, <1>3, <1>7 DEF GeneratedApart
  <2> QED
    BY <1>6, <1>8, <2>1 DEF Made
<1>10. SectionOf(n) = j /\ FullyDescribes(file.exporters[j], config.objects[k])
  BY <1>6, <1>8, <1>9 DEF Made, InSection, Loaded
<1> QED
  BY <1>2, <1>5, <1>10 DEF ObjectOf, k

\* Before the first load there is nothing to know.
LEMMA NamesInit == Init => NamesInv /\ DoneInv
<1> SUFFICES ASSUME Init PROVE NamesInv /\ DoneInv
  OBVIOUS
<1>1. NamesInv
  BY DEF Init, NamesInv, Loaded
<1>2. Back = 0
  BY DefaultConfigFacts DEF Init, Back
<1> QED
  BY <1>1, <1>2 DEF DoneInv

\* When no name generated for an unnamed section is another section's, a lookup by a
\* name of the file finds, after a load that succeeded, the first section of that name.
THEOREM NamesFindTheirSections ==
    ASSUME GeneratedApart
    PROVE  Spec => []NameFindsItsSection
<1>1. Init => NamesInv
  BY NamesInit
<1>2. IInv /\ NamesInv => NameFindsItsSection
  BY ObjectOfName DEF NameFindsItsSection, FullyDescribes
<1> QED
  BY <1>1, <1>2, InvariantHolds, NamesNext, GeneratedApart, PTL DEF Spec

-----------------------------------------------------------------------------
(* The filters                                                             *)

\* The preset lists: variables of the table, none twice.
LEMMA PresetLists ==
    \A list \in {SrtSourceVarList, SrtDestinationVarList, SrtCommonVarList} :
        IsInjective(list) /\ ToSet(list) \subseteq VarNames
<1>1. VarNames = {DataMap[1].name, DataMap[2].name, DataMap[3].name, DataMap[4].name,
                  DataMap[5].name}
  <2>1. DOMAIN DataMap = 1 .. 5
    BY DEF DataMap
  <2>2. 1 .. 5 = {1, 2, 3, 4, 5}
    OBVIOUS
  <2> QED
    BY <2>1, <2>2 DEF VarNames
<1>2. {"pktSentTotal", "pktRecvTotal", "msRTT"} \subseteq VarNames
  BY <1>1 DEF DataMap
<1>3. ASSUME NEW a, NEW b, a # b, {a, b} \subseteq VarNames
      PROVE  IsInjective(<<a, b>>) /\ ToSet(<<a, b>>) \subseteq VarNames
  BY <1>3 DEF IsInjective, ToSet
<1>4. ASSUME NEW a, NEW b, NEW c, a # b, a # c, b # c, {a, b, c} \subseteq VarNames
      PROVE  IsInjective(<<a, b, c>>) /\ ToSet(<<a, b, c>>) \subseteq VarNames
  BY <1>4 DEF IsInjective, ToSet
<1> QED
  BY <1>2, <1>3, <1>4 DEF SrtSourceVarList, SrtDestinationVarList, SrtCommonVarList

\* A collector that has what a plain filter leaves exports what the filter means.
LEMMA PlainFilterExports ==
    ASSUME NEW c \in CollectorType, NEW f, PlainFilter(f), FilterSet(c, f)
    PROVE  Exports(c, f)
<1> DEFINE filtered == LoadFilterFromConfig(c)
           names == {filtered[i].name : i \in DOMAIN filtered}
           m == ModeOf(f)
<1>1. /\ NULL # Bad /\ m # Bad
      /\ \A x \in {NULL, Bad} : x \notin ListModes /\ x \notin PresetModes
      /\ ListModes = {"whitelist", "blacklist"}
      /\ PresetModes = {"srt_source", "srt_destination"}
  BY LoadAssumption DEF FilterSet, ListModes, PresetModes
<1>2. c.varList \in Seq(Texts)
  BY DEF CollectorType
<1>3. m \in {NULL, "whitelist", "blacklist", "srt_source", "srt_destination"}
  BY <1>1 DEF PlainFilter
<1>4. c.filterMode = "WHITELIST" =>
         /\ names = ToSet(c.varList) \cap VarNames
         /\ IsInjective(c.varList) => IsInjective(filtered)
  BY <1>2, WhitelistExports
<1> HIDE DEF filtered
<1> SUFFICES names = DocumentedVars(f) /\ IsInjective(filtered)
  BY DEF Exports, filtered
<1>5. CASE m = "whitelist"
  <2>1. /\ c.filterMode = "WHITELIST" /\ c.varList = Or(f.list, <<>>)
        /\ IsInjective(c.varList)
    BY <1>1, <1>5 DEF FilterSet, PlainFilter
  <2>2. DocumentedVars(f) = ToSet(c.varList) \cap VarNames
    BY <1>1, <1>5, <2>1 DEF DocumentedVars
  <2> QED
    BY <1>4, <2>1, <2>2
<1>6. CASE m = "blacklist"
  <2>1. /\ c.filterMode = "BLACKLIST" /\ c.varList = Or(f.list, <<>>) /\ Len(c.varList) = 1
    BY <1>1, <1>6 DEF FilterSet, PlainFilter
  <2>2. c.varList = <<c.varList[1]>>
    BY <1>2, <2>1
  <2>3. DocumentedVars(f) = VarNames \ ToSet(c.varList)
    BY <1>1, <1>6, <2>1 DEF DocumentedVars
  <2>4. ToSet(c.varList) = {c.varList[1]}
    BY <2>2, <2>1 DEF ToSet
  <2>5. names = VarNames \ {c.varList[1]} /\ IsInjective(filtered)
    BY <2>1, <2>2, BlacklistOfOneExports DEF filtered
  <2> QED
    BY <2>3, <2>4, <2>5
<1>7. CASE m \in {NULL, "srt_source", "srt_destination"}
  <2>1. /\ c.filterMode = "WHITELIST"
        /\ c.varList = IF m = NULL THEN SrtCommonVarList
                       ELSE IF m = "srt_source" THEN SrtSourceVarList
                            ELSE SrtDestinationVarList
    BY <1>1, <1>7 DEF FilterSet
  <2>2. DocumentedVars(f) = ToSet(c.varList)
    BY <1>1, <1>7, <2>1 DEF DocumentedVars
  <2>3. IsInjective(c.varList) /\ ToSet(c.varList) \subseteq VarNames
    BY <2>1, PresetLists
  <2> QED
    BY <1>4, <2>1, <2>2, <2>3
<1> QED
  BY <1>3, <1>5, <1>6, <1>7

\* When the filters are plain and the generated names apart, an exporter that a load
\* sets up, and the global collector, export the variables documented for the filter
\* of their section, each of them once.
THEOREM FiltersExportAsDocumented ==
    ASSUME GeneratedApart, PlainFilters
    PROVE  Spec => []ExportsAsDocumented
<1>1. Init => NamesInv
  BY NamesInit
<1>2. IInv /\ NamesInv => ExportsAsDocumented
  <2> SUFFICES ASSUME IInv, NamesInv, Loaded
               PROVE  /\ file.global # NULL => Exports(config.collector, file.global.filter)
                      /\ \A n \in FileNames :
                            Exports(ObjectOf(n).collector, file.exporters[SectionOf(n)].filter)
    BY DEF ExportsAsDocumented
  <2>1. /\ file \in Files \ {Missing, Unparsable} /\ config \in ConfigType
        /\ config.collector \in CollectorType /\ config.objects \in Seq(ObjectType)
    BY DEF IInv, TypeOK, LoadInv, ConfigType
  <2>2. ASSUME file.global # NULL
        PROVE  Exports(config.collector, file.global.filter)
    <3>1. FilterSet(config.collector, file.global.filter)
      BY <2>2 DEF NamesInv, GlobalMade, PartlyFiltered, Loaded, InSection
    <3>2. PlainFilter(file.global.filter)
      BY <2>1, <2>2 DEF PlainFilters
    <3> QED
      BY <2>1, <3>1, <3>2, PlainFilterExports
  <2>3. ASSUME NEW n \in FileNames
        PROVE  Exports(ObjectOf(n).collector, file.exporters[SectionOf(n)].filter)
    <3> DEFINE k == FirstOf(config.objects, n)
               s == file.exporters[SectionOf(n)]
    <3>1. Known(n) /\ SectionOf(n) \in DOMAIN file.exporters /\ FullyDescribes(s, ObjectOf(n))
      BY ObjectOfName
    <3>2. k \in 1 .. Len(config.objects)
      <4>1. k \in 0 .. Len(config.objects) /\ k # 0
        BY <2>1, <3>1, FirstNamed DEF Known
      <4> HIDE DEF k
      <4> QED
        BY <2>1, <4>1, LenProperties
    <3>3. ObjectOf(n) \in ObjectType
      BY <2>1, <3>2, ElementOfSeq DEF ObjectOf
    <3>4. ObjectOf(n).collector \in CollectorType
      BY <3>3 DEF ObjectType
    <3>5. PlainFilter(s.filter)
      BY <2>1, <3>1 DEF PlainFilters
    <3> QED
      BY <3>1, <3>4, <3>5, PlainFilterExports DEF FullyDescribes
  <2> QED
    BY <2>2, <2>3
<1> QED
  BY <1>1, <1>2, InvariantHolds, NamesNext, GeneratedApart, PlainFilters, PTL DEF Spec

-----------------------------------------------------------------------------
(* What an exception leaves                                                *)

\* An object but the last is out of the reach of every statement that follows.
LEMMA DoneNext == IInv /\ NamesInv /\ DoneInv /\ [Next]_vars => DoneInv'
<1> SUFFICES ASSUME IInv, NamesInv, DoneInv, [Next]_vars PROVE DoneInv'
  OBVIOUS
<1> DEFINE Done(i, j) ==
             /\ j \in DOMAIN file.exporters
             /\ config.objects[i].name \in {file.exporters[j].name, Generated[i]}
             /\ FullyDescribes(file.exporters[j], config.objects[i])
<1>1. /\ section \in Nat /\ Back \in Nat /\ Back = Len(config.objects)
      /\ Back > 1 => file \in Files \ {Missing, Unparsable}
      /\ \A i \in 1 .. Back - 1 : \E j \in 1 .. section - 1 : Done(i, j)
  <2>1. config.objects \in Seq(ObjectType) /\ section \in Nat
    BY DEF IInv, TypeOK, ConfigType
  <2> QED
    BY <2>1, LenProperties DEF Back, DoneInv
\* A step that leaves these objects, and the sections before, leaves what is known.
<1>2. ASSUME file' = file, Back' = Back, section' \in {section, section + 1},
             \A i \in 1 .. Back - 1 : config'.objects[i] = config.objects[i]
      PROVE  DoneInv'
  <2>1. ASSUME NEW i \in 1 .. Back - 1
        PROVE  \E j \in 1 .. section' - 1 : Done(i, j)'
    <3>1. PICK j \in 1 .. section - 1 : Done(i, j)
      BY <1>1
    <3>2. j \in 1 .. section' - 1
      <4>1. section \in Nat /\ (section' = section \/ section' = section + 1)
        BY <1>1, <1>2
      <4> QED
        BY <4>1
    <3>3. Done(i, j)'
      BY <1>2, <3>1 DEF FullyDescribes, Describes
    <3> QED
      BY <3>2, <3>3
  <2> QED
    BY <1>1, <1>2, <2>1 DEF DoneInv
<1>3. CASE SrtExpInit
  <2>1. Back' = 0
    BY <1>3, DefaultConfigFacts DEF SrtExpInit, Back
  <2> QED
    BY <2>1 DEF DoneInv
<1>4. CASE \/ LoadIp \/ LoadGlobalPorts \/ LoadObjectPort \/ LoadCollectorMode
           \/ KeepFilter \/ LoadListFilter \/ LoadPresetFilter \/ LoadOtherFilter
           \/ LoadLabels
  <2>1. PICK o, failed, next : Stored(o) /\ ThrowIf(failed, next)
    BY <1>4, StatementFacts
  <2>2. /\ file' = file /\ section' = section /\ Back' = Back
        /\ \A i \in 1 .. Back - 1 : config'.objects[i] = config.objects[i]
    BY <1>1, <2>1 DEF Stored, ThrowIf, Back
  <2> QED
    BY <1>2, <2>2
<1>5. CASE LoadBadName
  BY <1>2, <1>5 DEF LoadBadName, ThrowIf, Back
<1>6. CASE SkipKnownName
  BY <1>2, <1>6 DEF SkipKnownName, Back
<1>7. CASE AddObject
  <2>1. /\ pc = "object" /\ section' = section + 1 /\ file' = file /\ Back' = Back + 1
        /\ \A i \in 1 .. Back : config'.objects[i] = config.objects[i]
    BY <1>7, AddFacts DEF Back
  <2>2. /\ file \in Files \ {Missing, Unparsable} /\ file \in FileType
        /\ section <= Len(file.exporters) /\ Len(file.exporters) \in Nat
    BY <2>1, SectionFacts DEF IInv, LoadInv
  <2>3. DOMAIN file.exporters = 1 .. Len(file.exporters)
    BY <2>2, LenProperties DEF FileType
  <2>4. ASSUME NEW i \in 1 .. Back
        PROVE  \E j \in 1 .. section : Done(i, j)'
    <3>1. PICK j \in 1 .. section : Made(i, j)
      BY <2>1 DEF NamesInv
    <3>2. /\ FullyDescribes(file.exporters[j], config.objects[i])
          /\ config.objects[i].name \in {file.exporters[j].name, Generated[i]}
      BY <2>1, <3>1 DEF Made, InSection
    <3>3. j \in DOMAIN file.exporters
      BY <1>1, <2>2, <2>3
    <3>4. Done(i, j)'
      BY <2>1, <3>2, <3>3 DEF FullyDescribes, Describes
    <3> QED
      BY <3>4
  <2> QED
    BY <1>1, <2>1, <2>2, <2>4 DEF DoneInv
<1>8. CASE LoadDone
  BY <1>2, <1>8 DEF LoadDone, Back
<1>9. CASE UNCHANGED vars
  BY <1>2, <1>9 DEF vars, Back
<1> QED
  BY <1>3, <1>4, <1>5, <1>6, <1>7, <1>8, <1>9 DEF Next

\* When the filters are plain, a load that an exception ends, at whatever value, leaves
\* every object but the last exactly as its section says.
THEOREM OnlyTheLastIsPartial ==
    ASSUME PlainFilters
    PROVE  Spec => []OnlyLastObjectPartial
<1>1. Init => NamesInv /\ DoneInv
  BY NamesInit
<1>2. IInv /\ DoneInv => OnlyLastObjectPartial
  <2> SUFFICES ASSUME IInv, DoneInv, NEW i \in 1 .. Back - 1
               PROVE  \E j \in 1 .. section - 1 :
                         /\ config.objects[i].name \in {file.exporters[j].name, Generated[i]}
                         /\ Describes(file.exporters[j], config.objects[i])
                         /\ Exports(config.objects[i].collector, file.exporters[j].filter)
    BY DEF OnlyLastObjectPartial
  <2>1. config.objects \in Seq(ObjectType) /\ Back = Len(config.objects) /\ Back \in Nat
    BY LenProperties DEF IInv, TypeOK, ConfigType, Back
  <2>2. file \in Files \ {Missing, Unparsable}
    BY <2>1 DEF DoneInv
  <2>3. PICK j \in 1 .. section - 1 :
           /\ j \in DOMAIN file.exporters
           /\ config.objects[i].name \in {file.exporters[j].name, Generated[i]}
           /\ FullyDescribes(file.exporters[j], config.objects[i])
    BY DEF DoneInv
  <2>4. config.objects[i].collector \in CollectorType
    <3>1. config.objects[i] \in ObjectType
      BY <2>1, ElementOfSeq
    <3> QED
      BY <3>1 DEF ObjectType
  <2>5. PlainFilter(file.exporters[j].filter)
    BY <2>2, <2>3 DEF PlainFilters
  <2> QED
    BY <2>3, <2>4, <2>5, PlainFilterExports DEF FullyDescribes
<1> QED
  BY <1>1, <1>2, InvariantHolds, NamesNext, DoneNext, PlainFilters, PTL DEF Spec
=============================================================================
