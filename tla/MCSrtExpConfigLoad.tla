-------------------------- MODULE MCSrtExpConfigLoad --------------------------
(***************************************************************************)
(* Small instances of SrtExpConfigLoad for TLC: every file made of one of  *)
(* a few global sections and up to three of a few exporter sections.       *)
(***************************************************************************)
EXTENDS SrtExpConfigLoad

MCTexts == STRING

MCGenerated == <<"unnamed_1", "unnamed_2", "unnamed_3">>

Empty ==
    [name |-> NULL, ip |-> NULL, port |-> NULL, portMin |-> NULL, portMax |-> NULL,
     collectorMode |-> NULL, filter |-> NULL, labels |-> NULL]

Filter(m, l) == [mode |-> m, list |-> l]

Ranged == [Empty EXCEPT !.ip = "127.0.0.1", !.portMin = 9950, !.portMax = 9951,
                        !.filter = Filter("srt_source", NULL), !.labels = <<"source">>]
Reversed == [Empty EXCEPT !.portMin = 9951, !.portMax = 9950, !.filter = Filter(NULL, NULL)]
BadRange == [Empty EXCEPT !.ip = "127.0.0.1", !.portMin = 9950, !.portMax = Bad]

Globals == {NULL, Ranged, Reversed, BadRange, [Empty EXCEPT !.ip = Bad]}

A1 == [Empty EXCEPT !.name = "a", !.ip = "127.0.0.1", !.port = 9960,
                    !.filter = Filter("whitelist", <<"msRTT", "pktSentTotal", "unknown">>),
                    !.labels = <<"role">>]
A2 == [Empty EXCEPT !.name = "a", !.port = 9961, !.filter = Filter("srt_destination", NULL)]
B1 == [Empty EXCEPT !.name = "b"]
B2 == [Empty EXCEPT !.name = "b", !.port = Bad]
B3 == [Empty EXCEPT !.name = "b", !.filter = Filter("whitelist", <<"msRTT", Bad>>)]
B4 == [Empty EXCEPT !.name = "b", !.labels = <<"role", Bad>>, !.collectorMode = "x"]
B5 == [Empty EXCEPT !.name = "b", !.collectorMode = Bad]
Unnamed == [Empty EXCEPT !.port = 9962]

Sections == {A1, A2, B1, B2, B3, B4, B5, Unnamed, [Empty EXCEPT !.name = Bad],
             [A1 EXCEPT !.filter = Filter(Bad, NULL)]}

FilesOf(globals, exporters) == [global : globals, exporters : exporters]

MCFiles ==
    {Missing, Unparsable}
        \cup FilesOf(Globals, BoundedSeq(Sections, 1))
        \cup FilesOf({NULL, Ranged}, BoundedSeq(Sections, 2))
        \cup FilesOf({Ranged}, BoundedSeq({A1, A2, B1, Unnamed}, 3))

\* One filter of a mode, in the global section or in an exporter's.
OneFilter(f) ==
    FilesOf({NULL, Ranged, [Empty EXCEPT !.filter = f]},
            BoundedSeq({A2, [B1 EXCEPT !.filter = f]}, 2))

CommonFiles == OneFilter(Filter("srt_common", NULL))
\* A section whose name is the one generated for the section before it.
GeneratedNameFiles ==
    FilesOf({NULL}, {<<Unnamed, [B1 EXCEPT !.name = MCGenerated[1], !.port = 9963]>>})
BlacklistFiles == OneFilter(Filter("blacklist", <<"msRTT", "msTimeStamp">>))
=============================================================================
