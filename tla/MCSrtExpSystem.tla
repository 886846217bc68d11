---------------------------- MODULE MCSrtExpSystem ----------------------------
(***************************************************************************)
(* Small instances of SrtExpSystem for TLC.                                *)
(***************************************************************************)
EXTENDS SrtExpSystem

CONSTANTS w1, w2, s1, s2

MCNames == {"sample_srt_caller", "sample_srt_listener"}
MCIps == {AnyIp}

\* srt_exporter.yaml gives each sample a port of its own.
SampleConfig ==
    [ip |-> AnyIp, portMin |-> 9901, portMax |-> 10028,
     objects |-> <<[name |-> "sample_srt_caller", ip |-> AnyIp, port |-> 10027],
                   [name |-> "sample_srt_listener", ip |-> AnyIp, port |-> 10028]>>]

MCConfigs == {SampleConfig}

\* Another process may listen on the port of the listener.
MCForeign == {[ip |-> AnyIp, port |-> 10028]}

OnlyMain == {Main}
OneWorker == {w1}
TwoWorkers == {w1, w2}
TwoSockets == {s1, s2}

BothSamples == {Caller(s1), Listener(s1, s2)}
ListenerOnly == {Listener(s1, s2)}

MCLabelNames == {"role", "application", "importance"}
MCLabelValues == {"srt_source", "srt_destination", "sample_srtcaller", "special", "normal"}

NoContract == {}
QuietOnly == {"quiet"}
=============================================================================
