----------------------------- MODULE MCSrtExpApi -----------------------------
(***************************************************************************)
(* Small instances of SrtExpApi for TLC.                                   *)
(***************************************************************************)
EXTENDS SrtExpApi

CONSTANTS t1, t2, w1

\* Two names, and the host's addresses.
MCNames == {"a", "b"}
MCIps == {"0.0.0.0", "127.0.0.1", "127.0.0.2", "10.9.9.9"}
MCLocalIps == MCIps \ {"10.9.9.9"}

\* LoadDefaultConfig, on a range of two ports.
Defaults == [ip |-> "0.0.0.0", portMin |-> 9901, portMax |-> 9902, objects |-> <<>>]

\* A file that gives "a" an address of its own, inside the range.
FileConfig ==
    [Defaults EXCEPT !.objects =
        <<[name |-> "a", ip |-> "127.0.0.1", port |-> 9901]>>]

\* A file that gives "a" the last port of the range and no ip, on one local ip.
OneIpConfig ==
    [Defaults EXCEPT
        !.ip = "127.0.0.1",
        !.objects = <<[name |-> "a", ip |-> NULL, port |-> 9902]>>]

\* A file whose objects listen on other addresses than the global one: "a" on
\* all of them with no port given, "b" on a second local ip.
TwoIpConfig ==
    [Defaults EXCEPT
        !.ip = "127.0.0.1",
        !.objects = <<[name |-> "a", ip |-> "0.0.0.0", port |-> 0],
                      [name |-> "b", ip |-> "127.0.0.2", port |-> 9901]>>]

\* A range whose last port is no port.
HighPortConfig == [Defaults EXCEPT !.ip = "127.0.0.1", !.portMin = 65535, !.portMax = 65536]

DefaultOnly == {Defaults}
DefaultOrFile == {Defaults, FileConfig}
OneIpOnly == {OneIpConfig}
TwoIpOnly == {TwoIpConfig}
HighPortOnly == {HighPortConfig}

OneThread == {t1}
TwoThreads == {t1, t2}
NoWorker == {}
OneWorker == {w1}

NoAddress == {}
OneAddress == {[ip |-> "127.0.0.1", port |-> 9901]}

NoContract == {}
Sequenced == {"sequenced"}
StopFirst == {"sequenced", "stop_first"}
Careful == {"sequenced", "stop_first", "fresh", "named"}
Restarts == {"sequenced", "stop_first", "named"}
=============================================================================
