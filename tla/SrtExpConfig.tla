---------------------------- MODULE SrtExpConfig ----------------------------
(***************************************************************************)
(* The loaded configuration (class SrtExpConfig) as the rest of the        *)
(* library reads it: which address an exporter's http server gets.         *)
(*                                                                         *)
(* A configuration is a record                                             *)
(*   [ip, portMin, portMax : _globalConfig, objects : _objConfig]          *)
(* and an element of objects is a record [name, ip, port], where ip = NULL *)
(* is the empty string and port = 0 the port that was not given.  How a    *)
(* file becomes such a record is module SrtExpConfigLoad; the collector    *)
(* part of it is module SrtExpFilter.                                      *)
(***************************************************************************)
EXTENDS Integers, Sequences, SequencesExt

CONSTANTS
    NULL,           \* a null pointer, an empty string, "none"
    AnyIp,          \* "0.0.0.0"
    LocalIps,       \* the addresses bind(2) accepts on this host
    IpValues,       \* every ip a configuration can name
    NameValues      \* every exporter name a configuration can name

ASSUME ConfigAssumption ==
    /\ AnyIp \in LocalIps
    /\ LocalIps \subseteq IpValues
    /\ NULL \notin IpValues
    /\ NULL \notin NameValues

ObjConfig == [name : NameValues, ip : IpValues \cup {NULL}, port : Int]

\* What a load can leave: the loader only accepts portMin <= portMax, and the
\* documentation asks for legal port numbers.
ConfigType ==
    [ip : IpValues, portMin : Nat, portMax : Nat, objects : Seq(ObjConfig)]

Address == [ip : IpValues, port : Int]

-----------------------------------------------------------------------------
(* The lookups, over a configuration cfg.                                  *)

\* The index of the first object configuration of that name; 0 is nullptr.
FindSrtExpObjConfig(cfg, name) ==
    SelectInSeq(cfg.objects, LAMBDA o : o.name = name)

GetServerIp(cfg, name) ==
    LET i == FindSrtExpObjConfig(cfg, name)
    IN  IF i # 0 /\ cfg.objects[i].ip # NULL THEN cfg.objects[i].ip ELSE cfg.ip

HasOwnPort(cfg, name) ==
    LET i == FindSrtExpObjConfig(cfg, name)
    IN  i # 0 /\ cfg.objects[i].port # 0

\* Two sockets cannot listen on the same port when one of them listens on
\* every local address, or both on the same one.
Conflicts(a, b) ==
    /\ a.port = b.port
    /\ a.ip = b.ip \/ AnyIp \in {a.ip, b.ip}

\* bind(2) on an address while the addresses in taken are in use.
CanBind(a, taken) ==
    /\ a.ip \in LocalIps
    /\ \A b \in taken : ~ Conflicts(a, b)

\* Ports have 16 bits.
MaxPort == 65535

\* htons keeps 16 bits of the port, and port 0 lets the system choose.  A process that
\* can open no socket at all, to which no port is available, is left out.
IsPortAvailable(ip, port, taken) ==
    LET p == port % (MaxPort + 1)
    IN  ip \in LocalIps /\ (p = 0 \/ CanBind([ip |-> ip, port |-> p], taken))

\* The port given in the file, or the first that GetServerPort probes.
FirstPort(cfg, name) ==
    IF HasOwnPort(cfg, name)
    THEN cfg.objects[FindSrtExpObjConfig(cfg, name)].port
    ELSE cfg.portMin

\* The http server of prometheus-cpp starts when its port is a port number
\* and the bind succeeds.
ExposerStarts(a, taken) == a.port \in 1 .. MaxPort /\ CanBind(a, taken)
=============================================================================
