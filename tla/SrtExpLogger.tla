----------------------------- MODULE SrtExpLogger -----------------------------
(***************************************************************************)
(* The logger (srtexp_logger.cpp) and the two calls that set it            *)
(* (srtexp_set_log_dest and srtexp_set_syslog_level).                      *)
(*                                                                         *)
(* Every thread of the application and of the http servers logs lines.  A  *)
(* line reads the destination first and the level later, neither with a    *)
(* lock; the two settings are written one at a time, by calls that may run *)
(* in between.  The texts of the lines are left out.                       *)
(***************************************************************************)
EXTENDS Integers

CONSTANTS
    NULL,
    Threads,
    DestInputs,     \* what srtexp_set_log_dest may be given
    LevelInputs     \* what srtexp_set_syslog_level may be given

ASSUME LoggerAssumption == LevelInputs \subseteq Int

VARIABLES
    srtExpLogDestination,
    syslogLevel,
    line,       \* the line each thread is logging, NULL for none
    inForce     \* history: the settings in force since it read the destination

vars == <<srtExpLogDestination, syslogLevel, line, inForce>>

Destinations == {"SRT_EXP_SYSLOG", "SRT_EXP_STDERR"}

LOG_EMERG == 0
LOG_ERR == 3
LOG_NOTICE == 5
LOG_DEBUG == 7

\* SrtLog_Error, SrtLog_Notice and SrtLog_Debug.
Priorities == {LOG_ERR, LOG_NOTICE, LOG_DEBUG}

Levels == LOG_EMERG .. LOG_DEBUG

Settings == Destinations \X Levels

\* A line has a priority, and a branch once the destination was read.
Lines == [priority : Priorities, branch : Destinations \cup {NULL}]

TypeOK ==
    /\ srtExpLogDestination \in Destinations
    /\ syslogLevel \in Levels
    /\ line \in [Threads -> Lines \cup {NULL}]
    /\ inForce \in [Threads -> SUBSET Settings]

Init ==
    /\ srtExpLogDestination = "SRT_EXP_SYSLOG"
    /\ syslogLevel = LOG_NOTICE
    /\ line = [t \in Threads |-> NULL]
    /\ inForce = [t \in Threads |-> {}]

-----------------------------------------------------------------------------
(* The settings                                                            *)

\* The lines that have read the destination see this pair come into force.
Remember(setting) ==
    inForce' = [t \in Threads |->
        IF inForce[t] = {} THEN {} ELSE inForce[t] \cup {setting}]

\* Anything but the two destinations is refused.
SetLogDest(d) ==
    /\ d \in Destinations
    /\ srtExpLogDestination' = d
    /\ Remember(<<d, syslogLevel>>)
    /\ UNCHANGED <<syslogLevel, line>>

\* Mutant: the level is stored as it was given.
SetSyslogLevelUnchecked(l) ==
    /\ syslogLevel' = l
    /\ Remember(<<srtExpLogDestination, l>>)
    /\ UNCHANGED <<srtExpLogDestination, line>>

\* A level out of range is refused.
SetSyslogLevel(l) ==
    /\ l \in Levels
    /\ syslogLevel' = l
    /\ Remember(<<srtExpLogDestination, l>>)
    /\ UNCHANGED <<srtExpLogDestination, line>>

-----------------------------------------------------------------------------
(* A line                                                                  *)

LineBegins(t, p) ==
    /\ line[t] = NULL
    /\ line' = [line EXCEPT ![t] = [priority |-> p, branch |-> NULL]]
    /\ UNCHANGED <<srtExpLogDestination, syslogLevel, inForce>>

\* switch (srtExpLogDestination)
LineBranches(t) ==
    /\ line[t] # NULL
    /\ line[t].branch = NULL
    /\ line' = [line EXCEPT ![t].branch = srtExpLogDestination]
    /\ inForce' = [inForce EXCEPT ![t] = {<<srtExpLogDestination, syslogLevel>>}]
    /\ UNCHANGED <<srtExpLogDestination, syslogLevel>>

LineEnds(t) ==
    /\ line[t] # NULL
    /\ line[t].branch # NULL
    /\ line' = [line EXCEPT ![t] = NULL]
    /\ inForce' = [inForce EXCEPT ![t] = {}]
    /\ UNCHANGED <<srtExpLogDestination, syslogLevel>>

\* Mutant: a line of the very level that is set is left out.
LineIsWrittenAbove(t) == LineEnds(t) /\ syslogLevel > line[t].priority

\* syslog(), or std::cout for the other branch.
LineIsWritten(t) == LineEnds(t) /\ syslogLevel >= line[t].priority

LineIsLeftOut(t) == LineEnds(t) /\ ~ LineIsWritten(t)

Next ==
    \/ \E d \in DestInputs : SetLogDest(d)
    \/ \E l \in LevelInputs : SetSyslogLevel(l)
    \/ \E t \in Threads :
          \/ \E p \in Priorities : LineBegins(t, p)
          \/ LineBranches(t) \/ LineIsWritten(t) \/ LineIsLeftOut(t)

Spec == Init /\ [][Next]_vars

-----------------------------------------------------------------------------
(* Properties                                                              *)

\* Where a line of that priority goes under these settings.
Where(setting, priority) ==
    IF setting[2] >= priority THEN setting[1] ELSE "nowhere"

\* Since t has read its destination, there was another one in force with another
\* level than now: the destination was changed, and the level after it.  Then t may
\* combine a destination and a level that were never in force together.
BothChanged(t) ==
    \E s \in inForce[t] : s[1] # line[t].branch /\ s[2] # syslogLevel

\* The two reads of a line are not atomic; still each line is written to, or kept
\* from, the destination that one pair of settings calls for which was in force at
\* some time between them, unless the application changed the destination and then
\* the level in that time.
OneSettingExplains ==
    [][\A t \in Threads : ~ BothChanged(t) =>
          /\ LineIsWritten(t) => \E s \in inForce[t] :
                Where(s, line[t].priority) = line[t].branch
          /\ LineIsLeftOut(t) => \E s \in inForce[t] :
                Where(s, line[t].priority) = "nowhere"]_vars

-----------------------------------------------------------------------------
(* The inductive invariant                                                 *)

\* From its first read on, a line remembers the settings of now; and the pair that
\* it combines, of the destination it has read and the level of now, unless both
\* have changed.
LineInv ==
    \A t \in Threads : line[t] # NULL /\ line[t].branch # NULL =>
        /\ <<srtExpLogDestination, syslogLevel>> \in inForce[t]
        /\ <<line[t].branch, syslogLevel>> \in inForce[t] \/ BothChanged(t)

IInv == TypeOK /\ LineInv
=============================================================================
