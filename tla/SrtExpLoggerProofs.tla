-------------------------- MODULE SrtExpLoggerProofs --------------------------
(***************************************************************************)
(* Proofs about SrtExpLogger: types, and which settings explain a line,     *)
(* for any threads and any order of the calls that set them.               *)
(***************************************************************************)
EXTENDS SrtExpLogger, TLAPS

\* The settings of srtexp_logger.cpp:15-17 are of their types, and no line is
\* under way.
LEMMA InitIInv == Init => IInv
<1> SUFFICES ASSUME Init PROVE IInv
  OBVIOUS
<1>1. TypeOK
  <2>1. srtExpLogDestination \in Destinations /\ syslogLevel \in Levels
    BY DEF Init, Destinations, Levels, LOG_EMERG, LOG_NOTICE, LOG_DEBUG
  <2>2. line \in [Threads -> Lines \cup {NULL}]
    BY DEF Init
  <2>3. inForce \in [Threads -> SUBSET Settings]
    BY DEF Init
  <2> QED BY <2>1, <2>2, <2>3 DEF Init, TypeOK
<1>2. \A t \in Threads : line[t] = NULL
  BY DEF Init
<1> QED BY <1>1, <1>2 DEF Init, IInv, LineInv

\* srtexp_set_log_dest: a line under way has read its destination before, and the
\* pair it combines is the same as before.
LEMMA DestStep ==
  ASSUME IInv, NEW d \in DestInputs, SetLogDest(d)
  PROVE  IInv'
<1> USE DEF IInv, SetLogDest, Remember
<1>1. TypeOK'
  BY DEF TypeOK, Settings
<1>2. LineInv'
  <2> SUFFICES ASSUME NEW t \in Threads, line[t] # NULL, line[t].branch # NULL
               PROVE  /\ <<d, syslogLevel>> \in inForce'[t]
                      /\ <<line[t].branch, syslogLevel>> \in inForce'[t] \/ BothChanged(t)'
    BY DEF LineInv
  <2>1. inForce'[t] = inForce[t] \cup {<<d, syslogLevel>>}
    BY DEF LineInv, TypeOK
  <2> QED BY <2>1 DEF LineInv, BothChanged
<1> QED BY <1>1, <1>2

\* srtexp_set_syslog_level: if the destination that a line has read is still in
\* force, the new pair is the one it combines; if not, the pair of before has
\* another destination and another level.
LEMMA LevelStep ==
  ASSUME IInv, NEW l \in LevelInputs, SetSyslogLevel(l)
  PROVE  IInv'
<1> USE DEF IInv, SetSyslogLevel, Remember
<1>1. TypeOK'
  BY DEF TypeOK, Settings
<1>2. LineInv'
  <2> SUFFICES ASSUME NEW t \in Threads, line[t] # NULL, line[t].branch # NULL
               PROVE  /\ <<srtExpLogDestination, l>> \in inForce'[t]
                      /\ <<line[t].branch, l>> \in inForce'[t] \/ BothChanged(t)'
    BY DEF LineInv
  <2>1. /\ <<srtExpLogDestination, syslogLevel>> \in inForce[t]
        /\ <<line[t].branch, syslogLevel>> \in inForce[t] \/ BothChanged(t)
    BY DEF LineInv
  <2>2. inForce'[t] = inForce[t] \cup {<<srtExpLogDestination, l>>}
    BY <2>1 DEF TypeOK
  <2>3. CASE srtExpLogDestination = line[t].branch
    BY <2>2, <2>3
  <2>4. CASE l = syslogLevel
    BY <2>1, <2>2, <2>4 DEF BothChanged
  <2>5. CASE srtExpLogDestination # line[t].branch /\ l # syslogLevel
    BY <2>1, <2>2, <2>5 DEF BothChanged
  <2> QED BY <2>2, <2>3, <2>4, <2>5
<1> QED BY <1>1, <1>2

\* A line that begins, reads the destination, or ends remembers what it needs.
LEMMA LineStep ==
  ASSUME IInv, NEW t \in Threads,
         \/ \E p \in Priorities : LineBegins(t, p)
         \/ LineBranches(t)
         \/ LineEnds(t)
  PROVE  IInv'
<1> USE DEF IInv
<1>1. ASSUME NEW p \in Priorities, LineBegins(t, p)
      PROVE  IInv'
  <2>1. TypeOK'
    BY <1>1 DEF LineBegins, TypeOK, Lines
  <2>2. LineInv'
    BY <1>1 DEF LineBegins, TypeOK, LineInv, BothChanged
  <2> QED BY <2>1, <2>2
<1>2. CASE LineBranches(t)
  <2>1. TypeOK'
    BY <1>2 DEF LineBranches, TypeOK, Settings, Lines
  <2>2. LineInv'
    BY <1>2 DEF LineBranches, TypeOK, LineInv, BothChanged, Lines
  <2> QED BY <2>1, <2>2
<1>3. CASE LineEnds(t)
  <2>1. TypeOK'
    BY <1>3 DEF LineEnds, TypeOK
  <2>2. LineInv'
    BY <1>3 DEF LineEnds, TypeOK, LineInv, BothChanged
  <2> QED BY <2>1, <2>2
<1> QED BY <1>1, <1>2, <1>3

\* Every step keeps the invariant.
LEMMA NextIInv ==
  ASSUME IInv, [Next]_vars
  PROVE  IInv'
<1>1. CASE UNCHANGED vars
  BY <1>1 DEF vars, IInv, TypeOK, LineInv, BothChanged
<1>2. CASE Next
  BY <1>2, DestStep, LevelStep, LineStep DEF Next, LineIsWritten, LineIsLeftOut
<1> QED BY <1>1, <1>2

\* The invariant.
THEOREM InvariantHolds == Spec => []IInv
  BY InitIInv, NextIInv, PTL DEF Spec

\* The level stays one of the eight of syslog.h and the destination one of the
\* two of srtexp_define.hpp, whatever the two calls are given.
THEOREM TypeCorrect == Spec => []TypeOK
  BY InvariantHolds, PTL DEF IInv

\* What explains a line that ends: the pair it combines.
Explained(t) ==
  ~ BothChanged(t) =>
    /\ LineIsWritten(t) => \E s \in inForce[t] :
          Where(s, line[t].priority) = line[t].branch
    /\ LineIsLeftOut(t) => \E s \in inForce[t] :
          Where(s, line[t].priority) = "nowhere"

LEMMA LineExplained ==
  ASSUME IInv, NEW t \in Threads
  PROVE  Explained(t)
<1> USE DEF IInv, LineIsWritten, LineIsLeftOut, LineEnds, Where
<1> SUFFICES ASSUME LineEnds(t), ~ BothChanged(t) PROVE Explained(t)
  BY DEF Explained
<1>1. <<line[t].branch, syslogLevel>> \in inForce[t]
  BY DEF LineInv
<1>2. CASE LineIsWritten(t)
  BY <1>1, <1>2 DEF Explained
<1>3. CASE LineIsLeftOut(t)
  BY <1>1, <1>3 DEF Explained
<1> QED BY <1>2, <1>3 DEF Explained

\* Each line is written to, or kept from, the destination that one pair of
\* settings calls for which was in force between its two reads, unless the
\* destination and then the level were changed in that time (srtexp_logger.cpp:34
\* and 40).
THEOREM OneSettingExplainsLines == Spec => OneSettingExplains
<1>1. IInv => \A t \in Threads : Explained(t)
  BY LineExplained
<1> QED BY <1>1, InvariantHolds, PTL DEF OneSettingExplains, Explained, Spec
=============================================================================
