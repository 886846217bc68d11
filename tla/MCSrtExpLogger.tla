---------------------------- MODULE MCSrtExpLogger ----------------------------
(***************************************************************************)
(* Small instances of SrtExpLogger for TLC.                                *)
(***************************************************************************)
EXTENDS SrtExpLogger

CONSTANTS t1, t2

TwoThreads == {t1, t2}

\* A wrong destination and levels out of range at both ends are among the inputs.
MCDests == Destinations \cup {"2"}
MCLevels == {-1, 0, LOG_ERR, LOG_DEBUG, 8}
=============================================================================
