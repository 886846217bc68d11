-------------------------- MODULE MCSrtExpCollector --------------------------
(***************************************************************************)
(* Small instances of SrtExpCollector for TLC.                             *)
(***************************************************************************)
EXTENDS SrtExpCollector

CONSTANTS s1, s2, v1, v2

OneSocket == {s1}
TwoSockets == {s1, s2}

OneName == {"l1"}
TwoNames == {"l1", "l2"}
OneValue == {v1}
TwoValues == {v1, v2}

Whitelist(varList_, labelList_) ==
    [filterMode |-> "WHITELIST", varList |-> varList_, labelList |-> labelList_]

\* A filter of two variables, and one that lets nothing through.
TwoVariables ==
    {Whitelist(<<"msRTT", "pktSentTotal">>, <<[name |-> "l1", value |-> v1]>>),
     Whitelist(<<>>, <<>>)}

OneVariable == {Whitelist(<<"msRTT">>, <<[name |-> "l1", value |-> v1]>>)}

NoContract == {}
Quiet == {"quiet"}
=============================================================================
