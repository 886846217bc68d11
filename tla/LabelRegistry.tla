---------------------------- MODULE LabelRegistry ----------------------------
(***************************************************************************)
(* What srtexp_label_register promises (srtexp_api.hpp:61): the labels of  *)
(* all variables, and those of one variable, are maps from names to        *)
(* values; a call adds, changes or removes one entry of one of them.       *)
(***************************************************************************)
CONSTANTS NULL, Names, Values, Variables

VARIABLES
    common,     \* the label of each name, or NULL, for all variables
    private     \* the labels of each variable alone

registryVars == <<common, private>>

LabelMap == [Names -> Values \cup {NULL}]

RegistryInit == common \in LabelMap /\ private \in [Variables -> LabelMap]

Register(n, v) ==
    \/ /\ common' = [common EXCEPT ![n] = v]
       /\ UNCHANGED private
    \/ \E x \in Variables :
          /\ private' = [private EXCEPT ![x][n] = v]
          /\ UNCHANGED common

RegistryNext == \E n \in Names, v \in Values \cup {NULL} : Register(n, v)

RegistrySpec == RegistryInit /\ [][RegistryNext]_registryVars
=============================================================================
