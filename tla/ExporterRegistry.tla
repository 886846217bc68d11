-------------------------- MODULE ExporterRegistry --------------------------
(***************************************************************************)
(* What the API promises of the exporters, with no vector, no lock and no  *)
(* reference counts: a start adds one running exporter with an id larger   *)
(* than every id handed out before and a name no running exporter has, and *)
(* its http server is up from then on; a stop ends one running exporter    *)
(* and no other; the server of an exporter goes down after its stop, never *)
(* before, and never comes back.                                           *)
(***************************************************************************)
EXTENDS Integers

CONSTANTS Ids, Names

VARIABLES
    running,    \* the exporters, as records [id, name]
    issued,     \* the ids handed out
    up          \* the ids whose http server exports

registryVars == <<running, issued, up>>

RegistryInit ==
    /\ running = {}
    /\ issued = {}
    /\ up = {}

RunningIds == {r.id : r \in running}

Start(id, n) ==
    /\ \A i \in issued : i < id
    /\ \A r \in running : r.name # n
    /\ running' = running \cup {[id |-> id, name |-> n]}
    /\ issued' = issued \cup {id}
    /\ up' = up \cup {id}

Stop(r) ==
    /\ running' = running \ {r}
    /\ UNCHANGED <<issued, up>>

GoDown(id) ==
    /\ id \notin RunningIds
    /\ up' = up \ {id}
    /\ UNCHANGED <<running, issued>>

RegistryNext ==
    \/ \E id \in Ids, n \in Names : Start(id, n)
    \/ \E r \in running : Stop(r)
    \/ \E id \in up : GoDown(id)

RegistrySpec == RegistryInit /\ [][RegistryNext]_registryVars
=============================================================================
