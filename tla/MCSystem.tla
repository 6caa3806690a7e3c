------------------------------ MODULE MCSystem ------------------------------
(***************************************************************************)
(* An instance of System for TLC. One run explores three scenarios side by *)
(* side: the deployment alone, on any volume; an API that a heartbeat lets *)
(* start on the schema of an earlier version; and webhooks on a system     *)
(* that is up.                                                             *)
(***************************************************************************)
EXTENDS System

VARIABLE scenario

CONSTANTS c1, c2, r1

H(n, f) == [name |-> n, file |-> f]
MCOffers == {H("hook", "old.py"), H("hook", "new.py")}
MCLegacy == {H("hook", NoFile)}

MCFile == {"old.py", "new.py"}
MCLoads ==
    [f \in MCFile |-> IF f = "old.py" THEN {"loads", "fails"} ELSE {"loads", "exits"}]

NoRequests == \A r \in Request : req[r].pc = "out"
NoCommands == rows <= 1 /\ \A c \in Client : client[c].pc = "idle"

InScenario ==
    CASE scenario = "deploy" -> NoRequests /\ NoCommands
      [] scenario = "upgrade" ->
             /\ now = 0 /\ faults = 0 /\ 3 \in schema
             /\ service["watcher"].pc = "waiting"
             /\ rows <= 1 /\ client[c2].pc = "idle"
      [] scenario = "hooks" ->
             /\ now = 0 /\ faults = 0 /\ schema = Migration /\ beat["old"] = 0
             /\ service["watcher"].pc = "waiting"
             /\ migrator["brain"].pc \in {"idle", "select"}
             /\ migrator["op"].pc = "idle"

MCInit ==
    /\ Init
    /\ scenario \in {"deploy", "upgrade", "hooks"}
    /\ InScenario
    /\ scenario = "deploy" => rows = 0

MCNext == Next /\ UNCHANGED scenario /\ InScenario'

MCSpec == MCInit /\ [][MCNext]_<<vars, scenario>>
=============================================================================
