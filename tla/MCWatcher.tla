----------------------------- MODULE MCWatcher -----------------------------
(***************************************************************************)
(* An instance of Watcher for TLC. One run explores three scenarios side   *)
(* by side: two watchers and no change in their directories; one watcher   *)
(* and a burst of events; one that is registered anew around an event.     *)
(***************************************************************************)
EXTENDS Watcher

VARIABLE scenario

CONSTANTS c1

MCFile == {"notes", "other"}
\* The workflow in "notes" has a name of its own; "other" holds one with the name
\* that watcher 1 is registered under.
MCNameOf == [f \in MCFile |-> IF f = "other" THEN 1 ELSE 0]
MCLoads ==
    [f \in MCFile |-> IF f = "notes" THEN {"loads", "fails"} ELSE {"loads", "exits"}]

MCPath == [d \in {"in", "out"} |-> IF d = "in" THEN {"a", "b"} ELSE {}]

W(n, d, k, f) == [name |-> n, dir |-> d, kinds |-> k, file |-> f]
MCOffers ==
    {W(1, "in", {"modified"}, "notes"), W(1, "out", {"modified"}, "notes"),
     W(2, "out", {"modified"}, "notes")}
MCLegacy == {W(1, "in", {"created"}, NoFile)}

Registering(dir) == client[c1].pc # "idle" => client[c1].offer.dir = dir

InScenario ==
    CASE scenario = "pool" -> /\ event = <<>> /\ now = 0 /\ history[1] = NoFile
                              /\ Registering("out")
      [] scenario = "burst" -> /\ Present(1) /\ rows = 1 /\ client[c1].pc = "idle"
                               /\ history[1] = "other" /\ gone = {}
      [] scenario = "stale" -> /\ Len(event) <= 1 /\ now = 0 /\ gone = {}
                               /\ Registering("in")

MCInit == Init /\ scenario \in {"pool", "burst", "stale"} /\ InScenario

MCNext == Next /\ UNCHANGED scenario /\ InScenario'

MCSpec == MCInit /\ [][MCNext]_<<vars, scenario>> /\ Fairness
=============================================================================
