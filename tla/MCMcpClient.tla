---------------------------- MODULE MCMcpClient ----------------------------
(***************************************************************************)
(* An instance of McpClient for TLC: the owner and one more task. One run  *)
(* explores two scenarios side by side: one connection with up to three    *)
(* calls, and a client that is connected twice.                            *)
(***************************************************************************)
EXTENDS McpClient

VARIABLE scenario

CONSTANTS c1

Lines(g) == IF g \in DOMAIN process THEN process[g].sent ELSE <<>>

Only(lines, kinds) ==
    \A k \in DOMAIN lines : <<lines[k].of # 0, lines[k].kind>> \in kinds

InScenario ==
    CASE scenario = "calls" ->
             /\ Len(process) <= 1
             /\ Only(Lines(1), {<<TRUE, "result">>, <<FALSE, "bad">>})
      [] scenario = "reconnect" ->
             /\ Len(Lines(1)) <= 2 /\ Len(Lines(2)) <= 2
             /\ Only(Lines(1), {<<TRUE, "result">>})
             /\ Only(Lines(2), {<<TRUE, "result">>, <<TRUE, "error">>, <<FALSE, "bad">>})
             /\ frame[Owner].pc \notin Calling

MCInit == Init /\ scenario \in {"calls", "reconnect"} /\ InScenario

MCNext == Next /\ UNCHANGED scenario /\ InScenario'

MCSpec == MCInit /\ [][MCNext]_<<vars, scenario>> /\ Fairness
=============================================================================
