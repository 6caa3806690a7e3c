----------------------------- MODULE RunLedger -----------------------------
(***************************************************************************)
(* What the run history promises, with no word on who writes it or how.    *)
(* A run enters the ledger once, as running, linked to at most one earlier *)
(* run that had already succeeded. A recovery may declare running entries  *)
(* orphaned. The run's own writer settles it, once, and that is final; it  *)
(* may still settle an entry a recovery gave up on, because the terminal   *)
(* UPDATE of run_workflow does not look at the status it overwrites.       *)
(***************************************************************************)

CONSTANTS Run,    \* the identities a run can have
          NoRun   \* the value of a link that names no run

VARIABLES state,  \* state[r]: where run r stands in the ledger
          link    \* link[r]: the successful run that r builds on, or NoRun

vars == <<state, link>>

State == {"absent", "running", "orphaned", "success", "failed"}

Init ==
    /\ state = [r \in Run |-> "absent"]
    /\ link = [r \in Run |-> NoRun]

\* A run starts; the run it builds on, if any, has succeeded already.
Enter(r) ==
    /\ state[r] = "absent"
    /\ \E q \in {NoRun} \cup {p \in Run : state[p] = "success"} :
           link' = [link EXCEPT ![r] = q]
    /\ state' = [state EXCEPT ![r] = "running"]

\* The run's writer records its end.
Settle(r) ==
    /\ state[r] \in {"running", "orphaned"}
    /\ \E verdict \in {"success", "failed"} :
           state' = [state EXCEPT ![r] = verdict]
    /\ UNCHANGED link

\* A recovery gives up on some of the running entries, all at once.
Recover ==
    \E lost \in SUBSET {r \in Run : state[r] = "running"} :
        /\ state' = [r \in Run |-> IF r \in lost THEN "orphaned" ELSE state[r]]
        /\ UNCHANGED link

Next == (\E r \in Run : Enter(r) \/ Settle(r)) \/ Recover

Spec == Init /\ [][Next]_vars
=============================================================================
