------------------------------- MODULE Upgrade -------------------------------
(***************************************************************************)
(* What a deployment promises its database, with no word on transactions,  *)
(* processes, heartbeats or probes. The schema grows by one migration at a *)
(* time, in their order and from any earlier version, and is recorded as   *)
(* it grows. Nothing starts before the schema is whole; from then on       *)
(* everything stops and starts as it likes, and nothing grows any more.    *)
(***************************************************************************)
EXTENDS Naturals

CONSTANTS Last,  \* the migrations are 1..Last
          Part   \* what is started when they are applied

VARIABLES applied,   \* the migrations whose objects are there
          recorded,  \* the migrations the record names
          running    \* the parts that run

vars == <<applied, recorded, running>>

Whole == applied = 1..Last

Init ==
    /\ \E k \in 0..Last : applied = 1..k /\ recorded = 1..k
    /\ running = {}

Migrate(i) ==
    /\ applied = 1..(i - 1) /\ recorded = 1..(i - 1)
    /\ applied' = 1..i /\ recorded' = 1..i
    /\ UNCHANGED running

Start(p) ==
    /\ Whole
    /\ running' = running \cup {p}
    /\ UNCHANGED <<applied, recorded>>

Stop(p) ==
    /\ running' = running \ {p}
    /\ UNCHANGED <<applied, recorded>>

Next ==
    \/ \E i \in 1..Last : Migrate(i)
    \/ \E p \in Part : Start(p) \/ Stop(p)

Spec == Init /\ [][Next]_vars
=============================================================================
