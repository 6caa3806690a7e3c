----------------------------- MODULE RemoteCalls -----------------------------
(***************************************************************************)
(* What a client of remote servers promises, with no word on locks, pipes  *)
(* or ids. It has one server at a time, and the first request is part of   *)
(* opening it. Of a connection one request waits at a time: one that is    *)
(* made beside it fails. A request is settled once, and is answered only   *)
(* with what the server gave for that very request; a server may give      *)
(* something for a request that nobody waits for any more.                 *)
(***************************************************************************)
EXTENDS Naturals, Sequences

VARIABLES opened,  \* how many connections were opened
          up,      \* the connections whose server lives
          calls,   \* calls[i]: the connection of request i, and how it stands
          given    \* the requests a server has given a result for

vars == <<opened, up, calls, given>>

Init == opened = 0 /\ up = {} /\ calls = <<>> /\ given = {}

Waits(i) == calls[i].state = "waits"

Asks(g, state) == calls' = Append(calls, [on |-> g, state |-> state])

Open ==
    /\ up = {}
    /\ opened' = opened + 1
    /\ up' = {opened + 1}
    /\ Asks(opened + 1, "waits")
    /\ UNCHANGED given

\* A request goes to the connection opened last, whether or not its server lives.
Call ==
    /\ opened # 0
    /\ Asks(opened, IF \E i \in DOMAIN calls : Waits(i) /\ calls[i].on = opened
                    THEN "fails" ELSE "waits")
    /\ UNCHANGED <<opened, up, given>>

Give(i) ==
    /\ calls[i].on \in up
    /\ given' = given \cup {i}
    /\ UNCHANGED <<opened, up, calls>>

Settle(i) ==
    /\ Waits(i)
    /\ \/ i \in given /\ calls' = [calls EXCEPT ![i].state = "answered"]
       \/ calls' = [calls EXCEPT ![i].state = "fails"]
    /\ UNCHANGED <<opened, up, given>>

Die(g) ==
    /\ g \in up
    /\ up' = up \ {g}
    /\ UNCHANGED <<opened, calls, given>>

Next ==
    \/ Open \/ Call
    \/ \E i \in DOMAIN calls : Give(i) \/ Settle(i)
    \/ \E g \in up : Die(g)

Spec == Init /\ [][Next]_vars
=============================================================================
