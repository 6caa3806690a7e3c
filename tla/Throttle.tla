------------------------------ MODULE Throttle ------------------------------
(***************************************************************************)
(* What a debounce promises, with no word on coroutines or on what is kept *)
(* in memory. Requests are decided in their order. One fires unless its    *)
(* source has fired within the window, and then, and only then, it is      *)
(* dropped; a request that was dropped holds back nobody. What was decided *)
(* stays so until all of it is forgotten.                                  *)
(***************************************************************************)
EXTENDS Integers, Sequences

CONSTANTS Source,  \* what is held back by itself and by nothing else
          Window   \* for how long

VARIABLES clock,
          asked    \* asked[i]: the source of request i, what came of it, and when

vars == <<clock, asked>>

Undecided == -1

Init == clock = 0 /\ asked = <<>>

Ask(s) ==
    /\ asked' = Append(asked, [of |-> s, verdict |-> "waits", at |-> Undecided])
    /\ UNCHANGED clock

HeldBack(i) ==
    \E j \in 1..(i - 1) :
        /\ asked[j].of = asked[i].of
        /\ asked[j].verdict = "fires"
        /\ clock < asked[j].at + Window

Decide(i) ==
    /\ asked[i].verdict = "waits"
    /\ \A j \in 1..(i - 1) : asked[j].verdict # "waits"
    /\ asked' = [asked EXCEPT
          ![i] = [@ EXCEPT !.verdict = IF HeldBack(i) THEN "dropped" ELSE "fires",
                           !.at = clock]]
    /\ UNCHANGED clock

Forget ==
    /\ asked' = <<>>
    /\ UNCHANGED clock

Pass ==
    /\ clock' = clock + 1
    /\ UNCHANGED asked

Next ==
    \/ \E s \in Source : Ask(s)
    \/ \E i \in DOMAIN asked : Decide(i)
    \/ Forget \/ Pass

Spec == Init /\ [][Next]_vars
=============================================================================
