---------------------------- MODULE Registrations ----------------------------
(***************************************************************************)
(* What a table of triggers promises, with no word on who writes it, in    *)
(* how many statements, or who reads it. A name has one registration at a  *)
(* time. It enters enabled, under the next id, while the name is free, and *)
(* holds an offer made under that name. The offer is final: a registration *)
(* is switched on and off, and removed, and a later one of the same name   *)
(* is another one. One step touches one name.                              *)
(***************************************************************************)
EXTENDS Naturals

CONSTANTS Name,   \* the names a registration can have
          Offer   \* what a registration can hold, each with a field name

VARIABLES entry,  \* entry[n]: the registration named n, or NoEntry
          last    \* the last id given

vars == <<entry, last>>

NoEntry == [id |-> 0]

Taken(n) == entry[n] # NoEntry

OfferOf(n) == {o \in Offer : o.name = n}

Entry(id, o) == [id |-> id, enabled |-> TRUE, offer |-> o]

\* Any registrations, under ids that were given and are not shared.
Init ==
    /\ last \in Nat
    /\ \A n \in Name :
          Taken(n) => entry[n].id \in 1..last /\ entry[n].offer \in OfferOf(n)
    /\ \A m, n \in Name : Taken(m) /\ Taken(n) /\ entry[m].id = entry[n].id => m = n

Register(n) ==
    /\ ~Taken(n)
    /\ \E o \in OfferOf(n) : entry' = [entry EXCEPT ![n] = Entry(last + 1, o)]
    /\ last' = last + 1

Switch(n) ==
    /\ Taken(n)
    /\ \E on \in BOOLEAN : entry' = [entry EXCEPT ![n].enabled = on]
    /\ UNCHANGED last

Remove(n) ==
    /\ Taken(n)
    /\ entry' = [entry EXCEPT ![n] = NoEntry]
    /\ UNCHANGED last

Next == \E n \in Name : Register(n) \/ Switch(n) \/ Remove(n)

Spec == Init /\ [][Next]_vars
=============================================================================
