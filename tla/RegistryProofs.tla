--------------------------- MODULE RegistryProofs ---------------------------
(***************************************************************************)
(* What every command leaves true of a registry, for any names, offers,    *)
(* clients and bounds. The proofs of Watcher and of System build on it.    *)
(***************************************************************************)
EXTENDS Registry, TLAPS

\* A step of a command, or none.
CommandStep ==
    \/ \E c \in Client, o \in Offers : BeginRegister(c, o)
    \/ Commands
    \/ UNCHANGED registry

\* The same, or the table is queried whole.
RegistryStep == CommandStep \/ (touched' = {} /\ UNCHANGED <<table, client, rows>>)

\* Ids were given in order, and a row is in the place of its name.
RegistryInv ==
    /\ RegistryTypeOK
    /\ \A n \in Name : Present(n) => table[n].id <= rows /\ table[n].offer.name = n

\* What a step does to the row of one name: nothing to its id and offer, or it is
\* removed, or it is new under an id that was never used. Unless touched is reset, a
\* row that is not as it was is in it.
SameRow(n) == table'[n].id = table[n].id /\ (Present(n) => table'[n].offer = table[n].offer)

NewRowAt(n) ==
    ~Present(n) /\ rows' = rows + 1 /\ table'[n].id = rows + 1 /\ Present(n)'

LEMMA RegistryInitial == RegistryInit => RegistryInv
<1> SUFFICES ASSUME RegistryInit PROVE RegistryInv
  OBVIOUS
<1>1. SomeOffer \in Offers
  BY RegistryAssumption DEF SomeOffer
<1>2. IdleClient \in ClientType
  BY <1>1 DEF IdleClient, ClientType
<1>3. 0 \in 0..MaxRows /\ 1 \in 0..MaxRows /\ 1 \in 1..MaxRows
  BY RegistryAssumption
<1>4. client \in [Client -> ClientType] /\ touched \in SUBSET Name
  BY <1>2 DEF RegistryInit
<1>5. CASE table = [n \in Name |-> Absent] /\ rows = 0
  BY <1>3, <1>4, <1>5 DEF RegistryInv, RegistryTypeOK, Present, Absent
<1>6. ASSUME NEW o \in Legacy,
             table = [n \in Name |-> IF n = o.name THEN NewRow(1, o) ELSE Absent],
             rows = 1
      PROVE  RegistryInv
  <2>1. NewRow(1, o) \in Row
    BY <1>3 DEF NewRow, Row
  <2> QED
    BY <1>3, <1>4, <1>6, <2>1 DEF RegistryInv, RegistryTypeOK, Present, Absent, NewRow
<1> QED
  BY <1>5, <1>6 DEF RegistryInit

LEMMA CommandStepRows ==
    ASSUME RegistryInv, CommandStep
    PROVE  /\ RegistryInv'
           /\ rows <= rows'
           /\ \A n \in Name : SameRow(n) \/ ~Present(n)' \/ NewRowAt(n)
           /\ touched \subseteq touched'
           /\ \A n \in Name \ touched' : table'[n] = table[n]
<1>. USE DEF RegistryInv, RegistryTypeOK
<1>a. rows \in Nat /\ MaxRows \in Nat
  BY RegistryAssumption
<1>1. ASSUME NEW c \in Client, NEW o \in Offers, BeginRegister(c, o)
      PROVE  RegistryInv' /\ UNCHANGED <<table, rows, touched>>
  BY <1>1 DEF BeginRegister, ClientType, Present
<1>2. ASSUME NEW c \in Client, CheckName(c)
      PROVE  RegistryInv' /\ UNCHANGED <<table, rows, touched>>
  <2>1. SomeOffer \in Offers
    BY RegistryAssumption DEF SomeOffer
  <2>2. IdleClient \in ClientType /\ [client[c] EXCEPT !.pc = "insert"] \in ClientType
    BY <2>1 DEF IdleClient, ClientType
  <2> QED
    BY <1>2, <2>2 DEF CheckName, Present
<1>3. ASSUME NEW c \in Client, InsertRow(c)
      PROVE  /\ RegistryInv'
             /\ rows' \in {rows, rows + 1}
             /\ \A n \in Name : SameRow(n) \/ NewRowAt(n)
             /\ touched \subseteq touched'
             /\ \A n \in Name \ touched' : table'[n] = table[n]
  <2>0. PICK o \in Offers : o = client[c].offer
    BY DEF ClientType
  <2>1. o.name \in Name
    BY RegistryAssumption
  <2>2. SomeOffer \in Offers
    BY RegistryAssumption DEF SomeOffer
  <2>3. client' \in [Client -> ClientType]
    BY <1>3, <2>2 DEF InsertRow, IdleClient, ClientType
  <2>4. CASE Present(o.name)
    BY <1>3, <2>0, <2>3, <2>4 DEF InsertRow, Present, SameRow
  <2>5. CASE ~Present(o.name)
    <3>1. /\ rows < MaxRows /\ rows' = rows + 1
          /\ table' = [table EXCEPT ![o.name] = NewRow(rows + 1, o)]
          /\ touched' = touched \cup {o.name}
      BY <1>3, <2>0, <2>5 DEF InsertRow, Put
    <3>2. NewRow(rows + 1, o) \in Row /\ rows' \in 0..MaxRows
      BY <3>1, <2>1, <1>a DEF NewRow, Row
    <3>3. NewRow(rows + 1, o).id = rows + 1 /\ NewRow(rows + 1, o).offer = o
      BY DEF NewRow
    <3>4. /\ table' \in [Name -> Row \cup {Absent}]
          /\ table'[o.name].id = rows + 1 /\ table'[o.name].offer = o
          /\ \A n \in Name : n # o.name => table'[n] = table[n]
      BY <2>1, <3>1, <3>2, <3>3
    <3>5. NewRowAt(o.name)
      <4>1. rows + 1 # 0
        BY <1>a
      <4>2. Present(o.name)'
        BY <3>4, <4>1 DEF Present
      <4> QED
        BY <3>1, <3>4, <2>5, <4>2 DEF NewRowAt
    <3>6. ASSUME NEW n \in Name
          PROVE  /\ SameRow(n) \/ NewRowAt(n)
                 /\ Present(n)' => table'[n].id <= rows' /\ table'[n].offer.name = n
      <4>1. CASE n = o.name
        BY <3>1, <3>4, <3>5, <4>1, <1>a
      <4>2. CASE n # o.name
        <5>1. Present(n) => table[n].id <= rows /\ table[n].id \in Nat
          BY DEF Present, Row, Absent
        <5> QED
          BY <3>1, <3>4, <4>2, <5>1, <1>a DEF SameRow, Present
      <4> QED
        BY <4>1, <4>2
    <3> QED
      BY <2>1, <2>3, <3>1, <3>2, <3>4, <3>6
  <2> QED
    BY <2>4, <2>5
<1>4. ASSUME NEW n \in Name, NEW on \in BOOLEAN, SetEnabled(n, on)
      PROVE  /\ RegistryInv'
             /\ rows' = rows
             /\ \A m \in Name : SameRow(m)
             /\ touched \subseteq touched'
             /\ \A m \in Name \ touched' : table'[m] = table[m]
  <2>1. /\ Present(n) /\ table' = [table EXCEPT ![n].enabled = on]
        /\ touched' = touched \cup {n} /\ client' = client /\ rows' = rows
    BY <1>4 DEF SetEnabled
  <2>2. table[n] \in Row
    BY <2>1 DEF Present, Absent
  <2>3. /\ [table[n] EXCEPT !.enabled = on] \in Row
        /\ [table[n] EXCEPT !.enabled = on].id = table[n].id
        /\ [table[n] EXCEPT !.enabled = on].offer = table[n].offer
    BY <2>2 DEF Row
  <2> QED
    BY <2>1, <2>2, <2>3 DEF SameRow, Present
<1>5. ASSUME NEW n \in Name, Unregister(n)
      PROVE  /\ RegistryInv'
             /\ rows' = rows
             /\ \A m \in Name : SameRow(m) \/ ~Present(m)'
             /\ touched \subseteq touched'
             /\ \A m \in Name \ touched' : table'[m] = table[m]
  BY <1>5 DEF Unregister, SameRow, Present, Absent
<1>6. CASE UNCHANGED registry
  BY <1>6, <1>a DEF registry, SameRow, Present
<1>7. CASE UNCHANGED <<table, rows, touched>> /\ RegistryInv'
  BY <1>7, <1>a DEF SameRow, Present
<1> QED
  <2>1. CASE \E c \in Client, o \in Offers : BeginRegister(c, o)
    BY <2>1, <1>1, <1>7
  <2>2. CASE Commands
    <3>1. CASE \E c \in Client : CheckName(c)
      BY <3>1, <1>2, <1>7
    <3>2. CASE \E c \in Client : InsertRow(c)
      BY <3>2, <1>3, <1>a
    <3>3. CASE \E n \in Name : Unregister(n)
      BY <3>3, <1>5, <1>a
    <3>4. CASE \E n \in Name, on \in BOOLEAN : SetEnabled(n, on)
      BY <3>4, <1>4, <1>a
    <3> QED
      BY <2>2, <3>1, <3>2, <3>3, <3>4 DEF Commands
  <2> QED
    BY <1>6, <2>1, <2>2 DEF CommandStep

LEMMA RegistryStepRows ==
    ASSUME RegistryInv, RegistryStep
    PROVE  /\ RegistryInv'
           /\ rows <= rows'
           /\ \A n \in Name : SameRow(n) \/ ~Present(n)' \/ NewRowAt(n)
<1>1. CASE CommandStep
  BY <1>1, CommandStepRows
<1>2. CASE touched' = {} /\ UNCHANGED <<table, client, rows>>
  <2>1. rows \in Nat
    BY RegistryAssumption DEF RegistryInv, RegistryTypeOK
  <2> QED
    BY <1>2, <2>1 DEF RegistryInv, RegistryTypeOK, SameRow, Present
<1> QED
  BY <1>1, <1>2 DEF RegistryStep

\* An id, once given, stays the id of what was registered under it.
LEMMA RowOfId ==
    ASSUME RegistryInv, RegistryStep, NEW n \in Name, NEW i \in 1..rows,
           table'[n].id = i
    PROVE  table[n].id = i /\ table'[n].offer = table[n].offer
<1>1. rows \in Nat
  BY RegistryAssumption DEF RegistryInv, RegistryTypeOK
<1> QED
  BY <1>1, RegistryStepRows DEF SameRow, NewRowAt, Present

\* The action of RegistrationIsKept.
LEMMA RowsAreKept ==
    ASSUME RegistryInv, RegistryStep,
           NEW n \in Name, Present(n), Present(n)'
    PROVE  table'[n].id = table[n].id /\ table'[n].offer = table[n].offer
BY RegistryStepRows DEF SameRow, NewRowAt
-----------------------------------------------------------------------------
(* The refinement: a command's steps are one step of Registrations, at its INSERT, *)
(* UPDATE or DELETE, and nothing before.                                           *)

LEMMA TakenIsPresent ==
    ASSUME RegistryInv, NEW n \in Name
    PROVE  Promise!Taken(n) <=> Present(n)
BY DEF Promise!Taken, Promise!NoEntry, Present, RegistryInv, RegistryTypeOK, Row, Absent

LEMMA RegistrationsInitial == RegistryInit => Promise!Init
<1> SUFFICES ASSUME RegistryInit PROVE Promise!Init
  OBVIOUS
<1>1. RegistryInv
  BY RegistryInitial
<1>2. rows \in Nat
  BY <1>1 DEF RegistryInv, RegistryTypeOK
<1>3. ASSUME NEW n \in Name, Promise!Taken(n)
      PROVE  table[n].id \in 1..rows /\ table[n].offer \in Promise!OfferOf(n)
  <2>1. Present(n) /\ table[n] \in Row
    BY <1>1, <1>3, TakenIsPresent DEF Present, RegistryInv, RegistryTypeOK, Absent
  <2> QED
    BY <1>1, <2>1, <1>2 DEF RegistryInv, Row, Promise!OfferOf
<1>4. ASSUME NEW m \in Name, NEW n \in Name, Promise!Taken(m), Promise!Taken(n)
      PROVE  m = n
  <2>1. Present(m) /\ Present(n)
    BY <1>1, <1>4, TakenIsPresent
  <2> QED
    BY <2>1 DEF RegistryInit, Present, Absent
<1> QED
  BY <1>2, <1>3, <1>4 DEF Promise!Init

LEMMA CommandImplements ==
    ASSUME RegistryInv, CommandStep
    PROVE  [Promise!Next]_(Promise!vars)
<1>1. CASE UNCHANGED <<table, rows>>
  BY <1>1 DEF Promise!vars
<1>2. ASSUME NEW c \in Client, InsertRow(c), ~UNCHANGED <<table, rows>>
      PROVE  Promise!Next
  <2>1. PICK o \in Offers : o = client[c].offer
    BY DEF RegistryInv, RegistryTypeOK, ClientType
  <2>2. /\ ~Present(o.name)
        /\ table' = [table EXCEPT ![o.name] = NewRow(rows + 1, o)]
        /\ rows' = rows + 1
    BY <1>2, <2>1 DEF InsertRow, Put
  <2>3. o.name \in Name
    BY RegistryAssumption
  <2>4. NewRow(rows + 1, o) = Promise!Entry(rows + 1, o)
    BY DEF NewRow, Promise!Entry
  <2>5. o \in Promise!OfferOf(o.name)
    BY DEF Promise!OfferOf
  <2>6. Promise!Register(o.name)
    BY <2>2, <2>3, <2>4, <2>5, TakenIsPresent DEF Promise!Register
  <2> QED
    BY <2>3, <2>6 DEF Promise!Next
<1>3. ASSUME NEW n \in Name, NEW on \in BOOLEAN, SetEnabled(n, on)
      PROVE  Promise!Next
  BY <1>3, TakenIsPresent DEF SetEnabled, Promise!Switch, Promise!Next
<1>4. ASSUME NEW n \in Name, Unregister(n)
      PROVE  Promise!Next
  BY <1>4, TakenIsPresent
     DEF Unregister, Absent, Promise!NoEntry, Promise!Remove, Promise!Next
<1> QED
  BY <1>1, <1>2, <1>3, <1>4 DEF CommandStep, Commands, BeginRegister, CheckName, registry
=============================================================================
