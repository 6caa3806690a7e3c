------------------------------ MODULE Registry ------------------------------
(***************************************************************************)
(* A table of triggers by name, and the `brain` commands that write it     *)
(* (src/src/cli.py): file_watchers with register-watcher, enable-watcher,  *)
(* disable-watcher and unregister-watcher, and webhook_secrets with their  *)
(* counterparts, which issue the same statements. Watcher and Webhooks     *)
(* extend this module, each with what a registration of its kind holds.    *)
(***************************************************************************)
EXTENDS Integers

CONSTANTS
    Name,     \* names triggers are registered under
    Offers,   \* the registrations a user may make, each with a field name
    Legacy,   \* registrations that may be there from before the last migration
    Client,   \* register commands
    MaxRows   \* bound of the rows ever inserted

ASSUME RegistryAssumption ==
    /\ MaxRows \in Nat \ {0}
    /\ Offers # {}
    /\ \A o \in Offers \cup Legacy : o.name \in Name

VARIABLES
    table,    \* table[n]: the row named n
    client,   \* client[c]: the frame of a register command
    rows,     \* how many rows were inserted: the last id given
    touched   \* names a command wrote since the table was last queried whole

registry == <<table, client, rows, touched>>

Row == [id : 1..MaxRows, enabled : BOOLEAN, offer : Offers \cup Legacy]

\* No row of that name.
Absent == [id |-> 0]

Present(n) == table[n].id # 0

Enabled(n) == Present(n) /\ table[n].enabled

SomeOffer == CHOOSE o \in Offers : TRUE

ClientType == [pc : {"idle", "check", "insert"}, offer : Offers]

IdleClient == [pc |-> "idle", offer |-> SomeOffer]

NewRow(id, o) == [id |-> id, enabled |-> TRUE, offer |-> o]

\* The table is empty, or holds one row the migration found there.
RegistryInit ==
    /\ \/ /\ table = [n \in Name |-> Absent]
          /\ rows = 0
       \/ \E o \in Legacy :
             /\ table = [n \in Name |-> IF n = o.name THEN NewRow(1, o) ELSE Absent]
             /\ rows = 1
    /\ client = [c \in Client |-> IdleClient]
    /\ touched = {}

\* What comes before the first statement: the module that extends this one says
\* when o passes it.
BeginRegister(c, o) ==
    /\ client[c].pc = "idle"
    /\ client' = [client EXCEPT ![c] = [pc |-> "check", offer |-> o]]
    /\ UNCHANGED <<table, rows, touched>>

\* SELECT 1: a name that is taken ends the command.
CheckName(c) ==
    /\ client[c].pc = "check"
    /\ client' = [client EXCEPT ![c] =
          IF Present(@.offer.name) THEN IdleClient ELSE [@ EXCEPT !.pc = "insert"]]
    /\ UNCHANGED <<table, rows, touched>>

Put(o) ==
    /\ rows < MaxRows
    /\ table' = [table EXCEPT ![o.name] = NewRow(rows + 1, o)]
    /\ rows' = rows + 1
    /\ touched' = touched \cup {o.name}

\* Mutant of InsertRow: the names are not UNIQUE, the later INSERT takes the
\* earlier one's place.
InsertRowOver(c) ==
    /\ client[c].pc = "insert"
    /\ Put(client[c].offer)
    /\ client' = [client EXCEPT ![c] = IdleClient]

\* The INSERT fails on the UNIQUE name when another command came first.
InsertRow(c) ==
    /\ client[c].pc = "insert"
    /\ IF Present(client[c].offer.name)
       THEN UNCHANGED <<table, rows, touched>>
       ELSE Put(client[c].offer)
    /\ client' = [client EXCEPT ![c] = IdleClient]

SetEnabled(n, on) ==
    /\ Present(n)
    /\ table' = [table EXCEPT ![n].enabled = on]
    /\ touched' = touched \cup {n}
    /\ UNCHANGED <<client, rows>>

Unregister(n) ==
    /\ Present(n)
    /\ table' = [table EXCEPT ![n] = Absent]
    /\ touched' = touched \cup {n}
    /\ UNCHANGED <<client, rows>>

\* Every command but the start of a registration.
Commands ==
    \/ \E c \in Client : CheckName(c) \/ InsertRow(c)
    \/ \E n \in Name : Unregister(n) \/ \E on \in BOOLEAN : SetEnabled(n, on)

RegistryTypeOK ==
    /\ table \in [Name -> Row \cup {Absent}]
    /\ client \in [Client -> ClientType]
    /\ rows \in 0..MaxRows
    /\ touched \in SUBSET Name

\* A row that is there stays what was registered, whoever else registers its name
\* between a command's check and its INSERT.
RegistrationIsKept ==
    [][\A n \in Name :
          Present(n) /\ Present(n)' =>
              table'[n].id = table[n].id /\ table'[n].offer = table[n].offer]_registry

\* Whatever the order of the commands' statements, the table is the one of
\* Registrations: a name is taken once, by an offer made under it, and each later
\* row has the next id.
Promise == INSTANCE Registrations
             WITH entry <- table, last <- rows, Offer <- Offers \cup Legacy

KeepsRegistrations == Promise!Spec
=============================================================================
