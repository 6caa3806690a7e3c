-------------------------- MODULE SchedulerProofs --------------------------
(***************************************************************************)
(* Theorems about Scheduler, for any schedules, files, crons and clients   *)
(* and any bounds.                                                         *)
(***************************************************************************)
EXTENDS Scheduler, TLAPS

-----------------------------------------------------------------------------
(* Types. The daemon fires an entry exactly from "begin" to "advance". *)

TypeInv == TypeOK /\ (daemon.pc \in Firing => daemon.entry \in EntryType)

LEMMA NextFireType ==
    ASSUME NEW c \in Cron, NEW t \in 0..MaxTime
    PROVE  NextFire(c, t) \in Nat /\ NextFire(c, t) > t
BY NextFireAssumption

LEMMA PresentType ==
    ASSUME TypeOK, NEW n \in Name
    PROVE  /\ Present(n) <=> table[n] \in RowType
           /\ ~Present(n) <=> table[n] = Absent
BY DEF TypeOK, Present, RowType, Absent

LEMMA IdleClientType == IdleClient \in ClientType
<1>1. (CHOOSE o \in Offers : TRUE) \in Offer
  BY SchedulerAssumption
<1> QED
  BY <1>1 DEF IdleClient, ClientType

LEMMA DownType ==
    ASSUME NEW pc \in {"stopped", "crashed", "idle"}
    PROVE  Down(pc) \in DaemonType /\ Down(pc).pc = pc
BY SchedulerAssumption DEF Down, DaemonType

LEMMA EntryOfType ==
    ASSUME TypeOK, NEW n \in Name, Present(n)
    PROVE  EntryOf(n) \in EntryType
BY PresentType DEF EntryOf, EntryType, RowType

\* The next entry ends the process, or is being fired.
LEMMA TakeStep ==
    ASSUME TypeInv, TakeNext
    PROVE  \E e \in daemon.pending :
               /\ e \in EntryType
               /\ \/ daemon' = Down("crashed")
                  \/ /\ daemon' \in DaemonType
                     /\ daemon'.pc \in {"begin", "advance"}
                     /\ daemon'.entry = e
                     /\ daemon'.pending = daemon.pending \ {e}
                     /\ daemon'.tick = daemon.tick
<1>. USE DEF TypeInv, TypeOK, DaemonType, Firing
<1>1. PICK e \in daemon.pending : \E outcome \in Loads[e.file] :
          daemon' = CASE outcome = "loads" ->
                           [daemon EXCEPT !.pc = "begin", !.entry = e,
                                          !.pending = @ \ {e}]
                      [] outcome = "fails" ->
                           [daemon EXCEPT !.pc = "advance", !.entry = e,
                                          !.pending = @ \ {e}]
                      [] outcome = "exits" -> Down("crashed")
  BY DEF TakeNext
<1>2. PICK outcome \in Loads[e.file] :
          daemon' = CASE outcome = "loads" ->
                           [daemon EXCEPT !.pc = "begin", !.entry = e,
                                          !.pending = @ \ {e}]
                      [] outcome = "fails" ->
                           [daemon EXCEPT !.pc = "advance", !.entry = e,
                                          !.pending = @ \ {e}]
                      [] outcome = "exits" -> Down("crashed")
  BY <1>1
<1>3. e \in EntryType /\ outcome \in Outcome
  BY SchedulerAssumption DEF EntryType
<1>4. CASE outcome = "loads"
  BY <1>2, <1>3, <1>4
<1>5. CASE outcome = "fails"
  BY <1>2, <1>3, <1>5
<1>6. CASE outcome = "exits"
  BY <1>2, <1>3, <1>6
<1> QED
  BY <1>3, <1>4, <1>5, <1>6 DEF Outcome

\* The tables the daemon's two UPDATEs leave.
LEMMA UpdateTypes ==
    ASSUME TypeInv, daemon.pc \in Firing
    PROVE  /\ Linked \in [Name -> RowType \cup {Absent}]
           /\ Advanced \in [Name -> RowType \cup {Absent}]
           /\ NextSlot \in Nat
           /\ NewRun \in RunType
<1>. USE DEF TypeInv
<1>1. Len(runs) \in Nat
  BY DEF TypeOK
<1>2. NextSlot \in Nat
  BY NextFireType DEF NextSlot, EntryType, TypeOK, DaemonType
<1>3. ASSUME NEW n \in Name
      PROVE  /\ Present(n) => [table[n] EXCEPT !.lastRun = Len(runs)] \in RowType
             /\ Present(n) => [table[n] EXCEPT !.next = NextSlot] \in RowType
             /\ table[n] \in RowType \cup {Absent}
  BY <1>1, <1>2, PresentType DEF TypeOK, RowType
<1>4. NewRun \in RunType
  BY DEF NewRun, RunType, EntryType, TypeOK, DaemonType
<1> QED
  BY <1>2, <1>3, <1>4 DEF Linked, Advanced

LEMMA InitType == Init => TypeInv
<1>1. Down("stopped") \in DaemonType /\ Down("stopped").pc = "stopped"
  BY DownType
<1> QED
  BY <1>1, IdleClientType, SchedulerAssumption
     DEF Init, TypeInv, TypeOK, Firing

LEMMA NextType == TypeInv /\ [Next]_vars => TypeInv'
<1> SUFFICES ASSUME TypeInv, [Next]_vars PROVE TypeInv'
  OBVIOUS
<1>. USE DEF TypeInv, TypeOK, Firing
<1>0. 0 \in 0..MaxTime /\ (faults < MaxFaults => faults + 1 \in 0..MaxFaults)
  BY SchedulerAssumption
<1>1. ASSUME NEW c \in Client, RegisterBegin(c) PROVE TypeInv'
  <2>1. PICK o \in Offers : client' = [client EXCEPT ![c] =
            [pc |-> "check", offer |-> o, next |-> NextFire(o.cron, now)]]
    BY <1>1 DEF RegisterBegin
  <2>2. o \in Offer /\ NextFire(o.cron, now) \in Nat
    BY SchedulerAssumption, NextFireType DEF Offer
  <2>3. [pc |-> "check", offer |-> o, next |-> NextFire(o.cron, now)]
            \in ClientType
    BY <2>2 DEF ClientType
  <2> QED
    BY <1>1, <2>1, <2>3 DEF RegisterBegin
<1>2. ASSUME NEW c \in Client, RegisterCheck(c) PROVE TypeInv'
  <2>1. [client[c] EXCEPT !.pc = "insert"] \in ClientType
    BY DEF ClientType
  <2> QED
    BY <1>2, <2>1, IdleClientType DEF RegisterCheck
<1>3. ASSUME NEW c \in Client, RegisterInsert(c) PROVE TypeInv'
  <2> DEFINE o == client[c].offer
             new == [id |-> rows + 1, enabled |-> TRUE, file |-> o.file,
                     cron |-> o.cron, next |-> client[c].next, lastRun |-> NoRun]
  <2>1. o \in Offer /\ client[c].next \in Nat
    BY DEF ClientType
  <2>2. CASE UNCHANGED <<table, rows>>
    BY <1>3, <2>2, IdleClientType DEF RegisterInsert
  <2>3. CASE rows < MaxRows /\ table' = [table EXCEPT ![o.name] = new]
                /\ rows' = rows + 1
    <3>1. rows + 1 \in 1..MaxRows
      BY <2>3, SchedulerAssumption
    <3>2. new \in RowType
      BY <2>1, <3>1 DEF RowType, Offer, NoRun
    <3>3. table' \in [Name -> RowType \cup {Absent}]
      <4> HIDE DEF new, o
      <4> QED
        BY <2>3, <3>2
    <3>4. client' \in [Client -> ClientType]
      BY <1>3, IdleClientType DEF RegisterInsert
    <3>5. rows' \in 0..MaxRows
      BY <2>3, <3>1
    <3>6. UNCHANGED <<now, daemon, beat, runs, faults>>
      BY <1>3 DEF RegisterInsert
    <3> QED
      BY <3>3, <3>4, <3>5, <3>6
  <2> QED
    BY <1>3, <2>2, <2>3 DEF RegisterInsert
<1>4. ASSUME NEW n \in Name, SetEnabled(n) PROVE TypeInv'
  <2>1. [table[n] EXCEPT !.enabled = ~@] \in RowType
    BY <1>4, PresentType DEF SetEnabled, RowType
  <2> QED
    BY <1>4, <2>1 DEF SetEnabled
<1>5. ASSUME NEW n \in Name, Unregister(n) PROVE TypeInv'
  BY <1>5 DEF Unregister
<1>6. CASE StartTick
  <2>1. [daemon EXCEPT !.pc = "heartbeat", !.tick = now] \in DaemonType
    BY DEF DaemonType
  <2> QED
    BY <1>6, <2>1 DEF StartTick, DaemonType
<1>7. CASE Heartbeat
  BY <1>7 DEF Heartbeat, DaemonType
<1>8. CASE Query
  <2>1. {EntryOf(n) : n \in {m \in Name : Due(m, daemon.tick)}} \in SUBSET EntryType
    BY EntryOfType DEF Due
  <2> QED
    BY <1>8, <2>1 DEF Query, DaemonType
<1>9. CASE TakeNext
  <2>1. daemon' \in DaemonType /\ (daemon'.pc \in Firing => daemon'.entry \in EntryType)
    BY <1>9, TakeStep, DownType
  <2> QED
    BY <1>9, <2>1 DEF TakeNext
<1>10. CASE EndTick
  <2>1. [daemon EXCEPT !.pc = "idle", !.tick = 0] \in DaemonType
    BY <1>0 DEF DaemonType
  <2>2. [daemon EXCEPT !.pc = "idle", !.tick = 0].pc = "idle"
    BY DEF DaemonType
  <2> QED
    BY <1>10, <2>1, <2>2 DEF EndTick
<1>11. CASE BeginRun
  <2>1. Append(runs, NewRun) \in Seq(RunType)
    BY <1>11, UpdateTypes DEF BeginRun
  <2>2. daemon' \in DaemonType /\ daemon'.entry = daemon.entry
    BY <1>11 DEF BeginRun, DaemonType
  <2> QED
    BY <1>11, <2>1, <2>2 DEF BeginRun
<1>12. CASE RunReturns
  BY <1>12 DEF RunReturns, DaemonType
<1>13. CASE Link
  BY <1>13, UpdateTypes DEF Link, DaemonType
<1>14. CASE Advance
  BY <1>14, UpdateTypes DEF Advance, DaemonType
<1>15. CASE TickRaises
  <2>1. [daemon EXCEPT !.pc = "idle", !.tick = 0] \in DaemonType
    BY <1>0 DEF DaemonType
  <2>2. [daemon EXCEPT !.pc = "idle", !.tick = 0].pc = "idle"
    BY DEF DaemonType
  <2>3. beat' \in 0..MaxTime
    BY <1>15 DEF TickRaises, DaemonType
  <2> QED
    BY <1>0, <1>15, <2>1, <2>2, <2>3 DEF TickRaises
<1>16. CASE FireRaises
  <2>1. daemon' \in DaemonType /\ daemon'.pc \notin Firing
    BY <1>16 DEF FireRaises, DaemonType
  <2>2. faults' \in 0..MaxFaults
    BY <1>16, SchedulerAssumption DEF FireRaises
  <2>3. table' \in [Name -> RowType \cup {Absent}]
    BY <1>16, UpdateTypes DEF FireRaises
  <2>4. runs' \in Seq(RunType)
    <3>1. NewRun \in RunType
      BY <1>16, UpdateTypes DEF FireRaises
    <3>2. Append(runs, NewRun) \in Seq(RunType)
      BY <3>1
    <3> QED
      BY <1>16, <3>2 DEF FireRaises
  <2> QED
    BY <1>16, <2>1, <2>2, <2>3, <2>4 DEF FireRaises
<1>17. CASE Crash
  BY <1>17, DownType, SchedulerAssumption DEF Crash
<1>18. CASE Signal
  BY <1>18 DEF Signal, DaemonType
<1>19. CASE Exit \/ Boot
  BY <1>19, DownType DEF Exit, Boot
<1>20. CASE Tick
  BY <1>20, SchedulerAssumption DEF Tick
<1>21. CASE UNCHANGED vars
  BY <1>21 DEF vars
<1> QED
  BY <1>1, <1>2, <1>3, <1>4, <1>5, <1>6, <1>7, <1>8, <1>9, <1>10, <1>11, <1>12,
     <1>13, <1>14, <1>15, <1>16, <1>17, <1>18, <1>19, <1>20, <1>21 DEF Next, Work

LEMMA TypeInvariance == Spec => []TypeInv
BY InitType, NextType, PTL DEF Spec

\* Every column and frame keeps its type, and no fire is ever without an entry.
THEOREM TypeCorrect == Spec => []TypeOK
<1>1. TypeInv => TypeOK
  BY DEF TypeInv
<1> QED
  BY <1>1, TypeInvariance, PTL

-----------------------------------------------------------------------------
(* What a step may do to a row *)

\* The row is removed, or there is none.
Gone(n) == table'[n] = Absent

\* A command inserts the row, under a new id, and touches nothing else.
Inserted(n) ==
    /\ ~Present(n)
    /\ rows' = rows + 1
    /\ table'[n].id = rows + 1
    /\ table'[n].lastRun = NoRun
    /\ \A m \in Name \ {n} : table'[m] = table[m]
    /\ UNCHANGED <<now, daemon, runs, faults>>

\* The row stays what was registered: only the step that ends "advance" moves its
\* slot, only the one that ends "link" its last run.
Kept(n) ==
    /\ Present(n)
    /\ table'[n].id = table[n].id
    /\ table'[n].file = table[n].file
    /\ table'[n].cron = table[n].cron
    /\ \/ table'[n].next = table[n].next
       \/ /\ daemon.pc = "advance" /\ daemon'.pc = "next"
          /\ n = daemon.entry.name
          /\ table'[n].next = NextSlot
    /\ \/ table'[n].lastRun = table[n].lastRun
       \/ /\ daemon.pc = "link" /\ daemon'.pc # "link"
          /\ n = daemon.entry.name
          /\ table'[n].lastRun = Len(runs)

LEMMA SameRow ==
    ASSUME TypeInv, NEW n \in Name, table'[n] = table[n]
    PROVE  Gone(n) \/ Kept(n)
BY PresentType DEF TypeInv, Gone, Kept

LEMMA LinkedRow ==
    ASSUME TypeInv, NEW n \in Name, daemon.pc = "link", daemon'.pc # "link",
           table' = Linked
    PROVE  Gone(n) \/ Kept(n)
<1>1. CASE Present(n) /\ n = daemon.entry.name
  <2>1. table'[n] = [table[n] EXCEPT !.lastRun = Len(runs)]
    BY <1>1 DEF Linked
  <2>2. table[n] \in RowType
    BY <1>1, PresentType DEF TypeInv
  <2> QED
    BY <1>1, <2>1, <2>2 DEF Kept, RowType
<1>2. CASE ~(Present(n) /\ n = daemon.entry.name)
  BY <1>2, SameRow DEF Linked
<1> QED
  BY <1>1, <1>2

LEMMA AdvancedRow ==
    ASSUME TypeInv, NEW n \in Name, daemon.pc = "advance", daemon'.pc = "next",
           table' = Advanced
    PROVE  Gone(n) \/ Kept(n)
<1>1. CASE Present(n) /\ n = daemon.entry.name
  <2>1. table'[n] = [table[n] EXCEPT !.next = NextSlot]
    BY <1>1 DEF Advanced
  <2>2. table[n] \in RowType
    BY <1>1, PresentType DEF TypeInv
  <2> QED
    BY <1>1, <2>1, <2>2 DEF Kept, RowType
<1>2. CASE ~(Present(n) /\ n = daemon.entry.name)
  BY <1>2, SameRow DEF Advanced
<1> QED
  BY <1>1, <1>2

LEMMA RowStep ==
    ASSUME TypeInv, [Next]_vars, NEW n \in Name
    PROVE  Gone(n) \/ Inserted(n) \/ Kept(n)
<1>1. CASE UNCHANGED table
  BY <1>1, SameRow
<1>2. ASSUME NEW c \in Client, RegisterInsert(c), table' # table
      PROVE  Gone(n) \/ Inserted(n) \/ Kept(n)
  <2> DEFINE o == client[c].offer
             new == [id |-> rows + 1, enabled |-> TRUE, file |-> o.file,
                     cron |-> o.cron, next |-> client[c].next, lastRun |-> NoRun]
  <2>1. /\ ~Present(o.name)
        /\ table' = [table EXCEPT ![o.name] = new]
        /\ UNCHANGED <<now, daemon, runs, faults>>
        /\ rows' = rows + 1
    BY <1>2 DEF RegisterInsert
  <2>2. new.id = rows + 1 /\ new.lastRun = NoRun
    OBVIOUS
  <2>3. DOMAIN table = Name
    BY DEF TypeInv, TypeOK
  <2>4. CASE n = o.name
    <3> HIDE DEF new, o
    <3> QED
      BY <2>1, <2>2, <2>3, <2>4 DEF Inserted
  <2>5. CASE n # o.name
    <3> HIDE DEF new, o
    <3>1. table'[n] = table[n]
      BY <2>1, <2>3, <2>5
    <3> QED
      BY <3>1, SameRow
  <2> QED
    BY <2>4, <2>5
<1>3. ASSUME NEW m \in Name, SetEnabled(m)
      PROVE  Gone(n) \/ Inserted(n) \/ Kept(n)
  <2>1. CASE m = n
    <3>1. table[n] \in RowType /\ Present(n)
      BY <1>3, <2>1, PresentType DEF SetEnabled, TypeInv
    <3> QED
      BY <1>3, <2>1, <3>1 DEF SetEnabled, Kept, RowType, TypeInv, TypeOK
  <2>2. CASE m # n
    BY <1>3, <2>2, SameRow DEF SetEnabled
  <2> QED
    BY <2>1, <2>2
<1>4. ASSUME NEW m \in Name, Unregister(m)
      PROVE  Gone(n) \/ Inserted(n) \/ Kept(n)
  BY <1>4, SameRow DEF Unregister, Gone, TypeInv, TypeOK
<1>5. CASE Link
  BY <1>5, LinkedRow DEF Link, TypeInv, TypeOK, DaemonType
<1>6. CASE Advance
  BY <1>6, AdvancedRow DEF Advance, TypeInv, TypeOK, DaemonType
<1>7. CASE FireRaises
  <2>1. daemon'.pc = "next"
    BY <1>7 DEF FireRaises, TypeInv, TypeOK, DaemonType
  <2> QED
    BY <1>1, <1>7, <2>1, LinkedRow, AdvancedRow DEF FireRaises
<1>8. table' = table \/ (\E c \in Client : RegisterInsert(c) /\ table' # table)
      \/ (\E m \in Name : SetEnabled(m) \/ Unregister(m))
      \/ Link \/ Advance \/ FireRaises
  BY DEF Next, Work, vars, RegisterBegin, RegisterCheck, StartTick, Heartbeat,
         Query, TakeNext, EndTick, BeginRun, RunReturns, Exit, TickRaises, Crash,
         Signal, Boot, Tick
<1> QED
  BY <1>1, <1>2, <1>3, <1>4, <1>5, <1>6, <1>7, <1>8

-----------------------------------------------------------------------------
(* The inductive invariant. *)

\* An id belongs to one row and is not given twice.
IdsHold ==
    /\ \A n \in Name : table[n].id <= rows
    /\ \A n, m \in Name : Present(n) /\ table[n].id = table[m].id => n = m

\* What the tick still has to fire, and what it is firing.
Queued == daemon.pending \cup {e \in {daemon.entry} : daemon.pc \in Firing}

\* An entry of the tick is due and is what the row of its id holds, if that row is
\* still there; no two entries share a name or an id.
QueueHolds ==
    /\ daemon.pc \notin Firing \cup {"next"} => daemon.pending = {}
    /\ \A e \in Queued :
           /\ e.id <= rows
           /\ e.slot <= daemon.tick
           /\ \A n \in Name : table[n].id = e.id => e = EntryOf(n)
    /\ \A e, f \in daemon.pending : e.name = f.name \/ e.id = f.id => e = f
    /\ daemon.pc \in Firing =>
           \A e \in daemon.pending :
               e.name # daemon.entry.name /\ e.id # daemon.entry.id

\* A run is of a known row and of no later tick than the daemon's. As long as no
\* fault strikes, its row is advanced past its tick, or is about to be; and the
\* tick has no other entry for that row.
RunHolds(r) ==
    /\ r.id <= rows
    /\ r.faults <= faults
    /\ r.tick <= now
    /\ daemon.pc \notin {"stopped", "crashed", "idle"} => r.tick <= daemon.tick
    /\ r.faults = faults =>
           /\ \A n \in Name :
                  table[n].id = r.id =>
                      \/ r.tick < table[n].next
                      \/ /\ daemon.pc \in {"running", "link", "advance"}
                         /\ daemon.entry.id = r.id
           /\ \A e \in daemon.pending : e.id = r.id => r.tick < e.slot
           /\ daemon.pc = "begin" /\ daemon.entry.id = r.id =>
                  r.tick < daemon.entry.slot

RunsHold ==
    /\ daemon.tick <= now
    /\ \A i \in 1..Len(runs) : RunHolds(runs[i])

\* The run under way is the last one, and of the name being fired.
LinkHolds ==
    /\ \A n \in Name : Present(n) => table[n].lastRun \in 0..Len(runs)
    /\ daemon.pc \in {"running", "link"} =>
           /\ Len(runs) > 0
           /\ runs[Len(runs)].name = daemon.entry.name

-----------------------------------------------------------------------------
(* Each part is kept by every step. *)

LEMMA RowId ==
    ASSUME TypeInv, NEW n \in Name
    PROVE  /\ table[n].id \in Nat
           /\ Present(n) <=> table[n].id # 0
           /\ Present(n) => table[n].id \in 1..MaxRows /\ table[n].next \in Nat
                            /\ table[n].lastRun \in Nat
BY PresentType, SchedulerAssumption DEF TypeInv, Present, RowType, Absent

LEMMA RowsStep ==
    ASSUME TypeInv, [Next]_vars
    PROVE  rows' \in Nat /\ rows \in Nat /\ rows' >= rows
<1>1. rows' = rows \/ rows' = rows + 1
  BY DEF Next, Work, vars, RegisterBegin, RegisterCheck, RegisterInsert,
         SetEnabled, Unregister, StartTick, Heartbeat, Query, TakeNext, EndTick,
         BeginRun, RunReturns, Link, Advance, Exit, TickRaises, FireRaises, Crash,
         Signal, Boot, Tick
<1> QED
  BY <1>1, SchedulerAssumption DEF TypeInv, TypeOK

LEMMA InitIds == Init => IdsHold
BY DEF Init, IdsHold, Present, Absent

LEMMA NextIds == TypeInv /\ IdsHold /\ [Next]_vars => IdsHold'
<1> SUFFICES ASSUME TypeInv, IdsHold, [Next]_vars PROVE IdsHold'
  OBVIOUS
<1>1. TypeInv'
  BY NextType
<1>2. rows' \in Nat /\ rows \in Nat /\ rows' >= rows
  BY RowsStep
<1>3. ASSUME NEW n \in Name PROVE table'[n].id <= rows'
  <2>1. table[n].id \in Nat /\ table[n].id <= rows
    BY RowId DEF IdsHold
  <2>2. CASE Gone(n)
    BY <1>2, <2>2 DEF Gone, Absent
  <2>3. CASE Inserted(n)
    BY <1>2, <2>3 DEF Inserted
  <2>4. CASE Kept(n)
    BY <1>2, <2>1, <2>4 DEF Kept
  <2> QED
    BY <2>2, <2>3, <2>4, RowStep
<1>4. ASSUME NEW n \in Name, NEW m \in Name, Present(n)',
             table'[n].id = table'[m].id, n # m
      PROVE  FALSE
  <2>1. table'[n].id # 0 /\ ~Gone(n) /\ ~Gone(m)
    BY <1>4 DEF Present, Gone, Absent
  <2>2. /\ table[n].id \in Nat /\ table[n].id <= rows
        /\ table[m].id \in Nat /\ table[m].id <= rows
    BY RowId DEF IdsHold
  <2>3. CASE Inserted(n)
    <3>1. table'[m] = table[m] /\ table'[n].id = rows + 1
      BY <1>4, <2>3 DEF Inserted
    <3> QED
      BY <1>2, <1>4, <2>2, <3>1
  <2>4. CASE Inserted(m)
    BY <1>2, <1>4, <2>2, <2>4 DEF Inserted
  <2>5. CASE Kept(n) /\ Kept(m)
    BY <1>4, <2>5 DEF Kept, IdsHold
  <2> QED
    BY <2>1, <2>3, <2>4, <2>5, RowStep
<1> QED
  BY <1>3, <1>4 DEF IdsHold, Present

LEMMA InitQueue == Init => QueueHolds
<1>1. Down("stopped").pc = "stopped" /\ Down("stopped").pending = {}
  BY DEF Down
<1> QED
  BY <1>1 DEF Init, QueueHolds, Queued, Firing

\* An entry that was true of its row stays so when the row is not advanced.
LEMMA EntryStep ==
    ASSUME TypeInv, IdsHold, [Next]_vars, NEW e \in EntryType, e.id <= rows,
           \A n \in Name : table[n].id = e.id => e = EntryOf(n),
           daemon.pc = "advance" /\ daemon'.pc = "next" =>
               e.name # daemon.entry.name,
           NEW n \in Name, table'[n].id = e.id
    PROVE  e = EntryOf(n)'
<1>1. e.id \in Nat \ {0} /\ rows \in Nat
  BY SchedulerAssumption DEF EntryType, TypeInv, TypeOK
<1>2. ~Gone(n)
  BY <1>1 DEF Gone, Absent
<1>3. ~Inserted(n)
  BY <1>1 DEF Inserted
<1>4. Kept(n)
  BY <1>2, <1>3, RowStep
<1>5. e = EntryOf(n) /\ e.name = n
  BY <1>4 DEF Kept, EntryOf
<1>6. table'[n].next = table[n].next
  BY <1>4, <1>5 DEF Kept
<1> QED
  BY <1>4, <1>5, <1>6 DEF Kept, EntryOf

LEMMA QueuedType ==
    ASSUME TypeInv, QueueHolds, NEW e \in Queued
    PROVE  /\ e \in EntryType /\ e.id <= rows /\ e.slot <= daemon.tick
           /\ \A n \in Name : table[n].id = e.id => e = EntryOf(n)
BY DEF TypeInv, TypeOK, DaemonType, QueueHolds, Queued

\* The daemon goes on with the same entries.
LEMMA QueueSame ==
    ASSUME TypeInv, IdsHold, QueueHolds, [Next]_vars,
           daemon'.pending = daemon.pending, daemon'.entry = daemon.entry,
           daemon'.tick = daemon.tick,
           daemon'.pc \in Firing <=> daemon.pc \in Firing,
           daemon'.pc = "next" <=> daemon.pc = "next"
    PROVE  QueueHolds'
<1>1. Queued' = Queued
  BY DEF Queued
<1>2. rows' \in Nat /\ rows \in Nat /\ rows' >= rows
  BY RowsStep
<1>3. ASSUME NEW e \in Queued
      PROVE  /\ e.id <= rows' /\ e.slot <= daemon'.tick
             /\ \A n \in Name : table'[n].id = e.id => e = EntryOf(n)'
  <2>1. /\ e \in EntryType /\ e.id <= rows /\ e.slot <= daemon.tick
        /\ \A n \in Name : table[n].id = e.id => e = EntryOf(n)
    BY QueuedType
  <2>2. e.id \in Nat
    BY <2>1, SchedulerAssumption DEF EntryType
  <2>3. \A n \in Name : table'[n].id = e.id => e = EntryOf(n)'
    BY <2>1, EntryStep
  <2> QED
    BY <1>2, <2>1, <2>2, <2>3
<1> QED
  BY <1>1, <1>3 DEF QueueHolds

\* The daemon has nothing left to fire.
LEMMA QueueEmpty ==
    ASSUME daemon'.pending = {}, daemon'.pc \notin Firing
    PROVE  QueueHolds'
BY DEF QueueHolds, Queued

\* A fire ends: what is left of the queue is of other names.
LEMMA QueueFired ==
    ASSUME TypeInv, IdsHold, QueueHolds, [Next]_vars, daemon.pc \in Firing,
           daemon'.pending = daemon.pending, daemon'.tick = daemon.tick,
           daemon'.pc = "next"
    PROVE  QueueHolds'
<1>1. Queued' = daemon.pending /\ daemon'.pc \notin Firing
  BY DEF Queued, Firing
<1>2. rows' \in Nat /\ rows \in Nat /\ rows' >= rows
  BY RowsStep
<1>3. ASSUME NEW e \in daemon.pending
      PROVE  /\ e.id <= rows' /\ e.slot <= daemon'.tick
             /\ \A n \in Name : table'[n].id = e.id => e = EntryOf(n)'
  <2>1. /\ e \in EntryType /\ e.id <= rows /\ e.slot <= daemon.tick
        /\ \A n \in Name : table[n].id = e.id => e = EntryOf(n)
    BY QueuedType DEF Queued
  <2>2. e.id \in Nat
    BY <2>1, SchedulerAssumption DEF EntryType
  <2>3. e.name # daemon.entry.name
    BY DEF QueueHolds
  <2>4. \A n \in Name : table'[n].id = e.id => e = EntryOf(n)'
    BY <2>1, <2>3, EntryStep
  <2> QED
    BY <1>2, <2>1, <2>2, <2>4
<1> QED
  BY <1>1, <1>3 DEF QueueHolds

LEMMA QueueRead ==
    ASSUME TypeInv, IdsHold, Query
    PROVE  QueueHolds'
<1> DEFINE due == {m \in Name : Due(m, daemon.tick)}
<1>1. /\ daemon'.pending = {EntryOf(n) : n \in due}
      /\ daemon'.pc = "next" /\ daemon'.pc \notin Firing
      /\ daemon'.tick = daemon.tick
      /\ UNCHANGED <<table, rows>>
  BY DEF Query, TypeInv, TypeOK, DaemonType, Firing
<1>2. ASSUME NEW n \in due
      PROVE  /\ EntryOf(n).id <= rows /\ EntryOf(n).slot <= daemon.tick
             /\ EntryOf(n).name = n
             /\ \A m \in Name : table[m].id = EntryOf(n).id => m = n
  BY DEF Due, EntryOf, IdsHold
<1>3. Queued' = daemon'.pending
  BY <1>1 DEF Queued
<1>4. \A n \in Name : EntryOf(n)' = EntryOf(n)
  BY <1>1 DEF EntryOf
<1>5. ASSUME NEW e \in daemon'.pending
      PROVE  /\ e.id <= rows' /\ e.slot <= daemon'.tick
             /\ \A n \in Name : table'[n].id = e.id => e = EntryOf(n)'
  BY <1>1, <1>2, <1>4
<1>6. \A e, f \in daemon'.pending : e.name = f.name \/ e.id = f.id => e = f
  <2>1. SUFFICES ASSUME NEW n \in due, NEW m \in due,
                        EntryOf(n).name = EntryOf(m).name
                          \/ EntryOf(n).id = EntryOf(m).id
                 PROVE  EntryOf(n) = EntryOf(m)
    BY <1>1
  <2>2. EntryOf(m).id = table[m].id
    BY DEF EntryOf
  <2> QED
    BY <1>2, <2>1, <2>2
<1> QED
  BY <1>1, <1>3, <1>5, <1>6 DEF QueueHolds

LEMMA QueueTaken ==
    ASSUME TypeInv, QueueHolds, TakeNext
    PROVE  QueueHolds'
<1>1. PICK e \in daemon.pending :
          \/ daemon' = Down("crashed")
          \/ /\ daemon'.pc \in {"begin", "advance"} /\ daemon'.entry = e
             /\ daemon'.pending = daemon.pending \ {e} /\ daemon'.tick = daemon.tick
  BY TakeStep
<1>2. CASE daemon' = Down("crashed")
  BY <1>2, QueueEmpty DEF Down, Firing
<1>3. CASE daemon' # Down("crashed")
  <2>1. Queued' \subseteq Queued
    BY <1>1, <1>3 DEF Queued
  <2>2. UNCHANGED <<table, rows>>
    BY DEF TakeNext
  <2>3. \A f \in daemon'.pending : f.name # e.name /\ f.id # e.id
    BY <1>1, <1>3 DEF QueueHolds
  <2> QED
    BY <1>1, <1>3, <2>1, <2>2, <2>3 DEF QueueHolds, Firing, EntryOf
<1> QED
  BY <1>2, <1>3

LEMMA NextQueue == TypeInv /\ IdsHold /\ QueueHolds /\ [Next]_vars => QueueHolds'
<1> SUFFICES ASSUME TypeInv, IdsHold, QueueHolds, [Next]_vars PROVE QueueHolds'
  OBVIOUS
<1>. USE DEF TypeInv, TypeOK, DaemonType, Firing
<1>1. CASE UNCHANGED daemon
  BY <1>1, QueueSame
<1>2. CASE Signal \/ BeginRun \/ RunReturns \/ Link
  BY <1>2, QueueSame DEF Signal, BeginRun, RunReturns, Link
<1>3. CASE StartTick \/ Heartbeat \/ EndTick \/ TickRaises
  <2>1. daemon'.pending = {} /\ daemon'.pc \in {"idle", "heartbeat", "query"}
    BY <1>3 DEF StartTick, Heartbeat, EndTick, TickRaises, QueueHolds
  <2> QED
    BY <2>1, QueueEmpty
<1>4. CASE Crash \/ Exit \/ Boot
  BY <1>4, QueueEmpty DEF Crash, Exit, Boot, Down
<1>5. CASE Advance \/ FireRaises
  BY <1>5, QueueFired DEF Advance, FireRaises
<1>6. CASE Query
  BY <1>6, QueueRead
<1>7. CASE TakeNext
  BY <1>7, QueueTaken
<1>8. UNCHANGED daemon \/ Work \/ TickRaises \/ FireRaises \/ Crash \/ Signal \/ Boot
  BY DEF Next, vars, RegisterBegin, RegisterCheck, RegisterInsert, SetEnabled,
         Unregister, Tick
<1> QED
  BY <1>1, <1>2, <1>3, <1>4, <1>5, <1>6, <1>7, <1>8 DEF Work

LEMMA InitRuns == Init => RunsHold
<1>1. Down("stopped").tick = 0
  BY DEF Down
<1> QED
  BY <1>1 DEF Init, RunsHold

\* The clock and the count of faults only grow, and a tick is of the time it
\* started.
LEMMA ClockStep ==
    ASSUME TypeInv, daemon.tick <= now, [Next]_vars
    PROVE  /\ now <= now' /\ faults <= faults' /\ daemon'.tick <= now'
           /\ daemon'.pc \notin {"stopped", "crashed", "idle"} =>
                  \/ daemon'.tick = now
                  \/ /\ daemon'.tick = daemon.tick
                     /\ daemon.pc \notin {"stopped", "crashed", "idle"}
<1>1. /\ now \in Nat /\ faults \in Nat /\ 0 <= now
      /\ daemon \in DaemonType /\ daemon.tick \in Nat
  BY SchedulerAssumption DEF TypeInv, TypeOK, DaemonType
<1>2. now <= now' /\ faults <= faults' /\ now' \in Nat
  <2>1. now' \in {now, now + 1} /\ faults' \in {faults, faults + 1}
    BY DEF Next, Work, vars, RegisterBegin, RegisterCheck, RegisterInsert,
           SetEnabled, Unregister, StartTick, Heartbeat, Query, TakeNext, EndTick,
           BeginRun, RunReturns, Link, Advance, Exit, TickRaises, FireRaises,
           Crash, Signal, Boot, Tick
  <2> QED
    BY <1>1, <2>1
<1>3. \/ daemon'.pc \in {"stopped", "crashed", "idle"} /\ daemon'.tick = 0
      \/ daemon'.tick = now
      \/ /\ daemon'.tick = daemon.tick
         /\ daemon.pc \notin {"stopped", "crashed", "idle"}
      \/ daemon'.pc = daemon.pc /\ daemon'.tick = daemon.tick
  <2>1. CASE StartTick
    BY <1>1, <2>1 DEF StartTick, DaemonType
  <2>2. CASE Heartbeat \/ Query
    BY <1>1, <2>2 DEF Heartbeat, Query, DaemonType
  <2>3. CASE BeginRun \/ RunReturns \/ Link \/ Advance
    BY <1>1, <2>3 DEF BeginRun, RunReturns, Link, Advance, DaemonType
  <2>4. CASE EndTick \/ TickRaises
    BY <1>1, <2>4 DEF EndTick, TickRaises, DaemonType
  <2>5. CASE TakeNext
    <3>1. PICK e \in daemon.pending :
              daemon' = Down("crashed") \/ daemon'.tick = daemon.tick
      BY <2>5, TakeStep
    <3>2. daemon.pc = "next"
      BY <2>5 DEF TakeNext
    <3> QED
      BY <3>1, <3>2 DEF Down
  <2>6. CASE FireRaises
    BY <1>1, <2>6 DEF FireRaises, DaemonType, Firing
  <2>7. CASE Exit \/ Boot \/ Crash
    BY <2>7 DEF Exit, Boot, Crash, Down
  <2>8. CASE Signal
    BY <1>1, <2>8 DEF Signal, DaemonType
  <2>9. CASE UNCHANGED daemon
    BY <2>9
  <2> QED
    BY <2>1, <2>2, <2>3, <2>4, <2>5, <2>6, <2>7, <2>8, <2>9
       DEF Next, Work, vars, RegisterBegin, RegisterCheck, RegisterInsert,
           SetEnabled, Unregister, Tick
<1> QED
  BY <1>1, <1>2, <1>3

\* What the daemon fires, when no fault strikes: it fires on, advances its row,
\* or takes an entry of its queue; which only the query fills.
LEMMA FireStep ==
    ASSUME TypeInv, [Next]_vars, faults' = faults
    PROVE  /\ daemon.pc \in {"running", "link", "advance"} =>
                  \/ Advance
                  \/ /\ daemon'.pc \in {"running", "link", "advance"}
                     /\ daemon'.entry = daemon.entry
           /\ \/ daemon'.pending \subseteq daemon.pending
              \/ /\ Query
                 /\ daemon'.pending =
                        {EntryOf(n) : n \in {m \in Name : Due(m, daemon.tick)}}
           /\ daemon'.pc = "begin" =>
                  \/ daemon'.entry \in daemon.pending
                  \/ daemon.pc = "begin" /\ daemon'.entry = daemon.entry
<1>0. daemon \in DaemonType
  BY DEF TypeInv, TypeOK
<1>1. CASE StartTick \/ Heartbeat \/ EndTick \/ Signal
  BY <1>0, <1>1 DEF StartTick, Heartbeat, EndTick, Signal, DaemonType
<1>2. CASE Query
  BY <1>0, <1>2 DEF Query, DaemonType
<1>3. CASE BeginRun \/ RunReturns \/ Link \/ Advance
  BY <1>0, <1>3 DEF BeginRun, RunReturns, Link, Advance, DaemonType
<1>4. CASE TakeNext
  <2>1. daemon' = Down("crashed")
        \/ /\ daemon'.pc \in {"begin", "advance"}
           /\ daemon'.entry \in daemon.pending
           /\ daemon'.pending \subseteq daemon.pending
    BY <1>4, TakeStep
  <2>2. daemon.pc = "next"
    BY <1>4 DEF TakeNext
  <2> QED
    BY <2>1, <2>2 DEF Down
<1>5. ~TickRaises /\ ~FireRaises /\ ~Crash
  BY SchedulerAssumption DEF TickRaises, FireRaises, Crash, TypeInv, TypeOK
<1>6. CASE UNCHANGED daemon
  BY <1>6
<1>7. CASE Exit \/ Boot
  BY <1>7 DEF Exit, Boot, IsUp, Down
<1> QED
  BY <1>1, <1>2, <1>3, <1>4, <1>5, <1>6, <1>7
     DEF Next, Work, vars, RegisterBegin, RegisterCheck, RegisterInsert, SetEnabled,
         Unregister, Tick

\* Advancing puts a row past the tick.
LEMMA SlotIsPastTick ==
    ASSUME TypeInv, daemon.pc = "advance"
    PROVE  NextSlot \in Nat /\ daemon.tick \in Nat /\ NextSlot > daemon.tick
<1>1. daemon.entry.cron \in Cron /\ daemon.tick \in 0..MaxTime
  BY DEF TypeInv, TypeOK, DaemonType, Firing, EntryType
<1> QED
  BY <1>1, NextFireType DEF NextSlot

\* What holds of a run goes on holding.
LEMMA RunStep ==
    ASSUME TypeInv, IdsHold, QueueHolds, daemon.tick <= now, [Next]_vars,
           NEW r \in RunType, RunHolds(r)
    PROVE  RunHolds(r)'
<1>1. r.id \in Nat \ {0} /\ r.tick \in Nat /\ r.faults \in Nat
  BY SchedulerAssumption DEF RunType
<1>2. /\ now \in Nat /\ faults \in Nat /\ daemon.tick \in Nat
      /\ now' \in Nat /\ faults' \in Nat /\ daemon'.tick \in Nat
  BY NextType, SchedulerAssumption DEF TypeInv, TypeOK, DaemonType
<1>3. /\ now <= now' /\ faults <= faults' /\ daemon'.tick <= now'
      /\ daemon'.pc \notin {"stopped", "crashed", "idle"} =>
             \/ daemon'.tick = now
             \/ /\ daemon'.tick = daemon.tick
                /\ daemon.pc \notin {"stopped", "crashed", "idle"}
  BY ClockStep
<1>4. r.id <= rows /\ r.id <= rows'
  BY <1>1, RowsStep DEF RunHolds
<1>5. /\ r.faults <= faults' /\ r.tick <= now'
      /\ daemon'.pc \notin {"stopped", "crashed", "idle"} => r.tick <= daemon'.tick
  BY <1>1, <1>2, <1>3 DEF RunHolds
<1>6. ASSUME r.faults = faults' PROVE faults' = faults /\ r.faults = faults
  BY <1>1, <1>2, <1>3, <1>6 DEF RunHolds
<1>7. ASSUME r.faults = faults', NEW n \in Name, table'[n].id = r.id
      PROVE  \/ r.tick < table'[n].next
             \/ /\ daemon'.pc \in {"running", "link", "advance"}
                /\ daemon'.entry.id = r.id
  <2>1. ~Gone(n)
    BY <1>1, <1>7 DEF Gone, Absent
  <2>2. ~Inserted(n)
    BY <1>1, <1>4, <1>7, RowsStep DEF Inserted
  <2>3. Kept(n) /\ table[n].id = r.id
    BY <1>7, <2>1, <2>2, RowStep DEF Kept
  <2>4. CASE table'[n].next # table[n].next
    <3>1. daemon.pc = "advance" /\ table'[n].next = NextSlot
      BY <2>3, <2>4 DEF Kept
    <3>2. r.tick <= daemon.tick
      BY <3>1 DEF RunHolds
    <3> QED
      BY <1>1, <3>1, <3>2, SlotIsPastTick
  <2>5. CASE table'[n].next = table[n].next /\ r.tick < table[n].next
    BY <2>5
  <2>6. CASE /\ daemon.pc \in {"running", "link", "advance"}
             /\ daemon.entry.id = r.id
    <3>1. CASE Advance
      <4>1. daemon.entry \in Queued
        BY <2>6 DEF Queued, Firing
      <4>2. n = daemon.entry.name /\ Present(n)
        BY <1>1, <2>3, <2>6, <4>1 DEF QueueHolds, EntryOf, Present
      <4>3. table[n] \in RowType
        BY <4>2, PresentType DEF TypeInv
      <4>4. table'[n].next = NextSlot
        BY <3>1, <4>2, <4>3 DEF Advance, Advanced, RowType
      <4>5. r.tick <= daemon.tick
        BY <2>6 DEF RunHolds
      <4> QED
        BY <1>1, <3>1, <4>4, <4>5, SlotIsPastTick DEF Advance
    <3>2. CASE ~Advance
      BY <1>6, <1>7, <2>6, <3>2, FireStep
    <3> QED
      BY <3>1, <3>2
  <2> QED
    BY <1>6, <1>7, <2>3, <2>4, <2>5, <2>6 DEF RunHolds
<1>8. ASSUME r.faults = faults', NEW e \in daemon'.pending, e.id = r.id
      PROVE  r.tick < e.slot
  <2>1. CASE e \in daemon.pending
    BY <1>6, <1>8, <2>1 DEF RunHolds
  <2>2. CASE /\ Query
             /\ daemon'.pending =
                    {EntryOf(n) : n \in {m \in Name : Due(m, daemon.tick)}}
    <3>1. PICK n \in Name : e = EntryOf(n)
      BY <1>8, <2>2
    <3>2. table[n].id = r.id /\ e.slot = table[n].next /\ daemon.pc = "query"
      BY <1>8, <2>2, <3>1 DEF EntryOf, Query
    <3> QED
      BY <1>6, <1>8, <3>2 DEF RunHolds
  <2> QED
    BY <1>6, <1>8, <2>1, <2>2, FireStep
<1>9. ASSUME r.faults = faults', daemon'.pc = "begin", daemon'.entry.id = r.id
      PROVE  r.tick < daemon'.entry.slot
  BY <1>6, <1>9, FireStep DEF RunHolds
<1> QED
  BY <1>4, <1>5, <1>7, <1>8, <1>9 DEF RunHolds

\* It holds of the run that begins.
LEMMA RunBegins ==
    ASSUME TypeInv, QueueHolds, RunsHold, daemon.pc = "begin",
           BeginRun \/ FireRaises, NEW r \in RunType, r = NewRun
    PROVE  RunHolds(r)'
<1>1. /\ r.id = daemon.entry.id /\ r.tick = daemon.tick /\ r.faults = faults
      /\ daemon.entry \in EntryType /\ r.id \in Nat \ {0}
  BY SchedulerAssumption DEF NewRun, TypeInv, Firing, EntryType
<1>2. UNCHANGED <<now, table, rows>>
  BY DEF BeginRun, FireRaises
<1>3. /\ daemon'.pending = daemon.pending /\ daemon'.tick = daemon.tick
      /\ daemon'.pc \in {"running", "next"}
      /\ daemon'.pc = "running" => daemon'.entry = daemon.entry
      /\ daemon'.pc = "next" => faults' = faults + 1
      /\ faults' \in {faults, faults + 1}
  BY DEF BeginRun, FireRaises, TypeInv, TypeOK, DaemonType
<1>4. r.id <= rows /\ daemon.tick <= now
  BY <1>1 DEF QueueHolds, Queued, Firing, RunsHold
<1>5. faults \in Nat /\ daemon.tick \in Nat
  BY SchedulerAssumption DEF TypeInv, TypeOK, DaemonType
<1>6. \A e \in daemon.pending : e.id # r.id
  BY <1>1 DEF QueueHolds, Firing
<1> QED
  BY <1>1, <1>2, <1>3, <1>4, <1>5, <1>6 DEF RunHolds

\* The rows of workflow_runs stay, and one may be added.
LEMMA RunsStep ==
    ASSUME TypeInv, [Next]_vars
    PROVE  \/ runs' = runs
           \/ /\ daemon.pc = "begin"
              /\ BeginRun \/ FireRaises
              /\ NewRun \in RunType
              /\ runs' = Append(runs, NewRun)
              /\ Len(runs') = Len(runs) + 1
              /\ runs'[Len(runs) + 1] = NewRun
              /\ \A i \in 1..Len(runs) : runs'[i] = runs[i]
<1>1. \/ runs' = runs
      \/ /\ daemon.pc = "begin" /\ (BeginRun \/ FireRaises)
         /\ runs' = Append(runs, NewRun)
  BY DEF Next, Work, vars, RegisterBegin, RegisterCheck, RegisterInsert, SetEnabled,
         Unregister, StartTick, Heartbeat, Query, TakeNext, EndTick, BeginRun,
         RunReturns, Link, Advance, Exit, TickRaises, FireRaises, Crash, Signal,
         Boot, Tick
<1>2. daemon.pc = "begin" => NewRun \in RunType
  BY UpdateTypes DEF Firing
<1> QED
  BY <1>1, <1>2 DEF TypeInv, TypeOK

LEMMA NextRuns ==
    TypeInv /\ IdsHold /\ QueueHolds /\ RunsHold /\ [Next]_vars => RunsHold'
<1> SUFFICES ASSUME TypeInv, IdsHold, QueueHolds, RunsHold, [Next]_vars
             PROVE  RunsHold'
  OBVIOUS
<1>1. daemon'.tick <= now'
  BY ClockStep DEF RunsHold
<1>2. ASSUME NEW i \in 1..Len(runs') PROVE RunHolds(runs[i])'
  <2>1. PICK r \in RunType : r = runs'[i]
    BY NextType DEF TypeInv, TypeOK
  <2>2. CASE i \in 1..Len(runs) /\ runs'[i] = runs[i]
    <3>1. RunHolds(r)
      BY <2>1, <2>2 DEF RunsHold
    <3>2. RunHolds(r)'
      BY <3>1, RunStep DEF RunsHold
    <3> QED
      BY <2>1, <3>2
  <2>3. CASE /\ daemon.pc = "begin"
             /\ BeginRun \/ FireRaises
             /\ runs'[i] = NewRun
    <3>1. RunHolds(r)'
      BY <2>1, <2>3, RunBegins
    <3> QED
      BY <2>1, <3>1
  <2>4. Len(runs) \in Nat
    BY DEF TypeInv, TypeOK
  <2> QED
    BY <2>2, <2>3, <2>4, RunsStep
<1> QED
  BY <1>1, <1>2 DEF RunsHold

\* A run is under way from its INSERT until it is linked or a fault strikes.
LEMMA RunningStep ==
    ASSUME TypeInv, [Next]_vars
    PROVE  /\ daemon'.pc \in {"running", "link"} =>
                  \/ BeginRun
                  \/ /\ daemon.pc \in {"running", "link"}
                     /\ daemon'.entry = daemon.entry
           /\ daemon.pc \in {"running", "link"} =>
                  \/ faults' = faults + 1
                  \/ Link
                  \/ /\ daemon'.pc \in {"running", "link"}
                     /\ daemon'.entry = daemon.entry
<1>0. daemon \in DaemonType
  BY DEF TypeInv, TypeOK
<1>1. CASE StartTick \/ Heartbeat \/ Query \/ EndTick
  BY <1>0, <1>1 DEF StartTick, Heartbeat, Query, EndTick, DaemonType
<1>2. CASE BeginRun \/ RunReturns \/ Link \/ Advance \/ Signal
  BY <1>0, <1>2 DEF BeginRun, RunReturns, Link, Advance, Signal, DaemonType
<1>3. CASE TakeNext
  <2>1. PICK e \in daemon.pending :
            daemon' = Down("crashed") \/ daemon'.pc \in {"begin", "advance"}
    BY <1>3, TakeStep
  <2>2. daemon.pc = "next"
    BY <1>3 DEF TakeNext
  <2> QED
    BY <2>1, <2>2 DEF Down
<1>4. CASE TickRaises \/ FireRaises
  BY <1>0, <1>4 DEF TickRaises, FireRaises, DaemonType
<1>5. CASE Crash
  BY <1>5 DEF Crash, Down
<1>6. CASE Exit \/ Boot
  BY <1>6 DEF Exit, Boot, IsUp, Down
<1>7. CASE UNCHANGED daemon
  BY <1>7
<1> QED
  BY <1>1, <1>2, <1>3, <1>4, <1>5, <1>6, <1>7
     DEF Next, Work, vars, RegisterBegin, RegisterCheck, RegisterInsert, SetEnabled,
         Unregister, Tick

LEMMA InitLink == Init => LinkHolds /\ LastRunIsItsOwn /\ SkipsNotCatchesUp
<1>1. Down("stopped").pc = "stopped"
  BY DEF Down
<1> QED
  BY <1>1 DEF Init, LinkHolds, LastRunIsItsOwn, SkipsNotCatchesUp, Present, Absent

LEMMA NextLink == TypeInv /\ LinkHolds /\ [Next]_vars => LinkHolds'
<1> SUFFICES ASSUME TypeInv, LinkHolds, [Next]_vars PROVE LinkHolds'
  OBVIOUS
<1>1. /\ Len(runs) \in Nat /\ Len(runs') \in Nat /\ Len(runs') >= Len(runs)
      /\ Len(runs) > 0 /\ ~BeginRun /\ daemon.pc \in {"running", "link"} =>
             Len(runs') = Len(runs) /\ runs'[Len(runs)] = runs[Len(runs)]
  BY RunsStep DEF TypeInv, TypeOK
<1>2. ASSUME NEW n \in Name, Present(n)'
      PROVE  table'[n].lastRun \in 0..Len(runs')
  <2>1. ~Gone(n)
    BY <1>2 DEF Present, Gone, Absent
  <2>2. CASE Inserted(n)
    BY <1>1, <2>2 DEF Inserted, NoRun
  <2>3. CASE Kept(n)
    <3>1. table'[n].lastRun \in {table[n].lastRun, Len(runs)}
      BY <2>3 DEF Kept
    <3>2. table[n].lastRun \in 0..Len(runs)
      BY <2>3 DEF Kept, LinkHolds
    <3> QED
      BY <1>1, <3>1, <3>2
  <2> QED
    BY <2>1, <2>2, <2>3, RowStep
<1>3. ASSUME daemon'.pc \in {"running", "link"}
      PROVE  Len(runs') > 0 /\ runs'[Len(runs')].name = daemon'.entry.name
  <2>1. CASE BeginRun
    <3>1. NewRun \in RunType
      BY <2>1, UpdateTypes DEF BeginRun, Firing
    <3>2. Len(runs') = Len(runs) + 1 /\ runs'[Len(runs')] = NewRun
      BY <2>1, <3>1 DEF BeginRun, TypeInv, TypeOK
    <3>3. daemon'.entry = daemon.entry
      BY <2>1 DEF BeginRun, TypeInv, TypeOK, DaemonType
    <3> QED
      BY <1>1, <3>2, <3>3 DEF NewRun
  <2>2. CASE ~BeginRun
    BY <1>1, <1>3, <2>2, RunningStep DEF LinkHolds
  <2> QED
    BY <2>1, <2>2
<1> QED
  BY <1>2, <1>3 DEF LinkHolds, Present

\* The parts together.
Inv == TypeInv /\ IdsHold /\ QueueHolds /\ RunsHold /\ LinkHolds

LEMMA Invariance == Spec => []Inv
<1>1. Init => Inv
  BY InitType, InitIds, InitQueue, InitRuns, InitLink DEF Inv
<1>2. Inv /\ [Next]_vars => Inv'
  BY NextType, NextIds, NextQueue, NextRuns, NextLink DEF Inv
<1> QED
  BY <1>1, <1>2, PTL DEF Spec

-----------------------------------------------------------------------------
(* The theorems *)

\* Whoever registers a name a second time, and however the two commands' checks
\* and INSERTs interleave, the row of that name stays the one that was registered.
THEOREM RegistrationKept == Spec => RegistrationIsKept
<1>1. ASSUME TypeInv, [Next]_vars, NEW n \in Name, Present(n), Present(n)'
      PROVE  /\ table'[n].id = table[n].id
             /\ table'[n].file = table[n].file
             /\ table'[n].cron = table[n].cron
  <2>1. Kept(n)
    BY <1>1, RowStep DEF Gone, Inserted, Present, Absent
  <2> QED
    BY <2>1 DEF Kept
<1>2. TypeInv /\ [Next]_vars =>
          [\A n \in Name :
              Present(n) /\ Present(n)' =>
                  /\ table'[n].id = table[n].id
                  /\ table'[n].file = table[n].file
                  /\ table'[n].cron = table[n].cron]_vars
  BY <1>1
<1> QED
  BY <1>2, TypeInvariance, PTL DEF Spec, RegistrationIsKept

\* No interleaving of ticks, commands, crashes and failures moves next_run_at
\* back, except the end of a fire whose row was replaced under it.
THEOREM NextForward == Spec => NextMovesForward
<1>1. ASSUME Inv, [Next]_vars, NEW n \in Name, Present(n), Present(n)',
             table'[n].next < table[n].next
      PROVE  /\ daemon.pc = "advance"
             /\ daemon.entry.name = n
             /\ daemon.entry.id # table[n].id
  <2>1. Kept(n)
    BY <1>1, RowStep DEF Gone, Inserted, Present, Absent, Inv
  <2>2. table[n].next \in Nat
    BY <1>1, RowId DEF Inv
  <2>3. /\ daemon.pc = "advance" /\ daemon.entry.name = n
        /\ table'[n].next = NextSlot
    BY <1>1, <2>1, <2>2 DEF Kept
  <2>4. ASSUME daemon.entry.id = table[n].id PROVE FALSE
    <3>1. daemon.entry \in Queued
      BY <2>3 DEF Queued, Firing
    <3>2. daemon.entry.slot = table[n].next /\ daemon.entry.slot <= daemon.tick
      BY <1>1, <2>4, <3>1 DEF Inv, QueueHolds, EntryOf
    <3> QED
      BY <1>1, <2>2, <2>3, <3>2, SlotIsPastTick DEF Inv
  <2> QED
    BY <2>3, <2>4
<1>2. Inv /\ [Next]_vars =>
          [\A n \in Name :
              Present(n) /\ Present(n)' /\ table'[n].next < table[n].next =>
                  /\ daemon.pc = "advance"
                  /\ daemon.entry.name = n
                  /\ daemon.entry.id # table[n].id]_vars
  BY <1>1
<1> QED
  BY <1>2, Invariance, PTL DEF Spec, NextMovesForward

\* However long the query's result waits in the daemon, the entry it is about to
\* fire is what the table holds, or its row was replaced or removed.
THEOREM SnapshotCurrent == Spec => []SnapshotIsCurrent
<1>1. Inv => SnapshotIsCurrent
  <2> SUFFICES ASSUME Inv, NEW e \in daemon.pending,
                      Present(e.name), table[e.name].id = e.id
               PROVE  e = EntryOf(e.name) /\ e.slot <= daemon.tick
    BY DEF SnapshotIsCurrent
  <2>1. e \in Queued /\ e \in EntryType
    BY DEF Queued, Inv, TypeInv, TypeOK, DaemonType
  <2> QED
    BY <2>1 DEF Inv, QueueHolds, EntryType
<1> QED
  BY <1>1, Invariance, PTL

\* A row is not fired again for what an earlier run of it was late for, however
\* slow the runs, as long as no fault kept the daemon from advancing it.
THEOREM SkipNotCatchUp == Spec => []SkipsNotCatchesUp
<1>1. Inv /\ SkipsNotCatchesUp /\ [Next]_vars => SkipsNotCatchesUp'
  <2> SUFFICES ASSUME Inv, SkipsNotCatchesUp, [Next]_vars,
                      NEW i \in 1..Len(runs'), NEW j \in 1..Len(runs'), i < j,
                      runs'[i].id = runs'[j].id, runs'[i].faults = runs'[j].faults
               PROVE  runs'[i].tick < runs'[j].slot
    BY DEF SkipsNotCatchesUp
  <2>1. Len(runs) \in Nat
    BY DEF Inv, TypeInv, TypeOK
  <2>2. CASE runs' = runs
    BY <2>2 DEF SkipsNotCatchesUp
  <2>3. CASE /\ daemon.pc = "begin"
             /\ Len(runs') = Len(runs) + 1
             /\ runs'[Len(runs) + 1] = NewRun
             /\ \A k \in 1..Len(runs) : runs'[k] = runs[k]
    <3>1. i \in 1..Len(runs) /\ runs'[i] = runs[i]
      BY <2>1, <2>3
    <3>2. CASE j = Len(runs) + 1
      <4>1. /\ runs[i].id = daemon.entry.id /\ runs[i].faults = faults
            /\ runs'[j].slot = daemon.entry.slot
        BY <2>3, <3>1, <3>2 DEF NewRun
      <4>2. RunHolds(runs[i])
        BY <3>1 DEF Inv, RunsHold
      <4> QED
        BY <2>3, <3>1, <4>1, <4>2 DEF RunHolds
    <3>3. CASE j # Len(runs) + 1
      BY <2>1, <2>3, <3>1, <3>3 DEF SkipsNotCatchesUp
    <3> QED
      BY <3>2, <3>3
  <2> QED
    BY <2>2, <2>3, RunsStep DEF Inv
<1> QED
  BY <1>1, InitLink, Invariance, PTL DEF Spec

\* Every run was due when its tick began.
FiredWhenDue == \A i \in 1..Len(runs) : runs[i].slot <= runs[i].tick

LEMMA FiredWhenDueHolds == Spec => []FiredWhenDue
<1>1. Init => FiredWhenDue
  BY DEF Init, FiredWhenDue
<1>2. Inv /\ FiredWhenDue /\ [Next]_vars => FiredWhenDue'
  <2> SUFFICES ASSUME Inv, FiredWhenDue, [Next]_vars, NEW i \in 1..Len(runs')
               PROVE  runs'[i].slot <= runs'[i].tick
    BY DEF FiredWhenDue
  <2>1. CASE runs' = runs
    BY <2>1 DEF FiredWhenDue
  <2>2. CASE /\ daemon.pc = "begin"
             /\ Len(runs') = Len(runs) + 1
             /\ runs'[Len(runs) + 1] = NewRun
             /\ \A k \in 1..Len(runs) : runs'[k] = runs[k]
    <3>1. daemon.entry.slot <= daemon.tick
      BY <2>2 DEF Inv, QueueHolds, Queued, Firing
    <3>2. NewRun.slot = daemon.entry.slot /\ NewRun.tick = daemon.tick
      BY DEF NewRun
    <3>3. Len(runs) \in Nat
      BY DEF Inv, TypeInv, TypeOK
    <3> QED
      BY <2>2, <3>1, <3>2, <3>3 DEF FiredWhenDue
  <2> QED
    BY <2>1, <2>2, RunsStep DEF Inv
<1> QED
  BY <1>1, <1>2, Invariance, PTL DEF Spec

\* Where the documentation says that a slot is not fired again: it is only if a fault
\* struck after its first run began, however the daemon is restarted and the schedules
\* are edited.
RefireNeedsFault ==
    \A i, j \in 1..Len(runs) :
        i < j /\ runs[i].id = runs[j].id /\ runs[i].slot = runs[j].slot
        => runs[i].faults < runs[j].faults

\* A later run has seen at least the faults that an earlier one had.
FaultsInOrder == \A i, j \in 1..Len(runs) : i < j => runs[i].faults <= runs[j].faults

LEMMA FaultsGrow == Spec => []FaultsInOrder
<1>1. Init => FaultsInOrder
  BY DEF Init, FaultsInOrder
<1>2. Inv /\ FaultsInOrder /\ [Next]_vars => FaultsInOrder'
  <2> SUFFICES ASSUME Inv, FaultsInOrder, [Next]_vars,
                      NEW i \in 1..Len(runs'), NEW j \in 1..Len(runs'), i < j
               PROVE  runs'[i].faults <= runs'[j].faults
    BY DEF FaultsInOrder
  <2>1. CASE runs' = runs
    BY <2>1 DEF FaultsInOrder
  <2>2. CASE /\ daemon.pc = "begin"
             /\ Len(runs') = Len(runs) + 1
             /\ runs'[Len(runs) + 1] = NewRun
             /\ \A k \in 1..Len(runs) : runs'[k] = runs[k]
    <3>1. Len(runs) \in Nat
      BY DEF Inv, TypeInv, TypeOK
    <3>2. i \in 1..Len(runs) /\ runs'[i] = runs[i]
      BY <2>2, <3>1
    <3>3. runs[i].faults <= faults
      BY <3>2 DEF Inv, RunsHold, RunHolds
    <3>4. NewRun.faults = faults
      BY DEF NewRun
    <3>5. CASE j = Len(runs) + 1
      BY <2>2, <3>2, <3>3, <3>4, <3>5
    <3>6. CASE j # Len(runs) + 1
      BY <2>2, <3>1, <3>2, <3>6 DEF FaultsInOrder
    <3> QED
      BY <3>5, <3>6
  <2> QED
    BY <2>1, <2>2, RunsStep DEF Inv
<1> QED
  BY <1>1, <1>2, Invariance, PTL DEF Spec

\* A slot of a row is fired again only by a run that more faults (a kill, a lost
\* connection) precede than its first run: an advance that committed is never undone.
THEOREM RefiresOnlyAfterFault == Spec => []RefireNeedsFault
<1>1. TypeInv /\ FaultsInOrder /\ FiredWhenDue /\ SkipsNotCatchesUp => RefireNeedsFault
  <2> SUFFICES ASSUME TypeInv, FaultsInOrder, FiredWhenDue, SkipsNotCatchesUp,
                      NEW i \in 1..Len(runs), NEW j \in 1..Len(runs), i < j,
                      runs[i].id = runs[j].id, runs[i].slot = runs[j].slot
               PROVE  runs[i].faults < runs[j].faults
    BY DEF RefireNeedsFault
  <2>0. runs[i] \in RunType /\ runs[j] \in RunType
    BY DEF TypeInv, TypeOK
  <2>1. /\ runs[i].slot \in Nat /\ runs[i].tick \in Nat
        /\ runs[i].faults \in Nat /\ runs[j].faults \in Nat
    BY <2>0, SchedulerAssumption DEF RunType
  <2>2. runs[i].faults # runs[j].faults
    BY <2>1 DEF FiredWhenDue, SkipsNotCatchesUp
  <2> QED
    BY <2>1, <2>2 DEF FaultsInOrder
<1> QED
  BY <1>1, TypeInvariance, FaultsGrow, FiredWhenDueHolds, SkipNotCatchUp, PTL

\* And without faults the documentation is right: whatever restarts, edits and slow runs
\* there are, no slot of a schedule is fired twice.
THEOREM FaultFreeFiresOnce ==
    ASSUME MaxFaults = 0
    PROVE  Spec => []NoSlotFiresTwice
<1>1. TypeInv /\ RefireNeedsFault => NoSlotFiresTwice
  <2> SUFFICES ASSUME TypeInv, RefireNeedsFault,
                      NEW i \in 1..Len(runs), NEW j \in 1..Len(runs),
                      runs[i].id = runs[j].id, runs[i].slot = runs[j].slot
               PROVE  i = j
    BY DEF NoSlotFiresTwice
  <2>1. runs[i] \in RunType /\ runs[j] \in RunType /\ Len(runs) \in Nat
    BY DEF TypeInv, TypeOK
  <2>2. runs[i].faults = 0 /\ runs[j].faults = 0
    BY <2>1 DEF RunType
  <2>3. ~(i < j) /\ ~(j < i)
    BY <2>2 DEF RefireNeedsFault
  <2> QED
    BY <2>1, <2>3
<1> QED
  BY <1>1, TypeInvariance, RefiresOnlyAfterFault, PTL

\* last_run_id never names a run of another schedule, and misses the latest run of
\* its row only while that is under way or when a fault kept it from being linked.
THEOREM LastRunOwn == Spec => []LastRunIsItsOwn
<1>1. Inv /\ LastRunIsItsOwn /\ [Next]_vars => LastRunIsItsOwn'
  <2> SUFFICES ASSUME Inv, LastRunIsItsOwn, [Next]_vars,
                      NEW n \in Name, Present(n)'
               PROVE  /\ table'[n].lastRun # NoRun =>
                             runs'[table'[n].lastRun].name = n
                      /\ \A i \in 1..Len(runs') :
                             /\ runs'[i].id = table'[n].id
                             /\ runs'[i].faults = faults'
                             /\ ~(/\ daemon'.pc \in {"running", "link"}
                                  /\ daemon'.entry.name = n)
                             => table'[n].lastRun >= i
    BY DEF LastRunIsItsOwn, Present
  <2>0. TypeInv
    BY DEF Inv
  <2>1. /\ Len(runs) \in Nat /\ faults \in Nat /\ rows \in Nat
        /\ \A k \in 1..Len(runs) : runs'[k] = runs[k]
        /\ \A k \in 1..Len(runs) : runs[k] \in RunType /\ RunHolds(runs[k])
    BY <2>0, SchedulerAssumption, RunsStep DEF TypeInv, TypeOK, Inv, RunsHold
  <2>2. CASE Inserted(n)
    <3>1. runs' = runs /\ table'[n].id = rows + 1 /\ table'[n].lastRun = NoRun
      BY <2>2 DEF Inserted
    <3>2. \A i \in 1..Len(runs) : runs[i].id # rows + 1
      BY <2>1, SchedulerAssumption DEF RunHolds, RunType
    <3> QED
      BY <3>1, <3>2
  <2>3. CASE Kept(n)
    <3>1. /\ Present(n) /\ table'[n].id = table[n].id
          /\ table[n].lastRun \in 0..Len(runs)
          /\ \/ table'[n].lastRun = table[n].lastRun
             \/ /\ daemon.pc = "link" /\ n = daemon.entry.name
                /\ table'[n].lastRun = Len(runs)
      BY <2>3 DEF Kept, Inv, LinkHolds
    <3>2. table'[n].lastRun # NoRun => runs'[table'[n].lastRun].name = n
      BY <2>1, <3>1 DEF LastRunIsItsOwn, Inv, LinkHolds, NoRun
    <3>3. ASSUME NEW i \in 1..Len(runs'), runs'[i].id = table'[n].id,
                 runs'[i].faults = faults',
                 ~(daemon'.pc \in {"running", "link"} /\ daemon'.entry.name = n)
          PROVE  table'[n].lastRun >= i
      <4>1. CASE i \in 1..Len(runs)
        <5>1. faults' = faults /\ runs[i].faults = faults
          <6>1. runs[i].faults \in Nat /\ runs[i].faults <= faults
            BY <2>1, <4>1, SchedulerAssumption DEF RunHolds, RunType
          <6>2. faults <= faults' /\ runs[i].faults = faults'
            BY <2>0, <2>1, <3>3, <4>1, ClockStep DEF Inv, RunsHold
          <6> QED
            BY <2>1, <6>1, <6>2
        <5>2. CASE daemon.pc \in {"running", "link"} /\ daemon.entry.name = n
          <6>1. Link
            BY <2>0, <2>1, <3>3, <5>1, <5>2, RunningStep
          <6>2. table[n] \in RowType
            BY <2>0, <3>1, PresentType DEF TypeInv
          <6>3. table'[n].lastRun = Len(runs)
            BY <3>1, <5>2, <6>1, <6>2 DEF Link, Linked, RowType
          <6> QED
            BY <2>1, <4>1, <6>3
        <5>3. CASE ~(daemon.pc \in {"running", "link"} /\ daemon.entry.name = n)
          <6>1. table[n].lastRun >= i
            BY <2>1, <3>1, <3>3, <4>1, <5>1, <5>3 DEF LastRunIsItsOwn
          <6> QED
            BY <2>1, <3>1, <4>1, <6>1
        <5> QED
          BY <5>2, <5>3
      <4>2. CASE i \notin 1..Len(runs)
        <5>1. daemon.pc = "begin" /\ (BeginRun \/ FireRaises) /\ runs'[i] = NewRun
          BY <2>0, <2>1, <3>3, <4>2, RunsStep
        <5>2. faults' # faults + 1
          BY <2>1, <3>3, <5>1 DEF NewRun
        <5>3. BeginRun
          BY <5>1, <5>2 DEF FireRaises
        <5>4. daemon'.pc = "running" /\ daemon'.entry = daemon.entry
          BY <2>0, <5>3 DEF BeginRun, TypeInv, TypeOK, DaemonType
        <5>5. daemon.entry \in Queued /\ daemon.entry.id = table[n].id
          BY <3>1, <3>3, <5>1 DEF NewRun, Queued, Firing
        <5>6. daemon.entry.name = n
          BY <5>5 DEF Inv, QueueHolds, EntryOf
        <5> QED
          BY <3>3, <5>4, <5>6
      <4> QED
        BY <4>1, <4>2
    <3> QED
      BY <3>2, <3>3
  <2>4. ~Gone(n)
    BY DEF Present, Gone, Absent
  <2> QED
    BY <2>0, <2>2, <2>3, <2>4, RowStep
<1> QED
  BY <1>1, InitLink, Invariance, PTL DEF Spec

\* A tick queries and fires only under its own heartbeat.
THEOREM HeartbeatFirst == Spec => []HeartbeatComesFirst
<1>1. TypeInv /\ HeartbeatComesFirst /\ [Next]_vars => HeartbeatComesFirst'
  <2> SUFFICES ASSUME TypeInv, HeartbeatComesFirst, [Next]_vars
               PROVE  HeartbeatComesFirst'
    OBVIOUS
  <2>. USE DEF HeartbeatComesFirst, Firing
  <2>0. daemon \in DaemonType
    BY DEF TypeInv, TypeOK
  <2>1. CASE StartTick \/ Heartbeat \/ Query \/ EndTick
    BY <2>0, <2>1 DEF StartTick, Heartbeat, Query, EndTick, DaemonType
  <2>2. CASE BeginRun \/ RunReturns \/ Link \/ Advance \/ Signal
    BY <2>0, <2>2 DEF BeginRun, RunReturns, Link, Advance, Signal, DaemonType
  <2>3. CASE TakeNext
    <3>1. PICK e \in daemon.pending :
              daemon' = Down("crashed") \/ daemon'.tick = daemon.tick
      BY <2>3, TakeStep
    <3>2. daemon.pc = "next" /\ beat' = beat
      BY <2>3 DEF TakeNext
    <3> QED
      BY <3>1, <3>2 DEF Down
  <2>4. CASE TickRaises \/ FireRaises
    BY <2>0, <2>4 DEF TickRaises, FireRaises, DaemonType
  <2>5. CASE Crash \/ Exit \/ Boot
    BY <2>5 DEF Crash, Exit, Boot, Down
  <2>6. CASE UNCHANGED <<daemon, beat>>
    BY <2>6
  <2> QED
    BY <2>1, <2>2, <2>3, <2>4, <2>5, <2>6
       DEF Next, Work, vars, RegisterBegin, RegisterCheck, RegisterInsert,
           SetEnabled, Unregister, Tick
<1>2. Init => HeartbeatComesFirst
  BY DEF Init, HeartbeatComesFirst, Down, Firing
<1> QED
  BY <1>1, <1>2, TypeInvariance, PTL DEF Spec

-----------------------------------------------------------------------------
(* The refinement of Registrations. A command that is past its start holds an offer *)
(* whose file has loaded; the daemon's steps change nothing of what is registered.  *)

Loaded == {o \in Offers : "loads" \in Loads[o.file]}

OffersHold == \A c \in Client : client[c].pc # "idle" => client[c].offer \in Loaded

LEMMA InitOffers == Init => OffersHold
BY DEF Init, OffersHold, IdleClient

LEMMA NextOffers == TypeInv /\ OffersHold /\ [Next]_vars => OffersHold'
<1> SUFFICES ASSUME TypeInv, OffersHold, [Next]_vars PROVE OffersHold'
  OBVIOUS
<1>1. CASE UNCHANGED client
  BY <1>1 DEF OffersHold, Loaded
<1>2. ASSUME NEW c \in Client, RegisterBegin(c) PROVE OffersHold'
  <2>1. PICK o \in Loaded : client' = [client EXCEPT ![c] =
            [pc |-> "check", offer |-> o, next |-> NextFire(o.cron, now)]]
    BY <1>2 DEF RegisterBegin, Loaded
  <2> QED
    BY <2>1 DEF OffersHold, Loaded, TypeInv, TypeOK
<1>3. ASSUME NEW c \in Client, RegisterCheck(c) PROVE OffersHold'
  <2>1. PICK q : q = client[c]
    OBVIOUS
  <2>2. q \in ClientType /\ q.pc = "check" /\ q.offer \in Loaded
    BY <1>3, <2>1 DEF RegisterCheck, OffersHold, TypeInv, TypeOK
  <2>3. PICK new \in {IdleClient, [q EXCEPT !.pc = "insert"]} :
            client' = [client EXCEPT ![c] = new]
    BY <1>3, <2>1 DEF RegisterCheck
  <2>4. new.pc = "idle" \/ new.offer \in Loaded
    BY <2>2, <2>3 DEF IdleClient, ClientType
  <2> QED
    BY <2>3, <2>4 DEF OffersHold, Loaded, TypeInv, TypeOK
<1>4. ASSUME NEW c \in Client, RegisterInsert(c) PROVE OffersHold'
  <2>1. client' = [client EXCEPT ![c] = IdleClient] /\ IdleClient.pc = "idle"
    BY <1>4 DEF RegisterInsert, IdleClient
  <2> QED
    BY <2>1 DEF OffersHold, Loaded, TypeInv, TypeOK
<1>5. CASE ~\E c \in Client : RegisterBegin(c) \/ RegisterCheck(c) \/ RegisterInsert(c)
  BY <1>1, <1>5
     DEF Next, Work, vars, SetEnabled, Unregister, StartTick, Heartbeat, Query, TakeNext,
         EndTick, BeginRun, RunReturns, Link, Advance, Exit, TickRaises, FireRaises, Crash,
         Signal, Boot, Tick
<1> QED
  BY <1>2, <1>3, <1>4, <1>5

\* What is registered by a row w named n.
RegisteredBy(n, w) ==
    IF w.id # 0
    THEN [id |-> w.id, enabled |-> w.enabled,
          offer |-> [name |-> n, file |-> w.file, cron |-> w.cron]]
    ELSE Absent

Entries == [n \in Name |-> Registered(n)]

LEMMA EntryBy == \A n \in Name : Entries[n] = RegisteredBy(n, table[n])
BY DEF Entries, Registered, RegisteredBy, Present

LEMMA OneEntry ==
    ASSUME TypeInv, NEW n \in Name, NEW w, table' = [table EXCEPT ![n] = w]
    PROVE  Entries' = [Entries EXCEPT ![n] = RegisteredBy(n, w)]
BY DEF Entries, Registered, RegisteredBy, Present, TypeInv, TypeOK

LEMMA NoEntryMoves ==
    ASSUME TypeInv,
           \A n \in Name :
               /\ table'[n].id = table[n].id
               /\ Present(n) => /\ table'[n].enabled = table[n].enabled
                                /\ table'[n].file = table[n].file
                                /\ table'[n].cron = table[n].cron
    PROVE  Entries' = Entries
BY DEF Entries, Registered, Present

LEMMA TakenIsPresent ==
    ASSUME TypeInv, NEW n \in Name
    PROVE  Promise!Taken(n) <=> Present(n)
<1>1. Promise!Taken(n) <=> Entries[n] # Promise!NoEntry
  BY DEF Promise!Taken, Entries
<1>2. CASE Present(n)
  <2>1. Entries[n].id # 0
    BY <1>2 DEF Entries, Registered, Present
  <2> QED
    BY <1>1, <1>2, <2>1 DEF Promise!NoEntry
<1>3. CASE ~Present(n)
  BY <1>1, <1>3 DEF Entries, Registered, Promise!NoEntry, Absent
<1> QED
  BY <1>2, <1>3

LEMMA RegisterStep ==
    ASSUME TypeInv, OffersHold, NEW c \in Client, RegisterInsert(c),
           ~UNCHANGED <<table, rows>>
    PROVE  Promise!Next
<1>1. PICK o : o = client[c].offer
  OBVIOUS
<1>2. o \in Loaded /\ o \in Offer
  BY <1>1 DEF RegisterInsert, OffersHold, TypeInv, TypeOK, ClientType
<1>3. o.name \in Name /\ o = [name |-> o.name, file |-> o.file, cron |-> o.cron]
  BY <1>2 DEF Offer
<1>4. PICK w : w = [id |-> rows + 1, enabled |-> TRUE, file |-> o.file, cron |-> o.cron,
                    next |-> client[c].next, lastRun |-> NoRun]
  OBVIOUS
<1>5. /\ ~Present(o.name) /\ rows' = rows + 1
      /\ table' = [table EXCEPT ![o.name] = w]
  BY <1>1, <1>4 DEF RegisterInsert
<1>6. rows + 1 # 0
  BY SchedulerAssumption DEF TypeInv, TypeOK
<1>7. RegisteredBy(o.name, w) = Promise!Entry(rows + 1, o)
  BY <1>3, <1>4, <1>6 DEF RegisteredBy, Promise!Entry
<1>8. Entries' = [Entries EXCEPT ![o.name] = Promise!Entry(rows + 1, o)]
  BY <1>3, <1>5, <1>7, OneEntry
<1>9. ~Promise!Taken(o.name) /\ o \in Promise!OfferOf(o.name)
  BY <1>2, <1>3, <1>5, TakenIsPresent DEF Promise!OfferOf, Loaded
<1>10. Promise!Register(o.name)
  BY <1>5, <1>8, <1>9 DEF Promise!Register, Entries
<1> QED
  BY <1>3, <1>10 DEF Promise!Next

LEMMA SwitchStep ==
    ASSUME TypeInv, NEW n \in Name, SetEnabled(n)
    PROVE  Promise!Next
<1>1. PICK old \in RowType : old = table[n]
  BY PresentType DEF SetEnabled, TypeInv
<1>2. PICK on \in BOOLEAN : on = ~old.enabled
  OBVIOUS
<1>3. PICK w : w = [old EXCEPT !.enabled = on]
  OBVIOUS
<1>4. /\ w.id = old.id /\ w.enabled = on /\ w.file = old.file /\ w.cron = old.cron
      /\ w.id # 0
  BY <1>1, <1>3 DEF RowType
<1>5. table' = [table EXCEPT ![n] = w]
  BY <1>1, <1>2, <1>3 DEF SetEnabled, TypeInv, TypeOK
<1>6. Entries' = [Entries EXCEPT ![n] = RegisteredBy(n, w)]
  BY <1>5, OneEntry
<1>7. RegisteredBy(n, w) = [Entries[n] EXCEPT !.enabled = on]
  <2>1. PICK o : o = [name |-> n, file |-> old.file, cron |-> old.cron]
    OBVIOUS
  <2>2. old.id # 0
    BY <1>1, PresentType DEF SetEnabled, Present
  <2>3. Entries[n] = [id |-> old.id, enabled |-> old.enabled, offer |-> o]
    BY <1>1, <2>1, <2>2, EntryBy DEF RegisteredBy
  <2>4. RegisteredBy(n, w) = [id |-> old.id, enabled |-> on, offer |-> o]
    BY <1>4, <2>1 DEF RegisteredBy
  <2> QED
    BY <2>3, <2>4
<1>8. Promise!Switch(n)
  BY <1>6, <1>7, TakenIsPresent DEF SetEnabled, Promise!Switch, Entries
<1> QED
  BY <1>8 DEF Promise!Next

LEMMA RemoveStep ==
    ASSUME TypeInv, NEW n \in Name, Unregister(n)
    PROVE  Promise!Next
<1>1. Entries' = [Entries EXCEPT ![n] = Absent]
  <2>1. RegisteredBy(n, Absent) = Absent
    BY DEF RegisteredBy, Absent
  <2>2. table' = [table EXCEPT ![n] = Absent]
    BY DEF Unregister
  <2>3. PICK w : w = Absent
    OBVIOUS
  <2>4. Entries' = [Entries EXCEPT ![n] = RegisteredBy(n, w)]
    BY <2>2, <2>3, OneEntry
  <2> QED
    BY <2>1, <2>3, <2>4
<1>2. Promise!Remove(n)
  BY <1>1, TakenIsPresent DEF Unregister, Promise!Remove, Promise!NoEntry, Entries, Absent
<1> QED
  BY <1>2 DEF Promise!Next

LEMMA DaemonUpdates ==
    ASSUME TypeInv, table' = Linked \/ table' = Advanced
    PROVE  Entries' = Entries
<1>1. ASSUME NEW n \in Name
      PROVE  /\ table'[n].id = table[n].id
             /\ Present(n) => /\ table'[n].enabled = table[n].enabled
                              /\ table'[n].file = table[n].file
                              /\ table'[n].cron = table[n].cron
  <2>1. CASE table'[n] = table[n]
    BY <2>1
  <2>2. CASE /\ Present(n)
             /\ \/ table'[n] = [table[n] EXCEPT !.lastRun = Len(runs)]
                \/ table'[n] = [table[n] EXCEPT !.next = NextSlot]
    <3>1. table[n] \in RowType
      BY <2>2, PresentType DEF TypeInv
    <3> QED
      BY <2>2, <3>1 DEF RowType
  <2> QED
    BY <2>1, <2>2 DEF Linked, Advanced
<1> QED
  BY <1>1, NoEntryMoves

LEMMA PromiseStep ==
    ASSUME TypeInv, OffersHold, [Next]_vars
    PROVE  [Promise!Next]_(Promise!vars)
<1>1. CASE UNCHANGED <<table, rows>>
  BY <1>1 DEF Promise!vars, Registered, Present
<1>2. CASE rows' = rows /\ (table' = Linked \/ table' = Advanced)
  <2>1. Entries' = Entries
    BY <1>2, DaemonUpdates
  <2> QED
    BY <1>2, <2>1 DEF Promise!vars, Entries
<1>3. CASE \E c \in Client : RegisterInsert(c)
  BY <1>1, <1>3, RegisterStep
<1>4. CASE \E n \in Name : SetEnabled(n) \/ Unregister(n)
  BY <1>4, SwitchStep, RemoveStep
<1> QED
  BY <1>1, <1>2, <1>3, <1>4
     DEF Next, Work, vars, RegisterBegin, RegisterCheck, StartTick, Heartbeat, Query,
         TakeNext, EndTick, BeginRun, RunReturns, Link, Advance, Exit, TickRaises,
         FireRaises, Crash, Signal, Boot, Tick

\* However commands, ticks, faults and crashes interleave, the table of schedules is
\* the one of Registrations.
THEOREM SchedulerKeepsRegistrations == Spec => KeepsRegistrations
<1>1. Init => Promise!Init
  <2> SUFFICES ASSUME Init PROVE Promise!Init
    OBVIOUS
  <2>1. TypeInv /\ rows = 0 /\ \A n \in Name : ~Present(n)
    BY InitType DEF Init, Present, Absent
  <2>2. \A n \in Name : ~Promise!Taken(n)
    BY <2>1, TakenIsPresent
  <2> QED
    BY <2>1, <2>2 DEF Promise!Init
<1>2. Init => OffersHold
  BY InitOffers
<1>3. TypeInv /\ OffersHold /\ [Next]_vars => OffersHold'
  BY NextOffers
<1>4. TypeInv /\ OffersHold /\ [Next]_vars => [Promise!Next]_(Promise!vars)
  BY PromiseStep
<1> QED
  BY <1>1, <1>2, <1>3, <1>4, TypeInvariance, PTL
     DEF Spec, KeepsRegistrations, Promise!Spec
=============================================================================
