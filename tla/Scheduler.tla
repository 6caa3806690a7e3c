----------------------------- MODULE Scheduler -----------------------------
(***************************************************************************)
(* The workflow_schedules table and the two who write it: the daemon       *)
(* (src/src/scheduler/daemon.py), one tick at a time, and the `brain`      *)
(* commands (src/src/cli.py) that register, enable, disable and unregister *)
(* schedules while it works. Each database statement commits on its own,   *)
(* and between two of them the other party, a crash or a failure comes in. *)
(*                                                                         *)
(* A run of a workflow is its start, an arbitrary time, and its end: what  *)
(* happens in between is module Runner.                                    *)
(*                                                                         *)
(* A definition marked "Mutant" is a bug the code does not have. Nothing   *)
(* uses it: PROJECT.json names the property that fails once it takes the   *)
(* place of the definition it is a wrong version of.                       *)
(***************************************************************************)
EXTENDS Integers, Sequences

CONSTANTS
    Name,            \* names of schedules
    File,            \* workflow files
    Cron,            \* cron expressions
    NextFire(_, _),  \* CronExpression.next_fire_after
    Loads,           \* Loads[f]: what importing file f can do
    Offers,          \* the registrations a user may make
    Client,          \* `brain register` processes
    MaxTime,         \* bound of the clock
    MaxRows,         \* bound of the schedule rows ever inserted
    MaxFaults        \* bound of the crashes and failed statements

\* A load returns the workflow, raises WorkflowLoadError, or exits the process:
\* the loader catches Exception, and sys.exit() in a file is not one.
Outcome == {"loads", "fails", "exits"}

Offer == [name : Name, file : File, cron : Cron]

ASSUME SchedulerAssumption ==
    /\ MaxTime \in Nat /\ MaxRows \in Nat /\ MaxFaults \in Nat
    /\ Loads \in [File -> SUBSET Outcome]
    /\ Offers \subseteq Offer
    /\ Offers # {}

\* The first fire time strictly after a moment.
ASSUME NextFireAssumption ==
    \A c \in Cron : \A t \in 0..MaxTime :
        /\ NextFire(c, t) \in Nat
        /\ NextFire(c, t) > t
        /\ \A u \in t..MaxTime :
               IF u < NextFire(c, t) THEN NextFire(c, u) = NextFire(c, t)
               ELSE NextFire(c, u) >= NextFire(c, t)

VARIABLES
    now,     \* the clock
    table,   \* table[n]: the row of workflow_schedules named n
    client,  \* client[c]: the frame of a `brain register`
    daemon,  \* the daemon's frame
    beat,    \* daemon_heartbeats.last_tick_at
    runs,    \* the rows of workflow_runs the daemon has started, in order
    rows,    \* how many schedule rows were inserted: the last id given
    faults   \* how many crashes and failed statements there were

vars == <<now, table, client, daemon, beat, runs, rows, faults>>

NoRun == 0

RowType ==
    [id : 1..MaxRows, enabled : BOOLEAN, file : File, cron : Cron, next : Nat,
     lastRun : Nat]

\* No row of that name.
Absent == [id |-> 0]

Present(n) == table[n].id # 0

\* What the daemon's query keeps of a row. The code selects name, file and cron;
\* the id and the slot are there for the properties only.
EntryType ==
    [name : Name, id : 1..MaxRows, file : File, cron : Cron, slot : Nat]

NoEntry == [id |-> 0]

\* "begin" to "advance" are the statements of _fire_one, the fire of daemon.entry.
Firing == {"begin", "running", "link", "advance"}

DaemonType ==
    [pc : Firing \cup {"stopped", "crashed", "idle", "heartbeat", "query", "next"},
     asked : BOOLEAN, tick : 0..MaxTime, pending : SUBSET EntryType,
     entry : EntryType \cup {NoEntry}]

ClientType ==
    [pc : {"idle", "check", "insert"}, offer : Offer, next : Nat]

\* A run the daemon started: for which schedule row and slot, in which tick and
\* after how many faults.
RunType ==
    [name : Name, id : 1..MaxRows, slot : Nat, tick : 0..MaxTime,
     faults : 0..MaxFaults]

Down(pc) ==
    [pc |-> pc, asked |-> FALSE, tick |-> 0, pending |-> {}, entry |-> NoEntry]

IdleClient == [pc |-> "idle", offer |-> CHOOSE o \in Offers : TRUE, next |-> 0]

Init ==
    /\ now = 0
    /\ table = [n \in Name |-> Absent]
    /\ client = [c \in Client |-> IdleClient]
    /\ daemon = Down("stopped")
    /\ beat = 0
    /\ runs = <<>>
    /\ rows = 0
    /\ faults = 0

-----------------------------------------------------------------------------
(* The commands *)

\* _register: the cron and the file are validated and the first fire time is
\* computed before the first statement.
RegisterBegin(c) ==
    /\ client[c].pc = "idle"
    /\ \E o \in Offers :
          /\ "loads" \in Loads[o.file]
          /\ client' = [client EXCEPT ![c] =
                [pc |-> "check", offer |-> o, next |-> NextFire(o.cron, now)]]
    /\ UNCHANGED <<now, table, daemon, beat, runs, rows, faults>>

\* SELECT 1: a name that is taken ends the command.
RegisterCheck(c) ==
    /\ client[c].pc = "check"
    /\ client' = [client EXCEPT ![c] =
          IF Present(@.offer.name) THEN IdleClient ELSE [@ EXCEPT !.pc = "insert"]]
    /\ UNCHANGED <<now, table, daemon, beat, runs, rows, faults>>

\* Mutant of RegisterInsert: the table's names are not UNIQUE, the later INSERT
\* takes the earlier one's place.
RegisterInsertOver(c) ==
    /\ client[c].pc = "insert"
    /\ LET o == client[c].offer IN
          /\ rows < MaxRows
          /\ table' = [table EXCEPT ![o.name] =
                [id |-> rows + 1, enabled |-> TRUE, file |-> o.file,
                 cron |-> o.cron, next |-> client[c].next, lastRun |-> NoRun]]
          /\ rows' = rows + 1
    /\ client' = [client EXCEPT ![c] = IdleClient]
    /\ UNCHANGED <<now, daemon, beat, runs, faults>>

\* The INSERT fails on the UNIQUE name when another command came first.
RegisterInsert(c) ==
    /\ client[c].pc = "insert"
    /\ LET o == client[c].offer IN
          \/ /\ Present(o.name)
             /\ UNCHANGED <<table, rows>>
          \/ /\ ~Present(o.name)
             /\ rows < MaxRows
             /\ table' = [table EXCEPT ![o.name] =
                   [id |-> rows + 1, enabled |-> TRUE, file |-> o.file,
                    cron |-> o.cron, next |-> client[c].next, lastRun |-> NoRun]]
             /\ rows' = rows + 1
    /\ client' = [client EXCEPT ![c] = IdleClient]
    /\ UNCHANGED <<now, daemon, beat, runs, faults>>

\* `brain enable` and `brain disable`: next_run_at stays what it was.
SetEnabled(n) ==
    /\ Present(n)
    /\ table' = [table EXCEPT ![n].enabled = ~@]
    /\ UNCHANGED <<now, client, daemon, beat, runs, rows, faults>>

Unregister(n) ==
    /\ Present(n)
    /\ table' = [table EXCEPT ![n] = Absent]
    /\ UNCHANGED <<now, client, daemon, beat, runs, rows, faults>>

-----------------------------------------------------------------------------
(* One tick of the daemon *)

\* Mutant of StartTick: the loop does not look at the signal.
StartTickRegardless ==
    /\ daemon.pc = "idle"
    /\ daemon' = [daemon EXCEPT !.pc = "heartbeat", !.tick = now]
    /\ UNCHANGED <<now, table, client, beat, runs, rows, faults>>

\* run_daemon's loop: a tick starts unless a signal has come.
StartTick ==
    /\ daemon.pc = "idle"
    /\ ~daemon.asked
    /\ daemon' = [daemon EXCEPT !.pc = "heartbeat", !.tick = now]
    /\ UNCHANGED <<now, table, client, beat, runs, rows, faults>>

\* Mutant of Heartbeat: the row keeps its first last_tick_at.
HeartbeatOnce ==
    /\ daemon.pc = "heartbeat"
    /\ beat' = IF beat = 0 THEN daemon.tick ELSE beat
    /\ daemon' = [daemon EXCEPT !.pc = "query"]
    /\ UNCHANGED <<now, table, client, runs, rows, faults>>

Heartbeat ==
    /\ daemon.pc = "heartbeat"
    /\ beat' = daemon.tick
    /\ daemon' = [daemon EXCEPT !.pc = "query"]
    /\ UNCHANGED <<now, table, client, runs, rows, faults>>

\* _due_schedules: enabled, and next_run_at at or before the tick.
Due(n, t) == Present(n) /\ table[n].enabled /\ table[n].next <= t

EntryOf(n) ==
    [name |-> n, id |-> table[n].id, file |-> table[n].file,
     cron |-> table[n].cron, slot |-> table[n].next]

Query ==
    /\ daemon.pc = "query"
    /\ daemon' = [daemon EXCEPT !.pc = "next",
          !.pending = {EntryOf(n) : n \in {m \in Name : Due(m, daemon.tick)}}]
    /\ UNCHANGED <<now, table, client, beat, runs, rows, faults>>

\* Mutant of TakeNext: a file that does not load leaves its schedule as it is.
TakeNextOrSkip ==
    /\ daemon.pc = "next"
    /\ \E e \in daemon.pending :
         /\ \A f \in daemon.pending : e.slot <= f.slot
         /\ \E outcome \in Loads[e.file] :
              daemon' = IF outcome = "loads"
                        THEN [daemon EXCEPT !.pc = "begin", !.entry = e,
                                            !.pending = @ \ {e}]
                        ELSE [daemon EXCEPT !.pending = @ \ {e}]
    /\ UNCHANGED <<now, table, client, beat, runs, rows, faults>>

\* The loop of daemon_tick, most overdue first (ORDER BY next_run_at), with the
\* import that starts _fire_one: no await separates them.
TakeNext ==
    /\ daemon.pc = "next"
    /\ \E e \in daemon.pending :
         /\ \A f \in daemon.pending : e.slot <= f.slot
         /\ \E outcome \in Loads[e.file] :
              daemon' =
                CASE outcome = "loads" ->
                       [daemon EXCEPT !.pc = "begin", !.entry = e,
                                      !.pending = @ \ {e}]
                  [] outcome = "fails" ->
                       [daemon EXCEPT !.pc = "advance", !.entry = e,
                                      !.pending = @ \ {e}]
                  [] outcome = "exits" -> Down("crashed")
    /\ UNCHANGED <<now, table, client, beat, runs, rows, faults>>

\* The queue is drained: the daemon sleeps.
EndTick ==
    /\ daemon.pc = "next"
    /\ daemon.pending = {}
    /\ daemon' = [daemon EXCEPT !.pc = "idle", !.tick = 0]
    /\ UNCHANGED <<now, table, client, beat, runs, rows, faults>>

\* What run_workflow INSERTs for the entry being fired.
NewRun ==
    [name |-> daemon.entry.name, id |-> daemon.entry.id,
     slot |-> daemon.entry.slot, tick |-> daemon.tick, faults |-> faults]

BeginRun ==
    /\ daemon.pc = "begin"
    /\ runs' = Append(runs, NewRun)
    /\ daemon' = [daemon EXCEPT !.pc = "running"]
    /\ UNCHANGED <<now, table, client, beat, rows, faults>>

RunReturns ==
    /\ daemon.pc = "running"
    /\ daemon' = [daemon EXCEPT !.pc = "link"]
    /\ UNCHANGED <<now, table, client, beat, runs, rows, faults>>

\* Mutant of Linked: the UPDATE loses its WHERE.
LinkedEverywhere ==
    [n \in Name |-> IF Present(n) THEN [table[n] EXCEPT !.lastRun = Len(runs)]
                    ELSE table[n]]

\* UPDATE ... SET last_run_id WHERE workflow_name: the row now of that name, if
\* there is one, whether or not it is the row the query read.
Linked ==
    [n \in Name |-> IF Present(n) /\ n = daemon.entry.name
                    THEN [table[n] EXCEPT !.lastRun = Len(runs)] ELSE table[n]]

Link ==
    /\ daemon.pc = "link"
    /\ table' = Linked
    /\ daemon' = [daemon EXCEPT !.pc = "advance"]
    /\ UNCHANGED <<now, client, beat, runs, rows, faults>>

\* Mutant of NextSlot: the tick is taken for local time, which is behind.
NextSlotLocalTime == NextFire(daemon.entry.cron, daemon.tick - 2)

\* Mutant of NextSlot: the fire time after the slot that was fired.
NextSlotCatchUp == NextFire(daemon.entry.cron, daemon.entry.slot)

\* _advance_next_fire, anchored on the moment the tick started.
NextSlot == NextFire(daemon.entry.cron, daemon.tick)

\* Mutant of Advanced: the UPDATE loses its WHERE.
AdvancedEverywhere ==
    [n \in Name |-> IF Present(n) THEN [table[n] EXCEPT !.next = NextSlot]
                    ELSE table[n]]

\* Mutant of Advanced: an upsert, which brings a removed schedule half back.
AdvancedUpsert ==
    [n \in Name |-> IF n # daemon.entry.name THEN table[n]
                    ELSE IF Present(n) THEN [table[n] EXCEPT !.next = NextSlot]
                    ELSE [Absent EXCEPT !.id = rows + 1]]

\* UPDATE ... SET next_run_at WHERE workflow_name, the same way.
Advanced ==
    [n \in Name |-> IF Present(n) /\ n = daemon.entry.name
                    THEN [table[n] EXCEPT !.next = NextSlot] ELSE table[n]]

Advance ==
    /\ daemon.pc = "advance"
    /\ table' = Advanced
    /\ daemon' = [daemon EXCEPT !.pc = "next", !.entry = NoEntry]
    /\ UNCHANGED <<now, client, beat, runs, rows, faults>>

-----------------------------------------------------------------------------
(* What goes wrong *)

\* A statement of the tick raises, committed or not: the tick is given up.
TickRaises ==
    /\ daemon.pc \in {"heartbeat", "query"}
    /\ faults < MaxFaults
    /\ \/ UNCHANGED beat
       \/ daemon.pc = "heartbeat" /\ beat' = daemon.tick
    /\ daemon' = [daemon EXCEPT !.pc = "idle", !.tick = 0]
    /\ faults' = faults + 1
    /\ UNCHANGED <<now, table, client, runs, rows>>

\* A statement of the fire raises, committed or not, run_workflow's included:
\* the daemon logs it and goes on with the next entry; nothing is advanced.
FireRaises ==
    /\ daemon.pc \in Firing
    /\ faults < MaxFaults
    /\ \/ UNCHANGED <<table, runs>>
       \/ daemon.pc = "begin" /\ runs' = Append(runs, NewRun) /\ UNCHANGED table
       \/ daemon.pc = "link" /\ table' = Linked /\ UNCHANGED runs
       \/ daemon.pc = "advance" /\ table' = Advanced /\ UNCHANGED runs
    /\ daemon' = [daemon EXCEPT !.pc = "next", !.entry = NoEntry]
    /\ faults' = faults + 1
    /\ UNCHANGED <<now, client, beat, rows>>

IsUp == daemon.pc \notin {"stopped", "crashed"}

Crash ==
    /\ IsUp
    /\ faults < MaxFaults
    /\ daemon' = Down("crashed")
    /\ faults' = faults + 1
    /\ UNCHANGED <<now, table, client, beat, runs, rows>>

-----------------------------------------------------------------------------
(* Stopping and starting *)

\* SIGTERM or SIGINT: noted, and looked at between two ticks.
Signal ==
    /\ IsUp
    /\ ~daemon.asked
    /\ daemon' = [daemon EXCEPT !.asked = TRUE]
    /\ UNCHANGED <<now, table, client, beat, runs, rows, faults>>

Exit ==
    /\ daemon.pc = "idle"
    /\ daemon.asked
    /\ daemon' = Down("stopped")
    /\ UNCHANGED <<now, table, client, beat, runs, rows, faults>>

\* The sweep of _recover_orphans is in module Runner; it reads no schedule.
Boot ==
    /\ ~IsUp
    /\ daemon' = Down("idle")
    /\ UNCHANGED <<now, table, client, beat, runs, rows, faults>>

Tick ==
    /\ now < MaxTime
    /\ now' = now + 1
    /\ UNCHANGED <<table, client, daemon, beat, runs, rows, faults>>

Work ==
    \/ StartTick \/ Heartbeat \/ Query \/ TakeNext \/ EndTick
    \/ BeginRun \/ RunReturns \/ Link \/ Advance \/ Exit

Next ==
    \/ Work
    \/ \E c \in Client : RegisterBegin(c) \/ RegisterCheck(c) \/ RegisterInsert(c)
    \/ \E n \in Name : SetEnabled(n) \/ Unregister(n)
    \/ TickRaises \/ FireRaises \/ Crash
    \/ Signal \/ Boot \/ Tick

Spec == Init /\ [][Next]_vars

\* The daemon works while it is up; a crashed one is restarted (restart:
\* unless-stopped), one that was stopped is not, and nobody has to use the CLI.
Fairness ==
    /\ WF_vars(Work)
    /\ WF_vars(daemon.pc = "crashed" /\ Boot)

FairSpec == Spec /\ Fairness

-----------------------------------------------------------------------------
(* Properties *)

\* The variables hold what the columns and the frames can hold.
TypeOK ==
    /\ now \in 0..MaxTime
    /\ table \in [Name -> RowType \cup {Absent}]
    /\ client \in [Client -> ClientType]
    /\ daemon \in DaemonType
    /\ beat \in 0..MaxTime
    /\ runs \in Seq(RunType)
    /\ rows \in 0..MaxRows
    /\ faults \in 0..MaxFaults

\* Skip, not catch up: of two runs of a schedule row the later is for a slot past
\* the tick of the earlier one, unless a crash or a failed statement kept the
\* earlier one from advancing it; a slow run leaves no backlog behind.
SkipsNotCatchesUp ==
    \A i, j \in 1..Len(runs) :
        /\ i < j
        /\ runs[i].id = runs[j].id
        /\ runs[i].faults = runs[j].faults
        => runs[i].tick < runs[j].slot

\* A row that is there stays what was registered, whoever else registers that
\* name between a command's check and its INSERT.
RegistrationIsKept ==
    [][\A n \in Name :
          Present(n) /\ Present(n)' =>
              /\ table'[n].id = table[n].id
              /\ table'[n].file = table[n].file
              /\ table'[n].cron = table[n].cron]_vars

\* Whatever the order of the statements, the commands' and the daemon's, the table
\* is the one of Registrations: a name is taken once, by a schedule that was offered
\* under it and whose file has loaded, and each later row has the next id. The
\* daemon's two UPDATEs add, drop and switch nothing.
Registered(n) ==
    IF Present(n)
    THEN [id |-> table[n].id, enabled |-> table[n].enabled,
          offer |-> [name |-> n, file |-> table[n].file, cron |-> table[n].cron]]
    ELSE Absent

Promise == INSTANCE Registrations
             WITH entry <- [n \in Name |-> Registered(n)], last <- rows,
                  Offer <- {o \in Offers : "loads" \in Loads[o.file]}

KeepsRegistrations == Promise!Spec

\* next_run_at of a row moves only forward; it moves back only when the daemon
\* ends a fire of a row that this one has replaced meanwhile.
NextMovesForward ==
    [][\A n \in Name :
          Present(n) /\ Present(n)' /\ table'[n].next < table[n].next =>
              /\ daemon.pc = "advance"
              /\ daemon.entry.name = n
              /\ daemon.entry.id # table[n].id]_vars

\* last_run_id names a run of this schedule; and the latest one of this row,
\* unless that one is still under way or a fault struck since it began.
LastRunIsItsOwn ==
    \A n \in Name :
        Present(n) =>
            /\ table[n].lastRun # NoRun => runs[table[n].lastRun].name = n
            /\ \A i \in 1..Len(runs) :
                   /\ runs[i].id = table[n].id
                   /\ runs[i].faults = faults
                   /\ ~(daemon.pc \in {"running", "link"} /\ daemon.entry.name = n)
                   => table[n].lastRun >= i

\* What the daemon is about to fire is what the table holds, except for what the
\* CLI has changed since the tick's query: the row was disabled or removed, or
\* is another one.
SnapshotIsCurrent ==
    \A e \in daemon.pending :
        Present(e.name) /\ table[e.name].id = e.id =>
            e = EntryOf(e.name) /\ e.slot <= daemon.tick

\* While a tick fires, daemon_heartbeats shows that tick.
HeartbeatComesFirst ==
    daemon.pc \in Firing \cup {"query", "next"} => beat = daemon.tick

\* A schedule that is due is served: it is advanced past the moment, run or, when
\* its file does not load, not run; unless it is disabled or removed, or the
\* daemon is stopped.
IsDue(n) == Due(n, now)

DueIsServed == \A n \in Name : IsDue(n) ~> ~IsDue(n) \/ daemon.pc = "stopped"

\* A signal ends the daemon, however many entries its tick has left.
StopsWhenAsked == daemon.asked ~> ~daemon.asked

-----------------------------------------------------------------------------
(* What the documentation says and the code does not do *)

\* daemon.py:133: "advance next_run_at to the next cron boundary after right-now".
\* What the daemon writes is past the moment it is written.
AdvancesPastRightNow ==
    [][\A n \in Name :
          Present(n) /\ Present(n)' /\ table'[n].next # table[n].next =>
              table'[n].next > now]_vars

\* ARCHITECTURE.md:149: "a restart doesn't re-fire the same window". No two runs
\* are for the same slot of the same row.
NoSlotFiresTwice ==
    \A i, j \in 1..Len(runs) :
        runs[i].id = runs[j].id /\ runs[i].slot = runs[j].slot => i = j

\* daemon.py:26: a file that cannot be loaded "advances next_run_at". Whatever
\* the other files do, a schedule whose file loads is served.
GoodFilesAreServed ==
    \A n \in Name :
        IsDue(n) /\ Loads[table[n].file] = {"loads"}
        ~> ~IsDue(n) \/ daemon.pc = "stopped"
=============================================================================
