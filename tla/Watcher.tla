------------------------------ MODULE Watcher ------------------------------
(***************************************************************************)
(* The file watcher daemon (src/src/triggers/watcher.py). Its loop keeps a *)
(* pool of watchdog observers in step with the table file_watchers, which  *)
(* the commands of module Registry write; the observers' threads post      *)
(* events into its event loop, where each becomes a coroutine, _fire_one,  *)
(* that runs beside all the others. Between two awaits anybody else moves. *)
(*                                                                         *)
(* The sweep at boot and what a run writes are in module Runner.           *)
(***************************************************************************)
EXTENDS Registry, Sequences

CONSTANTS
    File,       \* workflow files
    NoFile,     \* workflow_file_path is NULL, or there is no such row
    NameOf,     \* NameOf[f]: the name of the workflow in file f, watched or not
    Loads,      \* Loads[f]: what importing file f can do
    Dir,        \* directories
    Faulty,     \* directories watchdog may fail to observe
    Path,       \* Path[d]: files in directory d that change
    Kind,       \* "created", "modified", "deleted"
    Debounce,   \* DEBOUNCE_SECONDS
    MaxEvents,  \* bound of the events posted
    MaxTime,    \* bound of the clock
    MaxFaults   \* bound of the crashes, failures and removed directories

\* A load returns the workflow, raises WorkflowLoadError, or exits the process.
Outcome == {"loads", "fails", "exits"}

\* What register-watcher records; rows older than workflow_file_path hold NULL.
Watch == [name : Name, dir : Dir, kinds : SUBSET Kind, file : File \cup {NoFile}]

AllPaths == UNION {Path[d] : d \in Dir}

ASSUME WatcherAssumption ==
    /\ Name \subseteq Nat             \* the order of workflow_name
    /\ MaxTime \in Nat /\ MaxFaults \in Nat /\ MaxEvents \in Nat
    /\ Debounce \in Nat \ {0}
    /\ NoFile \notin File
    /\ DOMAIN NameOf = File
    /\ Loads \in [File -> SUBSET Outcome]
    /\ Faulty \subseteq Dir
    /\ DOMAIN Path = Dir
    /\ Offers \subseteq Watch /\ \A o \in Offers : o.file \in File
    /\ Legacy \subseteq Watch /\ \A o \in Legacy : o.file = NoFile

VARIABLES
    now,       \* the clock
    daemon,    \* the frame of run_watcher_daemon
    pool,      \* the observers of _ObserverPool
    lastFire,  \* _last_fire
    event,     \* this process's events, in order, with the frame of their _fire_one
    history,   \* history[n]: the file of the latest run of workflow n, any surface
    gone,      \* directories that do not exist at the moment
    faults     \* how many crashes, failures and removals there were

vars == <<registry, now, daemon, pool, lastFire, event, history, gone, faults>>

-----------------------------------------------------------------------------

Never == -1

Key == Name \X AllPaths

\* An observer and its handler: name, directory and events of the row it was
\* started for, and whether its directory was removed since.
Observer == [name : Name, id : 1..MaxRows, dir : Dir, kinds : SUBSET Kind, deaf : BOOLEAN]

\* The loop; "closing" is from stop_all to the end of the process.
DaemonType ==
    [pc : {"stopped", "crashed", "idle", "query", "sync", "closing"},
     asked : BOOLEAN,
     found : SUBSET [name : Name, id : 1..MaxRows, dir : Dir, kinds : SUBSET Kind]]

Down(pc) == [pc |-> pc, asked |-> FALSE, found |-> {}]

IsUp == daemon.pc \notin {"stopped", "crashed"}

\* _fire_one between its awaits, and how it can end: dropped by the debounce,
\* skipped (row disabled, no file, not loadable), run, or raised.
InFlight == {"posted", "select", "resolve", "history", "running"}
Ended == {"debounced", "skipped", "ran", "raised"}

\* obs, kind, id and offer are for the properties: the row the observer was started
\* for, the change, and the row that _fire_one found.
EventType ==
    [pc : InFlight \cup Ended, name : Name, path : AllPaths, kind : Kind,
     obs : 1..MaxRows, at : Nat \cup {Never}, id : 0..MaxRows,
     offer : Offers \cup Legacy, file : File \cup {NoFile}]

Init ==
    /\ RegistryInit
    /\ now = 0
    /\ daemon = Down("stopped")
    /\ pool = {}
    /\ lastFire = [k \in Key |-> Never]
    /\ event = <<>>
    /\ history \in {h \in [Name -> File \cup {NoFile}] :
                        \A n \in Name : h[n] = NoFile \/ NameOf[h[n]] = n}
    /\ gone = {}
    /\ faults = 0

-----------------------------------------------------------------------------
(* The commands *)

\* The file is loaded and the directory must be there before the first statement.
RegisterWatcher(c) ==
    /\ \E o \in Offers :
          /\ "loads" \in Loads[o.file]
          /\ o.dir \notin gone
          /\ BeginRegister(c, o)
    /\ UNCHANGED <<now, daemon, pool, lastFire, event, history, gone, faults>>

WatcherCommands ==
    /\ Commands
    /\ UNCHANGED <<now, daemon, pool, lastFire, event, history, gone, faults>>

-----------------------------------------------------------------------------
(* The loop *)

\* Mutant of GoesOn: the loop does not look at the signal.
GoesOnRegardless == daemon.pc = "idle"

GoesOn == daemon.pc = "idle" /\ ~daemon.asked

\* The loop goes round, and the heartbeat is written: what it is for is in module
\* Deployment.
StartTick ==
    /\ GoesOn
    /\ daemon' = [daemon EXCEPT !.pc = "query"]
    /\ UNCHANGED <<registry, now, pool, lastFire, event, history, gone, faults>>

FoundOf(n) ==
    [name |-> n, id |-> table[n].id, dir |-> table[n].offer.dir,
     kinds |-> table[n].offer.kinds]

\* _enabled_watchers.
Query ==
    /\ daemon.pc = "query"
    /\ daemon' = [daemon EXCEPT !.pc = "sync",
                                !.found = {FoundOf(n) : n \in {m \in Name : Enabled(m)}}]
    /\ touched' = {}
    /\ UNCHANGED <<table, client, rows, now, pool, lastFire, event, history, gone, faults>>

\* The key of an observer is its name and directory.
SameKey(a, b) == a.name = b.name /\ a.dir = b.dir

\* Mutant of Kept: an observer is stopped when its name is not found any more.
KeptByName == {o \in pool : \E w \in daemon.found : o.name = w.name}

\* Observers that go on; the others are stopped and joined.
Kept == {o \in pool : \E w \in daemon.found : SameKey(o, w)}

Missing == {w \in daemon.found : \A o \in Kept : ~SameKey(o, w)}

\* Mutant of Startable: one observer that cannot be started keeps back all others.
StartableAllOrNone(w, raising) == w.dir \notin gone /\ raising = {}

\* The rows in their order, up to the first whose observer cannot be started; a
\* directory that is not there is passed over.
Startable(w, raising) ==
    /\ w.dir \notin gone
    /\ \A v \in Missing : v.name <= w.name /\ v.dir \notin gone => v \notin raising

Started(w) ==
    [name |-> w.name, id |-> w.id, dir |-> w.dir, kinds |-> w.kinds, deaf |-> FALSE]

\* _ObserverPool.sync, without an await: the stops, then the starts. A start that
\* raises gives up the tick.
Sync ==
    /\ daemon.pc = "sync"
    /\ \E raising \in SUBSET {w \in Missing : w.dir \in Faulty} :
          pool' = Kept \cup {Started(w) : w \in {v \in Missing : Startable(v, raising)}}
    /\ daemon' = [daemon EXCEPT !.pc = "idle", !.found = {}]
    /\ UNCHANGED <<registry, now, lastFire, event, history, gone, faults>>

\* Mutant of Stopped: the observers are not stopped.
StoppedNot == pool

\* _ObserverPool.stop_all.
Stopped == {}

\* The loop has seen the signal: stop_all. What is in flight goes on until the
\* process ends.
StopAll ==
    /\ daemon.pc = "idle"
    /\ daemon.asked
    /\ daemon' = [daemon EXCEPT !.pc = "closing"]
    /\ pool' = Stopped
    /\ UNCHANGED <<registry, now, lastFire, event, history, gone, faults>>

-----------------------------------------------------------------------------
(* An event, from watchdog's thread to the end of its coroutine *)

\* on_any_event. A change the handler is not for posts nothing.
Post(o, path, kind) ==
    /\ kind \in o.kinds
    /\ Len(event) < MaxEvents
    /\ event' = Append(event,
          [pc |-> "posted", name |-> o.name, path |-> path, kind |-> kind,
           obs |-> o.id, at |-> Never, id |-> 0, offer |-> SomeOffer,
           file |-> NoFile])
    /\ UNCHANGED <<registry, now, daemon, pool, lastFire, history, gone, faults>>

FileChanges ==
    \E o \in pool : ~o.deaf /\ \E path \in Path[o.dir], kind \in Kind : Post(o, path, kind)

\* Mutant of DebounceKey: a watcher is debounced as a whole.
DebounceKeyOfName(e) == <<event[e].name, CHOOSE p \in AllPaths : TRUE>>

DebounceKey(e) == <<event[e].name, event[e].path>>

ShouldFire(e) ==
    LET last == lastFire[DebounceKey(e)] IN last = Never \/ now - last >= Debounce

\* Mutant of FireRecorded: the fire is recorded where the run begins, after the awaits.
FireRecordedLater(e) == lastFire

FireRecorded(e) ==
    IF ShouldFire(e) THEN [lastFire EXCEPT ![DebounceKey(e)] = now] ELSE lastFire

\* Mutant of AfterDebounce: an event within the window is put off, not dropped.
AfterDebounceOrLater(e) == IF ShouldFire(e) THEN "select" ELSE "posted"

AfterDebounce(e) == IF ShouldFire(e) THEN "select" ELSE "debounced"

\* The coroutines start in the order of their events; the check of the debounce
\* table and the record in it are not separated by an await.
Start(e) ==
    /\ event[e].pc = "posted"
    /\ \A d \in 1..(e - 1) : event[d].pc # "posted"
    /\ event' = [event EXCEPT ![e].pc = AfterDebounce(e), ![e].at = now]
    /\ lastFire' = FireRecorded(e)
    /\ UNCHANGED <<registry, now, daemon, pool, history, gone, faults>>

\* _fire_one returns before the run, or raises: nothing is known of it any more.
Finished(e, pc) ==
    [event EXCEPT ![e] = [@ EXCEPT !.pc = pc, !.id = 0, !.offer = SomeOffer,
                                   !.file = NoFile]]

\* The first SELECT: is there an enabled row of this name?
SelectRow(e) ==
    LET n == event[e].name IN
    /\ event[e].pc = "select"
    /\ event' =
          IF Enabled(n)
          THEN [event EXCEPT ![e] = [@ EXCEPT !.pc = "resolve", !.id = table[n].id,
                                              !.offer = table[n].offer]]
          ELSE Finished(e, "skipped")
    /\ UNCHANGED <<registry, now, daemon, pool, lastFire, history, gone, faults>>

\* The process ends. A crash takes its coroutines, asyncio.run cancels them; the
\* observers and the debounce table go with it.
EndProcess(pc) ==
    /\ daemon' = Down(pc)
    /\ pool' = {}
    /\ lastFire' = [k \in Key |-> Never]
    /\ event' = <<>>

\* import_workflow_from_file on what the SELECT returned, and the call of
\* run_workflow, before the next await. No lock keeps the runs apart.
LoadFile(e, f) ==
    \E outcome \in Loads[f] :
        IF outcome = "exits" THEN EndProcess("crashed")
        ELSE /\ event' = IF outcome = "loads"
                         THEN [event EXCEPT ![e].pc = "running", ![e].file = f]
                         ELSE Finished(e, "skipped")
             /\ UNCHANGED <<daemon, pool, lastFire>>

\* Mutant of Recorded: the second SELECT asks for an enabled row, as the first.
RecordedIfEnabled(n) ==
    {table[m].offer.file : m \in {k \in Name : Enabled(k) /\ k = n}} \ {NoFile}

\* What the second SELECT finds in the row now of this name, enabled or not.
Recorded(n) == {table[m].offer.file : m \in {k \in Name : Present(k) /\ k = n}} \ {NoFile}

\* _resolve_workflow_file_path: the row, or else the run history.
Resolve(e) ==
    /\ event[e].pc = "resolve"
    /\ LET found == Recorded(event[e].name) IN
          \/ \E f \in found : LoadFile(e, f)
          \/ /\ found = {}
             /\ event' = [event EXCEPT ![e].pc = "history"]
             /\ UNCHANGED <<daemon, pool, lastFire>>
    /\ UNCHANGED <<registry, now, history, gone, faults>>

\* The fallback looks for runs of a workflow of the name the watcher has.
ReadHistory(e) ==
    /\ event[e].pc = "history"
    /\ LET f == history[event[e].name] IN
          \/ f # NoFile /\ LoadFile(e, f)
          \/ /\ f = NoFile
             /\ event' = Finished(e, "skipped")
             /\ UNCHANGED <<daemon, pool, lastFire>>
    /\ UNCHANGED <<registry, now, history, gone, faults>>

\* run_workflow returns; how it fares is in module Runner.
RunReturns(e) ==
    /\ event[e].pc = "running"
    /\ event' = [event EXCEPT ![e].pc = "ran"]
    /\ UNCHANGED <<registry, now, daemon, pool, lastFire, history, gone, faults>>

\* A statement of _fire_one raises, run_workflow's included: nobody awaits it, or it
\* is logged.
FireRaises(e) ==
    /\ event[e].pc \in InFlight \ {"posted"}
    /\ event' = Finished(e, "raised")
    /\ UNCHANGED <<registry, now, daemon, pool, lastFire, history, gone, faults>>

FireOne(e) ==
    \/ Start(e) \/ SelectRow(e) \/ Resolve(e) \/ ReadHistory(e)
    \/ RunReturns(e) \/ FireRaises(e)

-----------------------------------------------------------------------------
(* What goes wrong *)

\* The heartbeat or the query raises: the tick is given up, the loop goes on.
TickRaises ==
    /\ daemon.pc = "query"
    /\ faults < MaxFaults
    /\ daemon' = [daemon EXCEPT !.pc = "idle"]
    /\ faults' = faults + 1
    /\ UNCHANGED <<registry, now, pool, lastFire, event, history, gone>>

Crash ==
    /\ IsUp
    /\ faults < MaxFaults
    /\ EndProcess("crashed")
    /\ faults' = faults + 1
    /\ UNCHANGED <<registry, now, history, gone>>

\* A directory is removed: its observers hear no more of it, not even when it is
\* made again, and stay in the pool.
RemoveDir(d) ==
    /\ d \notin gone
    /\ faults < MaxFaults
    /\ gone' = gone \cup {d}
    /\ pool' = {[o EXCEPT !.deaf = @ \/ o.dir = d] : o \in pool}
    /\ faults' = faults + 1
    /\ UNCHANGED <<registry, now, daemon, lastFire, event, history>>

MakeDir(d) ==
    /\ d \in gone
    /\ gone' = gone \ {d}
    /\ UNCHANGED <<registry, now, daemon, pool, lastFire, event, history, faults>>

-----------------------------------------------------------------------------
(* The rest of the world *)

\* A run of the workflow in f begins, here or in another process.
RunInserted(f) ==
    /\ "loads" \in Loads[f] /\ NameOf[f] \in Name
    /\ history' = [history EXCEPT ![NameOf[f]] = f]
    /\ UNCHANGED <<registry, now, daemon, pool, lastFire, event, gone, faults>>

Signal ==
    /\ IsUp
    /\ ~daemon.asked
    /\ daemon' = [daemon EXCEPT !.asked = TRUE]
    /\ UNCHANGED <<registry, now, pool, lastFire, event, history, gone, faults>>

\* asyncio.run ends: what is still in flight is cancelled.
Exit ==
    /\ daemon.pc = "closing"
    /\ EndProcess("stopped")
    /\ UNCHANGED <<registry, now, history, gone, faults>>

Boot ==
    /\ ~IsUp
    /\ daemon' = Down("idle")
    /\ UNCHANGED <<registry, now, pool, lastFire, event, history, gone, faults>>

Tick ==
    /\ now < MaxTime
    /\ now' = now + 1
    /\ UNCHANGED <<registry, daemon, pool, lastFire, event, history, gone, faults>>

Loop == StartTick \/ Query \/ Sync \/ StopAll \/ Exit

Next ==
    \/ Loop
    \/ \E e \in DOMAIN event : FireOne(e)
    \/ FileChanges
    \/ \E c \in Client : RegisterWatcher(c)
    \/ WatcherCommands
    \/ TickRaises \/ Crash \/ Signal \/ Boot \/ Tick
    \/ \E d \in Dir : RemoveDir(d) \/ MakeDir(d)
    \/ \E f \in File : RunInserted(f)

Spec == Init /\ [][Next]_vars

Events == 1..MaxEvents

\* The event loop resumes the loop and every coroutine; a run ends (Runner's
\* EveryRunStops); a crashed daemon is restarted (restart: unless-stopped).
Fairness ==
    /\ WF_vars(Loop)
    /\ \A e \in Events : WF_vars(e \in DOMAIN event /\ FireOne(e))
    /\ WF_vars(daemon.pc = "crashed" /\ Boot)

FairSpec == Spec /\ Fairness

-----------------------------------------------------------------------------
(* Properties *)

\* The variables hold what the columns, the frames and the pool can hold; observers
\* and coroutines are a living process's, and observers are gone when it closes.
TypeOK ==
    /\ RegistryTypeOK
    /\ now \in 0..MaxTime
    /\ daemon \in DaemonType
    /\ pool \in SUBSET Observer
    /\ lastFire \in [Key -> Nat \cup {Never}]
    /\ event \in Seq(EventType)
    /\ history \in [Name -> File \cup {NoFile}]
    /\ gone \in SUBSET Dir
    /\ faults \in 0..MaxFaults
    /\ ~IsUp => event = <<>>
    /\ ~IsUp \/ daemon.pc = "closing" => pool = {}

SameSource(d, e) == event[d].name = event[e].name /\ event[d].path = event[e].path

Accepted(e) == event[e].at # Never /\ event[e].pc # "debounced"

\* The debounce, however coroutines interleave: of two fires of one watcher for one
\* path, in one process, the later comes at least the window after the earlier.
Debounced ==
    \A d, e \in DOMAIN event :
        d < e /\ SameSource(d, e) /\ Accepted(d) /\ Accepted(e)
        => event[e].at >= event[d].at + Debounce

\* It drops nothing else: an event is dropped only for a fire of the same watcher
\* and path less than the window earlier. (A fire that is skipped afterwards, its
\* row disabled or its file unloadable, is such a fire too.)
DropsOnlyBursts ==
    \A e \in DOMAIN event :
        event[e].pc = "debounced" =>
            \E d \in 1..(e - 1) :
                /\ SameSource(d, e) /\ Accepted(d)
                /\ event[e].at < event[d].at + Debounce

\* From outside, the fires are throttled: with _last_fire, which knows one time per watcher
\* and path, coroutines decide as Throttle does with the whole past, and in the order of
\* their events; only the process's end forgets.
VerdictOf(pc) ==
    CASE pc = "posted" -> "waits" [] pc = "debounced" -> "dropped" [] OTHER -> "fires"

Asked ==
    [e \in DOMAIN event |->
        [of |-> <<event[e].name, event[e].path>>, verdict |-> VerdictOf(event[e].pc),
         at |-> event[e].at]]

Debouncing == INSTANCE Throttle
                WITH Source <- Key, Window <- Debounce, clock <- now, asked <- Asked

FiresAreThrottled == Debouncing!Spec

\* After each sync the pool holds observers of enabled rows only, in their present
\* directories and one per name, except for what the commands have changed since
\* the query.
PoolIsCurrent ==
    daemon.pc # "sync" =>
        \A o \in pool :
            /\ \/ o.name \in touched
               \/ Enabled(o.name) /\ table[o.name].offer.dir = o.dir
            /\ \A p \in pool : p.name = o.name => p = o

\* A fire runs the file its row was registered with, although it reads the row twice;
\* another only if that row is gone, or recorded none. And it is for a kind of change
\* its row lists, unless its observer was started for an earlier row: the pool does
\* not see that the events changed.
FiresWhatIsRegistered ==
    \A e \in DOMAIN event :
        LET ev == event[e] IN
        ev.pc \in {"running", "ran"} =>
            /\ \/ ev.file = ev.offer.file
               \/ ev.offer.file = NoFile
               \/ table[ev.name].id # ev.id
            /\ ev.kind \in ev.offer.kinds \/ ev.obs # ev.id

\* An enabled row whose directory can be observed gets its observer, through faults
\* and whatever its neighbours' directories do, unless one before it in the order
\* of names keeps raising.
CanObserve(n) ==
    /\ Enabled(n)
    /\ table[n].offer.dir \notin gone \cup Faulty
    /\ \A m \in Name : m < n /\ Enabled(m) => table[m].offer.dir \notin Faulty

IsObserved(n) == \E o \in pool : o.name = n /\ o.dir = table[n].offer.dir

EnabledIsObserved ==
    \A n \in Name :
        CanObserve(n) ~> ~CanObserve(n) \/ IsObserved(n) \/ daemon.pc = "stopped"

\* Every event posted comes to an end: a run, a reason not to run, or the end of the
\* process.
IsInFlight(e) == e \in DOMAIN event /\ event[e].pc \in InFlight

EventsEnd == \A e \in Events : IsInFlight(e) ~> ~IsInFlight(e)

\* A signal ends the daemon, whatever is in flight.
StopsWhenAsked == daemon.asked ~> ~daemon.asked
=============================================================================
