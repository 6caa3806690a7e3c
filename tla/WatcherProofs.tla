---------------------------- MODULE WatcherProofs ----------------------------
(***************************************************************************)
(* Theorems about Watcher, for any names, directories, files, debounce     *)
(* window and bounds.                                                      *)
(***************************************************************************)
EXTENDS Watcher, RegistryProofs, SequenceTheorems

-----------------------------------------------------------------------------
(* What a step does to the registry, to the clock and to the events. *)

TypeInv == TypeOK /\ RegistryInv

LEMMA StepOfRegistry ==
    ASSUME [Next]_vars
    PROVE  RegistryStep /\ (CommandStep \/ Query)
<1>1. CASE UNCHANGED registry
  BY <1>1 DEF RegistryStep, CommandStep
<1>2. CASE \E c \in Client : RegisterWatcher(c)
  BY <1>2 DEF RegisterWatcher, RegistryStep, CommandStep
<1>3. CASE WatcherCommands
  BY <1>3 DEF WatcherCommands, RegistryStep, CommandStep
<1>4. CASE Query
  BY <1>4 DEF Query, RegistryStep
<1> QED
  BY <1>1, <1>2, <1>3, <1>4
     DEF Next, vars, Loop, StartTick, Sync, StopAll, Exit, FireOne, Start, SelectRow,
         Resolve, ReadHistory, RunReturns, FireRaises, FileChanges, Post, TickRaises,
         Crash, Signal, Boot, Tick, RemoveDir, MakeDir, RunInserted

\* The event of a coroutine, whatever becomes of its frame.
SameEvent(a, b) == a.name = b.name /\ a.path = b.path /\ a.kind = b.kind /\ a.obs = b.obs

\* Coroutine e starts, with frame f.
Starts(e, f) ==
    /\ event[e].pc = "posted"
    /\ \A d \in 1..(e - 1) : event[d].pc # "posted"
    /\ f.pc = AfterDebounce(e) /\ f.at = now
    /\ lastFire' = FireRecorded(e)

\* Coroutine e goes on, or ends, with frame f.
Continues(e, f) ==
    /\ event[e].pc \in InFlight \ {"posted"}
    /\ f.pc \notin {"posted", "debounced"}
    /\ f.at = event[e].at
    /\ lastFire' = lastFire

\* How the frame f came about, of the row that was read and the row there is.
Reads(e, f) ==
    \/ event[e].pc = "posted" /\ f.pc \in {"select", "debounced"}
    \/ /\ event[e].pc = "select" /\ f.pc = "resolve"
       /\ Present(event[e].name)
       /\ f.id = table[event[e].name].id /\ f.offer = table[event[e].name].offer
    \/ /\ event[e].pc = "resolve" /\ f.pc = "running"
       /\ f.id = event[e].id /\ f.offer = event[e].offer
       /\ f.file \in Recorded(event[e].name)
    \/ /\ event[e].pc = "resolve" /\ f.pc = "history"
       /\ f.id = event[e].id /\ f.offer = event[e].offer
       /\ Recorded(event[e].name) = {}
    \/ /\ event[e].pc = "history" /\ f.pc = "running"
       /\ f.id = event[e].id /\ f.offer = event[e].offer
    \/ /\ event[e].pc = "running" /\ f.pc = "ran"
       /\ f.id = event[e].id /\ f.offer = event[e].offer /\ f.file = event[e].file
    \/ f.pc \in {"skipped", "raised"}

FrameStep(e, f) ==
    /\ event' = [event EXCEPT ![e] = f]
    /\ SameEvent(event[e], f)
    /\ Starts(e, f) \/ Continues(e, f)
    /\ Reads(e, f)
    /\ UNCHANGED <<registry, now, pool>>

\* p is posted by observer o.
PostStep(o, p) ==
    /\ event' = Append(event, p)
    /\ p.pc = "posted" /\ p.at = Never
    /\ p.name = o.name /\ p.obs = o.id /\ p.kind \in o.kinds
    /\ UNCHANGED <<registry, now, pool, lastFire>>

EndStep ==
    /\ event' = <<>>
    /\ lastFire' = [k \in Key |-> Never]
    /\ pool' = {}
    /\ daemon'.pc \in {"stopped", "crashed"}

EventStep ==
    \/ EndStep
    \/ UNCHANGED <<event, lastFire>>
    \/ \E o \in pool, p \in EventType : PostStep(o, p)
    \/ \E e \in DOMAIN event, f \in EventType : FrameStep(e, f)

LEMMA OfferTypes ==
    /\ SomeOffer \in Offers
    /\ \A o \in Offers \cup Legacy :
           /\ o.name \in Name /\ o.dir \in Dir /\ o.kinds \in SUBSET Kind
           /\ o.file \in File \cup {NoFile}
<1>1. SomeOffer \in Offers
  BY RegistryAssumption DEF SomeOffer
<1>2. \A o \in Offers \cup Legacy : o \in Watch
  BY WatcherAssumption
<1> QED
  BY <1>1, <1>2 DEF Watch

LEMMA RowTypes ==
    ASSUME TypeInv, NEW n \in Name, Present(n)
    PROVE  /\ table[n] \in Row
           /\ table[n].id \in 1..MaxRows /\ table[n].id <= rows
           /\ table[n].offer \in Offers \cup Legacy
BY DEF TypeInv, RegistryInv, RegistryTypeOK, Present, Row, Absent

LEMMA FrameTypes ==
    ASSUME TypeInv, NEW e \in DOMAIN event
    PROVE  event[e] \in EventType /\ DOMAIN event = 1..Len(event) /\ Len(event) \in Nat
BY DEF TypeInv, TypeOK

LEMMA NowType == TypeInv => now \in Nat /\ MaxTime \in Nat
BY WatcherAssumption DEF TypeInv, TypeOK

\* The end of a coroutine without a run.
LEMMA FinishedStep ==
    ASSUME TypeInv, NEW e \in DOMAIN event, event[e].pc \in InFlight \ {"posted"},
           NEW pc \in {"skipped", "raised"}, event' = Finished(e, pc),
           lastFire' = lastFire, UNCHANGED <<registry, now, pool>>
    PROVE  \E f \in EventType : FrameStep(e, f)
<1>1. PICK f : f = [event[e] EXCEPT !.pc = pc, !.id = 0, !.offer = SomeOffer, !.file = NoFile]
  OBVIOUS
<1>2. event[e] \in EventType /\ SomeOffer \in Offers
  BY FrameTypes, OfferTypes
<1>a. 0 \in 0..MaxRows /\ NoFile \in File \cup {NoFile} /\ pc \in InFlight \cup Ended
  BY RegistryAssumption DEF Ended
<1>3. /\ f \in EventType /\ SameEvent(event[e], f) /\ f.pc = pc /\ f.at = event[e].at
  BY <1>1, <1>2, <1>a DEF EventType, SameEvent
<1>4. Continues(e, f) /\ Reads(e, f)
  BY <1>3 DEF Continues, Reads
<1> QED
  BY <1>1, <1>3, <1>4 DEF FrameStep, Finished

\* A coroutine that only moves on.
LEMMA MovedStep ==
    ASSUME TypeInv, NEW e \in DOMAIN event,
           NEW f \in EventType, event' = [event EXCEPT ![e] = f],
           SameEvent(event[e], f), Starts(e, f) \/ Continues(e, f), Reads(e, f),
           UNCHANGED <<registry, now, pool>>
    PROVE  \E g \in EventType : FrameStep(e, g)
BY DEF FrameStep

LEMMA LoadStep ==
    ASSUME TypeInv, NEW e \in DOMAIN event, event[e].pc \in {"resolve", "history"},
           NEW file \in File, LoadFile(e, file),
           event[e].pc = "resolve" => file \in Recorded(event[e].name),
           UNCHANGED <<registry, now>>
    PROVE  EndStep \/ \E f \in EventType : FrameStep(e, f)
<1>1. PICK outcome \in Loads[file] :
          IF outcome = "exits" THEN EndProcess("crashed")
          ELSE /\ event' = IF outcome = "loads"
                           THEN [event EXCEPT ![e].pc = "running", ![e].file = file]
                           ELSE Finished(e, "skipped")
               /\ UNCHANGED <<daemon, pool, lastFire>>
  BY DEF LoadFile
<1>2. CASE outcome = "exits"
  BY <1>1, <1>2 DEF EndProcess, EndStep, Down
<1>3. CASE outcome = "loads"
  <2>1. PICK f : f = [event[e] EXCEPT !.pc = "running", !.file = file]
    OBVIOUS
  <2>2. event[e] \in EventType
    BY FrameTypes
  <2>3. /\ f \in EventType /\ SameEvent(event[e], f) /\ f.pc = "running"
        /\ f.at = event[e].at /\ f.id = event[e].id /\ f.offer = event[e].offer
        /\ f.file = file
    BY <2>1, <2>2 DEF EventType, SameEvent, InFlight
  <2>4. event' = [event EXCEPT ![e] = f] /\ UNCHANGED <<pool, lastFire>>
    BY <1>1, <1>3, <2>1
  <2>5. Continues(e, f) /\ Reads(e, f)
    BY <2>3, <2>4 DEF Continues, Reads, InFlight
  <2> QED
    BY <2>3, <2>4, <2>5, MovedStep
<1>4. CASE outcome \notin {"exits", "loads"}
  BY <1>1, <1>4, FinishedStep DEF InFlight
<1> QED
  BY <1>2, <1>3, <1>4

\* What a step does to the events.
LEMMA StepOfEvents ==
    ASSUME TypeInv, [Next]_vars
    PROVE  EventStep
<1>1. CASE UNCHANGED <<event, lastFire>>
  BY <1>1 DEF EventStep
<1>2. ASSUME NEW o \in pool, NEW path \in Path[o.dir], NEW kind \in Kind,
             Post(o, path, kind)
      PROVE  EventStep
  <2>1. PICK p : p = [pc |-> "posted", name |-> o.name, path |-> path, kind |-> kind,
                      obs |-> o.id, at |-> Never, id |-> 0, offer |-> SomeOffer,
                      file |-> NoFile]
    OBVIOUS
  <2>2. o \in Observer
    BY DEF TypeInv, TypeOK
  <2>3. path \in AllPaths /\ 0 \in 0..MaxRows /\ SomeOffer \in Offers
    BY <2>2, RegistryAssumption, OfferTypes DEF AllPaths, Observer
  <2>4. p \in EventType
    BY <2>1, <2>2, <2>3 DEF EventType, Observer, InFlight
  <2>5. PostStep(o, p)
    BY <1>2, <2>1 DEF Post, PostStep
  <2> QED
    BY <2>4, <2>5 DEF EventStep
<1>3. ASSUME NEW e \in DOMAIN event, Start(e) PROVE EventStep
  <2>1. PICK f : f = [event[e] EXCEPT !.pc = AfterDebounce(e), !.at = now]
    OBVIOUS
  <2>2. event[e] \in EventType /\ now \in Nat
    BY FrameTypes, NowType
  <2>3. AfterDebounce(e) \in {"select", "debounced"}
    BY DEF AfterDebounce
  <2>4. /\ f \in EventType /\ SameEvent(event[e], f)
        /\ f.pc = AfterDebounce(e) /\ f.at = now
    BY <2>1, <2>2, <2>3 DEF EventType, SameEvent, InFlight, Ended
  <2>5. event' = [event EXCEPT ![e] = f] /\ UNCHANGED <<registry, now, pool>>
    BY <1>3, <2>1 DEF Start
  <2>6. Starts(e, f) /\ Reads(e, f)
    BY <1>3, <2>3, <2>4 DEF Start, Starts, Reads
  <2> QED
    BY <2>4, <2>5, <2>6, MovedStep DEF EventStep
<1>4. ASSUME NEW e \in DOMAIN event, SelectRow(e) PROVE EventStep
  <2>1. UNCHANGED <<registry, now, pool, lastFire>> /\ event[e].pc = "select"
    BY <1>4 DEF SelectRow
  <2>2. CASE ~Enabled(event[e].name)
    <3>1. event' = Finished(e, "skipped")
      BY <1>4, <2>2 DEF SelectRow
    <3> QED
      BY <2>1, <3>1, FinishedStep DEF EventStep, InFlight
  <2>3. CASE Enabled(event[e].name)
    <3>1. PICK f : f = [event[e] EXCEPT !.pc = "resolve", !.id = table[event[e].name].id,
                                        !.offer = table[event[e].name].offer]
      OBVIOUS
    <3>2. event[e] \in EventType /\ event[e].name \in Name
      BY FrameTypes DEF EventType
    <3>3. Present(event[e].name)
      BY <2>3 DEF Enabled
    <3>4. /\ table[event[e].name].id \in 0..MaxRows
          /\ table[event[e].name].offer \in Offers \cup Legacy
      BY <3>2, <3>3, RowTypes
    <3>5. /\ f \in EventType /\ SameEvent(event[e], f) /\ f.pc = "resolve"
          /\ f.at = event[e].at /\ f.id = table[event[e].name].id
          /\ f.offer = table[event[e].name].offer
      BY <3>1, <3>2, <3>4 DEF EventType, SameEvent, InFlight
    <3>6. event' = [event EXCEPT ![e] = f]
      BY <1>4, <2>3, <3>1 DEF SelectRow
    <3>7. Continues(e, f) /\ Reads(e, f)
      BY <2>1, <3>3, <3>5 DEF Continues, Reads, InFlight
    <3> QED
      BY <2>1, <3>5, <3>6, <3>7, MovedStep DEF EventStep
  <2> QED
    BY <2>2, <2>3
<1>5. ASSUME NEW e \in DOMAIN event, Resolve(e) PROVE EventStep
  <2>1. UNCHANGED <<registry, now>> /\ event[e].pc = "resolve"
    BY <1>5 DEF Resolve
  <2>2. ASSUME NEW f \in Recorded(event[e].name), LoadFile(e, f) PROVE EventStep
    <3>1. event[e].name \in Name
      BY FrameTypes DEF EventType
    <3>2. f \in File
      BY <3>1, RowTypes, OfferTypes DEF Recorded
    <3> QED
      BY <2>1, <2>2, <3>2, LoadStep DEF EventStep
  <2>3. CASE /\ Recorded(event[e].name) = {}
             /\ event' = [event EXCEPT ![e].pc = "history"]
             /\ UNCHANGED <<daemon, pool, lastFire>>
    <3>1. PICK f : f = [event[e] EXCEPT !.pc = "history"]
      OBVIOUS
    <3>2. event[e] \in EventType
      BY FrameTypes
    <3>3. /\ f \in EventType /\ SameEvent(event[e], f) /\ f.pc = "history"
          /\ f.at = event[e].at /\ f.id = event[e].id /\ f.offer = event[e].offer
      BY <3>1, <3>2 DEF EventType, SameEvent, InFlight
    <3>4. event' = [event EXCEPT ![e] = f]
      BY <2>3, <3>1
    <3>5. Continues(e, f) /\ Reads(e, f)
      BY <2>1, <2>3, <3>3 DEF Continues, Reads, InFlight
    <3> QED
      BY <2>1, <2>3, <3>3, <3>4, <3>5, MovedStep DEF EventStep
  <2> QED
    BY <1>5, <2>2, <2>3 DEF Resolve
<1>6. ASSUME NEW e \in DOMAIN event, ReadHistory(e) PROVE EventStep
  <2>1. UNCHANGED <<registry, now>> /\ event[e].pc = "history"
    BY <1>6 DEF ReadHistory
  <2>2. PICK f : f = history[event[e].name]
    OBVIOUS
  <2>3. CASE f # NoFile /\ LoadFile(e, f)
    <3>1. event[e].name \in Name
      BY FrameTypes DEF EventType
    <3>2. f \in File
      BY <2>2, <2>3, <3>1 DEF TypeInv, TypeOK
    <3> QED
      BY <2>1, <2>3, <3>2, LoadStep DEF EventStep
  <2>4. CASE event' = Finished(e, "skipped") /\ UNCHANGED <<daemon, pool, lastFire>>
    BY <2>1, <2>4, FinishedStep DEF EventStep, InFlight
  <2> QED
    BY <1>6, <2>2, <2>3, <2>4 DEF ReadHistory
<1>7. ASSUME NEW e \in DOMAIN event, RunReturns(e) PROVE EventStep
  <2>1. PICK f : f = [event[e] EXCEPT !.pc = "ran"]
    OBVIOUS
  <2>2. event[e] \in EventType
    BY FrameTypes
  <2>3. /\ f \in EventType /\ SameEvent(event[e], f) /\ f.pc = "ran"
        /\ f.at = event[e].at /\ f.id = event[e].id /\ f.offer = event[e].offer
        /\ f.file = event[e].file
    BY <2>1, <2>2 DEF EventType, SameEvent, Ended
  <2>4. /\ event' = [event EXCEPT ![e] = f] /\ event[e].pc = "running"
        /\ UNCHANGED <<registry, now, pool, lastFire>>
    BY <1>7, <2>1 DEF RunReturns
  <2>5. Continues(e, f) /\ Reads(e, f)
    BY <2>3, <2>4 DEF Continues, Reads, InFlight
  <2> QED
    BY <2>3, <2>4, <2>5, MovedStep DEF EventStep
<1>8. ASSUME NEW e \in DOMAIN event, FireRaises(e) PROVE EventStep
  BY <1>8, FinishedStep DEF FireRaises, EventStep
<1>9. ASSUME NEW pc \in {"stopped", "crashed"}, EndProcess(pc) PROVE EventStep
  BY <1>9 DEF EndProcess, EventStep, EndStep, Down
<1>10. CASE FileChanges
  BY <1>2, <1>10 DEF FileChanges
<1>11. CASE \E e \in DOMAIN event : FireOne(e)
  BY <1>3, <1>4, <1>5, <1>6, <1>7, <1>8, <1>11 DEF FireOne
<1>12. CASE Crash \/ Exit
  BY <1>9, <1>12 DEF Crash, Exit
<1> QED
  BY <1>1, <1>10, <1>11, <1>12
     DEF Next, vars, Loop, StartTick, Query, Sync, StopAll, RegisterWatcher,
         WatcherCommands, TickRaises, Signal, Boot, Tick, RemoveDir, MakeDir,
         RunInserted

-----------------------------------------------------------------------------
(* Types *)

LEMMA DownTypes ==
    ASSUME NEW pc \in {"stopped", "crashed", "idle"}
    PROVE  Down(pc) \in DaemonType /\ Down(pc).pc = pc
BY DEF Down, DaemonType

LEMMA FoundTypes ==
    ASSUME TypeInv, NEW n \in Name, Present(n)
    PROVE  FoundOf(n) \in [name : Name, id : 1..MaxRows, dir : Dir, kinds : SUBSET Kind]
<1>1. table[n].offer.dir \in Dir /\ table[n].offer.kinds \in SUBSET Kind
  BY RowTypes, OfferTypes
<1> QED
  BY <1>1, RowTypes DEF FoundOf

\* The events and the debounce table keep their types.
LEMMA NextEventTypes ==
    ASSUME TypeInv, [Next]_vars
    PROVE  event' \in Seq(EventType) /\ lastFire' \in [Key -> Nat \cup {Never}]
<1>. USE DEF TypeInv, TypeOK
<1>1. EventStep
  BY StepOfEvents
<1>2. CASE EndStep
  BY <1>2 DEF EndStep
<1>3. CASE UNCHANGED <<event, lastFire>>
  BY <1>3
<1>4. CASE \E o \in pool, p \in EventType : PostStep(o, p)
  BY <1>4 DEF PostStep
<1>5. ASSUME NEW e \in DOMAIN event, NEW f \in EventType, FrameStep(e, f)
      PROVE  event' \in Seq(EventType) /\ lastFire' \in [Key -> Nat \cup {Never}]
  <2>1. event' \in Seq(EventType)
    BY <1>5 DEF FrameStep
  <2>2. lastFire' \in {lastFire, [lastFire EXCEPT ![DebounceKey(e)] = now]}
    BY <1>5 DEF FrameStep, Starts, Continues, FireRecorded
  <2> QED
    BY <2>1, <2>2, NowType
<1> QED
  BY <1>1, <1>2, <1>3, <1>4, <1>5 DEF EventStep

\* What an action does to the loop and the pool.
LEMMA NextLoopTypes ==
    ASSUME TypeInv, [Next]_vars
    PROVE  /\ daemon' \in DaemonType /\ pool' \in SUBSET Observer
           /\ daemon'.pc \in {"stopped", "crashed"} => event' = <<>> /\ pool' = {}
           /\ daemon'.pc = "closing" => pool' = {}
<1>. USE DEF TypeInv, TypeOK, IsUp
<1> DEFINE Goal == /\ daemon' \in DaemonType /\ pool' \in SUBSET Observer
                   /\ daemon'.pc \in {"stopped", "crashed"} => event' = <<>> /\ pool' = {}
                   /\ daemon'.pc = "closing" => pool' = {}
<1>1. ASSUME UNCHANGED <<daemon, pool>>, event' = event \/ daemon.pc \notin {"stopped", "crashed"}
      PROVE  Goal
  BY <1>1
<1>2. ASSUME NEW pc \in {"stopped", "crashed"}, EndProcess(pc) PROVE Goal
  BY <1>2, DownTypes DEF EndProcess
<1>3. ASSUME NEW pc \in {"idle", "query"}, IsUp, pool' = pool, event' = event,
             daemon.pc # "closing",
             daemon' = [daemon EXCEPT !.pc = pc]
      PROVE  Goal
  BY <1>3 DEF DaemonType
<1>4. CASE StartTick \/ TickRaises
  BY <1>3, <1>4 DEF StartTick, TickRaises, GoesOn
<1>5. CASE Query
  <2>1. PICK found : /\ found = {FoundOf(n) : n \in {m \in Name : Enabled(m)}}
                     /\ daemon' = [daemon EXCEPT !.pc = "sync", !.found = found]
                     /\ UNCHANGED <<pool, event>>
    BY <1>5 DEF Query
  <2>2. found \in SUBSET [name : Name, id : 1..MaxRows, dir : Dir, kinds : SUBSET Kind]
    BY <2>1, FoundTypes DEF Enabled
  <2>3. daemon' \in DaemonType /\ daemon'.pc = "sync"
    BY <2>1, <2>2 DEF DaemonType
  <2> QED
    BY <2>1, <2>3, <1>5 DEF Query
<1>6. CASE Sync
  <2>1. PICK raising : pool' = Kept \cup {Started(w) : w \in {v \in Missing : Startable(v, raising)}}
    BY <1>6 DEF Sync
  <2>2. \A w \in daemon.found : Started(w) \in Observer
    BY DEF DaemonType, Started, Observer
  <2>3. pool' \in SUBSET Observer
    BY <2>1, <2>2 DEF Kept, Missing
  <2>4. daemon' \in DaemonType /\ daemon'.pc = "idle"
    BY <1>6 DEF Sync, DaemonType
  <2> QED
    BY <2>3, <2>4
<1>7. CASE StopAll
  BY <1>7 DEF StopAll, Stopped, DaemonType
<1>8. CASE Exit \/ Crash
  BY <1>2, <1>8 DEF Exit, Crash
<1>9. CASE Signal
  BY <1>9 DEF Signal, DaemonType
<1>10. CASE Boot
  BY <1>10, DownTypes DEF Boot
<1>11. ASSUME NEW d \in Dir, RemoveDir(d) PROVE Goal
  <2>1. \A o \in pool : [o EXCEPT !.deaf = @ \/ o.dir = d] \in Observer
    BY DEF Observer
  <2>2. pool' = {[o EXCEPT !.deaf = @ \/ o.dir = d] : o \in pool} /\ UNCHANGED <<daemon, event>>
    BY <1>11 DEF RemoveDir
  <2> QED
    BY <2>1, <2>2
<1>12. ASSUME NEW e \in DOMAIN event, FireOne(e) PROVE Goal
  <2>1. daemon.pc \notin {"stopped", "crashed"}
    OBVIOUS
  <2>2. ASSUME NEW f, LoadFile(e, f) PROVE Goal
    BY <2>1, <2>2, <1>1, <1>2 DEF LoadFile
  <2>3. CASE Resolve(e)
    BY <2>1, <2>2, <2>3, <1>1 DEF Resolve
  <2>4. CASE ReadHistory(e)
    BY <2>1, <2>2, <2>4, <1>1 DEF ReadHistory
  <2>5. CASE Start(e) \/ SelectRow(e) \/ RunReturns(e) \/ FireRaises(e)
    BY <2>1, <2>5, <1>1 DEF Start, SelectRow, RunReturns, FireRaises
  <2> QED
    BY <1>12, <2>3, <2>4, <2>5 DEF FireOne
<1>13. CASE FileChanges
  <2>1. pool # {} /\ UNCHANGED <<daemon, pool>>
    BY <1>13 DEF FileChanges, Post
  <2> QED
    BY <2>1, <1>1
<1>14. CASE UNCHANGED <<daemon, pool, event>>
  BY <1>1, <1>14
<1>15. CASE \/ \E c \in Client : RegisterWatcher(c)
            \/ WatcherCommands \/ Tick
            \/ \E d \in Dir : MakeDir(d)
            \/ \E f \in File : RunInserted(f)
  BY <1>14, <1>15 DEF RegisterWatcher, WatcherCommands, Tick, MakeDir, RunInserted
<1> QED
  BY <1>4, <1>5, <1>6, <1>7, <1>8, <1>9, <1>10, <1>11, <1>12, <1>13, <1>14, <1>15
     DEF Next, vars, Loop

\* The clock, the run history, the directories and the fault counter.
LEMMA NextWorldTypes ==
    ASSUME TypeInv, [Next]_vars
    PROVE  /\ now' \in 0..MaxTime /\ now <= now'
           /\ history' \in [Name -> File \cup {NoFile}]
           /\ gone' \in SUBSET Dir /\ faults' \in 0..MaxFaults
<1>. USE DEF TypeInv, TypeOK
<1>1. now \in Nat /\ MaxTime \in Nat /\ faults \in Nat /\ MaxFaults \in Nat
  BY WatcherAssumption
<1>2. CASE Tick
  BY <1>1, <1>2 DEF Tick
<1>3. CASE UNCHANGED <<history, gone, faults>> /\ now' = now
  BY <1>1, <1>3
<1>4. CASE TickRaises \/ Crash
  BY <1>1, <1>4 DEF TickRaises, Crash
<1>5. ASSUME NEW d \in Dir, RemoveDir(d) \/ MakeDir(d)
      PROVE  /\ now' = now /\ gone' \in SUBSET Dir /\ faults' \in 0..MaxFaults
             /\ history' = history
  BY <1>1, <1>5 DEF RemoveDir, MakeDir
<1>6. ASSUME NEW f \in File, RunInserted(f)
      PROVE  /\ history' \in [Name -> File \cup {NoFile}]
             /\ UNCHANGED <<now, gone, faults>>
  BY <1>6 DEF RunInserted
<1>7. CASE \E e \in DOMAIN event : FireOne(e)
  BY <1>3, <1>7 DEF FireOne, Start, SelectRow, Resolve, ReadHistory, RunReturns, FireRaises
<1>8. CASE \/ Loop \/ FileChanges \/ WatcherCommands \/ Signal \/ Boot
           \/ \E c \in Client : RegisterWatcher(c)
           \/ UNCHANGED vars
  BY <1>3, <1>8
     DEF Loop, StartTick, Query, Sync, StopAll, Exit, FileChanges, Post, RegisterWatcher,
         WatcherCommands, Signal, Boot, vars
<1>9. now' = now => now' \in 0..MaxTime /\ now <= now'
  BY <1>1
<1>. HIDE DEF TypeInv, TypeOK
<1>10. gone \in SUBSET Dir /\ faults \in 0..MaxFaults /\ history \in [Name -> File \cup {NoFile}]
  BY DEF TypeInv, TypeOK
<1> QED
  BY <1>2, <1>3, <1>4, <1>5, <1>6, <1>7, <1>8, <1>9, <1>10 DEF Next
LEMMA NextTypes == TypeInv /\ [Next]_vars => TypeInv'
<1> SUFFICES ASSUME TypeInv, [Next]_vars PROVE TypeInv'
  OBVIOUS
<1>1. RegistryInv'
  BY StepOfRegistry, RegistryStepRows DEF TypeInv
<1> QED
  BY <1>1, NextEventTypes, NextLoopTypes, NextWorldTypes
     DEF TypeInv, TypeOK, RegistryInv, IsUp

LEMMA InitTypes == Init => TypeInv
<1> SUFFICES ASSUME Init PROVE TypeInv
  OBVIOUS
<1>1. RegistryInv /\ RegistryTypeOK
  BY RegistryInitial DEF Init, RegistryInv
<1>2. 0 \in 0..MaxTime /\ 0 \in 0..MaxFaults
  BY WatcherAssumption
<1> QED
  BY <1>1, <1>2, DownTypes DEF Init, TypeInv, TypeOK, IsUp, DaemonType

LEMMA TypeInvariance == Spec => []TypeInv
BY InitTypes, NextTypes, PTL DEF Spec

\* Whatever commands, events, faults and directories do, every row, frame and observer
\* keeps its type, and a process that is not there has no events and no observers.
THEOREM TypeCorrect == Spec => []TypeOK
BY TypeInvariance, PTL DEF TypeInv

-----------------------------------------------------------------------------
(* The debounce. Coroutines start in order, so what is posted comes after what has    *)
(* started; and the table holds, for a watcher and a path, the time of the latest fire *)
(* that was accepted. Both are lost together, with the process.                       *)

StartsInOrder ==
    /\ \A e \in DOMAIN event :
          /\ event[e].pc = "posted" <=> event[e].at = Never
          /\ event[e].at # Never => event[e].at <= now
    /\ \A d, e \in DOMAIN event :
          d < e /\ event[d].pc = "posted" => event[e].pc = "posted"

TableIsLatest ==
    /\ \A k \in Key :
          lastFire[k] # Never =>
              /\ lastFire[k] <= now
              /\ \E d \in DOMAIN event :
                    Accepted(d) /\ DebounceKey(d) = k /\ event[d].at = lastFire[k]
    /\ \A d \in DOMAIN event :
          Accepted(d) => /\ lastFire[DebounceKey(d)] # Never
                         /\ event[d].at <= lastFire[DebounceKey(d)]

DebounceInv == StartsInOrder /\ TableIsLatest /\ Debounced /\ DropsOnlyBursts

\* What stays true of an event, and of every other.
LEMMA FrameKeeps ==
    ASSUME TypeInv, NEW e \in DOMAIN event, NEW f \in EventType, FrameStep(e, f)
    PROVE  /\ DOMAIN event' = DOMAIN event
           /\ event'[e] = f
           /\ \A d \in DOMAIN event : d # e => event'[d] = event[d]
           /\ \A d \in DOMAIN event :
                 event'[d].name = event[d].name /\ event'[d].path = event[d].path
BY FrameTypes DEF FrameStep, SameEvent

\* The keys of the table.
LEMMA KeyTypes ==
    ASSUME TypeInv, NEW e \in DOMAIN event
    PROVE  /\ DebounceKey(e) \in Key
           /\ lastFire[DebounceKey(e)] \in Nat \cup {Never}
           /\ event[e].at \in Nat \cup {Never}
<1>1. event[e].name \in Name /\ event[e].path \in AllPaths /\ event[e].at \in Nat \cup {Never}
  BY FrameTypes DEF EventType
<1>2. DebounceKey(e) \in Key
  BY <1>1 DEF DebounceKey, Key
<1> QED
  BY <1>1, <1>2 DEF TypeInv, TypeOK

LEMMA NoEvents ==
    ASSUME event = <<>>, lastFire = [k \in Key |-> Never]
    PROVE  DebounceInv
BY DEF DebounceInv, StartsInOrder, TableIsLatest, Debounced, DropsOnlyBursts

\* Time alone disturbs nothing.
LEMMA DebounceIdle ==
    ASSUME TypeInv, DebounceInv, UNCHANGED <<event, lastFire>>,
           now <= now', now' \in Nat
    PROVE  DebounceInv'
<1>. USE DEF DebounceInv, TypeInv, TypeOK
<1>1. now \in Nat
  BY NowType
<1>2. \A e \in DOMAIN event : event[e].at \in Nat \cup {Never}
  BY KeyTypes
<1>3. StartsInOrder'
  BY <1>1, <1>2 DEF StartsInOrder
<1>4. \A k \in Key : lastFire[k] \in Nat \cup {Never}
  OBVIOUS
<1>5. TableIsLatest'
  BY <1>1, <1>2, <1>4 DEF TableIsLatest, Accepted, DebounceKey
<1>6. Debounced' /\ DropsOnlyBursts'
  BY DEF Debounced, DropsOnlyBursts, Accepted, SameSource
<1> QED
  BY <1>3, <1>5, <1>6

LEMMA DebouncePost ==
    ASSUME TypeInv, DebounceInv, NEW o \in pool, NEW p \in EventType, PostStep(o, p)
    PROVE  DebounceInv'
<1>0. PICK n \in Nat : n = Len(event)
  BY DEF TypeInv, TypeOK
<1>1. /\ DOMAIN event = 1..n
      /\ DOMAIN event' = 1..(n + 1) /\ event'[n + 1] = p
      /\ \A d \in 1..n : event'[d] = event[d]
  BY <1>0 DEF PostStep, TypeInv, TypeOK
<1>2. p.pc = "posted" /\ p.at = Never /\ UNCHANGED <<lastFire, now>>
  BY DEF PostStep
<1>3. ~Accepted(n + 1)' /\ \A d \in 1..n : Accepted(d)' <=> Accepted(d)
  BY <1>1, <1>2 DEF Accepted
<1>4. \A d \in 1..n : DebounceKey(d)' = DebounceKey(d)
  BY <1>1 DEF DebounceKey
<1>5. \A d \in DOMAIN event' : d \in 1..n \/ d = n + 1
  BY <1>1
<1>6. StartsInOrder'
  BY <1>1, <1>2, <1>5 DEF DebounceInv, StartsInOrder
<1>7. TableIsLatest'
  <2>1. \A d \in DOMAIN event' : Accepted(d)' => d \in 1..n
    BY <1>3, <1>5
  <2>2. \A d \in 1..n : d \in DOMAIN event'
    BY <1>1
  <2> QED
    BY <1>1, <1>2, <1>3, <1>4, <2>1, <2>2 DEF DebounceInv, TableIsLatest
<1>8. Debounced'
  <2>1. \A d, e \in 1..n : SameSource(d, e)' <=> SameSource(d, e)
    BY <1>1 DEF SameSource
  <2> QED
    BY <1>1, <1>3, <1>5, <2>1 DEF DebounceInv, Debounced
<1>9. DropsOnlyBursts'
  <2> SUFFICES ASSUME NEW e \in DOMAIN event', event'[e].pc = "debounced"
               PROVE  \E d \in 1..(e - 1) : SameSource(d, e)' /\ Accepted(d)'
                                           /\ event'[e].at < event'[d].at + Debounce
    BY DEF DropsOnlyBursts
  <2>1. e \in 1..n
    BY <1>1, <1>2, <1>5
  <2>2. PICK d \in 1..(e - 1) : /\ SameSource(d, e) /\ Accepted(d)
                                /\ event[e].at < event[d].at + Debounce
    BY <1>1, <2>1 DEF DebounceInv, DropsOnlyBursts
  <2>3. d \in 1..n
    BY <1>1, <2>1
  <2> QED
    BY <1>1, <1>3, <2>1, <2>2, <2>3 DEF SameSource
<1> QED
  BY <1>6, <1>7, <1>8, <1>9 DEF DebounceInv

\* A coroutine that has started keeps the time, the key and the fate it has.
LEMMA DebounceContinue ==
    ASSUME TypeInv, DebounceInv, NEW e \in DOMAIN event, NEW f \in EventType,
           FrameStep(e, f), Continues(e, f)
    PROVE  DebounceInv'
<1>1. DOMAIN event' = DOMAIN event
  BY FrameKeeps
<1>2. ASSUME NEW d \in DOMAIN event
      PROVE  /\ event'[d].at = event[d].at
             /\ event'[d].name = event[d].name /\ event'[d].path = event[d].path
             /\ event'[d].pc = "posted" <=> event[d].pc = "posted"
             /\ event'[d].pc = "debounced" <=> event[d].pc = "debounced"
  <2>1. CASE d = e
    BY <2>1, FrameKeeps DEF Continues, InFlight
  <2>2. CASE d # e
    BY <2>2, FrameKeeps
  <2> QED
    BY <2>1, <2>2
<1>3. lastFire' = lastFire /\ now' = now
  BY DEF FrameStep, Continues
<1>4. \A d \in DOMAIN event : Accepted(d)' <=> Accepted(d)
  BY <1>2 DEF Accepted
<1>5. \A d \in DOMAIN event : DebounceKey(d)' = DebounceKey(d)
  BY <1>2 DEF DebounceKey
<1>6. \A c, d \in DOMAIN event : SameSource(c, d)' <=> SameSource(c, d)
  BY <1>2 DEF SameSource
<1>7. StartsInOrder'
  BY <1>1, <1>2, <1>3 DEF DebounceInv, StartsInOrder
<1>8. TableIsLatest'
  BY <1>1, <1>2, <1>3, <1>4, <1>5 DEF DebounceInv, TableIsLatest
<1>9. Debounced'
  BY <1>1, <1>2, <1>4, <1>6 DEF DebounceInv, Debounced
<1>10. DropsOnlyBursts'
  <2>1. \A d \in DOMAIN event : \A c \in 1..(d - 1) : c \in DOMAIN event
    BY FrameTypes
  <2> QED
    BY <1>1, <1>2, <1>4, <1>6, <2>1 DEF DebounceInv, DropsOnlyBursts
<1> QED
  BY <1>7, <1>8, <1>9, <1>10 DEF DebounceInv

\* A coroutine starts: the events before it have all started, those after it have not.
LEMMA DebounceStart ==
    ASSUME TypeInv, DebounceInv, NEW e \in DOMAIN event, NEW f \in EventType,
           FrameStep(e, f), Starts(e, f)
    PROVE  DebounceInv'
<1>1. DOMAIN event' = DOMAIN event /\ now' = now /\ now \in Nat /\ Debounce \in Nat \ {0}
  BY FrameKeeps, NowType, WatcherAssumption DEF FrameStep
<1>2. /\ event[e].pc = "posted" /\ event[e].at = Never /\ ~Accepted(e)
      /\ event'[e].at = now /\ event'[e].pc = AfterDebounce(e)
  BY FrameKeeps DEF Starts, DebounceInv, StartsInOrder, Accepted
<1>3. \A d \in DOMAIN event : d # e => event'[d] = event[d]
  BY FrameKeeps
<1>4. \A d \in DOMAIN event : /\ DebounceKey(d)' = DebounceKey(d)
                              /\ event[d].at \in Nat \cup {Never}
                              /\ d \in Nat
  <2>1. \A d \in DOMAIN event : DebounceKey(d)' = DebounceKey(d)
    BY FrameKeeps DEF DebounceKey
  <2>2. \A d \in DOMAIN event : event[d].at \in Nat \cup {Never}
    BY KeyTypes
  <2>3. \A d \in DOMAIN event : d \in Nat
    BY FrameTypes
  <2> QED
    BY <2>1, <2>2, <2>3
<1>5. \A c, d \in DOMAIN event : /\ SameSource(c, d)' <=> SameSource(c, d)
                                 /\ SameSource(c, d) <=> DebounceKey(c) = DebounceKey(d)
  BY FrameKeeps DEF SameSource, DebounceKey
<1>6. \A d \in DOMAIN event : d # e => (Accepted(d)' <=> Accepted(d))
  BY <1>3 DEF Accepted
<1>7. ASSUME NEW d \in DOMAIN event, d > e PROVE event[d].pc = "posted" /\ ~Accepted(d)
  BY <1>2, <1>4, <1>7 DEF DebounceInv, StartsInOrder, Accepted
<1>8. ASSUME NEW d \in DOMAIN event, d < e PROVE event[d].pc # "posted"
  BY <1>4, <1>8, FrameTypes DEF Starts
<1>9. now # Never /\ AfterDebounce(e) \in {"select", "debounced"}
  BY <1>1 DEF Never, AfterDebounce
<1>10. StartsInOrder'
  <2>1. ASSUME NEW d \in DOMAIN event
        PROVE  /\ event'[d].pc = "posted" <=> event'[d].at = Never
               /\ event'[d].at # Never => event'[d].at <= now
    BY <1>1, <1>2, <1>3, <1>9 DEF DebounceInv, StartsInOrder
  <2>2. ASSUME NEW c \in DOMAIN event, NEW d \in DOMAIN event, c < d, event'[c].pc = "posted"
        PROVE  event'[d].pc = "posted"
    <3>1. c # e /\ event[c].pc = "posted"
      BY <1>2, <1>3, <1>9, <2>2
    <3>2. d # e
      BY <1>8, <2>2, <3>1
    <3> QED
      BY <1>3, <2>2, <3>1, <3>2 DEF DebounceInv, StartsInOrder
  <2> QED
    BY <1>1, <2>1, <2>2 DEF StartsInOrder
<1>11. CASE ShouldFire(e)
  <2>1. event'[e].pc = "select" /\ Accepted(e)'
    BY <1>2, <1>9, <1>11 DEF AfterDebounce, Accepted
  <2>2. /\ lastFire' = [lastFire EXCEPT ![DebounceKey(e)] = now]
        /\ DebounceKey(e) \in DOMAIN lastFire /\ DOMAIN lastFire = Key
    BY <1>11, KeyTypes DEF Starts, FireRecorded, TypeInv, TypeOK
  <2>3. TableIsLatest'
    <3>1. ASSUME NEW k \in Key, lastFire'[k] # Never
          PROVE  /\ lastFire'[k] <= now
                 /\ \E d \in DOMAIN event :
                       Accepted(d)' /\ DebounceKey(d) = k /\ event'[d].at = lastFire'[k]
      <4>1. CASE k = DebounceKey(e)
        BY <1>1, <1>2, <2>1, <2>2, <4>1
      <4>2. CASE k # DebounceKey(e)
        <5>1. lastFire'[k] = lastFire[k] /\ lastFire[k] # Never
          BY <2>2, <3>1, <4>2
        <5>2. PICK d \in DOMAIN event :
                  Accepted(d) /\ DebounceKey(d) = k /\ event[d].at = lastFire[k]
          BY <5>1 DEF DebounceInv, TableIsLatest
        <5> QED
          BY <1>2, <1>3, <1>6, <5>1, <5>2 DEF DebounceInv, TableIsLatest
      <4> QED
        BY <4>1, <4>2
    <3>2. ASSUME NEW d \in DOMAIN event, Accepted(d)'
          PROVE  /\ lastFire'[DebounceKey(d)] # Never
                 /\ event'[d].at <= lastFire'[DebounceKey(d)]
      <4>1. CASE d = e
        BY <1>1, <1>2, <1>9, <2>2, <4>1
      <4>2. CASE d # e
        <5>1. Accepted(d) /\ event'[d].at = event[d].at
          BY <1>3, <1>6, <3>2, <4>2
        <5>2. event[d].at <= now
          BY <5>1 DEF Accepted, DebounceInv, StartsInOrder
        <5>3. /\ lastFire[DebounceKey(d)] # Never
              /\ event[d].at <= lastFire[DebounceKey(d)]
              /\ DebounceKey(d) \in Key
          BY <5>1, KeyTypes DEF DebounceInv, TableIsLatest
        <5> QED
          BY <1>9, <2>2, <5>1, <5>2, <5>3
      <4> QED
        BY <4>1, <4>2
    <3> QED
      BY <1>1, <1>4, <3>1, <3>2 DEF TableIsLatest
  <2>4. Debounced'
    <3> SUFFICES ASSUME NEW c \in DOMAIN event, NEW d \in DOMAIN event, c < d,
                        SameSource(c, d), Accepted(c)', Accepted(d)'
                 PROVE  event'[d].at >= event'[c].at + Debounce
      BY <1>1, <1>5 DEF Debounced
    <3>1. CASE c = e
      BY <1>4, <1>6, <1>7, <3>1
    <3>2. CASE d = e
      <4>1. Accepted(c) /\ event'[c].at = event[c].at /\ c # e
        BY <1>3, <1>4, <1>6, <3>2
      <4>2. DebounceKey(c) = DebounceKey(e)
        BY <1>5, <3>2
      <4>3. lastFire[DebounceKey(e)] # Never /\ event[c].at <= lastFire[DebounceKey(e)]
        BY <4>1, <4>2 DEF DebounceInv, TableIsLatest
      <4>4. now - lastFire[DebounceKey(e)] >= Debounce
        BY <1>11, <4>3 DEF ShouldFire
      <4>5. lastFire[DebounceKey(e)] \in Nat /\ event[c].at \in Nat
        BY <1>4, <4>1, <4>3, KeyTypes DEF Accepted
      <4> QED
        BY <1>1, <1>2, <3>2, <4>1, <4>3, <4>4, <4>5
    <3>3. CASE c # e /\ d # e
      BY <1>3, <1>6, <3>3 DEF DebounceInv, Debounced
    <3> QED
      BY <3>1, <3>2, <3>3
  <2>5. DropsOnlyBursts'
    <3> SUFFICES ASSUME NEW d \in DOMAIN event, event'[d].pc = "debounced"
                 PROVE  \E c \in 1..(d - 1) : SameSource(c, d)' /\ Accepted(c)'
                                             /\ event'[d].at < event'[c].at + Debounce
      BY <1>1 DEF DropsOnlyBursts
    <3>1. d # e /\ event'[d] = event[d]
      BY <1>3, <2>1
    <3>2. PICK c \in 1..(d - 1) : /\ SameSource(c, d) /\ Accepted(c)
                                  /\ event[d].at < event[c].at + Debounce
      BY <3>1 DEF DebounceInv, DropsOnlyBursts
    <3>3. c \in DOMAIN event /\ c # e
      BY <1>2, <3>2, FrameTypes
    <3> QED
      BY <1>3, <1>5, <1>6, <3>1, <3>2, <3>3
  <2> QED
    BY <1>10, <2>3, <2>4, <2>5 DEF DebounceInv
<1>12. CASE ~ShouldFire(e)
  <2>1. event'[e].pc = "debounced" /\ ~Accepted(e)' /\ lastFire' = lastFire
    BY <1>2, <1>12 DEF AfterDebounce, Accepted, Starts, FireRecorded
  <2>2. \A d \in DOMAIN event : /\ Accepted(d)' <=> Accepted(d)
                                /\ Accepted(d) => event'[d].at = event[d].at
    BY <1>2, <1>3, <1>6, <2>1
  <2>3. TableIsLatest'
    BY <1>1, <1>4, <2>1, <2>2 DEF DebounceInv, TableIsLatest
  <2>4. Debounced'
    BY <1>1, <1>5, <2>2 DEF DebounceInv, Debounced
  <2>5. DropsOnlyBursts'
    <3> SUFFICES ASSUME NEW d \in DOMAIN event, event'[d].pc = "debounced"
                 PROVE  \E c \in 1..(d - 1) : SameSource(c, d)' /\ Accepted(c)'
                                             /\ event'[d].at < event'[c].at + Debounce
      BY <1>1 DEF DropsOnlyBursts
    <3>1. CASE d = e
      <4>1. /\ lastFire[DebounceKey(e)] # Never
            /\ ~(now - lastFire[DebounceKey(e)] >= Debounce)
        BY <1>12 DEF ShouldFire
      <4>2. PICK c \in DOMAIN event : /\ Accepted(c) /\ DebounceKey(c) = DebounceKey(e)
                                     /\ event[c].at = lastFire[DebounceKey(e)]
        BY <4>1, KeyTypes DEF DebounceInv, TableIsLatest
      <4>3. c < e
        BY <1>2, <1>4, <1>7, <4>2
      <4>4. c \in 1..(e - 1)
        BY <4>3, FrameTypes
      <4>5. lastFire[DebounceKey(e)] \in Nat
        BY <4>1, KeyTypes
      <4> QED
        BY <1>1, <1>2, <1>5, <2>2, <3>1, <4>1, <4>2, <4>4, <4>5
    <3>2. CASE d # e
      <4>1. event'[d] = event[d]
        BY <1>3, <3>2
      <4>2. PICK c \in 1..(d - 1) : /\ SameSource(c, d) /\ Accepted(c)
                                    /\ event[d].at < event[c].at + Debounce
        BY <4>1 DEF DebounceInv, DropsOnlyBursts
      <4>3. c \in DOMAIN event
        BY <4>2, FrameTypes
      <4> QED
        BY <1>5, <2>2, <4>1, <4>2, <4>3
    <3> QED
      BY <3>1, <3>2
  <2> QED
    BY <1>10, <2>3, <2>4, <2>5 DEF DebounceInv
<1> QED
  BY <1>11, <1>12

LEMMA NextDebounce == TypeInv /\ DebounceInv /\ [Next]_vars => DebounceInv'
<1> SUFFICES ASSUME TypeInv, DebounceInv, [Next]_vars PROVE DebounceInv'
  OBVIOUS
<1>1. now <= now' /\ now' \in Nat
  BY NextWorldTypes, NowType
<1>2. CASE EndStep
  <2>1. DebounceInv'
    BY <1>2 DEF EndStep, DebounceInv, StartsInOrder, TableIsLatest, Debounced,
                DropsOnlyBursts
  <2> QED
    BY <2>1
<1> QED
  BY <1>1, <1>2, StepOfEvents, DebounceIdle, DebouncePost, DebounceStart,
     DebounceContinue DEF EventStep, FrameStep

LEMMA DebounceInvariance == Spec => []DebounceInv
<1>1. Init => DebounceInv
  BY NoEvents DEF Init
<1> QED
  BY <1>1, TypeInvariance, NextDebounce, PTL DEF Spec

\* Two fires of one watcher for one path are at least the window apart, for any number
\* of coroutines between the check and the record.
THEOREM DebounceHolds == Spec => []Debounced
BY DebounceInvariance, PTL DEF DebounceInv

\* And nothing is dropped but for a fire less than the window earlier.
THEOREM OnlyBurstsDropped == Spec => []DropsOnlyBursts
BY DebounceInvariance, PTL DEF DebounceInv

-----------------------------------------------------------------------------
(* The pool. The list of one query names each watcher once, and is true of the table *)
(* but for what was touched since; sync makes the pool agree with it.                *)

Agrees(o) ==
    \/ o.name \in touched
    \/ Enabled(o.name) /\ table[o.name].offer.dir = o.dir

OnePerName(set) == \A a, b \in set : a.name = b.name => a = b

PoolInv ==
    /\ daemon.pc = "sync" => \A w \in daemon.found : Agrees(w)
    /\ OnePerName(daemon.found)
    /\ OnePerName(pool)
    /\ daemon.pc # "sync" => \A o \in pool : Agrees(o)

\* What agrees with the table goes on to, except where a query resets touched.
LEMMA AgreesOn ==
    ASSUME TypeInv, [Next]_vars, ~Query, NEW o, o.name \in Name, Agrees(o)
    PROVE  Agrees(o)'
<1>1. /\ touched \subseteq touched'
      /\ \A n \in Name \ touched' : table'[n] = table[n]
  BY StepOfRegistry, CommandStepRows DEF TypeInv
<1> QED
  BY <1>1 DEF Agrees, Enabled, Present

\* The rows a query finds.
LEMMA QueryFinds ==
    ASSUME TypeInv, Query
    PROVE  /\ \A w \in daemon'.found : Agrees(w)'
           /\ OnePerName(daemon'.found)
           /\ daemon'.pc = "sync" /\ pool' = pool
<1>1. PICK found : /\ found = {FoundOf(n) : n \in {m \in Name : Enabled(m)}}
                   /\ daemon' = [daemon EXCEPT !.pc = "sync", !.found = found]
                   /\ pool' = pool /\ table' = table
  BY DEF Query
<1>2. daemon'.pc = "sync" /\ daemon'.found = found
  BY <1>1 DEF TypeInv, TypeOK, DaemonType
<1>3. \A w \in found : Enabled(w.name) /\ w = FoundOf(w.name)
  BY <1>1 DEF FoundOf
<1>4. \A w \in found : Agrees(w)'
  BY <1>1, <1>3 DEF Agrees, FoundOf, Enabled, Present
<1>5. OnePerName(found)
  BY <1>3 DEF OnePerName
<1> QED
  BY <1>1, <1>2, <1>4, <1>5

LEMMA PoolType ==
    ASSUME TypeInv
    PROVE  /\ \A o \in pool : o \in Observer /\ o.name \in Name
           /\ \A w \in daemon.found : w.name \in Name
BY DEF TypeInv, TypeOK, Observer, DaemonType

\* What sync makes of the pool: every observer is that of a row found, and none has
\* the name of another.
LEMMA SyncStep ==
    ASSUME TypeInv, PoolInv, Sync
    PROVE  PoolInv'
<1>1. PICK raising :
          pool' = Kept \cup {Started(w) : w \in {v \in Missing : Startable(v, raising)}}
  BY DEF Sync
<1>2. daemon.pc = "sync" /\ daemon'.pc = "idle" /\ daemon'.found = {} /\ UNCHANGED registry
  BY DEF Sync, TypeInv, TypeOK, DaemonType
<1>3. \A o \in pool' : \E w \in daemon.found : SameKey(o, w)
  BY <1>1 DEF Kept, Missing, Started, SameKey
<1>4. \A o \in pool' : Agrees(o)'
  BY <1>2, <1>3 DEF PoolInv, Agrees, SameKey, registry, Enabled, Present
<1>5. OnePerName(pool')
  <2>1. \A o \in pool' : \/ o \in Kept
                         \/ \E w \in Missing : o = Started(w)
    BY <1>1
  <2>2. \A o, p \in Kept : o.name = p.name => o = p
    BY DEF Kept, PoolInv, OnePerName
  <2>3. ASSUME NEW o \in Kept, NEW w \in Missing, o.name = Started(w).name
        PROVE  FALSE
    <3>1. PICK v \in daemon.found : SameKey(o, v)
      BY DEF Kept
    <3>2. v = w
      BY <2>3, <3>1 DEF SameKey, Started, Missing, PoolInv, OnePerName
    <3> QED
      BY <3>1, <3>2 DEF Missing
  <2>4. \A v, w \in Missing : Started(v).name = Started(w).name => v = w
    BY DEF Started, Missing, PoolInv, OnePerName
  <2> QED
    BY <2>1, <2>2, <2>3, <2>4 DEF OnePerName
<1> QED
  BY <1>2, <1>4, <1>5 DEF PoolInv, OnePerName

LEMMA NextPool == TypeInv /\ PoolInv /\ [Next]_vars => PoolInv'
<1> SUFFICES ASSUME TypeInv, PoolInv, [Next]_vars PROVE PoolInv'
  OBVIOUS
<1>1. CASE Query
  BY <1>1, QueryFinds DEF PoolInv, OnePerName
<1>2. CASE Sync
  BY <1>2, SyncStep
<1>3. ASSUME ~Query, UNCHANGED <<pool, daemon>> PROVE PoolInv'
  BY <1>3, AgreesOn, PoolType DEF PoolInv, OnePerName
<1>4. ASSUME ~Query, pool' = pool, daemon'.found = daemon.found,
             daemon.pc # "sync", daemon'.pc # "sync"
      PROVE  PoolInv'
  BY <1>4, AgreesOn, PoolType DEF PoolInv, OnePerName
<1>5. ASSUME pool' = {}, daemon'.found = {}, daemon'.pc # "sync" PROVE PoolInv'
  BY <1>5 DEF PoolInv, OnePerName
<1>6. \A pc \in STRING : /\ [daemon EXCEPT !.pc = pc].found = daemon.found
                        /\ [daemon EXCEPT !.pc = pc].pc = pc
  BY DEF TypeInv, TypeOK, DaemonType
<1>7. CASE StartTick
  <2>1. ~Query
    BY <1>7 DEF StartTick, GoesOn, Query
  <2> QED
    BY <1>4, <1>6, <1>7, <2>1 DEF StartTick, GoesOn
<1>8. CASE TickRaises
  <2>1. daemon.pc = "query" /\ daemon' = [daemon EXCEPT !.pc = "idle"] /\ pool' = pool
    BY <1>8 DEF TickRaises
  <2>2. ~Query
    BY <1>6, <2>1, QueryFinds
  <2> QED
    BY <1>4, <1>6, <2>1, <2>2
<1>9. CASE StopAll
  <2>1. pool' = {} /\ daemon'.pc = "closing" /\ daemon'.found = daemon.found
    BY <1>6, <1>9 DEF StopAll, Stopped
  <2> QED
    BY <2>1 DEF PoolInv, OnePerName
<1>10. ASSUME NEW pc, pc \in {"stopped", "crashed"}, EndProcess(pc) PROVE PoolInv'
  BY <1>5, <1>10 DEF EndProcess, Down
<1>11. CASE Exit \/ Crash
  BY <1>10, <1>11 DEF Exit, Crash
<1>12. CASE Signal
  <2>1. /\ pool' = pool /\ daemon'.found = daemon.found /\ daemon'.pc = daemon.pc
        /\ UNCHANGED registry
    BY <1>12 DEF Signal, TypeInv, TypeOK, DaemonType
  <2> QED
    BY <2>1 DEF PoolInv, OnePerName, Agrees, registry, Enabled, Present
<1>13. CASE Boot
  <2>1. daemon'.pc = "idle" /\ daemon'.found = {} /\ pool' = {}
    BY <1>13 DEF Boot, IsUp, Down, TypeInv, TypeOK
  <2> QED
    BY <1>5, <2>1
<1>14. ASSUME NEW d \in Dir, RemoveDir(d) PROVE PoolInv'
  <2> DEFINE Deafened(o) == [o EXCEPT !.deaf = @ \/ o.dir = d]
  <2>1. pool' = {Deafened(o) : o \in pool} /\ daemon' = daemon /\ UNCHANGED registry
    BY <1>14 DEF RemoveDir
  <2>2. \A o \in pool : Deafened(o).name = o.name /\ Deafened(o).dir = o.dir
    BY PoolType DEF Observer
  <2> HIDE DEF Deafened
  <2>3. OnePerName(pool)'
    BY <2>1, <2>2 DEF PoolInv, OnePerName
  <2>4. daemon'.pc # "sync" => \A o \in pool' : Agrees(o)'
    BY <2>1, <2>2 DEF PoolInv, Agrees, registry, Enabled, Present
  <2>5. daemon'.pc = "sync" => \A w \in daemon'.found : Agrees(w)'
    BY <2>1 DEF PoolInv, Agrees, registry, Enabled, Present
  <2>6. OnePerName(daemon.found)'
    BY <2>1 DEF PoolInv, OnePerName
  <2> QED
    BY <2>3, <2>4, <2>5, <2>6 DEF PoolInv
<1>15. ASSUME NEW e \in DOMAIN event, FireOne(e) PROVE PoolInv'
  <2>1. UNCHANGED <<pool, daemon>> \/ EndProcess("crashed")
    BY <1>15 DEF FireOne, Start, SelectRow, Resolve, ReadHistory, LoadFile, RunReturns,
                 FireRaises
  <2>2. ~Query \/ EndProcess("crashed")
    BY <2>1, QueryFinds DEF Query
  <2> QED
    BY <1>3, <1>10, <2>1, <2>2
<1>16. CASE \/ FileChanges \/ WatcherCommands \/ Tick \/ UNCHANGED vars
            \/ \E c \in Client : RegisterWatcher(c)
            \/ \E d \in Dir : MakeDir(d)
            \/ \E f \in File : RunInserted(f)
  <2>1. UNCHANGED <<pool, daemon>>
    BY <1>16 DEF FileChanges, Post, WatcherCommands, Tick, vars, RegisterWatcher, MakeDir,
                 RunInserted
  <2>2. ~Query
    BY <2>1, QueryFinds DEF Query
  <2> QED
    BY <1>3, <2>1, <2>2
<1> QED
  BY <1>1, <1>2, <1>7, <1>8, <1>9, <1>11, <1>12, <1>13, <1>14, <1>15, <1>16 DEF Next, Loop

LEMMA PoolInvariance == Spec => []PoolInv
<1>1. Init => PoolInv
  BY DEF Init, PoolInv, OnePerName, Down
<1> QED
  BY <1>1, TypeInvariance, NextPool, PTL DEF Spec

\* Whatever commands, faults and directories do between a query and its sync.
THEOREM PoolFollowsTable == Spec => []PoolIsCurrent
<1>1. PoolInv => PoolIsCurrent
  BY DEF PoolInv, PoolIsCurrent, Agrees, OnePerName
<1> QED
  BY <1>1, PoolInvariance, PTL

-----------------------------------------------------------------------------
(* What is fired. An id stays the id of what was registered under it, so what a list  *)
(* entry, an observer, an event or a frame took from a row is still true of the row   *)
(* of that id, if it is there.                                                        *)

RowFits(o) ==
    /\ o.id \in 1..rows
    /\ table[o.name].id = o.id => o.kinds = table[o.name].offer.kinds

EventFits(v) ==
    /\ v.obs \in 1..rows
    /\ table[v.name].id = v.obs => v.kind \in table[v.name].offer.kinds
    /\ v.pc \in {"resolve", "history", "running", "ran"} =>
          /\ v.id \in 1..rows
          /\ table[v.name].id = v.id => table[v.name].offer = v.offer
          /\ v.kind \in v.offer.kinds \/ v.obs # v.id
    /\ v.pc = "history" => v.offer.file = NoFile \/ table[v.name].id # v.id
    /\ v.pc \in {"running", "ran"} =>
          v.file = v.offer.file \/ v.offer.file = NoFile \/ table[v.name].id # v.id

EventsFit == \A e \in DOMAIN event : EventFits(event[e])

FireInv ==
    /\ \A w \in daemon.found : RowFits(w)
    /\ \A o \in pool : RowFits(o)
    /\ EventsFit

LEMMA RowsGrow ==
    ASSUME TypeInv, [Next]_vars
    PROVE  rows \in Nat /\ rows' \in Nat /\ rows <= rows'
BY StepOfRegistry, RegistryStepRows, RegistryAssumption
   DEF TypeInv, RegistryInv, RegistryTypeOK

LEMMA RowFitsOn ==
    ASSUME TypeInv, [Next]_vars, NEW o, o.name \in Name, RowFits(o)
    PROVE  RowFits(o)'
<1>1. o.id \in 1..rows'
  BY RowsGrow DEF RowFits
<1>2. table'[o.name].id = o.id => table[o.name].id = o.id /\ table'[o.name].offer = table[o.name].offer
  BY StepOfRegistry, RowOfId DEF RowFits, TypeInv
<1> QED
  BY <1>1, <1>2 DEF RowFits

LEMMA EventFitsOn ==
    ASSUME TypeInv, [Next]_vars, NEW v, v.name \in Name, EventFits(v)
    PROVE  EventFits(v)'
<1>1. \A i \in 1..rows : table'[v.name].id = i =>
                             /\ table[v.name].id = i
                             /\ table'[v.name].offer = table[v.name].offer
  BY StepOfRegistry, RowOfId DEF TypeInv
<1>2. \A i \in 1..rows : i \in 1..rows'
  BY RowsGrow
<1> QED
  BY <1>1, <1>2 DEF EventFits

\* A row found, and what was started for it.
LEMMA FoundFits ==
    ASSUME TypeInv, NEW n \in Name, Present(n)
    PROVE  RowFits(FoundOf(n))
<1>1. table[n].id \in 1..rows
  BY RowTypes, RegistryAssumption DEF TypeInv, RegistryInv, RegistryTypeOK
<1> QED
  BY <1>1 DEF FoundOf, RowFits

\* Only a query adds to the list.
LEMMA FoundShrinks ==
    ASSUME TypeInv, [Next]_vars, ~Query
    PROVE  daemon'.found \subseteq daemon.found
<1>1. [daemon EXCEPT !.asked = TRUE].found = daemon.found
  BY DEF TypeInv, TypeOK, DaemonType
<1>2. \A pc \in {"query", "idle", "closing"} : [daemon EXCEPT !.pc = pc].found = daemon.found
  BY DEF TypeInv, TypeOK, DaemonType
<1>3. CASE UNCHANGED daemon
  BY <1>3
<1>4. CASE StartTick \/ TickRaises \/ StopAll
  <2>1. \E pc \in {"query", "idle", "closing"} : daemon' = [daemon EXCEPT !.pc = pc]
    BY <1>4 DEF StartTick, TickRaises, StopAll
  <2> QED
    BY <1>2, <2>1
<1>5. CASE Sync
  <2>1. daemon'.found = {}
    BY <1>5 DEF Sync, TypeInv, TypeOK, DaemonType
  <2> QED
    BY <2>1
<1>6. CASE Signal
  <2>1. daemon'.found = daemon.found
    BY <1>1, <1>6 DEF Signal
  <2> QED
    BY <2>1
<1>7. CASE Exit \/ Crash \/ Boot
  <2>1. daemon'.found = {}
    BY <1>7 DEF Exit, Crash, Boot, EndProcess, Down
  <2> QED
    BY <2>1
<1>8. ASSUME NEW e \in DOMAIN event, FireOne(e) PROVE daemon'.found \subseteq daemon.found
  <2>1. UNCHANGED daemon \/ daemon' = Down("crashed")
    BY <1>8 DEF FireOne, Start, SelectRow, Resolve, ReadHistory, LoadFile, RunReturns,
                FireRaises, EndProcess
  <2>2. Down("crashed").found = {}
    BY DEF Down
  <2> QED
    BY <1>3, <2>1, <2>2
<1> QED
  BY <1>3, <1>4, <1>5, <1>6, <1>7, <1>8
     DEF Next, vars, Loop, FileChanges, Post, WatcherCommands, Tick, RegisterWatcher,
         RemoveDir, MakeDir, RunInserted

LEMMA NextFoundFits ==
    ASSUME TypeInv, FireInv, [Next]_vars
    PROVE  \A w \in daemon'.found : RowFits(w)'
<1>1. CASE ~Query
  BY <1>1, FoundShrinks, RowFitsOn, PoolType DEF FireInv
<1>2. CASE Query
  <2>1. /\ daemon'.found = {FoundOf(n) : n \in {m \in Name : Enabled(m)}}
        /\ UNCHANGED <<table, rows>>
    BY <1>2 DEF Query, TypeInv, TypeOK, DaemonType
  <2> QED
    BY <2>1, FoundFits DEF Enabled, RowFits, FoundOf
<1> QED
  BY <1>1, <1>2

LEMMA NextPoolFits ==
    ASSUME TypeInv, FireInv, [Next]_vars
    PROVE  \A o \in pool' : RowFits(o)'
<1>1. ASSUME pool' \subseteq pool PROVE \A o \in pool' : RowFits(o)'
  BY <1>1, RowFitsOn, PoolType DEF FireInv
<1>2. CASE Sync
  <2>1. PICK raising :
            pool' = Kept \cup {Started(w) : w \in {v \in Missing : Startable(v, raising)}}
    BY <1>2 DEF Sync
  <2>2. UNCHANGED <<table, rows>>
    BY <1>2 DEF Sync, registry
  <2>3. \A w \in daemon.found : RowFits(Started(w))
    BY DEF FireInv, RowFits, Started
  <2>4. \A o \in pool' : RowFits(o)
    BY <2>1, <2>3 DEF Kept, Missing, FireInv
  <2> QED
    BY <2>2, <2>4 DEF RowFits
<1>3. ASSUME NEW d \in Dir, RemoveDir(d) PROVE \A o \in pool' : RowFits(o)'
  <2> DEFINE Deafened(o) == [o EXCEPT !.deaf = @ \/ o.dir = d]
  <2>1. pool' = {Deafened(o) : o \in pool} /\ UNCHANGED <<table, rows>>
    BY <1>3 DEF RemoveDir, registry
  <2>2. \A o \in pool : /\ Deafened(o).name = o.name /\ Deafened(o).id = o.id
                        /\ Deafened(o).kinds = o.kinds
    BY PoolType DEF Observer
  <2> HIDE DEF Deafened
  <2> QED
    BY <2>1, <2>2 DEF FireInv, RowFits
<1>4. ASSUME NEW e \in DOMAIN event, FireOne(e) PROVE pool' \subseteq pool
  BY <1>4 DEF FireOne, Start, SelectRow, Resolve, ReadHistory, LoadFile, RunReturns,
              FireRaises, EndProcess
<1>5. CASE \/ StartTick \/ Query \/ StopAll \/ Exit \/ FileChanges
           \/ \E c \in Client : RegisterWatcher(c)
           \/ WatcherCommands \/ TickRaises \/ Crash \/ Signal \/ Boot \/ Tick
           \/ \E d \in Dir : MakeDir(d)
           \/ \E f \in File : RunInserted(f)
           \/ UNCHANGED vars
  <2>1. pool' \subseteq pool
    BY <1>5
       DEF StartTick, Query, StopAll, Stopped, Exit, FileChanges, Post, RegisterWatcher,
           WatcherCommands, TickRaises, Crash, Signal, Boot, Tick, MakeDir, RunInserted,
           EndProcess, vars
  <2> QED
    BY <1>1, <2>1
<1> QED
  BY <1>1, <1>2, <1>3, <1>4, <1>5 DEF Next, Loop

\* The frame a step leaves fits, case by case.
LEMMA FrameFits ==
    ASSUME TypeInv, FireInv, NEW e \in DOMAIN event, NEW f \in EventType, FrameStep(e, f)
    PROVE  EventFits(f)
<1> DEFINE v == event[e]
<1>1. v \in EventType /\ v.name \in Name /\ EventFits(v)
  BY FrameTypes DEF FireInv, EventsFit, EventType
<1>2. f.name = v.name /\ f.kind = v.kind /\ f.obs = v.obs
  BY DEF FrameStep, SameEvent
<1>3. Reads(e, f)
  BY DEF FrameStep
<1>4. CASE f.pc \in {"select", "debounced", "skipped", "raised"}
  BY <1>1, <1>2, <1>4 DEF EventFits
<1>5. CASE f.pc = "resolve"
  <2>1. Present(v.name) /\ f.id = table[v.name].id /\ f.offer = table[v.name].offer
    BY <1>3, <1>5 DEF Reads
  <2>2. f.id \in 1..rows
    BY <1>1, <2>1, RowTypes, RegistryAssumption DEF TypeInv, RegistryInv, RegistryTypeOK
  <2> QED
    BY <1>1, <1>2, <1>5, <2>1, <2>2 DEF EventFits
<1>6. CASE v.pc = "resolve" /\ f.pc = "running"
  <2>1. /\ f.id = v.id /\ f.offer = v.offer
        /\ f.file \in Recorded(v.name)
    BY <1>3, <1>6 DEF Reads
  <2>2. f.file = table[v.name].offer.file
    BY <2>1 DEF Recorded
  <2> QED
    BY <1>1, <1>2, <1>6, <2>1, <2>2 DEF EventFits
<1>7. CASE v.pc = "resolve" /\ f.pc = "history"
  <2>1. f.id = v.id /\ f.offer = v.offer /\ Recorded(v.name) = {}
    BY <1>3, <1>7 DEF Reads
  <2>2. Present(v.name) => table[v.name].offer.file = NoFile
    BY <1>1, <2>1 DEF Recorded
  <2>3. v.id \in 1..rows /\ v.id # 0
    BY <1>1, <1>7 DEF EventFits
  <2> QED
    BY <1>1, <1>2, <1>7, <2>1, <2>2, <2>3 DEF EventFits, Present
<1>8. CASE v.pc = "history" /\ f.pc = "running"
  <2>1. f.id = v.id /\ f.offer = v.offer
    BY <1>3, <1>8 DEF Reads
  <2> QED
    BY <1>1, <1>2, <1>8, <2>1 DEF EventFits
<1>9. CASE v.pc = "running" /\ f.pc = "ran"
  <2>1. f.id = v.id /\ f.offer = v.offer /\ f.file = v.file
    BY <1>3, <1>9 DEF Reads
  <2> QED
    BY <1>1, <1>2, <1>9, <2>1 DEF EventFits
<1> QED
  BY <1>3, <1>4, <1>5, <1>6, <1>7, <1>8, <1>9 DEF Reads

LEMMA NextEventFits ==
    ASSUME TypeInv, FireInv, [Next]_vars
    PROVE  EventsFit'
<1>1. \A e \in DOMAIN event : event[e].name \in Name /\ EventFits(event[e])
  BY FrameTypes DEF FireInv, EventsFit, EventType
<1>2. \A e \in DOMAIN event : event' = event => EventFits(event[e])'
  <2> SUFFICES ASSUME NEW e \in DOMAIN event, event' = event PROVE EventFits(event[e])'
    OBVIOUS
  <2>1. PICK v : v = event[e]
    OBVIOUS
  <2>2. EventFits(v)'
    BY <1>1, <2>1, EventFitsOn
  <2> QED
    BY <2>1, <2>2
<1>3. CASE EndStep
  BY <1>3 DEF EndStep, EventsFit
<1>4. CASE event' = event
  BY <1>2, <1>4 DEF EventsFit
<1>5. ASSUME NEW o \in pool, NEW p \in EventType, PostStep(o, p) PROVE EventsFit'
  <2>1. EventFits(p)
    BY <1>5 DEF PostStep, FireInv, RowFits, EventFits
  <2>2. event' = Append(event, p) /\ UNCHANGED <<table, rows>>
    BY <1>5 DEF PostStep, registry
  <2>3. \A e \in DOMAIN event' : event'[e] = p \/ (e \in DOMAIN event /\ event'[e] = event[e])
    BY <2>2 DEF TypeInv, TypeOK
  <2>4. \A e \in DOMAIN event' : EventFits(event'[e])
    BY <1>1, <2>1, <2>3
  <2> QED
    BY <2>2, <2>4 DEF EventsFit, EventFits
<1>6. ASSUME NEW e \in DOMAIN event, NEW f \in EventType, FrameStep(e, f) PROVE EventsFit'
  <2>1. EventFits(f)
    BY <1>6, FrameFits
  <2>2. UNCHANGED <<table, rows>>
    BY <1>6 DEF FrameStep, registry
  <2>3. \A d \in DOMAIN event' : event'[d] = f \/ (d \in DOMAIN event /\ event'[d] = event[d])
    BY <1>6, FrameKeeps
  <2>4. \A d \in DOMAIN event' : EventFits(event'[d])
    BY <1>1, <2>1, <2>3
  <2> QED
    BY <2>2, <2>4 DEF EventsFit, EventFits
<1> QED
  BY <1>3, <1>4, <1>5, <1>6, StepOfEvents DEF EventStep

LEMMA FireInvariance == Spec => []FireInv
<1>1. Init => FireInv
  BY DEF Init, FireInv, EventsFit, Down
<1>2. TypeInv /\ FireInv /\ [Next]_vars => FireInv'
  BY NextFoundFits, NextPoolFits, NextEventFits DEF FireInv
<1> QED
  BY <1>1, <1>2, TypeInvariance, PTL DEF Spec

\* However rows are removed and registered anew between the event, the two SELECTs and
\* the run.
THEOREM RegisteredIsFired == Spec => []FiresWhatIsRegistered
<1>1. FireInv => FiresWhatIsRegistered
  BY DEF FireInv, EventsFit, EventFits, FiresWhatIsRegistered
<1> QED
  BY <1>1, FireInvariance, PTL

\* The same for the rows themselves.
THEOREM RegistrationKept == Spec => RegistrationIsKept
<1>1. TypeInv /\ [Next]_vars =>
          [\A n \in Name : Present(n) /\ Present(n)' =>
              table'[n].id = table[n].id /\ table'[n].offer = table[n].offer]_registry
  BY StepOfRegistry, RowsAreKept DEF TypeInv
<1> QED
  BY <1>1, TypeInvariance, PTL DEF Spec, RegistrationIsKept

\* However the commands interleave with each other, with a tick's query and sync and
\* with the fires, the table of watchers is the one of Registrations.
THEOREM WatcherKeepsRegistrations == Spec => KeepsRegistrations
<1>1. Init => Promise!Init
  BY RegistrationsInitial DEF Init
<1>2. TypeInv /\ [Next]_vars => [Promise!Next]_(Promise!vars)
  <2> SUFFICES ASSUME TypeInv, [Next]_vars PROVE [Promise!Next]_(Promise!vars)
    OBVIOUS
  <2>1. CASE CommandStep
    BY <2>1, CommandImplements DEF TypeInv
  <2>2. CASE Query
    BY <2>2 DEF Query, Promise!vars
  <2> QED
    BY <2>1, <2>2, StepOfRegistry
<1> QED
  BY <1>1, <1>2, TypeInvariance, PTL DEF Spec, KeepsRegistrations, Promise!Spec
-----------------------------------------------------------------------------
(* Throttle. The time that the table holds stands for all earlier fires of its key: one *)
(* of them is that recent or none is.                                                   *)

AskedOf(v) == [of |-> <<v.name, v.path>>, verdict |-> VerdictOf(v.pc), at |-> v.at]

AskedType ==
    [of : Key, verdict : {"waits", "dropped", "fires"}, at : Nat \cup {Never}]

LEMMA VerdictIs ==
    ASSUME NEW v \in EventType
    PROVE  /\ AskedOf(v) \in AskedType
           /\ VerdictOf(v.pc) = "waits" <=> v.pc = "posted"
           /\ VerdictOf(v.pc) = "dropped" <=> v.pc = "debounced"
<1>1. v.name \in Name /\ v.path \in AllPaths /\ v.at \in Nat \cup {Never}
  BY DEF EventType
<1>2. /\ VerdictOf(v.pc) \in {"waits", "dropped", "fires"}
      /\ VerdictOf(v.pc) = "waits" <=> v.pc = "posted"
      /\ VerdictOf(v.pc) = "dropped" <=> v.pc = "debounced"
  BY DEF VerdictOf
<1>3. <<v.name, v.path>> \in Key
  BY <1>1 DEF Key
<1> QED
  BY <1>1, <1>2, <1>3 DEF AskedOf, AskedType

LEMMA AskedSeq ==
    ASSUME NEW q \in Seq(EventType)
    PROVE  /\ [e \in DOMAIN q |-> AskedOf(q[e])] \in Seq(AskedType)
           /\ Len([e \in DOMAIN q |-> AskedOf(q[e])]) = Len(q)
<1>1. DOMAIN q = 1..Len(q) /\ Len(q) \in Nat /\ \A e \in DOMAIN q : q[e] \in EventType
  BY LenProperties
<1>2. \A e \in 1..Len(q) : AskedOf(q[e]) \in AskedType
  BY <1>1, VerdictIs
<1> QED
  BY <1>1, <1>2

LEMMA AskedIs == Asked = [e \in DOMAIN event |-> AskedOf(event[e])]
BY DEF Asked, AskedOf

LEMMA AskedAppended ==
    ASSUME NEW q \in Seq(EventType), NEW p \in EventType, NEW r, r = Append(q, p)
    PROVE  [e \in DOMAIN r |-> AskedOf(r[e])]
               = Append([e \in DOMAIN q |-> AskedOf(q[e])], AskedOf(p))
<1>1. PICK n \in Nat : n = Len(q)
  BY LenProperties
<1>2. /\ r \in Seq(EventType) /\ DOMAIN r = 1..(n + 1) /\ DOMAIN q = 1..n
      /\ Len(r) = n + 1 /\ r[n + 1] = p
      /\ \A e \in 1..n : r[e] = q[e]
  BY <1>1, AppendProperties, LenProperties
<1>3. PICK a : a = [e \in DOMAIN q |-> AskedOf(q[e])]
  OBVIOUS
<1>4. PICK b : b = [e \in DOMAIN r |-> AskedOf(r[e])]
  OBVIOUS
<1>5. a \in Seq(AskedType) /\ Len(a) = n /\ \A e \in 1..n : a[e] = AskedOf(q[e])
  BY <1>1, <1>2, <1>3, AskedSeq
<1>6. b \in Seq(AskedType) /\ Len(b) = n + 1 /\ \A e \in 1..(n + 1) : b[e] = AskedOf(r[e])
  BY <1>2, <1>4, AskedSeq
<1>7. PICK x \in AskedType : x = AskedOf(p)
  BY VerdictIs
<1>8. PICK c : c = Append(a, x)
  OBVIOUS
<1>9. /\ c \in Seq(AskedType) /\ Len(c) = n + 1 /\ c[n + 1] = x
      /\ \A e \in 1..n : c[e] = a[e]
  BY <1>5, <1>8, AppendProperties
<1>10. \A e \in 1..(n + 1) : b[e] = c[e]
  <2>1. b[n + 1] = c[n + 1]
    BY <1>2, <1>6, <1>7, <1>9
  <2>2. \A e \in 1..n : b[e] = c[e]
    BY <1>2, <1>5, <1>6, <1>9
  <2> QED
    BY <2>1, <2>2
<1>11. b = c
  BY <1>6, <1>9, <1>10, SeqEqual
<1> QED
  BY <1>3, <1>4, <1>7, <1>8, <1>11

LEMMA PostAsks ==
    ASSUME TypeInv, NEW o \in pool, NEW p \in EventType, PostStep(o, p)
    PROVE  Debouncing!Next
<1>1. Asked' = Append(Asked, AskedOf(p))
  <2>1. event \in Seq(EventType) /\ event' = Append(event, p)
    BY DEF PostStep, TypeInv, TypeOK
  <2>2. Asked' = [e \in DOMAIN event' |-> AskedOf(event'[e])]
    BY DEF Asked, AskedOf
  <2> QED
    BY <2>1, <2>2, AskedIs, AskedAppended
<1>2. PICK s \in Key : s = <<p.name, p.path>>
  BY DEF EventType, Key
<1>3. AskedOf(p) = [of |-> s, verdict |-> "waits", at |-> Debouncing!Undecided]
  BY <1>2, VerdictIs DEF AskedOf, PostStep, Never, Debouncing!Undecided
<1>4. Debouncing!Ask(s)
  BY <1>1, <1>3 DEF Debouncing!Ask, PostStep
<1> QED
  BY <1>4 DEF Debouncing!Next

\* What the table says of an event that starts is what its predecessors say.
LEMMA TableIsThePast ==
    ASSUME TypeInv, DebounceInv, NEW e \in DOMAIN event, event[e].pc = "posted",
           \A d \in 1..(e - 1) : event[d].pc # "posted"
    PROVE  Debouncing!HeldBack(e) <=> ~ShouldFire(e)
<1>1. now \in Nat /\ Debounce \in Nat \ {0} /\ Never \notin Nat
  BY NowType, WatcherAssumption DEF Never
<1>2. PICK last : last = lastFire[DebounceKey(e)]
  OBVIOUS
<1>3. last \in Nat \cup {Never} /\ DebounceKey(e) \in Key
  BY <1>2, KeyTypes
<1>4. 1..(e - 1) \subseteq DOMAIN event /\ e \in Nat
  BY FrameTypes
<1>5. \A d \in 1..(e - 1) :
          /\ Asked[d].of = Asked[e].of <=> DebounceKey(d) = DebounceKey(e)
          /\ Asked[d].verdict = "fires" <=> Accepted(d)
          /\ Asked[d].at = event[d].at
          /\ event[d].at \in Nat \cup {Never}
  <2> SUFFICES ASSUME NEW d \in 1..(e - 1)
               PROVE  /\ Asked[d].of = Asked[e].of <=> DebounceKey(d) = DebounceKey(e)
                      /\ Asked[d].verdict = "fires" <=> Accepted(d)
                      /\ Asked[d].at = event[d].at
                      /\ event[d].at \in Nat \cup {Never}
    OBVIOUS
  <2>1. d \in DOMAIN event /\ event[d] \in EventType /\ event[d].pc # "posted"
    BY <1>4, FrameTypes
  <2>2. event[d].at # Never /\ event[d].at \in Nat \cup {Never}
    BY <2>1, KeyTypes DEF DebounceInv, StartsInOrder
  <2>3. Asked[d].verdict = "fires" <=> event[d].pc # "debounced"
    BY <2>1 DEF Asked, VerdictOf
  <2>4. Asked[d].verdict = "fires" <=> Accepted(d)
    BY <2>2, <2>3 DEF Accepted
  <2>5. Asked[d].of = Asked[e].of <=> DebounceKey(d) = DebounceKey(e)
    BY <2>1 DEF Asked, DebounceKey
  <2>6. Asked[d].at = event[d].at
    BY <2>1 DEF Asked
  <2> QED
    BY <2>2, <2>4, <2>5, <2>6
<1>6. ASSUME ~ShouldFire(e) PROVE Debouncing!HeldBack(e)
  <2>1. last # Never /\ ~(now - last >= Debounce)
    BY <1>2, <1>6 DEF ShouldFire
  <2>2. PICK d \in DOMAIN event :
            Accepted(d) /\ DebounceKey(d) = DebounceKey(e) /\ event[d].at = last
    BY <1>2, <1>3, <2>1 DEF DebounceInv, TableIsLatest
  <2>3. event[d].pc # "posted"
    BY <2>2 DEF Accepted, DebounceInv, StartsInOrder
  <2>4. d < e
    <3>1. ~(e < d) /\ d # e
      BY <2>3 DEF DebounceInv, StartsInOrder
    <3> QED
      BY <3>1, FrameTypes
  <2>5. d \in 1..(e - 1)
    BY <1>4, <2>4, FrameTypes
  <2>6. now < event[d].at + Debounce
    BY <1>1, <1>3, <2>1, <2>2
  <2> QED
    BY <1>5, <2>2, <2>5, <2>6 DEF Debouncing!HeldBack
<1>7. ASSUME Debouncing!HeldBack(e) PROVE ~ShouldFire(e)
  <2>1. PICK d \in 1..(e - 1) : /\ DebounceKey(d) = DebounceKey(e)
                                /\ Accepted(d)
                                /\ now < event[d].at + Debounce
    BY <1>5, <1>7 DEF Debouncing!HeldBack
  <2>2. last # Never /\ event[d].at <= last
    BY <1>2, <1>4, <2>1 DEF DebounceInv, TableIsLatest
  <2>3. event[d].at \in Nat
    BY <1>5, <2>1 DEF Accepted
  <2>4. ~(now - last >= Debounce)
    BY <1>1, <1>3, <2>1, <2>2, <2>3
  <2> QED
    BY <1>2, <2>2, <2>4 DEF ShouldFire
<1> QED
  BY <1>6, <1>7

LEMMA VerdictSet ==
    ASSUME NEW x \in AskedType, NEW y \in AskedType, y.of = x.of
    PROVE  y = [x EXCEPT !.verdict = y.verdict, !.at = y.at]
BY DEF AskedType

LEMMA FrameDecides ==
    ASSUME TypeInv, DebounceInv, NEW e \in DOMAIN event, NEW f \in EventType,
           FrameStep(e, f)
    PROVE  [Debouncing!Next]_(Debouncing!vars)
<1>1. event[e] \in EventType /\ f.name = event[e].name /\ f.path = event[e].path
  BY FrameTypes DEF FrameStep, SameEvent
<1>2. Asked' = [Asked EXCEPT ![e] = AskedOf(f)]
  <2>1. /\ DOMAIN event' = DOMAIN event /\ event'[e] = f
        /\ \A d \in DOMAIN event : d # e => event'[d] = event[d]
    BY FrameKeeps
  <2> QED
    BY <2>1 DEF Asked, AskedOf
<1>3. now' = now
  BY DEF FrameStep
<1>4. CASE Starts(e, f)
  <2>1. /\ event[e].pc = "posted"
        /\ \A d \in 1..(e - 1) : event[d].pc # "posted"
        /\ f.pc = AfterDebounce(e) /\ f.at = now
    BY <1>4 DEF Starts
  <2>2. Debouncing!HeldBack(e) <=> ~ShouldFire(e)
    BY <2>1, TableIsThePast
  <2>3. VerdictOf(f.pc) = IF Debouncing!HeldBack(e) THEN "dropped" ELSE "fires"
    BY <2>1, <2>2 DEF AfterDebounce, VerdictOf
  <2>4. PICK x : x = Asked[e]
    OBVIOUS
  <2>5. x = [of |-> <<event[e].name, event[e].path>>, verdict |-> "waits", at |-> event[e].at]
    BY <2>1, <2>4 DEF Asked, VerdictOf
  <2>6. PICK v : v = IF Debouncing!HeldBack(e) THEN "dropped" ELSE "fires"
    OBVIOUS
  <2>7. AskedOf(f) = [x EXCEPT !.verdict = v, !.at = now]
    <3>1. VerdictOf(f.pc) = v
      BY <2>3, <2>6
    <3>2. AskedOf(f) = [of |-> <<event[e].name, event[e].path>>, verdict |-> v, at |-> now]
      BY <1>1, <2>1, <3>1 DEF AskedOf
    <3>3. x \in AskedType /\ AskedOf(f) \in AskedType
      BY <1>1, <2>4, AskedIs, VerdictIs
    <3>4. PICK y \in AskedType : y = AskedOf(f)
      BY <3>3
    <3>5. y.of = x.of /\ y.verdict = v /\ y.at = now
      BY <2>5, <3>2, <3>4
    <3>6. y = [x EXCEPT !.verdict = y.verdict, !.at = y.at]
      BY <3>3, <3>5, VerdictSet
    <3> QED
      BY <3>4, <3>5, <3>6
  <2>8. Asked' = [Asked EXCEPT ![e] = [@ EXCEPT !.verdict = v, !.at = now]]
    BY <1>2, <2>4, <2>7
  <2>9. \A d \in 1..(e - 1) : Asked[d].verdict # "waits"
    <3> SUFFICES ASSUME NEW d \in 1..(e - 1) PROVE Asked[d].verdict # "waits"
      OBVIOUS
    <3>1. d \in DOMAIN event /\ event[d].pc # "posted"
      BY <2>1, FrameTypes
    <3> QED
      BY <3>1 DEF Asked, VerdictOf
  <2>10. Asked[e].verdict = "waits"
    BY <2>4, <2>5
  <2>11. Debouncing!Decide(e)
    BY <1>3, <2>6, <2>8, <2>9, <2>10 DEF Debouncing!Decide
  <2>12. e \in DOMAIN Asked
    BY DEF Asked
  <2> QED
    BY <2>11, <2>12 DEF Debouncing!Next
<1>5. CASE Continues(e, f)
  <2>1. /\ event[e].pc \notin {"posted", "debounced"} /\ f.pc \notin {"posted", "debounced"}
        /\ f.at = event[e].at
    BY <1>5 DEF Continues, InFlight
  <2>2. AskedOf(f) = Asked[e]
    BY <1>1, <2>1 DEF AskedOf, Asked, VerdictOf
  <2>3. Asked' = Asked
    BY <1>2, <2>2 DEF Asked
  <2> QED
    BY <1>3, <2>3 DEF Debouncing!vars
<1> QED
  BY <1>4, <1>5 DEF FrameStep

\* The clock moves in no step that touches an event.
LEMMA ClockOrEvents ==
    ASSUME TypeInv, [Next]_vars
    PROVE  \/ now' = now
           \/ now' = now + 1 /\ UNCHANGED <<event, lastFire>>
<1>1. CASE Tick
  BY <1>1 DEF Tick
<1>2. CASE \E e \in DOMAIN event : FireOne(e)
  BY <1>2 DEF FireOne, Start, SelectRow, Resolve, ReadHistory, RunReturns, FireRaises
<1>3. CASE Loop \/ TickRaises \/ Crash \/ Signal \/ Boot
  BY <1>3 DEF Loop, StartTick, Query, Sync, StopAll, Exit, TickRaises, Crash, Signal, Boot
<1>4. CASE FileChanges \/ WatcherCommands \/ UNCHANGED vars
           \/ \E c \in Client : RegisterWatcher(c)
  BY <1>4 DEF FileChanges, Post, WatcherCommands, RegisterWatcher, vars
<1>5. CASE (\E d \in Dir : RemoveDir(d) \/ MakeDir(d)) \/ \E f \in File : RunInserted(f)
  BY <1>5 DEF RemoveDir, MakeDir, RunInserted
<1> QED
  BY <1>1, <1>2, <1>3, <1>4, <1>5 DEF Next

\* However coroutines interleave with each other and with all else, the daemon fires and
\* drops events as Throttle says.
THEOREM WatcherThrottles == Spec => FiresAreThrottled
<1>1. Init => Debouncing!Init
  BY DEF Init, Debouncing!Init, Asked
<1>2. TypeInv /\ DebounceInv /\ [Next]_vars => [Debouncing!Next]_(Debouncing!vars)
  <2> SUFFICES ASSUME TypeInv, DebounceInv, [Next]_vars
               PROVE  [Debouncing!Next]_(Debouncing!vars)
    OBVIOUS
  <2>1. CASE UNCHANGED <<event, lastFire>>
    <3>1. Asked' = Asked
      BY <2>1 DEF Asked
    <3>2. now' = now \/ now' = now + 1
      BY ClockOrEvents
    <3> QED
      BY <3>1, <3>2 DEF Debouncing!Next, Debouncing!Pass, Debouncing!vars
  <2>2. CASE EndStep
    <3>1. Asked' = <<>>
      BY <2>2 DEF EndStep, Asked
    <3>2. now' = now \/ Asked' = Asked
      BY ClockOrEvents DEF Asked
    <3>3. CASE now' = now
      BY <3>1, <3>3 DEF Debouncing!Forget, Debouncing!Next
    <3>4. CASE now' # now
      <4>1. UNCHANGED <<event, lastFire>>
        BY <3>4, ClockOrEvents
      <4> QED
        BY <2>1, <4>1
    <3> QED
      BY <3>3, <3>4
  <2>3. CASE \E o \in pool, p \in EventType : PostStep(o, p)
    BY <2>3, PostAsks
  <2>4. CASE \E e \in DOMAIN event, f \in EventType : FrameStep(e, f)
    BY <2>4, FrameDecides
  <2>5. EventStep
    BY StepOfEvents
  <2> QED
    BY <2>1, <2>2, <2>3, <2>4, <2>5 DEF EventStep
<1> QED
  BY <1>1, <1>2, TypeInvariance, DebounceInvariance, PTL
     DEF Spec, FiresAreThrottled, Debouncing!Spec
=============================================================================
