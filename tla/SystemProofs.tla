---------------------------- MODULE SystemProofs ----------------------------
(***************************************************************************)
(* Theorems about System, for any schema, any operators' processes, any    *)
(* webhooks and any bounds.                                                *)
(***************************************************************************)
EXTENDS System, RegistryProofs

-----------------------------------------------------------------------------
(* Migrations. What is pending in a process and what is committed make up the whole,   *)
(* and a process works on the least that is pending, so what is committed has no gap.   *)

Frames ==
    \A m \in Migrator :
        /\ migrator[m].pc = "apply" => Migration \subseteq migrator[m].pending \cup schema
        /\ migrator[m].pc = "done" => schema = Migration
        /\ migrator[m].open # 0 =>
              /\ migrator[m].pc = "apply"
              /\ migrator[m].open \in migrator[m].pending
              /\ \A j \in migrator[m].pending : migrator[m].open <= j

MigrationInv ==
    /\ schema \in SUBSET Migration
    /\ record \in SUBSET Migration
    /\ migrator \in [Migrator -> MigratorType]
    /\ RecordMatchesSchema
    /\ Frames

LEMMA Numbers ==
    /\ Last \in Nat /\ Migration = 1..Last
    /\ \A i \in Migration : i \in Nat /\ i # 0
BY DeploymentAssumption DEF Migration

\* Process m goes to frame q, and the schema may have grown.
LEMMA FrameMoves ==
    ASSUME MigrationInv, NEW m \in Migrator, NEW q \in MigratorType,
           migrator' = [migrator EXCEPT ![m] = q],
           schema \subseteq schema', schema' \in SUBSET Migration, record' = schema',
           \A i \in schema', j \in Migration : j < i => j \in schema',
           q.pc = "apply" => Migration \subseteq q.pending \cup schema',
           q.pc = "done" => schema' = Migration,
           q.open # 0 =>
               q.pc = "apply" /\ q.open \in q.pending /\ \A j \in q.pending : q.open <= j
    PROVE  MigrationInv'
<1>1. migrator' \in [Migrator -> MigratorType]
  BY DEF MigrationInv
<1>2. /\ migrator'[m] = q
      /\ \A n \in Migrator : n # m => migrator'[n] = migrator[n]
  BY DEF MigrationInv
<1>3. Frames'
  <2> SUFFICES ASSUME NEW n \in Migrator
               PROVE  /\ migrator'[n].pc = "apply" =>
                             Migration \subseteq migrator'[n].pending \cup schema'
                      /\ migrator'[n].pc = "done" => schema' = Migration
                      /\ migrator'[n].open # 0 =>
                            /\ migrator'[n].pc = "apply"
                            /\ migrator'[n].open \in migrator'[n].pending
                            /\ \A j \in migrator'[n].pending : migrator'[n].open <= j
    BY DEF Frames, Migration, Migrator
  <2>1. CASE n = m
    BY <1>2, <2>1
  <2>2. CASE n # m
    <3>1. migrator'[n] = migrator[n]
      BY <1>2, <2>2
    <3>2. migrator[n].pc = "done" => schema' = Migration
      BY DEF MigrationInv, Frames
    <3> QED
      BY <3>1, <3>2 DEF MigrationInv, Frames
  <2> QED
    BY <2>1, <2>2
<1>4. RecordMatchesSchema'
  BY DEF RecordMatchesSchema, Migration
<1> QED
  BY <1>1, <1>3, <1>4 DEF MigrationInv, Migration, Migrator, MigratorType

\* The same where only the frame moves.
LEMMA OnlyFrameMoves ==
    ASSUME MigrationInv, NEW m \in Migrator, NEW q \in MigratorType,
           migrator' = [migrator EXCEPT ![m] = q], schema' = schema, record' = record,
           q.pc = "apply" => Migration \subseteq q.pending \cup schema,
           q.pc = "done" => schema = Migration,
           q.open # 0 =>
               q.pc = "apply" /\ q.open \in q.pending /\ \A j \in q.pending : q.open <= j
    PROVE  MigrationInv'
BY FrameMoves DEF MigrationInv, RecordMatchesSchema

LEMMA FrameTypes ==
    /\ Idle \in MigratorType /\ Idle.pc = "idle" /\ Idle.open = 0
    /\ \A pc \in {"idle", "select", "done", "failed"} :
           /\ [Idle EXCEPT !.pc = pc] \in MigratorType
           /\ [Idle EXCEPT !.pc = pc].pc = pc /\ [Idle EXCEPT !.pc = pc].open = 0
BY DEF Idle, MigratorType

LEMMA RollsBack ==
    ASSUME MigrationInv, NEW m \in Migrator, migrator' = RolledBack(m),
           schema' = schema, record' = record
    PROVE  MigrationInv'
<1>1. PICK q \in MigratorType : /\ q = [Idle EXCEPT !.pc = "failed"]
                                /\ q.pc = "failed" /\ q.open = 0
  BY FrameTypes
<1>2. migrator' = [migrator EXCEPT ![m] = q]
  BY <1>1 DEF RolledBack
<1> QED
  BY <1>1, <1>2, OnlyFrameMoves

LEMMA MigrateStep ==
    ASSUME MigrationInv, NEW m \in Migrator, Migrate(m)
    PROVE  MigrationInv' /\ schema \subseteq schema'
<1>1. migrator[m] \in MigratorType
  BY DEF MigrationInv
<1>2. CASE BeginMigrate(m)
  <2>1. PICK q : q = [migrator[m] EXCEPT !.pc = "select"]
    OBVIOUS
  <2>2. q \in MigratorType /\ q.pc = "select" /\ q.open = migrator[m].open
    BY <1>1, <2>1 DEF MigratorType
  <2>3. migrator[m].open = 0
    BY <1>2 DEF BeginMigrate, MigrationInv, Frames
  <2>4. migrator' = [migrator EXCEPT ![m] = q] /\ schema' = schema /\ record' = record
    BY <1>2, <2>1 DEF BeginMigrate
  <2> QED
    BY <2>2, <2>3, <2>4, OnlyFrameMoves
<1>3. CASE SelectApplied(m)
  <2>1. PICK pending : pending = Migration \ record
    OBVIOUS
  <2>2. PICK q : q = [migrator[m] EXCEPT !.pc = IF pending = {} THEN "done" ELSE "apply",
                                         !.pending = pending]
    OBVIOUS
  <2>3. /\ q \in MigratorType /\ q.open = migrator[m].open /\ q.pending = pending
        /\ q.pc = IF pending = {} THEN "done" ELSE "apply"
    BY <1>1, <2>1, <2>2 DEF MigratorType
  <2>4. migrator[m].open = 0
    BY <1>3 DEF SelectApplied, MigrationInv, Frames
  <2>5. migrator' = [migrator EXCEPT ![m] = q] /\ schema' = schema /\ record' = record
    BY <1>3, <2>1, <2>2 DEF SelectApplied
  <2>6. record = schema
    BY DEF MigrationInv, RecordMatchesSchema
  <2>7. /\ q.pc = "apply" => Migration \subseteq q.pending \cup schema
        /\ q.pc = "done" => schema = Migration
    BY <2>1, <2>3, <2>6 DEF MigrationInv
  <2> QED
    BY <2>3, <2>4, <2>5, <2>7, OnlyFrameMoves
<1>4. CASE Execute(m)
  <2>1. PICK i \in migrator[m].pending :
            /\ \A j \in migrator[m].pending : i <= j
            /\ IF i \in schema THEN migrator' = RolledBack(m) /\ UNCHANGED schema
               ELSE Migrated(m, i)
            /\ migrator[m].pc = "apply" /\ record' = record
    BY <1>4 DEF Execute
  <2>2. CASE i \in schema
    BY <2>1, <2>2, RollsBack
  <2>3. CASE i \notin schema
    <3>1. PICK q : q = [migrator[m] EXCEPT !.open = i]
      OBVIOUS
    <3>2. /\ q \in MigratorType /\ q.open = i /\ q.pending = migrator[m].pending
          /\ q.pc = migrator[m].pc
      BY <1>1, <3>1 DEF MigratorType
    <3>3. migrator' = [migrator EXCEPT ![m] = q] /\ schema' = schema
      BY <2>1, <2>3, <3>1 DEF Migrated
    <3>4. Migration \subseteq q.pending \cup schema
      BY <2>1, <3>2 DEF MigrationInv, Frames
    <3> QED
      BY <2>1, <3>2, <3>3, <3>4, OnlyFrameMoves
  <2> QED
    BY <2>2, <2>3
<1>5. CASE Commit(m)
  <2>1. PICK i, rest : i = migrator[m].open /\ rest = migrator[m].pending \ {i}
    OBVIOUS
  <2>2. /\ i # 0 /\ i \in migrator[m].pending /\ \A j \in migrator[m].pending : i <= j
        /\ Migration \subseteq migrator[m].pending \cup schema
    BY <1>5, <2>1 DEF Commit, MigrationInv, Frames
  <2>3. i \in Migration /\ rest \in SUBSET Migration
    BY <1>1, <2>1, <2>2 DEF MigratorType
  <2>4. PICK q : q = [pc |-> IF rest = {} THEN "done" ELSE "apply", pending |-> rest, open |-> 0]
    OBVIOUS
  <2>5. /\ q \in MigratorType /\ q.open = 0 /\ q.pending = rest
        /\ q.pc = IF rest = {} THEN "done" ELSE "apply"
    BY <2>3, <2>4 DEF MigratorType
  <2>6. /\ migrator' = [migrator EXCEPT ![m] = q]
        /\ schema' = schema \cup {i} /\ record' = record \cup {i}
    BY <1>5, <2>1, <2>4 DEF Commit
  <2>7. record = schema /\ schema \subseteq Migration
    BY DEF MigrationInv, RecordMatchesSchema
  <2>8. \A k \in schema', j \in Migration : j < k => j \in schema'
    <3> SUFFICES ASSUME NEW k \in schema', NEW j \in Migration, j < k PROVE j \in schema'
      OBVIOUS
    <3>1. CASE k = i
      <4>1. j \in migrator[m].pending => i <= j
        BY <2>2
      <4>2. j \notin migrator[m].pending
        BY <2>3, <3>1, <4>1, Numbers
      <4> QED
        BY <2>2, <2>6, <4>2
    <3>2. CASE k # i
      BY <2>6, <3>2 DEF MigrationInv, RecordMatchesSchema
    <3> QED
      BY <3>1, <3>2
  <2>9. /\ q.pc = "apply" => Migration \subseteq q.pending \cup schema'
        /\ q.pc = "done" => schema' = Migration
    BY <2>1, <2>2, <2>3, <2>5, <2>6, <2>7
  <2>10. MigrationInv'
    BY <2>3, <2>5, <2>6, <2>7, <2>8, <2>9, FrameMoves
  <2> QED
    BY <2>6, <2>10
<1>6. CASE MigrationFails(m)
  BY <1>6, RollsBack DEF MigrationFails
<1> QED
  BY <1>2, <1>3, <1>4, <1>5, <1>6
  DEF Migrate, BeginMigrate, SelectApplied, Execute, Migrated, MigrationFails

-----------------------------------------------------------------------------
(* The gate. Only a daemon that was started on the full schema beats as "brain", so    *)
(* Docker's word, where it comes from that heartbeat, is good; and what Docker calls   *)
(* healthy was fresh as many intervals ago as it counts failures since.                *)

ContainerTypes ==
    /\ now \in 0..MaxTime
    /\ brain \in BrainType
    /\ beat \in [Daemon -> 0..MaxTime \cup {Never}]
    /\ health \in HealthType
    /\ service \in [Dependent -> ServiceType]
    /\ faults \in 0..MaxFaults

GateInv ==
    /\ brain = "daemon" => schema = Migration
    /\ beat["brain"] # Never => schema = Migration
    /\ health.by = "brain" => schema = Migration
    /\ \A s \in Dependent : service[s].by = "brain" => schema = Migration

SeenRecently ==
    brain # "down" /\ health.status = "healthy" =>
        /\ health.by \in Daemon /\ beat[health.by] # Never
        /\ health.fails < Retries
        /\ now - beat[health.by] <= Stale + health.fails + (IF health.probed THEN 0 ELSE 1)

DeploymentInv == MigrationInv /\ ContainerTypes /\ GateInv /\ SeenRecently

LEMMA Bounds ==
    /\ MaxTime \in Nat /\ Stale \in Nat /\ Retries \in Nat /\ Retries # 0 /\ Grace \in Nat
    /\ MaxFaults \in Nat /\ Never \notin Nat /\ Never \in Int
    /\ "brain" \in Daemon /\ "brain" \in Migrator /\ "none" \notin Daemon
BY DeploymentAssumption DEF Never, Daemon, Migrator

\* What a migrating process leaves alone.
LEMMA GateMigrate ==
    ASSUME DeploymentInv, NEW m \in Migrator, Migrate(m)
    PROVE  DeploymentInv'
<1>1. MigrationInv' /\ schema \subseteq schema'
  BY MigrateStep DEF DeploymentInv
<1>2. UNCHANGED <<now, brain, beat, health, service>> /\ faults' \in {faults, faults + 1}
  BY DEF Migrate, BeginMigrate, SelectApplied, Execute, Commit, MigrationFails
<1>3. faults' \in 0..MaxFaults
  <2>1. faults' = faults \/ faults < MaxFaults
    BY DEF Migrate, BeginMigrate, SelectApplied, Execute, Commit, MigrationFails
  <2> QED
    BY <1>2, <2>1, Bounds DEF DeploymentInv, ContainerTypes
<1>4. schema = Migration => schema' = Migration
  BY <1>1 DEF MigrationInv, Migration
<1>5. ContainerTypes' /\ SeenRecently'
  BY <1>2, <1>3 DEF DeploymentInv, ContainerTypes, SeenRecently, HealthType, ServiceType,
                    BrainType, Daemon, Dependent
<1>6. GateInv'
  BY <1>2, <1>4 DEF DeploymentInv, GateInv, Migration, Dependent
<1> QED
  BY <1>1, <1>5, <1>6 DEF DeploymentInv

\* The brain container comes up, goes on, or goes down.
LEMMA GateBrain ==
    ASSUME DeploymentInv, StartBrain \/ ExecDaemon \/ ScriptFails \/ BrainCrashes
    PROVE  DeploymentInv'
<1>1. /\ UNCHANGED <<now, schema, record, beat, service>>
      /\ brain' \in BrainType /\ health' \in {health, NoHealth}
      /\ brain' # "down" => health' = NoHealth \/ (brain # "down" /\ health' = health)
  BY DEF StartBrain, ExecDaemon, ScriptFails, BrainCrashes, BrainType
<1>2. faults' = faults \/ (faults < MaxFaults /\ faults' = faults + 1)
  BY DEF StartBrain, ExecDaemon, ScriptFails, BrainCrashes
<1>3. MigrationInv'
  <2>1. PICK q \in MigratorType :
            /\ q.pc \in {"idle", "select"} /\ q.open = 0
            /\ \/ migrator' = [migrator EXCEPT !["brain"] = q]
               \/ migrator' = migrator
    BY FrameTypes DEF StartBrain, ExecDaemon, ScriptFails, BrainCrashes
  <2>2. CASE migrator' = [migrator EXCEPT !["brain"] = q]
    BY <1>1, <2>1, <2>2, Bounds, OnlyFrameMoves DEF DeploymentInv
  <2>3. CASE migrator' = migrator
    BY <1>1, <2>3 DEF DeploymentInv, MigrationInv, RecordMatchesSchema, Frames, Migration,
                      Migrator, MigratorType
  <2> QED
    BY <2>1, <2>2, <2>3
<1>4. /\ NoHealth \in HealthType /\ NoHealth.status = "starting" /\ NoHealth.by = "none"
  BY Bounds DEF NoHealth, HealthType
<1>5. ContainerTypes'
  <2>1. faults' \in 0..MaxFaults
    BY <1>2, Bounds DEF DeploymentInv, ContainerTypes
  <2>2. health' \in HealthType
    BY <1>1, <1>4 DEF DeploymentInv, ContainerTypes
  <2> QED
    BY <1>1, <2>1, <2>2 DEF DeploymentInv, ContainerTypes
<1>6. brain' = "daemon" => schema = Migration
  <2>1. CASE ExecDaemon
    BY <2>1, Bounds DEF ExecDaemon, MayExec, DeploymentInv, MigrationInv, Frames
  <2>2. CASE StartBrain \/ ScriptFails \/ BrainCrashes
    BY <2>2 DEF StartBrain, ScriptFails, BrainCrashes
  <2> QED
    BY <2>1, <2>2
<1>7. GateInv'
  BY <1>1, <1>4, <1>6 DEF DeploymentInv, GateInv, Migration, Dependent
<1>8. SeenRecently'
  BY <1>1, <1>4 DEF DeploymentInv, SeenRecently, Daemon
<1> QED
  BY <1>3, <1>5, <1>7, <1>8 DEF DeploymentInv

\* The steps that leave the schema and the brain container alone.
LEMMA SchemaStays ==
    ASSUME DeploymentInv, UNCHANGED <<schema, record, migrator, brain>>
    PROVE  MigrationInv' /\ (brain' = "daemon" => schema' = Migration)
BY DEF DeploymentInv, MigrationInv, RecordMatchesSchema, Frames, GateInv, Migration, Migrator,
       MigratorType

LEMMA GateBeats ==
    ASSUME DeploymentInv, NEW d \in Daemon, Beats(d)
    PROVE  DeploymentInv'
<1>1. /\ beat' = [beat EXCEPT ![d] = now]
      /\ d = "brain" => brain = "daemon"
      /\ UNCHANGED <<now, schema, record, migrator, brain, health, service, faults>>
  BY DEF Beats
<1>2. now \in 0..MaxTime /\ beat \in [Daemon -> 0..MaxTime \cup {Never}]
  BY DEF DeploymentInv, ContainerTypes
<1>3. ContainerTypes'
  BY <1>1, <1>2 DEF DeploymentInv, ContainerTypes
<1>4. GateInv'
  BY <1>1, <1>2, Bounds DEF DeploymentInv, GateInv, Migration, Dependent
<1>5. SeenRecently'
  <2> SUFFICES ASSUME brain # "down", health.status = "healthy"
               PROVE  /\ health.by \in Daemon /\ beat'[health.by] # Never
                      /\ health.fails < Retries
                      /\ now - beat'[health.by] <=
                             Stale + health.fails + (IF health.probed THEN 0 ELSE 1)
    BY <1>1 DEF SeenRecently, Daemon
  <2>1. /\ health.by \in Daemon /\ beat[health.by] # Never /\ health.fails < Retries
        /\ now - beat[health.by] <= Stale + health.fails + (IF health.probed THEN 0 ELSE 1)
    BY DEF DeploymentInv, SeenRecently
  <2>2. health.fails \in Nat
    BY Bounds DEF DeploymentInv, ContainerTypes, HealthType
  <2>3. CASE health.by = d
    <3>1. beat'[d] = now /\ now - now = 0
      BY <1>1, <1>2
    <3>2. 0 <= Stale + health.fails + (IF health.probed THEN 0 ELSE 1)
      BY <2>2, Bounds
    <3> QED
      BY <1>2, <2>1, <2>3, <3>1, <3>2, Bounds
  <2>4. CASE health.by # d
    BY <1>1, <1>2, <2>1, <2>4
  <2> QED
    BY <2>3, <2>4
<1> QED
  BY <1>1, <1>3, <1>4, <1>5, SchemaStays DEF DeploymentInv

\* A service is started, goes down or comes back.
LEMMA GateService ==
    ASSUME DeploymentInv, NEW s \in Dependent,
           NEW pc \in {"waiting", "up", "down"}, NEW by \in {service[s].by, health.by},
           service' = [service EXCEPT ![s] = [pc |-> pc, by |-> by]],
           UNCHANGED <<now, schema, record, migrator, brain, beat, health>>,
           faults' = faults \/ (faults < MaxFaults /\ faults' = faults + 1)
    PROVE  DeploymentInv'
<1>1. by \in Daemon \cup {"none"} /\ service \in [Dependent -> ServiceType]
  BY DEF DeploymentInv, ContainerTypes, HealthType, ServiceType
<1>2. PICK q \in ServiceType : q = [pc |-> pc, by |-> by] /\ q.by = by
  BY <1>1 DEF ServiceType
<1>3. service' = [service EXCEPT ![s] = q]
  BY <1>2
<1>4. faults' \in 0..MaxFaults
  BY Bounds DEF DeploymentInv, ContainerTypes
<1>5. ContainerTypes' /\ SeenRecently'
  BY <1>1, <1>3, <1>4 DEF DeploymentInv, ContainerTypes, SeenRecently
<1>6. GateInv'
  BY <1>1, <1>2, <1>3 DEF DeploymentInv, GateInv
<1> QED
  BY <1>5, <1>6, SchemaStays DEF DeploymentInv

\* The healthcheck runs. A success sees a heartbeat that is fresh; after a failure the
\* last one that was seen is no older than before.
LEMMA GateProbe ==
    ASSUME DeploymentInv, Probe
    PROVE  DeploymentInv'
<1>1. UNCHANGED <<now, schema, record, migrator, brain, beat, service, faults>>
  BY DEF Probe
<1>2. /\ now \in 0..MaxTime /\ beat \in [Daemon -> 0..MaxTime \cup {Never}]
      /\ health \in HealthType /\ health.fails \in 0..Retries
  BY DEF DeploymentInv, ContainerTypes, HealthType
<1>3. CASE ProbeSucceeds
  <2>1. PICK d \in Daemon : /\ Fresh(d)
                            /\ health' = [health EXCEPT !.status = "healthy", !.fails = 0,
                                                        !.probed = TRUE, !.by = d]
    BY <1>3 DEF ProbeSucceeds
  <2>2. /\ health' \in HealthType /\ health'.by = d /\ health'.fails = 0
        /\ health'.probed = TRUE
    <3>a. PICK b \in BOOLEAN : b = TRUE
      OBVIOUS
    <3>b. PICK fails \in 0..Retries : fails = 0
      BY Bounds
    <3>1. b = TRUE /\ fails = 0
      BY <3>a, <3>b
    <3>2. health' = [health EXCEPT !.status = "healthy", !.fails = fails, !.probed = b,
                                   !.by = d]
      BY <2>1, <3>1
    <3>3. health'.by = d /\ health'.fails = fails /\ health'.probed = b
      BY <1>2, <3>2 DEF HealthType
    <3>4. d \in Daemon \cup {"none"}
      BY <2>1
    <3>5. health' \in HealthType
      BY <1>2, <3>1, <3>2, <3>4 DEF HealthType
    <3> QED
      BY <3>1, <3>3, <3>5
  <2>3. beat[d] # Never /\ now - beat[d] <= Stale
    BY <2>1 DEF Fresh, Latest
  <2>4. ContainerTypes'
    BY <1>1, <2>2 DEF DeploymentInv, ContainerTypes
  <2>5. GateInv'
    BY <1>1, <2>2, <2>3 DEF DeploymentInv, GateInv, Migration, Dependent
  <2>6. /\ beat'[health'.by] # Never /\ health'.fails < Retries
        /\ now' - beat'[health'.by] <= Stale + health'.fails + 0
    BY <1>1, <1>2, <2>2, <2>3, Bounds
  <2>7. SeenRecently'
    BY <1>1, <2>2, <2>6 DEF SeenRecently, Daemon
  <2> QED
    BY <1>1, <2>4, <2>5, <2>7, SchemaStays DEF DeploymentInv
<1>4. CASE ProbeFails
  <2>1. PICK fails : /\ fails = (IF health.status = "starting" /\ health.age < Grace
                                 THEN 0
                                 ELSE IF health.fails < Retries THEN health.fails + 1
                                 ELSE Retries)
                     /\ health' = [health EXCEPT
                           !.fails = fails, !.probed = TRUE,
                           !.status = IF fails = Retries THEN "unhealthy" ELSE @]
    BY <1>4 DEF ProbeFails
  <2>2. fails \in 0..Retries
    BY <1>2, <2>1, Bounds
  <2>3. /\ health' \in HealthType /\ health'.by = health.by /\ health'.fails = fails
        /\ health'.probed = TRUE
        /\ health'.status = IF fails = Retries THEN "unhealthy" ELSE health.status
    BY <1>2, <2>1, <2>2 DEF HealthType
  <2>4. ContainerTypes'
    BY <1>1, <2>3 DEF DeploymentInv, ContainerTypes
  <2>5. GateInv'
    BY <1>1, <2>3 DEF DeploymentInv, GateInv, Migration, Dependent
  <2>6. ASSUME ~health.probed, brain # "down", health'.status = "healthy"
        PROVE  /\ health.by \in Daemon /\ beat[health.by] # Never
               /\ fails < Retries /\ now - beat[health.by] <= Stale + fails + 0
    <3>1. health.status = "healthy" /\ fails # Retries
      BY <2>3, <2>6
    <3>2. /\ health.by \in Daemon /\ beat[health.by] # Never
          /\ health.fails < Retries
          /\ now - beat[health.by] <= Stale + health.fails + 1
      BY <2>6, <3>1 DEF DeploymentInv, SeenRecently
    <3>3. fails = health.fails + 1
      BY <2>1, <3>1, <3>2
    <3>4. beat[health.by] \in Int /\ now \in Int
      BY <1>2, <3>2, Bounds
    <3> QED
      BY <1>2, <2>2, <3>1, <3>2, <3>3, <3>4, Bounds
  <2>7. SeenRecently'
    BY <1>1, <2>3, <2>6 DEF SeenRecently, Probe, Daemon
  <2> QED
    BY <1>1, <2>4, <2>5, <2>7, SchemaStays DEF DeploymentInv
<1> QED
  BY <1>3, <1>4 DEF Probe

\* An interval ends; brain was probed in it, if it runs.
LEMMA GateTick ==
    ASSUME DeploymentInv, Tick
    PROVE  DeploymentInv'
<1>1. /\ UNCHANGED <<schema, record, migrator, brain, beat, service, faults>>
      /\ now' = now + 1 /\ now < MaxTime
      /\ health' = [health EXCEPT !.probed = FALSE,
                                  !.age = IF @ < Grace THEN @ + 1 ELSE Grace]
  BY DEF Tick
<1>2. /\ now \in 0..MaxTime /\ beat \in [Daemon -> 0..MaxTime \cup {Never}]
      /\ health \in HealthType /\ health.fails \in 0..Retries
  BY DEF DeploymentInv, ContainerTypes, HealthType
<1>3. /\ health' \in HealthType /\ health'.by = health.by /\ health'.fails = health.fails
      /\ health'.status = health.status /\ health'.probed = FALSE
  <2>1. PICK b \in BOOLEAN : b = FALSE
    OBVIOUS
  <2>2. PICK age \in 0..Grace : age = IF health.age < Grace THEN health.age + 1 ELSE Grace
    BY <1>2, Bounds DEF HealthType
  <2>3. health' = [health EXCEPT !.probed = b, !.age = age]
    BY <1>1, <2>1, <2>2
  <2>4. /\ health' \in HealthType /\ health'.by = health.by
        /\ health'.fails = health.fails /\ health'.status = health.status
        /\ health'.probed = b
    BY <1>2, <2>3 DEF HealthType
  <2> QED
    BY <2>1, <2>4
<1>4. ContainerTypes'
  BY <1>1, <1>2, <1>3, Bounds DEF DeploymentInv, ContainerTypes
<1>5. GateInv'
  BY <1>1, <1>3 DEF DeploymentInv, GateInv, Migration, Dependent
<1>6. ASSUME brain # "down", health.status = "healthy"
      PROVE  /\ health.by \in Daemon /\ beat[health.by] # Never
             /\ health.fails < Retries
             /\ now' - beat[health.by] <= Stale + health.fails + 1
  <2>1. health.probed = TRUE
    BY <1>2, <1>6 DEF Tick, HealthType
  <2>2. /\ health.by \in Daemon /\ beat[health.by] # Never /\ health.fails < Retries
        /\ now - beat[health.by] <= Stale + health.fails + 0
    BY <1>6, <2>1 DEF DeploymentInv, SeenRecently
  <2>3. beat[health.by] \in Int /\ now \in Int
    BY <1>2, <2>2, Bounds
  <2> QED
    BY <1>1, <1>2, <2>2, <2>3, Bounds
<1>7. SeenRecently'
  BY <1>1, <1>3, <1>6 DEF SeenRecently, Daemon
<1> QED
  BY <1>1, <1>4, <1>5, <1>7, SchemaStays DEF DeploymentInv

LEMMA GateInit == DeploymentInit => DeploymentInv
<1> SUFFICES ASSUME DeploymentInit PROVE DeploymentInv
  OBVIOUS
<1>1. PICK k \in 0..Last : schema = 1..k /\ record = 1..k
  BY DEF DeploymentInit
<1>2. MigrationInv
  <2>1. schema \subseteq Migration /\ record = schema
    BY <1>1, Numbers
  <2>2. \A i \in schema, j \in Migration : j < i => j \in schema
    BY <1>1, Numbers
  <2>3. migrator = [m \in Migrator |-> Idle]
    BY DEF DeploymentInit
  <2> QED
    BY <2>1, <2>2, <2>3, FrameTypes DEF MigrationInv, RecordMatchesSchema, Frames
<1>3. /\ beat["brain"] = Never /\ beat \in [Daemon -> 0..MaxTime \cup {Never}]
  <2>1. PICK old \in {Never, 0}, watched \in {Never, 0} :
            beat = [d \in Daemon |-> CASE d = "old" -> old
                                       [] d = "brain" -> Never
                                       [] d = "watcher" -> watched]
    BY DEF DeploymentInit
  <2> QED
    BY <2>1, Bounds DEF Daemon
<1>4. PICK pc \in {"waiting", "up"} :
          service = [s \in Dependent |-> [pc |-> IF s = "watcher" THEN pc ELSE "waiting",
                                          by |-> "none"]]
  BY DEF DeploymentInit
<1>5. service \in [Dependent -> ServiceType]
  BY <1>4 DEF ServiceType
<1>6. \A s \in Dependent : service[s].by = "none"
  BY <1>4
<1>7. health \in HealthType /\ health.by = "none" /\ health.status = "starting"
  BY Bounds DEF DeploymentInit, NoHealth, HealthType
<1>8. now = 0 /\ faults = 0 /\ brain = "down"
  BY DEF DeploymentInit
<1> QED
  BY <1>2, <1>3, <1>5, <1>6, <1>7, <1>8, Bounds
  DEF DeploymentInv, ContainerTypes, GateInv, SeenRecently, BrainType

LEMMA GateDependent ==
    ASSUME DeploymentInv, NEW s \in Dependent,
           StartService(s) \/ ServiceCrashes(s) \/ RestartService(s)
    PROVE  DeploymentInv'
<1>1. service \in [Dependent -> ServiceType]
  BY DEF DeploymentInv, ContainerTypes
<1>2. \A pc : [service[s] EXCEPT !.pc = pc] = [pc |-> pc, by |-> service[s].by]
  BY <1>1 DEF ServiceType
<1>3. PICK pc \in {"waiting", "up", "down"}, by \in {service[s].by, health.by} :
          service' = [service EXCEPT ![s] = [pc |-> pc, by |-> by]]
  <2>1. CASE StartService(s)
    BY <2>1 DEF StartService
  <2>2. CASE ServiceCrashes(s)
    BY <1>2, <2>2 DEF ServiceCrashes
  <2>3. CASE RestartService(s)
    BY <1>2, <2>3 DEF RestartService
  <2> QED
    BY <2>1, <2>2, <2>3
<1>4. /\ UNCHANGED <<now, schema, record, migrator, brain, beat, health>>
      /\ faults' = faults \/ (faults < MaxFaults /\ faults' = faults + 1)
  BY DEF StartService, ServiceCrashes, RestartService
<1> QED
  BY <1>3, <1>4, GateService

LEMMA GateStays ==
    ASSUME DeploymentInv, UNCHANGED deployment
    PROVE  DeploymentInv'
<1>1. UNCHANGED <<now, schema, record, migrator, brain, beat, health, service, faults>>
  BY DEF deployment
<1> QED
  BY <1>1, SchemaStays DEF DeploymentInv, ContainerTypes, GateInv, SeenRecently, HealthType,
                           ServiceType, BrainType, Daemon, Dependent, Migration

LEMMA DeploymentHolds == Spec => []DeploymentInv
<1>1. Init => DeploymentInv
  BY GateInit DEF Init
<1>2. DeploymentInv /\ [Next]_vars => DeploymentInv'
  <2> SUFFICES ASSUME DeploymentInv, [Next]_vars PROVE DeploymentInv'
    OBVIOUS
  <2>1. CASE DeploymentStep
    <3>1. DeploymentNext
      BY <2>1 DEF DeploymentStep
    <3>2. CASE \E m \in Migrator : Migrate(m)
      BY <3>2, GateMigrate
    <3>3. CASE StartBrain \/ ExecDaemon \/ ScriptFails \/ BrainCrashes
      BY <3>3, GateBrain
    <3>4. CASE \E d \in Daemon : Beats(d)
      BY <3>4, GateBeats
    <3>5. CASE Probe
      BY <3>5, GateProbe
    <3>6. CASE \E s \in Dependent : StartService(s) \/ ServiceCrashes(s) \/ RestartService(s)
      BY <3>6, GateDependent
    <3>7. CASE Tick
      BY <3>7, GateTick
    <3> QED
      BY <3>1, <3>2, <3>3, <3>4, <3>5, <3>6, <3>7 DEF DeploymentNext
  <2>2. CASE ApiExits
    <3>1. [service["api"] EXCEPT !.pc = "down"] = [pc |-> "down", by |-> service["api"].by]
      BY DEF DeploymentInv, ContainerTypes, Dependent, ServiceType
    <3>2. /\ service' = [service EXCEPT !["api"] = [pc |-> "down", by |-> service["api"].by]]
          /\ UNCHANGED <<now, schema, record, migrator, brain, beat, health, faults>>
      BY <2>2, <3>1 DEF ApiExits
    <3> QED
      BY <3>2, GateService DEF Dependent
  <2>3. CASE UNCHANGED deployment
    BY <2>3, GateStays
  <2> QED
    BY <2>1, <2>2, <2>3 DEF Next, vars, RegisterHook, CommandRaises, HookCommands, ApiStep
<1> QED
  BY <1>1, <1>2, PTL DEF Spec

\* However many processes migrate, whatever statement fails and whatever crashes, the rows
\* of _migrations are the migrations that are there, without a gap.
THEOREM RecordIsTrue == Spec => []RecordMatchesSchema
<1>1. DeploymentInv => RecordMatchesSchema
  BY DEF DeploymentInv, MigrationInv
<1> QED
  BY <1>1, DeploymentHolds, PTL

\* The daemon runs on the whole schema, and so does what was started on its heartbeat.
THEOREM GateIsGood == Spec => []ServicesFollowMigration
<1>1. DeploymentInv => ServicesFollowMigration
  BY DEF DeploymentInv, GateInv, ServicesFollowMigration
<1> QED
  BY <1>1, DeploymentHolds, PTL

\* What Docker calls healthy had a heartbeat not longer ago than the threshold and the
\* retries.
THEOREM HealthIsRecent == Spec => []HealthyIsRecent
<1>1. DeploymentInv => HealthyIsRecent
  <2> SUFFICES ASSUME DeploymentInv, brain # "down", health.status = "healthy"
               PROVE  /\ health.by # "none" /\ beat[health.by] # Never
                      /\ now - beat[health.by] <= Stale + Retries
    BY DEF HealthyIsRecent
  <2>1. /\ health.by \in Daemon /\ beat[health.by] # Never /\ health.fails < Retries
        /\ now - beat[health.by] <= Stale + health.fails + (IF health.probed THEN 0 ELSE 1)
    BY DEF DeploymentInv, SeenRecently
  <2>2. /\ now \in Int /\ beat[health.by] \in Int /\ health.fails \in Int
    BY <2>1, Bounds DEF DeploymentInv, ContainerTypes, HealthType
  <2>3. (IF health.probed THEN 0 ELSE 1) \in 0..1
    OBVIOUS
  <2> QED
    BY <2>1, <2>2, <2>3, Bounds
<1> QED
  BY <1>1, DeploymentHolds, PTL

-----------------------------------------------------------------------------
(* Upgrade. Running changes by one part in a step, and only a whole schema lets a part *)
(* enter it; a commit is of the least migration that is missing.                       *)

\* In a step that does not migrate one part may start or stop.
LEMMA PartsMove ==
    ASSUME DeploymentInv, DeploymentInv', UNCHANGED <<schema, record>>,
           NEW p \in {"daemon"} \cup Dependent,
           p = "daemon" \/ brain' = brain,
           \A s \in Dependent : s = p \/ service'[s] = service[s]
    PROVE  [Upgrading!Next]_(Upgrading!vars)
<1>1. "daemon" \notin Dependent
  BY DEF Dependent
<1>2. \A q \in {"daemon"} \cup Dependent : q # p => (q \in Running' <=> q \in Running)
  BY <1>1 DEF Running
<1>3. Running \subseteq {"daemon"} \cup Dependent /\ Running' \subseteq {"daemon"} \cup Dependent
  BY DEF Running, Dependent
<1>4. p \in Running' => schema = 1..Last
  <2>1. brain' = "daemon" => schema = 1..Last
    BY DEF DeploymentInv, GateInv, Migration
  <2>2. \A s \in Dependent : service'[s].by = "brain" => schema = 1..Last
    BY DEF DeploymentInv, GateInv, Migration, Dependent
  <2> QED
    BY <2>1, <2>2 DEF Running
<1>5. CASE p \in Running'
  <2>1. Running' = Running \cup {p}
    BY <1>2, <1>3, <1>5
  <2>2. Upgrading!Start(p)
    BY <1>4, <1>5, <2>1 DEF Upgrading!Start, Upgrading!Whole
  <2> QED
    BY <2>2 DEF Upgrading!Next
<1>6. CASE p \notin Running'
  <2>1. Running' = Running \ {p}
    BY <1>2, <1>3, <1>6
  <2>2. Upgrading!Stop(p)
    BY <2>1 DEF Upgrading!Stop
  <2> QED
    BY <2>2 DEF Upgrading!Next
<1> QED
  BY <1>5, <1>6

\* The least migration that is pending, where what is not pending is committed.
LEMMA LeastIsNext ==
    ASSUME NEW done \in SUBSET Migration, NEW i \in Migration, i \notin done,
           \A k \in done, j \in Migration : j < k => j \in done,
           \A j \in Migration : j < i => j \in done
    PROVE  done = 1..(i - 1) /\ done \cup {i} = 1..i
<1>1. \A k \in done : k < i
  BY Numbers
<1>2. \A k \in 1..(i - 1) : k \in done
  BY Numbers
<1>3. \A k \in done : k \in 1..(i - 1)
  BY <1>1, Numbers
<1>4. done = 1..(i - 1)
  BY <1>2, <1>3
<1> QED
  BY <1>4, Numbers

LEMMA MigrateUpgrades ==
    ASSUME DeploymentInv, NEW m \in Migrator, Migrate(m)
    PROVE  [Upgrading!Next]_(Upgrading!vars)
<1>1. Running' = Running
  <2>1. UNCHANGED <<brain, service>>
    BY DEF Migrate, BeginMigrate, SelectApplied, Execute, Commit, MigrationFails
  <2> QED
    BY <2>1 DEF Running, Dependent
<1>2. CASE Commit(m)
  <2>1. PICK i : i = migrator[m].open
    OBVIOUS
  <2>2. /\ i # 0
        /\ schema' = schema \cup {i}
        /\ record' = record \cup {i}
    BY <1>2, <2>1 DEF Commit
  <2>3. /\ migrator[m] \in MigratorType
        /\ record = schema
        /\ schema \in SUBSET Migration
        /\ \A k \in schema, j \in Migration : j < k => j \in schema
    BY DEF DeploymentInv, MigrationInv, RecordMatchesSchema
  <2>4. /\ i \in migrator[m].pending
        /\ \A j \in migrator[m].pending : i <= j
        /\ Migration \subseteq migrator[m].pending \cup schema
    BY <2>1, <2>2 DEF DeploymentInv, MigrationInv, Frames
  <2>5. i \in Migration
    BY <2>3, <2>4 DEF MigratorType
  <2>6. \A j \in Migration : j < i => j \in schema
    <3> SUFFICES ASSUME NEW j \in Migration, j < i PROVE j \in schema
      OBVIOUS
    <3>1. ~(i <= j)
      BY <2>5, Numbers
    <3> QED
      BY <2>4, <3>1
  <2>7. CASE i \in schema
    BY <1>1, <2>2, <2>3, <2>7 DEF Upgrading!vars
  <2>8. CASE i \notin schema
    <3>1. schema = 1..(i - 1) /\ schema \cup {i} = 1..i
      BY <2>3, <2>5, <2>6, <2>8, LeastIsNext
    <3>2. Upgrading!Migrate(i)
      BY <1>1, <2>2, <2>3, <3>1 DEF Upgrading!Migrate
    <3> QED
      BY <2>5, <3>2 DEF Upgrading!Next, Migration
  <2> QED
    BY <2>7, <2>8
<1>3. CASE BeginMigrate(m) \/ SelectApplied(m) \/ Execute(m) \/ MigrationFails(m)
  <2>1. UNCHANGED <<schema, record>>
    BY <1>3 DEF BeginMigrate, SelectApplied, Execute, Migrated, MigrationFails
  <2> QED
    BY <1>1, <2>1 DEF Upgrading!vars
<1> QED
  BY <1>2, <1>3 DEF Migrate

LEMMA DeploymentUpgrades ==
    ASSUME DeploymentInv, DeploymentInv', [Next]_vars
    PROVE  [Upgrading!Next]_(Upgrading!vars)
<1>0. service \in [Dependent -> ServiceType]
  BY DEF DeploymentInv, ContainerTypes
<1>1. CASE \E m \in Migrator : Migrate(m)
  BY <1>1, MigrateUpgrades
<1>2. CASE StartBrain \/ ExecDaemon \/ ScriptFails \/ BrainCrashes
  <2>1. UNCHANGED <<schema, record, service>>
    BY <1>2 DEF StartBrain, ExecDaemon, ScriptFails, BrainCrashes
  <2> QED
    BY <2>1, PartsMove
<1>3. CASE \E s \in Dependent : StartService(s) \/ ServiceCrashes(s) \/ RestartService(s)
  <2>1. PICK s \in Dependent : StartService(s) \/ ServiceCrashes(s) \/ RestartService(s)
    BY <1>3
  <2>2. UNCHANGED <<schema, record, brain>>
    BY <2>1 DEF StartService, ServiceCrashes, RestartService
  <2>3. \A t \in Dependent : t = s \/ service'[t] = service[t]
    BY <1>0, <2>1 DEF StartService, ServiceCrashes, RestartService
  <2> QED
    BY <2>2, <2>3, PartsMove
<1>4. CASE ApiExits
  <2>1. UNCHANGED <<schema, record, brain>>
    BY <1>4 DEF ApiExits
  <2>2. \A t \in Dependent : t = "api" \/ service'[t] = service[t]
    BY <1>0, <1>4 DEF ApiExits
  <2> QED
    BY <2>1, <2>2, PartsMove DEF Dependent
<1>5. CASE UNCHANGED <<schema, record, brain, service>>
  BY <1>5, PartsMove
<1>6. (\E d \in Daemon : Beats(d)) \/ Probe \/ Tick => UNCHANGED <<schema, record, brain, service>>
  BY DEF Beats, Probe, Tick
<1>7. UNCHANGED deployment => UNCHANGED <<schema, record, brain, service>>
  BY DEF deployment
<1>8. DeploymentNext \/ ApiExits \/ UNCHANGED deployment
  BY DEF Next, vars, DeploymentStep, RegisterHook, CommandRaises, HookCommands, ApiStep
<1> QED
  BY <1>1, <1>2, <1>3, <1>4, <1>5, <1>6, <1>7, <1>8 DEF DeploymentNext

\* The volume goes through its versions one by one, and nothing runs before the last: the
\* containers and the processes that migrate implement Upgrade.
THEOREM DeploymentUpgradesInOrder == Spec => UpgradesInOrder
<1>1. Init => Upgrading!Init
  <2> SUFFICES ASSUME Init PROVE Upgrading!Init
    OBVIOUS
  <2>1. \E k \in 0..Last : schema = 1..k /\ record = 1..k
    BY DEF Init, DeploymentInit
  <2>2. brain = "down" /\ \A s \in Dependent : service[s].by # "brain"
    BY DEF Init, DeploymentInit
  <2>3. Running = {}
    BY <2>2 DEF Running
  <2> QED
    BY <2>1, <2>3 DEF Upgrading!Init
<1>2. DeploymentInv /\ DeploymentInv' /\ [Next]_vars => [Upgrading!Next]_(Upgrading!vars)
  BY DeploymentUpgrades
<1> QED
  BY <1>1, <1>2, DeploymentHolds, PTL DEF Spec, UpgradesInOrder, Upgrading!Spec

-----------------------------------------------------------------------------
(* Webhooks. The rows that the commands write, however they interleave.                 *)

LEMMA CommandOrRaise ==
    ASSUME [Next]_vars
    PROVE  CommandStep \/ \E c \in Client : CommandRaises(c)
<1>1. CASE \E c \in Client : RegisterHook(c)
  BY <1>1, WebhooksAssumption DEF RegisterHook, CommandStep
<1>2. CASE HookCommands
  BY <1>2 DEF HookCommands, CommandStep, Commands
<1>3. CASE UNCHANGED registry
  BY <1>3 DEF CommandStep
<1>4. DeploymentStep \/ ApiStep \/ ApiExits \/ UNCHANGED vars => UNCHANGED registry
  BY DEF DeploymentStep, ApiStep, ApiExits, ServeRequests, Arrive, PostRun, SelectHook,
         VerifyAndRun, EndRequest, LoadExits, vars, webhooks
<1> QED
  BY <1>1, <1>2, <1>3, <1>4 DEF Next

LEMMA RegistryMoves ==
    ASSUME RegistryInv, [Next]_vars
    PROVE  RegistryInv' /\ \A n \in Name : SameRow(n) \/ ~Present(n)' \/ NewRowAt(n)
<1>1. CASE \E c \in Client : CommandRaises(c)
  <2>1. PICK c \in Client : /\ client' = [client EXCEPT ![c] = IdleClient]
                            /\ UNCHANGED <<table, rows, touched>>
    BY <1>1 DEF CommandRaises
  <2>2. IdleClient \in ClientType
    BY RegistryAssumption DEF IdleClient, ClientType, SomeOffer
  <2>3. RegistryTypeOK'
    BY <2>1, <2>2 DEF RegistryInv, RegistryTypeOK
  <2> QED
    BY <2>1, <2>3 DEF RegistryInv, SameRow, Present
<1>2. CASE CommandStep
  BY <1>2, CommandStepRows
<1> QED
  BY <1>1, <1>2, CommandOrRaise

LEMMA RegistryHolds == Spec => []RegistryInv
<1>1. Init => RegistryInv
  BY RegistryInitial DEF Init, WebhooksInit
<1>2. RegistryInv /\ [Next]_vars => RegistryInv'
  BY RegistryMoves
<1> QED
  BY <1>1, <1>2, PTL DEF Spec

\* A webhook that is there keeps its secret and its file.
THEOREM RegistrationKept == Spec => RegistrationIsKept
<1>1. RegistryInv /\ [Next]_vars =>
          [\A n \in Name :
              Present(n) /\ Present(n)' =>
                  table'[n].id = table[n].id /\ table'[n].offer = table[n].offer]_registry
  <2> SUFFICES ASSUME RegistryInv, [Next]_vars, NEW n \in Name, Present(n), Present(n)'
               PROVE  table'[n].id = table[n].id /\ table'[n].offer = table[n].offer
    OBVIOUS
  <2> QED
    BY RegistryMoves DEF SameRow, NewRowAt
<1> QED
  BY <1>1, RegistryHolds, PTL DEF RegistrationIsKept, Spec

\* On any schema, whatever statement raises because a table or a column is not there
\* yet, the table of webhooks is the one of Registrations.
THEOREM WebhooksKeepRegistrations == Spec => KeepsRegistrations
<1>1. Init => Promise!Init
  BY RegistrationsInitial DEF Init, WebhooksInit
<1>2. RegistryInv /\ [Next]_vars => [Promise!Next]_(Promise!vars)
  <2> SUFFICES ASSUME RegistryInv, [Next]_vars PROVE [Promise!Next]_(Promise!vars)
    OBVIOUS
  <2>1. CASE CommandStep
    BY <2>1, CommandImplements
  <2>2. CASE \E c \in Client : CommandRaises(c)
    BY <2>2 DEF CommandRaises, Promise!vars
  <2> QED
    BY <2>1, <2>2, CommandOrRaise
<1> QED
  BY <1>1, <1>2, RegistryHolds, PTL DEF Spec, KeepsRegistrations, Promise!Spec

-----------------------------------------------------------------------------
(* Requests. The row a request has read was enabled after it arrived, and is remembered *)
(* as such for as long as the request lasts.                                            *)

HookTypes ==
    /\ req \in [Request -> RequestType]
    /\ live \in [Request -> SUBSET Row]

BodyIsLive == \A r \in Request : req[r].pc = "body" => req[r].row \in live[r]

HookInv == HookTypes /\ BodyIsLive /\ RunsAreAuthorised

\* What a frame q may say, given the rows set.
FrameIsGood(q, set) ==
    /\ q.pc = "body" => q.row \in set
    /\ q.pc = "running" =>
          q.sig = Token \/ \E row \in set : row.id = q.sig /\ row.offer.file = q.file

LEMMA HookInvIs == HookInv <=> HookTypes /\ \A r \in Request : FrameIsGood(req[r], live[r])
BY DEF HookInv, FrameIsGood, BodyIsLive, RunsAreAuthorised

LEMMA LiveGrows ==
    ASSUME HookInv, RegistryInv', Remember, req' \in [Request -> RequestType]
    PROVE  /\ live' \in [Request -> SUBSET Row]
           /\ \A r \in Request :
                 req'[r].pc # "out" =>
                     /\ live[r] \subseteq live'[r]
                     /\ \A n \in Name :
                           /\ req'[r].name = n /\ Present(n)' /\ table'[n].enabled
                           => table'[n] \in live'[r]
<1>1. \A row \in EnabledRows' : row \in Row
  BY DEF EnabledRows, RegistryInv, RegistryTypeOK
<1>2. \A r \in Request :
          live'[r] = IF req'[r].pc = "out" THEN {}
                     ELSE live[r] \cup {row \in EnabledRows' : row.offer.name = req'[r].name}
  BY DEF Remember
<1>3. \A r \in Request : live'[r] \in SUBSET Row
  BY <1>1, <1>2 DEF HookInv, HookTypes
<1>4. live' \in [Request -> SUBSET Row]
  <2>1. \E f : f = [r \in Request |-> live'[r]] /\ live' = f
    BY DEF Remember
  <2> QED
    BY <1>3, <2>1
<1>5. ASSUME NEW n \in Name, Present(n)', table'[n].enabled
      PROVE  table'[n] \in EnabledRows' /\ table'[n].offer.name = n
  <2>1. table'[n].offer.name = n
    BY <1>5 DEF RegistryInv
  <2>2. PICK row : row = table'[n] /\ row.id # 0 /\ row.enabled
    BY <1>5 DEF Present
  <2>3. row # Absent
    BY <2>2 DEF Absent
  <2> QED
    BY <2>1, <2>2, <2>3 DEF EnabledRows
<1> QED
  BY <1>2, <1>4, <1>5

\* A step in which request r goes to frame q, and one in which every request rests or is
\* gone.
LEMMA RequestMoves ==
    ASSUME HookInv, RegistryInv', Remember, NEW r \in Request, NEW q \in RequestType,
           req' = [req EXCEPT ![r] = q],
           \/ q.pc \in {"out", "select"}
           \/ FrameIsGood(q, live[r])
           \/ q.pc # "out" /\ FrameIsGood(q, live'[r])
    PROVE  HookInv'
<1>1. req' \in [Request -> RequestType]
  BY DEF HookInv, HookTypes
<1>2. req'[r] = q /\ \A s \in Request : s # r => req'[s] = req[s]
  BY DEF HookInv, HookTypes
<1>3. live' \in [Request -> SUBSET Row]
  BY <1>1, LiveGrows
<1>4. \A s \in Request : req'[s].pc # "out" => live[s] \subseteq live'[s]
  BY <1>1, LiveGrows
<1>5. \A s \in Request : FrameIsGood(req[s], live[s])
  BY HookInvIs
<1>6. ASSUME NEW s \in Request PROVE FrameIsGood(req'[s], live'[s])
  BY <1>2, <1>4, <1>5 DEF FrameIsGood
<1> QED
  BY <1>1, <1>3, <1>6 DEF HookInv, HookTypes, FrameIsGood, BodyIsLive, RunsAreAuthorised

LEMMA RequestsRest ==
    ASSUME HookInv, RegistryInv', Remember,
           req' \in [Request -> RequestType],
           \A s \in Request : req'[s] = req[s] \/ req'[s].pc = "out"
    PROVE  HookInv'
<1>1. live' \in [Request -> SUBSET Row]
  BY LiveGrows
<1>2. \A s \in Request : req'[s].pc # "out" => live[s] \subseteq live'[s]
  BY LiveGrows
<1>3. \A s \in Request : FrameIsGood(req[s], live[s])
  BY HookInvIs
<1>4. ASSUME NEW s \in Request PROVE FrameIsGood(req'[s], live'[s])
  BY <1>2, <1>3 DEF FrameIsGood
<1> QED
  BY <1>1, <1>4 DEF HookInv, HookTypes, FrameIsGood, BodyIsLive, RunsAreAuthorised

LEMMA GoneFrame == Gone \in RequestType /\ Gone.pc = "out"
<1>1. (CHOOSE n \in Name : TRUE) \in Name
  BY RegistryAssumption
<1>2. 0 \in Signature
  BY RegistryAssumption DEF Signature
<1> QED
  BY <1>1, <1>2 DEF Gone, RequestType

\* A load's outcome: the frame of the request that ran it.
LEMMA Loading ==
    ASSUME HookTypes, NEW r \in Request, NEW f \in File, NEW sig \in Signature,
           LoadAndRun(r, f, sig)
    PROVE  \E q \in RequestType :
               /\ req' = [req EXCEPT ![r] = q]
               /\ \/ q.pc = "out"
                  \/ q.pc = "running" /\ q.sig = sig /\ q.file = f
<1>1. CASE Answered(r)
  BY <1>1, GoneFrame DEF Answered
<1>2. CASE req' = [req EXCEPT ![r] = [@ EXCEPT !.pc = "running", !.sig = sig, !.file = f]]
  <2>1. PICK q : q = [req[r] EXCEPT !.pc = "running", !.sig = sig, !.file = f]
    OBVIOUS
  <2>2. q \in RequestType /\ q.pc = "running" /\ q.sig = sig /\ q.file = f
    BY <2>1 DEF HookTypes, RequestType
  <2>3. req' = [req EXCEPT ![r] = q]
    BY <1>2, <2>1 DEF HookTypes
  <2> QED
    BY <2>2, <2>3
<1> QED
  BY <1>1, <1>2 DEF LoadAndRun

LEMMA HookStep ==
    ASSUME HookInv, RegistryInv, RegistryInv', Remember, ApiStep
    PROVE  HookInv'
<1>1. HookTypes
  BY DEF HookInv
<1>2. ASSUME NEW r \in Request, Answered(r) PROVE HookInv'
  BY <1>2, GoneFrame, RequestMoves DEF Answered
<1>3. ASSUME NEW r \in Request, NEW n \in Name, NEW sig \in 0..MaxRows, Arrive(r, n, sig)
      PROVE  HookInv'
  <2>1. PICK q : q = [Gone EXCEPT !.pc = "select", !.name = n, !.sig = sig]
    OBVIOUS
  <2>2. q \in RequestType /\ q.pc = "select"
    BY <2>1, GoneFrame DEF RequestType, Signature
  <2> QED
    BY <1>3, <2>1, <2>2, RequestMoves DEF Arrive
<1>4. ASSUME NEW r \in Request, NEW f \in File, PostRun(r, f) PROVE HookInv'
  <2>1. Token \in Signature /\ LoadAndRun(r, f, Token)
    BY <1>4 DEF Signature, PostRun
  <2>2. PICK q \in RequestType :
            /\ req' = [req EXCEPT ![r] = q]
            /\ q.pc = "out" \/ (q.pc = "running" /\ q.sig = Token)
    BY <1>1, <2>1, Loading
  <2> QED
    BY <2>2, RequestMoves DEF FrameIsGood
<1>5. ASSUME NEW r \in Request, VerifyAndRun(r) PROVE HookInv'
  <2>1. CASE Answered(r)
    BY <1>2, <2>1
  <2>2. CASE ~Answered(r)
    <3>1. PICK row, f, sig : row = req[r].row /\ f = req[r].row.offer.file /\ sig = req[r].sig
      OBVIOUS
    <3>2. /\ req[r].pc = "body" /\ f # NoFile /\ LoadAndRun(r, f, sig) /\ sig = row.id
      BY <1>5, <2>2, <3>1 DEF VerifyAndRun, Verified
    <3>3. row \in live[r] /\ row \in Row
      BY <3>1, <3>2 DEF HookInv, HookTypes, BodyIsLive
    <3>4. f \in File
      BY <3>1, <3>2, <3>3, WebhooksAssumption DEF Row, Hook
    <3>5. sig \in Signature
      BY <1>1, <3>1 DEF HookTypes, RequestType
    <3>6. PICK q \in RequestType :
              /\ req' = [req EXCEPT ![r] = q]
              /\ q.pc = "out" \/ (q.pc = "running" /\ q.sig = sig /\ q.file = f)
      BY <1>1, <3>2, <3>4, <3>5, Loading
    <3>7. q.pc = "out" \/ FrameIsGood(q, live[r])
      BY <3>1, <3>2, <3>3, <3>6 DEF FrameIsGood
    <3> QED
      BY <3>6, <3>7, RequestMoves
  <2> QED
    BY <2>1, <2>2
<1>6. ASSUME NEW r \in Request, SelectHook(r) PROVE HookInv'
  <2>1. CASE Answered(r)
    BY <1>2, <2>1
  <2>2. CASE ~Answered(r)
    <3>1. PICK n, row : n = req[r].name /\ row = table[n]
      OBVIOUS
    <3>2. n \in Name
      BY <1>1, <3>1 DEF HookTypes, RequestType
    <3>3. /\ Found(n) /\ table' = table
          /\ req' = [req EXCEPT ![r] = [@ EXCEPT !.pc = "body", !.row = row]]
      BY <1>6, <2>2, <3>1 DEF SelectHook, registry
    <3>4. row \in Row
      BY <3>1, <3>2, <3>3 DEF Found, Present, Absent, RegistryInv, RegistryTypeOK
    <3>5. PICK q : q = [req[r] EXCEPT !.pc = "body", !.row = row]
      OBVIOUS
    <3>6. /\ q \in RequestType /\ q.pc = "body" /\ q.row = row /\ q.name = n
      BY <1>1, <3>1, <3>4, <3>5 DEF HookTypes, RequestType
    <3>7. req' = [req EXCEPT ![r] = q]
      BY <1>1, <3>3, <3>5 DEF HookTypes
    <3>8. req' \in [Request -> RequestType] /\ req'[r] = q
      BY <1>1, <3>6, <3>7 DEF HookTypes
    <3>9. Present(n)' /\ table'[n].enabled /\ table'[n] = row
      BY <3>1, <3>3 DEF Found, Present
    <3>10. row \in live'[r]
      BY <3>2, <3>6, <3>8, <3>9, LiveGrows
    <3> QED
      BY <3>6, <3>7, <3>10, RequestMoves DEF FrameIsGood
  <2> QED
    BY <2>1, <2>2
<1> QED
  BY <1>2, <1>3, <1>4, <1>5, <1>6 DEF ApiStep, ServeRequests, EndRequest

LEMMA HooksHold == Spec => []HookInv
<1>1. Init => HookInv
  BY GoneFrame DEF Init, WebhooksInit, HookInv, HookTypes, BodyIsLive, RunsAreAuthorised
<1>2. RegistryInv /\ RegistryInv' /\ HookInv /\ [Next]_vars => HookInv'
  <2> SUFFICES ASSUME RegistryInv, RegistryInv', HookInv, [Next]_vars PROVE HookInv'
    OBVIOUS
  <2>1. CASE UNCHANGED vars
    BY <2>1 DEF vars, webhooks, HookInv, HookTypes, BodyIsLive, RunsAreAuthorised, Row,
                RequestType, Signature
  <2>2. CASE Next
    <3>1. Remember
      BY <2>2 DEF Next
    <3>2. CASE ApiStep
      BY <3>1, <3>2, HookStep
    <3>3. CASE req' = req \/ req' = [r \in Request |-> Gone]
      <4>1. req' \in [Request -> RequestType]
        BY <3>3, GoneFrame DEF HookInv, HookTypes
      <4>2. \A s \in Request : req'[s] = req[s] \/ req'[s].pc = "out"
        BY <3>3, GoneFrame
      <4> QED
        BY <3>1, <4>1, <4>2, RequestsRest
    <3> QED
      BY <2>2, <3>2, <3>3 DEF Next, DeploymentStep, RegisterHook, HookCommands,
                              CommandRaises, ApiExits, LoadExits
  <2> QED
    BY <2>1, <2>2
<1> QED
  BY <1>1, <1>2, RegistryHolds, PTL DEF Spec

\* A workflow that runs was asked for with the bearer token, or with the secret of a row
\* that was enabled at some moment of the request, and is the file of that very row.
THEOREM RunsAuthorised == Spec => []RunsAreAuthorised
<1>1. HookInv => RunsAreAuthorised
  BY DEF HookInv
<1> QED
  BY <1>1, HooksHold, PTL

\* Every variable has its type, and a container that is not up has no requests.
THEOREM TypeCorrect == Spec => []TypeOK
<1> DEFINE Quiet == ~Serving => \A r \in Request : req[r] = Gone
<1>1. Init => Quiet
  BY DEF Init, WebhooksInit
<1>2. Quiet /\ HookInv /\ DeploymentInv /\ [Next]_vars => Quiet'
  <2> SUFFICES ASSUME Quiet, HookInv, DeploymentInv, [Next]_vars PROVE Quiet'
    OBVIOUS
  <2>1. CASE DeploymentStep
    BY <2>1 DEF DeploymentStep, Serving
  <2>2. CASE ApiStep
    BY <2>2 DEF ApiStep, Serving, deployment
  <2>3. CASE ApiExits
    BY <2>3 DEF ApiExits, LoadExits
  <2>4. CASE UNCHANGED <<deployment, req>>
    BY <2>4 DEF Serving, deployment
  <2> QED
    BY <2>1, <2>2, <2>3, <2>4
    DEF Next, vars, webhooks, RegisterHook, HookCommands, CommandRaises
<1>3. Quiet /\ HookInv /\ RegistryInv /\ DeploymentInv => TypeOK
  BY DEF TypeOK, DeploymentTypeOK, WebhooksTypeOK, HookInv, HookTypes, RegistryInv,
         DeploymentInv, MigrationInv, ContainerTypes
<1> QED
  BY <1>1, <1>2, <1>3, DeploymentHolds, RegistryHolds, HooksHold, PTL DEF Spec
=============================================================================
