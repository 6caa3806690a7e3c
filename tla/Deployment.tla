----------------------------- MODULE Deployment -----------------------------
(***************************************************************************)
(* The containers of docker-compose.yml over one database: brain, whose    *)
(* scripts/start.sh migrates the schema and becomes the scheduler daemon,  *)
(* its healthcheck `brain daemon-status`, and the api and the watcher,     *)
(* which compose starts when brain is healthy. A volume may come from an   *)
(* earlier version, with an older schema and heartbeats in it; an operator *)
(* may run `brain migrate` as well.                                        *)
(*                                                                         *)
(* The unit of time is the interval of the healthcheck.                    *)
(***************************************************************************)
EXTENDS Integers, FiniteSets

CONSTANTS
    Last,       \* the migration files are 1..Last, in the order of their names
    BeatTable,  \* the migration that creates daemon_heartbeats
    WatchTable, \* the one that creates what the watcher reads
    Operator,   \* `brain migrate` processes beside start.sh's
    Stale,      \* HEARTBEAT_STALE_SECONDS, in intervals
    Retries,    \* retries of the healthcheck
    Grace,      \* its start_period, in intervals
    MaxTime,    \* bound of the clock
    MaxFaults   \* bound of the crashes and failing statements

ASSUME DeploymentAssumption ==
    /\ Last \in Nat /\ BeatTable \in 1..Last /\ WatchTable \in BeatTable..Last
    /\ "brain" \notin Operator
    /\ Stale \in Nat /\ Retries \in Nat \ {0} /\ Grace \in Nat
    /\ MaxTime \in Nat /\ MaxFaults \in Nat

VARIABLES
    now,       \* the clock
    schema,    \* migrations whose objects are committed
    record,    \* the rows of _migrations
    migrator,  \* migrator[m]: the frame of run_migrations in process m
    brain,     \* where the brain container is
    beat,      \* beat[d]: last_tick_at of daemon d
    health,    \* Docker's view of brain
    service,   \* the containers that depend on brain
    faults     \* how many crashes and failing statements there were

deployment ==
    <<now, schema, record, migrator, brain, beat, health, service, faults>>

-----------------------------------------------------------------------------

Migration == 1..Last

Migrator == Operator \cup {"brain"}

\* daemon_id is the host name: the container's, with a suffix for the watcher. "old"
\* is a container of an earlier deployment that is gone.
Daemon == {"old", "brain", "watcher"}

Dependent == {"api", "watcher"}

Never == -1

MigratorType ==
    [pc : {"idle", "select", "apply", "done", "failed"},
     pending : SUBSET Migration,
     open : {0} \cup Migration]   \* executed in the transaction, not yet committed

BrainType == {"down", "start", "daemon"}

\* by is the daemon whose heartbeat the last successful probe saw.
HealthType ==
    [status : {"starting", "healthy", "unhealthy"}, fails : 0..Retries,
     age : 0..Grace, probed : BOOLEAN, by : Daemon \cup {"none"}]

\* by is health.by when compose started the service.
ServiceType == [pc : {"waiting", "up", "down"}, by : Daemon \cup {"none"}]

Idle == [pc |-> "idle", pending |-> {}, open |-> 0]

NoHealth ==
    [status |-> "starting", fails |-> 0, age |-> 0, probed |-> FALSE, by |-> "none"]

\* A new volume, or one that an earlier version left, perhaps just now and perhaps
\* with its watcher still running.
DeploymentInit ==
    /\ now = 0
    /\ \E k \in 0..Last : schema = 1..k /\ record = 1..k
    /\ migrator = [m \in Migrator |-> Idle]
    /\ brain = "down"
    /\ \E old \in {Never} \cup (IF BeatTable \in schema THEN {0} ELSE {}),
          watched \in {Never} \cup (IF WatchTable \in schema THEN {0} ELSE {}) :
          beat = [d \in Daemon |-> CASE d = "old" -> old
                                     [] d = "brain" -> Never
                                     [] d = "watcher" -> watched]
    /\ health = NoHealth
    /\ \E pc \in {"waiting"} \cup (IF beat["watcher"] = Never THEN {} ELSE {"up"}) :
          service = [s \in Dependent |-> [pc |-> IF s = "watcher" THEN pc ELSE "waiting",
                                          by |-> "none"]]
    /\ faults = 0

-----------------------------------------------------------------------------
(* run_migrations *)

\* Mutant of Migrated: each file is committed before its row is written.
MigratedAtOnce(m, i) ==
    /\ schema' = schema \cup {i}
    /\ migrator' = [migrator EXCEPT ![m].open = i]

\* The file is executed in the transaction.
Migrated(m, i) ==
    /\ migrator' = [migrator EXCEPT ![m].open = i]
    /\ UNCHANGED schema

\* The statement raises, or the process ends: the transaction is rolled back.
RolledBack(m) == [migrator EXCEPT ![m] = [Idle EXCEPT !.pc = "failed"]]

\* `brain migrate` by hand.
BeginMigrate(m) ==
    /\ m \in Operator
    /\ migrator[m].pc \in {"idle", "done", "failed"}
    /\ migrator' = [migrator EXCEPT ![m].pc = "select"]
    /\ UNCHANGED <<now, schema, record, brain, beat, health, service, faults>>

\* What is already applied is read once.
SelectApplied(m) ==
    LET pending == Migration \ record IN
    /\ migrator[m].pc = "select"
    /\ migrator' = [migrator EXCEPT ![m] =
          [@ EXCEPT !.pc = IF pending = {} THEN "done" ELSE "apply",
                    !.pending = pending]]
    /\ UNCHANGED <<now, schema, record, brain, beat, health, service, faults>>

\* The next file: it waits for another process's transaction on the same objects, and
\* fails on what is there.
Execute(m) ==
    /\ migrator[m].pc = "apply"
    /\ migrator[m].open = 0
    /\ \E i \in migrator[m].pending :
          /\ \A j \in migrator[m].pending : i <= j
          /\ \A n \in Migrator : migrator[n].open # i
          /\ IF i \in schema
             THEN migrator' = RolledBack(m) /\ UNCHANGED schema
             ELSE Migrated(m, i)
    /\ UNCHANGED <<now, record, brain, beat, health, service, faults>>

\* The row in _migrations, and the commit.
Commit(m) ==
    LET i == migrator[m].open
        rest == migrator[m].pending \ {i}
    IN
    /\ i # 0
    /\ schema' = schema \cup {i}
    /\ record' = record \cup {i}
    /\ migrator' = [migrator EXCEPT ![m] =
          [pc |-> IF rest = {} THEN "done" ELSE "apply", pending |-> rest, open |-> 0]]
    /\ UNCHANGED <<now, brain, beat, health, service, faults>>

MigrationFails(m) ==
    /\ migrator[m].pc \in {"select", "apply"}
    /\ faults < MaxFaults
    /\ migrator' = RolledBack(m)
    /\ faults' = faults + 1
    /\ UNCHANGED <<now, schema, record, brain, beat, health, service>>

Migrate(m) ==
    BeginMigrate(m) \/ SelectApplied(m) \/ Execute(m) \/ Commit(m) \/ MigrationFails(m)

-----------------------------------------------------------------------------
(* The brain container *)

\* start.sh begins: with the container, or after a restart.
StartBrain ==
    /\ brain = "down"
    /\ brain' = "start"
    /\ migrator' = [migrator EXCEPT !["brain"] = [Idle EXCEPT !.pc = "select"]]
    /\ health' = NoHealth
    /\ UNCHANGED <<now, schema, record, beat, service, faults>>

\* Mutant of MayExec: without set -e.
MayExecAnyhow == migrator["brain"].pc \in {"done", "failed"}

\* set -e: the script goes on only after a migration that succeeded.
MayExec == migrator["brain"].pc = "done"

ExecDaemon ==
    /\ brain = "start"
    /\ MayExec
    /\ brain' = "daemon"
    /\ UNCHANGED <<now, schema, record, migrator, beat, health, service, faults>>

\* The script ends with the error, and the container with it.
ScriptFails ==
    /\ brain = "start"
    /\ migrator["brain"].pc = "failed"
    /\ brain' = "down"
    /\ migrator' = [migrator EXCEPT !["brain"] = Idle]
    /\ UNCHANGED <<now, schema, record, beat, health, service, faults>>

BrainCrashes ==
    /\ brain # "down"
    /\ faults < MaxFaults
    /\ brain' = "down"
    /\ migrator' = [migrator EXCEPT !["brain"] = Idle]
    /\ faults' = faults + 1
    /\ UNCHANGED <<now, schema, record, beat, health, service>>

\* _heartbeat, in the scheduler or in the watcher: once per tick, and a tick of the
\* scheduler lasts as long as its runs.
Beats(d) ==
    /\ \/ d = "brain" /\ brain = "daemon" /\ BeatTable \in schema
       \/ d = "watcher" /\ service["watcher"].pc = "up" /\ WatchTable \in schema
    /\ beat' = [beat EXCEPT ![d] = now]
    /\ UNCHANGED <<now, schema, record, migrator, brain, health, service, faults>>

-----------------------------------------------------------------------------
(* The healthcheck and the services behind it *)

\* daemon-status asks for the latest heartbeat, whoever's it is.
Latest(d) == beat[d] # Never /\ \A c \in Daemon : beat[c] <= beat[d]

\* Mutant of Fresh: any heartbeat will do.
FreshAtAnyAge(d) == Latest(d)

Fresh(d) == Latest(d) /\ now - beat[d] <= Stale

\* daemon-status exits 0. (Without the table, or without a row, it does not.)
ProbeSucceeds ==
    \E d \in Daemon :
        /\ Fresh(d)
        /\ health' = [health EXCEPT !.status = "healthy", !.fails = 0, !.probed = TRUE,
                                    !.by = d]

\* A failure in the start period does not count before a first success.
ProbeFails ==
    /\ \A d \in Daemon : ~Fresh(d)
    /\ LET fails == IF health.status = "starting" /\ health.age < Grace
                    THEN 0 ELSE IF health.fails < Retries THEN health.fails + 1 ELSE Retries
       IN health' = [health EXCEPT
             !.fails = fails, !.probed = TRUE,
             !.status = IF fails = Retries THEN "unhealthy" ELSE @]

\* Docker runs the healthcheck once per interval, as long as the container runs.
Probe ==
    /\ brain # "down"
    /\ ~health.probed
    /\ ProbeSucceeds \/ ProbeFails
    /\ UNCHANGED <<now, schema, record, migrator, brain, beat, service, faults>>

\* depends_on: service_healthy.
StartService(s) ==
    /\ service[s].pc = "waiting"
    /\ brain # "down"
    /\ health.status = "healthy"
    /\ service' = [service EXCEPT ![s] = [pc |-> "up", by |-> health.by]]
    /\ UNCHANGED <<now, schema, record, migrator, brain, beat, health, faults>>

ServiceCrashes(s) ==
    /\ service[s].pc = "up"
    /\ faults < MaxFaults
    /\ service' = [service EXCEPT ![s].pc = "down"]
    /\ faults' = faults + 1
    /\ UNCHANGED <<now, schema, record, migrator, brain, beat, health>>

\* restart: unless-stopped asks nobody.
RestartService(s) ==
    /\ service[s].pc = "down"
    /\ service' = [service EXCEPT ![s].pc = "up"]
    /\ UNCHANGED <<now, schema, record, migrator, brain, beat, health, faults>>

\* An interval ends, with its probe.
Tick ==
    /\ now < MaxTime
    /\ brain # "down" => health.probed
    /\ now' = now + 1
    /\ health' = [health EXCEPT !.probed = FALSE,
                                !.age = IF @ < Grace THEN @ + 1 ELSE Grace]
    /\ UNCHANGED <<schema, record, migrator, brain, beat, service, faults>>

DeploymentNext ==
    \/ \E m \in Migrator : Migrate(m)
    \/ StartBrain \/ ExecDaemon \/ ScriptFails \/ BrainCrashes
    \/ \E d \in Daemon : Beats(d)
    \/ Probe
    \/ \E s \in Dependent : StartService(s) \/ ServiceCrashes(s) \/ RestartService(s)
    \/ Tick

DeploymentSpec == DeploymentInit /\ [][DeploymentNext]_deployment

-----------------------------------------------------------------------------
(* The deployment, seen from outside *)

\* The daemon, and the services that compose started on the word of its heartbeat.
Running == {p \in {"daemon"} \cup Dependent :
                IF p = "daemon" THEN brain = "daemon"
                ELSE service[p].pc = "up" /\ service[p].by = "brain"}

Upgrading == INSTANCE Upgrade WITH
    Part <- {"daemon"} \cup Dependent,
    applied <- schema,
    recorded <- record,
    running <- Running

-----------------------------------------------------------------------------
(* Properties *)

\* Columns, frames and Docker's records hold what they can hold.
DeploymentTypeOK ==
    /\ now \in 0..MaxTime
    /\ schema \in SUBSET Migration
    /\ record \in SUBSET Migration
    /\ migrator \in [Migrator -> MigratorType]
    /\ brain \in BrainType
    /\ beat \in [Daemon -> 0..MaxTime \cup {Never}]
    /\ health \in HealthType
    /\ service \in [Dependent -> ServiceType]
    /\ faults \in 0..MaxFaults

\* Whatever fails or crashes in between, and however many processes migrate, what is
\* recorded is what is there, without a gap: the next migration can go on.
RecordMatchesSchema ==
    /\ record = schema
    /\ \A i \in schema, j \in Migration : j < i => j \in schema

\* The daemon runs on the full schema, and so does a service that compose started on
\* the word of this brain's heartbeat. (A heartbeat of another daemon, of an earlier
\* deployment or of a watcher that still runs, opens the gate too early.)
ServicesFollowMigration ==
    /\ brain = "daemon" => schema = Migration
    /\ \A s \in Dependent : service[s].by = "brain" => schema = Migration

\* However many processes migrate and whatever fails, crashes and comes back, the volume
\* goes through its versions as Upgrade says, and nothing runs on less than the last:
\* neither the daemon nor a service that its heartbeat let start.
UpgradesInOrder == Upgrading!Spec

\* While brain runs and is called healthy, the daemon that the probe saw has ticked not
\* longer ago than the threshold and the retries: but this need not be the scheduler.
HealthyIsRecent ==
    brain # "down" /\ health.status = "healthy" =>
        /\ health.by # "none"
        /\ beat[health.by] # Never
        /\ now - beat[health.by] <= Stale + Retries
=============================================================================
