------------------------------- MODULE Runner -------------------------------
(***************************************************************************)
(* The workflow_runs table and everything that writes it: run_workflow     *)
(* (src/src/runner/runner.py), executed concurrently by the processes that *)
(* start runs, and the recovery sweeps of the two daemons.                 *)
(*                                                                         *)
(* Each element of Run is one call of run_workflow and the row it inserts. *)
(* task[r] is the Python frame of that call, row[r] the database row. A    *)
(* step of the model is what happens between two awaits of the code: every *)
(* database statement commits on its own (db.execute_query), and between   *)
(* two of them any other run, a crash or a restart can come in.            *)
(*                                                                         *)
(* A definition marked "Mutant" is a bug the code does not have. Nothing   *)
(* uses it: PROJECT.json names the property that fails once it takes the   *)
(* place of the definition it is a wrong version of.                       *)
(***************************************************************************)
EXTENDS Integers, Sequences

CONSTANTS
    Run,         \* calls of run_workflow, named by their uuid4
    NoRun,       \* previous_run_id NULL
    Name,        \* workflow names
    StepName,    \* step names
    Definition,  \* the Workflow objects the loader can return
    Serves,      \* Serves[s]: those that surface s is asked to run
    Deployed,    \* the services of the compose profiles in use
    MaxTime      \* bound of the wall clock

Surface == {"scheduler", "watcher", "api", "cli"}

\* The long-running processes; every `brain run` is a process of its own.
Service == {"scheduler", "watcher", "api"}

\* trigger_context->>'event', "none" standing for a NULL trigger_context.
Event == {"none", "webhook", "file"}

\* A step, by the sources its placeholders draw on: steps of this run, steps
\* of the previous successful run, the trigger context.
StepType == [name : StepName, prior : SUBSET StepName,
             previous : SUBSET StepName, trigger : BOOLEAN]

WorkflowType == [name : Name, steps : Seq(StepType)]

\* What the Workflow model validates: a step at least, and distinct names.
ASSUME RunnerAssumption ==
    /\ NoRun \notin Run
    /\ MaxTime \in Nat \ {0}
    /\ Definition # {}
    /\ Definition \subseteq WorkflowType
    /\ \A d \in Definition :
           /\ d.steps # <<>>
           /\ \A i, j \in 1..Len(d.steps) :
                  d.steps[i].name = d.steps[j].name => i = j
    /\ Serves \in [Surface -> SUBSET Definition]
    /\ Deployed \subseteq Service

VARIABLES
    now,   \* datetime.now(UTC), read by every process
    up,    \* up[s]: service s is running and past its recovery sweep
    task,  \* task[r]: the frame of the call that makes run r
    row    \* row[r]: the row of workflow_runs with id r

vars == <<now, up, task, row>>

Status == {"absent", "running", "success", "failed"}

\* The error column: NULL, a step's failure, or the text of a sweep.
Error == {"null", "step", "scheduler restarted", "watcher restarted"}

StepOutcome == [name : StepName, success : BOOLEAN]

\* A time column that is NULL.
NoTime == 0

Time == 1..MaxTime

\* "lookup", "insert" and "update" wait for a database statement, "step" runs
\* the steps; "done" has returned, "raised" has thrown, "dead" was killed.
Active == {"lookup", "insert", "step", "update"}

TaskType ==
    [pc : Active \cup {"idle", "done", "raised", "dead"}, surface : Surface,
     def : Definition, event : Event, startedAt : Time, endedAt : Time,
     prev : Run \cup {NoRun}, prevSteps : SUBSET StepName,
     results : Seq(StepOutcome)]

\* workflow_name, workflow_file_path and planned_steps are what def says.
RowType ==
    [status : Status, def : Definition, event : Event, startedAt : Time,
     endedAt : Time \cup {NoTime}, prev : Run \cup {NoRun},
     output : Seq(StepOutcome), error : Error]

SomeDefinition == CHOOSE d \in Definition : TRUE

NotBegun ==
    [pc |-> "idle", surface |-> "cli", def |-> SomeDefinition,
     event |-> "none", startedAt |-> 1, endedAt |-> 1, prev |-> NoRun,
     prevSteps |-> {}, results |-> <<>>]

NoRow ==
    [status |-> "absent", def |-> SomeDefinition, event |-> "none",
     startedAt |-> 1, endedAt |-> NoTime, prev |-> NoRun, output |-> <<>>,
     error |-> "null"]

Init ==
    /\ now = 1
    /\ up = [s \in Service |-> FALSE]
    /\ task = [r \in Run |-> NotBegun]
    /\ row = [r \in Run |-> NoRow]

-----------------------------------------------------------------------------
(* run_workflow *)

IsActive(r) == task[r].pc \in Active

\* The trigger context a surface passes: none for cron, `brain run` and
\* POST /run, one for a webhook and for a file event.
EventsOf(s) ==
    CASE s = "watcher" -> {"file"}
      [] s = "api" -> {"none", "webhook"}
      [] OTHER -> {"none"}

\* A service starts runs while it is up, and the scheduler one at a time;
\* the shell can start one at any moment.
CanBegin(s) ==
    /\ s \in Service => up[s]
    /\ s = "scheduler" =>
           \A r \in Run : IsActive(r) => task[r].surface # "scheduler"

\* The call: the run's id and started_at are taken before any statement.
Begin(r) ==
    /\ task[r].pc = "idle"
    /\ \E s \in Surface :
         \E d \in Serves[s], e \in EventsOf(s) :
           /\ CanBegin(s)
           /\ task' = [task EXCEPT ![r] =
                 [NotBegun EXCEPT !.pc = "lookup", !.surface = s, !.def = d,
                                  !.event = e, !.startedAt = now]]
    /\ UNCHANGED <<now, up, row>>

\* Mutant of SuccessesOf: the lookup forgets its status filter.
AnyRowOf(n) == {q \in Run : row[q].status # "absent" /\ row[q].def.name = n}

\* Rows the lookup's WHERE clause keeps.
SuccessesOf(n) == {q \in Run : row[q].status = "success" /\ row[q].def.name = n}

\* ORDER BY started_at DESC LIMIT 1: any of the rows that share the latest.
LatestOf(n) ==
    {q \in SuccessesOf(n) :
        \A p \in SuccessesOf(n) : row[p].startedAt <= row[q].startedAt}

\* previous_steps: the names whose output a {previous.X} can read.
Succeeded(output) ==
    {output[i].name : i \in {j \in DOMAIN output : output[j].success}}

Lookup(r) ==
    /\ task[r].pc = "lookup"
    /\ \/ /\ SuccessesOf(task[r].def.name) = {}
          /\ task' = [task EXCEPT ![r] = [@ EXCEPT !.pc = "insert"]]
       \/ \E q \in LatestOf(task[r].def.name) :
              task' = [task EXCEPT ![r] =
                 [@ EXCEPT !.pc = "insert", !.prev = q,
                           !.prevSteps = Succeeded(row[q].output)]]
    /\ UNCHANGED <<now, up, row>>

\* The row the INSERT writes.
RunningRow(t) ==
    [NoRow EXCEPT !.status = "running", !.def = t.def, !.event = t.event,
                  !.startedAt = t.startedAt, !.prev = t.prev]

Insert(r) ==
    /\ task[r].pc = "insert"
    /\ task' = [task EXCEPT ![r].pc = "step"]
    /\ row' = [row EXCEPT ![r] = RunningRow(task[r])]
    /\ UNCHANGED <<now, up>>

\* Mutant of Resolves: a {previous.X} with no source becomes an empty string.
ResolvesLeniently(step, t) ==
    /\ step.prior \subseteq {t.results[i].name : i \in DOMAIN t.results}
    /\ step.trigger => t.event # "none"

\* Every placeholder of the step has a source.
Resolves(step, t) ==
    /\ step.prior \subseteq {t.results[i].name : i \in DOMAIN t.results}
    /\ step.previous \subseteq t.prevSteps
    /\ step.trigger => t.event # "none"

\* The step after those that have run.
NextStep(t) == t.def.steps[Len(t.results) + 1]

\* Mutant of GoesOn: the loop does not break at a failed step.
GoesOnAfterFailure(t, ok) == Len(t.results) + 1 < Len(t.def.steps)

\* The loop goes on after an outcome: the step succeeded and was not the last.
GoesOn(t, ok) == ok /\ Len(t.results) + 1 < Len(t.def.steps)

\* The frame once the step has an outcome; ended_at is taken as the loop ends.
AfterStep(t, ok, time) ==
    [t EXCEPT
        !.results = Append(@, [name |-> NextStep(t).name, success |-> ok]),
        !.pc = IF GoesOn(t, ok) THEN "step" ELSE "update",
        !.endedAt = IF GoesOn(t, ok) THEN @ ELSE time]

\* Mutant of ExecuteStep: a failed step is tried again.
ExecuteStepRetrying(r) ==
    /\ task[r].pc = "step"
    /\ \/ UNCHANGED task
       \/ /\ Resolves(NextStep(task[r]), task[r])
          /\ task' = [task EXCEPT ![r] = AfterStep(@, TRUE, now)]
    /\ UNCHANGED <<now, up, row>>

\* One turn of the loop. Whatever the executor does, raising included, is a
\* success or a failure; a step that does not resolve fails unexecuted.
ExecuteStep(r) ==
    /\ task[r].pc = "step"
    /\ \E ok \in BOOLEAN :
         /\ ok => Resolves(NextStep(task[r]), task[r])
         /\ task' = [task EXCEPT ![r] = AfterStep(@, ok, now)]
    /\ UNCHANGED <<now, up, row>>

\* Mutant of Verdict: a status the table's CHECK does not know.
VerdictHalted(t) ==
    IF Len(t.results) < Len(t.def.steps) THEN "halted" ELSE "success"

\* status: success unless a step failed.
Verdict(t) ==
    IF \A i \in DOMAIN t.results : t.results[i].success
    THEN "success" ELSE "failed"

\* The row the UPDATE leaves, whatever it held before: WHERE id = r only.
TerminalRow(old, t) ==
    [old EXCEPT !.status = Verdict(t), !.endedAt = t.endedAt,
                !.output = t.results,
                !.error = IF Verdict(t) = "success" THEN "null" ELSE "step"]

\* Mutant of WriteTerminal: the link is looked up at the end, not at the start.
WriteTerminalThenLink(r) ==
    /\ task[r].pc = "update"
    /\ task' = [task EXCEPT ![r].pc = "done"]
    /\ \E q \in {r} \cup SuccessesOf(task[r].def.name) :
           row' = [row EXCEPT ![r] = [TerminalRow(@, task[r]) EXCEPT !.prev = q]]
    /\ UNCHANGED <<now, up>>

WriteTerminal(r) ==
    /\ task[r].pc = "update"
    /\ task' = [task EXCEPT ![r].pc = "done"]
    /\ row' = [row EXCEPT ![r] = TerminalRow(@, task[r])]
    /\ UNCHANGED <<now, up>>

-----------------------------------------------------------------------------
(* What goes wrong *)

\* The frame of a call that ends without returning is lost.
Lost(t, how) == [NotBegun EXCEPT !.pc = how, !.surface = t.surface]

\* A statement raises: nothing is committed, or the commit's answer is lost.
StatementRaises(r) ==
    /\ task[r].pc \in {"lookup", "insert", "update"}
    /\ task' = [task EXCEPT ![r] = Lost(@, "raised")]
    /\ \/ UNCHANGED row
       \/ /\ task[r].pc = "insert"
          /\ row' = [row EXCEPT ![r] = RunningRow(task[r])]
       \/ /\ task[r].pc = "update"
          /\ row' = [row EXCEPT ![r] = TerminalRow(@, task[r])]
    /\ UNCHANGED <<now, up>>

\* on_step_complete is called outside the try; only `brain run` passes one.
CallbackRaises(r) ==
    /\ task[r].pc = "step"
    /\ task[r].surface = "cli"
    /\ task' = [task EXCEPT ![r] = Lost(@, "raised")]
    /\ UNCHANGED <<now, up, row>>

\* The process of a `brain run` dies.
Kill(r) ==
    /\ IsActive(r)
    /\ task[r].surface = "cli"
    /\ task' = [task EXCEPT ![r] = Lost(@, "dead")]
    /\ UNCHANGED <<now, up, row>>

\* A service dies with every run it had in flight.
Crash(s) ==
    /\ up[s]
    /\ up' = [up EXCEPT ![s] = FALSE]
    /\ task' = [r \in Run |->
          IF IsActive(r) /\ task[r].surface = s
          THEN Lost(task[r], "dead") ELSE task[r]]
    /\ UNCHANGED <<now, row>>

-----------------------------------------------------------------------------
(* Recovery *)

\* Mutant of Orphans: no status filter.
OrphansOfAnyStatus(s) ==
    {r \in Run :
        /\ row[r].status # "absent"
        /\ \/ s = "scheduler"
           \/ s = "watcher" /\ row[r].event = "file"}

\* Mutant of Orphans: the watcher's sweep loses its scope.
OrphansOfEveryone(s) ==
    {r \in Run : row[r].status = "running" /\ s \in {"scheduler", "watcher"}}

\* Mutant of Orphans: both sweeps look for a trigger context.
OrphansWithContext(s) ==
    {r \in Run :
        /\ row[r].status = "running"
        /\ row[r].event # "none"
        /\ s \in {"scheduler", "watcher"}}

\* The rows a service's _recover_orphans updates when it boots: the scheduler
\* takes every running row, the watcher those of file events. The API has none.
Orphans(s) ==
    {r \in Run :
        /\ row[r].status = "running"
        /\ \/ s = "scheduler"
           \/ s = "watcher" /\ row[r].event = "file"}

OrphanError(s) ==
    IF s = "scheduler" THEN "scheduler restarted" ELSE "watcher restarted"

Boot(s) ==
    /\ ~up[s]
    /\ up' = [up EXCEPT ![s] = TRUE]
    /\ row' = [r \in Run |->
          IF r \in Orphans(s)
          THEN [row[r] EXCEPT !.status = "failed", !.error = OrphanError(s),
                              !.endedAt = now]
          ELSE row[r]]
    /\ UNCHANGED <<now, task>>

Tick ==
    /\ now < MaxTime
    /\ now' = now + 1
    /\ UNCHANGED <<up, task, row>>

\* One step of the call itself.
Proceed(r) == Lookup(r) \/ Insert(r) \/ ExecuteStep(r) \/ WriteTerminal(r)

Next ==
    \/ \E r \in Run : \/ Begin(r) \/ Proceed(r)
                      \/ StatementRaises(r) \/ CallbackRaises(r) \/ Kill(r)
    \/ \E s \in Deployed : Crash(s) \/ Boot(s)
    \/ Tick

Spec == Init /\ [][Next]_vars

\* The event loop resumes every call, executors are bounded by their timeouts,
\* and the services restart (restart: unless-stopped in docker-compose.yml).
\* Nothing makes a run begin, a process crash, or a statement fail.
Fairness ==
    /\ \A r \in Run : WF_vars(Proceed(r))
    /\ \A s \in Deployed : WF_vars(Boot(s))

FairSpec == Spec /\ Fairness
-----------------------------------------------------------------------------
(* Properties *)

\* The variables hold what the columns and the frames can hold.
TypeOK ==
    /\ now \in Time
    /\ up \in [Service -> BOOLEAN]
    /\ task \in [Run -> TaskType]
    /\ row \in [Run -> RowType]

\* previous_run_id names a run of the same workflow that has succeeded, for
\* good, and that ended no later than the run built on it: whatever other runs,
\* sweeps and crashes came between the lookup and the INSERT, or after it.
PreviousIsASuccess ==
    \A r \in Run :
        row[r].prev # NoRun =>
            LET q == row[r].prev IN
            /\ q # r
            /\ row[q].status = "success"
            /\ row[q].def.name = row[r].def.name
            /\ row[r].endedAt # NoTime => row[q].endedAt <= row[r].endedAt

\* Following previous_run_id always ends: every set of rows has one that is
\* not built on another of the set ("follow-the-chain postmortem").
ChainsEnd ==
    \A S \in SUBSET Run :
        S # {} => \E r \in S : row[r].prev \notin S

\* A step recorded as successful had every {previous.X} it reads recorded, as
\* a success, in the row that previous_run_id names: the chain explains the
\* output, also when that row was written by another process.
PreviousDataIsThere ==
    \A r \in Run : \A i \in DOMAIN row[r].output :
        row[r].output[i].success =>
            row[r].def.steps[i].previous \subseteq
                IF row[r].prev = NoRun THEN {}
                ELSE Succeeded(row[row[r].prev].output)

\* The output is the part of planned_steps that ran, in order, each entry but
\* the last a success; the status is success exactly when that is all of the
\* plan and all of it succeeded; a row no writer ended has no output.
OutputFollowsPlan ==
    \A r \in Run :
        LET out == row[r].output
            plan == row[r].def.steps
        IN /\ Len(out) <= Len(plan)
           /\ \A i \in DOMAIN out : out[i].name = plan[i].name
           /\ \A i \in DOMAIN out : i < Len(out) => out[i].success
           /\ row[r].status = "success" <=>
                  /\ Len(out) = Len(plan)
                  /\ \A i \in DOMAIN out : out[i].success
           /\ row[r].error # "step" /\ row[r].status # "success" => out = <<>>

\* What run_workflow returned is what the table says ever after: no sweep, no
\* other run and no late statement changes the row of a run that has returned.
ReturnedIsRecorded ==
    \A r \in Run :
        task[r].pc = "done" => row[r] = TerminalRow(row[r], task[r])

\* A row that says success is never written again.
SuccessIsFinal ==
    [][\A r \in Run : row[r].status = "success" => row'[r] = row[r]]_vars

\* The watcher's sweep, which selects rows by trigger context and not by owner,
\* fails only runs of a watcher that is dead ("does not collide").
WatcherSweepSparesTheLiving ==
    [][\A r \in Run :
          row'[r].error = "watcher restarted" /\ row'[r] # row[r] =>
              task[r].surface = "watcher" /\ ~IsActive(r)]_vars

\* A workflow each version of which reads {previous.X} somewhere never succeeds:
\* the first success would need an earlier one.
NeedsPrevious(n) ==
    \A d \in Definition :
        d.name = n => \E i \in DOMAIN d.steps : d.steps[i].previous # {}

NoSuccessFromNothing ==
    \A r \in Run :
        row[r].status = "success" => ~NeedsPrevious(row[r].def.name)

\* The table, seen with orphaned rows told apart from failed ones, is the
\* ledger of RunLedger.
LedgerState ==
    [r \in Run |-> IF row[r].status = "failed" /\ row[r].error # "step"
                   THEN "orphaned" ELSE row[r].status]

LedgerLink == [r \in Run |-> row[r].prev]

Ledger == INSTANCE RunLedger WITH state <- LedgerState, link <- LedgerLink

IsALedger == Ledger!Spec

\* A run that has begun stops: it returns, raises or is killed.
EveryRunStops == \A r \in Run : IsActive(r) ~> ~IsActive(r)

\* A row left running by a daemon that died is failed by that daemon's, or by
\* the scheduler's, next boot.
OrphansAreRecovered ==
    \A r \in Run :
        /\ task[r].pc = "dead"
        /\ task[r].surface \in {"scheduler", "watcher"}
        /\ row[r].status = "running"
        ~> row[r].status # "running"

-----------------------------------------------------------------------------
(* What the documentation says and the code does not do *)

\* daemon.py:173: "any running row at startup is an orphan from a prior crash".
\* The scheduler's sweep fails no run that is still executing.
SweepTakesOnlyOrphans ==
    [][\A r \in Run :
          row[r].status = "running" /\ row'[r].error = "scheduler restarted" =>
              ~IsActive(r)]_vars

=============================================================================
