---------------------------- MODULE RunnerProofs ----------------------------
(***************************************************************************)
(* What holds of Runner for any set of runs, workflows, services in use    *)
(* and bound of the clock.                                                 *)
(***************************************************************************)
EXTENDS Runner, TLAPS

-----------------------------------------------------------------------------
(* The records the model builds are of the declared types. *)

LEMMA SomeDefinitionType == SomeDefinition \in Definition
BY RunnerAssumption DEF SomeDefinition

LEMMA TimeType == Time \subseteq Nat /\ NoTime \in Nat /\ 1 \in Time
BY RunnerAssumption DEF Time, NoTime

LEMMA NotBegunType == NotBegun \in TaskType
BY SomeDefinitionType, TimeType, RunnerAssumption
   DEF NotBegun, TaskType, Active, Surface, Event

LEMMA NoRowType == NoRow \in RowType
BY SomeDefinitionType, TimeType, RunnerAssumption
   DEF NoRow, RowType, Status, Event, Error

LEMMA LostType ==
    ASSUME NEW t \in TaskType, NEW how \in {"raised", "dead"}
    PROVE  Lost(t, how) \in TaskType
BY NotBegunType DEF Lost, NotBegun, TaskType

LEMMA RunningRowType ==
    ASSUME NEW t \in TaskType
    PROVE  RunningRow(t) \in RowType
BY NoRowType DEF RunningRow, RowType, TaskType, NoRow, Status

LEMMA TerminalRowType ==
    ASSUME NEW t \in TaskType, NEW old \in RowType
    PROVE  TerminalRow(old, t) \in RowType
BY DEF TerminalRow, Verdict, RowType, TaskType, Status, Error

LEMMA SucceededType ==
    ASSUME NEW out \in Seq(StepOutcome)
    PROVE  Succeeded(out) \subseteq StepName
<1>1. DOMAIN out = 1..Len(out)
  OBVIOUS
<1>2. \A j \in 1..Len(out) : out[j] \in StepOutcome
  OBVIOUS
<1>3. \A j \in DOMAIN out : out[j].name \in StepName
  BY <1>1, <1>2 DEF StepOutcome
<1> QED
  BY <1>3 DEF Succeeded

\* The next step exists as long as the results are shorter than the plan.
LEMMA NextStepType ==
    ASSUME NEW t \in TaskType, Len(t.results) < Len(t.def.steps)
    PROVE  NextStep(t) \in StepType
<1>1. t.def \in WorkflowType
  BY RunnerAssumption DEF TaskType
<1>2. t.def.steps \in Seq(StepType) /\ t.results \in Seq(StepOutcome)
  BY <1>1 DEF WorkflowType, TaskType
<1>3. Len(t.results) + 1 \in 1..Len(t.def.steps)
  BY <1>2
<1> QED
  BY <1>2, <1>3 DEF NextStep

\* A frame that has not left the loop has a step to run. TypeOK is inductive
\* only with it: the outcome's name is that of the next step.
HasNextStep ==
    \A r \in Run :
        task[r].pc \in {"lookup", "insert", "step"} =>
            Len(task[r].results) < Len(task[r].def.steps)

TypeInv == TypeOK /\ HasNextStep

LEMMA StepsType ==
    ASSUME NEW d \in Definition
    PROVE  d.steps \in Seq(StepType) /\ 0 < Len(d.steps)
<1>1. d \in WorkflowType /\ d.steps # <<>>
  BY RunnerAssumption
<1> QED
  BY <1>1 DEF WorkflowType

LEMMA AfterStepType ==
    ASSUME NEW t \in TaskType, Len(t.results) < Len(t.def.steps),
           NEW ok \in BOOLEAN, NEW time \in Time
    PROVE  /\ AfterStep(t, ok, time) \in TaskType
           /\ AfterStep(t, ok, time).pc = "step" =>
                 Len(AfterStep(t, ok, time).results)
                     < Len(AfterStep(t, ok, time).def.steps)
<1>1. [name |-> NextStep(t).name, success |-> ok] \in StepOutcome
  BY NextStepType DEF StepType, StepOutcome
<1>2. t.results \in Seq(StepOutcome)
  BY DEF TaskType
<1>3. Append(t.results, [name |-> NextStep(t).name, success |-> ok])
          \in Seq(StepOutcome)
  BY <1>1, <1>2
<1>4. /\ Len(Append(t.results, [name |-> NextStep(t).name, success |-> ok]))
             = Len(t.results) + 1
  BY <1>1, <1>2
<1>5. AfterStep(t, ok, time) \in TaskType
  BY <1>3 DEF AfterStep, TaskType, Active
<1> QED
  BY <1>4, <1>5 DEF AfterStep, TaskType, GoesOn

LEMMA InitType == Init => TypeInv
BY NotBegunType, NoRowType, TimeType
   DEF Init, TypeInv, TypeOK, HasNextStep, Service, Surface, NotBegun

LEMMA NextType == TypeInv /\ [Next]_vars => TypeInv'
<1> SUFFICES ASSUME TypeInv, [Next]_vars PROVE TypeInv'
  OBVIOUS
<1>. USE DEF TypeInv, TypeOK, HasNextStep
<1>1. ASSUME NEW r \in Run, Begin(r) PROVE TypeInv'
  <2> DEFINE begun(s, d, e) ==
        [NotBegun EXCEPT !.pc = "lookup", !.surface = s, !.def = d,
                         !.event = e, !.startedAt = now]
  <2>1. PICK s \in Surface : \E d \in Serves[s], e \in EventsOf(s) :
          task' = [task EXCEPT ![r] = begun(s, d, e)]
    BY <1>1 DEF Begin
  <2>2. PICK d \in Serves[s], e \in EventsOf(s) :
          task' = [task EXCEPT ![r] = begun(s, d, e)]
    BY <2>1
  <2>3. d \in Definition /\ e \in Event
    BY RunnerAssumption DEF EventsOf, Event
  <2>4. begun(s, d, e) \in TaskType
    BY <2>3, NotBegunType DEF TaskType, Active
  <2>5. Len(begun(s, d, e).results) < Len(begun(s, d, e).def.steps)
    BY <2>3, StepsType, NotBegunType DEF TaskType, NotBegun
  <2> QED
    BY <1>1, <2>2, <2>4, <2>5 DEF Begin
<1>2. ASSUME NEW r \in Run, Lookup(r) PROVE TypeInv'
  <2>1. [task[r] EXCEPT !.pc = "insert"] \in TaskType
    BY DEF TaskType, Active
  <2>2. ASSUME NEW q \in LatestOf(task[r].def.name)
        PROVE  [task[r] EXCEPT !.pc = "insert", !.prev = q,
                    !.prevSteps = Succeeded(row[q].output)] \in TaskType
    <3>1. q \in Run
      BY DEF LatestOf, SuccessesOf
    <3>2. Succeeded(row[q].output) \subseteq StepName
      BY <3>1, SucceededType DEF RowType
    <3> QED
      BY <3>1, <3>2 DEF TaskType, Active
  <2>3. task[r] \in TaskType
    OBVIOUS
  <2>4. CASE task' = [task EXCEPT ![r] = [@ EXCEPT !.pc = "insert"]]
    BY <1>2, <2>1, <2>3, <2>4 DEF Lookup, TaskType
  <2>5. ASSUME NEW q \in LatestOf(task[r].def.name),
               task' = [task EXCEPT ![r] =
                  [@ EXCEPT !.pc = "insert", !.prev = q,
                            !.prevSteps = Succeeded(row[q].output)]]
        PROVE  TypeInv'
    BY <1>2, <2>2, <2>3, <2>5 DEF Lookup, TaskType
  <2> QED
    BY <1>2, <2>4, <2>5 DEF Lookup
<1>3. ASSUME NEW r \in Run, Insert(r) PROVE TypeInv'
  <2>1. RunningRow(task[r]) \in RowType
    BY RunningRowType
  <2>2. [task[r] EXCEPT !.pc = "step"] \in TaskType
    BY DEF TaskType, Active
  <2>3. task[r] \in TaskType
    OBVIOUS
  <2> QED
    BY <1>3, <2>1, <2>2, <2>3 DEF Insert, TaskType
<1>4. ASSUME NEW r \in Run, ExecuteStep(r) PROVE TypeInv'
  <2>1. PICK ok \in BOOLEAN :
          task' = [task EXCEPT ![r] = AfterStep(@, ok, now)]
    BY <1>4 DEF ExecuteStep
  <2>2. /\ AfterStep(task[r], ok, now) \in TaskType
        /\ AfterStep(task[r], ok, now).pc \in {"step", "update"}
        /\ AfterStep(task[r], ok, now).pc = "step" =>
             Len(AfterStep(task[r], ok, now).results)
                 < Len(AfterStep(task[r], ok, now).def.steps)
    <3>1. Len(task[r].results) < Len(task[r].def.steps)
      BY <1>4 DEF ExecuteStep
    <3>2. AfterStep(task[r], ok, now) \in TaskType
      BY <3>1, AfterStepType
    <3>3. AfterStep(task[r], ok, now).pc \in {"step", "update"}
      BY DEF AfterStep, TaskType
    <3> QED
      BY <3>1, <3>2, <3>3, AfterStepType
  <2> QED
    BY <1>4, <2>1, <2>2 DEF ExecuteStep
<1>5. ASSUME NEW r \in Run, WriteTerminal(r) PROVE TypeInv'
  <2>1. TerminalRow(row[r], task[r]) \in RowType
    BY TerminalRowType
  <2>2. [task[r] EXCEPT !.pc = "done"] \in TaskType
    BY DEF TaskType
  <2> QED
    BY <1>5, <2>1, <2>2 DEF WriteTerminal, TaskType
<1>6. ASSUME NEW r \in Run, StatementRaises(r) PROVE TypeInv'
  <2>1. /\ TerminalRow(row[r], task[r]) \in RowType
        /\ RunningRow(task[r]) \in RowType
        /\ Lost(task[r], "raised") \in TaskType
        /\ Lost(task[r], "raised").pc = "raised"
    BY TerminalRowType, RunningRowType, LostType DEF Lost, NotBegun
  <2> QED
    BY <1>6, <2>1 DEF StatementRaises
<1>7. ASSUME NEW r \in Run, CallbackRaises(r) \/ Kill(r) PROVE TypeInv'
  <2>1. \A how \in {"raised", "dead"} :
            Lost(task[r], how) \in TaskType /\ Lost(task[r], how).pc = how
    BY LostType DEF Lost, NotBegun
  <2> QED
    BY <1>7, <2>1 DEF CallbackRaises, Kill
<1>8. ASSUME NEW s \in Deployed, Crash(s) PROVE TypeInv'
  <2>1. \A r \in Run : Lost(task[r], "dead") \in TaskType
                       /\ Lost(task[r], "dead").pc = "dead"
    BY LostType DEF Lost, NotBegun
  <2> QED
    BY <1>8, <2>1, RunnerAssumption DEF Crash
<1>9. ASSUME NEW s \in Deployed, Boot(s) PROVE TypeInv'
  <2>1. \A r \in Run :
          [row[r] EXCEPT !.status = "failed", !.error = OrphanError(s),
                         !.endedAt = now] \in RowType
    BY DEF RowType, Status, Error, OrphanError
  <2> QED
    BY <1>9, <2>1, RunnerAssumption DEF Boot
<1>10. CASE Tick
  BY <1>10, RunnerAssumption DEF Tick, Time
<1>11. CASE UNCHANGED vars
  BY <1>11 DEF vars
<1> QED
  BY <1>1, <1>2, <1>3, <1>4, <1>5, <1>6, <1>7, <1>8, <1>9, <1>10, <1>11
     DEF Next, Proceed

LEMMA TypeInvariance == Spec => []TypeInv
BY InitType, NextType, PTL DEF Spec

\* The variables of the runner hold what their columns and frames can hold.
THEOREM TypeCorrect == Spec => []TypeOK
<1>1. TypeInv => TypeOK
  BY DEF TypeInv
<1> QED
  BY <1>1, TypeInvariance, PTL

-----------------------------------------------------------------------------
(* What one step of the system does to one run. *)

BeginsHere(p) ==
    /\ task[p].pc = "idle"
    /\ row'[p] = row[p]
    /\ \E s \in Surface, d \in Definition, e \in Event :
          task'[p] = [NotBegun EXCEPT !.pc = "lookup", !.surface = s,
                         !.def = d, !.event = e, !.startedAt = now]

LooksUpHere(p) ==
    /\ task[p].pc = "lookup"
    /\ row'[p] = row[p]
    /\ \/ task'[p] = [task[p] EXCEPT !.pc = "insert"]
       \/ \E q \in SuccessesOf(task[p].def.name) :
             task'[p] = [task[p] EXCEPT !.pc = "insert", !.prev = q,
                                        !.prevSteps = Succeeded(row[q].output)]

StepsHere(p) ==
    /\ task[p].pc = "step"
    /\ row'[p] = row[p]
    /\ \E ok \in BOOLEAN :
          /\ ok => Resolves(NextStep(task[p]), task[p])
          /\ task'[p] = AfterStep(task[p], ok, now)

InsertsHere(p) ==
    /\ task[p].pc = "insert"
    /\ row'[p] = RunningRow(task[p])
    /\ \/ task'[p] = [task[p] EXCEPT !.pc = "step"]
       \/ task'[p] = Lost(task[p], "raised")

WritesHere(p) ==
    /\ task[p].pc = "update"
    /\ row'[p] = TerminalRow(row[p], task[p])
    /\ \/ task'[p] = [task[p] EXCEPT !.pc = "done"]
       \/ task'[p] = Lost(task[p], "raised")

EndsHere(p) ==
    /\ IsActive(p)
    /\ row'[p] = row[p]
    /\ \E how \in {"raised", "dead"} : task'[p] = Lost(task[p], how)

SweptHere(p) ==
    /\ row[p].status = "running"
    /\ task'[p] = task[p]
    /\ \E s \in Service :
          row'[p] = [row[p] EXCEPT !.status = "failed",
                                   !.error = OrphanError(s), !.endedAt = now]

Effect(p) ==
    \/ task'[p] = task[p] /\ row'[p] = row[p]
    \/ BeginsHere(p) \/ LooksUpHere(p) \/ StepsHere(p)
    \/ InsertsHere(p) \/ WritesHere(p) \/ EndsHere(p) \/ SweptHere(p)

LEMMA EveryEffect ==
    ASSUME TypeInv, [Next]_vars
    PROVE  (\A p \in Run : Effect(p)) /\ now <= now'
<1>. USE DEF TypeInv, TypeOK
<1>0. now \in Nat
  BY TimeType
<1>1. ASSUME NEW r \in Run, Begin(r)
      PROVE  (\A p \in Run : Effect(p)) /\ now <= now'
  <2> DEFINE begun(s, d, e) ==
        [NotBegun EXCEPT !.pc = "lookup", !.surface = s, !.def = d,
                         !.event = e, !.startedAt = now]
  <2>1. PICK s \in Surface : \E d \in Serves[s], e \in EventsOf(s) :
          task' = [task EXCEPT ![r] = begun(s, d, e)]
    BY <1>1 DEF Begin
  <2>2. PICK d \in Serves[s], e \in EventsOf(s) :
          task' = [task EXCEPT ![r] = begun(s, d, e)]
    BY <2>1
  <2>3. d \in Definition /\ e \in Event
    BY RunnerAssumption DEF EventsOf, Event
  <2>4. task'[r] = begun(s, d, e)
    BY <2>2
  <2>5. BeginsHere(r)
    <3>1. task[r].pc = "idle" /\ row'[r] = row[r]
      BY <1>1 DEF Begin
    <3>2. \E s1 \in Surface, d1 \in Definition, e1 \in Event :
             task'[r] = begun(s1, d1, e1)
      <4>. HIDE DEF begun
      <4> QED
        BY <2>3, <2>4
    <3> QED
      BY <3>1, <3>2 DEF BeginsHere
  <2>6. \A p \in Run : p # r => task'[p] = task[p] /\ row'[p] = row[p]
    BY <1>1, <2>2 DEF Begin
  <2> QED
    BY <1>0, <1>1, <2>5, <2>6 DEF Effect, Begin
<1>2. ASSUME NEW r \in Run, Lookup(r)
      PROVE  (\A p \in Run : Effect(p)) /\ now <= now'
  <2>1. LooksUpHere(r)
    BY <1>2 DEF Lookup, LooksUpHere, LatestOf
  <2>2. \A p \in Run : p # r => task'[p] = task[p] /\ row'[p] = row[p]
    BY <1>2 DEF Lookup
  <2>3. now' = now
    BY <1>2 DEF Lookup
  <2> QED
    BY <1>0, <2>1, <2>2, <2>3 DEF Effect
<1>3. ASSUME NEW r \in Run, Insert(r)
      PROVE  (\A p \in Run : Effect(p)) /\ now <= now'
  BY <1>0, <1>3 DEF Insert, InsertsHere, Effect
<1>4. ASSUME NEW r \in Run, ExecuteStep(r)
      PROVE  (\A p \in Run : Effect(p)) /\ now <= now'
  BY <1>0, <1>4 DEF ExecuteStep, StepsHere, Effect
<1>5. ASSUME NEW r \in Run, WriteTerminal(r)
      PROVE  (\A p \in Run : Effect(p)) /\ now <= now'
  BY <1>0, <1>5 DEF WriteTerminal, WritesHere, Effect
<1>6. ASSUME NEW r \in Run, StatementRaises(r)
      PROVE  (\A p \in Run : Effect(p)) /\ now <= now'
  BY <1>0, <1>6
     DEF StatementRaises, WritesHere, InsertsHere, EndsHere, Effect, IsActive,
         Active
<1>7. ASSUME NEW r \in Run, CallbackRaises(r) \/ Kill(r)
      PROVE  (\A p \in Run : Effect(p)) /\ now <= now'
  BY <1>0, <1>7 DEF CallbackRaises, Kill, EndsHere, Effect, IsActive, Active
<1>8. ASSUME NEW s \in Deployed, Crash(s)
      PROVE  (\A p \in Run : Effect(p)) /\ now <= now'
  BY <1>0, <1>8 DEF Crash, EndsHere, Effect
<1>9. ASSUME NEW s \in Deployed, Boot(s)
      PROVE  (\A p \in Run : Effect(p)) /\ now <= now'
  <2>1. s \in Service
    BY RunnerAssumption
  <2>2. ASSUME NEW p \in Run, p \in Orphans(s)
        PROVE  SweptHere(p)
    <3>1. row[p].status = "running"
      BY <2>2 DEF Orphans
    <3>2. /\ task'[p] = task[p]
          /\ row'[p] = [row[p] EXCEPT !.status = "failed",
                           !.error = OrphanError(s), !.endedAt = now]
      BY <1>9, <2>2 DEF Boot
    <3> QED
      BY <2>1, <3>1, <3>2 DEF SweptHere
  <2>3. ASSUME NEW p \in Run, p \notin Orphans(s)
        PROVE  task'[p] = task[p] /\ row'[p] = row[p]
    BY <1>9, <2>3 DEF Boot
  <2>4. now' = now
    BY <1>9 DEF Boot
  <2> QED
    BY <1>0, <2>2, <2>3, <2>4 DEF Effect
<1>10. CASE Tick
  BY <1>0, <1>10 DEF Tick, Effect
<1>11. CASE UNCHANGED vars
  BY <1>0, <1>11 DEF vars, Effect
<1> QED
  BY <1>1, <1>2, <1>3, <1>4, <1>5, <1>6, <1>7, <1>8, <1>9, <1>10, <1>11
     DEF Next, Proceed

-----------------------------------------------------------------------------
(* The row follows the frame. *)

\* No row before the INSERT; from there to the UPDATE the row is running, or
\* failed by a sweep, and still what the INSERT wrote otherwise; a run that has
\* returned has its own terminal row; one that was killed has not succeeded. A
\* running row has no output.
RowFollowsTask ==
    \A r \in Run :
        /\ task[r].pc \in {"idle", "lookup", "insert"} => row[r] = NoRow
        /\ task[r].pc \in {"step", "update"} =>
               /\ row[r].status \in {"running", "failed"}
               /\ row[r].error # "step"
               /\ row[r].def = task[r].def
               /\ row[r].prev = task[r].prev
               /\ row[r].output = <<>>
        /\ task[r].pc = "done" =>
               /\ row[r].status # "running"
               /\ row[r] = TerminalRow(row[r], task[r])
        /\ task[r].pc = "dead" => row[r].status # "success"
        /\ row[r].status = "running" => row[r].output = <<>>

LEMMA TerminalRowEnds ==
    ASSUME NEW old \in RowType, NEW t \in TaskType
    PROVE  TerminalRow(old, t).status \in {"success", "failed"}
BY DEF TerminalRow, Verdict, RowType

\* Writing the terminal row again, from the frame as it returned, changes nothing.
LEMMA TerminalRowAgain ==
    ASSUME NEW old \in RowType, NEW t \in TaskType
    PROVE  TerminalRow(TerminalRow(old, t), [t EXCEPT !.pc = "done"])
               = TerminalRow(old, t)
<1> DEFINE t2 == [t EXCEPT !.pc = "done"]
<1>1. t2.results = t.results /\ t2.endedAt = t.endedAt
  BY DEF TaskType
<1>2. Verdict(t2) = Verdict(t)
  BY <1>1 DEF Verdict
<1> QED
  BY <1>1, <1>2 DEF TerminalRow, RowType

LEMMA RowFollowsTaskStep ==
    ASSUME TypeInv, RowFollowsTask, [Next]_vars
    PROVE  RowFollowsTask'
<1>. USE DEF TypeInv, TypeOK
<1>1. TypeInv'
  BY NextType
<1> SUFFICES ASSUME NEW r \in Run PROVE RowFollowsTask!(r)'
  BY DEF RowFollowsTask
<1>2. RowFollowsTask!(r)
  BY DEF RowFollowsTask
<1>3. Effect(r) /\ task[r] \in TaskType /\ row[r] \in RowType
  BY EveryEffect
<1>4. CASE task'[r] = task[r] /\ row'[r] = row[r]
  BY <1>2, <1>4 DEF TerminalRow
<1>5. CASE BeginsHere(r)
  BY <1>2, <1>5 DEF BeginsHere, NotBegun
<1>6. CASE LooksUpHere(r)
  BY <1>2, <1>3, <1>6 DEF LooksUpHere, TaskType
<1>7. CASE StepsHere(r)
  BY <1>2, <1>3, <1>7 DEF StepsHere, AfterStep, TaskType
<1>8. CASE InsertsHere(r)
  <2>1. /\ row'[r].status = "running" /\ row'[r].error = "null"
        /\ row'[r].def = task[r].def /\ row'[r].prev = task[r].prev
        /\ row'[r].output = <<>>
    BY <1>8 DEF InsertsHere, RunningRow, NoRow
  <2>2. \/ /\ task'[r].pc = "step"
           /\ task'[r].def = task[r].def
           /\ task'[r].prev = task[r].prev
        \/ task'[r].pc = "raised"
    BY <1>3, <1>8 DEF InsertsHere, TaskType, Lost, NotBegun
  <2> QED
    BY <2>1, <2>2
<1>9. CASE WritesHere(r)
  <2>1. row'[r] = TerminalRow(row[r], task[r])
    BY <1>9 DEF WritesHere
  <2>2. row'[r].status # "running"
    BY <1>3, <2>1, TerminalRowEnds
  <2>3. CASE task'[r] = [task[r] EXCEPT !.pc = "done"]
    <3>1. task'[r].pc = "done"
      BY <1>3, <2>3 DEF TaskType
    <3>2. row'[r] = TerminalRow(row'[r], task'[r])
      BY <1>3, <2>1, <2>3, TerminalRowAgain
    <3> QED
      BY <2>2, <3>1, <3>2
  <2>4. CASE task'[r] = Lost(task[r], "raised")
    <3>1. task'[r].pc = "raised"
      BY <2>4 DEF Lost, NotBegun
    <3> QED
      BY <2>2, <3>1
  <2> QED
    BY <1>9, <2>3, <2>4 DEF WritesHere
<1>10. CASE EndsHere(r)
  BY <1>2, <1>3, <1>10 DEF EndsHere, Lost, NotBegun, IsActive, Active, NoRow
<1>11. CASE SweptHere(r)
  BY <1>2, <1>3, <1>11 DEF SweptHere, OrphanError, NoRow, RowType, TerminalRow
<1> QED
  BY <1>3, <1>4, <1>5, <1>6, <1>7, <1>8, <1>9, <1>10, <1>11 DEF Effect

LEMMA RowFollowsTaskInvariance == Spec => [](TypeInv /\ RowFollowsTask)
<1>1. Init => RowFollowsTask
  <2>1. NotBegun.pc = "idle" /\ NoRow.status = "absent"
    BY DEF NotBegun, NoRow
  <2>2. Init => \A r \in Run : task[r] = NotBegun /\ row[r] = NoRow
    BY DEF Init
  <2> QED
    BY <2>1, <2>2 DEF RowFollowsTask
<1>2. RowFollowsTask /\ UNCHANGED vars => RowFollowsTask'
  BY DEF RowFollowsTask, vars, TerminalRow
<1> QED
  BY <1>1, InitType, NextType, RowFollowsTaskStep, PTL DEF Spec

\* Only a running row is swept, and only the writer of a row that has not
\* succeeded is still to write it.
LEMMA SuccessStays ==
    ASSUME TypeInv, RowFollowsTask, [Next]_vars,
           NEW r \in Run, row[r].status = "success"
    PROVE  row'[r] = row[r]
<1>1. Effect(r)
  BY EveryEffect
<1>2. task[r].pc \notin {"insert", "update"}
  BY DEF RowFollowsTask, NoRow
<1> QED
  BY <1>1, <1>2
     DEF Effect, BeginsHere, LooksUpHere, StepsHere, InsertsHere, WritesHere,
         EndsHere, SweptHere

\* A row that says success is never written again: not by a sweep, not by a
\* late UPDATE of its own run, not by another run.
THEOREM SuccessFinality == Spec => SuccessIsFinal
<1>1. TypeInv /\ RowFollowsTask /\ [Next]_vars =>
         [\A r \in Run : row[r].status = "success" => row'[r] = row[r]]_vars
  BY SuccessStays
<1> QED
  BY <1>1, RowFollowsTaskInvariance, PTL DEF Spec, SuccessIsFinal

\* What a call that has returned reported is what its row says from then on.
THEOREM ReturnedRecorded == Spec => []ReturnedIsRecorded
<1>1. RowFollowsTask => ReturnedIsRecorded
  BY DEF RowFollowsTask, ReturnedIsRecorded
<1> QED
  BY <1>1, RowFollowsTaskInvariance, PTL

-----------------------------------------------------------------------------
(* The link to the previous successful run. *)

Linked(q, n) == row[q].status = "success" /\ row[q].def.name = n

\* The frame's copy of the lookup stays true while it is used, because what it
\* was copied from never changes; and the row inherits the link.
LinksHold ==
    \A r \in Run :
        /\ row[r].endedAt <= now
        /\ task[r].pc = "update" => task[r].endedAt <= now
        /\ task[r].prev = NoRun => task[r].prevSteps = {}
        /\ task[r].prev # NoRun =>
               /\ Linked(task[r].prev, task[r].def.name)
               /\ task[r].prevSteps = Succeeded(row[task[r].prev].output)
               /\ task[r].pc = "update" =>
                      row[task[r].prev].endedAt <= task[r].endedAt
        /\ row[r].prev # NoRun =>
               /\ row[r].prev # r
               /\ Linked(row[r].prev, row[r].def.name)
               /\ row[r].endedAt # NoTime =>
                      row[row[r].prev].endedAt <= row[r].endedAt

LEMMA LinksHoldStep ==
    ASSUME TypeInv, RowFollowsTask, LinksHold, [Next]_vars
    PROVE  LinksHold'
<1> SUFFICES ASSUME NEW r \in Run PROVE LinksHold!(r)'
  BY DEF LinksHold
<1>1. LinksHold!(r)
  BY DEF LinksHold
<1>2. /\ task[r] \in TaskType /\ row[r] \in RowType
      /\ now \in Nat /\ now' \in Nat /\ now <= now'
  BY NextType, EveryEffect, TimeType DEF TypeInv, TypeOK
<1>3. \A q \in Run : /\ row[q].endedAt \in Nat /\ row[q].endedAt <= now
                     /\ row[q].status = "success" => row'[q] = row[q]
  <2>1. \A q \in Run : row[q].endedAt \in Nat
    BY TimeType DEF TypeInv, TypeOK, RowType
  <2>2. \A q \in Run : row[q].endedAt <= now
    BY DEF LinksHold
  <2> QED
    BY <2>1, <2>2, SuccessStays
<1>4. Effect(r)
  BY EveryEffect
<1>13. /\ task[r].prev # NoRun => row'[task[r].prev] = row[task[r].prev]
       /\ row[r].prev # NoRun => row'[row[r].prev] = row[row[r].prev]
       /\ task[r].endedAt \in Nat /\ row[r].endedAt \in Nat
  BY <1>1, <1>2, <1>3, TimeType DEF Linked, TaskType, RowType
<1>5. CASE task'[r] = task[r] /\ row'[r] = row[r]
  <2>1. /\ row'[r].endedAt <= now'
        /\ task'[r].pc = "update" => task'[r].endedAt <= now'
    BY <1>1, <1>2, <1>5, <1>13
  <2>2. task'[r].prev # NoRun =>
          /\ Linked(task[r].prev, task[r].def.name)'
          /\ task'[r].prevSteps = Succeeded(row[task[r].prev].output)'
          /\ task'[r].pc = "update" =>
                 row'[task[r].prev].endedAt <= task'[r].endedAt
    BY <1>1, <1>5, <1>13 DEF Linked
  <2>3. row'[r].prev # NoRun =>
          /\ row'[r].prev # r
          /\ Linked(row[r].prev, row[r].def.name)'
          /\ row'[r].endedAt # NoTime =>
                 row'[row'[r].prev].endedAt <= row'[r].endedAt
    BY <1>1, <1>5, <1>13 DEF Linked
  <2> QED
    BY <1>1, <1>5, <2>1, <2>2, <2>3
<1>6. CASE BeginsHere(r)
  BY <1>1, <1>2, <1>3, <1>6 DEF BeginsHere, NotBegun, Linked, RowType
<1>7. CASE LooksUpHere(r)
  <2>1. CASE task'[r] = [task[r] EXCEPT !.pc = "insert"]
    BY <1>1, <1>2, <1>3, <1>7, <2>1
       DEF LooksUpHere, Linked, TaskType, RowType
  <2>2. ASSUME NEW q \in SuccessesOf(task[r].def.name),
               task'[r] = [task[r] EXCEPT !.pc = "insert", !.prev = q,
                              !.prevSteps = Succeeded(row[q].output)]
        PROVE  LinksHold!(r)'
    <3>1. q \in Run /\ Linked(q, task[r].def.name) /\ q # NoRun
      BY RunnerAssumption DEF SuccessesOf, Linked
    <3>2. /\ task'[r].pc = "insert" /\ task'[r].prev = q
          /\ task'[r].prevSteps = Succeeded(row[q].output)
          /\ task'[r].def = task[r].def
      BY <1>2, <2>2 DEF TaskType
    <3>3. row'[r] = row[r] /\ row'[q] = row[q]
      BY <1>3, <1>7, <3>1 DEF LooksUpHere, Linked
    <3> QED
      BY <1>1, <1>2, <1>3, <3>1, <3>2, <3>3 DEF Linked, RowType
  <2> QED
    BY <1>7, <2>1, <2>2 DEF LooksUpHere
<1>8. CASE StepsHere(r)
  <2>1. PICK ok \in BOOLEAN : task'[r] = AfterStep(task[r], ok, now)
    BY <1>8 DEF StepsHere
  <2>2. /\ task'[r].prev = task[r].prev /\ task'[r].def = task[r].def
        /\ task'[r].prevSteps = task[r].prevSteps
        /\ task'[r].pc = "update" => task'[r].endedAt = now
    BY <1>2, <2>1 DEF AfterStep, TaskType
  <2>3. row'[r] = row[r]
    BY <1>8 DEF StepsHere
  <2> QED
    BY <1>1, <1>2, <1>3, <2>2, <2>3 DEF Linked, RowType, TaskType
<1>9. CASE InsertsHere(r)
  <2>1. /\ row'[r].prev = task[r].prev /\ row'[r].def = task[r].def
        /\ row'[r].endedAt = NoTime
    BY <1>9 DEF InsertsHere, RunningRow, NoRow
  <2>2. row[r].status # "success"
    BY <1>9 DEF InsertsHere, RowFollowsTask, NoRow
  <2>3. \/ /\ task'[r].pc = "step" /\ task'[r].prev = task[r].prev
           /\ task'[r].def = task[r].def
           /\ task'[r].prevSteps = task[r].prevSteps
        \/ /\ task'[r].pc = "raised" /\ task'[r].prev = NoRun
           /\ task'[r].prevSteps = {}
    BY <1>2, <1>9 DEF InsertsHere, TaskType, Lost, NotBegun
  <2> QED
    BY <1>1, <1>2, <1>3, <2>1, <2>2, <2>3 DEF Linked, NoTime, TaskType
<1>10. CASE WritesHere(r)
  <2>1. /\ row'[r].prev = task[r].prev /\ row'[r].def = task[r].def
        /\ row'[r].endedAt = task[r].endedAt
    BY <1>2, <1>10 DEF WritesHere, TerminalRow, RowFollowsTask, RowType
  <2>2. row[r].status # "success"
    BY <1>10 DEF WritesHere, RowFollowsTask
  <2>3. \/ /\ task'[r].pc = "done" /\ task'[r].prev = task[r].prev
           /\ task'[r].def = task[r].def
           /\ task'[r].prevSteps = task[r].prevSteps
        \/ /\ task'[r].pc = "raised" /\ task'[r].prev = NoRun
           /\ task'[r].prevSteps = {}
    BY <1>2, <1>10 DEF WritesHere, TaskType, Lost, NotBegun
  <2>4. task[r].pc = "update" /\ task[r].endedAt \in Nat
    BY <1>2, <1>10, TimeType DEF WritesHere, TaskType
  <2> QED
    BY <1>1, <1>2, <1>3, <2>1, <2>2, <2>3, <2>4 DEF Linked, TaskType
<1>11. CASE EndsHere(r)
  BY <1>1, <1>2, <1>3, <1>11 DEF EndsHere, Lost, NotBegun, Linked, RowType
<1>12. CASE SweptHere(r)
  <2>1. /\ row'[r].prev = row[r].prev /\ row'[r].def = row[r].def
        /\ row'[r].endedAt = now /\ task'[r] = task[r]
    BY <1>2, <1>12 DEF SweptHere, RowType
  <2> QED
    BY <1>1, <1>2, <1>3, <1>13, <2>1 DEF Linked, RowType, TaskType
<1> QED
  BY <1>4, <1>5, <1>6, <1>7, <1>8, <1>9, <1>10, <1>11, <1>12 DEF Effect

LEMMA LinksInvariance == Spec => [](TypeInv /\ RowFollowsTask /\ LinksHold)
<1>1. Init => LinksHold
  <2>1. /\ NotBegun.pc = "idle" /\ NotBegun.prev = NoRun
        /\ NotBegun.prevSteps = {}
    BY DEF NotBegun
  <2>2. NoRow.prev = NoRun /\ NoRow.endedAt = 0
    BY DEF NoRow, NoTime
  <2>3. ASSUME Init, NEW r \in Run PROVE LinksHold!(r)
    <3>1. task[r] = NotBegun /\ row[r] = NoRow /\ now = 1
      BY <2>3 DEF Init
    <3> QED
      BY <2>1, <2>2, <3>1
  <2> QED
    BY <2>3 DEF LinksHold
<1> QED
  BY <1>1, RowFollowsTaskInvariance, LinksHoldStep, PTL DEF Spec

\* previous_run_id always names a run of the same workflow that succeeded for
\* good, and no later than the run that builds on it ended.
THEOREM PreviousSuccess == Spec => []PreviousIsASuccess
<1>1. LinksHold => PreviousIsASuccess
  BY DEF LinksHold, PreviousIsASuccess, Linked
<1> QED
  BY <1>1, LinksInvariance, PTL

\* A link is set once, when its row appears, to a row that succeeded before.
LEMMA LinkChange ==
    ASSUME TypeInv, RowFollowsTask, LinksHold, [Next]_vars, NEW r \in Run
    PROVE  /\ row[r].status # "absent" => row'[r].prev = row[r].prev
           /\ row'[r].prev # NoRun =>
                  row'[r].prev \in Run /\ row[row'[r].prev].status = "success"
<1>1. /\ Effect(r)
      /\ task[r] \in TaskType /\ row[r] \in RowType
  BY EveryEffect DEF TypeInv, TypeOK
<1>2. /\ row[r].prev # NoRun => row[row[r].prev].status = "success"
      /\ task[r].prev # NoRun => row[task[r].prev].status = "success"
  BY DEF LinksHold, Linked
<1>3. row[r].prev \in Run \cup {NoRun} /\ task[r].prev \in Run \cup {NoRun}
  BY <1>1 DEF TaskType, RowType
<1>4. \/ row'[r].prev = row[r].prev
      \/ InsertsHere(r)
  BY <1>1 DEF Effect, BeginsHere, LooksUpHere, StepsHere, WritesHere, EndsHere,
              SweptHere, TerminalRow, RowType
<1>5. CASE InsertsHere(r)
  <2>1. row[r] = NoRow /\ row'[r].prev = task[r].prev
    BY <1>5 DEF InsertsHere, RowFollowsTask, RunningRow, NoRow
  <2> QED
    BY <1>2, <1>3, <2>1 DEF NoRow
<1> QED
  BY <1>2, <1>3, <1>4, <1>5

LEMMA ChainsEndStep ==
    ASSUME TypeInv, RowFollowsTask, LinksHold, ChainsEnd, [Next]_vars
    PROVE  ChainsEnd'
<1> SUFFICES ASSUME NEW S \in SUBSET Run, S # {}
             PROVE  \E r \in S : row'[r].prev \notin S
  BY DEF ChainsEnd
<1> DEFINE Old == {p \in S : row[p].status # "absent"}
<1>1. NoRun \notin S
  BY RunnerAssumption
<1>2. CASE Old = {}
  <2>1. PICK r \in S : TRUE
    OBVIOUS
  <2>2. row'[r].prev # NoRun => row[row'[r].prev].status = "success"
    BY LinkChange
  <2> QED
    BY <1>1, <1>2, <2>1, <2>2
<1>3. CASE Old # {}
  <2>1. PICK r \in Old : row[r].prev \notin Old
    BY <1>3 DEF ChainsEnd
  <2>2. row'[r].prev = row[r].prev
    BY LinkChange
  <2>3. row[r].prev # NoRun => row[row[r].prev].status = "success"
    BY DEF LinksHold, Linked
  <2> QED
    BY <1>1, <2>1, <2>2, <2>3
<1> QED
  BY <1>2, <1>3

\* Following previous_run_id never comes back to a row it has passed.
THEOREM ChainsAreFinite == Spec => []ChainsEnd
<1>1. Init => ChainsEnd
  BY RunnerAssumption DEF Init, ChainsEnd, NoRow
<1>2. ChainsEnd /\ UNCHANGED vars => ChainsEnd'
  BY DEF ChainsEnd, vars
<1> QED
  BY <1>1, <1>2, LinksInvariance, ChainsEndStep, PTL DEF Spec

-----------------------------------------------------------------------------
(* The output is the part of the plan that ran. *)

FollowsPlan(t) ==
    LET n == Len(t.results) IN
    /\ n <= Len(t.def.steps)
    /\ \A i \in 1..n :
           /\ t.results[i].name = t.def.steps[i].name
           /\ t.results[i].success =>
                  t.def.steps[i].previous \subseteq t.prevSteps
           /\ i < n \/ t.pc = "step" => t.results[i].success
    /\ t.pc \in {"lookup", "insert"} => t.results = <<>>
    /\ t.pc = "update" =>
           n # 0 /\ (n = Len(t.def.steps) \/ ~t.results[n].success)

PlanKept == \A r \in Run : FollowsPlan(task[r])

LEMMA NoResults ==
    ASSUME NEW t \in TaskType, t.results = <<>>, t.pc # "update"
    PROVE  FollowsPlan(t)
<1>1. Len(t.results) = 0 /\ Len(t.def.steps) \in Nat
  BY StepsType DEF TaskType
<1> QED
  BY <1>1 DEF FollowsPlan

LEMMA AfterStepFollows ==
    ASSUME NEW t \in TaskType, FollowsPlan(t), t.pc = "step",
           Len(t.results) < Len(t.def.steps),
           NEW ok \in BOOLEAN, ok => Resolves(NextStep(t), t),
           NEW time \in Time
    PROVE  FollowsPlan(AfterStep(t, ok, time))
<1> DEFINE u == AfterStep(t, ok, time)
           n == Len(t.results)
           outcome == [name |-> NextStep(t).name, success |-> ok]
<1>1. t.results \in Seq(StepOutcome) /\ outcome \in StepOutcome
  BY NextStepType DEF TaskType, StepType, StepOutcome
<1>2. /\ u.results = Append(t.results, outcome)
      /\ u.def = t.def /\ u.prevSteps = t.prevSteps
      /\ u.pc = IF GoesOn(t, ok) THEN "step" ELSE "update"
  BY DEF AfterStep, TaskType
<1>3. /\ Len(u.results) = n + 1 /\ n \in Nat
      /\ \A i \in 1..n : u.results[i] = t.results[i]
      /\ u.results[n + 1] = outcome
  BY <1>1, <1>2
<1>4. t.def.steps \in Seq(StepType) /\ Len(t.def.steps) \in Nat
  BY StepsType DEF TaskType
<1>5. NextStep(t) = t.def.steps[n + 1]
  BY DEF NextStep
<1>6. outcome.name = NextStep(t).name /\ outcome.success = ok
  OBVIOUS
<1>7. ok => NextStep(t).previous \subseteq t.prevSteps
  BY DEF Resolves
<1>. HIDE DEF u, outcome
<1>8. ASSUME NEW i \in 1..(n + 1)
      PROVE  /\ u.results[i].name = u.def.steps[i].name
             /\ u.results[i].success =>
                    u.def.steps[i].previous \subseteq u.prevSteps
             /\ i < n + 1 \/ u.pc = "step" => u.results[i].success
  <2>1. CASE i \in 1..n
    BY <1>2, <1>3, <2>1 DEF FollowsPlan
  <2>2. CASE i = n + 1
    BY <1>2, <1>3, <1>5, <1>6, <1>7, <2>2 DEF GoesOn
  <2> QED
    BY <1>3, <2>1, <2>2
<1>9. u.pc = "update" => n + 1 = Len(u.def.steps) \/ ~u.results[n + 1].success
  BY <1>2, <1>3, <1>4, <1>6 DEF GoesOn
<1>10. /\ n + 1 <= Len(u.def.steps) /\ n + 1 # 0
       /\ u.pc \notin {"lookup", "insert"}
  BY <1>2, <1>3, <1>4
<1>. HIDE DEF n
<1>11. FollowsPlan(u)
  BY <1>3, <1>8, <1>9, <1>10 DEF FollowsPlan
<1> QED
  BY <1>11 DEF u

LEMMA PlanKeptStep ==
    ASSUME TypeInv, PlanKept, [Next]_vars
    PROVE  PlanKept'
<1> SUFFICES ASSUME NEW r \in Run PROVE FollowsPlan(task'[r])
  BY DEF PlanKept
<1>1. /\ Effect(r) /\ task[r] \in TaskType /\ task'[r] \in TaskType
      /\ FollowsPlan(task[r]) /\ now \in Time
  BY EveryEffect, NextType DEF TypeInv, TypeOK, PlanKept
<1>2. CASE task'[r] = task[r]
  BY <1>1, <1>2
<1>3. CASE BeginsHere(r)
  BY <1>1, <1>3, NoResults DEF BeginsHere, NotBegun
<1>4. CASE LooksUpHere(r)
  <2>1. task'[r].results = <<>> /\ task'[r].pc = "insert"
    BY <1>1, <1>4 DEF LooksUpHere, TaskType, FollowsPlan
  <2> QED
    BY <1>1, <2>1, NoResults
<1>5. CASE StepsHere(r)
  <2>1. Len(task[r].results) < Len(task[r].def.steps)
    BY <1>5 DEF StepsHere, TypeInv, HasNextStep
  <2> QED
    BY <1>1, <1>5, <2>1, AfterStepFollows DEF StepsHere
<1>6. CASE InsertsHere(r)
  <2>1. task'[r].results = <<>> /\ task'[r].pc # "update"
    BY <1>1, <1>6 DEF InsertsHere, TaskType, FollowsPlan, Lost, NotBegun
  <2> QED
    BY <1>1, <2>1, NoResults
<1>7. CASE WritesHere(r)
  <2>1. CASE task'[r] = [task[r] EXCEPT !.pc = "done"]
    <3>1. /\ task'[r].results = task[r].results /\ task'[r].def = task[r].def
          /\ task'[r].prevSteps = task[r].prevSteps /\ task'[r].pc = "done"
          /\ task[r].pc = "update"
      BY <1>1, <1>7, <2>1 DEF TaskType, WritesHere
    <3> QED
      BY <1>1, <3>1 DEF FollowsPlan
  <2>2. CASE task'[r] = Lost(task[r], "raised")
    BY <1>1, <2>2, NoResults DEF Lost, NotBegun
  <2> QED
    BY <1>7, <2>1, <2>2 DEF WritesHere
<1>8. CASE EndsHere(r)
  BY <1>1, <1>8, NoResults DEF EndsHere, Lost, NotBegun
<1> QED
  BY <1>1, <1>2, <1>3, <1>4, <1>5, <1>6, <1>7, <1>8 DEF Effect, SweptHere

LEMMA PlanInvariance ==
    Spec => [](TypeInv /\ RowFollowsTask /\ LinksHold /\ PlanKept)
<1>1. Init => PlanKept
  <2> SUFFICES ASSUME Init, NEW r \in Run PROVE FollowsPlan(task[r])
    BY DEF PlanKept
  <2>1. task[r] = NotBegun
    BY DEF Init
  <2> QED
    BY <2>1, NotBegunType, NoResults DEF NotBegun
<1>2. PlanKept /\ UNCHANGED vars => PlanKept'
  BY DEF PlanKept, vars
<1> QED
  BY <1>1, <1>2, LinksInvariance, PlanKeptStep, PTL DEF Spec

\* The output column changes at the UPDATE and nowhere else.
LEMMA OutputChange ==
    ASSUME TypeInv, RowFollowsTask, [Next]_vars, NEW r \in Run
    PROVE  \/ row'[r] = row[r]
           \/ /\ row'[r].output = <<>> /\ row'[r].def \in Definition
              /\ row'[r].status \in {"running", "failed"}
           \/ WritesHere(r)
<1>1. Effect(r) /\ task[r] \in TaskType /\ row[r] \in RowType
  BY EveryEffect DEF TypeInv, TypeOK
<1>2. CASE InsertsHere(r)
  BY <1>1, <1>2 DEF InsertsHere, RunningRow, NoRow, TaskType
<1>3. CASE SweptHere(r)
  <2>1. row[r].output = <<>>
    BY <1>3 DEF SweptHere, RowFollowsTask
  <2> QED
    BY <1>1, <1>3, <2>1 DEF SweptHere, RowType
<1> QED
  BY <1>1, <1>2, <1>3
     DEF Effect, BeginsHere, LooksUpHere, StepsHere, EndsHere

LEMMA OutputFollowsPlanStep ==
    ASSUME TypeInv, RowFollowsTask, PlanKept, OutputFollowsPlan, [Next]_vars
    PROVE  OutputFollowsPlan'
<1> SUFFICES ASSUME NEW r \in Run PROVE OutputFollowsPlan!(r)'
  BY DEF OutputFollowsPlan
<1>1. OutputFollowsPlan!(r)
  BY DEF OutputFollowsPlan
<1>2. CASE row'[r] = row[r]
  BY <1>1, <1>2
<1>3. CASE /\ row'[r].output = <<>> /\ row'[r].def \in Definition
           /\ row'[r].status \in {"running", "failed"}
  <2>1. Len(row'[r].output) = 0 /\ DOMAIN row'[r].output = {}
    BY <1>3
  <2>2. 0 < Len(row'[r].def.steps) /\ Len(row'[r].def.steps) \in Nat
    BY <1>3, StepsType
  <2> QED
    BY <1>3, <2>1, <2>2
<1>4. CASE WritesHere(r)
  <2> DEFINE t == task[r]
             n == Len(t.results)
  <2>1. /\ t \in TaskType /\ row[r] \in RowType /\ FollowsPlan(t)
        /\ t.pc = "update" /\ row[r].def = t.def
    BY <1>4 DEF TypeInv, TypeOK, PlanKept, WritesHere, RowFollowsTask
  <2>2. /\ row'[r].output = t.results
        /\ row'[r].def = t.def
        /\ row'[r].status = Verdict(t)
        /\ row'[r].error = IF Verdict(t) = "success" THEN "null" ELSE "step"
    BY <1>4, <2>1 DEF WritesHere, TerminalRow, RowType
  <2>3. DOMAIN t.results = 1..n /\ n \in Nat
    BY <2>1 DEF TaskType
  <2>. HIDE DEF t, n
  <2>4. /\ n <= Len(t.def.steps)
        /\ \A i \in 1..n : t.results[i].name = t.def.steps[i].name
        /\ \A i \in 1..n : i < n => t.results[i].success
        /\ n # 0 /\ (n = Len(t.def.steps) \/ ~t.results[n].success)
    BY <2>1 DEF FollowsPlan, n
  <2>5. Verdict(t) = "success" <=>
            n = Len(t.def.steps) /\ \A i \in 1..n : t.results[i].success
    BY <2>3, <2>4 DEF Verdict
  <2> QED
    BY <2>2, <2>3, <2>4, <2>5 DEF n
<1> QED
  BY <1>2, <1>3, <1>4, OutputChange

\* The output column tells what ran: the plan's beginning, in order, all of it
\* exactly when the run is a success.
THEOREM OutputSound == Spec => []OutputFollowsPlan
<1>1. Init => OutputFollowsPlan
  <2> SUFFICES ASSUME Init, NEW r \in Run PROVE OutputFollowsPlan!(r)
    BY DEF OutputFollowsPlan
  <2>1. /\ row[r].status = "absent" /\ row[r].output = <<>>
        /\ row[r].def \in Definition
    BY SomeDefinitionType DEF Init, NoRow
  <2>2. 0 < Len(row[r].def.steps) /\ Len(row[r].def.steps) \in Nat
    BY <2>1, StepsType
  <2> QED
    BY <2>1, <2>2
<1>2. OutputFollowsPlan /\ UNCHANGED vars => OutputFollowsPlan'
  BY DEF OutputFollowsPlan, vars
<1> QED
  BY <1>1, <1>2, PlanInvariance, OutputFollowsPlanStep, PTL DEF Spec

LEMMA PreviousDataStep ==
    ASSUME TypeInv, RowFollowsTask, LinksHold, PlanKept, PreviousDataIsThere,
           [Next]_vars
    PROVE  PreviousDataIsThere'
<1> SUFFICES ASSUME NEW r \in Run, NEW i \in DOMAIN row'[r].output,
                    row'[r].output[i].success
             PROVE  row'[r].def.steps[i].previous \subseteq
                       IF row'[r].prev = NoRun THEN {}
                       ELSE Succeeded(row'[row'[r].prev].output)
  BY DEF PreviousDataIsThere
<1>1. \A q \in Run : row[q].status = "success" => row'[q] = row[q]
  BY SuccessStays
<1>2. row[r] \in RowType /\ task[r] \in TaskType
  BY DEF TypeInv, TypeOK
<1>3. CASE row'[r] = row[r]
  <2>1. row[r].prev # NoRun => row'[row[r].prev] = row[row[r].prev]
    BY <1>1, <1>2 DEF LinksHold, Linked, RowType
  <2> QED
    BY <1>3, <2>1 DEF PreviousDataIsThere
<1>4. CASE row'[r].output = <<>>
  BY <1>4
<1>5. CASE WritesHere(r)
  <2>1. /\ row'[r].output = task[r].results
        /\ row'[r].def = task[r].def /\ row'[r].prev = task[r].prev
    BY <1>2, <1>5 DEF WritesHere, TerminalRow, RowType, RowFollowsTask
  <2>2. task[r].def.steps[i].previous \subseteq task[r].prevSteps
    <3>1. i \in 1..Len(task[r].results)
      BY <1>2, <2>1 DEF TaskType
    <3> QED
      BY <2>1, <3>1 DEF PlanKept, FollowsPlan
  <2>3. CASE task[r].prev = NoRun
    BY <2>1, <2>2, <2>3 DEF LinksHold
  <2>4. CASE task[r].prev # NoRun
    <3>1. /\ task[r].prevSteps = Succeeded(row[task[r].prev].output)
          /\ row'[task[r].prev] = row[task[r].prev]
      BY <1>1, <1>2, <2>4 DEF LinksHold, Linked, TaskType
    <3> QED
      BY <2>1, <2>2, <2>4, <3>1
  <2> QED
    BY <2>3, <2>4
<1> QED
  BY <1>3, <1>4, <1>5, OutputChange

\* What a successful step read from the previous run is recorded in the row its
\* run is linked to.
THEOREM PreviousDataSound == Spec => []PreviousDataIsThere
<1>1. Init => PreviousDataIsThere
  BY DEF Init, PreviousDataIsThere, NoRow
<1>2. PreviousDataIsThere /\ UNCHANGED vars => PreviousDataIsThere'
  BY DEF PreviousDataIsThere, vars
<1> QED
  BY <1>1, <1>2, PlanInvariance, PreviousDataStep, PTL DEF Spec

-----------------------------------------------------------------------------
(* A workflow that always needs a previous success never has a first one. *)

LEMMA NoFirstSuccess ==
    ASSUME TypeOK, PreviousIsASuccess, ChainsEnd, PreviousDataIsThere,
           OutputFollowsPlan
    PROVE  NoSuccessFromNothing
<1> SUFFICES ASSUME NEW r \in Run, row[r].status = "success",
                    NeedsPrevious(row[r].def.name)
             PROVE  FALSE
  BY DEF NoSuccessFromNothing
<1> DEFINE n == row[r].def.name
           S == {p \in Run : row[p].status = "success" /\ row[p].def.name = n}
<1>1. PICK p \in S : row[p].prev \notin S
  BY DEF ChainsEnd
<1>2. row[p] \in RowType /\ row[p].def \in Definition
  BY DEF TypeOK, RowType
<1>3. PICK i \in DOMAIN row[p].def.steps : row[p].def.steps[i].previous # {}
  BY <1>2 DEF NeedsPrevious
<1>4. i \in DOMAIN row[p].output /\ row[p].output[i].success
  <2>1. /\ Len(row[p].output) = Len(row[p].def.steps)
        /\ \A j \in DOMAIN row[p].output : row[p].output[j].success
    BY DEF OutputFollowsPlan
  <2>2. /\ DOMAIN row[p].output = 1..Len(row[p].output)
        /\ DOMAIN row[p].def.steps = 1..Len(row[p].def.steps)
    BY <1>2, StepsType DEF RowType
  <2> QED
    BY <2>1, <2>2
<1>5. row[p].prev # NoRun
  BY <1>3, <1>4 DEF PreviousDataIsThere
<1>6. row[p].prev \in S
  BY <1>2, <1>5 DEF PreviousIsASuccess, RowType
<1> QED
  BY <1>1, <1>6

\* If every version of a workflow reads {previous.X} in some step, no run of it
\* ever succeeds: the strictness on the first run has no way out.
THEOREM NoBootstrap == Spec => []NoSuccessFromNothing
BY TypeCorrect, PreviousSuccess, ChainsAreFinite, PreviousDataSound, OutputSound,
   NoFirstSuccess, PTL

-----------------------------------------------------------------------------
(* The watcher's sweep takes its own dead. *)

\* A file event belongs to a run of the watcher, in the frame and in the row,
\* and a run in flight belongs to a process that is up.
OwnersHold ==
    \A r \in Run :
        /\ task[r].event = "file" => task[r].surface = "watcher"
        /\ row[r].event = "file" => task[r].surface = "watcher"
        /\ IsActive(r) /\ task[r].surface \in Service => up[task[r].surface]

\* A step that leaves a run's owner, its events and the processes alone, or
\* loses its frame.
LEMMA OwnersKept ==
    ASSUME OwnersHold, NEW p \in Run,
           up' = up,
           task'[p].surface = task[p].surface,
           task'[p].event \in {task[p].event, "none"},
           row'[p].event \in {row[p].event, task[p].event},
           IsActive(p)' => IsActive(p)
    PROVE  OwnersHold!(p)'
BY DEF OwnersHold

LEMMA OwnerOfEffect ==
    ASSUME TypeInv, NEW p \in Run, Effect(p),
           task[p].pc = "idle" => task'[p] = task[p]
    PROVE  /\ task'[p].surface = task[p].surface
           /\ task'[p].event \in {task[p].event, "none"}
           /\ row'[p].event \in {row[p].event, task[p].event}
           /\ IsActive(p)' => IsActive(p)
<1>1. task[p] \in TaskType /\ row[p] \in RowType
  BY DEF TypeInv, TypeOK
<1>2. CASE task'[p] = task[p] /\ row'[p] = row[p]
  BY <1>2 DEF IsActive
<1>3. CASE BeginsHere(p)
  BY <1>3, <1>1 DEF BeginsHere, NotBegun
<1>4. CASE LooksUpHere(p)
  BY <1>1, <1>4 DEF LooksUpHere, TaskType, IsActive, Active
<1>5. CASE StepsHere(p)
  BY <1>1, <1>5 DEF StepsHere, AfterStep, TaskType, IsActive, Active
<1>6. CASE InsertsHere(p)
  <2>1. row'[p].event = task[p].event
    BY <1>6 DEF InsertsHere, RunningRow, NoRow
  <2> QED
    BY <1>1, <1>6, <2>1 DEF InsertsHere, Lost, NotBegun, TaskType, IsActive,
                            Active
<1>7. CASE WritesHere(p)
  <2>1. row'[p].event = row[p].event
    BY <1>1, <1>7 DEF WritesHere, TerminalRow, RowType
  <2> QED
    BY <1>1, <1>7, <2>1 DEF WritesHere, Lost, NotBegun, TaskType, IsActive,
                            Active
<1>8. CASE EndsHere(p)
  BY <1>8 DEF EndsHere, Lost, NotBegun, IsActive, Active
<1>9. CASE SweptHere(p)
  BY <1>1, <1>9 DEF SweptHere, RowType, IsActive
<1> QED
  BY <1>2, <1>3, <1>4, <1>5, <1>6, <1>7, <1>8, <1>9 DEF Effect

LEMMA OwnersStep ==
    ASSUME TypeInv, RowFollowsTask, OwnersHold, [Next]_vars
    PROVE  OwnersHold'
<1>. USE DEF TypeInv, TypeOK
<1> SUFFICES ASSUME NEW p \in Run PROVE OwnersHold!(p)'
  BY DEF OwnersHold
<1>1. task[p] \in TaskType /\ row[p] \in RowType
  OBVIOUS
<1>2. OwnersHold!(p)
  BY DEF OwnersHold
<1>3. ASSUME NEW r \in Run, Begin(r) PROVE OwnersHold!(p)'
  <2>1. CASE p # r
    BY <1>2, <1>3, <2>1 DEF Begin, IsActive
  <2>2. CASE p = r
    <3> DEFINE begun(s, d, e) ==
          [NotBegun EXCEPT !.pc = "lookup", !.surface = s, !.def = d,
                           !.event = e, !.startedAt = now]
    <3>1. PICK s \in Surface : \E d \in Serves[s], e \in EventsOf(s) :
            CanBegin(s) /\ task' = [task EXCEPT ![r] = begun(s, d, e)]
      BY <1>3 DEF Begin
    <3>2. PICK d \in Serves[s], e \in EventsOf(s) :
            task' = [task EXCEPT ![r] = begun(s, d, e)]
      BY <3>1
    <3>3. task'[p].surface = s /\ task'[p].event = e
      BY <2>2, <3>2, NotBegunType DEF TaskType
    <3>4. e = "file" => s = "watcher"
      BY DEF EventsOf
    <3>5. s \in Service => up[s]
      BY <3>1 DEF CanBegin
    <3>6. row'[p].event = "none" /\ up' = up
      BY <1>3, <2>2 DEF Begin, RowFollowsTask, NoRow
    <3> QED
      BY <3>3, <3>4, <3>5, <3>6
  <2> QED
    BY <2>1, <2>2
<1>4. ASSUME NEW r \in Run, Proceed(r) \/ StatementRaises(r)
                            \/ CallbackRaises(r) \/ Kill(r)
      PROVE  OwnersHold!(p)'
  <2>1. task[p].pc = "idle" => task'[p] = task[p]
    BY <1>4 DEF Proceed, Lookup, Insert, ExecuteStep, WriteTerminal,
                StatementRaises, CallbackRaises, Kill, IsActive, Active
  <2>2. up' = up
    BY <1>4 DEF Proceed, Lookup, Insert, ExecuteStep, WriteTerminal,
                StatementRaises, CallbackRaises, Kill
  <2> QED
    BY <2>1, <2>2, OwnerOfEffect, OwnersKept, EveryEffect
<1>5. ASSUME NEW s \in Deployed, Crash(s) PROVE OwnersHold!(p)'
  <2>1. /\ task'[p].surface = task[p].surface
        /\ task'[p].event \in {task[p].event, "none"}
        /\ row'[p] = row[p]
    BY <1>5 DEF Crash, Lost, NotBegun
  <2>2. IsActive(p)' => IsActive(p) /\ task[p].surface # s
    BY <1>5 DEF Crash, Lost, NotBegun, IsActive, Active
  <2>3. task[p].surface # s /\ task[p].surface \in Service =>
            up'[task[p].surface] = up[task[p].surface]
    BY <1>5 DEF Crash
  <2> QED
    BY <1>2, <2>1, <2>2, <2>3
<1>6. ASSUME NEW s \in Deployed, Boot(s) PROVE OwnersHold!(p)'
  <2>1. task'[p] = task[p] /\ row'[p].event = row[p].event
    BY <1>1, <1>6 DEF Boot, RowType
  <2>2. task[p].surface \in Service /\ up[task[p].surface] =>
            up'[task[p].surface]
    BY <1>6 DEF Boot
  <2> QED
    BY <1>2, <2>1, <2>2 DEF IsActive
<1>7. CASE Tick
  BY <1>2, <1>7 DEF Tick, IsActive
<1>8. CASE UNCHANGED vars
  BY <1>2, <1>8 DEF vars, IsActive
<1> QED
  BY <1>3, <1>4, <1>5, <1>6, <1>7, <1>8 DEF Next

\* Only a boot of the watcher leaves its error in a row it changes.
LEMMA SweepTakesItsDead ==
    ASSUME TypeInv, RowFollowsTask, OwnersHold, [Next]_vars,
           NEW r \in Run, row'[r].error = "watcher restarted", row'[r] # row[r]
    PROVE  task[r].surface = "watcher" /\ ~IsActive(r)
<1>. USE DEF TypeInv, TypeOK
<1>1. PICK s \in Deployed : Boot(s)
  <2>1. row[r] \in RowType
    OBVIOUS
  <2>2. Effect(r)
    BY EveryEffect
  <2>3. RunningRow(task[r]).error = "null"
    BY DEF RunningRow, NoRow
  <2>4. TerminalRow(row[r], task[r]).error \in {"null", "step"}
    BY <2>1 DEF TerminalRow, RowType
  <2>5. row'[r] \notin {RunningRow(task[r]), TerminalRow(row[r], task[r])}
    BY <2>3, <2>4
  <2> QED
    BY <2>5 DEF Next, Proceed, Begin, Lookup, Insert, ExecuteStep, WriteTerminal,
                StatementRaises, CallbackRaises, Kill, Crash, Tick, vars
<1>2. /\ r \in Orphans(s)
      /\ row'[r].error = OrphanError(s)
  <2>1. row[r] \in RowType
    OBVIOUS
  <2> QED
    BY <1>1, <2>1 DEF Boot, RowType
<1>3. s = "watcher" /\ row[r].event = "file"
  BY <1>2 DEF OrphanError, Orphans
<1>4. task[r].surface = "watcher" /\ ~up["watcher"]
  BY <1>1, <1>3 DEF OwnersHold, Boot
<1> QED
  BY <1>4 DEF OwnersHold, Service

\* The watcher's sweep needs no owner column: a run whose context is a file
\* event was started by the watcher, and at its boot none of its runs lives.
THEOREM WatcherSweepIsSafe == Spec => WatcherSweepSparesTheLiving
<1>1. Init => OwnersHold
  <2>1. /\ NotBegun.event = "none" /\ NotBegun.pc = "idle"
        /\ NoRow.event = "none"
    BY DEF NotBegun, NoRow
  <2>2. Init => \A r \in Run : task[r] = NotBegun /\ row[r] = NoRow
    BY DEF Init
  <2> QED
    BY <2>1, <2>2 DEF OwnersHold, IsActive, Active
<1>2. TypeInv /\ RowFollowsTask /\ OwnersHold /\ [Next]_vars => OwnersHold'
  BY OwnersStep
<1>3. TypeInv /\ RowFollowsTask /\ OwnersHold /\ [Next]_vars =>
        [\A r \in Run :
            row'[r].error = "watcher restarted" /\ row'[r] # row[r] =>
                task[r].surface = "watcher" /\ ~IsActive(r)]_vars
  BY SweepTakesItsDead
<1> QED
  BY <1>1, <1>2, <1>3, RowFollowsTaskInvariance, PTL
     DEF Spec, WatcherSweepSparesTheLiving

-----------------------------------------------------------------------------
(* The scheduler's sweep. It asks for no owner, so it is right about the scheduler's own *)
(* runs, which died with it, and about nobody else's.                                    *)

\* No error is written to a row that is still running.
RunningIsUnswept ==
    \A r \in Run : row[r].status = "running" => row[r].error = "null"

LEMMA UnsweptStep ==
    ASSUME TypeInv, RowFollowsTask, RunningIsUnswept, [Next]_vars
    PROVE  RunningIsUnswept'
<1> SUFFICES ASSUME NEW p \in Run, row'[p].status = "running" PROVE row'[p].error = "null"
  BY DEF RunningIsUnswept
<1>1. row[p] \in RowType /\ task[p] \in TaskType /\ Effect(p)
  BY EveryEffect DEF TypeInv, TypeOK
<1>2. CASE row'[p] = row[p]
  BY <1>2 DEF RunningIsUnswept
<1>3. CASE InsertsHere(p)
  BY <1>3 DEF InsertsHere, RunningRow, NoRow
<1>4. TerminalRow(row[p], task[p]).status \in {"success", "failed"}
  BY <1>1 DEF TerminalRow, Verdict, RowType
<1>5. ~SweptHere(p)
  BY <1>1 DEF SweptHere, RowType
<1> QED
  BY <1>1, <1>2, <1>3, <1>4, <1>5
     DEF Effect, BeginsHere, LooksUpHere, StepsHere, WritesHere, EndsHere

\* Where the code's comment takes any running row for an orphan: of a run that was alive,
\* it is only wrong about one that another process executes.
SweepSparesItsOwn ==
    [][\A r \in Run :
          row[r].status = "running" /\ row'[r].error = "scheduler restarted" =>
              ~IsActive(r) \/ task[r].surface # "scheduler"]_vars

\* A running row turns to that error only at a boot of the scheduler, which was not up.
LEMMA SweptByScheduler ==
    ASSUME TypeInv, RunningIsUnswept, OwnersHold, [Next]_vars, NEW r \in Run,
           row[r].status = "running", row'[r].error = "scheduler restarted"
    PROVE  ~up["scheduler"]
<1>1. row[r] \in RowType /\ task[r] \in TaskType
  BY DEF TypeInv, TypeOK
<1>2. row'[r] # row[r] /\ row'[r].error # "null" /\ row'[r].error # "step"
  BY DEF RunningIsUnswept
<1>3. RunningRow(task[r]).error = "null"
  BY DEF RunningRow, NoRow
<1>4. TerminalRow(row[r], task[r]).error \in {"null", "step"}
  BY <1>1 DEF TerminalRow, RowType
<1>5. PICK s \in Deployed : Boot(s)
  <2>1. row'[r] \notin {RunningRow(task[r]), TerminalRow(row[r], task[r])}
    BY <1>2, <1>3, <1>4
  <2> QED
    BY <1>2, <2>1 DEF TypeInv, TypeOK, Next, Proceed, Begin, Lookup, Insert, ExecuteStep,
                WriteTerminal, StatementRaises, CallbackRaises, Kill, Crash, Tick, vars
<1>6. row'[r].error = OrphanError(s)
  BY <1>1, <1>2, <1>5 DEF Boot, RowType
<1>7. s = "scheduler"
  BY <1>6 DEF OrphanError
<1> QED
  BY <1>5, <1>7 DEF Boot

LEMMA OwnersInvariance == Spec => [](TypeInv /\ RunningIsUnswept /\ OwnersHold)
<1>1. Init => OwnersHold /\ RunningIsUnswept
  <2>1. /\ NotBegun.event = "none" /\ NotBegun.pc = "idle"
        /\ NoRow.event = "none" /\ NoRow.status = "absent"
    BY DEF NotBegun, NoRow
  <2>2. Init => \A r \in Run : task[r] = NotBegun /\ row[r] = NoRow
    BY DEF Init
  <2> QED
    BY <2>1, <2>2 DEF OwnersHold, RunningIsUnswept, IsActive, Active
<1>2. TypeInv /\ RowFollowsTask /\ OwnersHold /\ [Next]_vars => OwnersHold'
  BY OwnersStep
<1>3. TypeInv /\ RowFollowsTask /\ RunningIsUnswept /\ [Next]_vars => RunningIsUnswept'
  BY UnsweptStep
<1> QED
  BY <1>1, <1>2, <1>3, RowFollowsTaskInvariance, PTL DEF Spec

\* daemon.py's boot sweep fails no run that its own process still executes: what it may
\* wrongly fail is a run of another process.
THEOREM SchedulerSparesItsOwn == Spec => SweepSparesItsOwn
<1>1. TypeInv /\ RunningIsUnswept /\ OwnersHold /\ [Next]_vars =>
        [\A r \in Run :
            row[r].status = "running" /\ row'[r].error = "scheduler restarted" =>
                ~IsActive(r) \/ task[r].surface # "scheduler"]_vars
  <2> SUFFICES ASSUME TypeInv, RunningIsUnswept, OwnersHold, [Next]_vars, NEW r \in Run,
                      row[r].status = "running", row'[r].error = "scheduler restarted",
                      task[r].surface = "scheduler"
               PROVE  ~IsActive(r)
    OBVIOUS
  <2>1. ~up["scheduler"]
    BY SweptByScheduler
  <2> QED
    BY <2>1 DEF OwnersHold, Service
<1> QED
  BY <1>1, OwnersInvariance, PTL DEF Spec, SweepSparesItsOwn

\* Whoever executes a run is the scheduler.
OnlyScheduled == \A r \in Run : IsActive(r) => task[r].surface = "scheduler"

\* Where only the scheduler starts runs, what the comment says is so: every running row
\* is an orphan when it boots, however it crashes and whatever statements fail.
THEOREM SoleSchedulerSweepsOrphans ==
    ASSUME \A s \in Surface : s # "scheduler" => Serves[s] = {}
    PROVE  Spec => SweepTakesOnlyOrphans
<1>1. Init => OnlyScheduled
  BY DEF Init, OnlyScheduled, NotBegun, IsActive, Active
<1>2. TypeInv /\ OnlyScheduled /\ [Next]_vars => OnlyScheduled'
  <2> SUFFICES ASSUME TypeInv, OnlyScheduled, [Next]_vars, NEW p \in Run, IsActive(p)'
               PROVE  task'[p].surface = "scheduler"
    BY DEF OnlyScheduled
  <2>1. ASSUME NEW r \in Run, Begin(r), p = r PROVE task'[p].surface = "scheduler"
    <3> DEFINE begun(s, d, e) ==
                 [NotBegun EXCEPT !.pc = "lookup", !.surface = s, !.def = d,
                                  !.event = e, !.startedAt = now]
    <3>1. PICK s \in Surface : \E d \in Serves[s], e \in EventsOf(s) :
            CanBegin(s) /\ task' = [task EXCEPT ![r] = begun(s, d, e)]
      BY <2>1 DEF Begin
    <3>2. s = "scheduler"
      BY <3>1
    <3> QED
      BY <2>1, <3>1, <3>2, NotBegunType DEF TypeInv, TypeOK, TaskType
  <2>2. CASE ~\E r \in Run : Begin(r) /\ p = r
    <3>1. task[p].pc = "idle" => task'[p] = task[p]
      BY <2>2 DEF TypeInv, TypeOK, Next, Proceed, Begin, Lookup, Insert, ExecuteStep,
                  WriteTerminal, StatementRaises, CallbackRaises, Kill, Crash, Boot, Tick,
                  vars, IsActive, Active
    <3>2. task'[p].surface = task[p].surface /\ IsActive(p)
      BY <3>1, OwnerOfEffect, EveryEffect
    <3> QED
      BY <3>2 DEF OnlyScheduled
  <2> QED
    BY <2>1, <2>2
<1>3. OnlyScheduled /\ [\A r \in Run :
            row[r].status = "running" /\ row'[r].error = "scheduler restarted" =>
                ~IsActive(r) \/ task[r].surface # "scheduler"]_vars =>
        [\A r \in Run :
            row[r].status = "running" /\ row'[r].error = "scheduler restarted" =>
                ~IsActive(r)]_vars
  BY DEF OnlyScheduled
<1> QED
  BY <1>1, <1>2, <1>3, SchedulerSparesItsOwn, TypeInvariance, PTL
     DEF Spec, SweepSparesItsOwn, SweepTakesOnlyOrphans
=============================================================================
