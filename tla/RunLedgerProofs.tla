-------------------------- MODULE RunLedgerProofs --------------------------
(***************************************************************************)
(* Runner implements RunLedger: each step of the processes that write      *)
(* workflow_runs is a step of the ledger or changes nothing in it.         *)
(***************************************************************************)
EXTENDS RunnerProofs

\* Where a row stands in the ledger.
StandingOf(w) ==
    IF w.status = "failed" /\ w.error # "step" THEN "orphaned" ELSE w.status

LEMMA StateOf == LedgerState = [r \in Run |-> StandingOf(row[r])]
BY DEF LedgerState, StandingOf

\* A row that replaces one row of the table changes one place of the ledger.
LEMMA OneRow ==
    ASSUME TypeInv, NEW r \in Run, NEW w \in RowType,
           row' = [row EXCEPT ![r] = w]
    PROVE  /\ LedgerState' = [LedgerState EXCEPT ![r] = StandingOf(w)]
           /\ LedgerLink' = [LedgerLink EXCEPT ![r] = w.prev]
BY DEF LedgerState, LedgerLink, StandingOf, TypeInv, TypeOK

LEMMA EnterStep ==
    ASSUME TypeInv, RowFollowsTask, LinksHold, NEW r \in Run,
           task[r].pc = "insert",
           row' = [row EXCEPT ![r] = RunningRow(task[r])]
    PROVE  Ledger!Next
<1>1. task[r] \in TaskType /\ RunningRow(task[r]) \in RowType
  BY RunningRowType DEF TypeInv, TypeOK
<1>2. /\ RunningRow(task[r]).status = "running"
      /\ RunningRow(task[r]).prev = task[r].prev
  BY DEF RunningRow, NoRow
<1>3. LedgerState[r] = "absent"
  <2>1. row[r] = NoRow
    BY DEF RowFollowsTask
  <2>2. NoRow.status = "absent"
    BY DEF NoRow
  <2> QED
    BY <2>1, <2>2 DEF LedgerState
<1>4. task[r].prev \in {NoRun} \cup {p \in Run : LedgerState[p] = "success"}
  <2>1. CASE task[r].prev = NoRun
    BY <2>1
  <2>2. CASE task[r].prev # NoRun
    <3>1. task[r].prev \in Run
      BY <1>1, <2>2 DEF TaskType
    <3>2. row[task[r].prev].status = "success"
      BY <2>2 DEF LinksHold, Linked
    <3> QED
      BY <3>1, <3>2 DEF LedgerState
  <2> QED
    BY <2>1, <2>2
<1>5. /\ LedgerState' = [LedgerState EXCEPT ![r] = "running"]
      /\ LedgerLink' = [LedgerLink EXCEPT ![r] = task[r].prev]
  <2> DEFINE w == RunningRow(task[r])
  <2>1. w \in RowType /\ row' = [row EXCEPT ![r] = w]
    BY <1>1
  <2>2. StandingOf(w) = "running" /\ w.prev = task[r].prev
    BY <1>2 DEF StandingOf
  <2>3. /\ LedgerState' = [LedgerState EXCEPT ![r] = StandingOf(w)]
        /\ LedgerLink' = [LedgerLink EXCEPT ![r] = w.prev]
    BY <2>1, OneRow
  <2> QED
    BY <2>2, <2>3
<1> QED
  BY <1>3, <1>4, <1>5 DEF Ledger!Next, Ledger!Enter

LEMMA SettleStep ==
    ASSUME TypeInv, RowFollowsTask, NEW r \in Run,
           task[r].pc = "update",
           row' = [row EXCEPT ![r] = TerminalRow(row[r], task[r])]
    PROVE  Ledger!Next
<1> DEFINE w == TerminalRow(row[r], task[r])
<1>1. task[r] \in TaskType /\ row[r] \in RowType
  BY DEF TypeInv, TypeOK
<1>2. w \in RowType
  BY <1>1, TerminalRowType
<1>3. LedgerState[r] \in {"running", "orphaned"}
  BY DEF RowFollowsTask, LedgerState
<1>4. w.prev = row[r].prev /\ StandingOf(w) \in {"success", "failed"}
  BY <1>1 DEF TerminalRow, StandingOf, Verdict, RowType
<1>5. /\ LedgerState' = [LedgerState EXCEPT ![r] = StandingOf(w)]
      /\ LedgerLink' = [LedgerLink EXCEPT ![r] = w.prev]
  BY <1>2, OneRow
<1>6. LedgerLink' = LedgerLink
  BY <1>4, <1>5 DEF LedgerLink
<1> QED
  BY <1>3, <1>4, <1>5, <1>6 DEF Ledger!Next, Ledger!Settle

\* The rows a sweep takes go from running to orphaned, the others stay.
LEMMA RecoverStep ==
    ASSUME TypeInv, NEW s \in Deployed, Boot(s)
    PROVE  Ledger!Next
<1> DEFINE lost == {r \in Run : r \in Orphans(s)}
<1>1. \A r \in Run : row[r] \in RowType
  BY DEF TypeInv, TypeOK
<1>2. ASSUME NEW r \in Run
      PROVE  /\ StandingOf(row'[r]) = IF r \in lost THEN "orphaned"
                                      ELSE LedgerState[r]
             /\ row'[r].prev = row[r].prev
             /\ r \in lost => LedgerState[r] = "running"
  <2>1. CASE r \in lost
    <3>1. row'[r] = [row[r] EXCEPT !.status = "failed",
                                   !.error = OrphanError(s), !.endedAt = now]
      BY <2>1 DEF Boot
    <3>2. OrphanError(s) # "step"
      BY DEF OrphanError
    <3>3. row[r].status = "running"
      BY <2>1 DEF Orphans
    <3> QED
      BY <1>1, <2>1, <3>1, <3>2, <3>3 DEF StandingOf, LedgerState, RowType
  <2>2. CASE r \notin lost
    BY <2>2 DEF Boot, StandingOf, LedgerState
  <2> QED
    BY <2>1, <2>2
<1>3. lost \in SUBSET {r \in Run : LedgerState[r] = "running"}
  BY <1>2
<1>4. LedgerState' =
        [r \in Run |-> IF r \in lost THEN "orphaned" ELSE LedgerState[r]]
  BY <1>2 DEF LedgerState, StandingOf
<1>5. LedgerLink' = LedgerLink
  BY <1>2 DEF LedgerLink
<1> HIDE DEF lost
<1>6. Ledger!Recover
  BY <1>3, <1>4, <1>5 DEF Ledger!Recover
<1> QED
  BY <1>6 DEF Ledger!Next

LEMMA StutterStep ==
    ASSUME row' = row
    PROVE  UNCHANGED Ledger!vars
BY DEF Ledger!vars, LedgerState, LedgerLink

LEMMA LedgerStep ==
    ASSUME TypeInv, RowFollowsTask, LinksHold, [Next]_vars
    PROVE  [Ledger!Next]_(Ledger!vars)
<1>1. CASE row' = row
  BY <1>1, StutterStep
<1>2. ASSUME NEW r \in Run, Insert(r) PROVE Ledger!Next
  BY <1>2, EnterStep DEF Insert
<1>3. ASSUME NEW r \in Run, WriteTerminal(r) PROVE Ledger!Next
  BY <1>3, SettleStep DEF WriteTerminal
<1>4. ASSUME NEW r \in Run, StatementRaises(r), row' # row PROVE Ledger!Next
  BY <1>4, EnterStep, SettleStep DEF StatementRaises
<1>5. ASSUME NEW s \in Deployed, Boot(s) PROVE Ledger!Next
  BY <1>5, RecoverStep
<1>6. ASSUME NEW r \in Run, Begin(r) \/ Lookup(r) \/ ExecuteStep(r)
                            \/ CallbackRaises(r) \/ Kill(r)
      PROVE  row' = row
  BY <1>6 DEF Begin, Lookup, ExecuteStep, CallbackRaises, Kill
<1>7. ASSUME NEW s \in Deployed, Crash(s) PROVE row' = row
  BY <1>7 DEF Crash
<1>8. CASE Tick
  BY <1>1, <1>8 DEF Tick
<1>9. CASE UNCHANGED vars
  BY <1>1, <1>9 DEF vars
<1> QED
  BY <1>1, <1>2, <1>3, <1>4, <1>5, <1>6, <1>7, <1>8, <1>9 DEF Next, Proceed

\* Every behaviour of the runner, its crashes and its sweeps is one of the
\* ledger: a run enters once, linked to a run that has succeeded, is settled
\* once by its own writer, and is never taken back once it has succeeded.
THEOREM RunnerImplementsLedger == Spec => IsALedger
<1>1. Init => Ledger!Init
  BY DEF Init, Ledger!Init, LedgerState, LedgerLink, NoRow
<1>2. TypeInv /\ RowFollowsTask /\ LinksHold /\ [Next]_vars
        => [Ledger!Next]_(Ledger!vars)
  BY LedgerStep
<1> QED
  BY <1>1, <1>2, LinksInvariance, PTL DEF Spec, IsALedger, Ledger!Spec
=============================================================================
