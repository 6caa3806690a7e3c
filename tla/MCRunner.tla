------------------------------ MODULE MCRunner ------------------------------
(* Instances of Runner for TLC. *)
EXTENDS Runner, TLC

CONSTANTS r1, r2, r3

Plain(n) == [name |-> n, prior |-> {}, previous |-> {}, trigger |-> FALSE]

\* A workflow whose second step reads the first, and two later versions of the
\* same file: one reads the previous run's second step, as the example digest
\* does, one the trigger's context as well.
First ==
    [name |-> "digest",
     steps |-> <<Plain("gather"), [Plain("summary") EXCEPT !.prior = {"gather"}]>>]

Digest ==
    [name |-> "digest",
     steps |-> <<Plain("gather"),
                 [Plain("summary") EXCEPT !.prior = {"gather"},
                                          !.previous = {"summary"}]>>]

\* Another workflow, that can only build on itself.
Hook ==
    [name |-> "hook",
     steps |-> <<[Plain("gather") EXCEPT !.trigger = TRUE,
                                         !.previous = {"gather"}]>>]

MCName == {"digest", "hook"}
MCStepName == {"gather", "summary"}

Versions == {First, Digest}
AllDefinitions == {First, Digest, Hook}

\* Two versions of a workflow, run by cron and from the shell.
CronAndShell ==
    [s \in Surface |-> CASE s = "scheduler" -> {Digest}
                         [] s = "cli" -> {First}
                         [] OTHER -> {}]

\* Every surface, each with its own workflow: the digest by cron, its first
\* version from the shell and by POST /run, the hook on files and webhooks.
Everywhere ==
    [s \in Surface |-> CASE s = "scheduler" -> {Digest}
                         [] s = "watcher" -> {Hook}
                         [] s = "api" -> {First, Hook}
                         [] OTHER -> {First}]

RunSymmetry == Permutations(Run)
=============================================================================
