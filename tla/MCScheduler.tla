---------------------------- MODULE MCScheduler ----------------------------
(* Instances of Scheduler for TLC. *)
EXTENDS Scheduler, TLC

CONSTANTS c1, c2

\* A cron expression is its period: every minute, every other minute.
MCCron == {1, 2}
MCNextFire(c, t) == (t \div c + 1) * c

MCFile == {"good", "edited", "poison"}

\* "edited" is under the user's hands: it loads now and then.
MCLoads ==
    [f \in MCFile |-> CASE f = "good" -> {"loads"}
                        [] f = "edited" -> {"loads", "fails"}
                        [] f = "poison" -> {"loads", "exits"}]

Registration(n, f, c) == [name |-> n, file |-> f, cron |-> c]

\* Two schedules whose files never exit.
Harmless == {Registration("digest", "edited", 1), Registration("report", "good", 2)}

\* A schedule whose file exits the process when it is imported, beside a good one.
WithPoison == {Registration("digest", "poison", 1), Registration("report", "good", 1)}

ClientSymmetry == Permutations(Client)
=============================================================================
