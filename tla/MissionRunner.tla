--------------------------- MODULE MissionRunner ----------------------------
(***************************************************************************)
(* The mission runner of the command line (crates/daf-cli/src/commands/    *)
(* run.rs): validation of the dependency graph, the preview of its waves,  *)
(* and the loop that scans the pending tasks, spawns commands up to a      *)
(* limit, skips what depends on a failure and joins what has ended.        *)
(***************************************************************************)
EXTENDS Naturals, FiniteSets, Sequences, SequencesExt

CONSTANTS
  FileOrder,      \* the task names in the order of the mission file
  UnknownName,    \* a name no task has
  Parallelisms    \* values of --parallelism

ASSUME FileOrderAssumption ==
  FileOrder \in Seq(Range(FileOrder)) /\ IsInjective(FileOrder) /\ UnknownName \notin Range(FileOrder)
ASSUME ParallelismAssumption == Parallelisms \subseteq 1..64

RunTasks == Range(FileOrder)

VARIABLES
  dependsOn,   \* depends_on of each task, as the file says
  parallelism,
  phase,       \* where exec is
  visited,     \* validate: tasks whose dependencies were visited
  waves,       \* --dry-run: the waves so far
  pending,     \* tasks not yet spawned or skipped, in file order
  index,       \* the scan position in pending, from 1
  child,       \* the JoinSet: each task's command, until it is joined
  results

runnerVars == <<dependsOn, parallelism, phase, visited, waves, pending, index, child, results>>

Outcomes == {"passed", "failed", "timed_out"}
Ended == {"rejected", "cancelled", "previewed", "passed", "failed", "aborted"}

RunnerTypeOK ==
  /\ dependsOn \in [RunTasks -> SUBSET (RunTasks \cup {UnknownName})]
  /\ parallelism \in Parallelisms
  /\ phase \in {"names", "validate", "confirm", "preview", "scan", "join"} \cup Ended
  /\ visited \subseteq RunTasks
  /\ Range(waves) \subseteq (SUBSET RunTasks) \ {{}}
  /\ IsInjective(pending) /\ Range(pending) \subseteq RunTasks
  /\ index \in 1..(Len(pending) + 1)
  /\ child \in [RunTasks -> {"none", "running", "panicked"} \cup Outcomes]
  /\ results \in [RunTasks -> {"none", "skipped"} \cup Outcomes]
  /\ phase \in {"scan", "join"} =>
       \A t \in RunTasks :      \* a task is in one place at a time
         Cardinality({p \in {1, 2, 3} : \/ p = 1 /\ t \in Range(pending)
                                        \/ p = 2 /\ child[t] # "none"
                                        \/ p = 3 /\ results[t] # "none"}) = 1

RunnerInit ==
  /\ dependsOn \in [RunTasks -> SUBSET (RunTasks \cup {UnknownName})]
  /\ parallelism \in Parallelisms
  /\ phase = "names"
  /\ visited = {}
  /\ waves = <<>>
  /\ pending = <<>>
  /\ index = 1
  /\ child = [t \in RunTasks |-> "none"]
  /\ results = [t \in RunTasks |-> "none"]

-----------------------------------------------------------------------------
(* validate *)

CheckNames ==
  /\ phase = "names"
  /\ phase' = IF \E t \in RunTasks : UnknownName \in dependsOn[t] THEN "rejected" ELSE "validate"
  /\ UNCHANGED <<dependsOn, parallelism, visited, waves, pending, index, child, results>>

\* One round over the tasks in file order; what it visits counts at once.
Round(seen) ==
  LET after[i \in 0..Len(FileOrder)] ==
        IF i = 0 THEN seen
        ELSE IF dependsOn[FileOrder[i]] \subseteq after[i - 1] THEN after[i - 1] \cup {FileOrder[i]}
        ELSE after[i - 1]
  IN after[Len(FileOrder)]

\* Mutant: the file must list every task after its dependencies.
ValidateRound_Once ==
  /\ phase = "validate"
  /\ visited' = Round(visited)
  /\ phase' = IF visited' = RunTasks THEN "confirm" ELSE "rejected"
  /\ UNCHANGED <<dependsOn, parallelism, waves, pending, index, child, results>>

ValidateRound ==
  /\ phase = "validate"
  /\ visited' = Round(visited)
  /\ phase' = CASE visited' = RunTasks -> "confirm"
                [] visited' # RunTasks /\ visited' = visited -> "rejected"
                [] OTHER -> "validate"
  /\ UNCHANGED <<dependsOn, parallelism, waves, pending, index, child, results>>

-----------------------------------------------------------------------------
(* --dry-run, and the question before execution *)

Preview ==
  /\ phase = "confirm"
  /\ phase' = "preview"
  /\ UNCHANGED <<dependsOn, parallelism, visited, waves, pending, index, child, results>>

InWaves == UNION Range(waves)

\* Mutant: a task is shown as soon as one dependency is.
Wave_Any ==
  {t \in RunTasks \ InWaves : dependsOn[t] = {} \/ dependsOn[t] \cap InWaves # {}}

Wave == {t \in RunTasks \ InWaves : dependsOn[t] \subseteq InWaves}

PreviewWave ==
  /\ phase = "preview"
  /\ IF InWaves = RunTasks
     THEN phase' = "previewed" /\ UNCHANGED waves
     ELSE waves' = Append(waves, Wave) /\ UNCHANGED phase
  /\ UNCHANGED <<dependsOn, parallelism, visited, pending, index, child, results>>

Cancel ==
  /\ phase = "confirm"
  /\ phase' = "cancelled"
  /\ UNCHANGED <<dependsOn, parallelism, visited, waves, pending, index, child, results>>

Execute ==
  /\ phase = "confirm"
  /\ phase' = "scan"
  /\ pending' = FileOrder
  /\ UNCHANGED <<dependsOn, parallelism, visited, waves, index, child, results>>

-----------------------------------------------------------------------------
(* The execution loop *)

Active == {t \in RunTasks : child[t] # "none"}

\* Mutant: only a dependency that failed itself counts.
Doomed_FailedOnly(t) == \E d \in dependsOn[t] : results[d] = "failed"

Doomed(t) == \E d \in dependsOn[t] : results[d] \notin {"none", "passed"}

\* Mutant: a dependency that has not failed is good enough.
Ready_NotFailed(t) == \A d \in dependsOn[t] : results[d] \in {"none", "passed"}

Ready(t) == \A d \in dependsOn[t] : results[d] = "passed"

Scanning == phase = "scan" /\ index <= Len(pending)

SkipTask ==
  /\ Scanning
  /\ Doomed(pending[index])
  /\ results' = [results EXCEPT ![pending[index]] = "skipped"]
  /\ pending' = RemoveAt(pending, index)
  /\ UNCHANGED <<dependsOn, parallelism, phase, visited, waves, index, child>>

SpawnTask ==
  /\ Scanning
  /\ ~Doomed(pending[index])
  /\ Cardinality(Active) < parallelism
  /\ Ready(pending[index])
  /\ child' = [child EXCEPT ![pending[index]] = "running"]
  /\ pending' = RemoveAt(pending, index)
  /\ UNCHANGED <<dependsOn, parallelism, phase, visited, waves, index, results>>

PassOver ==
  /\ Scanning
  /\ ~Doomed(pending[index])
  /\ ~(Cardinality(Active) < parallelism /\ Ready(pending[index]))
  /\ index' = index + 1
  /\ UNCHANGED <<dependsOn, parallelism, phase, visited, waves, pending, child, results>>

\* Mutant: only commands that failed themselves count.
NotPassed_FailedOnly == {t \in RunTasks : results[t] = "failed"}

\* The results counted as failed at the end.
NotPassed == {t \in RunTasks : results[t] \notin {"none", "passed"}}

\* join_next of an empty JoinSet returns at once; the loop ends when there is
\* nothing pending either.
EndScan ==
  /\ phase = "scan"
  /\ index > Len(pending)
  /\ phase' = CASE Active # {} -> "join"
                [] Active = {} /\ pending # <<>> -> "scan"
                [] Active = {} /\ pending = <<>> -> IF NotPassed = {} THEN "passed" ELSE "failed"
  /\ index' = 1
  /\ UNCHANGED <<dependsOn, parallelism, visited, waves, pending, child, results>>

\* A command exits, cannot be spawned, or is killed and reaped at its deadline.
CommandEnds(t, outcome) ==
  /\ child[t] = "running"
  /\ child' = [child EXCEPT ![t] = outcome]
  /\ UNCHANGED <<dependsOn, parallelism, phase, visited, waves, pending, index, results>>

JoinNext(t) ==
  /\ phase = "join"
  /\ child[t] \in Outcomes
  /\ results' = [results EXCEPT ![t] = child[t]]
  /\ child' = [child EXCEPT ![t] = "none"]
  /\ phase' = "scan"
  /\ UNCHANGED <<dependsOn, parallelism, visited, waves, pending, index>>

\* A join error ends exec; dropping the JoinSet kills what still runs.
JoinPanic(t) ==
  /\ phase = "join"
  /\ child[t] = "panicked"
  /\ child' = [u \in RunTasks |-> "none"]
  /\ phase' = "aborted"
  /\ UNCHANGED <<dependsOn, parallelism, visited, waves, pending, index, results>>

-----------------------------------------------------------------------------

ExecStep ==
  \/ CheckNames \/ ValidateRound
  \/ PreviewWave
  \/ SkipTask \/ SpawnTask \/ PassOver \/ EndScan
  \/ \E t \in RunTasks : JoinNext(t) \/ JoinPanic(t)

RunnerNext ==
  \/ ExecStep
  \/ Preview \/ Cancel \/ Execute
  \/ \E t \in RunTasks, o \in Outcomes \cup {"panicked"} : CommandEnds(t, o)

\* exec goes on whenever it can; every command has a deadline.
RunnerFairness ==
  /\ WF_runnerVars(ExecStep)
  /\ \A t \in RunTasks : WF_runnerVars(\E o \in Outcomes : CommandEnds(t, o))

RunnerSpec == RunnerInit /\ [][RunnerNext]_runnerVars /\ RunnerFairness

-----------------------------------------------------------------------------
(* Properties *)

\* Some tasks wait for each other.
Cyclic == \E S \in (SUBSET RunTasks) \ {{}} : \A t \in S : dependsOn[t] \cap S # {}

(***************************************************************************)
(* validate refuses exactly the missions with an unknown dependency or a   *)
(* cycle, in whatever order the file lists the tasks.                      *)
(***************************************************************************)
AcceptedIffRunnable ==
  LET runnable == ~Cyclic /\ \A t \in RunTasks : UnknownName \notin dependsOn[t]
  IN /\ phase = "rejected" => ~runnable
     /\ phase \notin {"names", "validate", "rejected"} => runnable

(***************************************************************************)
(* A command runs only after all its dependencies have passed, and a task  *)
(* is skipped only because a dependency failed, timed out or was skipped.  *)
(***************************************************************************)
DependenciesFirst ==
  \A t \in RunTasks :
    /\ child[t] # "none" \/ results[t] \in Outcomes =>
         \A d \in dependsOn[t] : results[d] = "passed"
    /\ results[t] = "skipped" =>
         \E d \in dependsOn[t] : results[d] \in {"failed", "timed_out", "skipped"}

(***************************************************************************)
(* The exit status is honest: success means every task of the file passed, *)
(* failure that every task has a result and one did not pass.              *)
(***************************************************************************)
ExitHonest ==
  /\ phase = "passed" => \A t \in RunTasks : results[t] = "passed"
  /\ phase = "failed" => /\ \A t \in RunTasks : results[t] # "none"
                         /\ \E t \in RunTasks : results[t] # "passed"

(***************************************************************************)
(* The preview lists every task once, each in the first wave that comes    *)
(* after all its dependencies.                                             *)
(***************************************************************************)
PreviewInOrder ==
  /\ \A i, j \in DOMAIN waves : i # j => waves[i] \cap waves[j] = {}
  /\ \A i \in DOMAIN waves : \A t \in waves[i] :
       /\ dependsOn[t] \subseteq UNION {waves[j] : j \in 1..(i - 1)}
       /\ i > 1 => dependsOn[t] \cap waves[i - 1] # {}
  /\ phase = "previewed" => UNION Range(waves) = RunTasks

(***************************************************************************)
(* A mission is validated, and previewed or executed to the end, unless it *)
(* waits for the user's answer: the loop never spins over pending tasks it *)
(* can neither run nor skip.                                               *)
(***************************************************************************)
RunnerFinishes ==
  phase \in {"validate", "preview", "scan", "join"} ~> phase \in Ended \cup {"confirm"}

(***************************************************************************)
(* A mission file from validation over preview to the exit status:         *)
(* accepted if it can run, shown in order, run in order and reported as it *)
(* went.                                                                   *)
(***************************************************************************)
RunnerSafe == AcceptedIffRunnable /\ DependenciesFirst /\ PreviewInOrder /\ ExitHonest

(***************************************************************************)
(* And every mission is brought to an end.                                 *)
(***************************************************************************)
RunnerSound == [](RunnerTypeOK /\ RunnerSafe) /\ RunnerFinishes
=============================================================================
