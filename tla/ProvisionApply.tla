--------------------------- MODULE ProvisionApply ---------------------------
(***************************************************************************)
(* The planner and the applier of daf-provision over a state file that     *)
(* several processes share under an advisory lock. A change is a call to a *)
(* provider, then an entry of the state, then a save of the whole state;   *)
(* the process may die between any two of them, the provider and the save  *)
(* may fail. The state's serial and time stamps are not modelled.          *)
(***************************************************************************)
EXTENDS Integers, FiniteSets, Sequences, SequencesExt, Maps

CONSTANTS
  Topologies,  \* what operators declare: functions from names to specs
  Appliers,    \* processes that lock, plan, apply and unlock
  MaxPids,     \* bound on the physical resources ever created
  MaxMishaps   \* bound on crashes and failed calls

ASSUME ProvisionAssumption ==
  /\ MaxPids \in Nat /\ MaxMishaps \in Nat
  /\ \A t \in Topologies : IsFiniteSet(DOMAIN t)

VARIABLES
  disk,        \* the saved state: per resource its provider, config and physical id
  lockFile,    \* whether the lock file exists
  live,        \* physical ids that exist at the providers
  pidCount,    \* physical ids handed out
  applier,     \* per process, its copy of the state and where it is in apply
  mishaps,     \* crashes and failed calls so far
  unsaved      \* those that kept a state from being saved

provisionVars == <<disk, lockFile, live, pidCount, applier, mishaps, unsaved>>

NoTopology == EmptyMap
IdleApplier == [phase |-> "idle", mem |-> EmptyMap, desired |-> NoTopology, dryRun |-> FALSE,
                autoRollback |-> FALSE, todo |-> <<>>, pid |-> 0, progress |-> <<>>]

ProvisionInit ==
  /\ disk = EmptyMap /\ lockFile = FALSE /\ live = {} /\ pidCount = 0
  /\ applier = [a \in Appliers |-> IdleApplier]
  /\ mishaps = 0 /\ unsaved = 0

Becomes(a, st) == applier' = [applier EXCEPT ![a] = st]
Change(name, action, after) == [name |-> name, action |-> action, after |-> after]
Entry(c, status) == [name |-> c.name, action |-> c.action, status |-> status]

-----------------------------------------------------------------------------
(* The planner *)

NoConfig == [of |-> "none", v |-> 0]

\* The config, and what it was declared with, decide between update and replace.
PlannedChange(current, desired, n) ==
  IF n \notin DOMAIN desired THEN Change(n, "Destroy", NoConfig)
  ELSE IF n \notin DOMAIN current THEN Change(n, "Create", desired[n].config)
  ELSE IF current[n].provider # desired[n].provider THEN Change(n, "Replace", desired[n].config)
  ELSE IF current[n].config # desired[n].config THEN Change(n, "Update", desired[n].config)
  ELSE Change(n, "NoOp", NoConfig)

\* A resource that is protected in the state is not destroyed.
Planned(current, desired) ==
  {PlannedChange(current, desired, n) :
     n \in DOMAIN desired \cup {m \in DOMAIN current : ~current[m].preventDestroy}}

\* Kahn's algorithm over hash maps, and destroys in the maps' order, last.
Sorted(changes, desired) ==
  {s \in SetToSeqs(changes) : \A i, j \in DOMAIN s :
     /\ s[i].action = "Destroy" /\ s[j].action # "Destroy" => j < i
     /\ s[i].action # "Destroy" /\ s[j].name \in desired[s[i].name].dependsOn => j < i}

\* What apply goes through, in the plan's order (there is one such sequence).
Mutating(plan) ==
  {s \in SetToSeqs({c \in ToSet(plan) : c.action # "NoOp"}) :
     \A i, j \in DOMAIN s, k, l \in DOMAIN plan :
       s[i] = plan[k] /\ s[j] = plan[l] /\ k < l => i < j}

-----------------------------------------------------------------------------
(* The caller: lock, load, plan and apply, unlock *)

Lock(a) ==
  /\ applier[a].phase = "idle" /\ ~lockFile
  /\ lockFile' = TRUE
  /\ Becomes(a, [IdleApplier EXCEPT !.phase = "locked", !.mem = disk])
  /\ UNCHANGED <<disk, live, pidCount, mishaps, unsaved>>

\* A cycle of dependencies has no order: the planner returns an error.
PlanAndApply(a, topology, dry, rollback) ==
  LET st == applier[a]
      orders == Sorted(Planned(st.mem, topology), topology)
  IN
  /\ st.phase = "locked"
  /\ IF orders = {} THEN Becomes(a, [st EXCEPT !.phase = "done"])
     ELSE \E plan \in orders : \E s \in Mutating(plan) :
            Becomes(a, [st EXCEPT !.phase = "change", !.desired = topology, !.dryRun = dry,
                                  !.autoRollback = rollback, !.todo = s])
  /\ UNCHANGED <<disk, lockFile, live, pidCount, mishaps, unsaved>>

Unlock(a) ==
  /\ applier[a].phase = "done"
  /\ lockFile' = FALSE
  /\ Becomes(a, IdleApplier)
  /\ UNCHANGED <<disk, live, pidCount, mishaps, unsaved>>

\* The process dies: its copy of the state is gone, the lock file stays until
\* an operator removes it.
Crash(a) ==
  /\ applier[a].phase \notin {"idle", "crashed"} /\ mishaps < MaxMishaps
  /\ Becomes(a, [IdleApplier EXCEPT !.phase = "crashed"])
  /\ mishaps' = mishaps + 1 /\ unsaved' = unsaved + 1
  /\ UNCHANGED <<disk, lockFile, live, pidCount>>

OperatorRecovers(a) ==
  /\ applier[a].phase = "crashed"
  /\ lockFile' = FALSE /\ Becomes(a, IdleApplier)
  /\ UNCHANGED <<disk, live, pidCount, mishaps, unsaved>>

-----------------------------------------------------------------------------
(* Applier::apply *)

\* The plan holds no dependencies, so the map has none.
BuildDependencyMap(plan) == [n \in {c.name : c \in ToSet(plan)} |-> {}]

Failures(progress) == {e.name : e \in {e \in ToSet(progress) : e.status = "Failed"}}

HasFailedDep(st, c) ==
  BuildDependencyMap(st.todo)[c.name] \cap Failures(st.progress) # {}

Reported(st, status) ==
  [st EXCEPT !.progress = Append(@, Entry(Head(st.todo), status)), !.todo = Tail(@),
             !.phase = "change", !.pid = 0]

\* What is in the state keeps its provider, everything else is an agent_pool.
ProviderOf(st, n) == IF n \in DOMAIN st.mem THEN st.mem[n].provider ELSE "agent_pool"

Validates(provider, config) == config.of = provider

\* The recorded resource has the default type and lifecycle.
Recorded(provider, config, pid) ==
  [provider |-> provider, config |-> config, pid |-> pid, preventDestroy |-> FALSE]

Attempts(a) == applier[a].phase = "change" /\ applier[a].todo # <<>>

Skips(a) ==
  LET st == applier[a] IN
  /\ Attempts(a)
  /\ st.dryRun \/ HasFailedDep(st, Head(st.todo))
  /\ Becomes(a, Reported(st, "Skipped"))
  /\ UNCHANGED <<disk, lockFile, live, pidCount, mishaps, unsaved>>

Starts(a, actions) ==
  LET st == applier[a] IN
  Attempts(a) /\ ~st.dryRun /\ ~HasFailedDep(st, Head(st.todo)) /\ Head(st.todo).action \in actions

Created(a, st) ==
  /\ pidCount < MaxPids /\ pidCount' = pidCount + 1
  /\ live' = live \cup {pidCount + 1}
  /\ Becomes(a, [st EXCEPT !.phase = "record", !.pid = pidCount + 1])
  /\ UNCHANGED <<disk, lockFile, mishaps, unsaved>>

CreateChange(a) ==
  LET st == applier[a]  c == Head(st.todo) IN
  /\ Starts(a, {"Create"})
  /\ IF Validates(ProviderOf(st, c.name), c.after) THEN Created(a, st)
     ELSE /\ Becomes(a, Reported(st, "Failed"))
          /\ UNCHANGED <<disk, lockFile, live, pidCount, mishaps, unsaved>>

UpdateChange(a) ==
  /\ Starts(a, {"Update"})
  /\ Becomes(a, [applier[a] EXCEPT !.phase = "record"])
  /\ UNCHANGED <<disk, lockFile, live, pidCount, mishaps, unsaved>>

\* A destroy, and the first half of a replace.
DeleteChange(a) ==
  LET st == applier[a]  c == Head(st.todo) IN
  /\ Starts(a, {"Destroy", "Replace"})
  /\ live' = live \ {st.mem[c.name].pid}
  /\ Becomes(a, [st EXCEPT !.phase = IF c.action = "Destroy" THEN "record" ELSE "recreate"])
  /\ UNCHANGED <<disk, lockFile, pidCount, mishaps, unsaved>>

\* The second half does not validate.
Recreate(a) == applier[a].phase = "recreate" /\ Created(a, applier[a])

ProviderFails(a) ==
  /\ Starts(a, {"Create", "Update", "Destroy", "Replace"}) \/ applier[a].phase = "recreate"
  /\ mishaps < MaxMishaps /\ mishaps' = mishaps + 1
  /\ Becomes(a, Reported(applier[a], "Failed"))
  /\ UNCHANGED <<disk, lockFile, live, pidCount, unsaved>>

\* What the change leaves in the state.
Applied(st) ==
  LET c == Head(st.todo)
  IN CASE c.action \in {"Create", "Replace"} ->
            Put(st.mem, c.name, Recorded(ProviderOf(st, c.name), c.after, st.pid))
       [] c.action = "Update" -> [st.mem EXCEPT ![c.name].config = c.after]
       [] c.action = "Destroy" -> Drop(st.mem, c.name)

\* Mutant: the state is saved only with the last change.
SavedNow_AtEnd(st, mem) == IF Len(st.todo) = 1 THEN mem ELSE disk

\* StateStore.save writes the whole state, atomically.
SavedNow(st, mem) == mem

RecordChange(a) ==
  LET st == [applier[a] EXCEPT !.mem = Applied(applier[a])] IN
  /\ applier[a].phase = "record"
  /\ disk' = SavedNow(st, st.mem)
  /\ Becomes(a, Reported(st, "Succeeded"))
  /\ UNCHANGED <<lockFile, live, pidCount, mishaps, unsaved>>

\* A save that fails fails the change, whose effect stays in the state.
SaveFails(a) ==
  LET st == [applier[a] EXCEPT !.mem = Applied(applier[a])] IN
  /\ applier[a].phase = "record"
  /\ mishaps < MaxMishaps /\ mishaps' = mishaps + 1 /\ unsaved' = unsaved + 1
  /\ Becomes(a, Reported(st, "Failed"))
  /\ UNCHANGED <<disk, lockFile, live, pidCount>>

ChangesEnd(a) ==
  LET st == applier[a] IN
  /\ st.phase = "change" /\ st.todo = <<>>
  /\ Becomes(a, [st EXCEPT !.phase =
       IF Failures(st.progress) # {} /\ st.autoRollback /\ ~st.dryRun THEN "rollback" ELSE "done"])
  /\ UNCHANGED <<disk, lockFile, live, pidCount, mishaps, unsaved>>

-----------------------------------------------------------------------------
(* Rollback, newest first *)

\* Mutant: only the newest create is undone.
Undoes_OnlyLast(st, e) == /\ e.status = "Succeeded" /\ e.action = "Create"
                          /\ e = st.progress[Len(st.progress)]

Undoes(st, e) == e.status = "Succeeded" /\ e.action = "Create"

Undone(st, i) == [st EXCEPT !.progress[i].status = "Undone"]

\* The newest entry that is left to undo.
NextUndone(st, i) ==
  /\ st.phase = "rollback" /\ Undoes(st, st.progress[i])
  /\ \A j \in DOMAIN st.progress : j > i => ~Undoes(st, st.progress[j])

\* A save that fails is logged.
Rollback(a, i, saved) ==
  LET st == applier[a]
      mem == Drop(st.mem, st.progress[i].name)
  IN
  /\ NextUndone(st, i)
  /\ live' = live \ {st.mem[st.progress[i].name].pid}
  /\ IF saved THEN disk' = mem /\ UNCHANGED <<mishaps, unsaved>>
     ELSE /\ mishaps < MaxMishaps /\ mishaps' = mishaps + 1 /\ unsaved' = unsaved + 1
          /\ UNCHANGED disk
  /\ Becomes(a, [Undone(st, i) EXCEPT !.mem = mem])
  /\ UNCHANGED <<lockFile, pidCount>>

\* A failed delete leaves the resource and goes on to the one before.
RollbackFails(a, i) ==
  /\ NextUndone(applier[a], i) /\ mishaps < MaxMishaps /\ mishaps' = mishaps + 1
  /\ Becomes(a, [applier[a] EXCEPT !.progress[i].status = "Kept"])
  /\ UNCHANGED <<disk, lockFile, live, pidCount, unsaved>>

RollbackEnds(a) ==
  /\ applier[a].phase = "rollback"
  /\ \A e \in ToSet(applier[a].progress) : ~Undoes(applier[a], e)
  /\ Becomes(a, [applier[a] EXCEPT !.phase = "done"])
  /\ UNCHANGED <<disk, lockFile, live, pidCount, mishaps, unsaved>>

-----------------------------------------------------------------------------
ProvisionNext ==
  \E a \in Appliers :
    \/ Lock(a) \/ Unlock(a) \/ Crash(a) \/ OperatorRecovers(a)
    \/ \E t \in Topologies, dry, rollback \in BOOLEAN : PlanAndApply(a, t, dry, rollback)
    \/ Skips(a) \/ CreateChange(a) \/ UpdateChange(a) \/ DeleteChange(a) \/ Recreate(a)
    \/ ProviderFails(a) \/ RecordChange(a) \/ SaveFails(a) \/ ChangesEnd(a) \/ RollbackEnds(a)
    \/ \E i \in DOMAIN applier[a].progress : 
         Rollback(a, i, TRUE) \/ Rollback(a, i, FALSE) \/ RollbackFails(a, i)

ProvisionSpec == ProvisionInit /\ [][ProvisionNext]_provisionVars

-----------------------------------------------------------------------------
BeingCreated == {applier[a].pid : a \in Appliers}
SavedPids == {disk[n].pid : n \in DOMAIN disk}

(***************************************************************************)
(* "The state is persisted after each resource completes so that partial   *)
(* progress is not lost on crash": of everything ever created, at most one *)
(* physical resource per crash or failed save is live and missing from the *)
(* state file, beside the one being created right now.                     *)
(***************************************************************************)
ProgressPersisted == Cardinality(live \ (SavedPids \cup BeingCreated)) <= unsaved

(***************************************************************************)
(* A failed apply with rollback undoes all it created, also what it went   *)
(* on to create after the failure: when it ends, and every provider and    *)
(* save has answered, none of its creates is left in the state.            *)
(***************************************************************************)
FailedApplyUndone ==
  \A a \in Appliers :
    LET st == applier[a] IN
    st.phase = "done" /\ st.autoRollback /\ ~st.dryRun /\ Failures(st.progress) # {} /\ unsaved = 0
      => \A e \in ToSet(st.progress) :
           e.action = "Create" /\ e.name \in DOMAIN st.mem => e.status = "Kept"

(***************************************************************************)
(* "Skipped (e.g., dry-run mode or dependency failure)", "Check if any     *)
(* dependency failed": a change whose declared dependency has failed in    *)
(* this apply is skipped, never handed to a provider.                      *)
(***************************************************************************)
DependentsSkipped ==
  \A a \in Appliers :
    LET p == applier[a].progress IN
    \A i, j \in DOMAIN p :
      /\ i < j /\ p[i].status = "Failed" /\ p[j].name \in DOMAIN applier[a].desired
      /\ p[i].name \in applier[a].desired[p[j].name].dependsOn
      => p[j].status = "Skipped"

(***************************************************************************)
(* An apply that is interrupted or fails leaves nothing behind that the    *)
(* state does not tell of.                                                 *)
(***************************************************************************)
ApplyRecoverable == ProgressPersisted /\ FailedApplyUndone
=============================================================================
