-------------------------- MODULE RuntimeLifecycle --------------------------
(***************************************************************************)
(* Start and shutdown of a runtime node (crates/daf-runtime/src/           *)
(* runtime.rs, signal.rs): concurrent callers of start and shutdown, the   *)
(* signal listener, the background loops and the force deadline, all of    *)
(* which wait on one tokio Notify that keeps no permit.                    *)
(*                                                                         *)
(* A step is what a task does between two awaits, except where two threads *)
(* may interleave inside it: setting the flag and notifying are two steps, *)
(* and so are registering with the Notify and reading the flag.            *)
(***************************************************************************)
EXTENDS Naturals, FiniteSets

CONSTANTS
  Starters,    \* callers of start
  Stoppers,    \* callers of shutdown
  Loops,       \* health loop, metrics loop, reload listener
  NoCaller

ASSUME CallerAssumption == Starters \cap Stoppers = {} /\ NoCaller \notin Starters \cup Stoppers

Callers == Starters \cup Stoppers
Waiters == Loops \cup {"listener", "deadline"}

VARIABLES
  rtState,    \* RuntimeState
  triggered,  \* ShutdownInner.triggered
  forced,     \* ShutdownInner.forced
  guard,      \* who holds shutdown_lock
  call,       \* where each caller of start or shutdown is
  waiter      \* where each task that calls ShutdownSignal::wait is

runtimeVars == <<rtState, triggered, forced, guard, call, waiter>>

InShutdown == {"notifying", "locking", "draining"}
InProgress == {"listening"} \cup InShutdown

WaitState == {"off", "loop", "registered", "waiting", "notified", "sleeping", "done"}
RuntimeState == {"initializing", "running", "shutting_down", "stopped"}

RuntimeTypeOK ==
  /\ rtState \in RuntimeState
  /\ triggered \in BOOLEAN
  /\ forced \in BOOLEAN
  /\ guard \in Callers \cup {NoCaller}
  /\ call \in [Callers -> {"idle", "refused", "ok", "err", "dropped"} \cup InProgress]
  /\ waiter \in [Waiters -> WaitState]
  /\ \A c \in Callers : guard = c <=> call[c] = "draining"
  /\ waiter["listener"] # "off" <=> \E c \in Starters : call[c] = "listening"

RuntimeInit ==
  /\ rtState = "initializing"
  /\ triggered = FALSE
  /\ forced = FALSE
  /\ guard = NoCaller
  /\ call = [c \in Callers |-> "idle"]
  /\ waiter = [w \in Waiters |-> "off"]

-----------------------------------------------------------------------------
(* Waiting on the signal *)

\* notify_waiters wakes whoever is registered and leaves nothing for others.
NotifyWaiters(ws) == [w \in Waiters |-> IF ws[w] = "waiting" THEN "notified" ELSE ws[w]]

\* force notifies again, in case anyone still waits.
ForceShutdown(ws) == forced' = TRUE /\ waiter' = NotifyWaiters(ws)

\* wait: enable() puts the task on the list of the Notify.
Register(w) ==
  /\ waiter[w] = "loop"
  /\ waiter' = [waiter EXCEPT ![w] = "registered"]
  /\ UNCHANGED <<rtState, triggered, forced, guard, call>>

\* What a task does when its wait is over.
AfterWait(w) ==
  \/ /\ w \in Loops
     /\ waiter' = [waiter EXCEPT ![w] = "done"]
     /\ UNCHANGED call
  \/ /\ w = "deadline"
     /\ waiter' = [waiter EXCEPT ![w] = "sleeping"]
     /\ UNCHANGED call
  \/ /\ w = "listener"
     /\ waiter' = [waiter EXCEPT ![w] = "off"]
     /\ call' = [c \in Callers |-> IF call[c] = "listening" THEN "locking" ELSE call[c]]

\* Mutant: wait relies on the notification alone.
CheckFlag_Dropped(w) ==
  /\ waiter[w] = "registered"
  /\ waiter' = [waiter EXCEPT ![w] = "waiting"]
  /\ UNCHANGED <<rtState, triggered, forced, guard, call>>

\* wait: the flag is read after registering, so a notification that comes
\* while a task is registered finds the flag set.
CheckFlag(w) ==
  /\ waiter[w] = "registered"
  /\ \/ triggered /\ AfterWait(w)
     \/ ~triggered /\ waiter' = [waiter EXCEPT ![w] = "waiting"] /\ UNCHANGED call
  /\ UNCHANGED <<rtState, triggered, forced, guard>>

WaitReturns(w) ==
  /\ waiter[w] = "notified"
  /\ AfterWait(w)
  /\ UNCHANGED <<rtState, triggered, forced, guard>>

\* The other branch of the select: the interval, a reload request or SIGHUP.
\* The wait is given up and taken up again in the next round.
OtherBranch(w) ==
  /\ w # "deadline"
  /\ waiter[w] \in {"waiting", "notified"}
  /\ waiter' = [waiter EXCEPT ![w] = "loop"]
  /\ UNCHANGED <<rtState, triggered, forced, guard, call>>

\* spawn_force_deadline: the timeout has passed since the trigger.
ForceDeadline ==
  /\ waiter["deadline"] = "sleeping"
  /\ ForceShutdown([waiter EXCEPT !["deadline"] = "done"])
  /\ UNCHANGED <<rtState, triggered, guard, call>>

-----------------------------------------------------------------------------
(* start and shutdown *)

\* Mutant: start sets the state without looking at it.
Start_Unchecked(c) ==
  /\ call[c] = "idle"
  /\ rtState' = "running"
  /\ call' = [call EXCEPT ![c] = "listening"]
  /\ waiter' = [w \in Waiters |-> "loop"]
  /\ UNCHANGED <<triggered, forced, guard>>

\* Under the state lock; then the background tasks are spawned.
Start(c) ==
  /\ call[c] = "idle"
  /\ \/ /\ rtState = "initializing"
        /\ rtState' = "running"
        /\ call' = [call EXCEPT ![c] = "listening"]
        /\ waiter' = [w \in Waiters |-> "loop"]
     \/ /\ rtState # "initializing"
        /\ call' = [call EXCEPT ![c] = "refused"]
        /\ UNCHANGED <<rtState, waiter>>
  /\ UNCHANGED <<triggered, forced, guard>>

\* trigger: only the caller that sets the flag goes on to notify.
Trigger(c) ==
  /\ triggered' = TRUE
  /\ call' = [call EXCEPT ![c] = IF triggered THEN "locking" ELSE "notifying"]

Shutdown(c) ==
  /\ call[c] = "idle"
  /\ Trigger(c)
  /\ UNCHANGED <<rtState, forced, guard, waiter>>

\* SIGTERM, or the first SIGINT, reaches the listener.
Terminate(c) ==
  /\ call[c] = "listening"
  /\ waiter' = [waiter EXCEPT !["listener"] = "off"]
  /\ Trigger(c)
  /\ UNCHANGED <<rtState, forced, guard>>

\* SIGINT when the shutdown was already triggered.
InterruptAgain(c) ==
  /\ call[c] = "listening"
  /\ triggered
  /\ ForceShutdown([waiter EXCEPT !["listener"] = "off"])
  /\ call' = [call EXCEPT ![c] = "locking"]
  /\ UNCHANGED <<rtState, triggered, guard>>

Notify(c) ==
  /\ call[c] = "notifying"
  /\ waiter' = NotifyWaiters(waiter)
  /\ call' = [call EXCEPT ![c] = "locking"]
  /\ UNCHANGED <<rtState, triggered, forced, guard>>

\* BackgroundTasks::drop. A task in the middle of a step finishes that step.
Aborted(c, ws) == IF c \in Starters THEN [w \in Waiters |-> "off"] ELSE ws

\* transition: the moves it allows, staying included.
ValidTransition(from, to) ==
  \/ from = to
  \/ <<from, to>> \in {<<"initializing", "running">>, <<"running", "shutting_down">>,
                       <<"initializing", "shutting_down">>, <<"shutting_down", "stopped">>}

\* An invalid transition makes the caller return Err.
BeginDrain(c) ==
  LET valid == ValidTransition(rtState, "shutting_down")
  IN /\ rtState' = IF valid THEN "shutting_down" ELSE rtState
     /\ guard' = IF valid THEN c ELSE NoCaller
     /\ call' = [call EXCEPT ![c] = IF valid THEN "draining" ELSE "err"]
     /\ waiter' = IF valid THEN waiter ELSE Aborted(c, waiter)

\* Mutant: the state is not looked at again once the lock is held.
AcquireLock_NoRecheck(c) ==
  /\ call[c] = "locking"
  /\ guard = NoCaller
  /\ BeginDrain(c)
  /\ UNCHANGED <<triggered, forced>>

\* shutdown_inner up to the drain: another caller may have finished already.
AcquireLock(c) ==
  /\ call[c] = "locking"
  /\ guard = NoCaller
  /\ \/ /\ rtState = "stopped"
        /\ call' = [call EXCEPT ![c] = "ok"]
        /\ waiter' = Aborted(c, waiter)
        /\ UNCHANGED <<rtState, guard>>
     \/ rtState # "stopped" /\ BeginDrain(c)
  /\ UNCHANGED <<triggered, forced>>

\* The drain ended, or its timeout passed, which forces the shutdown.
EndDrain(c) ==
  LET valid == ValidTransition(rtState, "stopped")
  IN /\ call[c] = "draining"
     /\ ForceShutdown(Aborted(c, waiter)) \/ (UNCHANGED forced /\ waiter' = Aborted(c, waiter))
     /\ rtState' = IF valid THEN "stopped" ELSE rtState
     /\ call' = [call EXCEPT ![c] = IF valid THEN "ok" ELSE "err"]
     /\ guard' = NoCaller
     /\ UNCHANGED triggered

\* The future of a caller is dropped while it waits, with what it holds.
DropCall(c) ==
  /\ call[c] \in InProgress \ {"notifying"}
  /\ guard' = IF guard = c THEN NoCaller ELSE guard
  /\ call' = [call EXCEPT ![c] = "dropped"]
  /\ waiter' = Aborted(c, waiter)
  /\ UNCHANGED <<rtState, triggered, forced>>

-----------------------------------------------------------------------------

WaiterStep(w) == Register(w) \/ CheckFlag(w) \/ WaitReturns(w)
CallerStep(c) == Notify(c) \/ AcquireLock(c) \/ EndDrain(c)

RuntimeNext ==
  \/ \E w \in Waiters : WaiterStep(w) \/ OtherBranch(w)
  \/ ForceDeadline
  \/ \E c \in Starters : Start(c) \/ Terminate(c) \/ InterruptAgain(c)
  \/ \E c \in Stoppers : Shutdown(c)
  \/ \E c \in Callers : CallerStep(c) \/ DropCall(c)

\* The executor runs every task that can run; tokio's mutex is first come,
\* first served, and each caller takes it once. Signals are never assumed.
RuntimeFairness ==
  /\ \A w \in Waiters : WF_runtimeVars(WaiterStep(w))
  /\ \A c \in Callers : WF_runtimeVars(CallerStep(c))

RuntimeSpec == RuntimeInit /\ [][RuntimeNext]_runtimeVars /\ RuntimeFairness

-----------------------------------------------------------------------------
(* Properties *)

(***************************************************************************)
(* However shutdown calls, the start they end and dropped calls interleave *)
(* no caller meets an invalid transition, and Ok means the node is stopped.*)
(***************************************************************************)
ShutdownsSucceed ==
  \A c \in Callers : call[c] # "err" /\ (call[c] = "ok" => rtState = "stopped")

(***************************************************************************)
(* One start at a time owns the node, and no background task outlives the  *)
(* start that spawned it, whether that start returned or was dropped.      *)
(***************************************************************************)
StartedOnce ==
  /\ Cardinality({c \in Starters : call[c] \in InProgress}) <= 1
  /\ (\A c \in Starters : call[c] \notin InProgress) => \A w \in Waiters : waiter[w] = "off"

(***************************************************************************)
(* Starts and shutdowns, concurrent, repeated, signalled or dropped: none  *)
(* fails, none starts the node twice, none leaves a task behind.           *)
(***************************************************************************)
RuntimeSafe == RuntimeTypeOK /\ ShutdownsSucceed /\ StartedOnce

(***************************************************************************)
(* Once the shutdown is triggered, every start and every shutdown returns: *)
(* no waiter misses the notification, and the lock of a dropped caller     *)
(* passes to the next one.                                                 *)
(***************************************************************************)
CallersReturn == triggered ~> \A c \in Callers : call[c] \notin InProgress
=============================================================================
