---------------------------- MODULE AgentInstance ----------------------------
(***************************************************************************)
(* An agent instance of the SDK: lifecycle calls that read the state under *)
(* a lock, release it, and write the state under it again; messages that   *)
(* pass through the middleware to their handler and back; tasks that hold  *)
(* one of a fixed number of slots.                                         *)
(***************************************************************************)
EXTENDS Integers, Sequences, FiniteSets

CONSTANTS
  Controllers,   \* callers of start, stop, restart, pause and resume
  Messages,      \* messages handed to process_message
  Authorized,    \* the ones that carry a valid token
  Routed,        \* the ones a handler is registered for, or a default one
  SdkTasks,      \* tasks handed to process_task
  TaskSlots,     \* max_concurrent_tasks
  Stacks,        \* configured middleware, outermost layer first
  SdkRetries,    \* max_retries of a RetryMiddleware
  InstanceRestarts    \* bound on the restarts of one behaviour

Layers == {"auth", "retry", "timeout", "metrics", "logging"}

\* The counters of one MetricsMiddleware are kept: a stack has one at most.
ASSUME SdkAssumption ==
  /\ Stacks \subseteq Seq(Layers)
  /\ \A s \in Stacks : \A d, e \in DOMAIN s : s[d] = "metrics" /\ s[e] = "metrics" => d = e
  /\ IsFiniteSet(Messages) /\ IsFiniteSet(SdkTasks)
  /\ Authorized \subseteq Messages /\ Routed \subseteq Messages
  /\ TaskSlots \in Nat \ {0} /\ SdkRetries \in Nat /\ InstanceRestarts \in Nat

VARIABLES
  instance,   \* the lifecycle state
  ctl,        \* per controller, the writes its call still has to make
  stack,      \* the middleware of this instance
  msg,        \* per message, where it is in the middleware
  invoked,    \* per message, how often its handler was called
  tasks,      \* per task, how far process_task is
  slots,      \* free task slots
  stats,      \* RuntimeStats
  metrics     \* counters of the MetricsMiddleware

instanceVars == <<instance, ctl, stack, msg, invoked, tasks, slots, stats, metrics>>

InstanceState == {"Created", "Starting", "Running", "Paused", "Stopping", "Stopped"}
MessageResults == {"ok", "retryable", "fatal"}

\* depth counts the layers entered; at says in which direction.
Call == [at : {"new", "in", "handler", "out", "done", "refused", "dropped"},
         depth : Nat, tries : Seq(Nat), result : MessageResults]
RuntimeStats == [received : Nat, processed : Nat, failed : Nat,
                 tasksCompleted : Nat, tasksFailed : Nat, restarts : Nat]

InstanceTypeOK ==
  /\ instance \in InstanceState
  /\ msg \in [Messages -> Call]
  /\ tasks \in [SdkTasks -> {"new", "running", "completed", "failed", "refused", "dropped"}]
  /\ slots \in 0..TaskSlots
  /\ stats \in RuntimeStats

InstanceInit ==
  /\ instance = "Created"
  /\ ctl = [c \in Controllers |-> <<>>]
  /\ stack \in Stacks
  /\ msg = [m \in Messages |-> [at |-> "new", depth |-> 0,
                                tries |-> [l \in DOMAIN stack |-> 0], result |-> "ok"]]
  /\ invoked = [m \in Messages |-> 0]
  /\ tasks = [t \in SdkTasks |-> "new"]
  /\ slots = TaskSlots
  /\ stats = [received |-> 0, processed |-> 0, failed |-> 0,
              tasksCompleted |-> 0, tasksFailed |-> 0, restarts |-> 0]
  /\ metrics = [total |-> 0, successful |-> 0, failed |-> 0]

-----------------------------------------------------------------------------
(* Lifecycle *)

IsTerminal(s) == s = "Stopped"

\* The writes that follow the first read of each call. A stop that finds the
\* agent stopped makes none; "restarted" and "start" are the second half of
\* restart.
StopWrites == IF IsTerminal(instance) THEN <<>> ELSE <<"Stopping", "Stopped">>

Control(c, writes) ==
  /\ ctl[c] = <<>>
  /\ ctl' = [ctl EXCEPT ![c] = writes]
  /\ UNCHANGED <<instance, stack, msg, invoked, tasks, slots, stats, metrics>>

StartAgent(c) ==
  /\ instance \in {"Created", "Stopped"}
  /\ Control(c, <<"Starting", "Running">>)

StopAgent(c) == Control(c, StopWrites)

RestartAgent(c) ==
  /\ stats.restarts < InstanceRestarts
  /\ Control(c, StopWrites \o <<"restarted", "Created", "start">>)

Pause(c) ==
  /\ instance = "Running"
  /\ Control(c, <<"Paused">>)

Resume(c) ==
  /\ instance = "Paused"
  /\ Control(c, <<"Running">>)

SetState(c) ==
  /\ ctl[c] # <<>> /\ Head(ctl[c]) \in InstanceState
  /\ instance' = Head(ctl[c])
  /\ ctl' = [ctl EXCEPT ![c] = Tail(@)]
  /\ UNCHANGED <<stack, msg, invoked, tasks, slots, stats, metrics>>

\* The rest of restart: count it, then start from what the state is by now.
RestartGoesOn(c) ==
  /\ ctl[c] # <<>> /\ Head(ctl[c]) \in {"restarted", "start"}
  /\ IF Head(ctl[c]) = "restarted"
     THEN /\ stats' = [stats EXCEPT !.restarts = @ + 1]
          /\ ctl' = [ctl EXCEPT ![c] = Tail(@)]
     ELSE /\ ctl' = [ctl EXCEPT ![c] = IF instance \in {"Created", "Stopped"}
                                       THEN <<"Starting", "Running">> ELSE <<>>]
          /\ UNCHANGED stats
  /\ UNCHANGED <<instance, stack, msg, invoked, tasks, slots, metrics>>

-----------------------------------------------------------------------------
(* Messages *)

InFlight(m) == msg[m].at \in {"in", "handler", "out"}

\* Some pattern of the registry matches, or there is a default handler.
FindMessageHandler(m) == m \in Routed

\* A message without a handler counts as processed and meets no middleware.
ProcessMessage(m) ==
  /\ msg[m].at = "new"
  /\ IF instance # "Running"
     THEN msg' = [msg EXCEPT ![m].at = "refused"] /\ UNCHANGED stats
     ELSE IF FindMessageHandler(m)
     THEN /\ msg' = [msg EXCEPT ![m].at = "in"]
          /\ stats' = [stats EXCEPT !.received = @ + 1]
     ELSE /\ msg' = [msg EXCEPT ![m].at = "done"]
          /\ stats' = [stats EXCEPT !.received = @ + 1, !.processed = @ + 1]
  /\ UNCHANGED <<instance, ctl, stack, invoked, tasks, slots, metrics>>

\* Mutant: a message whose token is wrong passes like one with a valid token.
AuthDenies_Never(m, layer) == FALSE

AuthDenies(m, layer) == layer = "auth" /\ m \notin Authorized

Enter(m) ==
  LET d == msg[m].depth + 1 IN
  /\ msg[m].at = "in" /\ d <= Len(stack)
  /\ IF AuthDenies(m, stack[d])
     THEN msg' = [msg EXCEPT ![m].at = "out", ![m].result = "fatal"]
     ELSE msg' = [msg EXCEPT ![m].depth = d, ![m].tries[d] = 0]
  /\ metrics' = IF stack[d] = "metrics" THEN [metrics EXCEPT !.total = @ + 1] ELSE metrics
  /\ UNCHANGED <<instance, ctl, stack, invoked, tasks, slots, stats>>

HandleMessage(m) ==
  /\ msg[m].at = "in" /\ msg[m].depth = Len(stack)
  /\ msg' = [msg EXCEPT ![m].at = "handler"]
  /\ invoked' = [invoked EXCEPT ![m] = @ + 1]
  /\ UNCHANGED <<instance, ctl, stack, tasks, slots, stats, metrics>>

HandlerReturns(m, r) ==
  /\ msg[m].at = "handler"
  /\ msg' = [msg EXCEPT ![m].at = "out", ![m].result = r]
  /\ UNCHANGED <<instance, ctl, stack, invoked, tasks, slots, stats, metrics>>

\* Mutant: the last permitted attempt is followed by another.
RetryAgain_OneMore(m) ==
  /\ msg[m].result = "retryable"
  /\ msg[m].tries[msg[m].depth] <= SdkRetries

RetryAgain(m) ==
  /\ msg[m].result = "retryable"
  /\ msg[m].tries[msg[m].depth] < SdkRetries

\* The innermost layer entered sees the result: a retry may turn it round.
Leave(m) ==
  LET d == msg[m].depth IN
  /\ msg[m].at = "out" /\ d > 0
  /\ IF stack[d] = "retry" /\ RetryAgain(m)
     THEN msg' = [msg EXCEPT ![m].at = "in", ![m].tries[d] = @ + 1]
     ELSE msg' = [msg EXCEPT ![m].depth = d - 1]
  /\ metrics' = CASE stack[d] # "metrics" -> metrics
                  [] stack[d] = "metrics" /\ msg[m].result = "ok" ->
                       [metrics EXCEPT !.successful = @ + 1]
                  [] OTHER -> [metrics EXCEPT !.failed = @ + 1]
  /\ UNCHANGED <<instance, ctl, stack, invoked, tasks, slots, stats>>

\* The deadline of a timeout layer drops everything inside it, which may be
\* waiting in the handler or between two attempts.
MessageTimeout(m, d) ==
  /\ msg[m].at \in {"in", "handler"} /\ d <= msg[m].depth /\ stack[d] = "timeout"
  /\ msg' = [msg EXCEPT ![m].at = "out", ![m].depth = d, ![m].result = "retryable"]
  /\ UNCHANGED <<instance, ctl, stack, invoked, tasks, slots, stats, metrics>>

Reply(m) ==
  /\ msg[m].at = "out" /\ msg[m].depth = 0
  /\ msg' = [msg EXCEPT ![m].at = "done"]
  /\ stats' = IF msg[m].result = "ok" THEN [stats EXCEPT !.processed = @ + 1]
              ELSE [stats EXCEPT !.failed = @ + 1]
  /\ UNCHANGED <<instance, ctl, stack, invoked, tasks, slots, metrics>>

\* The caller of process_message goes away at an await.
MessageDropped(m) ==
  /\ msg[m].at \in {"in", "handler"}
  /\ msg' = [msg EXCEPT ![m].at = "dropped"]
  /\ UNCHANGED <<instance, ctl, stack, invoked, tasks, slots, stats, metrics>>

-----------------------------------------------------------------------------
(* Tasks *)

\* Every refusal after the slot is taken (no handler, a timeout of zero)
\* gives the slot back and counts as a failure.
ProcessTask(t) ==
  /\ tasks[t] = "new"
  /\ IF instance # "Running" \/ slots = 0
     THEN tasks' = [tasks EXCEPT ![t] = "refused"] /\ UNCHANGED <<slots, stats>>
     ELSE \/ /\ tasks' = [tasks EXCEPT ![t] = "running"]
             /\ slots' = slots - 1
             /\ UNCHANGED stats
          \/ /\ tasks' = [tasks EXCEPT ![t] = "failed"]
             /\ stats' = [stats EXCEPT !.tasksFailed = @ + 1]
             /\ UNCHANGED slots
  /\ UNCHANGED <<instance, ctl, stack, msg, invoked, metrics>>

\* An error, an unsuccessful result and the deadline of the task all fail it.
TaskReturns(t, success) ==
  /\ tasks[t] = "running"
  /\ tasks' = [tasks EXCEPT ![t] = IF success THEN "completed" ELSE "failed"]
  /\ stats' = IF success THEN [stats EXCEPT !.tasksCompleted = @ + 1]
              ELSE [stats EXCEPT !.tasksFailed = @ + 1]
  /\ slots' = slots + 1
  /\ UNCHANGED <<instance, ctl, stack, msg, invoked, metrics>>

\* Mutant: a dropped caller keeps its slot.
TaskDropped_KeepsSlot(t) ==
  /\ tasks[t] = "running"
  /\ tasks' = [tasks EXCEPT ![t] = "dropped"]
  /\ UNCHANGED <<instance, ctl, stack, msg, invoked, slots, stats, metrics>>

TaskDropped(t) ==
  /\ tasks[t] = "running"
  /\ tasks' = [tasks EXCEPT ![t] = "dropped"]
  /\ slots' = slots + 1
  /\ UNCHANGED <<instance, ctl, stack, msg, invoked, stats, metrics>>

-----------------------------------------------------------------------------
ControlNext ==
  \E c \in Controllers :
    \/ StartAgent(c) \/ StopAgent(c) \/ RestartAgent(c) \/ Pause(c) \/ Resume(c)
    \/ SetState(c) \/ RestartGoesOn(c)

MessageNext ==
  \E m \in Messages :
    \/ ProcessMessage(m) \/ Enter(m) \/ HandleMessage(m)
    \/ \E r \in MessageResults : HandlerReturns(m, r)
    \/ Leave(m)
    \/ \E d \in DOMAIN stack : MessageTimeout(m, d)
    \/ Reply(m) \/ MessageDropped(m)

TaskNext ==
  \E t \in SdkTasks :
    \/ ProcessTask(t)
    \/ \E success \in BOOLEAN : TaskReturns(t, success)
    \/ TaskDropped(t)

InstanceNext == ControlNext \/ MessageNext \/ TaskNext

InstanceSpec == InstanceInit /\ [][InstanceNext]_instanceVars

-----------------------------------------------------------------------------
(***************************************************************************)
(* A message that the auth layer denies reaches no handler, whatever is    *)
(* configured around that layer and however often the message is retried.  *)
(***************************************************************************)
DeniedNeverHandled ==
  (\E d \in DOMAIN stack : stack[d] = "auth") =>
    \A m \in Messages \ Authorized : invoked[m] = 0

(***************************************************************************)
(* Nothing leaks: every slot is free or held by a running task, every      *)
(* message received is processed, failed, in flight or dropped, every task *)
(* is accounted for, and a metrics layer that no timeout can cut off has   *)
(* settled every attempt that is not still inside it.                      *)
(***************************************************************************)
AccountsBalance ==
  /\ slots + Cardinality({t \in SdkTasks : tasks[t] = "running"}) = TaskSlots
  /\ stats.received = stats.processed + stats.failed
       + Cardinality({m \in Messages : InFlight(m) \/ msg[m].at = "dropped"})
  /\ stats.tasksCompleted + stats.tasksFailed =
       Cardinality({t \in SdkTasks : tasks[t] \in {"completed", "failed"}})
  /\ \A k \in DOMAIN stack :
       stack[k] = "metrics" /\ (\A d \in 1..k : stack[d] # "timeout") =>
         metrics.total = metrics.successful + metrics.failed
           + Cardinality({m \in Messages : /\ InFlight(m) \/ msg[m].at = "dropped"
                                           /\ msg[m].depth >= k})

(***************************************************************************)
(* No handler is called more often than the retries around it allow,       *)
(* wherever a timeout or a denial cut an attempt off.                      *)
(***************************************************************************)
RetriesBounded ==
  \A m \in Messages : invoked[m] <=
    (SdkRetries + 1) ^ Cardinality({d \in DOMAIN stack : stack[d] = "retry"})

(***************************************************************************)
(* The documented phases: a stopped agent leaves Stopped only to start or  *)
(* restart, it is never found Paused or Running again by itself.           *)
(***************************************************************************)
StoppedUntilStarted ==
  [][instance = "Stopped" => instance' \in {"Stopped", "Created", "Starting"}]_instanceVars

(***************************************************************************)
(* Slots and counters of an agent follow its messages and tasks, and no    *)
(* layer of its stack lets through what another one denies.                *)
(***************************************************************************)
InstanceSound == InstanceTypeOK /\ AccountsBalance /\ DeniedNeverHandled
=============================================================================
