------------------------------ MODULE ReviewRun ------------------------------
(***************************************************************************)
(* The resumable review of changed files (daf-review): run_review takes    *)
(* the lock of a state directory, loads and checks the journal of earlier  *)
(* runs, and has one specialist after the other ask the provider. Every    *)
(* attempt is saved before the provider is called. A run may end at any    *)
(* point: it crashes, a save fails, or the provider does not answer.       *)
(*                                                                         *)
(* What the fingerprint covers (changed files, provider and options) is a  *)
(* number, 0 for a repository without changes. Findings are left out: an   *)
(* output passes validate_output or does not.                              *)
(***************************************************************************)
EXTENDS Naturals, Sequences, SequencesExt, FiniteSets, FiniteSetsExt

CONSTANTS
  RoleOrder,      \* the specialists, in the order the plan runs them
  ReviewProcs,    \* processes that may run a review on the state directory
  MaxRetries,     \* options.max_retries
  MaxEvents,      \* bound on the events of one provider stream
  MaxReviewRuns,  \* bound on calls of run_review
  MaxEdits,       \* bound on changes of what is reviewed
  NoJournal, Free

ASSUME ReviewAssumption ==
  /\ MaxRetries \in Nat /\ MaxEvents \in Nat
  /\ RoleOrder \in Seq(ToSet(RoleOrder))
  /\ \A i, j \in DOMAIN RoleOrder : RoleOrder[i] = RoleOrder[j] => i = j
  /\ Free \notin ReviewProcs

VARIABLES
  journal,      \* state.json of the state directory, or NoJournal
  stateLock,    \* the process that holds the lock file, or Free
  reviewed,     \* what a snapshot taken now would capture
  review,       \* review[p]: the run of process p
  edits, runsMade,
  calls,        \* history: provider executions begun, per role
  inDoubt,      \* history: the run whose call of a role nobody knows the end of, or 0
  answered,     \* history: the roles that answered well, with what they reviewed
  reports       \* history: reports returned to a caller

reviewVars == <<journal, stateLock, reviewed, review, edits, runsMade,
                calls, inDoubt, answered, reports>>

Roles == ToSet(RoleOrder)

(***************************************************************************)
(* parse_codex_events: the provider prints events, one JSON object a line. *)
(* "message" carries a final answer that passes validation, "chatter" one  *)
(* that is JSON but does not, "prose" one that is not JSON at all.         *)
(***************************************************************************)
ProviderEvents == {"completed", "message", "chatter", "prose", "failed", "error", "garbage"}

CompletedTurns(events) == {i \in DOMAIN events : events[i] = "completed"}

\* The last text is the answer.
FinalResponse(events) ==
  LET texts == {i \in DOMAIN events : events[i] \in {"message", "chatter", "prose"}}
  IN IF texts = {} THEN "none"
     ELSE CASE events[Max(texts)] = "message" -> "good"
            [] events[Max(texts)] = "chatter" -> "bad"
            [] OTHER                          -> "none"

\* It counts if one turn was completed and no error reported.
ParseCodexEvents(events) ==
  [output  |-> FinalResponse(events),
   error   |-> \/ {"failed", "error", "garbage"} \cap ToSet(events) # {}
               \/ Cardinality(CompletedTurns(events)) # 1
               \/ FinalResponse(events) = "none",
   unknown |-> {"completed", "failed"} \cap ToSet(events) = {}]

\* CodexProvider::execute: the process cannot be started, or what it printed
\* is parsed; a bad exit, an I/O error or its own deadline is one more error.
Responses ==
  {[output |-> "none", error |-> TRUE, unknown |-> FALSE]} \cup
  UNION {LET parsed == ParseCodexEvents(s)
         IN {parsed, [parsed EXCEPT !.error = TRUE]}
         : s \in BoundedSeq(ProviderEvents, MaxEvents)}

\* What run records of a response.
StatusOf(response) ==
  IF response.error THEN IF response.unknown THEN "interrupted" ELSE "failed"
  ELSE IF response.output = "good" THEN "succeeded" ELSE "invalid"

(***************************************************************************)
(* The journal. An attempt's number is its place among the role's own.     *)
(***************************************************************************)
FreshState(f) ==
  [fingerprint |-> f, attempts |-> [r \in Roles |-> <<>>],
   outputs |-> {}, completed |-> [r \in Roles |-> 0]]

Statuses == {"running", "succeeded", "invalid", "failed", "interrupted"}

ReviewStates ==
  [fingerprint : Nat, attempts : [Roles -> Seq(Statuses)], outputs : SUBSET Roles,
   completed : [Roles -> Nat]]

ASSUME JournalAssumption == NoJournal \notin ReviewStates

Successes(s, r) == {i \in DOMAIN s.attempts[r] : s.attempts[r][i] = "succeeded"}
Succeeded(s, r) == Cardinality(Successes(s, r))

\* The checks run_review makes of a journal it loads.
Consistent(s) ==
  \A r \in Roles :
    /\ Len(s.attempts[r]) <= MaxRetries + 1
    /\ \A i \in DOMAIN s.attempts[r] : s.attempts[r][i] \in Statuses
    /\ Succeeded(s, r) > 0 => r \in s.outputs
    /\ s.completed[r] > 0 => s.completed[r] = 1 /\ Succeeded(s, r) = 1
    /\ s.completed[r] > 0 <=> r \in s.outputs

SameFingerprint_Ignored(s, f) == TRUE
SameFingerprint(s, f) == s.fingerprint = f

\* A run that finds an attempt still "running" knows its process has ended.
Recovered(s) ==
  [s EXCEPT !.attempts = [r \in Roles |->
     [i \in DOMAIN s.attempts[r] |->
        IF s.attempts[r][i] = "running" THEN "interrupted" ELSE s.attempts[r][i]]]]

\* Some role without a result has an attempt of unknown outcome.
OutcomeUnknown(s) ==
  \E r \in Roles \ s.outputs : "interrupted" \in ToSet(s.attempts[r])

\* save replaces the file atomically. It may fail, before or after the
\* replacement (the directory is synchronized last).
CheckpointFails(s) == journal' \in {journal, s}
Save(s, ok) == IF ok THEN journal' = s ELSE CheckpointFails(s)

Idle == [pc |-> "idle"]

ReviewInit ==
  /\ journal = NoJournal
  /\ stateLock = Free
  /\ reviewed \in {0, 1}
  /\ review = [p \in ReviewProcs |-> Idle]
  /\ edits = 0 /\ runsMade = 0
  /\ calls = [r \in Roles |-> 0]
  /\ inDoubt = [r \in Roles |-> 0]
  /\ answered = {}
  /\ reports = {}

LockFree_Ignored(p) == TRUE
LockFree(p) == stateLock = Free

Returned(p) == /\ review' = [review EXCEPT ![p] = Idle]
               /\ stateLock' = Free

\* run_review up to the first worker. A held lock, a changed fingerprint and
\* an inconsistent journal end it before it changes anything.
RunReview(p, allowUnknownRetry) ==
  LET loaded == IF journal = NoJournal THEN FreshState(reviewed) ELSE journal
      s      == Recovered(loaded)
  IN
  /\ review[p] = Idle /\ LockFree(p)
  /\ runsMade < MaxReviewRuns
  /\ SameFingerprint(loaded, reviewed) /\ Consistent(loaded)
  /\ runsMade' = runsMade + 1
  /\ \E ok \in BOOLEAN :
       /\ Save(s, ok)
       /\ IF ~ok \/ (~allowUnknownRetry /\ OutcomeUnknown(s)) \/ reviewed = 0
          THEN /\ Returned(p)
               /\ reports' = IF ok /\ reviewed = 0 /\ (allowUnknownRetry \/ ~OutcomeUnknown(s))
                             THEN reports \cup {[of |-> reviewed, now |-> reviewed, state |-> s]}
                             ELSE reports
          ELSE /\ stateLock' = p
               /\ review' = [review EXCEPT ![p] =
                    [pc |-> "next", allow |-> allowUnknownRetry, number |-> runsMade',
                     snapshot |-> reviewed, state |-> s, todo |-> RoleOrder, failed |-> FALSE]]
               /\ UNCHANGED reports
  /\ UNCHANGED <<reviewed, edits, calls, inDoubt, answered>>

Working(p, pc) == review[p].pc = pc
WorkingOn(p) == Head(review[p].todo)

\* The worker of a role goes on, or ends: its phase succeeded, or failed.
WorkerAt(w, pc, s) == [w EXCEPT !.pc = pc, !.state = s]
WorkerDone(w, s, failed) ==
  [w EXCEPT !.pc = "next", !.state = s, !.todo = Tail(@), !.failed = @ \/ failed]

WorkerMoves(p, pc, s) == review' = [review EXCEPT ![p] = WorkerAt(review[p], pc, s)]
WorkerEnds(p, s, failed) == review' = [review EXCEPT ![p] = WorkerDone(review[p], s, failed)]

Pushed(s, r) == [s EXCEPT !.attempts[r] = Append(@, "running")]

\* ReviewWorker::run at the head of its loop: a cached result, a spent
\* budget, or one more attempt, saved before the provider is called.
NextAttempt(p) ==
  /\ Working(p, "next") /\ review[p].todo # <<>>
  /\ LET r == WorkingOn(p)
         s == review[p].state
         pushed == Pushed(s, r)
     IN IF r \in s.outputs \/ Len(s.attempts[r]) > MaxRetries
        THEN /\ WorkerEnds(p, s, r \notin s.outputs)
             /\ UNCHANGED <<journal, calls, inDoubt>>
        ELSE \E ok \in BOOLEAN :
             /\ Save(pushed, ok)
             /\ IF ok THEN /\ WorkerMoves(p, "calling", pushed)
                           /\ calls' = [calls EXCEPT ![r] = @ + 1]
                           /\ inDoubt' = [inDoubt EXCEPT ![r] = review[p].number]
                ELSE /\ WorkerEnds(p, pushed, TRUE)
                     /\ UNCHANGED <<calls, inDoubt>>
  /\ UNCHANGED <<stateLock, reviewed, edits, runsMade, answered, reports>>

Settled_KeepsStatus(s, r, status) ==
  IF status = "succeeded"
  THEN [s EXCEPT !.outputs = @ \cup {r}, !.completed[r] = @ + 1]
  ELSE [s EXCEPT !.attempts[r][Len(s.attempts[r])] = status]

Settled(s, r, status) ==
  LET marked == [s EXCEPT !.attempts[r][Len(s.attempts[r])] = status]
  IN IF status = "succeeded"
     THEN [marked EXCEPT !.outputs = @ \cup {r}, !.completed[r] = @ + 1]
     ELSE marked

TriedAgain_Any(status) == status # "succeeded"

\* Only a known failure is tried again in the same run.
TriedAgain(status) == status \in {"invalid", "failed"}

\* Records an outcome; the second save of an answer.
SettleAttempt(p, status) ==
  LET r == WorkingOn(p)
      s == Settled(review[p].state, r, status)
  IN \E ok \in BOOLEAN :
       /\ Save(s, ok)
       /\ IF ok /\ TriedAgain(status)
          THEN WorkerMoves(p, "next", s)
          ELSE WorkerEnds(p, s, ~ok \/ status # "succeeded")

\* The provider answers. The first save keeps the receipt: if it fails the
\* attempt stays "running".
Answer(p, response) ==
  LET r == WorkingOn(p) IN
  /\ Working(p, "calling")
  /\ inDoubt' = [inDoubt EXCEPT ![r] = IF response.unknown THEN @ ELSE 0]
  /\ answered' = IF StatusOf(response) = "succeeded"
                 THEN answered \cup {<<r, review[p].snapshot>>} ELSE answered
  /\ \/ CheckpointFails(review[p].state) /\ WorkerEnds(p, review[p].state, TRUE)
     \/ SettleAttempt(p, StatusOf(response))
  /\ UNCHANGED <<stateLock, reviewed, edits, runsMade, calls, reports>>

\* tokio::time::timeout around the call.
ProviderDeadline(p) ==
  /\ Working(p, "calling")
  /\ SettleAttempt(p, "interrupted")
  /\ UNCHANGED <<stateLock, reviewed, edits, runsMade, calls, inDoubt, answered, reports>>

UnchangedSince(p) == reviewed = review[p].snapshot

\* The plan has ended: no report if a phase failed, or if the repository or
\* the provider is no longer the one the run started with.
FinishReview(p) ==
  /\ Working(p, "next") /\ review[p].todo = <<>>
  /\ reports' = IF ~review[p].failed /\ UnchangedSince(p)
                THEN reports \cup {[of |-> review[p].snapshot, now |-> reviewed,
                                    state |-> review[p].state]}
                ELSE reports
  /\ Returned(p)
  /\ UNCHANGED <<journal, reviewed, edits, runsMade, calls, inDoubt, answered>>

\* The process ends: the operating system releases its lock.
ReviewCrash(p) ==
  /\ review[p] # Idle
  /\ Returned(p)
  /\ UNCHANGED <<journal, reviewed, edits, runsMade, calls, inDoubt, answered, reports>>

\* Somebody edits the repository, or changes the provider.
Edit ==
  /\ edits < MaxEdits
  /\ edits' = edits + 1
  /\ reviewed' \in {0, 1, 2} \ {reviewed}
  /\ UNCHANGED <<journal, stateLock, review, runsMade, calls, inDoubt, answered, reports>>

ReviewNext ==
  \/ \E p \in ReviewProcs :
       \/ \E allow \in BOOLEAN : RunReview(p, allow)
       \/ NextAttempt(p)
       \/ \E response \in Responses : Answer(p, response)
       \/ ProviderDeadline(p)
       \/ FinishReview(p)
       \/ ReviewCrash(p)
  \/ Edit

ReviewSpec == ReviewInit /\ [][ReviewNext]_reviewVars

(***************************************************************************)
(* Properties                                                              *)
(***************************************************************************)

\* "Retries remain bounded across restarts" (docs/CHANGED-FILE-REVIEW.md): in
\* all runs on a state directory together, crashed ones included, the provider
\* is called at most max_retries + 1 times for a role, each call under an
\* attempt the journal already holds.
BudgetHonoured ==
  \A r \in Roles :
    /\ calls[r] <= MaxRetries + 1
    /\ calls[r] > 0 => journal # NoJournal /\ calls[r] <= Len(journal.attempts[r])

\* A role whose last call may have gone through unrecorded (deadline, crash,
\* unfinished stream) is asked again only by a later run that was given
\* allow_unknown_retry.
NoSilentRetry ==
  [][\A r \in Roles : calls'[r] > calls[r] /\ inDoubt[r] # 0 =>
       \E p \in ReviewProcs :
         /\ review'[p].pc = "calling" /\ review[p].pc = "next"
         /\ review[p].allow /\ review[p].number > inDoubt[r]]_reviewVars

\* A report speaks of what is there when it is returned, and every specialist
\* has answered about exactly that, in this run or in an earlier one.
ReportHonest ==
  \A rep \in reports :
    /\ rep.of = rep.now
    /\ rep.of # 0 => \A r \in Roles : <<r, rep.of>> \in answered /\ Succeeded(rep.state, r) = 1

\* Whatever moment a run ends at, the journal it leaves passes the checks of
\* the next one: a review can always be resumed.
JournalLoads == journal # NoJournal => Consistent(journal)

(***************************************************************************)
(* Across runs, crashes and edits the provider is asked within the budget, *)
(* in doubt only when allowed, and reported on as it answered.             *)
(***************************************************************************)
ReviewDisciplined == [](BudgetHonoured /\ ReportHonest /\ JournalLoads) /\ NoSilentRetry
=============================================================================
