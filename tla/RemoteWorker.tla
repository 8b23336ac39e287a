---------------------------- MODULE RemoteWorker ----------------------------
(***************************************************************************)
(* The remote worker and its clients (crates/daf-runtime/src/remote.rs)    *)
(* over the durable ledger: every session of RemoteWorker::run is a caller *)
(* of DurableLedger::execute_with_dependencies through                     *)
(* DurableTaskExecutor.  Connections, frames, credentials and tasks are    *)
(* abstracted to who talks to whom and what is asked; sessions that time   *)
(* out or are aborted drop the ledger call at the await it is at.          *)
(***************************************************************************)
EXTENDS DurableLedger

CONSTANTS
  Clients,       \* callers of RemoteClient::submit
  Credentials,   \* credentials they present
  Verify,        \* CredentialVerifier::verify: a principal, or None
  Authorize,     \* CredentialVerifier::authorize: allowed <<principal, request>>
  MaxSessions    \* RemoteWorkerConfig::max_sessions

ASSUME VerifyAssumption == Verify \in [Credentials -> Principals \cup {None}]
ASSUME MaxSessionsAssumption == MaxSessions \in Nat \ {0}
ASSUME ClientsAssumption == None \notin Clients

VARIABLES
  worker,     \* "up", "draining" (abort_all, joining), "stopped", "failed" (accept error)
  phase,      \* where each session of the JoinSet is
  work,       \* the request each session took from its connection
  peer,       \* the client at the other end of each session's connection
  answer,     \* what a session is about to reply
  link,       \* each client's connection
  ask,        \* what each client has submitted on it
  reply,      \* the response frame in the connection
  received    \* history: every Ok(result) returned by submit

workerVars == <<worker, phase, work, peer, answer, link, ask, reply, received>>
systemVars == <<ledgerVars, workerVars>>

Ask == [cred : Credentials, req : Requests]
Rejected == [rejected |-> TRUE]      \* Response { result: Err(_) }
Live == {"read", "execute", "reply"}

WorkerTypeOK ==
  /\ TypeOK
  /\ worker \in {"up", "draining", "stopped", "failed"}
  /\ phase \in [Sessions -> Live \cup {"free", "done"}]
  /\ work \in [Sessions -> Ask \cup {None}]
  /\ peer \in [Sessions -> Clients \cup {None}]
  /\ answer \in [Sessions -> Record \cup {None, Rejected}]
  /\ link \in [Clients -> {"none", "queued", "served", "closed"}]
  /\ ask \in [Clients -> Ask \cup {None}]
  /\ reply \in [Clients -> Record \cup {None, Rejected}]
  /\ received \subseteq [ask : Ask, record : Record]

WorkerInit ==
  /\ Init
  /\ worker = "up"
  /\ phase = [s \in Sessions |-> "free"]
  /\ work = [s \in Sessions |-> None]
  /\ peer = [s \in Sessions |-> None]
  /\ answer = [s \in Sessions |-> None]
  /\ link = [c \in Clients |-> "none"]
  /\ ask = [c \in Clients |-> None]
  /\ reply = [c \in Clients |-> None]
  /\ received = {}

-----------------------------------------------------------------------------
(* RemoteClient::submit *)

\* connect and write the request; the listener's backlog takes it.
Submit(c, cred, r) ==
  /\ link[c] = "none"
  /\ worker \in {"up", "draining"}
  /\ link' = [link EXCEPT ![c] = "queued"]
  /\ ask' = [ask EXCEPT ![c] = [cred |-> cred, req |-> r]]
  /\ UNCHANGED <<ledgerVars, worker, phase, work, peer, answer, reply, received>>

\* submit returns and its connection is gone.
Hangup(c) ==
  /\ link' = [link EXCEPT ![c] = "none"]
  /\ ask' = [ask EXCEPT ![c] = None]
  /\ reply' = [reply EXCEPT ![c] = None]
  /\ peer' = [s \in Sessions |-> IF peer[s] = c THEN None ELSE peer[s]]

\* The client deadline strikes while the worker may still be executing.
ClientTimeout(c) ==
  /\ link[c] \in {"queued", "served"}
  /\ Hangup(c)
  /\ UNCHANGED <<ledgerVars, worker, phase, work, answer, received>>

\* The worker closed the connection: a result, a rejection or no reply.
ClientReads(c) ==
  /\ link[c] = "closed"
  /\ received' = IF reply[c] \in {None, Rejected} THEN received
                 ELSE received \cup {[ask |-> ask[c], record |-> reply[c]]}
  /\ Hangup(c)
  /\ UNCHANGED <<ledgerVars, worker, phase, work, answer>>

-----------------------------------------------------------------------------
(* Sessions *)

\* The session's connection is closed with response r in it, or none.
CloseWith(s, r) ==
  /\ phase' = [phase EXCEPT ![s] = "done"]
  /\ work' = [work EXCEPT ![s] = None]
  /\ answer' = [answer EXCEPT ![s] = None]
  /\ peer' = [peer EXCEPT ![s] = None]
  /\ link' = [c \in Clients |-> IF c = peer[s] THEN "closed" ELSE link[c]]
  /\ reply' = [c \in Clients |-> IF c = peer[s] THEN r ELSE reply[c]]
  /\ UNCHANGED <<worker, ask, received>>

Accept(c, s) ==
  /\ worker = "up"
  /\ link[c] = "queued"
  /\ phase[s] = "free"
  /\ Cardinality({u \in Sessions : phase[u] # "free"}) < MaxSessions
  /\ phase' = [phase EXCEPT ![s] = "read"]
  /\ work' = [work EXCEPT ![s] = ask[c]]
  /\ peer' = [peer EXCEPT ![s] = c]
  /\ link' = [link EXCEPT ![c] = "served"]
  /\ UNCHANGED <<ledgerVars, worker, answer, ask, reply, received>>

\* Mutant: an authenticated principal may send any task.
Permitted_Authenticated(cred, r) == Verify[cred] # None

(***************************************************************************)
(* read_json, verify and authorize, and the start of executor.execute.  A  *)
(* request already sent is read also when its client has hung up.          *)
(***************************************************************************)
Permitted(cred, r) == Verify[cred] # None /\ <<Verify[cred], r>> \in Authorize

ReadRequest(s) ==
  /\ phase[s] = "read"
  /\ LET cred == work[s].cred
         r == work[s].req
     IN \/ /\ Permitted(cred, r)
           /\ Call(s, Verify[cred], r)
           /\ phase' = [phase EXCEPT ![s] = "execute"]
           /\ UNCHANGED answer
        \/ /\ ~Permitted(cred, r)
           /\ phase' = [phase EXCEPT ![s] = "reply"]
           /\ answer' = [answer EXCEPT ![s] = Rejected]
           /\ UNCHANGED ledgerVars
  /\ UNCHANGED <<worker, work, peer, link, ask, reply, received>>

\* TLS, the frame or its JSON is refused, or the peer closed.
ReadFails(s) ==
  /\ phase[s] = "read"
  /\ CloseWith(s, None)
  /\ UNCHANGED ledgerVars

\* The ledger call of the session proceeds.
Execute(s) ==
  /\ phase[s] = "execute"
  /\ Acquire(s) \/ Flushes(s) \/ HandlerReturns(s)
  /\ UNCHANGED workerVars

\* Mutant: the stored result of the task ID is replied, whoever it belongs to.
ExecuteReturns_ById(s) ==
  /\ phase[s] = "execute"
  /\ Return(s)
  /\ phase' = [phase EXCEPT ![s] = "reply"]
  /\ answer' = [answer EXCEPT ![s] =
                  IF mem.result[req[s].id] # None THEN mem.result[req[s].id] ELSE Rejected]
  /\ UNCHANGED <<worker, work, peer, link, ask, reply, received>>

\* executor.execute returned; a ledger error is replied as a rejection.
ExecuteReturns(s) ==
  /\ phase[s] = "execute"
  /\ Return(s)
  /\ phase' = [phase EXCEPT ![s] = "reply"]
  /\ answer' = [answer EXCEPT ![s] = IF pc[s] = "ok" THEN mem.result[req[s].id] ELSE Rejected]
  /\ UNCHANGED <<worker, work, peer, link, ask, reply, received>>

\* The observer, if any, has returned; write_json and close.
SendReply(s) ==
  /\ phase[s] = "reply"
  /\ CloseWith(s, answer[s])
  /\ UNCHANGED ledgerVars

\* The reply exceeds max_frame_bytes or the write fails.
ReplyFails(s) ==
  /\ phase[s] = "reply"
  /\ CloseWith(s, None)
  /\ UNCHANGED ledgerVars

\* The session future is dropped at the await it is at.
DropSession(s) ==
  /\ CloseWith(s, None)
  /\ \/ phase[s] \in {"read", "reply"} /\ UNCHANGED ledgerVars
     \/ phase[s] = "execute" /\ Cancel(s)

\* Mutant: the deadline covers the connection but not the execution.
SessionTimeout_NotExecuting(s) ==
  /\ phase[s] \in {"read", "reply"}
  /\ DropSession(s)

SessionTimeout(s) ==
  /\ phase[s] \in Live
  /\ DropSession(s)

\* Mutant: finished sessions are joined by the accept loop only.
Reap_AcceptLoop(s) ==
  /\ phase[s] = "done"
  /\ worker = "up"
  /\ phase' = [phase EXCEPT ![s] = "free"]
  /\ UNCHANGED <<ledgerVars, worker, work, peer, answer, link, ask, reply, received>>

\* join_next takes a finished session out of the JoinSet.
Reap(s) ==
  /\ phase[s] = "done"
  /\ worker # "stopped"
  /\ phase' = [phase EXCEPT ![s] = "free"]
  /\ UNCHANGED <<ledgerVars, worker, work, peer, answer, link, ask, reply, received>>

-----------------------------------------------------------------------------
(* RemoteWorker::run and the process *)

\* The listener is dropped: connections in its backlog are reset.
ResetBacklog ==
  link' = [c \in Clients |-> IF link[c] = "queued" THEN "closed" ELSE link[c]]

\* The shutdown future is ready: the loop ends and abort_all is called.
Shutdown ==
  /\ worker = "up"
  /\ worker' = "draining"
  /\ UNCHANGED <<ledgerVars, phase, work, peer, answer, link, ask, reply, received>>

\* An aborted session is dropped once it is at an await.
Abort(s) ==
  /\ worker \in {"draining", "failed"}
  /\ phase[s] \in Live
  /\ DropSession(s)

\* Mutant: run returns after abort_all without joining the sessions.
Drained_NoJoin ==
  /\ worker = "draining"
  /\ worker' = "stopped"
  /\ ResetBacklog
  /\ UNCHANGED <<ledgerVars, phase, work, peer, answer, ask, reply, received>>

\* join_next returned None: run returns Ok.
Drained ==
  /\ worker = "draining"
  /\ \A s \in Sessions : phase[s] = "free"
  /\ worker' = "stopped"
  /\ ResetBacklog
  /\ UNCHANGED <<ledgerVars, phase, work, peer, answer, ask, reply, received>>

\* accept failed: run returns Err and drops the JoinSet, which aborts all.
AcceptFails ==
  /\ worker = "up"
  /\ worker' = "failed"
  /\ ResetBacklog
  /\ UNCHANGED <<ledgerVars, phase, work, peer, answer, ask, reply, received>>

\* The process dies, or exits after a failed run.
WorkerCrash ==
  /\ Crash
  /\ worker' = "stopped"
  /\ phase' = [s \in Sessions |-> "free"]
  /\ work' = [s \in Sessions |-> None]
  /\ peer' = [s \in Sessions |-> None]
  /\ answer' = [s \in Sessions |-> None]
  /\ link' = [c \in Clients |-> IF link[c] \in {"queued", "served"} THEN "closed" ELSE link[c]]
  /\ UNCHANGED <<ask, reply, received>>

\* RemoteWorker::bind and run, over the ledger as it is.
Restart ==
  /\ worker = "stopped"
  /\ worker' = "up"
  /\ UNCHANGED <<ledgerVars, phase, work, peer, answer, link, ask, reply, received>>

-----------------------------------------------------------------------------

SessionStep(s) ==
  \/ ReadRequest(s) \/ ReadFails(s)
  \/ Execute(s) \/ ExecuteReturns(s)
  \/ SendReply(s) \/ ReplyFails(s)

WorkerNext ==
  \/ \E c \in Clients, cred \in Credentials, r \in Requests : Submit(c, cred, r)
  \/ \E c \in Clients : ClientTimeout(c) \/ ClientReads(c)
  \/ \E c \in Clients, s \in Sessions : Accept(c, s)
  \/ \E s \in Sessions : SessionStep(s) \/ SessionTimeout(s) \/ Abort(s) \/ Reap(s)
  \/ Shutdown \/ Drained \/ AcceptFails \/ WorkerCrash \/ Restart
  \/ BackgroundFlush /\ UNCHANGED workerVars

WorkerSpec == WorkerInit /\ [][WorkerNext]_systemVars

(***************************************************************************)
(* The session deadline elapses whatever the handler and the peer do, and  *)
(* the run loop is polled.  Nothing is assumed of handlers, of flushes or  *)
(* of clients.  The listener hands out its backlog in order, so no waiting *)
(* connection is passed over for ever.                                     *)
(***************************************************************************)
WorkerFairness ==
  /\ \A s \in Sessions :
       /\ WF_systemVars(SessionTimeout(s))
       /\ WF_systemVars(ExecuteReturns(s))
       /\ WF_systemVars(Reap(s))
  /\ \A c \in Clients : SF_systemVars(\E s \in Sessions : Accept(c, s))
  /\ WF_systemVars(Drained)

FairWorkerSpec == WorkerSpec /\ WorkerFairness

-----------------------------------------------------------------------------
(* Properties *)

(***************************************************************************)
(* A result that submit returned is durable, was computed for exactly the  *)
(* task submitted, and belongs to the principal of the credential it was   *)
(* submitted with: lost replies, retries, changed requests under the same  *)
(* ID, other principals and crashes never mix receipts up.                 *)
(***************************************************************************)
ReceiptsHonest ==
  \A e \in received :
    /\ disk.result[e.ask.req.id] = e.record
    /\ e.record.principal = Verify[e.ask.cred]
    /\ e.record.req = e.ask.req

(***************************************************************************)
(* Nothing reaches the ledger that the verifier did not authorize: every   *)
(* binding and result, in memory and on disk, is of an allowed pair.       *)
(***************************************************************************)
OnlyAuthorizedStored ==
  \A t \in TaskIds, v \in {mem, disk} :
    /\ v.binding[t] # None => <<v.binding[t].principal, v.binding[t].req>> \in Authorize
    /\ v.result[t] # None => <<v.result[t].principal, v.result[t].req>> \in Authorize

(***************************************************************************)
(* When run has returned from a shutdown, or the process has restarted, no *)
(* session is left in the ledger and the preparation mutex is free.        *)
(***************************************************************************)
StoppedIsQuiet ==
  worker = "stopped" => lease = None /\ \A s \in Sessions : pc[s] = "idle" /\ peer[s] = None

(***************************************************************************)
(* A connection in the backlog is accepted, or closed by a worker that     *)
(* stops: sessions that hang in a handler or on a silent peer cannot hold  *)
(* all max_sessions slots for ever.                                        *)
(***************************************************************************)
BacklogAdmitted == \A c \in Clients : link[c] = "queued" ~> link[c] # "queued"

(***************************************************************************)
(* Shutdown completes, whatever handlers, flushes and peers are doing.     *)
(***************************************************************************)
ShutdownCompletes == worker = "draining" ~> worker = "stopped"

(***************************************************************************)
(* What the worker promises in every state: honest receipts, a ledger that *)
(* holds only what was authorized, and nothing at work once run has        *)
(* returned.                                                               *)
(***************************************************************************)
WorkerSafe == WorkerTypeOK /\ ReceiptsHonest /\ OnlyAuthorizedStored /\ StoppedIsQuiet

(***************************************************************************)
(* Although handlers, flushes and peers may hang for ever, the worker      *)
(* admits its backlog and it stops.                                        *)
(***************************************************************************)
WorkerProgresses == BacklogAdmitted /\ ShutdownCompletes
=============================================================================
