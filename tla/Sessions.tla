------------------------------ MODULE Sessions ------------------------------
(***************************************************************************)
(* What two agents do over a connection: the handshake that opens it, one  *)
(* length-prefixed message each way over a stream that may break, and the  *)
(* conversations they then hold, which are forked from each other and      *)
(* merged into each other.                                                 *)
(***************************************************************************)
EXTENDS Integers, Sequences, Maps

CONSTANTS
  Sizes,         \* sizes of an encoded handshake message
  MaxHandshake,  \* MAX_HANDSHAKE_SIZE, in the same unit
  Sessions,      \* session ids a server hands out
  NoSession,     \* Uuid::nil
  ConvIds,       \* conversation ids
  Speakers,      \* agents
  MaxTurns       \* bound on the turns of one conversation

ASSUME SessionAssumption == Sizes \subseteq Nat /\ MaxHandshake \in Nat /\ MaxTurns \in Nat

VARIABLES
  client,        \* how far perform_handshake_client is, and the session it returned
  server,        \* how far the server's two calls are, and the session it granted
  toServer,      \* messages on the wire, each way
  toClient,
  broken,        \* the stream has failed
  convs          \* per conversation, its state, participants and turns

handshakeVars == <<client, server, toServer, toClient, broken>>
sessionVars == <<handshakeVars, convs>>

ConversationState == {"Active", "Paused", "Completed", "Archived"}

SessionInit ==
  /\ client = [at |-> "idle", session |-> NoSession]
  /\ server = [at |-> "waiting", session |-> NoSession]
  /\ toServer = <<>> /\ toClient = <<>> /\ broken = FALSE
  /\ convs = EmptyMap

-----------------------------------------------------------------------------
(* The handshake *)

StreamBreaks ==
  /\ ~broken /\ broken' = TRUE
  /\ UNCHANGED <<client, server, toServer, toClient, convs>>

\* encode_handshake refuses a message that is too large before anything is
\* written; a write to a broken stream fails.
ClientSends(size) ==
  /\ client.at = "idle"
  /\ IF size > MaxHandshake \/ broken
     THEN client' = [client EXCEPT !.at = "failed"] /\ UNCHANGED toServer
     ELSE /\ toServer' = Append(toServer, [size |-> size])
          /\ client' = [client EXCEPT !.at = "sent"]
  /\ UNCHANGED <<server, toClient, broken, convs>>

ServerReads ==
  /\ server.at = "waiting"
  /\ IF toServer # <<>>
     THEN server' = [server EXCEPT !.at = "asked"] /\ toServer' = Tail(toServer)
     ELSE broken /\ server' = [server EXCEPT !.at = "failed"] /\ UNCHANGED toServer
  /\ UNCHANGED <<client, toClient, broken, convs>>

\* accept(session) or reject(reason), of some size, written and flushed.
ServerAnswers(session, size) ==
  /\ server.at = "asked"
  /\ IF size > MaxHandshake \/ broken
     THEN server' = [server EXCEPT !.at = "failed"] /\ UNCHANGED toClient
     ELSE /\ toClient' = Append(toClient, [accepted |-> session # NoSession, session |-> session])
          /\ server' = [at |-> "answered", session |-> session]
  /\ UNCHANGED <<client, toServer, broken, convs>>

\* Mutant: an answer is a session.
Granted_Any(answer) == TRUE

Granted(answer) == answer.accepted

ClientReads ==
  /\ client.at = "sent"
  /\ IF toClient # <<>>
     THEN /\ client' = IF Granted(Head(toClient))
                       THEN [at |-> "open", session |-> Head(toClient).session]
                       ELSE [client EXCEPT !.at = "failed"]
          /\ toClient' = Tail(toClient)
     ELSE broken /\ client' = [client EXCEPT !.at = "failed"] /\ UNCHANGED toClient
  /\ UNCHANGED <<server, toServer, broken, convs>>

HandshakeNext ==
  \/ StreamBreaks \/ ServerReads \/ ClientReads
  \/ \E s \in Sizes : ClientSends(s) \/ \E v \in Sessions \cup {NoSession} : ServerAnswers(v, s)

-----------------------------------------------------------------------------
(* Conversations *)

NewConversation(id, who) ==
  /\ id \notin DOMAIN convs
  /\ convs' = Put(convs, id, [state |-> "Active", with |-> who, turns |-> <<>>, ended |-> FALSE])
  /\ UNCHANGED handshakeVars

AcceptsTurns(id) == convs[id].state = "Active"

\* A speaker need not be one of the participants.
AddTurn(id, a) ==
  /\ AcceptsTurns(id) /\ Len(convs[id].turns) < MaxTurns
  /\ convs' = [convs EXCEPT ![id].turns = Append(@, [by |-> a, number |-> Len(@)])]
  /\ UNCHANGED handshakeVars

Fork(id, new) ==
  /\ new \notin DOMAIN convs
  /\ convs' = Put(convs, new, [convs[id] EXCEPT !.state = "Active", !.ended = FALSE])
  /\ UNCHANGED handshakeVars

\* Mutant: the turns that come over keep the numbers they had.
Renumbered_Kept(turns, base) == turns

Renumbered(turns, base) == [i \in DOMAIN turns |-> [turns[i] EXCEPT !.number = base + i - 1]]

MergeBranches(id, other) ==
  /\ AcceptsTurns(id) /\ Len(convs[id].turns) + Len(convs[other].turns) <= MaxTurns
  /\ convs' = [convs EXCEPT
       ![id].turns = @ \o Renumbered(convs[other].turns, Len(@)),
       ![id].with = @ \cup convs[other].with]
  /\ UNCHANGED handshakeVars

\* pause asks nothing of the state; complete and archive set the end.
Becomes(id, s) ==
  /\ convs' = [convs EXCEPT ![id].state = s, ![id].ended = @ \/ s \in {"Completed", "Archived"}]
  /\ UNCHANGED handshakeVars

ResumeConversation(id) == convs[id].state = "Paused" /\ Becomes(id, "Active")

ConversationNext ==
  \/ \E id \in ConvIds : \E who \in (SUBSET Speakers) \ {{}} : NewConversation(id, who)
  \/ \E id \in DOMAIN convs :
       \/ \E a \in Speakers : AddTurn(id, a)
       \/ \E new \in ConvIds : Fork(id, new)
       \/ \E other \in DOMAIN convs \ {id} : MergeBranches(id, other)
       \/ \E s \in {"Paused", "Completed", "Archived"} : Becomes(id, s)
       \/ ResumeConversation(id)

SessionSpec == SessionInit /\ [][HandshakeNext \/ ConversationNext]_sessionVars

-----------------------------------------------------------------------------
(***************************************************************************)
(* Conversations are in the states the code declares, and their            *)
(* participants known.                                                     *)
(***************************************************************************)
SessionTypeOK ==
  \A id \in DOMAIN convs : convs[id].state \in ConversationState /\ convs[id].with \subseteq Speakers

(***************************************************************************)
(* A client that takes its handshake for successful holds the session this *)
(* server granted it, never the nil one, however the stream broke between  *)
(* the two.                                                                *)
(***************************************************************************)
SessionAgreed ==
  client.at = "open" =>
    /\ client.session # NoSession
    /\ server.at = "answered" /\ server.session = client.session

(***************************************************************************)
(* get_turn(n) finds turn n: after any turns, forks and merges, in any     *)
(* state, the turns of a conversation are numbered without gap or repeat,  *)
(* in order, from zero.                                                    *)
(***************************************************************************)
TurnsNumbered ==
  \A id \in DOMAIN convs : \A i \in DOMAIN convs[id].turns : convs[id].turns[i].number = i - 1

(***************************************************************************)
(* Client and server agree on the session they opened, and all branches of *)
(* a conversation on the numbers of their turns.                           *)
(***************************************************************************)
ConversationsAgreed == SessionTypeOK /\ SessionAgreed /\ TurnsNumbered
=============================================================================
