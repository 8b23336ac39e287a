----------------------------- MODULE Transports -----------------------------
(***************************************************************************)
(* The transport crate below DDAL: an in-process connection and its two    *)
(* ends, the bus on which two agents meet, Unix listeners and the socket   *)
(* files they leave, and the connection pool.                              *)
(***************************************************************************)
EXTENDS Integers, Sequences, FiniteSets, SequencesExt, Maps

CONSTANTS
  InprocCapacity, \* messages a direction holds
  MaxWritten,     \* bound on the bytes written into one direction
  BusAgents,      \* agents that connect over the bus
  MaxConnects,    \* bound on the pairs of ends created
  Listeners,      \* Unix listeners, all of one path
  MaxInodes,      \* bound on the socket files created
  PoolSlots,      \* max_connections
  MaxPooled       \* bound on the connections ever put into the pool

ASSUME PoolSlotsAssumption == PoolSlots \in Nat

VARIABLES
  ends,           \* per end, its state, sender, leftover bytes
  flow,           \* per end, the messages on their way to it
  sentBytes,      \* history: per end, the bytes it wrote
  gotBytes,       \* history: per end, the bytes it read
  pendingEnd,     \* per pair of agents, the pair of ends with one unclaimed
  claims,         \* per pair of ends, who has claimed its ends, and for which agents
  socketFile,     \* the inode at the path, 0: none
  inodes,         \* inodes used so far
  listener,       \* per listener, its inode and what it is doing
  unlinked,       \* history: inodes removed by a drop: <<inode, listener's own, last at its check>>
  pooled,         \* the connections in the pool, oldest first
  usable,         \* connections that are alive, not expired and not idle
  handedOut,      \* the connection get returned last, if any
  putCount,       \* connections put so far
  nextIndex       \* next, modulo the size of the pool

inprocVars == <<ends, flow, sentBytes, gotBytes>>
meetingVars == <<pendingEnd, claims>>
listenerVars == <<socketFile, inodes, listener, unlinked>>
connPoolVars == <<pooled, usable, handedOut, putCount, nextIndex>>
transportVars == <<inprocVars, meetingVars, listenerVars, connPoolVars>>

EndNames == {"a", "b"}
Other(e) == IF e = "a" THEN "b" ELSE "a"
Idle == [inode |-> 0, step |-> "none", seen |-> 0]

TransportInit ==
  /\ ends = [e \in EndNames |->
               [state |-> "Connected", tx |-> TRUE, rx |-> TRUE, left |-> <<>>, quit |-> FALSE]]
  /\ flow = [e \in EndNames |-> <<>>]
  /\ sentBytes = [e \in EndNames |-> 0] /\ gotBytes = [e \in EndNames |-> <<>>]
  /\ pendingEnd = EmptyMap /\ claims = <<>>
  /\ socketFile = 0 /\ inodes = 0 /\ listener = [l \in Listeners |-> Idle] /\ unlinked = {}
  /\ pooled = <<>> /\ usable = {} /\ handedOut = <<>> /\ putCount = 0 /\ nextIndex = 0

-----------------------------------------------------------------------------
(* The in-process connection; bytes are numbered in the order written. *)

\* An empty write is Ok and sends nothing. A full channel blocks the writer.
WriteBytes(e, n) ==
  /\ ends[e].tx /\ ends[e].state = "Connected" /\ ends[Other(e)].rx
  /\ Len(flow[Other(e)]) < InprocCapacity /\ sentBytes[e] + n <= MaxWritten
  /\ flow' = [flow EXCEPT ![Other(e)] = Append(@, [i \in 1..n |-> sentBytes[e] + i])]
  /\ sentBytes' = [sentBytes EXCEPT ![e] = @ + n]
  /\ UNCHANGED <<ends, gotBytes, meetingVars, listenerVars, connPoolVars>>

\* Mutant: what did not fit into the caller's buffer is gone.
Leftover_Lost(data, n) == <<>>

Leftover(data, n) == SubSeq(data, n + 1, Len(data))

\* Into a buffer of `room` bytes: leftovers first, then the next message.
ReadSome(e, room) ==
  LET data == IF ends[e].left # <<>> THEN ends[e].left ELSE Head(flow[e])
      n == IF room < Len(data) THEN room ELSE Len(data)
  IN
  /\ ends[e].state = "Connected"
  /\ ends[e].left # <<>> \/ flow[e] # <<>>
  /\ gotBytes' = [gotBytes EXCEPT ![e] = @ \o SubSeq(data, 1, n)]
  /\ flow' = IF ends[e].left # <<>> THEN flow ELSE [flow EXCEPT ![e] = Tail(@)]
  /\ ends' = [ends EXCEPT ![e].left = Leftover(data, n)]
  /\ UNCHANGED <<sentBytes, meetingVars, listenerVars, connPoolVars>>

\* recv returns None: the other sender is gone and nothing is left to read.
ReadEof(e) ==
  /\ ends[e].state = "Connected" /\ ends[e].left = <<>> /\ flow[e] = <<>>
  /\ ~ends[Other(e)].tx
  /\ ends' = [ends EXCEPT ![e].state = "Closed"]
  /\ UNCHANGED <<flow, sentBytes, gotBytes, meetingVars, listenerVars, connPoolVars>>

CloseEnd(e) ==
  /\ ends' = [ends EXCEPT ![e] =
                [state |-> "Closed", tx |-> FALSE, rx |-> FALSE, left |-> <<>>, quit |-> TRUE]]
  /\ UNCHANGED <<flow, sentBytes, gotBytes, meetingVars, listenerVars, connPoolVars>>

InprocNext ==
  \E e \in EndNames :
    \/ ReadEof(e) \/ CloseEnd(e)
    \/ \E n \in 1..2 : WriteBytes(e, n) \/ ReadSome(e, n)

-----------------------------------------------------------------------------
(* The bus: the first caller of a pair leaves the second end for the other. *)

\* Mutant: the names are not sorted.
ChannelKey_Unsorted(from, to) == <<from, to>>

ChannelKey(from, to) == {from, to}

Connect(from, to) ==
  LET key == ChannelKey(from, to) IN
  /\ Len(claims) < MaxConnects
  /\ IF key \in DOMAIN pendingEnd
     THEN /\ claims' = [claims EXCEPT ![pendingEnd[key]].both = TRUE]
          /\ pendingEnd' = Drop(pendingEnd, key)
     ELSE /\ claims' = Append(claims, [by |-> {from, to}, both |-> FALSE])
          /\ pendingEnd' = Put(pendingEnd, key, Len(claims) + 1)
  /\ UNCHANGED <<inprocVars, listenerVars, connPoolVars>>

BusNext == \E from, to \in BusAgents : from # to /\ Connect(from, to)

-----------------------------------------------------------------------------
(* Unix listeners *)

Bind(l) ==
  /\ listener[l].step = "none" /\ socketFile = 0 /\ inodes < MaxInodes
  /\ inodes' = inodes + 1 /\ socketFile' = inodes'
  /\ listener' = [listener EXCEPT ![l] = [inode |-> inodes', step |-> "bound", seen |-> 0]]
  /\ UNCHANGED <<unlinked, inprocVars, meetingVars, connPoolVars>>

\* An operator clears a stale socket away.
StaleRemoved ==
  /\ socketFile # 0 /\ socketFile' = 0
  /\ UNCHANGED <<inodes, listener, unlinked, inprocVars, meetingVars, connPoolVars>>

\* Mutant: any socket at the path is taken for the listener's own.
OwnSocket_Any(l, inode) == inode # 0

OwnSocket(l, inode) == inode = listener[l].inode

\* Drop looks at the file and removes it if it is the one bound, in two calls.
DropChecks(l) ==
  /\ listener[l].step = "bound"
  /\ listener' = [listener EXCEPT ![l].step = IF OwnSocket(l, socketFile) THEN "unlink" ELSE "gone",
                                  ![l].seen = inodes]
  /\ UNCHANGED <<socketFile, inodes, unlinked, inprocVars, meetingVars, connPoolVars>>

DropUnlinks(l) ==
  /\ listener[l].step = "unlink"
  /\ listener' = [listener EXCEPT ![l].step = "gone"]
  /\ unlinked' = IF socketFile = 0 THEN unlinked
                 ELSE unlinked \cup {<<socketFile, listener[l].inode, listener[l].seen>>}
  /\ socketFile' = 0
  /\ UNCHANGED <<inodes, inprocVars, meetingVars, connPoolVars>>

ListenerNext == StaleRemoved \/ \E l \in Listeners : Bind(l) \/ DropChecks(l) \/ DropUnlinks(l)

-----------------------------------------------------------------------------
(* The connection pool: put, get, health_check and drain, each under the lock. *)

PutConnection ==
  /\ Len(pooled) < PoolSlots /\ putCount < MaxPooled
  /\ putCount' = putCount + 1
  /\ pooled' = Append(pooled, putCount') /\ usable' = usable \cup {putCount'}
  /\ UNCHANGED <<handedOut, nextIndex, inprocVars, meetingVars, listenerVars>>

\* A connection dies, expires, or is left idle for too long.
Degrades(c) ==
  /\ c \in usable /\ usable' = usable \ {c}
  /\ UNCHANGED <<pooled, handedOut, putCount, nextIndex, inprocVars, meetingVars, listenerVars>>

\* Mutant: get evicts nothing.
Healthy_All(list) == DOMAIN list

\* The places of what is kept.
Healthy(list) == {i \in DOMAIN list : list[i] \in usable}

\* retain: the others keep their order.
Retain ==
  \E old \in [1..Cardinality(Healthy(pooled)) -> Healthy(pooled)] :
    /\ \A i, j \in DOMAIN old : i < j => old[i] < old[j]
    /\ pooled' = [i \in DOMAIN old |-> pooled[old[i]]]

GetConnection ==
  /\ Retain
  /\ IF pooled' = <<>> THEN UNCHANGED <<handedOut, nextIndex>>
     ELSE /\ handedOut' = <<pooled'[(nextIndex % Len(pooled')) + 1]>>
          /\ nextIndex' = (nextIndex + 1) % (PoolSlots * PoolSlots)
  /\ UNCHANGED <<usable, putCount, inprocVars, meetingVars, listenerVars>>

HealthCheck ==
  /\ Retain
  /\ UNCHANGED <<usable, handedOut, putCount, nextIndex, inprocVars, meetingVars, listenerVars>>

DrainPool ==
  /\ pooled' = <<>> /\ usable' = usable \ ToSet(pooled)
  /\ UNCHANGED <<handedOut, putCount, nextIndex, inprocVars, meetingVars, listenerVars>>

ConnPoolNext ==
  PutConnection \/ GetConnection \/ HealthCheck \/ DrainPool \/ \E c \in usable : Degrades(c)

TransportSpec == TransportInit /\ [][InprocNext \/ BusNext \/ ListenerNext \/ ConnPoolNext]_transportVars

-----------------------------------------------------------------------------
(***************************************************************************)
(* An in-process connection is a byte stream: however writes and reads are *)
(* cut, an end has read a prefix of what the other wrote, and one that was *)
(* told of the end of the stream, not having closed, has read all of it.   *)
(***************************************************************************)
StreamFaithful ==
  \A e \in EndNames :
    /\ gotBytes[e] = [i \in 1..Len(gotBytes[e]) |-> i]
    /\ Len(gotBytes[e]) <= sentBytes[Other(e)]
    /\ ends[e].state = "Closed" /\ ~ends[e].quit => Len(gotBytes[e]) = sentBytes[Other(e)]

(***************************************************************************)
(* "The second caller receives the other end": two agents that call for    *)
(* each other, in either order, meet; at most one end of theirs waits, and *)
(* no end is handed to two callers or forgotten.                           *)
(***************************************************************************)
AgentsMeet ==
  \A i, j \in DOMAIN claims :
    claims[i].by = claims[j].by /\ ~claims[i].both /\ ~claims[j].both => i = j

(***************************************************************************)
(* Dropping a listener never removes the socket of a listener that was     *)
(* bound when it looked at the path.                                       *)
(***************************************************************************)
ForeignSocketSpared == \A u \in unlinked : u[1] = u[2] \/ u[1] > u[3]

(***************************************************************************)
(* get never hands out a connection that is dead, expired or idle, however *)
(* the pool was filled, swept and drained.                                 *)
(***************************************************************************)
HandedOutUsable ==
  [][handedOut' # handedOut => handedOut'[1] \in usable /\ handedOut'[1] \in ToSet(pooled)]_transportVars

(***************************************************************************)
(* In-process streams, the bus, listeners and the pool hand over what was  *)
(* sent, to whom it was meant, over what is usable.                        *)
(***************************************************************************)
TransportSound == [](StreamFaithful /\ AgentsMeet /\ ForeignSocketSpared) /\ HandedOutUsable

-----------------------------------------------------------------------------
(***************************************************************************)
(* One connection of daf-transport and both its ends: TCP, Unix and TLS    *)
(* share the life cycle and differ in which I/O errors close the state and *)
(* in TLS's handshake. Sockets and rustls are external: a stream carries   *)
(* bytes in order, and an operation on it may fail at any time. A byte is  *)
(* counted and not named.                                                  *)
(***************************************************************************)

CONSTANTS
  MaxBytes         \* bytes an end tries to write

VARIABLES
  transport,       \* "tcp", "unix" or "tls"
  tlsPolicy,       \* what the two TlsConfigs say and whose certificate is good
  tlsReady,        \* ends whose acceptor or connector is initialised
  conn,            \* per end, ConnectionInfo
  unwritten,         \* per end, bytes of a write_all that are not written yet
  onWire,          \* per end, bytes its socket took
  taken,           \* per end, bytes it read from its socket
  shut,            \* ends whose socket was shut down
  tornWrite           \* per end, whether a write of it ended in the middle

connVars == <<transport, tlsPolicy, tlsReady, conn, unwritten, onWire, taken, shut, tornWrite>>

Ends == {"dialer", "acceptor"}
Peer(e) == CHOOSE x \in Ends : x # e
NoWrite == [left |-> 0, total |-> 0]

TlsPolicies == [serverVerifies : BOOLEAN, clientVerifies : BOOLEAN, clientHasCa : BOOLEAN,
                serverCertGood : BOOLEAN, clientCertGood : BOOLEAN]

\* TlsTransport::new refuses mutual TLS without a CA.
Accepted(policy) == policy.clientVerifies => policy.clientHasCa

ConnectionInit ==
  /\ transport \in {"tcp", "unix", "tls"}
  /\ tlsPolicy \in {p \in TlsPolicies : Accepted(p)}
  /\ transport # "tls" => tlsPolicy = CHOOSE p \in TlsPolicies : Accepted(p)
  /\ tlsReady = {}
  /\ conn = [e \in Ends |-> [state |-> "Connecting", sent |-> 0, received |-> 0]]
  /\ unwritten = [e \in Ends |-> NoWrite]
  /\ onWire = [e \in Ends |-> 0] /\ taken = [e \in Ends |-> 0]
  /\ shut = {} /\ tornWrite = [e \in Ends |-> FALSE]

wireVars == <<unwritten, onWire, taken, shut, tornWrite>>

-----------------------------------------------------------------------------
(* Establishing *)

\* init_server, init_client: without them there is no handshake.
InitTls(e) ==
  /\ transport = "tls" /\ tlsReady' = tlsReady \cup {e}
  /\ UNCHANGED <<transport, tlsPolicy, conn, wireVars>>

\* Mutant: the server is built without its client verifier.
ClientProves_Never == TRUE

\* The verifying server asks for a certificate; only a verifying client has one.
ClientProves == tlsPolicy.serverVerifies => tlsPolicy.clientVerifies /\ tlsPolicy.clientCertGood

\* Without a CA the client has no roots and trusts nobody.
ServerProves == tlsPolicy.clientHasCa /\ tlsPolicy.serverCertGood

Handshake == tlsReady = Ends /\ ClientProves /\ ServerProves

\* A dial that times out or is refused leaves nothing behind.
Establish ==
  /\ \A e \in Ends : conn[e].state = "Connecting"
  /\ transport = "tls" => Handshake
  /\ conn' = [e \in Ends |-> [conn[e] EXCEPT !.state = "Connected"]]
  /\ UNCHANGED <<transport, tlsPolicy, tlsReady, wireVars>>

-----------------------------------------------------------------------------
(* I/O: an end is used by one caller at a time *)

Usable(e) == conn[e].state # "Connecting" /\ unwritten[e] = NoWrite

\* Nothing looks at the state: a write after the close fails in the socket.
WriteBegins(e, n) ==
  /\ Usable(e) /\ onWire[e] + n <= MaxBytes
  /\ unwritten' = [unwritten EXCEPT ![e] = [left |-> n, total |-> n]]
  /\ UNCHANGED <<transport, tlsPolicy, tlsReady, conn, onWire, taken, shut, tornWrite>>

WriteByte(e) ==
  /\ unwritten[e].left > 0 /\ e \notin shut
  /\ onWire' = [onWire EXCEPT ![e] = @ + 1]
  /\ unwritten' = [unwritten EXCEPT ![e].left = @ - 1]
  /\ UNCHANGED <<transport, tlsPolicy, tlsReady, conn, taken, shut, tornWrite>>

\* Mutant: the bytes of a write are counted when it does not return them all.
CountedIfCut_All(e) == unwritten[e].total

\* write_all reports no number: what it wrote before it ended is not counted.
CountedIfCut(e) == 0

WriteEnds(e) ==
  /\ unwritten[e] # NoWrite /\ unwritten[e].left = 0
  /\ conn' = [conn EXCEPT ![e].sent = @ + unwritten[e].total]
  /\ unwritten' = [unwritten EXCEPT ![e] = NoWrite]
  /\ UNCHANGED <<transport, tlsPolicy, tlsReady, onWire, taken, shut, tornWrite>>

\* TCP closes the state for a reset or a broken pipe, the others always.
ClosesFor(error) == transport # "tcp" \/ error = "reset"

StateAfter(e, error) == IF ClosesFor(error) THEN "Closed" ELSE conn[e].state

CutOff(e) ==
  /\ unwritten' = [unwritten EXCEPT ![e] = NoWrite]
  /\ tornWrite' = [tornWrite EXCEPT ![e] = @ \/ unwritten[e].left < unwritten[e].total]
  /\ UNCHANGED <<transport, tlsPolicy, tlsReady, onWire, taken, shut>>

WriteFails(e, error) ==
  /\ unwritten[e].left > 0
  /\ conn' = [conn EXCEPT ![e].state = StateAfter(e, error), ![e].sent = @ + CountedIfCut(e)]
  /\ CutOff(e)

\* The caller drops the future: a timeout around the write.
WriteCancelled(e) == unwritten[e].left > 0 /\ UNCHANGED conn /\ CutOff(e)

\* Zero bytes, once the other end has shut down and all was read: closed.
Read(e, n) ==
  /\ Usable(e)
  /\ taken[e] + n <= onWire[Peer(e)]
  /\ n = 0 => Peer(e) \in shut /\ taken[e] = onWire[Peer(e)] /\ conn[e].state # "Closed"
  /\ taken' = [taken EXCEPT ![e] = @ + n]
  /\ conn' = [conn EXCEPT ![e].received = @ + n, ![e].state = IF n = 0 THEN "Closed" ELSE @]
  /\ UNCHANGED <<transport, tlsPolicy, tlsReady, unwritten, onWire, shut, tornWrite>>

ReadFails(e, error) ==
  /\ Usable(e) /\ conn[e].state # StateAfter(e, error)
  /\ conn' = [conn EXCEPT ![e].state = StateAfter(e, error)]
  /\ UNCHANGED <<transport, tlsPolicy, tlsReady, wireVars>>

\* close: draining while the shutdown is awaited, which may be the last the
\* caller does of it.
ConnCloseBegins(e) ==
  /\ Usable(e) /\ conn[e].state # "Draining"
  /\ conn' = [conn EXCEPT ![e].state = "Draining"]
  /\ UNCHANGED <<transport, tlsPolicy, tlsReady, wireVars>>

ConnCloseEnds(e) ==
  /\ conn[e].state = "Draining"
  /\ shut' = shut \cup {e}
  /\ conn' = [conn EXCEPT ![e].state = "Closed"]
  /\ UNCHANGED <<transport, tlsPolicy, tlsReady, unwritten, onWire, taken, tornWrite>>

-----------------------------------------------------------------------------
ConnectionNext ==
  \/ Establish
  \/ \E e \in Ends :
       \/ InitTls(e)
       \/ \E n \in 1 .. MaxBytes : WriteBegins(e, n)
       \/ WriteByte(e) \/ WriteEnds(e) \/ WriteCancelled(e)
       \/ \E error \in {"reset", "other"} : WriteFails(e, error) \/ ReadFails(e, error)
       \/ \E n \in 0 .. MaxBytes : Read(e, n)
       \/ ConnCloseBegins(e) \/ ConnCloseEnds(e)

ConnectionSpec == ConnectionInit /\ [][ConnectionNext]_connVars

-----------------------------------------------------------------------------
(***************************************************************************)
(* bytes_sent and bytes_received are what the two ends can rely on: an end *)
(* never counts a byte its socket did not take, and as long as none of its *)
(* writes ended in the middle, the other end has received no byte that is  *)
(* not counted here or being written.                                      *)
(***************************************************************************)
CountersHonest ==
  \A e \in Ends :
    /\ conn[e].sent <= onWire[e]
    /\ ~tornWrite[e] => conn[Peer(e)].received <= conn[e].sent + unwritten[e].total - unwritten[e].left

(***************************************************************************)
(* Mutual TLS: with verify_peer an acceptor is connected only to a client  *)
(* that proved itself, and a dialer only to a server its CA vouches for,   *)
(* whatever the two sides configured of each other.                        *)
(***************************************************************************)
TlsAuthenticated ==
  transport = "tls" /\ conn["acceptor"].state # "Connecting" =>
    /\ tlsPolicy.serverCertGood
    /\ tlsPolicy.serverVerifies => tlsPolicy.clientCertGood

(***************************************************************************)
(* A connection counts what passed over it, and is one only between sides  *)
(* that accept each other.                                                 *)
(***************************************************************************)
ConnectionsSound == CountersHonest /\ TlsAuthenticated

(***************************************************************************)
(* What is sent over a transport arrives as it was sent, is counted as     *)
(* such, and only between sides that accept each other.                    *)
(***************************************************************************)
WireSound == TransportSound /\ []ConnectionsSound
=============================================================================
