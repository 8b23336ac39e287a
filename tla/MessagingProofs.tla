-------------------------- MODULE MessagingProofs ---------------------------
(***************************************************************************)
(* Proofs about what carries messages and events: conversations, channels, *)
(* the router, the event bus and the resource pool of the core, and the    *)
(* transports below them.                                                  *)
(***************************************************************************)
EXTENDS Sessions, Channels, CoreServices, MessageRouter, Transports, FiniteSetTheorems, SequenceTheorems,
        NaturalsInduction, WellFoundedInduction, TLAPS

(***************************************************************************)
(* Conversations. The answer a client takes is the one its server gave,    *)
(* and every turn has the number of its place.                             *)
(***************************************************************************)
Turn == [by : Speakers, number : Nat]
Conversation == [state : ConversationState, with : SUBSET Speakers, turns : Seq(Turn), ended : BOOLEAN]
Answers == {[accepted |-> s # NoSession, session |-> s] : s \in Sessions \cup {NoSession}}
Numbered(turns) == \A i \in DOMAIN turns : turns[i].number = i - 1

\* An answer on the wire or taken by the client is the one this server gave.
HandshakeInv ==
  /\ client \in [at : {"idle", "sent", "open", "failed"}, session : Sessions \cup {NoSession}]
  /\ toClient \in Seq(Answers)
  /\ \A i \in DOMAIN toClient : server.at = "answered" /\ server.session = toClient[i].session
  /\ SessionAgreed

ConversationInv ==
  /\ convs \in [DOMAIN convs -> Conversation]
  /\ \A id \in DOMAIN convs : Numbered(convs[id].turns)

\* A turn is added with the number the next one has.
LEMMA AppendNumbered ==
  ASSUME NEW t \in Seq(Turn), Numbered(t), NEW a \in Speakers
  PROVE  LET new == Append(t, [by |-> a, number |-> Len(t)]) IN new \in Seq(Turn) /\ Numbered(new)
<1>1. PICK e \in Turn : e = [by |-> a, number |-> Len(t)]
  <2>1. Len(t) \in Nat
    OBVIOUS
  <2> QED BY <2>1 DEF Turn
<1>2. Append(t, e) \in Seq(Turn) /\ DOMAIN Append(t, e) = 1..(Len(t) + 1)
  OBVIOUS
<1>3. \A i \in 1..(Len(t) + 1) : Append(t, e)[i] = IF i = Len(t) + 1 THEN e ELSE t[i]
  OBVIOUS
<1>4. Numbered(Append(t, e))
  BY <1>1, <1>2, <1>3 DEF Numbered
<1> QED BY <1>1, <1>2, <1>4

\* merge_branches gives the turns it takes over the numbers they get.
LEMMA MergeNumbered ==
  ASSUME NEW t \in Seq(Turn), NEW u \in Seq(Turn), Numbered(t)
  PROVE  LET new == t \o Renumbered(u, Len(t)) IN new \in Seq(Turn) /\ Numbered(new)
<1>0. PICK m \in Nat, n \in Nat : m = Len(t) /\ n = Len(u)
  OBVIOUS
<1>1. PICK w : w = Renumbered(u, m)
  OBVIOUS
<1>2. DOMAIN u = 1..n /\ DOMAIN t = 1..m /\ \A i \in 1..n : u[i] \in Turn
  BY <1>0
<1>3. ASSUME NEW i \in 1..n
      PROVE  w[i] \in Turn /\ w[i].number = m + i - 1
  <2>1. m + i - 1 \in Nat /\ w[i] = [u[i] EXCEPT !.number = m + i - 1] /\ u[i] \in Turn
    BY <1>1, <1>2 DEF Renumbered
  <2> QED BY <2>1 DEF Turn
<1>4. w \in Seq(Turn) /\ Len(w) = n
  <2>1. w \in [1..n -> Turn]
    BY <1>1, <1>2, <1>3 DEF Renumbered
  <2> QED BY <2>1
<1>5. (t \o w) \in Seq(Turn) /\ Len(t \o w) = m + n /\ DOMAIN (t \o w) = 1..(m + n)
  BY <1>0, <1>4
<1>6. \A i \in 1..(m + n) : (t \o w)[i] = IF i <= m THEN t[i] ELSE w[i - m]
  BY <1>0, <1>4
<1>7. Numbered(t \o w)
  <2> SUFFICES ASSUME NEW i \in 1..(m + n) PROVE (t \o w)[i].number = i - 1
    BY <1>5 DEF Numbered
  <2>1. CASE i <= m
    BY <1>2, <1>6, <2>1 DEF Numbered
  <2>2. CASE ~(i <= m)
    <3>1. i \in Int /\ 1 <= i /\ i <= m + n
      OBVIOUS
    <3>2. i - m \in 1..n
      BY <2>2, <3>1
    <3>3. (t \o w)[i] = w[i - m]
      BY <1>6, <2>2
    <3>4. w[i - m].number = m + (i - m) - 1
      BY <1>3, <3>2
    <3> QED BY <3>1, <3>4, <3>3
  <2> QED BY <2>1, <2>2
<1> QED BY <1>0, <1>1, <1>5, <1>7

\* Whatever step the two ends or the stream take.
LEMMA HandshakeKept ==
  ASSUME HandshakeInv, HandshakeNext
  PROVE  HandshakeInv'
<1>1. CASE StreamBreaks
  BY <1>1 DEF StreamBreaks, HandshakeInv, SessionAgreed
<1>2. CASE ServerReads
  BY <1>2 DEF ServerReads, HandshakeInv, SessionAgreed
<1>3. ASSUME NEW s \in Sizes, ClientSends(s)
      PROVE  HandshakeInv'
  BY <1>3 DEF ClientSends, HandshakeInv, SessionAgreed
<1>4. ASSUME NEW s \in Sizes, NEW v \in Sessions \cup {NoSession}, ServerAnswers(v, s)
      PROVE  HandshakeInv'
  <2>1. PICK e \in Answers : e = [accepted |-> v # NoSession, session |-> v]
    BY DEF Answers
  <2>2. server.at = "asked" /\ client.at # "open" /\ UNCHANGED client
    BY <1>4 DEF ServerAnswers, HandshakeInv, SessionAgreed
  <2>3. toClient = <<>>
    <3>1. DOMAIN toClient = {} /\ toClient \in Seq(Answers)
      BY <2>2 DEF HandshakeInv
    <3> QED BY <3>1
  <2>4. CASE UNCHANGED toClient
    BY <2>2, <2>4, <2>3 DEF HandshakeInv, SessionAgreed
  <2>5. CASE toClient' = Append(toClient, e) /\ server' = [at |-> "answered", session |-> v]
    BY <2>1, <2>2, <2>5, <2>3 DEF HandshakeInv, SessionAgreed
  <2> QED BY <1>4, <2>1, <2>4, <2>5 DEF ServerAnswers
<1>5. CASE ClientReads
  <2>1. CASE toClient = <<>>
    BY <1>5, <2>1 DEF ClientReads, HandshakeInv, SessionAgreed
  <2>2. CASE toClient # <<>>
    <3>1. Head(toClient) = toClient[1] /\ toClient[1] \in Answers /\ 1 \in DOMAIN toClient
      BY <2>2 DEF HandshakeInv
    <3>2. toClient' = Tail(toClient) /\ UNCHANGED server /\ toClient' \in Seq(Answers)
      BY <1>5, <2>2 DEF ClientReads, HandshakeInv
    <3>3. \A i \in DOMAIN toClient' : i + 1 \in DOMAIN toClient /\ toClient'[i] = toClient[i + 1]
      BY <2>2, <3>2 DEF HandshakeInv
    <3>4. toClient[1].accepted => toClient[1].session # NoSession
      <4>1. PICK v : toClient[1] = [accepted |-> v # NoSession, session |-> v]
        BY <3>1 DEF Answers
      <4>2. toClient[1].accepted = (v # NoSession) /\ toClient[1].session = v
        BY <4>1
      <4> QED BY <4>2
    <3>5. server.at = "answered" /\ server.session = toClient[1].session
      BY <3>1 DEF HandshakeInv
    <3>6. CASE toClient[1].accepted
      <4>1. client' = [at |-> "open", session |-> toClient[1].session]
        BY <1>5, <2>2, <3>1, <3>6 DEF ClientReads, Granted
      <4>2. toClient[1].session \in Sessions \cup {NoSession}
        BY <3>1 DEF Answers
      <4> QED BY <3>2, <3>3, <3>4, <3>5, <3>6, <4>1, <4>2 DEF HandshakeInv, SessionAgreed
    <3>7. CASE ~toClient[1].accepted
      <4>1. client' = [client EXCEPT !.at = "failed"]
        BY <1>5, <2>2, <3>1, <3>7 DEF ClientReads, Granted
      <4> QED BY <3>2, <3>3, <4>1 DEF HandshakeInv, SessionAgreed
    <3> QED BY <3>6, <3>7
  <2> QED BY <2>1, <2>2
<1> QED BY <1>1, <1>2, <1>3, <1>4, <1>5 DEF HandshakeNext

\* A conversation is put in the place of one, or added.
LEMMA PutKept ==
  ASSUME ConversationInv, NEW id, NEW c \in Conversation, Numbered(c.turns),
         convs' = Put(convs, id, c) \/ (id \in DOMAIN convs /\ convs' = [convs EXCEPT ![id] = c])
  PROVE  ConversationInv'
<1>1. DOMAIN convs' = DOMAIN convs \cup {id}
  BY DEF Put, ConversationInv
<1>2. \A x \in DOMAIN convs' : convs'[x] = IF x = id THEN c ELSE convs[x]
  BY <1>1 DEF Put, ConversationInv
<1>3. convs' \in [DOMAIN convs' -> Conversation]
  BY <1>1, <1>2 DEF Put, ConversationInv
<1> QED BY <1>1, <1>2, <1>3 DEF ConversationInv

LEMMA ConversationsKept ==
  ASSUME ConversationInv, ConversationNext
  PROVE  ConversationInv'
<1>0. \A id \in DOMAIN convs : convs[id] \in Conversation /\ Numbered(convs[id].turns)
  BY DEF ConversationInv
<1>1. ASSUME NEW id \in ConvIds, NEW who \in (SUBSET Speakers) \ {{}}, NewConversation(id, who)
      PROVE  ConversationInv'
  <2>1. PICK c : c = [state |-> "Active", with |-> who, turns |-> <<>>, ended |-> FALSE]
    OBVIOUS
  <2>2. c \in Conversation /\ Numbered(c.turns)
    BY <2>1 DEF Conversation, ConversationState, Numbered
  <2> QED BY <1>1, <2>1, <2>2, PutKept DEF NewConversation
<1>2. ASSUME NEW id \in DOMAIN convs, NEW a \in Speakers, AddTurn(id, a)
      PROVE  ConversationInv'
  <2>1. PICK t \in Seq(Turn) : t = Append(convs[id].turns, [by |-> a, number |-> Len(convs[id].turns)]) /\ Numbered(t)
    BY <1>0, AppendNumbered DEF Conversation
  <2>2. PICK c \in Conversation : c = [convs[id] EXCEPT !.turns = t]
    BY <1>0 DEF Conversation
  <2>3. c.turns = t /\ convs' = [convs EXCEPT ![id] = c]
    BY <1>0, <1>2, <2>1, <2>2 DEF AddTurn, Conversation
  <2> QED BY <2>1, <2>3, PutKept
<1>3. ASSUME NEW id \in DOMAIN convs, NEW new \in ConvIds, Fork(id, new)
      PROVE  ConversationInv'
  <2>1. PICK c : c = [convs[id] EXCEPT !.state = "Active", !.ended = FALSE]
    OBVIOUS
  <2>2. c \in Conversation /\ c.turns = convs[id].turns
    BY <1>0, <2>1 DEF Conversation, ConversationState
  <2> QED BY <1>0, <1>3, <2>1, <2>2, PutKept DEF Fork
<1>4. ASSUME NEW id \in DOMAIN convs, NEW other \in DOMAIN convs, MergeBranches(id, other)
      PROVE  ConversationInv'
  <2>1. PICK t \in Seq(Turn) : /\ t = convs[id].turns \o Renumbered(convs[other].turns, Len(convs[id].turns))
                               /\ Numbered(t)
    BY <1>0, MergeNumbered DEF Conversation
  <2>2. PICK c \in Conversation : c = [convs[id] EXCEPT !.turns = t, !.with = @ \cup convs[other].with]
    BY <1>0 DEF Conversation
  <2>3. c.turns = t /\ convs' = [convs EXCEPT ![id] = c]
    BY <1>0, <1>4, <2>1, <2>2 DEF MergeBranches, Conversation
  <2> QED BY <2>1, <2>3, PutKept
<1>5. ASSUME NEW id \in DOMAIN convs, NEW s \in {"Active", "Paused", "Completed", "Archived"}, Becomes(id, s)
      PROVE  ConversationInv'
  <2>1. PICK e \in BOOLEAN : e = (convs[id].ended \/ s \in {"Completed", "Archived"})
    BY <1>0 DEF Conversation
  <2>2. PICK c \in Conversation : c = [convs[id] EXCEPT !.state = s, !.ended = e]
    BY <1>0 DEF Conversation, ConversationState
  <2>3. c.turns = convs[id].turns /\ convs' = [convs EXCEPT ![id] = c]
    BY <1>0, <1>5, <2>1, <2>2 DEF Becomes, Conversation
  <2> QED BY <1>0, <2>3, PutKept
<1> QED BY <1>1, <1>2, <1>3, <1>4, <1>5 DEF ConversationNext, ResumeConversation

(***************************************************************************)
(* For every number of turns, branches and breaks of the stream: the       *)
(* client of perform_handshake_client holds the session its server         *)
(* granted, and Conversation::fork and merge_branches keep turns numbered. *)
(***************************************************************************)
THEOREM ConversationsStayAgreed == SessionSpec => []ConversationsAgreed
<1>1. SessionInit => HandshakeInv /\ ConversationInv
  BY DEF SessionInit, HandshakeInv, SessionAgreed, ConversationInv, EmptyMap
<1>2. HandshakeInv /\ ConversationInv /\ [HandshakeNext \/ ConversationNext]_sessionVars
        => HandshakeInv' /\ ConversationInv'
  <2>1. ASSUME HandshakeInv, UNCHANGED handshakeVars
        PROVE  HandshakeInv'
    BY <2>1 DEF handshakeVars, HandshakeInv, SessionAgreed
  <2>2. ASSUME ConversationInv, UNCHANGED convs
        PROVE  ConversationInv'
    BY <2>2 DEF ConversationInv
  <2>3. HandshakeNext => UNCHANGED convs
    BY DEF HandshakeNext, StreamBreaks, ServerReads, ClientReads, ClientSends, ServerAnswers
  <2>4. ConversationNext => UNCHANGED handshakeVars
    BY DEF ConversationNext, NewConversation, AddTurn, Fork, MergeBranches, Becomes, ResumeConversation
  <2> QED BY <2>1, <2>2, <2>3, <2>4, HandshakeKept, ConversationsKept DEF sessionVars
<1>3. HandshakeInv /\ ConversationInv => ConversationsAgreed
  BY DEF HandshakeInv, ConversationInv, Conversation, Numbered, ConversationsAgreed, SessionTypeOK, TurnsNumbered
<1> QED BY <1>1, <1>2, <1>3, PTL DEF SessionSpec

-----------------------------------------------------------------------------
(***************************************************************************)
(* The channels. A close has cancelled the token before anything else is   *)
(* taken, and permits and frames share the room of a queue.                *)
(***************************************************************************)
Sending ==
  {NotWriting} \cup [step : {"reserving", "permit"}, chan : ChanIds, dir : Directions]
Closes == {NoClose} \cup [chan : ChanIds, step : Directions \cup {"cancel", "forget"}]

PermitsIn(wr, c, d) == {w \in Writers : wr[w].chan = c /\ wr[w].dir = d /\ wr[w].step = "permit"}

ChannelFormOK ==
  /\ ChannelTypeOK
  /\ writing \in [Writers -> Sending] /\ closing \in Closes
  /\ accepted \in [ChanIds -> Nat]

\* Opened, and neither in the map nor being closed.
SealInv ==
  /\ \A c \in live : c < nextChannel
  /\ closing # NoClose => closing.chan \notin live /\ closing.chan < nextChannel
  /\ closing.step \in Directions \cup {"forget"} => closing.chan \in cancelled
  /\ \A c \in ChanIds : Shut(c) => c \in cancelled

RoomInv ==
  \A c \in ChanIds, d \in Directions :
    queue[c][d] + Cardinality(PermitsIn(writing, c, d)) <= ChannelBuffer

ChannelInv == ChannelFormOK /\ SealInv /\ RoomInv

LEMMA PermitsFinite ==
  ASSUME NEW wr, NEW c, NEW d
  PROVE  IsFiniteSet(PermitsIn(wr, c, d)) /\ Cardinality(PermitsIn(wr, c, d)) \in Nat
<1>1. PermitsIn(wr, c, d) \subseteq Writers
  BY DEF PermitsIn
<1>2. IsFiniteSet(PermitsIn(wr, c, d))
  BY <1>1, ChannelAssumption, FS_Subset
<1>. QED BY <1>2, FS_CardinalityType

\* One writer alone changes the permits of the queue it is at by one.
LEMMA PermitsJoin ==
  ASSUME NEW wr \in [Writers -> Sending], NEW w \in Writers, NEW s \in Sending, NEW c, NEW d
  PROVE  Cardinality(PermitsIn([wr EXCEPT ![w] = s], c, d)) <= Cardinality(PermitsIn(wr, c, d)) + 1
<1>. DEFINE P == PermitsIn(wr, c, d)
            Q == PermitsIn([wr EXCEPT ![w] = s], c, d)
<1>1. Q \subseteq P \cup {w}
  BY DEF PermitsIn
<1>2. IsFiniteSet(P) /\ Cardinality(P) \in Nat /\ IsFiniteSet(Q) /\ Cardinality(Q) \in Nat
  BY PermitsFinite
<1>. HIDE DEF P, Q
<1>3. IsFiniteSet(P \cup {w})
      /\ Cardinality(P \cup {w}) = IF w \in P THEN Cardinality(P) ELSE Cardinality(P) + 1
  BY <1>2, FS_AddElement
<1>4. Cardinality(Q) <= Cardinality(P \cup {w})
  BY <1>1, <1>3, FS_Subset
<1>5. Cardinality(Q) <= Cardinality(P) + 1
  BY <1>2, <1>3, <1>4
<1>. QED BY <1>5 DEF P, Q

LEMMA PermitsFewer ==
  ASSUME NEW wr, NEW w, NEW c, NEW d
  PROVE  /\ Cardinality(PermitsIn(wr, c, d) \ {w}) <= Cardinality(PermitsIn(wr, c, d))
         /\ w \in PermitsIn(wr, c, d) =>
              Cardinality(PermitsIn(wr, c, d) \ {w}) + 1 = Cardinality(PermitsIn(wr, c, d))
<1>. DEFINE P == PermitsIn(wr, c, d)
<1>1. IsFiniteSet(P) /\ Cardinality(P) \in Nat
  BY PermitsFinite
<1>. HIDE DEF P
<1>2. Cardinality(P \ {w}) = IF w \in P THEN Cardinality(P) - 1 ELSE Cardinality(P)
  BY <1>1, FS_RemoveElement
<1>3. /\ Cardinality(P \ {w}) <= Cardinality(P)
      /\ w \in P => Cardinality(P \ {w}) + 1 = Cardinality(P)
  BY <1>1, <1>2
<1>. QED BY <1>3 DEF P

LEMMA ChannelInvInit == ChannelInit => ChannelInv
<1>1. SUFFICES ASSUME ChannelInit PROVE ChannelInv
  OBVIOUS
<1>2. MaxOpens \in Nat /\ ChannelBuffer \in Nat \ {0} /\ 0 \in 0..ChannelBuffer /\ 1 \in 1..MaxOpens + 1
  BY ChannelAssumption
<1>3. ChannelFormOK
  BY <1>1, <1>2 DEF ChannelInit, ChannelFormOK, ChannelTypeOK, ChannelState, Sending, Closes
<1>4. SealInv
  BY <1>1, <1>2 DEF ChannelInit, SealInv, Shut, NoClose, ChanIds, Directions
<1>5. \A c \in ChanIds, d \in Directions : PermitsIn(writing, c, d) = {}
  BY <1>1 DEF ChannelInit, PermitsIn, NotWriting
<1>6. RoomInv
  <2>1. Cardinality({}) = 0
    BY FS_EmptySet
  <2>2. ASSUME NEW c \in ChanIds, NEW d \in Directions
        PROVE  queue[c][d] + Cardinality(PermitsIn(writing, c, d)) <= ChannelBuffer
    <3>1. queue[c][d] = 0 /\ PermitsIn(writing, c, d) = {}
      BY <1>1, <1>5 DEF ChannelInit
    <3>. QED BY <1>2, <2>1, <3>1
  <2>. QED BY <2>2 DEF RoomInv
<1>. QED BY <1>3, <1>4, <1>6 DEF ChannelInv

LEMMA RoomUnchanged ==
  ASSUME RoomInv, UNCHANGED <<queue, writing>>
  PROVE  RoomInv'
BY DEF RoomInv, PermitsIn

LEMMA OpenKeeps == ChannelInv /\ OpenChannel => ChannelInv'
<1>1. SUFFICES ASSUME ChannelInv, OpenChannel PROVE ChannelInv'
  OBVIOUS
<1>2. nextChannel \in ChanIds /\ nextChannel \in Nat /\ nextChannel' = nextChannel + 1
  BY <1>1, ChannelAssumption DEF ChannelInv, ChannelFormOK, ChannelTypeOK, OpenChannel, ChanIds
<1>3. nextChannel' \in 1..MaxOpens + 1
  BY <1>1, <1>2, ChannelAssumption DEF OpenChannel
<1>4. ChannelFormOK'
  BY <1>1, <1>2, <1>3 DEF ChannelInv, ChannelFormOK, ChannelTypeOK, OpenChannel
<1>5. SealInv'
  BY <1>1, <1>2 DEF ChannelInv, ChannelFormOK, ChannelTypeOK, SealInv, OpenChannel, Shut, NoClose, ChanIds, Directions
<1>6. RoomInv'
  BY <1>1, RoomUnchanged DEF ChannelInv, OpenChannel
<1>. QED BY <1>4, <1>5, <1>6 DEF ChannelInv

LEMMA OwnerKeeps ==
  ASSUME ChannelInv, NEW c \in ChanIds,
         Established(c) \/ TakeOutboundReceiver(c) \/ ReceiveNone(c)
  PROVE  ChannelInv'
<1>1. UNCHANGED <<nextChannel, live, cancelled, senders, queue, writing, closing, accepted>>
      /\ chanState' \in [ChanIds -> ChannelState]
  BY DEF ChannelInv, ChannelFormOK, ChannelTypeOK, Established, TakeOutboundReceiver, ReceiveNone, ChannelState
<1>2. ChannelFormOK'
  BY <1>1 DEF ChannelInv, ChannelFormOK, ChannelTypeOK
<1>3. SealInv'
  BY <1>1 DEF ChannelInv, SealInv, Shut
<1>4. RoomInv'
  BY <1>1, RoomUnchanged DEF ChannelInv
<1>. QED BY <1>2, <1>3, <1>4 DEF ChannelInv

LEMMA CloseBeginsKeeps ==
  ASSUME ChannelInv, NEW c \in ChanIds, CloseBegins(c)
  PROVE  ChannelInv'
<1>1. ChannelFormOK'
  BY DEF ChannelInv, ChannelFormOK, ChannelTypeOK, CloseBegins, Closes
<1>2. SealInv'
  <2>1. /\ closing = NoClose /\ c \in live /\ live' = live \ {c} /\ nextChannel' = nextChannel
        /\ closing'.chan = c /\ closing'.step = "cancel" /\ cancelled' = cancelled
    BY DEF CloseBegins
  <2>2. \A x \in ChanIds : x # 0
    BY DEF ChanIds
  <2>3. \A x \in ChanIds : Shut(x)' => Shut(x)
    BY <2>1, <2>2 DEF Shut, NoClose
  <2>. QED BY <2>1, <2>3 DEF ChannelInv, SealInv, Directions
<1>3. RoomInv'
  BY RoomUnchanged DEF ChannelInv, CloseBegins
<1>. QED BY <1>1, <1>2, <1>3 DEF ChannelInv

LEMMA CloseCancelsKeeps == ChannelInv /\ CloseCancels => ChannelInv'
<1>1. SUFFICES ASSUME ChannelInv, CloseCancels PROVE ChannelInv'
  OBVIOUS
<1>2. /\ closing \in Closes /\ closing # NoClose /\ closing.chan \in ChanIds
      /\ closing'.chan = closing.chan /\ closing'.step = "outbound" /\ closing' \in Closes /\ closing' # NoClose
  BY <1>1 DEF ChannelInv, ChannelFormOK, CloseCancels, Closes, NoClose, Directions
<1>3. ChannelFormOK'
  BY <1>1, <1>2 DEF ChannelInv, ChannelFormOK, ChannelTypeOK, CloseCancels
<1>4. SealInv'
  BY <1>1, <1>2 DEF ChannelInv, SealInv, CloseCancels, Shut
<1>5. RoomInv'
  BY <1>1, RoomUnchanged DEF ChannelInv, CloseCancels
<1>. QED BY <1>3, <1>4, <1>5 DEF ChannelInv

LEMMA CloseTakesKeeps == ChannelInv /\ CloseTakes => ChannelInv'
<1>1. SUFFICES ASSUME ChannelInv, CloseTakes PROVE ChannelInv'
  OBVIOUS
<1>2. /\ closing \in Closes /\ closing # NoClose /\ closing.chan \in ChanIds
      /\ closing'.chan = closing.chan /\ closing' \in Closes /\ closing' # NoClose
  BY <1>1 DEF ChannelInv, ChannelFormOK, CloseTakes, Closes, NoClose, Directions
<1>3. senders' \in [ChanIds -> SUBSET Directions]
  BY <1>1, <1>2 DEF ChannelInv, ChannelFormOK, ChannelTypeOK, CloseTakes
<1>4. ChannelFormOK'
  BY <1>1, <1>2, <1>3 DEF ChannelInv, ChannelFormOK, ChannelTypeOK, CloseTakes
<1>5. SealInv'
  BY <1>1, <1>2 DEF ChannelInv, SealInv, CloseTakes, Shut
<1>6. RoomInv'
  BY <1>1, RoomUnchanged DEF ChannelInv, CloseTakes
<1>. QED BY <1>4, <1>5, <1>6 DEF ChannelInv

LEMMA CloseEndsKeeps == ChannelInv /\ CloseEnds => ChannelInv'
<1>1. SUFFICES ASSUME ChannelInv, CloseEnds PROVE ChannelInv'
  OBVIOUS
<1>2. /\ closing \in Closes /\ closing # NoClose /\ closing.chan \in ChanIds /\ closing' = NoClose
      /\ closing.chan \in cancelled
      /\ UNCHANGED <<nextChannel, live, chanState, senders, cancelled, writing, accepted>>
  BY <1>1 DEF ChannelInv, ChannelFormOK, SealInv, CloseEnds, Closes, NoClose, Directions
<1>3. /\ queue' \in [ChanIds -> [Directions -> 0..ChannelBuffer]]
      /\ \A c \in ChanIds, d \in Directions : queue'[c][d] <= queue[c][d] /\ queue'[c][d] \in Nat /\ queue[c][d] \in Nat
  <2>1. queue \in [ChanIds -> [Directions -> 0..ChannelBuffer]] /\ ChannelBuffer \in Nat /\ 0 \in 0..ChannelBuffer
    BY <1>1, ChannelAssumption DEF ChannelInv, ChannelFormOK, ChannelTypeOK
  <2>2. queue' = [queue EXCEPT ![closing.chan]["outbound"] = 0] \/ queue' = queue
    BY <1>1 DEF CloseEnds
  <2>. QED BY <1>2, <2>1, <2>2 DEF Directions
<1>4. ChannelFormOK'
  BY <1>1, <1>2, <1>3 DEF ChannelInv, ChannelFormOK, ChannelTypeOK, Closes
<1>5. SealInv'
  BY <1>1, <1>2 DEF ChannelInv, SealInv, Shut, NoClose, Directions
<1>6. RoomInv'
  <2>1. ASSUME NEW c \in ChanIds, NEW d \in Directions
        PROVE  queue'[c][d] + Cardinality(PermitsIn(writing, c, d)) <= ChannelBuffer
    <3>1. queue[c][d] + Cardinality(PermitsIn(writing, c, d)) <= ChannelBuffer
      BY <1>1 DEF ChannelInv, RoomInv
    <3>. QED BY <1>3, <3>1, PermitsFinite, ChannelAssumption
  <2>. QED BY <1>2, <2>1 DEF RoomInv
<1>. QED BY <1>4, <1>5, <1>6 DEF ChannelInv

\* What one writer does to its own send leaves the rest as it is.
LEMMA WriterMoves ==
  ASSUME ChannelInv, NEW w \in Writers, NEW s \in Sending, writing' = [writing EXCEPT ![w] = s],
         UNCHANGED <<nextChannel, live, chanState, senders, cancelled, closing>>
  PROVE  writing' \in [Writers -> Sending] /\ SealInv'
<1>1. writing' \in [Writers -> Sending]
  BY DEF ChannelInv, ChannelFormOK
<1>2. SealInv'
  BY DEF ChannelInv, SealInv, Shut
<1>. QED BY <1>1, <1>2

\* A send that waits or gives up holds no permit afterwards.
LEMMA NoPermitKeeps ==
  ASSUME ChannelInv, NEW w \in Writers, NEW s \in Sending, s.step # "permit",
         writing' = [writing EXCEPT ![w] = s],
         UNCHANGED <<nextChannel, live, chanState, senders, cancelled, closing, queue, accepted>>
  PROVE  ChannelInv'
<1>1. writing' \in [Writers -> Sending] /\ SealInv'
  BY WriterMoves
<1>2. ChannelFormOK'
  BY <1>1 DEF ChannelInv, ChannelFormOK, ChannelTypeOK
<1>3. ASSUME NEW c \in ChanIds, NEW d \in Directions
      PROVE  queue[c][d] + Cardinality(PermitsIn(writing', c, d)) <= ChannelBuffer
  <2>1. writing \in [Writers -> Sending] /\ queue[c][d] \in Nat
        /\ queue[c][d] + Cardinality(PermitsIn(writing, c, d)) <= ChannelBuffer
    BY ChannelAssumption DEF ChannelInv, ChannelFormOK, ChannelTypeOK, RoomInv
  <2>2. /\ PermitsIn(writing', c, d) = PermitsIn(writing, c, d) \ {w}
        /\ Cardinality(PermitsIn(writing, c, d) \ {w}) <= Cardinality(PermitsIn(writing, c, d))
    <3>1. PermitsIn(writing', c, d) = PermitsIn(writing, c, d) \ {w}
      BY <2>1 DEF PermitsIn
    <3>. QED BY <3>1, PermitsFewer, Zenon
  <2>3. Cardinality(PermitsIn(writing', c, d)) \in Nat /\ Cardinality(PermitsIn(writing, c, d)) \in Nat
    BY PermitsFinite
  <2>4. Cardinality(PermitsIn(writing', c, d)) <= Cardinality(PermitsIn(writing, c, d)) /\ ChannelBuffer \in Nat
    BY <2>2, ChannelAssumption
  <2>. QED BY <2>1, <2>3, <2>4
<1>4. RoomInv'
  BY <1>3 DEF RoomInv
<1>. QED BY <1>1, <1>2, <1>4 DEF ChannelInv

LEMMA SendBeginsKeeps ==
  ASSUME ChannelInv, NEW w \in Writers, NEW c \in ChanIds, NEW d \in Directions, SendBegins(w, c, d)
  PROVE  ChannelInv'
<1>1. [step |-> "reserving", chan |-> c, dir |-> d] \in Sending
  BY DEF Sending
<1>. QED BY <1>1, NoPermitKeeps DEF SendBegins

LEMMA SendRefusedKeeps ==
  ASSUME ChannelInv, NEW w \in Writers, SendRefused(w)
  PROVE  ChannelInv'
<1>1. NotWriting \in Sending /\ NotWriting.step # "permit"
  BY DEF Sending, NotWriting
<1>. QED BY <1>1, NoPermitKeeps DEF SendRefused

LEMMA SendReservesKeeps ==
  ASSUME ChannelInv, NEW w \in Writers, SendReserves(w)
  PROVE  ChannelInv'
<1>. DEFINE c == writing[w].chan
            d == writing[w].dir
            s == [writing[w] EXCEPT !.step = "permit"]
<1>1. /\ writing[w].step = "reserving" /\ writing[w] \in Sending
      /\ queue[c][d] + Cardinality(Permits(c, d)) < ChannelBuffer
      /\ writing' = [writing EXCEPT ![w] = s]
      /\ UNCHANGED <<nextChannel, live, chanState, senders, cancelled, closing, queue, accepted>>
  BY DEF SendReserves, ChannelInv, ChannelFormOK
<1>2. s \in Sending /\ s.step = "permit" /\ s.chan = c /\ s.dir = d /\ c \in ChanIds /\ d \in Directions
  BY <1>1 DEF Sending, NotWriting
<1>3. Permits(c, d) = PermitsIn(writing, c, d)
  BY DEF Permits, Holding, PermitsIn
<1>. HIDE DEF c, d, s
<1>4. writing' \in [Writers -> Sending] /\ SealInv'
  BY <1>1, <1>2, WriterMoves
<1>5. ChannelFormOK'
  BY <1>1, <1>4 DEF ChannelInv, ChannelFormOK, ChannelTypeOK
<1>6. ASSUME NEW x \in ChanIds, NEW y \in Directions
      PROVE  queue[x][y] + Cardinality(PermitsIn(writing', x, y)) <= ChannelBuffer
  <2>1. writing \in [Writers -> Sending] /\ queue[x][y] \in Nat /\ ChannelBuffer \in Nat
        /\ queue[x][y] + Cardinality(PermitsIn(writing, x, y)) <= ChannelBuffer
    BY ChannelAssumption DEF ChannelInv, ChannelFormOK, ChannelTypeOK, RoomInv
  <2>2. Cardinality(PermitsIn(writing', x, y)) \in Nat /\ Cardinality(PermitsIn(writing, x, y)) \in Nat
    BY PermitsFinite
  <2>3. CASE x = c /\ y = d
    <3>1. Cardinality(PermitsIn(writing', x, y)) <= Cardinality(PermitsIn(writing, x, y)) + 1
      BY <1>1, <1>2, <2>1, PermitsJoin
    <3>2. queue[x][y] + Cardinality(PermitsIn(writing, x, y)) < ChannelBuffer
      BY <1>1, <1>3, <2>3
    <3>. QED BY <2>1, <2>2, <3>1, <3>2
  <2>4. CASE ~(x = c /\ y = d)
    <3>1. /\ PermitsIn(writing', x, y) = PermitsIn(writing, x, y) \ {w}
          /\ Cardinality(PermitsIn(writing, x, y) \ {w}) <= Cardinality(PermitsIn(writing, x, y))
      <4>1. PermitsIn(writing', x, y) = PermitsIn(writing, x, y) \ {w}
        BY <1>1, <1>2, <2>1, <2>4 DEF PermitsIn
      <4>. QED BY <4>1, PermitsFewer, Zenon
    <3>. QED BY <2>1, <2>2, <3>1
  <2>. QED BY <2>3, <2>4
<1>7. RoomInv'
  BY <1>1, <1>6 DEF RoomInv
<1>. QED BY <1>4, <1>5, <1>7 DEF ChannelInv

LEMMA SendEnqueuesKeeps ==
  ASSUME ChannelInv, NEW w \in Writers, SendEnqueues(w)
  PROVE  ChannelInv'
<1>. DEFINE c == writing[w].chan
            d == writing[w].dir
<1>1. /\ writing[w].step = "permit" /\ writing[w] \in Sending /\ writing \in [Writers -> Sending]
      /\ writing' = [writing EXCEPT ![w] = NotWriting]
      /\ UNCHANGED <<nextChannel, live, chanState, senders, cancelled, closing>>
      /\ \/ queue' = [queue EXCEPT ![c][d] = @ + 1] /\ accepted' = [accepted EXCEPT ![c] = @ + 1]
         \/ queue' = queue /\ accepted' = accepted
  BY DEF SendEnqueues, ChannelInv, ChannelFormOK
<1>2. /\ NotWriting \in Sending /\ NotWriting.step # "permit" /\ c \in ChanIds /\ d \in Directions
      /\ w \in PermitsIn(writing, c, d)
  BY <1>1 DEF Sending, NotWriting, PermitsIn
<1>. HIDE DEF c, d
<1>3. writing' \in [Writers -> Sending] /\ SealInv'
  BY <1>1, <1>2, WriterMoves
<1>4. queue \in [ChanIds -> [Directions -> 0..ChannelBuffer]] /\ ChannelBuffer \in Nat /\ accepted \in [ChanIds -> Nat]
  BY ChannelAssumption DEF ChannelInv, ChannelFormOK, ChannelTypeOK
<1>5. ASSUME NEW x \in ChanIds, NEW y \in Directions
      PROVE  queue'[x][y] + Cardinality(PermitsIn(writing', x, y)) <= ChannelBuffer
  <2>1. queue[x][y] \in Nat /\ queue[x][y] + Cardinality(PermitsIn(writing, x, y)) <= ChannelBuffer
    BY <1>4 DEF ChannelInv, RoomInv
  <2>2. Cardinality(PermitsIn(writing', x, y)) \in Nat /\ Cardinality(PermitsIn(writing, x, y)) \in Nat
    BY PermitsFinite
  <2>3. /\ PermitsIn(writing', x, y) = PermitsIn(writing, x, y) \ {w}
        /\ Cardinality(PermitsIn(writing, x, y) \ {w}) <= Cardinality(PermitsIn(writing, x, y))
        /\ w \in PermitsIn(writing, x, y) =>
             Cardinality(PermitsIn(writing, x, y) \ {w}) + 1 = Cardinality(PermitsIn(writing, x, y))
    <3>1. PermitsIn(writing', x, y) = PermitsIn(writing, x, y) \ {w}
      BY <1>1, <1>2 DEF PermitsIn
    <3>. QED BY <3>1, PermitsFewer, Zenon
  <2>4. CASE x = c /\ y = d
    <3>1. queue'[x][y] \in {queue[x][y], queue[x][y] + 1}
      BY <1>1, <1>2, <1>4, <2>4
    <3>. QED BY <1>2, <1>4, <2>1, <2>2, <2>3, <2>4, <3>1
  <2>5. CASE ~(x = c /\ y = d)
    <3>1. queue'[x][y] = queue[x][y]
      BY <1>1, <1>2, <1>4, <2>5
    <3>. QED BY <1>4, <2>1, <2>2, <2>3, <3>1
  <2>. QED BY <2>4, <2>5
<1>6. queue' \in [ChanIds -> [Directions -> 0..ChannelBuffer]]
  <2>1. queue' \in [ChanIds -> [Directions -> Nat]]
    <3>1. queue \in [ChanIds -> [Directions -> Nat]]
      BY <1>4
    <3>2. queue[c][d] + 1 \in Nat
      BY <1>2, <3>1
    <3>3. [queue[c] EXCEPT ![d] = queue[c][d] + 1] \in [Directions -> Nat]
      BY <1>2, <3>1, <3>2
    <3>. QED BY <1>1, <1>2, <3>1, <3>3
  <2>2. ASSUME NEW x \in ChanIds, NEW y \in Directions
        PROVE  queue'[x][y] \in 0..ChannelBuffer
    <3>1. queue'[x][y] + Cardinality(PermitsIn(writing', x, y)) <= ChannelBuffer
          /\ Cardinality(PermitsIn(writing', x, y)) \in Nat /\ queue'[x][y] \in Nat
      BY <1>5, <2>1, PermitsFinite
    <3>. QED BY <1>4, <3>1
  <2>. QED BY <2>1, <2>2
<1>7. accepted' \in [ChanIds -> Nat]
  BY <1>1, <1>2, <1>4
<1>8. ChannelFormOK'
  BY <1>1, <1>3, <1>6, <1>7 DEF ChannelInv, ChannelFormOK, ChannelTypeOK
<1>9. RoomInv'
  BY <1>5 DEF RoomInv
<1>. QED BY <1>3, <1>8, <1>9 DEF ChannelInv

LEMMA TakeFrameKeeps ==
  ASSUME ChannelInv, NEW c \in ChanIds, NEW d \in Directions, Receive(c, d)
  PROVE  ChannelInv'
<1>1. /\ queue[c][d] > 0 /\ queue' = [queue EXCEPT ![c][d] = @ - 1]
      /\ UNCHANGED <<nextChannel, live, chanState, senders, cancelled, writing, closing, accepted>>
  BY DEF Receive
<1>2. queue \in [ChanIds -> [Directions -> 0..ChannelBuffer]] /\ ChannelBuffer \in Nat
  BY ChannelAssumption DEF ChannelInv, ChannelFormOK, ChannelTypeOK
<1>3. queue' \in [ChanIds -> [Directions -> 0..ChannelBuffer]]
  BY <1>1, <1>2
<1>4. ChannelFormOK' /\ SealInv'
  BY <1>1, <1>3 DEF ChannelInv, ChannelFormOK, ChannelTypeOK, SealInv, Shut
<1>5. ASSUME NEW x \in ChanIds, NEW y \in Directions
      PROVE  queue'[x][y] + Cardinality(PermitsIn(writing, x, y)) <= ChannelBuffer
  <2>1. queue'[x][y] <= queue[x][y] /\ queue'[x][y] \in Nat /\ queue[x][y] \in Nat
    BY <1>1, <1>2, <1>3
  <2>2. queue[x][y] + Cardinality(PermitsIn(writing, x, y)) <= ChannelBuffer
    BY DEF ChannelInv, RoomInv
  <2>. QED BY <1>2, <2>1, <2>2, PermitsFinite
<1>6. RoomInv'
  BY <1>1, <1>5 DEF RoomInv
<1>. QED BY <1>4, <1>6 DEF ChannelInv

LEMMA ChannelInvStep == ChannelInv /\ [ChannelNext]_channelVars => ChannelInv'
<1>1. SUFFICES ASSUME ChannelInv, [ChannelNext]_channelVars PROVE ChannelInv'
  OBVIOUS
<1>2. CASE UNCHANGED channelVars
  <2>1. ChannelFormOK' /\ SealInv'
    BY <1>1, <1>2 DEF channelVars, ChannelInv, ChannelFormOK, ChannelTypeOK, SealInv, Shut
  <2>2. RoomInv'
    BY <1>1, <1>2, RoomUnchanged DEF channelVars, ChannelInv
  <2>. QED BY <2>1, <2>2 DEF ChannelInv
<1>3. CASE ChannelNext
  <2>1. CASE OpenChannel \/ CloseNext
    BY <1>1, <2>1, OpenKeeps, CloseCancelsKeeps, CloseTakesKeeps, CloseEndsKeeps DEF CloseNext
  <2>2. ASSUME NEW c \in ChanIds,
               Established(c) \/ TakeOutboundReceiver(c) \/ CloseBegins(c) \/ ReceiveNone(c)
        PROVE  ChannelInv'
    BY <1>1, <2>2, OwnerKeeps, CloseBeginsKeeps
  <2>3. ASSUME NEW c \in ChanIds, NEW d \in Directions,
               Receive(c, d) \/ \E w \in Writers : SendBegins(w, c, d)
        PROVE  ChannelInv'
    BY <1>1, <2>3, TakeFrameKeeps, SendBeginsKeeps
  <2>4. ASSUME NEW w \in Writers, SendNext(w)
        PROVE  ChannelInv'
    BY <1>1, <2>4, SendRefusedKeeps, SendReservesKeeps, SendEnqueuesKeeps DEF SendNext
  <2>. QED BY <1>3, <2>1, <2>2, <2>3, <2>4 DEF ChannelNext
<1>. QED BY <1>1, <1>2, <1>3

\* A channel that is shut is cancelled: nothing is accepted on it, and a new
\* channel has a number that was never given.
LEMMA ShutStays ==
  ASSUME ChannelInv, [ChannelNext]_channelVars, NEW c \in ChanIds, Shut(c)
  PROVE  accepted'[c] = accepted[c] /\ c \notin live'
<1>1. c \in cancelled /\ c \notin live /\ c < nextChannel
  BY DEF ChannelInv, SealInv, Shut
<1>2. \A d : ~StillOpen(c, d)
  BY <1>1 DEF StillOpen
<1>3. CASE UNCHANGED channelVars
  BY <1>1, <1>3 DEF channelVars
<1>4. CASE OpenChannel
  <2>1. c # nextChannel
    BY <1>1 DEF ChanIds, ChannelInv, ChannelFormOK, ChannelTypeOK
  <2>. QED BY <1>1, <1>4, <2>1 DEF OpenChannel
<1>5. CASE CloseNext
  BY <1>1, <1>5 DEF CloseNext, CloseCancels, CloseTakes, CloseEnds
<1>6. ASSUME NEW x \in ChanIds,
             \/ Established(x) \/ TakeOutboundReceiver(x) \/ CloseBegins(x) \/ ReceiveNone(x)
             \/ \E d \in Directions : Receive(x, d) \/ \E w \in Writers : SendBegins(w, x, d)
      PROVE  accepted' = accepted /\ c \notin live'
  BY <1>1, <1>6 DEF Established, TakeOutboundReceiver, CloseBegins, ReceiveNone, Receive, SendBegins
<1>7. ASSUME NEW w \in Writers, SendRefused(w) \/ SendReserves(w)
      PROVE  accepted' = accepted /\ c \notin live'
  BY <1>1, <1>7 DEF SendRefused, SendReserves
<1>8. ASSUME NEW w \in Writers, SendEnqueues(w)
      PROVE  accepted'[c] = accepted[c] /\ c \notin live'
  <2>1. live' = live
    BY <1>8 DEF SendEnqueues
  <2>2. CASE StillOpen(writing[w].chan, writing[w].dir)
    <3>1. writing[w].chan # c
      BY <1>2, <2>2
    <3>. QED BY <1>1, <1>8, <2>1, <2>2, <3>1 DEF SendEnqueues, ChannelInv, ChannelFormOK
  <2>3. CASE ~StillOpen(writing[w].chan, writing[w].dir)
    BY <1>1, <1>8, <2>1, <2>3 DEF SendEnqueues
  <2>. QED BY <2>2, <2>3
<1>. QED BY <1>3, <1>4, <1>5, <1>6, <1>7, <1>8 DEF ChannelNext, SendNext

(***************************************************************************)
(* For any writers, buffer sizes and numbers of channels: permits and      *)
(* frames never exceed a queue, and once ChannelPool.close has returned no *)
(* send on the channel is accepted any more and its id is not used again.  *)
(***************************************************************************)
THEOREM ChannelsStaySealed == ChannelSpec => []ChannelTypeOK /\ SealedAfterClose
<1>1. ChannelInv => ChannelTypeOK
  BY DEF ChannelInv, ChannelFormOK
<1>2. ChannelInv /\ [ChannelNext]_channelVars =>
        [\A c \in ChanIds : Shut(c) => accepted'[c] = accepted[c] /\ c \notin live']_channelVars
  BY ShutStays
<1>. QED BY ChannelInvInit, ChannelInvStep, <1>1, <1>2, PTL DEF ChannelSpec, SealedAfterClose

-----------------------------------------------------------------------------
(***************************************************************************)
(* The event bus. What one subscription has, told without naming it.       *)
(***************************************************************************)
Subscriptions == [filter : Filters, alive : BOOLEAN]
Received == [from : Nat, got : Seq(Events), lost : Nat]

PlacesOf(f, from, p) == {i \in from..Len(p) : Wanted(f, p[i])}

SubscriptionSound(sub, sn, box, p) ==
  LET places == PlacesOf(sub.filter, sn.from, p) IN
  /\ PickedInOrder(sn.got \o box, p, places)
  /\ sub.alive => Len(sn.got \o box) + sn.lost = Cardinality(places)

BusTypeOK ==
  /\ published \in Seq(Events)
  /\ DOMAIN subs \subseteq SubIds /\ \A s \in DOMAIN subs : subs[s] \in Subscriptions
  /\ inbox \in [SubIds -> Seq(Events)]
  /\ seen \in [SubIds -> Received]

\* An id that was never used has nothing.
Unused(s) == seen[s].from = 0 => inbox[s] = <<>> /\ seen[s].got = <<>> /\ seen[s].lost = 0

BusInv ==
  /\ BusTypeOK
  /\ \A s \in SubIds : Unused(s)
  /\ \A s \in DOMAIN subs :
       /\ seen[s].from \in 1..Len(published) + 1
       /\ SubscriptionSound(subs[s], seen[s], inbox[s], published)

\* What the bus compares is what the filter asks for.
LEMMA MatchesIsWanted ==
  ASSUME NEW f, NEW e
  PROVE  Matches(f, e) <=> Wanted(f, e)
BY DEF Matches, Wanted

LEMMA PlacesFinite ==
  ASSUME NEW f, NEW from \in Nat \ {0}, NEW p \in Seq(Events)
  PROVE  /\ IsFiniteSet(PlacesOf(f, from, p)) /\ Cardinality(PlacesOf(f, from, p)) \in Nat
         /\ PlacesOf(f, from, p) \subseteq DOMAIN p
<1>1. IsFiniteSet(from..Len(p))
  BY FS_Interval
<1>2. PlacesOf(f, from, p) \subseteq from..Len(p)
  BY DEF PlacesOf
<1>3. from..Len(p) \subseteq DOMAIN p
  OBVIOUS
<1>4. IsFiniteSet(PlacesOf(f, from, p))
  BY <1>1, <1>2, FS_Subset
<1>. QED BY <1>2, <1>3, <1>4, FS_CardinalityType

\* One more event is one more place if it is wanted.
LEMMA PlacesGrow ==
  ASSUME NEW f, NEW p \in Seq(Events), NEW from \in 1..Len(p) + 1, NEW e \in Events
  PROVE  PlacesOf(f, from, Append(p, e)) =
           PlacesOf(f, from, p) \cup (IF Wanted(f, e) THEN {Len(p) + 1} ELSE {})
<1>1. /\ Append(p, e) \in Seq(Events) /\ Len(Append(p, e)) = Len(p) + 1 /\ Len(p) \in Nat
      /\ Append(p, e)[Len(p) + 1] = e /\ \A i \in 1..Len(p) : Append(p, e)[i] = p[i]
  OBVIOUS
<1>2. from..Len(p) + 1 = (from..Len(p)) \cup {Len(p) + 1} /\ from..Len(p) \subseteq 1..Len(p)
  BY <1>1
<1>. QED BY <1>1, <1>2 DEF PlacesOf

\* An event that is taken is picked last.
LEMMA PickedTaken ==
  ASSUME NEW q \in Seq(Events), NEW p \in Seq(Events), NEW e \in Events,
         NEW places \in SUBSET DOMAIN p, PickedInOrder(q, p, places)
  PROVE  PickedInOrder(Append(q, e), Append(p, e), places \cup {Len(p) + 1})
<1>1. PICK at \in [DOMAIN q -> places] :
        /\ \A i \in DOMAIN q : q[i] = p[at[i]]
        /\ \A i, j \in DOMAIN q : i < j => at[i] < at[j]
  BY DEF PickedInOrder
<1>. DEFINE Q == Append(q, e)
            P == Append(p, e)
            to == [i \in DOMAIN Q |-> IF i = Len(q) + 1 THEN Len(p) + 1 ELSE at[i]]
<1>2. /\ DOMAIN q = 1..Len(q) /\ Len(q) \in Nat /\ DOMAIN Q = 1..Len(q) + 1
      /\ Q[Len(q) + 1] = e /\ \A i \in 1..Len(q) : Q[i] = q[i]
  OBVIOUS
<1>3. /\ DOMAIN p = 1..Len(p) /\ Len(p) \in Nat
      /\ P[Len(p) + 1] = e /\ \A i \in 1..Len(p) : P[i] = p[i]
  OBVIOUS
<1>. HIDE DEF Q, P
<1>4. \A i \in 1..Len(q) : at[i] \in places /\ at[i] \in 1..Len(p)
  BY <1>1, <1>2, <1>3
<1>5. to \in [DOMAIN Q -> places \cup {Len(p) + 1}]
  BY <1>2, <1>4
<1>6. \A i \in DOMAIN Q : Q[i] = P[to[i]]
  BY <1>1, <1>2, <1>3, <1>4
<1>7. \A i, j \in DOMAIN Q : i < j => to[i] < to[j]
  BY <1>1, <1>2, <1>3, <1>4
<1>. HIDE DEF to
<1>8. PickedInOrder(Q, P, places \cup {Len(p) + 1})
  BY <1>5, <1>6, <1>7 DEF PickedInOrder
<1>. QED BY <1>8 DEF Q, P

\* One that is not taken leaves what was picked.
LEMMA PickedPassed ==
  ASSUME NEW q \in Seq(Events), NEW p \in Seq(Events), NEW e \in Events,
         NEW places \in SUBSET DOMAIN p, NEW more, places \subseteq more, PickedInOrder(q, p, places)
  PROVE  PickedInOrder(q, Append(p, e), more)
<1>1. PICK at \in [DOMAIN q -> places] :
        /\ \A i \in DOMAIN q : q[i] = p[at[i]]
        /\ \A i, j \in DOMAIN q : i < j => at[i] < at[j]
  BY DEF PickedInOrder
<1>2. DOMAIN p = 1..Len(p) /\ \A i \in 1..Len(p) : Append(p, e)[i] = p[i]
  OBVIOUS
<1>3. at \in [DOMAIN q -> more] /\ \A i \in DOMAIN q : q[i] = Append(p, e)[at[i]]
  BY <1>1, <1>2
<1>. QED BY <1>1, <1>3 DEF PickedInOrder

\* So does forgetting what waits in the channel.
LEMMA PickedPrefix ==
  ASSUME NEW q \in Seq(Events), NEW r \in Seq(Events), NEW p, NEW places, PickedInOrder(q \o r, p, places)
  PROVE  PickedInOrder(q, p, places)
<1>. DEFINE c == q \o r
<1>1. PICK at \in [DOMAIN c -> places] :
        /\ \A i \in DOMAIN c : c[i] = p[at[i]]
        /\ \A i, j \in DOMAIN c : i < j => at[i] < at[j]
  BY DEF PickedInOrder
<1>2. DOMAIN q \subseteq DOMAIN c /\ \A i \in DOMAIN q : c[i] = q[i]
  OBVIOUS
<1>. HIDE DEF c
<1>. DEFINE to == [i \in DOMAIN q |-> at[i]]
<1>3. to \in [DOMAIN q -> places] /\ \A i \in DOMAIN q : to[i] = at[i]
  BY <1>1, <1>2
<1>. HIDE DEF to
<1>4. /\ \A i \in DOMAIN q : q[i] = p[to[i]]
      /\ \A i, j \in DOMAIN q : i < j => to[i] < to[j]
  BY <1>1, <1>2, <1>3
<1>. QED BY <1>3, <1>4 DEF PickedInOrder

\* Publishing, seen from one subscription: the event is delivered, lost, or
\* not what it asked for.
LEMMA PublishedFor ==
  ASSUME NEW sub \in Subscriptions, NEW sn \in Received, NEW box \in Seq(Events), NEW p \in Seq(Events),
         sn.from \in 1..Len(p) + 1, SubscriptionSound(sub, sn, box, p), NEW e \in Events
  PROVE  /\ Wanted(sub.filter, e) => SubscriptionSound(sub, sn, Append(box, e), Append(p, e))
         /\ Wanted(sub.filter, e) => SubscriptionSound(sub, [sn EXCEPT !.lost = @ + 1], box, Append(p, e))
         /\ ~Wanted(sub.filter, e) => SubscriptionSound(sub, sn, box, Append(p, e))
<1>. DEFINE old == PlacesOf(sub.filter, sn.from, p)
            new == PlacesOf(sub.filter, sn.from, Append(p, e))
            has == sn.got \o box
<1>1. /\ sn.got \in Seq(Events) /\ sn.lost \in Nat /\ has \in Seq(Events) /\ Len(has) \in Nat
      /\ sn.got \o Append(box, e) = Append(has, e) /\ Len(Append(has, e)) = Len(has) + 1
  <2>1. sn.got \in Seq(Events) /\ sn.lost \in Nat
    BY DEF Received
  <2>. DEFINE g == sn.got
  <2>2. g \in Seq(Events)
    BY <2>1
  <2>. HIDE DEF g
  <2>3. g \o box \in Seq(Events) /\ Len(g \o box) \in Nat /\ g \o Append(box, e) = Append(g \o box, e)
        /\ Len(Append(g \o box, e)) = Len(g \o box) + 1
    BY <2>2
  <2>. QED BY <2>1, <2>3 DEF g
<1>2. /\ IsFiniteSet(old) /\ Cardinality(old) \in Nat /\ old \subseteq DOMAIN p
      /\ Len(p) \in Nat /\ Len(p) + 1 \notin old /\ sn.from \in Nat \ {0}
  <2>1. sn.from \in Nat \ {0} /\ Len(p) \in Nat
    OBVIOUS
  <2>2. Len(p) + 1 \notin old
    BY <2>1 DEF PlacesOf
  <2>. QED BY <2>1, <2>2, PlacesFinite
<1>3. new = old \cup (IF Wanted(sub.filter, e) THEN {Len(p) + 1} ELSE {})
  BY PlacesGrow
<1>4. PickedInOrder(has, p, old) /\ (sub.alive => Len(has) + sn.lost = Cardinality(old))
  BY DEF SubscriptionSound
<1>5. Cardinality(old \cup {Len(p) + 1}) = Cardinality(old) + 1
  BY <1>2, FS_AddElement
<1>. HIDE DEF old, new, has
<1>6. PickedInOrder(has, Append(p, e), new) /\ PickedInOrder(Append(has, e), Append(p, e), old \cup {Len(p) + 1})
  <2>1. old \subseteq new
    BY <1>3
  <2>. QED BY <1>1, <1>2, <1>4, <2>1, PickedPassed, PickedTaken
<1>7. ASSUME Wanted(sub.filter, e)
      PROVE  SubscriptionSound(sub, sn, Append(box, e), Append(p, e))
  <2>1. new = old \cup {Len(p) + 1}
    BY <1>3, <1>7
  <2>2. sub.alive => Len(Append(has, e)) + sn.lost = Cardinality(new)
    BY <1>1, <1>2, <1>4, <1>5, <2>1
  <2>. QED BY <1>1, <1>6, <2>1, <2>2 DEF SubscriptionSound, new
<1>8. ASSUME Wanted(sub.filter, e)
      PROVE  SubscriptionSound(sub, [sn EXCEPT !.lost = @ + 1], box, Append(p, e))
  <2>. DEFINE missed == [sn EXCEPT !.lost = @ + 1]
  <2>1. missed.from = sn.from /\ missed.got = sn.got /\ missed.lost = sn.lost + 1
    BY DEF Received
  <2>. HIDE DEF missed
  <2>2. new = old \cup {Len(p) + 1}
    BY <1>3, <1>8
  <2>3. sub.alive => Len(has) + missed.lost = Cardinality(new)
    BY <1>1, <1>2, <1>4, <1>5, <2>1, <2>2
  <2>4. SubscriptionSound(sub, missed, box, Append(p, e))
    BY <1>6, <2>1, <2>3 DEF SubscriptionSound, new, has
  <2>. QED BY <2>4 DEF missed
<1>9. ASSUME ~Wanted(sub.filter, e)
      PROVE  SubscriptionSound(sub, sn, box, Append(p, e))
  <2>1. new = old
    BY <1>3, <1>9
  <2>. QED BY <1>4, <1>6, <2>1 DEF SubscriptionSound, new, has
<1>. QED BY <1>7, <1>8, <1>9

LEMMA BusInvInit == CoreInit => BusInv
<1>1. SUFFICES ASSUME CoreInit PROVE BusInv
  OBVIOUS
<1>2. DOMAIN subs = {}
  BY <1>1 DEF CoreInit, EmptyMap
<1>3. BusTypeOK
  BY <1>1, <1>2 DEF CoreInit, BusTypeOK, Received
<1>. QED BY <1>1, <1>2, <1>3 DEF CoreInit, BusInv, Unused

\* Publishing serves, passes over or misses every subscription.
LEMMA PublishKeeps ==
  ASSUME BusInv, NEW e \in Events, Publish(e)
  PROVE  BusInv'
<1>. DEFINE addressed == {s \in DOMAIN subs : Matches(subs[s].filter, e)}
            served == {s \in addressed : subs[s].alive /\ Len(inbox[s]) < SubBuffer}
<1>1. /\ published' = Append(published, e) /\ subs' = subs
      /\ inbox' = [s \in SubIds |-> IF s \in served THEN Append(inbox[s], e) ELSE inbox[s]]
      /\ seen' = [s \in SubIds |-> IF s \in addressed \ served THEN [seen[s] EXCEPT !.lost = @ + 1]
                                   ELSE seen[s]]
  BY DEF Publish
<1>2. /\ published \in Seq(Events) /\ DOMAIN subs \subseteq SubIds /\ served \subseteq addressed
      /\ \A s \in addressed : s \in DOMAIN subs /\ Wanted(subs[s].filter, e)
      /\ \A s \in DOMAIN subs \ addressed : ~Wanted(subs[s].filter, e)
  BY MatchesIsWanted DEF BusInv, BusTypeOK
<1>. HIDE DEF addressed, served
<1>3. \A s \in SubIds : inbox[s] \in Seq(Events) /\ seen[s] \in Received
  BY DEF BusInv, BusTypeOK
<1>4. /\ Append(published, e) \in Seq(Events) /\ Len(Append(published, e)) = Len(published) + 1
      /\ Len(published) \in Nat
  BY <1>2
<1>5. \A s \in SubIds : [seen[s] EXCEPT !.lost = @ + 1] \in Received
                        /\ [seen[s] EXCEPT !.lost = @ + 1].from = seen[s].from
  BY <1>3 DEF Received
<1>6. BusTypeOK'
  <2>1. inbox' \in [SubIds -> Seq(Events)]
    BY <1>1, <1>3
  <2>2. seen' \in [SubIds -> Received]
    BY <1>1, <1>3, <1>5
  <2>. QED BY <1>1, <1>4, <2>1, <2>2 DEF BusInv, BusTypeOK
<1>7. ASSUME NEW s \in SubIds PROVE Unused(s)'
  <2>1. CASE s \in DOMAIN subs
    <3>1. seen'[s].from = seen[s].from /\ seen[s].from # 0
      BY <1>1, <1>5, <2>1 DEF BusInv
    <3>. QED BY <3>1 DEF Unused
  <2>2. CASE s \notin DOMAIN subs
    <3>1. inbox'[s] = inbox[s] /\ seen'[s] = seen[s]
      BY <1>1, <1>2, <2>2
    <3>. QED BY <3>1 DEF Unused, BusInv
  <2>. QED BY <2>1, <2>2
<1>8. ASSUME NEW s \in DOMAIN subs
      PROVE  /\ seen'[s].from \in 1..Len(published') + 1
             /\ SubscriptionSound(subs'[s], seen'[s], inbox'[s], published')
  <2>1. /\ s \in SubIds /\ subs[s] \in Subscriptions /\ seen[s] \in Received /\ inbox[s] \in Seq(Events)
        /\ seen[s].from \in 1..Len(published) + 1
        /\ SubscriptionSound(subs[s], seen[s], inbox[s], published)
    BY <1>2, <1>3 DEF BusInv, BusTypeOK
  <2>2. /\ Wanted(subs[s].filter, e) =>
             /\ SubscriptionSound(subs[s], seen[s], Append(inbox[s], e), published')
             /\ SubscriptionSound(subs[s], [seen[s] EXCEPT !.lost = @ + 1], inbox[s], published')
        /\ ~Wanted(subs[s].filter, e) => SubscriptionSound(subs[s], seen[s], inbox[s], published')
    BY <1>1, <1>2, <2>1, PublishedFor
  <2>3. seen'[s].from = seen[s].from
    BY <1>1, <1>5, <2>1
  <2>4. seen'[s].from \in 1..Len(published') + 1
    BY <1>1, <1>4, <2>1, <2>3
  <2>5. CASE s \in served
    <3>1. inbox'[s] = Append(inbox[s], e) /\ seen'[s] = seen[s]
      BY <1>1, <2>1, <2>5
    <3>. QED BY <1>1, <1>2, <2>2, <2>4, <2>5, <3>1
  <2>6. CASE s \in addressed \ served
    <3>1. inbox'[s] = inbox[s] /\ seen'[s] = [seen[s] EXCEPT !.lost = @ + 1]
      BY <1>1, <2>1, <2>6
    <3>. QED BY <1>1, <1>2, <2>2, <2>4, <2>6, <3>1
  <2>7. CASE s \notin addressed
    <3>1. inbox'[s] = inbox[s] /\ seen'[s] = seen[s]
      BY <1>1, <1>2, <2>1, <2>7
    <3>. QED BY <1>1, <1>2, <2>2, <2>4, <2>7, <3>1
  <2>. QED BY <2>5, <2>6, <2>7
<1>. QED BY <1>1, <1>6, <1>7, <1>8 DEF BusInv

LEMMA SubscribeKeeps ==
  ASSUME BusInv, NEW s \in SubIds, NEW f \in Filters, SubscribeEvents(s, f)
  PROVE  BusInv'
<1>. DEFINE sub == [filter |-> f, alive |-> TRUE]
            first == Len(published) + 1
<1>1. /\ s \notin DOMAIN subs /\ seen[s].from = 0 /\ published' = published /\ inbox' = inbox
      /\ DOMAIN subs' = DOMAIN subs \cup {s} /\ subs'[s] = sub
      /\ \A x \in DOMAIN subs : subs'[x] = subs[x]
      /\ seen' = [seen EXCEPT ![s].from = first]
  BY DEF SubscribeEvents, Put
<1>2. /\ published \in Seq(Events) /\ Len(published) \in Nat /\ sub \in Subscriptions
      /\ seen[s] \in Received /\ inbox[s] = <<>> /\ seen[s].got = <<>> /\ seen[s].lost = 0
  BY <1>1 DEF BusInv, BusTypeOK, Unused, Subscriptions
<1>3. /\ seen'[s].from = first /\ seen'[s].got = <<>> /\ seen'[s].lost = 0 /\ seen'[s] \in Received
      /\ \A x \in SubIds \ {s} : seen'[x] = seen[x]
  <2>1. first \in Nat
    BY <1>2
  <2>2. seen \in [SubIds -> Received]
    BY DEF BusInv, BusTypeOK
  <2>. HIDE DEF first
  <2>. QED BY <1>1, <1>2, <2>1, <2>2 DEF Received
<1>4. BusTypeOK'
  BY <1>1, <1>2, <1>3 DEF BusInv, BusTypeOK
<1>5. \A x \in SubIds : Unused(x)'
  BY <1>1, <1>2, <1>3 DEF BusInv, Unused
<1>6. SubscriptionSound(sub, seen'[s], <<>>, published)
  <2>1. PlacesOf(f, first, published) = {}
    BY <1>2 DEF PlacesOf
  <2>2. Cardinality({}) = 0
    BY FS_EmptySet
  <2>3. seen'[s].got \o <<>> = <<>> /\ Len(<<>>) = 0 /\ DOMAIN <<>> = {}
    BY <1>3
  <2>4. PickedInOrder(<<>>, published, {})
    <3>. DEFINE at == [i \in {} |-> i]
    <3>1. at \in [{} -> {}]
      OBVIOUS
    <3>. HIDE DEF at
    <3>. QED BY <2>3, <3>1, Zenon DEF PickedInOrder
  <2>5. sub.filter = f /\ PlacesOf(sub.filter, seen'[s].from, published) = {}
    BY <1>3, <2>1
  <2>6. Len(seen'[s].got \o <<>>) + seen'[s].lost = 0
    BY <1>3, <2>3
  <2>. HIDE DEF sub
  <2>. QED BY <2>2, <2>3, <2>4, <2>5, <2>6, Zenon DEF SubscriptionSound
<1>7. ASSUME NEW x \in DOMAIN subs'
      PROVE  /\ seen'[x].from \in 1..Len(published') + 1
             /\ SubscriptionSound(subs'[x], seen'[x], inbox'[x], published')
  <2>1. CASE x = s
    <3>1. first \in 1..Len(published) + 1
      BY <1>2
    <3>. QED BY <1>1, <1>2, <1>3, <1>6, <2>1, <3>1
  <2>2. CASE x # s
    BY <1>1, <1>3, <2>2 DEF BusInv, BusTypeOK
  <2>. QED BY <2>1, <2>2
<1>. QED BY <1>4, <1>5, <1>7 DEF BusInv

LEMMA UnsubscribeKeeps ==
  ASSUME BusInv, NEW s \in DOMAIN subs, UnsubscribeEvents(s)
  PROVE  BusInv'
<1>1. /\ DOMAIN subs' = DOMAIN subs \ {s} /\ \A x \in DOMAIN subs' : subs'[x] = subs[x]
      /\ published' = published /\ inbox' = inbox /\ seen' = seen
  BY DEF UnsubscribeEvents, Drop
<1>. QED BY <1>1 DEF BusInv, BusTypeOK, Unused

LEMMA DropReceiverKeeps ==
  ASSUME BusInv, NEW s \in DOMAIN subs, ReceiverDropped(s)
  PROVE  BusInv'
<1>1. /\ subs' = [subs EXCEPT ![s].alive = FALSE] /\ inbox' = [inbox EXCEPT ![s] = <<>>]
      /\ published' = published /\ seen' = seen
  BY DEF ReceiverDropped
<1>2. /\ s \in SubIds /\ subs[s] \in Subscriptions /\ inbox[s] \in Seq(Events) /\ seen[s] \in Received
      /\ seen[s].from \in 1..Len(published) + 1
      /\ SubscriptionSound(subs[s], seen[s], inbox[s], published)
  BY DEF BusInv, BusTypeOK
<1>3. /\ DOMAIN subs' = DOMAIN subs /\ subs'[s].filter = subs[s].filter /\ ~subs'[s].alive
      /\ subs'[s] \in Subscriptions /\ \A x \in DOMAIN subs \ {s} : subs'[x] = subs[x]
  BY <1>1, <1>2 DEF Subscriptions
<1>4. inbox'[s] = <<>> /\ \A x \in SubIds \ {s} : inbox'[x] = inbox[x]
  BY <1>1, <1>2 DEF BusInv, BusTypeOK
<1>5. inbox' \in [SubIds -> Seq(Events)]
  <2>1. <<>> \in Seq(Events)
    OBVIOUS
  <2>. QED BY <1>1, <2>1 DEF BusInv, BusTypeOK
<1>6. BusTypeOK'
  BY <1>1, <1>3, <1>5 DEF BusInv, BusTypeOK
<1>7. \A x \in SubIds : Unused(x)'
  BY <1>1, <1>4 DEF BusInv, Unused
<1>8. SubscriptionSound(subs'[s], seen[s], <<>>, published)
  <2>. DEFINE g == seen[s].got
              places == PlacesOf(subs[s].filter, seen[s].from, published)
  <2>1. g \in Seq(Events) /\ PickedInOrder(g \o inbox[s], published, places)
    BY <1>2 DEF Received, SubscriptionSound
  <2>. HIDE DEF g, places
  <2>2. g \o <<>> = g
    BY <2>1
  <2>3. PickedInOrder(g, published, places)
    BY <1>2, <2>1, PickedPrefix
  <2>. QED BY <1>3, <2>2, <2>3 DEF SubscriptionSound, g, places
<1>9. \A x \in DOMAIN subs' :
        /\ seen'[x].from \in 1..Len(published') + 1
        /\ SubscriptionSound(subs'[x], seen'[x], inbox'[x], published')
  <2>1. ASSUME NEW x \in DOMAIN subs \ {s}
        PROVE  /\ seen'[x].from \in 1..Len(published') + 1
               /\ SubscriptionSound(subs'[x], seen'[x], inbox'[x], published')
    <3>1. x \in SubIds \ {s}
      BY DEF BusInv, BusTypeOK
    <3>. QED BY <1>1, <1>3, <1>4, <3>1 DEF BusInv
  <2>. QED BY <1>1, <1>2, <1>3, <1>4, <1>8, <2>1
<1>. QED BY <1>6, <1>7, <1>9 DEF BusInv

\* Receiving moves an event from the channel to what was received.
LEMMA ReceiveKeeps ==
  ASSUME BusInv, NEW s \in SubIds, ReceiveEvent(s)
  PROVE  BusInv'
<1>1. /\ inbox[s] # <<>> /\ seen' = [seen EXCEPT ![s].got = Append(@, Head(inbox[s]))]
      /\ inbox' = [inbox EXCEPT ![s] = Tail(@)] /\ published' = published /\ subs' = subs
  BY DEF ReceiveEvent
<1>2. inbox[s] \in Seq(Events) /\ seen[s] \in Received
  BY DEF BusInv, BusTypeOK
<1>. DEFINE g == seen[s].got
            b == inbox[s]
<1>3. g \in Seq(Events) /\ b \in Seq(Events) /\ b # <<>>
  BY <1>1, <1>2 DEF Received
<1>4. /\ seen'[s].got = Append(g, Head(b)) /\ seen'[s].from = seen[s].from /\ seen'[s].lost = seen[s].lost
      /\ \A x \in SubIds \ {s} : seen'[x] = seen[x] /\ inbox'[x] = inbox[x]
      /\ inbox'[s] = Tail(b)
  BY <1>1, <1>2 DEF BusInv, BusTypeOK, Received
<1>. HIDE DEF g, b
<1>5. Append(g, Head(b)) \in Seq(Events) /\ Tail(b) \in Seq(Events) /\ Append(g, Head(b)) \o Tail(b) = g \o b
  <2>1. Head(b) \in Events /\ Tail(b) \in Seq(Events) /\ Append(g, Head(b)) \in Seq(Events)
    BY <1>3
  <2>2. Len(b) \in Nat \ {0} /\ Len(g) \in Nat
    BY <1>3
  <2>3. Len(Append(g, Head(b)) \o Tail(b)) = Len(g \o b)
    BY <1>3, <2>1, <2>2
  <2>4. \A i \in 1..Len(g \o b) : (Append(g, Head(b)) \o Tail(b))[i] = (g \o b)[i]
    BY <1>3, <2>1, <2>2
  <2>5. Append(g, Head(b)) \o Tail(b) \in Seq(Events) /\ g \o b \in Seq(Events)
    BY <1>3, <2>1
  <2>. QED BY <2>1, <2>3, <2>4, <2>5, SeqEqual
<1>6. BusTypeOK'
  <2>1. seen'[s] \in Received
    BY <1>1, <1>2, <1>5 DEF g, b, BusInv, BusTypeOK, Received
  <2>2. seen' \in [SubIds -> Received]
    BY <1>1, <1>4, <2>1 DEF BusInv, BusTypeOK
  <2>3. inbox' \in [SubIds -> Seq(Events)]
    BY <1>1, <1>4, <1>5 DEF BusInv, BusTypeOK
  <2>. QED BY <1>1, <2>2, <2>3 DEF BusInv, BusTypeOK
<1>7. \A x \in SubIds : Unused(x)'
  BY <1>1, <1>4 DEF BusInv, Unused
<1>8. ASSUME NEW x \in DOMAIN subs
      PROVE  /\ seen'[x].from \in 1..Len(published') + 1
             /\ SubscriptionSound(subs'[x], seen'[x], inbox'[x], published')
  <2>1. x \in SubIds /\ seen[x].from \in 1..Len(published) + 1
        /\ SubscriptionSound(subs[x], seen[x], inbox[x], published)
    BY DEF BusInv, BusTypeOK
  <2>2. CASE x = s
    <3>1. seen'[s].got \o inbox'[s] = seen[s].got \o inbox[s]
      BY <1>4, <1>5 DEF g, b
    <3>. QED BY <1>1, <1>4, <2>1, <2>2, <3>1 DEF SubscriptionSound
  <2>3. CASE x # s
    BY <1>1, <1>4, <2>1, <2>3
  <2>. QED BY <2>2, <2>3
<1>. QED BY <1>1, <1>6, <1>7, <1>8 DEF BusInv

LEMMA BusInvStep == BusInv /\ [EventBusNext \/ PoolNext]_coreVars => BusInv'
<1>1. SUFFICES ASSUME BusInv, [EventBusNext \/ PoolNext]_coreVars PROVE BusInv'
  OBVIOUS
<1>2. CASE EventBusNext
  BY <1>1, <1>2, PublishKeeps, SubscribeKeeps, UnsubscribeKeeps, DropReceiverKeeps, ReceiveKeeps DEF EventBusNext
<1>3. CASE PoolNext \/ UNCHANGED coreVars
  <2>1. UNCHANGED busVars
    BY <1>3 DEF PoolNext, ResetUsage, AddLimit, ReleaseGuard, AcquireGuard, coreVars
  <2>. QED BY <1>1, <2>1 DEF busVars, BusInv, BusTypeOK, Unused
<1>. QED BY <1>1, <1>2, <1>3

LEMMA BusIsSound == BusInv => SubscriberSeesMatching
BY DEF BusInv, SubscriberSeesMatching, SubscriptionSound, WantedPlaces, PlacesOf, Has
(***************************************************************************)
(* The resource pool. A guard is out for as many units as it took; a limit *)
(* replaced or reset while one is out is the only way to lose count.       *)
(***************************************************************************)
Guards == [kind : Kinds, amount : 1..PoolMax] \cup {NoGuard}

UnitsOf(g, k) == {u \in Holders \X (1..PoolMax) : g[u[1]].kind = k /\ u[2] <= g[u[1]].amount}

PoolInv ==
  /\ usage \in [DOMAIN usage -> Nat]
  /\ guards \in [Holders -> Guards]
  /\ \A h \in Holders : guards[h] # NoGuard => guards[h].kind \in DOMAIN usage
  /\ disturbed \in BOOLEAN
  /\ ~disturbed => \A k \in DOMAIN usage : usage[k] = Cardinality(UnitsOf(guards, k)) /\ usage[k] <= PoolMax

LEMMA UnitsFinite ==
  ASSUME NEW g, NEW k
  PROVE  IsFiniteSet(UnitsOf(g, k)) /\ Cardinality(UnitsOf(g, k)) \in Nat
<1>1. IsFiniteSet(Holders) /\ IsFiniteSet(1..PoolMax)
  BY CoreAssumption, FS_Interval
<1>2. IsFiniteSet(Holders \X (1..PoolMax))
  BY <1>1, FS_Product
<1>3. UnitsOf(g, k) \subseteq Holders \X (1..PoolMax)
  BY DEF UnitsOf
<1>4. IsFiniteSet(UnitsOf(g, k))
  BY <1>2, <1>3, FS_Subset
<1>. QED BY <1>4, FS_CardinalityType

\* A guard more is its amount more, of its kind alone.
LEMMA UnitsGrow ==
  ASSUME NEW g \in [Holders -> Guards], NEW h \in Holders, g[h] = NoGuard,
         NEW k \in Kinds, NEW n \in 1..PoolMax, NEW kind
  PROVE  Cardinality(UnitsOf([g EXCEPT ![h] = [kind |-> k, amount |-> n]], kind)) =
           Cardinality(UnitsOf(g, kind)) + (IF kind = k THEN n ELSE 0)
<1>. DEFINE G == [g EXCEPT ![h] = [kind |-> k, amount |-> n]]
            extra == {h} \X (1..n)
<1>0. PoolMax \in Nat /\ n \in Nat /\ 1..n \subseteq 1..PoolMax
  BY CoreAssumption
<1>1. G[h].kind = k /\ G[h].amount = n /\ \A x \in Holders \ {h} : G[x] = g[x]
  OBVIOUS
<1>2. g[h].amount = 0 /\ \A i \in 1..PoolMax : ~(i <= g[h].amount)
  BY DEF NoGuard
<1>. HIDE DEF G
<1>3. CASE kind = k
  <2>1. UnitsOf(G, kind) = UnitsOf(g, kind) \cup extra
    <3>1. ASSUME NEW u \in Holders \X (1..PoolMax)
          PROVE  u \in UnitsOf(G, kind) <=> u \in UnitsOf(g, kind) \/ u \in extra
      <4>1. PICK x \in Holders, i \in 1..PoolMax : u = <<x, i>>
        OBVIOUS
      <4>2. CASE x = h
        <5>1. u \notin UnitsOf(g, kind)
          BY <1>2, <4>1, <4>2 DEF UnitsOf
        <5>2. u \in extra <=> i <= n
          BY <1>0, <4>1, <4>2
        <5>3. u \in UnitsOf(G, kind) <=> i <= n
          BY <1>1, <1>3, <4>1, <4>2 DEF UnitsOf
        <5>. QED BY <5>1, <5>2, <5>3
      <4>3. CASE x # h
        BY <1>1, <4>1, <4>3 DEF UnitsOf
      <4>. QED BY <4>2, <4>3
    <3>2. extra \subseteq Holders \X (1..PoolMax)
      BY <1>0
    <3>. HIDE DEF extra
    <3>. QED BY <3>1, <3>2 DEF UnitsOf
  <2>2. UnitsOf(g, kind) \cap extra = {}
    BY <1>2 DEF UnitsOf
  <2>3. IsFiniteSet(extra) /\ Cardinality(extra) = n
    <3>1. IsFiniteSet({h}) /\ Cardinality({h}) = 1
      BY FS_Singleton
    <3>2. IsFiniteSet(1..n) /\ Cardinality(1..n) = n
      BY <1>0, FS_Interval
    <3>3. IsFiniteSet(extra) /\ Cardinality(extra) = Cardinality({h}) * Cardinality(1..n)
      BY <3>1, <3>2, FS_Product
    <3>. QED BY <1>0, <3>1, <3>2, <3>3
  <2>. HIDE DEF extra
  <2>4. IsFiniteSet(UnitsOf(g, kind)) /\ Cardinality(UnitsOf(g, kind)) \in Nat
    BY UnitsFinite
  <2>5. Cardinality(UnitsOf(g, kind) \cup extra) =
          Cardinality(UnitsOf(g, kind)) + Cardinality(extra) - Cardinality(UnitsOf(g, kind) \cap extra)
    BY <2>3, <2>4, FS_Union
  <2>6. Cardinality(UnitsOf(g, kind) \cap extra) = 0
    BY <2>2, FS_EmptySet
  <2>7. Cardinality(UnitsOf(G, kind)) = Cardinality(UnitsOf(g, kind)) + n
    BY <1>0, <2>1, <2>3, <2>4, <2>5, <2>6
  <2>. QED BY <1>3, <2>7 DEF G
<1>4. CASE kind # k
  <2>1. UnitsOf(G, kind) = UnitsOf(g, kind)
    <3>1. ASSUME NEW u \in Holders \X (1..PoolMax)
          PROVE  u \in UnitsOf(G, kind) <=> u \in UnitsOf(g, kind)
      <4>1. PICK x \in Holders, i \in 1..PoolMax : u = <<x, i>>
        OBVIOUS
      <4>. QED BY <1>1, <1>2, <1>4, <4>1 DEF UnitsOf
    <3>. QED BY <3>1 DEF UnitsOf
  <2>2. Cardinality(UnitsOf(g, kind)) + 0 = Cardinality(UnitsOf(g, kind))
    BY UnitsFinite
  <2>. QED BY <1>4, <2>1, <2>2 DEF G
<1>. QED BY <1>3, <1>4

LEMMA PoolInvInit == CoreInit => PoolInv
BY DEF CoreInit, PoolInv, EmptyMap, Guards

LEMMA AcquireKeeps ==
  ASSUME PoolInv, NEW h \in Holders, NEW k \in Kinds, NEW n \in 1..PoolMax, AcquireGuard(h, k, n)
  PROVE  PoolInv'
<1>. DEFINE G == [guards EXCEPT ![h] = [kind |-> k, amount |-> n]]
<1>1. /\ guards[h] = NoGuard /\ k \in DOMAIN usage /\ PoolMax - usage[k] >= n
      /\ usage' = [usage EXCEPT ![k] = @ + n] /\ guards' = G /\ disturbed' = disturbed
  BY DEF AcquireGuard
<1>2. /\ usage \in [DOMAIN usage -> Nat] /\ guards \in [Holders -> Guards]
      /\ PoolMax \in Nat /\ n \in Nat /\ usage[k] \in Nat
  BY <1>1, CoreAssumption DEF PoolInv
<1>3. /\ DOMAIN usage' = DOMAIN usage /\ usage'[k] = usage[k] + n
      /\ \A x \in DOMAIN usage \ {k} : usage'[x] = usage[x]
  BY <1>1, <1>2
<1>4. usage' \in [DOMAIN usage -> Nat]
  BY <1>1, <1>2
<1>5. /\ G \in [Holders -> Guards] /\ G[h].kind = k /\ \A x \in Holders \ {h} : G[x] = guards[x]
  BY <1>2 DEF Guards
<1>6. \A x \in Holders : G[x] # NoGuard => G[x].kind \in DOMAIN usage
  BY <1>1, <1>5 DEF PoolInv
<1>7. \A kind : Cardinality(UnitsOf(G, kind)) = Cardinality(UnitsOf(guards, kind)) + (IF kind = k THEN n ELSE 0)
  BY <1>1, <1>2, UnitsGrow
<1>. HIDE DEF G
<1>8. ASSUME ~disturbed, NEW x \in DOMAIN usage
      PROVE  usage'[x] = Cardinality(UnitsOf(G, x)) /\ usage'[x] <= PoolMax
  <2>1. usage[x] = Cardinality(UnitsOf(guards, x)) /\ usage[x] <= PoolMax /\ usage[x] \in Nat
    BY <1>2, <1>8 DEF PoolInv
  <2>2. CASE x = k
    BY <1>1, <1>2, <1>3, <1>7, <2>1, <2>2
  <2>3. CASE x # k
    BY <1>3, <1>7, <2>1, <2>3
  <2>. QED BY <2>2, <2>3
<1>. QED BY <1>1, <1>3, <1>4, <1>5, <1>6, <1>8 DEF PoolInv

LEMMA ReleaseKeeps ==
  ASSUME PoolInv, NEW h \in Holders, ReleaseGuard(h)
  PROVE  PoolInv'
<1>. DEFINE G == [guards EXCEPT ![h] = NoGuard]
            k == guards[h].kind
            n == guards[h].amount
<1>1. /\ guards[h] # NoGuard /\ usage' = [usage EXCEPT ![k] = SaturatingSub(usage[k], n)]
      /\ guards' = G /\ disturbed' = disturbed
  BY DEF ReleaseGuard, GivenBack
<1>2. /\ usage \in [DOMAIN usage -> Nat] /\ guards \in [Holders -> Guards] /\ PoolMax \in Nat
      /\ k \in DOMAIN usage /\ k \in Kinds /\ n \in 1..PoolMax /\ guards[h] = [kind |-> k, amount |-> n]
  BY <1>1, CoreAssumption DEF PoolInv, Guards
<1>3. usage[k] \in Nat /\ n \in Nat /\ SaturatingSub(usage[k], n) \in Nat
      /\ (n <= usage[k] => SaturatingSub(usage[k], n) = usage[k] - n)
  BY <1>2 DEF SaturatingSub
<1>4. /\ DOMAIN usage' = DOMAIN usage /\ usage'[k] = SaturatingSub(usage[k], n)
      /\ \A x \in DOMAIN usage \ {k} : usage'[x] = usage[x]
      /\ usage' \in [DOMAIN usage -> Nat]
  BY <1>1, <1>2, <1>3
<1>5. G \in [Holders -> Guards] /\ G[h] = NoGuard /\ \A x \in Holders \ {h} : G[x] = guards[x]
  BY <1>2 DEF Guards
<1>6. \A x \in Holders : G[x] # NoGuard => G[x].kind \in DOMAIN usage
  BY <1>5 DEF PoolInv
<1>7. [G EXCEPT ![h] = [kind |-> k, amount |-> n]] = guards
  BY <1>2
<1>. HIDE DEF G, k, n
<1>8. \A kind : Cardinality(UnitsOf(guards, kind)) = Cardinality(UnitsOf(G, kind)) + (IF kind = k THEN n ELSE 0)
  <2>1. \A kind : Cardinality(UnitsOf([G EXCEPT ![h] = [kind |-> k, amount |-> n]], kind)) =
                    Cardinality(UnitsOf(G, kind)) + (IF kind = k THEN n ELSE 0)
    BY <1>2, <1>5, UnitsGrow
  <2>. QED BY <1>7, <2>1
<1>9. ASSUME ~disturbed, NEW x \in DOMAIN usage
      PROVE  usage'[x] = Cardinality(UnitsOf(G, x)) /\ usage'[x] <= PoolMax
  <2>1. usage[x] = Cardinality(UnitsOf(guards, x)) /\ usage[x] <= PoolMax /\ usage[x] \in Nat
        /\ Cardinality(UnitsOf(G, x)) \in Nat
    BY <1>2, <1>9, UnitsFinite DEF PoolInv
  <2>2. CASE x = k
    <3>1. usage[x] = Cardinality(UnitsOf(G, x)) + n
      BY <1>8, <2>1, <2>2
    <3>2. n <= usage[x] /\ usage[x] - n = Cardinality(UnitsOf(G, x))
      BY <1>3, <2>1, <3>1
    <3>3. usage'[x] = usage[x] - n
      BY <1>3, <1>4, <2>2, <3>2
    <3>. QED BY <1>2, <1>3, <2>1, <3>2, <3>3
  <2>3. CASE x # k
    BY <1>4, <1>8, <2>1, <2>3
  <2>. QED BY <2>2, <2>3
<1>. QED BY <1>1, <1>4, <1>5, <1>6, <1>9 DEF PoolInv

\* No guard of a kind is out: no unit of it is.
LEMMA NothingOut ==
  ASSUME guards \in [Holders -> Guards], NEW k, \A h \in GuardsOut : guards[h].kind # k
  PROVE  Cardinality(UnitsOf(guards, k)) = 0
<1>1. ASSUME NEW u \in Holders \X (1..PoolMax) PROVE u \notin UnitsOf(guards, k)
  <2>1. PICK x \in Holders, i \in 1..PoolMax : u = <<x, i>>
    OBVIOUS
  <2>2. guards[x] = NoGuard => ~(i <= guards[x].amount)
    BY <2>1 DEF NoGuard
  <2>. QED BY <2>1, <2>2 DEF UnitsOf, GuardsOut
<1>2. UnitsOf(guards, k) = {}
  BY <1>1 DEF UnitsOf
<1>. QED BY <1>2, FS_EmptySet

LEMMA LimitKeeps ==
  ASSUME PoolInv, NEW k \in Kinds, AddLimit(k)
  PROVE  PoolInv'
<1>1. /\ DOMAIN usage' = DOMAIN usage \cup {k} /\ usage'[k] = 0 /\ guards' = guards
      /\ \A x \in DOMAIN usage \ {k} : usage'[x] = usage[x]
      /\ usage' = [x \in DOMAIN usage \cup {k} |-> IF x = k THEN 0 ELSE usage[x]]
      /\ disturbed' = (disturbed \/ \E h \in GuardsOut : guards[h].kind = k)
  BY DEF AddLimit, Put
<1>2. usage' \in [DOMAIN usage' -> Nat] /\ disturbed' \in BOOLEAN
  BY <1>1 DEF PoolInv
<1>3. ASSUME ~disturbed', NEW x \in DOMAIN usage'
      PROVE  usage'[x] = Cardinality(UnitsOf(guards, x)) /\ usage'[x] <= PoolMax
  <2>1. ~disturbed /\ \A h \in GuardsOut : guards[h].kind # k
    BY <1>1, <1>3 DEF PoolInv
  <2>2. CASE x = k
    <3>1. Cardinality(UnitsOf(guards, k)) = 0
      BY <2>1, NothingOut DEF PoolInv
    <3>. QED BY <1>1, <2>2, <3>1, CoreAssumption
  <2>3. CASE x # k
    BY <1>1, <1>3, <2>1, <2>3 DEF PoolInv
  <2>. QED BY <2>2, <2>3
<1>. QED BY <1>1, <1>2, <1>3 DEF PoolInv

LEMMA ResetKeeps ==
  ASSUME PoolInv, ResetUsage
  PROVE  PoolInv'
<1>1. /\ usage' = [k \in DOMAIN usage |-> 0] /\ guards' = guards
      /\ disturbed' = (disturbed \/ GuardsOut # {})
  BY DEF ResetUsage
<1>2. usage' \in [DOMAIN usage' -> Nat] /\ disturbed' \in BOOLEAN /\ DOMAIN usage' = DOMAIN usage
  BY <1>1 DEF PoolInv
<1>3. ASSUME ~disturbed', NEW x \in DOMAIN usage'
      PROVE  usage'[x] = Cardinality(UnitsOf(guards, x)) /\ usage'[x] <= PoolMax
  <2>1. GuardsOut = {}
    BY <1>1, <1>3
  <2>2. Cardinality(UnitsOf(guards, x)) = 0
    BY <2>1, NothingOut DEF PoolInv
  <2>. QED BY <1>1, <1>2, <1>3, <2>2, CoreAssumption
<1>. QED BY <1>1, <1>2, <1>3 DEF PoolInv

LEMMA PoolInvStep == PoolInv /\ [EventBusNext \/ PoolNext]_coreVars => PoolInv'
<1>1. SUFFICES ASSUME PoolInv, [EventBusNext \/ PoolNext]_coreVars PROVE PoolInv'
  OBVIOUS
<1>2. CASE PoolNext
  BY <1>1, <1>2, ResetKeeps, LimitKeeps, ReleaseKeeps, AcquireKeeps DEF PoolNext
<1>3. CASE EventBusNext \/ UNCHANGED coreVars
  <2>1. UNCHANGED poolVars
    BY <1>3 DEF EventBusNext, ReceiveEvent, SubscribeEvents, UnsubscribeEvents, ReceiverDropped, Publish, coreVars
  <2>. QED BY <1>1, <2>1 DEF poolVars, PoolInv
<1>. QED BY <1>1, <1>2, <1>3

LEMMA PoolIsSound == PoolInv => PoolAccountsForGuards
BY DEF PoolInv, PoolAccountsForGuards, Held, UnitsHeld, UnitsOf

(***************************************************************************)
(* For any subscribers, filters, channel sizes, holders and limits: a      *)
(* subscriber gets wanted events only, in the order publish saw them, and  *)
(* misses as many as found its channel full; the pool's usage is what its  *)
(* guards hold unless a limit was replaced or reset under one.             *)
(***************************************************************************)
THEOREM CoreStaysSound == CoreSpec => []CoreSound
<1>1. CoreInit => BusInv /\ PoolInv
  BY BusInvInit, PoolInvInit
<1>2. (BusInv /\ PoolInv) /\ [EventBusNext \/ PoolNext]_coreVars => (BusInv /\ PoolInv)'
  BY BusInvStep, PoolInvStep
<1>3. BusInv /\ PoolInv => CoreSound
  BY BusIsSound, PoolIsSound DEF CoreSound
<1>. QED BY <1>1, <1>2, <1>3, PTL DEF CoreSpec

-----------------------------------------------------------------------------
(***************************************************************************)
(* The router. An agent that was deregistered is subscribed only to topics *)
(* the walk that removes it has still to visit.                            *)
(***************************************************************************)
RouterCalls ==
  [step : {"idle", "visit", "remove"}, agent : RouteAgents \cup {Nobody},
   visit : SUBSET Topics, empty : SUBSET Topics]

RouterTyped ==
  /\ \A a \in DOMAIN routes : routes[a] \in Seq(RouteEntries) /\ routes[a] # <<>>
  /\ DOMAIN topics \subseteq Topics
  /\ \A t \in DOMAIN topics :
       /\ topics[t] \in Seq(RouteAgents)
       /\ \A i, j \in DOMAIN topics[t] : topics[t][i] = topics[t][j] => i = j
  /\ routerCall \in [RouterTasks -> RouterCalls]

StillVisited(a, t) ==
  \E k \in RouterTasks : routerCall[k].agent = a /\ routerCall[k].step = "visit" /\ t \in routerCall[k].visit

RouterInv ==
  /\ RouterTyped
  /\ \A a \in departed : /\ a \notin DOMAIN routes
                         /\ \A t \in DOMAIN topics : Contains(topics[t], a) => StillVisited(a, t)

\* A sequence without the element at k.
LEMMA RemovedAt ==
  ASSUME NEW T, NEW s \in Seq(T), NEW k \in 1..Len(s)
  PROVE  /\ RemoveAt(s, k) \in Seq(T) /\ Len(RemoveAt(s, k)) = Len(s) - 1
         /\ \A i \in 1..(Len(s) - 1) : RemoveAt(s, k)[i] = IF i < k THEN s[i] ELSE s[i + 1]
<1>1. PICK x \in Int, y \in Int, n \in Nat : x = k - 1 /\ y = k + 1 /\ n = Len(s)
  OBVIOUS
<1>2. k \in Nat /\ 1 <= k /\ k <= n /\ DOMAIN s = 1..n /\ \A i \in 1..n : s[i] \in T
  BY <1>1
<1>. DEFINE a == SubSeq(s, 1, x)
            b == SubSeq(s, y, n)
<1>3. a \in Seq(T) /\ Len(a) = k - 1 /\ \A i \in 1..(k - 1) : a[i] = s[i]
  <2>1. \A i \in 1..x : s[i] \in T
    BY <1>1, <1>2
  <2>2. /\ a \in Seq(T) /\ Len(a) = IF 1 <= x THEN x - 1 + 1 ELSE 0
        /\ \A i \in 1..(x - 1 + 1) : a[i] = s[1 + i - 1]
    BY <2>1, SubSeqProperties
  <2>. HIDE DEF a
  <2>3. Len(a) = k - 1
    BY <1>1, <1>2, <2>2
  <2>4. ASSUME NEW i \in 1..(k - 1) PROVE a[i] = s[i]
    <3>1. i \in 1..(x - 1 + 1) /\ 1 + i - 1 = i
      BY <1>1, <1>2
    <3>. QED BY <2>2, <3>1
  <2>. QED BY <2>2, <2>3, <2>4
<1>4. b \in Seq(T) /\ Len(b) = n - k /\ \A i \in 1..(n - k) : b[i] = s[k + i]
  <2>1. \A i \in y..n : s[i] \in T
    BY <1>1, <1>2
  <2>2. /\ b \in Seq(T) /\ Len(b) = IF y <= n THEN n - y + 1 ELSE 0
        /\ \A i \in 1..(n - y + 1) : b[i] = s[y + i - 1]
    BY <2>1, SubSeqProperties
  <2>. HIDE DEF b
  <2>3. Len(b) = n - k
    BY <1>1, <1>2, <2>2
  <2>4. ASSUME NEW i \in 1..(n - k) PROVE b[i] = s[k + i]
    <3>1. i \in 1..(n - y + 1) /\ y + i - 1 = k + i
      BY <1>1, <1>2
    <3>. QED BY <2>2, <3>1
  <2>. QED BY <2>2, <2>3, <2>4
<1>5. RemoveAt(s, k) = a \o b
  BY <1>1 DEF RemoveAt
<1>. HIDE DEF a, b
<1>6. /\ a \o b \in Seq(T) /\ Len(a \o b) = Len(a) + Len(b)
      /\ \A i \in 1..(Len(a) + Len(b)) : (a \o b)[i] = IF i <= Len(a) THEN a[i] ELSE b[i - Len(a)]
  BY <1>3, <1>4, ConcatProperties
<1>7. Len(a \o b) = Len(s) - 1
  BY <1>1, <1>2, <1>3, <1>4, <1>6
<1>8. ASSUME NEW i \in 1..(Len(s) - 1) PROVE (a \o b)[i] = IF i < k THEN s[i] ELSE s[i + 1]
  <2>1. (a \o b)[i] = IF i <= k - 1 THEN a[i] ELSE b[i - (k - 1)]
    BY <1>1, <1>2, <1>3, <1>4, <1>6
  <2>2. CASE i < k
    <3>1. i \in 1..(k - 1)
      BY <1>1, <1>2, <2>2
    <3>. QED BY <1>2, <1>3, <2>1, <2>2, <3>1
  <2>3. CASE ~(i < k)
    <3>1. i - (k - 1) \in 1..(n - k) /\ k + (i - (k - 1)) = i + 1 /\ ~(i <= k - 1)
      BY <1>1, <1>2, <2>3
    <3>. QED BY <1>4, <2>1, <2>3, <3>1
  <2>. QED BY <2>2, <2>3
<1>. QED BY <1>5, <1>6, <1>7, <1>8

\* Without its place an agent is not in the list, and the others are.
LEMMA WithoutRight ==
  ASSUME NEW T, NEW s \in Seq(T), NEW a, \A i, j \in DOMAIN s : s[i] = s[j] => i = j
  PROVE  /\ Without(a, s) \in Seq(T) /\ ~Contains(Without(a, s), a)
         /\ \A b : Contains(Without(a, s), b) => Contains(s, b)
         /\ \A i, j \in DOMAIN Without(a, s) : Without(a, s)[i] = Without(a, s)[j] => i = j
<1>. DEFINE at == {i \in DOMAIN s : s[i] = a}
<1>1. CASE at = {}
  <2>1. Without(a, s) = s
    BY <1>1 DEF Without
  <2>. QED BY <1>1, <2>1 DEF Contains
<1>2. CASE at # {}
  <2>1. PICK k \in at : k = CHOOSE i \in at : TRUE
    BY <1>2
  <2>2. Without(a, s) = RemoveAt(s, k)
    BY <1>2, <2>1 DEF Without
  <2>3. PICK n \in Nat : n = Len(s)
    OBVIOUS
  <2>4. k \in 1..n /\ DOMAIN s = 1..n /\ s[k] = a
    BY <2>1, <2>3
  <2>. DEFINE r == RemoveAt(s, k)
  <2>5. r \in Seq(T) /\ Len(r) = n - 1 /\ \A i \in 1..(n - 1) : r[i] = IF i < k THEN s[i] ELSE s[i + 1]
    BY <2>3, <2>4, RemovedAt
  <2>. HIDE DEF r
  <2>6. DOMAIN r = 1..(n - 1)
    BY <2>5
  <2>. DEFINE old(i) == IF i < k THEN i ELSE i + 1
  <2>7. \A i \in 1..(n - 1) : old(i) \in 1..n /\ old(i) # k /\ r[i] = s[old(i)]
    BY <2>3, <2>4, <2>5
  <2>8. \A i, j \in 1..(n - 1) : old(i) = old(j) => i = j
    BY <2>4
  <2>. HIDE DEF old
  <2>9. \A i \in 1..(n - 1) : r[i] # a
    BY <2>4, <2>7
  <2>10. \A i, j \in 1..(n - 1) : r[i] = r[j] => i = j
    BY <2>4, <2>7, <2>8
  <2>11. \A b : Contains(r, b) => Contains(s, b)
    BY <2>3, <2>5, <2>7 DEF Contains
  <2>12. ~Contains(r, a)
    BY <2>5, <2>9 DEF Contains
  <2>. QED BY <2>2, <2>5, <2>6, <2>10, <2>11, <2>12 DEF r
<1>. QED BY <1>1, <1>2

LEMMA InsertedTyped ==
  ASSUME NEW s \in Seq(RouteEntries), NEW r \in RouteEntries
  PROVE  Inserted(s, r) \in Seq(RouteEntries) /\ Inserted(s, r) # <<>>
<1>1. CASE \E i \in DOMAIN s : s[i].chan = r.chan
  <2>. DEFINE u == [i \in DOMAIN s |-> IF s[i].chan = r.chan THEN r ELSE s[i]]
  <2>1. PICK n \in Nat : n = Len(s) /\ DOMAIN s = 1..n
    OBVIOUS
  <2>2. u = [i \in 1..n |-> IF s[i].chan = r.chan THEN r ELSE s[i]]
    BY <2>1
  <2>3. \A i \in 1..n : (IF s[i].chan = r.chan THEN r ELSE s[i]) \in RouteEntries
    BY <2>1
  <2>4. u \in Seq(RouteEntries) /\ DOMAIN u = DOMAIN s
    BY <2>1, <2>2, <2>3
  <2>5. Inserted(s, r) = u
    BY <1>1 DEF Inserted
  <2>6. u # <<>>
    BY <1>1, <2>4
  <2>. QED BY <2>4, <2>5, <2>6
<1>2. CASE ~\E i \in DOMAIN s : s[i].chan = r.chan
  BY <1>2, AppendProperties DEF Inserted
<1>. QED BY <1>1, <1>2

LEMMA RouterInitially == RouterInit => RouterInv
<1>. SUFFICES ASSUME RouterInit PROVE RouterInv
  OBVIOUS
<1>1. DOMAIN routes = {} /\ DOMAIN topics = {}
  BY DEF RouterInit, EmptyMap
<1>2. routerCall \in [RouterTasks -> RouterCalls]
  BY DEF RouterInit, NoRouterCall, RouterCalls
<1>. QED BY <1>1, <1>2 DEF RouterInv, RouterTyped, RouterInit

LEMMA RoutesKeepRouter ==
  ASSUME RouterInv, RouteNext
  PROVE  RouterInv'
<1>1. CASE \E a \in RouteAgents, c \in RouteChannels, p, l \in Priorities :
             RegisterRoute([agent |-> a, chan |-> c, priority |-> p, load |-> l])
  <2>1. PICK r \in RouteEntries : RegisterRoute(r)
    BY <1>1 DEF RouteEntries
  <2>. DEFINE old == IF r.agent \in DOMAIN routes THEN routes[r.agent] ELSE <<>>
  <2>2. old \in Seq(RouteEntries)
    BY DEF RouterInv, RouterTyped
  <2>. HIDE DEF old
  <2>3. Inserted(old, r) \in Seq(RouteEntries) /\ Inserted(old, r) # <<>>
    BY <2>2, InsertedTyped
  <2>4. /\ routes' = Put(routes, r.agent, Inserted(old, r)) /\ departed' = departed \ {r.agent}
        /\ UNCHANGED <<topics, routerCall>>
    BY <2>1 DEF RegisterRoute, old
  <2>5. \A a \in DOMAIN routes' : routes'[a] \in Seq(RouteEntries) /\ routes'[a] # <<>>
    BY <2>3, <2>4 DEF Put, RouterInv, RouterTyped
  <2>6. DOMAIN routes' = DOMAIN routes \cup {r.agent}
    BY <2>4 DEF Put
  <2>. QED BY <2>4, <2>5, <2>6 DEF RouterInv, RouterTyped, StillVisited
<1>2. CASE \E a \in RouteAgents : \E cs \in SUBSET RouteChannels : RemoveRoutes(a, cs)
  <2>1. PICK a \in RouteAgents, cs \in SUBSET RouteChannels : RemoveRoutes(a, cs)
    BY <1>2
  <2>. DEFINE stay == {i \in DOMAIN routes[a] : routes[a][i].chan \notin cs}
              n == Cardinality(stay)
  <2>2. a \in DOMAIN routes /\ routes[a] \in Seq(RouteEntries)
    BY <2>1 DEF RemoveRoutes, RouterInv, RouterTyped
  <2>3. n \in Nat
    <3>1. IsFiniteSet(DOMAIN routes[a])
      BY <2>2, FS_Interval
    <3>2. IsFiniteSet(stay)
      BY <3>1, FS_Subset
    <3>. HIDE DEF stay
    <3>. QED BY <3>2, FS_CardinalityType
  <2>4. \A i \in stay : routes[a][i] \in RouteEntries
    BY <2>2
  <2>. HIDE DEF stay, n
  <2>5. PICK f \in [1..n -> stay] : routes' = Pruned(a, [i \in DOMAIN f |-> routes[a][f[i]]])
    BY <2>1 DEF RemoveRoutes, stay, n
  <2>. DEFINE left == [i \in DOMAIN f |-> routes[a][f[i]]]
  <2>6. left \in Seq(RouteEntries)
    BY <2>3, <2>4, <2>5
  <2>7. routes' = IF left = <<>> THEN Drop(routes, a) ELSE Put(routes, a, left)
    BY <2>5 DEF Pruned
  <2>. HIDE DEF left
  <2>8. DOMAIN routes' \subseteq DOMAIN routes
    BY <2>2, <2>7 DEF Drop, Put
  <2>9. \A b \in DOMAIN routes' : routes'[b] \in Seq(RouteEntries) /\ routes'[b] # <<>>
    BY <2>6, <2>7 DEF Drop, Put, RouterInv, RouterTyped
  <2>10. UNCHANGED <<topics, routerCall, departed>>
    BY <2>1 DEF RemoveRoutes
  <2>. QED BY <2>8, <2>9, <2>10 DEF RouterInv, RouterTyped, StillVisited
<1>. QED BY <1>1, <1>2 DEF RouteNext

LEMMA SubscriptionKeepsRouter ==
  ASSUME RouterInv, NEW t \in Topics, NEW a \in RouteAgents, Subscribe(t, a)
  PROVE  RouterInv'
<1>. DEFINE s == IF t \notin DOMAIN topics THEN <<a>>
                 ELSE IF Contains(topics[t], a) THEN topics[t] ELSE Append(topics[t], a)
<1>1. /\ topics' = Put(topics, t, s) /\ departed' = departed \ {a}
      /\ UNCHANGED <<routes, routerCall>>
  BY DEF Subscribe
<1>2. /\ s \in Seq(RouteAgents) /\ \A i, j \in DOMAIN s : s[i] = s[j] => i = j
      /\ \A b : Contains(s, b) => b = a \/ (t \in DOMAIN topics /\ Contains(topics[t], b))
  <2>1. CASE t \notin DOMAIN topics
    <3>1. s = <<a>>
      BY <2>1
    <3>. HIDE DEF s
    <3>2. s \in Seq(RouteAgents) /\ Len(s) = 1 /\ s[1] = a
      BY <3>1
    <3>3. \A i \in 1..1 : i = 1
      OBVIOUS
    <3>4. DOMAIN s = 1..1
      BY <3>2
    <3>. QED BY <3>2, <3>3, <3>4 DEF Contains
  <2>2. CASE t \in DOMAIN topics /\ Contains(topics[t], a)
    BY <2>2 DEF RouterInv, RouterTyped
  <2>3. CASE t \in DOMAIN topics /\ ~Contains(topics[t], a)
    <3>1. PICK u \in Seq(RouteAgents) : u = topics[t]
      BY <2>3 DEF RouterInv, RouterTyped
    <3>2. PICK n \in Nat : n = Len(u)
      BY <3>1
    <3>3. s = Append(u, a) /\ \A i \in 1..n : u[i] # a
      BY <2>3, <3>1, <3>2 DEF Contains
    <3>4. \A i, j \in 1..n : u[i] = u[j] => i = j
      BY <2>3, <3>1, <3>2 DEF RouterInv, RouterTyped
    <3>. HIDE DEF s
    <3>5. /\ s \in Seq(RouteAgents) /\ Len(s) = n + 1 /\ DOMAIN s = 1..(n + 1)
          /\ \A i \in 1..n : s[i] = u[i]
          /\ s[n + 1] = a
      BY <3>1, <3>2, <3>3, AppendProperties
    <3>6. \A i \in 1..(n + 1) : i \in 1..n \/ i = n + 1
      OBVIOUS
    <3>7. \A i, j \in DOMAIN s : s[i] = s[j] => i = j
      BY <3>3, <3>4, <3>5, <3>6
    <3>8. \A b : Contains(s, b) => b = a \/ Contains(u, b)
      BY <3>2, <3>5, <3>6 DEF Contains
    <3>. QED BY <2>3, <3>1, <3>5, <3>7, <3>8
  <2>. QED BY <2>1, <2>2, <2>3
<1>. HIDE DEF s
<1>3. /\ DOMAIN topics' = DOMAIN topics \cup {t}
      /\ \A u \in DOMAIN topics' : topics'[u] = IF u = t THEN s ELSE topics[u]
  BY <1>1 DEF Put
<1>4. RouterTyped'
  BY <1>1, <1>2, <1>3 DEF RouterInv, RouterTyped
<1>5. \A b \in departed' : \A u \in DOMAIN topics' :
        Contains(topics'[u], b) => u \in DOMAIN topics /\ Contains(topics[u], b)
  BY <1>1, <1>2, <1>3
<1>. QED BY <1>1, <1>4, <1>5 DEF RouterInv, StillVisited

\* A topic's list is cut, or the topic goes: every subscription left was there before.
LEMMA CutKeepsRouter ==
  ASSUME RouterInv, UNCHANGED <<routes, departed>>, routerCall' \in [RouterTasks -> RouterCalls],
         DOMAIN topics' \subseteq DOMAIN topics,
         \A t \in DOMAIN topics' :
           \/ topics'[t] = topics[t]
           \/ \E b : topics'[t] = Without(b, topics[t]),
         \A a \in departed, t \in DOMAIN topics' :
           Contains(topics'[t], a) /\ Contains(topics[t], a) /\ StillVisited(a, t) => StillVisited(a, t)'
  PROVE  RouterInv'
<1>1. ASSUME NEW t \in DOMAIN topics'
      PROVE  /\ topics'[t] \in Seq(RouteAgents)
             /\ \A i, j \in DOMAIN topics'[t] : topics'[t][i] = topics'[t][j] => i = j
             /\ \A c : Contains(topics'[t], c) => Contains(topics[t], c)
  <2>1. /\ topics[t] \in Seq(RouteAgents)
        /\ \A i, j \in DOMAIN topics[t] : topics[t][i] = topics[t][j] => i = j
    BY DEF RouterInv, RouterTyped
  <2>2. CASE topics'[t] = topics[t]
    BY <2>1, <2>2
  <2>3. CASE \E b : topics'[t] = Without(b, topics[t])
    <3>1. PICK b : topics'[t] = Without(b, topics[t])
      BY <2>3
    <3>. QED BY <2>1, <3>1, WithoutRight
  <2>. QED BY <2>2, <2>3
<1>2. RouterTyped'
  BY <1>1 DEF RouterInv, RouterTyped
<1>3. ASSUME NEW a \in departed', NEW t \in DOMAIN topics', Contains(topics'[t], a)
      PROVE  StillVisited(a, t)'
  BY <1>1, <1>3 DEF RouterInv
<1>. QED BY <1>2, <1>3 DEF RouterInv

LEMMA RemovalsKeepRouter ==
  ASSUME RouterInv, NEW k \in RouterTasks,
         \/ \E t \in Topics, a \in RouteAgents : Unsubscribe(k, t, a)
         \/ \E t \in Topics : VisitTopic(k, t)
         \/ VisitEnds(k)
         \/ RemoveTopic(k)
  PROVE  RouterInv'
<1>0. /\ routerCall \in [RouterTasks -> RouterCalls] /\ routerCall[k] \in RouterCalls
      /\ DOMAIN topics \subseteq Topics
  BY DEF RouterInv, RouterTyped
<1>1. CASE \E t \in Topics, a \in RouteAgents : Unsubscribe(k, t, a)
  <2>1. PICK t \in Topics, a \in RouteAgents : Unsubscribe(k, t, a)
    BY <1>1
  <2>. DEFINE c == [routerCall[k] EXCEPT !.step = "remove", !.empty = {t}]
  <2>2. c \in RouterCalls /\ routerCall[k].step = "idle"
    <3>1. routerCall[k] = NoRouterCall
      BY <2>1 DEF Unsubscribe
    <3>2. PICK r \in RouterCalls, e \in SUBSET Topics : r = routerCall[k] /\ e = {t}
      BY <1>0
    <3>3. c \in RouterCalls
      <4>1. c = [r EXCEPT !.step = "remove", !.empty = e]
        BY <3>2
      <4>. HIDE DEF c
      <4>. QED BY <4>1 DEF RouterCalls
    <3>. QED BY <3>1, <3>3 DEF NoRouterCall
  <2>3. routerCall' = routerCall \/ routerCall' = [routerCall EXCEPT ![k] = c]
    BY <2>1 DEF Unsubscribe
  <2>. HIDE DEF c
  <2>4. /\ DOMAIN topics' = DOMAIN topics
        /\ \A u \in DOMAIN topics : topics'[u] = IF u = t THEN Without(a, topics[t]) ELSE topics[u]
        /\ UNCHANGED <<routes, departed>>
    BY <2>1 DEF Unsubscribe
  <2>5. routerCall' \in [RouterTasks -> RouterCalls]
    BY <1>0, <2>2, <2>3
  <2>6. \A b, u : StillVisited(b, u) => StillVisited(b, u)'
    BY <1>0, <2>2, <2>3 DEF StillVisited
  <2>. QED BY <2>4, <2>5, <2>6, CutKeepsRouter
<1>2. CASE \E t \in Topics : VisitTopic(k, t)
  <2>1. PICK t \in Topics : VisitTopic(k, t)
    BY <1>2
  <2>2. PICK c : c = routerCall[k]
    OBVIOUS
  <2>3. PICK e \in SUBSET Topics : routerCall' = [routerCall EXCEPT ![k] =
                                      [c EXCEPT !.visit = @ \ {t}, !.empty = e]]
    <3>1. CASE t \in DOMAIN topics
      <4>. DEFINE e == IF topics'[t] = <<>> THEN c.empty \cup {t} ELSE c.empty
      <4>1. e \in SUBSET Topics
        BY <1>0, <2>2 DEF RouterCalls
      <4>2. routerCall' = [routerCall EXCEPT ![k] = [c EXCEPT !.visit = @ \ {t}, !.empty = e]]
        BY <2>1, <2>2, <3>1 DEF VisitTopic
      <4>. QED BY <4>1, <4>2
    <3>2. CASE t \notin DOMAIN topics
      <4>1. c.empty \in SUBSET Topics
        BY <1>0, <2>2 DEF RouterCalls
      <4>2. routerCall' = [routerCall EXCEPT ![k].visit = @ \ {t}]
        BY <2>1, <3>2 DEF VisitTopic
      <4>3. [c EXCEPT !.visit = @ \ {t}, !.empty = c.empty] = [c EXCEPT !.visit = @ \ {t}]
        BY <1>0, <2>2 DEF RouterCalls
      <4>. QED BY <2>2, <4>1, <4>2, <4>3
    <3>. QED BY <3>1, <3>2
  <2>. DEFINE d == [c EXCEPT !.visit = @ \ {t}, !.empty = e]
  <2>4. d \in RouterCalls /\ d.agent = c.agent /\ d.step = c.step /\ d.visit = c.visit \ {t}
    BY <1>0, <2>2 DEF RouterCalls
  <2>5. routerCall' = [routerCall EXCEPT ![k] = d]
    BY <2>3
  <2>. HIDE DEF d
  <2>6. /\ DOMAIN topics' = DOMAIN topics /\ UNCHANGED <<routes, departed>>
        /\ \A u \in DOMAIN topics : topics'[u] = IF u = t THEN Without(c.agent, topics[t]) ELSE topics[u]
    BY <2>1, <2>2 DEF VisitTopic, Visited
  <2>7. routerCall' \in [RouterTasks -> RouterCalls]
    BY <1>0, <2>4, <2>5
  <2>8. ASSUME NEW b \in departed, NEW u \in DOMAIN topics', Contains(topics'[u], b), StillVisited(b, u)
        PROVE  StillVisited(b, u)'
    <3>1. PICK l \in RouterTasks : /\ routerCall[l].agent = b /\ routerCall[l].step = "visit"
                                   /\ u \in routerCall[l].visit
      BY <2>8 DEF StillVisited
    <3>2. CASE l # k
      BY <1>0, <2>5, <3>1, <3>2 DEF StillVisited
    <3>3. CASE l = k /\ u # t
      <4>1. routerCall'[k] = d
        BY <1>0, <2>5
      <4>. QED BY <2>2, <2>4, <3>1, <3>3, <4>1 DEF StillVisited
    <3>4. CASE l = k /\ u = t
      <4>1. topics'[u] = Without(b, topics[u]) /\ u \in DOMAIN topics
        BY <2>2, <2>6, <3>1, <3>4
      <4>2. ~Contains(topics'[u], b)
        BY <4>1, WithoutRight DEF RouterInv, RouterTyped
      <4>. QED BY <2>8, <4>2
    <3>. QED BY <3>2, <3>3, <3>4
  <2>. QED BY <2>6, <2>7, <2>8, CutKeepsRouter
<1>3. CASE VisitEnds(k)
  <2>. DEFINE d == [routerCall[k] EXCEPT !.step = "remove"]
  <2>1. d \in RouterCalls
    BY <1>0 DEF RouterCalls
  <2>2. routerCall' = [routerCall EXCEPT ![k] = d] /\ UNCHANGED <<routes, topics, departed>>
    BY <1>3 DEF VisitEnds
  <2>. HIDE DEF d
  <2>3. routerCall' \in [RouterTasks -> RouterCalls]
    BY <1>0, <2>1, <2>2
  <2>4. routerCall[k].visit = {}
    BY <1>3 DEF VisitEnds
  <2>5. \A b, u : StillVisited(b, u) => StillVisited(b, u)'
    BY <1>0, <2>2, <2>4 DEF StillVisited
  <2>. QED BY <2>2, <2>3, <2>5, CutKeepsRouter
<1>4. CASE RemoveTopic(k)
  <2>1. PICK d \in RouterCalls : routerCall' = [routerCall EXCEPT ![k] = d]
    <3>1. CASE routerCall[k].empty = {}
      BY <1>4, <3>1 DEF RemoveTopic, NoRouterCall, RouterCalls
    <3>2. CASE routerCall[k].empty # {}
      <4>1. PICK t \in routerCall[k].empty : routerCall' = [routerCall EXCEPT ![k].empty = @ \ {t}]
        BY <1>4, <3>2 DEF RemoveTopic
      <4>. DEFINE d == [routerCall[k] EXCEPT !.empty = @ \ {t}]
      <4>2. d \in RouterCalls /\ routerCall' = [routerCall EXCEPT ![k] = d]
        BY <1>0, <4>1 DEF RouterCalls
      <4>. QED BY <4>2
    <3>. QED BY <3>1, <3>2
  <2>2. /\ DOMAIN topics' \subseteq DOMAIN topics /\ \A u \in DOMAIN topics' : topics'[u] = topics[u]
        /\ UNCHANGED <<routes, departed>>
    BY <1>4 DEF RemoveTopic, Drop
  <2>3. routerCall' \in [RouterTasks -> RouterCalls] /\ routerCall[k].step = "remove"
    BY <1>0, <1>4, <2>1 DEF RemoveTopic
  <2>4. \A b, u : StillVisited(b, u) => StillVisited(b, u)'
    BY <1>0, <2>1, <2>3 DEF StillVisited
  <2>. QED BY <2>2, <2>3, <2>4, CutKeepsRouter
<1>. QED BY <1>1, <1>2, <1>3, <1>4

LEMMA DepartureKeepsRouter ==
  ASSUME RouterInv, NEW k \in RouterTasks, NEW a \in RouteAgents, DeregisterAgent(k, a)
  PROVE  RouterInv'
<1>. DEFINE d == [step |-> "visit", agent |-> a, visit |-> DOMAIN topics, empty |-> {}]
<1>1. /\ routes' = Drop(routes, a) /\ routerCall' = [routerCall EXCEPT ![k] = d]
      /\ departed' = departed \cup {a} /\ topics' = topics /\ routerCall[k] = NoRouterCall
  BY DEF DeregisterAgent
<1>2. d \in RouterCalls /\ routerCall \in [RouterTasks -> RouterCalls]
  BY DEF RouterCalls, RouterInv, RouterTyped
<1>3. d.agent = a /\ d.step = "visit" /\ d.visit = DOMAIN topics
  OBVIOUS
<1>. HIDE DEF d
<1>4. \A b \in DOMAIN routes' : b \in DOMAIN routes /\ b # a /\ routes'[b] = routes[b]
  BY <1>1 DEF Drop
<1>5. RouterTyped'
  BY <1>1, <1>2, <1>4 DEF RouterInv, RouterTyped
<1>6. routerCall[k].step = "idle"
  BY <1>1 DEF NoRouterCall
<1>7. \A b, t : StillVisited(b, t) => StillVisited(b, t)'
  BY <1>1, <1>2, <1>6 DEF StillVisited
<1>8. \A t \in DOMAIN topics : StillVisited(a, t)'
  BY <1>1, <1>2, <1>3 DEF StillVisited
<1>. QED BY <1>1, <1>4, <1>5, <1>7, <1>8 DEF RouterInv

LEMMA RouterStep ==
  ASSUME RouterInv, [RouteNext \/ SelectNext \/ TopicNext]_routerVars
  PROVE  RouterInv'
<1>1. CASE RouteNext
  BY <1>1, RoutesKeepRouter
<1>2. CASE SelectNext
  <2>1. UNCHANGED <<routes, topics, routerCall, departed>>
    BY <1>2 DEF SelectNext, SelectFromGroup
  <2>. QED BY <2>1 DEF RouterInv, RouterTyped, StillVisited
<1>3. CASE TopicNext
  BY <1>3, SubscriptionKeepsRouter, RemovalsKeepRouter, DepartureKeepsRouter DEF TopicNext
<1>4. CASE UNCHANGED routerVars
  BY <1>4 DEF routerVars, RouterInv, RouterTyped, StillVisited
<1>. QED BY <1>1, <1>2, <1>3, <1>4

\* What min_by_key finds of a list that is not empty.
LEMMA FirstMinIsLeast ==
  ASSUME NEW list, NEW key, DOMAIN list \subseteq Nat, DOMAIN list # {},
         \A i \in DOMAIN list : key[i] \in Nat
  PROVE  \E i \in DOMAIN list : FirstMin(list, key) = list[i] /\ \A j \in DOMAIN list : key[i] <= key[j]
<1>1. ASSUME NEW T, T \subseteq Nat, T # {} PROVE \E x \in T : \A y \in T : x <= y
  <2>. DEFINE R == OpToRel(<, Nat)
  <2>1. IsWellFoundedOn(R, Nat)
    BY NatLessThanWellFounded
  <2>2. \A a, b \in Nat : <<a, b>> \in R <=> a < b
    BY Zenon DEF OpToRel
  <2>. HIDE DEF R
  <2>3. PICK x \in T : \A y \in T : ~ (<<y, x>> \in R)
    BY <1>1, <2>1, WFMin
  <2>4. \A y \in T : ~(y < x)
    BY <1>1, <2>2, <2>3
  <2>. QED BY <1>1, <2>4
<1>. DEFINE keys == {key[i] : i \in DOMAIN list}
<1>2. PICK m \in keys : \A y \in keys : m <= y
  <2>1. keys \subseteq Nat /\ keys # {}
    OBVIOUS
  <2>. HIDE DEF keys
  <2>. QED BY <1>1, <2>1
<1>. DEFINE at == {i \in DOMAIN list : key[i] = m}
<1>3. PICK i \in at : \A j \in at : i <= j
  <2>1. at \subseteq Nat /\ at # {}
    BY <1>2
  <2>. HIDE DEF at
  <2>. QED BY <1>1, <2>1
<1>4. /\ i \in DOMAIN list /\ \A j \in DOMAIN list : key[i] <= key[j]
      /\ \A j \in DOMAIN list : j < i => key[i] < key[j]
  <2>1. i \in DOMAIN list /\ key[i] = m /\ m \in Nat
    BY <1>2
  <2>2. \A j \in DOMAIN list : key[j] \in Nat /\ m <= key[j]
    BY <1>2
  <2>3. \A j \in DOMAIN list : key[j] = m => i <= j
    BY <1>3
  <2>4. i \in Nat /\ \A j \in DOMAIN list : j \in Nat
    <3>1. DOMAIN list \subseteq Nat
      OBVIOUS
    <3>. HIDE DEF at
    <3>. QED BY <2>1, <3>1
  <2>. QED BY <2>1, <2>2, <2>3, <2>4
<1>. DEFINE n == CHOOSE x \in DOMAIN list : /\ \A j \in DOMAIN list : key[x] <= key[j]
                                            /\ \A j \in DOMAIN list : j < x => key[x] < key[j]
<1>5. n \in DOMAIN list /\ \A j \in DOMAIN list : key[n] <= key[j]
  BY <1>4, Zenon
<1>. HIDE DEF n
<1>6. FirstMin(list, key) = list[n]
  BY DEF FirstMin, n
<1>. QED BY <1>5, <1>6

LEMMA BestRouteServes ==
  ASSUME RouterInv, NEW a
  PROVE  IF a \in DOMAIN routes THEN BestRoute(a) \in RouteEntries ELSE BestRoute(a) = Nobody
<1>1. CASE a \in DOMAIN routes
  <2>1. PICK s \in Seq(RouteEntries) : s = routes[a] /\ s # <<>>
    BY <1>1 DEF RouterInv, RouterTyped
  <2>. DEFINE key == [i \in DOMAIN s |-> s[i].priority]
  <2>2. DOMAIN s \subseteq Nat /\ DOMAIN s # {} /\ \A i \in DOMAIN s : s[i] \in RouteEntries
    <3>1. PICK n \in Nat : n = Len(s) /\ n # 0 /\ DOMAIN s = 1..n
      BY <2>1, EmptySeq
    <3>2. 1 \in 1..n
      BY <3>1
    <3>. QED BY <3>1, <3>2
  <2>3. \A i \in DOMAIN s : key[i] \in Nat
    BY <2>2, RouterAssumption DEF RouteEntries
  <2>4. BestRoute(a) = FirstMin(s, key)
    BY <1>1, <2>1 DEF BestRoute
  <2>. HIDE DEF key
  <2>5. PICK i \in DOMAIN s : FirstMin(s, key) = s[i]
    BY <2>2, <2>3, FirstMinIsLeast
  <2>. QED BY <1>1, <2>2, <2>4, <2>5
<1>2. CASE a \notin DOMAIN routes
  BY <1>2 DEF BestRoute
<1>. QED BY <1>1, <1>2

LEMMA LeastLoadedServesGroup ==
  ASSUME RouterInv, NEW group, DOMAIN group \subseteq Nat
  PROVE  LET offers == {BestRoute(group[i]) : i \in DOMAIN group} \ {Nobody}
         IN IF offers = {} THEN LeastLoaded(group) = Nobody
            ELSE LeastLoaded(group) \in offers /\ \A o \in offers : LeastLoaded(group).load <= o.load
<1>. DEFINE offers == {BestRoute(group[i]) : i \in DOMAIN group} \ {Nobody}
            able == {j \in DOMAIN group : group[j] \in DOMAIN routes}
            list == Multicast(group)
            key == [i \in DOMAIN list |-> list[i].load]
<1>1. DOMAIN list = able /\ \A i \in able : list[i] = BestRoute(group[i])
  BY DEF Multicast
<1>2. \A i \in able : list[i] \in RouteEntries /\ list[i] # Nobody /\ list[i] \in offers
  <2>1. \A i \in able : BestRoute(group[i]) \in RouteEntries
    BY BestRouteServes
  <2>. QED BY <1>1, <2>1, RouterAssumption
<1>3. \A o \in offers : \E i \in able : o = list[i]
  <2>1. \A i \in DOMAIN group : i \notin able => BestRoute(group[i]) = Nobody
    BY BestRouteServes
  <2>. QED BY <1>1, <2>1
<1>4. CASE able = {}
  <2>1. LeastLoaded(group) = Nobody
    BY <1>1, <1>4 DEF LeastLoaded
  <2>. QED BY <1>3, <1>4, <2>1
<1>5. CASE able # {}
  <2>1. \A i \in DOMAIN list : key[i] \in Nat /\ key[i] = list[i].load
    BY <1>1, <1>2, RouterAssumption DEF RouteEntries
  <2>2. LeastLoaded(group) = FirstMin(list, key)
    BY <1>1, <1>5 DEF LeastLoaded
  <2>3. DOMAIN list \subseteq Nat /\ DOMAIN list # {}
    BY <1>1, <1>5
  <2>. HIDE DEF list, key
  <2>4. PICK i \in DOMAIN list : FirstMin(list, key) = list[i] /\ \A j \in DOMAIN list : key[i] <= key[j]
    BY <2>1, <2>3, FirstMinIsLeast
  <2>5. LeastLoaded(group) \in offers
    BY <1>1, <1>2, <2>2, <2>4
  <2>6. \A o \in offers : LeastLoaded(group).load <= o.load
    BY <1>1, <1>3, <2>1, <2>2, <2>4
  <2>. HIDE DEF offers
  <2>7. offers # {}
    BY <2>5
  <2>. QED BY <2>5, <2>6, <2>7 DEF offers
<1>. QED BY <1>4, <1>5

(***************************************************************************)
(* For any agents, topics, channels and number of callers: an agent that   *)
(* deregister_agent removed and nobody named since has no route and no     *)
(* subscription, although topics are walked one by one beside everything   *)
(* else; and a least-loaded selection finds the least loaded of the        *)
(* preferred routes, whenever there is one.                                *)
(***************************************************************************)
THEOREM RoutesStaySound == RouterSpec => RouterSound
<1>1. RouterInv => DeregisteredGone
  BY DEF RouterInv, DeregisteredGone, StillVisited
<1>. DEFINE Serves ==
       picked' # picked /\ picked'.strategy = "LeastLoaded" =>
         LET r == picked'.route
             offers == {BestRoute(picked'.group[i]) : i \in DOMAIN picked'.group} \ {Nobody}
         IN IF offers = {} THEN r = Nobody
            ELSE r \in offers /\ \A o \in offers : r.load <= o.load
<1>2. RouterInv /\ [RouteNext \/ SelectNext \/ TopicNext]_routerVars => [Serves]_routerVars
  <2>. SUFFICES ASSUME RouterInv, [RouteNext \/ SelectNext \/ TopicNext]_routerVars PROVE [Serves]_routerVars
    OBVIOUS
  <2>1. CASE SelectNext
    <3>1. PICK group \in {s \in [1..2 -> RouteAgents] : s[1] # s[2]}, s \in BalancingStrategies :
            SelectFromGroup(group, s)
      BY <2>1 DEF SelectNext
    <3>2. picked'.group = group /\ picked'.strategy = s /\ picked'.route = Chosen(group, s)
      BY <3>1 DEF SelectFromGroup
    <3>3. s = "LeastLoaded" => picked'.route = LeastLoaded(group)
      BY <3>2 DEF Chosen
    <3>4. DOMAIN group \subseteq Nat
      BY <3>1
    <3>5. LET offers == {BestRoute(group[i]) : i \in DOMAIN group} \ {Nobody}
          IN IF offers = {} THEN LeastLoaded(group) = Nobody
             ELSE LeastLoaded(group) \in offers /\ \A o \in offers : LeastLoaded(group).load <= o.load
      BY <3>4, LeastLoadedServesGroup
    <3>6. Serves
      BY <3>2, <3>3, <3>5
    <3>. QED BY <3>6
  <2>2. CASE UNCHANGED picked
    BY <2>2
  <2>3. RouteNext \/ TopicNext \/ UNCHANGED routerVars => UNCHANGED picked
    BY DEF RouteNext, TopicNext, RegisterRoute, RemoveRoutes, Subscribe, DeregisterAgent, Unsubscribe,
           VisitTopic, VisitEnds, RemoveTopic, routerVars
  <2>. QED BY <2>1, <2>2, <2>3
<1>3. RouterInv /\ [RouteNext \/ SelectNext \/ TopicNext]_routerVars => RouterInv'
  BY RouterStep
<1>4. RouterSpec => []RouterInv
  BY <1>3, RouterInitially, PTL DEF RouterSpec
<1>5. RouterSpec => []DeregisteredGone
  BY <1>1, <1>4, PTL
<1>6. RouterSpec => [][Serves]_routerVars
  BY <1>2, <1>4, PTL DEF RouterSpec
<1>. QED BY <1>5, <1>6, PTL DEF RouterSound, LeastLoadedServes

-----------------------------------------------------------------------------
(* Transports *)

\* A run of m bytes after the first b.
Numbers(b, m) == [i \in 1..m |-> b + i]

LEMMA NumbersSeq ==
  ASSUME NEW b \in Nat, NEW m \in Nat
  PROVE  Numbers(b, m) \in Seq(Nat) /\ Len(Numbers(b, m)) = m
  BY DEF Numbers

\* Cut anywhere, a run is two runs; the first continues what was read.
LEMMA NumbersCut ==
  ASSUME NEW b \in Nat, NEW m \in Nat, NEW n \in 0..m
  PROVE  /\ Numbers(0, b) \o SubSeq(Numbers(b, m), 1, n) = Numbers(0, b + n)
         /\ SubSeq(Numbers(b, m), n + 1, m) = Numbers(b + n, m - n)
<1>. DEFINE s == Numbers(b, m)
            g == Numbers(0, b)
<1>1. PICK x \in Int, y \in Int : x = n + 1 /\ y = n
  OBVIOUS
<1>2. s \in Seq(Nat) /\ Len(s) = m /\ g \in Seq(Nat) /\ Len(g) = b
  BY NumbersSeq
<1>3. \A i \in 1..m : s[i] = b + i
  BY DEF Numbers
<1>4. \A i \in 1..b : g[i] = i
  BY DEF Numbers
<1>. HIDE DEF s, g
<1>5. /\ SubSeq(s, 1, y) \in Seq(Nat) /\ Len(SubSeq(s, 1, y)) = n
      /\ \A i \in 1..n : SubSeq(s, 1, y)[i] = b + i
  <2>1. \A i \in 1..y : s[i] \in Nat
    BY <1>1, <1>3
  <2>2. /\ SubSeq(s, 1, y) \in Seq(Nat) /\ Len(SubSeq(s, 1, y)) = IF 1 <= y THEN y - 1 + 1 ELSE 0
        /\ \A i \in 1..(y - 1 + 1) : SubSeq(s, 1, y)[i] = s[1 + i - 1]
    BY <2>1, SubSeqProperties
  <2>3. \A i \in 1..n : i \in 1..(y - 1 + 1) /\ 1 + i - 1 = i /\ i \in 1..m
    BY <1>1
  <2>4. (IF 1 <= y THEN y - 1 + 1 ELSE 0) = n
    BY <1>1
  <2>. QED BY <1>3, <2>2, <2>3, <2>4
<1>6. /\ SubSeq(s, x, m) \in Seq(Nat) /\ Len(SubSeq(s, x, m)) = m - n
      /\ \A i \in 1..(m - n) : SubSeq(s, x, m)[i] = b + n + i
  <2>1. \A i \in x..m : s[i] \in Nat
    BY <1>1, <1>3
  <2>2. /\ SubSeq(s, x, m) \in Seq(Nat) /\ Len(SubSeq(s, x, m)) = IF x <= m THEN m - x + 1 ELSE 0
        /\ \A i \in 1..(m - x + 1) : SubSeq(s, x, m)[i] = s[x + i - 1]
    BY <2>1, SubSeqProperties
  <2>3. \A i \in 1..(m - n) : i \in 1..(m - x + 1) /\ x + i - 1 = n + i /\ n + i \in 1..m
    BY <1>1
  <2>4. (IF x <= m THEN m - x + 1 ELSE 0) = m - n
    BY <1>1
  <2>5. \A i \in 1..(m - n) : SubSeq(s, x, m)[i] = s[n + i] /\ s[n + i] = b + (n + i)
    BY <1>3, <2>2, <2>3
  <2>. QED BY <2>2, <2>4, <2>5
<1>7. SubSeq(s, x, m) = Numbers(b + n, m - n)
  <2>0. PICK c \in Nat, d \in Nat : c = b + n /\ d = m - n
    OBVIOUS
  <2>1. Numbers(b + n, m - n) \in Seq(Nat) /\ Len(Numbers(b + n, m - n)) = m - n
    BY <2>0, NumbersSeq
  <2>2. \A i \in 1..(m - n) : Numbers(b + n, m - n)[i] = b + n + i
    BY DEF Numbers
  <2>. QED BY <1>6, <2>1, <2>2, SeqEqual
<1>8. g \o SubSeq(s, 1, y) = Numbers(0, b + n)
  <2>. DEFINE h == SubSeq(s, 1, y)
  <2>. HIDE DEF h
  <2>1. h \in Seq(Nat) /\ Len(h) = n /\ \A i \in 1..n : h[i] = b + i
    BY <1>5 DEF h
  <2>2. /\ g \o h \in Seq(Nat) /\ Len(g \o h) = b + n
        /\ \A i \in 1..(b + n) : (g \o h)[i] = IF i <= b THEN g[i] ELSE h[i - b]
    BY <1>2, <2>1, ConcatProperties
  <2>3. Numbers(0, b + n) \in Seq(Nat) /\ Len(Numbers(0, b + n)) = b + n
    BY NumbersSeq
  <2>4. \A i \in 1..(b + n) : Numbers(0, b + n)[i] = i
    BY DEF Numbers
  <2>5. ASSUME NEW i \in 1..(b + n) PROVE (g \o h)[i] = i
    <3>1. CASE i <= b
      BY <1>4, <2>2, <3>1
    <3>2. CASE ~(i <= b)
      <4>1. i - b \in 1..n /\ b + (i - b) = i
        BY <3>2
      <4>. QED BY <2>1, <2>2, <3>2, <4>1
    <3>. QED BY <3>1, <3>2
  <2>6. g \o h = Numbers(0, b + n)
    BY <2>2, <2>3, <2>4, <2>5, SeqEqual
  <2>. QED BY <2>6 DEF h
<1>. QED BY <1>1, <1>7, <1>8 DEF s, g

(***************************************************************************)
(* An end that has not closed: what it read, what is left over and the     *)
(* messages on their way are the bytes in order; at[k] is how many come    *)
(* before message k. An end that saw the end of its stream has a peer that *)
(* writes no more.                                                         *)
(***************************************************************************)
EndState == [state : {"Connected", "Closed"}, tx : BOOLEAN, rx : BOOLEAN, left : Seq(Nat), quit : BOOLEAN]

Chained(messages, at, first, last) ==
  /\ at \in [1..(Len(messages) + 1) -> Nat]
  /\ at[1] = first /\ at[Len(messages) + 1] = last
  /\ \A k \in 1..(Len(messages) + 1) : at[k] <= last
  /\ \A k \in 1..Len(messages) : at[k] <= at[k + 1] /\ messages[k] = Numbers(at[k], at[k + 1] - at[k])

EndInv(e) ==
  LET got == Len(gotBytes[e])  end == ends[e]  sent == sentBytes[Other(e)] IN
  /\ gotBytes[e] = Numbers(0, got) /\ got <= sent
  /\ ~end.quit =>
       /\ end.left = Numbers(got, Len(end.left))
       /\ \E at : Chained(flow[e], at, got + Len(end.left), sent)
  /\ end.quit => end.state = "Closed"
  /\ end.state = "Closed" /\ ~end.quit => got = sent /\ ~ends[Other(e)].tx

InprocInv ==
  /\ ends \in [EndNames -> EndState]
  /\ flow \in [EndNames -> Seq(Seq(Nat))]
  /\ sentBytes \in [EndNames -> Nat] /\ gotBytes \in [EndNames -> Seq(Nat)]
  /\ \A e \in EndNames : EndInv(e)

LEMMA OtherEnd ==
  \A e \in EndNames : Other(e) \in EndNames /\ Other(e) # e /\ Other(Other(e)) = e
                      /\ \A f \in EndNames : f = e \/ f = Other(e)
  BY DEF EndNames, Other

LEMMA ChainedGrows ==
  ASSUME NEW messages \in Seq(Seq(Nat)), NEW at, NEW first, NEW last \in Nat, Chained(messages, at, first, last),
         NEW n \in Nat
  PROVE  \E a : Chained(Append(messages, Numbers(last, n)), a, first, last + n)
<1>1. PICK len \in Nat : len = Len(messages)
  OBVIOUS
<1>. DEFINE new == Append(messages, Numbers(last, n))
            a == [k \in 1..(len + 2) |-> IF k = len + 2 THEN last + n ELSE at[k]]
<1>2. Len(new) = len + 1 /\ (\A k \in 1..len : new[k] = messages[k]) /\ new[len + 1] = Numbers(last, n)
  BY <1>1, NumbersSeq
<1>3. /\ at \in [1..(len + 1) -> Nat] /\ at[1] = first /\ at[len + 1] = last
      /\ \A k \in 1..(len + 1) : at[k] <= last
      /\ \A k \in 1..len : at[k] <= at[k + 1] /\ messages[k] = Numbers(at[k], at[k + 1] - at[k])
  BY <1>1 DEF Chained
<1>4. /\ a \in [1..(len + 2) -> Nat] /\ a[len + 2] = last + n
      /\ \A k \in 1..(len + 1) : a[k] = at[k]
  BY <1>3
<1>. HIDE DEF new, a
<1>5. \A k \in 1..(len + 2) : a[k] <= last + n
  BY <1>3, <1>4
<1>6. ASSUME NEW k \in 1..(len + 1) PROVE a[k] <= a[k + 1] /\ new[k] = Numbers(a[k], a[k + 1] - a[k])
  <2>1. CASE k = len + 1
    <3>1. k + 1 = len + 2 /\ (last + n) - last = n
      BY <2>1
    <3>. QED BY <1>2, <1>3, <1>4, <2>1, <3>1
  <2>2. CASE k # len + 1
    <3>1. k \in 1..len /\ k + 1 \in 1..(len + 1)
      BY <2>2
    <3>. QED BY <1>2, <1>3, <1>4, <3>1
  <2>. QED BY <2>1, <2>2
<1>7. (len + 1) + 1 = len + 2 /\ 1 \in 1..(len + 1)
  OBVIOUS
<1>8. Chained(new, a, first, last + n)
  BY <1>2, <1>3, <1>4, <1>5, <1>6, <1>7 DEF Chained
<1>. QED BY <1>8 DEF new

LEMMA ChainedTail ==
  ASSUME NEW messages \in Seq(Seq(Nat)), messages # <<>>, NEW at, NEW first \in Nat, NEW last \in Nat,
         Chained(messages, at, first, last)
  PROVE  \E m \in Nat : /\ Head(messages) = Numbers(first, m) /\ first + m <= last
                        /\ \E a : Chained(Tail(messages), a, first + m, last)
<1>1. PICK len \in Nat : len = Len(messages) /\ len > 0
  OBVIOUS
<1>2. /\ at \in [1..(len + 1) -> Nat] /\ at[1] = first /\ at[len + 1] = last
      /\ \A k \in 1..(len + 1) : at[k] <= last
      /\ \A k \in 1..len : at[k] <= at[k + 1] /\ messages[k] = Numbers(at[k], at[k + 1] - at[k])
  BY <1>1 DEF Chained
<1>. DEFINE m == at[2] - first
            a == [k \in 1..len |-> at[k + 1]]
            rest == Tail(messages)
<1>3. 1 \in 1..len /\ 2 \in 1..(len + 1) /\ 1 + 1 = 2
  BY <1>1
<1>4. m \in Nat /\ at[2] = first + m /\ first + m <= last /\ messages[1] = Numbers(first, m)
  <2>1. at[2] \in Nat /\ at[1] <= at[1 + 1] /\ messages[1] = Numbers(at[1], at[1 + 1] - at[1]) /\ at[2] <= last
    BY <1>2, <1>3
  <2>2. at[1] <= at[2] /\ messages[1] = Numbers(at[1], at[2] - at[1])
    BY <1>3, <2>1
  <2>. QED BY <1>2, <2>1, <2>2
<1>5. Head(messages) = messages[1] /\ Len(rest) = len - 1 /\ \A k \in 1..(len - 1) : rest[k] = messages[k + 1]
  BY <1>1
<1>6. /\ a \in [1..len -> Nat] /\ \A k \in 1..len : a[k] = at[k + 1] /\ k + 1 \in 1..(len + 1)
  BY <1>2
<1>. HIDE DEF a, rest, m
<1>7. a[1] = first + m /\ a[len] = last /\ \A k \in 1..len : a[k] <= last
  BY <1>1, <1>2, <1>3, <1>4, <1>6
<1>8. ASSUME NEW k \in 1..(len - 1) PROVE a[k] <= a[k + 1] /\ rest[k] = Numbers(a[k], a[k + 1] - a[k])
  <2>1. k \in 1..len /\ k + 1 \in 1..len
    OBVIOUS
  <2>. QED BY <1>2, <1>5, <1>6, <2>1
<1>9. (len - 1) + 1 = len
  OBVIOUS
<1>10. Chained(rest, a, first + m, last)
  BY <1>5, <1>6, <1>7, <1>8, <1>9 DEF Chained
<1>. QED BY <1>4, <1>5, <1>10 DEF rest

LEMMA InprocFirst == TransportInit => InprocInv
<1>. SUFFICES ASSUME TransportInit PROVE InprocInv
  OBVIOUS
<1>1. /\ ends = [e \in EndNames |->
               [state |-> "Connected", tx |-> TRUE, rx |-> TRUE, left |-> <<>>, quit |-> FALSE]]
      /\ flow = [e \in EndNames |-> <<>>]
      /\ sentBytes = [e \in EndNames |-> 0] /\ gotBytes = [e \in EndNames |-> <<>>]
  BY DEF TransportInit
<1>2. ends \in [EndNames -> EndState]
  BY <1>1 DEF EndState
<1>3. <<>> = Numbers(0, 0)
  BY DEF Numbers
<1>4. \E at : Chained(<<>>, at, 0, 0)
  <2>. DEFINE at == [k \in 1..1 |-> 0]
  <2>1. Chained(<<>>, at, 0, 0)
    BY DEF Chained
  <2>. QED BY <2>1
<1>5. ASSUME NEW e \in EndNames PROVE EndInv(e)
  BY <1>1, <1>3, <1>4, OtherEnd DEF EndInv
<1>. QED BY <1>1, <1>2, <1>5 DEF InprocInv

LEMMA WriteKeeps ==
  ASSUME InprocInv, NEW e \in EndNames, NEW n \in 1..2, WriteBytes(e, n)
  PROVE  InprocInv'
<1>. DEFINE o == Other(e)
<1>1. o \in EndNames /\ o # e /\ Other(o) = e /\ \A f \in EndNames : f = e \/ f = o
  BY OtherEnd
<1>2. /\ ends \in [EndNames -> EndState] /\ flow \in [EndNames -> Seq(Seq(Nat))]
      /\ sentBytes \in [EndNames -> Nat] /\ gotBytes \in [EndNames -> Seq(Nat)]
      /\ EndInv(e) /\ EndInv(o)
  BY <1>1 DEF InprocInv
<1>. DEFINE chunk == [i \in 1..n |-> sentBytes[e] + i]
<1>3. /\ flow' = [flow EXCEPT ![o] = Append(flow[o], chunk)]
      /\ sentBytes' = [sentBytes EXCEPT ![e] = sentBytes[e] + n]
      /\ ends' = ends /\ gotBytes' = gotBytes /\ ends[e].tx
  BY DEF WriteBytes
<1>4. chunk = Numbers(sentBytes[e], n) /\ chunk \in Seq(Nat)
  BY <1>2 DEF Numbers
<1>. HIDE DEF chunk, o
<1>5. /\ flow' \in [EndNames -> Seq(Seq(Nat))] /\ sentBytes' \in [EndNames -> Nat]
      /\ flow'[o] = Append(flow[o], chunk) /\ flow'[e] = flow[e]
      /\ sentBytes'[e] = sentBytes[e] + n /\ sentBytes'[o] = sentBytes[o]
  BY <1>1, <1>2, <1>3, <1>4
<1>6. EndInv(e)'
  <2>1. Other(e) = o
    BY DEF o
  <2>. QED BY <1>2, <1>3, <1>5, <2>1 DEF EndInv
<1>7. EndInv(o)'
  <2>1. ~(ends[o].state = "Closed" /\ ~ends[o].quit)
    BY <1>1, <1>2, <1>3 DEF EndInv
  <2>2. /\ gotBytes[o] = Numbers(0, Len(gotBytes[o])) /\ Len(gotBytes[o]) <= sentBytes[e]
        /\ ~ends[o].quit =>
             /\ ends[o].left = Numbers(Len(gotBytes[o]), Len(ends[o].left))
             /\ \E at : Chained(flow[o], at, Len(gotBytes[o]) + Len(ends[o].left), sentBytes[e])
        /\ ends[o].quit => ends[o].state = "Closed"
    BY <1>1, <1>2 DEF EndInv
  <2>3. sentBytes[e] \in Nat /\ n \in Nat /\ flow[o] \in Seq(Seq(Nat)) /\ Len(gotBytes[o]) \in Nat
    BY <1>1, <1>2
  <2>4. Len(gotBytes[o]) <= sentBytes[e] + n
    BY <2>2, <2>3
  <2>5. ~ends[o].quit => \E at : Chained(flow'[o], at, Len(gotBytes[o]) + Len(ends[o].left), sentBytes[e] + n)
    BY <1>4, <1>5, <2>2, <2>3, ChainedGrows
  <2>. QED BY <1>1, <1>3, <1>5, <2>1, <2>2, <2>4, <2>5 DEF EndInv
<1>. QED BY <1>1, <1>2, <1>3, <1>5, <1>6, <1>7 DEF InprocInv

LEMMA ReadKeeps ==
  ASSUME InprocInv, NEW e \in EndNames, NEW room \in 1..2, ReadSome(e, room)
  PROVE  InprocInv'
<1>. DEFINE o == Other(e)
            left == ends[e].left
            got == gotBytes[e]
            data == IF left # <<>> THEN left ELSE Head(flow[e])
            n == IF room < Len(data) THEN room ELSE Len(data)
<1>1. o \in EndNames /\ o # e /\ Other(o) = e /\ \A f \in EndNames : f = e \/ f = o
  BY OtherEnd
<1>2. /\ ends \in [EndNames -> EndState] /\ flow \in [EndNames -> Seq(Seq(Nat))]
      /\ sentBytes \in [EndNames -> Nat] /\ gotBytes \in [EndNames -> Seq(Nat)]
      /\ EndInv(e) /\ EndInv(o)
  BY <1>1 DEF InprocInv
<1>3. ends[e].state = "Connected" /\ ~ends[e].quit /\ ends[e] \in EndState /\ left \in Seq(Nat)
  BY <1>2 DEF ReadSome, EndInv, EndState
<1>4. PICK b \in Nat, c \in Nat : b = Len(got) /\ c = Len(left) /\ got = Numbers(0, b) /\ left = Numbers(b, c)
  BY <1>2, <1>3 DEF EndInv
<1>5. PICK sent \in Nat : sent = sentBytes[o]
  BY <1>1, <1>2
<1>6. PICK at : Chained(flow[e], at, b + c, sent)
  BY <1>2, <1>3, <1>4, <1>5 DEF EndInv
<1>7. /\ left # <<>> \/ flow[e] # <<>>
      /\ gotBytes' = [gotBytes EXCEPT ![e] = got \o SubSeq(data, 1, n)]
      /\ flow' = IF left # <<>> THEN flow ELSE [flow EXCEPT ![e] = Tail(flow[e])]
      /\ ends' = [ends EXCEPT ![e].left = SubSeq(data, n + 1, Len(data))]
      /\ sentBytes' = sentBytes
  BY DEF ReadSome, Leftover
\* Either way a run of bytes is taken off the front.
<1>8. PICK m \in Nat, rest \in Seq(Seq(Nat)) :
        /\ data = Numbers(b, m) /\ flow' = [flow EXCEPT ![e] = rest] /\ b + m <= sent
        /\ \E a : Chained(rest, a, b + m, sent)
  <2>1. CASE left # <<>>
    <3>1. flow' = [flow EXCEPT ![e] = flow[e]] /\ flow[e] \in Seq(Seq(Nat))
      BY <1>2, <1>7, <2>1
    <3>2. b + c <= sent
      <4>1. 1 \in 1..(Len(flow[e]) + 1)
        BY <1>2
      <4>. QED BY <1>6, <4>1 DEF Chained
    <3>. QED BY <1>4, <1>6, <2>1, <3>1, <3>2
  <2>2. CASE left = <<>>
    <3>1. c = 0 /\ b + c = b /\ flow[e] # <<>> /\ flow[e] \in Seq(Seq(Nat))
      BY <1>2, <1>4, <1>7, <2>2
    <3>2. Chained(flow[e], at, b, sent)
      BY <1>6, <3>1
    <3>3. PICK m \in Nat : /\ Head(flow[e]) = Numbers(b, m) /\ b + m <= sent
                           /\ \E a : Chained(Tail(flow[e]), a, b + m, sent)
      BY <3>1, <3>2, ChainedTail
    <3>4. Tail(flow[e]) \in Seq(Seq(Nat)) /\ flow' = [flow EXCEPT ![e] = Tail(flow[e])] /\ data = Head(flow[e])
      BY <1>7, <2>2, <3>1
    <3>. HIDE DEF data
    <3>. QED BY <3>3, <3>4
  <2>. QED BY <2>1, <2>2
<1>. HIDE DEF data
<1>9. Len(data) = m /\ n \in 0..m
  <2>1. Len(data) = m
    BY <1>8, NumbersSeq
  <2>. QED BY <2>1
<1>. HIDE DEF n
<1>10. /\ got \o SubSeq(data, 1, n) = Numbers(0, b + n)
       /\ SubSeq(data, n + 1, Len(data)) = Numbers(b + n, m - n)
  <2>1. /\ Numbers(0, b) \o SubSeq(Numbers(b, m), 1, n) = Numbers(0, b + n)
        /\ SubSeq(Numbers(b, m), n + 1, m) = Numbers(b + n, m - n)
    BY <1>9, NumbersCut
  <2>. QED BY <1>4, <1>8, <1>9, <2>1
<1>11. PICK g \in Nat, l \in Nat : g = b + n /\ l = m - n /\ g + l = b + m /\ g <= sent
  BY <1>8, <1>9
<1>12. Numbers(0, g) \in Seq(Nat) /\ Len(Numbers(0, g)) = g /\ Numbers(g, l) \in Seq(Nat) /\ Len(Numbers(g, l)) = l
  BY <1>11, NumbersSeq
<1>. HIDE DEF got, left, o
<1>13. /\ gotBytes' = [gotBytes EXCEPT ![e] = Numbers(0, g)] /\ ends' = [ends EXCEPT ![e].left = Numbers(g, l)]
       /\ flow' = [flow EXCEPT ![e] = rest] /\ sentBytes' = sentBytes
  BY <1>7, <1>8, <1>10, <1>11
<1>14. /\ gotBytes' \in [EndNames -> Seq(Nat)] /\ flow' \in [EndNames -> Seq(Seq(Nat))]
       /\ gotBytes'[e] = Numbers(0, g) /\ gotBytes'[o] = gotBytes[o] /\ flow'[e] = rest /\ flow'[o] = flow[o]
  BY <1>1, <1>2, <1>12, <1>13
<1>15. /\ ends' \in [EndNames -> EndState] /\ ends'[o] = ends[o]
       /\ ends'[e].left = Numbers(g, l) /\ ends'[e].state = "Connected" /\ ~ends'[e].quit
       /\ ends'[e].tx = ends[e].tx
  <2>. DEFINE r == [ends[e] EXCEPT !.left = Numbers(g, l)]
  <2>1. r \in EndState /\ r.left = Numbers(g, l) /\ r.state = "Connected" /\ ~r.quit /\ r.tx = ends[e].tx
    BY <1>3, <1>12 DEF EndState
  <2>2. ends' = [ends EXCEPT ![e] = r]
    BY <1>2, <1>13
  <2>. HIDE DEF r
  <2>. QED BY <1>1, <1>2, <2>1, <2>2
<1>16. EndInv(e)'
  <2>1. Other(e) = o
    BY DEF o
  <2>. QED BY <1>5, <1>8, <1>11, <1>12, <1>13, <1>14, <1>15, <2>1 DEF EndInv
<1>17. EndInv(o)'
  BY <1>1, <1>2, <1>13, <1>14, <1>15 DEF EndInv
<1>. QED BY <1>1, <1>2, <1>13, <1>14, <1>15, <1>16, <1>17 DEF InprocInv

LEMMA EndKeeps ==
  ASSUME InprocInv, NEW e \in EndNames, ReadEof(e) \/ CloseEnd(e)
  PROVE  InprocInv'
<1>. DEFINE o == Other(e)
<1>1. o \in EndNames /\ o # e /\ Other(o) = e /\ \A f \in EndNames : f = e \/ f = o
  BY OtherEnd
<1>2. /\ ends \in [EndNames -> EndState] /\ flow \in [EndNames -> Seq(Seq(Nat))]
      /\ sentBytes \in [EndNames -> Nat] /\ gotBytes \in [EndNames -> Seq(Nat)]
      /\ EndInv(e) /\ EndInv(o)
  BY <1>1 DEF InprocInv
<1>3. UNCHANGED <<flow, sentBytes, gotBytes>>
  BY DEF ReadEof, CloseEnd
<1>4. CASE ReadEof(e)
  <2>. DEFINE r == [ends[e] EXCEPT !.state = "Closed"]
  <2>1. /\ ends[e].state = "Connected" /\ ends[e].left = <<>> /\ flow[e] = <<>> /\ ~ends[o].tx
        /\ ends' = [ends EXCEPT ![e] = r]
    BY <1>2, <1>4 DEF ReadEof
  <2>2. ends[e] \in EndState /\ ~ends[e].quit
    BY <1>2, <2>1 DEF EndInv
  <2>3. r \in EndState /\ r.left = ends[e].left /\ r.state = "Closed" /\ ~r.quit /\ r.tx = ends[e].tx
    BY <2>2 DEF EndState
  <2>. HIDE DEF r
  <2>4. ends' \in [EndNames -> EndState] /\ ends'[e] = r /\ ends'[o] = ends[o]
    BY <1>1, <1>2, <2>1, <2>3
  <2>5. PICK at : Chained(flow[e], at, Len(gotBytes[e]) + 0, sentBytes[o])
    BY <1>2, <2>1, <2>2 DEF EndInv
  <2>6. Len(gotBytes[e]) = sentBytes[o]
    <3>1. Len(flow[e]) = 0 /\ Len(gotBytes[e]) \in Nat
      BY <1>2, <2>1
    <3>. QED BY <2>5, <3>1 DEF Chained
  <2>. HIDE DEF o
  <2>7. EndInv(e)'
    <3>1. Other(e) = o
      BY DEF o
    <3>. QED BY <1>2, <1>3, <2>1, <2>2, <2>3, <2>4, <2>6, <3>1 DEF EndInv
  <2>8. EndInv(o)'
    BY <1>1, <1>2, <1>3, <2>3, <2>4 DEF EndInv
  <2>. QED BY <1>1, <1>2, <1>3, <2>4, <2>7, <2>8 DEF InprocInv
<1>5. CASE CloseEnd(e)
  <2>. DEFINE r == [state |-> "Closed", tx |-> FALSE, rx |-> FALSE, left |-> <<>>, quit |-> TRUE]
  <2>1. ends' = [ends EXCEPT ![e] = r]
    BY <1>5 DEF CloseEnd
  <2>2. r \in EndState /\ r.state = "Closed" /\ r.quit /\ ~r.tx
    BY DEF EndState
  <2>. HIDE DEF r, o
  <2>3. ends' \in [EndNames -> EndState] /\ ends'[e] = r /\ ends'[o] = ends[o]
    BY <1>1, <1>2, <2>1, <2>2
  <2>4. EndInv(e)'
    BY <1>2, <1>3, <2>2, <2>3 DEF EndInv
  <2>5. EndInv(o)'
    BY <1>1, <1>2, <1>3, <2>2, <2>3 DEF EndInv
  <2>. QED BY <1>1, <1>2, <1>3, <2>3, <2>4, <2>5 DEF InprocInv
<1>. QED BY <1>4, <1>5

LEMMA InprocIsFaithful == InprocInv => StreamFaithful
<1>. SUFFICES ASSUME InprocInv, NEW e \in EndNames
              PROVE  /\ gotBytes[e] = [i \in 1..Len(gotBytes[e]) |-> i]
                     /\ Len(gotBytes[e]) <= sentBytes[Other(e)]
                     /\ ends[e].state = "Closed" /\ ~ends[e].quit => Len(gotBytes[e]) = sentBytes[Other(e)]
  BY DEF StreamFaithful
<1>1. EndInv(e) /\ gotBytes[e] \in Seq(Nat)
  BY DEF InprocInv
<1>2. Numbers(0, Len(gotBytes[e])) = [i \in 1..Len(gotBytes[e]) |-> i]
  BY <1>1 DEF Numbers
<1>. QED BY <1>1, <1>2 DEF EndInv

LEMMA InprocStep == InprocInv /\ [InprocNext \/ BusNext \/ ListenerNext \/ ConnPoolNext]_transportVars => InprocInv'
<1>. SUFFICES ASSUME InprocInv, [InprocNext \/ BusNext \/ ListenerNext \/ ConnPoolNext]_transportVars
              PROVE  InprocInv'
  OBVIOUS
<1>1. CASE InprocNext
  BY <1>1, WriteKeeps, ReadKeeps, EndKeeps DEF InprocNext
<1>2. CASE ~InprocNext
  <2>1. UNCHANGED inprocVars
    BY <1>2 DEF BusNext, Connect, ListenerNext, StaleRemoved, Bind, DropChecks, DropUnlinks, ConnPoolNext,
                PutConnection, GetConnection, HealthCheck, DrainPool, Degrades, transportVars
  <2>. QED BY <2>1 DEF inprocVars, InprocInv, EndInv
<1>. QED BY <1>1, <1>2

\* On the bus an end that waits is the one its agents' key leads to.
MeetInv ==
  /\ claims \in Seq([by : SUBSET BusAgents, both : BOOLEAN])
  /\ \A i \in DOMAIN claims :
       ~claims[i].both => claims[i].by \in DOMAIN pendingEnd /\ pendingEnd[claims[i].by] = i
  /\ \A key \in DOMAIN pendingEnd :
       pendingEnd[key] \in DOMAIN claims /\ claims[pendingEnd[key]].by = key

LEMMA ConnectKeeps ==
  ASSUME MeetInv, NEW from \in BusAgents, NEW to \in BusAgents, Connect(from, to)
  PROVE  MeetInv'
<1>. DEFINE Claim == [by : SUBSET BusAgents, both : BOOLEAN]
            key == {from, to}
<1>1. PICK n \in Nat : n = Len(claims)
  BY DEF MeetInv
<1>2. claims \in Seq(Claim) /\ DOMAIN claims = 1..n /\ \A i \in 1..n : claims[i] \in Claim
  <2>1. claims \in Seq(Claim)
    BY DEF MeetInv
  <2>. HIDE DEF Claim
  <2>. QED BY <1>1, <2>1
<1>3. CASE key \in DOMAIN pendingEnd
  <2>. DEFINE p == pendingEnd[key]
              r == [claims[p] EXCEPT !.both = TRUE]
  <2>1. p \in 1..n /\ claims[p].by = key
    BY <1>2, <1>3 DEF MeetInv
  <2>2. claims' = [claims EXCEPT ![p] = r] /\ pendingEnd' = [z \in DOMAIN pendingEnd \ {key} |-> pendingEnd[z]]
    BY <1>2, <1>3, <2>1 DEF Connect, ChannelKey, Drop
  <2>3. r \in Claim /\ r.by = key /\ r.both
    BY <1>2, <2>1
  <2>. HIDE DEF r, p
  <2>4. /\ claims' \in Seq(Claim) /\ DOMAIN claims' = 1..n /\ claims'[p] = r
        /\ \A i \in 1..n : i # p => claims'[i] = claims[i]
    BY <1>2, <2>1, <2>2, <2>3
  <2>5. p = pendingEnd[key]
    BY DEF p
  <2>6. ASSUME NEW i \in DOMAIN claims', ~claims'[i].both
        PROVE  claims'[i].by \in DOMAIN pendingEnd' /\ pendingEnd'[claims'[i].by] = i
    <3>1. i # p /\ i \in 1..n /\ claims'[i] = claims[i]
      BY <2>3, <2>4, <2>6
    <3>2. claims[i].by \in DOMAIN pendingEnd /\ pendingEnd[claims[i].by] = i
      BY <1>2, <2>6, <3>1 DEF MeetInv
    <3>. QED BY <2>2, <2>5, <3>1, <3>2
  <2>7. ASSUME NEW k \in DOMAIN pendingEnd'
        PROVE  pendingEnd'[k] \in DOMAIN claims' /\ claims'[pendingEnd'[k]].by = k
    <3>1. k \in DOMAIN pendingEnd /\ k # key /\ pendingEnd'[k] = pendingEnd[k]
      BY <2>2
    <3>2. pendingEnd[k] \in 1..n /\ claims[pendingEnd[k]].by = k
      BY <1>2, <3>1 DEF MeetInv
    <3>. QED BY <2>1, <2>4, <3>1, <3>2
  <2>. QED BY <2>4, <2>6, <2>7 DEF MeetInv
<1>4. CASE key \notin DOMAIN pendingEnd
  <2>. DEFINE r == [by |-> key, both |-> FALSE]
  <2>1. /\ claims' = Append(claims, r)
        /\ pendingEnd' = [z \in DOMAIN pendingEnd \cup {key} |-> IF z = key THEN n + 1 ELSE pendingEnd[z]]
    BY <1>1, <1>4 DEF Connect, ChannelKey, Put
  <2>2. r \in Claim /\ r.by = key /\ ~r.both
    OBVIOUS
  <2>. HIDE DEF r
  <2>3. /\ claims' \in Seq(Claim) /\ DOMAIN claims' = 1..(n + 1) /\ claims'[n + 1] = r
        /\ \A i \in 1..n : claims'[i] = claims[i]
    BY <1>1, <1>2, <2>1, <2>2
  <2>4. \A i \in 1..(n + 1) : i \in 1..n \/ i = n + 1
    OBVIOUS
  <2>5. n + 1 \in 1..(n + 1) /\ \A i \in 1..n : i \in 1..(n + 1)
    OBVIOUS
  <2>6. ASSUME NEW i \in DOMAIN claims', ~claims'[i].both
        PROVE  claims'[i].by \in DOMAIN pendingEnd' /\ pendingEnd'[claims'[i].by] = i
    <3>1. CASE i = n + 1
      BY <2>1, <2>2, <2>3, <3>1
    <3>2. CASE i \in 1..n
      <4>1. claims[i].by \in DOMAIN pendingEnd /\ pendingEnd[claims[i].by] = i /\ claims'[i] = claims[i]
        BY <1>2, <2>3, <2>6, <3>2 DEF MeetInv
      <4>. QED BY <1>4, <2>1, <4>1
    <3>. QED BY <2>3, <2>4, <3>1, <3>2
  <2>7. ASSUME NEW k \in DOMAIN pendingEnd'
        PROVE  pendingEnd'[k] \in DOMAIN claims' /\ claims'[pendingEnd'[k]].by = k
    <3>1. CASE k = key
      BY <2>1, <2>2, <2>3, <2>5, <3>1
    <3>2. CASE k # key
      <4>1. k \in DOMAIN pendingEnd /\ pendingEnd'[k] = pendingEnd[k]
        BY <2>1, <3>2
      <4>2. pendingEnd[k] \in 1..n /\ claims[pendingEnd[k]].by = k
        BY <1>2, <4>1 DEF MeetInv
      <4>. QED BY <2>3, <2>5, <4>1, <4>2
    <3>. QED BY <3>1, <3>2
  <2>. QED BY <2>3, <2>6, <2>7 DEF MeetInv
<1>. QED BY <1>3, <1>4

(***************************************************************************)
(* A listener about to unlink found its own socket at the path; what is    *)
(* there now is that one, none, or one that was bound since it looked.     *)
(***************************************************************************)
SocketInv ==
  /\ socketFile \in Nat /\ inodes \in Nat
  /\ listener \in [Listeners -> [inode : Nat, step : {"none", "bound", "unlink", "gone"}, seen : Nat]]
  /\ \A l \in Listeners :
       listener[l].step = "unlink" =>
         /\ listener[l].seen <= inodes
         /\ socketFile = 0 \/ socketFile = listener[l].inode \/ socketFile > listener[l].seen
  /\ ForeignSocketSpared

LEMMA SocketsKeep ==
  ASSUME SocketInv, ListenerNext
  PROVE  SocketInv'
<1>. DEFINE ListenerState == [inode : Nat, step : {"none", "bound", "unlink", "gone"}, seen : Nat]
<1>0. /\ socketFile \in Nat /\ inodes \in Nat /\ listener \in [Listeners -> ListenerState]
  BY DEF SocketInv
<1>1. CASE StaleRemoved
  BY <1>0, <1>1 DEF StaleRemoved, SocketInv, ForeignSocketSpared
<1>2. ASSUME NEW l \in Listeners, Bind(l) PROVE SocketInv'
  <2>. DEFINE r == [inode |-> inodes + 1, step |-> "bound", seen |-> 0]
  <2>1. /\ inodes' = inodes + 1 /\ socketFile' = inodes + 1 /\ unlinked' = unlinked
        /\ listener' = [listener EXCEPT ![l] = r]
    BY <1>2 DEF Bind
  <2>2. r \in ListenerState /\ r.step = "bound"
    BY <1>0
  <2>. HIDE DEF r
  <2>3. /\ listener' \in [Listeners -> ListenerState] /\ listener'[l].step = "bound"
        /\ \A k \in Listeners : k # l => listener'[k] = listener[k]
    BY <1>0, <2>1, <2>2
  <2>4. ASSUME NEW k \in Listeners, listener'[k].step = "unlink"
        PROVE  listener'[k].seen <= inodes' /\ socketFile' > listener'[k].seen
    <3>1. k # l /\ listener'[k] = listener[k] /\ listener[k].seen \in Nat /\ listener[k].seen <= inodes
      BY <1>0, <2>3, <2>4 DEF SocketInv
    <3>. QED BY <1>0, <2>1, <3>1
  <2>. QED BY <1>0, <2>1, <2>3, <2>4 DEF SocketInv, ForeignSocketSpared
<1>3. ASSUME NEW l \in Listeners, DropChecks(l) PROVE SocketInv'
  <2>. DEFINE s == IF socketFile = listener[l].inode THEN "unlink" ELSE "gone"
              r == [listener[l] EXCEPT !.step = s, !.seen = inodes]
  <2>1. /\ UNCHANGED <<socketFile, inodes, unlinked>> /\ listener' = [listener EXCEPT ![l] = r]
    BY <1>0, <1>3 DEF DropChecks, OwnSocket
  <2>2. /\ r \in ListenerState /\ r.seen = inodes /\ r.inode = listener[l].inode
        /\ r.step = "unlink" => socketFile = r.inode
    BY <1>0
  <2>. HIDE DEF r, s
  <2>3. /\ listener' \in [Listeners -> ListenerState] /\ listener'[l] = r
        /\ \A k \in Listeners : k # l => listener'[k] = listener[k]
    BY <1>0, <2>1, <2>2
  <2>4. ASSUME NEW k \in Listeners, listener'[k].step = "unlink"
        PROVE  /\ listener'[k].seen <= inodes'
               /\ socketFile' = 0 \/ socketFile' = listener'[k].inode \/ socketFile' > listener'[k].seen
    <3>1. CASE k = l
      BY <1>0, <2>1, <2>2, <2>3, <2>4, <3>1
    <3>2. CASE k # l
      BY <2>1, <2>3, <2>4, <3>2 DEF SocketInv
    <3>. QED BY <3>1, <3>2
  <2>. QED BY <1>0, <2>1, <2>3, <2>4 DEF SocketInv, ForeignSocketSpared
<1>4. ASSUME NEW l \in Listeners, DropUnlinks(l) PROVE SocketInv'
  <2>. DEFINE r == [listener[l] EXCEPT !.step = "gone"]
              u == <<socketFile, listener[l].inode, listener[l].seen>>
  <2>1. /\ socketFile' = 0 /\ inodes' = inodes /\ listener[l].step = "unlink"
        /\ listener' = [listener EXCEPT ![l] = r]
        /\ unlinked' = IF socketFile = 0 THEN unlinked ELSE unlinked \cup {u}
    BY <1>0, <1>4 DEF DropUnlinks
  <2>2. r \in ListenerState /\ r.step = "gone"
    BY <1>0
  <2>3. socketFile # 0 => u[1] = u[2] \/ u[1] > u[3]
    BY <1>0, <2>1 DEF SocketInv
  <2>. HIDE DEF r, u
  <2>4. /\ listener' \in [Listeners -> ListenerState] /\ listener'[l] = r
        /\ \A k \in Listeners : k # l => listener'[k] = listener[k]
    BY <1>0, <2>1, <2>2
  <2>5. ForeignSocketSpared'
    BY <2>1, <2>3 DEF SocketInv, ForeignSocketSpared
  <2>6. ASSUME NEW k \in Listeners, listener'[k].step = "unlink" PROVE listener'[k].seen <= inodes'
    BY <2>1, <2>2, <2>4, <2>6 DEF SocketInv
  <2>. QED BY <1>0, <2>1, <2>4, <2>5, <2>6 DEF SocketInv
<1>. QED BY <1>1, <1>2, <1>3, <1>4 DEF ListenerNext

SharedTransportInv ==
  /\ MeetInv /\ SocketInv
  /\ pooled \in Seq(Nat) /\ Len(pooled) <= PoolSlots /\ nextIndex \in Nat /\ putCount \in Nat

LEMMA RetainedTyped ==
  ASSUME SharedTransportInv, Retain
  PROVE  /\ pooled' \in Seq(Nat) /\ Len(pooled') <= PoolSlots
         /\ \A k \in 1..Len(pooled') : pooled'[k] \in usable /\ pooled'[k] \in ToSet(pooled)
<1>. DEFINE H == Healthy(pooled)
<1>1. PICK n \in Nat : n = Len(pooled) /\ DOMAIN pooled = 1..n /\ pooled \in Seq(Nat) /\ n <= PoolSlots
  BY DEF SharedTransportInv
<1>2. H \subseteq 1..n /\ \A i \in H : pooled[i] \in usable /\ pooled[i] \in Nat /\ pooled[i] \in ToSet(pooled)
  BY <1>1 DEF Healthy, ToSet
<1>3. Cardinality(H) \in Nat /\ Cardinality(H) <= n
  <2>1. IsFiniteSet(1..n) /\ Cardinality(1..n) = n
    BY FS_Interval
  <2>2. IsFiniteSet(H)
    BY <1>2, <2>1, FS_Subset
  <2>. QED BY <1>2, <2>1, <2>2, FS_Subset, FS_CardinalityType
<1>. HIDE DEF H
<1>4. PICK c \in Nat : c = Cardinality(H) /\ c <= n
  BY <1>3
<1>5. PICK old \in [1..c -> H] : pooled' = [i \in 1..c |-> pooled[old[i]]]
  BY <1>4 DEF Retain, H
<1>6. \A i \in 1..c : old[i] \in H
  BY <1>5
<1>7. \A i \in 1..c : pooled'[i] \in usable /\ pooled'[i] \in Nat /\ pooled'[i] \in ToSet(pooled)
  BY <1>2, <1>5, <1>6
<1>8. pooled' \in Seq(Nat) /\ Len(pooled') = c
  <2>1. pooled' = [i \in 1..c |-> pooled'[i]] /\ \A i \in 1..c : pooled'[i] \in Nat
    BY <1>5, <1>7
  <2>2. pooled' \in [1..c -> Nat]
    BY <2>1
  <2>. QED BY <2>2
<1>. QED BY <1>1, <1>4, <1>7, <1>8, PoolSlotsAssumption

LEMMA ConnPoolKeeps ==
  ASSUME SharedTransportInv, ConnPoolNext
  PROVE  /\ pooled' \in Seq(Nat) /\ Len(pooled') <= PoolSlots /\ nextIndex' \in Nat /\ putCount' \in Nat
         /\ handedOut' # handedOut => handedOut'[1] \in usable /\ handedOut'[1] \in ToSet(pooled)
<1>0. pooled \in Seq(Nat) /\ Len(pooled) <= PoolSlots /\ nextIndex \in Nat /\ putCount \in Nat /\ PoolSlots \in Nat
  BY PoolSlotsAssumption DEF SharedTransportInv
<1>1. CASE PutConnection
  <2>1. /\ Len(pooled) < PoolSlots /\ putCount' = putCount + 1 /\ pooled' = Append(pooled, putCount + 1)
        /\ handedOut' = handedOut /\ nextIndex' = nextIndex
    BY <1>1 DEF PutConnection
  <2>2. putCount + 1 \in Nat
    BY <1>0
  <2>3. pooled' \in Seq(Nat) /\ Len(pooled') = Len(pooled) + 1
    BY <1>0, <2>1, <2>2
  <2>. QED BY <1>0, <2>1, <2>2, <2>3
<1>2. CASE GetConnection
  <2>1. /\ pooled' \in Seq(Nat) /\ Len(pooled') <= PoolSlots /\ putCount' = putCount
        /\ \A k \in 1..Len(pooled') : pooled'[k] \in usable /\ pooled'[k] \in ToSet(pooled)
    BY <1>2, RetainedTyped DEF GetConnection
  <2>2. CASE pooled' = <<>>
    BY <1>0, <1>2, <2>1, <2>2 DEF GetConnection
  <2>3. CASE pooled' # <<>>
    <3>1. PICK n \in Nat : n = Len(pooled') /\ n > 0
      BY <2>1, <2>3
    <3>2. handedOut' = <<pooled'[(nextIndex % n) + 1]>> /\ nextIndex' = (nextIndex + 1) % (PoolSlots * PoolSlots)
      BY <1>2, <2>3, <3>1 DEF GetConnection
    <3>3. (nextIndex % n) + 1 \in 1..n
      BY <1>0, <3>1
    <3>4. PICK q \in Nat : q = PoolSlots * PoolSlots /\ q > 0
      <4>1. PoolSlots > 0
        BY <1>0, <2>1, <3>1
      <4>2. PICK s \in Nat : s = PoolSlots /\ s > 0
        BY <1>0, <4>1
      <4>3. s * s \in Nat /\ s * s > 0
        BY <4>2
      <4>. QED BY <4>2, <4>3
    <3>5. nextIndex' \in Nat
      BY <1>0, <3>2, <3>4
    <3>. QED BY <1>0, <2>1, <3>1, <3>2, <3>3, <3>5
  <2>. QED BY <2>2, <2>3
<1>3. CASE HealthCheck
  BY <1>0, <1>3, RetainedTyped DEF HealthCheck
<1>4. CASE DrainPool \/ \E c \in usable : Degrades(c)
  <2>1. pooled' \in {pooled, <<>>} /\ UNCHANGED <<handedOut, putCount, nextIndex>>
    BY <1>4 DEF DrainPool, Degrades
  <2>2. <<>> \in Seq(Nat) /\ Len(<<>>) <= PoolSlots
    BY <1>0
  <2>3. pooled' \in Seq(Nat) /\ Len(pooled') <= PoolSlots
    BY <1>0, <2>1, <2>2
  <2>. QED BY <1>0, <2>1, <2>3
<1>. QED BY <1>1, <1>2, <1>3, <1>4 DEF ConnPoolNext

LEMMA SharedFirst == TransportInit => SharedTransportInv
<1>. SUFFICES ASSUME TransportInit PROVE SharedTransportInv
  OBVIOUS
<1>1. MeetInv
  BY DEF TransportInit, MeetInv, EmptyMap
<1>2. SocketInv
  BY DEF TransportInit, SocketInv, ForeignSocketSpared, Idle
<1>. QED BY <1>1, <1>2, PoolSlotsAssumption DEF TransportInit, SharedTransportInv

LEMMA SharedStep ==
  ASSUME SharedTransportInv, [InprocNext \/ BusNext \/ ListenerNext \/ ConnPoolNext]_transportVars
  PROVE  /\ SharedTransportInv'
         /\ handedOut' # handedOut => handedOut'[1] \in usable /\ handedOut'[1] \in ToSet(pooled)
<1>1. CASE InprocNext \/ UNCHANGED transportVars
  <2>1. UNCHANGED <<meetingVars, listenerVars, connPoolVars>>
    BY <1>1 DEF InprocNext, WriteBytes, ReadSome, ReadEof, CloseEnd, transportVars
  <2>. QED BY <2>1 DEF meetingVars, listenerVars, connPoolVars, SharedTransportInv, MeetInv, SocketInv, ForeignSocketSpared
<1>2. CASE BusNext
  <2>1. UNCHANGED <<listenerVars, connPoolVars>> /\ MeetInv'
    BY <1>2, ConnectKeeps DEF BusNext, Connect, SharedTransportInv
  <2>. QED BY <2>1 DEF listenerVars, connPoolVars, SharedTransportInv, SocketInv, ForeignSocketSpared
<1>3. CASE ListenerNext
  <2>1. UNCHANGED <<meetingVars, connPoolVars>> /\ SocketInv'
    BY <1>3, SocketsKeep DEF ListenerNext, StaleRemoved, Bind, DropChecks, DropUnlinks, SharedTransportInv
  <2>. QED BY <2>1 DEF meetingVars, connPoolVars, SharedTransportInv, MeetInv
<1>4. CASE ConnPoolNext
  <2>1. UNCHANGED <<meetingVars, listenerVars>>
    BY <1>4 DEF ConnPoolNext, PutConnection, GetConnection, HealthCheck, DrainPool, Degrades
  <2>2. MeetInv' /\ SocketInv'
    BY <2>1 DEF meetingVars, listenerVars, SharedTransportInv, MeetInv, SocketInv, ForeignSocketSpared
  <2>. QED BY <1>4, <2>2, ConnPoolKeeps DEF SharedTransportInv
<1>. QED BY <1>1, <1>2, <1>3, <1>4

LEMMA MeetMeansOne == MeetInv => AgentsMeet
  BY DEF MeetInv, AgentsMeet

(***************************************************************************)
(* A connection: what an end has counted and what it is writing is on the  *)
(* wire, and is all that is there unless one of its writes was cut.        *)
(***************************************************************************)
ConnState == [state : {"Connecting", "Connected", "Draining", "Closed"}, sent : Nat, received : Nat]
WriteState == [left : Nat, total : Nat]

CountsAgree(c, u, w, torn) ==
  /\ u.left <= u.total
  /\ c.sent + (u.total - u.left) <= w
  /\ ~torn => w = c.sent + (u.total - u.left)
  /\ c.state = "Connecting" => u.left = 0

ConnInv ==
  /\ conn \in [Ends -> ConnState] /\ unwritten \in [Ends -> WriteState]
  /\ onWire \in [Ends -> Nat] /\ taken \in [Ends -> Nat] /\ tornWrite \in [Ends -> BOOLEAN]
  /\ \A e \in Ends : /\ CountsAgree(conn[e], unwritten[e], onWire[e], tornWrite[e])
                     /\ conn[e].received = taken[e] /\ taken[e] <= onWire[Peer(e)]
  /\ TlsAuthenticated

LEMMA PeerEnd ==
  \A e \in Ends : Peer(e) \in Ends /\ Peer(e) # e /\ Peer(Peer(e)) = e
                  /\ \A f \in Ends : f = e \/ f = Peer(e)
<1>1. Peer("dialer") = "acceptor" /\ Peer("acceptor") = "dialer"
  BY DEF Peer, Ends
<1>. QED BY <1>1 DEF Ends

\* A step of one end.
LEMMA ConnMoves ==
  ASSUME ConnInv, NEW e \in Ends, NEW c \in ConnState, NEW u \in WriteState, NEW w \in Nat, NEW t \in Nat,
         NEW torn \in BOOLEAN,
         conn' = [conn EXCEPT ![e] = c], unwritten' = [unwritten EXCEPT ![e] = u],
         onWire' = [onWire EXCEPT ![e] = w], taken' = [taken EXCEPT ![e] = t],
         tornWrite' = [tornWrite EXCEPT ![e] = torn], UNCHANGED <<transport, tlsPolicy>>,
         CountsAgree(c, u, w, torn), onWire[e] <= w, c.received = t, t <= onWire[Peer(e)],
         c.state = "Connecting" <=> conn[e].state = "Connecting"
  PROVE  ConnInv'
<1>. DEFINE p == Peer(e)
<1>1. p \in Ends /\ p # e /\ Peer(p) = e /\ \A f \in Ends : f = e \/ f = p
  BY PeerEnd
<1>2. /\ conn \in [Ends -> ConnState] /\ unwritten \in [Ends -> WriteState]
      /\ onWire \in [Ends -> Nat] /\ taken \in [Ends -> Nat] /\ tornWrite \in [Ends -> BOOLEAN]
      /\ CountsAgree(conn[p], unwritten[p], onWire[p], tornWrite[p])
      /\ conn[p].received = taken[p] /\ taken[p] <= onWire[e]
  BY <1>1 DEF ConnInv
<1>. HIDE DEF p
<1>3. /\ conn' \in [Ends -> ConnState] /\ unwritten' \in [Ends -> WriteState]
      /\ onWire' \in [Ends -> Nat] /\ taken' \in [Ends -> Nat] /\ tornWrite' \in [Ends -> BOOLEAN]
      /\ conn'[e] = c /\ unwritten'[e] = u /\ onWire'[e] = w /\ taken'[e] = t /\ tornWrite'[e] = torn
      /\ conn'[p] = conn[p] /\ unwritten'[p] = unwritten[p] /\ onWire'[p] = onWire[p]
      /\ taken'[p] = taken[p] /\ tornWrite'[p] = tornWrite[p]
  BY <1>1, <1>2
<1>4. p = Peer(e)
  BY DEF p
<1>5. taken[p] <= w /\ t <= onWire[p]
  BY <1>1, <1>2, <1>4
<1>6. ASSUME NEW f \in Ends
      PROVE  /\ CountsAgree(conn'[f], unwritten'[f], onWire'[f], tornWrite'[f])
             /\ conn'[f].received = taken'[f] /\ taken'[f] <= onWire'[Peer(f)]
  <2>1. CASE f = e
    BY <1>3, <1>4, <1>5, <2>1
  <2>2. CASE f = p
    BY <1>1, <1>2, <1>3, <1>5, <2>2
  <2>. QED BY <1>1, <2>1, <2>2
<1>7. \A f \in Ends : conn'[f].state = "Connecting" <=> conn[f].state = "Connecting"
  BY <1>1, <1>3
<1>8. TlsAuthenticated'
  BY <1>7 DEF ConnInv, TlsAuthenticated, Ends
<1>9. \A f \in Ends : CountsAgree(conn[f], unwritten[f], onWire[f], tornWrite[f])'
  BY <1>6 DEF CountsAgree
<1>. QED BY <1>3, <1>6, <1>8, <1>9 DEF ConnInv

LEMMA ConnStepKeeps ==
  ASSUME ConnInv, NEW e \in Ends,
         \/ \E n \in 1..MaxBytes : WriteBegins(e, n)
         \/ WriteByte(e) \/ WriteEnds(e) \/ WriteCancelled(e)
         \/ \E error \in {"reset", "other"} : WriteFails(e, error) \/ ReadFails(e, error)
         \/ \E n \in 0..MaxBytes : Read(e, n)
         \/ ConnCloseBegins(e) \/ ConnCloseEnds(e)
  PROVE  ConnInv'
<1>. DEFINE c == conn[e]
            u == unwritten[e]
            w == onWire[e]
            t == taken[e]
            torn == tornWrite[e]
<1>1. /\ conn \in [Ends -> ConnState] /\ unwritten \in [Ends -> WriteState]
      /\ onWire \in [Ends -> Nat] /\ taken \in [Ends -> Nat] /\ tornWrite \in [Ends -> BOOLEAN]
  BY DEF ConnInv
<1>2. /\ conn = [conn EXCEPT ![e] = c] /\ unwritten = [unwritten EXCEPT ![e] = u]
      /\ onWire = [onWire EXCEPT ![e] = w] /\ taken = [taken EXCEPT ![e] = t]
      /\ tornWrite = [tornWrite EXCEPT ![e] = torn]
  BY <1>1
<1>3. c \in ConnState /\ u \in WriteState /\ w \in Nat /\ t \in Nat /\ torn \in BOOLEAN
  BY <1>1
<1>4. /\ c.sent \in Nat /\ c.received \in Nat /\ u.left \in Nat /\ u.total \in Nat
      /\ c.state \in {"Connecting", "Connected", "Draining", "Closed"}
  BY <1>3 DEF ConnState, WriteState
<1>5. /\ u.left <= u.total /\ c.sent + (u.total - u.left) <= w
      /\ ~torn => w = c.sent + (u.total - u.left)
      /\ c.state = "Connecting" => u.left = 0
      /\ c.received = t /\ t <= onWire[Peer(e)]
  BY DEF ConnInv, CountsAgree
<1>6. NoWrite \in WriteState /\ NoWrite.left = 0 /\ NoWrite.total = 0
  BY DEF NoWrite, WriteState
<1>7. ASSUME NEW n \in 1..MaxBytes, WriteBegins(e, n) PROVE ConnInv'
  <2>. DEFINE v == [left |-> n, total |-> n]
  <2>1. /\ unwritten' = [unwritten EXCEPT ![e] = v] /\ u = NoWrite /\ c.state # "Connecting"
        /\ UNCHANGED <<transport, tlsPolicy, conn, onWire, taken, tornWrite>>
    BY <1>7 DEF WriteBegins, Usable
  <2>2. v \in WriteState /\ v.left = n /\ v.total = n /\ n \in Nat
    BY DEF WriteState
  <2>. HIDE DEF v
  <2>3. CountsAgree(c, v, w, torn)
    BY <1>4, <1>5, <1>6, <2>1, <2>2 DEF CountsAgree
  <2>4. onWire[e] <= w /\ (c.state = "Connecting" <=> conn[e].state = "Connecting")
    BY <1>3
  <2>. HIDE DEF c, u, w, t, torn
  <2>5. /\ conn' = [conn EXCEPT ![e] = c] /\ unwritten' = [unwritten EXCEPT ![e] = v]
        /\ onWire' = [onWire EXCEPT ![e] = w] /\ taken' = [taken EXCEPT ![e] = t]
        /\ tornWrite' = [tornWrite EXCEPT ![e] = torn] /\ UNCHANGED <<transport, tlsPolicy>>
    BY <1>2, <2>1
  <2>. QED BY <1>3, <1>5, <2>2, <2>3, <2>4, <2>5, ConnMoves
<1>8. ASSUME WriteByte(e) PROVE ConnInv'
  <2>. DEFINE v == [u EXCEPT !.left = u.left - 1]
  <2>1. /\ unwritten' = [unwritten EXCEPT ![e] = v] /\ onWire' = [onWire EXCEPT ![e] = w + 1] /\ u.left > 0
        /\ UNCHANGED <<transport, tlsPolicy, conn, taken, tornWrite>>
    BY <1>1, <1>8 DEF WriteByte
  <2>2. v \in WriteState /\ v.left = u.left - 1 /\ v.total = u.total
    BY <1>3, <1>4, <2>1 DEF WriteState
  <2>. HIDE DEF v
  <2>3. CountsAgree(c, v, w + 1, torn)
    BY <1>3, <1>4, <1>5, <2>1, <2>2 DEF CountsAgree
  <2>4. PICK x \in Nat : x = w + 1 /\ onWire[e] <= x /\ (c.state = "Connecting" <=> conn[e].state = "Connecting")
    BY <1>3
  <2>. HIDE DEF c, u, w, t, torn
  <2>5. /\ conn' = [conn EXCEPT ![e] = c] /\ unwritten' = [unwritten EXCEPT ![e] = v]
        /\ onWire' = [onWire EXCEPT ![e] = x] /\ taken' = [taken EXCEPT ![e] = t]
        /\ tornWrite' = [tornWrite EXCEPT ![e] = torn] /\ UNCHANGED <<transport, tlsPolicy>>
        /\ CountsAgree(c, v, x, torn)
    BY <1>2, <2>1, <2>3, <2>4
  <2>. QED BY <1>3, <1>5, <2>2, <2>4, <2>5, ConnMoves
<1>9. ASSUME WriteEnds(e) PROVE ConnInv'
  <2>. DEFINE d == [c EXCEPT !.sent = c.sent + u.total]
  <2>1. /\ unwritten' = [unwritten EXCEPT ![e] = NoWrite] /\ conn' = [conn EXCEPT ![e] = d] /\ u.left = 0
        /\ UNCHANGED <<transport, tlsPolicy, onWire, taken, tornWrite>>
    BY <1>1, <1>9 DEF WriteEnds
  <2>2. d \in ConnState /\ d.sent = c.sent + u.total /\ d.state = c.state /\ d.received = c.received
    BY <1>3, <1>4 DEF ConnState
  <2>. HIDE DEF d
  <2>3. CountsAgree(d, NoWrite, w, torn)
    BY <1>3, <1>4, <1>5, <1>6, <2>1, <2>2 DEF CountsAgree
  <2>4. onWire[e] <= w /\ d.received = t /\ (d.state = "Connecting" <=> conn[e].state = "Connecting")
    BY <1>3, <1>5, <2>2
  <2>. HIDE DEF c, u, w, t, torn
  <2>5. /\ conn' = [conn EXCEPT ![e] = d] /\ unwritten' = [unwritten EXCEPT ![e] = NoWrite]
        /\ onWire' = [onWire EXCEPT ![e] = w] /\ taken' = [taken EXCEPT ![e] = t]
        /\ tornWrite' = [tornWrite EXCEPT ![e] = torn] /\ UNCHANGED <<transport, tlsPolicy>>
    BY <1>2, <2>1
  <2>. QED BY <1>3, <1>5, <1>6, <2>2, <2>3, <2>4, <2>5, ConnMoves
\* A write is given up: the state may change with it, the count does not.
<1>10. ASSUME NEW d \in ConnState, d.sent = c.sent, d.received = c.received,
              d.state = c.state \/ d.state = "Closed", u.left > 0,
              conn' = [conn EXCEPT ![e] = d], CutOff(e)
       PROVE  ConnInv'
  <2>. DEFINE b == torn \/ u.left < u.total
  <2>1. /\ unwritten' = [unwritten EXCEPT ![e] = NoWrite] /\ tornWrite' = [tornWrite EXCEPT ![e] = b]
        /\ UNCHANGED <<transport, tlsPolicy, onWire, taken>> /\ b \in BOOLEAN
    BY <1>1, <1>10 DEF CutOff
  <2>2. c.state # "Connecting" /\ (d.state = "Connecting" <=> c.state = "Connecting")
    BY <1>5, <1>10
  <2>3. CountsAgree(d, NoWrite, w, b)
    BY <1>3, <1>4, <1>5, <1>6, <1>10 DEF CountsAgree
  <2>4. onWire[e] <= w /\ d.received = t /\ (d.state = "Connecting" <=> conn[e].state = "Connecting")
    BY <1>3, <1>5, <1>10, <2>2
  <2>. HIDE DEF c, u, w, t, torn, b
  <2>5. /\ conn' = [conn EXCEPT ![e] = d] /\ unwritten' = [unwritten EXCEPT ![e] = NoWrite]
        /\ onWire' = [onWire EXCEPT ![e] = w] /\ taken' = [taken EXCEPT ![e] = t]
        /\ tornWrite' = [tornWrite EXCEPT ![e] = b] /\ b \in BOOLEAN /\ UNCHANGED <<transport, tlsPolicy>>
    BY <1>2, <1>10, <2>1
  <2>. QED BY <1>3, <1>5, <1>6, <1>10, <2>3, <2>4, <2>5, ConnMoves
<1>11. ASSUME WriteCancelled(e) PROVE ConnInv'
  BY <1>2, <1>3, <1>10, <1>11 DEF WriteCancelled
<1>12. ASSUME NEW error \in {"reset", "other"}, WriteFails(e, error) PROVE ConnInv'
  <2>0. PICK s \in {c.state, "Closed"} : s = StateAfter(e, error)
    BY DEF StateAfter
  <2>. DEFINE d == [c EXCEPT !.state = s, !.sent = c.sent + 0]
  <2>1. conn' = [conn EXCEPT ![e] = d] /\ u.left > 0 /\ CutOff(e)
    BY <1>1, <1>12, <2>0 DEF WriteFails, CountedIfCut
  <2>2. c.sent + 0 = c.sent /\ s \in {"Connecting", "Connected", "Draining", "Closed"}
    BY <1>4, <2>0
  <2>3. /\ d \in ConnState /\ d.sent = c.sent /\ d.received = c.received
        /\ d.state = c.state \/ d.state = "Closed"
    <3>. HIDE DEF c
    <3>. QED BY <1>3, <1>4, <2>0, <2>2 DEF ConnState
  <2>. HIDE DEF d
  <2>. QED BY <1>10, <2>1, <2>3
\* Only the state and what was received change.
<1>13. ASSUME NEW d \in ConnState, NEW k \in Nat, d.sent = c.sent, d.received = c.received + k,
              t + k <= onWire[Peer(e)], d.state # "Connecting", c.state # "Connecting",
              conn' = [conn EXCEPT ![e] = d], taken' = [taken EXCEPT ![e] = t + k],
              UNCHANGED <<transport, tlsPolicy, unwritten, onWire, tornWrite>>
       PROVE  ConnInv'
  <2>1. CountsAgree(d, u, w, torn)
    BY <1>5, <1>13 DEF CountsAgree
  <2>2. PICK x \in Nat : /\ x = t + k /\ onWire[e] <= w /\ d.received = x
                         /\ d.state = "Connecting" <=> conn[e].state = "Connecting"
    BY <1>3, <1>5, <1>13
  <2>. HIDE DEF c, u, w, t, torn
  <2>3. /\ conn' = [conn EXCEPT ![e] = d] /\ unwritten' = [unwritten EXCEPT ![e] = u]
        /\ onWire' = [onWire EXCEPT ![e] = w] /\ taken' = [taken EXCEPT ![e] = x]
        /\ tornWrite' = [tornWrite EXCEPT ![e] = torn] /\ UNCHANGED <<transport, tlsPolicy>>
    BY <1>2, <1>13, <2>2
  <2>4. x <= onWire[Peer(e)]
    BY <1>13, <2>2
  <2>. QED BY <1>3, <2>1, <2>2, <2>3, <2>4, ConnMoves
<1>14. ASSUME NEW n \in 0..MaxBytes, Read(e, n) PROVE ConnInv'
  <2>0. PICK s : s = IF n = 0 THEN "Closed" ELSE c.state
    OBVIOUS
  <2>. DEFINE d == [c EXCEPT !.received = c.received + n, !.state = s]
  <2>1. /\ conn' = [conn EXCEPT ![e] = d] /\ taken' = [taken EXCEPT ![e] = t + n] /\ c.state # "Connecting"
        /\ t + n <= onWire[Peer(e)] /\ UNCHANGED <<transport, tlsPolicy, unwritten, onWire, tornWrite>>
    BY <1>1, <1>14, <2>0 DEF Read, Usable
  <2>2. n \in Nat /\ c.received + n \in Nat /\ s \in {"Connected", "Draining", "Closed"}
    BY <1>4, <2>0, <2>1
  <2>3. d \in ConnState /\ d.sent = c.sent /\ d.received = c.received + n /\ d.state # "Connecting"
    <3>. HIDE DEF c
    <3>. QED BY <1>3, <2>2 DEF ConnState
  <2>. HIDE DEF d
  <2>. QED BY <1>13, <2>1, <2>2, <2>3
\* Only the state changes.
<1>15. ASSUME NEW s \in {"Connected", "Draining", "Closed"}, c.state # "Connecting",
              conn' = [conn EXCEPT ![e].state = s],
              UNCHANGED <<transport, tlsPolicy, unwritten, onWire, taken, tornWrite>>
       PROVE  ConnInv'
  <2>. DEFINE d == [c EXCEPT !.state = s]
  <2>1. conn' = [conn EXCEPT ![e] = d]
    BY <1>1, <1>15
  <2>2. d \in ConnState /\ d.sent = c.sent /\ d.received = c.received + 0 /\ d.state # "Connecting"
    BY <1>3, <1>4, <1>15 DEF ConnState
  <2>3. t + 0 <= onWire[Peer(e)] /\ taken' = [taken EXCEPT ![e] = t + 0] /\ 0 \in Nat
    BY <1>2, <1>3, <1>5, <1>15
  <2>. HIDE DEF d
  <2>. QED BY <1>13, <1>15, <2>1, <2>2, <2>3
<1>16. ASSUME NEW error \in {"reset", "other"}, ReadFails(e, error) PROVE ConnInv'
  <2>1. /\ conn' = [conn EXCEPT ![e].state = StateAfter(e, error)] /\ c.state # "Connecting"
        /\ UNCHANGED <<transport, tlsPolicy, wireVars>>
    BY <1>16 DEF ReadFails, Usable
  <2>2. StateAfter(e, error) \in {"Connected", "Draining", "Closed"}
    BY <1>4, <2>1 DEF StateAfter
  <2>. QED BY <1>15, <2>1, <2>2 DEF wireVars
<1>17. ASSUME ConnCloseBegins(e) \/ ConnCloseEnds(e) PROVE ConnInv'
  <2>1. PICK s \in {"Draining", "Closed"} : conn' = [conn EXCEPT ![e].state = s]
    BY <1>17 DEF ConnCloseBegins, ConnCloseEnds
  <2>2. c.state # "Connecting" /\ UNCHANGED <<transport, tlsPolicy, unwritten, onWire, taken, tornWrite>>
    BY <1>17 DEF ConnCloseBegins, ConnCloseEnds, Usable, wireVars
  <2>. QED BY <1>15, <2>1, <2>2
<1>. QED BY <1>7, <1>8, <1>9, <1>11, <1>12, <1>14, <1>16, <1>17

LEMMA EstablishKeeps ==
  ASSUME ConnInv, Establish
  PROVE  ConnInv'
<1>1. /\ conn \in [Ends -> ConnState] /\ unwritten \in [Ends -> WriteState]
      /\ onWire \in [Ends -> Nat] /\ taken \in [Ends -> Nat] /\ tornWrite \in [Ends -> BOOLEAN]
  BY DEF ConnInv
<1>2. /\ conn' = [e \in Ends |-> [conn[e] EXCEPT !.state = "Connected"]] /\ (transport = "tls" => Handshake)
      /\ UNCHANGED <<transport, tlsPolicy, unwritten, onWire, taken, tornWrite>>
  BY DEF Establish, wireVars
<1>3. ASSUME NEW e \in Ends
      PROVE  /\ conn'[e] \in ConnState /\ conn'[e].sent = conn[e].sent /\ conn'[e].received = conn[e].received
             /\ conn'[e].state = "Connected"
  BY <1>1, <1>2 DEF ConnState
<1>4. conn' \in [Ends -> ConnState]
  BY <1>2, <1>3
<1>5. ASSUME NEW e \in Ends
      PROVE  /\ CountsAgree(conn[e], unwritten[e], onWire[e], tornWrite[e])'
             /\ conn'[e].received = taken'[e] /\ taken'[e] <= onWire'[Peer(e)]
  BY <1>2, <1>3 DEF ConnInv, CountsAgree
<1>6. TlsAuthenticated'
  BY <1>2 DEF TlsAuthenticated, Handshake, ServerProves, ClientProves
<1>. QED BY <1>1, <1>2, <1>4, <1>5, <1>6 DEF ConnInv

LEMMA ConnInvStep == ConnInv /\ [ConnectionNext]_connVars => ConnInv'
<1>. SUFFICES ASSUME ConnInv, [ConnectionNext]_connVars PROVE ConnInv'
  OBVIOUS
<1>1. CASE UNCHANGED connVars \/ \E e \in Ends : InitTls(e)
  <2>1. UNCHANGED <<transport, tlsPolicy, conn, unwritten, onWire, taken, tornWrite>>
    BY <1>1 DEF connVars, InitTls, wireVars
  <2>. QED BY <2>1 DEF ConnInv, CountsAgree, TlsAuthenticated
<1>2. CASE Establish
  BY <1>2, EstablishKeeps
<1>3. CASE ConnectionNext /\ ~Establish /\ ~\E e \in Ends : InitTls(e)
  BY <1>3, ConnStepKeeps DEF ConnectionNext
<1>. QED BY <1>1, <1>2, <1>3

LEMMA ConnInvFirst == ConnectionInit => ConnInv
<1>. SUFFICES ASSUME ConnectionInit PROVE ConnInv
  OBVIOUS
<1>1. /\ conn = [e \in Ends |-> [state |-> "Connecting", sent |-> 0, received |-> 0]]
      /\ unwritten = [e \in Ends |-> [left |-> 0, total |-> 0]]
      /\ onWire = [e \in Ends |-> 0] /\ taken = [e \in Ends |-> 0] /\ tornWrite = [e \in Ends |-> FALSE]
  BY DEF ConnectionInit, NoWrite
<1>2. /\ conn \in [Ends -> ConnState] /\ unwritten \in [Ends -> WriteState]
      /\ onWire \in [Ends -> Nat] /\ taken \in [Ends -> Nat] /\ tornWrite \in [Ends -> BOOLEAN]
  BY <1>1 DEF ConnState, WriteState
<1>3. ASSUME NEW e \in Ends
      PROVE  /\ CountsAgree(conn[e], unwritten[e], onWire[e], tornWrite[e])
             /\ conn[e].received = taken[e] /\ taken[e] <= onWire[Peer(e)]
  BY <1>1, PeerEnd DEF CountsAgree
<1>4. TlsAuthenticated
  BY <1>1 DEF TlsAuthenticated, Ends
<1>. QED BY <1>2, <1>3, <1>4 DEF ConnInv

LEMMA ConnInvIsSound == ConnInv => ConnectionsSound
<1>. SUFFICES ASSUME ConnInv, NEW e \in Ends
              PROVE  /\ conn[e].sent <= onWire[e]
                     /\ ~tornWrite[e] =>
                          conn[Peer(e)].received <= conn[e].sent + unwritten[e].total - unwritten[e].left
  BY DEF ConnInv, ConnectionsSound, CountersHonest
<1>1. Peer(e) \in Ends /\ Peer(Peer(e)) = e
  BY PeerEnd
<1>2. /\ conn[e] \in ConnState /\ unwritten[e] \in WriteState /\ onWire[e] \in Nat /\ taken[Peer(e)] \in Nat
      /\ CountsAgree(conn[e], unwritten[e], onWire[e], tornWrite[e])
      /\ conn[Peer(e)].received = taken[Peer(e)] /\ taken[Peer(e)] <= onWire[e]
  BY <1>1 DEF ConnInv
<1>3. conn[e].sent \in Nat /\ unwritten[e].total \in Nat /\ unwritten[e].left \in Nat
  BY <1>2 DEF ConnState, WriteState
<1>. QED BY <1>2, <1>3 DEF CountsAgree

(***************************************************************************)
(* The transports of daf-transport, for every number of agents, listeners, *)
(* pooled connections and bytes: an in-process stream delivers what was    *)
(* written however writes and reads are cut, two agents meet on the bus, a *)
(* drop spares foreign sockets, the pool hands out what is usable, the     *)
(* counters of a connection tell the truth, and a TLS connection is        *)
(* authenticated as its policies ask.                                      *)
(***************************************************************************)
THEOREM WiresStaySound == TransportSpec /\ ConnectionSpec => WireSound
<1>. DEFINE TNext == InprocNext \/ BusNext \/ ListenerNext \/ ConnPoolNext
<1>1. TransportInit => InprocInv /\ SharedTransportInv
  BY InprocFirst, SharedFirst
<1>2. InprocInv /\ SharedTransportInv /\ [TNext]_transportVars => InprocInv' /\ SharedTransportInv'
  BY InprocStep, SharedStep
<1>3. InprocInv /\ SharedTransportInv => StreamFaithful /\ AgentsMeet /\ ForeignSocketSpared
  BY InprocIsFaithful, MeetMeansOne DEF SharedTransportInv, SocketInv
<1>4. SharedTransportInv /\ [TNext]_transportVars =>
        [handedOut' # handedOut => handedOut'[1] \in usable /\ handedOut'[1] \in ToSet(pooled)]_transportVars
  BY SharedStep
<1>5. TransportSpec => TransportSound
  BY <1>1, <1>2, <1>3, <1>4, PTL DEF TransportSpec, TransportSound, HandedOutUsable
<1>6. ConnectionSpec => []ConnectionsSound
  BY ConnInvFirst, ConnInvStep, ConnInvIsSound, PTL DEF ConnectionSpec
<1>. QED BY <1>5, <1>6, PTL DEF WireSound
=============================================================================
