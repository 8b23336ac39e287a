------------------------------ MODULE Channels ------------------------------
(***************************************************************************)
(* The logical channels of a DDAL connection. Each has an outbound and an  *)
(* inbound bounded queue; a send clones the queue's sender, waits for a    *)
(* permit and enqueues under the queue's lock, while the pool may close    *)
(* the channel at any moment. Frames are counted, not told apart.          *)
(***************************************************************************)
EXTENDS Integers, Sequences, FiniteSets

CONSTANTS
  Writers,       \* tasks that send on a channel or deliver to it
  MaxChannels,   \* max_channels of the pool
  ChannelBuffer, \* channel_buffer_size
  MaxOpens,      \* bound on the channels ever opened
  MaxSends       \* bound on the sends begun

ASSUME ChannelAssumption ==
  /\ MaxChannels \in Nat \ {0} /\ ChannelBuffer \in Nat \ {0}
  /\ MaxOpens \in Nat /\ MaxSends \in Nat /\ IsFiniteSet(Writers)

ChanIds == 1..MaxOpens
Directions == {"outbound", "inbound"}

VARIABLES
  nextChannel,   \* next_channel_id
  live,          \* channels in inbound_writers
  chanState,     \* per channel, ChannelState as its owner sets it
  senders,       \* per channel, the directions whose Sender is still in place
  cancelled,     \* channels whose closed token is cancelled
  queue,         \* per channel and direction, the number of frames waiting
  pump,          \* per channel, where its outbound receiver is
  reader,        \* per channel, whether recv has returned None
  writing,       \* per writer, the send it is in
  closing,       \* the close that holds the lifecycle lock
  begun,         \* sends begun
  accepted       \* history: per channel, the frames whose send returned Ok

channelVars == <<nextChannel, live, chanState, senders, cancelled, queue, pump, reader,
                 writing, closing, begun, accepted>>

ChannelState == {"Opening", "Open", "Closing", "Closed"}
NotWriting == [step |-> "idle", chan |-> 0, dir |-> "outbound"]
NoClose == [chan |-> 0, step |-> "none"]

ChannelTypeOK ==
  /\ nextChannel \in 1..MaxOpens + 1
  /\ live \subseteq ChanIds /\ cancelled \subseteq ChanIds
  /\ chanState \in [ChanIds -> ChannelState]
  /\ senders \in [ChanIds -> SUBSET Directions]
  /\ queue \in [ChanIds -> [Directions -> 0..ChannelBuffer]]

ChannelInit ==
  /\ nextChannel = 1 /\ live = {} /\ cancelled = {}
  /\ chanState = [c \in ChanIds |-> "Opening"]
  /\ senders = [c \in ChanIds |-> {}]
  /\ queue = [c \in ChanIds |-> [d \in Directions |-> 0]]
  /\ pump = [c \in ChanIds |-> "pool"]
  /\ reader = [c \in ChanIds |-> "reading"]
  /\ writing = [w \in Writers |-> NotWriting]
  /\ closing = NoClose
  /\ begun = 0
  /\ accepted = [c \in ChanIds |-> 0]

-----------------------------------------------------------------------------
(* The pool *)

OpenChannel ==
  /\ closing = NoClose
  /\ Cardinality(live) < MaxChannels
  /\ nextChannel <= MaxOpens
  /\ live' = live \cup {nextChannel}
  /\ senders' = [senders EXCEPT ![nextChannel] = Directions]
  /\ nextChannel' = nextChannel + 1
  /\ UNCHANGED <<chanState, cancelled, queue, pump, reader, writing, closing, begun, accepted>>

\* The owner moves its channel along once the peer has answered.
Established(c) ==
  /\ c < nextChannel /\ chanState[c] = "Opening"
  /\ chanState' = [chanState EXCEPT ![c] = "Open"]
  /\ UNCHANGED <<nextChannel, live, senders, cancelled, queue, pump, reader, writing,
                 closing, begun, accepted>>

TakeOutboundReceiver(c) ==
  /\ c \in live /\ pump[c] = "pool"
  /\ pump' = [pump EXCEPT ![c] = "taken"]
  /\ UNCHANGED <<nextChannel, live, chanState, senders, cancelled, queue, reader, writing,
                 closing, begun, accepted>>

\* ChannelPool.close, holding the lifecycle lock from the first step to the
\* last: the writer leaves the map, the token is cancelled, the two senders
\* are taken, a receiver nobody took is dropped with what it held.
CloseBegins(c) ==
  /\ closing = NoClose /\ c \in live
  /\ live' = live \ {c}
  /\ closing' = [chan |-> c, step |-> "cancel"]
  /\ UNCHANGED <<nextChannel, chanState, senders, cancelled, queue, pump, reader, writing,
                 begun, accepted>>

CloseCancels ==
  /\ closing.step = "cancel"
  /\ cancelled' = cancelled \cup {closing.chan}
  /\ closing' = [closing EXCEPT !.step = "outbound"]
  /\ UNCHANGED <<nextChannel, live, chanState, senders, queue, pump, reader, writing, begun, accepted>>

CloseTakes ==
  /\ closing.step \in Directions
  /\ senders' = [senders EXCEPT ![closing.chan] = @ \ {closing.step}]
  /\ closing' = [closing EXCEPT !.step = IF closing.step = "outbound" THEN "inbound" ELSE "forget"]
  /\ UNCHANGED <<nextChannel, live, chanState, cancelled, queue, pump, reader, writing, begun, accepted>>

CloseEnds ==
  /\ closing.step = "forget"
  /\ closing' = NoClose
  /\ IF pump[closing.chan] = "pool"
     THEN /\ pump' = [pump EXCEPT ![closing.chan] = "dropped"]
          /\ queue' = [queue EXCEPT ![closing.chan]["outbound"] = 0]
     ELSE UNCHANGED <<pump, queue>>
  /\ UNCHANGED <<nextChannel, live, chanState, senders, cancelled, reader, writing, begun, accepted>>

-----------------------------------------------------------------------------
(* Sending: ChannelQueues.send *)

\* A channel's own send asks whether it is usable; a delivery does not. Both
\* fail at once when the sender has been taken.
SendBegins(w, c, d) ==
  /\ writing[w] = NotWriting
  /\ begun < MaxSends /\ begun' = begun + 1
  /\ c < nextChannel /\ d \in senders[c]
  /\ d = "outbound" => chanState[c] = "Open"
  /\ writing' = [writing EXCEPT ![w] = [step |-> "reserving", chan |-> c, dir |-> d]]
  /\ UNCHANGED <<nextChannel, live, chanState, senders, cancelled, queue, pump, reader,
                 closing, accepted>>

Holding(c, d) == {w \in Writers : writing[w].chan = c /\ writing[w].dir = d}
Permits(c, d) == {w \in Holding(c, d) : writing[w].step = "permit"}

\* The select is biased: a cancelled token wins over a free permit.
\* Mutant: the wait for capacity does not watch the token.
Refused_OnlyReceiver(c, d) == d = "outbound" /\ pump[c] = "dropped"

Refused(c, d) == c \in cancelled \/ (d = "outbound" /\ pump[c] = "dropped")

SendRefused(w) ==
  /\ writing[w].step = "reserving" /\ Refused(writing[w].chan, writing[w].dir)
  /\ writing' = [writing EXCEPT ![w] = NotWriting]
  /\ UNCHANGED <<nextChannel, live, chanState, senders, cancelled, queue, pump, reader,
                 closing, begun, accepted>>

SendReserves(w) ==
  LET c == writing[w].chan  d == writing[w].dir IN
  /\ writing[w].step = "reserving" /\ ~Refused(c, d)
  /\ queue[c][d] + Cardinality(Permits(c, d)) < ChannelBuffer
  /\ writing' = [writing EXCEPT ![w].step = "permit"]
  /\ UNCHANGED <<nextChannel, live, chanState, senders, cancelled, queue, pump, reader,
                 closing, begun, accepted>>

\* Mutant: a permit is enough, the lock is not taken again.
StillOpen_Always(c, d) == TRUE

StillOpen(c, d) == d \in senders[c] /\ c \notin cancelled

SendEnqueues(w) ==
  LET c == writing[w].chan  d == writing[w].dir IN
  /\ writing[w].step = "permit"
  /\ writing' = [writing EXCEPT ![w] = NotWriting]
  /\ IF StillOpen(c, d)
     THEN /\ queue' = [queue EXCEPT ![c][d] = @ + 1]
          /\ accepted' = [accepted EXCEPT ![c] = @ + 1]
     ELSE UNCHANGED <<queue, accepted>>
  /\ UNCHANGED <<nextChannel, live, chanState, senders, cancelled, pump, reader, closing, begun>>

-----------------------------------------------------------------------------
(* Receiving *)

Receive(c, d) ==
  /\ queue[c][d] > 0
  /\ d = "outbound" => pump[c] = "taken"
  /\ queue' = [queue EXCEPT ![c][d] = @ - 1]
  /\ UNCHANGED <<nextChannel, live, chanState, senders, cancelled, pump, reader, writing,
                 closing, begun, accepted>>

\* recv returns None when the queue is drained and no clone of its sender is
\* left, not even one a blocked send holds.
ReceiveNone(c) ==
  /\ c < nextChannel /\ reader[c] = "reading"
  /\ queue[c]["inbound"] = 0 /\ "inbound" \notin senders[c] /\ Holding(c, "inbound") = {}
  /\ reader' = [reader EXCEPT ![c] = "ended"]
  /\ UNCHANGED <<nextChannel, live, chanState, senders, cancelled, queue, pump, writing,
                 closing, begun, accepted>>

CloseNext == CloseCancels \/ CloseTakes \/ CloseEnds
SendNext(w) == SendRefused(w) \/ SendReserves(w) \/ SendEnqueues(w)

ChannelNext ==
  \/ OpenChannel \/ CloseNext
  \/ \E c \in ChanIds :
       \/ Established(c) \/ TakeOutboundReceiver(c) \/ CloseBegins(c) \/ ReceiveNone(c)
       \/ \E d \in Directions : Receive(c, d) \/ \E w \in Writers : SendBegins(w, c, d)
  \/ \E w \in Writers : SendNext(w)

\* A thread that holds the lifecycle lock runs on; a woken task is polled; the
\* application reads what has arrived. Nobody has to open, send or close.
ChannelFairness ==
  /\ WF_channelVars(CloseNext)
  /\ \A w \in Writers : WF_channelVars(SendNext(w))
  /\ \A c \in ChanIds : WF_channelVars(Receive(c, "inbound") \/ ReceiveNone(c))

ChannelSpec == ChannelInit /\ [][ChannelNext]_channelVars /\ ChannelFairness

-----------------------------------------------------------------------------
Shut(c) == c < nextChannel /\ c \notin live /\ closing.chan # c

(***************************************************************************)
(* "Invalidate all existing send handles": once close has returned no send *)
(* on the channel succeeds in either direction, not even one that had      *)
(* already been given a permit, and a later channel never takes the id.    *)
(***************************************************************************)
SealedAfterClose ==
  [][\A c \in ChanIds : Shut(c) => accepted'[c] = accepted[c] /\ c \notin live']_channelVars

(***************************************************************************)
(* Closing a channel lets go of everybody: a send that waits for room on   *)
(* it returns, and its reader drains what is left and is told that there   *)
(* is no more.                                                             *)
(***************************************************************************)
CloseReleases ==
  \A c \in ChanIds : Shut(c) ~>
    /\ reader[c] = "ended"
    /\ \A w \in Writers : writing[w].chan # c

(***************************************************************************)
(* A closed channel takes nothing more and keeps nobody waiting.           *)
(***************************************************************************)
ChannelsSound == []ChannelTypeOK /\ SealedAfterClose /\ CloseReleases
=============================================================================
