---------------------------- MODULE MCMessaging -----------------------------
(***************************************************************************)
(* What carries messages and events: the parts share no state, each is on  *)
(* an instance of its own. focus names the part a behaviour is about; the  *)
(* others keep their first state.                                          *)
(***************************************************************************)
EXTENDS Channels, MessageRouter, Sessions, FrameCodec, CoreServices, Transports

DataCell == [cell |-> "data", v |-> 1]

\* Payloads that hold the magic number, one too long, a wrong length, a
\* version the codec does not speak.
MCOffered ==
  {FrameOf("ping", <<>>), FrameOf("data", <<DataCell, Magic>>), FrameOf("data", <<Magic, DataCell>>),
   FrameOf("data", <<DataCell, DataCell, DataCell>>),
   [FrameOf("data", <<DataCell>>) EXCEPT !.len = 2], [FrameOf("ping", <<>>) EXCEPT !.minor = 2]}

Event(kind, tags) == [kind |-> kind, source |-> "s", tags |-> tags]
MCEvents == {Event("up", {"a"}), Event("down", {"a", "b"})}
MCFilters ==
  {[kinds |-> {}, sources |-> {"s"}, tags |-> {"b", "c"}], [kinds |-> {"up"}, sources |-> {}, tags |-> {}]}

VARIABLE focus

vars == <<channelVars, routerVars, sessionVars, codecVars, coreVars, transportVars, connVars, focus>>

Foci == {"channels", "groups", "topics", "handshake", "conversations", "codec", "events",
         "resources", "inproc", "bus", "listeners", "pool", "connections"}

\* A part out of focus with several first states starts in one of them.
OneOutOfFocus == focus # "connections" => transport = "tcp"

Init ==
  /\ focus \in Foci
  /\ OneOutOfFocus
  /\ ChannelInit /\ RouterInit /\ SessionInit /\ CodecInit /\ CoreInit /\ TransportInit /\ ConnectionInit

\* Only the part in focus moves.
OthersStill ==
  /\ focus # "channels" => UNCHANGED channelVars
  /\ focus \notin {"groups", "topics"} => UNCHANGED routerVars
  /\ focus \notin {"handshake", "conversations"} => UNCHANGED sessionVars
  /\ focus # "codec" => UNCHANGED codecVars
  /\ focus \notin {"events", "resources"} => UNCHANGED coreVars
  /\ focus \notin {"inproc", "bus", "listeners", "pool"} => UNCHANGED transportVars
  /\ focus # "connections" => UNCHANGED connVars

\* Bounds: one agent at a time is reached over two channels; beside the topics
\* it matters only whether there is a route.
TwoWaysToOne == Cardinality({a \in DOMAIN routes' : Len(routes'[a]) = 2}) <= 1
PlainRoutes ==
  \A a \in DOMAIN routes' : \A i \in DOMAIN routes'[a] :
    LET r == routes'[a][i] IN r.chan = 1 /\ r.priority = 0 /\ r.load = 0

Next ==
  /\ UNCHANGED focus
  /\ OthersStill
  /\ \/ focus = "channels" /\ ChannelNext
     \/ focus = "groups" /\ (RouteNext \/ SelectNext) /\ TwoWaysToOne
     \/ focus = "topics" /\ (RouteNext \/ TopicNext) /\ PlainRoutes
     \/ focus = "handshake" /\ HandshakeNext
     \/ focus = "conversations" /\ ConversationNext
     \/ focus = "codec" /\ CodecNext
     \/ focus = "events" /\ EventBusNext
     \/ focus = "resources" /\ PoolNext
     \/ focus = "inproc" /\ InprocNext
     \/ focus = "bus" /\ BusNext
     \/ focus = "listeners" /\ ListenerNext
     \/ focus = "pool" /\ ConnPoolNext
     \/ focus = "connections" /\ ConnectionNext /\ unwritten'["acceptor"] = NoWrite

\* ChannelFairness asks nothing of a pool in which nothing is open.
Spec == Init /\ [][Next]_vars /\ ChannelFairness
=============================================================================
