SPECIFICATION Spec
CONSTANTS
  Writers = {w1, w2}
  MaxChannels = 1
  ChannelBuffer = 1
  MaxOpens = 2
  MaxSends = 3
  RouteAgents = {ra1, ra2}
  Topics = {t1, t2}
  RouterTasks = {k1, k2}
  RouteChannels = {1, 2}
  Priorities = {0, 1}
  Nobody = Nobody
  Sizes = {1, 2}
  MaxHandshake = 1
  Sessions = {u1, u2}
  NoSession = NoSession
  ConvIds = {v1, v2}
  Speakers = {sp1, sp2}
  MaxTurns = 2
  Offered <- MCOffered
  MaxPayload = 3
  MaxFrame = 4
  MaxFrames = 3
  MaxFaults = 1
  Events <- MCEvents
  Filters <- MCFilters
  SubIds = {i1, i2}
  SubBuffer = 1
  MaxPublished = 3
  Kinds = {"cpu", "mem"}
  Holders = {h1, h2, h3}
  PoolMax = 2
  InprocCapacity = 2
  MaxWritten = 4
  BusAgents = {ba1, ba2, ba3}
  MaxConnects = 6
  Listeners = {l1, l2, l3}
  MaxInodes = 3
  PoolSlots = 2
  MaxPooled = 4
  MaxBytes = 2
INVARIANTS
  ConversationsAgreed
  
  CoreSound
PROPERTIES
  ChannelsSound
  
  
CHECK_DEADLOCK FALSE
