SPECIFICATION FairSpec
CONSTANTS
  Kinds = {"text", "first", "middle", "last", "ping", "close", "invalid"}
  MaxFrames = 3
  MaxInbound = 2
  MaxSends = 1
  MaxBacklog = 1
INVARIANTS
  TypeOK
  MessagesDelivered
  SocketUse
PROPERTIES
  ClientContract
  ServerEndClosesChannel
CHECK_DEADLOCK FALSE
