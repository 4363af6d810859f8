SPECIFICATION LinkSpec
CONSTANTS
  MaxCalls = 3
  MaxBuffer = 2
  CallAtt = {0, 1}
  ReplyAtt = {0, 1}
  Payload <- Payloads
  Masks <- Keys
  Types = {"text", "ping", "connClose"}
  Chunk = {7}
INVARIANTS InPlace InOrder AsSent
PROPERTY EveryCallEnds
