\* Streams: three bytes each way, buffers of one and two, room for two in the
\* kernel, so that sends are taken in part and receives leave bytes behind.
\* Datagrams: three of up to three bytes, empty ones among them.
CONSTANTS
  MaxBytes = 3
  Room = 2
  MaxSize = 2
  Base = 4
  Peers <- MCPeers
  MaxMsgs = 3
  MaxLen = 3
SPECIFICATION DataSpec
INVARIANTS DataTypeOK NeverDisconnected DatagramsTold AnswersReturn
PROPERTIES ReceivesStream SendsStream EndSeen
