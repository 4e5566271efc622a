\* AsyncApi: the three generations of the write, beside the read.  Peers: every
\* client with every server it is meant for.  Protobuf: two books and a string;
\* two clients and a server.
SPECIFICATION ProgramSpec
CONSTANTS
  Kinds = {"err", "queue", "all"}
  MaxMsgs = 3
  MsgLen = 3
  RECVSIZE = 2
  MaxBytes = 3
  Pairs <- AllPairs
  N = 2
  Rounds = 2
  HEAD = 2
  BODY = 1
  CHUNK = 2
  Cap = 1
  Names <- MCNames
  Pages <- MCPages
  Prices <- MCPrices
  Foreign <- MCForeign
  MaxUnknown = 1
  MaxCalls = 5
  Clients = {c1, c2}
  CallNames <- MCNames
INVARIANTS TypeOK OrderKept ReadsWhole RepliesMatch NormalEnd
  RoundTrip MergeIsConcat ReadsLast AnswerRight
PROPERTIES AllSent ClientsFinish CallReturns
\* The owner writes no more, the clients are at their end, every call has
\* returned.
CHECK_DEADLOCK FALSE
