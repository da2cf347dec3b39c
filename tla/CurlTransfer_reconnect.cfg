SPECIFICATION TransferSpec
CONSTANTS
  Servers = {a, b}
  NoServer = NoServer
  Connections = 2
INVARIANTS EmptyReplyToRequest
