SPECIFICATION FairSpec
CONSTANTS
  Plugin = {p1}
  NoPlugin = NoPlugin
  Kind = {"subscribe", "message", "handshake", "badHandshake", "config", "coreConfig", "badConfig", "malformed", "unsized", "empty"}
  Base = 2
  MaxRequests = 2
  MaxEvents = 1
PROPERTIES ImplementsChannel RequestsAnswered
