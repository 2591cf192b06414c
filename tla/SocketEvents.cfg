SPECIFICATION Spec
CONSTANTS
  Plugin = {p1, p2}
  NoPlugin = NoPlugin
  Kind = {"subscribe", "message", "handshake"}
  Base = 2
  MaxRequests = 2
  MaxEvents = 2
SYMMETRY Symmetry
INVARIANTS TypeOK
PROPERTIES ImplementsChannel
