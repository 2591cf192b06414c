SPECIFICATION Spec
CONSTANTS
  Plugin = {p1, p2}
  Network = {n1, n2}
  User = {u1}
  Receiver = {ch}
  Command = {c1}
  Nothing = Nothing
  Offered <- NetworkRequirements
  Events = {}
  Lossy = TRUE
  MaxMessages = 2
SYMMETRY Symmetry
INVARIANTS InOrderPerSender
