SPECIFICATION Spec
CONSTANTS
  Plugin = {p1}
  Network = {n1, n2}
  User = {u1}
  Receiver = {ch}
  Command = {c1}
  Nothing = Nothing
  Offered <- NetworkRequirements
  Events = {}
  Lossy = FALSE
  MaxMessages = 1
PROPERTIES SenderVerified
