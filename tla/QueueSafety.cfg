SPECIFICATION FairSpec
CONSTANTS
  Plugin = {p1}
  Network = {n1}
  User = {u1, u2}
  Receiver = {ch}
  Command = {c1}
  Nothing = Nothing
  Offered <- SenderRequirements
  Events = {"WHOIS"}
  Lossy = FALSE
  MaxMessages = 2
INVARIANTS TypeOK WaitingIsAsked
PROPERTIES SenderVerified CommandsLeave
