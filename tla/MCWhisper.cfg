SPECIFICATION Spec
CONSTANTS
  alice = alice
  bob = bob
  Agents <- MCAgents
  Routes <- MCRoutes
  Asks = {ask1}
  Sends = {note}
  Waits = {wait1}
  Replies = {1}
  InboxCap = 1
  NoAgent = NoAgent
INVARIANTS TypeOK NothingArrivedIsLost ReplySettles
PROPERTIES RegistryConverges
CHECK_DEADLOCK FALSE
