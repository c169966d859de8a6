SPECIFICATION FairSpec
CONSTANTS
  Clients = {u, g}
  User = u
  MaxFailures = 2
  Window = 1
  MaxExposed = 2
  MaxEvents = 2
  MaxTroubles = 1
  TokenTtl = 2
  TicketTtl = 1
  None = None
  Asked = Asked
INVARIANTS TypeOK BoundedGuessing
PROPERTIES NothingStaleShown EventuallyShown BlockEnds SessionEnds
