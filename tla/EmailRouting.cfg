SPECIFICATION RoutingSpec
CONSTANTS
  NumRoutes = 2
  Domains <- SmallDomains
  Names <- SmallNames
  Letters <- SmallLetters
  Owners = {"bare", "client"}
  MaxEntries = 4
  Seen <- SmallSeen
  Heard <- SmallHeard
  Normalized <- SmallLabel
CHECK_DEADLOCK FALSE
INVARIANTS
  RoutingTypeOK
  OrderDecidesOnlyTies
  MostSpecificWins
  KnownClientsAreRouted
