SPECIFICATION Spec
CONSTANTS
  a = a
  b = b
  c = c
  d = d
  h0 = h0
  h1 = h1
  t1 = t1
  t2 = t2
  Key <- MCKey
  Tickets <- MCTickets
  Routes <- MCRoutes
  OwnerKeys <- MCOwnerKeys
  RoutedSlots = 3
  SharedSlots = 1
  MaxReserves = 3
  NoKey = NoKey
  NoLoad = NoLoad
INVARIANTS
  IndexExact
  PinsAreLeases
  LeasedPagesStay
  ReservationsOwnSlots
PROPERTIES
  AllOrNothing
SYMMETRY MCSymmetry
CHECK_DEADLOCK FALSE
