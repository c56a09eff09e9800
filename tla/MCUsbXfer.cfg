\* Two transactions on a connection; or two calls and two addresses, which are
\* reused.
CONSTANTS
  Thread = {t1, t2}
  Conn = t1
  Xfer = {x1, x2}
  Nil = Nil
  MaxRq = 2
  MaxBody = 1
SPECIFICATION ConnSpec
INVARIANTS
  NoFreeInFlight
  CallbackOwnsChannel
  ResultExact
  Paired
  EofEarned
PROPERTIES
  ExchangeEnds
