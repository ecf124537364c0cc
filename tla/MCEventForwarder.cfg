SPECIFICATION Spec
CONSTANTS
  b1 = b1
  b2 = b2
  audit = audit
  Runs = {b1, b2}
  Visibility <- MCVisibility
  Observers = {audit}
  Forwarder = Forwarder
  MinRank <- MCMinRank
  MaxQueue = 2
  MaxCancels = 2
INVARIANTS
  EventsAreAccountedFor
  ForwardsFaithfully
PROPERTY BoardsAreNotHeldUp
