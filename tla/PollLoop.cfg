CONSTANTS
  Content <- Taps
  Tokens = {"create"}
  Consumed = {"create"}
  MaxRetries = 1
  MaxStops = 2
SPECIFICATION FairSpec
INVARIANTS
  NothingSkipped
  NeverTwiceHere
  PresenceSettled
PROPERTIES
  ImplementsInbox
  DropsAfterRetries
  UpdatesSettle
