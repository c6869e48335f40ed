\* Three addresses, no timeout, timeouts that fit and one that does not.
SPECIFICATION FairSpec
CONSTANTS
  Descriptors = {3, 4}
  Invalid = Invalid
  MaxAddresses = 3
  Timeouts = {0, 1, 7, 10}
  IntMax = 7
  MaxElapsed = 22
  Fallible = {"socket", "nonblock", "poll", "restore"}
INVARIANTS TypeOK DescriptorsHeld ReadyWhenDone Honest WithinTimeout
PROPERTIES OthersUntouched Returns
