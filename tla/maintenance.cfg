SPECIFICATION Spec
CONSTANTS
  Addr <- MCAddr
  Contents <- MCContents
  Leasable = {"flaky"}
  Flaky = {"flaky"}
  MinInterval = 1
  MaxInterval = 1
  Gap = 1
  Halvings = 4
  MaxAge = 1
  Full = 2
  Latencies = {0, 1}
  Repeats = 2
INVARIANTS TrackedOnce
PROPERTIES GoneStaysGone StaysChecked NoWriteLost
CHECK_DEADLOCK FALSE
