\* A pull of two bytes that may resume once.
CONSTANTS
  Op = {"pull"}
  Size = 2
  MaxAttempts = 2
  MaxRedirects = 2
  InitialDelay = 2
  MaxDelay = 3
  Width = 4
  Wish = {0}
SPECIFICATION Spec
CHECK_DEADLOCK FALSE
INVARIANT MismatchMeansMismatch
