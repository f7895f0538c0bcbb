\* Two requests that abort, one after the other or at the same time.
SPECIFICATION Spec
CONSTANTS
  Requests = {r1, r2}
  Codes = {"NOT_FOUND", "plain"}
  None = None
  Slots = 3
INVARIANT AnsweredAsRaised
\* Both requests are answered in the end.
CHECK_DEADLOCK FALSE
