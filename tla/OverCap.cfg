SPECIFICATION Spec
CONSTANTS
  Request = {q1, q2}
  MaxBody = 1
INVARIANT UnownedIsUnanswered
CHECK_DEADLOCK FALSE
