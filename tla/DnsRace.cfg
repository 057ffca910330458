CONSTANTS
  Task = {t1, t2}
  Hanging = {}
  NumServices = 2
SPECIFICATION Spec
INVARIANTS SuccessfulRequestsAgree
