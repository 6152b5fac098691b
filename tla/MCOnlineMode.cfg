SPECIFICATION FairSpec
CONSTANTS
  Users = {alice}
  MaxLogins = 2
  MaxClicks = 5
  MaxOps = 3
  Nobody = Nobody
  NoOp = NoOp
INVARIANT NotStranded
PROPERTY LeaveIsFinal
PROPERTY WaitingIsAnswered
CHECK_DEADLOCK FALSE
