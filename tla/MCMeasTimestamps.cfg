SPECIFICATION Spec
CONSTANTS
  Count = 3
  DrainBurst = 2
  FinalRetry = 2
  IdleExit = 2
  MaxDup = 1
INVARIANTS TypeOK ShiftedByLosses LossesCounted
PROPERTIES ReceiverAdvances SenderEnds ReceiverEnds
CHECK_DEADLOCK FALSE
