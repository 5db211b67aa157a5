\* One payment while a transition of the node is tentative, which is rolled back.
CONSTANTS
  RewardCalls = {w1}
  RewardNodes = {n1}
  Earned = 2
  NoRewardCall = NoRewardCall
  MaxWindows = 1
SPECIFICATION RewardSpec
INVARIANT EarnedIsKept
CHECK_DEADLOCK FALSE
