CONSTANTS
  Limits = {"mtm_loss"}
  MaxStreak = 1
  MaxRestarts = 0
SPECIFICATION FairSpec
PROPERTY DailyBlocksExpire
