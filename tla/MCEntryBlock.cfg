CONSTANTS
  Limits = {"mtm_loss", "open_loss", "daily_loss", "order_limit"}
  MaxStreak = 2
  MaxRestarts = 1
SPECIFICATION FairSpec
INVARIANTS
  TypeOK
  NoGuardIsOverruled
  StreakBlockIsEarned
PROPERTIES
  LiftedByOwner
  EntriesResume
