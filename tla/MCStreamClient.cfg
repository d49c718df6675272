CONSTANTS
  Users = {u1}
  UserOps = {"stop", "post_stop", "station", "instant", "cli_instant", "save", "wake"}
  DialsFail = TRUE
  NamesFail = TRUE
SPECIFICATION FairSpec
INVARIANT IdleIsAnnounced
PROPERTIES StopTaken SilenceEnds SoftlyReplaced
