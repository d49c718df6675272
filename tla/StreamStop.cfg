CONSTANTS
  Users = {u1}
  UserOps = {"stop", "station"}
  DialsFail = FALSE
  NamesFail = FALSE
SPECIFICATION HistorySpec
PROPERTY StopStops
