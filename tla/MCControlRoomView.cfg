SPECIFICATION Spec
CONSTANTS
  Urls = {u1, u2}
  InvalidUrl = InvalidUrl
  Answers = {"snapshot", "failure"}
  MaxSaves = 2
  NoTimer = NoTimer
  Blank = Blank
INVARIANTS
  LabelMatchesSource
  OneRefreshAtATime
  TimersAreTracked
PROPERTIES
  SettingsReachTheView
