SPECIFICATION Spec
CONSTANTS
  Urls = {u1}
  InvalidUrl = InvalidUrl
  Answers = {"snapshot", "unrenderable"}
  MaxSaves = 0
  NoTimer = NoTimer
  Blank = Blank
PROPERTIES
  RefreshEnds
