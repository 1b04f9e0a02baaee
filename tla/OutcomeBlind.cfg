SPECIFICATION Spec
CONSTANTS
  Panes = {home, editor}
  Marked = {home}
  Fronts = {home}
  FirstLooks = {"draft"}
  PaintKinds = {"none", "frames"}
  Chrome = chrome
  Document = document
  NoSample = NoSample
  NoWindow = NoWindow
  Expectations = {"paintsNamed"}
  StableChoices = {0, 2}
  Deadline = 5
  Poll = 1
  ProbeInterval = 2
  MinBudget = 1
  MaxChanges = 2
  MaxLate = 1
INVARIANTS
  SeenWhenEventDriven
