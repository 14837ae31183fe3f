CONSTANTS
  Users = {u1, u2}
  Nobody = Nobody
  SystemFile = TRUE
  FirstUser = u1
  Apps = {"finder", "terminal", "event_viewer"}
  EventViewer = "event_viewer"
  NoApp = "unknown"
  MaxEvents = 2
SPECIFICATION FairSpec
INVARIANTS
  OnlyTheOwnersConfiguration
  DeviceGrabberKnowsEnvironment
PROPERTIES
  GrabberFollowsConsole
  FrontmostApplicationKnown
CHECK_DEADLOCK FALSE
