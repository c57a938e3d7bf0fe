SPECIFICATION PanelSpec
CONSTANTS
  Scenes <- UpdateScene
  Levels <- TheLevels
  Limit = 100
  Period = 40
  Moments <- TheMoments
  IsSession = TRUE
  Settings <- SomeSettings
  MaxSending = 1
  Disturbance <- Calm
  MaxVersion = 1
  MaxCycle = 2
  MaxTasks = 1
  Listed <- TheProviders
  OldId = "windsurf"
  NewId = "devin"
  KeyManaged = {"openrouter"}
  Detections <- Detected
  EarlierFiles <- SettingsFiles
  MaxLaunch = 2
  MaxChange = 2
  Absent = Absent
  Foreign = Foreign
  LoadOrder <- TheLoad
  Whole = {"paceNotifications"}
  View = {"overviewGraphStyle"}
  Field = {"sessionReset"}
  EarlierStyles <- TrayStyles
  PrefLaunches = 2
  PrefChanges = 2
  PrefFailures = 1
INVARIANTS
  RestartWorks
CHECK_DEADLOCK FALSE
