\* The health panel of the admin console and the screen of the Android app.
SPECIFICATION ClientsSpec
CONSTANTS
  MaxLoads = 3
  MaxTaps = 6
INVARIANTS
  ShownIsFresh
  IdIsOfTheFailure
  ScreenIsOneLanguage
PROPERTIES
  PanelSettles
CHECK_DEADLOCK FALSE
