CONSTANTS
  olga = olga
  cora = cora
  dana = dana
  erin = erin
  i1 = i1
  i2 = i2
  Users = {olga, cora, dana, erin}
  Creator = olga
  RolesOf <- TheRoles
  Days = {1, 2}
  LastDay = 2
  TextFields = {"room_layout_preference"}
  Texts = {"rows", "rounds"}
  Nothing = Nothing
  MaxRounds = 2
  MaxHandovers = 2
  ChangeIds = {i1, i2}
  MaxReached = 1
SPECIFICATION FollowedSpec
INVARIANT TypeOK
INVARIANT ConfirmedForThisDate
INVARIANT SafetyIsForThisDate
INVARIANT NothingLeftOpen
INVARIANT ThreadMatchesStatus
INVARIANT HistoryNamesCoordinator
PROPERTY ImplementsLifecycle
PROPERTY ChangesApplyToWhatWasSeen
PROPERTY DecidedByWhoMay
SYMMETRY Symmetry
CHECK_DEADLOCK FALSE
