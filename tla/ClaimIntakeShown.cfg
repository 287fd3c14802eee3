SPECIFICATION IntakeSpec
CONSTANTS
  Tries = 2
  Watches = 1
  Slots <- TwoSlots
  MaxIds = 2
  MaxContents = 2
  MaxPhotos = 2
  MaxVisits = 2
  MaxSubmits = 2
  MaxMishaps = 1
CHECK_DEADLOCK FALSE
INVARIANT ShownIsFiled
