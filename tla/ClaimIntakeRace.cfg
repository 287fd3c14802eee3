SPECIFICATION IntakeSpec
CONSTANTS
  Tries = 2
  Watches = 1
  Slots <- TwoSlots
  MaxIds = 2
  MaxContents = 2
  MaxPhotos = 1
  MaxVisits = 2
  MaxSubmits = 2
  MaxMishaps = 2
CHECK_DEADLOCK FALSE
INVARIANTS SuccessMeansFiled FiledOnce PhantomsAreExcused FiledPhotosStay FiledIsFollowedUp
PROPERTY PageSettles
