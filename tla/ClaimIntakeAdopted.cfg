SPECIFICATION IntakeSpec
CONSTANTS
  Tries = 1
  Watches = 1
  Slots = {1}
  MaxIds = 3
  MaxContents = 2
  MaxPhotos = 2
  MaxVisits = 3
  MaxSubmits = 2
  MaxMishaps = 1
CHECK_DEADLOCK FALSE
INVARIANTS IntakeTypeOK SuccessMeansFiled FiledOnce PhantomsAreExcused FiledPhotosStay FiledIsFollowedUp
