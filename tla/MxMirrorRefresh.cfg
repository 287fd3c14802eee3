SPECIFICATION MirrorSpec
CONSTANTS
  l1 = l1  l2 = l2
  Lines = {l1, l2}
  Readers = {r1}  Walkers = {w1}
  Reactive = TRUE
  MaxEdits = 3  MaxMishaps = 1
INVARIANTS DatesMoveOnlyByTearsOrRaces GhostsComeFromRaces
PROPERTY Converges
