SPECIFICATION Spec
CONSTANTS
  Letters <- TwoLetters
  MaxFilter = 4
  MaxName = 5
INVARIANTS TypeOK MatchAgrees MatchSound
