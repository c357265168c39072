\* All values up to four characters over a letter, a digit, '#' and NUL.
CONSTANTS
  Char = {a, d, Hash, Nul}
  Hash = Hash  Nul = Nul
  Digit = {d}
  SALT = 2
  BLOCK = 4
  MAX_LEN = 4
  MAX_GETS = 3
SPECIFICATION Spec
INVARIANTS ValueSurvives
PROPERTIES NeverGrows StableReads
