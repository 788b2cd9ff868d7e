SPECIFICATION Spec
CONSTANTS
  Sub = {s1}
  Term = 5
  Short = 3
  Window = 2
  Grace = 1
  Purge = 1
  MaxFaults = 2
INVARIANTS NoSilentEnd  SensitiveTermKept RetentionKept
