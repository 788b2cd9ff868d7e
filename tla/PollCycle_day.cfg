SPECIFICATION Spec
CONSTANTS
  Times = {1,2,3}
  Horizon = 2
  Threshold = 1
  Never = Never
  Unknown = Unknown
INVARIANTS DigestIsTheNews RecordIsTheBest
PROPERTIES SnapshotIsWhole AlarmsAreEarned
