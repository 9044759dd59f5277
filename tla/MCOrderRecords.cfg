SPECIFICATION Spec
CONSTANTS
  Slots = {s1}
  garfield = garfield
  milo = milo
  Felines <- MCFelines
INVARIANTS
  RecordedIsExecuted
