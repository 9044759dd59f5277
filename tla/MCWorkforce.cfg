SPECIFICATION WorkforceSpec
CONSTANTS
  Requests = {r1, r2, r3}
  Edits <- MCEdits
  Keepers = {r1, r2, r3}
  TTLCareSchedule = 1
  MaxSaves = 2
  Sheets = {sheet1, sheet2}
  Reviewers = {boss1, boss2}
  Day = 2
  Shifts <- MCShifts
SYMMETRY Symmetry
INVARIANTS
  NothingErased
  DerivedPresent
  
PROPERTIES
  UnaskedKept
  
CHECK_DEADLOCK FALSE
