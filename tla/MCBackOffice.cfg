SPECIFICATION MCSpec
CONSTANTS
  Tickets = {t1, t2}
  Watches = {watch}
  PageSize = 1
  Asked = {"closed", ""}
  MaxComments = 1
  MaxTicketFaults <- MCTicketFaults
  Validity = 3
  Threshold = 1
  MaxTime = 4
  MaxCrashes = 1
  MaxFailures = 1
  MaxSwaps = 2
  Tabs = {"home", "mobile"}
  Months = {3, 4}
  MaxAccountRequests = 3
  MaxErrors = 1
  Serials = {"serial"}
  Versions = {"version"}
  Entries = {"log1", "log2"}
  Zones = {"alpha"}
  MaxRequests = 3
  MaxJobs = 2
  MaxFaults = 1
INVARIANTS
  
  CertificatesExplained
  
  
SYMMETRY Symmetry
CHECK_DEADLOCK FALSE
