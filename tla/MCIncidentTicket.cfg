SPECIFICATION Spec
CONSTANTS
  Incidents = {i1}
  Clients = {tab}
  Buffer = 1
  None = None
  MaxFailures = 1
  MaxCrashes = 1
INVARIANTS
  IncidentTicketRaised
