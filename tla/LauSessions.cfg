CONSTANTS
  c1 = c1
  c2 = c2
  Clients = {c1, c2}
  Overlap = TRUE
  MaxJobs = 1
  MaxBatch = 3
  MaxSessions = 3
  Resumes = TRUE
  Faults = {"submit"}
SPECIFICATION FairLauncher
PROPERTIES SubmittedOnce  EndIsSeen
