SPECIFICATION SimEdfSpec
CONSTANTS
    Units = {"r1", "r2"}
    Requests <- TiedRequests
    MaxJobs = 1
    MaxSegments = 5
    LastArrival = 0
INVARIANT AdmittedMeetsDeadlines
CHECK_DEADLOCK FALSE
