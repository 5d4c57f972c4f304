SPECIFICATION FairSpec
CONSTANTS
    p1 = p1
    c1 = c1
    c2 = c2
    Processes <- MCProcesses
    Calls <- MCCalls
    ProcessOf <- MCProcessOf
    Threshold = 2
    RecoveryTimeout = 2
    StateTTL = 3
    Prompt = TRUE
  
PROPERTIES Recovers
