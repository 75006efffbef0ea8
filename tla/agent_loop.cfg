CONSTANTS
    Tasks = {t1, t2}
    Sessions = {s1}
    Turns <- MCTurns
    PlanSizes = {2}
    MaxToolLoops = 2
    MaxRestarts = 1
    SavedRules <- MCSavedRules
    Unloaded = Unloaded
    None = None
SPECIFICATION AgentSpec
INVARIANTS AgentTypeOK ApplyIsApproved PlanInOrder NoToolLeftRunning
PROPERTY RequestEnds
CHECK_DEADLOCK FALSE
