SPECIFICATION Spec
CONSTANTS
    Session = {"a", "b"}
    Path <- MCPath
    Null = Null
    Stored <- MCStored
    Plan <- MCPlan
INVARIANTS TypeOK RightPlace PathsLead ClosedArrives NoRootStays
PROPERTIES ChangesOneFile
CHECK_DEADLOCK FALSE
