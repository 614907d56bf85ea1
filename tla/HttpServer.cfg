SPECIFICATION FairSpec
CONSTANTS
    Host = {"client.node", "store.node"}
    Client = {"one", "two", "three"}
    storeNode = "store.node"
    App <- MCApp
    Loaded <- MCLoaded
    Null = Null
    Plan <- MCPlan
    MaxFailures = 1
INVARIANTS TypeOK RightCode OwnAnswers DownloadInstalls
PROPERTIES RequestsEnd
CHECK_DEADLOCK FALSE
