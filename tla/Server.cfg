CONSTANTS
    Dialogues <- MCDialogues
    BufferCapacity = 4
    HeaderSize = 2
    PacketLimit = 8
    Conns = {1, 2}
    Threads = {1, 2}
    ThreadOf <- MCThreadOf
    DdlConns = {1, 2}
    MaxStatements <- MCMaxStatements
    BackoffTries = 2
    Orderly = TRUE
    Clients = {1, 2, 3, 4}
    NumHandlers = 2
    Fds = {1, 2}
    PromptReuse = FALSE
    Callers = {main}
    Owner = main
    WorkerIds = {w1, w2}
    PoolSizes = {1, 2}
    MaxTasks = 3
    NumTasks = 2
    Dispatches = 3
    EarlyStop = FALSE
    BusyStop = FALSE
    StopsFirst = TRUE
SPECIFICATION SVSpec
INVARIANTS   CatalogLocked NeverCommitsMustAbort   PoolAccounts 
  
CHECK_DEADLOCK FALSE
