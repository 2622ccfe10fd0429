------------------------------- MODULE MCServer -------------------------------
(* Small instances of the components of the server for TLC, with fair        *)
(* scheduling of their threads.  They run one at a time: part says which     *)
(* one, and the others stay where they began.                                *)
EXTENDS ConnectionIo, Sessions, ConnectionHandles, WorkerPool, ServerLifecycle

VARIABLE part

svVars == <<part, ioVars, sessVars, handleVars, poolVars, lifeVars>>

\* Three dialogues: packets of all sizes up to the limit, some of them cut by the buffer, with
\* a socket that blocks; replies longer than a buffer, and a last packet that ends the
\* connection; a packet over the limit.
MCDialogues ==
    {[bodies |-> <<3, 0, 6, 4>>, replies |-> <<2, 3, 1, 4>>, blocks |-> TRUE, timeouts |-> TRUE],
     [bodies |-> <<4, 5, 2>>, replies |-> <<5, 9, 0>>, blocks |-> FALSE, timeouts |-> FALSE],
     [bodies |-> <<1, 9>>, replies |-> <<4, 1>>, blocks |-> TRUE, timeouts |-> TRUE]}

\* Connection 1 has thread 1, connection 2 thread 2.
MCThreadOf == [c \in Conns |-> c]

\* One connection sends up to two statements beside COMMIT and ROLLBACK, the other one.
MCMaxStatements == [c \in Conns |-> IF c = 1 THEN 2 ELSE 1]

SVInit ==
    /\ part \in {"io", "sessions", "handles", "pool", "life"}
    /\ IOInit /\ SInit /\ HInit /\ WPInit /\ LInit
    \* One initial state for the parts that have no choice of their own.
    /\ part # "io" => dialogue = CHOOSE d \in Dialogues : TRUE
    /\ part # "pool" => numWorkers = CHOOSE n \in PoolSizes : TRUE

SVNext ==
    \/ part = "io" /\ IONext /\ UNCHANGED <<part, sessVars, handleVars, poolVars, lifeVars>>
    \/ part = "sessions" /\ SNext /\ UNCHANGED <<part, ioVars, handleVars, poolVars, lifeVars>>
    \/ part = "handles" /\ HNext /\ UNCHANGED <<part, ioVars, sessVars, poolVars, lifeVars>>
    \/ part = "pool" /\ WPNext /\ UNCHANGED <<part, ioVars, sessVars, handleVars, lifeVars>>
    \/ part = "life" /\ LNext /\ UNCHANGED <<part, ioVars, sessVars, handleVars, poolVars>>

\* Threads run: a callback or a call that has begun goes on, and an event loop handles the
\* events that are active.  Of the clients it is assumed that they send what they have to say
\* and end the transactions they began; of a socket, that it takes bytes again and again.
SVFairness ==
    /\ WF_ioVars(part = "io" /\ HandleEvent) /\ WF_ioVars(part = "io" /\ AcceptStep)
    /\ WF_ioVars(part = "io" /\ ClientSends) /\ SF_ioVars(part = "io" /\ FlushBuffer)
    /\ \A c \in Conns : WF_sessVars(part = "sessions" /\ HandlerStep(c))
    /\ \A c \in Conns : WF_sessVars(part = "sessions" /\ CommitStatement(c))
    /\ WF_handleVars(part = "handles" /\ (Notify \/ ActivateNotifyEvent))
    /\ \A h \in Handlers : WF_handleVars(part = "handles" /\ HandlerThread(h))
    /\ \A p \in Callers : WF_poolVars(part = "pool" /\ CallContinues(p))
    /\ \A w \in WorkerIds : WF_poolVars(part = "pool" /\ WorkerStep(w))
    /\ WF_lifeVars(part = "life" /\ MainThread) /\ WF_lifeVars(part = "life" /\ RegisterHandler)
    /\ WF_lifeVars(part = "life" /\ NotifyHandler)
    /\ \A t \in AllTasks : WF_lifeVars(part = "life" /\ TaskThread(t))

SVSpec == SVInit /\ [][SVNext]_svVars /\ SVFairness

\* What a client or a caller asks for is answered: packets, connections, calls of the pool.
RequestsAnswered == DialogueEnds /\ AcceptedGetsServed /\ PoolCallsReturn

\* What is being shut down ends: connections and the server.
ShutdownsEnd == ConnectionsClose /\ ServerShutsDown
=============================================================================
