------------------------------ MODULE Sessions -------------------------------
(* Client sessions: startup with a temporary namespace, statements that the  *)
(* traffic cop runs in transactions, and teardown; beneath them the lock on  *)
(* catalog changes (src/network/postgres/postgres_protocol_interpreter.cpp,  *)
(* postgres_network_commands.cpp, src/traffic_cop/traffic_cop.cpp,           *)
(* DatabaseCatalog::TryLock).                                                *)
(*                                                                           *)
(* A connection belongs to one handler thread, which runs one event handler  *)
(* at a time: while a connection is inside a handler the other connections   *)
(* of its thread wait.  The clock counts only the commits and aborts that    *)
(* changed something: a transaction that starts reads it, so start times and *)
(* commit times compare as in the code.                                      *)
EXTENDS Integers, Sequences

CONSTANTS
    Conns,          \* connections
    Threads,        \* ConnectionHandlerTasks
    ThreadOf,       \* the handler to which the dispatcher gave a connection
    DdlConns,       \* the connections whose clients change the catalog
    MaxStatements,  \* MaxStatements[c]: statements that the client sends, COMMIT and ROLLBACK aside
    BackoffTries,   \* attempts to create the namespace until sleep_time exceeds its maximum
    Orderly         \* clients end the transaction block that they opened before they leave

VARIABLES
    at,             \* at[c]: where the connection's handler is; "ready" between two packets
    task,           \* task[c]: "create", "session" or "drop": which transaction the handler runs
    txns,           \* txns[c][task]: the transactions of c that were begun and not ended
    state,          \* state[c]: the temporary namespace of c: "none", "live" or "dropped"
    tries,          \* tries[c]: attempts at the namespace
    statements,     \* statements[c]: statements that the client has sent
    single,         \* single[c]: the statement is a transaction of its own
    seenLock,       \* seenLock[c]: current_val in TryLock
    writeLock,      \* write_lock_: <<time>>, or the transaction <<c, task>> that holds it
    tableRow,       \* timestamp of the catalog row that statements change: the same
    clock,          \* commits and aborts so far
    ddlDone         \* [start, commit] of the transactions that changed the catalog

sessVars == <<at, task, txns, state, tries, statements, single, seenLock, writeLock, tableRow, clock, ddlDone>>

NoTxn == [open |-> FALSE, start |-> 0, finish |-> 0, must |-> FALSE, locked |-> FALSE, old |-> <<0>>, wrote |-> FALSE]
Tasks == {"create", "session", "drop"}
Free == {"new", "ready", "gone"}

TxnOf(c) == txns[c][task[c]]
IdOf(c) == <<c, task[c]>>

\* TransactionUtil::Committed and NewerThan, of a timestamp: <<time>> or a transaction.
IsTime(v) == Len(v) = 1
NewerThanStart(v, t) == IsTime(v) /\ v[1] > t.start

\* ConnectionContext::TransactionState.
TransactionState(c) ==
    IF ~txns[c]["session"].open THEN "IDLE" ELSE IF txns[c]["session"].must THEN "FAIL" ELSE "BLOCK"

\* The handler thread of c can enter an event handler.
ThreadFree(c) == \A d \in Conns \ {c} : ThreadOf[d] = ThreadOf[c] => at[d] \in Free

SetTxn(c, k, t) == txns' = [txns EXCEPT ![c][k] = t]
Go(c, l) == at' = [at EXCEPT ![c] = l]

\* TransactionManager::BeginTransaction.
Begun == [NoTxn EXCEPT !.open = TRUE, !.start = clock]

SInit ==
    /\ at = [c \in Conns |-> "new"] /\ task = [c \in Conns |-> "create"]
    /\ txns = [c \in Conns |-> [k \in Tasks |-> NoTxn]]
    /\ state = [c \in Conns |-> "none"]
    /\ tries = [c \in Conns |-> 0] /\ statements = [c \in Conns |-> 0]
    /\ single = [c \in Conns |-> FALSE] /\ seenLock = [c \in Conns |-> <<0>>]
    /\ writeLock = <<0>> /\ tableRow = <<0>> /\ clock = 0 /\ ddlDone = {}

-----------------------------------------------------------------------------
(* Startup: ProcessStartup and CreateTempNamespace. *)

StartupPacket(c) ==
    /\ at[c] = "new" /\ ThreadFree(c)
    /\ Go(c, "load") /\ task' = [task EXCEPT ![c] = "create"]
    /\ SetTxn(c, "create", Begun)
    /\ UNCHANGED <<state, tries, statements, single, seenLock, writeLock, tableRow, clock, ddlDone>>

\* A startup packet that is refused (protocol version, database name): nothing was created.
StartupRefused(c) ==
    /\ at[c] = "new" /\ ThreadFree(c)
    /\ Go(c, "gone")
    /\ UNCHANGED <<task, txns, state, tries, statements, single, seenLock, writeLock, tableRow, clock, ddlDone>>

\* The attempt was aborted: try again after a pause, until the pause is too long.
CreateFailed(c) ==
    /\ at[c] = "ended" /\ task[c] = "create" /\ state[c] = "none"
    /\ tries' = [tries EXCEPT ![c] = @ + 1]
    /\ IF tries[c] + 1 < BackoffTries THEN Go(c, "load") /\ SetTxn(c, "create", Begun)
       ELSE Go(c, "gone") /\ UNCHANGED txns
    /\ UNCHANGED <<task, state, statements, single, seenLock, writeLock, tableRow, clock, ddlDone>>

CreateSucceeded(c) ==
    /\ at[c] = "ended" /\ task[c] = "create" /\ state[c] = "live"
    /\ Go(c, "ready")
    /\ UNCHANGED <<task, txns, state, tries, statements, single, seenLock, writeLock, tableRow, clock, ddlDone>>

-----------------------------------------------------------------------------
(* DatabaseCatalog::TryLock, and the change of the catalog that follows it. *)

\* A faulty variant: a lock that is free is taken whenever it was released.
LockLoadUnheld(c) ==
    /\ at[c] = "load"
    /\ seenLock' = [seenLock EXCEPT ![c] = writeLock]
    /\ IF writeLock = IdOf(c) THEN Go(c, "change") /\ UNCHANGED txns
       ELSE IF ~IsTime(writeLock)
            THEN Go(c, "failed") /\ SetTxn(c, task[c], [TxnOf(c) EXCEPT !.must = TRUE])
            ELSE Go(c, "cas") /\ UNCHANGED txns
    /\ UNCHANGED <<task, state, tries, statements, single, writeLock, tableRow, clock, ddlDone>>

\* Load the lock and look at it.
LockLoad(c) ==
    /\ at[c] = "load"
    /\ seenLock' = [seenLock EXCEPT ![c] = writeLock]
    /\ IF writeLock = IdOf(c) THEN Go(c, "change") /\ UNCHANGED txns
       ELSE IF ~IsTime(writeLock) \/ NewerThanStart(writeLock, TxnOf(c))
            THEN Go(c, "failed") /\ SetTxn(c, task[c], [TxnOf(c) EXCEPT !.must = TRUE])
            ELSE Go(c, "cas") /\ UNCHANGED txns
    /\ UNCHANGED <<task, state, tries, statements, single, writeLock, tableRow, clock, ddlDone>>

\* compare_exchange_strong, and the registration of the commit and abort actions.
LockCas(c) ==
    /\ at[c] = "cas"
    /\ IF writeLock = seenLock[c]
       THEN /\ writeLock' = IdOf(c) /\ Go(c, "change")
            /\ SetTxn(c, task[c], [TxnOf(c) EXCEPT !.locked = TRUE, !.old = seenLock[c]])
       ELSE /\ Go(c, "failed") /\ SetTxn(c, task[c], [TxnOf(c) EXCEPT !.must = TRUE])
            /\ UNCHANGED writeLock
    /\ UNCHANGED <<task, state, tries, statements, single, seenLock, tableRow, clock, ddlDone>>

\* A statement writes the row of a table: a conflict with another transaction marks it.
Conflict(c) == tableRow # IdOf(c) /\ (~IsTime(tableRow) \/ NewerThanStart(tableRow, TxnOf(c)))

ChangeTable(c) ==
    /\ at[c] = "change" /\ task[c] = "session"
    /\ IF Conflict(c)
       THEN Go(c, "failed") /\ SetTxn(c, "session", [TxnOf(c) EXCEPT !.must = TRUE]) /\ UNCHANGED tableRow
       ELSE Go(c, "executed") /\ SetTxn(c, "session", [TxnOf(c) EXCEPT !.wrote = TRUE]) /\ tableRow' = IdOf(c)
    /\ UNCHANGED <<task, state, tries, statements, single, seenLock, writeLock, clock, ddlDone>>

\* The row of the temporary namespace is nobody else's.
ChangeNamespace(c) ==
    /\ at[c] = "change" /\ task[c] # "session"
    /\ Go(c, "commit") /\ SetTxn(c, task[c], [TxnOf(c) EXCEPT !.wrote = TRUE])
    /\ UNCHANGED <<task, state, tries, statements, single, seenLock, writeLock, tableRow, clock, ddlDone>>

\* CreateNamespace or DropNamespace returned a failure: abort.  A statement that failed marks
\* its transaction and replies with an error.
ChangeFailed(c) ==
    /\ at[c] = "failed"
    /\ Go(c, IF task[c] = "session" THEN "executed" ELSE "abort")
    /\ UNCHANGED <<task, txns, state, tries, statements, single, seenLock, writeLock, tableRow, clock, ddlDone>>

-----------------------------------------------------------------------------
(* Commit and Abort of the transaction that the handler runs. *)

\* UpdatingCommitCriticalSection: the rows take the commit time at once, the lock's commit
\* action comes later.
CommitTxn(c) ==
    /\ at[c] = "commit" /\ Go(c, "unlock")
    /\ LET now == IF TxnOf(c).wrote THEN clock + 1 ELSE clock IN
       /\ clock' = now
       /\ SetTxn(c, task[c], [TxnOf(c) EXCEPT !.finish = now])
       /\ tableRow' = IF tableRow = IdOf(c) THEN <<now>> ELSE tableRow
       /\ ddlDone' = IF TxnOf(c).wrote THEN ddlDone \cup {[start |-> TxnOf(c).start, commit |-> now]} ELSE ddlDone
    /\ state' = [state EXCEPT ![c] = CASE task[c] = "create" -> "live" [] task[c] = "drop" -> "dropped" [] OTHER -> @]
    /\ UNCHANGED <<task, tries, statements, single, seenLock, writeLock>>

\* The lock's commit action stores FinishTime.
CommitActions(c) ==
    /\ at[c] = "unlock" /\ Go(c, "ended")
    /\ writeLock' = IF TxnOf(c).locked THEN <<TxnOf(c).finish>> ELSE writeLock
    /\ SetTxn(c, task[c], NoTxn)
    /\ UNCHANGED <<task, state, tries, statements, single, seenLock, tableRow, clock, ddlDone>>

\* A faulty variant: the abort action is missing.
AbortKeepsLock(c) ==
    /\ at[c] = "abort" /\ Go(c, "rollback")
    /\ writeLock' = writeLock
    /\ UNCHANGED <<task, txns, state, tries, statements, single, seenLock, tableRow, clock, ddlDone>>

\* Abort runs the abort actions first: the lock gets its old value back.
AbortActions(c) ==
    /\ at[c] = "abort" /\ Go(c, "rollback")
    /\ writeLock' = IF TxnOf(c).locked THEN TxnOf(c).old ELSE writeLock
    /\ UNCHANGED <<task, txns, state, tries, statements, single, seenLock, tableRow, clock, ddlDone>>

\* Then the rows are rolled back and take the abort time.
AbortTxn(c) ==
    /\ at[c] = "rollback" /\ Go(c, "ended")
    /\ LET now == IF TxnOf(c).wrote THEN clock + 1 ELSE clock IN
       clock' = now /\ tableRow' = IF tableRow = IdOf(c) THEN <<now>> ELSE tableRow
    /\ SetTxn(c, task[c], NoTxn)
    /\ UNCHANGED <<task, state, tries, statements, single, seenLock, writeLock, ddlDone>>

-----------------------------------------------------------------------------
(* Statements: SimpleQueryCommand, ExecuteStatement. *)

\* The client sends a statement; the handler runs it in the session's transaction.
Sends(c) ==
    /\ at[c] = "ready" /\ ThreadFree(c)
    /\ task' = [task EXCEPT ![c] = "session"]
    /\ UNCHANGED <<state, tries, seenLock, writeLock, tableRow, clock, ddlDone>>

Counted(c) ==
    /\ statements[c] < MaxStatements[c]
    /\ statements' = [statements EXCEPT ![c] = @ + 1]

\* A query that does not parse fails the transaction block it is in.
SyntaxError(c) ==
    /\ Sends(c) /\ Counted(c)
    /\ IF TransactionState(c) = "BLOCK" THEN SetTxn(c, "session", [txns[c]["session"] EXCEPT !.must = TRUE])
       ELSE UNCHANGED txns
    /\ UNCHANGED <<at, single>>

\* ExecuteTransactionStatement.
BeginStatement(c) ==
    /\ Sends(c) /\ Counted(c)
    /\ IF TransactionState(c) = "IDLE" THEN SetTxn(c, "session", Begun) ELSE UNCHANGED txns
    /\ UNCHANGED <<at, single>>

\* A faulty variant: a failed block is committed.
CommitAlways(c) ==
    /\ Sends(c)
    /\ CASE TransactionState(c) = "IDLE" -> UNCHANGED at
         [] TransactionState(c) = "FAIL" -> Go(c, "commit")
         [] TransactionState(c) = "BLOCK" -> Go(c, "commit")
    /\ UNCHANGED <<txns, single, statements>>

CommitStatement(c) ==
    /\ Sends(c)
    /\ CASE TransactionState(c) = "IDLE" -> UNCHANGED at
         [] TransactionState(c) = "FAIL" -> Go(c, "abort")
         [] TransactionState(c) = "BLOCK" -> Go(c, "commit")
    /\ UNCHANGED <<txns, single, statements>>

RollbackStatement(c) ==
    /\ Sends(c)
    /\ IF TransactionState(c) = "IDLE" THEN UNCHANGED at ELSE Go(c, "abort")
    /\ UNCHANGED <<txns, single, statements>>

\* Any other statement: refused in a failed block, otherwise begun as a transaction of its
\* own if there is none.  A change of the catalog goes on with TryLock; a query may fail.
Query(c, next, must) ==
    /\ Sends(c) /\ Counted(c)
    /\ IF TransactionState(c) = "FAIL" THEN UNCHANGED <<at, txns, single>>
       ELSE LET t == IF TransactionState(c) = "IDLE" THEN Begun ELSE txns[c]["session"] IN
            /\ single' = [single EXCEPT ![c] = TransactionState(c) = "IDLE"]
            /\ Go(c, next) /\ SetTxn(c, "session", [t EXCEPT !.must = must])

DataStatement(c) == \E must \in BOOLEAN : Query(c, "executed", must)
CatalogStatement(c) == c \in DdlConns /\ Query(c, "load", FALSE)

\* The end of ExecuteStatement.
StatementExecuted(c) ==
    /\ at[c] = "executed"
    /\ Go(c, IF ~single[c] THEN "ready" ELSE IF TxnOf(c).must THEN "abort" ELSE "commit")
    /\ UNCHANGED <<task, txns, state, tries, statements, single, seenLock, writeLock, tableRow, clock, ddlDone>>

TransactionEnded(c) ==
    /\ at[c] = "ended" /\ task[c] = "session" /\ Go(c, "ready")
    /\ UNCHANGED <<task, txns, state, tries, statements, single, seenLock, writeLock, tableRow, clock, ddlDone>>

-----------------------------------------------------------------------------
(* The client leaves, or the read times out: TryCloseConnection and Teardown.  The session's *)
(* transaction is left as it is.                                                             *)

CloseConnection(c) ==
    /\ at[c] = "ready" /\ ThreadFree(c)
    /\ Orderly => TransactionState(c) = "IDLE"
    /\ Go(c, "load") /\ task' = [task EXCEPT ![c] = "drop"]
    /\ SetTxn(c, "drop", Begun)
    /\ UNCHANGED <<state, tries, statements, single, seenLock, writeLock, tableRow, clock, ddlDone>>

\* A faulty variant: one attempt at the drop.
DropOnce(c) ==
    /\ at[c] = "ended" /\ task[c] = "drop"
    /\ Go(c, "gone") /\ UNCHANGED txns
    /\ UNCHANGED <<task, state, tries, statements, single, seenLock, writeLock, tableRow, clock, ddlDone>>

\* while (!DropTempNamespace(...)).
DropEnded(c) ==
    /\ at[c] = "ended" /\ task[c] = "drop"
    /\ IF state[c] = "dropped" THEN Go(c, "gone") /\ UNCHANGED txns
       ELSE Go(c, "load") /\ SetTxn(c, "drop", Begun)
    /\ UNCHANGED <<task, state, tries, statements, single, seenLock, writeLock, tableRow, clock, ddlDone>>

ClientStep(c) ==
    \/ StartupPacket(c) \/ StartupRefused(c) \/ SyntaxError(c) \/ BeginStatement(c) \/ CommitStatement(c)
    \/ RollbackStatement(c) \/ DataStatement(c) \/ CatalogStatement(c) \/ CloseConnection(c)

HandlerStep(c) ==
    \/ CreateFailed(c) \/ CreateSucceeded(c) \/ LockLoad(c) \/ LockCas(c) \/ ChangeTable(c)
    \/ ChangeNamespace(c) \/ ChangeFailed(c) \/ CommitTxn(c) \/ CommitActions(c) \/ AbortActions(c)
    \/ AbortTxn(c) \/ StatementExecuted(c) \/ TransactionEnded(c) \/ DropEnded(c)

SNext == \E c \in Conns : ClientStep(c) \/ HandlerStep(c)

SSpec == SInit /\ [][SNext]_sessVars

-----------------------------------------------------------------------------
\* Transactions that change the catalog of a database run one after the other: each began
\* after the one before it had committed (TryLock, and the actions it registers).
CatalogChangesSerial ==
    \A d, e \in ddlDone : d # e => d.commit <= e.start \/ e.commit <= d.start

\* The lock names a transaction only while that transaction is running, and a session that
\* waits for its client holds it only in a transaction block (TryLock's two actions).
LockHasHolder ==
    ~IsTime(writeLock) => LET c == writeLock[1] IN txns[c][writeLock[2]].open /\ at[c] # "gone"

\* A connection that is gone leaves no temporary namespace behind, and one that serves
\* statements has its own (ProcessStartup, Teardown).
NamespaceLifetime ==
    \A c \in Conns :
        /\ at[c] = "gone" => state[c] # "live"
        /\ task[c] = "session" => state[c] = "live"

\* A transaction that must abort is never committed: the assertion of Commit
\* (transaction_manager.cpp:82), which the network commands and the traffic cop have to keep.
NeverCommitsMustAbort == \A c \in Conns : at[c] = "commit" => ~TxnOf(c).must

\* When all connections are gone no transaction runs: the assertion of ~TimestampManager
\* (timestamp_manager.h:23).
NoneRunningAtShutdown ==
    (\A c \in Conns : at[c] = "gone") => \A c \in Conns, k \in Tasks : ~txns[c][k].open

\* A connection that is being closed gets closed.
ConnectionsClose == []<>(\A c \in Conns : task[c] = "drop" => at[c] = "gone")

\* The lock on the catalog does its work: changes are serial, and only a transaction that
\* runs holds the lock.
CatalogLocked == CatalogChangesSerial /\ LockHasHolder

\* A session leaves neither its namespace nor a transaction behind.
SessionsLeaveNothing == NamespaceLifetime /\ NoneRunningAtShutdown
=============================================================================
