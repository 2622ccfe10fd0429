--------------------------- MODULE DeferredActions ----------------------------
(***************************************************************************)
(* transaction::DeferredActionManager with what it exists for: a table     *)
(* that is deleted while transactions still have undo records in it.       *)
(*                                                                         *)
(* The creator of the table deletes it if it aborts, by one deferral       *)
(* (DatabaseCatalog::SetTablePointer); the dropper deletes it if it        *)
(* commits, by two (DatabaseCatalog::DeleteTable), and so is an index      *)
(* (DeleteIndex).  Writers have records in the table.  The collector is    *)
(* reduced to what a round does to whole transactions; GarbageCollector    *)
(* has its steps.                                                          *)
(***************************************************************************)
EXTENDS TimestampManager, Sequences

CONSTANTS
    Clients,             \* transactions
    Creators, Droppers,  \* the transaction that creates or drops the table
    IndexDroppers,       \* transactions that drop an index of some other table
    Writers,             \* transactions that write to it; the others do not touch it
    MaxRounds,           \* bound: rounds that begin while transactions are running
    Stallers             \* transactions whose thread may be preempted before its last step

ASSUME DAAssumption ==
    /\ Creators \subseteq Clients /\ Droppers \subseteq Clients
    /\ Cardinality(Creators \cup Droppers) = 1  \* one table, created or dropped
    /\ IndexDroppers \subseteq Clients \ (Creators \cup Droppers)
    /\ Writers \subseteq Clients /\ Stallers \subseteq Clients /\ MaxRounds \in Nat

VARIABLES
    client,         \* each transaction: control, start time, commit or abort time
    table_users,    \* the transactions with undo records in the table
    handed_over,    \* completed_txns_
    new_deferred_actions, back_log,  \* the two queues
    round,          \* the collector's thread: control, watermark, local queue of
                    \* ProcessNewActions, rounds begun, rounds after the last transaction
    gc_queues,      \* txns_to_unlink_, txns_to_deallocate_, last_unlinked_, what was freed
    table_deleted,  \* the table is gone
    registered, executed    \* history: how many actions; which ones ran, in order

clientVars == <<client, table_users, handed_over>>
historyVars == <<registered, executed>>
actionVars == <<new_deferred_actions, back_log, table_deleted, historyVars>>
deferVars == <<clientVars, actionVars, round, gc_queues>>
daVars == <<tmVars, deferVars>>

DAInit ==
    /\ TMInit
    /\ client = [t \in Clients |-> [pc |-> "idle", start |-> 0, end |-> 0]]
    /\ table_users = {} /\ handed_over = {}
    /\ new_deferred_actions = <<>> /\ back_log = <<>>
    /\ round = [pc |-> "idle", oldest |-> 0, local |-> <<>>, begun |-> 0, quiet |-> 0, late |-> FALSE]
    /\ gc_queues = [unlink |-> {}, deallocate |-> {}, unlinked_at |-> 0, freed |-> {}]
    /\ table_deleted = FALSE
    /\ registered = 0 /\ executed = <<>>

\* A faulty variant: dated by the start of the oldest transaction.
RegisterStale(object, depth) ==
    /\ new_deferred_actions' = Append(new_deferred_actions,
           [id |-> registered + 1, ts |-> OldestRunning, object |-> object, depth |-> depth, running |-> curr_running_txns])
    /\ registered' = registered + 1

\* RegisterDeferredAction, under its latch.  An action of depth 2 registers one of
\* depth 1, which deletes the object.  running is history: who was running then.
RegisterDeferredAction(object, depth) ==
    /\ new_deferred_actions' = Append(new_deferred_actions,
           [id |-> registered + 1, ts |-> time, object |-> object, depth |-> depth, running |-> curr_running_txns])
    /\ registered' = registered + 1

-----------------------------------------------------------------------------
(* Transactions.                                                           *)

ClientAt(t, label) == client' = [client EXCEPT ![t].pc = label]

\* No drop has ended.  (After one that aborted no action is about the table, and what later
\* writers do to it is left out.)
TableVisible == ~table_deleted /\ \A d \in Droppers : client[d].pc \in {"idle", "running", "aborting"} \/ client[d].end = 0

\* A creator or dropper has a table to work on; writers that begin before the drop
\* commits have written to it.
ClientBegin(t) ==
    /\ client[t].pc = "idle" /\ (t \in Droppers => TableVisible)
    /\ BeginTimestamp
    /\ client' = [client EXCEPT ![t].pc = "running", ![t].start = time]
    /\ table_users' = IF t \in Creators \cup Writers /\ TableVisible THEN table_users \cup {t} ELSE table_users
    /\ UNCHANGED <<cached_oldest_txn_start_time, handed_over, actionVars, round, gc_queues>>

TakeEndTime(t, label) ==
    /\ CheckOutTimestamp
    /\ client' = [client EXCEPT ![t].pc = label, ![t].end = time]
    /\ UNCHANGED <<curr_running_txns, cached_oldest_txn_start_time, table_users, handed_over, actionVars, round, gc_queues>>

\* Commit takes its time, then runs the commit actions, if there are any ...
ClientCommit(t) ==
    /\ client[t].pc = "running"
    /\ TakeEndTime(t, IF t \in Droppers \cup IndexDroppers THEN "committing" ELSE "ended")

Dropped(t) == IF t \in Droppers THEN "table" ELSE "index"

\* A faulty variant: one deferral for a dropped table.
CommitDefersOnce(t) ==
    /\ client[t].pc = "committing"
    /\ ClientAt(t, "ended")
    /\ RegisterDeferredAction(Dropped(t), 1)
    /\ UNCHANGED <<tmVars, table_users, handed_over, back_log, executed, table_deleted, round, gc_queues>>

RunCommitActions(t) ==
    /\ client[t].pc = "committing"
    /\ ClientAt(t, "ended")
    /\ RegisterDeferredAction(Dropped(t), 2)
    /\ UNCHANGED <<tmVars, table_users, handed_over, back_log, executed, table_deleted, round, gc_queues>>

\* ... while Abort runs the abort actions first, and takes its time after the
\* rollback.  (Without actions of its own, a transaction that aborts does here
\* what one that commits does.)
RunAbortActions(t) ==
    /\ client[t].pc = "running" /\ t \in Creators \cup Droppers
    /\ ClientAt(t, "aborting")
    /\ IF t \in Creators THEN RegisterDeferredAction("table", 1) ELSE UNCHANGED <<new_deferred_actions, registered>>
    /\ UNCHANGED <<tmVars, table_users, handed_over, back_log, executed, table_deleted, round, gc_queues>>

ClientAbort(t) == client[t].pc = "aborting" /\ TakeEndTime(t, "ended")

\* LogCommit and LogAbort without a log, then the hand-over to the collector.
ClientRemoved(t) ==
    /\ client[t].pc = "ended"
    /\ RemoveTransaction(client[t].start)
    /\ \/ handed_over' = handed_over \cup {t} /\ ClientAt(t, "over")
       \/ t \in Stallers /\ ClientAt(t, "removed") /\ UNCHANGED handed_over
    /\ UNCHANGED <<time, cached_oldest_txn_start_time, table_users, actionVars, round, gc_queues>>

ClientHandOver(t) ==
    /\ client[t].pc = "removed"
    /\ handed_over' = handed_over \cup {t}
    /\ ClientAt(t, "over")
    /\ UNCHANGED <<tmVars, table_users, actionVars, round, gc_queues>>

-----------------------------------------------------------------------------
(* A round of the collector.                                               *)

ClientsOver == \A t \in Clients : client[t].pc = "over"
QueuesEmpty == new_deferred_actions = <<>> /\ back_log = <<>> /\ gc_queues.freed = Clients

RoundBegin ==
    /\ round.pc = "idle"
    /\ round.begun < MaxRounds \/ (ClientsOver /\ ~QueuesEmpty)
    /\ CheckOutTimestamp
    /\ LET oldest == IF curr_running_txns = {} THEN time + 1 ELSE OldestRunning
       IN /\ cached_oldest_txn_start_time' = oldest
          /\ round' = [round EXCEPT !.pc = "unlink", !.oldest = oldest, !.late = ClientsOver,
                                    !.begun = IF @ < MaxRounds THEN @ + 1 ELSE @]
          /\ gc_queues' = IF NewerThan(oldest, gc_queues.unlinked_at)
                          THEN [gc_queues EXCEPT !.freed = @ \cup gc_queues.deallocate, !.deallocate = {}]
                          ELSE gc_queues
    /\ UNCHANGED <<curr_running_txns, clientVars, actionVars>>

\* ProcessUnlinkQueue; a transaction without records is deleted at once.
RoundUnlink ==
    /\ round.pc = "unlink"
    /\ LET queue == handed_over \cup gc_queues.unlink
           readOnly == queue \ table_users
           old == {t \in queue \cap table_users : NewerThan(round.oldest, client[t].end)}
           some == readOnly \cup old # {}
       IN /\ handed_over' = {}
          /\ gc_queues' = [unlink |-> queue \ (readOnly \cup old),
                           deallocate |-> gc_queues.deallocate \cup old,
                           unlinked_at |-> IF some THEN time ELSE gc_queues.unlinked_at,
                           freed |-> gc_queues.freed \cup readOnly]
          /\ IF some THEN CheckOutTimestamp ELSE UNCHANGED time
    /\ round' = [round EXCEPT !.pc = "backlog"]
    /\ UNCHANGED <<curr_running_txns, cached_oldest_txn_start_time, client, table_users, actionVars>>

ActionDue(queue) == queue # <<>> /\ round.oldest >= Head(queue).ts

\* The action is called, and leaves the queue.
RunAction(a) ==
    /\ executed' = Append(executed, a.id)
    /\ IF a.depth = 2
       THEN RegisterDeferredAction(a.object, 1) /\ UNCHANGED table_deleted
       ELSE table_deleted' = (table_deleted \/ a.object = "table") /\ UNCHANGED <<new_deferred_actions, registered>>

\* ClearBacklog.
BacklogStep ==
    /\ round.pc = "backlog" /\ ActionDue(back_log)
    /\ RunAction(Head(back_log))
    /\ back_log' = Tail(back_log)
    /\ UNCHANGED <<tmVars, clientVars, round, gc_queues>>

EndRound == round' = [round EXCEPT !.pc = "idle", !.local = <<>>, !.quiet = IF round.late THEN @ + 1 ELSE @]

\* New actions are not looked at before the backlog is cleared.
BacklogStuck ==
    /\ round.pc = "backlog" /\ back_log # <<>> /\ ~ActionDue(back_log)
    /\ EndRound
    /\ UNCHANGED <<tmVars, clientVars, actionVars, gc_queues>>

\* ProcessNewActions.
SwapQueues ==
    /\ round.pc = "backlog" /\ back_log = <<>>
    /\ round' = [round EXCEPT !.pc = "new", !.local = new_deferred_actions]
    /\ new_deferred_actions' = <<>>
    /\ UNCHANGED <<tmVars, clientVars, back_log, table_deleted, historyVars, gc_queues>>

\* A faulty variant: the action stays at the front of the queue.
NewStepStays ==
    /\ round.pc = "new" /\ ActionDue(round.local)
    /\ RunAction(Head(round.local))
    /\ UNCHANGED <<tmVars, clientVars, round, back_log, gc_queues>>

NewStep ==
    /\ round.pc = "new" /\ ActionDue(round.local)
    /\ RunAction(Head(round.local))
    /\ round' = [round EXCEPT !.local = Tail(@)]
    /\ UNCHANGED <<tmVars, clientVars, back_log, gc_queues>>

\* A faulty variant: what could not run yet is dropped.
NewDropped ==
    /\ round.pc = "new" /\ ~ActionDue(round.local)
    /\ EndRound
    /\ UNCHANGED <<tmVars, clientVars, actionVars, gc_queues>>

NewRest ==
    /\ round.pc = "new" /\ ~ActionDue(round.local)
    /\ back_log' = back_log \o round.local
    /\ EndRound
    /\ UNCHANGED <<tmVars, clientVars, new_deferred_actions, table_deleted, historyVars, gc_queues>>

-----------------------------------------------------------------------------
RoundStep == RoundBegin \/ RoundUnlink \/ BacklogStep \/ BacklogStuck \/ SwapQueues \/ NewStep \/ NewRest

ClientStep(t) ==
    \/ ClientCommit(t) \/ RunCommitActions(t) \/ RunAbortActions(t) \/ ClientAbort(t)
    \/ ClientRemoved(t) \/ ClientHandOver(t)

ClientsDone == ClientsOver /\ QueuesEmpty /\ round.pc = "idle" /\ UNCHANGED daVars

DANext == (\E t \in Clients : ClientBegin(t) \/ ClientStep(t)) \/ RoundStep \/ ClientsDone

DASpec == DAInit /\ [][DANext]_daVars

-----------------------------------------------------------------------------
(* Properties.                                                             *)

\* An action that runs in this step.
Runs(a) == executed' # executed /\ executed'[Len(executed')] = a.id

\* An action is not triggered before every transaction that was running when it
\* was registered is gone (deferred_action_manager.h:34), whichever queue it is in.
ActionsWaitForRunning ==
    [][\A q \in {back_log, round.local} :
          q # <<>> /\ Runs(Head(q)) => Head(q).running \cap curr_running_txns = {}]_daVars

\* "actions in the deferred action queue is in order" (deferred_action_manager.h:42):
\* they run in the order of their registration, also those that wait in the backlog
\* and those that actions register, and none is lost or runs twice.
ActionsInOrder == \A i \in DOMAIN executed : executed[i] = i

\* "there could be transactions not yet unlinked by the GC that depend on the table"
\* (database_catalog.cpp:837): the table is deleted after their records are unlinked,
\* for the collector reads the table to unlink them.
TableOutlivesRecords == table_deleted => table_users \subseteq (gc_queues.deallocate \cup gc_queues.freed)

\* "Currently, this must be done 3 times" (deferred_action_manager.h:82): after the last
\* transaction, three rounds leave no action and no transaction behind, so
\* the assertions of the destructors hold.
ThreeRoundsEmpty == round.quiet >= 3 => QueuesEmpty

\* Every deferred action runs in the end.
ActionsRun == registered > Len(executed) ~> registered = Len(executed)

\* The actions that were registered run, each one once and in order, and three rounds are
\* enough for all of them.
ActionsAccounted == ActionsInOrder /\ ThreeRoundsEmpty
=============================================================================
