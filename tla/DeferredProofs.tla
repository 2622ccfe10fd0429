---------------------------- MODULE DeferredProofs ----------------------------
(***************************************************************************)
(* What DeferredActions promises, for any number of transactions and of    *)
(* rounds: actions wait for the transactions that were running when they   *)
(* were registered, run once and in order, two rounds after the last       *)
(* transaction leave nothing behind, and a dropped table outlives the      *)
(* records in it.                                                          *)
(***************************************************************************)
EXTENDS DeferredActions, WellFoundedInduction, TLAPS

USE ZenonT(30)

Action == [id : Nat, ts : Nat, object : {"table", "index"}, depth : {1, 2}, running : SUBSET Nat]

\* Where a transaction is in curr_running_txns_, and where it has a commit or abort time.
Alive == {"running", "aborting", "committing", "ended"}
Ended == {"committing", "ended", "removed", "over"}

Client == [pc : {"idle"} \cup Alive \cup Ended, start : Nat, end : Nat]
Round == [pc : {"idle", "unlink", "backlog", "new"}, oldest : Nat, local : Seq(Action),
          begun : Nat, quiet : Nat, late : BOOLEAN]
Queues == [unlink : SUBSET Clients, deallocate : SUBSET Clients, unlinked_at : Nat, freed : SUBSET Clients]

DAType ==
    /\ time \in Nat /\ curr_running_txns \in SUBSET Nat
    /\ client \in [Clients -> Client] /\ table_users \in SUBSET Clients /\ handed_over \in SUBSET Clients
    /\ new_deferred_actions \in Seq(Action) /\ back_log \in Seq(Action)
    /\ round \in Round /\ gc_queues \in Queues
    /\ table_deleted \in BOOLEAN /\ registered \in Nat /\ executed \in Seq(Nat)

\* The actions that wait in some queue.
Elems(q) == {q[i] : i \in 1 .. Len(q)}
Queued == Elems(back_log) \cup Elems(round.local) \cup Elems(new_deferred_actions)

\* curr_running_txns_ holds the start times of the transactions that are alive, each one
\* once, and a transaction that is over is in exactly the hands of the collector.
Unlinked == gc_queues.deallocate \cup gc_queues.freed
InHands == handed_over \cup gc_queues.unlink \cup Unlinked
ClientInv ==
    /\ \A s \in curr_running_txns : s < time /\ \E t \in Clients : client[t].pc \in Alive /\ client[t].start = s
    /\ \A t \in Clients : client[t].pc \in Alive => client[t].start \in curr_running_txns
    /\ \A t, u \in Clients :
        client[t].pc \in Alive /\ client[u].pc \in Alive /\ client[t].start = client[u].start => t = u
    /\ \A t \in Clients : client[t].start < time
    /\ \A t \in Clients : client[t].pc \in Ended =>
        client[t].end < time /\ client[t].start < client[t].end
    /\ \A t \in Clients : client[t].pc = "over" <=> t \in InHands

\* During a round the watermark is not newer than any transaction alive, and an action is
\* newer than the transactions that were running when it was registered.
WaitInv ==
    /\ round.pc # "idle" => round.oldest <= time /\ \A s \in curr_running_txns : round.oldest <= s
    /\ \A a \in Queued : a.ts <= time /\ \A s \in a.running : s < a.ts
    /\ gc_queues.unlinked_at <= time

\* The queues, one after the other, hold what has not run yet, in the order of registration.
OrderInv ==
    /\ round.pc # "new" => round.local = <<>>
    /\ round.pc = "new" => back_log = <<>>
    /\ \A i \in 1 .. Len(executed) : executed[i] = i
    /\ \A i \in 1 .. Len(back_log) : back_log[i].id = Len(executed) + i
    /\ \A i \in 1 .. Len(round.local) : round.local[i].id = Len(executed) + Len(back_log) + i
    /\ \A i \in 1 .. Len(new_deferred_actions) :
        new_deferred_actions[i].id = Len(executed) + Len(back_log) + Len(round.local) + i
    /\ registered = Len(executed) + Len(back_log) + Len(round.local) + Len(new_deferred_actions)

\* The new actions, and those that a round has taken of them, are sorted by time.
Sorted(q) == \A i, j \in 1 .. Len(q) : i <= j => q[i].ts <= q[j].ts
SortedInv == Sorted(round.local) /\ Sorted(new_deferred_actions)

\* Rounds that begin when every transaction is over.  The first one unlinks them all and
\* runs every action that registers another one; the second one finds what is left due.
FirstQuiet ==
    round.late /\ round.pc # "idle" =>
        /\ \A t \in Clients : client[t].end < round.oldest
        /\ \A a \in Queued : a.depth = 2 => a.ts <= round.oldest
        /\ round.pc \in {"unlink", "backlog"} => \A a \in Elems(back_log) : a.ts <= round.oldest
        /\ round.pc \in {"backlog", "new"} => handed_over = {} /\ gc_queues.unlink = {}
        /\ round.pc = "new" => \A a \in Elems(new_deferred_actions) : a.depth = 1

SecondQuiet ==
    round.quiet >= 1 =>
        /\ handed_over = {} /\ gc_queues.unlink = {}
        /\ \A a \in Queued : a.depth = 1
        /\ round.pc # "idle" =>
            /\ round.late /\ gc_queues.deallocate = {}
            /\ \A a \in Queued : a.ts <= round.oldest
        /\ round.pc = "new" => new_deferred_actions = <<>>

QuietInv ==
    /\ (round.late /\ round.pc # "idle") \/ round.quiet >= 1 => ClientsOver
    /\ FirstQuiet /\ SecondQuiet
    /\ round.quiet >= 2 => Queued = {} /\ gc_queues.deallocate = {}

DAInv == DAType /\ ClientInv /\ WaitInv /\ OrderInv /\ SortedInv /\ QuietInv

\* A drop has ended, so that no transaction begins to use the table.
DropEnded == \E d \in Droppers : client[d].pc \in Ended

\* An action about the table is registered after every transaction that uses it began, and
\* the second one, which deletes it, after all of them ended.  What waits to be unlinked
\* during the rest of a round ended after its watermark.
TableGone == table_deleted => DropEnded /\ table_users \subseteq Unlinked
TableActions ==
    \A a \in Queued : a.object = "table" =>
        /\ DropEnded
        /\ \A u \in table_users : client[u].start < a.ts
        /\ a.depth = 1 => \A u \in table_users : client[u].pc = "over" /\ client[u].end < a.ts
StillLinked ==
    round.pc \in {"backlog", "new"} =>
        \A u \in table_users \cap (handed_over \cup gc_queues.unlink) : round.oldest <= client[u].end
TableInv ==
    /\ TableGone /\ TableActions /\ StillLinked
    /\ \A u \in table_users : client[u].pc # "idle"
    /\ \A t \in Clients : client[t].pc # "removed"

-----------------------------------------------------------------------------
(* The operators of the model.                                             *)

\* OldestTransactionStartTime returns the least of the start times.
LEMMA OldestIsLeast ==
    ASSUME curr_running_txns \in SUBSET Nat, curr_running_txns # {}
    PROVE  OldestRunning \in curr_running_txns /\ \A s \in curr_running_txns : OldestRunning <= s
<1>1. PICK x \in curr_running_txns : \A y \in curr_running_txns : ~(<<y, x>> \in OpToRel(<, Nat))
  BY WFMin, NatLessThanWellFounded
<1>2. OpToRel(<, Nat) = {ss \in Nat \X Nat : ss[1] < ss[2]}
  BY DEF OpToRel
<1>3. ASSUME NEW y \in curr_running_txns PROVE x <= y
  <2>1. x \in Nat /\ y \in Nat /\ ~(<<y, x>> \in {ss \in Nat \X Nat : ss[1] < ss[2]})
    BY <1>1, <1>2
  <2>2. ~(<<y, x>>[1] < <<y, x>>[2])
    BY <2>1
  <2> QED BY <2>1, <2>2, SMTT(30)
<1> QED
  BY <1>3 DEF OldestRunning

\* Timestamps of the clock are compared as numbers.
LEMMA NewerIsGreater ==
    ASSUME NEW a \in Nat, NEW b \in Nat
    PROVE  NewerThan(a, b) <=> a > b
  BY SMTT(30) DEF NewerThan, Committed

\* What the operations on a queue do to the actions in it.
LEMMA QueueAppend ==
    ASSUME NEW q \in Seq(Action), NEW a \in Action
    PROVE  /\ Append(q, a) \in Seq(Action) /\ Len(Append(q, a)) = Len(q) + 1
           /\ \A i \in 1 .. Len(q) : Append(q, a)[i] = q[i]
           /\ Append(q, a)[Len(q) + 1] = a
           /\ Elems(Append(q, a)) = Elems(q) \cup {a}
<1> DEFINE r == Append(q, a)
<1>1. r \in Seq(Action) /\ Len(r) = Len(q) + 1 /\ Len(q) \in Nat
      /\ (\A i \in 1 .. Len(q) : r[i] = q[i]) /\ r[Len(q) + 1] = a
  BY SMTT(30)
<1> HIDE DEF r
<1>2. Elems(r) = Elems(q) \cup {a}
  BY <1>1, SMTT(30) DEF Elems
<1> QED BY <1>1, <1>2 DEF r

LEMMA QueueTail ==
    ASSUME NEW q \in Seq(Action), q # <<>>
    PROVE  /\ Head(q) \in Action /\ Head(q) = q[1] /\ Head(q) \in Elems(q)
           /\ Tail(q) \in Seq(Action) /\ Len(q) \in Nat /\ Len(q) >= 1 /\ Len(Tail(q)) = Len(q) - 1
           /\ \A i \in 1 .. Len(Tail(q)) : Tail(q)[i] = q[i + 1]
           /\ Elems(Tail(q)) \subseteq Elems(q)
<1> DEFINE r == Tail(q)
<1>1. /\ Head(q) \in Action /\ Head(q) = q[1] /\ 1 \in 1 .. Len(q)
      /\ r \in Seq(Action) /\ Len(q) \in Nat /\ Len(q) >= 1 /\ Len(r) = Len(q) - 1
      /\ \A i \in 1 .. Len(r) : r[i] = q[i + 1]
  BY SMTT(30)
<1> HIDE DEF r
<1>2. Head(q) \in Elems(q)
  BY <1>1 DEF Elems
<1>3. Elems(r) \subseteq Elems(q)
  BY <1>1, SMTT(30) DEF Elems
<1> QED BY <1>1, <1>2, <1>3 DEF r

LEMMA QueueEmptied == Elems(<<>>) = {} /\ <<>> \in Seq(Action) /\ Len(<<>>) = 0
  BY SMTT(30) DEF Elems

LEMMA NoElems ==
    ASSUME NEW q \in Seq(Action)
    PROVE  Elems(q) = {} <=> q = <<>>
  BY QueueTail, QueueEmptied

-----------------------------------------------------------------------------
(* What each step does, and that it keeps the types.                       *)

NewAction(object, depth) ==
    [id |-> registered + 1, ts |-> time, object |-> object, depth |-> depth, running |-> curr_running_txns]

LEMMA NewActionType ==
    ASSUME DAType, NEW object \in {"table", "index"}, NEW depth \in {1, 2}
    PROVE  /\ NewAction(object, depth) \in Action
           /\ NewAction(object, depth).id = registered + 1 /\ NewAction(object, depth).ts = time
           /\ NewAction(object, depth).object = object /\ NewAction(object, depth).depth = depth
           /\ NewAction(object, depth).running = curr_running_txns
<1>1. registered + 1 \in Nat /\ time \in Nat /\ curr_running_txns \in SUBSET Nat
  BY SMTT(30) DEF DAType
<1> QED BY <1>1 DEF NewAction, Action

\* One transaction changes.
Changes(t, pc, start, end) ==
    /\ client' \in [Clients -> Client]
    /\ client'[t].pc = pc /\ client'[t].start = start /\ client'[t].end = end
    /\ \A u \in Clients \ {t} : client'[u] = client[u]

LEMMA ClientChange ==
    ASSUME DAType, NEW t \in Clients, NEW c, client' = [client EXCEPT ![t] = c], c \in Client
    PROVE  Changes(t, c.pc, c.start, c.end)
  BY DEF DAType, Changes

LEMMA ClientAtEffect ==
    ASSUME DAType, NEW t \in Clients, NEW label \in {"idle"} \cup Alive \cup Ended, ClientAt(t, label)
    PROVE  Changes(t, label, client[t].start, client[t].end)
<1> DEFINE c == [client[t] EXCEPT !.pc = label]
<1>1. client[t] \in Client
  BY DEF DAType
<1>2. c \in Client /\ c.pc = label /\ c.start = client[t].start /\ c.end = client[t].end
  BY <1>1 DEF Client
<1>3. client' = [client EXCEPT ![t] = c]
  BY DEF ClientAt
<1> HIDE DEF c
<1> QED BY <1>2, <1>3, ClientChange

LEMMA BeginEffect ==
    ASSUME DAType, NEW t \in Clients, ClientBegin(t)
    PROVE  /\ Changes(t, "running", time, client[t].end)
           /\ time' = time + 1 /\ time' \in Nat /\ curr_running_txns' = curr_running_txns \cup {time}
           /\ table_users' \in SUBSET Clients
<1> DEFINE c == [client[t] EXCEPT !.pc = "running", !.start = time]
<1>1. client[t] \in Client /\ time \in Nat
  BY DEF DAType
<1>2. c \in Client /\ c.pc = "running" /\ c.start = time /\ c.end = client[t].end
  BY <1>1 DEF Client, Alive
<1>3. client' = [client EXCEPT ![t] = c]
  BY DEF ClientBegin
<1> HIDE DEF c
<1>4. Changes(t, "running", time, client[t].end)
  BY <1>2, <1>3, ClientChange
<1>5. time' = time + 1 /\ curr_running_txns' = curr_running_txns \cup {time} /\ table_users' \in SUBSET Clients
  BY DEF ClientBegin, BeginTimestamp, CheckOutTimestamp, DAType
<1>6. time' \in Nat
  BY <1>1, <1>5, SMTT(30)
<1> QED BY <1>4, <1>5, <1>6

LEMMA TakeEndEffect ==
    ASSUME DAType, NEW t \in Clients, NEW label \in {"committing", "ended"}, TakeEndTime(t, label)
    PROVE  /\ Changes(t, label, client[t].start, time)
           /\ time' = time + 1 /\ time' \in Nat
<1> DEFINE c == [client[t] EXCEPT !.pc = label, !.end = time]
<1>1. client[t] \in Client /\ time \in Nat
  BY DEF DAType
<1>2. c \in Client /\ c.pc = label /\ c.start = client[t].start /\ c.end = time
  BY <1>1 DEF Client, Ended
<1>3. client' = [client EXCEPT ![t] = c]
  BY DEF TakeEndTime
<1> HIDE DEF c
<1>4. Changes(t, label, client[t].start, time)
  BY <1>2, <1>3, ClientChange
<1>5. time' = time + 1
  BY DEF TakeEndTime, CheckOutTimestamp
<1>6. time' \in Nat
  BY <1>1, <1>5, SMTT(30)
<1> QED BY <1>4, <1>5, <1>6

\* The watermark that a round takes.
Watermark == IF curr_running_txns = {} THEN time + 1 ELSE OldestRunning

LEMMA RoundBeginEffect ==
    ASSUME DAType, RoundBegin
    PROVE  /\ round.pc = "idle" /\ time' = time + 1 /\ time' \in Nat /\ Watermark \in Nat
           /\ round' \in Round /\ round'.pc = "unlink" /\ round'.oldest = Watermark
           /\ round'.local = round.local /\ round'.quiet = round.quiet /\ round'.late = ClientsOver
           /\ gc_queues' \in Queues /\ gc_queues'.unlink = gc_queues.unlink
           /\ gc_queues'.unlinked_at = gc_queues.unlinked_at
           /\ Unlinked' = Unlinked
           /\ Watermark > gc_queues.unlinked_at => gc_queues'.deallocate = {}
           /\ UNCHANGED <<curr_running_txns, clientVars, actionVars>>
<1>1. time \in Nat /\ curr_running_txns \in SUBSET Nat /\ round \in Round /\ gc_queues \in Queues
  BY DEF DAType
<1>2. time' = time + 1 /\ time' \in Nat
  BY <1>1, SMTT(30) DEF RoundBegin, CheckOutTimestamp
<1>3. Watermark \in Nat
  <2>1. CASE curr_running_txns = {}
    BY <2>1, <1>1, <1>2 DEF Watermark
  <2>2. CASE curr_running_txns # {}
    BY <2>2, <1>1, OldestIsLeast DEF Watermark
  <2> QED BY <2>1, <2>2
<1> DEFINE begun == IF round.begun < MaxRounds THEN round.begun + 1 ELSE round.begun
<1>4. begun \in Nat
  BY <1>1, SMTT(30) DEF Round
<1>5. round' = [round EXCEPT !.pc = "unlink", !.oldest = Watermark, !.late = ClientsOver, !.begun = begun]
  BY DEF RoundBegin, Watermark
<1> HIDE DEF begun
<1>6. /\ round' \in Round /\ round'.pc = "unlink" /\ round'.oldest = Watermark
      /\ round'.local = round.local /\ round'.quiet = round.quiet /\ round'.late = ClientsOver
  BY <1>1, <1>3, <1>4, <1>5 DEF Round, ClientsOver
<1>7. gc_queues' = IF NewerThan(Watermark, gc_queues.unlinked_at)
                   THEN [gc_queues EXCEPT !.freed = gc_queues.freed \cup gc_queues.deallocate, !.deallocate = {}]
                   ELSE gc_queues
  BY DEF RoundBegin, Watermark
<1>8. gc_queues.unlinked_at \in Nat
  BY <1>1 DEF Queues
<1>9. NewerThan(Watermark, gc_queues.unlinked_at) <=> Watermark > gc_queues.unlinked_at
  BY <1>3, <1>8, NewerIsGreater
<1>10. /\ gc_queues' \in Queues /\ gc_queues'.unlink = gc_queues.unlink
       /\ gc_queues'.unlinked_at = gc_queues.unlinked_at
       /\ Unlinked' = Unlinked
       /\ Watermark > gc_queues.unlinked_at => gc_queues'.deallocate = {}
  <2>1. CASE Watermark > gc_queues.unlinked_at
    <3>1. gc_queues' = [gc_queues EXCEPT !.freed = gc_queues.freed \cup gc_queues.deallocate, !.deallocate = {}]
      BY <2>1, <1>7, <1>9
    <3>2. gc_queues.freed \in SUBSET Clients /\ gc_queues.deallocate \in SUBSET Clients
      BY <1>1 DEF Queues
    <3>3. /\ gc_queues'.freed = gc_queues.freed \cup gc_queues.deallocate /\ gc_queues'.deallocate = {}
          /\ gc_queues'.unlink = gc_queues.unlink /\ gc_queues'.unlinked_at = gc_queues.unlinked_at
      BY <3>1, <1>1 DEF Queues
    <3>4. gc_queues' \in Queues
      BY <3>1, <3>2, <1>1 DEF Queues
    <3> QED BY <3>3, <3>4 DEF Unlinked
  <2>2. CASE ~(Watermark > gc_queues.unlinked_at)
    <3>1. gc_queues' = gc_queues
      BY <2>2, <1>7, <1>9
    <3> QED BY <3>1, <1>1, <2>2 DEF Unlinked
  <2> QED BY <2>1, <2>2
<1> QED BY <1>2, <1>3, <1>6, <1>10 DEF RoundBegin

\* The transactions that a round has in its hands, and those of them that it is done with.
Due == {t \in (handed_over \cup gc_queues.unlink) \cap table_users : NewerThan(round.oldest, client[t].end)}
NoRecords == (handed_over \cup gc_queues.unlink) \ table_users

LEMMA RoundUnlinkEffect ==
    ASSUME DAType, RoundUnlink
    PROVE  /\ round.pc = "unlink" /\ handed_over' = {}
           /\ time' \in Nat /\ time' >= time
           /\ round' \in Round /\ round'.pc = "backlog" /\ round'.oldest = round.oldest
           /\ round'.local = round.local /\ round'.quiet = round.quiet /\ round'.late = round.late
           /\ gc_queues' \in Queues
           /\ gc_queues'.unlink = (handed_over \cup gc_queues.unlink) \ (NoRecords \cup Due)
           /\ gc_queues'.deallocate = gc_queues.deallocate \cup Due
           /\ gc_queues'.freed = gc_queues.freed \cup NoRecords
           /\ gc_queues'.unlinked_at \in {time, gc_queues.unlinked_at}
           /\ UNCHANGED <<curr_running_txns, cached_oldest_txn_start_time, client, table_users, actionVars>>
<1>1. time \in Nat /\ round \in Round /\ gc_queues \in Queues /\ handed_over \in SUBSET Clients
  BY DEF DAType
<1>2. time' = time + 1 \/ time' = time
  BY DEF RoundUnlink, CheckOutTimestamp
<1>3. time' \in Nat /\ time' >= time
  BY <1>1, <1>2, SMTT(30)
<1>4. /\ round' \in Round /\ round'.pc = "backlog" /\ round'.oldest = round.oldest
      /\ round'.local = round.local /\ round'.quiet = round.quiet /\ round'.late = round.late
  BY <1>1 DEF RoundUnlink, Round
<1> DEFINE at == IF NoRecords \cup Due # {} THEN time ELSE gc_queues.unlinked_at
<1>5. gc_queues' = [unlink |-> (handed_over \cup gc_queues.unlink) \ (NoRecords \cup Due),
                    deallocate |-> gc_queues.deallocate \cup Due, unlinked_at |-> at,
                    freed |-> gc_queues.freed \cup NoRecords]
  BY DEF RoundUnlink, Due, NoRecords
<1>6. at \in Nat /\ at \in {time, gc_queues.unlinked_at}
  BY <1>1 DEF Queues
<1> HIDE DEF at
<1>7. /\ gc_queues.unlink \in SUBSET Clients /\ gc_queues.deallocate \in SUBSET Clients
      /\ gc_queues.freed \in SUBSET Clients
  BY <1>1 DEF Queues
<1>8. NoRecords \in SUBSET Clients /\ Due \in SUBSET Clients
  BY <1>1, <1>7 DEF NoRecords, Due
<1>9. gc_queues' \in Queues
  BY <1>1, <1>5, <1>6, <1>7, <1>8 DEF Queues
<1>10. /\ gc_queues'.unlink = (handed_over \cup gc_queues.unlink) \ (NoRecords \cup Due)
       /\ gc_queues'.deallocate = gc_queues.deallocate \cup Due
       /\ gc_queues'.freed = gc_queues.freed \cup NoRecords /\ gc_queues'.unlinked_at = at
  BY <1>5
<1>11. /\ round.pc = "unlink" /\ handed_over' = {}
       /\ UNCHANGED <<curr_running_txns, cached_oldest_txn_start_time, client, table_users, actionVars>>
  BY DEF RoundUnlink
<1> QED BY <1>3, <1>4, <1>6, <1>9, <1>10, <1>11

\* The first action of the queue q runs and leaves it; it may register another one.
LEMMA RunActionEffect ==
    ASSUME DAType, NEW a \in Action, RunAction(a)
    PROVE  /\ executed' = Append(executed, a.id) /\ executed' \in Seq(Nat)
           /\ table_deleted' \in BOOLEAN
           /\ \/ /\ a.depth = 2 /\ table_deleted' = table_deleted
                 /\ new_deferred_actions' = Append(new_deferred_actions, NewAction(a.object, 1))
                 /\ registered' = registered + 1
              \/ /\ a.depth = 1 /\ table_deleted' = (table_deleted \/ a.object = "table")
                 /\ new_deferred_actions' = new_deferred_actions /\ registered' = registered
           /\ new_deferred_actions' \in Seq(Action) /\ registered' \in Nat
<1>1. a.id \in Nat /\ a.object \in {"table", "index"} /\ a.depth \in {1, 2}
  BY DEF Action
<1>2. executed' = Append(executed, a.id)
  BY DEF RunAction
<1>3. executed' \in Seq(Nat)
  BY <1>1, <1>2, SMTT(30) DEF DAType
<1>4. CASE a.depth = 2
  <2>1. /\ new_deferred_actions' = Append(new_deferred_actions, NewAction(a.object, 1))
        /\ registered' = registered + 1 /\ table_deleted' = table_deleted
    BY <1>4 DEF RunAction, RegisterDeferredAction, NewAction
  <2>2. NewAction(a.object, 1) \in Action
    BY <1>1, NewActionType
  <2>3. new_deferred_actions' \in Seq(Action)
    BY <2>1, <2>2, QueueAppend DEF DAType
  <2>4. registered' \in Nat
    BY <2>1, SMTT(30) DEF DAType
  <2>5. table_deleted' \in BOOLEAN
    BY <2>1 DEF DAType
  <2> QED BY <1>2, <1>3, <1>4, <2>1, <2>3, <2>4, <2>5
<1>5. CASE a.depth = 1
  <2>0. a.depth # 2
    BY <1>5, SMTT(30)
  <2>1. /\ table_deleted' = (table_deleted \/ a.object = "table")
        /\ new_deferred_actions' = new_deferred_actions /\ registered' = registered
    BY <2>0 DEF RunAction
  <2>2. table_deleted' \in BOOLEAN
    BY <2>1
  <2> QED BY <1>2, <1>3, <1>5, <2>1, <2>2 DEF DAType
<1> QED BY <1>1, <1>4, <1>5

LEMMA EndRoundEffect ==
    ASSUME DAType, EndRound
    PROVE  /\ round' \in Round /\ round'.pc = "idle" /\ round'.oldest = round.oldest
           /\ round'.local = <<>> /\ round'.late = round.late
           /\ round'.quiet = IF round.late THEN round.quiet + 1 ELSE round.quiet
<1>1. round \in Round
  BY DEF DAType
<1> DEFINE q == IF round.late THEN round.quiet + 1 ELSE round.quiet
<1>2. q \in Nat
  BY <1>1, SMTT(30) DEF Round
<1>3. round' = [round EXCEPT !.pc = "idle", !.local = <<>>, !.quiet = q]
  BY DEF EndRound
<1> HIDE DEF q
<1>4. /\ round' \in Round /\ round'.pc = "idle" /\ round'.oldest = round.oldest
      /\ round'.local = <<>> /\ round'.late = round.late /\ round'.quiet = q
  BY <1>1, <1>2, <1>3, QueueEmptied DEF Round
<1> QED BY <1>4 DEF q

\* A round that goes on with another local queue.
LEMMA LocalEffect ==
    ASSUME DAType, NEW q \in Seq(Action), NEW pc \in {"idle", "unlink", "backlog", "new"},
           round' = [round EXCEPT !.pc = pc, !.local = q]
    PROVE  /\ round' \in Round /\ round'.pc = pc /\ round'.oldest = round.oldest
           /\ round'.local = q /\ round'.late = round.late /\ round'.quiet = round.quiet
  BY DEF DAType, Round

LEMMA NewStepEffect ==
    ASSUME DAType, NewStep
    PROVE  /\ round' \in Round /\ round'.pc = "new" /\ round.pc = "new" /\ round'.oldest = round.oldest
           /\ round'.local = Tail(round.local) /\ round'.late = round.late /\ round'.quiet = round.quiet
           /\ round.local # <<>> /\ round.local \in Seq(Action) /\ Tail(round.local) \in Seq(Action)
           /\ Head(round.local) \in Action
<1>1. round \in Round /\ round.local \in Seq(Action) /\ round.local # <<>> /\ round.pc = "new"
  BY DEF DAType, Round, NewStep, ActionDue
<1>2. Tail(round.local) \in Seq(Action) /\ Head(round.local) \in Action
  BY <1>1, QueueTail
<1>3. round' = [round EXCEPT !.local = Tail(round.local)]
  BY DEF NewStep
<1>4. /\ round' \in Round /\ round'.pc = round.pc /\ round'.oldest = round.oldest
      /\ round'.local = Tail(round.local) /\ round'.late = round.late /\ round'.quiet = round.quiet
  <2> DEFINE q == Tail(round.local)
  <2> HIDE DEF q
  <2>1. round' = [round EXCEPT !.local = q] /\ q \in Seq(Action)
    BY <1>2, <1>3 DEF q
  <2> QED BY <1>1, <2>1 DEF Round, q
<1> QED BY <1>1, <1>2, <1>4

\* The first conjunct of the invariant: types.
LEMMA TypeStep == DAType /\ DANext => DAType'
<1> SUFFICES ASSUME DAType, DANext PROVE DAType'
  OBVIOUS
<1> USE DEF clientVars, actionVars, historyVars
<1>1. ASSUME NEW t \in Clients, ClientBegin(t) PROVE DAType'
  <2>1. client' \in [Clients -> Client] /\ time' \in Nat /\ table_users' \in SUBSET Clients
    BY <1>1, BeginEffect DEF Changes
  <2>2. curr_running_txns' \in SUBSET Nat
    BY <1>1, BeginEffect DEF DAType
  <2> QED BY <1>1, <2>1, <2>2 DEF DAType, ClientBegin
<1>2. ASSUME NEW t \in Clients, NEW label \in {"committing", "ended"}, TakeEndTime(t, label) PROVE DAType'
  <2>1. client' \in [Clients -> Client] /\ time' \in Nat
    BY <1>2, TakeEndEffect DEF Changes
  <2> QED BY <1>2, <2>1 DEF DAType, TakeEndTime
<1>3. ASSUME NEW t \in Clients, ClientCommit(t) PROVE DAType'
  BY <1>2, <1>3 DEF ClientCommit
<1>4. ASSUME NEW t \in Clients, ClientAbort(t) PROVE DAType'
  BY <1>2, <1>4 DEF ClientAbort
<1>5. ASSUME NEW object \in {"table", "index"}, NEW depth \in {1, 2}, RegisterDeferredAction(object, depth)
      PROVE  new_deferred_actions' \in Seq(Action) /\ registered' \in Nat
  <2>1. new_deferred_actions' = Append(new_deferred_actions, NewAction(object, depth)) /\ registered' = registered + 1
    BY <1>5 DEF RegisterDeferredAction, NewAction
  <2>2. NewAction(object, depth) \in Action
    BY NewActionType
  <2>3. registered' \in Nat
    BY <2>1, SMTT(30) DEF DAType
  <2> QED BY <2>1, <2>2, <2>3, QueueAppend DEF DAType
<1>6. ASSUME NEW t \in Clients, RunCommitActions(t) PROVE DAType'
  <2>1. client' \in [Clients -> Client]
    BY <1>6, ClientAtEffect DEF RunCommitActions, Changes, Ended
  <2>2. new_deferred_actions' \in Seq(Action) /\ registered' \in Nat
    BY <1>5, <1>6 DEF RunCommitActions, Dropped
  <2> QED BY <1>6, <2>1, <2>2 DEF DAType, RunCommitActions, tmVars
<1>7. ASSUME NEW t \in Clients, RunAbortActions(t) PROVE DAType'
  <2>1. client' \in [Clients -> Client]
    BY <1>7, ClientAtEffect DEF RunAbortActions, Changes, Alive
  <2>2. new_deferred_actions' \in Seq(Action) /\ registered' \in Nat
    BY <1>5, <1>7 DEF RunAbortActions, DAType
  <2> QED BY <1>7, <2>1, <2>2 DEF DAType, RunAbortActions, tmVars
<1>8. ASSUME NEW t \in Clients, ClientRemoved(t) PROVE DAType'
  <2>1. client' \in [Clients -> Client]
    BY <1>8, ClientAtEffect DEF ClientRemoved, Changes, Ended
  <2>2. curr_running_txns' \in SUBSET Nat /\ handed_over' \in SUBSET Clients
    BY <1>8 DEF ClientRemoved, RemoveTransaction, DAType
  <2> QED BY <1>8, <2>1, <2>2 DEF DAType, ClientRemoved
<1>9. ASSUME NEW t \in Clients, ClientHandOver(t) PROVE DAType'
  <2>1. client' \in [Clients -> Client]
    BY <1>9, ClientAtEffect DEF ClientHandOver, Changes, Ended
  <2>2. handed_over' \in SUBSET Clients
    BY <1>9 DEF ClientHandOver, DAType
  <2> QED BY <1>9, <2>1, <2>2 DEF DAType, ClientHandOver, tmVars
<1>10. CASE RoundBegin
  <2>1. time' \in Nat /\ round' \in Round /\ gc_queues' \in Queues
    BY <1>10, RoundBeginEffect
  <2> QED BY <1>10, <2>1 DEF DAType, RoundBegin
<1>11. CASE RoundUnlink
  <2>1. time' \in Nat /\ round' \in Round /\ gc_queues' \in Queues /\ handed_over' \in SUBSET Clients
    BY <1>11, RoundUnlinkEffect
  <2> QED BY <1>11, <2>1 DEF DAType, RoundUnlink
<1>12. CASE BacklogStep
  <2>1. back_log \in Seq(Action) /\ back_log # <<>>
    BY <1>12 DEF DAType, BacklogStep, ActionDue
  <2>2. Head(back_log) \in Action /\ back_log' \in Seq(Action)
    BY <1>12, <2>1, QueueTail DEF BacklogStep
  <2>3. executed' \in Seq(Nat) /\ table_deleted' \in BOOLEAN /\ new_deferred_actions' \in Seq(Action) /\ registered' \in Nat
    BY <1>12, <2>2, RunActionEffect DEF BacklogStep
  <2> QED BY <1>12, <2>2, <2>3 DEF DAType, BacklogStep, tmVars
<1>13. CASE BacklogStuck
  <2>1. round' \in Round
    BY <1>13, EndRoundEffect DEF BacklogStuck
  <2> QED BY <1>13, <2>1 DEF DAType, BacklogStuck, tmVars
<1>14. CASE SwapQueues
  <2>1. round' \in Round
    BY <1>14, LocalEffect DEF SwapQueues, DAType
  <2>2. new_deferred_actions' \in Seq(Action)
    BY <1>14, QueueEmptied DEF SwapQueues
  <2> QED BY <1>14, <2>1, <2>2 DEF DAType, SwapQueues, tmVars
<1>15. CASE NewStep
  <2>1. round' \in Round /\ Head(round.local) \in Action
    BY <1>15, NewStepEffect
  <2>2. executed' \in Seq(Nat) /\ table_deleted' \in BOOLEAN /\ new_deferred_actions' \in Seq(Action) /\ registered' \in Nat
    BY <1>15, <2>1, RunActionEffect DEF NewStep
  <2> QED BY <1>15, <2>1, <2>2 DEF DAType, NewStep, tmVars
<1>16. CASE NewRest
  <2>1. round' \in Round
    BY <1>16, EndRoundEffect DEF NewRest
  <2>2. round.local \in Seq(Action) /\ back_log \in Seq(Action)
    BY DEF DAType, Round
  <2>3. back_log' \in Seq(Action)
    BY <1>16, <2>2, SMTT(30) DEF NewRest
  <2> QED BY <1>16, <2>1, <2>3 DEF DAType, NewRest, tmVars
<1>17. CASE ClientsDone
  BY <1>17 DEF ClientsDone, DAType, daVars, deferVars, tmVars
<1> QED
  BY <1>1, <1>3, <1>4, <1>6, <1>7, <1>8, <1>9, <1>10, <1>11, <1>12, <1>13, <1>14, <1>15, <1>16, <1>17
  DEF DANext, ClientStep, RoundStep

-----------------------------------------------------------------------------
(* Transactions and the set of those that are running.                     *)

\* A step that lets time pass and leaves the transactions alone.
LEMMA ClientKept ==
    ASSUME DAType, DAType', ClientInv, time' >= time, UNCHANGED <<client, curr_running_txns>>, InHands' = InHands
    PROVE  ClientInv'
<1>1. \A t \in Clients : client[t].start \in Nat /\ client[t].end \in Nat
  BY DEF DAType, Client
<1>2. time \in Nat /\ time' \in Nat /\ curr_running_txns \in SUBSET Nat
  BY DEF DAType
<1> QED BY <1>1, <1>2, SMTT(30) DEF ClientInv

LEMMA ClientStep1 ==
    ASSUME DAType, DAType', ClientInv, NEW t \in Clients, ClientBegin(t)
    PROVE  ClientInv'
<1>1. /\ time' = time + 1 /\ curr_running_txns' = curr_running_txns \cup {time}
      /\ client'[t].pc = "running" /\ client'[t].start = time
      /\ \A u \in Clients \ {t} : client'[u] = client[u]
  BY BeginEffect DEF Changes
<1>2. client[t].pc = "idle" /\ InHands' = InHands
  BY DEF ClientBegin, InHands, Unlinked
<1>3. \A u \in Clients : client[u].start \in Nat /\ client[u].end \in Nat
  BY DEF DAType, Client
<1>4. time \in Nat /\ time' \in Nat /\ curr_running_txns \in SUBSET Nat
  BY DEF DAType
<1> QED BY <1>1, <1>2, <1>3, <1>4, SMTT(30) DEF ClientInv, Alive, Ended

LEMMA ClientStep2 ==
    ASSUME DAType, DAType', ClientInv, NEW t \in Clients, NEW label \in {"committing", "ended"},
           client[t].pc \in {"running", "aborting"}, TakeEndTime(t, label)
    PROVE  ClientInv'
<1>1. /\ time' = time + 1
      /\ client'[t].pc = label /\ client'[t].start = client[t].start /\ client'[t].end = time
      /\ \A u \in Clients \ {t} : client'[u] = client[u]
  BY TakeEndEffect DEF Changes
<1>2. curr_running_txns' = curr_running_txns /\ InHands' = InHands
  BY DEF TakeEndTime, InHands, Unlinked
<1>3. \A u \in Clients : client[u].start \in Nat /\ client[u].end \in Nat
  BY DEF DAType, Client
<1>4. time \in Nat /\ time' \in Nat /\ curr_running_txns \in SUBSET Nat
  BY DEF DAType
<1> QED BY <1>1, <1>2, <1>3, <1>4, SMTT(30) DEF ClientInv, Alive, Ended

LEMMA ClientStep3 ==
    ASSUME DAType, DAType', ClientInv, NEW t \in Clients, NEW label,
           (client[t].pc = "committing" /\ label = "ended") \/ (client[t].pc = "running" /\ label = "aborting"),
           ClientAt(t, label), time' = time, curr_running_txns' = curr_running_txns,
           handed_over' = handed_over, gc_queues' = gc_queues
    PROVE  ClientInv'
<1>0. label \in {"ended", "aborting"} /\ (label = "ended" => client[t].pc = "committing")
      /\ client[t].pc \in {"committing", "running"}
  BY SMTT(30)
<1>1. /\ client'[t].pc = label /\ client'[t].start = client[t].start /\ client'[t].end = client[t].end
      /\ \A u \in Clients \ {t} : client'[u] = client[u]
  BY <1>0, ClientAtEffect DEF Changes, Alive
<1>2. InHands' = InHands
  BY DEF InHands, Unlinked
<1> QED BY <1>0, <1>1, <1>2, SMTT(30) DEF ClientInv, Alive, Ended

LEMMA ClientStep4 ==
    ASSUME DAType, DAType', ClientInv, NEW t \in Clients, ClientRemoved(t)
    PROVE  ClientInv'
<1>1. PICK label \in {"over", "removed"} :
        /\ client'[t].pc = label /\ client'[t].start = client[t].start /\ client'[t].end = client[t].end
        /\ \A u \in Clients \ {t} : client'[u] = client[u]
        /\ handed_over' = IF label = "over" THEN handed_over \cup {t} ELSE handed_over
  BY ClientAtEffect DEF Changes, Ended, ClientRemoved
<1>2. /\ client[t].pc = "ended" /\ time' = time
      /\ curr_running_txns' = curr_running_txns \ {client[t].start}
  BY DEF ClientRemoved, RemoveTransaction
<1>3. InHands' = IF label = "over" THEN InHands \cup {t} ELSE InHands
  BY <1>1 DEF InHands, Unlinked, ClientRemoved
<1> QED BY <1>1, <1>2, <1>3, SMTT(30) DEF ClientInv, Alive, Ended

LEMMA ClientStep5 ==
    ASSUME DAType, DAType', ClientInv, NEW t \in Clients, ClientHandOver(t)
    PROVE  ClientInv'
<1>1. /\ client'[t].pc = "over" /\ client'[t].start = client[t].start /\ client'[t].end = client[t].end
      /\ \A u \in Clients \ {t} : client'[u] = client[u]
  BY ClientAtEffect DEF Changes, Ended, ClientHandOver
<1>2. /\ client[t].pc = "removed" /\ time' = time
      /\ curr_running_txns' = curr_running_txns /\ InHands' = InHands \cup {t}
  BY DEF ClientHandOver, tmVars, InHands, Unlinked
<1> QED BY <1>1, <1>2, SMTT(30) DEF ClientInv, Alive, Ended

\* The second conjunct of the invariant.
LEMMA ClientInvStep == DAType /\ DAType' /\ ClientInv /\ DANext => ClientInv'
<1> SUFFICES ASSUME DAType, DAType', ClientInv, DANext PROVE ClientInv'
  OBVIOUS
<1> USE DEF clientVars, actionVars, historyVars, tmVars
<1>0. time >= time
  BY SMTT(30) DEF DAType
<1>1. ASSUME NEW t \in Clients, ClientBegin(t) PROVE ClientInv'
  BY <1>1, ClientStep1
<1>2. ASSUME NEW t \in Clients, ClientCommit(t) PROVE ClientInv'
  <2>1. PICK label \in {"committing", "ended"} : TakeEndTime(t, label) /\ client[t].pc \in {"running", "aborting"}
    BY <1>2 DEF ClientCommit
  <2> QED BY <2>1, ClientStep2
<1>3. ASSUME NEW t \in Clients, ClientAbort(t) PROVE ClientInv'
  BY <1>3, ClientStep2 DEF ClientAbort
<1>4. ASSUME NEW t \in Clients, RunCommitActions(t) PROVE ClientInv'
  <2>1. client[t].pc = "committing" /\ ClientAt(t, "ended") /\ UNCHANGED <<time, curr_running_txns, handed_over, gc_queues>>
    BY <1>4 DEF RunCommitActions
  <2> QED BY <2>1, ClientStep3
<1>5. ASSUME NEW t \in Clients, RunAbortActions(t) PROVE ClientInv'
  <2>1. client[t].pc = "running" /\ ClientAt(t, "aborting") /\ UNCHANGED <<time, curr_running_txns, handed_over, gc_queues>>
    BY <1>5 DEF RunAbortActions
  <2> QED BY <2>1, ClientStep3
<1>6. ASSUME NEW t \in Clients, ClientRemoved(t) PROVE ClientInv'
  BY <1>6, ClientStep4
<1>7. ASSUME NEW t \in Clients, ClientHandOver(t) PROVE ClientInv'
  BY <1>7, ClientStep5
<1>8. CASE RoundBegin
  <2>1. time' = time + 1 /\ UNCHANGED <<client, curr_running_txns, handed_over>>
        /\ gc_queues'.unlink = gc_queues.unlink /\ Unlinked' = Unlinked
    BY <1>8, RoundBeginEffect
  <2>2. time' >= time
    BY <2>1, SMTT(30) DEF DAType
  <2> QED BY <2>1, <2>2, ClientKept DEF InHands
<1>9. CASE RoundUnlink
  <2>1. /\ time' >= time /\ UNCHANGED <<client, curr_running_txns>> /\ handed_over' = {}
        /\ gc_queues'.unlink = (handed_over \cup gc_queues.unlink) \ (NoRecords \cup Due)
        /\ gc_queues'.deallocate = gc_queues.deallocate \cup Due
        /\ gc_queues'.freed = gc_queues.freed \cup NoRecords
    BY <1>9, RoundUnlinkEffect
  <2>2. NoRecords \cup Due \subseteq handed_over \cup gc_queues.unlink
    BY DEF NoRecords, Due
  <2>3. InHands' = InHands
    BY <2>1, <2>2 DEF InHands, Unlinked
  <2> QED BY <2>1, <2>3, ClientKept
<1>10. CASE BacklogStep \/ BacklogStuck \/ SwapQueues \/ NewStep \/ NewRest \/ ClientsDone
  <2>1. UNCHANGED <<time, client, curr_running_txns, handed_over, gc_queues>>
    BY <1>10 DEF BacklogStep, BacklogStuck, SwapQueues, NewStep, NewRest, ClientsDone, daVars, deferVars
  <2>2. InHands' = InHands /\ time' >= time
    BY <2>1, <1>0 DEF InHands, Unlinked
  <2> QED BY <2>1, <2>2, ClientKept
<1> QED
  BY <1>1, <1>2, <1>3, <1>4, <1>5, <1>6, <1>7, <1>8, <1>9, <1>10 DEF DANext, ClientStep, RoundStep

-----------------------------------------------------------------------------
(* What the steps do to the actions that wait.                             *)

LEMMA QueuedType ==
    ASSUME DAType
    PROVE  /\ back_log \in Seq(Action) /\ round.local \in Seq(Action) /\ new_deferred_actions \in Seq(Action)
           /\ Queued \subseteq Action
<1>1. back_log \in Seq(Action) /\ round.local \in Seq(Action) /\ new_deferred_actions \in Seq(Action)
  BY DEF DAType, Round
<1>2. \A q \in Seq(Action) : Elems(q) \subseteq Action
  BY SMTT(30) DEF Elems
<1> QED BY <1>1, <1>2 DEF Queued

LEMMA RegisterQueued ==
    ASSUME DAType, NEW object \in {"table", "index"}, NEW depth \in {1, 2},
           RegisterDeferredAction(object, depth), UNCHANGED <<back_log, round>>
    PROVE  Queued' = Queued \cup {NewAction(object, depth)}
<1>1. new_deferred_actions' = Append(new_deferred_actions, NewAction(object, depth))
  BY DEF RegisterDeferredAction, NewAction
<1>2. Elems(new_deferred_actions') = Elems(new_deferred_actions) \cup {NewAction(object, depth)}
  BY <1>1, NewActionType, QueueAppend, QueuedType
<1> QED BY <1>2 DEF Queued, Elems

\* The action a runs, and leaves the queue that it was in.
RunsFrom(a) ==
    /\ a \in Action /\ a \in Queued /\ round.oldest >= a.ts
    /\ a.depth = 2 => Queued' \subseteq Queued \cup {NewAction(a.object, 1)}
    /\ a.depth = 1 => Queued' \subseteq Queued

LEMMA BacklogQueued ==
    ASSUME DAType, BacklogStep
    PROVE  RunsFrom(Head(back_log)) /\ Head(back_log) \in Elems(back_log)
<1> DEFINE a == Head(back_log)
<1>1. back_log \in Seq(Action) /\ back_log # <<>> /\ round.oldest >= a.ts /\ back_log' = Tail(back_log) /\ round' = round
  BY QueuedType DEF BacklogStep, ActionDue
<1>2. a \in Action /\ a \in Elems(back_log) /\ Elems(back_log') \subseteq Elems(back_log)
  BY <1>1, QueueTail
<1>3. a.object \in {"table", "index"} /\ RunAction(a)
  BY <1>2 DEF Action, BacklogStep
<1> HIDE DEF a
<1>4. ASSUME a.depth = 2 PROVE Elems(new_deferred_actions') = Elems(new_deferred_actions) \cup {NewAction(a.object, 1)}
  <2>1. new_deferred_actions' = Append(new_deferred_actions, NewAction(a.object, 1))
    BY <1>3, <1>4 DEF RunAction, RegisterDeferredAction, NewAction
  <2> QED BY <2>1, <1>3, NewActionType, QueueAppend, QueuedType
<1>5. ASSUME a.depth = 1 PROVE new_deferred_actions' = new_deferred_actions
  <2>1. a.depth # 2
    BY <1>5, SMTT(30)
  <2> QED BY <2>1, <1>3 DEF RunAction
<1>6. Elems(round.local') = Elems(round.local)
  BY <1>1 DEF Elems
<1>7. Queued' = Elems(back_log') \cup Elems(round.local') \cup Elems(new_deferred_actions')
  BY DEF Queued, Elems
<1>8. RunsFrom(a)
  BY <1>1, <1>2, <1>4, <1>5, <1>6, <1>7 DEF RunsFrom, Queued, a
<1> QED BY <1>2, <1>8 DEF a

LEMMA NewQueued ==
    ASSUME DAType, NewStep
    PROVE  RunsFrom(Head(round.local)) /\ Head(round.local) \in Elems(round.local)
<1> DEFINE a == Head(round.local)
<1>1. /\ round.local \in Seq(Action) /\ round.local # <<>> /\ round.oldest >= a.ts
      /\ round.local' = Tail(round.local) /\ back_log' = back_log
  BY NewStepEffect DEF NewStep, ActionDue
<1>2. a \in Action /\ a \in Elems(round.local) /\ Elems(round.local') \subseteq Elems(round.local)
  BY <1>1, QueueTail
<1>3. a.object \in {"table", "index"} /\ RunAction(a)
  BY <1>2 DEF Action, NewStep
<1> HIDE DEF a
<1>4. ASSUME a.depth = 2 PROVE Elems(new_deferred_actions') = Elems(new_deferred_actions) \cup {NewAction(a.object, 1)}
  <2>1. new_deferred_actions' = Append(new_deferred_actions, NewAction(a.object, 1))
    BY <1>3, <1>4 DEF RunAction, RegisterDeferredAction, NewAction
  <2> QED BY <2>1, <1>3, NewActionType, QueueAppend, QueuedType
<1>5. ASSUME a.depth = 1 PROVE new_deferred_actions' = new_deferred_actions
  <2>1. a.depth # 2
    BY <1>5, SMTT(30)
  <2> QED BY <2>1, <1>3 DEF RunAction
<1>6. Elems(back_log') = Elems(back_log)
  BY <1>1 DEF Elems
<1>7. Queued' = Elems(back_log') \cup Elems(round.local') \cup Elems(new_deferred_actions')
  BY DEF Queued, Elems
<1>8. RunsFrom(a)
  BY <1>1, <1>2, <1>4, <1>5, <1>6, <1>7 DEF RunsFrom, Queued, a
<1> QED BY <1>2, <1>8 DEF a

\* The other steps of a round let no action run and register none.
LEMMA QueuedKept ==
    ASSUME DAType, RoundBegin \/ RoundUnlink \/ BacklogStuck \/ SwapQueues \/ NewRest
    PROVE  Queued' \subseteq Queued
<1>0. Queued' = Elems(back_log') \cup Elems(round.local') \cup Elems(new_deferred_actions')
  BY DEF Queued, Elems
<1>1. CASE RoundBegin
  BY <1>0, <1>1, RoundBeginEffect DEF Queued, actionVars
<1>2. CASE RoundUnlink
  BY <1>0, <1>2, RoundUnlinkEffect DEF Queued, actionVars
<1>3. CASE BacklogStuck
  <2>1. UNCHANGED <<back_log, new_deferred_actions>> /\ round.local' = <<>>
    BY <1>3, EndRoundEffect DEF BacklogStuck, actionVars
  <2> QED BY <1>0, <2>1, QueueEmptied DEF Queued
<1>4. CASE SwapQueues
  <2>1. back_log' = back_log /\ round.local' = new_deferred_actions /\ new_deferred_actions' = <<>>
    BY <1>4, LocalEffect, QueuedType DEF SwapQueues
  <2> QED BY <1>0, <2>1, QueueEmptied DEF Queued
<1>5. CASE NewRest
  <2>1. back_log' = back_log \o round.local /\ round.local' = <<>> /\ new_deferred_actions' = new_deferred_actions
    BY <1>5, EndRoundEffect DEF NewRest
  <2>2. \A p, q \in Seq(Action) : Elems(p \o q) \subseteq Elems(p) \cup Elems(q)
    BY SMTT(30) DEF Elems
  <2>3. Elems(back_log') \subseteq Elems(back_log) \cup Elems(round.local)
    BY <2>1, <2>2, QueuedType
  <2> QED BY <1>0, <2>1, <2>3, QueueEmptied DEF Queued
<1> QED BY <1>1, <1>2, <1>3, <1>4, <1>5

-----------------------------------------------------------------------------
(* Actions wait for the transactions that were running.                    *)

\* An action that is registered is newer than the transactions that are running.
LEMMA NewActionWaits ==
    ASSUME DAType, ClientInv, NEW object \in {"table", "index"}, NEW depth \in {1, 2}
    PROVE  NewAction(object, depth).ts <= time
           /\ \A s \in NewAction(object, depth).running : s < NewAction(object, depth).ts
<1>1. time \in Nat /\ NewAction(object, depth).ts = time /\ NewAction(object, depth).running = curr_running_txns
  BY NewActionType DEF DAType
<1>2. \A s \in curr_running_txns : s < time
  BY DEF ClientInv
<1>3. time <= time
  BY <1>1, SMTT(30)
<1> QED BY <1>1, <1>2, <1>3

\* Time passes, transactions leave, and no action is registered.
LEMMA WaitKept ==
    ASSUME DAType, DAType', WaitInv, time' >= time, Queued' \subseteq Queued,
           gc_queues'.unlinked_at = gc_queues.unlinked_at,
           round'.pc # "idle" => round.pc # "idle" /\ round'.oldest = round.oldest
                                 /\ \A s \in curr_running_txns' : s \in curr_running_txns \/ s >= time
    PROVE  WaitInv'
<1>1. time \in Nat /\ time' \in Nat /\ round.oldest \in Nat /\ gc_queues.unlinked_at \in Nat
      /\ curr_running_txns' \in SUBSET Nat
  BY DEF DAType, Round, Queues
<1>2. \A a \in Queued : a.ts \in Nat
  BY QueuedType DEF Action
<1>3. \A a \in Queued' : a.ts <= time' /\ \A s \in a.running : s < a.ts
  BY <1>1, <1>2, SMTT(30) DEF WaitInv
<1>4. ASSUME round'.pc # "idle" PROVE round'.oldest <= time' /\ \A s \in curr_running_txns' : round'.oldest <= s
  <2>1. round.oldest <= time /\ (\A s \in curr_running_txns : round.oldest <= s) /\ round'.oldest = round.oldest
        /\ \A s \in curr_running_txns' : s \in curr_running_txns \/ s >= time
    BY <1>4 DEF WaitInv
  <2> QED BY <2>1, <1>1, SMTT(30)
<1>5. gc_queues'.unlinked_at <= time'
  BY <1>1, SMTT(30) DEF WaitInv
<1> QED BY <1>3, <1>4, <1>5 DEF WaitInv

\* An action is registered, or runs and perhaps registers one.
LEMMA WaitRegister ==
    ASSUME DAType, DAType', ClientInv, WaitInv, NEW object \in {"table", "index"}, NEW depth \in {1, 2},
           Queued' \subseteq Queued \cup {NewAction(object, depth)},
           time' = time, curr_running_txns' = curr_running_txns, gc_queues' = gc_queues,
           round'.pc = round.pc, round'.oldest = round.oldest
    PROVE  WaitInv'
  BY NewActionWaits DEF WaitInv

LEMMA WaitRuns ==
    ASSUME DAType, DAType', ClientInv, WaitInv, NEW a, RunsFrom(a),
           time' = time, curr_running_txns' = curr_running_txns, gc_queues' = gc_queues,
           round'.pc = round.pc, round'.oldest = round.oldest
    PROVE  WaitInv'
<1>1. a \in Action /\ a.object \in {"table", "index"} /\ a.depth \in {1, 2}
  BY DEF RunsFrom, Action
<1>2. Queued' \subseteq Queued \cup {NewAction(a.object, 1)}
  BY <1>1 DEF RunsFrom
<1> QED BY <1>1, <1>2, WaitRegister

LEMMA WaitBegin ==
    ASSUME DAType, DAType', ClientInv, WaitInv, RoundBegin
    PROVE  WaitInv'
<1>1. /\ time' = time + 1 /\ time' \in Nat /\ round'.oldest = Watermark
      /\ gc_queues'.unlinked_at = gc_queues.unlinked_at /\ curr_running_txns' = curr_running_txns
  BY RoundBeginEffect
<1>2. time \in Nat /\ gc_queues.unlinked_at \in Nat /\ curr_running_txns \in SUBSET Nat
  BY DEF DAType, Queues
<1>3. Watermark <= time' /\ \A s \in curr_running_txns : Watermark <= s
  <2>1. CASE curr_running_txns = {}
    <3>1. Watermark = time'
      BY <2>1, <1>1 DEF Watermark
    <3> QED BY <2>1, <3>1, <1>1, SMTT(30)
  <2>2. CASE curr_running_txns # {}
    <3>1. Watermark \in curr_running_txns /\ \A s \in curr_running_txns : Watermark <= s
      BY <2>2, <1>2, OldestIsLeast DEF Watermark
    <3>2. Watermark < time
      BY <3>1 DEF ClientInv
    <3> QED BY <3>1, <3>2, <1>1, <1>2, SMTT(30)
  <2> QED BY <2>1, <2>2
<1>4. \A a \in Queued : a.ts \in Nat
  BY QueuedType DEF Action
<1>5. \A a \in Queued' : a.ts <= time' /\ \A s \in a.running : s < a.ts
  BY <1>1, <1>2, <1>4, QueuedKept, SMTT(30) DEF WaitInv
<1>6. gc_queues'.unlinked_at <= time'
  BY <1>1, <1>2, SMTT(30) DEF WaitInv
<1> QED BY <1>1, <1>3, <1>5, <1>6 DEF WaitInv

LEMMA WaitUnlink ==
    ASSUME DAType, DAType', WaitInv, RoundUnlink
    PROVE  WaitInv'
<1>1. /\ time' \in Nat /\ time' >= time /\ round'.oldest = round.oldest /\ round.pc = "unlink"
      /\ gc_queues'.unlinked_at \in {time, gc_queues.unlinked_at} /\ curr_running_txns' = curr_running_txns
  BY RoundUnlinkEffect
<1>2. time \in Nat /\ gc_queues.unlinked_at \in Nat /\ round.oldest \in Nat
  BY DEF DAType, Queues, Round
<1>3. \A a \in Queued : a.ts \in Nat
  BY QueuedType DEF Action
<1>4. \A a \in Queued' : a.ts <= time' /\ \A s \in a.running : s < a.ts
  BY <1>1, <1>2, <1>3, QueuedKept, SMTT(30) DEF WaitInv
<1>5. gc_queues'.unlinked_at <= time'
  BY <1>1, <1>2, SMTT(30) DEF WaitInv
<1>6. round.oldest <= time' /\ \A s \in curr_running_txns : round.oldest <= s
  BY <1>1, <1>2, SMTT(30) DEF WaitInv
<1> QED BY <1>1, <1>4, <1>5, <1>6 DEF WaitInv

\* The third conjunct of the invariant.
LEMMA WaitInvStep == DAType /\ DAType' /\ ClientInv /\ WaitInv /\ DANext => WaitInv'
<1> SUFFICES ASSUME DAType, DAType', ClientInv, WaitInv, DANext PROVE WaitInv'
  OBVIOUS
<1> USE DEF clientVars, actionVars, historyVars, tmVars
<1>0. time >= time /\ time + 1 >= time
  BY SMTT(30) DEF DAType
<1>1. ASSUME NEW t \in Clients, ClientBegin(t) PROVE WaitInv'
  <2>1. /\ time' >= time /\ curr_running_txns' = curr_running_txns \cup {time}
        /\ round' = round /\ gc_queues' = gc_queues /\ Queued' = Queued
    BY <1>0, <1>1, BeginEffect DEF ClientBegin, Queued, Elems
  <2> QED BY <1>0, <2>1, WaitKept
<1>2. ASSUME NEW t \in Clients, ClientCommit(t) \/ ClientAbort(t) PROVE WaitInv'
  <2>1. /\ time' >= time /\ curr_running_txns' = curr_running_txns
        /\ round' = round /\ gc_queues' = gc_queues /\ Queued' = Queued
    BY <1>0, <1>2 DEF ClientCommit, ClientAbort, TakeEndTime, CheckOutTimestamp, Queued, Elems
  <2> QED BY <2>1, WaitKept
<1>3. ASSUME NEW t \in Clients, RunCommitActions(t) PROVE WaitInv'
  <2>1. PICK object \in {"table", "index"} : RegisterDeferredAction(object, 2)
    BY <1>3 DEF RunCommitActions, Dropped
  <2>2. UNCHANGED <<back_log, round>> /\ time' = time /\ curr_running_txns' = curr_running_txns /\ gc_queues' = gc_queues
    BY <1>3 DEF RunCommitActions
  <2>3. Queued' \subseteq Queued \cup {NewAction(object, 2)}
    BY <2>1, <2>2, RegisterQueued
  <2> QED BY <2>2, <2>3, WaitRegister
<1>4. ASSUME NEW t \in Clients, RunAbortActions(t) PROVE WaitInv'
  <2>1. UNCHANGED <<back_log, round>> /\ time' = time /\ curr_running_txns' = curr_running_txns /\ gc_queues' = gc_queues
    BY <1>4 DEF RunAbortActions
  <2>2. CASE RegisterDeferredAction("table", 1)
    BY <2>1, <2>2, RegisterQueued, WaitRegister
  <2>3. CASE UNCHANGED <<new_deferred_actions, registered>>
    <3>1. Queued' = Queued
      BY <2>1, <2>3 DEF Queued, Elems
    <3> QED BY <1>0, <2>1, <3>1, WaitKept
  <2> QED BY <1>4, <2>2, <2>3 DEF RunAbortActions
<1>5. ASSUME NEW t \in Clients, ClientRemoved(t) \/ ClientHandOver(t) PROVE WaitInv'
  <2>1. /\ time' >= time /\ curr_running_txns' \subseteq curr_running_txns
        /\ round' = round /\ gc_queues' = gc_queues /\ Queued' = Queued
    BY <1>0, <1>5 DEF ClientRemoved, ClientHandOver, RemoveTransaction, Queued, Elems
  <2> QED BY <2>1, WaitKept
<1>6. CASE RoundBegin
  BY <1>6, WaitBegin
<1>7. CASE RoundUnlink
  BY <1>7, WaitUnlink
<1>8. CASE BacklogStep
  <2>1. time' = time /\ curr_running_txns' = curr_running_txns /\ gc_queues' = gc_queues /\ round' = round
    BY <1>8 DEF BacklogStep
  <2> QED BY <1>8, <2>1, BacklogQueued, WaitRuns
<1>9. CASE NewStep
  <2>1. /\ time' = time /\ curr_running_txns' = curr_running_txns /\ gc_queues' = gc_queues
        /\ round'.pc = round.pc /\ round'.oldest = round.oldest
    BY <1>9, NewStepEffect DEF NewStep
  <2> QED BY <1>9, <2>1, NewQueued, WaitRuns
<1>10. CASE BacklogStuck \/ NewRest
  <2>1. time' >= time /\ gc_queues' = gc_queues /\ round'.pc = "idle"
    BY <1>0, <1>10, EndRoundEffect DEF BacklogStuck, NewRest
  <2> QED BY <1>10, <2>1, QueuedKept, WaitKept
<1>11. CASE SwapQueues
  <2>1. /\ time' >= time /\ gc_queues' = gc_queues /\ curr_running_txns' = curr_running_txns
        /\ round.pc = "backlog" /\ round'.oldest = round.oldest
    BY <1>0, <1>11, LocalEffect, QueuedType DEF SwapQueues
  <2> QED BY <1>11, <2>1, QueuedKept, WaitKept
<1>12. CASE ClientsDone
  <2>1. /\ time' >= time /\ gc_queues' = gc_queues /\ curr_running_txns' = curr_running_txns
        /\ round' = round /\ Queued' = Queued
    BY <1>0, <1>12 DEF ClientsDone, daVars, deferVars, Queued, Elems
  <2> QED BY <2>1, WaitKept
<1> QED
  BY <1>1, <1>2, <1>3, <1>4, <1>5, <1>6, <1>7, <1>8, <1>9, <1>10, <1>11, <1>12 DEF DANext, ClientStep, RoundStep

-----------------------------------------------------------------------------
(* The order of the actions.                                               *)

\* The part of OrderInv that is about the identifiers, as a relation of the queues: done
\* have run; those of b, l and n wait, in this order.
InOrder(done, b, l, n, total) ==
    /\ \A i \in 1 .. Len(done) : done[i] = i
    /\ \A i \in 1 .. Len(b) : b[i].id = Len(done) + i
    /\ \A i \in 1 .. Len(l) : l[i].id = Len(done) + Len(b) + i
    /\ \A i \in 1 .. Len(n) : n[i].id = Len(done) + Len(b) + Len(l) + i
    /\ total = Len(done) + Len(b) + Len(l) + Len(n)

LEMMA OrderRegister ==
    ASSUME NEW done \in Seq(Nat), NEW b \in Seq(Action), NEW l \in Seq(Action), NEW n \in Seq(Action), NEW total \in Nat,
           InOrder(done, b, l, n, total), NEW a \in Action, a.id = total + 1
    PROVE  InOrder(done, b, l, Append(n, a), total + 1)
<1> DEFINE m == Append(n, a)
<1>1. /\ Len(m) = Len(n) + 1 /\ \A i \in 1 .. Len(n) : m[i] = n[i]
      /\ m[Len(n) + 1] = a
  BY QueueAppend
<1>2. Len(done) \in Nat /\ Len(b) \in Nat /\ Len(l) \in Nat /\ Len(n) \in Nat
  BY SMTT(30)
<1> HIDE DEF m
<1>3. ASSUME NEW i \in 1 .. Len(m) PROVE m[i].id = Len(done) + Len(b) + Len(l) + i
  <2>1. CASE i \in 1 .. Len(n)
    BY <2>1, <1>1 DEF InOrder
  <2>2. CASE i = Len(n) + 1
    <3>1. m[i].id = total + 1 /\ total = Len(done) + Len(b) + Len(l) + Len(n)
      BY <2>2, <1>1 DEF InOrder
    <3> QED BY <3>1, <2>2, <1>2, SMTT(30)
  <2> QED BY <2>1, <2>2, <1>1, <1>2, SMTT(30)
<1>4. total + 1 = Len(done) + Len(b) + Len(l) + Len(m)
  BY <1>1, <1>2, SMTT(30) DEF InOrder
<1> QED BY <1>3, <1>4 DEF InOrder, m

LEMMA DoneAppend ==
    ASSUME NEW done \in Seq(Nat), NEW x \in Nat, x = Len(done) + 1, \A i \in 1 .. Len(done) : done[i] = i
    PROVE  /\ Len(Append(done, x)) = Len(done) + 1 /\ Len(done) \in Nat
           /\ \A i \in 1 .. Len(Append(done, x)) : Append(done, x)[i] = i
  BY SMTT(30)

LEMMA OrderRunBacklog ==
    ASSUME NEW done \in Seq(Nat), NEW b \in Seq(Action), NEW l \in Seq(Action), NEW n \in Seq(Action), NEW total \in Nat,
           InOrder(done, b, l, n, total), b # <<>>
    PROVE  InOrder(Append(done, Head(b).id), Tail(b), l, n, total)
<1> DEFINE c == Tail(b)  x == Head(b).id  e == Append(done, x)
<1>1. /\ Head(b) = b[1] /\ Len(b) \in Nat /\ Len(b) >= 1 /\ Len(c) = Len(b) - 1
      /\ \A i \in 1 .. Len(c) : c[i] = b[i + 1]
  BY QueueTail
<1>2. Head(b) \in Action
  BY QueueTail
<1>3. x \in Nat /\ Len(done) \in Nat /\ Len(l) \in Nat /\ Len(n) \in Nat
  BY <1>2, SMTT(30) DEF Action
<1>4. x = Len(done) + 1
  <2>1. 1 \in 1 .. Len(b)
    BY <1>1, SMTT(30)
  <2>2. b[1].id = Len(done) + 1
    BY <2>1 DEF InOrder
  <2> QED BY <1>1, <2>2
<1>5. Len(e) = Len(done) + 1 /\ \A i \in 1 .. Len(e) : e[i] = i
  BY <1>3, <1>4, DoneAppend DEF InOrder
<1> HIDE DEF c, x, e
<1>6. ASSUME NEW i \in 1 .. Len(c) PROVE c[i].id = Len(e) + i
  <2>1. i + 1 \in 1 .. Len(b) /\ c[i] = b[i + 1] /\ Len(done) + (i + 1) = Len(e) + i
    BY <1>1, <1>3, <1>5, SMTT(30)
  <2>2. b[i + 1].id = Len(done) + (i + 1)
    BY <2>1 DEF InOrder
  <2> QED BY <2>1, <2>2
<1>7. Len(e) + Len(c) = Len(done) + Len(b)
  BY <1>1, <1>3, <1>5, SMTT(30)
<1> QED BY <1>5, <1>6, <1>7 DEF InOrder, c, x, e

\* Without a backlog the local queue is the first one.
LEMMA OrderShift ==
    ASSUME NEW done \in Seq(Nat), NEW l \in Seq(Action), NEW n \in Seq(Action), NEW total \in Nat
    PROVE  InOrder(done, <<>>, l, n, total) <=> InOrder(done, l, <<>>, n, total)
<1>1. Len(<<>>) = 0 /\ Len(done) \in Nat /\ Len(l) \in Nat /\ Len(n) \in Nat
  BY SMTT(30)
<1>2. Len(done) + Len(<<>>) = Len(done) /\ Len(done) + Len(l) + Len(<<>>) = Len(done) + Len(l)
  BY <1>1, SMTT(30)
<1>3. \A i \in 1 .. Len(<<>>) : FALSE
  BY <1>1, SMTT(30)
<1> QED BY <1>2, <1>3 DEF InOrder

\* The new actions become the local queue.
LEMMA OrderSwap ==
    ASSUME NEW done \in Seq(Nat), NEW n \in Seq(Action), NEW total \in Nat,
           InOrder(done, <<>>, <<>>, n, total)
    PROVE  InOrder(done, <<>>, n, <<>>, total)
<1>1. Len(<<>>) = 0 /\ Len(done) \in Nat /\ Len(n) \in Nat
  BY SMTT(30)
<1>2. /\ Len(done) + Len(<<>>) = Len(done) + Len(<<>>) + Len(<<>>)
      /\ Len(done) + Len(<<>>) + Len(n) + Len(<<>>) = Len(done) + Len(<<>>) + Len(<<>>) + Len(n)
  BY <1>1, SMTT(30)
<1>3. \A i \in 1 .. Len(<<>>) : FALSE
  BY <1>1, SMTT(30)
<1> QED BY <1>2, <1>3 DEF InOrder

LEMMA OrderIsInOrder ==
    OrderInv <=> /\ round.pc # "new" => round.local = <<>>
                 /\ round.pc = "new" => back_log = <<>>
                 /\ InOrder(executed, back_log, round.local, new_deferred_actions, registered)
  BY DEF OrderInv, InOrder

\* What a run action does to the order, whichever queue it was in.
LEMMA OrderAfterRun ==
    ASSUME DAType, NEW a \in Action, RunAction(a), NEW b \in Seq(Action), NEW l \in Seq(Action),
           InOrder(Append(executed, a.id), b, l, new_deferred_actions, registered)
    PROVE  InOrder(executed', b, l, new_deferred_actions', registered')
<1>1. executed' = Append(executed, a.id) /\ executed' \in Seq(Nat)
  BY RunActionEffect
<1>2. new_deferred_actions \in Seq(Action) /\ registered \in Nat /\ a.object \in {"table", "index"}
  BY DEF DAType, Action
<1>3. CASE new_deferred_actions' = new_deferred_actions /\ registered' = registered
  BY <1>1, <1>3
<1>4. CASE /\ new_deferred_actions' = Append(new_deferred_actions, NewAction(a.object, 1))
           /\ registered' = registered + 1
  <2>1. NewAction(a.object, 1) \in Action /\ NewAction(a.object, 1).id = registered + 1
    BY <1>2, NewActionType
  <2> QED BY <1>1, <1>2, <1>4, <2>1, OrderRegister
<1> QED BY <1>3, <1>4, RunActionEffect

\* A step that runs no action, registers none and moves none.
LEMMA OrderKept ==
    ASSUME OrderInv, UNCHANGED <<executed, back_log, new_deferred_actions, registered>>,
           round'.local = round.local, round'.pc = "new" <=> round.pc = "new"
    PROVE  OrderInv'
  BY DEF OrderInv

\* The fourth conjunct of the invariant.
LEMMA OrderInvStep == DAType /\ DAType' /\ OrderInv /\ DANext => OrderInv'
<1> SUFFICES ASSUME DAType, DAType', OrderInv, DANext PROVE OrderInv'
  OBVIOUS
<1> USE DEF clientVars, actionVars, historyVars, tmVars
<1>0. /\ executed \in Seq(Nat) /\ registered \in Nat
      /\ back_log \in Seq(Action) /\ round.local \in Seq(Action) /\ new_deferred_actions \in Seq(Action)
      /\ InOrder(executed, back_log, round.local, new_deferred_actions, registered)
  BY QueuedType, OrderIsInOrder DEF DAType
<1>1. ASSUME NEW t \in Clients, ClientBegin(t) \/ ClientCommit(t) \/ ClientAbort(t) \/ ClientRemoved(t) \/ ClientHandOver(t)
      PROVE  OrderInv'
  BY <1>1, OrderKept DEF ClientBegin, ClientCommit, ClientAbort, TakeEndTime, ClientRemoved, ClientHandOver
<1>2. ASSUME NEW object \in {"table", "index"}, NEW depth \in {1, 2}, RegisterDeferredAction(object, depth),
             UNCHANGED <<back_log, round, executed>>
      PROVE  OrderInv'
  <2>1. new_deferred_actions' = Append(new_deferred_actions, NewAction(object, depth)) /\ registered' = registered + 1
    BY <1>2 DEF RegisterDeferredAction, NewAction
  <2>2. NewAction(object, depth) \in Action /\ NewAction(object, depth).id = registered + 1
    BY NewActionType
  <2>3. InOrder(executed, back_log, round.local, new_deferred_actions', registered')
    BY <1>0, <2>1, <2>2, OrderRegister
  <2> QED BY <1>2, <2>3 DEF OrderInv, InOrder
<1>3. ASSUME NEW t \in Clients, RunCommitActions(t) PROVE OrderInv'
  BY <1>2, <1>3 DEF RunCommitActions, Dropped
<1>4. ASSUME NEW t \in Clients, RunAbortActions(t) PROVE OrderInv'
  <2>1. CASE RegisterDeferredAction("table", 1)
    BY <1>2, <1>4, <2>1 DEF RunAbortActions
  <2>2. CASE UNCHANGED <<new_deferred_actions, registered>>
    BY <1>4, <2>2, OrderKept DEF RunAbortActions
  <2> QED BY <1>4, <2>1, <2>2 DEF RunAbortActions
<1>5. CASE RoundBegin
  BY <1>5, RoundBeginEffect, OrderKept
<1>6. CASE RoundUnlink
  BY <1>6, RoundUnlinkEffect, OrderKept
<1>7. CASE BacklogStep
  <2>1. back_log # <<>> /\ RunAction(Head(back_log)) /\ round' = round /\ back_log' = Tail(back_log) /\ round.pc = "backlog"
    BY <1>7 DEF BacklogStep, ActionDue
  <2>2. Head(back_log) \in Action /\ Tail(back_log) \in Seq(Action)
    BY <1>0, <2>1, QueueTail
  <2>3. InOrder(Append(executed, Head(back_log).id), Tail(back_log), round.local, new_deferred_actions, registered)
    BY <1>0, <2>1, OrderRunBacklog
  <2>4. InOrder(executed', Tail(back_log), round.local, new_deferred_actions', registered')
    BY <1>0, <2>1, <2>2, <2>3, OrderAfterRun
  <2>5. InOrder(executed', back_log', round'.local, new_deferred_actions', registered')
    BY <2>1, <2>4
  <2>6. round'.pc # "new" /\ round'.local = <<>>
    BY <2>1 DEF OrderInv
  <2> QED BY <2>5, <2>6 DEF OrderInv, InOrder
<1>8. CASE NewStep
  <2>1. /\ round.local # <<>> /\ RunAction(Head(round.local)) /\ round'.local = Tail(round.local)
        /\ back_log' = back_log /\ round.pc = "new" /\ round'.pc = "new"
    BY <1>8, NewStepEffect DEF NewStep
  <2>2. Head(round.local) \in Action /\ Tail(round.local) \in Seq(Action) /\ back_log = <<>>
    BY <1>0, <2>1, QueueTail DEF OrderInv
  <2>3. InOrder(executed, round.local, <<>>, new_deferred_actions, registered)
    BY <1>0, <2>2, OrderShift
  <2>4. InOrder(Append(executed, Head(round.local).id), Tail(round.local), <<>>, new_deferred_actions, registered)
    BY <1>0, <2>1, <2>3, OrderRunBacklog, QueueEmptied
  <2>5. InOrder(executed', Tail(round.local), <<>>, new_deferred_actions', registered')
    BY <2>1, <2>2, <2>4, OrderAfterRun, QueueEmptied
  <2>6. InOrder(executed', <<>>, Tail(round.local), new_deferred_actions', registered')
    BY <2>2, <2>5, OrderShift DEF DAType
  <2>7. InOrder(executed', back_log', round'.local, new_deferred_actions', registered')
    BY <2>1, <2>2, <2>6
  <2> QED BY <2>1, <2>2, <2>7 DEF OrderInv, InOrder
<1>9. CASE BacklogStuck
  <2>1. round.pc # "new" /\ round'.pc # "new" /\ round'.local = <<>> /\ round.local = <<>>
    BY <1>9, EndRoundEffect DEF BacklogStuck, OrderInv
  <2> QED BY <1>9, <2>1, OrderKept DEF BacklogStuck
<1>10. CASE SwapQueues
  <2>1. /\ back_log = <<>> /\ round.local = <<>> /\ round'.pc = "new" /\ round'.local = new_deferred_actions
        /\ new_deferred_actions' = <<>> /\ UNCHANGED <<back_log, executed, registered>>
    BY <1>0, <1>10, LocalEffect DEF SwapQueues, OrderInv
  <2>2. InOrder(executed, <<>>, new_deferred_actions, <<>>, registered)
    BY <1>0, <2>1, OrderSwap
  <2>3. InOrder(executed', back_log', round'.local, new_deferred_actions', registered')
    BY <2>1, <2>2
  <2> QED BY <2>1, <2>3 DEF OrderInv, InOrder
<1>11. CASE NewRest
  <2>1. /\ back_log = <<>> /\ round'.pc = "idle" /\ round'.local = <<>> /\ back_log' = back_log \o round.local
        /\ UNCHANGED <<new_deferred_actions, executed, registered>>
    BY <1>11, EndRoundEffect DEF NewRest, OrderInv
  <2>2. back_log' = round.local
    BY <1>0, <2>1, SMTT(30)
  <2>3. InOrder(executed, round.local, <<>>, new_deferred_actions, registered)
    BY <1>0, <2>1, OrderShift
  <2>4. InOrder(executed', back_log', round'.local, new_deferred_actions', registered')
    BY <2>1, <2>2, <2>3
  <2> QED BY <2>1, <2>4 DEF OrderInv, InOrder
<1>12. CASE ClientsDone
  BY <1>12, OrderKept DEF ClientsDone, daVars, deferVars
<1> QED
  BY <1>1, <1>3, <1>4, <1>5, <1>6, <1>7, <1>8, <1>9, <1>10, <1>11, <1>12 DEF DANext, ClientStep, RoundStep

-----------------------------------------------------------------------------
(* Rounds after the last transaction.                                      *)

LEMMA SortedEmpty == Sorted(<<>>)
  BY SMTT(30) DEF Sorted

LEMMA SortedAppend ==
    ASSUME NEW q \in Seq(Action), NEW a \in Action, Sorted(q), \A x \in Elems(q) : x.ts <= a.ts
    PROVE  Sorted(Append(q, a))
<1> DEFINE r == Append(q, a)
<1>1. Len(r) = Len(q) + 1 /\ (\A i \in 1 .. Len(q) : r[i] = q[i]) /\ r[Len(q) + 1] = a
  BY QueueAppend
<1>2. Len(q) \in Nat /\ a.ts \in Nat
  BY SMTT(30) DEF Action
<1>3. \A i \in 1 .. Len(q) : q[i].ts <= a.ts
  BY DEF Elems
<1> HIDE DEF r
<1>4. ASSUME NEW i \in 1 .. Len(r), NEW j \in 1 .. Len(r), i <= j PROVE r[i].ts <= r[j].ts
  <2>1. CASE j \in 1 .. Len(q)
    <3>1. i \in 1 .. Len(q)
      BY <1>2, <2>1, <1>4, SMTT(30)
    <3> QED BY <1>1, <1>4, <2>1, <3>1 DEF Sorted
  <2>2. CASE j = Len(q) + 1 /\ i \in 1 .. Len(q)
    BY <1>1, <1>3, <2>2
  <2>3. CASE j = Len(q) + 1 /\ i = Len(q) + 1
    BY <1>1, <1>2, <2>3, SMTT(30)
  <2> QED BY <1>1, <1>2, <2>1, <2>2, <2>3, SMTT(30)
<1> QED BY <1>4 DEF Sorted, r

LEMMA SortedTail ==
    ASSUME NEW q \in Seq(Action), q # <<>>, Sorted(q)
    PROVE  Sorted(Tail(q)) /\ \A x \in Elems(q) : Head(q).ts <= x.ts
<1> DEFINE r == Tail(q)
<1>1. /\ Head(q) = q[1] /\ Len(q) \in Nat /\ Len(q) >= 1 /\ Len(r) = Len(q) - 1
      /\ \A i \in 1 .. Len(r) : r[i] = q[i + 1]
  BY QueueTail
<1> HIDE DEF r
<1>2. ASSUME NEW i \in 1 .. Len(r), NEW j \in 1 .. Len(r), i <= j PROVE r[i].ts <= r[j].ts
  <2>1. i + 1 \in 1 .. Len(q) /\ j + 1 \in 1 .. Len(q) /\ i + 1 <= j + 1
    BY <1>1, <1>2, SMTT(30)
  <2> QED BY <2>1, <1>1 DEF Sorted
<1>3. ASSUME NEW i \in 1 .. Len(q) PROVE q[1].ts <= q[i].ts
  <2>1. 1 \in 1 .. Len(q) /\ 1 <= i
    BY <1>1, SMTT(30)
  <2> QED BY <2>1 DEF Sorted
<1> QED BY <1>1, <1>2, <1>3 DEF Sorted, Elems, r

LEMMA OverIsQuiet ==
    ASSUME DAType, ClientInv, ClientsOver
    PROVE  curr_running_txns = {} /\ InHands = Clients
<1>1. "over" \notin Alive
  BY DEF Alive
<1>2. curr_running_txns = {}
  BY <1>1 DEF ClientInv, ClientsOver
<1>3. InHands \subseteq Clients
  BY DEF InHands, Unlinked, DAType, Queues
<1> QED BY <1>2, <1>3 DEF ClientInv, ClientsOver

LEMMA SortedRegister ==
    ASSUME DAType, WaitInv, SortedInv, NEW object \in {"table", "index"}, NEW depth \in {1, 2}
    PROVE  Sorted(Append(new_deferred_actions, NewAction(object, depth)))
<1>1. NewAction(object, depth) \in Action /\ NewAction(object, depth).ts = time
  BY NewActionType
<1>2. \A x \in Elems(new_deferred_actions) : x.ts <= NewAction(object, depth).ts
  BY <1>1 DEF WaitInv, Queued
<1> QED BY <1>1, <1>2, SortedAppend, QueuedType DEF SortedInv

LEMMA SortedStep == DAType /\ WaitInv /\ SortedInv /\ DANext => SortedInv'
<1> SUFFICES ASSUME DAType, WaitInv, SortedInv, DANext PROVE SortedInv'
  OBVIOUS
<1> USE DEF clientVars, actionVars, historyVars, tmVars
<1>0. ASSUME NEW a \in Action, RunAction(a) PROVE Sorted(new_deferred_actions')
  <2>1. a.object \in {"table", "index"}
    BY DEF Action
  <2>2. \/ new_deferred_actions' = new_deferred_actions
        \/ new_deferred_actions' = Append(new_deferred_actions, NewAction(a.object, 1))
    BY <1>0, RunActionEffect
  <2> QED BY <2>1, <2>2, SortedRegister DEF SortedInv
<1>1. ASSUME NEW t \in Clients, ClientBegin(t) \/ ClientCommit(t) \/ ClientAbort(t) \/ ClientRemoved(t) \/ ClientHandOver(t)
      PROVE  SortedInv'
  <2>1. UNCHANGED <<round, new_deferred_actions>>
    BY <1>1 DEF ClientBegin, ClientCommit, ClientAbort, TakeEndTime, ClientRemoved, ClientHandOver
  <2> QED BY <2>1 DEF SortedInv, Sorted
<1>2. ASSUME NEW object \in {"table", "index"}, NEW depth \in {1, 2}, RegisterDeferredAction(object, depth), UNCHANGED round
      PROVE  SortedInv'
  <2>1. new_deferred_actions' = Append(new_deferred_actions, NewAction(object, depth))
    BY <1>2 DEF RegisterDeferredAction, NewAction
  <2>2. Sorted(new_deferred_actions') /\ Sorted(round'.local)
    BY <1>2, <2>1, SortedRegister DEF SortedInv
  <2> QED BY <2>2 DEF SortedInv, Sorted
<1>3. ASSUME NEW t \in Clients, RunCommitActions(t) PROVE SortedInv'
  BY <1>2, <1>3 DEF RunCommitActions, Dropped
<1>4. ASSUME NEW t \in Clients, RunAbortActions(t) PROVE SortedInv'
  <2>1. CASE RegisterDeferredAction("table", 1)
    BY <1>2, <1>4, <2>1 DEF RunAbortActions
  <2>2. CASE UNCHANGED <<new_deferred_actions, registered>>
    BY <1>4, <2>2 DEF RunAbortActions, SortedInv, Sorted
  <2> QED BY <1>4, <2>1, <2>2 DEF RunAbortActions
<1>5. CASE RoundBegin
  BY <1>5, RoundBeginEffect DEF SortedInv, Sorted
<1>6. CASE RoundUnlink
  BY <1>6, RoundUnlinkEffect DEF SortedInv, Sorted
<1>7. CASE BacklogStep
  <2>1. Sorted(new_deferred_actions')
    BY <1>0, <1>7, BacklogQueued DEF BacklogStep, RunsFrom
  <2> QED BY <1>7, <2>1 DEF BacklogStep, SortedInv, Sorted
<1>8. CASE NewStep
  <2>1. Sorted(new_deferred_actions')
    BY <1>0, <1>8, NewStepEffect DEF NewStep
  <2>2. Sorted(round'.local)
    BY <1>8, NewStepEffect, SortedTail DEF SortedInv
  <2> QED BY <2>1, <2>2 DEF SortedInv, Sorted
<1>9. CASE BacklogStuck \/ NewRest
  <2>1. round'.local = <<>> /\ new_deferred_actions' = new_deferred_actions
    BY <1>9, EndRoundEffect DEF BacklogStuck, NewRest
  <2>2. Sorted(round'.local) /\ Sorted(new_deferred_actions')
    BY <2>1, SortedEmpty DEF SortedInv
  <2> QED BY <2>2 DEF SortedInv, Sorted
<1>10. CASE SwapQueues
  <2>1. round'.local = new_deferred_actions /\ new_deferred_actions' = <<>>
    BY <1>10, LocalEffect, QueuedType DEF SwapQueues
  <2>2. Sorted(round'.local) /\ Sorted(new_deferred_actions')
    BY <2>1, SortedEmpty DEF SortedInv
  <2> QED BY <2>2 DEF SortedInv, Sorted
<1>11. CASE ClientsDone
  BY <1>11 DEF ClientsDone, daVars, deferVars, SortedInv, Sorted
<1> QED
  BY <1>1, <1>3, <1>4, <1>5, <1>6, <1>7, <1>8, <1>9, <1>10, <1>11 DEF DANext, ClientStep, RoundStep

\* No transaction goes on while the rounds are quiet.
LEMMA QuietClients ==
    ASSUME DAType, QuietInv, NEW t \in Clients, client[t].pc # "over", round' = round
    PROVE  QuietInv'
<1>1. ~ClientsOver
  BY DEF ClientsOver
<1>2. ~(round.late /\ round.pc # "idle") /\ ~(round.quiet >= 1)
  BY <1>1 DEF QuietInv
<1>3. ~(round.quiet >= 2)
  BY <1>2, SMTT(30) DEF DAType, Round
<1> QED BY <1>2, <1>3 DEF QuietInv, FirstQuiet, SecondQuiet

LEMMA QuietBegin ==
    ASSUME DAType, DAType', ClientInv, WaitInv, QuietInv, RoundBegin
    PROVE  QuietInv'
<1>1. /\ round.pc = "idle" /\ round'.pc = "unlink" /\ round'.oldest = Watermark /\ round'.quiet = round.quiet
      /\ round'.late = ClientsOver /\ gc_queues'.unlink = gc_queues.unlink /\ handed_over' = handed_over
      /\ (Watermark > gc_queues.unlinked_at => gc_queues'.deallocate = {}) /\ client' = client
      /\ back_log' = back_log /\ new_deferred_actions' = new_deferred_actions
  BY RoundBeginEffect DEF clientVars, actionVars
<1>2. Queued' \subseteq Queued /\ Elems(back_log') \subseteq Queued
  BY <1>1, QueuedKept DEF Queued
<1>3. CASE ~ClientsOver
  <2>1. ~round'.late /\ ~(round.quiet >= 1)
    BY <1>1, <1>3 DEF QuietInv
  <2>2. ~(round.quiet >= 2)
    BY <2>1, SMTT(30) DEF DAType, Round
  <2> QED BY <1>1, <2>1, <2>2 DEF QuietInv, FirstQuiet, SecondQuiet
<1>4. CASE ClientsOver
  <2>1. Watermark = time + 1 /\ time \in Nat /\ gc_queues.unlinked_at \in Nat
    BY <1>4, OverIsQuiet DEF Watermark, DAType, Queues
  <2>2. ASSUME NEW t \in Clients PROVE client'[t].end < round'.oldest
    <3>1. client[t].pc \in Ended
      BY <1>4 DEF ClientsOver, Ended
    <3>2. client[t].end < time /\ client[t].end \in Nat
      BY <3>1 DEF ClientInv, DAType, Client
    <3> QED BY <1>1, <2>1, <3>2, SMTT(30)
  <2>3. ASSUME NEW a \in Queued PROVE a.ts <= round'.oldest
    <3>1. a.ts <= time /\ a.ts \in Nat
      BY QueuedType DEF WaitInv, Action
    <3> QED BY <1>1, <2>1, <3>1, SMTT(30)
  <2>4. gc_queues'.deallocate = {}
    <3>1. Watermark > gc_queues.unlinked_at
      BY <2>1, SMTT(30) DEF WaitInv
    <3> QED BY <1>1, <3>1
  <2>5. FirstQuiet'
    BY <1>1, <1>2, <2>2, <2>3 DEF FirstQuiet
  <2>6. SecondQuiet'
    BY <1>1, <1>2, <1>4, <2>3, <2>4 DEF QuietInv, SecondQuiet
  <2>7. ClientsOver'
    BY <1>1, <1>4 DEF ClientsOver
  <2> QED BY <1>1, <1>2, <2>4, <2>5, <2>6, <2>7 DEF QuietInv
<1> QED BY <1>3, <1>4

LEMMA QuietUnlink ==
    ASSUME DAType, DAType', QuietInv, RoundUnlink
    PROVE  QuietInv'
<1>1. /\ round.pc = "unlink" /\ round'.pc = "backlog" /\ round'.oldest = round.oldest
      /\ round'.quiet = round.quiet /\ round'.late = round.late /\ handed_over' = {}
      /\ gc_queues'.unlink = (handed_over \cup gc_queues.unlink) \ (NoRecords \cup Due)
      /\ gc_queues'.deallocate = gc_queues.deallocate \cup Due
      /\ client' = client /\ back_log' = back_log /\ new_deferred_actions' = new_deferred_actions
  BY RoundUnlinkEffect DEF actionVars
<1>2. Queued' \subseteq Queued /\ Elems(back_log') = Elems(back_log)
  BY <1>1, QueuedKept
<1>3. round.late => gc_queues'.unlink = {}
  <2> SUFFICES ASSUME round.late, NEW t \in gc_queues'.unlink PROVE FALSE
    OBVIOUS
  <2>1. t \in Clients /\ t \in table_users \cap (handed_over \cup gc_queues.unlink) /\ t \notin Due
    BY <1>1 DEF NoRecords, DAType, Queues
  <2>2. client[t].end < round.oldest /\ client[t].end \in Nat /\ round.oldest \in Nat
    BY <1>1, <2>1 DEF QuietInv, FirstQuiet, DAType, Client, Round
  <2>3. round.oldest > client[t].end
    BY <2>2, SMTT(30)
  <2> QED BY <2>1, <2>2, <2>3, NewerIsGreater DEF Due
<1>4. FirstQuiet'
  BY <1>1, <1>2, <1>3 DEF QuietInv, FirstQuiet
<1>5. ASSUME round.quiet >= 1 PROVE Due = {}
  BY <1>5 DEF QuietInv, SecondQuiet, Due
<1>6. SecondQuiet'
  BY <1>1, <1>2, <1>3, <1>5 DEF QuietInv, SecondQuiet
<1>7. round.quiet >= 2 => round.quiet >= 1
  BY SMTT(30) DEF DAType, Round
<1>8. round.quiet >= 2 => Queued' = {} /\ gc_queues'.deallocate = {}
  BY <1>1, <1>2, <1>5, <1>7 DEF QuietInv
<1>9. (round'.late /\ round'.pc # "idle") \/ round'.quiet >= 1 => ClientsOver'
  BY <1>1 DEF QuietInv, ClientsOver
<1> QED BY <1>1, <1>4, <1>6, <1>8, <1>9 DEF QuietInv

\* An action runs during a quiet round.
LEMMA QuietRuns ==
    ASSUME DAType, DAType', QuietInv, NEW a, RunsFrom(a), RunAction(a),
           round.pc \in {"backlog", "new"}, round'.pc = round.pc, round'.oldest = round.oldest,
           round'.quiet = round.quiet, round'.late = round.late,
           Elems(back_log') \subseteq Elems(back_log),
           client' = client, handed_over' = handed_over, gc_queues' = gc_queues
    PROVE  QuietInv'
<1>1. a \in Action /\ a \in Queued /\ a.object \in {"table", "index"} /\ a.depth \in {1, 2}
  BY DEF RunsFrom, Action
<1>2. NewAction(a.object, 1).depth = 1
  BY <1>1, NewActionType
<1>3. 1 # 2
  BY SMTT(30)
<1>4. \A x \in Queued' : x \in Queued \/ x.depth = 1
  BY <1>1, <1>2 DEF RunsFrom
<1>5. \A x \in Elems(new_deferred_actions') : x \in Elems(new_deferred_actions) \/ x.depth = 1
  <2>1. CASE new_deferred_actions' = new_deferred_actions
    BY <2>1
  <2>2. CASE new_deferred_actions' = Append(new_deferred_actions, NewAction(a.object, 1))
    <3>1. NewAction(a.object, 1) \in Action /\ new_deferred_actions \in Seq(Action)
      BY <1>1, NewActionType, QueuedType
    <3>2. Elems(new_deferred_actions') = Elems(new_deferred_actions) \cup {NewAction(a.object, 1)}
      BY <2>2, <3>1, QueueAppend
    <3> QED BY <1>2, <3>2
  <2> QED BY <1>1, <2>1, <2>2, RunActionEffect
<1>6. FirstQuiet'
  BY <1>3, <1>4, <1>5 DEF QuietInv, FirstQuiet
<1>7. ASSUME round.quiet >= 1 PROVE a.depth = 1 /\ Queued' \subseteq Queued /\ new_deferred_actions' = new_deferred_actions
  <2>1. a.depth = 1
    BY <1>1, <1>7 DEF QuietInv, SecondQuiet
  <2>2. a.depth # 2
    BY <2>1, SMTT(30)
  <2> QED BY <1>1, <2>1, <2>2, RunActionEffect DEF RunsFrom
<1>8. SecondQuiet'
  BY <1>7 DEF QuietInv, SecondQuiet
<1>9. ~(round.quiet >= 2)
  BY <1>1 DEF QuietInv
<1>10. (round'.late /\ round'.pc # "idle") \/ round'.quiet >= 1 => ClientsOver'
  BY DEF QuietInv, ClientsOver
<1> QED BY <1>6, <1>8, <1>9, <1>10 DEF QuietInv

\* The end of a round with new actions: what is left of them registers nothing more.
LEMMA QuietRest ==
    ASSUME DAType, DAType', OrderInv, SortedInv, QuietInv, NewRest
    PROVE  QuietInv'
<1>1. /\ round.pc = "new" /\ round'.pc = "idle" /\ round'.local = <<>> /\ back_log = <<>>
      /\ back_log' = back_log \o round.local /\ round'.late = round.late
      /\ round'.quiet = IF round.late THEN round.quiet + 1 ELSE round.quiet
      /\ new_deferred_actions' = new_deferred_actions /\ client' = client
      /\ handed_over' = handed_over /\ gc_queues' = gc_queues
  BY EndRoundEffect DEF NewRest, OrderInv, clientVars
<1>2. round.local \in Seq(Action) /\ round.oldest \in Nat /\ round.quiet \in Nat
  BY DEF DAType, Round
<1>3. back_log' = round.local
  BY <1>1, <1>2, SMTT(30)
<1>4. Queued' = Elems(round.local) \cup Elems(new_deferred_actions)
  <2>1. Queued' = Elems(back_log') \cup Elems(round'.local) \cup Elems(new_deferred_actions')
    BY DEF Queued, Elems
  <2> QED BY <1>1, <1>3, <2>1, QueueEmptied
<1>5. ASSUME NEW a \in Elems(round.local) PROVE a.ts > round.oldest
  <2>1. round.local # <<>>
    BY <1>2, NoElems
  <2>2. ~(round.oldest >= Head(round.local).ts)
    BY <2>1 DEF NewRest, ActionDue
  <2>3. Head(round.local).ts <= a.ts
    BY <1>2, <2>1, SortedTail DEF SortedInv
  <2>4. Head(round.local).ts \in Nat /\ a.ts \in Nat
    BY <1>2, <2>1, QueueTail, QueuedType DEF Action, Queued
  <2> QED BY <1>2, <2>2, <2>3, <2>4, SMTT(30)
<1>6. ASSUME NEW a \in Elems(round.local), a.ts <= round.oldest PROVE FALSE
  <2>1. a.ts \in Nat
    BY QueuedType DEF Action, Queued
  <2> QED BY <1>2, <1>5, <1>6, <2>1, SMTT(30)
<1>7. CASE ~round.late
  <2>1. ~(round.quiet >= 1)
    BY <1>1, <1>7 DEF QuietInv, SecondQuiet
  <2>2. ~(round.quiet >= 2)
    BY <1>2, <2>1, SMTT(30)
  <2> QED BY <1>1, <1>7, <2>1, <2>2 DEF QuietInv, FirstQuiet, SecondQuiet
<1>8. CASE round.late
  <2>1. round'.quiet = round.quiet + 1
    BY <1>1, <1>8
  <2>2. round'.quiet >= 2 => round.quiet >= 1
    BY <1>2, <2>1, SMTT(30)
  <2>3. ASSUME NEW a \in Queued' PROVE a.depth = 1
    <3>1. CASE a \in Elems(new_deferred_actions)
      BY <1>1, <1>8, <3>1 DEF QuietInv, FirstQuiet
    <3>2. CASE a \in Elems(round.local)
      <4>1. a \in Queued /\ a \in Action
        BY <3>2, QueuedType DEF Queued
      <4>2. a.depth # 2
        BY <1>1, <1>6, <1>8, <3>2, <4>1 DEF QuietInv, FirstQuiet
      <4> QED BY <4>1, <4>2 DEF Action
    <3> QED BY <1>4, <3>1, <3>2
  <2>4. ClientsOver'
    BY <1>1, <1>8 DEF QuietInv, ClientsOver
  <2>5. handed_over' = {} /\ gc_queues'.unlink = {}
    BY <1>1, <1>8 DEF QuietInv, FirstQuiet
  <2>6. ASSUME round.quiet >= 1 PROVE Queued' = {} /\ gc_queues'.deallocate = {}
    <3>1. Elems(round.local) = {}
      <4>1. \A a \in Elems(round.local) : a.ts <= round.oldest
        BY <1>1, <2>6 DEF QuietInv, SecondQuiet, Queued
      <4> QED BY <1>6, <4>1
    <3>2. Elems(new_deferred_actions) = {}
      BY <1>1, <2>6, QueueEmptied DEF QuietInv, SecondQuiet
    <3> QED BY <1>1, <1>4, <2>6, <3>1, <3>2 DEF QuietInv, SecondQuiet
  <2>7. FirstQuiet' /\ SecondQuiet'
    BY <1>1, <2>3, <2>5 DEF FirstQuiet, SecondQuiet
  <2> QED BY <2>2, <2>4, <2>6, <2>7 DEF QuietInv
<1> QED BY <1>7, <1>8

\* The last conjunct of the invariant.
LEMMA QuietInvStep == DAInv /\ DAType' /\ DANext => QuietInv'
<1> SUFFICES ASSUME DAType, ClientInv, WaitInv, OrderInv, SortedInv, QuietInv, DAType', DANext PROVE QuietInv'
  BY DEF DAInv
<1> USE DEF clientVars, actionVars, historyVars, tmVars
<1>1. ASSUME NEW t \in Clients, ClientBegin(t) \/ ClientStep(t) PROVE QuietInv'
  <2>1. round' = round /\ client[t].pc # "over"
    BY <1>1 DEF ClientBegin, ClientStep, ClientCommit, ClientAbort, TakeEndTime, ClientRemoved, ClientHandOver,
                RunCommitActions, RunAbortActions
  <2> QED BY <2>1, QuietClients
<1>2. CASE RoundBegin
  BY <1>2, QuietBegin
<1>3. CASE RoundUnlink
  BY <1>3, QuietUnlink
<1>4. CASE BacklogStep
  <2>1. /\ round.pc = "backlog" /\ round' = round /\ client' = client /\ handed_over' = handed_over /\ gc_queues' = gc_queues
        /\ RunAction(Head(back_log)) /\ back_log' = Tail(back_log) /\ back_log # <<>>
    BY <1>4 DEF BacklogStep, ActionDue
  <2>2. Elems(back_log') \subseteq Elems(back_log)
    BY <2>1, QueueTail, QueuedType
  <2> QED BY <1>4, <2>1, <2>2, BacklogQueued, QuietRuns
<1>5. CASE NewStep
  <2>1. /\ client' = client /\ handed_over' = handed_over /\ gc_queues' = gc_queues
        /\ RunAction(Head(round.local)) /\ back_log' = back_log
    BY <1>5 DEF NewStep
  <2>2. /\ round.pc = "new" /\ round'.pc = "new" /\ round'.oldest = round.oldest
        /\ round'.late = round.late /\ round'.quiet = round.quiet
    BY <1>5, NewStepEffect
  <2> QED BY <1>5, <2>1, <2>2, NewQueued, QuietRuns
<1>6. CASE BacklogStuck
  <2>1. /\ round.pc = "backlog" /\ round'.pc = "idle" /\ round'.late = round.late
        /\ round'.quiet = IF round.late THEN round.quiet + 1 ELSE round.quiet
        /\ back_log # <<>> /\ ~(round.oldest >= Head(back_log).ts)
    BY <1>6, EndRoundEffect DEF BacklogStuck, ActionDue
  <2>2. Head(back_log) \in Elems(back_log) /\ Head(back_log).ts \in Nat /\ round.oldest \in Nat /\ round.quiet \in Nat
    BY <2>1, QueueTail, QueuedType DEF Action, DAType, Round
  <2>3. ~(Head(back_log).ts <= round.oldest)
    BY <2>1, <2>2, SMTT(30)
  <2>4. ~round.late
    BY <2>1, <2>2, <2>3 DEF QuietInv, FirstQuiet
  <2>5. ~(round.quiet >= 1)
    BY <2>1, <2>4 DEF QuietInv, SecondQuiet
  <2>6. ~(round.quiet >= 2)
    BY <2>2, <2>5, SMTT(30)
  <2> QED BY <2>1, <2>4, <2>5, <2>6 DEF QuietInv, FirstQuiet, SecondQuiet
<1>7. CASE SwapQueues
  <2>1. /\ round.pc = "backlog" /\ round'.pc = "new" /\ round'.oldest = round.oldest
        /\ round'.late = round.late /\ round'.quiet = round.quiet /\ new_deferred_actions' = <<>>
        /\ client' = client /\ handed_over' = handed_over /\ gc_queues' = gc_queues
    BY <1>7, LocalEffect, QueuedType DEF SwapQueues
  <2>2. Queued' \subseteq Queued /\ Elems(new_deferred_actions') = {}
    BY <1>7, <2>1, QueuedKept, QueueEmptied
  <2>3. FirstQuiet'
    BY <2>1, <2>2 DEF QuietInv, FirstQuiet
  <2>4. SecondQuiet'
    BY <2>1, <2>2 DEF QuietInv, SecondQuiet
  <2> QED BY <2>1, <2>2, <2>3, <2>4 DEF QuietInv, ClientsOver
<1>8. CASE NewRest
  BY <1>8, QuietRest
<1>9. CASE ClientsDone
  <2>1. /\ UNCHANGED <<round, client, handed_over, gc_queues, back_log, new_deferred_actions>>
    BY <1>9 DEF ClientsDone, daVars, deferVars
  <2>2. Queued' = Queued
    BY <2>1 DEF Queued, Elems
  <2>3. FirstQuiet'
    BY <2>1, <2>2, SMTT(30) DEF QuietInv, FirstQuiet, Elems
  <2>4. SecondQuiet'
    BY <2>1, <2>2, SMTT(30) DEF QuietInv, SecondQuiet
  <2> QED BY <2>1, <2>2, <2>3, <2>4 DEF QuietInv, ClientsOver
<1> QED
  BY <1>1, <1>2, <1>3, <1>4, <1>5, <1>6, <1>7, <1>8, <1>9 DEF DANext, RoundStep

-----------------------------------------------------------------------------
(* The invariant, and what follows from it.                                *)

LEMMA DAInitInv == DAInit => DAInv
<1> SUFFICES ASSUME DAInit PROVE DAInv
  OBVIOUS
<1>1. /\ time = 1 /\ curr_running_txns = {} /\ table_users = {} /\ handed_over = {}
      /\ new_deferred_actions = <<>> /\ back_log = <<>> /\ table_deleted = FALSE
      /\ registered = 0 /\ executed = <<>>
  BY DEF DAInit, TMInit
<1>2. 0 \in Nat /\ 1 \in Nat /\ 0 < 1 /\ 0 <= 1 /\ ~(0 >= 1) /\ ~(0 >= 2)
  BY SMTT(30)
<1>3. round \in Round /\ round.pc = "idle" /\ round.local = <<>> /\ round.quiet = 0 /\ round.late = FALSE
  BY <1>2, QueueEmptied DEF DAInit, Round
<1>4. /\ gc_queues \in Queues /\ gc_queues.unlink = {} /\ gc_queues.deallocate = {}
      /\ gc_queues.unlinked_at = 0 /\ gc_queues.freed = {}
  BY <1>2 DEF DAInit, Queues
<1>5. /\ client \in [Clients -> Client]
      /\ \A t \in Clients : client[t].pc = "idle" /\ client[t].start = 0 /\ client[t].end = 0
  BY <1>2 DEF DAInit, Client
<1>6. executed \in Seq(Nat)
  BY <1>1, SMTT(30)
<1>7. DAType
  BY <1>1, <1>2, <1>3, <1>4, <1>5, <1>6, QueueEmptied DEF DAType
<1>8. ClientInv
  <2>1. \A t \in Clients : client[t].pc \notin Alive /\ client[t].pc \notin Ended /\ client[t].pc # "over"
    BY <1>5 DEF Alive, Ended
  <2>2. InHands = {}
    BY <1>1, <1>4 DEF InHands, Unlinked
  <2> QED BY <1>1, <1>2, <1>5, <2>1, <2>2 DEF ClientInv
<1>9. Queued = {}
  BY <1>1, <1>3, QueueEmptied DEF Queued
<1>10. WaitInv
  BY <1>1, <1>2, <1>3, <1>4, <1>9 DEF WaitInv
<1>11. OrderInv
  <2>1. Len(<<>>) = 0 /\ 1 .. 0 = {} /\ 0 = 0 + 0 + 0 + 0
    BY SMTT(30)
  <2> QED BY <1>1, <1>3, <2>1 DEF OrderInv
<1>12. SortedInv
  BY <1>1, <1>3, SortedEmpty DEF SortedInv
<1>13. QuietInv
  BY <1>2, <1>3 DEF QuietInv, FirstQuiet, SecondQuiet
<1> QED BY <1>7, <1>8, <1>10, <1>11, <1>12, <1>13 DEF DAInv

LEMMA DAStep == DAInv /\ [DANext]_daVars => DAInv'
<1> SUFFICES ASSUME DAInv, [DANext]_daVars PROVE DAInv'
  OBVIOUS
<1>1. CASE DANext
  BY <1>1, TypeStep, ClientInvStep, WaitInvStep, OrderInvStep, SortedStep, QuietInvStep DEF DAInv
<1>2. CASE UNCHANGED daVars
  <2>1. /\ time' = time /\ curr_running_txns' = curr_running_txns /\ client' = client
        /\ table_users' = table_users /\ handed_over' = handed_over /\ round' = round /\ gc_queues' = gc_queues
        /\ new_deferred_actions' = new_deferred_actions /\ back_log' = back_log
        /\ table_deleted' = table_deleted /\ registered' = registered /\ executed' = executed
    BY <1>2 DEF daVars, tmVars, deferVars, clientVars, actionVars, historyVars
  <2>2. Queued' = Queued /\ InHands' = InHands /\ ClientsOver' = ClientsOver
    BY <2>1 DEF Queued, Elems, InHands, Unlinked, ClientsOver
  <2>3. DAType' /\ ClientInv' /\ WaitInv'
    BY <2>1, <2>2 DEF DAInv, DAType, ClientInv, WaitInv
  <2>4. OrderInv' /\ SortedInv'
    BY <2>1 DEF DAInv, OrderInv, SortedInv, Sorted
  <2>5. FirstQuiet' /\ SecondQuiet'
    <3>1. FirstQuiet /\ SecondQuiet
      BY DEF DAInv, QuietInv
    <3>2. FirstQuiet'
      BY <2>1, <2>2, <3>1, SMTT(30) DEF FirstQuiet, Elems
    <3>3. SecondQuiet'
      BY <2>1, <2>2, <3>1, SMTT(30) DEF SecondQuiet
    <3> QED BY <3>2, <3>3
  <2>6. QuietInv'
    BY <2>1, <2>2, <2>5 DEF DAInv, QuietInv
  <2> QED BY <2>3, <2>4, <2>6 DEF DAInv
<1> QED BY <1>1, <1>2

\* DAInv is an invariant of DeferredActionManager and of the transactions and the
\* collector that use it, for every number of them and of rounds.
THEOREM DeferredInvariant == DASpec => []DAInv
<1>1. DAInit => DAInv
  BY DAInitInv
<1>2. DAInv /\ [DANext]_daVars => DAInv'
  BY DAStep
<1> QED BY <1>1, <1>2, PTL DEF DASpec

\* Only the two loops of Process run actions.
LEMMA ExecutedBy ==
    ASSUME DANext, executed' # executed
    PROVE  BacklogStep \/ NewStep
<1> USE DEF clientVars, actionVars, historyVars
<1>1. ASSUME NEW t \in Clients, ClientBegin(t) \/ ClientStep(t) PROVE executed' = executed
  BY <1>1 DEF ClientBegin, ClientStep, ClientCommit, ClientAbort, TakeEndTime, ClientRemoved, ClientHandOver,
              RunCommitActions, RunAbortActions
<1>2. RoundBegin \/ RoundUnlink \/ BacklogStuck \/ SwapQueues \/ NewRest => executed' = executed
  BY DEF RoundBegin, RoundUnlink, BacklogStuck, SwapQueues, NewRest
<1>3. ClientsDone => executed' = executed
  BY DEF ClientsDone, daVars, deferVars
<1> QED BY <1>1, <1>2, <1>3 DEF DANext, RoundStep

\* The watermark lies between an action that is due and the transactions that run.
LEMMA DueIsPast ==
    ASSUME DAInv, round.pc # "idle", NEW a \in Queued, round.oldest >= a.ts
    PROVE  a.running \cap curr_running_txns = {}
<1>1. a \in Action /\ curr_running_txns \in SUBSET Nat /\ round.oldest \in Nat
  BY QueuedType DEF DAInv, DAType, Round
<1>2. ASSUME NEW s \in a.running, s \in curr_running_txns PROVE FALSE
  <2>1. s \in Nat /\ a.ts \in Nat
    BY <1>1, <1>2 DEF Action
  <2>2. s < a.ts /\ round.oldest <= s
    BY <1>2 DEF DAInv, WaitInv
  <2> QED BY <1>1, <2>1, <2>2, SMTT(30)
<1> QED BY <1>2

\* The two loops of Process run an action only when every transaction that was running as
\* it was registered has left curr_running_txns_.
THEOREM ActionsWait == DASpec => ActionsWaitForRunning
<1> DEFINE Waits == \A q \in {back_log, round.local} :
                      q # <<>> /\ Runs(Head(q)) => Head(q).running \cap curr_running_txns = {}
<1>1. DAInv /\ [DANext]_daVars => [Waits]_daVars
  <2> SUFFICES ASSUME DAInv, DANext, NEW q \in {back_log, round.local}, q # <<>>, Runs(Head(q))
               PROVE  Head(q).running \cap curr_running_txns = {}
    OBVIOUS
  <2>1. BacklogStep \/ NewStep
    BY ExecutedBy DEF Runs
  <2>2. DAType /\ OrderInv
    BY DEF DAInv
  <2>3. CASE BacklogStep
    <3>1. round.pc = "backlog" /\ q = back_log
      BY <2>2, <2>3 DEF BacklogStep, OrderInv
    <3> QED BY <2>2, <2>3, <3>1, BacklogQueued, DueIsPast DEF RunsFrom
  <2>4. CASE NewStep
    <3>1. round.pc = "new" /\ q = round.local
      BY <2>2, <2>4 DEF NewStep, OrderInv
    <3> QED BY <2>2, <2>4, <3>1, NewQueued, DueIsPast DEF RunsFrom
  <2> QED BY <2>1, <2>3, <2>4
<1>2. (DASpec => []DAInv) => (DASpec => [][Waits]_daVars)
  BY <1>1, PTL DEF DASpec
<1> QED
  BY <1>2, DeferredInvariant DEF ActionsWaitForRunning

\* Two rounds that begin after the last transaction leave nothing behind.
LEMMA QuietIsEmpty ==
    ASSUME DAInv, round.quiet >= 2
    PROVE  QueuesEmpty
<1>1. DAType /\ ClientInv /\ round.quiet \in Nat
  BY DEF DAInv, DAType, Round
<1>2. round.quiet >= 1
  BY <1>1, SMTT(30)
<1>3. ClientsOver /\ Queued = {} /\ gc_queues.deallocate = {} /\ handed_over = {} /\ gc_queues.unlink = {}
  BY <1>2 DEF DAInv, QuietInv, SecondQuiet
<1>4. gc_queues.freed = Clients
  BY <1>1, <1>3, OverIsQuiet DEF InHands, Unlinked
<1>5. new_deferred_actions = <<>> /\ back_log = <<>>
  BY <1>1, <1>3, QueuedType, NoElems DEF Queued
<1> QED BY <1>4, <1>5 DEF QueuesEmpty

\* Every registered action runs once, in the order of registration, and the rounds of
\* FullyPerformGC leave no action and no transaction behind.
THEOREM ActionsAreAccounted == DASpec => []ActionsAccounted
<1>1. DAInv => ActionsAccounted
  <2> SUFFICES ASSUME DAInv PROVE ActionsInOrder /\ ThreeRoundsEmpty
    BY DEF ActionsAccounted
  <2>1. executed \in Seq(Nat) /\ round.quiet \in Nat
    BY DEF DAInv, DAType, Round
  <2>2. DOMAIN executed = 1 .. Len(executed)
    BY <2>1, SMTT(30)
  <2>3. round.quiet >= 3 => round.quiet >= 2
    BY <2>1, SMTT(30)
  <2> QED BY <2>2, <2>3, QuietIsEmpty DEF DAInv, OrderInv, ActionsInOrder, ThreeRoundsEmpty
<1> QED BY <1>1, DeferredInvariant, PTL

-----------------------------------------------------------------------------
(* A dropped table outlives the records in it.                             *)

\* No transaction changes, and nothing is registered.
LEMMA TableKept ==
    ASSUME TableInv, client' = client, table_users' = table_users, table_deleted' = table_deleted,
           Queued' \subseteq Queued, Unlinked \subseteq Unlinked', StillLinked'
    PROVE  TableInv'
<1>1. DropEnded' = DropEnded
  BY DEF DropEnded
<1>2. TableGone' /\ TableActions'
  BY <1>1 DEF TableInv, TableGone, TableActions
<1> QED BY <1>2 DEF TableInv

\* One transaction changes, and may register the first action about the table.
LEMMA TableClient ==
    ASSUME DAType, ClientInv, TableInv, NEW t \in Clients, NEW pc, NEW end, Changes(t, pc, client[t].start, end),
           client[t].pc # "over", client[t].pc \in Ended => pc \in Ended, pc # "idle", pc # "removed",
           table_users' = table_users, table_deleted' = table_deleted, gc_queues' = gc_queues, round' = round,
           \A a \in Queued' : a \in Queued \/ (a.object = "table" =>
                a.depth # 1 /\ DropEnded' /\ \A u \in table_users : client[u].start < a.ts),
           \/ handed_over' = handed_over
           \/ /\ handed_over' = handed_over \cup {t}
              /\ round.pc \in {"backlog", "new"} => round.oldest <= end
    PROVE  TableInv'
<1>1. Droppers \subseteq Clients /\ table_users \subseteq Clients
  BY DAAssumption DEF DAType
<1>2. \A u \in Clients : client'[u].start = client[u].start /\ (u # t => client'[u] = client[u])
  BY DEF Changes
<1>3. DropEnded => DropEnded'
  BY <1>1, <1>2 DEF DropEnded, Changes
<1>4. TableGone'
  BY <1>3 DEF TableInv, TableGone, Unlinked
<1>5. TableActions'
  <2> SUFFICES ASSUME NEW a \in Queued', a.object = "table"
               PROVE  /\ DropEnded'
                      /\ \A u \in table_users : client'[u].start < a.ts
                      /\ a.depth = 1 => \A u \in table_users : client'[u].pc = "over" /\ client'[u].end < a.ts
    BY DEF TableActions
  <2>1. CASE a \in Queued
    <3>1. /\ DropEnded /\ \A u \in table_users : client[u].start < a.ts
          /\ a.depth = 1 => \A u \in table_users : client[u].pc = "over" /\ client[u].end < a.ts
      BY <2>1 DEF TableInv, TableActions
    <3>2. a.depth = 1 => t \notin table_users
      BY <3>1
    <3> QED BY <1>1, <1>2, <1>3, <3>1, <3>2
  <2>2. CASE a \notin Queued
    BY <1>1, <1>2, <2>2
  <2> QED BY <2>1, <2>2
<1>6. StillLinked'
  <2> SUFFICES ASSUME round.pc \in {"backlog", "new"},
                      NEW u \in table_users, u \in handed_over' \cup gc_queues.unlink
               PROVE  round.oldest <= client'[u].end
    BY DEF StillLinked
  <2>1. CASE u = t
    <3>1. t \notin InHands
      BY DEF ClientInv
    <3> QED BY <2>1, <3>1 DEF InHands, Changes
  <2>2. CASE u # t
    <3>1. round.oldest <= client[u].end
      BY <2>2 DEF TableInv, StillLinked
    <3> QED BY <1>1, <1>2, <2>2, <3>1
  <2> QED BY <2>1, <2>2
<1>7. \A u \in table_users : client'[u].pc # "idle"
  BY <1>1, <1>2 DEF TableInv, Changes
<1>8. \A u \in Clients : client'[u].pc # "removed"
  BY <1>2 DEF TableInv, Changes
<1> QED BY <1>4, <1>5, <1>6, <1>7, <1>8 DEF TableInv

\* A transaction begins to use the table only while no drop of it has ended.
LEMMA TableBegin ==
    ASSUME DAType, ClientInv, TableInv, NEW t \in Clients, ClientBegin(t)
    PROVE  TableInv'
<1>1. /\ client[t].pc = "idle" /\ handed_over' = handed_over /\ round' = round /\ gc_queues' = gc_queues
      /\ new_deferred_actions' = new_deferred_actions /\ back_log' = back_log /\ table_deleted' = table_deleted
      /\ (table_users' = table_users \/ (table_users' = table_users \cup {t} /\ TableVisible))
  BY DEF ClientBegin, actionVars
<1>2. Changes(t, "running", time, client[t].end)
  BY BeginEffect
<1>3. Queued' = Queued
  BY <1>1 DEF Queued, Elems
<1>4. /\ "idle" \notin Ended /\ "running" \notin Ended /\ "running" # "idle" /\ "running" # "removed"
      /\ "idle" # "over" /\ "aborting" \notin Ended
  BY DEF Ended
<1>5. Droppers \subseteq Clients /\ table_users \subseteq Clients /\ t \notin table_users
  BY <1>1, DAAssumption DEF DAType, TableInv
<1>6. \A u \in Clients : u # t => client'[u] = client[u]
  BY <1>2 DEF Changes
<1>7. DropEnded' = DropEnded
  BY <1>1, <1>2, <1>4, <1>5, <1>6 DEF DropEnded, Changes
<1>8. TableVisible => ~DropEnded /\ ~table_deleted
  <2>1. ASSUME NEW d \in Droppers, client[d].pc \in Ended, client[d].end = 0 PROVE FALSE
    <3>1. client[d].start \in Nat /\ client[d].start < 0
      BY <1>5, <2>1 DEF ClientInv, DAType, Client
    <3> QED BY <3>1, SMTT(30)
  <2> QED BY <1>4, <2>1 DEF TableVisible, DropEnded, Ended
<1>9. TableGone'
  BY <1>1, <1>7, <1>8 DEF TableInv, TableGone, Unlinked
<1>10. TableActions'
  <2>1. CASE table_users' = table_users
    BY <1>3, <1>5, <1>6, <1>7, <2>1 DEF TableInv, TableActions
  <2>2. CASE TableVisible
    BY <1>3, <1>7, <1>8, <2>2 DEF TableInv, TableActions
  <2> QED BY <1>1, <2>1, <2>2
<1>11. StillLinked'
  <2>1. t \notin InHands
    BY <1>1, <1>4 DEF ClientInv
  <2>2. \A u \in table_users' \cap (handed_over \cup gc_queues.unlink) : u \in table_users /\ u # t /\ u \in Clients
    BY <1>1, <1>5, <2>1 DEF InHands
  <2> QED BY <1>1, <1>6, <2>2 DEF TableInv, StillLinked
<1>12. \A u \in table_users' : client'[u].pc # "idle"
  <2>1. client'[t].pc # "idle"
    BY <1>2, <1>4 DEF Changes
  <2>2. \A u \in table_users : client'[u].pc # "idle"
    BY <1>5, <1>6 DEF TableInv
  <2> QED BY <1>1, <2>1, <2>2
<1>13. \A u \in Clients : client'[u].pc # "removed"
  BY <1>2, <1>4, <1>6 DEF TableInv, Changes
<1> QED BY <1>9, <1>10, <1>11, <1>12, <1>13 DEF TableInv

\* An action about the table runs when none that uses it is running, and the one that
\* deletes it when all of them are unlinked.
LEMMA TableRuns ==
    ASSUME DAType, ClientInv, WaitInv, TableInv, NEW a, RunsFrom(a), RunAction(a),
           round.pc \in {"backlog", "new"}, round'.pc = round.pc, round'.oldest = round.oldest,
           client' = client, table_users' = table_users, handed_over' = handed_over, gc_queues' = gc_queues
    PROVE  TableInv'
<1>1. /\ a \in Action /\ a \in Queued /\ round.oldest >= a.ts /\ round.oldest \in Nat /\ round.pc # "idle"
      /\ table_users \subseteq Clients /\ time \in Nat
  BY DEF RunsFrom, DAType, Round
<1>2. a.ts \in Nat /\ a.object \in {"table", "index"} /\ 1 \in {1, 2}
  BY <1>1 DEF Action
<1>3. StillLinked'
  BY DEF TableInv, StillLinked
<1>4. DropEnded' = DropEnded /\ Unlinked' = Unlinked
  BY DEF DropEnded, Unlinked
<1>5. ASSUME a.object = "table", NEW u \in table_users
      PROVE  client[u].pc = "over" /\ client[u].end < time
  <2>1. client[u].start < a.ts /\ client[u] \in Client
    BY <1>1, <1>5 DEF TableInv, TableActions, DAType
  <2>2. ASSUME client[u].pc \in Alive PROVE FALSE
    <3>1. round.oldest <= client[u].start
      BY <1>1, <2>2 DEF ClientInv, WaitInv
    <3>2. client[u].start \in Nat
      BY <2>1 DEF Client
    <3> QED BY <1>1, <1>2, <2>1, <3>1, <3>2, SMTT(30)
  <2>3. client[u].pc = "over"
    BY <1>1, <2>1, <2>2 DEF Client, Alive, Ended, TableInv
  <2>4. client[u].pc \in Ended
    BY <2>3 DEF Ended
  <2> QED BY <1>1, <2>3, <2>4 DEF ClientInv
<1>6. ASSUME a.object = "table", a.depth = 1, NEW u \in table_users PROVE u \in Unlinked
  <2>1. client[u].pc = "over" /\ client[u].end < a.ts /\ client[u].end \in Nat
    BY <1>1, <1>6 DEF TableInv, TableActions, DAType, Client
  <2>2. u \in InHands
    BY <1>1, <2>1 DEF ClientInv
  <2>3. ASSUME u \in handed_over \cup gc_queues.unlink PROVE FALSE
    <3>1. round.oldest <= client[u].end
      BY <2>3 DEF TableInv, StillLinked
    <3> QED BY <1>1, <1>2, <2>1, <3>1, SMTT(30)
  <2> QED BY <2>2, <2>3 DEF InHands
<1>7. a.object = "table" => DropEnded
  BY <1>1 DEF TableInv, TableActions
<1>8. TableGone'
  <2>1. CASE table_deleted' = table_deleted
    BY <1>4, <2>1 DEF TableInv, TableGone
  <2>2. CASE a.depth = 1 /\ a.object = "table"
    BY <1>4, <1>6, <1>7, <2>2 DEF TableGone
  <2>3. CASE a.depth = 1 /\ a.object # "table"
    <3>1. table_deleted' = (table_deleted \/ FALSE) /\ table_deleted \in BOOLEAN
      BY <2>3 DEF RunAction, DAType
    <3> QED BY <2>1, <3>1
  <2> QED BY <1>1, <2>1, <2>2, <2>3, RunActionEffect
<1>9. TableActions'
  <2> SUFFICES ASSUME NEW x \in Queued', x.object = "table"
               PROVE  /\ DropEnded
                      /\ \A u \in table_users : client[u].start < x.ts
                      /\ x.depth = 1 => \A u \in table_users : client[u].pc = "over" /\ client[u].end < x.ts
    BY <1>4 DEF TableActions
  <2>1. CASE x \in Queued
    BY <2>1 DEF TableInv, TableActions
  <2>2. CASE x \notin Queued
    <3>1. x = NewAction(a.object, 1)
      BY <1>1, <2>2 DEF RunsFrom, Action
    <3>2. x.ts = time /\ a.object = "table"
      BY <1>2, <3>1, NewActionType
    <3>3. \A u \in table_users : client[u].start < time
      BY <1>1 DEF ClientInv
    <3> QED BY <1>5, <1>7, <3>2, <3>3
  <2> QED BY <2>1, <2>2
<1> QED BY <1>3, <1>8, <1>9 DEF TableInv

LEMMA TableInvStep ==
    ASSUME Creators = {}, Stallers = {}, DAInv, TableInv, [DANext]_daVars
    PROVE  TableInv'
<1> USE DEF clientVars, actionVars, historyVars, tmVars
<1>0. DAType /\ ClientInv /\ WaitInv
  BY DEF DAInv
<1>1. ASSUME NEW t \in Clients, ClientBegin(t) PROVE TableInv'
  BY <1>0, <1>1, TableBegin
<1>2. ASSUME NEW t \in Clients, NEW label \in {"committing", "ended"}, TakeEndTime(t, label),
             client[t].pc \in {"running", "aborting"}
      PROVE  TableInv'
  <2>1. /\ Changes(t, label, client[t].start, time) /\ client[t].pc # "over" /\ label \in Ended
        /\ label # "idle" /\ label # "removed"
    BY <1>0, <1>2, TakeEndEffect DEF Ended
  <2>2. /\ table_users' = table_users /\ table_deleted' = table_deleted /\ gc_queues' = gc_queues /\ round' = round
        /\ handed_over' = handed_over /\ back_log' = back_log /\ new_deferred_actions' = new_deferred_actions
    BY <1>2 DEF TakeEndTime
  <2>3. Queued' = Queued
    BY <2>2 DEF Queued, Elems
  <2> QED BY <1>0, <2>1, <2>2, <2>3, TableClient
<1>3. ASSUME NEW t \in Clients, RunCommitActions(t) PROVE TableInv'
  <2>1. /\ client[t].pc = "committing" /\ ClientAt(t, "ended") /\ RegisterDeferredAction(Dropped(t), 2)
        /\ table_users' = table_users /\ table_deleted' = table_deleted /\ gc_queues' = gc_queues /\ round' = round
        /\ handed_over' = handed_over /\ back_log' = back_log
    BY <1>3 DEF RunCommitActions
  <2>2. Changes(t, "ended", client[t].start, client[t].end) /\ "ended" \in Ended
    BY <1>0, <2>1, ClientAtEffect DEF Ended
  <2>3. Dropped(t) \in {"table", "index"} /\ (Dropped(t) = "table" => t \in Droppers) /\ 2 \in {1, 2}
    BY DEF Dropped
  <2>4. Queued' = Queued \cup {NewAction(Dropped(t), 2)}
    BY <1>0, <2>1, <2>3, RegisterQueued
  <2>5. /\ NewAction(Dropped(t), 2).ts = time /\ NewAction(Dropped(t), 2).object = Dropped(t)
        /\ NewAction(Dropped(t), 2).depth = 2 /\ table_users \subseteq Clients
    BY <1>0, <2>3, NewActionType DEF DAType
  <2>6. \A u \in table_users : client[u].start < time
    BY <1>0, <2>5 DEF ClientInv
  <2>7. t \in Droppers => DropEnded'
    BY <2>2 DEF DropEnded, Changes
  <2>8. 2 # 1
    BY SMTT(30)
  <2>9. \A a \in Queued' : a \in Queued \/ (a.object = "table" =>
            a.depth # 1 /\ DropEnded' /\ \A u \in table_users : client[u].start < a.ts)
    BY <2>3, <2>4, <2>5, <2>6, <2>7, <2>8
  <2> QED BY <1>0, <2>1, <2>2, <2>9, TableClient
<1>4. ASSUME NEW t \in Clients, RunAbortActions(t) PROVE TableInv'
  <2>1. /\ client[t].pc = "running" /\ ClientAt(t, "aborting") /\ new_deferred_actions' = new_deferred_actions
        /\ table_users' = table_users /\ table_deleted' = table_deleted /\ gc_queues' = gc_queues /\ round' = round
        /\ handed_over' = handed_over /\ back_log' = back_log
    BY <1>4 DEF RunAbortActions
  <2>2. Changes(t, "aborting", client[t].start, client[t].end) /\ "running" \notin Ended
    BY <1>0, <2>1, ClientAtEffect DEF Ended, Alive
  <2>3. Queued' = Queued
    BY <2>1 DEF Queued, Elems
  <2> QED BY <1>0, <2>1, <2>2, <2>3, TableClient
<1>5. ASSUME NEW t \in Clients, ClientRemoved(t) PROVE TableInv'
  <2>1. /\ client[t].pc = "ended" /\ ClientAt(t, "over") /\ handed_over' = handed_over \cup {t}
        /\ table_users' = table_users /\ table_deleted' = table_deleted /\ gc_queues' = gc_queues /\ round' = round
        /\ new_deferred_actions' = new_deferred_actions /\ back_log' = back_log
    BY <1>5 DEF ClientRemoved
  <2>2. Changes(t, "over", client[t].start, client[t].end) /\ "over" \in Ended
    BY <1>0, <2>1, ClientAtEffect DEF Ended
  <2>3. Queued' = Queued
    BY <2>1 DEF Queued, Elems
  <2>4. client[t].pc \in Alive /\ client[t].pc \in Ended
    BY <2>1 DEF Alive, Ended
  <2>5. client[t].start < client[t].end /\ client[t].start \in curr_running_txns
    BY <1>0, <2>4 DEF ClientInv
  <2>6. client[t].start \in Nat /\ client[t].end \in Nat /\ round.oldest \in Nat
    BY <1>0 DEF DAType, Client, Round
  <2>7. round.oldest <= client[t].start => round.oldest <= client[t].end
    BY <2>5, <2>6, SMTT(30)
  <2>8. round.pc \in {"backlog", "new"} => round.oldest <= client[t].end
    BY <1>0, <2>5, <2>7 DEF WaitInv
  <2> QED BY <1>0, <2>1, <2>2, <2>3, <2>8, TableClient
<1>6. ASSUME NEW t \in Clients, ClientHandOver(t) PROVE TableInv'
  BY <1>6 DEF ClientHandOver, TableInv
<1>7. CASE RoundBegin
  <2>1. /\ client' = client /\ table_users' = table_users /\ table_deleted' = table_deleted
        /\ Unlinked' = Unlinked /\ round'.pc = "unlink"
    BY <1>0, <1>7, RoundBeginEffect
  <2> QED BY <1>0, <1>7, <2>1, QueuedKept, TableKept DEF StillLinked
<1>8. CASE RoundUnlink
  <2>1. /\ client' = client /\ table_users' = table_users /\ table_deleted' = table_deleted /\ handed_over' = {}
        /\ round'.oldest = round.oldest
        /\ gc_queues'.unlink = (handed_over \cup gc_queues.unlink) \ (NoRecords \cup Due)
        /\ gc_queues'.deallocate = gc_queues.deallocate \cup Due
        /\ gc_queues'.freed = gc_queues.freed \cup NoRecords
    BY <1>0, <1>8, RoundUnlinkEffect
  <2>2. Unlinked \subseteq Unlinked'
    BY <2>1 DEF Unlinked
  <2>3. ASSUME NEW u \in table_users, u \in gc_queues'.unlink PROVE round.oldest <= client[u].end
    <3>1. ~NewerThan(round.oldest, client[u].end)
      BY <2>1, <2>3 DEF Due
    <3>2. round.oldest \in Nat /\ client[u].end \in Nat
      BY <1>0 DEF DAType, Client, Round
    <3>3. ~(round.oldest > client[u].end)
      BY <3>1, <3>2, NewerIsGreater
    <3> QED BY <3>2, <3>3, SMTT(30)
  <2>4. StillLinked'
    BY <2>1, <2>3 DEF StillLinked
  <2> QED BY <1>0, <1>8, <2>1, <2>2, <2>4, QueuedKept, TableKept
<1>9. CASE BacklogStep
  <2>1. /\ client' = client /\ table_users' = table_users /\ handed_over' = handed_over /\ gc_queues' = gc_queues
        /\ round' = round /\ round.pc = "backlog" /\ RunAction(Head(back_log))
    BY <1>9 DEF BacklogStep
  <2> QED BY <1>0, <1>9, <2>1, BacklogQueued, TableRuns
<1>10. CASE NewStep
  <2>1. /\ client' = client /\ table_users' = table_users /\ handed_over' = handed_over /\ gc_queues' = gc_queues
        /\ RunAction(Head(round.local))
    BY <1>10 DEF NewStep
  <2>2. round.pc = "new" /\ round'.pc = "new" /\ round'.oldest = round.oldest
    BY <1>0, <1>10, NewStepEffect
  <2> QED BY <1>0, <1>10, <2>1, <2>2, NewQueued, TableRuns
<1>11. CASE BacklogStuck \/ NewRest
  <2>1. /\ client' = client /\ table_users' = table_users /\ gc_queues' = gc_queues /\ table_deleted' = table_deleted
        /\ EndRound
    BY <1>11 DEF BacklogStuck, NewRest
  <2>2. StillLinked' /\ Unlinked' = Unlinked
    BY <1>0, <2>1, EndRoundEffect DEF StillLinked, Unlinked
  <2> QED BY <1>0, <1>11, <2>1, <2>2, QueuedKept, TableKept
<1>12. CASE SwapQueues
  <2>1. /\ client' = client /\ table_users' = table_users /\ gc_queues' = gc_queues /\ table_deleted' = table_deleted
        /\ handed_over' = handed_over /\ round.pc = "backlog"
    BY <1>12 DEF SwapQueues
  <2>2. round'.oldest = round.oldest
    BY <1>0, <1>12, LocalEffect, QueuedType DEF SwapQueues
  <2>3. StillLinked' /\ Unlinked' = Unlinked
    BY <2>1, <2>2 DEF TableInv, StillLinked, Unlinked
  <2> QED BY <1>0, <1>12, <2>1, <2>3, QueuedKept, TableKept
<1>13. CASE UNCHANGED daVars
  <2>1. /\ client' = client /\ table_users' = table_users /\ gc_queues' = gc_queues /\ table_deleted' = table_deleted
        /\ handed_over' = handed_over /\ round' = round
        /\ back_log' = back_log /\ new_deferred_actions' = new_deferred_actions
    BY <1>13 DEF daVars, deferVars
  <2>2. Queued' = Queued /\ Unlinked' = Unlinked /\ StillLinked'
    BY <2>1 DEF Queued, Elems, Unlinked, TableInv, StillLinked
  <2> QED BY <2>1, <2>2, TableKept
<1>14. ASSUME NEW t \in Clients, ClientStep(t) PROVE TableInv'
  <2>1. CASE ClientCommit(t)
    <3>1. PICK label \in {"committing", "ended"} : TakeEndTime(t, label) /\ client[t].pc = "running"
      BY <2>1 DEF ClientCommit
    <3> QED BY <1>2, <3>1
  <2>2. CASE ClientAbort(t)
    BY <1>2, <2>2 DEF ClientAbort
  <2> QED BY <1>3, <1>4, <1>5, <1>6, <1>14, <2>1, <2>2 DEF ClientStep
<1> QED
  BY <1>1, <1>7, <1>8, <1>9, <1>10, <1>11, <1>12, <1>13, <1>14 DEF DANext, RoundStep, ClientsDone

\* A table that a transaction drops is deleted only when the collector has unlinked the
\* records of every transaction that uses the table, so that Unlink never reads a deleted
\* table.  (When the creator of a table aborts, one deferral is not enough, and neither are
\* two when a thread stops between leaving curr_running_txns_ and the hand-over.)
THEOREM TableOutlives ==
    ASSUME Creators = {}, Stallers = {}
    PROVE  DASpec => []TableOutlivesRecords
<1>1. DAInit => TableInv
  <2> SUFFICES ASSUME DAInit PROVE TableInv
    OBVIOUS
  <2>1. /\ table_users = {} /\ table_deleted = FALSE /\ round.pc = "idle"
        /\ \A t \in Clients : client[t].pc = "idle"
    BY DEF DAInit
  <2>2. Queued = {}
    <3>1. new_deferred_actions = <<>> /\ back_log = <<>> /\ round.local = <<>>
      BY DEF DAInit
    <3> QED BY <3>1, QueueEmptied DEF Queued
  <2> QED BY <2>1, <2>2 DEF TableInv, TableGone, TableActions, StillLinked
<1>2. DAInv /\ TableInv /\ [DANext]_daVars => TableInv'
  BY TableInvStep
<1>3. TableInv => TableOutlivesRecords
  BY DEF TableInv, TableGone, TableOutlivesRecords, Unlinked
<1> QED BY <1>1, <1>2, <1>3, DeferredInvariant, PTL DEF DASpec
=============================================================================
