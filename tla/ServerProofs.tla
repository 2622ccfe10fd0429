---------------------------- MODULE ServerProofs -----------------------------
(***************************************************************************)
(* Proofs about the server's sessions, threads and workers, for any number *)
(* of them.  Sessions hold the catalog's lock alone, never commit what     *)
(* failed and leave no transaction behind; the threads end before the      *)
(* server stops; the worker pool runs every task once.  The inductive      *)
(* invariants are SessInv, LifeInv and PoolInv.                            *)
(***************************************************************************)
EXTENDS Sessions, ServerLifecycle, WorkerPool, FiniteSetTheorems, TLAPS

USE ZenonT(30)

Times == {<<n>> : n \in Nat}
Stamps == Times \cup (Conns \X Tasks)
Txn == [open : BOOLEAN, start : Nat, finish : Nat, must : BOOLEAN, locked : BOOLEAN, old : Times, wrote : BOOLEAN]

\* Where a handler is while its transaction runs, and where it can be at all.
Running == {"load", "cas", "change", "failed", "executed", "commit", "unlock", "abort", "rollback"}
Labels == Running \cup {"new", "ready", "ended", "gone"}

SessType ==
    /\ at \in [Conns -> Labels] /\ task \in [Conns -> Tasks]
    /\ txns \in [Conns -> [Tasks -> Txn]]
    /\ state \in [Conns -> {"none", "live", "dropped"}]
    /\ seenLock \in [Conns -> Stamps] /\ writeLock \in Stamps
    /\ clock \in Nat /\ ddlDone \subseteq [start : Nat, commit : Nat]

\* Which transactions of the connection c run, and which of them may be committed.
TxnInv(c) ==
    /\ at[c] \in Running => TxnOf(c).open
    /\ at[c] = "ended" => ~TxnOf(c).open
    /\ \A k \in {"create", "drop"} : txns[c][k].open => k = task[c] /\ at[c] \in Running
    /\ \A k \in Tasks : txns[c][k].locked => txns[c][k].open
    /\ \A k \in Tasks : txns[c][k].wrote => txns[c][k].locked
    /\ at[c] \in {"load", "cas", "change", "commit"} => ~TxnOf(c).must
    /\ at[c] = "change" \/ (at[c] = "commit" /\ task[c] # "session") => TxnOf(c).locked
    /\ at[c] = "executed" => task[c] = "session"
    /\ task[c] = "create" \/ (Orderly /\ task[c] = "drop") => ~txns[c]["session"].open

\* What became of the temporary namespace of the connection c.
NamespaceInv(c) ==
    /\ task[c] = "create" => state[c] = IF at[c] \in {"unlock", "ready"} THEN "live"
                                        ELSE IF at[c] = "ended" THEN state[c] ELSE "none"
    /\ task[c] = "create" => state[c] # "dropped"
    /\ task[c] = "session" => state[c] = "live" /\ at[c] \notin {"new", "gone"}
    /\ task[c] = "drop" => /\ state[c] = IF at[c] \in {"unlock", "gone"} THEN "dropped"
                                         ELSE IF at[c] = "ended" THEN state[c] ELSE "live"
                           /\ state[c] # "none" /\ at[c] \notin {"new", "ready"}
    /\ at[c] = "new" => task[c] = "create"

\* The transaction <<c, k>> has the lock: it took it and has not given it back.
Holds(c, k) == txns[c][k].locked /\ ~(k = task[c] /\ at[c] = "rollback")

\* The lock names its holder.  A connection that has dropped its namespace had the lock
\* for that, so that its session does not.
LockInv ==
    /\ \A c \in Conns, k \in Tasks : Holds(c, k) <=> writeLock = <<c, k>>
    /\ \A c \in Conns : task[c] = "drop" /\ state[c] = "dropped" => ~txns[c]["session"].locked

\* All catalog changes were committed by the time v.
DoneBy(v) == \A d \in ddlDone : d.commit <= v

\* A free lock has a time that no change of the catalog is newer than.  A transaction has
\* seen such a time before it takes the lock and keeps it, to give it back.
SerialInv ==
    /\ CatalogChangesSerial
    /\ DoneBy(clock)
    /\ IsTime(writeLock) => DoneBy(writeLock[1])
    /\ \A c \in Conns : at[c] = "cas" => IsTime(seenLock[c]) /\ seenLock[c][1] <= TxnOf(c).start
    /\ \A c \in Conns, k \in Tasks : Holds(c, k) =>
          IF k = task[c] /\ at[c] = "unlock" THEN DoneBy(txns[c][k].finish)
          ELSE DoneBy(txns[c][k].old[1]) /\ txns[c][k].old[1] <= txns[c][k].start

SessInv == SessType /\ (\A c \in Conns : TxnInv(c) /\ NamespaceInv(c)) /\ LockInv /\ SerialInv

-----------------------------------------------------------------------------
(* What steps do.                                                          *)

\* The handler of c goes on; the other connections are left alone.
OthersStay(c) ==
    \A d \in Conns : d # c =>
        /\ at'[d] = at[d] /\ task'[d] = task[d] /\ txns'[d] = txns[d]
        /\ state'[d] = state[d] /\ seenLock'[d] = seenLock[d]

\* A time is no transaction.
LEMMA StampKinds ==
    /\ \A v \in Times : IsTime(v) /\ v[1] \in Nat
    /\ \A v \in Conns \X Tasks : ~IsTime(v)
    /\ \A v \in Stamps : IsTime(v) => v \in Times
    /\ \A c \in Conns, k \in Tasks : <<c, k>> \in Stamps /\ ~IsTime(<<c, k>>)
<1>1. \A n \in Nat : IsTime(<<n>>) /\ <<n>>[1] \in Nat
  BY DEF IsTime
<1>2. \A c \in Conns, k \in Tasks : ~IsTime(<<c, k>>)
  BY SMTT(30) DEF IsTime
<1>3. \A v \in Times : IsTime(v) /\ v[1] \in Nat
  BY <1>1 DEF Times
<1>4. \A v \in Conns \X Tasks : ~IsTime(v)
  BY <1>2, SMTT(30)
<1> QED
  BY <1>2, <1>3, <1>4 DEF Stamps

\* The types of a transaction.
LEMMA TxnTypes ==
    ASSUME SessInv, NEW c \in Conns
    PROVE  /\ at[c] \in Labels /\ task[c] \in Tasks /\ TxnInv(c) /\ NamespaceInv(c)
           /\ state[c] \in {"none", "live", "dropped"}
           /\ TxnOf(c) \in Txn
           /\ \A k \in Tasks : txns[c][k] \in Txn
           /\ NoTxn \in Txn /\ Begun \in Txn
<1>1. NoTxn \in Txn
  <2>1. <<0>> \in Times
    BY DEF Times
  <2> QED
    BY <2>1 DEF NoTxn, Txn
<1>2. Begun \in Txn
  BY <1>1 DEF Begun, Txn, SessInv, SessType
<1> QED
  BY <1>1, <1>2 DEF SessInv, SessType, TxnOf

\* SetTxn changes one transaction.
LEMMA SetTxnEffects ==
    ASSUME SessInv, NEW c \in Conns, NEW k \in Tasks, NEW t \in Txn, SetTxn(c, k, t)
    PROVE  /\ txns' \in [Conns -> [Tasks -> Txn]]
           /\ txns'[c][k] = t /\ \A j \in Tasks : j # k => txns'[c][j] = txns[c][j]
           /\ \A d \in Conns : d # c => txns'[d] = txns[d]
  BY DEF SetTxn, SessInv, SessType

\* Go moves one handler.
LEMMA GoEffects ==
    ASSUME SessInv, NEW c \in Conns, NEW l \in Labels, Go(c, l)
    PROVE  at' \in [Conns -> Labels] /\ at'[c] = l /\ \A d \in Conns : d # c => at'[d] = at[d]
  BY DEF Go, SessInv, SessType

\* A step after which the lock is held by whoever held it.
LEMMA LockUntouched ==
    ASSUME SessInv, NEW c \in Conns, OthersStay(c), SessType', TxnInv(c)', NamespaceInv(c)',
           writeLock' = writeLock, clock' = clock, ddlDone' = ddlDone,
           at[c] \notin {"unlock", "rollback"}, at'[c] \notin {"unlock", "rollback"},
           \A k \in Tasks : txns'[c][k].locked <=> txns[c][k].locked,
           \A k \in Tasks : txns[c][k].locked => /\ txns'[c][k].old = txns[c][k].old
                                                 /\ txns'[c][k].start = txns[c][k].start,
           at'[c] = "cas" => IsTime(seenLock'[c]) /\ seenLock'[c][1] <= TxnOf(c)'.start,
           task'[c] = "drop" /\ state'[c] = "dropped" => task[c] = "drop" /\ state[c] = "dropped"
    PROVE  SessInv'
<1>1. \A d \in Conns : TxnInv(d)' /\ NamespaceInv(d)'
  BY SMTT(30) DEF SessInv, OthersStay, TxnInv, NamespaceInv, TxnOf
<1>2. \A d \in Conns, k \in Tasks : Holds(d, k)' <=> Holds(d, k)
  BY DEF Holds, OthersStay
<1>3. LockInv'
  BY <1>2 DEF SessInv, LockInv, OthersStay, Tasks
<1>4. CatalogChangesSerial' /\ DoneBy(clock)' /\ (IsTime(writeLock) => DoneBy(writeLock[1]))'
  BY DEF SessInv, SerialInv, CatalogChangesSerial, DoneBy, IsTime
<1>5. \A d \in Conns : at'[d] = "cas" => IsTime(seenLock'[d]) /\ seenLock'[d][1] <= TxnOf(d)'.start
  BY DEF SessInv, SerialInv, OthersStay, TxnOf
<1>6. ASSUME NEW d \in Conns, NEW k \in Tasks, Holds(d, k)'
      PROVE  (IF k = task[d] /\ at[d] = "unlock" THEN DoneBy(txns[d][k].finish)
              ELSE DoneBy(txns[d][k].old[1]) /\ txns[d][k].old[1] <= txns[d][k].start)'
  <2>1. Holds(d, k)
    BY <1>2, <1>6
  <2>2. CASE d # c
    BY <2>1, <2>2, SMTT(30) DEF SessInv, SerialInv, OthersStay, DoneBy
  <2>3. CASE d = c
    BY <2>1, <2>3 DEF SessInv, SerialInv, DoneBy, Holds
  <2> QED
    BY <2>2, <2>3
<1> QED
  BY <1>1, <1>3, <1>4, <1>5, <1>6 DEF SessInv, SerialInv

-----------------------------------------------------------------------------
(* Steps that leave the lock alone.                                        *)

\* Startup begins the transaction that creates the namespace.
LEMMA StartupPacketInv == ASSUME SessInv, NEW c \in Conns, StartupPacket(c) PROVE SessInv'
<1>1. at[c] = "new" /\ TxnInv(c) /\ NamespaceInv(c) /\ task[c] = "create" /\ Begun \in Txn
  BY TxnTypes DEF StartupPacket, NamespaceInv
<1>2. "create" \in Tasks /\ "load" \in Labels
  BY DEF Tasks, Labels, Running
<1>3. at' \in [Conns -> Labels] /\ at'[c] = "load" /\ \A d \in Conns : d # c => at'[d] = at[d]
  BY <1>2, GoEffects DEF StartupPacket
<1>4. /\ txns' \in [Conns -> [Tasks -> Txn]] /\ txns'[c]["create"] = Begun
      /\ \A j \in Tasks : j # "create" => txns'[c][j] = txns[c][j]
      /\ \A d \in Conns : d # c => txns'[d] = txns[d]
  BY <1>1, <1>2, SetTxnEffects DEF StartupPacket
<1>5. /\ task' = task /\ state' = state /\ seenLock' = seenLock
      /\ writeLock' = writeLock /\ clock' = clock /\ ddlDone' = ddlDone
  BY <1>1 DEF StartupPacket, SessInv, SessType
<1>6. OthersStay(c) /\ SessType'
  BY <1>3, <1>4, <1>5 DEF OthersStay, SessInv, SessType
<1>7. Begun.open /\ ~Begun.locked /\ ~Begun.must /\ ~Begun.wrote
  BY DEF Begun, NoTxn
<1>8. ~txns[c]["create"].locked
  BY <1>1, <1>2 DEF TxnInv, Running
<1>9. TxnInv(c)' /\ NamespaceInv(c)'
  BY <1>1, <1>2, <1>3, <1>4, <1>5, <1>7 DEF TxnInv, NamespaceInv, TxnOf, Running, Tasks
<1> QED
  BY <1>1, <1>3, <1>4, <1>5, <1>6, <1>7, <1>8, <1>9, LockUntouched

\* The handler moves on, and nothing else happens.
LEMMA OnlyMoves ==
    ASSUME SessInv, NEW c \in Conns, NEW l \in Labels, Go(c, l),
           task' = task, txns' = txns, state' = state, seenLock' = seenLock,
           writeLock' = writeLock, clock' = clock, ddlDone' = ddlDone,
           at[c] \notin {"unlock", "rollback"}, l \notin {"unlock", "rollback", "cas"},
           at'[c] = l => TxnInv(c)' /\ NamespaceInv(c)'
    PROVE  SessInv'
<1>1. at' \in [Conns -> Labels] /\ at'[c] = l /\ \A d \in Conns : d # c => at'[d] = at[d]
  BY GoEffects
<1>2. OthersStay(c) /\ SessType'
  BY <1>1 DEF OthersStay, SessInv, SessType
<1> QED
  BY <1>1, <1>2, LockUntouched

\* A refused startup packet ends the connection.
LEMMA StartupRefusedInv == ASSUME SessInv, NEW c \in Conns, StartupRefused(c) PROVE SessInv'
<1>1. at[c] = "new" /\ TxnInv(c) /\ NamespaceInv(c) /\ "gone" \in Labels /\ Go(c, "gone")
  BY TxnTypes DEF StartupRefused, Labels
<1>2. /\ task' = task /\ txns' = txns /\ state' = state /\ seenLock' = seenLock
      /\ writeLock' = writeLock /\ clock' = clock /\ ddlDone' = ddlDone
  BY DEF StartupRefused
<1>3. at'[c] = "gone" => TxnInv(c)' /\ NamespaceInv(c)'
  BY <1>1, <1>2 DEF TxnInv, NamespaceInv, TxnOf, Running
<1> QED
  BY <1>1, <1>2, <1>3, OnlyMoves

\* The namespace was created: the session is ready.
LEMMA CreateSucceededInv == ASSUME SessInv, NEW c \in Conns, CreateSucceeded(c) PROVE SessInv'
<1>1. /\ at[c] = "ended" /\ task[c] = "create" /\ state[c] = "live"
      /\ TxnInv(c) /\ NamespaceInv(c) /\ "ready" \in Labels /\ Go(c, "ready")
  BY TxnTypes DEF CreateSucceeded, Labels
<1>2. /\ task' = task /\ txns' = txns /\ state' = state /\ seenLock' = seenLock
      /\ writeLock' = writeLock /\ clock' = clock /\ ddlDone' = ddlDone
  BY DEF CreateSucceeded
<1>3. at'[c] = "ready" => TxnInv(c)' /\ NamespaceInv(c)'
  BY <1>1, <1>2 DEF TxnInv, NamespaceInv, TxnOf, Running
<1> QED
  BY <1>1, <1>2, <1>3, OnlyMoves

\* A change that failed is aborted, or ends the statement.
LEMMA ChangeFailedInv == ASSUME SessInv, NEW c \in Conns, ChangeFailed(c) PROVE SessInv'
<1> DEFINE l == IF task[c] = "session" THEN "executed" ELSE "abort"
<1>1. /\ at[c] = "failed" /\ TxnInv(c) /\ NamespaceInv(c) /\ task[c] \in Tasks /\ Go(c, l)
  BY TxnTypes DEF ChangeFailed
<1>2. l \in Labels /\ l \in {"executed", "abort"} /\ (l = "executed" => task[c] = "session")
  BY DEF Labels, Running
<1> HIDE DEF l
<1>3. /\ task' = task /\ txns' = txns /\ state' = state /\ seenLock' = seenLock
      /\ writeLock' = writeLock /\ clock' = clock /\ ddlDone' = ddlDone
  BY DEF ChangeFailed
<1>4. at'[c] = l => TxnInv(c)' /\ NamespaceInv(c)'
  BY <1>1, <1>2, <1>3 DEF TxnInv, NamespaceInv, TxnOf, Running
<1> QED
  BY <1>1, <1>2, <1>3, <1>4, OnlyMoves

\* The end of ExecuteStatement: a transaction of its own is committed only if it need not
\* abort.
LEMMA StatementExecutedInv == ASSUME SessInv, NEW c \in Conns, StatementExecuted(c) PROVE SessInv'
<1> DEFINE l == IF ~single[c] THEN "ready" ELSE IF TxnOf(c).must THEN "abort" ELSE "commit"
<1>1. /\ at[c] = "executed" /\ TxnInv(c) /\ NamespaceInv(c) /\ task[c] \in Tasks /\ Go(c, l)
  BY TxnTypes DEF StatementExecuted
<1>2. l \in Labels /\ l \in {"ready", "abort", "commit"} /\ (l = "commit" => ~TxnOf(c).must)
  BY DEF Labels, Running
<1> HIDE DEF l
<1>3. /\ task' = task /\ txns' = txns /\ state' = state /\ seenLock' = seenLock
      /\ writeLock' = writeLock /\ clock' = clock /\ ddlDone' = ddlDone
  BY DEF StatementExecuted
<1>4. at'[c] = l => TxnInv(c)' /\ NamespaceInv(c)'
  BY <1>1, <1>2, <1>3 DEF TxnInv, NamespaceInv, TxnOf, Running
<1> QED
  BY <1>1, <1>2, <1>3, <1>4, OnlyMoves

\* The statement's transaction has ended.
LEMMA TransactionEndedInv == ASSUME SessInv, NEW c \in Conns, TransactionEnded(c) PROVE SessInv'
<1>1. /\ at[c] = "ended" /\ task[c] = "session" /\ TxnInv(c) /\ NamespaceInv(c)
      /\ "ready" \in Labels /\ Go(c, "ready")
  BY TxnTypes DEF TransactionEnded, Labels
<1>2. /\ task' = task /\ txns' = txns /\ state' = state /\ seenLock' = seenLock
      /\ writeLock' = writeLock /\ clock' = clock /\ ddlDone' = ddlDone
  BY DEF TransactionEnded
<1>3. at'[c] = "ready" => TxnInv(c)' /\ NamespaceInv(c)'
  BY <1>1, <1>2 DEF TxnInv, NamespaceInv, TxnOf, Running
<1> QED
  BY <1>1, <1>2, <1>3, OnlyMoves

\* A transaction that holds no lock is begun, or changes how it stands, and the handler
\* goes on.
LEMMA TxnMoves ==
    ASSUME SessInv, NEW c \in Conns, NEW k \in Tasks, SessType', OthersStay(c),
           state' = state, writeLock' = writeLock, clock' = clock, ddlDone' = ddlDone,
           \A j \in Tasks : j # k => txns'[c][j] = txns[c][j],
           txns'[c][k].locked <=> txns[c][k].locked,
           txns[c][k].locked => txns'[c][k].old = txns[c][k].old /\ txns'[c][k].start = txns[c][k].start,
           at[c] \notin {"unlock", "rollback"}, at'[c] \notin {"unlock", "rollback", "cas"},
           task'[c] = "drop" => task[c] = "drop" \/ state[c] = "live",
           TxnInv(c)', NamespaceInv(c)'
    PROVE  SessInv'
<1>1. /\ \A j \in Tasks : txns'[c][j].locked <=> txns[c][j].locked
      /\ \A j \in Tasks : txns[c][j].locked => /\ txns'[c][j].old = txns[c][j].old
                                               /\ txns'[c][j].start = txns[c][j].start
  OBVIOUS
<1> QED
  BY <1>1, LockUntouched

\* A new attempt at the namespace, or none.
LEMMA CreateFailedInv == ASSUME SessInv, NEW c \in Conns, CreateFailed(c) PROVE SessInv'
<1>1. /\ at[c] = "ended" /\ task[c] = "create" /\ state[c] = "none"
      /\ TxnInv(c) /\ NamespaceInv(c) /\ Begun \in Txn
  BY TxnTypes DEF CreateFailed
<1>2. "create" \in Tasks /\ {"load", "gone"} \subseteq Labels
  BY DEF Tasks, Labels, Running
<1>3. /\ task' = task /\ state' = state /\ seenLock' = seenLock
      /\ writeLock' = writeLock /\ clock' = clock /\ ddlDone' = ddlDone
  BY DEF CreateFailed
<1>4. CASE tries[c] + 1 < BackoffTries
  <2>1. at' \in [Conns -> Labels] /\ at'[c] = "load" /\ \A d \in Conns : d # c => at'[d] = at[d]
    BY <1>2, <1>4, GoEffects DEF CreateFailed
  <2>2. /\ txns' \in [Conns -> [Tasks -> Txn]] /\ txns'[c]["create"] = Begun
        /\ \A j \in Tasks : j # "create" => txns'[c][j] = txns[c][j]
        /\ \A d \in Conns : d # c => txns'[d] = txns[d]
    BY <1>1, <1>2, <1>4, SetTxnEffects DEF CreateFailed
  <2>3. OthersStay(c) /\ SessType'
    BY <1>3, <2>1, <2>2 DEF OthersStay, SessInv, SessType
  <2>4. Begun.open /\ ~Begun.locked /\ ~Begun.must /\ ~Begun.wrote
    BY DEF Begun, NoTxn
  <2>5. ~txns[c]["create"].locked
    BY <1>1, <1>2 DEF TxnInv, TxnOf
  <2>6. TxnInv(c)' /\ NamespaceInv(c)'
    BY <1>1, <1>2, <1>3, <2>1, <2>2, <2>4 DEF TxnInv, NamespaceInv, TxnOf, Running, Tasks
  <2> QED
    BY <1>1, <1>2, <1>3, <2>1, <2>2, <2>3, <2>4, <2>5, <2>6, TxnMoves
<1>5. CASE ~(tries[c] + 1 < BackoffTries)
  <2>1. Go(c, "gone") /\ txns' = txns
    BY <1>5 DEF CreateFailed
  <2>2. at'[c] = "gone" => TxnInv(c)' /\ NamespaceInv(c)'
    BY <1>1, <1>3, <2>1 DEF TxnInv, NamespaceInv, TxnOf, Running
  <2> QED
    BY <1>1, <1>2, <1>3, <2>1, <2>2, OnlyMoves
<1> QED
  BY <1>4, <1>5

\* The namespace was dropped, or is tried again.
LEMMA DropEndedInv == ASSUME SessInv, NEW c \in Conns, DropEnded(c) PROVE SessInv'
<1>1. /\ at[c] = "ended" /\ task[c] = "drop" /\ TxnInv(c) /\ NamespaceInv(c) /\ Begun \in Txn
      /\ state[c] \in {"none", "live", "dropped"}
  BY TxnTypes DEF DropEnded
<1>2. "drop" \in Tasks /\ {"load", "gone"} \subseteq Labels
  BY DEF Tasks, Labels, Running
<1>3. /\ task' = task /\ state' = state /\ seenLock' = seenLock
      /\ writeLock' = writeLock /\ clock' = clock /\ ddlDone' = ddlDone
  BY DEF DropEnded
<1>4. CASE state[c] # "dropped"
  <2>1. at' \in [Conns -> Labels] /\ at'[c] = "load" /\ \A d \in Conns : d # c => at'[d] = at[d]
    BY <1>2, <1>4, GoEffects DEF DropEnded
  <2>2. /\ txns' \in [Conns -> [Tasks -> Txn]] /\ txns'[c]["drop"] = Begun
        /\ \A j \in Tasks : j # "drop" => txns'[c][j] = txns[c][j]
        /\ \A d \in Conns : d # c => txns'[d] = txns[d]
    BY <1>1, <1>2, <1>4, SetTxnEffects DEF DropEnded
  <2>3. OthersStay(c) /\ SessType'
    BY <1>3, <2>1, <2>2 DEF OthersStay, SessInv, SessType
  <2>4. Begun.open /\ ~Begun.locked /\ ~Begun.must /\ ~Begun.wrote
    BY DEF Begun, NoTxn
  <2>5. ~txns[c]["drop"].locked
    BY <1>1, <1>2 DEF TxnInv, TxnOf
  <2>6. TxnInv(c)' /\ NamespaceInv(c)'
    BY <1>1, <1>2, <1>3, <1>4, <2>1, <2>2, <2>4 DEF TxnInv, NamespaceInv, TxnOf, Running, Tasks
  <2> QED
    BY <1>1, <1>2, <1>3, <2>1, <2>2, <2>3, <2>4, <2>5, <2>6, TxnMoves
<1>5. CASE state[c] = "dropped"
  <2>1. Go(c, "gone") /\ txns' = txns
    BY <1>5 DEF DropEnded
  <2>2. at'[c] = "gone" => TxnInv(c)' /\ NamespaceInv(c)'
    BY <1>1, <1>3, <1>5, <2>1 DEF TxnInv, NamespaceInv, TxnOf, Running
  <2> QED
    BY <1>1, <1>2, <1>3, <2>1, <2>2, OnlyMoves
<1> QED
  BY <1>4, <1>5

\* TryCloseConnection begins to drop the namespace.
LEMMA CloseConnectionInv == ASSUME SessInv, NEW c \in Conns, CloseConnection(c) PROVE SessInv'
<1>1. /\ at[c] = "ready" /\ TxnInv(c) /\ NamespaceInv(c) /\ Begun \in Txn /\ task[c] \in Tasks
      /\ task[c] # "drop" /\ state[c] = "live"
  BY TxnTypes DEF CloseConnection, NamespaceInv, Tasks
<1>2. "drop" \in Tasks /\ "load" \in Labels
  BY DEF Tasks, Labels, Running
<1>3. /\ task' \in [Conns -> Tasks] /\ task'[c] = "drop" /\ \A d \in Conns : d # c => task'[d] = task[d]
      /\ state' = state /\ seenLock' = seenLock
      /\ writeLock' = writeLock /\ clock' = clock /\ ddlDone' = ddlDone
  BY <1>2 DEF CloseConnection, SessInv, SessType
<1>4. at' \in [Conns -> Labels] /\ at'[c] = "load" /\ \A d \in Conns : d # c => at'[d] = at[d]
  BY <1>2, GoEffects DEF CloseConnection
<1>5. /\ txns' \in [Conns -> [Tasks -> Txn]] /\ txns'[c]["drop"] = Begun
      /\ \A j \in Tasks : j # "drop" => txns'[c][j] = txns[c][j]
      /\ \A d \in Conns : d # c => txns'[d] = txns[d]
  BY <1>1, <1>2, SetTxnEffects DEF CloseConnection
<1>6. OthersStay(c) /\ SessType'
  BY <1>3, <1>4, <1>5 DEF OthersStay, SessInv, SessType
<1>7. Begun.open /\ ~Begun.locked /\ ~Begun.must /\ ~Begun.wrote
  BY DEF Begun, NoTxn
<1>8. ~txns[c]["drop"].locked /\ ~txns[c]["create"].open /\ (Orderly => ~txns[c]["session"].open)
  BY <1>1 DEF TxnInv, TransactionState, CloseConnection, Running, Tasks
<1>9. TxnInv(c)' /\ NamespaceInv(c)'
  BY <1>1, <1>2, <1>3, <1>4, <1>5, <1>7, <1>8 DEF TxnInv, NamespaceInv, TxnOf, Running, Tasks
<1> QED
  BY <1>1, <1>2, <1>3, <1>4, <1>5, <1>6, <1>7, <1>8, <1>9, TxnMoves

\* A statement, or nothing but a packet, that reaches a session which waits for one.
LEMMA SendsEffects ==
    ASSUME SessInv, NEW c \in Conns, Sends(c)
    PROVE  /\ at[c] = "ready" /\ task[c] # "drop" /\ task[c] \in Tasks /\ state[c] = "live"
           /\ \A k \in {"create", "drop"} : ~txns[c][k].open
           /\ task' \in [Conns -> Tasks] /\ task'[c] = "session"
           /\ \A d \in Conns : d # c => task'[d] = task[d]
           /\ state' = state /\ seenLock' = seenLock
           /\ writeLock' = writeLock /\ clock' = clock /\ ddlDone' = ddlDone
<1>1. at[c] = "ready" /\ TxnInv(c) /\ NamespaceInv(c) /\ task[c] \in Tasks
  BY TxnTypes DEF Sends
<1>2. task[c] # "drop" /\ state[c] = "live"
  BY <1>1 DEF NamespaceInv, Tasks
<1>3. \A k \in {"create", "drop"} : ~txns[c][k].open
  BY <1>1 DEF TxnInv, Running
<1>4. "session" \in Tasks
  BY DEF Tasks
<1> QED
  BY <1>1, <1>2, <1>3, <1>4 DEF Sends, SessInv, SessType

\* A step of a session whose transaction becomes t, and which goes on at l.
LEMMA SessionMoves ==
    ASSUME SessInv, NEW c \in Conns, Sends(c),
           at' \in [Conns -> Labels], \A d \in Conns : d # c => at'[d] = at[d],
           at'[c] \in {"ready", "load", "executed", "commit", "abort"},
           txns' \in [Conns -> [Tasks -> Txn]], \A d \in Conns : d # c => txns'[d] = txns[d],
           \A j \in Tasks : j # "session" => txns'[c][j] = txns[c][j],
           txns'[c]["session"].locked <=> txns[c]["session"].locked,
           txns'[c]["session"].wrote <=> txns[c]["session"].wrote,
           txns[c]["session"].locked => /\ txns'[c]["session"].old = txns[c]["session"].old
                                        /\ txns'[c]["session"].start = txns[c]["session"].start,
           at'[c] # "ready" => txns'[c]["session"].open,
           txns[c]["session"].open => txns'[c]["session"].open,
           at'[c] \in {"load", "commit"} => ~txns'[c]["session"].must
    PROVE  SessInv'
<1>1. /\ at[c] = "ready" /\ task[c] # "drop" /\ task[c] \in Tasks /\ state[c] = "live"
      /\ \A k \in {"create", "drop"} : ~txns[c][k].open
      /\ task' \in [Conns -> Tasks] /\ task'[c] = "session"
      /\ \A d \in Conns : d # c => task'[d] = task[d]
      /\ state' = state /\ seenLock' = seenLock
      /\ writeLock' = writeLock /\ clock' = clock /\ ddlDone' = ddlDone
  BY SendsEffects
<1>2. OthersStay(c) /\ SessType'
  BY <1>1 DEF OthersStay, SessInv, SessType
<1>3. "session" \in Tasks /\ TxnInv(c)
  BY TxnTypes DEF Tasks
<1>4. TxnInv(c)'
  BY <1>1, <1>3 DEF TxnInv, TxnOf, Running, Tasks
<1>5. NamespaceInv(c)'
  BY <1>1 DEF NamespaceInv
<1> QED
  BY <1>1, <1>2, <1>3, <1>4, <1>5, TxnMoves

\* A query that does not parse.
LEMMA SyntaxErrorInv == ASSUME SessInv, NEW c \in Conns, SyntaxError(c) PROVE SessInv'
<1> DEFINE t == [txns[c]["session"] EXCEPT !.must = TRUE]
<1>1. Sends(c) /\ "session" \in Tasks /\ txns[c]["session"] \in Txn
  BY TxnTypes DEF SyntaxError, Tasks
<1>2. at[c] = "ready"
  BY <1>1, SendsEffects
<1>3. /\ t \in Txn /\ (t.locked <=> txns[c]["session"].locked) /\ (t.wrote <=> txns[c]["session"].wrote)
      /\ t.old = txns[c]["session"].old /\ t.start = txns[c]["session"].start
      /\ t.open <=> txns[c]["session"].open
  BY <1>1 DEF Txn
<1>4. at' = at /\ (SetTxn(c, "session", t) \/ txns' = txns)
  BY DEF SyntaxError
<1> HIDE DEF t
<1>5. /\ at' \in [Conns -> Labels] /\ \A d \in Conns : d # c => at'[d] = at[d]
      /\ at'[c] = "ready"
  BY <1>2, <1>4 DEF SessInv, SessType
<1>6. CASE SetTxn(c, "session", t)
  <2>1. /\ txns' \in [Conns -> [Tasks -> Txn]] /\ txns'[c]["session"] = t
        /\ \A j \in Tasks : j # "session" => txns'[c][j] = txns[c][j]
        /\ \A d \in Conns : d # c => txns'[d] = txns[d]
    BY <1>1, <1>3, <1>6, SetTxnEffects
  <2> QED
    BY <1>1, <1>3, <1>5, <2>1, SessionMoves
<1>7. CASE txns' = txns
  <2>1. txns' \in [Conns -> [Tasks -> Txn]]
    BY <1>7 DEF SessInv, SessType
  <2> QED
    BY <1>1, <1>5, <1>7, <2>1, SessionMoves
<1> QED
  BY <1>4, <1>6, <1>7

\* BEGIN.
LEMMA BeginStatementInv == ASSUME SessInv, NEW c \in Conns, BeginStatement(c) PROVE SessInv'
<1>1. Sends(c) /\ "session" \in Tasks /\ txns[c]["session"] \in Txn /\ Begun \in Txn /\ TxnInv(c)
  BY TxnTypes DEF BeginStatement, Tasks
<1>2. at[c] = "ready" /\ at' = at
  BY <1>1, SendsEffects DEF BeginStatement
<1>3. /\ at' \in [Conns -> Labels] /\ \A d \in Conns : d # c => at'[d] = at[d]
      /\ at'[c] = "ready"
  BY <1>2 DEF SessInv, SessType
<1>4. CASE txns[c]["session"].open
  <2>1. txns' = txns
    BY <1>4 DEF BeginStatement, TransactionState
  <2>2. txns' \in [Conns -> [Tasks -> Txn]]
    BY <2>1 DEF SessInv, SessType
  <2> QED
    BY <1>1, <1>3, <2>1, <2>2, SessionMoves
<1>5. CASE ~txns[c]["session"].open
  <2>1. SetTxn(c, "session", Begun)
    BY <1>5 DEF BeginStatement, TransactionState
  <2>2. /\ txns' \in [Conns -> [Tasks -> Txn]] /\ txns'[c]["session"] = Begun
        /\ \A j \in Tasks : j # "session" => txns'[c][j] = txns[c][j]
        /\ \A d \in Conns : d # c => txns'[d] = txns[d]
    BY <1>1, <2>1, SetTxnEffects
  <2>3. Begun.open /\ ~Begun.locked /\ ~Begun.must /\ ~Begun.wrote
    BY DEF Begun, NoTxn
  <2>4. ~txns[c]["session"].locked /\ ~txns[c]["session"].wrote
    BY <1>1, <1>5 DEF TxnInv
  <2> QED
    BY <1>1, <1>3, <1>5, <2>2, <2>3, <2>4, SessionMoves
<1> QED
  BY <1>4, <1>5

\* COMMIT commits a transaction block that has not failed, and aborts one that has; ROLLBACK
\* aborts any.
LEMMA EndStatementInv ==
    ASSUME SessInv, NEW c \in Conns, CommitStatement(c) \/ RollbackStatement(c) PROVE SessInv'
<1>1. Sends(c) /\ "session" \in Tasks /\ txns' = txns
  BY DEF CommitStatement, RollbackStatement, Tasks
<1>2. at[c] = "ready" /\ {"commit", "abort"} \subseteq Labels /\ txns' \in [Conns -> [Tasks -> Txn]]
  BY <1>1, SendsEffects DEF Labels, Running, SessInv, SessType
<1>3. CASE at' = at
  <2>1. /\ at' \in [Conns -> Labels] /\ \A d \in Conns : d # c => at'[d] = at[d]
        /\ at'[c] = "ready"
    BY <1>2, <1>3 DEF SessInv, SessType
  <2> QED
    BY <1>1, <1>2, <2>1, SessionMoves
<1>4. CASE Go(c, "abort") /\ txns[c]["session"].open
  <2>1. at' \in [Conns -> Labels] /\ at'[c] = "abort" /\ \A d \in Conns : d # c => at'[d] = at[d]
    BY <1>2, <1>4, GoEffects
  <2> QED
    BY <1>1, <1>2, <1>4, <2>1, SessionMoves
<1>5. CASE Go(c, "commit") /\ txns[c]["session"].open /\ ~txns[c]["session"].must
  <2>1. at' \in [Conns -> Labels] /\ at'[c] = "commit" /\ \A d \in Conns : d # c => at'[d] = at[d]
    BY <1>2, <1>5, GoEffects
  <2> QED
    BY <1>1, <1>2, <1>5, <2>1, SessionMoves
<1> QED
  BY <1>3, <1>4, <1>5 DEF CommitStatement, RollbackStatement, TransactionState

\* Any other statement.
LEMMA QueryInv ==
    ASSUME SessInv, NEW c \in Conns, DataStatement(c) \/ CatalogStatement(c) PROVE SessInv'
<1>1. PICK next \in {"executed", "load"}, must \in BOOLEAN :
           Query(c, next, must) /\ (next = "load" => must = FALSE)
  BY DEF DataStatement, CatalogStatement
<1>2. /\ Sends(c) /\ "session" \in Tasks /\ txns[c]["session"] \in Txn /\ Begun \in Txn /\ TxnInv(c)
      /\ {"executed", "load"} \subseteq Labels
  BY <1>1, TxnTypes DEF Query, Tasks, Labels, Running
<1>3. at[c] = "ready"
  BY <1>2, SendsEffects
<1>4. CASE TransactionState(c) = "FAIL"
  <2>1. at' = at /\ txns' = txns
    BY <1>1, <1>4 DEF Query
  <2>2. /\ at' \in [Conns -> Labels] /\ \A d \in Conns : d # c => at'[d] = at[d]
        /\ at'[c] = "ready" /\ txns' \in [Conns -> [Tasks -> Txn]]
    BY <1>3, <2>1 DEF SessInv, SessType
  <2> QED
    BY <1>2, <2>1, <2>2, SessionMoves
<1>5. CASE TransactionState(c) # "FAIL"
  <2> DEFINE b == IF TransactionState(c) = "IDLE" THEN Begun ELSE txns[c]["session"]
             t == [b EXCEPT !.must = must]
  <2>1. Go(c, next) /\ SetTxn(c, "session", t)
    BY <1>1, <1>5 DEF Query
  <2>2. /\ b \in Txn /\ b.open /\ (b.locked <=> txns[c]["session"].locked)
        /\ (b.wrote <=> txns[c]["session"].wrote)
        /\ txns[c]["session"].locked => b.old = txns[c]["session"].old /\ b.start = txns[c]["session"].start
    <3>1. Begun.open /\ ~Begun.locked /\ ~Begun.must /\ ~Begun.wrote
      BY DEF Begun, NoTxn
    <3>2. CASE txns[c]["session"].open
      <4>1. b = txns[c]["session"]
        BY <3>2 DEF TransactionState
      <4> QED
        BY <1>2, <3>2, <4>1
    <3>3. CASE ~txns[c]["session"].open
      <4>1. b = Begun
        BY <3>3 DEF TransactionState
      <4>2. ~txns[c]["session"].locked /\ ~txns[c]["session"].wrote
        BY <1>2, <3>3 DEF TxnInv
      <4> QED
        BY <1>2, <3>1, <4>1, <4>2
    <3> QED
      BY <3>2, <3>3
  <2> HIDE DEF b
  <2>3. /\ t \in Txn /\ t.open /\ (t.locked <=> b.locked) /\ (t.wrote <=> b.wrote)
        /\ t.old = b.old /\ t.start = b.start /\ t.must = must
    BY <2>2 DEF Txn
  <2> HIDE DEF t
  <2>4. at' \in [Conns -> Labels] /\ at'[c] = next /\ \A d \in Conns : d # c => at'[d] = at[d]
    BY <1>2, <2>1, GoEffects
  <2>5. /\ txns' \in [Conns -> [Tasks -> Txn]] /\ txns'[c]["session"] = t
        /\ \A j \in Tasks : j # "session" => txns'[c][j] = txns[c][j]
        /\ \A d \in Conns : d # c => txns'[d] = txns[d]
    BY <1>2, <2>1, <2>3, SetTxnEffects
  <2>6. at'[c] \in {"load", "commit"} => ~txns'[c]["session"].must
    BY <1>1, <2>3, <2>4, <2>5
  <2> QED
    BY <1>2, <2>2, <2>3, <2>4, <2>5, <2>6, SessionMoves
<1> QED
  BY <1>4, <1>5

\* The handler's own transaction changes how it stands, and stays open.
LEMMA HandlerMoves ==
    ASSUME SessInv, NEW c \in Conns, NEW l \in Labels, NEW t \in Txn,
           Go(c, l), SetTxn(c, task[c], t),
           task' = task, state' = state, seenLock' = seenLock,
           writeLock' = writeLock, clock' = clock, ddlDone' = ddlDone,
           at[c] \in {"load", "cas", "change"}, l \in {"failed", "executed", "commit"},
           t.open, t.locked <=> TxnOf(c).locked, t.old = TxnOf(c).old, t.start = TxnOf(c).start,
           t.wrote => t.locked, l = "commit" => ~t.must /\ t.locked, l = "executed" => task[c] = "session"
    PROVE  SessInv'
<1>1. /\ task[c] \in Tasks /\ TxnInv(c) /\ NamespaceInv(c)
      /\ \A k \in Tasks : txns[c][k] \in Txn
  BY TxnTypes
<1>2. at' \in [Conns -> Labels] /\ at'[c] = l /\ \A d \in Conns : d # c => at'[d] = at[d]
  BY GoEffects
<1>3. /\ txns' \in [Conns -> [Tasks -> Txn]] /\ txns'[c][task[c]] = t
      /\ \A j \in Tasks : j # task[c] => txns'[c][j] = txns[c][j]
      /\ \A d \in Conns : d # c => txns'[d] = txns[d]
  BY <1>1, SetTxnEffects
<1>4. OthersStay(c) /\ SessType'
  BY <1>2, <1>3 DEF OthersStay, SessInv, SessType
<1>5. TxnInv(c)'
  BY <1>1, <1>2, <1>3 DEF TxnInv, TxnOf, Running, Tasks
<1>6. NamespaceInv(c)'
  BY <1>1, <1>2 DEF NamespaceInv
<1>7. task'[c] = "drop" => task[c] = "drop"
  OBVIOUS
<1> QED
  BY <1>1, <1>2, <1>3, <1>4, <1>5, <1>6, <1>7, TxnMoves, SMTT(30) DEF TxnOf

\* A lock that is held, or was released after the transaction began, cannot be taken; the
\* time of one that can be taken is remembered.
LEMMA LockLoadInv == ASSUME SessInv, NEW c \in Conns, LockLoad(c) PROVE SessInv'
<1>1. /\ at[c] = "load" /\ TxnInv(c) /\ NamespaceInv(c) /\ task[c] \in Tasks /\ TxnOf(c) \in Txn
      /\ {"failed", "cas", "change"} \subseteq Labels
  BY TxnTypes DEF LockLoad, Labels, Running
<1>2. /\ seenLock' \in [Conns -> Stamps] /\ seenLock'[c] = writeLock
      /\ \A d \in Conns : d # c => seenLock'[d] = seenLock[d]
  BY DEF LockLoad, SessInv, SessType
<1>3. /\ task' = task /\ state' = state
      /\ writeLock' = writeLock /\ clock' = clock /\ ddlDone' = ddlDone
  BY DEF LockLoad
<1>4. ASSUME NEW l \in {"cas", "change"}, Go(c, l), txns' = txns,
             l = "cas" => IsTime(writeLock) /\ writeLock[1] <= TxnOf(c).start,
             l = "change" => TxnOf(c).locked
      PROVE  SessInv'
  <2>1. at' \in [Conns -> Labels] /\ at'[c] = l /\ \A d \in Conns : d # c => at'[d] = at[d]
    BY <1>1, <1>4, GoEffects
  <2>2. OthersStay(c) /\ SessType'
    BY <1>2, <1>3, <1>4, <2>1 DEF OthersStay, SessInv, SessType
  <2>3. TxnInv(c)' /\ NamespaceInv(c)'
    BY <1>1, <1>3, <1>4, <2>1 DEF TxnInv, NamespaceInv, TxnOf, Running
  <2>4. at'[c] = "cas" => IsTime(seenLock'[c]) /\ seenLock'[c][1] <= TxnOf(c)'.start
    BY <1>2, <1>3, <1>4, <2>1 DEF TxnOf
  <2> QED
    BY <1>1, <1>3, <1>4, <2>1, <2>2, <2>3, <2>4, LockUntouched
<1>5. CASE writeLock = IdOf(c)
  <2>1. TxnOf(c).locked
    BY <1>1, <1>5 DEF SessInv, LockInv, Holds, IdOf, TxnOf
  <2> QED
    BY <1>4, <1>5, <2>1 DEF LockLoad
<1>6. CASE writeLock # IdOf(c) /\ ~(~IsTime(writeLock) \/ NewerThanStart(writeLock, TxnOf(c)))
  <2>1. IsTime(writeLock) /\ writeLock[1] \in Nat /\ TxnOf(c).start \in Nat
    BY <1>1, <1>6, StampKinds DEF SessInv, SessType, Txn
  <2>2. writeLock[1] <= TxnOf(c).start
    BY <1>6, <2>1, SMTT(30) DEF NewerThanStart
  <2>3. Go(c, "cas") /\ txns' = txns
    BY <1>6 DEF LockLoad
  <2> QED
    BY <1>4, <2>1, <2>2, <2>3
<1>7. CASE writeLock # IdOf(c) /\ (~IsTime(writeLock) \/ NewerThanStart(writeLock, TxnOf(c)))
  <2> DEFINE t == [TxnOf(c) EXCEPT !.must = TRUE]
  <2>1. Go(c, "failed") /\ SetTxn(c, task[c], t)
    BY <1>7 DEF LockLoad
  <2>2. /\ t \in Txn /\ (t.locked <=> TxnOf(c).locked) /\ (t.wrote <=> TxnOf(c).wrote)
        /\ t.old = TxnOf(c).old /\ t.start = TxnOf(c).start /\ (t.open <=> TxnOf(c).open)
    BY <1>1 DEF Txn
  <2> HIDE DEF t
  <2>3. at' \in [Conns -> Labels] /\ at'[c] = "failed" /\ \A d \in Conns : d # c => at'[d] = at[d]
    BY <1>1, <2>1, GoEffects
  <2>4. /\ txns' \in [Conns -> [Tasks -> Txn]] /\ txns'[c][task[c]] = t
        /\ \A j \in Tasks : j # task[c] => txns'[c][j] = txns[c][j]
        /\ \A d \in Conns : d # c => txns'[d] = txns[d]
    BY <1>1, <2>1, <2>2, SetTxnEffects, SMTT(30)
  <2>5. OthersStay(c) /\ SessType'
    BY <1>2, <1>3, <2>3, <2>4 DEF OthersStay, SessInv, SessType
  <2>6. TxnInv(c)' /\ NamespaceInv(c)'
    BY <1>1, <1>3, <2>2, <2>3, <2>4 DEF TxnInv, NamespaceInv, TxnOf, Running, Tasks
  <2> QED
    BY <1>1, <1>3, <2>2, <2>3, <2>4, <2>5, <2>6, TxnMoves DEF TxnOf
<1> QED
  BY <1>5, <1>6, <1>7

\* The catalog is changed, under the lock.
LEMMA ChangeInv ==
    ASSUME SessInv, NEW c \in Conns, ChangeTable(c) \/ ChangeNamespace(c) PROVE SessInv'
<1>1. /\ at[c] = "change" /\ TxnInv(c) /\ task[c] \in Tasks /\ TxnOf(c) \in Txn
      /\ {"failed", "executed", "commit"} \subseteq Labels
  BY TxnTypes DEF ChangeTable, ChangeNamespace, Labels, Running
<1>2. /\ task' = task /\ state' = state /\ seenLock' = seenLock
      /\ writeLock' = writeLock /\ clock' = clock /\ ddlDone' = ddlDone
  BY DEF ChangeTable, ChangeNamespace
<1>3. CASE Go(c, "failed") /\ SetTxn(c, task[c], [TxnOf(c) EXCEPT !.must = TRUE])
  <2> DEFINE t == [TxnOf(c) EXCEPT !.must = TRUE]
  <2>1. /\ t \in Txn /\ (t.locked <=> TxnOf(c).locked) /\ (t.wrote => t.locked)
        /\ t.old = TxnOf(c).old /\ t.start = TxnOf(c).start /\ t.open
    BY <1>1 DEF Txn, TxnInv, TxnOf, Running
  <2>2. Go(c, "failed") /\ SetTxn(c, task[c], t)
    BY <1>3
  <2> HIDE DEF t
  <2> QED
    BY <1>1, <1>2, <2>1, <2>2, HandlerMoves
<1>4. ASSUME NEW l \in {"executed", "commit"}, l = "executed" <=> task[c] = "session",
             Go(c, l), SetTxn(c, task[c], [TxnOf(c) EXCEPT !.wrote = TRUE])
      PROVE  SessInv'
  <2> DEFINE t == [TxnOf(c) EXCEPT !.wrote = TRUE]
  <2>1. TxnOf(c).locked
    BY <1>1 DEF TxnInv
  <2>2. /\ t \in Txn /\ (t.locked <=> TxnOf(c).locked) /\ (t.wrote => t.locked) /\ ~t.must
        /\ t.old = TxnOf(c).old /\ t.start = TxnOf(c).start /\ t.open
    BY <1>1, <2>1 DEF Txn, TxnInv, TxnOf, Running
  <2>3. SetTxn(c, task[c], t)
    BY <1>4
  <2> HIDE DEF t
  <2> QED
    BY <1>1, <1>2, <1>4, <2>1, <2>2, <2>3, HandlerMoves
<1> QED
  BY <1>3, <1>4 DEF ChangeTable, ChangeNamespace

-----------------------------------------------------------------------------
(* Steps that take the lock, give it back, or end the transaction.         *)

\* Two handlers do not both hold the lock.
LEMMA OneHolder ==
    ASSUME SessInv, NEW c \in Conns, NEW j \in Tasks, Holds(c, j)
    PROVE  /\ writeLock = <<c, j>> /\ ~IsTime(writeLock)
           /\ \A d \in Conns, k \in Tasks : Holds(d, k) => d = c /\ k = j
<1>1. writeLock = <<c, j>>
  BY DEF SessInv, LockInv
<1>2. \A d \in Conns, k \in Tasks : Holds(d, k) => <<d, k>> = <<c, j>>
  BY <1>1 DEF SessInv, LockInv
<1> QED
  BY <1>1, <1>2, StampKinds

\* What steps of c leave of the other connections.
LEMMA OthersInv ==
    ASSUME SessInv, NEW c \in Conns, OthersStay(c), NEW d \in Conns, d # c
    PROVE  /\ TxnInv(d)' /\ NamespaceInv(d)'
           /\ \A k \in Tasks : Holds(d, k)' <=> Holds(d, k)
           /\ task'[d] = "drop" /\ state'[d] = "dropped" => ~txns'[d]["session"].locked
           /\ at'[d] = "cas" => IsTime(seenLock'[d]) /\ seenLock'[d][1] <= TxnOf(d)'.start
  BY SMTT(30) DEF OthersStay, SessInv, TxnInv, NamespaceInv, TxnOf, Holds, LockInv, SerialInv

\* The lock is taken, or was changed since it was loaded.
LEMMA LockCasInv == ASSUME SessInv, NEW c \in Conns, LockCas(c) PROVE SessInv'
<1>1. /\ at[c] = "cas" /\ TxnInv(c) /\ NamespaceInv(c) /\ task[c] \in Tasks /\ TxnOf(c) \in Txn
      /\ {"failed", "change"} \subseteq Labels /\ \A k \in Tasks : txns[c][k] \in Txn
  BY TxnTypes DEF LockCas, Labels, Running
<1>2. /\ task' = task /\ state' = state /\ seenLock' = seenLock
      /\ clock' = clock /\ ddlDone' = ddlDone
  BY DEF LockCas
<1>3. CASE writeLock # seenLock[c]
  <2> DEFINE t == [TxnOf(c) EXCEPT !.must = TRUE]
  <2>1. /\ t \in Txn /\ (t.locked <=> TxnOf(c).locked) /\ (t.wrote => t.locked)
        /\ t.old = TxnOf(c).old /\ t.start = TxnOf(c).start /\ t.open
    BY <1>1 DEF Txn, TxnInv, TxnOf, Running
  <2>2. Go(c, "failed") /\ SetTxn(c, task[c], t) /\ writeLock' = writeLock
    BY <1>3 DEF LockCas
  <2> HIDE DEF t
  <2> QED
    BY <1>1, <1>2, <2>1, <2>2, HandlerMoves
<1>4. CASE writeLock = seenLock[c]
  <2> DEFINE t == [TxnOf(c) EXCEPT !.locked = TRUE, !.old = seenLock[c]]
             k == task[c]
  <2>1. Go(c, "change") /\ SetTxn(c, k, t) /\ writeLock' = <<c, k>>
    BY <1>4 DEF LockCas, IdOf
  <2>2. /\ IsTime(writeLock) /\ writeLock \in Times /\ writeLock[1] \in Nat
        /\ writeLock[1] <= TxnOf(c).start /\ DoneBy(writeLock[1])
    BY <1>1, <1>4, StampKinds DEF SessInv, SessType, SerialInv
  <2>3. /\ t \in Txn /\ t.locked /\ t.old = writeLock /\ t.start = TxnOf(c).start /\ t.open /\ ~t.must
    BY <1>1, <1>4, <2>2 DEF Txn, TxnInv, TxnOf, Running
  <2> HIDE DEF t
  <2>4. at' \in [Conns -> Labels] /\ at'[c] = "change" /\ \A d \in Conns : d # c => at'[d] = at[d]
    BY <1>1, <2>1, GoEffects
  <2>5. /\ txns' \in [Conns -> [Tasks -> Txn]] /\ txns'[c][k] = t
        /\ \A j \in Tasks : j # k => txns'[c][j] = txns[c][j]
        /\ \A d \in Conns : d # c => txns'[d] = txns[d]
    BY <1>1, <2>1, <2>3, SetTxnEffects, SMTT(30)
  <2>6. OthersStay(c) /\ SessType' /\ ~IsTime(writeLock')
    BY <1>1, <1>2, <2>1, <2>4, <2>5, StampKinds DEF OthersStay, SessInv, SessType
  <2>7. TxnInv(c)' /\ NamespaceInv(c)'
    BY <1>1, <1>2, <2>3, <2>4, <2>5 DEF TxnInv, NamespaceInv, TxnOf, Running, Tasks
  <2>8. \A d \in Conns, j \in Tasks : ~Holds(d, j)
    BY <2>2, StampKinds DEF SessInv, LockInv
  <2>9. \A d \in Conns, j \in Tasks : Holds(d, j)' <=> d = c /\ j = k
    <3>1. \A j \in Tasks : Holds(c, j)' <=> j = k
      BY <1>1, <1>2, <2>3, <2>4, <2>5, <2>8 DEF Holds
    <3>2. \A d \in Conns, j \in Tasks : d # c => ~Holds(d, j)'
      BY <2>6, <2>8, OthersInv
    <3> QED
      BY <3>1, <3>2
  <2>10. LockInv'
    <3>1. state[c] # "dropped"
      BY <1>1 DEF NamespaceInv, Tasks
    <3> QED
      BY <1>1, <1>2, <2>1, <2>6, <2>9, <3>1, OthersInv DEF LockInv
  <2>11. DoneBy(txns[c][k].old[1])' /\ txns'[c][k].old[1] <= txns'[c][k].start
    <3>1. txns'[c][k].old[1] = writeLock[1] /\ txns'[c][k].start = TxnOf(c).start
      BY <2>3, <2>5
    <3> QED
      BY <1>2, <2>2, <3>1 DEF DoneBy
  <2>12. SerialInv'
    <3>1. CatalogChangesSerial' /\ DoneBy(clock)'
      BY <1>2 DEF SessInv, SerialInv, CatalogChangesSerial, DoneBy
    <3>2. \A d \in Conns : at'[d] = "cas" => IsTime(seenLock'[d]) /\ seenLock'[d][1] <= TxnOf(d)'.start
      BY <2>4, <2>6, OthersInv
    <3>3. ASSUME NEW d \in Conns, NEW j \in Tasks, Holds(d, j)'
          PROVE  (IF j = task[d] /\ at[d] = "unlock" THEN DoneBy(txns[d][j].finish)
                  ELSE DoneBy(txns[d][j].old[1]) /\ txns[d][j].old[1] <= txns[d][j].start)'
      <4>1. d = c /\ j = k
        BY <2>9, <3>3
      <4>2. at'[d] # "unlock"
        BY <2>4, <4>1
      <4>3. DoneBy(txns[d][j].old[1])' /\ txns'[d][j].old[1] <= txns'[d][j].start
        BY <1>2, <2>11, <4>1
      <4> QED
        BY <4>2, <4>3
    <3> QED
      BY <2>6, <3>1, <3>2, <3>3 DEF SerialInv
  <2> QED
    BY <2>6, <2>7, <2>10, <2>12, OthersInv DEF SessInv
<1> QED
  BY <1>3, <1>4

\* A transaction commits.  If it changed the catalog it holds the lock: all earlier changes
\* were committed when it began, and no other is committed before it gives the lock back.
LEMMA CommitTxnInv == ASSUME SessInv, NEW c \in Conns, CommitTxn(c) PROVE SessInv'
<1> DEFINE now == IF TxnOf(c).wrote THEN clock + 1 ELSE clock
           t == [TxnOf(c) EXCEPT !.finish = now]
<1>1. /\ at[c] = "commit" /\ TxnInv(c) /\ NamespaceInv(c) /\ task[c] \in Tasks /\ TxnOf(c) \in Txn
      /\ "unlock" \in Labels /\ \A k \in Tasks : txns[c][k] \in Txn
      /\ state[c] \in {"none", "live", "dropped"}
  BY TxnTypes DEF CommitTxn, Labels, Running
<1>2. now \in Nat /\ clock <= now /\ clock \in Nat
  BY SMTT(30) DEF SessInv, SessType
<1>3. /\ Go(c, "unlock") /\ SetTxn(c, task[c], t) /\ clock' = now
      /\ task' = task /\ seenLock' = seenLock /\ writeLock' = writeLock
  BY DEF CommitTxn
<1>4. /\ t \in Txn /\ (t.locked <=> TxnOf(c).locked) /\ (t.wrote <=> TxnOf(c).wrote) /\ t.finish = now
      /\ t.old = TxnOf(c).old /\ t.start = TxnOf(c).start /\ (t.open <=> TxnOf(c).open)
  <2> HIDE DEF now
  <2> QED
    BY <1>1, <1>2 DEF Txn
<1>5. /\ TxnOf(c).wrote => ddlDone' = ddlDone \cup {[start |-> TxnOf(c).start, commit |-> now]}
      /\ ~TxnOf(c).wrote => ddlDone' = ddlDone
  BY DEF CommitTxn
<1> HIDE DEF now, t
<1>6. at' \in [Conns -> Labels] /\ at'[c] = "unlock" /\ \A d \in Conns : d # c => at'[d] = at[d]
  BY <1>1, <1>3, GoEffects
<1>7. /\ txns' \in [Conns -> [Tasks -> Txn]] /\ txns'[c][task[c]] = t
      /\ \A j \in Tasks : j # task[c] => txns'[c][j] = txns[c][j]
      /\ \A d \in Conns : d # c => txns'[d] = txns[d]
  BY <1>1, <1>3, <1>4, SetTxnEffects, SMTT(30)
<1>8. /\ state' \in [Conns -> {"none", "live", "dropped"}]
      /\ state'[c] = IF task[c] = "create" THEN "live" ELSE IF task[c] = "drop" THEN "dropped" ELSE state[c]
      /\ \A d \in Conns : d # c => state'[d] = state[d]
  BY <1>1 DEF CommitTxn, SessInv, SessType, Tasks
<1>9. TxnOf(c).start \in Nat
  BY <1>1 DEF Txn
<1>10. ddlDone' \subseteq [start : Nat, commit : Nat]
  BY <1>2, <1>5, <1>9, SMTT(30) DEF SessInv, SessType
<1>11. OthersStay(c) /\ SessType'
  BY <1>2, <1>3, <1>6, <1>7, <1>8, <1>10 DEF OthersStay, SessInv, SessType
<1>12. TxnInv(c)'
  BY <1>1, <1>3, <1>4, <1>6, <1>7 DEF TxnInv, TxnOf, Running, Tasks
<1>13. NamespaceInv(c)'
  BY <1>1, <1>3, <1>6, <1>8 DEF NamespaceInv, Tasks
<1>14. \A d \in Conns, k \in Tasks : Holds(d, k)' <=> Holds(d, k)
  <2>1. \A k \in Tasks : Holds(c, k)' <=> Holds(c, k)
    BY <1>1, <1>3, <1>4, <1>6, <1>7 DEF Holds, TxnOf
  <2> QED
    BY <1>11, <2>1, OthersInv
<1>15. TxnOf(c).wrote => Holds(c, task[c])
  BY <1>1 DEF TxnInv, Holds, TxnOf
<1>16. LockInv'
  <2>1. ASSUME task'[c] = "drop", state'[c] = "dropped" PROVE ~txns'[c]["session"].locked
    <3>1. task[c] = "drop" /\ Holds(c, "drop") /\ {"drop", "session"} \subseteq Tasks
      BY <1>1, <1>3, <2>1 DEF TxnInv, Holds, TxnOf, Tasks
    <3>2. ~Holds(c, "session")
      BY <3>1, OneHolder
    <3> QED
      BY <1>7, <3>1, <3>2 DEF Holds
  <2> QED
    BY <1>3, <1>11, <1>14, <2>1, OthersInv DEF SessInv, LockInv
<1>17. DoneBy(clock)'
  <2>1. \A d \in ddlDone : d.commit \in Nat /\ d.commit <= clock
    BY DEF SessInv, SessType, SerialInv, DoneBy
  <2>2. \A d \in ddlDone' : d.commit <= clock'
    BY <1>2, <1>3, <1>5, <2>1, SMTT(30)
  <2> QED
    BY <2>2 DEF DoneBy
<1>18. CatalogChangesSerial'
  <2>1. CASE TxnOf(c).wrote
    <3>1. DoneBy(TxnOf(c).old[1]) /\ TxnOf(c).old[1] <= TxnOf(c).start /\ TxnOf(c).old[1] \in Nat
      BY <1>1, <1>15, <2>1, StampKinds DEF SessInv, SerialInv, TxnOf, Txn
    <3>2. \A d \in ddlDone : d.commit \in Nat /\ d.commit <= TxnOf(c).start
      BY <1>9, <3>1, SMTT(30) DEF DoneBy, SessInv, SessType
    <3> DEFINE e == [start |-> TxnOf(c).start, commit |-> now]
    <3>3. e.start = TxnOf(c).start /\ ddlDone' = ddlDone \cup {e}
      BY <1>5, <2>1
    <3> HIDE DEF e
    <3>4. CatalogChangesSerial
      BY DEF SessInv, SerialInv
    <3> QED
      BY <3>2, <3>3, <3>4 DEF CatalogChangesSerial
  <2>2. CASE ~TxnOf(c).wrote
    BY <1>5, <2>2 DEF CatalogChangesSerial, SessInv, SerialInv
  <2> QED
    BY <2>1, <2>2
<1>19. (IsTime(writeLock) => DoneBy(writeLock[1]))'
  <2>1. CASE TxnOf(c).wrote
    BY <1>1, <1>3, <1>15, <2>1, OneHolder
  <2>2. CASE ~TxnOf(c).wrote
    BY <1>3, <1>5, <2>2 DEF SessInv, SerialInv, DoneBy
  <2> QED
    BY <2>1, <2>2
<1>20. ASSUME NEW d \in Conns, NEW k \in Tasks, Holds(d, k)'
       PROVE  (IF k = task[d] /\ at[d] = "unlock" THEN DoneBy(txns[d][k].finish)
               ELSE DoneBy(txns[d][k].old[1]) /\ txns[d][k].old[1] <= txns[d][k].start)'
  <2>1. CASE d = c /\ k = task[c]
    <3>1. k = task'[d] /\ at'[d] = "unlock" /\ txns'[d][k].finish = clock'
      BY <1>3, <1>4, <1>6, <1>7, <2>1
    <3> QED
      BY <1>3, <1>17, <3>1 DEF DoneBy
  <2>2. CASE ~(d = c /\ k = task[c])
    <3>1. Holds(d, k) /\ ddlDone' = ddlDone
      BY <1>1, <1>5, <1>14, <1>15, <1>20, <2>2, OneHolder, SMTT(30)
    <3>2. txns'[d][k] = txns[d][k] /\ task'[d] = task[d]
      BY <1>3, <1>7, <2>2
    <3>3. k = task'[d] /\ at'[d] = "unlock" <=> k = task[d] /\ at[d] = "unlock"
      BY <1>3, <1>6, <2>2
    <3> QED
      BY <3>1, <3>2, <3>3 DEF SessInv, SerialInv, DoneBy
  <2> QED
    BY <2>1, <2>2
<1>21. \A d \in Conns : at'[d] = "cas" => IsTime(seenLock'[d]) /\ seenLock'[d][1] <= TxnOf(d)'.start
  BY <1>6, <1>11, OthersInv
<1>22. SerialInv'
  BY <1>17, <1>18, <1>19, <1>20, <1>21 DEF SerialInv
<1> QED
  BY <1>11, <1>12, <1>13, <1>16, <1>22, OthersInv DEF SessInv

\* When no change is committed and nobody takes the lock, changes stay serial.
LEMMA SerialKept ==
    ASSUME SessInv, NEW c \in Conns, OthersStay(c), SessType', ddlDone' = ddlDone, clock <= clock',
           task' = task, at'[c] \notin {"cas", "unlock"},
           \A k \in Tasks : Holds(c, k)' => /\ Holds(c, k) /\ txns'[c][k] = txns[c][k]
                                            /\ ~(k = task[c] /\ at[c] = "unlock"),
           (IsTime(writeLock) => DoneBy(writeLock[1]))'
    PROVE  SerialInv'
<1>1. CatalogChangesSerial'
  BY DEF SessInv, SerialInv, CatalogChangesSerial
<1>2. DoneBy(clock)'
  <2>1. \A d \in ddlDone : d.commit \in Nat /\ d.commit <= clock /\ clock \in Nat /\ clock' \in Nat
    BY DEF SessInv, SessType, SerialInv, DoneBy
  <2> QED
    BY <2>1, SMTT(30) DEF DoneBy
<1>3. \A d \in Conns : at'[d] = "cas" => IsTime(seenLock'[d]) /\ seenLock'[d][1] <= TxnOf(d)'.start
  BY OthersInv
<1>4. ASSUME NEW d \in Conns, NEW k \in Tasks, Holds(d, k)'
      PROVE  (IF k = task[d] /\ at[d] = "unlock" THEN DoneBy(txns[d][k].finish)
              ELSE DoneBy(txns[d][k].old[1]) /\ txns[d][k].old[1] <= txns[d][k].start)'
  <2>1. Holds(d, k) /\ txns'[d][k] = txns[d][k]
    BY <1>4, OthersInv DEF OthersStay
  <2>2. k = task'[d] /\ at'[d] = "unlock" <=> k = task[d] /\ at[d] = "unlock"
    BY <1>4 DEF OthersStay
  <2> QED
    BY <2>1, <2>2 DEF SessInv, SerialInv, DoneBy
<1> QED
  BY <1>1, <1>2, <1>3, <1>4 DEF SerialInv

\* The lock gets the commit time, by which everything was committed.
LEMMA CommitActionsInv == ASSUME SessInv, NEW c \in Conns, CommitActions(c) PROVE SessInv'
<1>1. /\ at[c] = "unlock" /\ TxnInv(c) /\ NamespaceInv(c) /\ task[c] \in Tasks /\ TxnOf(c) \in Txn
      /\ "ended" \in Labels /\ NoTxn \in Txn
  BY TxnTypes DEF CommitActions, Labels
<1>2. /\ Go(c, "ended") /\ SetTxn(c, task[c], NoTxn)
      /\ task' = task /\ state' = state /\ seenLock' = seenLock /\ clock' = clock /\ ddlDone' = ddlDone
      /\ writeLock' = IF TxnOf(c).locked THEN <<TxnOf(c).finish>> ELSE writeLock
  BY DEF CommitActions
<1>3. ~NoTxn.open /\ ~NoTxn.locked /\ ~NoTxn.wrote
  BY DEF NoTxn
<1>4. at' \in [Conns -> Labels] /\ at'[c] = "ended" /\ \A d \in Conns : d # c => at'[d] = at[d]
  BY <1>1, <1>2, GoEffects
<1>5. /\ txns' \in [Conns -> [Tasks -> Txn]] /\ txns'[c][task[c]] = NoTxn
      /\ \A j \in Tasks : j # task[c] => txns'[c][j] = txns[c][j]
      /\ \A d \in Conns : d # c => txns'[d] = txns[d]
  BY <1>1, <1>2, SetTxnEffects
<1>6. TxnOf(c).finish \in Nat /\ <<TxnOf(c).finish>> \in Times /\ <<TxnOf(c).finish>>[1] = TxnOf(c).finish
  BY <1>1 DEF Txn, Times
<1>7. OthersStay(c) /\ SessType'
  BY <1>2, <1>4, <1>5, <1>6 DEF OthersStay, SessInv, SessType, Stamps
<1>8. TxnInv(c)' /\ NamespaceInv(c)'
  BY <1>1, <1>2, <1>3, <1>4, <1>5 DEF TxnInv, NamespaceInv, TxnOf, Running, Tasks
<1>9. \A k \in Tasks : Holds(c, k)' <=> Holds(c, k) /\ k # task[c]
  BY <1>2, <1>3, <1>4, <1>5 DEF Holds
<1>10. LockInv' /\ (IsTime(writeLock) => DoneBy(writeLock[1]))'
  <2>1. task'[c] = "drop" /\ state'[c] = "dropped" => ~txns'[c]["session"].locked
    BY <1>2, <1>5 DEF SessInv, LockInv, Tasks
  <2>2. CASE TxnOf(c).locked
    <3>1. Holds(c, task[c])
      BY <1>1, <2>2 DEF Holds, TxnOf
    <3>2. ASSUME NEW d \in Conns, NEW k \in Tasks PROVE ~Holds(d, k)'
      <4>1. Holds(d, k) => d = c /\ k = task[c]
        BY <1>1, <3>1, OneHolder
      <4>2. CASE d = c
        BY <1>9, <4>1, <4>2
      <4>3. CASE d # c
        BY <1>7, <4>1, <4>3, OthersInv
      <4> QED
        BY <4>2, <4>3
    <3>3. writeLock' \in Times /\ writeLock'[1] = TxnOf(c).finish
      BY <1>2, <1>6, <2>2
    <3>4. \A d \in Conns, k \in Tasks : writeLock' # <<d, k>>
      BY <3>3, StampKinds
    <3>5. DoneBy(TxnOf(c).finish)
      BY <1>1, <3>1 DEF SessInv, SerialInv, TxnOf
    <3> QED
      BY <1>2, <1>7, <2>1, <3>2, <3>3, <3>4, <3>5, OthersInv DEF LockInv, DoneBy
  <2>3. CASE ~TxnOf(c).locked
    <3>1. ASSUME NEW d \in Conns, NEW k \in Tasks PROVE Holds(d, k)' <=> Holds(d, k)
      <4>1. ~Holds(c, task[c])
        BY <2>3 DEF Holds, TxnOf
      <4>2. CASE d = c
        BY <1>9, <4>1, <4>2
      <4>3. CASE d # c
        BY <1>7, <4>3, OthersInv
      <4> QED
        BY <4>2, <4>3
    <3> QED
      BY <1>2, <1>7, <2>1, <2>3, <3>1, OthersInv DEF SessInv, LockInv, SerialInv, DoneBy
  <2> QED
    BY <2>2, <2>3
<1>11. SerialInv'
  <2>1. clock <= clock'
    BY <1>2, SMTT(30) DEF SessInv, SessType
  <2> QED
    BY <1>2, <1>4, <1>5, <1>7, <1>9, <1>10, <2>1, SerialKept
<1> QED
  BY <1>7, <1>8, <1>10, <1>11, OthersInv DEF SessInv

\* The lock gets its old value back, which no change is newer than.
LEMMA AbortActionsInv == ASSUME SessInv, NEW c \in Conns, AbortActions(c) PROVE SessInv'
<1>1. /\ at[c] = "abort" /\ TxnInv(c) /\ NamespaceInv(c) /\ task[c] \in Tasks /\ TxnOf(c) \in Txn
      /\ "rollback" \in Labels
  BY TxnTypes DEF AbortActions, Labels, Running
<1>2. /\ Go(c, "rollback") /\ task' = task /\ txns' = txns
      /\ state' = state /\ seenLock' = seenLock /\ clock' = clock /\ ddlDone' = ddlDone
      /\ writeLock' = IF TxnOf(c).locked THEN TxnOf(c).old ELSE writeLock
  BY DEF AbortActions
<1>3. at' \in [Conns -> Labels] /\ at'[c] = "rollback" /\ \A d \in Conns : d # c => at'[d] = at[d]
  BY <1>1, <1>2, GoEffects
<1>4. TxnOf(c).old \in Times
  BY <1>1 DEF Txn
<1>5. OthersStay(c) /\ SessType'
  BY <1>2, <1>3, <1>4 DEF OthersStay, SessInv, SessType, Stamps
<1>6. TxnInv(c)' /\ NamespaceInv(c)'
  BY <1>1, <1>2, <1>3 DEF TxnInv, NamespaceInv, TxnOf, Running, Tasks
<1>7. \A k \in Tasks : Holds(c, k)' <=> Holds(c, k) /\ k # task[c]
  BY <1>1, <1>2, <1>3 DEF Holds
<1>8. LockInv' /\ (IsTime(writeLock) => DoneBy(writeLock[1]))'
  <2>1. task'[c] = "drop" /\ state'[c] = "dropped" => ~txns'[c]["session"].locked
    BY <1>2 DEF SessInv, LockInv
  <2>2. CASE TxnOf(c).locked
    <3>1. Holds(c, task[c])
      BY <1>1, <2>2 DEF Holds, TxnOf
    <3>2. ASSUME NEW d \in Conns, NEW k \in Tasks PROVE ~Holds(d, k)'
      <4>1. Holds(d, k) => d = c /\ k = task[c]
        BY <1>1, <3>1, OneHolder
      <4>2. CASE d = c
        BY <1>7, <4>1, <4>2
      <4>3. CASE d # c
        BY <1>5, <4>1, <4>3, OthersInv
      <4> QED
        BY <4>2, <4>3
    <3>3. writeLock' \in Times /\ writeLock' = TxnOf(c).old
      BY <1>2, <1>4, <2>2
    <3>4. \A d \in Conns, k \in Tasks : writeLock' # <<d, k>>
      BY <3>3, StampKinds
    <3>5. DoneBy(TxnOf(c).old[1])
      BY <1>1, <3>1 DEF SessInv, SerialInv, TxnOf
    <3> QED
      BY <1>2, <1>5, <2>1, <3>2, <3>3, <3>4, <3>5, OthersInv DEF LockInv, DoneBy
  <2>3. CASE ~TxnOf(c).locked
    <3>1. ASSUME NEW d \in Conns, NEW k \in Tasks PROVE Holds(d, k)' <=> Holds(d, k)
      <4>1. ~Holds(c, task[c])
        BY <2>3 DEF Holds, TxnOf
      <4>2. CASE d = c
        BY <1>7, <4>1, <4>2
      <4>3. CASE d # c
        BY <1>5, <4>3, OthersInv
      <4> QED
        BY <4>2, <4>3
    <3> QED
      BY <1>2, <1>5, <2>1, <2>3, <3>1, OthersInv DEF SessInv, LockInv, SerialInv, DoneBy
  <2> QED
    BY <2>2, <2>3
<1>9. SerialInv'
  <2>1. clock <= clock'
    BY <1>2, SMTT(30) DEF SessInv, SessType
  <2> QED
    BY <1>2, <1>3, <1>5, <1>7, <1>8, <2>1, SerialKept
<1> QED
  BY <1>5, <1>6, <1>8, <1>9, OthersInv DEF SessInv

\* The rest of the abort: the transaction has no lock any more.
LEMMA AbortTxnInv == ASSUME SessInv, NEW c \in Conns, AbortTxn(c) PROVE SessInv'
<1>1. /\ at[c] = "rollback" /\ TxnInv(c) /\ NamespaceInv(c) /\ task[c] \in Tasks /\ TxnOf(c) \in Txn
      /\ "ended" \in Labels /\ NoTxn \in Txn
  BY TxnTypes DEF AbortTxn, Labels
<1>2. /\ Go(c, "ended") /\ SetTxn(c, task[c], NoTxn) /\ task' = task /\ state' = state
      /\ seenLock' = seenLock /\ writeLock' = writeLock /\ ddlDone' = ddlDone
      /\ clock' \in Nat /\ clock <= clock'
  BY SMTT(30) DEF AbortTxn, SessInv, SessType
<1>3. ~NoTxn.open /\ ~NoTxn.locked /\ ~NoTxn.wrote
  BY DEF NoTxn
<1>4. at' \in [Conns -> Labels] /\ at'[c] = "ended" /\ \A d \in Conns : d # c => at'[d] = at[d]
  BY <1>1, <1>2, GoEffects
<1>5. /\ txns' \in [Conns -> [Tasks -> Txn]] /\ txns'[c][task[c]] = NoTxn
      /\ \A j \in Tasks : j # task[c] => txns'[c][j] = txns[c][j]
      /\ \A d \in Conns : d # c => txns'[d] = txns[d]
  BY <1>1, <1>2, SetTxnEffects, SMTT(30)
<1>6. OthersStay(c) /\ SessType'
  BY <1>2, <1>4, <1>5 DEF OthersStay, SessInv, SessType
<1>7. TxnInv(c)' /\ NamespaceInv(c)'
  BY <1>1, <1>2, <1>3, <1>4, <1>5 DEF TxnInv, NamespaceInv, TxnOf, Running, Tasks
<1>8. \A k \in Tasks : /\ Holds(c, k)' <=> Holds(c, k)
                       /\ Holds(c, k)' => txns'[c][k] = txns[c][k]
  BY <1>1, <1>2, <1>3, <1>4, <1>5 DEF Holds
<1>9. task'[c] = "drop" /\ state'[c] = "dropped" => ~txns'[c]["session"].locked
  BY <1>2, <1>5 DEF SessInv, LockInv, Tasks
<1>10. LockInv'
  BY <1>2, <1>6, <1>8, <1>9, OthersInv DEF SessInv, LockInv
<1>11. (IsTime(writeLock) => DoneBy(writeLock[1]))'
  BY <1>2 DEF SessInv, SerialInv, DoneBy
<1>12. SerialInv'
  BY <1>1, <1>2, <1>4, <1>6, <1>8, <1>11, SerialKept
<1> QED
  BY <1>6, <1>7, <1>10, <1>12, OthersInv DEF SessInv

-----------------------------------------------------------------------------
(* The invariant, and what follows from it.                                *)

\* The invariant holds before the first connection.
LEMMA SessInitInv == SInit => SessInv
<1> SUFFICES ASSUME SInit PROVE SessInv
  OBVIOUS
<1>1. <<0>> \in Times /\ <<0>> \in Stamps /\ <<0>>[1] = 0
  BY DEF Times, Stamps
<1>2. NoTxn \in Txn /\ ~NoTxn.open /\ ~NoTxn.locked /\ ~NoTxn.wrote
  BY <1>1 DEF NoTxn, Txn
<1>3. \A c \in Conns : /\ at[c] = "new" /\ task[c] = "create" /\ state[c] = "none"
                       /\ \A k \in Tasks : txns[c][k] = NoTxn
  BY DEF SInit
<1>4. SessType
  BY <1>1, <1>2 DEF SInit, SessType, Labels, Tasks
<1>5. \A c \in Conns : TxnInv(c) /\ NamespaceInv(c)
  BY <1>2, <1>3 DEF TxnInv, NamespaceInv, TxnOf, Running, Tasks
<1>6. LockInv
  <2>1. \A c \in Conns, k \in Tasks : ~Holds(c, k) /\ writeLock # <<c, k>>
    BY <1>1, <1>2, <1>3, StampKinds DEF Holds, SInit
  <2> QED
    BY <1>3, <2>1 DEF LockInv
<1>7. SerialInv
  BY <1>2, <1>3 DEF SInit, SerialInv, Holds, DoneBy, CatalogChangesSerial
<1> QED
  BY <1>4, <1>5, <1>6, <1>7 DEF SessInv

\* Every step of a client or of a handler keeps the invariant.
LEMMA SessStepInv == ASSUME SessInv, [SNext]_sessVars PROVE SessInv'
<1>1. ASSUME NEW c \in Conns, ClientStep(c) PROVE SessInv'
  BY <1>1, StartupPacketInv, StartupRefusedInv, SyntaxErrorInv, BeginStatementInv, EndStatementInv, QueryInv,
     CloseConnectionInv DEF ClientStep
<1>2. ASSUME NEW c \in Conns, HandlerStep(c) PROVE SessInv'
  BY <1>2, CreateFailedInv, CreateSucceededInv, LockLoadInv, LockCasInv, ChangeInv, ChangeFailedInv, CommitTxnInv,
     CommitActionsInv, AbortActionsInv, AbortTxnInv, StatementExecutedInv, TransactionEndedInv, DropEndedInv, SMTT(30) DEF HandlerStep
<1>3. CASE UNCHANGED sessVars
  <2>1. /\ at' = at /\ task' = task /\ txns' = txns /\ state' = state /\ seenLock' = seenLock
        /\ writeLock' = writeLock /\ clock' = clock /\ ddlDone' = ddlDone
    BY <1>3 DEF sessVars
  <2>2. SessType' /\ \A c \in Conns : TxnInv(c)' /\ NamespaceInv(c)'
    BY <2>1, SMTT(30) DEF SessInv, SessType, TxnInv, NamespaceInv, TxnOf
  <2>3. LockInv'
    BY <2>1 DEF SessInv, LockInv, Holds
  <2>4. SerialInv'
    BY <2>1 DEF SessInv, SerialInv, Holds, DoneBy, CatalogChangesSerial, TxnOf
  <2> QED
    BY <2>2, <2>3, <2>4 DEF SessInv
<1> QED
  BY <1>1, <1>2, <1>3 DEF SNext

\* The invariant of the sessions and of the lock on catalog changes.
THEOREM SessionInvariant == SSpec => []SessInv
<1>1. SInit => SessInv
  BY SessInitInv
<1>2. SessInv /\ [SNext]_sessVars => SessInv'
  BY SessStepInv
<1> QED
  BY <1>1, <1>2, PTL DEF SSpec

\* DatabaseCatalog::TryLock, with the commit and abort actions that it registers, makes
\* changes of the catalog serial, and no transaction that has ended keeps the lock, in
\* whatever order handler threads load it, take it, commit and abort.
THEOREM CatalogIsLocked == SSpec => []CatalogLocked
<1>1. SessInv => CatalogLocked
  <2> SUFFICES ASSUME SessInv PROVE CatalogLocked
    OBVIOUS
  <2>1. ASSUME ~IsTime(writeLock)
        PROVE  txns[writeLock[1]][writeLock[2]].open /\ at[writeLock[1]] # "gone"
    <3>1. PICK c \in Conns, k \in Tasks : writeLock = <<c, k>>
      BY <2>1, StampKinds, SMTT(30) DEF SessInv, SessType, Stamps
    <3>2. writeLock[1] = c /\ writeLock[2] = k
      BY <3>1
    <3>3. txns[c][k].locked /\ TxnInv(c) /\ NamespaceInv(c) /\ task[c] \in Tasks
      BY <3>1 DEF SessInv, LockInv, Holds, SessType
    <3>4. txns[c][k].open
      BY <3>3 DEF TxnInv
    <3>5. at[c] # "gone"
      <4> SUFFICES ASSUME at[c] = "gone" PROVE FALSE
        OBVIOUS
      <4>1. k = "session"
        BY <3>3, <3>4 DEF TxnInv, Running, Tasks
      <4> QED
        BY <3>3, <3>4, <4>1 DEF TxnInv, NamespaceInv, Tasks, SessInv, LockInv
    <3> QED
      BY <3>2, <3>4, <3>5
  <2> QED
    BY <2>1 DEF CatalogLocked, LockHasHolder, SessInv, SerialInv
<1> QED
  BY <1>1, SessionInvariant, PTL

\* The network commands and the traffic cop never commit a transaction that must abort: the
\* assertion of TransactionManager::Commit holds for whatever clients send.
THEOREM FailedNeverCommitted == SSpec => []NeverCommitsMustAbort
<1>1. SessInv => NeverCommitsMustAbort
  BY DEF SessInv, TxnInv, NeverCommitsMustAbort
<1> QED
  BY <1>1, SessionInvariant, PTL

\* A connection that is gone has no temporary namespace, and if clients end the transaction
\* blocks that they open, no transaction either, so that the assertion of ~TimestampManager
\* holds at shutdown.
THEOREM NothingLeftBehind == ASSUME Orderly PROVE SSpec => []SessionsLeaveNothing
<1>1. SessInv => SessionsLeaveNothing
  <2> SUFFICES ASSUME SessInv PROVE SessionsLeaveNothing
    OBVIOUS
  <2>1. \A c \in Conns : TxnInv(c) /\ NamespaceInv(c) /\ task[c] \in Tasks
    BY DEF SessInv, SessType
  <2>2. NamespaceLifetime
    BY <2>1 DEF NamespaceLifetime, NamespaceInv, Tasks
  <2>3. ASSUME NEW c \in Conns, at[c] = "gone", NEW k \in Tasks PROVE ~txns[c][k].open
    BY <2>1, <2>3 DEF TxnInv, NamespaceInv, Running, Tasks
  <2> QED
    BY <2>2, <2>3 DEF SessionsLeaveNothing, NoneRunningAtShutdown
<1> QED
  BY <1>1, SessionInvariant, PTL

-----------------------------------------------------------------------------
(* ServerLifecycle.                                                        *)

InSeq(x, q) == \E i \in 1 .. Len(q) : q[i] = x

LifeType ==
    /\ registered \in SUBSET AllTasks /\ deleted \in SUBSET AllTasks
    /\ thread \in [AllTasks -> {"none", "started", "loop", "exited"}]
    /\ handlerTasks \in Seq(HandlerTasks) /\ toStop \in Seq(HandlerTasks) /\ toTear \in SUBSET AllTasks

\* The dispatcher has registered the handlers 1 .. Len(handlerTasks), and all of them when
\* it is in its event loop.
Registers ==
    /\ mainAt = "start" => thread[Dispatcher] = "none"
    /\ thread[Dispatcher] \in {"loop", "exited"} => Len(handlerTasks) = NumTasks
    /\ \A i \in 1 .. Len(handlerTasks) : handlerTasks[i] = i
    /\ \A t \in HandlerTasks : t > Len(handlerTasks) => thread[t] = "none"
    /\ mainAt \in {"terminate", "handlers", "stopped"} => thread[Dispatcher] \in {"loop", "exited"}

\* Terminate has still to stop a handler, or its thread has ended.
Ends(t) == thread[t] = "exited" /\ t \notin registered
Stops ==
    /\ mainAt = "handlers" => \A t \in HandlerTasks : InSeq(t, toStop) \/ Ends(t)
    /\ mainAt = "stopped" => \A t \in AllTasks : Ends(t)

LifeInv == LifeType /\ Registers /\ Stops /\ DeletedAfterExit

LEMMA ThreadTasks ==
    /\ NumTasks \in Nat /\ Dispatcher \in AllTasks /\ Dispatcher \notin HandlerTasks
    /\ HandlerTasks \subseteq AllTasks /\ AllTasks = HandlerTasks \cup {Dispatcher}
    /\ \A t \in HandlerTasks : t \in Nat /\ t <= NumTasks
  BY LAssumption, SMTT(30) DEF AllTasks, HandlerTasks, Dispatcher

LEMMA ThreadEffect ==
    ASSUME LifeType, NEW t \in AllTasks, NEW x \in {"none", "started", "loop", "exited"},
           thread' = [thread EXCEPT ![t] = x]
    PROVE  /\ thread' \in [AllTasks -> {"none", "started", "loop", "exited"}]
           /\ thread'[t] = x /\ \A u \in AllTasks : u # t => thread'[u] = thread[u]
  BY DEF LifeType

\* A task that StopServer waits for is at the front of the list.
LEMMA InSeqTail ==
    ASSUME NEW S, NEW q \in Seq(S), q # <<>>, NEW x
    PROVE  /\ Head(q) \in S /\ Tail(q) \in Seq(S)
           /\ InSeq(x, q) => x = Head(q) \/ InSeq(x, Tail(q))
<1>1. Head(q) \in S /\ Tail(q) \in Seq(S)
  BY SMTT(30)
<1>2. ASSUME NEW i \in 1 .. Len(q) PROVE q[i] = Head(q) \/ InSeq(q[i], Tail(q))
  <2>1. CASE i = 1
    BY <2>1, SMTT(30)
  <2>2. CASE i # 1
    <3>1. i - 1 \in 1 .. Len(Tail(q)) /\ Tail(q)[i - 1] = q[i]
      BY <2>2, SMTT(30)
    <3> QED BY <3>1 DEF InSeq
  <2> QED BY <2>1, <2>2
<1> QED BY <1>1, <1>2 DEF InSeq

\* No thread begins or ends.
LEMMA LifeSame ==
    ASSUME LifeInv, thread' = thread, handlerTasks' = handlerTasks,
           deleted' \in SUBSET AllTasks, \A t \in deleted' : thread[t] = "exited",
           registered' \subseteq registered, toTear' \in SUBSET AllTasks,
           mainAt' # "start",
           \/ mainAt' = mainAt /\ toStop' = toStop
           \/ mainAt' \notin {"terminate", "handlers", "stopped"} /\ toStop' \in Seq(HandlerTasks)
    PROVE  LifeInv'
<1> USE DEF LifeInv
<1>1. LifeType'
  BY DEF LifeType
<1>2. Registers'
  BY DEF Registers
<1>3. Stops'
  BY DEF Stops, Ends
<1>4. DeletedAfterExit'
  BY DEF DeletedAfterExit
<1> QED BY <1>1, <1>2, <1>3, <1>4

LEMMA LifeInitInv == LInit => LifeInv
<1> SUFFICES ASSUME LInit PROVE LifeInv
  OBVIOUS
<1>1. LifeType
  <2>1. <<>> \in Seq(HandlerTasks)
    BY SMTT(30)
  <2> QED BY <2>1 DEF LInit, LifeType
<1>2. Registers
  <2>1. 1 .. Len(<<>>) = {}
    BY SMTT(30)
  <2> QED BY <2>1, ThreadTasks DEF LInit, Registers
<1> QED BY <1>1, <1>2 DEF LInit, LifeInv, Stops, DeletedAfterExit

LEMMA LifeStart ==
    ASSUME LifeInv, RunServer
    PROVE  LifeInv'
<1>1. /\ mainAt = "start" /\ mainAt' = "up" /\ registered' = registered \cup {Dispatcher}
      /\ thread' = [thread EXCEPT ![Dispatcher] = "started"]
      /\ UNCHANGED <<exitAsked, deleted, handlerTasks, toStop, toTear>>
  BY DEF RunServer, Register
<1>2. /\ thread' \in [AllTasks -> {"none", "started", "loop", "exited"}]
      /\ thread'[Dispatcher] = "started" /\ \A u \in AllTasks : u # Dispatcher => thread'[u] = thread[u]
  BY <1>1, ThreadTasks, ThreadEffect DEF LifeInv
<1>3. LifeType'
  BY <1>1, <1>2, ThreadTasks DEF LifeInv, LifeType
<1>4. Registers'
  <2>1. \A t \in HandlerTasks : thread'[t] = thread[t]
    BY <1>2, ThreadTasks
  <2> QED BY <1>1, <1>2, <2>1 DEF LifeInv, Registers
<1>5. DeletedAfterExit'
  <2>1. thread[Dispatcher] = "none"
    BY <1>1 DEF LifeInv, Registers
  <2> QED BY <1>1, <1>2, <2>1 DEF LifeInv, LifeType, DeletedAfterExit
<1> QED BY <1>1, <1>3, <1>4, <1>5 DEF LifeInv, Stops

LEMMA LifeRegister ==
    ASSUME LifeInv, RegisterHandler
    PROVE  LifeInv'
<1> DEFINE t == Len(handlerTasks) + 1
<1>1. /\ thread[Dispatcher] = "started" /\ Len(handlerTasks) < NumTasks
      /\ registered' = registered \cup {t} /\ thread' = [thread EXCEPT ![t] = "started"]
      /\ handlerTasks' = Append(handlerTasks, t)
      /\ deleted' = deleted /\ mainAt' = mainAt /\ toStop' = toStop /\ toTear' = toTear
  BY DEF RegisterHandler, Register
<1>2. handlerTasks \in Seq(HandlerTasks)
  BY DEF LifeInv, LifeType
<1>3. /\ t \in HandlerTasks /\ t > Len(handlerTasks) /\ Len(handlerTasks) \in Nat
      /\ t # Dispatcher
  BY <1>1, <1>2, ThreadTasks, SMTT(30) DEF HandlerTasks
<1>4. /\ handlerTasks' \in Seq(HandlerTasks) /\ Len(handlerTasks') = t
      /\ \A i \in 1 .. t : handlerTasks'[i] = IF i = t THEN t ELSE handlerTasks[i]
  BY <1>1, <1>2, <1>3, SMTT(30)
<1>5. thread[t] = "none"
  BY <1>3 DEF LifeInv, Registers
<1>6. /\ thread' \in [AllTasks -> {"none", "started", "loop", "exited"}]
      /\ thread'[t] = "started" /\ \A u \in AllTasks : u # t => thread'[u] = thread[u]
  BY <1>1, <1>3, ThreadTasks, ThreadEffect DEF LifeInv
<1> HIDE DEF t
<1>7. mainAt \notin {"start", "terminate", "handlers", "stopped"}
  BY <1>1 DEF LifeInv, Registers
<1>8. LifeType'
  BY <1>1, <1>3, <1>4, <1>6, ThreadTasks DEF LifeInv, LifeType
<1>9. Registers'
  <2>1. \A i \in 1 .. Len(handlerTasks') : handlerTasks'[i] = i
    <3> SUFFICES ASSUME NEW i \in 1 .. t PROVE handlerTasks'[i] = i
      BY <1>4
    <3>1. i # t => i \in 1 .. Len(handlerTasks)
      BY <1>3, SMTT(30) DEF t
    <3> QED BY <1>4, <3>1 DEF LifeInv, Registers
  <2>2. \A u \in HandlerTasks : u > Len(handlerTasks') => thread'[u] = "none"
    <3> SUFFICES ASSUME NEW u \in HandlerTasks, u > t PROVE thread'[u] = "none"
      BY <1>4
    <3>1. u # t /\ u > Len(handlerTasks) /\ u \in AllTasks
      BY <1>3, ThreadTasks, SMTT(30)
    <3> QED BY <1>6, <3>1 DEF LifeInv, Registers
  <2>3. thread'[Dispatcher] = "started"
    BY <1>1, <1>3, <1>6, ThreadTasks
  <2> QED BY <1>1, <1>7, <2>1, <2>2, <2>3 DEF Registers
<1>10. DeletedAfterExit'
  BY <1>1, <1>5, <1>6 DEF LifeInv, LifeType, DeletedAfterExit
<1> QED BY <1>1, <1>7, <1>8, <1>9, <1>10 DEF LifeInv, Stops

LEMMA LifeThread ==
    ASSUME LifeInv, NEW t \in AllTasks, EnterLoop(t) \/ ExitLoop(t)
    PROVE  LifeInv'
<1>1. PICK x \in {"loop", "exited"} : thread' = [thread EXCEPT ![t] = x]
  BY DEF EnterLoop, ExitLoop
<1>2. /\ thread[t] \in {"started", "loop"}
      /\ registered' = registered /\ deleted' = deleted /\ handlerTasks' = handlerTasks
      /\ mainAt' = mainAt /\ toStop' = toStop /\ toTear' = toTear
  BY DEF EnterLoop, ExitLoop
<1>3. /\ thread' \in [AllTasks -> {"none", "started", "loop", "exited"}]
      /\ thread'[t] = x /\ \A u \in AllTasks : u # t => thread'[u] = thread[u]
  BY <1>1, ThreadEffect DEF LifeInv
<1>4. t = Dispatcher => Len(handlerTasks) = NumTasks
  BY DEF EnterLoop, ExitLoop, LifeInv, Registers
<1>5. thread[t] # "exited" /\ thread[t] # "none"
  BY <1>2
<1>6. LifeType'
  BY <1>2, <1>3 DEF LifeInv, LifeType
<1>7. Registers'
  <2>1. \A u \in HandlerTasks : u > Len(handlerTasks) => thread'[u] = "none"
    BY <1>3, <1>5, ThreadTasks DEF LifeInv, Registers
  <2>2. mainAt = "start" => thread'[Dispatcher] = "none"
    BY <1>3, <1>5, ThreadTasks DEF LifeInv, Registers
  <2>3. thread'[Dispatcher] \in {"loop", "exited"} => Len(handlerTasks) = NumTasks
    BY <1>3, <1>4, ThreadTasks DEF LifeInv, Registers
  <2>4. mainAt \in {"terminate", "handlers", "stopped"} => thread'[Dispatcher] \in {"loop", "exited"}
    BY <1>3, ThreadTasks DEF LifeInv, Registers
  <2> QED BY <1>2, <2>1, <2>2, <2>3, <2>4 DEF LifeInv, Registers
<1>8. \A u \in AllTasks : thread[u] = "exited" => thread'[u] = "exited"
  BY <1>3, <1>5
<1>9. Stops'
  BY <1>2, <1>8, ThreadTasks DEF LifeInv, Stops, Ends
<1>10. DeletedAfterExit'
  BY <1>2, <1>8 DEF LifeInv, LifeType, DeletedAfterExit
<1> QED BY <1>6, <1>7, <1>9, <1>10 DEF LifeInv

\* StopServer begins only when the dispatcher's thread is in its event loop.
LEMMA LifeStop ==
    ASSUME ~EarlyStop, LifeInv, StopServer \/ StopBegins
    PROVE  LifeInv'
<1>1. /\ thread' = thread /\ handlerTasks' = handlerTasks /\ registered' = registered /\ deleted' = deleted
      /\ toTear' = toTear
  BY DEF StopServer, StopBegins, TerminateDispatcher
<1>2. thread[Dispatcher] \in {"loop", "exited"} /\ mainAt' \in {"terminate", "handlers"}
  BY DEF StopServer, StopBegins, TerminateDispatcher, LifeInv, Registers
<1>3. LifeType'
  BY <1>1 DEF StopServer, StopBegins, TerminateDispatcher, LifeInv, LifeType
<1>4. Registers'
  BY <1>1, <1>2 DEF LifeInv, Registers
<1>5. Stops'
  <2>1. CASE mainAt' = "terminate"
    BY <2>1 DEF Stops
  <2>2. CASE mainAt' = "handlers"
    <3>1. toStop' = handlerTasks
      BY <2>2 DEF StopServer, StopBegins, TerminateDispatcher
    <3>2. Len(handlerTasks) = NumTasks /\ \A i \in 1 .. Len(handlerTasks) : handlerTasks[i] = i
      BY <1>2 DEF LifeInv, Registers
    <3>3. \A t \in HandlerTasks : InSeq(t, handlerTasks)
      BY <3>2 DEF HandlerTasks, InSeq
    <3> QED BY <2>2, <3>1, <3>3 DEF Stops, InSeq
  <2> QED BY <1>2, <2>1, <2>2
<1>6. DeletedAfterExit'
  BY <1>1 DEF LifeInv, DeletedAfterExit
<1> QED BY <1>3, <1>4, <1>5, <1>6 DEF LifeInv

LEMMA LifeStopped ==
    ASSUME LifeInv, HandlerStopped
    PROVE  LifeInv'
<1> DEFINE h == Head(toStop)
<1>1. /\ toStop # <<>> /\ thread[h] = "exited" /\ registered' = registered \ {h} /\ deleted' = deleted \cup {h}
      /\ toStop' = Tail(toStop) /\ thread' = thread /\ handlerTasks' = handlerTasks /\ mainAt' = mainAt
      /\ toTear' = toTear
  BY DEF HandlerStopped
<1>2. toStop \in Seq(HandlerTasks)
  BY DEF LifeInv, LifeType
<1>3. h \in HandlerTasks /\ Tail(toStop) \in Seq(HandlerTasks)
      /\ \A x : InSeq(x, toStop) => x = h \/ InSeq(x, Tail(toStop))
  BY <1>1, <1>2, InSeqTail
<1> HIDE DEF h
<1>4. LifeType'
  BY <1>1, <1>3, ThreadTasks DEF LifeInv, LifeType
<1>5. Registers'
  BY <1>1 DEF LifeInv, Registers
<1>6. Stops'
  <2>1. ASSUME NEW CONSTANT x, InSeq(x, Tail(toStop)) PROVE InSeq(x, toStop)'
    BY <1>1, <2>1 DEF InSeq
  <2>2. \A x \in AllTasks : Ends(x) => Ends(x)'
    BY <1>1 DEF Ends
  <2>3. \A x \in HandlerTasks : x = h => Ends(x)'
    BY <1>1 DEF Ends, h
  <2> QED BY <1>1, <1>3, <2>1, <2>2, <2>3, ThreadTasks DEF LifeInv, Stops
<1>7. DeletedAfterExit'
  BY <1>1 DEF LifeInv, DeletedAfterExit
<1> QED BY <1>4, <1>5, <1>6, <1>7 DEF LifeInv

LEMMA LifeDispatcherStopped ==
    ASSUME LifeInv, DispatcherStopped
    PROVE  LifeInv'
<1>1. /\ mainAt = "handlers" /\ toStop = <<>> /\ thread[Dispatcher] = "exited" /\ mainAt' = "stopped"
      /\ registered' = registered \ {Dispatcher} /\ deleted' = deleted \cup {Dispatcher}
      /\ thread' = thread /\ handlerTasks' = handlerTasks /\ toStop' = toStop /\ toTear' = toTear
  BY DEF DispatcherStopped
<1>2. \A t \in HandlerTasks : Ends(t)
  <2>1. 1 .. Len(<<>>) = {}
    BY SMTT(30)
  <2> QED BY <1>1, <2>1 DEF LifeInv, Stops, InSeq
<1>3. \A t \in AllTasks : Ends(t)'
  BY <1>1, <1>2, ThreadTasks DEF Ends
<1>4. LifeType' /\ Registers'
  BY <1>1, ThreadTasks DEF LifeInv, LifeType, Registers
<1> QED BY <1>1, <1>3, <1>4 DEF LifeInv, Stops, DeletedAfterExit

LEMMA LifeStep ==
    ASSUME ~EarlyStop, LifeInv, [LNext]_lifeVars
    PROVE  LifeInv'
<1>0. /\ toStop \in Seq(HandlerTasks) /\ handlerTasks \in Seq(HandlerTasks) /\ toTear \in SUBSET AllTasks
      /\ registered \in SUBSET AllTasks /\ deleted \in SUBSET AllTasks /\ \A t \in deleted : thread[t] = "exited"
      /\ mainAt = "start" => thread[Dispatcher] = "none"
  BY DEF LifeInv, LifeType, DeletedAfterExit, Registers
<1>1. CASE mainAt # "start" /\ (ConnectionArrives \/ NotifyHandler \/ StopHandler)
  BY <1>0, <1>1, LifeSame DEF ConnectionArrives, NotifyHandler, StopHandler
<1>2. CASE mainAt = "start" /\ (ConnectionArrives \/ NotifyHandler \/ StopHandler)
  <2>1. /\ thread' = thread /\ handlerTasks' = handlerTasks /\ deleted' = deleted /\ registered' = registered
        /\ toTear' = toTear /\ mainAt' = mainAt /\ toStop' = toStop
    BY <1>2 DEF ConnectionArrives, NotifyHandler, StopHandler
  <2> QED BY <2>1 DEF LifeInv, LifeType, Registers, Stops, Ends, InSeq, DeletedAfterExit
<1>3. CASE TearDown
  BY <1>0, <1>3, LifeSame DEF TearDown
<1>4. ASSUME NEW t \in AllTasks, TearTask(t) PROVE LifeInv'
  BY <1>0, <1>4, LifeSame DEF TearTask, TerminateDispatcher
<1>5. ASSUME NEW t \in AllTasks, TornDown(t) PROVE LifeInv'
  BY <1>0, <1>5, LifeSame DEF TornDown
<1>6. CASE TearDownReturns
  BY <1>0, <1>6, LifeSame DEF TearDownReturns
<1>7. CASE UNCHANGED lifeVars
  <2>1. /\ thread' = thread /\ handlerTasks' = handlerTasks /\ deleted' = deleted /\ registered' = registered
        /\ toTear' = toTear /\ mainAt' = mainAt /\ toStop' = toStop
    BY <1>7 DEF lifeVars
  <2> QED BY <2>1 DEF LifeInv, LifeType, Registers, Stops, Ends, InSeq, DeletedAfterExit
<1> QED
  BY <1>1, <1>2, <1>3, <1>4, <1>5, <1>6, <1>7, LifeStart, LifeRegister, LifeThread, LifeStop, LifeStopped,
     LifeDispatcherStopped DEF LNext, MainThread, TaskThread

\* When StopServer has returned, no thread of the server is left, and no task is deleted
\* before its thread has ended, if the server is stopped after its dispatcher is in its
\* event loop.  (Before that, RunTask goes on registering handlers after Terminate.)
THEOREM ThreadsHaveEnded ==
    ASSUME ~EarlyStop
    PROVE  LSpec => []ThreadsEnd
<1>1. LInit => LifeInv
  BY LifeInitInv
<1>2. LifeInv /\ [LNext]_lifeVars => LifeInv'
  BY LifeStep
<1>3. LifeInv => ThreadsEnd
  BY DEF LifeInv, Stops, Ends, ThreadsEnd, StoppedServerHasNoThreads
<1> QED BY <1>1, <1>2, <1>3, PTL DEF LSpec

-----------------------------------------------------------------------------
(* WorkerPool.                                                             *)

Started == {w \in WorkerIds : workerAt[w] = "run"}
Busy == {w \in WorkerIds : workerAt[w] \in {"run", "ran"}}
PoolThreads == {w \in WorkerIds : workerAt[w] # "none"}
Taken == submitted - Len(taskQueue)

WorkerPlaces == {"none", "check", "asleep", "run", "ran", "done", "exited"}
CallerPlaces ==
    {"idle", "starting", "submitted", "waiting", "notified", "waited", "stopping", "joining", "stopped"}
PoolType ==
    /\ numWorkers \in Nat /\ isRunning \in BOOLEAN /\ taskQueue \in Seq(Nat) /\ busyWorkers \in Int
    /\ pool \subseteq WorkerIds /\ workerAt \in [WorkerIds -> WorkerPlaces] /\ workerTask \in [WorkerIds -> Nat]
    /\ callerAt \in [Callers -> CallerPlaces] /\ submitted \in Nat /\ completed \subseteq Nat

\* The queue holds the tasks that were submitted last, in order.
QueueInv ==
    /\ Taken \in Nat
    /\ \A i \in 1 .. Len(taskQueue) : taskQueue[i] = Taken + i

\* The other ones are completed or run by one worker.
TaskInv ==
    /\ completed \subseteq 1 .. Taken
    /\ \A w \in Started : workerTask[w] \in 1 .. Taken /\ workerTask[w] \notin completed
    /\ \A v, w \in Started : workerTask[v] = workerTask[w] => v = w
    /\ \A t \in 1 .. Taken : t \in completed \/ \E w \in Started : workerTask[w] = t
CountInv ==
    /\ IsFiniteSet(completed) /\ Cardinality(completed) + Cardinality(Started) = Taken
    /\ busyWorkers = Cardinality(Busy)

\* The owner alone starts and stops threads, and those of the pool are the ones there are.
OwnerInv ==
    /\ \A p \in Callers : callerAt[p] \in {"starting", "stopping", "joining", "stopped"} => p = Owner
    /\ callerAt[Owner] = "stopped" => pool = {}
ThreadInv == PoolThreads = pool /\ Cardinality(pool) <= numWorkers

\* Nobody but the one caller could give the pool more to do.
WaitInv == \A p \in Callers : callerAt[p] = "waited" /\ Callers = {p} => taskQueue = <<>> /\ Busy = {}

PoolInv == PoolType /\ QueueInv /\ TaskInv /\ CountInv /\ OwnerInv /\ ThreadInv /\ WaitInv

LEMMA PoolSets ==
    /\ IsFiniteSet(Started) /\ Cardinality(Started) \in Nat
    /\ IsFiniteSet(Busy) /\ Cardinality(Busy) \in Nat
    /\ IsFiniteSet(PoolThreads)
<1>1. Started \in SUBSET WorkerIds /\ Busy \in SUBSET WorkerIds /\ PoolThreads \in SUBSET WorkerIds
  BY DEF Started, Busy, PoolThreads
<1> QED BY <1>1, WPAssumption, FS_Subset, FS_CardinalityType

LEMMA PoolInitInv == WPInit => PoolInv
<1> SUFFICES ASSUME WPInit PROVE PoolInv
  OBVIOUS
<1>1. /\ numWorkers \in Nat /\ numWorkers >= 0 /\ isRunning = FALSE /\ taskQueue = <<>> /\ busyWorkers = 0 /\ pool = {}
      /\ workerAt = [w \in WorkerIds |-> "none"] /\ workerTask = [w \in WorkerIds |-> 0]
      /\ callerAt = [p \in Callers |-> "idle"] /\ submitted = 0 /\ completed = {}
  BY WPAssumption, SMTT(30) DEF WPInit
<1>2. Started = {} /\ Busy = {} /\ PoolThreads = {}
  BY <1>1 DEF Started, Busy, PoolThreads
<1>3. Len(taskQueue) = 0 /\ Taken = 0 /\ taskQueue \in Seq(Nat)
  <2>1. <<>> \in Seq(Nat) /\ Len(<<>>) = 0 /\ 0 - 0 = 0
    BY SMTT(30)
  <2> QED BY <1>1, <2>1 DEF Taken
<1>4. PoolType
  <2>1. 0 \in Nat /\ 0 \in Int
    BY SMTT(30)
  <2> QED BY <1>1, <1>3, <2>1 DEF PoolType, WorkerPlaces, CallerPlaces
<1>5. QueueInv
  BY <1>3, SMTT(30) DEF QueueInv
<1>6. TaskInv
  BY <1>1, <1>2, <1>3, SMTT(30) DEF TaskInv
<1>7. CountInv
  BY <1>1, <1>2, <1>3, FS_EmptySet, SMTT(30) DEF CountInv
<1>8. OwnerInv /\ WaitInv
  BY <1>1, WPAssumption DEF OwnerInv, WaitInv
<1>9. ThreadInv
  BY <1>1, <1>2, FS_EmptySet, SMTT(30) DEF ThreadInv
<1> QED BY <1>4, <1>5, <1>6, <1>7, <1>8, <1>9 DEF PoolInv

\* What a worker's move does to the sets of workers.
LEMMA WorkerMoves ==
    ASSUME PoolType, NEW w \in WorkerIds, NEW place \in WorkerPlaces, workerAt' = [workerAt EXCEPT ![w] = place]
    PROVE  /\ workerAt' \in [WorkerIds -> WorkerPlaces]
           /\ place = "run" => Started' = Started \cup {w}
           /\ place # "run" => Started' = Started \ {w}
           /\ place \in {"run", "ran"} => Busy' = Busy \cup {w}
           /\ place \notin {"run", "ran"} => Busy' = Busy \ {w}
           /\ place # "none" => PoolThreads' = PoolThreads \cup {w}
<1>1. workerAt' \in [WorkerIds -> WorkerPlaces]
  BY DEF PoolType
<1>2. workerAt'[w] = place /\ \A v \in WorkerIds : v # w => workerAt'[v] = workerAt[v]
  BY DEF PoolType
<1>3. place = "run" => Started' = Started \cup {w}
  BY <1>2, SMTT(30) DEF Started
<1>4. place # "run" => Started' = Started \ {w}
  BY <1>2, SMTT(30) DEF Started
<1>5. place \in {"run", "ran"} => Busy' = Busy \cup {w}
  BY <1>2, SMTT(30) DEF Busy
<1>6. place \notin {"run", "ran"} => Busy' = Busy \ {w}
  BY <1>2, SMTT(30) DEF Busy
<1>7. place # "none" => PoolThreads' = PoolThreads \cup {w}
  BY <1>2 DEF PoolThreads
<1> QED BY <1>1, <1>3, <1>4, <1>5, <1>6, <1>7

LEMMA TasksKept ==
    ASSUME QueueInv, TaskInv, CountInv,
           taskQueue' = taskQueue, submitted' = submitted, completed' = completed, busyWorkers' = busyWorkers,
           workerTask' = workerTask, Started' = Started, Busy' = Busy
    PROVE  QueueInv' /\ TaskInv' /\ CountInv'
<1>1. Taken' = Taken
  BY DEF Taken
<1>2. QueueInv'
  BY <1>1 DEF QueueInv
<1>3. TaskInv'
  BY <1>1, SMTT(30) DEF TaskInv
<1>4. CountInv'
  BY <1>1 DEF CountInv
<1> QED BY <1>2, <1>3, <1>4

\* A call moves on; "waited" only if there is nothing to do, "stopped" not at all.
LEMMA CallMoves ==
    ASSUME PoolInv, NEW p \in Callers, NEW to \in CallerPlaces, callerAt' = [callerAt EXCEPT ![p] = to],
           to \in {"starting", "stopping", "joining"} => p = Owner, to # "stopped",
           taskQueue' = taskQueue, Busy' = Busy, pool' = pool,
           to = "waited" => taskQueue = <<>> /\ Busy = {}
    PROVE  callerAt' \in [Callers -> CallerPlaces] /\ OwnerInv' /\ WaitInv'
<1>1. callerAt'[p] = to /\ (\A q \in Callers : q # p => callerAt'[q] = callerAt[q]) /\ callerAt' \in [Callers -> CallerPlaces]
  BY DEF PoolInv, PoolType
<1>2. OwnerInv'
  <2>1. \A q \in Callers : callerAt'[q] \in {"starting", "stopping", "joining", "stopped"} => q = Owner
    BY <1>1 DEF PoolInv, OwnerInv
  <2>2. callerAt'[Owner] = "stopped" => callerAt[Owner] = "stopped"
    BY <1>1, WPAssumption
  <2> QED BY <2>1, <2>2 DEF PoolInv, OwnerInv
<1>3. WaitInv'
  BY <1>1 DEF PoolInv, WaitInv
<1> QED BY <1>1, <1>2, <1>3

\* A step of a caller that moves no worker and leaves the queue alone.
LEMMA PoolCall ==
    ASSUME PoolInv, NEW p \in Callers,
           \/ StartupFlag(p) \/ StartupReturns(p) \/ WaitUntilAllFinished(p) \/ WaitReturns(p) \/ ShutdownFlag(p)
    PROVE  PoolInv'
<1> USE DEF PoolInv
<1>1. /\ numWorkers' = numWorkers /\ taskQueue' = taskQueue /\ busyWorkers' = busyWorkers /\ pool' = pool
      /\ workerAt' = workerAt /\ workerTask' = workerTask /\ submitted' = submitted /\ completed' = completed
      /\ isRunning' \in BOOLEAN
  BY DEF PoolType, StartupFlag, StartupReturns, WaitUntilAllFinished, WaitReturns, ShutdownFlag
<1>2. Started' = Started /\ Busy' = Busy /\ PoolThreads' = PoolThreads
  BY <1>1 DEF Started, Busy, PoolThreads
<1>3. AllFinished => taskQueue = <<>> /\ Busy = {}
  BY PoolSets, FS_EmptySet DEF AllFinished, CountInv
<1>4. \E to \in CallerPlaces :
        /\ callerAt' = [callerAt EXCEPT ![p] = to] /\ to # "stopped"
        /\ to \in {"starting", "stopping", "joining"} => p = Owner
        /\ to = "waited" => taskQueue = <<>> /\ Busy = {}
  <2>1. CASE StartupFlag(p) \/ ShutdownFlag(p)
    BY <2>1 DEF StartupFlag, ShutdownFlag, Calls, CallerPlaces
  <2>2. CASE StartupReturns(p) \/ WaitReturns(p)
    BY <2>2 DEF StartupReturns, WaitReturns, Calls, CallerPlaces
  <2>3. CASE WaitUntilAllFinished(p)
    <3>1. CASE AllFinished
      <4>1. callerAt' = [callerAt EXCEPT ![p] = "waited"]
        BY <2>3, <3>1 DEF WaitUntilAllFinished
      <4> QED BY <1>3, <3>1, <4>1 DEF CallerPlaces
    <3>2. CASE ~AllFinished
      <4>1. callerAt' = [callerAt EXCEPT ![p] = "waiting"]
        BY <2>3, <3>2 DEF WaitUntilAllFinished
      <4> QED BY <4>1 DEF CallerPlaces
    <3> QED BY <3>1, <3>2
  <2> QED BY <2>1, <2>2, <2>3
<1>5. callerAt' \in [Callers -> CallerPlaces] /\ OwnerInv' /\ WaitInv'
  BY <1>1, <1>2, <1>4, CallMoves
<1>6. PoolType'
  BY <1>1, <1>5 DEF PoolType
<1>7. ThreadInv'
  BY <1>1, <1>2 DEF ThreadInv
<1> QED BY <1>1, <1>2, <1>5, <1>6, <1>7, TasksKept

\* A worker that neither takes nor runs nor ends a task moves, perhaps with a caller.
LEMMA WorkerTurns ==
    ASSUME PoolInv, NEW w \in PoolThreads, workerAt[w] \notin {"run", "ran"},
           NEW place \in WorkerPlaces, place \notin {"none", "run", "ran"}, workerAt' = [workerAt EXCEPT ![w] = place]
    PROVE  workerAt' \in [WorkerIds -> WorkerPlaces] /\ Started' = Started /\ Busy' = Busy /\ PoolThreads' = PoolThreads
<1>1. w \in WorkerIds /\ w \notin Started /\ w \notin Busy /\ PoolType
  BY DEF Started, Busy, PoolThreads, PoolInv
<1>2. /\ workerAt' \in [WorkerIds -> WorkerPlaces] /\ Started' = Started \ {w} /\ Busy' = Busy \ {w}
      /\ PoolThreads' = PoolThreads \cup {w}
  BY <1>1, WorkerMoves
<1> QED BY <1>1, <1>2

\* A step that moves a worker but no task.
LEMMA PoolTurn ==
    ASSUME PoolInv,
           \/ \E p \in Callers : NotifyWorker(p) \/ NotifyAll(p)
           \/ \E w \in WorkerIds : NotifyFinished(w) \/ (TakeTask(w) /\ (~isRunning \/ taskQueue = <<>>))
    PROVE  PoolInv'
<1> USE DEF PoolInv
<1>1. /\ numWorkers' = numWorkers /\ taskQueue' = taskQueue /\ busyWorkers' = busyWorkers /\ pool' = pool
      /\ workerTask' = workerTask /\ submitted' = submitted /\ completed' = completed /\ isRunning' = isRunning
  BY DEF NotifyWorker, NotifyAll, NotifyFinished, TakeTask
<1>2. workerAt' \in [WorkerIds -> WorkerPlaces] /\ Started' = Started /\ Busy' = Busy /\ PoolThreads' = PoolThreads
  <2>0. ASSUME workerAt' = workerAt
        PROVE  workerAt' \in [WorkerIds -> WorkerPlaces] /\ Started' = Started /\ Busy' = Busy /\ PoolThreads' = PoolThreads
    BY <2>0 DEF PoolType, Started, Busy, PoolThreads
  <2>1. ASSUME NEW w \in WorkerIds, workerAt[w] \in {"asleep", "check", "done"},
               NEW place \in {"check", "asleep", "exited"}, workerAt' = [workerAt EXCEPT ![w] = place]
        PROVE  workerAt' \in [WorkerIds -> WorkerPlaces] /\ Started' = Started /\ Busy' = Busy /\ PoolThreads' = PoolThreads
    <3>1. w \in PoolThreads /\ workerAt[w] \notin {"run", "ran"} /\ place \in WorkerPlaces /\ place \notin {"none", "run", "ran"}
      BY <2>1 DEF PoolThreads, WorkerPlaces
    <3> QED BY <2>1, <3>1, WorkerTurns
  <2>2. ASSUME NEW p \in Callers, NotifyWorker(p)
        PROVE  workerAt' \in [WorkerIds -> WorkerPlaces] /\ Started' = Started /\ Busy' = Busy /\ PoolThreads' = PoolThreads
    <3>1. workerAt' = workerAt \/ \E w \in Asleep : workerAt' = [workerAt EXCEPT ![w] = "check"]
      BY <2>2 DEF NotifyWorker
    <3> QED BY <2>0, <2>1, <3>1 DEF Asleep
  <2>3. ASSUME NEW p \in Callers, NotifyAll(p)
        PROVE  workerAt' \in [WorkerIds -> WorkerPlaces] /\ Started' = Started /\ Busy' = Busy /\ PoolThreads' = PoolThreads
    <3>1. workerAt' = [w \in WorkerIds |-> IF w \in Asleep THEN "check" ELSE workerAt[w]]
      BY <2>3 DEF NotifyAll
    <3>2. \A w \in WorkerIds : workerAt'[w] = workerAt[w] \/ (workerAt[w] = "asleep" /\ workerAt'[w] = "check")
      BY <3>1 DEF Asleep
    <3>3. workerAt' \in [WorkerIds -> WorkerPlaces]
      BY <3>1 DEF PoolType, WorkerPlaces
    <3>4. Started' = Started
      BY <3>2 DEF Started
    <3>5. Busy' = Busy
      BY <3>2 DEF Busy
    <3>6. PoolThreads' = PoolThreads
      BY <3>2 DEF PoolThreads
    <3> QED BY <3>3, <3>4, <3>5, <3>6
  <2>4. ASSUME NEW w \in WorkerIds, NotifyFinished(w)
        PROVE  workerAt' \in [WorkerIds -> WorkerPlaces] /\ Started' = Started /\ Busy' = Busy /\ PoolThreads' = PoolThreads
    BY <2>1, <2>4 DEF NotifyFinished
  <2>5. ASSUME NEW w \in WorkerIds, TakeTask(w), ~isRunning \/ taskQueue = <<>>
        PROVE  workerAt' \in [WorkerIds -> WorkerPlaces] /\ Started' = Started /\ Busy' = Busy /\ PoolThreads' = PoolThreads
    <3>1. workerAt[w] = "check" /\ \E place \in {"exited", "asleep"} : workerAt' = [workerAt EXCEPT ![w] = place]
      BY <2>5 DEF TakeTask
    <3> QED BY <2>1, <3>1
  <2> QED BY <2>2, <2>3, <2>4, <2>5
<1>3. callerAt' \in [Callers -> CallerPlaces] /\ OwnerInv' /\ WaitInv'
  <2>1. CASE callerAt' = callerAt
    BY <1>1, <1>2, <2>1 DEF OwnerInv, WaitInv, PoolType
  <2>2. ASSUME NEW p \in Callers, NEW to \in {"idle", "joining", "notified"}, callerAt' = [callerAt EXCEPT ![p] = to],
               to = "joining" => p = Owner
        PROVE  callerAt' \in [Callers -> CallerPlaces] /\ OwnerInv' /\ WaitInv'
    <3>1. to \in CallerPlaces /\ to # "stopped" /\ to # "waited" /\ (to \in {"starting", "stopping", "joining"} => p = Owner)
      BY <2>2 DEF CallerPlaces
    <3> QED BY <1>1, <1>2, <2>2, <3>1, CallMoves
  <2>3. ASSUME NEW p \in Callers, NotifyWorker(p) PROVE callerAt' = [callerAt EXCEPT ![p] = "idle"]
    BY <2>3 DEF NotifyWorker, Calls
  <2>4. ASSUME NEW p \in Callers, NotifyAll(p) PROVE callerAt' = [callerAt EXCEPT ![p] = "joining"] /\ p = Owner
    BY <2>4 DEF NotifyAll, Calls, OwnerInv
  <2>5. ASSUME NEW w \in WorkerIds, NotifyFinished(w)
        PROVE  callerAt' = callerAt \/ \E p \in Callers : callerAt' = [callerAt EXCEPT ![p] = "notified"]
    BY <2>5 DEF NotifyFinished
  <2>6. ASSUME NEW w \in WorkerIds, TakeTask(w) PROVE callerAt' = callerAt
    BY <2>6 DEF TakeTask
  <2>7. "idle" # "joining" /\ "notified" # "joining"
    OBVIOUS
  <2> QED BY <2>1, <2>2, <2>3, <2>4, <2>5, <2>6, <2>7
<1>4. PoolType'
  BY <1>1, <1>2, <1>3 DEF PoolType
<1>5. ThreadInv'
  BY <1>1, <1>2 DEF ThreadInv
<1> QED BY <1>1, <1>2, <1>3, <1>4, <1>5, TasksKept

LEMMA PoolAddThread ==
    ASSUME PoolInv, NEW p \in Callers, AddThread(p)
    PROVE  PoolInv'
<1> USE DEF PoolInv
<1>1. /\ numWorkers' = numWorkers /\ taskQueue' = taskQueue /\ busyWorkers' = busyWorkers /\ callerAt' = callerAt
      /\ workerTask' = workerTask /\ submitted' = submitted /\ completed' = completed /\ isRunning' = isRunning
      /\ callerAt[p] = "starting" /\ Cardinality(pool) < numWorkers
  BY DEF AddThread
<1>2. PICK w \in WorkerIds : workerAt[w] = "none" /\ workerAt' = [workerAt EXCEPT ![w] = "check"] /\ pool' = pool \cup {w}
  BY DEF AddThread
<1>3. "check" \in WorkerPlaces /\ w \notin Started /\ w \notin Busy /\ w \notin PoolThreads
  BY <1>2 DEF WorkerPlaces, Started, Busy, PoolThreads
<1>4. /\ workerAt' \in [WorkerIds -> WorkerPlaces] /\ Started' = Started \ {w} /\ Busy' = Busy \ {w}
      /\ PoolThreads' = PoolThreads \cup {w}
  <2>1. "check" # "run" /\ "check" \notin {"run", "ran"} /\ "check" # "none"
    OBVIOUS
  <2> QED BY <1>2, <1>3, <2>1, WorkerMoves
<1>5. Started' = Started /\ Busy' = Busy
  BY <1>3, <1>4
<1>6. PoolType'
  <2>1. pool' \subseteq WorkerIds
    BY <1>2 DEF PoolType
  <2> QED BY <1>1, <1>4, <2>1 DEF PoolType
<1>7. OwnerInv'
  <2>1. p = Owner
    BY <1>1 DEF OwnerInv
  <2> QED BY <1>1, <2>1 DEF OwnerInv
<1>8. ThreadInv'
  <2>1. PoolThreads' = pool'
    BY <1>2, <1>4 DEF ThreadInv
  <2>2. IsFiniteSet(pool) /\ w \notin pool
    BY <1>3, PoolSets DEF ThreadInv
  <2>3. Cardinality(pool') = Cardinality(pool) + 1 /\ Cardinality(pool) \in Nat
    BY <1>2, <2>2, FS_AddElement, FS_CardinalityType
  <2>4. Cardinality(pool') <= numWorkers
    BY <1>1, <2>3, SMTT(30) DEF PoolType
  <2> QED BY <1>1, <2>1, <2>4 DEF ThreadInv
<1>9. WaitInv'
  BY <1>1, <1>5 DEF WaitInv
<1> QED BY <1>1, <1>5, <1>6, <1>7, <1>8, <1>9, TasksKept

LEMMA PoolJoined ==
    ASSUME PoolInv, NEW p \in Callers, JoinWorkers(p)
    PROVE  PoolInv'
<1> USE DEF PoolInv
<1>1. /\ numWorkers' = numWorkers /\ taskQueue' = taskQueue /\ busyWorkers' = busyWorkers /\ pool' = {}
      /\ workerTask' = workerTask /\ submitted' = submitted /\ completed' = completed /\ isRunning' = isRunning
      /\ callerAt[p] = "joining" /\ callerAt' = [callerAt EXCEPT ![p] = "stopped"]
      /\ \A w \in pool : workerAt[w] = "exited"
      /\ workerAt' = [w \in WorkerIds |-> IF workerAt[w] = "exited" THEN "none" ELSE workerAt[w]]
  BY DEF JoinWorkers, Calls
<1>2. \A w \in WorkerIds : workerAt[w] \in {"none", "exited"}
  BY <1>1 DEF ThreadInv, PoolThreads
<1>3. \A w \in WorkerIds : workerAt'[w] = "none"
  BY <1>1, <1>2
<1>4. Started' = Started /\ Busy' = Busy /\ PoolThreads' = {}
  BY <1>2, <1>3 DEF Started, Busy, PoolThreads
<1>5. /\ callerAt'[p] = "stopped" /\ \A q \in Callers : q # p => callerAt'[q] = callerAt[q]
      /\ callerAt' \in [Callers -> CallerPlaces]
  BY <1>1 DEF PoolType, CallerPlaces
<1>6. PoolType'
  <2>1. workerAt' \in [WorkerIds -> WorkerPlaces]
    BY <1>1 DEF PoolType, WorkerPlaces
  <2> QED BY <1>1, <1>5, <2>1 DEF PoolType
<1>7. OwnerInv'
  <2>1. p = Owner
    BY <1>1 DEF OwnerInv
  <2> QED BY <1>1, <1>5, <2>1 DEF OwnerInv
<1>8. ThreadInv'
  BY <1>1, <1>4, FS_EmptySet, SMTT(30) DEF ThreadInv, PoolType
<1>9. WaitInv'
  BY <1>1, <1>4, <1>5 DEF WaitInv
<1> QED BY <1>1, <1>4, <1>6, <1>7, <1>8, <1>9, TasksKept

LEMMA PoolResized ==
    ASSUME PoolInv, NEW p \in Callers, SetNumWorkers(p)
    PROVE  PoolInv'
<1> USE DEF PoolInv
<1>1. /\ taskQueue' = taskQueue /\ busyWorkers' = busyWorkers /\ pool' = pool /\ workerAt' = workerAt
      /\ workerTask' = workerTask /\ submitted' = submitted /\ completed' = completed /\ isRunning' = isRunning
      /\ callerAt[p] = "stopped" /\ callerAt' = [callerAt EXCEPT ![p] = "idle"] /\ numWorkers' \in Nat
  BY WPAssumption DEF SetNumWorkers, Calls
<1>2. Started' = Started /\ Busy' = Busy /\ PoolThreads' = PoolThreads
  BY <1>1 DEF Started, Busy, PoolThreads
<1>3. pool = {}
  BY <1>1 DEF OwnerInv
<1>4. callerAt' \in [Callers -> CallerPlaces] /\ OwnerInv' /\ WaitInv'
  <2>1. "idle" \in CallerPlaces /\ "idle" \notin {"starting", "stopping", "joining"} /\ "idle" # "stopped" /\ "idle" # "waited"
    BY DEF CallerPlaces
  <2> QED BY <1>1, <1>2, <2>1, CallMoves
<1>5. PoolType'
  BY <1>1, <1>4 DEF PoolType
<1>6. ThreadInv'
  <2>1. Cardinality(pool') <= numWorkers'
    BY <1>1, <1>3, FS_EmptySet, SMTT(30)
  <2> QED BY <1>1, <1>2, <2>1 DEF ThreadInv
<1> QED BY <1>1, <1>2, <1>4, <1>5, <1>6, TasksKept

LEMMA Appended ==
    ASSUME NEW q \in Seq(Nat), NEW n \in Nat, n - Len(q) \in Nat,
           \A i \in 1 .. Len(q) : q[i] = n - Len(q) + i
    PROVE  /\ Append(q, n + 1) \in Seq(Nat) /\ (n + 1) - Len(Append(q, n + 1)) = n - Len(q)
           /\ \A i \in 1 .. Len(Append(q, n + 1)) : Append(q, n + 1)[i] = n - Len(q) + i
<1> DEFINE r == Append(q, n + 1)
<1>1. /\ r \in Seq(Nat) /\ Len(r) = Len(q) + 1 /\ Len(q) \in Nat
      /\ \A i \in 1 .. Len(q) : r[i] = q[i]
      /\ r[Len(q) + 1] = n + 1
  BY SMTT(30)
<1> HIDE DEF r
<1>2. (n + 1) - Len(r) = n - Len(q)
  BY <1>1, SMTT(30)
<1>3. ASSUME NEW i \in 1 .. Len(r) PROVE r[i] = n - Len(q) + i
  <2>1. CASE i \in 1 .. Len(q)
    BY <1>1, <2>1, SMTT(30)
  <2>2. CASE i = Len(q) + 1
    BY <1>1, <2>2, SMTT(30)
  <2> QED BY <1>1, <2>1, <2>2, SMTT(30)
<1> QED BY <1>1, <1>2, <1>3 DEF r

LEMMA PoolSubmit ==
    ASSUME PoolInv, NEW p \in Callers, SubmitTask(p)
    PROVE  PoolInv'
<1> USE DEF PoolInv
<1>1. /\ numWorkers' = numWorkers /\ busyWorkers' = busyWorkers /\ pool' = pool /\ workerAt' = workerAt
      /\ workerTask' = workerTask /\ completed' = completed /\ isRunning' = isRunning
      /\ callerAt[p] = "idle" /\ callerAt' = [callerAt EXCEPT ![p] = "submitted"]
      /\ submitted' = submitted + 1 /\ taskQueue' = Append(taskQueue, submitted + 1)
  BY DEF SubmitTask, Calls
<1>2. Started' = Started /\ Busy' = Busy /\ PoolThreads' = PoolThreads
  BY <1>1 DEF Started, Busy, PoolThreads
<1>3. /\ taskQueue' \in Seq(Nat) /\ Taken' = Taken
      /\ \A i \in 1 .. Len(taskQueue') : taskQueue'[i] = Taken + i
  <2>1. taskQueue \in Seq(Nat) /\ submitted \in Nat
    BY DEF PoolType
  <2>2. submitted - Len(taskQueue) \in Nat /\ \A i \in 1 .. Len(taskQueue) : taskQueue[i] = submitted - Len(taskQueue) + i
    BY DEF QueueInv, Taken
  <2> QED BY <1>1, <2>1, <2>2, Appended DEF Taken
<1>4. submitted' \in Nat
  BY <1>1, SMTT(30) DEF PoolType
<1>5. QueueInv'
  BY <1>3 DEF QueueInv
<1>6. TaskInv'
  BY <1>1, <1>2, <1>3, SMTT(30) DEF TaskInv
<1>7. CountInv'
  BY <1>1, <1>2, <1>3 DEF CountInv
<1>8. /\ callerAt'[p] = "submitted" /\ \A q \in Callers : q # p => callerAt'[q] = callerAt[q]
      /\ callerAt' \in [Callers -> CallerPlaces]
  BY <1>1 DEF PoolType, CallerPlaces
<1>9. PoolType'
  BY <1>1, <1>3, <1>4, <1>8 DEF PoolType
<1>10. OwnerInv'
  <2>1. \A q \in Callers : callerAt'[q] \in {"starting", "stopping", "joining", "stopped"} => q = Owner
    BY <1>8 DEF OwnerInv
  <2>2. callerAt'[Owner] = "stopped" => callerAt[Owner] = "stopped"
    BY <1>8, WPAssumption
  <2> QED BY <1>1, <2>1, <2>2 DEF OwnerInv
<1>11. WaitInv'
  <2> SUFFICES ASSUME NEW q \in Callers, callerAt'[q] = "waited", Callers = {q} PROVE FALSE
    BY DEF WaitInv
  <2> QED BY <1>8
<1>12. ThreadInv'
  BY <1>1, <1>2 DEF ThreadInv
<1> QED BY <1>5, <1>6, <1>7, <1>9, <1>10, <1>11, <1>12

LEMMA Removed ==
    ASSUME NEW q \in Seq(Nat), q # <<>>, NEW n \in Nat, n - Len(q) \in Nat,
           \A i \in 1 .. Len(q) : q[i] = n - Len(q) + i
    PROVE  /\ Tail(q) \in Seq(Nat) /\ n - Len(Tail(q)) = (n - Len(q)) + 1 /\ Head(q) = (n - Len(q)) + 1
           /\ \A i \in 1 .. Len(Tail(q)) : Tail(q)[i] = (n - Len(q)) + 1 + i
<1> DEFINE r == Tail(q)
<1>1. /\ r \in Seq(Nat) /\ Len(r) = Len(q) - 1 /\ Len(q) \in Nat /\ Len(q) >= 1 /\ Head(q) = q[1]
      /\ \A i \in 1 .. Len(r) : r[i] = q[i + 1]
  BY SMTT(30)
<1> HIDE DEF r
<1>2. n - Len(r) = (n - Len(q)) + 1 /\ Head(q) = (n - Len(q)) + 1
  BY <1>1, SMTT(30)
<1>3. ASSUME NEW i \in 1 .. Len(r) PROVE r[i] = (n - Len(q)) + 1 + i
  <2>1. i + 1 \in 1 .. Len(q)
    BY <1>1, SMTT(30)
  <2>2. r[i] = n - Len(q) + (i + 1)
    BY <1>1, <2>1
  <2> QED BY <1>1, <2>2, SMTT(30)
<1> QED BY <1>1, <1>2, <1>3 DEF r

\* A worker takes the oldest task of the queue.
LEMMA PoolTaken ==
    ASSUME PoolInv, NEW w \in WorkerIds, TakeTask(w), isRunning, taskQueue # <<>>
    PROVE  PoolInv'
<1> USE DEF PoolInv
<1> DEFINE t == Head(taskQueue)
<1>1. /\ numWorkers' = numWorkers /\ pool' = pool /\ callerAt' = callerAt /\ submitted' = submitted
      /\ completed' = completed /\ isRunning' = isRunning
      /\ workerAt[w] = "check" /\ workerAt' = [workerAt EXCEPT ![w] = "run"]
      /\ workerTask' = [workerTask EXCEPT ![w] = t]
      /\ taskQueue' = Tail(taskQueue) /\ busyWorkers' = busyWorkers + 1
  BY DEF TakeTask
<1>2. w \notin Started /\ w \notin Busy /\ w \in PoolThreads /\ "run" \in WorkerPlaces
  BY <1>1 DEF Started, Busy, PoolThreads, WorkerPlaces
<1>3. /\ workerAt' \in [WorkerIds -> WorkerPlaces] /\ Started' = Started \cup {w} /\ Busy' = Busy \cup {w}
      /\ PoolThreads' = PoolThreads
  <2>1. "run" \in {"run", "ran"} /\ "run" # "none"
    OBVIOUS
  <2>2. /\ workerAt' \in [WorkerIds -> WorkerPlaces] /\ Started' = Started \cup {w} /\ Busy' = Busy \cup {w}
        /\ PoolThreads' = PoolThreads \cup {w}
    BY <1>1, <1>2, <2>1, WorkerMoves
  <2> QED BY <1>2, <2>2
<1>4. /\ taskQueue' \in Seq(Nat) /\ Taken' = Taken + 1 /\ t = Taken + 1
      /\ \A i \in 1 .. Len(taskQueue') : taskQueue'[i] = Taken + 1 + i
  <2>1. taskQueue \in Seq(Nat) /\ submitted \in Nat
    BY DEF PoolType
  <2>2. submitted - Len(taskQueue) \in Nat /\ \A i \in 1 .. Len(taskQueue) : taskQueue[i] = submitted - Len(taskQueue) + i
    BY DEF QueueInv, Taken
  <2> QED BY <1>1, <2>1, <2>2, Removed DEF Taken
<1>5. Taken \in Nat /\ Taken + 1 \in Nat
  BY SMTT(30) DEF QueueInv
<1> HIDE DEF t
<1>6. /\ workerTask' \in [WorkerIds -> Nat] /\ workerTask'[w] = t
      /\ \A v \in WorkerIds : v # w => workerTask'[v] = workerTask[v]
  BY <1>1, <1>4, <1>5 DEF PoolType
<1>7. QueueInv'
  BY <1>4, <1>5 DEF QueueInv
<1>8. /\ \A s : s \in 1 .. (Taken + 1) <=> s \in 1 .. Taken \/ s = t
      /\ t \notin 1 .. Taken
  BY <1>4, <1>5, SMTT(30)
<1>9. \A v \in Started : v # w /\ workerTask'[v] = workerTask[v] /\ workerTask[v] \in 1 .. Taken /\ workerTask[v] \notin completed
  BY <1>2, <1>6 DEF TaskInv, Started
<1>10. TaskInv'
  <2>1. completed' \subseteq 1 .. Taken'
    BY <1>1, <1>4, <1>8 DEF TaskInv
  <2>2. ASSUME NEW v \in Started' PROVE workerTask'[v] \in 1 .. Taken' /\ workerTask'[v] \notin completed'
    <3>1. t \notin completed
      BY <1>8 DEF TaskInv
    <3>2. t \in 1 .. Taken' /\ \A s \in 1 .. Taken : s \in 1 .. Taken'
      BY <1>4, <1>8
    <3>3. CASE v = w
      BY <1>1, <1>6, <3>1, <3>2, <3>3
    <3>4. CASE v \in Started
      BY <1>1, <1>9, <3>2, <3>4, SMTT(30)
    <3> QED BY <1>3, <3>3, <3>4
  <2>3. ASSUME NEW u \in Started', NEW v \in Started', workerTask'[u] = workerTask'[v] PROVE u = v
    <3>1. (u \in Started \/ u = w) /\ (v \in Started \/ v = w)
      BY <1>3
    <3>2. CASE u \in Started /\ v \in Started
      BY <1>9, <2>3, <3>2 DEF TaskInv
    <3>3. CASE u \in Started /\ v = w
      BY <1>6, <1>8, <1>9, <2>3, <3>3
    <3>4. CASE v \in Started /\ u = w
      BY <1>6, <1>8, <1>9, <2>3, <3>4
    <3> QED BY <3>1, <3>2, <3>3, <3>4
  <2>4. ASSUME NEW s \in 1 .. Taken' PROVE s \in completed' \/ \E v \in Started' : workerTask'[v] = s
    <3>1. CASE s = t
      BY <1>3, <1>6, <3>1
    <3>2. CASE s \in 1 .. Taken
      <4>1. s \in completed \/ \E v \in Started : workerTask[v] = s
        BY <3>2 DEF TaskInv
      <4> QED BY <1>1, <1>3, <1>9, <4>1
    <3> QED BY <1>4, <1>8, <3>1, <3>2
  <2> QED BY <2>1, <2>2, <2>3, <2>4 DEF TaskInv
<1>11. CountInv'
  <2>1. Cardinality(Started') = Cardinality(Started) + 1 /\ Cardinality(Busy') = Cardinality(Busy) + 1
    BY <1>2, <1>3, PoolSets, FS_AddElement
  <2>2. Cardinality(completed) \in Nat
    BY FS_CardinalityType DEF CountInv
  <2>3. Cardinality(completed') + Cardinality(Started') = Taken'
    <3>1. Cardinality(completed) + Cardinality(Started) = Taken /\ Cardinality(Started) \in Nat
      BY PoolSets DEF CountInv
    <3> QED BY <1>1, <1>4, <2>1, <2>2, <3>1, SMTT(30)
  <2>4. busyWorkers' = Cardinality(Busy')
    BY <1>1, <2>1 DEF CountInv
  <2> QED BY <1>1, <2>3, <2>4 DEF CountInv
<1>12. PoolType'
  <2>1. busyWorkers' \in Int
    BY <1>1, SMTT(30) DEF PoolType
  <2> QED BY <1>1, <1>3, <1>4, <1>6, <2>1 DEF PoolType
<1>13. OwnerInv' /\ ThreadInv'
  BY <1>1, <1>3 DEF OwnerInv, ThreadInv
<1>14. WaitInv'
  BY <1>1 DEF WaitInv
<1> QED BY <1>7, <1>10, <1>11, <1>12, <1>13, <1>14

\* The worker has run its task.
LEMMA PoolRun ==
    ASSUME PoolInv, NEW w \in WorkerIds, RunTask(w)
    PROVE  PoolInv'
<1> USE DEF PoolInv
<1> DEFINE t == workerTask[w]
<1>1. /\ numWorkers' = numWorkers /\ pool' = pool /\ callerAt' = callerAt /\ submitted' = submitted
      /\ taskQueue' = taskQueue /\ busyWorkers' = busyWorkers /\ isRunning' = isRunning /\ workerTask' = workerTask
      /\ workerAt[w] = "run" /\ workerAt' = [workerAt EXCEPT ![w] = "ran"]
      /\ completed' = completed \cup {t}
  BY DEF RunTask
<1>2. w \in Started /\ w \in Busy /\ w \in PoolThreads /\ "ran" \in WorkerPlaces
  BY <1>1 DEF Started, Busy, PoolThreads, WorkerPlaces
<1>3. /\ workerAt' \in [WorkerIds -> WorkerPlaces] /\ Started' = Started \ {w} /\ Busy' = Busy
      /\ PoolThreads' = PoolThreads
  <2>1. "ran" \in {"run", "ran"} /\ "ran" # "none" /\ "ran" # "run"
    OBVIOUS
  <2>2. /\ workerAt' \in [WorkerIds -> WorkerPlaces] /\ Started' = Started \ {w} /\ Busy' = Busy \cup {w}
        /\ PoolThreads' = PoolThreads \cup {w}
    BY <1>1, <1>2, <2>1, WorkerMoves
  <2> QED BY <1>2, <2>2
<1>4. Taken' = Taken /\ t \in 1 .. Taken /\ t \notin completed
  BY <1>1, <1>2 DEF Taken, TaskInv
<1>5. QueueInv'
  BY <1>1, <1>4 DEF QueueInv
<1>6. TaskInv'
  <2>1. completed' \subseteq 1 .. Taken'
    BY <1>1, <1>4 DEF TaskInv
  <2>2. ASSUME NEW v \in Started' PROVE workerTask'[v] \in 1 .. Taken' /\ workerTask'[v] \notin completed'
    <3>1. v \in Started /\ v # w
      BY <1>3
    <3>2. workerTask[v] # t
      BY <1>2, <3>1 DEF TaskInv
    <3> QED BY <1>1, <1>4, <3>1, <3>2 DEF TaskInv
  <2>3. \A u, v \in Started' : workerTask'[u] = workerTask'[v] => u = v
    BY <1>1, <1>3 DEF TaskInv
  <2>4. ASSUME NEW s \in 1 .. Taken' PROVE s \in completed' \/ \E v \in Started' : workerTask'[v] = s
    <3>1. s \in completed \/ \E v \in Started : workerTask[v] = s
      BY <1>4 DEF TaskInv
    <3> QED BY <1>1, <1>3, <3>1
  <2> QED BY <2>1, <2>2, <2>3, <2>4 DEF TaskInv
<1> HIDE DEF t
<1>7. CountInv'
  <2>1. Cardinality(Started') = Cardinality(Started) - 1 /\ IsFiniteSet(completed)
    BY <1>2, <1>3, PoolSets, FS_RemoveElement DEF CountInv
  <2>2. IsFiniteSet(completed') /\ Cardinality(completed') = Cardinality(completed) + 1
    BY <1>1, <1>4, <2>1, FS_AddElement
  <2>3. /\ Cardinality(completed) \in Nat /\ Cardinality(Started) \in Nat
        /\ Cardinality(completed) + Cardinality(Started) = Taken
    BY <2>1, PoolSets, FS_CardinalityType DEF CountInv
  <2>4. Cardinality(completed') + Cardinality(Started') = Taken'
    BY <1>4, <2>1, <2>2, <2>3, SMTT(30)
  <2>5. busyWorkers' = Cardinality(Busy')
    BY <1>1, <1>3 DEF CountInv
  <2> QED BY <2>2, <2>4, <2>5 DEF CountInv
<1>8. PoolType'
  <2>1. completed' \subseteq Nat
    BY <1>1 DEF PoolType, t
  <2> QED BY <1>1, <1>3, <2>1 DEF PoolType
<1>9. OwnerInv' /\ ThreadInv'
  BY <1>1, <1>3 DEF OwnerInv, ThreadInv
<1>10. WaitInv'
  BY <1>1, <1>3 DEF WaitInv
<1> QED BY <1>5, <1>6, <1>7, <1>8, <1>9, <1>10

\* It is no longer busy.
LEMMA PoolDone ==
    ASSUME PoolInv, NEW w \in WorkerIds, TaskDone(w)
    PROVE  PoolInv'
<1> USE DEF PoolInv
<1>1. /\ numWorkers' = numWorkers /\ pool' = pool /\ callerAt' = callerAt /\ submitted' = submitted
      /\ taskQueue' = taskQueue /\ completed' = completed /\ isRunning' = isRunning /\ workerTask' = workerTask
      /\ workerAt[w] = "ran" /\ workerAt' = [workerAt EXCEPT ![w] = "done"]
      /\ busyWorkers' = busyWorkers - 1
  BY DEF TaskDone
<1>2. w \notin Started /\ w \in Busy /\ w \in PoolThreads /\ "done" \in WorkerPlaces
  BY <1>1 DEF Started, Busy, PoolThreads, WorkerPlaces
<1>3. /\ workerAt' \in [WorkerIds -> WorkerPlaces] /\ Started' = Started /\ Busy' = Busy \ {w}
      /\ PoolThreads' = PoolThreads
  <2>1. "done" \notin {"run", "ran"} /\ "done" # "none" /\ "done" # "run"
    OBVIOUS
  <2>2. /\ workerAt' \in [WorkerIds -> WorkerPlaces] /\ Started' = Started \ {w} /\ Busy' = Busy \ {w}
        /\ PoolThreads' = PoolThreads \cup {w}
    BY <1>1, <1>2, <2>1, WorkerMoves
  <2> QED BY <1>2, <2>2
<1>4. Taken' = Taken
  BY <1>1 DEF Taken
<1>5. QueueInv'
  BY <1>1, <1>4 DEF QueueInv
<1>6. TaskInv'
  BY <1>1, <1>3, <1>4, SMTT(30) DEF TaskInv
<1>7. CountInv'
  <2>1. Cardinality(Busy') = Cardinality(Busy) - 1
    BY <1>2, <1>3, PoolSets, FS_RemoveElement
  <2> QED BY <1>1, <1>3, <1>4, <2>1 DEF CountInv
<1>8. PoolType'
  <2>1. busyWorkers' \in Int
    BY <1>1, SMTT(30) DEF PoolType
  <2> QED BY <1>1, <1>3, <2>1 DEF PoolType
<1>9. OwnerInv' /\ ThreadInv'
  BY <1>1, <1>3 DEF OwnerInv, ThreadInv
<1>10. WaitInv'
  BY <1>1, <1>3 DEF WaitInv
<1> QED BY <1>5, <1>6, <1>7, <1>8, <1>9, <1>10

LEMMA PoolStep ==
    ASSUME PoolInv, [WPNext]_poolVars
    PROVE  PoolInv'
<1>1. CASE UNCHANGED poolVars
  <2>1. /\ numWorkers' = numWorkers /\ pool' = pool /\ callerAt' = callerAt /\ submitted' = submitted
        /\ taskQueue' = taskQueue /\ completed' = completed /\ isRunning' = isRunning /\ workerTask' = workerTask
        /\ workerAt' = workerAt /\ busyWorkers' = busyWorkers
    BY <1>1 DEF poolVars
  <2>2. Started' = Started /\ Busy' = Busy /\ PoolThreads' = PoolThreads
    BY <2>1 DEF Started, Busy, PoolThreads
  <2>3. PoolType' /\ OwnerInv' /\ ThreadInv' /\ WaitInv'
    BY <2>1, <2>2 DEF PoolInv, PoolType, OwnerInv, ThreadInv, WaitInv
  <2> QED BY <2>1, <2>2, <2>3, TasksKept DEF PoolInv
<1>2. ASSUME NEW p \in Callers, CallerStep(p) PROVE PoolInv'
  <2>1. \/ StartupFlag(p) \/ AddThread(p) \/ StartupReturns(p) \/ SubmitTask(p) \/ NotifyWorker(p)
        \/ WaitUntilAllFinished(p) \/ WaitReturns(p) \/ ShutdownFlag(p) \/ NotifyAll(p) \/ JoinWorkers(p)
        \/ SetNumWorkers(p)
    BY <1>2 DEF CallerStep
  <2> QED BY <2>1, PoolCall, PoolTurn, PoolAddThread, PoolJoined, PoolResized, PoolSubmit
<1>3. ASSUME NEW w \in WorkerIds, WorkerStep(w) PROVE PoolInv'
  BY <1>3, PoolTurn, PoolTaken, PoolRun, PoolDone DEF WorkerStep
<1> QED BY <1>1, <1>2, <1>3 DEF WPNext

\* Every task that is submitted to the pool is queued, run by one worker or completed, never
\* two of them and never none; WaitUntilAllFinished tells a lone caller the truth; the
\* threads are those that the pool holds and none is left after Shutdown.  It holds for any
\* number of threads, tasks and restarts.
THEOREM PoolIsAccounted == WPSpec => []PoolAccounts
<1>1. WPInit => PoolInv
  BY PoolInitInv
<1>2. PoolInv /\ [WPNext]_poolVars => PoolInv'
  BY PoolStep
<1>3. PoolInv => PoolAccounts
  <2> SUFFICES ASSUME PoolInv PROVE TasksNeitherLostNorDoubled /\ WaitedForAll /\ ShutdownComplete
    BY DEF PoolAccounts
  <2> USE DEF PoolInv
  <2>1. TasksNeitherLostNorDoubled
    <3> DEFINE queued == {taskQueue[i] : i \in 1 .. Len(taskQueue)}
               taken == {workerTask[w] : w \in Started}
    <3>1. /\ Len(taskQueue) \in Nat /\ submitted \in Nat /\ Taken \in Nat /\ submitted = Taken + Len(taskQueue)
      BY SMTT(30) DEF PoolType, QueueInv, Taken
    <3>2. \A s : s \in 1 .. submitted <=> s \in 1 .. Taken \/ \E i \in 1 .. Len(taskQueue) : s = Taken + i
      <4>1. ASSUME NEW s \in 1 .. submitted, s \notin 1 .. Taken PROVE s - Taken \in 1 .. Len(taskQueue) /\ s = Taken + (s - Taken)
        BY <3>1, <4>1, SMTT(30)
      <4>2. \A s \in 1 .. Taken : s \in 1 .. submitted
        BY <3>1, SMTT(30)
      <4>3. \A i \in 1 .. Len(taskQueue) : Taken + i \in 1 .. submitted
        BY <3>1, SMTT(30)
      <4> QED BY <4>1, <4>2, <4>3
    <3>3. \A s : s \in queued <=> \E i \in 1 .. Len(taskQueue) : s = Taken + i
      BY DEF QueueInv
    <3>4. \A s : s \in taken \cup completed <=> s \in 1 .. Taken
      BY DEF TaskInv
    <3>5. queued \cup taken \cup completed = 1 .. submitted
      <4> HIDE DEF queued, taken
      <4> QED BY <3>2, <3>3, <3>4
    <3>6. Len(taskQueue) + Cardinality(Started) + Cardinality(completed) = submitted
      <4>1. /\ Cardinality(completed) \in Nat /\ Cardinality(Started) \in Nat
            /\ Cardinality(completed) + Cardinality(Started) = Taken
        BY PoolSets, FS_CardinalityType DEF CountInv
      <4> QED BY <3>1, <4>1, SMTT(30)
    <3> QED BY <3>5, <3>6 DEF TasksNeitherLostNorDoubled, Started
  <2>2. WaitedForAll
    <3> SUFFICES ASSUME NEW p \in Callers, callerAt[p] = "waited", Callers = {p} PROVE completed = 1 .. submitted
      BY DEF WaitedForAll
    <3>1. taskQueue = <<>> /\ Busy = {}
      BY DEF WaitInv
    <3>2. Started = {}
      BY <3>1 DEF Started, Busy
    <3>3. Len(<<>>) = 0
      BY SMTT(30)
    <3>4. submitted - 0 = submitted
      BY SMTT(30) DEF PoolType
    <3>5. Taken = submitted
      BY <3>1, <3>3, <3>4 DEF Taken
    <3> QED BY <3>2, <3>5 DEF TaskInv
  <2>3. ShutdownComplete
    <3>1. ASSUME NEW p \in Callers, callerAt[p] = "stopped" PROVE \A w \in WorkerIds : workerAt[w] = "none"
      <4>1. pool = {}
        BY <3>1 DEF OwnerInv
      <4> QED BY <4>1 DEF ThreadInv, PoolThreads
    <3> QED BY <3>1 DEF ShutdownComplete, ThreadInv, PoolThreads
  <2> QED BY <2>1, <2>2, <2>3
<1> QED BY <1>1, <1>2, <1>3, PTL DEF WPSpec
=============================================================================
