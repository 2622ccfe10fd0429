--------------------------- MODULE TimestampManager ---------------------------
(***************************************************************************)
(* transaction::TimestampManager: the clock of the system and the set of   *)
(* the start times of the transactions that have not left it.              *)
(*                                                                         *)
(* A C++ timestamp is a 64-bit word.  Read as a signed number, the         *)
(* timestamps handed out by the clock are >= 0 and a transaction id        *)
(* (start_time + INT64_MIN) is negative; NewerThan compares the words as   *)
(* unsigned numbers, so every transaction id is newer than every clock     *)
(* value.  Here a timestamp is that signed number; the offset INT64_MIN is *)
(* replaced by one that works for a clock without bound.                   *)
(***************************************************************************)
EXTENDS Integers, FiniteSets

VARIABLES
    time,                         \* time_
    curr_running_txns,            \* curr_running_txns_, a set of start times
    cached_oldest_txn_start_time  \* cached_oldest_txn_start_time_

tmVars == <<time, curr_running_txns, cached_oldest_txn_start_time>>

Timestamp == Int

\* The id a transaction carries until it finishes.
TxnId(start_time) == -1 - start_time

Committed(ts) == ts >= 0

\* a > b on unsigned words: an id beats every clock value, and of two ids the
\* one of the later start is the larger word.
NewerThan(a, b) ==
    IF Committed(a) THEN Committed(b) /\ a > b ELSE Committed(b) \/ a < b

-----------------------------------------------------------------------------
\* Timestamp 0 stands for everything that happened before the modelled part.
TMInit ==
    /\ time = 1
    /\ curr_running_txns = {}
    /\ cached_oldest_txn_start_time = 0

\* time_++: the caller's timestamp is the old value of time.
CheckOutTimestamp == time' = time + 1

\* Under curr_running_txns_latch_: the start time and its registration.
BeginTimestamp ==
    /\ CheckOutTimestamp
    /\ curr_running_txns' = curr_running_txns \cup {time}

\* What OldestTransactionStartTime returns in the current state.
OldestRunning ==
    IF curr_running_txns = {} THEN time
    ELSE CHOOSE m \in curr_running_txns : \A s \in curr_running_txns : m <= s

\* OldestTransactionStartTime: the result is OldestRunning, and it is cached.
OldestTransactionStartTime == cached_oldest_txn_start_time' = OldestRunning

RemoveTransaction(start_time) ==
    curr_running_txns' = curr_running_txns \ {start_time}

\* Bulk removal by the log serializer.
RemoveTransactions(start_times) ==
    curr_running_txns' = curr_running_txns \ start_times

-----------------------------------------------------------------------------
TMTypeOK ==
    /\ time \in Nat \ {0}
    /\ curr_running_txns \in SUBSET Nat
    /\ cached_oldest_txn_start_time \in Nat

\* The promise of OldestTransactionStartTime and of its cached variant
\* (timestamp_manager.h:40 and :51): the timestamp handed out is not newer
\* than the start of any transaction alive, nor of one that begins later.
OldestIsOldest ==
    /\ \A s \in curr_running_txns : cached_oldest_txn_start_time <= s
    /\ cached_oldest_txn_start_time <= time
=============================================================================
