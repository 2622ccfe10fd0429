--------------------------- MODULE SnapshotIsolation ---------------------------
(***************************************************************************)
(* What the transaction layer promises its callers.  A transaction reads   *)
(* from a snapshot taken at one instant, its own writes on top, and its    *)
(* writes appear to others at one instant or never.  A write is possible   *)
(* only while no other active transaction has written the key and nobody   *)
(* has committed to it since the snapshot (first updater wins).            *)
(***************************************************************************)
CONSTANTS
    Txns, Keys,
    Values,   \* what a key may hold, NoTuple included
    NoTuple,  \* the key holds nothing
    Initial,  \* contents of the store at the start
    None      \* no result pending

VARIABLES
    store,     \* committed contents
    status,    \* "idle", "active", "committed" or "aborted"
    snapshot,  \* the store as it was when the transaction began
    writes,    \* the transaction's own writes: a function on the keys written
    stale,     \* keys committed to since the transaction began
    result     \* the answer of the last call, until the caller takes it

siVars == <<store, status, snapshot, writes, stale, result>>

SIInit ==
    /\ store = Initial
    /\ status = [t \in Txns |-> "idle"]
    /\ snapshot = [t \in Txns |-> Initial]
    /\ writes = [t \in Txns |-> <<>>]
    /\ stale = [t \in Txns |-> {}]
    /\ result = [t \in Txns |-> None]

\* f with the values of g where g is defined.
Overlay(f, g) ==
    [k \in DOMAIN f \cup DOMAIN g |-> IF k \in DOMAIN g THEN g[k] ELSE f[k]]

Begin(t) ==
    /\ status[t] = "idle"
    /\ status' = [status EXCEPT ![t] = "active"]
    /\ snapshot' = [snapshot EXCEPT ![t] = store]
    /\ UNCHANGED <<store, writes, stale, result>>

Answer(t, answer) ==
    /\ status[t] = "active" /\ result[t] = None
    /\ result' = [result EXCEPT ![t] = answer]
    /\ UNCHANGED <<store, status, snapshot, writes, stale>>

Read(t, k) == Answer(t, [key |-> k, value |-> Overlay(snapshot[t], writes[t])[k]])

Exists(t, k) == Answer(t, [key |-> k, exists |-> Overlay(snapshot[t], writes[t])[k] # NoTuple])

Take(t) ==
    /\ result[t] # None
    /\ result' = [result EXCEPT ![t] = None]
    /\ UNCHANGED <<store, status, snapshot, writes, stale>>

Write(t, k, v) ==
    /\ status[t] = "active" /\ result[t] = None
    /\ k \notin stale[t]
    /\ \A u \in Txns \ {t} : status[u] = "active" => k \notin DOMAIN writes[u]
    /\ writes' = [writes EXCEPT ![t] = Overlay(@, [j \in {k} |-> v])]
    /\ UNCHANGED <<store, status, snapshot, stale, result>>

Commit(t) ==
    /\ status[t] = "active" /\ result[t] = None
    /\ status' = [status EXCEPT ![t] = "committed"]
    /\ store' = Overlay(store, writes[t])
    /\ stale' = [u \in Txns |-> IF u = t THEN {}
                                ELSE IF status[u] = "active" THEN stale[u] \cup DOMAIN writes[t]
                                ELSE stale[u]]
    /\ writes' = [writes EXCEPT ![t] = <<>>]
    /\ UNCHANGED <<snapshot, result>>

Abort(t) ==
    /\ status[t] = "active" /\ result[t] = None
    /\ status' = [status EXCEPT ![t] = "aborted"]
    /\ writes' = [writes EXCEPT ![t] = <<>>]
    /\ stale' = [stale EXCEPT ![t] = {}]
    /\ UNCHANGED <<store, snapshot, result>>

SINext ==
    \E t \in Txns :
        \/ Begin(t) \/ Commit(t) \/ Abort(t) \/ Take(t)
        \/ \E k \in Keys : Read(t, k) \/ Exists(t, k) \/ \E v \in Values : Write(t, k, v)

SISpec == SIInit /\ [][SINext]_siVars
=============================================================================
