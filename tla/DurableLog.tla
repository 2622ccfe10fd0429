------------------------------ MODULE DurableLog ------------------------------
(***************************************************************************)
(* What the log manager promises to transactions and to recovery: log      *)
(* entries are put in one order that never changes, a prefix of them       *)
(* survives a crash, and the commit callback of a transaction is called    *)
(* only when its commit record is in that prefix.                          *)
(***************************************************************************)
EXTENDS Naturals, Sequences

CONSTANTS
    Entry,        \* what a log is made of
    Commits(_),   \* the transactions whose commit record an entry completes
    Silent        \* transactions that write nothing: their callbacks wait for nothing

VARIABLES log, durable, acked

logVars == <<log, durable, acked>>

CommittedBy(n) == UNION {Commits(log[i]) : i \in 1 .. n}

LogInit == log = <<>> /\ durable = 0 /\ acked = {}

LogAppend == (\E e \in Entry : log' = Append(log, e)) /\ UNCHANGED <<durable, acked>>

LogPersist ==
    /\ durable' \in durable .. Len(log)
    /\ acked \subseteq acked'
    /\ acked' \subseteq acked \cup CommittedBy(durable') \cup Silent
    /\ UNCHANGED log

LogSpec == LogInit /\ [][LogAppend \/ LogPersist]_logVars
=============================================================================
