------------------------------ MODULE Backends ------------------------------
(***************************************************************************)
(* The index has one of two backends, and relies on either for the same:   *)
(* that it is the map of KeyValue.  What the two have in common shares its *)
(* variables.                                                              *)
(***************************************************************************)
EXTENDS MemoryBackend

VARIABLES
    backend,                  \* which one the index has
    bucket, readOnly, work    \* of BboltBackend

memoryOnly == <<writes, deletes, merged>>
bboltOnly == <<bucket, readOnly, work>>

Bolt == INSTANCE BboltBackend

\* No record that describes a transaction stands for its absence.
ASSUME NoTxAssumption ==
    None \notin [by : Thread, view : [Key -> Value \cup {None}]]

BackendInit ==
    \/ /\ backend = "memory" /\ MemInit
       /\ bucket = FALSE /\ readOnly = FALSE /\ work = NoWrites
    \/ /\ backend = "bbolt" /\ Bolt!BoltInit
       /\ writes = NoWrites /\ deletes = {} /\ merged = FALSE

BackendNext ==
    /\ \/ backend = "memory" /\ MemNext /\ UNCHANGED bboltOnly
       \/ backend = "bbolt" /\ Bolt!BoltNext /\ UNCHANGED memoryOnly
    /\ UNCHANGED backend

backendVars == <<vars, backend, bboltOnly>>

BackendSpec == BackendInit /\ [][BackendNext]_backendVars

-----------------------------------------------------------------------------
(* The map that the index relies on                                        *)

\* The map as others see it.  The merge of MemoryBackend counts as done from its first
\* step: until the last one nobody else gets the mutex.
Committed == [k \in Key |-> IF merged /\ k \in deletes THEN None ELSE data[k]]

\* What the transaction under way sees: bbolt's works on the bucket itself, the other one
\* on what it has staged.
View == IF backend = "memory" THEN [k \in Key |-> Seen(k)] ELSE work

Transaction == IF holder = None \/ merged THEN None ELSE [by |-> holder, view |-> View]

\* A merge that has begun will be answered so.
Answers == IF merged THEN [answer EXCEPT ![holder] = Says("done", Nothing)] ELSE answer

\* Either backend is the map on which the index relies: one transaction at a time, which
\* sees its own writes and takes effect as a whole or not at all; scans of what was there at
\* one moment; and, with bbolt, nothing lost by a crash.
KV == INSTANCE KeyValue WITH data <- Committed, tx <- Transaction, answer <- Answers
BothImplementKeyValue == KV!KVSpec
=============================================================================
