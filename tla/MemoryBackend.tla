--------------------------- MODULE MemoryBackend ---------------------------
(***************************************************************************)
(* The in-memory backend (MemoryBackend, index.go): a map under a RWMutex. *)
(* A transaction holds the mutex while its function runs, keeps what it    *)
(* writes and deletes apart, and merges both into the map at the end.  A   *)
(* scan copies what it will visit under the mutex and calls its function   *)
(* after releasing it.  That it implements KeyValue is stated in Backends. *)
(*                                                                         *)
(* A call that takes the mutex, looks at the map or changes one record and *)
(* gives the mutex back is one step: its guard is that nobody holds the    *)
(* mutex exclusively (readers exclude nothing that a step of theirs could  *)
(* be interrupted by).  The bytes that are copied in and out are values.   *)
(***************************************************************************)
EXTENDS Integers

CONSTANTS Thread, Key, Value, Prefixes, None

ASSUME BackendAssumption ==
    /\ Key \subseteq Nat
    /\ None \notin Value /\ None \notin Thread
    /\ Prefixes \subseteq SUBSET Key

VARIABLES
    data,       \* m.data, None for a key that is not in the map
    closed,
    holder,     \* the thread whose transaction holds mu, or None
    writes,     \* of the memTx, None for a key that is not in it
    deletes,
    merged,     \* Tx has copied the writes and not yet applied the deletes
    scan,       \* per thread, the pairs its Scan has yet to pass on
    answer      \* per thread, what the last call returned or passed on

vars == <<data, closed, holder, writes, deletes, merged, scan, answer>>

Nothing == [k \in {} |-> None]
NoWrites == [k \in Key |-> None]
Records(map, K) == [k \in {q \in K : map[q] # None} |-> map[k]]
Says(kind, records) == [kind |-> kind, records |-> records]
Replies(t, kind, records) == answer' = [answer EXCEPT ![t] = Says(kind, records)]

\* A thread that starts a call: it is not in a callback of another one.
Calls(t) == holder # t /\ DOMAIN scan[t] = {}

\* One that has the mutex for the length of a step.
Locks(t) == Calls(t) /\ holder = None

MemInit ==
    /\ data = [k \in Key |-> None]
    /\ closed = FALSE
    /\ holder = None
    /\ writes = NoWrites /\ deletes = {} /\ merged = FALSE
    /\ scan = [t \in Thread |-> Nothing]
    /\ answer = [t \in Thread |-> Says("none", Nothing)]

-----------------------------------------------------------------------------
(* Single operations                                                       *)

Put(t, k, v) ==
    /\ Locks(t) /\ ~closed
    /\ data' = [data EXCEPT ![k] = v]
    /\ Replies(t, "done", Nothing)
    /\ UNCHANGED <<closed, holder, writes, deletes, merged, scan>>

Delete(t, k) ==
    /\ Locks(t) /\ ~closed
    /\ data' = [data EXCEPT ![k] = None]
    /\ Replies(t, "done", Nothing)
    /\ UNCHANGED <<closed, holder, writes, deletes, merged, scan>>

Get(t, k) ==
    /\ Locks(t) /\ ~closed
    /\ Replies(t, "records", Records(data, {k}))
    /\ UNCHANGED <<data, closed, holder, writes, deletes, merged, scan>>

GetMulti(t, K) ==
    /\ Locks(t) /\ ~closed
    /\ Replies(t, "records", Records(data, K))
    /\ UNCHANGED <<data, closed, holder, writes, deletes, merged, scan>>

\* Every call on a closed backend.
Refuse(t) ==
    /\ Locks(t) /\ closed
    /\ Replies(t, "error", Nothing)
    /\ UNCHANGED <<data, closed, holder, writes, deletes, merged, scan>>

Close(t) ==
    /\ Locks(t)
    /\ closed' = TRUE
    /\ Replies(t, "done", Nothing)
    /\ UNCHANGED <<data, holder, writes, deletes, merged, scan>>

-----------------------------------------------------------------------------
(* Scan                                                                    *)

\* The pairs are copied under the mutex, which is then released.
Scan(t, P) ==
    /\ Locks(t) /\ ~closed
    /\ scan' = [scan EXCEPT ![t] = Records(data, P)]
    /\ Replies(t, "done", Nothing)
    /\ UNCHANGED <<data, closed, holder, writes, deletes, merged>>

\* The callback gets the next pair in the order of the keys.
Visit(t) ==
    \E k \in DOMAIN scan[t] :
      /\ \A q \in DOMAIN scan[t] : k <= q
      /\ Replies(t, "records", [q \in {k} |-> scan[t][k]])
      /\ scan' = [scan EXCEPT ![t] = [q \in DOMAIN scan[t] \ {k} |-> scan[t][q]]]
      /\ UNCHANGED <<data, closed, holder, writes, deletes, merged>>

\* The callback gets the next pair and returns an error.
EndScan(t) ==
    /\ DOMAIN scan[t] # {}
    /\ scan' = [scan EXCEPT ![t] = Nothing]
    /\ Replies(t, "error", Nothing)
    /\ UNCHANGED <<data, closed, holder, writes, deletes, merged>>

-----------------------------------------------------------------------------
(* Tx                                                                      *)

\* The function of the transaction runs.
InTx(t) == holder = t /\ ~merged

BeginTx(t) ==
    /\ Locks(t) /\ ~closed
    /\ holder' = t
    /\ writes' = NoWrites /\ deletes' = {}
    /\ UNCHANGED <<data, closed, merged, scan, answer>>

\* Faulty variant of TxPut: an earlier delete of the key stays in place.
TxPutOnly(t, k, v) ==
    /\ InTx(t)
    /\ writes' = [writes EXCEPT ![k] = v]
    /\ UNCHANGED <<data, closed, holder, deletes, merged, scan, answer>>

TxPut(t, k, v) ==
    /\ InTx(t)
    /\ writes' = [writes EXCEPT ![k] = v]
    /\ deletes' = deletes \ {k}
    /\ UNCHANGED <<data, closed, holder, merged, scan, answer>>

\* Faulty variant of TxDelete: an earlier write of the key is merged all the same.
TxDeleteOnly(t, k) ==
    /\ InTx(t)
    /\ deletes' = deletes \cup {k}
    /\ UNCHANGED <<data, closed, holder, writes, merged, scan, answer>>

TxDelete(t, k) ==
    /\ InTx(t)
    /\ writes' = [writes EXCEPT ![k] = None]
    /\ deletes' = deletes \cup {k}
    /\ UNCHANGED <<data, closed, holder, merged, scan, answer>>

\* What the transaction sees of a key.
Seen(k) == IF k \in deletes THEN None ELSE IF writes[k] # None THEN writes[k] ELSE data[k]

TxGet(t, k) ==
    /\ InTx(t)
    /\ Replies(t, "records", IF Seen(k) = None THEN Nothing ELSE [q \in {k} |-> Seen(k)])
    /\ UNCHANGED <<data, closed, holder, writes, deletes, merged, scan>>

\* The function returned no error: maps.Copy.
MergeWrites(t) ==
    /\ InTx(t)
    /\ data' = [k \in Key |-> IF writes[k] # None THEN writes[k] ELSE data[k]]
    /\ merged' = TRUE
    /\ UNCHANGED <<closed, holder, writes, deletes, scan, answer>>

\* The deletes, and the mutex is given back.
MergeDeletes(t) ==
    /\ holder = t /\ merged
    /\ data' = [k \in Key |-> IF k \in deletes THEN None ELSE data[k]]
    /\ holder' = None /\ merged' = FALSE
    /\ writes' = NoWrites /\ deletes' = {}
    /\ Replies(t, "done", Nothing)
    /\ UNCHANGED <<closed, scan>>

\* It returned an error.
Rollback(t) ==
    /\ InTx(t)
    /\ holder' = None
    /\ writes' = NoWrites /\ deletes' = {}
    /\ Replies(t, "error", Nothing)
    /\ UNCHANGED <<data, closed, merged, scan>>

MemNext ==
    \E t \in Thread :
      \/ \E k \in Key, v \in Value : Put(t, k, v) \/ TxPut(t, k, v)
      \/ \E k \in Key : Delete(t, k) \/ Get(t, k) \/ TxDelete(t, k) \/ TxGet(t, k)
      \/ \E K \in SUBSET Key : GetMulti(t, K)
      \/ \E P \in Prefixes : Scan(t, P)
      \/ Visit(t) \/ EndScan(t)
      \/ BeginTx(t) \/ MergeWrites(t) \/ MergeDeletes(t) \/ Rollback(t)
      \/ Refuse(t) \/ Close(t)

MemSpec == MemInit /\ [][MemNext]_vars

-----------------------------------------------------------------------------
(* Properties                                                              *)

SomeRecords == UNION {[K -> Value] : K \in SUBSET Key}

\* The types of the backend's state; outside a transaction nothing is staged, and no key
\* is both written and deleted in one.
MemTypeOK ==
    /\ data \in [Key -> Value \cup {None}]
    /\ closed \in BOOLEAN /\ merged \in BOOLEAN
    /\ holder \in Thread \cup {None}
    /\ writes \in [Key -> Value \cup {None}]
    /\ deletes \subseteq Key
    /\ scan \in [Thread -> SomeRecords]
    /\ answer \in [Thread -> [kind : {"none", "done", "records", "error"}, records : SomeRecords]]
    /\ holder = None => writes = NoWrites /\ deletes = {} /\ ~merged
    /\ \A k \in deletes : writes[k] = None
=============================================================================
