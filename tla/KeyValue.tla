------------------------------ MODULE KeyValue ------------------------------
(***************************************************************************)
(* What the index asks of a backend (index.Backend): a map from keys to    *)
(* values in which every operation takes effect at one moment, and a       *)
(* transaction as a whole or not at all; that sees its own writes, and     *)
(* nobody else's; a scan that visits, in order, what the map held at one   *)
(* moment; and, once closed, only errors.  BlobIndex, whose actions are    *)
(* whole transactions, rests on this.                                      *)
(***************************************************************************)
EXTENDS Integers

CONSTANTS
    Thread,
    Key,        \* numbers: their order is that of the keys
    Value,
    Prefixes,   \* the sets of keys that are scanned
    None        \* in place of a value: no record

VARIABLES
    data,       \* the committed records
    closed,
    tx,         \* the transaction under way: whose it is, and what it sees; or None
    scan,       \* per thread, what its scan has yet to visit
    answer      \* per thread, what the last call returned or passed to the callback

kvVars == <<data, closed, tx, scan, answer>>

Nothing == [k \in {} |-> None]
Records(map, K) == [k \in {q \in K : map[q] # None} |-> map[k]]
Says(kind, records) == [kind |-> kind, records |-> records]
Replies(t, kind, records) == answer' = [answer EXCEPT ![t] = Says(kind, records)]
Scanning(t) == DOMAIN scan[t] # {}

\* A thread that is neither in a transaction nor in a scan.
Idle(t) == ~Scanning(t) /\ (tx # None => tx.by # t)
InTx(t) == tx # None /\ tx.by = t

KVInit ==
    /\ data \in [Key -> Value \cup {None}]
    /\ closed = FALSE
    /\ tx = None
    /\ scan = [t \in Thread |-> Nothing]
    /\ answer = [t \in Thread |-> Says("none", Nothing)]

Put(t, k, v) ==
    /\ Idle(t) /\ ~closed /\ tx = None
    /\ data' = [data EXCEPT ![k] = v]
    /\ Replies(t, "done", Nothing)
    /\ UNCHANGED <<closed, tx, scan>>

Delete(t, k) ==
    /\ Idle(t) /\ ~closed /\ tx = None
    /\ data' = [data EXCEPT ![k] = None]
    /\ Replies(t, "done", Nothing)
    /\ UNCHANGED <<closed, tx, scan>>

\* Get and GetMulti: what is there of the keys asked for.
Get(t, K) ==
    /\ Idle(t) /\ ~closed
    /\ Replies(t, "records", Records(data, K))
    /\ UNCHANGED <<data, closed, tx, scan>>

Scan(t, P) ==
    /\ Idle(t) /\ ~closed
    /\ scan' = [scan EXCEPT ![t] = Records(data, P)]
    /\ Replies(t, "done", Nothing)
    /\ UNCHANGED <<data, closed, tx>>

Visit(t) ==
    \E k \in DOMAIN scan[t] :
      /\ \A q \in DOMAIN scan[t] : k <= q
      /\ Replies(t, "records", [q \in {k} |-> scan[t][k]])
      /\ scan' = [scan EXCEPT ![t] = [q \in DOMAIN scan[t] \ {k} |-> scan[t][q]]]
      /\ UNCHANGED <<data, closed, tx>>

\* The callback returned an error.
EndScan(t) ==
    /\ Scanning(t)
    /\ scan' = [scan EXCEPT ![t] = Nothing]
    /\ Replies(t, "error", Nothing)
    /\ UNCHANGED <<data, closed, tx>>

BeginTx(t) ==
    /\ Idle(t) /\ ~closed /\ tx = None
    /\ tx' = [by |-> t, view |-> data]
    /\ UNCHANGED <<data, closed, scan, answer>>

TxPut(t, k, v) ==
    /\ InTx(t)
    /\ tx' = [tx EXCEPT !.view = [tx.view EXCEPT ![k] = v]]
    /\ UNCHANGED <<data, closed, scan, answer>>

TxDelete(t, k) ==
    /\ InTx(t)
    /\ tx' = [tx EXCEPT !.view = [tx.view EXCEPT ![k] = None]]
    /\ UNCHANGED <<data, closed, scan, answer>>

TxGet(t, k) ==
    /\ InTx(t)
    /\ Replies(t, "records", Records(tx.view, {k}))
    /\ UNCHANGED <<data, closed, tx, scan>>

Commit(t) ==
    /\ InTx(t)
    /\ data' = tx.view
    /\ tx' = None
    /\ Replies(t, "done", Nothing)
    /\ UNCHANGED <<closed, scan>>

Rollback(t) ==
    /\ InTx(t)
    /\ tx' = None
    /\ Replies(t, "error", Nothing)
    /\ UNCHANGED <<data, closed, scan>>

\* A call that fails has done nothing.
Refuse(t) ==
    /\ Idle(t)
    /\ Replies(t, "error", Nothing)
    /\ UNCHANGED <<data, closed, tx, scan>>

Close(t) ==
    /\ Idle(t) /\ tx = None
    /\ closed' = TRUE
    /\ Replies(t, "done", Nothing)
    /\ UNCHANGED <<data, tx, scan>>

\* The process dies and the backend is opened anew: what was committed is there.
Restart ==
    /\ closed' = FALSE
    /\ tx' = None
    /\ scan' = [t \in Thread |-> Nothing]
    /\ answer' = [t \in Thread |-> Says("none", Nothing)]
    /\ UNCHANGED data

KVNext ==
    \/ \E t \in Thread :
         \/ \E k \in Key, v \in Value : Put(t, k, v) \/ TxPut(t, k, v)
         \/ \E k \in Key : Delete(t, k) \/ TxDelete(t, k) \/ TxGet(t, k)
         \/ \E K \in SUBSET Key : Get(t, K)
         \/ \E P \in Prefixes : Scan(t, P)
         \/ Visit(t) \/ EndScan(t)
         \/ BeginTx(t) \/ Commit(t) \/ Rollback(t)
         \/ Refuse(t) \/ Close(t)
    \/ Restart

KVSpec == KVInit /\ [][KVNext]_kvVars
=============================================================================
