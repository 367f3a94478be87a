---------------------------- MODULE BboltBackend ----------------------------
(***************************************************************************)
(* The persistent backend (backend/bbolt.go), one bucket of a bbolt        *)
(* database.  Of bbolt itself the adapter relies on this: Update runs one  *)
(* function at a time, on the bucket as it is, and commits what it wrote   *)
(* on disk or, if it fails, nothing; View runs beside it on what was       *)
(* committed when it began; Close waits for both; a crash leaves what was  *)
(* committed.  That it implements KeyValue, across crashes and reopenings, *)
(* is stated in Backends.                                                  *)
(*                                                                         *)
(* A View or an Update in which the adapter does one thing is one step;    *)
(* the steps of a Scan and of a Tx, which call back, are separate.  That   *)
(* what is read is copied out of the transaction has no counterpart here.  *)
(***************************************************************************)
EXTENDS Integers

CONSTANTS Thread, Key, Value, Prefixes, None

VARIABLES
    data,      \* the committed bucket, None for a key that is not in it
    bucket,    \* whether the database has the bucket
    readOnly,  \* Options.ReadOnly
    closed,
    holder,    \* the thread whose Update runs, or None
    work,      \* the bucket as that transaction sees it
    scan,      \* per thread, what the cursor of its View has yet to reach
    answer     \* per thread, what the last call returned or passed on

boltVars == <<data, bucket, readOnly, closed, holder, work, scan, answer>>

Nothing == [k \in {} |-> None]
Untouched == [k \in Key |-> None]
Records(map, K) == [k \in {q \in K : map[q] # None} |-> map[k]]
Says(kind, records) == [kind |-> kind, records |-> records]
Replies(t, kind, records) == answer' = [answer EXCEPT ![t] = Says(kind, records)]
Scanning(t) == DOMAIN scan[t] # {}
Calls(t) == holder # t /\ ~Scanning(t)

\* The database of an earlier run, opened; only a writable one gets the bucket it lacks.
BoltInit ==
    /\ bucket \in BOOLEAN /\ readOnly \in BOOLEAN
    /\ readOnly \/ bucket
    /\ data \in [Key -> Value \cup {None}]
    /\ ~bucket => data = Untouched
    /\ closed = FALSE
    /\ holder = None /\ work = Untouched
    /\ scan = [t \in Thread |-> Nothing]
    /\ answer = [t \in Thread |-> Says("none", Nothing)]

\* Where a View and an Update find their bucket.
CanView == ~closed /\ bucket
CanUpdate == ~closed /\ ~readOnly /\ holder = None

Put(t, k, v) ==
    /\ Calls(t) /\ CanUpdate
    /\ data' = [data EXCEPT ![k] = v]
    /\ Replies(t, "done", Nothing)
    /\ UNCHANGED <<bucket, readOnly, closed, holder, work, scan>>

Delete(t, k) ==
    /\ Calls(t) /\ CanUpdate
    /\ data' = [data EXCEPT ![k] = None]
    /\ Replies(t, "done", Nothing)
    /\ UNCHANGED <<bucket, readOnly, closed, holder, work, scan>>

Get(t, k) ==
    /\ Calls(t) /\ CanView
    /\ Replies(t, "records", Records(data, {k}))
    /\ UNCHANGED <<data, bucket, readOnly, closed, holder, work, scan>>

GetMulti(t, K) ==
    /\ Calls(t) /\ CanView
    /\ Replies(t, "records", Records(data, K))
    /\ UNCHANGED <<data, bucket, readOnly, closed, holder, work, scan>>

\* The context is done, the database is closed or read-only, or the bucket is missing.
Refuse(t) ==
    /\ Calls(t)
    /\ Replies(t, "error", Nothing)
    /\ UNCHANGED <<data, bucket, readOnly, closed, holder, work, scan>>

\* The View is fixed here, its cursor moves in Visit.
Scan(t, P) ==
    /\ Calls(t) /\ CanView
    /\ scan' = [scan EXCEPT ![t] = Records(data, P)]
    /\ Replies(t, "done", Nothing)
    /\ UNCHANGED <<data, bucket, readOnly, closed, holder, work>>

Visit(t) ==
    \E k \in DOMAIN scan[t] :
      /\ \A q \in DOMAIN scan[t] : k <= q
      /\ Replies(t, "records", [q \in {k} |-> scan[t][k]])
      /\ scan' = [scan EXCEPT ![t] = [q \in DOMAIN scan[t] \ {k} |-> scan[t][q]]]
      /\ UNCHANGED <<data, bucket, readOnly, closed, holder, work>>

\* The callback gets the next pair and returns an error, which ends the View.
EndScan(t) ==
    /\ Scanning(t)
    /\ scan' = [scan EXCEPT ![t] = Nothing]
    /\ Replies(t, "error", Nothing)
    /\ UNCHANGED <<data, bucket, readOnly, closed, holder, work>>

BeginTx(t) ==
    /\ Calls(t) /\ CanUpdate
    /\ holder' = t /\ work' = data
    /\ UNCHANGED <<data, bucket, readOnly, closed, scan, answer>>

TxPut(t, k, v) ==
    /\ holder = t
    /\ work' = [work EXCEPT ![k] = v]
    /\ UNCHANGED <<data, bucket, readOnly, closed, holder, scan, answer>>

TxDelete(t, k) ==
    /\ holder = t
    /\ work' = [work EXCEPT ![k] = None]
    /\ UNCHANGED <<data, bucket, readOnly, closed, holder, scan, answer>>

TxGet(t, k) ==
    /\ holder = t
    /\ Replies(t, "records", Records(work, {k}))
    /\ UNCHANGED <<data, bucket, readOnly, closed, holder, work, scan>>

Commit(t) ==
    /\ holder = t
    /\ data' = work
    /\ holder' = None /\ work' = Untouched
    /\ Replies(t, "done", Nothing)
    /\ UNCHANGED <<bucket, readOnly, closed, scan>>

\* Faulty variant of Rollback: the adapter returns the error behind Update's back, which
\* takes the function for one that succeeded.
RollbackLate(t) ==
    /\ holder = t
    /\ data' = work
    /\ holder' = None /\ work' = Untouched
    /\ Replies(t, "error", Nothing)
    /\ UNCHANGED <<bucket, readOnly, closed, scan>>

Rollback(t) ==
    /\ holder = t
    /\ holder' = None /\ work' = Untouched
    /\ Replies(t, "error", Nothing)
    /\ UNCHANGED <<data, bucket, readOnly, closed, scan>>

\* Waits for the Update and for every View.
Close(t) ==
    /\ Calls(t) /\ holder = None
    /\ \A q \in Thread : ~Scanning(q)
    /\ closed' = TRUE
    /\ Replies(t, "done", Nothing)
    /\ UNCHANGED <<data, bucket, readOnly, holder, work, scan>>

\* The process dies, or has closed the backend, and opens it again.
Reopen ==
    /\ readOnly' \in BOOLEAN
    /\ bucket' = (bucket \/ ~readOnly')
    /\ closed' = FALSE
    /\ holder' = None /\ work' = Untouched
    /\ scan' = [t \in Thread |-> Nothing]
    /\ answer' = [t \in Thread |-> Says("none", Nothing)]
    /\ UNCHANGED data

BoltNext ==
    \/ \E t \in Thread :
         \/ \E k \in Key, v \in Value : Put(t, k, v) \/ TxPut(t, k, v)
         \/ \E k \in Key : Delete(t, k) \/ Get(t, k) \/ TxDelete(t, k) \/ TxGet(t, k)
         \/ \E K \in SUBSET Key : GetMulti(t, K)
         \/ \E P \in Prefixes : Scan(t, P)
         \/ Visit(t) \/ EndScan(t)
         \/ BeginTx(t) \/ Commit(t) \/ Rollback(t)
         \/ Refuse(t) \/ Close(t)
    \/ Reopen

BoltSpec == BoltInit /\ [][BoltNext]_boltVars
=============================================================================
