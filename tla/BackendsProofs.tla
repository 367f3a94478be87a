--------------------------- MODULE BackendsProofs ---------------------------
(***************************************************************************)
(* Proofs about the two backends, for any threads, keys, values and        *)
(* prefixes: the types, and that either implements the map of KeyValue.    *)
(***************************************************************************)
EXTENDS Backends, TLAPS

-----------------------------------------------------------------------------
(* The inductive invariant                                                 *)

\* The thread whose transaction runs is in no scan: what a scan under way elsewhere answers
\* is never the answer of a transaction.
TxIsNotInScan == \A t \in Thread : holder = t => DOMAIN scan[t] = {}

\* bbolt stages nothing.
BoltStagesNothing == backend = "bbolt" => writes = NoWrites /\ deletes = {} /\ ~merged

BackendInv ==
    /\ MemTypeOK
    /\ backend \in {"memory", "bbolt"}
    /\ work \in [Key -> Value \cup {None}]
    /\ TxIsNotInScan
    /\ BoltStagesNothing

-----------------------------------------------------------------------------
(* What calls answer                                                       *)

Maps == [Key -> Value \cup {None}]

LEMMA NothingIsRecords == Nothing \in SomeRecords
<1>1. Nothing \in [{} -> Value]
    BY DEF Nothing
<1> QED
    BY <1>1 DEF SomeRecords

LEMMA RecordsAreRecords ==
    ASSUME NEW map \in Maps, NEW K \in SUBSET Key
    PROVE  Records(map, K) \in SomeRecords
<1> DEFINE D == {q \in K : map[q] # None}
<1>1. D \in SUBSET Key
    OBVIOUS
<1>2. [k \in D |-> map[k]] \in [D -> Value]
    BY DEF Maps
<1> QED
    BY <1>1, <1>2 DEF Records, SomeRecords

LEMMA PartIsRecords ==
    ASSUME NEW r \in SomeRecords, NEW K \in SUBSET DOMAIN r
    PROVE  [q \in K |-> r[q]] \in SomeRecords
<1>1. PICK D \in SUBSET Key : r \in [D -> Value]
    BY DEF SomeRecords
<1>2. [q \in K |-> r[q]] \in [K -> Value]
    BY <1>1
<1> QED
    BY <1>1, <1>2 DEF SomeRecords

\* The backends are written alike.
LEMMA BoltRecords ==
    ASSUME NEW map, NEW K
    PROVE  Bolt!Records(map, K) = Records(map, K)
BY DEF Bolt!Records, Records

Answer == [kind : {"none", "done", "records", "error"}, records : SomeRecords]

LEMMA ReplyIsAnswer ==
    ASSUME answer \in [Thread -> Answer], NEW t \in Thread,
           NEW kind \in {"none", "done", "records", "error"}, NEW r \in SomeRecords,
           Replies(t, kind, r)
    PROVE  answer' \in [Thread -> Answer]
BY DEF Replies, Says, Answer

-----------------------------------------------------------------------------
(* The invariant holds                                                     *)

LEMMA InitInv == BackendInit => BackendInv
<1> SUFFICES ASSUME BackendInit PROVE BackendInv
    OBVIOUS
<1>1. /\ scan = [t \in Thread |-> Nothing]
      /\ answer = [t \in Thread |-> Says("none", Nothing)]
      /\ holder = None /\ closed = FALSE
      /\ writes = NoWrites /\ deletes = {} /\ merged = FALSE
      /\ data \in Maps /\ work \in Maps
      /\ backend \in {"memory", "bbolt"}
    BY DEF BackendInit, MemInit, Bolt!BoltInit, Bolt!Nothing, Nothing, Bolt!Says, Says,
           Bolt!Untouched, NoWrites, Maps
<1>2. scan \in [Thread -> SomeRecords]
    BY <1>1, NothingIsRecords
<1>3. answer \in [Thread -> Answer]
    BY <1>1, NothingIsRecords DEF Says, Answer
<1>4. MemTypeOK
    BY <1>1, <1>2, <1>3 DEF MemTypeOK, Maps, NoWrites, Answer
<1>5. TxIsNotInScan
    BY <1>1, BackendAssumption DEF TxIsNotInScan
<1> QED
    BY <1>1, <1>4, <1>5 DEF BackendInv, BoltStagesNothing, Maps

\* What the parts of the state that a step changes have to be.
LEMMA Keeps ==
    ASSUME BackendInv, backend' = backend,
           data' \in Maps, work' \in Maps, closed' \in BOOLEAN, merged' \in BOOLEAN,
           holder' \in Thread \cup {None}, writes' \in Maps, deletes' \in SUBSET Key,
           scan' \in [Thread -> SomeRecords], answer' \in [Thread -> Answer],
           holder' = None => writes' = NoWrites /\ deletes' = {} /\ ~merged',
           \A k \in deletes' : writes'[k] = None,
           TxIsNotInScan',
           backend = "bbolt" => UNCHANGED memoryOnly
    PROVE  BackendInv'
<1>1. MemTypeOK'
    BY DEF MemTypeOK, Maps, Answer, NoWrites
<1> QED
    BY <1>1 DEF BackendInv, BoltStagesNothing, memoryOnly, Maps, NoWrites

\* What the invariant says of the state, part by part.
LEMMA Has ==
    ASSUME BackendInv
    PROVE  /\ data \in Maps /\ work \in Maps /\ writes \in Maps /\ deletes \in SUBSET Key
           /\ closed \in BOOLEAN /\ merged \in BOOLEAN /\ holder \in Thread \cup {None}
           /\ scan \in [Thread -> SomeRecords] /\ answer \in [Thread -> Answer]
           /\ holder = None => writes = NoWrites /\ deletes = {} /\ ~merged
           /\ \A k \in deletes : writes[k] = None
           /\ TxIsNotInScan
           /\ backend = "bbolt" => writes = NoWrites /\ deletes = {} /\ ~merged
BY DEF BackendInv, MemTypeOK, Maps, Answer, BoltStagesNothing

\* A step of a scan, of either backend.
LEMMA VisitKeeps ==
    ASSUME BackendInv, NEW t \in Thread, Visit(t)
    PROVE  /\ scan' \in [Thread -> SomeRecords] /\ answer' \in [Thread -> Answer]
           /\ TxIsNotInScan'
<1>1. PICK k \in DOMAIN scan[t] :
          /\ Replies(t, "records", [q \in {k} |-> scan[t][k]])
          /\ scan' = [scan EXCEPT ![t] = [q \in DOMAIN scan[t] \ {k} |-> scan[t][q]]]
          /\ UNCHANGED holder
    BY DEF Visit
<1>2. scan[t] \in SomeRecords /\ DOMAIN scan[t] # {}
    BY <1>1, Has
<1>3. [q \in {k} |-> scan[t][q]] \in SomeRecords
    BY <1>2, PartIsRecords
<1>4. [q \in {k} |-> scan[t][q]] = [q \in {k} |-> scan[t][k]]
    OBVIOUS
<1>5. answer' \in [Thread -> Answer]
    BY <1>1, <1>3, <1>4, Has, ReplyIsAnswer
<1>6. [q \in DOMAIN scan[t] \ {k} |-> scan[t][q]] \in SomeRecords
    BY <1>2, PartIsRecords
<1>7. scan' \in [Thread -> SomeRecords]
    BY <1>1, <1>6, Has
<1>8. TxIsNotInScan'
    BY <1>1, <1>2, Has DEF TxIsNotInScan
<1> QED
    BY <1>5, <1>7, <1>8

LEMMA MemoryKeepsInv ==
    ASSUME BackendInv, backend = "memory", MemNext, UNCHANGED bboltOnly, UNCHANGED backend
    PROVE  BackendInv'
<1> PICK t \in Thread :
      \/ \E k \in Key, v \in Value : Put(t, k, v) \/ TxPut(t, k, v)
      \/ \E k \in Key : Delete(t, k) \/ Get(t, k) \/ TxDelete(t, k) \/ TxGet(t, k)
      \/ \E K \in SUBSET Key : GetMulti(t, K)
      \/ \E P \in Prefixes : Scan(t, P)
      \/ Visit(t) \/ EndScan(t)
      \/ BeginTx(t) \/ MergeWrites(t) \/ MergeDeletes(t) \/ Rollback(t)
      \/ Refuse(t) \/ Close(t)
    BY DEF MemNext
<1>0. work' = work /\ backend' = backend /\ None \notin Thread /\ None \notin Value
    BY BackendAssumption DEF bboltOnly
<1> USE <1>0
<1>1. ASSUME NEW k \in Key, NEW v \in Value, Put(t, k, v) PROVE BackendInv'
    <2>1. answer' \in [Thread -> Answer]
        BY <1>1, Has, ReplyIsAnswer, NothingIsRecords DEF Put
    <2> QED
        BY <1>1, <2>1, Has, Keeps DEF Put, Maps, TxIsNotInScan
<1>2. ASSUME NEW k \in Key, NEW v \in Value, TxPut(t, k, v) PROVE BackendInv'
    BY <1>2, Has, Keeps DEF TxPut, InTx, Maps, TxIsNotInScan
<1>3. ASSUME NEW k \in Key, Delete(t, k) PROVE BackendInv'
    <2>1. answer' \in [Thread -> Answer]
        BY <1>3, Has, ReplyIsAnswer, NothingIsRecords DEF Delete
    <2> QED
        BY <1>3, <2>1, Has, Keeps DEF Delete, Maps, TxIsNotInScan
<1>4. ASSUME NEW k \in Key, Get(t, k) PROVE BackendInv'
    <2>1. answer' \in [Thread -> Answer]
        BY <1>4, Has, ReplyIsAnswer, RecordsAreRecords DEF Get
    <2> QED
        BY <1>4, <2>1, Has, Keeps DEF Get, TxIsNotInScan
<1>5. ASSUME NEW k \in Key, TxDelete(t, k) PROVE BackendInv'
    BY <1>5, Has, Keeps DEF TxDelete, InTx, Maps, TxIsNotInScan
<1>6. ASSUME NEW k \in Key, TxGet(t, k) PROVE BackendInv'
    <2>1. Seen(k) = None \/ Seen(k) \in Value
        BY <1>6, Has DEF Seen, Maps
    <2>2. Seen(k) # None => [q \in {k} |-> Seen(k)] \in [{k} -> Value]
        BY <2>1
    <2>3. Seen(k) # None => [q \in {k} |-> Seen(k)] \in SomeRecords
        BY <2>2 DEF SomeRecords
    <2>4. answer' \in [Thread -> Answer]
        BY <1>6, <2>3, Has, ReplyIsAnswer, NothingIsRecords DEF TxGet
    <2> QED
        BY <1>6, <2>4, Has, Keeps DEF TxGet, TxIsNotInScan
<1>7. ASSUME NEW K \in SUBSET Key, GetMulti(t, K) PROVE BackendInv'
    <2>1. answer' \in [Thread -> Answer]
        BY <1>7, Has, ReplyIsAnswer, RecordsAreRecords DEF GetMulti
    <2> QED
        BY <1>7, <2>1, Has, Keeps DEF GetMulti, TxIsNotInScan
<1>8. ASSUME NEW P \in Prefixes, Scan(t, P) PROVE BackendInv'
    <2>1. answer' \in [Thread -> Answer]
        BY <1>8, Has, ReplyIsAnswer, NothingIsRecords DEF Scan
    <2>2. Records(data, P) \in SomeRecords
        BY Has, RecordsAreRecords, BackendAssumption
    <2>3. scan' \in [Thread -> SomeRecords]
        BY <1>8, <2>2, Has DEF Scan
    <2>4. TxIsNotInScan'
        BY <1>8, Has DEF Scan, TxIsNotInScan, Locks
    <2> QED
        BY <1>8, <2>1, <2>3, <2>4, Has, Keeps DEF Scan
<1>9. CASE Visit(t)
    <2>1. UNCHANGED <<data, closed, holder, writes, deletes, merged>>
        BY <1>9 DEF Visit
    <2> QED
        BY <1>9, <2>1, VisitKeeps, Has, Keeps
<1>10. CASE EndScan(t)
    <2>1. answer' \in [Thread -> Answer] /\ scan' \in [Thread -> SomeRecords]
        BY <1>10, Has, ReplyIsAnswer, NothingIsRecords DEF EndScan
    <2>2. TxIsNotInScan'
        BY <1>10, Has DEF EndScan, TxIsNotInScan
    <2> QED
        BY <1>10, <2>1, <2>2, Has, Keeps DEF EndScan
<1>11. CASE BeginTx(t)
    <2>1. TxIsNotInScan'
        BY <1>11, Has DEF BeginTx, Locks, Calls, TxIsNotInScan
    <2> QED
        BY <1>11, <2>1, Has, Keeps DEF BeginTx, NoWrites, Maps
<1>12. CASE MergeWrites(t)
    BY <1>12, Has, Keeps DEF MergeWrites, InTx, Maps, TxIsNotInScan
<1>13. CASE MergeDeletes(t)
    <2>1. answer' \in [Thread -> Answer]
        BY <1>13, Has, ReplyIsAnswer, NothingIsRecords DEF MergeDeletes
    <2> QED
        BY <1>13, <2>1, Has, Keeps DEF MergeDeletes, NoWrites, Maps, TxIsNotInScan
<1>14. CASE Rollback(t)
    <2>1. answer' \in [Thread -> Answer]
        BY <1>14, Has, ReplyIsAnswer, NothingIsRecords DEF Rollback
    <2> QED
        BY <1>14, <2>1, Has, Keeps DEF Rollback, InTx, NoWrites, Maps, TxIsNotInScan
<1>15. CASE Refuse(t)
    <2>1. answer' \in [Thread -> Answer]
        BY <1>15, Has, ReplyIsAnswer, NothingIsRecords DEF Refuse
    <2> QED
        BY <1>15, <2>1, Has, Keeps DEF Refuse, TxIsNotInScan
<1>16. CASE Close(t)
    <2>1. answer' \in [Thread -> Answer]
        BY <1>16, Has, ReplyIsAnswer, NothingIsRecords DEF Close
    <2> QED
        BY <1>16, <2>1, Has, Keeps DEF Close, TxIsNotInScan
<1> QED
    BY <1>1, <1>2, <1>3, <1>4, <1>5, <1>6, <1>7, <1>8, <1>9, <1>10, <1>11, <1>12, <1>13,
       <1>14, <1>15, <1>16

\* What bbolt's steps are called here as well.
LEMMA SameNames ==
    /\ Bolt!Nothing = Nothing
    /\ \A t, kind, r : Bolt!Replies(t, kind, r) <=> Replies(t, kind, r)
BY DEF Bolt!Nothing, Nothing, Bolt!Replies, Replies, Bolt!Says, Says

LEMMA BoltKeepsInv ==
    ASSUME BackendInv, backend = "bbolt", Bolt!BoltNext, UNCHANGED memoryOnly,
           UNCHANGED backend
    PROVE  BackendInv'
<1>0. /\ backend' = backend /\ None \notin Thread /\ None \notin Value
      /\ UNCHANGED memoryOnly
      /\ writes' = NoWrites /\ deletes' = {} /\ merged' = FALSE
    BY Has, BackendAssumption DEF memoryOnly
<1> USE <1>0
<1> DEFINE Kept ==
      /\ data' \in Maps /\ work' \in Maps /\ closed' \in BOOLEAN
      /\ holder' \in Thread \cup {None}
      /\ scan' \in [Thread -> SomeRecords] /\ answer' \in [Thread -> Answer]
      /\ TxIsNotInScan'
<1>1. Kept => BackendInv'
    <2>1. writes' \in Maps /\ \A k \in deletes' : writes'[k] = None
        BY DEF NoWrites, Maps
    <2> QED
        BY <2>1, Keeps
<1> SUFFICES Kept
    BY <1>1
<1>2. CASE Bolt!Reopen
    <2>1. scan' \in [Thread -> SomeRecords]
        BY <1>2, SameNames, NothingIsRecords DEF Bolt!Reopen
    <2>2. answer' \in [Thread -> Answer]
        BY <1>2, SameNames, NothingIsRecords DEF Bolt!Reopen, Bolt!Says, Answer
    <2> QED
        BY <1>2, <2>1, <2>2, Has DEF Bolt!Reopen, Bolt!Untouched, Maps, TxIsNotInScan
<1>3. ASSUME NEW t \in Thread,
             \/ \E k \in Key, v \in Value : Bolt!Put(t, k, v) \/ Bolt!TxPut(t, k, v)
             \/ \E k \in Key : \/ Bolt!Delete(t, k) \/ Bolt!Get(t, k)
                               \/ Bolt!TxDelete(t, k) \/ Bolt!TxGet(t, k)
             \/ \E K \in SUBSET Key : Bolt!GetMulti(t, K)
             \/ \E P \in Prefixes : Bolt!Scan(t, P)
             \/ Bolt!Visit(t) \/ Bolt!EndScan(t)
             \/ Bolt!BeginTx(t) \/ Bolt!Commit(t) \/ Bolt!Rollback(t)
             \/ Bolt!Refuse(t) \/ Bolt!Close(t)
      PROVE  Kept
    <2>0. \A r \in SomeRecords, kind \in {"done", "error", "records"} :
              Bolt!Replies(t, kind, r) => answer' \in [Thread -> Answer]
        BY SameNames, ReplyIsAnswer, Has
    <2>1. ASSUME NEW k \in Key, NEW v \in Value, Bolt!Put(t, k, v) PROVE Kept
        <3>1. answer' \in [Thread -> Answer]
            BY <2>0, <2>1, SameNames, NothingIsRecords DEF Bolt!Put
        <3> QED
            BY <2>1, <3>1, Has DEF Bolt!Put, Maps, TxIsNotInScan
    <2>2. ASSUME NEW k \in Key, NEW v \in Value, Bolt!TxPut(t, k, v) PROVE Kept
        BY <2>2, Has DEF Bolt!TxPut, Maps, TxIsNotInScan
    <2>3. ASSUME NEW k \in Key, Bolt!Delete(t, k) PROVE Kept
        <3>1. answer' \in [Thread -> Answer]
            BY <2>0, <2>3, SameNames, NothingIsRecords DEF Bolt!Delete
        <3> QED
            BY <2>3, <3>1, Has DEF Bolt!Delete, Maps, TxIsNotInScan
    <2>4. ASSUME NEW k \in Key, Bolt!Get(t, k) PROVE Kept
        <3>1. answer' \in [Thread -> Answer]
            BY <2>0, <2>4, Has, BoltRecords, RecordsAreRecords DEF Bolt!Get
        <3> QED
            BY <2>4, <3>1, Has DEF Bolt!Get, TxIsNotInScan
    <2>5. ASSUME NEW k \in Key, Bolt!TxDelete(t, k) PROVE Kept
        BY <2>5, Has DEF Bolt!TxDelete, Maps, TxIsNotInScan
    <2>6. ASSUME NEW k \in Key, Bolt!TxGet(t, k) PROVE Kept
        <3>1. answer' \in [Thread -> Answer]
            BY <2>0, <2>6, Has, BoltRecords, RecordsAreRecords DEF Bolt!TxGet
        <3> QED
            BY <2>6, <3>1, Has DEF Bolt!TxGet, TxIsNotInScan
    <2>7. ASSUME NEW K \in SUBSET Key, Bolt!GetMulti(t, K) PROVE Kept
        <3>1. answer' \in [Thread -> Answer]
            BY <2>0, <2>7, Has, BoltRecords, RecordsAreRecords DEF Bolt!GetMulti
        <3> QED
            BY <2>7, <3>1, Has DEF Bolt!GetMulti, TxIsNotInScan
    <2>8. ASSUME NEW P \in Prefixes, Bolt!Scan(t, P) PROVE Kept
        <3>1. answer' \in [Thread -> Answer]
            BY <2>0, <2>8, SameNames, NothingIsRecords DEF Bolt!Scan
        <3>2. Records(data, P) \in SomeRecords
            BY Has, RecordsAreRecords, BackendAssumption
        <3>3. scan' \in [Thread -> SomeRecords]
            BY <2>8, <3>2, Has, BoltRecords DEF Bolt!Scan
        <3>4. TxIsNotInScan'
            BY <2>8, Has DEF Bolt!Scan, TxIsNotInScan, Bolt!Calls
        <3> QED
            BY <2>8, <3>1, <3>3, <3>4, Has DEF Bolt!Scan
    <2>9. CASE Bolt!Visit(t)
        <3>1. Visit(t)
            BY <2>9, SameNames DEF Bolt!Visit, Visit, memoryOnly
        <3> QED
            BY <2>9, <3>1, VisitKeeps, Has DEF Bolt!Visit
    <2>10. CASE Bolt!EndScan(t)
        <3>1. answer' \in [Thread -> Answer]
            BY <2>0, <2>10, SameNames, NothingIsRecords DEF Bolt!EndScan
        <3>2. scan' \in [Thread -> SomeRecords]
            BY <2>10, Has, SameNames, NothingIsRecords DEF Bolt!EndScan
        <3>3. TxIsNotInScan'
            BY <2>10, Has DEF Bolt!EndScan, Bolt!Nothing, TxIsNotInScan
        <3> QED
            BY <2>10, <3>1, <3>2, <3>3, Has DEF Bolt!EndScan
    <2>11. CASE Bolt!BeginTx(t)
        BY <2>11, Has DEF Bolt!BeginTx, Bolt!Calls, Bolt!Scanning, TxIsNotInScan
    <2>12. CASE Bolt!Commit(t)
        <3>1. answer' \in [Thread -> Answer]
            BY <2>0, <2>12, SameNames, NothingIsRecords DEF Bolt!Commit
        <3> QED
            BY <2>12, <3>1, Has DEF Bolt!Commit, Bolt!Untouched, Maps, TxIsNotInScan
    <2>13. CASE Bolt!Rollback(t)
        <3>1. answer' \in [Thread -> Answer]
            BY <2>0, <2>13, SameNames, NothingIsRecords DEF Bolt!Rollback
        <3> QED
            BY <2>13, <3>1, Has DEF Bolt!Rollback, Bolt!Untouched, Maps, TxIsNotInScan
    <2>14. CASE Bolt!Refuse(t)
        <3>1. answer' \in [Thread -> Answer]
            BY <2>0, <2>14, SameNames, NothingIsRecords DEF Bolt!Refuse
        <3> QED
            BY <2>14, <3>1, Has DEF Bolt!Refuse, TxIsNotInScan
    <2>15. CASE Bolt!Close(t)
        <3>1. answer' \in [Thread -> Answer]
            BY <2>0, <2>15, SameNames, NothingIsRecords DEF Bolt!Close
        <3> QED
            BY <2>15, <3>1, Has DEF Bolt!Close, TxIsNotInScan
    <2> QED
        BY <1>3, <2>1, <2>2, <2>3, <2>4, <2>5, <2>6, <2>7, <2>8, <2>9, <2>10, <2>11, <2>12,
           <2>13, <2>14, <2>15
<1> QED
    BY <1>2, <1>3 DEF Bolt!BoltNext

LEMMA StepInv == BackendInv /\ [BackendNext]_backendVars => BackendInv'
<1> SUFFICES ASSUME BackendInv, [BackendNext]_backendVars PROVE BackendInv'
    OBVIOUS
<1>1. CASE BackendNext
    BY <1>1, MemoryKeepsInv, BoltKeepsInv DEF BackendNext
<1>2. CASE UNCHANGED backendVars
    BY <1>2, Has, Keeps DEF backendVars, vars, bboltOnly, memoryOnly, TxIsNotInScan
<1> QED
    BY <1>1, <1>2

\* The types of both backends; outside a transaction nothing is staged, and no key is both
\* written and deleted in one.
THEOREM BackendTypesCorrect == BackendSpec => []MemTypeOK
<1>1. BackendInv => MemTypeOK
    BY DEF BackendInv
<1> QED
    BY <1>1, InitInv, StepInv, PTL DEF BackendSpec

-----------------------------------------------------------------------------
(* Either implements the map                                               *)

\* The map's definitions are those of the backends.
LEMMA MapNames ==
    /\ KV!Nothing = Nothing
    /\ \A map, K : KV!Records(map, K) = Records(map, K)
    /\ \A kind, r : KV!Says(kind, r) = Says(kind, r)
BY DEF KV!Nothing, Nothing, KV!Records, Records, KV!Says, Says

\* A transaction that is not being merged is there, and no other.
LEMMA TransactionIs ==
    BackendInv =>
        /\ Transaction = None <=> holder = None \/ merged
        /\ Transaction # None => Transaction = [by |-> holder, view |-> View]
        /\ View \in Maps
<1> SUFFICES ASSUME BackendInv
             PROVE  /\ Transaction = None <=> holder = None \/ merged
                    /\ Transaction # None => Transaction = [by |-> holder, view |-> View]
                    /\ View \in Maps
    OBVIOUS
<1>1. View \in Maps
    BY Has DEF View, Seen, Maps
<1>2. holder # None => [by |-> holder, view |-> View] # None
    BY <1>1, Has, NoTxAssumption DEF Maps
<1> QED
    BY <1>1, <1>2 DEF Transaction

\* But for a merge, what the backend has is what is seen of it.
LEMMA Plain == BackendInv /\ ~merged => Committed = data /\ Answers = answer
BY Has DEF Committed, Answers, Maps

\* Both after a step.
LEMMA PlainAfter == (BackendInv /\ ~merged => Committed = data /\ Answers = answer)'
BY Plain, PTL

LEMMA TransactionAfter ==
    (BackendInv =>
        /\ Transaction = None <=> holder = None \/ merged
        /\ Transaction # None => Transaction = [by |-> holder, view |-> View]
        /\ View \in Maps)'
BY TransactionIs, PTL

LEMMA StartImplements == BackendInit => KV!KVInit
<1> SUFFICES ASSUME BackendInit PROVE KV!KVInit
    OBVIOUS
<1>1. BackendInv
    BY InitInv
<1>2. /\ scan = [t \in Thread |-> Nothing]
      /\ answer = [t \in Thread |-> Says("none", Nothing)]
      /\ holder = None /\ closed = FALSE /\ ~merged
    BY DEF BackendInit, MemInit, Bolt!BoltInit, Bolt!Nothing, Nothing, Bolt!Says, Says
<1>3. Committed = data /\ Answers = answer /\ Transaction = None /\ data \in Maps
    BY <1>1, <1>2, Plain, TransactionIs, Has
<1> QED
    BY <1>2, <1>3, MapNames DEF KV!KVInit, Maps

\* A step of a scan takes place in both, also while another thread's transaction merges.
LEMMA VisitImplements ==
    ASSUME BackendInv, BackendInv', NEW t \in Thread, Visit(t) \/ EndScan(t),
           UNCHANGED <<backend, work>>
    PROVE  KV!Visit(t) \/ KV!EndScan(t)
<1>1. DOMAIN scan[t] # {} /\ UNCHANGED <<data, closed, holder, writes, deletes, merged>>
    BY DEF Visit, EndScan
<1>2. holder # t
    BY <1>1, Has DEF TxIsNotInScan
<1>3. Committed' = Committed /\ Transaction' = Transaction
    BY <1>1 DEF Committed, Transaction, View, Seen
<1>4. ASSUME NEW kind, NEW r, Replies(t, kind, r) PROVE KV!Replies(t, kind, r)
    <2>1. CASE ~merged
        BY <1>1, <1>4, <2>1, Plain, PlainAfter, MapNames DEF Replies, KV!Replies
    <2>2. CASE merged
        <3>1. /\ answer' = [answer EXCEPT ![t] = Says(kind, r)]
              /\ Answers = [answer EXCEPT ![holder] = Says("done", Nothing)]
              /\ Answers' = [answer' EXCEPT ![holder] = Says("done", Nothing)]
            BY <1>1, <1>4, <2>2 DEF Replies, Answers
        <3>2. DOMAIN answer = Thread /\ holder # t
            BY <1>2, Has
        <3>3. Answers' = [Answers EXCEPT ![t] = Says(kind, r)]
            BY <3>1, <3>2
        <3> QED
            BY <3>3, MapNames DEF KV!Replies
    <2> QED
        BY <2>1, <2>2
<1>5. CASE Visit(t)
    <2>1. PICK k \in DOMAIN scan[t] :
              /\ \A q \in DOMAIN scan[t] : k <= q
              /\ Replies(t, "records", [q \in {k} |-> scan[t][k]])
              /\ scan' = [scan EXCEPT ![t] = [q \in DOMAIN scan[t] \ {k} |-> scan[t][q]]]
        BY <1>5 DEF Visit
    <2>2. KV!Replies(t, "records", [q \in {k} |-> scan[t][k]])
        BY <1>4, <2>1
    <2> QED
        BY <1>1, <1>3, <2>1, <2>2 DEF KV!Visit
<1>6. CASE EndScan(t)
    <2>1. KV!Replies(t, "error", Nothing)
        BY <1>4, <1>6 DEF EndScan
    <2> QED
        BY <1>1, <1>3, <1>6, <2>1, MapNames DEF KV!EndScan, KV!Scanning, EndScan
<1> QED
    BY <1>5, <1>6

\* A transaction's own steps change what it sees as those of the map do.
LEMMA SeenFollows ==
    ASSUME BackendInv, backend = "memory"
    PROVE  /\ holder = None => View = data
           /\ \A k \in Key : View[k] = Seen(k)
<1>1. \A k \in Key : View[k] = Seen(k)
    BY DEF View
<1>2. holder = None => \A k \in Key : Seen(k) = data[k]
    BY Has DEF Seen, NoWrites
<1> QED
    BY <1>1, <1>2, Has, TransactionIs DEF Maps

LEMMA MemoryImplements ==
    ASSUME BackendInv, BackendInv', backend = "memory", MemNext,
           UNCHANGED bboltOnly, UNCHANGED backend
    PROVE  KV!KVNext \/ UNCHANGED KV!kvVars
<1> PICK t \in Thread :
      \/ \E k \in Key, v \in Value : Put(t, k, v) \/ TxPut(t, k, v)
      \/ \E k \in Key : Delete(t, k) \/ Get(t, k) \/ TxDelete(t, k) \/ TxGet(t, k)
      \/ \E K \in SUBSET Key : GetMulti(t, K)
      \/ \E P \in Prefixes : Scan(t, P)
      \/ Visit(t) \/ EndScan(t)
      \/ BeginTx(t) \/ MergeWrites(t) \/ MergeDeletes(t) \/ Rollback(t)
      \/ Refuse(t) \/ Close(t)
    BY DEF MemNext
<1>0. UNCHANGED <<backend, work>> /\ backend' = "memory" /\ t # None
    BY BackendAssumption DEF bboltOnly
<1>a. ASSUME Locks(t), UNCHANGED merged
      PROVE  /\ Committed = data /\ Committed' = data' /\ Transaction = None
             /\ KV!Idle(t)
             /\ \A kind, r : Replies(t, kind, r) <=> KV!Replies(t, kind, r)
             /\ holder' = None => Transaction' = None
    <2>1. holder = None /\ ~merged /\ ~merged' /\ Transaction = None
        BY <1>a, Has, TransactionIs DEF Locks
    <2>2. KV!Idle(t)
        BY <1>a, <2>1 DEF KV!Idle, KV!Scanning, Locks, Calls
    <2> QED
        BY <2>1, <2>2, Plain, PlainAfter, TransactionAfter, MapNames DEF Replies, KV!Replies
<1>b. ASSUME InTx(t), holder' # None => UNCHANGED merged, ~merged'
      PROVE  /\ Committed = data /\ Committed' = data'
             /\ Transaction = [by |-> t, view |-> View] /\ KV!InTx(t)
             /\ \A kind, r : Replies(t, kind, r) <=> KV!Replies(t, kind, r)
             /\ holder' = t => Transaction' = [by |-> t, view |-> View']
             /\ holder' = None => Transaction' = None
    <2>1. holder = t /\ ~merged /\ Transaction = [by |-> t, view |-> View] /\ Transaction # None
        BY <1>0, <1>b, TransactionIs DEF InTx
    <2>2. KV!InTx(t)
        BY <2>1 DEF KV!InTx
    <2> QED
        BY <1>0, <1>b, <2>1, <2>2, Plain, PlainAfter, TransactionAfter, MapNames
        DEF Replies, KV!Replies
<1>1. ASSUME NEW k \in Key, NEW v \in Value, Put(t, k, v) PROVE KV!Put(t, k, v)
    BY <1>1, <1>a, MapNames, Has DEF Put, KV!Put, Locks
<1>2. ASSUME NEW k \in Key, NEW v \in Value, TxPut(t, k, v) PROVE KV!TxPut(t, k, v)
    <2>1. View' = [View EXCEPT ![k] = v]
        <3>1. \A q \in Key : Seen(q)' = IF q = k THEN v ELSE Seen(q)
            BY <1>2, Has, BackendAssumption DEF TxPut, Seen, Maps
        <3> QED
            BY <1>0, <3>1 DEF View
    <2>2. InTx(t) /\ UNCHANGED <<data, closed, holder, merged, scan, answer>> /\ holder' = t
        BY <1>2 DEF TxPut, InTx
    <2>3. ~merged'
        BY <2>2 DEF InTx
    <2>4. Answers' = Answers
        BY <2>2 DEF Answers
    <2> QED
        BY <2>1, <2>2, <2>3, <2>4, <1>b DEF KV!TxPut
<1>3. ASSUME NEW k \in Key, Delete(t, k) PROVE KV!Delete(t, k)
    BY <1>3, <1>a, MapNames, Has DEF Delete, KV!Delete, Locks
<1>4. ASSUME NEW k \in Key, Get(t, k) PROVE KV!Get(t, {k})
    BY <1>4, <1>a, MapNames, Has DEF Get, KV!Get, Locks
<1>5. ASSUME NEW k \in Key, TxDelete(t, k) PROVE KV!TxDelete(t, k)
    <2>1. View' = [View EXCEPT ![k] = None]
        <3>1. \A q \in Key : Seen(q)' = IF q = k THEN None ELSE Seen(q)
            BY <1>5, Has, BackendAssumption DEF TxDelete, Seen, Maps
        <3> QED
            BY <1>0, <3>1 DEF View
    <2>2. InTx(t) /\ UNCHANGED <<data, closed, holder, merged, scan, answer>> /\ holder' = t
        BY <1>5 DEF TxDelete, InTx
    <2>3. ~merged'
        BY <2>2 DEF InTx
    <2>4. Answers' = Answers
        BY <2>2 DEF Answers
    <2> QED
        BY <2>1, <2>2, <2>3, <2>4, <1>b DEF KV!TxDelete
<1>6. ASSUME NEW k \in Key, TxGet(t, k) PROVE KV!TxGet(t, k)
    <2>1. /\ InTx(t) /\ ~merged'
          /\ UNCHANGED <<data, closed, holder, writes, deletes, merged, scan>>
        BY <1>6 DEF TxGet, InTx
    <2>2. View' = View /\ Transaction' = Transaction
        BY <1>0, <2>1 DEF View, Transaction, Seen
    <2>3. (IF Seen(k) = None THEN Nothing ELSE [q \in {k} |-> Seen(k)]) = Records(View, {k})
        BY SeenFollows DEF Records, Nothing
    <2>4. Replies(t, "records", Records(View, {k}))
        BY <1>6, <2>3 DEF TxGet
    <2>5. KV!Records(Transaction.view, {k}) = Records(View, {k})
        BY <1>b, <2>1, MapNames
    <2> QED
        BY <2>1, <2>2, <2>4, <2>5, <1>b DEF KV!TxGet
<1>7. ASSUME NEW K \in SUBSET Key, GetMulti(t, K) PROVE KV!Get(t, K)
    BY <1>7, <1>a, MapNames, Has DEF GetMulti, KV!Get, Locks
<1>8. ASSUME NEW P \in Prefixes, Scan(t, P) PROVE KV!Scan(t, P)
    BY <1>8, <1>a, MapNames, Has DEF Scan, KV!Scan, Locks
<1>9. CASE Visit(t) \/ EndScan(t)
    <2>1. KV!Visit(t) \/ KV!EndScan(t)
        BY <1>0, <1>9, VisitImplements
    <2> QED
        BY <2>1 DEF KV!KVNext
<1>10. CASE BeginTx(t)
    <2>1. Locks(t) /\ ~closed /\ holder' = t /\ UNCHANGED <<data, closed, merged, scan, answer>>
        BY <1>10 DEF BeginTx
    <2>2. ~merged /\ ~merged'
        BY <2>1, Has DEF Locks
    <2>3. View' = data
        <3>1. \A k \in Key : Seen(k)' = data[k]
            BY <1>10 DEF BeginTx, Seen, NoWrites
        <3> QED
            BY <1>0, <3>1, Has DEF View, Maps
    <2>4. Transaction' = [by |-> t, view |-> data]
        BY <1>0, <2>1, <2>2, <2>3 DEF Transaction
    <2>5. Answers' = Answers
        BY <2>1, <2>2 DEF Answers
    <2>6. KV!BeginTx(t)
        BY <2>1, <2>4, <2>5, <1>a DEF KV!BeginTx
    <2> QED
        BY <2>6 DEF KV!KVNext
<1>11. CASE MergeWrites(t)
    <2>1. /\ InTx(t) /\ merged' = TRUE
          /\ UNCHANGED <<closed, holder, writes, deletes, scan, answer>>
        BY <1>11 DEF MergeWrites
    <2>2. holder = t /\ ~merged /\ Transaction = [by |-> t, view |-> View] /\ KV!InTx(t)
        BY <1>0, <2>1, TransactionIs DEF InTx, KV!InTx
    <2>3. Committed' = View
        BY <1>0, <1>11, Has DEF MergeWrites, Committed, View, Seen, Maps
    <2>4. Transaction' = None
        BY <2>1 DEF Transaction
    <2>5. Answers' = [Answers EXCEPT ![t] = Says("done", Nothing)]
        BY <2>1, <2>2 DEF Answers
    <2>6. KV!Commit(t)
        BY <2>1, <2>2, <2>3, <2>4, <2>5, MapNames DEF KV!Commit, KV!Replies
    <2> QED
        BY <2>6 DEF KV!KVNext
<1>12. CASE MergeDeletes(t)
    <2>1. /\ holder = t /\ merged /\ holder' = None /\ ~merged'
          /\ data' = [k \in Key |-> IF k \in deletes THEN None ELSE data[k]]
          /\ answer' = [answer EXCEPT ![t] = Says("done", Nothing)]
          /\ UNCHANGED <<closed, scan>>
        BY <1>12 DEF MergeDeletes, Replies
    <2>2. Committed' = Committed
        BY <2>1, PlainAfter DEF Committed
    <2>3. Transaction' = Transaction
        BY <2>1 DEF Transaction
    <2>4. Answers' = Answers
        BY <2>1 DEF Answers
    <2> QED
        BY <2>1, <2>2, <2>3, <2>4 DEF KV!kvVars
<1>13. CASE Rollback(t)
    <2>1. InTx(t) /\ ~merged' /\ holder' = None /\ UNCHANGED <<data, closed, merged, scan>>
        BY <1>13 DEF Rollback, InTx
    <2>2. KV!Rollback(t)
        BY <1>13, <2>1, <1>b, MapNames DEF KV!Rollback, Rollback
    <2> QED
        BY <2>2 DEF KV!KVNext
<1>14. CASE Refuse(t)
    <2>1. KV!Refuse(t)
        BY <1>14, <1>a, MapNames DEF Refuse, KV!Refuse, Locks
    <2> QED
        BY <2>1 DEF KV!KVNext
<1>15. CASE Close(t)
    <2>1. KV!Close(t)
        BY <1>15, <1>a, MapNames DEF Close, KV!Close, Locks
    <2> QED
        BY <2>1 DEF KV!KVNext
<1> QED
    <2>1. ASSUME NEW k \in Key, NEW v \in Value, Put(t, k, v) \/ TxPut(t, k, v)
          PROVE  KV!KVNext
        BY <1>1, <1>2, <2>1 DEF KV!KVNext
    <2>2. ASSUME NEW k \in Key,
                 Delete(t, k) \/ Get(t, k) \/ TxDelete(t, k) \/ TxGet(t, k)
          PROVE  KV!KVNext
        BY <1>3, <1>4, <1>5, <1>6, <2>2 DEF KV!KVNext
    <2>3. ASSUME NEW K \in SUBSET Key, GetMulti(t, K) PROVE KV!KVNext
        BY <1>7, <2>3 DEF KV!KVNext
    <2>4. ASSUME NEW P \in Prefixes, Scan(t, P) PROVE KV!KVNext
        BY <1>8, <2>4 DEF KV!KVNext
    <2> QED
        BY <2>1, <2>2, <2>3, <2>4, <1>9, <1>10, <1>11, <1>12, <1>13, <1>14, <1>15

LEMMA BoltImplements ==
    ASSUME BackendInv, BackendInv', backend = "bbolt", Bolt!BoltNext,
           UNCHANGED memoryOnly, UNCHANGED backend
    PROVE  KV!KVNext
<1>0. /\ backend' = "bbolt" /\ ~merged /\ ~merged'
      /\ Committed = data /\ Committed' = data' /\ Answers = answer /\ Answers' = answer'
      /\ \A t \in Thread : t # None
      /\ UNCHANGED <<writes, deletes, merged>>
    BY Has, Plain, PlainAfter, BackendAssumption DEF memoryOnly
<1>1. /\ Transaction = None <=> holder = None
      /\ holder # None => Transaction = [by |-> holder, view |-> work]
      /\ Transaction' = None <=> holder' = None
      /\ holder' # None => Transaction' = [by |-> holder', view |-> work']
    BY <1>0, TransactionIs, TransactionAfter DEF View
<1>2. \A t, kind, r : Bolt!Replies(t, kind, r) <=> KV!Replies(t, kind, r)
    BY <1>0, MapNames, SameNames DEF Replies, KV!Replies
<1>3. \A t \in Thread : Bolt!Calls(t) => KV!Idle(t)
    BY <1>1 DEF Bolt!Calls, KV!Idle, Bolt!Scanning, KV!Scanning
<1>4. \A t \in Thread : holder = t =>
          KV!InTx(t) /\ Transaction = [by |-> t, view |-> work]
    BY <1>0, <1>1 DEF KV!InTx
<1>5. UNCHANGED <<holder, work>> => UNCHANGED Transaction
    BY <1>0, <1>1
<1>6. /\ Bolt!Nothing = KV!Nothing
      /\ \A map, K : Bolt!Records(map, K) = KV!Records(map, K)
    BY MapNames, SameNames, BoltRecords
<1>7. CASE Bolt!Reopen
    <2>1. KV!Restart
        BY <1>0, <1>1, <1>6, <1>7, MapNames
        DEF Bolt!Reopen, KV!Restart, Bolt!Says, Says
    <2> QED
        BY <2>1 DEF KV!KVNext
<1>8. ASSUME NEW t \in Thread, NEW k \in Key, NEW v \in Value,
             Bolt!Put(t, k, v) \/ Bolt!TxPut(t, k, v)
      PROVE  KV!KVNext
    <2>1. CASE Bolt!Put(t, k, v)
        <3>1. KV!Put(t, k, v)
            BY <1>0, <1>1, <1>2, <1>3, <1>5, <1>6, <2>1
            DEF Bolt!Put, KV!Put, Bolt!CanUpdate
        <3> QED
            BY <3>1 DEF KV!KVNext
    <2>2. CASE Bolt!TxPut(t, k, v)
        <3>1. KV!TxPut(t, k, v)
            BY <1>0, <1>1, <1>4, <2>2 DEF Bolt!TxPut, KV!TxPut
        <3> QED
            BY <3>1 DEF KV!KVNext
    <2> QED
        BY <1>8, <2>1, <2>2
<1>9. ASSUME NEW t \in Thread, NEW k \in Key,
             Bolt!Delete(t, k) \/ Bolt!Get(t, k) \/ Bolt!TxDelete(t, k) \/ Bolt!TxGet(t, k)
      PROVE  KV!KVNext
    <2>1. CASE Bolt!Delete(t, k)
        <3>1. KV!Delete(t, k)
            BY <1>0, <1>1, <1>2, <1>3, <1>5, <1>6, <2>1
            DEF Bolt!Delete, KV!Delete, Bolt!CanUpdate
        <3> QED
            BY <3>1 DEF KV!KVNext
    <2>2. CASE Bolt!Get(t, k)
        <3>1. KV!Get(t, {k})
            BY <1>0, <1>2, <1>3, <1>5, <1>6, <2>2 DEF Bolt!Get, KV!Get, Bolt!CanView
        <3> QED
            BY <3>1 DEF KV!KVNext
    <2>3. CASE Bolt!TxDelete(t, k)
        <3>1. KV!TxDelete(t, k)
            BY <1>0, <1>1, <1>4, <2>3 DEF Bolt!TxDelete, KV!TxDelete
        <3> QED
            BY <3>1 DEF KV!KVNext
    <2>4. CASE Bolt!TxGet(t, k)
        <3>1. KV!TxGet(t, k)
            BY <1>0, <1>2, <1>4, <1>5, <1>6, <2>4 DEF Bolt!TxGet, KV!TxGet
        <3> QED
            BY <3>1 DEF KV!KVNext
    <2> QED
        BY <1>9, <2>1, <2>2, <2>3, <2>4
<1>10. ASSUME NEW t \in Thread, NEW K \in SUBSET Key, Bolt!GetMulti(t, K) PROVE KV!KVNext
    <2>1. KV!Get(t, K)
        BY <1>0, <1>2, <1>3, <1>5, <1>6, <1>10 DEF Bolt!GetMulti, KV!Get, Bolt!CanView
    <2> QED
        BY <2>1 DEF KV!KVNext
<1>11. ASSUME NEW t \in Thread, NEW P \in Prefixes, Bolt!Scan(t, P) PROVE KV!KVNext
    <2>1. KV!Scan(t, P)
        BY <1>0, <1>2, <1>3, <1>5, <1>6, <1>11 DEF Bolt!Scan, KV!Scan, Bolt!CanView
    <2> QED
        BY <2>1 DEF KV!KVNext
<1>12. ASSUME NEW t \in Thread,
              Bolt!Visit(t) \/ Bolt!EndScan(t) \/ Bolt!BeginTx(t) \/ Bolt!Commit(t)
                \/ Bolt!Rollback(t) \/ Bolt!Refuse(t) \/ Bolt!Close(t)
       PROVE  KV!KVNext
    <2>1. CASE Bolt!Visit(t)
        <3>1. KV!Visit(t)
            BY <1>0, <1>2, <1>5, <2>1 DEF Bolt!Visit, KV!Visit
        <3> QED
            BY <3>1 DEF KV!KVNext
    <2>2. CASE Bolt!EndScan(t)
        <3>1. KV!EndScan(t)
            BY <1>0, <1>2, <1>5, <1>6, <2>2
            DEF Bolt!EndScan, KV!EndScan, Bolt!Scanning, KV!Scanning
        <3> QED
            BY <3>1 DEF KV!KVNext
    <2>3. CASE Bolt!BeginTx(t)
        <3>1. KV!BeginTx(t)
            BY <1>0, <1>1, <1>3, <2>3 DEF Bolt!BeginTx, KV!BeginTx, Bolt!CanUpdate
        <3> QED
            BY <3>1 DEF KV!KVNext
    <2>4. CASE Bolt!Commit(t)
        <3>1. KV!Commit(t)
            BY <1>0, <1>1, <1>2, <1>4, <1>6, <2>4 DEF Bolt!Commit, KV!Commit
        <3> QED
            BY <3>1 DEF KV!KVNext
    <2>5. CASE Bolt!Rollback(t)
        <3>1. KV!Rollback(t)
            BY <1>0, <1>1, <1>2, <1>4, <1>6, <2>5 DEF Bolt!Rollback, KV!Rollback
        <3> QED
            BY <3>1 DEF KV!KVNext
    <2>6. CASE Bolt!Refuse(t)
        <3>1. KV!Refuse(t)
            BY <1>0, <1>2, <1>3, <1>5, <1>6, <2>6 DEF Bolt!Refuse, KV!Refuse
        <3> QED
            BY <3>1 DEF KV!KVNext
    <2>7. CASE Bolt!Close(t)
        <3>1. KV!Close(t)
            BY <1>0, <1>1, <1>2, <1>3, <1>5, <1>6, <2>7 DEF Bolt!Close, KV!Close
        <3> QED
            BY <3>1 DEF KV!KVNext
    <2> QED
        BY <1>12, <2>1, <2>2, <2>3, <2>4, <2>5, <2>6, <2>7
<1> QED
    BY <1>7, <1>8, <1>9, <1>10, <1>11, <1>12 DEF Bolt!BoltNext

LEMMA StepImplements ==
    BackendInv /\ BackendInv' /\ [BackendNext]_backendVars => [KV!KVNext]_(KV!kvVars)
<1> SUFFICES ASSUME BackendInv, BackendInv', [BackendNext]_backendVars
             PROVE  KV!KVNext \/ UNCHANGED KV!kvVars
    OBVIOUS
<1>1. CASE BackendNext
    BY <1>1, MemoryImplements, BoltImplements DEF BackendNext
<1>2. CASE UNCHANGED backendVars
    BY <1>2 DEF backendVars, vars, bboltOnly, KV!kvVars, Committed, Transaction, View, Seen,
                Answers
<1> QED
    BY <1>1, <1>2

\* Whichever backend the index has, it is the map of KeyValue: each step of a backend is one
\* of the map or does not show, those of MemoryBackend's merge and of bbolt's crashes included.
THEOREM BackendsImplementKeyValue == BackendSpec => BothImplementKeyValue
    BY InitInv, StepInv, StartImplements, StepImplements, PTL
    DEF BackendSpec, BothImplementKeyValue, KV!KVSpec
=============================================================================
