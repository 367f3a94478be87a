-------------------------- MODULE BlobStoreProofs --------------------------
(***************************************************************************)
(* What the store promises its callers, for any number of writers,         *)
(* readers, keys and contents and any bounds: that a key that is present   *)
(* can be read (LiveKeysReadable), that no page is forgotten               *)
(* (PagesAccountedFor), that the limits are kept (QuotaHolds), that chunks *)
(* are counted as often as manifests name them                             *)
(* (ChunkCountsMatchManifests), and that the store is the map of BlobMap,  *)
(* first of a process that runs on and compacts, at the end of one that    *)
(* stops, recovers, rebuilds its index and deletes and creates namespaces. *)
(* The hypotheses are named where they are used first, with what the code  *)
(* does without each.                                                      *)
(***************************************************************************)
EXTENDS BlobStoreTypeProofs

-----------------------------------------------------------------------------
(* Hypotheses                                                              *)

OnePage    == \A c \in ChunkId : Pages[c] = 1
NoRewrites == RewritePercent > 100
NoLimits   == Quota = [maxBytes |-> 0, maxBlobCount |-> 0, maxBlobSize |-> 0]

\* No Put is refused or cancelled after it has written, and no Compact is cancelled: one
\* cancelled between RewriteSegment and DeleteSegmentFile leaves two unflagged copies of
\* pages that are in use (store.go:1416, :1425).
NothingLeft == NoLimits /\ Cancels \subseteq {"drop"}

\* A process that runs on: no crash, Close, RebuildIndex or DeleteNamespace.  Replay
\* sets every count to one and forgets every nonce, after which neither what Compact
\* takes nor what a rewrite seals is decided by the records the invariant is about.
RunsOn == MaxCrashes = 0 /\ MaxCloses = 0 /\ MaxRebuilds = 0 /\ MaxDrops = 0

\* Compacts, beside which no Put runs.  PutChunk stores a relocated chunk as one
\* page long, so one of several pages is lost; and a page that a Put beyond the quota
\* or a cancelled Put or Compact left behind carries a nonce other than the one of the
\* record with which a relocation pairs it.
CompactsOnly ==
    /\ RunsOn
    /\ "put" \notin Alongside
    /\ OnePage \/ NoRewrites
    /\ ~Encrypted \/ NoRewrites \/ NothingLeft

-----------------------------------------------------------------------------
(* The inductive invariant                                                 *)

\* Page x is an unflagged page p of chunk c, sealed as n says.
IsCopy(x, c, p, n) == x.chunk = c /\ x.part = p /\ ~x.deleted /\ x.sealed = n

\* All the pages of chunk c are at l.
Whole(fs, c, l, n) ==
    \A p \in 1..Pages[c] :
        Has(fs, PartOf(l, p)) /\ IsCopy(At(fs, PartOf(l, p)), c, p, n)

\* The namespace's key opens what has nonce n.
Keyed(n) == Encrypted => n # None /\ n.key = space.created

RecordOK(c) ==
    /\ chunks[c].ns = NS
    /\ c \in short => Pages[c] = 1
    /\ Whole(files, c, chunks[c].loc, nonce[c])
    /\ Keyed(nonce[c])

\* What the index says of a chunk is true of the files.
RecordsInv == \A c \in ChunkId : chunks[c] # None => RecordOK(c)

\* The copies of a Put that the index does not know: all of them until the commit,
\* then those that it did not need.
Pending(w) == IF put[w].pc = "marking" THEN put[w].dups ELSE DOMAIN put[w].ids

PendingOK(w, i) ==
    /\ Whole(files, put[w].ids[i], put[w].at[i], Sealed(put[w].at[i]))
    /\ \A c \in ChunkId : chunks[c] # None => chunks[c].loc # put[w].at[i]
    /\ \A v \in Writer : \A j \in Pending(v) :
          put[v].at[j] = put[w].at[i] => v = w /\ j = i

\* They are whole, in the place of no record, and each in a place of its own.
PendingInv == \A w \in Writer : \A i \in Pending(w) : PendingOK(w, i)

\* What phase 1 has queued is dead while it is queued.  The later pages of a chunk are
\* queued with its first; and the record of a page about to be flagged is elsewhere or
\* gone.
QueueInv ==
    /\ Compacting => ~PutsRunning
    /\ \A l \in compact.queue :
          chunks[At(files, l).chunk] # None => chunks[At(files, l).chunk].rc = 0
    /\ \A c \in ChunkId : chunks[c] # None =>
          \A p \in 1..Pages[c] :
              PartOf(chunks[c].loc, p) \in compact.queue => chunks[c].loc \in compact.queue
    /\ compact.pc = "mark" =>
          LET l == FirstOf(compact.queue)
          IN  chunks[At(files, l).chunk] # None => chunks[At(files, l).chunk].loc # l

\* Between RewriteSegment and the removal of the segment it has rewritten.
Relocating == compact.pc \in {"relocate", "store"}

\* In phase 2 each record that points into the segment being removed has a page among
\* those still to be relocated; each of these is as good as what the record has.
MovedInv ==
    /\ Rewriting => ~NoRewrites
    /\ \A l \in compact.moved :
          /\ ~At(files, l).deleted /\ l[1] \notin compact.todo
          /\ chunks[At(files, l).chunk] # None =>
                At(files, l).sealed = nonce[At(files, l).chunk]
    /\ Relocating =>
          \A c \in ChunkId : chunks[c] # None /\ chunks[c].loc[1] = Min(compact.todo) =>
              \E l \in compact.moved : At(files, l).chunk = c
    /\ compact.pc = "store" =>
          LET c == At(files, FirstOf(compact.moved)).chunk
          IN  /\ chunks[c] # None
              /\ compact.held >= Cardinality(Uses(c))
              /\ compact.nonce = nonce[c]

\* Why an unflagged page is there: a record points at it, a Put has still to commit or
\* to flag it, or Compact is about to flag it, to relocate it or to remove it.
Recorded(l)   == chunks[At(files, l).chunk] # None /\ chunks[At(files, l).chunk].loc = l
InPut(l)      == \E w \in Writer : \E i \in Pending(w) : put[w].at[i] = l
InCompact(l)  == \/ compact.pc = "mark" /\ l = FirstOf(compact.queue)
                 \/ Relocating /\ (l \in compact.moved \/ l[1] = Min(compact.todo))

AccountedInv ==
    /\ \A l \in Place : Has(files, l) /\ ~At(files, l).deleted =>
          Recorded(l) \/ InPut(l) \/ InCompact(l)
    /\ \A l \in compact.moved :
          /\ chunks[At(files, l).chunk] # None
          /\ chunks[At(files, l).chunk].loc[1] = Min(compact.todo)
          /\ \A m \in compact.moved : At(files, m).chunk = At(files, l).chunk => m = l

\* The process runs and the namespace stays.
LifeHeld ==
    /\ open /\ space.recorded /\ space.dropping = None
    /\ used \in [compacts : Nat, crashes : Nat, closes : Nat, rebuilds : Nat, drops : Nat]

CopiesInv == TypeInv /\ RecordsInv /\ PendingInv

CompactingInv ==
    /\ CopiesInv /\ LifeHeld /\ IndexInv /\ QueueInv /\ MovedInv
    /\ OnePage /\ NothingLeft => AccountedInv

-----------------------------------------------------------------------------
(* Copies that stay                                                        *)

\* A step leaves the pages of chunk c at l alone.
Stays(c, l) ==
    \A p \in 1..Pages[c] :
        Has(files, PartOf(l, p)) =>
            Has(files', PartOf(l, p)) /\ At(files', PartOf(l, p)) = At(files, PartOf(l, p))

\* Parts are places.
LEMMA PartPlace ==
    ASSUME NEW c \in ChunkId, NEW l \in Place, NEW p \in 1..Pages[c]
    PROVE  PartOf(l, p) \in Place
<1>1. l[1] \in Nat /\ l[2] \in Nat /\ p \in Nat /\ p >= 1
    BY PagesType DEF Place
<1> QED
    BY <1>1 DEF PartOf, Place

\* The first page is where the chunk is.
LEMMA FirstPart ==
    ASSUME NEW l \in Place
    PROVE  PartOf(l, 1) = l
BY DEF PartOf, Place

\* The first page of a whole copy.
LEMMA WholeFirst ==
    ASSUME NEW fs, NEW c \in ChunkId, NEW l \in Place, NEW n, Whole(fs, c, l, n)
    PROVE  Has(fs, l) /\ IsCopy(At(fs, l), c, 1, n)
<1>1. 1 \in 1..Pages[c]
    BY PagesType
<1> QED
    BY <1>1, FirstPart DEF Whole

LEMMA WholeStays ==
    ASSUME NEW c, NEW l, NEW n, Whole(files, c, l, n), Stays(c, l)
    PROVE  Whole(files', c, l, n)
BY DEF Whole, Stays

\* What only adds pages leaves all copies alone.
LEMMA KeepsStays ==
    ASSUME NEW c \in ChunkId, NEW l \in Place, Keeps(files, files')
    PROVE  Stays(c, l)
BY PartPlace, Zenon DEF Stays, Keeps

LEMMA SameStays ==
    ASSUME NEW c, NEW l, files' = files
    PROVE  Stays(c, l)
BY DEF Stays

\* Flagging a page that is not of a copy leaves it alone.
LEMMA FlagStays ==
    ASSUME FilesInv, NEW m \in Loc, HasPage(m), SetDeleted(m),
           NEW c \in ChunkId, NEW l \in Place, ~IsPartOf(c, l, m)
    PROVE  Stays(c, l)
<1>1. \A x \in Place : Has(files, x) => Has(files', x) /\ At(files', x) =
          IF x = m THEN [At(files, m) EXCEPT !.deleted = TRUE] ELSE At(files, x)
    BY FlagIs
<1>2. ASSUME NEW p \in 1..Pages[c], Has(files, PartOf(l, p))
      PROVE  Has(files', PartOf(l, p)) /\ At(files', PartOf(l, p)) = At(files, PartOf(l, p))
  <2>1. PartOf(l, p) \in Place /\ PartOf(l, p) # m
      BY PartPlace DEF IsPartOf
  <2> QED
      BY <1>1, <1>2, <2>1
<1> QED
    BY <1>2 DEF Stays

\* The first page of another copy is not of this one.
LEMMA CopiesApart ==
    ASSUME NEW fs, NEW c \in ChunkId, NEW l \in Place, NEW n, Whole(fs, c, l, n),
           NEW m \in Place, At(fs, m).part = 1, m # l
    PROVE  ~IsPartOf(c, l, m)
<1> SUFFICES ASSUME NEW p \in 1..Pages[c], m = PartOf(l, p) PROVE FALSE
    BY DEF IsPartOf
<1>1. At(fs, m).part = p
    BY DEF Whole, IsCopy
<1>2. p = 1
    BY <1>1
<1> QED
    BY <1>2, FirstPart

-----------------------------------------------------------------------------
(* Records and pending copies that a step leaves alone                     *)

LEMMA RecordKept ==
    ASSUME NEW c, RecordOK(c), UNCHANGED space,
           chunks'[c].ns = chunks[c].ns, chunks'[c].loc = chunks[c].loc,
           nonce'[c] = nonce[c], c \in short' => c \in short, Stays(c, chunks[c].loc)
    PROVE  RecordOK(c)'
<1>1. Whole(files', c, chunks[c].loc, nonce[c])
    BY WholeStays DEF RecordOK
<1> QED
    BY <1>1 DEF RecordOK, Keyed

LEMMA RecordsKept ==
    ASSUME RecordsInv, UNCHANGED space,
           \A c \in ChunkId : chunks'[c] # None =>
               /\ chunks[c] # None
               /\ chunks'[c].ns = chunks[c].ns /\ chunks'[c].loc = chunks[c].loc
               /\ nonce'[c] = nonce[c] /\ (c \in short' => c \in short)
               /\ Stays(c, chunks[c].loc)
    PROVE  RecordsInv'
<1>1. ASSUME NEW c \in ChunkId, chunks'[c] # None PROVE RecordOK(c)'
  <2>1. chunks[c] # None /\ RecordOK(c)
      BY <1>1 DEF RecordsInv
  <2> QED
      BY <1>1, <2>1, RecordKept
<1> QED
    BY <1>1 DEF RecordsInv

LEMMA PendingKept ==
    ASSUME PendingInv, UNCHANGED space,
           \A w \in Writer : \A i \in Pending(w)' :
               /\ i \in Pending(w)
               /\ put'[w].ids = put[w].ids /\ put'[w].at = put[w].at
               /\ Stays(put[w].ids[i], put[w].at[i]),
           \A w \in Writer : \A i \in Pending(w)' : \A c \in ChunkId :
               chunks'[c] # None => chunks'[c].loc # put[w].at[i]
    PROVE  PendingInv'
<1> SUFFICES ASSUME NEW w \in Writer, NEW i \in Pending(w)'
             PROVE  PendingOK(w, i)'
    BY DEF PendingInv
<1>1. PendingOK(w, i) /\ i \in Pending(w)
    BY DEF PendingInv
<1>2. put'[w].ids = put[w].ids /\ put'[w].at = put[w].at /\ Stays(put[w].ids[i], put[w].at[i])
    OBVIOUS
<1>3. Whole(files', put[w].ids[i], put[w].at[i], Sealed(put[w].at[i]))
    BY <1>1, <1>2, WholeStays DEF PendingOK
<1>4. Sealed(put[w].at[i])' = Sealed(put[w].at[i])
    BY <1>2 DEF Sealed
<1>5. ASSUME NEW v \in Writer, NEW j \in Pending(v)', put'[v].at[j] = put'[w].at[i]
      PROVE  v = w /\ j = i
  <2>1. j \in Pending(v) /\ put'[v].at = put[v].at
      OBVIOUS
  <2> QED
      BY <1>1, <1>2, <1>5, <2>1 DEF PendingOK
<1> QED
    BY <1>2, <1>3, <1>4, <1>5 DEF PendingOK

\* An idle Put has nothing pending.
LEMMA IdlePending ==
    ASSUME NEW w, put[w] = IdlePut
    PROVE  Pending(w) = {}
BY DEF Pending, IdlePut

LEMMA NoPending ==
    ASSUME PutsInv, ~PutsRunning
    PROVE  \A w \in Writer : put[w] = IdlePut /\ Pending(w) = {}
<1>1. \A w \in Writer : put[w].pc = "idle"
    BY DEF PutsRunning
<1>2. \A w \in Writer : put[w] = IdlePut
    BY <1>1 DEF PutsInv, BusyPutOK, BusyPut
<1> QED
    BY <1>2, IdlePending

\* Without Puts nothing is pending, whatever else changes.
LEMMA NoPendingStays ==
    ASSUME PutsInv, ~PutsRunning, UNCHANGED put
    PROVE  PendingInv'
<1>1. \A w \in Writer : put'[w] = IdlePut
    BY NoPending
<1>2. \A w \in Writer : Pending(w)' = {}
    BY <1>1 DEF Pending, IdlePut
<1> QED
    BY <1>2 DEF PendingInv

\* Records have locations, and so have pending copies.
LEMMA RecordPlace ==
    ASSUME IndexTypeOK, NEW c \in ChunkId, chunks[c] # None
    PROVE  /\ chunks[c].loc \in Loc /\ chunks[c].loc \in Place /\ chunks[c].rc \in Nat
           /\ chunks[c] = [ns |-> chunks[c].ns, rc |-> chunks[c].rc, loc |-> chunks[c].loc]
BY LocIsPlace DEF IndexTypeOK, ChunkEntry

LEMMA PendingPlace ==
    ASSUME PutsInv, NEW w \in Writer, NEW i \in Pending(w)
    PROVE  /\ BusyPutOK(put[w]) /\ put[w].pc # "idle"
           /\ i \in DOMAIN put[w].ids /\ put[w].ids[i] \in ChunkId
           /\ put[w].at[i] \in Loc /\ put[w].at[i] \in Place
           /\ HasPage(put[w].at[i])
<1>1. put[w] # IdlePut
    BY IdlePending
<1>2. BusyPutOK(put[w])
    BY <1>1 DEF PutsInv
<1>3. i \in DOMAIN put[w].ids /\ put[w].ids \in Seq(ChunkId)
    BY <1>2, BusyMeans DEF Pending
<1>4. put[w].pc # "idle"
    BY <1>2 DEF BusyPutOK, BusyPut
<1>5. put[w].at[i] \in Loc /\ HasPage(put[w].at[i])
    BY <1>2, <1>3, BusyMeans
<1> QED
    BY <1>2, <1>3, <1>4, <1>5, LocIsPlace

-----------------------------------------------------------------------------
(* Put: the copies and their records                                       *)

LEMMA NewCopies ==
    ASSUME NEW c, NEW b, NEW i, NEW total, NEW l
    PROVE  \A q \in 1..Pages[c] :
               IsCopy(ChunkPages(c, b, i, total, l)[q], c, q, Sealed(l))
BY DEF ChunkPages, IsCopy

\* WriteBlob adds one whole copy for each chunk, where there was nothing.
LEMMA WriteIs ==
    ASSUME TypeInv, NEW w \in Writer, NEW k \in Key, NEW b \in Content[NS], WriteBlob(w, k, b)
    PROVE  LET p == put'[w]
           IN  /\ p.pc = "written" /\ p.key = k /\ p.blob = b
               /\ p.ids \in Manifests[b] /\ p.ids \in Seq(ChunkId)
               /\ put[w] = IdlePut /\ \A v \in Writer : v # w => put'[v] = put[v]
               /\ Keeps(files, files')
               /\ \A i \in DOMAIN p.ids :
                     /\ p.at[i] \in Loc /\ ~Has(files, p.at[i])
                     /\ Whole(files', p.ids[i], p.at[i], Sealed(p.at[i]))
               /\ \A i, j \in DOMAIN p.ids : p.at[i] = p.at[j] => i = j
               /\ \A m \in Place : Has(files', m) =>
                     Has(files, m) \/ \E i \in DOMAIN p.ids : IsPartOf(p.ids[i], p.at[i], m)
<1>1. PICK ids \in Manifests[b] \ {<< >>} :
          LET v == Written(b, ids)
          IN  /\ v.next <= MaxSegment + 1
              /\ files' = v.files /\ active' = v.active /\ nextSeq' = v.next
              /\ put' = [put EXCEPT ![w] =
                           [pc |-> "written", key |-> k, blob |-> b, ids |-> ids,
                            at |-> v.at, dups |-> {}]]
    BY DEF WriteBlob
<1> DEFINE v == Written(b, ids)
           p == [pc |-> "written", key |-> k, blob |-> b, ids |-> ids, at |-> v.at, dups |-> {}]
<1>2. b \in Blob /\ ids \in Seq(ChunkId) /\ ids \in Manifests[b]
    BY ContentIsBlob, ManifestAssumption
<1>3. Len(ids) \in Nat /\ DOMAIN ids = 1..Len(ids)
    BY <1>2
<1>4. WrittenOK(v, b, ids, Len(ids))
    BY <1>1, <1>2, WrittenIs DEF TypeInv
<1>5. files' = v.files /\ put' = [put EXCEPT ![w] = p]
    BY <1>1
<1> HIDE DEF v
<1>6. put[w] = IdlePut
    BY DEF TypeInv, WriteBlob, PutsInv, BusyPutOK, BusyPut
<1>7. put'[w] = p /\ \A x \in Writer : x # w => put'[x] = put[x]
    BY <1>5 DEF TypeInv, PutsInv
<1>8. ASSUME NEW i \in DOMAIN ids
      PROVE  /\ v.at[i] \in Loc /\ ~Has(files, v.at[i])
             /\ Whole(files', ids[i], v.at[i], Sealed(v.at[i]))
  <2>1. v.at[i] \in Loc /\ ids[i] \in ChunkId /\ i \in Nat /\ Len(ids) \in Nat
      BY <1>2, <1>3, <1>4 DEF WrittenOK
  <2>2. PICK c, l, t : c = ids[i] /\ l = v.at[i] /\ t = Len(ids)
      OBVIOUS
  <2> DEFINE x == ChunkPages(c, b, i, t, l)
  <2>4. \A q \in 1..Pages[c] : IsCopy(x[q], c, q, Sealed(l))
      BY NewCopies
  <2>5. Added(files, v.files, c, b, i, t, l)
      BY <1>3, <1>4, <2>2, Zenon DEF WrittenOK
  <2>6. /\ ~Has(files, l)
        /\ \A q \in 1..Pages[c] :
              Has(v.files, PartOf(l, q)) /\ At(v.files, PartOf(l, q)) = x[q]
      BY <2>5, Zenon DEF Added
  <2> HIDE DEF x
  <2>7. Whole(v.files, c, l, Sealed(l))
      BY <2>4, <2>6, Zenon DEF Whole
  <2> QED
      BY <1>5, <2>1, <2>2, <2>6, <2>7
<1>9. \A i, j \in DOMAIN ids : v.at[i] = v.at[j] => i = j
    BY <1>3, <1>4 DEF WrittenOK
<1>10. /\ Keeps(files, files')
       /\ \A m \in Place : Has(files', m) =>
             Has(files, m) \/ \E i \in DOMAIN ids : IsPartOf(ids[i], v.at[i], m)
    BY <1>3, <1>4, <1>5, Zenon DEF WrittenOK
<1>11. /\ p.pc = "written" /\ p.key = k /\ p.blob = b /\ p.ids = ids /\ p.at = v.at
    OBVIOUS
<1> HIDE DEF p
<1> QED
    BY <1>2, <1>6, <1>7, <1>8, <1>9, <1>10, <1>11

\* The copies WriteBlob adds are where no record and no other Put has one.
LEMMA CopiesWriteBlob ==
    ASSUME TypeInv, RecordsInv, PendingInv,
           NEW w \in Writer, NEW k \in Key, NEW b \in Content[NS], WriteBlob(w, k, b)
    PROVE  RecordsInv' /\ PendingInv'
<1>0. PICK p : p = put'[w]
    OBVIOUS
<1>1. /\ p.pc = "written" /\ p.ids \in Seq(ChunkId)
      /\ put[w] = IdlePut /\ \A v \in Writer : v # w => put'[v] = put[v]
      /\ Keeps(files, files')
      /\ \A i \in DOMAIN p.ids :
            /\ p.at[i] \in Loc /\ ~Has(files, p.at[i])
            /\ Whole(files', p.ids[i], p.at[i], Sealed(p.at[i]))
      /\ \A i, j \in DOMAIN p.ids : p.at[i] = p.at[j] => i = j
    BY <1>0, WriteIs
<1>2. UNCHANGED <<chunks, short, nonce, space>>
    BY DEF WriteBlob, ixVars, recVars, lifeVars
<1>3. RecordsInv'
  <2>1. ASSUME NEW c \in ChunkId, chunks[c] # None PROVE Stays(c, chunks[c].loc)
    <3>1. chunks[c].loc \in Place
        BY <2>1, RecordPlace DEF TypeInv
    <3> QED
        BY <1>1, <3>1, KeepsStays
  <2> QED
      BY <1>2, <2>1, RecordsKept
<1>4. ASSUME NEW v \in Writer, v # w
      PROVE  Pending(v)' = Pending(v) /\ put'[v] = put[v]
    BY <1>1, <1>4 DEF Pending
<1>5. Pending(w)' = DOMAIN p.ids
    BY <1>0, <1>1 DEF Pending
<1>12. \A l : Sealed(l)' = Sealed(l)
    BY <1>2 DEF Sealed
<1>6. ASSUME NEW v \in Writer, v # w, NEW i \in Pending(v)
      PROVE  \A j \in DOMAIN p.ids : put[v].at[i] # p.at[j]
  <2>1. HasPage(put[v].at[i])
      BY PendingPlace DEF TypeInv
  <2> QED
      BY <1>1, <2>1, HasPageIs
<1>7. ASSUME NEW v \in Writer, NEW i \in Pending(v)'
      PROVE  PendingOK(v, i)'
  <2>1. CASE v = w
    <3>1. i \in DOMAIN p.ids /\ put'[v] = p
        BY <1>0, <1>5, <2>1
    <3>2. Whole(files', p.ids[i], p.at[i], Sealed(p.at[i])')
        BY <1>1, <1>12, <3>1
    <3>3. ASSUME NEW c \in ChunkId, chunks'[c] # None PROVE chunks'[c].loc # p.at[i]
      <4>1. chunks[c] # None /\ chunks'[c] = chunks[c] /\ RecordOK(c)
          BY <1>2, <3>3 DEF RecordsInv
      <4>2. chunks[c].loc \in Place
          BY <4>1, RecordPlace DEF TypeInv
      <4>3. Has(files, chunks[c].loc)
          BY <4>1, <4>2, WholeFirst DEF RecordOK
      <4> QED
          BY <1>1, <3>1, <4>1, <4>3
    <3>4. ASSUME NEW x \in Writer, NEW j \in Pending(x)', put'[x].at[j] = p.at[i]
          PROVE  x = v /\ j = i
      <4>1. CASE x = w
          BY <1>0, <1>1, <1>5, <2>1, <3>1, <3>4, <4>1
      <4>2. CASE x # w
          BY <1>4, <1>6, <3>1, <3>4, <4>2
      <4> QED
          BY <4>1, <4>2
    <3> QED
        BY <3>1, <3>2, <3>3, <3>4 DEF PendingOK
  <2>2. CASE v # w
    <3>1. PendingOK(v, i) /\ i \in Pending(v) /\ put'[v] = put[v]
        BY <1>4, <2>2 DEF PendingInv
    <3>2. put[v].ids[i] \in ChunkId /\ put[v].at[i] \in Place
        BY <3>1, PendingPlace DEF TypeInv
    <3>3. Whole(files', put[v].ids[i], put[v].at[i], Sealed(put[v].at[i]))
        BY <1>1, <3>1, <3>2, KeepsStays, WholeStays DEF PendingOK
    <3>4. Sealed(put[v].at[i]) = Sealed(put[v].at[i])'
        BY <1>2, <3>1 DEF Sealed
    <3>5. ASSUME NEW x \in Writer, NEW j \in Pending(x)', put'[x].at[j] = put[v].at[i]
          PROVE  x = v /\ j = i
      <4>1. CASE x = w
          BY <1>0, <1>5, <1>6, <2>2, <3>1, <3>5, <4>1
      <4>2. CASE x # w
          BY <1>4, <3>1, <3>5, <4>2 DEF PendingOK
      <4> QED
          BY <4>1, <4>2
    <3>6. \A c \in ChunkId : chunks'[c] # None => chunks'[c].loc # put[v].at[i]
        BY <1>2, <3>1 DEF PendingOK
    <3> QED
        BY <3>1, <3>3, <3>4, <3>5, <3>6 DEF PendingOK
  <2> QED
      BY <2>1, <2>2
<1> QED
    BY <1>3, <1>7 DEF PendingInv

\* The entry LogBlob appends to a log moves no page.
LEMMA LogStays ==
    ASSUME FilesInv, PutsInv, NEW w \in Writer, LogBlob(w)
    PROVE  /\ \A c, l : Stays(c, l)
           /\ \A m : /\ Has(files', m) <=> Has(files, m)
                     /\ Has(files, m) => At(files', m) = At(files, m)
<1>1. DOMAIN files' = DOMAIN files /\ \A s \in DOMAIN files : files'[s].pages = files[s].pages
    BY LogIs
<1>2. \A m : (Has(files', m) <=> Has(files, m)) /\ (Has(files, m) => At(files', m) = At(files, m))
    BY <1>1 DEF Has, At
<1> QED
    BY <1>2 DEF Stays

LEMMA CopiesLogBlob ==
    ASSUME TypeInv, RecordsInv, PendingInv, NEW w \in Writer, LogBlob(w)
    PROVE  RecordsInv' /\ PendingInv'
<1>1. UNCHANGED <<chunks, short, nonce, space>> /\ put[w].pc = "written"
      /\ put' = [put EXCEPT ![w].pc = "logged"]
    BY DEF LogBlob, ixVars, recVars, lifeVars
<1>2. \A c, l : Stays(c, l)
    BY LogStays DEF TypeInv
<1>3. BusyPutOK(put[w])
    BY <1>1, BusyIs DEF TypeInv
<1>4. \A v \in Writer : /\ put'[v].ids = put[v].ids /\ put'[v].at = put[v].at
                        /\ Pending(v)' = Pending(v)
  <2>1. SUFFICES ASSUME NEW v \in Writer
                 PROVE  /\ put'[v].ids = put[v].ids /\ put'[v].at = put[v].at
                        /\ Pending(v)' = Pending(v)
      OBVIOUS
  <2>2. CASE v = w
    <3>1. put[w] = [pc |-> put[w].pc, key |-> put[w].key, blob |-> put[w].blob,
                    ids |-> put[w].ids, at |-> put[w].at, dups |-> put[w].dups]
        BY <1>3, BusyMeans
    <3>2. put'[w] = [put[w] EXCEPT !.pc = "logged"]
        BY <1>1 DEF TypeInv, PutsInv
    <3> QED
        BY <1>1, <2>2, <3>1, <3>2 DEF Pending
  <2>3. CASE v # w
    <3>1. put'[v] = put[v]
        BY <1>1, <2>3 DEF TypeInv, PutsInv
    <3> QED
        BY <3>1 DEF Pending
  <2> QED
      BY <2>2, <2>3
<1>5. RecordsInv'
    BY <1>1, <1>2, RecordsKept
<1>6. \A v \in Writer : \A i \in Pending(v) : \A c \in ChunkId :
          chunks[c] # None => chunks[c].loc # put[v].at[i]
    BY DEF PendingInv, PendingOK
<1>7. PendingInv'
    BY <1>1, <1>2, <1>4, <1>6, PendingKept
<1> QED
    BY <1>5, <1>7

LEMMA CopiesCheckQuota ==
    ASSUME TypeInv, RecordsInv, PendingInv, NEW w \in Writer, CheckQuota(w)
    PROVE  /\ RecordsInv' /\ PendingInv'
           /\ \A v \in Writer : \A i \in Pending(v)' : i \in Pending(v) /\ put'[v].at = put[v].at
           /\ WithinQuota(put[w].blob) => \A v \in Writer : Pending(v)' = Pending(v)
           /\ \A v \in Writer : v # w => put'[v] = put[v]
           /\ put'[w] = IdlePut \/ put'[w] = [put[w] EXCEPT !.pc = "checked"]
<1>1. /\ UNCHANGED <<files, chunks, short, nonce, space>> /\ put[w].pc = "logged"
      /\ put' = [put EXCEPT ![w] = IF WithinQuota(put[w].blob)
                                   THEN [put[w] EXCEPT !.pc = "checked"] ELSE IdlePut]
    BY DEF CheckQuota, ixVars, volVars, recVars, lifeVars
<1>2. \A c, l : Stays(c, l)
    BY <1>1, SameStays
<1>3. BusyPutOK(put[w])
    BY <1>1, BusyIs DEF TypeInv
<1>4. put'[w] = IF WithinQuota(put[w].blob) THEN [put[w] EXCEPT !.pc = "checked"] ELSE IdlePut
    BY <1>1 DEF TypeInv, PutsInv
<1>5. \A v \in Writer : v # w => put'[v] = put[v]
    BY <1>1 DEF TypeInv, PutsInv
<1>6. ASSUME NEW v \in Writer
      PROVE  /\ \A i \in Pending(v)' :
                    i \in Pending(v) /\ put'[v].ids = put[v].ids /\ put'[v].at = put[v].at
             /\ WithinQuota(put[w].blob) => Pending(v)' = Pending(v)
  <2>1. CASE v # w
    <3>1. put'[v] = put[v]
        BY <1>5, <2>1
    <3> QED
        BY <3>1 DEF Pending
  <2>2. CASE v = w /\ put'[w] = IdlePut /\ ~WithinQuota(put[w].blob)
      BY <2>2 DEF Pending, IdlePut
  <2>3. CASE v = w /\ put'[w] = [put[w] EXCEPT !.pc = "checked"]
    <3>1. put[w] = [pc |-> put[w].pc, key |-> put[w].key, blob |-> put[w].blob,
                    ids |-> put[w].ids, at |-> put[w].at, dups |-> put[w].dups]
        BY <1>3, BusyMeans
    <3> QED
        BY <1>1, <2>3, <3>1 DEF Pending
  <2> QED
      BY <1>4, <2>1, <2>2, <2>3
<1>7. RecordsInv'
    BY <1>1, <1>2, RecordsKept
<1>8. \A v \in Writer : \A i \in Pending(v) : \A c \in ChunkId :
          chunks[c] # None => chunks[c].loc # put[v].at[i]
    BY DEF PendingInv, PendingOK
<1>9. PendingInv'
    BY <1>1, <1>2, <1>6, <1>8, PendingKept
<1> QED
    BY <1>4, <1>5, <1>6, <1>7, <1>9

LEMMA CopiesCancelPut ==
    ASSUME TypeInv, RecordsInv, PendingInv, NEW w \in Writer, CancelPut(w)
    PROVE  /\ RecordsInv' /\ PendingInv'
           /\ \A v \in Writer : \A i \in Pending(v)' : i \in Pending(v) /\ put'[v] = put[v]
           /\ \A v \in Writer : v # w => put'[v] = put[v]
           /\ put'[w] = IdlePut
<1>1. /\ UNCHANGED <<files, chunks, short, nonce, space>>
      /\ put' = [put EXCEPT ![w] = IdlePut]
    BY DEF CancelPut, ixVars, volVars, recVars, lifeVars
<1>2. \A c, l : Stays(c, l)
    BY <1>1, SameStays
<1>3. put'[w] = IdlePut /\ \A v \in Writer : v # w => put'[v] = put[v]
    BY <1>1 DEF TypeInv, PutsInv
<1>4. ASSUME NEW v \in Writer
      PROVE  \A i \in Pending(v)' : i \in Pending(v) /\ put'[v] = put[v]
  <2>1. CASE v # w
    <3>1. put'[v] = put[v]
        BY <1>3, <2>1
    <3> QED
        BY <3>1 DEF Pending
  <2>2. CASE v = w
      BY <1>3, <2>2 DEF Pending, IdlePut
  <2> QED
      BY <2>1, <2>2
<1>5. RecordsInv'
    BY <1>1, <1>2, RecordsKept
<1>6. \A v \in Writer : \A i \in Pending(v) : \A c \in ChunkId :
          chunks[c] # None => chunks[c].loc # put[v].at[i]
    BY DEF PendingInv, PendingOK
<1>7. \A v \in Writer : \A i \in Pending(v)' :
          i \in Pending(v) /\ put'[v].ids = put[v].ids /\ put'[v].at = put[v].at
    BY <1>4
<1>8. PendingInv'
    BY <1>1, <1>2, <1>6, <1>7, PendingKept
<1> QED
    BY <1>3, <1>4, <1>5, <1>8

\* Nothing of the copies depends on who refers to what: a commit or any other
\* change of the index that adds no record and moves none.
LEMMA CopiesIndexOnly ==
    ASSUME TypeInv, RecordsInv, PendingInv, UNCHANGED <<files, short, nonce, space, put>>,
           \A c \in ChunkId : chunks'[c] # None =>
               chunks[c] # None /\ chunks'[c].ns = chunks[c].ns /\ chunks'[c].loc = chunks[c].loc
    PROVE  RecordsInv' /\ PendingInv'
<1>1. \A c, l : Stays(c, l)
    BY SameStays
<1>2. RecordsInv'
    BY <1>1, RecordsKept
<1>3. \A v \in Writer : Pending(v)' = Pending(v)
    BY DEF Pending
<1>4. \A v \in Writer : \A i \in Pending(v) : \A c \in ChunkId :
          chunks'[c] # None => chunks'[c].loc # put[v].at[i]
    BY DEF PendingInv, PendingOK
<1>5. PendingInv'
    BY <1>1, <1>3, <1>4, PendingKept
<1> QED
    BY <1>2, <1>5

\* What the commit of the Put p, of which the index did not need dups, does: it keeps
\* the records there are, and gives the chunks without one the place and the nonce of
\* the first of the Put's own copies.
Committed(w, p, dups) ==
    /\ BusyPutOK(p) /\ p.pc = "checked" /\ dups \subseteq DOMAIN p.ids
    /\ UNCHANGED <<files, space, compact>>
    /\ \A v \in Writer : v # w => put'[v] = put[v]
    /\ put'[w] = IF dups = {} THEN IdlePut
                 ELSE [p EXCEPT !.pc = "marking", !.dups = dups]
    /\ \A c \in ChunkId : chunks[c] # None =>
          /\ chunks'[c] # None
          /\ chunks'[c].ns = chunks[c].ns /\ chunks'[c].loc = chunks[c].loc
          /\ nonce'[c] = nonce[c] /\ (c \in short' => c \in short)
    /\ \A c \in ChunkId : chunks[c] = None /\ chunks'[c] # None =>
          \E i \in DOMAIN p.ids \ dups : p.ids[i] = c
    /\ \A i \in DOMAIN p.ids \ dups :
          LET c == p.ids[i]
          IN  /\ chunks[c] = None /\ chunks'[c] # None
              /\ chunks'[c].ns = NS /\ chunks'[c].loc = p.at[i]
              /\ nonce'[c] = Sealed(p.at[i]) /\ c \notin short'

LEMMA CommitIs ==
    ASSUME TypeInv, RecordsInv, NEW w \in Writer, CommitBlob(w)
    PROVE  Committed(w, put[w], PutDuplicates(NS, put[w].key, put[w].blob, put[w].ids))
<1>1. PICK p : p = put[w]
    OBVIOUS
<1>2. PICK dups : dups = PutDuplicates(NS, p.key, p.blob, p.ids)
    OBVIOUS
<1> DEFINE fresh == DOMAIN p.ids \ dups
<1>3. /\ p.pc = "checked"
      /\ \E custom \in Meta : CommitPut(NS, p.key, p.blob, p.ids, p.at, custom)
      /\ put' = [put EXCEPT ![w] =
                   IF dups = {} THEN IdlePut ELSE [p EXCEPT !.pc = "marking", !.dups = dups]]
      /\ short' = short \ {p.ids[i] : i \in fresh}
      /\ nonce' = [c \in ChunkId |->
                     IF \E i \in fresh : p.ids[i] = c
                     THEN Sealed(p.at[FirstAt(p.ids, c)]) ELSE nonce[c]]
      /\ UNCHANGED <<files, space, compact>>
    BY <1>1, <1>2 DEF CommitBlob, volVars, lifeVars
<1>4. BusyPutOK(p)
    BY <1>1, <1>3, BusyIs DEF TypeInv
<1>5. /\ p.blob \in Blob /\ p.key \in Key /\ p.ids \in Seq(ChunkId)
      /\ p.at \in [DOMAIN p.ids -> Loc]
    BY <1>4, BusyMeans
<1>6. PICK left : left = Release(chunks, Replaced(NS, p.key, p.blob))
    OBVIOUS
<1>7. chunks' = Acquire(left, NS, p.ids, p.at)
    BY <1>3, <1>6 DEF CommitPut
<1>8. /\ left \in ChunkRecords
      /\ \A c \in ChunkId : /\ left[c] = None <=> chunks[c] = None
                            /\ chunks[c] # None => /\ left[c].ns = chunks[c].ns
                                                   /\ left[c].loc = chunks[c].loc
  <2>1. Replaced(NS, p.key, p.blob) \in Seq(ChunkId)
      BY <1>5, NSAssumption, ReplacedType DEF TypeInv
  <2>2. chunks \in ChunkRecords
      BY DEF TypeInv, IndexTypeOK, ChunkRecords
  <2> QED
      BY <1>6, <2>1, <2>2, ReleaseHeld
<1>9. \A c \in ChunkId : left[c] # None => left[c].ns = NS
    BY <1>8 DEF RecordsInv, RecordOK
<1>10. dups = {i \in DOMAIN p.ids : Owned(left, NS, p.ids[i]) \/ i # FirstAt(p.ids, p.ids[i])}
    BY <1>2, <1>6 DEF PutDuplicates, Duplicates
<1>11. \A i \in DOMAIN p.ids : p.ids[i] \in ChunkId
    BY <1>5
<1>12. ASSUME NEW i \in fresh
       PROVE  chunks[p.ids[i]] = None /\ left[p.ids[i]] = None /\ i = FirstAt(p.ids, p.ids[i])
    BY <1>8, <1>9, <1>10, <1>11 DEF Owned
<1>13. ASSUME NEW c \in ChunkId, chunks[c] # None
       PROVE  /\ chunks'[c] # None
              /\ chunks'[c].ns = chunks[c].ns /\ chunks'[c].loc = chunks[c].loc
              /\ nonce'[c] = nonce[c] /\ (c \in short' => c \in short)
  <2>1. /\ chunks'[c] # None
        /\ chunks'[c].ns = left[c].ns /\ chunks'[c].loc = left[c].loc
      BY <1>5, <1>7, <1>8, <1>9, <1>11, <1>13, NSAssumption, AcquireHeld
  <2>2. ~\E i \in fresh : p.ids[i] = c
      BY <1>12, <1>13
  <2> QED
      BY <1>3, <1>8, <1>13, <2>1, <2>2
<1>14. ASSUME NEW c \in ChunkId, chunks[c] = None, chunks'[c] # None
       PROVE  \E i \in fresh : p.ids[i] = c
  <2>1. left[c] = None
      BY <1>8, <1>14
  <2>2. PICK j \in DOMAIN p.ids : p.ids[j] = c
      BY <1>5, <1>7, <1>8, <1>9, <1>11, <1>14, <2>1, NSAssumption, AcquireHeld
  <2>3. FirstAt(p.ids, c) \in DOMAIN p.ids /\ p.ids[FirstAt(p.ids, c)] = c
      BY <1>5, <2>2, FirstAtType
  <2>4. FirstAt(p.ids, c) \notin dups
      BY <1>10, <2>1, <2>3 DEF Owned
  <2> QED
      BY <2>3, <2>4
<1>15. ASSUME NEW i \in fresh
       PROVE  LET c == p.ids[i]
              IN  /\ chunks[c] = None /\ chunks'[c] # None
                  /\ chunks'[c].ns = NS /\ chunks'[c].loc = p.at[i]
                  /\ nonce'[c] = Sealed(p.at[i]) /\ c \notin short'
  <2>1. PICK c \in ChunkId : c = p.ids[i]
      BY <1>11
  <2>2. Count(p.ids, c) # 0
    <3>1. \E j \in DOMAIN p.ids : p.ids[j] = c
        BY <2>1
    <3>2. Count(p.ids, c) \in Nat /\ Count(p.ids, c) > 0
        BY <1>5, <3>1, CountType
    <3> QED
        BY <3>2
  <2>3. left[c] = None /\ chunks[c] = None /\ i = FirstAt(p.ids, c)
      BY <1>12, <2>1
  <2>4. chunks'[c] = [ns |-> NS, rc |-> Count(p.ids, c), loc |-> p.at[i]]
      BY <1>7, <2>2, <2>3 DEF Acquire, Owned
  <2>5. chunks'[c] # None
    <3>1. [ns |-> NS, rc |-> Count(p.ids, c), loc |-> p.at[i]] \in ChunkEntry
        BY <1>5, <2>1, CountType, NSAssumption DEF ChunkEntry
    <3> QED
        BY <2>4, <3>1, NoneAssumption
  <2>6. nonce'[c] = Sealed(p.at[i]) /\ c \notin short'
    <3>1. \E j \in fresh : p.ids[j] = c
        BY <2>1
    <3> QED
        BY <1>3, <2>3, <3>1
  <2> QED
      BY <2>1, <2>3, <2>4, <2>5, <2>6
<1>16. dups \subseteq DOMAIN p.ids
    BY <1>10
<1>17. /\ \A v \in Writer : v # w => put'[v] = put[v]
       /\ put'[w] = IF dups = {} THEN IdlePut ELSE [p EXCEPT !.pc = "marking", !.dups = dups]
    BY <1>3 DEF TypeInv, PutsInv
<1>18. UNCHANGED <<files, space, compact>>
    BY <1>3
<1>19. Committed(w, p, dups)
    BY <1>3, <1>4, <1>13, <1>14, <1>15, <1>16, <1>17, <1>18 DEF Committed
<1> QED
    BY <1>1, <1>2, <1>19

\* What is pending of a Put once it has committed are the copies it did not need.
LEMMA CommitPending ==
    ASSUME TypeInv, RecordsInv, NEW w \in Writer, CommitBlob(w)
    PROVE  /\ Pending(w)' = PutDuplicates(NS, put[w].key, put[w].blob, put[w].ids)
           /\ Pending(w) = DOMAIN put[w].ids
           /\ Pending(w)' # {} => put'[w].ids = put[w].ids /\ put'[w].at = put[w].at
           /\ \A v \in Writer : v # w => Pending(v)' = Pending(v) /\ put'[v] = put[v]
<1>1. PICK dups : dups = PutDuplicates(NS, put[w].key, put[w].blob, put[w].ids)
    OBVIOUS
<1>2. /\ BusyPutOK(put[w]) /\ put[w].pc = "checked"
      /\ \A v \in Writer : v # w => put'[v] = put[v]
      /\ put'[w] = IF dups = {} THEN IdlePut
                   ELSE [put[w] EXCEPT !.pc = "marking", !.dups = dups]
    BY <1>1, CommitIs DEF Committed
<1>3. put[w] = [pc |-> put[w].pc, key |-> put[w].key, blob |-> put[w].blob,
                ids |-> put[w].ids, at |-> put[w].at, dups |-> put[w].dups]
    BY <1>2, BusyMeans
<1>4. CASE dups = {}
  <2>1. Pending(w)' = {}
      BY <1>2, <1>4 DEF Pending, IdlePut
  <2> QED
      BY <1>1, <1>2, <1>4, <2>1 DEF Pending
<1>5. CASE dups # {}
  <2>1. put'[w].pc = "marking" /\ put'[w].dups = dups
        /\ put'[w].ids = put[w].ids /\ put'[w].at = put[w].at
      BY <1>2, <1>3, <1>5
  <2> QED
      BY <1>1, <1>2, <1>5, <2>1 DEF Pending
<1> QED
    BY <1>4, <1>5

LEMMA CopiesCommitBlob ==
    ASSUME TypeInv, RecordsInv, PendingInv, NEW w \in Writer, CommitBlob(w)
    PROVE  RecordsInv' /\ PendingInv'
<1>1. PICK p : p = put[w]
    OBVIOUS
<1>2. PICK dups : dups = PutDuplicates(NS, p.key, p.blob, p.ids)
    OBVIOUS
<1>10. Committed(w, p, dups)
    BY <1>1, <1>2, CommitIs
<1>3. /\ BusyPutOK(p) /\ dups \subseteq DOMAIN p.ids
      /\ UNCHANGED <<files, space>>
      /\ \A c \in ChunkId : chunks[c] # None =>
            /\ chunks'[c] # None
            /\ chunks'[c].ns = chunks[c].ns /\ chunks'[c].loc = chunks[c].loc
            /\ nonce'[c] = nonce[c] /\ (c \in short' => c \in short)
      /\ \A c \in ChunkId : chunks[c] = None /\ chunks'[c] # None =>
            \E i \in DOMAIN p.ids \ dups : p.ids[i] = c
      /\ \A i \in DOMAIN p.ids \ dups :
            /\ chunks[p.ids[i]] = None /\ chunks'[p.ids[i]] # None
            /\ chunks'[p.ids[i]].ns = NS /\ chunks'[p.ids[i]].loc = p.at[i]
            /\ nonce'[p.ids[i]] = Sealed(p.at[i]) /\ p.ids[i] \notin short'
    BY <1>10 DEF Committed
<1>4. /\ Pending(w)' = dups /\ Pending(w) = DOMAIN p.ids
      /\ Pending(w)' # {} => put'[w].ids = p.ids /\ put'[w].at = p.at
      /\ \A v \in Writer : v # w => Pending(v)' = Pending(v) /\ put'[v] = put[v]
    BY <1>1, <1>2, CommitPending
<1>5. \A c, l : Stays(c, l)
    BY <1>3, SameStays
<1>6. ASSUME NEW c \in ChunkId, chunks'[c] # None PROVE RecordOK(c)'
  <2>1. CASE chunks[c] # None
    <3>1. RecordOK(c)
        BY <2>1 DEF RecordsInv
    <3> QED
        BY <1>3, <1>5, <2>1, <3>1, RecordKept
  <2>2. CASE chunks[c] = None
    <3>1. PICK i \in DOMAIN p.ids \ dups : p.ids[i] = c
        BY <1>3, <1>6, <2>2
    <3>2. PendingOK(w, i) /\ p.at[i] \in Loc
      <4>1. i \in Pending(w)
          BY <1>4
      <4> QED
          BY <1>1, <4>1, PendingPlace DEF PendingInv, TypeInv
    <3>3. Whole(files, c, p.at[i], Sealed(p.at[i]))
        BY <1>1, <3>1, <3>2 DEF PendingOK
    <3>4. Whole(files', c, p.at[i], Sealed(p.at[i]))
        BY <1>3, <3>3
    <3>5. chunks'[c].ns = NS /\ chunks'[c].loc = p.at[i] /\ nonce'[c] = Sealed(p.at[i])
          /\ c \notin short'
        BY <1>3, <3>1
    <3>6. Encrypted => nonce'[c] # None /\ nonce'[c].key = space'.created
      <4>1. Encrypted => Sealed(p.at[i]) = [at |-> p.at[i], key |-> space.created]
          BY DEF Sealed
      <4>2. space.created \in Nat /\ space' = space
          BY <1>3, SpaceIs DEF TypeInv
      <4>3. [at |-> p.at[i], key |-> space.created] \in Nonce
          BY <3>2, <4>2 DEF Nonce
      <4> QED
          BY <3>5, <4>1, <4>2, <4>3, StoreNoneAssumption
    <3> QED
        BY <3>4, <3>5, <3>6 DEF RecordOK, Keyed
  <2> QED
      BY <2>1, <2>2
<1>7. \A v \in Writer : \A i \in Pending(v)' :
          i \in Pending(v) /\ put'[v].ids = put[v].ids /\ put'[v].at = put[v].at
    BY <1>1, <1>3, <1>4
<1>8. ASSUME NEW v \in Writer, NEW i \in Pending(v)', NEW c \in ChunkId, chunks'[c] # None
      PROVE  chunks'[c].loc # put[v].at[i]
  <2>1. PendingOK(v, i)
      BY <1>7 DEF PendingInv
  <2>2. CASE chunks[c] # None
      BY <1>3, <2>1, <2>2 DEF PendingOK
  <2>3. CASE chunks[c] = None
    <3>1. PICK j \in DOMAIN p.ids \ dups : p.ids[j] = c
        BY <1>3, <1>8, <2>3
    <3>2. chunks'[c].loc = put[w].at[j] /\ j \in Pending(w)
        BY <1>1, <1>3, <1>4, <3>1
    <3>3. ~(w = v /\ j = i)
        BY <1>4, <3>1
    <3> QED
        BY <2>1, <3>2, <3>3 DEF PendingOK
  <2> QED
      BY <2>2, <2>3
<1>9. PendingInv'
    BY <1>3, <1>5, <1>7, <1>8, PendingKept
<1> QED
    BY <1>6, <1>9 DEF RecordsInv

LEMMA CopiesMarkDuplicate ==
    ASSUME TypeInv, RecordsInv, PendingInv, NEW w \in Writer, MarkDuplicate(w)
    PROVE  /\ RecordsInv' /\ PendingInv'
           /\ \E i \in Pending(w) : /\ SetDeleted(put[w].at[i])
                                    /\ \A v \in Writer : \A j \in Pending(v) :
                                          ~(v = w /\ j = i) =>
                                              j \in Pending(v)' /\ put'[v].at = put[v].at
<1>1. PICK i : i = Min(put[w].dups)
    OBVIOUS
<1>2. /\ put[w].pc = "marking" /\ UNCHANGED <<chunks, short, nonce, space>>
      /\ put' = [put EXCEPT ![w] = IF put[w].dups = {i} THEN IdlePut
                                   ELSE [put[w] EXCEPT !.dups = @ \ {i}]]
    BY <1>1 DEF MarkDuplicate, ixVars, recVars, lifeVars
<1>3. BusyPutOK(put[w]) /\ i \in put[w].dups /\ put[w].at[i] \in Loc /\ HasPage(put[w].at[i])
      /\ SetDeleted(put[w].at[i])
    BY <1>1, MarkIs DEF TypeInv
<1>4. i \in Pending(w) /\ Pending(w) = put[w].dups
    BY <1>2, <1>3 DEF Pending
<1>5. PICK m : m = put[w].at[i]
    OBVIOUS
<1>6. PendingOK(w, i) /\ m \in Place /\ put[w].ids[i] \in ChunkId
    BY <1>4, <1>5, PendingPlace DEF PendingInv, TypeInv
<1>7. At(files, m).part = 1
  <2>1. Whole(files, put[w].ids[i], m, Sealed(m))
      BY <1>5, <1>6 DEF PendingOK
  <2>2. IsCopy(At(files, m), put[w].ids[i], 1, Sealed(m))
      BY <1>6, <2>1, WholeFirst
  <2> QED
      BY <2>2 DEF IsCopy
<1>8. ASSUME NEW c \in ChunkId, NEW l \in Place, NEW n, Whole(files, c, l, n), m # l
      PROVE  Stays(c, l)
  <2>1. ~IsPartOf(c, l, m)
      BY <1>6, <1>7, <1>8, CopiesApart
  <2> QED
      BY <1>3, <1>5, <2>1, FlagStays DEF TypeInv
<1>9. RecordsInv'
  <2>1. ASSUME NEW c \in ChunkId, chunks[c] # None PROVE Stays(c, chunks[c].loc)
    <3>1. RecordOK(c) /\ chunks[c].loc \in Place /\ chunks[c].loc # m
        BY <1>5, <1>6, <2>1, RecordPlace DEF RecordsInv, PendingOK, TypeInv
    <3>2. Whole(files, c, chunks[c].loc, nonce[c])
        BY <3>1 DEF RecordOK
    <3> QED
        BY <1>8, <3>1, <3>2
  <2> QED
      BY <1>2, <2>1, RecordsKept
<1>10. put'[w] = IF put[w].dups = {i} THEN IdlePut ELSE [put[w] EXCEPT !.dups = @ \ {i}]
    BY <1>2 DEF TypeInv, PutsInv
<1>11. \A v \in Writer : v # w => put'[v] = put[v]
    BY <1>2 DEF TypeInv, PutsInv
<1>12. /\ Pending(w)' = Pending(w) \ {i}
       /\ Pending(w)' # {} => put'[w].ids = put[w].ids /\ put'[w].at = put[w].at
  <2>1. put[w] = [pc |-> put[w].pc, key |-> put[w].key, blob |-> put[w].blob,
                  ids |-> put[w].ids, at |-> put[w].at, dups |-> put[w].dups]
      BY <1>3, BusyMeans
  <2>2. CASE put[w].dups = {i}
    <3>1. Pending(w)' = {}
        BY <1>10, <2>2 DEF Pending, IdlePut
    <3> QED
        BY <1>4, <2>2, <3>1
  <2>3. CASE put[w].dups # {i}
    <3>1. put'[w] = [pc |-> put[w].pc, key |-> put[w].key, blob |-> put[w].blob,
                     ids |-> put[w].ids, at |-> put[w].at, dups |-> put[w].dups \ {i}]
        BY <1>10, <2>1, <2>3
    <3> QED
        BY <1>2, <1>4, <3>1 DEF Pending
  <2> QED
      BY <2>2, <2>3
<1>13. ASSUME NEW v \in Writer, NEW j \in Pending(v)'
       PROVE  /\ j \in Pending(v) /\ ~(v = w /\ j = i)
              /\ put'[v].ids = put[v].ids /\ put'[v].at = put[v].at
  <2>1. CASE v = w
      BY <1>12, <2>1
  <2>2. CASE v # w
    <3>1. put'[v] = put[v]
        BY <1>11, <2>2
    <3> QED
        BY <2>2, <3>1 DEF Pending
  <2> QED
      BY <2>1, <2>2
<1>14. ASSUME NEW v \in Writer, NEW j \in Pending(v)'
       PROVE  Stays(put[v].ids[j], put[v].at[j])
  <2>1. j \in Pending(v) /\ ~(v = w /\ j = i)
      BY <1>13
  <2>2. PendingOK(v, j) /\ put[v].ids[j] \in ChunkId /\ put[v].at[j] \in Place
      BY <2>1, PendingPlace DEF PendingInv, TypeInv
  <2>3. put[v].at[j] # m
      BY <1>4, <1>5, <2>1, <2>2 DEF PendingOK
  <2>4. Whole(files, put[v].ids[j], put[v].at[j], Sealed(put[v].at[j]))
      BY <2>2 DEF PendingOK
  <2> QED
      BY <1>8, <2>2, <2>3, <2>4
<1>15. \A v \in Writer : \A j \in Pending(v) : \A c \in ChunkId :
           chunks[c] # None => chunks[c].loc # put[v].at[j]
    BY DEF PendingInv, PendingOK
<1>16. PendingInv'
    BY <1>2, <1>13, <1>14, <1>15, PendingKept
<1>17. ASSUME NEW v \in Writer, NEW j \in Pending(v), ~(v = w /\ j = i)
       PROVE  j \in Pending(v)' /\ put'[v].at = put[v].at
  <2>1. CASE v = w
      BY <1>12, <1>17, <2>1
  <2>2. CASE v # w
    <3>1. put'[v] = put[v]
        BY <1>11, <2>2
    <3> QED
        BY <3>1 DEF Pending
  <2> QED
      BY <2>1, <2>2
<1> QED
    BY <1>3, <1>4, <1>9, <1>16, <1>17

-----------------------------------------------------------------------------
(* Get, Delete and Rename: the copies and their records                    *)

LEMMA GetChangesNothing ==
    ASSUME GetNext
    PROVE  UNCHANGED <<ixVars, volVars, recVars, lifeVars, put, compact, used>>
BY DEF GetNext, GetRef, GetBlob, GetChunks, ReadChunk, GetFailed, OnlyReads

\* A deletion takes counts from records, and leaves the rest of them as it was.
LEMMA DeleteChunks ==
    ASSUME IndexTypeOK, NEW n \in Namespace, NEW k \in Key, CommitDelete(n, k),
           NEW c \in ChunkId
    PROVE  /\ chunks'[c] # None <=> chunks[c] # None
           /\ chunks[c] # None =>
                 /\ chunks'[c].ns = chunks[c].ns /\ chunks'[c].loc = chunks[c].loc
                 /\ chunks[c].rc = 0 => chunks'[c].rc = 0
<1>1. PICK ids : ids = DeletedIds(n, k)
    OBVIOUS
<1>2. ids \in Seq(ChunkId)
    BY <1>1 DEF DeletedIds, CommitDelete, IndexTypeOK, RefEntry, BlobEntry
<1>3. chunks' = Release(chunks, ids)
    BY <1>1 DEF CommitDelete
<1>4. chunks \in ChunkRecords
    BY DEF IndexTypeOK, ChunkRecords
<1>5. /\ chunks'[c] # None <=> chunks[c] # None
      /\ chunks[c] # None => chunks'[c].ns = chunks[c].ns /\ chunks'[c].loc = chunks[c].loc
    BY <1>2, <1>3, <1>4, ReleaseHeld
<1>6. ASSUME chunks[c] # None, chunks[c].rc = 0 PROVE chunks'[c].rc = 0
  <2>1. Count(ids, c) \in Nat
      BY <1>2, CountType
  <2>2. chunks'[c] = [chunks[c] EXCEPT !.rc = 0]
      BY <1>3, <1>6, <2>1 DEF Release
  <2> QED
      BY <1>6, <2>2, RecordPlace
<1> QED
    BY <1>5, <1>6

LEMMA CopiesDeleteRename ==
    ASSUME TypeInv, RecordsInv, PendingInv,
           (\E k \in Key : Delete(k)) \/ (\E old, new \in Key : Rename(old, new))
    PROVE  RecordsInv' /\ PendingInv'
<1>1. UNCHANGED <<files, short, nonce, space, put>>
    BY DEF Delete, Rename, OnlyIndex, volVars, recVars, lifeVars
<1>2. ASSUME NEW c \in ChunkId, chunks'[c] # None
      PROVE  chunks[c] # None /\ chunks'[c].ns = chunks[c].ns /\ chunks'[c].loc = chunks[c].loc
  <2>1. CASE \E k \in Key : Delete(k)
    <3>1. PICK k \in Key : CommitDelete(NS, k)
        BY <2>1 DEF Delete
    <3> QED
        BY <1>2, <3>1, NSAssumption, DeleteChunks DEF TypeInv
  <2>2. CASE \E old, new \in Key : Rename(old, new)
    <3>1. chunks' = chunks
        BY <2>2 DEF Rename, CommitRenameRef
    <3> QED
        BY <1>2, <3>1
  <2> QED
      BY <2>1, <2>2
<1> QED
    BY <1>1, <1>2, CopiesIndexOnly

-----------------------------------------------------------------------------
(* Compact, phase 1                                                        *)

\* Without a Compact there is nothing to say of one.
LEMMA QueueIdle ==
    ASSUME CompactInv, ~Compacting
    PROVE  QueueInv /\ MovedInv
<1>1. compact.pc = "idle"
    BY DEF Compacting
<1>2. compact.queue = {} /\ compact.moved = {} /\ ~Rewriting /\ ~Relocating
    BY <1>1 DEF CompactInv, Rewriting, Relocating
<1>3. QueueInv
    BY <1>1, <1>2 DEF QueueInv, Compacting
<1> QED
    BY <1>1, <1>2, <1>3 DEF MovedInv

\* Before phase 2 nothing is relocated.
LEMMA NothingMoved ==
    ASSUME CompactInv, ~Rewriting
    PROVE  MovedInv /\ compact.moved = {} /\ ~Relocating
<1>1. compact.pc \notin {"rewrite", "relocate", "store"}
    BY DEF Rewriting
<1>2. compact.moved = {} /\ ~Relocating
    BY <1>1 DEF CompactInv, Relocating
<1> QED
    BY <1>1, <1>2 DEF MovedInv

\* What keeps a queue dead.
LEMMA QueueKept ==
    ASSUME QueueInv, UNCHANGED <<compact, put>>,
           \A l \in compact.queue : At(files', l).chunk = At(files, l).chunk,
           \A l \in compact.queue : At(files, l).chunk \in ChunkId,
           compact.pc = "mark" => FirstOf(compact.queue) \in compact.queue,
           \A c \in ChunkId : chunks'[c] # None =>
               /\ chunks[c] # None /\ chunks'[c].loc = chunks[c].loc
               /\ chunks[c].rc = 0 => chunks'[c].rc = 0
    PROVE  QueueInv'
<1>1. (Compacting => ~PutsRunning)'
    BY DEF QueueInv, Compacting, PutsRunning
<1>2. \A l \in compact.queue :
          chunks'[At(files', l).chunk] # None => chunks'[At(files', l).chunk].rc = 0
    BY DEF QueueInv
<1>3. \A c \in ChunkId : chunks'[c] # None =>
          \A p \in 1..Pages[c] :
              PartOf(chunks'[c].loc, p) \in compact.queue => chunks'[c].loc \in compact.queue
    BY DEF QueueInv
<1>4. ASSUME compact.pc = "mark"
      PROVE  LET l == FirstOf(compact.queue)
             IN  chunks'[At(files', l).chunk] # None => chunks'[At(files', l).chunk].loc # l
    BY <1>4 DEF QueueInv
<1> QED
    BY <1>1, <1>2, <1>3, <1>4 DEF QueueInv

\* A queued page, and the first of them.
LEMMA QueuedIs ==
    ASSUME FilesInv, CompactInv
    PROVE  /\ \A l \in compact.queue :
                 l \in Place /\ l \in Loc /\ HasPage(l) /\ At(files, l) \in Page
                 /\ At(files, l).chunk \in ChunkId
           /\ compact.queue # {} => FirstOf(compact.queue) \in compact.queue
<1>1. compact.queue \subseteq Loc /\ compact.queue \in SUBSET (Nat \X Nat)
    BY CompactIs
<1>2. \A l \in compact.queue : HasPage(l)
    BY DEF CompactInv
<1>3. ASSUME NEW l \in compact.queue
      PROVE  l \in Place /\ l \in Loc /\ HasPage(l) /\ At(files, l) \in Page
             /\ At(files, l).chunk \in ChunkId
  <2>1. l \in Place /\ l \in Loc /\ HasPage(l)
      BY <1>1, <1>2 DEF Place
  <2> QED
      BY <2>1, SomePage, HasPageIs
<1> QED
    BY <1>1, <1>3, FirstIs

\* The scan queues all pages of a dead chunk or none.
LEMMA QueueScanPages ==
    ASSUME TypeInv, RecordsInv, "put" \notin Alongside, ScanPages
    PROVE  QueueInv'
<1> DEFINE queue == {l \in AllPages : LooksDead(l)}
<1>1. /\ ~PutsRunning /\ UNCHANGED <<chunks, files, put>>
      /\ compact' = [IdleCompact EXCEPT !.pc = IF queue = {} THEN "sweep" ELSE "reap",
                                        !.queue = queue]
    BY DEF ScanPages, Step, ixVars, volVars
<1>2. compact'.queue = queue /\ compact'.pc # "mark"
    BY <1>1 DEF IdleCompact
<1>3. ~PutsRunning'
    BY <1>1 DEF PutsRunning
<1>4. ASSUME NEW l \in queue, chunks[At(files, l).chunk] # None
      PROVE  chunks[At(files, l).chunk].rc = 0
    BY <1>4, HasPageIs DEF LooksDead
<1>5. ASSUME NEW c \in ChunkId, chunks[c] # None, NEW p \in 1..Pages[c],
             PartOf(chunks[c].loc, p) \in queue
      PROVE  chunks[c].loc \in queue
  <2>1. PICK l : l = chunks[c].loc
      OBVIOUS
  <2>2. RecordOK(c) /\ l \in Place /\ l \in Loc
      BY <1>5, <2>1, RecordPlace DEF RecordsInv, TypeInv
  <2>3. Whole(files, c, l, nonce[c])
      BY <2>1, <2>2 DEF RecordOK
  <2>4. Has(files, l) /\ IsCopy(At(files, l), c, 1, nonce[c])
      BY <2>2, <2>3, WholeFirst
  <2>5. At(files, PartOf(l, p)).chunk = c
      BY <2>3 DEF Whole, IsCopy
  <2>6. chunks[c].rc = 0
      BY <1>4, <1>5, <2>1, <2>5
  <2>7. LooksDead(l)
      BY <2>4, <2>6, HasPageIs DEF LooksDead, IsCopy
  <2>8. l \in AllPages
      BY <2>2, <2>4, HasPageIs DEF AllPages
  <2> QED
      BY <2>1, <2>7, <2>8
<1> HIDE DEF queue
<1> QED
    BY <1>1, <1>2, <1>3, <1>4, <1>5 DEF QueueInv

\* The next page is looked at; the one before is not the first of a record's pages.
LEMMA QueueMoves ==
    ASSUME FilesInv, CompactInv, QueueInv, compact.queue # {}, compact' = NextInQueue,
           UNCHANGED <<put, chunks>>, Compacting,
           \A l \in compact.queue : At(files', l).chunk = At(files, l).chunk,
           \A c \in ChunkId : chunks[c] # None => chunks[c].loc # FirstOf(compact.queue)
    PROVE  QueueInv'
<1>1. PICK l : l = FirstOf(compact.queue)
    OBVIOUS
<1>2. compact'.queue = compact.queue \ {l} /\ compact'.pc # "mark"
    BY <1>1, CompactIs DEF NextInQueue
<1>3. ~PutsRunning'
    BY DEF QueueInv, PutsRunning
<1>4. \A m \in compact'.queue :
          chunks'[At(files', m).chunk] # None => chunks'[At(files', m).chunk].rc = 0
    BY <1>2 DEF QueueInv
<1>5. \A c \in ChunkId : chunks'[c] # None =>
          \A p \in 1..Pages[c] :
              PartOf(chunks'[c].loc, p) \in compact'.queue => chunks'[c].loc \in compact'.queue
    BY <1>1, <1>2 DEF QueueInv
<1> QED
    BY <1>2, <1>3, <1>4, <1>5 DEF QueueInv

\* What ReapPage does: a queued page is dead, so its verdict is always the same.
LEMMA ReapIs ==
    ASSUME TypeInv, QueueInv, ReapPage
    PROVE  \E l \in compact.queue :
              LET c == At(files, l).chunk
              IN  /\ l = FirstOf(compact.queue) /\ l \in Place /\ HasPage(l) /\ c \in ChunkId
                  /\ l \in Loc /\ compact.pc = "reap"
                  /\ ReapPhysicalPageIfDead(c, l)
                  /\ compact' = [compact EXCEPT !.pc = "mark", !.freed = @ + 1]
                  /\ chunks' = [chunks EXCEPT ![c] = IF @ # None /\ @.loc = l THEN None ELSE @]
                  /\ nonce' = IF chunks'[c] = None THEN [nonce EXCEPT ![c] = None] ELSE nonce
                  /\ UNCHANGED <<files, short, space, put, candidates, active>>
<1>1. PICK l : l = FirstOf(compact.queue)
    OBVIOUS
<1>2. PICK c : c = At(files, l).chunk
    OBVIOUS
<1>3. /\ compact.pc = "reap"
      /\ IF SafeToReap(c, l)
         THEN /\ ReapPhysicalPageIfDead(c, l)
              /\ compact' = [compact EXCEPT !.pc = "mark", !.freed = @ + 1]
         ELSE compact' = NextInQueue
      /\ nonce' = IF chunks'[c] = None THEN [nonce EXCEPT ![c] = None] ELSE nonce
      /\ UNCHANGED <<files, short, space, put, candidates, active>>
    BY <1>1, <1>2, HasPageIs DEF ReapPage, Step, OnlyCompacts, lifeVars
<1>4. compact.queue # {}
    BY <1>3 DEF TypeInv, CompactInv
<1>5. l \in compact.queue /\ l \in Place /\ l \in Loc /\ HasPage(l) /\ c \in ChunkId
    BY <1>1, <1>2, <1>4, QueuedIs DEF TypeInv
<1>6. SafeToReap(c, l)
    BY <1>2, <1>5 DEF SafeToReap, QueueInv
<1> QED
    BY <1>1, <1>2, <1>3, <1>5, <1>6 DEF ReapPhysicalPageIfDead

LEMMA CompactReapPage ==
    ASSUME CopiesInv, QueueInv, ReapPage
    PROVE  RecordsInv' /\ PendingInv' /\ QueueInv'
<1> USE DEF CopiesInv
<1>1. PICK l \in compact.queue :
          LET c == At(files, l).chunk
          IN  /\ l = FirstOf(compact.queue) /\ l \in Place /\ c \in ChunkId /\ l \in Loc
              /\ compact.pc = "reap"
              /\ compact' = [compact EXCEPT !.pc = "mark", !.freed = @ + 1]
              /\ chunks' = [chunks EXCEPT ![c] = IF @ # None /\ @.loc = l THEN None ELSE @]
              /\ nonce' = IF chunks'[c] = None THEN [nonce EXCEPT ![c] = None] ELSE nonce
              /\ UNCHANGED <<files, short, space, put>>
    BY ReapIs
<1>2. PICK c \in ChunkId : c = At(files, l).chunk
    BY <1>1
<1>3. \A x \in ChunkId : chunks'[x] # None =>
          chunks[x] # None /\ chunks'[x] = chunks[x] /\ nonce'[x] = nonce[x]
    BY <1>1, <1>2 DEF TypeInv, IndexTypeOK, RecordsTyped
<1>4. \A x, m : Stays(x, m)
    BY <1>1, SameStays
<1>5. RecordsInv'
    BY <1>1, <1>3, <1>4, RecordsKept
<1>6. Compacting /\ ~PutsRunning
    BY <1>1 DEF Compacting, QueueInv
<1>7. PendingInv'
    BY <1>1, <1>6, NoPendingStays DEF TypeInv
<1>8. compact'.queue = compact.queue /\ compact'.pc = "mark"
    BY <1>1, CompactIs DEF TypeInv
<1>9. ~PutsRunning'
    BY <1>1, <1>6 DEF PutsRunning
<1>10. \A m \in compact.queue :
           chunks'[At(files, m).chunk] # None => chunks'[At(files, m).chunk].rc = 0
    BY <1>3, QueuedIs DEF QueueInv, TypeInv
<1>11. \A x \in ChunkId : chunks'[x] # None =>
           \A p \in 1..Pages[x] :
               PartOf(chunks'[x].loc, p) \in compact.queue => chunks'[x].loc \in compact.queue
    BY <1>3 DEF QueueInv
<1>12. chunks'[c] # None => chunks'[c].loc # l
    BY <1>1, <1>2 DEF TypeInv, IndexTypeOK
<1>13. QueueInv'
    BY <1>1, <1>2, <1>8, <1>9, <1>10, <1>11, <1>12 DEF QueueInv
<1> QED
    BY <1>5, <1>7, <1>13

\* The page that MarkPage flags belongs to no record: its chunk's is elsewhere, and
\* the page is none of the later ones, whose first page would be flagged before.
LEMMA CompactMarkPage ==
    ASSUME CopiesInv, QueueInv, MarkPage
    PROVE  /\ RecordsInv' /\ PendingInv' /\ QueueInv'
           /\ SetDeleted(FirstOf(compact.queue))
<1> USE DEF CopiesInv
<1>1. PICK l : l = FirstOf(compact.queue)
    OBVIOUS
<1>2. /\ compact.pc = "mark" /\ SetDeleted(l) /\ compact' = NextInQueue
      /\ UNCHANGED <<chunks, short, nonce, space, put>>
    BY <1>1 DEF MarkPage, Step, OnlyCompacts, ixVars, recVars, lifeVars
<1>3. compact.queue # {}
    BY <1>2 DEF TypeInv, CompactInv
<1>4. l \in compact.queue /\ l \in Place /\ l \in Loc /\ HasPage(l)
      /\ compact.queue \in SUBSET (Nat \X Nat)
    BY <1>1, <1>3, QueuedIs, CompactIs DEF TypeInv
<1>5. \A m \in compact.queue : m = l \/ Before(l, m)
    BY <1>1, <1>3, <1>4, FirstIs
<1>6. ASSUME NEW c \in ChunkId, chunks[c] # None
      PROVE  ~IsPartOf(c, chunks[c].loc, l) /\ chunks[c].loc # l
  <2>1. PICK m : m = chunks[c].loc
      OBVIOUS
  <2>2. RecordOK(c) /\ m \in Place
      BY <1>6, <2>1, RecordPlace DEF RecordsInv, TypeInv
  <2>3. ASSUME NEW p \in 1..Pages[c], l = PartOf(m, p) PROVE FALSE
    <3>1. At(files, l).chunk = c
        BY <2>1, <2>2, <2>3 DEF RecordOK, Whole, IsCopy
    <3>2. m # l
        BY <1>1, <1>2, <1>6, <2>1, <3>1 DEF QueueInv
    <3>3. m \in compact.queue
        BY <1>4, <1>6, <2>1, <2>3 DEF QueueInv
    <3>4. Before(l, m)
        BY <1>5, <3>2, <3>3
    <3>5. p \in Nat /\ p >= 1 /\ m[1] \in Nat /\ m[2] \in Nat /\ l[1] = m[1] /\ l[2] = m[2] + p - 1
        BY <2>2, <2>3, PagesType DEF PartOf, Place
    <3> QED
        BY <3>4, <3>5 DEF Before
  <2>4. l # m
    <3>1. PartOf(m, 1) = m /\ 1 \in 1..Pages[c]
        BY <2>2, FirstPart, PagesType
    <3> QED
        BY <2>3, <3>1
  <2> QED
      BY <2>1, <2>3, <2>4 DEF IsPartOf
<1>7. RecordsInv'
  <2>1. ASSUME NEW c \in ChunkId, chunks[c] # None PROVE Stays(c, chunks[c].loc)
    <3>1. chunks[c].loc \in Place
        BY <2>1, RecordPlace DEF TypeInv
    <3> QED
        BY <1>2, <1>4, <1>6, <2>1, <3>1, FlagStays DEF TypeInv
  <2> QED
      BY <1>2, <2>1, RecordsKept
<1>8. Compacting /\ ~PutsRunning
    BY <1>2 DEF Compacting, QueueInv
<1>9. PendingInv'
    BY <1>2, <1>8, NoPendingStays DEF TypeInv
<1>10. \A m \in compact.queue : At(files', m).chunk = At(files, m).chunk
  <2>1. \A m \in Place : Has(files, m) =>
            At(files', m) = IF m = l THEN [At(files, l) EXCEPT !.deleted = TRUE]
                            ELSE At(files, m)
      BY <1>2, <1>4, FlagIs DEF TypeInv
  <2>2. \A m \in compact.queue : m \in Place /\ Has(files, m) /\ At(files, m) \in Page
      BY QueuedIs, HasPageIs DEF TypeInv
  <2> QED
      BY <2>1, <2>2 DEF Page
<1>11. QueueInv'
    BY <1>1, <1>2, <1>3, <1>6, <1>8, <1>10, QueueMoves DEF TypeInv
<1> QED
    BY <1>1, <1>2, <1>7, <1>9, <1>11

\* The rest of phase 1, and the steps that give up or begin phase 2, change neither
\* files nor records.
LEMMA CompactStill ==
    ASSUME CopiesInv, UNCHANGED <<files, chunks, short, nonce, space, put>>
    PROVE  RecordsInv' /\ PendingInv'
BY CopiesIndexOnly DEF CopiesInv

LEMMA CompactSweep ==
    ASSUME CopiesInv, TypeInv', QueueInv, SweepBlobs \/ SweepBlob \/ Reconcile
    PROVE  RecordsInv' /\ PendingInv' /\ QueueInv'
<1>1. UNCHANGED <<files, chunks, short, nonce, space, put>>
    BY DEF SweepBlobs, SweepBlob, Reconcile, PurgeScan, PurgeBlob, ReconcileDeadStats,
           OnlyCompacts, recVars, lifeVars
<1>2. compact.pc \in {"sweep", "purge"} /\ compact'.pc \in {"purge", "wait"}
  <2>1. CASE SweepBlobs \/ Reconcile
    <3>1. \/ compact' = [compact EXCEPT !.pc = "purge"]
          \/ compact' = [IdleCompact EXCEPT !.pc = "wait"]
        BY <2>1 DEF SweepBlobs, Reconcile, Step
    <3>2. compact'.pc \in {"purge", "wait"}
        BY <3>1, CompactIs DEF CopiesInv, TypeInv, IdleCompact
    <3> QED
        BY <2>1, <3>2 DEF SweepBlobs, Reconcile
  <2>2. CASE SweepBlob
      BY <2>2 DEF SweepBlob
  <2> QED
      BY <2>1, <2>2
<1>3. compact'.queue = {}
    BY <1>2 DEF TypeInv, CompactInv
<1>4. ~PutsRunning'
    BY <1>1, <1>2 DEF QueueInv, Compacting, PutsRunning
<1>5. QueueInv'
    BY <1>2, <1>3, <1>4 DEF QueueInv
<1> QED
    BY <1>1, <1>5, CompactStill

-----------------------------------------------------------------------------
(* Compact, phase 2                                                        *)

\* Without a Compact, or before its second phase, there is nothing to say of one.
LEMMA QueueIdleAfter ==
    ASSUME CompactInv', ~Compacting'
    PROVE  QueueInv' /\ MovedInv'
<1>1. compact'.pc = "idle"
    BY DEF Compacting
<1>2. compact'.queue = {} /\ compact'.moved = {} /\ ~Rewriting' /\ ~Relocating'
    BY <1>1 DEF CompactInv, Rewriting, Relocating
<1>3. QueueInv'
    BY <1>1, <1>2 DEF QueueInv, Compacting
<1> QED
    BY <1>1, <1>2, <1>3 DEF MovedInv

LEMMA NothingMovedAfter ==
    ASSUME CompactInv', ~Rewriting'
    PROVE  MovedInv' /\ compact'.moved = {} /\ ~Relocating'
<1>1. compact'.pc \notin {"rewrite", "relocate", "store"}
    BY DEF Rewriting
<1>2. compact'.moved = {} /\ ~Relocating'
    BY <1>1 DEF CompactInv, Relocating
<1> QED
    BY <1>1, <1>2 DEF MovedInv

\* Nothing is queued after phase 1, and no Put runs beside phase 2.
LEMMA QueueEmptyAfter ==
    ASSUME CompactInv', ~PutsRunning', compact'.pc \notin {"reap", "mark"}
    PROVE  QueueInv'
<1>1. compact'.queue = {}
    BY DEF CompactInv
<1> QED
    BY <1>1 DEF QueueInv

\* With a threshold above 100 per cent no segment is worth rewriting.
LEMMA NeverWorth ==
    ASSUME FilesInv, NEW s \in DOMAIN files, WorthRewriting(s)
    PROVE  ~NoRewrites
<1> DEFINE pages == files[s].pages
           dead  == {i \in DOMAIN pages : pages[i].deleted}
<1>1. pages \in Seq(Page)
    BY DEF FilesInv, EngineOK, FileOK, SegFile
<1>2. pages # << >> /\ 100 * Cardinality(dead) >= RewritePercent * Len(pages)
    BY DEF WorthRewriting
<1>3. IsFiniteSet(1..Len(pages)) /\ Cardinality(1..Len(pages)) = Len(pages)
  <2>1. PICK n \in Nat : n = Len(pages)
      BY <1>1
  <2>2. IsFiniteSet(1..n) /\ Cardinality(1..n) = n
      BY FS_Interval
  <2> QED
      BY <2>1, <2>2
<1>4. dead \subseteq 1..Len(pages)
    BY <1>1
<1>5. Cardinality(dead) <= Len(pages) /\ Cardinality(dead) \in Nat
    BY <1>3, <1>4, FS_Subset, FS_CardinalityType
<1> HIDE DEF dead, pages
<1>6. Len(pages) \in Nat /\ Len(pages) > 0
    BY <1>1, <1>2
<1>7. PICK d, n \in Nat : d = Cardinality(dead) /\ n = Len(pages)
    BY <1>5, <1>6
<1>8. SUFFICES ASSUME RewritePercent > 100 PROVE FALSE
    BY DEF NoRewrites
<1>9. PICK r \in Nat : r = RewritePercent
    BY StoreBoundAssumption
<1>10. 100 * d >= r * n /\ d <= n /\ n > 0 /\ r >= 101
    BY <1>2, <1>5, <1>6, <1>7, <1>8, <1>9
<1>11. r * n >= 101 * n
  <2>1. PICK e \in Nat : r = 101 + e
    <3>1. r - 101 \in Nat /\ r = 101 + (r - 101)
        BY <1>9, <1>10
    <3> QED
        BY <3>1
  <2>2. r * n = 101 * n + e * n /\ e * n \in Nat
      BY <1>7, <2>1
  <2> QED
      BY <1>7, <2>2
<1> QED
    BY <1>7, <1>10, <1>11

LEMMA CompactBeginRewrite ==
    ASSUME CopiesInv, CompactInv', BeginRewrite
    PROVE  RecordsInv' /\ PendingInv' /\ QueueInv' /\ MovedInv'
<1>1. /\ ~PutsRunning /\ compact.pc = "wait"
      /\ UNCHANGED <<files, chunks, short, nonce, space, put>>
    BY DEF BeginRewrite, OnlyCompacts, ixVars, recVars, lifeVars
<1>2. PICK todo : /\ todo = {s \in DOMAIN files \ {active} : WorthRewriting(s)}
                  /\ compact' = IF todo = {} THEN IdleCompact
                                ELSE [compact EXCEPT !.pc = "rewrite", !.todo = todo]
    BY DEF BeginRewrite, Step
<1>3. RecordsInv' /\ PendingInv'
    BY <1>1, CompactStill
<1>4. CASE todo = {}
  <2>1. ~Compacting'
      BY <1>2, <1>4 DEF Compacting, IdleCompact
  <2> QED
      BY <1>3, <2>1, QueueIdleAfter
<1>5. CASE todo # {}
  <2>1. compact'.pc = "rewrite" /\ compact'.moved = compact.moved
      BY <1>2, <1>5, CompactIs DEF CopiesInv, TypeInv
  <2>2. ~PutsRunning'
      BY <1>1 DEF PutsRunning
  <2>3. QueueInv'
      BY <2>1, <2>2, QueueEmptyAfter
  <2>4. compact'.moved = {}
      BY <1>1, <2>1 DEF CopiesInv, TypeInv, CompactInv
  <2>5. ~NoRewrites
      BY <1>2, <1>5, NeverWorth DEF CopiesInv, TypeInv
  <2>6. MovedInv'
      BY <2>1, <2>4, <2>5 DEF MovedInv, Relocating
  <2> QED
      BY <1>3, <2>3, <2>6
<1> QED
    BY <1>4, <1>5

\* In phase 2 there is no Put, and there is nothing queued.
LEMMA RewritingAlone ==
    ASSUME TypeInv, Rewriting, UNCHANGED put
    PROVE  /\ ~PutsRunning /\ ~PutsRunning' /\ PendingInv'
           /\ compact.queue = {} /\ \A w \in Writer : Pending(w) = {}
<1>1. \A w \in Writer : put[w] = IdlePut
    BY RewritesAlone
<1>2. ~PutsRunning
    BY <1>1 DEF PutsRunning, IdlePut
<1>3. ~PutsRunning'
    BY <1>2 DEF PutsRunning
<1> QED
    BY <1>1, <1>2, <1>3, NoPendingStays, IdlePending, TodoIs DEF TypeInv

\* A page that a record points at has the record's nonce.
LEMMA RecordedSealed ==
    ASSUME IndexTypeOK, RecordsInv, NEW l \in Place, At(files, l).chunk \in ChunkId, Recorded(l)
    PROVE  At(files, l).sealed = nonce[At(files, l).chunk]
<1>1. PICK c \in ChunkId : c = At(files, l).chunk
    OBVIOUS
<1>2. chunks[c] # None /\ chunks[c].loc = l
    BY <1>1 DEF Recorded
<1>3. RecordOK(c)
    BY <1>2 DEF RecordsInv
<1>4. Whole(files, c, l, nonce[c])
    BY <1>2, <1>3 DEF RecordOK
<1> QED
    BY <1>1, <1>4, WholeFirst DEF IsCopy

\* Where the pages of a rewritten segment come from: each from an unflagged page of the
\* old one, two from two, and each of these is kept.
RewrittenFrom(m, l) ==
    /\ m \in Place /\ m[1] = Min(compact.todo) /\ Has(files, m)
    /\ ~At(files, m).deleted /\ At(files', l) = At(files, m)

LEMMA RewrittenIs ==
    ASSUME TypeInv, RewriteSegment
    PROVE  \E origin :
              /\ \A l \in compact'.moved :
                    /\ RewrittenFrom(origin[l], l) /\ l \in Place /\ Has(files', l)
                    /\ l[1] = nextSeq
              /\ \A l, m \in compact'.moved : origin[l] = origin[m] => l = m
              /\ \A m \in Place : /\ m[1] = Min(compact.todo) /\ Has(files, m)
                                  /\ ~At(files, m).deleted
                                  => \E l \in compact'.moved : origin[l] = m
<1>1. PICK s : s = Min(compact.todo)
    OBVIOUS
<1>2. PICK pages : pages = files[s].pages
    OBVIOUS
<1>3. PICK kept : kept = Compacted(pages)
    OBVIOUS
<1>4. /\ s \in DOMAIN files /\ s \in SegmentId /\ pages \in Seq(Page)
      /\ files'[nextSeq] = [pages |-> kept, wal |-> << >>]
      /\ compact'.moved \subseteq Loc
      /\ compact'.moved = {<<nextSeq, n>> : n \in DOMAIN kept}
      /\ \A m \in compact'.moved : Has(files', m)
    BY <1>1, <1>2, <1>3, RewriteIs
<1> DEFINE n(i) == Nth(Unflagged(pages), i)
           origin == [l \in compact'.moved |-> <<s, n(l[2])>>]
<1>5. /\ \A i \in DOMAIN kept : n(i) \in Unflagged(pages) /\ kept[i] = pages[n(i)]
      /\ \A i, j \in DOMAIN kept : n(i) = n(j) => i = j
      /\ \A p \in Unflagged(pages) : \E i \in DOMAIN kept : n(i) = p
    BY <1>3, <1>4, CompactedIs
<1>6. \A p \in Unflagged(pages) : p \in DOMAIN pages /\ p \in Nat /\ ~pages[p].deleted
    BY <1>4 DEF Unflagged
<1> HIDE DEF n
<1>7. \A l \in compact'.moved : \E i \in DOMAIN kept :
          l = <<nextSeq, i>> /\ l[1] = nextSeq /\ l[2] = i /\ origin[l] = <<s, n(i)>>
    BY <1>4
<1> HIDE DEF origin
<1>8. s \in Nat
    BY <1>4 DEF SegmentId
<1>9. ASSUME NEW l \in compact'.moved
      PROVE  RewrittenFrom(origin[l], l) /\ l \in Place /\ Has(files', l) /\ l[1] = nextSeq
  <2>1. PICK i \in DOMAIN kept :
            l = <<nextSeq, i>> /\ l[1] = nextSeq /\ l[2] = i /\ origin[l] = <<s, n(i)>>
      BY <1>7
  <2>2. PICK j : j = n(i)
      OBVIOUS
  <2>3. j \in DOMAIN pages /\ j \in Nat /\ ~pages[j].deleted /\ kept[i] = pages[j]
      BY <1>5, <1>6, <2>2
  <2>4. PICK m : m = origin[l]
      OBVIOUS
  <2>5. m = <<s, j>> /\ m[1] = s /\ m[2] = j /\ m \in Place
      BY <1>8, <2>1, <2>2, <2>3, <2>4 DEF Place
  <2>6. Has(files, m) /\ At(files, m) = pages[j]
      BY <1>2, <1>4, <2>3, <2>5 DEF Has, At
  <2>7. At(files', l) = kept[i]
      BY <1>4, <2>1 DEF At
  <2>8. RewrittenFrom(m, l)
      BY <1>1, <2>3, <2>5, <2>6, <2>7 DEF RewrittenFrom
  <2> QED
      BY <1>4, <2>1, <2>4, <2>8, LocIsPlace
<1>10. ASSUME NEW l \in compact'.moved, NEW m \in compact'.moved, origin[l] = origin[m]
       PROVE  l = m
  <2>1. PICK i \in DOMAIN kept : l = <<nextSeq, i>> /\ origin[l] = <<s, n(i)>>
      BY <1>7
  <2>2. PICK j \in DOMAIN kept : m = <<nextSeq, j>> /\ origin[m] = <<s, n(j)>>
      BY <1>7
  <2>3. n(i) = n(j)
      BY <1>10, <2>1, <2>2
  <2> QED
      BY <1>5, <2>1, <2>2, <2>3
<1>11. ASSUME NEW m \in Place, m[1] = s, Has(files, m), ~At(files, m).deleted
       PROVE  \E l \in compact'.moved : origin[l] = m
  <2>1. m[2] \in Unflagged(pages) /\ m = <<m[1], m[2]>>
      BY <1>2, <1>11 DEF Unflagged, Has, At, Place
  <2>2. PICK i \in DOMAIN kept : n(i) = m[2]
      BY <1>5, <2>1
  <2>0. PICK l : l = <<nextSeq, i>>
      OBVIOUS
  <2>3. l = <<nextSeq, i>> /\ l[2] = i
      BY <2>0
  <2>4. l \in compact'.moved
      BY <1>4, <2>3
  <2>5. origin[l] = <<s, n(i)>>
    <3>1. PICK j \in DOMAIN kept : l[2] = j /\ origin[l] = <<s, n(j)>>
        BY <1>7, <2>4
    <3> QED
        BY <2>3, <3>1
  <2> QED
      BY <1>11, <2>1, <2>2, <2>4, <2>5
<1> QED
    BY <1>1, <1>9, <1>10, <1>11

-----------------------------------------------------------------------------
(* Compact, phase 2: the records follow their pages                        *)

\* RewriteSegment copies what is unflagged, so every record that points into the old
\* segment has its page among the copies, and each copy has the nonce of its record.
LEMMA CompactRewriteSegment ==
    ASSUME CopiesInv, CompactsOnly, QueueInv, MovedInv, CompactInv', RewriteSegment,
           OnePage /\ NothingLeft => AccountedInv
    PROVE  RecordsInv' /\ PendingInv' /\ QueueInv' /\ MovedInv'
<1> USE DEF CopiesInv
<1>1. /\ compact.pc = "rewrite" /\ Rewriting
      /\ UNCHANGED <<chunks, short, nonce, space, put>>
    BY DEF RewriteSegment, Rewriting, ixVars, recVars, lifeVars
<1>2. compact'.pc = "relocate" /\ compact'.todo = compact.todo
  <2>1. PICK made : compact' = [compact EXCEPT !.pc = "relocate", !.moved = made]
      BY DEF RewriteSegment, Step
  <2> QED
      BY <2>1, CompactIs DEF TypeInv
<1>3. /\ Keeps(files, files') /\ nextSeq \notin DOMAIN files
      /\ compact.todo \subseteq DOMAIN files
    BY RewriteIs DEF TypeInv, CompactInv
<1>4. RecordsInv'
  <2>1. ASSUME NEW c \in ChunkId, chunks[c] # None PROVE Stays(c, chunks[c].loc)
    <3>1. chunks[c].loc \in Place
        BY <2>1, RecordPlace DEF TypeInv
    <3> QED
        BY <1>3, <3>1, KeepsStays
  <2> QED
      BY <1>1, <2>1, RecordsKept
<1>5. ~PutsRunning' /\ PendingInv' /\ \A w \in Writer : Pending(w) = {}
    BY <1>1, RewritingAlone
<1>6. QueueInv'
    BY <1>2, <1>5, QueueEmptyAfter
<1>7. ~NoRewrites
    BY <1>1 DEF MovedInv
<1>8. PICK origin :
          /\ \A l \in compact'.moved :
                /\ RewrittenFrom(origin[l], l) /\ l \in Place /\ Has(files', l)
                /\ l[1] = nextSeq
          /\ \A m \in Place : /\ m[1] = Min(compact.todo) /\ Has(files, m)
                              /\ ~At(files, m).deleted
                              => \E l \in compact'.moved : origin[l] = m
    BY RewrittenIs
<1>9. ASSUME NEW m \in Place, Has(files, m), ~At(files, m).deleted,
             chunks[At(files, m).chunk] # None
      PROVE  At(files, m).sealed = nonce[At(files, m).chunk]
  <2>1. At(files, m).chunk \in ChunkId /\ PageOK(At(files, m))
      BY <1>9, SomePage, HasPageIs DEF TypeInv
  <2>2. CASE Encrypted
    <3>1. AccountedInv
        BY <1>7, <2>2 DEF CompactsOnly
    <3>2. Recorded(m) \/ InPut(m) \/ InCompact(m)
        BY <1>9, <3>1 DEF AccountedInv
    <3>3. ~InPut(m) /\ ~InCompact(m)
        BY <1>1, <1>5 DEF InPut, InCompact, Relocating
    <3> QED
        BY <2>1, <3>2, <3>3, RecordedSealed DEF TypeInv
  <2>3. CASE ~Encrypted
      BY <2>1, <2>3 DEF PageOK, TypeInv, RecordsTyped
  <2> QED
      BY <2>2, <2>3
<1>10. ASSUME NEW l \in compact'.moved
       PROVE  /\ ~At(files', l).deleted /\ l[1] \notin compact'.todo
              /\ chunks'[At(files', l).chunk] # None =>
                    At(files', l).sealed = nonce'[At(files', l).chunk]
  <2>1. PICK m : m = origin[l]
      OBVIOUS
  <2>2. RewrittenFrom(m, l) /\ l[1] = nextSeq
      BY <1>8, <2>1
  <2> QED
      BY <1>1, <1>2, <1>3, <1>9, <2>2 DEF RewrittenFrom
<1>11. ASSUME NEW c \in ChunkId, chunks'[c] # None, chunks'[c].loc[1] = Min(compact'.todo)
       PROVE  \E l \in compact'.moved : At(files', l).chunk = c
  <2>1. PICK m : m = chunks[c].loc
      OBVIOUS
  <2>2. chunks[c] # None /\ RecordOK(c) /\ m \in Place /\ m[1] = Min(compact.todo)
      BY <1>1, <1>2, <1>11, <2>1, RecordPlace DEF RecordsInv, TypeInv
  <2>3. Has(files, m) /\ IsCopy(At(files, m), c, 1, nonce[c])
      BY <2>1, <2>2, WholeFirst DEF RecordOK
  <2>4. PICK l \in compact'.moved : origin[l] = m
      BY <1>8, <2>2, <2>3 DEF IsCopy
  <2>5. RewrittenFrom(m, l)
      BY <1>8, <2>4
  <2> QED
      BY <2>3, <2>5 DEF RewrittenFrom, IsCopy
<1>12. MovedInv'
    BY <1>2, <1>7, <1>10, <1>11 DEF MovedInv
<1> QED
    BY <1>4, <1>5, <1>6, <1>12

\* The record that is fetched counts every use of its chunk.
LEMMA CompactFetchRecord ==
    ASSUME CopiesInv, IndexInv, MovedInv, CompactInv', FetchRecord
    PROVE  RecordsInv' /\ PendingInv' /\ QueueInv' /\ MovedInv'
<1> USE DEF CopiesInv
<1>1. PICK l : l = FirstOf(compact.moved)
    OBVIOUS
<1>2. PICK c : c = At(files, l).chunk
    OBVIOUS
<1>3. /\ compact.pc = "relocate" /\ compact.moved # {} /\ Rewriting
      /\ compact' = IF chunks[c] = None THEN IdleCompact
                    ELSE [compact EXCEPT !.pc = "store", !.held = chunks[c].rc, !.nonce = nonce[c]]
      /\ UNCHANGED <<refs, blobs, files, chunks, short, nonce, space, put>>
    BY <1>1, <1>2, HasPageIs
       DEF FetchRecord, Step, OnlyCompacts, Rewriting, ixVars, recVars, lifeVars
<1>4. RecordsInv' /\ PendingInv'
    BY <1>3, CompactStill
<1>5. CASE chunks[c] = None
  <2>1. ~Compacting'
      BY <1>3, <1>5 DEF Compacting, IdleCompact
  <2> QED
      BY <1>4, <2>1, QueueIdleAfter
<1>6. CASE chunks[c] # None
  <2>1. /\ compact'.pc = "store" /\ compact'.moved = compact.moved
        /\ compact'.todo = compact.todo
        /\ compact'.held = chunks[c].rc /\ compact'.nonce = nonce[c]
      BY <1>3, <1>6, CompactIs DEF TypeInv
  <2>2. ~PutsRunning'
      BY <1>3, RewritingAlone
  <2>3. QueueInv'
      BY <2>1, <2>2, QueueEmptyAfter
  <2>4. c \in ChunkId
      BY <1>1, <1>2, <1>3, MovedPage, HasPageIs DEF TypeInv
  <2>5. chunks[c].rc >= Cardinality(Uses(c))
      BY <1>6, <2>4 DEF IndexInv, ChunkHeld
  <2>6. \A x : Uses(x)' = Uses(x)
      BY <1>3 DEF Uses, UsesAt, ManifestOf
  <2>7. Relocating
      BY <1>3 DEF Relocating
  <2>8. /\ Rewriting' => ~NoRewrites
        /\ \A m \in compact'.moved :
              /\ ~At(files', m).deleted /\ m[1] \notin compact'.todo
              /\ chunks'[At(files', m).chunk] # None =>
                    At(files', m).sealed = nonce'[At(files', m).chunk]
        /\ \A x \in ChunkId : chunks'[x] # None /\ chunks'[x].loc[1] = Min(compact'.todo) =>
              \E m \in compact'.moved : At(files', m).chunk = x
      BY <1>3, <2>1, <2>7 DEF MovedInv
  <2>9. At(files', FirstOf(compact'.moved)).chunk = c
      BY <1>1, <1>2, <1>3, <2>1
  <2>10. /\ chunks'[c] # None /\ compact'.nonce = nonce'[c]
         /\ compact'.held >= Cardinality(Uses(c)')
      BY <1>3, <1>6, <2>1, <2>5, <2>6
  <2> QED
      BY <1>4, <2>3, <2>8, <2>9, <2>10 DEF MovedInv
<1> QED
    BY <1>5, <1>6

\* What StoreRecord does to the records.
LEMMA StoreIs ==
    ASSUME TypeInv, MovedInv, StoreRecord
    PROVE  \E l \in compact.moved : \E c \in ChunkId :
              /\ l = FirstOf(compact.moved) /\ l \in Place /\ l \in Loc /\ Has(files, l)
              /\ c = At(files, l).chunk /\ PageOK(At(files, l))
              /\ ~At(files, l).deleted /\ l[1] \notin compact.todo
              /\ chunks[c] # None /\ compact.held >= Cardinality(Uses(c))
              /\ At(files, l).sealed = nonce[c] /\ Rewriting /\ Relocating
              /\ chunks' = [chunks EXCEPT ![c] = [ns |-> NS, rc |-> compact.held, loc |-> l]]
              /\ chunks'[c] = [ns |-> NS, rc |-> compact.held, loc |-> l]
              /\ \A x \in ChunkId : x # c => chunks'[x] = chunks[x]
              /\ short' = short \cup Spanning({c})
              /\ UNCHANGED <<refs, blobs, stats, candidates, files, nonce, space, put>>
              /\ compact'.pc = "relocate" /\ compact'.todo = compact.todo
              /\ compact'.moved = compact.moved \ {l}
<1>1. PICK l : l = FirstOf(compact.moved)
    OBVIOUS
<1>2. PICK c : c = At(files, l).chunk
    OBVIOUS
<1>3. /\ compact.pc = "store"
      /\ chunks' = [chunks EXCEPT ![c] = [ns |-> NS, rc |-> compact.held, loc |-> l]]
      /\ short' = short \cup Spanning({c})
      /\ nonce' = [nonce EXCEPT ![c] = compact.nonce]
      /\ compact' = [compact EXCEPT !.pc = "relocate", !.moved = @ \ {l}, !.held = 0,
                                    !.nonce = None]
      /\ UNCHANGED <<refs, blobs, stats, candidates, files, space, put>>
    BY <1>1, <1>2, HasPageIs DEF StoreRecord, NextMoved, Step, OnlyCompacts, lifeVars
<1>4. compact.moved # {} /\ Rewriting /\ Relocating
    BY <1>3 DEF TypeInv, CompactInv, Rewriting, Relocating
<1>5. l \in compact.moved /\ l \in Loc /\ HasPage(l) /\ c \in ChunkId
    BY <1>1, <1>2, <1>4, MovedPage, HasPageIs DEF TypeInv
<1>6. l \in Place
    BY <1>5, LocIsPlace
<1>7. Has(files, l) /\ PageOK(At(files, l))
    BY <1>5, <1>6, SomePage, HasPageIs DEF TypeInv
<1>8. /\ chunks[c] # None /\ compact.held >= Cardinality(Uses(c)) /\ compact.nonce = nonce[c]
      /\ ~At(files, l).deleted /\ l[1] \notin compact.todo
      /\ At(files, l).sealed = nonce[c]
    BY <1>1, <1>2, <1>3, <1>5 DEF MovedInv
<1>9. nonce' = nonce
    BY <1>3, <1>5, <1>8 DEF TypeInv, RecordsTyped
<1>10. /\ chunks'[c] = [ns |-> NS, rc |-> compact.held, loc |-> l]
       /\ \A x \in ChunkId : x # c => chunks'[x] = chunks[x]
    BY <1>3, <1>5 DEF TypeInv, IndexTypeOK
<1>11. /\ compact'.pc = "relocate" /\ compact'.todo = compact.todo
       /\ compact'.moved = compact.moved \ {l}
    BY <1>3, CompactIs DEF TypeInv
<1> QED
    BY <1>1, <1>2, <1>3, <1>4, <1>5, <1>6, <1>7, <1>8, <1>9, <1>10, <1>11

\* The relocated chunk is whole where it is now, with the nonce it had.
LEMMA CompactStoreRecord ==
    ASSUME CopiesInv, CompactsOnly, MovedInv, CompactInv', StoreRecord
    PROVE  RecordsInv' /\ PendingInv' /\ QueueInv' /\ MovedInv'
<1> USE DEF CopiesInv
<1>1. PICK l \in compact.moved, c \in ChunkId :
              /\ l \in Place /\ Has(files, l)
              /\ c = At(files, l).chunk /\ PageOK(At(files, l))
              /\ ~At(files, l).deleted /\ l[1] \notin compact.todo
              /\ chunks[c] # None
              /\ At(files, l).sealed = nonce[c] /\ Rewriting /\ Relocating
              /\ chunks'[c] = [ns |-> NS, rc |-> compact.held, loc |-> l]
              /\ \A x \in ChunkId : x # c => chunks'[x] = chunks[x]
              /\ short' = short \cup Spanning({c})
              /\ UNCHANGED <<files, nonce, space, put>>
              /\ compact'.pc = "relocate" /\ compact'.todo = compact.todo
              /\ compact'.moved = compact.moved \ {l}
    BY StoreIs
<1>2. OnePage /\ ~NoRewrites
    BY <1>1 DEF MovedInv, CompactsOnly
<1>3. ~PutsRunning' /\ PendingInv'
    BY <1>1, RewritingAlone
<1>4. QueueInv'
    BY <1>1, <1>3, QueueEmptyAfter
<1>5. ASSUME NEW x \in ChunkId, chunks'[x] # None PROVE RecordOK(x)'
  <2>1. CASE x = c
    <3>1. RecordOK(c) /\ chunks'[c].ns = NS /\ chunks'[c].loc = l
        BY <1>1 DEF RecordsInv
    <3>2. Pages[c] = 1
        BY <1>2 DEF OnePage
    <3>3. At(files, l).part = 1
        BY <1>1, <3>2 DEF PageOK
    <3>4. Whole(files, c, l, nonce[c])
      <4>1. \A p \in 1..Pages[c] : p = 1
          BY <3>2
      <4> QED
          BY <1>1, <3>3, <4>1, FirstPart DEF Whole, IsCopy
    <3>5. Keyed(nonce[c])'
        BY <1>1, <3>1 DEF RecordOK, Keyed
    <3> QED
        BY <1>1, <2>1, <3>1, <3>2, <3>4, <3>5 DEF RecordOK
  <2>2. CASE x # c
    <3>1. RecordOK(x) /\ chunks'[x] = chunks[x]
        BY <1>1, <1>5, <2>2 DEF RecordsInv
    <3>2. x \in short' => x \in short
        BY <1>1, <2>2 DEF Spanning
    <3>3. Stays(x, chunks[x].loc)
        BY <1>1, SameStays
    <3> QED
        BY <1>1, <3>1, <3>2, <3>3, RecordKept
  <2> QED
      BY <2>1, <2>2
<1>6. RecordsInv'
    BY <1>5 DEF RecordsInv
<1>7. ASSUME NEW m \in compact'.moved
      PROVE  /\ ~At(files', m).deleted /\ m[1] \notin compact'.todo
             /\ chunks'[At(files', m).chunk] # None =>
                   At(files', m).sealed = nonce'[At(files', m).chunk]
  <2>1. m \in compact.moved /\ At(files', m) = At(files, m) /\ m \in Place /\ HasPage(m)
      BY <1>1, CompactIs DEF TypeInv, CompactInv, Place
  <2>2. At(files, m).chunk \in ChunkId
      BY <2>1, SomePage, HasPageIs DEF TypeInv
  <2>3. chunks'[At(files, m).chunk] # None => chunks[At(files, m).chunk] # None
      BY <1>1, <2>2
  <2> QED
      BY <1>1, <2>1, <2>3 DEF MovedInv
<1>8. ASSUME NEW x \in ChunkId, chunks'[x] # None, chunks'[x].loc[1] = Min(compact'.todo)
      PROVE  \E m \in compact'.moved : At(files', m).chunk = x
  <2>1. Min(compact.todo) \in compact.todo
      BY <1>1, TodoIs
  <2>2. x # c /\ chunks'[x] = chunks[x]
      BY <1>1, <1>8, <2>1
  <2>3. PICK m \in compact.moved : At(files, m).chunk = x
      BY <1>1, <1>8, <2>2 DEF MovedInv
  <2>4. m # l
      BY <1>1, <2>2, <2>3
  <2> QED
      BY <1>1, <2>3, <2>4
<1>9. MovedInv'
    BY <1>1, <1>2, <1>7, <1>8 DEF MovedInv
<1> QED
    BY <1>3, <1>4, <1>6, <1>9

\* No record points into the segment that is removed.
LEMMA CompactDeleteSegmentFile ==
    ASSUME CopiesInv, MovedInv, CompactInv', DeleteSegmentFile
    PROVE  RecordsInv' /\ PendingInv' /\ QueueInv' /\ MovedInv'
<1> USE DEF CopiesInv
<1>1. PICK s : s = Min(compact.todo)
    OBVIOUS
<1>2. /\ compact.moved = {} /\ Rewriting /\ compact.pc = "relocate"
      /\ DOMAIN files' = DOMAIN files \ {s}
      /\ \A t \in DOMAIN files' : files'[t] = files[t]
      /\ compact' = NextSegment
      /\ UNCHANGED <<chunks, short, nonce, space, put>>
    BY <1>1, DeletedIs DEF DeleteSegmentFile, ixVars, recVars, lifeVars
<1>3. ASSUME NEW c \in ChunkId, chunks[c] # None PROVE Stays(c, chunks[c].loc)
  <2>1. chunks[c].loc[1] # s
      BY <1>1, <1>2, <1>3 DEF MovedInv, Relocating
  <2>2. ASSUME NEW p \in 1..Pages[c], Has(files, PartOf(chunks[c].loc, p))
        PROVE  /\ Has(files', PartOf(chunks[c].loc, p))
               /\ At(files', PartOf(chunks[c].loc, p)) = At(files, PartOf(chunks[c].loc, p))
    <3>1. PartOf(chunks[c].loc, p)[1] # s
        BY <2>1 DEF PartOf
    <3> QED
        BY <1>2, <2>2, <3>1 DEF Has, At
  <2> QED
      BY <2>2 DEF Stays
<1>4. RecordsInv'
    BY <1>2, <1>3, RecordsKept
<1>5. ~PutsRunning' /\ PendingInv'
    BY <1>2, RewritingAlone
<1>6. compact'.pc \in {"idle", "rewrite"} /\ compact'.moved = {}
  <2>1. CASE compact.todo = {Min(compact.todo)}
    <3>1. compact' = IdleCompact
        BY <1>2, <2>1 DEF NextSegment
    <3> QED
        BY <3>1 DEF IdleCompact
  <2>2. CASE compact.todo # {Min(compact.todo)}
    <3>1. compact' = [compact EXCEPT !.pc = "rewrite", !.todo = @ \ {Min(@)}]
        BY <1>2, <2>2 DEF NextSegment
    <3>2. compact'.pc = "rewrite" /\ compact'.moved = compact.moved
        BY <3>1, CompactIs DEF TypeInv
    <3> QED
        BY <1>2, <3>2
  <2> QED
      BY <2>1, <2>2
<1>7. QueueInv'
    BY <1>5, <1>6, QueueEmptyAfter
<1>8. ~NoRewrites
    BY <1>2 DEF MovedInv
<1>9. MovedInv'
    BY <1>6, <1>8 DEF MovedInv, Relocating
<1> QED
    BY <1>4, <1>5, <1>7, <1>9

LEMMA CompactCancel ==
    ASSUME CopiesInv, CompactInv', CancelCompact
    PROVE  RecordsInv' /\ PendingInv' /\ QueueInv' /\ MovedInv'
<1>1. compact' = IdleCompact /\ UNCHANGED <<files, chunks, short, nonce, space, put>>
    BY DEF CancelCompact, Step, OnlyCompacts, recVars, lifeVars
<1>2. ~Compacting'
    BY <1>1 DEF Compacting, IdleCompact
<1> QED
    BY <1>1, <1>2, CompactStill, QueueIdleAfter

-----------------------------------------------------------------------------
(* The other steps beside a Compact                                        *)

\* Phase 1 after its scan: nothing is relocated.
LEMMA PhaseOneMoves ==
    ASSUME CompactInv', ScanPages \/ ReapPage \/ MarkPage \/ SweepBlobs \/ SweepBlob \/ Reconcile,
           CompactInv
    PROVE  ~Rewriting' /\ ~Rewriting
<1>1. CASE ScanPages
  <2>1. compact'.pc \in {"sweep", "reap"} /\ compact.pc = "idle"
      BY <1>1 DEF ScanPages, Step, IdleCompact
  <2> QED
      BY <2>1 DEF Rewriting
<1>2. CASE ReapPage
  <2>1. PICK l : l = FirstOf(compact.queue)
      OBVIOUS
  <2>2. compact.pc = "reap"
        /\ (compact' = [compact EXCEPT !.pc = "mark", !.freed = @ + 1] \/ compact' = NextInQueue)
      BY <1>2 DEF ReapPage, Step
  <2>3. compact'.pc \in {"sweep", "reap", "mark"}
      BY <2>2, CompactIs DEF NextInQueue
  <2> QED
      BY <2>2, <2>3 DEF Rewriting
<1>3. CASE MarkPage
  <2>1. compact.pc = "mark" /\ compact' = NextInQueue
      BY <1>3 DEF MarkPage, Step
  <2>2. compact'.pc \in {"sweep", "reap"}
      BY <2>1, CompactIs DEF NextInQueue
  <2> QED
      BY <2>1, <2>2 DEF Rewriting
<1>4. CASE SweepBlobs \/ Reconcile
  <2>1. /\ compact.pc \in {"sweep", "purge"}
        /\ \/ compact' = [compact EXCEPT !.pc = "purge"]
           \/ compact' = [IdleCompact EXCEPT !.pc = "wait"]
      BY <1>4 DEF SweepBlobs, Reconcile, Step
  <2>2. compact'.pc \in {"purge", "wait"}
      BY <2>1, CompactIs DEF IdleCompact
  <2> QED
      BY <2>1, <2>2 DEF Rewriting
<1>5. CASE SweepBlob
    BY <1>5 DEF SweepBlob, Rewriting
<1> QED
    BY <1>1, <1>2, <1>3, <1>4, <1>5

\* No Put runs while a Compact does.
LEMMA PutsWithoutCompact ==
    ASSUME TypeInv, QueueInv, "put" \notin Alongside, PutNext
    PROVE  ~Compacting /\ UNCHANGED <<compact, space, open, used>>
<1>1. ASSUME NEW w \in Writer, NEW k \in Key, NEW b \in Content[NS], WriteBlob(w, k, b)
      PROVE  ~Compacting /\ UNCHANGED <<compact, space, open, used>>
    BY <1>1 DEF WriteBlob, MayCall, lifeVars
<1>2. ASSUME NEW w \in Writer,
             LogBlob(w) \/ CheckQuota(w) \/ CancelPut(w) \/ CommitBlob(w) \/ MarkDuplicate(w)
      PROVE  ~Compacting /\ UNCHANGED <<compact, space, open, used>>
  <2>1. put[w].pc # "idle" /\ UNCHANGED <<compact, space, open, used>>
      BY <1>2 DEF LogBlob, CheckQuota, CancelPut, CommitBlob, MarkDuplicate, lifeVars
  <2>2. PutsRunning
      BY <2>1 DEF PutsRunning
  <2> QED
      BY <2>1, <2>2 DEF QueueInv
<1> QED
    BY <1>1, <1>2 DEF PutNext

LEMMA CopiesPut ==
    ASSUME CopiesInv, PutNext
    PROVE  RecordsInv' /\ PendingInv'
BY CopiesWriteBlob, CopiesLogBlob, CopiesCheckQuota, CopiesCancelPut, CopiesCommitBlob,
   CopiesMarkDuplicate
   DEF CopiesInv, PutNext

\* What Delete and Rename leave of the records: their places, and counts that cover
\* the uses as well as before.
LEMMA DeleteRenameIs ==
    ASSUME TypeInv, IndexInv,
           (\E k \in Key : Delete(k)) \/ (\E old, new \in Key : Rename(old, new))
    PROVE  /\ IndexInv'
           /\ UNCHANGED <<files, active, nextSeq, short, nonce, open, space, put, compact, used>>
           /\ \A c \in ChunkId :
                 /\ chunks'[c] # None <=> chunks[c] # None
                 /\ chunks[c] # None => /\ chunks'[c].loc = chunks[c].loc
                                        /\ chunks[c].rc = 0 => chunks'[c].rc = 0
                 /\ Cardinality(Uses(c)') <= Cardinality(Uses(c))
                 /\ Cardinality(Uses(c)) \in Nat /\ Cardinality(Uses(c)') \in Nat
<1>0. \A c \in ChunkId : Cardinality(Uses(c)) \in Nat
    BY FS_CardinalityType DEF IndexInv
<1>1. ASSUME NEW k \in Key, Delete(k)
      PROVE  /\ IndexInv'
             /\ UNCHANGED <<files, active, nextSeq, short, nonce, open, space, put, compact, used>>
             /\ \A c \in ChunkId :
                   /\ chunks'[c] # None <=> chunks[c] # None
                   /\ chunks[c] # None => /\ chunks'[c].loc = chunks[c].loc
                                          /\ chunks[c].rc = 0 => chunks'[c].rc = 0
                   /\ Cardinality(Uses(c)') <= Cardinality(Uses(c))
  <2>1. CommitDelete(NS, k) /\ UNCHANGED candidates
        /\ UNCHANGED <<files, active, nextSeq, short, nonce, open, space, put, compact, used>>
      BY <1>1 DEF Delete, OnlyIndex, volVars, recVars, lifeVars
  <2>2. NS \in Namespace /\ IndexTypeOK
      BY NSAssumption DEF TypeInv
  <2>3. IndexInv'
      BY <2>1, <2>2, DeleteInv
  <2> QED
      BY <2>1, <2>2, <2>3, DeleteChunks, DeleteUses
<1>2. ASSUME NEW old \in Key, NEW new \in Key, Rename(old, new)
      PROVE  /\ IndexInv'
             /\ UNCHANGED <<files, active, nextSeq, short, nonce, open, space, put, compact, used>>
             /\ UNCHANGED chunks
             /\ \A c \in ChunkId : Cardinality(Uses(c)') = Cardinality(Uses(c))
  <2>1. CommitRenameRef(NS, old, new) /\ UNCHANGED chunks
        /\ UNCHANGED <<files, active, nextSeq, short, nonce, open, space, put, compact, used>>
      BY <1>2 DEF Rename, OnlyIndex, volVars, recVars, lifeVars, CommitRenameRef
  <2>2. NS \in Namespace /\ IndexTypeOK'
      BY <1>2, NSAssumption, TypeDeleteRename DEF TypeInv
  <2> QED
      BY <2>1, <2>2, RenameInv, RenameUses
<1>3. CASE \E k \in Key : Delete(k)
  <2>1. IndexInv'
      BY <1>1, <1>3
  <2>2. \A c \in ChunkId : Cardinality(Uses(c)') \in Nat
      BY <2>1, FS_CardinalityType DEF IndexInv
  <2> QED
      BY <1>0, <1>1, <1>3, <2>2
<1>4. CASE \E old, new \in Key : Rename(old, new)
  <2>1. PICK old \in Key, new \in Key : Rename(old, new)
      BY <1>4
  <2>2. /\ IndexInv'
        /\ UNCHANGED <<files, active, nextSeq, short, nonce, open, space, put, compact, used>>
        /\ UNCHANGED chunks
        /\ \A c \in ChunkId : Cardinality(Uses(c)') = Cardinality(Uses(c))
      BY <1>2, <2>1
  <2>3. \A c \in ChunkId : Cardinality(Uses(c)') <= Cardinality(Uses(c))
      BY <1>0, <2>2
  <2> QED
      BY <1>0, <2>2, <2>3
<1> QED
    BY <1>3, <1>4

LEMMA CompactDeleteRename ==
    ASSUME CopiesInv, IndexInv, QueueInv, MovedInv,
           (\E k \in Key : Delete(k)) \/ (\E old, new \in Key : Rename(old, new))
    PROVE  RecordsInv' /\ PendingInv' /\ QueueInv' /\ MovedInv'
<1> USE DEF CopiesInv
<1>1. /\ UNCHANGED <<files, nonce, put, compact>>
      /\ \A c \in ChunkId :
            /\ chunks'[c] # None <=> chunks[c] # None
            /\ chunks[c] # None => /\ chunks'[c].loc = chunks[c].loc
                                   /\ chunks[c].rc = 0 => chunks'[c].rc = 0
            /\ Cardinality(Uses(c)') <= Cardinality(Uses(c))
            /\ Cardinality(Uses(c)) \in Nat /\ Cardinality(Uses(c)') \in Nat
    BY DeleteRenameIs
<1>2. RecordsInv' /\ PendingInv'
    BY CopiesDeleteRename
<1>3. QueueInv'
  <2>1. compact.pc = "mark" => compact.queue # {}
      BY DEF TypeInv, CompactInv
  <2>2. /\ \A l \in compact.queue : At(files, l).chunk \in ChunkId
        /\ compact.pc = "mark" => FirstOf(compact.queue) \in compact.queue
      BY <2>1, QueuedIs DEF TypeInv
  <2> QED
      BY <1>1, <2>2, QueueKept
<1>4. ASSUME NEW l \in compact.moved
      PROVE  At(files, l).chunk \in ChunkId
  <2>1. l \in Place /\ HasPage(l)
      BY CompactIs DEF TypeInv, CompactInv, Place
  <2> QED
      BY <2>1, SomePage, HasPageIs DEF TypeInv
<1>5. \A l \in compact.moved :
          /\ ~At(files', l).deleted /\ l[1] \notin compact'.todo
          /\ chunks'[At(files', l).chunk] # None =>
                At(files', l).sealed = nonce'[At(files', l).chunk]
    BY <1>1, <1>4 DEF MovedInv
<1>6. Relocating' =>
          \A c \in ChunkId : chunks'[c] # None /\ chunks'[c].loc[1] = Min(compact'.todo) =>
              \E l \in compact'.moved : At(files', l).chunk = c
    BY <1>1 DEF MovedInv, Relocating
<1>7. ASSUME compact.pc = "store", NEW c, c = At(files, FirstOf(compact.moved)).chunk
      PROVE  /\ chunks'[c] # None
             /\ compact.held >= Cardinality(Uses(c)')
             /\ compact.nonce = nonce'[c]
  <2>1. compact.moved # {}
      BY <1>7 DEF TypeInv, CompactInv
  <2>2. c \in ChunkId
      BY <1>7, <2>1, MovedPage, HasPageIs DEF TypeInv
  <2>3. chunks[c] # None /\ compact.held >= Cardinality(Uses(c)) /\ compact.nonce = nonce[c]
      BY <1>7 DEF MovedInv
  <2>4. compact.held \in Nat
      BY CompactIs DEF TypeInv
  <2>5. PICK m, n \in Nat : m = Cardinality(Uses(c)) /\ n = Cardinality(Uses(c)') /\ n <= m
      BY <1>1, <2>2
  <2>6. compact.held >= Cardinality(Uses(c)')
      BY <2>3, <2>4, <2>5
  <2> QED
      BY <1>1, <2>2, <2>3, <2>6
<1>8. (Rewriting => ~NoRewrites)'
    BY <1>1 DEF MovedInv, Rewriting
<1>9. MovedInv'
    BY <1>1, <1>5, <1>6, <1>7, <1>8 DEF MovedInv
<1> QED
    BY <1>2, <1>3, <1>9

\* A step that changes neither files, records nor a Compact.
LEMMA CompactNothing ==
    ASSUME CopiesInv, QueueInv, MovedInv,
           UNCHANGED <<files, chunks, short, nonce, space, put, compact, refs, blobs>>
    PROVE  RecordsInv' /\ PendingInv' /\ QueueInv' /\ MovedInv'
<1>1. RecordsInv' /\ PendingInv'
    BY CompactStill
<1>2. QueueInv'
    BY DEF QueueInv, Compacting, PutsRunning
<1>3. \A c : Uses(c)' = Uses(c)
    BY DEF Uses, UsesAt, ManifestOf
<1>4. MovedInv'
    BY <1>3 DEF MovedInv, Rewriting, Relocating
<1> QED
    BY <1>1, <1>2, <1>4

-----------------------------------------------------------------------------
(* The index under the store, and the process that runs on                 *)

\* The index invariant does not depend on where chunks are.
LEMMA RelocatedInv ==
    ASSUME TypeInv, RecordsInv, MovedInv, IndexInv, IndexTypeOK', StoreRecord
    PROVE  IndexInv'
<1>1. PICK c \in ChunkId :
          /\ chunks[c] # None /\ compact.held >= Cardinality(Uses(c))
          /\ chunks'[c].ns = NS /\ chunks'[c].rc = compact.held /\ chunks'[c] # None
          /\ \A x \in ChunkId : x # c => chunks'[x] = chunks[x]
          /\ UNCHANGED <<refs, blobs>>
  <2>1. PICK l \in compact.moved, c \in ChunkId :
            /\ chunks[c] # None /\ compact.held >= Cardinality(Uses(c))
            /\ chunks' = [chunks EXCEPT ![c] = [ns |-> NS, rc |-> compact.held, loc |-> l]]
            /\ chunks'[c] = [ns |-> NS, rc |-> compact.held, loc |-> l]
            /\ \A x \in ChunkId : x # c => chunks'[x] = chunks[x]
            /\ UNCHANGED <<refs, blobs>> /\ l \in Loc
      BY StoreIs
  <2>2. [ns |-> NS, rc |-> compact.held, loc |-> l] \in ChunkEntry
      BY <2>1, CompactIs, NSAssumption DEF ChunkEntry, TypeInv
  <2>3. chunks'[c] # None
      BY <2>1, <2>2, NoneAssumption
  <2> QED
      BY <2>1, <2>3
<1>2. chunks[c].ns = NS
    BY <1>1 DEF RecordsInv, RecordOK
<1>10. UNCHANGED <<refs, blobs>>
    BY <1>1
<1>3. \A x : Uses(x)' = Uses(x) /\ RefsTo(x)' = RefsTo(x) /\ BlobHeld(x)' = BlobHeld(x)
    BY <1>10 DEF Uses, UsesAt, ManifestOf, RefsTo, BlobHeld
<1>4. ASSUME NEW x \in ChunkId
      PROVE  IsFiniteSet(Uses(x)') /\ Cardinality(Uses(x)') <= ChunkHeld(chunks', x)
  <2>1. IsFiniteSet(Uses(x)) /\ Cardinality(Uses(x)) <= ChunkHeld(chunks, x)
      BY DEF IndexInv
  <2>2. CASE x = c
      BY <1>1, <1>3, <2>1, <2>2, CompactIs, FS_CardinalityType DEF ChunkHeld, TypeInv
  <2>3. CASE x # c
      BY <1>1, <1>3, <2>1, <2>3 DEF ChunkHeld
  <2> QED
      BY <2>2, <2>3
<1>5. \A x \in ChunkId : chunks'[x] # None =>
          chunks[x] # None /\ chunks'[x].ns = chunks[x].ns
    BY <1>1, <1>2
<1>6. \A x \in ChunkId : chunks'[x] # None =>
          \E b \in Content[chunks'[x].ns] : \E ids \in Manifests[b] :
             \E i \in DOMAIN ids : ids[i] = x
    BY <1>5 DEF IndexInv
<1>7. \A b \in Blob : IsFiniteSet(RefsTo(b)') /\ Cardinality(RefsTo(b)') <= BlobHeld(b)'
    BY <1>3 DEF IndexInv
<1>8. /\ \A b \in Blob : blobs'[b] # None => blobs'[b].ids \in Manifests[b]
      /\ \A n \in Namespace, k \in Key : refs'[n][k] # None => refs'[n][k].blob \in Content[n]
    BY <1>1 DEF IndexInv
<1> QED
    BY <1>4, <1>6, <1>7, <1>8 DEF IndexInv

\* The steps of a process that runs on.
RunningNext ==
    \/ PutNext \/ GetNext \/ CompactNext
    \/ (\E k \in Key : Delete(k)) \/ (\E old, new \in Key : Rename(old, new))
    \/ UNCHANGED vars

LEMMA RunsOnSteps ==
    ASSUME RunsOn, LifeHeld, [StoreNext]_vars
    PROVE  RunningNext
<1>1. ~Crash /\ ~Close /\ ~RebuildIndex /\ ~BeginDrop
    BY DEF Crash, Close, RebuildIndex, BeginDrop, RunsOn, LifeHeld
<1>2. ~Reopen /\ ~CreateNamespace
    BY DEF Reopen, CreateNamespace, LifeHeld
<1>3. ~DropRef /\ ~CancelDrop
    BY DEF DropRef, CancelDrop, LifeHeld
<1>4. ~DropRecord
  <2>1. {} # None
      BY StoreNoneAssumption
  <2> QED
      BY <2>1 DEF DropRecord, LifeHeld
<1> QED
    BY <1>1, <1>2, <1>3, <1>4 DEF StoreNext, RunningNext

LEMMA LifeStep ==
    ASSUME LifeHeld, RunningNext, TypeInv
    PROVE  LifeHeld' /\ UNCHANGED <<open, space>>
<1>1. CASE PutNext
  <2>1. UNCHANGED <<open, space, used>>
      BY <1>1 DEF PutNext, WriteBlob, LogBlob, CheckQuota, CancelPut, CommitBlob,
                  MarkDuplicate, lifeVars
  <2> QED
      BY <2>1 DEF LifeHeld
<1>2. CASE GetNext
  <2>1. UNCHANGED <<open, space, used>>
      BY <1>2, GetChangesNothing DEF lifeVars
  <2> QED
      BY <2>1 DEF LifeHeld
<1>3. CASE (\E k \in Key : Delete(k)) \/ (\E old, new \in Key : Rename(old, new))
  <2>1. UNCHANGED <<open, space, used>>
      BY <1>3 DEF Delete, Rename, OnlyIndex, lifeVars
  <2> QED
      BY <2>1 DEF LifeHeld
<1>4. CASE CompactNext
  <2>1. CASE ScanPages
    <3>1. used' = [used EXCEPT !.compacts = @ + 1] /\ UNCHANGED <<open, space>>
        BY <2>1 DEF ScanPages, lifeVars
    <3> QED
        BY <3>1 DEF LifeHeld
  <2>2. CASE ~ScanPages
    <3>1. UNCHANGED <<open, space, used>>
        BY <1>4, <2>2 DEF CompactNext, ReapPage, MarkPage, SweepBlobs, SweepBlob, Reconcile,
              BeginRewrite, RewriteSegment, FetchRecord, StoreRecord, DeleteSegmentFile,
              CancelCompact, OnlyCompacts, lifeVars
    <3> QED
        BY <3>1 DEF LifeHeld
  <2> QED
      BY <2>1, <2>2
<1>5. CASE UNCHANGED vars
    BY <1>5 DEF LifeHeld, vars, lifeVars
<1> QED
    BY <1>1, <1>2, <1>3, <1>4, <1>5 DEF RunningNext

\* What leaves references, manifests and records alone keeps the index invariant.
LEMMA IndexNothing ==
    ASSUME IndexInv, IndexTypeOK', UNCHANGED <<refs, blobs, chunks>>
    PROVE  IndexInv'
BY SameManifestsInv

LEMMA IndexPut ==
    ASSUME OneManifest, NoSharedContent, TypeInv, TypeInv', IndexInv, PutNext
    PROVE  IndexInv'
<1>1. IndexTypeOK'
    BY DEF TypeInv
<1>2. ASSUME NEW w \in Writer, CommitBlob(w) PROVE IndexInv'
  <2>1. PICK p : p = put[w]
      OBVIOUS
  <2>2. p.pc = "checked" /\ UNCHANGED candidates
        /\ \E custom \in Meta : CommitPut(NS, p.key, p.blob, p.ids, p.at, custom)
      BY <1>2, <2>1 DEF CommitBlob
  <2>3. BusyPutOK(p)
      BY <2>1, <2>2, BusyIs DEF TypeInv
  <2>4. /\ p.key \in Key /\ p.blob \in Content[NS] /\ p.ids \in Manifests[p.blob]
        /\ p.at \in [DOMAIN p.ids -> Loc]
      BY <2>3, BusyMeans
  <2>5. PICK custom \in Meta : CommitPut(NS, p.key, p.blob, p.ids, p.at, custom)
      BY <2>2
  <2> QED
      BY <2>2, <2>4, <2>5, NSAssumption, PutInv
<1>3. ASSUME NEW w \in Writer,
             \/ \E k \in Key : \E b \in Content[NS] : WriteBlob(w, k, b)
             \/ LogBlob(w) \/ CheckQuota(w) \/ CancelPut(w) \/ MarkDuplicate(w)
      PROVE  IndexInv'
  <2>1. UNCHANGED <<refs, blobs, chunks>>
      BY <1>3 DEF WriteBlob, LogBlob, CheckQuota, CancelPut, MarkDuplicate, ixVars
  <2> QED
      BY <1>1, <2>1, IndexNothing
<1> QED
    BY <1>2, <1>3 DEF PutNext

LEMMA IndexCompact ==
    ASSUME TypeInv, TypeInv', RecordsInv, QueueInv, MovedInv, IndexInv, CompactNext
    PROVE  IndexInv'
<1>1. IndexTypeOK'
    BY DEF TypeInv
<1>2. CASE ReapPage
  <2>1. PICK l \in compact.queue :
            /\ l \in Loc /\ At(files, l).chunk \in ChunkId
            /\ ReapPhysicalPageIfDead(At(files, l).chunk, l)
      BY <1>2, ReapIs
  <2> QED
      BY <1>1, <2>1, ReapInv
<1>3. CASE SweepBlob
  <2>1. PICK b \in candidates : PurgeBlob(b)
      BY <1>3 DEF SweepBlob
  <2>2. b \in Blob
      BY <2>1 DEF TypeInv, IndexTypeOK
  <2> QED
      BY <1>1, <2>1, <2>2, PurgeInv
<1>4. CASE StoreRecord
    BY <1>1, <1>4, RelocatedInv
<1>5. CASE \/ ScanPages \/ MarkPage \/ SweepBlobs \/ Reconcile \/ BeginRewrite
           \/ RewriteSegment \/ FetchRecord \/ DeleteSegmentFile \/ CancelCompact
  <2>1. UNCHANGED <<refs, blobs, chunks>>
      BY <1>5 DEF ScanPages, MarkPage, SweepBlobs, Reconcile, BeginRewrite, RewriteSegment,
                  FetchRecord, DeleteSegmentFile, CancelCompact, PurgeScan, ReconcileDeadStats,
                  ixVars
  <2> QED
      BY <1>1, <2>1, IndexNothing
<1> QED
    BY <1>2, <1>3, <1>4, <1>5 DEF CompactNext

-----------------------------------------------------------------------------
(* Why every unflagged page is there, under OnePage and NothingLeft         *)

Accounted(l) == Recorded(l) \/ InPut(l) \/ InCompact(l)

\* The chunk of a page on disk is one.
LEMMA PageChunk ==
    ASSUME FilesInv, NEW l \in Place, Has(files, l)
    PROVE  At(files, l).chunk \in ChunkId /\ PageOK(At(files, l)) /\ l \in Loc
BY SomePage, HasPageIs

\* A step that keeps records, pending copies and the Compact.
LEMMA AccountedKept ==
    ASSUME FilesInv, CompactInv, AccountedInv, UNCHANGED <<files, compact>>,
           \A c \in ChunkId : chunks[c] # None =>
               chunks'[c] # None /\ chunks'[c].loc = chunks[c].loc,
           \A w \in Writer : \A i \in Pending(w) :
               i \in Pending(w)' /\ put'[w].at = put[w].at
    PROVE  AccountedInv'
<1>1. ASSUME NEW l \in Place, Has(files', l), ~At(files', l).deleted
      PROVE  Accounted(l)'
  <2>1. Accounted(l) /\ At(files, l).chunk \in ChunkId
      BY <1>1, PageChunk DEF AccountedInv, Accounted
  <2>2. Recorded(l) => Recorded(l)'
      BY <2>1 DEF Recorded
  <2>3. InPut(l) => InPut(l)'
      BY DEF InPut
  <2>4. InCompact(l) => InCompact(l)'
      BY DEF InCompact, Relocating
  <2> QED
      BY <2>1, <2>2, <2>3, <2>4 DEF Accounted
<1>2. \A l \in compact.moved : At(files, l).chunk \in ChunkId
  <2> SUFFICES ASSUME NEW l \in compact.moved PROVE At(files, l).chunk \in ChunkId
      OBVIOUS
  <2>1. l \in Place /\ Has(files, l)
      BY CompactIs, HasPageIs DEF CompactInv, Place
  <2> QED
      BY <2>1, PageChunk
<1>3. \A l \in compact'.moved :
          /\ chunks'[At(files', l).chunk] # None
          /\ chunks'[At(files', l).chunk].loc[1] = Min(compact'.todo)
          /\ \A m \in compact'.moved : At(files', m).chunk = At(files', l).chunk => m = l
    BY <1>2 DEF AccountedInv
<1> QED
    BY <1>1, <1>3 DEF AccountedInv, Accounted

\* A step of a Compact that neither was nor is flagging or relocating.
LEMMA AccountedQuiet ==
    ASSUME FilesInv, AccountedInv, UNCHANGED <<files, chunks, put>>,
           compact.pc \notin {"mark", "relocate", "store"}, compact'.moved = {}
    PROVE  AccountedInv'
<1>1. ASSUME NEW l \in Place, Has(files', l), ~At(files', l).deleted
      PROVE  Accounted(l)'
  <2>1. Accounted(l)
      BY <1>1 DEF AccountedInv, Accounted
  <2>2. ~InCompact(l)
      BY DEF InCompact, Relocating
  <2>3. Recorded(l) => Recorded(l)'
      BY DEF Recorded
  <2>4. InPut(l) => InPut(l)'
      BY DEF InPut, Pending
  <2> QED
      BY <2>1, <2>2, <2>3, <2>4 DEF Accounted
<1> QED
    BY <1>1 DEF AccountedInv, Accounted

\* The pages that WriteBlob adds are those of its pending copies.
LEMMA AccountedWriteBlob ==
    ASSUME TypeInv, OnePage, AccountedInv, ~Compacting,
           NEW w \in Writer, NEW k \in Key, NEW b \in Content[NS], WriteBlob(w, k, b)
    PROVE  AccountedInv'
<1>0. PICK p : p = put'[w]
    OBVIOUS
<1>1. /\ p.pc = "written" /\ p.ids \in Seq(ChunkId)
      /\ put[w] = IdlePut /\ \A v \in Writer : v # w => put'[v] = put[v]
      /\ Keeps(files, files')
      /\ \A i \in DOMAIN p.ids : p.at[i] \in Loc
      /\ \A m \in Place : Has(files', m) =>
            Has(files, m) \/ \E i \in DOMAIN p.ids : IsPartOf(p.ids[i], p.at[i], m)
    BY <1>0, WriteIs
<1>2. UNCHANGED <<chunks, compact>>
    BY DEF WriteBlob, ixVars
<1>3. compact'.moved = {} /\ ~Relocating /\ compact.pc # "mark"
    BY <1>2 DEF TypeInv, CompactInv, Compacting, Relocating
<1>4. ASSUME NEW l \in Place, Has(files', l), ~At(files', l).deleted
      PROVE  Accounted(l)'
  <2>1. CASE Has(files, l)
    <3>1. At(files', l) = At(files, l)
        BY <1>1, <2>1 DEF Keeps
    <3>2. Accounted(l)
        BY <1>4, <2>1, <3>1 DEF AccountedInv, Accounted
    <3>3. ~InCompact(l)
        BY <1>3 DEF InCompact
    <3>4. Recorded(l) => Recorded(l)'
        BY <1>2, <3>1 DEF Recorded
    <3>5. ASSUME InPut(l) PROVE InPut(l)'
      <4>0. PICK v \in Writer : \E i \in Pending(v) : put[v].at[i] = l
          BY <3>5 DEF InPut
      <4>1. PICK i \in Pending(v) : put[v].at[i] = l
          BY <4>0
      <4>2. v # w
          BY <1>1, <4>1, IdlePending
      <4>3. put'[v] = put[v] /\ Pending(v)' = Pending(v)
          BY <1>1, <4>2 DEF Pending
      <4> QED
          BY <4>1, <4>3 DEF InPut
    <3> QED
        BY <3>2, <3>3, <3>4, <3>5 DEF Accounted
  <2>2. CASE ~Has(files, l)
    <3>1. PICK i \in DOMAIN p.ids : IsPartOf(p.ids[i], p.at[i], l)
        BY <1>1, <1>4, <2>2
    <3>2. PICK c \in ChunkId, at \in Place : c = p.ids[i] /\ at = p.at[i]
        BY <1>1, LocIsPlace
    <3>3. Pages[c] = 1
        BY DEF OnePage
    <3>4. PICK q \in 1..Pages[c] : l = PartOf(at, q)
        BY <3>1, <3>2 DEF IsPartOf
    <3>5. l = p.at[i]
        BY <3>2, <3>3, <3>4, FirstPart
    <3>6. i \in Pending(w)'
        BY <1>0, <1>1 DEF Pending
    <3>7. InPut(l)'
        BY <1>0, <3>5, <3>6 DEF InPut
    <3> QED
        BY <3>7 DEF Accounted
  <2> QED
      BY <2>1, <2>2
<1> QED
    BY <1>3, <1>4 DEF AccountedInv, Accounted

LEMMA AccountedLogBlob ==
    ASSUME TypeInv, AccountedInv, ~Compacting, NEW w \in Writer, LogBlob(w)
    PROVE  AccountedInv'
<1>1. \A m : /\ Has(files', m) <=> Has(files, m)
             /\ Has(files, m) => At(files', m) = At(files, m)
    BY LogStays DEF TypeInv
<1>2. UNCHANGED <<chunks, compact>> /\ put[w].pc = "written"
      /\ put' = [put EXCEPT ![w].pc = "logged"]
    BY DEF LogBlob, ixVars
<1>3. compact'.moved = {}
    BY <1>2 DEF TypeInv, CompactInv, Compacting
<1>4. ASSUME NEW v \in Writer, NEW i \in Pending(v)
      PROVE  i \in Pending(v)' /\ put'[v].at = put[v].at
  <2>1. CASE v # w
      BY <1>2, <2>1 DEF Pending, TypeInv, PutsInv
  <2>2. CASE v = w
    <3>1. put'[w] = [put[w] EXCEPT !.pc = "logged"]
        BY <1>2 DEF TypeInv, PutsInv
    <3>2. BusyPutOK(put[w])
        BY <1>2, BusyIs DEF TypeInv
    <3>3. put'[w].pc = "logged" /\ put'[w].ids = put[w].ids /\ put'[w].at = put[w].at
        BY <3>1, <3>2, BusyMeans
    <3> QED
        BY <1>2, <2>2, <3>3 DEF Pending
  <2> QED
      BY <2>1, <2>2
<1>5. ASSUME NEW l \in Place, Has(files', l), ~At(files', l).deleted
      PROVE  Accounted(l)'
  <2>1. Accounted(l) /\ At(files', l) = At(files, l)
      BY <1>1, <1>5 DEF AccountedInv, Accounted
  <2>2. ~InCompact(l)
      BY DEF InCompact, Relocating, Compacting
  <2>3. Recorded(l) => Recorded(l)'
      BY <1>2, <2>1 DEF Recorded
  <2>4. InPut(l) => InPut(l)'
      BY <1>4 DEF InPut
  <2> QED
      BY <2>1, <2>2, <2>3, <2>4 DEF Accounted
<1> QED
    BY <1>3, <1>5 DEF AccountedInv, Accounted

\* Without limits no Put is refused after it has written.
LEMMA AccountedCheckQuota ==
    ASSUME CopiesInv, NothingLeft, AccountedInv, NEW w \in Writer, CheckQuota(w)
    PROVE  AccountedInv'
<1> USE DEF CopiesInv
<1>1. UNCHANGED <<files, compact, chunks>>
    BY DEF CheckQuota, ixVars, volVars
<1>2. WithinQuota(put[w].blob)
  <2>1. Quota.maxBlobCount = 0 /\ Quota.maxBytes = 0 /\ Quota.maxBlobSize = 0
      BY DEF NothingLeft, NoLimits
  <2> QED
      BY <2>1 DEF WithinQuota
<1>3. /\ \A v \in Writer : Pending(v)' = Pending(v)
      /\ \A v \in Writer : \A i \in Pending(v)' : put'[v].at = put[v].at
    BY <1>2, CopiesCheckQuota
<1> QED
    BY <1>1, <1>3, AccountedKept DEF TypeInv

\* The copies a commit uses are recorded, the others are still the Put's to flag.
LEMMA AccountedCommitBlob ==
    ASSUME CopiesInv, AccountedInv, ~Compacting, NEW w \in Writer, CommitBlob(w)
    PROVE  AccountedInv'
<1> USE DEF CopiesInv
<1>1. PICK p : p = put[w]
    OBVIOUS
<1>2. PICK dups : dups = PutDuplicates(NS, p.key, p.blob, p.ids)
    OBVIOUS
<1>3. Committed(w, p, dups)
    BY <1>1, <1>2, CommitIs
<1>4. /\ p.pc = "checked" /\ dups \subseteq DOMAIN p.ids /\ UNCHANGED <<files, compact>>
      /\ \A v \in Writer : v # w => put'[v] = put[v]
      /\ put'[w] = IF dups = {} THEN IdlePut
                   ELSE [p EXCEPT !.pc = "marking", !.dups = dups]
      /\ BusyPutOK(p)
    BY <1>3 DEF Committed
<1>5. \A c \in ChunkId : chunks[c] # None => chunks'[c] # None /\ chunks'[c].loc = chunks[c].loc
    BY <1>3 DEF Committed
<1>6. \A i \in DOMAIN p.ids \ dups : chunks'[p.ids[i]] # None /\ chunks'[p.ids[i]].loc = p.at[i]
    BY <1>3 DEF Committed
<1>7. compact'.moved = {}
    BY <1>4 DEF TypeInv, CompactInv, Compacting
<1>8. ASSUME NEW l \in Place, Has(files', l), ~At(files', l).deleted
      PROVE  Accounted(l)'
  <2>0. Has(files, l) /\ ~At(files, l).deleted /\ At(files', l) = At(files, l)
      BY <1>4, <1>8
  <2>1. Accounted(l) /\ At(files', l) = At(files, l) /\ At(files, l).chunk \in ChunkId
      BY <2>0, PageChunk DEF AccountedInv, Accounted, TypeInv
  <2>2. ~InCompact(l)
      BY DEF InCompact, Relocating, Compacting
  <2>3. Recorded(l) => Recorded(l)'
      BY <1>5, <2>1 DEF Recorded
  <2>4. ASSUME InPut(l) PROVE Accounted(l)'
    <3>0. PICK v \in Writer : \E i \in Pending(v) : put[v].at[i] = l
        BY <2>4 DEF InPut
    <3>1. PICK i \in Pending(v) : put[v].at[i] = l
        BY <3>0
    <3>2. CASE v # w
      <4>1. put'[v] = put[v] /\ Pending(v)' = Pending(v)
          BY <1>4, <3>2 DEF Pending
      <4> QED
          BY <3>1, <4>1 DEF InPut, Accounted
    <3>3. CASE v = w /\ i \in dups
      <4>1. put'[w] = [p EXCEPT !.pc = "marking", !.dups = dups]
          BY <1>4, <3>3
      <4>0. p = [pc |-> p.pc, key |-> p.key, blob |-> p.blob, ids |-> p.ids, at |-> p.at,
                 dups |-> p.dups]
          BY <1>4, BusyMeans
      <4>2. put'[w].pc = "marking" /\ put'[w].dups = dups /\ put'[w].at = p.at
          BY <4>0, <4>1
      <4>3. i \in Pending(w)'
          BY <3>3, <4>2 DEF Pending
      <4> QED
          BY <1>1, <3>1, <3>3, <4>2, <4>3 DEF InPut, Accounted
    <3>4. CASE v = w /\ i \notin dups
      <4>1. i \in DOMAIN p.ids
          BY <1>1, <1>4, <3>1, <3>4 DEF Pending
      <4>2. p.ids[i] \in ChunkId /\ Whole(files, p.ids[i], l, Sealed(l))
          BY <1>1, <3>1, <3>4, PendingPlace DEF PendingInv, PendingOK, TypeInv
      <4>3. At(files, l).chunk = p.ids[i]
          BY <4>2, WholeFirst DEF IsCopy
      <4>4. Recorded(l)'
          BY <1>1, <1>6, <2>1, <3>1, <3>4, <4>1, <4>3 DEF Recorded
      <4> QED
          BY <4>4 DEF Accounted
    <3> QED
        BY <3>2, <3>3, <3>4
  <2> QED
      BY <2>1, <2>2, <2>3, <2>4 DEF Accounted
<1> QED
    BY <1>7, <1>8 DEF AccountedInv, Accounted

LEMMA AccountedMarkDuplicate ==
    ASSUME CopiesInv, AccountedInv, ~Compacting, NEW w \in Writer, MarkDuplicate(w)
    PROVE  AccountedInv'
<1> USE DEF CopiesInv
<1>1. PICK i \in Pending(w) :
          /\ SetDeleted(put[w].at[i])
          /\ \A v \in Writer : \A j \in Pending(v) :
                ~(v = w /\ j = i) => j \in Pending(v)' /\ put'[v].at = put[v].at
    BY CopiesMarkDuplicate
<1>2. PICK m \in Loc : m = put[w].at[i] /\ m \in Place /\ HasPage(m)
    BY PendingPlace DEF TypeInv
<1>3. /\ \A l \in Place : Has(files', l) <=> Has(files, l)
      /\ \A l \in Place : Has(files, l) =>
            At(files', l) = IF l = m THEN [At(files, m) EXCEPT !.deleted = TRUE]
                            ELSE At(files, l)
    BY <1>1, <1>2, FlagIs DEF TypeInv
<1>4. UNCHANGED <<chunks, compact>>
    BY DEF MarkDuplicate, ixVars
<1>5. compact'.moved = {}
    BY <1>4 DEF TypeInv, CompactInv, Compacting
<1>6. At(files', m).deleted
  <2>1. Has(files, m) /\ At(files, m) \in Page
      BY <1>2, SomePage, HasPageIs DEF TypeInv
  <2>2. At(files', m) = [At(files, m) EXCEPT !.deleted = TRUE]
      BY <1>2, <1>3, <2>1
  <2> QED
      BY <2>1, <2>2 DEF Page
<1>7. ASSUME NEW l \in Place, Has(files', l), ~At(files', l).deleted
      PROVE  Accounted(l)'
  <2>1. l # m /\ Has(files, l) /\ At(files', l) = At(files, l)
      BY <1>3, <1>6, <1>7
  <2>2. Accounted(l) /\ At(files, l).chunk \in ChunkId
      BY <1>7, <2>1, PageChunk DEF AccountedInv, Accounted, TypeInv
  <2>3. ~InCompact(l)
      BY DEF InCompact, Relocating, Compacting
  <2>4. Recorded(l) => Recorded(l)'
      BY <1>4, <2>1 DEF Recorded
  <2>5. ASSUME InPut(l) PROVE InPut(l)'
    <3>0. PICK v \in Writer : \E j \in Pending(v) : put[v].at[j] = l
        BY <2>5 DEF InPut
    <3>1. PICK j \in Pending(v) : put[v].at[j] = l
        BY <3>0
    <3>2. ~(v = w /\ j = i)
        BY <1>2, <2>1, <3>1
    <3> QED
        BY <1>1, <3>1, <3>2 DEF InPut
  <2> QED
      BY <2>2, <2>3, <2>4, <2>5 DEF Accounted
<1> QED
    BY <1>5, <1>7 DEF AccountedInv, Accounted

-----------------------------------------------------------------------------
(* Why every unflagged page is there: the steps of a Compact                *)

\* A record goes only with its own page, which is flagged next.
LEMMA AccountedReapPage ==
    ASSUME CopiesInv, QueueInv, AccountedInv, CompactInv', ReapPage
    PROVE  AccountedInv'
<1> USE DEF CopiesInv
<1>1. PICK l \in compact.queue, c \in ChunkId :
              /\ l = FirstOf(compact.queue) /\ l \in Place /\ HasPage(l)
              /\ c = At(files, l).chunk /\ compact.pc = "reap"
              /\ compact' = [compact EXCEPT !.pc = "mark", !.freed = @ + 1]
              /\ chunks' = [chunks EXCEPT ![c] = IF @ # None /\ @.loc = l THEN None ELSE @]
              /\ UNCHANGED <<files, put>>
    BY ReapIs
<1>2. /\ compact'.pc = "mark" /\ compact'.queue = compact.queue
      /\ compact'.moved = {}
  <2>1. compact'.pc = "mark" /\ compact'.queue = compact.queue
      BY <1>1, CompactIs DEF TypeInv
  <2> QED
      BY <2>1 DEF CompactInv
<1>3. \A x \in ChunkId :
          chunks'[x] = IF x = c /\ chunks[x] # None /\ chunks[x].loc = l THEN None ELSE chunks[x]
    BY <1>1 DEF TypeInv, IndexTypeOK
<1>4. ASSUME NEW m \in Place, Has(files', m), ~At(files', m).deleted
      PROVE  Accounted(m)'
  <2>1. Has(files, m) /\ ~At(files, m).deleted /\ At(files', m) = At(files, m)
      BY <1>1, <1>4
  <2>2. Accounted(m) /\ At(files, m).chunk \in ChunkId
      BY <2>1, PageChunk DEF AccountedInv, Accounted, TypeInv
  <2>3. ~InCompact(m)
      BY <1>1 DEF InCompact, Relocating
  <2>4. CASE m = l
      BY <1>1, <1>2, <2>4 DEF Accounted, InCompact
  <2>5. CASE m # l
    <3>1. Recorded(m) => Recorded(m)'
        BY <1>3, <2>1, <2>2, <2>5 DEF Recorded
    <3>2. InPut(m) => InPut(m)'
        BY <1>1 DEF InPut, Pending
    <3> QED
        BY <2>2, <2>3, <3>1, <3>2 DEF Accounted
  <2> QED
      BY <2>4, <2>5
<1> QED
    BY <1>2, <1>4 DEF AccountedInv, Accounted

LEMMA AccountedMarkPage ==
    ASSUME CopiesInv, QueueInv, AccountedInv, CompactInv', MarkPage
    PROVE  AccountedInv'
<1> USE DEF CopiesInv
<1>1. PICK m : m = FirstOf(compact.queue)
    OBVIOUS
<1>2. compact.pc = "mark" /\ SetDeleted(m) /\ compact' = NextInQueue /\ UNCHANGED <<chunks, put>>
    BY <1>1 DEF MarkPage, Step, OnlyCompacts, ixVars
<1>3. compact.queue # {}
    BY <1>2 DEF TypeInv, CompactInv
<1>4. m \in Place /\ m \in Loc /\ HasPage(m) /\ Has(files, m) /\ At(files, m) \in Page
    BY <1>1, <1>3, QueuedIs, HasPageIs DEF TypeInv
<1>5. /\ \A l \in Place : Has(files', l) <=> Has(files, l)
      /\ \A l \in Place : Has(files, l) =>
            At(files', l) = IF l = m THEN [At(files, m) EXCEPT !.deleted = TRUE]
                            ELSE At(files, l)
    BY <1>2, <1>4, FlagIs DEF TypeInv
<1>6. compact'.moved = {}
    BY <1>2, NothingMovedAfter, PhaseOneMoves DEF TypeInv
<1>7. At(files', m).deleted
    BY <1>4, <1>5 DEF Page
<1>8. ASSUME NEW l \in Place, Has(files', l), ~At(files', l).deleted
      PROVE  Accounted(l)'
  <2>1. l # m /\ Has(files, l) /\ At(files', l) = At(files, l)
      BY <1>5, <1>7, <1>8
  <2>2. Accounted(l)
      BY <1>8, <2>1 DEF AccountedInv, Accounted
  <2>3. ~InCompact(l)
      BY <1>1, <1>2, <2>1 DEF InCompact, Relocating
  <2>4. Recorded(l) => Recorded(l)'
      BY <1>2, <2>1 DEF Recorded
  <2>5. InPut(l) => InPut(l)'
      BY <1>2 DEF InPut, Pending
  <2> QED
      BY <2>2, <2>3, <2>4, <2>5 DEF Accounted
<1> QED
    BY <1>6, <1>8 DEF AccountedInv, Accounted

\* The copies and their originals are accounted for until the segment is removed.
LEMMA AccountedRewriteSegment ==
    ASSUME CopiesInv, AccountedInv, RewriteSegment
    PROVE  AccountedInv'
<1> USE DEF CopiesInv
<1>1. compact.pc = "rewrite" /\ Rewriting /\ UNCHANGED <<chunks, put>>
    BY DEF RewriteSegment, Rewriting, ixVars
<1>2. compact'.pc = "relocate" /\ compact'.todo = compact.todo
  <2>1. PICK made : compact' = [compact EXCEPT !.pc = "relocate", !.moved = made]
      BY DEF RewriteSegment, Step
  <2> QED
      BY <2>1, CompactIs DEF TypeInv
<1>3. /\ Keeps(files, files') /\ DOMAIN files' = DOMAIN files \cup {nextSeq}
      /\ files'[nextSeq] = [pages |-> Compacted(files[Min(compact.todo)].pages), wal |-> << >>]
      /\ compact'.moved = {<<nextSeq, n>> : n \in DOMAIN Compacted(files[Min(compact.todo)].pages)}
    BY RewriteIs
<1>4. PICK origin :
              /\ \A l \in compact'.moved : RewrittenFrom(origin[l], l)
              /\ \A l, m \in compact'.moved : origin[l] = origin[m] => l = m
    BY RewrittenIs
<1>5. \A w \in Writer : Pending(w) = {}
    BY <1>1, RewritingAlone
<1>6. ASSUME NEW m \in Place, Has(files, m), ~At(files, m).deleted
      PROVE  Recorded(m)
  <2>1. Accounted(m)
      BY <1>6 DEF AccountedInv, Accounted
  <2>2. ~InPut(m) /\ ~InCompact(m)
      BY <1>1, <1>5 DEF InPut, InCompact, Relocating
  <2> QED
      BY <2>1, <2>2 DEF Accounted
<1>7. ASSUME NEW l \in compact'.moved
      PROVE  /\ chunks'[At(files', l).chunk] # None
             /\ chunks'[At(files', l).chunk].loc = origin[l]
             /\ origin[l][1] = Min(compact'.todo)
  <2>1. RewrittenFrom(origin[l], l)
      BY <1>4
  <2>2. Recorded(origin[l])
      BY <1>6, <2>1 DEF RewrittenFrom
  <2> QED
      BY <1>1, <1>2, <2>1, <2>2 DEF RewrittenFrom, Recorded
<1>8. ASSUME NEW l \in compact'.moved, NEW m \in compact'.moved,
             At(files', m).chunk = At(files', l).chunk
      PROVE  m = l
  <2>1. origin[m] = origin[l]
      BY <1>7, <1>8
  <2> QED
      BY <1>4, <2>1
<1>9. ASSUME NEW l \in Place, Has(files', l), ~At(files', l).deleted
      PROVE  Accounted(l)'
  <2>1. CASE l[1] # nextSeq
    <3>1. Has(files, l)
      <4>1. l[1] \in DOMAIN files
          BY <1>3, <1>9, <2>1 DEF Has
      <4>2. files'[l[1]] = files[l[1]]
          BY <4>1, RewriteIs
      <4> QED
          BY <1>9, <4>1, <4>2 DEF Has
    <3>2. At(files', l) = At(files, l)
        BY <1>3, <3>1 DEF Keeps
    <3>3. Recorded(l)
        BY <1>6, <1>9, <3>1, <3>2
    <3> QED
        BY <1>1, <3>2, <3>3 DEF Recorded, Accounted
  <2>2. CASE l[1] = nextSeq
    <3>1. l[2] \in DOMAIN Compacted(files[Min(compact.todo)].pages) /\ l = <<l[1], l[2]>>
        BY <1>3, <1>9, <2>2 DEF Has, Place
    <3>2. l \in compact'.moved
        BY <1>3, <2>2, <3>1
    <3> QED
        BY <1>2, <3>2 DEF Accounted, InCompact, Relocating
  <2> QED
      BY <2>1, <2>2
<1> QED
    BY <1>7, <1>8, <1>9 DEF AccountedInv, Accounted

LEMMA AccountedFetchRecord ==
    ASSUME TypeInv, AccountedInv, FetchRecord
    PROVE  AccountedInv'
<1>1. PICK l : l = FirstOf(compact.moved)
    OBVIOUS
<1>2. PICK c : c = At(files, l).chunk
    OBVIOUS
<1>3. /\ compact.pc = "relocate" /\ compact.moved # {}
      /\ compact' = IF chunks[c] = None THEN IdleCompact
                    ELSE [compact EXCEPT !.pc = "store", !.held = chunks[c].rc, !.nonce = nonce[c]]
      /\ UNCHANGED <<files, chunks, put>>
    BY <1>1, <1>2, HasPageIs DEF FetchRecord, Step, OnlyCompacts, ixVars
<1>4. l \in compact.moved
    BY <1>1, <1>3, MovedPage DEF TypeInv
<1>5. chunks[c] # None
    BY <1>2, <1>4 DEF AccountedInv
<1>6. compact'.pc = "store" /\ compact'.moved = compact.moved /\ compact'.todo = compact.todo
    BY <1>3, <1>5, CompactIs DEF TypeInv
<1>7. ASSUME NEW m \in Place, Has(files', m), ~At(files', m).deleted
      PROVE  Accounted(m)'
  <2>1. Accounted(m)
      BY <1>3, <1>7 DEF AccountedInv, Accounted
  <2>2. Recorded(m) => Recorded(m)'
      BY <1>3 DEF Recorded
  <2>3. InPut(m) => InPut(m)'
      BY <1>3 DEF InPut, Pending
  <2>4. InCompact(m) => InCompact(m)'
      BY <1>3, <1>6 DEF InCompact, Relocating
  <2> QED
      BY <2>1, <2>2, <2>3, <2>4 DEF Accounted
<1>8. \A m \in compact'.moved :
          /\ chunks'[At(files', m).chunk] # None
          /\ chunks'[At(files', m).chunk].loc[1] = Min(compact'.todo)
          /\ \A x \in compact'.moved : At(files', x).chunk = At(files', m).chunk => x = m
    BY <1>3, <1>6 DEF AccountedInv
<1> QED
    BY <1>7, <1>8 DEF AccountedInv, Accounted

\* The record leaves the original for the copy.
LEMMA AccountedStoreRecord ==
    ASSUME TypeInv, MovedInv, AccountedInv, StoreRecord
    PROVE  AccountedInv'
<1>1. PICK l \in compact.moved, c \in ChunkId :
              /\ l \in Place /\ c = At(files, l).chunk /\ chunks[c] # None /\ Relocating
              /\ chunks'[c] = [ns |-> NS, rc |-> compact.held, loc |-> l]
              /\ chunks' = [chunks EXCEPT ![c] = [ns |-> NS, rc |-> compact.held, loc |-> l]]
              /\ l \in Loc
              /\ \A x \in ChunkId : x # c => chunks'[x] = chunks[x]
              /\ UNCHANGED <<files, put>>
              /\ compact'.pc = "relocate" /\ compact'.todo = compact.todo
              /\ compact'.moved = compact.moved \ {l}
    BY StoreIs
<1>2. chunks'[c] # None /\ chunks'[c].loc = l
  <2>1. [ns |-> NS, rc |-> compact.held, loc |-> l] \in ChunkEntry
      BY <1>1, CompactIs, NSAssumption DEF ChunkEntry, TypeInv
  <2> QED
      BY <1>1, <2>1, NoneAssumption
<1>3. chunks[c].loc[1] = Min(compact.todo)
    BY <1>1 DEF AccountedInv
<1>4. ASSUME NEW m \in Place, Has(files', m), ~At(files', m).deleted
      PROVE  Accounted(m)'
  <2>1. Accounted(m) /\ At(files', m) = At(files, m) /\ At(files, m).chunk \in ChunkId
      BY <1>1, <1>4, PageChunk DEF AccountedInv, Accounted, TypeInv
  <2>2. Recorded(m) => Accounted(m)'
    <3>1. CASE At(files, m).chunk = c
      <4>1. Recorded(m) => m[1] = Min(compact.todo)
          BY <1>3, <3>1 DEF Recorded
      <4> QED
          BY <1>1, <4>1 DEF Accounted, InCompact, Relocating
    <3>2. CASE At(files, m).chunk # c
        BY <1>1, <2>1, <3>2 DEF Recorded, Accounted
    <3> QED
        BY <3>1, <3>2
  <2>3. InPut(m) => InPut(m)'
      BY <1>1 DEF InPut, Pending
  <2>4. InCompact(m) => Accounted(m)'
    <3>1. CASE m = l
        BY <1>1, <1>2, <2>1, <3>1 DEF Recorded, Accounted
    <3>2. CASE m # l
        BY <1>1, <3>2 DEF InCompact, Relocating, Accounted
    <3> QED
        BY <3>1, <3>2
  <2> QED
      BY <2>1, <2>2, <2>3, <2>4 DEF Accounted
<1>5. ASSUME NEW m \in compact'.moved
      PROVE  /\ chunks'[At(files', m).chunk] # None
             /\ chunks'[At(files', m).chunk].loc[1] = Min(compact'.todo)
             /\ \A x \in compact'.moved : At(files', x).chunk = At(files', m).chunk => x = m
  <2>1. m \in compact.moved /\ m # l /\ At(files', m) = At(files, m)
      BY <1>1
  <2>2. m \in Place /\ Has(files, m)
      BY <2>1, CompactIs, HasPageIs DEF TypeInv, CompactInv, Place
  <2>3. At(files, m).chunk # c /\ At(files, m).chunk \in ChunkId
      BY <1>1, <2>1, <2>2, PageChunk DEF AccountedInv, TypeInv
  <2> QED
      BY <1>1, <2>1, <2>3 DEF AccountedInv
<1> QED
    BY <1>4, <1>5 DEF AccountedInv, Accounted

LEMMA AccountedDeleteSegmentFile ==
    ASSUME TypeInv, AccountedInv, CompactInv', DeleteSegmentFile
    PROVE  AccountedInv'
<1>1. PICK s : s = Min(compact.todo)
    OBVIOUS
<1>2. /\ compact.moved = {} /\ compact.pc = "relocate"
      /\ DOMAIN files' = DOMAIN files \ {s}
      /\ \A t \in DOMAIN files' : files'[t] = files[t]
      /\ UNCHANGED <<chunks, put>>
    BY <1>1, DeletedIs DEF DeleteSegmentFile, ixVars
<1>3. compact'.moved = {}
  <2>1. CASE compact.todo = {Min(compact.todo)}
    <3>1. compact' = IdleCompact
        BY <2>1, DeletedIs DEF NextSegment
    <3> QED
        BY <3>1 DEF IdleCompact
  <2>2. CASE compact.todo # {Min(compact.todo)}
    <3>1. compact' = [compact EXCEPT !.pc = "rewrite", !.todo = @ \ {Min(@)}]
        BY <2>2, DeletedIs DEF NextSegment
    <3> QED
        BY <1>2, <3>1, CompactIs DEF TypeInv
  <2> QED
      BY <2>1, <2>2
<1>4. ASSUME NEW m \in Place, Has(files', m), ~At(files', m).deleted
      PROVE  Accounted(m)'
  <2>1. m[1] # s /\ Has(files, m) /\ At(files', m) = At(files, m)
      BY <1>2, <1>4 DEF Has, At
  <2>2. Accounted(m)
      BY <1>4, <2>1 DEF AccountedInv, Accounted
  <2>3. ~InCompact(m)
      BY <1>1, <1>2, <2>1 DEF InCompact, Relocating
  <2>4. Recorded(m) => Recorded(m)'
      BY <1>2, <2>1 DEF Recorded
  <2>5. InPut(m) => InPut(m)'
      BY <1>2 DEF InPut, Pending
  <2> QED
      BY <2>2, <2>3, <2>4, <2>5 DEF Accounted
<1> QED
    BY <1>3, <1>4 DEF AccountedInv, Accounted

-----------------------------------------------------------------------------
(* The invariant holds                                                     *)

LEMMA CompactingInit ==
    ASSUME StoreInit
    PROVE  CompactingInv
<1>1. TypeInv
    BY StoreTypeInit
<1>2. IndexInv /\ \A c \in ChunkId : chunks[c] = None
    BY InvInit DEF StoreInit, IndexInit
<1>3. \A l : ~Has(files, l)
    BY DEF StoreInit, Has
<1>4. compact = IdleCompact /\ \A w \in Writer : put[w] = IdlePut
    BY DEF StoreInit
<1>5. RecordsInv
    BY <1>2 DEF RecordsInv
<1>6. PendingInv
    BY <1>4, IdlePending DEF PendingInv
<1>7. compact.pc = "idle" /\ compact.moved = {} /\ compact.queue = {}
    BY <1>4 DEF IdleCompact
<1>8. QueueInv /\ MovedInv
    BY <1>7 DEF QueueInv, MovedInv, Compacting, Rewriting, Relocating
<1>9. AccountedInv
    BY <1>3, <1>7 DEF AccountedInv
<1>10. LifeHeld
    BY DEF StoreInit, LifeHeld
<1> QED
    BY <1>1, <1>2, <1>5, <1>6, <1>8, <1>9, <1>10 DEF CompactingInv, CopiesInv

\* The steps of a Compact, what they leave of copies, queue and segments.
LEMMA CopiesCompact ==
    ASSUME CompactsOnly, CompactingInv, TypeInv', CompactNext
    PROVE  RecordsInv' /\ PendingInv' /\ QueueInv' /\ MovedInv'
<1> USE DEF CompactingInv
<1>1. CompactInv' /\ TypeInv /\ CompactInv /\ RecordsInv
    BY DEF TypeInv, CopiesInv
<1>2. "put" \notin Alongside
    BY DEF CompactsOnly
<1>3. CASE ScanPages \/ ReapPage \/ MarkPage \/ SweepBlobs \/ SweepBlob \/ Reconcile
  <2>1. MovedInv'
      BY <1>1, <1>3, PhaseOneMoves, NothingMovedAfter
  <2>2. CASE ScanPages
    <3>1. UNCHANGED <<files, chunks, short, nonce, space, put>>
        BY <2>2 DEF ScanPages, ixVars, volVars, recVars, lifeVars
    <3> QED
        BY <1>1, <1>2, <2>1, <2>2, <3>1, CompactStill, QueueScanPages
  <2>3. CASE ReapPage
      BY <2>1, <2>3, CompactReapPage
  <2>4. CASE MarkPage
      BY <2>1, <2>4, CompactMarkPage
  <2>5. CASE SweepBlobs \/ SweepBlob \/ Reconcile
      BY <2>1, <2>5, CompactSweep
  <2> QED
      BY <1>3, <2>2, <2>3, <2>4, <2>5
<1>4. CASE BeginRewrite
    BY <1>1, <1>4, CompactBeginRewrite
<1>5. CASE RewriteSegment
    BY <1>1, <1>5, CompactRewriteSegment
<1>6. CASE FetchRecord
    BY <1>1, <1>6, CompactFetchRecord
<1>7. CASE StoreRecord
    BY <1>1, <1>7, CompactStoreRecord
<1>8. CASE DeleteSegmentFile
    BY <1>1, <1>8, CompactDeleteSegmentFile
<1>9. CASE CancelCompact
    BY <1>1, <1>9, CompactCancel
<1> QED
    BY <1>3, <1>4, <1>5, <1>6, <1>7, <1>8, <1>9 DEF CompactNext

LEMMA AccountedCompact ==
    ASSUME CompactingInv, AccountedInv, NothingLeft, TypeInv', CompactNext
    PROVE  AccountedInv'
<1> USE DEF CompactingInv
<1>1. CompactInv' /\ TypeInv /\ CompactInv /\ FilesInv
    BY DEF TypeInv, CopiesInv
<1>2. CASE ScanPages \/ SweepBlobs \/ SweepBlob \/ Reconcile
  <2>1. compact'.moved = {}
      BY <1>1, <1>2, PhaseOneMoves, NothingMovedAfter
  <2>2. compact.pc \in {"idle", "sweep", "purge"}
      BY <1>2 DEF ScanPages, SweepBlobs, SweepBlob, Reconcile
  <2>3. UNCHANGED <<files, chunks, put>>
      BY <1>2 DEF ScanPages, SweepBlobs, SweepBlob, Reconcile, PurgeScan, PurgeBlob,
                  ReconcileDeadStats, OnlyCompacts, ixVars, volVars
  <2>4. compact.pc \notin {"mark", "relocate", "store"}
      BY <2>2
  <2> QED
      BY <1>1, <2>1, <2>3, <2>4, AccountedQuiet
<1>3. CASE BeginRewrite
  <2>1. /\ compact.pc = "wait"
        /\ UNCHANGED <<files, chunks, put>>
        /\ \/ compact' = IdleCompact
           \/ \E todo : compact' = [compact EXCEPT !.pc = "rewrite", !.todo = todo]
      BY <1>3 DEF BeginRewrite, Step, OnlyCompacts, ixVars
  <2>2. compact.moved = {}
      BY <1>1, <2>1 DEF CompactInv
  <2>3. compact'.moved = {}
    <3>1. CASE compact' = IdleCompact
        BY <3>1 DEF IdleCompact
    <3>2. CASE compact' # IdleCompact
      <4>1. PICK todo : compact' = [compact EXCEPT !.pc = "rewrite", !.todo = todo]
          BY <2>1, <3>2
      <4> QED
          BY <1>1, <2>2, <4>1, CompactIs
    <3> QED
        BY <3>1, <3>2
  <2>4. compact.pc \notin {"mark", "relocate", "store"}
      BY <2>1
  <2> QED
      BY <1>1, <2>1, <2>3, <2>4, AccountedQuiet
<1>4. CASE ReapPage
    BY <1>1, <1>4, AccountedReapPage
<1>5. CASE MarkPage
    BY <1>1, <1>5, AccountedMarkPage
<1>6. CASE RewriteSegment
    BY <1>6, AccountedRewriteSegment
<1>7. CASE FetchRecord
    BY <1>1, <1>7, AccountedFetchRecord
<1>8. CASE StoreRecord
    BY <1>1, <1>8, AccountedStoreRecord
<1>9. CASE DeleteSegmentFile
    BY <1>1, <1>9, AccountedDeleteSegmentFile
<1>10. ~CancelCompact
    BY DEF CancelCompact, NothingLeft
<1> QED
    BY <1>2, <1>3, <1>4, <1>5, <1>6, <1>7, <1>8, <1>9, <1>10 DEF CompactNext

LEMMA AccountedPut ==
    ASSUME CompactingInv, AccountedInv, OnePage, NothingLeft, ~Compacting, PutNext
    PROVE  AccountedInv'
<1>1. CopiesInv /\ TypeInv
    BY DEF CompactingInv, CopiesInv
<1>2. ASSUME NEW w \in Writer PROVE ~CancelPut(w)
    BY DEF CancelPut, NothingLeft
<1> QED
    BY <1>1, <1>2, AccountedWriteBlob, AccountedLogBlob, AccountedCheckQuota,
       AccountedCommitBlob, AccountedMarkDuplicate DEF PutNext

LEMMA CompactingStep ==
    ASSUME OneManifest, NoSharedContent, CompactsOnly, CompactingInv, [StoreNext]_vars
    PROVE  CompactingInv'
<1>1. CopiesInv /\ TypeInv /\ RecordsInv /\ QueueInv /\ MovedInv /\ IndexInv /\ LifeHeld
      /\ FilesInv /\ CompactInv /\ (OnePage /\ NothingLeft => AccountedInv)
    BY DEF CompactingInv, CopiesInv, TypeInv
<1>2. TypeInv' /\ CompactInv' /\ IndexTypeOK'
  <2>1. TypeInv'
      BY <1>1, StoreTypeStep
  <2> QED
      BY <2>1 DEF TypeInv
<1>3. RunningNext
    BY <1>1, RunsOnSteps DEF CompactsOnly
<1>4. LifeHeld'
    BY <1>1, <1>3, LifeStep
<1>5. CASE PutNext
  <2>1. ~Compacting /\ UNCHANGED compact
      BY <1>1, <1>5, PutsWithoutCompact DEF CompactsOnly
  <2>2. ~Compacting'
      BY <2>1 DEF Compacting
  <2>3. RecordsInv' /\ PendingInv'
      BY <1>1, <1>5, CopiesPut
  <2>4. QueueInv' /\ MovedInv'
      BY <1>2, <2>2, QueueIdleAfter
  <2>5. IndexInv'
      BY <1>1, <1>2, <1>5, IndexPut
  <2>6. OnePage /\ NothingLeft => AccountedInv'
      BY <1>1, <1>5, <2>1, AccountedPut
  <2>7. (OnePage /\ NothingLeft => AccountedInv)'
      BY <2>6 DEF OnePage, NothingLeft, NoLimits
  <2> QED
      BY <1>2, <1>4, <2>3, <2>4, <2>5, <2>7 DEF CompactingInv, CopiesInv
<1>6. CASE CompactNext
  <2>1. RecordsInv' /\ PendingInv' /\ QueueInv' /\ MovedInv'
      BY <1>2, <1>6, CopiesCompact
  <2>2. IndexInv'
      BY <1>1, <1>2, <1>6, IndexCompact
  <2>3. OnePage /\ NothingLeft => AccountedInv'
      BY <1>1, <1>2, <1>6, AccountedCompact
  <2>4. (OnePage /\ NothingLeft => AccountedInv)'
      BY <2>3 DEF OnePage, NothingLeft, NoLimits
  <2> QED
      BY <1>2, <1>4, <2>1, <2>2, <2>4 DEF CompactingInv, CopiesInv
<1>7. CASE (\E k \in Key : Delete(k)) \/ (\E old, new \in Key : Rename(old, new))
  <2>1. RecordsInv' /\ PendingInv' /\ QueueInv' /\ MovedInv'
      BY <1>1, <1>7, CompactDeleteRename
  <2>2. /\ IndexInv' /\ UNCHANGED <<files, put, compact>>
        /\ \A c \in ChunkId : chunks[c] # None =>
              chunks'[c] # None /\ chunks'[c].loc = chunks[c].loc
      BY <1>1, <1>7, DeleteRenameIs
  <2>3. \A w \in Writer : \A i \in Pending(w) : i \in Pending(w)' /\ put'[w].at = put[w].at
      BY <2>2 DEF Pending
  <2>4. OnePage /\ NothingLeft => AccountedInv'
      BY <1>1, <2>2, <2>3, AccountedKept
  <2>5. (OnePage /\ NothingLeft => AccountedInv)'
      BY <2>4 DEF OnePage, NothingLeft, NoLimits
  <2> QED
      BY <1>2, <1>4, <2>1, <2>2, <2>5 DEF CompactingInv, CopiesInv
<1>8. CASE GetNext \/ UNCHANGED vars
  <2>1. UNCHANGED <<files, chunks, short, nonce, space, put, compact, refs, blobs>>
      BY <1>8, GetChangesNothing DEF vars, ixVars, volVars, recVars, lifeVars
  <2>2. RecordsInv' /\ PendingInv' /\ QueueInv' /\ MovedInv'
      BY <1>1, <2>1, CompactNothing
  <2>3. IndexInv'
      BY <1>1, <1>2, <2>1, IndexNothing
  <2>4. \A w \in Writer : \A i \in Pending(w) : i \in Pending(w)' /\ put'[w].at = put[w].at
      BY <2>1 DEF Pending
  <2>5. OnePage /\ NothingLeft => AccountedInv'
      BY <1>1, <2>1, <2>4, AccountedKept
  <2>6. (OnePage /\ NothingLeft => AccountedInv)'
      BY <2>5 DEF OnePage, NothingLeft, NoLimits
  <2> QED
      BY <1>2, <1>4, <2>2, <2>3, <2>6 DEF CompactingInv, CopiesInv
<1> QED
    BY <1>3, <1>5, <1>6, <1>7, <1>8 DEF RunningNext

LEMMA CompactingInvHolds ==
    ASSUME OneManifest, NoSharedContent, CompactsOnly
    PROVE  StoreSpec => []CompactingInv
<1>1. StoreInit => CompactingInv
    BY CompactingInit
<1>2. CompactingInv /\ [StoreNext]_vars => CompactingInv'
    BY CompactingStep
<1> QED
    BY <1>1, <1>2, PTL DEF StoreSpec

-----------------------------------------------------------------------------
(* What it says to callers                                                 *)

\* A chunk with a true record can be read where the record says.
LEMMA RecordReadable ==
    ASSUME NEW c \in ChunkId, RecordOK(c)
    PROVE  ChunkReadable(c, chunks[c].loc, nonce[c])
<1>1. PageCount(c) = Pages[c]
    BY DEF RecordOK, PageCount
<1>2. PICK l, n : l = chunks[c].loc /\ n = nonce[c]
    OBVIOUS
<1>3. Whole(files, c, l, n) /\ Keyed(n)
    BY <1>2 DEF RecordOK
<1>4. ASSUME NEW p \in 1..Pages[c]
      PROVE  LET at == <<l[1], l[2] + p - 1>>
             IN  /\ HasPage(at)
                 /\ PageAt(at).chunk = c /\ PageAt(at).part = p
                 /\ ~PageAt(at).deleted
                 /\ PageAt(at).sealed = n
                 /\ Encrypted => n # None /\ n.key = space.created
  <2>1. PICK at : at = PartOf(l, p)
      OBVIOUS
  <2>2. Has(files, at) /\ IsCopy(At(files, at), c, p, n)
      BY <1>3, <2>1 DEF Whole
  <2>3. HasPage(at) /\ PageAt(at) = At(files, at)
      BY <2>2 DEF HasPage, PageAt, Has, At
  <2> QED
      BY <1>3, <2>1, <2>2, <2>3 DEF IsCopy, Keyed, PartOf
<1> QED
    BY <1>1, <1>2, <1>4 DEF ChunkReadable

\* What a Get of a key that is present returns, if records are true.
LEMMA FetchedIs ==
    ASSUME NoSharedContent, IndexInv, RecordsInv, NEW k \in Key
    PROVE  Fetched(k) = IF refs[NS][k] = None THEN None ELSE refs[NS][k].blob
<1>1. CASE refs[NS][k] = None
    BY <1>1 DEF Fetched
<1>2. CASE refs[NS][k] # None
  <2>1. PICK b : b = refs[NS][k].blob
      OBVIOUS
  <2>2. b \in Blob /\ blobs[b] # None /\ ManifestOf(NS, k) = blobs[b].ids
      BY <1>2, <2>1, NSAssumption, ManifestPresent
  <2>3. blobs[b].ids \in Manifests[b]
      BY <2>2 DEF IndexInv
  <2>4. ASSUME NEW i \in DOMAIN blobs[b].ids
        PROVE  /\ chunks[blobs[b].ids[i]] # None
               /\ ChunkReadable(blobs[b].ids[i], chunks[blobs[b].ids[i]].loc,
                                nonce[blobs[b].ids[i]])
    <3>1. PICK c : c = blobs[b].ids[i]
        OBVIOUS
    <3>2. i \in DOMAIN ManifestOf(NS, k) /\ ManifestOf(NS, k)[i] = c
        BY <2>2, <3>1
    <3>3. Owned(chunks, NS, c)
        BY <3>2, NSAssumption, UsedIsOwned
    <3>4. c \in ChunkId
      <4>1. IndexTypeOK
          BY DEF IndexInv
      <4>2. ManifestOf(NS, k) \in Seq(ChunkId)
          BY <4>1, NSAssumption, ManifestType
      <4> QED
          BY <3>2, <4>2
    <3>5. RecordOK(c) /\ chunks[c] # None
        BY <3>3, <3>4 DEF RecordsInv, Owned
    <3> QED
        BY <3>1, <3>4, <3>5, RecordReadable
  <2> QED
      BY <1>2, <2>1, <2>2, <2>3, <2>4 DEF Fetched
<1> QED
    BY <1>1, <1>2

LEMMA CompactingReadable ==
    ASSUME NoSharedContent, CompactingInv
    PROVE  LiveKeysReadable
<1>1. IndexInv /\ RecordsInv
    BY DEF CompactingInv, CopiesInv
<1> SUFFICES ASSUME NEW k \in Key PROVE Fetched(k) # "error"
    BY DEF LiveKeysReadable
<1>2. CASE refs[NS][k] = None
    BY <1>1, <1>2, FetchedIs, ErrorAssumption
<1>3. CASE refs[NS][k] # None
  <2>1. refs[NS][k].blob \in Blob
      BY <1>1, <1>3, NSAssumption, ManifestPresent
  <2> QED
      BY <1>1, <1>3, <2>1, FetchedIs, ErrorAssumption
<1> QED
    BY <1>2, <1>3

\* Without a Put or a Compact in progress nothing else accounts for a page.
LEMMA CompactingAccounts ==
    ASSUME OnePage, NothingLeft, CompactingInv
    PROVE  PagesAccountedFor
<1>1. AccountedInv /\ TypeInv
    BY DEF CompactingInv, CopiesInv
<1> SUFFICES ASSUME ~PutsRunning, ~Compacting, NEW l \in AllPages, ~PageAt(l).deleted
             PROVE  Recorded(l)
    BY DEF PagesAccountedFor, Recorded, PageAt, At
<1>2. l \in Loc /\ HasPage(l)
    BY DEF AllPages
<1>3. l \in Place /\ Has(files, l) /\ ~At(files, l).deleted
    BY <1>2, LocIsPlace DEF HasPage, Has, PageAt, At
<1>4. Recorded(l) \/ InPut(l) \/ InCompact(l)
    BY <1>1, <1>3 DEF AccountedInv
<1>5. ~InPut(l)
  <2>1. \A w \in Writer : put[w] = IdlePut
    <3>1. ASSUME NEW w \in Writer PROVE put[w] = IdlePut
      <4>1. put[w].pc = "idle"
          BY DEF PutsRunning
      <4>2. put[w] = IdlePut \/ BusyPutOK(put[w])
          BY <1>1 DEF TypeInv, PutsInv
      <4> QED
          BY <4>1, <4>2 DEF BusyPutOK, BusyPut
    <3> QED
        BY <3>1
  <2> QED
      BY <2>1, IdlePending DEF InPut
<1>6. ~InCompact(l)
    BY DEF Compacting, InCompact, Relocating
<1> QED
    BY <1>4, <1>5, <1>6

\* Under Puts, Deletes, Renames and Gets in any number and Compacts beside which no Put
\* runs (store.go:1308 reaps, :1317 flags, :1425 relocates, all between steps of the
\* others), a key that is present can be read, in every step of each. If segments are
\* rewritten, a namespace without encryption may have its Puts and Compacts cancelled
\* at any of the points where the code looks at the context, between two relocations
\* too; one with encryption must let them run to their end (CompactsOnly).
THEOREM KeysStayReadable ==
    ASSUME OneManifest, NoSharedContent, CompactsOnly
    PROVE  StoreSpec => []LiveKeysReadable
<1>1. CompactingInv => LiveKeysReadable
    BY CompactingReadable
<1> QED
    BY <1>1, CompactingInvHolds, PTL

\* If besides no chunk spans pages, no Put is refused (a refused one leaves its pages
\* behind, store.go:707) and neither a Put nor a Compact is cancelled, no page is
\* forgotten: Put flags every copy it does not use, Compact every original it copied.
THEOREM PagesStayAccountedFor ==
    ASSUME OneManifest, NoSharedContent, CompactsOnly, OnePage, NothingLeft
    PROVE  StoreSpec => []PagesAccountedFor
<1>1. CompactingInv => PagesAccountedFor
    BY CompactingAccounts
<1> QED
    BY <1>1, CompactingInvHolds, PTL

\* The counts that decide what Compact may reap cover the uses, also while Compact
\* stores back a count that it fetched in an earlier transaction (store.go:1416).
THEOREM StoreChunksAreCounted ==
    ASSUME OneManifest, NoSharedContent, CompactsOnly
    PROVE  StoreSpec => []ChunkRefCountCoversUses
<1>1. CompactingInv => ChunkRefCountCoversUses
    BY UsedIsRecorded DEF CompactingInv, ChunkRefCountCoversUses
<1> QED
    BY <1>1, CompactingInvHolds, PTL

-----------------------------------------------------------------------------
(* The quota                                                               *)

\* Who holds the namespace's quota mutex.
Admitting(w) == put[w].pc \in {"checked", "marking"}

StatsWithin ==
    /\ Quota.maxBlobCount > 0 => stats[NS].blobCount <= Quota.maxBlobCount
    /\ Quota.maxBytes > 0 => stats[NS].bytesStored <= Quota.maxBytes
    /\ Quota.maxBlobSize > 0 =>
          \A k \in Key : refs[NS][k] # None => Size[refs[NS][k].blob] <= Quota.maxBlobSize

\* The counters are those of the references and within the quota; one Put at a time has
\* passed the check and not returned, and what it has checked still holds.
QuotaHeld ==
    /\ QuotaInv /\ StatsWithin
    /\ \A w \in Writer : put[w].pc = "checked" => WithinQuota(put[w].blob)
    /\ \A v, w \in Writer : Admitting(v) /\ Admitting(w) => v = w

\* The numbers that the quota is about.
LEMMA QuotaTypes ==
    ASSUME IndexTypeOK
    PROVE  /\ stats[NS].blobCount \in Int /\ stats[NS].bytesStored \in Int
           /\ Quota.maxBytes \in Nat /\ Quota.maxBlobCount \in Nat /\ Quota.maxBlobSize \in Nat
           /\ \A k \in Key : refs[NS][k] # None =>
                 refs[NS][k].blob \in Blob /\ Size[refs[NS][k].blob] \in Nat
<1>1. stats[NS] \in Stats
    BY NSAssumption DEF IndexTypeOK
<1>2. ASSUME NEW k \in Key, refs[NS][k] # None PROVE refs[NS][k].blob \in Blob
  <2>1. refs[NS][k] \in RefEntry
      BY <1>2, NSAssumption DEF IndexTypeOK
  <2> QED
      BY <2>1 DEF RefEntry
<1> QED
    BY <1>1, <1>2, QuotaAssumption, SizeAssumption DEF Stats

\* A step that admits no Put and adds nothing.
LEMMA QuotaKept ==
    ASSUME PutsInv, QuotaHeld, IndexTypeOK', QuotaInv',
           stats'[NS].blobCount <= stats[NS].blobCount,
           stats'[NS].bytesStored <= stats[NS].bytesStored,
           \A k \in Key : refs'[NS][k] # None =>
               \E j \in Key : refs[NS][j] # None /\ refs'[NS][k].blob = refs[NS][j].blob,
           \A w \in Writer : Admitting(w)' =>
               Admitting(w) /\ (put'[w].pc = "checked" =>
                                   put[w].pc = "checked" /\ put'[w].blob = put[w].blob)
    PROVE  QuotaHeld'
<1>1. IndexTypeOK
    BY DEF QuotaHeld, QuotaInv
<1>2. /\ stats[NS].blobCount \in Int /\ stats[NS].bytesStored \in Int
      /\ Quota.maxBytes \in Nat /\ Quota.maxBlobCount \in Nat /\ Quota.maxBlobSize \in Nat
    BY <1>1, QuotaTypes
<1>3. stats'[NS].blobCount \in Int /\ stats'[NS].bytesStored \in Int
  <2>1. stats'[NS] \in Stats
      BY NSAssumption DEF IndexTypeOK
  <2> QED
      BY <2>1 DEF Stats
<1>4. StatsWithin'
  <2>1. StatsWithin
      BY DEF QuotaHeld
  <2>2. Quota.maxBlobCount > 0 => stats'[NS].blobCount <= Quota.maxBlobCount
      BY <1>2, <1>3, <2>1 DEF StatsWithin
  <2>3. Quota.maxBytes > 0 => stats'[NS].bytesStored <= Quota.maxBytes
      BY <1>2, <1>3, <2>1 DEF StatsWithin
  <2>4. Quota.maxBlobSize > 0 =>
            \A k \in Key : refs'[NS][k] # None => Size[refs'[NS][k].blob] <= Quota.maxBlobSize
      BY <2>1 DEF StatsWithin
  <2> QED
      BY <2>2, <2>3, <2>4 DEF StatsWithin
<1>5. ASSUME NEW w \in Writer, put'[w].pc = "checked"
      PROVE  WithinQuota(put[w].blob)'
  <2>1. put[w].pc = "checked" /\ put'[w].blob = put[w].blob
      BY <1>5 DEF Admitting
  <2>2. WithinQuota(put[w].blob)
      BY <2>1 DEF QuotaHeld
  <2>3. PICK b : b = put[w].blob
      OBVIOUS
  <2>4. Size[b] \in Nat
      BY <2>1, <2>3, BusyIs, BusyMeans, SizeAssumption
  <2>5. WithinQuota(b)
      BY <2>2, <2>3
  <2>6. /\ Quota.maxBlobCount > 0 => stats'[NS].blobCount < Quota.maxBlobCount
        /\ Quota.maxBytes > 0 => stats'[NS].bytesStored + Size[b] <= Quota.maxBytes
        /\ Quota.maxBlobSize > 0 => Size[b] <= Quota.maxBlobSize
      BY <1>2, <1>3, <2>4, <2>5 DEF WithinQuota
  <2>7. put'[w].blob = b
      BY <2>1, <2>3
  <2> QED
      BY <2>6, <2>7 DEF WithinQuota
<1>6. \A v, w \in Writer : Admitting(v)' /\ Admitting(w)' => v = w
    BY DEF QuotaHeld
<1> QED
    BY <1>4, <1>5, <1>6 DEF QuotaHeld

\* What is equal is not more.
LEMMA QuotaStill ==
    ASSUME TypeInv, QuotaHeld, IndexTypeOK', UNCHANGED refs,
           \A n \in Namespace : /\ stats'[n].blobCount = stats[n].blobCount
                                /\ stats'[n].bytesStored = stats[n].bytesStored
                                /\ stats'[n].chunkCount = stats[n].chunkCount,
           \A w \in Writer : Admitting(w)' =>
               Admitting(w) /\ (put'[w].pc = "checked" =>
                                   put[w].pc = "checked" /\ put'[w].blob = put[w].blob)
    PROVE  QuotaHeld'
<1>1. QuotaInv /\ PutsInv /\ IndexTypeOK
    BY DEF QuotaHeld, TypeInv
<1>2. \A n \in Namespace, k \in Key :
          \/ refs'[n][k] = None /\ refs[n][k] = None
          \/ /\ refs'[n][k] # None /\ refs[n][k] # None
             /\ refs'[n][k].blob = refs[n][k].blob
             /\ refs'[n][k].count = refs[n][k].count
    OBVIOUS
<1>3. QuotaInv'
    BY <1>1, <1>2, SameStats
<1>4. stats'[NS].blobCount <= stats[NS].blobCount /\ stats'[NS].bytesStored <= stats[NS].bytesStored
  <2>1. stats[NS].blobCount \in Int /\ stats[NS].bytesStored \in Int
      BY <1>1, QuotaTypes
  <2>2. /\ stats'[NS].blobCount = stats[NS].blobCount
        /\ stats'[NS].bytesStored = stats[NS].bytesStored
      BY NSAssumption
  <2> QED
      BY <2>1, <2>2
<1>5. \A k \in Key : refs'[NS][k] # None =>
          \E j \in Key : refs[NS][j] # None /\ refs'[NS][k].blob = refs[NS][j].blob
    OBVIOUS
<1> QED
    BY <1>1, <1>3, <1>4, <1>5, QuotaKept

\* The steps of a Put around the quota mutex.
LEMMA QuotaPutOutside ==
    ASSUME TypeInv, QuotaHeld, IndexTypeOK', NEW w \in Writer,
           \/ \E k \in Key : \E b \in Content[NS] : WriteBlob(w, k, b)
           \/ LogBlob(w) \/ MarkDuplicate(w)
    PROVE  QuotaHeld'
<1>1. UNCHANGED <<refs, stats>>
    BY DEF WriteBlob, LogBlob, MarkDuplicate, ixVars
<1>2. put' = [v \in Writer |-> put'[v]] /\ put = [v \in Writer |-> put[v]]
      /\ \A v \in Writer : v # w => put'[v] = put[v]
    BY DEF WriteBlob, LogBlob, MarkDuplicate, TypeInv, PutsInv
<1>3. Admitting(w)' => put[w].pc = "marking" /\ put'[w].pc = "marking"
  <2>1. CASE \E k \in Key : \E b \in Content[NS] : WriteBlob(w, k, b)
    <3>1. put'[w].pc = "written"
        BY <1>2, <2>1 DEF WriteBlob
    <3> QED
        BY <3>1 DEF Admitting
  <2>2. CASE LogBlob(w)
    <3>1. put[w].pc = "written" /\ put' = [put EXCEPT ![w].pc = "logged"]
        BY <2>2 DEF LogBlob
    <3>2. put[w] = [pc |-> put[w].pc, key |-> put[w].key, blob |-> put[w].blob,
                    ids |-> put[w].ids, at |-> put[w].at, dups |-> put[w].dups]
        BY <3>1, BusyIs, BusyMeans DEF TypeInv
    <3>3. put'[w].pc = "logged"
        BY <1>2, <3>1, <3>2
    <3> QED
        BY <3>3 DEF Admitting
  <2>3. CASE MarkDuplicate(w)
    <3>1. PICK p : p = put[w]
        OBVIOUS
    <3>2. p.pc = "marking"
          /\ put' = [put EXCEPT ![w] = IF p.dups = {Min(p.dups)} THEN IdlePut
                                       ELSE [p EXCEPT !.dups = @ \ {Min(p.dups)}]]
        BY <2>3, <3>1 DEF MarkDuplicate
    <3>3. p = [pc |-> p.pc, key |-> p.key, blob |-> p.blob, ids |-> p.ids, at |-> p.at,
               dups |-> p.dups]
        BY <3>1, <3>2, BusyIs, BusyMeans DEF TypeInv
    <3>4. put'[w] = IdlePut \/ put'[w] = [p EXCEPT !.dups = @ \ {Min(p.dups)}]
        BY <1>2, <3>2
    <3>5. put'[w].pc \in {"idle", "marking"}
        BY <3>2, <3>3, <3>4 DEF IdlePut
    <3> QED
        BY <3>1, <3>2, <3>5 DEF Admitting
  <2> QED
      BY <2>1, <2>2, <2>3
<1>4. \A v \in Writer : Admitting(v)' =>
          Admitting(v) /\ (put'[v].pc = "checked" =>
                              put[v].pc = "checked" /\ put'[v].blob = put[v].blob)
    BY <1>2, <1>3 DEF Admitting
<1> QED
    BY <1>1, <1>4, QuotaStill

LEMMA QuotaCheckQuota ==
    ASSUME TypeInv, QuotaHeld, IndexTypeOK', NEW w \in Writer, CheckQuota(w)
    PROVE  QuotaHeld'
<1>1. /\ put[w].pc = "logged" /\ (\A v \in Writer : ~Admitting(v)) /\ UNCHANGED <<refs, stats>>
      /\ put' = [put EXCEPT ![w] =
                    IF WithinQuota(put[w].blob) THEN [@ EXCEPT !.pc = "checked"] ELSE IdlePut]
    BY DEF CheckQuota, QuotaMutexFree, Admitting, ixVars
<1>2. \A v \in Writer : v # w => put'[v] = put[v]
    BY <1>1
<1>3. PICK p : p = put[w]
    OBVIOUS
<1>4. p = [pc |-> p.pc, key |-> p.key, blob |-> p.blob, ids |-> p.ids, at |-> p.at,
           dups |-> p.dups]
    BY <1>1, <1>3, BusyIs, BusyMeans DEF TypeInv
<1>5. put'[w] = IF WithinQuota(p.blob) THEN [p EXCEPT !.pc = "checked"] ELSE IdlePut
    BY <1>1, <1>3 DEF TypeInv, PutsInv
<1>6. CASE ~WithinQuota(p.blob)
  <2>1. ~Admitting(w)'
      BY <1>5, <1>6 DEF Admitting, IdlePut
  <2>2. \A v \in Writer : ~Admitting(v)'
      BY <1>1, <1>2, <2>1 DEF Admitting
  <2> QED
      BY <1>1, <2>2, QuotaStill
<1>7. CASE WithinQuota(p.blob)
  <2>1. put'[w].pc = "checked" /\ put'[w].blob = p.blob
      BY <1>4, <1>5, <1>7
  <2>2. QuotaInv'
      BY <1>1, SameStats DEF QuotaHeld
  <2>3. StatsWithin'
      BY <1>1 DEF QuotaHeld, StatsWithin
  <2>4. \A v \in Writer : v # w => ~Admitting(v)' /\ put'[v].pc # "checked"
      BY <1>1, <1>2 DEF Admitting
  <2>5. WithinQuota(p.blob)'
    <3>1. PICK b : b = p.blob
        OBVIOUS
    <3>2. WithinQuota(b)
        BY <1>7, <3>1
    <3>3. WithinQuota(b)'
        BY <1>1, <3>2 DEF WithinQuota
    <3> QED
        BY <3>1, <3>3
  <2>6. \A v \in Writer : put'[v].pc = "checked" => v = w
      BY <2>4
  <2>7. ASSUME NEW v \in Writer, put'[v].pc = "checked" PROVE WithinQuota(put[v].blob)'
    <3>1. v = w
        BY <2>6, <2>7
    <3>2. put'[v].blob = p.blob
        BY <2>1, <3>1
    <3> QED
        BY <2>5, <3>2 DEF WithinQuota
  <2>8. \A u, v \in Writer : Admitting(u)' /\ Admitting(v)' => u = v
      BY <2>4
  <2> QED
      BY <2>2, <2>3, <2>7, <2>8 DEF QuotaHeld
<1> QED
    BY <1>6, <1>7

\* What a commit does to the counters and the references of its namespace.
LEMMA PutCounts ==
    ASSUME IndexTypeOK, NEW k \in Key, NEW b \in Blob, NEW ids \in Seq(ChunkId), NEW at,
           NEW custom \in Meta, CommitPut(NS, k, b, ids, at, custom)
    PROVE  /\ stats'[NS].blobCount <= stats[NS].blobCount + 1
           /\ stats'[NS].bytesStored <= stats[NS].bytesStored + Size[b]
           /\ refs'[NS][k] # None /\ refs'[NS][k].blob = b
           /\ \A j \in Key : j # k => refs'[NS][j] = refs[NS][j]
<1>1. stats' = [stats EXCEPT ![NS] = StatsAfterPut(NS, k, b, ids)] /\ NS \in DOMAIN stats
    BY NSAssumption DEF CommitPut, IndexTypeOK
<1>2. stats'[NS] = StatsAfterPut(NS, k, b, ids)
    BY <1>1
<1>3. /\ stats'[NS].blobCount = stats[NS].blobCount + IF IsOverwrite(NS, k) THEN 0 ELSE 1
      /\ stats'[NS].bytesStored = stats[NS].bytesStored +
             (IF ~IsOverwrite(NS, k) THEN Size[b]
              ELSE IF SameContent(NS, k, b) THEN 0 ELSE Size[b] - Size[refs[NS][k].blob])
    BY <1>2 DEF StatsAfterPut
<1>4. /\ stats[NS].blobCount \in Int /\ stats[NS].bytesStored \in Int /\ Size[b] \in Nat
      /\ IsOverwrite(NS, k) => Size[refs[NS][k].blob] \in Nat
    BY QuotaTypes, SizeAssumption DEF IsOverwrite
<1>5. stats'[NS].blobCount <= stats[NS].blobCount + 1
    BY <1>3, <1>4
<1>6. stats'[NS].bytesStored <= stats[NS].bytesStored + Size[b]
    BY <1>3, <1>4
<1>7. PICK new : new = [blob |-> b, count |-> Len(ids), custom |-> custom]
    OBVIOUS
<1>8. new \in RefEntry /\ new # None /\ new.blob = b
  <2>1. new \in RefEntry /\ new.blob = b
      BY <1>7 DEF RefEntry
  <2> QED
      BY <2>1, NoneAssumption
<1>9. refs' = [refs EXCEPT ![NS][k] = new]
    BY <1>7 DEF CommitPut
<1>10. refs'[NS][k] = new /\ \A j \in Key : j # k => refs'[NS][j] = refs[NS][j]
    BY <1>9, NSAssumption DEF IndexTypeOK
<1> QED
    BY <1>5, <1>6, <1>8, <1>10

LEMMA QuotaCommitBlob ==
    ASSUME TypeInv, QuotaHeld, IndexTypeOK', NEW w \in Writer, CommitBlob(w)
    PROVE  QuotaHeld'
<1>1. PICK p : p = put[w]
    OBVIOUS
<1>2. PICK dups : dups = PutDuplicates(NS, p.key, p.blob, p.ids)
    OBVIOUS
<1>3. /\ p.pc = "checked"
      /\ \E custom \in Meta : CommitPut(NS, p.key, p.blob, p.ids, p.at, custom)
      /\ put' = [put EXCEPT ![w] =
                   IF dups = {} THEN IdlePut ELSE [p EXCEPT !.pc = "marking", !.dups = dups]]
    BY <1>1, <1>2 DEF CommitBlob
<1>4. BusyPutOK(p)
    BY <1>1, <1>3, BusyIs DEF TypeInv
<1>5. /\ p.key \in Key /\ p.blob \in Blob /\ p.ids \in Seq(ChunkId) /\ p.ids \in Manifests[p.blob]
      /\ p = [pc |-> p.pc, key |-> p.key, blob |-> p.blob, ids |-> p.ids, at |-> p.at,
              dups |-> p.dups]
    BY <1>4, BusyMeans
<1>6. PICK k, b : k = p.key /\ b = p.blob
    OBVIOUS
<1>7. PICK custom \in Meta : CommitPut(NS, k, b, p.ids, p.at, custom)
    BY <1>3, <1>6
<1>8. k \in Key /\ b \in Blob /\ IndexTypeOK /\ QuotaInv /\ StatsWithin /\ WithinQuota(b)
    BY <1>1, <1>3, <1>5, <1>6 DEF QuotaHeld, TypeInv
<1>9. QuotaInv'
    BY <1>5, <1>6, <1>7, <1>8, NSAssumption, PutStats
<1>10. /\ stats'[NS].blobCount <= stats[NS].blobCount + 1
       /\ stats'[NS].bytesStored <= stats[NS].bytesStored + Size[b]
       /\ refs'[NS][k] # None /\ refs'[NS][k].blob = b
       /\ \A j \in Key : j # k => refs'[NS][j] = refs[NS][j]
    BY <1>5, <1>7, <1>8, PutCounts
<1>11. /\ stats[NS].blobCount \in Int /\ stats[NS].bytesStored \in Int
       /\ Quota.maxBytes \in Nat /\ Quota.maxBlobCount \in Nat /\ Quota.maxBlobSize \in Nat
       /\ Size[b] \in Nat
    BY <1>8, QuotaTypes, SizeAssumption
<1>12. stats'[NS].blobCount \in Int /\ stats'[NS].bytesStored \in Int
  <2>1. stats'[NS] \in Stats
      BY NSAssumption DEF IndexTypeOK
  <2> QED
      BY <2>1 DEF Stats
<1>13. StatsWithin'
  <2>1. Quota.maxBlobCount > 0 => stats'[NS].blobCount <= Quota.maxBlobCount
      BY <1>8, <1>10, <1>11, <1>12 DEF WithinQuota
  <2>2. Quota.maxBytes > 0 => stats'[NS].bytesStored <= Quota.maxBytes
      BY <1>8, <1>10, <1>11, <1>12 DEF WithinQuota
  <2>3. ASSUME Quota.maxBlobSize > 0, NEW j \in Key, refs'[NS][j] # None
        PROVE  Size[refs'[NS][j].blob] <= Quota.maxBlobSize
    <3>1. CASE j = k
        BY <1>8, <1>10, <2>3, <3>1 DEF WithinQuota
    <3>2. CASE j # k
        BY <1>8, <1>10, <2>3, <3>2 DEF StatsWithin
    <3> QED
        BY <3>1, <3>2
  <2> QED
      BY <2>1, <2>2, <2>3 DEF StatsWithin
<1>14. put'[w].pc \in {"idle", "marking"}
  <2>1. put'[w] = IF dups = {} THEN IdlePut ELSE [p EXCEPT !.pc = "marking", !.dups = dups]
      BY <1>3 DEF TypeInv, PutsInv
  <2> QED
      BY <1>5, <2>1 DEF IdlePut
<1>15. \A v \in Writer : v # w => put'[v] = put[v] /\ ~Admitting(v)
    BY <1>1, <1>3 DEF QuotaHeld, Admitting
<1>16. \A v \in Writer : put'[v].pc # "checked"
    BY <1>14, <1>15 DEF Admitting
<1>17. \A u, v \in Writer : Admitting(u)' /\ Admitting(v)' => u = v
    BY <1>15 DEF Admitting
<1> QED
    BY <1>9, <1>13, <1>16, <1>17 DEF QuotaHeld

\* A deletion, whoever asks for it, takes from the counters.
LEMMA QuotaCommitDelete ==
    ASSUME TypeInv, QuotaHeld, IndexTypeOK', NEW k \in Key, CommitDelete(NS, k), UNCHANGED put
    PROVE  QuotaHeld'
<1>1. IndexTypeOK /\ QuotaInv /\ PutsInv
    BY DEF TypeInv, QuotaHeld
<1>2. QuotaInv'
    BY <1>1, NSAssumption, DeleteStats
<1>3. refs[NS][k] # None /\ stats' = [stats EXCEPT ![NS] = StatsAfterDelete(NS, k)]
      /\ refs' = [refs EXCEPT ![NS][k] = None]
    BY DEF CommitDelete
<1>4. stats'[NS] = StatsAfterDelete(NS, k)
    BY <1>1, <1>3, NSAssumption DEF IndexTypeOK
<1>5. /\ stats'[NS].blobCount = stats[NS].blobCount - 1
      /\ stats'[NS].bytesStored = stats[NS].bytesStored - Size[refs[NS][k].blob]
    BY <1>4 DEF StatsAfterDelete
<1>6. /\ stats[NS].blobCount \in Int /\ stats[NS].bytesStored \in Int
      /\ Size[refs[NS][k].blob] \in Nat
    BY <1>1, <1>3, QuotaTypes
<1>7. stats'[NS].blobCount <= stats[NS].blobCount /\ stats'[NS].bytesStored <= stats[NS].bytesStored
    BY <1>5, <1>6
<1>8. \A j \in Key : refs'[NS][j] = IF j = k THEN None ELSE refs[NS][j]
    BY <1>1, <1>3, NSAssumption DEF IndexTypeOK
<1>9. \A j \in Key : refs'[NS][j] # None =>
          \E i \in Key : refs[NS][i] # None /\ refs'[NS][j].blob = refs[NS][i].blob
    BY <1>8
<1>10. \A v \in Writer : Admitting(v)' =>
          Admitting(v) /\ (put'[v].pc = "checked" =>
                              put[v].pc = "checked" /\ put'[v].blob = put[v].blob)
    BY DEF Admitting
<1> QED
    BY <1>1, <1>2, <1>7, <1>9, <1>10, QuotaKept

LEMMA QuotaRename ==
    ASSUME TypeInv, QuotaHeld, IndexTypeOK', NEW old \in Key, NEW new \in Key, Rename(old, new)
    PROVE  QuotaHeld'
<1>1. IndexTypeOK /\ QuotaInv /\ PutsInv
    BY DEF TypeInv, QuotaHeld
<1>2. CommitRenameRef(NS, old, new) /\ UNCHANGED <<put, stats>> /\ refs[NS][old] # None
      /\ refs' = [refs EXCEPT ![NS] = [@ EXCEPT ![new] = refs[NS][old], ![old] = None]]
    BY DEF Rename, OnlyIndex, CommitRenameRef
<1>3. QuotaInv'
    BY <1>1, <1>2, NSAssumption, RenameStats
<1>4. stats'[NS].blobCount <= stats[NS].blobCount /\ stats'[NS].bytesStored <= stats[NS].bytesStored
  <2>1. stats[NS].blobCount \in Int /\ stats[NS].bytesStored \in Int
      BY <1>1, QuotaTypes
  <2> QED
      BY <1>2, <2>1
<1>5. \A j \in Key : refs'[NS][j] = IF j = old THEN None
                                    ELSE IF j = new THEN refs[NS][old] ELSE refs[NS][j]
    BY <1>1, <1>2, NSAssumption DEF IndexTypeOK
<1>6. \A j \in Key : refs'[NS][j] # None =>
          \E i \in Key : refs[NS][i] # None /\ refs'[NS][j].blob = refs[NS][i].blob
    BY <1>2, <1>5
<1>7. \A v \in Writer : Admitting(v)' =>
          Admitting(v) /\ (put'[v].pc = "checked" =>
                              put[v].pc = "checked" /\ put'[v].blob = put[v].blob)
    BY <1>2 DEF Admitting
<1> QED
    BY <1>1, <1>3, <1>4, <1>6, <1>7, QuotaKept

LEMMA QuotaReconcile ==
    ASSUME TypeInv, QuotaHeld, IndexTypeOK', Reconcile
    PROVE  QuotaHeld'
<1>1. UNCHANGED <<refs, put>> /\ ReconcileDeadStats(NS, compact.freed)
    BY DEF Reconcile, ReconcileDeadStats, OnlyCompacts
<1>2. \A n \in Namespace : /\ stats'[n].blobCount = stats[n].blobCount
                           /\ stats'[n].bytesStored = stats[n].bytesStored
                           /\ stats'[n].chunkCount = stats[n].chunkCount
  <2>1. IndexTypeOK
      BY DEF TypeInv
  <2> QED
      BY <1>1, <2>1 DEF ReconcileDeadStats, IndexTypeOK, Stats
<1> QED
    BY <1>1, <1>2, QuotaStill DEF Admitting

\* The steps that touch neither references nor counters, and Puts only to end them.
LEMMA QuotaElse ==
    ASSUME TypeInv, QuotaHeld, IndexTypeOK', UNCHANGED <<refs, stats>>,
           \A w \in Writer : put'[w] = put[w] \/ put'[w] = IdlePut
    PROVE  QuotaHeld'
<1>1. \A w \in Writer : Admitting(w)' =>
          Admitting(w) /\ (put'[w].pc = "checked" =>
                              put[w].pc = "checked" /\ put'[w].blob = put[w].blob)
  <2>1. IdlePut.pc = "idle"
      BY DEF IdlePut
  <2> QED
      BY <2>1 DEF Admitting
<1> QED
    BY <1>1, QuotaStill

LEMMA QuotaCancelPut ==
    ASSUME TypeInv, QuotaHeld, IndexTypeOK', NEW w \in Writer, CancelPut(w)
    PROVE  QuotaHeld'
<1>1. UNCHANGED <<refs, stats>> /\ put' = [put EXCEPT ![w] = IdlePut]
    BY DEF CancelPut, ixVars
<1>2. \A v \in Writer : put'[v] = put[v] \/ put'[v] = IdlePut
    BY <1>1 DEF TypeInv, PutsInv
<1> QED
    BY <1>1, <1>2, QuotaElse

LEMMA QuotaStep ==
    ASSUME TypeInv, QuotaHeld, [StoreNext]_vars
    PROVE  QuotaHeld'
<1>1. IndexTypeOK'
  <2>1. TypeInv'
      BY StoreTypeStep
  <2> QED
      BY <2>1 DEF TypeInv
<1>2. CASE PutNext
    BY <1>1, <1>2, QuotaPutOutside, QuotaCheckQuota, QuotaCancelPut, QuotaCommitBlob DEF PutNext
<1>3. CASE \E k \in Key : Delete(k)
  <2>1. PICK k \in Key : CommitDelete(NS, k) /\ UNCHANGED put
      BY <1>3 DEF Delete, OnlyIndex
  <2> QED
      BY <1>1, <2>1, QuotaCommitDelete
<1>4. CASE \E old, new \in Key : Rename(old, new)
    BY <1>1, <1>4, QuotaRename
<1>5. CASE DropRef
  <2>1. space.dropping # None /\ LifeInv /\ UNCHANGED put
        /\ \E k \in space.dropping : CommitDelete(NS, k)
      BY <1>5 DEF DropRef, OnlySpace, TypeInv
  <2>2. space.dropping \subseteq Key
      BY <2>1 DEF LifeInv
  <2>3. PICK k \in space.dropping : CommitDelete(NS, k)
      BY <2>1
  <2> QED
      BY <1>1, <2>1, <2>2, <2>3, QuotaCommitDelete
<1>6. CASE Reconcile
    BY <1>1, <1>6, QuotaReconcile
<1>7. CASE GetNext
    BY <1>1, <1>7, GetChangesNothing, QuotaElse DEF ixVars
<1>8. CASE CompactNext /\ ~Reconcile
  <2>1. UNCHANGED <<refs, stats, put>>
      BY <1>8 DEF CompactNext, ScanPages, ReapPage, MarkPage, SweepBlobs, SweepBlob,
                  BeginRewrite, RewriteSegment, FetchRecord, StoreRecord, DeleteSegmentFile,
                  CancelCompact, PurgeScan, PurgeBlob, ReapPhysicalPageIfDead, OnlyCompacts,
                  ixVars
  <2> QED
      BY <1>1, <2>1, QuotaElse
<1>9. CASE Crash \/ Close
  <2>1. UNCHANGED <<refs, stats>> /\ put' = [w \in Writer |-> IdlePut]
      BY <1>9 DEF Crash, Close, Stop
  <2> QED
      BY <1>1, <2>1, QuotaElse
<1>10. CASE \/ Reopen \/ RebuildIndex \/ BeginDrop \/ DropRecord \/ CancelDrop
            \/ CreateNamespace \/ UNCHANGED vars
  <2>1. UNCHANGED <<refs, stats, put>>
      BY <1>10 DEF Reopen, RebuildIndex, BeginDrop, DropRecord, CancelDrop, CreateNamespace,
                   OpenEngine, OnlySpace, ixVars, vars
  <2> QED
      BY <1>1, <2>1, QuotaElse
<1> QED
    BY <1>2, <1>3, <1>4, <1>5, <1>6, <1>7, <1>8, <1>9, <1>10 DEF StoreNext

LEMMA QuotaInit ==
    ASSUME StoreInit
    PROVE  QuotaHeld
<1>1. QuotaInv /\ IndexInit /\ (\A w \in Writer : put[w].pc = "idle") /\ IndexTypeOK
  <2>1. IndexInit /\ \A w \in Writer : put[w].pc = "idle"
      BY DEF StoreInit, IdlePut
  <2> QED
      BY <2>1, StatsInitially, TypeInit
<1>2. /\ stats[NS].blobCount = 0 /\ stats[NS].bytesStored = 0
      /\ \A k \in Key : refs[NS][k] = None
    BY <1>1, NSAssumption DEF IndexInit
<1>3. Quota.maxBytes \in Nat /\ Quota.maxBlobCount \in Nat
    BY <1>1, QuotaTypes
<1>4. StatsWithin
    BY <1>2, <1>3 DEF StatsWithin
<1> QED
    BY <1>1, <1>4 DEF QuotaHeld, Admitting

LEMMA QuotaHeldHolds == StoreSpec => [](TypeInv /\ QuotaHeld)
<1>1. StoreInit => TypeInv /\ QuotaHeld
    BY StoreTypeInit, QuotaInit
<1>2. TypeInv /\ QuotaHeld /\ [StoreNext]_vars => TypeInv' /\ QuotaHeld'
    BY StoreTypeStep, QuotaStep
<1> QED
    BY <1>1, <1>2, PTL DEF StoreSpec

\* What the references of the namespace hold, as the counters say.
LEMMA QuotaMeans ==
    ASSUME TypeInv, QuotaHeld
    PROVE  QuotaHolds
<1>1. /\ stats[NS].blobCount = Total(BlobsAt(NS))
      /\ stats[NS].bytesStored = Total(BytesAt(NS))
    BY NSAssumption DEF QuotaHeld, QuotaInv, QuotasCountRefs
<1>2. ASSUME Quota.maxBlobSize > 0, NEW k \in Key
      PROVE  BytesAt(NS)[k] <= Quota.maxBlobSize
  <2>1. BytesAt(NS)[k] = IF refs[NS][k] = None THEN 0 ELSE Size[refs[NS][k].blob]
      BY DEF BytesAt
  <2>2. refs[NS][k] # None => Size[refs[NS][k].blob] <= Quota.maxBlobSize
      BY <1>2 DEF QuotaHeld, StatsWithin
  <2>3. Quota.maxBlobSize \in Nat
      BY QuotaTypes DEF TypeInv
  <2> QED
      BY <2>1, <2>2, <2>3
<1> QED
    BY <1>1, <1>2 DEF QuotaHolds, QuotaHeld, StatsWithin

\* The check of the quota (store.go:707) and the commit are two transactions, between
\* which others delete and rename and the process may stop; the quota holds in every
\* state, recovery and DeleteNamespace included.
THEOREM QuotaAlwaysHolds == StoreSpec => []QuotaHolds
<1>1. TypeInv /\ QuotaHeld => QuotaHolds
    BY QuotaMeans
<1> QED
    BY <1>1, QuotaHeldHolds, PTL

-----------------------------------------------------------------------------
(* The store is the map of BlobMap                                         *)

\* The map the references are.
Referred == [k \in Key |-> IF refs[NS][k] = None THEN None ELSE refs[NS][k].blob]

\* BlobMap's own cardinality is that of FiniteSets.
LEMMA SameCardinality == \A S : Map!Cardinality(S) = Cardinality(S)
BY DEF Map!Cardinality, Cardinality

\* What the abstract map counts is what the index counts.
LEMMA ReferredTotals ==
    ASSUME IndexTypeOK', SumsAreFinite'
    PROVE  /\ Map!Total(Referred') = Total(BytesAt(NS)')
           /\ Cardinality(Map!Present(Referred')) = Total(BlobsAt(NS)')
<1>1. PICK m : m = Referred'
    OBVIOUS
<1>2. PICK bytes : bytes = BytesAt(NS)'
    OBVIOUS
<1>3. PICK blobCounts : blobCounts = BlobsAt(NS)'
    OBVIOUS
<1>4. \A k \in Key : refs'[NS][k] # None => refs'[NS][k].blob \in Blob
  <2>1. ASSUME NEW k \in Key, refs'[NS][k] # None PROVE refs'[NS][k].blob \in Blob
    <3>1. refs'[NS][k] \in RefEntry
        BY <2>1, NSAssumption DEF IndexTypeOK
    <3> QED
        BY <3>1 DEF RefEntry
  <2> QED
      BY <2>1
<1>5. \A k \in Key : m[k] # None <=> refs'[NS][k] # None
    BY <1>1, <1>4, StoreNoneAssumption DEF Referred
<1>6. /\ DOMAIN bytes = Key /\ DOMAIN blobCounts = Key
      /\ \A k \in Key : m[k] # None => bytes[k] = Size[m[k]] /\ blobCounts[k] = 1
      /\ \A k \in Key : m[k] = None => bytes[k] = 0 /\ blobCounts[k] = 0
    BY <1>1, <1>2, <1>3, <1>5 DEF Referred, BytesAt, BlobsAt
<1>7. Map!Present(m) = {k \in Key : m[k] # None}
    BY DEF Map!Present
<1>8. 1..0 = {}
    OBVIOUS
<1>9. Map!Total(m) = Total(bytes)
  <2>1. ASSUME NEW u
        PROVE  u \in UNION {{k} \X (1..Size[m[k]]) : k \in Map!Present(m)} <=> u \in Units(bytes)
    <3>1. u \in Units(bytes) <=> \E k \in Key : u \in {k} \X (1..bytes[k])
        BY <1>6 DEF Units
    <3>2. u \in UNION {{k} \X (1..Size[m[k]]) : k \in Map!Present(m)}
              <=> \E k \in Map!Present(m) : u \in {k} \X (1..Size[m[k]])
        OBVIOUS
    <3>3. ASSUME NEW k \in Key
          PROVE  u \in {k} \X (1..bytes[k])
                     <=> k \in Map!Present(m) /\ u \in {k} \X (1..Size[m[k]])
      <4>1. CASE m[k] # None
          BY <1>6, <1>7, <4>1
      <4>2. CASE m[k] = None
          BY <1>6, <1>7, <1>8, <4>2
      <4> QED
          BY <4>1, <4>2
    <3> QED
        BY <1>7, <3>1, <3>2, <3>3
  <2>2. UNION {{k} \X (1..Size[m[k]]) : k \in Map!Present(m)} = Units(bytes)
      BY <2>1
  <2> QED
      BY <2>2, SameCardinality DEF Total, Map!Total
<1>10. Cardinality(Map!Present(m)) = Total(blobCounts)
  <2>1. IsFiniteSet(Units(blobCounts))
      BY <1>3, NSAssumption DEF SumsAreFinite, Counted
  <2>2. \A u : u \in Units(blobCounts) <=> \E k \in Key : m[k] # None /\ u = <<k, 1>>
    <3>1. \A u : u \in Units(blobCounts) <=> \E k \in Key : u \in {k} \X (1..blobCounts[k])
        BY <1>6 DEF Units
    <3>2. \A k \in Key : m[k] # None => 1..blobCounts[k] = {1}
        BY <1>6
    <3>3. \A k \in Key : m[k] = None => 1..blobCounts[k] = {}
        BY <1>6, <1>8
    <3>4. ASSUME NEW u, NEW k \in Key
          PROVE  u \in {k} \X (1..blobCounts[k]) <=> m[k] # None /\ u = <<k, 1>>
      <4>1. CASE m[k] # None
          BY <3>2, <4>1
      <4>2. CASE m[k] = None
          BY <3>3, <4>2
      <4> QED
          BY <4>1, <4>2
    <3> QED
        BY <3>1, <3>4
  <2> DEFINE f == [u \in Units(blobCounts) |-> u[1]]
  <2>3. /\ \A u \in Units(blobCounts) : f[u] \in Map!Present(m)
        /\ \A u, v \in Units(blobCounts) : f[u] = f[v] => u = v
        /\ \A k \in Map!Present(m) : \E u \in Units(blobCounts) : f[u] = k
    <3>1. \A u \in Units(blobCounts) : \E k \in Key : m[k] # None /\ u = <<k, 1>> /\ f[u] = k
        BY <2>2
    <3>2. \A k \in Key : m[k] # None => <<k, 1>> \in Units(blobCounts) /\ f[<<k, 1>>] = k
        BY <2>2
    <3> HIDE DEF f
    <3>3. \A u \in Units(blobCounts) : f[u] \in Map!Present(m) /\ u = <<f[u], 1>>
        BY <1>7, <3>1
    <3>4. \A k \in Map!Present(m) : \E u \in Units(blobCounts) : f[u] = k
        BY <1>7, <3>2
    <3>5. ASSUME NEW u \in Units(blobCounts), NEW v \in Units(blobCounts), f[u] = f[v]
          PROVE  u = v
        BY <3>3, <3>5, Zenon
    <3> QED
        BY <3>3, <3>4, <3>5
  <2>4. f \in [Units(blobCounts) -> Map!Present(m)]
      BY <2>3
  <2> HIDE DEF f
  <2>5. f \in Surjection(Units(blobCounts), Map!Present(m))
        /\ f \in Injection(Units(blobCounts), Map!Present(m))
    <3>1. f \in Surjection(Units(blobCounts), Map!Present(m))
        BY <2>3, <2>4 DEF Surjection
    <3>2. f \in Injection(Units(blobCounts), Map!Present(m))
        BY <2>3, <2>4 DEF Injection, IsInjective
    <3> QED
        BY <3>1, <3>2
  <2>6. Cardinality(Map!Present(m)) = Cardinality(Units(blobCounts))
      BY <2>1, <2>5, FS_Surjection
  <2> QED
      BY <2>6 DEF Total
<1> QED
    BY <1>1, <1>2, <1>3, <1>9, <1>10

\* A commit in the abstract map.
ReferredPut(k, b) ==
    /\ Referred' = [Referred EXCEPT ![k] = b]
    /\ Quota.maxBlobSize > 0 => Size[b] <= Quota.maxBlobSize
    /\ Quota.maxBytes > 0 => Map!Total(Referred') <= Quota.maxBytes
    /\ Quota.maxBlobCount > 0 => Cardinality(Map!Present(Referred')) <= Quota.maxBlobCount

ReferredNext ==
    \/ \E k \in Key, b \in Blob : ReferredPut(k, b)
    \/ \E k \in Key : Referred' = [Referred EXCEPT ![k] = None]
    \/ \E old, new \in Key :
          /\ Referred[old] # None /\ Referred[new] = None
          /\ Referred' = [Referred EXCEPT ![new] = Referred[old], ![old] = None]
    \/ Referred' = Referred

LEMMA ReferredCommit ==
    ASSUME TypeInv, TypeInv', QuotaHeld, QuotaHeld', NEW w \in Writer, CommitBlob(w)
    PROVE  ReferredNext
<1>1. PICK p : p = put[w]
    OBVIOUS
<1>2. p.pc = "checked" /\ \E custom \in Meta : CommitPut(NS, p.key, p.blob, p.ids, p.at, custom)
    BY <1>1 DEF CommitBlob
<1>3. /\ p.key \in Key /\ p.blob \in Blob /\ p.ids \in Seq(ChunkId)
    BY <1>1, <1>2, BusyIs, BusyMeans DEF TypeInv
<1>4. PICK k, b : k = p.key /\ b = p.blob
    OBVIOUS
<1>5. PICK custom \in Meta : CommitPut(NS, k, b, p.ids, p.at, custom)
    BY <1>2, <1>4
<1>6. k \in Key /\ b \in Blob /\ IndexTypeOK /\ IndexTypeOK' /\ WithinQuota(b)
    BY <1>1, <1>2, <1>3, <1>4 DEF TypeInv, QuotaHeld
<1>7. /\ refs'[NS][k] # None /\ refs'[NS][k].blob = b
      /\ \A j \in Key : j # k => refs'[NS][j] = refs[NS][j]
    BY <1>3, <1>5, <1>6, PutCounts
<1>8. Referred' = [Referred EXCEPT ![k] = b]
    BY <1>6, <1>7 DEF Referred
<1>9. /\ stats'[NS].blobCount = Total(BlobsAt(NS)')
      /\ stats'[NS].bytesStored = Total(BytesAt(NS)')
      /\ StatsWithin' /\ SumsAreFinite'
    BY NSAssumption DEF QuotaHeld, QuotaInv, QuotasCountRefs
<1>10. /\ Map!Total(Referred') = stats'[NS].bytesStored
       /\ Cardinality(Map!Present(Referred')) = stats'[NS].blobCount
    BY <1>6, <1>9, ReferredTotals
<1>11. ReferredPut(k, b)
  <2>1. Quota.maxBlobSize > 0 => Size[b] <= Quota.maxBlobSize
      BY <1>6 DEF WithinQuota
  <2>2. /\ Quota.maxBytes > 0 => stats'[NS].bytesStored <= Quota.maxBytes
        /\ Quota.maxBlobCount > 0 => stats'[NS].blobCount <= Quota.maxBlobCount
      BY <1>9 DEF StatsWithin
  <2> QED
      BY <1>8, <1>10, <2>1, <2>2 DEF ReferredPut
<1> QED
    BY <1>6, <1>11 DEF ReferredNext

LEMMA ReferredDelete ==
    ASSUME IndexTypeOK, NEW k \in Key, CommitDelete(NS, k)
    PROVE  ReferredNext
<1>1. refs' = [refs EXCEPT ![NS][k] = None]
    BY DEF CommitDelete
<1>2. \A j \in Key : refs'[NS][j] = IF j = k THEN None ELSE refs[NS][j]
    BY <1>1, NSAssumption DEF IndexTypeOK
<1>3. Referred' = [Referred EXCEPT ![k] = None]
    BY <1>2 DEF Referred
<1> QED
    BY <1>3 DEF ReferredNext

LEMMA ReferredRename ==
    ASSUME IndexTypeOK, NEW old \in Key, NEW new \in Key, CommitRenameRef(NS, old, new)
    PROVE  ReferredNext
<1>1. refs[NS][old] # None /\ refs[NS][new] = None
      /\ refs' = [refs EXCEPT ![NS] = [@ EXCEPT ![new] = refs[NS][old], ![old] = None]]
    BY DEF CommitRenameRef
<1>2. \A j \in Key : refs'[NS][j] = IF j = old THEN None
                                    ELSE IF j = new THEN refs[NS][old] ELSE refs[NS][j]
    BY <1>1, NSAssumption DEF IndexTypeOK
<1>3. refs[NS][old].blob \in Blob
    BY <1>1, QuotaTypes
<1>4. Referred[old] = refs[NS][old].blob /\ Referred[old] # None /\ Referred[new] = None
    BY <1>1, <1>3, StoreNoneAssumption DEF Referred
<1>5. Referred' = [Referred EXCEPT ![new] = Referred[old], ![old] = None]
  <2>1. PICK m : m = Referred
      OBVIOUS
  <2>2. m = [k \in Key |-> m[k]]
      BY <2>1 DEF Referred
  <2>3. \A j \in Key : refs'[NS][j] = None <=> j = old \/ (j # new /\ refs[NS][j] = None)
      BY <1>1, <1>2
  <2>4. \A j \in Key : Referred'[j] = IF j = old THEN None
                                      ELSE IF j = new THEN m[old] ELSE m[j]
    <3>1. ASSUME NEW j \in Key
          PROVE  Referred'[j] = IF j = old THEN None ELSE IF j = new THEN m[old] ELSE m[j]
      <4>1. Referred'[j] = IF refs'[NS][j] = None THEN None ELSE refs'[NS][j].blob
          BY DEF Referred
      <4>2. m[j] = IF refs[NS][j] = None THEN None ELSE refs[NS][j].blob
          BY <2>1 DEF Referred
      <4>3. m[old] = refs[NS][old].blob
          BY <1>4, <2>1
      <4> QED
          BY <1>1, <1>2, <4>1, <4>2, <4>3
    <3> QED
        BY <3>1
  <2>5. Referred' = [k \in Key |-> Referred'[k]]
      BY DEF Referred
  <2>6. Referred' = [m EXCEPT ![new] = m[old], ![old] = None]
      BY <2>2, <2>4, <2>5
  <2> QED
      BY <2>1, <2>6
<1> QED
    BY <1>4, <1>5 DEF ReferredNext

\* Of the references, every step is one of the map's or does not show.
LEMMA ReferredStep ==
    ASSUME TypeInv, TypeInv', QuotaHeld, QuotaHeld', [StoreNext]_vars
    PROVE  ReferredNext
<1>1. IndexTypeOK
    BY DEF TypeInv
<1>2. CASE UNCHANGED refs
    BY <1>2 DEF ReferredNext, Referred
<1>3. CASE \E w \in Writer : CommitBlob(w)
    BY <1>3, ReferredCommit
<1>4. CASE \E k \in Key : Delete(k)
    BY <1>1, <1>4, ReferredDelete DEF Delete
<1>5. CASE \E old, new \in Key : Rename(old, new)
    BY <1>1, <1>5, ReferredRename DEF Rename
<1>6. CASE DropRef
  <2>1. space.dropping # None /\ LifeInv /\ \E k \in space.dropping : CommitDelete(NS, k)
      BY <1>6 DEF DropRef, TypeInv
  <2>2. space.dropping \subseteq Key
      BY <2>1 DEF LifeInv
  <2> QED
      BY <1>1, <2>1, <2>2, ReferredDelete
<1>7. \/ UNCHANGED refs \/ (\E w \in Writer : CommitBlob(w)) \/ (\E k \in Key : Delete(k))
      \/ (\E old, new \in Key : Rename(old, new)) \/ DropRef
  <2>1. PutNext => UNCHANGED refs \/ \E w \in Writer : CommitBlob(w)
      BY DEF PutNext, WriteBlob, LogBlob, CheckQuota, CancelPut, MarkDuplicate, ixVars
  <2>2. GetNext => UNCHANGED refs
      BY GetChangesNothing DEF ixVars
  <2>3. CompactNext => UNCHANGED refs
      BY DEF CompactNext, ScanPages, ReapPage, MarkPage, SweepBlobs, SweepBlob, Reconcile,
             BeginRewrite, RewriteSegment, FetchRecord, StoreRecord, DeleteSegmentFile,
             CancelCompact, PurgeScan, PurgeBlob, ReapPhysicalPageIfDead, ReconcileDeadStats,
             OnlyCompacts, ixVars
  <2>4. (Crash \/ Close \/ Reopen \/ RebuildIndex \/ BeginDrop \/ DropRecord \/ CancelDrop
          \/ CreateNamespace \/ UNCHANGED vars) => UNCHANGED refs
      BY DEF Crash, Close, Stop, Reopen, RebuildIndex, BeginDrop, DropRecord, CancelDrop,
             CreateNamespace, OpenEngine, OnlySpace, ixVars, vars
  <2> QED
      BY <2>1, <2>2, <2>3, <2>4 DEF StoreNext
<1> QED
    BY <1>2, <1>3, <1>4, <1>5, <1>6, <1>7

\* A Get returns what the references say.
GetsWhatIsReferred == [k \in Key |-> Fetched(k)] = Referred

LEMMA CompactingFetches ==
    ASSUME NoSharedContent, CompactingInv
    PROVE  GetsWhatIsReferred
<1>1. \A k \in Key : Fetched(k) = IF refs[NS][k] = None THEN None ELSE refs[NS][k].blob
    BY FetchedIs DEF CompactingInv, CopiesInv
<1> QED
    BY <1>1 DEF GetsWhatIsReferred, Referred

LEMMA MapStart ==
    ASSUME StoreInit, GetsWhatIsReferred
    PROVE  Map!MapInit
<1>1. \A k \in Key : refs[NS][k] = None
    BY NSAssumption DEF StoreInit, IndexInit
<1>2. Referred = [k \in Key |-> None]
    BY <1>1 DEF Referred
<1> QED
    BY <1>2 DEF GetsWhatIsReferred, Map!MapInit

LEMMA MapStep ==
    ASSUME TypeInv, TypeInv', QuotaHeld, QuotaHeld', GetsWhatIsReferred, GetsWhatIsReferred',
           [StoreNext]_vars
    PROVE  [Map!MapNext]_([k \in Key |-> Fetched(k)])
<1>1. ReferredNext
    BY ReferredStep
<1>2. [k \in Key |-> Fetched(k)] = Referred /\ [k \in Key |-> Fetched(k)]' = Referred'
    BY DEF GetsWhatIsReferred
<1>3. CASE Referred' = Referred
    BY <1>2, <1>3
<1>4. ASSUME NEW k \in Key, NEW b \in Blob, ReferredPut(k, b)
      PROVE  Map!Put(k, b)
    BY <1>2, <1>4, SameCardinality DEF ReferredPut, Map!Put
<1>5. ASSUME NEW k \in Key, Referred' = [Referred EXCEPT ![k] = None]
      PROVE  Map!Delete(k)
    BY <1>2, <1>5 DEF Map!Delete
<1>6. ASSUME NEW old \in Key, NEW new \in Key, Referred[old] # None, Referred[new] = None,
             Referred' = [Referred EXCEPT ![new] = Referred[old], ![old] = None]
      PROVE  Map!Rename(old, new)
    BY <1>2, <1>6 DEF Map!Rename
<1> QED
    BY <1>1, <1>3, <1>4, <1>5, <1>6 DEF ReferredNext, Map!MapNext

\* A Get of any key, at any moment, would return what the last Put, Delete or Rename of
\* it has left: no step of Compact, no half-done Put and no reader shows, each commit
\* changes one key, and none exceeds the quota.
THEOREM StoreIsAMap ==
    ASSUME OneManifest, NoSharedContent, CompactsOnly
    PROVE  StoreSpec => ImplementsMap
<1> DEFINE Inv == TypeInv /\ QuotaHeld /\ GetsWhatIsReferred
<1>1. CompactingInv => GetsWhatIsReferred
    BY CompactingFetches
<1>2. StoreSpec => []Inv
    BY <1>1, CompactingInvHolds, QuotaHeldHolds, PTL
<1>3. StoreInit /\ Inv => Map!MapInit
    BY MapStart
<1>4. Inv /\ Inv' /\ [StoreNext]_vars => [Map!MapNext]_([k \in Key |-> Fetched(k)])
    BY MapStep
<1> HIDE DEF Inv
<1> QED
    BY <1>2, <1>3, <1>4, PTL DEF StoreSpec, ImplementsMap, Map!MapSpec

-----------------------------------------------------------------------------
(* The two levels of counting                                              *)

BlobRecords == [Blob -> BlobEntry \cup {None}]

\* What the manifests of a state bl of the records count for in chunk c.
HeldOf(bl, b, c) == IF bl[b] = None THEN {}
                    ELSE {b} \X (1..bl[b].rc) \X {i \in DOMAIN bl[b].ids : bl[b].ids[i] = c}
HeldIn(bl, c) == UNION {HeldOf(bl, b, c) : b \in Blob}

\* A manifest loses a count, and one gets its first or one more.
CountedDown(bl, b)    == [bl EXCEPT ![b] = [bl[b] EXCEPT !.rc = @ - 1]]
CountedUp(bl, b, ids) == [bl EXCEPT ![b] = IF bl[b] = None THEN [rc |-> 1, ids |-> ids]
                                           ELSE [bl[b] EXCEPT !.rc = @ + 1]]

LEMMA HeldMember ==
    ASSUME NEW bl, NEW c, NEW u
    PROVE  u \in HeldIn(bl, c) <=>
               \E b \in Blob : /\ bl[b] # None
                               /\ \E m \in 1..bl[b].rc : u \in Places(b, m, bl[b].ids, c)
<1>1. ASSUME NEW b \in Blob
      PROVE  u \in HeldOf(bl, b, c) <=>
                 /\ bl[b] # None
                 /\ \E m \in 1..bl[b].rc : u \in Places(b, m, bl[b].ids, c)
  <2>1. PICK r : r = bl[b]
      OBVIOUS
  <2>2. CASE r = None
      BY <2>1, <2>2 DEF HeldOf
  <2>3. CASE r # None
    <3>1. u \in HeldOf(bl, b, c) <=>
              u \in {b} \X (1..r.rc) \X {i \in DOMAIN r.ids : r.ids[i] = c}
        BY <2>1, <2>3 DEF HeldOf
    <3>2. \A m : u \in Places(b, m, r.ids, c) <=>
              \E i \in {j \in DOMAIN r.ids : r.ids[j] = c} : u = <<b, m, i>>
        BY DEF Places
    <3> QED
        BY <2>1, <2>3, <3>1, <3>2
  <2> QED
      BY <2>2, <2>3
<1> QED
    BY <1>1 DEF HeldIn

\* Places of other blobs or other counts are others.
LEMMA PlacesApart ==
    ASSUME NEW b1, NEW m1, NEW ids1, NEW b2, NEW m2, NEW ids2, NEW c, NEW u,
           u \in Places(b1, m1, ids1, c), u \in Places(b2, m2, ids2, c)
    PROVE  b1 = b2 /\ m1 = m2
BY DEF Places

\* Taking a part of a finite set out, and adding what it does not have.
LEMMA TakenOut ==
    ASSUME NEW S, IsFiniteSet(S), NEW T \in SUBSET S, NEW R, R = S \ T
    PROVE  /\ IsFiniteSet(R) /\ Cardinality(T) <= Cardinality(S)
           /\ Cardinality(R) = Cardinality(S) - Cardinality(T)
<1>1. IsFiniteSet(R) /\ Cardinality(R) = Cardinality(S) - Cardinality(S \cap T)
    BY FS_Difference
<1>2. Cardinality(T) <= Cardinality(S)
    BY FS_Subset
<1>3. S \cap T = T
    OBVIOUS
<1> QED
    BY <1>1, <1>2, <1>3

LEMMA AddedOn ==
    ASSUME NEW S, IsFiniteSet(S), NEW T, IsFiniteSet(T), NEW R,
           R = S \cup T, S \cap T = {}
    PROVE  IsFiniteSet(R) /\ Cardinality(R) = Cardinality(S) + Cardinality(T)
<1>1. IsFiniteSet(R) /\ Cardinality(R) = Cardinality(S) + Cardinality(T) - Cardinality(S \cap T)
    BY FS_Union
<1>2. Cardinality(S \cap T) = 0
    BY FS_EmptySet
<1>3. Cardinality(S) \in Nat /\ Cardinality(T) \in Nat
    BY FS_CardinalityType
<1> QED
    BY <1>1, <1>2, <1>3

\* A manifest loses a reference: its uppermost layer goes.
LEMMA HeldDown ==
    ASSUME NEW bl \in BlobRecords, NEW b \in Blob, bl[b] # None, bl[b].rc >= 1, NEW c,
           IsFiniteSet(HeldIn(bl, c)), NEW gone,
           gone = CountedDown(bl, b)
    PROVE  /\ gone \in BlobRecords /\ IsFiniteSet(HeldIn(gone, c))
           /\ Cardinality(HeldIn(gone, c))
                = Cardinality(HeldIn(bl, c)) - Count(bl[b].ids, c)
           /\ Count(bl[b].ids, c) <= Cardinality(HeldIn(bl, c))
           /\ \A x \in Blob : /\ gone[x] = None <=> bl[x] = None
                              /\ gone[x] # None => gone[x].ids = bl[x].ids
                              /\ x # b => gone[x] = bl[x]
<1>1. PICK r : r = bl[b]
    OBVIOUS
<1>2. r \in BlobEntry /\ r.rc >= 1 /\ r # None
    BY <1>1 DEF BlobRecords
<1>3. r.rc \in Int /\ r.ids \in Seq(ChunkId)
    BY <1>2 DEF BlobEntry
<1>4. PICK s : s = [r EXCEPT !.rc = @ - 1]
    OBVIOUS
<1>5. s \in BlobEntry /\ s.rc = r.rc - 1 /\ s.ids = r.ids /\ s # None
  <2>1. s \in BlobEntry /\ s.rc = r.rc - 1 /\ s.ids = r.ids
      BY <1>2, <1>4 DEF BlobEntry
  <2> QED
      BY <2>1, NoneAssumption
<1>6. gone = [bl EXCEPT ![b] = s]
    BY <1>1, <1>4 DEF CountedDown
<1>7. gone[b] = s /\ (\A x \in Blob : x # b => gone[x] = bl[x]) /\ gone \in BlobRecords
    BY <1>5, <1>6 DEF BlobRecords
<1> DEFINE top == Places(b, r.rc, r.ids, c)
<1>8. IsFiniteSet(top) /\ Cardinality(top) = Count(r.ids, c)
    BY <1>3, PlacesCount
<1>9. ASSUME NEW u PROVE u \in HeldIn(gone, c) <=> u \in HeldIn(bl, c) /\ u \notin top
  <2>1. u \in HeldIn(gone, c) <=>
            \E x \in Blob : /\ gone[x] # None
                            /\ \E m \in 1..gone[x].rc : u \in Places(x, m, gone[x].ids, c)
      BY HeldMember
  <2>2. u \in HeldIn(bl, c) <=>
            \E x \in Blob : /\ bl[x] # None
                            /\ \E m \in 1..bl[x].rc : u \in Places(x, m, bl[x].ids, c)
      BY HeldMember
  <2>3. \A m \in 1..r.rc : m \in 1..s.rc <=> m # r.rc
      BY <1>3, <1>5
  <2>4. 1..s.rc \subseteq 1..r.rc
      BY <1>3, <1>5
  <2>5. ASSUME u \in HeldIn(gone, c) PROVE u \in HeldIn(bl, c) /\ u \notin top
    <3>1. PICK x \in Blob : /\ gone[x] # None
                            /\ \E m \in 1..gone[x].rc : u \in Places(x, m, gone[x].ids, c)
        BY <2>1, <2>5
    <3>2. PICK m \in 1..gone[x].rc : u \in Places(x, m, gone[x].ids, c)
        BY <3>1
    <3>3. CASE x = b
      <4>1. m \in 1..r.rc /\ m # r.rc /\ u \in Places(b, m, r.ids, c)
          BY <1>5, <1>7, <2>3, <2>4, <3>2, <3>3
      <4>2. u \in HeldIn(bl, c)
          BY <1>1, <1>2, <2>2, <4>1
      <4> QED
          BY <4>1, <4>2, PlacesApart
    <3>4. CASE x # b
      <4>1. bl[x] # None /\ m \in 1..bl[x].rc /\ u \in Places(x, m, bl[x].ids, c)
          BY <1>7, <3>1, <3>2, <3>4
      <4>2. u \in HeldIn(bl, c)
          BY <2>2, <4>1
      <4> QED
          BY <3>4, <4>1, <4>2, PlacesApart
    <3> QED
        BY <3>3, <3>4
  <2>6. ASSUME u \in HeldIn(bl, c), u \notin top PROVE u \in HeldIn(gone, c)
    <3>1. PICK x \in Blob : /\ bl[x] # None
                            /\ \E m \in 1..bl[x].rc : u \in Places(x, m, bl[x].ids, c)
        BY <2>2, <2>6
    <3>2. PICK m \in 1..bl[x].rc : u \in Places(x, m, bl[x].ids, c)
        BY <3>1
    <3>3. CASE x = b
      <4>1. m \in 1..r.rc /\ u \in Places(b, m, r.ids, c) /\ m # r.rc
          BY <1>1, <2>6, <3>2, <3>3
      <4>2. m \in 1..s.rc
          BY <2>3, <4>1
      <4> QED
          BY <1>5, <1>7, <2>1, <4>1, <4>2
    <3>4. CASE x # b
        BY <1>7, <2>1, <3>1, <3>2, <3>4
    <3> QED
        BY <3>3, <3>4
  <2> QED
      BY <2>5, <2>6
<1>10. top \in SUBSET HeldIn(bl, c)
  <2>1. ASSUME NEW u \in top PROVE u \in HeldIn(bl, c)
    <3>1. r.rc \in 1..r.rc
        BY <1>2, <1>3
    <3> QED
        BY <1>1, <1>2, <2>1, <3>1, HeldMember
  <2> QED
      BY <2>1
<1> HIDE DEF top
<1>11. HeldIn(gone, c) = HeldIn(bl, c) \ top
    BY <1>9
<1>12. /\ IsFiniteSet(HeldIn(gone, c)) /\ Cardinality(top) <= Cardinality(HeldIn(bl, c))
       /\ Cardinality(HeldIn(gone, c)) = Cardinality(HeldIn(bl, c)) - Cardinality(top)
    BY <1>10, <1>11, TakenOut
<1>13. \A x \in Blob : /\ gone[x] = None <=> bl[x] = None
                       /\ gone[x] # None => gone[x].ids = bl[x].ids
                       /\ x # b => gone[x] = bl[x]
    BY <1>1, <1>2, <1>5, <1>7
<1> QED
    BY <1>1, <1>7, <1>8, <1>12, <1>13

\* A manifest gains one: a layer on top.
LEMMA HeldUp ==
    ASSUME NEW bl \in BlobRecords, NEW b \in Blob, NEW ids \in Seq(ChunkId),
           bl[b] # None => bl[b].rc >= 0 /\ bl[b].ids = ids, NEW c,
           IsFiniteSet(HeldIn(bl, c)), NEW more,
           more = CountedUp(bl, b, ids)
    PROVE  /\ IsFiniteSet(HeldIn(more, c))
           /\ Cardinality(HeldIn(more, c)) = Cardinality(HeldIn(bl, c)) + Count(ids, c)
<1>1. PICK n : n = IF bl[b] = None THEN 0 ELSE bl[b].rc
    OBVIOUS
<1>0. more = [bl EXCEPT ![b] = IF bl[b] = None THEN [rc |-> 1, ids |-> ids]
                               ELSE [bl[b] EXCEPT !.rc = @ + 1]]
    BY DEF CountedUp
<1>2. PICK s : s = more[b]
    OBVIOUS
<1>3. n \in Nat /\ s.rc = n + 1 /\ s.ids = ids /\ s # None
      /\ \A x \in Blob : x # b => more[x] = bl[x]
  <2>1. \A x \in Blob : x # b => more[x] = bl[x]
      BY <1>0 DEF BlobRecords
  <2>2. CASE bl[b] = None
    <3>1. s = [rc |-> 1, ids |-> ids] /\ n = 0
        BY <1>0, <1>1, <1>2, <2>2 DEF BlobRecords
    <3>2. s \in BlobEntry /\ s.rc = 1 /\ s.ids = ids
        BY <3>1 DEF BlobEntry
    <3> QED
        BY <2>1, <3>1, <3>2, NoneAssumption
  <2>3. CASE bl[b] # None
    <3>1. PICK r : r = bl[b]
        OBVIOUS
    <3>2. r \in BlobEntry /\ r.rc >= 0 /\ r.ids = ids /\ s = [r EXCEPT !.rc = @ + 1] /\ n = r.rc
        BY <1>0, <1>1, <1>2, <2>3, <3>1 DEF BlobRecords
    <3>3. s \in BlobEntry /\ s.rc = r.rc + 1 /\ s.ids = ids /\ r.rc \in Int
        BY <3>2 DEF BlobEntry
    <3> QED
        BY <2>1, <3>2, <3>3, NoneAssumption
  <2> QED
      BY <2>2, <2>3
<1> DEFINE top == Places(b, n + 1, ids, c)
<1>4. IsFiniteSet(top) /\ Cardinality(top) = Count(ids, c)
    BY PlacesCount
<1>5. ASSUME NEW u PROVE u \in HeldIn(more, c) <=> u \in HeldIn(bl, c) \/ u \in top
  <2>1. u \in HeldIn(more, c) <=>
            \E x \in Blob : /\ more[x] # None
                            /\ \E m \in 1..more[x].rc : u \in Places(x, m, more[x].ids, c)
      BY HeldMember
  <2>2. u \in HeldIn(bl, c) <=>
            \E x \in Blob : /\ bl[x] # None
                            /\ \E m \in 1..bl[x].rc : u \in Places(x, m, bl[x].ids, c)
      BY HeldMember
  <2>3. \A m \in 1..s.rc : m = n + 1 \/ m \in 1..n
      BY <1>3
  <2>4. 1..n \subseteq 1..s.rc /\ n + 1 \in 1..s.rc /\ \A m \in 1..n : n > 0
      BY <1>3
  <2>5. ASSUME u \in HeldIn(more, c) PROVE u \in HeldIn(bl, c) \/ u \in top
    <3>1. PICK x \in Blob : /\ more[x] # None
                            /\ \E m \in 1..more[x].rc : u \in Places(x, m, more[x].ids, c)
        BY <2>1, <2>5
    <3>2. PICK m \in 1..more[x].rc : u \in Places(x, m, more[x].ids, c)
        BY <3>1
    <3>3. CASE x = b
      <4>1. m \in 1..s.rc /\ u \in Places(b, m, ids, c)
          BY <1>2, <1>3, <3>2, <3>3
      <4>2. CASE m = n + 1
          BY <4>1, <4>2
      <4>3. CASE m \in 1..n
        <5>1. n # 0
            BY <1>3, <2>4, <4>3
        <5>2. bl[b] # None /\ bl[b].rc = n /\ bl[b].ids = ids
            BY <1>1, <5>1
        <5> QED
            BY <2>2, <4>1, <4>3, <5>2
      <4> QED
          BY <2>3, <4>1, <4>2, <4>3
    <3>4. CASE x # b
        BY <1>3, <2>2, <3>1, <3>2, <3>4
    <3> QED
        BY <3>3, <3>4
  <2>6. ASSUME u \in HeldIn(bl, c) PROVE u \in HeldIn(more, c)
    <3>1. PICK x \in Blob : /\ bl[x] # None
                            /\ \E m \in 1..bl[x].rc : u \in Places(x, m, bl[x].ids, c)
        BY <2>2, <2>6
    <3>2. PICK m \in 1..bl[x].rc : u \in Places(x, m, bl[x].ids, c)
        BY <3>1
    <3>3. CASE x = b
      <4>1. m \in 1..n /\ u \in Places(b, m, ids, c)
          BY <1>1, <3>1, <3>2, <3>3
      <4>2. m \in 1..s.rc
          BY <2>4, <4>1
      <4> QED
          BY <1>2, <1>3, <2>1, <4>1, <4>2
    <3>4. CASE x # b
        BY <1>3, <2>1, <3>1, <3>2, <3>4
    <3> QED
        BY <3>3, <3>4
  <2>7. ASSUME u \in top PROVE u \in HeldIn(more, c)
    <3>1. u \in Places(b, n + 1, s.ids, c) /\ n + 1 \in 1..s.rc
        BY <1>3, <2>4, <2>7
    <3> QED
        BY <1>2, <1>3, <2>1, <3>1
  <2> QED
      BY <2>5, <2>6, <2>7
<1>6. ASSUME NEW u \in HeldIn(bl, c) PROVE u \notin top
  <2>1. SUFFICES ASSUME u \in top PROVE FALSE
      OBVIOUS
  <2>2. PICK x \in Blob : /\ bl[x] # None
                          /\ \E m \in 1..bl[x].rc : u \in Places(x, m, bl[x].ids, c)
      BY HeldMember
  <2>3. PICK m \in 1..bl[x].rc : u \in Places(x, m, bl[x].ids, c)
      BY <2>2
  <2>4. x = b /\ m = n + 1
      BY <2>1, <2>3, PlacesApart
  <2>5. bl[x].rc = n
      BY <1>1, <2>2, <2>4
  <2> QED
      BY <1>3, <2>3, <2>4, <2>5
<1> HIDE DEF top
<1>7. HeldIn(more, c) = HeldIn(bl, c) \cup top /\ HeldIn(bl, c) \cap top = {}
    BY <1>5, <1>6
<1>8. /\ IsFiniteSet(HeldIn(more, c))
      /\ Cardinality(HeldIn(more, c)) = Cardinality(HeldIn(bl, c)) + Cardinality(top)
    BY <1>4, <1>7, AddedOn
<1> QED
    BY <1>4, <1>8

-----------------------------------------------------------------------------
(* The two levels stay in step                                             *)

CountsOver(bl, ch) ==
    \A c \in ChunkId : /\ IsFiniteSet(HeldIn(bl, c))
                       /\ ChunkHeld(ch, c) = Cardinality(HeldIn(bl, c))

\* What a relocation is about to store is what the record has.
FetchedCount ==
    compact.pc = "store" =>
        compact.held = chunks[At(files, FirstOf(compact.moved)).chunk].rc

CountsInv == CountsOver(blobs, chunks) /\ FetchedCount

\* A count that covers what is released goes down by just that.
LEMMA ReleaseExact ==
    ASSUME NEW ch \in ChunkRecords, NEW ids \in Seq(ChunkId), NEW c \in ChunkId,
           Count(ids, c) <= ChunkHeld(ch, c)
    PROVE  ChunkHeld(Release(ch, ids), c) = ChunkHeld(ch, c) - Count(ids, c)
<1>1. PICK n : n = Count(ids, c)
    OBVIOUS
<1>2. n \in Nat
    BY <1>1, CountType
<1>3. CASE ch[c] = None
  <2>1. Release(ch, ids)[c] = None
      BY <1>3 DEF Release
  <2>2. ChunkHeld(ch, c) = 0 /\ ChunkHeld(Release(ch, ids), c) = 0
      BY <1>3, <2>1 DEF ChunkHeld
  <2> QED
      BY <1>1, <1>2, <2>2
<1>4. CASE ch[c] # None
  <2>1. PICK r : r = ch[c]
      OBVIOUS
  <2>2. r \in ChunkEntry /\ r # None /\ n <= r.rc
      BY <1>1, <1>4, <2>1 DEF ChunkRecords, ChunkHeld
  <2>3. r.rc \in Nat
      BY <2>2 DEF ChunkEntry
  <2>4. PICK s : s = [r EXCEPT !.rc = IF @ > n THEN @ - n ELSE 0]
      OBVIOUS
  <2>5. s \in ChunkEntry /\ s.rc = r.rc - n
      BY <1>2, <2>2, <2>3, <2>4 DEF ChunkEntry
  <2>6. Release(ch, ids)[c] = s
      BY <1>1, <1>4, <2>1, <2>4 DEF Release
  <2>7. s # None
      BY <2>5, NoneAssumption
  <2>8. ChunkHeld(Release(ch, ids), c) = s.rc
      BY <2>6, <2>7 DEF ChunkHeld
  <2>9. ChunkHeld(ch, c) = r.rc
      BY <1>4, <2>1 DEF ChunkHeld
  <2> QED
      BY <1>1, <2>5, <2>8, <2>9
<1> QED
    BY <1>3, <1>4

\* Every reference is one of those its manifest counts.
LEMMA ReferredIsHeld ==
    ASSUME IndexInv, NEW k \in Key, refs[NS][k] # None, NEW x, x = refs[NS][k].blob
    PROVE  x \in Blob /\ blobs[x] # None /\ blobs[x].rc >= 1
<1>1. x \in Blob /\ blobs[x] # None
    BY NSAssumption, ManifestPresent
<1>2. IsFiniteSet(RefsTo(x)) /\ Cardinality(RefsTo(x)) <= blobs[x].rc
    BY <1>1 DEF IndexInv, BlobHeld
<1>3. <<NS, k>> \in RefsTo(x)
    BY NSAssumption DEF RefsTo
<1>4. Cardinality(RefsTo(x)) \in Nat /\ Cardinality(RefsTo(x)) # 0
    BY <1>2, <1>3, FS_CardinalityType, FS_EmptySet
<1>5. blobs[x].rc \in Int
    BY <1>1 DEF IndexInv, IndexTypeOK, BlobEntry
<1> QED
    BY <1>1, <1>2, <1>4, <1>5

LEMMA HeldRecords ==
    ASSUME IndexInv
    PROVE  /\ blobs \in BlobRecords /\ chunks \in ChunkRecords
           /\ \A b \in Blob : blobs[b] # None =>
                 blobs[b].rc \in Nat /\ blobs[b].ids \in Manifests[b]
<1>1. IndexTypeOK
    BY DEF IndexInv
<1>2. blobs \in BlobRecords /\ chunks \in ChunkRecords
    BY <1>1 DEF IndexTypeOK, BlobRecords, ChunkRecords
<1>3. ASSUME NEW b \in Blob, blobs[b] # None
      PROVE  blobs[b].rc \in Nat /\ blobs[b].ids \in Manifests[b]
  <2>1. IsFiniteSet(RefsTo(b)) /\ Cardinality(RefsTo(b)) <= blobs[b].rc
      BY <1>3 DEF IndexInv, BlobHeld
  <2>2. Cardinality(RefsTo(b)) \in Nat
      BY <2>1, FS_CardinalityType
  <2>3. blobs[b].rc \in Int
      BY <1>2, <1>3 DEF BlobRecords, BlobEntry
  <2> QED
      BY <1>3, <2>1, <2>2, <2>3 DEF IndexInv
<1> QED
    BY <1>2, <1>3

\* What an overwrite lets go: one count of the old manifest, and its chunks' counts.
LEMMA CountsReplaced ==
    ASSUME IndexInv, CountsOver(blobs, chunks), NEW k \in Key, NEW b \in Blob,
           NEW old, old = Replaced(NS, k, b),
           NEW mid, mid = [x \in Blob |->
                             IF x # b /\ IsOverwrite(NS, k) /\ refs[NS][k].blob = x
                                /\ blobs[x] # None
                             THEN [blobs[x] EXCEPT !.rc = @ - 1] ELSE blobs[x]]
    PROVE  /\ mid \in BlobRecords /\ mid[b] = blobs[b]
           /\ CountsOver(mid, Release(chunks, old))
<1>1. blobs \in BlobRecords /\ chunks \in ChunkRecords /\ IndexTypeOK
    BY HeldRecords DEF IndexInv
<1>2. old \in Seq(ChunkId)
    BY <1>1, NSAssumption, ReplacedType
<1>3. mid[b] = blobs[b]
    OBVIOUS
<1>4. CASE refs[NS][k] # None /\ refs[NS][k].blob # b
  <2>1. PICK x : x = refs[NS][k].blob
      OBVIOUS
  <2>2. x \in Blob /\ blobs[x] # None /\ blobs[x].rc >= 1 /\ x # b
      BY <1>4, <2>1, ReferredIsHeld
  <2>3. old = blobs[x].ids
      BY <1>4, <2>1, <2>2 DEF Replaced, IsOverwrite, SameContent
  <2>4. mid = [blobs EXCEPT ![x] = [blobs[x] EXCEPT !.rc = @ - 1]]
        /\ mid = CountedDown(blobs, x)
      BY <1>1, <1>4, <2>1, <2>2 DEF IsOverwrite, BlobRecords, CountedDown
  <2>5. ASSUME NEW c \in ChunkId
        PROVE  /\ IsFiniteSet(HeldIn(mid, c)) /\ mid \in BlobRecords
               /\ ChunkHeld(Release(chunks, old), c) = Cardinality(HeldIn(mid, c))
    <3>1. /\ IsFiniteSet(HeldIn(blobs, c))
          /\ ChunkHeld(chunks, c) = Cardinality(HeldIn(blobs, c))
        BY DEF CountsOver
    <3>2. /\ mid \in BlobRecords /\ IsFiniteSet(HeldIn(mid, c))
          /\ Cardinality(HeldIn(mid, c)) = Cardinality(HeldIn(blobs, c)) - Count(old, c)
          /\ Count(old, c) <= Cardinality(HeldIn(blobs, c))
        BY <1>1, <2>2, <2>3, <2>4, <3>1, HeldDown
    <3>3. ChunkHeld(Release(chunks, old), c) = ChunkHeld(chunks, c) - Count(old, c)
        BY <1>1, <1>2, <3>1, <3>2, ReleaseExact
    <3> QED
        BY <3>1, <3>2, <3>3
  <2>6. mid \in BlobRecords
    <3>1. \A y \in Blob : y # x => mid[y] = blobs[y]
        BY <2>4
    <3>2. PICK r : r = blobs[x]
        OBVIOUS
    <3>3. r \in BlobEntry
        BY <1>1, <2>2, <3>2 DEF BlobRecords
    <3>4. [r EXCEPT !.rc = @ - 1] \in BlobEntry
        BY <3>3 DEF BlobEntry
    <3> QED
        BY <1>1, <2>2, <2>4, <3>2, <3>4 DEF BlobRecords
  <2> QED
      BY <1>3, <2>5, <2>6 DEF CountsOver
<1>5. CASE ~(refs[NS][k] # None /\ refs[NS][k].blob # b)
  <2>1. old = << >> /\ mid = blobs
    <3>1. old = << >>
        BY <1>5 DEF Replaced, IsOverwrite, SameContent
    <3>2. \A x \in Blob : mid[x] = blobs[x]
        BY <1>5 DEF IsOverwrite
    <3> QED
        BY <1>1, <3>1, <3>2 DEF BlobRecords
  <2>2. ASSUME NEW c \in ChunkId
        PROVE  ChunkHeld(Release(chunks, old), c) = ChunkHeld(chunks, c)
    <3>1. Count(old, c) = 0
        BY <2>1, CountEmpty
    <3>2. ChunkHeld(chunks, c) \in Nat
        BY <1>1 DEF ChunkHeld, ChunkRecords, ChunkEntry
    <3>3. ChunkHeld(Release(chunks, old), c) = ChunkHeld(chunks, c) - Count(old, c)
        BY <1>1, <1>2, <3>1, <3>2, ReleaseExact
    <3> QED
        BY <3>1, <3>2, <3>3
  <2> QED
      BY <1>1, <1>3, <2>1, <2>2 DEF CountsOver
<1> QED
    BY <1>4, <1>5

\* A commit: a count of the old manifest goes, one of the new comes.
LEMMA CountsCommit ==
    ASSUME OneManifest, IndexInv, RecordsInv, CountsOver(blobs, chunks),
           NEW k \in Key, NEW b \in Blob, NEW ids \in Manifests[b],
           NEW at \in [DOMAIN ids -> Loc], NEW custom \in Meta,
           CommitPut(NS, k, b, ids, at, custom)
    PROVE  CountsOver(blobs', chunks')
<1>1. blobs \in BlobRecords /\ chunks \in ChunkRecords /\ ids \in Seq(ChunkId)
      /\ \A x \in Blob : blobs[x] # None => blobs[x].rc \in Nat /\ blobs[x].ids \in Manifests[x]
    BY HeldRecords, ManifestAssumption
<1>2. PICK old : old = Replaced(NS, k, b)
    OBVIOUS
<1>3. PICK mid : mid = [x \in Blob |->
                          IF x # b /\ IsOverwrite(NS, k) /\ refs[NS][k].blob = x
                             /\ blobs[x] # None
                          THEN [blobs[x] EXCEPT !.rc = @ - 1] ELSE blobs[x]]
    OBVIOUS
<1>4. PICK left : left = Release(chunks, old)
    OBVIOUS
<1>5. mid \in BlobRecords /\ mid[b] = blobs[b] /\ CountsOver(mid, left)
    BY <1>2, <1>3, <1>4, CountsReplaced
<1>6. blobs' = BlobsAfterPut(NS, k, b, ids) /\ chunks' = Acquire(left, NS, ids, at)
    BY <1>2, <1>4 DEF CommitPut
<1>7. PICK more : more = CountedUp(mid, b, ids)
    OBVIOUS
<1>8. blobs' = more
  <2>1. PICK new : new = IF blobs[b] = None THEN [rc |-> 1, ids |-> ids]
                         ELSE [blobs[b] EXCEPT !.rc = @ + 1]
      OBVIOUS
  <2>2. more = [mid EXCEPT ![b] = new]
      BY <1>5, <1>7, <2>1 DEF CountedUp
  <2>3. more = [x \in Blob |-> IF x = b THEN new ELSE mid[x]]
      BY <1>5, <2>2 DEF BlobRecords
  <2>4. blobs' = [x \in Blob |-> IF x = b THEN new
                                 ELSE IF IsOverwrite(NS, k) /\ refs[NS][k].blob = x
                                         /\ blobs[x] # None
                                      THEN [blobs[x] EXCEPT !.rc = @ - 1] ELSE blobs[x]]
      BY <1>6, <2>1 DEF BlobsAfterPut
  <2>5. \A x \in Blob : x # b =>
            mid[x] = IF IsOverwrite(NS, k) /\ refs[NS][k].blob = x /\ blobs[x] # None
                     THEN [blobs[x] EXCEPT !.rc = @ - 1] ELSE blobs[x]
      BY <1>3
  <2> QED
      BY <2>3, <2>4, <2>5
<1>9. mid[b] # None => mid[b].rc >= 0 /\ mid[b].ids = ids
    BY <1>1, <1>5 DEF OneManifest
<1>10. /\ left \in ChunkRecords
       /\ \A c \in ChunkId : left[c] # None => left[c].ns = NS
  <2>1. IndexTypeOK
      BY DEF IndexInv
  <2>2. old \in Seq(ChunkId)
      BY <1>2, <2>1, NSAssumption, ReplacedType
  <2>3. /\ left \in ChunkRecords
        /\ \A c \in ChunkId : /\ left[c] = None <=> chunks[c] = None
                              /\ chunks[c] # None => left[c].ns = chunks[c].ns
      BY <1>1, <1>4, <2>2, ReleaseHeld
  <2> QED
      BY <2>3 DEF RecordsInv, RecordOK
<1>11. \A i \in DOMAIN ids : left[ids[i]] # None => left[ids[i]].ns = NS
    BY <1>1, <1>10
<1>12. \A c \in ChunkId : ChunkHeld(chunks', c) = ChunkHeld(left, c) + Count(ids, c)
    BY <1>1, <1>6, <1>10, <1>11, NSAssumption, AcquireHeld
<1>13. ASSUME NEW c \in ChunkId
       PROVE  /\ IsFiniteSet(HeldIn(more, c))
              /\ ChunkHeld(chunks', c) = Cardinality(HeldIn(more, c))
  <2>1. IsFiniteSet(HeldIn(mid, c)) /\ ChunkHeld(left, c) = Cardinality(HeldIn(mid, c))
      BY <1>5 DEF CountsOver
  <2>2. /\ IsFiniteSet(HeldIn(more, c))
        /\ Cardinality(HeldIn(more, c)) = Cardinality(HeldIn(mid, c)) + Count(ids, c)
    <3>1. ids \in Seq(ChunkId) /\ mid \in BlobRecords
        BY <1>1, <1>5
    <3>2. IsFiniteSet(HeldIn(mid, c))
        BY <2>1
    <3> QED
        BY <1>7, <1>9, <3>1, <3>2, HeldUp
  <2> QED
      BY <1>12, <2>1, <2>2
<1> QED
    BY <1>8, <1>13 DEF CountsOver

LEMMA CountsDelete ==
    ASSUME IndexInv, CountsOver(blobs, chunks), NEW k \in Key, CommitDelete(NS, k)
    PROVE  CountsOver(blobs', chunks')
<1>1. blobs \in BlobRecords /\ chunks \in ChunkRecords
    BY HeldRecords
<1>2. PICK x : x = refs[NS][k].blob
    OBVIOUS
<1>3. x \in Blob /\ blobs[x] # None /\ blobs[x].rc >= 1
    BY <1>2, ReferredIsHeld DEF CommitDelete
<1>4. PICK old : old = blobs[x].ids
    OBVIOUS
<1>5. old \in Seq(ChunkId)
    BY <1>1, <1>3, <1>4 DEF BlobRecords, BlobEntry
<1>6. chunks' = Release(chunks, old)
    BY <1>2, <1>3, <1>4 DEF CommitDelete, DeletedIds
<1>7. blobs' = [blobs EXCEPT ![x] = [blobs[x] EXCEPT !.rc = @ - 1]]
  <2>1. blobs' = [y \in Blob |-> IF x = y /\ blobs[y] # None
                                 THEN [blobs[y] EXCEPT !.rc = @ - 1] ELSE blobs[y]]
      BY <1>2 DEF CommitDelete, BlobsAfterDelete
  <2> QED
      BY <1>1, <1>3, <2>1 DEF BlobRecords
<1>8. ASSUME NEW c \in ChunkId
      PROVE  /\ IsFiniteSet(HeldIn(blobs', c))
             /\ ChunkHeld(chunks', c) = Cardinality(HeldIn(blobs', c))
  <2>1. IsFiniteSet(HeldIn(blobs, c)) /\ ChunkHeld(chunks, c) = Cardinality(HeldIn(blobs, c))
      BY DEF CountsOver
  <2>2. PICK gone : gone = blobs'
      OBVIOUS
  <2>3. /\ IsFiniteSet(HeldIn(gone, c))
        /\ Cardinality(HeldIn(gone, c)) = Cardinality(HeldIn(blobs, c)) - Count(old, c)
        /\ Count(old, c) <= Cardinality(HeldIn(blobs, c))
    <3>1. gone = CountedDown(blobs, x)
        BY <1>7, <2>2 DEF CountedDown
    <3>2. IsFiniteSet(HeldIn(blobs, c)) /\ blobs \in BlobRecords
        BY <1>1, <2>1
    <3>3. /\ IsFiniteSet(HeldIn(gone, c))
          /\ Cardinality(HeldIn(gone, c)) = Cardinality(HeldIn(blobs, c)) - Count(blobs[x].ids, c)
          /\ Count(blobs[x].ids, c) <= Cardinality(HeldIn(blobs, c))
        BY <1>3, <3>1, <3>2, HeldDown
    <3> QED
        BY <1>4, <3>3
  <2>4. ChunkHeld(Release(chunks, old), c) = ChunkHeld(chunks, c) - Count(old, c)
      BY <1>1, <1>5, <2>1, <2>3, ReleaseExact
  <2> QED
      BY <1>6, <2>1, <2>2, <2>3, <2>4
<1> QED
    BY <1>8 DEF CountsOver

\* A purged manifest had no count left.
LEMMA CountsPurge ==
    ASSUME IndexInv, CountsOver(blobs, chunks), NEW b \in Blob, PurgeBlob(b)
    PROVE  CountsOver(blobs', chunks')
<1>1. blobs \in BlobRecords /\ chunks' = chunks
      /\ blobs' = [blobs EXCEPT ![b] = IF @ # None /\ @.rc > 0 THEN @ ELSE None]
    BY HeldRecords DEF PurgeBlob
<1>2. PICK gone : gone = blobs'
    OBVIOUS
<1>3. \A x \in Blob : x # b => gone[x] = blobs[x]
    BY <1>1, <1>2 DEF BlobRecords
<1>4. gone[b] = blobs[b] \/ (gone[b] = None /\ ~(blobs[b] # None /\ blobs[b].rc > 0))
    BY <1>1, <1>2 DEF BlobRecords
<1>5. blobs[b] # None => blobs[b].rc \in Nat
    BY HeldRecords
<1>6. ASSUME NEW c, NEW u PROVE u \in HeldIn(gone, c) <=> u \in HeldIn(blobs, c)
  <2>1. u \in HeldIn(gone, c) <=>
            \E x \in Blob : /\ gone[x] # None
                            /\ \E m \in 1..gone[x].rc : u \in Places(x, m, gone[x].ids, c)
      BY HeldMember
  <2>2. u \in HeldIn(blobs, c) <=>
            \E x \in Blob : /\ blobs[x] # None
                            /\ \E m \in 1..blobs[x].rc : u \in Places(x, m, blobs[x].ids, c)
      BY HeldMember
  <2>3. CASE gone[b] = blobs[b]
      BY <1>3, <2>1, <2>2, <2>3
  <2>4. CASE gone[b] = None /\ ~(blobs[b] # None /\ blobs[b].rc > 0)
    <3>1. blobs[b] # None => 1..blobs[b].rc = {}
        BY <1>5, <2>4
    <3> QED
        BY <1>3, <2>1, <2>2, <2>4, <3>1
  <2> QED
      BY <1>4, <2>3, <2>4
<1>7. \A c : HeldIn(gone, c) = HeldIn(blobs, c)
    BY <1>6
<1> QED
    BY <1>1, <1>2, <1>7 DEF CountsOver

\* A step that counts nothing, and leaves what was fetched true.
LEMMA CountsStill ==
    ASSUME CountsInv, UNCHANGED blobs,
           \A c \in ChunkId : ChunkHeld(chunks', c) = ChunkHeld(chunks, c), FetchedCount'
    PROVE  CountsInv'
<1>1. CountsOver(blobs', chunks')
    BY DEF CountsInv, CountsOver
<1> QED
    BY <1>1 DEF CountsInv

\* Outside the relocation of one chunk nothing is fetched.
LEMMA NothingFetched ==
    ASSUME compact'.pc # "store"
    PROVE  FetchedCount'
BY DEF FetchedCount

LEMMA CountsPutNext ==
    ASSUME OneManifest, CompactsOnly, CompactingInv, CountsInv, PutNext
    PROVE  CountsInv'
<1>1. TypeInv /\ QueueInv /\ IndexInv /\ RecordsInv /\ PutsInv
    BY DEF CompactingInv, CopiesInv, TypeInv
<1>2. ~Compacting /\ UNCHANGED compact
    BY <1>1, PutsWithoutCompact DEF CompactsOnly
<1>3. FetchedCount'
  <2>1. compact'.pc # "store"
      BY <1>2 DEF Compacting
  <2> QED
      BY <2>1, NothingFetched
<1>4. ASSUME NEW w \in Writer, CommitBlob(w) PROVE CountsInv'
  <2>1. PICK p : p = put[w]
      OBVIOUS
  <2>2. p.pc = "checked"
        /\ \E custom \in Meta : CommitPut(NS, p.key, p.blob, p.ids, p.at, custom)
      BY <1>4, <2>1 DEF CommitBlob
  <2>3. BusyPutOK(p)
      BY <1>1, <2>1, <2>2, BusyIs
  <2>4. /\ p.key \in Key /\ p.blob \in Blob /\ p.ids \in Manifests[p.blob]
        /\ p.at \in [DOMAIN p.ids -> Loc]
      BY <2>3, BusyMeans
  <2>5. PICK custom \in Meta : CommitPut(NS, p.key, p.blob, p.ids, p.at, custom)
      BY <2>2
  <2>6. CountsOver(blobs', chunks')
      BY <1>1, <2>4, <2>5, CountsCommit DEF CountsInv
  <2> QED
      BY <1>3, <2>6 DEF CountsInv
<1>5. ASSUME NEW w \in Writer,
             \/ \E k \in Key : \E b \in Content[NS] : WriteBlob(w, k, b)
             \/ LogBlob(w) \/ CheckQuota(w) \/ CancelPut(w) \/ MarkDuplicate(w)
      PROVE  CountsInv'
  <2>1. UNCHANGED <<blobs, chunks>>
      BY <1>5 DEF WriteBlob, LogBlob, CheckQuota, CancelPut, MarkDuplicate, ixVars
  <2> QED
      BY <1>3, <2>1, CountsStill
<1> QED
    BY <1>4, <1>5 DEF PutNext

LEMMA CountsCompactNext ==
    ASSUME CompactingInv, CountsInv, TypeInv', CompactNext
    PROVE  CountsInv'
<1>1. TypeInv /\ QueueInv /\ MovedInv /\ IndexInv /\ RecordsInv /\ CompactInv
    BY DEF CompactingInv, CopiesInv, TypeInv
<1>2. compact = [pc |-> compact.pc, queue |-> compact.queue, freed |-> compact.freed,
                 todo |-> compact.todo, moved |-> compact.moved, held |-> compact.held,
                 nonce |-> compact.nonce]
    BY <1>1, CompactIs
<1>3. CASE ReapPage
  <2>1. PICK l \in compact.queue :
            /\ l \in Loc /\ At(files, l).chunk \in ChunkId
            /\ ReapPhysicalPageIfDead(At(files, l).chunk, l)
            /\ compact' = [compact EXCEPT !.pc = "mark", !.freed = @ + 1]
      BY <1>1, <1>3, ReapIs
  <2>2. compact'.pc # "store"
      BY <1>2, <2>1
  <2>3. /\ UNCHANGED blobs
        /\ \A c \in ChunkId : ChunkHeld(chunks', c) = ChunkHeld(chunks, c)
    <3>1. IndexTypeOK
        BY <1>1 DEF IndexInv
    <3>2. PICK x \in ChunkId : ReapPhysicalPageIfDead(x, l)
        BY <2>1
    <3> QED
        BY <3>1, <3>2 DEF ReapPhysicalPageIfDead, SafeToReap, ChunkHeld, IndexTypeOK
  <2> QED
      BY <2>2, <2>3, NothingFetched, CountsStill
<1>4. CASE SweepBlob
  <2>1. PICK b \in candidates : PurgeBlob(b)
      BY <1>4 DEF SweepBlob
  <2>2. b \in Blob
      BY <1>1, <2>1 DEF TypeInv, IndexTypeOK
  <2>3. CountsOver(blobs', chunks')
      BY <1>1, <2>1, <2>2, CountsPurge DEF CountsInv
  <2>4. compact'.pc # "store"
      BY <1>4 DEF SweepBlob
  <2> QED
      BY <2>3, <2>4, NothingFetched DEF CountsInv
<1>5. CASE StoreRecord
  <2>1. PICK l \in compact.moved, c \in ChunkId :
            /\ l = FirstOf(compact.moved) /\ l \in Loc /\ c = At(files, l).chunk
            /\ chunks[c] # None /\ UNCHANGED blobs /\ compact'.pc = "relocate"
            /\ chunks'[c] = [ns |-> NS, rc |-> compact.held, loc |-> l]
            /\ \A x \in ChunkId : x # c => chunks'[x] = chunks[x]
      BY <1>1, <1>5, StoreIs
  <2>2. compact.held = chunks[c].rc
    <3>1. compact.pc = "store"
        BY <1>5 DEF StoreRecord
    <3> QED
        BY <2>1, <3>1 DEF CountsInv, FetchedCount
  <2>3. [ns |-> NS, rc |-> compact.held, loc |-> l] \in ChunkEntry
      BY <1>1, <2>1, CompactIs, NSAssumption DEF ChunkEntry
  <2>4. chunks'[c] # None /\ chunks'[c].rc = chunks[c].rc
      BY <2>1, <2>2, <2>3, NoneAssumption
  <2>5. \A x \in ChunkId : ChunkHeld(chunks', x) = ChunkHeld(chunks, x)
      BY <2>1, <2>4 DEF ChunkHeld
  <2>6. compact'.pc # "store"
      BY <2>1
  <2> QED
      BY <2>1, <2>5, <2>6, NothingFetched, CountsStill
<1>6. CASE FetchRecord
  <2>1. PICK c : c = At(files, FirstOf(compact.moved)).chunk
      OBVIOUS
  <2>2. /\ compact' = IF chunks[c] = None THEN IdleCompact
                      ELSE [compact EXCEPT !.pc = "store", !.held = chunks[c].rc,
                                           !.nonce = nonce[c]]
        /\ UNCHANGED <<blobs, chunks, files>>
      BY <1>6, <2>1, HasPageIs DEF FetchRecord, Step, ixVars
  <2>3. FetchedCount'
    <3>1. CASE chunks[c] = None
      <4>1. compact'.pc # "store"
          BY <2>2, <3>1 DEF IdleCompact
      <4> QED
          BY <4>1, NothingFetched
    <3>2. CASE chunks[c] # None
      <4>1. compact'.held = chunks[c].rc /\ compact'.moved = compact.moved
          BY <1>2, <2>2, <3>2
      <4>2. At(files', FirstOf(compact'.moved)).chunk = c
          BY <2>1, <2>2, <4>1
      <4> QED
          BY <2>2, <4>1, <4>2 DEF FetchedCount
    <3> QED
        BY <3>1, <3>2
  <2> QED
      BY <2>2, <2>3, CountsStill
<1>7. CASE \/ ScanPages \/ MarkPage \/ SweepBlobs \/ Reconcile \/ BeginRewrite
           \/ RewriteSegment \/ DeleteSegmentFile \/ CancelCompact
  <2>1. UNCHANGED <<blobs, chunks>>
      BY <1>7 DEF ScanPages, MarkPage, SweepBlobs, Reconcile, BeginRewrite, RewriteSegment,
                  DeleteSegmentFile, CancelCompact, PurgeScan, ReconcileDeadStats, ixVars
  <2>2. compact'.pc # "store"
    <3>1. \/ compact' = IdleCompact \/ compact' = NextInQueue \/ compact' = NextSegment
          \/ compact' = [compact EXCEPT !.pc = "purge"]
          \/ compact' = [IdleCompact EXCEPT !.pc = "wait"]
          \/ \E todo : compact' = [compact EXCEPT !.pc = "rewrite", !.todo = todo]
          \/ \E moved : compact' = [compact EXCEPT !.pc = "relocate", !.moved = moved]
          \/ \E queue : compact' = [IdleCompact EXCEPT !.pc = IF queue = {} THEN "sweep"
                                                              ELSE "reap", !.queue = queue]
        BY <1>7, Zenon DEF ScanPages, MarkPage, SweepBlobs, Reconcile, BeginRewrite,
                           RewriteSegment, DeleteSegmentFile, CancelCompact, Step
    <3>2. CASE compact' = IdleCompact
        BY <3>2 DEF IdleCompact
    <3>3. CASE compact' = NextInQueue
      <4>1. PICK rest : rest = compact.queue \ {FirstOf(compact.queue)}
          OBVIOUS
      <4>2. compact' = [compact EXCEPT !.pc = IF rest = {} THEN "sweep" ELSE "reap",
                                       !.queue = rest]
          BY <3>3, <4>1 DEF NextInQueue
      <4>3. compact'.pc = IF rest = {} THEN "sweep" ELSE "reap"
          BY <1>2, <4>2
      <4> QED
          BY <4>3
    <3>4. CASE compact' = NextSegment
      <4>1. PICK t : t = compact.todo \ {Min(compact.todo)}
          OBVIOUS
      <4>2. CASE compact' = [compact EXCEPT !.pc = "rewrite", !.todo = t]
        <5>1. compact'.pc = "rewrite"
            BY <1>2, <4>2
        <5> QED
            BY <5>1
      <4>3. compact' = IdleCompact \/ compact' = [compact EXCEPT !.pc = "rewrite", !.todo = t]
          BY <3>4, <4>1 DEF NextSegment
      <4> QED
          BY <3>2, <4>2, <4>3
    <3>5. CASE compact' = [compact EXCEPT !.pc = "purge"]
        BY <1>2, <3>5
    <3>6. CASE compact' = [IdleCompact EXCEPT !.pc = "wait"]
        BY <3>6 DEF IdleCompact
    <3>7. CASE \E todo : compact' = [compact EXCEPT !.pc = "rewrite", !.todo = todo]
        BY <1>2, <3>7
    <3>8. CASE \E moved : compact' = [compact EXCEPT !.pc = "relocate", !.moved = moved]
        BY <1>2, <3>8
    <3>9. CASE \E queue : compact' = [IdleCompact EXCEPT !.pc = IF queue = {} THEN "sweep"
                                                               ELSE "reap", !.queue = queue]
        BY <3>9 DEF IdleCompact
    <3> QED
        BY <3>1, <3>2, <3>3, <3>4, <3>5, <3>6, <3>7, <3>8, <3>9
  <2> QED
      BY <2>1, <2>2, NothingFetched, CountsStill
<1> QED
    BY <1>3, <1>4, <1>5, <1>6, <1>7 DEF CompactNext

LEMMA CountsStep ==
    ASSUME OneManifest, CompactsOnly, "delete" \notin Alongside,
           CompactingInv, TypeInv', CountsInv, [StoreNext]_vars
    PROVE  CountsInv'
<1>1. RunningNext
    BY RunsOnSteps DEF CompactsOnly, CompactingInv
<1>2. IndexInv
    BY DEF CompactingInv
<1>3. CASE PutNext
    BY <1>3, CountsPutNext
<1>4. CASE CompactNext
    BY <1>4, CountsCompactNext
<1>5. CASE \E k \in Key : Delete(k)
  <2>1. PICK k \in Key : Delete(k)
      BY <1>5
  <2>2. ~Compacting /\ UNCHANGED compact /\ CommitDelete(NS, k)
      BY <2>1 DEF Delete, MayCall, OnlyIndex
  <2>3. compact'.pc # "store"
      BY <2>2 DEF Compacting
  <2>4. CountsOver(blobs', chunks')
      BY <1>2, <2>2, CountsDelete DEF CountsInv
  <2> QED
      BY <2>3, <2>4, NothingFetched DEF CountsInv
<1>6. CASE (\E old, new \in Key : Rename(old, new)) \/ GetNext \/ UNCHANGED vars
  <2>1. UNCHANGED <<blobs, chunks, files, compact>>
    <3>1. CASE \E old, new \in Key : Rename(old, new)
        BY <3>1 DEF Rename, OnlyIndex, CommitRenameRef, volVars
    <3>2. CASE GetNext \/ UNCHANGED vars
        BY <3>2, GetChangesNothing DEF vars, ixVars, volVars
    <3> QED
        BY <1>6, <3>1, <3>2
  <2>2. FetchedCount'
      BY <2>1 DEF CountsInv, FetchedCount
  <2> QED
      BY <2>1, <2>2, CountsStill
<1> QED
    BY <1>1, <1>3, <1>4, <1>5, <1>6 DEF RunningNext

LEMMA CountsInit ==
    ASSUME StoreInit
    PROVE  CountsInv
<1>1. /\ compact = IdleCompact
      /\ \A b \in Blob : blobs[b] = None
      /\ \A c \in ChunkId : chunks[c] = None
    BY DEF StoreInit, IndexInit
<1>2. compact.pc # "store"
    BY <1>1 DEF IdleCompact
<1>3. ASSUME NEW c \in ChunkId
      PROVE  IsFiniteSet(HeldIn(blobs, c)) /\ ChunkHeld(chunks, c) = Cardinality(HeldIn(blobs, c))
  <2>1. HeldIn(blobs, c) = {}
    <3>1. \A u : u \notin HeldIn(blobs, c)
        BY <1>1, HeldMember
    <3> QED
        BY <3>1
  <2>2. ChunkHeld(chunks, c) = 0
      BY <1>1 DEF ChunkHeld
  <2> QED
      BY <2>1, <2>2, FS_EmptySet
<1> QED
    BY <1>2, <1>3 DEF CountsInv, CountsOver, FetchedCount

LEMMA CountsMean ==
    ASSUME CountsInv
    PROVE  ChunkCountsMatchManifests
<1>1. \A b \in Blob, c \in ChunkId : HeldBy(b, c) = HeldOf(blobs, b, c)
    BY DEF HeldBy, HeldOf
<1>2. \A c \in ChunkId : UNION {HeldBy(b, c) : b \in Blob} = HeldIn(blobs, c)
    BY <1>1 DEF HeldIn
<1> QED
    BY <1>2 DEF CountsInv, CountsOver, ChunkCountsMatchManifests

\* If no Delete runs beside a Compact either (the count that a relocation stores back,
\* store.go:1416, would undo it), the count of a chunk is exactly the sum of the counts
\* of the manifests it occurs in, so both become collectable at once.
THEOREM StoreCountsMatch ==
    ASSUME OneManifest, NoSharedContent, CompactsOnly, "delete" \notin Alongside
    PROVE  StoreSpec => []ChunkCountsMatchManifests
<1>1. StoreInit => CompactingInv /\ CountsInv
    BY CompactingInit, CountsInit
<1>2. CompactingInv /\ CountsInv /\ [StoreNext]_vars => (CompactingInv /\ CountsInv)'
  <2> SUFFICES ASSUME CompactingInv, CountsInv, [StoreNext]_vars
               PROVE  CompactingInv' /\ CountsInv'
      OBVIOUS
  <2>1. CompactingInv'
      BY CompactingStep
  <2>2. TypeInv'
      BY <2>1 DEF CompactingInv, CopiesInv
  <2> QED
      BY <2>1, <2>2, CountsStep
<1>3. CompactingInv /\ CountsInv => ChunkCountsMatchManifests
    BY CountsMean
<1> QED
    BY <1>1, <1>2, <1>3, PTL DEF StoreSpec

-----------------------------------------------------------------------------
(* Recovery: crashes, Close, replays, RebuildIndex and DeleteNamespace     *)

\* No Compact has run, after which the logs name pages that are flagged or gone; no
\* nonces, which the logs and the pages do not have, are to be recovered; and what
\* RebuildIndex puts together, every page a chunk and every content's chunks by their
\* numbers, are chunks of one page and contents that were always cut the same way.
RecoversOnly ==
    /\ MaxCompacts = 0
    /\ ~Encrypted
    /\ MaxRebuilds = 0 \/ (OnePage /\ OneManifest)

NeverCompacts ==
    /\ compact.pc = "idle"
    /\ used \in [compacts : Nat, crashes : Nat, closes : Nat, rebuilds : Nat, drops : Nat]

\* What is recorded of a blob is one of its manifests, of chunks that are recorded.
ManifestOK(b) ==
    /\ blobs[b].ids \in Manifests[b]
    /\ \A i \in DOMAIN blobs[b].ids : chunks[blobs[b].ids[i]] # None

ManifestsInv == \A b \in Blob : blobs[b] # None => ManifestOK(b)

\* References are to recorded blobs, and a Put flags copies of one only.
RefsInv    == \A k \in Key : refs[NS][k] # None => blobs[refs[NS][k].blob] # None
MarkingInv == \A w \in Writer : put[w].pc = "marking" => blobs[put[w].blob] # None

Entries(fs) == UNION {ToSet(fs[s].wal) : s \in DOMAIN fs}

\* An entry of a log, once its blob is not recorded, is all that its chunks need.  No
\* copy that another blob's Put may flag is among its own.
EntryOK(x) ==
    /\ x.ids \in Manifests[x.blob]
    /\ \A i \in DOMAIN x.ids : Has(files, x.at[i])
    /\ blobs[x.blob] = None =>
          \A i \in DOMAIN x.ids : Whole(files, x.ids[i], x.at[i], None)
    /\ \A w \in Writer : \A j \in Pending(w) : \A i \in DOMAIN x.ids :
          put[w].at[j] = x.at[i] => put[w].blob = x.blob

LogsInv == \A x \in Entries(files) : EntryOK(x)

\* The first page of a chunk says where in which blob the chunk belongs.
HeaderOK(x) ==
    x.part = 1 =>
        /\ x.blob \in Blob
        /\ \E ids \in Manifests[x.blob] :
              x.total = Len(ids) /\ x.seq \in DOMAIN ids /\ x.chunk = ids[x.seq]

HeadersInv == \A l \in Place : Has(files, l) => HeaderOK(At(files, l))

HistoryInv == ManifestsInv /\ RefsInv /\ MarkingInv /\ LogsInv /\ HeadersInv

RecoveryInv == CopiesInv /\ NeverCompacts /\ HistoryInv

-----------------------------------------------------------------------------
(* Logs and headers that a step leaves alone                               *)

\* The entries are those that replay finds.
LEMMA EntriesAre ==
    ASSUME FilesInv
    PROVE  /\ \A x \in Entries(files) : x \in LogEntry
           /\ \A e \in Logged : Entry(e) \in Entries(files)
<1>1. \A s \in DOMAIN files : files[s].wal \in Seq(LogEntry)
    BY DEF FilesInv, EngineOK, FileOK, SegFile
<1>2. ASSUME NEW x \in Entries(files) PROVE x \in LogEntry
  <2>1. PICK s \in DOMAIN files : x \in ToSet(files[s].wal)
      BY <1>2 DEF Entries
  <2>2. PICK n \in DOMAIN files[s].wal : x = files[s].wal[n]
      BY <2>1 DEF ToSet
  <2> QED
      BY <1>1, <2>2
<1>3. ASSUME NEW e \in Logged PROVE Entry(e) \in Entries(files)
  <2>1. e[1] \in DOMAIN files /\ e[2] \in DOMAIN files[e[1]].wal
      BY LoggedIs
  <2>2. Entry(e) \in ToSet(files[e[1]].wal)
      BY <2>1 DEF Entry, ToSet
  <2> QED
      BY <2>1, <2>2 DEF Entries
<1> QED
    BY <1>2, <1>3

\* What an entry of a log names.
LEMMA EntryType ==
    ASSUME NEW x \in LogEntry
    PROVE  /\ x.blob \in Blob /\ x.ids \in Seq(ChunkId) /\ x.at \in Seq(Loc)
           /\ DOMAIN x.at = DOMAIN x.ids
           /\ \A i \in DOMAIN x.ids :
                 x.ids[i] \in ChunkId /\ x.at[i] \in Loc /\ x.at[i] \in Place
<1>1. /\ x.blob \in Blob /\ x.ids \in Seq(ChunkId) /\ x.at \in Seq(Loc)
      /\ DOMAIN x.at = DOMAIN x.ids
    BY DEF LogEntry
<1>2. \A i \in DOMAIN x.ids : x.ids[i] \in ChunkId /\ x.at[i] \in Loc
    BY <1>1
<1> QED
    BY <1>1, <1>2, LocIsPlace

\* Logs with the same entries.
LEMMA EntriesKept ==
    ASSUME \A s \in DOMAIN files : s \in DOMAIN files' /\ files'[s].wal = files[s].wal,
           \A s \in DOMAIN files' \ DOMAIN files : files'[s].wal = << >>
    PROVE  Entries(files') = Entries(files)
<1>1. \A s \in DOMAIN files' \ DOMAIN files : ToSet(files'[s].wal) = {}
    BY DEF ToSet
<1> QED
    BY <1>1 DEF Entries

\* An entry stays true when its copies stay, or have been recorded, and no Put has come
\* to have one of them.
LEMMA EntryKept ==
    ASSUME NEW x \in LogEntry, EntryOK(x),
           \A m \in Place : Has(files, m) => Has(files', m),
           blobs[x.blob] # None => blobs'[x.blob] # None,
           blobs'[x.blob] = None => \A i \in DOMAIN x.ids : Stays(x.ids[i], x.at[i]),
           \A w \in Writer : \A j \in Pending(w)' :
               \/ j \in Pending(w) /\ put'[w].at = put[w].at /\ put'[w].blob = put[w].blob
               \/ ~Has(files, put'[w].at[j])
    PROVE  EntryOK(x)'
<1>1. \A i \in DOMAIN x.ids : x.ids[i] \in ChunkId /\ x.at[i] \in Place
    BY EntryType
<1>2. \A i \in DOMAIN x.ids : Has(files', x.at[i])
    BY <1>1 DEF EntryOK
<1>3. ASSUME blobs'[x.blob] = None, NEW i \in DOMAIN x.ids
      PROVE  Whole(files', x.ids[i], x.at[i], None)
  <2>1. Whole(files, x.ids[i], x.at[i], None) /\ Stays(x.ids[i], x.at[i])
      BY <1>3 DEF EntryOK
  <2> QED
      BY <2>1, WholeStays
<1>4. ASSUME NEW w \in Writer, NEW j \in Pending(w)', NEW i \in DOMAIN x.ids,
             put'[w].at[j] = x.at[i]
      PROVE  put'[w].blob = x.blob
  <2>1. Has(files, x.at[i])
      BY DEF EntryOK
  <2>2. j \in Pending(w) /\ put'[w].at = put[w].at /\ put'[w].blob = put[w].blob
      BY <1>4, <2>1
  <2> QED
      BY <1>4, <2>2 DEF EntryOK
<1> QED
    BY <1>2, <1>3, <1>4 DEF EntryOK

\* What leaves the files alone and forgets no blob leaves logs and headers true.
LEMMA LogsKept ==
    ASSUME FilesInv, LogsInv, HeadersInv, UNCHANGED files,
           \A b \in Blob : blobs[b] # None => blobs'[b] # None,
           \A w \in Writer : \A j \in Pending(w)' :
               j \in Pending(w) /\ put'[w].at = put[w].at /\ put'[w].blob = put[w].blob
    PROVE  LogsInv' /\ HeadersInv'
<1>1. \A m \in Place : Has(files, m) => Has(files', m)
    OBVIOUS
<1>2. ASSUME NEW x \in Entries(files') PROVE EntryOK(x)'
  <2>1. x \in Entries(files)
      BY <1>2
  <2>2. x \in LogEntry /\ EntryOK(x)
      BY <2>1, EntriesAre DEF LogsInv
  <2>3. x.blob \in Blob
      BY <2>2, EntryType
  <2>4. \A i \in DOMAIN x.ids : Stays(x.ids[i], x.at[i])
      BY SameStays
  <2> QED
      BY <1>1, <2>2, <2>3, <2>4, EntryKept
<1>3. HeadersInv'
    BY DEF HeadersInv
<1> QED
    BY <1>2, <1>3 DEF LogsInv

\* Blobs and chunks stay recorded: manifests stay true, and references to them.
LEMMA ManifestsKept ==
    ASSUME ManifestsInv, IndexTypeOK,
           \A b \in Blob : blobs'[b] # None =>
               blobs[b] # None /\ blobs'[b].ids = blobs[b].ids,
           \A c \in ChunkId : chunks[c] # None => chunks'[c] # None
    PROVE  ManifestsInv'
<1> SUFFICES ASSUME NEW b \in Blob, blobs'[b] # None PROVE ManifestOK(b)'
    BY DEF ManifestsInv
<1>1. ManifestOK(b) /\ blobs'[b].ids = blobs[b].ids /\ blobs[b] # None
    BY DEF ManifestsInv
<1>2. blobs[b].ids \in Seq(ChunkId)
    BY <1>1 DEF IndexTypeOK, BlobEntry
<1> QED
    BY <1>1, <1>2 DEF ManifestOK

-----------------------------------------------------------------------------
(* Put: what replay would make of it                                       *)

\* What leaves the index alone.
LEMMA IndexStill ==
    ASSUME ManifestsInv, RefsInv, UNCHANGED <<refs, blobs, chunks>>
    PROVE  ManifestsInv' /\ RefsInv'
BY DEF ManifestsInv, ManifestOK, RefsInv

\* The headers that WriteBlob patches.
LEMMA HeadersWriteBlob ==
    ASSUME TypeInv, HeadersInv, NEW w \in Writer, NEW k \in Key, NEW b \in Content[NS],
           WriteBlob(w, k, b)
    PROVE  HeadersInv'
<1>1. PICK ids \in Manifests[b] \ {<< >>} :
          Written(b, ids).next <= MaxSegment + 1 /\ files' = Written(b, ids).files
    BY DEF WriteBlob
<1>2. PICK v : v = Written(b, ids)
    OBVIOUS
<1>3. b \in Blob /\ ids \in Seq(ChunkId) /\ ids \in Manifests[b]
    BY ContentIsBlob, ManifestAssumption
<1>4. WrittenOK(v, b, ids, Len(ids)) /\ files' = v.files
    BY <1>1, <1>2, <1>3, WrittenIs DEF TypeInv
<1>5. Len(ids) \in Nat /\ DOMAIN ids = 1..Len(ids)
    BY <1>3
<1>6. Keeps(files, files')
    BY <1>4 DEF WrittenOK
<1>7. ASSUME NEW m \in Place, Has(files', m) PROVE HeaderOK(At(files', m))
  <2>1. CASE Has(files, m)
    <3>1. At(files', m) = At(files, m) /\ HeaderOK(At(files, m))
        BY <1>6, <2>1 DEF Keeps, HeadersInv
    <3> QED
        BY <3>1
  <2>2. CASE ~Has(files, m)
    <3>1. PICK i \in 1..Len(ids) : IsPartOf(ids[i], v.at[i], m)
        BY <1>4, <1>7, <2>2, Zenon DEF WrittenOK
    <3>2. PICK c, l, t : c = ids[i] /\ l = v.at[i] /\ t = Len(ids)
        OBVIOUS
    <3>3. PICK p \in 1..Pages[c] : m = PartOf(l, p)
        BY <3>1, <3>2 DEF IsPartOf
    <3>4. Added(files, v.files, c, b, i, t, l)
        BY <1>4, <3>2, Zenon DEF WrittenOK
    <3>5. At(files', m) = ChunkPages(c, b, i, t, l)[p]
        BY <1>4, <3>3, <3>4, Zenon DEF Added
    <3>6. /\ At(files', m).part = p
          /\ p = 1 => At(files', m).blob = b /\ At(files', m).total = t
          /\ At(files', m).seq = i /\ At(files', m).chunk = c
        BY <3>5 DEF ChunkPages
    <3> QED
        BY <1>3, <1>5, <3>2, <3>6 DEF HeaderOK
  <2> QED
      BY <2>1, <2>2
<1> QED
    BY <1>7 DEF HeadersInv

\* WriteBlob patches headers and has yet to log, and what no entry names yet is its own.
LEMMA HistoryWriteBlob ==
    ASSUME RecoveryInv, NEW w \in Writer, NEW k \in Key, NEW b \in Content[NS],
           WriteBlob(w, k, b)
    PROVE  HistoryInv'
<1> USE DEF RecoveryInv, HistoryInv, CopiesInv
<1>1. /\ put'[w].pc = "written"
      /\ \A v \in Writer : v # w => put'[v] = put[v]
      /\ Keeps(files, files')
      /\ \A i \in DOMAIN put'[w].ids : ~Has(files, put'[w].at[i])
    BY WriteIs
<1>2. UNCHANGED <<refs, blobs, chunks>>
    BY DEF WriteBlob, ixVars
<1>3. ManifestsInv' /\ RefsInv'
    BY <1>2, IndexStill
<1>4. MarkingInv'
    BY <1>1, <1>2 DEF MarkingInv
<1>5. HeadersInv'
    BY HeadersWriteBlob
<1>6. Entries(files') = Entries(files)
    BY <1>1, EntriesKept DEF Keeps
<1>7. \A m \in Place : Has(files, m) => Has(files', m)
    BY <1>1 DEF Keeps
<1>8. ASSUME NEW v \in Writer, NEW j \in Pending(v)'
      PROVE  \/ j \in Pending(v) /\ put'[v].at = put[v].at /\ put'[v].blob = put[v].blob
             \/ ~Has(files, put'[v].at[j])
  <2>1. CASE v = w
    <3>1. j \in DOMAIN put'[w].ids
        BY <1>1, <2>1 DEF Pending
    <3> QED
        BY <1>1, <2>1, <3>1
  <2>2. CASE v # w
    <3>1. put'[v] = put[v]
        BY <1>1, <2>2
    <3> QED
        BY <3>1 DEF Pending
  <2> QED
      BY <2>1, <2>2
<1>9. ASSUME NEW x \in Entries(files) PROVE EntryOK(x)'
  <2>1. x \in LogEntry /\ EntryOK(x)
      BY EntriesAre DEF LogsInv, TypeInv
  <2>2. \A i \in DOMAIN x.ids : Stays(x.ids[i], x.at[i])
      BY <1>1, <2>1, EntryType, KeepsStays
  <2> QED
      BY <1>2, <1>7, <1>8, <2>1, <2>2, EntryKept
<1>10. LogsInv'
    BY <1>6, <1>9 DEF LogsInv
<1> QED
    BY <1>3, <1>4, <1>5, <1>10

\* The entry is logged while the Put's copies are whole.
LEMMA HistoryLogBlob ==
    ASSUME ~Encrypted, RecoveryInv, NEW w \in Writer, LogBlob(w)
    PROVE  HistoryInv'
<1> USE DEF RecoveryInv, HistoryInv, CopiesInv
<1>1. /\ put[w].pc = "written" /\ put' = [put EXCEPT ![w].pc = "logged"]
      /\ UNCHANGED <<refs, blobs, chunks>>
    BY DEF LogBlob, ixVars
<1>2. BusyPutOK(put[w])
    BY <1>1, BusyIs DEF TypeInv
<1>3. PICK entry : entry = [blob |-> put[w].blob, ids |-> put[w].ids, at |-> put[w].at]
    OBVIOUS
<1>4. /\ entry \in LogEntry /\ active \in DOMAIN files /\ DOMAIN files' = DOMAIN files
      /\ \A s \in DOMAIN files :
            files'[s].wal = IF s = active THEN Append(files[s].wal, entry) ELSE files[s].wal
    BY <1>3, LogIs DEF TypeInv
<1>5. /\ \A c, l : Stays(c, l)
      /\ \A m : /\ Has(files', m) <=> Has(files, m)
                /\ Has(files, m) => At(files', m) = At(files, m)
    BY LogStays DEF TypeInv
<1>6. ManifestsInv' /\ RefsInv'
    BY <1>1, IndexStill
<1>7. HeadersInv'
    BY <1>5 DEF HeadersInv
<1>8. /\ put'[w].pc = "logged" /\ put'[w].ids = put[w].ids /\ put'[w].at = put[w].at
      /\ put'[w].blob = put[w].blob
      /\ \A v \in Writer : v # w => put'[v] = put[v]
  <2>1. put[w] = [pc |-> put[w].pc, key |-> put[w].key, blob |-> put[w].blob,
                  ids |-> put[w].ids, at |-> put[w].at, dups |-> put[w].dups]
      BY <1>2, BusyMeans
  <2>2. put'[w] = [put[w] EXCEPT !.pc = "logged"]
        /\ \A v \in Writer : v # w => put'[v] = put[v]
      BY <1>1 DEF TypeInv, PutsInv
  <2> QED
      BY <2>1, <2>2
<1>9. MarkingInv'
    BY <1>1, <1>8 DEF MarkingInv
<1>10. ASSUME NEW v \in Writer
       PROVE  Pending(v)' = Pending(v) /\ put'[v].at = put[v].at /\ put'[v].blob = put[v].blob
    BY <1>1, <1>8 DEF Pending
<1>11. ASSUME NEW x \in Entries(files) PROVE EntryOK(x)'
  <2>1. x \in LogEntry /\ EntryOK(x)
      BY EntriesAre DEF LogsInv, TypeInv
  <2>2. \A i \in DOMAIN x.ids : Stays(x.ids[i], x.at[i])
      BY <1>5
  <2> QED
      BY <1>1, <1>5, <1>10, <2>1, <2>2, EntryKept
<1>12. EntryOK(entry)'
  <2>1. PendingInv'
      BY CopiesLogBlob
  <2>2. Pending(w)' = DOMAIN put[w].ids
      BY <1>8 DEF Pending
  <2>3. ASSUME NEW i \in DOMAIN put[w].ids
        PROVE  /\ Whole(files', put[w].ids[i], put[w].at[i], None)
               /\ \A v \in Writer : \A j \in Pending(v)' :
                     put'[v].at[j] = put[w].at[i] => v = w
    <3>1. PendingOK(w, i)'
        BY <2>1, <2>2 DEF PendingInv
    <3>2. Sealed(put[w].at[i])' = None
        BY DEF Sealed
    <3> QED
        BY <1>8, <3>1, <3>2 DEF PendingOK
  <2>4. /\ entry.blob = put[w].blob /\ entry.ids = put[w].ids /\ entry.at = put[w].at
      BY <1>3
  <2>5. entry.ids \in Manifests[entry.blob]
      BY <1>2, <2>4, BusyMeans
  <2>6. \A i \in DOMAIN entry.ids : Has(files', entry.at[i])
      BY <1>2, <1>5, <2>4, BusyMeans, HasPageIs
  <2>7. \A i \in DOMAIN entry.ids : Whole(files', entry.ids[i], entry.at[i], None)
      BY <2>3, <2>4
  <2>8. ASSUME NEW v \in Writer, NEW j \in Pending(v)', NEW i \in DOMAIN entry.ids,
               put'[v].at[j] = entry.at[i]
        PROVE  put'[v].blob = entry.blob
    <3>1. v = w
        BY <2>3, <2>4, <2>8
    <3> QED
        BY <1>8, <2>4, <3>1
  <2> QED
      BY <2>5, <2>6, <2>7, <2>8 DEF EntryOK
<1>13. ASSUME NEW x \in Entries(files') PROVE x \in Entries(files) \/ x = entry
  <2>1. PICK s \in DOMAIN files : x \in ToSet(files'[s].wal)
      BY <1>4, <1>13 DEF Entries
  <2>2. CASE s # active
    <3>1. files'[s].wal = files[s].wal
        BY <1>4, <2>2
    <3> QED
        BY <2>1, <3>1 DEF Entries
  <2>3. CASE s = active
    <3>1. files[s].wal \in Seq(LogEntry)
        BY DEF TypeInv, FilesInv, EngineOK, FileOK, SegFile
    <3>2. PICK n \in DOMAIN Append(files[s].wal, entry) : x = Append(files[s].wal, entry)[n]
        BY <1>4, <2>1, <2>3 DEF ToSet
    <3>3. (n \in DOMAIN files[s].wal /\ x = files[s].wal[n]) \/ x = entry
        BY <1>4, <3>1, <3>2
    <3> QED
        BY <3>3 DEF Entries, ToSet
  <2> QED
      BY <2>2, <2>3
<1>14. LogsInv'
    BY <1>11, <1>12, <1>13 DEF LogsInv
<1> QED
    BY <1>6, <1>7, <1>9, <1>14

\* A Put that is refused leaves its pages and its entry behind.
LEMMA HistoryCheckQuota ==
    ASSUME RecoveryInv, NEW w \in Writer, CheckQuota(w)
    PROVE  HistoryInv'
<1> USE DEF RecoveryInv, HistoryInv, CopiesInv
<1>1. /\ UNCHANGED <<refs, blobs, chunks, files>> /\ put[w].pc = "logged"
    BY DEF CheckQuota, ixVars, volVars
<1>2. /\ \A v \in Writer : \A j \in Pending(v)' : j \in Pending(v) /\ put'[v].at = put[v].at
      /\ \A v \in Writer : v # w => put'[v] = put[v]
      /\ put'[w] = IdlePut \/ put'[w] = [put[w] EXCEPT !.pc = "checked"]
    BY CopiesCheckQuota
<1>3. put[w] = [pc |-> put[w].pc, key |-> put[w].key, blob |-> put[w].blob,
                ids |-> put[w].ids, at |-> put[w].at, dups |-> put[w].dups]
    BY <1>1, BusyIs, BusyMeans DEF TypeInv
<1>4. /\ put'[w].pc \in {"idle", "checked"}
      /\ Pending(w)' # {} => put'[w].blob = put[w].blob
  <2>1. CASE put'[w] = IdlePut
    <3>1. Pending(w)' = {}
        BY <2>1 DEF Pending, IdlePut
    <3> QED
        BY <2>1, <3>1 DEF IdlePut
  <2>2. CASE put'[w] = [put[w] EXCEPT !.pc = "checked"]
      BY <1>3, <2>2
  <2> QED
      BY <1>2, <2>1, <2>2
<1>5. ManifestsInv' /\ RefsInv'
    BY <1>1, IndexStill
<1>6. MarkingInv'
    BY <1>1, <1>2, <1>4 DEF MarkingInv
<1>7. \A v \in Writer : \A j \in Pending(v)' :
          j \in Pending(v) /\ put'[v].at = put[v].at /\ put'[v].blob = put[v].blob
    BY <1>2, <1>4
<1>8. LogsInv' /\ HeadersInv'
    BY <1>1, <1>7, LogsKept DEF TypeInv
<1> QED
    BY <1>5, <1>6, <1>8

\* So does one that is cancelled.
LEMMA HistoryCancelPut ==
    ASSUME RecoveryInv, NEW w \in Writer, CancelPut(w)
    PROVE  HistoryInv'
<1> USE DEF RecoveryInv, HistoryInv, CopiesInv
<1>1. UNCHANGED <<refs, blobs, chunks, files>>
    BY DEF CancelPut, ixVars, volVars
<1>2. /\ \A v \in Writer : \A j \in Pending(v)' : j \in Pending(v) /\ put'[v] = put[v]
      /\ \A v \in Writer : v # w => put'[v] = put[v]
      /\ put'[w] = IdlePut
    BY CopiesCancelPut
<1>3. put'[w].pc = "idle"
    BY <1>2 DEF IdlePut
<1>4. ManifestsInv' /\ RefsInv'
    BY <1>1, IndexStill
<1>5. MarkingInv'
    BY <1>1, <1>2, <1>3 DEF MarkingInv
<1>6. \A v \in Writer : \A j \in Pending(v)' :
          j \in Pending(v) /\ put'[v].at = put[v].at /\ put'[v].blob = put[v].blob
    BY <1>2
<1>7. LogsInv' /\ HeadersInv'
    BY <1>1, <1>6, LogsKept DEF TypeInv
<1> QED
    BY <1>4, <1>5, <1>7

\* A commit records the blob, and every chunk of it that had no record.
LEMMA CommitRecords ==
    ASSUME TypeInv, RecordsInv, NEW w \in Writer, CommitBlob(w)
    PROVE  /\ \A k \in Key : refs'[NS][k] = refs[NS][k] \/ refs'[NS][k].blob = put[w].blob
           /\ \A b \in Blob : blobs[b] # None =>
                 blobs'[b] # None /\ blobs'[b].ids = blobs[b].ids
           /\ \A b \in Blob : b # put[w].blob /\ blobs'[b] # None => blobs[b] # None
           /\ blobs'[put[w].blob] # None
           /\ blobs[put[w].blob] = None => blobs'[put[w].blob].ids = put[w].ids
           /\ \A c \in ChunkId : chunks[c] # None => chunks'[c] # None
           /\ \A i \in DOMAIN put[w].ids : chunks'[put[w].ids[i]] # None
<1>1. PICK p : p = put[w]
    OBVIOUS
<1>2. p.pc = "checked" /\ \E custom \in Meta : CommitPut(NS, p.key, p.blob, p.ids, p.at, custom)
    BY <1>1 DEF CommitBlob
<1>3. BusyPutOK(p)
    BY <1>1, <1>2, BusyIs DEF TypeInv
<1>4. /\ p.blob \in Blob /\ p.key \in Key /\ p.ids \in Seq(ChunkId)
      /\ p.at \in [DOMAIN p.ids -> Loc]
    BY <1>3, BusyMeans
<1>5. PICK custom \in Meta : CommitPut(NS, p.key, p.blob, p.ids, p.at, custom)
    BY <1>2
<1>6. PICK left : left = Release(chunks, Replaced(NS, p.key, p.blob))
    OBVIOUS
<1>7. /\ refs' = [refs EXCEPT ![NS][p.key] =
                     [blob |-> p.blob, count |-> Len(p.ids), custom |-> custom]]
      /\ blobs' = BlobsAfterPut(NS, p.key, p.blob, p.ids)
      /\ chunks' = Acquire(left, NS, p.ids, p.at)
    BY <1>5, <1>6 DEF CommitPut
<1>8. ASSUME NEW k \in Key PROVE refs'[NS][k] = refs[NS][k] \/ refs'[NS][k].blob = p.blob
  <2>1. refs \in [Namespace -> [Key -> RefEntry \cup {None}]]
      BY DEF TypeInv, IndexTypeOK
  <2> QED
      BY <1>4, <1>7, <2>1, NSAssumption
<1>9. \A b \in Blob : blobs[b] # None =>
          /\ blobs[b] \in BlobEntry /\ blobs[b].ids \in Seq(ChunkId)
          /\ blobs[b] = [rc |-> blobs[b].rc, ids |-> blobs[b].ids] /\ blobs[b].rc \in Int
    BY DEF TypeInv, IndexTypeOK, BlobEntry
<1>10. ASSUME NEW b \in Blob, blobs[b] # None
       PROVE  blobs'[b] # None /\ blobs'[b].ids = blobs[b].ids
  <2>1. \E n \in Int : blobs'[b] = [rc |-> n, ids |-> blobs[b].ids]
    <3>1. PICK rc, was : rc \in Int /\ was = blobs[b].ids /\ blobs[b] = [rc |-> rc, ids |-> was]
        BY <1>9, <1>10
    <3>2. \A n : [blobs[b] EXCEPT !.rc = n] = [rc |-> n, ids |-> was]
        BY <3>1
    <3>3. \/ blobs'[b] = blobs[b]
          \/ blobs'[b] = [blobs[b] EXCEPT !.rc = rc + 1]
          \/ blobs'[b] = [blobs[b] EXCEPT !.rc = rc - 1]
      <4>1. blobs' = BlobsAfterPut(NS, p.key, p.blob, p.ids) /\ blobs[b].rc = rc
          BY <1>7, <3>1
      <4>2. CASE b = p.blob
        <5>1. blobs'[b] = [blobs[b] EXCEPT !.rc = blobs[b].rc + 1]
            BY <1>10, <4>1, <4>2, Zenon DEF BlobsAfterPut
        <5> QED
            BY <4>1, <5>1
      <4>3. CASE b # p.blob
        <5>1. \/ blobs'[b] = [blobs[b] EXCEPT !.rc = blobs[b].rc - 1]
              \/ blobs'[b] = blobs[b]
            BY <4>1, <4>3, Zenon DEF BlobsAfterPut
        <5> QED
            BY <4>1, <5>1
      <4> QED
          BY <4>2, <4>3
    <3>4. rc + 1 \in Int /\ rc - 1 \in Int
        BY <3>1
    <3> QED
        BY <3>1, <3>2, <3>3, <3>4
  <2>2. \A n \in Int : [rc |-> n, ids |-> blobs[b].ids] \in BlobEntry
      BY <1>9, <1>10 DEF BlobEntry
  <2> QED
      BY <2>1, <2>2, NoneAssumption
<1>11. \A b \in Blob : b # p.blob /\ blobs'[b] # None => blobs[b] # None
    BY <1>7 DEF BlobsAfterPut
<1>12. blobs[p.blob] = None => blobs'[p.blob] # None /\ blobs'[p.blob].ids = p.ids
  <2>1. blobs[p.blob] = None => blobs'[p.blob] = [rc |-> 1, ids |-> p.ids]
      BY <1>4, <1>7 DEF BlobsAfterPut
  <2>2. [rc |-> 1, ids |-> p.ids] \in BlobEntry
      BY <1>4 DEF BlobEntry
  <2> QED
      BY <2>1, <2>2, NoneAssumption
<1>13. /\ left \in ChunkRecords
       /\ \A c \in ChunkId : left[c] # None => left[c].ns = NS
       /\ \A c \in ChunkId : chunks[c] # None => left[c] # None
  <2>1. Replaced(NS, p.key, p.blob) \in Seq(ChunkId)
      BY <1>4, NSAssumption, ReplacedType DEF TypeInv
  <2>2. chunks \in ChunkRecords
      BY DEF TypeInv, IndexTypeOK, ChunkRecords
  <2> QED
      BY <1>6, <2>1, <2>2, ReleaseHeld DEF RecordsInv, RecordOK
<1>14. \A c \in ChunkId :
           /\ left[c] # None => chunks'[c] # None
           /\ ChunkHeld(chunks', c) = ChunkHeld(left, c) + Count(p.ids, c)
    BY <1>4, <1>7, <1>13, NSAssumption, AcquireHeld
<1>15. ASSUME NEW i \in DOMAIN p.ids PROVE chunks'[p.ids[i]] # None
  <2>1. PICK c \in ChunkId : c = p.ids[i]
      BY <1>4
  <2>2. Count(p.ids, c) \in Nat /\ Count(p.ids, c) > 0
      BY <1>4, <2>1, CountType
  <2>3. left[c] = None => ChunkHeld(left, c) = 0
      BY DEF ChunkHeld
  <2>4. chunks'[c] = None => ChunkHeld(chunks', c) = 0
      BY DEF ChunkHeld
  <2> QED
      BY <1>14, <2>1, <2>2, <2>3, <2>4
<1> QED
    BY <1>1, <1>4, <1>8, <1>10, <1>11, <1>12, <1>13, <1>14, <1>15

\* A commit records the blob of its entry, so that the copies that it will flag are no
\* longer what a replay of that entry would need.
LEMMA HistoryCommitBlob ==
    ASSUME RecoveryInv, NEW w \in Writer, CommitBlob(w)
    PROVE  HistoryInv'
<1> USE DEF RecoveryInv, HistoryInv, CopiesInv
<1>1. PICK p : p = put[w]
    OBVIOUS
<1>2. /\ \A k \in Key : refs'[NS][k] = refs[NS][k] \/ refs'[NS][k].blob = p.blob
      /\ \A b \in Blob : blobs[b] # None => blobs'[b] # None /\ blobs'[b].ids = blobs[b].ids
      /\ \A b \in Blob : b # p.blob /\ blobs'[b] # None => blobs[b] # None
      /\ blobs'[p.blob] # None
      /\ blobs[p.blob] = None => blobs'[p.blob].ids = p.ids
      /\ \A c \in ChunkId : chunks[c] # None => chunks'[c] # None
      /\ \A i \in DOMAIN p.ids : chunks'[p.ids[i]] # None
    BY <1>1, CommitRecords
<1>3. /\ p.pc = "checked" /\ UNCHANGED files
      /\ put' = [put EXCEPT ![w] =
                   IF PutDuplicates(NS, p.key, p.blob, p.ids) = {} THEN IdlePut
                   ELSE [p EXCEPT !.pc = "marking",
                                  !.dups = PutDuplicates(NS, p.key, p.blob, p.ids)]]
    BY <1>1 DEF CommitBlob, volVars
<1>4. BusyPutOK(p)
    BY <1>1, <1>3, BusyIs DEF TypeInv
<1>5. p.ids \in Manifests[p.blob] /\ p.blob \in Blob
      /\ p = [pc |-> p.pc, key |-> p.key, blob |-> p.blob, ids |-> p.ids, at |-> p.at,
              dups |-> p.dups]
    BY <1>4, BusyMeans
<1>6. ASSUME NEW b \in Blob, blobs'[b] # None PROVE ManifestOK(b)'
  <2>1. CASE blobs[b] # None
    <3>1. ManifestOK(b) /\ blobs'[b].ids = blobs[b].ids
        BY <1>2, <2>1 DEF ManifestsInv
    <3>2. blobs[b].ids \in Seq(ChunkId)
        BY <2>1 DEF TypeInv, IndexTypeOK, BlobEntry
    <3> QED
        BY <1>2, <3>1, <3>2 DEF ManifestOK
  <2>2. CASE blobs[b] = None
    <3>1. b = p.blob /\ blobs'[b].ids = p.ids
        BY <1>2, <1>6, <2>2
    <3> QED
        BY <1>2, <1>5, <3>1 DEF ManifestOK
  <2> QED
      BY <2>1, <2>2
<1>7. RefsInv'
  <2>1. ASSUME NEW k \in Key, refs'[NS][k] # None PROVE blobs'[refs'[NS][k].blob] # None
    <3>1. CASE refs'[NS][k] = refs[NS][k]
      <4>1. refs[NS][k].blob \in Blob
          BY <2>1, <3>1, NSAssumption DEF TypeInv, IndexTypeOK, RefEntry
      <4> QED
          BY <1>2, <2>1, <3>1, <4>1 DEF RefsInv
    <3>2. CASE refs'[NS][k].blob = p.blob
        BY <1>2, <3>2
    <3> QED
        BY <1>2, <3>1, <3>2
  <2> QED
      BY <2>1 DEF RefsInv
<1>8. /\ \A v \in Writer : v # w => put'[v] = put[v]
      /\ put'[w].pc = "marking" => put'[w].blob = p.blob
      /\ Pending(w)' # {} => put'[w].blob = p.blob
  <2>1. PICK dups : dups = PutDuplicates(NS, p.key, p.blob, p.ids)
      OBVIOUS
  <2>2. /\ \A v \in Writer : v # w => put'[v] = put[v]
        /\ put'[w] = IF dups = {} THEN IdlePut ELSE [p EXCEPT !.pc = "marking", !.dups = dups]
      BY <1>3, <2>1 DEF TypeInv, PutsInv
  <2>3. CASE dups = {}
    <3>1. put'[w] = IdlePut
        BY <2>2, <2>3
    <3>2. Pending(w)' = {} /\ put'[w].pc = "idle"
        BY <3>1 DEF Pending, IdlePut
    <3> QED
        BY <2>2, <3>2
  <2>4. CASE dups # {}
      BY <1>5, <2>2, <2>4
  <2> QED
      BY <2>3, <2>4
<1>9. MarkingInv'
  <2>1. ASSUME NEW v \in Writer, put'[v].pc = "marking" PROVE blobs'[put'[v].blob] # None
    <3>1. CASE v = w
        BY <1>2, <1>8, <2>1, <3>1
    <3>2. CASE v # w
      <4>1. put'[v] = put[v] /\ BusyPutOK(put[v])
          BY <1>8, <2>1, <3>2, BusyIs DEF TypeInv
      <4>2. put[v].blob \in Blob /\ blobs[put[v].blob] # None
          BY <2>1, <4>1, BusyMeans DEF MarkingInv
      <4> QED
          BY <1>2, <4>1, <4>2
    <3> QED
        BY <3>1, <3>2
  <2> QED
      BY <2>1 DEF MarkingInv
<1>10. ASSUME NEW v \in Writer, NEW j \in Pending(v)'
       PROVE  j \in Pending(v) /\ put'[v].at = put[v].at /\ put'[v].blob = put[v].blob
  <2>1. /\ Pending(w)' = PutDuplicates(NS, p.key, p.blob, p.ids)
        /\ Pending(w) = DOMAIN p.ids
        /\ Pending(w)' # {} => put'[w].ids = p.ids /\ put'[w].at = p.at
        /\ \A u \in Writer : u # w => Pending(u)' = Pending(u) /\ put'[u] = put[u]
      BY <1>1, CommitPending
  <2>2. PutDuplicates(NS, p.key, p.blob, p.ids) \subseteq DOMAIN p.ids
      BY DEF PutDuplicates, Duplicates
  <2> QED
      BY <1>1, <1>8, <2>1, <2>2
<1>11. LogsInv' /\ HeadersInv'
  <2>1. \A b \in Blob : blobs[b] # None => blobs'[b] # None
      BY <1>2
  <2> QED
      BY <1>3, <1>10, <2>1, LogsKept DEF TypeInv
<1> QED
    BY <1>6, <1>7, <1>9, <1>11 DEF ManifestsInv

\* The copy that is flagged is in no entry that replay would register.
LEMMA HistoryMarkDuplicate ==
    ASSUME RecoveryInv, NEW w \in Writer, MarkDuplicate(w)
    PROVE  HistoryInv'
<1> USE DEF RecoveryInv, HistoryInv, CopiesInv
<1>1. PICK i : i = Min(put[w].dups)
    OBVIOUS
<1>2. /\ put[w].pc = "marking" /\ UNCHANGED <<refs, blobs, chunks>>
      /\ put' = [put EXCEPT ![w] = IF put[w].dups = {i} THEN IdlePut
                                   ELSE [put[w] EXCEPT !.dups = @ \ {i}]]
    BY <1>1 DEF MarkDuplicate, ixVars
<1>3. BusyPutOK(put[w]) /\ i \in put[w].dups
      /\ put[w].at[i] \in Loc /\ HasPage(put[w].at[i]) /\ SetDeleted(put[w].at[i])
    BY <1>1, MarkIs DEF TypeInv
<1>4. i \in Pending(w) /\ Pending(w) = put[w].dups
    BY <1>2, <1>3 DEF Pending
<1>5. PICK m : m = put[w].at[i]
    OBVIOUS
<1>6. PendingOK(w, i) /\ m \in Place /\ put[w].ids[i] \in ChunkId
    BY <1>4, <1>5, PendingPlace DEF PendingInv, TypeInv
<1>7. At(files, m).part = 1
  <2>1. Whole(files, put[w].ids[i], m, Sealed(m))
      BY <1>5, <1>6 DEF PendingOK
  <2>2. IsCopy(At(files, m), put[w].ids[i], 1, Sealed(m))
      BY <1>6, <2>1, WholeFirst
  <2> QED
      BY <2>2 DEF IsCopy
<1>8. /\ DOMAIN files' = DOMAIN files
      /\ \A s \in DOMAIN files : files'[s].wal = files[s].wal
      /\ \A l \in Place : Has(files', l) <=> Has(files, l)
      /\ \A l \in Place : Has(files, l) =>
            At(files', l) = IF l = m THEN [At(files, m) EXCEPT !.deleted = TRUE]
                            ELSE At(files, l)
    BY <1>3, <1>5, FlagIs DEF TypeInv
<1>9. HeadersInv'
  <2>1. ASSUME NEW l \in Place, Has(files', l) PROVE HeaderOK(At(files', l))
    <3>1. Has(files, l) /\ HeaderOK(At(files, l))
        BY <1>8, <2>1 DEF HeadersInv
    <3>2. CASE l # m
        BY <1>8, <3>1, <3>2
    <3>3. CASE l = m
      <4>1. At(files, m) \in Page
          BY <3>1, <3>3, HasIsLoc DEF TypeInv, FilesInv
      <4>2. PICK x \in Page : x = At(files, m)
          BY <4>1
      <4>3. At(files', m) = [x EXCEPT !.deleted = TRUE]
          BY <1>8, <3>1, <3>3, <4>2
      <4>4. /\ At(files', m).part = x.part /\ At(files', m).blob = x.blob
            /\ At(files', m).total = x.total /\ At(files', m).seq = x.seq
            /\ At(files', m).chunk = x.chunk
          BY <4>3 DEF Page
      <4> QED
          BY <3>1, <3>3, <4>2, <4>4 DEF HeaderOK
    <3> QED
        BY <3>2, <3>3
  <2> QED
      BY <2>1 DEF HeadersInv
<1>10. /\ \A v \in Writer : v # w => put'[v] = put[v]
       /\ put'[w].pc = "marking" => put'[w].blob = put[w].blob
       /\ Pending(w)' # {} => put'[w].blob = put[w].blob /\ put'[w].at = put[w].at
       /\ Pending(w)' \subseteq Pending(w)
  <2>1. put[w] = [pc |-> put[w].pc, key |-> put[w].key, blob |-> put[w].blob,
                  ids |-> put[w].ids, at |-> put[w].at, dups |-> put[w].dups]
      BY <1>3, BusyMeans
  <2>2. /\ \A v \in Writer : v # w => put'[v] = put[v]
        /\ put'[w] = IF put[w].dups = {i} THEN IdlePut ELSE [put[w] EXCEPT !.dups = @ \ {i}]
      BY <1>2 DEF TypeInv, PutsInv
  <2>3. CASE put[w].dups = {i}
    <3>1. put'[w] = IdlePut
        BY <2>2, <2>3
    <3>2. Pending(w)' = {} /\ put'[w].pc = "idle"
        BY <3>1 DEF Pending, IdlePut
    <3> QED
        BY <2>2, <3>2
  <2>4. CASE put[w].dups # {i}
    <3>1. put'[w] = [pc |-> put[w].pc, key |-> put[w].key, blob |-> put[w].blob,
                     ids |-> put[w].ids, at |-> put[w].at, dups |-> put[w].dups \ {i}]
        BY <2>1, <2>2, <2>4
    <3>2. Pending(w)' = put[w].dups \ {i}
        BY <1>2, <3>1 DEF Pending
    <3> QED
        BY <1>4, <2>2, <3>1, <3>2
  <2> QED
      BY <2>3, <2>4
<1>11. MarkingInv'
    BY <1>2, <1>10 DEF MarkingInv
<1>12. ManifestsInv' /\ RefsInv'
    BY <1>2, IndexStill
<1>13. \A v \in Writer : \A j \in Pending(v)' :
           j \in Pending(v) /\ put'[v].at = put[v].at /\ put'[v].blob = put[v].blob
  <2>1. ASSUME NEW v \in Writer, v # w PROVE Pending(v)' = Pending(v) /\ put'[v] = put[v]
      BY <1>10, <2>1 DEF Pending
  <2> QED
      BY <1>10, <2>1
<1>14. Entries(files') = Entries(files)
    BY <1>8, EntriesKept
<1>15. ASSUME NEW x \in Entries(files) PROVE EntryOK(x)'
  <2>1. x \in LogEntry /\ EntryOK(x)
      BY EntriesAre DEF LogsInv, TypeInv
  <2>2. ASSUME blobs'[x.blob] = None, NEW n \in DOMAIN x.ids
        PROVE  Stays(x.ids[n], x.at[n])
    <3>1. x.ids[n] \in ChunkId /\ x.at[n] \in Place
        BY <2>1, EntryType
    <3>2. Whole(files, x.ids[n], x.at[n], None)
        BY <1>2, <2>1, <2>2 DEF EntryOK
    <3>3. m # x.at[n]
      <4>1. blobs[put[w].blob] # None
          BY <1>2 DEF MarkingInv
      <4>2. m = x.at[n] => put[w].blob = x.blob
          BY <1>4, <1>5, <2>1 DEF EntryOK
      <4> QED
          BY <1>2, <2>2, <4>1, <4>2
    <3>4. ~IsPartOf(x.ids[n], x.at[n], m)
        BY <1>6, <1>7, <3>1, <3>2, <3>3, CopiesApart
    <3> QED
        BY <1>3, <1>5, <3>1, <3>4, FlagStays DEF TypeInv
  <2>3. \A l \in Place : Has(files, l) => Has(files', l)
      BY <1>8
  <2> QED
      BY <1>2, <1>13, <2>1, <2>2, <2>3, EntryKept
<1>16. LogsInv'
    BY <1>14, <1>15 DEF LogsInv
<1> QED
    BY <1>9, <1>11, <1>12, <1>16

-----------------------------------------------------------------------------
(* Delete and Rename, also by DeleteNamespace                              *)

\* A deletion takes a count from the blob's record and from its chunks' and no more.
LEMMA DeleteRecords ==
    ASSUME IndexTypeOK, NEW k \in Key, CommitDelete(NS, k)
    PROVE  /\ \A key \in Key : refs'[NS][key] = refs[NS][key] \/ refs'[NS][key] = None
           /\ \A b \in Blob : /\ blobs[b] # None <=> blobs'[b] # None
                              /\ blobs[b] # None => blobs'[b].ids = blobs[b].ids
           /\ \A c \in ChunkId : chunks[c] # None => chunks'[c] # None
<1>1. \A key \in Key : refs'[NS][key] = refs[NS][key] \/ refs'[NS][key] = None
  <2>1. refs' = [refs EXCEPT ![NS][k] = None]
      BY DEF CommitDelete
  <2>2. refs \in [Namespace -> [Key -> RefEntry \cup {None}]]
      BY DEF IndexTypeOK
  <2> QED
      BY <2>1, <2>2, NSAssumption
<1>2. blobs' = BlobsAfterDelete(NS, k)
    BY DEF CommitDelete
<1>3. ASSUME NEW b \in Blob
      PROVE  /\ blobs[b] # None <=> blobs'[b] # None
             /\ blobs[b] # None => blobs'[b].ids = blobs[b].ids
  <2>1. CASE blobs[b] = None
    <3>1. blobs'[b] = blobs[b]
        BY <1>2, <2>1, Zenon DEF BlobsAfterDelete
    <3> QED
        BY <2>1, <3>1
  <2>2. CASE blobs[b] # None
    <3>1. PICK rc \in Int, was \in Seq(ChunkId) : blobs[b] = [rc |-> rc, ids |-> was]
        BY <2>2 DEF IndexTypeOK, BlobEntry
    <3>2. blobs'[b] = blobs[b] \/ blobs'[b] = [blobs[b] EXCEPT !.rc = blobs[b].rc - 1]
        BY <1>2, Zenon DEF BlobsAfterDelete
    <3>3. PICK n \in Int : blobs'[b] = [rc |-> n, ids |-> was]
      <4>1. [blobs[b] EXCEPT !.rc = blobs[b].rc - 1] = [rc |-> rc - 1, ids |-> was]
          BY <3>1
      <4>2. rc - 1 \in Int
          BY <3>1
      <4> QED
          BY <3>1, <3>2, <4>1, <4>2
    <3>4. [rc |-> n, ids |-> was] \in BlobEntry
        BY <3>1, <3>3 DEF BlobEntry
    <3>5. blobs'[b] # None /\ blobs'[b].ids = was /\ blobs[b].ids = was
        BY <3>1, <3>3, <3>4, NoneAssumption
    <3> QED
        BY <2>2, <3>5
  <2> QED
      BY <2>1, <2>2
<1>4. \A c \in ChunkId : chunks[c] # None => chunks'[c] # None
    BY NSAssumption, DeleteChunks
<1> QED
    BY <1>1, <1>3, <1>4

\* A deletion takes a reference and counts; blobs and chunks stay recorded.
LEMMA HistoryDelete ==
    ASSUME TypeInv, HistoryInv, NEW k \in Key, CommitDelete(NS, k), UNCHANGED <<files, put>>
    PROVE  HistoryInv'
<1> USE DEF HistoryInv
<1>1. /\ \A key \in Key : refs'[NS][key] = refs[NS][key] \/ refs'[NS][key] = None
      /\ \A b \in Blob : /\ blobs[b] # None <=> blobs'[b] # None
                         /\ blobs[b] # None => blobs'[b].ids = blobs[b].ids
      /\ \A c \in ChunkId : chunks[c] # None => chunks'[c] # None
    BY DeleteRecords DEF TypeInv
<1>2. ManifestsInv'
    BY <1>1, ManifestsKept DEF TypeInv
<1>3. RefsInv'
  <2>1. ASSUME NEW key \in Key, refs'[NS][key] # None
        PROVE  blobs'[refs'[NS][key].blob] # None
    <3>1. refs'[NS][key] = refs[NS][key]
        BY <1>1, <2>1
    <3>2. refs[NS][key].blob \in Blob /\ blobs[refs[NS][key].blob] # None
        BY <2>1, <3>1, NSAssumption DEF RefsInv, TypeInv, IndexTypeOK, RefEntry
    <3> QED
        BY <1>1, <3>1, <3>2
  <2> QED
      BY <2>1 DEF RefsInv
<1>4. MarkingInv'
  <2>1. ASSUME NEW w \in Writer, put[w].pc = "marking" PROVE blobs'[put[w].blob] # None
    <3>1. put[w].blob \in Blob /\ blobs[put[w].blob] # None
        BY <2>1, BusyIs, BusyMeans DEF MarkingInv, TypeInv
    <3> QED
        BY <1>1, <3>1
  <2> QED
      BY <2>1 DEF MarkingInv
<1>5. LogsInv' /\ HeadersInv'
  <2>1. \A w \in Writer : \A j \in Pending(w)' :
            j \in Pending(w) /\ put'[w].at = put[w].at /\ put'[w].blob = put[w].blob
      BY DEF Pending
  <2> QED
      BY <1>1, <2>1, LogsKept DEF TypeInv
<1> QED
    BY <1>2, <1>3, <1>4, <1>5

\* What leaves index and files alone leaves no more to say of them.
LEMMA HistoryStill ==
    ASSUME TypeInv, HistoryInv, UNCHANGED <<refs, blobs, chunks, files>>,
           UNCHANGED put \/ \A w \in Writer : put'[w] = IdlePut
    PROVE  HistoryInv'
<1> USE DEF HistoryInv
<1>1. ManifestsInv' /\ RefsInv'
    BY IndexStill
<1>2. MarkingInv' /\ \A w \in Writer : \A j \in Pending(w)' :
          j \in Pending(w) /\ put'[w].at = put[w].at /\ put'[w].blob = put[w].blob
  <2>1. CASE UNCHANGED put
      BY <2>1 DEF MarkingInv, Pending
  <2>2. CASE \A w \in Writer : put'[w] = IdlePut
      BY <2>2 DEF MarkingInv, Pending, IdlePut
  <2> QED
      BY <2>1, <2>2
<1>3. LogsInv' /\ HeadersInv'
    BY <1>2, LogsKept DEF TypeInv
<1> QED
    BY <1>1, <1>2, <1>3

\* A reference under another key is to the same blob.
LEMMA HistoryRename ==
    ASSUME TypeInv, HistoryInv, NEW old \in Key, NEW new \in Key,
           CommitRenameRef(NS, old, new), UNCHANGED <<files, put>>
    PROVE  HistoryInv'
<1> USE DEF HistoryInv
<1>1. /\ refs[NS][old] # None
      /\ refs' = [refs EXCEPT ![NS] = [refs[NS] EXCEPT ![new] = refs[NS][old], ![old] = None]]
      /\ UNCHANGED <<blobs, chunks>>
    BY DEF CommitRenameRef
<1>2. RefsInv'
  <2>1. refs \in [Namespace -> [Key -> RefEntry \cup {None}]]
      BY DEF TypeInv, IndexTypeOK
  <2>2. PICK r : r = refs[NS]
      OBVIOUS
  <2>3. /\ refs'[NS] = [r EXCEPT ![new] = r[old], ![old] = None]
        /\ r \in [Key -> RefEntry \cup {None}]
      BY <1>1, <2>1, <2>2, NSAssumption
  <2>4. ASSUME NEW k \in Key, refs'[NS][k] # None
        PROVE  \E key \in Key : refs'[NS][k] = r[key] /\ r[key] # None
      BY <1>1, <2>2, <2>3, <2>4
  <2>5. ASSUME NEW k \in Key, refs'[NS][k] # None PROVE blobs'[refs'[NS][k].blob] # None
    <3>1. PICK key \in Key : refs'[NS][k] = r[key] /\ r[key] # None
        BY <2>4, <2>5
    <3>2. blobs[r[key].blob] # None /\ blobs' = blobs
        BY <1>1, <2>2, <3>1 DEF RefsInv
    <3> QED
        BY <3>1, <3>2
  <2> QED
      BY <2>5 DEF RefsInv
<1>3. ManifestsInv'
    BY <1>1 DEF ManifestsInv, ManifestOK
<1>4. MarkingInv' /\ \A w \in Writer : \A j \in Pending(w)' :
          j \in Pending(w) /\ put'[w].at = put[w].at /\ put'[w].blob = put[w].blob
    BY <1>1 DEF MarkingInv, Pending
<1>5. LogsInv' /\ HeadersInv'
    BY <1>1, <1>4, LogsKept DEF TypeInv
<1> QED
    BY <1>2, <1>3, <1>4, <1>5

-----------------------------------------------------------------------------
(* Stopping and opening again: what replay makes of the logs               *)

\* Without encryption records do not depend on the namespace's key.
LEMMA RecordUnkeyed ==
    ASSUME ~Encrypted, NEW c, RecordOK(c), UNCHANGED files,
           chunks'[c].ns = chunks[c].ns, chunks'[c].loc = chunks[c].loc,
           nonce'[c] = nonce[c], c \in short' => c \in short
    PROVE  RecordOK(c)'
<1>1. Whole(files', c, chunks[c].loc, nonce[c])
    BY DEF RecordOK
<1> QED
    BY <1>1 DEF RecordOK, Keyed

\* Without encryption a record needs only its pages, whatever became of the namespace.
LEMMA RecordsUnkeyed ==
    ASSUME ~Encrypted, RecordsInv, UNCHANGED <<files, recVars>>,
           \A c \in ChunkId : chunks'[c] # None =>
               /\ chunks[c] # None
               /\ chunks'[c].ns = chunks[c].ns /\ chunks'[c].loc = chunks[c].loc
    PROVE  RecordsInv'
BY RecordUnkeyed DEF RecordsInv, recVars

\* After a stop no Put is under way.
LEMMA NothingPending ==
    ASSUME \A w \in Writer : put'[w] = IdlePut
    PROVE  PendingInv'
<1>1. \A w \in Writer : Pending(w)' = {}
    BY DEF Pending, IdlePut
<1> QED
    BY <1>1 DEF PendingInv

\* Replay registers whole copies, and all chunks of each blob it registers.
LEMMA RecoveryOpenEngine ==
    ASSUME ~Encrypted, RecoveryInv, ~PutsRunning, UNCHANGED put, OpenEngine
    PROVE  RecordsInv' /\ HistoryInv'
<1> USE DEF RecoveryInv, HistoryInv, CopiesInv
<1>1. /\ blobs' = [b \in Blob |-> IF Replaying(b) = {} THEN blobs[b]
                                  ELSE [rc |-> 1, ids |-> Entry(LastOf(Replaying(b))).ids]]
      /\ chunks' = [c \in ChunkId |-> IF ReplayedWith(c) = {} THEN chunks[c]
                                      ELSE ReplayedRecord(c)]
      /\ short' = {c \in short : ReplayedWith(c) = {}}
      /\ nonce' = [c \in ChunkId |-> IF ReplayedWith(c) = {} THEN nonce[c] ELSE None]
      /\ UNCHANGED <<refs, files>>
    BY DEF OpenEngine, ReplayWAL
<1>2. \A w \in Writer : put[w] = IdlePut /\ Pending(w) = {}
    BY NoPending DEF TypeInv
<1>3. ASSUME NEW c \in ChunkId, ReplayedWith(c) # {}
      PROVE  /\ chunks'[c] # None /\ chunks'[c].ns = NS
             /\ Whole(files, c, chunks'[c].loc, None)
  <2>1. PICK e \in Replayed : \E i \in DOMAIN Entry(e).ids :
            /\ e \in Logged /\ Entry(e).ids[i] = c /\ Entry(e).at[i] \in Loc
            /\ ReplayedRecord(c) = [ns |-> NS, rc |-> 1, loc |-> Entry(e).at[i]]
      BY <1>3, ReplayedIs DEF TypeInv
  <2>2. PICK x : x = Entry(e)
      OBVIOUS
  <2>3. PICK i \in DOMAIN x.ids :
            /\ e \in Logged /\ x.ids[i] = c /\ x.at[i] \in Loc
            /\ ReplayedRecord(c) = [ns |-> NS, rc |-> 1, loc |-> x.at[i]]
      BY <2>1, <2>2
  <2>4. EntryOK(x) /\ blobs[x.blob] = None
      BY <2>2, <2>3, EntriesAre DEF LogsInv, TypeInv, Replayed
  <2>5. Whole(files, c, x.at[i], None)
      BY <2>3, <2>4 DEF EntryOK
  <2>6. [ns |-> NS, rc |-> 1, loc |-> x.at[i]] \in ChunkEntry
      BY <2>3, NSAssumption DEF ChunkEntry
  <2>7. chunks'[c] = [ns |-> NS, rc |-> 1, loc |-> x.at[i]]
      BY <1>1, <1>3, <2>3
  <2> QED
      BY <2>5, <2>6, <2>7, NoneAssumption
<1>4. \A c \in ChunkId : chunks[c] # None => chunks'[c] # None
    BY <1>1, <1>3
<1>5. ASSUME NEW c \in ChunkId, chunks'[c] # None PROVE RecordOK(c)'
  <2>1. CASE ReplayedWith(c) = {}
    <3>1. chunks'[c] = chunks[c] /\ nonce'[c] = nonce[c] /\ (c \in short' => c \in short)
        BY <1>1, <2>1
    <3> QED
        BY <1>1, <1>5, <3>1, RecordUnkeyed DEF RecordsInv
  <2>2. CASE ReplayedWith(c) # {}
    <3>1. nonce'[c] = None /\ c \notin short' /\ files' = files
        BY <1>1, <2>2
    <3> QED
        BY <1>3, <2>2, <3>1 DEF RecordOK, Keyed
  <2> QED
      BY <2>1, <2>2
<1>6. ASSUME NEW b \in Blob, Replaying(b) # {}
      PROVE  blobs'[b] # None /\ ManifestOK(b)'
  <2>1. PICK e : e = LastOf(Replaying(b))
      OBVIOUS
  <2>2. e \in Replaying(b) /\ e \in Logged /\ Entry(e).blob = b
      BY <1>6, <2>1, ReplayedIs DEF TypeInv
  <2>3. PICK x : x = Entry(e)
      OBVIOUS
  <2>4. x \in LogEntry /\ EntryOK(x) /\ x.blob = b
      BY <2>2, <2>3, EntriesAre DEF LogsInv, TypeInv
  <2>5. x.ids \in Seq(ChunkId) /\ x.ids \in Manifests[b]
      BY <2>4, EntryType DEF EntryOK
  <2>6. blobs'[b] = [rc |-> 1, ids |-> x.ids]
      BY <1>1, <1>6, <2>1, <2>3
  <2>7. [rc |-> 1, ids |-> x.ids] \in BlobEntry
      BY <2>5 DEF BlobEntry
  <2>8. ASSUME NEW i \in DOMAIN x.ids PROVE chunks'[x.ids[i]] # None
    <3>1. PICK c \in ChunkId : c = x.ids[i]
        BY <2>5
    <3>2. Count(x.ids, c) > 0
        BY <2>5, <3>1, CountType
    <3>3. e \in ReplayedWith(c)
        BY <2>2, <2>3, <3>2 DEF ReplayedWith, Replaying
    <3> QED
        BY <1>3, <3>1, <3>3
  <2> QED
      BY <2>5, <2>6, <2>7, <2>8, NoneAssumption DEF ManifestOK
<1>7. \A b \in Blob : Replaying(b) = {} => blobs'[b] = blobs[b]
    BY <1>1
<1>8. \A b \in Blob : blobs[b] # None => blobs'[b] # None
    BY <1>6, <1>7
<1>9. ASSUME NEW b \in Blob, blobs'[b] # None PROVE ManifestOK(b)'
  <2>1. CASE Replaying(b) # {}
      BY <1>6, <2>1
  <2>2. CASE Replaying(b) = {}
    <3>1. blobs'[b] = blobs[b] /\ ManifestOK(b) /\ blobs[b].ids \in Seq(ChunkId)
        BY <1>7, <1>9, <2>2 DEF ManifestsInv, TypeInv, IndexTypeOK, BlobEntry
    <3> QED
        BY <1>4, <3>1 DEF ManifestOK
  <2> QED
      BY <2>1, <2>2
<1>10. RefsInv'
  <2>1. \A k \in Key : refs[NS][k] # None => refs[NS][k].blob \in Blob
      BY NSAssumption DEF TypeInv, IndexTypeOK, RefEntry
  <2> QED
      BY <1>1, <1>8, <2>1 DEF RefsInv
<1>11. MarkingInv'
    BY <1>2 DEF MarkingInv, IdlePut
<1>12. LogsInv' /\ HeadersInv'
  <2>1. \A w \in Writer : Pending(w)' = {}
      BY <1>2 DEF Pending
  <2> QED
      BY <1>1, <1>8, <2>1, LogsKept DEF TypeInv
<1> QED
    BY <1>5, <1>9, <1>10, <1>11, <1>12 DEF RecordsInv, ManifestsInv

\* A finite set of pages has a greatest total.
LEMMA TotalIs ==
    ASSUME NEW P \in SUBSET AllPages, NEW n \in Nat, P # {},
           \A l \in P : PageAt(l).total = n
    PROVE  Max({PageAt(l).total : l \in P}) = n
<1>1. {PageAt(l).total : l \in P} = {n}
    OBVIOUS
<1>2. {n} \in SUBSET Nat /\ {n} # {} /\ IsFiniteSet({n})
    BY FS_Singleton
<1>3. Max({n}) \in {n}
    BY <1>2, MaxIs
<1> QED
    BY <1>1, <1>3

\* RebuildIndex registers unflagged pages, and of each blob that it finds complete the
\* one manifest that the blob has.
LEMMA RecoveryRebuildIndex ==
    ASSUME OnePage, OneManifest, RecoveryInv, RebuildIndex
    PROVE  RecordsInv' /\ HistoryInv'
<1> USE DEF RecoveryInv, HistoryInv, CopiesInv
<1> DEFINE pages == {l \in AllPages : ~PageAt(l).deleted}
           met(b) == {l \in pages : PageAt(l).blob = b}
           chunkAt(b, i) == PageAt(CHOOSE l \in met(b) : PageAt(l).seq = i).chunk
           total(b) == Max({PageAt(l).total : l \in met(b)})
           complete(b) == met(b) # {} /\ {PageAt(l).seq : l \in met(b)} = 1..total(b)
           holding(c) == {l \in pages : PageAt(l).chunk = c}
           found == {c \in ChunkId : holding(c) # {}}
<1>1. /\ Quiet /\ ~Encrypted
      /\ chunks' = [c \in ChunkId |->
                      IF c \in found THEN [ns |-> NS, rc |-> 1, loc |-> LastOf(holding(c))]
                      ELSE chunks[c]]
      /\ short' = short \cup Spanning(found)
      /\ blobs' = [b \in Blob |->
                      IF complete(b)
                      THEN [rc |-> 1, ids |-> [i \in 1..total(b) |-> chunkAt(b, i)]]
                      ELSE blobs[b]]
      /\ UNCHANGED <<refs, files, nonce, put>>
    BY DEF RebuildIndex, volVars
<1>2. /\ pages \in SUBSET AllPages /\ \A l \in pages : ~PageAt(l).deleted
      /\ \A l : l \in AllPages /\ ~PageAt(l).deleted => l \in pages
    OBVIOUS
<1>3. AllPages \in SUBSET Loc /\ IsFiniteSet(AllPages)
    BY AllPagesFinite DEF TypeInv
<1> HIDE DEF pages
<1>4. ASSUME NEW l \in pages
      PROVE  /\ l \in Loc /\ l \in Place /\ Has(files, l) /\ ~At(files, l).deleted
             /\ At(files, l).part = 1 /\ At(files, l).sealed = None
             /\ PageAt(l) = At(files, l) /\ PageAt(l).chunk \in ChunkId
             /\ HeaderOK(PageAt(l)) /\ PageAt(l).part = 1
  <2>1. l \in Loc /\ HasPage(l) /\ ~PageAt(l).deleted
      BY <1>2 DEF AllPages
  <2>2. l \in Place /\ Has(files, l) /\ PageAt(l) = At(files, l)
      BY <2>1, LocIsPlace, HasPageIs
  <2>3. PageAt(l).chunk \in ChunkId /\ PageOK(PageAt(l))
      BY <2>1, <2>2, SomePage DEF TypeInv
  <2>4. PageAt(l).part = 1 /\ PageAt(l).sealed = None
      BY <1>1, <2>3 DEF PageOK, OnePage
  <2> QED
      BY <2>1, <2>2, <2>3, <2>4 DEF HeadersInv
<1>5. Spanning(found) = {}
  <2>1. found \subseteq ChunkId
      OBVIOUS
  <2> HIDE DEF found
  <2> QED
      BY <2>1 DEF Spanning, OnePage
<1>6. ASSUME NEW c \in found
      PROVE  chunks'[c] # None /\ RecordOK(c)'
  <2>1. c \in ChunkId /\ holding(c) # {} /\ holding(c) \in SUBSET pages
        /\ \A l \in holding(c) : PageAt(l).chunk = c
      OBVIOUS
  <2> HIDE DEF holding, found
  <2>2. holding(c) \in SUBSET (Nat \X Nat) /\ IsFiniteSet(holding(c))
    <3>1. holding(c) \in SUBSET AllPages
        BY <1>2, <2>1
    <3> QED
        BY <1>3, <3>1, LocAssumption, FS_Subset
  <2>3. PICK l \in holding(c) : l = LastOf(holding(c))
      BY <2>1, <2>2, LastIs
  <2>4. chunks'[c] = [ns |-> NS, rc |-> 1, loc |-> l]
      BY <1>1, <1>6, <2>1, <2>3
  <2>5. l \in pages /\ PageAt(l).chunk = c
      BY <2>1
  <2>6. Has(files, l) /\ IsCopy(At(files, l), c, 1, None) /\ l \in Loc /\ l \in Place
      BY <1>4, <2>5 DEF IsCopy
  <2>7. [ns |-> NS, rc |-> 1, loc |-> l] \in ChunkEntry
      BY <2>6, NSAssumption DEF ChunkEntry
  <2>8. Whole(files, c, l, None)
    <3>1. \A p \in 1..Pages[c] : p = 1
        BY <2>1 DEF OnePage
    <3> QED
        BY <2>6, <3>1, FirstPart DEF Whole
  <2>9. nonce'[c] = None
      BY <1>1, <2>1 DEF TypeInv, RecordsTyped
  <2>10. c \in short' => Pages[c] = 1
      BY <2>1 DEF OnePage
  <2>11. chunks'[c] # None /\ chunks'[c].ns = NS /\ chunks'[c].loc = l
      BY <2>4, <2>7, NoneAssumption
  <2>12. Whole(files', c, chunks'[c].loc, nonce'[c])
      BY <1>1, <2>8, <2>9, <2>11
  <2> QED
      BY <1>1, <2>10, <2>11, <2>12 DEF RecordOK, Keyed
<1>7. \A c \in ChunkId : c \notin found => chunks'[c] = chunks[c]
  <2> HIDE DEF found, holding
  <2> QED
      BY <1>1
<1>8. \A l \in pages : PageAt(l).chunk \in found
  <2>1. ASSUME NEW l \in pages PROVE PageAt(l).chunk \in found
    <3>1. l \in holding(PageAt(l).chunk) /\ PageAt(l).chunk \in ChunkId
        BY <1>4
    <3> QED
        BY <3>1
  <2> QED
      BY <2>1
<1> HIDE DEF holding
<1>9. ASSUME NEW c \in ChunkId, chunks'[c] # None PROVE RecordOK(c)'
  <2>1. CASE c \in found
      BY <1>6, <2>1
  <2>2. CASE c \notin found
    <3>1. chunks'[c] = chunks[c] /\ nonce' = nonce /\ files' = files /\ short' = short
          /\ RecordOK(c)
      <4> HIDE DEF found
      <4> QED
          BY <1>1, <1>5, <1>7, <1>9, <2>2 DEF RecordsInv
    <3> QED
        BY <1>1, <3>1, RecordUnkeyed
  <2> QED
      BY <2>1, <2>2
<1>10. \A c \in ChunkId : chunks[c] # None => chunks'[c] # None
    BY <1>6, <1>7
<1> HIDE DEF found
<1>11. ASSUME NEW b \in Blob, complete(b)
       PROVE  \E ids \in Manifests[b] :
                 /\ blobs'[b] = [rc |-> 1, ids |-> ids]
                 /\ \A i \in DOMAIN ids : chunks'[ids[i]] # None
  <2>1. /\ met(b) \in SUBSET pages /\ met(b) # {}
        /\ \A l \in met(b) : PageAt(l).blob = b
        /\ {PageAt(l).seq : l \in met(b)} = 1..total(b)
      BY <1>11
  <2>2. blobs'[b] = [rc |-> 1, ids |-> [i \in 1..total(b) |-> chunkAt(b, i)]]
    <3> HIDE DEF complete, total, chunkAt
    <3> QED
        BY <1>1, <1>11
  <2> HIDE DEF complete
  <2>3. \A l \in met(b) : \E ids \in Manifests[b] :
            /\ PageAt(l).total = Len(ids) /\ PageAt(l).seq \in DOMAIN ids
            /\ PageAt(l).chunk = ids[PageAt(l).seq]
    <3> HIDE DEF met
    <3> QED
        BY <1>4, <2>1 DEF HeaderOK
  <2>4. PICK ids \in Manifests[b] : \A l \in met(b) :
            /\ PageAt(l).total = Len(ids) /\ PageAt(l).seq \in DOMAIN ids
            /\ PageAt(l).chunk = ids[PageAt(l).seq]
    <3> HIDE DEF met
    <3>1. PICK l \in met(b) : TRUE
        BY <2>1
    <3>2. PICK ids \in Manifests[b] : TRUE
        BY <2>3, <3>1
    <3>3. \A other \in Manifests[b] : other = ids
        BY DEF OneManifest
    <3> QED
        BY <2>3, <3>2, <3>3
  <2>5. ids \in Seq(ChunkId) /\ Len(ids) \in Nat /\ DOMAIN ids = 1..Len(ids)
      BY ManifestAssumption
  <2>6. total(b) = Len(ids)
    <3>1. met(b) \in SUBSET AllPages
        BY <1>2, <2>1
    <3> HIDE DEF met
    <3> QED
        BY <2>1, <2>4, <2>5, <3>1, TotalIs
  <2>7. ASSUME NEW i \in 1..total(b)
        PROVE  chunkAt(b, i) = ids[i] /\ chunks'[ids[i]] # None
    <3> DEFINE m == CHOOSE l \in met(b) : PageAt(l).seq = i
    <3>1. \E l \in met(b) : PageAt(l).seq = i
      <4> HIDE DEF met, total
      <4> QED
          BY <2>1
    <3>2. m \in met(b) /\ PageAt(m).seq = i
      <4> HIDE DEF met
      <4> QED
          BY <3>1
    <3>3. m \in pages
        BY <3>2
    <3> HIDE DEF m, met
    <3>4. PageAt(m).chunk = ids[i]
        BY <2>4, <3>2
    <3>5. chunks'[ids[i]] # None
        BY <1>6, <1>8, <3>3, <3>4
    <3> QED
        BY <3>4, <3>5 DEF m
  <2>8. [i \in 1..total(b) |-> chunkAt(b, i)] = ids
    <3>1. \A i \in 1..total(b) : chunkAt(b, i) = ids[i]
        BY <2>7
    <3> HIDE DEF total, chunkAt
    <3> QED
        BY <2>5, <2>6, <3>1
  <2> HIDE DEF total, chunkAt
  <2> QED
      BY <2>2, <2>5, <2>6, <2>7, <2>8
<1>12. \A b \in Blob : ~complete(b) => blobs'[b] = blobs[b]
  <2> HIDE DEF complete, total, chunkAt
  <2> QED
      BY <1>1
<1> HIDE DEF complete, total, chunkAt, met
<1>13. ASSUME NEW b \in Blob, complete(b)
       PROVE  blobs'[b] # None /\ ManifestOK(b)'
  <2>1. PICK ids \in Manifests[b] :
            /\ blobs'[b] = [rc |-> 1, ids |-> ids]
            /\ \A i \in DOMAIN ids : chunks'[ids[i]] # None
      BY <1>11, <1>13
  <2>2. ids \in Seq(ChunkId)
      BY ManifestAssumption
  <2>3. [rc |-> 1, ids |-> ids] \in BlobEntry
      BY <2>2 DEF BlobEntry
  <2> QED
      BY <2>1, <2>3, NoneAssumption DEF ManifestOK
<1>14. \A b \in Blob : blobs[b] # None => blobs'[b] # None
    BY <1>12, <1>13
<1>15. ASSUME NEW b \in Blob, blobs'[b] # None PROVE ManifestOK(b)'
  <2>1. CASE complete(b)
      BY <1>13, <2>1
  <2>2. CASE ~complete(b)
    <3>1. blobs'[b] = blobs[b] /\ ManifestOK(b) /\ blobs[b].ids \in Seq(ChunkId)
        BY <1>12, <1>15, <2>2 DEF ManifestsInv, TypeInv, IndexTypeOK, BlobEntry
    <3> QED
        BY <1>10, <3>1 DEF ManifestOK
  <2> QED
      BY <2>1, <2>2
<1>16. RefsInv'
  <2>1. \A k \in Key : refs[NS][k] # None => refs[NS][k].blob \in Blob
      BY NSAssumption DEF TypeInv, IndexTypeOK, RefEntry
  <2>2. refs' = refs
      BY <1>1
  <2> QED
      BY <1>14, <2>1, <2>2 DEF RefsInv
<1>17. MarkingInv' /\ LogsInv' /\ HeadersInv'
  <2>1. put' = put /\ files' = files /\ \A w \in Writer : put[w] = IdlePut /\ Pending(w) = {}
      BY <1>1, NoPending DEF TypeInv, Quiet
  <2>2. MarkingInv'
      BY <2>1 DEF MarkingInv, IdlePut
  <2>3. \A w \in Writer : Pending(w)' = {}
      BY <2>1 DEF Pending
  <2> QED
      BY <1>14, <2>1, <2>2, <2>3, LogsKept DEF TypeInv
<1> QED
    BY <1>9, <1>15, <1>16, <1>17 DEF RecordsInv, ManifestsInv

-----------------------------------------------------------------------------
(* Every step, and what the invariant says to callers                      *)

\* A new store has nothing to recover.
LEMMA RecoveryInit ==
    ASSUME StoreInit
    PROVE  RecoveryInv
<1>1. TypeInv
    BY StoreTypeInit
<1>2. /\ \A c \in ChunkId : chunks[c] = None
      /\ \A b \in Blob : blobs[b] = None
      /\ \A k \in Key : refs[NS][k] = None
    BY NSAssumption DEF StoreInit, IndexInit
<1>3. (\A l : ~Has(files, l)) /\ Entries(files) = {}
    BY DEF StoreInit, Has, Entries
<1>4. \A w \in Writer : put[w] = IdlePut
    BY DEF StoreInit
<1>5. RecordsInv
    BY <1>2 DEF RecordsInv
<1>6. PendingInv
    BY <1>4, IdlePending DEF PendingInv
<1>7. MarkingInv
    BY <1>4 DEF MarkingInv, IdlePut
<1>8. HistoryInv
    BY <1>2, <1>3, <1>7 DEF HistoryInv, ManifestsInv, RefsInv, LogsInv, HeadersInv
<1>9. NeverCompacts
    BY DEF StoreInit, NeverCompacts, IdleCompact
<1> QED
    BY <1>1, <1>5, <1>6, <1>8, <1>9 DEF RecoveryInv, CopiesInv

\* The steps of a Put.
LEMMA RecoveryPut ==
    ASSUME RecoversOnly, RecoveryInv, PutNext
    PROVE  RecordsInv' /\ PendingInv' /\ HistoryInv' /\ NeverCompacts'
<1>1. ~Encrypted /\ CopiesInv
    BY DEF RecoversOnly, RecoveryInv
<1>2. RecordsInv' /\ PendingInv'
    BY <1>1, CopiesPut
<1>3. HistoryInv'
    BY <1>1, HistoryWriteBlob, HistoryLogBlob, HistoryCheckQuota, HistoryCancelPut,
       HistoryCommitBlob, HistoryMarkDuplicate
       DEF PutNext
<1>4. UNCHANGED <<compact, used>>
    BY DEF PutNext, WriteBlob, LogBlob, CheckQuota, CancelPut, CommitBlob, MarkDuplicate
<1>5. NeverCompacts'
    BY <1>4 DEF NeverCompacts, RecoveryInv
<1> QED
    BY <1>2, <1>3, <1>5

\* Delete and Rename.
LEMMA RecoveryDeleteRename ==
    ASSUME RecoveryInv, (\E k \in Key : Delete(k)) \/ (\E old, new \in Key : Rename(old, new))
    PROVE  RecordsInv' /\ PendingInv' /\ HistoryInv' /\ NeverCompacts'
<1>1. TypeInv /\ RecordsInv /\ PendingInv /\ HistoryInv /\ NeverCompacts
    BY DEF RecoveryInv, CopiesInv
<1>2. RecordsInv' /\ PendingInv'
    BY <1>1, CopiesDeleteRename
<1>3. UNCHANGED <<files, put, compact, used>>
    BY DEF Delete, Rename, OnlyIndex, volVars
<1>4. HistoryInv'
    BY <1>1, <1>3, HistoryDelete, HistoryRename DEF Delete, Rename
<1>5. NeverCompacts'
    BY <1>1, <1>3 DEF NeverCompacts
<1> QED
    BY <1>2, <1>4, <1>5

\* Gets, and steps of other namespaces.
LEMMA RecoveryNothing ==
    ASSUME RecoveryInv, GetNext \/ UNCHANGED vars
    PROVE  RecordsInv' /\ PendingInv' /\ HistoryInv' /\ NeverCompacts'
<1>1. TypeInv /\ RecordsInv /\ PendingInv /\ HistoryInv /\ NeverCompacts
    BY DEF RecoveryInv, CopiesInv
<1>2. UNCHANGED <<refs, blobs, chunks, files, short, nonce, space, put, compact, used>>
    BY GetChangesNothing DEF vars, ixVars, volVars, recVars, lifeVars
<1>3. RecordsInv' /\ PendingInv'
    BY <1>1, <1>2, CopiesIndexOnly
<1>4. HistoryInv'
    BY <1>1, <1>2, HistoryStill
<1>5. NeverCompacts'
    BY <1>1, <1>2 DEF NeverCompacts
<1> QED
    BY <1>3, <1>4, <1>5

\* There is no Compact.
LEMMA RecoveryCompact ==
    ASSUME RecoversOnly, RecoveryInv, CompactNext
    PROVE  FALSE
<1>1. compact.pc = "idle" /\ used.compacts \in Nat /\ MaxCompacts = 0
    BY DEF RecoversOnly, RecoveryInv, NeverCompacts
<1>2. ~ScanPages
    BY <1>1 DEF ScanPages
<1> QED
    BY <1>1, <1>2 DEF CompactNext, ReapPage, MarkPage, SweepBlobs, SweepBlob, Reconcile,
       BeginRewrite, RewriteSegment, FetchRecord, StoreRecord, DeleteSegmentFile, CancelCompact

\* What a stop leaves is what was committed and what was flushed.
LEMMA RecoveryStop ==
    ASSUME RecoversOnly, RecoveryInv, Crash \/ Close
    PROVE  RecordsInv' /\ PendingInv' /\ HistoryInv' /\ NeverCompacts'
<1>1. TypeInv /\ RecordsInv /\ HistoryInv /\ NeverCompacts /\ ~Encrypted
    BY DEF RecoversOnly, RecoveryInv, CopiesInv
<1>2. /\ put' = [w \in Writer |-> IdlePut]
      /\ compact' = IdleCompact
      /\ UNCHANGED <<refs, blobs, chunks, files, recVars>>
    BY DEF Crash, Close, Stop
<1>3. \A w \in Writer : put'[w] = IdlePut
    BY <1>2, Zenon
<1>4. PendingInv'
    BY <1>3, NothingPending
<1>5. HistoryInv'
    BY <1>1, <1>2, <1>3, HistoryStill
<1>6. RecordsInv'
    BY <1>1, <1>2, RecordsUnkeyed
<1>7. NeverCompacts'
  <2>1. compact'.pc = "idle"
      BY <1>2 DEF IdleCompact
  <2>2. \/ used' = [used EXCEPT !["crashes"] = @ + 1]
        \/ used' = [used EXCEPT !["closes"] = @ + 1]
      BY DEF Crash, Close, Stop
  <2> QED
      BY <1>1, <2>1, <2>2 DEF NeverCompacts
<1> QED
    BY <1>4, <1>5, <1>6, <1>7

\* The records of a process that stopped or of a namespace that was deleted, with what
\* the logs add to them; or nothing, while there is no engine.
LEMMA RecoveryOpens ==
    ASSUME RecoversOnly, RecoveryInv, Reopen \/ CreateNamespace
    PROVE  RecordsInv' /\ PendingInv' /\ HistoryInv' /\ NeverCompacts'
<1>1. TypeInv /\ RecordsInv /\ HistoryInv /\ NeverCompacts /\ ~Encrypted
    BY DEF RecoversOnly, RecoveryInv, CopiesInv
<1>2. UNCHANGED <<put, compact, used>>
    BY DEF Reopen, CreateNamespace
<1>3. ~PutsRunning
  <2>1. CASE Reopen
    <3>1. ~space.engine
        BY <1>1, <2>1 DEF Reopen, TypeInv, LifeInv
    <3> QED
        BY <1>1, <3>1, NoEngineStill
  <2>2. CASE CreateNamespace
      BY <2>2 DEF CreateNamespace, Quiet
  <2> QED
      BY <2>1, <2>2
<1>4. PendingInv'
    BY <1>1, <1>2, <1>3, NoPendingStays DEF TypeInv
<1>5. NeverCompacts'
    BY <1>1, <1>2 DEF NeverCompacts
<1>6. OpenEngine \/ UNCHANGED <<ixVars, volVars, recVars>>
    BY DEF Reopen, CreateNamespace
<1>7. CASE OpenEngine
    BY <1>1, <1>2, <1>3, <1>4, <1>5, <1>7, RecoveryOpenEngine
<1>8. CASE UNCHANGED <<ixVars, volVars, recVars>>
  <2>1. UNCHANGED <<refs, blobs, chunks, files, recVars>>
      BY <1>8 DEF ixVars, volVars
  <2>2. RecordsInv' /\ HistoryInv'
      BY <1>1, <1>2, <2>1, RecordsUnkeyed, HistoryStill
  <2> QED
      BY <1>4, <1>5, <2>2
<1> QED
    BY <1>6, <1>7, <1>8

\* RebuildIndex, under the part of the hypotheses that is about it.
LEMMA RecoveryRebuilds ==
    ASSUME RecoversOnly, RecoveryInv, RebuildIndex
    PROVE  RecordsInv' /\ PendingInv' /\ HistoryInv' /\ NeverCompacts'
<1>1. TypeInv /\ NeverCompacts
    BY DEF RecoveryInv, CopiesInv
<1>2. /\ Quiet /\ used.rebuilds < MaxRebuilds
      /\ used' = [used EXCEPT !.rebuilds = @ + 1]
      /\ UNCHANGED <<put, compact>>
    BY DEF RebuildIndex
<1>3. MaxRebuilds # 0
    BY <1>1, <1>2 DEF NeverCompacts
<1>4. RecordsInv' /\ HistoryInv'
    BY <1>3, RecoveryRebuildIndex DEF RecoversOnly
<1>5. PendingInv'
    BY <1>1, <1>2, NoPendingStays DEF TypeInv, Quiet
<1>6. NeverCompacts'
    BY <1>1, <1>2 DEF NeverCompacts
<1> QED
    BY <1>4, <1>5, <1>6

\* The references go one by one; a stop in between leaves some.
LEMMA RecoveryDrops ==
    ASSUME RecoversOnly, RecoveryInv, BeginDrop \/ DropRef \/ DropRecord \/ CancelDrop
    PROVE  RecordsInv' /\ PendingInv' /\ HistoryInv' /\ NeverCompacts'
<1>1. TypeInv /\ RecordsInv /\ HistoryInv /\ NeverCompacts /\ ~Encrypted
    BY DEF RecoversOnly, RecoveryInv, CopiesInv
<1>2. UNCHANGED <<files, recVars, put, compact>>
    BY DEF BeginDrop, DropRef, DropRecord, CancelDrop, OnlySpace
<1>3. ~PutsRunning
  <2>1. CASE BeginDrop
      BY <2>1 DEF BeginDrop, Quiet
  <2>2. CASE DropRef \/ DropRecord \/ CancelDrop
    <3>1. space.dropping # None
      <4>1. {} # None
          BY StoreNoneAssumption
      <4> QED
          BY <2>2, <4>1 DEF DropRef, DropRecord, CancelDrop
    <3>2. ~space.engine
        BY <1>1, <3>1 DEF TypeInv, LifeInv
    <3> QED
        BY <1>1, <3>2, NoEngineStill
  <2> QED
      BY <2>1, <2>2
<1>4. PendingInv'
    BY <1>1, <1>2, <1>3, NoPendingStays DEF TypeInv
<1>5. NeverCompacts'
  <2>1. used' = used \/ used' = [used EXCEPT !.drops = @ + 1]
      BY DEF BeginDrop, DropRef, DropRecord, CancelDrop
  <2> QED
      BY <1>1, <1>2, <2>1 DEF NeverCompacts
<1>6. CASE DropRef
  <2>1. PICK k \in space.dropping : CommitDelete(NS, k)
      BY <1>6 DEF DropRef
  <2>2. k \in Key
    <3>1. space.dropping \in SUBSET Key
        BY <1>1, <1>6, SpaceIs DEF DropRef, TypeInv
    <3> QED
        BY <3>1
  <2>3. HistoryInv'
      BY <1>1, <1>2, <2>1, <2>2, HistoryDelete
  <2>4. \A c \in ChunkId : chunks'[c] # None =>
            chunks[c] # None /\ chunks'[c].ns = chunks[c].ns /\ chunks'[c].loc = chunks[c].loc
      BY <1>1, <2>1, <2>2, NSAssumption, DeleteChunks DEF TypeInv
  <2>5. RecordsInv'
      BY <1>1, <1>2, <2>4, RecordsUnkeyed
  <2> QED
      BY <1>4, <1>5, <2>3, <2>5
<1>7. CASE BeginDrop \/ DropRecord \/ CancelDrop
  <2>1. UNCHANGED <<refs, blobs, chunks>>
      BY <1>7 DEF BeginDrop, DropRecord, CancelDrop
  <2>2. RecordsInv' /\ HistoryInv'
      BY <1>1, <1>2, <2>1, RecordsUnkeyed, HistoryStill
  <2> QED
      BY <1>4, <1>5, <2>2
<1> QED
    BY <1>6, <1>7

\* Every step of the store.
LEMMA RecoveryStep ==
    ASSUME RecoversOnly, RecoveryInv, [StoreNext]_vars
    PROVE  RecoveryInv'
<1>1. TypeInv'
    BY StoreTypeStep DEF RecoveryInv, CopiesInv
<1>2. RecordsInv' /\ PendingInv' /\ HistoryInv' /\ NeverCompacts'
    BY RecoveryPut, RecoveryDeleteRename, RecoveryNothing, RecoveryCompact, RecoveryStop,
       RecoveryOpens, RecoveryRebuilds, RecoveryDrops
       DEF StoreNext
<1> QED
    BY <1>1, <1>2 DEF RecoveryInv, CopiesInv

\* The invariant holds in every reachable state.
LEMMA RecoveryInvHolds ==
    ASSUME RecoversOnly
    PROVE  StoreSpec => []RecoveryInv
<1>1. StoreInit => RecoveryInv
    BY RecoveryInit
<1>2. RecoveryInv /\ [StoreNext]_vars => RecoveryInv'
    BY RecoveryStep
<1> QED
    BY <1>1, <1>2, PTL DEF StoreSpec

\* A reference is to a recorded blob, whose manifest is of chunks with true records.
LEMMA RecoveryFetches ==
    ASSUME RecoveryInv
    PROVE  GetsWhatIsReferred /\ LiveKeysReadable
<1>1. IndexTypeOK /\ RecordsInv /\ ManifestsInv /\ RefsInv
    BY DEF RecoveryInv, CopiesInv, TypeInv, HistoryInv
<1>2. ASSUME NEW k \in Key, refs[NS][k] # None
      PROVE  Fetched(k) = refs[NS][k].blob /\ refs[NS][k].blob \in Blob
  <2>1. PICK b : b = refs[NS][k].blob
      OBVIOUS
  <2>2. b \in Blob
      BY <1>1, <1>2, <2>1, NSAssumption DEF IndexTypeOK, RefEntry
  <2>3. blobs[b] # None /\ ManifestOK(b)
      BY <1>1, <1>2, <2>1, <2>2 DEF RefsInv, ManifestsInv
  <2>4. blobs[b].ids \in Seq(ChunkId)
      BY <1>1, <2>2, <2>3 DEF IndexTypeOK, BlobEntry
  <2>5. ASSUME NEW i \in DOMAIN blobs[b].ids
        PROVE  /\ chunks[blobs[b].ids[i]] # None
               /\ ChunkReadable(blobs[b].ids[i], chunks[blobs[b].ids[i]].loc,
                                nonce[blobs[b].ids[i]])
    <3>1. blobs[b].ids[i] \in ChunkId /\ chunks[blobs[b].ids[i]] # None
        BY <2>3, <2>4 DEF ManifestOK
    <3> QED
        BY <1>1, <3>1, RecordReadable DEF RecordsInv
  <2> QED
      BY <1>2, <2>1, <2>2, <2>3, <2>5 DEF Fetched, ManifestOK
<1>3. ASSUME NEW k \in Key, refs[NS][k] = None
      PROVE  Fetched(k) = None
    BY <1>3 DEF Fetched
<1>4. GetsWhatIsReferred
    BY <1>2, <1>3 DEF GetsWhatIsReferred, Referred
<1>5. LiveKeysReadable
    BY <1>2, <1>3, ErrorAssumption DEF LiveKeysReadable
<1> QED
    BY <1>4, <1>5

\* The process may stop at any step of any Put and be opened again, which replays every
\* entry of the logs whose blob is not recorded and counts it once more (replayWAL,
\* store.go:495); the index may be rebuilt from the pages (store.go:1038), the namespace
\* deleted, half deleted and created again over its files: a key that is present can
\* still be read.
THEOREM KeysSurviveRecovery ==
    ASSUME RecoversOnly
    PROVE  StoreSpec => []LiveKeysReadable
<1>1. RecoveryInv => LiveKeysReadable
    BY RecoveryFetches
<1> QED
    BY <1>1, RecoveryInvHolds, PTL

\* No recovery is observable: a crash between the entry in the log and the commit
\* (store.go:698, 742), replay and RebuildIndex change what no key refers to, and what
\* DeleteNamespace deletes of the keys goes one key at a time.
THEOREM RecoveryIsAMap ==
    ASSUME RecoversOnly
    PROVE  StoreSpec => ImplementsMap
<1> DEFINE Inv == TypeInv /\ QuotaHeld /\ GetsWhatIsReferred
<1>1. RecoveryInv => GetsWhatIsReferred
    BY RecoveryFetches
<1>2. StoreSpec => []Inv
    BY <1>1, RecoveryInvHolds, QuotaHeldHolds, PTL
<1>3. StoreInit /\ Inv => Map!MapInit
    BY MapStart
<1>4. Inv /\ Inv' /\ [StoreNext]_vars => [Map!MapNext]_([k \in Key |-> Fetched(k)])
    BY MapStep
<1> HIDE DEF Inv
<1> QED
    BY <1>2, <1>3, <1>4, PTL DEF StoreSpec, ImplementsMap, Map!MapSpec
=============================================================================
