------------------------ MODULE BlobStoreTypeProofs ------------------------
(***************************************************************************)
(* Proofs about BlobStore that need no hypothesis: the types and who may   *)
(* run beside whom (StoreTypeOK), and that no page is removed under a Get  *)
(* (ReaderKeepsPages), for any number of writers, readers, keys, contents, *)
(* segments, Compacts and restarts, encrypted or not, and whatever calls   *)
(* overlap.                                                                *)
(*                                                                         *)
(* The inductive invariant TypeInv says where everything that has a        *)
(* location points: copies of a Put, a Compact's queue and what it         *)
(* relocated are pages on disk; the segments Compact rewrites are there    *)
(* and none of them is active; a Put or a Get has an engine and no         *)
(* rewriting beside it.                                                    *)
(***************************************************************************)
EXTENDS BlobStore, BlobIndexProofs, SequenceTheorems

-----------------------------------------------------------------------------
(* Least and greatest                                                      *)

\* Natural numbers have a least one, which Min is.
LEMMA MinIs ==
    ASSUME NEW T \in SUBSET Nat, T # {}
    PROVE  Min(T) \in T /\ \A j \in T : Min(T) <= j
<1>1. PICK m \in T : \A j \in T : <<j, m>> \notin OpToRel(<, Nat)
    BY NatLessThanWellFounded, WFMin
<1>2. \A j \in T : ~(j < m)
    BY <1>1 DEF OpToRel
<1>3. \E x \in T : \A y \in T : x =< y
    BY <1>2
<1> QED
    BY <1>3 DEF Min

\* The greatest of finitely many is Max: it has the fewest above it.
LEMMA MaxIs ==
    ASSUME NEW T \in SUBSET Nat, T # {}, IsFiniteSet(T)
    PROVE  Max(T) \in T /\ \A j \in T : Max(T) >= j
<1> DEFINE above(m) == {j \in T : j > m}
           counts   == {Cardinality(above(m)) : m \in T}
<1>1. \A m \in T : IsFiniteSet(above(m)) /\ Cardinality(above(m)) \in Nat
    BY FS_Subset, FS_CardinalityType
<1>2. counts \in SUBSET Nat /\ counts # {}
    BY <1>1
<1>3. Min(counts) \in counts /\ \A n \in counts : Min(counts) <= n
    BY <1>2, MinIs
<1>4. PICK m \in T : \A j \in T : Cardinality(above(m)) <= Cardinality(above(j))
    BY <1>3
<1>5. \A j \in T : ~(j > m)
  <2>1. SUFFICES ASSUME NEW j \in T, j > m PROVE FALSE
      OBVIOUS
  <2>2. above(j) \subseteq above(m) /\ j \in above(m) /\ j \notin above(j)
    <3>1. \A i \in Nat, k \in Nat, l \in Nat : i > k /\ k > l => i > l
        OBVIOUS
    <3>2. j \in Nat /\ m \in Nat /\ ~(j > j)
        OBVIOUS
    <3> QED
        BY <2>1, <3>1, <3>2
  <2>3. /\ Cardinality(above(j)) <= Cardinality(above(m))
        /\ Cardinality(above(m)) = Cardinality(above(j)) => above(m) = above(j)
      BY <1>1, <2>2, FS_Subset
  <2> QED
      BY <1>1, <1>4, <2>2, <2>3
<1>6. \E x \in T : \A y \in T : x >= y
    BY <1>5
<1> QED
    BY <1>6 DEF Max

\* Positions of a sequence and segment ids are bounded.
LEMMA MaxBelow ==
    ASSUME NEW n \in Int, NEW T \in SUBSET (1..n), T # {}
    PROVE  Max(T) \in T /\ \A j \in T : Max(T) >= j
<1>1. IsFiniteSet(1..n)
    BY FS_Interval
<1>2. IsFiniteSet(T) /\ T \subseteq Nat
  <2>1. \A i \in 1..n : i \in Nat
      OBVIOUS
  <2> QED
      BY <1>1, <2>1, FS_Subset
<1> QED
    BY <1>2, MaxIs

\* Some place comes before all others of a set.
LEMMA FirstIs ==
    ASSUME NEW P \in SUBSET (Nat \X Nat), P # {}
    PROVE  FirstOf(P) \in P /\ \A m \in P : m = FirstOf(P) \/ Before(FirstOf(P), m)
<1> DEFINE S == {m[1] : m \in P}
<1>1. S \in SUBSET Nat /\ S # {}
    OBVIOUS
<1>2. Min(S) \in S /\ \A j \in S : Min(S) <= j
    BY <1>1, MinIs
<1> DEFINE T == {i \in Nat : <<Min(S), i>> \in P}
<1>3. T \in SUBSET Nat /\ T # {}
  <2>1. PICK m \in P : m[1] = Min(S)
      BY <1>2
  <2>2. m = <<m[1], m[2]>> /\ m[2] \in Nat
      OBVIOUS
  <2>3. m[2] \in T
      BY <2>1, <2>2
  <2> QED
      BY <2>3
<1>4. Min(T) \in T /\ \A j \in T : Min(T) <= j
    BY <1>3, MinIs
<1> DEFINE l == <<Min(S), Min(T)>>
<1>5. l \in P /\ l[1] = Min(S) /\ l[2] = Min(T)
    BY <1>4
<1>6. ASSUME NEW m \in P PROVE m = l \/ Before(l, m)
  <2>1. m = <<m[1], m[2]>> /\ m[1] \in S /\ m[1] \in Nat /\ m[2] \in Nat
      OBVIOUS
  <2>2. Min(S) <= m[1] /\ Min(S) \in Nat /\ Min(T) \in Nat
      BY <1>1, <1>2, <1>3, <1>4, <2>1
  <2>3. CASE Min(S) < m[1]
      BY <1>5, <2>3 DEF Before
  <2>4. CASE Min(S) = m[1]
    <3>1. m[2] \in T
        BY <2>1, <2>4
    <3>2. Min(T) <= m[2]
        BY <1>4, <3>1
    <3> HIDE DEF S, T
    <3>3. Min(T) < m[2] \/ Min(T) = m[2]
        BY <2>1, <2>2, <3>2
    <3> QED
        BY <1>5, <2>1, <2>4, <3>3 DEF Before
  <2> QED
      BY <2>1, <2>2, <2>3, <2>4
<1> HIDE DEF l
<1> QED
    BY <1>5, <1>6 DEF FirstOf

\* And some place after all others, of places in finitely many files.
LEMMA LastIs ==
    ASSUME NEW P \in SUBSET (Nat \X Nat), P # {}, IsFiniteSet(P)
    PROVE  LastOf(P) \in P /\ \A m \in P : m = LastOf(P) \/ Before(m, LastOf(P))
<1> DEFINE S == {m[1] : m \in P}
           f == [m \in P |-> m[1]]
<1>1. f \in Surjection(P, S) /\ S \in SUBSET Nat /\ S # {}
    BY DEF Surjection
<1>2. IsFiniteSet(S)
    BY <1>1, FS_Surjection
<1>3. Max(S) \in S /\ \A j \in S : Max(S) >= j
    BY <1>1, <1>2, MaxIs
<1> DEFINE Q == {m \in P : m[1] = Max(S)}
           T == {m[2] : m \in Q}
           g == [m \in Q |-> m[2]]
<1>4. IsFiniteSet(Q)
    BY FS_Subset
<1>5. g \in Surjection(Q, T) /\ T \in SUBSET Nat /\ T # {}
    BY <1>3 DEF Surjection
<1>6. IsFiniteSet(T)
    BY <1>4, <1>5, FS_Surjection
<1>7. Max(T) \in T /\ \A j \in T : Max(T) >= j
    BY <1>5, <1>6, MaxIs
<1>8. PICK l \in Q : l[2] = Max(T)
    BY <1>7
<1>9. ASSUME NEW m \in P PROVE m = l \/ Before(m, l)
  <2>1. /\ m = <<m[1], m[2]>> /\ m[1] \in S /\ m[1] \in Nat /\ m[2] \in Nat
        /\ l = <<l[1], l[2]>> /\ l[1] = Max(S) /\ l[1] \in Nat /\ l[2] \in Nat
      OBVIOUS
  <2>2. m[1] <= l[1]
      BY <1>3, <2>1
  <2>3. CASE m[1] < l[1]
      BY <2>3 DEF Before
  <2>4. CASE m[1] = l[1]
    <3>1. m[2] \in T
        BY <2>1, <2>4
    <3>2. m[2] <= l[2]
        BY <1>7, <1>8, <2>1, <3>1
    <3> HIDE DEF S, T, Q
    <3>3. m[2] < l[2] \/ m[2] = l[2]
        BY <2>1, <3>2
    <3> QED
        BY <2>1, <2>4, <3>3 DEF Before
  <2> HIDE DEF S, T, Q
  <2> QED
      BY <2>1, <2>2, <2>3, <2>4
<1>10. \E x \in P : \A m \in P : m = x \/ Before(m, x)
    BY <1>8, <1>9
<1> QED
    BY <1>10 DEF LastOf

-----------------------------------------------------------------------------
(* The inductive invariant                                                 *)

LogEntry ==
    {e \in [blob : Blob, ids : Seq(ChunkId), at : Seq(Loc)] : DOMAIN e.at = DOMAIN e.ids}
SegFile  == [pages : Seq(Page), wal : Seq(LogEntry)]

\* No file is longer than its last chunk can make it.
Fits(n) == n = 0 \/ \E c \in ChunkId : n <= SegmentPages + Pages[c]

PageOK(p) == p.part \in 1..Pages[p.chunk] /\ (~Encrypted => p.sealed = None)

FileOK(f) == /\ f \in SegFile
             /\ Fits(Len(f.pages))
             /\ \A i \in DOMAIN f.pages : PageOK(f.pages[i])

\* Every file has a number that was given out, and the active segment is there.
EngineOK(fs, act, next) ==
    /\ DOMAIN fs \subseteq SegmentId
    /\ fs = [s \in DOMAIN fs |-> fs[s]]
    /\ \A s \in DOMAIN fs : FileOK(fs[s]) /\ s < next
    /\ act \in DOMAIN fs \cup {0}
    /\ next \in Nat \ {0}

FilesInv == EngineOK(files, active, nextSeq)

RecordsTyped ==
    /\ short \subseteq ChunkId
    /\ nonce \in [ChunkId -> Nonce \cup {None}]
    /\ ~Encrypted => nonce = [c \in ChunkId |-> None]

\* An engine belongs to a store that is open, to a namespace that is recorded and
\* not being deleted.
LifeInv ==
    /\ open \in BOOLEAN
    /\ space \in [recorded : BOOLEAN, engine : BOOLEAN, created : Nat,
                  dropping : (SUBSET Key) \cup {None}]
    /\ space.engine => open /\ space.recorded /\ space.dropping = None
    /\ space.dropping # None => space.recorded /\ open

BusyPut == [pc : {"written", "logged", "checked", "marking"}, key : Key, blob : Content[NS],
            ids : Seq(ChunkId), at : Seq(Loc), dups : SUBSET Nat]

\* A Put that is under way has an engine, a manifest, and its copies in the files.
BusyPutOK(p) ==
    /\ p \in BusyPut
    /\ p.ids \in Manifests[p.blob]
    /\ DOMAIN p.at = DOMAIN p.ids
    /\ \A i \in DOMAIN p.at : HasPage(p.at[i])
    /\ p.dups \subseteq DOMAIN p.ids
    /\ p.pc = "marking" <=> p.dups # {}
    /\ space.engine /\ active # 0
    /\ ~Rewriting

PutsInv ==
    /\ put = [w \in Writer |-> put[w]]
    /\ \A w \in Writer : put[w] = IdlePut \/ BusyPutOK(put[w])

ReaderFields == {"pc", "key", "blob", "ids", "at", "nonces"}

ReadersInv ==
    /\ reader = [r \in Reader |-> reader[r]]
    /\ \A r \in Reader :
          /\ DOMAIN reader[r] = ReaderFields
          /\ reader[r] = [f \in ReaderFields |-> reader[r][f]]
          /\ reader[r].pc \in {"idle", "ref", "manifest", "open", "failed"}
          /\ reader[r].pc \in {"ref", "manifest", "open"} => space.engine /\ ~Rewriting

CompactState == [pc : {"idle", "reap", "mark", "sweep", "purge", "wait", "rewrite",
                       "relocate", "store"},
                 queue : SUBSET Loc, freed : Nat, todo : SUBSET SegmentId,
                 moved : SUBSET Loc, held : Nat, nonce : Nonce \cup {None}]

\* A Compact has an engine, a queue while it has pages to look at, and segments to
\* rewrite, never the active one, while it has the namespace to itself.
CompactInv ==
    /\ compact \in CompactState
    /\ Compacting => space.engine
    /\ compact.pc \in {"reap", "mark"} <=> compact.queue # {}
    /\ Rewriting <=> compact.todo # {}
    /\ compact.todo \subseteq DOMAIN files \ {active}
    /\ \A l \in compact.queue \cup compact.moved : HasPage(l)
    /\ compact.moved # {} => compact.pc \in {"relocate", "store"}
    /\ compact.pc = "store" => compact.moved # {}
    /\ ~Encrypted => compact.nonce = None

TypeInv ==
    /\ IndexTypeOK /\ FilesInv /\ RecordsTyped /\ LifeInv
    /\ PutsInv /\ ReadersInv /\ CompactInv

-----------------------------------------------------------------------------
(* Pages                                                                   *)

\* HasPage and PageAt of any state of the files.
Has(fs, l) == l[1] \in DOMAIN fs /\ l[2] \in DOMAIN fs[l[1]].pages
At(fs, l)  == fs[l[1]].pages[l[2]]

Place == Nat \X Nat

\* Pages and logs that are in fs are in gs as they were.
Keeps(fs, gs) ==
    /\ \A l \in Place : Has(fs, l) => Has(gs, l) /\ At(gs, l) = At(fs, l)
    /\ \A s \in DOMAIN fs : s \in DOMAIN gs /\ gs[s].wal = fs[s].wal
    /\ \A s \in DOMAIN gs \ DOMAIN fs : gs[s].wal = << >>

PartOf(l, p) == <<l[1], l[2] + p - 1>>

\* A copy that is new in gs: all of the chunk's pages, and where there was none.
Added(fs, gs, c, b, i, total, l) ==
    /\ l \in Place /\ ~Has(fs, l)
    /\ \A p \in 1..Pages[c] :
          /\ Has(gs, PartOf(l, p))
          /\ At(gs, PartOf(l, p)) = ChunkPages(c, b, i, total, l)[p]

IsPartOf(c, l, m) == \E p \in 1..Pages[c] : m = PartOf(l, p)

\* A chunk has at least one page.
LEMMA PagesType ==
    ASSUME NEW c \in ChunkId
    PROVE  Pages[c] \in Nat /\ Pages[c] >= 1 /\ 1 \in 1..Pages[c]
BY PagesAssumption

\* A place in a file that fits is a location.
LEMMA PlaceIsLoc ==
    ASSUME NEW s \in SegmentId, NEW n \in Nat, Fits(n), NEW i \in 1..n
    PROVE  <<s, i>> \in Loc
<1>1. PICK c \in ChunkId : n <= SegmentPages + Pages[c]
    BY DEF Fits
<1>2. SegmentPages \in Nat /\ Pages[c] \in Nat
    BY StoreBoundAssumption, PagesType
<1>3. i \in 1..(SegmentPages + Pages[c])
    BY <1>1, <1>2
<1> QED
    BY <1>3, LocAssumption

\* Files have no pages but in locations.
LEMMA HasIsLoc ==
    ASSUME NEW fs, NEW act, NEW next, EngineOK(fs, act, next), NEW l \in Place, Has(fs, l)
    PROVE  l \in Loc /\ At(fs, l) \in Page /\ PageOK(At(fs, l))
<1>1. l = <<l[1], l[2]>>
    BY DEF Place
<1>2. l[1] \in SegmentId /\ FileOK(fs[l[1]])
    BY DEF EngineOK, Has
<1> DEFINE pages == fs[l[1]].pages
<1>3. pages \in Seq(Page) /\ Fits(Len(pages)) /\ \A i \in DOMAIN pages : PageOK(pages[i])
    BY <1>2 DEF FileOK, SegFile
<1>4. l[2] \in DOMAIN pages
    BY DEF Has
<1> HIDE DEF pages
<1>5. Len(pages) \in Nat /\ DOMAIN pages = 1..Len(pages) /\ pages[l[2]] \in Page
    BY <1>3, <1>4
<1>6. l \in Loc
    BY <1>1, <1>2, <1>3, <1>4, <1>5, PlaceIsLoc
<1> QED
    BY <1>3, <1>4, <1>5, <1>6 DEF At, pages

LEMMA LocIsPlace == Loc \subseteq Place
BY LocAssumption DEF Place

\* What Seal returns is a nonce or, without encryption, none.
LEMMA SealedType ==
    ASSUME LifeInv, NEW l \in Loc
    PROVE  Sealed(l) \in Nonce \cup {None} /\ (~Encrypted => Sealed(l) = None)
BY DEF LifeInv, Sealed, Nonce

\* The pages of a new copy.
LEMMA ChunkPagesType ==
    ASSUME LifeInv, NEW c \in ChunkId, NEW b \in Blob, NEW i \in Nat, NEW total \in Nat,
           NEW l \in Loc
    PROVE  /\ ChunkPages(c, b, i, total, l) \in Seq(Page)
           /\ Len(ChunkPages(c, b, i, total, l)) = Pages[c]
           /\ \A p \in 1..Pages[c] : PageOK(ChunkPages(c, b, i, total, l)[p])
<1> DEFINE x(p) == [chunk |-> c, part |-> p, seq |-> i, blob |-> IF p = 1 THEN b ELSE None,
                    total |-> IF p = 1 THEN total ELSE 0, deleted |-> FALSE,
                    sealed |-> Sealed(l)]
<1>1. ChunkPages(c, b, i, total, l) = [p \in 1..Pages[c] |-> x(p)]
    BY DEF ChunkPages
<1>2. Sealed(l) \in Nonce \cup {None} /\ (~Encrypted => Sealed(l) = None)
    BY SealedType
<1>3. Pages[c] \in Nat
    BY PagesType
<1>4. \A p \in 1..Pages[c] : x(p) \in Page /\ PageOK(x(p))
    BY <1>2, <1>3 DEF Page, PageOK
<1> HIDE DEF x
<1> QED
    BY <1>1, <1>3, <1>4

\* Keeping is transitive.
LEMMA KeepsKeeps ==
    ASSUME NEW fs, NEW gs, NEW hs, Keeps(fs, gs), Keeps(gs, hs)
    PROVE  Keeps(fs, hs)
BY Zenon DEF Keeps

\* One sequence after another.
LEMMA ConcatIs ==
    ASSUME NEW S, NEW s \in Seq(S), NEW t \in Seq(S)
    PROVE  /\ s \o t \in Seq(S) /\ Len(s \o t) = Len(s) + Len(t)
           /\ \A j \in 1..Len(s) : (s \o t)[j] = s[j]
           /\ \A p \in 1..Len(t) : (s \o t)[Len(s) + p] = t[p]
OBVIOUS

\* Segment numbers only go up.
LEMMA AppendChunkNext ==
    ASSUME NEW v, v.next \in Nat, NEW c, NEW b, NEW i, NEW total
    PROVE  /\ AppendChunk(v, c, b, i, total).next \in Nat
           /\ v.next <= AppendChunk(v, c, b, i, total).next
BY DEF AppendChunk

\* One chunk is appended: a whole copy where there was nothing, and nothing else.
LEMMA AppendChunkAdds ==
    ASSUME LifeInv, NEW v, EngineOK(v.files, v.active, v.next), v.at \in Seq(Loc),
           NEW c \in ChunkId, NEW b \in Blob, NEW i \in Nat, NEW total \in Nat,
           AppendChunk(v, c, b, i, total).next <= MaxSegment + 1
    PROVE  LET w == AppendChunk(v, c, b, i, total)
               l == w.at[Len(v.at) + 1]
           IN  /\ EngineOK(w.files, w.active, w.next) /\ w.active # 0
               /\ l \in Loc /\ w.at = Append(v.at, l)
               /\ Keeps(v.files, w.files)
               /\ Added(v.files, w.files, c, b, i, total, l)
               /\ \A m \in Place : Has(w.files, m) => Has(v.files, m) \/ IsPartOf(c, l, m)
<1> DEFINE fs   == v.files
           roll == v.active = 0 \/ Len(fs[v.active].pages) >= SegmentPages
           s    == IF roll THEN v.next ELSE v.active
           old  == IF roll THEN [pages |-> << >>, wal |-> << >>] ELSE fs[s]
           l    == <<s, Len(old.pages) + 1>>
           more == ChunkPages(c, b, i, total, l)
           new  == [old EXCEPT !.pages = @ \o more]
           w    == AppendChunk(v, c, b, i, total)
           gs   == WithFile(fs, s, new)
<1>1. /\ w.files = gs /\ w.active = s /\ w.at = Append(v.at, l)
      /\ w.next = IF roll THEN s + 1 ELSE v.next
    BY DEF AppendChunk
<1>2. /\ v.next \in Nat \ {0} /\ DOMAIN fs \subseteq SegmentId
      /\ \A t \in DOMAIN fs : FileOK(fs[t]) /\ t < v.next
      /\ v.active \in DOMAIN fs \cup {0}
    BY DEF EngineOK
<1>3. SegmentPages \in Nat /\ MaxSegment \in Nat /\ Pages[c] \in Nat /\ Pages[c] >= 1
    BY StoreBoundAssumption, PagesType
<1>4. roll => s \notin DOMAIN fs
    BY <1>2, <1>3 DEF SegmentId
<1>5. ~roll => s \in DOMAIN fs
    BY <1>2
<1>6. s \in SegmentId /\ s < w.next /\ w.next \in Nat \ {0}
  <2>1. CASE roll
    <3>1. s = v.next /\ w.next = s + 1
        BY <1>1, <2>1
    <3> QED
        BY <1>2, <1>3, <3>1 DEF SegmentId
  <2>2. CASE ~roll
      BY <1>1, <1>2, <1>5, <2>2 DEF SegmentId
  <2> HIDE DEF w, s
  <2> QED
      BY <2>1, <2>2
<1>7. old \in SegFile /\ Len(old.pages) + Pages[c] <= SegmentPages + Pages[c]
      /\ \A j \in DOMAIN old.pages : PageOK(old.pages[j])
  <2>1. CASE roll
    <3>1. old = [pages |-> << >>, wal |-> << >>]
        BY <2>1
    <3> HIDE DEF old
    <3> QED
        BY <1>3, <3>1 DEF SegFile
  <2>2. CASE ~roll
    <3>1. old = fs[s] /\ s \in DOMAIN fs /\ Len(fs[s].pages) < SegmentPages
      <4>1. fs[v.active].pages \in Seq(Page)
          BY <1>2, <2>2 DEF FileOK, SegFile
      <4>2. Len(fs[v.active].pages) \in Nat
          BY <4>1
      <4> QED
          BY <1>3, <1>5, <2>2, <4>2
    <3>2. FileOK(old)
        BY <1>2, <3>1
    <3> HIDE DEF old, s, roll
    <3>3. /\ old \in SegFile /\ Len(old.pages) \in Nat
          /\ \A j \in DOMAIN old.pages : PageOK(old.pages[j])
        BY <3>2 DEF FileOK, SegFile
    <3> QED
        BY <1>3, <3>1, <3>3
  <2> QED
      BY <2>1, <2>2
<1>8. old.pages \in Seq(Page) /\ old.wal \in Seq(LogEntry) /\ Len(old.pages) \in Nat
      /\ old = [pages |-> old.pages, wal |-> old.wal]
      /\ DOMAIN old.pages = 1..Len(old.pages)
    BY <1>7 DEF SegFile
<1>9. l \in Loc /\ l[1] = s /\ l[2] = Len(old.pages) + 1
  <2>1. Len(old.pages) + 1 \in 1..(SegmentPages + Pages[c])
      BY <1>3, <1>7, <1>8
  <2> HIDE DEF s, old
  <2> QED
      BY <1>6, <2>1, LocAssumption
<1> HIDE DEF roll, s, old, w, gs, l
<1>10. more \in Seq(Page) /\ Len(more) = Pages[c]
       /\ \A p \in 1..Pages[c] : PageOK(more[p])
    BY <1>9, ChunkPagesType
<1> HIDE DEF more
<1>11. new = [pages |-> old.pages \o more, wal |-> old.wal]
  <2>1. PICK pp \in Seq(Page), ll \in Seq(LogEntry) : old = [pages |-> pp, wal |-> ll]
      BY <1>7 DEF SegFile
  <2>2. \A x : [[pages |-> pp, wal |-> ll] EXCEPT !.pages = x] = [pages |-> x, wal |-> ll]
      OBVIOUS
  <2> QED
      BY <2>1, <2>2
<1> DEFINE n == Len(old.pages)
<1>12. /\ new.pages \in Seq(Page) /\ Len(new.pages) = n + Pages[c]
       /\ DOMAIN new.pages = 1..(n + Pages[c])
       /\ \A j \in 1..n : new.pages[j] = old.pages[j]
       /\ \A p \in 1..Pages[c] : new.pages[n + p] = more[p]
       /\ new.wal = old.wal
  <2>1. /\ old.pages \o more \in Seq(Page) /\ Len(old.pages \o more) = n + Pages[c]
        /\ \A j \in 1..n : (old.pages \o more)[j] = old.pages[j]
        /\ \A p \in 1..Pages[c] : (old.pages \o more)[n + p] = more[p]
    <3> DEFINE q == old.pages
    <3>1. q \in Seq(Page) /\ more \in Seq(Page)
        BY <1>8, <1>10
    <3> HIDE DEF q
    <3>2. /\ q \o more \in Seq(Page) /\ Len(q \o more) = Len(q) + Len(more)
          /\ \A j \in 1..Len(q) : (q \o more)[j] = q[j]
          /\ \A p \in 1..Len(more) : (q \o more)[Len(q) + p] = more[p]
        BY <3>1, ConcatIs
    <3>3. Len(more) = Pages[c]
        BY <1>10
    <3> QED
        BY <3>2, <3>3, Zenon DEF q
  <2>2. new.pages = old.pages \o more /\ new.wal = old.wal
      BY <1>11
  <2>3. DOMAIN new.pages = 1..Len(new.pages)
      BY <2>1, <2>2
  <2> HIDE DEF new
  <2> QED
      BY <2>1, <2>2, <2>3
<1>13. \A j \in 1..(n + Pages[c]) : j \in 1..n \/ \E p \in 1..Pages[c] : j = n + p
  <2>1. n \in Nat /\ Pages[c] \in Nat
      BY <1>3, <1>8
  <2> HIDE DEF n
  <2>2. ASSUME NEW j \in 1..(n + Pages[c]), j \notin 1..n
        PROVE  j - n \in 1..Pages[c] /\ j = n + (j - n)
      BY <2>1, <2>2
  <2> QED
      BY <2>2
<1>14. new \in SegFile
  <2> HIDE DEF new
  <2>1. new = [pages |-> new.pages, wal |-> new.wal]
      BY <1>11
  <2> QED
      BY <1>8, <1>12, <2>1 DEF SegFile
<1> HIDE DEF new
<1>15. FileOK(new)
  <2>1. ASSUME NEW j \in DOMAIN new.pages PROVE PageOK(new.pages[j])
    <3> HIDE DEF n
    <3>1. CASE j \in 1..n
      <4>1. j \in DOMAIN old.pages /\ new.pages[j] = old.pages[j]
          BY <1>8, <1>12, <3>1 DEF n
      <4> QED
          BY <1>7, <4>1
    <3>2. CASE j \notin 1..n
      <4>1. PICK p \in 1..Pages[c] : j = n + p
          BY <1>12, <1>13, <3>2
      <4> QED
          BY <1>10, <1>12, <4>1
    <3> QED
        BY <3>1, <3>2
  <2>2. Fits(Len(new.pages))
      BY <1>7, <1>12 DEF Fits
  <2> QED
      BY <1>14, <2>1, <2>2 DEF FileOK
<1>16. /\ DOMAIN gs = DOMAIN fs \cup {s} /\ gs[s] = new
       /\ \A t \in DOMAIN fs : t # s => gs[t] = fs[t]
       /\ gs = [t \in DOMAIN gs |-> gs[t]]
    BY DEF gs, WithFile
<1>17. v.next <= w.next
    BY <1>2, AppendChunkNext DEF w
<1>18. EngineOK(gs, s, w.next)
  <2>1. ASSUME NEW t \in DOMAIN gs PROVE FileOK(gs[t]) /\ t < w.next
    <3>1. CASE t = s
        BY <1>6, <1>15, <1>16, <3>1
    <3>2. CASE t # s
      <4>1. t \in DOMAIN fs /\ gs[t] = fs[t] /\ FileOK(fs[t]) /\ t < v.next /\ t \in Int
          BY <1>2, <1>16, <3>2 DEF SegmentId
      <4> QED
          BY <1>2, <1>6, <1>17, <4>1
    <3> QED
        BY <3>1, <3>2
  <2> QED
      BY <1>2, <1>6, <1>16, <2>1 DEF EngineOK
<1>19. s # 0
    BY <1>6 DEF SegmentId
<1>20. s \in DOMAIN fs => fs[s] = old
    BY <1>4 DEF old
<1>21. s \notin DOMAIN fs => n = 0 /\ old.wal = << >>
    BY <1>5 DEF old
<1>22. Keeps(fs, gs)
  <2>1. ASSUME NEW m \in Place, Has(fs, m) PROVE Has(gs, m) /\ At(gs, m) = At(fs, m)
    <3>1. CASE m[1] = s
      <4>1. m[2] \in 1..n
          BY <1>8, <1>20, <2>1, <3>1 DEF Has
      <4>2. m[2] \in 1..(n + Pages[c])
        <5>1. n \in Nat
            BY <1>8
        <5> HIDE DEF n
        <5> QED
            BY <1>3, <4>1, <5>1
      <4> HIDE DEF n
      <4> QED
          BY <1>12, <1>16, <1>20, <2>1, <3>1, <4>1, <4>2 DEF Has, At
    <3>2. CASE m[1] # s
        BY <1>16, <2>1, <3>2 DEF Has, At
    <3> QED
        BY <3>1, <3>2
  <2>2. \A t \in DOMAIN fs : t \in DOMAIN gs /\ gs[t].wal = fs[t].wal
      BY <1>12, <1>16, <1>20
  <2>3. \A t \in DOMAIN gs \ DOMAIN fs : gs[t].wal = << >>
      BY <1>12, <1>16, <1>21
  <2> QED
      BY <2>1, <2>2, <2>3 DEF Keeps
<1>23. ASSUME NEW p \in 1..Pages[c]
       PROVE  PartOf(l, p) = <<s, n + p>> /\ n + p \in 1..(n + Pages[c])
  <2>1. n \in Nat /\ p \in Nat
      BY <1>3, <1>8
  <2> HIDE DEF n
  <2>2. (n + 1) + p - 1 = n + p
      BY <2>1
  <2>3. l[1] = s /\ l[2] = n + 1
      BY <1>9 DEF n
  <2>4. PartOf(l, p) = <<s, n + p>>
      BY <2>2, <2>3 DEF PartOf
  <2> QED
      BY <1>3, <2>1, <2>4
<1>24. Added(fs, gs, c, b, i, total, l)
  <2>1. l \in Place
      BY <1>9, LocIsPlace
  <2>2. ~Has(fs, l)
    <3>1. SUFFICES ASSUME Has(fs, l) PROVE FALSE
        OBVIOUS
    <3>2. l[2] \in 1..n
        BY <1>8, <1>9, <1>20, <3>1 DEF Has
    <3> QED
        BY <1>8, <1>9, <3>2
  <2>3. ASSUME NEW p \in 1..Pages[c]
        PROVE  /\ Has(gs, PartOf(l, p))
               /\ At(gs, PartOf(l, p)) = ChunkPages(c, b, i, total, l)[p]
    <3> HIDE DEF n
    <3>1. PartOf(l, p)[1] = s /\ PartOf(l, p)[2] = n + p
        BY <1>23
    <3> QED
        BY <1>12, <1>16, <1>23, <3>1 DEF Has, At, more
  <2> QED
      BY <2>1, <2>2, <2>3 DEF Added
<1>25. ASSUME NEW m \in Place, Has(gs, m) PROVE Has(fs, m) \/ IsPartOf(c, l, m)
  <2>0. m = <<m[1], m[2]>>
      BY DEF Place
  <2>1. CASE m[1] = s
    <3>1. m[2] \in 1..(n + Pages[c])
        BY <1>12, <1>16, <1>25, <2>1 DEF Has
    <3>2. CASE m[2] \in 1..n
      <4>1. n # 0
        <5>1. n \in Nat
            BY <1>8
        <5> HIDE DEF n
        <5> QED
            BY <3>2, <5>1
      <4> QED
          BY <1>8, <1>20, <1>21, <2>1, <3>2, <4>1 DEF Has
    <3>3. CASE m[2] \notin 1..n
      <4>1. PICK p \in 1..Pages[c] : m[2] = n + p
          BY <1>13, <3>1, <3>3
      <4> HIDE DEF n
      <4> QED
          BY <1>23, <2>0, <2>1, <4>1 DEF IsPartOf
    <3> QED
        BY <3>2, <3>3
  <2>2. CASE m[1] # s
      BY <1>16, <1>25, <2>2 DEF Has
  <2> QED
      BY <2>1, <2>2
<1>26. w.at[Len(v.at) + 1] = l
    BY <1>1, <1>9
<1> HIDE DEF fs
<1> QED
    BY <1>1, <1>9, <1>18, <1>19, <1>22, <1>24, <1>25, <1>26 DEF w, fs

\* The recursion of WrittenUpTo has a solution, so it says what it seems to say.
LEMMA WrittenUpToIs ==
    ASSUME NEW b, NEW ids, Len(ids) \in Nat
    PROVE  /\ WrittenUpTo(b, ids)[0] =
                  [files |-> files, active |-> active, next |-> nextSeq, at |-> << >>]
           /\ \A n \in 1..Len(ids) :
                  WrittenUpTo(b, ids)[n] =
                      AppendChunk(WrittenUpTo(b, ids)[n - 1], ids[n], b, n, Len(ids))
<1> DEFINE First == [files |-> files, active |-> active, next |-> nextSeq, at |-> << >>]
           Rule(g, n) == IF n = 0 THEN First
                         ELSE AppendChunk(g[n - 1], ids[n], b, n, Len(ids))
           Good(n) == \E g : g = [i \in 0..n |-> Rule(g, i)]
           Bad == {n \in Nat : ~Good(n)}
<1>1. Good(0)
  <2> DEFINE g == [i \in 0..0 |-> First]
  <2>1. \A i \in 0..0 : g[i] = Rule(g, i)
    <3> HIDE DEF First
    <3>1. \A i \in 0..0 : i = 0
        OBVIOUS
    <3> QED
        BY <3>1
  <2>2. g = [i \in 0..0 |-> g[i]]
      OBVIOUS
  <2>3. g = [i \in 0..0 |-> Rule(g, i)]
    <3> HIDE DEF g, Rule
    <3> QED
        BY <2>1, <2>2
  <2> HIDE DEF g
  <2> QED
      BY <2>3
<1>2. ASSUME NEW n \in Nat, Good(n) PROVE Good(n + 1)
  <2>1. PICK g : g = [i \in 0..n |-> Rule(g, i)]
      BY <1>2
  <2> DEFINE h == [i \in 0..(n + 1) |-> IF i = n + 1 THEN Rule(g, i) ELSE g[i]]
  <2>2. \A i \in 0..n : g[i] = Rule(g, i)
    <3> HIDE DEF Rule
    <3> QED
        BY <2>1
  <2>3. ASSUME NEW i \in 0..(n + 1) PROVE h[i] = Rule(h, i)
    <3>1. i # 0 => i - 1 \in 0..n /\ h[i - 1] = g[i - 1]
      <4> HIDE DEF Rule
      <4> QED
          OBVIOUS
    <3>2. Rule(h, i) = Rule(g, i)
      <4> HIDE DEF h, First
      <4> QED
          BY <3>1
    <3>3. i # n + 1 => i \in 0..n
        OBVIOUS
    <3> HIDE DEF Rule
    <3> QED
        BY <2>2, <3>2, <3>3
  <2>4. h = [i \in 0..(n + 1) |-> h[i]]
    <3> HIDE DEF Rule
    <3> QED
        OBVIOUS
  <2>5. h = [i \in 0..(n + 1) |-> Rule(h, i)]
    <3> HIDE DEF h, Rule
    <3> QED
        BY <2>3, <2>4
  <2> HIDE DEF h
  <2> QED
      BY <2>5
<1>3. \A n \in Nat : Good(n)
  <2>1. SUFFICES ASSUME Bad # {} PROVE FALSE
    <3> HIDE DEF Good
    <3> QED
        OBVIOUS
  <2> HIDE DEF Good
  <2>2. Min(Bad) \in Bad /\ \A j \in Bad : Min(Bad) <= j
      BY <2>1, MinIs
  <2> DEFINE m == Min(Bad)
  <2> HIDE DEF m
  <2>3. m \in Bad /\ \A j \in Bad : m <= j
      BY <2>2 DEF m
  <2>4. m # 0 /\ m \in Nat /\ m - 1 \in Nat
      BY <1>1, <2>3
  <2>5. Good(m - 1)
      BY <2>3, <2>4
  <2>6. m = (m - 1) + 1
      BY <2>4
  <2> QED
      BY <1>2, <2>3, <2>4, <2>5, <2>6
<1>4. \E g : g = [n \in 0..Len(ids) |-> Rule(g, n)]
  <2>1. Good(Len(ids))
    <3> HIDE DEF Good
    <3> QED
        BY <1>3
  <2> QED
      BY <2>1
<1>5. WrittenUpTo(b, ids) = CHOOSE g : g = [n \in 0..Len(ids) |-> Rule(g, n)]
    BY DEF WrittenUpTo
<1> DEFINE v == WrittenUpTo(b, ids)
<1>6. v = [n \in 0..Len(ids) |-> Rule(v, n)]
  <2> HIDE DEF Rule
  <2> QED
      BY <1>4, <1>5
<1>7. \A n \in 0..Len(ids) : v[n] = Rule(v, n)
  <2> HIDE DEF Rule
  <2> QED
      BY <1>6
<1> HIDE DEF v
<1>8. v[0] = First
  <2>1. v[0] = Rule(v, 0)
    <3> HIDE DEF Rule
    <3> QED
        BY <1>7
  <2> QED
      BY <2>1
<1>9. ASSUME NEW n \in 1..Len(ids)
      PROVE v[n] = AppendChunk(v[n - 1], ids[n], b, n, Len(ids))
  <2>1. n \in 0..Len(ids) /\ n # 0
      OBVIOUS
  <2>2. v[n] = Rule(v, n)
    <3> HIDE DEF Rule
    <3> QED
        BY <1>7, <2>1
  <2> QED
      BY <2>1, <2>2
<1> QED
    BY <1>8, <1>9 DEF v

\* What a Put has written after n chunks of the manifest ids of b.
WrittenOK(v, b, ids, n) ==
    /\ EngineOK(v.files, v.active, v.next)
    /\ n > 0 => v.active # 0
    /\ v.at \in Seq(Loc) /\ Len(v.at) = n
    /\ Keeps(files, v.files)
    /\ \A i \in 1..n : Added(files, v.files, ids[i], b, i, Len(ids), v.at[i])
    /\ \A i, j \in 1..n : v.at[i] = v.at[j] => i = j
    /\ \A m \in Place : Has(v.files, m) =>
         Has(files, m) \/ \E i \in 1..n : IsPartOf(ids[i], v.at[i], m)

\* A copy is not undone by what is appended later.
LEMMA AddedKept ==
    ASSUME NEW fs, NEW gs, NEW hs, NEW c \in ChunkId, NEW b, NEW i, NEW total, NEW l,
           Added(fs, gs, c, b, i, total, l), Keeps(gs, hs)
    PROVE  Added(fs, hs, c, b, i, total, l)
<1>1. ASSUME NEW p \in 1..Pages[c] PROVE PartOf(l, p) \in Place
  <2>1. l[1] \in Nat /\ l[2] \in Nat /\ p \in Nat /\ p >= 1
      BY PagesType DEF Added, Place
  <2> QED
      BY <2>1 DEF PartOf, Place
<1>2. ASSUME NEW p \in 1..Pages[c]
      PROVE  /\ Has(hs, PartOf(l, p))
             /\ At(hs, PartOf(l, p)) = ChunkPages(c, b, i, total, l)[p]
    BY <1>1, Zenon DEF Keeps, Added
<1> QED
    BY <1>2, Zenon DEF Added

\* One more chunk.
LEMMA WrittenStep ==
    ASSUME LifeInv, NEW b \in Blob, NEW ids \in Seq(ChunkId), NEW n \in Nat,
           n + 1 \in 1..Len(ids), NEW v, WrittenOK(v, b, ids, n),
           AppendChunk(v, ids[n + 1], b, n + 1, Len(ids)).next <= MaxSegment + 1
    PROVE  WrittenOK(AppendChunk(v, ids[n + 1], b, n + 1, Len(ids)), b, ids, n + 1)
<1> DEFINE c == ids[n + 1]
           w == AppendChunk(v, c, b, n + 1, Len(ids))
           l == w.at[n + 1]
<1>1. c \in ChunkId /\ n + 1 \in Nat /\ Len(ids) \in Nat
    OBVIOUS
<1>2. /\ EngineOK(v.files, v.active, v.next) /\ v.at \in Seq(Loc) /\ Len(v.at) = n
      /\ Keeps(files, v.files)
    BY DEF WrittenOK
<1> HIDE DEF c
<1>3. /\ EngineOK(w.files, w.active, w.next) /\ w.active # 0
      /\ l \in Loc /\ w.at = Append(v.at, l)
      /\ Keeps(v.files, w.files)
      /\ Added(v.files, w.files, c, b, n + 1, Len(ids), l)
      /\ \A m \in Place : Has(w.files, m) => Has(v.files, m) \/ IsPartOf(c, l, m)
  <2>1. w.next <= MaxSegment + 1
      BY DEF c
  <2> QED
      BY <1>1, <1>2, <2>1, AppendChunkAdds
<1> HIDE DEF w, l
<1>4. /\ w.at \in Seq(Loc) /\ Len(w.at) = n + 1
      /\ (\A i \in 1..n : w.at[i] = v.at[i]) /\ w.at[n + 1] = l
    BY <1>2, <1>3
<1>5. Keeps(files, w.files)
    BY <1>2, <1>3, KeepsKeeps
<1>6. \A i \in 1..(n + 1) : i = n + 1 \/ i \in 1..n
    OBVIOUS
<1>7. \A i \in 1..n : Has(v.files, w.at[i]) /\ w.at[i] \in Place
  <2>1. SUFFICES ASSUME NEW i \in 1..n PROVE Has(v.files, w.at[i]) /\ w.at[i] \in Place
      OBVIOUS
  <2>2. Added(files, v.files, ids[i], b, i, Len(ids), v.at[i]) /\ w.at[i] = v.at[i]
      BY <1>4, Zenon DEF WrittenOK
  <2>3. ids[i] \in ChunkId
      OBVIOUS
  <2>4. v.at[i] \in Place /\ Has(v.files, PartOf(v.at[i], 1))
      BY <2>2, <2>3, PagesType DEF Added
  <2>5. PartOf(v.at[i], 1) = v.at[i]
      BY <2>4 DEF PartOf, Place
  <2> QED
      BY <2>2, <2>4, <2>5
<1>8. ~Has(v.files, l) /\ l \in Place
    BY <1>3, Zenon DEF Added
<1>9. ASSUME NEW i \in 1..(n + 1)
      PROVE Added(files, w.files, ids[i], b, i, Len(ids), w.at[i])
  <2>1. CASE i \in 1..n
    <3>1. Added(files, v.files, ids[i], b, i, Len(ids), v.at[i]) /\ w.at[i] = v.at[i]
        BY <1>4, <2>1, Zenon DEF WrittenOK
    <3>2. ids[i] \in ChunkId
        BY <2>1
    <3> QED
        BY <1>3, <3>1, <3>2, AddedKept
  <2>2. CASE i = n + 1
    <3>1. ~Has(files, l)
        BY <1>2, <1>8, Zenon DEF Keeps
    <3>2. Added(files, w.files, c, b, n + 1, Len(ids), l)
        BY <1>3, <3>1, Zenon DEF Added
    <3> QED
        BY <1>4, <2>2, <3>2 DEF c
  <2> QED
      BY <1>6, <2>1, <2>2
<1>10. ASSUME NEW i \in 1..(n + 1), NEW j \in 1..(n + 1), w.at[i] = w.at[j] PROVE i = j
  <2>1. CASE i \in 1..n /\ j \in 1..n
    <3>1. v.at[i] = v.at[j]
        BY <1>4, <1>10, <2>1
    <3> QED
        BY <2>1, <3>1, Zenon DEF WrittenOK
  <2>2. CASE i = n + 1 /\ j \in 1..n
      BY <1>4, <1>7, <1>8, <1>10, <2>2
  <2>3. CASE i \in 1..n /\ j = n + 1
      BY <1>4, <1>7, <1>8, <1>10, <2>3
  <2> QED
      BY <1>6, <2>1, <2>2, <2>3
<1>11. ASSUME NEW m \in Place, Has(w.files, m)
       PROVE Has(files, m) \/ \E i \in 1..(n + 1) : IsPartOf(ids[i], w.at[i], m)
  <2>1. CASE IsPartOf(c, l, m)
    <3>1. IsPartOf(ids[n + 1], w.at[n + 1], m)
        BY <1>4, <2>1 DEF c
    <3> QED
        BY <3>1
  <2>2. CASE Has(v.files, m)
    <3>1. Has(files, m) \/ \E i \in 1..n : IsPartOf(ids[i], v.at[i], m)
        BY <2>2, Zenon DEF WrittenOK
    <3>2. \A i \in 1..n : i \in 1..(n + 1) /\ w.at[i] = v.at[i]
        BY <1>4
    <3> QED
        BY <3>1, <3>2, Zenon
  <2> QED
      BY <1>3, <1>11, <2>1, <2>2, Zenon
<1> QED
    BY <1>3, <1>4, <1>5, <1>9, <1>10, <1>11, Zenon DEF WrittenOK, w, c

\* What WriteBlob has done when it is done.
LEMMA WrittenIs ==
    ASSUME LifeInv, FilesInv, NEW b \in Blob, NEW ids \in Seq(ChunkId),
           Written(b, ids).next <= MaxSegment + 1
    PROVE  WrittenOK(Written(b, ids), b, ids, Len(ids))
<1> DEFINE v(n) == WrittenUpTo(b, ids)[n]
           L == Len(ids)
<1>1. L \in Nat
    OBVIOUS
<1>2. v(0) = [files |-> files, active |-> active, next |-> nextSeq, at |-> << >>]
    BY WrittenUpToIs
<1>3. \A n \in 1..L : v(n) = AppendChunk(v(n - 1), ids[n], b, n, L)
    BY WrittenUpToIs
<1>4. WrittenOK(v(0), b, ids, 0)
  <2>1. EngineOK(files, active, nextSeq)
      BY DEF FilesInv
  <2>2. Keeps(files, files)
      BY DEF Keeps
  <2>3. << >> \in Seq(Loc) /\ Len(<< >>) = 0 /\ ~(0 > 0) /\ 1..0 = {}
      OBVIOUS
  <2>4. \A m \in Place : Has(files, m) => Has(files, m)
      OBVIOUS
  <2> QED
      BY <1>2, <2>1, <2>2, <2>3, <2>4 DEF WrittenOK
<1> HIDE DEF v, L
<1> DEFINE P(n) == /\ v(n).next \in Nat
                   /\ v(n).next <= MaxSegment + 1 => WrittenOK(v(n), b, ids, n)
           Bad == {n \in 0..L : ~P(n)}
<1>5. P(0)
    BY <1>2, <1>4 DEF FilesInv, EngineOK
<1>6. ASSUME NEW n \in Nat, n + 1 \in 1..L, P(n) PROVE P(n + 1)
  <2>1. v(n + 1) = AppendChunk(v(n), ids[n + 1], b, n + 1, L)
    <3>1. (n + 1) - 1 = n
        OBVIOUS
    <3> QED
        BY <1>3, <1>6, <3>1
  <2>2. v(n + 1).next \in Nat /\ v(n).next <= v(n + 1).next
      BY <1>6, <2>1, AppendChunkNext
  <2>3. ASSUME v(n + 1).next <= MaxSegment + 1 PROVE WrittenOK(v(n + 1), b, ids, n + 1)
    <3>1. v(n).next <= MaxSegment + 1
      <4>1. MaxSegment \in Nat
          BY StoreBoundAssumption
      <4> QED
          BY <1>6, <2>2, <2>3, <4>1
    <3>2. WrittenOK(v(n), b, ids, n)
        BY <1>6, <3>1
    <3> QED
        BY <1>6, <2>1, <2>3, <3>2, WrittenStep DEF L
  <2> QED
      BY <2>2, <2>3
<1>7. Bad = {}
  <2>1. SUFFICES ASSUME Bad # {} PROVE FALSE
      OBVIOUS
  <2> HIDE DEF P
  <2>2. Bad \in SUBSET Nat
      BY <1>1
  <2> DEFINE m == Min(Bad)
  <2>3. m \in Bad /\ \A j \in Bad : m <= j
      BY <2>1, <2>2, MinIs
  <2> HIDE DEF m
  <2>4. m # 0 /\ m \in 0..L
      BY <1>5, <2>3
  <2>5. m - 1 \in Nat /\ m \in 1..L /\ m - 1 \in 0..L /\ ~(m <= m - 1) /\ (m - 1) + 1 = m
      BY <1>1, <2>4
  <2>6. P(m - 1)
      BY <2>3, <2>5
  <2>7. P((m - 1) + 1)
      BY <1>6, <2>5, <2>6
  <2> QED
      BY <2>3, <2>5, <2>7
<1>8. L \in 0..L
    BY <1>1
<1>9. P(L)
  <2> HIDE DEF P
  <2> QED
      BY <1>7, <1>8
<1> QED
    BY <1>9 DEF Written, v, L

-----------------------------------------------------------------------------
(* What RewriteSegment keeps                                               *)

Below(T, i) == {j \in T : j < i}

\* Positions have finitely many below them, and later ones have more.
LEMMA BelowGrows ==
    ASSUME NEW T \in SUBSET Nat, IsFiniteSet(T), NEW i \in T
    PROVE  /\ IsFiniteSet(Below(T, i)) /\ Cardinality(Below(T, i)) \in Nat
           /\ Cardinality(Below(T, i)) < Cardinality(T)
           /\ \A j \in T : j < i => Cardinality(Below(T, j)) < Cardinality(Below(T, i))
<1>1. \A j \in T : IsFiniteSet(Below(T, j)) /\ Cardinality(Below(T, j)) \in Nat
    BY FS_Subset, FS_CardinalityType DEF Below
<1>2. \A j \in T : j \in Nat /\ ~(j < j)
    OBVIOUS
<1>3. ASSUME NEW j \in T, j < i PROVE Cardinality(Below(T, j)) < Cardinality(Below(T, i))
  <2>1. \A a, b, c \in Nat : a < b /\ b < c => a < c
      OBVIOUS
  <2>2. Below(T, j) \subseteq Below(T, i) /\ j \in Below(T, i) /\ j \notin Below(T, j)
      BY <1>2, <1>3, <2>1 DEF Below
  <2>3. Below(T, j) \in SUBSET Below(T, i) /\ Below(T, j) # Below(T, i)
      BY <2>2, Zenon
  <2>4. /\ Cardinality(Below(T, j)) <= Cardinality(Below(T, i))
        /\ Cardinality(Below(T, i)) = Cardinality(Below(T, j)) => Below(T, i) = Below(T, j)
      BY <1>1, <2>3, FS_Subset
  <2> QED
      BY <1>1, <2>3, <2>4
<1>4. Cardinality(Below(T, i)) < Cardinality(T)
  <2>1. Below(T, i) \in SUBSET T /\ i \notin Below(T, i)
      BY <1>2 DEF Below
  <2>2. /\ Cardinality(Below(T, i)) <= Cardinality(T)
        /\ Cardinality(T) = Cardinality(Below(T, i)) => T = Below(T, i)
      BY <2>1, FS_Subset
  <2>3. Cardinality(T) \in Nat
      BY FS_CardinalityType
  <2> QED
      BY <1>1, <2>1, <2>2, <2>3
<1> QED
    BY <1>1, <1>3, <1>4

\* There is an n-th of n or more positions, and every position is one.
LEMMA NthIs ==
    ASSUME NEW T \in SUBSET Nat, IsFiniteSet(T)
    PROVE  /\ Cardinality(T) \in Nat
           /\ \A n \in 1..Cardinality(T) :
                 Nth(T, n) \in T /\ Cardinality(Below(T, Nth(T, n))) = n - 1
           /\ \A i \in T : \E n \in 1..Cardinality(T) : Nth(T, n) = i
<1> DEFINE L == Cardinality(T)
           Found(n) == \E i \in T : Cardinality(Below(T, i)) = n - 1
           Bad == {n \in 1..L : ~Found(n)}
<1>1. L \in Nat
    BY FS_CardinalityType
<1>2. ASSUME 1 \in 1..L PROVE Found(1)
  <2>1. T # {}
      BY <1>2, FS_EmptySet
  <2>2. Min(T) \in T /\ \A j \in T : Min(T) <= j
      BY <2>1, MinIs
  <2>3. Below(T, Min(T)) = {}
    <3>1. Min(T) \in Nat /\ \A j \in T : j \in Nat
        BY <2>2
    <3>2. \A j \in T : ~(j < Min(T))
        BY <2>2, <3>1
    <3> QED
        BY <3>2 DEF Below
  <2>4. Cardinality(Below(T, Min(T))) = 1 - 1
      BY <2>3, FS_EmptySet
  <2> QED
      BY <2>2, <2>4
<1>3. ASSUME NEW n \in Nat, n >= 1, n + 1 \in 1..L, Found(n) PROVE Found(n + 1)
  <2>1. PICK i \in T : Cardinality(Below(T, i)) = n - 1
      BY <1>3
  <2> DEFINE rest == {j \in T : j > i}
  <2>2. IsFiniteSet(Below(T, i)) /\ i \notin Below(T, i)
      BY BelowGrows DEF Below
  <2>3. Cardinality(Below(T, i) \cup {i}) = n
    <3>1. Cardinality(Below(T, i) \cup {i}) = Cardinality(Below(T, i)) + 1
        BY <2>2, FS_AddElement
    <3> QED
        BY <1>3, <2>1, <3>1
  <2>4. rest # {}
    <3>1. SUFFICES ASSUME rest = {} PROVE FALSE
        OBVIOUS
    <3>2. \A j \in T : j \in Nat /\ (j < i \/ j = i \/ j > i)
        OBVIOUS
    <3>3. T = Below(T, i) \cup {i}
        BY <3>1, <3>2 DEF Below
    <3>4. L = n
        BY <2>3, <3>3
    <3> QED
        BY <1>3, <3>4
  <2> DEFINE m == Min(rest)
  <2>5. m \in rest /\ \A j \in rest : m <= j
      BY <2>4, MinIs
  <2> HIDE DEF m
  <2>6. Below(T, m) = Below(T, i) \cup {i}
    <3>1. m \in Nat /\ i \in Nat /\ m > i
        BY <2>5
    <3>2. ASSUME NEW j \in T PROVE j < m <=> j < i \/ j = i
      <4>1. j \in Nat /\ (j > i => m <= j)
          BY <2>5
      <4> QED
          BY <3>1, <4>1
    <3> QED
        BY <3>2 DEF Below
  <2>7. Cardinality(Below(T, m)) = (n + 1) - 1
      BY <1>3, <2>3, <2>6
  <2> QED
      BY <2>5, <2>7
<1>4. Bad = {}
  <2>1. SUFFICES ASSUME Bad # {} PROVE FALSE
      OBVIOUS
  <2> HIDE DEF Found
  <2>2. Bad \in SUBSET Nat
    <3>1. \A i \in 1..L : i \in Nat
        OBVIOUS
    <3> QED
        BY <3>1
  <2> DEFINE m == Min(Bad)
  <2>3. m \in Bad /\ \A j \in Bad : m <= j
      BY <2>1, <2>2, MinIs
  <2> HIDE DEF m, L
  <2>4. m # 1 /\ m \in 1..L
      BY <1>2, <2>3
  <2>5. m - 1 \in Nat /\ m - 1 >= 1 /\ m - 1 \in 1..L /\ ~(m <= m - 1) /\ (m - 1) + 1 = m
      BY <1>1, <2>4
  <2>6. Found(m - 1)
      BY <2>3, <2>5
  <2>7. Found((m - 1) + 1)
      BY <1>3, <2>4, <2>5, <2>6
  <2> QED
      BY <2>3, <2>5, <2>7
<1>5. ASSUME NEW n \in 1..L
      PROVE Nth(T, n) \in T /\ Cardinality(Below(T, Nth(T, n))) = n - 1
  <2>1. Found(n)
    <3> HIDE DEF Found
    <3> QED
        BY <1>4
  <2>2. Nth(T, n) = CHOOSE i \in T : Cardinality(Below(T, i)) = n - 1
      BY DEF Nth, Below
  <2> QED
      BY <2>1, <2>2
<1>6. ASSUME NEW i \in T PROVE \E n \in 1..L : Nth(T, n) = i
  <2> DEFINE n == Cardinality(Below(T, i)) + 1
             j == Nth(T, n)
  <2>1. n \in 1..L /\ Cardinality(Below(T, i)) = n - 1
      BY <1>1, BelowGrows
  <2>2. j \in T /\ Cardinality(Below(T, j)) = Cardinality(Below(T, i))
      BY <1>5, <2>1
  <2>3. i \in Nat /\ j \in Nat /\ Cardinality(Below(T, i)) \in Nat
      BY <2>2, BelowGrows
  <2> HIDE DEF j, n
  <2>4. ~(i < j) /\ ~(j < i)
      BY <2>2, <2>3, BelowGrows
  <2>5. i = j
      BY <2>3, <2>4
  <2> QED
      BY <2>1, <2>5 DEF j
<1> QED
    BY <1>1, <1>5, <1>6

\* The pages left are unflagged ones, each once, and all of them.
LEMMA CompactedIs ==
    ASSUME NEW pages \in Seq(Page)
    PROVE  LET kept == Compacted(pages)
               n(i) == Nth(Unflagged(pages), i)
           IN  /\ kept \in Seq(Page) /\ Len(kept) <= Len(pages)
               /\ \A i \in DOMAIN kept : n(i) \in Unflagged(pages) /\ kept[i] = pages[n(i)]
               /\ \A i, j \in DOMAIN kept : n(i) = n(j) => i = j
               /\ \A p \in Unflagged(pages) : \E i \in DOMAIN kept : n(i) = p
<1> DEFINE T == Unflagged(pages)
           L == Cardinality(T)
           kept == Compacted(pages)
<1>1. DOMAIN pages = 1..Len(pages) /\ Len(pages) \in Nat
    OBVIOUS
<1>2. IsFiniteSet(1..Len(pages)) /\ Cardinality(1..Len(pages)) = Len(pages)
    BY <1>1, FS_Interval
<1>3. T \in SUBSET (1..Len(pages))
    BY <1>1 DEF Unflagged
<1>4. IsFiniteSet(T) /\ L <= Len(pages)
    BY <1>2, <1>3, FS_Subset
<1>5. T \in SUBSET Nat
  <2>1. \A i \in 1..Len(pages) : i \in Nat
      OBVIOUS
  <2> HIDE DEF T
  <2> QED
      BY <1>3, <2>1
<1>6. \A p \in T : pages[p] \in Page
    BY <1>1, <1>3
<1> HIDE DEF T
<1>7. /\ L \in Nat
      /\ \A n \in 1..L : Nth(T, n) \in T /\ Cardinality(Below(T, Nth(T, n))) = n - 1
      /\ \A i \in T : \E n \in 1..L : Nth(T, n) = i
    BY <1>4, <1>5, NthIs
<1> HIDE DEF L
<1>8. kept = [n \in 1..L |-> pages[Nth(T, n)]]
    BY DEF Compacted, T, L
<1> HIDE DEF kept
<1>9. \A n \in 1..L : kept[n] = pages[Nth(T, n)] /\ kept[n] \in Page
    BY <1>6, <1>7, <1>8
<1>10. kept \in Seq(Page) /\ Len(kept) = L /\ DOMAIN kept = 1..L
    BY <1>7, <1>8, <1>9
<1>11. \A i, j \in 1..L : Nth(T, i) = Nth(T, j) => i = j
  <2>1. SUFFICES ASSUME NEW i \in 1..L, NEW j \in 1..L, Nth(T, i) = Nth(T, j) PROVE i = j
      OBVIOUS
  <2>2. i - 1 = j - 1
      BY <1>7, <2>1
  <2> QED
      BY <2>2
<1> QED
    BY <1>4, <1>7, <1>9, <1>10, <1>11 DEF T, kept

-----------------------------------------------------------------------------
(* What most steps leave alone                                             *)

\* The pages on disk are locations, and finite in number.
LEMMA AllPagesFinite ==
    ASSUME FilesInv
    PROVE  AllPages \in SUBSET Loc /\ IsFiniteSet(AllPages)
<1> DEFINE pagesOf(s) == {s} \X (1..Len(files[s].pages))
           f == [s \in DOMAIN files |-> pagesOf(s)]
           all == {pagesOf(s) : s \in DOMAIN files}
<1>1. DOMAIN files \in SUBSET (1..MaxSegment) /\ MaxSegment \in Int
    BY StoreBoundAssumption DEF FilesInv, EngineOK, SegmentId
<1>2. IsFiniteSet(DOMAIN files)
  <2>1. IsFiniteSet(1..MaxSegment)
      BY <1>1, FS_Interval
  <2> QED
      BY <1>1, <2>1, FS_Subset
<1>3. \A s \in DOMAIN files : files[s].pages \in Seq(Page)
    BY DEF FilesInv, EngineOK, FileOK, SegFile
<1>4. \A s \in DOMAIN files : IsFiniteSet(pagesOf(s))
  <2>1. SUFFICES ASSUME NEW s \in DOMAIN files PROVE IsFiniteSet(pagesOf(s))
      OBVIOUS
  <2>2. Len(files[s].pages) \in Int
      BY <1>3
  <2>3. IsFiniteSet(1..Len(files[s].pages))
      BY <2>2, FS_Interval
  <2>4. IsFiniteSet({s})
      BY FS_Singleton
  <2> QED
      BY <2>3, <2>4, FS_Product
<1>5. f \in Surjection(DOMAIN files, all)
    BY DEF Surjection
<1>6. IsFiniteSet(all)
  <2> HIDE DEF f, all
  <2> QED
      BY <1>2, <1>5, FS_Surjection
<1>7. IsFiniteSet(UNION all)
    BY <1>4, <1>6, FS_UNION
<1>8. ASSUME NEW l \in AllPages PROVE l \in UNION all
  <2>1. /\ l \in Place /\ l[1] \in DOMAIN files /\ l[2] \in DOMAIN files[l[1]].pages
      BY LocIsPlace DEF AllPages, HasPage
  <2>2. files[l[1]].pages \in Seq(Page)
      BY <1>3, <2>1
  <2>3. l = <<l[1], l[2]>>
      BY <2>1 DEF Place
  <2>4. l[2] \in 1..Len(files[l[1]].pages)
      BY <2>1, <2>2
  <2>5. l \in pagesOf(l[1])
      BY <2>3, <2>4
  <2> QED
      BY <2>1, <2>5
<1>9. AllPages \in SUBSET (UNION all)
    BY <1>8
<1> HIDE DEF all
<1> QED
    BY <1>7, <1>9, FS_Subset DEF AllPages

\* HasPage and PageAt, in these terms.
LEMMA HasPageIs == \A l : (HasPage(l) <=> Has(files, l)) /\ PageAt(l) = At(files, l)
BY DEF HasPage, Has, PageAt, At

LEMMA SomePage ==
    ASSUME FilesInv, NEW l \in Place, HasPage(l)
    PROVE  /\ l \in Loc /\ PageAt(l) \in Page /\ PageOK(PageAt(l))
           /\ PageAt(l).chunk \in ChunkId /\ l \in AllPages
<1>1. l \in Loc /\ PageAt(l) \in Page /\ PageOK(PageAt(l))
    BY HasIsLoc, HasPageIs DEF FilesInv
<1> QED
    BY <1>1 DEF Page, AllPages

\* Flagging a page changes nothing else.
LEMMA FlagIs ==
    ASSUME FilesInv, NEW l \in Loc, HasPage(l), SetDeleted(l)
    PROVE  /\ EngineOK(files', active, nextSeq)
           /\ DOMAIN files' = DOMAIN files
           /\ \A s \in DOMAIN files : files'[s].wal = files[s].wal
           /\ \A m \in Place : Has(files', m) <=> Has(files, m)
           /\ \A m \in Place : Has(files, m) =>
                 At(files', m) = IF m = l THEN [At(files, l) EXCEPT !.deleted = TRUE]
                                 ELSE At(files, m)
<1> DEFINE s == l[1]
           i == l[2]
           old == files[s]
           page == old.pages[i]
           flagged == [page EXCEPT !.deleted = TRUE]
           pages == [old.pages EXCEPT ![i] = flagged]
           new == [old EXCEPT !.pages = pages]
<1>1. l \in Place /\ l = <<s, i>> /\ s \in DOMAIN files /\ i \in DOMAIN old.pages
    BY LocIsPlace DEF HasPage, Place
<1>2. FileOK(old) /\ files = [t \in DOMAIN files |-> files[t]]
    BY <1>1 DEF FilesInv, EngineOK
<1>3. old \in SegFile /\ Fits(Len(old.pages)) /\ \A j \in DOMAIN old.pages : PageOK(old.pages[j])
    BY <1>2 DEF FileOK
<1>4. files' = [files EXCEPT ![s] = new]
    BY DEF SetDeleted
<1>5. old.pages \in Seq(Page) /\ old.wal \in Seq(LogEntry)
    BY <1>3 DEF SegFile
<1>6. page \in Page
    BY <1>1, <1>5
<1>7. flagged \in Page /\ flagged.part = page.part /\ flagged.chunk = page.chunk
      /\ flagged.sealed = page.sealed
  <2> HIDE DEF page
  <2> QED
      BY <1>6 DEF Page
<1>8. PageOK(flagged)
  <2>1. PageOK(page)
      BY <1>1, <1>3
  <2> HIDE DEF page, flagged
  <2> QED
      BY <1>7, <2>1 DEF PageOK
<1> HIDE DEF flagged
<1>9. /\ pages \in Seq(Page) /\ Len(pages) = Len(old.pages) /\ DOMAIN pages = DOMAIN old.pages
      /\ pages[i] = flagged /\ \A j \in DOMAIN old.pages : j # i => pages[j] = old.pages[j]
  <2> HIDE DEF old
  <2> QED
      BY <1>1, <1>5, <1>7
<1> HIDE DEF pages
<1>10. new = [pages |-> pages, wal |-> old.wal]
  <2>1. PICK pp \in Seq(Page), ll \in Seq(LogEntry) : old = [pages |-> pp, wal |-> ll]
      BY <1>3 DEF SegFile
  <2>2. [[pages |-> pp, wal |-> ll] EXCEPT !.pages = pages] = [pages |-> pages, wal |-> ll]
      OBVIOUS
  <2> QED
      BY <2>1, <2>2
<1> HIDE DEF new
<1>11. new \in SegFile
    BY <1>5, <1>9, <1>10 DEF SegFile
<1>12. new.pages = pages /\ new.wal = old.wal
    BY <1>10
<1>13. FileOK(new)
  <2>1. \A j \in DOMAIN pages : PageOK(pages[j])
      BY <1>3, <1>8, <1>9
  <2> QED
      BY <1>3, <1>9, <1>11, <1>12, <2>1 DEF FileOK
<1>14. /\ DOMAIN files' = DOMAIN files /\ files'[s] = new
       /\ \A t \in DOMAIN files : t # s => files'[t] = files[t]
       /\ files' = [t \in DOMAIN files' |-> files'[t]]
  <2> HIDE DEF s
  <2> QED
      BY <1>1, <1>2, <1>4
<1>15. EngineOK(files', active, nextSeq)
  <2> HIDE DEF s, old
  <2> QED
      BY <1>13, <1>14 DEF FilesInv, EngineOK
<1>16. \A m \in Place : m = <<m[1], m[2]>>
    BY DEF Place
<1>17. ASSUME NEW m \in Place
       PROVE  /\ Has(files', m) <=> Has(files, m)
              /\ Has(files, m) => At(files', m) = IF m = l THEN [At(files, l) EXCEPT !.deleted = TRUE]
                                                  ELSE At(files, m)
  <2>1. CASE m[1] # s
    <3>1. m # l
        BY <2>1
    <3> QED
        BY <1>14, <2>1, <3>1 DEF Has, At
  <2>2. CASE m[1] = s
    <3>1. files'[m[1]].pages = pages /\ files[m[1]] = old
        BY <1>12, <1>14, <2>2
    <3>2. Has(files', m) <=> Has(files, m)
        BY <1>1, <1>9, <1>14, <2>2, <3>1 DEF Has
    <3>3. CASE m[2] = i
      <4>1. m = l
          BY <1>1, <1>16, <2>2, <3>3
      <4>2. At(files', m) = flagged
          BY <1>9, <3>1, <3>3 DEF At
      <4> QED
          BY <3>2, <4>1, <4>2 DEF At, flagged
    <3>4. CASE m[2] # i
      <4>1. m # l
          BY <3>4
      <4> QED
          BY <1>9, <3>1, <3>2, <3>4, <4>1 DEF Has, At
    <3> QED
        BY <3>3, <3>4
  <2> QED
      BY <2>1, <2>2
<1>18. \A t \in DOMAIN files : files'[t].wal = files[t].wal
    BY <1>12, <1>14
<1> QED
    BY <1>14, <1>15, <1>17, <1>18

\* A step after which every file and page is where it was, the engine and its active
\* segment are, and segments are not rewritten unless they were.
Undisturbed ==
    /\ \A m \in Place : Has(files, m) => Has(files', m)
    /\ DOMAIN files \subseteq DOMAIN files'
    /\ active' = active \/ (active' # 0 /\ ~Rewriting)
    /\ space'.engine = space.engine
    /\ Rewriting' => Rewriting

LEMMA NothingDisturbed ==
    ASSUME UNCHANGED <<files, active, space>>, Rewriting' => Rewriting
    PROVE  Undisturbed
<1>1. files' = files /\ active' = active /\ space'.engine = space.engine
    OBVIOUS
<1>2. \A m \in Place : Has(files, m) => Has(files', m)
    BY <1>1 DEF Has
<1> QED
    BY <1>1, <1>2 DEF Undisturbed

\* A Put that a step does not touch is not affected.
LEMMA BusyStays ==
    ASSUME NEW w \in Writer, BusyPutOK(put[w]), put'[w] = put[w], Undisturbed
    PROVE  BusyPutOK(put[w])'
<1>1. \A i \in DOMAIN put[w].at : HasPage(put[w].at[i])'
  <2>1. SUFFICES ASSUME NEW i \in DOMAIN put[w].at PROVE Has(files', put[w].at[i])
      BY DEF HasPage, Has
  <2>2. put[w].at \in Seq(Loc) /\ Has(files, put[w].at[i])
      BY HasPageIs DEF BusyPutOK, BusyPut
  <2>3. put[w].at[i] \in Place
      BY <2>2, LocIsPlace
  <2> QED
      BY <2>2, <2>3 DEF Undisturbed
<1>2. space'.engine /\ active' # 0 /\ ~Rewriting'
    BY DEF BusyPutOK, Undisturbed
<1> QED
    BY <1>1, <1>2 DEF BusyPutOK

LEMMA PutsStay ==
    ASSUME PutsInv, UNCHANGED put, Undisturbed
    PROVE  PutsInv'
<1>1. \A w \in Writer : BusyPutOK(put[w]) => BusyPutOK(put[w])'
    BY BusyStays
<1> QED
    BY <1>1, Zenon DEF PutsInv

\* One Put moves on.
LEMMA PutsStep ==
    ASSUME PutsInv, NEW w \in Writer, put' = [put EXCEPT ![w] = put'[w]],
           put'[w] = IdlePut \/ BusyPutOK(put[w])', Undisturbed
    PROVE  PutsInv'
<1>1. \A v \in Writer : v # w => put'[v] = put[v]
    BY DEF PutsInv
<1>2. put' = [v \in Writer |-> put'[v]]
    BY DEF PutsInv
<1>3. \A v \in Writer : v # w /\ BusyPutOK(put[v]) => BusyPutOK(put[v])'
    BY <1>1, BusyStays
<1>4. \A v \in Writer : put'[v] = IdlePut \/ BusyPutOK(put[v])'
    BY <1>1, <1>3, Zenon DEF PutsInv
<1> QED
    BY <1>2, <1>4, Zenon DEF PutsInv

LEMMA ReadersStay ==
    ASSUME ReadersInv, UNCHANGED reader, Undisturbed
    PROVE  ReadersInv'
BY DEF ReadersInv, Undisturbed

LEMMA CompactStays ==
    ASSUME CompactInv, UNCHANGED compact, Undisturbed
    PROVE  CompactInv'
<1>1. compact.queue \subseteq Loc /\ compact.moved \subseteq Loc
    BY DEF CompactInv, CompactState
<1>2. \A l \in compact.queue \cup compact.moved : HasPage(l)'
    BY <1>1, LocIsPlace, HasPageIs DEF CompactInv, Undisturbed, HasPage, Has
<1>3. compact.todo \subseteq DOMAIN files' \ {active'}
  <2>1. active' = active \/ compact.todo = {}
      BY DEF CompactInv, Undisturbed
  <2> QED
      BY <2>1 DEF CompactInv, Undisturbed
<1>4. Compacting' => space'.engine
    BY DEF CompactInv, Undisturbed, Compacting
<1> QED
    BY <1>2, <1>3, <1>4 DEF CompactInv, Rewriting

LEMMA RecordsStay == RecordsTyped /\ UNCHANGED recVars => RecordsTyped'
BY DEF RecordsTyped, recVars

LEMMA LifeStays == LifeInv /\ UNCHANGED lifeVars => LifeInv'
BY DEF LifeInv, lifeVars

LEMMA FilesStay == FilesInv /\ UNCHANGED volVars => FilesInv'
BY DEF FilesInv, volVars

LEMMA IndexStays == IndexTypeOK /\ UNCHANGED ixVars => IndexTypeOK'
BY TypeStep

-----------------------------------------------------------------------------
(* Put                                                                     *)

\* What a Put is while it is under way.
LEMMA BusyIs ==
    ASSUME PutsInv, NEW w \in Writer, put[w].pc # "idle"
    PROVE  BusyPutOK(put[w])
BY DEF PutsInv, IdlePut

LEMMA BusyMeans ==
    ASSUME NEW p, BusyPutOK(p)
    PROVE  /\ p.blob \in Blob /\ p.blob \in Content[NS] /\ p.key \in Key
           /\ p.ids \in Seq(ChunkId) /\ p.ids \in Manifests[p.blob]
           /\ p.at \in Seq(Loc) /\ p.at \in [DOMAIN p.ids -> Loc]
           /\ p.dups \in SUBSET Nat /\ p.dups \subseteq DOMAIN p.ids
           /\ p = [pc |-> p.pc, key |-> p.key, blob |-> p.blob, ids |-> p.ids, at |-> p.at,
                   dups |-> p.dups]
           /\ \A i \in DOMAIN p.ids : p.at[i] \in Loc /\ HasPage(p.at[i])
<1>1. p \in BusyPut /\ p.ids \in Manifests[p.blob] /\ DOMAIN p.at = DOMAIN p.ids
      /\ p.dups \subseteq DOMAIN p.ids /\ \A i \in DOMAIN p.at : HasPage(p.at[i])
    BY DEF BusyPutOK
<1>2. /\ p.blob \in Content[NS] /\ p.key \in Key /\ p.ids \in Seq(ChunkId)
      /\ p.at \in Seq(Loc) /\ p.dups \in SUBSET Nat
      /\ p = [pc |-> p.pc, key |-> p.key, blob |-> p.blob, ids |-> p.ids, at |-> p.at,
              dups |-> p.dups]
    BY <1>1 DEF BusyPut
<1>3. p.blob \in Blob
    BY <1>2, NSAssumption, ContentAssumption
<1>4. p.at \in [DOMAIN p.ids -> Loc] /\ \A i \in DOMAIN p.ids : p.at[i] \in Loc
    BY <1>1, <1>2
<1> QED
    BY <1>1, <1>2, <1>3, <1>4

LEMMA ContentIsBlob == \A b \in Content[NS] : b \in Blob
BY NSAssumption, ContentAssumption

LEMMA TypeWriteBlob ==
    ASSUME TypeInv, NEW w \in Writer, NEW k \in Key, NEW b \in Content[NS], WriteBlob(w, k, b)
    PROVE  TypeInv'
<1> USE DEF TypeInv
<1>1. PICK ids \in Manifests[b] \ {<< >>} :
          LET v == Written(b, ids)
          IN  /\ v.next <= MaxSegment + 1
              /\ files' = v.files /\ active' = v.active /\ nextSeq' = v.next
              /\ put' = [put EXCEPT ![w] =
                           [pc |-> "written", key |-> k, blob |-> b, ids |-> ids,
                            at |-> v.at, dups |-> {}]]
    BY DEF WriteBlob
<1> DEFINE v == Written(b, ids)
           p == [pc |-> "written", key |-> k, blob |-> b, ids |-> ids, at |-> v.at, dups |-> {}]
<1>2. b \in Blob /\ ids \in Seq(ChunkId) /\ ids # << >>
    BY ContentIsBlob, ManifestAssumption
<1>3. Len(ids) \in Nat /\ Len(ids) > 0 /\ DOMAIN ids = 1..Len(ids)
    BY <1>2
<1>4. WrittenOK(v, b, ids, Len(ids))
    BY <1>1, <1>2, WrittenIs
<1> HIDE DEF v
<1>5. /\ EngineOK(v.files, v.active, v.next) /\ v.active # 0 /\ v.at \in Seq(Loc)
      /\ Len(v.at) = Len(ids) /\ Keeps(files, v.files)
    BY <1>3, <1>4 DEF WrittenOK
<1>6. /\ files' = v.files /\ active' = v.active /\ nextSeq' = v.next
      /\ put' = [put EXCEPT ![w] = p]
    BY <1>1 DEF v
<1>7. space.engine /\ ~Rewriting /\ put[w].pc = "idle"
      /\ UNCHANGED <<ixVars, recVars, lifeVars, reader, compact, used>>
    BY DEF WriteBlob
<1>8. DOMAIN v.at = DOMAIN ids
    BY <1>3, <1>5
<1>9. Undisturbed
  <2>1. ~Rewriting' /\ space'.engine = space.engine
      BY <1>7 DEF Rewriting, lifeVars
  <2>2. \A m \in Place : Has(files, m) => Has(files', m)
      BY <1>5, <1>6 DEF Keeps
  <2>3. DOMAIN files \subseteq DOMAIN files'
      BY <1>5, <1>6 DEF Keeps
  <2> QED
      BY <1>5, <1>6, <1>7, <2>1, <2>2, <2>3 DEF Undisturbed
<1>10. put'[w] = p /\ put' = [put EXCEPT ![w] = put'[w]]
    BY <1>6 DEF PutsInv
<1>11. ASSUME NEW i \in DOMAIN p.at PROVE Has(files', p.at[i])
  <2>1. i \in 1..Len(ids) /\ p.at[i] = v.at[i] /\ ids[i] \in ChunkId
      BY <1>2, <1>3, <1>8
  <2>2. Added(files, v.files, ids[i], b, i, Len(ids), v.at[i])
      BY <1>4, <2>1, Zenon DEF WrittenOK
  <2>3. v.at[i] \in Place /\ Has(v.files, PartOf(v.at[i], 1))
      BY <2>1, <2>2, PagesType DEF Added
  <2>4. PartOf(v.at[i], 1) = v.at[i]
      BY <2>3 DEF PartOf, Place
  <2> QED
      BY <1>6, <2>1, <2>3, <2>4
<1>12. BusyPutOK(put[w])'
  <2>1. p \in BusyPut
      BY <1>2, <1>5 DEF BusyPut
  <2>2. /\ p.ids \in Manifests[p.blob] /\ DOMAIN p.at = DOMAIN p.ids /\ p.dups = {}
        /\ p.pc = "written"
      BY <1>8
  <2>3. space'.engine /\ active' # 0 /\ ~Rewriting'
      BY <1>5, <1>6, <1>7 DEF Rewriting, lifeVars
  <2>4. \A i \in DOMAIN put'[w].at : HasPage(put[w].at[i])'
      BY <1>10, <1>11 DEF HasPage, Has
  <2> HIDE DEF p
  <2> QED
      BY <1>10, <2>1, <2>2, <2>3, <2>4 DEF BusyPutOK
<1>13. PutsInv'
    BY <1>9, <1>10, <1>12, PutsStep
<1>14. ReadersInv' /\ CompactInv'
    BY <1>7, <1>9, ReadersStay, CompactStays
<1>15. IndexTypeOK' /\ RecordsTyped' /\ LifeInv'
    BY <1>7, IndexStays, RecordsStay, LifeStays
<1>16. FilesInv'
    BY <1>5, <1>6 DEF FilesInv
<1> QED
    BY <1>13, <1>14, <1>15, <1>16

\* One more entry in the log of the active segment.
LEMMA LogIs ==
    ASSUME FilesInv, PutsInv, NEW w \in Writer, LogBlob(w)
    PROVE  LET entry == [blob |-> put[w].blob, ids |-> put[w].ids, at |-> put[w].at]
           IN  /\ EngineOK(files', active, nextSeq)
               /\ entry \in LogEntry /\ active \in DOMAIN files
               /\ DOMAIN files' = DOMAIN files
               /\ \A s \in DOMAIN files :
                     /\ files'[s].pages = files[s].pages
                     /\ files'[s].wal = IF s = active THEN Append(files[s].wal, entry)
                                        ELSE files[s].wal
<1> DEFINE p == put[w]
           entry == [blob |-> p.blob, ids |-> p.ids, at |-> p.at]
           old == files[active]
           new == [old EXCEPT !.wal = Append(@, entry)]
<1>1. BusyPutOK(p)
    BY BusyIs DEF LogBlob
<1>2. active \in DOMAIN files /\ DOMAIN p.at = DOMAIN p.ids
    BY <1>1 DEF BusyPutOK, FilesInv, EngineOK
<1>3. entry \in LogEntry
  <2>1. p.blob \in Blob /\ p.ids \in Seq(ChunkId) /\ p.at \in Seq(Loc)
      BY <1>1, BusyMeans
  <2> QED
      BY <1>2, <2>1 DEF LogEntry
<1>4. FileOK(old) /\ files = [s \in DOMAIN files |-> files[s]]
    BY <1>2 DEF FilesInv, EngineOK
<1>5. files' = [files EXCEPT ![active] = new]
    BY DEF LogBlob
<1> HIDE DEF entry
<1>6. new = [pages |-> old.pages, wal |-> Append(old.wal, entry)]
      /\ old.pages \in Seq(Page) /\ old.wal \in Seq(LogEntry)
  <2>1. PICK pp \in Seq(Page), ll \in Seq(LogEntry) : old = [pages |-> pp, wal |-> ll]
      BY <1>4 DEF FileOK, SegFile
  <2>2. \A x : [[pages |-> pp, wal |-> ll] EXCEPT !.wal = x] = [pages |-> pp, wal |-> x]
      OBVIOUS
  <2> QED
      BY <2>1, <2>2
<1> HIDE DEF new
<1>7. FileOK(new)
  <2>1. Append(old.wal, entry) \in Seq(LogEntry)
      BY <1>3, <1>6
  <2>2. new \in SegFile /\ new.pages = old.pages
      BY <1>6, <2>1 DEF SegFile
  <2> QED
      BY <1>4, <2>2 DEF FileOK
<1> HIDE DEF old
<1>8. /\ DOMAIN files' = DOMAIN files /\ files'[active] = new
      /\ \A t \in DOMAIN files : t # active => files'[t] = files[t]
      /\ files' = [t \in DOMAIN files' |-> files'[t]]
    BY <1>2, <1>4, <1>5
<1>9. EngineOK(files', active, nextSeq)
    BY <1>7, <1>8 DEF FilesInv, EngineOK
<1>10. new.pages = files[active].pages /\ new.wal = Append(files[active].wal, entry)
    BY <1>6 DEF old
<1> QED
    BY <1>2, <1>3, <1>8, <1>9, <1>10 DEF entry

LEMMA TypeLogBlob ==
    ASSUME TypeInv, NEW w \in Writer, LogBlob(w)
    PROVE  TypeInv'
<1> USE DEF TypeInv
<1>1. /\ put[w].pc = "written" /\ put' = [put EXCEPT ![w].pc = "logged"]
      /\ UNCHANGED <<ixVars, active, nextSeq, recVars, lifeVars, reader, compact, used>>
    BY DEF LogBlob
<1>2. /\ EngineOK(files', active, nextSeq) /\ DOMAIN files' = DOMAIN files
      /\ \A s \in DOMAIN files : files'[s].pages = files[s].pages
    BY LogIs
<1>3. Undisturbed
  <2>1. \A m \in Place : Has(files, m) => Has(files', m)
      BY <1>2 DEF Has
  <2>2. Rewriting' = Rewriting /\ space'.engine = space.engine /\ active' = active
      BY <1>1 DEF Rewriting, lifeVars
  <2> QED
      BY <1>2, <2>1, <2>2 DEF Undisturbed
<1> DEFINE p == put[w]
<1>4. BusyPutOK(p)
    BY <1>1, BusyIs
<1>5. put'[w] = [p EXCEPT !.pc = "logged"] /\ put' = [put EXCEPT ![w] = put'[w]]
    BY <1>1 DEF PutsInv
<1>6. put'[w] = [pc |-> "logged", key |-> p.key, blob |-> p.blob, ids |-> p.ids, at |-> p.at,
                 dups |-> p.dups]
    BY <1>4, <1>5, BusyMeans
<1>7. BusyPutOK(put[w])'
  <2>1. put'[w] \in BusyPut
      BY <1>4, <1>6 DEF BusyPutOK, BusyPut
  <2>2. /\ put'[w].ids \in Manifests[put'[w].blob] /\ DOMAIN put'[w].at = DOMAIN put'[w].ids
        /\ put'[w].dups \subseteq DOMAIN put'[w].ids /\ put'[w].dups = {}
        /\ put'[w].pc = "logged" /\ put'[w].at = p.at
      BY <1>1, <1>4, <1>6 DEF BusyPutOK
  <2>3. \A i \in DOMAIN put'[w].at : HasPage(put[w].at[i])'
    <3>1. \A i \in DOMAIN p.at : p.at[i] \in Place /\ Has(files, p.at[i])
        BY <1>4, LocIsPlace, HasPageIs DEF BusyPutOK, BusyPut
    <3> QED
        BY <1>3, <2>2, <3>1 DEF Undisturbed, HasPage, Has
  <2>4. space'.engine /\ active' # 0 /\ ~Rewriting'
      BY <1>3, <1>4 DEF BusyPutOK, Undisturbed
  <2> QED
      BY <2>1, <2>2, <2>3, <2>4 DEF BusyPutOK
<1>8. PutsInv'
    BY <1>3, <1>5, <1>7, PutsStep
<1>9. ReadersInv' /\ CompactInv'
    BY <1>1, <1>3, ReadersStay, CompactStays
<1>10. IndexTypeOK' /\ RecordsTyped' /\ LifeInv'
    BY <1>1, IndexStays, RecordsStay, LifeStays
<1>11. FilesInv'
    BY <1>1, <1>2 DEF FilesInv
<1> QED
    BY <1>8, <1>9, <1>10, <1>11

LEMMA TypeCheckQuota ==
    ASSUME TypeInv, NEW w \in Writer, CheckQuota(w)
    PROVE  TypeInv'
<1> USE DEF TypeInv
<1>1. /\ put[w].pc = "logged"
      /\ put' = [put EXCEPT ![w] = IF WithinQuota(put[w].blob) THEN [@ EXCEPT !.pc = "checked"]
                                   ELSE IdlePut]
      /\ UNCHANGED <<ixVars, volVars, recVars, lifeVars, reader, compact, used>>
    BY DEF CheckQuota
<1>2. Undisturbed
  <2>1. UNCHANGED <<files, active, space>> /\ Rewriting' = Rewriting
      BY <1>1 DEF Rewriting, lifeVars, volVars
  <2> QED
      BY <2>1, NothingDisturbed
<1> DEFINE p == put[w]
<1>3. BusyPutOK(p)
    BY <1>1, BusyIs
<1>4. put' = [put EXCEPT ![w] = put'[w]]
    BY <1>1 DEF PutsInv
<1>5. put'[w] = IdlePut \/ BusyPutOK(put[w])'
  <2>1. CASE ~WithinQuota(p.blob)
      BY <1>1, <2>1 DEF PutsInv
  <2>2. CASE WithinQuota(p.blob)
    <3>1. put'[w] = [p EXCEPT !.pc = "checked"]
        BY <1>1, <2>2 DEF PutsInv
    <3>2. put'[w] = [pc |-> "checked", key |-> p.key, blob |-> p.blob, ids |-> p.ids,
                     at |-> p.at, dups |-> p.dups]
        BY <1>3, <3>1, BusyMeans
    <3>3. put'[w] \in BusyPut
        BY <1>3, <3>2 DEF BusyPutOK, BusyPut
    <3>4. /\ put'[w].ids \in Manifests[put'[w].blob] /\ DOMAIN put'[w].at = DOMAIN put'[w].ids
          /\ put'[w].dups \subseteq DOMAIN put'[w].ids /\ put'[w].dups = {}
          /\ put'[w].pc = "checked" /\ put'[w].at = p.at
        BY <1>1, <1>3, <3>2 DEF BusyPutOK
    <3>5. \A i \in DOMAIN put'[w].at : HasPage(put[w].at[i])'
      <4>1. files' = files
          BY <1>1 DEF volVars
      <4>2. \A i \in DOMAIN p.at : HasPage(p.at[i])
          BY <1>3 DEF BusyPutOK
      <4> QED
          BY <3>4, <4>1, <4>2 DEF HasPage
    <3>6. space'.engine /\ active' # 0 /\ ~Rewriting'
        BY <1>2, <1>3 DEF BusyPutOK, Undisturbed
    <3> QED
        BY <3>3, <3>4, <3>5, <3>6 DEF BusyPutOK
  <2> QED
      BY <2>1, <2>2
<1>6. PutsInv'
    BY <1>2, <1>4, <1>5, PutsStep
<1> QED
    BY <1>1, <1>2, <1>6, ReadersStay, CompactStays, IndexStays, RecordsStay, LifeStays, FilesStay

\* A cancelled Put is gone, everything else is as it was.
LEMMA TypeCancelPut ==
    ASSUME TypeInv, NEW w \in Writer, CancelPut(w)
    PROVE  TypeInv'
<1> USE DEF TypeInv
<1>1. /\ put' = [put EXCEPT ![w] = IdlePut]
      /\ UNCHANGED <<ixVars, volVars, recVars, lifeVars, reader, compact, used>>
    BY DEF CancelPut
<1>2. Undisturbed
  <2>1. UNCHANGED <<files, active, space>> /\ Rewriting' = Rewriting
      BY <1>1 DEF Rewriting, lifeVars, volVars
  <2> QED
      BY <2>1, NothingDisturbed
<1>3. put'[w] = IdlePut /\ put' = [put EXCEPT ![w] = put'[w]]
    BY <1>1 DEF PutsInv
<1>4. PutsInv'
    BY <1>2, <1>3, PutsStep
<1> QED
    BY <1>1, <1>2, <1>4, ReadersStay, CompactStays, IndexStays, RecordsStay, LifeStays, FilesStay

\* The commit leaves records of the right types, and duplicates to mark, if any.
LEMMA TypeCommitBlob ==
    ASSUME TypeInv, NEW w \in Writer, CommitBlob(w)
    PROVE  TypeInv'
<1> USE DEF TypeInv
<1> DEFINE p     == put[w]
           dups  == PutDuplicates(NS, p.key, p.blob, p.ids)
           fresh == DOMAIN p.ids \ dups
<1>1. /\ p.pc = "checked"
      /\ \E custom \in Meta : CommitPut(NS, p.key, p.blob, p.ids, p.at, custom)
      /\ put' = [put EXCEPT ![w] =
                   IF dups = {} THEN IdlePut ELSE [p EXCEPT !.pc = "marking", !.dups = dups]]
      /\ short' = short \ {p.ids[i] : i \in fresh}
      /\ nonce' = [c \in ChunkId |->
                     IF \E i \in fresh : p.ids[i] = c
                     THEN Sealed(p.at[FirstAt(p.ids, c)]) ELSE nonce[c]]
      /\ UNCHANGED <<candidates, volVars, lifeVars, reader, compact, used>>
    BY DEF CommitBlob
<1>2. Undisturbed
  <2>1. UNCHANGED <<files, active, space>> /\ Rewriting' = Rewriting
      BY <1>1 DEF Rewriting, lifeVars, volVars
  <2> QED
      BY <2>1, NothingDisturbed
<1>3. BusyPutOK(p)
    BY <1>1, BusyIs
<1>4. /\ p.blob \in Blob /\ p.key \in Key /\ p.ids \in Seq(ChunkId)
      /\ p.at \in [DOMAIN p.ids -> Loc]
    BY <1>3, BusyMeans
<1>5. IndexTypeOK'
  <2>1. PICK custom \in Meta : CommitPut(NS, p.key, p.blob, p.ids, p.at, custom)
      BY <1>1
  <2> HIDE DEF p
  <2>2. candidates' = candidates
      BY <1>1
  <2> QED
      BY <1>4, <2>1, <2>2, NSAssumption, PutType
<1>6. dups \subseteq DOMAIN p.ids /\ DOMAIN p.ids \subseteq Nat
    BY <1>4 DEF PutDuplicates, Duplicates
<1> HIDE DEF dups
<1>7. RecordsTyped'
  <2>1. short' \subseteq ChunkId
      BY <1>1 DEF RecordsTyped
  <2>2. \A c \in ChunkId : (\E i \in fresh : p.ids[i] = c) => p.at[FirstAt(p.ids, c)] \in Loc
      BY <1>4, FirstAtType
  <2>3. \A c \in ChunkId :
            nonce'[c] \in Nonce \cup {None} /\ (~Encrypted => nonce'[c] = None)
    <3>1. SUFFICES ASSUME NEW c \in ChunkId
                   PROVE nonce'[c] \in Nonce \cup {None} /\ (~Encrypted => nonce'[c] = None)
        OBVIOUS
    <3>2. CASE \E i \in fresh : p.ids[i] = c
      <4> HIDE DEF p, fresh
      <4> QED
          BY <1>1, <2>2, <3>2, SealedType
    <3>3. CASE ~\E i \in fresh : p.ids[i] = c
      <4>1. nonce[c] \in Nonce \cup {None} /\ (~Encrypted => nonce[c] = None)
          BY DEF RecordsTyped
      <4> HIDE DEF p, fresh
      <4> QED
          BY <1>1, <3>3, <4>1
    <3> QED
        BY <3>2, <3>3
  <2>4. nonce' = [c \in ChunkId |-> nonce'[c]]
    <3> HIDE DEF p, fresh
    <3> QED
        BY <1>1
  <2>5. nonce' \in [ChunkId -> Nonce \cup {None}]
      BY <2>3, <2>4
  <2>6. ~Encrypted => nonce' = [c \in ChunkId |-> None]
      BY <2>3, <2>4
  <2> QED
      BY <2>1, <2>5, <2>6 DEF RecordsTyped
<1>8. put' = [put EXCEPT ![w] = put'[w]]
    BY <1>1 DEF PutsInv
<1>9. put'[w] = IdlePut \/ BusyPutOK(put[w])'
  <2>1. CASE dups = {}
      BY <1>1, <2>1 DEF PutsInv
  <2>2. CASE dups # {}
    <3>1. put'[w] = [p EXCEPT !.pc = "marking", !.dups = dups]
        BY <1>1, <2>2 DEF PutsInv
    <3>2. put'[w] = [pc |-> "marking", key |-> p.key, blob |-> p.blob, ids |-> p.ids,
                     at |-> p.at, dups |-> dups]
        BY <1>3, <3>1, BusyMeans
    <3>3. put'[w] \in BusyPut
        BY <1>3, <1>6, <3>2 DEF BusyPutOK, BusyPut
    <3>4. /\ put'[w].ids \in Manifests[put'[w].blob] /\ DOMAIN put'[w].at = DOMAIN put'[w].ids
          /\ put'[w].dups \subseteq DOMAIN put'[w].ids /\ put'[w].dups # {}
          /\ put'[w].pc = "marking" /\ put'[w].at = p.at
        BY <1>3, <1>6, <2>2, <3>2 DEF BusyPutOK
    <3>5. \A i \in DOMAIN put'[w].at : HasPage(put[w].at[i])'
      <4>1. files' = files
          BY <1>1 DEF volVars
      <4>2. \A i \in DOMAIN p.at : HasPage(p.at[i])
          BY <1>3 DEF BusyPutOK
      <4> QED
          BY <3>4, <4>1, <4>2 DEF HasPage
    <3>6. space'.engine /\ active' # 0 /\ ~Rewriting'
        BY <1>2, <1>3 DEF BusyPutOK, Undisturbed
    <3> QED
        BY <3>3, <3>4, <3>5, <3>6 DEF BusyPutOK
  <2> QED
      BY <2>1, <2>2
<1>10. PutsInv'
    BY <1>2, <1>8, <1>9, PutsStep
<1>11. FilesInv' /\ LifeInv' /\ ReadersInv' /\ CompactInv'
    BY <1>1, <1>2, ReadersStay, CompactStays, LifeStays, FilesStay
<1> QED
    BY <1>5, <1>7, <1>10, <1>11

\* The copy that is marked is one of the Put's own.
LEMMA MarkIs ==
    ASSUME PutsInv, NEW w \in Writer, MarkDuplicate(w)
    PROVE  LET p == put[w]
           IN  /\ BusyPutOK(p) /\ Min(p.dups) \in p.dups
               /\ p.at[Min(p.dups)] \in Loc /\ HasPage(p.at[Min(p.dups)])
               /\ SetDeleted(p.at[Min(p.dups)])
<1>1. put[w].pc = "marking" /\ SetDeleted(put[w].at[Min(put[w].dups)])
    BY DEF MarkDuplicate
<1>2. BusyPutOK(put[w])
    BY <1>1, BusyIs
<1>3. put[w].dups \in SUBSET Nat /\ put[w].dups # {}
    BY <1>1, <1>2, BusyMeans DEF BusyPutOK
<1>4. Min(put[w].dups) \in put[w].dups
    BY <1>3, MinIs
<1> QED
    BY <1>1, <1>2, <1>4, BusyMeans

LEMMA FlagUndisturbed ==
    ASSUME FilesInv, NEW l \in Loc, HasPage(l), SetDeleted(l), UNCHANGED <<active, space>>,
           Rewriting' => Rewriting
    PROVE  Undisturbed
<1>1. /\ DOMAIN files' = DOMAIN files
      /\ \A m \in Place : Has(files', m) <=> Has(files, m)
    BY FlagIs
<1> QED
    BY <1>1 DEF Undisturbed

LEMMA TypeMarkDuplicate ==
    ASSUME TypeInv, NEW w \in Writer, MarkDuplicate(w)
    PROVE  TypeInv'
<1> USE DEF TypeInv
<1> DEFINE p == put[w]
           i == Min(p.dups)
           l == p.at[i]
<1>1. BusyPutOK(p) /\ i \in p.dups /\ l \in Loc /\ HasPage(l) /\ SetDeleted(l)
    BY MarkIs
<1>2. /\ p.pc = "marking"
      /\ put' = [put EXCEPT ![w] = IF p.dups = {i} THEN IdlePut
                                   ELSE [p EXCEPT !.dups = @ \ {i}]]
      /\ UNCHANGED <<ixVars, active, nextSeq, recVars, lifeVars, reader, compact, used>>
    BY DEF MarkDuplicate
<1> HIDE DEF i, l
<1>3. Undisturbed
  <2>1. UNCHANGED <<active, space>> /\ Rewriting' = Rewriting
      BY <1>2 DEF Rewriting, lifeVars
  <2>2. l \in Loc /\ HasPage(l) /\ SetDeleted(l)
      BY <1>1
  <2> QED
      BY <2>1, <2>2, FlagUndisturbed
<1>4. FilesInv'
  <2>1. EngineOK(files', active, nextSeq)
      BY <1>1, FlagIs
  <2> QED
      BY <1>2, <2>1 DEF FilesInv
<1>5. put' = [put EXCEPT ![w] = put'[w]]
    BY <1>2 DEF PutsInv
<1>6. put'[w] = IdlePut \/ BusyPutOK(put[w])'
  <2>1. CASE p.dups = {i}
      BY <1>2, <2>1 DEF PutsInv
  <2>2. CASE p.dups # {i}
    <3>1. put'[w] = [p EXCEPT !.dups = @ \ {i}]
        BY <1>2, <2>2 DEF PutsInv
    <3>2. put'[w] = [pc |-> "marking", key |-> p.key, blob |-> p.blob, ids |-> p.ids,
                     at |-> p.at, dups |-> p.dups \ {i}]
      <4>1. p = [pc |-> "marking", key |-> p.key, blob |-> p.blob, ids |-> p.ids, at |-> p.at,
                 dups |-> p.dups]
          BY <1>1, <1>2, BusyMeans
      <4> QED
          BY <3>1, <4>1
    <3>3. put'[w] \in BusyPut
        BY <1>1, <3>2 DEF BusyPutOK, BusyPut
    <3>4. p.dups \ {i} # {}
        BY <1>1, <2>2
    <3>5. /\ put'[w].ids \in Manifests[put'[w].blob] /\ DOMAIN put'[w].at = DOMAIN put'[w].ids
          /\ put'[w].dups \subseteq DOMAIN put'[w].ids /\ put'[w].dups # {}
          /\ put'[w].pc = "marking" /\ put'[w].at = p.at
        BY <1>1, <3>2, <3>4 DEF BusyPutOK
    <3>6. \A j \in DOMAIN put'[w].at : HasPage(put[w].at[j])'
      <4>1. \A j \in DOMAIN p.at : p.at[j] \in Place /\ Has(files, p.at[j])
          BY <1>1, LocIsPlace, HasPageIs DEF BusyPutOK, BusyPut
      <4> QED
          BY <1>3, <3>5, <4>1 DEF Undisturbed, HasPage, Has
    <3>7. space'.engine /\ active' # 0 /\ ~Rewriting'
        BY <1>1, <1>3 DEF BusyPutOK, Undisturbed
    <3> QED
        BY <3>3, <3>5, <3>6, <3>7 DEF BusyPutOK
  <2> QED
      BY <2>1, <2>2
<1>7. PutsInv'
    BY <1>3, <1>5, <1>6, PutsStep
<1> QED
    BY <1>2, <1>3, <1>4, <1>7, ReadersStay, CompactStays, IndexStays, RecordsStay, LifeStays

-----------------------------------------------------------------------------
(* Get                                                                     *)

\* One reader moves on, and nothing else does.
LEMMA TypeReaderMoves ==
    ASSUME TypeInv, NEW r \in Reader, OnlyReads, reader' = [reader EXCEPT ![r] = reader'[r]],
           DOMAIN reader'[r] = ReaderFields,
           reader'[r] = [f \in ReaderFields |-> reader'[r][f]],
           reader'[r].pc \in {"idle", "ref", "manifest", "open", "failed"},
           reader'[r].pc \in {"ref", "manifest", "open"} => space.engine /\ ~Rewriting
    PROVE  TypeInv'
<1> USE DEF TypeInv
<1>1. UNCHANGED <<ixVars, volVars, recVars, lifeVars, put, compact, used>>
    BY DEF OnlyReads
<1>2. Undisturbed
  <2>1. UNCHANGED <<files, active, space>> /\ Rewriting' = Rewriting
      BY <1>1 DEF Rewriting, lifeVars, volVars
  <2> QED
      BY <2>1, NothingDisturbed
<1>3. space' = space /\ (Rewriting' <=> Rewriting)
    BY <1>1 DEF Rewriting, lifeVars
<1>4. ReadersInv'
  <2>1. \A q \in Reader : q # r => reader'[q] = reader[q]
      BY DEF ReadersInv
  <2>2. reader' = [q \in Reader |-> reader'[q]]
      BY DEF ReadersInv
  <2>3. ASSUME NEW q \in Reader
        PROVE  /\ DOMAIN reader'[q] = ReaderFields
               /\ reader'[q] = [f \in ReaderFields |-> reader'[q][f]]
               /\ reader'[q].pc \in {"idle", "ref", "manifest", "open", "failed"}
               /\ reader'[q].pc \in {"ref", "manifest", "open"} => space'.engine /\ ~Rewriting'
    <3>1. CASE q = r
        BY <1>3, <3>1
    <3>2. CASE q # r
        BY <1>3, <2>1, <3>2 DEF ReadersInv
    <3> QED
        BY <3>1, <3>2
  <2> QED
      BY <2>2, <2>3, Zenon DEF ReadersInv, ReaderFields
<1> QED
    BY <1>1, <1>2, <1>4, PutsStay, CompactStays, IndexStays, RecordsStay, LifeStays, FilesStay

LEMMA IdleReaderType ==
    /\ DOMAIN IdleReader = ReaderFields /\ IdleReader.pc = "idle"
    /\ IdleReader = [f \in ReaderFields |-> IdleReader[f]]
BY DEF IdleReader, ReaderFields

LEMMA TypeGet ==
    ASSUME TypeInv, NEW r \in Reader,
           \/ \E k \in Key : GetRef(r, k)
           \/ GetBlob(r) \/ GetChunks(r) \/ ReadChunk(r) \/ GetFailed(r)
    PROVE  TypeInv'
<1>1. reader = [q \in Reader |-> reader[q]]
    BY DEF TypeInv, ReadersInv
<1> DEFINE g == reader[r]
<1>2. /\ DOMAIN g = ReaderFields /\ g = [f \in ReaderFields |-> g[f]]
      /\ g.pc \in {"ref", "manifest", "open"} => space.engine /\ ~Rewriting
    BY DEF TypeInv, ReadersInv
<1>3. ASSUME NEW k \in Key, GetRef(r, k) PROVE TypeInv'
  <2>1. /\ space.engine /\ ~Rewriting /\ OnlyReads
        /\ reader' = [reader EXCEPT ![r] =
                        [IdleReader EXCEPT !.pc = "ref", !.key = k, !.blob = refs[NS][k].blob]]
      BY <1>3 DEF GetRef, Advance
  <2>2. /\ reader' = [reader EXCEPT ![r] = reader'[r]]
        /\ reader'[r] = [IdleReader EXCEPT !.pc = "ref", !.key = k, !.blob = refs[NS][k].blob]
      BY <1>1, <2>1
  <2>3. /\ DOMAIN reader'[r] = ReaderFields /\ reader'[r].pc = "ref"
        /\ reader'[r] = [f \in ReaderFields |-> reader'[r][f]]
      BY <2>2, IdleReaderType DEF ReaderFields
  <2> QED
      BY <2>1, <2>2, <2>3, TypeReaderMoves
<1> DEFINE to == reader'[r]
<1>4. ASSUME g.pc \in {"ref", "manifest", "open", "failed"}, OnlyReads,
             reader' = [reader EXCEPT ![r] = to], DOMAIN to = ReaderFields,
             to = [f \in ReaderFields |-> to[f]],
             to.pc \in {"manifest", "open"} => g.pc # "failed",
             to.pc \in {"idle", "manifest", "open", "failed"}
      PROVE  TypeInv'
  <2>1. to.pc \in {"ref", "manifest", "open"} => space.engine /\ ~Rewriting
      BY <1>2, <1>4
  <2> QED
      BY <1>4, <2>1, TypeReaderMoves
<1>5. ASSUME NEW x, Advance(r, x) PROVE reader' = [reader EXCEPT ![r] = to] /\ to = x
    BY <1>1, <1>5 DEF Advance
<1> DEFINE broken == [g EXCEPT !.pc = "failed"]
<1>6. /\ DOMAIN broken = ReaderFields /\ broken = [f \in ReaderFields |-> broken[f]]
      /\ broken.pc = "failed"
    BY <1>2 DEF ReaderFields
<1>7. CASE GetBlob(r)
  <2>1. /\ g.pc = "ref" /\ OnlyReads
        /\ Advance(r, IF blobs[g.blob] = None THEN [g EXCEPT !.pc = "failed"]
                      ELSE [g EXCEPT !.pc = "manifest", !.ids = blobs[g.blob].ids])
      BY <1>7 DEF GetBlob
  <2>2. /\ DOMAIN to = ReaderFields /\ to = [f \in ReaderFields |-> to[f]]
        /\ to.pc \in {"manifest", "failed"} /\ reader' = [reader EXCEPT ![r] = to]
    <3>1. CASE blobs[g.blob] = None
      <4>1. Advance(r, broken)
          BY <2>1, <3>1
      <4> QED
          BY <1>5, <1>6, <4>1
    <3>2. CASE blobs[g.blob] # None
      <4>1. to = [g EXCEPT !.pc = "manifest", !.ids = blobs[g.blob].ids]
            /\ reader' = [reader EXCEPT ![r] = to]
          BY <1>5, <2>1, <3>2
      <4> QED
          BY <1>2, <4>1 DEF ReaderFields
    <3> QED
        BY <3>1, <3>2
  <2> QED
      BY <1>4, <2>1, <2>2
<1>8. CASE GetChunks(r)
  <2> DEFINE locs == [i \in DOMAIN g.ids |-> chunks[g.ids[i]].loc]
             tags == [i \in DOMAIN g.ids |-> nonce[g.ids[i]]]
             gone == \E i \in DOMAIN g.ids : chunks[g.ids[i]] = None
  <2>1. /\ g.pc = "manifest" /\ OnlyReads
        /\ Advance(r, IF gone THEN [g EXCEPT !.pc = "failed"]
                      ELSE [g EXCEPT !.pc = "open", !.at = locs, !.nonces = tags])
      BY <1>8 DEF GetChunks
  <2> HIDE DEF locs, tags, gone
  <2>2. /\ DOMAIN to = ReaderFields /\ to = [f \in ReaderFields |-> to[f]]
        /\ to.pc \in {"open", "failed"} /\ reader' = [reader EXCEPT ![r] = to]
    <3>1. CASE gone
      <4>1. Advance(r, broken)
          BY <2>1, <3>1
      <4> QED
          BY <1>5, <1>6, <4>1
    <3>2. CASE ~gone
      <4>1. to = [g EXCEPT !.pc = "open", !.at = locs, !.nonces = tags]
            /\ reader' = [reader EXCEPT ![r] = to]
          BY <1>5, <2>1, <3>2
      <4> QED
          BY <1>2, <4>1 DEF ReaderFields
    <3> QED
        BY <3>1, <3>2
  <2> QED
      BY <1>4, <2>1, <2>2
<1>9. CASE ReadChunk(r)
  <2> DEFINE bad == ~ChunkReadable(Head(g.ids), Head(g.at), Head(g.nonces))
  <2>1. /\ g.pc = "open" /\ OnlyReads
        /\ Advance(r, IF bad THEN [g EXCEPT !.pc = "failed"]
                      ELSE IF Len(g.ids) = 1 THEN IdleReader
                      ELSE [g EXCEPT !.ids = Tail(@), !.at = Tail(@), !.nonces = Tail(@)])
      BY <1>9 DEF ReadChunk
  <2> HIDE DEF bad
  <2>2. /\ DOMAIN to = ReaderFields /\ to = [f \in ReaderFields |-> to[f]]
        /\ to.pc \in {"open", "failed", "idle"} /\ reader' = [reader EXCEPT ![r] = to]
    <3>1. CASE bad
      <4>1. Advance(r, broken)
          BY <2>1, <3>1
      <4> QED
          BY <1>5, <1>6, <4>1
    <3>2. CASE ~bad /\ Len(g.ids) = 1
        BY <1>5, <2>1, <3>2, IdleReaderType
    <3>3. CASE ~bad /\ Len(g.ids) # 1
      <4>1. to = [g EXCEPT !.ids = Tail(@), !.at = Tail(@), !.nonces = Tail(@)]
            /\ reader' = [reader EXCEPT ![r] = to]
          BY <1>5, <2>1, <3>3
      <4> QED
          BY <1>2, <2>1, <4>1 DEF ReaderFields
    <3> QED
        BY <3>1, <3>2, <3>3
  <2> QED
      BY <1>4, <2>1, <2>2
<1>10. CASE GetFailed(r)
  <2>1. g.pc = "failed" /\ OnlyReads /\ Advance(r, IdleReader)
      BY <1>10 DEF GetFailed
  <2>2. to = IdleReader /\ reader' = [reader EXCEPT ![r] = to]
      BY <1>5, <2>1
  <2> QED
      BY <1>4, <2>1, <2>2, IdleReaderType
<1> QED
    BY <1>3, <1>7, <1>8, <1>9, <1>10

-----------------------------------------------------------------------------
(* Delete, Rename and the index's part of Compact                          *)

\* Only the index and a Compact that rewrites nothing new change.
LEMMA TypeCompactMoves ==
    ASSUME TypeInv, IndexTypeOK', RecordsTyped', CompactInv',
           UNCHANGED <<files, active, nextSeq, lifeVars, put, reader>>, Rewriting' => Rewriting
    PROVE  TypeInv'
<1> USE DEF TypeInv
<1>1. Undisturbed /\ UNCHANGED volVars
  <2>1. UNCHANGED <<files, active, space>> /\ UNCHANGED volVars
      BY DEF lifeVars, volVars
  <2> QED
      BY <2>1, NothingDisturbed
<1> QED
    BY <1>1, PutsStay, ReadersStay, LifeStays, FilesStay

\* Only the index changes.
LEMMA TypeIndexOnly ==
    ASSUME TypeInv, IndexTypeOK',
           UNCHANGED <<volVars, recVars, lifeVars, put, reader, compact>>
    PROVE  TypeInv'
<1>1. UNCHANGED <<files, active, nextSeq, space>> /\ (Rewriting' <=> Rewriting)
    BY DEF volVars, lifeVars, Rewriting
<1>2. CompactInv'
    BY <1>1, NothingDisturbed, CompactStays DEF TypeInv
<1>3. RecordsTyped'
    BY RecordsStay DEF TypeInv
<1> QED
    BY <1>1, <1>2, <1>3, TypeCompactMoves

\* Delete and Rename are transactions of the index.
LEMMA TypeDeleteRename ==
    ASSUME TypeInv, (\E k \in Key : Delete(k)) \/ (\E old, new \in Key : Rename(old, new))
    PROVE  TypeInv'
<1>1. OnlyIndex /\ IndexNext
    BY NSAssumption DEF Delete, Rename, OnlyIndex, IndexNext
<1>2. IndexTypeOK'
    BY <1>1, TypeStep DEF TypeInv
<1> QED
    BY <1>1, <1>2, TypeIndexOnly DEF OnlyIndex

\* The fields of a Compact.
LEMMA CompactIs ==
    ASSUME CompactInv
    PROVE  /\ compact = [pc |-> compact.pc, queue |-> compact.queue, freed |-> compact.freed,
                         todo |-> compact.todo, moved |-> compact.moved, held |-> compact.held,
                         nonce |-> compact.nonce]
           /\ compact.queue \in SUBSET (Nat \X Nat) /\ compact.moved \in SUBSET (Nat \X Nat)
           /\ compact.queue \subseteq Loc /\ compact.moved \subseteq Loc
           /\ compact.todo \in SUBSET Nat
           /\ compact.freed \in Nat /\ compact.held \in Nat /\ compact.nonce \in Nonce \cup {None}
<1>1. /\ compact = [pc |-> compact.pc, queue |-> compact.queue, freed |-> compact.freed,
                    todo |-> compact.todo, moved |-> compact.moved, held |-> compact.held,
                    nonce |-> compact.nonce]
      /\ compact.queue \subseteq Loc /\ compact.moved \subseteq Loc
      /\ compact.todo \subseteq SegmentId
      /\ compact.freed \in Nat /\ compact.held \in Nat /\ compact.nonce \in Nonce \cup {None}
    BY DEF CompactInv, CompactState
<1>2. Loc \subseteq Nat \X Nat /\ SegmentId \subseteq Nat
    BY LocAssumption DEF SegmentId
<1> QED
    BY <1>1, <1>2

\* An idle Compact, or one that is about to rewrite.
LEMMA IdleCompactOK ==
    ASSUME \/ compact' = IdleCompact
           \/ compact' = [IdleCompact EXCEPT !.pc = "wait"] /\ space'.engine
    PROVE  CompactInv' /\ ~Rewriting'
<1>1. PICK pc \in {"idle", "wait"} :
        /\ compact' = [pc |-> pc, queue |-> {}, freed |-> 0, todo |-> {}, moved |-> {},
                       held |-> 0, nonce |-> None]
        /\ pc = "wait" => space'.engine
    BY DEF IdleCompact
<1> QED
    BY <1>1 DEF CompactInv, CompactState, Compacting, Rewriting

\* A Compact that queued what looked dead.
LEMMA TypeScanPages ==
    ASSUME TypeInv, ScanPages
    PROVE  TypeInv'
<1> USE DEF TypeInv
<1> DEFINE queue == {l \in AllPages : LooksDead(l)}
           pc == IF queue = {} THEN "sweep" ELSE "reap"
<1>1. /\ space.engine /\ compact.pc = "idle"
      /\ compact' = [IdleCompact EXCEPT !.pc = pc, !.queue = queue]
      /\ UNCHANGED <<ixVars, volVars, recVars, lifeVars, put, reader>>
    BY DEF ScanPages, Step
<1>2. queue \subseteq Loc /\ \A l \in queue : HasPage(l)
    BY DEF AllPages
<1> HIDE DEF queue
<1>3. compact' = [pc |-> pc, queue |-> queue, freed |-> 0, todo |-> {}, moved |-> {},
                  held |-> 0, nonce |-> None]
    BY <1>1 DEF IdleCompact
<1>4. space' = space /\ files' = files /\ active' = active /\ nextSeq' = nextSeq
    BY <1>1 DEF lifeVars, volVars
<1>5. CompactInv' /\ ~Rewriting'
  <2>1. \A l \in queue : HasPage(l)'
      BY <1>2, <1>4 DEF HasPage
  <2>2. compact' \in CompactState
      BY <1>2, <1>3 DEF CompactState
  <2>3. /\ compact'.pc = pc /\ compact'.queue = queue /\ compact'.todo = {}
        /\ compact'.moved = {} /\ compact'.nonce = None
      BY <1>3
  <2>4. pc \in {"sweep", "reap"} /\ (pc \in {"reap", "mark"} <=> queue # {})
      OBVIOUS
  <2> HIDE DEF pc
  <2> QED
      BY <1>1, <1>4, <2>1, <2>2, <2>3, <2>4 DEF CompactInv, Compacting, Rewriting
<1> QED
    BY <1>1, <1>4, <1>5, IndexStays, RecordsStay, TypeCompactMoves

\* A Compact takes the next page of its queue.
LEMMA NextInQueueOK ==
    ASSUME CompactInv, compact.pc \in {"reap", "mark"}, compact' = NextInQueue,
           UNCHANGED <<active, space>>, DOMAIN files \subseteq DOMAIN files',
           \A m \in Place : Has(files, m) => Has(files', m)
    PROVE  CompactInv' /\ ~Rewriting'
<1> DEFINE rest == compact.queue \ {FirstOf(compact.queue)}
           pc == IF rest = {} THEN "sweep" ELSE "reap"
<1>1. compact' = [compact EXCEPT !.pc = pc, !.queue = rest]
    BY DEF NextInQueue
<1>2. rest \subseteq compact.queue
    OBVIOUS
<1>3. pc \in {"sweep", "reap"} /\ (pc \in {"reap", "mark"} <=> rest # {})
    OBVIOUS
<1> HIDE DEF rest, pc
<1>4. compact' = [pc |-> pc, queue |-> rest, freed |-> compact.freed, todo |-> compact.todo,
                  moved |-> compact.moved, held |-> compact.held, nonce |-> compact.nonce]
    BY <1>1, CompactIs
<1>5. /\ compact.todo = {} /\ compact.moved = {} /\ space.engine
      /\ ~Encrypted => compact.nonce = None
    BY DEF CompactInv, Rewriting, Compacting
<1>6. \A l \in rest : HasPage(l)'
  <2>1. \A l \in rest : l \in Place /\ Has(files, l)
      BY <1>2, CompactIs, LocIsPlace, HasPageIs DEF CompactInv
  <2> QED
      BY <2>1 DEF HasPage, Has
<1>7. compact' \in CompactState
    BY <1>2, <1>3, <1>4, <1>5, CompactIs DEF CompactState
<1>8. /\ compact'.pc = pc /\ compact'.queue = rest /\ compact'.todo = {}
      /\ compact'.moved = {} /\ compact'.nonce = compact.nonce
    BY <1>4, <1>5
<1> QED
    BY <1>3, <1>5, <1>6, <1>7, <1>8 DEF CompactInv, Compacting, Rewriting

\* The page a Compact looks at is on disk.
LEMMA QueuedPage ==
    ASSUME FilesInv, CompactInv, compact.queue # {}
    PROVE  LET l == FirstOf(compact.queue)
           IN  /\ l \in compact.queue /\ l \in Loc /\ HasPage(l)
               /\ PageAt(l) \in Page /\ PageAt(l).chunk \in ChunkId
<1>1. FirstOf(compact.queue) \in compact.queue
    BY CompactIs, FirstIs
<1>2. FirstOf(compact.queue) \in Loc /\ HasPage(FirstOf(compact.queue))
    BY <1>1, CompactIs DEF CompactInv
<1> QED
    BY <1>1, <1>2, SomePage, LocIsPlace

LEMMA TypeReapPage ==
    ASSUME TypeInv, ReapPage
    PROVE  TypeInv'
<1> USE DEF TypeInv
<1> DEFINE l == FirstOf(compact.queue)
           c == PageAt(l).chunk
<1>1. /\ compact.pc = "reap"
      /\ IF SafeToReap(c, l)
         THEN /\ ReapPhysicalPageIfDead(c, l)
              /\ compact' = [compact EXCEPT !.pc = "mark", !.freed = @ + 1]
         ELSE /\ compact' = NextInQueue
              /\ UNCHANGED <<refs, blobs, chunks, stats>>
      /\ nonce' = IF chunks'[c] = None THEN [nonce EXCEPT ![c] = None] ELSE nonce
      /\ UNCHANGED <<candidates, files, short, active, nextSeq, lifeVars, put, reader, used>>
    BY DEF ReapPage, Step, OnlyCompacts
<1>2. compact.queue # {} /\ compact.todo = {} /\ compact.moved = {} /\ space.engine
      /\ (~Encrypted => compact.nonce = None) /\ \A m \in compact.queue : HasPage(m)
    BY <1>1 DEF CompactInv, Rewriting, Compacting
<1>3. l \in Loc /\ c \in ChunkId
    BY <1>2, QueuedPage
<1> HIDE DEF l, c
<1>4. IndexTypeOK'
  <2>1. [IndexNext]_ixVars
      BY <1>1, <1>3 DEF IndexNext, ixVars
  <2> QED
      BY <2>1, TypeStep
<1>5. RecordsTyped'
  <2>1. nonce' = nonce \/ nonce' = [nonce EXCEPT ![c] = None]
      BY <1>1
  <2>2. nonce' \in [ChunkId -> Nonce \cup {None}]
      BY <2>1 DEF RecordsTyped
  <2>3. ~Encrypted => nonce' = [x \in ChunkId |-> None]
      BY <2>1 DEF RecordsTyped
  <2> QED
      BY <1>1, <2>2, <2>3 DEF RecordsTyped
<1>6. space' = space
    BY <1>1 DEF lifeVars
<1>7. CompactInv' /\ ~Rewriting'
  <2>1. CASE SafeToReap(c, l)
    <3>1. compact' = [compact EXCEPT !.pc = "mark", !.freed = @ + 1]
        BY <1>1, <2>1
    <3>2. compact' = [pc |-> "mark", queue |-> compact.queue, freed |-> compact.freed + 1,
                      todo |-> {}, moved |-> {}, held |-> compact.held, nonce |-> compact.nonce]
        BY <1>2, <3>1, CompactIs
    <3>3. compact' \in CompactState
        BY <3>2, CompactIs DEF CompactState
    <3>4. /\ compact'.pc = "mark" /\ compact'.queue = compact.queue /\ compact'.todo = {}
          /\ compact'.moved = {} /\ compact'.nonce = compact.nonce
        BY <3>2
    <3>5. \A m \in compact.queue : HasPage(m)'
        BY <1>1, <1>2 DEF HasPage
    <3> QED
        BY <1>2, <1>6, <3>3, <3>4, <3>5 DEF CompactInv, Compacting, Rewriting
  <2>2. CASE ~SafeToReap(c, l)
    <3>1. compact' = NextInQueue /\ files' = files /\ active' = active
        BY <1>1, <2>2
    <3>2. \A m \in Place : Has(files, m) => Has(files', m)
        BY <3>1
    <3> QED
        BY <1>1, <1>6, <3>1, <3>2, NextInQueueOK
  <2> QED
      BY <2>1, <2>2
<1> QED
    BY <1>1, <1>4, <1>5, <1>7, TypeCompactMoves

LEMMA TypeMarkPage ==
    ASSUME TypeInv, MarkPage
    PROVE  TypeInv'
<1> USE DEF TypeInv
<1> DEFINE l == FirstOf(compact.queue)
<1>1. /\ compact.pc = "mark" /\ SetDeleted(l) /\ compact' = NextInQueue
      /\ UNCHANGED <<ixVars, recVars, active, nextSeq, lifeVars, put, reader, used>>
    BY DEF MarkPage, Step, OnlyCompacts
<1>2. compact.queue # {}
    BY <1>1 DEF CompactInv
<1>3. l \in Loc /\ HasPage(l)
    BY <1>2, QueuedPage
<1> HIDE DEF l
<1>4. /\ EngineOK(files', active, nextSeq) /\ DOMAIN files' = DOMAIN files
      /\ \A m \in Place : Has(files', m) <=> Has(files, m)
    BY <1>1, <1>3, FlagIs
<1>5. space' = space
    BY <1>1 DEF lifeVars
<1>6. CompactInv' /\ ~Rewriting'
    BY <1>1, <1>4, <1>5, NextInQueueOK
<1>7. Undisturbed
    BY <1>1, <1>4, <1>5, <1>6 DEF Undisturbed
<1>8. FilesInv'
    BY <1>1, <1>4 DEF FilesInv
<1> QED
    BY <1>1, <1>6, <1>7, <1>8, PutsStay, ReadersStay, IndexStays, RecordsStay, LifeStays

LEMMA TypeSweep ==
    ASSUME TypeInv, SweepBlobs \/ SweepBlob \/ Reconcile
    PROVE  TypeInv'
<1> USE DEF TypeInv
<1>1. CASE SweepBlob
  <2>1. IndexNext /\ UNCHANGED <<files, recVars, compact, active, nextSeq, lifeVars, put, reader>>
    <3>1. PICK b \in candidates : PurgeBlob(b)
        BY <1>1 DEF SweepBlob
    <3>2. b \in Blob
        BY DEF IndexTypeOK
    <3> QED
        BY <1>1, <3>1, <3>2 DEF SweepBlob, OnlyCompacts, IndexNext
  <2>2. IndexTypeOK'
      BY <2>1, TypeStep
  <2> QED
      BY <2>1, <2>2, TypeIndexOnly DEF volVars
<1>2. CASE SweepBlobs
  <2>1. /\ compact.pc = "sweep" /\ IndexNext /\ compact' = [compact EXCEPT !.pc = "purge"]
        /\ UNCHANGED <<files, recVars, active, nextSeq, lifeVars, put, reader>>
      BY <1>2 DEF SweepBlobs, Step, OnlyCompacts, IndexNext
  <2>2. IndexTypeOK'
      BY <2>1, TypeStep
  <2>3. compact' = [pc |-> "purge", queue |-> compact.queue, freed |-> compact.freed,
                    todo |-> compact.todo, moved |-> compact.moved, held |-> compact.held,
                    nonce |-> compact.nonce]
      BY <2>1, CompactIs
  <2>4. /\ compact.queue = {} /\ compact.todo = {} /\ compact.moved = {} /\ space.engine
        /\ (~Encrypted => compact.nonce = None)
      BY <2>1 DEF CompactInv, Rewriting, Compacting
  <2>5. compact' \in CompactState /\ compact'.pc = "purge" /\ compact'.queue = {}
        /\ compact'.todo = {} /\ compact'.moved = {} /\ compact'.nonce = compact.nonce
      BY <2>3, <2>4, CompactIs DEF CompactState
  <2>6. space' = space
      BY <2>1 DEF lifeVars
  <2>7. CompactInv' /\ ~Rewriting'
      BY <2>4, <2>5, <2>6 DEF CompactInv, Compacting, Rewriting
  <2> QED
      BY <2>1, <2>2, <2>7, RecordsStay, TypeCompactMoves
<1>3. CASE Reconcile
  <2>1. /\ compact.pc = "purge" /\ ReconcileDeadStats(NS, compact.freed)
        /\ compact' = [IdleCompact EXCEPT !.pc = "wait"]
        /\ UNCHANGED <<candidates, files, recVars, active, nextSeq, lifeVars, put, reader>>
      BY <1>3 DEF Reconcile, Step, OnlyCompacts
  <2>2. IndexTypeOK'
    <3>1. compact.freed \in Nat
        BY CompactIs
    <3>2. stats' \in [Namespace -> Stats]
      <4> DEFINE s == stats[NS]
                 dead == IF s.deadChunks > compact.freed THEN s.deadChunks - compact.freed ELSE 0
      <4>1. s \in Stats /\ dead \in Int
          BY <3>1, NSAssumption DEF IndexTypeOK, Stats
      <4>2. stats' = [stats EXCEPT ![NS] = [s EXCEPT !.deadChunks = dead]]
          BY <2>1 DEF ReconcileDeadStats
      <4> HIDE DEF dead, s
      <4>3. [s EXCEPT !.deadChunks = dead] \in Stats
          BY <4>1 DEF Stats
      <4> QED
          BY <4>2, <4>3 DEF IndexTypeOK
    <3> QED
        BY <2>1, <3>2 DEF ReconcileDeadStats, IndexTypeOK
  <2>3. space'.engine
      BY <2>1 DEF CompactInv, Compacting, lifeVars
  <2>4. CompactInv' /\ ~Rewriting'
      BY <2>1, <2>3, IdleCompactOK
  <2> QED
      BY <2>1, <2>2, <2>4, RecordsStay, TypeCompactMoves
<1> QED
    BY <1>1, <1>2, <1>3

-----------------------------------------------------------------------------
(* Compact, phase 2                                                        *)

\* While segments are rewritten there is no Put and no Get.
LEMMA RewritesAlone ==
    ASSUME TypeInv, Rewriting
    PROVE  /\ \A w \in Writer : put[w] = IdlePut
           /\ \A r \in Reader : reader[r].pc \in {"idle", "failed"}
BY DEF TypeInv, PutsInv, ReadersInv, BusyPutOK

\* Without a Put there is nothing to check of one.
LEMMA PutsIdle ==
    ASSUME PutsInv, \A w \in Writer : put[w] = IdlePut, UNCHANGED put
    PROVE  PutsInv'
BY Zenon DEF PutsInv

\* Nor of Gets.
LEMMA ReadersIdle ==
    ASSUME ReadersInv, \A r \in Reader : reader[r].pc \in {"idle", "failed"}, UNCHANGED reader
    PROVE  ReadersInv'
BY DEF ReadersInv

\* Compact has the namespace to itself and rewrites a segment that is not active.
LEMMA TodoIs ==
    ASSUME TypeInv, Rewriting
    PROVE  LET s == Min(compact.todo)
           IN  /\ s \in compact.todo /\ s \in DOMAIN files /\ s # active
               /\ s \in SegmentId /\ FileOK(files[s]) /\ files[s].pages \in Seq(Page)
               /\ space.engine /\ compact.queue = {}
<1>1. compact.todo # {} /\ compact.todo \subseteq DOMAIN files \ {active}
    BY DEF TypeInv, CompactInv
<1>2. Min(compact.todo) \in compact.todo
    BY <1>1, CompactIs, MinIs DEF TypeInv
<1>3. compact.queue = {} /\ space.engine
    BY DEF TypeInv, CompactInv, Rewriting, Compacting
<1> QED
    BY <1>1, <1>2, <1>3 DEF TypeInv, FilesInv, EngineOK, FileOK, SegFile

LEMMA TypeBeginRewrite ==
    ASSUME TypeInv, BeginRewrite
    PROVE  TypeInv'
<1> USE DEF TypeInv
<1> DEFINE todo == {s \in DOMAIN files \ {active} : WorthRewriting(s)}
<1>1. /\ compact.pc = "wait" /\ ~PutsRunning /\ ~GetsRunning
      /\ compact' = IF todo = {} THEN IdleCompact
                    ELSE [compact EXCEPT !.pc = "rewrite", !.todo = todo]
      /\ UNCHANGED <<ixVars, files, recVars, active, nextSeq, lifeVars, put, reader, used>>
    BY DEF BeginRewrite, Step, OnlyCompacts
<1>2. todo \subseteq DOMAIN files \ {active}
    OBVIOUS
<1> HIDE DEF todo
<1>3. \A w \in Writer : put[w] = IdlePut
    BY <1>1 DEF PutsInv, PutsRunning, BusyPutOK, BusyPut
<1>4. \A r \in Reader : reader[r].pc \in {"idle", "failed"}
    BY <1>1 DEF ReadersInv, GetsRunning
<1>5. PutsInv' /\ ReadersInv'
    BY <1>1, <1>3, <1>4, PutsIdle, ReadersIdle
<1>6. CompactInv'
  <2>1. CASE todo = {}
      BY <1>1, <2>1, IdleCompactOK
  <2>2. CASE todo # {}
    <3>1. compact' = [pc |-> "rewrite", queue |-> compact.queue, freed |-> compact.freed,
                      todo |-> todo, moved |-> compact.moved, held |-> compact.held,
                      nonce |-> compact.nonce]
        BY <1>1, <2>2, CompactIs
    <3>2. /\ compact.queue = {} /\ compact.moved = {} /\ space.engine
          /\ (~Encrypted => compact.nonce = None)
        BY <1>1 DEF CompactInv, Compacting
    <3>3. todo \subseteq SegmentId
        BY <1>2 DEF FilesInv, EngineOK
    <3>4. compact' \in CompactState
        BY <3>1, <3>2, <3>3, CompactIs DEF CompactState
    <3>5. /\ compact'.pc = "rewrite" /\ compact'.queue = {} /\ compact'.todo = todo
          /\ compact'.moved = {} /\ compact'.nonce = compact.nonce
        BY <3>1, <3>2
    <3>6. space' = space /\ files' = files /\ active' = active
        BY <1>1 DEF lifeVars
    <3> QED
        BY <1>2, <2>2, <3>2, <3>4, <3>5, <3>6 DEF CompactInv, Compacting, Rewriting
  <2> QED
      BY <2>1, <2>2
<1> QED
    BY <1>1, <1>5, <1>6, IndexStays, RecordsStay, LifeStays, FilesStay DEF volVars

\* What is left of a segment is in a file of its own, under a number that is new.
LEMMA RewriteIs ==
    ASSUME TypeInv, RewriteSegment
    PROVE  LET s    == Min(compact.todo)
               kept == Compacted(files[s].pages)
           IN  /\ Rewriting /\ s \in DOMAIN files /\ s # active /\ s \in SegmentId
               /\ files[s].pages \in Seq(Page) /\ kept \in Seq(Page)
               /\ nextSeq \in SegmentId /\ nextSeq \notin DOMAIN files
               /\ EngineOK(files', active, nextSeq')
               /\ DOMAIN files' = DOMAIN files \cup {nextSeq}
               /\ files'[nextSeq] = [pages |-> kept, wal |-> << >>]
               /\ \A t \in DOMAIN files : files'[t] = files[t]
               /\ Keeps(files, files')
               /\ compact'.moved \subseteq Loc
               /\ compact'.moved = {<<nextSeq, n>> : n \in DOMAIN kept}
               /\ \A m \in compact'.moved : Has(files', m)
<1> USE DEF TypeInv
<1> DEFINE s    == Min(compact.todo)
           old  == files[s].pages
           kept == Compacted(old)
           new  == [pages |-> kept, wal |-> << >>]
           moved == {<<nextSeq, n>> : n \in DOMAIN kept}
<1>1. /\ compact.pc = "rewrite" /\ nextSeq <= MaxSegment
      /\ files' = WithFile(files, nextSeq, new) /\ nextSeq' = nextSeq + 1
      /\ compact' = [compact EXCEPT !.pc = "relocate", !.moved = moved]
      /\ UNCHANGED active
    BY DEF RewriteSegment, Step
<1>2. Rewriting
    BY <1>1 DEF Rewriting
<1>3. /\ s \in DOMAIN files /\ s # active /\ s \in SegmentId
      /\ FileOK(files[s]) /\ old \in Seq(Page)
    BY <1>2, TodoIs
<1> HIDE DEF s
<1>4. kept \in Seq(Page) /\ Len(kept) <= Len(old)
      /\ \A i \in DOMAIN kept : \E j \in DOMAIN old : kept[i] = old[j]
  <2>1. \A i \in DOMAIN kept : Nth(Unflagged(old), i) \in Unflagged(old)
                               /\ kept[i] = old[Nth(Unflagged(old), i)]
      BY <1>3, CompactedIs
  <2>2. kept \in Seq(Page) /\ Len(kept) <= Len(old)
      BY <1>3, CompactedIs
  <2>3. \A j \in Unflagged(old) : j \in DOMAIN old
      BY DEF Unflagged
  <2> HIDE DEF kept, old
  <2> QED
      BY <2>1, <2>2, <2>3, Zenon
<1>5. nextSeq \in SegmentId /\ nextSeq \in Nat \ {0} /\ nextSeq \notin DOMAIN files
    BY <1>1, StoreBoundAssumption DEF FilesInv, EngineOK, SegmentId
<1>6. FileOK(new)
  <2>1. \A i \in DOMAIN kept : PageOK(kept[i])
      BY <1>3, <1>4 DEF FileOK
  <2>2. Fits(Len(kept))
    <3>1. Fits(Len(old)) /\ Len(old) \in Nat /\ Len(kept) \in Nat
        BY <1>3, <1>4 DEF FileOK
    <3>2. SegmentPages \in Nat /\ \A c \in ChunkId : Pages[c] \in Nat
        BY StoreBoundAssumption, PagesType
    <3> HIDE DEF old, kept
    <3>3. CASE Len(old) = 0
      <4>1. Len(kept) = 0
          BY <1>4, <3>1, <3>3
      <4> QED
          BY <4>1 DEF Fits
    <3>4. ASSUME NEW c \in ChunkId, Len(old) <= SegmentPages + Pages[c]
          PROVE Fits(Len(kept))
      <4>1. Len(kept) <= SegmentPages + Pages[c]
          BY <1>4, <3>1, <3>2, <3>4
      <4> QED
          BY <4>1 DEF Fits
    <3> QED
        BY <3>1, <3>3, <3>4 DEF Fits
  <2> HIDE DEF kept
  <2>3. new \in SegFile
      BY <1>4 DEF SegFile
  <2> QED
      BY <2>1, <2>2, <2>3 DEF FileOK
<1> HIDE DEF new, kept, old
<1>7. /\ DOMAIN files' = DOMAIN files \cup {nextSeq} /\ files'[nextSeq] = new
      /\ \A t \in DOMAIN files : files'[t] = files[t]
      /\ files' = [t \in DOMAIN files' |-> files'[t]]
    BY <1>1, <1>5 DEF WithFile
<1>8. EngineOK(files', active, nextSeq')
  <2>1. ASSUME NEW t \in DOMAIN files' PROVE FileOK(files'[t]) /\ t < nextSeq'
    <3>1. CASE t = nextSeq
        BY <1>1, <1>5, <1>6, <1>7, <3>1
    <3>2. CASE t # nextSeq
      <4>1. t \in DOMAIN files /\ FileOK(files[t]) /\ t < nextSeq /\ t \in Int
          BY <1>7, <3>2 DEF FilesInv, EngineOK, SegmentId
      <4> QED
          BY <1>1, <1>5, <1>7, <4>1
    <3> QED
        BY <3>1, <3>2
  <2> QED
      BY <1>1, <1>5, <1>7, <2>1 DEF FilesInv, EngineOK
<1>9. Keeps(files, files')
    BY <1>7 DEF Keeps, Has, At, new
<1>10. compact'.moved = moved
    BY <1>1, CompactIs
<1>11. ASSUME NEW m \in moved PROVE m \in Loc /\ Has(files', m)
  <2>1. PICK n \in DOMAIN kept : m = <<nextSeq, n>>
      OBVIOUS
  <2>2. new.pages = kept
      BY DEF new
  <2>3. n \in 1..Len(kept) /\ Fits(Len(kept)) /\ Len(kept) \in Nat
      BY <1>4, <1>6, <2>1, <2>2 DEF FileOK
  <2>4. m \in Loc
      BY <1>5, <2>1, <2>3, PlaceIsLoc
  <2> QED
      BY <1>7, <2>1, <2>2, <2>4 DEF Has
<1> QED
    BY <1>2, <1>3, <1>4, <1>5, <1>7, <1>8, <1>9, <1>10, <1>11 DEF s, old, kept, new

LEMMA TypeRewriteSegment ==
    ASSUME TypeInv, RewriteSegment
    PROVE  TypeInv'
<1> USE DEF TypeInv
<1> DEFINE moved == compact'.moved
           made  == {<<nextSeq, n>> : n \in DOMAIN Compacted(files[Min(compact.todo)].pages)}
<1>1. /\ Rewriting /\ EngineOK(files', active, nextSeq')
      /\ Keeps(files, files')
      /\ compact'.moved \subseteq Loc /\ \A m \in compact'.moved : Has(files', m)
    BY RewriteIs
<1>2. /\ compact.pc = "rewrite"
      /\ compact' = [compact EXCEPT !.pc = "relocate", !.moved = made]
      /\ UNCHANGED <<ixVars, active, recVars, lifeVars, put, reader, used>>
    BY DEF RewriteSegment, Step
<1> HIDE DEF made
<1>3. compact' = [pc |-> "relocate", queue |-> compact.queue, freed |-> compact.freed,
                  todo |-> compact.todo, moved |-> moved, held |-> compact.held,
                  nonce |-> compact.nonce]
    BY <1>2, CompactIs
<1>4. /\ compact.queue = {} /\ space.engine /\ (~Encrypted => compact.nonce = None)
      /\ compact.todo # {} /\ compact.todo \subseteq DOMAIN files \ {active}
    BY <1>1, <1>2 DEF CompactInv, Compacting
<1>5. compact' \in CompactState
  <2>1. compact.todo \subseteq SegmentId
      BY DEF CompactInv, CompactState
  <2> HIDE DEF moved
  <2>2. moved \subseteq Loc
      BY <1>1 DEF moved
  <2> QED
      BY <1>3, <1>4, <2>1, <2>2, CompactIs DEF CompactState
<1>6. CompactInv'
  <2>1. /\ compact'.pc = "relocate" /\ compact'.queue = {} /\ compact'.todo = compact.todo
        /\ compact'.nonce = compact.nonce
      BY <1>3, <1>4
  <2>2. space'.engine /\ compact.todo \subseteq DOMAIN files' \ {active'}
      BY <1>1, <1>2, <1>4 DEF lifeVars, Keeps
  <2>3. \A m \in compact'.moved : HasPage(m)'
      BY <1>1 DEF HasPage, Has
  <2> QED
      BY <1>4, <1>5, <2>1, <2>2, <2>3 DEF CompactInv, Compacting, Rewriting
<1>7. PutsInv' /\ ReadersInv'
    BY <1>1, <1>2, RewritesAlone, PutsIdle, ReadersIdle
<1>8. FilesInv'
    BY <1>1, <1>2 DEF FilesInv
<1> QED
    BY <1>2, <1>6, <1>7, <1>8, IndexStays, RecordsStay, LifeStays

\* The relocated page a Compact looks at is on disk.
LEMMA MovedPage ==
    ASSUME FilesInv, CompactInv, compact.moved # {}
    PROVE  LET l == FirstOf(compact.moved)
           IN  /\ l \in compact.moved /\ l \in Loc /\ HasPage(l)
               /\ PageAt(l) \in Page /\ PageAt(l).chunk \in ChunkId
<1>1. FirstOf(compact.moved) \in compact.moved
    BY CompactIs, FirstIs
<1>2. FirstOf(compact.moved) \in Loc /\ HasPage(FirstOf(compact.moved))
    BY <1>1, CompactIs DEF CompactInv
<1> QED
    BY <1>1, <1>2, SomePage, LocIsPlace

\* A Compact between two steps of its second phase.
LEMMA RewritingOK ==
    ASSUME CompactInv, NEW pc \in {"relocate", "store"}, NEW moved \in SUBSET compact.moved,
           NEW held \in Nat, NEW n \in Nonce \cup {None}, ~Encrypted => n = None, Rewriting,
           compact' = [compact EXCEPT !.pc = pc, !.moved = moved, !.held = held, !.nonce = n],
           pc = "store" => moved # {}, UNCHANGED <<files, active, space>>
    PROVE  CompactInv'
<1>1. compact' = [pc |-> pc, queue |-> compact.queue, freed |-> compact.freed,
                  todo |-> compact.todo, moved |-> moved, held |-> held, nonce |-> n]
    BY CompactIs
<1>2. /\ compact.queue = {} /\ space.engine /\ compact.todo # {}
      /\ compact.todo \subseteq DOMAIN files \ {active} /\ compact.todo \subseteq SegmentId
      /\ \A m \in compact.moved : HasPage(m)
    BY DEF CompactInv, Compacting, Rewriting, CompactState
<1>3. compact' \in CompactState
    BY <1>1, <1>2, CompactIs DEF CompactState
<1>4. /\ compact'.pc = pc /\ compact'.queue = {} /\ compact'.todo = compact.todo
      /\ compact'.moved = moved /\ compact'.nonce = n
    BY <1>1, <1>2
<1>5. \A m \in moved : HasPage(m)'
    BY <1>2 DEF HasPage
<1> QED
    BY <1>2, <1>3, <1>4, <1>5 DEF CompactInv, Compacting, Rewriting

LEMMA TypeFetchRecord ==
    ASSUME TypeInv, FetchRecord
    PROVE  TypeInv'
<1> USE DEF TypeInv
<1> DEFINE l == FirstOf(compact.moved)
           c == PageAt(l).chunk
<1>1. /\ compact.pc = "relocate" /\ compact.moved # {}
      /\ compact' = IF chunks[c] = None THEN IdleCompact
                    ELSE [compact EXCEPT !.pc = "store", !.held = chunks[c].rc, !.nonce = nonce[c]]
      /\ UNCHANGED <<ixVars, files, recVars, active, nextSeq, lifeVars, put, reader, used>>
    BY DEF FetchRecord, Step, OnlyCompacts
<1>2. c \in ChunkId
    BY <1>1, MovedPage
<1> HIDE DEF c, l
<1>3. Rewriting
    BY <1>1 DEF Rewriting
<1>4. CompactInv'
  <2>1. CASE chunks[c] = None
      BY <1>1, <2>1, IdleCompactOK
  <2>2. CASE chunks[c] # None
    <3>1. chunks[c].rc \in Nat
        BY <1>2, <2>2 DEF IndexTypeOK, ChunkEntry
    <3>2. nonce[c] \in Nonce \cup {None} /\ (~Encrypted => nonce[c] = None)
        BY <1>2 DEF RecordsTyped
    <3>3. compact' = [compact EXCEPT !.pc = "store", !.moved = compact.moved,
                                     !.held = chunks[c].rc, !.nonce = nonce[c]]
        BY <1>1, <2>2, CompactIs
    <3>4. UNCHANGED <<files, active, space>>
        BY <1>1 DEF lifeVars
    <3> DEFINE held == chunks[c].rc
               tag  == nonce[c]
               left == compact.moved
    <3>5. /\ held \in Nat /\ tag \in Nonce \cup {None} /\ (~Encrypted => tag = None)
          /\ left \in SUBSET compact.moved /\ left # {}
          /\ compact' = [compact EXCEPT !.pc = "store", !.moved = left, !.held = held,
                                        !.nonce = tag]
        BY <1>1, <3>1, <3>2, <3>3
    <3> HIDE DEF held, tag, left
    <3> QED
        BY <1>3, <3>4, <3>5, RewritingOK
  <2> QED
      BY <2>1, <2>2
<1> QED
    BY <1>1, <1>3, <1>4, IndexStays, RecordsStay, TypeCompactMoves

LEMMA TypeStoreRecord ==
    ASSUME TypeInv, StoreRecord
    PROVE  TypeInv'
<1> USE DEF TypeInv
<1> DEFINE l == FirstOf(compact.moved)
           c == PageAt(l).chunk
           left == compact.moved \ {l}
<1>1. /\ compact.pc = "store"
      /\ chunks' = [chunks EXCEPT ![c] = [ns |-> NS, rc |-> compact.held, loc |-> l]]
      /\ short' = short \cup Spanning({c})
      /\ nonce' = [nonce EXCEPT ![c] = compact.nonce]
      /\ compact' = [compact EXCEPT !.pc = "relocate", !.moved = left, !.held = 0, !.nonce = None]
      /\ UNCHANGED <<refs, blobs, stats, candidates, files, active, nextSeq, lifeVars, put,
                     reader, used>>
    BY DEF StoreRecord, Step, OnlyCompacts, NextMoved
<1>2. compact.moved # {}
    BY <1>1 DEF CompactInv
<1>3. l \in Loc /\ c \in ChunkId
    BY <1>2, MovedPage
<1>4. left \subseteq compact.moved
    OBVIOUS
<1> HIDE DEF c, l, left
<1>5. Rewriting
    BY <1>1 DEF Rewriting
<1>6. IndexTypeOK'
  <2>1. [ns |-> NS, rc |-> compact.held, loc |-> l] \in ChunkEntry
      BY <1>3, CompactIs, NSAssumption DEF ChunkEntry
  <2> QED
      BY <1>1, <1>3, <2>1 DEF IndexTypeOK
<1>7. RecordsTyped'
  <2>1. short' \subseteq ChunkId
      BY <1>1, <1>3 DEF RecordsTyped, Spanning
  <2>2. compact.nonce \in Nonce \cup {None} /\ (~Encrypted => compact.nonce = None)
      BY CompactIs DEF CompactInv
  <2>3. nonce' \in [ChunkId -> Nonce \cup {None}]
      BY <1>1, <2>2 DEF RecordsTyped
  <2>4. ~Encrypted => nonce' = [x \in ChunkId |-> None]
      BY <1>1, <2>2 DEF RecordsTyped
  <2> QED
      BY <2>1, <2>3, <2>4 DEF RecordsTyped
<1>8. CompactInv'
  <2>1. space' = space
      BY <1>1 DEF lifeVars
  <2> QED
      BY <1>1, <1>4, <1>5, <2>1, RewritingOK
<1> QED
    BY <1>1, <1>5, <1>6, <1>7, <1>8, TypeCompactMoves

LEMMA TypeCancelCompact ==
    ASSUME TypeInv, CancelCompact
    PROVE  TypeInv'
<1>1. /\ compact' = IdleCompact /\ candidates' = {}
      /\ UNCHANGED <<refs, blobs, chunks, stats>>
      /\ UNCHANGED <<files, recVars, active, nextSeq, lifeVars, put, reader>>
    BY DEF CancelCompact, Step, OnlyCompacts
<1>2. CompactInv' /\ ~Rewriting'
    BY <1>1, IdleCompactOK
<1>3. IndexTypeOK'
    BY <1>1 DEF TypeInv, IndexTypeOK
<1> QED
    BY <1>1, <1>2, <1>3, RecordsStay, TypeCompactMoves DEF TypeInv

\* The rewritten segment goes; every other file stays as it was.
LEMMA DeletedIs ==
    ASSUME TypeInv, DeleteSegmentFile
    PROVE  LET s == Min(compact.todo)
           IN  /\ s \in DOMAIN files /\ s # active /\ s \in SegmentId
               /\ compact.moved = {} /\ Rewriting
               /\ DOMAIN files' = DOMAIN files \ {s}
               /\ \A t \in DOMAIN files' : files'[t] = files[t]
               /\ EngineOK(files', active, nextSeq)
               /\ compact' = NextSegment
               /\ UNCHANGED <<ixVars, recVars, active, nextSeq, lifeVars, put, reader, used>>
<1> USE DEF TypeInv
<1> DEFINE s == Min(compact.todo)
<1>1. /\ compact.pc = "relocate" /\ compact.moved = {}
      /\ files' = [t \in DOMAIN files \ {s} |-> files[t]]
      /\ compact' = NextSegment
      /\ UNCHANGED <<ixVars, recVars, active, nextSeq, lifeVars, put, reader, used>>
    BY DEF DeleteSegmentFile, Step, OnlyCompacts
<1>2. Rewriting
    BY <1>1 DEF Rewriting
<1>3. s \in DOMAIN files /\ s # active /\ s \in SegmentId
    BY <1>2, TodoIs
<1> HIDE DEF s
<1>4. DOMAIN files' = DOMAIN files \ {s} /\ \A t \in DOMAIN files' : files'[t] = files[t]
    BY <1>1
<1>5. files' = [t \in DOMAIN files' |-> files'[t]]
    BY <1>1
<1>6. EngineOK(files', active, nextSeq)
    BY <1>3, <1>4, <1>5 DEF FilesInv, EngineOK
<1> QED
    BY <1>1, <1>2, <1>3, <1>4, <1>6 DEF s

LEMMA TypeDeleteSegmentFile ==
    ASSUME TypeInv, DeleteSegmentFile
    PROVE  TypeInv'
<1> USE DEF TypeInv
<1> DEFINE s == Min(compact.todo)
           left == compact.todo \ {s}
<1>1. /\ compact.moved = {} /\ Rewriting
      /\ DOMAIN files' = DOMAIN files \ {s}
      /\ EngineOK(files', active, nextSeq)
      /\ compact' = IF compact.todo = {s} THEN IdleCompact
                    ELSE [compact EXCEPT !.pc = "rewrite", !.todo = left]
      /\ UNCHANGED <<ixVars, recVars, active, nextSeq, lifeVars, put, reader, used>>
    BY DeletedIs DEF NextSegment
<1>2. s \in compact.todo /\ space.engine /\ compact.queue = {}
    BY <1>1, TodoIs
<1> HIDE DEF s
<1>3. CompactInv'
  <2>1. CASE compact.todo = {s}
      BY <1>1, <2>1, IdleCompactOK
  <2>2. CASE compact.todo # {s}
    <3>1. compact' = [pc |-> "rewrite", queue |-> {}, freed |-> compact.freed, todo |-> left,
                      moved |-> {}, held |-> compact.held, nonce |-> compact.nonce]
        BY <1>1, <1>2, <2>2, CompactIs
    <3>2. left # {} /\ left \subseteq DOMAIN files' \ {active'} /\ left \subseteq SegmentId
        BY <1>1, <1>2, <2>2 DEF CompactInv, CompactState
    <3> HIDE DEF left
    <3>3. compact' \in CompactState
        BY <3>1, <3>2, CompactIs DEF CompactState
    <3>4. /\ compact'.pc = "rewrite" /\ compact'.queue = {} /\ compact'.todo = left
          /\ compact'.moved = {} /\ compact'.nonce = compact.nonce
        BY <3>1
    <3>5. (~Encrypted => compact.nonce = None) /\ space'.engine
        BY <1>1, <1>2 DEF CompactInv, lifeVars
    <3> QED
        BY <3>2, <3>3, <3>4, <3>5 DEF CompactInv, Compacting, Rewriting
  <2> QED
      BY <2>1, <2>2
<1>4. PutsInv' /\ ReadersInv'
    BY <1>1, RewritesAlone, PutsIdle, ReadersIdle
<1>5. FilesInv'
    BY <1>1 DEF FilesInv
<1> QED
    BY <1>1, <1>3, <1>4, <1>5, IndexStays, RecordsStay, LifeStays

-----------------------------------------------------------------------------
(* Stopping and opening again                                              *)

\* Where nothing runs, nothing can be disturbed.
LEMMA StillStays ==
    ASSUME PutsInv, ReadersInv, CompactInv, ~PutsRunning, ~GetsRunning, ~Compacting,
           UNCHANGED <<put, reader, compact>>
    PROVE  PutsInv' /\ ReadersInv' /\ CompactInv'
<1>1. \A w \in Writer : put[w] = IdlePut
    BY DEF PutsInv, PutsRunning, BusyPutOK, BusyPut
<1>2. \A r \in Reader : reader[r].pc \in {"idle", "failed"}
    BY DEF ReadersInv, GetsRunning
<1>3. compact.pc = "idle" /\ compact \in CompactState /\ (~Encrypted => compact.nonce = None)
      /\ compact.queue = {} /\ compact.todo = {} /\ compact.moved = {}
    BY DEF CompactInv, Compacting, Rewriting
<1>4. CompactInv'
    BY <1>3 DEF CompactInv, Compacting, Rewriting
<1> QED
    BY <1>1, <1>2, <1>4, PutsIdle, ReadersIdle

\* Without an engine nothing runs.
LEMMA NoEngineStill ==
    ASSUME TypeInv, ~space.engine
    PROVE  ~PutsRunning /\ ~GetsRunning /\ ~Compacting
<1>1. ~PutsRunning
    BY DEF TypeInv, PutsInv, PutsRunning, BusyPutOK, IdlePut
<1>2. ~GetsRunning
    BY DEF TypeInv, ReadersInv, GetsRunning
<1> QED
    BY <1>1, <1>2 DEF TypeInv, CompactInv

\* The fields of the namespace's life.
LEMMA SpaceIs ==
    ASSUME LifeInv
    PROVE  /\ space = [recorded |-> space.recorded, engine |-> space.engine,
                       created |-> space.created, dropping |-> space.dropping]
           /\ space.recorded \in BOOLEAN /\ space.engine \in BOOLEAN /\ space.created \in Nat
           /\ space.dropping \in (SUBSET Key) \cup {None}
BY DEF LifeInv

LEMMA TypeStop ==
    ASSUME TypeInv, NEW how, Stop(how)
    PROVE  TypeInv'
<1> USE DEF TypeInv
<1>1. /\ open' = FALSE
      /\ space' = [space EXCEPT !.engine = FALSE, !.dropping = None]
      /\ put' = [w \in Writer |-> IdlePut]
      /\ reader' = [r \in Reader |-> IdleReader]
      /\ compact' = IdleCompact
      /\ candidates' = {}
      /\ active' = 0
      /\ UNCHANGED <<refs, blobs, chunks, stats, files, nextSeq, recVars>>
    BY DEF Stop
<1>2. IndexTypeOK'
    BY <1>1 DEF IndexTypeOK
<1>3. FilesInv'
    BY <1>1 DEF FilesInv, EngineOK
<1>4. RecordsTyped'
    BY <1>1, RecordsStay
<1>5. LifeInv'
  <2>1. space' = [recorded |-> space.recorded, engine |-> FALSE, created |-> space.created,
                  dropping |-> None]
      BY <1>1, SpaceIs
  <2> QED
      BY <1>1, <2>1, SpaceIs DEF LifeInv
<1>6. PutsInv'
    BY <1>1, Zenon DEF PutsInv
<1>7. ReadersInv'
  <2>1. /\ DOMAIN IdleReader = ReaderFields /\ IdleReader.pc = "idle"
        /\ IdleReader = [f \in ReaderFields |-> IdleReader[f]]
      BY IdleReaderType
  <2>2. reader' = [r \in Reader |-> reader'[r]] /\ \A r \in Reader : reader'[r] = IdleReader
      BY <1>1
  <2> HIDE DEF IdleReader
  <2> QED
      BY <2>1, <2>2 DEF ReadersInv
<1>8. CompactInv'
    BY <1>1, IdleCompactOK
<1> QED
    BY <1>2, <1>3, <1>4, <1>5, <1>6, <1>7, <1>8

\* The logs' entries are finite in number and typed.
LEMMA LoggedIs ==
    ASSUME FilesInv
    PROVE  /\ IsFiniteSet(Logged) /\ Logged \in SUBSET (Nat \X Nat)
           /\ \A e \in Logged :
                 /\ Entry(e) \in LogEntry
                 /\ e[1] \in DOMAIN files /\ e[2] \in DOMAIN files[e[1]].wal
<1> DEFINE logOf(s) == {s} \X DOMAIN files[s].wal
           f == [s \in DOMAIN files |-> logOf(s)]
           all == {logOf(s) : s \in DOMAIN files}
<1>1. DOMAIN files \in SUBSET (1..MaxSegment) /\ MaxSegment \in Int
    BY StoreBoundAssumption DEF FilesInv, EngineOK, SegmentId
<1>2. IsFiniteSet(DOMAIN files)
  <2>1. IsFiniteSet(1..MaxSegment)
      BY <1>1, FS_Interval
  <2> QED
      BY <1>1, <2>1, FS_Subset
<1>3. \A s \in DOMAIN files : files[s].wal \in Seq(LogEntry)
    BY DEF FilesInv, EngineOK, FileOK, SegFile
<1>4. \A s \in DOMAIN files : IsFiniteSet(logOf(s))
  <2>1. SUFFICES ASSUME NEW s \in DOMAIN files PROVE IsFiniteSet(logOf(s))
      OBVIOUS
  <2>2. DOMAIN files[s].wal = 1..Len(files[s].wal) /\ Len(files[s].wal) \in Int
      BY <1>3
  <2>3. IsFiniteSet(DOMAIN files[s].wal)
      BY <2>2, FS_Interval
  <2>4. IsFiniteSet({s})
      BY FS_Singleton
  <2> QED
      BY <2>3, <2>4, FS_Product
<1>5. f \in Surjection(DOMAIN files, all)
    BY DEF Surjection
<1>6. IsFiniteSet(all)
  <2> HIDE DEF f, all
  <2> QED
      BY <1>2, <1>5, FS_Surjection
<1>7. IsFiniteSet(UNION all)
    BY <1>4, <1>6, FS_UNION
<1>8. ASSUME NEW e \in Logged
      PROVE  /\ e[1] \in DOMAIN files /\ e[2] \in DOMAIN files[e[1]].wal
             /\ e \in Nat \X Nat /\ Entry(e) \in LogEntry
  <2>1. PICK s \in DOMAIN files : e \in {s} \X DOMAIN files[s].wal
      BY DEF Logged
  <2>2. files[s].wal \in Seq(LogEntry) /\ s \in Nat
      BY <1>1, <1>3, <2>1
  <2>3. e = <<e[1], e[2]>> /\ e[1] = s /\ e[2] \in DOMAIN files[s].wal
      BY <2>1
  <2>4. e[2] \in Nat /\ files[s].wal[e[2]] \in LogEntry
      BY <2>2, <2>3
  <2> QED
      BY <2>2, <2>3, <2>4 DEF Entry
<1>9. Logged \in SUBSET (Nat \X Nat)
    BY <1>8
<1>10. IsFiniteSet(Logged)
  <2>1. Logged = UNION all
      BY DEF Logged
  <2> QED
      BY <1>7, <2>1
<1> QED
    BY <1>8, <1>9, <1>10

\* What replay makes of a chunk with entries to replay, and of a blob.
LEMMA ReplayedIs ==
    ASSUME FilesInv, IndexTypeOK
    PROVE  /\ \A b \in Blob : Replaying(b) # {} =>
                 /\ LastOf(Replaying(b)) \in Replaying(b)
                 /\ \A e \in Replaying(b) :
                       e \in Logged /\ Entry(e) \in LogEntry /\ Entry(e).blob = b /\ blobs[b] = None
           /\ \A c \in ChunkId : ReplayedWith(c) # {} =>
                 \E e \in Replayed : \E i \in DOMAIN Entry(e).ids :
                    /\ e \in Logged /\ Entry(e) \in LogEntry
                    /\ Entry(e).ids[i] = c /\ Entry(e).at[i] \in Loc
                    /\ ReplayedRecord(c) = [ns |-> NS, rc |-> 1, loc |-> Entry(e).at[i]]
<1>1. IsFiniteSet(Logged) /\ Logged \in SUBSET (Nat \X Nat)
      /\ \A e \in Logged : Entry(e) \in LogEntry
    BY LoggedIs
<1>2. Replayed \subseteq Logged
    BY DEF Replayed
<1>3. ASSUME NEW b \in Blob, Replaying(b) # {}
      PROVE  /\ LastOf(Replaying(b)) \in Replaying(b)
             /\ \A e \in Replaying(b) :
                   e \in Logged /\ Entry(e) \in LogEntry /\ Entry(e).blob = b /\ blobs[b] = None
  <2>1. Replaying(b) \in SUBSET Logged
      BY <1>2 DEF Replaying
  <2>2. IsFiniteSet(Replaying(b)) /\ Replaying(b) \in SUBSET (Nat \X Nat)
      BY <1>1, <2>1, FS_Subset
  <2>3. LastOf(Replaying(b)) \in Replaying(b)
      BY <1>3, <2>2, LastIs
  <2>4. \A e \in Replaying(b) : e \in Replayed /\ Entry(e).blob = b
      BY DEF Replaying
  <2>5. \A e \in Replayed : blobs[Entry(e).blob] = None
      BY DEF Replayed
  <2> QED
      BY <1>1, <2>1, <2>3, <2>4, <2>5
<1>4. ASSUME NEW c \in ChunkId, ReplayedWith(c) # {}
      PROVE  \E e \in Replayed : \E i \in DOMAIN Entry(e).ids :
                /\ e \in Logged /\ Entry(e) \in LogEntry
                /\ Entry(e).ids[i] = c /\ Entry(e).at[i] \in Loc
                /\ ReplayedRecord(c) = [ns |-> NS, rc |-> 1, loc |-> Entry(e).at[i]]
  <2>1. ReplayedWith(c) \in SUBSET Logged
      BY <1>2 DEF ReplayedWith
  <2>2. IsFiniteSet(ReplayedWith(c)) /\ ReplayedWith(c) \in SUBSET (Nat \X Nat)
      BY <1>1, <2>1, FS_Subset
  <2> DEFINE e == LastOf(ReplayedWith(c))
             entry == Entry(e)
             T == {j \in DOMAIN entry.ids : entry.ids[j] = c}
             i == Max(T)
  <2>3. e \in ReplayedWith(c)
      BY <1>4, <2>2, LastIs
  <2> HIDE DEF e
  <2>4. e \in Replayed /\ e \in Logged /\ entry \in LogEntry /\ Count(entry.ids, c) > 0
      BY <1>1, <2>1, <2>3 DEF ReplayedWith
  <2> HIDE DEF entry
  <2>5. entry.ids \in Seq(ChunkId) /\ entry.at \in Seq(Loc) /\ DOMAIN entry.at = DOMAIN entry.ids
      BY <2>4 DEF LogEntry
  <2>6. IsFiniteSet(T) /\ T # {}
      BY <2>4, <2>5, CountType
  <2>7. T \in SUBSET Nat
      BY <2>5
  <2>8. i \in T
      BY <2>6, <2>7, MaxIs
  <2>9. ReplayedRecord(c) = [ns |-> NS, rc |-> 1, loc |-> entry.at[i]]
      BY DEF ReplayedRecord, e, entry
  <2> HIDE DEF i
  <2>10. i \in DOMAIN entry.ids /\ entry.ids[i] = c /\ entry.at[i] \in Loc
      BY <2>5, <2>8
  <2> QED
      BY <2>4, <2>9, <2>10 DEF entry
<1> QED
    BY <1>3, <1>4

\* Opening the engine keeps the types, and finds a number that is new.
LEMMA TypeOpenEngine ==
    ASSUME FilesInv, IndexTypeOK, RecordsTyped, OpenEngine
    PROVE  FilesInv' /\ IndexTypeOK' /\ RecordsTyped'
<1>1. FilesInv'
  <2> DEFINE last == IF DOMAIN files = {} THEN 0 ELSE Max(DOMAIN files)
  <2>1. active' = last /\ nextSeq' = last + 1 /\ files' = files
      BY DEF OpenEngine
  <2>2. DOMAIN files \in SUBSET (1..MaxSegment) /\ MaxSegment \in Int
      BY StoreBoundAssumption DEF FilesInv, EngineOK, SegmentId
  <2>3. DOMAIN files # {} => last \in DOMAIN files /\ \A t \in DOMAIN files : last >= t
      BY <2>2, MaxBelow
  <2>4. last \in DOMAIN files \cup {0} /\ last \in Nat /\ \A t \in DOMAIN files : t < last + 1
    <3>1. CASE DOMAIN files = {}
        BY <3>1
    <3>2. CASE DOMAIN files # {}
      <4>1. last \in DOMAIN files /\ \A t \in DOMAIN files : last >= t /\ t \in Int
          BY <2>2, <2>3, <3>2
      <4>2. last \in Nat
          BY <2>2, <4>1
      <4> HIDE DEF last
      <4> QED
          BY <4>1, <4>2
    <3> QED
        BY <3>1, <3>2
  <2> HIDE DEF last
  <2> QED
      BY <2>1, <2>4 DEF FilesInv, EngineOK
<1>2. /\ blobs' = [b \in Blob |-> IF Replaying(b) = {} THEN blobs[b]
                                  ELSE [rc |-> 1, ids |-> Entry(LastOf(Replaying(b))).ids]]
      /\ chunks' = [c \in ChunkId |-> IF ReplayedWith(c) = {} THEN chunks[c]
                                      ELSE ReplayedRecord(c)]
      /\ short' = {c \in short : ReplayedWith(c) = {}}
      /\ nonce' = [c \in ChunkId |-> IF ReplayedWith(c) = {} THEN nonce[c] ELSE None]
      /\ UNCHANGED <<refs, stats, candidates>>
    BY DEF OpenEngine, ReplayWAL
<1>3. ASSUME NEW b \in Blob PROVE blobs'[b] \in BlobEntry \cup {None}
  <2>1. CASE Replaying(b) = {}
      BY <1>2, <2>1 DEF IndexTypeOK
  <2>2. CASE Replaying(b) # {}
    <3>1. Entry(LastOf(Replaying(b))) \in LogEntry
        BY <2>2, ReplayedIs
    <3>2. Entry(LastOf(Replaying(b))).ids \in Seq(ChunkId)
        BY <3>1 DEF LogEntry
    <3> QED
        BY <1>2, <2>2, <3>2 DEF BlobEntry
  <2> QED
      BY <2>1, <2>2
<1>4. ASSUME NEW c \in ChunkId PROVE chunks'[c] \in ChunkEntry \cup {None}
  <2>1. CASE ReplayedWith(c) = {}
      BY <1>2, <2>1 DEF IndexTypeOK
  <2>2. CASE ReplayedWith(c) # {}
    <3>1. \E l \in Loc : ReplayedRecord(c) = [ns |-> NS, rc |-> 1, loc |-> l]
        BY <2>2, ReplayedIs
    <3> QED
        BY <1>2, <2>2, <3>1, NSAssumption DEF ChunkEntry
  <2> QED
      BY <2>1, <2>2
<1>5. IndexTypeOK'
  <2>1. blobs' \in [Blob -> BlobEntry \cup {None}]
    <3>1. blobs' = [b \in Blob |-> blobs'[b]]
        BY <1>2
    <3> QED
        BY <1>3, <3>1
  <2>2. chunks' \in [ChunkId -> ChunkEntry \cup {None}]
    <3>1. chunks' = [c \in ChunkId |-> chunks'[c]]
        BY <1>2
    <3> QED
        BY <1>4, <3>1
  <2> QED
      BY <1>2, <2>1, <2>2 DEF IndexTypeOK
<1>6. RecordsTyped'
  <2>1. short' \subseteq ChunkId
      BY <1>2 DEF RecordsTyped
  <2>2. nonce' \in [ChunkId -> Nonce \cup {None}]
      BY <1>2 DEF RecordsTyped
  <2>3. ~Encrypted => nonce' = [c \in ChunkId |-> None]
      BY <1>2 DEF RecordsTyped
  <2> QED
      BY <2>1, <2>2, <2>3 DEF RecordsTyped
<1> QED
    BY <1>1, <1>5, <1>6

LEMMA TypeReopen ==
    ASSUME TypeInv, Reopen
    PROVE  TypeInv'
<1> USE DEF TypeInv
<1>1. /\ ~open /\ open' = TRUE
      /\ space' = [space EXCEPT !.engine = space.recorded]
      /\ IF space.recorded THEN OpenEngine ELSE UNCHANGED <<ixVars, volVars, recVars>>
      /\ UNCHANGED <<put, reader, compact>>
    BY DEF Reopen
<1>2. ~space.engine /\ space.dropping = None
    BY <1>1 DEF LifeInv
<1>3. PutsInv' /\ ReadersInv' /\ CompactInv'
    BY <1>1, <1>2, NoEngineStill, StillStays
<1>4. FilesInv' /\ IndexTypeOK' /\ RecordsTyped'
  <2>1. CASE space.recorded
      BY <1>1, <2>1, TypeOpenEngine
  <2>2. CASE ~space.recorded
      BY <1>1, <2>2, FilesStay, IndexStays, RecordsStay
  <2> QED
      BY <2>1, <2>2
<1>5. LifeInv'
  <2>1. space' = [recorded |-> space.recorded, engine |-> space.recorded,
                  created |-> space.created, dropping |-> None]
      BY <1>1, <1>2, SpaceIs
  <2> QED
      BY <1>1, <2>1, SpaceIs DEF LifeInv
<1> QED
    BY <1>3, <1>4, <1>5

LEMMA TypeCreateNamespace ==
    ASSUME TypeInv, CreateNamespace
    PROVE  TypeInv'
<1> USE DEF TypeInv
<1>1. PICK opened \in BOOLEAN :
        /\ space' = [space EXCEPT !.recorded = TRUE, !.engine = opened, !.created = @ + 1]
        /\ IF opened THEN OpenEngine ELSE UNCHANGED <<ixVars, volVars, recVars>>
    BY DEF CreateNamespace
<1>2. Quiet /\ open /\ UNCHANGED <<open, put, reader, compact>>
    BY DEF CreateNamespace, MayCall
<1>3. PutsInv' /\ ReadersInv' /\ CompactInv'
    BY <1>2, StillStays DEF Quiet
<1>4. FilesInv' /\ IndexTypeOK' /\ RecordsTyped'
  <2>1. CASE opened
      BY <1>1, <2>1, TypeOpenEngine
  <2>2. CASE ~opened
      BY <1>1, <2>2, FilesStay, IndexStays, RecordsStay
  <2> QED
      BY <2>1, <2>2
<1>5. LifeInv'
  <2>1. space' = [recorded |-> TRUE, engine |-> opened, created |-> space.created + 1,
                  dropping |-> space.dropping]
      BY <1>1, SpaceIs
  <2> QED
      BY <1>2, <2>1, SpaceIs DEF LifeInv, Quiet
<1> QED
    BY <1>3, <1>4, <1>5

\* A finite, non-empty set of naturals taken from a finite set of pages.
LEMMA GreatestTotal ==
    ASSUME NEW P \in SUBSET AllPages, P # {}, FilesInv
    PROVE  Max({PageAt(l).total : l \in P}) \in Nat
<1> DEFINE T == {PageAt(l).total : l \in P}
           f == [l \in P |-> PageAt(l).total]
<1>1. IsFiniteSet(P)
    BY AllPagesFinite, FS_Subset
<1>2. f \in Surjection(P, T)
    BY DEF Surjection
<1>3. IsFiniteSet(T)
  <2> HIDE DEF f, T
  <2> QED
      BY <1>1, <1>2, FS_Surjection
<1>4. \A l \in P : PageAt(l).total \in Nat
  <2>1. SUFFICES ASSUME NEW l \in P PROVE PageAt(l).total \in Nat
      OBVIOUS
  <2>2. l \in Place /\ HasPage(l)
      BY LocIsPlace DEF AllPages
  <2>3. PageAt(l) \in Page
      BY <2>2, SomePage
  <2> QED
      BY <2>3 DEF Page
<1>5. T \in SUBSET Nat /\ T # {}
    BY <1>4
<1> HIDE DEF T
<1> QED
    BY <1>3, <1>5, MaxIs DEF T

\* RebuildIndex registers pages where they are, and manifests made of their chunks.
LEMMA TypeRebuildIndex ==
    ASSUME TypeInv, RebuildIndex
    PROVE  TypeInv'
<1> USE DEF TypeInv
<1> DEFINE pages == {l \in AllPages : ~PageAt(l).deleted}
           met(b) == {l \in pages : PageAt(l).blob = b}
           chunkAt(b, i) == PageAt(CHOOSE l \in met(b) : PageAt(l).seq = i).chunk
           total(b) == Max({PageAt(l).total : l \in met(b)})
           complete(b) == met(b) # {} /\ {PageAt(l).seq : l \in met(b)} = 1..total(b)
           holding(c) == {l \in pages : PageAt(l).chunk = c}
           found == {c \in ChunkId : holding(c) # {}}
<1>1. /\ Quiet /\ ~Encrypted
      /\ chunks' = [c \in ChunkId |->
                      IF c \in found THEN [ns |-> NS, rc |-> 1, loc |-> LastOf(holding(c))]
                      ELSE chunks[c]]
      /\ short' = short \cup Spanning(found)
      /\ blobs' = [b \in Blob |->
                      IF complete(b)
                      THEN [rc |-> 1, ids |-> [i \in 1..total(b) |-> chunkAt(b, i)]]
                      ELSE blobs[b]]
      /\ UNCHANGED <<refs, stats, candidates, volVars, nonce, lifeVars, put, reader, compact>>
    BY DEF RebuildIndex
<1>2. pages \in SUBSET AllPages
    OBVIOUS
<1>3. \A l \in pages : l \in Loc /\ PageAt(l).chunk \in ChunkId
  <2>1. SUFFICES ASSUME NEW l \in pages PROVE l \in Loc /\ PageAt(l).chunk \in ChunkId
      OBVIOUS
  <2>2. l \in Loc /\ HasPage(l)
      BY DEF AllPages
  <2> QED
      BY <2>2, LocIsPlace, SomePage
<1> HIDE DEF pages
<1>4. ASSUME NEW c \in ChunkId PROVE chunks'[c] \in ChunkEntry \cup {None}
  <2>1. CASE c \in found
    <3>1. holding(c) # {} /\ holding(c) \in SUBSET AllPages /\ holding(c) \in SUBSET pages
        BY <1>2, <2>1
    <3> HIDE DEF holding, found
    <3>2. IsFiniteSet(holding(c)) /\ holding(c) \in SUBSET (Nat \X Nat)
      <4>1. AllPages \in SUBSET Loc /\ IsFiniteSet(AllPages)
          BY AllPagesFinite
      <4>2. IsFiniteSet(holding(c))
          BY <3>1, <4>1, FS_Subset
      <4> QED
          BY <3>1, <4>1, <4>2, LocAssumption
    <3>3. LastOf(holding(c)) \in Loc
        BY <1>3, <3>1, <3>2, LastIs
    <3> QED
        BY <1>1, <2>1, <3>3, NSAssumption DEF ChunkEntry
  <2>2. CASE c \notin found
    <3> HIDE DEF holding, found
    <3> QED
        BY <1>1, <2>2 DEF IndexTypeOK
  <2> QED
      BY <2>1, <2>2
<1>5. ASSUME NEW b \in Blob PROVE blobs'[b] \in BlobEntry \cup {None}
  <2>1. CASE complete(b)
    <3>1. met(b) \in SUBSET AllPages /\ met(b) # {}
        BY <1>2, <2>1
    <3>2. total(b) \in Nat
      <4> HIDE DEF met
      <4> QED
          BY <3>1, GreatestTotal
    <3>3. ASSUME NEW i \in 1..total(b) PROVE chunkAt(b, i) \in ChunkId
      <4>1. {PageAt(l).seq : l \in met(b)} = 1..total(b)
          BY <2>1
      <4> DEFINE m == CHOOSE l \in met(b) : PageAt(l).seq = i
      <4>2. \E l \in met(b) : PageAt(l).seq = i
        <5> HIDE DEF met, total
        <5> QED
            BY <4>1
      <4>3. m \in met(b)
        <5> HIDE DEF met
        <5> QED
            BY <4>2
      <4>4. m \in pages
          BY <4>3
      <4> HIDE DEF m
      <4>5. PageAt(m).chunk \in ChunkId
          BY <1>3, <4>4
      <4> QED
          BY <4>5 DEF m
    <3> HIDE DEF total, chunkAt
    <3> DEFINE made == [i \in 1..total(b) |-> chunkAt(b, i)]
    <3>4. made \in Seq(ChunkId)
        BY <3>2, <3>3
    <3>5. blobs'[b] = [rc |-> 1, ids |-> made]
      <4> HIDE DEF complete
      <4> QED
          BY <1>1, <2>1
    <3> HIDE DEF made
    <3> QED
        BY <3>4, <3>5 DEF BlobEntry
  <2>2. CASE ~complete(b)
    <3>1. blobs'[b] = blobs[b]
      <4> HIDE DEF complete, total, chunkAt
      <4> QED
          BY <1>1, <2>2
    <3> QED
        BY <3>1 DEF IndexTypeOK
  <2> QED
      BY <2>1, <2>2
<1>6. blobs' = [b \in Blob |-> blobs'[b]] /\ chunks' = [c \in ChunkId |-> chunks'[c]]
  <2> HIDE DEF complete, total, chunkAt, found, holding
  <2> QED
      BY <1>1
<1>7. IndexTypeOK'
  <2>1. blobs' \in [Blob -> BlobEntry \cup {None}]
      BY <1>5, <1>6
  <2>2. chunks' \in [ChunkId -> ChunkEntry \cup {None}]
      BY <1>4, <1>6
  <2> QED
      BY <1>1, <2>1, <2>2 DEF IndexTypeOK
<1>8. RecordsTyped'
  <2>1. short' \subseteq ChunkId
    <3>1. Spanning(found) \subseteq ChunkId
        BY DEF Spanning
    <3> HIDE DEF found
    <3> QED
        BY <1>1, <3>1 DEF RecordsTyped
  <2> HIDE DEF found, complete, total, chunkAt
  <2> QED
      BY <1>1, <2>1 DEF RecordsTyped
<1>9. PutsInv' /\ ReadersInv' /\ CompactInv' /\ LifeInv' /\ FilesInv'
  <2>1. Quiet /\ UNCHANGED <<volVars, lifeVars, put, reader, compact>>
      BY <1>1
  <2> QED
      BY <2>1, StillStays, LifeStays, FilesStay DEF Quiet
<1> QED
    BY <1>7, <1>8, <1>9

-----------------------------------------------------------------------------
(* DeleteNamespace                                                         *)

LEMMA TypeBeginDrop ==
    ASSUME TypeInv, BeginDrop
    PROVE  TypeInv'
<1> USE DEF TypeInv
<1> DEFINE keys == {k \in Key : refs[NS][k] # None}
<1>1. /\ Quiet /\ space.engine
      /\ space' = [space EXCEPT !.engine = FALSE, !.dropping = keys]
      /\ active' = 0
      /\ UNCHANGED <<refs, blobs, chunks, stats, nextSeq>>
      /\ UNCHANGED <<candidates, files, recVars, open, put, reader, compact>>
    BY DEF BeginDrop, OnlySpace
<1>2. keys \in SUBSET Key
    OBVIOUS
<1> HIDE DEF keys
<1>3. PutsInv' /\ ReadersInv' /\ CompactInv'
    BY <1>1, StillStays DEF Quiet
<1>4. LifeInv'
  <2>1. space' = [recorded |-> space.recorded, engine |-> FALSE, created |-> space.created,
                  dropping |-> keys]
      BY <1>1, SpaceIs
  <2>2. space.recorded /\ open
      BY <1>1 DEF LifeInv
  <2> QED
      BY <1>1, <1>2, <2>1, <2>2, SpaceIs DEF LifeInv
<1>5. FilesInv'
    BY <1>1 DEF FilesInv, EngineOK
<1>6. IndexTypeOK'
    BY <1>1, IndexStays DEF ixVars
<1>7. RecordsTyped'
    BY <1>1, RecordsStay
<1> QED
    BY <1>3, <1>4, <1>5, <1>6, <1>7

\* While a namespace is being deleted nothing else runs.
LEMMA TypeDrop ==
    ASSUME TypeInv, DropRef \/ DropRecord \/ CancelDrop
    PROVE  TypeInv'
<1> USE DEF TypeInv
<1>1. UNCHANGED <<candidates, files, recVars, open, put, reader, compact, active, nextSeq>>
    BY DEF DropRef, DropRecord, CancelDrop, OnlySpace
<1>2. FilesInv' /\ RecordsTyped'
    BY <1>1, FilesStay, RecordsStay DEF volVars
<1>3. CASE space.dropping = None
  <2>1. DropRecord
      BY <1>3 DEF DropRef, CancelDrop
  <2>2. /\ space' = [space EXCEPT !.recorded = FALSE, !.dropping = None]
        /\ UNCHANGED <<refs, blobs, chunks, stats>>
      BY <2>1 DEF DropRecord
  <2>3. space.dropping = {}
      BY <2>1 DEF DropRecord
  <2>4. FALSE
      BY <1>3, <2>3, StoreNoneAssumption
  <2> QED
      BY <2>4
<1>4. CASE space.dropping # None
  <2>1. ~space.engine /\ space.recorded /\ open
      BY <1>4 DEF LifeInv
  <2>2. PutsInv' /\ ReadersInv' /\ CompactInv'
      BY <1>1, <2>1, NoEngineStill, StillStays
  <2>3. CASE DropRef
    <3>1. PICK k \in space.dropping :
            CommitDelete(NS, k) /\ space' = [space EXCEPT !.dropping = @ \ {k}]
        BY <2>3 DEF DropRef
    <3>2. space.dropping \in SUBSET Key /\ k \in Key
        BY <1>4, <3>1, SpaceIs
    <3>3. IndexTypeOK'
        BY <1>1, <3>1, <3>2, NSAssumption, DeleteType
    <3>4. LifeInv'
      <4>1. space' = [recorded |-> space.recorded, engine |-> space.engine,
                      created |-> space.created, dropping |-> space.dropping \ {k}]
          BY <3>1, SpaceIs
      <4> QED
          BY <1>1, <2>1, <3>2, <4>1, SpaceIs DEF LifeInv
    <3> QED
        BY <1>2, <2>2, <3>3, <3>4
  <2>4. CASE DropRecord \/ CancelDrop
    <3>1. IndexTypeOK'
        BY <1>1, <2>4, IndexStays DEF DropRecord, CancelDrop, ixVars
    <3>2. PICK recorded \in BOOLEAN :
            space' = [recorded |-> recorded, engine |-> FALSE, created |-> space.created,
                      dropping |-> None]
      <4>1. CASE DropRecord
        <5>1. space' = [recorded |-> FALSE, engine |-> FALSE, created |-> space.created,
                        dropping |-> None]
            BY <2>1, <4>1, SpaceIs DEF DropRecord
        <5> QED
            BY <5>1
      <4>2. CASE CancelDrop
        <5>1. space' = [recorded |-> space.recorded, engine |-> FALSE,
                        created |-> space.created, dropping |-> None]
            BY <2>1, <4>2, SpaceIs DEF CancelDrop
        <5> QED
            BY <5>1, SpaceIs
      <4> QED
          BY <2>4, <4>1, <4>2
    <3>3. LifeInv'
        BY <1>1, <3>2, SpaceIs DEF LifeInv
    <3> QED
        BY <1>2, <2>2, <3>1, <3>3
  <2> QED
      BY <2>3, <2>4
<1> QED
    BY <1>3, <1>4

-----------------------------------------------------------------------------
(* Every step                                                              *)

LEMMA StoreTypeInit == StoreInit => TypeInv
<1> SUFFICES ASSUME StoreInit PROVE TypeInv
    OBVIOUS
<1>1. IndexTypeOK
    BY TypeInit DEF StoreInit
<1>2. FilesInv
  <2>1. DOMAIN files = {} /\ files = [s \in DOMAIN files |-> files[s]] /\ active = 0 /\ nextSeq = 1
      BY DEF StoreInit
  <2> QED
      BY <2>1 DEF FilesInv, EngineOK
<1>3. RecordsTyped
    BY DEF StoreInit, RecordsTyped
<1>4. LifeInv
    BY DEF StoreInit, LifeInv
<1>5. PutsInv
    BY Zenon DEF StoreInit, PutsInv
<1>6. ReadersInv
  <2>1. reader = [r \in Reader |-> reader[r]] /\ \A r \in Reader : reader[r] = IdleReader
      BY DEF StoreInit
  <2> HIDE DEF IdleReader
  <2> QED
      BY <2>1, IdleReaderType DEF ReadersInv
<1>7. CompactInv
    BY DEF StoreInit, IdleCompact, CompactInv, CompactState, Compacting, Rewriting
<1> QED
    BY <1>1, <1>2, <1>3, <1>4, <1>5, <1>6, <1>7 DEF TypeInv

LEMMA StoreTypeStep == TypeInv /\ [StoreNext]_vars => TypeInv'
<1> SUFFICES ASSUME TypeInv, [StoreNext]_vars PROVE TypeInv'
    OBVIOUS
<1>1. CASE PutNext
    BY <1>1, TypeWriteBlob, TypeLogBlob, TypeCheckQuota, TypeCancelPut, TypeCommitBlob,
       TypeMarkDuplicate
       DEF PutNext
<1>2. CASE GetNext
    BY <1>2, TypeGet DEF GetNext
<1>3. CASE (\E k \in Key : Delete(k)) \/ (\E old, new \in Key : Rename(old, new))
    BY <1>3, TypeDeleteRename
<1>4. CASE CompactNext
    BY <1>4, TypeScanPages, TypeReapPage, TypeMarkPage, TypeSweep, TypeBeginRewrite,
       TypeRewriteSegment, TypeFetchRecord, TypeStoreRecord, TypeDeleteSegmentFile,
       TypeCancelCompact
       DEF CompactNext
<1>5. CASE Crash \/ Close
    BY <1>5, TypeStop DEF Crash, Close
<1>6. CASE Reopen \/ RebuildIndex \/ CreateNamespace
    BY <1>6, TypeReopen, TypeRebuildIndex, TypeCreateNamespace
<1>7. CASE BeginDrop \/ DropRef \/ DropRecord \/ CancelDrop
    BY <1>7, TypeBeginDrop, TypeDrop
<1>8. CASE UNCHANGED vars
  <2>1. UNCHANGED <<ixVars, volVars, recVars, lifeVars, put, reader, compact>>
      BY <1>8 DEF vars
  <2> QED
      BY <2>1, IndexStays, TypeIndexOnly DEF TypeInv
<1> QED
    BY <1>1, <1>2, <1>3, <1>4, <1>5, <1>6, <1>7, <1>8 DEF StoreNext

\* The inductive invariant holds in every reachable state.
LEMMA TypeInvHolds == StoreSpec => []TypeInv
BY StoreTypeInit, StoreTypeStep, PTL DEF StoreSpec

LEMMA InvType == TypeInv => StoreTypeOK
<1> SUFFICES ASSUME TypeInv PROVE StoreTypeOK
    OBVIOUS
<1>1. IndexTypeOK /\ DOMAIN files \subseteq SegmentId
    BY DEF TypeInv, FilesInv, EngineOK
<1>2. ASSUME NEW s \in DOMAIN files
      PROVE  /\ files[s].pages \in Seq(Page)
             /\ \A i \in DOMAIN files[s].wal : files[s].wal[i].blob \in Blob
  <2>1. files[s].pages \in Seq(Page) /\ files[s].wal \in Seq(LogEntry)
      BY DEF TypeInv, FilesInv, EngineOK, FileOK, SegFile
  <2>2. \A i \in DOMAIN files[s].wal : files[s].wal[i] \in LogEntry
      BY <2>1
  <2> QED
      BY <2>1, <2>2 DEF LogEntry
<1>3. active \in DOMAIN files \cup {0} /\ nextSeq \in Nat
    BY DEF TypeInv, FilesInv, EngineOK
<1>4. /\ short \subseteq ChunkId
      /\ nonce \in [ChunkId -> Nonce \cup {None}]
      /\ ~Encrypted => nonce = [c \in ChunkId |-> None]
    BY DEF TypeInv, RecordsTyped
<1>5. /\ open \in BOOLEAN
      /\ space \in [recorded : BOOLEAN, engine : BOOLEAN, created : Nat,
                    dropping : (SUBSET Key) \cup {None}]
      /\ space.engine => open /\ space.recorded
    BY DEF TypeInv, LifeInv
<1>6. \A w \in Writer : put[w].pc \in {"idle", "written", "logged", "checked", "marking"}
    BY DEF TypeInv, PutsInv, IdlePut, BusyPutOK, BusyPut
<1>7. \A r \in Reader : reader[r].pc \in {"idle", "ref", "manifest", "open", "failed"}
    BY DEF TypeInv, ReadersInv
<1>8. compact.pc \in {"idle", "reap", "mark", "sweep", "purge", "wait", "rewrite", "relocate",
                      "store"}
    BY DEF TypeInv, CompactInv, CompactState
<1> QED
    BY <1>1, <1>2, <1>3, <1>4, <1>5, <1>6, <1>7, <1>8 DEF StoreTypeOK

\* Type correctness of the store, and with it that an engine is open only for a
\* namespace that is recorded in a store that is open: for any number of callers,
\* segments, Compacts, crashes, Closes, rebuilds and deletions of the namespace.
THEOREM StoreTypeCorrect == StoreSpec => []StoreTypeOK
BY TypeInvHolds, InvType, PTL

-----------------------------------------------------------------------------
(* Readers and the removal of segments                                     *)

\* What no step but the removal of a rewritten segment does.
PagesStay == \A l \in Place : Has(files, l) => Has(files', l)

LEMMA OthersKeepPages ==
    ASSUME TypeInv, [StoreNext]_vars, ~DeleteSegmentFile
    PROVE  PagesStay
<1>1. CASE files' = files
    BY <1>1 DEF PagesStay
<1>2. ASSUME NEW w \in Writer, NEW k \in Key, NEW b \in Content[NS], WriteBlob(w, k, b)
      PROVE  PagesStay
  <2>1. PICK ids \in Manifests[b] :
          /\ files' = Written(b, ids).files /\ Written(b, ids).next <= MaxSegment + 1
      BY <1>2 DEF WriteBlob
  <2>2. b \in Blob /\ ids \in Seq(ChunkId)
      BY ContentIsBlob, ManifestAssumption
  <2>3. WrittenOK(Written(b, ids), b, ids, Len(ids))
      BY <2>1, <2>2, WrittenIs DEF TypeInv
  <2> QED
      BY <2>1, <2>3 DEF WrittenOK, Keeps, PagesStay
<1>3. ASSUME NEW w \in Writer, LogBlob(w) PROVE PagesStay
  <2>1. /\ DOMAIN files' = DOMAIN files
        /\ \A s \in DOMAIN files : files'[s].pages = files[s].pages
      BY <1>3, LogIs DEF TypeInv
  <2> QED
      BY <2>1 DEF PagesStay, Has
<1>4. ASSUME NEW w \in Writer, MarkDuplicate(w) PROVE PagesStay
  <2> DEFINE l == put[w].at[Min(put[w].dups)]
  <2>1. l \in Loc /\ HasPage(l) /\ SetDeleted(l)
      BY <1>4, MarkIs DEF TypeInv
  <2> HIDE DEF l
  <2> QED
      BY <2>1, FlagIs DEF TypeInv, PagesStay
<1>5. CASE MarkPage
  <2> DEFINE l == FirstOf(compact.queue)
  <2>1. compact.queue # {} /\ SetDeleted(l)
      BY <1>5 DEF MarkPage, TypeInv, CompactInv
  <2>2. l \in Loc /\ HasPage(l)
      BY <2>1, QueuedPage DEF TypeInv
  <2> HIDE DEF l
  <2> QED
      BY <2>1, <2>2, FlagIs DEF TypeInv, PagesStay
<1>6. CASE RewriteSegment
    BY <1>6, RewriteIs DEF Keeps, PagesStay
<1>7. \/ files' = files
      \/ \E w \in Writer, k \in Key : \E b \in Content[NS] : WriteBlob(w, k, b)
      \/ \E w \in Writer : LogBlob(w) \/ MarkDuplicate(w)
      \/ MarkPage \/ RewriteSegment
  <2>1. CASE PutNext
      BY <2>1 DEF PutNext, CheckQuota, CancelPut, CommitBlob, volVars
  <2>2. CASE GetNext
      BY <2>2 DEF GetNext, GetRef, GetBlob, GetChunks, ReadChunk, GetFailed, OnlyReads, volVars
  <2>3. CASE (\E k \in Key : Delete(k)) \/ (\E old, new \in Key : Rename(old, new))
      BY <2>3 DEF Delete, Rename, OnlyIndex, volVars
  <2>4. CASE CompactNext
      BY <2>4 DEF CompactNext, ScanPages, ReapPage, SweepBlobs, SweepBlob, Reconcile,
                  BeginRewrite, FetchRecord, StoreRecord, CancelCompact, volVars
  <2>5. CASE Crash \/ Close \/ Reopen \/ RebuildIndex
      BY <2>5 DEF Crash, Close, Stop, Reopen, OpenEngine, RebuildIndex, volVars
  <2>6. CASE BeginDrop \/ DropRef \/ DropRecord \/ CancelDrop \/ CreateNamespace
      BY <2>6 DEF BeginDrop, DropRef, DropRecord, CancelDrop, CreateNamespace, OnlySpace,
                  OpenEngine, volVars
  <2>7. CASE UNCHANGED vars
      BY <2>7 DEF vars, volVars
  <2> QED
      BY <2>1, <2>2, <2>3, <2>4, <2>5, <2>6, <2>7 DEF StoreNext
<1> QED
    BY <1>1, <1>2, <1>3, <1>4, <1>5, <1>6, <1>7

\* No Get that is under way loses a page it has still to read: the only step that
\* removes pages is that of phase 2 of Compact, which waited for every reader and
\* admits none, however many readers, writers and Compacts there are.
THEOREM ReadersKeepTheirPages == StoreSpec => ReaderKeepsPages
<1>1. TypeInv /\ [StoreNext]_vars =>
          [\A r \in Reader : reader[r].pc = "open" =>
              \A l \in ToSet(reader[r].at) : HasPage(l) => HasPage(l)']_vars
  <2> SUFFICES ASSUME TypeInv, [StoreNext]_vars, NEW r \in Reader, reader[r].pc = "open",
                      NEW l, HasPage(l)
               PROVE  HasPage(l)'
      OBVIOUS
  <2>1. ~DeleteSegmentFile
    <3>1. SUFFICES ASSUME DeleteSegmentFile PROVE FALSE
        OBVIOUS
    <3>2. Rewriting
        BY <3>1 DEF DeleteSegmentFile, Rewriting
    <3> QED
        BY <3>2, RewritesAlone
  <2>2. PagesStay
      BY <2>1, OthersKeepPages
  <2> DEFINE m == <<l[1], l[2]>>
  <2>3. l[1] \in SegmentId /\ files[l[1]].pages \in Seq(Page) /\ l[2] \in DOMAIN files[l[1]].pages
      BY DEF HasPage, TypeInv, FilesInv, EngineOK, FileOK, SegFile
  <2>4. m \in Place /\ m[1] = l[1] /\ m[2] = l[2]
      BY <2>3 DEF Place, SegmentId
  <2>5. Has(files, m)
      BY <2>4 DEF HasPage, Has
  <2>6. Has(files', m)
      BY <2>2, <2>4, <2>5 DEF PagesStay
  <2> QED
      BY <2>4, <2>6 DEF HasPage, Has
<1> QED
    BY <1>1, TypeInvHolds, PTL DEF StoreSpec, ReaderKeepsPages
=============================================================================
