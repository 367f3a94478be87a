-------------------------- MODULE SegmentFileProofs --------------------------
(***************************************************************************)
(* Proofs about SegmentFile, for any writers, blobs, segment sizes and     *)
(* bounds.                                                                 *)
(*                                                                         *)
(* The invariant SegInv says of the files that the disk has no page or log *)
(* entry that the system lacks (FilesInv); that the active segment is the  *)
(* newest (EngineInv); where each call of WriteBlob is (CallsInv), and     *)
(* where its chunks are while it goes on: in the buffer, in the file,      *)
(* named in it, synced (ChunksInv); what an entry of a log says of its     *)
(* chunks, whatever has come of the call (LogsInv); and that a flag is in  *)
(* the file and on the disk (MarksInv).                                    *)
(*                                                                         *)
(* Nearly all steps are steady: they add pages and log entries to files,   *)
(* or change pages in place (Grows), and leave other writers alone         *)
(* (Steady). What the invariant says of those others survives every such   *)
(* step (SteadyKeeps), so that an action is only asked about its own       *)
(* writer. What stops the engine (Stops) leaves only returned and failed   *)
(* calls: a crash takes away nothing that those need, and a loss of power  *)
(* no more than was not synced (LossIs).                                   *)
(***************************************************************************)
EXTENDS SegmentFile, WellFoundedInduction, NaturalsInduction, TLAPS

-----------------------------------------------------------------------------
(* The inductive invariant                                                 *)

Step == {"append", "flush", "patch", "patchFlag", "sync", "log", "syncLog",
         "returned", "failed"}
Place == [seg : Segment, at : Nat \ {0}]

\* Page q is what has become of page p.
Follows(q, p) ==
    /\ p = Torn <=> q = Torn
    /\ p # Torn => /\ q.of = p.of /\ q.chunk = p.chunk /\ q.part = p.part
                   /\ p.named => q.named

\* No page is lost, or becomes another one.
Later(new, old) ==
    /\ Len(old) <= Len(new)
    /\ \A j \in DOMAIN old : Follows(new[j], old[j])

FilesInv ==
    /\ file \in [Segment -> SegFile \cup {None}]
    /\ disk \in [Segment -> SegFile \cup {None}]
    /\ \A s \in Segment : Exists(s) <=> disk[s] # None
    /\ \A s \in Segment : Exists(s) => /\ Later(file[s].pages, disk[s].pages)
                                       /\ IsPrefix(disk[s].log, file[s].log)

EngineInv ==
    /\ active \in SegActive \cup {None}
    /\ nextSeq \in 1..MaxSegment + 1 /\ up \in BOOLEAN
    /\ spent \in [crashes : Nat, powerLosses : Nat, errors : Nat]
    /\ up => \A s \in Segment : Exists(s) => s < nextSeq
    /\ up /\ active = None => \A s \in Segment : ~Exists(s)
    /\ active # None => up /\ Exists(active.seq) /\ \A s \in Segment : Exists(s) => s <= active.seq

\* How far a call has come.
CallOK(w) ==
    /\ \A i \in DOMAIN placed[w] : Exists(placed[w][i].seg)
    /\ Len(placed[w]) <= Len(PagesOf[w])
    /\ pc[w] = "append" => Len(placed[w]) < Len(PagesOf[w])
    /\ pc[w] \notin {"append", "failed"} => Len(placed[w]) = Len(PagesOf[w])
    /\ pc[w] \in {"append", "flush"} => patched[w] = 0
    /\ pc[w] \in {"patch", "patchFlag"} => patched[w] < Len(placed[w])
    /\ pc[w] \in {"sync", "log", "syncLog", "returned"} => patched[w] = Len(placed[w])
    /\ pc[w] \in {"log", "syncLog"} <=> mu = w
    /\ Busy(w) => active # None
    /\ pc[w] # "patchFlag" => seen[w] = FALSE

CallsInv ==
    /\ pc \in [Writer -> Step] /\ placed \in [Writer -> Seq(Place)]
    /\ patched \in [Writer -> Nat] /\ seen \in [Writer -> BOOLEAN]
    /\ mu \in Writer \cup {None}
    /\ \A w \in Writer : CallOK(w)

\* A segment as the engine sees it.
Content(s) == IF IsActive(s) THEN file[s].pages \o active.buffer ELSE file[s].pages

BufferLost(s) == IsActive(s) /\ "buffer" \in active.broken

\* All pages of chunk i of w, from "first" on.
HasChunk(pages, first, w, i) ==
    \A part \in 1..PagesOf[w][i] :
        LET at == first + part - 1
        IN /\ at \in DOMAIN pages /\ pages[at] # Torn
           /\ pages[at].of = w /\ pages[at].chunk = i /\ pages[at].part = part

HasNamed(pages, first, w, i) == HasChunk(pages, first, w, i) /\ pages[first].named

Unwritten == {"append", "flush"}
Writing == {"patch", "patchFlag", "sync", "log", "syncLog"}

IsNamed(w, i) == i <= patched[w] \/ (pc[w] = "patchFlag" /\ i = patched[w] + 1)

\* The chunks of a call that goes on.
ChunkOK(w, i) ==
    LET s  == placed[w][i].seg
        at == placed[w][i].at
    IN /\ pc[w] \in Unwritten /\ ~BufferLost(s) => HasChunk(Content(s), at, w, i)
       /\ pc[w] \in Writing => HasChunk(file[s].pages, at, w, i)
       /\ pc[w] \in Writing /\ IsNamed(w, i) => file[s].pages[at].named
       /\ pc[w] \in {"log", "syncLog"} /\ IsActive(s) => HasNamed(disk[s].pages, at, w, i)

ChunksInv == \A w \in Writer : \A i \in DOMAIN placed[w] : ChunkOK(w, i)

\* What a log says, whatever came of the call.
EntryOK(w, s) ==
    /\ pc[w] \in {"syncLog", "returned", "failed"}
    /\ Len(placed[w]) = Len(PagesOf[w])
    /\ \A i \in DOMAIN placed[w] :
          LET place == placed[w][i]
          IN /\ place.seg <= s
             /\ place.seg = s => HasNamed(disk[s].pages, place.at, w, i)
             /\ spent.powerLosses = 0 => HasNamed(file[place.seg].pages, place.at, w, i)
             /\ IsPage(place) => PageAt(place).of = w

LogsInv ==
    /\ \A w \in Writer, s \in Segment : LoggedIn(w, s) => EntryOK(w, s)
    /\ \A w \in Writer : pc[w] = "syncLog" => LoggedIn(w, active.seq)
    /\ \A w \in Writer : pc[w] = "returned" =>
          \E s \in Segment : Exists(s) /\ w \in ToSet(disk[s].log)

\* A flagged page: on the disk as well, and in the file that of a call that has returned.
MarkOK(place) ==
    /\ place.at \in DOMAIN disk[place.seg].pages
    /\ disk[place.seg].pages[place.at] # Torn /\ disk[place.seg].pages[place.at].deleted
    /\ PageAt(place).deleted
    /\ \E w \in Writer : /\ pc[w] = "returned" /\ PageAt(place).of = w
                         /\ \E i \in DOMAIN placed[w] : place = placed[w][i]

MarksInv == \A place \in marked : MarkOK(place)

SegInv == FilesInv /\ EngineInv /\ CallsInv /\ ChunksInv /\ LogsInv /\ MarksInv

-----------------------------------------------------------------------------
(* Pages                                                                   *)

Pages == Seq(Page \cup {Torn})

LEMMA PageIs ==
    ASSUME NEW p \in Page
    PROVE  /\ p # Torn /\ p.of \in Writer /\ p.named \in BOOLEAN /\ p.deleted \in BOOLEAN
           /\ p \in Page \cup {Torn}
BY SegmentNoneAssumption DEF Page

LEMMA LaterItself ==
    ASSUME NEW s \in Pages
    PROVE  Later(s, s)
BY DEF Later, Follows, Pages

\* A page that was there still is, and is as whole as it was.
LEMMA LaterHas ==
    ASSUME NEW old \in Pages, NEW new \in Pages, Later(new, old),
           NEW at \in DOMAIN old, old[at] # Torn
    PROVE  at \in DOMAIN new /\ new[at] # Torn /\ new[at].of = old[at].of
<1>1. at \in DOMAIN new
    BY DEF Later, Pages
<1>2. Follows(new[at], old[at])
    BY DEF Later
<1> QED
    BY <1>1, <1>2 DEF Follows

LEMMA LaterThan ==
    ASSUME NEW a \in Pages, NEW b \in Pages, NEW c \in Pages, Later(c, b), Later(b, a)
    PROVE  Later(c, a)
<1>1. DOMAIN a \subseteq DOMAIN b /\ Len(a) <= Len(c)
    BY DEF Later, Pages
<1>2. ASSUME NEW j \in DOMAIN a PROVE Follows(c[j], a[j])
    BY <1>1 DEF Later, Follows
<1> QED
    BY <1>1, <1>2 DEF Later

LEMMA LaterAppended ==
    ASSUME NEW s \in Pages, NEW out \in Pages
    PROVE  /\ s \o out \in Pages /\ Later(s \o out, s)
           /\ \A j \in DOMAIN s : (s \o out)[j] = s[j]
BY DEF Later, Follows, Pages

LEMMA ConcatIs ==
    ASSUME NEW a \in Pages, NEW b \in Pages, NEW c \in Pages
    PROVE  /\ Len(a \o b) = Len(a) + Len(b) /\ Len(a \o b) \in Nat
           /\ (a \o b) \o c = a \o (b \o c)
<1>1. Len(a \o b) = Len(a) + Len(b) /\ Len(a \o b) \in Nat
    BY DEF Pages
<1>2. (a \o b) \o c \in Pages /\ a \o (b \o c) \in Pages
    BY LaterAppended
<1>3. Len((a \o b) \o c) = Len(a \o (b \o c))
    BY DEF Pages
<1>4. ASSUME NEW j \in 1..Len((a \o b) \o c)
      PROVE  ((a \o b) \o c)[j] = (a \o (b \o c))[j]
    BY DEF Pages
<1> QED
    BY SMTT(30), <1>2, <1>3, <1>4 DEF Pages

\* A buffer is written behind what has changed.
LEMMA LaterConcat ==
    ASSUME NEW s \in Pages, NEW n \in Pages, NEW b \in Pages, Later(n, s), Len(n) = Len(s)
    PROVE  Later(n \o b, s \o b)
<1>1. Len(n \o b) = Len(s \o b) /\ DOMAIN (s \o b) = 1..Len(s) + Len(b)
    BY DEF Pages
<1>2. ASSUME NEW j \in 1..Len(s) + Len(b) PROVE Follows((n \o b)[j], (s \o b)[j])
  <2>1. CASE j <= Len(s)
      BY <2>1 DEF Later, Pages
  <2>2. CASE j > Len(s)
      BY <2>2 DEF Follows, Pages
  <2> QED
      BY <2>1, <2>2 DEF Pages
<1> QED
    BY <1>1, <1>2 DEF Later, Pages

LEMMA LaterEdited ==
    ASSUME NEW s \in Pages, NEW k \in DOMAIN s, NEW q \in Page \cup {Torn}, Follows(q, s[k])
    PROVE  /\ [s EXCEPT ![k] = q] \in Pages /\ Later([s EXCEPT ![k] = q], s)
           /\ Len([s EXCEPT ![k] = q]) = Len(s)
BY DEF Later, Follows, Pages

\* A chunk stays where it is, and named.
LEMMA ChunkStays ==
    ASSUME NEW old \in Pages, NEW new \in Pages, Later(new, old), NEW at, NEW w, NEW i,
           HasChunk(old, at, w, i)
    PROVE  HasChunk(new, at, w, i)
<1>1. DOMAIN old \subseteq DOMAIN new
    BY DEF Later, Pages
<1> QED
    BY <1>1 DEF HasChunk, Later, Follows

\* What is known of where a chunk was placed.
LEMMA PlaceIs ==
    ASSUME CallsInv, NEW w \in Writer, NEW i \in DOMAIN placed[w]
    PROVE  /\ placed[w][i].seg \in Segment /\ placed[w][i].at \in Nat \ {0}
           /\ placed[w] \in Seq(Place) /\ i \in Nat \ {0} /\ i <= Len(placed[w])
           /\ PagesOf[w] \in Seq(Nat \ {0}) /\ i \in DOMAIN PagesOf[w]
           /\ PagesOf[w][i] \in Nat \ {0}
<1>1. placed[w] \in Seq(Place) /\ Len(placed[w]) <= Len(PagesOf[w])
    BY DEF CallsInv, CallOK
<1>2. PagesOf[w] \in Seq(Nat \ {0})
    BY SegmentAssumption
<1>3. i \in 1..Len(placed[w]) /\ Len(placed[w]) \in Nat
    BY <1>1
<1>4. DOMAIN PagesOf[w] = 1..Len(PagesOf[w]) /\ Len(PagesOf[w]) \in Nat
    BY <1>2
<1>5. placed[w][i] \in Place
    BY <1>1
<1>6. i \in DOMAIN PagesOf[w]
    BY <1>1, <1>3, <1>4
<1>7. PagesOf[w][i] \in Nat \ {0}
    BY <1>2, <1>6
<1> QED
    BY <1>1, <1>2, <1>3, <1>5, <1>6, <1>7 DEF Place

\* A chunk has a first page.
LEMMA FirstPage ==
    ASSUME CallsInv, NEW w \in Writer, NEW i \in DOMAIN placed[w],
           NEW pages, NEW at, at = placed[w][i].at, HasChunk(pages, at, w, i)
    PROVE  at \in DOMAIN pages /\ pages[at] # Torn /\ pages[at].of = w
<1>1. 1 \in 1..PagesOf[w][i] /\ at + 1 - 1 = at
    BY PlaceIs
<1> QED
    BY <1>1 DEF HasChunk

\* A call past its loop has placed chunks, and works on a segment.
LEMMA GoingOn ==
    ASSUME CallsInv, NEW w \in Writer, pc[w] \notin {"append", "failed"}
    PROVE  /\ placed[w] \in Seq(Place) /\ placed[w] # << >> /\ 1 \in DOMAIN placed[w]
           /\ Len(placed[w]) = Len(PagesOf[w])
           /\ pc[w] # "returned" => active # None
<1>1. placed[w] \in Seq(Place) /\ Len(placed[w]) = Len(PagesOf[w])
    BY DEF CallsInv, CallOK
<1>2. PagesOf[w] \in Seq(Nat \ {0}) /\ PagesOf[w] # << >>
    BY SegmentAssumption
<1>3. Len(placed[w]) \in Nat \ {0}
    BY <1>1, <1>2
<1>4. placed[w] # << >> /\ 1 \in DOMAIN placed[w]
    BY <1>1, <1>3
<1> QED
    BY <1>1, <1>4 DEF CallsInv, CallOK, Busy

LEMMA NamedStays ==
    ASSUME NEW old \in Pages, NEW new \in Pages, Later(new, old), NEW at \in DOMAIN old,
           old[at] # Torn, old[at].named
    PROVE  new[at].named
BY DEF Later, Follows

LEMMA PrefixIs ==
    ASSUME NEW S, NEW s \in Seq(S), NEW t \in Seq(S)
    PROVE  IsPrefix(s, t) <=> Len(s) <= Len(t) /\ \A j \in 1..Len(s) : s[j] = t[j]
<1>1. ASSUME Len(s) <= Len(t)
      PROVE  /\ SubSeq(s, 1, Len(s)) = SubSeq(t, 1, Len(s))
                    <=> \A j \in 1..Len(s) : s[j] = t[j]
  <2>1. /\ SubSeq(s, 1, Len(s)) = [j \in 1..Len(s) |-> s[j]]
        /\ SubSeq(t, 1, Len(s)) = [j \in 1..Len(s) |-> t[j]]
      BY <1>1
  <2> QED
      BY <2>1
<1> QED
    BY <1>1 DEF IsPrefix

LEMMA PrefixOf ==
    ASSUME NEW S, NEW s \in Seq(S), NEW t \in Seq(S), IsPrefix(s, t)
    PROVE  ToSet(s) \subseteq ToSet(t)
<1>1. Len(s) <= Len(t) /\ \A j \in 1..Len(s) : s[j] = t[j]
    BY PrefixIs
<1>2. DOMAIN s \subseteq DOMAIN t /\ \A j \in DOMAIN s : s[j] = t[j]
    BY <1>1
<1> QED
    BY <1>2 DEF ToSet

LEMMA PrefixItself ==
    ASSUME NEW S, NEW s \in Seq(S)
    PROVE  IsPrefix(s, s)
BY PrefixIs

LEMMA PrefixThan ==
    ASSUME NEW S, NEW a \in Seq(S), NEW b \in Seq(S), NEW c \in Seq(S),
           IsPrefix(a, b), IsPrefix(b, c)
    PROVE  IsPrefix(a, c)
<1>1. Len(a) <= Len(b) /\ \A j \in 1..Len(a) : a[j] = b[j]
    BY PrefixIs
<1>2. Len(b) <= Len(c) /\ \A j \in 1..Len(b) : b[j] = c[j]
    BY PrefixIs
<1>3. Len(a) <= Len(c) /\ \A j \in 1..Len(a) : a[j] = c[j]
    BY <1>1, <1>2
<1> QED
    BY <1>3, PrefixIs

LEMMA PrefixAppended ==
    ASSUME NEW S, NEW s \in Seq(S), NEW e \in S
    PROVE  Append(s, e) \in Seq(S) /\ IsPrefix(s, Append(s, e))
           /\ ToSet(Append(s, e)) = ToSet(s) \cup {e}
<1>1. Append(s, e) \in Seq(S) /\ Len(s) <= Len(Append(s, e))
      /\ \A j \in 1..Len(s) : s[j] = Append(s, e)[j]
    OBVIOUS
<1>2. IsPrefix(s, Append(s, e))
    BY <1>1, PrefixIs
<1>3. DOMAIN Append(s, e) = 1..Len(s) + 1 /\ DOMAIN s = 1..Len(s)
      /\ Append(s, e)[Len(s) + 1] = e
    OBVIOUS
<1>4. ToSet(Append(s, e)) = ToSet(s) \cup {e}
    BY <1>1, <1>3 DEF ToSet
<1> QED
    BY <1>1, <1>2, <1>4

-----------------------------------------------------------------------------
(* Steps                                                                   *)

\* Files only grow, and only the active one; the disk keeps up with some of it.
Grows ==
    /\ file' \in [Segment -> SegFile \cup {None}]
    /\ disk' \in [Segment -> SegFile \cup {None}]
    /\ \A s \in Segment : Exists(s) =>
          /\ file'[s] # None /\ disk'[s] # None
          /\ Later(file'[s].pages, file[s].pages)
          /\ disk'[s].pages = disk[s].pages \/ disk'[s].pages = file'[s].pages
          /\ IsPrefix(file[s].log, file'[s].log)
          /\ disk'[s].log = disk[s].log \/ disk'[s].log = file[s].log
          /\ ~IsActive(s) => Len(file'[s].pages) = Len(file[s].pages)
    /\ \A s \in Segment : ~Exists(s) =>
          /\ file'[s] = disk'[s]
          /\ file'[s] # None => file'[s].log = << >>

\* What there is of a segment.
LEMMA FileIs ==
    ASSUME FilesInv, NEW s \in Segment, Exists(s)
    PROVE  /\ file[s] \in SegFile /\ disk[s] \in SegFile /\ disk[s] # None
           /\ file[s].pages \in Pages /\ disk[s].pages \in Pages
           /\ file[s].log \in Seq(Writer \cup {Torn}) /\ disk[s].log \in Seq(Writer \cup {Torn})
           /\ Later(file[s].pages, disk[s].pages) /\ IsPrefix(disk[s].log, file[s].log)
           /\ ToSet(disk[s].log) \subseteq ToSet(file[s].log)
<1>1. file[s] \in SegFile /\ disk[s] \in SegFile /\ disk[s] # None
    BY DEF FilesInv, Exists
<1>2. Later(file[s].pages, disk[s].pages) /\ IsPrefix(disk[s].log, file[s].log)
    BY DEF FilesInv
<1>3. file[s].log \in Seq(Writer \cup {Torn}) /\ disk[s].log \in Seq(Writer \cup {Torn})
    BY <1>1 DEF SegFile
<1> QED
    BY <1>1, <1>2, <1>3, PrefixOf DEF SegFile, Pages

LEMMA GrownIs ==
    ASSUME FilesInv, Grows, NEW s \in Segment, Exists(s)
    PROVE  /\ Exists(s)' /\ file'[s] \in SegFile /\ disk'[s] \in SegFile /\ disk'[s] # None
           /\ file'[s].pages \in Pages /\ disk'[s].pages \in Pages
           /\ Later(file'[s].pages, file[s].pages) /\ Later(disk'[s].pages, disk[s].pages)
           /\ Later(file'[s].pages, disk'[s].pages) /\ IsPrefix(disk'[s].log, file'[s].log)
           /\ ToSet(file[s].log) \subseteq ToSet(file'[s].log)
           /\ ToSet(disk[s].log) \subseteq ToSet(disk'[s].log)
<1>1. /\ file'[s] # None /\ disk'[s] # None
      /\ file'[s] \in SegFile /\ disk'[s] \in SegFile
      /\ Later(file'[s].pages, file[s].pages)
      /\ disk'[s].pages = disk[s].pages \/ disk'[s].pages = file'[s].pages
      /\ IsPrefix(file[s].log, file'[s].log)
      /\ disk'[s].log = disk[s].log \/ disk'[s].log = file[s].log
    BY DEF Grows
<1>2. /\ file'[s].pages \in Pages /\ disk'[s].pages \in Pages
      /\ file'[s].log \in Seq(Writer \cup {Torn}) /\ disk'[s].log \in Seq(Writer \cup {Torn})
    BY <1>1 DEF SegFile, Pages
<1>3. Later(file'[s].pages, disk'[s].pages) /\ Later(disk'[s].pages, disk[s].pages)
  <2>1. CASE disk'[s].pages = disk[s].pages
    <3>1. Later(file'[s].pages, disk[s].pages)
        BY <1>1, <1>2, FileIs, LaterThan
    <3> QED
        BY <2>1, <3>1, FileIs, LaterItself
  <2>2. CASE disk'[s].pages = file'[s].pages
    <3>1. Later(file'[s].pages, disk[s].pages)
        BY <1>1, <1>2, FileIs, LaterThan
    <3> QED
        BY <1>2, <2>2, <3>1, LaterItself
  <2> QED
      BY <1>1, <2>1, <2>2
<1>4. IsPrefix(disk[s].log, file'[s].log)
    BY <1>1, <1>2, FileIs, PrefixThan
<1>5. IsPrefix(disk'[s].log, file'[s].log) /\ ToSet(disk[s].log) \subseteq ToSet(disk'[s].log)
    BY <1>1, <1>4, FileIs
<1>6. ToSet(file[s].log) \subseteq ToSet(file'[s].log)
    BY <1>1, <1>2, FileIs, PrefixOf
<1> QED
    BY <1>1, <1>2, <1>3, <1>5, <1>6 DEF Exists

LEMMA GrowsKeepsFiles ==
    ASSUME FilesInv, Grows
    PROVE  FilesInv'
<1>1. ASSUME NEW s \in Segment
      PROVE  /\ Exists(s)' <=> disk'[s] # None
             /\ Exists(s)' => /\ Later(file'[s].pages, disk'[s].pages)
                              /\ IsPrefix(disk'[s].log, file'[s].log)
  <2>1. CASE Exists(s)
      BY <2>1, GrownIs
  <2>2. CASE ~Exists(s)
    <3>1. file'[s] = disk'[s]
        BY <2>2 DEF Grows
    <3>2. ASSUME file'[s] # None
          PROVE  file'[s].pages \in Pages /\ file'[s].log \in Seq(Writer \cup {Torn})
        BY <3>2 DEF Grows, SegFile, Pages
    <3> QED
        BY <3>1, <3>2, LaterItself, PrefixItself DEF Exists
  <2> QED
      BY <2>1, <2>2
<1> QED
    BY <1>1 DEF FilesInv, Grows

\* What the engine has of a segment are pages.
LEMMA ContentIs ==
    ASSUME FilesInv, EngineInv, NEW s \in Segment, Exists(s)
    PROVE  Content(s) \in Pages
<1>1. file[s].pages \in Pages
    BY FileIs
<1>2. ASSUME IsActive(s) PROVE active.buffer \in Pages
  <2>1. active.buffer \in Seq(Page)
      BY <1>2 DEF EngineInv, IsActive, SegActive
  <2> QED
      BY <2>1 DEF Pages
<1> QED
    BY <1>1, <1>2, LaterAppended DEF Content

LEMMA GrownContentIs ==
    ASSUME FilesInv, EngineInv', Grows, NEW s \in Segment, Exists(s)
    PROVE  Content(s)' \in Pages
<1>1. file'[s].pages \in Pages
    BY GrownIs
<1>2. ASSUME IsActive(s)' PROVE active'.buffer \in Pages
  <2>1. active'.buffer \in Seq(Page)
      BY <1>2 DEF EngineInv, IsActive, SegActive
  <2> QED
      BY <2>1 DEF Pages
<1> QED
    BY <1>1, <1>2, LaterAppended DEF Content

\* A chunk that is on the disk stays there, and named.
LEMMA DiskKeepsChunk ==
    ASSUME FilesInv, Grows, CallsInv, NEW s \in Segment, Exists(s),
           NEW w \in Writer, NEW i \in DOMAIN placed[w],
           HasNamed(disk[s].pages, placed[w][i].at, w, i)
    PROVE  HasNamed(disk'[s].pages, placed[w][i].at, w, i)
<1>1. HasChunk(disk'[s].pages, placed[w][i].at, w, i)
    BY FileIs, GrownIs, ChunkStays DEF HasNamed
<1>2. placed[w][i].at \in DOMAIN disk[s].pages /\ disk[s].pages[placed[w][i].at] # Torn
    BY FileIs, FirstPage DEF HasNamed
<1>3. disk'[s].pages[placed[w][i].at].named
    BY <1>2, FileIs, GrownIs, NamedStays DEF HasNamed
<1> QED
    BY <1>1, <1>3 DEF HasNamed

\* What the engine has of a segment is not lost, unless its buffer is.
ContentGrows ==
    \A s \in Segment : Exists(s) /\ ~BufferLost(s)' =>
        ~BufferLost(s) /\ Later(Content(s)', Content(s))

Settled == {"syncLog", "returned", "failed"}

\* The locals of other writers than t.
OthersRest(t) ==
    \A u \in Writer \ {t} :
        /\ pc'[u] = pc[u] /\ placed'[u] = placed[u]
        /\ patched'[u] = patched[u] /\ seen'[u] = seen[u]

LocalsTyped ==
    /\ pc \in [Writer -> Step] /\ placed \in [Writer -> Seq(Place)]
    /\ patched \in [Writer -> Nat] /\ seen \in [Writer -> BOOLEAN]
    /\ mu \in Writer \cup {None}

\* A step of writer t, or of nobody, in which the others do not lose anything.
Steady(t) ==
    /\ Grows /\ EngineInv' /\ LocalsTyped' /\ OthersRest(t) /\ ContentGrows
    /\ \A u \in Writer \ {t} : (mu' = u <=> mu = u) /\ (mu = u => active' = active)
    /\ active # None => active' # None
    /\ spent'.powerLosses = spent.powerLosses
    /\ t \in Writer /\ pc[t] \in Settled => pc'[t] \in Settled /\ placed'[t] = placed[t]
    /\ t \in Writer /\ pc[t] = "returned" => pc'[t] = "returned"

LEMMA OthersCallsStay ==
    ASSUME SegInv, NEW t, Steady(t), NEW u \in Writer \ {t}
    PROVE  CallOK(u)'
<1>1. /\ pc'[u] = pc[u] /\ placed'[u] = placed[u] /\ patched'[u] = patched[u]
      /\ seen'[u] = seen[u] /\ (mu' = u <=> mu = u)
      /\ active # None => active' # None
    BY DEF Steady, OthersRest
<1>2. CallOK(u)
    BY DEF SegInv, CallsInv
<1>3. ASSUME NEW i \in DOMAIN placed[u] PROVE file'[placed[u][i].seg] # None
  <2>1. placed[u][i].seg \in Segment /\ Exists(placed[u][i].seg)
      BY <1>2, PlaceIs DEF SegInv, CallOK
  <2> QED
      BY <2>1, GrownIs DEF SegInv, Steady, Exists
<1>4. \A i \in DOMAIN placed'[u] : Exists(placed[u][i].seg)'
    BY <1>1, <1>3 DEF Exists
<1>5. Busy(u)' <=> Busy(u)
    BY <1>1 DEF Busy
<1>6. pc'[u] # "patchFlag" => seen'[u] = FALSE
    BY <1>1, <1>2 DEF CallOK
<1> QED
    BY <1>1, <1>2, <1>4, <1>5, <1>6 DEF CallOK

LEMMA OthersChunksStay ==
    ASSUME SegInv, NEW t, Steady(t), NEW u \in Writer \ {t},
           NEW i \in DOMAIN placed[u], NEW s, NEW at,
           s = placed[u][i].seg, at = placed[u][i].at
    PROVE  ChunkOK(u, i)'
<1>1. /\ pc'[u] = pc[u] /\ placed'[u] = placed[u] /\ patched'[u] = patched[u]
      /\ mu = u => active' = active
    BY DEF Steady, OthersRest
<1>2. /\ s \in Segment /\ Exists(s) /\ ChunkOK(u, i)
      /\ CallsInv /\ FilesInv /\ Grows /\ EngineInv'
      /\ pc[u] \in {"log", "syncLog"} <=> mu = u
    BY PlaceIs DEF SegInv, CallsInv, CallOK, ChunksInv, Steady
<1>a. FilesInv /\ EngineInv /\ FilesInv' /\ EngineInv' /\ Exists(s)'
    BY <1>2, GrowsKeepsFiles, GrownIs DEF SegInv
<1>b. /\ file[s].pages \in Pages /\ file'[s].pages \in Pages
      /\ Later(file'[s].pages, file[s].pages)
    BY <1>2, FileIs, GrownIs
<1>3. ASSUME pc[u] \in Unwritten, ~BufferLost(s)'
      PROVE  HasChunk(Content(s)', at, u, i)
  <2>1. ~BufferLost(s) /\ Later(Content(s)', Content(s))
      BY <1>2, <1>3 DEF Steady, ContentGrows
  <2>2. HasChunk(Content(s), at, u, i)
      BY <1>2, <1>3, <2>1 DEF ChunkOK
  <2>3. Content(s) \in Pages /\ Content(s)' \in Pages
      BY <1>2, <1>a, ContentIs, GrownContentIs
  <2> QED
      BY <2>1, <2>2, <2>3, ChunkStays
<1>4. ASSUME pc[u] \in Writing
      PROVE  HasChunk(file'[s].pages, at, u, i)
  <2>1. HasChunk(file[s].pages, at, u, i)
      BY <1>2, <1>4 DEF ChunkOK
  <2> QED
      BY <1>b, <2>1, ChunkStays
<1>5. ASSUME pc[u] \in Writing, IsNamed(u, i)
      PROVE  file'[s].pages[at].named
  <2>1. HasChunk(file[s].pages, at, u, i) /\ file[s].pages[at].named
      BY <1>2, <1>5 DEF ChunkOK
  <2>2. at \in DOMAIN file[s].pages /\ file[s].pages[at] # Torn
    <3>1. CallsInv /\ HasChunk(file[s].pages, at, u, i)
        BY <1>2, <2>1
    <3> QED
        BY <3>1, FirstPage
  <2> QED
      BY <1>b, <2>1, <2>2, NamedStays
<1>6. ASSUME pc[u] \in {"log", "syncLog"}, IsActive(s)'
      PROVE  HasNamed(disk'[s].pages, at, u, i)
  <2>1. IsActive(s)
      BY <1>1, <1>2, <1>6 DEF IsActive
  <2>2. HasNamed(disk[s].pages, at, u, i)
      BY <1>2, <1>6, <2>1 DEF ChunkOK
  <2> QED
      BY <1>2, <2>2, DiskKeepsChunk
<1> QED
    BY <1>1, <1>3, <1>4, <1>5, <1>6 DEF ChunkOK, IsNamed

\* What a log says stays true, for a call that is over or on its last step.
LEMMA EntriesStay ==
    ASSUME SegInv, Grows, spent'.powerLosses = spent.powerLosses,
           NEW w \in Writer, NEW s \in Segment, LoggedIn(w, s),
           placed'[w] = placed[w], pc'[w] \in Settled
    PROVE  EntryOK(w, s)'
<1>1. /\ FilesInv /\ EngineInv /\ CallsInv /\ EntryOK(w, s) /\ Exists(s)
    BY DEF SegInv, LogsInv, LoggedIn
<1>2. ASSUME NEW i \in DOMAIN placed[w], NEW q, NEW at,
             q = placed[w][i].seg, at = placed[w][i].at
      PROVE  /\ q <= s
             /\ q = s => HasNamed(disk'[s].pages, at, w, i)
             /\ spent.powerLosses = 0 => HasNamed(file'[q].pages, at, w, i)
             /\ at \in 1..Len(file'[q].pages) /\ file'[q].pages[at] # Torn
                   => file'[q].pages[at].of = w
  <2>1. q \in Segment /\ Exists(q) /\ at \in Nat \ {0}
      BY <1>1, <1>2, PlaceIs DEF CallsInv, CallOK
  <2>2. /\ q <= s
        /\ q = s => HasNamed(disk[s].pages, at, w, i)
        /\ spent.powerLosses = 0 => HasNamed(file[q].pages, at, w, i)
        /\ IsPage(placed[w][i]) => PageAt(placed[w][i]).of = w
      BY <1>1, <1>2 DEF EntryOK
  <2>3. /\ file[q].pages \in Pages /\ file'[q].pages \in Pages
        /\ Later(file'[q].pages, file[q].pages)
      BY <1>1, <2>1, FileIs, GrownIs
  <2>4. q = s => HasNamed(disk'[s].pages, at, w, i)
      BY <1>1, <1>2, <2>2, DiskKeepsChunk
  <2>5. ASSUME spent.powerLosses = 0 PROVE HasNamed(file'[q].pages, at, w, i)
    <3>1. HasChunk(file[q].pages, at, w, i) /\ file[q].pages[at].named
        BY <2>2, <2>5 DEF HasNamed
    <3>2. at \in DOMAIN file[q].pages /\ file[q].pages[at] # Torn
        BY SMTT(30), <1>1, <1>2, <3>1, FirstPage
    <3> QED
        BY <2>3, <3>1, <3>2, ChunkStays, NamedStays DEF HasNamed
  <2>6. ASSUME at \in 1..Len(file'[q].pages), file'[q].pages[at] # Torn
        PROVE  file'[q].pages[at].of = w
    <3>1. at \in 1..Len(file[q].pages)
      <4>1. CASE q = s
        <5>1. at \in DOMAIN disk[s].pages
            BY <1>1, <1>2, <2>2, <4>1, FirstPage DEF HasNamed
        <5>2. Later(file[s].pages, disk[s].pages) /\ disk[s].pages \in Pages
            BY <1>1, FileIs
        <5> QED
            BY <2>3, <4>1, <5>1, <5>2 DEF Later, Pages
      <4>2. CASE q # s
        <5>1. ~IsActive(q)
          <6>1. q < s
              BY <2>1, <2>2, <4>2 DEF Segment
          <6>2. active # None => s <= active.seq /\ active.seq \in Segment
              BY <1>1 DEF EngineInv, SegActive
          <6> QED
              BY <2>1, <6>1, <6>2 DEF IsActive, Segment
        <5>2. Len(file'[q].pages) = Len(file[q].pages)
            BY <2>1, <5>1 DEF Grows
        <5> QED
            BY <2>6, <5>2
      <4> QED
          BY <4>1, <4>2
    <3>2. Follows(file'[q].pages[at], file[q].pages[at])
        BY <2>3, <3>1 DEF Later, Pages
    <3>3. file[q].pages[at] # Torn
        BY <2>6, <3>2 DEF Follows
    <3>4. file[q].pages[at].of = w
        BY <1>2, <2>1, <2>2, <3>1, <3>3 DEF IsPage, PageAt
    <3> QED
        BY <3>2, <3>3, <3>4 DEF Follows
  <2> QED
      BY <2>2, <2>4, <2>5, <2>6
<1>3. Len(placed[w]) = Len(PagesOf[w])
    BY <1>1 DEF EntryOK
<1>4. ASSUME NEW i \in DOMAIN placed'[w]
      PROVE  /\ placed'[w][i].seg <= s
             /\ placed'[w][i].seg = s => HasNamed(disk'[s].pages, placed'[w][i].at, w, i)
             /\ spent'.powerLosses = 0 =>
                   HasNamed(file'[placed'[w][i].seg].pages, placed'[w][i].at, w, i)
             /\ IsPage(placed[w][i])' => PageAt(placed[w][i])'.of = w
    BY <1>2, <1>4 DEF IsPage, PageAt
<1> QED
    BY <1>3, <1>4 DEF EntryOK, Settled

\* A returned call stays in a log.
LEMMA ReturnedStays ==
    ASSUME SegInv, Grows, NEW w \in Writer, pc[w] = "returned"
    PROVE  \E s \in Segment : Exists(s)' /\ w \in ToSet(disk'[s].log)
<1>1. PICK s \in Segment : Exists(s) /\ w \in ToSet(disk[s].log)
    BY DEF SegInv, LogsInv
<1>2. Exists(s)' /\ w \in ToSet(disk'[s].log)
    BY <1>1, GrownIs DEF SegInv
<1> QED
    BY <1>2

\* A mark stays, if the flag in the file does.
LEMMA MarksStay ==
    ASSUME SegInv, Grows, NEW place \in marked,
           file'[place.seg].pages[place.at].deleted,
           \A w \in Writer : pc[w] = "returned" => pc'[w] = "returned" /\ placed'[w] = placed[w]
    PROVE  MarkOK(place)'
<1> DEFINE s  == place.seg
           at == place.at
<1>1. MarkOK(place) /\ FilesInv /\ CallsInv
    BY DEF SegInv, MarksInv
<1>2. PICK w \in Writer : /\ pc[w] = "returned" /\ PageAt(place).of = w
                          /\ \E i \in DOMAIN placed[w] : place = placed[w][i]
    BY <1>1 DEF MarkOK
<1>3. s \in Segment /\ Exists(s)
  <2>1. PICK i \in DOMAIN placed[w] : place = placed[w][i]
      BY <1>2
  <2>2. Exists(placed[w][i].seg)
      BY <1>1 DEF CallsInv, CallOK
  <2> QED
      BY <1>1, <2>1, <2>2, PlaceIs
<1>4. /\ file[s].pages \in Pages /\ disk[s].pages \in Pages /\ disk'[s].pages \in Pages
      /\ Later(file[s].pages, disk[s].pages) /\ Later(file'[s].pages, file[s].pages)
      /\ Later(disk'[s].pages, disk[s].pages)
    BY <1>1, <1>3, FileIs, GrownIs
<1>5. at \in DOMAIN disk[s].pages /\ disk[s].pages[at] # Torn /\ disk[s].pages[at].deleted
    BY <1>1 DEF MarkOK
<1>6. at \in DOMAIN file[s].pages /\ file[s].pages[at] # Torn /\ at \in DOMAIN disk'[s].pages
      /\ disk'[s].pages[at] # Torn
  <2>1. at \in DOMAIN file[s].pages /\ file[s].pages[at] # Torn
      BY <1>4, <1>5, LaterHas
  <2>2. at \in DOMAIN disk'[s].pages /\ disk'[s].pages[at] # Torn
      BY <1>4, <1>5, LaterHas
  <2> QED
      BY <2>1, <2>2
<1>7. file'[s].pages[at].of = file[s].pages[at].of
  <2>1. file'[s].pages \in Pages
      BY <1>1, <1>3, GrownIs
  <2> QED
      BY <1>4, <1>6, <2>1, LaterHas
<1>8. disk'[s].pages[at].deleted
  <2>1. disk'[s].pages = disk[s].pages \/ disk'[s].pages = file'[s].pages
      BY <1>3 DEF Grows
  <2> QED
      BY <1>5, <2>1
<1>9. /\ pc'[w] = "returned" /\ file'[s].pages[at].of = w
      /\ \E i \in DOMAIN placed'[w] : place = placed'[w][i]
    BY <1>2, <1>7 DEF PageAt
<1> QED
    BY <1>6, <1>8, <1>9 DEF MarkOK, PageAt

\* The invariant after a steady step: what remains to be shown is about its writer.
LEMMA SteadyKeeps ==
    ASSUME SegInv, NEW t, Steady(t),
           t \in Writer => CallOK(t)' /\ \A i \in DOMAIN placed'[t] : ChunkOK(t, i)',
           \A w \in Writer, s \in Segment :
               LoggedIn(w, s)' => LoggedIn(w, s) \/ (w = t /\ EntryOK(w, s)'),
           t \in Writer /\ pc'[t] = "syncLog" => LoggedIn(t, active.seq)',
           t \in Writer /\ pc[t] # "returned" /\ pc'[t] = "returned" =>
               \E s \in Segment : Exists(s)' /\ t \in ToSet(disk'[s].log),
           \A place \in marked' :
               \/ place \in marked /\ file'[place.seg].pages[place.at].deleted
               \/ MarkOK(place)'
    PROVE  SegInv'
<1>1. FilesInv /\ FilesInv' /\ EngineInv' /\ Grows
    BY GrowsKeepsFiles DEF SegInv, Steady
<1>2. CallsInv'
  <2>1. \A u \in Writer : CallOK(u)'
      BY OthersCallsStay
  <2> QED
      BY <2>1 DEF CallsInv, Steady, LocalsTyped
<1>3. ChunksInv'
  <2>1. ASSUME NEW u \in Writer, u # t, NEW i \in DOMAIN placed'[u] PROVE ChunkOK(u, i)'
    <3>1. placed'[u] = placed[u]
        BY <2>1 DEF Steady, OthersRest
    <3> QED
        BY <2>1, <3>1, OthersChunksStay
  <2> QED
      BY <2>1 DEF ChunksInv
<1>4. ASSUME NEW w \in Writer, NEW s \in Segment, LoggedIn(w, s)
      PROVE  placed'[w] = placed[w] /\ pc'[w] \in Settled
  <2>1. pc[w] \in Settled
      BY <1>4 DEF SegInv, LogsInv, EntryOK, Settled
  <2> QED
      BY <2>1 DEF Steady, OthersRest
<1>5. \A w \in Writer, s \in Segment : LoggedIn(w, s)' => EntryOK(w, s)'
    BY <1>1, <1>4, EntriesStay DEF Steady
<1>6. ASSUME NEW w \in Writer, pc'[w] = "syncLog" PROVE LoggedIn(w, active.seq)'
  <2>1. CASE w # t
    <3>1. pc[w] = "syncLog" /\ mu = w
        BY <1>6, <2>1 DEF Steady, OthersRest, SegInv, CallsInv, CallOK
    <3>2. LoggedIn(w, active.seq) /\ active' = active
        BY <2>1, <3>1 DEF SegInv, LogsInv, Steady
    <3>3. active.seq \in Segment
      <4>1. active # None
          BY <3>1, GoingOn DEF SegInv
      <4> QED
          BY <4>1 DEF SegInv, EngineInv, SegActive
    <3> QED
        BY <1>1, <3>2, <3>3, GrownIs DEF LoggedIn
  <2> QED
      BY <1>6, <2>1
<1>7. ASSUME NEW w \in Writer, pc'[w] = "returned"
      PROVE  \E s \in Segment : Exists(s)' /\ w \in ToSet(disk'[s].log)
  <2>1. pc[w] = "returned" \/ w = t
      BY <1>7 DEF Steady, OthersRest
  <2> QED
      BY <1>1, <1>7, <2>1, ReturnedStays
<1>8. LogsInv'
    BY <1>5, <1>6, <1>7 DEF LogsInv
<1>9. \A w \in Writer : pc[w] = "returned" => pc'[w] = "returned" /\ placed'[w] = placed[w]
    BY DEF Steady, OthersRest, Settled
<1>10. MarksInv'
    BY <1>1, <1>9, MarksStay DEF MarksInv
<1> QED
    BY <1>1, <1>2, <1>3, <1>8, <1>10 DEF SegInv

-----------------------------------------------------------------------------
(* What steps do to the files                                              *)

\* Nothing new is logged, and no flag is taken back.
SameLogs == \A w \in Writer, s \in Segment : LoggedIn(w, s)' => LoggedIn(w, s)
FlagsStay == \A place \in marked : file'[place.seg].pages[place.at].deleted

LEMMA MarkIs ==
    ASSUME SegInv, NEW place \in marked
    PROVE  /\ place.seg \in Segment /\ Exists(place.seg)
           /\ place.at \in DOMAIN disk[place.seg].pages
           /\ place.at \in DOMAIN file[place.seg].pages
           /\ file[place.seg].pages[place.at] # Torn
           /\ file[place.seg].pages[place.at].deleted
           /\ \E w \in Writer : /\ pc[w] = "returned"
                                /\ file[place.seg].pages[place.at].of = w
<1>1. MarkOK(place) /\ FilesInv /\ CallsInv
    BY DEF SegInv, MarksInv
<1>2. PICK u \in Writer : \E i \in DOMAIN placed[u] : place = placed[u][i]
    BY <1>1 DEF MarkOK
<1>3. place.seg \in Segment /\ Exists(place.seg)
  <2>0. PICK i \in DOMAIN placed[u] : place = placed[u][i]
      BY <1>2
  <2>1. Exists(placed[u][i].seg)
      BY <1>1 DEF CallsInv, CallOK
  <2> QED
      BY <1>1, <2>0, <2>1, PlaceIs
<1>4. /\ Later(file[place.seg].pages, disk[place.seg].pages)
      /\ file[place.seg].pages \in Pages /\ disk[place.seg].pages \in Pages
    BY <1>1, <1>3, FileIs
<1>5. place.at \in DOMAIN disk[place.seg].pages /\ disk[place.seg].pages[place.at] # Torn
    BY <1>1 DEF MarkOK
<1>6. place.at \in DOMAIN file[place.seg].pages /\ file[place.seg].pages[place.at] # Torn
    BY <1>4, <1>5 DEF Later, Follows, Pages
<1>7. /\ file[place.seg].pages[place.at].deleted
      /\ \E w \in Writer : /\ pc[w] = "returned"
                           /\ file[place.seg].pages[place.at].of = w
    BY <1>1 DEF MarkOK, PageAt
<1> QED
    BY <1>3, <1>5, <1>6, <1>7

LEMMA NothingWritten ==
    ASSUME SegInv, UNCHANGED fileVars
    PROVE  Grows /\ SameLogs /\ FlagsStay
<1>1. file' = file /\ disk' = disk
    BY DEF fileVars
<1>2. ASSUME NEW s \in Segment, Exists(s)
      PROVE  Later(file[s].pages, file[s].pages) /\ IsPrefix(file[s].log, file[s].log)
    BY <1>2, FileIs, LaterItself, PrefixItself DEF SegInv
<1>3. file \in [Segment -> SegFile \cup {None}] /\ disk \in [Segment -> SegFile \cup {None}]
      /\ \A s \in Segment : ~Exists(s) => disk[s] = None /\ file[s] = None
    BY DEF SegInv, FilesInv, Exists
<1>4. Grows
  <2>1. ASSUME NEW s \in Segment, Exists(s)
        PROVE  /\ file'[s] # None /\ disk'[s] # None
               /\ Later(file'[s].pages, file[s].pages)
               /\ disk'[s].pages = disk[s].pages
               /\ IsPrefix(file[s].log, file'[s].log)
               /\ disk'[s].log = disk[s].log
               /\ Len(file'[s].pages) = Len(file[s].pages)
      BY <1>1, <1>2, <2>1, FileIs DEF Exists, SegInv
  <2>2. ASSUME NEW s \in Segment, ~Exists(s)
        PROVE  file'[s] = disk'[s] /\ file'[s] = None
      BY <1>1, <1>3, <2>2
  <2> QED
      BY <1>1, <1>3, <2>1, <2>2 DEF Grows
<1>5. SameLogs
    BY <1>1 DEF SameLogs, LoggedIn, Exists
<1>6. FlagsStay
    BY <1>1, MarkIs DEF FlagsStay
<1> QED
    BY <1>4, <1>5, <1>6

\* One segment changes, as Grows says.
LEMMA OneGrows ==
    ASSUME FilesInv, NEW q \in Segment, Exists(q), NEW f \in SegFile, NEW d \in SegFile,
           file' \in [Segment -> SegFile \cup {None}], file'[q] = f,
           disk' \in [Segment -> SegFile \cup {None}], disk'[q] = d,
           \A s \in Segment : s # q => file'[s] = file[s] /\ disk'[s] = disk[s],
           Later(f.pages, file[q].pages), IsPrefix(file[q].log, f.log),
           d.pages = disk[q].pages \/ d.pages = f.pages,
           d.log = disk[q].log \/ d.log = file[q].log,
           ~IsActive(q) => Len(f.pages) = Len(file[q].pages)
    PROVE  Grows
<1>1. /\ file \in [Segment -> SegFile \cup {None}] /\ disk \in [Segment -> SegFile \cup {None}]
      /\ \A s \in Segment : ~Exists(s) => disk[s] = None /\ file[s] = None
    BY DEF FilesInv, Exists
<1>2. f # None /\ d # None
    BY SegmentNoneAssumption
<1>3. ASSUME NEW s \in Segment, Exists(s)
      PROVE  /\ Later(file[s].pages, file[s].pages) /\ IsPrefix(file[s].log, file[s].log)
             /\ disk[s] # None
    BY <1>3, FileIs, LaterItself, PrefixItself
<1>4. ASSUME NEW s \in Segment, Exists(s)
      PROVE  /\ file'[s] # None /\ disk'[s] # None
             /\ Later(file'[s].pages, file[s].pages)
             /\ disk'[s].pages = disk[s].pages \/ disk'[s].pages = file'[s].pages
             /\ IsPrefix(file[s].log, file'[s].log)
             /\ disk'[s].log = disk[s].log \/ disk'[s].log = file[s].log
             /\ ~IsActive(s) => Len(file'[s].pages) = Len(file[s].pages)
  <2>1. CASE s = q
      BY <1>2, <2>1
  <2>2. CASE s # q
      BY <1>2, <1>3, <1>4, <2>2 DEF Exists
  <2> QED
      BY <2>1, <2>2
<1>5. ASSUME NEW s \in Segment, ~Exists(s)
      PROVE  file'[s] = None /\ disk'[s] = None
    BY <1>1, <1>2, <1>5
<1> QED
    BY <1>4, <1>5 DEF Grows

\* The buffer, or what got out of it, is written behind the active segment.
LEMMA Written ==
    ASSUME SegInv, active # None, NEW out \in Pages, file' = Flushed(out),
           disk' = disk \/ disk' = Synced(active.seq, file')
    PROVE  /\ Grows /\ SameLogs /\ FlagsStay
           /\ file'[active.seq].pages = file[active.seq].pages \o out
           /\ \A s \in Segment : s # active.seq => file'[s] = file[s]
           /\ disk' # disk => disk'[active.seq].pages = file'[active.seq].pages
<1> DEFINE q == active.seq
           f == [file[q] EXCEPT !.pages = file[q].pages \o out]
           d == [disk[q] EXCEPT !.pages = f.pages]
<1>1. q \in Segment /\ Exists(q) /\ IsActive(q) /\ FilesInv
    BY DEF SegInv, EngineInv, SegActive, IsActive
<1>2. /\ file[q] \in SegFile /\ disk[q] \in SegFile /\ file[q].pages \in Pages
      /\ file[q].log \in Seq(Writer \cup {Torn})
    BY <1>1, FileIs
<1>3. file[q].pages \o out \in Pages /\ Later(file[q].pages \o out, file[q].pages)
    BY <1>2, LaterAppended
<1>4. /\ f \in SegFile /\ f.pages = file[q].pages \o out /\ f.log = file[q].log
      /\ d \in SegFile /\ d.pages = f.pages /\ d.log = disk[q].log
    BY <1>2, <1>3 DEF SegFile, Pages
<1>5. file' = [file EXCEPT ![q] = f]
    BY DEF Flushed
<1>6. /\ file' \in [Segment -> SegFile \cup {None}] /\ file'[q] = f
      /\ \A s \in Segment : s # q => file'[s] = file[s]
    BY <1>1, <1>4, <1>5 DEF FilesInv
<1>7. /\ disk' \in [Segment -> SegFile \cup {None}]
      /\ disk'[q] = disk[q] \/ disk'[q] = d
      /\ disk' # disk => disk'[q] = d
      /\ \A s \in Segment : s # q => disk'[s] = disk[s]
  <2>1. CASE disk' = disk
      BY <1>1, <2>1 DEF FilesInv
  <2>2. CASE disk' = Synced(q, file')
    <3>1. disk' = [disk EXCEPT ![q] = d]
        BY <1>6, <2>2 DEF Synced
    <3> QED
        BY <1>1, <1>4, <3>1 DEF FilesInv
  <2> QED
      BY <2>1, <2>2
<1>8. Later(f.pages, file[q].pages) /\ IsPrefix(file[q].log, f.log)
  <2>1. IsPrefix(file[q].log, file[q].log)
      BY <1>2, PrefixItself
  <2> QED
      BY <1>3, <1>4, <2>1
<1> HIDE DEF q, f, d
<1>9. Grows
  <2>1. CASE disk'[q] = disk[q]
      BY <1>1, <1>2, <1>4, <1>6, <1>7, <1>8, <2>1, OneGrows
  <2>2. CASE disk'[q] = d
      BY <1>1, <1>4, <1>6, <1>7, <1>8, <2>2, OneGrows
  <2> QED
      BY <1>7, <2>1, <2>2
<1>10. SameLogs
  <2>1. \A s \in Segment : Exists(s)' => Exists(s) /\ file'[s].log = file[s].log
      BY <1>1, <1>4, <1>6 DEF Exists
  <2> QED
      BY <2>1 DEF SameLogs, LoggedIn
<1>11. FlagsStay
  <2>1. ASSUME NEW place \in marked PROVE file'[place.seg].pages[place.at].deleted
    <3>1. /\ place.seg \in Segment /\ place.at \in DOMAIN file[place.seg].pages
          /\ file[place.seg].pages[place.at].deleted
        BY MarkIs
    <3>2. CASE place.seg = q
      <4>1. /\ place.at \in 1..Len(file[q].pages)
            /\ file'[q].pages = file[q].pages \o out
          BY <1>2, <1>4, <1>6, <3>1, <3>2 DEF Pages
      <4>2. file'[q].pages[place.at] = file[q].pages[place.at]
          BY <1>2, <4>1 DEF Pages
      <4> QED
          BY <3>1, <3>2, <4>2
    <3>3. CASE place.seg # q
        BY <1>6, <3>1, <3>3
    <3> QED
        BY <3>2, <3>3
  <2> QED
      BY <2>1 DEF FlagsStay
<1> QED
    BY <1>4, <1>6, <1>7, <1>9, <1>10, <1>11 DEF q

\* A page is written in place.
EditsPage(q, k, p) ==
    file' = [file EXCEPT ![q] = [file[q] EXCEPT !.pages = [file[q].pages EXCEPT ![k] = p]]]

LEMMA Edited ==
    ASSUME SegInv, NEW q \in Segment, Exists(q), NEW k \in DOMAIN file[q].pages,
           NEW p \in Page, Follows(p, file[q].pages[k]),
           EditsPage(q, k, p),
           disk' = disk \/ disk' = Synced(q, file')
    PROVE  /\ Grows /\ SameLogs
           /\ file'[q].pages = [file[q].pages EXCEPT ![k] = p]
           /\ \A s \in Segment : s # q => file'[s] = file[s]
           /\ \A s \in Segment : Exists(s) => Len(file'[s].pages) = Len(file[s].pages)
           /\ disk' # disk => disk'[q].pages = file'[q].pages
           /\ \A place \in marked :
                 ~(place.seg = q /\ place.at = k /\ ~p.deleted)
                    => file'[place.seg].pages[place.at].deleted
<1> DEFINE n == [file[q].pages EXCEPT ![k] = p]
           f == [file[q] EXCEPT !.pages = n]
           d == [disk[q] EXCEPT !.pages = n]
<1>1. FilesInv
    BY DEF SegInv
<1>2. /\ file[q] \in SegFile /\ disk[q] \in SegFile /\ file[q].pages \in Pages
      /\ file[q].log \in Seq(Writer \cup {Torn})
    BY <1>1, FileIs
<1>3. n \in Pages /\ Later(n, file[q].pages) /\ Len(n) = Len(file[q].pages)
    BY <1>2, PageIs, LaterEdited
<1>4. /\ f \in SegFile /\ f.pages = n /\ f.log = file[q].log
      /\ d \in SegFile /\ d.pages = n /\ d.log = disk[q].log
    BY <1>2, <1>3 DEF SegFile, Pages
<1>5. /\ file' \in [Segment -> SegFile \cup {None}] /\ file'[q] = f
      /\ \A s \in Segment : s # q => file'[s] = file[s]
    BY <1>1, <1>4 DEF FilesInv, EditsPage
<1>6. /\ disk' \in [Segment -> SegFile \cup {None}]
      /\ disk'[q] = disk[q] \/ disk'[q] = d
      /\ disk' # disk => disk'[q] = d
      /\ \A s \in Segment : s # q => disk'[s] = disk[s]
  <2>1. CASE disk' = disk
      BY <1>1, <2>1 DEF FilesInv
  <2>2. CASE disk' = Synced(q, file')
    <3>1. disk' = [disk EXCEPT ![q] = d]
        BY <1>4, <1>5, <2>2 DEF Synced
    <3> QED
        BY <1>1, <1>4, <3>1 DEF FilesInv
  <2> QED
      BY <2>1, <2>2
<1>p. \A j \in DOMAIN file[q].pages :
         file'[q].pages[j] = IF j = k THEN p ELSE file[q].pages[j]
    BY <1>2, <1>4, <1>5
<1>7. \A place \in marked : ~(place.seg = q /\ place.at = k /\ ~p.deleted)
                    => file'[place.seg].pages[place.at].deleted
  <2>1. ASSUME NEW place \in marked, ~(place.seg = q /\ place.at = k /\ ~p.deleted)
        PROVE  file'[place.seg].pages[place.at].deleted
    <3>1. /\ place.seg \in Segment /\ place.at \in DOMAIN file[place.seg].pages
          /\ file[place.seg].pages[place.at].deleted
        BY MarkIs
    <3>2. CASE place.seg # q
        BY <1>5, <3>1, <3>2
    <3>3. CASE place.seg = q /\ place.at # k
        BY <1>p, <3>1, <3>3
    <3>4. CASE place.seg = q /\ place.at = k
        BY <1>p, <2>1, <3>1, <3>4
    <3> QED
        BY <3>2, <3>3, <3>4
  <2> QED
      BY <2>1
<1>8. Later(f.pages, file[q].pages) /\ IsPrefix(file[q].log, f.log)
  <2>1. IsPrefix(file[q].log, file[q].log)
      BY <1>2, PrefixItself
  <2> QED
      BY <1>3, <1>4, <2>1
<1>n. file'[q].pages = [file[q].pages EXCEPT ![k] = p]
    BY <1>4, <1>5
<1>m. d.pages = f.pages /\ Len(f.pages) = Len(file[q].pages)
    BY <1>3, <1>4
<1> HIDE DEF n, f, d
<1>9. Grows
  <2>0. f \in SegFile /\ d \in SegFile /\ d.log = disk[q].log
      BY <1>4
  <2>1. CASE disk'[q] = disk[q]
      BY <1>1, <1>2, <1>5, <1>6, <1>8, <1>m, <2>0, <2>1, OneGrows
  <2>2. CASE disk'[q] = d
      BY <1>1, <1>5, <1>6, <1>8, <1>m, <2>0, <2>2, OneGrows
  <2> QED
      BY <1>6, <2>1, <2>2
<1>10. SameLogs
  <2>1. \A s \in Segment : Exists(s)' => Exists(s) /\ file'[s].log = file[s].log
      BY <1>4, <1>5 DEF Exists
  <2> QED
      BY <2>1 DEF SameLogs, LoggedIn
<1>11. \A s \in Segment : Exists(s) => Len(file'[s].pages) = Len(file[s].pages)
    BY <1>3, <1>4, <1>5
<1>12. disk' # disk => disk'[q].pages = file'[q].pages
    BY <1>4, <1>5, <1>6
<1> QED
    BY <1>5, <1>7, <1>9, <1>10, <1>11, <1>12, <1>n

\* An entry is written at the end of a log.
LEMMA LogAppended ==
    ASSUME SegInv, NEW q \in Segment, Exists(q), NEW e \in Writer \cup {Torn},
           file' = [file EXCEPT ![q].log = Append(@, e)], disk' = disk
    PROVE  /\ Grows /\ FlagsStay
           /\ \A s \in Segment : file'[s].pages = file[s].pages
           /\ \A w \in Writer, s \in Segment :
                 LoggedIn(w, s)' => LoggedIn(w, s) \/ (w = e /\ s = q)
           /\ e \in Writer => LoggedIn(e, q)'
<1> DEFINE f == [file[q] EXCEPT !.log = Append(file[q].log, e)]
<1>1. FilesInv
    BY DEF SegInv
<1>2. /\ file[q] \in SegFile /\ disk[q] \in SegFile /\ file[q].pages \in Pages
      /\ file[q].log \in Seq(Writer \cup {Torn})
    BY <1>1, FileIs
<1>3. /\ Append(file[q].log, e) \in Seq(Writer \cup {Torn})
      /\ IsPrefix(file[q].log, Append(file[q].log, e))
      /\ ToSet(Append(file[q].log, e)) = ToSet(file[q].log) \cup {e}
    BY <1>2, PrefixAppended
<1>4. f \in SegFile /\ f.pages = file[q].pages /\ f.log = Append(file[q].log, e)
    BY <1>2, <1>3 DEF SegFile
<1>5. file' = [file EXCEPT ![q] = f]
    OBVIOUS
<1>6. /\ file' \in [Segment -> SegFile \cup {None}] /\ file'[q] = f
      /\ \A s \in Segment : s # q => file'[s] = file[s]
    BY <1>1, <1>4, <1>5 DEF FilesInv
<1>7. Later(f.pages, file[q].pages) /\ IsPrefix(file[q].log, f.log)
    BY <1>2, <1>3, <1>4, LaterItself
<1>8. disk' \in [Segment -> SegFile \cup {None}] /\ disk' = disk
    BY <1>1 DEF FilesInv
<1> HIDE DEF f
<1>9. Grows
    BY <1>1, <1>2, <1>4, <1>6, <1>7, <1>8, OneGrows
<1>10. \A s \in Segment : file'[s].pages = file[s].pages
    BY <1>4, <1>6
<1>11. FlagsStay
    BY <1>10, MarkIs DEF FlagsStay
<1>12. ASSUME NEW w \in Writer, NEW s \in Segment, LoggedIn(w, s)'
       PROVE  LoggedIn(w, s) \/ (w = e /\ s = q)
  <2>1. CASE s = q
      BY <1>3, <1>4, <1>6, <1>12, <2>1 DEF LoggedIn
  <2>2. CASE s # q
      BY <1>6, <1>12, <2>2 DEF LoggedIn, Exists
  <2> QED
      BY <2>1, <2>2
<1>13. e \in Writer => LoggedIn(e, q)'
    BY <1>3, <1>4, <1>6, <1>9, <1>1, GrownIs DEF LoggedIn
<1> QED
    BY <1>9, <1>10, <1>11, <1>12, <1>13

\* A log is synced.
LEMMA LogSynced ==
    ASSUME SegInv, NEW q \in Segment, Exists(q),
           file' = file, disk' = [disk EXCEPT ![q].log = file[q].log]
    PROVE  Grows /\ SameLogs /\ FlagsStay /\ disk'[q].log = file[q].log
<1> DEFINE d == [disk[q] EXCEPT !.log = file[q].log]
<1>1. FilesInv
    BY DEF SegInv
<1>2. /\ file[q] \in SegFile /\ disk[q] \in SegFile /\ file[q].pages \in Pages
      /\ file[q].log \in Seq(Writer \cup {Torn})
    BY <1>1, FileIs
<1>3. d \in SegFile /\ d.pages = disk[q].pages /\ d.log = file[q].log
    BY <1>2 DEF SegFile
<1>4. disk' = [disk EXCEPT ![q] = d]
    OBVIOUS
<1>5. /\ disk' \in [Segment -> SegFile \cup {None}] /\ disk'[q] = d
      /\ \A s \in Segment : s # q => disk'[s] = disk[s]
    BY <1>1, <1>3, <1>4 DEF FilesInv
<1>6. Later(file[q].pages, file[q].pages) /\ IsPrefix(file[q].log, file[q].log)
    BY <1>2, LaterItself, PrefixItself
<1>7. file' \in [Segment -> SegFile \cup {None}] /\ file' = file
    BY <1>1 DEF FilesInv
<1> HIDE DEF d
<1>8. Grows
    BY <1>1, <1>2, <1>3, <1>5, <1>6, <1>7, OneGrows
<1>9. SameLogs
    BY <1>7 DEF SameLogs, LoggedIn, Exists
<1>10. FlagsStay
    BY <1>7, MarkIs DEF FlagsStay
<1> QED
    BY <1>3, <1>5, <1>8, <1>9, <1>10

\* The next segment is made, with nothing in it, after the active one was sealed.
LEMMA Made ==
    ASSUME SegInv, up, nextSeq \in Segment, NEW h \in SegFile, h.pages = << >>, h.log = << >>,
           file' = [(IF active = None THEN file ELSE Flushed(active.buffer))
                       EXCEPT ![nextSeq] = h],
           disk' = [disk EXCEPT ![nextSeq] = h]
    PROVE  /\ Grows /\ SameLogs /\ FlagsStay /\ ~Exists(nextSeq)
           /\ file'[nextSeq] = h
           /\ \A s \in Segment : Exists(s) => s < nextSeq /\ file'[s].pages = Content(s)
           /\ \A s \in Segment : Exists(s)' => Exists(s) \/ s = nextSeq
<1>1. FilesInv /\ EngineInv
    BY DEF SegInv
<1>2. \A s \in Segment : Exists(s) => s < nextSeq
    BY <1>1 DEF EngineInv
<1>3. ~Exists(nextSeq) /\ nextSeq \in Nat
    BY <1>2 DEF Segment
<1>4. ASSUME active # None
      PROVE  /\ active.seq \in Segment /\ Exists(active.seq) /\ active.seq # nextSeq
             /\ active.buffer \in Pages
  <2>1. active.seq \in Segment /\ active.buffer \in Seq(Page) /\ Exists(active.seq)
      BY <1>1, <1>4 DEF EngineInv, SegActive
  <2> QED
      BY <1>3, <2>1 DEF Pages
<1>5. ASSUME NEW s \in Segment, Exists(s)
      PROVE  /\ Content(s) \in Pages /\ Later(Content(s), file[s].pages)
             /\ file[s] \in SegFile /\ disk[s] \in SegFile /\ disk[s] # None
             /\ file[s].pages \in Pages /\ IsPrefix(file[s].log, file[s].log)
             /\ ~IsActive(s) => Len(Content(s)) = Len(file[s].pages)
  <2>1. /\ file[s] \in SegFile /\ disk[s] \in SegFile /\ file[s].pages \in Pages
        /\ disk[s] # None /\ IsPrefix(file[s].log, file[s].log)
      BY <1>1, <1>5, FileIs, PrefixItself
  <2>2. CASE IsActive(s)
      BY <1>4, <2>1, <2>2, LaterAppended DEF Content, IsActive
  <2>3. CASE ~IsActive(s)
      BY <2>1, <2>3, LaterItself DEF Content
  <2> QED
      BY <2>1, <2>2, <2>3
<1> DEFINE Sealed(s) == [file[s] EXCEPT !.pages = Content(s)]
<1>6. \A s \in Segment : Exists(s) =>
          /\ Sealed(s) \in SegFile /\ Sealed(s).pages = Content(s)
          /\ Sealed(s).log = file[s].log
    BY <1>5 DEF SegFile, Pages
<1>7. file'[nextSeq] = h /\ DOMAIN file' = Segment
  <2>1. CASE active = None
      BY <1>1, <2>1 DEF FilesInv
  <2>2. CASE active # None
      BY <1>1, <2>2 DEF FilesInv, Flushed
  <2> QED
      BY <2>1, <2>2
<1>8. ASSUME NEW s \in Segment, Exists(s)
      PROVE  file'[s] = Sealed(s)
  <2>1. s # nextSeq
      BY <1>3, <1>8
  <2>2. [file[s] EXCEPT !.pages = file[s].pages] = file[s]
      BY <1>5, <1>8 DEF SegFile
  <2>3. CASE active = None
    <3>1. file'[s] = file[s]
        BY <1>1, <2>1, <2>3 DEF FilesInv
    <3> QED
        BY <2>2, <2>3, <3>1 DEF Content, IsActive
  <2>4. CASE active # None /\ s = active.seq
    <3>1. file'[s] = [file[s] EXCEPT !.pages = file[s].pages \o active.buffer]
        BY <1>1, <2>1, <2>4 DEF FilesInv, Flushed
    <3> QED
        BY <2>4, <3>1 DEF Content, IsActive
  <2>5. CASE active # None /\ s # active.seq
    <3>1. file'[s] = file[s]
        BY <1>1, <2>1, <2>5 DEF FilesInv, Flushed
    <3> QED
        BY <2>2, <2>5, <3>1 DEF Content, IsActive
  <2> QED
      BY <2>3, <2>4, <2>5
<1>9. ASSUME NEW s \in Segment, ~Exists(s), s # nextSeq
      PROVE  file'[s] = None /\ disk'[s] = None
  <2>1. disk'[s] = None
      BY <1>1, <1>9 DEF FilesInv
  <2>2. file'[s] = file[s]
    <3>1. CASE active = None
        BY <1>1, <1>9, <3>1 DEF FilesInv
    <3>2. CASE active # None
        BY <1>1, <1>4, <1>9, <3>2 DEF FilesInv, Flushed
    <3> QED
        BY <3>1, <3>2
  <2> QED
      BY <1>9, <2>1, <2>2 DEF Exists
<1>10. /\ disk'[nextSeq] = h /\ disk' \in [Segment -> SegFile \cup {None}]
       /\ \A s \in Segment : Exists(s) => disk'[s] = disk[s]
    BY <1>1, <1>3 DEF FilesInv
<1>e. file' \in [Segment -> SegFile \cup {None}]
  <2>1. file' = [s \in Segment |-> file'[s]]
    <3>1. CASE active = None
        BY <1>1, <3>1 DEF FilesInv
    <3>2. CASE active # None
        BY <1>1, <3>2 DEF FilesInv, Flushed
    <3> QED
        BY <3>1, <3>2
  <2>2. \A s \in Segment : file'[s] \in SegFile \cup {None}
      BY ZenonT(40), <1>6, <1>7, <1>8, <1>9
  <2> QED
      BY <2>1, <2>2
<1>11. Grows
  <2>1. ASSUME NEW s \in Segment, Exists(s)
        PROVE  /\ file'[s] # None /\ disk'[s] # None
               /\ Later(file'[s].pages, file[s].pages)
               /\ disk'[s].pages = disk[s].pages
               /\ IsPrefix(file[s].log, file'[s].log)
               /\ disk'[s].log = disk[s].log
               /\ ~IsActive(s) => Len(file'[s].pages) = Len(file[s].pages)
    <3>1. file'[s] \in SegFile /\ file'[s].pages = Content(s) /\ file'[s].log = file[s].log
        BY <1>6, <1>8, <2>1
    <3>2. file'[s] # None
        BY <3>1, SegmentNoneAssumption
    <3> QED
        BY <1>5, <1>10, <2>1, <3>1, <3>2
  <2>2. ASSUME NEW s \in Segment, ~Exists(s)
        PROVE  file'[s] = disk'[s] /\ (file'[s] # None => file'[s].log = << >>)
      BY <1>7, <1>9, <1>10, <2>2
  <2> QED
      BY <1>10, <1>e, <2>1, <2>2 DEF Grows
<1>12. \A s \in Segment : Exists(s)' => Exists(s) \/ s = nextSeq
    BY <1>9 DEF Exists
<1>13. SameLogs
  <2>1. ASSUME NEW w \in Writer, NEW s \in Segment, LoggedIn(w, s)' PROVE LoggedIn(w, s)
    <3>1. Exists(s) \/ s = nextSeq
        BY <1>12, <2>1 DEF LoggedIn
    <3>2. s # nextSeq
        BY <1>7, <2>1 DEF LoggedIn, ToSet
    <3>3. file'[s].log = file[s].log
        BY <1>6, <1>8, <3>1, <3>2
    <3> QED
        BY <2>1, <3>1, <3>2, <3>3 DEF LoggedIn
  <2> QED
      BY <2>1 DEF SameLogs
<1>14. FlagsStay
  <2>1. ASSUME NEW place \in marked PROVE file'[place.seg].pages[place.at].deleted
    <3>1. /\ place.seg \in Segment /\ place.at \in DOMAIN file[place.seg].pages
          /\ Exists(place.seg) /\ file[place.seg].pages[place.at].deleted
        BY MarkIs
    <3>2. /\ file'[place.seg].pages = Content(place.seg) /\ file[place.seg].pages \in Pages
        BY <1>5, <1>6, <1>8, <3>1
    <3>3. Content(place.seg)[place.at] = file[place.seg].pages[place.at]
      <4>1. CASE IsActive(place.seg)
        <5>1. active.buffer \in Pages
            BY <1>4, <4>1 DEF IsActive
        <5>2. (file[place.seg].pages \o active.buffer)[place.at] = file[place.seg].pages[place.at]
            BY <3>1, <3>2, <5>1, LaterAppended
        <5> QED
            BY <4>1, <5>2 DEF Content
      <4>2. CASE ~IsActive(place.seg)
          BY <4>2 DEF Content
      <4> QED
          BY <4>1, <4>2
    <3> QED
        BY <3>1, <3>2, <3>3
  <2> QED
      BY <2>1 DEF FlagsStay
<1> QED
    BY ZenonT(40), <1>2, <1>3, <1>6, <1>7, <1>8, <1>11, <1>12, <1>13, <1>14

-----------------------------------------------------------------------------
(* Appending                                                               *)

\* The pages of a chunk are a chunk.
LEMMA NewPages ==
    ASSUME NEW w \in Writer, NEW i \in DOMAIN PagesOf[w]
    PROVE  /\ ChunkPages(w, i) \in Seq(Page) /\ Len(ChunkPages(w, i)) = PagesOf[w][i]
           /\ \A part \in 1..PagesOf[w][i] :
                 /\ ChunkPages(w, i)[part] # Torn /\ ChunkPages(w, i)[part].of = w
                 /\ ChunkPages(w, i)[part].chunk = i /\ ChunkPages(w, i)[part].part = part
<1>1. PagesOf[w] \in Seq(Nat \ {0})
    BY SegmentAssumption
<1>2. PagesOf[w][i] \in Nat /\ i \in Nat
    BY <1>1
<1>3. \A part \in 1..PagesOf[w][i] :
         [of |-> w, chunk |-> i, part |-> part, named |-> FALSE, deleted |-> FALSE] \in Page
    BY <1>2 DEF Page
<1>4. \A part \in 1..PagesOf[w][i] :
         ChunkPages(w, i)[part] =
            [of |-> w, chunk |-> i, part |-> part, named |-> FALSE, deleted |-> FALSE]
    BY DEF ChunkPages
<1>5. \A part \in 1..PagesOf[w][i] : ChunkPages(w, i)[part] # Torn
    BY <1>3, <1>4, SegmentNoneAssumption
<1>6. ChunkPages(w, i) \in [1..PagesOf[w][i] -> Page]
    BY <1>3 DEF ChunkPages
<1>7. ChunkPages(w, i) \in Seq(Page) /\ Len(ChunkPages(w, i)) = PagesOf[w][i]
    BY <1>2, <1>6
<1>8. ASSUME NEW part \in 1..PagesOf[w][i]
      PROVE  /\ ChunkPages(w, i)[part].of = w /\ ChunkPages(w, i)[part].chunk = i
             /\ ChunkPages(w, i)[part].part = part
  <2> DEFINE r == [of |-> w, chunk |-> i, part |-> part, named |-> FALSE, deleted |-> FALSE]
  <2>1. ChunkPages(w, i)[part] = r
      BY <1>4
  <2>2. r.of = w /\ r.chunk = i /\ r.part = part
      OBVIOUS
  <2> HIDE DEF r
  <2> QED
      BY <2>1, <2>2
<1> QED
    BY <1>5, <1>7, <1>8

\* Where the chunk is found in what the engine has then.
LEMMA AppendedChunk ==
    ASSUME NEW w \in Writer, NEW i \in DOMAIN PagesOf[w], NEW before \in Pages
    PROVE  /\ before \o ChunkPages(w, i) \in Pages
           /\ HasChunk(before \o ChunkPages(w, i), Len(before) + 1, w, i)
<1>1. /\ ChunkPages(w, i) \in Pages /\ Len(ChunkPages(w, i)) = PagesOf[w][i]
      /\ PagesOf[w][i] \in Nat
    BY NewPages DEF Pages
<1>2. ASSUME NEW part \in 1..PagesOf[w][i], NEW at, at = Len(before) + 1 + part - 1
      PROVE  /\ at \in DOMAIN (before \o ChunkPages(w, i))
             /\ (before \o ChunkPages(w, i))[at] = ChunkPages(w, i)[part]
    BY <1>1, <1>2 DEF Pages
<1> QED
    BY <1>1, <1>2, NewPages DEF HasChunk, Pages

\* The locals of a writer that has placed a chunk.
LEMMA PlacesIs ==
    ASSUME SegInv, NEW t \in Writer, pc[t] = "append", NEW s \in Segment, NEW at \in Nat \ {0},
           Places(t, s, at), UNCHANGED <<mu, patched, seen>>
    PROVE  /\ LocalsTyped' /\ OthersRest(t)
           /\ placed'[t] = Append(placed[t], [seg |-> s, at |-> at])
           /\ Len(placed'[t]) = Len(placed[t]) + 1 /\ Len(placed[t]) + 1 \in DOMAIN PagesOf[t]
           /\ placed'[t][Len(placed[t]) + 1] = [seg |-> s, at |-> at]
           /\ \A i \in DOMAIN placed[t] : placed'[t][i] = placed[t][i]
           /\ DOMAIN placed'[t] = DOMAIN placed[t] \cup {Len(placed[t]) + 1}
           /\ pc'[t] = "append" => Len(placed'[t]) < Len(PagesOf[t])
           /\ pc'[t] = "flush" => Len(placed'[t]) = Len(PagesOf[t])
           /\ pc'[t] \in {"append", "flush"}
           /\ Len(placed[t]) \in Nat
<1>1. LocalsTyped /\ CallOK(t)
    BY DEF SegInv, CallsInv, LocalsTyped
<1>2. /\ placed[t] \in Seq(Place) /\ [seg |-> s, at |-> at] \in Place
      /\ Len(placed[t]) < Len(PagesOf[t]) /\ PagesOf[t] \in Seq(Nat \ {0})
    BY <1>1, SegmentAssumption DEF LocalsTyped, CallOK, Place
<1>3. /\ placed' = [placed EXCEPT ![t] = Append(placed[t], [seg |-> s, at |-> at])]
      /\ IF Len(placed'[t]) = Len(PagesOf[t]) THEN Goes(t, "flush") ELSE UNCHANGED pc
    BY DEF Places
<1>4. /\ placed' \in [Writer -> Seq(Place)]
      /\ placed'[t] = Append(placed[t], [seg |-> s, at |-> at])
      /\ \A u \in Writer \ {t} : placed'[u] = placed[u]
  <2>1. Append(placed[t], [seg |-> s, at |-> at]) \in Seq(Place)
      BY <1>2
  <2> QED
      BY <1>1, <1>3, <2>1 DEF LocalsTyped
<1>5. /\ Len(placed'[t]) = Len(placed[t]) + 1 /\ Len(placed[t]) \in Nat
      /\ placed'[t][Len(placed[t]) + 1] = [seg |-> s, at |-> at]
      /\ \A i \in DOMAIN placed[t] : placed'[t][i] = placed[t][i]
      /\ DOMAIN placed'[t] = DOMAIN placed[t] \cup {Len(placed[t]) + 1}
  <2>1. DOMAIN placed'[t] = 1..Len(placed[t]) + 1 /\ DOMAIN placed[t] = 1..Len(placed[t])
      BY <1>2, <1>4
  <2> QED
      BY <1>2, <1>4, <2>1
<1>6. Len(placed[t]) + 1 \in DOMAIN PagesOf[t]
  <2>1. DOMAIN PagesOf[t] = 1..Len(PagesOf[t]) /\ Len(PagesOf[t]) \in Nat
      BY <1>2
  <2> QED
      BY <1>2, <1>5, <2>1
<1>7. /\ pc' \in [Writer -> Step] /\ \A u \in Writer \ {t} : pc'[u] = pc[u]
      /\ Len(placed'[t]) = Len(PagesOf[t]) => pc'[t] = "flush"
      /\ Len(placed'[t]) # Len(PagesOf[t]) => pc'[t] = "append"
    BY <1>1, <1>3 DEF Goes, LocalsTyped, Step
<1>8. Len(PagesOf[t]) \in Nat
    BY <1>2
<1>9. LocalsTyped'
    BY <1>1, <1>4, <1>7 DEF LocalsTyped
<1>10. OthersRest(t)
    BY <1>4, <1>7 DEF OthersRest
<1>11. /\ pc'[t] = "append" => Len(placed'[t]) < Len(PagesOf[t])
       /\ pc'[t] = "flush" => Len(placed'[t]) = Len(PagesOf[t])
       /\ pc'[t] \in {"append", "flush"}
    BY <1>2, <1>5, <1>7, <1>8
<1> QED
    BY <1>4, <1>5, <1>6, <1>9, <1>10, <1>11

\* A step that places a chunk keeps the invariant.
LEMMA PlacesKeeps ==
    ASSUME SegInv, NEW t \in Writer, pc[t] = "append", NEW s \in Segment, NEW at \in Nat \ {0},
           Places(t, s, at), UNCHANGED <<mu, patched, seen, marked, spent>>, mu = None,
           Grows, EngineInv', ContentGrows, SameLogs, FlagsStay,
           active' # None, Exists(s)',
           ~BufferLost(s)' => HasChunk(Content(s)', at, t, Len(placed[t]) + 1)
    PROVE  SegInv'
<1>1. /\ LocalsTyped' /\ OthersRest(t)
      /\ Len(placed'[t]) = Len(placed[t]) + 1 /\ Len(placed[t]) + 1 \in DOMAIN PagesOf[t]
      /\ placed'[t][Len(placed[t]) + 1] = [seg |-> s, at |-> at]
      /\ \A i \in DOMAIN placed[t] : placed'[t][i] = placed[t][i]
      /\ DOMAIN placed'[t] = DOMAIN placed[t] \cup {Len(placed[t]) + 1}
      /\ pc'[t] = "append" => Len(placed'[t]) < Len(PagesOf[t])
      /\ pc'[t] = "flush" => Len(placed'[t]) = Len(PagesOf[t])
      /\ pc'[t] \in {"append", "flush"}
      /\ Len(placed[t]) \in Nat
    BY PlacesIs
<1>2. CallOK(t) /\ CallsInv /\ FilesInv /\ EngineInv
    BY DEF SegInv, CallsInv
<1>3. Steady(t)
  <2>1. \A u \in Writer \ {t} : mu # u /\ mu' = mu
      BY SegmentNoneAssumption
  <2>2. pc[t] \notin Settled /\ pc[t] # "returned"
      BY DEF Settled
  <2> QED
      BY <1>1, <2>1, <2>2 DEF Steady
<1>4. CallOK(t)'
  <2>1. ASSUME NEW i \in DOMAIN placed'[t] PROVE file'[placed'[t][i].seg] # None
    <3>1. CASE i \in DOMAIN placed[t]
      <4>1. placed[t][i].seg \in Segment /\ Exists(placed[t][i].seg)
          BY <1>2, <3>1, PlaceIs DEF CallOK
      <4> QED
          BY <1>1, <1>2, <3>1, <4>1, GrownIs DEF Exists
    <3>2. CASE i = Len(placed[t]) + 1
        BY <1>1, <3>2 DEF Exists
    <3> QED
        BY <1>1, <2>1, <3>1, <3>2
  <2>2. patched'[t] = 0 /\ seen'[t] = FALSE /\ mu' # t
      BY <1>2, SegmentNoneAssumption DEF CallOK
  <2>3. Len(PagesOf[t]) \in Nat
    <3>1. PagesOf[t] \in Seq(Nat \ {0})
        BY SegmentAssumption
    <3> QED
        BY <3>1
  <2>4. Len(placed'[t]) <= Len(PagesOf[t])
      BY <1>1, <2>3
  <2> QED
      BY <1>1, <2>1, <2>2, <2>4 DEF CallOK, Exists, Busy
<1>5. ASSUME NEW i \in DOMAIN placed'[t] PROVE ChunkOK(t, i)'
  <2>1. ASSUME NEW q \in Segment, NEW k, q = placed'[t][i].seg, k = placed'[t][i].at,
               ~BufferLost(q)'
        PROVE  HasChunk(Content(q)', k, t, i)
    <3>1. CASE i \in DOMAIN placed[t]
      <4>1. q = placed[t][i].seg /\ k = placed[t][i].at /\ Exists(q)
          BY <1>1, <1>2, <2>1, <3>1 DEF CallOK
      <4>2. ~BufferLost(q) /\ Later(Content(q)', Content(q))
          BY <2>1, <4>1 DEF ContentGrows
      <4>3. HasChunk(Content(q), k, t, i)
          BY <3>1, <4>1, <4>2 DEF SegInv, ChunksInv, ChunkOK, Unwritten
      <4>4. Content(q) \in Pages /\ Content(q)' \in Pages
          BY <1>2, <4>1, ContentIs, GrownContentIs
      <4> QED
          BY <4>2, <4>3, <4>4, ChunkStays
    <3>2. CASE i = Len(placed[t]) + 1
        BY <1>1, <2>1, <3>2
    <3> QED
        BY <1>1, <3>1, <3>2
  <2>2. placed'[t][i].seg \in Segment
    <3>1. placed'[t] \in Seq(Place)
        BY <1>1 DEF LocalsTyped
    <3>2. placed'[t][i] \in Place
        BY <1>5, <3>1
    <3> QED
        BY <3>2 DEF Place
  <2>3. pc'[t] \notin Writing \cup {"log", "syncLog"}
      BY <1>1 DEF Writing
  <2> QED
      BY <2>1, <2>2, <2>3 DEF ChunkOK
<1>6. pc'[t] # "syncLog" /\ pc'[t] # "returned"
    BY <1>1
<1> QED
    BY <1>3, <1>4, <1>5, <1>6, SteadyKeeps DEF SameLogs, FlagsStay

\* An engine with its segment, if it has one.
LEMMA ActiveIs ==
    ASSUME SegInv, active # None
    PROVE  /\ active \in SegActive /\ active.seq \in Segment /\ Exists(active.seq)
           /\ IsActive(active.seq) /\ active.buffer \in Seq(Page) /\ active.buffer \in Pages
           /\ active.broken \in SUBSET {"buffer", "file"}
           /\ Content(active.seq) = file[active.seq].pages \o active.buffer
           /\ file[active.seq].pages \in Pages /\ up
           /\ FilesInv /\ EngineInv
<1>1. active \in SegActive /\ Exists(active.seq) /\ up /\ FilesInv /\ EngineInv
    BY DEF SegInv, EngineInv
<1>2. /\ active.seq \in Segment /\ active.buffer \in Seq(Page)
      /\ active.broken \in SUBSET {"buffer", "file"}
    BY <1>1 DEF SegActive
<1>3. active.buffer \in Pages
    BY <1>2 DEF Pages
<1>4. file[active.seq].pages \in Pages
    BY <1>1, <1>2, FileIs
<1> QED
    BY <1>1, <1>2, <1>3, <1>4 DEF IsActive, Content

\* The engine keeps its segment.
LEMMA EngineStays ==
    ASSUME SegInv, Grows, \A s \in Segment : Exists(s)' => Exists(s),
           \/ active' = active
           \/ active # None /\ active' \in SegActive /\ active'.seq = active.seq,
           UNCHANGED <<nextSeq, up>>,
           spent' \in [crashes : Nat, powerLosses : Nat, errors : Nat]
    PROVE  EngineInv' /\ (active # None => active' # None)
<1>1. EngineInv /\ FilesInv
    BY DEF SegInv
<1>2. active # None => active' # None /\ active'.seq = active.seq
    BY SegmentNoneAssumption
<1>3. active' \in SegActive \cup {None} /\ (active' # None => active # None)
    BY <1>1 DEF EngineInv
<1>4. active' # None => /\ up' /\ active'.seq \in Segment /\ Exists(active'.seq)
                       /\ file'[active'.seq] # None
                       /\ \A s \in Segment : Exists(s) => s <= active'.seq
  <2>1. ASSUME active' # None PROVE active # None /\ active'.seq = active.seq
      BY <1>2, <1>3, <2>1
  <2>2. active # None => active.seq \in Segment /\ Exists(active.seq) /\ up
      BY ActiveIs
  <2>3. active # None => file'[active.seq] # None
      BY <1>1, <2>2, GrownIs DEF Exists
  <2>4. active # None => \A s \in Segment : Exists(s) => s <= active.seq
      BY <1>1 DEF EngineInv
  <2> QED
      BY <2>1, <2>2, <2>3, <2>4
<1>5. nextSeq' \in 1..MaxSegment + 1 /\ up' \in BOOLEAN
    BY <1>1 DEF EngineInv
<1>6. up' => \A s \in Segment : Exists(s)' => s < nextSeq'
    BY <1>1 DEF EngineInv
<1>7. up' /\ active' = None => \A s \in Segment : ~Exists(s)'
    BY <1>1, <1>2 DEF EngineInv
<1> QED
    BY <1>2, <1>3, <1>4, <1>5, <1>6, <1>7 DEF EngineInv, Exists

LEMMA AppendToActiveKeeps ==
    ASSUME SegInv, NEW t \in Writer, AppendToActive(t)
    PROVE  SegInv'
<1>s. PICK s : s = active.seq
    OBVIOUS
<1> DEFINE i == Len(placed[t]) + 1
           new == ChunkPages(t, i)
<1>1. /\ pc[t] = "append" /\ mu = None /\ active # None /\ active.broken = {}
      /\ active' = [active EXCEPT !.buffer = active.buffer \o new]
      /\ Places(t, s, Offset + 1)
      /\ UNCHANGED <<fileVars, nextSeq, up, mu, patched, seen, marked, spent>>
    BY <1>s DEF AppendToActive, Locked, NeedsSegment, Works
<1>2. /\ active \in SegActive /\ s \in Segment /\ Exists(s) /\ IsActive(s)
      /\ active.buffer \in Seq(Page) /\ Content(s) = file[s].pages \o active.buffer
      /\ file[s].pages \in Pages /\ active.buffer \in Pages
      /\ FilesInv /\ EngineInv
    BY <1>1, <1>s, ActiveIs
<1>3. Grows /\ SameLogs /\ FlagsStay
    BY <1>1, NothingWritten
<1>4. Offset = Len(Content(s)) /\ Offset + 1 \in Nat \ {0}
  <2>1. /\ Len(file[s].pages \o active.buffer) = Len(file[s].pages) + Len(active.buffer)
        /\ Len(file[s].pages \o active.buffer) \in Nat
      BY <1>2, ConcatIs
  <2>2. Offset = Len(file[s].pages) + Len(active.buffer)
      BY <1>s DEF Offset
  <2>3. Content(s) = file[s].pages \o active.buffer
      BY <1>2
  <2>4. Offset = Len(Content(s)) /\ Offset \in Nat
      BY <2>1, <2>2, <2>3, Zenon
  <2> QED
      BY <2>4
<1>5. i \in DOMAIN PagesOf[t]
    BY <1>1, <1>2, <1>4, PlacesIs
<1>6. /\ active' \in SegActive /\ active'.seq = s /\ active'.buffer = active.buffer \o new
      /\ active'.broken = {}
  <2>1. active.buffer \o new \in Seq(Page)
      BY <1>2, <1>5, NewPages
  <2> HIDE DEF new
  <2> QED
      BY <1>1, <1>2, <1>s, <2>1 DEF SegActive
<1>7. EngineInv' /\ active' # None
  <2>1. spent' \in [crashes : Nat, powerLosses : Nat, errors : Nat]
      BY <1>1, <1>2 DEF EngineInv
  <2>2. \A q \in Segment : Exists(q)' => Exists(q)
      BY <1>1 DEF Exists, fileVars
  <2> QED
      BY <1>1, <1>3, <1>6, <1>s, <2>1, <2>2, EngineStays
<1>8. Content(s)' = Content(s) \o new
  <2>1. Content(s)' = file[s].pages \o (active.buffer \o new)
      BY <1>1, <1>6, <1>7 DEF Content, IsActive, fileVars
  <2>2. new \in Pages
      BY <1>5, NewPages DEF Pages
  <2> HIDE DEF new
  <2>3. file[s].pages \o (active.buffer \o new) = (file[s].pages \o active.buffer) \o new
      BY <1>2, <2>2, ConcatIs
  <2> QED
      BY <1>2, <2>1, <2>3
<1>9. Content(s) \in Pages
    BY <1>2, ContentIs
<1>10. ContentGrows
  <2>1. ASSUME NEW q \in Segment, Exists(q), ~BufferLost(q)'
        PROVE  ~BufferLost(q) /\ Later(Content(q)', Content(q))
    <3>1. ~BufferLost(q)
        BY <1>1 DEF BufferLost, IsActive
    <3>2. CASE q = s
      <4>1. new \in Pages
          BY <1>5, NewPages DEF Pages
      <4> QED
          BY <1>8, <1>9, <3>1, <3>2, <4>1, LaterAppended
    <3>3. CASE q # s
      <4>1. Content(q)' = Content(q)
          BY <1>1, <1>2, <1>6, <1>s, <3>3 DEF Content, IsActive, fileVars
      <4>2. Content(q) \in Pages
          BY <1>2, <2>1, ContentIs
      <4> QED
          BY <3>1, <4>1, <4>2, LaterItself
    <3> QED
        BY <3>2, <3>3
  <2> QED
      BY <2>1 DEF ContentGrows
<1>11. HasChunk(Content(s)', Offset + 1, t, i)
    BY <1>4, <1>5, <1>8, <1>9, AppendedChunk
<1>12. file'[s] # None
    BY <1>1, <1>2 DEF Exists, fileVars
<1> HIDE DEF i, new
<1> QED
    BY <1>1, <1>2, <1>3, <1>4, <1>7, <1>10, <1>11, <1>12, PlacesKeeps DEF i, Exists

-----------------------------------------------------------------------------
(* Steps of a call                                                         *)

\* What is unchanged in the files leaves the engine what it has, in the same places.
LEMMA InPlace ==
    ASSUME SegInv, Grows, active' = active,
           \A s \in Segment : Exists(s) => Len(file'[s].pages) = Len(file[s].pages)
    PROVE  ContentGrows
<1>1. FilesInv /\ EngineInv
    BY DEF SegInv
<1>2. ASSUME NEW s \in Segment, Exists(s), ~BufferLost(s)'
      PROVE  ~BufferLost(s) /\ Later(Content(s)', Content(s))
  <2>1. ~BufferLost(s)
      BY <1>2 DEF BufferLost, IsActive
  <2>2. /\ file[s].pages \in Pages /\ file'[s].pages \in Pages
        /\ Later(file'[s].pages, file[s].pages) /\ Len(file'[s].pages) = Len(file[s].pages)
      BY <1>1, <1>2, FileIs, GrownIs
  <2>3. CASE IsActive(s)
    <3>1. active.buffer \in Pages
        BY <2>3, ActiveIs DEF IsActive
    <3>2. Later(file'[s].pages \o active.buffer, file[s].pages \o active.buffer)
        BY <2>2, <3>1, LaterConcat
    <3> QED
        BY <2>1, <2>3, <3>2 DEF Content, IsActive
  <2>4. CASE ~IsActive(s)
      BY <2>1, <2>2, <2>4 DEF Content, IsActive
  <2> QED
      BY <2>3, <2>4
<1> QED
    BY <1>2 DEF ContentGrows

\* The buffer is written out, or its bufio.Writer is lost with what had not got out.
LEMMA BufferOut ==
    ASSUME SegInv, active # None, NEW out \in Pages, file' = Flushed(out),
           disk' = disk \/ disk' = Synced(active.seq, file'),
           NEW broken \in SUBSET {"buffer", "file"},
           \/ active' = [active EXCEPT !.buffer = << >>] /\ broken = active.broken
           \/ active' = [active EXCEPT !.buffer = << >>, !.broken = broken],
           "buffer" \in active.broken => "buffer" \in broken,
           out = active.buffer \/ "buffer" \in broken,
           UNCHANGED <<nextSeq, up>>,
           spent' \in [crashes : Nat, powerLosses : Nat, errors : Nat]
    PROVE  /\ Grows /\ SameLogs /\ FlagsStay /\ EngineInv' /\ active' # None /\ ContentGrows
           /\ active'.seq = active.seq /\ active'.buffer = << >> /\ active'.broken = broken
           /\ file'[active.seq].pages = file[active.seq].pages \o out
           /\ \A s \in Segment : s # active.seq => file'[s] = file[s]
           /\ disk' # disk => disk'[active.seq].pages = file'[active.seq].pages
<1>1. PICK q : q = active.seq
    OBVIOUS
<1>2. /\ active \in SegActive /\ q \in Segment /\ Exists(q) /\ IsActive(q)
      /\ Content(q) = file[q].pages \o active.buffer /\ file[q].pages \in Pages
      /\ active.buffer \in Pages /\ FilesInv /\ EngineInv
    BY <1>1, ActiveIs
<1>3. /\ Grows /\ SameLogs /\ FlagsStay
      /\ file'[q].pages = file[q].pages \o out
      /\ \A s \in Segment : s # q => file'[s] = file[s]
      /\ disk' # disk => disk'[q].pages = file'[q].pages
    BY <1>1, Written
<1>4. /\ active' \in SegActive /\ active'.seq = q /\ active'.buffer = << >>
      /\ active'.broken = broken
  <2>1. active \in SegActive /\ << >> \in Seq(Page)
      BY <1>2
  <2>2. active' \in SegActive
    <3>1. CASE active' = [active EXCEPT !.buffer = << >>]
        BY <2>1, <3>1 DEF SegActive
    <3>2. CASE active' = [active EXCEPT !.buffer = << >>, !.broken = broken]
        BY <2>1, <3>2 DEF SegActive
    <3> QED
        BY <3>1, <3>2
  <2>3. active'.seq = active.seq /\ active'.buffer = << >> /\ active'.broken = broken
    <3>1. CASE active' = [active EXCEPT !.buffer = << >>] /\ broken = active.broken
        BY <2>1, <3>1 DEF SegActive
    <3>2. CASE active' = [active EXCEPT !.buffer = << >>, !.broken = broken]
        BY <2>1, <3>2 DEF SegActive
    <3> QED
        BY <3>1, <3>2
  <2> QED
      BY <1>1, <2>2, <2>3
<1>5. EngineInv' /\ active' # None
  <2>1. \A s \in Segment : Exists(s)' => Exists(s)
      BY <1>2, <1>3 DEF Exists
  <2> QED
      BY <1>1, <1>3, <1>4, <2>1, EngineStays
<1>6. ASSUME NEW s \in Segment, Exists(s), ~BufferLost(s)'
      PROVE  ~BufferLost(s) /\ Later(Content(s)', Content(s))
  <2>1. CASE s = q
    <3>1. "buffer" \notin broken
        BY <1>4, <1>5, <1>6, <2>1 DEF BufferLost, IsActive
    <3>2. file'[q].pages = Content(q)
        BY <1>2, <1>3, <3>1
    <3>3. Content(q) \in Pages
        BY <1>2, LaterAppended
    <3>4. Content(q)' = file'[q].pages \o << >>
        BY <1>4, <1>5 DEF Content, IsActive
    <3>5. Content(q)' = Content(q)
        BY <3>2, <3>3, <3>4 DEF Pages
    <3> QED
        BY <1>1, <2>1, <3>1, <3>3, <3>5, LaterItself DEF BufferLost, IsActive
  <2>2. CASE s # q
    <3>1. ~IsActive(s) /\ ~IsActive(s)'
        BY <1>1, <1>4, <2>2 DEF IsActive
    <3>2. Content(s) = file[s].pages /\ Content(s)' = file[s].pages
        BY <1>3, <2>2, <3>1 DEF Content
    <3>3. file[s].pages \in Pages
        BY <1>2, <1>6, FileIs
    <3> QED
        BY <3>1, <3>2, <3>3, LaterItself DEF BufferLost
  <2> QED
      BY <2>1, <2>2
<1> QED
    BY <1>1, <1>3, <1>4, <1>5, <1>6 DEF ContentGrows

\* A writer goes to its next step, and leaves its other locals alone.
LEMMA GoesQuietly ==
    ASSUME SegInv, NEW t \in Writer, NEW step \in Step, Goes(t, step),
           UNCHANGED <<placed, patched, seen>>, mu' \in Writer \cup {None}
    PROVE  LocalsTyped' /\ OthersRest(t) /\ pc'[t] = step
<1>1. LocalsTyped
    BY DEF SegInv, CallsInv, LocalsTyped
<1> QED
    BY <1>1 DEF LocalsTyped, OthersRest, Goes

\* Chunks that have been placed are in segments that exist.
LEMMA PlacedStay ==
    ASSUME SegInv, Grows, NEW w \in Writer, NEW i \in DOMAIN placed[w]
    PROVE  Exists(placed[w][i].seg) /\ file'[placed[w][i].seg] # None
<1>1. CallsInv /\ FilesInv /\ CallOK(w)
    BY DEF SegInv, CallsInv
<1>2. placed[w][i].seg \in Segment /\ Exists(placed[w][i].seg)
    BY <1>1, PlaceIs DEF CallOK
<1> QED
    BY <1>1, <1>2, GrownIs DEF Exists

\* A call that fails leaves what it has done, and nothing is asked of it any more.
LEMMA FailKeeps ==
    ASSUME SegInv, NEW t \in Writer, pc[t] \notin {"returned", "patchFlag"}, Fails(t),
           mu \in {None, t}, mu' = None, Grows, EngineInv', ContentGrows, SameLogs, FlagsStay,
           active # None => active' # None, spent'.powerLosses = spent.powerLosses
    PROVE  SegInv'
<1>1. Goes(t, "failed") /\ UNCHANGED <<placed, patched, seen, marked>>
    BY DEF Fails
<1>2. LocalsTyped' /\ OthersRest(t) /\ pc'[t] = "failed"
    BY <1>1, GoesQuietly DEF Step
<1>3. CallOK(t)
    BY DEF SegInv, CallsInv
<1>4. Steady(t)
  <2>1. \A u \in Writer \ {t} : mu # u /\ mu' # u
      BY SegmentNoneAssumption
  <2>2. pc'[t] \in Settled /\ placed'[t] = placed[t] /\ pc[t] # "returned"
      BY <1>1, <1>2 DEF Settled
  <2> QED
      BY <1>2, <2>1, <2>2 DEF Steady
<1>5. CallOK(t)'
  <2>1. \A i \in DOMAIN placed'[t] : Exists(placed[t][i].seg)'
      BY <1>1, PlacedStay DEF Exists
  <2>2. mu' # t
      BY SegmentNoneAssumption
  <2>3. seen'[t] = FALSE
      BY <1>1, <1>3 DEF CallOK
  <2> QED
      BY <1>1, <1>2, <1>3, <2>1, <2>2, <2>3 DEF CallOK, Busy
<1>6. \A i \in DOMAIN placed'[t] : ChunkOK(t, i)'
    BY <1>2 DEF ChunkOK, Unwritten, Writing
<1>7. pc'[t] # "syncLog" /\ pc'[t] # "returned"
    BY <1>2
<1>8. \A place \in marked' : place \in marked /\ file'[place.seg].pages[place.at].deleted
    BY <1>1 DEF FlagsStay
<1>9. \A w \in Writer, s \in Segment : LoggedIn(w, s)' => LoggedIn(w, s)
    BY DEF SameLogs
<1> QED
    BY <1>4, <1>5, <1>6, <1>7, <1>8, <1>9, SteadyKeeps

LEMMA SyncedIs ==
    ASSUME SegInv, NEW s \in Segment, Exists(s), disk' = Synced(s, file')
    PROVE  disk'[s].pages = file'[s].pages
<1>1. disk \in [Segment -> SegFile \cup {None}] /\ disk[s] \in SegFile
    BY FileIs DEF SegInv, FilesInv
<1>2. disk' = [disk EXCEPT ![s] = [disk[s] EXCEPT !.pages = file'[s].pages]]
    BY DEF Synced
<1>3. disk'[s] = [disk[s] EXCEPT !.pages = file'[s].pages]
    BY <1>1, <1>2
<1> QED
    BY <1>1, <1>3 DEF SegFile

\* A call in its loop over patches, or past it, keeps its chunks in the file.
LEMMA WritingStays ==
    ASSUME SegInv, Grows, NEW t \in Writer, pc[t] \in Writing, NEW i \in DOMAIN placed[t],
           NEW s, NEW at, s = placed[t][i].seg, at = placed[t][i].at
    PROVE  /\ s \in Segment /\ Exists(s)
           /\ HasChunk(file[s].pages, at, t, i) /\ HasChunk(file'[s].pages, at, t, i)
           /\ at \in DOMAIN file[s].pages /\ file[s].pages[at] # Torn
           /\ file[s].pages[at].of = t
           /\ IsNamed(t, i) => file[s].pages[at].named /\ file'[s].pages[at].named
<1>1. s \in Segment /\ Exists(s) /\ CallsInv /\ FilesInv
    BY PlaceIs DEF SegInv, CallsInv, CallOK
<1>2. HasChunk(file[s].pages, at, t, i) /\ (IsNamed(t, i) => file[s].pages[at].named)
    BY DEF SegInv, ChunksInv, ChunkOK
<1>3. /\ file[s].pages \in Pages /\ file'[s].pages \in Pages
      /\ Later(file'[s].pages, file[s].pages)
    BY <1>1, FileIs, GrownIs
<1>4. /\ at \in DOMAIN file[s].pages /\ file[s].pages[at] # Torn
      /\ file[s].pages[at].of = t
    BY SMTT(30), <1>1, <1>2, FirstPage
<1>5. HasChunk(file'[s].pages, at, t, i)
    BY <1>2, <1>3, ChunkStays
<1>6. IsNamed(t, i) => file'[s].pages[at].named
    BY <1>2, <1>3, <1>4, NamedStays
<1> QED
    BY <1>1, <1>2, <1>4, <1>5, <1>6

\* A call that goes on keeps the invariant, if it is where it says.
LEMMA StepKeeps ==
    ASSUME SegInv, NEW t \in Writer, pc[t] \notin Settled, pc'[t] \in Writing,
           LocalsTyped', OthersRest(t), UNCHANGED <<placed, marked>>,
           Grows, EngineInv', ContentGrows, FlagsStay,
           active # None => active' # None, active # None,
           Len(placed[t]) = Len(PagesOf[t]),
           spent'.powerLosses = spent.powerLosses,
           (mu \in {None, t} /\ mu' \in {None, t}) \/ UNCHANGED <<mu, active>>,
           pc'[t] \in {"patch", "patchFlag"} => patched'[t] < Len(placed[t]),
           pc'[t] \in {"sync", "log", "syncLog"} => patched'[t] = Len(placed[t]),
           pc'[t] \in {"log", "syncLog"} <=> mu' = t,
           pc'[t] # "patchFlag" => seen'[t] = FALSE,
           \A i \in DOMAIN placed[t] : ChunkOK(t, i)',
           \A w \in Writer, s \in Segment :
               LoggedIn(w, s)' => LoggedIn(w, s) \/ (w = t /\ EntryOK(w, s)'),
           pc'[t] = "syncLog" => LoggedIn(t, active.seq)'
    PROVE  SegInv'
<1>1. Steady(t)
  <2>1. ASSUME NEW u \in Writer \ {t}
        PROVE  (mu' = u <=> mu = u) /\ (mu = u => active' = active)
    <3>1. u # None /\ u # t
        BY SegmentNoneAssumption, Zenon
    <3>2. CASE mu \in {None, t} /\ mu' \in {None, t}
      <4>1. mu # u /\ mu' # u
          BY <3>1, <3>2, Zenon
      <4> QED
          BY <4>1, Zenon
    <3>3. CASE UNCHANGED <<mu, active>>
      <4>1. mu' = mu /\ active' = active
          BY <3>3, Zenon
      <4> QED
          BY <4>1, Zenon
    <3> QED
        BY <3>2, <3>3, Zenon
  <2>2. pc[t] # "returned"
      BY DEF Settled
  <2> QED
      BY <2>1, <2>2 DEF Steady
<1>2. CallOK(t)'
  <2>1. \A i \in DOMAIN placed'[t] : Exists(placed[t][i].seg)'
      BY PlacedStay DEF Exists
  <2>2. CallOK(t)
      BY DEF SegInv, CallsInv
  <2>3. Len(placed[t]) <= Len(PagesOf[t])
      BY <2>2, Zenon DEF CallOK
  <2>4. pc'[t] \notin {"append", "flush", "returned", "failed"}
      BY DEF Writing
  <2> QED
      BY <2>1, <2>3, <2>4 DEF CallOK, Exists
<1>3. pc'[t] # "returned"
    BY DEF Writing
<1>4. \A place \in marked' : place \in marked /\ file'[place.seg].pages[place.at].deleted
    BY DEF FlagsStay
<1> QED
    BY <1>1, <1>2, <1>3, <1>4, SteadyKeeps

LEMMA FlushKeeps ==
    ASSUME SegInv, NEW t \in Writer, Flush(t)
    PROVE  SegInv'
<1>1. /\ pc[t] = "flush" /\ mu = None /\ "buffer" \notin active.broken
      /\ file' = Flushed(active.buffer) /\ active' = [active EXCEPT !.buffer = << >>]
      /\ Goes(t, "patch")
      /\ UNCHANGED <<disk, nextSeq, up, mu, placed, patched, seen, marked, spent>>
    BY DEF Flush, Locked
<1>2. /\ placed[t] \in Seq(Place) /\ placed[t] # << >> /\ Len(placed[t]) = Len(PagesOf[t])
      /\ active # None /\ CallOK(t) /\ EngineInv
    BY <1>1, GoingOn DEF SegInv, CallsInv
<1>3. PICK q : q = active.seq
    OBVIOUS
<1>4. /\ q \in Segment /\ IsActive(q) /\ active.buffer \in Pages
      /\ active.broken \in SUBSET {"buffer", "file"}
      /\ Content(q) = file[q].pages \o active.buffer
    BY <1>2, <1>3, ActiveIs
<1>5. /\ Grows /\ SameLogs /\ FlagsStay /\ EngineInv' /\ active' # None /\ ContentGrows
      /\ file'[q].pages = file[q].pages \o active.buffer
      /\ \A s \in Segment : s # q => file'[s] = file[s]
  <2>1. spent' \in [crashes : Nat, powerLosses : Nat, errors : Nat]
      BY <1>1, <1>2 DEF EngineInv
  <2> QED
      BY <1>1, <1>2, <1>3, <1>4, <2>1, BufferOut
<1>6. LocalsTyped' /\ OthersRest(t) /\ pc'[t] = "patch"
    BY <1>1, GoesQuietly DEF Step
<1>7. patched'[t] = 0 /\ 0 < Len(placed[t]) /\ seen'[t] = FALSE
    BY <1>1, <1>2 DEF CallOK
<1>8. ASSUME NEW i \in DOMAIN placed[t] PROVE ChunkOK(t, i)'
  <2>1. PICK s, at : s = placed[t][i].seg /\ at = placed[t][i].at
      OBVIOUS
  <2>2. s \in Segment /\ i \in Nat \ {0}
      BY <2>1, PlaceIs DEF SegInv
  <2>3. HasChunk(Content(s), at, t, i)
    <3>1. ~BufferLost(s)
        BY <1>1 DEF BufferLost
    <3> QED
        BY <1>1, <2>1, <3>1 DEF SegInv, ChunksInv, ChunkOK, Unwritten
  <2>4. file'[s].pages = Content(s)
    <3>1. CASE s = q
        BY <1>4, <1>5, <3>1
    <3>2. CASE s # q
        BY <1>3, <1>5, <2>2, <3>2 DEF Content, IsActive
    <3> QED
        BY <3>1, <3>2
  <2>5. ~IsNamed(t, i)'
      BY <1>6, <1>7, <2>2 DEF IsNamed
  <2>6. HasChunk(file'[placed'[t][i].seg].pages, placed'[t][i].at, t, i)
      BY <1>1, <2>1, <2>3, <2>4
  <2> QED
      BY <1>6, <2>5, <2>6 DEF ChunkOK, Unwritten
<1>9. mu' # t
    BY <1>1, SegmentNoneAssumption
<1>10. \A w \in Writer, s \in Segment : LoggedIn(w, s)' => LoggedIn(w, s)
    BY <1>5 DEF SameLogs
<1>11. pc[t] \notin Settled /\ pc'[t] \in Writing
    BY <1>1, <1>6 DEF Settled, Writing
<1> QED
    BY <1>1, <1>2, <1>5, <1>6, <1>7, <1>8, <1>9, <1>10, <1>11, StepKeeps

LEMMA SyncKeeps ==
    ASSUME SegInv, NEW t \in Writer, Sync(t)
    PROVE  SegInv'
<1>1. /\ pc[t] = "sync" /\ mu = None /\ active.broken = {}
      /\ file' = Flushed(active.buffer) /\ active' = [active EXCEPT !.buffer = << >>]
      /\ disk' = Synced(active.seq, file')
      /\ mu' = t /\ Goes(t, "log")
      /\ UNCHANGED <<nextSeq, up, placed, patched, seen, marked, spent>>
    BY DEF Sync, Locked, Works
<1>2. /\ Len(placed[t]) = Len(PagesOf[t])
      /\ active # None /\ CallOK(t) /\ EngineInv
    BY <1>1, GoingOn DEF SegInv, CallsInv
<1>3. PICK q : q = active.seq
    OBVIOUS
<1>4. /\ q \in Segment /\ Exists(q) /\ active.buffer \in Pages
      /\ active.broken \in SUBSET {"buffer", "file"}
    BY <1>2, <1>3, ActiveIs
<1>5. /\ Grows /\ SameLogs /\ FlagsStay /\ EngineInv' /\ active' # None /\ ContentGrows
      /\ active'.seq = q
  <2>1. spent' \in [crashes : Nat, powerLosses : Nat, errors : Nat]
      BY <1>1, <1>2 DEF EngineInv
  <2> QED
      BY <1>1, <1>2, <1>3, <1>4, <2>1, BufferOut
<1>6. LocalsTyped' /\ OthersRest(t) /\ pc'[t] = "log"
    BY <1>1, GoesQuietly DEF Step
<1>7. patched'[t] = Len(placed[t]) /\ seen'[t] = FALSE
    BY <1>1, <1>2 DEF CallOK
<1>8. ASSUME NEW i \in DOMAIN placed[t] PROVE ChunkOK(t, i)'
  <2>1. PICK s, at : s = placed[t][i].seg /\ at = placed[t][i].at
      OBVIOUS
  <2>2. pc[t] \in Writing /\ i <= patched[t]
    <3>1. i <= Len(placed[t])
        BY PlaceIs DEF SegInv
    <3> QED
        BY <1>1, <1>7, <3>1 DEF Writing
  <2>3. HasChunk(file'[s].pages, at, t, i) /\ file'[s].pages[at].named
    <3>1. Grows /\ pc[t] \in Writing /\ IsNamed(t, i)
        BY <1>5, <2>2 DEF IsNamed
    <3> QED
        BY <2>1, <3>1, WritingStays
  <2>4. IsActive(s)' => disk'[s].pages = file'[s].pages
    <3>1. disk'[q].pages = file'[q].pages
        BY <1>1, <1>3, <1>4, SyncedIs
    <3> QED
        BY <1>5, <3>1 DEF IsActive
  <2>5. IsActive(s)' => HasNamed(disk'[s].pages, at, t, i)
      BY <2>3, <2>4 DEF HasNamed
  <2> QED
      BY <1>1, <1>6, <2>1, <2>3, <2>5 DEF ChunkOK, Unwritten
<1>9. \A w \in Writer, s \in Segment : LoggedIn(w, s)' => LoggedIn(w, s)
    BY <1>5 DEF SameLogs
<1>10. pc[t] \notin Settled /\ pc'[t] \in Writing
    BY <1>1, <1>6 DEF Settled, Writing
<1> QED
    BY <1>1, <1>2, <1>5, <1>6, <1>7, <1>8, <1>9, <1>10, StepKeeps

LEMMA NamedIs ==
    ASSUME CallsInv, NEW w \in Writer, NEW i \in DOMAIN placed[w], NEW pages,
           HasNamed(pages, placed[w][i].at, w, i)
    PROVE  pages[placed[w][i].at].of = w
BY FirstPage DEF HasNamed

\* What a log says of a call, from what its writer knows when it writes it.
LEMMA EntryIs ==
    ASSUME SegInv, NEW t \in Writer, Len(placed[t]) = Len(PagesOf[t]),
           NEW q \in Segment, IsActive(q), placed' = placed, pc'[t] = "syncLog",
           \A i \in DOMAIN placed[t] :
               /\ HasNamed(file'[placed[t][i].seg].pages, placed[t][i].at, t, i)
               /\ placed[t][i].seg = q => HasNamed(disk'[q].pages, placed[t][i].at, t, i)
    PROVE  EntryOK(t, q)'
<1>1. ASSUME NEW i \in DOMAIN placed[t], NEW s, NEW at,
             s = placed[t][i].seg, at = placed[t][i].at
      PROVE  s <= q /\ file'[s].pages[at].of = t
  <2>1. CallsInv /\ CallOK(t)
      BY DEF SegInv, CallsInv
  <2>2. s \in Segment /\ Exists(s)
      BY <1>1, <2>1, PlaceIs DEF CallOK
  <2>3. s <= q
      BY <2>2 DEF SegInv, EngineInv, IsActive
  <2>4. HasNamed(file'[placed[t][i].seg].pages, placed[t][i].at, t, i)
      BY Zenon
  <2>5. file'[placed[t][i].seg].pages[placed[t][i].at].of = t
      BY <2>1, <2>4, NamedIs, Zenon
  <2> QED
      BY <1>1, <2>3, <2>5, Zenon
<1>2. ASSUME NEW i \in DOMAIN placed'[t]
      PROVE  /\ placed'[t][i].seg <= q
             /\ placed'[t][i].seg = q => HasNamed(disk'[q].pages, placed'[t][i].at, t, i)
             /\ HasNamed(file'[placed'[t][i].seg].pages, placed'[t][i].at, t, i)
             /\ PageAt(placed[t][i])'.of = t
    BY <1>1, <1>2 DEF PageAt
<1> QED
    BY <1>2 DEF EntryOK

LEMMA AppendWALKeeps ==
    ASSUME SegInv, NEW t \in Writer, AppendWAL(t)
    PROVE  SegInv'
<1>1. /\ pc[t] = "log" /\ mu = t
      /\ file' = [file EXCEPT ![active.seq].log = Append(@, t)]
      /\ Goes(t, "syncLog")
      /\ UNCHANGED <<disk, engineVars, placed, patched, seen, marked, spent>>
    BY DEF AppendWAL
<1>2. /\ Len(placed[t]) = Len(PagesOf[t])
      /\ active # None /\ CallOK(t) /\ EngineInv
    BY <1>1, GoingOn DEF SegInv, CallsInv
<1>3. PICK q : q = active.seq
    OBVIOUS
<1>4. q \in Segment /\ Exists(q) /\ IsActive(q)
    BY <1>2, <1>3, ActiveIs
<1>e. UNCHANGED <<active, nextSeq, up, mu>>
    BY <1>1 DEF engineVars
<1>5. /\ Grows /\ FlagsStay
      /\ \A s \in Segment : file'[s].pages = file[s].pages
      /\ \A w \in Writer, s \in Segment :
            LoggedIn(w, s)' => LoggedIn(w, s) \/ (w = t /\ s = q)
      /\ LoggedIn(t, q)'
  <2>1. file' = [file EXCEPT ![q].log = Append(@, t)] /\ disk' = disk
      BY <1>1, <1>3
  <2> QED
      BY <1>4, <2>1, LogAppended
<1>6. LocalsTyped' /\ OthersRest(t) /\ pc'[t] = "syncLog"
  <2>1. mu' \in Writer \cup {None}
      BY <1>1, <1>e
  <2> QED
      BY <1>1, <2>1, GoesQuietly DEF Step
<1>7. patched[t] = Len(placed[t]) /\ seen'[t] = FALSE
    BY <1>1, <1>2 DEF CallOK
<1>8. EngineInv' /\ ContentGrows
  <2>1. spent' \in [crashes : Nat, powerLosses : Nat, errors : Nat]
      BY <1>1, <1>2 DEF EngineInv
  <2>2. \A s \in Segment : Exists(s)' => Exists(s)
    <3>1. file' = [file EXCEPT ![q].log = Append(@, t)]
        BY <1>1, <1>3
    <3> QED
        BY <1>4, <3>1 DEF Exists, SegInv, FilesInv
  <2>3. EngineInv'
      BY <1>5, <1>e, <2>1, <2>2, EngineStays
  <2>4. ContentGrows
      BY <1>5, <1>e, InPlace
  <2> QED
      BY <2>3, <2>4
<1>9. ASSUME NEW i \in DOMAIN placed[t]
      PROVE  /\ ChunkOK(t, i)'
             /\ HasNamed(file'[placed[t][i].seg].pages, placed[t][i].at, t, i)
             /\ placed[t][i].seg = q => HasNamed(disk'[q].pages, placed[t][i].at, t, i)
  <2>1. PICK s, at : s = placed[t][i].seg /\ at = placed[t][i].at
      OBVIOUS
  <2>2. pc[t] \in Writing /\ i <= patched[t]
    <3>1. i <= Len(placed[t])
        BY PlaceIs DEF SegInv
    <3> QED
        BY <1>1, <1>7, <3>1 DEF Writing
  <2>3. HasChunk(file'[s].pages, at, t, i) /\ file'[s].pages[at].named
    <3>1. Grows /\ pc[t] \in Writing /\ IsNamed(t, i)
        BY <1>5, <2>2 DEF IsNamed
    <3> QED
        BY <2>1, <3>1, WritingStays
  <2>4. IsActive(s) => HasNamed(disk[s].pages, at, t, i)
      BY <1>1, <2>1 DEF SegInv, ChunksInv, ChunkOK
  <2>5. IsActive(s)' => HasNamed(disk'[s].pages, at, t, i)
      BY <1>1, <1>e, <2>4 DEF IsActive
  <2>6. ChunkOK(t, i)'
      BY <1>1, <1>6, <2>1, <2>3, <2>5 DEF ChunkOK, Unwritten
  <2>7. HasNamed(file'[s].pages, at, t, i)
      BY <2>3 DEF HasNamed
  <2> QED
      BY <1>1, <1>4, <2>1, <2>4, <2>6, <2>7
<1>10. EntryOK(t, q)'
    BY <1>1, <1>2, <1>4, <1>6, <1>9, EntryIs
<1>11. pc[t] \notin Settled /\ pc'[t] \in Writing
    BY <1>1, <1>6 DEF Settled, Writing
<1>12. \A w \in Writer, s \in Segment : LoggedIn(w, s)' => LoggedIn(w, s)
                                                        \/ (w = t /\ EntryOK(w, s)')
    BY <1>5, <1>10
<1>13. LoggedIn(t, active.seq)'
    BY <1>3, <1>5, <1>e
<1> QED
    BY <1>1, <1>2, <1>5, <1>6, <1>7, <1>8, <1>9, <1>11, <1>12, <1>13, <1>e, StepKeeps

LEMMA SyncWALKeeps ==
    ASSUME SegInv, NEW t \in Writer, SyncWAL(t)
    PROVE  SegInv'
<1>1. /\ pc[t] = "syncLog" /\ mu = t /\ mu' = None
      /\ disk' = [disk EXCEPT ![active.seq].log = file[active.seq].log]
      /\ Goes(t, "returned")
      /\ UNCHANGED <<file, active, nextSeq, up, placed, patched, seen, marked, spent>>
    BY DEF SyncWAL
<1>2. /\ Len(placed[t]) = Len(PagesOf[t])
      /\ active # None /\ CallOK(t) /\ EngineInv /\ LoggedIn(t, active.seq)
    BY <1>1, GoingOn DEF SegInv, CallsInv, LogsInv
<1>3. PICK q : q = active.seq
    OBVIOUS
<1>4. q \in Segment /\ Exists(q)
    BY <1>2, <1>3, ActiveIs
<1>5. Grows /\ SameLogs /\ FlagsStay /\ disk'[q].log = file[q].log
  <2>1. file' = file /\ disk' = [disk EXCEPT ![q].log = file[q].log]
      BY <1>1, <1>3
  <2> QED
      BY <1>4, <2>1, LogSynced
<1>6. LocalsTyped' /\ OthersRest(t) /\ pc'[t] = "returned"
    BY <1>1, GoesQuietly DEF Step
<1>7. patched[t] = Len(placed[t]) /\ seen'[t] = FALSE /\ Len(placed[t]) <= Len(PagesOf[t])
    BY <1>1, <1>2 DEF CallOK
<1>8. EngineInv' /\ ContentGrows
  <2>1. spent' \in [crashes : Nat, powerLosses : Nat, errors : Nat]
      BY <1>1, <1>2 DEF EngineInv
  <2>2. \A s \in Segment : Exists(s)' => Exists(s)
      BY <1>1 DEF Exists
  <2>3. EngineInv'
      BY <1>1, <1>5, <2>1, <2>2, EngineStays
  <2>4. ContentGrows
      BY <1>1, <1>5, InPlace
  <2> QED
      BY <2>3, <2>4
<1>9. Steady(t)
  <2>1. \A u \in Writer \ {t} : mu # u /\ mu' # u
      BY <1>1, SegmentNoneAssumption
  <2>2. pc'[t] \in Settled /\ pc'[t] = "returned"
      BY <1>6 DEF Settled
  <2>3. active' = active /\ placed' = placed /\ spent' = spent
      BY <1>1
  <2> QED
      BY <1>5, <1>6, <1>8, <2>1, <2>2, <2>3 DEF Steady
<1>10. CallOK(t)'
  <2>1. \A i \in DOMAIN placed'[t] : Exists(placed[t][i].seg)'
      BY <1>1, <1>5, PlacedStay DEF Exists
  <2>2. mu' # t
      BY <1>1, SegmentNoneAssumption
  <2> QED
      BY <1>1, <1>2, <1>6, <1>7, <2>1, <2>2 DEF CallOK, Busy
<1>11. \A i \in DOMAIN placed'[t] : ChunkOK(t, i)'
    BY <1>6 DEF ChunkOK, Unwritten, Writing
<1>12. Exists(q)' /\ t \in ToSet(disk'[q].log)
    BY <1>1, <1>2, <1>3, <1>4, <1>5 DEF LoggedIn, Exists
<1>13. \A place \in marked' : place \in marked /\ file'[place.seg].pages[place.at].deleted
    BY <1>1, <1>5 DEF FlagsStay
<1>14. \A w \in Writer, s \in Segment : LoggedIn(w, s)' => LoggedIn(w, s)
    BY <1>5 DEF SameLogs
<1> QED
    BY <1>4, <1>6, <1>9, <1>10, <1>11, <1>12, <1>13, <1>14, SteadyKeeps

\* The page that a loop over patches is at.
IsAt(w, i, q, at) ==
    i = patched[w] + 1 /\ q = placed[w][i].seg /\ at = placed[w][i].at

LEMMA TargetIs ==
    ASSUME SegInv, NEW t \in Writer, pc[t] \in {"patch", "patchFlag"}
    PROVE  /\ patched[t] \in Nat /\ Len(placed[t]) \in Nat /\ patched[t] < Len(placed[t])
           /\ \E k \in DOMAIN placed[t] : IsAt(t, k, Target(t).seg, Target(t).at)
           /\ Len(placed[t]) = Len(PagesOf[t]) /\ active # None
<1>1. CallOK(t) /\ patched[t] \in Nat
    BY DEF SegInv, CallsInv
<1>2. /\ placed[t] \in Seq(Place) /\ Len(placed[t]) = Len(PagesOf[t]) /\ active # None
    BY GoingOn DEF SegInv
<1>3. patched[t] < Len(placed[t])
    BY <1>1 DEF CallOK
<1>4. DOMAIN placed[t] = 1..Len(placed[t]) /\ Len(placed[t]) \in Nat
    BY <1>2
<1>5. patched[t] + 1 \in DOMAIN placed[t]
    BY <1>1, <1>3, <1>4
<1> QED
    BY <1>1, <1>2, <1>3, <1>4, <1>5 DEF Target, IsAt

LEMMA TargetPage ==
    ASSUME SegInv, NEW t \in Writer, pc[t] \in {"patch", "patchFlag"},
           NEW k \in DOMAIN placed[t], NEW q, NEW at, IsAt(t, k, q, at)
    PROVE  /\ q \in Segment /\ Exists(q)
           /\ at \in DOMAIN file[q].pages /\ file[q].pages[at] \in Page
           /\ file[q].pages[at].of = t
           /\ pc[t] = "patchFlag" => file[q].pages[at].named
<1>1. CallsInv /\ FilesInv /\ CallOK(t) /\ ChunkOK(t, k)
    BY DEF SegInv, CallsInv, ChunksInv
<1>a. q = placed[t][k].seg /\ at = placed[t][k].at
    BY DEF IsAt
<1>2. q \in Segment /\ Exists(q)
    BY <1>1, <1>a, PlaceIs DEF CallOK
<1>3. HasChunk(file[q].pages, at, t, k)
    BY <1>1, <1>a DEF ChunkOK, Writing
<1>4. /\ at \in DOMAIN file[q].pages /\ file[q].pages[at] # Torn
      /\ file[q].pages[at].of = t
    BY SMTT(30), <1>1, <1>3, <1>a, FirstPage
<1>5. file[q].pages \in Pages
    BY <1>1, <1>2, FileIs
<1>6. file[q].pages[at] \in Page
    BY <1>4, <1>5 DEF Pages
<1>7. pc[t] = "patchFlag" => file[q].pages[at].named
    BY <1>1 DEF ChunkOK, Writing, IsNamed, IsAt
<1> QED
    BY <1>2, <1>4, <1>6, <1>7

\* A step of the loop: the page it is at is named then.
LEMMA PatchKeeps ==
    ASSUME SegInv, NEW t \in Writer, pc[t] \in {"patch", "patchFlag"},
           NEW k \in DOMAIN placed[t], NEW q, NEW at, IsAt(t, k, q, at),
           NEW p \in Page, Follows(p, file[q].pages[at]), p.named,
           EditsPage(q, at, p),
           UNCHANGED <<disk, engineVars, placed, marked, spent>>,
           LocalsTyped', OthersRest(t), pc'[t] \in {"patch", "patchFlag", "sync"},
           \/ pc'[t] = "patchFlag" /\ patched'[t] = patched[t]
           \/ /\ pc'[t] # "patchFlag" /\ seen'[t] = FALSE /\ patched'[t] = patched[t] + 1
              /\ pc'[t] = "sync" <=> patched'[t] = Len(placed[t])
    PROVE  SegInv'
<1>0. /\ patched[t] \in Nat /\ Len(placed[t]) \in Nat /\ patched[t] < Len(placed[t])
      /\ Len(placed[t]) = Len(PagesOf[t]) /\ active # None
    BY TargetIs
<1>1. /\ q \in Segment /\ Exists(q)
      /\ at \in DOMAIN file[q].pages
      /\ file[q].pages[at].of = t
    BY TargetPage
<1>2. UNCHANGED <<active, nextSeq, up, mu>> /\ disk' = disk /\ FilesInv /\ EngineInv /\ CallOK(t)
    BY DEF engineVars, SegInv, CallsInv
<1>3. /\ Grows /\ SameLogs
      /\ file'[q].pages = [file[q].pages EXCEPT ![at] = p]
      /\ \A s \in Segment : Exists(s) => Len(file'[s].pages) = Len(file[s].pages)
      /\ \A place \in marked : ~(place.seg = q /\ place.at = at /\ ~p.deleted)
                    => file'[place.seg].pages[place.at].deleted
      /\ \A s \in Segment : s # q => file'[s] = file[s]
    BY <1>1, <1>2, Edited
<1>4. FlagsStay
  <2>1. ASSUME NEW place \in marked PROVE ~(place.seg = q /\ place.at = at)
    <3>1. PICK w \in Writer : /\ pc[w] = "returned"
                              /\ file[place.seg].pages[place.at].of = w
        BY MarkIs
    <3>2. w # t
        BY <3>1
    <3> QED
        BY <1>1, <3>1, <3>2
  <2> QED
      BY <1>3, <2>1 DEF FlagsStay
<1>5. EngineInv' /\ ContentGrows
  <2>1. spent' \in [crashes : Nat, powerLosses : Nat, errors : Nat]
      BY <1>2 DEF EngineInv
  <2>2. \A s \in Segment : Exists(s)' => Exists(s)
      BY <1>1, <1>3 DEF Exists
  <2>3. EngineInv'
      BY <1>2, <1>3, <2>1, <2>2, EngineStays
  <2>4. ContentGrows
      BY <1>2, <1>3, InPlace
  <2> QED
      BY <2>3, <2>4
<1>6. mu # t /\ mu' # t
    BY <1>2 DEF CallOK
<1>7. pc[t] \in Writing /\ pc'[t] \in Writing /\ pc[t] \notin Settled
    BY DEF Writing, Settled
<1>8. file'[q].pages[at].named
    BY <1>1, <1>3
<1>9. ASSUME NEW i \in DOMAIN placed[t] PROVE ChunkOK(t, i)'
  <2>1. PICK s, a : s = placed[t][i].seg /\ a = placed[t][i].at
      OBVIOUS
  <2>2. /\ HasChunk(file'[s].pages, a, t, i)
        /\ IsNamed(t, i) => file'[s].pages[a].named
      BY SMTT(30), <1>3, <1>7, <2>1, WritingStays
  <2>3. ASSUME IsNamed(t, i)' PROVE file'[s].pages[a].named
    <3>1. CASE i = k
        BY <1>1, <1>8, <2>1, <3>1 DEF IsAt
    <3>2. CASE i # k
      <4>1. i <= k /\ i \in Nat
        <5>1. i \in Nat
            BY PlaceIs DEF SegInv
        <5> QED
            BY SMTT(30), <1>0, <2>3, <5>1 DEF IsNamed, IsAt
      <4>2. k = patched[t] + 1
          BY Zenon DEF IsAt
      <4>3. i <= patched[t]
          BY <1>0, <3>2, <4>1, <4>2
      <4>4. IsNamed(t, i)
          BY <4>3, Zenon DEF IsNamed
      <4> QED
          BY <2>2, <4>4
    <3> QED
        BY <3>1, <3>2
  <2> QED
      BY <1>7, <2>1, <2>2, <2>3 DEF ChunkOK, Unwritten
<1>10. pc'[t] # "patchFlag" => seen'[t] = FALSE
    OBVIOUS
<1>11. /\ pc'[t] \in {"patch", "patchFlag"} => patched'[t] < Len(placed[t])
       /\ pc'[t] \in {"sync", "log", "syncLog"} => patched'[t] = Len(placed[t])
  <2>1. CASE pc'[t] = "patchFlag" /\ patched'[t] = patched[t]
      BY <1>0, <2>1
  <2>2. CASE /\ pc'[t] # "patchFlag" /\ patched'[t] = patched[t] + 1
             /\ pc'[t] = "sync" <=> patched'[t] = Len(placed[t])
      BY <1>0, <2>2
  <2> QED
      BY <2>1, <2>2
<1>12. /\ \A w \in Writer, s \in Segment : LoggedIn(w, s)' => LoggedIn(w, s)
       /\ pc'[t] \notin {"log", "syncLog"}
       /\ placed' = placed /\ marked' = marked /\ spent' = spent
    BY <1>3 DEF SameLogs
<1> QED
    BY <1>0, <1>1, <1>2, <1>3, <1>4, <1>5, <1>6, <1>7, <1>9, <1>10, <1>11, <1>12, StepKeeps

LEMMA PatchesIs ==
    ASSUME SegInv, NEW t \in Writer, pc[t] \in {"patch", "patchFlag"}, Patches(t),
           UNCHANGED <<mu, placed>>,
           (seen' = seen /\ seen[t] = FALSE) \/ seen' = [seen EXCEPT ![t] = FALSE]
    PROVE  /\ LocalsTyped' /\ OthersRest(t)
           /\ pc'[t] \in {"patch", "sync"} /\ seen'[t] = FALSE
           /\ patched'[t] = patched[t] + 1
           /\ pc'[t] = "sync" <=> patched'[t] = Len(placed[t])
<1>1. LocalsTyped
    BY DEF SegInv, CallsInv, LocalsTyped
<1>2. /\ patched' \in [Writer -> Nat] /\ patched'[t] = patched[t] + 1
      /\ \A u \in Writer \ {t} : patched'[u] = patched[u]
    BY <1>1 DEF Patches, LocalsTyped
<1>3. /\ pc' \in [Writer -> Step] /\ \A u \in Writer \ {t} : pc'[u] = pc[u]
      /\ patched'[t] = Len(placed[t]) => pc'[t] = "sync"
      /\ patched'[t] # Len(placed[t]) => pc'[t] = "patch"
  <2>1. \/ patched'[t] = Len(placed[t]) /\ pc' = [pc EXCEPT ![t] = "sync"]
        \/ patched'[t] # Len(placed[t]) /\ pc' = [pc EXCEPT ![t] = "patch"]
      BY DEF Patches, Goes
  <2> QED
      BY <1>1, <2>1 DEF LocalsTyped, Step
<1>4. /\ seen' \in [Writer -> BOOLEAN] /\ seen'[t] = FALSE
      /\ \A u \in Writer \ {t} : seen'[u] = seen[u]
    BY <1>1 DEF LocalsTyped
<1> QED
    BY <1>1, <1>2, <1>3, <1>4 DEF LocalsTyped, OthersRest

\* A page with one of its fields written.
LEMMA NamedPage ==
    ASSUME NEW p \in Page, NEW q, q = [p EXCEPT !.named = TRUE]
    PROVE  q \in Page /\ Follows(q, p) /\ q.named /\ q.of = p.of /\ q.deleted = p.deleted
<1>1. q \in Page
    BY DEF Page
<1>2. q # Torn /\ p # Torn
    BY <1>1, SegmentNoneAssumption
<1> QED
    BY <1>1, <1>2 DEF Follows, Page

LEMMA FlaggedPage ==
    ASSUME NEW p \in Page, NEW flag \in BOOLEAN, NEW q, q = [p EXCEPT !.deleted = flag]
    PROVE  q \in Page /\ Follows(q, p) /\ q.named = p.named /\ q.of = p.of
<1>1. q \in Page
    BY DEF Page
<1>2. q # Torn /\ p # Torn
    BY <1>1, SegmentNoneAssumption
<1> QED
    BY <1>1, <1>2 DEF Follows, Page

LEMMA PatchActiveKeeps ==
    ASSUME SegInv, NEW t \in Writer, PatchActive(t)
    PROVE  SegInv'
<1>0. pc[t] \in {"patch", "patchFlag"}
    BY DEF PatchActive, Locked
<1>1. PICK q, at : q = Target(t).seg /\ at = Target(t).at
    OBVIOUS
<1>k. PICK k \in DOMAIN placed[t] : IsAt(t, k, q, at)
    BY <1>0, <1>1, TargetIs
<1>2. /\ pc[t] = "patch" /\ Patches(t)
      /\ file' = [file EXCEPT ![q].pages[at].named = TRUE]
      /\ UNCHANGED <<disk, engineVars, placed, seen, marked, spent>>
    BY <1>1, <1>k DEF PatchActive, Locked
<1>3. file[q].pages[at] \in Page
    BY <1>0, <1>k, TargetPage
<1>4. PICK p : p = [file[q].pages[at] EXCEPT !.named = TRUE]
    OBVIOUS
<1>5. p \in Page /\ Follows(p, file[q].pages[at]) /\ p.named
    BY <1>3, <1>4, NamedPage
<1>6. EditsPage(q, at, p)
    BY <1>2, <1>4 DEF EditsPage
<1>7. seen[t] = FALSE
    BY <1>2 DEF SegInv, CallsInv, CallOK
<1>8. UNCHANGED <<mu, placed>>
    BY <1>2 DEF engineVars
<1>9. /\ LocalsTyped' /\ OthersRest(t)
      /\ pc'[t] \in {"patch", "sync"} /\ seen'[t] = FALSE
      /\ patched'[t] = patched[t] + 1
      /\ pc'[t] = "sync" <=> patched'[t] = Len(placed[t])
    BY <1>2, <1>7, <1>8, PatchesIs
<1> QED
    BY <1>1, <1>2, <1>5, <1>6, <1>9, <1>0, <1>k, PatchKeeps

LEMMA PatchSealedKeeps ==
    ASSUME SegInv, NEW t \in Writer, PatchSealed(t)
    PROVE  SegInv'
<1>0. pc[t] \in {"patch", "patchFlag"}
    BY DEF PatchSealed, Locked
<1>1. PICK q, at : q = Target(t).seg /\ at = Target(t).at
    OBVIOUS
<1>k. PICK k \in DOMAIN placed[t] : IsAt(t, k, q, at)
    BY <1>0, <1>1, TargetIs
<1>2. /\ pc[t] = "patch" /\ Goes(t, "patchFlag")
      /\ file' = [file EXCEPT ![q].pages[at].named = TRUE]
      /\ seen' = [seen EXCEPT ![t] = PageAt(Target(t)).deleted]
      /\ UNCHANGED <<disk, engineVars, placed, patched, marked, spent>>
    BY <1>1, <1>k DEF PatchSealed, Locked
<1>3. file[q].pages[at] \in Page
    BY <1>0, <1>k, TargetPage
<1>4. PICK p : p = [file[q].pages[at] EXCEPT !.named = TRUE]
    OBVIOUS
<1>5. p \in Page /\ Follows(p, file[q].pages[at]) /\ p.named
    BY <1>3, <1>4, NamedPage
<1>6. EditsPage(q, at, p)
    BY <1>2, <1>4 DEF EditsPage
<1>7. PageAt(Target(t)).deleted \in BOOLEAN
    BY <1>1, <1>3, <1>k, PageIs DEF PageAt
<1>8. LocalsTyped' /\ OthersRest(t) /\ pc'[t] = "patchFlag"
  <2>1. LocalsTyped
      BY DEF SegInv, CallsInv, LocalsTyped
  <2>2. mu' = mu
      BY <1>2 DEF engineVars
  <2> QED
      BY <1>2, <1>7, <2>1, <2>2 DEF LocalsTyped, OthersRest, Goes, Step
<1>9. patched' = patched
    BY <1>2
<1> QED
    BY <1>1, <1>2, <1>5, <1>6, <1>8, <1>9, <1>0, <1>k, PatchKeeps

LEMMA PatchFlagKeeps ==
    ASSUME SegInv, NEW t \in Writer, PatchFlag(t)
    PROVE  SegInv'
<1>0. pc[t] \in {"patch", "patchFlag"}
    BY DEF PatchFlag
<1>1. PICK q, at : q = Target(t).seg /\ at = Target(t).at
    OBVIOUS
<1>k. PICK k \in DOMAIN placed[t] : IsAt(t, k, q, at)
    BY <1>0, <1>1, TargetIs
<1>2. /\ pc[t] = "patchFlag" /\ Patches(t)
      /\ file' = [file EXCEPT ![q].pages[at].deleted = seen[t]]
      /\ seen' = [seen EXCEPT ![t] = FALSE]
      /\ UNCHANGED <<disk, engineVars, placed, marked, spent>>
    BY <1>1, <1>k DEF PatchFlag
<1>3. file[q].pages[at] \in Page /\ file[q].pages[at].named
    BY <1>0, <1>2, <1>k, TargetPage
<1>4. PICK p : p = [file[q].pages[at] EXCEPT !.deleted = seen[t]]
    OBVIOUS
<1>5. p \in Page /\ Follows(p, file[q].pages[at]) /\ p.named
  <2>1. seen[t] \in BOOLEAN
      BY DEF SegInv, CallsInv
  <2> QED
      BY <1>3, <1>4, <2>1, FlaggedPage
<1>6. EditsPage(q, at, p)
    BY <1>2, <1>4 DEF EditsPage
<1>7. UNCHANGED <<mu, placed>>
    BY <1>2 DEF engineVars
<1>8. /\ LocalsTyped' /\ OthersRest(t)
      /\ pc'[t] \in {"patch", "sync"} /\ seen'[t] = FALSE
      /\ patched'[t] = patched[t] + 1
      /\ pc'[t] = "sync" <=> patched'[t] = Len(placed[t])
    BY <1>2, <1>7, PatchesIs
<1> QED
    BY <1>1, <1>2, <1>5, <1>6, <1>8, <1>0, <1>k, PatchKeeps

LEMMA AppendToNewKeeps ==
    ASSUME SegInv, NEW t \in Writer, AppendToNew(t)
    PROVE  SegInv'
<1>1. PICK q, new : q = nextSeq /\ new = ChunkPages(t, Len(placed[t]) + 1)
    OBVIOUS
<1>2. /\ pc[t] = "append" /\ mu = None /\ up /\ nextSeq \in Segment
      /\ active # None => active.broken = {}
      /\ file' = [(IF active = None THEN file ELSE Flushed(active.buffer))
                       EXCEPT ![nextSeq] = NewFile]
      /\ disk' = [disk EXCEPT ![nextSeq] = NewFile]
      /\ active' = [seq |-> q, broken |-> {}, buffer |-> new]
      /\ nextSeq' = q + 1 /\ Places(t, q, 1)
      /\ UNCHANGED <<up, mu, patched, seen, marked, spent>>
    BY <1>1 DEF AppendToNew, Locked, Works
<1>3. q \in Segment /\ q \in 1..MaxSegment /\ FilesInv /\ EngineInv
    BY <1>1, <1>2 DEF SegInv, Segment
<1>4. NewFile \in SegFile /\ NewFile.pages = << >> /\ NewFile.log = << >> /\ NewFile # None
  <2>1. << >> \in Pages /\ << >> \in Seq(Writer \cup {Torn})
      BY DEF Pages
  <2>2. NewFile \in SegFile
      BY <2>1 DEF NewFile, SegFile, Pages
  <2> QED
      BY <2>2, SegmentNoneAssumption DEF NewFile
<1>5. /\ Grows /\ SameLogs /\ FlagsStay /\ ~Exists(q)
      /\ file'[q] = NewFile
      /\ \A s \in Segment : Exists(s) => s < q /\ file'[s].pages = Content(s)
      /\ \A s \in Segment : Exists(s)' => Exists(s) \/ s = q
  <2>1. /\ Grows /\ SameLogs /\ FlagsStay /\ ~Exists(nextSeq)
        /\ file'[nextSeq] = NewFile
        /\ \A s \in Segment : Exists(s) => s < nextSeq /\ file'[s].pages = Content(s)
        /\ \A s \in Segment : Exists(s)' => Exists(s) \/ s = nextSeq
      BY <1>2, <1>4, Made
  <2> QED
      BY <1>1, <2>1
<1>6. Len(placed[t]) + 1 \in DOMAIN PagesOf[t]
  <2>1. 1 \in Nat \ {0}
      OBVIOUS
  <2> QED
      BY <1>2, <1>3, <2>1, PlacesIs
<1>7. /\ new \in Seq(Page) /\ new \in Pages /\ HasChunk(new, 1, t, Len(placed[t]) + 1)
  <2>1. new \in Seq(Page)
      BY <1>1, <1>6, NewPages
  <2>2. new \in Pages /\ << >> \in Pages
      BY <2>1 DEF Pages
  <2>3. HasChunk(<< >> \o new, Len(<< >>) + 1, t, Len(placed[t]) + 1)
      BY <1>1, <1>6, <2>2, AppendedChunk
  <2>4. << >> \o new = new /\ Len(<< >>) + 1 = 1
      BY <2>1
  <2> QED
      BY <2>1, <2>2, <2>3, <2>4
<1>8. /\ active' \in SegActive /\ active'.seq = q /\ active'.buffer = new
      /\ active'.broken = {} /\ active' # None
  <2>1. active' \in SegActive /\ active'.seq = q /\ active'.buffer = new /\ active'.broken = {}
      BY <1>2, <1>3, <1>7 DEF SegActive
  <2> QED
      BY <2>1, SegmentNoneAssumption
<1>9. Exists(q)'
    BY <1>4, <1>5 DEF Exists
<1>10. EngineInv'
  <2>1. MaxSegment \in Nat
      BY SegmentAssumption
  <2>2. nextSeq' \in 1..MaxSegment + 1 /\ q < nextSeq' /\ q \in Nat
      BY <1>2, <1>3, <2>1
  <2>3. \A s \in Segment : Exists(s)' => s <= q /\ s < nextSeq'
      BY <1>5, <2>2 DEF Segment
  <2>4. up' = TRUE /\ spent' = spent /\ up' \in BOOLEAN
      BY <1>2, <1>3 DEF EngineInv
  <2>5. spent' \in [crashes : Nat, powerLosses : Nat, errors : Nat]
      BY <1>3, <2>4 DEF EngineInv
  <2> QED
      BY <1>8, <1>9, <2>2, <2>3, <2>4, <2>5 DEF EngineInv, Exists
<1>11. ContentGrows
  <2>1. ASSUME NEW s \in Segment, Exists(s)
        PROVE  ~BufferLost(s) /\ Later(Content(s)', Content(s))
    <3>1. ~IsActive(s)'
        BY <1>5, <1>8, <2>1 DEF IsActive
    <3>2. Content(s)' = Content(s)
        BY <1>5, <2>1, <3>1 DEF Content
    <3>3. Content(s) \in Pages
        BY <1>3, <2>1, ContentIs
    <3>4. ~BufferLost(s)
        BY <1>2 DEF BufferLost, IsActive
    <3> QED
        BY <3>2, <3>3, <3>4, LaterItself
  <2> QED
      BY <2>1 DEF ContentGrows
<1>12. Content(q)' = new
  <2>1. Content(q)' = file'[q].pages \o new
      BY <1>8 DEF Content, IsActive
  <2>2. file'[q].pages = << >>
      BY <1>4, <1>5
  <2>3. << >> \o new = new
      BY <1>7
  <2> QED
      BY <2>1, <2>2, <2>3
<1>13. 1 \in Nat \ {0} /\ HasChunk(Content(q)', 1, t, Len(placed[t]) + 1)
    BY <1>7, <1>12
<1> QED
    BY <1>2, <1>3, <1>5, <1>8, <1>9, <1>10, <1>11, <1>13, PlacesKeeps

-----------------------------------------------------------------------------
(* Errors                                                                  *)

LEMMA PartsArePages ==
    ASSUME NEW b \in Seq(Page), NEW out \in PartsOf(b)
    PROVE  out \in Pages
<1>1. ASSUME NEW n \in 0..Len(b) PROVE SubSeq(b, 1, n) \in Seq(Page \cup {Torn})
  <2>1. SubSeq(b, 1, n) \in Seq(Page)
      BY <1>1
  <2> QED
      BY <2>1
<1>2. ASSUME NEW n \in 0..Len(b) - 1
      PROVE  Append(SubSeq(b, 1, n), Torn) \in Seq(Page \cup {Torn})
  <2>1. n \in 0..Len(b)
      BY <1>2
  <2>2. SubSeq(b, 1, n) \in Seq(Page \cup {Torn})
      BY <1>1, <2>1
  <2> QED
      BY <2>2
<1> QED
    BY <1>1, <1>2 DEF PartsOf, Pages

\* After an error the numbers of what was spent are still numbers.
LEMMA SpentIs ==
    ASSUME SegInv, Errs \/ UNCHANGED spent
    PROVE  /\ spent' \in [crashes : Nat, powerLosses : Nat, errors : Nat]
           /\ spent'.powerLosses = spent.powerLosses
<1>1. spent \in [crashes : Nat, powerLosses : Nat, errors : Nat]
    BY DEF SegInv, EngineInv
<1>2. CASE Errs
    BY <1>1, <1>2 DEF Errs
<1>3. CASE UNCHANGED spent
    BY <1>1, <1>3
<1> QED
    BY <1>2, <1>3

\* An error in which the files and the active segment stay.
LEMMA QuietFailKeeps ==
    ASSUME SegInv, NEW t \in Writer, pc[t] \notin {"returned", "patchFlag"}, Fails(t),
           mu \in {None, t}, mu' = None, UNCHANGED fileVars, UNCHANGED <<active, nextSeq, up>>,
           Errs \/ UNCHANGED spent
    PROVE  SegInv'
<1>1. Grows /\ SameLogs /\ FlagsStay
    BY NothingWritten
<1>2. spent' \in [crashes : Nat, powerLosses : Nat, errors : Nat]
      /\ spent'.powerLosses = spent.powerLosses
    BY SpentIs
<1>3. file' = file
    BY DEF fileVars
<1>4. EngineInv'
  <2>1. \A s \in Segment : Exists(s)' => Exists(s)
      BY <1>3 DEF Exists
  <2> QED
      BY <1>1, <1>2, <2>1, EngineStays
<1>5. ContentGrows
    BY <1>1, <1>3, InPlace
<1> QED
    BY <1>1, <1>2, <1>4, <1>5, FailKeeps

\* One in which the buffer, or some of it, gets out.
LEMMA BufferFailKeeps ==
    ASSUME SegInv, NEW t \in Writer, pc[t] \notin {"returned", "patchFlag"}, Fails(t),
           mu \in {None, t}, mu' = None, active # None, active.broken = {}, disk' = disk,
           NEW out \in Pages, file' = Flushed(out), NEW broken \in SUBSET {"buffer", "file"},
           \/ active' = [active EXCEPT !.buffer = << >>] /\ broken = active.broken
           \/ active' = [active EXCEPT !.buffer = << >>, !.broken = broken],
           out = active.buffer \/ "buffer" \in broken,
           UNCHANGED <<nextSeq, up>>, Errs
    PROVE  SegInv'
<1>1. spent' \in [crashes : Nat, powerLosses : Nat, errors : Nat]
      /\ spent'.powerLosses = spent.powerLosses
    BY SpentIs
<1>2. Grows /\ SameLogs /\ FlagsStay /\ EngineInv' /\ active' # None /\ ContentGrows
    BY <1>1, BufferOut
<1> QED
    BY <1>1, <1>2, FailKeeps

LEMMA WriteErrorKeeps ==
    ASSUME SegInv, NEW t \in Writer, WriteError(t)
    PROVE  SegInv'
<1>1. /\ pc[t] \in {"append", "flush", "sync"} /\ mu = None /\ mu' = None
      /\ pc[t] = "append" => active # None
      /\ active.broken = {} /\ disk' = disk
      /\ active' = [active EXCEPT !.buffer = << >>, !.broken = {"buffer"}]
      /\ Errs /\ Fails(t) /\ UNCHANGED <<nextSeq, up>>
    BY DEF WriteError, Locked, NeedsSegment, Works
<1>2. PICK out \in PartsOf(Pending(t)) : file' = Flushed(out)
    BY DEF WriteError
<1>3. active # None
  <2>1. pc[t] # "append" => active # None
      BY <1>1, GoingOn DEF SegInv
  <2> QED
      BY <1>1, <2>1
<1>4. active.buffer \in Seq(Page)
    BY <1>3, ActiveIs
<1>5. Pending(t) \in Seq(Page)
  <2>1. CASE pc[t] = "append"
    <3>1. Len(placed[t]) + 1 \in DOMAIN PagesOf[t]
      <4>1. /\ placed[t] \in Seq(Place) /\ Len(placed[t]) < Len(PagesOf[t])
            /\ PagesOf[t] \in Seq(Nat \ {0})
          BY <2>1, SegmentAssumption DEF SegInv, CallsInv, CallOK
      <4> QED
          BY <4>1
    <3>2. ChunkPages(t, Len(placed[t]) + 1) \in Seq(Page)
        BY <3>1, NewPages
    <3> QED
        BY <1>4, <2>1, <3>2 DEF Pending
  <2>2. CASE pc[t] # "append"
      BY <1>4, <2>2 DEF Pending
  <2> QED
      BY <2>1, <2>2
<1>6. out \in Pages
    BY <1>5, PartsArePages
<1>7. {"buffer"} \in SUBSET {"buffer", "file"} /\ "buffer" \in {"buffer"}
    OBVIOUS
<1> QED
    BY <1>1, <1>2, <1>3, <1>6, <1>7, BufferFailKeeps

LEMMA CreateErrorKeeps ==
    ASSUME SegInv, NEW t \in Writer, CreateError(t)
    PROVE  SegInv'
<1>1. /\ pc[t] = "append" /\ mu = None /\ mu' = None /\ Errs /\ Fails(t)
      /\ UNCHANGED fileVars /\ UNCHANGED <<active, nextSeq, up>>
    BY DEF CreateError, Locked, engineVars
<1> QED
    BY <1>1, QuietFailKeeps

LEMMA RollErrorKeeps ==
    ASSUME SegInv, NEW t \in Writer, RollError(t)
    PROVE  SegInv'
<1>1. /\ pc[t] = "append" /\ mu = None /\ mu' = None /\ active # None
      /\ active.broken = {} /\ disk' = disk
      /\ Errs /\ Fails(t) /\ UNCHANGED <<nextSeq, up>>
    BY DEF RollError, Locked, IsFull, Works
<1>2. active.buffer \in Seq(Page) /\ active.buffer \in Pages
    BY <1>1, ActiveIs
<1>3. CASE /\ file' = Flushed(active.buffer)
           /\ active' = [active EXCEPT !.buffer = << >>, !.broken = {"file"}]
  <2>1. {"file"} \in SUBSET {"buffer", "file"}
      OBVIOUS
  <2> QED
      BY <1>1, <1>2, <1>3, <2>1, BufferFailKeeps
<1>4. CASE /\ \E out \in PartsOf(active.buffer) : file' = Flushed(out)
           /\ active' = [active EXCEPT !.buffer = << >>, !.broken = {"buffer", "file"}]
  <2>1. PICK out \in PartsOf(active.buffer) : file' = Flushed(out)
      BY <1>4
  <2>2. out \in Pages
      BY <1>2, PartsArePages
  <2>3. {"buffer", "file"} \in SUBSET {"buffer", "file"} /\ "buffer" \in {"buffer", "file"}
      OBVIOUS
  <2> QED
      BY <1>1, <1>4, <2>1, <2>2, <2>3, BufferFailKeeps
<1> QED
    BY <1>3, <1>4 DEF RollError

LEMMA LogErrorKeeps ==
    ASSUME SegInv, NEW t \in Writer, LogError(t)
    PROVE  SegInv'
<1>1. /\ pc[t] = "log" /\ mu = t /\ mu' = None /\ disk' = disk
      /\ Errs /\ Fails(t) /\ UNCHANGED <<active, nextSeq, up>>
    BY DEF LogError
<1>2. CASE UNCHANGED file
  <2>1. UNCHANGED fileVars
      BY <1>1, <1>2 DEF fileVars
  <2> QED
      BY <1>1, <2>1, QuietFailKeeps
<1>3. CASE file' = [file EXCEPT ![active.seq].log = Append(@, Torn)]
  <2>1. PICK q : q = active.seq
      OBVIOUS
  <2>2. q \in Segment /\ Exists(q)
    <3>1. active # None
        BY <1>1, GoingOn DEF SegInv
    <3> QED
        BY <2>1, <3>1, ActiveIs
  <2>3. file' = [file EXCEPT ![q].log = Append(@, Torn)] /\ Torn \in Writer \cup {Torn}
      BY <1>3, <2>1
  <2>4. /\ Grows /\ FlagsStay
        /\ \A s \in Segment : file'[s].pages = file[s].pages
        /\ \A w \in Writer, s \in Segment :
              LoggedIn(w, s)' => LoggedIn(w, s) \/ (w = Torn /\ s = q)
      BY <1>1, <2>2, <2>3, LogAppended
  <2>5. SameLogs
      BY <2>4, SegmentNoneAssumption DEF SameLogs
  <2>6. spent' \in [crashes : Nat, powerLosses : Nat, errors : Nat]
        /\ spent'.powerLosses = spent.powerLosses
      BY <1>1, SpentIs
  <2>7. EngineInv'
    <3>1. \A s \in Segment : Exists(s)' => Exists(s)
        BY <2>2, <2>3 DEF Exists, SegInv, FilesInv
    <3> QED
        BY <1>1, <2>4, <2>6, <3>1, EngineStays
  <2>8. ContentGrows
      BY <1>1, <2>4, InPlace
  <2> QED
      BY <1>1, <2>4, <2>5, <2>6, <2>7, <2>8, FailKeeps
<1> QED
    BY <1>2, <1>3 DEF LogError

LEMMA SyncErrorKeeps ==
    ASSUME SegInv, NEW t \in Writer, SyncError(t)
    PROVE  SegInv'
<1>1. /\ mu' = None /\ disk' = disk /\ Errs /\ Fails(t) /\ UNCHANGED <<nextSeq, up>>
    BY DEF SyncError
<1>2. CASE /\ Locked(t, "sync") /\ Works /\ file' = Flushed(active.buffer)
           /\ active' = [active EXCEPT !.buffer = << >>]
  <2>1. pc[t] = "sync" /\ mu = None /\ active.broken = {}
      BY <1>2 DEF Locked, Works
  <2>2. active # None
      BY <2>1, GoingOn DEF SegInv
  <2>3. active.buffer \in Pages
      BY <2>2, ActiveIs
  <2>4. PICK broken : broken = active.broken
      OBVIOUS
  <2>5. broken \in SUBSET {"buffer", "file"}
      BY <2>1, <2>4
  <2> QED
      BY <1>1, <1>2, <2>1, <2>2, <2>3, <2>4, <2>5, BufferFailKeeps
<1>3. CASE mu = t /\ pc[t] = "syncLog" /\ UNCHANGED <<file, active>>
  <2>1. UNCHANGED fileVars
      BY <1>1, <1>3 DEF fileVars
  <2> QED
      BY <1>1, <1>3, <2>1, QuietFailKeeps
<1> QED
    BY <1>2, <1>3 DEF SyncError

LEMMA SegmentUnusableKeeps ==
    ASSUME SegInv, NEW t \in Writer, SegmentUnusable(t)
    PROVE  SegInv'
<1>1. /\ pc[t] \in {"append", "flush", "patch", "sync"} /\ mu = None /\ mu' = None
      /\ Fails(t) /\ UNCHANGED fileVars /\ UNCHANGED <<nextSeq, up, spent>>
    BY DEF SegmentUnusable, Locked
<1>2. CASE active' = active
    BY <1>1, <1>2, QuietFailKeeps
<1>3. CASE active # None /\ active' = [active EXCEPT !.broken = @ \cup {"file"}]
  <2>1. active \in SegActive /\ FilesInv /\ EngineInv
      BY <1>3, ActiveIs
  <2>2. /\ active' \in SegActive /\ active'.seq = active.seq /\ active'.buffer = active.buffer
        /\ active'.broken = active.broken \cup {"file"}
      BY <1>3, <2>1 DEF SegActive
  <2>3. Grows /\ SameLogs /\ FlagsStay /\ file' = file
      BY <1>1, NothingWritten DEF fileVars
  <2>4. spent' \in [crashes : Nat, powerLosses : Nat, errors : Nat]
        /\ spent'.powerLosses = spent.powerLosses
      BY <1>1, SpentIs
  <2>5. EngineInv' /\ active' # None
    <3>1. \A s \in Segment : Exists(s)' => Exists(s)
        BY <2>3 DEF Exists
    <3> QED
        BY <1>1, <1>3, <2>2, <2>3, <2>4, <3>1, EngineStays
  <2>6. ContentGrows
    <3>1. ASSUME NEW s \in Segment, Exists(s), ~BufferLost(s)'
          PROVE  ~BufferLost(s) /\ Later(Content(s)', Content(s))
      <4>1. Content(s)' = Content(s) /\ (BufferLost(s)' <=> BufferLost(s))
          BY <1>3, <2>2, <2>3, <2>5 DEF Content, BufferLost, IsActive
      <4>2. Content(s) \in Pages
          BY <2>1, <3>1, ContentIs
      <4> QED
          BY <3>1, <4>1, <4>2, LaterItself
    <3> QED
        BY <3>1 DEF ContentGrows
  <2> QED
      BY <1>1, <1>3, <2>3, <2>4, <2>5, <2>6, FailKeeps
<1> QED
    BY <1>2, <1>3 DEF SegmentUnusable

-----------------------------------------------------------------------------
(* Deleted flags                                                           *)

\* A page with an owner whose call has returned is that call's.
LEMMA ReturnedPage ==
    ASSUME SegInv, NEW w \in Writer, pc[w] = "returned", NEW i \in DOMAIN placed[w],
           IsPage(placed[w][i])
    PROVE  PageAt(placed[w][i]).of = w
<1>1. PICK s \in Segment : Exists(s) /\ w \in ToSet(disk[s].log)
    BY DEF SegInv, LogsInv
<1>2. LoggedIn(w, s)
    BY <1>1, FileIs DEF SegInv, LoggedIn
<1>3. EntryOK(w, s)
    BY <1>2 DEF SegInv, LogsInv
<1> QED
    BY <1>3 DEF EntryOK

LEMMA MarkDeletedKeeps ==
    ASSUME SegInv, NEW t \in Writer, NEW i \in DOMAIN placed[t], MarkDeleted(t, i)
    PROVE  SegInv'
<1>1. PICK place : place = placed[t][i]
    OBVIOUS
<1>2. PICK q, at : q = place.seg /\ at = place.at
    OBVIOUS
<1>3. IsPage(place)
    BY <1>1 DEF MarkDeleted, Markable, Scanned
<1>4. /\ file' = [file EXCEPT ![q].pages[at].deleted = TRUE]
      /\ disk' = Synced(q, file')
      /\ marked' = IF pc[t] = "returned" THEN marked \cup {place} ELSE marked
      /\ UNCHANGED <<engineVars, writerVars, spent>>
    BY <1>1, <1>2 DEF MarkDeleted, Flag
<1>5. FilesInv /\ EngineInv /\ CallsInv
    BY DEF SegInv
<1>6. /\ q \in Segment /\ Exists(q) /\ at \in DOMAIN file[q].pages
      /\ file[q].pages \in Pages
      /\ file[q].pages[at] # Torn /\ file[q].pages[at] \in Page
  <2>1. q \in Segment
      BY <1>1, <1>2, <1>5, PlaceIs
  <2>2. Exists(q) /\ at \in 1..Len(file[q].pages) /\ file[q].pages[at] # Torn
      BY <1>2, <1>3 DEF IsPage, PageAt
  <2>3. file[q].pages \in Pages
      BY <1>5, <2>1, <2>2, FileIs
  <2> QED
      BY <2>1, <2>2, <2>3 DEF Pages
<1>7. PICK p : p = [file[q].pages[at] EXCEPT !.deleted = TRUE]
    OBVIOUS
<1>8. /\ p \in Page /\ Follows(p, file[q].pages[at]) /\ p.of = file[q].pages[at].of
      /\ p.deleted /\ p # Torn
  <2>1. p \in Page /\ Follows(p, file[q].pages[at]) /\ p.of = file[q].pages[at].of
    <3>1. TRUE \in BOOLEAN
        OBVIOUS
    <3> QED
        BY <1>6, <1>7, <3>1, FlaggedPage
  <2>2. p.deleted
      BY <1>6, <1>7 DEF Page
  <2> QED
      BY <2>1, <2>2, SegmentNoneAssumption
<1>9. EditsPage(q, at, p)
    BY <1>4, <1>7 DEF EditsPage
<1>10. /\ Grows /\ SameLogs
       /\ file'[q].pages = [file[q].pages EXCEPT ![at] = p]
       /\ \A s \in Segment : s # q => file'[s] = file[s]
       /\ \A s \in Segment : Exists(s) => Len(file'[s].pages) = Len(file[s].pages)
       /\ \A m \in marked : ~(m.seg = q /\ m.at = at /\ ~p.deleted)
                     => file'[m.seg].pages[m.at].deleted
  <2>1. disk' = disk \/ disk' = Synced(q, file')
      BY <1>4
  <2>2. q \in Segment /\ Exists(q) /\ at \in DOMAIN file[q].pages
      BY <1>6
  <2>3. p \in Page /\ Follows(p, file[q].pages[at])
      BY <1>8
  <2> QED
      BY <1>9, <2>1, <2>2, <2>3, Edited
<1>11. /\ UNCHANGED <<active, nextSeq, up, mu>> /\ UNCHANGED <<pc, placed, patched, seen>>
       /\ spent' = spent
    BY <1>4 DEF engineVars, writerVars
<1>12. EngineInv' /\ ContentGrows
  <2>1. spent' \in [crashes : Nat, powerLosses : Nat, errors : Nat]
      BY <1>5, <1>11 DEF EngineInv
  <2>2. \A s \in Segment : Exists(s)' => Exists(s)
      BY <1>6, <1>10 DEF Exists
  <2>3. EngineInv'
      BY <1>10, <1>11, <2>1, <2>2, EngineStays
  <2>4. ContentGrows
      BY <1>10, <1>11, InPlace
  <2> QED
      BY <2>3, <2>4
<1>13. Steady(None)
  <2>1. LocalsTyped' /\ OthersRest(None)
      BY <1>5, <1>11 DEF LocalsTyped, OthersRest, CallsInv
  <2>2. None \notin Writer
      BY SegmentNoneAssumption
  <2> QED
      BY <1>10, <1>11, <1>12, <2>1, <2>2 DEF Steady
<1>14. ASSUME pc[t] = "returned" PROVE MarkOK(place)'
  <2>1. disk'[q].pages = file'[q].pages
      BY <1>4, <1>6, SyncedIs
  <2>2. at \in DOMAIN file'[q].pages /\ file'[q].pages[at] = p
      BY <1>6, <1>10
  <2>3. file[q].pages[at].of = t
      BY <1>1, <1>2, <1>3, <1>14, ReturnedPage DEF PageAt
  <2>4. pc'[t] = "returned" /\ \E k \in DOMAIN placed'[t] : place = placed'[t][k]
      BY <1>1, <1>11, <1>14
  <2>5. PageAt(place)' = p
      BY <1>2, <2>2 DEF PageAt
  <2>6. p.of = t
      BY <1>8, <2>3
  <2> QED
      BY <1>2, <1>8, <2>1, <2>2, <2>4, <2>5, <2>6 DEF MarkOK
<1>15. \A m \in marked' : \/ m \in marked /\ file'[m.seg].pages[m.at].deleted
                          \/ MarkOK(m)'
  <2>1. \A m \in marked : file'[m.seg].pages[m.at].deleted
      BY <1>8, <1>10
  <2> QED
      BY <1>4, <1>14, <2>1
<1>16. \A w \in Writer, s \in Segment : LoggedIn(w, s)' => LoggedIn(w, s)
    BY <1>10 DEF SameLogs
<1> QED
    BY <1>13, <1>15, <1>16, SegmentNoneAssumption, SteadyKeeps

-----------------------------------------------------------------------------
(* Stopping and starting                                                   *)

\* What is left of the calls.
LEMMA StoppedCalls ==
    ASSUME SegInv, Stops, \A s \in Segment : Exists(s) => file'[s] # None
    PROVE  /\ CallsInv' /\ ChunksInv' /\ placed' = placed /\ marked' = marked
           /\ \A w \in Writer : /\ pc'[w] = "returned" <=> pc[w] = "returned"
                                /\ pc'[w] # "syncLog"
                                /\ pc[w] \in Settled => pc'[w] \in {"returned", "failed"}
<1>1. /\ mu' = None /\ UNCHANGED <<placed, patched, marked>>
      /\ pc' = [w \in Writer |-> IF Busy(w) THEN "failed" ELSE pc[w]]
      /\ seen' = [w \in Writer |-> FALSE]
    BY DEF Stops
<1>2. CallsInv /\ FilesInv
    BY DEF SegInv
<1>3. ASSUME NEW w \in Writer
      PROVE  /\ pc'[w] \in {"append", "returned", "failed"}
             /\ pc'[w] = "returned" <=> pc[w] = "returned"
             /\ pc'[w] = "append" => pc[w] = "append" /\ placed[w] = << >>
             /\ pc[w] \in Settled => pc'[w] \in {"returned", "failed"}
  <2>1. pc[w] \in Step /\ pc'[w] = IF Busy(w) THEN "failed" ELSE pc[w]
      BY <1>1, <1>2 DEF CallsInv
  <2>2. pc[w] \notin {"append", "failed"} => placed[w] # << >>
      BY <1>2, GoingOn
  <2> QED
      BY <2>1, <2>2 DEF Busy, Step, Settled
<1>4. LocalsTyped'
  <2>1. pc' \in [Writer -> Step]
      BY <1>1, <1>2 DEF CallsInv, Step
  <2>2. seen' \in [Writer -> BOOLEAN]
      BY <1>1
  <2> QED
      BY <1>1, <1>2, <2>1, <2>2 DEF LocalsTyped, CallsInv
<1>5. ASSUME NEW w \in Writer PROVE CallOK(w)'
  <2>1. CallOK(w)
      BY <1>2 DEF CallsInv
  <2>2. \A k \in DOMAIN placed'[w] : file'[placed'[w][k].seg] # None
    <3>1. ASSUME NEW k \in DOMAIN placed[w] PROVE file'[placed[w][k].seg] # None
      <4>1. placed[w][k].seg \in Segment
          BY <1>2, PlaceIs
      <4>2. Exists(placed[w][k].seg)
          BY <2>1 DEF CallOK
      <4> QED
          BY <4>1, <4>2
    <3> QED
        BY <1>1, <3>1
  <2>3. mu' # w
      BY <1>1, SegmentNoneAssumption
  <2>4. seen'[w] = FALSE
      BY <1>1
  <2>5. pc'[w] = "returned" => Len(placed[w]) = Len(PagesOf[w]) /\ patched[w] = Len(placed[w])
      BY <1>3, <2>1 DEF CallOK
  <2>6. pc'[w] = "append" => Len(placed[w]) < Len(PagesOf[w]) /\ patched[w] = 0
      BY <1>3, <2>1 DEF CallOK
  <2>7. ~Busy(w)'
      BY <1>1, <1>3 DEF Busy
  <2>8. Len(placed[w]) <= Len(PagesOf[w]) /\ placed' = placed /\ patched' = patched
      BY <1>1, <2>1 DEF CallOK
  <2> QED
      BY <1>3, <2>2, <2>3, <2>4, <2>5, <2>6, <2>7, <2>8 DEF CallOK, Exists
<1>6. ASSUME NEW w \in Writer, NEW k \in DOMAIN placed'[w] PROVE ChunkOK(w, k)'
  <2>1. pc'[w] # "append"
      BY <1>1, <1>3, <1>6
  <2>2. pc'[w] \notin Unwritten /\ pc'[w] \notin Writing /\ pc'[w] \notin {"log", "syncLog"}
      BY <1>3, <2>1 DEF Unwritten, Writing
  <2> QED
      BY <2>2 DEF ChunkOK
<1>7. \A w \in Writer : pc'[w] # "syncLog"
    BY <1>3
<1> QED
    BY <1>1, <1>3, <1>4, <1>5, <1>6, <1>7 DEF CallsInv, ChunksInv, LocalsTyped

LEMMA StoppedEngine ==
    ASSUME SegInv, Stops, spent' \in [crashes : Nat, powerLosses : Nat, errors : Nat]
    PROVE  EngineInv'
BY DEF Stops, EngineInv, SegInv

\* A stop in which no page is lost that the system had.
LEMMA StopKeeps ==
    ASSUME SegInv, Stops, Grows, SameLogs, FlagsStay,
           spent' \in [crashes : Nat, powerLosses : Nat, errors : Nat],
           spent'.powerLosses = spent.powerLosses
    PROVE  SegInv'
<1>1. FilesInv' /\ EngineInv'
    BY GrowsKeepsFiles, StoppedEngine DEF SegInv
<1>2. \A s \in Segment : Exists(s) => file'[s] # None
    BY DEF Grows
<1>3. /\ CallsInv' /\ ChunksInv' /\ placed' = placed /\ marked' = marked
      /\ \A w \in Writer : /\ pc'[w] = "returned" <=> pc[w] = "returned"
                           /\ pc'[w] # "syncLog"
                           /\ pc[w] \in Settled => pc'[w] \in {"returned", "failed"}
    BY <1>2, StoppedCalls
<1>4. ASSUME NEW w \in Writer, NEW s \in Segment, LoggedIn(w, s)' PROVE EntryOK(w, s)'
  <2>1. LoggedIn(w, s)
      BY <1>4 DEF SameLogs
  <2>2. pc[w] \in Settled
      BY <2>1 DEF SegInv, LogsInv, EntryOK, Settled
  <2>3. pc'[w] \in Settled /\ placed'[w] = placed[w]
      BY <1>3, <2>2 DEF Settled
  <2> QED
      BY <2>1, <2>3, EntriesStay
<1>5. LogsInv'
  <2>1. ASSUME NEW w \in Writer, pc'[w] = "returned"
        PROVE  \E s \in Segment : Exists(s)' /\ w \in ToSet(disk'[s].log)
    <3>1. pc[w] = "returned"
        BY <1>3, <2>1
    <3> QED
        BY <3>1, ReturnedStays
  <2> QED
      BY <1>3, <1>4, <2>1 DEF LogsInv
<1>6. MarksInv'
  <2>1. ASSUME NEW place \in marked PROVE MarkOK(place)'
    <3>1. file'[place.seg].pages[place.at].deleted
        BY DEF FlagsStay
    <3>2. \A w \in Writer : pc[w] = "returned" => pc'[w] = "returned" /\ placed'[w] = placed[w]
        BY <1>3
    <3> QED
        BY <3>1, <3>2, MarksStay
  <2> QED
      BY <1>3, <2>1 DEF MarksInv
<1> QED
    BY <1>1, <1>3, <1>5, <1>6 DEF SegInv

LEMMA CrashKeeps ==
    ASSUME SegInv, Crash
    PROVE  SegInv'
<1>1. Stops /\ disk' = disk /\ spent' = [spent EXCEPT !.crashes = @ + 1]
    BY DEF Crash
<1>2. spent' \in [crashes : Nat, powerLosses : Nat, errors : Nat]
      /\ spent'.powerLosses = spent.powerLosses
    BY <1>1 DEF SegInv, EngineInv
<1>3. Grows /\ SameLogs /\ FlagsStay
  <2>1. CASE active = None
    <3>1. UNCHANGED fileVars
        BY <1>1, <2>1 DEF Crash, fileVars
    <3> QED
        BY <3>1, NothingWritten
  <2>2. CASE active # None
    <3>1. PICK out \in PartsOf(active.buffer) : file' = Flushed(out)
        BY <2>2 DEF Crash
    <3>2. out \in Pages
        BY <2>2, ActiveIs, PartsArePages
    <3> QED
        BY <1>1, <2>2, <3>1, <3>2, Written
  <2> QED
      BY <2>1, <2>2
<1> QED
    BY <1>1, <1>2, <1>3, StopKeeps

LEMMA CrashInCreateKeeps ==
    ASSUME SegInv, CrashInCreate
    PROVE  SegInv'
<1>1. Stops /\ up /\ nextSeq \in Segment /\ spent' = [spent EXCEPT !.crashes = @ + 1]
      /\ file' = [(IF active = None THEN file ELSE Flushed(active.buffer))
                     EXCEPT ![nextSeq] = Headless]
      /\ disk' = [disk EXCEPT ![nextSeq] = Headless]
    BY DEF CrashInCreate
<1>2. spent' \in [crashes : Nat, powerLosses : Nat, errors : Nat]
      /\ spent'.powerLosses = spent.powerLosses
    BY <1>1 DEF SegInv, EngineInv
<1>3. Headless \in SegFile /\ Headless.pages = << >> /\ Headless.log = << >>
  <2>1. NewFile \in SegFile /\ NewFile.pages = << >> /\ NewFile.log = << >>
      BY DEF NewFile, SegFile
  <2> QED
      BY <2>1 DEF Headless, SegFile
<1>4. Grows /\ SameLogs /\ FlagsStay
    BY <1>1, <1>3, Made
<1> QED
    BY <1>1, <1>2, <1>4, StopKeeps

LEMMA CloseKeeps ==
    ASSUME SegInv, Close
    PROVE  SegInv'
<1>1. Stops /\ disk' = disk /\ spent' = spent
      /\ file' = IF active = None THEN file ELSE Flushed(active.buffer)
    BY DEF Close
<1>2. spent' \in [crashes : Nat, powerLosses : Nat, errors : Nat]
      /\ spent'.powerLosses = spent.powerLosses
    BY <1>1 DEF SegInv, EngineInv
<1>3. Grows /\ SameLogs /\ FlagsStay
  <2>1. CASE active = None
    <3>1. UNCHANGED fileVars
        BY <1>1, <2>1 DEF fileVars
    <3> QED
        BY <3>1, NothingWritten
  <2>2. CASE active # None
    <3>1. active.buffer \in Pages
        BY <2>2, ActiveIs
    <3> QED
        BY <1>1, <2>2, <3>1, Written
  <2> QED
      BY <2>1, <2>2
<1> QED
    BY <1>1, <1>2, <1>3, StopKeeps

\* A bounded set of numbers that is not empty has a greatest one.
LEMMA Greatest ==
    ASSUME NEW N \in Nat, NEW S \in SUBSET (0..N), S # {}
    PROVE  Max(S) \in S /\ \A n \in S : n <= Max(S)
<1>1. PICK m \in S : \A n \in S : n <= m
  <2> DEFINE T == {N - x : x \in S}
  <2>1. T \subseteq Nat /\ T # {}
    <3>1. \A x \in S : N - x \in Nat
        OBVIOUS
    <3> QED
        BY <3>1
  <2>2. PICK l \in T : \A j \in T : <<j, l>> \notin OpToRel(<, Nat)
      BY <2>1, NatLessThanWellFounded, WFMin
  <2>3. \A j \in T : l <= j
    <3> HIDE DEF T
    <3>1. ASSUME NEW j \in T PROVE ~(j < l)
        BY <2>1, <2>2, <3>1 DEF OpToRel
    <3> QED
        BY <2>1, <3>1
  <2>4. PICK m \in S : l = N - m
      OBVIOUS
  <2>5. \A n \in S : N - m <= N - n
      BY <2>3, <2>4
  <2> QED
      BY <2>4, <2>5
<1> DEFINE Is(x) == \A y \in S : x >= y
<1>2. Is(m)
    BY <1>1
<1>3. Max(S) = CHOOSE x \in S : \A y \in S : x >= y
    BY DEF Max
<1>4. Max(S) \in S /\ \A y \in S : Max(S) >= y
    BY <1>2, <1>3
<1> QED
    BY <1>4

LEMMA SeqIs ==
    ASSUME NEW S, NEW n \in Nat, NEW f, f = [j \in 1..n |-> f[j]], \A j \in 1..n : f[j] \in S
    PROVE  f \in Seq(S) /\ Len(f) = n
<1>1. f \in [1..n -> S]
    BY Zenon
<1> QED
    BY <1>1

LEMMA SeqOfMore ==
    ASSUME NEW A, NEW B, A \subseteq B, NEW s \in Seq(A)
    PROVE  s \in Seq(B)
<1>1. Len(s) \in Nat /\ s = [j \in 1..Len(s) |-> s[j]] /\ \A j \in 1..Len(s) : s[j] \in A
    OBVIOUS
<1>2. \A j \in 1..Len(s) : s[j] \in B
    BY <1>1
<1> QED
    BY <1>1, <1>2, SeqIs

LEMMA StartIs ==
    ASSUME NEW S, NEW s \in Seq(S), NEW n \in 0..Len(s)
    PROVE  /\ SubSeq(s, 1, n) \in Seq(S) /\ Len(SubSeq(s, 1, n)) = n
           /\ \A j \in 1..n : SubSeq(s, 1, n)[j] = s[j]
<1>1. SubSeq(s, 1, n) = [j \in 1..n |-> s[j]]
    OBVIOUS
<1>2. n \in Nat /\ \A j \in 1..n : s[j] \in S
    OBVIOUS
<1> QED
    BY <1>1, <1>2

\* What is left of a segment after a power loss.
PagesLeft(s, kept) ==
    [j \in 1..Max({Len(disk[s].pages)} \cup {p[2] : p \in {q \in kept : q[1] = s}}) |->
        IF <<s, j>> \in kept THEN file[s].pages[j]
        ELSE IF j <= Len(disk[s].pages) THEN disk[s].pages[j] ELSE Torn]

LogLeft(s, cut, torn) ==
    LET whole == Max({Len(disk[s].log), Len(file[s].log) - cut})
    IN SubSeq(file[s].log, 1, whole)
         \o (IF torn /\ whole < Len(file[s].log) THEN <<Torn>> ELSE << >>)

\* Its pages: those of the disk, and some that were not synced.
LEMMA LostPages ==
    ASSUME SegInv, NEW s \in Segment, Exists(s), NEW kept \in SUBSET Unsynced, NEW pages,
           pages = PagesLeft(s, kept)
    PROVE  /\ pages \in Pages /\ Len(disk[s].pages) <= Len(pages)
           /\ \A j \in DOMAIN disk[s].pages : pages[j] \in {file[s].pages[j], disk[s].pages[j]}
           /\ \A j \in DOMAIN pages :
                 pages[j] # Torn => /\ j \in DOMAIN file[s].pages
                                    /\ pages[j] \in {file[s].pages[j], disk[s].pages[j]}
                                    /\ file[s].pages[j] # Torn
                                    /\ pages[j].of = file[s].pages[j].of
<1> DEFINE now  == file[s].pages
           then == disk[s].pages
           ends == {Len(then)} \cup {p[2] : p \in {q \in kept : q[1] = s}}
           last == Max(ends)
<1>1. now \in Pages /\ then \in Pages /\ Later(now, then)
    BY FileIs DEF SegInv
<1>2. /\ Len(now) \in Nat /\ Len(then) \in 0..Len(now)
      /\ DOMAIN now = 1..Len(now) /\ DOMAIN then = 1..Len(then)
    BY <1>1 DEF Later, Pages
<1>3. ASSUME NEW p \in kept, p[1] = s PROVE p[2] \in 1..Len(now)
  <2>1. p \in UNION {{q} \X DOMAIN file[q].pages : q \in {r \in Segment : Exists(r)}}
      BY <1>3 DEF Unsynced
  <2>2. PICK q \in Segment : p \in {q} \X DOMAIN file[q].pages
      BY <2>1
  <2>3. q = s /\ p[2] \in DOMAIN file[q].pages
      BY <1>3, <2>2
  <2> QED
      BY <1>2, <2>3
<1>4. ends \in SUBSET (0..Len(now)) /\ Len(then) \in ends
    BY <1>2, <1>3
<1> HIDE DEF ends
<1>5. last \in 0..Len(now) /\ Len(then) <= last
    BY <1>2, <1>4, Greatest
<1> HIDE DEF last
<1>6. pages = [j \in 1..last |-> IF <<s, j>> \in kept THEN now[j]
                                 ELSE IF j <= Len(then) THEN then[j] ELSE Torn]
    BY DEF last, ends, PagesLeft
<1>7. ASSUME NEW j \in 1..last
      PROVE  \/ pages[j] = now[j]
             \/ j \in 1..Len(then) /\ pages[j] = then[j]
             \/ j \notin 1..Len(then) /\ pages[j] = Torn
  <2>1. pages[j] = IF <<s, j>> \in kept THEN now[j]
                   ELSE IF j <= Len(then) THEN then[j] ELSE Torn
      BY <1>6
  <2>2. j \in Nat /\ Len(then) \in Nat /\ j >= 1
      BY <1>2, <1>5
  <2> HIDE DEF now, then
  <2> QED
      BY <2>1, <2>2
<1>8. DOMAIN pages = 1..last /\ last \in Nat /\ \A j \in 1..last : j \in 1..Len(now)
    BY <1>2, <1>5, <1>6
<1> HIDE <1>6
<1>9. ASSUME NEW j \in 1..last PROVE pages[j] \in Page \cup {Torn}
  <2>1. now[j] \in Page \cup {Torn}
      BY <1>1, <1>8, <1>9 DEF Pages
  <2>2. j \in 1..Len(then) => then[j] \in Page \cup {Torn}
      BY <1>1 DEF Pages
  <2> QED
      BY <1>7, <1>9, <2>1, <2>2
<1>10. pages \in Pages /\ Len(pages) = last
  <2>1. pages = [j \in 1..last |-> pages[j]]
      BY <1>6, Zenon
  <2>2. QED
    <3>1. last \in Nat /\ \A j \in 1..last : pages[j] \in Page \cup {Torn}
        BY <1>8, <1>9, Zenon
    <3>2. pages \in Seq(Page \cup {Torn}) /\ Len(pages) = last
        BY <2>1, <3>1, SeqIs
    <3> QED
        BY <3>2, Zenon DEF Pages
<1>11. ASSUME NEW j \in DOMAIN then PROVE pages[j] \in {now[j], then[j]}
  <2>1. j \in 1..Len(then) /\ j \in 1..last
      BY <1>2, <1>5, <1>11
  <2> QED
      BY <1>7, <2>1
<1>12. ASSUME NEW j \in DOMAIN pages, pages[j] # Torn
       PROVE  /\ j \in DOMAIN now /\ pages[j] \in {now[j], then[j]} /\ now[j] # Torn
              /\ pages[j].of = now[j].of
  <2>1. j \in 1..last /\ j \in DOMAIN now
      BY <1>2, <1>8, <1>12
  <2>2. CASE pages[j] = now[j]
      BY <1>12, <2>1, <2>2
  <2>3. CASE j \in 1..Len(then) /\ pages[j] = then[j]
    <3>1. Follows(now[j], then[j])
        BY <1>1, <1>2, <2>3 DEF Later
    <3> QED
        BY <1>12, <2>1, <2>3, <3>1 DEF Follows
  <2> QED
      BY <1>7, <1>12, <2>1, <2>2, <2>3
<1> QED
    BY <1>5, <1>10, <1>11, <1>12

\* Its log: a prefix of what it was, with all that was synced, and perhaps a torn entry.
LEMMA LostLog ==
    ASSUME SegInv, NEW s \in Segment, Exists(s), NEW cut \in 0..1, NEW torn \in BOOLEAN,
           NEW log, log = LogLeft(s, cut, torn)
    PROVE  /\ log \in Seq(Writer \cup {Torn})
           /\ ToSet(disk[s].log) \subseteq ToSet(log)
           /\ \A w \in Writer : w \in ToSet(log) => w \in ToSet(file[s].log)
<1>1. PICK now, then : now = file[s].log /\ then = disk[s].log
    OBVIOUS
<1>w. PICK whole : whole = Max({Len(then), Len(now) - cut})
    OBVIOUS
<1>2. /\ now \in Seq(Writer \cup {Torn}) /\ then \in Seq(Writer \cup {Torn})
      /\ IsPrefix(then, now)
    BY <1>1, FileIs DEF SegInv
<1>3. /\ Len(now) \in Nat /\ Len(then) \in Nat /\ Len(then) <= Len(now)
      /\ \A j \in 1..Len(then) : then[j] = now[j]
    BY <1>2, PrefixIs
<1>4. whole \in 0..Len(now) /\ Len(then) <= whole
  <2> DEFINE ends == {Len(then), Len(now) - cut}
             least == Len(now) - cut
  <2>1. least \in Int /\ least <= Len(now)
      BY <1>3
  <2>2. \E x \in ends : \A y \in ends : x >= y
      BY <1>3, <2>1
  <2>3. Max(ends) \in ends /\ \A y \in ends : Max(ends) >= y
      BY <2>2 DEF Max
  <2>4. whole = Max(ends)
      BY <1>w
  <2> QED
      BY <1>3, <2>1, <2>3, <2>4
<1>5. PICK kept : kept = SubSeq(now, 1, whole)
    OBVIOUS
<1>6. /\ kept \in Seq(Writer \cup {Torn}) /\ Len(kept) = whole
      /\ \A j \in 1..whole : kept[j] = now[j]
    BY <1>2, <1>4, <1>5, StartIs, Zenon
<1>7. log = kept \/ log = Append(kept, Torn)
  <2>1. log = kept \o (IF torn /\ whole < Len(now) THEN <<Torn>> ELSE << >>)
      BY <1>1, <1>w, <1>5 DEF LogLeft
  <2>2. kept \o << >> = kept /\ kept \o <<Torn>> = Append(kept, Torn)
      BY <1>6
  <2> QED
      BY <2>1, <2>2
<1>8. log \in Seq(Writer \cup {Torn}) /\ ToSet(log) \in {ToSet(kept), ToSet(kept) \cup {Torn}}
  <2>1. CASE log = kept
      BY <1>6, <2>1, Zenon
  <2>2. CASE log = Append(kept, Torn)
    <3>1. Torn \in Writer \cup {Torn}
        OBVIOUS
    <3>2. /\ Append(kept, Torn) \in Seq(Writer \cup {Torn})
          /\ ToSet(Append(kept, Torn)) = ToSet(kept) \cup {Torn}
        BY <1>6, <3>1, PrefixAppended
    <3> QED
        BY <2>2, <3>2, Zenon
  <2> QED
      BY <1>7, <2>1, <2>2
<1>9. IsPrefix(then, kept) /\ IsPrefix(kept, now)
  <2>1. /\ Len(then) <= Len(kept) /\ \A j \in 1..Len(then) : then[j] = kept[j]
        /\ Len(kept) <= Len(now) /\ \A j \in 1..Len(kept) : kept[j] = now[j]
    <3>1. \A j \in 1..Len(then) : j \in 1..whole
        BY <1>3, <1>4
    <3>2. Len(then) <= whole /\ whole <= Len(now)
        BY <1>4
    <3> QED
        BY <1>3, <1>6, <3>1, <3>2, Zenon
  <2> QED
      BY <1>2, <1>6, <2>1, PrefixIs
<1>10. ToSet(then) \subseteq ToSet(kept) /\ ToSet(kept) \subseteq ToSet(now)
    BY <1>2, <1>6, <1>9, PrefixOf
<1> QED
    BY <1>1, <1>8, <1>10, SegmentNoneAssumption

\* All that was synced is there, and nothing that was not written.
Left(s, f) ==
    /\ f \in SegFile /\ f # None /\ f.pages \in Pages /\ f.log \in Seq(Writer \cup {Torn})
    /\ Later(f.pages, disk[s].pages)
    /\ \A j \in DOMAIN disk[s].pages : f.pages[j] \in {file[s].pages[j], disk[s].pages[j]}
    /\ \A j \in DOMAIN f.pages :
          f.pages[j] # Torn => /\ j \in DOMAIN file[s].pages /\ file[s].pages[j] # Torn
                               /\ f.pages[j].of = file[s].pages[j].of
    /\ ToSet(disk[s].log) \subseteq ToSet(f.log)
    /\ \A w \in Writer : w \in ToSet(f.log) => w \in ToSet(file[s].log)

LEMMA LossIs ==
    ASSUME SegInv, NEW s \in Segment, Exists(s), NEW kept \in SUBSET Unsynced,
           NEW cut \in 0..1, NEW torn \in BOOLEAN, NEW f, f = AfterLoss(s, kept, cut, torn)
    PROVE  Left(s, f)
<1>p. PICK pages, log : pages = PagesLeft(s, kept) /\ log = LogLeft(s, cut, torn)
    OBVIOUS
<1>1. f = [header |-> file[s].header, pages |-> pages, log |-> log]
    BY <1>p, Zenon DEF AfterLoss, PagesLeft, LogLeft
<1>2. /\ pages \in Pages /\ Len(disk[s].pages) <= Len(pages)
      /\ \A j \in DOMAIN disk[s].pages : pages[j] \in {file[s].pages[j], disk[s].pages[j]}
      /\ \A j \in DOMAIN pages :
            pages[j] # Torn => /\ j \in DOMAIN file[s].pages
                               /\ pages[j] \in {file[s].pages[j], disk[s].pages[j]}
                               /\ file[s].pages[j] # Torn
                               /\ pages[j].of = file[s].pages[j].of
    BY <1>p, LostPages
<1>3. /\ log \in Seq(Writer \cup {Torn})
      /\ ToSet(disk[s].log) \subseteq ToSet(log)
      /\ \A w \in Writer : w \in ToSet(log) => w \in ToSet(file[s].log)
    BY <1>p, LostLog
<1>4. f.pages = pages /\ f.log = log
    BY <1>1
<1>5. file[s].header \in BOOLEAN
    BY FileIs DEF SegInv, SegFile
<1>6. f \in SegFile
  <2>1. pages \in Seq(Page \cup {Torn})
      BY <1>2 DEF Pages
  <2> QED
      BY <1>1, <1>3, <1>5, <2>1 DEF SegFile
<1>7. Later(pages, disk[s].pages)
  <2>1. /\ file[s].pages \in Pages /\ disk[s].pages \in Pages
        /\ Later(file[s].pages, disk[s].pages)
      BY FileIs DEF SegInv
  <2>2. ASSUME NEW j \in DOMAIN disk[s].pages PROVE Follows(pages[j], disk[s].pages[j])
    <3>1. Follows(file[s].pages[j], disk[s].pages[j])
        BY <2>1 DEF Later
    <3>2. Follows(disk[s].pages[j], disk[s].pages[j])
        BY <2>1, LaterItself DEF Later
    <3>3. pages[j] = file[s].pages[j] \/ pages[j] = disk[s].pages[j]
        BY <1>2
    <3> QED
        BY <3>1, <3>2, <3>3
  <2> QED
      BY <1>2, <2>2 DEF Later
<1> QED
    BY <1>2, <1>3, <1>4, <1>6, <1>7, SegmentNoneAssumption DEF Left

LEMMA PowerLossKeeps ==
    ASSUME SegInv, PowerLoss
    PROVE  SegInv'
<1>1. Stops /\ disk' = file' /\ spent' = [spent EXCEPT !.powerLosses = @ + 1]
    BY DEF PowerLoss
<1>2. PICK kept \in SUBSET Unsynced, cut \in 0..1, torn \in BOOLEAN :
         file' = [s \in Segment |-> IF Exists(s) THEN AfterLoss(s, kept, cut, torn) ELSE None]
    BY DEF PowerLoss
<1>3. spent' \in [crashes : Nat, powerLosses : Nat, errors : Nat] /\ spent'.powerLosses # 0
    BY <1>1 DEF SegInv, EngineInv
<1>4. ASSUME NEW s \in Segment, Exists(s), NEW f, f = file'[s]
      PROVE  /\ f \in SegFile /\ f # None /\ f.pages \in Pages
             /\ f.log \in Seq(Writer \cup {Torn})
             /\ Later(f.pages, disk[s].pages)
             /\ \A j \in DOMAIN disk[s].pages :
                   f.pages[j] \in {file[s].pages[j], disk[s].pages[j]}
             /\ \A j \in DOMAIN f.pages :
                   f.pages[j] # Torn => /\ j \in DOMAIN file[s].pages
                                        /\ file[s].pages[j] # Torn
                                        /\ f.pages[j].of = file[s].pages[j].of
             /\ ToSet(disk[s].log) \subseteq ToSet(f.log)
             /\ \A w \in Writer : w \in ToSet(f.log) => w \in ToSet(file[s].log)
  <2>1. f = AfterLoss(s, kept, cut, torn)
      BY <1>2, <1>4
  <2>2. kept \in SUBSET Unsynced /\ cut \in 0..1 /\ torn \in BOOLEAN
      OBVIOUS
  <2>3. Left(s, f)
      BY <1>4, <2>1, <2>2, LossIs
  <2> QED
      BY <2>3, Zenon DEF Left
<1>5. \A s \in Segment : ~Exists(s) => file'[s] = None
    BY <1>2
<1>6. FilesInv /\ CallsInv
    BY DEF SegInv
<1>7. FilesInv'
  <2>1. file' \in [Segment -> SegFile \cup {None}]
    <3>1. \A s \in Segment : file'[s] \in SegFile \cup {None}
        BY <1>4, <1>5
    <3>2. file' = [s \in Segment |-> file'[s]]
        BY <1>2, Zenon
    <3> QED
        BY <3>1, <3>2, Zenon
  <2>2. ASSUME NEW s \in Segment, file'[s] # None
        PROVE  Later(file'[s].pages, file'[s].pages) /\ IsPrefix(file'[s].log, file'[s].log)
    <3>1. Exists(s)
        BY <1>5, <2>2
    <3>2. file'[s].pages \in Pages /\ file'[s].log \in Seq(Writer \cup {Torn})
        BY <1>4, <3>1
    <3> QED
        BY <3>2, LaterItself, PrefixItself
  <2> QED
      BY <1>1, <2>1, <2>2 DEF FilesInv, Exists
<1>8. EngineInv'
    BY <1>1, <1>3, StoppedEngine
<1>9. /\ CallsInv' /\ ChunksInv' /\ placed' = placed /\ marked' = marked
      /\ \A w \in Writer : /\ pc'[w] = "returned" <=> pc[w] = "returned"
                           /\ pc'[w] # "syncLog"
                           /\ pc[w] \in Settled => pc'[w] \in {"returned", "failed"}
  <2>1. \A s \in Segment : Exists(s) => file'[s] # None
      BY <1>4
  <2> QED
      BY <1>1, <2>1, StoppedCalls
<1>10. ASSUME NEW w \in Writer, NEW s \in Segment, LoggedIn(w, s)' PROVE EntryOK(w, s)'
  <2>1. Exists(s) /\ LoggedIn(w, s)
      BY <1>4, <1>5, <1>10 DEF LoggedIn, Exists
  <2>2. EntryOK(w, s)
      BY <2>1 DEF SegInv, LogsInv
  <2>3. pc'[w] \in {"returned", "failed"}
      BY <1>9, <2>2 DEF EntryOK, Settled
  <2>4. ASSUME NEW i \in DOMAIN placed[w], NEW q, NEW at,
               q = placed[w][i].seg, at = placed[w][i].at
        PROVE  /\ q <= s
               /\ q = s => HasNamed(disk'[s].pages, at, w, i)
               /\ at \in 1..Len(file'[q].pages) /\ file'[q].pages[at] # Torn
                     => file'[q].pages[at].of = w
    <3>1. /\ q <= s
          /\ q = s => HasNamed(disk[s].pages, at, w, i)
          /\ IsPage(placed[w][i]) => PageAt(placed[w][i]).of = w
        BY <2>2, <2>4 DEF EntryOK
    <3>2. q \in Segment /\ Exists(q)
        BY <1>6, <2>4, PlaceIs DEF CallsInv, CallOK
    <3>3. /\ file[q].pages \in Pages /\ disk[q].pages \in Pages
          /\ file'[q].pages \in Pages /\ Later(file'[q].pages, disk[q].pages)
        BY <1>4, <1>6, <3>2, FileIs
    <3>4. ASSUME q = s PROVE HasNamed(disk'[s].pages, at, w, i)
      <4>1. HasChunk(disk[q].pages, at, w, i) /\ disk[q].pages[at].named
          BY <3>1, <3>4 DEF HasNamed
      <4>2. at \in DOMAIN disk[q].pages /\ disk[q].pages[at] # Torn
          BY SMTT(30), <1>6, <2>4, <4>1, FirstPage
      <4>3. HasChunk(file'[q].pages, at, w, i) /\ file'[q].pages[at].named
          BY <3>3, <4>1, <4>2, ChunkStays, NamedStays
      <4> QED
          BY <1>1, <3>4, <4>3 DEF HasNamed
    <3>5. ASSUME at \in 1..Len(file'[q].pages), file'[q].pages[at] # Torn
          PROVE  file'[q].pages[at].of = w
      <4>1. at \in DOMAIN file'[q].pages
          BY <3>3, <3>5 DEF Pages
      <4>2. /\ at \in DOMAIN file[q].pages /\ file[q].pages[at] # Torn
            /\ file'[q].pages[at].of = file[q].pages[at].of
          BY <1>4, <3>2, <3>5, <4>1
      <4>3. IsPage(placed[w][i]) /\ PageAt(placed[w][i]) = file[q].pages[at]
        <5>1. at \in 1..Len(file[q].pages)
            BY <3>3, <4>2 DEF Pages
        <5> QED
            BY <2>4, <3>2, <4>2, <5>1 DEF IsPage, PageAt
      <4> QED
          BY <3>1, <4>2, <4>3
    <3> QED
        BY <3>1, <3>4, <3>5
  <2>5. ASSUME NEW i \in DOMAIN placed'[w]
        PROVE  /\ placed'[w][i].seg <= s
               /\ placed'[w][i].seg = s => HasNamed(disk'[s].pages, placed'[w][i].at, w, i)
               /\ IsPage(placed[w][i])' => PageAt(placed[w][i])'.of = w
      BY <1>9, <2>4, <2>5 DEF IsPage, PageAt
  <2>6. Len(placed'[w]) = Len(PagesOf[w])
      BY <1>9, <2>2 DEF EntryOK
  <2> QED
      BY <1>3, <2>3, <2>5, <2>6 DEF EntryOK
<1>11. LogsInv'
  <2>1. ASSUME NEW w \in Writer, pc'[w] = "returned"
        PROVE  \E s \in Segment : Exists(s)' /\ w \in ToSet(disk'[s].log)
    <3>1. PICK s \in Segment : Exists(s) /\ w \in ToSet(disk[s].log)
        BY <1>9, <2>1 DEF SegInv, LogsInv
    <3>2. Exists(s)' /\ w \in ToSet(disk'[s].log)
        BY <1>1, <1>4, <3>1 DEF Exists
    <3> QED
        BY <3>2
  <2> QED
      BY <1>9, <1>10, <2>1 DEF LogsInv
<1>12. MarksInv'
  <2>1. ASSUME NEW place \in marked, NEW q, NEW at, q = place.seg, at = place.at
        PROVE  MarkOK(place)'
    <3>1. /\ q \in Segment /\ Exists(q) /\ at \in DOMAIN disk[q].pages
          /\ file[q].pages[at] # Torn /\ file[q].pages[at].deleted
        BY <2>1, MarkIs
    <3>2. MarkOK(place)
        BY DEF SegInv, MarksInv
    <3>3. PICK w \in Writer : /\ pc[w] = "returned" /\ PageAt(place).of = w
                              /\ \E i \in DOMAIN placed[w] : place = placed[w][i]
        BY <3>2 DEF MarkOK
    <3>4. /\ disk[q].pages[at] # Torn /\ disk[q].pages[at].deleted
          /\ file[q].pages[at].of = w
        BY <2>1, <3>2, <3>3 DEF MarkOK, PageAt
    <3>5. /\ file[q].pages \in Pages /\ disk[q].pages \in Pages
          /\ file'[q].pages \in Pages /\ Later(file'[q].pages, disk[q].pages)
        BY <1>4, <1>6, <3>1, FileIs
    <3>6. file'[q].pages[at] \in {file[q].pages[at], disk[q].pages[at]}
        BY <1>4, <3>1
    <3>7. at \in DOMAIN file'[q].pages
        BY <3>1, <3>5 DEF Later, Pages
    <3>8. file'[q].pages[at] # Torn /\ file'[q].pages[at].deleted
        BY <3>1, <3>4, <3>6
    <3>9. file'[q].pages[at].of = w
        BY <1>4, <3>1, <3>4, <3>7, <3>8
    <3>10. pc'[w] = "returned" /\ \E i \in DOMAIN placed'[w] : place = placed'[w][i]
        BY <1>9, <3>3
    <3> QED
        BY <1>1, <2>1, <3>7, <3>8, <3>9, <3>10 DEF MarkOK, PageAt
  <2> QED
      BY <1>9, <2>1 DEF MarksInv
<1> QED
    BY <1>7, <1>8, <1>9, <1>11, <1>12 DEF SegInv

\* A step of nobody that leaves the files alone.
LEMMA QuietKeeps ==
    ASSUME SegInv, UNCHANGED <<fileVars, mu, writerVars, marked, spent>>, EngineInv',
           ContentGrows, active # None => active' = active
    PROVE  SegInv'
<1>1. /\ mu' = mu /\ UNCHANGED <<pc, placed, patched, seen>> /\ marked' = marked
      /\ spent' = spent /\ UNCHANGED fileVars
    BY DEF writerVars
<1>2. Grows /\ SameLogs /\ FlagsStay
    BY <1>1, NothingWritten
<1>3. ASSUME NEW u \in Writer, mu = u PROVE active' = active
  <2>1. pc[u] \in {"log", "syncLog"}
      BY <1>3 DEF SegInv, CallsInv, CallOK
  <2>2. active # None
      BY <2>1, GoingOn DEF SegInv
  <2> QED
      BY <2>2
<1>4. Steady(None)
  <2>1. LocalsTyped' /\ OthersRest(None)
      BY <1>1 DEF LocalsTyped, OthersRest, CallsInv, SegInv
  <2>2. None \notin Writer
      BY SegmentNoneAssumption
  <2> QED
      BY <1>1, <1>2, <1>3, <2>1, <2>2 DEF Steady
<1>5. \A m \in marked' : m \in marked /\ file'[m.seg].pages[m.at].deleted
    BY <1>1, <1>2 DEF FlagsStay
<1>6. \A w \in Writer, s \in Segment : LoggedIn(w, s)' => LoggedIn(w, s)
    BY <1>2 DEF SameLogs
<1> QED
    BY <1>4, <1>5, <1>6, SegmentNoneAssumption, SteadyKeeps

LEMMA NewestIs ==
    /\ NewestSegment \in 0..MaxSegment
    /\ NewestSegment # 0 => NewestSegment \in Segment /\ Exists(NewestSegment)
    /\ \A s \in Segment : Exists(s) => s <= NewestSegment
<1> DEFINE S == {0} \cup {s \in Segment : Exists(s)}
<1>1. MaxSegment \in Nat
    BY SegmentAssumption
<1>2. S \in SUBSET (0..MaxSegment) /\ S # {}
    BY <1>1 DEF Segment
<1> HIDE DEF S
<1>3. Max(S) \in S /\ \A n \in S : n <= Max(S)
    BY <1>1, <1>2, Greatest
<1>4. NewestSegment = Max(S)
    BY DEF NewestSegment, S
<1>5. NewestSegment \in S /\ \A n \in S : n <= NewestSegment
    BY <1>3, <1>4
<1>6. NewestSegment \in 0..MaxSegment
    BY <1>2, <1>5
<1> QED
    BY <1>5, <1>6 DEF S, Segment

LEMMA OpenKeeps ==
    ASSUME SegInv, Open
    PROVE  SegInv'
<1>1. PICK n : n = NewestSegment
    OBVIOUS
<1>2. /\ ~up /\ up' = TRUE /\ nextSeq' = n + 1
      /\ active' = IF n = 0 THEN None ELSE [seq |-> n, broken |-> {}, buffer |-> << >>]
      /\ UNCHANGED <<fileVars, mu, writerVars, marked, spent>>
    BY <1>1 DEF Open, Opens
<1>3. /\ n \in 0..MaxSegment
      /\ n # 0 => n \in Segment /\ Exists(n)
      /\ \A s \in Segment : Exists(s) => s <= n
    BY <1>1, NewestIs
<1>4. active = None /\ MaxSegment \in Nat /\ file' = file /\ spent' = spent
      /\ spent \in [crashes : Nat, powerLosses : Nat, errors : Nat]
    BY <1>2, SegmentAssumption DEF SegInv, EngineInv, fileVars
<1>5. ASSUME n # 0
      PROVE  /\ active' \in SegActive /\ active' # None /\ active'.seq = n
             /\ active'.buffer = << >> /\ active'.broken = {}
  <2>1. active' = [seq |-> n, broken |-> {}, buffer |-> << >>]
      BY <1>2, <1>5
  <2>2. << >> \in Seq(Page) /\ {} \in SUBSET {"buffer", "file"}
      OBVIOUS
  <2>3. active' \in SegActive
      BY <1>3, <1>5, <2>1, <2>2 DEF SegActive
  <2> QED
      BY <2>1, <2>3, SegmentNoneAssumption
<1>6. EngineInv'
  <2>1. nextSeq' \in 1..MaxSegment + 1
      BY <1>2, <1>3, <1>4
  <2>2. \A s \in Segment : Exists(s)' => s < nextSeq' /\ s <= n
      BY <1>2, <1>3, <1>4 DEF Exists, Segment
  <2>3. CASE n = 0
    <3>1. active' = None /\ \A s \in Segment : ~Exists(s)'
        BY <1>2, <1>4, <2>2, <2>3 DEF Segment
    <3> QED
        BY <1>2, <1>4, <2>1, <3>1 DEF EngineInv
  <2>4. CASE n # 0
    <3>1. Exists(active.seq)'
        BY <1>3, <1>4, <1>5, <2>4 DEF Exists
    <3> QED
        BY <1>2, <1>4, <1>5, <2>1, <2>2, <2>4, <3>1 DEF EngineInv
  <2> QED
      BY <2>3, <2>4
<1>7. ContentGrows
  <2>1. ASSUME NEW s \in Segment, Exists(s)
        PROVE  ~BufferLost(s) /\ Later(Content(s)', Content(s))
    <3>1. ~BufferLost(s) /\ Content(s) = file[s].pages
        BY <1>4 DEF BufferLost, IsActive, Content
    <3>2. file[s].pages \in Pages
        BY <2>1, FileIs DEF SegInv
    <3>3. CASE IsActive(s)'
      <4>1. active'.buffer = << >>
          BY <1>2, <1>5, <3>3 DEF IsActive
      <4>2. Content(s)' = file[s].pages \o << >>
          BY <1>4, <3>3, <4>1 DEF Content
      <4>3. << >> \in Pages
          BY DEF Pages
      <4> QED
          BY <3>1, <3>2, <4>2, <4>3, LaterAppended
    <3>4. CASE ~IsActive(s)'
      <4>1. Content(s)' = file[s].pages
          BY <1>4, <3>4 DEF Content
      <4> QED
          BY <3>1, <3>2, <4>1, LaterItself
    <3> QED
        BY <3>3, <3>4
  <2> QED
      BY <2>1 DEF ContentGrows
<1> QED
    BY <1>2, <1>4, <1>6, <1>7, QuietKeeps

-----------------------------------------------------------------------------
(* The invariant, and the theorems                                         *)

LEMMA InitEstablishes ==
    ASSUME SegInit
    PROVE  SegInv
<1>1. /\ file = [s \in Segment |-> None] /\ disk = file
      /\ active = None /\ nextSeq = 1 /\ up = TRUE /\ mu = None
      /\ pc = [w \in Writer |-> "append"] /\ placed = [w \in Writer |-> << >>]
      /\ patched = [w \in Writer |-> 0] /\ seen = [w \in Writer |-> FALSE]
      /\ marked = {} /\ spent = [crashes |-> 0, powerLosses |-> 0, errors |-> 0]
    BY DEF SegInit
<1>2. \A s \in Segment : ~Exists(s) /\ disk[s] = None
    BY <1>1 DEF Exists
<1>3. FilesInv
    BY <1>1, <1>2 DEF FilesInv
<1>4. EngineInv
    BY <1>1, <1>2, SegmentAssumption DEF EngineInv
<1>5. CallsInv
  <2>1. /\ pc \in [Writer -> Step] /\ placed \in [Writer -> Seq(Place)]
        /\ patched \in [Writer -> Nat] /\ seen \in [Writer -> BOOLEAN]
        /\ mu \in Writer \cup {None}
      BY <1>1 DEF Step
  <2>2. ASSUME NEW w \in Writer PROVE CallOK(w)
    <3>1. PagesOf[w] \in Seq(Nat \ {0}) /\ PagesOf[w] # << >>
        BY SegmentAssumption
    <3>2. Len(PagesOf[w]) > 0
        BY <3>1
    <3>3. /\ pc[w] = "append" /\ placed[w] = << >> /\ patched[w] = 0 /\ seen[w] = FALSE
          /\ mu # w
        BY <1>1, SegmentNoneAssumption
    <3> QED
        BY <3>2, <3>3 DEF CallOK, Busy
  <2> QED
      BY <2>1, <2>2 DEF CallsInv
<1>6. ChunksInv /\ LogsInv /\ MarksInv
    BY <1>1, <1>2 DEF ChunksInv, LogsInv, MarksInv, LoggedIn
<1> QED
    BY <1>3, <1>4, <1>5, <1>6 DEF SegInv

LEMMA StutterKeeps ==
    ASSUME SegInv, UNCHANGED vars
    PROVE  SegInv'
<1>1. /\ UNCHANGED fileVars /\ UNCHANGED <<active, nextSeq, up, mu, marked, spent>>
      /\ UNCHANGED writerVars /\ file' = file
    BY DEF vars, fileVars, engineVars
<1>2. Grows
    BY <1>1, NothingWritten
<1>3. EngineInv'
  <2>1. spent' \in [crashes : Nat, powerLosses : Nat, errors : Nat]
      BY <1>1 DEF SegInv, EngineInv
  <2>2. \A s \in Segment : Exists(s)' => Exists(s)
      BY <1>1 DEF Exists
  <2> QED
      BY <1>1, <1>2, <2>1, <2>2, EngineStays
<1>4. ContentGrows
    BY <1>1, <1>2, InPlace
<1> QED
    BY <1>1, <1>3, <1>4, QuietKeeps

LEMMA NextKeeps ==
    ASSUME SegInv, [SegNext]_vars
    PROVE  SegInv'
<1>1. ASSUME NEW w \in Writer, AppendToActive(w) \/ AppendToNew(w) PROVE SegInv'
    BY <1>1, AppendToActiveKeeps, AppendToNewKeeps
<1>2. ASSUME NEW w \in Writer,
             Flush(w) \/ PatchActive(w) \/ PatchSealed(w) \/ PatchFlag(w)
      PROVE  SegInv'
    BY <1>2, FlushKeeps, PatchActiveKeeps, PatchSealedKeeps, PatchFlagKeeps
<1>3. ASSUME NEW w \in Writer, Sync(w) \/ AppendWAL(w) \/ SyncWAL(w) PROVE SegInv'
    BY <1>3, SyncKeeps, AppendWALKeeps, SyncWALKeeps
<1>4. ASSUME NEW w \in Writer, WriteError(w) \/ CreateError(w) \/ RollError(w) PROVE SegInv'
    BY <1>4, WriteErrorKeeps, CreateErrorKeeps, RollErrorKeeps
<1>5. ASSUME NEW w \in Writer, LogError(w) \/ SyncError(w) \/ SegmentUnusable(w) PROVE SegInv'
    BY <1>5, LogErrorKeeps, SyncErrorKeeps, SegmentUnusableKeeps
<1>6. ASSUME NEW w \in Writer, NEW i \in DOMAIN placed[w], MarkDeleted(w, i) PROVE SegInv'
    BY <1>6, MarkDeletedKeeps
<1>7. ASSUME Crash \/ CrashInCreate \/ PowerLoss \/ Close \/ Open PROVE SegInv'
    BY <1>7, CrashKeeps, CrashInCreateKeeps, PowerLossKeeps, CloseKeeps, OpenKeeps
<1>8. ASSUME UNCHANGED vars PROVE SegInv'
    BY <1>8, StutterKeeps
<1> QED
    BY <1>1, <1>2, <1>3, <1>4, <1>5, <1>6, <1>7, <1>8, Zenon DEF SegNext

LEMMA SegInvHolds == SegSpec => []SegInv
<1>1. SegInit => SegInv
    BY InitEstablishes
<1>2. SegInv /\ [SegNext]_vars => SegInv'
    BY NextKeeps
<1> QED
    BY <1>1, <1>2, PTL DEF SegSpec

\* A chunk that is whole and named in its file is kept.
LEMMA KeptIs ==
    ASSUME SegInv, NEW w \in Writer, NEW i \in DOMAIN placed[w], NEW s, NEW at,
           s = placed[w][i].seg, at = placed[w][i].at, HasNamed(file[s].pages, at, w, i)
    PROVE  Kept(w, i)
<1>1. CallsInv /\ FilesInv
    BY DEF SegInv
<1>2. /\ s \in Segment /\ Exists(s) /\ at \in Nat \ {0} /\ PagesOf[w][i] \in Nat
      /\ placed[w][i] \in Place
  <2>1. /\ s \in Segment /\ at \in Nat \ {0} /\ PagesOf[w][i] \in Nat
        /\ placed[w] \in Seq(Place)
      BY <1>1, PlaceIs
  <2>2. Exists(s)
      BY <1>1 DEF CallsInv, CallOK
  <2>3. placed[w][i] \in Place
      BY <2>1
  <2> QED
      BY <2>1, <2>2, <2>3
<1>3. file[s].pages \in Pages
    BY <1>1, <1>2, FileIs
<1>4. ASSUME NEW part \in 1..PagesOf[w][i], NEW page,
             page = [placed[w][i] EXCEPT !.at = @ + part - 1]
      PROVE  /\ IsPage(page)
             /\ <<PageAt(page).of, PageAt(page).chunk, PageAt(page).part>> = <<w, i, part>>
  <2>1. page.seg = s /\ page.at = at + part - 1
      BY <1>2, <1>4 DEF Place
  <2>2. PICK k : k = at + part - 1
      OBVIOUS
  <2>3. /\ k \in DOMAIN file[s].pages /\ file[s].pages[k] # Torn
        /\ file[s].pages[k].of = w /\ file[s].pages[k].chunk = i
        /\ file[s].pages[k].part = part
      BY <2>2 DEF HasNamed, HasChunk
  <2>4. k \in 1..Len(file[s].pages)
      BY SMTT(30), <1>3, <2>3 DEF Pages
  <2>5. PageAt(page) = file[s].pages[k] /\ page.seg = s /\ page.at = k
      BY <2>1, <2>2 DEF PageAt
  <2> QED
      BY <1>2, <2>3, <2>4, <2>5 DEF IsPage
<1>5. ReadChunk(w, i)
    BY <1>4 DEF ReadChunk
<1>6. PageAt(placed[w][i]).named
    BY DEF HasNamed, PageAt
<1> QED
    BY <1>5, <1>6 DEF Kept

\* A logged chunk is kept where the sync of the log entry is sure to have reached it.
LEMMA LoggedIsKept ==
    ASSUME SegInv, NEW w \in Writer, NEW s \in Segment, LoggedIn(w, s),
           NEW i \in DOMAIN placed[w], SurelySynced(w, i, s)
    PROVE  Kept(w, i)
<1>1. EntryOK(w, s) /\ Exists(s) /\ FilesInv /\ CallsInv
    BY DEF SegInv, LogsInv, LoggedIn
<1>2. PICK q, at : q = placed[w][i].seg /\ at = placed[w][i].at
    OBVIOUS
<1>3. /\ q = s => HasNamed(disk[s].pages, at, w, i)
      /\ spent.powerLosses = 0 => HasNamed(file[q].pages, at, w, i)
    BY <1>1, <1>2 DEF EntryOK
<1>4. CASE q = s
  <2>1. HasChunk(disk[s].pages, at, w, i) /\ disk[s].pages[at].named
      BY <1>3, <1>4 DEF HasNamed
  <2>2. at \in DOMAIN disk[s].pages /\ disk[s].pages[at] # Torn
      BY <1>1, <1>2, <2>1, FirstPage
  <2>3. /\ file[s].pages \in Pages /\ disk[s].pages \in Pages
        /\ Later(file[s].pages, disk[s].pages)
      BY <1>1, FileIs
  <2>4. HasNamed(file[q].pages, at, w, i)
      BY <1>4, <2>1, <2>2, <2>3, ChunkStays, NamedStays DEF HasNamed
  <2> QED
      BY <1>2, <2>4, KeptIs
<1>5. CASE spent.powerLosses = 0
    BY <1>2, <1>3, <1>5, KeptIs
<1> QED
    BY <1>2, <1>4, <1>5 DEF SurelySynced

\* The state of the engine, of its files and of the calls of WriteBlob has its types; what the
\* disk has is no more than what the system has, and no segment has a number that is yet to be
\* given by rollIfNeeded.
THEOREM SegmentTypesCorrect == SegSpec => []SegmentTypeOK
<1>1. ASSUME SegInv PROVE SegmentTypeOK
  <2>1. FilesInv /\ EngineInv /\ CallsInv
      BY <1>1 DEF SegInv
  <2>2. ASSUME NEW s \in Segment
        PROVE  /\ Exists(s) => /\ file[s] \in SegFile /\ disk[s] \in SegFile
                               /\ Len(disk[s].pages) <= Len(file[s].pages)
                               /\ IsPrefix(disk[s].log, file[s].log)
               /\ ~Exists(s) => disk[s] = None
               /\ up /\ s >= nextSeq => ~Exists(s)
    <3>1. Exists(s) => /\ file[s] \in SegFile /\ disk[s] \in SegFile
                       /\ Later(file[s].pages, disk[s].pages)
                       /\ IsPrefix(disk[s].log, file[s].log)
        BY <2>1, FileIs
    <3>2. ~Exists(s) => disk[s] = None
        BY <2>1 DEF FilesInv
    <3>3. up /\ Exists(s) => s < nextSeq
        BY <2>1 DEF EngineInv
    <3>4. s \in Nat /\ nextSeq \in Nat
        BY <2>1 DEF EngineInv, Segment
    <3> QED
        BY <3>1, <3>2, <3>3, <3>4 DEF Later
  <2>3. active # None => /\ active.seq \in Segment /\ Exists(active.seq)
                         /\ active.buffer \in Seq(Page)
                         /\ active.broken \subseteq {"buffer", "file"}
      BY <1>1, ActiveIs
  <2>4. /\ nextSeq \in 1..MaxSegment + 1 /\ up \in BOOLEAN /\ mu \in Writer \cup {None}
        /\ mu # None => pc[mu] \in {"log", "syncLog"}
      BY <2>1 DEF EngineInv, CallsInv, CallOK
  <2>5. ASSUME NEW w \in Writer
        PROVE  /\ pc[w] \in Step
               /\ placed[w] \in Seq([seg : Segment, at : Nat])
               /\ pc[w] \notin {"append", "failed"} => Len(placed[w]) = Len(PagesOf[w])
               /\ seen[w] => pc[w] = "patchFlag"
    <3>1. pc[w] \in Step /\ placed[w] \in Seq(Place) /\ CallOK(w)
        BY <2>1 DEF CallsInv
    <3>2. placed[w] \in Seq([seg : Segment, at : Nat])
      <4>1. Place \subseteq [seg : Segment, at : Nat]
          BY DEF Place
      <4> QED
          BY <3>1, <4>1, SeqOfMore
    <3> QED
        BY <3>1, <3>2 DEF CallOK
  <2> QED
      BY <2>2, <2>3, <2>4, <2>5 DEF SegmentTypeOK, Step
<1> QED
    BY <1>1, SegInvHolds, PTL

\* A blob whose WriteBlob has returned is found, whole and named, where it was placed: no other
\* writer, roll, failed write, dead process or Open behind a torn page takes it away, and no
\* loss of power either as far as it is in the segment that WriteBlob synced.
THEOREM ReturnedBlobsAreKept == SegSpec => []ReturnedIsKept
<1>1. ASSUME SegInv PROVE ReturnedIsKept
    BY <1>1, LoggedIsKept DEF ReturnedIsKept
<1> QED
    BY <1>1, SegInvHolds, PTL

\* The log of a segment is a sequence of entries, whole or torn.
LEMMA LogIs ==
    ASSUME SegInv, NEW s \in Segment, Exists(s)
    PROVE  file[s].log \in Seq(Writer \cup {Torn})
BY FileIs DEF SegInv

\* What ParseWAL returns, if it returns: entries of the log, none of them torn, and perhaps one
\* that nobody wrote, but that only if something was appended behind a torn entry.
LEMMA WhatParseWALReturns ==
    ASSUME SegInv, NEW s \in Segment, Exists(s),
           NEW entries \in ParseWAL(s), entries # None, NEW e \in entries
    PROVE  \/ e = Garbled /\ AppendedBehindTorn(s)
           \/ e \in Writer /\ e \in ToSet(file[s].log)
<1> DEFINE log == file[s].log
           whole == {j \in DOMAIN log : log[j] # Torn}
           front == {j \in whole : 1..j \subseteq whole}
           behind == {j \in whole : \E k \in 1..j - 2 : log[k] = Torn}
           Entries(places) == {log[j] : j \in places}
<1>1. \A j \in whole : log[j] \in Writer /\ log[j] \in ToSet(log)
    BY LogIs DEF ToSet
<1>2. \/ entries = Entries(front)
      \/ /\ AppendedBehindTorn(s)
         /\ \E more \in SUBSET behind : entries = Entries(front \cup more) \cup {Garbled}
  <2>1. ParseWAL(s) =
          {Entries(front)}
            \cup (IF AppendedBehindTorn(s)
                  THEN {None} \cup
                         {Entries(front \cup more) \cup {Garbled} : more \in SUBSET behind}
                  ELSE {})
      BY DEF ParseWAL
  <2> HIDE DEF Entries, front, behind
  <2> QED
      BY <2>1
<1>3. CASE entries = Entries(front)
    BY <1>1, <1>3
<1>4. CASE /\ AppendedBehindTorn(s)
           /\ \E more \in SUBSET behind : entries = Entries(front \cup more) \cup {Garbled}
  <2>1. PICK more \in SUBSET behind : entries = Entries(front \cup more) \cup {Garbled}
      BY <1>4
  <2>2. front \cup more \subseteq whole
      OBVIOUS
  <2> HIDE DEF front, behind, whole
  <2> QED
      BY <1>1, <1>4, <2>1, <2>2
<1> QED
    BY <1>2, <1>3, <1>4

\* In a log with nothing behind a torn entry ParseWAL finds every entry.
LEMMA ParseWALFindsAll ==
    ASSUME SegInv, NEW s \in Segment, NEW w \in Writer, LoggedIn(w, s), ~AppendedBehindTorn(s),
           NEW entries \in ParseWAL(s)
    PROVE  w \in entries
<1> DEFINE log == file[s].log
           whole == {j \in DOMAIN log : log[j] # Torn}
           front == {j \in whole : 1..j \subseteq whole}
<1>1. log \in Seq(Writer \cup {Torn})
    BY LogIs DEF LoggedIn
<1>2. PICK k \in DOMAIN log : log[k] = w
    BY DEF LoggedIn, ToSet
<1>3. k \in front
  <2>1. \A j \in 1..Len(log) - 1 : log[j] # Torn
      BY DEF AppendedBehindTorn
  <2>2. \A j \in 1..k : j \in DOMAIN log /\ log[j] # Torn
      BY <1>1, <1>2, <2>1, SegmentNoneAssumption
  <2>3. k \in 1..k
      BY <1>1, <1>2
  <2> QED
      BY <2>2, <2>3
<1>4. entries = {log[j] : j \in front}
    BY DEF ParseWAL
<1> HIDE DEF front
<1> QED
    BY <1>2, <1>3, <1>4

\* Its entry stays in the log of a segment, for good, where ParseWAL finds it unless something
\* was appended behind a torn entry: AppendWAL was synced before WriteBlob returned.
THEOREM ReturnedBlobsAreLogged == SegSpec => []ReturnedIsLogged
<1>1. ASSUME SegInv PROVE ReturnedIsLogged
  <2>1. ASSUME NEW w \in Writer, pc[w] = "returned" PROVE \E s \in Segment : LoggedIn(w, s)
    <3>1. PICK s \in Segment : Exists(s) /\ w \in ToSet(disk[s].log)
        BY <1>1, <2>1 DEF SegInv, LogsInv
    <3>2. LoggedIn(w, s)
        BY <1>1, <3>1, FileIs DEF SegInv, LoggedIn
    <3> QED
        BY <3>2
  <2>2. ASSUME NEW w \in Writer, NEW s \in Segment, LoggedIn(w, s), ~AppendedBehindTorn(s)
        PROVE  \A entries \in ParseWAL(s) : w \in entries
      BY <1>1, <2>2, ParseWALFindsAll
  <2> QED
      BY <2>1, <2>2 DEF ReturnedIsLogged
<1> QED
    BY <1>1, SegInvHolds, PTL

\* Whatever ParseWAL returns, but for the entry nobody wrote that it may make of a torn one and of
\* what was appended behind it, was written and named before, and in the entry's own segment
\* synced: from a log without such a place the store never replays a chunk into its index that is
\* not there, and after a loss of power none of that segment.
THEOREM ReplayFindsItsPages == SegSpec => []ReplayFindsPages
<1>1. ASSUME SegInv PROVE ReplayFindsPages
  <2>1. ASSUME NEW s \in Segment, Exists(s), NEW entries \in ParseWAL(s) \ {None},
               NEW w \in entries, ~(w = Garbled /\ AppendedBehindTorn(s))
        PROVE  /\ w \in Writer
               /\ \A i \in DOMAIN PagesOf[w] : SurelySynced(w, i, s) => Kept(w, i)
    <3>1. w \in Writer /\ w \in ToSet(file[s].log)
        BY <1>1, <2>1, WhatParseWALReturns
    <3>2. LoggedIn(w, s)
        BY <2>1, <3>1 DEF LoggedIn
    <3>3. DOMAIN placed[w] = DOMAIN PagesOf[w]
      <4>1. Len(placed[w]) = Len(PagesOf[w])
          BY <1>1, <3>1, <3>2 DEF SegInv, LogsInv, EntryOK
      <4>2. placed[w] \in Seq(Place) /\ PagesOf[w] \in Seq(Nat \ {0})
          BY <1>1, <3>1, SegmentAssumption DEF SegInv, CallsInv
      <4> QED
          BY <4>1, <4>2
    <3> QED
        BY <1>1, <3>1, <3>2, <3>3, LoggedIsKept
  <2> QED
      BY <2>1 DEF ReplayFindsPages
<1> QED
    BY <1>1, SegInvHolds, PTL

\* A page that MarkDeleted has flagged after its WriteBlob had returned stays flagged: no patch
\* of another call, crash or loss of power brings the page back.
THEOREM FlaggedPagesStayFlagged == SegSpec => []FlaggedStaysFlagged
<1>1. ASSUME SegInv PROVE FlaggedStaysFlagged
  <2>1. ASSUME NEW place \in marked PROVE IsPage(place) /\ PageAt(place).deleted
    <3>1. /\ place.seg \in Segment /\ Exists(place.seg)
          /\ place.at \in DOMAIN file[place.seg].pages
          /\ file[place.seg].pages[place.at] # Torn
          /\ file[place.seg].pages[place.at].deleted
        BY <1>1, MarkIs
    <3>2. file[place.seg].pages \in Pages
        BY <1>1, <3>1, FileIs DEF SegInv
    <3>3. place.at \in 1..Len(file[place.seg].pages)
        BY <3>1, <3>2 DEF Pages
    <3> QED
        BY <3>1, <3>3 DEF IsPage, PageAt
  <2> QED
      BY <2>1 DEF FlaggedStaysFlagged
<1> QED
    BY <1>1, SegInvHolds, PTL
=============================================================================
