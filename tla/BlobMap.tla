------------------------------ MODULE BlobMap ------------------------------
(***************************************************************************)
(* What a namespace of the store promises its callers: a map from keys to  *)
(* contents that only Put, Delete and Rename change, each at one moment,   *)
(* and that never exceeds the quota.  There is no compaction, no crash and *)
(* no recovery here: they must not be observable.                          *)
(***************************************************************************)
EXTENDS Integers, FiniteSets

CONSTANTS Key, Blob, Size, Quota, None

VARIABLE map

MapInit == map = [k \in Key |-> None]

Present(m) == {k \in Key : m[k] # None}

\* The bytes a map holds, a content counted once for each of its keys.
Total(m) == Cardinality(UNION {{k} \X (1..Size[m[k]]) : k \in Present(m)})

Put(k, b) ==
    /\ map' = [map EXCEPT ![k] = b]
    /\ Quota.maxBlobSize > 0 => Size[b] <= Quota.maxBlobSize
    /\ Quota.maxBytes > 0 => Total(map') <= Quota.maxBytes
    /\ Quota.maxBlobCount > 0 => Cardinality(Present(map')) <= Quota.maxBlobCount

Delete(k) == map' = [map EXCEPT ![k] = None]

Rename(old, new) ==
    /\ map[old] # None /\ map[new] = None
    /\ map' = [map EXCEPT ![new] = map[old], ![old] = None]

MapNext ==
    \/ \E k \in Key, b \in Blob : Put(k, b)
    \/ \E k \in Key : Delete(k)
    \/ \E old, new \in Key : Rename(old, new)

MapSpec == MapInit /\ [][MapNext]_map
=============================================================================
