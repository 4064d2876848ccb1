----------------------------- MODULE CacheStore -----------------------------
(***************************************************************************)
(* The audio cache on disk (cache/store.py, cache/manifest.py) and its     *)
(* rows in the database (cache_entries), as data.                          *)
(*                                                                         *)
(* A directory is a manifest and the files of an album's tracks.  Content  *)
(* is abstracted to the number of the build that made it: 0 is "not        *)
(* there", and a manifest may also be torn (a crash in the middle of       *)
(* write_text).  An empty directory and a missing one are the same: no     *)
(* operation of the cache tells them apart.                                *)
(***************************************************************************)
EXTENDS Integers, FiniteSets, Functions

CONSTANTS
  Keys,          \* provider:media_id pairs
  NTracks,       \* tracks per album
  TrackBytes,    \* TrackBytes[t]: the size of a track's file
  ManifestBytes, \* the size of a manifest
  CoverBytes,    \* the size of a cover, 0 when albums have none
  CacheMax       \* settings.cache_max_bytes

Tracks == 1..NTracks

ASSUME AlbumAssumption ==
  /\ NTracks \in Nat \ {0}
  /\ TrackBytes \in [Tracks -> Nat \ {0}]
  /\ ManifestBytes \in Nat /\ CoverBytes \in Nat
  /\ CacheMax \in Nat

ASSUME KeysAssumption == IsFiniteSet(Keys)

Builds == Nat \ {0}
Torn == -1

Dir == [manifest : Builds \union {0, Torn}, files : [Tracks -> Nat]]

Empty == [manifest |-> 0, files |-> [t \in Tracks |-> 0]]

(* What the pipeline has cut and tagged in work/<job>/out. *)
Cut(b) == [manifest |-> 0, files |-> [t \in Tracks |-> b]]

Places == {"staging", "final"} \X Keys   \* <key>.tmp and <key>

(* Mutant of Valid: a manifest that parses is enough. *)
ValidByManifest(d) == d.manifest \in Builds

(* read_manifest returns a manifest: a directory that counts as cached. *)
Valid(d) ==
  /\ d.manifest \in Builds
  /\ \A t \in Tracks : d.files[t] # 0

TracksOf(d) == {t \in Tracks : d.files[t] # 0}

(* The files rmtree finds, and what is left once it has unlinked one. *)
Pieces(d) ==
  TracksOf(d) \union (IF d.manifest = 0 THEN {} ELSE {0})

Without(d, p) ==
  IF p = 0 THEN [d EXCEPT !.manifest = 0] ELSE [d EXCEPT !.files[p] = 0]

TracksBytes(S) == SumFunctionOnSet(TrackBytes, S)

(* The sum of the sizes of the track files: what a row of cache_entries records. *)
TrackSize(d) == TracksBytes(TracksOf(d))

(* dir_size.  The cover comes and goes with the tracks: no operation of the cache *)
(* looks at it, and a removal is never measured before it is over.                *)
SizeOf(d) ==
  TrackSize(d) + (IF d.manifest = 0 THEN 0 ELSE ManifestBytes)
               + (IF TracksOf(d) = {} THEN 0 ELSE CoverBytes)

Usage(disk) == SumFunctionOnSet([p \in Places |-> SizeOf(disk[p])], Places)

(* The rows: stamp[k] orders last_served_at, 0 when there is no row. *)
TotalBytes(stamp, bytes) ==
  SumFunctionOnSet(bytes, {k \in Keys : stamp[k] # 0})

(* The keys of order that come before k: cache_keys_by_age. *)
Older(order, k) == {j \in Keys : order[j] # 0 /\ order[j] < order[k]}

(* size_bytes of every entry. *)
EntrySizes(disk) == [k \in Keys |-> SizeOf(disk[<<"final", k>>])]

(* Mutant of Walked: what an entry frees is subtracted before the comparison. *)
WalkedSparing(usage, disk, order) ==
  {k \in Keys :
    /\ order[k] # 0
    /\ usage - SumFunctionOnSet(EntrySizes(disk), Older(order, k) \union {k}) > CacheMax}

(* evict_to_fit walks the rows from the least recently served and stops as soon as *)
(* what is left of usage fits.                                                     *)
Walked(usage, disk, order) ==
  {k \in Keys :
    /\ order[k] # 0
    /\ usage - SumFunctionOnSet(EntrySizes(disk), Older(order, k)) > CacheMax}

(* What it has removed: a row whose entry is gone is passed over. *)
Victims(usage, disk, order) ==
  {k \in Walked(usage, disk, order) : disk[<<"final", k>>] # Empty}

=============================================================================
