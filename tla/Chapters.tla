------------------------------ MODULE Chapters ------------------------------
(***************************************************************************)
(* The list of tracks that a file is cut into (pipeline/chapters.py).      *)
(*                                                                         *)
(* A chapter is a record [start, end]; an end that is missing, or that is  *)
(* not after the start, is filled in, and 0 stands for both.  The duration *)
(* is the one ffprobe measured, which is positive.                         *)
(***************************************************************************)
EXTENDS Sorting, SequencesExt

CONSTANT MinChapter   \* MIN_CHAPTER_SECONDS

ASSUME ChapterAssumption == MinChapter \in Nat \ {0}

(* Mutant of InOrder: the list is taken as it comes. *)
AsListed(chapters) == [p \in DOMAIN chapters |-> p]

(* The chapters by their starts; the sort is stable. *)
StartsBefore(chapters, p, q) ==
  \/ chapters[p].start < chapters[q].start
  \/ chapters[p].start = chapters[q].start /\ p < q

InOrder(chapters) ==
  LET positions == DOMAIN chapters
  IN  Listing(positions,
              {pair \in positions \X positions : StartsBefore(chapters, pair[1], pair[2])})

ByStart(chapters) ==
  LET order == InOrder(chapters)
  IN  [p \in DOMAIN order |-> chapters[order[p]]]

Ascending(S) == Listing(S, {pair \in S \X S : pair[1] < pair[2]})

(* The end of the p-th of them: its own, the next start, or the end of the file. *)
EndOf(sorted, p, duration) ==
  LET end == CASE sorted[p].end > sorted[p].start -> sorted[p].end
               [] sorted[p].end <= sorted[p].start /\ p < Len(sorted) -> sorted[p + 1].start
               [] OTHER -> duration
  IN  Min({end, duration})

Pieces(sorted, duration) ==
  [p \in DOMAIN sorted |-> [start |-> sorted[p].start, end |-> EndOf(sorted, p, duration)]]

(* Shorter ones are skipped. *)
LongEnough(cuts) ==
  LET kept == Ascending({p \in DOMAIN cuts : cuts[p].end - cuts[p].start >= MinChapter})
  IN  [n \in DOMAIN kept |-> cuts[kept[n]]]

ChaptersFromInfo(chapters, duration) ==
  LET tracks == LongEnough(Pieces(ByStart(chapters), duration))
  IN  IF tracks # <<>> THEN tracks ELSE <<[start |-> 0, end |-> duration]>>

-----------------------------------------------------------------------------
(* What a list of tracks must be, whatever the site says about the chapters. *)
CutInTime(tracks, duration) ==
  /\ tracks # <<>>
  /\ \A n \in DOMAIN tracks :
       /\ 0 <= tracks[n].start /\ tracks[n].end <= duration
       /\ tracks[n].start < tracks[n].end
       /\ n > 1 => tracks[n - 1].start <= tracks[n].start

(* A chapter that is in the file and long enough has the track it asks for. *)
ChaptersKept(chapters, duration, tracks) ==
  \A p \in DOMAIN chapters :
    LET c == chapters[p]
    IN  c.end - c.start >= MinChapter /\ c.end <= duration =>
          \E n \in DOMAIN tracks : tracks[n] = c

(* Chapters without ends share out the file: a moment after the first start is *)
(* in a track, or in a piece between two starts that is too short for one.     *)
NothingLost(chapters, duration, tracks) ==
  LET starts == {chapters[p].start : p \in DOMAIN chapters} \union {duration}
  IN  (\A p \in DOMAIN chapters : chapters[p].end = 0) =>
        \A a, b \in starts : a < b /\ b <= duration /\ b - a >= MinChapter
                               /\ (\A c \in starts : c <= a \/ b <= c) =>
          \E n \in DOMAIN tracks : tracks[n].start = a /\ tracks[n].end = b

IsTrackList(chapters, duration, tracks) ==
  /\ CutInTime(tracks, duration)
  /\ ChaptersKept(chapters, duration, tracks)
  /\ NothingLost(chapters, duration, tracks)
=============================================================================
