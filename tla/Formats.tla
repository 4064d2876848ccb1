------------------------------- MODULE Formats ------------------------------
(***************************************************************************)
(* The qualities offered for a video (pipeline/formats.py): one option per *)
(* height out of yt-dlp's list of formats, the largest heights first.      *)
(*                                                                         *)
(* A format is a record [id, height, mp4, size, tbr, video, audio]: height *)
(* and size are 0 when unknown, video and audio say which codecs it has.   *)
(***************************************************************************)
EXTENDS Sorting, SequencesExt

CONSTANT MaxOptions   \* MAX_OPTIONS

ASSUME OptionsAssumption == MaxOptions \in Nat \ {0}

(* _rank, compared as tuples are: mp4, then a known size, then the bitrate. *)
Rank(f) == <<IF f.mp4 THEN 1 ELSE 0, IF f.size # 0 THEN 1 ELSE 0, f.tbr>>

Exceeds(a, b) ==
  \E i \in 1..3 : a[i] > b[i] /\ \A j \in 1..(i - 1) : a[j] = b[j]

Usable(f) == f.video /\ f.height > 0

BestAudioSize(raw) ==
  LET sizes == {raw[i].size : i \in {i \in DOMAIN raw :
                  raw[i].audio /\ ~raw[i].video /\ raw[i].size # 0}}
  IN  IF sizes = {} THEN 0 ELSE Min(sizes)

(* best_per_height is replaced only by a format of a higher rank. *)
Supersedes(f, current) == Exceeds(Rank(f), Rank(current))

(* One turn of the loop over the list; best[h] is the format kept for a height. *)
Keep(best, f) ==
  IF Usable(f) /\ (f.height \in DOMAIN best => Supersedes(f, best[f.height]))
  THEN [h \in DOMAIN best \union {f.height} |-> IF h = f.height THEN f ELSE best[h]]
  ELSE best

BestPerHeight(raw) ==
  LET best[n \in 0..Len(raw)] == IF n = 0 THEN <<>> ELSE Keep(best[n - 1], raw[n])
  IN  best[Len(raw)]

(* sorted(..., reverse=True) *)
Descending(S) == Listing(S, {pair \in S \X S : pair[1] > pair[2]})

Option(f, audioSize) ==
  [id |-> f.id, height |-> f.height, needsAudio |-> ~f.audio,
   size |-> IF f.size # 0 /\ ~f.audio THEN f.size + audioSize ELSE f.size]

SelectVideoFormats(raw) ==
  LET best == BestPerHeight(raw)
      heights == Descending(DOMAIN best)
      kept == SubSeq(heights, 1, Min({MaxOptions, Len(heights)}))
  IN  [i \in DOMAIN kept |-> Option(best[kept[i]], BestAudioSize(raw))]

(* find_option *)
Offered(options) == {options[i].id : i \in DOMAIN options}

-----------------------------------------------------------------------------
(* The reference, without a loop: the largest heights, each by the first of its *)
(* best formats.                                                                *)
FirstBest(raw, i) ==
  \A j \in DOMAIN raw : Usable(raw[j]) /\ raw[j].height = raw[i].height =>
    \/ Exceeds(Rank(raw[i]), Rank(raw[j]))
    \/ Rank(raw[i]) = Rank(raw[j]) /\ i <= j

IsSelection(raw, options) ==
  LET usable == {i \in DOMAIN raw : Usable(raw[i])}
      heights == {raw[i].height : i \in usable}
  IN  /\ Len(options) = Min({MaxOptions, Cardinality(heights)})
      /\ \A n \in DOMAIN options :
           /\ Cardinality({h \in heights : h > options[n].height}) = n - 1
           /\ \E i \in usable :
                /\ FirstBest(raw, i)
                /\ options[n] = Option(raw[i], BestAudioSize(raw))

=============================================================================
