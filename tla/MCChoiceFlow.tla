---- MODULE MCChoiceFlow ----
(* Lists of formats in which the loop has something to decide, and the selection *)
(* compared with its reference on every list of at most three formats.           *)
EXTENDS ChoiceFlow

Video(id, height, mp4, size, tbr) ==
  [id |-> id, height |-> height, mp4 |-> mp4, size |-> size, tbr |-> tbr,
   video |-> TRUE, audio |-> FALSE]
Audio(size) ==
  [id |-> "sound", height |-> 0, mp4 |-> FALSE, size |-> size, tbr |-> 1,
   video |-> FALSE, audio |-> TRUE]
Muxed(f) == [f EXCEPT !.audio = TRUE]

(* More heights than options, equals at one height, a better rank after a worse. *)
Rich == <<Video("a", 480, FALSE, 3, 2), Audio(2), Video("b", 720, TRUE, 4, 1),
          Video("c", 720, TRUE, 4, 1), Muxed(Video("d", 1080, FALSE, 0, 9)),
          Video("e", 1080, TRUE, 0, 1), Audio(1)>>
(* Another answer for the same video. *)
Poor == <<Video("b", 720, TRUE, 4, 1)>>
(* Nothing to offer. *)
SoundOnly == <<Audio(2)>>

TaskSymmetry == Permutations(Tasks)

MCRawLists == {Rich, Poor, SoundOnly}

Some ==
  {Video(ToString(<<h, m, s, b>>), h, m, s, b) :
     h \in {0, 1, 2, 3}, m \in BOOLEAN, s \in {0, 5}, b \in {1, 2}}
  \union {Audio(0), Audio(1), Muxed(Video("m", 2, TRUE, 5, 2))}

ASSUME SelectionAgreesWithReference ==
  \A n \in 0..3 : \A raw \in [1..n -> Some] : IsSelection(raw, SelectVideoFormats(raw))

====
