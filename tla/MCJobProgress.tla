---- MODULE MCJobProgress ----
(* Chapters with and without ends, out of order, equal, too short and too long. *)
EXTENDS JobProgress

Chapter(start, end) == [start |-> start, end |-> end]

MCChapterLists ==
  {<<>>, <<Chapter(0, 0), Chapter(3, 0)>>, <<Chapter(3, 6), Chapter(0, 3)>>,
   <<Chapter(3, 0), Chapter(0, 0), Chapter(0, 0)>>, <<Chapter(0, 1), Chapter(1, 9)>>,
   <<Chapter(0, 4), Chapter(2, 2)>>}

====
