SPECIFICATION FairSpec
CONSTANTS
  MinChapter = 2
  ChapterLists <- MCChapterLists
  Durations = {4, 6}
  MinInterval = 1
  RetryAfter = 2
  PipeSize = 1
  MaxLines = 2
INVARIANTS
  TypeOK
  ProgramEndsWithCall
  TracksAreSound
PROPERTIES
  ShownInOrder
  EditsAreSpaced
  JobEnds
\* A job that has ended stays as it is.
CHECK_DEADLOCK FALSE
