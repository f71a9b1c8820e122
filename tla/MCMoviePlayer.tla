---------------------------- MODULE MCMoviePlayer ----------------------------
EXTENDS MoviePlayer

\* One file with every call, or a second file without sound played at any time.
Viewers ==
  {[files |-> 1, tracks |-> {"video", "audio"}, calls |-> {"Stop", "Pause", "Continue", "Seek"}, bound |-> 3],
   [files |-> 2, tracks |-> {"video"}, calls |-> {"Stop"}, bound |-> 1]}

\* One file is played to its end.
Watchers == {[files |-> 1, tracks |-> {"video", "audio"}, calls |-> {}, bound |-> 0]}
=============================================================================
