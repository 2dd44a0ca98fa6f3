------------------------- MODULE MCYouTubeSchedule -------------------------
EXTENDS YouTubeSchedule

\* A week of two days of three minutes; a window inside a day, one that crosses
\* midnight and wraps the week, and a whole day.
MCSchedules ==
  {{[days |-> {0}, start |-> 1, end |-> 2]},
   {[days |-> {1}, start |-> 2, end |-> 1], [days |-> {0}, start |-> 0, end |-> 0]}}

=============================================================================
