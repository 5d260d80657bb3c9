--------------------------- MODULE MCPassSchedule ---------------------------
EXTENDS PassSchedule

Pass(station, norad, rise, set, benefit) ==
  [station |-> station, norad |-> norad, rise |-> rise, set |-> set, benefit |-> benefit]

\* Half a second is one tick.  At station 1 a pass of satellite 1, the same
\* pass as a later propagation finds it, and a pass of satellite 2 that
\* overlaps the first by half a second and the other by a whole one; satellite
\* 1 also passes over station 2, too late for a window of six ticks that
\* begins at 0.
Shared ==
  { Pass(1, 1, 0, 3, 2), Pass(1, 1, 1, 4, 2), Pass(1, 2, 2, 5, 1), Pass(2, 1, 4, 7, 1) }

\* One pass, detected by two propagations.
Redetected == { Pass(1, 1, 1, 5, 2), Pass(1, 1, 2, 6, 2) }

=============================================================================
