---------------------------- MODULE MCTleIngest -----------------------------
EXTENDS TleIngest

TleOf(sat, epoch, version) ==
  [kind |-> "tle", sound |-> TRUE, sat |-> sat, epoch |-> epoch, sat2 |-> sat, text |-> version]

Blank == [TleOf(1, 1, "a") EXCEPT !.kind = "blank"]

\* Line 1 of satellite 1 with line 2 of satellite 2.
Torn == [TleOf(1, 3, "a") EXCEPT !.sat2 = 2]

\* Both satellites, then newer epochs with one of them given twice, then an
\* epoch that was retired, a second text of one epoch and a torn block.
Catalogues ==
  { <<TleOf(1, 1, "a"), TleOf(2, 1, "a")>>,
    <<TleOf(1, 2, "a"), Blank, TleOf(1, 3, "a"), TleOf(2, 1, "b")>>,
    <<TleOf(1, 1, "b"), TleOf(2, 2, "a"), TleOf(2, 2, "b"), Torn>> }

=============================================================================
