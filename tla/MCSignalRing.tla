---------------------------- MODULE MCSignalRing ----------------------------
(* SignalRing on a few buffers of two to four frames: one or two channels,   *)
(* with and without a delay, filled by either overload, plain or filtered,   *)
(* and two that are played.  A block of 3 is too long for those of 2.        *)
EXTENDS SignalRing

Shape(s, d, c, conv, filt) ==
    [size |-> s, delay |-> d, channels |-> c, converted |-> conv, filtered |-> filt,
     plays |-> FALSE]
Played(s, c) ==
    [Shape(s, 0, c, FALSE, FALSE) EXCEPT !.plays = TRUE]

MCShapes == { Shape(4, 0, 2, FALSE, FALSE), Shape(4, 0, 2, TRUE, FALSE),
              Shape(4, 0, 2, FALSE, TRUE),  Shape(2, 2, 1, FALSE, TRUE),
              Shape(3, 1, 1, FALSE, FALSE), Shape(2, 4, 1, TRUE, FALSE),
              Shape(2, 3, 1, FALSE, FALSE), Shape(2, 2, 2, FALSE, FALSE),
              Played(4, 2), Played(3, 1) }
MCLengths == {1, 2, 3}

\* The buffers of the drivers' default: no delay, not filtered, not converted.
MCPlainShapes == {Shape(4, 0, 2, FALSE, FALSE)}
=============================================================================
