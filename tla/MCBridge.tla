------------------------------- MODULE MCBridge -------------------------------
(***************************************************************************)
(* Instances of Bridge small enough for TLC.  A zone step is 20 ticks and  *)
(* the tolerance of a zone step one tick; the RunPeriod is three zone      *)
(* steps.                                                                  *)
(***************************************************************************)
EXTENDS Bridge

CONSTANTS u0, u1  \* two values of the one input

MCInputs == {"setpoint"}
MCValues == {u0, u1}

\* On the grid, within the tolerance of one and of two zone steps, and past it.
MCPoints == {0, 1, 20, 22, 40, 60}
MCPointsWithNaN == MCPoints \cup {NaN}

\* Nothing, a misaligned step, a step within the tolerance of one zone step, one
\* to three zone steps, and the step sizes that are no numbers.
MCSizes == {0, 10, 19, 20, 40, 60, Infinity}
MCSizesWithNaN == {20, NaN}
MCFewSizes == {10, 20, 40}
MCOneValue == {u0}

\* Within a zone step, at one, past the RunPeriod, and not a number.
MCStops == {30, 40, 80, NaN}
MCFewStops == {40}

\* The simulation is over when the RunPeriod of the metadata is, or earlier, or
\* later; zero is a model that runs no weather-file period.
MCRunLengths == {0, 2, 3, 4}
=============================================================================
