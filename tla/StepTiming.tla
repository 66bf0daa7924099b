----------------------------- MODULE StepTiming -----------------------------
(***************************************************************************)
(* The arithmetic both processes apply to a communication step:            *)
(* fmi2DoStep (runtime/ep2fmu-fmi2/src/lib.rs:717-732) and                 *)
(* begin_zone_timestep (runtime/ep2fmu-worker/src/main.rs:227-248).        *)
(*                                                                         *)
(* Time is counted in ticks.  The code works in f64 seconds with a         *)
(* relative tolerance of 1e-9; here a tick is as long as that tolerance    *)
(* makes a zone step uncertain, so Eps / ZoneStep plays the part of 1e-9   *)
(* and every comparison of the code is an exact comparison of integers.    *)
(* The floor "1e-9 seconds" of the code's tolerance binds only for steps   *)
(* below one second, which the ratio test rejects whatever the tolerance.  *)
(***************************************************************************)
EXTENDS Integers

CONSTANTS
    ZoneStep,   \* zone_step_seconds, in ticks
    StopTime,   \* stop_time_seconds of the exported RunPeriod, in ticks
    StopTimes,  \* that of every ep2fmu-config.json the instance may be given
    Eps,        \* 1e-9 of a zone step, in ticks
    NaN,        \* the f64 not-a-number
    Infinity,   \* the f64 positive infinity
    ManySteps   \* u64::MAX, to which "as u64" saturates an infinite ratio

\* simulation_timing (src/ep2fmu/metadata.py:39-68): the zone step divides the
\* hour, so a RunPeriod of whole days is a whole number of zone steps.
ASSUME ZoneStepAssumption ==
    /\ ZoneStep \in Nat \ {0}
    /\ StopTime \in StopTimes
    /\ \A stop \in StopTimes : stop \in Nat \ {0} /\ stop % ZoneStep = 0

\* 1e-9 of the longest step a run can ask for stays far below one zone step.
ASSUME ToleranceAssumption ==
    /\ Eps \in Nat
    /\ \A stop \in StopTimes : Eps * (2 * stop + 4 * ZoneStep) < ZoneStep * ZoneStep

ASSUME SpecialFloats ==
    /\ NaN \notin Int
    /\ Infinity \notin Int
    /\ NaN # Infinity
    /\ ManySteps \in Nat
    /\ \A stop \in StopTimes : ManySteps * ZoneStep > stop

Magnitude(x) == IF x < 0 THEN -x ELSE x

\* f64::round of step / ZoneStep, for a positive step: half away from zero.
Rounded(h) == (2 * h + ZoneStep) \div (2 * ZoneStep)

\* ~(|point - time| > tolerance).  A NaN fails no comparison; with an infinite
\* step the tolerance is infinite too, and with a NaN step it is the bare floor.
AtPoint(point, h, time) ==
    \/ point = NaN
    \/ h = Infinity
    \/ h = NaN /\ point = time
    \/ /\ {point, h} \cap {NaN, Infinity} = {}
       /\ Magnitude(point - time) * ZoneStep <= Magnitude(h) * Eps

\* ~(step <= 0 \/ round(ratio) < 1 \/ |ratio - round(ratio)| > 1e-9).
Aligned(h) ==
    \/ h \in {NaN, Infinity}
    \/ /\ h \notin {NaN, Infinity}
       /\ h > 0
       /\ Rounded(h) >= 1
       /\ Magnitude(h - Rounded(h) * ZoneStep) <= Eps

\* ~(point + step > stop + tolerance).
WithinStop(point, h, stop) ==
    \/ NaN \in {point, h, stop}
    \/ h = Infinity
    \/ /\ {point, h, stop} \cap {NaN, Infinity} = {}
       /\ (point + h - stop) * ZoneStep <= Magnitude(h) * Eps

\* "rounded as u64": a NaN becomes zero steps, an infinity the largest u64.
ZoneSteps(h) ==
    CASE h = NaN      -> 0
      [] h = Infinity -> ManySteps
      [] OTHER        -> Rounded(h)
=============================================================================
