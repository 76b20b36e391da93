------------------------- MODULE MCSessionLifecycle -------------------------
(* Small instances of the engine's lap, its recovery and its end: a placement *)
(* and a withdrawal, and as many drops as let one recovery follow another.     *)
EXTENDS SessionLifecycle

CONSTANTS p, w

Base == [placements |-> {p}, withdrawals |-> {w}, recovers |-> FALSE,
         policies |-> {"Auto", "Manual"}, timed |-> FALSE, maxAttempts |-> 1, lapLimit |-> 4,
         splitStop |-> FALSE, mayPanic |-> FALSE, maxDrops |-> 2, maxFarmDrops |-> 0,
         maxForced |-> 0]

\* Two drops and their recoveries beside two orders; no order, and every way a
\* recovery, the farm's too, can be forced, timed out, spent and ended; and a
\* placement recovered across two drops beside a stop in two sends.
EngineScenarios ==
  { [Base EXCEPT !.maxAttempts = 2],
    [Base EXCEPT !.placements = {}, !.withdrawals = {}, !.timed = TRUE, !.mayPanic = TRUE,
                 !.maxDrops = 1, !.maxFarmDrops = 1, !.maxForced = 1],
    [Base EXCEPT !.withdrawals = {}, !.recovers = TRUE, !.splitStop = TRUE] }

\* A stop in two sends, and placements held across the drop.
StopScenarios == { [Base EXCEPT !.recovers = TRUE, !.splitStop = TRUE] }

\* A stop with one placement, which a drop leaves waiting.
HangScenarios == { [Base EXCEPT !.withdrawals = {}, !.splitStop = TRUE, !.maxDrops = 1] }
=============================================================================
