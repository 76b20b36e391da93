--------------------------- MODULE MCOrderRecord ----------------------------
(* One order, and what its caller and its venue may do to it.                 *)
EXTENDS OrderRecord

Calm == [changes |-> 0, cancels |-> 0, fills |-> 2, busts |-> 0, echoes |-> 0, repeats |-> 0, drops |-> 0,
         failures |-> 0, ends |-> 0, overlaps |-> FALSE, earlier |-> FALSE, late |-> FALSE, replays |-> FALSE]

MCScenarios ==
  { [Calm EXCEPT !.changes = 2, !.cancels = 1, !.echoes = 1, !.ends = 1],
    [Calm EXCEPT !.changes = 2, !.cancels = 2, !.overlaps = TRUE],
    [Calm EXCEPT !.fills = 3, !.busts = 1, !.echoes = 1, !.repeats = 1, !.cancels = 1],
    [Calm EXCEPT !.changes = 1, !.cancels = 1, !.drops = 1, !.failures = 1, !.ends = 1],
    [Calm EXCEPT !.changes = 1, !.cancels = 1, !.drops = 2, !.replays = TRUE, !.earlier = TRUE],
    [Calm EXCEPT !.changes = 2, !.drops = 1, !.ends = 1, !.late = TRUE],
    [Calm EXCEPT !.cancels = 1, !.drops = 1, !.ends = 1, !.late = TRUE] }
=============================================================================
