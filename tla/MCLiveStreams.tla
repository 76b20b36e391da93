--------------------------- MODULE MCLiveStreams ---------------------------
(* Callers of one contract's ticks beside another contract's, at the cap; of *)
(* one bar stream; of three bar streams the venue may number alike in its    *)
(* increments or not; of a kept request beside a bar stream of its bars; and *)
(* of ticks and bars on the one connection.                                  *)
EXTENDS LiveStreams

Ask(kind, con, what) == [kind |-> kind, con |-> con, what |-> what]

Workload(who, units, asks, drops, moves) ==
  [who |-> who, units |-> units, maxAsks |-> asks, maxDrops |-> drops, maxMoves |-> moves]

MCWorkloads ==
  { Workload(<<Ask("tick", 1, 1), Ask("tick", 1, 1), Ask("tick", 2, 1)>>, {1}, 4, 1, 2),
    Workload(<<Ask("bar", 1, 1), Ask("bar", 1, 1)>>, {1, 2}, 3, 1, 1),
    Workload(<<Ask("bar", 1, 1), Ask("bar", 2, 1), Ask("bar", 1, 2)>>, {1}, 3, 1, 0),
    Workload(<<Ask("kept", 1, 1), Ask("bar", 1, 1)>>, {1}, 2, 1, 1),
    Workload(<<Ask("bar", 1, 1), Ask("bar", 1, 1), Ask("tick", 1, 1)>>, {1}, 3, 1, 1),
    Workload(<<Ask("kept", 1, 1), Ask("bar", 2, 1), Ask("tick", 1, 1)>>, {1}, 3, 1, 1) }
=============================================================================
