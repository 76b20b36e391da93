---------------------------- MODULE MCHistorical ----------------------------
(* Callers of the historical service, a few asks at a time.                   *)
EXTENDS HistoricalRequests

Bars(id) == [id |-> id, kind |-> "bars", bad |-> "no", kept |-> FALSE, paired |-> FALSE,
             folded |-> FALSE, plan |-> 1, unfoldable |-> FALSE]
Folded(id, plan) == [Bars(id) EXCEPT !.folded = TRUE, !.plan = plan]
Kept(ask) == [ask EXCEPT !.kept = TRUE]
Other(kind, id) == [Bars(id) EXCEPT !.kind = kind]

Workload(who, drops, unread, halt) ==
  [who |-> who, maxDrops |-> drops, maxUnread |-> unread, mayHalt |-> halt, streams |-> {9}]

MCWorkloads ==
  { \* the cap, a plan of two stretches, and a number asked under twice
    Workload(<<Bars(1), Bars(2), Bars(3)>>, 1, 1, TRUE),
    Workload(<<Folded(1, 2), Bars(1), Bars(2)>>, 1, 0, FALSE),
    \* requests kept up to date, one that cannot be folded, one refused
    Workload(<<Kept(Folded(1, 1)), [Folded(1, 1) EXCEPT !.unfoldable = TRUE], Folded(3, 0)>>, 1, 0, FALSE),
    Workload(<<Kept([Folded(2, 2) EXCEPT !.unfoldable = TRUE]), Kept(Bars(1))>>, 1, 0, FALSE),
    Workload(<<Kept(Bars(1)), Kept(Bars(9)), [Bars(1) EXCEPT !.bad = "started"],
               [Kept(Bars(2)) EXCEPT !.bad = "taken"]>>, 1, 0, TRUE),
    \* a bid and ask series
    Workload(<<[Folded(1, 2) EXCEPT !.paired = TRUE], Bars(1)>>, 1, 1, FALSE),
    \* what is answered by one reply
    Workload(<<Other("schedule", 1), Bars(1), Other("head", 2), Other("news", 2)>>, 2, 1, TRUE),
    Workload(<<Other("histogram", 1), Other("ticks", 1), Other("actions", 2), Folded(2, 1)>>, 1, 1, FALSE),
    \* the scanner
    Workload(<<Other("params", 1), Other("params", 2), Other("scan", 3),
               [Other("scan", 3) EXCEPT !.bad = "started"]>>, 2, 0, TRUE),
    Workload(<<Other("scan", 3), Other("scan", 4), Other("scan", 5), Other("params", 1)>>, 1, 0, TRUE) }
=============================================================================
