--------------------------- MODULE MCMarketSlots ----------------------------
(* Callers of market data, a few commands at a time.                          *)
EXTENDS MarketSlots

Subscribe(req, con, series) ==
  [op |-> "subscribe", req |-> req, con |-> con, series |-> series, snapshot |-> FALSE, news |-> FALSE]
WithNews(req, con) == [Subscribe(req, con, {}) EXCEPT !.news = TRUE]
TakeSnapshot(req, con) == [Subscribe(req, con, {}) EXCEPT !.snapshot = TRUE]
Cancel(req) == [op |-> "cancel", req |-> req]
Order(con) == [op |-> "order", con |-> con]
OrderDone(con) == [op |-> "orderOver", con |-> con]

CONSTANTS A, B, C

\* One a program reads, and one where only the session's own side is at work.
Read(commands, stated, drops, refusals) ==
  [commands |-> commands, maxStated |-> stated, maxDrops |-> drops, maxRefusals |-> refusals, read |-> TRUE]
Unread(commands, stated, drops, refusals) == [Read(commands, stated, drops, refusals) EXCEPT !.read = FALSE]

MCScenarios ==
  { \* a slot that goes from one contract to another
    Read(<<Subscribe(1, A, {}), Cancel(1), Subscribe(2, B, {}), Cancel(2)>>, 2, 1, 1),
    Read(<<Subscribe(1, A, {}), Cancel(1), Subscribe(1, B, {})>>, 2, 1, 0),
    Read(<<TakeSnapshot(1, A), Subscribe(2, A, {}), Cancel(1), Cancel(2), Subscribe(1, B, {})>>, 1, 0, 0),
    Read(<<Subscribe(1, A, {"x"}), Cancel(1), Subscribe(2, A, {"x"})>>, 1, 0, 0),
    Read(<<WithNews(1, A), Cancel(1), Subscribe(2, B, {})>>, 2, 0, 0),
    \* a request that joins, and one that is left when the other goes
    Read(<<Subscribe(1, A, {}), Subscribe(2, A, {}), Cancel(1), Cancel(2), Subscribe(1, B, {})>>, 1, 0, 1),
    Read(<<Subscribe(1, A, {}), Cancel(1), Subscribe(2, B, {}), Subscribe(3, B, {})>>, 0, 0, 1),
    \* requests that share a stream, and the series each names
    Unread(<<Subscribe(1, A, {"x"}), Subscribe(2, A, {"x", "y"}), Cancel(1), Cancel(2), Subscribe(1, B, {})>>,
           1, 1, 0),
    Unread(<<Subscribe(1, A, {}), Subscribe(2, A, {"x"}), Cancel(2), Subscribe(2, A, {"x"})>>, 1, 2, 1),
    \* the lines allowed, through a drop and a paced replay
    Unread(<<Subscribe(1, A, {}), Subscribe(2, B, {}), Subscribe(3, C, {"x"}), Cancel(1),
             Subscribe(3, C, {})>>, 1, 2, 0),
    \* a snapshot, beside a stream and alone
    Unread(<<TakeSnapshot(1, A), Subscribe(2, A, {"x"}), Cancel(1), Cancel(2)>>, 1, 1, 1),
    Unread(<<Subscribe(1, A, {}), TakeSnapshot(2, A), Cancel(1), Cancel(2), TakeSnapshot(2, B)>>, 2, 1, 1),
    \* headlines
    Unread(<<WithNews(1, A), WithNews(2, A), Cancel(1), Subscribe(1, B, {}), Cancel(2)>>, 1, 1, 1),
    \* a contract an order holds
    Unread(<<Order(A), Subscribe(1, A, {"x"}), Cancel(1), OrderDone(A), Subscribe(2, B, {})>>, 2, 1, 1),
    Read(<<Order(A), Subscribe(1, A, {}), Cancel(1), Subscribe(1, A, {}), OrderDone(A), Cancel(1)>>, 1, 0, 0),
    Read(<<Order(A), Subscribe(1, A, {"x"}), Cancel(1), Subscribe(2, A, {"x"}), OrderDone(A)>>, 1, 0, 0) }
=============================================================================
