---------------------------- MODULE LiveStreams ----------------------------
(***************************************************************************)
(* The streams on the historical connection: tick-by-tick streams and      *)
(* five-second bars (src/engine/hot_loop/hmds/mod.rs, with the commands    *)
(* that reach it in src/engine/hot_loop/mod.rs).                           *)
(*                                                                         *)
(* A caller's request goes out under a name this client makes up.  The     *)
(* venue answers with its own number for the stream, and that number is    *)
(* what the records carry and what a withdrawal is found by.  Every query  *)
(* for one thing (a contract, what is shown of it) is numbered the same    *)
(* and read off one stream, and a number is handed out again once its      *)
(* stream has stopped.  The venue is external: it takes what was written   *)
(* in the order it was written, and what it writes is read in that order.  *)
(*                                                                         *)
(* The whole state is one record, `s'; the operators that take and return  *)
(* it are the functions of the code.                                       *)
(***************************************************************************)
EXTENDS Integers, Sequences, FiniteSets, InOrder

CONSTANTS
  Workloads,   \* what the callers ask for, what the venue may do, and the bounds
  TickCap      \* contracts with a tick-by-tick stream at one time

\* An ask: a tick-by-tick stream, a five-second bar stream, or the stream half
\* of a bar request kept up to date; of one contract; showing one thing.
Asks == [kind : {"tick", "bar", "kept"}, con : Nat, what : Nat]

\* A workload: an ask for each caller; the increments an acknowledgement may
\* state, one of them in every acknowledgement; and three bounds, on the subscriptions made, the connections the
\* venue takes away and the records it writes.
ASSUME WorkloadsAssumption ==
  \A w \in Workloads :
    /\ w.who \in Seq(Asks) /\ w.units # {}
    /\ {w.maxAsks, w.maxDrops, w.maxMoves} \subseteq Nat
ASSUME TickCapAssumption == TickCap \in Nat \ {0}

VARIABLES
  load,  \* the workload of this behaviour
  s      \* the streams, on this side and the venue's

vars == <<load, s>>

Callers == DOMAIN load.who

\* What the venue serves a request as: RtBarRequest::bars, or the contract,
\* wire kind and size filter of a tick subscription.
Key(c) == [tick |-> load.who[c].kind = "tick", con |-> load.who[c].con, what |-> load.who[c].what]
IsTick(c) == load.who[c].kind = "tick"
IsKept(c) == load.who[c].kind = "kept"

NoNumber == 0

Init ==
  /\ load \in Workloads
  /\ \E refuses \in SUBSET {Key(c) : c \in Callers} :
     s = [up |-> TRUE,
          tbt |-> <<>>,         \* tbt_subscriptions
          tbtUnnumbered |-> {}, \* tbt_withdrawn_unnumbered
          subs |-> <<>>,        \* rtbar_subs
          routes |-> <<>>,      \* rtbar_routes
          resub |-> <<>>,       \* rtbar_resub
          unnumbered |-> {},    \* rtbar_withdrawn_unnumbered
          batch |-> {},         \* pending_historical of the requests kept
          out |-> <<>>, in |-> <<>>,
          running |-> {}, refuses |-> refuses,
          asks |-> 0, drops |-> 0, moves |-> 0,
          stray |-> {}, twice |-> {}]

-----------------------------------------------------------------------------
(* Names, writes. *)

Names(st) ==
  {st.tbt[i].q : i \in DOMAIN st.tbt} \cup {st.subs[i].q : i \in DOMAIN st.subs}
    \cup {u.q : u \in st.tbtUnnumbered \cup st.unnumbered \cup st.batch}
    \cup {st.out[i].q : i \in DOMAIN st.out} \cup {st.in[i].q : i \in DOMAIN st.in}

\* Vec::remove
Drop(table, at) == Only(table, DOMAIN table \ {at})

Least(S) == CHOOSE n \in S : \A m \in S : n <= m

\* next_tbt_req_id, next_hmds_query_id: a name nothing still answers to.
FreshName(st) == Least((1 .. Cardinality(Names(st)) + 1) \ Names(st))

\* send_fix on a connection that may not be there.
Write(st, m) == IF st.up THEN [st EXCEPT !.out = Append(@, m)] ELSE st

AskMsg(q, key) == [m |-> "ask", q |-> q, key |-> key, t |-> NoNumber]
\* A withdrawal by the venue's number, of a tick-by-tick stream ("rtTicker:") or
\* of bars ("ticker:"); by name the venue finds nothing.
CancelMsg(tick, t) == [m |-> "cancel", q |-> 0, tick |-> tick, t |-> t]

-----------------------------------------------------------------------------
(* Tick-by-tick streams. *)

TickAt(st, c) == {i \in DOMAIN st.tbt : st.tbt[i].c = c}
Instruments(st) == {load.who[st.tbt[i].c].con : i \in DOMAIN st.tbt}

SendTbtSubscribe(st, c) ==
  LET q == FreshName(st)
  IN  Write([st EXCEPT !.tbt = Append(@, [q |-> q, c |-> c, t |-> NoNumber, price |-> 0])],
            AskMsg(q, Key(c)))

\* The arm of the command: a number in use, no connection and a fourth
\* contract are refused, and change nothing.
TakesTick(st, c) ==
  /\ st.up /\ TickAt(st, c) = {}
  /\ load.who[c].con \in Instruments(st) \/ Cardinality(Instruments(st)) < TickCap

\* Mutant: a sibling still waiting for its acknowledgement is not counted.
StillReadByNumber(tbt, t, key) == \E i \in DOMAIN tbt : tbt[i].t = t

\* Whether a subscription left in `tbt' reads the stream numbered t, or waits
\* for the acknowledgement of a query for the same thing.
StillRead(tbt, t, key) ==
  \E i \in DOMAIN tbt : tbt[i].t = t \/ Key(tbt[i].c) = key

SendTbtUnsubscribe(st, c) ==
  LET at == Least(TickAt(st, c))
      gone == st.tbt[at]
      left == [st EXCEPT !.tbt = Drop(@, at)]
  IN  CASE gone.t = NoNumber ->
             [left EXCEPT !.tbtUnnumbered = @ \cup {[q |-> gone.q, key |-> Key(c)]}]
        [] gone.t # NoNumber /\ StillRead(left.tbt, gone.t, Key(c)) -> left
        [] OTHER -> Write(left, CancelMsg(TRUE, gone.t))

\* Mutant: a second reader of a stream starts from nothing.
JoinFromNothing(tbt, at, t) == 0

\* Where the stream a subscription has been given already stands: what another
\* subscription under the same number has reached, or nothing.
Joined(tbt, at, t) ==
  LET others == {i \in DOMAIN tbt : i # at /\ tbt[i].t = t}
  IN  IF others = {} THEN 0 ELSE tbt[Least(others)].price

\* Mutant: an acknowledgement numbers every subscription waiting for one.
NumberEveryWaiting(tbt, at, t) ==
  [i \in DOMAIN tbt |-> IF i = at \/ tbt[i].t = NoNumber
                          THEN [tbt[i] EXCEPT !.t = t, !.price = Joined(tbt, i, t)] ELSE tbt[i]]

Number(tbt, at, t) == [tbt EXCEPT ![at] = [@ EXCEPT !.t = t, !.price = Joined(tbt, at, t)]]

\* parse_tick_subscription_ack, in process_hmds_message.
TickAck(st, m) ==
  LET late == {u \in st.tbtUnnumbered : u.q = m.q}
      at == {i \in DOMAIN st.tbt : st.tbt[i].q = m.q}
      noted == [st EXCEPT !.tbtUnnumbered = @ \ late]
  IN  CASE late # {} ->
             IF StillRead(st.tbt, m.t, m.key) THEN noted ELSE Write(noted, CancelMsg(TRUE, m.t))
        [] late = {} /\ at # {} ->
             [st EXCEPT !.tbt = Number(@, Least(at), m.t)]
        [] OTHER -> st

\* handle_tbt_data: every subscription under the number reads the record, each
\* from where it stands, and is handed it under its own request.
TickData(st, m) ==
  LET holders == {i \in DOMAIN st.tbt : st.tbt[i].t = m.t}
      read == [i \in DOMAIN st.tbt |->
                 IF i \in holders THEN [st.tbt[i] EXCEPT !.price = @ + 1] ELSE st.tbt[i]]
  IN  [st EXCEPT !.tbt = read,
                 !.stray = @ \cup {read[i].c : i \in {j \in holders : Key(read[j].c) # m.key}}]

-----------------------------------------------------------------------------
(* Five-second bars. *)

\* What a table keeps: Vec::retain on a request's number, and on a route's readers.
NotOf(subs, S) == Only(subs, {i \in DOMAIN subs : subs[i].c \notin S})
NotAsked(resub, S) == Only(resub, {k \in DOMAIN resub : resub[k] \notin S})
WithReaders(routes) == Only(routes, {i \in DOMAIN routes : routes[i].readers # {}})

SubsOf(st, c) == {i \in DOMAIN st.subs : st.subs[i].c = c}
RouteOf(routes, c) == {i \in DOMAIN routes : c \in routes[i].readers}

\* Mutant: a route nobody reads stays.
WithoutKeepsTheEmpty(routes, S) ==
  [i \in DOMAIN routes |-> [routes[i] EXCEPT !.readers = @ \ S]]

\* forget_bar_reader
Without(routes, S) ==
  WithReaders([i \in DOMAIN routes |-> [routes[i] EXCEPT !.readers = @ \ S]])

BarRouteActive(st, c) == \A i \in RouteOf(st.routes, c) : i = Least(RouteOf(st.routes, c)) => st.routes[i].active

\* The first request in the order they were asked whose stream of the same bars
\* is numbered and read: the request joins it.
Running(st, c) ==
  {k \in DOMAIN st.resub :
     /\ st.resub[k] # c /\ Key(st.resub[k]) = Key(c)
     /\ BarRouteActive(st, st.resub[k])
     /\ \E i \in SubsOf(st, st.resub[k]) : st.subs[i].t # NoNumber}

\* The record that request reads its stream by.
Owner(st, c) ==
  st.subs[Least({i \in SubsOf(st, st.resub[Least(Running(st, c))]) : st.subs[i].t # NoNumber})]

\* The reader joins the route, if there is one.
Admit(routes, at, c) ==
  IF at = {} THEN routes ELSE [routes EXCEPT ![Least(at)].readers = @ \cup {c}]

SendRealtimeBarSubscribe(st, c) ==
  LET kept == [st EXCEPT !.resub = Append(NotAsked(@, {c}), c)]
      q == FreshName(st)
      t == Owner(st, c).t
      route == RouteOf(st.routes, Owner(st, c).c)
  IN  IF Running(st, c) # {}
        THEN [kept EXCEPT !.routes = Admit(@, route, c),
                          !.subs = Append(@, [q |-> q, c |-> c, t |-> t])]
        ELSE Write([kept EXCEPT !.subs = Append(@, [q |-> q, c |-> c, t |-> NoNumber])],
                   AskMsg(q, Key(c)))

\* A request kept up to date asks its batch, which the venue acknowledges with
\* the stream's number as well, and then its stream.
SendKept(st, c) ==
  LET q == FreshName(st)
      asked == Write([st EXCEPT !.batch = @ \cup {[q |-> q, c |-> c]}], AskMsg(q, Key(c)))
  IN  SendRealtimeBarSubscribe(asked, c)

TakesBars(st, c) == st.up /\ SubsOf(st, c) = {} /\ ~\E b \in st.batch : b.c = c

\* Mutant: the last reader of a stream leaves it running.
WithdrawForgetsTheNumber(st, c) ==
  [st EXCEPT !.resub = NotAsked(@, {c}),
             !.subs = NotOf(@, {c}),
             !.routes = Without(@, {c}),
             !.batch = {b \in @ : b.c # c}]

\* The route at `at' without the reader, or no route once it was the last.
Vacated(routes, at, c) ==
  IF routes[at].readers = {c} THEN Drop(routes, at)
                              ELSE [routes EXCEPT ![at].readers = @ \ {c}]

WithdrawBarStream(st, c) ==
  LET asked == \E k \in DOMAIN st.resub : st.resub[k] = c
      off == [st EXCEPT !.resub = NotAsked(@, {c})]
      gone == st.subs[Least(SubsOf(st, c))]
      left == [off EXCEPT !.subs = NotOf(@, {c})]
      at == Least(RouteOf(st.routes, c))
      rest == [left EXCEPT !.routes = Vacated(@, at, c)]
  IN  CASE SubsOf(st, c) = {} -> off
        [] SubsOf(st, c) # {} /\ RouteOf(st.routes, c) # {} ->
             IF st.routes[at].readers = {c} /\ st.routes[at].t # NoNumber
               THEN Write(rest, CancelMsg(FALSE, st.routes[at].t)) ELSE rest
        [] SubsOf(st, c) # {} /\ RouteOf(st.routes, c) = {} /\ gone.t = NoNumber ->
             IF asked THEN [left EXCEPT !.unnumbered = @ \cup {[q |-> gone.q, key |-> Key(c)]}]
                      ELSE left
        [] OTHER ->
             IF \E i \in DOMAIN left.subs : left.subs[i].t = gone.t
               THEN left ELSE Write(left, CancelMsg(FALSE, gone.t))

\* CancelRealTimeBar; for a request kept up to date CancelHistorical, which
\* takes its batch with it.
CancelBars(st, c) == WithdrawBarStream([st EXCEPT !.batch = {b \in @ : b.c # c}], c)

FirstOf(S) == {Least(S) : i \in S}
Carries(route, key) == \E k \in DOMAIN route.contracts : route.contracts[k] = key

\* The route that holds the number; it, if it shows the same thing of the same
\* contract; and, unless the number shows something else now, the first route of
\* the same bars.
Current(routes, t) == FirstOf({i \in DOMAIN routes : routes[i].active /\ routes[i].t = t})

Compatible(routes, key, t) ==
  {i \in Current(routes, t) :
     /\ routes[i].contracts[1].what = key.what
     /\ Carries(routes[i], key) \/ routes[i].contracts[1].con = key.con}

Alternate(routes, key, t) ==
  IF \E i \in Current(routes, t) : routes[i].contracts[1].what # key.what THEN {}
  ELSE FirstOf({i \in DOMAIN routes : routes[i].active /\ Carries(routes[i], key)})

\* assign_bar_route, where a request for `key' told the number t belongs: the
\* route it joins, if any; one that the number has been taken from; and one that
\* shows the same bars in other units, which starts over.
Placement(routes, key, t, unit) ==
  LET compatible == Compatible(routes, key, t)
      alternate == Alternate(routes, key, t)
      target == IF compatible # {} THEN compatible
                ELSE {i \in alternate : routes[i].unit = unit}
  IN  [target |-> target, displaced |-> Current(routes, t) \ target,
       reset |-> IF compatible = {} /\ target = {} THEN alternate ELSE {}]

\* The routes once the request has left its own and the others have given way.
Cleared(routes, place, c) ==
  [i \in DOMAIN routes |->
     [routes[i] EXCEPT !.active = @ /\ i \notin place.displaced \cup place.reset,
                       !.t = IF i \in place.reset THEN NoNumber ELSE @,
                       !.readers = @ \ {c}]]

NewRoute(t, unit) ==
  [contracts |-> <<>>, readers |-> {}, t |-> t, active |-> TRUE, unit |-> unit]

\* The route joined: the contract and the reader are its own from here.
Entered(route, key, c, t) ==
  [route EXCEPT !.contracts = IF Carries(route, key) THEN @ ELSE Append(@, key),
                !.readers = @ \cup {c}, !.t = t, !.active = TRUE]

\* Every request of the route has its number, and those of one that started over none.
Renumber(subs, readers, lost, t) ==
  [i \in DOMAIN subs |->
     [subs[i] EXCEPT !.t = CASE subs[i].c \in readers -> t
                             [] subs[i].c \in lost \ readers -> NoNumber
                             [] OTHER -> @]]

\* assign_bar_route: the request at `at' has been told the venue's number.  What
\* it asked is always found: rtbar_resub names every request of rtbar_subs, both
\* being written by one call and forgotten by one call, so the branch that only
\* numbers the record (2215-2218) is not here.
AssignBarRoute(st, at, t, unit) ==
  LET c == st.subs[at].c
      place == Placement(st.routes, Key(c), t, unit)
      cleared == Cleared(st.routes, place, c)
      opened == IF place.target # {} THEN cleared ELSE Append(cleared, NewRoute(t, unit))
      pos == IF place.target # {} THEN Least(place.target) ELSE Len(opened)
      entered == Entered(opened[pos], Key(c), c, t)
      lost == UNION {st.routes[i].readers : i \in place.reset}
      kept == [st EXCEPT !.subs = Renumber(@, entered.readers, lost, t),
                         !.routes = WithReaders([opened EXCEPT ![pos] = entered])]
      old == {st.routes[i].t : i \in place.reset} \ {NoNumber}
  IN  IF old = {} THEN kept ELSE Write(kept, CancelMsg(FALSE, CHOOSE n \in old : TRUE))

\* Mutant: what was withdrawn before it was numbered is withdrawn again by its
\* number, whoever asked for the same bars since.
WantedByNobody(st, key) == FALSE

\* Whether a request in the reconnect records asked for the same bars.
Wanted(st, key) == \E k \in DOMAIN st.resub : Key(st.resub[k]) = key

\* parse_ticker_id, in process_hmds_message.  An acknowledgement states its
\* increment (WorkloadsAssumption): one that stated none would be dropped after
\* the test for a late withdrawal (1405-1409), and its stream never numbered.
BarAck(st, m) ==
  LET late == {u \in st.unnumbered : u.q = m.q}
      noted == [st EXCEPT !.unnumbered = @ \ late]
      direct == {i \in DOMAIN st.subs : st.subs[i].q = m.q}
      batch == {b \in st.batch : b.q = m.q}
      beside == [st EXCEPT !.subs = Append(@, [q |-> m.q, c |-> (CHOOSE b \in batch : TRUE).c,
                                               t |-> NoNumber])]
  IN  CASE late # {} -> IF Wanted(st, m.key) THEN noted ELSE Write(noted, CancelMsg(FALSE, m.t))
        [] late = {} /\ direct # {} -> AssignBarRoute(st, Least(direct), m.t, m.unit)
        [] late = {} /\ direct = {} /\ batch # {} ->
             AssignBarRoute(beside, Len(beside.subs), m.t, m.unit)
        [] OTHER -> st

\* Mutant: a request standing under two records of one number hears each twice.
HearPerRecord(st, t) ==
  {<<i, st.subs[i].c>> : i \in {j \in DOMAIN st.subs : st.subs[j].t = t}}

\* handle_rtbar_data: each request reading the number hears the bar, once.
Hear(st, t) ==
  {<<1, st.subs[i].c>> : i \in {j \in DOMAIN st.subs : st.subs[j].t = t
                                                  /\ BarRouteActive(st, st.subs[j].c)}}

BarData(st, m) ==
  LET heard == Hear(st, m.t)
  IN  [st EXCEPT !.twice = @ \cup {x[2] : x \in {y \in heard : \E z \in heard : z # y /\ z[2] = y[2]}}]

-----------------------------------------------------------------------------
(* A refusal of a query, and the records of a frame. *)

QueryError(st, m) ==
  LET b == {x \in st.batch : x.q = m.q}
      sub == {i \in DOMAIN st.subs : st.subs[i].q = m.q}
      c == IF b # {} THEN (CHOOSE x \in b : TRUE).c ELSE st.subs[Least(sub)].c
  IN  CASE b # {} -> CancelBars(st, c)
        [] b = {} /\ sub # {} ->
             [st EXCEPT !.subs = Drop(@, Least(sub)), !.routes = Without(@, {c}),
                        !.resub = NotAsked(@, {c})]
        [] OTHER -> [st EXCEPT !.tbt = Only(@, {i \in DOMAIN st.tbt : st.tbt[i].q # m.q})]

Process(st, m) ==
  CASE m.m = "ack" /\ m.key.tick -> TickAck(st, m)
    [] m.m = "ack" /\ ~m.key.tick -> BarAck(st, m)
    [] m.m = "error" -> QueryError(st, m)
    [] m.m = "record" /\ m.key.tick -> TickData(st, m)
    [] OTHER -> BarData(st, m)

-----------------------------------------------------------------------------
(* The venue. *)

\* A number is handed out again once its stream has stopped and nothing on its
\* way between the two sides names it.
Numbers(st, tick) ==
  {r.t : r \in {x \in st.running : x.key.tick = tick}}
    \cup {st.out[i].t : i \in {j \in DOMAIN st.out : st.out[j].m = "cancel" /\ st.out[j].tick = tick}}
    \cup {st.in[i].t : i \in {j \in DOMAIN st.in : st.in[j].key.tick = tick}}

Reply(st, m) == [st EXCEPT !.in = Append(@, m)]

\* The number of the stream of `key': its own while it runs, the first free if not.
NumberFor(st, key) ==
  IF \E r \in st.running : r.key = key THEN (CHOOSE r \in st.running : r.key = key).t
  ELSE Least((1 .. Cardinality(Numbers(st, key.tick)) + 1) \ Numbers(st, key.tick))

Answer(m, kind, t, unit) == [m |-> kind, q |-> m.q, key |-> m.key, t |-> t, unit |-> unit]

Runs(st, key, t) == [st EXCEPT !.running = @ \cup {[key |-> key, t |-> t]}]

VenueAsked(st, m, unit) ==
  LET t == NumberFor(st, m.key)
  IN  IF m.key \in st.refuses THEN Reply(st, Answer(m, "error", NoNumber, unit))
                              ELSE Reply(Runs(st, m.key, t), Answer(m, "ack", t, unit))

VenueCancelled(st, m) ==
  [st EXCEPT !.running = {r \in @ : r.key.tick # m.tick \/ r.t # m.t}]

-----------------------------------------------------------------------------
(* Actions. *)

Subscribe(c) ==
  /\ s.asks < load.maxAsks
  /\ IF IsTick(c) THEN TakesTick(s, c) ELSE TakesBars(s, c)
  /\ LET asked == [s EXCEPT !.asks = @ + 1]
     IN  s' = CASE IsTick(c) -> SendTbtSubscribe(asked, c)
                [] IsKept(c) -> SendKept(asked, c)
                [] OTHER -> SendRealtimeBarSubscribe(asked, c)
  /\ UNCHANGED load

\* A withdrawal of what nothing is held for is told so, and changes nothing.
Unsubscribe(c) ==
  /\ IF IsTick(c) THEN TickAt(s, c) # {}
     ELSE SubsOf(s, c) # {} \/ \E b \in s.batch : b.c = c
  /\ s' = IF IsTick(c) THEN SendTbtUnsubscribe(s, c) ELSE CancelBars(s, c)
  /\ UNCHANGED load

Venue ==
  /\ s.out # <<>>
  /\ LET m == Head(s.out)
         rest == [s EXCEPT !.out = Tail(@)]
     IN  \/ m.m = "ask" /\ \E unit \in load.units : s' = VenueAsked(rest, m, unit)
         \/ m.m = "cancel" /\ s' = VenueCancelled(rest, m)
  /\ UNCHANGED load

\* The venue writes a move of a stream it runs.
VenueRecord ==
  /\ s.moves < load.maxMoves
  /\ \E r \in s.running :
       s' = Reply([s EXCEPT !.moves = @ + 1],
                  [m |-> "record", q |-> 0, key |-> r.key, t |-> r.t, unit |-> 0])
  /\ UNCHANGED load

\* poll: one message of what has arrived.
Poll ==
  /\ s.up /\ s.in # <<>>
  /\ s' = Process([s EXCEPT !.in = Tail(@)], Head(s.in))
  /\ UNCHANGED load

\* disconnect: a request kept up to date is over; the venue runs nothing for a
\* connection that is gone.
Disconnect ==
  /\ s.up /\ s.drops < load.maxDrops
  /\ LET kept == {c \in Callers : IsKept(c) /\ \E b \in s.batch : b.c = c}
     IN  s' = [s EXCEPT !.up = FALSE, !.drops = @ + 1, !.out = <<>>, !.in = <<>>,
                        !.running = {}, !.batch = {},
                        !.subs = NotOf(@, kept),
                        !.routes = Without(@, kept),
                        !.resub = NotAsked(@, kept)]
  /\ UNCHANGED load

\* Every tick-by-tick subscription is asked for again, under a new name, and
\* then the bars, in the order they were asked for.
TicksAgain(st) ==
  [i \in DOMAIN st.tbt |-> [q |-> i, c |-> st.tbt[i].c, t |-> NoNumber, price |-> 0]]
BarsAgain(st) ==
  [k \in DOMAIN st.resub |-> [q |-> Len(st.tbt) + k, c |-> st.resub[k], t |-> NoNumber]]
AsksAgain(st) ==
  [i \in 1 .. Len(st.tbt) + Len(st.resub) |->
     AskMsg(i, Key(IF i <= Len(st.tbt) THEN st.tbt[i].c ELSE st.resub[i - Len(st.tbt)]))]

\* reconnect
Reconnect ==
  /\ ~s.up
  /\ s' = [s EXCEPT !.up = TRUE, !.tbtUnnumbered = {}, !.unnumbered = {}, !.routes = <<>>,
                    !.tbt = TicksAgain(s), !.subs = BarsAgain(s), !.out = AsksAgain(s)]
  /\ UNCHANGED load

Next ==
  \/ \E c \in Callers : Subscribe(c) \/ Unsubscribe(c)
  \/ Venue \/ VenueRecord \/ Poll \/ Disconnect \/ Reconnect

Spec == Init /\ [][Next]_vars

-----------------------------------------------------------------------------
(* Properties. *)

\* Every table holds what its code's type says, and every message is one the
\* two sides write.
TypeOK ==
  /\ load \in Workloads
  /\ s.up \in BOOLEAN
  /\ \A i \in DOMAIN s.tbt : s.tbt[i].c \in Callers /\ s.tbt[i].t \in Nat
  /\ \A i \in DOMAIN s.subs : s.subs[i].c \in Callers /\ s.subs[i].t \in Nat
  /\ \A i \in DOMAIN s.routes : s.routes[i].readers \in (SUBSET Callers) \ {{}}
  /\ \A i \in DOMAIN s.resub : s.resub[i] \in Callers
  /\ \A i \in DOMAIN s.out : s.out[i].m \in {"ask", "cancel"}
  /\ \A i \in DOMAIN s.in : s.in[i].m \in {"ack", "error", "record"}

\* Nothing is on its way between the two sides.
Settled == s.up /\ s.out = <<>> /\ s.in = <<>>

\* No two callers ask for the same five-second bars.
Apart == \A c, d \in Callers : ~IsTick(c) /\ Key(c) = Key(d) => c = d

Served(table) ==
  Settled => \A i \in DOMAIN table :
    \E r \in s.running : r.key = Key(table[i].c) /\ r.t = table[i].t

\* A caller subscribed to a tick-by-tick stream in this client's table has it
\* running at the venue under the number it reads, whoever else withdrew
\* meanwhile (send_tbt_unsubscribe and the late acknowledgement in
\* process_hmds_message: a withdrawal leaves a stream a sibling reads or waits
\* for).
TickReadersAreServed == Served(s.tbt)

\* The same of the five-second bars, whoever else reads them
\* (withdraw_bar_stream: "A stream another request still reads stays").
BarReadersAreServed == Served(s.subs)

\* The same of five-second bars where no two callers ask for the same, through
\* withdrawals before and after the stream is numbered, a number handed out
\* again, and a reconnect.  Where two do, one of them can be left reading the
\* number of a stream that stopped, and its withdrawal stops whoever has been
\* given that number since.
LoneBarReadersAreServed == Apart => BarReadersAreServed

\* Whoever is subscribed, to ticks or to bars nobody else asks for, is served.
ReadersAreServed == TickReadersAreServed /\ LoneBarReadersAreServed

\* The venue writes no stream nobody here reads: what is withdrawn before it is
\* numbered is withdrawn again by its number (tbt_withdrawn_unnumbered,
\* rtbar_withdrawn_unnumbered), and the last reader out stops it.  Where two
\* callers ask for the same bars, BarReadersAreServed says what happens.
NoStreamRunsUnread ==
  Settled => \A r \in s.running :
    \/ \E i \in DOMAIN s.tbt : Key(s.tbt[i].c) = r.key
    \/ \E i \in DOMAIN s.subs : Key(s.subs[i].c) = r.key
    \/ ~r.key.tick /\ ~Apart

\* A tick is handed only to callers who asked for what it is a tick of, though
\* the venue hands its numbers out again (handle_tbt_data reads by number).
TicksReachTheirReaders == s.stray = {}

\* Callers reading one stream stand at one price: a second reader joins where
\* the first has got to (the acknowledgement's `joined').
SiblingsAgree ==
  \A i, j \in DOMAIN s.tbt :
    s.tbt[i].t = s.tbt[j].t /\ s.tbt[i].t # NoNumber => s.tbt[i].price = s.tbt[j].price

\* A request kept up to date stands under two records, and hears each bar once
\* (handle_rtbar_data's `served').
BarsAreHeardOnce == s.twice = {}

\* What the venue states reaches those who asked for it, each once, and the
\* readers of one stream stand at one price.
RecordsReachTheirReaders == TicksReachTheirReaders /\ SiblingsAgree /\ BarsAreHeardOnce
=============================================================================
