------------------------- MODULE HistoricalRequests -------------------------
(***************************************************************************)
(* What is asked of the historical service and answered once: bar          *)
(* requests, trading schedules, head timestamps, histograms, past ticks,   *)
(* news, fundamentals, corporate actions, the scanner's parameters, and    *)
(* the scans that wait for them (src/engine/hot_loop/hmds/mod.rs, with the *)
(* commands and the recovery of src/engine/hot_loop/mod.rs that reach it). *)
(*                                                                         *)
(* A bar request is several queries under one number of the caller's: the  *)
(* contract's corporate actions, then each stretch of its history, a pair  *)
(* of queries for a bid and ask series.  At most a cap of them are in      *)
(* flight and the rest wait their turn.  A connection that drops lets some *)
(* go, keeps others to be asked again, and fails the rest.                 *)
(*                                                                         *)
(* The venue is external: it may answer any query still on the wire, in    *)
(* any order, with a page, a refusal or something that cannot be read, and *)
(* a query withdrawn may still be answered.  A caller's ask is its place   *)
(* in the workload; `fate' is what its caller has been told.               *)
(***************************************************************************)
EXTENDS Integers, Sequences, FiniteSets, SequencesExt

CONSTANTS
  Workloads,  \* sets of asks, and the bounds on what the venue does
  Cap,        \* HISTORICAL_IN_FLIGHT_CAP
  ScanLimit   \* scans at one time: a tenth of the message allowance

\* news stands for the asks kept through a drop and asked again: news, an
\* article, fundamentals.
Kinds == {"bars", "schedule", "head", "histogram", "ticks", "news", "actions", "params", "scan"}

\* bad: its arguments are refused when it is taken, or when it starts.
\* kept: kept up to date.  paired: bid and ask.  folded: of a stock or fund,
\* whose corporate actions are asked first.  plan: the stretches of history the
\* actions divide it into.  unfoldable: its bars cannot be folded.
Asks == [id : Nat, kind : Kinds, bad : {"no", "taken", "started"}, kept : BOOLEAN, paired : BOOLEAN,
         folded : BOOLEAN, plan : Nat, unfoldable : BOOLEAN]

ASSUME WorkloadsAssumption ==
  \A w \in Workloads :
    /\ w.who \in Seq(Asks) /\ {w.maxDrops, w.maxUnread} \subseteq Nat
    /\ w.mayHalt \in BOOLEAN /\ w.streams \subseteq Nat
ASSUME BoundsAssumption == {Cap, ScanLimit} \subseteq Nat \ {0}

VARIABLES
  load,  \* the workload of this behaviour
  h      \* the historical service's state

vars == <<load, h>>

All == DOMAIN load.who
Id(a) == load.who[a].id
Kind(a) == load.who[a].kind

Init ==
  /\ load \in Workloads
  /\ h = [conn |-> TRUE, halted |-> FALSE, due |-> FALSE,
          queue |-> <<>>,    \* hist_queue
          held |-> {},       \* held: each series being put together
          pending |-> <<>>,  \* pending_historical
          adj |-> <<>>,      \* pending_adjustments
          sched |-> <<>>,    \* pending_schedule
          asks |-> <<>>,     \* bar_asks
          again |-> <<>>,    \* asked_again
          keep |-> {},       \* keep_up_to_date_reqs
          cached |-> FALSE,  \* actions_held
          one |-> <<>>,      \* the tables of the asks answered by one reply
          asking |-> 0,      \* pending_scanner_params: whose, or our own
          questions |-> <<>>, \* scanner_params_queued
          permissions |-> FALSE, waiting |-> <<>>, scans |-> <<>>,
          wire |-> {}, drops |-> 0, unread |-> 0,
          fate |-> [a \in All |-> "unasked"], ends |-> [a \in All |-> 0],
          history |-> {}, late |-> {}, early |-> {},
          left |-> {}]       \* left waiting with nothing to come: LeaveWaiting

OwnQuestion == -1

-----------------------------------------------------------------------------
(* What a caller is told. *)

Fates == {"unasked", "live", "ended", "refused", "withdrawn"}

\* An end under the caller's number: the last of its answer, or an error that
\* ends it.
End(st, a) ==
  [st EXCEPT !.fate[a] = IF @ = "live" THEN "ended" ELSE @,
             !.ends[a] = @ + 1,
             !.late = IF st.fate[a] # "live" THEN @ \cup {a} ELSE @]

\* Something under the number that ends nothing.
Deliver(st, a) == [st EXCEPT !.late = IF st.fate[a] # "live" THEN @ \cup {a} ELSE @]

\* Refused without ending anything under the number.
Refuse(st, a) == [st EXCEPT !.fate[a] = "refused"]
Withdraw(st, S) == [st EXCEPT !.fate = [a \in All |-> IF a \in S THEN "withdrawn" ELSE @[a]]]

EndAll(st, as) == FoldLeft(End, st, as)

-----------------------------------------------------------------------------
(* Tables. *)

OwnersOf(table) == {table[i].a : i \in DOMAIN table}
Least(S) == CHOOSE n \in S : \A m \in S : n <= m

\* The first entry of a table that meets a condition, and the table without it.
First(table, P(_)) == {i \in DOMAIN table : P(table[i]) /\ \A j \in 1 .. i - 1 : ~P(table[j])}
WithoutFirst(table, P(_)) ==
  IF First(table, P) = {} THEN table ELSE RemoveAt(table, Least(First(table, P)))

HeldOf(st, id) == {e \in st.held : Id(e.a) = id}
InFlight(st) == Cardinality(st.held)
Rehold(st, e, f) == [st EXCEPT !.held = (@ \ {e}) \cup {f}]

Names(st) ==
  {w.q : w \in st.wire} \cup {e.actq : e \in st.held} \cup {e.askq : e \in st.held} \cup UNION {{t[i].q : i \in DOMAIN t} :
                                     t \in {st.pending, st.adj, st.sched, st.one}}
FreshName(st) == Least((1 .. Cardinality(Names(st)) + 1) \ Names(st))
TwoNames(st) == LET N == Names(st) IN Least((1 .. Cardinality(N) + 2) \ (N \cup {FreshName(st)}))

Ask(st, q, k) == IF st.conn THEN [st EXCEPT !.wire = @ \cup {[q |-> q, k |-> k]}] ELSE st

\* refused_as_a_second_query: a bar query already answers under the number.
Answering(st, id) ==
  \/ HeldOf(st, id) # {}
  \/ \E i \in DOMAIN st.pending : Id(st.pending[i].a) = id
  \/ \E i \in DOMAIN st.again : Id(st.again[i]) = id
  \/ \E i \in DOMAIN st.queue : Id(st.queue[i]) = id

StillArriving(st, a) ==
  IF Kind(a) = "schedule" THEN \E i \in DOMAIN st.sched : Id(st.sched[i].a) = Id(a)
                          ELSE HeldOf(st, Id(a)) # {}

NoteAsk(st, a) ==
  [st EXCEPT !.asks =
     Append(SelectSeq(@, LAMBDA b : /\ ~(Id(b) = Id(a) /\ Kind(b) = Kind(a))
                                    /\ StillArriving(st, b)), a)]

-----------------------------------------------------------------------------
(* A bar request. *)

\* ask_stretch: one query, or the pair of them, in the place of the last.
AskStretch(st, e) ==
  LET q == FreshName(st)
      p == TwoNames(st)
      others == SelectSeq(st.pending, LAMBDA x : Id(x.a) # Id(e.a))
      mine == {i \in DOMAIN st.pending : Id(st.pending[i].a) = Id(e.a)}
      f == [e EXCEPT !.bid = FALSE, !.ask = FALSE, !.askq = p]
  IN  IF load.who[e.a].paired
        THEN Ask(Ask([Rehold(st, e, f) EXCEPT
                        !.pending = others \o <<[q |-> p, a |-> e.a], [q |-> q, a |-> e.a]>>],
                     q, "bars"), p, "bars")
        ELSE Ask([st EXCEPT !.pending =
                    IF mine = {} THEN Append(@, [q |-> q, a |-> e.a])
                                 ELSE [@ EXCEPT ![Least(mine)] = [q |-> q, a |-> e.a]]],
                 q, "bars")

AskNextStretch(st, e) ==
  LET f == [e EXCEPT !.left = @ - 1] IN AskStretch(Rehold(st, e, f), f)

\* ask_along, the actions being known: an empty plan is no data.
AskAlong(st, e) ==
  LET gone == [st EXCEPT !.held = @ \ {e}, !.keep = @ \ {e.a}]
      f == [e EXCEPT !.left = load.who[e.a].plan]
  IN  IF load.who[e.a].plan = 0 THEN End(gone, e.a) ELSE AskNextStretch(Rehold(st, e, f), f)

\* send_historical_request_ex
SendHistoricalRequest(st, a) ==
  LET e == [a |-> a, actq |-> 0, left |-> 0, bid |-> FALSE, ask |-> FALSE, askq |-> 0]
      held == NoteAsk([st EXCEPT !.held = @ \cup {e}], a)
      q == FreshName(held)
      f == [e EXCEPT !.actq = q]
      bad == load.who[a].bad = "started"
      second == Answering(st, Id(a))
      folded == load.who[a].folded
  IN  CASE bad -> End(st, a)
        [] ~bad /\ second -> Refuse(st, a)
        [] ~bad /\ ~second /\ ~folded -> AskStretch(held, e)
        [] ~bad /\ ~second /\ folded /\ st.cached -> AskAlong(held, e)
        [] OTHER ->
             Ask([Rehold(held, e, f) EXCEPT !.adj = Append(@, [q |-> q, a |-> a])], q, "actions")

\* start_historical_request: the batch and, where it is kept up to date and the
\* batch was sent, the stream beside it.
StartHistoricalRequest(st, a) ==
  LET sent == SendHistoricalRequest(st, a)
  IN  IF load.who[a].kept /\ HeldOf(sent, Id(a)) # {} THEN [sent EXCEPT !.keep = @ \cup {a}]
                                                      ELSE sent

\* Mutant: one more is started than the cap allows.
SendPastTheCap(st) ==
  LET f[k \in 0 .. Len(st.queue)] ==
        IF k = 0 THEN st
        ELSE LET g == f[k - 1]
             IN  IF g.conn /\ InFlight(g) <= Cap /\ g.queue # <<>>
                   THEN StartHistoricalRequest([g EXCEPT !.queue = Tail(@)], Head(g.queue)) ELSE g
  IN  f[Len(st.queue)]

\* send_next_historical
SendNextHistorical(st) ==
  LET f[k \in 0 .. Len(st.queue)] ==
        IF k = 0 THEN st
        ELSE LET g == f[k - 1]
             IN  IF g.conn /\ InFlight(g) < Cap /\ g.queue # <<>>
                   THEN StartHistoricalRequest([g EXCEPT !.queue = Tail(@)], Head(g.queue)) ELSE g
  IN  f[Len(st.queue)]

\* take_historical_request
TakeHistoricalRequest(st, a) ==
  LET live == [st EXCEPT !.fate[a] = "live"]
      refused == \/ load.who[a].bad = "taken"
                 \/ Answering(st, Id(a))
                 \/ ~st.conn
                 \/ load.who[a].kept /\ Id(a) \in load.streams
  IN  IF refused THEN Refuse(st, a)
      ELSE SendNextHistorical([live EXCEPT !.queue = Append(@, a)])

\* try_file_held: the series is whole.
FileHeld(st, e) ==
  LET gone == [st EXCEPT !.held = @ \ {e}]
      filed == [Deliver(gone, e.a) EXCEPT !.history = @ \cup {e.a}]
  IN  CASE load.who[e.a].unfoldable ->
             End([gone EXCEPT !.keep = @ \ {e.a},
                              !.pending = SelectSeq(@, LAMBDA x : Id(x.a) # Id(e.a))], e.a)
        [] ~load.who[e.a].unfoldable /\ e.a \in st.keep -> filed
        [] OTHER -> End(filed, e.a)

\* Mutant: one stretch more is asked than the plan holds.
AskPastThePlan(st, e, q, enough) ==
  IF ~load.who[e.a].paired /\ e.left >= 0 /\ ~enough THEN AskNextStretch(st, e) ELSE FileHeld(st, e)

\* hold_bars, of a complete page: `enough' is whether the days wanted are in.
HoldBars(st, e, q, enough) ==
  LET paired == load.who[e.a].paired
      f == CASE paired /\ q = e.askq -> [e EXCEPT !.ask = TRUE]
             [] paired /\ q # e.askq -> [e EXCEPT !.bid = TRUE]
             [] OTHER -> e
      had == Rehold(st, e, f)
  IN  CASE paired /\ ~(f.bid /\ f.ask) -> had
        [] ~(paired /\ ~(f.bid /\ f.ask)) /\ f.left > 0 /\ ~enough -> AskNextStretch(had, f)
        [] OTHER -> FileHeld(had, f)

-----------------------------------------------------------------------------
(* What the venue answers: process_hmds_message, of a reply naming query q. *)

Named(table, q) == First(table, LAMBDA x : x.q = q)
OwnerOf(table, q) == table[Least(Named(table, q))].a

\* Mutant: the entry of a query answered stays.
AnsweredQueryStays(st, q, enough) ==
  LET a == OwnerOf(st.pending, q)
  IN  IF Named(st.pending, q) # {} /\ HeldOf(st, Id(a)) # {}
        THEN HoldBars(st, CHOOSE e \in HeldOf(st, Id(a)) : TRUE, q, enough) ELSE st

\* A complete page of bars.
BarsPage(st, q, enough) ==
  LET a == OwnerOf(st.pending, q)
      taken == IF HeldOf(st, Id(a)) # {}
                 THEN HoldBars(st, CHOOSE e \in HeldOf(st, Id(a)) : TRUE, q, enough)
                 ELSE Deliver(st, a)
  IN  CASE Named(st.pending, q) = {} -> st
        [] Named(st.pending, q) # {} /\ a \in taken.keep -> taken
        [] OTHER -> [taken EXCEPT !.pending = SelectSeq(@, LAMBDA x : x.q # q)]

\* The corporate actions of a contract.
ActionsPage(st, q) ==
  LET a == OwnerOf(st.adj, q)
      off == [st EXCEPT !.adj = SelectSeq(@, LAMBDA x : x.q # q)]
      folds == {e \in st.held : e.actq = q}
  IN  CASE Named(st.adj, q) = {} -> st
        [] Named(st.adj, q) # {} /\ folds # {} ->
             AskAlong([off EXCEPT !.cached = TRUE], CHOOSE e \in folds : TRUE)
        [] OTHER -> End(off, a)

\* A reply that answers an ask whole.
OneReply(st, q) ==
  CASE Named(st.one, q) # {} ->
         End([st EXCEPT !.one = SelectSeq(@, LAMBDA x : x.q # q)], OwnerOf(st.one, q))
    [] Named(st.one, q) = {} /\ Named(st.sched, q) # {} ->
         End([st EXCEPT !.sched = SelectSeq(@, LAMBDA x : x.q # q)], OwnerOf(st.sched, q))
    [] OTHER -> st

\* A held series goes with everything asked for it, its stream half included.
LetGoOfHeld(st, a) ==
  [st EXCEPT !.held = @ \ HeldOf(st, Id(a)), !.keep = {b \in @ : Id(b) # Id(a)},
             !.pending = IF HeldOf(st, Id(a)) = {} THEN @
                         ELSE SelectSeq(@, LAMBDA x : Id(x.a) # Id(a))]

\* Mutant: a refusal leaves the series it ends held.
ErrorKeepsTheSeries(st, q) ==
  IF Named(st.pending, q) # {}
    THEN End([st EXCEPT !.pending = SelectSeq(@, LAMBDA x : x.q # q)], OwnerOf(st.pending, q))
    ELSE st

\* <QueryError>
QueryError(st, q) ==
  LET bars == Named(st.pending, q) # {}
      acts == Named(st.adj, q) # {}
      folds == \E e \in st.held : e.actq = q
      offBars == [st EXCEPT !.pending = SelectSeq(@, LAMBDA x : x.q # q)]
      offActs == [st EXCEPT !.adj = SelectSeq(@, LAMBDA x : x.q # q)]
  IN  CASE bars -> End(LetGoOfHeld(offBars, OwnerOf(st.pending, q)), OwnerOf(st.pending, q))
        [] ~bars /\ acts /\ folds -> End(LetGoOfHeld(offActs, OwnerOf(st.adj, q)), OwnerOf(st.adj, q))
        [] ~bars /\ acts /\ ~folds -> End(offActs, OwnerOf(st.adj, q))
        [] OTHER -> OneReply(st, q)

\* The callers of S wait on, and nothing will answer them.
LeaveWaiting(st, S) == [st EXCEPT !.left = @ \cup S]

\* A reply that names a query and cannot be read ends a bar request still being
\* put together, a head timestamp, a histogram, past ticks and news; a kept
\* request whose history is in reads past it.  `shaped' is whether it is of the
\* shape of its kind: past ticks that are not, and a schedule, are read past.
Unreadable(st, q, shaped) ==
  LET a == OwnerOf(st.pending, q)
      over == a \notin st.keep \/ HeldOf(st, Id(a)) # {}
      off == [st EXCEPT !.pending = RemoveAt(@, Least(Named(@, q))),
                        !.held = @ \ HeldOf(st, Id(a)), !.keep = @ \ {a}]
  IN  CASE Named(st.pending, q) # {} /\ over -> End(off, a)
        [] Named(st.pending, q) = {} /\ Named(st.one, q) # {}
             /\ (shaped \/ Kind(OwnerOf(st.one, q)) # "ticks") -> OneReply(st, q)
        [] OTHER -> LeaveWaiting(st, {x.a : x \in {y \in Range(st.one \o st.sched) : y.q = q}})

-----------------------------------------------------------------------------
(* The scanner. *)

\* start_scanner_params_request: `who' asks, or this client for itself.
StartScannerParams(st, who) ==
  CASE ~st.conn /\ who = OwnQuestion -> [EndAll(st, st.waiting) EXCEPT !.waiting = <<>>]
    [] ~st.conn /\ who # OwnQuestion -> End(st, who)
    [] st.conn /\ st.asking # 0 ->
         IF who = OwnQuestion THEN st ELSE [st EXCEPT !.questions = Append(@, who)]
    [] OTHER -> Ask([st EXCEPT !.asking = who], FreshName(st), "params")

\* send_next_scanner_params: the questions waiting their turn, then our own
\* where a scan waits to know what it may ask.
SendNextScannerParams(st) ==
  LET f[k \in 0 .. Len(st.questions)] ==
        IF k = 0 THEN st
        ELSE LET g == f[k - 1]
             IN  IF g.asking = 0 /\ g.questions # <<>>
                   THEN StartScannerParams([g EXCEPT !.questions = Tail(@)], Head(g.questions)) ELSE g
      asked == f[Len(st.questions)]
  IN  IF asked.asking = 0 /\ ~asked.permissions /\ asked.waiting # <<>>
        THEN StartScannerParams(asked, OwnQuestion) ELSE asked

\* Mutant: a scan waiting for the permissions is not counted against the limit.
ScanCountsTheRunning(st) == Len(st.scans) >= ScanLimit
ScanLimitReached(st) == Len(st.scans) + Len(st.waiting) >= ScanLimit

\* send_scanner_subscribe; a bad scan is one the permissions refuse.
SendScannerSubscribe(st, a) ==
  LET known == \E i \in DOMAIN st.scans : Id(st.scans[i]) = Id(a)
      waits == \E i \in DOMAIN st.waiting : Id(st.waiting[i]) = Id(a)
      live == [st EXCEPT !.fate[a] = "live"]
  IN  CASE ScanLimitReached(st) \/ known \/ waits -> Refuse(st, a)
        [] ~(ScanLimitReached(st) \/ known \/ waits) /\ ~st.permissions ->
             LET kept == [live EXCEPT !.waiting = Append(@, a)]
             IN  IF st.asking = 0 THEN StartScannerParams(kept, OwnQuestion) ELSE kept
        [] OTHER -> IF load.who[a].bad # "no" THEN End(live, a)
                    ELSE [live EXCEPT !.scans = Append(@, a)]

\* The reply to a question about the parameters.
ParamsPage(st) ==
  LET known == [st EXCEPT !.asking = 0, !.permissions = TRUE, !.waiting = <<>>]
      told == IF st.asking \notin {0, OwnQuestion} THEN End(known, st.asking) ELSE known
  IN  FoldLeft(SendScannerSubscribe, told, st.waiting)

-----------------------------------------------------------------------------
(* The drop and what follows it. *)

\* Mutant: the query of a request whose history is in stays, to be failed with
\* the rest.
LetGoKeepsTheQuery(st, a) ==
  LET own == {e.actq : e \in HeldOf(st, Id(a))}
  IN  [st EXCEPT !.adj = SelectSeq(@, LAMBDA x : x.q \notin own),
                 !.held = @ \ HeldOf(st, Id(a)),
                 !.pending = SelectSeq(@, LAMBDA x : Id(x.a) # Id(a) \/ own = {}),
                 !.sched = SelectSeq(@, LAMBDA x : Id(x.a) # Id(a))]

\* let_go_of_bar_request
LetGoOfBarRequest(st, a) ==
  LET own == {e.actq : e \in HeldOf(st, Id(a))}
  IN  [st EXCEPT !.adj = SelectSeq(@, LAMBDA x : x.q \notin own),
                 !.held = @ \ HeldOf(st, Id(a)),
                 !.pending = SelectSeq(@, LAMBDA x : Id(x.a) # Id(a)),
                 !.sched = SelectSeq(@, LAMBDA x : Id(x.a) # Id(a))]

TellTheBarRequestsOfTheDrop(st) ==
  LET kept == SetToSeq(st.keep)
      told == EndAll([FoldLeft(LetGoOfBarRequest, st, kept) EXCEPT !.keep = {}], kept)
      waiting == SelectSeq(told.asks, LAMBDA a : StillArriving(told, a))
      let == FoldLeft(LetGoOfBarRequest, told, waiting)
  IN  [let EXCEPT !.asks = <<>>, !.again = @ \o waiting, !.left = @ \ Range(waiting)]

\* fail_pending
FailPending(st) ==
  LET owners(table) == [i \in DOMAIN table |-> table[i].a]
      failed == EndAll(EndAll(EndAll(st, SetToSeq({e.a : e \in st.held})), owners(st.pending)),
                       owners(st.adj) \o owners(st.sched))
  IN  [failed EXCEPT !.held = {}, !.pending = <<>>, !.adj = <<>>, !.sched = <<>>]

SendScheduleRequest(st, a) ==
  LET q == FreshName(st)
  IN  NoteAsk(Ask([st EXCEPT !.sched = Append(@, [q |-> q, a |-> a])], q, "one"), a)

\* Mutant: what waited to be asked again is asked only where it is of bars.
AskOnlyBarsAgain(st, a) == IF Kind(a) = "schedule" THEN st ELSE SendHistoricalRequest(st, a)

AskAgain(st, a) ==
  IF Kind(a) = "schedule" THEN SendScheduleRequest(st, a) ELSE SendHistoricalRequest(st, a)

-----------------------------------------------------------------------------
(* Actions.  The head of poll_control_commands runs on every lap, after the  *)
(* sockets and before the commands: `due' says it has yet to.                *)

\* Mutant: a lap starts no bar request waiting its turn.
LapStartsNone(st) == [SendNextScannerParams(st) EXCEPT !.due = FALSE]
LapHead(st) == [SendNextHistorical(SendNextScannerParams(st)) EXCEPT !.due = FALSE]

Lap ==
  /\ h.due \/ LapHead(h) # h
  /\ h' = LapHead(h)
  /\ UNCHANGED load

\* The command a caller makes of ask a.
Request(a) ==
  /\ ~h.due /\ h.fate[a] = "unasked"
  /\ LET live == [h EXCEPT !.fate[a] = "live"]
         q == FreshName(h)
         waits(kind) == \E b \in OwnersOf(h.one) : Id(b) = Id(a) /\ Kind(b) = kind
     IN  h' = CASE Kind(a) = "bars" -> TakeHistoricalRequest(h, a)
                [] Kind(a) = "params" -> StartScannerParams(live, a)
                [] Kind(a) \notin {"bars", "params"} /\ ~h.conn -> Refuse(h, a)
                [] Kind(a) = "schedule" /\ h.conn -> SendScheduleRequest(live, a)
                [] Kind(a) = "scan" /\ h.conn -> SendScannerSubscribe(h, a)
                [] Kind(a) = "actions" /\ h.conn ->
                     Ask([live EXCEPT !.adj = Append(@, [q |-> q, a |-> a])], q, "actions")
                [] OTHER ->
                     IF \/ Kind(a) \in {"head", "histogram"} /\ (Answering(h, Id(a)) \/ waits("head"))
                        \/ Kind(a) = "ticks" /\ waits("ticks")
                       THEN Refuse(h, a)
                       ELSE Ask([live EXCEPT !.one = Append(@, [q |-> q, a |-> a])], q, "one")
  /\ UNCHANGED load

\* CancelHistorical: every part of the request, wherever it stands.  A bar
\* request is withdrawn from each table by its number; one query's entry is
\* taken from pending_historical and one from pending_schedule.
CancelHistorical(id) ==
  /\ ~h.due
  /\ \/ Answering(h, id) \/ \E a \in h.keep : Id(a) = id
     \/ \E i \in DOMAIN h.sched : Id(h.sched[i].a) = id
  /\ LET mine == {a \in All : Id(a) = id /\ Kind(a) \in {"bars", "schedule"} /\ h.fate[a] = "live"}
         ofId(x) == Id(x.a) = id
         own == {e.actq : e \in HeldOf(h, id)}
     IN  h' = Withdraw([h EXCEPT !.again = SelectSeq(@, LAMBDA a : Id(a) # id),
                                 !.queue = SelectSeq(@, LAMBDA a : Id(a) # id),
                                 !.keep = {a \in @ : Id(a) # id},
                                 !.pending = WithoutFirst(@, ofId),
                                 !.sched = WithoutFirst(@, ofId),
                                 !.held = @ \ HeldOf(h, id),
                                 !.adj = SelectSeq(@, LAMBDA x : x.q \notin own)], mine)
  /\ UNCHANGED load

\* CancelHeadTimestamp, CancelHistogramData, CancelHistoricalNews and
\* CancelFundamentalData; CancelCorporateActions, which leaves the query a
\* held series folds from; CancelScanner.
CancelOther(a) ==
  /\ ~h.due /\ h.fate[a] = "live"
  /\ \/ /\ Kind(a) \in {"head", "histogram"} /\ a \in OwnersOf(h.one)
        /\ LET mine == First(h.one, LAMBDA x : Id(x.a) = Id(a) /\ Kind(x.a) = Kind(a))
           IN  /\ h.one[Least(mine)].a = a
               /\ h' = Withdraw([h EXCEPT !.one = RemoveAt(@, Least(mine))], {a})
     \/ /\ Kind(a) = "news" /\ a \in OwnersOf(h.one)
        /\ LET mine == {b \in OwnersOf(h.one) : Id(b) = Id(a) /\ Kind(b) = "news"}
           IN  h' = Withdraw([h EXCEPT !.one = SelectSeq(@, LAMBDA x : x.a \notin mine)], mine)
     \/ /\ Kind(a) = "actions" /\ a \in OwnersOf(h.adj)
        /\ h' = Withdraw([h EXCEPT !.adj = SelectSeq(@, LAMBDA x : x.a # a)], {a})
     \/ /\ Kind(a) = "scan"
        /\ h' = Withdraw([h EXCEPT !.waiting = SelectSeq(@, LAMBDA x : x # a),
                                   !.scans = SelectSeq(@, LAMBDA x : x # a)], {a})
  /\ UNCHANGED load

\* poll: the venue answers query q.
Answer(q) ==
  /\ h.conn
  /\ \E w \in h.wire :
       /\ w.q = q
       /\ LET read == [h EXCEPT !.wire = @ \ {w}, !.due = TRUE]
          IN  \/ w.k = "bars" /\ \E enough \in BOOLEAN : h' = BarsPage(read, q, enough)
              \/ w.k = "actions" /\ h' = ActionsPage(read, q)
              \/ w.k = "one" /\ h' = OneReply(read, q)
              \/ w.k = "params" /\ h' = ParamsPage(read)
              \/ w.k # "params" /\ h' = QueryError(read, q)
  /\ UNCHANGED load

AnswerUnreadable(q) ==
  /\ h.conn /\ h.unread < load.maxUnread
  /\ \E w \in h.wire :
       /\ w.q = q /\ w.k \in {"bars", "one"}
       /\ \E shaped \in BOOLEAN :
            h' = Unreadable([h EXCEPT !.wire = @ \ {w}, !.due = TRUE, !.unread = @ + 1], q, shaped)
  /\ UNCHANGED load

\* Mutant: an update goes out before the history it goes on from.
UpdateAtOnce(st, a) == TRUE
HistoryIsIn(st, a) == HeldOf(st, Id(a)) = {}

\* handle_rtbar_data, of a request kept up to date: held while the history is
\* still being put together.
StreamBar(a) ==
  /\ h.conn /\ a \in h.keep /\ HistoryIsIn(h, a)
  /\ h' = [Deliver(h, a) EXCEPT !.due = TRUE,
                                !.early = IF a \in h.history THEN @ ELSE @ \cup {a}]
  /\ UNCHANGED load

\* time_out_head_timestamps, whether or not the connection is up.
HeadTimesOut(a) ==
  /\ Kind(a) = "head" /\ a \in OwnersOf(h.one)
  /\ h' = End([h EXCEPT !.one = SelectSeq(@, LAMBDA x : x.a # a), !.due = TRUE], a)
  /\ UNCHANGED load

\* let_go_of_actions_on_a_new_day
NewDay ==
  /\ h.cached
  /\ h' = [h EXCEPT !.cached = FALSE]
  /\ UNCHANGED load

\* A <QueryError> that names a scan.
ScanRefused(a) ==
  /\ h.conn /\ \E i \in DOMAIN h.scans : h.scans[i] = a
  /\ h' = End([h EXCEPT !.scans = SelectSeq(@, LAMBDA x : x # a), !.due = TRUE], a)
  /\ UNCHANGED load

\* A head timestamp, a histogram and past ticks are told nothing of a drop "and
\* go on waiting" (disconnect); only the first has a deadline to end it.
WaitOn(st) ==
  LeaveWaiting(st, {a \in OwnersOf(st.one) : Kind(a) \in {"histogram", "ticks"}})

\* disconnect
Disconnect ==
  /\ h.conn /\ ~h.due /\ h.drops < load.maxDrops
  /\ LET down == [h EXCEPT !.conn = FALSE, !.drops = @ + 1, !.due = TRUE, !.wire = {},
                           !.asking = 0,
                           !.questions = IF h.asking \in {0, OwnQuestion} THEN @
                                         ELSE Append(@, h.asking)]
     IN  h' = WaitOn(FailPending(TellTheBarRequestsOfTheDrop(down)))
  /\ UNCHANGED load

\* Mutant: news waits through a reconnect unasked.
NewsIsNotAskedAgain(st) == st

\* reconnect: the news, articles and fundamentals still waiting.
NewsAskedAgain(st) ==
  FoldLeft(LAMBDA s, x : Ask(s, x.q, "one"), st, SelectSeq(st.one, LAMBDA x : Kind(x.a) = "news"))

\* reconnect
Reconnect ==
  /\ ~h.conn /\ ~h.halted /\ ~h.due
  /\ LET up == [h EXCEPT !.conn = TRUE, !.again = <<>>, !.due = TRUE]
         asked == FoldLeft(AskAgain, up, h.again)
     IN  h' = SendNextScannerParams(NewsAskedAgain(asked))
  /\ UNCHANGED load

\* The recovery is over, and give_up_those_asked_again on the lap that finds it so.
GiveUp ==
  /\ ~h.conn /\ ~h.halted /\ ~h.due /\ load.mayHalt
  /\ LET news == SelectSeq(h.one, LAMBDA x : Kind(x.a) = "news")
         over == h.again \o h.queue \o h.scans \o h.waiting \o h.questions
                   \o [i \in DOMAIN news |-> news[i].a]
     IN  h' = [EndAll(h, over) EXCEPT
                 !.halted = TRUE, !.again = <<>>, !.queue = <<>>, !.scans = <<>>,
                 !.waiting = <<>>, !.questions = <<>>,
                 !.one = SelectSeq(@, LAMBDA x : Kind(x.a) # "news")]
  /\ UNCHANGED load

MaxNames == 3 * Len(load.who)

Next ==
  \/ Lap \/ NewDay \/ Disconnect \/ Reconnect \/ GiveUp
  \/ \E a \in All : Request(a) \/ CancelOther(a) \/ HeadTimesOut(a) \/ StreamBar(a)
                      \/ ScanRefused(a)
  \/ \E a \in All : CancelHistorical(Id(a))
  \/ \E q \in 1 .. MaxNames : Answer(q) \/ AnswerUnreadable(q)

Spec == Init /\ [][Next]_vars

-----------------------------------------------------------------------------
(* Properties. *)

\* Every table holds asks of its kind, and every ask has one fate.
TypeOK ==
  /\ load \in Workloads
  /\ h.fate \in [All -> Fates]
  /\ \A e \in h.held : Kind(e.a) = "bars" /\ e.left \in 0 .. load.who[e.a].plan
  /\ OwnersOf(h.pending) \cup Range(h.queue) \cup h.keep \subseteq {a \in All : Kind(a) = "bars"}
  /\ Range(h.again) \cup Range(h.asks) \subseteq {a \in All : Kind(a) \in {"bars", "schedule"}}
  /\ Range(h.scans) \cup Range(h.waiting) \subseteq {a \in All : Kind(a) = "scan"}
  /\ h.asking \in All \cup {0, OwnQuestion}
  /\ Names(h) \subseteq 0 .. MaxNames

\* Where an ask is kept.
Homes(a) ==
  {i \in {1} : \E k \in DOMAIN h.queue : h.queue[k] = a}
    \cup {i \in {2} : \E e \in h.held : e.a = a}
    \cup {i \in {3} : \E k \in DOMAIN h.again : h.again[k] = a}
    \cup {i \in {4} : a \in h.keep /\ ~\E e \in h.held : e.a = a}
    \cup {i \in {5} : a \in OwnersOf(h.sched)}
    \cup {i \in {6} : a \in OwnersOf(h.one)}
    \cup {i \in {7} : Kind(a) = "actions" /\ a \in OwnersOf(h.adj)}
    \cup {i \in {8} : h.asking = a \/ \E k \in DOMAIN h.questions : h.questions[k] = a}
    \cup {i \in {9} : \E k \in DOMAIN h.waiting : h.waiting[k] = a}
    \cup {i \in {10} : \E k \in DOMAIN h.scans : h.scans[k] = a}

\* A request taken and not yet told its end is in one place, and in one only:
\* waiting its turn, being put together, kept through a drop to be asked again,
\* kept up to date, or waiting for the venue's one answer.  A request that has
\* ended is in none.
EveryRequestHasOneHome ==
  \A a \in All : Cardinality(Homes(a)) = IF h.fate[a] = "live" THEN 1 ELSE 0

\* A series being put together waits for something the venue still owes it: the
\* contract's actions, or a page of a query on the wire.
EverySeriesIsOwedSomething ==
  h.conn => \A e \in h.held :
    \/ \E i \in DOMAIN h.adj : h.adj[i].q = e.actq /\ [q |-> e.actq, k |-> "actions"] \in h.wire
    \/ \E i \in DOMAIN h.pending :
         h.pending[i].a = e.a /\ [q |-> h.pending[i].q, k |-> "bars"] \in h.wire

\* The venue owes a caller the one answer it waits for.
OnTheWire(a) ==
  \/ \E x \in Range(h.one \o h.sched) : x.a = a /\ [q |-> x.q, k |-> "one"] \in h.wire
  \/ Kind(a) = "actions" /\ \E x \in Range(h.adj) : x.a = a /\ [q |-> x.q, k |-> "actions"] \in h.wire

\* The scanner's question is asked, or the next lap asks it.
ParametersAreAsked ==
  IF h.asking = 0 THEN h.due ELSE \E w \in h.wire : w.k = "params"

\* A caller waiting for one answer is owed it by the venue, or by the reconnect
\* that asks again; a head timestamp has its deadline, and a scan runs.
EveryQuestionIsOwedAnAnswer ==
  \A a \in All : h.fate[a] = "live" /\ a \notin h.left =>
    CASE Kind(a) = "bars" -> h.conn \/ ~h.halted
      [] Kind(a) = "head" -> TRUE
      [] Kind(a) = "scan" -> \/ a \in Range(h.scans) /\ ~h.halted
                             \/ IF h.conn THEN ParametersAreAsked ELSE ~h.halted
      [] Kind(a) = "params" -> IF h.conn THEN ParametersAreAsked ELSE ~h.halted
      [] OTHER -> IF h.conn THEN OnTheWire(a) ELSE ~h.halted /\ Kind(a) # "actions"

\* Nobody waits for what will not come: a request is in one place, and a series
\* under way and a question asked are owed something.  The exception is the
\* code's own and is counted as it happens (`left'): a histogram and past ticks
\* whose query a drop took, of which disconnect says that they "are told nothing
\* and go on waiting", and a schedule or past ticks whose answer could not be
\* read.  Nobody else is left so, and those keep their one home.
NobodyIsForgotten ==
  EveryRequestHasOneHome /\ EverySeriesIsOwedSomething /\ EveryQuestionIsOwedAnAnswer

Paired(a) == load.who[a].paired

\* A caller is told the end of its request at most once, and nothing of it
\* after that or after it withdrew it ("nothing answers under the number after
\* it", push_historical_over): whatever the venue still answers, through the
\* drop and the reconnect.  A bid and ask series, whose two queries answer under
\* one number, is not so safe: a withdrawal forgets only one of the two.
NothingAfterTheEnd ==
  \A a \in All : ~Paired(a) => h.ends[a] <= 1 /\ a \notin h.late

\* A number is free again once its request is over: nothing an ended or
\* withdrawn request left behind refuses the next one under it.
EndedNumbersAreFree ==
  \A i \in DOMAIN h.pending : ~Paired(h.pending[i].a) => h.fate[h.pending[i].a] = "live"

\* The end of a request is its last word, and leaves its number free.
EndsAreFinal == NothingAfterTheEnd /\ EndedNumbersAreFree

\* No more bar requests are in flight than the gateway holds, what a reconnect
\* asks again without waiting its turn included (send_next_historical, reconnect).
InFlightWithinTheCap == InFlight(h) <= Cap

\* No request waits its turn while there is room for it, once a lap is over.
NoneWaitsWithRoom ==
  h.conn /\ ~h.due /\ LapHead(h) = h => h.queue = <<>> \/ InFlight(h) = Cap

\* Scans running and scans waiting for the permissions stay within the limit.
ScansWithinTheLimit == Len(h.scans) + Len(h.waiting) <= ScanLimit

\* The gateway's room is used and not exceeded, for bar requests and for scans.
RoomIsUsedAndKept == InFlightWithinTheCap /\ NoneWaitsWithRoom /\ ScansWithinTheLimit

\* The bar still forming is sent only after the history it goes on from.
UpdatesFollowHistory == h.early = {}
=============================================================================
