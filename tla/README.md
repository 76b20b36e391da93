# A TLA+ model of ibkr-dx

ibkr-dx is a Rust client (with a Python surface) for a brokerage's trading
servers. It logs on by itself, keeps up to four connections, and offers the
call-and-callback interface of the vendor's own API. One thread, the *hot loop*,
owns every connection. Everything else happens on the caller's threads, which
hand commands to the loop through a channel and read what it produced out of
shared state. This directory models the parts of that system where threads,
connections and failures meet. Paths below are relative to the repository, whose
crate is under `src/`.

## 1. Inventory

| Component | State it keeps | Operations | Talks to |
|---|---|---|---|
| Quote slot (`src/bridge/seq_quote.rs`) | a version, sixteen words, a generation | `write`, `read_with_generation` | written by the loop, read without a lock by callers |
| Session records (`src/bridge/record.rs`) | one stamp counter, a queue for each kind of record | `push`, `push_call_record`, `push_closed`, `take_records` | pushed by the loop and by calls, read through `process_msgs` or a call that answers |
| Reader (`src/api/client/dispatch.rs`, `ask.rs`) | whose turn it is to read, the numbers calls hold | `process_msgs`, `pump_for_ask`, `wait_for` | records, conflated state, the user's callbacks |
| News bulletins (`src/bridge/market_data.rs`) | the day's cache, a mark, a flag | `push_news_bulletin`, `req_news_bulletins`, the read | the loop, a subscriber, a reader |
| Wake hook and signal (`src/bridge/mod.rs`) | a hook, an armed flag, a cut, a flag under a mutex | `notify`, `set_wake_hook`, `arm_wake`, `wait_for_data` | the loop wakes readers |
| Engine lap (`src/engine/hot_loop/mod.rs`) | connections, budgets, the halts, the finishing phase | `run` and what it calls | commands in, records out, recovery workers |
| Order intake and buffer (`intake.rs`, `order_builder/`) | commands waiting, held and built | take, hold, let go, send, refuse | the lap, the trading connection |
| Recovery (`src/reliability`, `src/gateway`, `ccp/recovery.rs`) | attempts, clocks, the cancel flag, the socket in flight | dial, log on, take back | a thread per attempt |
| Joiner (`src/api/client/mod.rs`) | the engine's join handle | `disconnect` from any caller | the engine's thread |
| Order bookkeeping (`src/bridge/orders.rs`, `ccp/executions.rs`) | working and completed orders | reports, fills, retention | the loop writes, callers read |
| Market data (`farm/`, `market_requests.rs`, `slot_table.rs`) | slots, generations, subscriptions | request, cancel, replay | the farm connection |
| Historical data (`hmds/`) | requests in flight and queued | start, end, ask again | its own connection |
| Contract naming, definitions | lookups outstanding | ask, answer, time out | the trading and definition connections |
| Attached orders, portfolio, option model, parsers, protocol, authentication, settings, types | see `PROJECT.json` | | |

What is hard in this code:

- **Lock-free reading.** Correctness of a quote is a claim about memory fences.
- **One order out of many queues.** Records sit in some forty queues and two
  threads push; a reader must still hear them in the order they happened, state
  never ahead of the records that explain it, and the end last.
- **Two readers of one stream.** A call that answers reads the same queues as
  the program's own loop.
- **Wake-ups.** A hook fires at most once for each read, and never too few times.
- **The end of a session.** A stop, a refused logon, a spent budget, a deadline
  and a panic can each come while an order is being named, a connection is
  being rebuilt or a rebuilt one is about to be installed. The account permits
  one session at a time, so one left open at the venue matters.
- **Requests that share.** Several requests read one stream, one subscription or
  one slot; each may leave, be refused or be replaced while the venue's answer
  to another is on the way, and slots, tags and stream numbers are used again.
- **A cap with a queue behind it.** Historical requests past the cap wait; every
  way one can end must start the next, and a drop must forget nobody.
- **A record kept ahead of the answers.** The book of orders takes a change or a
  cancel before the venue does, and must come back to the venue's state through
  refusals, fills on the way, failed writes and drops.

`PROJECT.json` lists each hazard at its line with the properties aimed at it.

## 2. Plan

Done, in this order: `SeqQuote` with its proof; `SessionRecords`, refining
`Delivery`; `NewsBulletins`; `WakeHook`; `SessionLifecycle`; `LiveStreams`;
`HistoricalRequests`; `MarketSlots`; `OrderRecord`.

Next, most important first:

1. Theorems. Proved so far: those of `SeqQuote`, `WakeHook`, `NewsBulletins`,
   `SessionRecords`, `SessionLifecycle` and `LiveStreams` (section 6). Next
   `BookedOnce` and `AgreesWithTheVenue` of `OrderRecord`, then the tables of
   `HistoricalRequests` and `MarketSlots`. None of these modules declares a
   recursive operator, and each names the assumptions on its constants.
2. `Joiner`: callers stopping at once, one of them unwinding inside the join.
3. `OrderRecord` with several orders: families, what is retained of completed
   orders, numbers handed out.
4. Contract naming and lookups, whose answers an order waits on.
5. Positions: a record that pins the slot of a contract.

## 3. Modules

### SeqQuote, SeqQuoteProofs

The code is a seqlock: `write` makes the version odd, fences, stores the words
and the generation, and makes the version even; `read_with_generation` loads an
even version, the words, fences, and returns if the version has not moved.
Memory is a list of messages for each location and a view for each thread, the
release/acquire fragment of the Rust memory model: a relaxed load may return any
message at or above the thread's view, a release store or fence puts the
writer's view into what it stores, an acquire fence adds what was loaded to the
reader's view. `Store`, `Readable` and `Join` are that model, and are marked
external. Quote number *n* is the payload whose every word, and whose
generation, is *n*, so a torn snapshot is one whose words disagree. There is one
writer, as the documentation of the type requires.

### SessionRecords, Delivery, InOrder, SessionRecordsProofs, InOrderProofs

`LockQueue`, `Stamp` and `Push` are the three steps of a push: take the queue's
lock, take a stamp, append. `EnginePush`, `PushCallRecord` and `PushClosed` are
the pushes of the loop, of a call and of the end. A read is `PollTheState`
(inside `ProcessMsgs` or `PumpForAsk`, which take the turn), `TakeCut`, one
`TakeBelow` for each queue and `Deliver`; between any two, pushes go on. The
fate a queue's closure gives a record is one of `SessionFate`, `CallFate`,
`OrderFate`, `PreviewFate`, `ErrorFate` and `AnswerFate`, so the forty queues
become six.
`surface` is which client this is: one that keeps a record of everything it
reads, one that does not, or the Python one, which takes answers by number
(`TakeByNumber`) without holding the turn. What an order's number is told and a
call may wait for (a notice, an end before the order stood, a preview's answer)
has a fate of its own, `PreviewFate`: it is left for the call that holds the
number, but never dropped as abandoned, since only what is under a request's
number is. A record is its stamp, its queue, the
number it is under and whether it is the close; the conflated state is a
version number with the stamp it was written after.

`Delivery` is what a program is promised of all this: one queue, first in first
out, with the close as its last record. `ReadsAsOneQueue` says that
`SessionRecords` implements it. The abstract queue `Owed` is every record of the
program's that has been stamped and not delivered, wherever it is (in a pusher's
hands, in a queue, or taken by a read in progress), in stamp order; a push is
one `Enqueue` at its stamp, a `Deliver` is one `HandOut`, every other step is a
stutter.

`InOrder` holds the two operators this rests on, the sort of a finite set of
numbers and the elements of a sequence at given places, in a form the provers
can use.

### NewsBulletins, NewsBulletinsProofs

The cache of the day's broadcasts with its bound, the mark a subscription arms
(`ArmedMark`) and the four steps in which a read serves it: the cut, the load of
the mark, the clone of what is owed under the queue's lock, and the store of the
mark. A subscription is made on whichever thread, at any point of a read.
`Crossing` says when the read under way will store its own cut over the mark
just armed: it has read the mark already, or its cut lies before the mark the
arming sets. `got`, `fresh`, `complete` and `crossed` record history for the
properties.

### WakeHook, WakeHookProofs

Every shared access of `notify`, `wake_the_reader`, `set_wake_hook`, `arm_wake`
and `wait_for_data` is a step. `armed` sits behind a store buffer, because
`arm_wake`'s store is followed by loads of other locations and only its fence
keeps them apart (`Drain` is the buffer's own step, external). One reader reads
when its hook calls, another when `wait_for_data` says so. Hooks may replace
themselves, be removed, or panic.

### SessionLifecycle, SessionLifecycleProofs

Four actors: a caller, the loop's thread, one recovery worker each for the
trading connection and the quote farm, and the venue. `e` is the loop's state
and what it shares; operators that take and return an engine record (`Stop`,
`HaltRecovery`, `HandleDisconnect`, ...) are the functions a lap calls, by the
names the code gives them, and the actions are the places where a lap can be cut
by another actor: `ReadSockets`, `TakeCommand`, `EndTake`, `RecoverFarm`,
`RecoverTrading`, `Spawn`, and at the end `FinishAdmittedCommands`,
`RaiseCancel`, `JoinWorkers`, `PushClosed`. `Panic` leaves a lap anywhere.

An order command is in one of the places `Statuses` lists: in the channel,
waiting on the venue, held across a drop before or after it was built, in the
order buffer, sent or refused. `e.open` counts the sessions open at the venue,
which is the venue's knowledge, not the code's. `e.returned` is a history: a
trading connection was installed after the goodbye had been written.

What it abstracts: the historical and definition connections, heartbeats, the
no-credentials path, transmit=false orders, attached orders and exercises are
left out; commands are taken one at a time where the code drains a batch first;
a write of a logout on a connection that is up succeeds; an attempt lets go of
at most one socket; the lap's allowance is spent only by commands taken from the
channel; every withdrawal is of an order a reconnect leaves in doubt; the delay
between attempts is a choice to dial or not. A panic inside the take-back itself
is not modelled.

### LiveStreams, LiveStreamsProofs, LiveBarsProofs

The tick-by-tick and five-second-bar streams of `hmds/mod.rs`. `s` is both
sides: the client's tables in the order the code scans them (`tbt`, `subs`,
`routes`, `resub` for those asked for again after a drop), what has been written to the
venue and not taken, what it has written and not been read, and the streams it
runs. The operators are the functions of the code (`SendTbtSubscribe`,
`TickAck`, `SendRealtimeBarSubscribe`, `WithdrawBarStream`, `AssignBarRoute`,
...); the actions are a caller's command, a step of the venue, a message read,
a drop and a reconnect.

The venue numbers every query for one thing alike, reads it off one stream, and
gives a number out again once its stream has stopped (`NumberFor`: the stream's
own while it runs, else the first that nothing on the wire names). Ticks and
bars are numbered apart, as the code reads and withdraws them apart (ticks as
`rtTicker:n`, bars by the number alone). The venue may refuse a query, but does not refuse one of two
queries for a thing and serve the other. A drop loses what is on the wire; a
reconnect asks again for the ticks in their table's order and then for the bars
in `resub`'s, each under a new name. Two branches are not here. An acknowledgement
states its unit and its increment (`WorkloadsAssumption`), where the code drops
one that states neither and leaves its stream unnumbered (1405-1409). And a bar
stream told its number always has what it asked for in `resub`, which one call
writes and one forgets together with `subs`, so `AssignBarRoute` has no branch
for a request that asked nothing (2215-2218).

What is said of bars is said where no two callers ask for the same ones
(`Apart`, part of `ReadersAreServed` and `NoStreamRunsUnread`): without it the
code fails, which is finding 2. Ticks of one contract may be shared freely.

### HistoricalRequests

Everything asked of the historical service and answered once. `h.held` are the
series being put together, which the cap counts, `h.queue` those behind the cap, and there is a table for
each other kind, with the names of the queries on the wire. `h.fate` is what
each caller has been told (`live`, `ended`, `refused`, `withdrawn` or not yet asked), kept for the
properties; `late` and `early` collect what was told after an end, or ahead of
the history it follows, and `left` those who wait with nothing to come. A
request's bars are a number of pages, each asked for
when the last was read; prices, dates and the folding itself are data.

The venue answers any query on the wire, in any order, with a page, a refusal or
something unreadable, and may answer a withdrawn one. A lap's head (`LapHead`)
starts what there is room for; `Disconnect`, `Reconnect` and `GiveUp` are the
three things a connection can do. What a bar request kept up to date does with
its stream is `LiveStreams`'; here it is only whether an update may come yet.

### MarketSlots

From a market-data command to the callback. `e` is the loop's side (the table of
slots with their generations, the entries on the wire, requests by slot, what
waits to be asked again, the queue of records, the quote cells); `venue` the
farm's subscriptions by query; `inbox` what it has sent; `reader` the program's
side (`client_core` and `dispatch.rs`): the watchers of each slot, the generation
it knows, and the read in progress; `told` every callback of these requests, with
the contract it was really about, which is what `ReaderIsRight` compares: quotes,
series, headlines, parameters, a refusal told to whoever watches the slot, and
the refusal kept on a slot and told to a request that joins it, which no
generation guards (`RefusalTold`). A quote is only whose
it is and the generation it was written under; that the pair is read whole is
`SeqQuote`'s theorem.

A read is cut where the loop may run between: `PollConflated`, `TakeRecords`, one
`DeliverRecord` for each, `DeliverQuotes`, `ForgetReleasedSlots`. The reads of a
command's tables, all on the loop's thread, are one step (`TakeCommand`). The
farm takes writes in the order they are written, uses a tag again only once its
subscription has stopped, and refuses a thing consistently. Delayed and frozen
data, depth, option computations and combos are left out.

### OrderRecord

One order number, end to end. `b` is what the session keeps: the order held
(status, terms, shares filled), the terms before each outstanding change, the
revision and the name the next request gives the order, the executions seen,
the position, what a drop left unanswered, and the recovery's question. `venue`
is the order as it really is; `out` and `in` are the connection. `TakeCancel` and
`TakeChange` are the caller's requests, `DrainAndSendOrders` writes them and may
fail at any of them, after which the venue may or may not have the frame;
`ReadReport` is `HandleExecReport` or `HandleCancelReject`; `HandleDisconnect`,
`Reconnect`, `AskWhatFinished`, `SweepRecovery` and `GiveUpTheRecovery` are the
recovery.

`Earlier` is an order of another session that had the number: the venue's replay
states it too, and it must not be taken for ours. Of the venue it is assumed
that it refuses a request that names a revision it does not hold, that its
reports come in order, that replayed executions come behind the naming of what
is working, and that a correction (bust) comes on the connection that is up. The
naming itself may come after the recovery's grace has run out (`SweepRecovery`). A scenario has either corrections or drops.
Previews, families, the retention of completed orders, a caller's own
`req_completed_orders`, the position feed and the overflow of a revision are
left out; the limit on orders drained in a lap is `SessionLifecycle`'s.

### Scenarios

`SessionLifecycle`, `LiveStreams`, `HistoricalRequests`, `MarketSlots` and
`OrderRecord` each take a set of scenarios (or workloads) as a constant and
choose one in `Init`: what the callers ask for, what the environment may do, and
how often. One run so covers several small instances, and the bound of each is
where it is stated.

## 4. Runs

| Run | Instance | Shows |
|---|---|---|
| `seq_quote` | two words, one reader, three writes | snapshots are whole; the last quote is read |
| `session_records` | four queues, three stamps, one question, each surface | reads are one queue (`Delivery`); state in its turn, answers private, everything delivered |
| `news_bulletins` | a cache of two, four bulletins, two asks, on any thread | asking restates the day but for what a read under way loses, and nothing but what was asked for comes |
| `wake_hook` | two pushes, one write, two hooks | no lost and no spurious wake-up |
| `session_lifecycle` | two orders with two drops and two attempts; no order with both connections, deadlines, a forced drop and panics; a placement that is recovered, two drops and a split stop | no order after the goodbye but one held built, nothing installed after the end, nothing left open but what came up after the goodbye, what is said is true |
| `session_stop` | a logon that recovers, both orders, two drops, a split stop | every order settled; only a placement waiting on the venue can hold a stop |
| `session_stop_hangs` | one placement, one drop | **violation**, finding 1 |
| `historical` | ten workloads of two to four asks | nobody forgotten but those the code leaves so, ends final, the cap kept and used, updates after their history |
| `live_streams` | six workloads: two ticks of a contract beside another's; shared, separate and kept bars; ticks and bars together | readers served, nothing runs unread, each record to its readers once |
| `live_streams_bars` | the same | **violation**, finding 2 |
| `market_slots` | sixteen scenarios over three contracts, three requests, two series | each request served and told of its own contract only; no stream, line or slot left behind |
| `order_record` | an order of two lots, seven scenarios | book and venue agree, each execution booked once, a cancel stands through a drop |

Why the bounds suffice. Three writes let a reader start in one, load words of a
second and check in a third. Three stamps are a record before the close, the
close, and one after, or two records split by a cut; one queue of answers stands
for those of refusals and of what an order is told, whose fates are the same
under the numbers they can have, and the previews have their own. Four bulletins overflow a cache of two twice. Two drops let a
placement be held, let go, and caught again with `sentOnce` set. Two hooks are
the one that panics and its successor. Three requests at a cap of two are one
that waits; a fourth ask is a number used again. Two requests that share a
stream and one of another contract are one that stays, one that leaves, and one
that may be given the number or slot set free. Two lots are an order filled in
part and whole, and a third execution restates the one a correction took away.

`MaxRecords` (stamps, and writes of state), `MaxStamps`, `MaxPushes`,
`MaxWrites`, `MaxHooks`, `MaxAsks` and the counts in a scenario or workload only
bound the environment. `Limit`, the lap limit and the attempts of a session
scenario, `Cap` (2 for the code's 50), `ScanLimit` (2 for a tenth of the message
allowance), `TickCap` (2 for 3), `Allowance` and `Burst` are the code's own
limits made small. The reconnect policy and the surface are chosen in `Init`.
Deadlock is not checked where a run really ends: a session does, and so do
bounded commands and pushes.

### Fairness

- `SeqQuote`: a write begun is finished, readers keep reading, and a store
  becomes visible in finite time (the memory model's own requirement).
- `SessionRecords`: a stamped push is pushed, the program calls `process_msgs`
  in a loop, a read runs to its end, and a question ends, since each has a
  deadline. The engine owes nothing.
- `WakeHook`: the loop laps and notifies, a reader told to read does, buffers
  drain, the waiter waits again.
- `SessionLifecycle`: the loop's thread makes its laps (`FairLap` is
  `WF_vars(Lap)` with `ENABLED` written out, which keeps TLC fast); each phase of
  a worker's handshake has a timeout; a caller that began to stop makes its
  second send; and a wait with a bound in the code ends (`BoundedWait`). Nothing
  is assumed of the venue: it need not accept a reconnect nor name what is
  working.

## 5. What the code does against what it says

With a run:

1. **A stop can wait for ever** (`session_stop_hangs`). A placement waits while
   the trading connection is down; the finishing phase waits for the placement
   and has taken recovery back. `disconnect` then never returns.
   `OnlyAPlacementHoldsTheStop` shows that nothing but a placement waiting on the
   venue does this. A placement held by a recovery is the second such wait: it
   is let go only when the venue ends its naming, which has no bound of the
   client's.
2. **A bar stream withdrawn under a request that waits** (`live_streams_bars`).
   `withdraw_bar_stream` counts the readers of its route and the records
   numbered alike; a second request for the same bars whose acknowledgement is
   on the way is neither, and the stream it is about to be told of stops.
   `LoneBarReadersAreServed`, checked in the passing run, is what does hold.

Cases met while modelling that the passing properties except, or that the runs
keep apart. Each says what the code does and where it is let through.

Session (lines of `src/engine/hot_loop/mod.rs` unless named):

- *News bulletins asked for on another thread during a read.* The read stores
  its cut over the mark just armed (`src/bridge/record.rs:920`): what the
  subscription asked for from before that cut is not restated, and, where it
  asked only for what follows, a bulletin from before the call can come. The
  model has this, and the properties say that it is all that can happen:
  `LostToTheRead` is the range that may be missing, `crossed` marks the
  subscription, and nothing is ever handed over twice or out of order.
- *A preview given up on.* `take_records` drops what is under an abandoned
  request's number (`src/bridge/record.rs:720`); a preview is asked under an
  order's, so its late answer is told to the program. `AnswersStayPrivate`
  excepts that queue.
- *A stop taken over two laps.* With the connection down the Logout's phase ends
  at once, the same lap installs a session that had landed, and the Shutdown of
  a later lap (2437) writes no logout: the session stays open at the venue.
  `NothingIsLeftBehind` excepts a connection that came up after the goodbye was
  written (`returned`), and says besides that none does where one lap takes both
  commands (`OneLapStop`). The third scenario of `session_lifecycle` reaches it.
- *Placements held built* are not looked at by the finishing phase (2434): one
  can follow the goodbye, and the backlog leaves it out. The same scenario
  reaches both. `OrdersPrecedeTheGoodbye` and `BacklogIsHonest` except a
  placement held built, and nothing else.
- A session that lands after a halt is told goodbye without `logout_sent` being
  set, so `disconnect` may report that no logout went.

Streams, history, slots:

- *Left waiting by a drop.* A histogram and past ticks on the wire when the
  connection goes are neither ended nor asked again, and no deadline ends them
  as one ends a head timestamp: their callers wait for ever, as the comment of
  `disconnect` says of them (`hmds/mod.rs:593`). The same happens to a schedule
  whose answer cannot be read, and to past ticks whose answer is not of their
  shape, which are read past (`hmds/mod.rs:1658`). `left` counts them as it
  happens, `NobodyIsForgotten` excepts them, and asks of everyone else that an
  answer is owed: by the venue, by the reconnect that asks again, by a deadline
  or by the next lap. That every question is asked again or ended, and not only
  given a place in a table, is its third part (`EveryQuestionIsOwedAnAnswer`).
- Of a *bid and ask* request's two queries a withdrawal (1784) or an unreadable
  page (`hmds/mod.rs:1683`) forgets one; the other's answer may tell the caller
  its end again. `Paired` asks are apart in `NothingAfterTheEnd`.
- A *scanner question* that waits its turn is refused at the head of a lap while
  the connection is down (1356), where a bar request waits for the reconnect.
- A tick reader whose acknowledgement comes after the stream's other readers
  have left starts from nothing (`hmds/mod.rs:1157`), though the stream was kept
  for it and goes on from where it stood. `SiblingsAgree` compares readers with
  each other, not with the venue.
- A request refused by the *allowance* on a slot an order holds leaves its
  series among those asked (`market_requests.rs:230` against 279).
- *TickReqParams* are read live from the slot, not from the record
  (`dispatch.rs:337`), so one that has been withdrawn may be told a later
  occupant's. `ToldOfTheirContract` asks this of requests the session holds.
- *Readings kept on a slot an order holds* are handed to the next watcher of it:
  the comment at 800 says they go "with the subscription", and
  `try_reclaim_instrument` forgets them only with the slot (803). A scenario
  reaches it. A reading that outlives its subscription is marked (`kept`),
  `NothingFromBefore` excepts those, and `KeptForAnOrder` says that only a slot an
  order holds ever has one.

Orders (one order; scenario fields or guards of the properties named):

- Requests that *overlap* (`overlaps`): a second cancel over PendingCancel, a
  change over PendingCancel, or a cancel over PendingReplace, both then refused,
  leave the pending status for good (`order_builder/mod.rs:1353`); a rejected
  placement with both outstanding is kept (`ccp/executions.rs:3283`). With
  `overlaps` only the terms and shares are compared.
- A *fill behind a cancel* that a drop then takes: the cancel is not kept
  (`context/mod.rs:773`). `WithdrawalsStand` asks this of an order with nothing
  filled.
- A *placement whose write failed* has no time of placing, so an earlier order's
  restated fill under its number is taken for its own
  (`order_builder/mod.rs:1047`). No scenario has both.
- A *restated partial fill* moves an order in doubt that ended while the
  connection was down to PartiallyFilled (`ccp/executions.rs:2787`, against the
  comment at 2342): `replays` with a drop is apart in `FinishedIsNotWorking`.
- A *request for an order in doubt*, refused, shows it Submitted
  (`ccp/executions.rs:3457`): `spent.blind`.
- *A grace that runs out first.* The recovery may stop waiting before the venue
  has named what is working (`ccp/mod.rs:4341`). A request then written for an
  order still in doubt may name a version the venue does not hold, and what the
  venue answers may leave book and venue apart.
  `AgreesWithTheVenue` excepts such a write (`spent.hasty`), and no other.
- A *bust that reopens a filled order*: its number stays refused as finished
  (`intake.rs:1250`, `b.finished`); the record comes back with the reduced
  figure, so nothing is taken off the position (`ccp/executions.rs:1771` against
  2466, `venue.reopened`); and one lost in a drop leaves the order out of the
  book (no scenario has busts and drops).
- By design a second drop leaves an unanswered cancel to the recovery's bound.

## 6. Proofs

Each theorem holds for every value of the constants that satisfies the
assumptions its module names. Every
inductive invariant was first an invariant of a TLC run.

### SeqQuoteProofs

`SeqQuoteProofs` proves, for any non-empty set of words and any number of
readers and writes:

- `TypeCorrect`: `Spec => []TypeOK`
- `SnapshotsAreWhole`: `Spec => []SnapshotIsWhole`

Both follow from `Inductive`, `Spec => []IInv`. `SnapshotIsWhole` alone is not
inductive, because it says nothing of a read in progress. `IInv` adds `MemShape`
(message *i* of the version holds *i*, message *i* of a word holds *i*, and how
far each location has come for each place of the writer), `ViewsBounded` (no
view runs ahead of memory), `MessageViews` (what each message publishes) and
`ReaderInv` (what a reader part way through holds). The argument is two edges.
The release fence puts version 2*k* - 1 into the view of word *k*, so a reader
that loaded word *k* and passed its acquire fence cannot then load a lower
version: the second load bounds the words from above. The closing release
`fetch_add` puts word *k* into the view of version 2*k*, so a reader that began
at 2*k* loads no lower word. Equal versions squeeze every word to the same quote.
The assumptions are that there is a word, that the version is not one, and that
the number of writes is a natural number; the bound on writes plays no part in
the argument.

### WakeHookProofs

- `EveryCallIsDue`: `Spec => []CallsAreDue`
- `SuccessorSurvives`: `Spec => []HookSurvivesAnothersPanic`
- `TypeCorrect`: `Spec => []TypeOK`

The argument counts tokens. Leave to call is one: a read begun makes it, and it
lies in the store buffer, then in `armed`, and the engine takes it to the call;
`LeaveIsCounted` says the calls made and the leave still held are no more than
the reads begun and the leave the session started with. News is the other
(`NewsIsCounted`): a record pushed or a write of state pays for one, the swap of
the cut or the taking of the mark claims it, and the engine carries it to the
call. A second call for one read, or a call without news, would be a token too
many. `CalledHook` ties the hook a caller holds to the ones installed, which is what
keeps a panicking hook from taking its successor down with it. The bounds on
pushes, writes and hooks are any natural numbers.

### NewsBulletinsProofs

- `TheDayIsRestated`: `Spec => []AskingRestatesTheDay`
- `NothingMoreThanAsked`: `Spec => []NothingButWhatWasAsked`
- `TypeCorrect`: `Spec => []TypeOK`

Subscriptions are made at any point of any read.
`CacheIsRecent` says the cache is the contiguous run of the latest stamps, at
most its limit; `MarksAreOrdered` puts the armed mark, the mark loaded and the
cut in order; `OutIsOwed` and `GotIsServed` say what a read holds and what has
been handed over between its four steps. The race has a state of its own,
`UnderACrossing`: a read that began before the mark was armed and will store its
cut over it. While it lasts nothing has been handed to the subscription and the
cut is the one `crossed` records; when the store is made the mark is that cut,
which is why no bulletin at or after it can be lost and none before the mark is
handed over again.

### InOrderProofs, SessionRecordsProofs

- `OneQueueIsRead`: `Spec => ReadsAsOneQueue`, the refinement of `Delivery`
- `StateInTurn`: `Spec => []StateIsToldInTurn`
- `AnswersArePrivate`: `Spec => []AnswersStayPrivate`
- `TypeCorrect`: `Spec => []TypeOK`

for any number of records and asks, any order of the queues that has the session
and the calls, and any surface. The parts of the invariant: stamps increase
along each queue and none is ahead of the counter (`StampsAreOrdered`), each
record is in the queue it belongs to (`RecordsAreFiled`), the close is the last
record there will be (`CloseIsLast`), a read in progress holds the turn
(`ReadHoldsItsTurn`), what it has taken is below its cut and nothing older is
left behind (`TakenIsDue`, `DrainedToTheCut`), and the polled state is not older
than the records told before it (`StateFollowsRecords`). `DrainedToTheCut` is
where the design is: a pusher takes its stamp under the queue's lock, so once a
read has taken the cut and passed the queue under that lock no lower stamp can
appear in it. Every action is one of three kinds to the figures (it stamps, it
pushes, it thins a queue), and each kind is shown once to preserve each part.

In the refinement the stamp of a program's record is `Enqueue`, a whole read's
`Deliver` is `HandOut` of a prefix of `Owed`, and every other step stutters: it
moves records between a pusher's hands, a queue and a read, and the set they
make up is the same. That the sequence sorted from the same set is the same, and
that the records below the cut are its prefix, are lemmas of `InOrderProofs`.
They are inductions over the naturals, done by hand from the least element of a
set of counterexamples, since the library's induction theorems take an operator
as parameter.

### SessionLifecycleProofs

- `OrdersAreSettled`: `Spec => []AdmittedOrdersAreSettled`
- `NothingOutlives`: `Spec => []NothingOutlivesTheSession`
- `NothingIsInstalled`: `Spec => NothingIsInstalledAfterTheEnd`
- `SaidIsTrue`: `Spec => []WhatIsSaidIsTrue`
- `GoodbyeIsLast`: `Spec => OrdersPrecedeTheGoodbye`
- `TypeCorrect`: `Spec => []TypeOK`

for any set of scenarios that satisfies `ScenariosAssumption`: any finite sets of
placements and withdrawals, any bounds, and every combination of the flags,
recovered placements and split stops included. What a property excepts (section
5) it excepts in the state, never by leaving a scenario out.

The invariant `IInv` is `Holds` of the engine, the two workers, the channel and
the caller: each order command is in the channel exactly once while its status
says so (`Channel`); the commands admitted are those taken and those in the
channel (`Counted`); the sessions open at the venue are the one the loop has,
the ones a worker holds, and no other (`SessionsAreCounted`); a loss announced
is a loss that happened and one not yet said is still owed (`LossesAreOwed`);
where in its lap the loop is decides what may be pending (`LapInTurn`,
`EndInTurn`); and what the backlog says waits is waiting (`Backlog`).

A lap is a composition of some twenty functions on an engine record with about
forty fields. Two devices keep the proof of each to the fields it writes. A
table gives every field its type, so that a lemma about a function names only
the fields that may differ (`Same`). And the relation `Steps` says what any
function of the lap may do to the figures of the invariant; it composes, so an
action that calls six functions is six citations. `Sound` is the part of the
invariant that each function preserves in the middle of a lap. Its `AtRest` is
what the two theorems about orders rest on: once the goodbye is on a connection
the loop holds nothing of any order but what the recovery held built; and
`Moves`, in `Steps`, says where such a command may go from there.

### SessionLifecycleProofs: the parting

- `NothingLeftBehind`: `Spec => []NothingIsLeftBehind`

for every scenario. `IInv` counts the sessions but does not say who has told
them goodbye, so the proof adds `LInv`, for a loop that has not panicked.
`Ended`: once the goodbye is written, a connection the loop holds was told it or
came up after it, and a loop that stopped holding a connection has written it.
`Follows`: until the goodbye is asked for, a Shutdown has its Logout before it in
the channel, so no Shutdown stops a loop that never said goodbye.

Where a stop is taken on one lap (`OneLapStop`), the same goes without the
exception, by `OnOneLap`: the goodbye is written only as the loop stops, and
nothing has come up after it (`Parted`); in the channel a Shutdown is next to its
Logout, and once the Logout is taken the Shutdown is next and on the same lap,
which is the only time the finishing phase can be without its stop
(`InOneLap`); and what a lap has taken and has left reaches its limit, while the
commands admitted are at most the orders asked, the drops forced and the two of
the stop (`Room`), so a lap that ends has emptied the channel. `Parts` is to this
what `Steps` is to `IInv`: what a function of the recovery may do to the parting.

### LiveStreamsProofs

- `TypesAreCorrect`: `Spec => []TypeOK`
- `RecordsReach`: `Spec => []RecordsReachTheirReaders`
- `TickReaders`: `Spec => []TickReadersAreServed`, the half of
  `ReadersAreServed` about ticks
- `InvHolds`: `Spec => []Inv`, the invariant they rest on

for any set of workloads that satisfies `WorkloadsAssumption` and any `TickCap`
above zero: any callers, asks, increments and bounds.

The properties speak of a wire with nothing on it, and say nothing of the
states in between, so none is inductive: a reader without a number is served by
an ask, or by an acknowledgement, that is still on its way, and a withdrawal
under way may stop a stream or find nothing to stop. The invariant says what is
owed while something is under way. `Wire` is about the connection: a name is on
the wire once, in an ask or in its answer (`OneNameEach`); a thing runs once,
under a number no other stream of its kind has (`RunsOnce`); a message under way
that carries the number of a running stream is of that stream's thing
(`ReadsTrue`); and a connection that is down carries and runs nothing
(`DownIsEmpty`). `Net` is about one kind of stream, given what this side asks
for, what it has withdrawn before it was numbered, and the streams it holds a
number of: a name is asked for or withdrawn and not both (`Sorted`); what is
held is asked for (`Backed`); what is on the wire under a name is for the same
thing as the name (`Matched`); a stream held, or numbered by an acknowledgement
under way, runs and no withdrawal written stops it (`HeldServed`,
`AckedServed`); an ask may follow a withdrawal of the stream it will be read
off, never precede one (`AskedSafe`); and what runs is asked for, or a
withdrawal or a late acknowledgement has yet to end it (`RunsForSomeone`), as it
has what an ask nobody waits for will be given (`OrphansEnd`). `NamesApart`
keeps the two kinds from answering each other.

A function of the code does several things to the wire, and each effect (an ask
written, a withdrawal written, a message taken, an answer written) has one lemma
that says what it does to `Net`, for either kind; the lemma of a function cites
those of its effects, and the lemma of an action those of its functions.

### LiveBarsProofs

- `ReadersServed`: `Spec => []ReadersAreServed`
- `StreamsAreRead`: `Spec => []NoStreamRunsUnread`
- `BarInvHolds`: `Spec => []BarInv`, `Inv` and, where `Apart`, `BarSide`

under the same assumptions. `BarSide` is `Net` of the bars with what this side's
four tables must say to one another: `Ledger`, by which a route is one request's
and carries the number of all its records, a numbered record has a route, a
record without one is its request's only one under a name no batch has, and what
is asked for again after a drop is what has a record; `BarWaits`, by which such
a record has its ask or its answer under way; and `BatchFirst`, by which the ask
of a kept request's batch has its stream's behind it, so that a stream the venue
starts on the first is still asked for when the batch ends. `Apart` is not an assumption of
the theorems but the premise the two properties themselves state.

### Only model-checked

Every liveness property (`LastQuoteIsRead`, `EverythingIsDelivered`,
`NoWakeIsLost`, `OnlyAPlacementHoldsTheStop`), which rest on fairness and are
beyond what TLAPS proves here; and everything about `HistoricalRequests`,
`MarketSlots` and `OrderRecord`, whose invariants no proof has been attempted
for: their tables are of the size of `LiveStreams`', and each needs an inductive
invariant of its own.

## 7. Not modelled

Byte encodings, authentication and cryptography, text parsers, floating-point
option pricing, settings, logging and the tools: conversions and numerics whose
tests are fixtures. They are most of the repository's lines, which is why the
modules account for a small share of it.

Of the market-data component: depth, option calculations, delayed and frozen
data, combos. Of the order component: families and attached orders, previews,
exercises, the retention of completed orders (300 s, 65,536 entries). Contract
naming and lookups, and `Joiner`, are in the plan. Latest-value tables
(portfolio, positions) have no ordering to get wrong beyond `SessionRecords`'
polling of state; that a position pins its contract's slot is left out of
`MarketSlots`, where an order pins one in the same way. The version counter's
wrap at 2^64 is left out: no session writes that often.
