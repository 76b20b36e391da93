---------------------------- MODULE MarketSlots ----------------------------
(***************************************************************************)
(* Market data requests: the slot a contract is given in the engine's      *)
(* tables, the subscription it holds at the quote farm, and the reader     *)
(* that hands what arrives under a slot to the requests watching it        *)
(* (src/engine/hot_loop/market_requests.rs, src/engine/hot_loop/farm,      *)
(* src/engine/market_state.rs, src/bridge/market_data.rs,                  *)
(* src/client_core and src/api/client/dispatch.rs).                        *)
(*                                                                         *)
(* A slot outlives no contract: freed when nothing refers to it, it goes   *)
(* to the next contract that needs one, while quotes and records of the    *)
(* last occupant may still be on their way to the reader.  Each occupancy  *)
(* has a number, its generation.  Requests for one contract share one      *)
(* subscription, each adding the series it names.                          *)
(*                                                                         *)
(* The caller's commands are the scenario's, taken in order.  The farm at  *)
(* the venue is external: it acknowledges, refuses and states what it      *)
(* likes of what it was asked, and gives a tag it has stopped using to the *)
(* next subscription.  Its answers are read in the order it sent them; a   *)
(* connection that drops loses those on the way.                           *)
(***************************************************************************)
EXTENDS Integers, Sequences, FiniteSets, SequencesExt, Functions

CONSTANTS
  Contracts, Requests, Series, NoContract,
  Allowance,  \* market_data_allowance: the quote lines the venue allows
  Burst,      \* ReplayPacing.burst: how many are asked again in a lap
  Scenarios   \* a caller's commands, and the bounds on what the farm does

\* What is asked of the farm on a contract, beside the series a request names.
Quote == "quote"
Snapshot == "snapshot"
Headlines == "headlines"

Commands ==
  [op : {"subscribe"}, req : Requests, con : Contracts, series : SUBSET Series,
   snapshot : BOOLEAN, news : BOOLEAN]
    \cup [op : {"cancel"}, req : Requests]
    \cup [op : {"order", "orderOver"}, con : Contracts]

ASSUME NamesAssumption == Series \cap {Quote, Snapshot, Headlines} = {} /\ NoContract \notin Contracts
ASSUME BoundsAssumption == Burst \in Nat \ {0} /\ Allowance \in Nat
ASSUME ScenariosAssumption ==
  \A sc \in Scenarios :
    /\ sc.commands \in Seq(Commands) /\ {sc.maxStated, sc.maxDrops, sc.maxRefusals} \subseteq Nat
    /\ sc.read \in BOOLEAN  \* whether the program reads the session

VARIABLES
  load,    \* the scenario of this behaviour
  todo,    \* how many of its commands the engine has taken
  e,       \* the engine's tables, and what it shares with the reader
  venue,   \* the farm's subscriptions, by request number
  inbox,   \* the farm's answers on their way
  spent,   \* how much the farm has stated and refused, and how often it dropped
  reader,  \* the reader: its tables, and the batch in its hands
  told     \* what the last step told callers

vars == <<load, todo, e, venue, inbox, spent, reader, told>>

Slots == 1..Cardinality(Contracts)
Tags == 1..(Cardinality(Contracts) * (3 + Cardinality(Series)))
Empty == [x \in {} |-> 0]
NoQuote == [con |-> NoContract, from |-> 0, gen |-> 0]

Init ==
  /\ load \in Scenarios /\ todo = 0
  /\ e = [up |-> TRUE, held |-> {},  \* held: the contracts an order holds
          at |-> [s \in Slots |-> NoContract], free |-> <<>>, count |-> 0,
          tags |-> Empty,        \* server_tag_to_instrument
          requests |-> Empty,    \* md_requests
          issued |-> 0,          \* md_numbers
          nextId |-> 1,          \* next_md_req_id
          asked |-> [s \in Slots |-> {}],    \* asked_generic_ticks
          began |-> [s \in Slots |-> 0],     \* subscription_began_under
          entries |-> [s \in Slots |-> {}],  \* instrument_md_reqs
          waiting |-> Empty,     \* md_req_to_instrument and generic_tick_reqs
          generic |-> Empty,     \* generic_tick_tags
          resub |-> <<>>, replay |-> <<>>,
          news |-> [s \in Slots |-> 0],      \* news_subscriptions
          due |-> {},            \* params_due
          gen |-> [s \in Slots |-> 0],       \* generations
          quote |-> [s \in Slots |-> NoQuote],
          readings |-> [s \in Slots |-> <<>>],     \* series_ticks
          params |-> [s \in Slots |-> NoContract], \* last_tick_req_params
          failure |-> [s \in Slots |-> NoContract],
          released |-> <<>>, records |-> <<>>]
  /\ venue = Empty /\ inbox = <<>>
  /\ spent = [stated |-> 0, refusals |-> 0, drops |-> 0]
  /\ reader = [phase |-> "idle", polled |-> Empty, batch |-> <<>>,
               gen |-> [s \in Slots |-> 0],        \* slot_generation
               watch |-> [s \in Slots |-> <<>>],   \* the holder, then its followers
               takenOn |-> [s \in Slots |-> 0],
               oneShot |-> {}, paramsSent |-> {}]
  /\ told = {}

-----------------------------------------------------------------------------
(* The tables of slots. *)

Without(f, keys) == Restrict(f, DOMAIN f \ keys)
Push(t, record) == [t EXCEPT !.records = Append(@, record)]

\* The slots' requests at the farm, and those to be made again.
HoldsMarketData(t, s) == t.entries[s] # {} \/ s \in ToSet(t.resub) \cup ToSet(t.replay)

HoldsAStream(t, s) ==
  \/ \E entry \in t.entries[s] : entry.kind = Quote
  \/ s \in ToSet(t.resub) \cup ToSet(t.replay)

SlotOf(t, con) == CHOOSE s \in Slots : t.at[s] = con

\* The slot taken is left on the free list.
RegisteredLeavesItFree(t, con) ==
  IF \E s \in Slots : t.at[s] = con THEN t
  ELSE IF t.free # <<>> THEN [t EXCEPT !.at[Last(t.free)] = con]
  ELSE [t EXCEPT !.at[t.count + 1] = con, !.count = @ + 1]

\* A contract's slot: the one it has, the one freed last, or a new one.
Registered(t, con) ==
  IF \E s \in Slots : t.at[s] = con THEN t
  ELSE IF t.free # <<>> THEN [t EXCEPT !.at[Last(t.free)] = con, !.free = Front(@)]
  ELSE [t EXCEPT !.at[t.count + 1] = con, !.count = @ + 1]

SetGeneration(t, s, gen) == [t EXCEPT !.gen[s] = gen, !.quote[s].gen = gen]

PublishOccupancy(t, s) ==
  IF t.gen[s] = t.began[s] THEN t
  ELSE SetGeneration(Push(t, [k |-> "slotTaken", slot |-> s, gen |-> t.began[s]]), s, t.began[s])

\* The queued records of a slot dropped when it is given back.
OfTheSlot(record, s) == record.k \in {"params", "news"} /\ record.slot = s

\* The refusal the last contract met stays on the slot.
NoteReleasedKeepsTheRefusal(t, s) ==
  [t EXCEPT !.released = Append(@, <<s, t.began[s]>>), !.params[s] = NoContract,
            !.records = SelectSeq(@, LAMBDA r : ~OfTheSlot(r, s))]

NoteReleasedSlot(t, s) ==
  [t EXCEPT !.released = Append(@, <<s, t.began[s]>>), !.params[s] = NoContract, !.failure[s] = NoContract,
            !.records = SelectSeq(@, LAMBDA r : ~OfTheSlot(r, s))]

TryReclaimInstrument(t, s) ==
  IF \/ t.at[s] = NoContract \/ t.at[s] \in t.held \/ HoldsMarketData(t, s)
     \/ \E r \in DOMAIN t.requests : t.requests[r].slot = s
     \/ t.news[s] # 0
  THEN t
  ELSE LET freed == [NoteReleasedSlot(t, s) EXCEPT
                       !.at[s] = NoContract, !.free = Append(@, s),
                       !.tags = Without(@, {tag \in DOMAIN @ : @[tag] = s}),
                       !.quote[s] = [NoQuote EXCEPT !.gen = t.gen[s]], !.readings[s] = <<>>,
                       !.asked[s] = {}, !.began[s] = 0]
       IN  SetGeneration(Push(freed, [k |-> "slotReleased", slot |-> s, gen |-> t.began[s]]), s, 0)

-----------------------------------------------------------------------------
(* What the engine writes to the farm.  Each of these returns the tables    *)
(* and the farm's subscriptions; with no connection nothing reaches it.     *)

Asked(p, s, rows) ==
  [t |-> [p.t EXCEPT !.waiting = [id \in DOMAIN rows |-> [slot |-> s, kind |-> rows[id]]] @@ @],
   v |-> IF p.t.up THEN [id \in DOMAIN rows |-> [con |-> p.t.at[s], kind |-> rows[id], tag |-> 0]] @@ p.v
         ELSE p.v]

Withdrawn(p, ids) ==
  [t |-> [p.t EXCEPT !.waiting = Without(@, ids)], v |-> IF p.t.up THEN Without(p.v, ids) ELSE p.v]

\* New requests of these kinds on a slot, in the slot's record.
AskFor(p, s, kinds) ==
  LET order == SetToSeq(kinds)
      first == p.t.nextId
      rows == [id \in first..(first + Len(order) - 1) |-> order[id - first + 1]]
      new == {[id |-> id, kind |-> rows[id]] : id \in DOMAIN rows}
      t == [p.t EXCEPT !.nextId = @ + Len(order), !.entries[s] = @ \cup new]
  IN  Asked([p EXCEPT !.t = t], s, rows)

SendMktdataSubscribe(p, s, snapshot) ==
  LET on == {entry.kind : entry \in p.t.entries[s]}
      kinds == IF snapshot THEN {Snapshot} ELSE {Quote} \cup (p.t.asked[s] \ on)
      t == IF snapshot \/ s \in ToSet(p.t.resub) THEN p.t ELSE [p.t EXCEPT !.resub = Append(@, s)]
  IN  AskFor([p EXCEPT !.t = t], s, kinds)

\* The slot stays on the list the next reconnect asks again.
UnsubscribeKeepsTheReplay(p, s) ==
  LET t == [p.t EXCEPT !.due = @ \ {s}, !.asked[s] = {}, !.entries[s] = {},
                       !.generic = Without(@, {tag \in DOMAIN @ : @[tag].slot = s})]
  IN  Withdrawn([p EXCEPT !.t = t], {entry.id : entry \in p.t.entries[s]})

\* Nobody watches the contract any more.  What its series stated and nobody read
\* stays, and is marked so; it goes if the slot does.
SendMktdataUnsubscribe(p, s) ==
  LET t == [p.t EXCEPT
              !.due = @ \ {s}, !.readings[s] = [i \in DOMAIN @ |-> [@[i] EXCEPT !.kept = TRUE]], !.asked[s] = {}, !.entries[s] = {},
              !.resub = SelectSeq(@, LAMBDA x : x # s), !.replay = SelectSeq(@, LAMBDA x : x # s),
              !.generic = Without(@, {tag \in DOMAIN @ :
                @[tag].slot = s /\ ~(p.t.news[s] # 0 /\ @[tag].kind = Headlines)})]
  IN  Withdrawn([p EXCEPT !.t = t], {entry.id : entry \in p.t.entries[s]})

\* The series are asked for and not put on the list the rebuild reads.
AlsoAskWithoutNoting(p, s, wanted) ==
  IF p.t.entries[s] = {} THEN p ELSE AskFor(p, s, wanted \ p.t.asked[s])

\* Series a request named on a contract another is served on already.
AlsoAskForSeries(p, s, wanted) ==
  LET new == wanted \ p.t.asked[s]
      t == [p.t EXCEPT !.asked[s] = @ \cup new]
  IN  IF p.t.entries[s] = {} THEN [p EXCEPT !.t = t] ELSE AskFor([p EXCEPT !.t = t], s, new)

\* The series leave the list and go on at the farm.
StopKeepsTheWire(p, s, unwanted) == [p EXCEPT !.t.asked[s] = @ \ unwanted]

\* Every route of the slot's series goes with one of them.
StopForgetsEveryRoute(p, s, unwanted) ==
  LET going == {entry \in p.t.entries[s] : entry.kind \in unwanted}
      t == [p.t EXCEPT !.asked[s] = @ \ unwanted, !.entries[s] = @ \ going,
                       !.generic = Without(@, {tag \in DOMAIN @ : @[tag].slot = s})]
  IN  Withdrawn([p EXCEPT !.t = t], {entry.id : entry \in going})

\* Series nobody left on the contract named.
StopAskingForSeries(p, s, unwanted) ==
  LET going == {entry \in p.t.entries[s] : entry.kind \in unwanted}
      t == [p.t EXCEPT !.asked[s] = @ \ unwanted, !.entries[s] = @ \ going,
                       !.generic = Without(@, {tag \in DOMAIN @ : @[tag].slot = s /\ @[tag].kind \in unwanted})]
  IN  Withdrawn([p EXCEPT !.t = t], {entry.id : entry \in going})

SendNewsSubscribe(p, s, id) == Asked([p EXCEPT !.t.news[s] = id], s, [x \in {id} |-> Headlines])

AskForHeadlines(p, s) ==
  IF p.t.news[s] # 0 THEN p
  ELSE SendNewsSubscribe([p EXCEPT !.t.nextId = @ + 1], s, p.t.nextId)

ForgetNews(t, s) ==
  [t EXCEPT !.waiting = Without(@, {t.news[s]}), !.news[s] = 0,
            !.generic = Without(@, {tag \in DOMAIN @ : @[tag] = [slot |-> s, kind |-> Headlines]})]

SendNewsUnsubscribe(p, s) ==
  IF p.t.news[s] = 0 THEN p
  ELSE [t |-> ForgetNews(p.t, s), v |-> IF p.t.up THEN Without(p.v, {p.t.news[s]}) ELSE p.v]

-----------------------------------------------------------------------------
(* The caller's commands, as the engine takes them. *)

\* Lines lost in a drop and not asked for again yet are not counted.
LinesOnTheWire(t, s) == {x \in Slots \ {s} : \E entry \in t.entries[x] : entry.kind = Quote}

Lines(t, s) == {x \in Slots \ {s} : t.at[x] # NoContract /\ HoldsAStream(t, x)}

AllowanceSpent(t, s, snapshot) == ~snapshot /\ Cardinality(Lines(t, s)) >= Allowance

\* A request that begins a stream begins an occupancy; one beside a stream that
\* is up does not rename it.
NoteOccupancy(t, s) ==
  PublishOccupancy([t EXCEPT !.began[s] = IF HoldsAStream(t, s) /\ @ # 0 THEN @ ELSE t.issued], s)

\* The request written into the table, and the reader told.  oldest is the
\* first number a reading the request may be told of can have come under.
Filed(p, c, s) ==
  LET request == [slot |-> s, con |-> c.con, series |-> c.series, snapshot |-> c.snapshot, news |-> c.news]
      t == [p.t EXCEPT !.requests = (c.req :> request) @@ @]
      filed == [p EXCEPT !.t = Push(t, [k |-> "taken", req |-> c.req, slot |-> s, gen |-> t.began[s],
                                        con |-> c.con, oneShot |-> c.snapshot,
                                        oldest |-> IF HoldsMarketData(t, s) THEN 0 ELSE t.nextId])]
  IN  IF c.news THEN AskForHeadlines(filed, s) ELSE filed

\* Served off the stream that is up: what it was acknowledged or refused with
\* is owed to the request that joins.
Joined(p, c, s) ==
  LET acknowledged == IF p.t.params[s] = NoContract THEN p.t
                      ELSE Push(p.t, [k |-> "paramsFor", req |-> c.req])
      t == IF p.t.failure[s] = NoContract THEN acknowledged
           ELSE Push(acknowledged, [k |-> "failureFor", req |-> c.req, asked |-> c.con, con |-> p.t.failure[s]])
  IN  AlsoAskForSeries([p EXCEPT !.t = t], s, c.series)

PushSubscriptionFailure(t, s) ==
  Push([t EXCEPT !.failure[s] = t.at[s]],
       [k |-> "failure", slot |-> s, gen |-> t.gen[s], con |-> t.at[s]])

\* A request of its own: a stream, or a snapshot, which is not made again after
\* a drop and is not sent during one.
Began(p, c, s) ==
  IF ~c.snapshot \/ p.t.up THEN SendMktdataSubscribe(p, s, c.snapshot)
  ELSE IF HoldsAStream(p.t, s) THEN p
  ELSE [p EXCEPT !.t = PushSubscriptionFailure(@, s)]

TakeSubscription(p, c) ==
  LET t0 == [Registered(p.t, c.con) EXCEPT !.issued = @ + 1]
      s == SlotOf(t0, c.con)
      up == HoldsAStream(t0, s)
      joins == up /\ ~c.snapshot
      t1 == IF up \/ c.snapshot THEN t0 ELSE [t0 EXCEPT !.asked[s] = @ \cup c.series]
      t2 == IF joins THEN t1 ELSE NoteOccupancy(t1, s)
      filed == Filed([p EXCEPT !.t = t2], c, s)
  IN  IF c.req \in DOMAIN p.t.requests THEN p
      ELSE IF joins THEN Joined(filed, c, s)
      ELSE IF AllowanceSpent(t2, s, c.snapshot) THEN [p EXCEPT !.t = TryReclaimInstrument(t2, s)]
      ELSE Began(filed, c, s)

On(t, s) == {t.requests[r] : r \in {x \in DOMAIN t.requests : t.requests[x].slot = s}}

\* The last watcher takes its series along and leaves the stream.
LetGoOfTheSeries(p, s, gone) ==
  StopAskingForSeries(p, s, gone.series \ UNION {r.series : r \in On(p.t, s)})

\* The stream goes with its last watcher; until then only the series nobody
\* else named.
LetGo(p, s, gone) ==
  IF On(p.t, s) = {} THEN SendMktdataUnsubscribe(p, s)
  ELSE StopAskingForSeries(p, s, gone.series \ UNION {r.series : r \in On(p.t, s)})

WithdrawMktData(p, req) ==
  LET gone == p.t.requests[req]
      s == gone.slot
      t == Push([p.t EXCEPT !.requests = Without(@, {req}), !.issued = @ + 1],
                [k |-> "withdrawn", req |-> req])
      quiet == LetGo([p EXCEPT !.t = t], s, gone)
      silent == IF gone.news /\ \A r \in On(t, s) : ~r.news THEN SendNewsUnsubscribe(quiet, s) ELSE quiet
      untagged == IF HoldsMarketData(silent.t, s) \/ silent.t.news[s] # 0 THEN silent.t
                  ELSE [silent.t EXCEPT !.tags = Without(@, {tag \in DOMAIN @ : @[tag] = s})]
  IN  IF req \notin DOMAIN p.t.requests THEN p
      ELSE [silent EXCEPT !.t = TryReclaimInstrument(untagged, s)]

\* An order placed holds its contract's slot; ended, it offers the slot back.
PlaceOrder(p, con) == [p EXCEPT !.t = [Registered(@, con) EXCEPT !.held = @ \cup {con}]]

OrderOver(p, con) ==
  [p EXCEPT !.t = TryReclaimInstrument([@ EXCEPT !.held = @ \ {con}], SlotOf(@, con))]

Taken(p, c) ==
  CASE c.op = "subscribe" -> TakeSubscription(p, c)
    [] c.op = "cancel" -> WithdrawMktData(p, c.req)
    [] c.op = "order" -> PlaceOrder(p, c.con)
    [] c.op = "orderOver" -> OrderOver(p, c.con)

\* The engine takes the caller's next command.
TakeCommand ==
  /\ todo < Len(load.commands)
  /\ todo' = todo + 1
  /\ LET p == Taken([t |-> e, v |-> venue], load.commands[todo + 1])
     IN  e' = p.t /\ venue' = p.v
  /\ told' = {}
  /\ UNCHANGED <<load, inbox, spent, reader>>

-----------------------------------------------------------------------------
(* The farm, and what the engine makes of its answers. *)

\* A subscription's tag is 0 until the farm answers, and Refused if it refuses.
Refused == -1
InUse == {venue[id].tag : id \in DOMAIN venue}

\* The farm takes a subscription under a tag it is not using.
VenueAcknowledges(id) ==
  /\ venue[id].tag = 0
  /\ LET tag == CHOOSE x \in Tags \ InUse : \A y \in Tags \ InUse : x <= y
     IN  /\ venue' = [venue EXCEPT ![id].tag = tag]
         /\ inbox' = Append(inbox, [k |-> "ack", id |-> id, tag |-> tag])
  /\ UNCHANGED spent

VenueRefuses(id) ==
  /\ venue[id].tag = 0 /\ spent.refusals < load.maxRefusals
  /\ spent' = [spent EXCEPT !.refusals = @ + 1]
  /\ venue' = [venue EXCEPT ![id].tag = Refused]
  /\ inbox' = Append(inbox, [k |-> "reject", id |-> id])

VenueStates(id) ==
  /\ venue[id].tag \in Tags /\ spent.stated < load.maxStated
  /\ spent' = [spent EXCEPT !.stated = @ + 1]
  /\ inbox' = Append(inbox, [k |-> IF venue[id].kind \in {Quote, Snapshot} THEN "tick" ELSE "generic",
                             tag |-> venue[id].tag, id |-> id, con |-> venue[id].con])
  /\ UNCHANGED venue

Venue ==
  /\ \E id \in DOMAIN venue : VenueAcknowledges(id) \/ VenueRefuses(id) \/ VenueStates(id)
  /\ told' = {}
  /\ UNCHANGED <<load, todo, e, reader>>

\* An acknowledgement of a request since withdrawn names nothing here.
HandleSubscriptionAck(t, msg) ==
  LET asked == t.waiting[msg.id]
      heard == [t EXCEPT !.waiting = Without(@, {msg.id})]
      filed == [heard EXCEPT !.generic = (msg.tag :> asked) @@ @]
      tagged(x) == [x EXCEPT !.tags = (msg.tag :> asked.slot) @@ @, !.due = @ \cup {asked.slot}]
  IN  IF msg.id \notin DOMAIN t.waiting THEN t
      ELSE CASE asked.kind = Quote -> [tagged(heard) EXCEPT !.failure[asked.slot] = NoContract]
             [] asked.kind = Snapshot -> tagged(filed)
             [] OTHER -> filed

HandleSubscriptionReject(t, msg) ==
  LET asked == t.waiting[msg.id]
      s == asked.slot
      without == IF asked.kind = Headlines /\ t.news[s] = msg.id THEN ForgetNews(t, s) ELSE t
  IN  IF msg.id \notin DOMAIN t.waiting THEN t
      ELSE IF asked.kind \notin {Quote, Snapshot}
      THEN Push(without, [k |-> "companion", slot |-> s, gen |-> t.gen[s], con |-> t.at[s]])
      ELSE IF asked.kind = Snapshot /\ HoldsAStream(t, s) THEN t
      ELSE PushSubscriptionFailure(t, s)

\* What an acknowledgement said goes out ahead of the first tick after it.
StateParamsDue(t, s) ==
  IF s \notin t.due THEN t
  ELSE Push([t EXCEPT !.due = @ \ {s}, !.params[s] = t.at[s]], [k |-> "params", slot |-> s, gen |-> t.gen[s]])

PushQuote(t, s, msg) == [t EXCEPT !.quote[s] = [con |-> msg.con, from |-> msg.id, gen |-> t.gen[s]]]

HandleTickData(t, msg) ==
  IF msg.tag \notin DOMAIN t.tags THEN t
  ELSE PushQuote(StateParamsDue(t, t.tags[msg.tag]), t.tags[msg.tag], msg)

HandleGenericTick(t, msg) ==
  LET asked == t.generic[msg.tag]
      reading == [con |-> msg.con, from |-> msg.id, kept |-> FALSE]
  IN  IF msg.tag \notin DOMAIN t.generic THEN t
      ELSE CASE asked.kind = Headlines ->
                  Push(t, [k |-> "news", slot |-> asked.slot, gen |-> t.gen[asked.slot], con |-> msg.con])
             [] asked.kind \in Series -> [t EXCEPT !.readings[asked.slot] = Append(@, reading)]
             [] OTHER -> t

ProcessFarmMessage(t, msg) ==
  CASE msg.k = "ack" -> HandleSubscriptionAck(t, msg)
    [] msg.k = "reject" -> HandleSubscriptionReject(t, msg)
    [] msg.k = "tick" -> HandleTickData(t, msg)
    [] msg.k = "generic" -> HandleGenericTick(t, msg)

Receive ==
  /\ inbox # <<>> /\ inbox' = Tail(inbox)
  /\ e' = ProcessFarmMessage(e, Head(inbox))
  /\ told' = {}
  /\ UNCHANGED <<load, todo, venue, spent, reader>>

-----------------------------------------------------------------------------
(* The connection to the farm drops, and is made again. *)

NotAmong(seq, others) == SelectSeq(seq, LAMBDA x : x \notin ToSet(others))

HandleDisconnect ==
  /\ e.up /\ spent.drops < load.maxDrops
  /\ spent' = [spent EXCEPT !.drops = @ + 1]
  /\ e' = [e EXCEPT !.up = FALSE, !.resub = @ \o NotAmong(e.replay, e.resub), !.replay = <<>>,
                    !.waiting = Empty, !.entries = [s \in Slots |-> {}], !.generic = Empty,
                    !.due = {}, !.tags = Empty,
                    !.quote = [s \in Slots |-> [NoQuote EXCEPT !.gen = e.quote[s].gen]]]
  /\ venue' = Empty /\ inbox' = <<>> /\ told' = {}
  /\ UNCHANGED <<load, todo, reader>>

\* What is asked again keeps its place in the queue.
ReplayKeepsItsPlace(p) ==
  LET n == IF Len(p.t.replay) < Burst THEN Len(p.t.replay) ELSE Burst
  IN  FoldLeft(LAMBDA q, s : SendMktdataSubscribe(q, s, FALSE), p, SubSeq(p.t.replay, 1, n))

\* A burst of the subscriptions to be made again.
DriveReplay(p) ==
  LET n == IF Len(p.t.replay) < Burst THEN Len(p.t.replay) ELSE Burst
      rest == [p EXCEPT !.t.replay = SubSeq(@, n + 1, Len(@))]
  IN  FoldLeft(LAMBDA q, s : SendMktdataSubscribe(q, s, FALSE), rest, SubSeq(p.t.replay, 1, n))

\* The news is asked for again under its own numbers, then the streams.
Resubscribed(t) ==
  LET fresh == [t EXCEPT !.up = TRUE, !.waiting = Empty, !.entries = [s \in Slots |-> {}],
                         !.replay = SelectSeq(t.resub, LAMBDA s : t.at[s] # NoContract), !.resub = <<>>]
      reading == SetToSeq({s \in Slots : t.news[s] # 0})
  IN  DriveReplay(FoldLeft(LAMBDA q, s : SendNewsSubscribe(q, s, t.news[s]),
                           [t |-> fresh, v |-> Empty], reading))

Reconnect ==
  /\ ~e.up
  /\ LET p == Resubscribed(e) IN e' = p.t /\ venue' = p.v
  /\ told' = {}
  /\ UNCHANGED <<load, todo, inbox, spent, reader>>

Replay ==
  /\ e.up /\ e.replay # <<>>
  /\ LET p == DriveReplay([t |-> e, v |-> venue]) IN e' = p.t /\ venue' = p.v
  /\ told' = {}
  /\ UNCHANGED <<load, todo, inbox, spent, reader>>

-----------------------------------------------------------------------------
(* The reader. *)

Watched(r) == {s \in Slots : r.watch[s] # <<>>}

\* It reads the quotes of the slots its callers watch, and what their series
\* stated, before it cuts the records.
PollConflated ==
  /\ load.read /\ reader.phase = "idle"
  /\ reader' = [reader EXCEPT !.phase = "polled",
                              !.polled = [s \in Watched(reader) |->
                                            [quote |-> e.quote[s], readings |-> ToSet(e.readings[s])]]]
  /\ e' = [e EXCEPT !.readings = [s \in Slots |-> IF s \in Watched(reader) THEN <<>> ELSE @[s]]]
  /\ told' = {}
  /\ UNCHANGED <<load, todo, venue, inbox, spent>>

TakeRecords ==
  /\ reader.phase = "polled"
  /\ reader' = [reader EXCEPT !.phase = "reading", !.batch = e.records]
  /\ e' = [e EXCEPT !.records = <<>>]
  /\ told' = {}
  /\ UNCHANGED <<load, todo, venue, inbox, spent>>

Numbers(watchers) == {w.req : w \in ToSet(watchers)}

\* A request takes the slot, or follows whoever holds it; a stream takes it
\* from a snapshot.
NoteMktDataTaken(r, taken) ==
  LET new == [req |-> taken.req, con |-> taken.con, oldest |-> taken.oldest]
      held == r.watch[taken.slot]
      oneShot == IF taken.oneShot THEN r.oneShot \cup {taken.req} ELSE r.oneShot
      follows == held # <<>> /\ (taken.oneShot \/ Head(held).req \notin oneShot)
  IN  IF follows THEN [r EXCEPT !.oneShot = oneShot, !.watch[taken.slot] = Append(@, new)]
      ELSE [r EXCEPT !.oneShot = oneShot, !.takenOn[taken.slot] = taken.gen,
                     !.watch[taken.slot] = IF @ = <<>> THEN <<new>> ELSE <<new>> \o Tail(@) \o <<Head(@)>>]

UnregisterMktData(r, req) ==
  LET left(s) == SelectSeq(r.watch[s], LAMBDA w : w.req # req)
  IN  [r EXCEPT !.oneShot = @ \ {req}, !.paramsSent = @ \ {req},
                !.watch = [s \in Slots |-> left(s)],
                !.takenOn = [s \in Slots |-> IF left(s) = <<>> THEN 0 ELSE @[s]]]

NoteSlotReleased(r, slot, gen) == IF r.gen[slot] = gen THEN [r EXCEPT !.gen[slot] = 0] ELSE r

Telling(what, w, con) ==
  [what |-> what, req |-> w.req, con |-> w.con, said |-> con, from |-> 0, oldest |-> 0, kept |-> FALSE]

\* What the last acknowledgement on the slot said, as it stands when it is
\* told, to whoever has not been told.
ParamsTold(r, slot, reqs) ==
  {Telling("params", w, e.params[slot]) :
     w \in {x \in ToSet(r.watch[slot]) : x.req \in reqs \ r.paramsSent /\ e.params[slot] # NoContract}}

\* What a record says of a slot's contract, to those watching the slot under
\* the occupancy it was said of.
SaidOf(r, record) ==
  IF record.gen # r.gen[record.slot] THEN {}
  ELSE {Telling(record.k, w, record.con) : w \in ToSet(r.watch[record.slot])}

\* The refusal kept on a slot ends the request that joined, told under its
\* number whatever the reader holds of the slot by then.
RefusalTold(record) == {Telling("failureFor", [req |-> record.req, con |-> record.asked], record.con)}

Saying(r, record) ==
  CASE record.k \in {"failure", "companion", "news"} -> SaidOf(r, record)
    [] record.k = "params" ->
         IF record.gen = r.gen[record.slot]
         THEN ParamsTold(r, record.slot, Numbers(r.watch[record.slot])) ELSE {}
    [] record.k = "failureFor" -> RefusalTold(record)
    [] record.k = "paramsFor" -> UNION {ParamsTold(r, s, {record.req}) : s \in Slots}
    [] OTHER -> {}

Noted(r, record) ==
  CASE record.k = "slotTaken" -> [r EXCEPT !.gen[record.slot] = record.gen]
    [] record.k = "slotReleased" -> NoteSlotReleased(r, record.slot, record.gen)
    [] record.k = "taken" -> NoteMktDataTaken(r, record)
    [] record.k = "withdrawn" -> UnregisterMktData(r, record.req)
    [] record.k \in {"params", "paramsFor"} ->
         [r EXCEPT !.paramsSent = @ \cup {t.req : t \in Saying(r, record)}]
    [] OTHER -> r

DeliverRecord ==
  /\ reader.phase = "reading" /\ reader.batch # <<>>
  /\ reader' = [Noted(reader, Head(reader.batch)) EXCEPT !.batch = Tail(@)]
  /\ told' = Saying(reader, Head(reader.batch))
  /\ UNCHANGED <<load, todo, e, venue, inbox, spent>>

\* The occupancy a quote was read under is not compared.
QuotesToldUnchecked(r) ==
  UNION {{[Telling("quote", w, r.polled[s].quote.con) EXCEPT !.from = r.polled[s].quote.from,
                                                            !.oldest = w.oldest] : w \in ToSet(r.watch[s])} :
         s \in {x \in DOMAIN r.polled : r.polled[x].quote.con # NoContract}}

\* Quotes read before the records were cut, to whoever watches the slot once
\* the records are read, unless the slot has changed hands in between.
QuotesTold(r) ==
  UNION {LET polled == r.polled[s]
             priced == {q \in {polled.quote} : q.con # NoContract}
             read == {[what |-> "quote", q |-> q, kept |-> FALSE] : q \in priced}
                       \cup {[what |-> "series", q |-> q, kept |-> q.kept] : q \in polled.readings}
         IN  {[Telling(x.what, w, x.q.con) EXCEPT !.from = x.q.from, !.oldest = w.oldest, !.kept = x.kept] :
                w \in ToSet(r.watch[s]), x \in read} :
         s \in {x \in DOMAIN r.polled : r.polled[x].quote.gen = r.gen[x]}}

DeliverQuotes ==
  /\ reader.phase = "reading" /\ reader.batch = <<>>
  /\ reader' = [reader EXCEPT !.phase = "idle", !.polled = Empty]
  /\ told' = QuotesTold(reader)
  /\ UNCHANGED <<load, todo, e, venue, inbox, spent>>

\* Whoever watches the slot is forgotten, its next occupant's watchers too.
ForgetWhoeverWatches(r, slot, releasedAt) ==
  [r EXCEPT !.takenOn[slot] = 0, !.watch[slot] = <<>>]

ForgetWatchersOf(r, slot, releasedAt) ==
  IF r.takenOn[slot] \notin {0, releasedAt} THEN r
  ELSE LET gone == Numbers(r.watch[slot])
       IN  [r EXCEPT !.takenOn[slot] = 0, !.watch[slot] = <<>>,
                     !.oneShot = @ \ gone, !.paramsSent = @ \ gone]

\* Any thread that looks a contract up drops what the engine has given back,
\* ahead of the records that say so.
ForgetReleasedSlots ==
  /\ load.read /\ e.released # <<>>
  /\ reader' = FoldLeft(LAMBDA r, x : ForgetWatchersOf(r, x[1], x[2]), reader, e.released)
  /\ e' = [e EXCEPT !.released = <<>>]
  /\ told' = {}
  /\ UNCHANGED <<load, todo, venue, inbox, spent>>

Next ==
  \/ TakeCommand \/ Venue \/ Receive
  \/ HandleDisconnect \/ Reconnect \/ Replay
  \/ PollConflated \/ TakeRecords \/ DeliverRecord \/ DeliverQuotes \/ ForgetReleasedSlots

Spec == Init /\ [][Next]_vars

-----------------------------------------------------------------------------
(* Properties. *)

Kinds == Series \cup {Quote, Snapshot, Headlines}
RecordKinds == {"slotTaken", "slotReleased", "taken", "withdrawn", "params", "paramsFor", "failure",
                "failureFor", "companion", "news"}
PartialFrom(f, from) == DOMAIN f \subseteq from

\* The tables hold what their fields declare: one contract to a slot and one
\* slot to a contract, each slot handed out free or held, requests on slots.
TypeOK ==
  /\ todo \in 0..Len(load.commands)
  /\ e.at \in [Slots -> Contracts \cup {NoContract}] /\ e.held \subseteq Contracts
  /\ \A s, x \in Slots : e.at[s] = e.at[x] /\ e.at[s] # NoContract => s = x
  /\ ToSet(e.free) = {s \in 1..e.count : e.at[s] = NoContract} /\ IsInjective(e.free)
  /\ PartialFrom(e.requests, Requests) /\ PartialFrom(e.tags, Tags) /\ PartialFrom(e.generic, Tags)
  /\ e.asked \in [Slots -> SUBSET Series] /\ e.due \subseteq Slots
  /\ \A s \in Slots : \A entry \in e.entries[s] : entry.id \in 1..(e.nextId - 1) /\ entry.kind \in Kinds
  /\ \A id \in DOMAIN e.waiting : e.waiting[id].slot \in Slots /\ e.waiting[id].kind \in Kinds
  /\ {e.began[s] : s \in Slots} \cup {e.gen[s] : s \in Slots} \subseteq 0..e.issued
  /\ \A i \in DOMAIN e.records : e.records[i].k \in RecordKinds
  /\ \A id \in DOMAIN venue : venue[id].con \in Contracts /\ venue[id].tag \in Tags \cup {0, Refused}
  /\ reader.phase \in {"idle", "polled", "reading"}
  /\ reader.oneShot \cup reader.paramsSent \subseteq Requests
  /\ \A s \in Slots : Numbers(reader.watch[s]) \subseteq Requests

Running == {id \in DOMAIN venue : venue[id].tag # Refused}

AskedOfTheFarm(con, kind) == \E id \in DOMAIN venue : venue[id].con = con /\ venue[id].kind = kind

\* A request that was taken is on its contract's slot, the slot holds a stream
\* for it, and every series it named is asked for: at the farm while the
\* connection is up and the slot's turn has come, and on the list the rebuild
\* reads always.
EveryRequestIsAsked ==
  \A req \in DOMAIN e.requests :
    LET r == e.requests[req]
        sent == e.up /\ r.slot \notin ToSet(e.replay)
    IN  /\ e.at[r.slot] = r.con
        /\ ~r.snapshot =>
             /\ HoldsAStream(e, r.slot)
             /\ r.series \subseteq e.asked[r.slot]
             /\ sent => \A kind \in {Quote} \cup r.series : AskedOfTheFarm(r.con, kind)

\* What runs at the farm runs for a request the session holds on that
\* contract, and headlines for one that named news.
NothingRunsUnwatched ==
  \A id \in Running :
    \E req \in DOMAIN e.requests :
      /\ e.requests[req].con = venue[id].con
      /\ venue[id].kind = Headlines => e.requests[req].news

\* A series running at the farm is one that a request on its contract named:
\* it is stopped with the last of those, while the stream beside it goes on.
SeriesAreNamed ==
  \A id \in Running :
    venue[id].kind \in Series =>
      \E req \in DOMAIN e.requests :
        e.requests[req].con = venue[id].con /\ venue[id].kind \in e.requests[req].series

\* One contract holds one subscription on the wire, and one of each series,
\* however many requests watch it and however often it is replayed.
OneSubscriptionEach ==
  \A i, j \in Running :
    venue[i].kind # Snapshot /\ venue[i].con = venue[j].con /\ venue[i].kind = venue[j].kind => i = j

\* The farm's tags lead to the slot of the contract they were given for, from
\* the moment the acknowledgement is read until the subscription goes.
EveryStreamIsRouted ==
  \A id \in DOMAIN venue :
    (venue[id].tag \in Tags /\ ~ \E i \in DOMAIN inbox : inbox[i].k = "ack" /\ inbox[i].id = id) =>
      LET tag == venue[id].tag
          at == SlotOf(e, venue[id].con)
      IN  IF venue[id].kind \in {Quote, Snapshot} THEN tag \in DOMAIN e.tags /\ e.tags[tag] = at
          ELSE tag \in DOMAIN e.generic /\ e.generic[tag] = [slot |-> at, kind |-> venue[id].kind]

\* Every request is asked for and what answers it is routed to it, through
\* joins, withdrawals of others, refusals, drops and replays.
EveryRequestIsServed == EveryRequestIsAsked /\ EveryStreamIsRouted

\* What runs at the farm is what the requests held ask for: nothing else, and
\* nothing twice.
NothingRunsUnneeded == NothingRunsUnwatched /\ SeriesAreNamed /\ OneSubscriptionEach

\* A slot given back carries nothing of the contract that left: no route, no
\* request, no quote or reading, no list of series, no occupancy.
FreeSlotsAreClean ==
  \A s \in Slots :
    e.at[s] = NoContract =>
      /\ ~HoldsMarketData(e, s) /\ e.news[s] = 0 /\ s \notin e.due
      /\ \A tag \in DOMAIN e.tags : e.tags[tag] # s
      /\ \A tag \in DOMAIN e.generic : e.generic[tag].slot # s
      /\ \A id \in DOMAIN e.waiting : e.waiting[id].slot # s
      /\ e.asked[s] = {} /\ e.began[s] = 0 /\ e.gen[s] = 0
      /\ e.quote[s].con = NoContract /\ e.readings[s] = <<>>
      /\ e.params[s] = NoContract /\ e.failure[s] = NoContract

\* And a slot nothing refers to is given back: a contract keeps one only for a
\* request or an order.
NoSlotIsLeaked ==
  \A s \in Slots : e.at[s] # NoContract => e.at[s] \in e.held \/ On(e, s) # {}

\* The venue allows so many quote lines.  Lines waiting to be asked for again
\* after a drop count, so a replay never takes the session past them.
LinesWithinTheAllowance == Cardinality({s \in Slots : HoldsAStream(e, s)}) <= Allowance

\* A slot is held for somebody or free for the next and then clean, and no
\* more of them hold a stream than the venue allows lines.
SlotsAreSound == FreeSlotsAreClean /\ NoSlotIsLeaked /\ LinesWithinTheAllowance

\* What a request is told is of the contract it asked for, though its slot may
\* have gone to another contract while the reader held a quote or a record of
\* it.  What an acknowledgement said is read from the slot as it is told, so it
\* is only sure of a request the session still holds.
ToldOfTheirContract ==
  \A t \in told :
    t.said = t.con \/ (t.what = "params" /\ ~ \E req \in DOMAIN e.requests :
                                               req = t.req /\ e.requests[req].con = t.con)

\* A reader that has read every record knows who watches each slot and under
\* which occupancy, whatever was dropped ahead of the records that say so.
ReaderCatchesUp ==
  e.records = <<>> /\ reader.batch = <<>> =>
    \A s \in Slots :
      /\ Numbers(reader.watch[s]) = {req \in DOMAIN e.requests : e.requests[req].slot = s}
      /\ reader.gen[s] = e.gen[s]

\* A request is handed no reading of a series from before the subscription it
\* began.  The exception is the code's own: what was stated and nobody read goes
\* with the slot that is given back (try_reclaim_instrument) and not with the
\* subscription, so a slot an order holds keeps it for whoever watches it next.
NothingFromBefore == \A t \in told : t.what = "series" /\ ~t.kept => t.from >= t.oldest

\* What was kept so was kept for an order: no other slot outlives its watchers.
KeptForAnOrder ==
  \A s \in Slots : \A i \in DOMAIN e.readings[s] :
    e.readings[s][i].kept /\ ~HoldsMarketData(e, s) => e.at[s] \in e.held

\* A program that reads is right about the slots, and about what it tells of
\* them, whatever was given back and taken between its poll and its records.
ReaderIsRight == ToldOfTheirContract /\ NothingFromBefore /\ KeptForAnOrder /\ ReaderCatchesUp
=============================================================================
