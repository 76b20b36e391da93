--------------------------- MODULE LiveBarsProofs ---------------------------
(***************************************************************************)
(* The five-second bars, where no two callers ask for the same, for every  *)
(* workload.  `BarNet' is what LiveStreamsProofs says of a kind of stream; *)
(* `Ledger' is how rtbar_subs, rtbar_routes, rtbar_resub and the batches   *)
(* of the requests kept up to date stand to one another; `BarWaits' says   *)
(* that a record without a number has its ask under way, and `BatchFirst'  *)
(* that a batch is asked for ahead of its stream.                          *)
(***************************************************************************)
EXTENDS LiveStreamsProofs

(* The bars, where no two callers ask for the same.  A stream is asked for *)
(* under the name of its record and, for a request kept up to date, under  *)
(* its batch's as well.                                                    *)
BarAsks(st) == AsksOf(st.subs) \cup {Asked(b) : b \in st.batch}
BarNet(st) == Net(FALSE, BarAsks(st), st.unnumbered, Held(st.subs), st)

(* A route is one request's, and all of the request's records have its     *)
(* number.                                                                 *)
RouteFor(r, c, subs) ==
  /\ r.readers = {c} /\ r.contracts = <<Key(c)>> /\ r.active /\ r.t # NoNumber
  /\ \E j \in DOMAIN subs : subs[j].c = c
  /\ \A j \in DOMAIN subs : subs[j].c = c => subs[j].t = r.t
Routed(subs, routes) ==
  \A i \in DOMAIN routes : \E c \in BarCallers : RouteFor(routes[i], c, subs)
OneRouteEach(routes) ==
  \A i, j \in DOMAIN routes : routes[i].readers = routes[j].readers => i = j
NumberedRouted(subs, routes) ==
  \A j \in DOMAIN subs : subs[j].t # NoNumber =>
    \E i \in DOMAIN routes : subs[j].c \in routes[i].readers
(* A record without a number is its request's only one, under a name that  *)
(* is no batch's.                                                          *)
WaitsAlone(subs) ==
  \A i, j \in DOMAIN subs : subs[i].c = subs[j].c /\ subs[i].t = NoNumber => i = j
NewNames(subs, batch) ==
  \A i \in DOMAIN subs, b \in batch : subs[i].t = NoNumber => subs[i].q # b.q
(* The requests to be asked for again are those with a record. *)
InResub(resub, c) == \E k \in DOMAIN resub : resub[k] = c
ResubOnce(resub) == \A j, k \in DOMAIN resub : resub[j] = resub[k] => j = k
ResubHeld(subs, resub) ==
  \A k \in DOMAIN resub : \E j \in DOMAIN subs : subs[j].c = resub[k]
SubsKept(subs, resub) == \A j \in DOMAIN subs : InResub(resub, subs[j].c)
BatchKept(resub, batch, ref, but) ==
  \A b \in batch : b.c \notin but /\ Key(b.c) \notin ref => InResub(resub, b.c)

Ledger(subs, routes, resub, batch, ref, but) ==
  /\ Routed(subs, routes) /\ OneRouteEach(routes) /\ NumberedRouted(subs, routes)
  /\ WaitsAlone(subs) /\ NewNames(subs, batch)
  /\ ResubOnce(resub) /\ ResubHeld(subs, resub) /\ SubsKept(subs, resub)
  /\ BatchKept(resub, batch, ref, but)
LedgerOf(st, but) == Ledger(st.subs, st.routes, st.resub, st.batch, st.refuses, but)

(* A record without a number has its ask under way. *)
BarWaits(st) ==
  st.up => \A i \in DOMAIN st.subs : st.subs[i].t = NoNumber => InFlight(st, Asked(st.subs[i]))

(* The ask of a batch goes out before its stream's. *)
Behind(st, p, q) == \E r \in AsksAt(st) : r > p /\ st.out[r].q = q
BatchFirst(st, but) ==
  \A b \in st.batch, p \in AsksAt(st) : b.c \notin but /\ st.out[p].q = b.q =>
    \E i \in DOMAIN st.subs : st.subs[i].c = b.c /\ Behind(st, p, st.subs[i].q)

(* `but' is the request between the two asks, if there is one. *)
BarSide(st, but) ==
  BarNet(st) /\ LedgerOf(st, but) /\ BarWaits(st) /\ BatchFirst(st, but)

-----------------------------------------------------------------------------
(* Where an ask was before the step, and what is behind it. *)
Follows(st, e, p, o) ==
  e.out[p].q = st.out[o].q /\ \A q : Behind(st, o, q) => Behind(e, p, q)

LEMMA FollowsSame ==
  ASSUME NEW st, NEW e, e.out = st.out
  PROVE  \A p \in AsksAt(e) : p \in AsksAt(st) /\ Follows(st, e, p, p)
  <1>1. AsksAt(e) = AsksAt(st)
    BY DEF AsksAt
  <1> QED
    BY <1>1 DEF Follows, Behind

LEMMA FollowsWritten ==
  ASSUME NEW st, NEW e, NEW m, Grows(st.out, e.out, m)
  PROVE  /\ \A p \in AsksAt(st) : p \in AsksAt(e) /\ Follows(st, e, p, p)
         /\ \A p \in AsksAt(e) : p \in AsksAt(st) \/ (m.m = "ask" /\ e.out[p].q = m.q)
  <1>1. OutGrew(st, e, m)
    BY Written
  <1>2. \A p \in AsksAt(st) : p \in AsksAt(e) /\ e.out[p] = st.out[p]
    BY <1>1 DEF OutGrew
  <1>3. \A p \in AsksAt(e) : p \in AsksAt(st) \/ (m.m = "ask" /\ e.out[p].q = m.q)
    BY <1>1 DEF OutGrew
  <1> QED
    BY <1>2, <1>3 DEF Follows, Behind

LEMMA FollowsTaken ==
  ASSUME NEW st, NEW e, NEW m, Shrinks(st.out, e.out, m)
  PROVE  \A p \in AsksAt(e) : p + 1 \in AsksAt(st) /\ Follows(st, e, p, p + 1)
  <1>1. OutShrank(st, e, m)
    BY Taken
  <1> SUFFICES ASSUME NEW p \in AsksAt(e)
               PROVE  p + 1 \in AsksAt(st) /\ Follows(st, e, p, p + 1)
    OBVIOUS
  <1>2. p + 1 \in AsksAt(st) /\ e.out[p] = st.out[p + 1] /\ p \in Nat
    BY <1>1 DEF OutShrank
  <1>3. ASSUME NEW q, Behind(st, p + 1, q) PROVE Behind(e, p, q)
    <2>1. PICK r \in AsksAt(st) : r > p + 1 /\ st.out[r].q = q
      BY <1>3 DEF Behind
    <2>2. r \in Nat /\ (r = 1 \/ (r - 1 \in AsksAt(e) /\ e.out[r - 1] = st.out[r]))
      BY <1>1 DEF OutShrank
    <2>3. r - 1 \in AsksAt(e) /\ r - 1 > p /\ e.out[r - 1].q = q
      BY <1>2, <2>1, <2>2
    <2> QED
      BY <2>3 DEF Behind
  <1> QED
    BY <1>2, <1>3 DEF Follows

(* Batches stay ahead as long as their requests keep the names behind them. *)
LEMMA FirstStays ==
  ASSUME NEW st, NEW e, NEW but, BatchFirst(st, but), e.batch \subseteq st.batch,
         \A p \in AsksAt(e) :
           \/ \E o \in AsksAt(st) : Follows(st, e, p, o)
           \/ \A b \in e.batch : b.q # e.out[p].q,
         \A b \in e.batch :
           \/ \A i \in DOMAIN st.subs : st.subs[i].c = b.c =>
                \E j \in DOMAIN e.subs : e.subs[j].c = b.c /\ e.subs[j].q = st.subs[i].q
           \/ \A p \in AsksAt(e) : e.out[p].q # b.q
  PROVE  BatchFirst(e, but)
  <1> SUFFICES ASSUME NEW b \in e.batch, NEW p \in AsksAt(e), b.c \notin but, e.out[p].q = b.q
               PROVE  \E i \in DOMAIN e.subs : e.subs[i].c = b.c /\ Behind(e, p, e.subs[i].q)
    BY DEF BatchFirst
  <1>1. PICK o \in AsksAt(st) : Follows(st, e, p, o)
    OBVIOUS
  <1>2. st.out[o].q = b.q
    BY <1>1 DEF Follows
  <1>3. PICK i \in DOMAIN st.subs : st.subs[i].c = b.c /\ Behind(st, o, st.subs[i].q)
    BY <1>2 DEF BatchFirst
  <1>4. PICK j \in DOMAIN e.subs : e.subs[j].c = b.c /\ e.subs[j].q = st.subs[i].q
    BY <1>3
  <1> QED
    BY <1>1, <1>3, <1>4 DEF Follows

(* A step that leaves the bar tables alone. *)
LEMMA BarSideKeeps ==
  ASSUME NEW st, NEW e, NEW but, BarSide(st, but), SameBars(st, e), e.refuses = st.refuses,
         Net(FALSE, BarAsks(st), st.unnumbered, Held(st.subs), e), e.up => st.up,
         \A i \in DOMAIN st.subs : st.subs[i].t = NoNumber =>
           (InFlight(st, Asked(st.subs[i])) => InFlight(e, Asked(st.subs[i]))),
         \A p \in AsksAt(e) :
           \/ \E o \in AsksAt(st) : Follows(st, e, p, o)
           \/ \A b \in st.batch : b.q # e.out[p].q
  PROVE  BarSide(e, but)
  <1>1. /\ e.subs = st.subs /\ e.routes = st.routes /\ e.resub = st.resub
        /\ e.unnumbered = st.unnumbered /\ e.batch = st.batch
    BY DEF SameBars
  <1>2. BarNet(e)
    BY <1>1 DEF BarNet, BarAsks
  <1>3. LedgerOf(e, but)
    BY <1>1 DEF BarSide, LedgerOf
  <1>4. BarWaits(e)
    BY <1>1 DEF BarSide, BarWaits
  <1>5. BatchFirst(e, but)
    <2>1. BatchFirst(st, but)
      BY DEF BarSide
    <2> QED
      BY <1>1, <2>1, FirstStays
  <1> QED
    BY <1>2, <1>3, <1>4, <1>5 DEF BarSide

-----------------------------------------------------------------------------
LEMMA BarSideTables ==
  ASSUME NEW st, NEW e, NEW but, BarSide(st, but), SameBars(st, e),
         SameReading(st, e), SameWriting(st, e)
  PROVE  BarSide(e, but)
  <1>1. Net(FALSE, BarAsks(st), st.unnumbered, Held(st.subs), e)
    BY NetStays DEF BarSide, BarNet
  <1>2. \A x : InFlight(st, x) => InFlight(e, x)
    BY FlightStays
  <1>3. \A p \in AsksAt(e) : p \in AsksAt(st) /\ Follows(st, e, p, p)
    BY FollowsSame DEF SameWriting
  <1>4. e.refuses = st.refuses /\ (e.up => st.up)
    BY DEF SameReading, SameWriting
  <1> QED
    BY <1>1, <1>2, <1>3, <1>4, BarSideKeeps

(* What is written of the ticks does not touch the bars. *)
LEMMA BarSideWrites ==
  ASSUME NEW st, NEW e, NEW m, NEW but, BarSide(st, but), SameBars(st, e), SameReading(st, e),
         st.up, e.up, Grows(st.out, e.out, m),
         \/ m.m = "ask" /\ m.key.tick # FALSE /\ FreshIn(st, m.q)
         \/ m.m = "cancel" /\ m.tick # FALSE
  PROVE  BarSide(e, but)
  <1>1. m.m = "ask" => /\ \A y \in BarAsks(st) \cup st.unnumbered : y.q # m.q
                       /\ \A b \in st.batch : b.q # m.q
    BY DEF FreshIn, BarAsks, AsksOf, Asked
  <1>2. Net(FALSE, BarAsks(st), st.unnumbered, Held(st.subs), st)
    BY DEF BarSide, BarNet
  <1>3. Net(FALSE, BarAsks(st), st.unnumbered, Held(st.subs), e)
    BY <1>1, <1>2, NetOther
  <1>4. \A x : InFlight(st, x) => InFlight(e, x)
    BY FlightWrites
  <1>5. \A p \in AsksAt(e) : \/ p \in AsksAt(st) /\ Follows(st, e, p, p)
                             \/ \A b \in st.batch : b.q # e.out[p].q
    BY <1>1, FollowsWritten
  <1>6. e.refuses = st.refuses /\ (e.up => st.up)
    BY DEF SameReading
  <1> QED
    BY <1>3, <1>4, <1>5, <1>6, BarSideKeeps

(* A message that answers no ask of the bars that is waited for. *)
LEMMA BarSideReads ==
  ASSUME NEW st, NEW e, NEW m, NEW but, BarSide(st, but), SameBars(st, e),
         Reads(st, e, m), SameWriting(st, e),
         m.m # "record" =>
           /\ \A i \in DOMAIN st.subs : st.subs[i].t = NoNumber => Asked(st.subs[i]) # Name(m)
           /\ m.m = "ack" => Name(m) \notin st.unnumbered
  PROVE  BarSide(e, but)
  <1>1. Net(FALSE, BarAsks(st), st.unnumbered, Held(st.subs), st)
    BY DEF BarSide, BarNet
  <1>2. Backed(BarAsks(st), Held(st.subs))
    BY <1>1 DEF Net
  <1>3. m.m = "ack" => Name(m) \notin st.unnumbered
    OBVIOUS
  <1>4. Net(FALSE, BarAsks(st), st.unnumbered, Held(st.subs), e)
    BY <1>1, <1>2, <1>3, NetReads
  <1>5. \A x : InFlight(st, x) => InFlight(e, x) \/ (m.m # "record" /\ Name(m) = x)
    BY FlightReads
  <1>6. \A p \in AsksAt(e) : p \in AsksAt(st) /\ Follows(st, e, p, p)
    BY FollowsSame DEF SameWriting
  <1>7. e.refuses = st.refuses /\ (e.up => st.up)
    BY DEF Reads
  <1>8. \A i \in DOMAIN st.subs : st.subs[i].t = NoNumber =>
          (InFlight(st, Asked(st.subs[i])) => InFlight(e, Asked(st.subs[i])))
    BY <1>5
  <1> QED
    BY <1>4, <1>6, <1>7, <1>8, BarSideKeeps

LEMMA BarSideTakesAsk ==
  ASSUME NEW st, NEW e, NEW m, NEW a, NEW but, BarSide(st, but), SameBars(st, e),
         TakesAsk(st, e, m, a), RunsOnce(st)
  PROVE  BarSide(e, but)
  <1>1. Net(FALSE, BarAsks(st), st.unnumbered, Held(st.subs), e)
    BY NetTakesAsk DEF BarSide, BarNet
  <1>2. \A x : InFlight(st, x) => InFlight(e, x)
    BY FlightTakesAsk
  <1>3. \A p \in AsksAt(e) : p + 1 \in AsksAt(st) /\ Follows(st, e, p, p + 1)
    BY FollowsTaken DEF TakesAsk
  <1>4. e.refuses = st.refuses /\ (e.up => st.up)
    BY DEF TakesAsk
  <1> QED
    BY <1>1, <1>2, <1>3, <1>4, BarSideKeeps

LEMMA BarSideTakesCancel ==
  ASSUME NEW st, NEW e, NEW m, NEW but, BarSide(st, but), SameBars(st, e), TakesCancel(st, e, m)
  PROVE  BarSide(e, but)
  <1>1. Net(FALSE, BarAsks(st), st.unnumbered, Held(st.subs), e)
    BY NetTakesCancel DEF BarSide, BarNet
  <1>2. \A x : InFlight(st, x) => InFlight(e, x)
    BY FlightTakesCancel
  <1>3. \A p \in AsksAt(e) : p + 1 \in AsksAt(st) /\ Follows(st, e, p, p + 1)
    BY FollowsTaken DEF TakesCancel
  <1>4. e.refuses = st.refuses /\ (e.up => st.up)
    BY DEF TakesCancel
  <1> QED
    BY <1>1, <1>2, <1>3, <1>4, BarSideKeeps

LEMMA BarSideRecord ==
  ASSUME NEW st, NEW e, NEW m, NEW but, BarSide(st, but), SameBars(st, e),
         WritesRecord(st, e, m), SameWriting(st, e)
  PROVE  BarSide(e, but)
  <1>1. Net(FALSE, BarAsks(st), st.unnumbered, Held(st.subs), e)
    BY NetWritesRecord DEF BarSide, BarNet
  <1>2. \A x : InFlight(st, x) => InFlight(e, x)
    BY FlightRecord
  <1>3. \A p \in AsksAt(e) : p \in AsksAt(st) /\ Follows(st, e, p, p)
    BY FollowsSame DEF SameWriting
  <1>4. e.refuses = st.refuses /\ (e.up => st.up)
    BY DEF WritesRecord, SameWriting
  <1> QED
    BY <1>1, <1>2, <1>3, <1>4, BarSideKeeps

-----------------------------------------------------------------------------
(* What Apart says of the requests for bars. *)
LEMMA ApartIs ==
  ASSUME Apart
  PROVE  \A c, d \in BarCallers : Key(c) = Key(d) => c = d
  BY BarCallersAre DEF Apart

LEMMA BarRecordsAre ==
  ASSUME NEW st \in State
  PROVE  /\ \A i \in DOMAIN st.subs : st.subs[i].c \in BarCallers /\ st.subs[i] \in BarRecords
         /\ \A k \in DOMAIN st.resub : st.resub[k] \in BarCallers
         /\ \A b \in st.batch : b.c \in BarCallers /\ b.q \in Nat
         /\ \A c \in BarCallers : Key(c).tick = FALSE /\ Key(c) \in Keys
  <1>1. /\ st.subs \in Seq(BarRecords) /\ st.resub \in Seq(BarCallers)
        /\ st.batch \in SUBSET [q : Nat, c : BarCallers]
    BY DEF State
  <1>2. \A r \in BarRecords : r.c \in BarCallers
    BY DEF BarRecords
  <1>3. \A c \in BarCallers : Key(c).tick = FALSE /\ Key(c) \in Keys
    <2>1. \A c \in BarCallers : c \in Callers /\ ~IsTick(c)
      BY BarCallersAre
    <2>2. \A c \in Callers : Key(c) \in Keys /\ Key(c).tick = IsTick(c)
      BY KeyIs
    <2>3. \A c : IsTick(c) \in BOOLEAN
      BY DEF IsTick
    <2> QED
      BY <2>1, <2>2, <2>3
  <1> QED
    BY <1>1, <1>2, <1>3

(* Under Apart no request joins another's stream. *)
LEMMA NoneRunning ==
  ASSUME NEW st \in State, Apart, NEW c \in BarCallers
  PROVE  Running(st, c) = {}
  BY ApartIs, BarRecordsAre DEF Running

-----------------------------------------------------------------------------
(* A batch is asked for. *)
LEMMA BatchAskedSide ==
  ASSUME NEW st, NEW e, NEW c \in BarCallers, BarSide(st, {}), st \in State, Finite(st), st.up,
         AsksBatch(st, e, c)
  PROVE  BarSide(e, {c})
  <1> DEFINE q == FreshName(st)
             b0 == [q |-> q, c |-> c]
             x == Asked(b0)
  <1>1. /\ BarAsk(st, e, q, Key(c)) /\ e.batch = st.batch \cup {b0}
        /\ e.subs = st.subs /\ e.resub = st.resub
        /\ e.routes = st.routes /\ e.unnumbered = st.unnumbered
    BY DEF AsksBatch
  <1>2. FreshIn(st, q)
    BY FreshNames
  <1>x. x.q = q /\ x.key = Key(c) /\ IsName(x) /\ b0.q = q /\ b0.c = c
    BY DEF Asked, IsName
  <1> HIDE DEF q, x, b0
  <1>3. /\ SameReading(st, e) /\ e.up = st.up /\ Grows(st.out, e.out, AskMsg(q, Key(c)))
        /\ e.refuses = st.refuses
    BY <1>1 DEF BarAsk, Barred, SameReading
  <1>4. BarAsks(e) = BarAsks(st) \cup {x}
    BY <1>1 DEF BarAsks, x
  <1>5. \A y \in BarAsks(st) \cup st.unnumbered : y.q # q
    BY <1>2 DEF FreshIn, BarAsks, AsksOf, Asked
  <1>6. BarNet(e)
    <2>1. Key(c).tick = FALSE
      BY BarRecordsAre
    <2>2. Net(FALSE, BarAsks(st), st.unnumbered, Held(st.subs), st)
      BY DEF BarSide, BarNet
    <2>3. /\ \A p \in AsksAt(st) : st.out[p].q # q
          /\ \A p \in Answers(st) : st.in[p].q # q
      BY <1>2, FreshOnTheWire
    <2>4. Net(FALSE, BarAsks(st) \cup {x}, st.unnumbered, Held(st.subs), e)
      BY <1>3, <1>5, <1>x, <2>1, <2>2, <2>3, NetAsks
    <2> QED
      BY <1>1, <1>4, <2>4 DEF BarNet
  <1>7. LedgerOf(e, {c})
    <2>1. Ledger(st.subs, st.routes, st.resub, st.batch, st.refuses, {})
      BY DEF BarSide, LedgerOf
    <2>2. NewNames(st.subs, e.batch)
      <3>1. \A i \in DOMAIN st.subs : st.subs[i].q # q
        BY <1>2 DEF FreshIn
      <3> QED
        BY <1>1, <1>x, <2>1, <3>1 DEF Ledger, NewNames
    <2>3. BatchKept(st.resub, e.batch, st.refuses, {c})
      BY <1>1, <1>x, <2>1 DEF Ledger, BatchKept
    <2> QED
      BY <1>1, <1>3, <2>1, <2>2, <2>3 DEF Ledger, LedgerOf
  <1>8. BarWaits(e)
    <2>1. \A y : InFlight(st, y) => InFlight(e, y)
      BY <1>3, FlightWrites
    <2> QED
      BY <1>1, <2>1 DEF BarSide, BarWaits
  <1>9. BatchFirst(e, {c})
    <2> SUFFICES ASSUME NEW b \in e.batch, NEW p \in AsksAt(e), b.c \notin {c}, e.out[p].q = b.q
                 PROVE  \E i \in DOMAIN e.subs : e.subs[i].c = b.c /\ Behind(e, p, e.subs[i].q)
      BY DEF BatchFirst
    <2>1. b \in st.batch
      BY <1>1, <1>x
    <2>2. b.q # q
      BY <1>2, <2>1 DEF FreshIn
    <2>3. p \in AsksAt(st) /\ Follows(st, e, p, p)
      BY <1>3, <2>2, FollowsWritten DEF AskMsg
    <2>4. st.out[p].q = b.q
      BY <2>3 DEF Follows
    <2>5. PICK i \in DOMAIN st.subs : st.subs[i].c = b.c /\ Behind(st, p, st.subs[i].q)
      BY <2>1, <2>3, <2>4 DEF BarSide, BatchFirst
    <2> QED
      BY <1>1, <2>3, <2>5 DEF Follows
  <1> QED
    BY <1>6, <1>7, <1>8, <1>9 DEF BarSide

-----------------------------------------------------------------------------
(* A table that has lost all but the places I of another. *)
ThinsBy(u, w, I, f) ==
  /\ \A k \in DOMAIN w : f[k] \in I /\ w[k] = u[f[k]]
  /\ \A j, k \in DOMAIN w : f[j] = f[k] => j = k
  /\ \A i \in I : \E k \in DOMAIN w : w[k] = u[i]
Thins(u, w, I) == \E f : ThinsBy(u, w, I, f)

LEMMA KeptThins ==
  ASSUME NEW S, NEW u, NEW w, NEW I, Kept(S, u, w, I)
  PROVE  Thins(u, w, I)
  <1>1. ThinsBy(u, w, I, Ascending(I))
    BY DEF Kept, ThinsBy
  <1> QED
    BY <1>1 DEF Thins

LEMMA SameThins ==
  ASSUME NEW u, NEW I, I = DOMAIN u
  PROVE  Thins(u, u, I)
  <1>1. ThinsBy(u, u, I, [k \in DOMAIN u |-> k])
    BY DEF ThinsBy
  <1> QED
    BY <1>1 DEF Thins

LEMMA ThinsFrom ==
  ASSUME NEW u, NEW w, NEW I, Thins(u, w, I)
  PROVE  /\ \A k \in DOMAIN w : \E i \in I : w[k] = u[i]
         /\ \A i \in I : \E k \in DOMAIN w : w[k] = u[i]
  BY DEF Thins, ThinsBy

(* What the list of requests to be asked for again keeps, and gains. *)
LEMMA KeptOnce ==
  ASSUME NEW u, NEW w, NEW I \in SUBSET (DOMAIN u), Thins(u, w, I), ResubOnce(u)
  PROVE  /\ ResubOnce(w)
         /\ \A c : InResub(w, c) <=> \E i \in I : u[i] = c
  <1>1. PICK f : ThinsBy(u, w, I, f)
    BY DEF Thins
  <1>2. ResubOnce(w)
    <2> SUFFICES ASSUME NEW j \in DOMAIN w, NEW k \in DOMAIN w, w[j] = w[k] PROVE j = k
      BY DEF ResubOnce
    <2>1. f[j] = f[k]
      BY <1>1 DEF ResubOnce, ThinsBy
    <2> QED
      BY <1>1, <2>1 DEF ThinsBy
  <1>3. ASSUME NEW c PROVE InResub(w, c) <=> \E i \in I : u[i] = c
    BY <1>1 DEF InResub, ThinsBy
  <1> QED
    BY <1>2, <1>3

LEMMA GrownOnce ==
  ASSUME NEW v, NEW w, NEW c, Grows(v, w, c), ResubOnce(v), \A k \in DOMAIN v : v[k] # c
  PROVE  /\ ResubOnce(w)
         /\ \A d : InResub(w, d) <=> InResub(v, d) \/ d = c
  <1>1. \A k \in DOMAIN w : (k \in DOMAIN v /\ w[k] = v[k]) \/ (w[k] = c /\ k = Len(v) + 1)
    BY DEF Grows
  <1>2. \A k \in DOMAIN v : k \in DOMAIN w /\ w[k] = v[k]
    BY DEF Grows
  <1>3. \E k \in DOMAIN w : w[k] = c
    BY DEF Grows
  <1>4. ResubOnce(w)
    BY <1>1 DEF ResubOnce
  <1>5. ASSUME NEW d PROVE InResub(w, d) <=> InResub(v, d) \/ d = c
    BY <1>1, <1>2, <1>3 DEF InResub
  <1> QED
    BY <1>4, <1>5

LEMMA AskedLast ==
  ASSUME NEW resub \in Seq(BarCallers), NEW c \in BarCallers, ResubOnce(resub), NEW w,
         w = Append(NotAsked(resub, {c}), c)
  PROVE  /\ ResubOnce(w)
         /\ \A d : InResub(w, d) <=> InResub(resub, d) \/ d = c
  <1> DEFINE v == NotAsked(resub, {c})
             I == {k \in DOMAIN resub : resub[k] \notin {c}}
  <1>1. I \in SUBSET (DOMAIN resub) /\ Kept(BarCallers, resub, v, I) /\ v \in Seq(BarCallers)
    BY NotAskedKeeps
  <1>2. \A k \in I : resub[k] # c
    OBVIOUS
  <1>3. \A k \in DOMAIN resub : resub[k] # c => k \in I
    OBVIOUS
  <1>d. w = Append(v, c)
    OBVIOUS
  <1> HIDE DEF v, I
  <1>4. Grows(v, w, c)
    BY <1>1, <1>d, AppendGrows
  <1>5. ResubOnce(v) /\ \A d : InResub(v, d) <=> \E i \in I : resub[i] = d
    BY <1>1, KeptThins, KeptOnce
  <1>6. \A d : InResub(v, d) <=> InResub(resub, d) /\ d # c
    BY <1>1, <1>2, <1>3, <1>5 DEF InResub
  <1>7. \A k \in DOMAIN v : v[k] # c
    BY <1>6 DEF InResub
  <1>8. ResubOnce(w) /\ \A d : InResub(w, d) <=> InResub(v, d) \/ d = c
    BY <1>4, <1>5, <1>7, GrownOnce, ZenonT(40)
  <1> QED
    BY <1>6, <1>8

(* A request that has no record gets one. *)
LEMMA LedgerGrows ==
  ASSUME NEW subs, NEW routes, NEW resub, NEW batch, NEW ref, NEW but, NEW c, NEW r,
         Ledger(subs, routes, resub, batch, ref, but), but \subseteq {c},
         \A i \in DOMAIN subs : subs[i].c # c,
         r.c = c, r.t = NoNumber, \A b \in batch : b.q # r.q,
         NEW subs2, Grows(subs, subs2, r),
         NEW resub2, ResubOnce(resub2),
         \A d : InResub(resub2, d) <=> InResub(resub, d) \/ d = c
  PROVE  Ledger(subs2, routes, resub2, batch, ref, {})
  <1>1. \A j \in DOMAIN subs2 : (j \in DOMAIN subs /\ subs2[j] = subs[j]) \/ subs2[j] = r
    BY DEF Grows
  <1>2. \A j \in DOMAIN subs : j \in DOMAIN subs2 /\ subs2[j] = subs[j]
    BY DEF Grows
  <1>3. \E j \in DOMAIN subs2 : subs2[j] = r
    BY DEF Grows
  <1>4. \A i, j \in DOMAIN subs2 : subs2[i] = r /\ subs2[j] = r => i = j
    BY <1>2 DEF Grows
  <1>5. Routed(subs2, routes)
    <2> SUFFICES ASSUME NEW i \in DOMAIN routes
                 PROVE  \E d \in BarCallers : RouteFor(routes[i], d, subs2)
      BY DEF Routed
    <2>1. PICK d \in BarCallers : RouteFor(routes[i], d, subs)
      BY DEF Ledger, Routed
    <2>2. d # c
      BY <2>1 DEF RouteFor
    <2>3. RouteFor(routes[i], d, subs2)
      BY <1>1, <1>2, <2>1, <2>2 DEF RouteFor
    <2> QED
      BY <2>3
  <1>6. NumberedRouted(subs2, routes)
    BY <1>1 DEF Ledger, NumberedRouted
  <1>7. WaitsAlone(subs2)
    <2> SUFFICES ASSUME NEW i \in DOMAIN subs2, NEW j \in DOMAIN subs2,
                        subs2[i].c = subs2[j].c, subs2[i].t = NoNumber
                 PROVE  i = j
      BY DEF WaitsAlone
    <2>1. CASE subs2[i].c = c
      <3>1. subs2[i] = r /\ subs2[j] = r
        BY <1>1, <2>1
      <3> QED
        BY <1>4, <3>1
    <2>2. CASE subs2[i].c # c
      <3>1. i \in DOMAIN subs /\ j \in DOMAIN subs /\ subs2[i] = subs[i] /\ subs2[j] = subs[j]
        BY <1>1, <2>2
      <3> QED
        BY <3>1 DEF Ledger, WaitsAlone
    <2> QED
      BY <2>1, <2>2
  <1>8. NewNames(subs2, batch)
    BY <1>1 DEF Ledger, NewNames
  <1>9. ResubHeld(subs2, resub2)
    <2> SUFFICES ASSUME NEW k \in DOMAIN resub2 PROVE \E j \in DOMAIN subs2 : subs2[j].c = resub2[k]
      BY DEF ResubHeld
    <2>1. InResub(resub, resub2[k]) \/ resub2[k] = c
      BY DEF InResub
    <2>2. CASE InResub(resub, resub2[k])
      BY <1>2, <2>2 DEF Ledger, ResubHeld, InResub
    <2> QED
      BY <1>3, <2>1, <2>2
  <1>10. SubsKept(subs2, resub2)
    BY <1>1 DEF Ledger, SubsKept
  <1>11. BatchKept(resub2, batch, ref, {})
    BY DEF Ledger, BatchKept
  <1> QED
    BY <1>5, <1>6, <1>7, <1>8, <1>9, <1>10, <1>11 DEF Ledger

(* A request asks for its stream. *)
LEMMA StreamAskedSide ==
  ASSUME NEW st, NEW e, NEW c \in BarCallers, NEW but, but \subseteq {c}, BarSide(st, but),
         st \in State, Finite(st), st.up, SubsOf(st, c) = {}, AsksBars(st, e, c)
  PROVE  BarSide(e, {})
  <1> DEFINE q == FreshName(st)
             r == [q |-> q, c |-> c, t |-> NoNumber]
             x == Asked(r)
  <1>1. /\ BarAsk(st, e, q, Key(c)) /\ e.subs = Append(st.subs, r)
        /\ e.resub = Append(NotAsked(st.resub, {c}), c)
        /\ e.routes = st.routes /\ e.unnumbered = st.unnumbered /\ e.batch = st.batch
    BY DEF AsksBars
  <1>2. FreshIn(st, q)
    BY FreshNames
  <1>x. x.q = q /\ x.key = Key(c) /\ IsName(x) /\ r.q = q /\ r.c = c /\ r.t = NoNumber
    BY DEF Asked, IsName
  <1>y. x = Asked(r)
    OBVIOUS
  <1> HIDE DEF q, x, r
  <1>3. /\ SameReading(st, e) /\ e.up = st.up /\ Grows(st.out, e.out, AskMsg(q, Key(c)))
        /\ e.refuses = st.refuses
    BY <1>1 DEF BarAsk, Barred, SameReading
  <1>s. st.subs \in Seq(BarRecords) /\ st.resub \in Seq(BarCallers)
    BY DEF State
  <1>g. Grows(st.subs, e.subs, r)
    BY <1>1, <1>s, AppendGrows
  <1>4. BarAsks(e) = BarAsks(st) \cup {x}
    <2>1. AsksOf(e.subs) = AsksOf(st.subs) \cup {x}
      BY <1>g, <1>y, GrownAsks
    <2> QED
      BY <1>1, <2>1 DEF BarAsks
  <1>h. Held(e.subs) = Held(st.subs)
    <2>1. Held(e.subs) \subseteq Held(st.subs)
      BY <1>g, <1>x, GrownHeld
    <2>2. \A i \in Numbered(st.subs) : i \in Numbered(e.subs) /\ e.subs[i] = st.subs[i]
      BY <1>g DEF Grows, Numbered
    <2>3. Held(st.subs) \subseteq Held(e.subs)
      BY <2>2 DEF Held
    <2> QED
      BY <2>1, <2>3
  <1>5. \A y \in BarAsks(st) \cup st.unnumbered : y.q # q
    BY <1>2 DEF FreshIn, BarAsks, AsksOf, Asked
  <1>6. BarNet(e)
    <2>1. Key(c).tick = FALSE
      BY BarRecordsAre
    <2>2. Net(FALSE, BarAsks(st), st.unnumbered, Held(st.subs), st)
      BY DEF BarSide, BarNet
    <2>3. /\ \A p \in AsksAt(st) : st.out[p].q # q
          /\ \A p \in Answers(st) : st.in[p].q # q
      BY <1>2, FreshOnTheWire
    <2>4. Net(FALSE, BarAsks(st) \cup {x}, st.unnumbered, Held(st.subs), e)
      BY <1>3, <1>5, <1>x, <2>1, <2>2, <2>3, NetAsks
    <2> QED
      BY <1>1, <1>4, <1>h, <2>4 DEF BarNet
  <1>7. LedgerOf(e, {})
    <2>1. Ledger(st.subs, st.routes, st.resub, st.batch, st.refuses, but)
      BY DEF BarSide, LedgerOf
    <2>2. ResubOnce(e.resub) /\ \A d : InResub(e.resub, d) <=> InResub(st.resub, d) \/ d = c
      <3>1. ResubOnce(st.resub) /\ e.resub = Append(NotAsked(st.resub, {c}), c)
        BY <1>1, <2>1 DEF Ledger
      <3> QED
        BY <1>s, <3>1, AskedLast
    <2>3. \A i \in DOMAIN st.subs : st.subs[i].c # c
      BY DEF SubsOf
    <2>4. \A b \in st.batch : b.q # r.q
      BY <1>2, <1>x DEF FreshIn
    <2>5. Ledger(e.subs, st.routes, e.resub, st.batch, st.refuses, {})
      BY <1>g, <1>x, <2>1, <2>2, <2>3, <2>4, LedgerGrows
    <2> QED
      BY <1>1, <1>3, <2>5 DEF LedgerOf
  <1>n. /\ \A j \in DOMAIN e.subs : (j \in DOMAIN st.subs /\ e.subs[j] = st.subs[j]) \/ e.subs[j] = r
        /\ \A j \in DOMAIN st.subs : j \in DOMAIN e.subs /\ e.subs[j] = st.subs[j]
        /\ \E j \in DOMAIN e.subs : e.subs[j] = r
    BY <1>g DEF Grows
  <1>8. BarWaits(e)
    <2>1. \A y : InFlight(e, y) <=> InFlight(st, y) \/ Name(AskMsg(q, Key(c))) = y
      BY <1>3, FlightWrites DEF AskMsg
    <2>2. Name(AskMsg(q, Key(c))) = x
      BY <1>x DEF Name, AskMsg, IsName
    <2> QED
      BY <1>3, <1>n, <1>y, <2>1, <2>2 DEF BarSide, BarWaits
  <1>9. BatchFirst(e, {})
    <2> SUFFICES ASSUME NEW b \in e.batch, NEW p \in AsksAt(e), e.out[p].q = b.q
                 PROVE  \E i \in DOMAIN e.subs : e.subs[i].c = b.c /\ Behind(e, p, e.subs[i].q)
      BY DEF BatchFirst
    <2>1. b \in st.batch
      BY <1>1
    <2>2. b.q # q
      BY <1>2, <2>1 DEF FreshIn
    <2>3. p \in AsksAt(st) /\ Follows(st, e, p, p)
      BY <1>3, <2>2, FollowsWritten DEF AskMsg
    <2>4. CASE b.c = c
      <3>1. OutGrew(st, e, AskMsg(q, Key(c)))
        BY <1>3, Written
      <3>2. /\ p < Len(st.out) + 1 /\ Len(st.out) + 1 \in AsksAt(e)
            /\ e.out[Len(st.out) + 1] = AskMsg(q, Key(c)) /\ Len(st.out) \in Nat
        BY <2>3, <3>1 DEF OutGrew, AskMsg
      <3>3. p \in Nat
        BY <1>3, <2>3 DEF AsksAt, Grows
      <3>4. Behind(e, p, q)
        BY <3>2, <3>3 DEF Behind, AskMsg
      <3> QED
        BY <1>n, <1>x, <2>4, <3>4
    <2>5. CASE b.c # c
      <3>1. st.out[p].q = b.q /\ b.c \notin but
        BY <2>3, <2>5 DEF Follows
      <3>2. PICK i \in DOMAIN st.subs : st.subs[i].c = b.c /\ Behind(st, p, st.subs[i].q)
        BY <2>1, <2>3, <3>1 DEF BarSide, BatchFirst
      <3> QED
        BY <1>n, <2>3, <3>2 DEF Follows
    <2> QED
      BY <2>4, <2>5
  <1> QED
    BY <1>6, <1>7, <1>8, <1>9 DEF BarSide

-----------------------------------------------------------------------------
(* The places of what is left of the requests of K. *)
OthersIn(subs, K) == {i \in DOMAIN subs : subs[i].c \notin K}
RoutesOther(routes, K) == {i \in DOMAIN routes : \A c \in K : c \notin routes[i].readers}
ResubOther(resub, K) == {k \in DOMAIN resub : resub[k] \notin K}

LEMMA RoutedLess ==
  ASSUME NEW subs, NEW subs2, NEW routes, NEW routes2, NEW K,
         Routed(subs, routes), OneRouteEach(routes), NumberedRouted(subs, routes),
         Thins(subs, subs2, OthersIn(subs, K)), Thins(routes, routes2, RoutesOther(routes, K))
  PROVE  Routed(subs2, routes2) /\ OneRouteEach(routes2) /\ NumberedRouted(subs2, routes2)
  <1> DEFINE I == OthersIn(subs, K)
             J == RoutesOther(routes, K)
  <1>1. I \in SUBSET (DOMAIN subs) /\ \A i \in DOMAIN subs : i \in I <=> subs[i].c \notin K
    BY DEF OthersIn
  <1>2. /\ J \in SUBSET (DOMAIN routes)
        /\ \A i \in DOMAIN routes : i \in J <=> \A c \in K : c \notin routes[i].readers
    BY DEF RoutesOther
  <1>k. Thins(subs, subs2, I) /\ Thins(routes, routes2, J)
    OBVIOUS
  <1> HIDE DEF I, J
  <1>3. /\ \A k \in DOMAIN subs2 : \E i \in I : subs2[k] = subs[i]
        /\ \A i \in I : \E k \in DOMAIN subs2 : subs2[k] = subs[i]
    BY <1>1, <1>k, ThinsFrom
  <1>4. /\ \A k \in DOMAIN routes2 : \E i \in J : routes2[k] = routes[i]
        /\ \A i \in J : \E k \in DOMAIN routes2 : routes2[k] = routes[i]
    BY <1>2, <1>k, ThinsFrom
  <1>5. Routed(subs2, routes2)
    <2> SUFFICES ASSUME NEW k \in DOMAIN routes2
                 PROVE  \E c \in BarCallers : RouteFor(routes2[k], c, subs2)
      BY DEF Routed
    <2>1. PICK i \in J : routes2[k] = routes[i]
      BY <1>4
    <2>2. PICK c \in BarCallers : RouteFor(routes[i], c, subs)
      BY <1>2, <2>1 DEF Routed
    <2>3. c \notin K
      BY <1>2, <2>2 DEF RouteFor
    <2>4. \E j \in DOMAIN subs2 : subs2[j].c = c
      <3>1. PICK j \in DOMAIN subs : subs[j].c = c
        BY <2>2 DEF RouteFor
      <3> QED
        BY <1>1, <1>3, <2>3, <3>1
    <2>5. \A j \in DOMAIN subs2 : subs2[j].c = c => subs2[j].t = routes[i].t
      BY <1>1, <1>3, <2>2 DEF RouteFor
    <2>6. RouteFor(routes2[k], c, subs2)
      BY <2>1, <2>2, <2>4, <2>5 DEF RouteFor
    <2> QED
      BY <2>6
  <1>6. OneRouteEach(routes2)
    <2> SUFFICES ASSUME NEW j \in DOMAIN routes2, NEW k \in DOMAIN routes2,
                        routes2[j].readers = routes2[k].readers
                 PROVE  j = k
      BY DEF OneRouteEach
    <2>1. PICK f : ThinsBy(routes, routes2, J, f)
      BY <1>k DEF Thins
    <2>2. f[j] \in J /\ routes2[j] = routes[f[j]] /\ f[k] \in J /\ routes2[k] = routes[f[k]]
      BY <2>1 DEF ThinsBy
    <2>3. f[j] = f[k]
      BY <1>2, <2>2 DEF OneRouteEach
    <2> QED
      BY <2>1, <2>3 DEF ThinsBy
  <1>7. NumberedRouted(subs2, routes2)
    <2> SUFFICES ASSUME NEW k \in DOMAIN subs2, subs2[k].t # NoNumber
                 PROVE  \E i \in DOMAIN routes2 : subs2[k].c \in routes2[i].readers
      BY DEF NumberedRouted
    <2>1. PICK j \in I : subs2[k] = subs[j]
      BY <1>3
    <2>2. PICK i \in DOMAIN routes : subs[j].c \in routes[i].readers
      BY <1>1, <2>1 DEF NumberedRouted
    <2>3. PICK c \in BarCallers : RouteFor(routes[i], c, subs)
      BY DEF Routed
    <2>4. i \in J
      BY <1>1, <1>2, <2>1, <2>2, <2>3 DEF RouteFor
    <2> QED
      BY <1>4, <2>1, <2>2, <2>4
  <1> QED
    BY <1>5, <1>6, <1>7

(* The requests of K leave. *)
LEMMA LedgerLess ==
  ASSUME NEW subs, NEW routes, NEW resub, NEW batch, NEW ref, NEW K,
         Ledger(subs, routes, resub, batch, ref, {}),
         NEW subs2, NEW routes2, NEW resub2, NEW batch2,
         Thins(subs, subs2, OthersIn(subs, K)), Thins(routes, routes2, RoutesOther(routes, K)),
         Thins(resub, resub2, ResubOther(resub, K)),
         batch2 \subseteq batch, \A b \in batch2 : b.c \in K => Key(b.c) \in ref
  PROVE  Ledger(subs2, routes2, resub2, batch2, ref, {})
  <1> DEFINE I == OthersIn(subs, K)
             J == ResubOther(resub, K)
  <1>1. I \in SUBSET (DOMAIN subs) /\ \A i \in DOMAIN subs : i \in I <=> subs[i].c \notin K
    BY DEF OthersIn
  <1>2. J \in SUBSET (DOMAIN resub) /\ \A i \in DOMAIN resub : i \in J <=> resub[i] \notin K
    BY DEF ResubOther
  <1>k. Thins(subs, subs2, I) /\ Thins(resub, resub2, J)
    OBVIOUS
  <1>l. /\ Routed(subs, routes) /\ OneRouteEach(routes) /\ NumberedRouted(subs, routes)
        /\ WaitsAlone(subs) /\ NewNames(subs, batch)
        /\ ResubOnce(resub) /\ ResubHeld(subs, resub) /\ SubsKept(subs, resub)
        /\ BatchKept(resub, batch, ref, {})
    BY DEF Ledger
  <1>0. Routed(subs2, routes2) /\ OneRouteEach(routes2) /\ NumberedRouted(subs2, routes2)
    BY <1>l, RoutedLess
  <1> HIDE DEF I, J
  <1>3. /\ \A k \in DOMAIN subs2 : \E i \in I : subs2[k] = subs[i]
        /\ \A i \in I : \E k \in DOMAIN subs2 : subs2[k] = subs[i]
    BY <1>1, <1>k, ThinsFrom
  <1>4. ResubOnce(resub2) /\ \A c : InResub(resub2, c) <=> \E i \in J : resub[i] = c
    BY <1>2, <1>k, <1>l, KeptOnce
  <1>5. \A c : InResub(resub2, c) <=> InResub(resub, c) /\ c \notin K
    BY <1>2, <1>4 DEF InResub
  <1>6. WaitsAlone(subs2)
    <2> SUFFICES ASSUME NEW j \in DOMAIN subs2, NEW k \in DOMAIN subs2,
                        subs2[j].c = subs2[k].c, subs2[j].t = NoNumber
                 PROVE  j = k
      BY DEF WaitsAlone
    <2>1. PICK f : ThinsBy(subs, subs2, I, f)
      BY <1>k DEF Thins
    <2>2. f[j] \in I /\ subs2[j] = subs[f[j]] /\ f[k] \in I /\ subs2[k] = subs[f[k]]
      BY <2>1 DEF ThinsBy
    <2>3. f[j] = f[k]
      BY <1>1, <1>l, <2>2 DEF WaitsAlone
    <2> QED
      BY <2>1, <2>3 DEF ThinsBy
  <1>7. NewNames(subs2, batch2)
    BY <1>1, <1>3, <1>l DEF NewNames
  <1>8. ResubHeld(subs2, resub2)
    <2> SUFFICES ASSUME NEW k \in DOMAIN resub2 PROVE \E j \in DOMAIN subs2 : subs2[j].c = resub2[k]
      BY DEF ResubHeld
    <2>1. InResub(resub, resub2[k]) /\ resub2[k] \notin K
      BY <1>5 DEF InResub
    <2>2. PICK j \in DOMAIN subs : subs[j].c = resub2[k]
      BY <1>l, <2>1 DEF ResubHeld, InResub
    <2> QED
      BY <1>1, <1>3, <2>1, <2>2
  <1>9. SubsKept(subs2, resub2)
    <2> SUFFICES ASSUME NEW k \in DOMAIN subs2 PROVE InResub(resub2, subs2[k].c)
      BY DEF SubsKept
    <2>1. PICK i \in I : subs2[k] = subs[i]
      BY <1>3
    <2> QED
      BY <1>1, <1>5, <1>l, <2>1 DEF SubsKept
  <1>10. BatchKept(resub2, batch2, ref, {})
    BY <1>5, <1>l DEF BatchKept
  <1> QED
    BY <1>0, <1>4, <1>6, <1>7, <1>8, <1>9, <1>10 DEF Ledger

-----------------------------------------------------------------------------
(* What the tables are without the requests of K. *)
LEMMA LessSubs ==
  ASSUME NEW subs \in Seq(BarRecords), NEW K
  PROVE  Thins(subs, NotOf(subs, K), OthersIn(subs, K))
  BY NotOfKeeps, KeptThins DEF OthersIn

LEMMA LessResub ==
  ASSUME NEW resub \in Seq(BarCallers), NEW K
  PROVE  Thins(resub, NotAsked(resub, K), ResubOther(resub, K))
  BY NotAskedKeeps, KeptThins DEF ResubOther

LEMMA LessRoutes ==
  ASSUME NEW subs, NEW routes \in Seq(Routes), NEW K, Routed(subs, routes)
  PROVE  Thins(routes, Without(routes, K), RoutesOther(routes, K))
  <1> DEFINE w == [i \in DOMAIN routes |-> [routes[i] EXCEPT !.readers = @ \ K]]
             I == {i \in DOMAIN w : w[i].readers # {}}
             J == RoutesOther(routes, K)
  <1>1. \A i \in DOMAIN routes : routes[i] \in Routes /\ DOMAIN w = DOMAIN routes
    OBVIOUS
  <1>2. \A i \in DOMAIN routes : w[i] \in Routing /\ w[i].readers = routes[i].readers \ K
    <2> SUFFICES ASSUME NEW i \in DOMAIN routes
                 PROVE  w[i] \in Routing /\ w[i].readers = routes[i].readers \ K
      OBVIOUS
    <2>1. routes[i] \in Routes
      OBVIOUS
    <2> QED
      BY <2>1 DEF Routes, Routing
  <1>3. w \in Seq(Routing)
    <2>1. Len(routes) \in Nat /\ DOMAIN routes = 1 .. Len(routes)
      OBVIOUS
    <2>2. w = [i \in 1 .. Len(routes) |-> w[i]] /\ \A i \in 1 .. Len(routes) : w[i] \in Routing
      BY <1>2, <2>1
    <2> HIDE DEF w
    <2> QED
      BY <2>1, <2>2, SeqByPoints
  <1>4. Without(routes, K) = WithReaders(w)
    BY DEF Without
  <1>5. \A i \in DOMAIN routes : \E c : routes[i].readers = {c}
    BY DEF Routed, RouteFor
  <1>6. I = J
    <2> SUFFICES ASSUME NEW i \in DOMAIN routes
                 PROVE  w[i].readers # {} <=> \A c \in K : c \notin routes[i].readers
      BY DEF RoutesOther
    <2>1. PICK c : routes[i].readers = {c}
      BY <1>5
    <2>2. w[i].readers = {c} \ K
      BY <1>2, <2>1
    <2> HIDE DEF w
    <2> QED
      BY <2>1, <2>2
  <1>7. \A i \in J : w[i] = routes[i]
    <2> SUFFICES ASSUME NEW i \in J PROVE w[i] = routes[i]
      OBVIOUS
    <2>1. i \in DOMAIN routes /\ routes[i] \in Routes /\ routes[i].readers \ K = routes[i].readers
      BY DEF RoutesOther
    <2> QED
      BY <2>1 DEF Routes
  <1>8. I \in SUBSET (DOMAIN w) /\ Kept(Routing, w, WithReaders(w), I)
    BY <1>3, WithReadersKeeps
  <1> HIDE DEF w, I, J
  <1>9. ThinsBy(routes, WithReaders(w), J, Ascending(J))
    BY <1>6, <1>7, <1>8 DEF Kept, ThinsBy
  <1> QED
    BY <1>4, <1>9 DEF J, Thins

LEMMA LessRoute ==
  ASSUME NEW routes \in Seq(Routes), NEW at \in DOMAIN routes, NEW c, NEW subs,
         Routed(subs, routes), OneRouteEach(routes), c \in routes[at].readers
  PROVE  /\ routes[at].readers = {c} /\ routes[at].t # NoNumber
         /\ Thins(routes, Drop(routes, at), RoutesOther(routes, {c}))
  <1>1. \A i \in DOMAIN routes : \E d : routes[i].readers = {d} /\ routes[i].t # NoNumber
    BY DEF Routed, RouteFor
  <1>2. routes[at].readers = {c} /\ routes[at].t # NoNumber
    BY <1>1
  <1>3. \A i \in DOMAIN routes : c \in routes[i].readers => i = at
    <2> SUFFICES ASSUME NEW i \in DOMAIN routes, c \in routes[i].readers PROVE i = at
      OBVIOUS
    <2>1. PICK d : routes[i].readers = {d}
      BY <1>1
    <2>2. routes[i].readers = routes[at].readers
      BY <1>2, <2>1
    <2> QED
      BY <2>2 DEF OneRouteEach
  <1>4. DOMAIN routes \ {at} = RoutesOther(routes, {c})
    BY <1>2, <1>3 DEF RoutesOther
  <1>5. Kept(Routes, routes, Drop(routes, at), DOMAIN routes \ {at})
    BY DropKeeps
  <1> QED
    BY <1>2, <1>4, <1>5, KeptThins

-----------------------------------------------------------------------------
(* A request has gone from the tables. *)
LeftTables(st, e, c) ==
  /\ SameReading(st, e) /\ e.up = st.up /\ e.batch = {b \in st.batch : b.c # c}
  /\ Thins(st.subs, e.subs, OthersIn(st.subs, {c}))
  /\ Thins(st.routes, e.routes, RoutesOther(st.routes, {c}))
  /\ Thins(st.resub, e.resub, ResubOther(st.resub, {c}))
(* It had no record; it had a number; or its only record waited for one. *)
LeftBare(st, e, c) ==
  /\ \A i \in DOMAIN st.subs : st.subs[i].c # c
  /\ e.out = st.out /\ e.unnumbered = st.unnumbered
LeftNumbered(st, e, c, t) ==
  /\ [key |-> Key(c), t |-> t] \in Held(st.subs)
  /\ Wrote(st, e, CancelMsg(FALSE, t)) /\ e.unnumbered = st.unnumbered
LeftWaiting(st, e, c, i) ==
  /\ st.subs[i].c = c /\ st.subs[i].t = NoNumber /\ \A j \in DOMAIN st.subs : st.subs[j].c = c => j = i
  /\ e.out = st.out /\ e.unnumbered = st.unnumbered \cup {Asked(st.subs[i])}
Left(st, e, c) ==
  /\ LeftTables(st, e, c)
  /\ \/ LeftBare(st, e, c)
     \/ \E t : LeftNumbered(st, e, c, t)
     \/ \E i \in DOMAIN st.subs : LeftWaiting(st, e, c, i)

(* The names and numbers of the tables a request has left. *)
LEMMA LeftNames ==
  ASSUME NEW st, st \in State, NEW e, NEW c \in BarCallers, Apart, LeftTables(st, e, c)
  PROVE  /\ BarAsks(e) \subseteq BarAsks(st)
         /\ \A y \in BarAsks(st) : y \in BarAsks(e) <=> y.key # Key(c)
         /\ Held(e.subs) \subseteq Held(st.subs) /\ Backed(BarAsks(e), Held(e.subs))
  <1>1. /\ \A k \in DOMAIN e.subs : \E i \in OthersIn(st.subs, {c}) : e.subs[k] = st.subs[i]
        /\ \A i \in OthersIn(st.subs, {c}) : \E k \in DOMAIN e.subs : e.subs[k] = st.subs[i]
    <2>1. Thins(st.subs, e.subs, OthersIn(st.subs, {c}))
      BY DEF LeftTables
    <2> DEFINE I == OthersIn(st.subs, {c})
    <2> HIDE DEF I
    <2>2. Thins(st.subs, e.subs, I)
      BY <2>1 DEF I
    <2>3. /\ \A k \in DOMAIN e.subs : \E i \in I : e.subs[k] = st.subs[i]
          /\ \A i \in I : \E k \in DOMAIN e.subs : e.subs[k] = st.subs[i]
      BY <2>2, ThinsFrom
    <2> QED
      BY <2>3 DEF I
  <1>2. \A i \in DOMAIN st.subs : i \in OthersIn(st.subs, {c}) <=> Key(st.subs[i].c) # Key(c)
    <2> SUFFICES ASSUME NEW i \in DOMAIN st.subs
                 PROVE  i \in OthersIn(st.subs, {c}) <=> Key(st.subs[i].c) # Key(c)
      OBVIOUS
    <2>1. st.subs[i].c \in BarCallers
      BY BarRecordsAre
    <2>2. Key(st.subs[i].c) = Key(c) <=> st.subs[i].c = c
      BY <2>1, ApartIs
    <2> QED
      BY <2>2 DEF OthersIn
  <1>3. OthersIn(st.subs, {c}) \subseteq DOMAIN st.subs
    BY DEF OthersIn
  <1>4. \A b \in st.batch : b \in e.batch <=> Key(b.c) # Key(c)
    BY ApartIs, BarRecordsAre DEF LeftTables
  <1>5. e.batch \subseteq st.batch
    BY DEF LeftTables
  <1>6. AsksOf(e.subs) \subseteq AsksOf(st.subs)
    BY <1>1, <1>3 DEF AsksOf
  <1>7. \A y \in AsksOf(st.subs) : y.key # Key(c) => y \in AsksOf(e.subs)
    <2> SUFFICES ASSUME NEW i \in DOMAIN st.subs, Asked(st.subs[i]).key # Key(c)
                 PROVE  Asked(st.subs[i]) \in AsksOf(e.subs)
      BY DEF AsksOf
    <2>1. PICK k \in DOMAIN e.subs : e.subs[k] = st.subs[i]
      BY <1>1, <1>2 DEF Asked
    <2> QED
      BY <2>1 DEF AsksOf
  <1>8. \A y \in AsksOf(e.subs) : y.key # Key(c)
    <2> SUFFICES ASSUME NEW k \in DOMAIN e.subs PROVE Asked(e.subs[k]).key # Key(c)
      BY DEF AsksOf
    <2>1. PICK i \in OthersIn(st.subs, {c}) : e.subs[k] = st.subs[i]
      BY <1>1
    <2> QED
      BY <1>2, <1>3, <2>1 DEF Asked
  <1>9. \A b \in st.batch : Asked(b).key = Key(b.c)
    BY DEF Asked
  <1>10. BarAsks(e) \subseteq BarAsks(st)
    BY <1>5, <1>6 DEF BarAsks
  <1>11. ASSUME NEW y \in BarAsks(st) PROVE y \in BarAsks(e) <=> y.key # Key(c)
    <2>1. CASE y \in AsksOf(st.subs)
      <3>1. ASSUME y \in BarAsks(e) PROVE y.key # Key(c)
        BY <1>4, <1>5, <1>8, <1>9, <3>1 DEF BarAsks
      <3> QED
        BY <1>7, <2>1, <3>1 DEF BarAsks
    <2>2. CASE y \in {Asked(b) : b \in st.batch}
      <3>1. ASSUME y \in BarAsks(e) PROVE y.key # Key(c)
        BY <1>4, <1>5, <1>8, <1>9, <3>1 DEF BarAsks
      <3> QED
        BY <1>4, <1>9, <2>2, <3>1 DEF BarAsks
    <2> QED
      BY <1>11, <2>1, <2>2 DEF BarAsks
  <1>12. Held(e.subs) \subseteq Held(st.subs)
    BY <1>1, <1>3 DEF Held, Numbered
  <1>13. Backed(BarAsks(e), Held(e.subs))
    <2>1. Backed(AsksOf(e.subs), Held(e.subs))
      BY TablesBacked
    <2> QED
      BY <2>1 DEF Backed, BarAsks
  <1> QED
    BY <1>10, <1>11, <1>12, <1>13

(* The asks of a request's batch are ahead of its stream's. *)
LEMMA BatchIsAhead ==
  ASSUME NEW st, st \in State, NEW c \in BarCallers, Apart, BarNet(st), BatchFirst(st, {}),
         NEW i \in DOMAIN st.subs, st.subs[i].c = c,
         \A j \in DOMAIN st.subs : st.subs[j].c = c => j = i,
         NEW p \in AsksAt(st), Name(st.out[p]) \in BarAsks(st), Name(st.out[p]).key = Key(c),
         Name(st.out[p]) # Asked(st.subs[i])
  PROVE  \E r \in AsksAt(st) : r > p /\ Name(st.out[r]) = Asked(st.subs[i])
  <1>1. Name(st.out[p]).q = st.out[p].q
    BY DEF Name
  <1>2. \A j \in DOMAIN st.subs : Key(st.subs[j].c) = Key(c) => j = i
    BY ApartIs, BarRecordsAre
  <1>3. \A j \in DOMAIN st.subs : Asked(st.subs[j]) # Name(st.out[p])
    BY <1>2 DEF Asked
  <1>4. PICK b \in st.batch : Name(st.out[p]) = Asked(b)
    BY <1>3 DEF BarAsks, AsksOf
  <1>5. b.c = c /\ st.out[p].q = b.q
    <2>1. Asked(b).key = Key(b.c) /\ Asked(b).q = b.q
      BY DEF Asked
    <2> QED
      BY <1>1, <1>4, <2>1, ApartIs, BarRecordsAre
  <1>6. PICK j \in DOMAIN st.subs : st.subs[j].c = c /\ Behind(st, p, st.subs[j].q)
    BY <1>5 DEF BatchFirst
  <1>7. PICK r \in AsksAt(st) : r > p /\ st.out[r].q = st.subs[i].q
    BY <1>6 DEF Behind
  <1>8. Asked(st.subs[i]) \in BarAsks(st) /\ IsName(Asked(st.subs[i])) /\ Asked(st.subs[i]).q = st.subs[i].q
    BY AskedNames DEF BarAsks
  <1>9. st.out[r].key = Asked(st.subs[i]).key
    BY <1>7, <1>8 DEF BarNet, Net, Matched
  <1>10. Name(st.out[r]) = Asked(st.subs[i])
    BY <1>7, <1>8, <1>9 DEF Name, IsName
  <1> QED
    BY <1>7, <1>10

LEMMA LeftNet ==
  ASSUME NEW st, st \in State, NEW e, NEW c \in BarCallers, Apart, BarSide(st, {}), Wire(st),
         Left(st, e, c)
  PROVE  BarNet(e)
  <1> DEFINE I == BarAsks(st)
             J == BarAsks(e)
             H == Held(st.subs)
             G == Held(e.subs)
  <1>1. LeftTables(st, e, c) /\ SameReading(st, e) /\ e.up = st.up
    BY DEF Left, LeftTables
  <1>2. J \subseteq I /\ (\A y \in I : y \in J <=> y.key # Key(c)) /\ G \subseteq H /\ Backed(J, G)
    BY <1>1, LeftNames
  <1>3. Net(FALSE, I, st.unnumbered, H, st)
    BY DEF BarSide, BarNet
  <1>4. OneNameEach(st) /\ RunsOnce(st) /\ ReadsTrue(st) /\ DownIsEmpty(st)
    BY DEF Wire
  <1>5. Net(FALSE, J, e.unnumbered, G, e) => BarNet(e)
    BY DEF BarNet
  <1> HIDE DEF I, J, H, G
  <1>6. CASE LeftBare(st, e, c)
    <2>1. SameWriting(st, e) /\ e.unnumbered = st.unnumbered
      BY <1>1, <1>6 DEF LeftBare, SameWriting
    <2>2. \A y \in I \ J : y.key \in st.refuses
      <3> SUFFICES ASSUME NEW y \in I \ J PROVE y.key \in st.refuses
        OBVIOUS
      <3>1. y.key = Key(c)
        BY <1>2
      <3>2. \A i \in DOMAIN st.subs : Key(st.subs[i].c) # Key(c)
        BY <1>6, ApartIs, BarRecordsAre DEF LeftBare
      <3>3. PICK b \in st.batch : y = Asked(b)
        BY <3>1, <3>2 DEF I, BarAsks, AsksOf, Asked
      <3>4. b.c = c
        BY <3>1, <3>3, ApartIs, BarRecordsAre DEF Asked
      <3>5. ~InResub(st.resub, c)
        BY <1>6 DEF LeftBare, BarSide, LedgerOf, Ledger, ResubHeld, InResub
      <3> QED
        BY <3>1, <3>4, <3>5 DEF BarSide, LedgerOf, Ledger, BatchKept
    <2> QED
      BY <1>1, <1>2, <1>3, <1>4, <1>5, <2>1, <2>2, NetForgets
  <1>7. ASSUME NEW t, LeftNumbered(st, e, c, t) PROVE BarNet(e)
    <2>1. e.unnumbered = st.unnumbered /\ [key |-> Key(c), t |-> t] \in H
      BY <1>7 DEF LeftNumbered, H
    <2>2. CASE st.up
      <3>1. Grows(st.out, e.out, CancelMsg(FALSE, t)) /\ e.up
        BY <1>1, <1>7, <2>2 DEF LeftNumbered, Wrote
      <3>2. LastOf(I, J, H, Key(c), t)
        BY <1>2, <2>1 DEF LastOf
      <3> QED
        BY <1>1, <1>2, <1>3, <1>4, <1>5, <2>1, <2>2, <3>1, <3>2, NetStops
    <2>3. CASE ~st.up
      <3>1. SameWriting(st, e)
        BY <1>1, <1>7, <2>3 DEF LeftNumbered, Wrote, SameWriting
      <3> QED
        BY <1>1, <1>2, <1>3, <1>4, <1>5, <2>1, <2>3, <3>1, NetForgets
    <2> QED
      BY <2>2, <2>3
  <1>8. ASSUME NEW i \in DOMAIN st.subs, LeftWaiting(st, e, c, i) PROVE BarNet(e)
    <2> DEFINE x == Asked(st.subs[i])
    <2>1. /\ SameWriting(st, e) /\ e.unnumbered = st.unnumbered \cup {x}
          /\ st.subs[i].c = c /\ st.subs[i].t = NoNumber
          /\ \A j \in DOMAIN st.subs : st.subs[j].c = c => j = i
      BY <1>1, <1>8 DEF LeftWaiting, SameWriting
    <2>2. x \in I /\ x.key = Key(c)
      BY <2>1, AskedNames DEF I, BarAsks
    <2>3. x \notin J /\ \A y \in I \ J : y.key = x.key
      BY <1>2, <2>2
    <2>4. st.up => InFlight(st, x)
      BY <2>1 DEF BarSide, BarWaits
    <2>5. ASSUME NEW p \in AsksAt(st), Name(st.out[p]) \in I \ J /\ Name(st.out[p]) # x
          PROVE  \E r \in AsksAt(st) : r > p /\ Name(st.out[r]) = x
      <3>1. Name(st.out[p]).key = Key(c)
        BY <1>2, <2>5
      <3>2. BarNet(st) /\ BatchFirst(st, {})
        BY DEF BarSide
      <3> QED
        BY <2>1, <2>5, <3>1, <3>2, BatchIsAhead DEF I
    <2> HIDE DEF x
    <2>6. Net(FALSE, J, st.unnumbered \cup {x}, G, e)
      BY <1>1, <1>2, <1>3, <1>4, <2>1, <2>2, <2>3, <2>4, <2>5, NetLeaves
    <2> QED
      BY <1>5, <2>1, <2>6
  <1> QED
    BY <1>6, <1>7, <1>8 DEF Left

LEMMA LeftSide ==
  ASSUME NEW st, st \in State, NEW e, NEW c \in BarCallers, Apart, BarSide(st, {}), Wire(st),
         Left(st, e, c)
  PROVE  BarSide(e, {})
  <1>1. BarNet(e)
    BY LeftNet
  <1>2. LeftTables(st, e, c) /\ SameReading(st, e) /\ e.up = st.up /\ e.refuses = st.refuses
        /\ e.batch = {b \in st.batch : b.c # c}
    BY DEF Left, LeftTables, SameReading
  <1>3. LedgerOf(e, {})
    <2>1. Ledger(st.subs, st.routes, st.resub, st.batch, st.refuses, {})
      BY DEF BarSide, LedgerOf
    <2>2. /\ e.batch \subseteq st.batch /\ \A b \in e.batch : b.c \in {c} => Key(b.c) \in st.refuses
      BY <1>2
    <2>3. Ledger(e.subs, e.routes, e.resub, e.batch, st.refuses, {})
      BY <1>2, <2>1, <2>2, LedgerLess DEF LeftTables
    <2> QED
      BY <1>2, <2>3 DEF LedgerOf
  <1>4. e.out = st.out \/ \E t : Grows(st.out, e.out, CancelMsg(FALSE, t))
    BY DEF Left, LeftBare, LeftNumbered, LeftWaiting, Wrote
  <1>5. \A x : InFlight(st, x) => InFlight(e, x)
    <2>1. CASE e.out = st.out
      BY <1>2, <2>1, FlightStays DEF SameWriting
    <2>2. CASE \E t : Grows(st.out, e.out, CancelMsg(FALSE, t))
      BY <1>2, <2>2, FlightWrites
    <2> QED
      BY <1>4, <2>1, <2>2
  <1>6. \A p \in AsksAt(e) : p \in AsksAt(st) /\ Follows(st, e, p, p)
    <2>1. CASE e.out = st.out
      BY <2>1, FollowsSame
    <2>2. CASE \E t : Grows(st.out, e.out, CancelMsg(FALSE, t))
      BY <2>2, FollowsWritten DEF CancelMsg
    <2> QED
      BY <1>4, <2>1, <2>2
  <1>7. /\ \A k \in DOMAIN e.subs : \E i \in OthersIn(st.subs, {c}) : e.subs[k] = st.subs[i]
        /\ \A i \in OthersIn(st.subs, {c}) : \E k \in DOMAIN e.subs : e.subs[k] = st.subs[i]
    <2>1. Thins(st.subs, e.subs, OthersIn(st.subs, {c}))
      BY <1>2 DEF LeftTables
    <2> QED
      BY <2>1, ThinsFrom, SMTT(30)
  <1>8. BarWaits(e)
    <2> SUFFICES ASSUME e.up, NEW k \in DOMAIN e.subs, e.subs[k].t = NoNumber
                 PROVE  InFlight(e, Asked(e.subs[k]))
      BY DEF BarWaits
    <2>1. PICK i \in DOMAIN st.subs : e.subs[k] = st.subs[i]
      BY <1>7 DEF OthersIn
    <2>2. InFlight(st, Asked(st.subs[i]))
      BY <1>2, <2>1 DEF BarSide, BarWaits
    <2> QED
      BY <1>5, <2>1, <2>2
  <1>9. BatchFirst(e, {})
    <2>1. e.batch \subseteq st.batch /\ BatchFirst(st, {})
      BY <1>2 DEF BarSide
    <2>2. \A b \in e.batch : \A i \in DOMAIN st.subs : st.subs[i].c = b.c =>
            \E j \in DOMAIN e.subs : e.subs[j].c = b.c /\ e.subs[j].q = st.subs[i].q
      BY <1>2, <1>7 DEF OthersIn
    <2> QED
      BY <1>6, <2>1, <2>2, FirstStays
  <1> QED
    BY <1>1, <1>3, <1>8, <1>9 DEF BarSide

-----------------------------------------------------------------------------
LEMMA TablesTwice ==
  ASSUME NEW st, NEW u, NEW e, NEW s1, NEW r1, NEW a1, NEW n1, NEW b1,
         NEW s2, NEW r2, NEW a2, NEW n2, NEW b2,
         BarTables(st, u, s1, r1, a1, n1, b1), BarTables(u, e, s2, r2, a2, n2, b2)
  PROVE  BarTables(st, e, s2, r2, a2, n2, b2)
  BY BarredTwice DEF BarTables

(* What is left of the routes by a request that has none. *)
LEMMA NoRoute ==
  ASSUME NEW subs, NEW routes, NEW c, Routed(subs, routes), \A i \in DOMAIN subs : subs[i].c # c
  PROVE  RoutesOther(routes, {c}) = DOMAIN routes
  <1> SUFFICES ASSUME NEW i \in DOMAIN routes PROVE c \notin routes[i].readers
    BY DEF RoutesOther
  <1>1. PICK d \in BarCallers : RouteFor(routes[i], d, subs)
    BY DEF Routed
  <1>2. d # c /\ routes[i].readers = {d}
    BY <1>1 DEF RouteFor
  <1> QED
    BY <1>2

LEMMA NobodyLeft ==
  ASSUME NEW subs, NEW c, \A i \in DOMAIN subs : subs[i].c # c
  PROVE  OthersIn(subs, {c}) = DOMAIN subs
  BY DEF OthersIn

LEMMA SetsLeft ==
  ASSUME NEW st, NEW e, NEW c, NEW sub, NEW rou, NEW res, NEW unn,
         BarTables(st, e, sub, rou, res, unn, {b \in st.batch : b.c # c}),
         Thins(st.subs, sub, OthersIn(st.subs, {c})),
         Thins(st.routes, rou, RoutesOther(st.routes, {c})),
         Thins(st.resub, res, ResubOther(st.resub, {c}))
  PROVE  LeftTables(st, e, c) /\ e.out = st.out /\ e.unnumbered = unn /\ e \in State /\ e.up = st.up
  BY DEF BarTables, Barred, LeftTables

(* A withdrawal of a request without a record. *)
LEMMA CancelsBare ==
  ASSUME NEW st, st \in State, NEW c \in BarCallers, LedgerOf(st, {}), NEW u, u = Unbatched(st, c),
         BarTables(st, u, st.subs, st.routes, st.resub, st.unnumbered, {b \in st.batch : b.c # c}),
         NEW e, SubsOf(u, c) = {}, e = Unasked(u, c)
  PROVE  Left(st, e, c)
  <1> DEFINE B == {b \in st.batch : b.c # c}
  <1>1. /\ u \in State /\ u.subs = st.subs /\ u.routes = st.routes /\ u.resub = st.resub
        /\ u.unnumbered = st.unnumbered /\ u.batch = B
    BY DEF BarTables, Barred
  <1>2. BarTables(st, u, st.subs, st.routes, st.resub, st.unnumbered, B)
    OBVIOUS
  <1> HIDE DEF B
  <1>3. BarTables(u, e, u.subs, u.routes, NotAsked(u.resub, {c}), u.unnumbered, u.batch)
    BY <1>1, UnsubbedTables
  <1>4. BarTables(st, e, st.subs, st.routes, NotAsked(st.resub, {c}), st.unnumbered, B)
    BY <1>1, <1>2, <1>3, TablesTwice
  <1>5. \A i \in DOMAIN st.subs : st.subs[i].c # c
    BY <1>1 DEF SubsOf
  <1>6. Routed(st.subs, st.routes)
    BY DEF LedgerOf, Ledger
  <1>7. Thins(st.subs, st.subs, OthersIn(st.subs, {c}))
    BY <1>5, NobodyLeft, SameThins
  <1>8. Thins(st.routes, st.routes, RoutesOther(st.routes, {c}))
    BY <1>5, <1>6, NoRoute, SameThins
  <1>9. Thins(st.resub, NotAsked(st.resub, {c}), ResubOther(st.resub, {c}))
    <2>1. st.resub \in Seq(BarCallers)
      BY DEF State
    <2> QED
      BY <2>1, LessResub
  <1>10. LeftTables(st, e, c) /\ e.out = st.out /\ e.unnumbered = st.unnumbered
    BY <1>4, <1>7, <1>8, <1>9, SetsLeft, ZenonT(40) DEF B
  <1> QED
    BY <1>5, <1>10 DEF Left, LeftBare

(* ... of one that has a number. *)
LEMMA CancelsNumbered ==
  ASSUME NEW st, st \in State, NEW c \in BarCallers, LedgerOf(st, {}), NEW u, u = Unbatched(st, c),
         BarTables(st, u, st.subs, st.routes, st.resub, st.unnumbered, {b \in st.batch : b.c # c}),
         NEW e, RouteOf(u.routes, c) # {}, SubsOf(u, c) # {}, Withdrawn(u, e, c)
  PROVE  Left(st, e, c)
  <1> DEFINE B == {b \in st.batch : b.c # c}
             at == RouteAt(u, c)
             t == st.routes[at].t
             sub == NotOf(st.subs, {c})
             res == NotAsked(st.resub, {c})
             d == Unrouted(u, c)
  <1>1. /\ u \in State /\ u.subs = st.subs /\ u.routes = st.routes /\ u.resub = st.resub
        /\ u.unnumbered = st.unnumbered /\ u.batch = B
    BY DEF BarTables, Barred
  <1>2. BarTables(st, u, st.subs, st.routes, st.resub, st.unnumbered, B)
    OBVIOUS
  <1> HIDE DEF B
  <1>3. /\ at \in DOMAIN st.routes /\ c \in st.routes[at].readers /\ t \in Nat
    BY <1>1, RouteAtIs
  <1>4. /\ Routed(st.subs, st.routes) /\ OneRouteEach(st.routes)
        /\ st.subs \in Seq(BarRecords) /\ st.routes \in Seq(Routes) /\ st.resub \in Seq(BarCallers)
    BY DEF LedgerOf, Ledger, State
  <1>5. /\ st.routes[at].readers = {c} /\ t # NoNumber
        /\ Thins(st.routes, Drop(st.routes, at), RoutesOther(st.routes, {c}))
    BY <1>3, <1>4, LessRoute
  <1>6. e = Write(d, CancelMsg(FALSE, t))
    BY <1>1, <1>5 DEF Withdrawn
  <1>7. BarTables(st, d, sub, Drop(st.routes, at), res, st.unnumbered, B)
    <2>1. BarTables(u, Unsubbed(u, c), NotOf(u.subs, {c}), u.routes, NotAsked(u.resub, {c}),
                    u.unnumbered, u.batch)
      BY <1>1, UnsubbedTables
    <2>2. Vacated(u.routes, at, c) = Drop(st.routes, at)
      BY <1>1, <1>5 DEF Vacated
    <2>3. Drop(st.routes, at) \in Seq(Routes)
      BY <1>4, DropKeeps
    <2>4. d = [Unsubbed(u, c) EXCEPT !.routes = Drop(st.routes, at)]
      BY <2>2 DEF Unrouted
    <2>5. BarTables(u, d, NotOf(u.subs, {c}), Drop(st.routes, at), NotAsked(u.resub, {c}),
                    u.unnumbered, u.batch)
      BY <2>1, <2>3, <2>4, SetRoutes
    <2> QED
      BY <1>1, <1>2, <2>5, TablesTwice
  <1>8. Thins(st.subs, sub, OthersIn(st.subs, {c})) /\ Thins(st.resub, res, ResubOther(st.resub, {c}))
    BY <1>4, LessSubs, LessResub
  <1>9. [key |-> Key(c), t |-> t] \in Held(st.subs)
    <2>1. PICK x \in BarCallers : RouteFor(st.routes[at], x, st.subs)
      BY <1>3, <1>4 DEF Routed
    <2>2. x = c
      BY <1>5, <2>1 DEF RouteFor
    <2>3. PICK j \in DOMAIN st.subs : st.subs[j].c = c /\ st.subs[j].t = t
      BY <2>1, <2>2 DEF RouteFor
    <2> QED
      BY <1>5, <2>3 DEF Held, Numbered
  <1> HIDE DEF at, t, sub, res, d
  <1>10. LeftTables(st, d, c) /\ d.out = st.out /\ d.unnumbered = st.unnumbered /\ d \in State /\ d.up = st.up
    BY <1>5, <1>7, <1>8, SetsLeft DEF B
  <1>11. Barred(d, e) /\ SameBars(d, e) /\ Wrote(d, e, CancelMsg(FALSE, t))
    BY <1>3, <1>6, <1>10, MessagesAreTyped, Writes
  <1>12. LeftTables(st, e, c)
    BY <1>10, <1>11 DEF LeftTables, Barred, SameBars, SameReading
  <1>13. LeftNumbered(st, e, c, t)
    BY <1>9, <1>10, <1>11 DEF LeftNumbered, SameBars, Wrote
  <1> QED
    BY <1>12, <1>13 DEF Left

(* ... of one that waits for its number. *)
LEMMA CancelsWaiting ==
  ASSUME NEW st, st \in State, NEW c \in BarCallers, LedgerOf(st, {}), NEW u, u = Unbatched(st, c),
         BarTables(st, u, st.subs, st.routes, st.resub, st.unnumbered, {b \in st.batch : b.c # c}),
         NEW e, RouteOf(u.routes, c) = {}, SubsOf(u, c) # {}, Withdrawn(u, e, c)
  PROVE  Left(st, e, c)
  <1> DEFINE B == {b \in st.batch : b.c # c}
             i == Least(SubsOf(u, c))
             x == Asked(st.subs[i])
             sub == NotOf(st.subs, {c})
             res == NotAsked(st.resub, {c})
             unn == st.unnumbered \cup {x}
  <1>1. /\ u \in State /\ u.subs = st.subs /\ u.routes = st.routes /\ u.resub = st.resub
        /\ u.unnumbered = st.unnumbered /\ u.batch = B
    BY DEF BarTables, Barred
  <1>2. BarTables(st, u, st.subs, st.routes, st.resub, st.unnumbered, B)
    OBVIOUS
  <1> HIDE DEF B
  <1>3. i \in DOMAIN st.subs /\ st.subs[i] = Ungone(u, c) /\ st.subs[i].c = c /\ st.subs[i].q \in Nat
    BY <1>1, UngoneIs DEF Ungone
  <1>4. /\ Routed(st.subs, st.routes) /\ NumberedRouted(st.subs, st.routes) /\ WaitsAlone(st.subs)
        /\ SubsKept(st.subs, st.resub)
        /\ st.subs \in Seq(BarRecords) /\ st.routes \in Seq(Routes) /\ st.resub \in Seq(BarCallers)
        /\ st.unnumbered \in SUBSET Named
    BY DEF LedgerOf, Ledger, State
  <1>r. \A k \in DOMAIN st.routes : c \notin st.routes[k].readers
    BY <1>1 DEF RouteOf
  <1>5. st.subs[i].t = NoNumber /\ \A j \in DOMAIN st.subs : st.subs[j].c = c => j = i
    <2>1. st.subs[i].t = NoNumber
      BY <1>3, <1>4, <1>r DEF NumberedRouted
    <2> HIDE DEF i
    <2> QED
      BY <1>3, <1>4, <2>1 DEF WaitsAlone
  <1>6. \E k \in DOMAIN u.resub : u.resub[k] = c
    BY <1>1, <1>3, <1>4 DEF SubsKept, InResub
  <1>x. x = [q |-> Ungone(u, c).q, key |-> Key(c)]
    BY <1>3 DEF Asked
  <1>7. e = [Unsubbed(u, c) EXCEPT !.unnumbered = unn]
    BY <1>1, <1>3, <1>5, <1>6, <1>x DEF Withdrawn
  <1>8. unn \in SUBSET Named
    <2>1. Key(c) \in Keys
      BY BarRecordsAre
    <2> QED
      BY <1>3, <1>4, <1>x, <2>1 DEF Named
  <1> HIDE DEF i, x, sub, res, unn
  <1>9. BarTables(st, e, sub, st.routes, res, unn, B)
    <2>1. BarTables(u, Unsubbed(u, c), NotOf(u.subs, {c}), u.routes, NotAsked(u.resub, {c}),
                    u.unnumbered, u.batch)
      BY <1>1, UnsubbedTables
    <2>2. BarTables(u, e, NotOf(u.subs, {c}), u.routes, NotAsked(u.resub, {c}), unn, u.batch)
      BY <1>7, <1>8, <2>1, SetLate
    <2> QED
      BY <1>1, <1>2, <2>2, TablesTwice DEF sub, res
  <1>10. Thins(st.subs, sub, OthersIn(st.subs, {c})) /\ Thins(st.resub, res, ResubOther(st.resub, {c}))
    BY <1>4, LessSubs, LessResub DEF sub, res
  <1>11. Thins(st.routes, st.routes, RoutesOther(st.routes, {c}))
    <2>1. RoutesOther(st.routes, {c}) = DOMAIN st.routes
      BY <1>r DEF RoutesOther
    <2> QED
      BY <2>1, SameThins
  <1>12. LeftTables(st, e, c) /\ e.out = st.out /\ e.unnumbered = unn
    BY <1>9, <1>10, <1>11, SetsLeft DEF B
  <1>13. LeftWaiting(st, e, c, i)
    BY <1>3, <1>5, <1>12 DEF LeftWaiting, unn, x
  <1> QED
    BY <1>3, <1>12, <1>13 DEF Left

(* CancelRealTimeBar, CancelHistorical. *)
LEMMA CancelBarsSide ==
  ASSUME NEW st, st \in State, Finite(st), NEW c \in BarCallers, Apart, BarSide(st, {}), Wire(st)
  PROVE  BarSide(CancelBars(st, c), {})
  <1> DEFINE u == Unbatched(st, c)
             e == WithdrawBarStream(u, c)
  <1>1. CancelBars(st, c) = e
    BY CancelIs
  <1>2. BarTables(st, u, st.subs, st.routes, st.resub, st.unnumbered, {b \in st.batch : b.c # c})
    BY UnbatchedStep
  <1>3. u \in State /\ c \in Callers
    BY <1>2, BarCallersAre DEF BarTables, Barred
  <1>d. u = Unbatched(st, c)
    OBVIOUS
  <1> HIDE DEF u
  <1>4. Withdrawn(u, e, c)
    BY <1>3, WithdrawIs
  <1>l. LedgerOf(st, {})
    BY DEF BarSide
  <1> HIDE DEF e
  <1>5. CASE SubsOf(u, c) = {}
    <2>1. e = Unasked(u, c)
      BY <1>4, <1>5 DEF Withdrawn
    <2>2. Left(st, e, c)
      BY <1>2, <1>5, <1>d, <1>l, <2>1, CancelsBare
    <2> QED
      BY <1>1, <2>2, LeftSide
  <1>6. CASE SubsOf(u, c) # {} /\ RouteOf(u.routes, c) # {}
    <2>1. Left(st, e, c)
      BY <1>2, <1>4, <1>6, <1>d, <1>l, CancelsNumbered
    <2> QED
      BY <1>1, <2>1, LeftSide
  <1>7. CASE SubsOf(u, c) # {} /\ RouteOf(u.routes, c) = {}
    <2>1. Left(st, e, c)
      BY <1>2, <1>4, <1>7, <1>d, <1>l, CancelsWaiting
    <2> QED
      BY <1>1, <2>1, LeftSide
  <1> QED
    BY <1>5, <1>6, <1>7

-----------------------------------------------------------------------------
(* The venue refuses the ask of a record: it has no number, and no ask of  *)
(* its batch is on its way.                                                *)
LEMMA RefusedWaits ==
  ASSUME NEW st, st \in State, BarSide(st, {}), Wire(st), st.up, NEW m, 1 \in Answers(st),
         st.in[1] = m, m.m = "error", NEW at \in DOMAIN st.subs, st.subs[at].q = m.q
  PROVE  /\ m.key = Key(st.subs[at].c) /\ m.key \in st.refuses
         /\ \A j \in DOMAIN st.subs : st.subs[j].c = st.subs[at].c => j = at
         /\ \A b \in st.batch, p \in AsksAt(st) : b.c = st.subs[at].c => st.out[p].q # b.q
  <1> DEFINE x == Asked(st.subs[at])
             h == [key |-> Key(st.subs[at].c), t |-> st.subs[at].t]
  <1>1. x \in BarAsks(st) /\ x.q = m.q /\ x.key = Key(st.subs[at].c)
    BY AskedNames DEF BarAsks
  <1>2. m.key = x.key
    <2> HIDE DEF x
    <2> QED
      BY <1>1 DEF BarSide, BarNet, Net, Matched
  <1>3. m.key \in st.refuses
    BY DEF Wire, ReadsTrue, Answers
  <1>4. st.subs[at].t = NoNumber
    <2> SUFFICES ASSUME st.subs[at].t # NoNumber PROVE FALSE
      OBVIOUS
    <2>1. h \in Held(st.subs) /\ h.key = m.key
      BY <1>1, <1>2 DEF Held, Numbered
    <2> HIDE DEF h
    <2>2. Serves(st, h.key, h.t)
      BY <2>1 DEF BarSide, BarNet, Net, HeldServed
    <2>3. [key |-> h.key, t |-> h.t] \in st.running
      BY <2>2 DEF Serves
    <2> QED
      BY <1>3, <2>1, <2>3 DEF Wire, RunsOnce
  <1>5. \A j \in DOMAIN st.subs : st.subs[j].c = st.subs[at].c => j = at
    BY <1>4 DEF BarSide, LedgerOf, Ledger, WaitsAlone
  <1>6. ASSUME NEW b \in st.batch, NEW p \in AsksAt(st), b.c = st.subs[at].c, st.out[p].q = b.q
        PROVE  FALSE
    <2>1. PICK i \in DOMAIN st.subs : st.subs[i].c = b.c /\ Behind(st, p, st.subs[i].q)
      BY <1>6 DEF BarSide, BatchFirst
    <2>2. PICK r \in AsksAt(st) : st.out[r].q = m.q
      BY <1>5, <1>6, <2>1 DEF Behind
    <2> QED
      BY <2>2 DEF Wire, OneNameEach
  <1> QED
    BY <1>1, <1>2, <1>3, <1>5, <1>6

(* The record goes, with the request's route and its place among those to  *)
(* be asked for again.                                                     *)
RefusedTables(r, e, at) ==
  /\ BarTables(r, e, Drop(r.subs, at), Without(r.routes, {r.subs[at].c}),
               NotAsked(r.resub, {r.subs[at].c}), r.unnumbered, r.batch)

LEMMA RefusedThins ==
  ASSUME NEW st, st \in State, LedgerOf(st, {}), NEW r, SameBars(st, r), NEW e,
         NEW at \in DOMAIN st.subs, RefusedTables(r, e, at),
         \A j \in DOMAIN st.subs : st.subs[j].c = st.subs[at].c => j = at
  PROVE  /\ Thins(st.subs, e.subs, OthersIn(st.subs, {st.subs[at].c}))
         /\ Thins(st.routes, e.routes, RoutesOther(st.routes, {st.subs[at].c}))
         /\ Thins(st.resub, e.resub, ResubOther(st.resub, {st.subs[at].c}))
         /\ e.batch = st.batch /\ e.unnumbered = st.unnumbered
         /\ SameReading(r, e) /\ SameWriting(r, e)
  <1> DEFINE c == st.subs[at].c
  <1>1. /\ e.subs = Drop(st.subs, at) /\ e.routes = Without(st.routes, {c})
        /\ e.resub = NotAsked(st.resub, {c}) /\ e.batch = st.batch /\ e.unnumbered = st.unnumbered
        /\ SameReading(r, e) /\ SameWriting(r, e)
    BY DEF RefusedTables, BarTables, Barred, SameBars, SameWriting
  <1>2. /\ st.subs \in Seq(BarRecords) /\ st.routes \in Seq(Routes) /\ st.resub \in Seq(BarCallers)
        /\ Routed(st.subs, st.routes)
    BY DEF State, LedgerOf, Ledger
  <1>3. OthersIn(st.subs, {c}) = DOMAIN st.subs \ {at}
    BY DEF OthersIn
  <1> HIDE DEF c
  <1>4. Thins(st.subs, e.subs, OthersIn(st.subs, {c}))
    <2>1. Kept(BarRecords, st.subs, Drop(st.subs, at), DOMAIN st.subs \ {at})
      BY <1>2, DropKeeps
    <2> QED
      BY <1>1, <1>3, <2>1, KeptThins
  <1>5. Thins(st.routes, e.routes, RoutesOther(st.routes, {c}))
    BY <1>1, <1>2, LessRoutes
  <1>6. Thins(st.resub, e.resub, ResubOther(st.resub, {c}))
    BY <1>1, <1>2, LessResub
  <1> QED
    BY <1>1, <1>4, <1>5, <1>6 DEF c

LEMMA RefusingSide ==
  ASSUME NEW st, Common(st), Apart, BarSide(st, {}), NEW r, NEW m, Popped(st, r, m), m.m = "error",
         NEW at \in DOMAIN st.subs, st.subs[at].q = m.q, NEW e, RefusedTables(r, e, at)
  PROVE  BarSide(e, {})
  <1> DEFINE c == st.subs[at].c
             I == BarAsks(st)
             J == BarAsks(e)
             H == Held(st.subs)
             G == Held(e.subs)
  <1>1. /\ st \in State /\ Wire(st) /\ st.up /\ SameBars(st, r) /\ Reads(st, r, m) /\ SameWriting(st, r)
        /\ st.in[1] = m /\ 1 \in DOMAIN st.in /\ r.refuses = st.refuses /\ LedgerOf(st, {})
    BY DEF Common, Popped, Reads, BarSide
  <1>2. 1 \in Answers(st)
    BY <1>1 DEF Answers
  <1>3. /\ m.key = Key(c) /\ m.key \in st.refuses
        /\ \A j \in DOMAIN st.subs : st.subs[j].c = c => j = at
        /\ \A b \in st.batch, p \in AsksAt(st) : b.c = c => st.out[p].q # b.q
    BY <1>1, <1>2, RefusedWaits
  <1>4. /\ Thins(st.subs, e.subs, OthersIn(st.subs, {c}))
        /\ Thins(st.routes, e.routes, RoutesOther(st.routes, {c}))
        /\ Thins(st.resub, e.resub, ResubOther(st.resub, {c}))
        /\ e.batch = st.batch /\ e.unnumbered = st.unnumbered
        /\ SameReading(r, e) /\ SameWriting(r, e)
    BY <1>1, <1>3, RefusedThins
  <1>c. c \in BarCallers
    BY <1>1, BarRecordsAre
  <1>d. c = st.subs[at].c
    OBVIOUS
  <1> HIDE DEF c
  <1>s. /\ \A k \in DOMAIN e.subs : \E i \in OthersIn(st.subs, {c}) : e.subs[k] = st.subs[i]
        /\ \A i \in OthersIn(st.subs, {c}) : \E k \in DOMAIN e.subs : e.subs[k] = st.subs[i]
    <2> DEFINE O == OthersIn(st.subs, {c})
    <2> HIDE DEF O
    <2>1. Thins(st.subs, e.subs, O)
      BY <1>4 DEF O
    <2>2. /\ \A k \in DOMAIN e.subs : \E i \in O : e.subs[k] = st.subs[i]
          /\ \A i \in O : \E k \in DOMAIN e.subs : e.subs[k] = st.subs[i]
      BY <2>1, ThinsFrom
    <2> QED
      BY <2>2 DEF O
  <1>t. \A i \in DOMAIN st.subs : i \in OthersIn(st.subs, {c}) <=> i # at
    BY <1>3, <1>d DEF OthersIn
  <1>u. /\ \A k \in DOMAIN e.subs : \E i \in DOMAIN st.subs : i # at /\ e.subs[k] = st.subs[i]
        /\ \A i \in DOMAIN st.subs : i # at => \E k \in DOMAIN e.subs : e.subs[k] = st.subs[i]
    BY <1>s, <1>t DEF OthersIn
  <1>5. BarNet(e)
    <2>1. Net(FALSE, I, st.unnumbered, H, st)
      BY DEF BarSide, BarNet
    <2>2. Net(FALSE, I, st.unnumbered, H, r)
      <3>1. Backed(I, H)
        BY <2>1 DEF Net
      <3> HIDE DEF I, H
      <3> QED
        BY <1>1, <2>1, <3>1, NetReads
    <2>3. J \subseteq I /\ \A y \in I \ J : y.key \in st.refuses
      <3>1. AsksOf(e.subs) \subseteq AsksOf(st.subs)
        BY <1>u DEF AsksOf
      <3>2. \A y \in AsksOf(st.subs) : y \in AsksOf(e.subs) \/ y = Asked(st.subs[at])
        BY <1>u DEF AsksOf
      <3>3. Asked(st.subs[at]).key \in st.refuses
        BY <1>3, <1>d DEF Asked
      <3> QED
        BY <1>4, <3>1, <3>2, <3>3 DEF BarAsks
    <2>4. G \subseteq H
      BY <1>u DEF Held, Numbered
    <2>5. Backed(J, G)
      BY TablesBacked DEF Backed, BarAsks
    <2>6. Wire(r)
      BY PoppedSame
    <2>7. DownIsEmpty(r) /\ RunsOnce(r)
      BY <2>6 DEF Wire
    <2>8. Net(FALSE, J, e.unnumbered, G, e) => BarNet(e)
      BY DEF BarNet
    <2> HIDE DEF I, J, G, H
    <2>9. \A y \in I \ J : y.key \in r.refuses
      BY <1>1, <2>3
    <2>10. Net(FALSE, J, st.unnumbered, G, e)
      BY <1>4, <2>2, <2>3, <2>4, <2>5, <2>7, <2>9, NetForgets
    <2> QED
      BY <1>4, <2>8, <2>10
  <1>6. Reads(st, e, m) /\ SameWriting(st, e) /\ e.refuses = st.refuses /\ e.out = st.out
    <2>1. e.up = r.up
      BY <1>4 DEF SameWriting
    <2>2. Reads(st, e, m) /\ SameWriting(st, e)
      BY <1>4, <2>1, ReadsThen
    <2> QED
      BY <2>2 DEF Reads, SameWriting
  <1>7. LedgerOf(e, {})
    <2>1. Ledger(st.subs, st.routes, st.resub, st.batch, st.refuses, {})
      BY <1>1 DEF LedgerOf
    <2>2. st.batch \subseteq st.batch /\ \A b \in st.batch : b.c \in {c} => Key(b.c) \in st.refuses
      BY <1>3
    <2>3. Ledger(e.subs, e.routes, e.resub, st.batch, st.refuses, {})
      BY <1>4, <2>1, <2>2, LedgerLess
    <2> QED
      BY <1>4, <1>6, <2>3 DEF LedgerOf
  <1>8. BarWaits(e)
    <2> SUFFICES ASSUME NEW k \in DOMAIN e.subs, e.subs[k].t = NoNumber
                 PROVE  InFlight(e, Asked(e.subs[k]))
      BY DEF BarWaits
    <2>1. PICK i \in DOMAIN st.subs : i # at /\ e.subs[k] = st.subs[i]
      BY <1>u
    <2>2. InFlight(st, Asked(st.subs[i]))
      BY <1>1, <2>1 DEF BarSide, BarWaits
    <2>3. Key(st.subs[i].c) # m.key
      <3>1. st.subs[i].c \in BarCallers
        BY <1>1, BarRecordsAre
      <3>2. st.subs[i].c # c
        BY <1>3, <2>1
      <3>3. Key(st.subs[i].c) # Key(c)
        BY <1>c, <3>1, <3>2, ApartIs
      <3> QED
        BY <1>3, <3>3
    <2>4. Name(m) # Asked(st.subs[i])
      BY <2>3 DEF Name, Asked
    <2> QED
      BY <1>6, <2>1, <2>2, <2>4, FlightReads
  <1>9. BatchFirst(e, {})
    <2>1. \A p \in AsksAt(e) : p \in AsksAt(st) /\ Follows(st, e, p, p)
      BY <1>6, FollowsSame
    <2>2. ASSUME NEW b \in e.batch
          PROVE  \/ \A i \in DOMAIN st.subs : st.subs[i].c = b.c =>
                      \E j \in DOMAIN e.subs : e.subs[j].c = b.c /\ e.subs[j].q = st.subs[i].q
                 \/ \A p \in AsksAt(e) : e.out[p].q # b.q
      <3>1. CASE b.c = c
        BY <1>3, <1>4, <1>6, <2>1, <3>1
      <3>2. CASE b.c # c
        BY <1>d, <1>u, <3>2
      <3> QED
        BY <3>1, <3>2
    <2>3. BatchFirst(st, {}) /\ e.batch \subseteq st.batch
      BY <1>4 DEF BarSide
    <2> QED
      BY <2>1, <2>2, <2>3, FirstStays
  <1> QED
    BY <1>5, <1>7, <1>8, <1>9 DEF BarSide

-----------------------------------------------------------------------------
(* A refusal. *)
LEMMA QueryErrorSide ==
  ASSUME NEW st, Common(st), Apart, BarSide(st, {}), NEW r, NEW m, Popped(st, r, m), m.m = "error"
  PROVE  BarSide(QueryError(r, m), {})
  <1> DEFINE e == QueryError(r, m)
  <1>1. /\ r \in State /\ SameBars(st, r) /\ Reads(st, r, m) /\ SameWriting(st, r)
        /\ r.subs = st.subs /\ r.batch = st.batch
    BY DEF Popped, SameBars
  <1>2. Finite(r) /\ Wire(r)
    BY PoppedSame
  <1>3. Refused(r, e, m)
    BY <1>1, QueryErrorIs
  <1>4. ASSUME \A i \in DOMAIN st.subs : st.subs[i].t = NoNumber => st.subs[i].q # m.q
        PROVE  BarSide(r, {})
    <2>1. \A i \in DOMAIN st.subs : st.subs[i].t = NoNumber => Asked(st.subs[i]) # Name(m)
      BY <1>4 DEF Asked, Name
    <2> QED
      BY <1>1, <2>1, BarSideReads
  <1> HIDE DEF e
  <1>5. ASSUME NEW b \in r.batch, b.q = m.q, e = CancelBars(r, b.c) PROVE BarSide(e, {})
    <2>1. NewNames(st.subs, st.batch)
      BY DEF BarSide, LedgerOf, Ledger
    <2>2. BarSide(r, {})
      BY <1>1, <1>4, <1>5, <2>1 DEF NewNames
    <2>3. b.c \in BarCallers
      BY <1>1, BarRecordsAre
    <2> QED
      BY <1>1, <1>2, <1>5, <2>2, <2>3, CancelBarsSide
  <1>6. ASSUME NEW at \in DOMAIN r.subs, r.subs[at].q = m.q, e = Refusing(r, at)
        PROVE  BarSide(e, {})
    <2>1. RefusedTables(r, e, at)
      BY <1>1, <1>2, <1>6, RefusingStep DEF RefusedTables
    <2> QED
      BY <1>1, <1>6, <2>1, RefusingSide
  <1>7. ASSUME \A i \in DOMAIN r.subs : r.subs[i].q # m.q,
               e = [r EXCEPT !.tbt = Only(r.tbt, {i \in DOMAIN r.tbt : r.tbt[i].q # m.q})]
        PROVE  BarSide(e, {})
    <2> DEFINE w == Only(r.tbt, {i \in DOMAIN r.tbt : r.tbt[i].q # m.q})
    <2>1. r.tbt \in Seq(TickRecords)
      BY <1>1 DEF State
    <2>2. w \in Seq(TickRecords)
      BY <2>1, OnlyKeeps DEF Kept
    <2>3. e = [r EXCEPT !.tbt = w]
      BY <1>7
    <2> HIDE DEF w
    <2>4. SameBars(r, e) /\ SameReading(r, e) /\ SameWriting(r, e)
      BY <1>1, <2>2, <2>3, SetTicks
    <2>5. BarSide(r, {})
      BY <1>1, <1>4, <1>7
    <2> QED
      BY <2>4, <2>5, BarSideTables
  <1> QED
    BY <1>3, <1>5, <1>6, <1>7 DEF Refused, e

-----------------------------------------------------------------------------
(* A route of the request c, under the number t. *)
RouteMade(n, c, t) == n.readers = {c} /\ n.contracts = <<Key(c)>> /\ n.active /\ n.t = t

(* The routes once c has been told t: its own, and those of the others. *)
AdmittedTo(routes, routes2, c, t) ==
  /\ \A k \in DOMAIN routes2 :
       \/ RouteMade(routes2[k], c, t)
       \/ \E i \in DOMAIN routes : routes2[k] = routes[i] /\ routes[i].readers # {c}
  /\ \A i \in DOMAIN routes : \E k \in DOMAIN routes2 : routes2[k] = routes[i]
  /\ \E k \in DOMAIN routes2 : RouteMade(routes2[k], c, t)
  /\ OneRouteEach(routes2)

(* What is known of the routes before: each is one request's, and the      *)
(* number told is its own alone.                                           *)
RouteOwned(n, c, t) ==
  /\ n.active
  /\ \E d \in BarCallers : n.readers = {d} /\ n.contracts = <<Key(d)>>
  /\ n.readers = {c} <=> n.t = t
RoutesOwned(routes, c, t) ==
  /\ \A i \in DOMAIN routes : RouteOwned(routes[i], c, t)
  /\ OneRouteEach(routes)

LEMMA OwnedIs ==
  ASSUME Apart, NEW c \in BarCallers, NEW t, NEW n, RouteOwned(n, c, t)
  PROVE  /\ n.readers # {} /\ n.active /\ n.contracts[1] \in Keys
         /\ n.readers = {c} => n.t = t /\ Carries(n, Key(c)) /\ n.contracts = <<Key(c)>>
         /\ n.readers # {c} => n.t # t /\ ~Carries(n, Key(c)) /\ c \notin n.readers
         /\ n.readers = {c} => n.contracts[1] = Key(c)
  <1>1. PICK d \in BarCallers : n.readers = {d} /\ n.contracts = <<Key(d)>>
    BY DEF RouteOwned
  <1>2. Key(d) = Key(c) => d = c
    BY ApartIs
  <1>3. n.contracts[1] = Key(d) /\ DOMAIN n.contracts = {1}
    BY <1>1
  <1>4. Carries(n, Key(c)) <=> Key(d) = Key(c)
    BY <1>3 DEF Carries
  <1>5. n.readers = {c} <=> d = c
    BY <1>1
  <1>6. Key(d) \in Keys
    BY DEF Keys, BarCallers
  <1> QED
    BY <1>1, <1>2, <1>3, <1>4, <1>5, <1>6 DEF RouteOwned

(* The table a route joins, before those nobody reads are dropped. *)
LEMMA ThinsRoutes ==
  ASSUME NEW routes, NEW w, NEW v, NEW c, NEW t, Thins(w, v, DOMAIN w),
         AdmittedTo(routes, w, c, t)
  PROVE  AdmittedTo(routes, v, c, t)
  <1>1. PICK f : ThinsBy(w, v, DOMAIN w, f)
    BY DEF Thins
  <1>2. /\ \A k \in DOMAIN v : f[k] \in DOMAIN w /\ v[k] = w[f[k]]
        /\ \A j, k \in DOMAIN v : f[j] = f[k] => j = k
        /\ \A i \in DOMAIN w : \E k \in DOMAIN v : v[k] = w[i]
    BY <1>1 DEF ThinsBy
  <1>3. OneRouteEach(v)
    <2> SUFFICES ASSUME NEW j \in DOMAIN v, NEW k \in DOMAIN v, v[j].readers = v[k].readers
                 PROVE  j = k
      BY DEF OneRouteEach
    <2>1. f[j] = f[k]
      BY <1>2 DEF AdmittedTo, OneRouteEach
    <2> QED
      BY <1>2, <2>1
  <1>4. ASSUME NEW k \in DOMAIN v
        PROVE  \/ RouteMade(v[k], c, t)
               \/ \E i \in DOMAIN routes : v[k] = routes[i] /\ routes[i].readers # {c}
    BY <1>2 DEF AdmittedTo
  <1>5. ASSUME NEW i \in DOMAIN routes PROVE \E k \in DOMAIN v : v[k] = routes[i]
    <2>1. PICK k \in DOMAIN w : w[k] = routes[i]
      BY DEF AdmittedTo
    <2> QED
      BY <1>2, <2>1
  <1>6. \E k \in DOMAIN v : RouteMade(v[k], c, t)
    <2>1. PICK k \in DOMAIN w : RouteMade(w[k], c, t)
      BY DEF AdmittedTo
    <2> QED
      BY <1>2, <2>1
  <1> QED
    BY <1>3, <1>4, <1>5, <1>6 DEF AdmittedTo

LEMMA ReadersThin ==
  ASSUME NEW w \in Seq(Routing), \A i \in DOMAIN w : w[i].readers # {}
  PROVE  Thins(w, WithReaders(w), DOMAIN w)
  <1>1. {i \in DOMAIN w : w[i].readers # {}} = DOMAIN w
    OBVIOUS
  <1> QED
    BY <1>1, WithReadersKeeps, KeptThins

(* A route that is there stays as it is. *)
LEMMA SameAdmits ==
  ASSUME NEW routes, NEW c, NEW t, RoutesOwned(routes, c, t), Apart, c \in BarCallers,
         NEW i0 \in DOMAIN routes, routes[i0].readers = {c},
         NEW w, DOMAIN w = DOMAIN routes, \A i \in DOMAIN routes : w[i] = routes[i]
  PROVE  AdmittedTo(routes, w, c, t)
  <1>1. \A i \in DOMAIN routes : routes[i].readers = {c} => RouteMade(routes[i], c, t)
    BY OwnedIs DEF RoutesOwned, RouteMade
  <1> QED
    BY <1>1 DEF AdmittedTo, RoutesOwned, OneRouteEach

(* A request without a route gets one. *)
LEMMA NewAdmits ==
  ASSUME NEW routes, NEW c, NEW t, RoutesOwned(routes, c, t),
         \A i \in DOMAIN routes : routes[i].readers # {c},
         NEW n, RouteMade(n, c, t), NEW w, Grows(routes, w, n)
  PROVE  AdmittedTo(routes, w, c, t)
  <1>1. \A k \in DOMAIN w : (k \in DOMAIN routes /\ w[k] = routes[k]) \/ (k = Len(routes) + 1 /\ w[k] = n)
    BY DEF Grows
  <1>2. \A i \in DOMAIN routes : i \in DOMAIN w /\ w[i] = routes[i]
    BY DEF Grows
  <1>3. \E k \in DOMAIN w : w[k] = n
    BY DEF Grows
  <1>4. OneRouteEach(w)
    BY <1>1 DEF RoutesOwned, OneRouteEach, RouteMade
  <1> QED
    BY <1>1, <1>2, <1>3, <1>4 DEF AdmittedTo

-----------------------------------------------------------------------------
LEMMA FirstOfOne ==
  ASSUME NEW S, NEW i \in Nat, S = {i}
  PROVE  FirstOf(S) = {i} /\ Least(S) = i
  <1>1. Least(S) \in S
    BY LeastIn
  <1> QED
    BY <1>1 DEF FirstOf

LEMMA FirstOfNone ==
  ASSUME NEW S, S = {}
  PROVE  FirstOf(S) = {}
  BY DEF FirstOf

(* assign_bar_route, where the request has its route already. *)
LEMMA PlacedBefore ==
  ASSUME NEW routes \in Seq(Routes), NEW c \in BarCallers, NEW t, NEW unit,
         RoutesOwned(routes, c, t), Apart, NEW i0 \in DOMAIN routes, routes[i0].readers = {c}
  PROVE  /\ Placement(routes, Key(c), t, unit).target = {i0}
         /\ Placement(routes, Key(c), t, unit).displaced = {}
         /\ Placement(routes, Key(c), t, unit).reset = {}
  <1> DEFINE P == Placement(routes, Key(c), t, unit)
             S == {i \in DOMAIN routes : routes[i].active /\ routes[i].t = t}
  <1>1. \A i \in DOMAIN routes : RouteOwned(routes[i], c, t)
    BY DEF RoutesOwned
  <1>2. S = {i0}
    <2>1. ASSUME NEW i \in S PROVE i = i0
      <3>1. routes[i].readers = {c}
        BY <1>1 DEF RouteOwned
      <3> QED
        BY <3>1 DEF RoutesOwned, OneRouteEach
    <2>2. i0 \in S
      BY <1>1 DEF RouteOwned
    <2> QED
      BY <2>1, <2>2
  <1>3. Current(routes, t) = {i0}
    <2>1. i0 \in Nat
      OBVIOUS
    <2> QED
      BY <1>2, <2>1, FirstOfOne DEF Current
  <1>4. Carries(routes[i0], Key(c)) /\ routes[i0].contracts[1] = Key(c)
    BY <1>1, OwnedIs
  <1>5. Compatible(routes, Key(c), t) = {i0}
    BY <1>3, <1>4 DEF Compatible
  <1> QED
    BY <1>3, <1>5 DEF Placement

(* ... and where it has none. *)
LEMMA PlacedNew ==
  ASSUME NEW routes \in Seq(Routes), NEW c \in BarCallers, NEW t, NEW unit,
         RoutesOwned(routes, c, t), Apart, \A i \in DOMAIN routes : routes[i].readers # {c}
  PROVE  /\ Placement(routes, Key(c), t, unit).target = {}
         /\ Placement(routes, Key(c), t, unit).displaced = {}
         /\ Placement(routes, Key(c), t, unit).reset = {}
  <1>1. \A i \in DOMAIN routes : RouteOwned(routes[i], c, t)
    BY DEF RoutesOwned
  <1>2. {i \in DOMAIN routes : routes[i].active /\ routes[i].t = t} = {}
    BY <1>1 DEF RouteOwned
  <1>3. Current(routes, t) = {}
    BY <1>2, FirstOfNone DEF Current
  <1>4. {i \in DOMAIN routes : routes[i].active /\ Carries(routes[i], Key(c))} = {}
    BY <1>1, OwnedIs
  <1>5. Compatible(routes, Key(c), t) = {}
    BY <1>3 DEF Compatible
  <1>6. Alternate(routes, Key(c), t) = {}
    BY <1>3, <1>4, FirstOfNone DEF Alternate
  <1> QED
    BY <1>3, <1>5, <1>6 DEF Placement

(* The routes with nobody displaced and none started over. *)
LessReader(n, c) == [n EXCEPT !.readers = n.readers \ {c}]

LEMMA ClearedSame ==
  ASSUME NEW routes \in Seq(Routes), NEW place, NEW c, place.displaced = {}, place.reset = {}
  PROVE  /\ DOMAIN Cleared(routes, place, c) = DOMAIN routes
         /\ \A i \in DOMAIN routes :
              /\ Cleared(routes, place, c)[i] = LessReader(routes[i], c)
              /\ c \notin routes[i].readers => Cleared(routes, place, c)[i] = routes[i]
  <1>1. DOMAIN Cleared(routes, place, c) = DOMAIN routes
    BY DEF Cleared
  <1> SUFFICES ASSUME NEW i \in DOMAIN routes
               PROVE  /\ Cleared(routes, place, c)[i] = LessReader(routes[i], c)
                      /\ c \notin routes[i].readers => Cleared(routes, place, c)[i] = routes[i]
    BY <1>1
  <1> DEFINE n == routes[i]
             a == n.active
             r == n.readers \ {c}
  <1>2. n \in Routes /\ n.active \in BOOLEAN
    <2>1. n \in Routes
      OBVIOUS
    <2> HIDE DEF n
    <2> QED
      BY <2>1 DEF Routes
  <1>3. Cleared(routes, place, c)[i] = [n EXCEPT !.active = a, !.t = n.t, !.readers = r]
    <2> DEFINE B == n.active /\ i \notin place.displaced \cup place.reset
               T == IF i \in place.reset THEN NoNumber ELSE n.t
    <2>1. Cleared(routes, place, c)[i] = [n EXCEPT !.active = B, !.t = T, !.readers = r]
      BY DEF Cleared
    <2>2. B = a /\ T = n.t
      BY <1>2
    <2> HIDE DEF B, T, n, r
    <2> QED
      BY <2>1, <2>2
  <1> HIDE DEF n
  <1>4. [n EXCEPT !.active = a, !.t = n.t, !.readers = r] = [n EXCEPT !.readers = r]
    BY <1>2 DEF Routes
  <1>5. c \notin n.readers => r = n.readers
    OBVIOUS
  <1>6. [n EXCEPT !.readers = n.readers] = n
    BY <1>2 DEF Routes
  <1> QED
    BY <1>3, <1>4, <1>5, <1>6 DEF n, LessReader

-----------------------------------------------------------------------------
LEMMA EntersAgain ==
  ASSUME NEW n \in Routes, NEW c \in BarCallers, NEW t, n.readers = {c}, n.t = t, n.active,
         Carries(n, Key(c)), NEW o, o = LessReader(n, c)
  PROVE  Entered(o, Key(c), c, t) = n
  <1>1. o.contracts = n.contracts /\ o.readers = {} /\ o.t = n.t /\ o.active = n.active /\ o.unit = n.unit
    BY DEF Routes, LessReader
  <1>2. Carries(o, Key(c))
    BY <1>1 DEF Carries
  <1>3. n.active = TRUE
    BY DEF Routes
  <1>4. Entered(o, Key(c), c, t) =
          [o EXCEPT !.contracts = o.contracts, !.readers = o.readers \cup {c}, !.t = t, !.active = TRUE]
    BY <1>2 DEF Entered
  <1>5. o.readers \cup {c} = n.readers
    BY <1>1
  <1>6. Entered(o, Key(c), c, t) =
          [o EXCEPT !.contracts = n.contracts, !.readers = n.readers, !.t = n.t, !.active = n.active]
    BY <1>1, <1>3, <1>4, <1>5
  <1> HIDE DEF Entered
  <1> QED
    BY <1>6 DEF Routes, LessReader

LEMMA EntersNew ==
  ASSUME NEW c \in BarCallers, NEW t \in Nat, NEW unit
  PROVE  RouteMade(Entered(NewRoute(t, unit), Key(c), c, t), c, t)
  <1> DEFINE o == NewRoute(t, unit)
             e == Entered(o, Key(c), c, t)
             k == Append(o.contracts, Key(c))
  <1>1. o.contracts = <<>> /\ o.readers = {}
    BY DEF NewRoute
  <1>2. ~Carries(o, Key(c))
    BY <1>1 DEF Carries
  <1>3. k = <<Key(c)>>
    BY <1>1
  <1>4. e = [o EXCEPT !.contracts = k, !.readers = o.readers \cup {c}, !.t = t, !.active = TRUE]
    BY <1>2 DEF Entered
  <1>5. o.readers \cup {c} = {c}
    BY <1>1
  <1>6. e = [o EXCEPT !.contracts = <<Key(c)>>, !.readers = {c}, !.t = t, !.active = TRUE]
    BY <1>3, <1>4, <1>5
  <1> HIDE DEF e
  <1> QED
    BY <1>6 DEF RouteMade, NewRoute, e

(* What assign_bar_route leaves, where no two requests ask for the same. *)
AssignedAlone(st, c, t, unit) ==
  /\ AdmittedTo(st.routes, RoutesFor(st, c, t, unit), c, t)
  /\ EnteredBy(st, c, t, unit).readers = {c}
  /\ LostBy(st, c, t, unit) = {} /\ OldOf(st, c, t, unit) = {}

LEMMA AssignsAgain ==
  ASSUME NEW st \in State, NEW c \in BarCallers, NEW t \in Nat, NEW unit \in load.units \cup {0},
         RoutesOwned(st.routes, c, t), Apart, NEW i0 \in DOMAIN st.routes, st.routes[i0].readers = {c}
  PROVE  AssignedAlone(st, c, t, unit)
  <1> DEFINE P == Place(st, c, t, unit)
             o == OpenedFor(st, c, t, unit)
             pos == PosFor(st, c, t, unit)
             en == EnteredBy(st, c, t, unit)
             w == [o EXCEPT ![pos] = en]
  <1>1. st.routes \in Seq(Routes) /\ i0 \in Nat
    BY DEF State
  <1>2. P.target = {i0} /\ P.displaced = {} /\ P.reset = {}
    BY <1>1, PlacedBefore DEF Place
  <1>3. o = Cleared(st.routes, P, c) /\ pos = i0
    <2>1. Least(P.target) = i0
      BY <1>1, <1>2, FirstOfOne
    <2> QED
      BY <1>2, <2>1 DEF OpenedFor, PosFor
  <1>4. /\ DOMAIN o = DOMAIN st.routes
        /\ \A i \in DOMAIN st.routes :
             /\ o[i] = LessReader(st.routes[i], c)
             /\ c \notin st.routes[i].readers => o[i] = st.routes[i]
    <2> HIDE DEF P, o
    <2> QED
      BY <1>1, <1>2, <1>3, ClearedSame
  <1>5. en = st.routes[i0]
    <2>1. en = Entered(o[i0], Key(c), c, t)
      BY <1>3 DEF EnteredBy
    <2>2. st.routes[i0] \in Routes
      BY <1>1
    <2>3. st.routes[i0].t = t /\ st.routes[i0].active /\ Carries(st.routes[i0], Key(c))
      BY OwnedIs DEF RoutesOwned
    <2> DEFINE n == st.routes[i0]
               x == o[i0]
    <2>4. x = LessReader(n, c)
      BY <1>4
    <2>5. n \in Routes /\ n.readers = {c} /\ n.t = t /\ n.active /\ Carries(n, Key(c))
      BY <2>2, <2>3
    <2>6. en = Entered(x, Key(c), c, t)
      BY <2>1
    <2> HIDE DEF o, en, n, x
    <2>7. en = n
      BY <2>4, <2>5, <2>6, EntersAgain
    <2> QED
      BY <2>7 DEF n
  <1>6. RoutesFor(st, c, t, unit) = WithReaders(w)
    BY DEF RoutesFor
  <1>7. LostBy(st, c, t, unit) = {} /\ OldOf(st, c, t, unit) = {}
    BY <1>2 DEF LostBy, OldOf
  <1> HIDE DEF P, o, pos, en
  <1>8. DOMAIN w = DOMAIN st.routes /\ \A i \in DOMAIN st.routes : w[i] = st.routes[i]
    <2>1. ASSUME NEW i \in DOMAIN st.routes, i # i0 PROVE c \notin st.routes[i].readers
      <3>1. st.routes[i].readers # {c}
        BY <2>1 DEF RoutesOwned, OneRouteEach
      <3> QED
        BY <3>1, OwnedIs DEF RoutesOwned
    <2> QED
      BY <1>3, <1>4, <1>5, <2>1
  <1> HIDE DEF w
  <1>9. AdmittedTo(st.routes, w, c, t)
    BY <1>8, SameAdmits
  <1>10. \A i \in DOMAIN st.routes : st.routes[i].readers # {}
    BY OwnedIs DEF RoutesOwned
  <1>11. w \in Seq(Routing)
    <2>1. st.routes \in Seq(Routing)
      BY <1>1, RoutesAreRouting
    <2>2. o \in Seq(Routing) /\ en \in Routing /\ pos \in DOMAIN o
      BY BarCallersAre, OpenedIs, EnteredByIs DEF o, en, pos
    <2> QED
      BY <2>2 DEF w
  <1>12. Thins(w, WithReaders(w), DOMAIN w)
    BY <1>8, <1>10, <1>11, ReadersThin
  <1>13. AdmittedTo(st.routes, RoutesFor(st, c, t, unit), c, t)
    BY <1>6, <1>9, <1>12, ThinsRoutes
  <1> QED
    BY <1>5, <1>7, <1>13 DEF AssignedAlone, en

LEMMA AssignsNew ==
  ASSUME NEW st \in State, NEW c \in BarCallers, NEW t \in Nat, NEW unit \in load.units \cup {0},
         RoutesOwned(st.routes, c, t), Apart, \A i \in DOMAIN st.routes : st.routes[i].readers # {c}
  PROVE  AssignedAlone(st, c, t, unit)
  <1> DEFINE P == Place(st, c, t, unit)
             cl == Cleared(st.routes, P, c)
             o == OpenedFor(st, c, t, unit)
             pos == PosFor(st, c, t, unit)
             en == EnteredBy(st, c, t, unit)
             w == [o EXCEPT ![pos] = en]
  <1>1. st.routes \in Seq(Routes)
    BY DEF State
  <1>2. P.target = {} /\ P.displaced = {} /\ P.reset = {}
    BY <1>1, PlacedNew DEF Place
  <1>3. o = Append(cl, NewRoute(t, unit)) /\ pos = Len(o)
    BY <1>2 DEF OpenedFor, PosFor
  <1>4. DOMAIN cl = DOMAIN st.routes /\ \A i \in DOMAIN st.routes : cl[i] = st.routes[i]
    <2>1. /\ DOMAIN cl = DOMAIN st.routes
          /\ \A i \in DOMAIN st.routes : c \notin st.routes[i].readers => cl[i] = st.routes[i]
      <3> DEFINE u == st.routes
      <3>1. u \in Seq(Routes)
        BY <1>1
      <3> HIDE DEF P, u
      <3>2. DOMAIN Cleared(u, P, c) = DOMAIN u
        BY <1>2, <3>1, ClearedSame
      <3>3. ASSUME NEW i \in DOMAIN u, c \notin u[i].readers PROVE Cleared(u, P, c)[i] = u[i]
        BY <1>2, <3>1, <3>3, ClearedSame
      <3> QED
        BY <3>2, <3>3 DEF u
    <2>2. \A i \in DOMAIN st.routes : c \notin st.routes[i].readers
      BY OwnedIs DEF RoutesOwned
    <2> QED
      BY <2>1, <2>2
  <1>5. cl \in Seq(Routing)
    BY <1>1, ClearedIs
  <1>6. RoutesFor(st, c, t, unit) = WithReaders(w)
    BY DEF RoutesFor
  <1>7. LostBy(st, c, t, unit) = {} /\ OldOf(st, c, t, unit) = {}
    BY <1>2 DEF LostBy, OldOf
  <1>8. o \in Seq(Routing) /\ en \in Routing /\ pos \in DOMAIN o
    BY BarCallersAre, OpenedIs, EnteredByIs
  <1>9. en = Entered(o[pos], Key(c), c, t)
    BY DEF EnteredBy
  <1> HIDE DEF P, cl, o, pos, en
  <1>10. Grows(cl, o, NewRoute(t, unit))
    BY <1>3, <1>5, AppendGrows
  <1>11. Len(cl) = Len(st.routes) /\ Len(st.routes) \in Nat /\ DOMAIN st.routes = 1 .. Len(st.routes)
    BY <1>1, <1>4, <1>5
  <1>12. pos = Len(st.routes) + 1
    BY <1>3, <1>8, <1>10, <1>11 DEF Grows
  <1>13. o[pos] = NewRoute(t, unit)
    BY <1>10, <1>11, <1>12 DEF Grows
  <1>14. RouteMade(en, c, t)
    BY <1>9, <1>13, EntersNew
  <1>15. Grows(st.routes, w, en)
    BY <1>4, <1>8, <1>10, <1>11, <1>12 DEF Grows
  <1>16. w \in Seq(Routing)
    BY <1>8
  <1> HIDE DEF w
  <1>17. AdmittedTo(st.routes, w, c, t)
    BY <1>14, <1>15, NewAdmits
  <1>18. \A i \in DOMAIN st.routes : st.routes[i].readers # {}
    BY OwnedIs DEF RoutesOwned
  <1>19. \A i \in DOMAIN w : w[i].readers # {}
    <2>1. \A i \in DOMAIN w : (i \in DOMAIN st.routes /\ w[i] = st.routes[i]) \/ w[i] = en
      BY <1>15 DEF Grows
    <2>2. en.readers # {}
      BY <1>14 DEF RouteMade
    <2> QED
      BY <1>18, <2>1, <2>2
  <1>20. Thins(w, WithReaders(w), DOMAIN w)
    BY <1>16, <1>19, ReadersThin
  <1>21. AdmittedTo(st.routes, RoutesFor(st, c, t, unit), c, t)
    BY <1>6, <1>17, <1>20, ThinsRoutes
  <1>22. en.readers = {c}
    BY <1>14 DEF RouteMade
  <1> QED
    BY <1>7, <1>21, <1>22 DEF AssignedAlone, en

(* assign_bar_route, told t for the request at `at'. *)
LEMMA AssignsAlone ==
  ASSUME NEW st \in State, NEW at \in DOMAIN st.subs, NEW t \in Nat, NEW unit \in load.units \cup {0},
         RoutesOwned(st.routes, st.subs[at].c, t), Apart, NEW e, e = AssignBarRoute(st, at, t, unit)
  PROVE  /\ AdmittedTo(st.routes, e.routes, st.subs[at].c, t)
         /\ Renumbered(st.subs, e.subs, {st.subs[at].c}, {}, t)
         /\ BarTables(st, e, e.subs, e.routes, st.resub, st.unnumbered, st.batch)
  <1> DEFINE c == st.subs[at].c
             sub == SubsFor(st, c, t, unit)
             rou == RoutesFor(st, c, t, unit)
  <1>1. c \in BarCallers /\ c \in Callers
    BY BarRecordsAre, BarCallersAre
  <1>2. AssignedAlone(st, c, t, unit)
    BY <1>1, AssignsAgain, AssignsNew
  <1>o. OldOf(st, c, t, unit) = {}
    BY <1>2 DEF AssignedAlone
  <1>3. e = AssignedTo(st, c, t, unit)
    BY <1>o, AssignIs, ZenonT(40)
  <1>4. rou \in Seq(Routes) /\ Renumbered(st.subs, sub, {c}, {}, t)
    <2>1. /\ rou \in Seq(Routes)
          /\ Renumbered(st.subs, sub, EnteredBy(st, c, t, unit).readers, LostBy(st, c, t, unit), t)
      <3> HIDE DEF c
      <3> QED
        BY <1>1, EnteredByIs
    <2>2. EnteredBy(st, c, t, unit).readers = {c} /\ LostBy(st, c, t, unit) = {}
      BY <1>2 DEF AssignedAlone
    <2> QED
      BY <2>1, <2>2
  <1>5. AdmittedTo(st.routes, rou, c, t)
    BY <1>2 DEF AssignedAlone
  <1>6. e = [st EXCEPT !.subs = sub, !.routes = rou]
    BY <1>3 DEF AssignedTo
  <1>7. sub \in Seq(BarRecords)
    BY <1>4 DEF Renumbered
  <1>d. c = st.subs[at].c
    OBVIOUS
  <1> HIDE DEF c, sub, rou
  <1>8. BarTables(st, [st EXCEPT !.subs = sub], sub, st.routes, st.resub, st.unnumbered, st.batch)
    BY <1>7, TablesAreNow, SetSubs
  <1>9. BarTables(st, [[st EXCEPT !.subs = sub] EXCEPT !.routes = rou], sub, rou, st.resub, st.unnumbered, st.batch)
    BY <1>4, <1>8, SetRoutes
  <1>10. BarTables(st, e, sub, rou, st.resub, st.unnumbered, st.batch)
    BY <1>6, <1>9
  <1>11. e.subs = sub /\ e.routes = rou
    BY <1>10 DEF BarTables
  <1> QED
    BY <1>4, <1>5, <1>10, <1>11, <1>d

-----------------------------------------------------------------------------
(* The records when a request is told its number: those there were, and    *)
(* perhaps one more of its own.                                            *)
RowsFor(subs, rows, c) ==
  /\ \A j \in DOMAIN rows : rows[j].c = c \/ (j \in DOMAIN subs /\ rows[j] = subs[j])
  /\ \A j \in DOMAIN subs : j \in DOMAIN rows /\ rows[j] = subs[j]
  /\ \E j \in DOMAIN rows : rows[j].c = c

(* ... and afterwards. *)
RowsTold(subs, subs2, c, t) ==
  /\ \A j \in DOMAIN subs2 :
       \/ subs2[j].c = c /\ subs2[j].t = t
       \/ subs2[j].c # c /\ j \in DOMAIN subs
          /\ subs2[j].q = subs[j].q /\ subs2[j].c = subs[j].c /\ subs2[j].t = subs[j].t
  /\ \A j \in DOMAIN subs : j \in DOMAIN subs2 /\ subs2[j].q = subs[j].q /\ subs2[j].c = subs[j].c
  /\ \E j \in DOMAIN subs2 : subs2[j].c = c

LEMMA RowsAreTold ==
  ASSUME NEW subs, NEW rows, NEW subs2, NEW c, NEW t, RowsFor(subs, rows, c),
         Renumbered(rows, subs2, {c}, {}, t)
  PROVE  RowsTold(subs, subs2, c, t)
  <1>1. /\ DOMAIN subs2 = DOMAIN rows
        /\ \A i \in DOMAIN rows : subs2[i].q = rows[i].q /\ subs2[i].c = rows[i].c
        /\ \A i \in DOMAIN rows : rows[i].c = c => subs2[i].t = t
        /\ \A i \in DOMAIN rows : rows[i].c # c => subs2[i].t = rows[i].t
    BY DEF Renumbered
  <1> QED
    BY <1>1 DEF RowsFor, RowsTold

LEMMA LedgerTold ==
  ASSUME NEW subs, NEW routes, NEW resub, NEW batch, NEW ref, NEW subs2, NEW routes2,
         NEW c \in BarCallers, NEW t, t # NoNumber,
         Ledger(subs, routes, resub, batch, ref, {}), InResub(resub, c),
         RowsTold(subs, subs2, c, t), AdmittedTo(routes, routes2, c, t)
  PROVE  Ledger(subs2, routes2, resub, batch, ref, {})
  <1>1. Routed(subs2, routes2)
    <2> SUFFICES ASSUME NEW k \in DOMAIN routes2
                 PROVE  \E d \in BarCallers : RouteFor(routes2[k], d, subs2)
      BY DEF Routed
    <2>1. CASE RouteMade(routes2[k], c, t)
      <3>1. RouteFor(routes2[k], c, subs2)
        BY <2>1 DEF RouteMade, RouteFor, RowsTold
      <3> QED
        BY <3>1
    <2>2. ASSUME NEW i \in DOMAIN routes, routes2[k] = routes[i], routes[i].readers # {c}
          PROVE  \E d \in BarCallers : RouteFor(routes2[k], d, subs2)
      <3>1. PICK d \in BarCallers : RouteFor(routes[i], d, subs)
        BY DEF Ledger, Routed
      <3>2. d # c
        BY <2>2, <3>1 DEF RouteFor
      <3>3. \E j \in DOMAIN subs2 : subs2[j].c = d
        BY <3>1 DEF RouteFor, RowsTold
      <3>4. \A j \in DOMAIN subs2 : subs2[j].c = d => subs2[j].t = routes[i].t
        BY <3>1, <3>2 DEF RouteFor, RowsTold
      <3>5. RouteFor(routes2[k], d, subs2)
        BY <2>2, <3>1, <3>3, <3>4 DEF RouteFor
      <3> QED
        BY <3>5
    <2> QED
      BY <2>1, <2>2 DEF AdmittedTo
  <1>2. OneRouteEach(routes2)
    BY DEF AdmittedTo
  <1>3. NumberedRouted(subs2, routes2)
    <2> SUFFICES ASSUME NEW j \in DOMAIN subs2, subs2[j].t # NoNumber
                 PROVE  \E k \in DOMAIN routes2 : subs2[j].c \in routes2[k].readers
      BY DEF NumberedRouted
    <2>1. CASE subs2[j].c = c
      BY <2>1 DEF AdmittedTo, RouteMade
    <2>2. CASE subs2[j].c # c
      <3>1. j \in DOMAIN subs /\ subs2[j].c = subs[j].c /\ subs[j].t # NoNumber
        BY <2>2 DEF RowsTold
      <3>2. PICK i \in DOMAIN routes : subs[j].c \in routes[i].readers
        BY <3>1 DEF Ledger, NumberedRouted
      <3>3. PICK k \in DOMAIN routes2 : routes2[k] = routes[i]
        BY DEF AdmittedTo
      <3> QED
        BY <3>1, <3>2, <3>3
    <2> QED
      BY <2>1, <2>2
  <1>4. \A j \in DOMAIN subs2 : subs2[j].t = NoNumber =>
          /\ subs2[j].c # c /\ j \in DOMAIN subs /\ subs[j].t = NoNumber
          /\ subs2[j].q = subs[j].q /\ subs2[j].c = subs[j].c
    BY DEF RowsTold
  <1>5. WaitsAlone(subs2)
    <2> SUFFICES ASSUME NEW i \in DOMAIN subs2, NEW j \in DOMAIN subs2,
                        subs2[i].c = subs2[j].c, subs2[i].t = NoNumber
                 PROVE  i = j
      BY DEF WaitsAlone
    <2>1. i \in DOMAIN subs /\ subs[i].t = NoNumber /\ subs2[i].c = subs[i].c /\ subs2[i].c # c
      BY <1>4
    <2>2. j \in DOMAIN subs /\ subs2[j].c = subs[j].c
      BY <2>1 DEF RowsTold
    <2> QED
      BY <2>1, <2>2 DEF Ledger, WaitsAlone
  <1>6. NewNames(subs2, batch)
    BY <1>4 DEF Ledger, NewNames
  <1>7. ResubHeld(subs2, resub)
    <2> SUFFICES ASSUME NEW k \in DOMAIN resub PROVE \E j \in DOMAIN subs2 : subs2[j].c = resub[k]
      BY DEF ResubHeld
    <2>1. PICK j \in DOMAIN subs : subs[j].c = resub[k]
      BY DEF Ledger, ResubHeld
    <2> QED
      BY <2>1 DEF RowsTold
  <1>8. SubsKept(subs2, resub)
    <2> SUFFICES ASSUME NEW j \in DOMAIN subs2 PROVE InResub(resub, subs2[j].c)
      BY DEF SubsKept
    <2>1. CASE subs2[j].c = c
      BY <2>1
    <2>2. CASE subs2[j].c # c
      BY <2>2 DEF RowsTold, Ledger, SubsKept
    <2> QED
      BY <2>1, <2>2
  <1> QED
    BY <1>1, <1>2, <1>3, <1>5, <1>6, <1>7, <1>8 DEF Ledger

(* The number told is the request's own: its route, if it has one, is under *)
(* it, and no other route is.                                               *)
LEMMA ToldIsOwn ==
  ASSUME NEW st, st \in State, BarSide(st, {}), Wire(st), st.up, Apart, NEW m, 1 \in Answers(st),
         st.in[1] = m, m.m = "ack", NEW c \in BarCallers, m.key = Key(c), Name(m) \in BarAsks(st)
  PROVE  RoutesOwned(st.routes, c, m.t)
  <1>1. [key |-> m.key, t |-> m.t] \in st.running
    BY DEF BarSide, BarNet, Net, AckedServed, Serves
  <1>2. /\ Routed(st.subs, st.routes) /\ OneRouteEach(st.routes)
    BY DEF BarSide, LedgerOf, Ledger
  <1>3. ASSUME NEW i \in DOMAIN st.routes PROVE RouteOwned(st.routes[i], c, m.t)
    <2> DEFINE n == st.routes[i]
    <2>1. PICK d \in BarCallers : RouteFor(n, d, st.subs)
      BY <1>2 DEF Routed
    <2>2. n.readers = {d} /\ n.contracts = <<Key(d)>> /\ n.active /\ n.t # NoNumber
      BY <2>1 DEF RouteFor
    <2>3. PICK j \in DOMAIN st.subs : st.subs[j].c = d /\ st.subs[j].t = n.t
      BY <2>1 DEF RouteFor
    <2> HIDE DEF n
    <2>4. [key |-> Key(d), t |-> n.t] \in Held(st.subs)
      BY <2>2, <2>3 DEF Held, Numbered
    <2>5. [key |-> Key(d), t |-> n.t] \in st.running
      BY <2>4 DEF BarSide, BarNet, Net, HeldServed, Serves
    <2>6. d = c => n.t = m.t
      BY <1>1, <2>5 DEF Wire, RunsOnce
    <2>7. n.t = m.t => d = c
      <3>1. Key(d).tick = FALSE /\ Key(c).tick = FALSE
        BY BarRecordsAre
      <3>2. n.t = m.t => Key(d) = Key(c)
        BY <1>1, <2>5, <3>1 DEF Wire, RunsOnce
      <3> QED
        BY <3>2, ApartIs
    <2>8. n.readers = {c} <=> d = c
      BY <2>2
    <2>9. RouteOwned(n, c, m.t)
      BY <2>2, <2>6, <2>7, <2>8 DEF RouteOwned
    <2> QED
      BY <2>9 DEF n
  <1> QED
    BY <1>2, <1>3 DEF RoutesOwned

-----------------------------------------------------------------------------
(* A request has been told its number. *)
Told(st, r, e, c, t) ==
  /\ RowsTold(st.subs, e.subs, c, t) /\ AdmittedTo(st.routes, e.routes, c, t)
  /\ \A j \in DOMAIN e.subs : Asked(e.subs[j]) \in BarAsks(st)
  /\ e.resub = st.resub /\ e.unnumbered = st.unnumbered /\ e.batch = st.batch
  /\ SameReading(r, e) /\ SameWriting(r, e)

LEMMA ToldNet ==
  ASSUME NEW st, BarSide(st, {}), NEW e, NEW m, Reads(st, e, m), SameWriting(st, e), m.m = "ack",
         NEW c, m.key = Key(c), Name(m) \in BarAsks(st), NEW r, Told(st, r, e, c, m.t)
  PROVE  BarNet(e)
  <1> DEFINE I == BarAsks(st)
             G == Held(e.subs)
             H == Held(st.subs)
  <1>1. BarAsks(e) = I
    <2>1. BarAsks(e) \subseteq I
      BY DEF Told, BarAsks, AsksOf
    <2>2. AsksOf(st.subs) \subseteq AsksOf(e.subs)
      BY DEF Told, RowsTold, AsksOf, Asked
    <2>3. I \subseteq BarAsks(e)
      BY <2>2 DEF Told, BarAsks
    <2> QED
      BY <2>1, <2>3
  <1>2. Net(FALSE, I, st.unnumbered, H, st)
    BY DEF BarSide, BarNet
  <1>3. Name(m) \notin st.unnumbered
    BY <1>2 DEF Net, Sorted
  <1>4. Backed(I, G)
    BY <1>1, TablesBacked DEF Backed, BarAsks
  <1>5. \A g \in G : g \in H \/ (g.key = m.key /\ g.t = m.t)
    <2> SUFFICES ASSUME NEW j \in Numbered(e.subs)
                 PROVE  LET g == [key |-> Key(e.subs[j].c), t |-> e.subs[j].t]
                        IN  g \in H \/ (g.key = m.key /\ g.t = m.t)
      BY DEF Held
    <2>1. j \in DOMAIN e.subs /\ e.subs[j].t # NoNumber
      BY DEF Numbered
    <2>2. CASE e.subs[j].c = c /\ e.subs[j].t = m.t
      BY <2>2
    <2>3. CASE j \in DOMAIN st.subs /\ e.subs[j].c = st.subs[j].c /\ e.subs[j].t = st.subs[j].t
      BY <2>1, <2>3 DEF Held, Numbered
    <2> QED
      BY <2>1, <2>2, <2>3 DEF Told, RowsTold
  <1>6. Net(FALSE, I, e.unnumbered, G, e) => BarNet(e)
    BY <1>1 DEF BarNet
  <1>7. e.unnumbered = st.unnumbered /\ Name(m) \in I
    BY DEF Told
  <1> HIDE DEF I, G, H
  <1>8. Net(FALSE, I, st.unnumbered, G, e)
    BY <1>2, <1>3, <1>4, <1>5, <1>7, NetReads
  <1> QED
    BY <1>6, <1>7, <1>8

LEMMA ToldSide ==
  ASSUME NEW st, Common(st), Apart, BarSide(st, {}), NEW r, NEW m, Popped(st, r, m), m.m = "ack",
         NEW c \in BarCallers, m.key = Key(c), Name(m) \in BarAsks(st), InResub(st.resub, c),
         NEW e, Told(st, r, e, c, m.t)
  PROVE  BarSide(e, {})
  <1>1. st \in State /\ Wire(st) /\ st.up /\ st.in[1] = m /\ 1 \in DOMAIN st.in
    BY DEF Common, Popped
  <1>2. Reads(st, e, m) /\ SameWriting(st, e)
    BY ReadsThen DEF Told, SameWriting
  <1>3. e.refuses = st.refuses /\ e.out = st.out /\ e.up = st.up
    BY <1>2 DEF Reads, SameWriting
  <1>4. BarNet(e)
    BY <1>2, ToldNet
  <1>5. m.t # NoNumber
    BY <1>1 DEF Wire, ReadsTrue
  <1>6. LedgerOf(e, {})
    <2>1. Ledger(st.subs, st.routes, st.resub, st.batch, st.refuses, {})
      BY DEF BarSide, LedgerOf
    <2>2. RowsTold(st.subs, e.subs, c, m.t) /\ AdmittedTo(st.routes, e.routes, c, m.t)
      BY DEF Told
    <2>3. Ledger(e.subs, e.routes, st.resub, st.batch, st.refuses, {})
      BY <1>5, <2>1, <2>2, LedgerTold
    <2> QED
      BY <1>3, <2>3 DEF LedgerOf, Told
  <1>7. BarWaits(e)
    <2> SUFFICES ASSUME NEW k \in DOMAIN e.subs, e.subs[k].t = NoNumber
                 PROVE  InFlight(e, Asked(e.subs[k]))
      BY DEF BarWaits
    <2>1. /\ e.subs[k].c # c /\ k \in DOMAIN st.subs /\ st.subs[k].t = NoNumber
          /\ e.subs[k].q = st.subs[k].q /\ e.subs[k].c = st.subs[k].c
      BY <1>5 DEF Told, RowsTold
    <2>2. Asked(e.subs[k]) = Asked(st.subs[k])
      BY <2>1 DEF Asked
    <2>3. InFlight(st, Asked(st.subs[k]))
      BY <1>1, <2>1 DEF BarSide, BarWaits
    <2>4. Key(st.subs[k].c) # m.key
      <3>1. st.subs[k].c \in BarCallers
        BY <1>1, <2>1, BarRecordsAre
      <3> QED
        BY <2>1, <3>1, ApartIs
    <2>5. Name(m) # Asked(st.subs[k])
      BY <2>4 DEF Name, Asked
    <2> QED
      BY <1>2, <2>2, <2>3, <2>5, FlightReads
  <1>8. BatchFirst(e, {})
    <2>1. \A p \in AsksAt(e) : p \in AsksAt(st) /\ Follows(st, e, p, p)
      BY <1>3, FollowsSame
    <2>2. BatchFirst(st, {}) /\ e.batch \subseteq st.batch
      BY DEF BarSide, Told
    <2>3. \A b \in e.batch : \A i \in DOMAIN st.subs : st.subs[i].c = b.c =>
            \E j \in DOMAIN e.subs : e.subs[j].c = b.c /\ e.subs[j].q = st.subs[i].q
      BY DEF Told, RowsTold
    <2> QED
      BY <2>1, <2>2, <2>3, FirstStays
  <1> QED
    BY <1>4, <1>6, <1>7, <1>8 DEF BarSide

(* The acknowledgement of a record's ask. *)
LEMMA DirectSide ==
  ASSUME NEW st, Common(st), Apart, BarSide(st, {}), NEW r, NEW m, Popped(st, r, m), m.m = "ack",
         NEW at \in DOMAIN r.subs, r.subs[at].q = m.q, NEW e, e = AssignBarRoute(r, at, m.t, m.unit)
  PROVE  BarSide(e, {})
  <1> DEFINE c == r.subs[at].c
             x == Asked(st.subs[at])
  <1>1. /\ st \in State /\ Wire(st) /\ st.up /\ SameBars(st, r) /\ r \in State /\ m \in Arriving
        /\ st.in[1] = m /\ 1 \in DOMAIN st.in
    BY DEF Common, Popped
  <1>2. r.subs = st.subs /\ r.routes = st.routes /\ r.resub = st.resub /\ r.batch = st.batch
        /\ r.unnumbered = st.unnumbered
    BY <1>1 DEF SameBars
  <1>3. 1 \in Answers(st)
    BY <1>1 DEF Answers
  <1>4. x \in BarAsks(st) /\ IsName(x) /\ x.q = m.q /\ x.key = Key(c)
    BY <1>2, AskedNames DEF BarAsks
  <1>5. m.key = x.key
    <2> HIDE DEF x
    <2> QED
      BY <1>1, <1>3, <1>4 DEF BarSide, BarNet, Net, Matched
  <1>6. Name(m) \in BarAsks(st) /\ m.key = Key(c)
    BY <1>4, <1>5 DEF Name, IsName
  <1>7. c \in BarCallers
    BY <1>1, BarRecordsAre
  <1>8. InResub(st.resub, c)
    BY <1>2 DEF BarSide, LedgerOf, Ledger, SubsKept
  <1>9. RoutesOwned(r.routes, c, m.t)
    BY <1>1, <1>2, <1>3, <1>6, <1>7, ToldIsOwn
  <1>10. m.t \in Nat /\ m.unit \in load.units \cup {0}
    BY <1>1 DEF Arriving
  <1>11. /\ AdmittedTo(r.routes, e.routes, c, m.t) /\ Renumbered(r.subs, e.subs, {c}, {}, m.t)
         /\ BarTables(r, e, e.subs, e.routes, r.resub, r.unnumbered, r.batch)
    BY <1>1, <1>9, <1>10, AssignsAlone
  <1>d. r.subs[at].c = c
    OBVIOUS
  <1> HIDE DEF c, x
  <1>12. RowsFor(st.subs, r.subs, c)
    BY <1>2, <1>d DEF RowsFor
  <1>13. RowsTold(st.subs, e.subs, c, m.t)
    BY <1>11, <1>12, RowsAreTold
  <1>14. \A j \in DOMAIN e.subs : Asked(e.subs[j]) \in BarAsks(st)
    BY <1>2, <1>11 DEF Renumbered, BarAsks, AsksOf, Asked
  <1>15. Told(st, r, e, c, m.t)
    BY <1>2, <1>11, <1>13, <1>14 DEF Told, BarTables, Barred, SameWriting
  <1> QED
    BY <1>6, <1>7, <1>8, <1>15, ToldSide

(* The acknowledgement of a batch. *)
LEMMA BesideSide ==
  ASSUME NEW st, Common(st), Apart, BarSide(st, {}), NEW r, NEW m, Popped(st, r, m), m.m = "ack",
         NEW b \in r.batch, b.q = m.q,
         NEW e, e = AssignBarRoute(Beside(r, b.q, b.c), Len(r.subs) + 1, m.t, m.unit)
  PROVE  BarSide(e, {})
  <1> DEFINE c == b.c
             x == Asked(b)
             u == Beside(r, b.q, b.c)
             n == [q |-> b.q, c |-> b.c, t |-> NoNumber]
             at == Len(r.subs) + 1
  <1>1. /\ st \in State /\ Wire(st) /\ st.up /\ SameBars(st, r) /\ r \in State /\ m \in Arriving
        /\ st.in[1] = m /\ 1 \in DOMAIN st.in
    BY DEF Common, Popped
  <1>2. r.subs = st.subs /\ r.routes = st.routes /\ r.resub = st.resub /\ r.batch = st.batch
        /\ r.unnumbered = st.unnumbered
    BY <1>1 DEF SameBars
  <1>3. 1 \in Answers(st)
    BY <1>1 DEF Answers
  <1>4. x \in BarAsks(st) /\ IsName(x) /\ x.q = m.q /\ x.key = Key(c)
    BY <1>2 DEF BarAsks, Asked, IsName
  <1>5. m.key = x.key
    <2> HIDE DEF x
    <2> QED
      BY <1>1, <1>3, <1>4 DEF BarSide, BarNet, Net, Matched
  <1>6. Name(m) \in BarAsks(st) /\ m.key = Key(c)
    BY <1>4, <1>5 DEF Name, IsName
  <1>7. c \in BarCallers
    BY <1>1, BarRecordsAre
  <1>8. InResub(st.resub, c)
    <2>1. m.key \notin st.refuses
      BY <1>1 DEF Wire, ReadsTrue
    <2> QED
      BY <1>2, <1>6, <2>1 DEF BarSide, LedgerOf, Ledger, BatchKept
  <1>9. RoutesOwned(r.routes, c, m.t)
    BY <1>1, <1>2, <1>3, <1>6, <1>7, ToldIsOwn
  <1>10. m.t \in Nat /\ m.unit \in load.units \cup {0}
    BY <1>1 DEF Arriving
  <1>11. /\ BarTables(r, u, Append(r.subs, n), r.routes, r.resub, r.unnumbered, r.batch)
         /\ at \in DOMAIN u.subs /\ u.subs[at].c = c
    <2>1. Finite(r)
      BY PoppedSame
    <2> QED
      BY <1>1, <2>1, BesideStep
  <1>12. u \in State /\ u.subs = Append(r.subs, n) /\ u.routes = r.routes
    BY <1>11 DEF BarTables, Barred
  <1>13. r.subs \in Seq(BarRecords)
    BY <1>1 DEF State
  <1>d. n.c = c /\ Asked(n) = x
    BY DEF Asked
  <1>e. e = AssignBarRoute(u, at, m.t, m.unit)
    OBVIOUS
  <1> HIDE DEF c, x, u, n, at
  <1>14. Grows(r.subs, u.subs, n)
    BY <1>12, <1>13, AppendGrows
  <1>15. /\ AdmittedTo(u.routes, e.routes, c, m.t) /\ Renumbered(u.subs, e.subs, {c}, {}, m.t)
         /\ BarTables(u, e, e.subs, e.routes, u.resub, u.unnumbered, u.batch)
    BY <1>9, <1>10, <1>11, <1>12, <1>e, AssignsAlone
  <1>16. BarTables(r, e, e.subs, e.routes, r.resub, r.unnumbered, r.batch)
    <2>1. u.resub = r.resub /\ u.unnumbered = r.unnumbered /\ u.batch = r.batch
      BY <1>11 DEF BarTables
    <2> QED
      BY <1>11, <1>15, <2>1, TablesTwice
  <1>17. /\ \A j \in DOMAIN u.subs : (j \in DOMAIN r.subs /\ u.subs[j] = r.subs[j]) \/ u.subs[j] = n
         /\ \A j \in DOMAIN r.subs : j \in DOMAIN u.subs /\ u.subs[j] = r.subs[j]
    BY <1>14 DEF Grows
  <1>18. RowsFor(st.subs, u.subs, c)
    BY <1>2, <1>11, <1>17, <1>d DEF RowsFor
  <1>19. RowsTold(st.subs, e.subs, c, m.t)
    BY <1>15, <1>18, RowsAreTold
  <1>20. \A j \in DOMAIN e.subs : Asked(e.subs[j]) \in BarAsks(st)
    <2> SUFFICES ASSUME NEW j \in DOMAIN e.subs PROVE Asked(e.subs[j]) \in BarAsks(st)
      OBVIOUS
    <2>1. j \in DOMAIN u.subs /\ Asked(e.subs[j]) = Asked(u.subs[j])
      BY <1>15 DEF Renumbered, Asked
    <2>2. CASE u.subs[j] = n
      BY <1>4, <1>d, <2>1, <2>2
    <2>3. CASE j \in DOMAIN r.subs /\ u.subs[j] = r.subs[j]
      BY <1>2, <2>1, <2>3 DEF BarAsks, AsksOf
    <2> QED
      BY <1>17, <2>1, <2>2, <2>3
  <1>21. Told(st, r, e, c, m.t)
    BY <1>2, <1>12, <1>15, <1>16, <1>19, <1>20 DEF Told, BarTables, Barred, SameWriting
  <1> QED
    BY <1>6, <1>7, <1>8, <1>21, ToldSide

-----------------------------------------------------------------------------
(* A late acknowledgement leaves the tables but for the name it answers to. *)
LateNoted(st, e, m) ==
  /\ e.subs = st.subs /\ e.routes = st.routes /\ e.resub = st.resub /\ e.batch = st.batch
  /\ e.unnumbered = st.unnumbered \ {Name(m)}

LEMMA LateTables ==
  ASSUME NEW st, BarSide(st, {}), NEW e, NEW m, Reads(st, e, m), Name(m) \in st.unnumbered,
         LateNoted(st, e, m), st.up,
         e.out = st.out \/ Grows(st.out, e.out, CancelMsg(FALSE, m.t)),
         Net(FALSE, BarAsks(st), st.unnumbered \ {Name(m)}, Held(st.subs), e)
  PROVE  BarSide(e, {})
  <1>1. /\ e.subs = st.subs /\ e.routes = st.routes /\ e.resub = st.resub /\ e.batch = st.batch
        /\ e.unnumbered = st.unnumbered \ {Name(m)}
    BY DEF LateNoted
  <1>2. e.refuses = st.refuses /\ e.up = st.up
    BY DEF Reads
  <1>3. BarNet(e)
    BY <1>1 DEF BarNet, BarAsks
  <1>4. LedgerOf(e, {})
    BY <1>1, <1>2 DEF BarSide, LedgerOf
  <1>5. \A p \in AsksAt(st) : p \in AsksAt(e) /\ e.out[p] = st.out[p]
    <2>1. CASE e.out = st.out
      BY <2>1 DEF AsksAt
    <2>2. CASE Grows(st.out, e.out, CancelMsg(FALSE, m.t))
      <3>1. OutGrew(st, e, CancelMsg(FALSE, m.t))
        BY <2>2, Written
      <3> QED
        BY <3>1 DEF OutGrew
    <2> QED
      BY <2>1, <2>2
  <1>6. ReadOff(st, e, m)
    BY ReadsShrink
  <1>7. ASSUME NEW x, InFlight(st, x), x # Name(m) PROVE InFlight(e, x)
    <2>1. CASE \E p \in AsksAt(st) : Name(st.out[p]) = x
      BY <1>5, <2>1 DEF InFlight
    <2>2. CASE \E p \in Answers(st) : Name(st.in[p]) = x
      <3>1. PICK p \in Answers(st) : Name(st.in[p]) = x
        BY <2>2
      <3>2. p # 1
        BY <1>6, <1>7, <3>1 DEF ReadOff
      <3>3. p - 1 \in Answers(e) /\ e.in[p - 1] = st.in[p]
        BY <1>6, <3>2 DEF ReadOff
      <3> QED
        BY <3>1, <3>3 DEF InFlight
    <2> QED
      BY <1>7, <2>1, <2>2 DEF InFlight
  <1>8. BarWaits(e)
    <2> SUFFICES ASSUME NEW k \in DOMAIN st.subs, st.subs[k].t = NoNumber
                 PROVE  InFlight(e, Asked(st.subs[k]))
      BY <1>1 DEF BarWaits
    <2>1. InFlight(st, Asked(st.subs[k]))
      BY DEF BarSide, BarWaits
    <2>2. Asked(st.subs[k]) \in BarAsks(st)
      BY AskedNames DEF BarAsks
    <2>3. Asked(st.subs[k]) # Name(m)
      BY <2>2 DEF BarSide, BarNet, Net, Sorted
    <2> QED
      BY <1>7, <2>1, <2>3
  <1>9. \A p \in AsksAt(e) : p \in AsksAt(st) /\ Follows(st, e, p, p)
    <2>1. CASE e.out = st.out
      BY <2>1, FollowsSame
    <2>2. CASE Grows(st.out, e.out, CancelMsg(FALSE, m.t))
      BY <2>2, FollowsWritten DEF CancelMsg
    <2> QED
      BY <2>1, <2>2
  <1>10. BatchFirst(e, {})
    <2>1. BatchFirst(st, {}) /\ e.batch \subseteq st.batch
      BY <1>1 DEF BarSide
    <2> QED
      BY <1>1, <1>9, <2>1, FirstStays
  <1> QED
    BY <1>3, <1>4, <1>8, <1>10 DEF BarSide

(* The name a late acknowledgement answers to. *)
LEMMA LateBarName ==
  ASSUME NEW st \in State, BarSide(st, {}), NEW m, 1 \in Answers(st), st.in[1] = m,
         NEW u \in st.unnumbered, u.q = m.q
  PROVE  u = Name(m) /\ {x \in st.unnumbered : x.q # m.q} = st.unnumbered \ {Name(m)}
  <1>1. /\ \A x, y \in st.unnumbered : x.q = y.q => x = y
        /\ m.key = u.key
    BY DEF BarSide, BarNet, Net, Sorted, Matched
  <1>2. u = [q |-> u.q, key |-> u.key]
    BY DEF State, Named
  <1>3. u = Name(m)
    BY <1>1, <1>2 DEF Name
  <1>4. ASSUME NEW x \in st.unnumbered PROVE x.q # m.q <=> x # Name(m)
    BY <1>1, <1>3
  <1> QED
    BY <1>3, <1>4

(* Whoever wants the same bars has a name for them on the wire. *)
LEMMA WantedIs ==
  ASSUME NEW st, NEW r, SameBars(st, r), NEW key, key \notin st.refuses, LedgerOf(st, {})
  PROVE  Wanted(r, key) <=> \E y \in BarAsks(st) : y.key = key
  <1>1. r.resub = st.resub
    BY DEF SameBars
  <1>2. ASSUME NEW k \in DOMAIN st.resub, Key(st.resub[k]) = key
        PROVE  \E y \in BarAsks(st) : y.key = key
    <2>1. PICK j \in DOMAIN st.subs : st.subs[j].c = st.resub[k]
      BY DEF LedgerOf, Ledger, ResubHeld
    <2>2. Asked(st.subs[j]) \in BarAsks(st) /\ Asked(st.subs[j]).key = key
      BY <1>2, <2>1, AskedNames DEF BarAsks
    <2> QED
      BY <2>2
  <1>3. ASSUME NEW j \in DOMAIN st.subs, Key(st.subs[j].c) = key
        PROVE  \E k \in DOMAIN st.resub : Key(st.resub[k]) = key
    BY <1>3 DEF LedgerOf, Ledger, SubsKept, InResub
  <1>4. ASSUME NEW b \in st.batch, Key(b.c) = key
        PROVE  \E k \in DOMAIN st.resub : Key(st.resub[k]) = key
    BY <1>4 DEF LedgerOf, Ledger, BatchKept, InResub
  <1>5. ASSUME NEW y \in BarAsks(st), y.key = key
        PROVE  \E k \in DOMAIN st.resub : Key(st.resub[k]) = key
    BY <1>3, <1>4, <1>5 DEF BarAsks, AsksOf, Asked
  <1> QED
    BY <1>1, <1>2, <1>5 DEF Wanted

LEMMA LateSide ==
  ASSUME NEW st, Common(st), Apart, BarSide(st, {}), NEW r, NEW m, Popped(st, r, m), m.m = "ack",
         NEW u \in r.unnumbered, u.q = m.q,
         NEW e, e = IF Wanted(r, m.key) THEN Noted(r, m.q) ELSE Write(Noted(r, m.q), CancelMsg(FALSE, m.t))
  PROVE  BarSide(e, {})
  <1> DEFINE I == BarAsks(st)
             L == st.unnumbered
             M == st.unnumbered \ {Name(m)}
             H == Held(st.subs)
             d == Noted(r, m.q)
  <1>1. /\ st \in State /\ Wire(st) /\ st.up /\ SameBars(st, r) /\ r \in State /\ m \in Arriving
        /\ st.in[1] = m /\ 1 \in DOMAIN st.in /\ SameWriting(st, r)
    BY DEF Common, Popped
  <1>2. r.subs = st.subs /\ r.routes = st.routes /\ r.resub = st.resub /\ r.batch = st.batch
        /\ r.unnumbered = st.unnumbered
    BY <1>1 DEF SameBars
  <1>3. 1 \in Answers(st)
    BY <1>1 DEF Answers
  <1>4. Name(m) \in L /\ {x \in st.unnumbered : x.q # m.q} = M
    BY <1>1, <1>2, <1>3, LateBarName
  <1>5. BarTables(r, d, r.subs, r.routes, r.resub, M, r.batch)
    <2>1. Finite(r)
      BY PoppedSame
    <2> QED
      BY <1>1, <1>2, <1>4, <2>1, NotedStep
  <1>6. /\ d \in State /\ SameReading(r, d) /\ d.up = r.up /\ d.out = r.out
        /\ LateNoted(st, d, m)
    BY <1>2, <1>5 DEF BarTables, Barred, LateNoted
  <1>7. Net(FALSE, I, L, H, st)
    BY DEF BarSide, BarNet
  <1>8. OneNameEach(st) /\ ReadsTrue(st)
    BY <1>1 DEF Wire
  <1>9. m.key \notin st.refuses
    BY <1>1, <1>8 DEF ReadsTrue
  <1>10. Wanted(r, m.key) <=> \E y \in I : y.key = m.key
    BY <1>1, <1>9, WantedIs DEF BarSide
  <1>11. CASE Wanted(r, m.key)
    <2>1. e = d
      BY <1>11
    <2>2. SameReading(r, e) /\ SameWriting(r, e) /\ e.up = r.up /\ LateNoted(st, e, m)
      BY <1>6, <2>1 DEF SameWriting
    <2>3. Reads(st, e, m) /\ SameWriting(st, e)
      BY <2>2, ReadsThen
    <2>4. e.out = st.out
      BY <2>3 DEF SameWriting
    <2>5. \E y \in I : y.key = m.key
      BY <1>10, <1>11
    <2>6. M = L \ {Name(m)}
      OBVIOUS
    <2> HIDE DEF I, L, M, H, d
    <2>7. Net(FALSE, I, M, H, e)
      BY <1>4, <1>7, <1>8, <2>3, <2>5, <2>6, NetLateKept
    <2> QED
      BY <1>1, <1>4, <2>2, <2>3, <2>4, <2>7, LateTables DEF I, L, M, H
  <1>12. CASE ~Wanted(r, m.key)
    <2>1. e = Write(d, CancelMsg(FALSE, m.t))
      BY <1>12
    <2>2. m.t \in Nat
      BY <1>1 DEF Arriving
    <2>3. d.up
      BY <1>1, <1>6 DEF SameWriting
    <2> HIDE DEF d
    <2>4. Barred(d, e) /\ SameBars(d, e) /\ Wrote(d, e, CancelMsg(FALSE, m.t))
      BY <1>6, <2>1, <2>2, MessagesAreTyped, Writes
    <2>5. SameReading(r, e) /\ e.up = r.up /\ LateNoted(st, e, m)
      BY <1>6, <2>4 DEF Barred, SameBars, SameReading, LateNoted
    <2>6. Grows(st.out, e.out, CancelMsg(FALSE, m.t))
      BY <1>1, <1>6, <2>3, <2>4 DEF Wrote, SameWriting
    <2>7. Reads(st, e, m)
      BY <2>5, ReadsThen
    <2>8. \A y \in I : y.key # m.key
      BY <1>10, <1>12
    <2>9. M = L \ {Name(m)}
      OBVIOUS
    <2> HIDE DEF I, L, M, H
    <2>10. Net(FALSE, I, M, H, e)
      BY <1>4, <1>7, <1>8, <2>6, <2>7, <2>8, <2>9, NetLateStops
    <2> QED
      BY <1>1, <1>4, <2>5, <2>6, <2>7, <2>10, LateTables DEF I, L, M, H
  <1> QED
    BY <1>11, <1>12

(* parse_ticker_id *)
LEMMA BarAckSide ==
  ASSUME NEW st, Common(st), Apart, BarSide(st, {}), NEW r, NEW m, Popped(st, r, m), m.m = "ack"
  PROVE  BarSide(BarAck(r, m), {})
  <1> DEFINE e == BarAck(r, m)
  <1>1. r \in State /\ m \in Arriving /\ SameBars(st, r) /\ Reads(st, r, m) /\ SameWriting(st, r)
    BY DEF Popped
  <1>2. BarAcked(r, e, m)
    BY <1>1, BarAckIs
  <1> HIDE DEF e
  <1>3. ASSUME \A u \in r.unnumbered : u.q # m.q, \A i \in DOMAIN r.subs : r.subs[i].q # m.q, e = r
        PROVE  BarSide(e, {})
    <2>1. r.subs = st.subs /\ r.unnumbered = st.unnumbered
      BY <1>1 DEF SameBars
    <2>2. \A i \in DOMAIN st.subs : st.subs[i].t = NoNumber => Asked(st.subs[i]) # Name(m)
      BY <1>3, <2>1 DEF Asked, Name
    <2>3. Name(m) \notin st.unnumbered
      BY <1>3, <2>1 DEF Name
    <2> QED
      BY <1>1, <1>3, <2>2, <2>3, BarSideReads
  <1>4. ASSUME NEW u \in r.unnumbered, u.q = m.q,
               \/ e = Noted(r, m.q) /\ Wanted(r, m.key)
               \/ ~Wanted(r, m.key) /\ e = Write(Noted(r, m.q), CancelMsg(FALSE, m.t))
        PROVE  BarSide(e, {})
    <2>1. e = IF Wanted(r, m.key) THEN Noted(r, m.q) ELSE Write(Noted(r, m.q), CancelMsg(FALSE, m.t))
      BY <1>4
    <2> QED
      BY <1>4, <2>1, LateSide
  <1>5. ASSUME NEW at \in DOMAIN r.subs, r.subs[at].q = m.q, e = AssignBarRoute(r, at, m.t, m.unit)
        PROVE  BarSide(e, {})
    BY <1>5, DirectSide
  <1>6. ASSUME NEW b \in r.batch, b.q = m.q,
               e = AssignBarRoute(Beside(r, b.q, b.c), Len(r.subs) + 1, m.t, m.unit)
        PROVE  BarSide(e, {})
    BY <1>6, BesideSide
  <1> QED
    BY <1>2, <1>3, <1>4, <1>5, <1>6 DEF BarAcked, Noted, Beside, e

-----------------------------------------------------------------------------
(* What the ticks do leaves the bars as they are. *)
LEMMA TickedSide ==
  ASSUME NEW st, NEW e, NEW m, BarSide(st, {}), Ticked(st, e),
         e.out = st.out \/ (st.up /\ Grows(st.out, e.out, m)),
         \/ m.m = "ask" /\ m.key.tick # FALSE /\ FreshIn(st, m.q)
         \/ m.m = "cancel" /\ m.tick # FALSE
  PROVE  BarSide(e, {})
  <1>1. SameBars(st, e) /\ SameReading(st, e) /\ e.up = st.up
    BY DEF Ticked
  <1>2. CASE e.out = st.out
    <2>1. SameWriting(st, e)
      BY <1>1, <1>2 DEF SameWriting
    <2> QED
      BY <1>1, <2>1, BarSideTables
  <1>3. CASE st.up /\ Grows(st.out, e.out, m)
    BY <1>1, <1>3, BarSideWrites
  <1> QED
    BY <1>2, <1>3

LEMMA TickCancel ==
  ASSUME NEW t \in Nat
  PROVE  /\ CancelMsg(TRUE, t) \in Asking \cup Withdrawing
         /\ CancelMsg(TRUE, t).m = "cancel" /\ CancelMsg(TRUE, t).tick # FALSE
  BY MessagesAreTyped DEF CancelMsg

LEMMA WroteOr ==
  ASSUME NEW st, NEW d, NEW e, NEW m, SameWriting(st, d), Wrote(d, e, m)
  PROVE  e.out = st.out \/ (st.up /\ Grows(st.out, e.out, m))
  BY DEF SameWriting, Wrote

LEMMA SubscribeTickSide ==
  ASSUME NEW st, Common(st), BarSide(st, {}), st.up, NEW c \in Callers, IsTick(c)
  PROVE  BarSide(SendTbtSubscribe(st, c), {})
  <1> DEFINE q == FreshName(st)
             r == [q |-> q, c |-> c, t |-> NoNumber, price |-> 0]
             w == Append(st.tbt, r)
             d == [st EXCEPT !.tbt = w]
             m == AskMsg(q, Key(c))
             e == Write(d, m)
  <1>1. st \in State /\ Finite(st)
    BY DEF Common
  <1>2. FreshIn(st, q) /\ q \in Nat
    BY <1>1, FreshNames DEF FreshIn
  <1>e. SendTbtSubscribe(st, c) = e
    BY DEF SendTbtSubscribe
  <1> HIDE DEF q
  <1>3. r \in TickRecords
    BY <1>2 DEF TickRecords, NoNumber
  <1>4. st.tbt \in Seq(TickRecords)
    BY <1>1 DEF State
  <1>5. Key(c) \in Keys /\ Key(c).tick = TRUE
    BY KeyIs DEF IsTick
  <1>6. m \in Asking \cup Withdrawing /\ m.m = "ask" /\ m.q = q /\ m.key.tick # FALSE
    BY <1>2, <1>5, MessagesAreTyped DEF AskMsg
  <1> HIDE DEF r, m
  <1>7. w \in Seq(TickRecords)
    BY <1>3, <1>4
  <1> HIDE DEF w
  <1>8. Ticked(st, d) /\ SameWriting(st, d)
    BY <1>1, <1>7, SetTickTable
  <1> HIDE DEF d
  <1>9. Ticked(d, e) /\ Wrote(d, e, m)
    BY <1>6, <1>8, TickWrites DEF Ticked
  <1> HIDE DEF e
  <1>10. Ticked(st, e)
    BY <1>8, <1>9, TickedTwice
  <1>11. e.out = st.out \/ (st.up /\ Grows(st.out, e.out, m))
    BY <1>8, <1>9, WroteOr
  <1>12. m.m = "ask" /\ m.key.tick # FALSE /\ FreshIn(st, m.q)
    BY <1>2, <1>6
  <1>13. BarSide(e, {})
    BY <1>10, <1>11, <1>12, TickedSide
  <1> QED
    BY <1>13, <1>e

LEMMA UnsubscribeTickSide ==
  ASSUME NEW st, Common(st), BarSide(st, {}), NEW c \in Callers, TickAt(st, c) # {}
  PROVE  BarSide(SendTbtUnsubscribe(st, c), {})
  <1> DEFINE e == SendTbtUnsubscribe(st, c)
  <1>1. st \in State /\ Finite(st)
    BY DEF Common
  <1>2. TickWithdrawn(st, e, c)
    BY <1>1, UnsubscribeTickIs
  <1>e. SendTbtUnsubscribe(st, c) = e
    OBVIOUS
  <1> HIDE DEF e
  <1>3. PICK at \in DOMAIN st.tbt :
            \/ e = [TickLeaves(st, at) EXCEPT !.tbtUnnumbered = st.tbtUnnumbered \cup {Asked(st.tbt[at])}]
            \/ e = TickLeaves(st, at)
            \/ e = Write(TickLeaves(st, at), CancelMsg(TRUE, st.tbt[at].t))
    BY <1>2 DEF TickWithdrawn
  <1> DEFINE d == TickLeaves(st, at)
             x == Asked(st.tbt[at])
             m == CancelMsg(TRUE, st.tbt[at].t)
  <1>4. Ticked(st, d) /\ SameWriting(st, d)
    BY <1>1, LeavesIs
  <1>5. st.tbt[at] \in TickRecords
    BY <1>1 DEF State
  <1>m. m \in Asking \cup Withdrawing /\ m.m = "cancel" /\ m.tick # FALSE
    BY <1>5, TickCancel DEF TickRecords
  <1>c. \/ e = [d EXCEPT !.tbtUnnumbered = st.tbtUnnumbered \cup {x}]
        \/ e = d
        \/ e = Write(d, m)
    BY <1>3
  <1> HIDE DEF d, m
  <1>6. d \in State /\ Finite(d) /\ d.out = st.out
    BY <1>4 DEF Ticked, SameWriting
  <1>7. CASE e = [d EXCEPT !.tbtUnnumbered = st.tbtUnnumbered \cup {x}]
    <2> DEFINE L == st.tbtUnnumbered \cup {x}
    <2>1. x \in Named
      <3>1. st.tbt[at].q \in Nat /\ Key(st.tbt[at].c) \in Keys
        BY <1>5, KeyIs DEF TickRecords
      <3> QED
        BY <3>1 DEF Asked, Named
    <2> HIDE DEF x
    <2>2. L \in SUBSET Named /\ IsFiniteSet(L)
      <3>1. IsFiniteSet(st.tbtUnnumbered) /\ st.tbtUnnumbered \in SUBSET Named
        BY <1>1 DEF Finite, State
      <3> QED
        BY <2>1, <3>1, FS_AddElement
    <2>e. e = [d EXCEPT !.tbtUnnumbered = L]
      BY <1>7
    <2> HIDE DEF L
    <2>3. Ticked(d, e) /\ SameWriting(d, e)
      BY <1>6, <2>2, <2>e, SetTickLate
    <2>4. Ticked(st, e) /\ e.out = st.out
      BY <1>4, <1>6, <2>3, TickedTwice DEF SameWriting
    <2> QED
      BY <1>m, <1>e, <2>4, TickedSide
  <1>8. CASE e = d
    BY <1>4, <1>6, <1>8, <1>m, <1>e, TickedSide
  <1>9. CASE e = Write(d, m)
    <2>1. Ticked(d, e) /\ Wrote(d, e, m)
      BY <1>6, <1>9, <1>m, TickWrites
    <2>2. Ticked(st, e)
      BY <1>4, <2>1, TickedTwice
    <2>3. e.out = st.out \/ (st.up /\ Grows(st.out, e.out, m))
      BY <1>4, <2>1, WroteOr
    <2> QED
      BY <1>m, <1>e, <2>2, <2>3, TickedSide
  <1> QED
    BY <1>c, <1>7, <1>8, <1>9

(* The client reads what is no answer to an ask for bars. *)
LEMMA PoppedSide ==
  ASSUME NEW st, Common(st), BarSide(st, {}), NEW r, NEW m, Popped(st, r, m),
         m.m = "record" \/ m.key.tick = TRUE
  PROVE  BarSide(r, {})
  <1>1. st \in State /\ Reads(st, r, m) /\ SameWriting(st, r) /\ SameBars(st, r)
    BY DEF Popped, Common
  <1>2. CASE m.m = "record"
    <2>1. m.m # "record" =>
            /\ \A i \in DOMAIN st.subs : st.subs[i].t = NoNumber => Asked(st.subs[i]) # Name(m)
            /\ m.m = "ack" => Name(m) \notin st.unnumbered
      BY <1>2
    <2> QED
      BY <1>1, <2>1, BarSideReads
  <1>3. CASE m.key.tick = TRUE
    <2>1. Name(m).key.tick = TRUE
      BY <1>3 DEF Name
    <2>2. ASSUME NEW i \in DOMAIN st.subs PROVE Asked(st.subs[i]) # Name(m)
      <3>1. st.subs[i].c \in BarCallers
        BY <1>1, BarRecordsAre
      <3>2. Key(st.subs[i].c).tick = FALSE
        BY <1>1, <3>1, BarRecordsAre
      <3>3. Asked(st.subs[i]).key = Key(st.subs[i].c)
        BY DEF Asked
      <3> QED
        BY <2>1, <3>2, <3>3
    <2>3. \A u \in st.unnumbered : u.key.tick = FALSE
      BY DEF BarSide, BarNet, Net, Sorted
    <2>4. Name(m) \notin st.unnumbered
      BY <2>1, <2>3
    <2> QED
      BY <1>1, <2>2, <2>4, BarSideReads
  <1> QED
    BY <1>2, <1>3

LEMMA TickAckSide ==
  ASSUME NEW st, Common(st), BarSide(st, {}), NEW r, NEW m, Popped(st, r, m), m.m = "ack",
         m.key.tick = TRUE
  PROVE  BarSide(TickAck(r, m), {})
  <1> DEFINE e == TickAck(r, m)
  <1>1. r \in State /\ Finite(r)
    BY PoppedSame DEF Popped
  <1>2. TickAcked(r, e, m)
    BY <1>1, TickAckIs
  <1>e. TickAck(r, m) = e
    OBVIOUS
  <1> HIDE DEF e
  <1>3. BarSide(r, {})
    BY PoppedSide
  <1>t. m.t \in Nat
    BY DEF Popped, Arriving
  <1> DEFINE k == CancelMsg(TRUE, m.t)
  <1>k. k \in Asking \cup Withdrawing /\ k.m = "cancel" /\ k.tick # FALSE
    BY <1>t, TickCancel
  <1>6. CASE \E u \in r.tbtUnnumbered : u.q = m.q
    <2> DEFINE L == {u \in r.tbtUnnumbered : u.q # m.q}
               d == [r EXCEPT !.tbtUnnumbered = L]
    <2>c. e = d \/ e = Write(d, k)
      BY <1>2, <1>6 DEF TickAcked
    <2>3. L \in SUBSET Named /\ IsFiniteSet(L)
      <3>1. L \subseteq r.tbtUnnumbered
        OBVIOUS
      <3>2. IsFiniteSet(r.tbtUnnumbered) /\ r.tbtUnnumbered \in SUBSET Named
        BY <1>1 DEF Finite, State
      <3> HIDE DEF L
      <3> QED
        BY <3>1, <3>2, FS_Subset
    <2> HIDE DEF L
    <2>4. Ticked(r, d) /\ SameWriting(r, d)
      BY <1>1, <2>3, SetTickLate
    <2> HIDE DEF d, k
    <2>5. d \in State /\ Finite(d) /\ d.out = r.out
      BY <2>4 DEF Ticked, SameWriting
    <2>6. CASE e = d
      BY <1>3, <1>k, <1>e, <2>4, <2>5, <2>6, TickedSide
    <2>7. CASE e = Write(d, k)
      <3>1. Ticked(d, e) /\ Wrote(d, e, k)
        BY <1>k, <2>5, <2>7, TickWrites
      <3>2. Ticked(r, e)
        BY <2>4, <3>1, TickedTwice
      <3>3. e.out = r.out \/ (r.up /\ Grows(r.out, e.out, k))
        BY <2>4, <3>1, WroteOr
      <3> QED
        BY <1>3, <1>k, <1>e, <3>2, <3>3, TickedSide
    <2> QED
      BY <2>c, <2>6, <2>7
  <1>7. CASE \E at \in DOMAIN r.tbt : e = [r EXCEPT !.tbt = Number(r.tbt, at, m.t)]
    <2>1. PICK at \in DOMAIN r.tbt : e = [r EXCEPT !.tbt = Number(r.tbt, at, m.t)]
      BY <1>7
    <2> DEFINE w == Number(r.tbt, at, m.t)
    <2>2. r.tbt \in Seq(TickRecords)
      BY <1>1 DEF State
    <2>3. w \in Seq(TickRecords)
      BY <1>t, <2>2, NumberTyped
    <2>e. e = [r EXCEPT !.tbt = w]
      BY <2>1
    <2> HIDE DEF w, k
    <2>4. Ticked(r, e) /\ SameWriting(r, e)
      BY <1>1, <2>3, <2>e, SetTickTable
    <2>5. e.out = r.out
      BY <2>4 DEF SameWriting
    <2> QED
      BY <1>3, <1>k, <1>e, <2>4, <2>5, TickedSide
  <1>8. CASE e = r
    BY <1>3, <1>8, <1>e
  <1> QED
    BY <1>2, <1>6, <1>7, <1>8 DEF TickAcked

LEMMA TickDataSide ==
  ASSUME NEW st, Common(st), BarSide(st, {}), NEW r, NEW m, Popped(st, r, m), m.m = "record",
         m.key.tick = TRUE
  PROVE  BarSide(TickData(r, m), {})
  <1>1. r \in State /\ BarSide(r, {})
    BY PoppedSide DEF Popped
  <1>2. r.tbt = st.tbt /\ st.up /\ st.in[1] = m /\ 1 \in DOMAIN st.in
    BY DEF Popped, SameTicks
  <1>3. TickSide(st) /\ Wire(st)
    BY DEF Common
  <1>4. \A i \in DOMAIN r.tbt : r.tbt[i].t = m.t => Key(r.tbt[i].c) = m.key
    <2> SUFFICES ASSUME NEW i \in DOMAIN st.tbt, st.tbt[i].t = m.t PROVE Key(st.tbt[i].c) = m.key
      BY <1>2
    <2>1. st.in[1].key.tick = TRUE /\ st.in[1].m # "error" /\ st.tbt[i].t = st.in[1].t
      BY <1>2
    <2>2. Key(st.tbt[i].c) = st.in[1].key
      BY <1>2, <1>3, <2>1, TickNumbersAreTrue
    <2> QED
      BY <1>2, <2>2
  <1>5. SameBars(r, TickData(r, m)) /\ SameReading(r, TickData(r, m)) /\ SameWriting(r, TickData(r, m))
    BY <1>1, <1>4, TickDataIs
  <1> QED
    BY <1>1, <1>5, BarSideTables

LEMMA BarDataSide ==
  ASSUME NEW st, Common(st), BarSide(st, {}), NEW r, NEW m, Popped(st, r, m), m.m = "record"
  PROVE  BarSide(BarData(r, m), {})
  <1> DEFINE e == [r EXCEPT !.twice = r.twice]
  <1>1. r \in State /\ BarSide(r, {})
    BY PoppedSide DEF Popped
  <1>2. Common(r)
    BY PoppedCommon
  <1>3. BarData(r, m) = e
    BY <1>2, BarDataCommon
  <1>4. SameReading(r, e) /\ SameBars(r, e) /\ SameWriting(r, e)
    BY <1>1 DEF State, SameReading, SameBars, SameWriting
  <1> HIDE DEF e
  <1> QED
    BY <1>1, <1>3, <1>4, BarSideTables

LEMMA PollSide ==
  ASSUME NEW st, Common(st), Apart, BarSide(st, {}), st.up, st.in # <<>>, NEW e,
         e = Process([st EXCEPT !.in = Tail(st.in)], Head(st.in))
  PROVE  BarSide(e, {})
  <1> DEFINE r == [st EXCEPT !.in = Tail(st.in)]
             m == Head(st.in)
  <1>1. Popped(st, r, m)
    BY Pops DEF Common
  <1>e. e = Process(r, m)
    OBVIOUS
  <1> HIDE DEF r, m
  <1>2. m \in Arriving
    BY <1>1 DEF Popped
  <1>3. m.m \in {"ack", "error", "record"} /\ m.key.tick \in BOOLEAN
    <2>1. m.key \in Keys /\ m.m \in {"ack", "error", "record"}
      BY <1>2 DEF Arriving
    <2>2. PICK c \in Callers : m.key = Key(c)
      BY <2>1 DEF Keys
    <2>3. m.key.tick = IsTick(c)
      BY <2>2, KeyIs
    <2> QED
      BY <2>1, <2>3 DEF IsTick
  <1>4. CASE m.m = "ack" /\ m.key.tick = TRUE
    <2>1. e = TickAck(r, m)
      BY <1>4, <1>e DEF Process
    <2> QED
      BY <1>1, <1>4, <2>1, TickAckSide
  <1>5. CASE m.m = "ack" /\ m.key.tick = FALSE
    <2>1. e = BarAck(r, m)
      BY <1>5, <1>e DEF Process
    <2> QED
      BY <1>1, <1>5, <2>1, BarAckSide
  <1>6. CASE m.m = "error"
    <2>1. e = QueryError(r, m)
      BY <1>6, <1>e DEF Process
    <2> QED
      BY <1>1, <1>6, <2>1, QueryErrorSide
  <1>7. CASE m.m = "record" /\ m.key.tick = TRUE
    <2>1. e = TickData(r, m)
      BY <1>7, <1>e DEF Process
    <2> QED
      BY <1>1, <1>7, <2>1, TickDataSide
  <1>8. CASE m.m = "record" /\ m.key.tick = FALSE
    <2>1. e = BarData(r, m)
      BY <1>8, <1>e DEF Process
    <2> QED
      BY <1>1, <1>8, <2>1, BarDataSide
  <1> QED
    BY <1>3, <1>4, <1>5, <1>6, <1>7, <1>8

-----------------------------------------------------------------------------
(* A request for bars nobody else asks for is asked at the venue. *)
LEMMA SubscribeBarsSide ==
  ASSUME NEW st, Common(st), Apart, NEW but, NEW c \in BarCallers, but \subseteq {c},
         BarSide(st, but), st.up, SubsOf(st, c) = {}
  PROVE  BarSide(SendRealtimeBarSubscribe(st, c), {})
  <1> DEFINE e == SendRealtimeBarSubscribe(st, c)
  <1>1. st \in State /\ Finite(st)
    BY DEF Common
  <1>2. Running(st, c) = {}
    BY <1>1, NoneRunning
  <1>3. AsksBars(st, e, c)
    BY <1>1, <1>2, AsksStep
  <1> HIDE DEF e
  <1>4. BarSide(e, {})
    BY <1>1, <1>3, StreamAskedSide
  <1> QED
    BY <1>4 DEF e

LEMMA SendKeptSide ==
  ASSUME NEW st, Common(st), Apart, NEW c \in BarCallers, BarSide(st, {}), st.up,
         SubsOf(st, c) = {}
  PROVE  BarSide(SendKept(st, c), {})
  <1> DEFINE d == BatchAsked(st, c)
  <1>1. st \in State /\ Finite(st)
    BY DEF Common
  <1>2. AsksBatch(st, d, c)
    BY <1>1, BatchStep
  <1>3. Common(d) /\ d.up
    BY SendKeptCommon
  <1>4. SendKept(st, c) = SendRealtimeBarSubscribe(d, c)
    BY KeptIs
  <1> HIDE DEF d
  <1>5. BarSide(d, {c})
    BY <1>1, <1>2, BatchAskedSide
  <1>6. SubsOf(d, c) = {}
    BY <1>2 DEF AsksBatch, SubsOf
  <1>7. BarSide(SendRealtimeBarSubscribe(d, c), {})
    BY <1>3, <1>5, <1>6, SubscribeBarsSide
  <1> QED
    BY <1>4, <1>7

LEMMA SubscribeSide ==
  ASSUME NEW c \in Callers, Common(s), Apart, BarSide(s, {}), Subscribe(c)
  PROVE  BarSide(s', {})
  <1> DEFINE a == Counted(s)
  <1>1. Common(a) /\ SameWriting(s, a) /\ SameBars(s, a) /\ SameReading(s, a)
    BY CountedIs
  <1>2. s' = CASE IsTick(c) -> SendTbtSubscribe(a, c)
               [] IsKept(c) -> SendKept(a, c)
               [] OTHER -> SendRealtimeBarSubscribe(a, c)
    BY DEF Subscribe, Counted
  <1>3. s.up
    BY DEF Subscribe, TakesTick, TakesBars
  <1> HIDE DEF a
  <1>4. a.up
    BY <1>1, <1>3 DEF SameWriting
  <1>s. BarSide(a, {})
    BY <1>1, BarSideTables
  <1>5. CASE IsTick(c)
    <2>1. s' = SendTbtSubscribe(a, c)
      <3>1. IsKept(c) = FALSE
        BY <1>5 DEF IsTick, IsKept
      <3> QED
        BY <1>2, <1>5, <3>1
    <2>2. BarSide(SendTbtSubscribe(a, c), {})
      BY <1>1, <1>4, <1>5, <1>s, SubscribeTickSide
    <2> QED
      BY <2>1, <2>2
  <1>6. CASE ~IsTick(c)
    <2>1. c \in BarCallers
      BY <1>6 DEF BarCallers
    <2>2. SubsOf(s, c) = {}
      BY <1>6 DEF Subscribe, TakesBars
    <2>3. SubsOf(a, c) = {}
      BY <1>1, <2>2 DEF SubsOf, SameBars
    <2>4. CASE IsKept(c)
      <3>1. s' = SendKept(a, c)
        BY <1>2, <1>6, <2>4
      <3>2. BarSide(SendKept(a, c), {})
        BY <1>1, <1>4, <1>s, <2>1, <2>3, SendKeptSide
      <3> QED
        BY <3>1, <3>2
    <2>5. CASE ~IsKept(c)
      <3>1. s' = SendRealtimeBarSubscribe(a, c)
        BY <1>2, <1>6, <2>5
      <3>2. BarSide(SendRealtimeBarSubscribe(a, c), {})
        BY <1>1, <1>4, <1>s, <2>1, <2>3, SubscribeBarsSide
      <3> QED
        BY <3>1, <3>2
    <2> QED
      BY <2>4, <2>5
  <1> QED
    BY <1>5, <1>6

LEMMA UnsubscribeSide ==
  ASSUME NEW c \in Callers, Common(s), Apart, BarSide(s, {}), Unsubscribe(c)
  PROVE  BarSide(s', {})
  <1>1. CASE IsTick(c)
    BY <1>1, UnsubscribeTickSide DEF Unsubscribe
  <1>2. CASE ~IsTick(c)
    <2>1. c \in BarCallers
      BY <1>2 DEF BarCallers
    <2>2. s' = CancelBars(s, c)
      BY <1>2 DEF Unsubscribe
    <2>3. s \in State /\ Finite(s) /\ Wire(s)
      BY DEF Common
    <2>4. BarSide(CancelBars(s, c), {})
      BY <2>1, <2>3, CancelBarsSide
    <2> QED
      BY <2>2, <2>4
  <1> QED
    BY <1>1, <1>2

LEMMA VenueSide ==
  ASSUME Common(s), BarSide(s, {}), Venue
  PROVE  BarSide(s', {})
  <1> DEFINE m == Head(s.out)
             r == [s EXCEPT !.out = Tail(s.out)]
  <1>1. TakenOut(s, r, m)
    BY TakesOut DEF Venue
  <1>2. \/ m.m = "ask" /\ \E unit \in load.units : s' = VenueAsked(r, m, unit)
        \/ m.m = "cancel" /\ s' = VenueCancelled(r, m)
    BY DEF Venue
  <1> HIDE DEF m, r
  <1>3. CASE m.m = "ask" /\ \E unit \in load.units : s' = VenueAsked(r, m, unit)
    <2>1. PICK unit \in load.units : s' = VenueAsked(r, m, unit)
      BY <1>3
    <2>2. VenueTook(s, s', m)
      BY <1>1, <1>3, <2>1, VenueAskedIs
    <2>3. PICK a : TakesAsk(s, s', m, a)
      BY <2>2 DEF VenueTook
    <2>4. SameBars(s, s') /\ RunsOnce(s)
      BY <2>2 DEF VenueTook, Common, Wire
    <2> QED
      BY <2>3, <2>4, BarSideTakesAsk
  <1>4. CASE m.m = "cancel" /\ s' = VenueCancelled(r, m)
    <2>1. TakesCancel(s, s', m) /\ SameBars(s, s')
      BY <1>1, <1>4, VenueCancelledIs
    <2> QED
      BY <2>1, BarSideTakesCancel
  <1> QED
    BY <1>2, <1>3, <1>4

LEMMA VenueRecordSide ==
  ASSUME Common(s), BarSide(s, {}), VenueRecord
  PROVE  BarSide(s', {})
  <1>1. PICK x \in s.running :
          s' = Reply([s EXCEPT !.moves = @ + 1],
                     [m |-> "record", q |-> 0, key |-> x.key, t |-> x.t, unit |-> 0])
    BY DEF VenueRecord
  <1>2. s' = Reply(Moving(s), RecordOf(x))
    BY <1>1 DEF Moving, RecordOf
  <1>3. /\ WritesRecord(s, s', RecordOf(x)) /\ SameWriting(s, s') /\ SameBars(s, s')
    BY <1>2, VenueRecordIs
  <1> QED
    BY <1>3, BarSideRecord

(* The connection goes. *)
LEMMA EndedSide ==
  ASSUME NEW st, st \in State, BarSide(st, {}), NEW e, NEW K, Ended(st, e, K)
  PROVE  BarSide(e, {})
  <1>1. /\ Gone(e) /\ e.refuses = st.refuses /\ e.batch = {} /\ e.unnumbered = st.unnumbered
        /\ e.subs = NotOf(st.subs, K) /\ e.routes = Without(st.routes, K)
        /\ e.resub = NotAsked(st.resub, K)
    BY DEF Ended
  <1>2. /\ st.subs \in Seq(BarRecords) /\ st.routes \in Seq(Routes) /\ st.resub \in Seq(BarCallers)
    BY DEF State
  <1>3. Ledger(st.subs, st.routes, st.resub, st.batch, st.refuses, {})
    BY DEF BarSide, LedgerOf
  <1>4. Routed(st.subs, st.routes)
    BY <1>3 DEF Ledger
  <1>5. /\ Thins(st.subs, e.subs, OthersIn(st.subs, K))
        /\ Thins(st.routes, e.routes, RoutesOther(st.routes, K))
        /\ Thins(st.resub, e.resub, ResubOther(st.resub, K))
    BY <1>1, <1>2, <1>4, LessSubs, LessRoutes, LessResub
  <1>6. e.batch \subseteq st.batch /\ \A b \in e.batch : b.c \in K => Key(b.c) \in st.refuses
    BY <1>1
  <1>7. Ledger(e.subs, e.routes, e.resub, e.batch, st.refuses, {})
    BY <1>3, <1>5, <1>6, LedgerLess
  <1>8. LedgerOf(e, {})
    BY <1>1, <1>7 DEF LedgerOf
  <1>9. BarNet(e)
    <2>1. \A k \in DOMAIN e.subs : \E i \in DOMAIN st.subs : e.subs[k] = st.subs[i]
      <3>1. \A k \in DOMAIN e.subs : \E i \in OthersIn(st.subs, K) : e.subs[k] = st.subs[i]
        BY <1>5, ThinsFrom
      <3> QED
        BY <3>1 DEF OthersIn
    <2>2. AsksOf(e.subs) \subseteq AsksOf(st.subs)
      BY <2>1 DEF AsksOf
    <2>3. BarAsks(e) = AsksOf(e.subs)
      BY <1>1 DEF BarAsks
    <2>4. BarAsks(e) \subseteq BarAsks(st)
      BY <2>2, <2>3 DEF BarAsks
    <2>5. Backed(BarAsks(e), Held(e.subs))
      BY <2>3, TablesBacked
    <2>6. Net(FALSE, BarAsks(st), st.unnumbered, Held(st.subs), st)
      BY DEF BarSide, BarNet
    <2>7. Net(FALSE, BarAsks(e), st.unnumbered, Held(e.subs), e)
      BY <1>1, <2>4, <2>5, <2>6, NetGone
    <2> QED
      BY <1>1, <2>7 DEF BarNet
  <1>10. BarWaits(e)
    BY <1>1 DEF BarWaits, Gone
  <1>11. BatchFirst(e, {})
    BY <1>1 DEF BatchFirst
  <1> QED
    BY <1>8, <1>9, <1>10, <1>11 DEF BarSide

LEMMA DisconnectSide ==
  ASSUME Common(s), BarSide(s, {}), Disconnect
  PROVE  BarSide(s', {})
  <1> DEFINE K == {c \in Callers : IsKept(c) /\ \E b \in s.batch : b.c = c}
  <1>1. s' = Ending(s, K)
    BY DEF Disconnect, Ending
  <1> HIDE DEF K
  <1>2. Ended(s, s', K) /\ s \in State
    BY <1>1, EndingIs DEF Common
  <1> QED
    BY <1>2, EndedSide

(* The connection is there again, and every request for bars is asked again. *)
LEMMA LedgerAgain ==
  ASSUME NEW subs, NEW resub, NEW ref, DOMAIN subs = DOMAIN resub,
         \A k \in DOMAIN subs : subs[k].c = resub[k] /\ subs[k].t = NoNumber, ResubOnce(resub)
  PROVE  Ledger(subs, <<>>, resub, {}, ref, {})
  <1>1. Routed(subs, <<>>) /\ OneRouteEach(<<>>)
    BY DEF Routed, OneRouteEach
  <1>2. NumberedRouted(subs, <<>>)
    BY DEF NumberedRouted
  <1>3. WaitsAlone(subs)
    BY DEF WaitsAlone, ResubOnce
  <1>4. NewNames(subs, {}) /\ BatchKept(resub, {}, ref, {})
    BY DEF NewNames, BatchKept
  <1>5. ResubHeld(subs, resub) /\ SubsKept(subs, resub)
    BY DEF ResubHeld, SubsKept, InResub
  <1> QED
    BY <1>1, <1>2, <1>3, <1>4, <1>5 DEF Ledger

LEMMA BeganSide ==
  ASSUME NEW st, Common(st), BarSide(st, {}), NEW e, Began(st, e)
  PROVE  BarSide(e, {})
  <1> DEFINE n == Len(st.tbt)
  <1>s. st \in State /\ TickSide(st)
    BY DEF Common
  <1>1. /\ st.tbt \in Seq(TickRecords) /\ st.resub \in Seq(BarCallers) /\ n \in Nat
        /\ DOMAIN st.tbt = 1 .. n
    BY <1>s DEF State
  <1>2. /\ e.up /\ e.in = <<>> /\ e.running = {} /\ e.batch = {} /\ e.unnumbered = {}
        /\ e.routes = <<>> /\ e.resub = st.resub
        /\ AskedAgain(st, e.out) /\ BegunAgain(st, e.tbt, e.subs)
    BY DEF Began
  <1>3. /\ \A p \in DOMAIN e.out : e.out[p].m = "ask" /\ e.out[p].q = p /\ e.out[p].key = Key(Asker(st, p))
        /\ \A i \in 1 .. n : i \in DOMAIN e.out /\ Asker(st, i) = st.tbt[i].c
        /\ \A p \in DOMAIN e.out : p \in 1 .. n
                         \/ (p - n \in DOMAIN st.resub /\ Asker(st, p) = st.resub[p - n])
        /\ \A k \in DOMAIN st.resub : n + k \in DOMAIN e.out /\ Asker(st, n + k) = st.resub[k]
        /\ DOMAIN e.out = 1 .. n + Len(st.resub)
    BY <1>2 DEF AskedAgain
  <1>4. /\ DOMAIN e.subs = DOMAIN st.resub
        /\ \A k \in DOMAIN e.subs : e.subs[k].q = n + k /\ e.subs[k].c = st.resub[k] /\ e.subs[k].t = NoNumber
        /\ \A i \in 1 .. n : e.tbt[i].q = i
    BY <1>2 DEF BegunAgain
  <1>t. \A i \in 1 .. n : Key(st.tbt[i].c).tick = TRUE
    <2> SUFFICES ASSUME NEW i \in 1 .. n PROVE Key(st.tbt[i].c).tick = TRUE
      OBVIOUS
    <2>1. Sorted(TRUE, AsksOf(st.tbt), st.tbtUnnumbered)
      BY <1>s DEF TickSide, TickNet, Net
    <2>2. Asked(st.tbt[i]) \in AsksOf(st.tbt) /\ Asked(st.tbt[i]).key = Key(st.tbt[i].c)
      BY <1>1, AskedNames
    <2> QED
      BY <2>1, <2>2 DEF Sorted
  <1> HIDE DEF n
  <1>5. Anew(e)
    BY <1>2, <1>3 DEF Anew
  <1>6. ResubOnce(st.resub)
    BY DEF BarSide, LedgerOf, Ledger
  <1>7. LedgerOf(e, {})
    <2>1. Ledger(e.subs, <<>>, st.resub, {}, e.refuses, {})
      BY <1>4, <1>6, LedgerAgain
    <2> QED
      BY <1>2, <2>1 DEF LedgerOf
  <1>8. \A k \in DOMAIN e.subs : k \in Nat /\ n + k \in AsksAt(e) /\ Name(e.out[n + k]) = Asked(e.subs[k])
    <2> SUFFICES ASSUME NEW k \in DOMAIN e.subs
                 PROVE  k \in Nat /\ n + k \in AsksAt(e) /\ Name(e.out[n + k]) = Asked(e.subs[k])
      OBVIOUS
    <2>1. k \in DOMAIN st.resub /\ k \in Nat
      BY <1>1, <1>4
    <2>2. n + k \in AsksAt(e)
      BY <1>3, <2>1 DEF AsksAt
    <2>3. e.out[n + k].q = n + k /\ e.out[n + k].key = Key(st.resub[k])
      BY <1>3, <2>1
    <2> QED
      BY <1>4, <2>1, <2>2, <2>3 DEF Name, Asked
  <1>9. BarWaits(e)
    BY <1>8 DEF BarWaits, InFlight
  <1>10. BatchFirst(e, {})
    BY <1>2 DEF BatchFirst
  <1>11. Held(e.subs) = {}
    BY <1>4 DEF Held, Numbered
  <1>12. BarAsks(e) = AsksOf(e.subs)
    BY <1>2 DEF BarAsks
  <1>13. \A x \in AsksOf(e.subs) :
            \E k \in DOMAIN e.subs : x = Asked(e.subs[k]) /\ x.q = n + k /\ k \in Nat
                                     /\ x.key = Key(st.resub[k])
    <2> SUFFICES ASSUME NEW k \in DOMAIN e.subs
                 PROVE  /\ Asked(e.subs[k]).q = n + k /\ k \in Nat
                        /\ Asked(e.subs[k]).key = Key(st.resub[k])
      BY DEF AsksOf
    <2> QED
      BY <1>4, <1>8 DEF Asked
  <1>14. Sorted(FALSE, AsksOf(e.subs), {})
    <2>1. ASSUME NEW x \in AsksOf(e.subs), NEW y \in AsksOf(e.subs), x.q = y.q PROVE x = y
      <3>1. PICK j \in DOMAIN e.subs : x = Asked(e.subs[j]) /\ x.q = n + j /\ j \in Nat
        BY <1>13
      <3>2. PICK k \in DOMAIN e.subs : y = Asked(e.subs[k]) /\ y.q = n + k /\ k \in Nat
        BY <1>13
      <3>3. j = k
        BY <1>1, <2>1, <3>1, <3>2
      <3> QED
        BY <3>1, <3>2, <3>3
    <2>2. ASSUME NEW x \in AsksOf(e.subs) PROVE x.key.tick = FALSE
      <3>1. PICK k \in DOMAIN e.subs : x.key = Key(st.resub[k])
        BY <1>13
      <3>2. st.resub[k] \in BarCallers
        BY <1>1, <1>4, <3>1
      <3>3. Key(st.resub[k]).tick = FALSE
        BY <1>s, <3>2, BarRecordsAre
      <3> QED
        BY <3>1, <3>3
    <2> QED
      BY <2>1, <2>2 DEF Sorted
  <1>15. ASSUME NEW p \in AsksAt(e), NEW x \in AsksOf(e.subs), e.out[p].q = x.q
         PROVE  e.out[p].key = x.key
    <2>1. PICK k \in DOMAIN e.subs : x.q = n + k /\ k \in Nat /\ x.key = Key(st.resub[k])
      BY <1>13
    <2>2. p \in DOMAIN e.out
      BY DEF AsksAt
    <2>3. p = n + k /\ k \in DOMAIN st.resub
      BY <1>3, <1>4, <1>15, <2>1, <2>2
    <2> QED
      BY <1>3, <2>1, <2>2, <2>3
  <1>16. ASSUME NEW p \in AsksAt(e), e.out[p].key.tick = FALSE
         PROVE  Name(e.out[p]) \in AsksOf(e.subs)
    <2>1. p \in DOMAIN e.out /\ p \in Nat
      BY <1>1, <1>3 DEF AsksAt
    <2>2. p \notin 1 .. n
      <3> SUFFICES ASSUME p \in 1 .. n PROVE FALSE
        OBVIOUS
      <3>1. Asker(st, p) = st.tbt[p].c /\ e.out[p].key = Key(Asker(st, p))
        BY <1>3, <2>1
      <3> QED
        BY <1>16, <1>t, <3>1
    <2>3. p - n \in DOMAIN e.subs
      BY <1>3, <1>4, <2>1, <2>2
    <2>4. n + (p - n) = p
      BY <1>1, <2>1
    <2>5. Name(e.out[p]) = Asked(e.subs[p - n])
      BY <1>8, <2>3, <2>4
    <2> QED
      BY <2>3, <2>5 DEF AsksOf
  <1>17. Net(FALSE, AsksOf(e.subs), {}, {}, e)
    BY <1>5, <1>14, <1>15, <1>16, NetAnew
  <1>18. BarNet(e)
    BY <1>2, <1>11, <1>12, <1>17 DEF BarNet
  <1> QED
    BY <1>7, <1>9, <1>10, <1>18 DEF BarSide

LEMMA ReconnectSide ==
  ASSUME Common(s), BarSide(s, {}), Reconnect
  PROVE  BarSide(s', {})
  <1>1. s' = Again(s) /\ ~s.up
    BY DEF Reconnect, Again
  <1>2. Began(s, s')
    BY <1>1, AgainIs
  <1> QED
    BY <1>2, BeganSide

LEMMA PollsSide ==
  ASSUME Common(s), Apart, BarSide(s, {}), Poll
  PROVE  BarSide(s', {})
  <1>1. s.up /\ s.in # <<>> /\ s' = Process([s EXCEPT !.in = Tail(s.in)], Head(s.in))
    BY DEF Poll
  <1> QED
    BY <1>1, PollSide

-----------------------------------------------------------------------------
(* What is said of the bars stays with the workload. *)
LEMMA BarTablesStay ==
  ASSUME load' = load
  PROVE  /\ Apart' <=> Apart
         /\ \A u, v : Routed(u, v)' <=> Routed(u, v)
         /\ \A u, v, w, x : BatchKept(u, v, w, x)' <=> BatchKept(u, v, w, x)
         /\ \A x : Asked(x)' = Asked(x)
  <1>1. \A c : Key(c)' = Key(c)
    BY DEF Key
  <1>2. \A c : IsTick(c)' = IsTick(c)
    BY DEF IsTick
  <1>3. Callers' = Callers /\ BarCallers' = BarCallers
    BY CallersStay
  <1>4. Apart' <=> Apart
    BY <1>1, <1>2, <1>3 DEF Apart
  <1>5. \A r, c, u : RouteFor(r, c, u)' <=> RouteFor(r, c, u)
    BY <1>1 DEF RouteFor
  <1>6. \A u, v : Routed(u, v)' <=> Routed(u, v)
    BY <1>3, <1>5 DEF Routed
  <1>7. \A u, v, w, x : BatchKept(u, v, w, x)' <=> BatchKept(u, v, w, x)
    BY <1>1 DEF BatchKept, InResub
  <1>8. \A x : Asked(x)' = Asked(x)
    BY <1>1 DEF Asked
  <1> QED
    BY <1>4, <1>6, <1>7, <1>8

LEMMA BarSideStays ==
  ASSUME load' = load, BarSide(s', {})
  PROVE  BarSide(s, {})'
  <1>1. BarNet(s') /\ LedgerOf(s', {}) /\ BarWaits(s') /\ BatchFirst(s', {})
    BY DEF BarSide
  <1>2. BarNet(s)'
    <2>1. Net(FALSE, AsksOf(s'.subs) \cup {Asked(b) : b \in s'.batch}, s'.unnumbered, Held(s'.subs), s')
      BY <1>1 DEF BarNet, BarAsks
    <2>2. AsksOf(s.subs)' = AsksOf(s'.subs) /\ Held(s.subs)' = Held(s'.subs)
      BY TablesStay
    <2>3. {Asked(b) : b \in s.batch}' = {Asked(b) : b \in s'.batch}
      BY BarTablesStay
    <2> QED
      BY <2>1, <2>2, <2>3 DEF BarNet, BarAsks
  <1>3. LedgerOf(s, {})'
    <2>1. Ledger(s'.subs, s'.routes, s'.resub, s'.batch, s'.refuses, {})
      BY <1>1 DEF LedgerOf
    <2>2. /\ Routed(s'.subs, s'.routes)
          /\ BatchKept(s'.resub, s'.batch, s'.refuses, {})
      BY <2>1 DEF Ledger
    <2>3. Routed(s.subs, s.routes)' /\ BatchKept(s.resub, s.batch, s.refuses, {})'
      BY <2>2, BarTablesStay
    <2> QED
      BY <2>1, <2>3 DEF LedgerOf, Ledger
  <1>4. BarWaits(s)'
    <2>1. \A x : Asked(x)' = Asked(x)
      BY BarTablesStay
    <2> QED
      BY <1>1, <2>1 DEF BarWaits
  <1>5. BatchFirst(s, {})'
    BY <1>1 DEF BatchFirst
  <1> QED
    BY <1>2, <1>3, <1>4, <1>5 DEF BarSide

(* And of the bars, where no two callers ask for the same. *)
BarInv == Inv /\ (Apart => BarSide(s, {}))

LEMMA FreshSide ==
  ASSUME NEW ref \in SUBSET Keys
  PROVE  BarSide(Fresh(ref), {})
  <1> DEFINE e == Fresh(ref)
  <1>1. /\ e.out = <<>> /\ e.in = <<>> /\ e.running = {} /\ e.batch = {} /\ e.unnumbered = {}
        /\ e.subs = <<>> /\ e.routes = <<>> /\ e.resub = <<>>
    BY DEF Fresh
  <1> HIDE DEF e
  <1>2. BarAsks(e) = {} /\ Held(e.subs) = {} /\ AsksAt(e) = {}
    BY <1>1 DEF BarAsks, AsksOf, Held, Numbered, AsksAt
  <1>3. Anew(e) /\ Sorted(FALSE, {}, {})
    BY <1>1 DEF Anew, Sorted
  <1>4. Net(FALSE, {}, {}, {}, e)
    BY <1>2, <1>3, NetAnew
  <1>5. BarNet(e)
    BY <1>1, <1>2, <1>4 DEF BarNet
  <1>6. Ledger(<<>>, <<>>, <<>>, {}, e.refuses, {})
    <2>1. ResubOnce(<<>>)
      BY DEF ResubOnce
    <2> QED
      BY <2>1, LedgerAgain
  <1>7. LedgerOf(e, {})
    BY <1>1, <1>6 DEF LedgerOf
  <1>8. BarWaits(e) /\ BatchFirst(e, {})
    BY <1>1 DEF BarWaits, BatchFirst
  <1> QED
    BY <1>5, <1>7, <1>8 DEF BarSide, e

LEMMA InitBarInv ==
  Init => BarInv
  <1> SUFFICES ASSUME Init PROVE BarInv
    OBVIOUS
  <1>1. PICK ref \in SUBSET {Key(c) : c \in Callers} : s = Fresh(ref)
    BY DEF Init, Fresh
  <1>2. ref \in SUBSET Keys
    BY <1>1 DEF Keys
  <1> QED
    BY <1>1, <1>2, InitInv, FreshSide DEF BarInv

LEMMA NextSide ==
  ASSUME Common(s), Apart, BarSide(s, {}), Next
  PROVE  BarSide(s', {})
  <1>1. CASE \E c \in Callers : Subscribe(c) \/ Unsubscribe(c)
    BY <1>1, SubscribeSide, UnsubscribeSide
  <1>2. CASE Venue
    BY <1>2, VenueSide
  <1>3. CASE VenueRecord
    BY <1>3, VenueRecordSide
  <1>4. CASE Poll
    BY <1>4, PollsSide
  <1>5. CASE Disconnect
    BY <1>5, DisconnectSide
  <1>6. CASE Reconnect
    BY <1>6, ReconnectSide
  <1> QED
    BY <1>1, <1>2, <1>3, <1>4, <1>5, <1>6 DEF Next

LEMMA StepBarInv ==
  BarInv /\ [Next]_vars => BarInv'
  <1> SUFFICES ASSUME BarInv, [Next]_vars PROVE BarInv'
    OBVIOUS
  <1>1. Inv /\ Common(s) /\ (Apart => BarSide(s, {}))
    BY DEF BarInv, Inv
  <1>2. Inv'
    BY <1>1, StepInv
  <1>3. load' = load /\ (Apart => BarSide(s', {}))
    <2>1. CASE Next
      BY <1>1, <2>1, NextCommon, NextSide
    <2>2. CASE UNCHANGED vars
      <3>1. load' = load /\ s' = s
        BY <2>2 DEF vars
      <3> QED
        BY <1>1, <3>1
    <2> QED
      BY <2>1, <2>2
  <1>4. (Apart => BarSide(s, {}))'
    <2>1. Apart' <=> Apart
      BY <1>3, BarTablesStay
    <2>2. ASSUME Apart' PROVE BarSide(s, {})'
      BY <1>3, <2>1, <2>2, BarSideStays
    <2> QED
      BY <2>2
  <1> QED
    BY <1>2, <1>4 DEF BarInv

(* The invariant of the bars where no two callers ask for the same: beside   *)
(* what holds of the ticks, rtbar_subs, rtbar_routes, rtbar_resub and the    *)
(* batches agree with one another and with what is on its way to the venue   *)
(* and back, through every command, every message, a drop and a reconnect.   *)
THEOREM BarInvHolds == Spec => []BarInv
  BY InitBarInv, StepBarInv, PTL DEF Spec

LEMMA InvServesBars ==
  BarInv => LoneBarReadersAreServed
  <1> SUFFICES ASSUME BarInv, Apart, Settled, NEW i \in DOMAIN s.subs
               PROVE  \E r \in s.running : r.key = Key(s.subs[i].c) /\ r.t = s.subs[i].t
    BY DEF LoneBarReadersAreServed, BarReadersAreServed, Served
  <1>1. BarSide(s, {}) /\ s.up /\ AsksAt(s) = {} /\ Answers(s) = {}
    BY DEF BarInv, Settled, AsksAt, Answers
  <1>2. ~InFlight(s, Asked(s.subs[i]))
    BY <1>1 DEF InFlight
  <1>3. s.subs[i].t # NoNumber
    BY <1>1, <1>2 DEF BarSide, BarWaits
  <1> DEFINE h == [key |-> Key(s.subs[i].c), t |-> s.subs[i].t]
  <1>4. h \in Held(s.subs)
    BY <1>3 DEF Held, Numbered
  <1>h. h.key = Key(s.subs[i].c) /\ h.t = s.subs[i].t
    OBVIOUS
  <1>5. Serves(s, h.key, h.t)
    <2> HIDE DEF h
    <2> QED
      BY <1>1, <1>4 DEF BarSide, BarNet, Net, HeldServed
  <1>6. h \in s.running
    BY <1>5 DEF Serves
  <1> QED
    BY <1>6, <1>h

(* Once nothing is on its way, every subscription to ticks reads a stream   *)
(* that runs at the venue, and so does every request for bars where no two  *)
(* callers ask for the same (send_tbt_unsubscribe, withdraw_bar_stream,     *)
(* assign_bar_route): no withdrawal, early or late, no refusal and no       *)
(* reconnect leaves a reader at a stream that stopped.                      *)
THEOREM ReadersServed == Spec => []ReadersAreServed
  <1>1. BarInv => ReadersAreServed
    BY InvServes, InvServesBars DEF BarInv, ReadersAreServed
  <1> QED
    BY <1>1, BarInvHolds, PTL

(* On a wire with nothing on it, a stream that runs is asked for. *)
AllAskedFor(tk, I, st) ==
  \A x \in st.running : x.key.tick = tk => \E y \in I : y.key = x.key

LEMMA SettledRuns ==
  ASSUME NEW tk, NEW I, NEW L, NEW H, NEW st, Net(tk, I, L, H, st), st.out = <<>>, st.in = <<>>
  PROVE  AllAskedFor(tk, I, st)
  <1> SUFFICES ASSUME NEW x \in st.running, x.key.tick = tk
               PROVE  \E y \in I : y.key = x.key
    BY DEF AllAskedFor
  <1>1. AsksAt(st) = {} /\ Answers(st) = {} /\ CancelsAt(st, tk, x.t) = {}
    BY DEF AsksAt, Answers, CancelsAt
  <1>2. ~LateAsked(L, st, x.key) /\ ~LateAcked(L, st, x)
    BY <1>1 DEF LateAsked, LateAcked
  <1> QED
    BY <1>1, <1>2 DEF Net, RunsForSomeone

LEMMA InvReads ==
  BarInv => NoStreamRunsUnread
  <1> SUFFICES ASSUME BarInv, Settled, NEW x \in s.running
               PROVE  \/ \E i \in DOMAIN s.tbt : Key(s.tbt[i].c) = x.key
                      \/ \E i \in DOMAIN s.subs : Key(s.subs[i].c) = x.key
                      \/ ~x.key.tick /\ ~Apart
    BY DEF NoStreamRunsUnread
  <1>1. s \in State /\ TickSide(s) /\ Wire(s) /\ s.out = <<>> /\ s.in = <<>>
    BY DEF BarInv, Inv, Common, Settled
  <1>2. x.key.tick \in BOOLEAN
    <2>1. x.key \in Keys
      BY <1>1 DEF State, Streams
    <2>2. PICK c \in Callers : x.key = Key(c)
      BY <2>1 DEF Keys
    <2> QED
      BY <2>2, KeyIs DEF IsTick
  <1>3. CASE x.key.tick = TRUE
    <2>1. Net(TRUE, AsksOf(s.tbt), s.tbtUnnumbered, Held(s.tbt), s)
      BY <1>1 DEF TickSide, TickNet
    <2>a. AllAskedFor(TRUE, AsksOf(s.tbt), s)
      BY <1>1, <2>1, SettledRuns
    <2>2. PICK y \in AsksOf(s.tbt) : y.key = x.key
      BY <1>3, <2>a DEF AllAskedFor
    <2>3. PICK i \in DOMAIN s.tbt : y = Asked(s.tbt[i])
      BY DEF AsksOf
    <2> QED
      BY <2>2, <2>3 DEF Asked
  <1>4. CASE x.key.tick = FALSE /\ Apart
    <2>1. BarSide(s, {})
      BY <1>4 DEF BarInv
    <2>2. Net(FALSE, BarAsks(s), s.unnumbered, Held(s.subs), s)
      BY <2>1 DEF BarSide, BarNet
    <2>a. AllAskedFor(FALSE, BarAsks(s), s)
      BY <1>1, <2>2, SettledRuns
    <2>3. PICK y \in BarAsks(s) : y.key = x.key
      BY <1>4, <2>a DEF AllAskedFor
    <2>4. CASE y \in AsksOf(s.subs)
      <3>1. PICK i \in DOMAIN s.subs : y = Asked(s.subs[i])
        BY <2>4 DEF AsksOf
      <3> QED
        BY <2>3, <3>1 DEF Asked
    <2>5. CASE y \in {Asked(b) : b \in s.batch}
      <3>1. PICK b \in s.batch : y = Asked(b)
        BY <2>5
      <3>2. Key(b.c) = x.key /\ x.key \notin s.refuses
        BY <1>1, <2>3, <3>1 DEF Asked, Wire, RunsOnce
      <3>3. BatchKept(s.resub, s.batch, s.refuses, {}) /\ ResubHeld(s.subs, s.resub)
        BY <2>1 DEF BarSide, LedgerOf, Ledger
      <3>4. PICK k \in DOMAIN s.resub : s.resub[k] = b.c
        BY <3>2, <3>3 DEF BatchKept, InResub
      <3>5. PICK j \in DOMAIN s.subs : s.subs[j].c = b.c
        BY <3>3, <3>4 DEF ResubHeld
      <3> QED
        BY <3>2, <3>5
    <2> QED
      BY <2>4, <2>5 DEF BarAsks
  <1> QED
    BY <1>2, <1>3, <1>4

(* Once nothing is on its way, the venue runs no stream nobody here reads:  *)
(* what is withdrawn before it is numbered is withdrawn again by its number *)
(* when the acknowledgement comes (rtbar_withdrawn_unnumbered,              *)
(* tbt_withdrawn_unnumbered), and the last reader out stops it.             *)
THEOREM StreamsAreRead == Spec => []NoStreamRunsUnread
  BY BarInvHolds, InvReads, PTL
=============================================================================
