------------------------- MODULE LiveStreamsProofs -------------------------
(***************************************************************************)
(* The streams on the historical connection, for every workload.           *)
(*                                                                         *)
(* What this side and the venue hold of a stream agrees only together with *)
(* what is on its way between them.  `Wire' says it of the connection,     *)
(* `Net' of one kind of stream: whatever is asked for and not withdrawn is *)
(* served, will be when its ask is read, or is in an acknowledgement under *)
(* way; and whatever runs is asked for, or a withdrawal of it is written,  *)
(* or its late acknowledgement has yet to be read.  `Common' joins them    *)
(* for the tick-by-tick streams, with the types and what keeps the two     *)
(* kinds apart.  First come the lemmas of the wire, one for each thing a   *)
(* step can do to it; then the tables; then each function of the code.     *)
(***************************************************************************)
EXTENDS LiveStreams, InOrderProofs

Keys == {Key(c) : c \in Callers}
Named == [q : Nat, key : Keys]
Streams == [key : Keys, t : Nat]
Asking == [m : {"ask"}, q : Nat, key : Keys, t : {NoNumber}]
Withdrawing == [m : {"cancel"}, q : {0}, tick : BOOLEAN, t : Nat]
Arriving == [m : {"ack", "error", "record"}, q : Nat, key : Keys, t : Nat,
             unit : load.units \cup {0}]
TickRecords == [q : Nat, c : Callers, t : Nat, price : Nat]
BarCallers == {c \in Callers : ~IsTick(c)}
BarRecords == [q : Nat, c : BarCallers, t : Nat]
Routes == [contracts : Seq(Keys), readers : (SUBSET Callers) \ {{}}, t : Nat,
           active : BOOLEAN, unit : load.units \cup {0}]

State ==
  [up : BOOLEAN,
   tbt : Seq(TickRecords), tbtUnnumbered : SUBSET Named,
   subs : Seq(BarRecords), routes : Seq(Routes), resub : Seq(BarCallers),
   unnumbered : SUBSET Named, batch : SUBSET [q : Nat, c : BarCallers],
   out : Seq(Asking \cup Withdrawing), in : Seq(Arriving),
   running : SUBSET Streams, refuses : SUBSET Keys,
   asks : Nat, drops : Nat, moves : Nat,
   stray : SUBSET Callers, twice : SUBSET Callers]

-----------------------------------------------------------------------------
(* What is on its way, and what is asked for. *)

AsksAt(st) == {p \in DOMAIN st.out : st.out[p].m = "ask"}
Answers(st) == {p \in DOMAIN st.in : st.in[p].m # "record"}
CancelsAt(st, tk, t) ==
  {p \in DOMAIN st.out : st.out[p].m = "cancel" /\ st.out[p].tick = tk /\ st.out[p].t = t}
Name(m) == [q |-> m.q, key |-> m.key]

InFlight(st, x) ==
  \/ \E p \in AsksAt(st) : Name(st.out[p]) = x
  \/ \E p \in Answers(st) : Name(st.in[p]) = x

(* The stream numbered t of a thing runs, and nothing written stops it. *)
Serves(st, key, t) ==
  [key |-> key, t |-> t] \in st.running /\ CancelsAt(st, key.tick, t) = {}

-----------------------------------------------------------------------------
(* Both kinds of stream: the wire. *)

OneNameEach(st) ==
  /\ \A p, r \in AsksAt(st) : st.out[p].q = st.out[r].q => p = r
  /\ \A p, r \in Answers(st) : st.in[p].q = st.in[r].q => p = r
  /\ \A p \in AsksAt(st), r \in Answers(st) : st.out[p].q # st.in[r].q

RunsOnce(st) ==
  /\ \A x, y \in st.running :
       x.key = y.key \/ (x.key.tick = y.key.tick /\ x.t = y.t) => x = y
  /\ \A x \in st.running : x.key \notin st.refuses /\ x.t # NoNumber

ReadsTrue(st) ==
  /\ \A p \in DOMAIN st.in : st.in[p].m \in {"ack", "error", "record"}
  /\ \A p \in DOMAIN st.in : st.in[p].key \in st.refuses <=> st.in[p].m = "error"
  /\ \A p \in DOMAIN st.in : st.in[p].m # "error" => st.in[p].t # NoNumber
  /\ \A p \in DOMAIN st.in, x \in st.running :
       st.in[p].key.tick = x.key.tick /\ st.in[p].t = x.t => st.in[p].key = x.key

DownIsEmpty(st) ==
  st.up \/ (st.out = <<>> /\ st.in = <<>> /\ st.running = {} /\ st.batch = {})

Wire(st) == OneNameEach(st) /\ RunsOnce(st) /\ ReadsTrue(st) /\ DownIsEmpty(st)

-----------------------------------------------------------------------------
(* One kind of stream.  I is what is asked for and not withdrawn, each by  *)
(* its name; L what was withdrawn before it was numbered; H the streams    *)
(* the tables hold a number of.                                            *)

Sorted(tk, I, L) ==
  /\ \A x, y \in I \cup L : x.q = y.q => x = y
  /\ I \cap L = {}
  /\ \A x \in I \cup L : x.key.tick = tk

Backed(I, H) == \A h \in H : \E x \in I : x.key = h.key

Matched(N, st) ==
  /\ \A p \in AsksAt(st), x \in N : st.out[p].q = x.q => st.out[p].key = x.key
  /\ \A p \in Answers(st), x \in N : st.in[p].q = x.q => st.in[p].key = x.key

HeldServed(H, st) == st.up => \A h \in H : Serves(st, h.key, h.t)

AckedServed(I, st) ==
  \A p \in Answers(st) :
    st.in[p].m = "ack" /\ Name(st.in[p]) \in I => Serves(st, st.in[p].key, st.in[p].t)

(* No withdrawal behind an ask stops the stream the ask will be read off.  *)
AskedSafe(tk, I, st) ==
  \A p \in AsksAt(st), x \in st.running :
    Name(st.out[p]) \in I /\ x.key = st.out[p].key =>
      \A r \in CancelsAt(st, tk, x.t) : r < p

LateAsked(L, st, key) == \E p \in AsksAt(st) : Name(st.out[p]) \in L /\ st.out[p].key = key
LateAcked(L, st, x) ==
  \E p \in Answers(st) :
    /\ st.in[p].m = "ack" /\ Name(st.in[p]) \in L
    /\ st.in[p].key = x.key /\ st.in[p].t = x.t

RunsForSomeone(tk, I, L, st) ==
  \A x \in st.running : x.key.tick = tk =>
    \/ \E y \in I : y.key = x.key
    \/ CancelsAt(st, tk, x.t) # {}
    \/ LateAsked(L, st, x.key)
    \/ LateAcked(L, st, x)

(* An ask nobody answers to any more: the stream it asks for runs already  *)
(* and is stopped behind it, or another ask behind it will be withdrawn.   *)
Stopped(tk, st, p, x) ==
  /\ x.key = st.out[p].key /\ CancelsAt(st, tk, x.t) # {}
  /\ \A r \in CancelsAt(st, tk, x.t) : r > p
Followed(L, st, p) ==
  \E r \in AsksAt(st) : r > p /\ Name(st.out[r]) \in L /\ st.out[r].key = st.out[p].key

OrphansEnd(tk, I, L, st) ==
  \A p \in AsksAt(st) :
    /\ st.out[p].key.tick = tk /\ st.out[p].key \notin st.refuses
    /\ Name(st.out[p]) \notin I \cup L
    => (\E x \in st.running : Stopped(tk, st, p, x)) \/ Followed(L, st, p)

Net(tk, I, L, H, st) ==
  /\ Sorted(tk, I, L) /\ Backed(I, H) /\ Matched(I \cup L, st)
  /\ HeldServed(H, st) /\ AckedServed(I, st) /\ AskedSafe(tk, I, st)
  /\ RunsForSomeone(tk, I, L, st) /\ OrphansEnd(tk, I, L, st)

-----------------------------------------------------------------------------
(* A sequence one longer, and one shorter. *)

Grows(u, v, m) ==
  /\ Len(u) \in Nat /\ DOMAIN u = 1 .. Len(u) /\ DOMAIN v = 1 .. (Len(u) + 1)
  /\ \A p \in 1 .. Len(u) : v[p] = u[p]
  /\ v[Len(u) + 1] = m

Shrinks(u, v, m) ==
  /\ Len(u) \in Nat /\ DOMAIN u = 1 .. Len(u) /\ 1 \in 1 .. Len(u) /\ u[1] = m
  /\ DOMAIN v = 1 .. (Len(u) - 1)
  /\ \A p \in 1 .. (Len(u) - 1) : v[p] = u[p + 1]

LEMMA AppendGrows ==
  ASSUME NEW S, NEW u \in Seq(S), NEW m
  PROVE  Grows(u, Append(u, m), m)
  BY DEF Grows

LEMMA TailShrinks ==
  ASSUME NEW S, NEW u \in Seq(S), u # <<>>
  PROVE  Shrinks(u, Tail(u), Head(u))
  BY DEF Shrinks

OutGrew(st, e, m) ==
  /\ \A p \in AsksAt(st) : p \in AsksAt(e) /\ e.out[p] = st.out[p] /\ p < Len(st.out) + 1
  /\ \A tk, t : \A p \in CancelsAt(st, tk, t) : p \in CancelsAt(e, tk, t) /\ p < Len(st.out) + 1
  /\ \A p \in AsksAt(e) : p \in AsksAt(st) \/ (p = Len(st.out) + 1 /\ m.m = "ask")
  /\ \A tk, t : \A p \in CancelsAt(e, tk, t) :
       p \in CancelsAt(st, tk, t)
         \/ (p = Len(st.out) + 1 /\ m.m = "cancel" /\ m.tick = tk /\ m.t = t)
  /\ e.out[Len(st.out) + 1] = m
  /\ m.m = "ask" => Len(st.out) + 1 \in AsksAt(e)
  /\ m.m = "cancel" => Len(st.out) + 1 \in CancelsAt(e, m.tick, m.t)
  /\ Len(st.out) \in Nat

(* What is written goes behind everything written before. *)
LEMMA Written ==
  ASSUME NEW st, NEW e, NEW m, Grows(st.out, e.out, m)
  PROVE  OutGrew(st, e, m)
  <1> DEFINE n == Len(st.out)
  <1>1. /\ n \in Nat /\ DOMAIN st.out = 1 .. n /\ DOMAIN e.out = 1 .. (n + 1)
        /\ \A p \in 1 .. n : e.out[p] = st.out[p]
        /\ e.out[n + 1] = m
    BY DEF Grows
  <1> HIDE DEF n
  <1>2. /\ \A p \in 1 .. n : p \in 1 .. (n + 1) /\ p < n + 1
        /\ \A p \in 1 .. (n + 1) : p \in 1 .. n \/ p = n + 1
        /\ n + 1 \in 1 .. (n + 1)
    BY <1>1
  <1>3. \A p \in AsksAt(st) : p \in AsksAt(e) /\ e.out[p] = st.out[p] /\ p < n + 1
    BY <1>1, <1>2 DEF AsksAt
  <1>4. \A tk, t : \A p \in CancelsAt(st, tk, t) : p \in CancelsAt(e, tk, t) /\ p < n + 1
    BY <1>1, <1>2 DEF CancelsAt
  <1>5. \A p \in AsksAt(e) : p \in AsksAt(st) \/ (p = n + 1 /\ m.m = "ask")
    BY <1>1, <1>2 DEF AsksAt
  <1>6. \A tk, t : \A p \in CancelsAt(e, tk, t) :
              p \in CancelsAt(st, tk, t)
                \/ (p = n + 1 /\ m.m = "cancel" /\ m.tick = tk /\ m.t = t)
    BY <1>1, <1>2 DEF CancelsAt
  <1>7. /\ m.m = "ask" => n + 1 \in AsksAt(e)
        /\ m.m = "cancel" => n + 1 \in CancelsAt(e, m.tick, m.t)
    BY <1>1, <1>2 DEF AsksAt, CancelsAt
  <1> QED
    BY <1>1, <1>3, <1>4, <1>5, <1>6, <1>7 DEF n, OutGrew

OutShrank(st, e, m) ==
  /\ \A p \in AsksAt(e) : p + 1 \in AsksAt(st) /\ e.out[p] = st.out[p + 1] /\ p \in Nat /\ p > 0
  /\ \A tk, t : \A p \in CancelsAt(e, tk, t) : p + 1 \in CancelsAt(st, tk, t) /\ p \in Nat /\ p > 0
  /\ \A p \in AsksAt(st) : p \in Nat /\ p >= 1 /\ (p = 1 \/ (p - 1 \in AsksAt(e) /\ e.out[p - 1] = st.out[p]))
  /\ \A tk, t : \A p \in CancelsAt(st, tk, t) :
       p \in Nat /\ p >= 1 /\ (p = 1 \/ p - 1 \in CancelsAt(e, tk, t))
  /\ st.out[1] = m
  /\ m.m = "ask" => 1 \in AsksAt(st)
  /\ m.m = "cancel" => 1 \in CancelsAt(st, m.tick, m.t)
  /\ 1 \in AsksAt(st) => m.m = "ask"
  /\ \A tk, t : 1 \in CancelsAt(st, tk, t) => m.m = "cancel" /\ m.tick = tk /\ m.t = t

(* What the venue takes off the front moves the rest up by one. *)
LEMMA Taken ==
  ASSUME NEW st, NEW e, NEW m, Shrinks(st.out, e.out, m)
  PROVE  OutShrank(st, e, m)
  <1> DEFINE n == Len(st.out)
  <1>1. /\ n \in Nat /\ DOMAIN st.out = 1 .. n /\ 1 \in 1 .. n /\ st.out[1] = m
        /\ DOMAIN e.out = 1 .. (n - 1)
        /\ \A p \in 1 .. (n - 1) : e.out[p] = st.out[p + 1]
    BY DEF Shrinks
  <1> HIDE DEF n
  <1>2. /\ \A p \in 1 .. n : p \in Nat /\ p >= 1 /\ (p = 1 \/ p - 1 \in 1 .. (n - 1))
        /\ \A p \in 1 .. n : (p - 1) + 1 = p
        /\ \A p \in 1 .. (n - 1) : p + 1 \in 1 .. n /\ p \in Nat /\ p > 0
    BY <1>1
  <1>2a. \A p \in 1 .. n : p = 1 \/ e.out[p - 1] = st.out[p]
    BY <1>1, <1>2
  <1>3. \A p \in AsksAt(e) : p + 1 \in AsksAt(st) /\ e.out[p] = st.out[p + 1] /\ p \in Nat /\ p > 0
    BY <1>1, <1>2 DEF AsksAt
  <1>4. \A tk, t : \A p \in CancelsAt(e, tk, t) : p + 1 \in CancelsAt(st, tk, t) /\ p \in Nat /\ p > 0
    BY <1>1, <1>2 DEF CancelsAt
  <1>5. \A p \in AsksAt(st) : p \in Nat /\ p >= 1 /\ (p = 1 \/ (p - 1 \in AsksAt(e) /\ e.out[p - 1] = st.out[p]))
    BY <1>1, <1>2, <1>2a DEF AsksAt
  <1>6. \A tk, t : \A p \in CancelsAt(st, tk, t) :
              p \in Nat /\ p >= 1 /\ (p = 1 \/ p - 1 \in CancelsAt(e, tk, t))
    BY <1>1, <1>2, <1>2a DEF CancelsAt
  <1>7. /\ m.m = "ask" => 1 \in AsksAt(st)
        /\ m.m = "cancel" => 1 \in CancelsAt(st, m.tick, m.t)
        /\ 1 \in AsksAt(st) => m.m = "ask"
        /\ \A tk, t : 1 \in CancelsAt(st, tk, t) => m.m = "cancel" /\ m.tick = tk /\ m.t = t
    BY <1>1 DEF AsksAt, CancelsAt
  <1> QED
    BY <1>1, <1>3, <1>4, <1>5, <1>6, <1>7 DEF OutShrank

InGrew(st, e, m) ==
  /\ \A p \in DOMAIN st.in : p \in DOMAIN e.in /\ e.in[p] = st.in[p]
  /\ \A p \in Answers(st) : p \in Answers(e) /\ e.in[p] = st.in[p]
  /\ \A p \in DOMAIN e.in : p \in DOMAIN st.in \/ (p = Len(st.in) + 1 /\ e.in[p] = m)
  /\ \A p \in Answers(e) : p \in Answers(st) \/ (p = Len(st.in) + 1 /\ e.in[p] = m /\ m.m # "record")
  /\ m.m # "record" => Len(st.in) + 1 \in Answers(e)
  /\ e.in[Len(st.in) + 1] = m /\ Len(st.in) + 1 \notin DOMAIN st.in

LEMMA Arrived ==
  ASSUME NEW st, NEW e, NEW m, Grows(st.in, e.in, m)
  PROVE  InGrew(st, e, m)
  <1> DEFINE n == Len(st.in)
  <1>1. /\ n \in Nat /\ DOMAIN st.in = 1 .. n /\ DOMAIN e.in = 1 .. (n + 1)
        /\ \A p \in 1 .. n : e.in[p] = st.in[p]
        /\ e.in[n + 1] = m
    BY DEF Grows
  <1> HIDE DEF n
  <1>2. /\ \A p \in 1 .. n : p \in 1 .. (n + 1) /\ p < n + 1
        /\ \A p \in 1 .. (n + 1) : p \in 1 .. n \/ p = n + 1
        /\ n + 1 \in 1 .. (n + 1) /\ n + 1 \notin 1 .. n
    BY <1>1
  <1> QED
    BY <1>1, <1>2 DEF Answers, n, InGrew

InShrank(st, e, m) ==
  /\ \A p \in DOMAIN e.in : p + 1 \in DOMAIN st.in /\ e.in[p] = st.in[p + 1] /\ p \in Nat /\ p > 0
  /\ \A p \in Answers(e) : p + 1 \in Answers(st) /\ e.in[p] = st.in[p + 1] /\ p \in Nat /\ p > 0
  /\ \A p \in Answers(st) : p = 1 \/ (p - 1 \in Answers(e) /\ e.in[p - 1] = st.in[p])
  /\ st.in[1] = m /\ 1 \in DOMAIN st.in
  /\ m.m # "record" => 1 \in Answers(st)
  /\ 1 \in Answers(st) => m.m # "record"

LEMMA TakenIn ==
  ASSUME NEW st, NEW e, NEW m, Shrinks(st.in, e.in, m)
  PROVE  InShrank(st, e, m)
  <1> DEFINE n == Len(st.in)
  <1>1. /\ n \in Nat /\ DOMAIN st.in = 1 .. n /\ 1 \in 1 .. n /\ st.in[1] = m
        /\ DOMAIN e.in = 1 .. (n - 1)
        /\ \A p \in 1 .. (n - 1) : e.in[p] = st.in[p + 1]
    BY DEF Shrinks
  <1> HIDE DEF n
  <1>2. /\ \A p \in 1 .. n : p \in Nat /\ p >= 1 /\ (p = 1 \/ p - 1 \in 1 .. (n - 1))
        /\ \A p \in 1 .. n : (p - 1) + 1 = p
        /\ \A p \in 1 .. (n - 1) : p + 1 \in 1 .. n /\ p \in Nat /\ p > 0
    BY <1>1
  <1>2a. \A p \in 1 .. n : p = 1 \/ e.in[p - 1] = st.in[p]
    BY <1>1, <1>2
  <1> QED
    BY <1>1, <1>2, <1>2a DEF Answers, InShrank

-----------------------------------------------------------------------------
(* What one side does leaves this of the other alone. *)
SameReading(st, e) == e.in = st.in /\ e.running = st.running /\ e.refuses = st.refuses

LEMMA SameReadingKeeps ==
  ASSUME NEW st, NEW e, SameReading(st, e)
  PROVE  /\ Answers(e) = Answers(st)
         /\ \A p \in Answers(e) : e.in[p] = st.in[p]
         /\ e.running = st.running /\ e.refuses = st.refuses
  BY DEF SameReading, Answers

LEMMA CancelsStay ==
  ASSUME NEW st, NEW e, NEW m, OutGrew(st, e, m), NEW tk, NEW t,
         ~(m.m = "cancel" /\ m.tick = tk /\ m.t = t)
  PROVE  CancelsAt(e, tk, t) = CancelsAt(st, tk, t)
  <1>1. \A p \in CancelsAt(st, tk, t) : p \in CancelsAt(e, tk, t)
    BY DEF OutGrew
  <1>2. \A p \in CancelsAt(e, tk, t) : p \in CancelsAt(st, tk, t)
    BY DEF OutGrew
  <1> QED
    BY <1>1, <1>2

IsName(x) == x = [q |-> x.q, key |-> x.key]

(* A new name is asked for. *)
LEMMA NetAsks ==
  ASSUME NEW tk, NEW I, NEW L, NEW H, NEW st, NEW e, NEW x,
         Net(tk, I, L, H, st), SameReading(st, e), st.up, e.up,
         Grows(st.out, e.out, AskMsg(x.q, x.key)), IsName(x),
         x.key.tick = tk,
         \A y \in I \cup L : y.q # x.q,
         \A p \in AsksAt(st) : st.out[p].q # x.q,
         \A p \in Answers(st) : st.in[p].q # x.q
  PROVE  Net(tk, I \cup {x}, L, H, e)
  <1> DEFINE n == Len(st.out) + 1
             J == I \cup {x}
             m == AskMsg(x.q, x.key)
  <1>0. /\ Sorted(tk, I, L) /\ Backed(I, H) /\ Matched(I \cup L, st)
        /\ HeldServed(H, st) /\ AckedServed(I, st) /\ AskedSafe(tk, I, st)
        /\ RunsForSomeone(tk, I, L, st) /\ OrphansEnd(tk, I, L, st)
    BY DEF Net
  <1>1. m.m = "ask" /\ m.m # "cancel" /\ m.q = x.q /\ m.key = x.key /\ Name(m) = x
    BY DEF AskMsg, Name, IsName
  <1>w. OutGrew(st, e, m)
    BY Written
  <1>2. /\ \A p \in AsksAt(st) : p \in AsksAt(e) /\ e.out[p] = st.out[p] /\ p < n
        /\ \A k, t : \A p \in CancelsAt(st, k, t) : p \in CancelsAt(e, k, t) /\ p < n
        /\ \A p \in AsksAt(e) : p \in AsksAt(st) \/ p = n
        /\ e.out[n] = m
    BY <1>w DEF OutGrew
  <1>2a. \A k, t : CancelsAt(e, k, t) = CancelsAt(st, k, t)
    BY <1>1, <1>w, CancelsStay
  <1>3. /\ Answers(e) = Answers(st)
        /\ \A p \in Answers(e) : e.in[p] = st.in[p]
        /\ e.running = st.running /\ e.refuses = st.refuses
    BY SameReadingKeeps
  <1> HIDE DEF n, J, m
  <1>4. J \cup L = (I \cup L) \cup {x} /\ I \subseteq J /\ x \in J
    BY DEF J
  <1>5. Sorted(tk, J, L)
    BY <1>0, <1>4 DEF Sorted, J
  <1>6. Backed(J, H)
    BY <1>0, <1>4 DEF Backed
  <1>7. Matched(J \cup L, e)
    <2>1. ASSUME NEW p \in AsksAt(e), NEW y \in J \cup L, e.out[p].q = y.q
          PROVE  e.out[p].key = y.key
      <3>1. CASE p = n
        BY <1>1, <1>2, <1>4, <2>1, <3>1
      <3>2. CASE p \in AsksAt(st)
        BY <1>0, <1>2, <1>4, <2>1, <3>2 DEF Matched
      <3> QED
        BY <1>2, <3>1, <3>2
    <2>2. ASSUME NEW p \in Answers(e), NEW y \in J \cup L, e.in[p].q = y.q
          PROVE  e.in[p].key = y.key
      BY <1>0, <1>3, <1>4, <2>2 DEF Matched
    <2> QED
      BY <2>1, <2>2 DEF Matched
  <1>8. HeldServed(H, e)
    BY <1>0, <1>2a, <1>3 DEF HeldServed, Serves
  <1>9. AckedServed(J, e)
    <2> SUFFICES ASSUME NEW p \in Answers(e), e.in[p].m = "ack", Name(e.in[p]) \in J
                 PROVE  Serves(e, e.in[p].key, e.in[p].t)
      BY DEF AckedServed
    <2>1. Name(e.in[p]) \in I
      <3>1. Name(e.in[p]).q = e.in[p].q
        BY DEF Name
      <3> QED
        BY <1>3, <3>1 DEF J
    <2> QED
      BY <1>0, <1>2a, <1>3, <2>1 DEF AckedServed, Serves
  <1>10. AskedSafe(tk, J, e)
    <2> SUFFICES ASSUME NEW p \in AsksAt(e), NEW y \in e.running, Name(e.out[p]) \in J,
                        y.key = e.out[p].key, NEW r \in CancelsAt(e, tk, y.t)
                 PROVE  r < p
      BY DEF AskedSafe
    <2>1. CASE p = n
      BY <1>2, <1>2a, <2>1
    <2>2. CASE p \in AsksAt(st)
      <3>1. Name(st.out[p]).q = st.out[p].q
        BY DEF Name
      <3>2. Name(st.out[p]) \in I
        BY <1>2, <2>2, <3>1 DEF J
      <3> QED
        BY <1>0, <1>2, <1>2a, <1>3, <2>2, <3>2 DEF AskedSafe
    <2> QED
      BY <1>2, <2>1, <2>2
  <1>11. RunsForSomeone(tk, J, L, e)
    <2> SUFFICES ASSUME NEW y \in e.running, y.key.tick = tk
                 PROVE  \/ \E z \in J : z.key = y.key
                        \/ CancelsAt(e, tk, y.t) # {}
                        \/ LateAsked(L, e, y.key)
                        \/ LateAcked(L, e, y)
      BY DEF RunsForSomeone
    <2>1. LateAsked(L, st, y.key) => LateAsked(L, e, y.key)
      BY <1>2 DEF LateAsked
    <2>2. LateAcked(L, st, y) => LateAcked(L, e, y)
      BY <1>3 DEF LateAcked
    <2> QED
      BY <1>0, <1>2a, <1>3, <1>4, <2>1, <2>2 DEF RunsForSomeone
  <1>12. OrphansEnd(tk, J, L, e)
    <2> SUFFICES ASSUME NEW p \in AsksAt(e), e.out[p].key.tick = tk,
                        e.out[p].key \notin e.refuses, Name(e.out[p]) \notin J \cup L
                 PROVE  (\E y \in e.running : Stopped(tk, e, p, y)) \/ Followed(L, e, p)
      BY DEF OrphansEnd
    <2>1. p \in AsksAt(st) /\ e.out[p] = st.out[p]
      BY <1>1, <1>2, <1>4
    <2>2. (\E y \in st.running : Stopped(tk, st, p, y)) \/ Followed(L, st, p)
      BY <1>0, <1>3, <1>4, <2>1 DEF OrphansEnd
    <2>3. \A y : Stopped(tk, st, p, y) => Stopped(tk, e, p, y)
      BY <1>2a, <2>1 DEF Stopped
    <2>4. Followed(L, st, p) => Followed(L, e, p)
      BY <1>2, <2>1 DEF Followed
    <2> QED
      BY <1>3, <2>2, <2>3, <2>4
  <1> QED
    BY <1>5, <1>6, <1>7, <1>8, <1>9, <1>10, <1>11, <1>12 DEF Net, J

(* What is written of the other kind does not touch this one. *)
LEMMA NetOther ==
  ASSUME NEW tk, NEW I, NEW L, NEW H, NEW st, NEW e, NEW m,
         Net(tk, I, L, H, st), SameReading(st, e), st.up, e.up,
         Grows(st.out, e.out, m),
         \/ m.m = "ask" /\ m.key.tick # tk /\ \A y \in I \cup L : y.q # m.q
         \/ m.m = "cancel" /\ m.tick # tk
  PROVE  Net(tk, I, L, H, e)
  <1> DEFINE n == Len(st.out) + 1
  <1>0. /\ Sorted(tk, I, L) /\ Backed(I, H) /\ Matched(I \cup L, st)
        /\ HeldServed(H, st) /\ AckedServed(I, st) /\ AskedSafe(tk, I, st)
        /\ RunsForSomeone(tk, I, L, st) /\ OrphansEnd(tk, I, L, st)
    BY DEF Net
  <1>w. OutGrew(st, e, m)
    BY Written
  <1>2. /\ \A p \in AsksAt(st) : p \in AsksAt(e) /\ e.out[p] = st.out[p] /\ p < n
        /\ \A p \in AsksAt(e) : p \in AsksAt(st) \/ (p = n /\ m.m = "ask")
        /\ e.out[n] = m
    BY <1>w DEF OutGrew
  <1>2a. \A t : CancelsAt(e, tk, t) = CancelsAt(st, tk, t)
    BY <1>w, CancelsStay
  <1>2b. \A x \in I \cup L : x.key.tick = tk
    BY <1>0 DEF Sorted
  <1>3. /\ Answers(e) = Answers(st)
        /\ \A p \in Answers(e) : e.in[p] = st.in[p]
        /\ e.running = st.running /\ e.refuses = st.refuses
    BY SameReadingKeeps
  <1> HIDE DEF n
  <1>4. \A p \in AsksAt(e) : \A x \in I \cup L :
          (e.out[p].q = x.q \/ Name(e.out[p]) = x) => p \in AsksAt(st)
    BY <1>2, <1>2b DEF Name
  <1>7. Matched(I \cup L, e)
    <2>1. ASSUME NEW p \in AsksAt(e), NEW y \in I \cup L, e.out[p].q = y.q
          PROVE  e.out[p].key = y.key
      BY <1>0, <1>2, <1>4, <2>1 DEF Matched
    <2>2. ASSUME NEW p \in Answers(e), NEW y \in I \cup L, e.in[p].q = y.q
          PROVE  e.in[p].key = y.key
      BY <1>0, <1>3, <2>2 DEF Matched
    <2> QED
      BY <2>1, <2>2 DEF Matched
  <1>8. HeldServed(H, e)
    <2>1. \A h \in H : h.key.tick = tk
      BY <1>0, <1>2b DEF Backed
    <2> QED
      BY <1>0, <1>2a, <1>3, <2>1 DEF HeldServed, Serves
  <1>9. AckedServed(I, e)
    <2> SUFFICES ASSUME NEW p \in Answers(e), e.in[p].m = "ack", Name(e.in[p]) \in I
                 PROVE  Serves(e, e.in[p].key, e.in[p].t)
      BY DEF AckedServed
    <2>1. e.in[p].key.tick = tk
      BY <1>2b DEF Name
    <2> QED
      BY <1>0, <1>2a, <1>3, <2>1 DEF AckedServed, Serves
  <1>10. AskedSafe(tk, I, e)
    BY <1>0, <1>2, <1>2a, <1>3, <1>4 DEF AskedSafe
  <1>11. RunsForSomeone(tk, I, L, e)
    <2> SUFFICES ASSUME NEW y \in e.running, y.key.tick = tk
                 PROVE  \/ \E z \in I : z.key = y.key
                        \/ CancelsAt(e, tk, y.t) # {}
                        \/ LateAsked(L, e, y.key)
                        \/ LateAcked(L, e, y)
      BY DEF RunsForSomeone
    <2>1. LateAsked(L, st, y.key) => LateAsked(L, e, y.key)
      BY <1>2 DEF LateAsked
    <2>2. LateAcked(L, st, y) => LateAcked(L, e, y)
      BY <1>3 DEF LateAcked
    <2> QED
      BY <1>0, <1>2a, <1>3, <2>1, <2>2 DEF RunsForSomeone
  <1>12. OrphansEnd(tk, I, L, e)
    <2> SUFFICES ASSUME NEW p \in AsksAt(e), e.out[p].key.tick = tk,
                        e.out[p].key \notin e.refuses, Name(e.out[p]) \notin I \cup L
                 PROVE  (\E y \in e.running : Stopped(tk, e, p, y)) \/ Followed(L, e, p)
      BY DEF OrphansEnd
    <2>1. p \in AsksAt(st) /\ e.out[p] = st.out[p]
      BY <1>2
    <2>2. (\E y \in st.running : Stopped(tk, st, p, y)) \/ Followed(L, st, p)
      BY <1>0, <1>3, <2>1 DEF OrphansEnd
    <2>3. \A y : Stopped(tk, st, p, y) => Stopped(tk, e, p, y)
      BY <1>2a, <2>1 DEF Stopped
    <2>4. Followed(L, st, p) => Followed(L, e, p)
      BY <1>2, <2>1 DEF Followed
    <2> QED
      BY <1>3, <2>2, <2>3, <2>4
  <1> QED
    BY <1>0, <1>7, <1>8, <1>9, <1>10, <1>11, <1>12 DEF Net

-----------------------------------------------------------------------------
LEMMA LateGrows ==
  ASSUME NEW st, NEW e, NEW L, NEW M, L \subseteq M, SameReading(st, e),
         \A p \in AsksAt(st) : p \in AsksAt(e) /\ e.out[p] = st.out[p],
         NEW x
  PROVE  /\ LateAsked(L, st, x.key) => LateAsked(M, e, x.key)
         /\ LateAcked(L, st, x) => LateAcked(M, e, x)
         /\ \A p \in AsksAt(st) : Followed(L, st, p) => Followed(M, e, p)
  <1>1. /\ Answers(e) = Answers(st)
        /\ \A p \in Answers(e) : e.in[p] = st.in[p]
    BY SameReadingKeeps
  <1>2. LateAsked(L, st, x.key) => LateAsked(M, e, x.key)
    BY DEF LateAsked
  <1>3. LateAcked(L, st, x) => LateAcked(M, e, x)
    BY <1>1 DEF LateAcked
  <1>4. \A p \in AsksAt(st) : Followed(L, st, p) => Followed(M, e, p)
    BY DEF Followed
  <1> QED
    BY <1>2, <1>3, <1>4

SameWriting(st, e) == e.up = st.up /\ e.out = st.out

LEMMA SameWritingKeeps ==
  ASSUME NEW st, NEW e, SameWriting(st, e)
  PROVE  /\ AsksAt(e) = AsksAt(st)
         /\ \A p \in AsksAt(e) : e.out[p] = st.out[p]
         /\ \A tk, t : CancelsAt(e, tk, t) = CancelsAt(st, tk, t)
         /\ e.up = st.up
  BY DEF SameWriting, AsksAt, CancelsAt

(* A name leaves before it is numbered, and is kept as one whose           *)
(* acknowledgement is to be withdrawn.                                     *)
LEMMA NetLeaves ==
  ASSUME NEW tk, NEW I, NEW J, NEW L, NEW H, NEW G, NEW st, NEW e, NEW x,
         Net(tk, I, L, H, st), SameReading(st, e), SameWriting(st, e),
         DownIsEmpty(st), RunsOnce(st), ReadsTrue(st),
         J \subseteq I, G \subseteq H, Backed(J, G),
         x \in I, x \notin J, \A y \in I \ J : y.key = x.key,
         st.up => InFlight(st, x),
         \A p \in AsksAt(st) : Name(st.out[p]) \in I \ J /\ Name(st.out[p]) # x =>
            \E r \in AsksAt(st) : r > p /\ Name(st.out[r]) = x
  PROVE  Net(tk, J, L \cup {x}, G, e)
  <1> DEFINE M == L \cup {x}
  <1>0. /\ Sorted(tk, I, L) /\ Backed(I, H) /\ Matched(I \cup L, st)
        /\ HeldServed(H, st) /\ AckedServed(I, st) /\ AskedSafe(tk, I, st)
        /\ RunsForSomeone(tk, I, L, st) /\ OrphansEnd(tk, I, L, st)
    BY DEF Net
  <1>2. /\ AsksAt(e) = AsksAt(st)
        /\ \A p \in AsksAt(e) : e.out[p] = st.out[p]
        /\ \A k, t : CancelsAt(e, k, t) = CancelsAt(st, k, t)
        /\ e.up = st.up
    BY SameWritingKeeps
  <1>3. /\ Answers(e) = Answers(st)
        /\ \A p \in Answers(e) : e.in[p] = st.in[p]
        /\ e.running = st.running /\ e.refuses = st.refuses
    BY SameReadingKeeps
  <1>4. J \cup M \subseteq I \cup L /\ L \subseteq M /\ x \in M
    OBVIOUS
  <1> HIDE DEF M
  <1>5. Sorted(tk, J, M)
    <2>1. J \cap M = {}
      BY <1>0 DEF Sorted, M
    <2> QED
      BY <1>0, <1>4, <2>1 DEF Sorted
  <1>7. Matched(J \cup M, e)
    <2>1. ASSUME NEW p \in AsksAt(e), NEW y \in J \cup M, e.out[p].q = y.q
          PROVE  e.out[p].key = y.key
      BY <1>0, <1>2, <1>4, <2>1 DEF Matched
    <2>2. ASSUME NEW p \in Answers(e), NEW y \in J \cup M, e.in[p].q = y.q
          PROVE  e.in[p].key = y.key
      BY <1>0, <1>3, <1>4, <2>2 DEF Matched
    <2> QED
      BY <2>1, <2>2 DEF Matched
  <1>8. HeldServed(G, e)
    <2> SUFFICES ASSUME e.up, NEW h \in G PROVE Serves(e, h.key, h.t)
      BY DEF HeldServed
    <2>1. Serves(st, h.key, h.t)
      BY <1>0, <1>2 DEF HeldServed
    <2> QED
      BY <1>2, <1>3, <2>1 DEF Serves
  <1>9. AckedServed(J, e)
    <2> SUFFICES ASSUME NEW p \in Answers(e), e.in[p].m = "ack", Name(e.in[p]) \in J
                 PROVE  Serves(e, e.in[p].key, e.in[p].t)
      BY DEF AckedServed
    <2> QED
      BY <1>0, <1>2, <1>3 DEF AckedServed, Serves
  <1>10. AskedSafe(tk, J, e)
    BY <1>0, <1>2, <1>3 DEF AskedSafe
  <1>11. RunsForSomeone(tk, J, M, e)
    <2> SUFFICES ASSUME NEW y \in e.running, y.key.tick = tk
                 PROVE  \/ \E z \in J : z.key = y.key
                        \/ CancelsAt(e, tk, y.t) # {}
                        \/ LateAsked(M, e, y.key)
                        \/ LateAcked(M, e, y)
      BY DEF RunsForSomeone
    <2>0. y \in st.running /\ y.key \notin st.refuses
      BY <1>3 DEF RunsOnce
    <2>1. /\ LateAsked(L, st, y.key) => LateAsked(M, e, y.key)
          /\ LateAcked(L, st, y) => LateAcked(M, e, y)
      BY <1>2, <1>4, LateGrows
    <2>2. CASE y.key = x.key
      <3>1. st.up
        BY <2>0 DEF DownIsEmpty
      <3>2. ASSUME NEW p \in AsksAt(st), Name(st.out[p]) = x
            PROVE  LateAsked(M, e, y.key)
        <4>1. st.out[p].key = x.key
          BY <3>2 DEF Name
        <4> QED
          BY <1>2, <1>4, <2>2, <3>2, <4>1 DEF LateAsked
      <3>3. ASSUME NEW p \in Answers(st), Name(st.in[p]) = x
            PROVE  LateAcked(M, e, y)
        <4>1. st.in[p].key = y.key /\ p \in DOMAIN st.in
          BY <2>2, <3>3 DEF Name, Answers
        <4>2. st.in[p].m # "error" /\ st.in[p].m \in {"ack", "error", "record"}
          BY <2>0, <4>1 DEF ReadsTrue
        <4>3. CASE st.in[p].m = "ack"
          <5>1. [key |-> y.key, t |-> st.in[p].t] \in st.running
            BY <1>0, <3>3, <4>1, <4>3 DEF AckedServed, Serves
          <5>2. [key |-> y.key, t |-> st.in[p].t].key = y.key /\ [key |-> y.key, t |-> st.in[p].t].t = st.in[p].t
            OBVIOUS
          <5>3. st.in[p].t = y.t
            BY <2>0, <5>1, <5>2 DEF RunsOnce
          <5> QED
            BY <1>3, <1>4, <3>3, <4>1, <4>3, <5>3 DEF LateAcked
        <4> QED
          BY <4>1, <4>2, <4>3 DEF Answers
      <3> QED
        BY <3>1, <3>2, <3>3 DEF InFlight
    <2>3. CASE y.key # x.key
      BY <1>0, <1>2, <2>0, <2>1, <2>3 DEF RunsForSomeone
    <2> QED
      BY <2>2, <2>3
  <1>12. OrphansEnd(tk, J, M, e)
    <2> SUFFICES ASSUME NEW p \in AsksAt(e), e.out[p].key.tick = tk,
                        e.out[p].key \notin e.refuses, Name(e.out[p]) \notin J \cup M
                 PROVE  (\E y \in e.running : Stopped(tk, e, p, y)) \/ Followed(M, e, p)
      BY DEF OrphansEnd
    <2>1. p \in AsksAt(st) /\ e.out[p] = st.out[p]
      BY <1>2
    <2>2. CASE Name(st.out[p]) \in I
      <3>1. PICK r \in AsksAt(st) : r > p /\ Name(st.out[r]) = x
        BY <1>4, <2>1, <2>2
      <3>2. st.out[r].key = x.key /\ st.out[p].key = x.key
        BY <2>1, <2>2, <3>1 DEF Name
      <3>3. Followed(M, e, p)
        BY <1>2, <1>4, <2>1, <3>1, <3>2 DEF Followed
      <3> QED
        BY <3>3
    <2>3. CASE Name(st.out[p]) \notin I
      <3>1. (\E y \in st.running : Stopped(tk, st, p, y)) \/ Followed(L, st, p)
        BY <1>0, <1>3, <1>4, <2>1, <2>3 DEF OrphansEnd
      <3>2. \A y : Stopped(tk, st, p, y) => Stopped(tk, e, p, y)
        BY <1>2, <2>1 DEF Stopped
      <3>3. Followed(L, st, p) => Followed(M, e, p)
        BY <1>2, <1>4, <2>1, LateGrows
      <3> QED
        BY <1>3, <3>1, <3>2, <3>3
    <2> QED
      BY <2>2, <2>3
  <1> QED
    BY <1>5, <1>7, <1>8, <1>9, <1>10, <1>11, <1>12 DEF Net, M

(* J is I without the names for the thing k, whose stream is held as t. *)
LastOf(I, J, H, k, t) ==
  /\ J \subseteq I /\ [key |-> k, t |-> t] \in H
  /\ \A y \in I \ J : y.key = k
  /\ \A y \in J : y.key # k

(* The last name for a thing leaves, and its stream is withdrawn by number. *)
LEMMA NetStops ==
  ASSUME NEW tk, NEW I, NEW J, NEW L, NEW H, NEW G, NEW st, NEW e, NEW k, NEW t,
         Net(tk, I, L, H, st), SameReading(st, e), RunsOnce(st), st.up, e.up,
         Grows(st.out, e.out, CancelMsg(tk, t)),
         G \subseteq H, Backed(J, G), LastOf(I, J, H, k, t)
  PROVE  Net(tk, J, L, G, e)
  <1> DEFINE n == Len(st.out) + 1
             m == CancelMsg(tk, t)
             w == [key |-> k, t |-> t]
  <1>0. /\ Sorted(tk, I, L) /\ Backed(I, H) /\ Matched(I \cup L, st)
        /\ HeldServed(H, st) /\ AckedServed(I, st) /\ AskedSafe(tk, I, st)
        /\ RunsForSomeone(tk, I, L, st) /\ OrphansEnd(tk, I, L, st)
    BY DEF Net
  <1>j. /\ J \subseteq I /\ w \in H
        /\ \A y \in I \ J : y.key = k
        /\ \A y \in J : y.key # k
    BY DEF LastOf
  <1>1. /\ m.m = "cancel" /\ m.m # "ask" /\ m.tick = tk /\ m.t = t
        /\ w.key = k /\ w.t = t /\ w \in H
    BY <1>j DEF CancelMsg
  <1>w. OutGrew(st, e, m)
    BY Written
  <1>2. /\ \A p \in AsksAt(st) : p \in AsksAt(e) /\ e.out[p] = st.out[p] /\ p < n
        /\ \A p \in AsksAt(e) : p \in AsksAt(st) /\ e.out[p] = st.out[p] /\ p < n
    BY <1>1, <1>w DEF OutGrew
  <1> HIDE DEF m
  <1>2a. n \in CancelsAt(e, tk, t)
    BY <1>1, <1>w DEF OutGrew
  <1>2b. \A r \in CancelsAt(e, tk, t) : r \in CancelsAt(st, tk, t) \/ r = n
    BY <1>w DEF OutGrew
  <1>2c. \A u : u # t => CancelsAt(e, tk, u) = CancelsAt(st, tk, u)
    BY <1>1, <1>w, CancelsStay
  <1>2d. \A u : CancelsAt(st, tk, u) \subseteq CancelsAt(e, tk, u)
    BY <1>w DEF OutGrew
  <1>3. /\ Answers(e) = Answers(st)
        /\ \A p \in Answers(e) : e.in[p] = st.in[p]
        /\ e.running = st.running /\ e.refuses = st.refuses
    BY SameReadingKeeps
  <1> HIDE DEF n, w
  <1>4. k.tick = tk
    <2>1. PICK y \in I : y.key = k
      BY <1>0, <1>1 DEF Backed
    <2> QED
      BY <1>0, <2>1 DEF Sorted
  <1>4a. w \in st.running /\ CancelsAt(st, tk, t) = {}
    BY <1>0, <1>1, <1>4 DEF HeldServed, Serves, w
  <1>4b. \A y \in st.running : y.key.tick = tk /\ (y.t = t \/ y.key = k) => y = w
    BY <1>1, <1>4, <1>4a DEF RunsOnce
  <1>5. Sorted(tk, J, L)
    BY <1>j, <1>0 DEF Sorted
  <1>7. Matched(J \cup L, e)
    <2>1. ASSUME NEW p \in AsksAt(e), NEW y \in J \cup L, e.out[p].q = y.q
          PROVE  e.out[p].key = y.key
      BY <1>j, <1>0, <1>2, <2>1 DEF Matched
    <2>2. ASSUME NEW p \in Answers(e), NEW y \in J \cup L, e.in[p].q = y.q
          PROVE  e.in[p].key = y.key
      BY <1>j, <1>0, <1>3, <2>2 DEF Matched
    <2> QED
      BY <2>1, <2>2 DEF Matched
  <1>s. ASSUME NEW key, NEW u, key # k, key.tick = tk, Serves(st, key, u)
        PROVE  Serves(e, key, u)
    <2> DEFINE y == [key |-> key, t |-> u]
    <2>1. y.key = key /\ y.t = u /\ y \in st.running
      BY <1>s DEF Serves
    <2> HIDE DEF y
    <2>2. u # t
      BY <1>1, <1>4b, <1>s, <2>1
    <2> QED
      BY <1>2c, <1>3, <1>s, <2>2 DEF Serves
  <1>8. HeldServed(G, e)
    <2> SUFFICES ASSUME NEW h \in G PROVE Serves(e, h.key, h.t)
      BY DEF HeldServed
    <2>1. PICK y \in J : y.key = h.key
      BY DEF Backed
    <2>2. h.key # k /\ h.key.tick = tk
      BY <1>j, <1>0, <2>1 DEF Sorted
    <2>3. Serves(st, h.key, h.t)
      BY <1>0 DEF HeldServed
    <2> QED
      BY <1>s, <2>2, <2>3
  <1>9. AckedServed(J, e)
    <2> SUFFICES ASSUME NEW p \in Answers(e), e.in[p].m = "ack", Name(e.in[p]) \in J
                 PROVE  Serves(e, e.in[p].key, e.in[p].t)
      BY DEF AckedServed
    <2>1. Name(e.in[p]).key = e.in[p].key
      BY DEF Name
    <2>2. e.in[p].key # k /\ e.in[p].key.tick = tk
      BY <1>j, <1>0, <2>1 DEF Sorted
    <2>3. Serves(st, e.in[p].key, e.in[p].t)
      BY <1>j, <1>0, <1>3 DEF AckedServed
    <2> QED
      BY <1>s, <2>2, <2>3
  <1>10. AskedSafe(tk, J, e)
    <2> SUFFICES ASSUME NEW p \in AsksAt(e), NEW y \in e.running, Name(e.out[p]) \in J,
                        y.key = e.out[p].key, NEW r \in CancelsAt(e, tk, y.t)
                 PROVE  r < p
      BY DEF AskedSafe
    <2>1. Name(e.out[p]).key = e.out[p].key
      BY DEF Name
    <2>2. y.key # k /\ y.key.tick = tk
      BY <1>j, <1>0, <2>1 DEF Sorted
    <2>3. y.t # t
      BY <1>1, <1>3, <1>4b, <2>2
    <2> QED
      BY <1>j, <1>0, <1>2, <1>2c, <1>3, <2>3 DEF AskedSafe
  <1>11. RunsForSomeone(tk, J, L, e)
    <2> SUFFICES ASSUME NEW y \in e.running, y.key.tick = tk
                 PROVE  \/ \E z \in J : z.key = y.key
                        \/ CancelsAt(e, tk, y.t) # {}
                        \/ LateAsked(L, e, y.key)
                        \/ LateAcked(L, e, y)
      BY DEF RunsForSomeone
    <2>1. /\ LateAsked(L, st, y.key) => LateAsked(L, e, y.key)
          /\ LateAcked(L, st, y) => LateAcked(L, e, y)
      BY <1>2, LateGrows
    <2>2. CASE y.key = k
      BY <1>1, <1>2a, <1>3, <1>4b, <2>2
    <2>3. CASE y.key # k
      <3>1. \/ \E z \in I : z.key = y.key
            \/ CancelsAt(st, tk, y.t) # {}
            \/ LateAsked(L, st, y.key)
            \/ LateAcked(L, st, y)
        BY <1>0, <1>3 DEF RunsForSomeone
      <3> QED
        BY <1>j, <1>2d, <2>1, <2>3, <3>1
    <2> QED
      BY <2>2, <2>3
  <1>12. OrphansEnd(tk, J, L, e)
    <2> SUFFICES ASSUME NEW p \in AsksAt(e), e.out[p].key.tick = tk,
                        e.out[p].key \notin e.refuses, Name(e.out[p]) \notin J \cup L
                 PROVE  (\E y \in e.running : Stopped(tk, e, p, y)) \/ Followed(L, e, p)
      BY DEF OrphansEnd
    <2>1. p \in AsksAt(st) /\ e.out[p] = st.out[p] /\ p < n /\ p \in Int /\ n \in Int
      <3>1. p \in DOMAIN st.out
        BY <1>2 DEF AsksAt
      <3> QED
        BY <1>2, <3>1 DEF Grows, n
    <2>2. CASE Name(st.out[p]) \in I
      <3>1. st.out[p].key = k
        BY <1>j, <2>1, <2>2 DEF Name
      <3>2. Stopped(tk, e, p, w)
        BY <1>1, <1>2a, <1>2b, <1>4a, <2>1, <3>1 DEF Stopped
      <3> QED
        BY <1>3, <1>4a, <3>2
    <2>3. CASE Name(st.out[p]) \notin I
      <3>1. (\E y \in st.running : Stopped(tk, st, p, y)) \/ Followed(L, st, p)
        BY <1>0, <1>3, <2>1, <2>3 DEF OrphansEnd
      <3>2. ASSUME NEW y, Stopped(tk, st, p, y) PROVE Stopped(tk, e, p, y)
        <4>1. CASE y.t = t
          BY <1>2a, <1>2b, <2>1, <3>2, <4>1 DEF Stopped
        <4>2. CASE y.t # t
          BY <1>2c, <2>1, <3>2, <4>2 DEF Stopped
        <4> QED
          BY <4>1, <4>2
      <3>3. Followed(L, st, p) => Followed(L, e, p)
        BY <1>2, <2>1, LateGrows
      <3> QED
        BY <1>3, <3>1, <3>2, <3>3
    <2> QED
      BY <2>2, <2>3
  <1> QED
    BY <1>5, <1>7, <1>8, <1>9, <1>10, <1>11, <1>12 DEF Net

(* A name goes that no ask stands for, or that is refused, or on a         *)
(* connection that is gone.                                                *)
LEMMA NetForgets ==
  ASSUME NEW tk, NEW I, NEW J, NEW L, NEW H, NEW G, NEW st, NEW e,
         Net(tk, I, L, H, st), SameReading(st, e), SameWriting(st, e),
         DownIsEmpty(st), RunsOnce(st),
         J \subseteq I, G \subseteq H, Backed(J, G),
         \A y \in I \ J :
           \/ ~st.up \/ y.key \in st.refuses
           \/ (\E z \in J : z.key = y.key) /\ \A p \in AsksAt(st) : st.out[p].q # y.q
  PROVE  Net(tk, J, L, G, e)
  <1>0. /\ Sorted(tk, I, L) /\ Backed(I, H) /\ Matched(I \cup L, st)
        /\ HeldServed(H, st) /\ AckedServed(I, st) /\ AskedSafe(tk, I, st)
        /\ RunsForSomeone(tk, I, L, st) /\ OrphansEnd(tk, I, L, st)
    BY DEF Net
  <1>2. /\ AsksAt(e) = AsksAt(st)
        /\ \A p \in AsksAt(e) : e.out[p] = st.out[p]
        /\ \A k, t : CancelsAt(e, k, t) = CancelsAt(st, k, t)
        /\ e.up = st.up
    BY SameWritingKeeps
  <1>3. /\ Answers(e) = Answers(st)
        /\ \A p \in Answers(e) : e.in[p] = st.in[p]
        /\ e.running = st.running /\ e.refuses = st.refuses
    BY SameReadingKeeps
  <1>4. J \cup L \subseteq I \cup L
    OBVIOUS
  <1>5. Sorted(tk, J, L)
    BY <1>0 DEF Sorted
  <1>7. Matched(J \cup L, e)
    <2>1. ASSUME NEW p \in AsksAt(e), NEW y \in J \cup L, e.out[p].q = y.q
          PROVE  e.out[p].key = y.key
      BY <1>0, <1>2, <1>4, <2>1 DEF Matched
    <2>2. ASSUME NEW p \in Answers(e), NEW y \in J \cup L, e.in[p].q = y.q
          PROVE  e.in[p].key = y.key
      BY <1>0, <1>3, <1>4, <2>2 DEF Matched
    <2> QED
      BY <2>1, <2>2 DEF Matched
  <1>8. HeldServed(G, e)
    <2> SUFFICES ASSUME e.up, NEW h \in G PROVE Serves(e, h.key, h.t)
      BY DEF HeldServed
    <2>1. Serves(st, h.key, h.t)
      BY <1>0, <1>2 DEF HeldServed
    <2> QED
      BY <1>2, <1>3, <2>1 DEF Serves
  <1>9. AckedServed(J, e)
    <2> SUFFICES ASSUME NEW p \in Answers(e), e.in[p].m = "ack", Name(e.in[p]) \in J
                 PROVE  Serves(e, e.in[p].key, e.in[p].t)
      BY DEF AckedServed
    <2> QED
      BY <1>0, <1>2, <1>3 DEF AckedServed, Serves
  <1>10. AskedSafe(tk, J, e)
    BY <1>0, <1>2, <1>3 DEF AskedSafe
  <1>11. RunsForSomeone(tk, J, L, e)
    <2> SUFFICES ASSUME NEW y \in e.running, y.key.tick = tk
                 PROVE  \/ \E z \in J : z.key = y.key
                        \/ CancelsAt(e, tk, y.t) # {}
                        \/ LateAsked(L, e, y.key)
                        \/ LateAcked(L, e, y)
      BY DEF RunsForSomeone
    <2>0. y \in st.running /\ y.key \notin st.refuses /\ st.up
      BY <1>3 DEF RunsOnce, DownIsEmpty
    <2>1. /\ LateAsked(L, st, y.key) => LateAsked(L, e, y.key)
          /\ LateAcked(L, st, y) => LateAcked(L, e, y)
      BY <1>2, LateGrows
    <2>2. \/ \E z \in I : z.key = y.key
          \/ CancelsAt(st, tk, y.t) # {}
          \/ LateAsked(L, st, y.key)
          \/ LateAcked(L, st, y)
      BY <1>0, <2>0 DEF RunsForSomeone
    <2>3. (\E z \in I : z.key = y.key) => \E z \in J : z.key = y.key
      BY <2>0
    <2> QED
      BY <1>2, <2>1, <2>2, <2>3
  <1>12. OrphansEnd(tk, J, L, e)
    <2> SUFFICES ASSUME NEW p \in AsksAt(e), e.out[p].key.tick = tk,
                        e.out[p].key \notin e.refuses, Name(e.out[p]) \notin J \cup L
                 PROVE  (\E y \in e.running : Stopped(tk, e, p, y)) \/ Followed(L, e, p)
      BY DEF OrphansEnd
    <2>1. p \in AsksAt(st) /\ e.out[p] = st.out[p] /\ st.up
      BY <1>2 DEF DownIsEmpty, AsksAt
    <2>2. Name(st.out[p]) \notin I
      <3>1. Name(st.out[p]).q = st.out[p].q /\ Name(st.out[p]).key = st.out[p].key
        BY DEF Name
      <3> QED
        BY <1>3, <2>1, <3>1
    <2>3. (\E y \in st.running : Stopped(tk, st, p, y)) \/ Followed(L, st, p)
      BY <1>0, <1>3, <2>1, <2>2 DEF OrphansEnd
    <2>4. \A y : Stopped(tk, st, p, y) => Stopped(tk, e, p, y)
      BY <1>2, <2>1 DEF Stopped
    <2>5. Followed(L, st, p) => Followed(L, e, p)
      BY <1>2, <2>1, LateGrows
    <2> QED
      BY <1>3, <2>3, <2>4, <2>5
  <1> QED
    BY <1>5, <1>7, <1>8, <1>9, <1>10, <1>11, <1>12 DEF Net

-----------------------------------------------------------------------------
(* The client reads the first message of what has arrived. *)
Reads(st, e, m) ==
  /\ e.up = st.up /\ e.running = st.running /\ e.refuses = st.refuses
  /\ Shrinks(st.in, e.in, m)

ReadOff(st, e, m) ==
  /\ e.up = st.up /\ e.running = st.running /\ e.refuses = st.refuses
  /\ \A p \in Answers(e) : p + 1 \in Answers(st) /\ e.in[p] = st.in[p + 1] /\ p \in Nat /\ p > 0
  /\ \A p \in Answers(st) : p = 1 \/ (p - 1 \in Answers(e) /\ e.in[p - 1] = st.in[p])
  /\ st.in[1] = m /\ 1 \in DOMAIN st.in
  /\ m.m # "record" => 1 \in Answers(st)

LEMMA ReadsShrink ==
  ASSUME NEW st, NEW e, NEW m, Reads(st, e, m)
  PROVE  ReadOff(st, e, m)
  <1>1. InShrank(st, e, m)
    BY TakenIn DEF Reads
  <1>2. e.up = st.up /\ e.running = st.running /\ e.refuses = st.refuses
    BY DEF Reads
  <1> QED
    BY <1>1, <1>2 DEF InShrank, ReadOff

(* What it reads is no acknowledgement of a name withdrawn unnumbered. *)
LEMMA NetReads ==
  ASSUME NEW tk, NEW I, NEW L, NEW H, NEW G, NEW st, NEW e, NEW m,
         Net(tk, I, L, H, st), Reads(st, e, m), SameWriting(st, e), Backed(I, G),
         \A g \in G : g \in H \/ (m.m = "ack" /\ Name(m) \in I /\ g.key = m.key /\ g.t = m.t),
         m.m = "ack" => Name(m) \notin L
  PROVE  Net(tk, I, L, G, e)
  <1>0. /\ Sorted(tk, I, L) /\ Backed(I, H) /\ Matched(I \cup L, st)
        /\ HeldServed(H, st) /\ AckedServed(I, st) /\ AskedSafe(tk, I, st)
        /\ RunsForSomeone(tk, I, L, st) /\ OrphansEnd(tk, I, L, st)
    BY DEF Net
  <1>2. /\ AsksAt(e) = AsksAt(st)
        /\ \A p \in AsksAt(e) : e.out[p] = st.out[p]
        /\ \A k, t : CancelsAt(e, k, t) = CancelsAt(st, k, t)
        /\ e.up = st.up
    BY SameWritingKeeps
  <1>3. /\ e.running = st.running /\ e.refuses = st.refuses
        /\ \A p \in Answers(e) : p + 1 \in Answers(st) /\ e.in[p] = st.in[p + 1]
        /\ \A p \in Answers(st) : p = 1 \/ (p - 1 \in Answers(e) /\ e.in[p - 1] = st.in[p])
        /\ st.in[1] = m
        /\ m.m # "record" => 1 \in Answers(st)
    BY ReadsShrink DEF ReadOff
  <1>7. Matched(I \cup L, e)
    <2>1. ASSUME NEW p \in AsksAt(e), NEW y \in I \cup L, e.out[p].q = y.q
          PROVE  e.out[p].key = y.key
      BY <1>0, <1>2, <2>1 DEF Matched
    <2>2. ASSUME NEW p \in Answers(e), NEW y \in I \cup L, e.in[p].q = y.q
          PROVE  e.in[p].key = y.key
      BY <1>0, <1>3, <2>2 DEF Matched
    <2> QED
      BY <2>1, <2>2 DEF Matched
  <1>8. HeldServed(G, e)
    <2> SUFFICES ASSUME e.up, NEW g \in G PROVE Serves(e, g.key, g.t)
      BY DEF HeldServed
    <2>1. Serves(st, g.key, g.t)
      <3>1. CASE g \in H
        BY <1>0, <1>2, <3>1 DEF HeldServed
      <3>2. CASE m.m = "ack" /\ Name(m) \in I /\ g.key = m.key /\ g.t = m.t
        BY <1>0, <1>3, <3>2 DEF AckedServed
      <3> QED
        BY <3>1, <3>2
    <2> QED
      BY <1>2, <1>3, <2>1 DEF Serves
  <1>9. AckedServed(I, e)
    <2> SUFFICES ASSUME NEW p \in Answers(e), e.in[p].m = "ack", Name(e.in[p]) \in I
                 PROVE  Serves(e, e.in[p].key, e.in[p].t)
      BY DEF AckedServed
    <2>1. Serves(st, e.in[p].key, e.in[p].t)
      BY <1>0, <1>3 DEF AckedServed
    <2> QED
      BY <1>2, <1>3, <2>1 DEF Serves
  <1>10. AskedSafe(tk, I, e)
    BY <1>0, <1>2, <1>3 DEF AskedSafe
  <1>11. RunsForSomeone(tk, I, L, e)
    <2> SUFFICES ASSUME NEW y \in e.running, y.key.tick = tk
                 PROVE  \/ \E z \in I : z.key = y.key
                        \/ CancelsAt(e, tk, y.t) # {}
                        \/ LateAsked(L, e, y.key)
                        \/ LateAcked(L, e, y)
      BY DEF RunsForSomeone
    <2>1. LateAsked(L, st, y.key) => LateAsked(L, e, y.key)
      BY <1>2 DEF LateAsked
    <2>2. LateAcked(L, st, y) => LateAcked(L, e, y)
      <3> SUFFICES ASSUME NEW p \in Answers(st), st.in[p].m = "ack", Name(st.in[p]) \in L,
                          st.in[p].key = y.key, st.in[p].t = y.t
                   PROVE  LateAcked(L, e, y)
        BY DEF LateAcked
      <3>1. p # 1
        BY <1>3
      <3> QED
        BY <1>3, <3>1 DEF LateAcked
    <2> QED
      BY <1>0, <1>2, <1>3, <2>1, <2>2 DEF RunsForSomeone
  <1>12. OrphansEnd(tk, I, L, e)
    <2> SUFFICES ASSUME NEW p \in AsksAt(e), e.out[p].key.tick = tk,
                        e.out[p].key \notin e.refuses, Name(e.out[p]) \notin I \cup L
                 PROVE  (\E y \in e.running : Stopped(tk, e, p, y)) \/ Followed(L, e, p)
      BY DEF OrphansEnd
    <2>1. (\E y \in st.running : Stopped(tk, st, p, y)) \/ Followed(L, st, p)
      BY <1>0, <1>2, <1>3 DEF OrphansEnd
    <2>2. \A y : Stopped(tk, st, p, y) => Stopped(tk, e, p, y)
      BY <1>2 DEF Stopped
    <2>3. Followed(L, st, p) => Followed(L, e, p)
      BY <1>2 DEF Followed
    <2> QED
      BY <1>3, <2>1, <2>2, <2>3
  <1> QED
    BY <1>0, <1>7, <1>8, <1>9, <1>10, <1>11, <1>12 DEF Net

(* Once it has read the acknowledgement of a name withdrawn unnumbered, no *)
(* other message on its way goes by that name.                             *)
LateRead(L, M, st, e, m) ==
  /\ \A p \in AsksAt(st) : Name(st.out[p]) # Name(m)
  /\ \A key : LateAsked(L, st, key) => LateAsked(M, e, key)
  /\ \A p \in AsksAt(st) : Followed(L, st, p) => Followed(M, e, p)
  /\ \A y : LateAcked(L, st, y) => (m.key = y.key /\ m.t = y.t) \/ LateAcked(M, e, y)

LEMMA LateReads ==
  ASSUME NEW L, NEW M, NEW st, NEW e, NEW m, Reads(st, e, m), OneNameEach(st),
         m.m = "ack", M = L \ {Name(m)},
         \A p \in AsksAt(st) : p \in AsksAt(e) /\ e.out[p] = st.out[p]
  PROVE  LateRead(L, M, st, e, m)
  <1>1. /\ \A p \in Answers(st) : p = 1 \/ (p - 1 \in Answers(e) /\ e.in[p - 1] = st.in[p])
        /\ st.in[1] = m /\ 1 \in Answers(st)
    BY ReadsShrink DEF ReadOff
  <1>2. \A p \in AsksAt(st) : Name(st.out[p]) # Name(m)
    <2> SUFFICES ASSUME NEW p \in AsksAt(st) PROVE Name(st.out[p]) # Name(m)
      OBVIOUS
    <2>1. st.out[p].q # m.q
      BY <1>1 DEF OneNameEach
    <2> QED
      BY <2>1 DEF Name
  <1>3. \A p \in Answers(st) : p # 1 => Name(st.in[p]) # Name(m)
    <2> SUFFICES ASSUME NEW p \in Answers(st), p # 1 PROVE Name(st.in[p]) # Name(m)
      OBVIOUS
    <2>1. st.in[p].q # m.q
      BY <1>1 DEF OneNameEach
    <2> QED
      BY <2>1 DEF Name
  <1>4. \A key : LateAsked(L, st, key) => LateAsked(M, e, key)
    BY <1>2 DEF LateAsked
  <1>5. \A p \in AsksAt(st) : Followed(L, st, p) => Followed(M, e, p)
    BY <1>2 DEF Followed
  <1>6. \A y : LateAcked(L, st, y) => (m.key = y.key /\ m.t = y.t) \/ LateAcked(M, e, y)
    <2> SUFFICES ASSUME NEW y, NEW p \in Answers(st), st.in[p].m = "ack", Name(st.in[p]) \in L,
                        st.in[p].key = y.key, st.in[p].t = y.t, p # 1
                 PROVE  LateAcked(M, e, y)
      BY <1>1 DEF LateAcked
    <2>1. Name(st.in[p]) \in M
      BY <1>3
    <2> QED
      BY <1>1, <2>1 DEF LateAcked
  <1> QED
    BY <1>2, <1>4, <1>5, <1>6 DEF LateRead

(* The stream a late acknowledgement tells of is asked for by another name. *)
LEMMA NetLateKept ==
  ASSUME NEW tk, NEW I, NEW L, NEW M, NEW H, NEW st, NEW e, NEW m,
         Net(tk, I, L, H, st), Reads(st, e, m), SameWriting(st, e), OneNameEach(st),
         m.m = "ack", Name(m) \in L, M = L \ {Name(m)},
         \E y \in I : y.key = m.key
  PROVE  Net(tk, I, M, H, e)
  <1>0. /\ Sorted(tk, I, L) /\ Backed(I, H) /\ Matched(I \cup L, st)
        /\ HeldServed(H, st) /\ AckedServed(I, st) /\ AskedSafe(tk, I, st)
        /\ RunsForSomeone(tk, I, L, st) /\ OrphansEnd(tk, I, L, st)
    BY DEF Net
  <1>2. /\ AsksAt(e) = AsksAt(st)
        /\ \A p \in AsksAt(e) : e.out[p] = st.out[p]
        /\ \A k, t : CancelsAt(e, k, t) = CancelsAt(st, k, t)
        /\ e.up = st.up
    BY SameWritingKeeps
  <1>3. /\ e.running = st.running /\ e.refuses = st.refuses
        /\ \A p \in Answers(e) : p + 1 \in Answers(st) /\ e.in[p] = st.in[p + 1]
    BY ReadsShrink DEF ReadOff
  <1>4. I \cup M \subseteq I \cup L
    OBVIOUS
  <1>5. Sorted(tk, I, M)
    BY <1>0 DEF Sorted
  <1>6b. LateRead(L, M, st, e, m)
    BY <1>2, LateReads
  <1>6. /\ \A p \in AsksAt(st) : Name(st.out[p]) # Name(m)
        /\ \A key : LateAsked(L, st, key) => LateAsked(M, e, key)
        /\ \A p \in AsksAt(st) : Followed(L, st, p) => Followed(M, e, p)
        /\ \A y : LateAcked(L, st, y) => (m.key = y.key /\ m.t = y.t) \/ LateAcked(M, e, y)
    BY <1>6b DEF LateRead
  <1>7. Matched(I \cup M, e)
    <2>1. ASSUME NEW p \in AsksAt(e), NEW y \in I \cup M, e.out[p].q = y.q
          PROVE  e.out[p].key = y.key
      BY <1>0, <1>2, <1>4, <2>1 DEF Matched
    <2>2. ASSUME NEW p \in Answers(e), NEW y \in I \cup M, e.in[p].q = y.q
          PROVE  e.in[p].key = y.key
      BY <1>0, <1>3, <1>4, <2>2 DEF Matched
    <2> QED
      BY <2>1, <2>2 DEF Matched
  <1>8. HeldServed(H, e)
    <2> SUFFICES ASSUME e.up, NEW g \in H PROVE Serves(e, g.key, g.t)
      BY DEF HeldServed
    <2>1. Serves(st, g.key, g.t)
      BY <1>0, <1>2 DEF HeldServed
    <2> QED
      BY <1>2, <1>3, <2>1 DEF Serves
  <1>9. AckedServed(I, e)
    <2> SUFFICES ASSUME NEW p \in Answers(e), e.in[p].m = "ack", Name(e.in[p]) \in I
                 PROVE  Serves(e, e.in[p].key, e.in[p].t)
      BY DEF AckedServed
    <2>1. Serves(st, e.in[p].key, e.in[p].t)
      BY <1>0, <1>3 DEF AckedServed
    <2> QED
      BY <1>2, <1>3, <2>1 DEF Serves
  <1>10. AskedSafe(tk, I, e)
    BY <1>0, <1>2, <1>3 DEF AskedSafe
  <1>11. RunsForSomeone(tk, I, M, e)
    BY <1>0, <1>2, <1>3, <1>6 DEF RunsForSomeone
  <1>12. OrphansEnd(tk, I, M, e)
    <2> SUFFICES ASSUME NEW p \in AsksAt(e), e.out[p].key.tick = tk,
                        e.out[p].key \notin e.refuses, Name(e.out[p]) \notin I \cup M
                 PROVE  (\E y \in e.running : Stopped(tk, e, p, y)) \/ Followed(M, e, p)
      BY DEF OrphansEnd
    <2>0. Name(st.out[p]) \notin I \cup L
      BY <1>2, <1>6
    <2>1. (\E y \in st.running : Stopped(tk, st, p, y)) \/ Followed(L, st, p)
      BY <1>0, <1>2, <1>3, <2>0 DEF OrphansEnd
    <2>2. \A y : Stopped(tk, st, p, y) => Stopped(tk, e, p, y)
      BY <1>2 DEF Stopped
    <2> QED
      BY <1>2, <1>3, <1>6, <2>1, <2>2
  <1> QED
    BY <1>0, <1>5, <1>7, <1>8, <1>9, <1>10, <1>11, <1>12 DEF Net

(* Nobody asks for the stream a late acknowledgement tells of: it is       *)
(* withdrawn by the number.                                                *)
LEMMA NetLateStops ==
  ASSUME NEW tk, NEW I, NEW L, NEW M, NEW H, NEW st, NEW e, NEW m,
         Net(tk, I, L, H, st), Reads(st, e, m), OneNameEach(st), ReadsTrue(st),
         Grows(st.out, e.out, CancelMsg(tk, m.t)),
         m.m = "ack", Name(m) \in L, M = L \ {Name(m)},
         \A y \in I : y.key # m.key
  PROVE  Net(tk, I, M, H, e)
  <1> DEFINE n == Len(st.out) + 1
             w == CancelMsg(tk, m.t)
  <1>0. /\ Sorted(tk, I, L) /\ Backed(I, H) /\ Matched(I \cup L, st)
        /\ HeldServed(H, st) /\ AckedServed(I, st) /\ AskedSafe(tk, I, st)
        /\ RunsForSomeone(tk, I, L, st) /\ OrphansEnd(tk, I, L, st)
    BY DEF Net
  <1>1. w.m = "cancel" /\ w.m # "ask" /\ w.tick = tk /\ w.t = m.t
    BY DEF CancelMsg
  <1>w. OutGrew(st, e, w)
    BY Written
  <1>2. /\ \A p \in AsksAt(st) : p \in AsksAt(e) /\ e.out[p] = st.out[p] /\ p < n
        /\ \A p \in AsksAt(e) : p \in AsksAt(st) /\ e.out[p] = st.out[p] /\ p < n
    BY <1>1, <1>w DEF OutGrew
  <1> HIDE DEF w
  <1>2a. n \in CancelsAt(e, tk, m.t)
    BY <1>1, <1>w DEF OutGrew
  <1>2b. \A r \in CancelsAt(e, tk, m.t) : r \in CancelsAt(st, tk, m.t) \/ r = n
    BY <1>w DEF OutGrew
  <1>2c. \A u : u # m.t => CancelsAt(e, tk, u) = CancelsAt(st, tk, u)
    BY <1>1, <1>w, CancelsStay
  <1>2d. \A u : CancelsAt(st, tk, u) \subseteq CancelsAt(e, tk, u)
    BY <1>w DEF OutGrew
  <1>3. /\ e.running = st.running /\ e.refuses = st.refuses /\ e.up = st.up
        /\ \A p \in Answers(e) : p + 1 \in Answers(st) /\ e.in[p] = st.in[p + 1]
        /\ st.in[1] = m /\ 1 \in DOMAIN st.in
    BY ReadsShrink DEF ReadOff
  <1> HIDE DEF n
  <1>4. I \cup M \subseteq I \cup L
    OBVIOUS
  <1>5. Sorted(tk, I, M)
    BY <1>0 DEF Sorted
  <1>6b. LateRead(L, M, st, e, m)
    BY <1>2, LateReads
  <1>6. /\ \A p \in AsksAt(st) : Name(st.out[p]) # Name(m)
        /\ \A key : LateAsked(L, st, key) => LateAsked(M, e, key)
        /\ \A p \in AsksAt(st) : Followed(L, st, p) => Followed(M, e, p)
        /\ \A y : LateAcked(L, st, y) => (m.key = y.key /\ m.t = y.t) \/ LateAcked(M, e, y)
    BY <1>6b DEF LateRead
  <1>6a. m.key.tick = tk
    <2>1. Name(m).key = m.key
      BY DEF Name
    <2> QED
      BY <1>0, <2>1 DEF Sorted
  <1>s. ASSUME NEW key, NEW u, key # m.key, key.tick = tk, Serves(st, key, u)
        PROVE  Serves(e, key, u)
    <2> DEFINE y == [key |-> key, t |-> u]
    <2>1. y.key = key /\ y.t = u /\ y \in st.running
      BY <1>s DEF Serves
    <2> HIDE DEF y
    <2>2. u # m.t
      BY <1>3, <1>6a, <1>s, <2>1 DEF ReadsTrue
    <2> QED
      BY <1>2c, <1>3, <1>s, <2>2 DEF Serves
  <1>7. Matched(I \cup M, e)
    <2>1. ASSUME NEW p \in AsksAt(e), NEW y \in I \cup M, e.out[p].q = y.q
          PROVE  e.out[p].key = y.key
      BY <1>0, <1>2, <1>4, <2>1 DEF Matched
    <2>2. ASSUME NEW p \in Answers(e), NEW y \in I \cup M, e.in[p].q = y.q
          PROVE  e.in[p].key = y.key
      BY <1>0, <1>3, <1>4, <2>2 DEF Matched
    <2> QED
      BY <2>1, <2>2 DEF Matched
  <1>8. HeldServed(H, e)
    <2> SUFFICES ASSUME e.up, NEW h \in H PROVE Serves(e, h.key, h.t)
      BY DEF HeldServed
    <2>1. PICK y \in I : y.key = h.key
      BY <1>0 DEF Backed
    <2>2. h.key # m.key /\ h.key.tick = tk
      BY <1>0, <2>1 DEF Sorted
    <2>3. Serves(st, h.key, h.t)
      BY <1>0, <1>3 DEF HeldServed
    <2> QED
      BY <1>s, <2>2, <2>3
  <1>9. AckedServed(I, e)
    <2> SUFFICES ASSUME NEW p \in Answers(e), e.in[p].m = "ack", Name(e.in[p]) \in I
                 PROVE  Serves(e, e.in[p].key, e.in[p].t)
      BY DEF AckedServed
    <2>1. Name(e.in[p]).key = e.in[p].key
      BY DEF Name
    <2>2. e.in[p].key # m.key /\ e.in[p].key.tick = tk
      BY <1>0, <2>1 DEF Sorted
    <2>3. Serves(st, e.in[p].key, e.in[p].t)
      BY <1>0, <1>3 DEF AckedServed
    <2> QED
      BY <1>s, <2>2, <2>3
  <1>10. AskedSafe(tk, I, e)
    <2> SUFFICES ASSUME NEW p \in AsksAt(e), NEW y \in e.running, Name(e.out[p]) \in I,
                        y.key = e.out[p].key, NEW r \in CancelsAt(e, tk, y.t)
                 PROVE  r < p
      BY DEF AskedSafe
    <2>1. Name(e.out[p]).key = e.out[p].key
      BY DEF Name
    <2>2. y.key # m.key /\ y.key.tick = tk
      BY <1>0, <2>1 DEF Sorted
    <2>3. y.t # m.t
      BY <1>3, <1>6a, <2>2 DEF ReadsTrue
    <2> QED
      BY <1>0, <1>2, <1>2c, <1>3, <2>3 DEF AskedSafe
  <1>11. RunsForSomeone(tk, I, M, e)
    <2> SUFFICES ASSUME NEW y \in e.running, y.key.tick = tk
                 PROVE  \/ \E z \in I : z.key = y.key
                        \/ CancelsAt(e, tk, y.t) # {}
                        \/ LateAsked(M, e, y.key)
                        \/ LateAcked(M, e, y)
      BY DEF RunsForSomeone
    <2>1. \/ \E z \in I : z.key = y.key
          \/ CancelsAt(st, tk, y.t) # {}
          \/ LateAsked(L, st, y.key)
          \/ LateAcked(L, st, y)
      BY <1>0, <1>3 DEF RunsForSomeone
    <2>2. m.t = y.t => CancelsAt(e, tk, y.t) # {}
      BY <1>2a
    <2> QED
      BY <1>2d, <1>6, <2>1, <2>2
  <1>12. OrphansEnd(tk, I, M, e)
    <2> SUFFICES ASSUME NEW p \in AsksAt(e), e.out[p].key.tick = tk,
                        e.out[p].key \notin e.refuses, Name(e.out[p]) \notin I \cup M
                 PROVE  (\E y \in e.running : Stopped(tk, e, p, y)) \/ Followed(M, e, p)
      BY DEF OrphansEnd
    <2>0. Name(st.out[p]) \notin I \cup L
      BY <1>2, <1>6
    <2>1. p \in AsksAt(st) /\ e.out[p] = st.out[p] /\ p < n /\ p \in Int /\ n \in Int
      <3>1. p \in DOMAIN st.out
        BY <1>2 DEF AsksAt
      <3> QED
        BY <1>2, <3>1 DEF Grows, n
    <2>2. (\E y \in st.running : Stopped(tk, st, p, y)) \/ Followed(L, st, p)
      BY <1>0, <1>2, <1>3, <2>0 DEF OrphansEnd
    <2>3. ASSUME NEW y, Stopped(tk, st, p, y) PROVE Stopped(tk, e, p, y)
      <3>1. CASE y.t = m.t
        BY <1>2a, <1>2b, <2>1, <2>3, <3>1 DEF Stopped
      <3>2. CASE y.t # m.t
        BY <1>2c, <2>1, <2>3, <3>2 DEF Stopped
      <3> QED
        BY <3>1, <3>2
    <2> QED
      BY <1>2, <1>3, <1>6, <2>2, <2>3
  <1> QED
    BY <1>0, <1>5, <1>7, <1>8, <1>9, <1>10, <1>11, <1>12 DEF Net

-----------------------------------------------------------------------------
(* What is left on its way once the venue has taken the first message. *)
TookOff(st, e, m) ==
  /\ \A p \in AsksAt(e) : p + 1 \in AsksAt(st) /\ e.out[p] = st.out[p + 1]
  /\ \A p \in AsksAt(st) : p = 1 \/ (p - 1 \in AsksAt(e) /\ e.out[p - 1] = st.out[p])
  /\ \A tk, t : \A p \in CancelsAt(e, tk, t) : p + 1 \in CancelsAt(st, tk, t)
  /\ \A tk, t : CancelsAt(st, tk, t) = {} => CancelsAt(e, tk, t) = {}
  /\ \A tk, t : CancelsAt(st, tk, t) # {} =>
       CancelsAt(e, tk, t) # {} \/ (m.m = "cancel" /\ m.tick = tk /\ m.t = t)

LEMMA TakesOff ==
  ASSUME NEW st, NEW e, NEW m, Shrinks(st.out, e.out, m)
  PROVE  TookOff(st, e, m)
  <1>1. OutShrank(st, e, m)
    BY Taken
  <1>2. /\ \A p \in AsksAt(e) : p + 1 \in AsksAt(st) /\ e.out[p] = st.out[p + 1]
        /\ \A p \in AsksAt(st) : p = 1 \/ (p - 1 \in AsksAt(e) /\ e.out[p - 1] = st.out[p])
        /\ \A tk, t : \A p \in CancelsAt(e, tk, t) : p + 1 \in CancelsAt(st, tk, t)
    BY <1>1 DEF OutShrank
  <1>3. \A tk, t : CancelsAt(st, tk, t) = {} => CancelsAt(e, tk, t) = {}
    BY <1>2
  <1>4. ASSUME NEW tk, NEW t, NEW p \in CancelsAt(st, tk, t)
        PROVE  CancelsAt(e, tk, t) # {} \/ (m.m = "cancel" /\ m.tick = tk /\ m.t = t)
    <2>1. p = 1 \/ p - 1 \in CancelsAt(e, tk, t)
      BY <1>1 DEF OutShrank
    <2>2. p = 1 => m.m = "cancel" /\ m.tick = tk /\ m.t = t
      BY <1>1 DEF OutShrank
    <2> QED
      BY <2>1, <2>2
  <1> QED
    BY <1>2, <1>3, <1>4 DEF TookOff

(* Stopped and Followed move up with the messages. *)
LEMMA MovesUp ==
  ASSUME NEW st, NEW e, NEW m, Shrinks(st.out, e.out, m), NEW p \in AsksAt(e)
  PROVE  /\ \A tk, y : Stopped(tk, st, p + 1, y) => Stopped(tk, e, p, y)
         /\ \A L : Followed(L, st, p + 1) => Followed(L, e, p)
  <1>1. OutShrank(st, e, m)
    BY Taken
  <1>2. p + 1 \in AsksAt(st) /\ e.out[p] = st.out[p + 1] /\ p \in Nat /\ p > 0
    BY <1>1 DEF OutShrank
  <1>3. ASSUME NEW tk, NEW y, Stopped(tk, st, p + 1, y)
        PROVE  Stopped(tk, e, p, y)
    <2>1. y.key = st.out[p + 1].key /\ CancelsAt(st, tk, y.t) # {}
          /\ \A r \in CancelsAt(st, tk, y.t) : r > p + 1
      BY <1>3 DEF Stopped
    <2>2. PICK r \in CancelsAt(st, tk, y.t) : TRUE
      BY <2>1
    <2>3. r - 1 \in CancelsAt(e, tk, y.t)
      <3>1. r > p + 1
        BY <2>1
      <3>2. r \in Nat /\ (r = 1 \/ r - 1 \in CancelsAt(e, tk, y.t))
        BY <1>1 DEF OutShrank
      <3> QED
        BY <1>2, <3>1, <3>2
    <2>4. ASSUME NEW v \in CancelsAt(e, tk, y.t) PROVE v > p
      <3>1. v + 1 \in CancelsAt(st, tk, y.t) /\ v \in Nat
        BY <1>1 DEF OutShrank
      <3>2. v + 1 > p + 1
        BY <2>1, <3>1
      <3> QED
        BY <1>2, <3>1, <3>2
    <2> QED
      BY <1>2, <2>1, <2>3, <2>4 DEF Stopped
  <1>4. ASSUME NEW L, Followed(L, st, p + 1)
        PROVE  Followed(L, e, p)
    <2>1. PICK r \in AsksAt(st) : r > p + 1 /\ Name(st.out[r]) \in L /\ st.out[r].key = st.out[p + 1].key
      BY <1>4 DEF Followed
    <2>2. r \in Nat /\ (r = 1 \/ (r - 1 \in AsksAt(e) /\ e.out[r - 1] = st.out[r]))
      BY <1>1 DEF OutShrank
    <2>3. r - 1 \in AsksAt(e) /\ e.out[r - 1] = st.out[r] /\ r - 1 > p
      BY <1>2, <2>1, <2>2
    <2> QED
      BY <1>2, <2>1, <2>3 DEF Followed
  <1> QED
    BY <1>3, <1>4

(* What the venue answers an ask with: the number of the stream of that    *)
(* thing, which runs already or is opened under a number nothing names.    *)
Opens(st, e, m, w) ==
  /\ e.running = st.running \cup {w} /\ w.key = m.key
  /\ \/ w \in st.running
     \/ /\ \A x \in st.running : x.key # m.key
        /\ \A x \in st.running : ~(x.key.tick = m.key.tick /\ x.t = w.t)
        /\ \A p \in DOMAIN st.in : ~(st.in[p].key.tick = m.key.tick /\ st.in[p].t = w.t)
        /\ CancelsAt(st, m.key.tick, w.t) = {}
        /\ w.t # NoNumber

TakesAsk(st, e, m, a) ==
  /\ m.m = "ask" /\ Shrinks(st.out, e.out, m) /\ Grows(st.in, e.in, a)
  /\ e.up = st.up /\ e.refuses = st.refuses
  /\ a.q = m.q /\ a.key = m.key /\ a.m \in {"ack", "error"}
  /\ a.m = "error" <=> m.key \in st.refuses
  /\ a.m = "error" => e.running = st.running
  /\ a.m = "ack" => Opens(st, e, m, [key |-> m.key, t |-> a.t])

(* The facts of an ask taken that the lemmas below share. *)
AskTaken(st, e, m, a) ==
  /\ \A p \in Answers(st) : p \in Answers(e) /\ e.in[p] = st.in[p]
  /\ \A p \in Answers(e) : p \in Answers(st) \/ (e.in[p] = a /\ p = Len(st.in) + 1)
  /\ \A p \in Answers(e) : p \in Answers(st) => e.in[p] = st.in[p]
  /\ Len(st.in) + 1 \in Answers(e) /\ e.in[Len(st.in) + 1] = a
  /\ Name(a) = Name(m)
  /\ st.running \subseteq e.running
  /\ 1 \in AsksAt(st) /\ st.out[1] = m
  /\ \A tk, t : CancelsAt(st, tk, t) # {} => CancelsAt(e, tk, t) # {}

LEMMA AskIsTaken ==
  ASSUME NEW st, NEW e, NEW m, NEW a, TakesAsk(st, e, m, a)
  PROVE  AskTaken(st, e, m, a)
  <1>1. InGrew(st, e, a)
    BY Arrived DEF TakesAsk
  <1>2. OutShrank(st, e, m) /\ TookOff(st, e, m)
    BY Taken, TakesOff DEF TakesAsk
  <1>3. /\ m.m = "ask" /\ a.q = m.q /\ a.key = m.key /\ a.m # "record"
        /\ a.m = "ack" \/ a.m = "error"
    BY DEF TakesAsk
  <1>4. st.running \subseteq e.running
    <2>1. CASE a.m = "error"
      BY <2>1 DEF TakesAsk
    <2>2. CASE a.m = "ack"
      BY <2>2 DEF TakesAsk, Opens
    <2> QED
      BY <1>3, <2>1, <2>2
  <1>5. /\ \A p \in Answers(st) : p \in Answers(e) /\ e.in[p] = st.in[p]
        /\ \A p \in Answers(e) : p \in Answers(st) \/ (e.in[p] = a /\ p = Len(st.in) + 1)
        /\ Len(st.in) + 1 \in Answers(e) /\ e.in[Len(st.in) + 1] = a
    BY <1>1, <1>3 DEF InGrew
  <1>6. 1 \in AsksAt(st) /\ st.out[1] = m
    BY <1>2, <1>3 DEF OutShrank
  <1>7. \A tk, t : CancelsAt(st, tk, t) # {} => CancelsAt(e, tk, t) # {}
    BY <1>2, <1>3 DEF TookOff
  <1>8. Name(a) = Name(m)
    BY <1>3 DEF Name
  <1> QED
    BY <1>4, <1>5, <1>6, <1>7, <1>8 DEF AskTaken

LEMMA NetTakesAsk ==
  ASSUME NEW tk, NEW I, NEW L, NEW H, NEW st, NEW e, NEW m, NEW a,
         Net(tk, I, L, H, st), TakesAsk(st, e, m, a), RunsOnce(st)
  PROVE  Net(tk, I, L, H, e)
  <1> DEFINE w == [key |-> m.key, t |-> a.t]
  <1>0. /\ Sorted(tk, I, L) /\ Backed(I, H) /\ Matched(I \cup L, st)
        /\ HeldServed(H, st) /\ AckedServed(I, st) /\ AskedSafe(tk, I, st)
        /\ RunsForSomeone(tk, I, L, st) /\ OrphansEnd(tk, I, L, st)
    BY DEF Net
  <1>t. /\ Shrinks(st.out, e.out, m)
        /\ e.up = st.up /\ e.refuses = st.refuses
        /\ a.q = m.q /\ a.key = m.key /\ (a.m = "ack" \/ a.m = "error")
        /\ a.m = "error" <=> m.key \in st.refuses
        /\ a.m = "error" => e.running = st.running
        /\ a.m = "ack" => Opens(st, e, m, w)
    BY DEF TakesAsk
  <1>1. w.key = m.key /\ w.t = a.t
    OBVIOUS
  <1>w. w \notin st.running /\ a.m = "ack" => w.t # NoNumber
    BY <1>t DEF Opens
  <1> HIDE DEF w
  <1>o. TookOff(st, e, m)
    BY <1>t, TakesOff
  <1>2. /\ \A p \in AsksAt(e) : p + 1 \in AsksAt(st) /\ e.out[p] = st.out[p + 1]
        /\ \A p \in AsksAt(st) : p = 1 \/ (p - 1 \in AsksAt(e) /\ e.out[p - 1] = st.out[p])
        /\ \A k, t : \A p \in CancelsAt(e, k, t) : p + 1 \in CancelsAt(st, k, t)
        /\ \A k, t : CancelsAt(st, k, t) = {} => CancelsAt(e, k, t) = {}
    BY <1>o DEF TookOff
  <1>2a. /\ \A p \in AsksAt(e) : p \in Nat
         /\ \A k, t : \A p \in CancelsAt(e, k, t) : p \in Nat /\ p > 0
    BY <1>t, Taken DEF OutShrank
  <1>2b. \A k, t : \A p \in CancelsAt(st, k, t) : p \in Nat /\ p >= 1
    BY <1>t, Taken DEF OutShrank
  <1>3. AskTaken(st, e, m, a)
    BY AskIsTaken
  <1>3a. /\ \A p \in Answers(st) : p \in Answers(e) /\ e.in[p] = st.in[p]
         /\ \A p \in Answers(e) : p \in Answers(st) \/ e.in[p] = a
         /\ \A p \in Answers(e) : p \in Answers(st) => e.in[p] = st.in[p]
    BY <1>3 DEF AskTaken
  <1>3b. /\ Len(st.in) + 1 \in Answers(e) /\ e.in[Len(st.in) + 1] = a
         /\ Name(a) = Name(m) /\ 1 \in AsksAt(st) /\ st.out[1] = m
    BY <1>3 DEF AskTaken
  <1>3c. /\ st.running \subseteq e.running
         /\ \A k, t : CancelsAt(st, k, t) # {} => CancelsAt(e, k, t) # {}
    BY <1>3 DEF AskTaken
  <1>3d. /\ \A y \in e.running : y \in st.running \/ (y = w /\ a.m = "ack")
         /\ a.m = "ack" => w \in e.running
    <2>1. CASE a.m = "error"
      BY <1>t, <2>1
    <2>2. CASE a.m = "ack"
      BY <1>t, <2>2 DEF Opens
    <2> QED
      BY <1>t, <2>1, <2>2
  <1>3e. a.m = "ack" =>
           \/ w \in st.running
           \/ (\A x \in st.running : x.key # m.key) /\ CancelsAt(st, m.key.tick, w.t) = {}
    BY <1>t DEF Opens
  <1>s. ASSUME NEW key, NEW u, Serves(st, key, u) PROVE Serves(e, key, u)
    BY <1>2, <1>3c, <1>s DEF Serves
  <1>7. Matched(I \cup L, e)
    <2>1. ASSUME NEW p \in AsksAt(e), NEW y \in I \cup L, e.out[p].q = y.q
          PROVE  e.out[p].key = y.key
      BY <1>0, <1>2, <2>1 DEF Matched
    <2>2. ASSUME NEW p \in Answers(e), NEW y \in I \cup L, e.in[p].q = y.q
          PROVE  e.in[p].key = y.key
      <3>1. CASE p \in Answers(st)
        BY <1>0, <1>3a, <2>2, <3>1 DEF Matched
      <3>2. CASE e.in[p] = a
        BY <1>0, <1>t, <1>3b, <2>2, <3>2 DEF Matched
      <3> QED
        BY <1>3a, <3>1, <3>2
    <2> QED
      BY <2>1, <2>2 DEF Matched
  <1>8. HeldServed(H, e)
    <2> SUFFICES ASSUME e.up, NEW h \in H PROVE Serves(e, h.key, h.t)
      BY DEF HeldServed
    <2>1. Serves(st, h.key, h.t)
      BY <1>0, <1>t DEF HeldServed
    <2> QED
      BY <1>s, <2>1
  <1>9. AckedServed(I, e)
    <2> SUFFICES ASSUME NEW p \in Answers(e), e.in[p].m = "ack", Name(e.in[p]) \in I
                 PROVE  Serves(e, e.in[p].key, e.in[p].t)
      BY DEF AckedServed
    <2>1. CASE p \in Answers(st)
      <3>1. Serves(st, e.in[p].key, e.in[p].t)
        BY <1>0, <1>3a, <2>1 DEF AckedServed
      <3> QED
        BY <1>s, <3>1
    <2>2. CASE e.in[p] = a
      <3>1. Name(m) \in I /\ Name(m).key = m.key /\ a.m = "ack"
        BY <1>3b, <2>2 DEF Name
      <3>2. m.key.tick = tk
        BY <1>0, <3>1 DEF Sorted
      <3>3. w \in e.running
        BY <1>3d, <3>1
      <3>4. CancelsAt(e, tk, w.t) = {}
        <4>1. CASE w \in st.running
          <5>1. \A r \in CancelsAt(st, tk, w.t) : r < 1
            BY <1>0, <1>1, <1>3b, <3>1, <4>1 DEF AskedSafe
          <5>2. CancelsAt(st, tk, w.t) = {}
            BY <1>2b, <5>1
          <5> QED
            BY <1>2, <5>2
        <4>2. CASE w \notin st.running
          BY <1>2, <1>3e, <3>1, <3>2, <4>2
        <4> QED
          BY <4>1, <4>2
      <3> QED
        BY <1>t, <1>1, <2>2, <3>2, <3>3, <3>4 DEF Serves, w
    <2> QED
      BY <1>3a, <2>1, <2>2
  <1>10. AskedSafe(tk, I, e)
    <2> SUFFICES ASSUME NEW p \in AsksAt(e), NEW y \in e.running, Name(e.out[p]) \in I,
                        y.key = e.out[p].key, NEW r \in CancelsAt(e, tk, y.t)
                 PROVE  r < p
      BY DEF AskedSafe
    <2>1. CASE y \in st.running
      <3>1. p + 1 \in AsksAt(st) /\ e.out[p] = st.out[p + 1] /\ r + 1 \in CancelsAt(st, tk, y.t)
        BY <1>2
      <3>2. r + 1 < p + 1
        BY <1>0, <2>1, <3>1 DEF AskedSafe
      <3> QED
        BY <1>2a, <3>2
    <2>2. CASE y \notin st.running
      <3>1. y = w /\ a.m = "ack"
        BY <1>3d, <2>2
      <3>2. Name(e.out[p]).key = y.key
        BY DEF Name
      <3>3. m.key.tick = tk
        BY <1>0, <1>1, <3>1, <3>2 DEF Sorted
      <3> QED
        BY <1>2, <1>3e, <2>2, <3>1, <3>3
    <2> QED
      BY <2>1, <2>2
  <1>l. ASSUME Name(m) \in L, NEW y \in e.running, y.key = m.key
        PROVE  LateAcked(L, e, y)
    <2>1. a.m = "ack" /\ y.t = w.t
      <3>1. CASE y \in st.running
        <4>1. y.key \notin st.refuses
          BY <3>1 DEF RunsOnce
        <4>2. a.m = "ack" /\ w \in st.running
          BY <1>t, <1>3e, <1>l, <3>1, <4>1
        <4> QED
          BY <1>1, <1>l, <3>1, <4>2 DEF RunsOnce
      <3>2. CASE y \notin st.running
        BY <1>3d, <3>2
      <3> QED
        BY <3>1, <3>2
    <2> QED
      BY <1>t, <1>1, <1>3b, <1>l, <2>1 DEF LateAcked
  <1>a. ASSUME NEW key, LateAsked(L, st, key)
        PROVE  LateAsked(L, e, key) \/ (Name(m) \in L /\ key = m.key)
    <2>1. PICK p \in AsksAt(st) : Name(st.out[p]) \in L /\ st.out[p].key = key
      BY <1>a DEF LateAsked
    <2>2. CASE p = 1
      BY <1>3b, <2>1, <2>2
    <2>3. CASE p # 1
      BY <1>2, <2>1, <2>3 DEF LateAsked
    <2> QED
      BY <2>2, <2>3
  <1>11. RunsForSomeone(tk, I, L, e)
    <2> SUFFICES ASSUME NEW y \in e.running, y.key.tick = tk
                 PROVE  \/ \E z \in I : z.key = y.key
                        \/ CancelsAt(e, tk, y.t) # {}
                        \/ LateAsked(L, e, y.key)
                        \/ LateAcked(L, e, y)
      BY DEF RunsForSomeone
    <2>1. CASE y \in st.running
      <3>1. LateAcked(L, st, y) => LateAcked(L, e, y)
        BY <1>3a DEF LateAcked
      <3>2. LateAsked(L, st, y.key) => LateAsked(L, e, y.key) \/ LateAcked(L, e, y)
        BY <1>a, <1>l
      <3> QED
        BY <1>0, <1>3c, <2>1, <3>1, <3>2 DEF RunsForSomeone
    <2>2. CASE y \notin st.running
      <3>1. y = w /\ a.m = "ack" /\ y.key = m.key /\ m.key \notin st.refuses
        BY <1>t, <1>1, <1>3d, <2>2
      <3>2. \A x \in st.running : x.key # m.key
        BY <1>3e, <2>2, <3>1
      <3>3. CASE Name(m) \in I
        <4>1. Name(m).key = m.key
          BY DEF Name
        <4> QED
          BY <3>1, <3>3, <4>1
      <3>4. CASE Name(m) \in L
        BY <1>l, <3>1, <3>4
      <3>5. CASE Name(m) \notin I \cup L
        <4>1. (\E x \in st.running : Stopped(tk, st, 1, x)) \/ Followed(L, st, 1)
          BY <1>0, <1>3b, <3>1, <3>5 DEF OrphansEnd
        <4>2. \A x \in st.running : ~Stopped(tk, st, 1, x)
          BY <1>3b, <3>2 DEF Stopped
        <4>3. PICK r \in AsksAt(st) : r > 1 /\ Name(st.out[r]) \in L /\ st.out[r].key = m.key
          BY <1>3b, <4>1, <4>2 DEF Followed
        <4>4. r # 1
          BY <4>3
        <4>5. LateAsked(L, e, y.key)
          BY <1>2, <3>1, <4>3, <4>4 DEF LateAsked
        <4> QED
          BY <4>5
      <3> QED
        BY <3>3, <3>4, <3>5
    <2> QED
      BY <2>1, <2>2
  <1>12. OrphansEnd(tk, I, L, e)
    <2> SUFFICES ASSUME NEW p \in AsksAt(e), e.out[p].key.tick = tk,
                        e.out[p].key \notin e.refuses, Name(e.out[p]) \notin I \cup L
                 PROVE  (\E y \in e.running : Stopped(tk, e, p, y)) \/ Followed(L, e, p)
      BY DEF OrphansEnd
    <2>1. p + 1 \in AsksAt(st) /\ e.out[p] = st.out[p + 1]
      BY <1>2
    <2>2. (\E y \in st.running : Stopped(tk, st, p + 1, y)) \/ Followed(L, st, p + 1)
      BY <1>0, <1>t, <2>1 DEF OrphansEnd
    <2>3. /\ \A y : Stopped(tk, st, p + 1, y) => Stopped(tk, e, p, y)
          /\ Followed(L, st, p + 1) => Followed(L, e, p)
      BY <1>t, MovesUp
    <2> QED
      BY <1>3c, <2>2, <2>3
  <1> QED
    BY <1>0, <1>7, <1>8, <1>9, <1>10, <1>11, <1>12 DEF Net

-----------------------------------------------------------------------------
(* The venue takes a withdrawal. *)
TakesCancel(st, e, m) ==
  /\ m.m = "cancel" /\ Shrinks(st.out, e.out, m)
  /\ e.up = st.up /\ e.refuses = st.refuses /\ e.in = st.in
  /\ e.running = {r \in st.running : r.key.tick # m.tick \/ r.t # m.t}

LEMMA NetTakesCancel ==
  ASSUME NEW tk, NEW I, NEW L, NEW H, NEW st, NEW e, NEW m,
         Net(tk, I, L, H, st), TakesCancel(st, e, m)
  PROVE  Net(tk, I, L, H, e)
  <1>0. /\ Sorted(tk, I, L) /\ Backed(I, H) /\ Matched(I \cup L, st)
        /\ HeldServed(H, st) /\ AckedServed(I, st) /\ AskedSafe(tk, I, st)
        /\ RunsForSomeone(tk, I, L, st) /\ OrphansEnd(tk, I, L, st)
    BY DEF Net
  <1>t. /\ m.m = "cancel" /\ m.m # "ask" /\ Shrinks(st.out, e.out, m)
        /\ e.up = st.up /\ e.refuses = st.refuses
        /\ e.running = {r \in st.running : r.key.tick # m.tick \/ r.t # m.t}
    BY DEF TakesCancel
  <1>1. Answers(e) = Answers(st) /\ \A p \in Answers(e) : e.in[p] = st.in[p]
    BY DEF TakesCancel, Answers
  <1>o. TookOff(st, e, m)
    BY <1>t, TakesOff
  <1>2. /\ \A p \in AsksAt(e) : p + 1 \in AsksAt(st) /\ e.out[p] = st.out[p + 1]
        /\ \A p \in AsksAt(st) : p = 1 \/ (p - 1 \in AsksAt(e) /\ e.out[p - 1] = st.out[p])
        /\ \A k, t : \A p \in CancelsAt(e, k, t) : p + 1 \in CancelsAt(st, k, t)
        /\ \A k, t : CancelsAt(st, k, t) = {} => CancelsAt(e, k, t) = {}
        /\ \A k, t : CancelsAt(st, k, t) # {} =>
             CancelsAt(e, k, t) # {} \/ (m.m = "cancel" /\ m.tick = k /\ m.t = t)
    BY <1>o DEF TookOff
  <1>p. OutShrank(st, e, m)
    BY <1>t, Taken
  <1>2a. /\ \A p \in AsksAt(e) : p \in Nat
         /\ \A k, t : \A p \in CancelsAt(e, k, t) : p \in Nat /\ p > 0
         /\ 1 \in CancelsAt(st, m.tick, m.t)
         /\ \A p \in AsksAt(st) : p # 1
    BY <1>p, <1>t DEF OutShrank
  <1>3. e.running \subseteq st.running
    BY <1>t
  <1>s. ASSUME NEW key, NEW u, Serves(st, key, u) PROVE Serves(e, key, u)
    <2> DEFINE y == [key |-> key, t |-> u]
    <2>1. y.key = key /\ y.t = u /\ y \in st.running
      BY <1>s DEF Serves
    <2> HIDE DEF y
    <2>2. ~(m.tick = key.tick /\ m.t = u)
      BY <1>2a, <1>s DEF Serves
    <2>3. y \in e.running
      BY <1>t, <2>1, <2>2
    <2> QED
      BY <1>2, <1>s, <2>3 DEF Serves, y
  <1>7. Matched(I \cup L, e)
    <2>1. ASSUME NEW p \in AsksAt(e), NEW y \in I \cup L, e.out[p].q = y.q
          PROVE  e.out[p].key = y.key
      BY <1>0, <1>2, <2>1 DEF Matched
    <2>2. ASSUME NEW p \in Answers(e), NEW y \in I \cup L, e.in[p].q = y.q
          PROVE  e.in[p].key = y.key
      BY <1>0, <1>1, <2>2 DEF Matched
    <2> QED
      BY <2>1, <2>2 DEF Matched
  <1>8. HeldServed(H, e)
    <2> SUFFICES ASSUME e.up, NEW h \in H PROVE Serves(e, h.key, h.t)
      BY DEF HeldServed
    <2>1. Serves(st, h.key, h.t)
      BY <1>0, <1>t DEF HeldServed
    <2> QED
      BY <1>s, <2>1
  <1>9. AckedServed(I, e)
    <2> SUFFICES ASSUME NEW p \in Answers(e), e.in[p].m = "ack", Name(e.in[p]) \in I
                 PROVE  Serves(e, e.in[p].key, e.in[p].t)
      BY DEF AckedServed
    <2>1. Serves(st, e.in[p].key, e.in[p].t)
      BY <1>0, <1>1 DEF AckedServed
    <2> QED
      BY <1>s, <2>1
  <1>10. AskedSafe(tk, I, e)
    <2> SUFFICES ASSUME NEW p \in AsksAt(e), NEW y \in e.running, Name(e.out[p]) \in I,
                        y.key = e.out[p].key, NEW r \in CancelsAt(e, tk, y.t)
                 PROVE  r < p
      BY DEF AskedSafe
    <2>1. p + 1 \in AsksAt(st) /\ e.out[p] = st.out[p + 1] /\ r + 1 \in CancelsAt(st, tk, y.t)
      BY <1>2
    <2>2. r + 1 < p + 1
      BY <1>0, <1>3, <2>1 DEF AskedSafe
    <2> QED
      BY <1>2a, <2>2
  <1>11. RunsForSomeone(tk, I, L, e)
    <2> SUFFICES ASSUME NEW y \in e.running, y.key.tick = tk
                 PROVE  \/ \E z \in I : z.key = y.key
                        \/ CancelsAt(e, tk, y.t) # {}
                        \/ LateAsked(L, e, y.key)
                        \/ LateAcked(L, e, y)
      BY DEF RunsForSomeone
    <2>1. y \in st.running /\ ~(m.tick = tk /\ m.t = y.t)
      BY <1>t
    <2>2. LateAcked(L, st, y) => LateAcked(L, e, y)
      BY <1>1 DEF LateAcked
    <2>3. LateAsked(L, st, y.key) => LateAsked(L, e, y.key)
      <3> SUFFICES ASSUME NEW p \in AsksAt(st), Name(st.out[p]) \in L, st.out[p].key = y.key
                   PROVE  LateAsked(L, e, y.key)
        BY DEF LateAsked
      <3>1. p - 1 \in AsksAt(e) /\ e.out[p - 1] = st.out[p]
        BY <1>2, <1>2a
      <3> QED
        BY <3>1 DEF LateAsked
    <2> QED
      BY <1>0, <1>2, <2>1, <2>2, <2>3 DEF RunsForSomeone
  <1>12. OrphansEnd(tk, I, L, e)
    <2> SUFFICES ASSUME NEW p \in AsksAt(e), e.out[p].key.tick = tk,
                        e.out[p].key \notin e.refuses, Name(e.out[p]) \notin I \cup L
                 PROVE  (\E y \in e.running : Stopped(tk, e, p, y)) \/ Followed(L, e, p)
      BY DEF OrphansEnd
    <2>1. p + 1 \in AsksAt(st) /\ e.out[p] = st.out[p + 1] /\ p \in Nat
      BY <1>2, <1>2a
    <2>2. (\E y \in st.running : Stopped(tk, st, p + 1, y)) \/ Followed(L, st, p + 1)
      BY <1>0, <1>t, <2>1 DEF OrphansEnd
    <2>3. /\ \A y : Stopped(tk, st, p + 1, y) => Stopped(tk, e, p, y)
          /\ Followed(L, st, p + 1) => Followed(L, e, p)
      BY <1>t, MovesUp
    <2>4. \A y \in st.running : Stopped(tk, st, p + 1, y) => y \in e.running
      <3> SUFFICES ASSUME NEW y \in st.running, Stopped(tk, st, p + 1, y)
                   PROVE  y \in e.running
        OBVIOUS
      <3>1. \A r \in CancelsAt(st, tk, y.t) : r > p + 1
        BY DEF Stopped
      <3>2. 1 \notin CancelsAt(st, tk, y.t)
        BY <2>1, <3>1
      <3>3. ~(m.tick = tk /\ m.t = y.t)
        BY <1>2a, <3>2
      <3>4. y.key.tick = tk
        BY <2>1 DEF Stopped
      <3> QED
        BY <1>t, <3>3, <3>4
    <2> QED
      BY <2>2, <2>3, <2>4
  <1> QED
    BY <1>0, <1>7, <1>8, <1>9, <1>10, <1>11, <1>12 DEF Net

(* The venue writes a record. *)
WritesRecord(st, e, m) ==
  /\ m.m = "record" /\ Grows(st.in, e.in, m)
  /\ e.running = st.running /\ e.refuses = st.refuses

LEMMA NetWritesRecord ==
  ASSUME NEW tk, NEW I, NEW L, NEW H, NEW st, NEW e, NEW m,
         Net(tk, I, L, H, st), WritesRecord(st, e, m), SameWriting(st, e)
  PROVE  Net(tk, I, L, H, e)
  <1>0. /\ Sorted(tk, I, L) /\ Backed(I, H) /\ Matched(I \cup L, st)
        /\ HeldServed(H, st) /\ AckedServed(I, st) /\ AskedSafe(tk, I, st)
        /\ RunsForSomeone(tk, I, L, st) /\ OrphansEnd(tk, I, L, st)
    BY DEF Net
  <1>2. /\ AsksAt(e) = AsksAt(st)
        /\ \A p \in AsksAt(e) : e.out[p] = st.out[p]
        /\ \A k, t : CancelsAt(e, k, t) = CancelsAt(st, k, t)
        /\ e.up = st.up
    BY SameWritingKeeps
  <1>g. InGrew(st, e, m)
    BY Arrived DEF WritesRecord
  <1>3. /\ e.running = st.running /\ e.refuses = st.refuses /\ m.m = "record"
    BY DEF WritesRecord
  <1>4. /\ \A p \in Answers(e) : p \in Answers(st) /\ e.in[p] = st.in[p]
        /\ \A p \in Answers(st) : p \in Answers(e) /\ e.in[p] = st.in[p]
    BY <1>3, <1>g DEF InGrew
  <1>7. Matched(I \cup L, e)
    BY <1>0, <1>2, <1>4 DEF Matched
  <1>8. HeldServed(H, e)
    <2> SUFFICES ASSUME e.up, NEW h \in H PROVE Serves(e, h.key, h.t)
      BY DEF HeldServed
    <2>1. Serves(st, h.key, h.t)
      BY <1>0, <1>2 DEF HeldServed
    <2> QED
      BY <1>2, <1>3, <2>1 DEF Serves
  <1>9. AckedServed(I, e)
    <2> SUFFICES ASSUME NEW p \in Answers(e), e.in[p].m = "ack", Name(e.in[p]) \in I
                 PROVE  Serves(e, e.in[p].key, e.in[p].t)
      BY DEF AckedServed
    <2>1. Serves(st, e.in[p].key, e.in[p].t)
      BY <1>0, <1>4 DEF AckedServed
    <2> QED
      BY <1>2, <1>3, <2>1 DEF Serves
  <1>10. AskedSafe(tk, I, e)
    BY <1>0, <1>2, <1>3 DEF AskedSafe
  <1>11. RunsForSomeone(tk, I, L, e)
    <2>1. \A key : LateAsked(L, st, key) => LateAsked(L, e, key)
      BY <1>2 DEF LateAsked
    <2>2. \A y : LateAcked(L, st, y) => LateAcked(L, e, y)
      BY <1>4 DEF LateAcked
    <2> QED
      BY <1>0, <1>2, <1>3, <2>1, <2>2 DEF RunsForSomeone
  <1>12. OrphansEnd(tk, I, L, e)
    <2>1. \A p \in AsksAt(e) : \A y : Stopped(tk, st, p, y) => Stopped(tk, e, p, y)
      BY <1>2 DEF Stopped
    <2>2. \A p \in AsksAt(e) : Followed(L, st, p) => Followed(L, e, p)
      BY <1>2 DEF Followed
    <2> QED
      BY <1>0, <1>2, <1>3, <2>1, <2>2 DEF OrphansEnd
  <1> QED
    BY <1>0, <1>7, <1>8, <1>9, <1>10, <1>11, <1>12 DEF Net

(* The connection is gone, with what was on its way. *)
Gone(e) == ~e.up /\ e.out = <<>> /\ e.in = <<>> /\ e.running = {}

LEMMA NetGone ==
  ASSUME NEW tk, NEW I, NEW J, NEW L, NEW H, NEW G, NEW st, NEW e,
         Net(tk, I, L, H, st), Gone(e), J \subseteq I, Backed(J, G)
  PROVE  Net(tk, J, L, G, e)
  <1>1. AsksAt(e) = {} /\ Answers(e) = {} /\ e.running = {} /\ ~e.up
    BY DEF Gone, AsksAt, Answers
  <1>2. Sorted(tk, J, L)
    BY DEF Net, Sorted
  <1> QED
    BY <1>1, <1>2 DEF Net, Matched, HeldServed, AckedServed, AskedSafe, RunsForSomeone, OrphansEnd

(* A new connection, on which every stream is asked for. *)
Anew(e) == e.in = <<>> /\ e.running = {} /\ \A p \in DOMAIN e.out : e.out[p].m = "ask"

LEMMA NetAnew ==
  ASSUME NEW tk, NEW I, NEW e, Anew(e), Sorted(tk, I, {}),
         \A p \in AsksAt(e), x \in I : e.out[p].q = x.q => e.out[p].key = x.key,
         \A p \in AsksAt(e) : e.out[p].key.tick = tk => Name(e.out[p]) \in I
  PROVE  Net(tk, I, {}, {}, e)
  <1>1. Answers(e) = {} /\ e.running = {} /\ I \cup {} = I
    BY DEF Anew, Answers
  <1>2. Backed(I, {}) /\ HeldServed({}, e) /\ AckedServed(I, e)
    BY <1>1 DEF Backed, HeldServed, AckedServed
  <1>3. Matched(I \cup {}, e)
    BY <1>1 DEF Matched
  <1>4. AskedSafe(tk, I, e) /\ RunsForSomeone(tk, I, {}, e)
    BY <1>1 DEF AskedSafe, RunsForSomeone
  <1>5. OrphansEnd(tk, I, {}, e)
    BY <1>1 DEF OrphansEnd
  <1> QED
    BY <1>2, <1>3, <1>4, <1>5 DEF Net

-----------------------------------------------------------------------------
(* The wire, through each kind of step. *)

LEMMA WireTables ==
  ASSUME NEW st, NEW e, Wire(st), SameReading(st, e), SameWriting(st, e),
         e.batch \subseteq st.batch \/ e.up
  PROVE  Wire(e)
  <1>0. OneNameEach(st) /\ RunsOnce(st) /\ ReadsTrue(st) /\ DownIsEmpty(st)
    BY DEF Wire
  <1>1. /\ e.in = st.in /\ e.running = st.running /\ e.refuses = st.refuses
        /\ e.up = st.up /\ e.out = st.out
    BY DEF SameReading, SameWriting
  <1>2. OneNameEach(e)
    BY <1>0, <1>1 DEF OneNameEach, AsksAt, Answers
  <1>3. RunsOnce(e)
    BY <1>0, <1>1 DEF RunsOnce
  <1>4. ReadsTrue(e)
    BY <1>0, <1>1 DEF ReadsTrue
  <1>5. DownIsEmpty(e)
    BY <1>0, <1>1 DEF DownIsEmpty
  <1> QED
    BY <1>2, <1>3, <1>4, <1>5 DEF Wire

LEMMA WireWrites ==
  ASSUME NEW st, NEW e, NEW m, Wire(st), SameReading(st, e), e.up,
         Grows(st.out, e.out, m),
         m.m = "ask" => /\ \A p \in AsksAt(st) : st.out[p].q # m.q
                        /\ \A p \in Answers(st) : st.in[p].q # m.q
  PROVE  Wire(e)
  <1>0. OneNameEach(st) /\ RunsOnce(st) /\ ReadsTrue(st) /\ DownIsEmpty(st)
    BY DEF Wire
  <1>1. /\ e.in = st.in /\ e.running = st.running /\ e.refuses = st.refuses
        /\ Answers(e) = Answers(st) /\ \A p \in Answers(e) : e.in[p] = st.in[p]
    BY DEF SameReading, Answers
  <1>w. OutGrew(st, e, m)
    BY Written
  <1> DEFINE n == Len(st.out) + 1
  <1>2a. /\ \A p \in AsksAt(e) : (p \in AsksAt(st) /\ e.out[p] = st.out[p]) \/ (p = n /\ m.m = "ask")
         /\ e.out[n] = m
    BY <1>w DEF OutGrew
  <1> HIDE DEF n
  <1>2. OneNameEach(e)
    <2>1. ASSUME NEW p \in AsksAt(e), NEW r \in AsksAt(e), e.out[p].q = e.out[r].q
          PROVE  p = r
      BY <1>0, <1>2a, <2>1 DEF OneNameEach
    <2>2. ASSUME NEW p \in Answers(e), NEW r \in Answers(e), e.in[p].q = e.in[r].q
          PROVE  p = r
      BY <1>0, <1>1, <2>2 DEF OneNameEach
    <2>3. ASSUME NEW p \in AsksAt(e), NEW r \in Answers(e)
          PROVE  e.out[p].q # e.in[r].q
      BY <1>0, <1>1, <1>2a DEF OneNameEach
    <2> QED
      BY <2>1, <2>2, <2>3 DEF OneNameEach
  <1>3. RunsOnce(e)
    BY <1>0, <1>1 DEF RunsOnce
  <1>4. ReadsTrue(e)
    BY <1>0, <1>1 DEF ReadsTrue
  <1>5. DownIsEmpty(e)
    BY DEF DownIsEmpty
  <1> QED
    BY <1>2, <1>3, <1>4, <1>5 DEF Wire

LEMMA WireReads ==
  ASSUME NEW st, NEW e, NEW m, Wire(st), Reads(st, e, m), SameWriting(st, e), e.up
  PROVE  Wire(e)
  <1>0. OneNameEach(st) /\ RunsOnce(st) /\ ReadsTrue(st) /\ DownIsEmpty(st)
    BY DEF Wire
  <1>1. /\ e.running = st.running /\ e.refuses = st.refuses
        /\ AsksAt(e) = AsksAt(st) /\ \A p \in AsksAt(e) : e.out[p] = st.out[p]
    BY SameWritingKeeps DEF Reads
  <1>i. InShrank(st, e, m)
    BY TakenIn DEF Reads
  <1>2a. /\ \A p \in Answers(e) : p + 1 \in Answers(st) /\ e.in[p] = st.in[p + 1] /\ p \in Nat
         /\ \A p \in DOMAIN e.in : p + 1 \in DOMAIN st.in /\ e.in[p] = st.in[p + 1]
    BY <1>i DEF InShrank
  <1>2. OneNameEach(e)
    <2>1. ASSUME NEW p \in AsksAt(e), NEW r \in AsksAt(e), e.out[p].q = e.out[r].q
          PROVE  p = r
      BY <1>0, <1>1, <2>1 DEF OneNameEach
    <2>2. ASSUME NEW p \in Answers(e), NEW r \in Answers(e), e.in[p].q = e.in[r].q
          PROVE  p = r
      <3>1. p + 1 = r + 1
        BY <1>0, <1>2a, <2>2 DEF OneNameEach
      <3> QED
        BY <1>2a, <3>1
    <2>3. ASSUME NEW p \in AsksAt(e), NEW r \in Answers(e)
          PROVE  e.out[p].q # e.in[r].q
      BY <1>0, <1>1, <1>2a DEF OneNameEach
    <2> QED
      BY <2>1, <2>2, <2>3 DEF OneNameEach
  <1>3. RunsOnce(e)
    BY <1>0, <1>1 DEF RunsOnce
  <1>4. ReadsTrue(e)
    BY <1>0, <1>1, <1>2a DEF ReadsTrue
  <1>5. DownIsEmpty(e)
    BY DEF DownIsEmpty
  <1> QED
    BY <1>2, <1>3, <1>4, <1>5 DEF Wire

LEMMA WireTakesAsk ==
  ASSUME NEW st, NEW e, NEW m, NEW a, Wire(st), TakesAsk(st, e, m, a), e.up,
         a.m = "error" <=> a.t = NoNumber
  PROVE  Wire(e)
  <1> DEFINE n == Len(st.in) + 1
             w == [key |-> m.key, t |-> a.t]
  <1>0. OneNameEach(st) /\ RunsOnce(st) /\ ReadsTrue(st) /\ DownIsEmpty(st)
    BY DEF Wire
  <1>t. /\ m.m = "ask" /\ Shrinks(st.out, e.out, m)
        /\ e.up = st.up /\ e.refuses = st.refuses
        /\ a.q = m.q /\ a.key = m.key /\ (a.m = "ack" \/ a.m = "error")
        /\ a.m = "error" <=> m.key \in st.refuses
        /\ a.m = "error" => e.running = st.running
        /\ a.m = "ack" => Opens(st, e, m, w)
    BY DEF TakesAsk
  <1>1. w.key = m.key /\ w.t = a.t
    OBVIOUS
  <1>a. AskTaken(st, e, m, a)
    BY AskIsTaken
  <1>b. /\ \A p \in Answers(e) : (p \in Answers(st) /\ e.in[p] = st.in[p]) \/ (e.in[p] = a /\ p = n)
        /\ 1 \in AsksAt(st) /\ st.out[1] = m
    BY <1>a DEF AskTaken
  <1>g. InGrew(st, e, a)
    BY Arrived DEF TakesAsk
  <1>c. \A p \in DOMAIN e.in : (p \in DOMAIN st.in /\ e.in[p] = st.in[p]) \/ e.in[p] = a
    BY <1>g DEF InGrew
  <1> HIDE DEF n, w
  <1>d. OutShrank(st, e, m)
    BY <1>t, Taken
  <1>e. \A p \in AsksAt(e) : p + 1 \in AsksAt(st) /\ e.out[p] = st.out[p + 1] /\ p \in Nat /\ p > 0
    BY <1>d DEF OutShrank
  <1>f. \A p \in AsksAt(e) : p + 1 # 1
    BY <1>e
  <1>2. OneNameEach(e)
    <2>1. ASSUME NEW p \in AsksAt(e), NEW r \in AsksAt(e), e.out[p].q = e.out[r].q
          PROVE  p = r
      <3>1. p + 1 = r + 1
        BY <1>0, <1>e, <2>1 DEF OneNameEach
      <3> QED
        BY <1>e, <3>1
    <2>2. ASSUME NEW p \in Answers(e), NEW r \in Answers(e), e.in[p].q = e.in[r].q
          PROVE  p = r
      BY <1>0, <1>b, <1>t, <2>2 DEF OneNameEach
    <2>3. ASSUME NEW p \in AsksAt(e), NEW r \in Answers(e)
          PROVE  e.out[p].q # e.in[r].q
      <3>1. CASE r \in Answers(st) /\ e.in[r] = st.in[r]
        BY <1>0, <1>e, <3>1 DEF OneNameEach
      <3>2. CASE e.in[r] = a
        BY <1>0, <1>b, <1>e, <1>f, <1>t, <3>2 DEF OneNameEach
      <3> QED
        BY <1>b, <3>1, <3>2
    <2> QED
      BY <2>1, <2>2, <2>3 DEF OneNameEach
  <1>3. RunsOnce(e)
    <2>1. CASE a.m = "error"
      BY <1>0, <1>t, <2>1 DEF RunsOnce
    <2>2. CASE a.m = "ack"
      <3>1. m.key \notin st.refuses
        BY <1>t, <2>2
      <3>2. Opens(st, e, m, w)
        BY <1>t, <2>2
      <3>3. CASE w \in st.running
        <4>1. e.running = st.running
          BY <3>2, <3>3 DEF Opens
        <4> QED
          BY <1>0, <1>t, <4>1 DEF RunsOnce
      <3>4. CASE w \notin st.running
        <4>1. /\ e.running = st.running \cup {w} /\ w.key = m.key /\ w.t # NoNumber
              /\ \A x \in st.running : x.key # m.key
              /\ \A x \in st.running : ~(x.key.tick = m.key.tick /\ x.t = w.t)
          BY <3>2, <3>4 DEF Opens
        <4>2. ASSUME NEW x \in e.running, NEW y \in e.running,
                     x.key = y.key \/ (x.key.tick = y.key.tick /\ x.t = y.t)
              PROVE  x = y
          <5>1. CASE x \in st.running /\ y \in st.running
            BY <1>0, <4>2, <5>1 DEF RunsOnce
          <5>2. CASE x = w \/ y = w
            BY <4>1, <4>2, <5>2
          <5> QED
            BY <4>1, <5>1, <5>2
        <4>3. ASSUME NEW x \in e.running
              PROVE  x.key \notin e.refuses /\ x.t # NoNumber
          BY <1>0, <1>t, <3>1, <4>1 DEF RunsOnce
        <4> QED
          BY <4>2, <4>3 DEF RunsOnce
      <3> QED
        BY <3>3, <3>4
    <2> QED
      BY <1>t, <2>1, <2>2
  <1>4. ReadsTrue(e)
    <2>1. ASSUME NEW p \in DOMAIN e.in
          PROVE  /\ e.in[p].m \in {"ack", "error", "record"}
                 /\ e.in[p].key \in e.refuses <=> e.in[p].m = "error"
                 /\ e.in[p].m # "error" => e.in[p].t # NoNumber
      BY <1>0, <1>c, <1>t DEF ReadsTrue
    <2>2. ASSUME NEW p \in DOMAIN e.in, NEW x \in e.running,
                 e.in[p].key.tick = x.key.tick, e.in[p].t = x.t
          PROVE  e.in[p].key = x.key
      <3>1. CASE p \in DOMAIN st.in /\ e.in[p] = st.in[p] /\ x \in st.running
        BY <1>0, <2>2, <3>1 DEF ReadsTrue
      <3>2. CASE p \in DOMAIN st.in /\ e.in[p] = st.in[p] /\ x \notin st.running
        <4>1. Opens(st, e, m, w)
          BY <1>t, <3>2
        <4>2. x = w /\ w \notin st.running
          BY <3>2, <4>1 DEF Opens
        <4> QED
          BY <1>1, <2>2, <3>2, <4>1, <4>2 DEF Opens
      <3>3. CASE e.in[p] = a /\ a.m = "ack"
        <4>1. w \in e.running
          BY <1>t, <3>3 DEF Opens
        <4>2. x = w
          BY <1>1, <1>3, <1>t, <2>2, <3>3, <4>1 DEF RunsOnce
        <4> QED
          BY <1>1, <1>t, <3>3, <4>2
      <3>4. CASE e.in[p] = a /\ a.m = "error"
        <4>1. x.t = NoNumber
          BY <2>2, <3>4
        <4> QED
          BY <1>3, <4>1 DEF RunsOnce
      <3> QED
        BY <1>c, <1>t, <3>1, <3>2, <3>3, <3>4
    <2> QED
      BY <2>1, <2>2 DEF ReadsTrue
  <1>5. DownIsEmpty(e)
    BY DEF DownIsEmpty
  <1> QED
    BY <1>2, <1>3, <1>4, <1>5 DEF Wire

LEMMA WireTakesCancel ==
  ASSUME NEW st, NEW e, NEW m, Wire(st), TakesCancel(st, e, m), e.up
  PROVE  Wire(e)
  <1>0. OneNameEach(st) /\ RunsOnce(st) /\ ReadsTrue(st) /\ DownIsEmpty(st)
    BY DEF Wire
  <1>1. /\ e.in = st.in /\ e.running \subseteq st.running /\ e.refuses = st.refuses
        /\ Shrinks(st.out, e.out, m)
        /\ Answers(e) = Answers(st)
    BY DEF TakesCancel, Answers
  <1>d. OutShrank(st, e, m)
    BY <1>1, Taken
  <1>e. \A p \in AsksAt(e) : p + 1 \in AsksAt(st) /\ e.out[p] = st.out[p + 1] /\ p \in Nat /\ p > 0
    BY <1>d DEF OutShrank
  <1>2. OneNameEach(e)
    <2>1. ASSUME NEW p \in AsksAt(e), NEW r \in AsksAt(e), e.out[p].q = e.out[r].q
          PROVE  p = r
      <3>1. p + 1 = r + 1
        BY <1>0, <1>e, <2>1 DEF OneNameEach
      <3> QED
        BY <1>e, <3>1
    <2>2. \A p, r \in Answers(e) : e.in[p].q = e.in[r].q => p = r
      BY <1>0, <1>1 DEF OneNameEach
    <2>3. \A p \in AsksAt(e), r \in Answers(e) : e.out[p].q # e.in[r].q
      BY <1>0, <1>1, <1>e DEF OneNameEach
    <2> QED
      BY <2>1, <2>2, <2>3 DEF OneNameEach
  <1>3. RunsOnce(e)
    BY <1>0, <1>1 DEF RunsOnce
  <1>4. ReadsTrue(e)
    BY <1>0, <1>1 DEF ReadsTrue
  <1>5. DownIsEmpty(e)
    BY DEF DownIsEmpty
  <1> QED
    BY <1>2, <1>3, <1>4, <1>5 DEF Wire

LEMMA WireWritesRecord ==
  ASSUME NEW st, NEW e, NEW m, Wire(st), WritesRecord(st, e, m), SameWriting(st, e), e.up,
         [key |-> m.key, t |-> m.t] \in st.running
  PROVE  Wire(e)
  <1> DEFINE w == [key |-> m.key, t |-> m.t]
  <1>0. OneNameEach(st) /\ RunsOnce(st) /\ ReadsTrue(st) /\ DownIsEmpty(st)
    BY DEF Wire
  <1>1. /\ e.running = st.running /\ e.refuses = st.refuses /\ m.m = "record"
        /\ AsksAt(e) = AsksAt(st) /\ \A p \in AsksAt(e) : e.out[p] = st.out[p]
    BY SameWritingKeeps DEF WritesRecord
  <1>g. InGrew(st, e, m)
    BY Arrived DEF WritesRecord
  <1>2a. /\ \A p \in Answers(e) : p \in Answers(st) /\ e.in[p] = st.in[p]
         /\ \A p \in DOMAIN e.in : (p \in DOMAIN st.in /\ e.in[p] = st.in[p]) \/ e.in[p] = m
    BY <1>1, <1>g DEF InGrew
  <1>w. w.key = m.key /\ w.t = m.t /\ w \in st.running
    OBVIOUS
  <1> HIDE DEF w
  <1>2. OneNameEach(e)
    BY <1>0, <1>1, <1>2a DEF OneNameEach
  <1>3. RunsOnce(e)
    BY <1>0, <1>1 DEF RunsOnce
  <1>4. ReadsTrue(e)
    <2>1. m.key \notin st.refuses /\ m.t # NoNumber
      BY <1>0, <1>w DEF RunsOnce
    <2>2. ASSUME NEW p \in DOMAIN e.in
          PROVE  /\ e.in[p].m \in {"ack", "error", "record"}
                 /\ e.in[p].key \in e.refuses <=> e.in[p].m = "error"
                 /\ e.in[p].m # "error" => e.in[p].t # NoNumber
      BY <1>0, <1>1, <1>2a, <2>1 DEF ReadsTrue
    <2>3. ASSUME NEW p \in DOMAIN e.in, NEW x \in e.running,
                 e.in[p].key.tick = x.key.tick, e.in[p].t = x.t
          PROVE  e.in[p].key = x.key
      <3>1. CASE p \in DOMAIN st.in /\ e.in[p] = st.in[p]
        BY <1>0, <1>1, <2>3, <3>1 DEF ReadsTrue
      <3>2. CASE e.in[p] = m
        BY <1>0, <1>1, <1>w, <2>3, <3>2 DEF RunsOnce
      <3> QED
        BY <1>2a, <3>1, <3>2
    <2> QED
      BY <2>2, <2>3 DEF ReadsTrue
  <1>5. DownIsEmpty(e)
    BY DEF DownIsEmpty
  <1> QED
    BY <1>2, <1>3, <1>4, <1>5 DEF Wire

LEMMA WireGone ==
  ASSUME NEW e, Gone(e), e.batch = {}
  PROVE  Wire(e)
  <1>1. AsksAt(e) = {} /\ Answers(e) = {} /\ DOMAIN e.in = {} /\ e.running = {}
    BY DEF Gone, AsksAt, Answers
  <1> QED
    BY <1>1 DEF Wire, OneNameEach, RunsOnce, ReadsTrue, DownIsEmpty, Gone

LEMMA WireAnew ==
  ASSUME NEW e, Anew(e), e.up, \A p, r \in AsksAt(e) : e.out[p].q = e.out[r].q => p = r
  PROVE  Wire(e)
  <1>1. Answers(e) = {} /\ DOMAIN e.in = {} /\ e.running = {}
    BY DEF Anew, Answers
  <1> QED
    BY <1>1 DEF Wire, OneNameEach, RunsOnce, ReadsTrue, DownIsEmpty

-----------------------------------------------------------------------------
(* The sets this client and the venue keep are finite. *)
Finite(st) ==
  /\ IsFiniteSet(st.tbtUnnumbered) /\ IsFiniteSet(st.unnumbered)
  /\ IsFiniteSet(st.batch) /\ IsFiniteSet(st.running)

LEMMA Images ==
  ASSUME NEW S, IsFiniteSet(S), NEW f, NEW T, T = {f[x] : x \in S}
  PROVE  IsFiniteSet(T)
  <1> DEFINE g == [x \in S |-> f[x]]
  <1>1. g \in [S -> T] /\ \A t \in T : \E x \in S : g[x] = t
    OBVIOUS
  <1>2. g \in Surjection(S, T)
    BY <1>1 DEF Surjection
  <1> QED
    BY <1>2, FS_Surjection

LEMMA SequencesName ==
  ASSUME NEW S, NEW u \in Seq(S)
  PROVE  IsFiniteSet({u[i].q : i \in DOMAIN u})
  <1> DEFINE D == DOMAIN u
             f == [i \in D |-> u[i].q]
             T == {f[i] : i \in D}
  <1>1. IsFiniteSet(D)
    <2>1. D = 1 .. Len(u) /\ Len(u) \in Nat
      OBVIOUS
    <2> HIDE DEF D
    <2> QED
      BY <2>1, FS_Interval
  <1>2. T = {u[i].q : i \in DOMAIN u}
    OBVIOUS
  <1>3. IsFiniteSet(T)
    <2> HIDE DEF f, D
    <2> QED
      BY <1>1, Images
  <1> QED
    BY <1>2, <1>3

LEMMA SetsName ==
  ASSUME NEW S, IsFiniteSet(S)
  PROVE  IsFiniteSet({u.q : u \in S})
  <1> DEFINE f == [u \in S |-> u.q]
             T == {f[u] : u \in S}
  <1>1. T = {u.q : u \in S}
    OBVIOUS
  <1>2. IsFiniteSet(T)
    <2> HIDE DEF f
    <2> QED
      BY Images
  <1> QED
    BY <1>1, <1>2

(* A set of numbers as large as this leaves one out. *)
LEMMA OneIsLeft ==
  ASSUME NEW N, IsFiniteSet(N)
  PROVE  /\ Least((1 .. Cardinality(N) + 1) \ N) \notin N
         /\ Least((1 .. Cardinality(N) + 1) \ N) \in Nat \ {0}
  <1> DEFINE n == Cardinality(N)
             T == (1 .. n + 1) \ N
  <1>1. n \in Nat
    BY FS_CardinalityType
  <1> HIDE DEF n
  <1>2. T # {}
    <2> SUFFICES ASSUME 1 .. n + 1 \subseteq N PROVE FALSE
      OBVIOUS
    <2>1. Cardinality(1 .. n + 1) = n + 1
      BY <1>1, FS_Interval
    <2>2. Cardinality(1 .. n + 1) <= n
      BY FS_Subset DEF n
    <2> QED
      BY <1>1, <2>1, <2>2
  <1>3. T \in SUBSET Nat /\ \A x \in T : x # 0 /\ x \notin N
    BY <1>1
  <1> HIDE DEF T
  <1>4. \E m \in T : \A k \in T : m <= k
    BY <1>2, <1>3, LeastNatural
  <1>5. Least(T) \in T
    BY <1>4 DEF Least
  <1>6. Least(T) \notin N /\ Least(T) \in Nat \ {0}
    BY <1>3, <1>5
  <1> QED
    BY <1>6 DEF T, n

LEMMA LeastIn ==
  ASSUME NEW T \in SUBSET Nat, T # {}
  PROVE  Least(T) \in T
  <1>1. \E m \in T : \A k \in T : m <= k
    BY LeastNatural
  <1> QED
    BY <1>1 DEF Least

LEMMA NamesFinite ==
  ASSUME NEW st \in State, Finite(st)
  PROVE  IsFiniteSet(Names(st))
  <1>1. /\ st.tbt \in Seq(TickRecords) /\ st.subs \in Seq(BarRecords)
        /\ st.out \in Seq(Asking \cup Withdrawing) /\ st.in \in Seq(Arriving)
    BY DEF State
  <1> DEFINE A == {st.tbt[i].q : i \in DOMAIN st.tbt}
             B == {st.subs[i].q : i \in DOMAIN st.subs}
             U == st.tbtUnnumbered \cup st.unnumbered \cup st.batch
             C == {u.q : u \in U}
             D == {st.out[i].q : i \in DOMAIN st.out}
             E == {st.in[i].q : i \in DOMAIN st.in}
  <1>2. IsFiniteSet(A) /\ IsFiniteSet(B) /\ IsFiniteSet(D) /\ IsFiniteSet(E)
    BY <1>1, SequencesName
  <1>3. IsFiniteSet(U)
    <2>1. IsFiniteSet(st.tbtUnnumbered \cup st.unnumbered)
      BY FS_Union DEF Finite
    <2> QED
      BY <2>1, FS_Union DEF Finite
  <1>4. IsFiniteSet(C)
    <2> HIDE DEF U
    <2> QED
      BY <1>3, SetsName
  <1>5. Names(st) = A \cup B \cup C \cup D \cup E
    BY DEF Names
  <1> HIDE DEF A, B, C, D, E
  <1>6. IsFiniteSet(A \cup B)
    BY <1>2, FS_Union
  <1>7. IsFiniteSet(A \cup B \cup C)
    BY <1>4, <1>6, FS_Union
  <1>8. IsFiniteSet(A \cup B \cup C \cup D)
    BY <1>2, <1>7, FS_Union
  <1>9. IsFiniteSet(A \cup B \cup C \cup D \cup E)
    BY <1>2, <1>8, FS_Union
  <1> QED
    BY <1>5, <1>9

(* A name made up is one nothing goes by. *)
FreshIn(st, q) ==
  /\ q \in Nat
  /\ \A i \in DOMAIN st.tbt : st.tbt[i].q # q
  /\ \A i \in DOMAIN st.subs : st.subs[i].q # q
  /\ \A u \in st.tbtUnnumbered \cup st.unnumbered \cup st.batch : u.q # q
  /\ \A p \in DOMAIN st.out : st.out[p].q # q
  /\ \A p \in DOMAIN st.in : st.in[p].q # q

LEMMA FreshNames ==
  ASSUME NEW st \in State, Finite(st)
  PROVE  FreshIn(st, FreshName(st))
  <1>1. FreshName(st) \notin Names(st) /\ FreshName(st) \in Nat
    BY NamesFinite, OneIsLeft DEF FreshName
  <1> QED
    BY <1>1 DEF FreshIn, Names

(* A number the venue opens a stream under is one nothing names. *)
FreshNumber(st, tick, t) ==
  /\ t \in Nat \ {0}
  /\ \A x \in st.running : ~(x.key.tick = tick /\ x.t = t)
  /\ \A p \in DOMAIN st.in : ~(st.in[p].key.tick = tick /\ st.in[p].t = t)
  /\ CancelsAt(st, tick, t) = {}

LEMMA NumbersFinite ==
  ASSUME NEW st \in State, Finite(st), NEW tick
  PROVE  IsFiniteSet(Numbers(st, tick))
  <1>1. /\ st.out \in Seq(Asking \cup Withdrawing) /\ st.in \in Seq(Arriving)
    BY DEF State
  <1>o. Len(st.out) \in Nat /\ DOMAIN st.out = 1 .. Len(st.out)
        /\ Len(st.in) \in Nat /\ DOMAIN st.in = 1 .. Len(st.in)
    BY <1>1
  <1> DEFINE R == {x \in st.running : x.key.tick = tick}
             P == {j \in DOMAIN st.out : st.out[j].m = "cancel" /\ st.out[j].tick = tick}
             V == {j \in DOMAIN st.in : st.in[j].key.tick = tick}
             f == [x \in R |-> x.t]
             g == [i \in P |-> st.out[i].t]
             h == [i \in V |-> st.in[i].t]
             A == {f[x] : x \in R}
             B == {g[i] : i \in P}
             C == {h[i] : i \in V}
  <1>2. IsFiniteSet(R)
    BY FS_Subset DEF Finite
  <1>3. IsFiniteSet(P) /\ IsFiniteSet(V)
    <2>1. IsFiniteSet(DOMAIN st.out) /\ IsFiniteSet(DOMAIN st.in)
      BY <1>o, FS_Interval
    <2>2. P \subseteq DOMAIN st.out /\ V \subseteq DOMAIN st.in
      OBVIOUS
    <2> HIDE DEF P, V
    <2> QED
      BY <2>1, <2>2, FS_Subset
  <1>4. Numbers(st, tick) = A \cup B \cup C
    BY DEF Numbers
  <1> HIDE DEF R, P, V, f, g, h
  <1>5. IsFiniteSet(A) /\ IsFiniteSet(B) /\ IsFiniteSet(C)
    BY <1>2, <1>3, Images
  <1> HIDE DEF A, B, C
  <1>6. IsFiniteSet(A \cup B)
    BY <1>5, FS_Union
  <1>7. IsFiniteSet(A \cup B \cup C)
    BY <1>5, <1>6, FS_Union
  <1> QED
    BY <1>4, <1>7

LEMMA FreshNumbers ==
  ASSUME NEW st \in State, Finite(st), NEW tick
  PROVE  FreshNumber(st, tick, Least((1 .. Cardinality(Numbers(st, tick)) + 1) \ Numbers(st, tick)))
  <1> DEFINE t == Least((1 .. Cardinality(Numbers(st, tick)) + 1) \ Numbers(st, tick))
  <1>1. t \notin Numbers(st, tick) /\ t \in Nat \ {0}
    BY NumbersFinite, OneIsLeft
  <1> HIDE DEF t
  <1>2. \A x \in st.running : ~(x.key.tick = tick /\ x.t = t)
    BY <1>1 DEF Numbers
  <1>3. \A p \in DOMAIN st.in : ~(st.in[p].key.tick = tick /\ st.in[p].t = t)
    BY <1>1 DEF Numbers
  <1>4. CancelsAt(st, tick, t) = {}
    BY <1>1 DEF Numbers, CancelsAt
  <1> QED
    BY <1>1, <1>2, <1>3, <1>4 DEF FreshNumber, t

-----------------------------------------------------------------------------
(* What is in flight, through each kind of step. *)

LEMMA FlightStays ==
  ASSUME NEW st, NEW e, SameReading(st, e), SameWriting(st, e), NEW x
  PROVE  InFlight(e, x) <=> InFlight(st, x)
  BY DEF SameReading, SameWriting, InFlight, AsksAt, Answers

LEMMA FlightWrites ==
  ASSUME NEW st, NEW e, NEW m, SameReading(st, e), Grows(st.out, e.out, m), NEW x
  PROVE  InFlight(e, x) <=> InFlight(st, x) \/ (m.m = "ask" /\ Name(m) = x)
  <1> DEFINE n == Len(st.out) + 1
  <1>1. /\ Answers(e) = Answers(st)
        /\ \A p \in Answers(e) : e.in[p] = st.in[p]
    BY SameReadingKeeps
  <1>2. OutGrew(st, e, m)
    BY Written
  <1>3. /\ \A p \in AsksAt(st) : p \in AsksAt(e) /\ e.out[p] = st.out[p]
        /\ \A p \in AsksAt(e) : p \in AsksAt(st) \/ (p = n /\ m.m = "ask")
        /\ e.out[n] = m
        /\ m.m = "ask" => n \in AsksAt(e)
    BY <1>2 DEF OutGrew
  <1> HIDE DEF n
  <1>4. InFlight(e, x) => InFlight(st, x) \/ (m.m = "ask" /\ Name(m) = x)
    BY <1>1, <1>3 DEF InFlight
  <1>5. InFlight(st, x) => InFlight(e, x)
    BY <1>1, <1>3 DEF InFlight
  <1>6. m.m = "ask" /\ Name(m) = x => InFlight(e, x)
    BY <1>3 DEF InFlight
  <1> QED
    BY <1>4, <1>5, <1>6

LEMMA FlightReads ==
  ASSUME NEW st, NEW e, NEW m, Reads(st, e, m), SameWriting(st, e), NEW x
  PROVE  InFlight(st, x) <=> InFlight(e, x) \/ (m.m # "record" /\ Name(m) = x)
  <1>1. /\ AsksAt(e) = AsksAt(st)
        /\ \A p \in AsksAt(e) : e.out[p] = st.out[p]
    BY SameWritingKeeps
  <1>r. ReadOff(st, e, m)
    BY ReadsShrink
  <1>2. /\ \A p \in Answers(e) : p + 1 \in Answers(st) /\ e.in[p] = st.in[p + 1]
        /\ \A p \in Answers(st) : p = 1 \/ (p - 1 \in Answers(e) /\ e.in[p - 1] = st.in[p])
        /\ st.in[1] = m
        /\ m.m # "record" => 1 \in Answers(st)
    BY <1>r DEF ReadOff
  <1>3. InFlight(e, x) => InFlight(st, x)
    BY <1>1, <1>2 DEF InFlight
  <1>4. m.m # "record" /\ Name(m) = x => InFlight(st, x)
    BY <1>2 DEF InFlight
  <1>5. ASSUME NEW p \in Answers(st), Name(st.in[p]) = x
        PROVE  InFlight(e, x) \/ (m.m # "record" /\ Name(m) = x)
    <2>1. CASE p = 1
      BY <1>2, <1>5, <2>1 DEF Answers
    <2>2. CASE p # 1
      BY <1>2, <1>5, <2>2 DEF InFlight
    <2> QED
      BY <2>1, <2>2
  <1>6. ASSUME NEW p \in AsksAt(st), Name(st.out[p]) = x
        PROVE  InFlight(e, x)
    BY <1>1, <1>6 DEF InFlight
  <1> QED
    BY <1>3, <1>4, <1>5, <1>6 DEF InFlight

LEMMA FlightTakesAsk ==
  ASSUME NEW st, NEW e, NEW m, NEW a, TakesAsk(st, e, m, a), NEW x
  PROVE  InFlight(e, x) <=> InFlight(st, x)
  <1>1. Shrinks(st.out, e.out, m)
    BY DEF TakesAsk
  <1>o. TookOff(st, e, m) /\ AskTaken(st, e, m, a)
    BY <1>1, TakesOff, AskIsTaken
  <1>2. /\ \A p \in AsksAt(e) : p + 1 \in AsksAt(st) /\ e.out[p] = st.out[p + 1]
        /\ \A p \in AsksAt(st) : p = 1 \/ (p - 1 \in AsksAt(e) /\ e.out[p - 1] = st.out[p])
    BY <1>o DEF TookOff
  <1>3. /\ \A p \in Answers(st) : p \in Answers(e) /\ e.in[p] = st.in[p]
        /\ \A p \in Answers(e) : (p \in Answers(st) /\ e.in[p] = st.in[p]) \/ e.in[p] = a
        /\ Len(st.in) + 1 \in Answers(e) /\ e.in[Len(st.in) + 1] = a
        /\ Name(a) = Name(m)
        /\ 1 \in AsksAt(st) /\ st.out[1] = m
    BY <1>o DEF AskTaken
  <1>4. ASSUME NEW p \in AsksAt(st), Name(st.out[p]) = x PROVE InFlight(e, x)
    <2>1. CASE p = 1
      BY <1>3, <1>4, <2>1 DEF InFlight
    <2>2. CASE p # 1
      BY <1>2, <1>4, <2>2 DEF InFlight
    <2> QED
      BY <2>1, <2>2
  <1>5. ASSUME NEW p \in Answers(st), Name(st.in[p]) = x PROVE InFlight(e, x)
    BY <1>3, <1>5 DEF InFlight
  <1>6. ASSUME NEW p \in AsksAt(e), Name(e.out[p]) = x PROVE InFlight(st, x)
    BY <1>2, <1>6 DEF InFlight
  <1>7. ASSUME NEW p \in Answers(e), Name(e.in[p]) = x PROVE InFlight(st, x)
    BY <1>3, <1>7 DEF InFlight
  <1> QED
    BY <1>4, <1>5, <1>6, <1>7 DEF InFlight

LEMMA FlightTakesCancel ==
  ASSUME NEW st, NEW e, NEW m, TakesCancel(st, e, m), NEW x
  PROVE  InFlight(e, x) <=> InFlight(st, x)
  <1>1. Shrinks(st.out, e.out, m) /\ m.m = "cancel" /\ m.m # "ask"
    BY DEF TakesCancel
  <1>2. /\ \A p \in AsksAt(e) : p + 1 \in AsksAt(st) /\ e.out[p] = st.out[p + 1]
        /\ \A p \in AsksAt(st) : p = 1 \/ (p - 1 \in AsksAt(e) /\ e.out[p - 1] = st.out[p])
        /\ 1 \in AsksAt(st) => m.m = "ask"
    <2>1. OutShrank(st, e, m)
      BY <1>1, Taken
    <2> QED
      BY <2>1 DEF OutShrank
  <1>3. Answers(e) = Answers(st) /\ \A p \in Answers(e) : e.in[p] = st.in[p]
    BY DEF TakesCancel, Answers
  <1>4. InFlight(e, x) => InFlight(st, x)
    BY <1>2, <1>3 DEF InFlight
  <1>5. InFlight(st, x) => InFlight(e, x)
    BY <1>1, <1>2, <1>3 DEF InFlight
  <1> QED
    BY <1>4, <1>5

LEMMA FlightRecord ==
  ASSUME NEW st, NEW e, NEW m, WritesRecord(st, e, m), SameWriting(st, e), NEW x
  PROVE  InFlight(e, x) <=> InFlight(st, x)
  <1>1. /\ AsksAt(e) = AsksAt(st)
        /\ \A p \in AsksAt(e) : e.out[p] = st.out[p]
    BY SameWritingKeeps
  <1>g. InGrew(st, e, m) /\ m.m = "record"
    BY Arrived DEF WritesRecord
  <1>2. /\ \A p \in Answers(e) : p \in Answers(st) /\ e.in[p] = st.in[p]
        /\ \A p \in Answers(st) : p \in Answers(e) /\ e.in[p] = st.in[p]
    BY <1>g DEF InGrew
  <1> QED
    BY <1>1, <1>2 DEF InFlight

-----------------------------------------------------------------------------
(* Tables of subscriptions. *)

Asked(r) == [q |-> r.q, key |-> Key(r.c)]
AsksOf(table) == {Asked(table[i]) : i \in DOMAIN table}
Numbered(table) == {i \in DOMAIN table : table[i].t # NoNumber}
Held(table) == {[key |-> Key(table[i].c), t |-> table[i].t] : i \in Numbered(table)}

LEMMA TablesBacked ==
  ASSUME NEW table
  PROVE  Backed(AsksOf(table), Held(table))
  <1> SUFFICES ASSUME NEW i \in Numbered(table)
               PROVE  \E x \in AsksOf(table) : x.key = Key(table[i].c)
    BY DEF Backed, Held
  <1>1. Asked(table[i]).key = Key(table[i].c) /\ i \in DOMAIN table
    BY DEF Asked, Numbered
  <1> QED
    BY <1>1 DEF AsksOf

(* What a table keeps is at its places in order. *)
Kept(S, u, w, I) ==
  /\ w \in Seq(S) /\ DOMAIN w = 1 .. Len(w)
  /\ \A k \in DOMAIN w : Ascending(I)[k] \in I /\ w[k] = u[Ascending(I)[k]]
  /\ \A j, k \in DOMAIN w : Ascending(I)[j] = Ascending(I)[k] => j = k
  /\ \A i \in I : \E k \in DOMAIN w : w[k] = u[i]

LEMMA OnlyKeeps ==
  ASSUME NEW S, NEW u \in Seq(S), NEW I \in SUBSET (DOMAIN u)
  PROVE  Kept(S, u, Only(u, I), I)
  <1> DEFINE a == Ascending(I)
             n == Cardinality(I)
             w == Only(u, I)
  <1>0. DOMAIN u = 1 .. Len(u) /\ Len(u) \in Nat /\ I \in SUBSET (1 .. Len(u))
    OBVIOUS
  <1>1. /\ n \in Nat /\ w \in Seq(S) /\ Len(w) = n /\ a \in [1 .. n -> I]
        /\ \A k \in 1 .. n : w[k] = u[a[k]]
        /\ \A j, k \in 1 .. n : j < k => a[j] < a[k]
    BY <1>0, OnlyPicks
  <1>2. \A x \in I : \E k \in 1 .. n : a[k] = x
    <2>1. I \in SUBSET Nat /\ \A x \in I : x < Len(u) + 1
      BY <1>0
    <2>0. Len(u) + 1 \in Nat
      BY <1>0
    <2>2. Lists(a, n, I)
      BY <2>0, <2>1, AscendingLists
    <2> QED
      BY <2>2 DEF Lists
  <1>3. DOMAIN w = 1 .. n
    BY <1>1
  <1>4. \A k \in 1 .. n : a[k] \in Nat
    BY <1>0, <1>1
  <1>a. \A j, k \in 1 .. n : j < k \/ k < j \/ j = k
    BY <1>1
  <1>b. \A j, k \in 1 .. n : a[j] = a[k] => ~(a[j] < a[k]) /\ ~(a[k] < a[j])
    BY <1>4
  <1> HIDE DEF a, n, w
  <1>5. \A j, k \in 1 .. n : a[j] = a[k] => j = k
    BY <1>1, <1>a, <1>b
  <1>6. \A i \in I : \E k \in 1 .. n : w[k] = u[i]
    BY <1>1, <1>2
  <1>7. \A k \in 1 .. n : a[k] \in I
    BY <1>1
  <1>8. Kept(S, u, w, I)
    BY <1>1, <1>3, <1>5, <1>6, <1>7 DEF Kept, a
  <1> QED
    BY <1>8 DEF w

(* The asks and the numbers of what a table keeps. *)
LEMMA KeptAsks ==
  ASSUME NEW S, NEW u, NEW w, NEW I \in SUBSET (DOMAIN u), Kept(S, u, w, I)
  PROVE  AsksOf(w) = {Asked(u[i]) : i \in I} /\ AsksOf(w) \subseteq AsksOf(u)
  <1>1. \A k \in DOMAIN w : \E i \in I : w[k] = u[i]
    BY DEF Kept
  <1>2. \A i \in I : \E k \in DOMAIN w : w[k] = u[i]
    BY DEF Kept
  <1>3. AsksOf(w) \subseteq {Asked(u[i]) : i \in I}
    BY <1>1 DEF AsksOf
  <1>4. {Asked(u[i]) : i \in I} \subseteq AsksOf(w)
    BY <1>2 DEF AsksOf
  <1>5. {Asked(u[i]) : i \in I} \subseteq AsksOf(u)
    BY DEF AsksOf
  <1> QED
    BY <1>3, <1>4, <1>5

LEMMA KeptHeld ==
  ASSUME NEW S, NEW u, NEW w, NEW I \in SUBSET (DOMAIN u), Kept(S, u, w, I)
  PROVE  Held(w) \subseteq Held(u)
  <1> SUFFICES ASSUME NEW k \in Numbered(w)
               PROVE  [key |-> Key(w[k].c), t |-> w[k].t] \in Held(u)
    BY DEF Held
  <1>1. PICK i \in I : w[k] = u[i]
    BY DEF Kept, Numbered
  <1>2. i \in Numbered(u)
    BY <1>1 DEF Numbered
  <1> QED
    BY <1>1, <1>2 DEF Held

LEMMA GrownAsks ==
  ASSUME NEW u, NEW w, NEW r, Grows(u, w, r)
  PROVE  AsksOf(w) = AsksOf(u) \cup {Asked(r)}
  <1> DEFINE n == Len(u)
  <1>1. /\ n \in Nat /\ DOMAIN u = 1 .. n /\ DOMAIN w = 1 .. (n + 1)
        /\ \A p \in 1 .. n : w[p] = u[p]
        /\ w[n + 1] = r
    BY DEF Grows
  <1> HIDE DEF n
  <1>2. \A p \in 1 .. (n + 1) : p \in 1 .. n \/ p = n + 1
    BY <1>1
  <1>3. (n + 1) \in 1 .. (n + 1) /\ \A p \in 1 .. n : p \in 1 .. (n + 1)
    BY <1>1
  <1>4. AsksOf(w) \subseteq AsksOf(u) \cup {Asked(r)}
    BY <1>1, <1>2 DEF AsksOf
  <1>5. AsksOf(u) \cup {Asked(r)} \subseteq AsksOf(w)
    BY <1>1, <1>3 DEF AsksOf
  <1> QED
    BY <1>4, <1>5

LEMMA GrownHeld ==
  ASSUME NEW u, NEW w, NEW r, Grows(u, w, r), r.t = NoNumber
  PROVE  Held(w) \subseteq Held(u)
  <1> DEFINE n == Len(u)
  <1>1. /\ n \in Nat /\ DOMAIN u = 1 .. n /\ DOMAIN w = 1 .. (n + 1)
        /\ \A p \in 1 .. n : w[p] = u[p]
        /\ w[n + 1] = r
    BY DEF Grows
  <1> HIDE DEF n
  <1>2. \A p \in 1 .. (n + 1) : p \in 1 .. n \/ p = n + 1
    BY <1>1
  <1>3. \A i \in Numbered(w) : i \in Numbered(u) /\ w[i] = u[i]
    BY <1>1, <1>2 DEF Numbered
  <1> QED
    BY <1>3 DEF Held

-----------------------------------------------------------------------------
NamedApart(table) == \A i, j \in DOMAIN table : table[i].q = table[j].q => i = j
Level(table) ==
  \A i, j \in DOMAIN table :
    table[i].t = table[j].t /\ table[i].t # NoNumber => table[i].price = table[j].price
(* A subscription has no number as long as its ask is under way. *)
Waits(table, st) ==
  st.up => \A i \in DOMAIN table : table[i].t = NoNumber <=> InFlight(st, Asked(table[i]))

TickNet(st) == Net(TRUE, AsksOf(st.tbt), st.tbtUnnumbered, Held(st.tbt), st)

TickSide(st) ==
  /\ TickNet(st)
  /\ NamedApart(st.tbt) /\ Level(st.tbt) /\ Waits(st.tbt, st)
  /\ st.stray = {}

SameTicks(st, e) ==
  e.tbt = st.tbt /\ e.tbtUnnumbered = st.tbtUnnumbered /\ e.stray = st.stray

LEMMA AskedNames ==
  ASSUME NEW table, NEW i \in DOMAIN table
  PROVE  /\ Asked(table[i]) \in AsksOf(table) /\ IsName(Asked(table[i]))
         /\ Asked(table[i]).q = table[i].q /\ Asked(table[i]).key = Key(table[i].c)
  BY DEF Asked, AsksOf, IsName

LEMMA NamesAlike ==
  ASSUME NEW x, NEW y, IsName(x), IsName(y), x.q = y.q, x.key = y.key
  PROVE  x = y
  BY DEF IsName

(* A step that leaves the tick tables alone. *)
LEMMA TickSideKeeps ==
  ASSUME NEW st, NEW e, TickSide(st), SameTicks(st, e),
         Net(TRUE, AsksOf(st.tbt), st.tbtUnnumbered, Held(st.tbt), e),
         e.up => st.up,
         \A x \in AsksOf(st.tbt) : InFlight(e, x) <=> InFlight(st, x)
  PROVE  TickSide(e)
  <1>1. TickNet(e)
    BY DEF SameTicks, TickNet
  <1>2. NamedApart(e.tbt) /\ Level(e.tbt) /\ e.stray = {}
    BY DEF SameTicks, TickSide
  <1>3. Waits(e.tbt, e)
    <2> SUFFICES ASSUME e.up, NEW i \in DOMAIN st.tbt
                 PROVE  st.tbt[i].t = NoNumber <=> InFlight(e, Asked(st.tbt[i]))
      BY DEF Waits, SameTicks
    <2>1. InFlight(e, Asked(st.tbt[i])) <=> InFlight(st, Asked(st.tbt[i]))
      BY AskedNames
    <2>2. st.tbt[i].t = NoNumber <=> InFlight(st, Asked(st.tbt[i]))
      BY DEF TickSide, Waits
    <2> QED
      BY <2>1, <2>2
  <1> QED
    BY <1>1, <1>2, <1>3 DEF TickSide

(* Nothing on the wire changes. *)
LEMMA NetStays ==
  ASSUME NEW tk, NEW I, NEW L, NEW H, NEW st, NEW e,
         Net(tk, I, L, H, st), SameReading(st, e), SameWriting(st, e)
  PROVE  Net(tk, I, L, H, e)
  <1>1. /\ Sorted(tk, I, L) /\ Backed(I, H) /\ Matched(I \cup L, st)
        /\ HeldServed(H, st) /\ AckedServed(I, st) /\ AskedSafe(tk, I, st)
        /\ RunsForSomeone(tk, I, L, st) /\ OrphansEnd(tk, I, L, st)
    BY DEF Net
  <1>2. e.up = st.up /\ e.out = st.out /\ e.in = st.in /\ e.running = st.running /\ e.refuses = st.refuses
    BY DEF SameReading, SameWriting
  <1>3. AsksAt(e) = AsksAt(st) /\ Answers(e) = Answers(st)
        /\ \A k, t : CancelsAt(e, k, t) = CancelsAt(st, k, t)
    BY <1>2 DEF AsksAt, Answers, CancelsAt
  <1>4. Matched(I \cup L, e)
    BY <1>1, <1>2, <1>3 DEF Matched
  <1>5. HeldServed(H, e) /\ AckedServed(I, e) /\ AskedSafe(tk, I, e)
    <2>1. \A key, t : Serves(st, key, t) <=> Serves(e, key, t)
      BY <1>2, <1>3 DEF Serves
    <2> QED
      BY <1>1, <1>2, <1>3, <2>1 DEF HeldServed, AckedServed, AskedSafe
  <1>6. RunsForSomeone(tk, I, L, e)
    <2>1. \A key : LateAsked(L, st, key) => LateAsked(L, e, key)
      BY <1>2, <1>3 DEF LateAsked
    <2>2. \A y : LateAcked(L, st, y) => LateAcked(L, e, y)
      BY <1>2, <1>3 DEF LateAcked
    <2> QED
      BY <1>1, <1>2, <1>3, <2>1, <2>2 DEF RunsForSomeone
  <1>7. OrphansEnd(tk, I, L, e)
    <2>1. \A p \in AsksAt(e) : \A y : Stopped(tk, st, p, y) => Stopped(tk, e, p, y)
      BY <1>2, <1>3 DEF Stopped
    <2>2. \A p \in AsksAt(e) : Followed(L, st, p) => Followed(L, e, p)
      BY <1>2, <1>3 DEF Followed
    <2> QED
      BY <1>1, <1>2, <1>3, <2>1, <2>2 DEF OrphansEnd
  <1> QED
    BY <1>1, <1>4, <1>5, <1>6, <1>7 DEF Net

LEMMA TickSideTables ==
  ASSUME NEW st, NEW e, TickSide(st), SameTicks(st, e), SameReading(st, e), SameWriting(st, e)
  PROVE  TickSide(e)
  <1> DEFINE I == AsksOf(st.tbt)
             L == st.tbtUnnumbered
             H == Held(st.tbt)
  <1>1. Net(TRUE, I, L, H, st)
    BY DEF TickSide, TickNet
  <1>2. e.up = st.up
    BY DEF SameWriting
  <1> HIDE DEF I, L, H
  <1>4. Net(TRUE, I, L, H, e)
    BY <1>1, NetStays
  <1>5. \A x : InFlight(e, x) <=> InFlight(st, x)
    BY FlightStays
  <1> QED
    BY <1>2, <1>4, <1>5, TickSideKeeps DEF I, L, H

(* What is written of the bars does not touch the ticks. *)
LEMMA TickSideWrites ==
  ASSUME NEW st, NEW e, NEW m, TickSide(st), SameTicks(st, e), SameReading(st, e),
         st.up, e.up, Grows(st.out, e.out, m),
         \/ /\ m.m = "ask" /\ m.key.tick # TRUE
            /\ \A i \in DOMAIN st.tbt : st.tbt[i].q # m.q
            /\ \A u \in st.tbtUnnumbered : u.q # m.q
         \/ m.m = "cancel" /\ m.tick # TRUE
  PROVE  TickSide(e)
  <1> DEFINE I == AsksOf(st.tbt)
             L == st.tbtUnnumbered
             H == Held(st.tbt)
  <1>1. Net(TRUE, I, L, H, st)
    BY DEF TickSide, TickNet
  <1>2. m.m = "ask" => \A y \in I \cup L : y.q # m.q
    <2> SUFFICES ASSUME m.m = "ask", NEW y \in I PROVE y.q # m.q
      OBVIOUS
    <2>1. PICK i \in DOMAIN st.tbt : y = Asked(st.tbt[i])
      BY DEF AsksOf
    <2> QED
      BY <2>1 DEF Asked
  <1>3. ASSUME NEW x \in I PROVE InFlight(e, x) <=> InFlight(st, x)
    <2>1. InFlight(e, x) <=> InFlight(st, x) \/ (m.m = "ask" /\ Name(m) = x)
      BY FlightWrites
    <2>2. m.m = "ask" => Name(m) # x
      BY <1>2 DEF Name
    <2> QED
      BY <2>1, <2>2
  <1> HIDE DEF I, L, H
  <1>4. Net(TRUE, I, L, H, e)
    BY <1>1, <1>2, NetOther
  <1> QED
    BY <1>3, <1>4, TickSideKeeps DEF I, L, H

(* A message that is no answer to a tick-by-tick ask. *)
LEMMA TickSideReads ==
  ASSUME NEW st, NEW e, NEW m, TickSide(st), SameTicks(st, e),
         Reads(st, e, m), SameWriting(st, e),
         m.m # "record" =>
           /\ \A i \in DOMAIN st.tbt : Asked(st.tbt[i]) # Name(m)
           /\ m.m = "ack" => Name(m) \notin st.tbtUnnumbered
  PROVE  TickSide(e)
  <1> DEFINE I == AsksOf(st.tbt)
             L == st.tbtUnnumbered
             H == Held(st.tbt)
  <1>1. Net(TRUE, I, L, H, st)
    BY DEF TickSide, TickNet
  <1>2. Net(TRUE, I, L, H, e)
    <2>1. Backed(I, H)
      BY TablesBacked
    <2>2. m.m = "ack" => Name(m) \notin L
      OBVIOUS
    <2> HIDE DEF I, L, H
    <2> QED
      BY <1>1, <2>1, <2>2, NetReads
  <1>3. ASSUME NEW x \in I PROVE InFlight(e, x) <=> InFlight(st, x)
    <2>1. InFlight(st, x) <=> InFlight(e, x) \/ (m.m # "record" /\ Name(m) = x)
      BY FlightReads
    <2>2. m.m # "record" => Name(m) # x
      BY DEF AsksOf
    <2> QED
      BY <2>1, <2>2
  <1>4. e.up = st.up
    BY DEF SameWriting
  <1> QED
    BY <1>2, <1>3, <1>4, TickSideKeeps

LEMMA TickSideTakesAsk ==
  ASSUME NEW st, NEW e, NEW m, NEW a, TickSide(st), SameTicks(st, e),
         TakesAsk(st, e, m, a), Wire(st)
  PROVE  TickSide(e)
  <1> DEFINE I == AsksOf(st.tbt)
             L == st.tbtUnnumbered
             H == Held(st.tbt)
  <1>1. Net(TRUE, I, L, H, st) /\ RunsOnce(st) /\ e.up = st.up
    BY DEF TickSide, TickNet, Wire, TakesAsk
  <1> HIDE DEF I, L, H
  <1>2. Net(TRUE, I, L, H, e)
    BY <1>1, NetTakesAsk
  <1>3. \A x : InFlight(e, x) <=> InFlight(st, x)
    BY FlightTakesAsk
  <1> QED
    BY <1>1, <1>2, <1>3, TickSideKeeps DEF I, L, H

LEMMA TickSideTakesCancel ==
  ASSUME NEW st, NEW e, NEW m, TickSide(st), SameTicks(st, e), TakesCancel(st, e, m)
  PROVE  TickSide(e)
  <1> DEFINE I == AsksOf(st.tbt)
             L == st.tbtUnnumbered
             H == Held(st.tbt)
  <1>1. Net(TRUE, I, L, H, st) /\ e.up = st.up
    BY DEF TickSide, TickNet, TakesCancel
  <1> HIDE DEF I, L, H
  <1>2. Net(TRUE, I, L, H, e)
    BY <1>1, NetTakesCancel
  <1>3. \A x : InFlight(e, x) <=> InFlight(st, x)
    BY FlightTakesCancel
  <1> QED
    BY <1>1, <1>2, <1>3, TickSideKeeps DEF I, L, H

LEMMA TickSideRecord ==
  ASSUME NEW st, NEW e, NEW m, TickSide(st), SameTicks(st, e),
         WritesRecord(st, e, m), SameWriting(st, e)
  PROVE  TickSide(e)
  <1> DEFINE I == AsksOf(st.tbt)
             L == st.tbtUnnumbered
             H == Held(st.tbt)
  <1>1. Net(TRUE, I, L, H, st) /\ e.up = st.up
    BY DEF TickSide, TickNet, SameWriting
  <1> HIDE DEF I, L, H
  <1>2. Net(TRUE, I, L, H, e)
    BY <1>1, NetWritesRecord
  <1>3. \A x : InFlight(e, x) <=> InFlight(st, x)
    BY FlightRecord
  <1> QED
    BY <1>1, <1>2, <1>3, TickSideKeeps DEF I, L, H

LEMMA TickSideGone ==
  ASSUME NEW st, NEW e, TickSide(st), SameTicks(st, e), Gone(e)
  PROVE  TickSide(e)
  <1>1. Net(TRUE, AsksOf(st.tbt), st.tbtUnnumbered, Held(st.tbt), e)
    <2>1. Net(TRUE, AsksOf(st.tbt), st.tbtUnnumbered, Held(st.tbt), st)
      BY DEF TickSide, TickNet
    <2> QED
      BY <2>1, NetGone, TablesBacked
  <1>2. TickNet(e)
    BY <1>1 DEF TickNet, SameTicks
  <1>3. NamedApart(e.tbt) /\ Level(e.tbt) /\ e.stray = {}
    BY DEF SameTicks, TickSide
  <1>4. Waits(e.tbt, e)
    BY DEF Waits, Gone
  <1> QED
    BY <1>2, <1>3, <1>4 DEF TickSide

-----------------------------------------------------------------------------
(* A caller asks for a tick-by-tick stream. *)
LEMMA TickSideAsks ==
  ASSUME NEW st, NEW e, NEW r, TickSide(st), SameReading(st, e), st.up, e.up,
         Grows(st.out, e.out, AskMsg(r.q, Key(r.c))), Grows(st.tbt, e.tbt, r),
         r.t = NoNumber, Key(r.c).tick = TRUE, FreshIn(st, r.q),
         e.tbtUnnumbered = st.tbtUnnumbered, e.stray = st.stray
  PROVE  TickSide(e)
  <1> DEFINE I == AsksOf(st.tbt)
             L == st.tbtUnnumbered
             H == Held(st.tbt)
             x == Asked(r)
             n == Len(st.tbt)
             m == AskMsg(x.q, x.key)
  <1>1. Net(TRUE, I, L, H, st) /\ NamedApart(st.tbt) /\ Level(st.tbt) /\ Waits(st.tbt, st)
        /\ st.stray = {}
    BY DEF TickSide, TickNet
  <1>2. x.q = r.q /\ x.key = Key(r.c) /\ IsName(x)
    BY DEF Asked, IsName
  <1>f. /\ \A y \in L : y.q # x.q
        /\ \A i \in DOMAIN st.tbt : st.tbt[i].q # r.q
        /\ \A p \in DOMAIN st.out : st.out[p].q # x.q
        /\ \A p \in DOMAIN st.in : st.in[p].q # x.q
    BY <1>2 DEF FreshIn
  <1>3. \A y \in I \cup L : y.q # x.q
    <2> SUFFICES ASSUME NEW i \in DOMAIN st.tbt PROVE Asked(st.tbt[i]).q # x.q
      BY <1>f DEF AsksOf
    <2> QED
      BY <1>2, <1>f DEF Asked
  <1>4. /\ \A p \in AsksAt(st) : st.out[p].q # x.q
        /\ \A p \in Answers(st) : st.in[p].q # x.q
    BY <1>f DEF AsksAt, Answers
  <1>5. AsksOf(e.tbt) = I \cup {x} /\ Held(e.tbt) \subseteq H
    BY GrownAsks, GrownHeld
  <1>g. Grows(st.out, e.out, m)
    BY <1>2
  <1>d. /\ n \in Nat /\ DOMAIN st.tbt = 1 .. n /\ DOMAIN e.tbt = 1 .. (n + 1)
        /\ \A p \in 1 .. n : e.tbt[p] = st.tbt[p]
        /\ e.tbt[n + 1] = r
        /\ \A p \in 1 .. (n + 1) : p \in 1 .. n \/ p = n + 1
    BY DEF Grows
  <1>a. Name(m) = x
    BY <1>2 DEF AskMsg, Name, IsName
  <1>aa. m.m = "ask"
    BY DEF AskMsg
  <1>fl. \A z : InFlight(e, z) <=> InFlight(st, z) \/ (m.m = "ask" /\ Name(m) = z)
    <2> HIDE DEF m
    <2> QED
      BY <1>g, FlightWrites
  <1> HIDE DEF I, L, H, x, n, m
  <1>6. Net(TRUE, I \cup {x}, L, H, e)
    BY <1>1, <1>2, <1>3, <1>4, <1>g, NetAsks DEF m
  <1>7. Net(TRUE, I \cup {x}, L, Held(e.tbt), e)
    <2>1. Backed(I \cup {x}, Held(e.tbt))
      BY <1>5, TablesBacked
    <2>2. HeldServed(Held(e.tbt), e)
      BY <1>5, <1>6 DEF Net, HeldServed
    <2> QED
      BY <1>6, <2>1, <2>2 DEF Net
  <1>8. TickNet(e)
    BY <1>5, <1>7 DEF TickNet, L
  <1>9. NamedApart(e.tbt)
    BY <1>1, <1>d, <1>f DEF NamedApart
  <1>10. Level(e.tbt)
    BY <1>1, <1>d DEF Level
  <1>11. Waits(e.tbt, e)
    <2> SUFFICES ASSUME NEW i \in DOMAIN e.tbt
                 PROVE  e.tbt[i].t = NoNumber <=> InFlight(e, Asked(e.tbt[i]))
      BY DEF Waits
    <2>1. CASE i = n + 1
      BY <1>a, <1>aa, <1>d, <1>fl, <2>1 DEF x
    <2>2. CASE i \in 1 .. n
      <3>1. st.tbt[i].t = NoNumber <=> InFlight(st, Asked(st.tbt[i]))
        BY <1>1, <1>d, <2>2 DEF Waits
      <3>2. Asked(st.tbt[i]) # x
        BY <1>2, <1>d, <1>f, <2>2 DEF Asked
      <3> QED
        BY <1>a, <1>d, <1>fl, <2>2, <3>1, <3>2
    <2> QED
      BY <1>d, <2>1, <2>2
  <1> QED
    BY <1>1, <1>8, <1>9, <1>10, <1>11 DEF TickSide

(* Subscriptions leave the table. *)
LEMMA TickSideLess ==
  ASSUME NEW st, NEW e, NEW I \in SUBSET (DOMAIN st.tbt), NEW S, TickSide(st),
         Kept(S, st.tbt, e.tbt, I), e.stray = st.stray, e.up => st.up,
         TickNet(e),
         \A i \in I : InFlight(e, Asked(st.tbt[i])) <=> InFlight(st, Asked(st.tbt[i]))
  PROVE  TickSide(e)
  <1> DEFINE a == Ascending(I)
  <1>1. NamedApart(st.tbt) /\ Level(st.tbt) /\ Waits(st.tbt, st) /\ st.stray = {}
    BY DEF TickSide
  <1>2. /\ \A k \in DOMAIN e.tbt : a[k] \in DOMAIN st.tbt /\ a[k] \in I /\ e.tbt[k] = st.tbt[a[k]]
        /\ \A j, k \in DOMAIN e.tbt : a[j] = a[k] => j = k
    BY DEF Kept
  <1> HIDE DEF a
  <1>3. NamedApart(e.tbt)
    BY <1>1, <1>2 DEF NamedApart
  <1>4. Level(e.tbt)
    BY <1>1, <1>2 DEF Level
  <1>5. Waits(e.tbt, e)
    BY <1>1, <1>2 DEF Waits
  <1> QED
    BY <1>1, <1>3, <1>4, <1>5 DEF TickSide

(* The names of what is left when one subscription goes. *)
LEMMA OneLess ==
  ASSUME NEW table, NEW at \in DOMAIN table, NEW w, NEW S, NamedApart(table),
         Kept(S, table, w, DOMAIN table \ {at})
  PROVE  AsksOf(w) = AsksOf(table) \ {Asked(table[at])}
  <1>1. AsksOf(w) = {Asked(table[i]) : i \in DOMAIN table \ {at}}
    BY KeptAsks
  <1>2. \A i \in DOMAIN table \ {at} : Asked(table[i]) # Asked(table[at])
    <2> SUFFICES ASSUME NEW i \in DOMAIN table, i # at, Asked(table[i]) = Asked(table[at])
                 PROVE  FALSE
      OBVIOUS
    <2>1. table[i].q = table[at].q
      BY AskedNames
    <2> QED
      BY <2>1 DEF NamedApart
  <1>3. AsksOf(w) \subseteq AsksOf(table) \ {Asked(table[at])}
    BY <1>1, <1>2 DEF AsksOf
  <1>4. AsksOf(table) \ {Asked(table[at])} \subseteq AsksOf(w)
    BY <1>1 DEF AsksOf
  <1> QED
    BY <1>3, <1>4

(* One leaves before it is numbered. *)
LEMMA TickSideLeaves ==
  ASSUME NEW st, NEW e, NEW at \in DOMAIN st.tbt, NEW S, TickSide(st), Wire(st),
         Kept(S, st.tbt, e.tbt, DOMAIN st.tbt \ {at}), e.stray = st.stray,
         SameReading(st, e), SameWriting(st, e),
         st.tbt[at].t = NoNumber,
         e.tbtUnnumbered = st.tbtUnnumbered \cup {Asked(st.tbt[at])}
  PROVE  TickSide(e)
  <1> DEFINE I == AsksOf(st.tbt)
             J == AsksOf(e.tbt)
             L == st.tbtUnnumbered
             H == Held(st.tbt)
             G == Held(e.tbt)
             x == Asked(st.tbt[at])
             P == DOMAIN st.tbt \ {at}
  <1>1. Net(TRUE, I, L, H, st) /\ NamedApart(st.tbt) /\ Waits(st.tbt, st)
    BY DEF TickSide, TickNet
  <1>2. RunsOnce(st) /\ ReadsTrue(st) /\ DownIsEmpty(st)
    BY DEF Wire
  <1>3. J = I \ {x} /\ x \in I
    BY <1>1, OneLess, AskedNames
  <1>4. G \subseteq H /\ Backed(J, G)
    <2>1. G \subseteq H
      BY KeptHeld
    <2> QED
      BY <2>1, TablesBacked
  <1>5. st.up => InFlight(st, x)
    BY <1>1 DEF Waits
  <1>6. \A z : InFlight(e, z) <=> InFlight(st, z)
    BY FlightStays
  <1>7. Net(TRUE, J, L \cup {x}, G, e)
    <2> HIDE DEF I, J, L, H, G, x
    <2>1. /\ J \subseteq I /\ x \notin J
          /\ \A y \in I \ J : y.key = x.key
          /\ \A p \in AsksAt(st) : Name(st.out[p]) \in I \ J /\ Name(st.out[p]) # x =>
                \E v \in AsksAt(st) : v > p /\ Name(st.out[v]) = x
      BY <1>3
    <2> QED
      BY <1>1, <1>2, <1>3, <1>4, <1>5, <2>1, NetLeaves
  <1>8. TickNet(e)
    BY <1>7 DEF TickNet
  <1>9. P \in SUBSET (DOMAIN st.tbt) /\ (e.up => st.up)
    BY DEF SameWriting
  <1>10. \A i \in P : InFlight(e, Asked(st.tbt[i])) <=> InFlight(st, Asked(st.tbt[i]))
    BY <1>6
  <1> HIDE DEF I, J, L, H, G, x, P
  <1>11. Kept(S, st.tbt, e.tbt, P)
    BY DEF P
  <1> QED
    BY <1>8, <1>9, <1>10, <1>11, TickSideLess

(* One leaves with its number, read or waited for by another. *)
LEMMA TickSideLeft ==
  ASSUME NEW st, NEW e, NEW at \in DOMAIN st.tbt, NEW S, TickSide(st), Wire(st),
         Kept(S, st.tbt, e.tbt, DOMAIN st.tbt \ {at}), e.stray = st.stray,
         SameReading(st, e), SameWriting(st, e),
         st.tbt[at].t # NoNumber,
         ~st.up \/ StillRead(e.tbt, st.tbt[at].t, Key(st.tbt[at].c)),
         e.tbtUnnumbered = st.tbtUnnumbered
  PROVE  TickSide(e)
  <1> DEFINE I == AsksOf(st.tbt)
             J == AsksOf(e.tbt)
             L == st.tbtUnnumbered
             H == Held(st.tbt)
             G == Held(e.tbt)
             x == Asked(st.tbt[at])
             P == DOMAIN st.tbt \ {at}
  <1>1. Net(TRUE, I, L, H, st) /\ NamedApart(st.tbt) /\ Waits(st.tbt, st)
    BY DEF TickSide, TickNet
  <1>2. RunsOnce(st) /\ DownIsEmpty(st)
    BY DEF Wire
  <1>3. J = I \ {x} /\ x \in I /\ IsName(x) /\ x.key = Key(st.tbt[at].c)
    BY <1>1, OneLess, AskedNames
  <1>4. G \subseteq H /\ Backed(J, G)
    <2>1. G \subseteq H
      BY KeptHeld
    <2> QED
      BY <2>1, TablesBacked
  <1>5. st.up => ~InFlight(st, x)
    BY <1>1 DEF Waits
  <1>6. \A z : InFlight(e, z) <=> InFlight(st, z)
    BY FlightStays
  <1>s. ASSUME st.up PROVE \E z \in J : z.key = x.key
    <2>1. PICK k \in DOMAIN e.tbt : e.tbt[k].t = st.tbt[at].t \/ Key(e.tbt[k].c) = Key(st.tbt[at].c)
      BY <1>s DEF StillRead
    <2>2. Asked(e.tbt[k]) \in J /\ Asked(e.tbt[k]).key = Key(e.tbt[k].c)
      BY AskedNames
    <2>3. CASE e.tbt[k].t = st.tbt[at].t
      <3> DEFINE h == [key |-> Key(e.tbt[k].c), t |-> e.tbt[k].t]
                 g == [key |-> Key(st.tbt[at].c), t |-> st.tbt[at].t]
      <3>1. h \in H /\ g \in H
        <4>1. h \in G
          BY <2>3 DEF Held, Numbered
        <4>2. g \in H
          BY DEF Held, Numbered
        <4> QED
          BY <1>4, <4>1, <4>2
      <3>2. h.key = Key(e.tbt[k].c) /\ g.key = Key(st.tbt[at].c) /\ h.t = g.t
            /\ h = [key |-> h.key, t |-> h.t] /\ g = [key |-> g.key, t |-> g.t]
        BY <2>3
      <3> HIDE DEF h, g, I, J, L, H, G, x
      <3>3. HeldServed(H, st) /\ Backed(I, H) /\ Sorted(TRUE, I, L)
        BY <1>1 DEF Net
      <3>4. h \in st.running /\ g \in st.running
        <4>1. Serves(st, h.key, h.t) /\ Serves(st, g.key, g.t)
          BY <1>s, <3>1, <3>3 DEF HeldServed
        <4> QED
          BY <3>2, <4>1 DEF Serves
      <3>5. h.key.tick = TRUE /\ g.key.tick = TRUE
        BY <3>1, <3>3 DEF Backed, Sorted
      <3>6. h = g
        BY <1>2, <3>2, <3>4, <3>5 DEF RunsOnce
      <3> QED
        BY <1>3, <2>2, <3>2, <3>6
    <2>4. CASE Key(e.tbt[k].c) = Key(st.tbt[at].c)
      BY <1>3, <2>2, <2>4
    <2> QED
      BY <2>1, <2>3, <2>4
  <1>t. ASSUME st.up, NEW p \in AsksAt(st) PROVE st.out[p].q # x.q
    <2> SUFFICES ASSUME st.out[p].q = x.q PROVE FALSE
      OBVIOUS
    <2>1. st.out[p].key = x.key
      BY <1>1, <1>3 DEF Net, Matched
    <2>2. Name(st.out[p]) = x
      BY <1>3, <2>1 DEF Name, IsName
    <2> QED
      BY <1>5, <1>t, <2>2 DEF InFlight
  <1>7. Net(TRUE, J, L, G, e)
    <2> HIDE DEF I, J, L, H, G, x
    <2>1. /\ J \subseteq I
          /\ \A y \in I \ J :
               \/ ~st.up \/ y.key \in st.refuses
               \/ (\E z \in J : z.key = y.key) /\ \A p \in AsksAt(st) : st.out[p].q # y.q
      BY <1>3, <1>s, <1>t
    <2> QED
      BY <1>1, <1>2, <1>4, <2>1, NetForgets
  <1>8. TickNet(e)
    BY <1>7 DEF TickNet
  <1>9. P \in SUBSET (DOMAIN st.tbt) /\ (e.up => st.up)
    BY DEF SameWriting
  <1>10. \A i \in P : InFlight(e, Asked(st.tbt[i])) <=> InFlight(st, Asked(st.tbt[i]))
    BY <1>6
  <1> HIDE DEF I, J, L, H, G, x, P
  <1>11. Kept(S, st.tbt, e.tbt, P)
    BY DEF P
  <1> QED
    BY <1>8, <1>9, <1>10, <1>11, TickSideLess

(* The last reader leaves, and withdraws the stream by its number. *)
LEMMA TickSideStops ==
  ASSUME NEW st, NEW e, NEW at \in DOMAIN st.tbt, NEW S, TickSide(st), Wire(st),
         Kept(S, st.tbt, e.tbt, DOMAIN st.tbt \ {at}), e.stray = st.stray,
         SameReading(st, e), st.up, e.up,
         Grows(st.out, e.out, CancelMsg(TRUE, st.tbt[at].t)),
         st.tbt[at].t # NoNumber,
         ~StillRead(e.tbt, st.tbt[at].t, Key(st.tbt[at].c)),
         e.tbtUnnumbered = st.tbtUnnumbered
  PROVE  TickSide(e)
  <1> DEFINE I == AsksOf(st.tbt)
             J == AsksOf(e.tbt)
             L == st.tbtUnnumbered
             H == Held(st.tbt)
             G == Held(e.tbt)
             x == Asked(st.tbt[at])
             k == Key(st.tbt[at].c)
             t == st.tbt[at].t
             m == CancelMsg(TRUE, t)
             P == DOMAIN st.tbt \ {at}
  <1>1. Net(TRUE, I, L, H, st) /\ NamedApart(st.tbt)
    BY DEF TickSide, TickNet
  <1>2. RunsOnce(st)
    BY DEF Wire
  <1>3. J = I \ {x} /\ x \in I /\ x.key = k
    BY <1>1, OneLess, AskedNames
  <1>4. G \subseteq H /\ Backed(J, G)
    <2>1. G \subseteq H
      BY KeptHeld
    <2> QED
      BY <2>1, TablesBacked
  <1>5. \A y \in J : y.key # k
    <2> SUFFICES ASSUME NEW i \in DOMAIN e.tbt PROVE Asked(e.tbt[i]).key # k
      BY DEF AsksOf
    <2> QED
      BY AskedNames DEF StillRead
  <1>6. [key |-> k, t |-> t] \in H
    BY DEF Held, Numbered
  <1>7. \A z : InFlight(e, z) <=> InFlight(st, z)
    <2>1. m.m # "ask" /\ Grows(st.out, e.out, m)
      BY DEF CancelMsg
    <2> HIDE DEF m
    <2>2. \A z : InFlight(e, z) <=> InFlight(st, z) \/ (m.m = "ask" /\ Name(m) = z)
      BY <2>1, FlightWrites
    <2> QED
      BY <2>1, <2>2
  <1>8. Net(TRUE, J, L, G, e)
    <2>0. Grows(st.out, e.out, CancelMsg(TRUE, t))
      OBVIOUS
    <2> HIDE DEF I, J, L, H, G, x, k, t
    <2>1. LastOf(I, J, H, k, t)
      BY <1>3, <1>5, <1>6 DEF LastOf
    <2> QED
      BY <1>1, <1>2, <1>4, <2>0, <2>1, NetStops
  <1>9. TickNet(e)
    BY <1>8 DEF TickNet
  <1>10. P \in SUBSET (DOMAIN st.tbt)
    OBVIOUS
  <1> QED
    BY <1>7, <1>9, <1>10, TickSideLess

-----------------------------------------------------------------------------
(* A number of ticks that the tables hold, or a message carries, is of the *)
(* stream that runs under it.                                              *)
LEMMA TickNumbersAreTrue ==
  ASSUME NEW st, NEW i \in DOMAIN st.tbt, NEW p \in DOMAIN st.in, TickSide(st), Wire(st), st.up,
         st.in[p].key.tick = TRUE, st.in[p].m # "error", st.tbt[i].t = st.in[p].t
  PROVE  Key(st.tbt[i].c) = st.in[p].key
  <1> DEFINE h == [key |-> Key(st.tbt[i].c), t |-> st.tbt[i].t]
  <1>1. st.in[p].t # NoNumber
    BY DEF Wire, ReadsTrue
  <1>2. h \in Held(st.tbt) /\ h.key = Key(st.tbt[i].c) /\ h.t = st.in[p].t
    BY <1>1 DEF Held, Numbered
  <1>3. h = [key |-> h.key, t |-> h.t]
    OBVIOUS
  <1> HIDE DEF h
  <1>4. HeldServed(Held(st.tbt), st) /\ Backed(AsksOf(st.tbt), Held(st.tbt))
        /\ Sorted(TRUE, AsksOf(st.tbt), st.tbtUnnumbered)
    BY DEF TickSide, TickNet, Net
  <1>5. h.key.tick = TRUE
    BY <1>2, <1>4 DEF Backed, Sorted
  <1>6. h \in st.running
    <2>1. Serves(st, h.key, h.t)
      BY <1>2, <1>4 DEF HeldServed
    <2> QED
      BY <1>3, <2>1 DEF Serves
  <1> QED
    BY <1>2, <1>5, <1>6 DEF Wire, ReadsTrue

(* The late acknowledgement of a subscription withdrawn. *)
LEMMA TickSideLate ==
  ASSUME NEW st, NEW e, NEW m, TickSide(st), Wire(st), Reads(st, e, m),
         m.m = "ack", m.key.tick = TRUE, Name(m) \in st.tbtUnnumbered, st.up,
         e.tbt = st.tbt, e.stray = st.stray,
         e.tbtUnnumbered = st.tbtUnnumbered \ {Name(m)},
         IF StillRead(st.tbt, m.t, m.key) THEN SameWriting(st, e)
         ELSE Grows(st.out, e.out, CancelMsg(TRUE, m.t))
  PROVE  TickSide(e)
  <1> DEFINE I == AsksOf(st.tbt)
             L == st.tbtUnnumbered
             H == Held(st.tbt)
             M == e.tbtUnnumbered
             w == CancelMsg(TRUE, m.t)
  <1>1. Net(TRUE, I, L, H, st) /\ NamedApart(st.tbt) /\ Level(st.tbt) /\ Waits(st.tbt, st)
        /\ st.stray = {}
    BY DEF TickSide, TickNet
  <1>2. OneNameEach(st) /\ ReadsTrue(st)
    BY DEF Wire
  <1>3. ReadOff(st, e, m)
    BY ReadsShrink
  <1>4. st.in[1] = m /\ 1 \in DOMAIN st.in /\ e.up = st.up
    BY <1>3 DEF ReadOff
  <1>5. Net(TRUE, I, M, H, e)
    <2>1. CASE StillRead(st.tbt, m.t, m.key)
      <3>1. PICK i \in DOMAIN st.tbt : st.tbt[i].t = m.t \/ Key(st.tbt[i].c) = m.key
        BY <2>1 DEF StillRead
      <3>2. Key(st.tbt[i].c) = m.key
        BY <1>4, <3>1, TickNumbersAreTrue
      <3>3. \E y \in I : y.key = m.key
        BY <3>2, AskedNames
      <3>4. SameWriting(st, e)
        BY <2>1
      <3> HIDE DEF I, H
      <3> QED
        BY <1>1, <1>2, <3>3, <3>4, NetLateKept
    <2>2. CASE ~StillRead(st.tbt, m.t, m.key)
      <3>1. \A y \in I : y.key # m.key
        <4> SUFFICES ASSUME NEW i \in DOMAIN st.tbt PROVE Asked(st.tbt[i]).key # m.key
          BY DEF AsksOf
        <4> QED
          BY <2>2, AskedNames DEF StillRead
      <3>2. Grows(st.out, e.out, CancelMsg(TRUE, m.t))
        BY <2>2
      <3> HIDE DEF I, H
      <3> QED
        BY <1>1, <1>2, <3>1, <3>2, NetLateStops
    <2> QED
      BY <2>1, <2>2
  <1>6. TickNet(e)
    BY <1>5 DEF TickNet
  <1>7. ASSUME NEW i \in DOMAIN st.tbt
        PROVE  InFlight(e, Asked(st.tbt[i])) <=> InFlight(st, Asked(st.tbt[i]))
    <2> DEFINE x == Asked(st.tbt[i])
               d == [st EXCEPT !.in = e.in]
    <2>1. x # Name(m)
      <3>1. x \in I /\ I \cap L = {}
        BY <1>1, AskedNames DEF Net, Sorted
      <3> QED
        BY <3>1
    <2> HIDE DEF x
    <2>2. \A p \in Answers(st) : p = 1 \/ (p - 1 \in Answers(e) /\ e.in[p - 1] = st.in[p])
      BY <1>3 DEF ReadOff
    <2>3. \A p \in Answers(e) : p + 1 \in Answers(st) /\ e.in[p] = st.in[p + 1]
      BY <1>3 DEF ReadOff
    <2>4. (\E p \in Answers(e) : Name(e.in[p]) = x) <=> (\E p \in Answers(st) : Name(st.in[p]) = x)
      BY <1>4, <2>1, <2>2, <2>3
    <2>5. (\E p \in AsksAt(e) : Name(e.out[p]) = x) <=> (\E p \in AsksAt(st) : Name(st.out[p]) = x)
      <3>1. CASE StillRead(st.tbt, m.t, m.key)
        <4>1. SameWriting(st, e)
          BY <3>1
        <4> QED
          BY <4>1, SameWritingKeeps
      <3>2. CASE ~StillRead(st.tbt, m.t, m.key)
        <4>1. OutGrew(st, e, w)
          BY <3>2, Written
        <4>2. w.m # "ask"
          BY DEF CancelMsg
        <4> HIDE DEF w
        <4>3. /\ \A p \in AsksAt(st) : p \in AsksAt(e) /\ e.out[p] = st.out[p]
              /\ \A p \in AsksAt(e) : p \in AsksAt(st)
          BY <4>1, <4>2 DEF OutGrew
        <4> QED
          BY <4>3
      <3> QED
        BY <3>1, <3>2
    <2> QED
      BY <2>4, <2>5 DEF InFlight, x
  <1>8. Waits(e.tbt, e)
    BY <1>1, <1>4, <1>7 DEF Waits
  <1>9. NamedApart(e.tbt) /\ Level(e.tbt) /\ e.stray = {}
    BY <1>1
  <1> QED
    BY <1>6, <1>8, <1>9 DEF TickSide

(* What the table is once the subscription at `at' has its number. *)
Numbers1(u, w, at, t) ==
  /\ DOMAIN w = DOMAIN u
  /\ \A i \in DOMAIN u : i # at => w[i] = u[i]
  /\ w[at].q = u[at].q /\ w[at].c = u[at].c /\ w[at].t = t
  /\ \A i \in DOMAIN u : i # at /\ u[i].t = t =>
       \E j \in DOMAIN u : j # at /\ u[j].t = t /\ w[at].price = u[j].price

LEMMA NumberIs ==
  ASSUME NEW u \in Seq(TickRecords), NEW at \in DOMAIN u, NEW t
  PROVE  Numbers1(u, Number(u, at, t), at, t)
  <1> DEFINE w == Number(u, at, t)
             P == {i \in DOMAIN u : i # at /\ u[i].t = t}
             price == Joined(u, at, t)
  <1>1. u[at] \in TickRecords
    OBVIOUS
  <1>2. /\ DOMAIN w = DOMAIN u
        /\ \A i \in DOMAIN u : i # at => w[i] = u[i]
        /\ w[at] = [u[at] EXCEPT !.t = t, !.price = price]
    BY DEF Number
  <1>3. w[at].q = u[at].q /\ w[at].c = u[at].c /\ w[at].t = t /\ w[at].price = price
    <2> HIDE DEF price, w
    <2> QED
      BY <1>1, <1>2 DEF TickRecords
  <1>4. P # {} => price = u[Least(P)].price /\ Least(P) \in P
    <2>1. P \in SUBSET Nat
      OBVIOUS
    <2>2. P # {} => Least(P) \in P
      BY <2>1, LeastIn
    <2>3. P # {} => price = u[Least(P)].price
      BY DEF Joined
    <2> QED
      BY <2>2, <2>3
  <1> HIDE DEF w, price
  <1>5. \A i \in DOMAIN u : i # at /\ u[i].t = t =>
          \E j \in DOMAIN u : j # at /\ u[j].t = t /\ w[at].price = u[j].price
    <2> SUFFICES ASSUME NEW i \in DOMAIN u, i # at, u[i].t = t
                 PROVE  \E j \in DOMAIN u : j # at /\ u[j].t = t /\ w[at].price = u[j].price
      OBVIOUS
    <2>1. i \in P
      OBVIOUS
    <2> QED
      BY <1>3, <1>4, <2>1
  <1>6. Numbers1(u, w, at, t)
    BY <1>2, <1>3, <1>5 DEF Numbers1
  <1> QED
    BY <1>6 DEF w

(* The acknowledgement of a subscription. *)
LEMMA TickSideNumbers ==
  ASSUME NEW st, NEW e, NEW m, NEW at \in DOMAIN st.tbt, TickSide(st), Wire(st),
         Reads(st, e, m), SameWriting(st, e), st.up, m.m = "ack",
         \A u \in st.tbtUnnumbered : u.q # m.q,
         st.tbt[at].q = m.q,
         e.tbtUnnumbered = st.tbtUnnumbered, e.stray = st.stray,
         Numbers1(st.tbt, e.tbt, at, m.t)
  PROVE  TickSide(e)
  <1> DEFINE I == AsksOf(st.tbt)
             L == st.tbtUnnumbered
             H == Held(st.tbt)
             G == Held(e.tbt)
             x == Asked(st.tbt[at])
  <1>1. Net(TRUE, I, L, H, st) /\ NamedApart(st.tbt) /\ Level(st.tbt) /\ Waits(st.tbt, st)
        /\ st.stray = {}
    BY DEF TickSide, TickNet
  <1>2. OneNameEach(st) /\ ReadsTrue(st)
    BY DEF Wire
  <1>3. ReadOff(st, e, m)
    BY ReadsShrink
  <1>4. st.in[1] = m /\ 1 \in DOMAIN st.in /\ e.up = st.up /\ 1 \in Answers(st)
    BY <1>3 DEF ReadOff
  <1>5. x \in I /\ IsName(x) /\ x.q = st.tbt[at].q /\ x.key = Key(st.tbt[at].c)
    BY AskedNames
  <1>6. m.key = x.key
    BY <1>1, <1>4, <1>5 DEF Net, Matched
  <1>7. Name(m) = x
    BY <1>5, <1>6 DEF Name, IsName
  <1>n. /\ DOMAIN e.tbt = DOMAIN st.tbt
        /\ \A i \in DOMAIN st.tbt : i # at => e.tbt[i] = st.tbt[i]
        /\ e.tbt[at].q = st.tbt[at].q /\ e.tbt[at].c = st.tbt[at].c /\ e.tbt[at].t = m.t
        /\ \A i \in DOMAIN st.tbt : i # at /\ st.tbt[i].t = m.t =>
             \E j \in DOMAIN st.tbt : j # at /\ st.tbt[j].t = m.t /\ e.tbt[at].price = st.tbt[j].price
    BY DEF Numbers1
  <1>8. \A i \in DOMAIN st.tbt : Asked(e.tbt[i]) = Asked(st.tbt[i])
    BY <1>n DEF Asked
  <1>9. AsksOf(e.tbt) = I
    BY <1>8, <1>n DEF AsksOf
  <1>10. \A g \in G : g \in H \/ (g.key = m.key /\ g.t = m.t)
    <2> SUFFICES ASSUME NEW g \in G PROVE g \in H \/ (g.key = m.key /\ g.t = m.t)
      OBVIOUS
    <2>0. PICK i \in Numbered(e.tbt) : g = [key |-> Key(e.tbt[i].c), t |-> e.tbt[i].t]
      BY DEF Held
    <2>1. CASE i = at
      BY <1>5, <1>6, <1>n, <2>0, <2>1
    <2>2. CASE i # at
      <3>1. i \in Numbered(st.tbt) /\ e.tbt[i] = st.tbt[i]
        BY <1>n, <2>2 DEF Numbered
      <3> QED
        BY <2>0, <3>1 DEF Held
    <2> QED
      BY <2>1, <2>2
  <1>11. Net(TRUE, I, L, G, e)
    <2>1. Backed(I, G)
      BY <1>9, TablesBacked
    <2>2. Name(m) \notin L
      BY <1>5, <1>7
    <2> HIDE DEF I, L, H, G, x
    <2>3. \A g \in G : g \in H \/ (m.m = "ack" /\ Name(m) \in I /\ g.key = m.key /\ g.t = m.t)
      BY <1>5, <1>7, <1>10
    <2> QED
      BY <1>1, <2>1, <2>2, <2>3, NetReads
  <1>12. TickNet(e)
    BY <1>9, <1>11 DEF TickNet
  <1>13. NamedApart(e.tbt)
    BY <1>1, <1>n DEF NamedApart
  <1>14. Level(e.tbt)
    <2> SUFFICES ASSUME NEW i \in DOMAIN st.tbt, NEW j \in DOMAIN st.tbt,
                        e.tbt[i].t = e.tbt[j].t, e.tbt[i].t # NoNumber
                 PROVE  e.tbt[i].price = e.tbt[j].price
      BY <1>n DEF Level
    <2>0. ASSUME NEW k \in DOMAIN st.tbt, k # at, st.tbt[k].t = m.t, m.t # NoNumber
          PROVE  e.tbt[at].price = st.tbt[k].price
      <3>1. PICK v \in DOMAIN st.tbt : st.tbt[v].t = m.t /\ e.tbt[at].price = st.tbt[v].price
        BY <1>n, <2>0
      <3> QED
        BY <1>1, <2>0, <3>1 DEF Level
    <2>1. CASE i = at /\ j # at
      BY <1>n, <2>0, <2>1
    <2>2. CASE i # at /\ j = at
      BY <1>n, <2>0, <2>2
    <2>3. CASE i # at /\ j # at
      BY <1>1, <1>n, <2>3 DEF Level
    <2>4. CASE i = at /\ j = at
      BY <2>4
    <2> QED
      BY <2>1, <2>2, <2>3, <2>4
  <1>15. Waits(e.tbt, e)
    <2> SUFFICES ASSUME NEW i \in DOMAIN st.tbt
                 PROVE  e.tbt[i].t = NoNumber <=> InFlight(e, Asked(st.tbt[i]))
      BY <1>8, <1>n DEF Waits
    <2>f. \A z : InFlight(st, z) <=> InFlight(e, z) \/ (m.m # "record" /\ Name(m) = z)
      BY FlightReads
    <2>1. CASE i # at
      <3>1. Asked(st.tbt[i]) # x
        <4>1. st.tbt[i].q # st.tbt[at].q
          BY <1>1, <2>1 DEF NamedApart
        <4> QED
          BY <4>1 DEF Asked
      <3>2. st.tbt[i].t = NoNumber <=> InFlight(st, Asked(st.tbt[i]))
        BY <1>1 DEF Waits
      <3> QED
        BY <1>7, <1>n, <2>1, <2>f, <3>1, <3>2
    <2>2. CASE i = at
      <3>1. m.t # NoNumber
        BY <1>2, <1>4 DEF ReadsTrue
      <3>2. ~InFlight(e, Name(m))
        <4>1. \A p \in AsksAt(e) : Name(e.out[p]) # Name(m)
          <5> SUFFICES ASSUME NEW p \in AsksAt(st) PROVE Name(st.out[p]) # Name(m)
            BY SameWritingKeeps
          <5>1. st.out[p].q # m.q
            BY <1>2, <1>4 DEF OneNameEach
          <5> QED
            BY <5>1 DEF Name
        <4>2. \A p \in Answers(e) : Name(e.in[p]) # Name(m)
          <5> SUFFICES ASSUME NEW p \in Answers(e) PROVE Name(e.in[p]) # Name(m)
            OBVIOUS
          <5>1. p + 1 \in Answers(st) /\ e.in[p] = st.in[p + 1] /\ p \in Nat /\ p > 0
            BY <1>3 DEF ReadOff
          <5>2. p + 1 # 1
            BY <5>1
          <5>3. e.in[p].q # m.q
            BY <1>2, <1>4, <5>1, <5>2 DEF OneNameEach
          <5> QED
            BY <5>3 DEF Name
        <4> QED
          BY <4>1, <4>2 DEF InFlight
      <3> QED
        BY <1>7, <1>n, <2>2, <3>1, <3>2
    <2> QED
      BY <2>1, <2>2
  <1> QED
    BY <1>1, <1>12, <1>13, <1>14, <1>15 DEF TickSide

-----------------------------------------------------------------------------
(* The venue refuses an ask. *)
LEMMA TickSideRefused ==
  ASSUME NEW st, NEW e, NEW m, NEW S, TickSide(st), Wire(st), Reads(st, e, m),
         SameWriting(st, e), st.up, m.m = "error",
         Kept(S, st.tbt, e.tbt, {i \in DOMAIN st.tbt : st.tbt[i].q # m.q}),
         e.tbtUnnumbered = st.tbtUnnumbered, e.stray = st.stray
  PROVE  TickSide(e)
  <1> DEFINE I == AsksOf(st.tbt)
             J == AsksOf(e.tbt)
             L == st.tbtUnnumbered
             H == Held(st.tbt)
             G == Held(e.tbt)
             P == {i \in DOMAIN st.tbt : st.tbt[i].q # m.q}
  <1>1. Net(TRUE, I, L, H, st)
    BY DEF TickSide, TickNet
  <1>2. ReadOff(st, e, m)
    BY ReadsShrink
  <1>3. st.in[1] = m /\ 1 \in DOMAIN st.in /\ e.up = st.up /\ 1 \in Answers(st) /\ e.refuses = st.refuses
    BY <1>2 DEF ReadOff
  <1>4. m.key \in e.refuses
    BY <1>3 DEF Wire, ReadsTrue
  <1>5. Wire(e)
    BY <1>3, WireReads
  <1>6. RunsOnce(e) /\ DownIsEmpty(e)
    BY <1>5 DEF Wire
  <1>7. Net(TRUE, I, L, H, e)
    <2>1. Backed(I, H)
      BY TablesBacked
    <2> HIDE DEF I, L, H
    <2> QED
      BY <1>1, <2>1, NetReads
  <1>k. P \in SUBSET (DOMAIN st.tbt) /\ Kept(S, st.tbt, e.tbt, P)
    OBVIOUS
  <1>8. G \subseteq H /\ Backed(J, G)
    <2>1. G \subseteq H
      BY <1>k, KeptHeld
    <2> QED
      BY <2>1, TablesBacked
  <1>9. J = {Asked(st.tbt[i]) : i \in P} /\ J \subseteq I
    BY <1>k, KeptAsks
  <1>10. \A y \in I \ J : y.key \in e.refuses
    <2> SUFFICES ASSUME NEW y \in I \ J PROVE y.key \in e.refuses
      OBVIOUS
    <2>1. PICK i \in DOMAIN st.tbt : y = Asked(st.tbt[i])
      BY DEF AsksOf
    <2>2. st.tbt[i].q = m.q
      BY <1>9, <2>1
    <2>3. y.q = m.q
      BY <2>1, <2>2, AskedNames
    <2>4. m.key = y.key
      BY <1>1, <1>3, <2>3 DEF Net, Matched
    <2> QED
      BY <1>4, <2>4
  <1>11. Net(TRUE, J, L, G, e)
    <2>1. SameReading(e, e) /\ SameWriting(e, e)
      BY DEF SameReading, SameWriting
    <2> HIDE DEF I, J, L, H, G
    <2> QED
      BY <1>6, <1>7, <1>8, <1>9, <1>10, <2>1, NetForgets
  <1>12. TickNet(e)
    BY <1>11 DEF TickNet
  <1>13. ASSUME NEW i \in P
         PROVE  InFlight(e, Asked(st.tbt[i])) <=> InFlight(st, Asked(st.tbt[i]))
    <2>1. Name(m) # Asked(st.tbt[i])
      BY DEF Name, Asked
    <2>2. InFlight(st, Asked(st.tbt[i])) <=>
            InFlight(e, Asked(st.tbt[i])) \/ (m.m # "record" /\ Name(m) = Asked(st.tbt[i]))
      BY FlightReads
    <2> QED
      BY <2>1, <2>2
  <1> HIDE DEF I, J, L, H, G, P
  <1> QED
    BY <1>3, <1>12, <1>13, <1>k, TickSideLess

(* What the table is once a record under the number has been read. *)
Moved(u, w, t) ==
  /\ DOMAIN w = DOMAIN u
  /\ \A i \in DOMAIN u : w[i].q = u[i].q /\ w[i].c = u[i].c /\ w[i].t = u[i].t
  /\ \A i \in DOMAIN u : u[i].t = t => w[i].price = u[i].price + 1
  /\ \A i \in DOMAIN u : u[i].t # t => w[i].price = u[i].price

LEMMA TickSideHears ==
  ASSUME NEW st, NEW e, NEW m, TickSide(st), Reads(st, e, m), SameWriting(st, e),
         m.m = "record", Moved(st.tbt, e.tbt, m.t),
         e.tbtUnnumbered = st.tbtUnnumbered, e.stray = {}
  PROVE  TickSide(e)
  <1> DEFINE I == AsksOf(st.tbt)
             L == st.tbtUnnumbered
             H == Held(st.tbt)
  <1>1. Net(TRUE, I, L, H, st) /\ NamedApart(st.tbt) /\ Level(st.tbt) /\ Waits(st.tbt, st)
    BY DEF TickSide, TickNet
  <1>n. /\ DOMAIN e.tbt = DOMAIN st.tbt
        /\ \A i \in DOMAIN st.tbt : e.tbt[i].q = st.tbt[i].q /\ e.tbt[i].c = st.tbt[i].c
                                    /\ e.tbt[i].t = st.tbt[i].t
    BY DEF Moved
  <1>2. \A i \in DOMAIN st.tbt : Asked(e.tbt[i]) = Asked(st.tbt[i])
    BY <1>n DEF Asked
  <1>3. AsksOf(e.tbt) = I
    BY <1>2, <1>n DEF AsksOf
  <1>4. Held(e.tbt) = H
    <2>1. Numbered(e.tbt) = Numbered(st.tbt)
      BY <1>n DEF Numbered
    <2>2. \A i \in Numbered(st.tbt) : e.tbt[i].c = st.tbt[i].c /\ e.tbt[i].t = st.tbt[i].t
      BY <1>n DEF Numbered
    <2>3. Held(e.tbt) \subseteq H
      BY <2>1, <2>2 DEF Held
    <2>4. H \subseteq Held(e.tbt)
      BY <2>1, <2>2 DEF Held
    <2> QED
      BY <2>3, <2>4
  <1>5. Net(TRUE, I, L, H, e)
    <2>1. Backed(I, H)
      BY TablesBacked
    <2> HIDE DEF I, L, H
    <2> QED
      BY <1>1, <2>1, NetReads
  <1>6. TickNet(e)
    BY <1>3, <1>4, <1>5 DEF TickNet
  <1>7. NamedApart(e.tbt)
    BY <1>1, <1>n DEF NamedApart
  <1>8. Level(e.tbt)
    BY <1>1, <1>n DEF Level, Moved
  <1>9. Waits(e.tbt, e)
    <2>1. \A z : InFlight(st, z) <=> InFlight(e, z) \/ (m.m # "record" /\ Name(m) = z)
      BY FlightReads
    <2>2. e.up = st.up
      BY DEF SameWriting
    <2> QED
      BY <1>1, <1>2, <1>n, <2>1, <2>2 DEF Waits
  <1> QED
    BY <1>6, <1>7, <1>8, <1>9 DEF TickSide

(* Every subscription is asked for again. *)
LEMMA TickSideAnew ==
  ASSUME NEW e, NEW n \in Nat, Anew(e), e.up,
         DOMAIN e.tbt = 1 .. n,
         \A i \in 1 .. n : e.tbt[i].q = i /\ e.tbt[i].t = NoNumber /\ Key(e.tbt[i].c).tick = TRUE,
         e.tbtUnnumbered = {}, e.stray = {},
         \A i \in 1 .. n : i \in DOMAIN e.out /\ Name(e.out[i]) = Asked(e.tbt[i]),
         \A p \in DOMAIN e.out : e.out[p].q = p,
         \A p \in DOMAIN e.out : e.out[p].key.tick = TRUE => p \in 1 .. n
  PROVE  TickSide(e)
  <1> DEFINE I == AsksOf(e.tbt)
  <1>1. Sorted(TRUE, I, {})
    <2>1. ASSUME NEW x \in I, NEW y \in I, x.q = y.q PROVE x = y
      <3>1. PICK i \in 1 .. n, j \in 1 .. n : x = Asked(e.tbt[i]) /\ y = Asked(e.tbt[j])
        BY DEF AsksOf
      <3>2. x.q = i /\ y.q = j
        BY <3>1 DEF Asked
      <3> QED
        BY <2>1, <3>1, <3>2
    <2>2. ASSUME NEW x \in I PROVE x.key.tick = TRUE
      <3>1. PICK i \in 1 .. n : x = Asked(e.tbt[i])
        BY DEF AsksOf
      <3> QED
        BY <3>1 DEF Asked
    <2> HIDE DEF I
    <2>3. I \cup {} = I /\ I \cap {} = {}
      OBVIOUS
    <2> QED
      BY <2>1, <2>2, <2>3 DEF Sorted
  <1>2. \A p \in AsksAt(e), x \in I : e.out[p].q = x.q => e.out[p].key = x.key
    <2> SUFFICES ASSUME NEW p \in AsksAt(e), NEW x \in I, e.out[p].q = x.q
                 PROVE  e.out[p].key = x.key
      OBVIOUS
    <2>1. PICK i \in 1 .. n : x = Asked(e.tbt[i])
      BY DEF AsksOf
    <2>2. x.q = i
      BY <2>1 DEF Asked
    <2>3. p = i /\ Name(e.out[p]) = x
      BY <2>1, <2>2 DEF AsksAt
    <2> QED
      BY <2>3 DEF Name
  <1>3. \A p \in AsksAt(e) : e.out[p].key.tick = TRUE => Name(e.out[p]) \in I
    BY DEF AsksAt, AsksOf
  <1>4. Net(TRUE, I, {}, {}, e)
    <2> HIDE DEF I
    <2> QED
      BY <1>1, <1>2, <1>3, NetAnew
  <1>5. Held(e.tbt) = {}
    BY DEF Held, Numbered
  <1>6. TickNet(e)
    BY <1>4, <1>5 DEF TickNet
  <1>7. NamedApart(e.tbt) /\ Level(e.tbt)
    BY DEF NamedApart, Level
  <1>8. Waits(e.tbt, e)
    <2> SUFFICES ASSUME NEW i \in 1 .. n PROVE InFlight(e, Asked(e.tbt[i]))
      BY DEF Waits
    <2>1. i \in AsksAt(e) /\ Name(e.out[i]) = Asked(e.tbt[i])
      BY DEF AsksAt, Anew
    <2> QED
      BY <2>1 DEF InFlight
  <1> QED
    BY <1>6, <1>7, <1>8 DEF TickSide

-----------------------------------------------------------------------------
(* What a step of the bars leaves alone. *)
Barred(st, e) ==
  /\ e \in State /\ SameTicks(st, e) /\ SameReading(st, e)
  /\ e.up = st.up /\ e.twice = st.twice

LEMMA BarredTwice ==
  ASSUME NEW st, NEW d, NEW e, Barred(st, d), Barred(d, e)
  PROVE  Barred(st, e)
  BY DEF Barred, SameTicks, SameReading

(* The tables of the bars after a step, and what it wrote. *)
BarTables(st, e, sub, rou, res, unn, bat) ==
  /\ Barred(st, e) /\ e.out = st.out
  /\ e.subs = sub /\ e.routes = rou /\ e.resub = res /\ e.unnumbered = unn /\ e.batch = bat

SameBars(st, e) ==
  /\ e.subs = st.subs /\ e.routes = st.routes /\ e.resub = st.resub
  /\ e.unnumbered = st.unnumbered /\ e.batch = st.batch

Wrote(st, e, m) == IF st.up THEN Grows(st.out, e.out, m) ELSE e.out = st.out

LEMMA Writes ==
  ASSUME NEW st \in State, NEW m \in Asking \cup Withdrawing
  PROVE  /\ Barred(st, Write(st, m)) /\ SameBars(st, Write(st, m))
         /\ Wrote(st, Write(st, m), m)
  <1>1. CASE st.up
    <2> DEFINE o == Append(st.out, m)
    <2>1. st.out \in Seq(Asking \cup Withdrawing)
      BY DEF State
    <2>2. o \in Seq(Asking \cup Withdrawing) /\ Grows(st.out, o, m)
      BY <2>1, AppendGrows
    <2>3. Write(st, m) = [st EXCEPT !.out = o]
      BY <1>1 DEF Write
    <2> HIDE DEF o
    <2>4. [st EXCEPT !.out = o] \in State
      BY <2>2 DEF State
    <2>5. Barred(st, Write(st, m))
      BY <2>3, <2>4 DEF State, Barred, SameTicks, SameReading
    <2>6. SameBars(st, Write(st, m))
      BY <2>3 DEF State, SameBars
    <2>7. Wrote(st, Write(st, m), m)
      BY <1>1, <2>2, <2>3 DEF State, Wrote
    <2> QED
      BY <2>5, <2>6, <2>7
  <1>2. CASE ~st.up
    BY <1>2 DEF Write, Barred, SameTicks, SameReading, SameBars, Wrote
  <1> QED
    BY <1>1, <1>2

LEMMA SetsBars ==
  ASSUME NEW st \in State, NEW sub \in Seq(BarRecords), NEW rou \in Seq(Routes),
         NEW res \in Seq(BarCallers), NEW unn \in SUBSET Named,
         NEW bat \in SUBSET [q : Nat, c : BarCallers], NEW e,
         e = [st EXCEPT !.subs = sub, !.routes = rou, !.resub = res, !.unnumbered = unn,
                        !.batch = bat]
  PROVE  BarTables(st, e, sub, rou, res, unn, bat)
  <1> DEFINE B == [q : Nat, c : BarCallers]
  <1>a. bat \in SUBSET B
    OBVIOUS
  <1> HIDE DEF B
  <1>1. e \in State
    BY <1>a DEF State, B
  <1>2. SameTicks(st, e) /\ SameReading(st, e) /\ e.up = st.up /\ e.twice = st.twice /\ e.out = st.out
    BY DEF State, SameTicks, SameReading
  <1>3. e.subs = sub /\ e.routes = rou /\ e.resub = res /\ e.unnumbered = unn /\ e.batch = bat
    BY DEF State
  <1> QED
    BY <1>1, <1>2, <1>3 DEF BarTables, Barred

-----------------------------------------------------------------------------
TickNames(st) == {st.tbt[i].q : i \in DOMAIN st.tbt} \cup {u.q : u \in st.tbtUnnumbered}
BarNames(st) ==
  {st.subs[i].q : i \in DOMAIN st.subs} \cup {u.q : u \in st.unnumbered} \cup {b.q : b \in st.batch}
NamesApart(st) == \A q \in TickNames(st) : q \notin BarNames(st)

(* What holds of the streams whoever asks for bars. *)
Common(st) ==
  /\ st \in State /\ Finite(st) /\ Wire(st) /\ NamesApart(st) /\ TickSide(st)
  /\ st.twice = {}

NamesGrow(st, e) == \A q \in BarNames(e) : q \in BarNames(st) \/ FreshIn(st, q)

(* A step of the bars that writes nothing, or a withdrawal. *)
BarStep(st, e) ==
  /\ Barred(st, e) /\ Finite(e) /\ (e.batch \subseteq st.batch \/ e.up) /\ NamesGrow(st, e)
  /\ \/ e.out = st.out
     \/ st.up /\ \E t \in Nat : Grows(st.out, e.out, CancelMsg(FALSE, t))

(* A step of the bars that asks for a stream. *)
BarAsk(st, e, q, k) ==
  /\ Barred(st, e) /\ Finite(e) /\ NamesGrow(st, e) /\ st.up
  /\ FreshIn(st, q) /\ k.tick = FALSE /\ Grows(st.out, e.out, AskMsg(q, k))

LEMMA NamesStayApart ==
  ASSUME NEW st, NEW e, NamesApart(st), NamesGrow(st, e), SameTicks(st, e)
  PROVE  NamesApart(e)
  <1>1. TickNames(e) = TickNames(st)
    BY DEF SameTicks, TickNames
  <1>2. ASSUME NEW q \in TickNames(st) PROVE ~FreshIn(st, q)
    BY <1>2 DEF TickNames, FreshIn
  <1> QED
    BY <1>1, <1>2 DEF NamesApart, NamesGrow

LEMMA BarStepKeeps ==
  ASSUME NEW st, NEW e, Common(st), BarStep(st, e)
  PROVE  Common(e)
  <1>1. /\ Wire(st) /\ NamesApart(st) /\ TickSide(st) /\ st.twice = {}
        /\ e \in State /\ SameTicks(st, e) /\ SameReading(st, e) /\ e.up = st.up
        /\ e.twice = st.twice /\ Finite(e) /\ NamesGrow(st, e)
        /\ e.batch \subseteq st.batch \/ e.up
    BY DEF Common, BarStep, Barred
  <1>2. NamesApart(e)
    BY <1>1, NamesStayApart
  <1>3. CASE e.out = st.out
    <2>1. SameWriting(st, e)
      BY <1>1, <1>3 DEF SameWriting
    <2>2. Wire(e)
      BY <1>1, <2>1, WireTables
    <2>3. TickSide(e)
      BY <1>1, <2>1, TickSideTables
    <2> QED
      BY <1>1, <1>2, <2>2, <2>3 DEF Common
  <1>4. CASE st.up /\ \E t \in Nat : Grows(st.out, e.out, CancelMsg(FALSE, t))
    <2>1. PICK t \in Nat : Grows(st.out, e.out, CancelMsg(FALSE, t))
      BY <1>4
    <2> DEFINE m == CancelMsg(FALSE, t)
    <2>2. m.m = "cancel" /\ m.tick # TRUE /\ Grows(st.out, e.out, m) /\ st.up
      BY <1>4, <2>1 DEF CancelMsg
    <2> HIDE DEF m
    <2>3. Wire(e)
      BY <1>1, <2>2, WireWrites
    <2>4. TickSide(e)
      BY <1>1, <2>2, TickSideWrites
    <2> QED
      BY <1>1, <1>2, <2>3, <2>4 DEF Common
  <1> QED
    BY <1>3, <1>4 DEF BarStep

LEMMA FreshOnTheWire ==
  ASSUME NEW st, NEW q, FreshIn(st, q)
  PROVE  /\ \A p \in AsksAt(st) : st.out[p].q # q
         /\ \A p \in Answers(st) : st.in[p].q # q
  BY DEF FreshIn, AsksAt, Answers

LEMMA BarAskKeeps ==
  ASSUME NEW st, NEW e, NEW q, NEW k, Common(st), BarAsk(st, e, q, k)
  PROVE  Common(e)
  <1>1. /\ Wire(st) /\ NamesApart(st) /\ TickSide(st) /\ st.twice = {}
        /\ e \in State /\ SameTicks(st, e) /\ SameReading(st, e) /\ e.up = st.up
        /\ e.twice = st.twice /\ Finite(e) /\ NamesGrow(st, e) /\ st.up
        /\ FreshIn(st, q)
    BY DEF Common, BarAsk, Barred
  <1>2. NamesApart(e)
    BY <1>1, NamesStayApart
  <1> DEFINE m == AskMsg(q, k)
  <1>3. m.m = "ask" /\ m.q = q /\ m.key.tick # TRUE /\ Grows(st.out, e.out, m)
    BY DEF AskMsg, BarAsk
  <1> HIDE DEF m
  <1>4. /\ \A p \in AsksAt(st) : st.out[p].q # m.q
        /\ \A p \in Answers(st) : st.in[p].q # m.q
    BY <1>1, <1>3, FreshOnTheWire
  <1>5. Wire(e)
    BY <1>1, <1>3, <1>4, WireWrites
  <1>6. /\ \A i \in DOMAIN st.tbt : st.tbt[i].q # m.q
        /\ \A u \in st.tbtUnnumbered : u.q # m.q
    BY <1>1, <1>3 DEF FreshIn
  <1>7. TickSide(e)
    BY <1>1, <1>3, <1>6, TickSideWrites
  <1> QED
    BY <1>1, <1>2, <1>5, <1>7 DEF Common

-----------------------------------------------------------------------------
LEMMA BarCallersAre ==
  \A c \in BarCallers : c \in Callers /\ ~IsTick(c)
  BY DEF BarCallers

(* What the tables keep. *)
LEMMA NotOfKeeps ==
  ASSUME NEW subs \in Seq(BarRecords), NEW S
  PROVE  /\ {i \in DOMAIN subs : subs[i].c \notin S} \in SUBSET (DOMAIN subs)
         /\ Kept(BarRecords, subs, NotOf(subs, S), {i \in DOMAIN subs : subs[i].c \notin S})
         /\ NotOf(subs, S) \in Seq(BarRecords)
  <1> DEFINE I == {i \in DOMAIN subs : subs[i].c \notin S}
  <1>1. I \in SUBSET (DOMAIN subs)
    OBVIOUS
  <1>2. NotOf(subs, S) = Only(subs, I)
    BY DEF NotOf
  <1> HIDE DEF I
  <1>3. Kept(BarRecords, subs, NotOf(subs, S), I)
    BY <1>1, <1>2, OnlyKeeps
  <1>4. NotOf(subs, S) \in Seq(BarRecords)
    BY <1>3 DEF Kept
  <1> QED
    BY <1>1, <1>3, <1>4 DEF I

LEMMA NotOfFrom ==
  ASSUME NEW subs \in Seq(BarRecords), NEW S, NEW i \in DOMAIN NotOf(subs, S)
  PROVE  \E j \in DOMAIN subs : NotOf(subs, S)[i] = subs[j] /\ subs[j].c \notin S
  <1> DEFINE I == {j \in DOMAIN subs : subs[j].c \notin S}
  <1>1. Kept(BarRecords, subs, NotOf(subs, S), I)
    BY NotOfKeeps
  <1> HIDE DEF I
  <1>2. \E j \in I : NotOf(subs, S)[i] = subs[j]
    BY <1>1 DEF Kept
  <1> QED
    BY <1>2 DEF I

LEMMA NotAskedKeeps ==
  ASSUME NEW resub \in Seq(BarCallers), NEW S
  PROVE  /\ {k \in DOMAIN resub : resub[k] \notin S} \in SUBSET (DOMAIN resub)
         /\ Kept(BarCallers, resub, NotAsked(resub, S), {k \in DOMAIN resub : resub[k] \notin S})
         /\ NotAsked(resub, S) \in Seq(BarCallers)
  <1> DEFINE I == {k \in DOMAIN resub : resub[k] \notin S}
  <1>1. I \in SUBSET (DOMAIN resub)
    OBVIOUS
  <1>2. NotAsked(resub, S) = Only(resub, I)
    BY DEF NotAsked
  <1> HIDE DEF I
  <1>3. Kept(BarCallers, resub, NotAsked(resub, S), I)
    BY <1>1, <1>2, OnlyKeeps
  <1>4. NotAsked(resub, S) \in Seq(BarCallers)
    BY <1>3 DEF Kept
  <1> QED
    BY <1>1, <1>3, <1>4 DEF I

LEMMA DropKeeps ==
  ASSUME NEW S, NEW u \in Seq(S), NEW at
  PROVE  /\ DOMAIN u \ {at} \in SUBSET (DOMAIN u)
         /\ Kept(S, u, Drop(u, at), DOMAIN u \ {at})
         /\ Drop(u, at) \in Seq(S)
         /\ \A k \in DOMAIN Drop(u, at) : \E j \in DOMAIN u : Drop(u, at)[k] = u[j]
  <1> DEFINE I == DOMAIN u \ {at}
  <1>1. I \in SUBSET (DOMAIN u)
    OBVIOUS
  <1>2. Drop(u, at) = Only(u, I)
    BY DEF Drop
  <1> HIDE DEF I
  <1>3. Kept(S, u, Drop(u, at), I)
    BY <1>1, <1>2, OnlyKeeps
  <1>4. Drop(u, at) \in Seq(S)
    BY <1>3 DEF Kept
  <1>5. \A k \in DOMAIN Drop(u, at) : \E j \in I : Drop(u, at)[k] = u[j]
    BY <1>3 DEF Kept
  <1> QED
    BY <1>1, <1>3, <1>4, <1>5 DEF I

(* A route in the making may have no readers. *)
Routing == [contracts : Seq(Keys), readers : SUBSET Callers, t : Nat,
            active : BOOLEAN, unit : load.units \cup {0}]

LEMMA RoutingReads ==
  ASSUME NEW r \in Routing, r.readers # {}
  PROVE  r \in Routes
  BY DEF Routing, Routes

LEMMA WithReadersKeeps ==
  ASSUME NEW w \in Seq(Routing)
  PROVE  /\ {i \in DOMAIN w : w[i].readers # {}} \in SUBSET (DOMAIN w)
         /\ Kept(Routing, w, WithReaders(w), {i \in DOMAIN w : w[i].readers # {}})
         /\ WithReaders(w) \in Seq(Routes)
  <1> DEFINE I == {i \in DOMAIN w : w[i].readers # {}}
             v == WithReaders(w)
  <1>1. I \in SUBSET (DOMAIN w)
    OBVIOUS
  <1>2. v = Only(w, I)
    BY DEF WithReaders
  <1>a. \A i \in I : w[i] \in Routing /\ w[i].readers # {}
    OBVIOUS
  <1> HIDE DEF I, v
  <1>3. Kept(Routing, w, v, I)
    BY <1>1, <1>2, OnlyKeeps
  <1>4. v \in Seq(Routing)
    BY <1>3 DEF Kept
  <1>5. \A k \in DOMAIN v : \E j \in I : v[k] = w[j]
    BY <1>3 DEF Kept
  <1>6. \A k \in DOMAIN v : v[k] \in Routes
    BY <1>5, <1>a, RoutingReads
  <1>7. v \in Seq(Routes)
    BY <1>4, <1>6
  <1> QED
    BY <1>1, <1>3, <1>7 DEF I, v

LEMMA RoutesAreRouting ==
  ASSUME NEW w \in Seq(Routes)
  PROVE  w \in Seq(Routing)
  <1>1. \A r \in Routes : r \in Routing
    BY DEF Routes, Routing
  <1> QED
    BY <1>1

(* forget_bar_reader *)
LEMMA WithoutKeeps ==
  ASSUME NEW w \in Seq(Routes), NEW S
  PROVE  Without(w, S) \in Seq(Routes)
  <1> DEFINE v == [i \in DOMAIN w |-> [w[i] EXCEPT !.readers = @ \ S]]
  <1>1. w \in Seq(Routing)
    BY RoutesAreRouting
  <1>2. \A i \in DOMAIN w : v[i] \in Routing
    <2> SUFFICES ASSUME NEW i \in DOMAIN w PROVE v[i] \in Routing
      OBVIOUS
    <2>1. w[i] \in Routing
      BY <1>1
    <2> QED
      BY <2>1 DEF Routing
  <1>3. v \in Seq(Routing)
    BY <1>1, <1>2
  <1>4. Without(w, S) = WithReaders(v)
    BY DEF Without
  <1> HIDE DEF v
  <1> QED
    BY <1>3, <1>4, WithReadersKeeps

-----------------------------------------------------------------------------
LEMMA KeyIs ==
  ASSUME NEW c \in Callers
  PROVE  Key(c) \in Keys /\ Key(c).tick = IsTick(c)
  BY DEF Keys, Key, IsTick

LEMMA MessagesAreTyped ==
  /\ \A q \in Nat, k \in Keys : AskMsg(q, k) \in Asking \cup Withdrawing
  /\ \A tick \in BOOLEAN, t \in Nat : CancelMsg(tick, t) \in Asking \cup Withdrawing
  BY DEF AskMsg, CancelMsg, Asking, Withdrawing

(* A change of the bar tables, and a withdrawal or an ask written after it. *)
LEMMA ThenWithdraws ==
  ASSUME NEW st \in State, NEW d, BarStep(st, d), d.out = st.out, NEW t \in Nat
  PROVE  BarStep(st, Write(d, CancelMsg(FALSE, t)))
  <1> DEFINE m == CancelMsg(FALSE, t)
             e == Write(d, m)
  <1>1. m \in Asking \cup Withdrawing
    BY MessagesAreTyped
  <1>2. Barred(st, d) /\ d \in State /\ d.up = st.up
    BY DEF BarStep, Barred
  <1> HIDE DEF m
  <1>3. Barred(d, e) /\ SameBars(d, e) /\ Wrote(d, e, m)
    BY <1>1, <1>2, Writes
  <1> HIDE DEF e
  <1>4. Barred(st, e)
    BY <1>2, <1>3, BarredTwice
  <1>5. Finite(e)
    BY <1>3 DEF BarStep, Finite, Barred, SameBars, SameTicks, SameReading
  <1>6. NamesGrow(st, e)
    <2>1. BarNames(e) = BarNames(d)
      BY <1>3 DEF SameBars, BarNames
    <2> QED
      BY <2>1 DEF BarStep, NamesGrow
  <1>7. e.batch \subseteq st.batch \/ e.up
    BY <1>3 DEF BarStep, SameBars, Barred
  <1>8. e.out = st.out \/ (st.up /\ Grows(st.out, e.out, m))
    BY <1>2, <1>3 DEF Wrote
  <1>9. BarStep(st, e)
    BY <1>4, <1>5, <1>6, <1>7, <1>8 DEF BarStep, m
  <1> QED
    BY <1>9 DEF e, m

LEMMA ThenAsks ==
  ASSUME NEW st \in State, NEW d, BarStep(st, d), d.out = st.out, st.up,
         NEW q, FreshIn(st, q), NEW k \in Keys, k.tick = FALSE
  PROVE  /\ BarAsk(st, Write(d, AskMsg(q, k)), q, k)
         /\ SameBars(d, Write(d, AskMsg(q, k)))
  <1> DEFINE m == AskMsg(q, k)
             e == Write(d, m)
  <1>1. m \in Asking \cup Withdrawing
    BY MessagesAreTyped DEF FreshIn
  <1>2. Barred(st, d) /\ d \in State /\ d.up = st.up
    BY DEF BarStep, Barred
  <1> HIDE DEF m
  <1>3. Barred(d, e) /\ SameBars(d, e) /\ Wrote(d, e, m)
    BY <1>1, <1>2, Writes
  <1> HIDE DEF e
  <1>4. Barred(st, e)
    BY <1>2, <1>3, BarredTwice
  <1>5. Finite(e)
    BY <1>3 DEF BarStep, Finite, Barred, SameBars, SameTicks, SameReading
  <1>6. NamesGrow(st, e)
    <2>1. BarNames(e) = BarNames(d)
      BY <1>3 DEF SameBars, BarNames
    <2> QED
      BY <2>1 DEF BarStep, NamesGrow
  <1>8. Grows(st.out, e.out, m)
    BY <1>2, <1>3 DEF Wrote
  <1>9. BarAsk(st, e, q, k)
    BY <1>4, <1>5, <1>6, <1>8 DEF BarAsk, m
  <1> QED
    BY <1>3, <1>9 DEF e, m

(* send_realtime_bar_subscribe joins a stream that runs. *)
LEMMA OwnerIs ==
  ASSUME NEW st \in State, NEW c \in BarCallers, Running(st, c) # {}
  PROVE  Owner(st, c) \in BarRecords
  <1> DEFINE run == Running(st, c)
             k == Least(run)
             S == {i \in SubsOf(st, st.resub[k]) : st.subs[i].t # NoNumber}
  <1>2. /\ st.subs \in Seq(BarRecords) /\ st.resub \in Seq(BarCallers)
    BY DEF State
  <1>3. k \in run
    <2>1. run \in SUBSET Nat /\ run # {}
      BY <1>2 DEF Running
    <2> HIDE DEF run
    <2> QED
      BY <2>1, LeastIn
  <1>4. S # {} /\ S \in SUBSET (DOMAIN st.subs)
    BY <1>3 DEF Running, SubsOf
  <1>5. Owner(st, c) = st.subs[Least(S)]
    BY DEF Owner
  <1>6. S \in SUBSET Nat
    BY <1>2, <1>4
  <1> HIDE DEF S
  <1>7. Least(S) \in S
    BY <1>4, <1>6, LeastIn
  <1> QED
    BY <1>2, <1>4, <1>5, <1>7

LEMMA AdmitIs ==
  ASSUME NEW routes \in Seq(Routes), NEW S, NEW c \in Callers
  PROVE  Admit(routes, RouteOf(routes, S), c) \in Seq(Routes)
  <1> DEFINE route == RouteOf(routes, S)
             rou == Admit(routes, route, c)
             at == Least(route)
  <1>1. CASE route = {}
    BY <1>1 DEF Admit
  <1>2. CASE route # {}
    <2>1. route \in SUBSET Nat /\ route \subseteq DOMAIN routes
      BY DEF RouteOf
    <2>2. at \in DOMAIN routes
      <3> HIDE DEF route
      <3> QED
        BY <1>2, <2>1, LeastIn
    <2>3. rou = [routes EXCEPT ![at].readers = @ \cup {c}]
      BY <1>2 DEF Admit
    <2> HIDE DEF at, rou, route
    <2>4. routes[at] \in Routes
      BY <2>2
    <2> DEFINE n == [routes[at] EXCEPT !.readers = @ \cup {c}]
    <2>5. n \in Routes
      BY <2>4 DEF Routes
    <2>6. rou = [routes EXCEPT ![at] = n]
      BY <2>2, <2>3
    <2> HIDE DEF n
    <2>7. rou \in Seq(Routes)
      BY <2>2, <2>5, <2>6
    <2> QED
      BY <2>7 DEF rou, route
  <1> QED
    BY <1>1, <1>2

LEMMA JoinsStep ==
  ASSUME NEW st \in State, Finite(st), st.up, NEW c \in BarCallers, Running(st, c) # {}
  PROVE  BarStep(st, SendRealtimeBarSubscribe(st, c))
  <1> DEFINE owner == Owner(st, c)
             route == RouteOf(st.routes, owner.c)
             q == FreshName(st)
             sub == Append(st.subs, [q |-> q, c |-> c, t |-> owner.t])
             rou == Admit(st.routes, route, c)
             res == Append(NotAsked(st.resub, {c}), c)
             d == [st EXCEPT !.resub = res]
             e == [d EXCEPT !.routes = rou, !.subs = sub]
  <1>d. d.routes = st.routes /\ d.subs = st.subs /\ d.resub = res
    <2> HIDE DEF res
    <2> QED
      BY DEF State
  <1>1. SendRealtimeBarSubscribe(st, c) = e
    <2>1. SendRealtimeBarSubscribe(st, c) =
            [d EXCEPT !.routes = Admit(d.routes, route, c),
                      !.subs = Append(d.subs, [q |-> q, c |-> c, t |-> owner.t])]
      BY DEF SendRealtimeBarSubscribe
    <2> HIDE DEF d, owner, q, route
    <2> QED
      BY <1>d, <2>1
  <1>2. /\ st.subs \in Seq(BarRecords) /\ st.routes \in Seq(Routes) /\ st.resub \in Seq(BarCallers)
    BY DEF State
  <1>5. owner \in BarRecords
    BY OwnerIs
  <1>6. owner.t \in Nat
    BY <1>5 DEF BarRecords
  <1> HIDE DEF owner
  <1>7. FreshIn(st, q) /\ q \in Nat
    BY FreshNames DEF FreshIn
  <1> HIDE DEF q
  <1> DEFINE r == [q |-> q, c |-> c, t |-> owner.t]
  <1>8. r \in BarRecords /\ r.q = q
    BY <1>6, <1>7 DEF BarRecords
  <1> HIDE DEF r
  <1>9. sub \in Seq(BarRecords) /\ Grows(st.subs, sub, r)
    BY <1>2, <1>8, AppendGrows DEF r
  <1>10. rou \in Seq(Routes)
    BY <1>2, AdmitIs, BarCallersAre
  <1>11. res \in Seq(BarCallers)
    <2>1. NotAsked(st.resub, {c}) \in Seq(BarCallers)
      BY <1>2, NotAskedKeeps
    <2> QED
      BY <2>1
  <1> HIDE DEF sub, rou, res, route
  <1>12. e \in State
    <2>1. d \in State
      BY <1>11 DEF State
    <2> HIDE DEF d
    <2> QED
      BY <1>9, <1>10, <2>1 DEF State
  <1>13. /\ SameTicks(st, e) /\ SameReading(st, e) /\ e.up = st.up /\ e.twice = st.twice
         /\ e.out = st.out /\ e.subs = sub /\ e.unnumbered = st.unnumbered /\ e.batch = st.batch
    BY DEF State, SameTicks, SameReading
  <1> HIDE DEF e
  <1>14. NamesGrow(st, e)
    <2> SUFFICES ASSUME NEW n \in BarNames(e) PROVE n \in BarNames(st) \/ n = q
      BY <1>7 DEF NamesGrow
    <2>1. CASE \E i \in DOMAIN sub : n = sub[i].q
      BY <1>8, <1>9, <2>1 DEF Grows, BarNames
    <2>2. CASE n \in {u.q : u \in st.unnumbered} \cup {b.q : b \in st.batch}
      BY <2>2 DEF BarNames
    <2> QED
      BY <1>13, <2>1, <2>2 DEF BarNames
  <1>15. Finite(e)
    BY <1>13 DEF Finite, SameTicks, SameReading
  <1> QED
    BY <1>1, <1>12, <1>13, <1>14, <1>15 DEF BarStep, Barred

-----------------------------------------------------------------------------
(* send_realtime_bar_subscribe asks for a stream. *)
AsksBars(st, e, c) ==
  /\ BarAsk(st, e, FreshName(st), Key(c))
  /\ e.subs = Append(st.subs, [q |-> FreshName(st), c |-> c, t |-> NoNumber])
  /\ e.resub = Append(NotAsked(st.resub, {c}), c)
  /\ e.routes = st.routes /\ e.unnumbered = st.unnumbered /\ e.batch = st.batch

LEMMA AsksStep ==
  ASSUME NEW st \in State, Finite(st), st.up, NEW c \in BarCallers, Running(st, c) = {}
  PROVE  AsksBars(st, SendRealtimeBarSubscribe(st, c), c)
  <1> DEFINE q == FreshName(st)
             r == [q |-> q, c |-> c, t |-> NoNumber]
             sub == Append(st.subs, r)
             res == Append(NotAsked(st.resub, {c}), c)
             k == [st EXCEPT !.resub = res]
             d == [k EXCEPT !.subs = sub]
             e == Write(d, AskMsg(q, Key(c)))
  <1>k. k.subs = st.subs
    <2> HIDE DEF res
    <2> QED
      BY DEF State
  <1>1. SendRealtimeBarSubscribe(st, c) = e
    <2>1. SendRealtimeBarSubscribe(st, c) =
            Write([k EXCEPT !.subs = Append(k.subs, r)], AskMsg(q, Key(c)))
      BY DEF SendRealtimeBarSubscribe
    <2> HIDE DEF k, q, r
    <2> QED
      BY <1>k, <2>1
  <1>2. st.subs \in Seq(BarRecords) /\ st.resub \in Seq(BarCallers)
    BY DEF State
  <1>3. FreshIn(st, q) /\ q \in Nat
    BY FreshNames DEF FreshIn
  <1> HIDE DEF q
  <1>4. r \in BarRecords /\ r.q = q
    BY <1>3 DEF BarRecords, NoNumber
  <1> HIDE DEF r
  <1>5. sub \in Seq(BarRecords) /\ Grows(st.subs, sub, r)
    BY <1>2, <1>4, AppendGrows
  <1>6. res \in Seq(BarCallers)
    <2>1. NotAsked(st.resub, {c}) \in Seq(BarCallers)
      BY <1>2, NotAskedKeeps
    <2> QED
      BY <2>1
  <1> HIDE DEF sub, res
  <1>7. d \in State
    <2>1. k \in State
      BY <1>6 DEF State
    <2> HIDE DEF k
    <2> QED
      BY <1>5, <2>1 DEF State
  <1>8. /\ SameTicks(st, d) /\ SameReading(st, d) /\ d.up = st.up /\ d.twice = st.twice
        /\ d.out = st.out /\ d.subs = sub /\ d.unnumbered = st.unnumbered /\ d.batch = st.batch
        /\ d.resub = res /\ d.routes = st.routes
    BY DEF State, SameTicks, SameReading
  <1> HIDE DEF d
  <1>9. NamesGrow(st, d)
    <2> SUFFICES ASSUME NEW n \in BarNames(d) PROVE n \in BarNames(st) \/ n = q
      BY <1>3 DEF NamesGrow
    <2>1. CASE \E i \in DOMAIN sub : n = sub[i].q
      <3>1. \A i \in DOMAIN sub : (i \in DOMAIN st.subs /\ sub[i] = st.subs[i]) \/ sub[i] = r
        BY <1>5 DEF Grows
      <3> QED
        BY <1>4, <2>1, <3>1 DEF BarNames
    <2>2. CASE n \in {u.q : u \in st.unnumbered} \cup {b.q : b \in st.batch}
      BY <2>2 DEF BarNames
    <2> QED
      BY <1>8, <2>1, <2>2 DEF BarNames
  <1>10. Finite(d)
    BY <1>8 DEF Finite, SameTicks, SameReading
  <1>11. BarStep(st, d)
    BY <1>7, <1>8, <1>9, <1>10 DEF BarStep, Barred
  <1>12. Key(c) \in Keys /\ Key(c).tick = FALSE
    BY KeyIs, BarCallersAre DEF IsTick
  <1>13. BarAsk(st, e, q, Key(c)) /\ SameBars(d, e)
    BY <1>3, <1>8, <1>11, <1>12, ThenAsks
  <1> HIDE DEF e
  <1> QED
    BY <1>1, <1>8, <1>13 DEF AsksBars, SameBars, q, sub, r, res

(* A request kept up to date asks for its batch. *)
BatchAsked(st, c) ==
  Write([st EXCEPT !.batch = @ \cup {[q |-> FreshName(st), c |-> c]}], AskMsg(FreshName(st), Key(c)))

AsksBatch(st, e, c) ==
  /\ BarAsk(st, e, FreshName(st), Key(c))
  /\ e.batch = st.batch \cup {[q |-> FreshName(st), c |-> c]}
  /\ e.subs = st.subs /\ e.resub = st.resub
  /\ e.routes = st.routes /\ e.unnumbered = st.unnumbered

LEMMA KeptIs ==
  ASSUME NEW st, NEW c
  PROVE  SendKept(st, c) = SendRealtimeBarSubscribe(BatchAsked(st, c), c)
  BY DEF SendKept, BatchAsked

LEMMA BatchStep ==
  ASSUME NEW st \in State, Finite(st), st.up, NEW c \in BarCallers
  PROVE  AsksBatch(st, BatchAsked(st, c), c)
  <1> DEFINE q == FreshName(st)
             b == [q |-> q, c |-> c]
             B == [q : Nat, c : BarCallers]
             bat == st.batch \cup {b}
             d == [st EXCEPT !.batch = bat]
             e == Write(d, AskMsg(q, Key(c)))
  <1>1. BatchAsked(st, c) = e
    BY DEF BatchAsked
  <1>3. FreshIn(st, q) /\ q \in Nat
    BY FreshNames DEF FreshIn
  <1> HIDE DEF q
  <1>4. b \in B /\ b.q = q
    BY <1>3
  <1> HIDE DEF b
  <1>5. st.batch \in SUBSET B
    BY DEF State
  <1>6. bat \in SUBSET B /\ IsFiniteSet(bat)
    <2>1. IsFiniteSet(st.batch)
      BY DEF Finite
    <2>2. IsFiniteSet(bat)
      BY <2>1, FS_AddElement
    <2> QED
      BY <1>4, <1>5, <2>2
  <1> HIDE DEF bat
  <1>7. d \in State
    BY <1>6 DEF State
  <1>8. /\ SameTicks(st, d) /\ SameReading(st, d) /\ d.up = st.up /\ d.twice = st.twice
        /\ d.out = st.out /\ d.subs = st.subs /\ d.unnumbered = st.unnumbered /\ d.batch = bat
        /\ d.resub = st.resub /\ d.routes = st.routes
    BY DEF State, SameTicks, SameReading
  <1> HIDE DEF d
  <1>9. NamesGrow(st, d)
    <2> SUFFICES ASSUME NEW n \in BarNames(d) PROVE n \in BarNames(st) \/ n = q
      BY <1>3 DEF NamesGrow
    <2>1. CASE n \in {x.q : x \in bat}
      BY <1>4, <2>1 DEF BarNames, bat
    <2>2. CASE n \in {u.q : u \in st.unnumbered} \cup {st.subs[i].q : i \in DOMAIN st.subs}
      BY <2>2 DEF BarNames
    <2> QED
      BY <1>8, <2>1, <2>2 DEF BarNames
  <1>10. Finite(d)
    BY <1>6, <1>8 DEF Finite, SameTicks, SameReading
  <1>11. BarStep(st, d)
    BY <1>7, <1>8, <1>9, <1>10 DEF BarStep, Barred
  <1>12. Key(c) \in Keys /\ Key(c).tick = FALSE
    BY KeyIs, BarCallersAre DEF IsTick
  <1>13. BarAsk(st, e, q, Key(c)) /\ SameBars(d, e)
    BY <1>3, <1>8, <1>11, <1>12, ThenAsks
  <1> HIDE DEF e
  <1> QED
    BY <1>1, <1>8, <1>13 DEF AsksBatch, SameBars, q, bat, b

-----------------------------------------------------------------------------
(* A change of the tables under names the bars go by already. *)
LEMMA TablesStep ==
  ASSUME NEW st, NEW e, NEW sub, NEW rou, NEW res, NEW unn, NEW bat,
         BarTables(st, e, sub, rou, res, unn, bat), Finite(st), IsFiniteSet(unn),
         bat \subseteq st.batch,
         \A i \in DOMAIN sub : sub[i].q \in BarNames(st),
         \A u \in unn : u.q \in BarNames(st)
  PROVE  BarStep(st, e)
  <1>1. IsFiniteSet(bat)
    BY FS_Subset DEF Finite
  <1>2. /\ Barred(st, e) /\ e.out = st.out /\ SameTicks(st, e) /\ SameReading(st, e)
        /\ e.subs = sub /\ e.unnumbered = unn /\ e.batch = bat
    BY DEF BarTables, Barred
  <1>3. Finite(e)
    BY <1>1, <1>2 DEF Finite, SameTicks, SameReading
  <1>4. NamesGrow(st, e)
    BY <1>2 DEF NamesGrow, BarNames
  <1> QED
    BY <1>2, <1>3, <1>4 DEF BarStep

LEMMA BarNamesAre ==
  ASSUME NEW st
  PROVE  /\ \A i \in DOMAIN st.subs : st.subs[i].q \in BarNames(st)
         /\ \A u \in st.unnumbered : u.q \in BarNames(st)
         /\ \A b \in st.batch : b.q \in BarNames(st)
  BY DEF BarNames

LEMMA NotOfNames ==
  ASSUME NEW st \in State, NEW S
  PROVE  /\ NotOf(st.subs, S) \in Seq(BarRecords)
         /\ \A i \in DOMAIN NotOf(st.subs, S) : NotOf(st.subs, S)[i].q \in BarNames(st)
  <1>1. st.subs \in Seq(BarRecords)
    BY DEF State
  <1>2. NotOf(st.subs, S) \in Seq(BarRecords)
    BY <1>1, NotOfKeeps
  <1>3. \A i \in DOMAIN NotOf(st.subs, S) : \E j \in DOMAIN st.subs : NotOf(st.subs, S)[i] = st.subs[j]
    BY <1>1, NotOfFrom
  <1> QED
    BY <1>2, <1>3, BarNamesAre

(* The tables of the bars, one change after another. *)
LEMMA TablesAreNow ==
  ASSUME NEW st \in State
  PROVE  BarTables(st, st, st.subs, st.routes, st.resub, st.unnumbered, st.batch)
  BY DEF BarTables, Barred, SameTicks, SameReading

LEMMA SetSubs ==
  ASSUME NEW st, NEW d, NEW sub, NEW rou, NEW res, NEW unn, NEW bat,
         BarTables(st, d, sub, rou, res, unn, bat), NEW w \in Seq(BarRecords)
  PROVE  BarTables(st, [d EXCEPT !.subs = w], w, rou, res, unn, bat)
  <1> DEFINE e == [d EXCEPT !.subs = w]
  <1>1. d \in State
    BY DEF BarTables, Barred
  <1>2. e \in State
    BY <1>1 DEF State
  <1>3. /\ SameTicks(d, e) /\ SameReading(d, e) /\ e.up = d.up /\ e.twice = d.twice /\ e.out = d.out
    BY <1>1 DEF State, SameTicks, SameReading
  <1>4. e.subs = w /\ e.routes = d.routes /\ e.resub = d.resub /\ e.unnumbered = d.unnumbered /\ e.batch = d.batch
    BY <1>1 DEF State
  <1> HIDE DEF e
  <1>5. BarTables(st, e, w, rou, res, unn, bat)
    BY <1>2, <1>3, <1>4 DEF BarTables, Barred, SameTicks, SameReading
  <1> QED
    BY <1>5 DEF e

LEMMA SetRoutes ==
  ASSUME NEW st, NEW d, NEW sub, NEW rou, NEW res, NEW unn, NEW bat,
         BarTables(st, d, sub, rou, res, unn, bat), NEW w \in Seq(Routes)
  PROVE  BarTables(st, [d EXCEPT !.routes = w], sub, w, res, unn, bat)
  <1> DEFINE e == [d EXCEPT !.routes = w]
  <1>1. d \in State
    BY DEF BarTables, Barred
  <1>2. e \in State
    BY <1>1 DEF State
  <1>3. /\ SameTicks(d, e) /\ SameReading(d, e) /\ e.up = d.up /\ e.twice = d.twice /\ e.out = d.out
    BY <1>1 DEF State, SameTicks, SameReading
  <1>4. e.routes = w /\ e.subs = d.subs /\ e.resub = d.resub /\ e.unnumbered = d.unnumbered /\ e.batch = d.batch
    BY <1>1 DEF State
  <1> HIDE DEF e
  <1>5. BarTables(st, e, sub, w, res, unn, bat)
    BY <1>2, <1>3, <1>4 DEF BarTables, Barred, SameTicks, SameReading
  <1> QED
    BY <1>5 DEF e

LEMMA SetResub ==
  ASSUME NEW st, NEW d, NEW sub, NEW rou, NEW res, NEW unn, NEW bat,
         BarTables(st, d, sub, rou, res, unn, bat), NEW w \in Seq(BarCallers)
  PROVE  BarTables(st, [d EXCEPT !.resub = w], sub, rou, w, unn, bat)
  <1> DEFINE e == [d EXCEPT !.resub = w]
  <1>1. d \in State
    BY DEF BarTables, Barred
  <1>2. e \in State
    BY <1>1 DEF State
  <1>3. /\ SameTicks(d, e) /\ SameReading(d, e) /\ e.up = d.up /\ e.twice = d.twice /\ e.out = d.out
    BY <1>1 DEF State, SameTicks, SameReading
  <1>4. e.resub = w /\ e.subs = d.subs /\ e.routes = d.routes /\ e.unnumbered = d.unnumbered /\ e.batch = d.batch
    BY <1>1 DEF State
  <1> HIDE DEF e
  <1>5. BarTables(st, e, sub, rou, w, unn, bat)
    BY <1>2, <1>3, <1>4 DEF BarTables, Barred, SameTicks, SameReading
  <1> QED
    BY <1>5 DEF e

LEMMA SetLate ==
  ASSUME NEW st, NEW d, NEW sub, NEW rou, NEW res, NEW unn, NEW bat,
         BarTables(st, d, sub, rou, res, unn, bat), NEW w \in SUBSET Named
  PROVE  BarTables(st, [d EXCEPT !.unnumbered = w], sub, rou, res, w, bat)
  <1> DEFINE e == [d EXCEPT !.unnumbered = w]
  <1>1. d \in State
    BY DEF BarTables, Barred
  <1>2. e \in State
    BY <1>1 DEF State
  <1>3. /\ SameTicks(d, e) /\ SameReading(d, e) /\ e.up = d.up /\ e.twice = d.twice /\ e.out = d.out
    BY <1>1 DEF State, SameTicks, SameReading
  <1>4. e.unnumbered = w /\ e.subs = d.subs /\ e.routes = d.routes /\ e.resub = d.resub /\ e.batch = d.batch
    BY <1>1 DEF State
  <1> HIDE DEF e
  <1>5. BarTables(st, e, sub, rou, res, w, bat)
    BY <1>2, <1>3, <1>4 DEF BarTables, Barred, SameTicks, SameReading
  <1> QED
    BY <1>5 DEF e

LEMMA SetBatch ==
  ASSUME NEW st, NEW d, NEW sub, NEW rou, NEW res, NEW unn, NEW bat,
         BarTables(st, d, sub, rou, res, unn, bat), NEW w \in SUBSET [q : Nat, c : BarCallers]
  PROVE  BarTables(st, [d EXCEPT !.batch = w], sub, rou, res, unn, w)
  <1> DEFINE e == [d EXCEPT !.batch = w]
  <1>1. d \in State
    BY DEF BarTables, Barred
  <1>2. e \in State
    BY <1>1 DEF State
  <1>3. /\ SameTicks(d, e) /\ SameReading(d, e) /\ e.up = d.up /\ e.twice = d.twice /\ e.out = d.out
    BY <1>1 DEF State, SameTicks, SameReading
  <1>4. e.batch = w /\ e.subs = d.subs /\ e.routes = d.routes /\ e.resub = d.resub /\ e.unnumbered = d.unnumbered
    BY <1>1 DEF State
  <1> HIDE DEF e
  <1>5. BarTables(st, e, sub, rou, res, unn, w)
    BY <1>2, <1>3, <1>4 DEF BarTables, Barred, SameTicks, SameReading
  <1> QED
    BY <1>5 DEF e

-----------------------------------------------------------------------------
(* The parts of withdraw_bar_stream. *)
Unasked(st, c) == [st EXCEPT !.resub = NotAsked(st.resub, {c})]
Unsubbed(st, c) == [Unasked(st, c) EXCEPT !.subs = NotOf(st.subs, {c})]
Ungone(st, c) == st.subs[Least(SubsOf(st, c))]
RouteAt(st, c) == Least(RouteOf(st.routes, c))
Unrouted(st, c) == [Unsubbed(st, c) EXCEPT !.routes = Vacated(st.routes, RouteAt(st, c), c)]

Withdrawn(st, e, c) ==
  /\ SubsOf(st, c) = {} => e = Unasked(st, c)
  /\ SubsOf(st, c) # {} /\ RouteOf(st.routes, c) # {} =>
       e = IF st.routes[RouteAt(st, c)].readers = {c} /\ st.routes[RouteAt(st, c)].t # NoNumber
             THEN Write(Unrouted(st, c), CancelMsg(FALSE, st.routes[RouteAt(st, c)].t))
             ELSE Unrouted(st, c)
  /\ SubsOf(st, c) # {} /\ RouteOf(st.routes, c) = {} /\ Ungone(st, c).t = NoNumber =>
       e = IF \E k \in DOMAIN st.resub : st.resub[k] = c
             THEN [Unsubbed(st, c) EXCEPT
                     !.unnumbered = st.unnumbered \cup {[q |-> Ungone(st, c).q, key |-> Key(c)]}]
             ELSE Unsubbed(st, c)
  /\ SubsOf(st, c) # {} /\ RouteOf(st.routes, c) = {} /\ Ungone(st, c).t # NoNumber =>
       e = Unsubbed(st, c) \/ e = Write(Unsubbed(st, c), CancelMsg(FALSE, Ungone(st, c).t))

LEMMA UnsubbedTables ==
  ASSUME NEW st \in State, NEW c
  PROVE  /\ BarTables(st, Unasked(st, c), st.subs, st.routes, NotAsked(st.resub, {c}),
                      st.unnumbered, st.batch)
         /\ BarTables(st, Unsubbed(st, c), NotOf(st.subs, {c}), st.routes, NotAsked(st.resub, {c}),
                      st.unnumbered, st.batch)
  <1>1. NotAsked(st.resub, {c}) \in Seq(BarCallers)
    <2>1. st.resub \in Seq(BarCallers)
      BY DEF State
    <2> QED
      BY <2>1, NotAskedKeeps
  <1>2. NotOf(st.subs, {c}) \in Seq(BarRecords)
    BY NotOfNames
  <1>3. BarTables(st, st, st.subs, st.routes, st.resub, st.unnumbered, st.batch)
    BY TablesAreNow
  <1>4. BarTables(st, Unasked(st, c), st.subs, st.routes, NotAsked(st.resub, {c}),
                  st.unnumbered, st.batch)
    BY <1>1, <1>3, SetResub DEF Unasked
  <1>5. BarTables(st, Unsubbed(st, c), NotOf(st.subs, {c}), st.routes, NotAsked(st.resub, {c}),
                  st.unnumbered, st.batch)
    BY <1>2, <1>4, SetSubs DEF Unsubbed
  <1> QED
    BY <1>4, <1>5

LEMMA WithdrawIs ==
  ASSUME NEW st \in State, NEW c \in Callers
  PROVE  Withdrawn(st, WithdrawBarStream(st, c), c)
  <1> DEFINE e == WithdrawBarStream(st, c)
             off == [st EXCEPT !.resub = NotAsked(@, {c})]
             gone == Ungone(st, c)
             left == [off EXCEPT !.subs = NotOf(@, {c})]
             at == RouteAt(st, c)
             rest == [left EXCEPT !.routes = Vacated(@, at, c)]
  <1>1. off = Unasked(st, c) /\ off.subs = st.subs
    BY DEF State, Unasked
  <1>2. left = [off EXCEPT !.subs = NotOf(off.subs, {c})]
    OBVIOUS
  <1>3. left = Unsubbed(st, c)
    <2> HIDE DEF off
    <2> QED
      BY <1>1, <1>2 DEF Unsubbed
  <1>4. left.routes = st.routes /\ left.unnumbered = st.unnumbered
    BY <1>3, UnsubbedTables DEF BarTables
  <1>5. rest = [left EXCEPT !.routes = Vacated(left.routes, at, c)]
    OBVIOUS
  <1>6. rest = Unrouted(st, c)
    <2> HIDE DEF left, at
    <2>1. rest = [left EXCEPT !.routes = Vacated(st.routes, at, c)]
      BY <1>4, <1>5
    <2> HIDE DEF rest
    <2> QED
      BY <1>3, <2>1 DEF Unrouted, at
  <1>7. SubsOf(st, c) = {} => e = off
    BY DEF WithdrawBarStream
  <1>8. SubsOf(st, c) # {} /\ RouteOf(st.routes, c) # {} =>
          e = IF st.routes[at].readers = {c} /\ st.routes[at].t # NoNumber
                THEN Write(rest, CancelMsg(FALSE, st.routes[at].t)) ELSE rest
    BY DEF WithdrawBarStream, RouteAt
  <1>9. SubsOf(st, c) # {} /\ RouteOf(st.routes, c) = {} /\ gone.t = NoNumber =>
          e = IF \E k \in DOMAIN st.resub : st.resub[k] = c
                THEN [left EXCEPT !.unnumbered = left.unnumbered \cup {[q |-> gone.q, key |-> Key(c)]}]
                ELSE left
    BY DEF WithdrawBarStream, Ungone
  <1>10. SubsOf(st, c) # {} /\ RouteOf(st.routes, c) = {} /\ gone.t # NoNumber =>
          e = left \/ e = Write(left, CancelMsg(FALSE, gone.t))
    BY DEF WithdrawBarStream, Ungone
  <1> HIDE DEF e, off, left, rest, at, gone
  <1>11. Withdrawn(st, e, c)
    BY <1>1, <1>3, <1>4, <1>6, <1>7, <1>8, <1>9, <1>10 DEF Withdrawn, at, gone
  <1> QED
    BY <1>11 DEF e

-----------------------------------------------------------------------------
LEMMA LeastOf ==
  ASSUME NEW S, NEW u \in Seq(S), NEW R \in SUBSET (DOMAIN u), R # {}
  PROVE  Least(R) \in R /\ Least(R) \in DOMAIN u /\ u[Least(R)] \in S
  <1>1. R \in SUBSET Nat
    OBVIOUS
  <1>2. Least(R) \in R
    BY <1>1, LeastIn
  <1> QED
    BY <1>2

LEMMA RouteAtIs ==
  ASSUME NEW st \in State, NEW c, RouteOf(st.routes, c) # {}
  PROVE  /\ RouteAt(st, c) \in DOMAIN st.routes /\ c \in st.routes[RouteAt(st, c)].readers
         /\ st.routes[RouteAt(st, c)] \in Routes /\ st.routes[RouteAt(st, c)].t \in Nat
  <1> DEFINE R == RouteOf(st.routes, c)
  <1>1. st.routes \in Seq(Routes)
    BY DEF State
  <1>2. R \in SUBSET (DOMAIN st.routes) /\ R # {}
    BY DEF RouteOf
  <1>3. \A i \in R : c \in st.routes[i].readers
    BY DEF RouteOf
  <1>5. RouteAt(st, c) = Least(R)
    BY DEF RouteAt
  <1> HIDE DEF R
  <1>4. Least(R) \in R /\ Least(R) \in DOMAIN st.routes /\ st.routes[Least(R)] \in Routes
    BY <1>1, <1>2, LeastOf
  <1> QED
    BY <1>3, <1>4, <1>5 DEF Routes

LEMMA VacatedTyped ==
  ASSUME NEW routes \in Seq(Routes), NEW at \in DOMAIN routes, NEW c, c \in routes[at].readers
  PROVE  Vacated(routes, at, c) \in Seq(Routes)
  <1> DEFINE w == Vacated(routes, at, c)
  <1>1. routes[at] \in Routes
    OBVIOUS
  <1>3. CASE routes[at].readers = {c}
    BY <1>3, DropKeeps DEF Vacated
  <1>4. CASE routes[at].readers # {c}
    <2> DEFINE n == [routes[at] EXCEPT !.readers = @ \ {c}]
    <2>1. n \in Routes
      BY <1>1, <1>4 DEF Routes
    <2>2. w = [routes EXCEPT ![at] = n]
      BY <1>4 DEF Vacated
    <2> HIDE DEF n, w
    <2>3. w \in Seq(Routes)
      BY <2>1, <2>2
    <2> QED
      BY <2>3 DEF w
  <1> QED
    BY <1>3, <1>4

LEMMA VacatedIs ==
  ASSUME NEW st \in State, NEW c, RouteOf(st.routes, c) # {}
  PROVE  Vacated(st.routes, RouteAt(st, c), c) \in Seq(Routes)
  <1>1. st.routes \in Seq(Routes)
    BY DEF State
  <1>2. RouteAt(st, c) \in DOMAIN st.routes /\ c \in st.routes[RouteAt(st, c)].readers
    BY RouteAtIs
  <1> QED
    BY <1>1, <1>2, VacatedTyped

LEMMA UngoneIs ==
  ASSUME NEW st \in State, NEW c, SubsOf(st, c) # {}
  PROVE  /\ Least(SubsOf(st, c)) \in DOMAIN st.subs
         /\ Ungone(st, c) \in BarRecords /\ Ungone(st, c).c = c
         /\ Ungone(st, c).q \in BarNames(st) /\ Ungone(st, c).t \in Nat /\ Ungone(st, c).q \in Nat
  <1> DEFINE R == SubsOf(st, c)
  <1>1. st.subs \in Seq(BarRecords)
    BY DEF State
  <1>2. R \in SUBSET (DOMAIN st.subs) /\ R # {}
    BY DEF SubsOf
  <1>3. \A i \in R : st.subs[i].c = c
    BY DEF SubsOf
  <1>5. Ungone(st, c) = st.subs[Least(R)]
    BY DEF Ungone
  <1> HIDE DEF R
  <1>4. Least(R) \in R /\ Least(R) \in DOMAIN st.subs /\ st.subs[Least(R)] \in BarRecords
    BY <1>1, <1>2, LeastOf
  <1>7. Ungone(st, c).q \in BarNames(st)
    BY <1>4, <1>5, BarNamesAre
  <1> QED
    BY <1>3, <1>4, <1>5, <1>7 DEF BarRecords, R

LEMMA WithdrawStep ==
  ASSUME NEW st \in State, Finite(st), NEW c \in Callers
  PROVE  BarStep(st, WithdrawBarStream(st, c))
  <1> DEFINE e == WithdrawBarStream(st, c)
             res == NotAsked(st.resub, {c})
             sub == NotOf(st.subs, {c})
             unn == st.unnumbered
             bat == st.batch
  <1>1. Withdrawn(st, e, c)
    BY WithdrawIs
  <1>2. /\ BarTables(st, Unasked(st, c), st.subs, st.routes, res, unn, bat)
        /\ BarTables(st, Unsubbed(st, c), sub, st.routes, res, unn, bat)
    BY UnsubbedTables
  <1>3. /\ \A i \in DOMAIN sub : sub[i].q \in BarNames(st)
        /\ \A i \in DOMAIN st.subs : st.subs[i].q \in BarNames(st)
        /\ \A u \in unn : u.q \in BarNames(st)
    BY NotOfNames, BarNamesAre
  <1>4. IsFiniteSet(unn) /\ bat \subseteq st.batch /\ unn \in SUBSET Named
    BY DEF Finite, State
  <1> HIDE DEF e, res, sub, unn, bat
  <1>5. BarStep(st, Unasked(st, c))
    BY <1>2, <1>3, <1>4, TablesStep
  <1>6. BarStep(st, Unsubbed(st, c)) /\ Unsubbed(st, c).out = st.out
    BY <1>2, <1>3, <1>4, TablesStep DEF BarTables
  <1>7. CASE SubsOf(st, c) = {}
    BY <1>1, <1>5, <1>7 DEF Withdrawn, e
  <1>8. CASE SubsOf(st, c) # {} /\ RouteOf(st.routes, c) # {}
    <2> DEFINE rou == Vacated(st.routes, RouteAt(st, c), c)
    <2>1. rou \in Seq(Routes)
      BY <1>8, VacatedIs
    <2> HIDE DEF rou
    <2>2. BarTables(st, Unrouted(st, c), sub, rou, res, unn, bat)
      BY <1>2, <2>1, SetRoutes DEF Unrouted, rou
    <2>3. BarStep(st, Unrouted(st, c)) /\ Unrouted(st, c).out = st.out
      BY <1>3, <1>4, <2>2, TablesStep DEF BarTables
    <2>4. st.routes[RouteAt(st, c)].t \in Nat
      BY <1>8, RouteAtIs
    <2>5. BarStep(st, Write(Unrouted(st, c), CancelMsg(FALSE, st.routes[RouteAt(st, c)].t)))
      BY <2>3, <2>4, ThenWithdraws
    <2> QED
      BY <1>1, <1>8, <2>3, <2>5 DEF Withdrawn, e
  <1>9. CASE SubsOf(st, c) # {} /\ RouteOf(st.routes, c) = {} /\ Ungone(st, c).t = NoNumber
    <2> DEFINE x == [q |-> Ungone(st, c).q, key |-> Key(c)]
               new == unn \cup {x}
               d == [Unsubbed(st, c) EXCEPT !.unnumbered = new]
    <2>1. x \in Named /\ x.q \in BarNames(st)
      BY <1>9, UngoneIs, KeyIs DEF Named
    <2> HIDE DEF x
    <2>2. new \in SUBSET Named /\ IsFiniteSet(new) /\ \A u \in new : u.q \in BarNames(st)
      BY <1>3, <1>4, <2>1, FS_AddElement
    <2> HIDE DEF new
    <2>3. BarTables(st, d, sub, st.routes, res, new, bat)
      BY <1>2, <2>2, SetLate
    <2> HIDE DEF d
    <2>4. BarStep(st, d)
      BY <1>3, <1>4, <2>2, <2>3, TablesStep
    <2>5. e = d \/ e = Unsubbed(st, c)
      BY <1>1, <1>9 DEF Withdrawn, d, new, x, unn
    <2> QED
      BY <1>6, <2>4, <2>5 DEF e
  <1>10. CASE SubsOf(st, c) # {} /\ RouteOf(st.routes, c) = {} /\ Ungone(st, c).t # NoNumber
    <2>1. Ungone(st, c).t \in Nat
      BY <1>10, UngoneIs
    <2>2. BarStep(st, Write(Unsubbed(st, c), CancelMsg(FALSE, Ungone(st, c).t)))
      BY <1>6, <2>1, ThenWithdraws
    <2> QED
      BY <1>1, <1>6, <1>10, <2>2 DEF Withdrawn, e
  <1> QED
    BY <1>7, <1>8, <1>9, <1>10

(* A request kept up to date loses its batch. *)
Unbatched(st, c) == [st EXCEPT !.batch = {b \in st.batch : b.c # c}]

LEMMA CancelIs ==
  ASSUME NEW st, NEW c
  PROVE  CancelBars(st, c) = WithdrawBarStream(Unbatched(st, c), c)
  BY DEF CancelBars, Unbatched

LEMMA UnbatchedStep ==
  ASSUME NEW st \in State, Finite(st), NEW c
  PROVE  /\ BarTables(st, Unbatched(st, c), st.subs, st.routes, st.resub, st.unnumbered,
                      {b \in st.batch : b.c # c})
         /\ BarStep(st, Unbatched(st, c))
  <1> DEFINE bat == {b \in st.batch : b.c # c}
  <1>1. bat \in SUBSET [q : Nat, c : BarCallers] /\ bat \subseteq st.batch
    BY DEF State
  <1> HIDE DEF bat
  <1>2. BarTables(st, st, st.subs, st.routes, st.resub, st.unnumbered, st.batch)
    BY TablesAreNow
  <1>3. BarTables(st, Unbatched(st, c), st.subs, st.routes, st.resub, st.unnumbered, bat)
    BY <1>1, <1>2, SetBatch DEF Unbatched, bat
  <1>4. IsFiniteSet(st.unnumbered)
    BY DEF Finite
  <1>5. BarStep(st, Unbatched(st, c))
    BY <1>1, <1>3, <1>4, TablesStep, BarNamesAre
  <1> QED
    BY <1>3, <1>5 DEF bat

LEMMA CancelBarsCommon ==
  ASSUME NEW st, Common(st), NEW c \in Callers
  PROVE  Common(CancelBars(st, c)) /\ Common(Unbatched(st, c))
  <1>1. st \in State /\ Finite(st)
    BY DEF Common
  <1>2. Common(Unbatched(st, c))
    BY <1>1, UnbatchedStep, BarStepKeeps
  <1>3. Unbatched(st, c) \in State /\ Finite(Unbatched(st, c))
    BY <1>2 DEF Common
  <1>4. Common(WithdrawBarStream(Unbatched(st, c), c))
    BY <1>2, <1>3, WithdrawStep, BarStepKeeps
  <1> QED
    BY <1>2, <1>4, CancelIs

LEMMA SubscribeBarsCommon ==
  ASSUME NEW st, Common(st), st.up, NEW c \in BarCallers
  PROVE  Common(SendRealtimeBarSubscribe(st, c))
  <1>1. st \in State /\ Finite(st)
    BY DEF Common
  <1>2. CASE Running(st, c) # {}
    BY <1>1, <1>2, JoinsStep, BarStepKeeps
  <1>3. CASE Running(st, c) = {}
    BY <1>1, <1>3, AsksStep, BarAskKeeps DEF AsksBars
  <1> QED
    BY <1>2, <1>3

LEMMA SendKeptCommon ==
  ASSUME NEW st, Common(st), st.up, NEW c \in BarCallers
  PROVE  Common(SendKept(st, c)) /\ Common(BatchAsked(st, c)) /\ BatchAsked(st, c).up
  <1>1. st \in State /\ Finite(st)
    BY DEF Common
  <1>2. AsksBatch(st, BatchAsked(st, c), c)
    BY <1>1, BatchStep
  <1>3. Common(BatchAsked(st, c))
    BY <1>2, BarAskKeeps DEF AsksBatch
  <1>4. BatchAsked(st, c).up
    BY <1>2 DEF AsksBatch, BarAsk, Barred
  <1> QED
    BY <1>3, <1>4, KeptIs, SubscribeBarsCommon

-----------------------------------------------------------------------------
LEMMA SeqByPoints ==
  ASSUME NEW S, NEW n \in Nat, NEW w, w = [i \in 1 .. n |-> w[i]], \A i \in 1 .. n : w[i] \in S
  PROVE  w \in Seq(S)
  <1>1. w \in [1 .. n -> S]
    OBVIOUS
  <1> QED
    BY <1>1

LEMMA FirstIsIn ==
  ASSUME NEW S, NEW u \in Seq(S), NEW R \in SUBSET (DOMAIN u)
  PROVE  FirstOf(R) \subseteq R
  <1>1. R # {} => Least(R) \in R
    BY LeastOf
  <1> QED
    BY <1>1 DEF FirstOf

LEMMA AlternateIs ==
  ASSUME NEW routes \in Seq(Routes), NEW key, NEW t
  PROVE  /\ Current(routes, t) \subseteq {i \in DOMAIN routes : routes[i].active /\ routes[i].t = t}
         /\ Compatible(routes, key, t) \subseteq Current(routes, t)
         /\ Alternate(routes, key, t) \subseteq
              {i \in DOMAIN routes : routes[i].active /\ Carries(routes[i], key)}
  <1> DEFINE A == {i \in DOMAIN routes : routes[i].active /\ routes[i].t = t}
             B == {i \in DOMAIN routes : routes[i].active /\ Carries(routes[i], key)}
  <1>1. A \in SUBSET (DOMAIN routes) /\ B \in SUBSET (DOMAIN routes)
    OBVIOUS
  <1>2. Current(routes, t) = FirstOf(A) /\ Alternate(routes, key, t) \subseteq FirstOf(B)
    BY DEF Current, Alternate
  <1>3. Compatible(routes, key, t) \subseteq Current(routes, t)
    BY DEF Compatible
  <1> HIDE DEF A, B
  <1>4. FirstOf(A) \subseteq A /\ FirstOf(B) \subseteq B
    BY <1>1, FirstIsIn
  <1>5. Current(routes, t) \subseteq A /\ Alternate(routes, key, t) \subseteq B
    BY <1>2, <1>4
  <1> QED
    BY <1>3, <1>5 DEF A, B

LEMMA PlacementIs ==
  ASSUME NEW routes \in Seq(Routes), NEW key, NEW t, NEW unit
  PROVE  /\ Placement(routes, key, t, unit).target \subseteq DOMAIN routes
         /\ Placement(routes, key, t, unit).reset \subseteq DOMAIN routes
  <1>1. /\ Compatible(routes, key, t) \subseteq DOMAIN routes
        /\ Alternate(routes, key, t) \subseteq DOMAIN routes
    BY AlternateIs
  <1> QED
    BY <1>1 DEF Placement

LEMMA ClearedIs ==
  ASSUME NEW routes \in Seq(Routes), NEW place, NEW c
  PROVE  Cleared(routes, place, c) \in Seq(Routing) /\ DOMAIN Cleared(routes, place, c) = DOMAIN routes
  <1> DEFINE w == Cleared(routes, place, c)
  <1>1. DOMAIN w = DOMAIN routes
    BY DEF Cleared
  <1>2. ASSUME NEW i \in DOMAIN routes PROVE w[i] \in Routing
    <2>1. routes[i] \in Routes
      BY <1>2
    <2> DEFINE r == routes[i]
               a == (r.active /\ i \notin place.displaced \cup place.reset)
               n == IF i \in place.reset THEN NoNumber ELSE r.t
               x == r.readers \ {c}
    <2>2. w[i] = [r EXCEPT !.active = a, !.t = n, !.readers = x]
      BY <1>2 DEF Cleared
    <2>3. a \in BOOLEAN /\ n \in Nat /\ x \in SUBSET Callers
      BY <2>1 DEF Routes, NoNumber
    <2> HIDE DEF a, n, x
    <2> QED
      BY <2>1, <2>2, <2>3 DEF Routes, Routing
  <1>3. w = [i \in 1 .. Len(routes) |-> w[i]]
    BY DEF Cleared
  <1> HIDE DEF w
  <1>n. Len(routes) \in Nat /\ DOMAIN routes = 1 .. Len(routes)
    OBVIOUS
  <1>4. w \in Seq(Routing)
    BY <1>1, <1>2, <1>3, <1>n, SeqByPoints
  <1> QED
    BY <1>1, <1>4 DEF w

LEMMA EnteredIs ==
  ASSUME NEW route \in Routing, NEW key \in Keys, NEW c \in Callers, NEW t \in Nat
  PROVE  /\ Entered(route, key, c, t) \in Routing
         /\ Entered(route, key, c, t).readers = route.readers \cup {c}
  <1> DEFINE a == IF Carries(route, key) THEN route.contracts ELSE Append(route.contracts, key)
             x == route.readers \cup {c}
  <1>1. Entered(route, key, c, t) = [route EXCEPT !.contracts = a, !.readers = x, !.t = t, !.active = TRUE]
    BY DEF Entered
  <1>2. a \in Seq(Keys) /\ x \in SUBSET Callers
    BY DEF Routing
  <1> HIDE DEF a, x
  <1>3. /\ Entered(route, key, c, t) \in Routing
        /\ Entered(route, key, c, t).readers = x
    BY <1>1, <1>2 DEF Routing
  <1> QED
    BY <1>3 DEF x

(* The records after a renumbering: their names and callers stay. *)
Renumbered(u, w, readers, lost, t) ==
  /\ w \in Seq(BarRecords) /\ DOMAIN w = DOMAIN u
  /\ \A i \in DOMAIN u : w[i].q = u[i].q /\ w[i].c = u[i].c
  /\ \A i \in DOMAIN u : u[i].c \in readers => w[i].t = t
  /\ \A i \in DOMAIN u : u[i].c \notin readers /\ u[i].c \notin lost => w[i].t = u[i].t

LEMMA RenumberIs ==
  ASSUME NEW u \in Seq(BarRecords), NEW readers, NEW lost, NEW t \in Nat
  PROVE  Renumbered(u, Renumber(u, readers, lost, t), readers, lost, t)
  <1> DEFINE w == Renumber(u, readers, lost, t)
             n(i) == CASE u[i].c \in readers -> t
                       [] u[i].c \in lost \ readers -> NoNumber
                       [] OTHER -> u[i].t
  <1>1. DOMAIN w = DOMAIN u /\ \A i \in DOMAIN u : w[i] = [u[i] EXCEPT !.t = n(i)]
    BY DEF Renumber
  <1>2. \A i \in DOMAIN u : /\ n(i) \in Nat
                            /\ u[i].c \in readers => n(i) = t
                            /\ u[i].c \notin readers /\ u[i].c \notin lost => n(i) = u[i].t
    <2> SUFFICES ASSUME NEW i \in DOMAIN u
                 PROVE  /\ n(i) \in Nat
                        /\ u[i].c \in readers => n(i) = t
                        /\ u[i].c \notin readers /\ u[i].c \notin lost => n(i) = u[i].t
      OBVIOUS
    <2>1. u[i] \in BarRecords
      OBVIOUS
    <2>2. u[i].t \in Nat /\ NoNumber \in Nat
      BY <2>1 DEF BarRecords, NoNumber
    <2>3. CASE u[i].c \in readers
      BY <2>3
    <2>4. CASE u[i].c \notin readers /\ u[i].c \in lost
      BY <2>2, <2>4
    <2>5. CASE u[i].c \notin readers /\ u[i].c \notin lost
      BY <2>2, <2>5
    <2> QED
      BY <2>3, <2>4, <2>5
  <1>3. w = [i \in 1 .. Len(u) |-> w[i]]
    BY DEF Renumber
  <1> HIDE DEF w, n
  <1>4. ASSUME NEW i \in DOMAIN u
        PROVE  w[i] \in BarRecords /\ w[i].q = u[i].q /\ w[i].c = u[i].c /\ w[i].t = n(i)
    <2>1. u[i] \in BarRecords
      OBVIOUS
    <2> QED
      BY <1>1, <1>2, <2>1 DEF BarRecords
  <1>n. Len(u) \in Nat /\ DOMAIN u = 1 .. Len(u)
    OBVIOUS
  <1>5. w \in Seq(BarRecords)
    BY <1>1, <1>3, <1>4, <1>n, SeqByPoints
  <1>6. Renumbered(u, w, readers, lost, t)
    BY <1>1, <1>2, <1>4, <1>5 DEF Renumbered
  <1> QED
    BY <1>6 DEF w

-----------------------------------------------------------------------------
(* The parts of assign_bar_route, for the request of the caller c. *)
Place(st, c, t, unit) == Placement(st.routes, Key(c), t, unit)
OpenedFor(st, c, t, unit) ==
  IF Place(st, c, t, unit).target # {} THEN Cleared(st.routes, Place(st, c, t, unit), c)
  ELSE Append(Cleared(st.routes, Place(st, c, t, unit), c), NewRoute(t, unit))
PosFor(st, c, t, unit) ==
  IF Place(st, c, t, unit).target # {} THEN Least(Place(st, c, t, unit).target)
  ELSE Len(OpenedFor(st, c, t, unit))
EnteredBy(st, c, t, unit) ==
  Entered(OpenedFor(st, c, t, unit)[PosFor(st, c, t, unit)], Key(c), c, t)
LostBy(st, c, t, unit) == UNION {st.routes[i].readers : i \in Place(st, c, t, unit).reset}
SubsFor(st, c, t, unit) ==
  Renumber(st.subs, EnteredBy(st, c, t, unit).readers, LostBy(st, c, t, unit), t)
RoutesFor(st, c, t, unit) ==
  WithReaders([OpenedFor(st, c, t, unit) EXCEPT ![PosFor(st, c, t, unit)] = EnteredBy(st, c, t, unit)])
OldOf(st, c, t, unit) == {st.routes[i].t : i \in Place(st, c, t, unit).reset} \ {NoNumber}
AssignedTo(st, c, t, unit) ==
  [st EXCEPT !.subs = SubsFor(st, c, t, unit), !.routes = RoutesFor(st, c, t, unit)]

LEMMA AssignIs ==
  ASSUME NEW st, NEW at, NEW t, NEW unit, NEW c, c = st.subs[at].c
  PROVE  AssignBarRoute(st, at, t, unit) =
           IF OldOf(st, c, t, unit) = {} THEN AssignedTo(st, c, t, unit)
           ELSE Write(AssignedTo(st, c, t, unit), CancelMsg(FALSE, CHOOSE n \in OldOf(st, c, t, unit) : TRUE))
  BY DEF AssignBarRoute, Place, OpenedFor, PosFor, EnteredBy, LostBy, SubsFor, RoutesFor, OldOf,
         AssignedTo

LEMMA OpenedIs ==
  ASSUME NEW st \in State, NEW c, NEW t \in Nat, NEW unit \in load.units \cup {0}
  PROVE  /\ OpenedFor(st, c, t, unit) \in Seq(Routing)
         /\ PosFor(st, c, t, unit) \in DOMAIN OpenedFor(st, c, t, unit)
         /\ OpenedFor(st, c, t, unit)[PosFor(st, c, t, unit)] \in Routing
  <1> DEFINE place == Place(st, c, t, unit)
             cl == Cleared(st.routes, place, c)
             o == OpenedFor(st, c, t, unit)
             pos == PosFor(st, c, t, unit)
  <1>1. st.routes \in Seq(Routes)
    BY DEF State
  <1>2. place.target \subseteq DOMAIN st.routes
    BY <1>1, PlacementIs DEF Place
  <1>o. o = IF place.target # {} THEN cl ELSE Append(cl, NewRoute(t, unit))
    BY DEF OpenedFor
  <1>p. pos = IF place.target # {} THEN Least(place.target) ELSE Len(o)
    BY DEF PosFor
  <1> HIDE DEF place, o, pos
  <1>3. cl \in Seq(Routing) /\ DOMAIN cl = DOMAIN st.routes
    BY <1>1, ClearedIs
  <1> HIDE DEF cl
  <1>4. NewRoute(t, unit) \in Routing
    BY DEF NewRoute, Routing
  <1>5. CASE place.target # {}
    <2>1. Least(place.target) \in DOMAIN st.routes
      BY <1>1, <1>2, <1>5, LeastOf
    <2> QED
      BY <1>3, <1>5, <1>o, <1>p, <2>1 DEF o, pos
  <1>6. CASE place.target = {}
    <2>1. o = Append(cl, NewRoute(t, unit)) /\ pos = Len(o)
      BY <1>6, <1>o, <1>p
    <2>2. o \in Seq(Routing) /\ pos \in DOMAIN o
      BY <1>3, <1>4, <2>1
    <2> QED
      BY <2>2 DEF o, pos
  <1> QED
    BY <1>5, <1>6

LEMMA EnteredByIs ==
  ASSUME NEW st \in State, NEW c \in Callers, NEW t \in Nat, NEW unit \in load.units \cup {0}
  PROVE  /\ EnteredBy(st, c, t, unit) \in Routing
         /\ RoutesFor(st, c, t, unit) \in Seq(Routes)
         /\ Renumbered(st.subs, SubsFor(st, c, t, unit), EnteredBy(st, c, t, unit).readers,
                       LostBy(st, c, t, unit), t)
  <1> DEFINE o == OpenedFor(st, c, t, unit)
             pos == PosFor(st, c, t, unit)
             en == EnteredBy(st, c, t, unit)
             w == [o EXCEPT ![pos] = en]
  <1>1. o \in Seq(Routing) /\ pos \in DOMAIN o /\ o[pos] \in Routing
    BY OpenedIs
  <1>2. Key(c) \in Keys
    BY KeyIs
  <1>e. en = Entered(o[pos], Key(c), c, t)
    BY DEF EnteredBy
  <1> HIDE DEF o, pos, en
  <1>3. en \in Routing
    BY <1>1, <1>2, <1>e, EnteredIs
  <1>4. w \in Seq(Routing)
    BY <1>1, <1>3
  <1>5. RoutesFor(st, c, t, unit) = WithReaders(w)
    BY DEF RoutesFor, o, pos, en
  <1> HIDE DEF w
  <1>6. RoutesFor(st, c, t, unit) \in Seq(Routes)
    BY <1>4, <1>5, WithReadersKeeps
  <1>7. st.subs \in Seq(BarRecords)
    BY DEF State
  <1>8. Renumbered(st.subs, SubsFor(st, c, t, unit), EnteredBy(st, c, t, unit).readers,
                   LostBy(st, c, t, unit), t)
    BY <1>7, RenumberIs DEF SubsFor
  <1> QED
    BY <1>3, <1>6, <1>8 DEF en

LEMMA AssignStep ==
  ASSUME NEW st \in State, Finite(st), NEW at \in DOMAIN st.subs, NEW t \in Nat,
         NEW unit \in load.units \cup {0}
  PROVE  BarStep(st, AssignBarRoute(st, at, t, unit))
  <1> DEFINE c == st.subs[at].c
             e == AssignBarRoute(st, at, t, unit)
             d == AssignedTo(st, c, t, unit)
             sub == SubsFor(st, c, t, unit)
             rou == RoutesFor(st, c, t, unit)
             old == OldOf(st, c, t, unit)
             m == CHOOSE n \in old : TRUE
  <1>1. st.subs \in Seq(BarRecords) /\ st.routes \in Seq(Routes)
    BY DEF State
  <1>2. c \in Callers
    <2>1. st.subs[at] \in BarRecords
      BY <1>1
    <2> QED
      BY <2>1, BarCallersAre DEF BarRecords
  <1>e. e = IF old = {} THEN d ELSE Write(d, CancelMsg(FALSE, m))
    BY AssignIs
  <1> HIDE DEF c
  <1>3. /\ rou \in Seq(Routes)
        /\ Renumbered(st.subs, sub, EnteredBy(st, c, t, unit).readers, LostBy(st, c, t, unit), t)
    BY <1>2, EnteredByIs
  <1>d. d = [[st EXCEPT !.subs = sub] EXCEPT !.routes = rou]
    <2>1. d = [st EXCEPT !.subs = sub, !.routes = rou]
      BY DEF AssignedTo
    <2> HIDE DEF d, sub, rou
    <2> QED
      BY <2>1
  <1> HIDE DEF d, sub, rou
  <1>4. /\ sub \in Seq(BarRecords) /\ DOMAIN sub = DOMAIN st.subs
        /\ \A i \in DOMAIN st.subs : sub[i].q = st.subs[i].q
    BY <1>3 DEF Renumbered
  <1>5. BarTables(st, st, st.subs, st.routes, st.resub, st.unnumbered, st.batch)
    BY TablesAreNow
  <1>6. BarTables(st, [st EXCEPT !.subs = sub], sub, st.routes, st.resub, st.unnumbered, st.batch)
    BY <1>4, <1>5, SetSubs
  <1>7. BarTables(st, d, sub, rou, st.resub, st.unnumbered, st.batch)
    BY <1>3, <1>6, <1>d, SetRoutes
  <1>8. BarStep(st, d)
    <2>1. \A i \in DOMAIN sub : sub[i].q \in BarNames(st)
      BY <1>4, BarNamesAre
    <2>2. IsFiniteSet(st.unnumbered) /\ \A u \in st.unnumbered : u.q \in BarNames(st)
      BY BarNamesAre DEF Finite
    <2> QED
      BY <1>7, <2>1, <2>2, TablesStep
  <1>9. d.out = st.out
    BY <1>7 DEF BarTables
  <1>10. old \subseteq Nat
    <2>1. Place(st, c, t, unit).reset \subseteq DOMAIN st.routes
      BY <1>1, PlacementIs DEF Place
    <2>2. \A i \in DOMAIN st.routes : st.routes[i].t \in Nat
      <3> SUFFICES ASSUME NEW i \in DOMAIN st.routes PROVE st.routes[i].t \in Nat
        OBVIOUS
      <3>1. st.routes[i] \in Routes
        BY <1>1
      <3> QED
        BY <3>1 DEF Routes
    <2> QED
      BY <2>1, <2>2 DEF OldOf
  <1> HIDE DEF old
  <1>11. CASE old = {}
    BY <1>8, <1>11, <1>e
  <1>12. CASE old # {}
    <2>1. m \in Nat
      BY <1>10, <1>12
    <2> HIDE DEF m
    <2>2. BarStep(st, Write(d, CancelMsg(FALSE, m)))
      BY <1>8, <1>9, <2>1, ThenWithdraws
    <2> QED
      BY <1>12, <1>e, <2>2
  <1> QED
    BY <1>11, <1>12

-----------------------------------------------------------------------------
(* The client has taken the first message of what has arrived. *)
Popped(st, r, m) ==
  /\ r \in State /\ m \in Arriving /\ Reads(st, r, m) /\ SameWriting(st, r)
  /\ SameTicks(st, r) /\ SameBars(st, r) /\ r.twice = st.twice
  /\ st.up /\ r.up /\ st.in[1] = m /\ 1 \in DOMAIN st.in

LEMMA Pops ==
  ASSUME NEW st \in State, st.up, st.in # <<>>
  PROVE  Popped(st, [st EXCEPT !.in = Tail(st.in)], Head(st.in))
  <1> DEFINE i == Tail(st.in)
             m == Head(st.in)
             r == [st EXCEPT !.in = i]
  <1>1. st.in \in Seq(Arriving)
    BY DEF State
  <1>2. i \in Seq(Arriving) /\ m \in Arriving
    BY <1>1
  <1>3. Shrinks(st.in, i, m)
    BY <1>1, TailShrinks
  <1> HIDE DEF i, m
  <1>4. r \in State
    BY <1>2 DEF State
  <1>5. r.in = i /\ SameWriting(st, r) /\ SameTicks(st, r) /\ SameBars(st, r) /\ r.twice = st.twice
        /\ r.running = st.running /\ r.refuses = st.refuses /\ r.up = st.up
    BY DEF State, SameWriting, SameTicks, SameBars
  <1> HIDE DEF r
  <1>6. Reads(st, r, m)
    BY <1>3, <1>5 DEF Reads
  <1>7. st.in[1] = m /\ 1 \in DOMAIN st.in
    BY <1>3 DEF Shrinks
  <1>8. Popped(st, r, m)
    BY <1>2, <1>4, <1>5, <1>6, <1>7 DEF Popped
  <1> QED
    BY <1>8 DEF r, i, m

LEMMA PoppedSame ==
  ASSUME NEW st, NEW r, NEW m, Popped(st, r, m), Common(st)
  PROVE  Finite(r) /\ NamesApart(r) /\ Wire(r) /\ r.twice = {}
  <1>1. Finite(r)
    BY DEF Common, Popped, Finite, SameTicks, SameBars, Reads
  <1>2. TickNames(r) = TickNames(st) /\ BarNames(r) = BarNames(st)
    BY DEF Popped, SameTicks, SameBars, TickNames, BarNames
  <1>3. NamesApart(r)
    BY <1>2 DEF Common, NamesApart
  <1>4. Wire(r)
    BY WireReads DEF Popped, Common
  <1> QED
    BY <1>1, <1>3, <1>4 DEF Common, Popped

(* What is no answer to a tick-by-tick ask leaves the ticks as they are. *)
LEMMA PoppedCommon ==
  ASSUME NEW st, NEW r, NEW m, Popped(st, r, m), Common(st),
         m.m # "record" => \/ m.key.tick # TRUE
                           \/ m.q \notin TickNames(st)
  PROVE  Common(r)
  <1>1. TickSide(st) /\ Net(TRUE, AsksOf(st.tbt), st.tbtUnnumbered, Held(st.tbt), st)
    BY DEF Common, TickSide, TickNet
  <1>2. ASSUME m.m # "record", NEW x \in AsksOf(st.tbt) \cup st.tbtUnnumbered PROVE x # Name(m)
    <2>1. x.key.tick = TRUE
      BY <1>1 DEF Net, Sorted
    <2>2. x.q \in TickNames(st)
      BY DEF AsksOf, Asked, TickNames
    <2>3. Name(m).q = m.q /\ Name(m).key = m.key
      BY DEF Name
    <2>4. m.key.tick # TRUE \/ m.q \notin TickNames(st)
      BY <1>2
    <2> QED
      BY <2>1, <2>2, <2>3, <2>4
  <1>3. m.m # "record" => /\ \A i \in DOMAIN st.tbt : Asked(st.tbt[i]) # Name(m)
                          /\ m.m = "ack" => Name(m) \notin st.tbtUnnumbered
    BY <1>2 DEF AsksOf
  <1>4. TickSide(r)
    BY <1>1, <1>3, TickSideReads DEF Popped
  <1> QED
    BY <1>4, PoppedSame DEF Common, Popped

(* The bars' acknowledgement. *)
BarAcked(st, e, m) ==
  \/ /\ \A u \in st.unnumbered : u.q # m.q
     /\ \A i \in DOMAIN st.subs : st.subs[i].q # m.q
     /\ e = st
  \/ /\ \E u \in st.unnumbered : u.q = m.q
     /\ \/ e = [st EXCEPT !.unnumbered = {u \in st.unnumbered : u.q # m.q}] /\ Wanted(st, m.key)
        \/ /\ ~Wanted(st, m.key)
           /\ e = Write([st EXCEPT !.unnumbered = {u \in st.unnumbered : u.q # m.q}],
                        CancelMsg(FALSE, m.t))
  \/ /\ \A u \in st.unnumbered : u.q # m.q
     /\ \E at \in DOMAIN st.subs : st.subs[at].q = m.q /\ e = AssignBarRoute(st, at, m.t, m.unit)
  \/ /\ \A u \in st.unnumbered : u.q # m.q
     /\ \A i \in DOMAIN st.subs : st.subs[i].q # m.q
     /\ \E b \in st.batch :
          /\ b.q = m.q
          /\ e = AssignBarRoute([st EXCEPT !.subs = Append(st.subs, [q |-> m.q, c |-> b.c, t |-> NoNumber])],
                                Len(st.subs) + 1, m.t, m.unit)

LEMMA BarAckIs ==
  ASSUME NEW st \in State, NEW m \in Arriving
  PROVE  BarAcked(st, BarAck(st, m), m)
  <1> DEFINE late == {u \in st.unnumbered : u.q = m.q}
             noted == [st EXCEPT !.unnumbered = @ \ late]
             direct == {i \in DOMAIN st.subs : st.subs[i].q = m.q}
             batch == {b \in st.batch : b.q = m.q}
             b == CHOOSE x \in batch : TRUE
             beside == [st EXCEPT !.subs = Append(@, [q |-> m.q, c |-> b.c, t |-> NoNumber])]
             e == BarAck(st, m)
  <1>1. noted = [st EXCEPT !.unnumbered = {u \in st.unnumbered : u.q # m.q}]
    <2>1. st.unnumbered \ late = {u \in st.unnumbered : u.q # m.q}
      OBVIOUS
    <2> QED
      BY <2>1
  <1>s. st.subs \in Seq(BarRecords)
    BY DEF State
  <1>2. CASE late # {}
    <2>1. e = IF Wanted(st, m.key) THEN noted ELSE Write(noted, CancelMsg(FALSE, m.t))
      BY <1>2 DEF BarAck
    <2>2. \E u \in st.unnumbered : u.q = m.q
      BY <1>2
    <2> HIDE DEF e, noted
    <2> QED
      BY <1>1, <2>1, <2>2 DEF BarAcked, e
  <1>3. CASE late = {} /\ direct # {}
    <2>1. e = AssignBarRoute(st, Least(direct), m.t, m.unit)
      BY <1>3 DEF BarAck
    <2>2. direct \in SUBSET (DOMAIN st.subs)
      OBVIOUS
    <2>3. \A i \in direct : st.subs[i].q = m.q
      OBVIOUS
    <2> HIDE DEF direct, e
    <2>4. Least(direct) \in direct /\ Least(direct) \in DOMAIN st.subs
      BY <1>3, <1>s, <2>2, LeastOf
    <2>5. \A u \in st.unnumbered : u.q # m.q
      BY <1>3
    <2> QED
      BY <2>1, <2>3, <2>4, <2>5 DEF BarAcked, e
  <1>4. CASE late = {} /\ direct = {} /\ batch # {}
    <2>1. e = AssignBarRoute(beside, Len(beside.subs), m.t, m.unit)
      BY <1>4 DEF BarAck
    <2>2. b \in st.batch /\ b.q = m.q
      BY <1>4
    <2> HIDE DEF b
    <2>3. beside = [st EXCEPT !.subs = Append(st.subs, [q |-> m.q, c |-> b.c, t |-> NoNumber])]
      OBVIOUS
    <2>4. Len(beside.subs) = Len(st.subs) + 1
      <3> DEFINE x == [q |-> m.q, c |-> b.c, t |-> NoNumber]
      <3>1. x \in BarRecords
        <4>1. m.q \in Nat /\ b.c \in BarCallers
          BY <2>2 DEF State, Arriving
        <4> QED
          BY <4>1 DEF BarRecords, NoNumber
      <3>2. beside = [st EXCEPT !.subs = Append(st.subs, x)]
        OBVIOUS
      <3> HIDE DEF x, beside
      <3>3. beside.subs = Append(st.subs, x)
        BY <3>2 DEF State
      <3> QED
        BY <1>s, <3>1, <3>3
    <2> HIDE DEF beside, e
    <2>5. (\A u \in st.unnumbered : u.q # m.q) /\ \A i \in DOMAIN st.subs : st.subs[i].q # m.q
      BY <1>4
    <2> QED
      BY <2>1, <2>2, <2>3, <2>4, <2>5 DEF BarAcked, e
  <1>5. CASE late = {} /\ direct = {} /\ batch = {}
    <2>1. e = st
      BY <1>5 DEF BarAck
    <2>2. (\A u \in st.unnumbered : u.q # m.q) /\ \A i \in DOMAIN st.subs : st.subs[i].q # m.q
      BY <1>5
    <2> HIDE DEF e
    <2> QED
      BY <2>1, <2>2 DEF BarAcked, e
  <1> QED
    BY <1>2, <1>3, <1>4, <1>5

-----------------------------------------------------------------------------
(* A batch acknowledged puts its request beside the others. *)
Beside(st, q, c) == [st EXCEPT !.subs = Append(st.subs, [q |-> q, c |-> c, t |-> NoNumber])]

LEMMA BesideStep ==
  ASSUME NEW st \in State, Finite(st), NEW b \in st.batch
  PROVE  /\ BarTables(st, Beside(st, b.q, b.c), Append(st.subs, [q |-> b.q, c |-> b.c, t |-> NoNumber]),
                      st.routes, st.resub, st.unnumbered, st.batch)
         /\ BarStep(st, Beside(st, b.q, b.c))
         /\ Len(st.subs) + 1 \in DOMAIN Beside(st, b.q, b.c).subs
         /\ Beside(st, b.q, b.c).subs[Len(st.subs) + 1].c = b.c
         /\ Beside(st, b.q, b.c).subs[Len(st.subs) + 1].q = b.q
  <1> DEFINE x == [q |-> b.q, c |-> b.c, t |-> NoNumber]
             sub == Append(st.subs, x)
             d == Beside(st, b.q, b.c)
  <1>1. b.q \in Nat /\ b.c \in BarCallers
    BY DEF State
  <1>2. x \in BarRecords /\ x.q = b.q /\ x.c = b.c
    BY <1>1 DEF BarRecords, NoNumber
  <1>3. st.subs \in Seq(BarRecords)
    BY DEF State
  <1>d. d = [st EXCEPT !.subs = sub]
    BY DEF Beside
  <1> HIDE DEF x
  <1>4. sub \in Seq(BarRecords) /\ Grows(st.subs, sub, x)
    BY <1>2, <1>3, AppendGrows
  <1> HIDE DEF sub, d
  <1>5. BarTables(st, st, st.subs, st.routes, st.resub, st.unnumbered, st.batch)
    BY TablesAreNow
  <1>6. BarTables(st, d, sub, st.routes, st.resub, st.unnumbered, st.batch)
    BY <1>4, <1>5, <1>d, SetSubs
  <1>7. \A i \in DOMAIN sub : sub[i].q \in BarNames(st)
    <2>1. \A i \in DOMAIN sub : (i \in DOMAIN st.subs /\ sub[i] = st.subs[i]) \/ sub[i] = x
      BY <1>4 DEF Grows
    <2> QED
      BY <1>2, <2>1, BarNamesAre
  <1>8. IsFiniteSet(st.unnumbered) /\ \A u \in st.unnumbered : u.q \in BarNames(st)
    BY BarNamesAre DEF Finite
  <1>9. BarStep(st, d)
    BY <1>6, <1>7, <1>8, TablesStep
  <1>10. d.subs = sub
    BY <1>6 DEF BarTables
  <1>11. Len(st.subs) + 1 \in DOMAIN d.subs /\ d.subs[Len(st.subs) + 1] = x
    BY <1>4, <1>10 DEF Grows
  <1> QED
    BY <1>2, <1>6, <1>9, <1>11 DEF sub, d, x

(* What was withdrawn before it was numbered has its number. *)
Noted(st, q) == [st EXCEPT !.unnumbered = {u \in st.unnumbered : u.q # q}]

LEMMA NotedStep ==
  ASSUME NEW st \in State, Finite(st), NEW q
  PROVE  /\ BarTables(st, Noted(st, q), st.subs, st.routes, st.resub,
                      {u \in st.unnumbered : u.q # q}, st.batch)
         /\ BarStep(st, Noted(st, q))
  <1> DEFINE unn == {u \in st.unnumbered : u.q # q}
  <1>1. unn \in SUBSET Named /\ unn \subseteq st.unnumbered
    BY DEF State
  <1>2. IsFiniteSet(unn)
    BY <1>1, FS_Subset DEF Finite
  <1> HIDE DEF unn
  <1>5. BarTables(st, st, st.subs, st.routes, st.resub, st.unnumbered, st.batch)
    BY TablesAreNow
  <1>6. BarTables(st, Noted(st, q), st.subs, st.routes, st.resub, unn, st.batch)
    BY <1>1, <1>5, SetLate DEF Noted, unn
  <1>7. BarStep(st, Noted(st, q))
    BY <1>1, <1>2, <1>6, TablesStep, BarNamesAre
  <1> QED
    BY <1>6, <1>7 DEF unn

LEMMA BarAckCommon ==
  ASSUME NEW st, Common(st), st.up, NEW m \in Arriving
  PROVE  Common(BarAck(st, m))
  <1>1. st \in State /\ Finite(st)
    BY DEF Common
  <1>2. m.q \in Nat /\ m.t \in Nat /\ m.unit \in load.units \cup {0}
    BY DEF Arriving
  <1> DEFINE e == BarAck(st, m)
  <1>3. BarAcked(st, e, m)
    BY <1>1, BarAckIs
  <1> HIDE DEF e
  <1>4. CASE e = st
    BY <1>4 DEF e
  <1>5. CASE e = Noted(st, m.q)
    BY <1>1, <1>5, NotedStep, BarStepKeeps DEF e
  <1>6. CASE e = Write(Noted(st, m.q), CancelMsg(FALSE, m.t))
    <2>1. BarStep(st, Noted(st, m.q)) /\ Noted(st, m.q).out = st.out
      BY <1>1, NotedStep DEF BarTables
    <2>2. BarStep(st, e)
      BY <1>1, <1>2, <1>6, <2>1, ThenWithdraws
    <2> QED
      BY <2>2, BarStepKeeps DEF e
  <1>7. CASE \E at \in DOMAIN st.subs : e = AssignBarRoute(st, at, m.t, m.unit)
    <2>1. BarStep(st, e)
      BY <1>1, <1>2, <1>7, AssignStep
    <2> QED
      BY <2>1, BarStepKeeps DEF e
  <1>8. CASE \E b \in st.batch : b.q = m.q /\ e = AssignBarRoute(Beside(st, b.q, b.c), Len(st.subs) + 1, m.t, m.unit)
    <2>1. PICK b \in st.batch : e = AssignBarRoute(Beside(st, b.q, b.c), Len(st.subs) + 1, m.t, m.unit)
      BY <1>8
    <2> DEFINE d == Beside(st, b.q, b.c)
    <2>2. BarStep(st, d) /\ Len(st.subs) + 1 \in DOMAIN d.subs
      BY <1>1, BesideStep
    <2> HIDE DEF d
    <2>3. Common(d)
      BY <2>2, BarStepKeeps
    <2>4. d \in State /\ Finite(d)
      BY <2>3 DEF Common
    <2>5. BarStep(d, e)
      BY <1>2, <2>1, <2>2, <2>4, AssignStep DEF d
    <2> QED
      BY <2>3, <2>5, BarStepKeeps DEF e
  <1> QED
    BY <1>3, <1>4, <1>5, <1>6, <1>7, <1>8 DEF BarAcked, Noted, Beside

-----------------------------------------------------------------------------
LEMMA DropFrom ==
  ASSUME NEW S, NEW u \in Seq(S), NEW at, NEW k \in DOMAIN Drop(u, at)
  PROVE  \E j \in DOMAIN u : j # at /\ Drop(u, at)[k] = u[j]
  <1> DEFINE I == DOMAIN u \ {at}
  <1>1. Kept(S, u, Drop(u, at), I)
    BY DropKeeps
  <1> HIDE DEF I
  <1>2. \E j \in I : Drop(u, at)[k] = u[j]
    BY <1>1 DEF Kept
  <1> QED
    BY <1>2 DEF I

(* A refused ask for bars, under the name of the stream. *)
Refusing(st, at) ==
  [st EXCEPT !.subs = Drop(st.subs, at), !.routes = Without(st.routes, {st.subs[at].c}),
             !.resub = NotAsked(st.resub, {st.subs[at].c})]

LEMMA RefusingStep ==
  ASSUME NEW st \in State, Finite(st), NEW at \in DOMAIN st.subs
  PROVE  /\ BarTables(st, Refusing(st, at), Drop(st.subs, at), Without(st.routes, {st.subs[at].c}),
                      NotAsked(st.resub, {st.subs[at].c}), st.unnumbered, st.batch)
         /\ BarStep(st, Refusing(st, at))
  <1> DEFINE c == st.subs[at].c
             sub == Drop(st.subs, at)
             rou == Without(st.routes, {c})
             res == NotAsked(st.resub, {c})
             a == [st EXCEPT !.subs = sub]
             b == [a EXCEPT !.routes = rou]
             d == [b EXCEPT !.resub = res]
  <1>1. st.subs \in Seq(BarRecords) /\ st.routes \in Seq(Routes) /\ st.resub \in Seq(BarCallers)
    BY DEF State
  <1>2. sub \in Seq(BarRecords) /\ \A k \in DOMAIN sub : \E j \in DOMAIN st.subs : sub[k] = st.subs[j]
    <2>1. sub \in Seq(BarRecords)
      BY <1>1, DropKeeps
    <2>2. \A k \in DOMAIN sub : \E j \in DOMAIN st.subs : j # at /\ sub[k] = st.subs[j]
      BY <1>1, DropFrom
    <2> QED
      BY <2>1, <2>2
  <1>3. rou \in Seq(Routes)
    BY <1>1, WithoutKeeps
  <1>4. res \in Seq(BarCallers)
    BY <1>1, NotAskedKeeps
  <1>r. Refusing(st, at) = [st EXCEPT !.subs = sub, !.routes = rou, !.resub = res]
    BY DEF Refusing
  <1> HIDE DEF sub, rou, res
  <1>d. Refusing(st, at) = d
    BY <1>r
  <1>5. BarTables(st, st, st.subs, st.routes, st.resub, st.unnumbered, st.batch)
    BY TablesAreNow
  <1>6. BarTables(st, a, sub, st.routes, st.resub, st.unnumbered, st.batch)
    BY <1>2, <1>5, SetSubs
  <1> HIDE DEF a
  <1>7. BarTables(st, b, sub, rou, st.resub, st.unnumbered, st.batch)
    BY <1>3, <1>6, SetRoutes
  <1> HIDE DEF b
  <1>8. BarTables(st, d, sub, rou, res, st.unnumbered, st.batch)
    BY <1>4, <1>7, SetResub
  <1> HIDE DEF d
  <1>9. \A i \in DOMAIN sub : sub[i].q \in BarNames(st)
    BY <1>2, BarNamesAre
  <1>10. IsFiniteSet(st.unnumbered) /\ \A u \in st.unnumbered : u.q \in BarNames(st)
    BY BarNamesAre DEF Finite
  <1>11. BarStep(st, d)
    BY <1>8, <1>9, <1>10, TablesStep
  <1> QED
    BY <1>8, <1>11, <1>d DEF sub, rou, res

(* What a refusal does. *)
Refused(st, e, m) ==
  \/ \E b \in st.batch : b.q = m.q /\ e = CancelBars(st, b.c)
  \/ /\ \A b \in st.batch : b.q # m.q
     /\ \E at \in DOMAIN st.subs : st.subs[at].q = m.q /\ e = Refusing(st, at)
  \/ /\ \A b \in st.batch : b.q # m.q
     /\ \A i \in DOMAIN st.subs : st.subs[i].q # m.q
     /\ e = [st EXCEPT !.tbt = Only(st.tbt, {i \in DOMAIN st.tbt : st.tbt[i].q # m.q})]

LEMMA QueryErrorIs ==
  ASSUME NEW st \in State, NEW m
  PROVE  Refused(st, QueryError(st, m), m)
  <1> DEFINE b == {x \in st.batch : x.q = m.q}
             sub == {i \in DOMAIN st.subs : st.subs[i].q = m.q}
             e == QueryError(st, m)
             at == Least(sub)
  <1>s. st.subs \in Seq(BarRecords)
    BY DEF State
  <1>1. CASE b # {}
    <2>1. e = CancelBars(st, (CHOOSE x \in b : TRUE).c)
      BY <1>1 DEF QueryError
    <2>2. (CHOOSE x \in b : TRUE) \in b
      BY <1>1
    <2> HIDE DEF e
    <2> QED
      BY <2>1, <2>2 DEF Refused, e
  <1>2. CASE b = {} /\ sub # {}
    <2>1. e = [st EXCEPT !.subs = Drop(@, at), !.routes = Without(@, {st.subs[at].c}),
                         !.resub = NotAsked(@, {st.subs[at].c})]
      BY <1>2 DEF QueryError
    <2>2. e = Refusing(st, at)
      BY <2>1 DEF Refusing
    <2>3. sub \in SUBSET (DOMAIN st.subs) /\ \A i \in sub : st.subs[i].q = m.q
      OBVIOUS
    <2> HIDE DEF e, sub
    <2>4. at \in sub /\ at \in DOMAIN st.subs
      BY <1>2, <1>s, <2>3, LeastOf
    <2>5. \A x \in st.batch : x.q # m.q
      BY <1>2
    <2> QED
      BY <2>2, <2>3, <2>4, <2>5 DEF Refused, e
  <1>3. CASE b = {} /\ sub = {}
    <2>1. e = [st EXCEPT !.tbt = Only(st.tbt, {i \in DOMAIN st.tbt : st.tbt[i].q # m.q})]
      BY <1>3 DEF QueryError
    <2>2. (\A x \in st.batch : x.q # m.q) /\ \A i \in DOMAIN st.subs : st.subs[i].q # m.q
      BY <1>3
    <2> HIDE DEF e
    <2> QED
      BY <2>1, <2>2 DEF Refused, e
  <1> QED
    BY <1>1, <1>2, <1>3

(* A change of the table of ticks. *)
LEMMA SetTicks ==
  ASSUME NEW st \in State, NEW w \in Seq(TickRecords), NEW e, e = [st EXCEPT !.tbt = w]
  PROVE  /\ e \in State /\ SameBars(st, e) /\ SameReading(st, e) /\ SameWriting(st, e)
         /\ e.tbt = w /\ e.tbtUnnumbered = st.tbtUnnumbered /\ e.stray = st.stray /\ e.twice = st.twice
         /\ Finite(st) => Finite(e)
  <1>1. e \in State
    BY DEF State
  <1>2. /\ SameBars(st, e) /\ SameReading(st, e) /\ SameWriting(st, e)
        /\ e.tbt = w /\ e.tbtUnnumbered = st.tbtUnnumbered /\ e.stray = st.stray /\ e.twice = st.twice
    BY DEF State, SameBars, SameReading, SameWriting
  <1>3. Finite(st) => Finite(e)
    BY <1>2 DEF Finite, SameBars, SameReading
  <1> QED
    BY <1>1, <1>2, <1>3

LEMMA TickNamesLess ==
  ASSUME NEW st, NEW e, NamesApart(st), SameBars(st, e), e.tbtUnnumbered \subseteq st.tbtUnnumbered,
         \A i \in DOMAIN e.tbt : \E j \in DOMAIN st.tbt : e.tbt[i].q = st.tbt[j].q
  PROVE  NamesApart(e)
  <1>1. BarNames(e) = BarNames(st)
    BY DEF SameBars, BarNames
  <1>2. TickNames(e) \subseteq TickNames(st)
    BY DEF TickNames
  <1> QED
    BY <1>1, <1>2 DEF NamesApart

LEMMA ReadsThen ==
  ASSUME NEW st, NEW r, NEW e, NEW m, Popped(st, r, m), SameReading(r, e)
  PROVE  /\ SameWriting(r, e) => SameWriting(st, e)
         /\ e.up = r.up => Reads(st, e, m)
  BY DEF Popped, Reads, SameReading, SameWriting

LEMMA QueryErrorCommon ==
  ASSUME NEW st, Common(st), NEW r, NEW m, Popped(st, r, m), m.m = "error"
  PROVE  Common(QueryError(r, m))
  <1> DEFINE e == QueryError(r, m)
  <1>1. r \in State /\ Finite(r) /\ NamesApart(r) /\ r.twice = {}
    BY PoppedSame DEF Popped
  <1>2. Refused(r, e, m)
    BY <1>1, QueryErrorIs
  <1> HIDE DEF e
  <1>3. /\ r.subs = st.subs /\ r.batch = st.batch /\ r.tbt = st.tbt
        /\ r.tbtUnnumbered = st.tbtUnnumbered /\ r.stray = st.stray
    BY DEF Popped, SameBars, SameTicks
  <1>4. ASSUME m.q \in BarNames(st) PROVE Common(r)
    <2>1. m.q \notin TickNames(st)
      BY <1>4 DEF Common, NamesApart
    <2> QED
      BY <2>1, PoppedCommon
  <1>5. CASE \E b \in r.batch : b.q = m.q /\ e = CancelBars(r, b.c)
    <2>1. PICK b \in r.batch : b.q = m.q /\ e = CancelBars(r, b.c)
      BY <1>5
    <2>2. b.c \in Callers
      BY <1>1, BarCallersAre DEF State
    <2>3. Common(r)
      BY <1>3, <1>4, <2>1, BarNamesAre
    <2> QED
      BY <2>1, <2>2, <2>3, CancelBarsCommon DEF e
  <1>6. CASE \E at \in DOMAIN r.subs : r.subs[at].q = m.q /\ e = Refusing(r, at)
    <2>1. PICK at \in DOMAIN r.subs : r.subs[at].q = m.q /\ e = Refusing(r, at)
      BY <1>6
    <2>3. Common(r)
      BY <1>3, <1>4, <2>1, BarNamesAre
    <2> QED
      BY <1>1, <2>1, <2>3, RefusingStep, BarStepKeeps DEF e
  <1>7. CASE e = [r EXCEPT !.tbt = Only(r.tbt, {i \in DOMAIN r.tbt : r.tbt[i].q # m.q})]
    <2> DEFINE P == {i \in DOMAIN r.tbt : r.tbt[i].q # m.q}
               w == Only(r.tbt, P)
    <2>1. r.tbt \in Seq(TickRecords)
      BY <1>1 DEF State
    <2>2. P \in SUBSET (DOMAIN r.tbt)
      OBVIOUS
    <2>e. e = [r EXCEPT !.tbt = w]
      BY <1>7
    <2>3. Kept(TickRecords, r.tbt, w, P)
      <3> HIDE DEF P
      <3> QED
        BY <2>1, <2>2, OnlyKeeps
    <2>4. w \in Seq(TickRecords) /\ \A k \in DOMAIN w : \E j \in DOMAIN r.tbt : w[k] = r.tbt[j]
      <3> HIDE DEF P, w
      <3> QED
        BY <2>2, <2>3 DEF Kept
    <2>p. P = {i \in DOMAIN st.tbt : st.tbt[i].q # m.q}
      BY <1>3
    <2> HIDE DEF w, P
    <2>5. /\ e \in State /\ SameBars(r, e) /\ SameReading(r, e) /\ SameWriting(r, e)
          /\ e.tbt = w /\ e.tbtUnnumbered = r.tbtUnnumbered /\ e.stray = r.stray /\ e.twice = r.twice
          /\ Finite(e)
      BY <1>1, <2>4, <2>e, SetTicks
    <2>6. NamesApart(e)
      BY <1>1, <2>4, <2>5, TickNamesLess
    <2>7. SameWriting(st, e) /\ Reads(st, e, m) /\ st.up /\ e.up
      <3>1. SameWriting(st, e)
        BY <2>5, ReadsThen
      <3>2. e.up = r.up /\ st.up /\ r.up
        BY <2>5 DEF SameWriting, Popped
      <3> QED
        BY <2>5, <3>1, <3>2, ReadsThen
    <2>8. Wire(e)
      BY <2>7, WireReads DEF Common
    <2>9. Kept(TickRecords, st.tbt, e.tbt, {i \in DOMAIN st.tbt : st.tbt[i].q # m.q})
      BY <1>3, <2>3, <2>5, <2>p
    <2>10. e.tbtUnnumbered = st.tbtUnnumbered /\ e.stray = st.stray
      BY <1>3, <2>5
    <2>11. TickSide(e)
      BY <2>7, <2>9, <2>10, TickSideRefused DEF Common
    <2> QED
      BY <1>1, <2>5, <2>6, <2>8, <2>11 DEF Common, e
  <1> QED
    BY <1>2, <1>5, <1>6, <1>7 DEF Refused

-----------------------------------------------------------------------------
(* What a step of the ticks leaves alone. *)
Ticked(st, e) ==
  /\ e \in State /\ SameBars(st, e) /\ SameReading(st, e) /\ Finite(e) /\ e.up = st.up
  /\ e.twice = st.twice

LEMMA TickWrites ==
  ASSUME NEW st \in State, Finite(st), NEW m \in Asking \cup Withdrawing
  PROVE  /\ Ticked(st, Write(st, m)) /\ SameTicks(st, Write(st, m))
         /\ Wrote(st, Write(st, m), m)
  <1> DEFINE e == Write(st, m)
  <1>1. Barred(st, e) /\ SameBars(st, e) /\ Wrote(st, e, m)
    BY Writes
  <1> HIDE DEF e
  <1>2. Finite(e)
    BY <1>1 DEF Barred, Finite, SameBars, SameTicks, SameReading
  <1> QED
    BY <1>1, <1>2 DEF Ticked, Barred, e

LEMMA TickedTwice ==
  ASSUME NEW st, NEW d, NEW e, Ticked(st, d), Ticked(d, e)
  PROVE  Ticked(st, e)
  BY DEF Ticked, SameBars, SameReading

LEMMA SetTickTable ==
  ASSUME NEW st \in State, Finite(st), NEW w \in Seq(TickRecords)
  PROVE  /\ Ticked(st, [st EXCEPT !.tbt = w]) /\ SameWriting(st, [st EXCEPT !.tbt = w])
         /\ [st EXCEPT !.tbt = w].tbt = w
         /\ [st EXCEPT !.tbt = w].tbtUnnumbered = st.tbtUnnumbered
         /\ [st EXCEPT !.tbt = w].stray = st.stray
  <1> DEFINE e == [st EXCEPT !.tbt = w]
  <1>1. e = [st EXCEPT !.tbt = w]
    OBVIOUS
  <1> HIDE DEF e
  <1>2. /\ e \in State /\ SameBars(st, e) /\ SameReading(st, e) /\ SameWriting(st, e)
        /\ e.tbt = w /\ e.tbtUnnumbered = st.tbtUnnumbered /\ e.stray = st.stray /\ e.twice = st.twice
        /\ Finite(e)
    BY <1>1, SetTicks
  <1>3. Ticked(st, e)
    BY <1>2 DEF Ticked, SameWriting
  <1> QED
    BY <1>2, <1>3 DEF e

LEMMA SetTickLate ==
  ASSUME NEW st \in State, Finite(st), NEW w \in SUBSET Named, IsFiniteSet(w)
  PROVE  /\ Ticked(st, [st EXCEPT !.tbtUnnumbered = w]) /\ SameWriting(st, [st EXCEPT !.tbtUnnumbered = w])
         /\ [st EXCEPT !.tbtUnnumbered = w].tbt = st.tbt
         /\ [st EXCEPT !.tbtUnnumbered = w].tbtUnnumbered = w
         /\ [st EXCEPT !.tbtUnnumbered = w].stray = st.stray
  <1> DEFINE e == [st EXCEPT !.tbtUnnumbered = w]
  <1>1. e \in State
    BY DEF State
  <1>2. /\ SameBars(st, e) /\ SameReading(st, e) /\ SameWriting(st, e)
        /\ e.tbt = st.tbt /\ e.tbtUnnumbered = w /\ e.stray = st.stray /\ e.twice = st.twice
    BY DEF State, SameBars, SameReading, SameWriting
  <1>3. Finite(e)
    BY <1>2 DEF Finite, SameBars, SameReading
  <1> HIDE DEF e
  <1>4. Ticked(st, e)
    BY <1>1, <1>2, <1>3 DEF Ticked, SameWriting
  <1> QED
    BY <1>2, <1>4 DEF e

(* A tick step's names are those before, or made up. *)
TickNamesGrow(st, e) == \A q \in TickNames(e) : q \in TickNames(st) \/ FreshIn(st, q)

LEMMA TickedApart ==
  ASSUME NEW st, NEW e, NamesApart(st), Ticked(st, e), TickNamesGrow(st, e)
  PROVE  NamesApart(e)
  <1>1. BarNames(e) = BarNames(st)
    BY DEF Ticked, SameBars, BarNames
  <1>2. ASSUME NEW q \in BarNames(st) PROVE ~FreshIn(st, q)
    BY <1>2 DEF BarNames, FreshIn
  <1> QED
    BY <1>1, <1>2 DEF NamesApart, TickNamesGrow

(* ... and what it wrote keeps the wire. *)
LEMMA TickedWire ==
  ASSUME NEW st, NEW e, NEW m, Wire(st), Ticked(st, e), st.up,
         e.out = st.out \/ Grows(st.out, e.out, m),
         m.m = "ask" => FreshIn(st, m.q)
  PROVE  Wire(e)
  <1>1. SameReading(st, e) /\ e.up = st.up /\ e.batch = st.batch
    BY DEF Ticked, SameBars
  <1>2. CASE e.out = st.out
    <2>1. SameWriting(st, e)
      BY <1>1, <1>2 DEF SameWriting
    <2> QED
      BY <1>1, <2>1, WireTables
  <1>3. CASE Grows(st.out, e.out, m)
    <2>1. m.m = "ask" => /\ \A p \in AsksAt(st) : st.out[p].q # m.q
                         /\ \A p \in Answers(st) : st.in[p].q # m.q
      BY FreshOnTheWire
    <2> QED
      BY <1>1, <1>3, <2>1, WireWrites
  <1> QED
    BY <1>2, <1>3

(* A caller asks for a tick-by-tick stream. *)
LEMMA SubscribeTickCommon ==
  ASSUME NEW st, Common(st), st.up, NEW c \in Callers, IsTick(c)
  PROVE  Common(SendTbtSubscribe(st, c))
  <1> DEFINE q == FreshName(st)
             r == [q |-> q, c |-> c, t |-> NoNumber, price |-> 0]
             w == Append(st.tbt, r)
             d == [st EXCEPT !.tbt = w]
             m == AskMsg(q, Key(c))
             e == Write(d, m)
  <1>1. st \in State /\ Finite(st) /\ Wire(st) /\ NamesApart(st) /\ TickSide(st) /\ st.twice = {}
    BY DEF Common
  <1>2. FreshIn(st, q) /\ q \in Nat
    BY <1>1, FreshNames DEF FreshIn
  <1>e. SendTbtSubscribe(st, c) = e
    BY DEF SendTbtSubscribe
  <1> HIDE DEF q
  <1>3. r \in TickRecords /\ r.q = q /\ r.c = c /\ r.t = NoNumber
    BY <1>2 DEF TickRecords, NoNumber
  <1>4. st.tbt \in Seq(TickRecords)
    BY <1>1 DEF State
  <1>5. Key(c) \in Keys /\ Key(c).tick = TRUE
    BY KeyIs DEF IsTick
  <1>6. m \in Asking \cup Withdrawing /\ m = AskMsg(r.q, Key(r.c)) /\ m.m = "ask" /\ m.q = q
    BY <1>2, <1>3, <1>5, MessagesAreTyped DEF AskMsg
  <1> HIDE DEF r, m
  <1>7. w \in Seq(TickRecords) /\ Grows(st.tbt, w, r)
    BY <1>3, <1>4, AppendGrows
  <1> HIDE DEF w
  <1>8. /\ Ticked(st, d) /\ SameWriting(st, d) /\ d.tbt = w /\ d.tbtUnnumbered = st.tbtUnnumbered
        /\ d.stray = st.stray
    BY <1>1, <1>7, SetTickTable
  <1> HIDE DEF d
  <1>9. Ticked(d, e) /\ SameTicks(d, e) /\ Wrote(d, e, m)
    BY <1>6, <1>8, TickWrites DEF Ticked
  <1> HIDE DEF e
  <1>10. Ticked(st, e)
    BY <1>8, <1>9, TickedTwice
  <1>11. Grows(st.out, e.out, m) /\ e.up
    BY <1>8, <1>9, <1>10 DEF Wrote, SameWriting, Ticked
  <1>12. e.tbt = w /\ e.tbtUnnumbered = st.tbtUnnumbered /\ e.stray = st.stray
    BY <1>8, <1>9 DEF SameTicks
  <1>13. TickSide(e)
    <2>1. Grows(st.out, e.out, AskMsg(r.q, Key(r.c))) /\ Grows(st.tbt, e.tbt, r)
      BY <1>6, <1>7, <1>11, <1>12
    <2>2. r.t = NoNumber /\ Key(r.c).tick = TRUE /\ FreshIn(st, r.q)
      BY <1>2, <1>3, <1>5
    <2>3. SameReading(st, e)
      BY <1>10 DEF Ticked
    <2> QED
      BY <1>1, <1>11, <1>12, <2>1, <2>2, <2>3, TickSideAsks
  <1>14. Wire(e)
    BY <1>1, <1>2, <1>6, <1>10, <1>11, TickedWire
  <1>15. TickNamesGrow(st, e)
    <2>1. \A i \in DOMAIN w : (i \in DOMAIN st.tbt /\ w[i] = st.tbt[i]) \/ w[i] = r
      BY <1>7 DEF Grows
    <2> SUFFICES ASSUME NEW n \in TickNames(e) PROVE n \in TickNames(st) \/ n = q
      BY <1>2 DEF TickNamesGrow
    <2> QED
      BY <1>3, <1>12, <2>1 DEF TickNames
  <1>16. NamesApart(e)
    BY <1>1, <1>10, <1>15, TickedApart
  <1> QED
    BY <1>1, <1>10, <1>13, <1>14, <1>16, <1>e DEF Common, Ticked

-----------------------------------------------------------------------------
(* The parts of send_tbt_unsubscribe. *)
TickLeaves(st, at) == [st EXCEPT !.tbt = Drop(st.tbt, at)]

TickWithdrawn(st, e, c) ==
  \E at \in DOMAIN st.tbt :
    /\ st.tbt[at].c = c
    /\ \/ /\ st.tbt[at].t = NoNumber
          /\ e = [TickLeaves(st, at) EXCEPT
                    !.tbtUnnumbered = st.tbtUnnumbered \cup {Asked(st.tbt[at])}]
       \/ /\ st.tbt[at].t # NoNumber /\ StillRead(Drop(st.tbt, at), st.tbt[at].t, Key(c))
          /\ e = TickLeaves(st, at)
       \/ /\ st.tbt[at].t # NoNumber /\ ~StillRead(Drop(st.tbt, at), st.tbt[at].t, Key(c))
          /\ e = Write(TickLeaves(st, at), CancelMsg(TRUE, st.tbt[at].t))

LEMMA UnsubscribeTickIs ==
  ASSUME NEW st \in State, Finite(st), NEW c, TickAt(st, c) # {}
  PROVE  TickWithdrawn(st, SendTbtUnsubscribe(st, c), c)
  <1> DEFINE at == Least(TickAt(st, c))
             gone == st.tbt[at]
             left == [st EXCEPT !.tbt = Drop(@, at)]
             e == SendTbtUnsubscribe(st, c)
  <1>1. st.tbt \in Seq(TickRecords)
    BY DEF State
  <1>2. TickAt(st, c) \in SUBSET (DOMAIN st.tbt) /\ \A i \in TickAt(st, c) : st.tbt[i].c = c
    BY DEF TickAt
  <1>3. at \in TickAt(st, c) /\ at \in DOMAIN st.tbt
    BY <1>1, <1>2, LeastOf
  <1>4. gone.c = c
    BY <1>2, <1>3
  <1>5. left = TickLeaves(st, at)
    BY DEF TickLeaves
  <1>6. left.tbt = Drop(st.tbt, at) /\ left.tbtUnnumbered = st.tbtUnnumbered
    BY DEF State
  <1>7. gone.t = NoNumber =>
          e = [left EXCEPT !.tbtUnnumbered = left.tbtUnnumbered \cup {[q |-> gone.q, key |-> Key(c)]}]
    BY DEF SendTbtUnsubscribe
  <1>8. gone.t # NoNumber /\ StillRead(left.tbt, gone.t, Key(c)) => e = left
    BY DEF SendTbtUnsubscribe
  <1>9. gone.t # NoNumber /\ ~StillRead(left.tbt, gone.t, Key(c)) => e = Write(left, CancelMsg(TRUE, gone.t))
    BY DEF SendTbtUnsubscribe
  <1> HIDE DEF at, e, left
  <1>10. [q |-> gone.q, key |-> Key(c)] = Asked(st.tbt[at])
    BY <1>4 DEF Asked
  <1>11. TickWithdrawn(st, e, c)
    BY <1>3, <1>4, <1>5, <1>6, <1>7, <1>8, <1>9, <1>10 DEF TickWithdrawn
  <1> QED
    BY <1>11 DEF e

LEMMA LeavesIs ==
  ASSUME NEW st \in State, Finite(st), NEW at \in DOMAIN st.tbt
  PROVE  /\ Ticked(st, TickLeaves(st, at)) /\ SameWriting(st, TickLeaves(st, at))
         /\ TickLeaves(st, at).tbt = Drop(st.tbt, at)
         /\ TickLeaves(st, at).tbtUnnumbered = st.tbtUnnumbered
         /\ TickLeaves(st, at).stray = st.stray
         /\ Kept(TickRecords, st.tbt, Drop(st.tbt, at), DOMAIN st.tbt \ {at})
  <1> DEFINE w == Drop(st.tbt, at)
  <1>1. st.tbt \in Seq(TickRecords)
    BY DEF State
  <1>2. w \in Seq(TickRecords) /\ Kept(TickRecords, st.tbt, w, DOMAIN st.tbt \ {at})
    BY <1>1, DropKeeps
  <1>3. TickLeaves(st, at) = [st EXCEPT !.tbt = w]
    BY DEF TickLeaves
  <1> HIDE DEF w
  <1> QED
    BY <1>2, <1>3, SetTickTable DEF w

(* The names of a table a subscription left. *)
LEMMA LeavesNames ==
  ASSUME NEW st \in State, NEW at \in DOMAIN st.tbt, NEW e, e.tbt = Drop(st.tbt, at),
         e.tbtUnnumbered \subseteq st.tbtUnnumbered \cup {Asked(st.tbt[at])}
  PROVE  TickNamesGrow(st, e)
  <1>1. st.tbt \in Seq(TickRecords)
    BY DEF State
  <1>2. \A k \in DOMAIN Drop(st.tbt, at) : \E j \in DOMAIN st.tbt : j # at /\ Drop(st.tbt, at)[k] = st.tbt[j]
    BY <1>1, DropFrom
  <1>3. Asked(st.tbt[at]).q = st.tbt[at].q
    BY DEF Asked
  <1> SUFFICES ASSUME NEW n \in TickNames(e) PROVE n \in TickNames(st)
    BY DEF TickNamesGrow
  <1>4. CASE \E k \in DOMAIN e.tbt : n = e.tbt[k].q
    <2>1. PICK k \in DOMAIN Drop(st.tbt, at) : n = Drop(st.tbt, at)[k].q
      BY <1>4
    <2>2. PICK j \in DOMAIN st.tbt : Drop(st.tbt, at)[k] = st.tbt[j]
      BY <1>2
    <2> QED
      BY <2>1, <2>2 DEF TickNames
  <1>5. CASE \E u \in e.tbtUnnumbered : n = u.q
    BY <1>3, <1>5 DEF TickNames
  <1> QED
    BY <1>4, <1>5 DEF TickNames

LEMMA UnsubscribeTickCommon ==
  ASSUME NEW st, Common(st), NEW c \in Callers, TickAt(st, c) # {}
  PROVE  Common(SendTbtUnsubscribe(st, c))
  <1> DEFINE e == SendTbtUnsubscribe(st, c)
  <1>1. st \in State /\ Finite(st) /\ Wire(st) /\ NamesApart(st) /\ TickSide(st) /\ st.twice = {}
    BY DEF Common
  <1>2. TickWithdrawn(st, e, c)
    BY <1>1, UnsubscribeTickIs
  <1> HIDE DEF e
  <1>3. PICK at \in DOMAIN st.tbt :
            /\ st.tbt[at].c = c
            /\ \/ /\ st.tbt[at].t = NoNumber
                  /\ e = [TickLeaves(st, at) EXCEPT
                            !.tbtUnnumbered = st.tbtUnnumbered \cup {Asked(st.tbt[at])}]
               \/ /\ st.tbt[at].t # NoNumber /\ StillRead(Drop(st.tbt, at), st.tbt[at].t, Key(c))
                  /\ e = TickLeaves(st, at)
               \/ /\ st.tbt[at].t # NoNumber /\ ~StillRead(Drop(st.tbt, at), st.tbt[at].t, Key(c))
                  /\ e = Write(TickLeaves(st, at), CancelMsg(TRUE, st.tbt[at].t))
    BY <1>2 DEF TickWithdrawn
  <1> DEFINE d == TickLeaves(st, at)
             x == Asked(st.tbt[at])
  <1>4. /\ Ticked(st, d) /\ SameWriting(st, d) /\ d.tbt = Drop(st.tbt, at)
        /\ d.tbtUnnumbered = st.tbtUnnumbered /\ d.stray = st.stray
        /\ Kept(TickRecords, st.tbt, d.tbt, DOMAIN st.tbt \ {at})
    BY <1>1, LeavesIs
  <1>5. st.tbt[at] \in TickRecords
    BY <1>1 DEF State
  <1> HIDE DEF d
  <1>6. d \in State /\ Finite(d) /\ SameReading(st, d) /\ d.up = st.up /\ d.batch = st.batch
    BY <1>4 DEF Ticked, SameBars
  <1>w. Wire(d)
    BY <1>1, <1>4, <1>6, WireTables
  <1>7. CASE st.tbt[at].t = NoNumber /\ e = [d EXCEPT !.tbtUnnumbered = st.tbtUnnumbered \cup {x}]
    <2> DEFINE L == st.tbtUnnumbered \cup {x}
    <2>1. x \in Named
      <3>1. st.tbt[at].q \in Nat /\ Key(st.tbt[at].c) \in Keys
        BY <1>5, KeyIs DEF TickRecords
      <3> QED
        BY <3>1 DEF Asked, Named
    <2> HIDE DEF x
    <2>2. L \in SUBSET Named /\ IsFiniteSet(L)
      <3>1. IsFiniteSet(st.tbtUnnumbered) /\ st.tbtUnnumbered \in SUBSET Named
        BY <1>1 DEF Finite, State
      <3> QED
        BY <2>1, <3>1, FS_AddElement
    <2>e. e = [d EXCEPT !.tbtUnnumbered = L]
      BY <1>7
    <2>l. L = st.tbtUnnumbered \cup {x}
      OBVIOUS
    <2> HIDE DEF L
    <2>3. /\ Ticked(d, e) /\ SameWriting(d, e) /\ e.tbt = d.tbt /\ e.tbtUnnumbered = L
          /\ e.stray = d.stray
      BY <1>6, <2>2, <2>e, SetTickLate
    <2>4. Ticked(st, e) /\ SameWriting(st, e) /\ SameReading(st, e)
      <3>1. Ticked(st, e)
        BY <1>4, <2>3, TickedTwice
      <3> QED
        BY <1>4, <2>3, <3>1 DEF SameWriting, Ticked
    <2>5. TickSide(e)
      BY <1>1, <1>4, <1>7, <2>3, <2>4, <2>l, TickSideLeaves DEF x
    <2>6. Wire(e)
      BY <1>1, <2>4, WireTables DEF Ticked, SameBars
    <2>7. TickNamesGrow(st, e)
      BY <1>1, <1>4, <2>3, <2>l, LeavesNames DEF x
    <2> QED
      BY <1>1, <2>4, <2>5, <2>6, <2>7, TickedApart DEF Common, Ticked, e
  <1>k. st.tbt[at].c = c
    BY <1>3
  <1>n. TickNamesGrow(st, d)
    BY <1>1, <1>4, LeavesNames
  <1>a. NamesApart(d)
    BY <1>1, <1>4, <1>n, TickedApart
  <1>8. CASE st.tbt[at].t # NoNumber /\ StillRead(Drop(st.tbt, at), st.tbt[at].t, Key(c)) /\ e = d
    <2>1. StillRead(d.tbt, st.tbt[at].t, Key(st.tbt[at].c))
      BY <1>4, <1>8, <1>k
    <2>2. TickSide(d)
      BY <1>1, <1>4, <1>6, <1>8, <2>1, TickSideLeft
    <2> QED
      BY <1>1, <1>4, <1>6, <1>8, <1>w, <1>a, <2>2 DEF Common, Ticked, e
  <1>9. CASE /\ st.tbt[at].t # NoNumber /\ ~StillRead(Drop(st.tbt, at), st.tbt[at].t, Key(c))
             /\ e = Write(d, CancelMsg(TRUE, st.tbt[at].t))
    <2> DEFINE m == CancelMsg(TRUE, st.tbt[at].t)
    <2>1. ~StillRead(d.tbt, st.tbt[at].t, Key(st.tbt[at].c))
      BY <1>4, <1>9, <1>k
    <2>2. m \in Asking \cup Withdrawing /\ m.m = "cancel"
      <3>1. st.tbt[at].t \in Nat
        BY <1>5 DEF TickRecords
      <3> QED
        BY <3>1, MessagesAreTyped DEF CancelMsg
    <2>m. e = Write(d, m)
      BY <1>9
    <2>q. m = CancelMsg(TRUE, st.tbt[at].t)
      OBVIOUS
    <2> HIDE DEF m
    <2>3. Ticked(d, e) /\ SameTicks(d, e) /\ Wrote(d, e, m)
      BY <1>6, <2>2, <2>m, TickWrites
    <2>4. Ticked(st, e)
      BY <1>4, <2>3, TickedTwice
    <2>5. e.tbt = d.tbt /\ e.tbtUnnumbered = st.tbtUnnumbered /\ e.stray = st.stray
      BY <1>4, <2>3 DEF SameTicks
    <2>6. TickNamesGrow(st, e)
      BY <1>1, <1>4, <2>5, LeavesNames
    <2>7. NamesApart(e)
      BY <1>1, <2>4, <2>6, TickedApart
    <2>8. CASE st.up
      <3>1. Grows(st.out, e.out, m) /\ e.up
        BY <1>4, <2>3, <2>4, <2>8 DEF Wrote, SameWriting, Ticked
      <3>2. Wire(e)
        BY <1>1, <2>2, <2>4, <2>8, <3>1, TickedWire
      <3>3. TickSide(e)
        BY <1>1, <1>4, <1>9, <2>1, <2>4, <2>5, <2>8, <2>q, <3>1, TickSideStops DEF Ticked
      <3> QED
        BY <1>1, <2>4, <2>7, <3>2, <3>3 DEF Common, Ticked, e
    <2>9. CASE ~st.up
      <3>1. e = d
        BY <1>6, <2>9, <2>m DEF Write
      <3>2. TickSide(d)
        BY <1>1, <1>4, <1>6, <1>9, <2>9, TickSideLeft
      <3> QED
        BY <1>1, <1>4, <1>6, <1>w, <1>a, <3>1, <3>2 DEF Common, Ticked, e
    <2> QED
      BY <2>8, <2>9
  <1> QED
    BY <1>3, <1>7, <1>8, <1>9 DEF d, x

-----------------------------------------------------------------------------
LEMMA NumberTyped ==
  ASSUME NEW u \in Seq(TickRecords), NEW at \in DOMAIN u, NEW t \in Nat
  PROVE  Number(u, at, t) \in Seq(TickRecords)
  <1> DEFINE p == Joined(u, at, t)
             O == {i \in DOMAIN u : i # at /\ u[i].t = t}
             n == [u[at] EXCEPT !.t = t, !.price = p]
             w == Number(u, at, t)
  <1>1. O \in SUBSET (DOMAIN u)
    OBVIOUS
  <1>2. p = IF O = {} THEN 0 ELSE u[Least(O)].price
    BY DEF Joined
  <1> HIDE DEF O, p
  <1>3. O # {} => u[Least(O)] \in TickRecords
    BY <1>1, LeastOf
  <1>4. p \in Nat
    BY <1>2, <1>3 DEF TickRecords
  <1>5. u[at] \in TickRecords
    OBVIOUS
  <1>6. n \in TickRecords
    BY <1>4, <1>5 DEF TickRecords
  <1>7. w = [u EXCEPT ![at] = n]
    BY DEF Number, p
  <1> HIDE DEF n, w
  <1>8. w \in Seq(TickRecords)
    BY <1>6, <1>7
  <1> QED
    BY <1>8 DEF w

(* The ticks' acknowledgement. *)
TickAcked(st, e, m) ==
  \/ /\ \E u \in st.tbtUnnumbered : u.q = m.q
     /\ LET noted == [st EXCEPT !.tbtUnnumbered = {u \in st.tbtUnnumbered : u.q # m.q}]
        IN  e = IF StillRead(st.tbt, m.t, m.key) THEN noted ELSE Write(noted, CancelMsg(TRUE, m.t))
  \/ /\ \A u \in st.tbtUnnumbered : u.q # m.q
     /\ \E at \in DOMAIN st.tbt :
          st.tbt[at].q = m.q /\ e = [st EXCEPT !.tbt = Number(st.tbt, at, m.t)]
  \/ /\ \A u \in st.tbtUnnumbered : u.q # m.q
     /\ \A i \in DOMAIN st.tbt : st.tbt[i].q # m.q
     /\ e = st

LEMMA TickAckIs ==
  ASSUME NEW st \in State, NEW m
  PROVE  TickAcked(st, TickAck(st, m), m)
  <1> DEFINE late == {u \in st.tbtUnnumbered : u.q = m.q}
             at == {i \in DOMAIN st.tbt : st.tbt[i].q = m.q}
             noted == [st EXCEPT !.tbtUnnumbered = @ \ late]
             e == TickAck(st, m)
  <1>s. st.tbt \in Seq(TickRecords)
    BY DEF State
  <1>1. noted = [st EXCEPT !.tbtUnnumbered = {u \in st.tbtUnnumbered : u.q # m.q}]
    <2>1. st.tbtUnnumbered \ late = {u \in st.tbtUnnumbered : u.q # m.q}
      OBVIOUS
    <2> QED
      BY <2>1
  <1>2. CASE late # {}
    <2>1. e = IF StillRead(st.tbt, m.t, m.key) THEN noted ELSE Write(noted, CancelMsg(TRUE, m.t))
      BY <1>2 DEF TickAck
    <2>2. \E u \in st.tbtUnnumbered : u.q = m.q
      BY <1>2
    <2> HIDE DEF e, noted
    <2> QED
      BY <1>1, <2>1, <2>2 DEF TickAcked, e
  <1>3. CASE late = {} /\ at # {}
    <2>1. e = [st EXCEPT !.tbt = Number(st.tbt, Least(at), m.t)]
      BY <1>3 DEF TickAck
    <2>2. at \in SUBSET (DOMAIN st.tbt) /\ \A i \in at : st.tbt[i].q = m.q
      OBVIOUS
    <2>3. \A u \in st.tbtUnnumbered : u.q # m.q
      BY <1>3
    <2> HIDE DEF at, e
    <2>4. Least(at) \in at /\ Least(at) \in DOMAIN st.tbt
      BY <1>3, <1>s, <2>2, LeastOf
    <2> QED
      BY <2>1, <2>2, <2>3, <2>4 DEF TickAcked, e
  <1>4. CASE late = {} /\ at = {}
    <2>1. e = st
      BY <1>4 DEF TickAck
    <2>2. (\A u \in st.tbtUnnumbered : u.q # m.q) /\ \A i \in DOMAIN st.tbt : st.tbt[i].q # m.q
      BY <1>4
    <2> QED
      BY <2>1, <2>2 DEF TickAcked
  <1> QED
    BY <1>2, <1>3, <1>4

(* The name a late acknowledgement answers to. *)
LEMMA LateName ==
  ASSUME NEW st \in State, TickSide(st), NEW m, 1 \in Answers(st), st.in[1] = m,
         NEW u \in st.tbtUnnumbered, u.q = m.q
  PROVE  u = Name(m) /\ {x \in st.tbtUnnumbered : x.q # m.q} = st.tbtUnnumbered \ {Name(m)}
  <1>1. Net(TRUE, AsksOf(st.tbt), st.tbtUnnumbered, Held(st.tbt), st)
    BY DEF TickSide, TickNet
  <1>2. m.key = u.key
    BY <1>1 DEF Net, Matched
  <1>3. \A x \in st.tbtUnnumbered : x.q = u.q => x = u
    BY <1>1 DEF Net, Sorted
  <1>4. u \in Named
    BY DEF State
  <1>5. u = Name(m)
    BY <1>2, <1>4 DEF Named, Name
  <1>6. Name(m).q = m.q
    BY DEF Name
  <1> QED
    BY <1>3, <1>5, <1>6

LEMMA TickAckCommon ==
  ASSUME NEW st, Common(st), NEW r, NEW m, Popped(st, r, m), m.m = "ack", m.key.tick = TRUE
  PROVE  Common(TickAck(r, m))
  <1> DEFINE e == TickAck(r, m)
  <1>1. r \in State /\ Finite(r) /\ NamesApart(r) /\ r.twice = {} /\ Wire(r)
    BY PoppedSame DEF Popped
  <1>2. TickAcked(r, e, m)
    BY <1>1, TickAckIs
  <1> HIDE DEF e
  <1>3. /\ r.tbt = st.tbt /\ r.tbtUnnumbered = st.tbtUnnumbered /\ r.stray = st.stray
        /\ r.up /\ st.up /\ SameWriting(st, r) /\ Reads(st, r, m) /\ m \in Arriving
    BY DEF Popped, SameTicks
  <1>4. 1 \in Answers(st) /\ st.in[1] = m
    BY DEF Popped, Answers
  <1>5. st \in State /\ TickSide(st) /\ Wire(st)
    BY DEF Common
  <1>t. m.t \in Nat
    BY <1>3 DEF Arriving
  <1>6. CASE \E u \in r.tbtUnnumbered : u.q = m.q
    <2> DEFINE L == {u \in r.tbtUnnumbered : u.q # m.q}
               d == [r EXCEPT !.tbtUnnumbered = L]
               k == CancelMsg(TRUE, m.t)
    <2>e. e = IF StillRead(r.tbt, m.t, m.key) THEN d ELSE Write(d, k)
      BY <1>2, <1>6 DEF TickAcked
    <2>1. PICK u \in st.tbtUnnumbered : u.q = m.q
      BY <1>3, <1>6
    <2>2. u = Name(m) /\ L = st.tbtUnnumbered \ {Name(m)}
      BY <1>3, <1>4, <1>5, <2>1, LateName
    <2>3. L \in SUBSET Named /\ IsFiniteSet(L) /\ L \subseteq r.tbtUnnumbered
      <3>1. L \subseteq r.tbtUnnumbered
        OBVIOUS
      <3>2. IsFiniteSet(r.tbtUnnumbered) /\ r.tbtUnnumbered \in SUBSET Named
        BY <1>1 DEF Finite, State
      <3> HIDE DEF L
      <3> QED
        BY <3>1, <3>2, FS_Subset
    <2> HIDE DEF L
    <2>4. Ticked(r, d) /\ SameWriting(r, d) /\ d.tbt = r.tbt /\ d.tbtUnnumbered = L /\ d.stray = r.stray
      BY <1>1, <2>3, SetTickLate
    <2> HIDE DEF d
    <2>5. k \in Asking \cup Withdrawing /\ k.m = "cancel" /\ k = CancelMsg(TRUE, m.t)
      BY <1>t, MessagesAreTyped DEF CancelMsg
    <2> HIDE DEF k
    <2>6. Ticked(d, Write(d, k)) /\ SameTicks(d, Write(d, k)) /\ Wrote(d, Write(d, k), k)
      BY <2>4, <2>5, TickWrites DEF Ticked
    <2>7. Ticked(r, e) /\ e.tbt = r.tbt /\ e.tbtUnnumbered = L /\ e.stray = r.stray
      BY <2>4, <2>6, <2>e, TickedTwice DEF SameTicks
    <2>8. e.up /\ SameReading(r, e) /\ e \in State /\ Finite(e) /\ e.twice = r.twice
      BY <1>3, <2>7 DEF Ticked
    <2>9. Reads(st, e, m)
      BY <1>3, <2>8, ReadsThen
    <2>10. IF StillRead(st.tbt, m.t, m.key) THEN e.out = r.out ELSE Grows(r.out, e.out, k)
      BY <1>3, <2>4, <2>6, <2>e DEF Wrote, SameWriting
    <2>11. IF StillRead(st.tbt, m.t, m.key) THEN SameWriting(st, e)
           ELSE Grows(st.out, e.out, CancelMsg(TRUE, m.t))
      BY <1>3, <2>5, <2>8, <2>10 DEF SameWriting
    <2>12. TickSide(e)
      BY <1>3, <1>5, <2>1, <2>2, <2>7, <2>9, <2>11, TickSideLate
    <2>13. Wire(e)
      BY <1>1, <1>3, <2>5, <2>7, <2>10, TickedWire
    <2>14. NamesApart(e)
      <3>1. TickNamesGrow(r, e)
        BY <2>3, <2>7 DEF TickNamesGrow, TickNames
      <3> QED
        BY <1>1, <2>7, <3>1, TickedApart
    <2> QED
      BY <1>1, <2>8, <2>12, <2>13, <2>14 DEF Common, e
  <1>7. CASE /\ \A u \in r.tbtUnnumbered : u.q # m.q
             /\ \E at \in DOMAIN r.tbt : r.tbt[at].q = m.q /\ e = [r EXCEPT !.tbt = Number(r.tbt, at, m.t)]
    <2>1. PICK at \in DOMAIN r.tbt : r.tbt[at].q = m.q /\ e = [r EXCEPT !.tbt = Number(r.tbt, at, m.t)]
      BY <1>7
    <2> DEFINE w == Number(r.tbt, at, m.t)
    <2>2. r.tbt \in Seq(TickRecords)
      BY <1>1 DEF State
    <2>3. w \in Seq(TickRecords) /\ Numbers1(r.tbt, w, at, m.t)
      BY <1>t, <2>2, NumberTyped, NumberIs
    <2>e. e = [r EXCEPT !.tbt = w]
      BY <2>1
    <2> HIDE DEF w
    <2>4. Ticked(r, e) /\ SameWriting(r, e) /\ e.tbt = w /\ e.tbtUnnumbered = r.tbtUnnumbered /\ e.stray = r.stray
      BY <1>1, <2>3, <2>e, SetTickTable
    <2>8. e.up /\ SameReading(r, e) /\ e \in State /\ Finite(e) /\ e.twice = r.twice /\ e.out = r.out
      BY <1>3, <2>4 DEF Ticked, SameWriting
    <2>9. Reads(st, e, m) /\ SameWriting(st, e)
      BY <1>3, <2>4, <2>8, ReadsThen
    <2>12. TickSide(e)
      <3>1. at \in DOMAIN st.tbt /\ st.tbt[at].q = m.q /\ Numbers1(st.tbt, e.tbt, at, m.t)
        BY <1>3, <2>1, <2>3, <2>4
      <3>2. /\ \A u \in st.tbtUnnumbered : u.q # m.q
            /\ e.tbtUnnumbered = st.tbtUnnumbered /\ e.stray = st.stray
        BY <1>3, <1>7, <2>4
      <3> QED
        BY <1>3, <1>5, <2>9, <3>1, <3>2, TickSideNumbers
    <2>13. Wire(e)
      BY <1>1, <1>3, <2>4, <2>8, WireTables DEF Ticked, SameBars
    <2>14. NamesApart(e)
      <3>1. \A i \in DOMAIN w : i \in DOMAIN r.tbt /\ w[i].q = r.tbt[i].q
        BY <2>1, <2>3 DEF Numbers1
      <3>2. TickNamesGrow(r, e)
        BY <2>4, <3>1 DEF TickNamesGrow, TickNames
      <3> QED
        BY <1>1, <2>4, <3>2, TickedApart
    <2> QED
      BY <1>1, <2>8, <2>12, <2>13, <2>14 DEF Common, e
  <1>8. CASE /\ \A u \in r.tbtUnnumbered : u.q # m.q
             /\ \A i \in DOMAIN r.tbt : r.tbt[i].q # m.q
             /\ e = r
    <2>1. m.q \notin TickNames(st)
      BY <1>3, <1>8 DEF TickNames
    <2> QED
      BY <1>8, <2>1, PoppedCommon DEF e
  <1> QED
    BY <1>2, <1>6, <1>7, <1>8 DEF TickAcked

-----------------------------------------------------------------------------
(* The table once a record under the number t has been read. *)
ReadUnder(u, t) ==
  [i \in DOMAIN u |-> IF i \in {j \in DOMAIN u : u[j].t = t} THEN [u[i] EXCEPT !.price = @ + 1] ELSE u[i]]

LEMMA ReadUnderIs ==
  ASSUME NEW u \in Seq(TickRecords), NEW t
  PROVE  ReadUnder(u, t) \in Seq(TickRecords) /\ Moved(u, ReadUnder(u, t), t)
  <1> DEFINE w == ReadUnder(u, t)
  <1>1. DOMAIN w = DOMAIN u
    BY DEF ReadUnder
  <1>2. ASSUME NEW i \in DOMAIN u
        PROVE  /\ w[i] \in TickRecords /\ w[i].q = u[i].q /\ w[i].c = u[i].c /\ w[i].t = u[i].t
               /\ u[i].t = t => w[i].price = u[i].price + 1
               /\ u[i].t # t => w[i].price = u[i].price
    <2>1. u[i] \in TickRecords
      OBVIOUS
    <2>2. CASE u[i].t = t
      <3> DEFINE p == u[i].price + 1
      <3>1. p \in Nat
        BY <2>1 DEF TickRecords
      <3>2. w[i] = [u[i] EXCEPT !.price = p]
        BY <2>2 DEF ReadUnder
      <3> HIDE DEF w, p
      <3>3. /\ w[i] \in TickRecords /\ w[i].q = u[i].q /\ w[i].c = u[i].c /\ w[i].t = u[i].t
            /\ w[i].price = p
        BY <2>1, <3>1, <3>2 DEF TickRecords
      <3> QED
        BY <2>2, <3>3 DEF p
    <2>3. CASE u[i].t # t
      <3>1. w[i] = u[i]
        BY <2>3 DEF ReadUnder
      <3> QED
        BY <2>1, <2>3, <3>1
    <2> QED
      BY <2>2, <2>3
  <1>3. w = [i \in 1 .. Len(u) |-> w[i]]
    BY DEF ReadUnder
  <1>n. Len(u) \in Nat /\ DOMAIN u = 1 .. Len(u)
    OBVIOUS
  <1> HIDE DEF w
  <1>4. w \in Seq(TickRecords)
    BY <1>1, <1>2, <1>3, <1>n, SeqByPoints
  <1>5. Moved(u, w, t)
    BY <1>1, <1>2 DEF Moved
  <1> QED
    BY <1>4, <1>5 DEF w

LEMMA TickDataIs ==
  ASSUME NEW st \in State, NEW m,
         \A i \in DOMAIN st.tbt : st.tbt[i].t = m.t => Key(st.tbt[i].c) = m.key
  PROVE  /\ TickData(st, m) \in State
         /\ TickData(st, m).tbt = ReadUnder(st.tbt, m.t)
         /\ TickData(st, m).stray = st.stray /\ TickData(st, m).twice = st.twice
         /\ TickData(st, m).tbtUnnumbered = st.tbtUnnumbered
         /\ SameBars(st, TickData(st, m)) /\ SameReading(st, TickData(st, m))
         /\ SameWriting(st, TickData(st, m))
  <1> DEFINE w == ReadUnder(st.tbt, m.t)
             H == {i \in DOMAIN st.tbt : st.tbt[i].t = m.t}
             x == st.stray \cup {w[i].c : i \in {j \in H : Key(w[j].c) # m.key}}
             e == TickData(st, m)
  <1>1. e = [st EXCEPT !.tbt = w, !.stray = x]
    BY DEF TickData, ReadUnder
  <1>2. st.tbt \in Seq(TickRecords)
    BY DEF State
  <1>3. w \in Seq(TickRecords) /\ Moved(st.tbt, w, m.t)
    BY <1>2, ReadUnderIs
  <1> HIDE DEF w, e
  <1>4. \A j \in H : Key(w[j].c) = m.key
    BY <1>3 DEF Moved
  <1>5. x = st.stray
    BY <1>4
  <1> HIDE DEF x
  <1>6. e = [st EXCEPT !.tbt = w, !.stray = st.stray]
    BY <1>1, <1>5
  <1>7. e \in State
    BY <1>3, <1>6 DEF State
  <1>8. /\ e.tbt = w /\ e.stray = st.stray /\ e.twice = st.twice /\ e.tbtUnnumbered = st.tbtUnnumbered
        /\ SameBars(st, e) /\ SameReading(st, e) /\ SameWriting(st, e)
    BY <1>6 DEF State, SameBars, SameReading, SameWriting
  <1> QED
    BY <1>7, <1>8 DEF e, w

LEMMA TickDataCommon ==
  ASSUME NEW st, Common(st), NEW r, NEW m, Popped(st, r, m), m.m = "record", m.key.tick = TRUE
  PROVE  Common(TickData(r, m))
  <1> DEFINE e == TickData(r, m)
  <1>1. r \in State /\ Finite(r) /\ NamesApart(r) /\ r.twice = {} /\ Wire(r)
    BY PoppedSame DEF Popped
  <1>2. /\ r.tbt = st.tbt /\ r.tbtUnnumbered = st.tbtUnnumbered /\ r.stray = st.stray
        /\ r.up /\ st.up /\ SameWriting(st, r) /\ Reads(st, r, m)
        /\ st.in[1] = m /\ 1 \in DOMAIN st.in
    BY DEF Popped, SameTicks
  <1>3. TickSide(st) /\ Wire(st) /\ st.stray = {}
    BY DEF Common, TickSide
  <1>4. \A i \in DOMAIN r.tbt : r.tbt[i].t = m.t => Key(r.tbt[i].c) = m.key
    <2> SUFFICES ASSUME NEW i \in DOMAIN st.tbt, st.tbt[i].t = m.t PROVE Key(st.tbt[i].c) = m.key
      BY <1>2
    <2>1. st.in[1].key.tick = TRUE /\ st.in[1].m # "error" /\ st.tbt[i].t = st.in[1].t
      BY <1>2
    <2>2. Key(st.tbt[i].c) = st.in[1].key
      BY <1>2, <1>3, <2>1, TickNumbersAreTrue
    <2> QED
      BY <1>2, <2>2
  <1>5. /\ e \in State /\ e.tbt = ReadUnder(r.tbt, m.t) /\ e.stray = r.stray /\ e.twice = r.twice
        /\ e.tbtUnnumbered = r.tbtUnnumbered
        /\ SameBars(r, e) /\ SameReading(r, e) /\ SameWriting(r, e)
    BY <1>1, <1>4, TickDataIs
  <1> HIDE DEF e
  <1>6. r.tbt \in Seq(TickRecords)
    BY <1>1 DEF State
  <1>7. Moved(r.tbt, e.tbt, m.t)
    BY <1>5, <1>6, ReadUnderIs
  <1>8. e.up = r.up /\ Finite(e)
    BY <1>1, <1>5 DEF SameWriting, SameBars, SameReading, Finite
  <1>9. Reads(st, e, m) /\ SameWriting(st, e)
    BY <1>5, <1>8, ReadsThen
  <1>10. TickSide(e)
    BY <1>2, <1>3, <1>5, <1>7, <1>9, TickSideHears
  <1>11. Wire(e)
    BY <1>1, <1>2, <1>5, <1>8, WireTables
  <1>12. NamesApart(e)
    <2>1. \A i \in DOMAIN e.tbt : i \in DOMAIN r.tbt /\ e.tbt[i].q = r.tbt[i].q
      BY <1>7 DEF Moved
    <2> QED
      BY <1>1, <1>5, <2>1, TickNamesLess
  <1> QED
    BY <1>1, <1>5, <1>8, <1>10, <1>11, <1>12 DEF Common, e

(* A bar is heard once by each. *)
LEMMA BarDataCommon ==
  ASSUME NEW st, Common(st), NEW m
  PROVE  Common(BarData(st, m)) /\ BarData(st, m) = [st EXCEPT !.twice = st.twice]
  <1> DEFINE heard == Hear(st, m.t)
             X == {x[2] : x \in {y \in heard : \E z \in heard : z # y /\ z[2] = y[2]}}
             e == [st EXCEPT !.twice = st.twice]
  <1>1. \A y, z \in heard : z[2] = y[2] => z = y
    BY DEF Hear
  <1>2. X = {}
    <2> HIDE DEF heard
    <2> QED
      BY <1>1
  <1>3. BarData(st, m) = [st EXCEPT !.twice = st.twice \cup X]
    BY DEF BarData
  <1> HIDE DEF X
  <1>4. BarData(st, m) = e
    <2>1. st.twice \cup X = st.twice
      BY <1>2
    <2> QED
      BY <1>3, <2>1
  <1>5. st \in State /\ Finite(st)
    BY DEF Common
  <1>6. e \in State
    BY <1>5 DEF State
  <1>7. /\ SameTicks(st, e) /\ SameReading(st, e) /\ SameBars(st, e)
        /\ e.up = st.up /\ e.twice = st.twice /\ e.out = st.out
    BY <1>5 DEF State, SameTicks, SameReading, SameBars
  <1> HIDE DEF e
  <1>8. BarStep(st, e)
    <2>1. Finite(e)
      BY <1>5, <1>7 DEF Finite, SameTicks, SameReading, SameBars
    <2>2. BarNames(e) = BarNames(st) /\ e.batch \subseteq st.batch
      BY <1>7 DEF BarNames, SameBars
    <2> QED
      BY <1>6, <1>7, <2>1, <2>2 DEF BarStep, Barred, NamesGrow
  <1> QED
    BY <1>4, <1>8, BarStepKeeps DEF e

LEMMA PollCommon ==
  ASSUME NEW st, Common(st), st.up, st.in # <<>>, NEW e,
         e = Process([st EXCEPT !.in = Tail(st.in)], Head(st.in))
  PROVE  Common(e)
  <1> DEFINE r == [st EXCEPT !.in = Tail(st.in)]
             m == Head(st.in)
  <1>1. Popped(st, r, m)
    BY Pops DEF Common
  <1>e. e = Process(r, m)
    OBVIOUS
  <1> HIDE DEF r, m
  <1>2. m \in Arriving /\ r.up
    BY <1>1 DEF Popped
  <1>3. m.m \in {"ack", "error", "record"} /\ m.key.tick \in BOOLEAN
    <2>1. m.key \in Keys /\ m.m \in {"ack", "error", "record"}
      BY <1>2 DEF Arriving
    <2>2. PICK c \in Callers : m.key = Key(c)
      BY <2>1 DEF Keys
    <2>3. m.key.tick = IsTick(c)
      BY <2>2, KeyIs
    <2> QED
      BY <2>1, <2>3 DEF IsTick
  <1>4. CASE m.m = "ack" /\ m.key.tick = TRUE
    <2>1. e = TickAck(r, m)
      BY <1>4, <1>e DEF Process
    <2> QED
      BY <1>1, <1>4, <2>1, TickAckCommon
  <1>5. CASE m.m = "ack" /\ m.key.tick = FALSE
    <2>1. e = BarAck(r, m)
      BY <1>5, <1>e DEF Process
    <2>2. Common(r)
      BY <1>1, <1>5, PoppedCommon
    <2> QED
      BY <1>2, <2>1, <2>2, BarAckCommon
  <1>6. CASE m.m = "error"
    <2>1. e = QueryError(r, m)
      BY <1>6, <1>e DEF Process
    <2> QED
      BY <1>1, <1>6, <2>1, QueryErrorCommon
  <1>7. CASE m.m = "record" /\ m.key.tick = TRUE
    <2>1. e = TickData(r, m)
      BY <1>7, <1>e DEF Process
    <2> QED
      BY <1>1, <1>7, <2>1, TickDataCommon
  <1>8. CASE m.m = "record" /\ m.key.tick = FALSE
    <2>1. e = BarData(r, m)
      BY <1>8, <1>e DEF Process
    <2>2. Common(r)
      BY <1>1, <1>8, PoppedCommon
    <2> QED
      BY <2>1, <2>2, BarDataCommon
  <1> QED
    BY <1>3, <1>4, <1>5, <1>6, <1>7, <1>8

-----------------------------------------------------------------------------
(* The venue has taken the first message of what was written. *)
TakenOut(st, r, m) ==
  /\ r \in State /\ m \in Asking \cup Withdrawing /\ Shrinks(st.out, r.out, m)
  /\ SameTicks(st, r) /\ SameBars(st, r) /\ SameReading(st, r) /\ r.twice = st.twice
  /\ r.up = st.up /\ st.up /\ Finite(r)

LEMMA TakesOut ==
  ASSUME NEW st, Common(st), st.out # <<>>
  PROVE  TakenOut(st, [st EXCEPT !.out = Tail(st.out)], Head(st.out))
  <1> DEFINE o == Tail(st.out)
             m == Head(st.out)
             r == [st EXCEPT !.out = o]
  <1>0. st \in State /\ Finite(st) /\ Wire(st)
    BY DEF Common
  <1>1. st.out \in Seq(Asking \cup Withdrawing)
    BY <1>0 DEF State
  <1>2. o \in Seq(Asking \cup Withdrawing) /\ m \in Asking \cup Withdrawing
    BY <1>1
  <1>3. Shrinks(st.out, o, m)
    BY <1>1, TailShrinks
  <1> HIDE DEF o, m
  <1>4. r \in State
    BY <1>0, <1>2 DEF State
  <1>5. /\ r.out = o /\ SameTicks(st, r) /\ SameBars(st, r) /\ SameReading(st, r)
        /\ r.twice = st.twice /\ r.up = st.up
    BY <1>0 DEF State, SameReading, SameTicks, SameBars
  <1> HIDE DEF r
  <1>6. Finite(r)
    BY <1>0, <1>5 DEF Finite, SameReading, SameTicks, SameBars
  <1>7. st.up
    BY <1>0 DEF Wire, DownIsEmpty
  <1>8. TakenOut(st, r, m)
    BY <1>2, <1>3, <1>4, <1>5, <1>6, <1>7 DEF TakenOut
  <1> QED
    BY <1>8 DEF r, o, m

(* A step of the venue keeps the tables. *)
LEMMA SameTablesKeep ==
  ASSUME NEW st, NEW e, Common(st), SameTicks(st, e), SameBars(st, e), e.twice = st.twice,
         e \in State, IsFiniteSet(e.running), Wire(e), TickSide(e)
  PROVE  Common(e)
  <1>1. Finite(e)
    BY DEF Common, Finite, SameTicks, SameBars
  <1>2. TickNames(e) = TickNames(st) /\ BarNames(e) = BarNames(st)
    BY DEF SameTicks, SameBars, TickNames, BarNames
  <1>3. NamesApart(e)
    BY <1>2 DEF Common, NamesApart
  <1> QED
    BY <1>1, <1>3 DEF Common

LEMMA VenueCancelledIs ==
  ASSUME NEW st, Common(st), NEW r, NEW m, TakenOut(st, r, m), m.m = "cancel"
  PROVE  /\ TakesCancel(st, VenueCancelled(r, m), m) /\ Common(VenueCancelled(r, m))
         /\ SameBars(st, VenueCancelled(r, m))
  <1> DEFINE run == {x \in r.running : x.key.tick # m.tick \/ x.t # m.t}
             e == VenueCancelled(r, m)
  <1>1. r \in State /\ Finite(r)
    BY DEF TakenOut
  <1>2. run \in SUBSET Streams /\ IsFiniteSet(run)
    <2>1. r.running \in SUBSET Streams /\ run \subseteq r.running
      BY <1>1 DEF State
    <2>2. IsFiniteSet(r.running)
      BY <1>1 DEF Finite
    <2> HIDE DEF run
    <2> QED
      BY <2>1, <2>2, FS_Subset
  <1>e. e = [r EXCEPT !.running = run]
    BY DEF VenueCancelled
  <1>n. run = {x \in st.running : x.key.tick # m.tick \/ x.t # m.t}
    BY DEF TakenOut, SameReading
  <1> HIDE DEF run, e
  <1>3. e \in State
    BY <1>1, <1>2, <1>e DEF State
  <1>4. /\ SameTicks(r, e) /\ SameBars(r, e) /\ e.in = r.in /\ e.out = r.out /\ e.up = r.up
        /\ e.refuses = r.refuses /\ e.running = run /\ e.twice = r.twice
    BY <1>1, <1>e DEF State, SameTicks, SameBars
  <1>5. /\ SameTicks(st, e) /\ SameBars(st, e) /\ e.twice = st.twice /\ e.up /\ e.up = st.up
    BY <1>4 DEF TakenOut, SameTicks, SameBars
  <1>6. TakesCancel(st, e, m)
    BY <1>4, <1>n DEF TakenOut, TakesCancel, SameReading
  <1>7. Wire(e)
    BY <1>5, <1>6, WireTakesCancel DEF Common
  <1>8. TickSide(e)
    BY <1>5, <1>6, TickSideTakesCancel DEF Common
  <1> QED
    BY <1>2, <1>3, <1>4, <1>5, <1>6, <1>7, <1>8, SameTablesKeep DEF e

LEMMA Replies ==
  ASSUME NEW st \in State, NEW a \in Arriving
  PROVE  /\ Reply(st, a) \in State /\ Grows(st.in, Reply(st, a).in, a)
         /\ SameTicks(st, Reply(st, a)) /\ SameBars(st, Reply(st, a)) /\ SameWriting(st, Reply(st, a))
         /\ Reply(st, a).running = st.running /\ Reply(st, a).refuses = st.refuses
         /\ Reply(st, a).twice = st.twice
  <1> DEFINE i == Append(st.in, a)
             e == Reply(st, a)
  <1>1. st.in \in Seq(Arriving)
    BY DEF State
  <1>2. i \in Seq(Arriving) /\ Grows(st.in, i, a)
    BY <1>1, AppendGrows
  <1>e. e = [st EXCEPT !.in = i]
    BY DEF Reply
  <1> HIDE DEF i, e
  <1>3. e \in State
    BY <1>2, <1>e DEF State
  <1>4. /\ SameTicks(st, e) /\ SameBars(st, e) /\ SameWriting(st, e) /\ e.in = i
        /\ e.running = st.running /\ e.refuses = st.refuses /\ e.twice = st.twice
    BY <1>e DEF State, SameTicks, SameBars, SameWriting
  <1> QED
    BY <1>2, <1>3, <1>4 DEF e

-----------------------------------------------------------------------------
(* What the venue answers an ask with. *)
Answering(m, a) ==
  a \in Arriving /\ a.q = m.q /\ a.key = m.key /\ (a.m = "error" <=> a.t = NoNumber)

LEMMA AnswersAre ==
  ASSUME NEW m \in Asking, NEW unit \in load.units, NEW t \in Nat
  PROVE  /\ Answering(m, Answer(m, "error", NoNumber, unit))
         /\ t # NoNumber => Answering(m, Answer(m, "ack", t, unit))
         /\ Answer(m, "error", NoNumber, unit).m = "error"
         /\ Answer(m, "ack", t, unit).m = "ack" /\ Answer(m, "ack", t, unit).t = t
  BY DEF Answering, Answer, Arriving, Asking, NoNumber

(* The number an ask is answered with: that of the stream which runs already, *)
(* or one nothing names.                                                      *)
LEMMA NumberForIs ==
  ASSUME NEW r \in State, Finite(r), RunsOnce(r), NEW key \in Keys
  PROVE  /\ NumberFor(r, key) \in Nat \ {NoNumber}
         /\ \/ [key |-> key, t |-> NumberFor(r, key)] \in r.running
            \/ /\ \A x \in r.running : x.key # key
               /\ FreshNumber(r, key.tick, NumberFor(r, key))
  <1>1. CASE \E x \in r.running : x.key = key
    <2> DEFINE x == CHOOSE y \in r.running : y.key = key
    <2>1. x \in r.running /\ x.key = key
      BY <1>1
    <2>2. NumberFor(r, key) = x.t
      BY <1>1 DEF NumberFor
    <2> HIDE DEF x
    <2>3. x \in Streams /\ x.t # NoNumber
      BY <2>1 DEF State, RunsOnce
    <2>4. x = [key |-> key, t |-> x.t] /\ x.t \in Nat
      BY <2>1, <2>3 DEF Streams
    <2> QED
      BY <2>1, <2>2, <2>3, <2>4
  <1>2. CASE ~\E x \in r.running : x.key = key
    <2>1. NumberFor(r, key) = Least((1 .. Cardinality(Numbers(r, key.tick)) + 1) \ Numbers(r, key.tick))
      BY <1>2 DEF NumberFor
    <2>2. FreshNumber(r, key.tick, NumberFor(r, key))
      BY <2>1, FreshNumbers
    <2>3. NumberFor(r, key) \in Nat \ {NoNumber}
      BY <2>2 DEF FreshNumber, NoNumber
    <2> QED
      BY <1>2, <2>2, <2>3
  <1> QED
    BY <1>1, <1>2

LEMMA RunsIs ==
  ASSUME NEW r \in State, Finite(r), NEW key \in Keys, NEW t \in Nat
  PROVE  /\ Runs(r, key, t) \in State /\ IsFiniteSet(Runs(r, key, t).running)
         /\ Runs(r, key, t).running = r.running \cup {[key |-> key, t |-> t]}
         /\ SameTicks(r, Runs(r, key, t)) /\ SameBars(r, Runs(r, key, t))
         /\ SameWriting(r, Runs(r, key, t)) /\ Runs(r, key, t).in = r.in
         /\ Runs(r, key, t).refuses = r.refuses /\ Runs(r, key, t).twice = r.twice
  <1> DEFINE w == [key |-> key, t |-> t]
             run == r.running \cup {w}
             e == Runs(r, key, t)
  <1>1. w \in Streams
    BY DEF Streams
  <1>e. e = [r EXCEPT !.running = r.running \cup {w}]
    BY DEF Runs
  <1> HIDE DEF w
  <1>2. run \in SUBSET Streams /\ IsFiniteSet(run)
    <2>1. r.running \in SUBSET Streams /\ IsFiniteSet(r.running)
      BY DEF State, Finite
    <2> QED
      BY <1>1, <2>1, FS_AddElement
  <1>f. e = [r EXCEPT !.running = run]
    BY <1>e
  <1> HIDE DEF run, e
  <1>3. e \in State
    BY <1>2, <1>f DEF State
  <1>4. /\ SameTicks(r, e) /\ SameBars(r, e) /\ SameWriting(r, e) /\ e.in = r.in
        /\ e.running = run /\ e.refuses = r.refuses /\ e.twice = r.twice
    BY <1>f DEF State, SameTicks, SameBars, SameWriting
  <1> QED
    BY <1>2, <1>3, <1>4 DEF e, run, w

(* The venue takes an ask. *)
VenueTook(st, e, m) ==
  /\ \E a : TakesAsk(st, e, m, a) /\ (a.m = "error" <=> a.t = NoNumber)
  /\ e \in State /\ IsFiniteSet(e.running) /\ SameTicks(st, e) /\ SameBars(st, e)
  /\ e.twice = st.twice /\ e.up

LEMMA VenueAskedIs ==
  ASSUME NEW st, Common(st), NEW r, NEW m, TakenOut(st, r, m), m.m = "ask", NEW unit \in load.units
  PROVE  VenueTook(st, VenueAsked(r, m, unit), m)
  <1> DEFINE e == VenueAsked(r, m, unit)
             t == NumberFor(r, m.key)
             w == [key |-> m.key, t |-> t]
  <1>1. m \in Asking
    BY DEF TakenOut, Withdrawing
  <1>2. m.q \in Nat /\ m.key \in Keys
    BY <1>1 DEF Asking
  <1>3. /\ r \in State /\ Finite(r) /\ Shrinks(st.out, r.out, m) /\ SameTicks(st, r) /\ SameBars(st, r)
        /\ r.in = st.in /\ r.running = st.running /\ r.refuses = st.refuses /\ r.twice = st.twice
        /\ r.up = st.up /\ st.up
    BY DEF TakenOut, SameReading
  <1>4. RunsOnce(r)
    BY <1>3 DEF Common, Wire, RunsOnce
  <1>5. /\ t \in Nat \ {NoNumber}
        /\ \/ w \in r.running
           \/ (\A x \in r.running : x.key # m.key) /\ FreshNumber(r, m.key.tick, t)
    BY <1>2, <1>3, <1>4, NumberForIs
  <1>6. \A tk, n : CancelsAt(st, tk, n) # {} => CancelsAt(r, tk, n) # {}
    <2>1. OutShrank(st, r, m) /\ TookOff(st, r, m)
      BY <1>3, Taken, TakesOff
    <2>2. m.m # "cancel"
      OBVIOUS
    <2> QED
      BY <2>1, <2>2 DEF TookOff
  <1>7. w.key = m.key /\ w.t = t
    OBVIOUS
  <1>8. CASE m.key \in r.refuses
    <2> DEFINE a == Answer(m, "error", NoNumber, unit)
    <2>1. e = Reply(r, a)
      BY <1>8 DEF VenueAsked
    <2>2. Answering(m, a) /\ a.m = "error"
      BY <1>1, <1>5, AnswersAre
    <2> HIDE DEF a, e, t, w
    <2>3. a \in Arriving /\ a.q = m.q /\ a.key = m.key /\ (a.m = "error" <=> a.t = NoNumber)
      BY <2>2 DEF Answering
    <2>4. /\ e \in State /\ Grows(r.in, e.in, a) /\ SameTicks(r, e) /\ SameBars(r, e)
          /\ SameWriting(r, e) /\ e.running = r.running /\ e.refuses = r.refuses /\ e.twice = r.twice
      BY <1>3, <2>1, <2>3, Replies
    <2>5. TakesAsk(st, e, m, a)
      BY <1>3, <1>8, <2>2, <2>3, <2>4 DEF TakesAsk, SameWriting
    <2>6. IsFiniteSet(e.running)
      BY <1>3, <2>4 DEF Finite
    <2>7. SameTicks(st, e) /\ SameBars(st, e) /\ e.twice = st.twice /\ e.up
      BY <1>3, <2>4 DEF SameTicks, SameBars, SameWriting
    <2> QED
      BY <2>3, <2>4, <2>5, <2>6, <2>7 DEF VenueTook, e
  <1>9. CASE m.key \notin r.refuses
    <2> DEFINE a == Answer(m, "ack", t, unit)
               d == Runs(r, m.key, t)
    <2>1. e = Reply(d, a)
      BY <1>9 DEF VenueAsked
    <2>2. Answering(m, a) /\ a.m = "ack" /\ a.t = t
      BY <1>1, <1>5, AnswersAre
    <2>d. /\ d \in State /\ IsFiniteSet(d.running) /\ d.running = r.running \cup {w}
          /\ SameTicks(r, d) /\ SameBars(r, d) /\ SameWriting(r, d) /\ d.in = r.in
          /\ d.refuses = r.refuses /\ d.twice = r.twice
      BY <1>2, <1>3, <1>5, RunsIs
    <2>w. w = [key |-> m.key, t |-> a.t]
      BY <2>2
    <2> HIDE DEF a, d, e, t, w
    <2>3. a \in Arriving /\ a.q = m.q /\ a.key = m.key /\ (a.m = "error" <=> a.t = NoNumber)
      BY <2>2 DEF Answering
    <2>4. /\ e \in State /\ Grows(d.in, e.in, a) /\ SameTicks(d, e) /\ SameBars(d, e)
          /\ SameWriting(d, e) /\ e.running = d.running /\ e.refuses = d.refuses /\ e.twice = d.twice
      BY <2>1, <2>3, <2>d, Replies
    <2>o. Opens(st, e, m, w)
      <3>1. e.running = st.running \cup {w}
        BY <1>3, <2>4, <2>d
      <3>2. CASE w \in r.running
        BY <1>3, <1>7, <3>1, <3>2 DEF Opens
      <3>3. CASE (\A x \in r.running : x.key # m.key) /\ FreshNumber(r, m.key.tick, t)
        <4>1. CancelsAt(st, m.key.tick, t) = {}
          BY <1>6, <3>3 DEF FreshNumber
        <4> QED
          BY <1>3, <1>5, <1>7, <3>1, <3>3, <4>1 DEF Opens, FreshNumber
      <3> QED
        BY <1>5, <3>2, <3>3
    <2>5. TakesAsk(st, e, m, a)
      BY <1>3, <1>9, <2>2, <2>3, <2>4, <2>d, <2>o, <2>w DEF TakesAsk, SameWriting
    <2>6. IsFiniteSet(e.running)
      BY <2>4, <2>d
    <2>7. SameTicks(st, e) /\ SameBars(st, e) /\ e.twice = st.twice /\ e.up
      BY <1>3, <2>4, <2>d DEF SameTicks, SameBars, SameWriting
    <2> QED
      BY <2>3, <2>4, <2>5, <2>6, <2>7 DEF VenueTook, e
  <1> QED
    BY <1>8, <1>9

LEMMA VenueTookCommon ==
  ASSUME NEW st, Common(st), NEW e, NEW m, VenueTook(st, e, m)
  PROVE  Common(e)
  <1>1. PICK a : TakesAsk(st, e, m, a) /\ (a.m = "error" <=> a.t = NoNumber)
    BY DEF VenueTook
  <1>2. Wire(st) /\ TickSide(st)
    BY DEF Common
  <1>3. Wire(e)
    BY <1>1, <1>2, WireTakesAsk DEF VenueTook
  <1>4. TickSide(e)
    BY <1>1, <1>2, TickSideTakesAsk DEF VenueTook
  <1> QED
    BY <1>3, <1>4, SameTablesKeep DEF VenueTook

-----------------------------------------------------------------------------
(* The venue writes a record of a stream it runs. *)
RecordOf(x) == [m |-> "record", q |-> 0, key |-> x.key, t |-> x.t, unit |-> 0]
Moving(st) == [st EXCEPT !.moves = st.moves + 1]

LEMMA VenueRecordIs ==
  ASSUME NEW st, Common(st), NEW x \in st.running
  PROVE  /\ WritesRecord(st, Reply(Moving(st), RecordOf(x)), RecordOf(x))
         /\ SameWriting(st, Reply(Moving(st), RecordOf(x)))
         /\ SameBars(st, Reply(Moving(st), RecordOf(x)))
         /\ Common(Reply(Moving(st), RecordOf(x)))
  <1> DEFINE m == RecordOf(x)
             d == Moving(st)
             e == Reply(d, m)
  <1>1. st \in State /\ Finite(st) /\ Wire(st) /\ TickSide(st)
    BY DEF Common
  <1>2. x \in Streams /\ st.up
    BY <1>1 DEF State, Wire, DownIsEmpty
  <1>3. m \in Arriving /\ m.m = "record" /\ [key |-> m.key, t |-> m.t] = x
    BY <1>2 DEF RecordOf, Streams, Arriving
  <1> DEFINE n == st.moves + 1
  <1>n. n \in Nat /\ d = [st EXCEPT !.moves = n]
    BY <1>1 DEF Moving, State
  <1> HIDE DEF n, d, m
  <1>4. d \in State
    BY <1>1, <1>n DEF State
  <1>5. /\ SameTicks(st, d) /\ SameBars(st, d) /\ SameWriting(st, d) /\ d.in = st.in
        /\ d.running = st.running /\ d.refuses = st.refuses /\ d.twice = st.twice
    BY <1>1, <1>n DEF State, SameTicks, SameBars, SameWriting
  <1> HIDE DEF d, m
  <1>6. /\ e \in State /\ Grows(d.in, e.in, m) /\ SameTicks(d, e) /\ SameBars(d, e)
        /\ SameWriting(d, e) /\ e.running = d.running /\ e.refuses = d.refuses /\ e.twice = d.twice
    BY <1>3, <1>4, Replies
  <1> HIDE DEF e
  <1>7. WritesRecord(st, e, m) /\ SameWriting(st, e) /\ e.up
    BY <1>2, <1>3, <1>5, <1>6 DEF WritesRecord, SameWriting
  <1>8. SameTicks(st, e) /\ SameBars(st, e) /\ e.twice = st.twice /\ e.running = st.running
    BY <1>5, <1>6 DEF SameTicks, SameBars
  <1>9. Wire(e)
    BY <1>1, <1>3, <1>7, WireWritesRecord
  <1>10. TickSide(e)
    BY <1>1, <1>7, <1>8, TickSideRecord
  <1>11. IsFiniteSet(e.running)
    BY <1>1, <1>8 DEF Finite
  <1> QED
    BY <1>6, <1>7, <1>8, <1>9, <1>10, <1>11, SameTablesKeep DEF e, d, m

(* The connection goes, and with it the requests of K. *)
Ended(st, e, K) ==
  /\ e \in State /\ Gone(e) /\ SameTicks(st, e) /\ e.refuses = st.refuses /\ e.twice = st.twice
  /\ e.batch = {} /\ e.unnumbered = st.unnumbered
  /\ e.subs = NotOf(st.subs, K) /\ e.routes = Without(st.routes, K) /\ e.resub = NotAsked(st.resub, K)

Ending(st, K) ==
  [st EXCEPT !.up = FALSE, !.drops = st.drops + 1, !.out = <<>>, !.in = <<>>,
             !.running = {}, !.batch = {}, !.subs = NotOf(st.subs, K),
             !.routes = Without(st.routes, K), !.resub = NotAsked(st.resub, K)]

LEMMA EndingIs ==
  ASSUME NEW st \in State, NEW K
  PROVE  Ended(st, Ending(st, K), K)
  <1> DEFINE sub == NotOf(st.subs, K)
             rou == Without(st.routes, K)
             res == NotAsked(st.resub, K)
             n == st.drops + 1
             B == [q : Nat, c : BarCallers]
             e == Ending(st, K)
  <1>1. st.subs \in Seq(BarRecords) /\ st.routes \in Seq(Routes) /\ st.resub \in Seq(BarCallers)
    BY DEF State
  <1>2. sub \in Seq(BarRecords)
    BY <1>1, NotOfKeeps
  <1>3. rou \in Seq(Routes)
    BY <1>1, WithoutKeeps
  <1>4. res \in Seq(BarCallers)
    BY <1>1, NotAskedKeeps
  <1>5. n \in Nat
    BY DEF State
  <1>6. e = [st EXCEPT !.up = FALSE, !.drops = n, !.out = <<>>, !.in = <<>>, !.running = {},
                       !.batch = {}, !.subs = sub, !.routes = rou, !.resub = res]
    BY DEF Ending
  <1>7. /\ <<>> \in Seq(Asking \cup Withdrawing) /\ <<>> \in Seq(Arriving)
        /\ {} \in SUBSET Streams /\ {} \in SUBSET B
    OBVIOUS
  <1> HIDE DEF sub, rou, res, n, e, B
  <1>8. e \in State
    BY <1>2, <1>3, <1>4, <1>5, <1>6, <1>7 DEF State, B
  <1>9. Gone(e) /\ SameTicks(st, e) /\ e.refuses = st.refuses /\ e.twice = st.twice
    BY <1>6 DEF State, Gone, SameTicks
  <1>10. /\ e.batch = {} /\ e.unnumbered = st.unnumbered
         /\ e.subs = sub /\ e.routes = rou /\ e.resub = res
    BY <1>6 DEF State
  <1> QED
    BY <1>8, <1>9, <1>10 DEF Ended, sub, rou, res, e

LEMMA EndedCommon ==
  ASSUME NEW st, Common(st), NEW e, NEW K, Ended(st, e, K)
  PROVE  Common(e)
  <1>1. st \in State /\ Finite(st) /\ TickSide(st) /\ NamesApart(st) /\ st.twice = {}
    BY DEF Common
  <1>2. /\ e \in State /\ Gone(e) /\ SameTicks(st, e) /\ e.refuses = st.refuses /\ e.twice = st.twice
        /\ e.batch = {} /\ e.unnumbered = st.unnumbered /\ e.subs = NotOf(st.subs, K)
    BY DEF Ended
  <1>3. Wire(e)
    BY <1>2, WireGone
  <1>4. TickSide(e)
    BY <1>1, <1>2, TickSideGone
  <1>5. Finite(e)
    <2>1. e.running = {} /\ IsFiniteSet({})
      BY <1>2, FS_EmptySet DEF Gone
    <2> QED
      BY <1>1, <1>2, <2>1 DEF Finite, SameTicks
  <1>6. TickNames(e) = TickNames(st)
    BY <1>2 DEF SameTicks, TickNames
  <1>7. \A q \in BarNames(e) : q \in BarNames(st)
    <2>1. st.subs \in Seq(BarRecords)
      BY <1>1 DEF State
    <2>2. \A i \in DOMAIN e.subs : \E j \in DOMAIN st.subs : e.subs[i] = st.subs[j]
      BY <1>2, <2>1, NotOfFrom
    <2> QED
      BY <1>2, <2>2 DEF BarNames
  <1>8. NamesApart(e)
    BY <1>1, <1>6, <1>7 DEF NamesApart
  <1> QED
    BY <1>1, <1>2, <1>3, <1>4, <1>5, <1>8 DEF Common

-----------------------------------------------------------------------------
(* What is written on a new connection. *)
Asker(st, i) == IF i <= Len(st.tbt) THEN st.tbt[i].c ELSE st.resub[i - Len(st.tbt)]

AskedAgain(st, o) ==
  /\ DOMAIN o = 1 .. Len(st.tbt) + Len(st.resub) /\ o \in Seq(Asking \cup Withdrawing)
  /\ \A i \in DOMAIN o : o[i].m = "ask" /\ o[i].q = i /\ o[i].key = Key(Asker(st, i))
  /\ \A i \in 1 .. Len(st.tbt) : i \in DOMAIN o /\ Asker(st, i) = st.tbt[i].c
  /\ \A i \in DOMAIN o : i \in 1 .. Len(st.tbt)
                         \/ (i - Len(st.tbt) \in DOMAIN st.resub
                             /\ Asker(st, i) = st.resub[i - Len(st.tbt)])
  /\ \A k \in DOMAIN st.resub : Len(st.tbt) + k \in DOMAIN o /\ Asker(st, Len(st.tbt) + k) = st.resub[k]

LEMMA AsksAgainIs ==
  ASSUME NEW st \in State
  PROVE  AskedAgain(st, AsksAgain(st))
  <1> DEFINE n == Len(st.tbt)
             k == Len(st.resub)
             o == AsksAgain(st)
  <1>1. st.tbt \in Seq(TickRecords) /\ st.resub \in Seq(BarCallers)
    BY DEF State
  <1>2. /\ n \in Nat /\ k \in Nat /\ DOMAIN st.tbt = 1 .. n /\ DOMAIN st.resub = 1 .. k
        /\ \A i \in 1 .. n : st.tbt[i] \in TickRecords
        /\ \A i \in 1 .. k : st.resub[i] \in BarCallers
    BY <1>1
  <1>3. \A i \in 1 .. n : st.tbt[i].c \in Callers
    BY <1>2 DEF TickRecords
  <1>4. \A i \in 1 .. k : st.resub[i] \in Callers
    BY <1>2, BarCallersAre
  <1>o. o = [i \in 1 .. n + k |-> AskMsg(i, Key(Asker(st, i)))]
    BY DEF AsksAgain, Asker
  <1>a. \A i : Asker(st, i) = IF i <= n THEN st.tbt[i].c ELSE st.resub[i - n]
    BY DEF Asker
  <1> HIDE DEF n, k, o
  <1>5. /\ \A i \in 1 .. n + k : i \in Nat /\ (i \in 1 .. n \/ (i - n \in 1 .. k /\ ~(i <= n)))
        /\ \A i \in 1 .. n : i \in 1 .. n + k /\ i <= n
        /\ \A i \in 1 .. k : n + i \in 1 .. n + k /\ ~(n + i <= n) /\ (n + i) - n = i
    BY <1>2
  <1>6. /\ \A i \in 1 .. n : Asker(st, i) = st.tbt[i].c
        /\ \A i \in 1 .. n + k : i \in 1 .. n \/ (i - n \in 1 .. k /\ Asker(st, i) = st.resub[i - n])
    BY <1>5, <1>a
  <1>6a. \A i \in 1 .. k : Asker(st, n + i) = st.resub[i]
    BY <1>5, <1>a
  <1>7. \A i \in 1 .. n + k : Asker(st, i) \in Callers
    BY <1>3, <1>4, <1>6
  <1>8. \A i \in 1 .. n + k : o[i] = AskMsg(i, Key(Asker(st, i)))
    BY <1>o
  <1>9. \A i \in 1 .. n + k : o[i].m = "ask" /\ o[i].q = i /\ o[i].key = Key(Asker(st, i))
    <2>1. \A i, key : AskMsg(i, key).m = "ask" /\ AskMsg(i, key).q = i /\ AskMsg(i, key).key = key
      BY DEF AskMsg
    <2> QED
      BY <1>8, <2>1
  <1>10. \A i \in 1 .. n + k : o[i] \in Asking \cup Withdrawing
    BY <1>5, <1>7, <1>8, KeyIs, MessagesAreTyped
  <1>11. o \in Seq(Asking \cup Withdrawing)
    <2>1. o = [i \in 1 .. n + k |-> o[i]] /\ n + k \in Nat
      BY <1>2, <1>o
    <2> QED
      BY <1>10, <2>1, SeqByPoints
  <1>12. DOMAIN o = 1 .. n + k
    BY <1>o
  <1> QED
    BY <1>2, <1>5, <1>6, <1>6a, <1>9, <1>11, <1>12 DEF AskedAgain, n, k, o

BegunAgain(st, w, v) ==
  /\ w \in Seq(TickRecords) /\ v \in Seq(BarRecords)
  /\ DOMAIN w = 1 .. Len(st.tbt) /\ DOMAIN v = DOMAIN st.resub
  /\ \A i \in DOMAIN w : w[i].q = i /\ w[i].c = st.tbt[i].c /\ w[i].t = NoNumber
  /\ \A k \in DOMAIN v : v[k].q = Len(st.tbt) + k /\ v[k].c = st.resub[k] /\ v[k].t = NoNumber

LEMMA BegunAgainIs ==
  ASSUME NEW st \in State
  PROVE  BegunAgain(st, TicksAgain(st), BarsAgain(st))
  <1> DEFINE n == Len(st.tbt)
             k == Len(st.resub)
             w == TicksAgain(st)
             v == BarsAgain(st)
  <1>1. st.tbt \in Seq(TickRecords) /\ st.resub \in Seq(BarCallers)
    BY DEF State
  <1>2. /\ n \in Nat /\ k \in Nat /\ DOMAIN st.tbt = 1 .. n /\ DOMAIN st.resub = 1 .. k
        /\ \A i \in 1 .. n : st.tbt[i] \in TickRecords
        /\ \A i \in 1 .. k : st.resub[i] \in BarCallers
    BY <1>1
  <1>w. w = [i \in 1 .. n |-> [q |-> i, c |-> st.tbt[i].c, t |-> NoNumber, price |-> 0]]
    BY <1>2 DEF TicksAgain
  <1>v. v = [i \in 1 .. k |-> [q |-> n + i, c |-> st.resub[i], t |-> NoNumber]]
    BY <1>2 DEF BarsAgain
  <1> HIDE DEF n, k, w, v
  <1>3. \A i \in 1 .. n : w[i] \in TickRecords
    <2> SUFFICES ASSUME NEW i \in 1 .. n PROVE w[i] \in TickRecords
      OBVIOUS
    <2>1. st.tbt[i].c \in Callers /\ i \in Nat
      BY <1>2 DEF TickRecords
    <2>2. w[i] = [q |-> i, c |-> st.tbt[i].c, t |-> NoNumber, price |-> 0]
      BY <1>w
    <2> QED
      BY <2>1, <2>2 DEF TickRecords, NoNumber
  <1>4. \A i \in 1 .. k : v[i] \in BarRecords
    <2> SUFFICES ASSUME NEW i \in 1 .. k PROVE v[i] \in BarRecords
      OBVIOUS
    <2>1. st.resub[i] \in BarCallers /\ n + i \in Nat
      BY <1>2
    <2>2. v[i] = [q |-> n + i, c |-> st.resub[i], t |-> NoNumber]
      BY <1>v
    <2> QED
      BY <2>1, <2>2 DEF BarRecords, NoNumber
  <1>5. w \in Seq(TickRecords) /\ DOMAIN w = 1 .. n
    <2>1. w = [i \in 1 .. n |-> w[i]]
      BY <1>w
    <2> QED
      BY <1>2, <1>3, <2>1, SeqByPoints
  <1>6. v \in Seq(BarRecords) /\ DOMAIN v = 1 .. k
    <2>1. v = [i \in 1 .. k |-> v[i]]
      BY <1>v
    <2> QED
      BY <1>2, <1>4, <2>1, SeqByPoints
  <1>7. \A i \in 1 .. n : w[i].q = i /\ w[i].c = st.tbt[i].c /\ w[i].t = NoNumber
    BY <1>w
  <1>8. \A i \in 1 .. k : v[i].q = n + i /\ v[i].c = st.resub[i] /\ v[i].t = NoNumber
    BY <1>v
  <1> QED
    BY <1>2, <1>5, <1>6, <1>7, <1>8 DEF BegunAgain, n, k, w, v

(* The connection is there again. *)
Again(st) ==
  [st EXCEPT !.up = TRUE, !.tbtUnnumbered = {}, !.unnumbered = {}, !.routes = <<>>,
             !.tbt = TicksAgain(st), !.subs = BarsAgain(st), !.out = AsksAgain(st)]

Began(st, e) ==
  /\ e \in State /\ Finite(e) /\ e.up /\ e.in = <<>> /\ e.running = {} /\ e.batch = {}
  /\ e.tbtUnnumbered = {} /\ e.unnumbered = {} /\ e.routes = <<>>
  /\ e.resub = st.resub /\ e.refuses = st.refuses /\ e.stray = st.stray /\ e.twice = st.twice
  /\ AskedAgain(st, e.out) /\ BegunAgain(st, e.tbt, e.subs)

LEMMA AgainIs ==
  ASSUME NEW st, Common(st), ~st.up
  PROVE  Began(st, Again(st))
  <1> DEFINE w == TicksAgain(st)
             v == BarsAgain(st)
             o == AsksAgain(st)
             e == Again(st)
  <1>1. st \in State /\ Finite(st) /\ Wire(st)
    BY DEF Common
  <1>2. st.in = <<>> /\ st.running = {} /\ st.batch = {}
    BY <1>1 DEF Wire, DownIsEmpty
  <1>3. AskedAgain(st, o) /\ BegunAgain(st, w, v)
    BY <1>1, AsksAgainIs, BegunAgainIs
  <1>4. /\ w \in Seq(TickRecords) /\ v \in Seq(BarRecords) /\ o \in Seq(Asking \cup Withdrawing)
        /\ <<>> \in Seq(Routes) /\ {} \in SUBSET Named
    BY <1>3 DEF AskedAgain, BegunAgain
  <1>e. e = [st EXCEPT !.up = TRUE, !.tbtUnnumbered = {}, !.unnumbered = {}, !.routes = <<>>,
                       !.tbt = w, !.subs = v, !.out = o]
    BY DEF Again
  <1> HIDE DEF w, v, o, e
  <1>5. e \in State
    BY <1>1, <1>4, <1>e DEF State
  <1>6. /\ e.up /\ e.in = st.in /\ e.running = st.running /\ e.batch = st.batch
        /\ e.tbtUnnumbered = {} /\ e.unnumbered = {} /\ e.routes = <<>>
        /\ e.resub = st.resub /\ e.refuses = st.refuses /\ e.stray = st.stray /\ e.twice = st.twice
        /\ e.out = o /\ e.tbt = w /\ e.subs = v
    BY <1>1, <1>e DEF State
  <1>7. Finite(e)
    BY <1>2, <1>6, FS_EmptySet DEF Finite
  <1> QED
    BY <1>2, <1>3, <1>5, <1>6, <1>7 DEF Began, e

LEMMA BeganCommon ==
  ASSUME NEW st, Common(st), NEW e, Began(st, e)
  PROVE  Common(e)
  <1> DEFINE n == Len(st.tbt)
  <1>1. st \in State /\ TickSide(st) /\ st.twice = {}
    BY DEF Common
  <1>2. /\ st.tbt \in Seq(TickRecords) /\ st.resub \in Seq(BarCallers) /\ n \in Nat
        /\ DOMAIN st.tbt = 1 .. n
    BY <1>1 DEF State
  <1>3. /\ e \in State /\ Finite(e) /\ e.up /\ e.in = <<>> /\ e.running = {} /\ e.batch = {}
        /\ e.tbtUnnumbered = {} /\ e.unnumbered = {}
        /\ e.stray = st.stray /\ e.twice = st.twice
        /\ AskedAgain(st, e.out) /\ BegunAgain(st, e.tbt, e.subs)
    BY DEF Began
  <1>4. /\ \A p \in DOMAIN e.out : e.out[p].m = "ask" /\ e.out[p].q = p /\ e.out[p].key = Key(Asker(st, p))
        /\ \A i \in 1 .. n : i \in DOMAIN e.out /\ Asker(st, i) = st.tbt[i].c
        /\ \A p \in DOMAIN e.out : p \in 1 .. n
                         \/ (p - n \in DOMAIN st.resub /\ Asker(st, p) = st.resub[p - n])
    BY <1>3 DEF AskedAgain
  <1>5. /\ DOMAIN e.tbt = 1 .. n
        /\ \A i \in 1 .. n : e.tbt[i].q = i /\ e.tbt[i].c = st.tbt[i].c /\ e.tbt[i].t = NoNumber
        /\ DOMAIN e.subs = DOMAIN st.resub
        /\ \A k \in DOMAIN e.subs : e.subs[k].q = n + k
    BY <1>3 DEF BegunAgain
  <1> HIDE DEF n
  <1>6. Anew(e)
    BY <1>3, <1>4 DEF Anew
  <1>7. \A i \in 1 .. n : Key(e.tbt[i].c).tick = TRUE
    <2> SUFFICES ASSUME NEW i \in 1 .. n PROVE Key(st.tbt[i].c).tick = TRUE
      BY <1>5
    <2>1. Sorted(TRUE, AsksOf(st.tbt), st.tbtUnnumbered)
      BY <1>1 DEF TickSide, TickNet, Net
    <2>2. Asked(st.tbt[i]) \in AsksOf(st.tbt) /\ Asked(st.tbt[i]).key = Key(st.tbt[i].c)
      BY <1>2, AskedNames
    <2> QED
      BY <2>1, <2>2 DEF Sorted
  <1>8. \A p \in DOMAIN e.out : e.out[p].key.tick = TRUE => p \in 1 .. n
    <2> SUFFICES ASSUME NEW p \in DOMAIN e.out, p \notin 1 .. n PROVE e.out[p].key.tick # TRUE
      OBVIOUS
    <2>1. p - n \in DOMAIN st.resub /\ Asker(st, p) = st.resub[p - n]
      BY <1>4
    <2>2. Asker(st, p) \in BarCallers
      BY <1>2, <2>1
    <2>3. Key(Asker(st, p)).tick = FALSE
      BY <2>2, BarCallersAre, KeyIs DEF IsTick
    <2> QED
      BY <1>4, <2>3
  <1>9. \A i \in 1 .. n : i \in DOMAIN e.out /\ Name(e.out[i]) = Asked(e.tbt[i])
    BY <1>4, <1>5 DEF Name, Asked
  <1>10. e.stray = {}
    BY <1>1, <1>3 DEF TickSide
  <1>11. TickSide(e)
    BY <1>2, <1>3, <1>4, <1>5, <1>6, <1>7, <1>8, <1>9, <1>10, TickSideAnew
  <1>12. Wire(e)
    <2>1. \A p, r \in AsksAt(e) : e.out[p].q = e.out[r].q => p = r
      BY <1>4 DEF AsksAt
    <2> QED
      BY <1>3, <1>6, <2>1, WireAnew
  <1>13. NamesApart(e)
    <2> SUFFICES ASSUME NEW q \in TickNames(e), q \in BarNames(e) PROVE FALSE
      BY DEF NamesApart
    <2>1. q \in 1 .. n
      BY <1>3, <1>5 DEF TickNames
    <2>2. PICK k \in DOMAIN e.subs : q = e.subs[k].q
      BY <1>3 DEF BarNames
    <2>3. q = n + k /\ k \in Nat /\ k >= 1
      BY <1>2, <1>5, <2>2
    <2> QED
      BY <1>2, <2>1, <2>3
  <1> QED
    BY <1>1, <1>3, <1>11, <1>12, <1>13 DEF Common

-----------------------------------------------------------------------------
(* The counters are no part of what the tables and the wire say. *)
Counted(st) == [st EXCEPT !.asks = st.asks + 1]

LEMMA CountedIs ==
  ASSUME NEW st, Common(st)
  PROVE  /\ Common(Counted(st)) /\ SameBars(st, Counted(st)) /\ SameReading(st, Counted(st))
         /\ SameTicks(st, Counted(st)) /\ SameWriting(st, Counted(st))
  <1> DEFINE n == st.asks + 1
             e == Counted(st)
  <1>1. st \in State /\ Finite(st) /\ Wire(st) /\ TickSide(st)
    BY DEF Common
  <1>2. n \in Nat /\ e = [st EXCEPT !.asks = n]
    BY <1>1 DEF Counted, State
  <1> HIDE DEF n, e
  <1>3. e \in State
    BY <1>1, <1>2 DEF State
  <1>4. /\ SameTicks(st, e) /\ SameBars(st, e) /\ SameReading(st, e) /\ SameWriting(st, e)
        /\ e.twice = st.twice
    BY <1>1, <1>2 DEF State, SameTicks, SameBars, SameReading, SameWriting
  <1>5. IsFiniteSet(e.running)
    BY <1>1, <1>4 DEF Finite, SameReading
  <1>6. e.batch \subseteq st.batch
    BY <1>4 DEF SameBars
  <1>7. Wire(e)
    BY <1>1, <1>4, <1>6, WireTables
  <1>8. TickSide(e)
    BY <1>1, <1>4, TickSideTables
  <1> QED
    BY <1>3, <1>4, <1>5, <1>7, <1>8, SameTablesKeep DEF e

LEMMA SubscribeCommon ==
  ASSUME NEW c \in Callers, Common(s), Subscribe(c)
  PROVE  Common(s')
  <1>1. Common(Counted(s)) /\ SameWriting(s, Counted(s)) /\ SameBars(s, Counted(s)) /\ SameTicks(s, Counted(s))
    BY CountedIs
  <1>2. s' = CASE IsTick(c) -> SendTbtSubscribe(Counted(s), c)
               [] IsKept(c) -> SendKept(Counted(s), c)
               [] OTHER -> SendRealtimeBarSubscribe(Counted(s), c)
    BY DEF Subscribe, Counted
  <1>3. s.up
    BY DEF Subscribe, TakesTick, TakesBars
  <1>4. Counted(s).up
    BY <1>1, <1>3 DEF SameWriting
  <1>5. CASE IsTick(c)
    <2>1. s' = SendTbtSubscribe(Counted(s), c)
      <3>1. IsKept(c) = FALSE
        BY <1>5 DEF IsTick, IsKept
      <3> QED
        BY <1>2, <1>5, <3>1
    <2>2. Common(SendTbtSubscribe(Counted(s), c))
      BY <1>1, <1>4, <1>5, SubscribeTickCommon
    <2> QED
      BY <2>1, <2>2
  <1>6. CASE ~IsTick(c)
    <2>1. c \in BarCallers
      BY <1>6 DEF BarCallers
    <2>2. CASE IsKept(c)
      BY <1>1, <1>2, <1>4, <1>6, <2>1, <2>2, SendKeptCommon
    <2>3. CASE ~IsKept(c)
      BY <1>1, <1>2, <1>4, <1>6, <2>1, <2>3, SubscribeBarsCommon
    <2> QED
      BY <2>2, <2>3
  <1> QED
    BY <1>5, <1>6

LEMMA UnsubscribeCommon ==
  ASSUME NEW c \in Callers, Common(s), Unsubscribe(c)
  PROVE  Common(s')
  <1>1. CASE IsTick(c)
    BY <1>1, UnsubscribeTickCommon DEF Unsubscribe
  <1>2. CASE ~IsTick(c)
    BY <1>2, CancelBarsCommon DEF Unsubscribe
  <1> QED
    BY <1>1, <1>2

LEMMA VenueCommon ==
  ASSUME Common(s), Venue
  PROVE  Common(s')
  <1> DEFINE m == Head(s.out)
             r == [s EXCEPT !.out = Tail(s.out)]
  <1>1. TakenOut(s, r, m)
    BY TakesOut DEF Venue
  <1>2. \/ m.m = "ask" /\ \E unit \in load.units : s' = VenueAsked(r, m, unit)
        \/ m.m = "cancel" /\ s' = VenueCancelled(r, m)
    BY DEF Venue
  <1> HIDE DEF m, r
  <1>3. CASE m.m = "ask" /\ \E unit \in load.units : s' = VenueAsked(r, m, unit)
    <2>1. PICK unit \in load.units : s' = VenueAsked(r, m, unit)
      BY <1>3
    <2>2. VenueTook(s, s', m)
      BY <1>1, <1>3, <2>1, VenueAskedIs
    <2> QED
      BY <2>2, VenueTookCommon
  <1>4. CASE m.m = "cancel" /\ s' = VenueCancelled(r, m)
    BY <1>1, <1>4, VenueCancelledIs
  <1> QED
    BY <1>2, <1>3, <1>4

LEMMA VenueRecordCommon ==
  ASSUME Common(s), VenueRecord
  PROVE  Common(s')
  <1>1. PICK x \in s.running :
          s' = Reply([s EXCEPT !.moves = @ + 1],
                     [m |-> "record", q |-> 0, key |-> x.key, t |-> x.t, unit |-> 0])
    BY DEF VenueRecord
  <1>2. s' = Reply(Moving(s), RecordOf(x))
    BY <1>1 DEF Moving, RecordOf
  <1> QED
    BY <1>2, VenueRecordIs

LEMMA DisconnectCommon ==
  ASSUME Common(s), Disconnect
  PROVE  Common(s')
  <1> DEFINE K == {c \in Callers : IsKept(c) /\ \E b \in s.batch : b.c = c}
  <1>1. s' = Ending(s, K)
    BY DEF Disconnect, Ending
  <1> HIDE DEF K
  <1>2. Ended(s, s', K)
    BY <1>1, EndingIs DEF Common
  <1> QED
    BY <1>2, EndedCommon

LEMMA ReconnectCommon ==
  ASSUME Common(s), Reconnect
  PROVE  Common(s')
  <1>1. s' = Again(s) /\ ~s.up
    BY DEF Reconnect, Again
  <1>2. Began(s, s')
    BY <1>1, AgainIs
  <1> QED
    BY <1>2, BeganCommon

LEMMA PollsCommon ==
  ASSUME Common(s), Poll
  PROVE  Common(s')
  <1>1. s.up /\ s.in # <<>> /\ s' = Process([s EXCEPT !.in = Tail(s.in)], Head(s.in))
    BY DEF Poll
  <1> QED
    BY <1>1, PollCommon

-----------------------------------------------------------------------------
(* The workload stays, and what is said of the callers with it. *)
LEMMA CallersStay ==
  ASSUME load' = load
  PROVE  /\ Callers' = Callers /\ Keys' = Keys /\ BarCallers' = BarCallers
         /\ load.units' = load.units
  <1>1. Callers' = Callers
    BY DEF Callers
  <1>2. \A c : Key(c)' = Key(c)
    BY DEF Key
  <1>3. \A c : IsTick(c)' = IsTick(c)
    BY DEF IsTick
  <1>4. Keys' = Keys
    BY <1>1, <1>2 DEF Keys
  <1>5. BarCallers' = BarCallers
    BY <1>1, <1>3 DEF BarCallers
  <1> QED
    BY <1>1, <1>4, <1>5

LEMMA StateStays ==
  ASSUME load' = load
  PROVE  State' = State
  <1>1. /\ Callers' = Callers /\ Keys' = Keys /\ BarCallers' = BarCallers
        /\ load.units' = load.units
    BY CallersStay
  <1>2. Named' = Named /\ Streams' = Streams /\ Asking' = Asking /\ Arriving' = Arriving
    BY <1>1 DEF Named, Streams, Asking, Arriving
  <1>3. TickRecords' = TickRecords /\ BarRecords' = BarRecords /\ Routes' = Routes
    BY <1>1 DEF TickRecords, BarRecords, Routes
  <1> QED
    BY <1>1, <1>2, <1>3 DEF State

LEMMA TablesStay ==
  ASSUME load' = load
  PROVE  \A u : AsksOf(u)' = AsksOf(u) /\ Held(u)' = Held(u)
  <1>1. \A c : Key(c)' = Key(c)
    BY DEF Key
  <1>2. \A r : Asked(r)' = Asked(r)
    BY <1>1 DEF Asked
  <1>3. \A u : AsksOf(u)' = AsksOf(u)
    BY <1>2 DEF AsksOf
  <1>4. \A u : Held(u)' = Held(u)
    BY <1>1 DEF Held
  <1> QED
    BY <1>3, <1>4

LEMMA CommonStays ==
  ASSUME load' = load, Common(s')
  PROVE  Common(s)'
  <1>1. /\ s' \in State /\ Finite(s') /\ Wire(s') /\ NamesApart(s') /\ TickSide(s')
        /\ s'.twice = {}
    BY DEF Common
  <1>2. (s \in State)'
    BY <1>1, StateStays
  <1>3. TickSide(s)'
    <2>1. /\ Net(TRUE, AsksOf(s'.tbt), s'.tbtUnnumbered, Held(s'.tbt), s')
          /\ NamedApart(s'.tbt) /\ Level(s'.tbt) /\ s'.stray = {} /\ Waits(s'.tbt, s')
      BY <1>1 DEF TickSide, TickNet
    <2>2. TickNet(s)'
      BY <2>1, TablesStay DEF TickNet
    <2>3. Waits(s.tbt, s)'
      <3>1. \A c : Key(c)' = Key(c)
        BY DEF Key
      <3>2. \A r : Asked(r)' = Asked(r)
        BY <3>1 DEF Asked
      <3> QED
        BY <2>1, <3>2 DEF Waits
    <2> QED
      BY <2>1, <2>2, <2>3 DEF TickSide
  <1> QED
    BY <1>1, <1>2, <1>3 DEF Common

(* What holds from the start and through every step, whoever asks for what. *)
Inv == load \in Workloads /\ Common(s)

Fresh(ref) ==
  [up |-> TRUE, tbt |-> <<>>, tbtUnnumbered |-> {}, subs |-> <<>>, routes |-> <<>>,
   resub |-> <<>>, unnumbered |-> {}, batch |-> {}, out |-> <<>>, in |-> <<>>,
   running |-> {}, refuses |-> ref, asks |-> 0, drops |-> 0, moves |-> 0,
   stray |-> {}, twice |-> {}]

LEMMA FreshCommon ==
  ASSUME NEW ref \in SUBSET Keys
  PROVE  Common(Fresh(ref))
  <1> DEFINE e == Fresh(ref)
  <1>1. e \in State
    BY DEF Fresh, State
  <1>2. /\ e.up /\ e.tbt = <<>> /\ e.tbtUnnumbered = {} /\ e.out = <<>> /\ e.in = <<>>
        /\ e.running = {} /\ e.batch = {} /\ e.unnumbered = {} /\ e.subs = <<>>
        /\ e.stray = {} /\ e.twice = {}
    BY DEF Fresh
  <1> HIDE DEF e
  <1>3. Finite(e)
    BY <1>2, FS_EmptySet DEF Finite
  <1>4. Anew(e)
    BY <1>2 DEF Anew
  <1>5. Wire(e)
    BY <1>2, <1>4, WireAnew DEF AsksAt
  <1>6. TickSide(e)
    <2>1. 0 \in Nat /\ DOMAIN e.tbt = 1 .. 0 /\ DOMAIN e.out = {} /\ \A i \in 1 .. 0 : FALSE
      BY <1>2
    <2> QED
      BY <1>2, <1>4, <2>1, TickSideAnew
  <1>7. NamesApart(e)
    BY <1>2 DEF NamesApart, TickNames
  <1> QED
    BY <1>1, <1>2, <1>3, <1>5, <1>6, <1>7 DEF Common, e

LEMMA InitInv ==
  Init => Inv
  <1> SUFFICES ASSUME Init PROVE Inv
    OBVIOUS
  <1>1. PICK ref \in SUBSET {Key(c) : c \in Callers} : s = Fresh(ref)
    BY DEF Init, Fresh
  <1>2. ref \in SUBSET Keys
    BY <1>1 DEF Keys
  <1> QED
    BY <1>1, <1>2, FreshCommon DEF Init, Inv

LEMMA NextCommon ==
  ASSUME Common(s), Next
  PROVE  Common(s') /\ load' = load
  <1>1. CASE \E c \in Callers : Subscribe(c) \/ Unsubscribe(c)
    <2>1. PICK c \in Callers : Subscribe(c) \/ Unsubscribe(c)
      BY <1>1
    <2>2. CASE Subscribe(c)
      BY <2>2, SubscribeCommon DEF Subscribe
    <2>3. CASE Unsubscribe(c)
      BY <2>3, UnsubscribeCommon DEF Unsubscribe
    <2> QED
      BY <2>1, <2>2, <2>3
  <1>2. CASE Venue
    BY <1>2, VenueCommon DEF Venue
  <1>3. CASE VenueRecord
    BY <1>3, VenueRecordCommon DEF VenueRecord
  <1>4. CASE Poll
    BY <1>4, PollsCommon DEF Poll
  <1>5. CASE Disconnect
    BY <1>5, DisconnectCommon DEF Disconnect
  <1>6. CASE Reconnect
    BY <1>6, ReconnectCommon DEF Reconnect
  <1> QED
    BY <1>1, <1>2, <1>3, <1>4, <1>5, <1>6 DEF Next

LEMMA StepInv ==
  Inv /\ [Next]_vars => Inv'
  <1> SUFFICES ASSUME Inv, [Next]_vars PROVE Inv'
    OBVIOUS
  <1>1. CASE Next
    <2>1. Common(s') /\ load' = load
      BY <1>1, NextCommon DEF Inv
    <2> QED
      BY <2>1, CommonStays DEF Inv
  <1>2. CASE UNCHANGED vars
    <2>1. load' = load /\ s' = s
      BY <1>2 DEF vars
    <2>2. Common(s')
      BY <2>1 DEF Inv
    <2> QED
      BY <2>1, <2>2, CommonStays DEF Inv
  <1> QED
    BY <1>1, <1>2

(* The invariant the theorems of this module rest on: what each side has    *)
(* told the other of a stream, and what is still on its way, agree through   *)
(* every command, every message, a drop and a reconnect.                     *)
THEOREM InvHolds == Spec => []Inv
  BY InitInv, StepInv, PTL DEF Spec

(* Every table holds what its code's type says. *)
LEMMA InvTypes ==
  Inv => TypeOK
  <1> SUFFICES ASSUME Inv PROVE TypeOK
    OBVIOUS
  <1>1. s \in State /\ load \in Workloads
    BY DEF Inv, Common
  <1>2. /\ s.tbt \in Seq(TickRecords) /\ s.subs \in Seq(BarRecords) /\ s.routes \in Seq(Routes)
        /\ s.resub \in Seq(BarCallers) /\ s.out \in Seq(Asking \cup Withdrawing)
        /\ s.in \in Seq(Arriving) /\ s.up \in BOOLEAN
    BY <1>1 DEF State
  <1>3. \A i \in DOMAIN s.tbt : s.tbt[i].c \in Callers /\ s.tbt[i].t \in Nat
    <2>1. \A x \in TickRecords : x.c \in Callers /\ x.t \in Nat
      BY DEF TickRecords
    <2> QED
      BY <1>2, <2>1
  <1>4. \A i \in DOMAIN s.subs : s.subs[i].c \in Callers /\ s.subs[i].t \in Nat
    <2>1. \A x \in BarRecords : x.c \in Callers /\ x.t \in Nat
      BY BarCallersAre DEF BarRecords
    <2> QED
      BY <1>2, <2>1
  <1>5. \A i \in DOMAIN s.routes : s.routes[i].readers \in (SUBSET Callers) \ {{}}
    <2>1. \A x \in Routes : x.readers \in (SUBSET Callers) \ {{}}
      BY DEF Routes
    <2> QED
      BY <1>2, <2>1
  <1>6. \A i \in DOMAIN s.resub : s.resub[i] \in Callers
    BY <1>2, BarCallersAre
  <1>7. \A i \in DOMAIN s.out : s.out[i].m \in {"ask", "cancel"}
    <2>1. \A x \in Asking \cup Withdrawing : x.m \in {"ask", "cancel"}
      BY DEF Asking, Withdrawing
    <2> QED
      BY <1>2, <2>1
  <1>8. \A i \in DOMAIN s.in : s.in[i].m \in {"ack", "error", "record"}
    <2>1. \A x \in Arriving : x.m \in {"ack", "error", "record"}
      BY DEF Arriving
    <2> QED
      BY <1>2, <2>1
  <1> QED
    BY <1>1, <1>2, <1>3, <1>4, <1>5, <1>6, <1>7, <1>8 DEF TypeOK

(* Whatever is asked of it, and whatever the venue answers, every table of  *)
(* HmdsState holds what its code's type says (tbt_subscriptions, rtbar_subs, *)
(* rtbar_resub), and no route is kept that nobody reads (forget_bar_reader). *)
THEOREM TypesAreCorrect == Spec => []TypeOK
  BY InvHolds, InvTypes, PTL

LEMMA InvReach ==
  Inv => RecordsReachTheirReaders
  <1> SUFFICES ASSUME Inv PROVE RecordsReachTheirReaders
    OBVIOUS
  <1>1. TickSide(s) /\ s.twice = {}
    BY DEF Inv, Common
  <1>2. s.stray = {} /\ Level(s.tbt)
    BY <1>1 DEF TickSide
  <1>3. SiblingsAgree
    BY <1>2 DEF Level, SiblingsAgree
  <1> QED
    BY <1>1, <1>2, <1>3 DEF RecordsReachTheirReaders, TicksReachTheirReaders, BarsAreHeardOnce

(* A record reaches only those who asked for what it is a record of, and    *)
(* each of them once, though the venue hands its numbers out again and a     *)
(* withdrawal may be on its way (handle_tbt_data, handle_rtbar_data); and    *)
(* the readers of one stream stand at one price.                             *)
THEOREM RecordsReach == Spec => []RecordsReachTheirReaders
  BY InvHolds, InvReach, PTL

(* Nothing is on its way, so every subscription has its number. *)
LEMMA InvServes ==
  Inv => TickReadersAreServed
  <1> SUFFICES ASSUME Inv, Settled, NEW i \in DOMAIN s.tbt
               PROVE  \E r \in s.running : r.key = Key(s.tbt[i].c) /\ r.t = s.tbt[i].t
    BY DEF TickReadersAreServed, Served
  <1>1. TickSide(s) /\ s.up /\ AsksAt(s) = {} /\ Answers(s) = {}
    BY DEF Inv, Common, Settled, AsksAt, Answers
  <1>2. ~InFlight(s, Asked(s.tbt[i]))
    BY <1>1 DEF InFlight
  <1>3. s.tbt[i].t # NoNumber
    BY <1>1, <1>2 DEF TickSide, Waits
  <1> DEFINE h == [key |-> Key(s.tbt[i].c), t |-> s.tbt[i].t]
  <1>4. h \in Held(s.tbt)
    BY <1>3 DEF Held, Numbered
  <1>h. h.key = Key(s.tbt[i].c) /\ h.t = s.tbt[i].t
    OBVIOUS
  <1>5. Serves(s, h.key, h.t)
    <2> HIDE DEF h
    <2> QED
      BY <1>1, <1>4 DEF TickSide, TickNet, Net, HeldServed
  <1>6. h \in s.running
    BY <1>5 DEF Serves
  <1> QED
    BY <1>6, <1>h

(* Once nothing is on its way, every subscription in tbt_subscriptions reads *)
(* a stream that runs at the venue: no withdrawal by a sibling, early or     *)
(* late, stopped it (send_tbt_unsubscribe, the late acknowledgement).        *)
THEOREM TickReaders == Spec => []TickReadersAreServed
  BY InvHolds, InvServes, PTL
=============================================================================
