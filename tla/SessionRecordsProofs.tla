------------------------ MODULE SessionRecordsProofs ------------------------
(***************************************************************************)
(* Proofs about SessionRecords, for every list of queues that holds the    *)
(* session's and the calls', and every bound on the records and the        *)
(* questions.                                                              *)
(***************************************************************************)
EXTENDS SessionRecords, InOrderProofs

USE MaxRecordsAssumption, MaxAsksAssumption

(* A pusher that has stamped a record and not pushed it. *)
Halfway(p) == pushing[p] # Nothing

(* Stamps are taken once and in order: what is outstanding is told apart   *)
(* by its stamp, and a queue, with what is about to be pushed onto it,     *)
(* runs in the order of the stamps because the stamp is taken inside the   *)
(* queue's lock.                                                           *)
StampsAreOrdered ==
  /\ \A r \in Outstanding : r.seq < next
  /\ \A r, s \in Outstanding : r.seq = s.seq => r = s
  /\ \A q \in Queues : \A i, j \in 1 .. Len(queue[q]) :
       i < j => queue[q][i].seq < queue[q][j].seq
  /\ \A p \in Pushers : Halfway(p) =>
       /\ holder[pushing[p].q] = p
       /\ \A i \in 1 .. Len(queue[pushing[p].q]) :
            queue[pushing[p].q][i].seq < pushing[p].seq

(* What is in which queue, and under which number. *)
RecordsAreFiled ==
  /\ \A q \in Queues : \A i \in 1 .. Len(queue[q]) : queue[q][i].q = q
  /\ \A r \in Outstanding :
       /\ r.q \in {"session", "calls", "orders"} => r.owner \notin Asks
       /\ r.close => r.owner \notin Asks
  /\ Halfway("engine") => pushing["engine"].q # "calls"
  /\ Halfway("caller") => pushing["caller"].q = "calls" /\ ~pushing["caller"].close

(* The close is the engine's last record, and there is one. *)
CloseIsLast ==
  /\ \A r \in Outstanding : r.close => closed /\ engineAt <= r.seq + 1
  /\ \A r, s \in Outstanding : r.close /\ s.close => r = s
  /\ closed /\ Halfway("engine") => pushing["engine"].close
  /\ ended => closed

(* A read and the turn. *)
ReadHoldsItsTurn ==
  /\ pc # "idle" => ~ended
  /\ pc = "idle" => take = "dispatch"
  /\ pc \in {"idle", "cut"} => at = 1 /\ out = {}
  /\ take = "whole" => surface = "kept"
  /\ take # "dispatch" => turn = "question"
  /\ turn = "question" => held = {asked} /\ asked \in Asks

(* What a read has taken: below its cut, and only what its kind takes. *)
TakenIsDue ==
  /\ pc \in {"drain", "deliver"} => cut <= next /\ \A r \in out : r.seq < cut
  /\ take = "dispatch" => \A r \in out : r.q # "previews" => r.owner \notin Asks
  /\ take = "own" => \A r \in out : r.owner = asked

(* The queue at a place of the list has been drained by this read. *)
Drained(k) == pc = "deliver" \/ (pc = "drain" /\ k < at)

(* What a whole read has left behind for the program, in a queue drained   *)
(* or on its way there, is stamped past the cut.                           *)
DrainedToTheCut ==
  take # "own" => \A k \in 1 .. Len(QueueOrder) : Drained(k) =>
    /\ \A i \in 1 .. Len(queue[QueueOrder[k]]) :
         queue[QueueOrder[k]][i].owner \notin Asks => queue[QueueOrder[k]][i].seq >= cut
    /\ \A p \in Pushers : Halfway(p) /\ pushing[p].q = QueueOrder[k] => pushing[p].seq >= cut

(* The conflated state follows the engine's records: whatever version a    *)
(* read holds, the engine had pushed all it stamped before it.             *)
StateFollowsRecords ==
  /\ engineAt <= next
  /\ Halfway("engine") => engineAt <= pushing["engine"].seq
  /\ state.after <= engineAt /\ polled.after <= engineAt /\ told.after <= engineAt
  /\ pc \in {"drain", "deliver"} => polled.after <= cut

IInv ==
  /\ TypeOK
  /\ StampsAreOrdered
  /\ RecordsAreFiled
  /\ CloseIsLast
  /\ ReadHoldsItsTurn
  /\ TakenIsDue
  /\ DrainedToTheCut
  /\ StateFollowsRecords
  /\ StateIsToldInTurn
  /\ AnswersStayPrivate

-----------------------------------------------------------------------------
(***************************************************************************)
(* Types.                                                                  *)
(***************************************************************************)
LEMMA QueuesAre ==
  /\ Len(QueueOrder) \in Nat /\ Len(QueueOrder) >= 1
  /\ DOMAIN QueueOrder = 1 .. Len(QueueOrder)
  /\ \A k \in 1 .. Len(QueueOrder) : QueueOrder[k] \in Queues
  /\ \A q \in Queues : \E k \in 1 .. Len(QueueOrder) : QueueOrder[k] = q
  /\ Queues \subseteq AllQueues /\ "session" \in Queues /\ "calls" \in Queues
  <1>1. QueueOrder \in Seq(AllQueues) /\ {"session", "calls"} \subseteq ToSet(QueueOrder)
    BY QueueOrderAssumption
  <1>2. ToSet(QueueOrder) = {QueueOrder[k] : k \in 1 .. Len(QueueOrder)}
    BY <1>1 DEF ToSet
  <1>3. "session" \in ToSet(QueueOrder)
    BY <1>1
  <1>4. PICK k \in 1 .. Len(QueueOrder) : QueueOrder[k] = "session"
    BY <1>2, <1>3
  <1>5. Len(QueueOrder) \in Nat /\ DOMAIN QueueOrder = 1 .. Len(QueueOrder)
    BY <1>1
  <1>6. Len(QueueOrder) >= 1
    BY <1>4, <1>5
  <1>7. \A j \in 1 .. Len(QueueOrder) : QueueOrder[j] \in AllQueues
    BY <1>1
  <1> QED
    BY <1>1, <1>2, <1>5, <1>6, <1>7 DEF Queues

(* Nothing is no record. *)
LEMMA NothingIsNoRecord == Nothing \notin Rec
  BY DEF Nothing, Rec

(* A stamp makes a record. *)
NewRecord(q, o, close) == [seq |-> next, q |-> q, owner |-> o, close |-> close]

LEMMA StampTypes ==
  ASSUME TypeOK, NEW p \in Pushers, NEW q \in Queues, NEW o \in Owners, NEW c \in BOOLEAN,
         Stamp(p, q, o, c)
  PROVE  /\ NewRecord(q, o, c) \in Rec
         /\ next' = next + 1 /\ next' \in 0 .. MaxRecords
         /\ holder' = [holder EXCEPT ![q] = p] /\ holder[q] = "free"
         /\ holder' \in [Queues -> Pushers \cup {"free"}]
         /\ ~Halfway(p)
         /\ pushing' = [pushing EXCEPT ![p] = NewRecord(q, o, c)]
         /\ pushing' \in [Pushers -> Rec \cup {Nothing}]
  <1>1. next \in Nat /\ state.version \in Nat /\ next + state.version < MaxRecords
    BY DEF TypeOK, StateType, Stamp
  <1>2. next \in 0 .. MaxRecords - 1 /\ next' = next + 1 /\ next' \in 0 .. MaxRecords
    BY <1>1 DEF Stamp
  <1>3. NewRecord(q, o, c) \in Rec
    BY <1>2 DEF NewRecord, Rec
  <1>4. /\ holder' = [holder EXCEPT ![q] = p] /\ holder[q] = "free"
        /\ ~Halfway(p)
        /\ pushing' = [pushing EXCEPT ![p] = NewRecord(q, o, c)]
    BY DEF Stamp, LockQueue, Halfway, NewRecord
  <1>5. /\ holder \in [Queues -> Pushers \cup {"free"}]
        /\ pushing \in [Pushers -> Rec \cup {Nothing}]
    BY DEF TypeOK
  <1> QED
    BY <1>2, <1>3, <1>4, <1>5

(* What a push moves. *)
LEMMA PushTypes ==
  ASSUME TypeOK, NEW p \in Pushers, Push(p)
  PROVE  /\ pushing[p] \in Rec /\ pushing[p].q \in Queues /\ Halfway(p)
         /\ queue' = [queue EXCEPT ![pushing[p].q] = Append(queue[pushing[p].q], pushing[p])]
         /\ queue' \in [Queues -> Seq(Rec)]
         /\ holder' = [holder EXCEPT ![pushing[p].q] = "free"]
         /\ holder' \in [Queues -> Pushers \cup {"free"}]
         /\ pushing' = [pushing EXCEPT ![p] = Nothing]
         /\ pushing' \in [Pushers -> Rec \cup {Nothing}]
         /\ engineAt' = IF p = "engine" THEN pushing[p].seq + 1 ELSE engineAt
         /\ engineAt' \in 0 .. MaxRecords
  <1>1. /\ pushing \in [Pushers -> Rec \cup {Nothing}] /\ Halfway(p)
        /\ queue \in [Queues -> Seq(Rec)]
        /\ holder \in [Queues -> Pushers \cup {"free"}]
        /\ engineAt \in 0 .. MaxRecords
    BY DEF TypeOK, Push, Halfway
  <1>2. pushing[p] \in Rec
    BY <1>1 DEF Halfway
  <1>3. pushing[p].q \in Queues /\ pushing[p].seq \in 0 .. MaxRecords - 1
    BY <1>2 DEF Rec
  <1>4. /\ queue' = [queue EXCEPT ![pushing[p].q] = Append(queue[pushing[p].q], pushing[p])]
        /\ holder' = [holder EXCEPT ![pushing[p].q] = "free"]
        /\ pushing' = [pushing EXCEPT ![p] = Nothing]
        /\ engineAt' = IF p = "engine" THEN pushing[p].seq + 1 ELSE engineAt
    BY DEF Push
  <1>5. Append(queue[pushing[p].q], pushing[p]) \in Seq(Rec)
    BY <1>1, <1>2, <1>3
  <1>6. queue' \in [Queues -> Seq(Rec)]
    BY <1>1, <1>4, <1>5
  <1>7. engineAt' \in 0 .. MaxRecords
    BY <1>1, <1>3, <1>4
  <1> QED
    BY <1>1, <1>2, <1>3, <1>4, <1>6, <1>7

(* The records a queue keeps when some places are left: the rest of it, in *)
(* its order.                                                              *)
Thins(t, s, I) ==
  /\ t \in Seq(Rec) /\ Len(t) \in Nat
  /\ \A k \in 1 .. Len(t) : \E i \in I : t[k] = s[i]
  /\ \A i \in I : \E k \in 1 .. Len(t) : t[k] = s[i]
  /\ \A j, k \in 1 .. Len(t) : j < k =>
       \E a, b \in I : a < b /\ t[j] = s[a] /\ t[k] = s[b]

LEMMA OnlyThins ==
  ASSUME NEW s \in Seq(Rec), NEW I \in SUBSET (1 .. Len(s))
  PROVE  Thins(Only(s, I), s, I)
  <1> DEFINE c == Cardinality(I)
             a == Ascending(I)
             t == Only(s, I)
  <1>1. /\ c \in Nat /\ t \in Seq(Rec) /\ Len(t) = c
        /\ a \in [1 .. c -> I]
        /\ \A k \in 1 .. c : t[k] = s[a[k]]
        /\ \A j, k \in 1 .. c : j < k => a[j] < a[k]
        /\ \A i \in I : \E k \in 1 .. c : t[k] = s[i]
    BY OnlyPicks
  <1> HIDE DEF c, a, t
  <1>2. \A k \in 1 .. c : a[k] \in I
    BY <1>1
  <1>3. ASSUME NEW j \in 1 .. c, NEW k \in 1 .. c, j < k
        PROVE  \E x, y \in I : x < y /\ t[j] = s[x] /\ t[k] = s[y]
    <2>1. a[j] \in I /\ a[k] \in I /\ a[j] < a[k] /\ t[j] = s[a[j]] /\ t[k] = s[a[k]]
      BY <1>1, <1>2, <1>3
    <2> QED
      BY <2>1
  <1>4. \A k \in 1 .. c : \E i \in I : t[k] = s[i]
    BY <1>1, <1>2
  <1> QED
    BY <1>1, <1>3, <1>4 DEF Thins, t

(* partition_point finds the end of what is below the cut: the queue runs  *)
(* in the order of the stamps.                                             *)
LEMMA BelowCutIs ==
  ASSUME TypeOK, StampsAreOrdered, NEW q \in Queues
  PROVE  /\ BelowCut(q) \in 0 .. Len(queue[q])
         /\ \A i \in 1 .. Len(queue[q]) : i <= BelowCut(q) <=> queue[q][i].seq < cut
  <1> DEFINE n == Len(queue[q])
             T == {i \in 1 .. n : ~(queue[q][i].seq < cut)} \cup {n + 1}
  <1>1. /\ queue[q] \in Seq(Rec) /\ n \in Nat /\ DOMAIN queue[q] = 1 .. n
        /\ \A i \in 1 .. n : queue[q][i] \in Rec
        /\ cut \in Nat
    BY DEF TypeOK
  <1>2. \A i \in 1 .. n : queue[q][i].seq \in Nat
    BY <1>1 DEF Rec
  <1>3. \A i, j \in 1 .. n : i < j => queue[q][i].seq < queue[q][j].seq
    BY DEF StampsAreOrdered
  <1> HIDE DEF n
  <1>4. T \in SUBSET Nat /\ T # {}
    BY <1>1
  <1>5. PICK m \in T : \A i \in T : m <= i
    BY <1>4, LeastNatural
  <1>6. m \in 1 .. n + 1 /\ m - 1 \in 0 .. n
    BY <1>1, <1>5
  <1>7. ASSUME NEW i \in 1 .. n PROVE i <= m - 1 <=> queue[q][i].seq < cut
    <2>1. ASSUME i <= m - 1 PROVE queue[q][i].seq < cut
      <3>1. i \notin T
        BY <1>1, <1>5, <1>6, <2>1
      <3> QED
        BY <3>1
    <2>2. ASSUME ~(i <= m - 1) PROVE ~(queue[q][i].seq < cut)
      <3>1. m <= i /\ m \in 1 .. n /\ m # n + 1
        BY <1>1, <1>6, <2>2
      <3>2. ~(queue[q][m].seq < cut)
        BY <1>5, <3>1
      <3>3. CASE i = m
        BY <3>2, <3>3
      <3>4. CASE m < i
        <4>1. queue[q][m].seq < queue[q][i].seq
          BY <1>3, <3>1, <3>4
        <4> QED
          BY <1>1, <1>2, <3>1, <3>2, <4>1
      <3> QED
        BY <1>1, <3>1, <3>3, <3>4
    <2> QED
      BY <2>1, <2>2
  <1>8. \E end \in 0 .. n : \A i \in DOMAIN queue[q] : i <= end <=> queue[q][i].seq < cut
    BY <1>1, <1>6, <1>7
  <1>9. /\ BelowCut(q) \in 0 .. n
        /\ \A i \in DOMAIN queue[q] : i <= BelowCut(q) <=> queue[q][i].seq < cut
    BY <1>8 DEF BelowCut, n
  <1> QED
    BY <1>1, <1>9 DEF n

(* What a drain of one queue does. *)
LEMMA TakeFacts ==
  ASSUME TypeOK, StampsAreOrdered, TakeBelow
  PROVE  LET q == QueueOrder[at] IN
         /\ q \in Queues /\ holder[q] = "free" /\ pc = "drain"
         /\ out' = out \cup Taken(q)
         /\ \A r \in Taken(q) : /\ r \in Rec /\ r.seq < cut /\ FateOf(r) = "take"
                                /\ \E i \in 1 .. Len(queue[q]) : r = queue[q][i]
         /\ Left(q) = {i \in 1 .. Len(queue[q]) :
                         queue[q][i].seq < cut => FateOf(queue[q][i]) = "leave"}
         /\ \A i \in 1 .. Len(queue[q]) :
              queue[q][i].seq < cut /\ FateOf(queue[q][i]) = "take" => queue[q][i] \in Taken(q)
         /\ queue' = [queue EXCEPT ![q] = queue'[q]]
         /\ Thins(queue'[q], queue[q], Left(q))
         /\ queue' \in [Queues -> Seq(Rec)] /\ out' \subseteq Rec
  <1> DEFINE q == QueueOrder[at]
             n == Len(queue[q])
  <1>0. q \in Queues
    BY QueuesAre DEF TypeOK
  <1>1. /\ queue[q] \in Seq(Rec) /\ n \in Nat /\ DOMAIN queue[q] = 1 .. n
        /\ \A i \in 1 .. n : queue[q][i] \in Rec
        /\ queue \in [Queues -> Seq(Rec)]
    BY <1>0 DEF TypeOK
  <1>2. /\ BelowCut(q) \in 0 .. n
        /\ \A i \in 1 .. n : i <= BelowCut(q) <=> queue[q][i].seq < cut
    BY <1>0, BelowCutIs
  <1>3. /\ pc = "drain" /\ holder[q] = "free" /\ out' = out \cup Taken(q)
        /\ queue' = [queue EXCEPT ![q] = Only(queue[q], Left(q))]
    BY DEF TakeBelow
  <1> HIDE DEF q, n
  <1>4. Left(q) = {i \in 1 .. n : queue[q][i].seq < cut => FateOf(queue[q][i]) = "leave"}
    BY <1>1, <1>2 DEF Left
  <1>5. Thins(Only(queue[q], Left(q)), queue[q], Left(q))
    BY <1>1, <1>4, OnlyThins DEF n
  <1>6. queue'[q] = Only(queue[q], Left(q)) /\ queue' = [queue EXCEPT ![q] = queue'[q]]
    BY <1>0, <1>1, <1>3
  <1>7. Thins(queue'[q], queue[q], Left(q))
    BY <1>5, <1>6
  <1>8. queue' \in [Queues -> Seq(Rec)]
    <2>1. queue'[q] \in Seq(Rec)
      BY <1>7 DEF Thins
    <2> QED
      BY <1>0, <1>1, <1>6, <2>1
  <1>9. \A i \in 1 .. n :
          queue[q][i].seq < cut /\ FateOf(queue[q][i]) = "take" => queue[q][i] \in Taken(q)
    <2> SUFFICES ASSUME NEW i \in 1 .. n, queue[q][i].seq < cut, FateOf(queue[q][i]) = "take"
                 PROVE  queue[q][i] \in Taken(q)
      OBVIOUS
    <2>1. i \in 1 .. BelowCut(q)
      BY <1>1, <1>2
    <2> QED
      BY <2>1 DEF Taken
  <1>10. ASSUME NEW r \in Taken(q)
         PROVE  /\ r \in Rec /\ r.seq < cut /\ FateOf(r) = "take"
                /\ \E i \in 1 .. n : r = queue[q][i]
    <2>1. PICK i \in 1 .. BelowCut(q) : FateOf(queue[q][i]) = "take" /\ r = queue[q][i]
      BY DEF Taken
    <2>2. i \in 1 .. n /\ i <= BelowCut(q)
      BY <1>1, <1>2
    <2>3. r \in Rec
      BY <1>1, <2>1, <2>2
    <2>4. r.seq < cut
      BY <1>2, <2>1, <2>2
    <2> QED
      BY <2>1, <2>2, <2>3, <2>4
  <1>11. out' \subseteq Rec
    BY <1>3, <1>10 DEF TypeOK
  <1> QED
    BY <1>0, <1>3, <1>4, <1>6, <1>7, <1>8, <1>9, <1>10, <1>11 DEF q, n

-----------------------------------------------------------------------------
(***************************************************************************)
(* The order of the stamps.                                                *)
(***************************************************************************)

(* A set whose members are told apart by stamps below a bound. *)
Stamped(S) ==
  /\ \A r \in S : r.seq \in 0 .. MaxRecords - 1
  /\ \A r, s \in S : r.seq = s.seq => r = s

(* f is the set in the order of the stamps. *)
Orders(f, S) ==
  /\ f \in Seq(S) /\ Len(f) \in Nat
  /\ \A i, j \in 1 .. Len(f) : i < j => f[i].seq < f[j].seq
  /\ \A r \in S : \E i \in 1 .. Len(f) : f[i] = r

StampsIn(S) == {r.seq : r \in S}

(* An order of a set lists its stamps. *)
LEMMA OrdersList ==
  ASSUME NEW S, Stamped(S), NEW f, Orders(f, S)
  PROVE  /\ StampsIn(S) \in SUBSET Nat /\ \A x \in StampsIn(S) : x < MaxRecords
         /\ [k \in 1 .. Len(f) |-> f[k].seq] \in [1 .. Len(f) -> StampsIn(S)]
         /\ Lists([k \in 1 .. Len(f) |-> f[k].seq], Len(f), StampsIn(S))
  <1> DEFINE n == Len(f)
             g == [k \in 1 .. n |-> f[k].seq]
             K == StampsIn(S)
  <1>1. n \in Nat /\ \A k \in 1 .. n : f[k] \in S
    BY DEF Orders
  <1>2. \A r \in S : r.seq \in 0 .. MaxRecords - 1 /\ r.seq \in K
    BY DEF Stamped, StampsIn
  <1>3. K \in SUBSET Nat /\ \A x \in K : x < MaxRecords
    BY <1>2 DEF StampsIn
  <1> HIDE DEF n, K
  <1>4. \A k \in 1 .. n : g[k] = f[k].seq /\ g[k] \in K
    BY <1>1, <1>2
  <1>5. g \in [1 .. n -> K]
    BY <1>4
  <1>6. \A i, j \in 1 .. n : i < j => g[i] < g[j]
    BY <1>4 DEF Orders, n
  <1> HIDE DEF g
  <1>7. ASSUME NEW x \in K PROVE \E i \in 1 .. n : g[i] = x
    <2>1. PICK r \in S : x = r.seq
      BY DEF K, StampsIn
    <2>2. PICK i \in 1 .. n : f[i] = r
      BY DEF Orders, n
    <2> QED
      BY <1>4, <2>1, <2>2
  <1>8. Lists(g, n, K)
    BY <1>1, <1>5, <1>6, <1>7 DEF Lists
  <1> QED
    BY <1>3, <1>5, <1>8 DEF g, n, K

(* There is one order of a set. *)
LEMMA OrdersAgree ==
  ASSUME NEW S, Stamped(S), NEW f, Orders(f, S), NEW g, Orders(g, S)
  PROVE  f = g
  <1> DEFINE fs == [k \in 1 .. Len(f) |-> f[k].seq]
             gs == [k \in 1 .. Len(g) |-> g[k].seq]
             K == StampsIn(S)
  <1>1. /\ K \in SUBSET Nat /\ Len(f) \in Nat /\ Len(g) \in Nat
        /\ fs \in [1 .. Len(f) -> K] /\ Lists(fs, Len(f), K)
        /\ gs \in [1 .. Len(g) -> K] /\ Lists(gs, Len(g), K)
    BY OrdersList DEF Orders
  <1>2. \A i \in 1 .. Len(f) : fs[i] = f[i].seq /\ f[i] \in S
    BY DEF Orders
  <1>3. \A i \in 1 .. Len(g) : gs[i] = g[i].seq /\ g[i] \in S
    BY DEF Orders
  <1> HIDE DEF fs, gs, K
  <1>a. Cardinality(K) = Len(f)
    BY <1>1, ListsCount
  <1>b. Cardinality(K) = Len(g)
    BY <1>1, ListsCount
  <1>4. Len(f) = Len(g)
    BY <1>a, <1>b
  <1>5. fs = gs
    BY <1>1, <1>4, ListsAgree
  <1>6. \A i \in 1 .. Len(f) : f[i] = g[i]
    BY <1>2, <1>3, <1>4, <1>5 DEF Stamped
  <1>7. f \in Seq(S) /\ g \in Seq(S)
    BY DEF Orders
  <1> QED
    BY <1>4, <1>6, <1>7

(* The sort orders what it is given. *)
LEMMA InStampOrderOrders ==
  ASSUME NEW S, Stamped(S)
  PROVE  Orders(InStampOrder(S), S)
  <1> DEFINE K == StampsIn(S)
             c == Cardinality(K)
             a == Ascending(K)
             At(k) == CHOOSE r \in S : r.seq = a[k]
             g == [k \in 1 .. c |-> At(k)]
             o == InStampOrder(S)
  <1>1. K \in SUBSET Nat /\ \A x \in K : x < MaxRecords
    BY DEF Stamped, StampsIn
  <1>2. c \in Nat /\ a \in [1 .. c -> K] /\ Lists(a, c, K)
    BY <1>1, AscendingLists
  <1> HIDE DEF K, c, a
  <1>3. ASSUME NEW k \in 1 .. c PROVE At(k) \in S /\ At(k).seq = a[k]
    <2>1. a[k] \in K
      BY <1>2
    <2>2. \E r \in S : r.seq = a[k]
      BY <2>1 DEF K, StampsIn
    <2> QED
      BY <2>2
  <1> HIDE DEF At
  <1>4. \A k \in 1 .. c : g[k] \in S /\ g[k].seq = a[k]
    BY <1>3
  <1>5. g \in [1 .. c -> S]
    BY <1>4
  <1> HIDE DEF g
  <1>6. \A i, j \in 1 .. c : i < j => g[i].seq < g[j].seq
    BY <1>2, <1>4 DEF Lists
  <1>7. ASSUME NEW r \in S PROVE \E k \in 1 .. c : g[k] = r
    <2>1. r.seq \in K
      BY DEF K, StampsIn
    <2>2. PICK k \in 1 .. c : a[k] = r.seq
      BY <1>2, <2>1 DEF Lists
    <2>3. g[k] = r
      BY <1>4, <2>2 DEF Stamped
    <2> QED
      BY <2>3
  <1>8. \A r \in S : r.seq \in Nat
    BY DEF Stamped
  <1>9. ASSUME NEW h \in [1 .. c -> S], \A i, j \in 1 .. c : i < j => h[i].seq < h[j].seq
        PROVE  h \in Injection(1 .. c, S)
    <2>1. ASSUME NEW i \in 1 .. c, NEW j \in 1 .. c, h[i] = h[j] PROVE i = j
      <3>1. h[i].seq \in Nat /\ h[j].seq \in Nat /\ h[i].seq = h[j].seq
        BY <1>8, <2>1
      <3>2. ~(h[i].seq < h[j].seq) /\ ~(h[j].seq < h[i].seq)
        BY <3>1
      <3>3. ~(i < j) /\ ~(j < i)
        BY <1>9, <3>2
      <3> QED
        BY <1>2, <3>3
    <2> QED
      BY <2>1 DEF Injection, IsInjective
  <1>10. IsFiniteSet(1 .. c) /\ Cardinality(1 .. c) = c
    BY <1>2, FS_Interval
  <1>11. g \in Injection(1 .. c, S) /\ g \in Surjection(1 .. c, S)
    BY <1>5, <1>6, <1>7, <1>9 DEF Surjection
  <1>12. IsFiniteSet(S) /\ Cardinality(S) = c
    BY <1>10, <1>11, FS_Surjection
  <1>13. o \in [1 .. c -> S] /\ \A i, j \in DOMAIN o : i < j => o[i].seq < o[j].seq
    BY <1>5, <1>6, <1>12 DEF InStampOrder
  <1> HIDE DEF o
  <1>14. o \in Surjection(1 .. c, S)
    BY <1>9, <1>10, <1>12, <1>13, FS_Injection
  <1>15. o \in Seq(S) /\ Len(o) = c
    BY <1>2, <1>13
  <1> QED
    BY <1>2, <1>13, <1>14, <1>15 DEF Orders, Surjection, o

(* A set before another, in order. *)
LEMMA OrdersConcat ==
  ASSUME NEW A, NEW B, Stamped(A), Stamped(B), NEW f, Orders(f, A), NEW g, Orders(g, B),
         \A r \in A, s \in B : r.seq < s.seq,
         NEW h \in Seq(A \cup B), Joins(h, f, g)
  PROVE  Orders(h, A \cup B)
  <1> DEFINE n == Len(f)
             m == Len(g)
             S == A \cup B
  <1>1. /\ n \in Nat /\ m \in Nat
        /\ \A i \in 1 .. n : f[i] \in A
        /\ \A i \in 1 .. m : g[i] \in B
    BY SMTT(60) DEF Orders
  <1>2. /\ h \in Seq(S) /\ Len(h) = n + m
        /\ \A i \in 1 .. n : h[i] = f[i]
        /\ \A i \in n + 1 .. n + m : h[i] = g[i - n] /\ i - n \in 1 .. m
        /\ \A i \in 1 .. m : n + i \in 1 .. n + m /\ h[n + i] = g[i]
    BY <1>1 DEF Joins
  <1> HIDE DEF n, m
  <1>3. ASSUME NEW i \in 1 .. n + m, NEW j \in 1 .. n + m, i < j PROVE h[i].seq < h[j].seq
    <2>1. CASE j \in 1 .. n
      <3>1. i \in 1 .. n
        BY <1>1, <1>3, <2>1
      <3> QED
        BY <1>2, <1>3, <2>1, <3>1 DEF Orders, n
    <2>2. CASE i \in 1 .. n /\ j \in n + 1 .. n + m
      BY <1>1, <1>2, <2>2
    <2>3. CASE i \in n + 1 .. n + m
      <3>1. j \in n + 1 .. n + m /\ i - n < j - n
        BY <1>1, <1>3, <2>3
      <3>2. i - n \in 1 .. m /\ j - n \in 1 .. m /\ h[i] = g[i - n] /\ h[j] = g[j - n]
        BY <1>2, <2>3, <3>1
      <3> QED
        BY <3>1, <3>2 DEF Orders, m
    <2> QED
      BY <1>1, <2>1, <2>2, <2>3
  <1>4. ASSUME NEW r \in S PROVE \E i \in 1 .. n + m : h[i] = r
    <2>1. CASE r \in A
      <3>1. PICK i \in 1 .. n : f[i] = r
        BY <2>1 DEF Orders, n
      <3>2. i \in 1 .. n + m /\ h[i] = r
        BY <1>1, <1>2, <3>1
      <3> QED
        BY <3>2
    <2>2. CASE r \in B
      <3>1. PICK i \in 1 .. m : g[i] = r
        BY <2>2 DEF Orders, m
      <3> QED
        BY <1>2, <3>1
    <2> QED
      BY <2>1, <2>2
  <1>5. n + m \in Nat
    BY <1>1
  <1> QED
    BY <1>2, <1>3, <1>4, <1>5 DEF Orders

-----------------------------------------------------------------------------
(***************************************************************************)
(* The program's share.                                                    *)
(***************************************************************************)
Mine(l) == {i \in 1 .. Len(l) : l[i].owner \notin Asks}
Programs(S) == {s \in S : s.owner \notin Asks}
EntriesOf(S) == {EntryOf(r) : r \in Programs(S)}

(* The program's records of a sequence, one by one. *)
LEMMA ProgramsAre ==
  ASSUME NEW l \in Seq(Rec)
  PROVE  /\ Only(l, Mine(l)) \in Seq(Rec)
         /\ Len(ProgramsOf(l)) = Len(Only(l, Mine(l)))
         /\ ProgramsOf(l) \in Seq(Entries)
         /\ \A k \in 1 .. Len(Only(l, Mine(l))) :
              ProgramsOf(l)[k] = EntryOf(Only(l, Mine(l))[k])
  <1> DEFINE t == Only(l, Mine(l))
  <1>1. t \in Seq(Rec)
    BY OnlyPicks DEF Mine
  <1>2. DOMAIN l = 1 .. Len(l)
    OBVIOUS
  <1>3. ProgramsOf(l) = [k \in DOMAIN t |-> EntryOf(t[k])]
    BY <1>2 DEF ProgramsOf, Mine
  <1> HIDE DEF t
  <1>4. DOMAIN t = 1 .. Len(t) /\ Len(t) \in Nat /\ \A k \in 1 .. Len(t) : t[k] \in Rec
    BY <1>1
  <1>5. \A r \in Rec : EntryOf(r) \in Entries
    BY DEF Rec, EntryOf, Entries
  <1>6. \A k \in 1 .. Len(t) : EntryOf(t[k]) \in Entries
    BY <1>4, <1>5
  <1> DEFINE e == [k \in 1 .. Len(t) |-> EntryOf(t[k])]
  <1>7. e \in Seq(Entries) /\ Len(e) = Len(t) /\ \A k \in 1 .. Len(t) : e[k] = EntryOf(t[k])
    BY <1>4, <1>6
  <1>8. ProgramsOf(l) = e
    BY <1>3, <1>4
  <1> QED
    BY <1>1, <1>7, <1>8 DEF t

(* The program's records of one sequence after another. *)
LEMMA ProgramsConcat ==
  ASSUME NEW l \in Seq(Rec), NEW h \in Seq(Rec), NEW w \in Seq(Rec), Joins(w, l, h)
  PROVE  Joins(ProgramsOf(w), ProgramsOf(l), ProgramsOf(h))
  <1> DEFINE n == Len(l)
             m == Len(h)
             u == Only(l, Mine(l))
             v == Only(h, Mine(h))
             x == Only(w, Mine(w))
  <1>1. /\ n \in Nat /\ m \in Nat /\ Len(w) = n + m
        /\ \A i \in 1 .. n : w[i] = l[i]
        /\ \A i \in 1 .. m : w[n + i] = h[i]
        /\ \A i \in n + 1 .. n + m : w[i] = h[i - n] /\ i - n \in 1 .. m
    BY DEF Joins
  <1>3. Mine(w) = Mine(l) \cup Shift(n, Mine(h))
    <2> HIDE DEF n, m
    <2>1. ASSUME NEW i \in Mine(w) PROVE i \in Mine(l) \cup Shift(n, Mine(h))
      <3>1. i \in 1 .. n + m /\ w[i].owner \notin Asks
        BY <1>1 DEF Mine
      <3>2. CASE i \in 1 .. n
        BY <1>1, <3>1, <3>2 DEF Mine, n
      <3>3. CASE i \in n + 1 .. n + m
        <4>1. i - n \in 1 .. m /\ i = n + (i - n) /\ w[i] = h[i - n]
          BY <1>1, <3>3
        <4>2. i - n \in Mine(h)
          BY <3>1, <4>1 DEF Mine, m
        <4> QED
          BY <4>1, <4>2 DEF Shift
      <3> QED
        BY <1>1, <3>1, <3>2, <3>3
    <2>2. ASSUME NEW i \in Mine(l) PROVE i \in Mine(w)
      BY <1>1 DEF Mine, n
    <2>3. ASSUME NEW i \in Shift(n, Mine(h)) PROVE i \in Mine(w)
      <3>1. PICK j \in Mine(h) : i = n + j
        BY DEF Shift
      <3>2. j \in 1 .. m /\ h[j].owner \notin Asks
        BY DEF Mine, m
      <3>3. i \in 1 .. n + m /\ w[i] = h[j]
        BY <1>1, <3>1, <3>2
      <3> QED
        BY <1>1, <3>2, <3>3 DEF Mine
    <2> QED
      BY <2>1, <2>2, <2>3
  <1>4. Joins(x, u, v)
    <2>1. Mine(l) \in SUBSET (1 .. Len(l)) /\ Mine(h) \in SUBSET (1 .. Len(h))
      BY DEF Mine
    <2>2. Joins(Only(w, Mine(l) \cup Shift(Len(l), Mine(h))), Only(l, Mine(l)), Only(h, Mine(h)))
      BY <2>1, OnlyConcat
    <2> QED
      BY <1>3, <2>2
  <1> DEFINE pl == ProgramsOf(l)
             ph == ProgramsOf(h)
             pw == ProgramsOf(w)
  <1>5. /\ Len(pl) = Len(u) /\ Len(ph) = Len(v) /\ Len(pw) = Len(x)
        /\ \A k \in 1 .. Len(u) : pl[k] = EntryOf(u[k])
        /\ \A k \in 1 .. Len(v) : ph[k] = EntryOf(v[k])
        /\ \A k \in 1 .. Len(x) : pw[k] = EntryOf(x[k])
    BY ProgramsAre
  <1> HIDE DEF pl, ph, pw, u, v, x
  <1> DEFINE cu == Len(u)
             cv == Len(v)
  <1>6. /\ cu \in Nat /\ cv \in Nat /\ Len(x) = cu + cv
        /\ \A k \in 1 .. cu : x[k] = u[k]
        /\ \A k \in 1 .. cv : x[cu + k] = v[k]
        /\ \A k \in cu + 1 .. cu + cv : x[k] = v[k - cu] /\ k - cu \in 1 .. cv
        /\ \A k \in 1 .. cu + cv : k \in 1 .. cu \/ k \in cu + 1 .. cu + cv
    BY <1>4 DEF Joins
  <1> HIDE DEF cu, cv
  <1>7. \A k \in 1 .. cu : pw[k] = pl[k]
    BY <1>5, <1>6 DEF cu
  <1>8. ASSUME NEW k \in 1 .. cv PROVE pw[cu + k] = ph[k]
    <2>1. cu + k \in 1 .. Len(x)
      BY <1>6
    <2> QED
      BY <1>5, <1>6, <2>1 DEF cv
  <1>9. ASSUME NEW k \in cu + 1 .. cu + cv PROVE pw[k] = ph[k - cu] /\ k - cu \in 1 .. cv
    <2>1. k - cu \in 1 .. cv /\ cu + (k - cu) = k
      BY <1>6
    <2> QED
      BY <1>8, <2>1
  <1>10. Joins(pw, pl, ph)
    BY <1>5, <1>6, <1>7, <1>8, <1>9 DEF Joins, cu, cv
  <1> QED
    BY <1>10 DEF pw, pl, ph

(* The program's records of an order are in order. *)
LEMMA ProgramsOrder ==
  ASSUME NEW S \in SUBSET Rec, Stamped(S), NEW h, Orders(h, S)
  PROVE  Orders(ProgramsOf(h), EntriesOf(S)) /\ Stamped(EntriesOf(S))
  <1> DEFINE t == Only(h, Mine(h))
             c == Len(t)
             e == ProgramsOf(h)
             E == EntriesOf(S)
  <1>0. \A r \in Rec : EntryOf(r).seq = r.seq
    BY DEF EntryOf
  <1>1. /\ h \in Seq(Rec) /\ Len(h) \in Nat /\ \A i \in 1 .. Len(h) : h[i] \in S
        /\ \A i, j \in 1 .. Len(h) : i < j => h[i].seq < h[j].seq
        /\ \A r \in S : \E i \in 1 .. Len(h) : h[i] = r
    <2>1. h \in Seq(S)
      BY DEF Orders
    <2>2. h \in Seq(Rec)
      BY <2>1
    <2> QED
      BY <2>1, <2>2 DEF Orders
  <1>2. Thins(t, h, Mine(h))
    BY <1>1, OnlyThins DEF Mine
  <1>3. /\ Len(e) = c /\ e \in Seq(Entries) /\ c \in Nat
        /\ \A k \in 1 .. c : e[k] = EntryOf(t[k])
    BY <1>1, ProgramsAre
  <1> HIDE DEF t, c, e
  <1>4. \A i \in Mine(h) : i \in 1 .. Len(h) /\ h[i] \in Programs(S)
    BY <1>1 DEF Mine, Programs
  <1>5. \A k \in 1 .. c : t[k] \in Programs(S)
    BY <1>2, <1>4 DEF Thins, c
  <1>6. \A k \in 1 .. c : e[k] \in E
    BY <1>3, <1>5 DEF EntriesOf
  <1>7. e \in Seq(E)
    BY <1>3, <1>6
  <1>8. ASSUME NEW j \in 1 .. c, NEW k \in 1 .. c, j < k PROVE e[j].seq < e[k].seq
    <2>1. PICK a \in Mine(h), b \in Mine(h) : a < b /\ t[j] = h[a] /\ t[k] = h[b]
      BY <1>2, <1>8 DEF Thins, c
    <2>2. t[j].seq < t[k].seq
      BY <1>1, <1>4, <2>1
    <2>3. e[j].seq = t[j].seq /\ e[k].seq = t[k].seq
      BY <1>0, <1>3, <1>5 DEF Programs
    <2> QED
      BY <2>2, <2>3
  <1>9. ASSUME NEW x \in E PROVE \E k \in 1 .. c : e[k] = x
    <2>1. PICK r \in Programs(S) : x = EntryOf(r)
      BY DEF EntriesOf
    <2>2. PICK i \in 1 .. Len(h) : h[i] = r
      BY <1>1 DEF Programs
    <2>3. i \in Mine(h)
      BY <2>2 DEF Mine, Programs
    <2>4. PICK k \in 1 .. c : t[k] = h[i]
      BY <1>2, <2>3 DEF Thins, c
    <2> QED
      BY <1>3, <2>1, <2>2, <2>4
  <1>10. Stamped(E)
    <2>1. ASSUME NEW x \in E PROVE \E r \in S : x = EntryOf(r) /\ x.seq = r.seq
      BY <1>0 DEF EntriesOf, Programs
    <2>2. \A x \in E : x.seq \in 0 .. MaxRecords - 1
      BY <2>1 DEF Stamped
    <2>3. ASSUME NEW x \in E, NEW y \in E, x.seq = y.seq PROVE x = y
      <3>1. PICK r \in S : x = EntryOf(r) /\ x.seq = r.seq
        BY <2>1
      <3>2. PICK s \in S : y = EntryOf(s) /\ y.seq = s.seq
        BY <2>1
      <3>3. r = s
        BY <2>3, <3>1, <3>2 DEF Stamped
      <3> QED
        BY <3>1, <3>2, <3>3
    <2> QED
      BY <2>2, <2>3 DEF Stamped
  <1> QED
    BY <1>3, <1>7, <1>8, <1>9, <1>10 DEF Orders, e

-----------------------------------------------------------------------------
(***************************************************************************)
(* What is outstanding, now and after a step.                              *)
(***************************************************************************)
LEMMA OutstandingIs ==
  ASSUME TypeOK
  PROVE  /\ Outstanding \subseteq Rec
         /\ \A q \in Queues : \A i \in 1 .. Len(queue[q]) : queue[q][i] \in Outstanding
         /\ \A r \in out : r \in Outstanding
         /\ \A p \in Pushers : Halfway(p) => pushing[p] \in Outstanding
         /\ \A r \in Outstanding :
              \/ \E q \in Queues : \E i \in 1 .. Len(queue[q]) : r = queue[q][i]
              \/ r \in out
              \/ \E p \in Pushers : Halfway(p) /\ r = pushing[p]
  <1>1. \A q \in Queues : ToSet(queue[q]) = {queue[q][i] : i \in 1 .. Len(queue[q])}
    BY DEF TypeOK, ToSet
  <1>2. \A q \in Queues : \A i \in 1 .. Len(queue[q]) : queue[q][i] \in Rec
    BY DEF TypeOK
  <1>3. \A p \in Pushers : Halfway(p) => pushing[p] \in Rec
    BY DEF TypeOK, Halfway
  <1>4. out \subseteq Rec
    BY DEF TypeOK
  <1> DEFINE U == Queued
             H == InHand
  <1>5. Outstanding = U \cup out \cup H
    BY DEF Outstanding
  <1> USE DEF Queued, InHand
  <1>6. /\ \A r \in U : \E q \in Queues : \E i \in 1 .. Len(queue[q]) : r = queue[q][i]
        /\ \A q \in Queues : \A i \in 1 .. Len(queue[q]) : queue[q][i] \in U
    <2>1. ASSUME NEW r \in U
          PROVE  \E q \in Queues : \E i \in 1 .. Len(queue[q]) : r = queue[q][i]
      <3>1. PICK q \in Queues : r \in ToSet(queue[q])
        OBVIOUS
      <3> QED
        BY <1>1, <3>1
    <2>2. ASSUME NEW q \in Queues, NEW i \in 1 .. Len(queue[q]) PROVE queue[q][i] \in U
      <3>1. queue[q][i] \in ToSet(queue[q])
        BY <1>1
      <3> QED
        BY <3>1
    <2> QED
      BY <2>1, <2>2
  <1>7. /\ \A r \in H : \E p \in Pushers : Halfway(p) /\ r = pushing[p]
        /\ \A p \in Pushers : Halfway(p) => pushing[p] \in H
    <2>1. \A r \in H : \E p \in Pushers : Halfway(p) /\ r = pushing[p]
      BY Zenon DEF Halfway
    <2>2. \A p \in Pushers : Halfway(p) => pushing[p] \in H
      BY Zenon DEF Halfway
    <2> QED
      BY <2>1, <2>2
  <1> HIDE DEF U, H
  <1>8. \A r \in Outstanding :
              \/ \E q \in Queues : \E i \in 1 .. Len(queue[q]) : r = queue[q][i]
              \/ r \in out
              \/ \E p \in Pushers : Halfway(p) /\ r = pushing[p]
    BY <1>5, <1>6, <1>7
  <1>9. Outstanding \subseteq Rec
    BY <1>2, <1>3, <1>4, <1>8
  <1> QED
    BY <1>5, <1>6, <1>7, <1>8, <1>9

LEMMA OutstandingNext ==
  ASSUME TypeOK'
  PROVE  \A r \in Outstanding' :
              \/ \E q \in Queues : \E i \in 1 .. Len(queue'[q]) : r = queue'[q][i]
              \/ r \in out'
              \/ \E p \in Pushers : pushing'[p] # Nothing /\ r = pushing'[p]
  <1>1. \A q \in Queues : ToSet(queue'[q]) = {queue'[q][i] : i \in 1 .. Len(queue'[q])}
    BY DEF TypeOK, ToSet
  <1> DEFINE U == Queued'
             H == InHand'
  <1>2. Outstanding' = U \cup out' \cup H
    BY DEF Outstanding
  <1> USE DEF Queued, InHand
  <1>3. ASSUME NEW r \in U
        PROVE  \E q \in Queues : \E i \in 1 .. Len(queue'[q]) : r = queue'[q][i]
    <2>1. PICK q \in Queues : r \in ToSet(queue'[q])
      OBVIOUS
    <2> QED
      BY <1>1, <2>1
  <1>4. \A r \in H : \E p \in Pushers : pushing'[p] # Nothing /\ r = pushing'[p]
    BY Zenon
  <1> HIDE DEF U, H
  <1> QED
    BY <1>2, <1>3, <1>4

(***************************************************************************)
(* Three kinds of step: one stamps a record, one pushes it, and every      *)
(* other at most thins the queues out.                                     *)
(***************************************************************************)
Thinning ==
  /\ UNCHANGED <<next, holder, pushing, engineAt, closed>>
  /\ \A q \in Queues : \A k \in 1 .. Len(queue'[q]) :
       \E i \in 1 .. Len(queue[q]) : queue'[q][k] = queue[q][i]
  /\ \A q \in Queues : \A j, k \in 1 .. Len(queue'[q]) : j < k =>
       \E a, b \in 1 .. Len(queue[q]) : a < b /\ queue'[q][j] = queue[q][a]
                                              /\ queue'[q][k] = queue[q][b]
  /\ \A r \in out' : r \in Outstanding
  /\ ended' => closed

Stamping(p, q, o, c) ==
  /\ Stamp(p, q, o, c)
  /\ UNCHANGED <<surface, queue, state, engineAt, readVars, askVars>>
  /\ q \in {"session", "calls", "orders"} => o \notin Asks
  /\ c => o \notin Asks
  /\ p = "engine" => closed = FALSE /\ q # "calls"
  /\ p = "caller" => q = "calls" /\ c = FALSE
  /\ closed' = IF c THEN TRUE ELSE closed

(* A step that leaves the queues alone. *)
LEMMA QuietThins ==
  ASSUME TypeOK, CloseIsLast, UNCHANGED <<next, queue, holder, pushing, engineAt, closed, ended>>,
         out' = out \/ out' = {}
  PROVE  Thinning
  <1>1. \A r \in out' : r \in Outstanding
    BY OutstandingIs
  <1> QED
    BY <1>1 DEF Thinning, CloseIsLast

LEMMA TakeThins ==
  ASSUME TypeOK, StampsAreOrdered, CloseIsLast, TakeBelow
  PROVE  Thinning
  <1> DEFINE q0 == QueueOrder[at]
  <1>1. /\ q0 \in Queues /\ out' = out \cup Taken(q0)
        /\ \A r \in Taken(q0) : \E i \in 1 .. Len(queue[q0]) : r = queue[q0][i]
        /\ Left(q0) \subseteq 1 .. Len(queue[q0])
        /\ queue' = [queue EXCEPT ![q0] = queue'[q0]]
        /\ Thins(queue'[q0], queue[q0], Left(q0))
    BY TakeFacts
  <1> HIDE DEF q0
  <1>2. \A r \in out' : r \in Outstanding
    BY <1>1, OutstandingIs
  <1>3. UNCHANGED <<next, holder, pushing, engineAt, closed>> /\ (ended' => closed)
    BY DEF TakeBelow, CloseIsLast
  <1>4. \A q \in Queues : q # q0 => queue'[q] = queue[q]
    BY <1>1 DEF TypeOK
  <1>5. ASSUME NEW q \in Queues, NEW k \in 1 .. Len(queue'[q])
        PROVE  \E i \in 1 .. Len(queue[q]) : queue'[q][k] = queue[q][i]
    <2>1. CASE q = q0
      BY <1>1, <2>1 DEF Thins
    <2>2. CASE q # q0
      BY <1>4, <2>2
    <2> QED
      BY <2>1, <2>2
  <1>6. ASSUME NEW q \in Queues, NEW j \in 1 .. Len(queue'[q]), NEW k \in 1 .. Len(queue'[q]), j < k
        PROVE  \E a, b \in 1 .. Len(queue[q]) : a < b /\ queue'[q][j] = queue[q][a]
                                                       /\ queue'[q][k] = queue[q][b]
    <2>1. CASE q = q0
      <3>1. PICK a \in Left(q0), b \in Left(q0) :
              a < b /\ queue'[q0][j] = queue[q0][a] /\ queue'[q0][k] = queue[q0][b]
        BY <1>1, <1>6, <2>1 DEF Thins
      <3> QED
        BY <1>1, <2>1, <3>1
    <2>2. CASE q # q0
      BY <1>4, <1>6, <2>2
    <2> QED
      BY <2>1, <2>2
  <1> QED
    BY <1>2, <1>3, <1>5, <1>6 DEF Thinning

(* What a question takes by its number. *)
LEMMA TakeByNumberFacts ==
  ASSUME TypeOK, NEW q \in Queues, TakeByNumber(q)
  PROVE  \E i \in 1 .. Len(queue[q]) :
           /\ queue[q][i].owner \in held
           /\ queue' = [queue EXCEPT ![q] = queue'[q]]
           /\ Thins(queue'[q], queue[q], (1 .. Len(queue[q])) \ {i})
           /\ answers' = answers \cup {queue[q][i]}
           /\ queue' \in [Queues -> Seq(Rec)]
  <1> DEFINE mine == {i \in 1 .. Len(queue[q]) : queue[q][i].owner \in held}
             i == CHOOSE i \in mine : \A j \in mine : i <= j
  <1>1. /\ queue[q] \in Seq(Rec) /\ DOMAIN queue[q] = 1 .. Len(queue[q])
        /\ queue \in [Queues -> Seq(Rec)]
    BY DEF TypeOK
  <1>2. /\ mine # {}
        /\ answers' = answers \cup {queue[q][i]}
        /\ queue' = [queue EXCEPT ![q] = Only(queue[q], (1 .. Len(queue[q])) \ {i})]
    BY <1>1 DEF TakeByNumber
  <1>3. i \in mine
    <2>1. mine \in SUBSET Nat
      OBVIOUS
    <2>2. \E m \in mine : \A n \in mine : m <= n
      BY <1>2, <2>1, LeastNatural
    <2> QED
      BY <2>2
  <1> HIDE DEF i
  <1>4. i \in 1 .. Len(queue[q]) /\ queue[q][i].owner \in held
    BY <1>3
  <1>5. queue'[q] = Only(queue[q], (1 .. Len(queue[q])) \ {i})
    BY <1>1, <1>2
  <1>6. Thins(queue'[q], queue[q], (1 .. Len(queue[q])) \ {i})
    BY <1>1, <1>5, OnlyThins
  <1>7. queue' \in [Queues -> Seq(Rec)] /\ queue' = [queue EXCEPT ![q] = queue'[q]]
    <2>1. queue'[q] \in Seq(Rec)
      BY <1>6 DEF Thins
    <2> QED
      BY <1>1, <1>2, <2>1
  <1> QED
    BY <1>2, <1>4, <1>6, <1>7

LEMMA TakeByNumberThins ==
  ASSUME TypeOK, CloseIsLast, NEW q0 \in Queues, TakeByNumber(q0)
  PROVE  Thinning
  <1>1. PICK x \in 1 .. Len(queue[q0]) :
           /\ queue' = [queue EXCEPT ![q0] = queue'[q0]]
           /\ Thins(queue'[q0], queue[q0], (1 .. Len(queue[q0])) \ {x})
    BY TakeByNumberFacts
  <1>2. \A r \in out' : r \in Outstanding
    BY OutstandingIs DEF TakeByNumber, readVars
  <1>3. UNCHANGED <<next, holder, pushing, engineAt, closed>> /\ (ended' => closed)
    BY DEF TakeByNumber, CloseIsLast, readVars
  <1>4. \A q \in Queues : q # q0 => queue'[q] = queue[q]
    BY <1>1 DEF TypeOK
  <1>5. ASSUME NEW q \in Queues, NEW k \in 1 .. Len(queue'[q])
        PROVE  \E i \in 1 .. Len(queue[q]) : queue'[q][k] = queue[q][i]
    <2>1. CASE q = q0
      BY <1>1, <2>1 DEF Thins
    <2>2. CASE q # q0
      BY <1>4, <2>2
    <2> QED
      BY <2>1, <2>2
  <1>6. ASSUME NEW q \in Queues, NEW j \in 1 .. Len(queue'[q]), NEW k \in 1 .. Len(queue'[q]), j < k
        PROVE  \E a, b \in 1 .. Len(queue[q]) : a < b /\ queue'[q][j] = queue[q][a]
                                                       /\ queue'[q][k] = queue[q][b]
    <2>1. CASE q = q0
      <3> DEFINE L == (1 .. Len(queue[q0])) \ {x}
      <3>1. PICK a \in L, b \in L :
              a < b /\ queue'[q0][j] = queue[q0][a] /\ queue'[q0][k] = queue[q0][b]
        BY <1>1, <1>6, <2>1 DEF Thins
      <3> QED
        BY <2>1, <3>1
    <2>2. CASE q # q0
      BY <1>4, <1>6, <2>2
    <2> QED
      BY <2>1, <2>2
  <1> QED
    BY <1>2, <1>3, <1>5, <1>6 DEF Thinning

LEMMA DeliverThins ==
  ASSUME TypeOK, CloseIsLast, Deliver
  PROVE  Thinning
  <1>1. UNCHANGED <<next, queue, holder, pushing, engineAt, closed>> /\ out' = {}
    BY DEF Deliver, pushVars
  <1>2. ended' => closed
    <2>1. CASE \E c \in out : c.close
      BY <2>1, OutstandingIs DEF CloseIsLast
    <2>2. CASE ~\E c \in out : c.close
      BY <2>2 DEF Deliver, CloseIsLast
    <2> QED
      BY <2>1, <2>2
  <1> QED
    BY <1>1, <1>2 DEF Thinning

LEMMA StampingSteps ==
  ASSUME TypeOK, Pushing
  PROVE  \/ \E p \in Pushers, q \in Queues, o \in Owners, c \in BOOLEAN : Stamping(p, q, o, c)
         \/ \E p \in Pushers : Push(p)
         \/ WriteState
  <1>0. /\ NoOwner \in Owners /\ Program \in Owners /\ NoOwner \notin Asks /\ Program \notin Asks
        /\ "engine" \in Pushers /\ "caller" \in Pushers /\ closed \in BOOLEAN
        /\ "session" \in Queues /\ "calls" \in Queues
    BY QueuesAre DEF Owners, NoOwner, Program, Asks, Pushers, TypeOK
  <1>1. ASSUME NEW q \in Queues, NEW o \in Owners, EnginePush(q, o)
        PROVE  Stamping("engine", q, o, FALSE)
    <2>1. q \in {"session", "calls", "orders"} => o \notin Asks
      BY <1>0, <1>1 DEF EnginePush, MayOwn
    <2> QED
      BY <1>0, <1>1, <2>1 DEF EnginePush, Stamping
  <1>2. ASSUME PushClosed PROVE Stamping("engine", "session", NoOwner, TRUE)
    BY <1>0, <1>2 DEF PushClosed, Stamping
  <1>3. ASSUME PushCallRecord PROVE Stamping("caller", "calls", Program, FALSE)
    BY <1>0, <1>3 DEF PushCallRecord, Stamping
  <1> QED
    BY <1>0, <1>1, <1>2, <1>3 DEF Pushing

(* Every step is of one of the three kinds. *)
LEMMA StepKinds ==
  ASSUME TypeOK, StampsAreOrdered, CloseIsLast, [Next]_vars
  PROVE  \/ \E p \in Pushers, q \in Queues, o \in Owners, c \in BOOLEAN : Stamping(p, q, o, c)
         \/ \E p \in Pushers : Push(p)
         \/ Thinning
  <1> USE DEF pushVars, readVars, askVars
  <1>1. CASE WriteState
    BY <1>1, QuietThins DEF WriteState
  <1>2. CASE ProcessMsgs
    BY <1>2, QuietThins DEF ProcessMsgs
  <1>3. CASE PumpForAsk
    BY <1>3, QuietThins DEF PumpForAsk
  <1>4. CASE TakeCut
    BY <1>4, QuietThins DEF TakeCut
  <1>5. CASE TakeBelow
    BY <1>5, TakeThins
  <1>6. CASE Deliver
    BY <1>6, DeliverThins
  <1>7. CASE Ask
    BY <1>7, QuietThins DEF Ask
  <1>8. CASE StopAsking
    BY <1>8, QuietThins DEF StopAsking
  <1>9. ASSUME NEW q \in Queues, TakeByNumber(q) PROVE Thinning
    BY <1>9, TakeByNumberThins
  <1>10. CASE UNCHANGED vars
    BY <1>10, QuietThins DEF vars
  <1>11. CASE Pushing
    BY <1>1, <1>11, StampingSteps
  <1> QED
    BY <1>2, <1>3, <1>4, <1>5, <1>6, <1>7, <1>8, <1>9, <1>10, <1>11 DEF Next, Reading, Asking

-----------------------------------------------------------------------------
(***************************************************************************)
(* The types are kept.                                                     *)
(***************************************************************************)
LEMMA TypeStep ==
  ASSUME TypeOK, StampsAreOrdered, [Next]_vars
  PROVE  TypeOK'
  <1> USE DEF pushVars, readVars, askVars
  <1>0. Len(QueueOrder) \in Nat /\ Len(QueueOrder) >= 1
    BY QueuesAre
  <1>1. ASSUME NEW p \in Pushers, NEW q \in Queues, NEW o \in Owners, NEW c \in BOOLEAN,
               Stamping(p, q, o, c)
        PROVE  TypeOK'
    <2>1. closed' \in BOOLEAN
      BY <1>1 DEF TypeOK, Stamping
    <2>2. /\ next' \in 0 .. MaxRecords
          /\ holder' \in [Queues -> Pushers \cup {"free"}]
          /\ pushing' \in [Pushers -> Rec \cup {Nothing}]
      BY <1>1, StampTypes DEF Stamping
    <2>3. UNCHANGED <<surface, queue, state, engineAt, readVars, askVars>>
      BY <1>1 DEF Stamping
    <2> QED
      BY <2>1, <2>2, <2>3 DEF TypeOK
  <1>2. ASSUME NEW p \in Pushers, Push(p) PROVE TypeOK'
    <2>1. UNCHANGED <<surface, next, state, closed, readVars, askVars>>
      BY <1>2 DEF Push
    <2>2. /\ queue' \in [Queues -> Seq(Rec)]
          /\ holder' \in [Queues -> Pushers \cup {"free"}]
          /\ pushing' \in [Pushers -> Rec \cup {Nothing}]
          /\ engineAt' \in 0 .. MaxRecords
      BY <1>2, PushTypes
    <2> QED
      BY <2>1, <2>2 DEF TypeOK
  <1>3. CASE WriteState
    <2>1. state' \in StateType
      BY <1>3 DEF WriteState, TypeOK, StateType
    <2>2. UNCHANGED <<surface, next, queue, holder, pushing, engineAt, closed, readVars, askVars>>
      BY <1>3 DEF WriteState
    <2> QED
      BY <2>1, <2>2 DEF TypeOK
  <1>4. NoState \in StateType
    BY DEF NoState, StateType
  <1>5. CASE ProcessMsgs
    <2>1. take' = "dispatch" /\ polled' = state /\ pc' = "cut" /\ turn' = "program"
      BY <1>5 DEF ProcessMsgs, PollTheState
    <2> QED
      BY <1>5, <2>1 DEF ProcessMsgs, TypeOK
  <1>6. CASE PumpForAsk
    <2>1. take' \in {"whole", "own"} /\ polled' \in {NoState, state} /\ pc' = "cut"
      BY <1>6 DEF PumpForAsk, PollTheState
    <2>2. polled' \in StateType
      BY <1>4, <2>1 DEF TypeOK
    <2> QED
      BY <1>6, <2>1, <2>2 DEF PumpForAsk, TypeOK
  <1>7. CASE TakeCut
    BY <1>7 DEF TakeCut, TypeOK
  <1>8. CASE TakeBelow
    <2>1. queue' \in [Queues -> Seq(Rec)] /\ out' \subseteq Rec
      BY <1>8, TakeFacts
    <2>2. pc' \in {"idle", "cut", "drain", "deliver"} /\ at' \in 1 .. Len(QueueOrder)
      <3>1. CASE LastQueue
        BY <1>8, <3>1 DEF TakeBelow, TypeOK
      <3>2. CASE ~LastQueue
        BY <1>0, <1>8, <3>2 DEF TakeBelow, TypeOK, LastQueue
      <3> QED
        BY <3>1, <3>2
    <2>3. UNCHANGED <<surface, next, holder, pushing, state, engineAt, closed,
                      turn, take, cut, polled, told, ended, log, askVars>>
      BY <1>8 DEF TakeBelow
    <2> QED
      BY <2>1, <2>2, <2>3 DEF TypeOK
  <1>9. CASE Deliver
    <2>1. /\ pc' = "idle" /\ take' = "dispatch" /\ at' = 1 /\ cut' = 0 /\ out' = {}
          /\ polled' = NoState /\ turn' = IF turn = "program" THEN "free" ELSE turn
          /\ UNCHANGED <<surface, pushVars, asked, held>>
      BY <1>9 DEF Deliver
    <2>2. told' \in StateType
      BY <1>9 DEF Deliver, FinalState, PolledState, TypeOK
    <2>3. ended' \in BOOLEAN
      BY <1>9 DEF Deliver, TypeOK
    <2>4. UpToTheClose \subseteq out
      BY DEF UpToTheClose
    <2>5. answers' \subseteq Rec
      BY <1>9, <2>4 DEF Deliver, HandOver, TypeOK
    <2>6. log' \in Seq(Rec)
      <3>1. out \in SUBSET Rec /\ Stamped(UpToTheClose)
        <4>1. \A r \in Rec : r.seq \in 0 .. MaxRecords - 1
          BY DEF Rec
        <4> QED
          BY <2>4, <4>1, OutstandingIs DEF TypeOK, Stamped, StampsAreOrdered
      <3>2. InStampOrder(UpToTheClose) \in Seq(UpToTheClose)
        BY <3>1, InStampOrderOrders DEF Orders
      <3>3. InStampOrder(UpToTheClose) \in Seq(Rec)
        BY <2>4, <3>1, <3>2
      <3>4. log \in Seq(Rec) /\ (log' = log \/ log' = log \o InStampOrder(UpToTheClose))
        BY <1>9 DEF Deliver, HandOver, TypeOK
      <3> DEFINE x == InStampOrder(UpToTheClose)
      <3> HIDE DEF x
      <3>5. x \in Seq(Rec) /\ log \in Seq(Rec) /\ (log' = log \/ log' = log \o x)
        BY <3>3, <3>4 DEF x
      <3>6. log \o x \in Seq(Rec)
        BY <3>5
      <3> QED
        BY <3>5, <3>6
    <2>7. at' \in 1 .. Len(QueueOrder) /\ cut' \in 0 .. MaxRecords
      BY <1>0, <2>1
    <2>8. turn' \in {"free", "program", "question"}
      BY <2>1 DEF TypeOK
    <2>9. polled' \in StateType
      BY <1>4, <2>1
    <2> QED
      BY <2>1, <2>2, <2>3, <2>5, <2>6, <2>7, <2>8, <2>9 DEF TypeOK
  <1>10. CASE Ask
    <2>1. asked' \in 0 .. MaxAsks /\ held' \subseteq Asks
      BY <1>10 DEF Ask, TypeOK, Asks
    <2> QED
      BY <1>10, <2>1 DEF Ask, TypeOK
  <1>11. CASE StopAsking
    BY <1>11 DEF StopAsking, TypeOK
  <1>12. ASSUME NEW q \in Queues, TakeByNumber(q) PROVE TypeOK'
    <2>1. queue' \in [Queues -> Seq(Rec)]
      BY <1>12, TakeByNumberFacts
    <2>2. answers' \subseteq Rec
      <3>1. PICK i \in 1 .. Len(queue[q]) : answers' = answers \cup {queue[q][i]}
        BY <1>12, TakeByNumberFacts
      <3>2. queue[q][i] \in Rec
        BY OutstandingIs
      <3> QED
        BY <3>1, <3>2 DEF TypeOK
    <2> QED
      BY <1>12, <2>1, <2>2 DEF TakeByNumber, TypeOK
  <1>13. CASE UNCHANGED vars
    BY <1>13 DEF vars, TypeOK
  <1>14. CASE Pushing
    BY <1>1, <1>2, <1>3, <1>14, StampingSteps
  <1> QED
    BY <1>5, <1>6, <1>7, <1>8, <1>9, <1>10, <1>11, <1>12, <1>13, <1>14 DEF Next, Reading, Asking

-----------------------------------------------------------------------------
(***************************************************************************)
(* What is outstanding after each kind of step.                            *)
(***************************************************************************)
LEMMA ThinningLeaves ==
  ASSUME TypeOK, TypeOK', Thinning
  PROVE  \A r \in Outstanding' : r \in Outstanding
  <1> SUFFICES ASSUME NEW r \in Outstanding' PROVE r \in Outstanding
    OBVIOUS
  <1>1. CASE \E q \in Queues : \E i \in 1 .. Len(queue'[q]) : r = queue'[q][i]
    BY <1>1, OutstandingIs DEF Thinning
  <1>2. CASE r \in out'
    BY <1>2 DEF Thinning
  <1>3. CASE \E p \in Pushers : pushing'[p] # Nothing /\ r = pushing'[p]
    BY <1>3, OutstandingIs DEF Thinning, Halfway
  <1> QED
    BY <1>1, <1>2, <1>3, OutstandingNext

LEMMA StampingAdds ==
  ASSUME TypeOK, TypeOK', NEW p \in Pushers, NEW q \in Queues, NEW o \in Owners, NEW c \in BOOLEAN,
         Stamping(p, q, o, c)
  PROVE  \A r \in Outstanding' : r \in Outstanding \/ r = NewRecord(q, o, c)
  <1> SUFFICES ASSUME NEW r \in Outstanding' PROVE r \in Outstanding \/ r = NewRecord(q, o, c)
    OBVIOUS
  <1>0. UNCHANGED <<queue, out>>
    BY DEF Stamping, readVars
  <1>1. CASE \E q1 \in Queues : \E i \in 1 .. Len(queue'[q1]) : r = queue'[q1][i]
    BY <1>0, <1>1, OutstandingIs
  <1>2. CASE r \in out'
    BY <1>0, <1>2, OutstandingIs
  <1>3. CASE \E p1 \in Pushers : pushing'[p1] # Nothing /\ r = pushing'[p1]
    <2>1. PICK p1 \in Pushers : pushing'[p1] # Nothing /\ r = pushing'[p1]
      BY <1>3
    <2>2. pushing' = [pushing EXCEPT ![p] = NewRecord(q, o, c)] /\ pushing \in [Pushers -> Rec \cup {Nothing}]
      BY StampTypes DEF Stamping, TypeOK
    <2>3. CASE p1 = p
      BY <2>1, <2>2, <2>3
    <2>4. CASE p1 # p
      <3>1. pushing'[p1] = pushing[p1]
        BY <2>2, <2>4
      <3> QED
        BY <2>1, <3>1, OutstandingIs DEF Halfway
    <2> QED
      BY <2>3, <2>4
  <1> QED
    BY <1>1, <1>2, <1>3, OutstandingNext

(* The queue a push appends to, and the others. *)
LEMMA PushedQueues ==
  ASSUME TypeOK, NEW p \in Pushers, Push(p)
  PROVE  LET r == pushing[p] IN
         /\ \A q \in Queues : q # r.q => queue'[q] = queue[q]
         /\ Len(queue[r.q]) \in Nat /\ Len(queue'[r.q]) = Len(queue[r.q]) + 1
         /\ \A i \in 1 .. Len(queue[r.q]) : queue'[r.q][i] = queue[r.q][i]
         /\ queue'[r.q][Len(queue[r.q]) + 1] = r
         /\ \A i \in 1 .. Len(queue'[r.q]) :
              i \in 1 .. Len(queue[r.q]) \/ i = Len(queue[r.q]) + 1
  <1> DEFINE r == pushing[p]
             s == queue[r.q]
  <1>1. /\ r \in Rec /\ r.q \in Queues
        /\ queue' = [queue EXCEPT ![r.q] = Append(s, r)]
    BY PushTypes
  <1>2. queue \in [Queues -> Seq(Rec)] /\ s \in Seq(Rec)
    BY <1>1 DEF TypeOK
  <1>3. queue'[r.q] = Append(s, r) /\ \A q \in Queues : q # r.q => queue'[q] = queue[q]
    BY <1>1, <1>2
  <1> HIDE DEF s, r
  <1>4. /\ Len(s) \in Nat /\ Len(Append(s, r)) = Len(s) + 1
        /\ \A i \in 1 .. Len(s) : Append(s, r)[i] = s[i]
        /\ Append(s, r)[Len(s) + 1] = r
        /\ \A i \in 1 .. Len(s) + 1 : i \in 1 .. Len(s) \/ i = Len(s) + 1
    BY <1>1, <1>2
  <1> QED
    BY <1>3, <1>4 DEF s, r

LEMMA PushMoves ==
  ASSUME TypeOK, TypeOK', NEW p \in Pushers, Push(p)
  PROVE  \A r \in Outstanding' : r \in Outstanding
  <1> SUFFICES ASSUME NEW r \in Outstanding' PROVE r \in Outstanding
    OBVIOUS
  <1>0. pushing[p] \in Outstanding /\ pushing[p].q \in Queues
    BY PushTypes, OutstandingIs
  <1>1. CASE \E q \in Queues : \E i \in 1 .. Len(queue'[q]) : r = queue'[q][i]
    <2>1. PICK q \in Queues : \E i \in 1 .. Len(queue'[q]) : r = queue'[q][i]
      BY <1>1
    <2>2. PICK i \in 1 .. Len(queue'[q]) : r = queue'[q][i]
      BY <2>1
    <2>3. CASE q # pushing[p].q
      BY <2>2, <2>3, PushedQueues, OutstandingIs
    <2>4. CASE q = pushing[p].q
      <3>1. i \in 1 .. Len(queue[q]) \/ i = Len(queue[q]) + 1
        BY <2>4, PushedQueues
      <3>2. CASE i \in 1 .. Len(queue[q])
        BY <1>0, <2>2, <2>4, <3>2, PushedQueues, OutstandingIs
      <3>3. CASE i = Len(queue[q]) + 1
        BY <1>0, <2>2, <2>4, <3>3, PushedQueues
      <3> QED
        BY <3>1, <3>2, <3>3
    <2> QED
      BY <2>3, <2>4
  <1>2. CASE r \in out'
    BY <1>2, OutstandingIs DEF Push, readVars
  <1>3. CASE \E p1 \in Pushers : pushing'[p1] # Nothing /\ r = pushing'[p1]
    <2>1. PICK p1 \in Pushers : pushing'[p1] # Nothing /\ r = pushing'[p1]
      BY <1>3
    <2>2. pushing' = [pushing EXCEPT ![p] = Nothing] /\ pushing \in [Pushers -> Rec \cup {Nothing}]
      BY PushTypes DEF TypeOK
    <2>3. p1 # p /\ pushing'[p1] = pushing[p1]
      BY <2>1, <2>2
    <2> QED
      BY <2>1, <2>3, OutstandingIs DEF Halfway
  <1> QED
    BY <1>1, <1>2, <1>3, OutstandingNext

-----------------------------------------------------------------------------
(***************************************************************************)
(* The stamps stay in order.                                               *)
(***************************************************************************)
LEMMA SeqsAreNumbers ==
  ASSUME TypeOK
  PROVE  /\ next \in Nat /\ engineAt \in Nat /\ cut \in Nat
         /\ \A r \in Outstanding : r.seq \in Nat
         /\ \A q \in Queues : \A i \in 1 .. Len(queue[q]) : queue[q][i].seq \in Nat
         /\ \A p \in Pushers : Halfway(p) => pushing[p].seq \in Nat /\ pushing[p].q \in Queues
  <1>1. \A r \in Rec : r.seq \in Nat /\ r.q \in Queues
    BY DEF Rec
  <1>2. Outstanding \subseteq Rec
    BY OutstandingIs
  <1>3. next \in Nat /\ engineAt \in Nat /\ cut \in Nat
    BY DEF TypeOK
  <1> QED
    BY <1>1, <1>2, <1>3, OutstandingIs

LEMMA StampsThinning ==
  ASSUME TypeOK, TypeOK', StampsAreOrdered, Thinning
  PROVE  StampsAreOrdered'
  <1>1. /\ \A r \in Outstanding' : r.seq < next'
        /\ \A r, s \in Outstanding' : r.seq = s.seq => r = s
    BY ThinningLeaves DEF StampsAreOrdered, Thinning
  <1>2. ASSUME NEW q \in Queues, NEW i \in 1 .. Len(queue'[q]), NEW j \in 1 .. Len(queue'[q]), i < j
        PROVE  queue'[q][i].seq < queue'[q][j].seq
    <2>1. PICK a \in 1 .. Len(queue[q]), b \in 1 .. Len(queue[q]) :
            a < b /\ queue'[q][i] = queue[q][a] /\ queue'[q][j] = queue[q][b]
      BY <1>2 DEF Thinning
    <2> QED
      BY <2>1 DEF StampsAreOrdered
  <1>3. ASSUME NEW p \in Pushers, Halfway(p)'
        PROVE  /\ holder'[pushing'[p].q] = p
               /\ \A i \in 1 .. Len(queue'[pushing'[p].q]) :
                    queue'[pushing'[p].q][i].seq < pushing'[p].seq
    <2>1. Halfway(p) /\ pushing' = pushing /\ holder' = holder /\ pushing[p].q \in Queues
      BY <1>3, SeqsAreNumbers DEF Thinning, Halfway
    <2>2. ASSUME NEW i \in 1 .. Len(queue'[pushing[p].q])
          PROVE  queue'[pushing[p].q][i].seq < pushing[p].seq
      <3>1. PICK a \in 1 .. Len(queue[pushing[p].q]) :
              queue'[pushing[p].q][i] = queue[pushing[p].q][a]
        BY <2>1 DEF Thinning
      <3> QED
        BY <2>1, <3>1 DEF StampsAreOrdered
    <2> QED
      BY <2>1, <2>2 DEF StampsAreOrdered
  <1> QED
    BY <1>1, <1>2, <1>3 DEF StampsAreOrdered

LEMMA StampsStamping ==
  ASSUME TypeOK, TypeOK', StampsAreOrdered,
         NEW p \in Pushers, NEW q \in Queues, NEW o \in Owners, NEW c \in BOOLEAN,
         Stamping(p, q, o, c)
  PROVE  StampsAreOrdered'
  <1> DEFINE n == NewRecord(q, o, c)
  <1>0. /\ next' = next + 1 /\ next \in Nat /\ n.seq = next /\ n.q = q /\ n # Nothing
        /\ holder' = [holder EXCEPT ![q] = p] /\ holder[q] = "free"
        /\ pushing' = [pushing EXCEPT ![p] = n]
        /\ UNCHANGED <<queue, out>> /\ ~Halfway(p)
        /\ \A r \in Outstanding : r.seq < next /\ r.seq \in Nat
    <2>1. n \in Rec
      BY StampTypes DEF Stamping
    <2>2. n # Nothing
      BY <2>1, NothingIsNoRecord
    <2>3. n.seq = next /\ n.q = q
      BY DEF NewRecord
    <2> QED
      BY <2>2, <2>3, StampTypes, SeqsAreNumbers DEF Stamping, readVars, StampsAreOrdered
  <1> HIDE DEF n
  <1>1. \A r \in Outstanding' : r \in Outstanding \/ r = n
    BY StampingAdds DEF n
  <1>2. \A r \in Outstanding' : r.seq < next'
    BY <1>0, <1>1
  <1>3. ASSUME NEW r \in Outstanding', NEW s \in Outstanding', r.seq = s.seq PROVE r = s
    BY <1>0, <1>1, <1>3 DEF StampsAreOrdered
  <1>4. ASSUME NEW q1 \in Queues, NEW i \in 1 .. Len(queue'[q1]), NEW j \in 1 .. Len(queue'[q1]), i < j
        PROVE  queue'[q1][i].seq < queue'[q1][j].seq
    BY <1>0, <1>4 DEF StampsAreOrdered
  <1>5. ASSUME NEW p1 \in Pushers, Halfway(p1)'
        PROVE  /\ holder'[pushing'[p1].q] = p1
               /\ \A i \in 1 .. Len(queue'[pushing'[p1].q]) :
                    queue'[pushing'[p1].q][i].seq < pushing'[p1].seq
    <2>0. holder \in [Queues -> Pushers \cup {"free"}] /\ pushing \in [Pushers -> Rec \cup {Nothing}]
      BY DEF TypeOK
    <2>1. CASE p1 = p
      <3>1. pushing'[p1] = n /\ holder'[q] = p
        BY <1>0, <2>0, <2>1
      <3>2. \A i \in 1 .. Len(queue[q]) : queue[q][i].seq < next
        BY <1>0, OutstandingIs
      <3> QED
        BY <1>0, <2>1, <3>1, <3>2
    <2>2. CASE p1 # p
      <3>1. pushing'[p1] = pushing[p1] /\ Halfway(p1)
        BY <1>0, <1>5, <2>0, <2>2 DEF Halfway
      <3>2. pushing[p1].q \in Queues /\ holder[pushing[p1].q] = p1
        BY <3>1, SeqsAreNumbers DEF StampsAreOrdered
      <3>3. p1 # "free"
        BY DEF Pushers
      <3>4. pushing[p1].q # q
        BY <1>0, <3>2, <3>3
      <3>5. holder'[pushing[p1].q] = p1
        BY <1>0, <2>0, <3>2, <3>4
      <3> QED
        BY <1>0, <3>1, <3>5 DEF StampsAreOrdered
    <2> QED
      BY <2>1, <2>2
  <1> QED
    BY <1>2, <1>3, <1>4, <1>5 DEF StampsAreOrdered

LEMMA StampsPush ==
  ASSUME TypeOK, TypeOK', StampsAreOrdered, NEW p \in Pushers, Push(p)
  PROVE  StampsAreOrdered'
  <1> DEFINE r == pushing[p]
             n == Len(queue[r.q])
  <1>0. /\ next' = next /\ r \in Rec /\ r.q \in Queues /\ Halfway(p)
        /\ holder' = [holder EXCEPT ![r.q] = "free"]
        /\ pushing' = [pushing EXCEPT ![p] = Nothing]
    BY PushTypes DEF Push
  <1>1. /\ \A q \in Queues : q # r.q => queue'[q] = queue[q]
        /\ n \in Nat /\ Len(queue'[r.q]) = n + 1
        /\ \A i \in 1 .. n : queue'[r.q][i] = queue[r.q][i]
        /\ queue'[r.q][n + 1] = r
        /\ \A i \in 1 .. n + 1 : i \in 1 .. n \/ i = n + 1
    BY PushedQueues
  <1>a. holder[r.q] = p /\ \A i \in 1 .. n : queue[r.q][i].seq < r.seq
    BY <1>0 DEF StampsAreOrdered
  <1> HIDE DEF r, n
  <1>2. \A x \in Outstanding' : x.seq < next'
    BY <1>0, PushMoves DEF StampsAreOrdered
  <1>3. \A x, y \in Outstanding' : x.seq = y.seq => x = y
    BY PushMoves DEF StampsAreOrdered
  <1>4. ASSUME NEW q \in Queues, NEW i \in 1 .. Len(queue'[q]), NEW j \in 1 .. Len(queue'[q]), i < j
        PROVE  queue'[q][i].seq < queue'[q][j].seq
    <2>1. CASE q # r.q
      BY <1>1, <1>4, <2>1 DEF StampsAreOrdered
    <2>2. CASE q = r.q /\ j \in 1 .. n
      <3>1. i \in 1 .. n
        BY <1>1, <1>4, <2>2
      <3> QED
        BY <1>0, <1>1, <1>4, <2>2, <3>1 DEF StampsAreOrdered, n
    <2>3. CASE q = r.q /\ j = n + 1
      <3>1. i \in 1 .. n
        BY <1>1, <1>4, <2>3
      <3> QED
        BY <1>1, <1>a, <2>3, <3>1
    <2> QED
      BY <1>1, <2>1, <2>2, <2>3
  <1>5. ASSUME NEW p1 \in Pushers, Halfway(p1)'
        PROVE  /\ holder'[pushing'[p1].q] = p1
               /\ \A i \in 1 .. Len(queue'[pushing'[p1].q]) :
                    queue'[pushing'[p1].q][i].seq < pushing'[p1].seq
    <2>0. holder \in [Queues -> Pushers \cup {"free"}] /\ pushing \in [Pushers -> Rec \cup {Nothing}]
      BY DEF TypeOK
    <2>1. p1 # p /\ pushing'[p1] = pushing[p1] /\ Halfway(p1)
      BY <1>0, <1>5, <2>0 DEF Halfway
    <2>2. pushing[p1].q \in Queues /\ holder[pushing[p1].q] = p1
      BY <2>1, SeqsAreNumbers DEF StampsAreOrdered
    <2>3. pushing[p1].q # r.q
      BY <1>a, <2>1, <2>2
    <2>4. holder'[pushing[p1].q] = p1 /\ queue'[pushing[p1].q] = queue[pushing[p1].q]
      BY <1>0, <1>1, <2>0, <2>2, <2>3
    <2> QED
      BY <2>1, <2>4 DEF StampsAreOrdered
  <1> QED
    BY <1>2, <1>3, <1>4, <1>5 DEF StampsAreOrdered

LEMMA StampsStep ==
  ASSUME TypeOK, TypeOK', StampsAreOrdered, CloseIsLast, [Next]_vars
  PROVE  StampsAreOrdered'
  BY StepKinds, StampsThinning, StampsStamping, StampsPush

-----------------------------------------------------------------------------
(***************************************************************************)
(* Records stay filed under their queue and their number.                  *)
(***************************************************************************)
LEMMA FiledStep ==
  ASSUME TypeOK, TypeOK', StampsAreOrdered, CloseIsLast, RecordsAreFiled, [Next]_vars
  PROVE  RecordsAreFiled'
  <1>e. "engine" \in Pushers /\ "caller" \in Pushers /\ "engine" # "caller"
    BY DEF Pushers
  <1>0. pushing \in [Pushers -> Rec \cup {Nothing}]
    BY DEF TypeOK
  <1>1. CASE Thinning
    <2>1. ASSUME NEW q \in Queues, NEW i \in 1 .. Len(queue'[q]) PROVE queue'[q][i].q = q
      <3>1. PICK a \in 1 .. Len(queue[q]) : queue'[q][i] = queue[q][a]
        BY <1>1 DEF Thinning
      <3> QED
        BY <3>1 DEF RecordsAreFiled
    <2>2. \A r \in Outstanding' :
            /\ r.q \in {"session", "calls", "orders"} => r.owner \notin Asks
            /\ r.close => r.owner \notin Asks
      BY <1>1, ThinningLeaves DEF RecordsAreFiled
    <2>3. pushing' = pushing
      BY <1>1 DEF Thinning
    <2> QED
      BY <2>1, <2>2, <2>3 DEF RecordsAreFiled, Halfway
  <1>2. ASSUME NEW p \in Pushers, NEW q \in Queues, NEW o \in Owners, NEW c \in BOOLEAN,
               Stamping(p, q, o, c)
        PROVE  RecordsAreFiled'
    <2> DEFINE n == NewRecord(q, o, c)
    <2>1. /\ n.q = q /\ n.owner = o /\ n.close = c
      BY DEF NewRecord
    <2>2. pushing' = [pushing EXCEPT ![p] = n] /\ queue' = queue
      BY <1>2, StampTypes DEF Stamping
    <2>3. \A r \in Outstanding' : r \in Outstanding \/ r = n
      BY <1>2, StampingAdds
    <2> HIDE DEF n
    <2>4. /\ q \in {"session", "calls", "orders"} => o \notin Asks
          /\ c => o \notin Asks
          /\ p = "engine" => q # "calls"
          /\ p = "caller" => q = "calls" /\ ~c
      BY <1>2 DEF Stamping
    <2>5. \A r \in Outstanding' :
            /\ r.q \in {"session", "calls", "orders"} => r.owner \notin Asks
            /\ r.close => r.owner \notin Asks
      BY <2>1, <2>3, <2>4 DEF RecordsAreFiled
    <2>6. \A q1 \in Queues : \A i \in 1 .. Len(queue'[q1]) : queue'[q1][i].q = q1
      BY <2>2 DEF RecordsAreFiled
    <2>7. Halfway("engine")' => pushing'["engine"].q # "calls"
      <3>1. CASE p = "engine"
        BY <1>0, <2>1, <2>2, <2>4, <3>1
      <3>2. CASE p # "engine"
        BY <1>0, <1>e, <2>2, <3>2 DEF RecordsAreFiled, Halfway
      <3> QED
        BY <3>1, <3>2
    <2>8. Halfway("caller")' => pushing'["caller"].q = "calls" /\ ~pushing'["caller"].close
      <3>1. CASE p = "caller"
        BY <1>0, <2>1, <2>2, <2>4, <3>1
      <3>2. CASE p # "caller"
        BY <1>0, <1>e, <2>2, <3>2 DEF RecordsAreFiled, Halfway
      <3> QED
        BY <3>1, <3>2
    <2> QED
      BY <2>5, <2>6, <2>7, <2>8 DEF RecordsAreFiled
  <1>3. ASSUME NEW p \in Pushers, Push(p) PROVE RecordsAreFiled'
    <2>1. pushing' = [pushing EXCEPT ![p] = Nothing]
      BY <1>3, PushTypes
    <2>2. \A r \in Outstanding' :
            /\ r.q \in {"session", "calls", "orders"} => r.owner \notin Asks
            /\ r.close => r.owner \notin Asks
      BY <1>3, PushMoves DEF RecordsAreFiled
    <2>3. ASSUME NEW q \in Queues, NEW i \in 1 .. Len(queue'[q]) PROVE queue'[q][i].q = q
      <3>0. pushing[p].q \in Queues
        BY <1>3, PushTypes
      <3>1. CASE q # pushing[p].q
        BY <1>3, <3>1, PushedQueues DEF RecordsAreFiled
      <3>2. CASE q = pushing[p].q
        <4>1. /\ i \in 1 .. Len(queue[q]) \/ i = Len(queue[q]) + 1
              /\ \A j \in 1 .. Len(queue[q]) : queue'[q][j] = queue[q][j]
              /\ queue'[q][Len(queue[q]) + 1] = pushing[p]
          BY <1>3, <3>2, PushedQueues
        <4>2. CASE i \in 1 .. Len(queue[q])
          BY <4>1, <4>2 DEF RecordsAreFiled
        <4>3. CASE i = Len(queue[q]) + 1
          BY <3>2, <4>1, <4>3
        <4> QED
          BY <4>1, <4>2, <4>3
      <3> QED
        BY <3>1, <3>2
    <2>4. /\ Halfway("engine")' => pushing'["engine"].q # "calls"
          /\ Halfway("caller")' => pushing'["caller"].q = "calls" /\ ~pushing'["caller"].close
      BY <1>0, <1>e, <2>1 DEF RecordsAreFiled, Halfway
    <2> QED
      BY <2>2, <2>3, <2>4 DEF RecordsAreFiled
  <1> QED
    BY <1>1, <1>2, <1>3, StepKinds

(***************************************************************************)
(* The close stays the last of the engine's records.                       *)
(***************************************************************************)
LEMMA CloseStep ==
  ASSUME TypeOK, TypeOK', StampsAreOrdered, CloseIsLast, RecordsAreFiled, StateFollowsRecords,
         [Next]_vars
  PROVE  CloseIsLast'
  <1>e. "engine" \in Pushers /\ "caller" \in Pushers /\ "engine" # "caller"
    BY DEF Pushers
  <1>0. pushing \in [Pushers -> Rec \cup {Nothing}] /\ closed \in BOOLEAN
    BY DEF TypeOK
  <1>1. CASE Thinning
    BY <1>1, ThinningLeaves DEF Thinning, CloseIsLast, Halfway
  <1>2. ASSUME NEW p \in Pushers, NEW q \in Queues, NEW o \in Owners, NEW c \in BOOLEAN,
               Stamping(p, q, o, c)
        PROVE  CloseIsLast'
    <2> DEFINE n == NewRecord(q, o, c)
    <2>1. /\ n.seq = next /\ n.close = c
      BY DEF NewRecord
    <2>2. pushing' = [pushing EXCEPT ![p] = n] /\ engineAt' = engineAt /\ ended' = ended
      BY <1>2, StampTypes DEF Stamping, readVars
    <2>3. \A r \in Outstanding' : r \in Outstanding \/ r = n
      BY <1>2, StampingAdds
    <2>4. engineAt <= next + 1
      BY SeqsAreNumbers DEF StateFollowsRecords
    <2> HIDE DEF n
    <2>5. CASE c = TRUE
      <3>1. p = "engine" /\ closed = FALSE /\ closed' = TRUE
        BY <1>2, <2>5 DEF Stamping, Pushers
      <3>2. \A r \in Outstanding : ~r.close
        BY <3>1 DEF CloseIsLast
      <3>3. pushing'["engine"] = n
        BY <1>0, <1>e, <2>2, <3>1
      <3> QED
        BY <2>1, <2>2, <2>3, <2>4, <2>5, <3>1, <3>2, <3>3 DEF CloseIsLast
    <2>6. CASE c = FALSE
      <3>1. closed' = closed
        BY <1>2, <2>6 DEF Stamping
      <3>2. closed' => pushing'["engine"] = pushing["engine"]
        <4>1. CASE p = "engine"
          BY <1>2, <3>1, <4>1 DEF Stamping
        <4>2. CASE p # "engine"
          BY <1>0, <1>e, <2>2, <4>2
        <4> QED
          BY <4>1, <4>2
      <3> QED
        BY <2>1, <2>2, <2>3, <2>6, <3>1, <3>2 DEF CloseIsLast, Halfway
    <2> QED
      BY <2>5, <2>6
  <1>3. ASSUME NEW p \in Pushers, Push(p) PROVE CloseIsLast'
    <2> DEFINE r == pushing[p]
    <2>1. /\ pushing' = [pushing EXCEPT ![p] = Nothing] /\ Halfway(p)
          /\ UNCHANGED <<closed, ended>>
          /\ engineAt' = IF p = "engine" THEN r.seq + 1 ELSE engineAt
      BY <1>3, PushTypes DEF Push, readVars
    <2>2. \A x \in Outstanding' : x \in Outstanding
      BY <1>3, PushMoves
    <2>3. r \in Outstanding
      BY <2>1, OutstandingIs
    <2> HIDE DEF r
    <2>4. \A x, y \in Outstanding' : x.close /\ y.close => x = y
      BY <2>2 DEF CloseIsLast
    <2>5. ASSUME NEW x \in Outstanding', x.close PROVE closed' /\ engineAt' <= x.seq + 1
      <3>1. x \in Outstanding /\ closed = TRUE /\ engineAt <= x.seq + 1 /\ x.seq \in Nat
        BY <1>0, <2>2, <2>5, SeqsAreNumbers DEF CloseIsLast
      <3>2. CASE p = "engine"
        <4>1. r.close
          BY <2>1, <3>1, <3>2 DEF CloseIsLast, r
        <4>2. x = r
          BY <2>3, <2>5, <3>1, <4>1 DEF CloseIsLast
        <4> QED
          BY <2>1, <3>1, <3>2, <4>2
      <3>3. CASE p # "engine"
        BY <2>1, <3>1, <3>3
      <3> QED
        BY <3>2, <3>3
    <2>6. closed' /\ Halfway("engine")' => pushing'["engine"].close
      BY <1>0, <1>e, <2>1 DEF CloseIsLast, Halfway
    <2> QED
      BY <2>1, <2>4, <2>5, <2>6 DEF CloseIsLast
  <1> QED
    BY <1>1, <1>2, <1>3, StepKinds

-----------------------------------------------------------------------------
(***************************************************************************)
(* Reads, turns and what a read takes.                                     *)
(***************************************************************************)
LEMMA TurnStep ==
  ASSUME TypeOK, ReadHoldsItsTurn, [Next]_vars
  PROVE  ReadHoldsItsTurn'
  <1>0. /\ pc \in {"idle", "cut", "drain", "deliver"} /\ asked \in Nat
        /\ turn \in {"free", "program", "question"} /\ ended \in BOOLEAN
    BY DEF TypeOK
  <1> USE DEF ReadHoldsItsTurn, pushVars, readVars, askVars
  <1>1. ASSUME NEW p \in Pushers, NEW q \in Queues, NEW o \in Owners, NEW c \in BOOLEAN,
               Stamping(p, q, o, c)
        PROVE  ReadHoldsItsTurn'
    BY <1>1 DEF Stamping
  <1>2. ASSUME NEW p \in Pushers, Push(p) PROVE ReadHoldsItsTurn'
    BY <1>2 DEF Push
  <1>3. CASE WriteState
    BY <1>3 DEF WriteState
  <1>4. CASE Pushing
    BY <1>1, <1>2, <1>3, <1>4, StampingSteps
  <1>5. CASE ProcessMsgs
    BY <1>0, <1>5 DEF ProcessMsgs, PollTheState
  <1>6. CASE PumpForAsk
    BY <1>0, <1>6 DEF PumpForAsk, PollTheState
  <1>7. CASE TakeCut
    BY <1>0, <1>7 DEF TakeCut
  <1>8. CASE TakeBelow
    <2>1. pc = "drain" /\ pc' \in {"drain", "deliver"}
          /\ UNCHANGED <<surface, turn, take, ended, asked, held>>
      BY <1>8 DEF TakeBelow
    <2> QED
      BY <2>1
  <1>9. CASE Deliver
    <2>1. /\ pc' = "idle" /\ take' = "dispatch" /\ at' = 1 /\ out' = {}
          /\ turn' = IF turn = "program" THEN "free" ELSE turn
          /\ UNCHANGED <<surface, asked, held>>
      BY <1>9 DEF Deliver
    <2> QED
      BY <1>0, <2>1
  <1>10. CASE Ask
    <2>1. held' = {asked'} /\ asked' \in Asks
      BY <1>0, <1>10 DEF Ask, Asks
    <2>2. take # "dispatch" => FALSE
      BY <1>10 DEF Ask
    <2> QED
      BY <1>0, <1>10, <2>1 DEF Ask
  <1>11. CASE StopAsking
    BY <1>0, <1>11 DEF StopAsking
  <1>12. ASSUME NEW q \in Queues, TakeByNumber(q) PROVE ReadHoldsItsTurn'
    BY <1>12 DEF TakeByNumber
  <1>13. CASE UNCHANGED vars
    BY <1>13 DEF vars
  <1> QED
    BY <1>4, <1>5, <1>6, <1>7, <1>8, <1>9, <1>10, <1>11, <1>12, <1>13 DEF Next, Reading, Asking

(* What a read does with a record: a whole read takes all that is the      *)
(* program's and, outside a question, only that; a question's own read     *)
(* takes nothing but its answers.                                          *)
LEMMA FatesAre ==
  ASSUME TypeOK, ReadHoldsItsTurn, NEW r \in Rec
  PROVE  /\ take # "own" /\ r.owner \notin Asks => FateOf(r) = "take"
         /\ take = "own" /\ r.owner \notin Asks => FateOf(r) = "leave"
         /\ take = "own" /\ FateOf(r) = "take" => r.owner = asked
         /\ /\ take = "dispatch" /\ FateOf(r) = "take"
            /\ r.q \in {"session", "calls", "orders"} => r.owner \notin Asks
            => r.q = "previews" \/ r.owner \notin Asks
  <1>1. /\ r.q \in AllQueues /\ held \subseteq Asks
        /\ take \in {"dispatch", "whole", "own"}
    BY QueuesAre DEF Rec, TypeOK
  <1>2. take = "own" => asked \in Asks
    BY DEF ReadHoldsItsTurn
  <1> DEFINE o == r.owner
  <1> HIDE DEF o
  <1> USE DEF SessionFate, CallFate, OrderFate, PreviewFate, ErrorFate, AnswerFate, KeptBack, Leave,
              Abandoned, HeldAny
  <1>3. ASSUME r.q = "session" \/ r.q = "orders"
        PROVE  FateOf(r) = KeptBack(FALSE, o)
    BY <1>3 DEF FateOf, o
  <1>4. ASSUME r.q = "answers" PROVE FateOf(r) = KeptBack(TRUE, o)
    BY <1>4 DEF FateOf, o
  <1>5. ASSUME r.q = "errors" PROVE FateOf(r) = ErrorFate(o)
    BY <1>5 DEF FateOf, o
  <1>6. ASSUME r.q = "calls" PROVE FateOf(r) = CallFate(o)
    BY <1>6 DEF FateOf, o
  <1>p. ASSUME r.q = "previews" PROVE FateOf(r) = PreviewFate(o)
    BY <1>p DEF FateOf, o
  <1>7. take # "own" /\ o \notin Asks => FateOf(r) = "take"
    BY <1>1, <1>3, <1>4, <1>5, <1>6, <1>p DEF AllQueues
  <1>8. take = "own" /\ o \notin Asks => FateOf(r) = "leave"
    BY <1>1, <1>2, <1>3, <1>4, <1>5, <1>6, <1>p DEF AllQueues
  <1>9. take = "own" /\ FateOf(r) = "take" => o = asked
    BY <1>1, <1>3, <1>4, <1>5, <1>6, <1>p DEF AllQueues
  <1>10. /\ take = "dispatch" /\ FateOf(r) = "take"
         /\ r.q \in {"session", "calls", "orders"} => o \notin Asks
         => r.q = "previews" \/ o \notin Asks
    BY <1>1, <1>4, <1>5 DEF AllQueues
  <1> QED
    BY <1>7, <1>8, <1>9, <1>10 DEF o

LEMMA TakenStep ==
  ASSUME TypeOK, StampsAreOrdered, RecordsAreFiled, ReadHoldsItsTurn, TakenIsDue, [Next]_vars
  PROVE  TakenIsDue'
  <1>0. /\ pc \in {"idle", "cut", "drain", "deliver"}
        /\ next \in Nat /\ cut \in Nat
    BY DEF TypeOK
  <1> USE DEF pushVars, readVars, askVars
  <1>1. ASSUME UNCHANGED <<pc, take, cut, out, asked>>, next' = next \/ next' = next + 1
        PROVE  TakenIsDue'
    BY <1>0, <1>1 DEF TakenIsDue
  <1>2. ASSUME NEW p \in Pushers, NEW q \in Queues, NEW o \in Owners, NEW c \in BOOLEAN,
               Stamping(p, q, o, c)
        PROVE  TakenIsDue'
    BY <1>1, <1>2 DEF Stamping, Stamp
  <1>3. ASSUME NEW p \in Pushers, Push(p) PROVE TakenIsDue'
    BY <1>1, <1>3 DEF Push
  <1>4. CASE WriteState
    BY <1>1, <1>4 DEF WriteState
  <1>5. CASE Pushing
    BY <1>2, <1>3, <1>4, <1>5, StampingSteps
  <1>6. CASE ProcessMsgs \/ PumpForAsk
    <2>1. pc = "idle" /\ pc' = "cut" /\ out' = out /\ out = {}
      BY <1>6 DEF ProcessMsgs, PumpForAsk, PollTheState, ReadHoldsItsTurn
    <2> QED
      BY <2>1 DEF TakenIsDue
  <1>7. CASE TakeCut
    <2>1. /\ pc = "cut" /\ pc' = "drain" /\ out' = out /\ out = {} /\ cut' = next
          /\ next' = next
      BY <1>7 DEF TakeCut, ReadHoldsItsTurn
    <2> QED
      BY <1>0, <2>1 DEF TakenIsDue
  <1>8. CASE TakeBelow
    <2> DEFINE q == QueueOrder[at]
    <2>1. /\ UNCHANGED <<next, take, cut, asked>> /\ pc = "drain"
          /\ out' = out \cup Taken(q) /\ q \in Queues
          /\ \A r \in Taken(q) : /\ r \in Rec /\ r.seq < cut /\ FateOf(r) = "take"
                                 /\ \E i \in 1 .. Len(queue[q]) : r = queue[q][i]
      BY <1>8, TakeFacts DEF TakeBelow
    <2> HIDE DEF q
    <2>2. ASSUME NEW r \in Taken(q)
          PROVE  r.q \in {"session", "calls", "orders"} => r.owner \notin Asks
      BY <2>1, OutstandingIs DEF RecordsAreFiled
    <2>3. take = "dispatch" => \A r \in Taken(q) : r.q # "previews" => r.owner \notin Asks
      BY <2>1, <2>2, FatesAre
    <2>4. take = "own" => \A r \in Taken(q) : r.owner = asked
      BY <2>1, FatesAre
    <2> QED
      BY <2>1, <2>3, <2>4 DEF TakenIsDue
  <1>9. CASE Deliver
    <2>1. pc' = "idle" /\ out' = {}
      BY <1>9 DEF Deliver
    <2> QED
      BY <2>1 DEF TakenIsDue
  <1>10. CASE Ask
    <2>1. take # "own" /\ UNCHANGED <<pc, take, cut, out, next>>
      BY <1>10 DEF Ask, ReadHoldsItsTurn
    <2> QED
      BY <2>1 DEF TakenIsDue
  <1>11. CASE StopAsking
    BY <1>1, <1>11 DEF StopAsking
  <1>12. ASSUME NEW q \in Queues, TakeByNumber(q) PROVE TakenIsDue'
    BY <1>1, <1>12 DEF TakeByNumber
  <1>13. CASE UNCHANGED vars
    BY <1>1, <1>13 DEF vars
  <1> QED
    BY <1>5, <1>6, <1>7, <1>8, <1>9, <1>10, <1>11, <1>12, <1>13 DEF Next, Reading, Asking

LEMMA DrainedStep ==
  ASSUME TypeOK, TypeOK', StampsAreOrdered, CloseIsLast, RecordsAreFiled, ReadHoldsItsTurn,
         TakenIsDue, DrainedToTheCut, [Next]_vars
  PROVE  DrainedToTheCut'
  <1>0. /\ pc \in {"idle", "cut", "drain", "deliver"} /\ at \in 1 .. Len(QueueOrder)
        /\ pushing \in [Pushers -> Rec \cup {Nothing}] /\ Len(QueueOrder) \in Nat
        /\ \A k \in 1 .. Len(QueueOrder) : QueueOrder[k] \in Queues
    BY QueuesAre DEF TypeOK
  <1> USE DEF pushVars, readVars, askVars
  <1>1. ASSUME Thinning, UNCHANGED <<pc, take, at, cut>> PROVE DrainedToTheCut'
    <2>1. ASSUME take # "own", NEW k \in 1 .. Len(QueueOrder), Drained(k)
          PROVE  /\ \A i \in 1 .. Len(queue'[QueueOrder[k]]) :
                      queue'[QueueOrder[k]][i].owner \notin Asks
                        => queue'[QueueOrder[k]][i].seq >= cut
                 /\ \A p \in Pushers : Halfway(p)' /\ pushing'[p].q = QueueOrder[k]
                        => pushing'[p].seq >= cut
      <3>1. /\ \A i \in 1 .. Len(queue[QueueOrder[k]]) :
                 queue[QueueOrder[k]][i].owner \notin Asks => queue[QueueOrder[k]][i].seq >= cut
            /\ \A p \in Pushers : Halfway(p) /\ pushing[p].q = QueueOrder[k]
                 => pushing[p].seq >= cut
        BY <2>1 DEF DrainedToTheCut
      <3>2. \A i \in 1 .. Len(queue'[QueueOrder[k]]) : \E j \in 1 .. Len(queue[QueueOrder[k]]) :
              queue'[QueueOrder[k]][i] = queue[QueueOrder[k]][j]
        BY <1>0, <1>1 DEF Thinning
      <3>3. pushing' = pushing
        BY <1>1 DEF Thinning
      <3> QED
        BY <3>1, <3>2, <3>3 DEF Halfway
    <2>2. /\ take' = take /\ cut' = cut
          /\ \A k \in 1 .. Len(QueueOrder) : Drained(k)' => Drained(k)
      BY <1>1 DEF Drained
    <2> QED
      BY <2>1, <2>2 DEF DrainedToTheCut
  <1>2. ASSUME pc' \in {"idle", "cut"} PROVE DrainedToTheCut'
    BY <1>2 DEF DrainedToTheCut, Drained
  <1>3. ASSUME NEW p \in Pushers, NEW q \in Queues, NEW o \in Owners, NEW c \in BOOLEAN,
               Stamping(p, q, o, c)
        PROVE  DrainedToTheCut'
    <2> DEFINE n == NewRecord(q, o, c)
    <2>a. pc' = pc /\ take' = take /\ at' = at /\ cut' = cut /\ queue' = queue
      BY <1>3 DEF Stamping
    <2>b. n.seq = next
      BY DEF NewRecord
    <2>c. pushing' = [pushing EXCEPT ![p] = n]
      BY <1>3, StampTypes DEF Stamping
    <2> HIDE DEF n
    <2>1. /\ UNCHANGED <<pc, take, at, cut, queue>> /\ n.seq = next
          /\ pushing' = [pushing EXCEPT ![p] = n]
      BY <2>a, <2>b, <2>c
    <2>2. \A k \in 1 .. Len(QueueOrder) : Drained(k) => next >= cut
      <3>1. \A k \in 1 .. Len(QueueOrder) : Drained(k) => pc \in {"drain", "deliver"}
        BY DEF Drained
      <3>2. pc \in {"drain", "deliver"} => cut <= next
        BY DEF TakenIsDue
      <3> QED
        BY <3>1, <3>2, SeqsAreNumbers
    <2>3. ASSUME take # "own", NEW k \in 1 .. Len(QueueOrder), Drained(k),
                 NEW p1 \in Pushers, Halfway(p1)', pushing'[p1].q = QueueOrder[k]
          PROVE  pushing'[p1].seq >= cut
      <3>1. CASE p1 = p
        BY <1>0, <2>1, <2>2, <2>3, <3>1
      <3>2. CASE p1 # p
        <4>1. pushing'[p1] = pushing[p1] /\ Halfway(p1)
          BY <1>0, <2>1, <2>3, <3>2 DEF Halfway
        <4> QED
          BY <2>3, <4>1 DEF DrainedToTheCut
      <3> QED
        BY <3>1, <3>2
    <2> QED
      BY <2>1, <2>3 DEF DrainedToTheCut, Drained
  <1>4. ASSUME NEW p \in Pushers, Push(p) PROVE DrainedToTheCut'
    <2> DEFINE r == pushing[p]
    <2>1. /\ UNCHANGED <<pc, take, at, cut>> /\ Halfway(p)
          /\ pushing' = [pushing EXCEPT ![p] = Nothing]
      BY <1>4, PushTypes DEF Push
    <2>2. ASSUME take # "own", NEW k \in 1 .. Len(QueueOrder), Drained(k),
                 NEW i \in 1 .. Len(queue'[QueueOrder[k]]),
                 queue'[QueueOrder[k]][i].owner \notin Asks
          PROVE  queue'[QueueOrder[k]][i].seq >= cut
      <3>1. CASE QueueOrder[k] # r.q
        <4>1. queue'[QueueOrder[k]] = queue[QueueOrder[k]]
          BY <1>0, <1>4, <3>1, PushedQueues
        <4> QED
          BY <2>2, <4>1 DEF DrainedToTheCut
      <3>2. CASE QueueOrder[k] = r.q
        <4>1. /\ i \in 1 .. Len(queue[r.q]) \/ i = Len(queue[r.q]) + 1
              /\ \A j \in 1 .. Len(queue[r.q]) : queue'[r.q][j] = queue[r.q][j]
              /\ queue'[r.q][Len(queue[r.q]) + 1] = r
          BY <1>4, <3>2, PushedQueues
        <4>2. CASE i \in 1 .. Len(queue[r.q])
          BY <2>2, <3>2, <4>1, <4>2 DEF DrainedToTheCut
        <4>3. CASE i = Len(queue[r.q]) + 1
          <5>1. r.seq >= cut
            BY <2>1, <2>2, <3>2 DEF DrainedToTheCut
          <5> QED
            BY <3>2, <4>1, <4>3, <5>1
        <4> QED
          BY <4>1, <4>2, <4>3
      <3> QED
        BY <3>1, <3>2
    <2>3. ASSUME take # "own", NEW k \in 1 .. Len(QueueOrder), Drained(k),
                 NEW p1 \in Pushers, Halfway(p1)', pushing'[p1].q = QueueOrder[k]
          PROVE  pushing'[p1].seq >= cut
      <3>1. pushing'[p1] = pushing[p1] /\ Halfway(p1)
        BY <1>0, <2>1, <2>3 DEF Halfway
      <3> QED
        BY <2>3, <3>1 DEF DrainedToTheCut
    <2> QED
      BY <2>1, <2>2, <2>3 DEF DrainedToTheCut, Drained
  <1>5. CASE WriteState
    BY <1>1, <1>5, QuietThins DEF WriteState
  <1>6. CASE Pushing
    BY <1>3, <1>4, <1>5, <1>6, StampingSteps
  <1>7. CASE ProcessMsgs \/ PumpForAsk
    BY <1>2, <1>7 DEF ProcessMsgs, PumpForAsk, PollTheState
  <1>8. CASE TakeCut
    <2>1. pc' = "drain" /\ at' = 1
      BY <1>8 DEF TakeCut, ReadHoldsItsTurn
    <2>2. \A k \in 1 .. Len(QueueOrder) : ~(k < 1)
      BY <1>0
    <2> QED
      BY <2>1, <2>2 DEF DrainedToTheCut, Drained
  <1>9. CASE TakeBelow
    <2> DEFINE q == QueueOrder[at]
    <2>1. /\ q \in Queues /\ holder[q] = "free" /\ pc = "drain"
          /\ UNCHANGED <<take, cut, pushing>>
          /\ Left(q) = {i \in 1 .. Len(queue[q]) :
                          queue[q][i].seq < cut => FateOf(queue[q][i]) = "leave"}
          /\ queue' = [queue EXCEPT ![q] = queue'[q]]
          /\ Thins(queue'[q], queue[q], Left(q))
      BY <1>9, TakeFacts DEF TakeBelow
    <2>2. ASSUME NEW k \in 1 .. Len(QueueOrder), Drained(k)' PROVE k = at \/ Drained(k)
      <3>1. CASE LastQueue
        BY <1>0, <2>1, <3>1 DEF LastQueue, Drained
      <3>2. CASE ~LastQueue
        <4>1. pc' = "drain" /\ at' = at + 1
          BY <1>9, <2>1, <3>2 DEF TakeBelow
        <4>2. k < at + 1
          BY <2>2, <4>1 DEF Drained
        <4>3. k = at \/ k < at
          BY <1>0, <4>2
        <4> QED
          BY <2>1, <4>3 DEF Drained
      <3> QED
        BY <3>1, <3>2
    <2>a. queue \in [Queues -> Seq(Rec)]
      BY DEF TypeOK
    <2> HIDE DEF q
    <2>3. ASSUME take # "own", NEW i \in 1 .. Len(queue'[q]), queue'[q][i].owner \notin Asks
          PROVE  queue'[q][i].seq >= cut
      <3>1. PICK j \in Left(q) : queue'[q][i] = queue[q][j]
        BY <2>1 DEF Thins
      <3>2. j \in 1 .. Len(queue[q]) /\ queue[q][j] \in Rec
        BY <2>1, <2>a
      <3>3. FateOf(queue[q][j]) = "take"
        BY <2>3, <3>1, <3>2, FatesAre
      <3>4. ~(queue[q][j].seq < cut)
        BY <2>1, <3>2, <3>3
      <3> QED
        BY <2>1, <3>1, <3>2, <3>4, SeqsAreNumbers
    <2>4. ASSUME NEW p \in Pushers, Halfway(p) PROVE pushing[p].q # q
      <3>1. holder[pushing[p].q] = p /\ p # "free"
        BY <2>4 DEF StampsAreOrdered, Pushers
      <3> QED
        BY <2>1, <3>1
    <2>5. ASSUME take # "own", NEW k \in 1 .. Len(QueueOrder), Drained(k)'
          PROVE  /\ \A i \in 1 .. Len(queue'[QueueOrder[k]]) :
                      queue'[QueueOrder[k]][i].owner \notin Asks
                        => queue'[QueueOrder[k]][i].seq >= cut
                 /\ \A p \in Pushers : Halfway(p) /\ pushing[p].q = QueueOrder[k]
                        => pushing[p].seq >= cut
      <3>1. CASE QueueOrder[k] = q
        BY <2>3, <2>4, <2>5, <3>1
      <3>2. CASE QueueOrder[k] # q
        <4>1. Drained(k)
          BY <2>2, <2>5, <3>2 DEF q
        <4>2. queue'[QueueOrder[k]] = queue[QueueOrder[k]]
          BY <1>0, <2>1, <2>a, <3>2
        <4> QED
          BY <2>5, <4>1, <4>2 DEF DrainedToTheCut
      <3> QED
        BY <3>1, <3>2
    <2> QED
      BY <2>1, <2>5 DEF DrainedToTheCut, Halfway
  <1>10. CASE Deliver
    BY <1>2, <1>10 DEF Deliver
  <1>11. CASE Ask
    BY <1>1, <1>11, QuietThins DEF Ask
  <1>12. CASE StopAsking
    BY <1>1, <1>12, QuietThins DEF StopAsking
  <1>13. ASSUME NEW q \in Queues, TakeByNumber(q) PROVE DrainedToTheCut'
    BY <1>1, <1>13, TakeByNumberThins DEF TakeByNumber
  <1>14. CASE UNCHANGED vars
    BY <1>1, <1>14, QuietThins DEF vars
  <1> QED
    BY <1>6, <1>7, <1>8, <1>9, <1>10, <1>11, <1>12, <1>13, <1>14 DEF Next, Reading, Asking

-----------------------------------------------------------------------------
(***************************************************************************)
(* The conflated state beside the records.                                 *)
(***************************************************************************)
LEMMA AftersAreNumbers ==
  ASSUME TypeOK
  PROVE  state.after \in Nat /\ polled.after \in Nat /\ told.after \in Nat
  BY DEF TypeOK, StateType

LEMMA FollowsStep ==
  ASSUME TypeOK, StampsAreOrdered, ReadHoldsItsTurn, StateFollowsRecords, [Next]_vars
  PROVE  StateFollowsRecords'
  <1>0. /\ pc \in {"idle", "cut", "drain", "deliver"}
        /\ next \in Nat /\ cut \in Nat /\ engineAt \in Nat
        /\ state.after \in Nat /\ polled.after \in Nat /\ told.after \in Nat
        /\ pushing \in [Pushers -> Rec \cup {Nothing}] /\ "engine" \in Pushers
    BY AftersAreNumbers DEF TypeOK, Pushers
  <1>n. NoState.after = 0
    BY DEF NoState
  <1> USE DEF pushVars, readVars, askVars
  <1>1. ASSUME UNCHANGED <<next, pushing, engineAt, state, polled, told, pc, cut>>
        PROVE  StateFollowsRecords'
    BY <1>1 DEF StateFollowsRecords, Halfway
  <1>2. ASSUME NEW p \in Pushers, NEW q \in Queues, NEW o \in Owners, NEW c \in BOOLEAN,
               Stamping(p, q, o, c)
        PROVE  StateFollowsRecords'
    <2> DEFINE n == NewRecord(q, o, c)
    <2>1. n.seq = next
      BY DEF NewRecord
    <2>2. UNCHANGED <<engineAt, state, polled, told, pc, cut>>
      BY <1>2 DEF Stamping
    <2>3. next' = next + 1 /\ pushing' = [pushing EXCEPT ![p] = n]
      BY <1>2, StampTypes DEF Stamping
    <2> HIDE DEF n
    <2>4. Halfway("engine")' => engineAt <= pushing'["engine"].seq
      <3>1. CASE p = "engine"
        BY <1>0, <2>1, <2>3, <3>1 DEF StateFollowsRecords
      <3>2. CASE p # "engine"
        <4>1. pushing'["engine"] = pushing["engine"]
          BY <1>0, <2>3, <3>2
        <4> QED
          BY <4>1 DEF StateFollowsRecords, Halfway
      <3> QED
        BY <3>1, <3>2
    <2>5. engineAt <= next'
      BY <1>0, <2>3 DEF StateFollowsRecords
    <2> QED
      BY <2>2, <2>4, <2>5 DEF StateFollowsRecords
  <1>3. ASSUME NEW p \in Pushers, Push(p) PROVE StateFollowsRecords'
    <2> DEFINE r == pushing[p]
    <2>1. UNCHANGED <<next, state, polled, told, pc, cut>>
      BY <1>3 DEF Push
    <2>2. /\ pushing' = [pushing EXCEPT ![p] = Nothing] /\ Halfway(p)
          /\ engineAt' = IF p = "engine" THEN r.seq + 1 ELSE engineAt
      BY <1>3, PushTypes
    <2>3. r.seq \in Nat /\ r.seq < next
      BY <2>2, OutstandingIs, SeqsAreNumbers DEF StampsAreOrdered
    <2>4. CASE p = "engine"
      <3>1. engineAt <= r.seq /\ engineAt' = r.seq + 1
        BY <2>2, <2>4 DEF StateFollowsRecords
      <3>2. ~Halfway("engine")'
        BY <1>0, <2>2, <2>4 DEF Halfway
      <3> HIDE DEF r
      <3>3. engineAt' <= next
        BY <1>0, <2>3, <3>1
      <3>4. state.after <= engineAt' /\ polled.after <= engineAt' /\ told.after <= engineAt'
        BY <1>0, <2>3, <3>1 DEF StateFollowsRecords
      <3> QED
        BY <2>1, <3>2, <3>3, <3>4 DEF StateFollowsRecords
    <2>5. CASE p # "engine"
      <3>1. pushing'["engine"] = pushing["engine"] /\ engineAt' = engineAt
        BY <1>0, <2>2, <2>5
      <3> QED
        BY <2>1, <3>1 DEF StateFollowsRecords, Halfway
    <2> QED
      BY <2>4, <2>5
  <1>4. CASE WriteState
    <2>1. state'.after = engineAt
      BY <1>4 DEF WriteState
    <2>2. UNCHANGED <<next, pushing, engineAt, polled, told, pc, cut>>
      BY <1>4 DEF WriteState
    <2> QED
      BY <1>0, <2>1, <2>2 DEF StateFollowsRecords, Halfway
  <1>5. CASE Pushing
    BY <1>2, <1>3, <1>4, <1>5, StampingSteps
  <1>6. CASE ProcessMsgs \/ PumpForAsk
    <2>1. polled' \in {NoState, state} /\ pc' = "cut"
      BY <1>6 DEF ProcessMsgs, PumpForAsk, PollTheState
    <2>2. UNCHANGED <<next, pushing, engineAt, state, told, cut>>
      BY <1>6 DEF ProcessMsgs, PumpForAsk
    <2>3. polled'.after <= engineAt
      BY <1>0, <1>n, <2>1 DEF StateFollowsRecords
    <2> QED
      BY <2>1, <2>2, <2>3 DEF StateFollowsRecords, Halfway
  <1>7. CASE TakeCut
    <2>1. cut' = next /\ UNCHANGED <<next, pushing, engineAt, state, polled, told>>
      BY <1>7 DEF TakeCut
    <2>2. polled.after <= next
      BY <1>0 DEF StateFollowsRecords
    <2> QED
      BY <2>1, <2>2 DEF StateFollowsRecords, Halfway
  <1>8. CASE TakeBelow
    <2>1. UNCHANGED <<next, pushing, engineAt, state, polled, told, cut>> /\ pc = "drain"
      BY <1>8 DEF TakeBelow
    <2> QED
      BY <2>1 DEF StateFollowsRecords, Halfway
  <1>9. CASE Deliver
    <2>1. pc' = "idle" /\ polled' = NoState /\ told' \in {state, told, polled}
      BY <1>9 DEF Deliver, FinalState, PolledState
    <2>2. UNCHANGED <<next, pushing, engineAt, state>>
      BY <1>9 DEF Deliver
    <2>3. told'.after <= engineAt /\ polled'.after <= engineAt
      BY <1>0, <1>n, <2>1 DEF StateFollowsRecords
    <2> QED
      BY <2>1, <2>2, <2>3 DEF StateFollowsRecords, Halfway
  <1>10. CASE Ask
    BY <1>1, <1>10 DEF Ask
  <1>11. CASE StopAsking
    BY <1>1, <1>11 DEF StopAsking
  <1>12. ASSUME NEW q \in Queues, TakeByNumber(q) PROVE StateFollowsRecords'
    BY <1>1, <1>12 DEF TakeByNumber
  <1>13. CASE UNCHANGED vars
    BY <1>1, <1>13 DEF vars
  <1> QED
    BY <1>5, <1>6, <1>7, <1>8, <1>9, <1>10, <1>11, <1>12, <1>13 DEF Next, Reading, Asking

(* At the end of a whole read no queue holds a record of the program's     *)
(* from before the cut.                                                    *)
LEMMA NothingBelowTheCut ==
  ASSUME TypeOK, DrainedToTheCut, pc = "deliver", take # "own",
         NEW q \in Queues, NEW i \in 1 .. Len(queue[q]), queue[q][i].owner \notin Asks
  PROVE  queue[q][i].seq >= cut
  <1>1. PICK k \in 1 .. Len(QueueOrder) : QueueOrder[k] = q
    BY QueuesAre
  <1> QED
    BY <1>1 DEF DrainedToTheCut, Drained

(* A read that meets the close is a whole one. *)
LEMMA CloseIsRead ==
  ASSUME TypeOK, RecordsAreFiled, ReadHoldsItsTurn, TakenIsDue, NEW c \in out, c.close
  PROVE  take # "own" /\ c.owner \notin Asks
  <1>1. c.owner \notin Asks
    BY OutstandingIs DEF RecordsAreFiled
  <1>2. take = "own" => c.owner = asked /\ asked \in Asks
    BY DEF TakenIsDue, ReadHoldsItsTurn
  <1> QED
    BY <1>1, <1>2

LEMMA ToldStep ==
  ASSUME IInv, TypeOK', [Next]_vars
  PROVE  StateIsToldInTurn'
  <1>0. /\ TypeOK /\ StampsAreOrdered /\ RecordsAreFiled /\ CloseIsLast /\ ReadHoldsItsTurn
        /\ TakenIsDue /\ DrainedToTheCut /\ StateFollowsRecords /\ StateIsToldInTurn
    BY DEF IInv
  <1>d. \A q \in Queues : /\ DOMAIN queue[q] = 1 .. Len(queue[q])
                          /\ DOMAIN queue'[q] = 1 .. Len(queue'[q])
    BY <1>0 DEF TypeOK
  <1> USE DEF pushVars, readVars, askVars
  <1>1. ASSUME Thinning, UNCHANGED <<told, state, ended>> PROVE StateIsToldInTurn'
    <2>1. \A q \in Queues : \A i \in 1 .. Len(queue'[q]) :
            \E j \in 1 .. Len(queue[q]) : queue'[q][i] = queue[q][j]
      BY <1>1 DEF Thinning
    <2>a. UNCHANGED told
      BY <1>1
    <2>b. StateAfterItsRecords
      BY <1>0 DEF StateIsToldInTurn
    <2>2. ASSUME NEW q \in Queues, NEW i \in DOMAIN queue'[q],
                 queue'[q][i].seq < told.after, queue'[q][i].q # "calls"
          PROVE  queue'[q][i].owner \in Asks
      <3>1. PICK j \in 1 .. Len(queue[q]) : queue'[q][i] = queue[q][j]
        BY <1>d, <2>1
      <3> QED
        BY <1>d, <2>2, <2>b, <3>1 DEF StateAfterItsRecords
    <2>3. StateAfterItsRecords'
      BY <2>a, <2>2 DEF StateAfterItsRecords
    <2> QED
      BY <1>0, <1>1, <2>3 DEF StateIsToldInTurn, FinalStateIsTold
  <1>2. ASSUME NEW p \in Pushers, NEW q \in Queues, NEW o \in Owners, NEW c \in BOOLEAN,
               Stamping(p, q, o, c)
        PROVE  StateIsToldInTurn'
    <2>1. UNCHANGED <<queue, told, state, ended>>
      BY <1>2 DEF Stamping
    <2> QED
      BY <1>0, <2>1 DEF StateIsToldInTurn, StateAfterItsRecords, FinalStateIsTold
  <1>3. ASSUME NEW p \in Pushers, Push(p) PROVE StateIsToldInTurn'
    <2> DEFINE r == pushing[p]
    <2>1. UNCHANGED <<told, state, ended>>
      BY <1>3 DEF Push
    <2>2. r.q \in Queues /\ r.seq \in Nat /\ Halfway(p) /\ r \in Rec
      BY <1>0, <1>3, PushTypes, SeqsAreNumbers
    <2>3. r.q # "calls" => ~(r.seq < told.after)
      <3>1. CASE p = "engine"
        <4>1. engineAt <= r.seq /\ told.after <= engineAt
          BY <1>0, <2>2, <3>1 DEF StateFollowsRecords
        <4>2. told.after \in Nat /\ engineAt \in Nat
          BY <1>0, AftersAreNumbers, SeqsAreNumbers
        <4> QED
          BY <2>2, <4>1, <4>2
      <3>2. CASE p = "caller"
        BY <1>0, <2>2, <3>2 DEF RecordsAreFiled
      <3> QED
        BY <3>1, <3>2 DEF Pushers
    <2>4. ASSUME NEW q \in Queues, NEW i \in 1 .. Len(queue'[q]),
                 queue'[q][i].seq < told.after, queue'[q][i].q # "calls"
          PROVE  queue'[q][i].owner \in Asks
      <3>1. CASE q # r.q
        <4>1. queue'[q] = queue[q]
          BY <1>0, <1>3, <3>1, PushedQueues
        <4> QED
          BY <1>0, <1>d, <2>4, <4>1 DEF StateIsToldInTurn, StateAfterItsRecords
      <3>2. CASE q = r.q
        <4>1. /\ i \in 1 .. Len(queue[q]) \/ i = Len(queue[q]) + 1
              /\ \A j \in 1 .. Len(queue[q]) : queue'[q][j] = queue[q][j]
              /\ queue'[q][Len(queue[q]) + 1] = r
          BY <1>0, <1>3, <3>2, PushedQueues
        <4>2. CASE i \in 1 .. Len(queue[q])
          BY <1>0, <1>d, <2>4, <4>1, <4>2 DEF StateIsToldInTurn, StateAfterItsRecords
        <4>3. CASE i = Len(queue[q]) + 1
          BY <2>3, <2>4, <4>1, <4>3
        <4> QED
          BY <4>1, <4>2, <4>3
      <3> QED
        BY <3>1, <3>2
    <2>5. StateAfterItsRecords'
      BY <1>d, <2>1, <2>4 DEF StateAfterItsRecords
    <2> QED
      BY <1>0, <2>1, <2>5 DEF StateIsToldInTurn, FinalStateIsTold
  <1>4. CASE WriteState
    <2>1. UNCHANGED <<queue, told, ended>> /\ ~ended
      BY <1>0, <1>4 DEF WriteState, CloseIsLast
    <2> QED
      BY <1>0, <2>1 DEF StateIsToldInTurn, StateAfterItsRecords, FinalStateIsTold
  <1>5. CASE Pushing
    BY <1>0, <1>2, <1>3, <1>4, <1>5, StampingSteps
  <1>6. CASE ProcessMsgs
    BY <1>0, <1>1, <1>6, QuietThins DEF ProcessMsgs
  <1>7. CASE PumpForAsk
    BY <1>0, <1>1, <1>7, QuietThins DEF PumpForAsk
  <1>8. CASE TakeCut
    BY <1>0, <1>1, <1>8, QuietThins DEF TakeCut
  <1>9. CASE TakeBelow
    BY <1>0, <1>1, <1>9, TakeThins DEF TakeBelow
  <1>10. CASE Deliver
    <2>1. pc = "deliver" /\ queue' = queue /\ state' = state
      BY <1>10 DEF Deliver
    <2>a. /\ cut \in Nat /\ engineAt \in Nat /\ state.after \in Nat /\ polled.after \in Nat
          /\ told.after \in Nat
          /\ \A q \in Queues : \A i \in 1 .. Len(queue[q]) : queue[q][i].seq \in Nat
      BY <1>0, AftersAreNumbers, SeqsAreNumbers
    <2>2. ASSUME take # "own", told'.after \in Nat, told'.after <= cut
          PROVE  StateAfterItsRecords'
      <3>1. ASSUME NEW q \in Queues, NEW i \in 1 .. Len(queue[q]),
                   queue[q][i].seq < told'.after
            PROVE  queue[q][i].owner \in Asks
        <4>1. ~(queue[q][i].seq >= cut)
          BY <2>2, <2>a, <3>1
        <4> QED
          BY <1>0, <2>1, <2>2, <4>1, NothingBelowTheCut
      <3> QED
        BY <1>d, <2>1, <3>1 DEF StateAfterItsRecords
    <2>3. CASE \E c \in out : c.close
      <3>1. PICK c \in out : c.close
        BY <2>3
      <3>2. told' = state
        BY <1>10, <2>3 DEF Deliver, FinalState
      <3>3. take # "own"
        BY <1>0, <3>1, CloseIsRead
      <3>4. /\ engineAt <= c.seq + 1 /\ c.seq < cut /\ c.seq \in Nat
            /\ state.after <= engineAt
        BY <1>0, <2>1, <3>1, OutstandingIs, SeqsAreNumbers
           DEF CloseIsLast, TakenIsDue, StateFollowsRecords
      <3>5. state.after <= cut
        BY <2>a, <3>4
      <3>6. StateAfterItsRecords'
        BY <2>2, <2>a, <3>2, <3>3, <3>5
      <3> QED
        BY <2>1, <3>2, <3>6 DEF StateIsToldInTurn, FinalStateIsTold
    <2>4. CASE ~\E c \in out : c.close
      <3>1. ended' = ended /\ told' = IF take = "own" THEN told ELSE polled
        BY <1>10, <2>4 DEF Deliver, PolledState
      <3>2. ~ended
        BY <1>0, <2>1 DEF ReadHoldsItsTurn
      <3>3. StateAfterItsRecords'
        <4>1. CASE take = "own"
          BY <1>0, <2>1, <3>1, <4>1 DEF StateIsToldInTurn, StateAfterItsRecords
        <4>2. CASE take # "own"
          <5>1. told' = polled /\ polled.after <= cut
            BY <1>0, <2>1, <3>1, <4>2 DEF StateFollowsRecords
          <5> QED
            BY <2>2, <2>a, <4>2, <5>1
        <4> QED
          BY <4>1, <4>2
      <3> QED
        BY <3>1, <3>2, <3>3 DEF StateIsToldInTurn, FinalStateIsTold
    <2> QED
      BY <2>3, <2>4
  <1>11. CASE Ask
    BY <1>0, <1>1, <1>11, QuietThins DEF Ask
  <1>12. CASE StopAsking
    BY <1>0, <1>1, <1>12, QuietThins DEF StopAsking
  <1>13. ASSUME NEW q \in Queues, TakeByNumber(q) PROVE StateIsToldInTurn'
    BY <1>0, <1>1, <1>13, TakeByNumberThins DEF TakeByNumber
  <1>14. CASE UNCHANGED vars
    BY <1>0, <1>1, <1>14, QuietThins DEF vars
  <1> QED
    BY <1>5, <1>6, <1>7, <1>8, <1>9, <1>10, <1>11, <1>12, <1>13, <1>14 DEF Next, Reading, Asking

-----------------------------------------------------------------------------
(***************************************************************************)
(* What a read delivers.                                                   *)
(***************************************************************************)
LEMMA DeliverFacts ==
  ASSUME TypeOK, TypeOK', StampsAreOrdered, Deliver
  PROVE  LET x == InStampOrder(UpToTheClose) IN
         /\ UpToTheClose \in SUBSET Rec /\ \A r \in UpToTheClose : r \in out
         /\ Stamped(UpToTheClose) /\ Orders(x, UpToTheClose) /\ x \in Seq(Rec)
         /\ log \in Seq(Rec) /\ log' \in Seq(Rec)
         /\ take = "own" => log' = log
         /\ take # "own" => Joins(log', log, x)
  <1> DEFINE U == UpToTheClose
             x == InStampOrder(U)
  <1>1. U \in SUBSET Rec /\ \A r \in U : r \in out
    BY DEF UpToTheClose, TypeOK
  <1>2. Stamped(U)
    <2>1. \A r \in Rec : r.seq \in 0 .. MaxRecords - 1
      BY DEF Rec
    <2>2. \A r \in U : r \in Outstanding
      BY <1>1, OutstandingIs
    <2> HIDE DEF U
    <2> QED
      BY <1>1, <2>1, <2>2 DEF Stamped, StampsAreOrdered
  <1>3. log \in Seq(Rec) /\ log' \in Seq(Rec)
    BY DEF TypeOK
  <1>4. /\ take = "own" => log' = log
        /\ take # "own" => log' = log \o x
    BY DEF Deliver, HandOver
  <1> HIDE DEF U
  <1>5. Orders(x, U)
    BY <1>2, InStampOrderOrders
  <1> HIDE DEF x
  <1>6. x \in Seq(Rec)
    <2>1. x \in Seq(U)
      BY <1>5 DEF Orders
    <2> QED
      BY <1>1, <2>1
  <1>7. ASSUME take # "own" PROVE Joins(log', log, x)
    <2> DEFINE w == log \o x
               n == Len(log)
               m == Len(x)
    <2>1. /\ n \in Nat /\ m \in Nat /\ Len(w) = n + m
          /\ \A i \in 1 .. n : w[i] = log[i]
          /\ \A i \in n + 1 .. n + m : w[i] = x[i - n]
      BY <1>3, <1>6
    <2> HIDE DEF n, m
    <2>2. /\ \A i \in 1 .. m : n + i \in n + 1 .. n + m /\ (n + i) - n = i
          /\ \A i \in n + 1 .. n + m : i - n \in 1 .. m
          /\ \A i \in 1 .. n + m : i \in 1 .. n \/ i \in n + 1 .. n + m
      BY <2>1
    <2>3. log' = w
      BY <1>4, <1>7
    <2> HIDE DEF w
    <2>4. \A i \in 1 .. m : w[n + i] = x[i]
      BY <2>1, <2>2
    <2> QED
      BY <2>1, <2>2, <2>3, <2>4 DEF Joins, n, m
  <1> QED
    BY <1>1, <1>2, <1>3, <1>4, <1>5, <1>6, <1>7 DEF U, x

LEMMA PrivateStep ==
  ASSUME TypeOK, TypeOK', StampsAreOrdered, ReadHoldsItsTurn, TakenIsDue, AnswersStayPrivate,
         [Next]_vars
  PROVE  AnswersStayPrivate'
  <1>l. /\ Logged = {log[i] : i \in 1 .. Len(log)}
        /\ Logged' = {log'[i] : i \in 1 .. Len(log')}
    BY SMTT(60) DEF TypeOK, Logged, ToSet
  <1> USE DEF pushVars, readVars, askVars
  <1>1. ASSUME UNCHANGED <<surface, log>> PROVE AnswersStayPrivate'
    BY <1>1 DEF AnswersStayPrivate, Logged
  <1>2. ASSUME NEW p \in Pushers, NEW q \in Queues, NEW o \in Owners, NEW c \in BOOLEAN,
               Stamping(p, q, o, c)
        PROVE  AnswersStayPrivate'
    BY <1>1, <1>2 DEF Stamping
  <1>3. ASSUME NEW p \in Pushers, Push(p) PROVE AnswersStayPrivate'
    BY <1>1, <1>3 DEF Push
  <1>4. CASE WriteState
    BY <1>1, <1>4 DEF WriteState
  <1>5. CASE Pushing
    BY <1>2, <1>3, <1>4, <1>5, StampingSteps
  <1>6. CASE ProcessMsgs \/ PumpForAsk
    BY <1>1, <1>6 DEF ProcessMsgs, PumpForAsk
  <1>7. CASE TakeCut
    BY <1>1, <1>7 DEF TakeCut
  <1>8. CASE TakeBelow
    BY <1>1, <1>8 DEF TakeBelow
  <1>9. CASE Deliver
    <2> DEFINE x == InStampOrder(UpToTheClose)
    <2>1. /\ \A r \in UpToTheClose : r \in out
          /\ Orders(x, UpToTheClose)
          /\ take = "own" => log' = log
          /\ take # "own" => Joins(log', log, x)
      BY <1>9, DeliverFacts
    <2>2. surface' = surface
      BY <1>9 DEF Deliver
    <2> HIDE DEF x
    <2>3. CASE take = "own"
      BY <1>1, <2>1, <2>2, <2>3
    <2>4. CASE take = "whole"
      BY <2>2, <2>4 DEF ReadHoldsItsTurn, AnswersStayPrivate
    <2>5. CASE take = "dispatch"
      <3>1. \A i \in 1 .. Len(x) : x[i].q # "previews" => x[i].owner \notin Asks
        <4>1. \A i \in 1 .. Len(x) : x[i] \in UpToTheClose
          BY <2>1 DEF Orders
        <4> QED
          BY <2>1, <2>5, <4>1 DEF TakenIsDue
      <3>2. /\ \A i \in 1 .. Len(log) : log'[i] = log[i]
            /\ \A i \in Len(log) + 1 .. Len(log) + Len(x) :
                 log'[i] = x[i - Len(log)] /\ i - Len(log) \in 1 .. Len(x)
            /\ \A i \in 1 .. Len(log') :
                 i \in 1 .. Len(log) \/ i \in Len(log) + 1 .. Len(log) + Len(x)
        BY <2>1, <2>5 DEF Joins
      <3>3. ASSUME surface # "kept", NEW i \in 1 .. Len(log'), log'[i].q # "previews"
            PROVE  log'[i].owner \notin Asks
        <4>1. CASE i \in 1 .. Len(log)
          <5>1. log[i] \in Logged
            BY <1>l, <4>1
          <5> QED
            BY <3>2, <3>3, <4>1, <5>1 DEF AnswersStayPrivate
        <4>2. CASE i \in Len(log) + 1 .. Len(log) + Len(x)
          BY <3>1, <3>2, <3>3, <4>2
        <4> QED
          BY <3>2, <4>1, <4>2
      <3>4. ASSUME surface' # "kept", NEW r \in Logged', r.q # "previews"
            PROVE  r.owner \notin Asks
        <4>1. PICK i \in 1 .. Len(log') : r = log'[i]
          BY <1>l
        <4> QED
          BY <2>2, <3>3, <3>4, <4>1
      <3> QED
        BY <3>4 DEF AnswersStayPrivate
    <2> QED
      BY <2>3, <2>4, <2>5 DEF TypeOK
  <1>10. CASE Ask
    BY <1>1, <1>10 DEF Ask
  <1>11. CASE StopAsking
    BY <1>1, <1>11 DEF StopAsking
  <1>12. ASSUME NEW q \in Queues, TakeByNumber(q) PROVE AnswersStayPrivate'
    BY <1>1, <1>12 DEF TakeByNumber
  <1>13. CASE UNCHANGED vars
    BY <1>1, <1>13 DEF vars
  <1> QED
    BY <1>5, <1>6, <1>7, <1>8, <1>9, <1>10, <1>11, <1>12, <1>13 DEF Next, Reading, Asking

-----------------------------------------------------------------------------
(***************************************************************************)
(* The invariant.                                                          *)
(***************************************************************************)
LEMMA InitIInv ==
  ASSUME Init
  PROVE  IInv
  <1>0. <<>> \in Seq(Rec) /\ Len(<<>>) = 0
    OBVIOUS
  <1>1. NoState \in StateType /\ NoState.after = 0
    BY DEF NoState, StateType
  <1>2. TypeOK
    <2>1. queue \in [Queues -> Seq(Rec)] /\ log \in Seq(Rec)
      BY <1>0 DEF Init
    <2>2. pushing \in [Pushers -> Rec \cup {Nothing}]
      BY DEF Init
    <2>3. /\ state \in StateType /\ polled \in StateType /\ told \in StateType
      BY <1>1 DEF Init
    <2>4. /\ holder \in [Queues -> Pushers \cup {"free"}] /\ at \in 1 .. Len(QueueOrder)
      BY QueuesAre DEF Init
    <2>5. /\ next \in 0 .. MaxRecords /\ engineAt \in 0 .. MaxRecords /\ cut \in 0 .. MaxRecords
          /\ asked \in 0 .. MaxAsks /\ held \subseteq Asks /\ out \subseteq Rec
          /\ answers \subseteq Rec
      BY DEF Init
    <2>6. /\ surface \in Surfaces /\ closed \in BOOLEAN /\ ended \in BOOLEAN
          /\ turn \in {"free", "program", "question"}
          /\ pc \in {"idle", "cut", "drain", "deliver"}
          /\ take \in {"dispatch", "whole", "own"}
      BY DEF Init
    <2> QED
      BY <2>1, <2>2, <2>3, <2>4, <2>5, <2>6 DEF TypeOK
  <1>3. /\ \A q \in Queues : \A i \in 1 .. Len(queue[q]) : FALSE
        /\ \A p \in Pushers : ~Halfway(p)
        /\ out = {}
    BY <1>0 DEF Init, Halfway
  <1>4. \A r \in Outstanding : FALSE
    BY <1>2, <1>3, OutstandingIs
  <1>5. StampsAreOrdered
    BY <1>3, <1>4 DEF StampsAreOrdered
  <1>6. RecordsAreFiled
    BY <1>3, <1>4 DEF RecordsAreFiled, Pushers
  <1>7. CloseIsLast
    BY <1>3, <1>4 DEF CloseIsLast, Pushers, Init
  <1>8. ReadHoldsItsTurn
    BY DEF ReadHoldsItsTurn, Init
  <1>9. TakenIsDue /\ DrainedToTheCut
    BY DEF TakenIsDue, DrainedToTheCut, Drained, Init
  <1>10. StateFollowsRecords
    BY <1>1, <1>3 DEF StateFollowsRecords, Init, Pushers
  <1>11. StateIsToldInTurn
    <2>1. \A q \in Queues : DOMAIN queue[q] = 1 .. Len(queue[q])
      BY <1>2 DEF TypeOK
    <2> QED
      BY <1>3, <2>1 DEF StateIsToldInTurn, StateAfterItsRecords, FinalStateIsTold, Init
  <1>12. AnswersStayPrivate
    <2>1. log = <<>> /\ Logged = {log[i] : i \in DOMAIN log} /\ DOMAIN log = {}
      BY DEF Init, Logged, ToSet
    <2> QED
      BY <2>1 DEF AnswersStayPrivate
  <1> QED
    BY <1>2, <1>5, <1>6, <1>7, <1>8, <1>9, <1>10, <1>11, <1>12 DEF IInv

LEMMA StepIInv ==
  ASSUME IInv, [Next]_vars
  PROVE  IInv'
  <1>1. /\ TypeOK /\ StampsAreOrdered /\ RecordsAreFiled /\ CloseIsLast /\ ReadHoldsItsTurn
        /\ TakenIsDue /\ DrainedToTheCut /\ StateFollowsRecords /\ AnswersStayPrivate
    BY DEF IInv
  <1>2. TypeOK'
    BY <1>1, TypeStep
  <1>3. StampsAreOrdered' /\ RecordsAreFiled' /\ CloseIsLast'
    BY <1>1, <1>2, StampsStep, FiledStep, CloseStep
  <1>4. ReadHoldsItsTurn' /\ TakenIsDue' /\ DrainedToTheCut'
    BY <1>1, <1>2, TurnStep, TakenStep, DrainedStep
  <1>5. StateFollowsRecords' /\ StateIsToldInTurn'
    BY <1>1, <1>2, FollowsStep, ToldStep
  <1>6. AnswersStayPrivate'
    BY <1>1, <1>2, PrivateStep
  <1> QED
    BY <1>2, <1>3, <1>4, <1>5, <1>6 DEF IInv

(* Every state of a session has the invariant. *)
THEOREM Inductive == Spec => []IInv
  BY InitIInv, StepIInv, PTL DEF Spec

(* Every variable keeps its type, through every interleaving of the        *)
(* pushes, the reads and the questions.                                    *)
THEOREM TypeCorrect == Spec => []TypeOK
  <1>1. IInv => TypeOK
    BY DEF IInv
  <1> QED
    BY <1>1, Inductive, PTL

(* read_the_session polls the state before its cut and delivers it after   *)
(* its records, and takes it again at the close: the program never sees a  *)
(* change of state ahead of a record pushed before it, and is left with    *)
(* the last state the engine wrote.                                        *)
THEOREM StateInTurn == Spec => []StateIsToldInTurn
  <1>1. IInv => StateIsToldInTurn
    BY DEF IInv
  <1> QED
    BY <1>1, Inductive, PTL

(* kept_back and the turn keep a question's answers from the program: held *)
(* they wait for the question, given up on they are dropped, and only a    *)
(* client that keeps a record of the session sees them in it.              *)
THEOREM AnswersArePrivate == Spec => []AnswersStayPrivate
  <1>1. IInv => AnswersStayPrivate
    BY DEF IInv
  <1> QED
    BY <1>1, Inductive, PTL

-----------------------------------------------------------------------------
(***************************************************************************)
(* One queue.  What is owed to the program is the order of its outstanding *)
(* records; a stamp puts one at its tail, a read takes a head of it, and   *)
(* nothing else touches it.                                                *)
(***************************************************************************)
LEMMA OutstandingHas ==
  ASSUME TypeOK'
  PROVE  /\ Outstanding' \subseteq Rec
         /\ \A q \in Queues : \A i \in 1 .. Len(queue'[q]) : queue'[q][i] \in Outstanding'
         /\ \A r \in out' : r \in Outstanding'
         /\ \A p \in Pushers : pushing'[p] # Nothing => pushing'[p] \in Outstanding'
  <1>1. \A q \in Queues : ToSet(queue'[q]) = {queue'[q][i] : i \in 1 .. Len(queue'[q])}
    BY DEF TypeOK, ToSet
  <1>2. /\ \A q \in Queues : \A i \in 1 .. Len(queue'[q]) : queue'[q][i] \in Rec
        /\ \A p \in Pushers : pushing'[p] # Nothing => pushing'[p] \in Rec
        /\ out' \subseteq Rec
    BY DEF TypeOK
  <1> DEFINE U == Queued'
             H == InHand'
  <1>3. Outstanding' = U \cup out' \cup H
    BY DEF Outstanding
  <1>4. ASSUME NEW q \in Queues, NEW i \in 1 .. Len(queue'[q]) PROVE queue'[q][i] \in U
    <2>1. queue'[q][i] \in ToSet(queue'[q])
      BY <1>1
    <2> QED
      BY <2>1 DEF Queued
  <1>5. \A p \in Pushers : pushing'[p] # Nothing => pushing'[p] \in H
    BY Zenon DEF InHand
  <1> HIDE DEF U, H
  <1>6. Outstanding' \subseteq Rec
    BY <1>2, OutstandingNext
  <1> QED
    BY <1>3, <1>4, <1>5, <1>6

(* The program's entries of a set of records, and their order. *)
LEMMA EntriesAre ==
  ASSUME NEW S \in SUBSET Rec, Stamped(S)
  PROVE  /\ Stamped(EntriesOf(S))
         /\ Orders(InStampOrder(EntriesOf(S)), EntriesOf(S))
         /\ InStampOrder(EntriesOf(S)) \in Seq(Entries)
  <1>1. Orders(InStampOrder(S), S)
    BY InStampOrderOrders
  <1>2. Stamped(EntriesOf(S))
    BY <1>1, ProgramsOrder
  <1>3. Orders(InStampOrder(EntriesOf(S)), EntriesOf(S))
    BY <1>2, InStampOrderOrders
  <1>4. \A r \in Rec : EntryOf(r) \in Entries
    BY DEF Rec, EntryOf, Entries
  <1>5. EntriesOf(S) \subseteq Entries
    BY <1>4 DEF EntriesOf, Programs
  <1>6. InStampOrder(EntriesOf(S)) \in Seq(EntriesOf(S))
    BY <1>3 DEF Orders
  <1> DEFINE x == InStampOrder(EntriesOf(S))
             E == EntriesOf(S)
  <1> HIDE DEF x, E
  <1>7. x \in Seq(E) /\ E \subseteq Entries
    BY <1>5, <1>6 DEF x, E
  <1>8. x \in Seq(Entries)
    BY <1>7
  <1> QED
    BY <1>2, <1>3, <1>8 DEF x

(* Part of a set before the rest of it. *)
LEMMA EntriesSplit ==
  ASSUME NEW S \in SUBSET Rec, Stamped(S), NEW U \in SUBSET S, NEW R \in SUBSET S,
         \A r \in S : r.owner \notin Asks => r \in U \/ r \in R,
         \A r \in U, s \in R : r.owner \notin Asks /\ s.owner \notin Asks => r.seq < s.seq
  PROVE  Joins(InStampOrder(EntriesOf(S)), InStampOrder(EntriesOf(U)), InStampOrder(EntriesOf(R)))
  <1> DEFINE A == EntriesOf(U)
             B == EntriesOf(R)
             E == EntriesOf(S)
             f == InStampOrder(A)
             g == InStampOrder(B)
             h == f \o g
             n == Len(f)
             m == Len(g)
  <1>1. Stamped(U) /\ Stamped(R) /\ U \in SUBSET Rec /\ R \in SUBSET Rec
    BY DEF Stamped
  <1>2. /\ Stamped(A) /\ Orders(f, A) /\ f \in Seq(Entries)
        /\ Stamped(B) /\ Orders(g, B) /\ g \in Seq(Entries)
        /\ Stamped(E) /\ Orders(InStampOrder(E), E)
    BY <1>1, EntriesAre
  <1>3. ASSUME NEW a \in A, NEW b \in B PROVE a.seq < b.seq
    <2>1. PICK r \in Programs(U) : a = EntryOf(r)
      BY DEF EntriesOf
    <2>2. PICK s \in Programs(R) : b = EntryOf(s)
      BY DEF EntriesOf
    <2>3. a.seq = r.seq /\ b.seq = s.seq
      BY <2>1, <2>2 DEF EntryOf
    <2> QED
      BY <2>3 DEF Programs
  <1>4. A \cup B = E
    BY DEF EntriesOf, Programs
  <1> HIDE DEF A, B, E, f, g
  <1>5. f \in Seq(A) /\ g \in Seq(B)
    BY <1>2 DEF Orders
  <1>6. /\ f \in Seq(A \cup B) /\ g \in Seq(A \cup B)
    BY <1>5
  <1>7. /\ n \in Nat /\ m \in Nat /\ Len(h) = n + m /\ h \in Seq(A \cup B)
        /\ \A i \in 1 .. n : h[i] = f[i]
        /\ \A i \in n + 1 .. n + m : h[i] = g[i - n]
    BY <1>6
  <1> HIDE DEF h, n, m
  <1>8. /\ \A i \in 1 .. m : n + i \in n + 1 .. n + m /\ (n + i) - n = i
        /\ \A i \in n + 1 .. n + m : i - n \in 1 .. m
        /\ \A i \in 1 .. n + m : i \in 1 .. n \/ i \in n + 1 .. n + m
    BY <1>7
  <1>9. \A i \in 1 .. m : h[n + i] = g[i]
    BY <1>7, <1>8
  <1>10. Joins(h, f, g)
    BY <1>7, <1>8, <1>9 DEF Joins, n, m
  <1>11. Orders(h, A \cup B)
    BY <1>2, <1>3, <1>7, <1>10, OrdersConcat
  <1>12. Orders(h, E)
    BY <1>4, <1>11
  <1>13. h = InStampOrder(E)
    BY <1>2, <1>12, OrdersAgree
  <1> QED
    BY <1>10, <1>13 DEF A, B, E, f, g

(* What is owed, before and after a step. *)
LEMMA OwedIs ==
  ASSUME IInv, IInv'
  PROVE  /\ Outstanding \in SUBSET Rec /\ Stamped(Outstanding)
         /\ Outstanding' \in SUBSET Rec /\ Stamped(Outstanding')
         /\ ~ended => Owed = InStampOrder(EntriesOf(Outstanding))
         /\ ~ended' => Owed' = InStampOrder(EntriesOf(Outstanding'))
         /\ ended => Owed = <<>>
         /\ ended' => Owed' = <<>>
  <1>1. \A r \in Rec : r.seq \in 0 .. MaxRecords - 1
    BY DEF Rec
  <1>2. Outstanding \subseteq Rec /\ Outstanding' \subseteq Rec
    BY OutstandingIs, OutstandingHas DEF IInv
  <1>3. Stamped(Outstanding)
    BY <1>1, <1>2 DEF Stamped, IInv, StampsAreOrdered
  <1>4. Stamped(Outstanding')
    BY <1>1, <1>2 DEF Stamped, IInv, StampsAreOrdered
  <1>5. /\ ~ended => Owed = InStampOrder(EntriesOf(Outstanding))
        /\ ended => Owed = <<>>
    BY DEF Owed, EntriesOf, Programs
  <1>6. /\ ~ended' => Owed' = InStampOrder(EntriesOf(Outstanding'))
        /\ ended' => Owed' = <<>>
    BY DEF Owed, EntriesOf, Programs
  <1> QED
    BY <1>2, <1>3, <1>4, <1>5, <1>6

(* A step that keeps the program's records where they are owed. *)
LEMMA KeepsWhatIsOwed ==
  ASSUME IInv, IInv', ended' = ended, ProgramsOf(log') = ProgramsOf(log),
         \/ ended
         \/ \A r \in Rec : r.owner \notin Asks => (r \in Outstanding <=> r \in Outstanding')
  PROVE  UNCHANGED OneQueue!dvars
  <1>1. Owed' = Owed
    <2>1. CASE ended
      BY <2>1, OwedIs
    <2>2. CASE /\ ~ended
               /\ \A r \in Rec : r.owner \notin Asks => (r \in Outstanding <=> r \in Outstanding')
      <3>1. Outstanding \in SUBSET Rec /\ Outstanding' \in SUBSET Rec
        BY OwedIs
      <3>2. Programs(Outstanding) = Programs(Outstanding')
        BY <2>2, <3>1 DEF Programs
      <3>3. EntriesOf(Outstanding) = EntriesOf(Outstanding')
        BY <3>2 DEF EntriesOf
      <3> QED
        BY <2>2, <3>3, OwedIs
    <2> QED
      BY <2>1, <2>2
  <1> QED
    BY <1>1 DEF OneQueue!dvars

(* A stamp puts its record at the tail. *)
LEMMA StampEnqueues ==
  ASSUME IInv, IInv', NEW p \in Pushers, NEW q \in Queues, NEW o \in Owners, NEW c \in BOOLEAN,
         Stamping(p, q, o, c)
  PROVE  OneQueue!Enqueue \/ UNCHANGED OneQueue!dvars
  <1> DEFINE n == NewRecord(q, o, c)
  <1>0. TypeOK /\ TypeOK' /\ StampsAreOrdered
    BY DEF IInv
  <1>1. ended' = ended /\ log' = log /\ queue' = queue /\ out' = out
    BY DEF Stamping, readVars
  <1>2. ProgramsOf(log') = ProgramsOf(log)
    BY <1>1
  <1>3. n \in Rec /\ n.owner = o /\ n.seq = next /\ next \in Nat
    <2>1. n \in Rec
      BY <1>0, StampTypes DEF Stamping
    <2>2. n.owner = o /\ n.seq = next
      BY DEF NewRecord
    <2> QED
      BY <1>0, <2>1, <2>2, SeqsAreNumbers
  <1>4. ~Halfway(p) /\ pushing' = [pushing EXCEPT ![p] = n] /\ pushing \in [Pushers -> Rec \cup {Nothing}]
    BY <1>0, StampTypes DEF Stamping, TypeOK
  <1>5. \A r \in Outstanding' : r \in Outstanding \/ r = n
    BY <1>0, StampingAdds
  <1> HIDE DEF n
  <1>6. n \in Outstanding'
    <2>1. pushing'[p] = n /\ n # Nothing
      BY <1>3, <1>4, NothingIsNoRecord
    <2> QED
      BY <1>0, <2>1, OutstandingHas
  <1>7. ASSUME NEW r \in Outstanding PROVE r \in Outstanding'
    <2>1. CASE \E q1 \in Queues : \E i \in 1 .. Len(queue[q1]) : r = queue[q1][i]
      BY <1>0, <1>1, <2>1, OutstandingHas
    <2>2. CASE r \in out
      BY <1>0, <1>1, <2>2, OutstandingHas
    <2>3. CASE \E p1 \in Pushers : Halfway(p1) /\ r = pushing[p1]
      <3>1. PICK p1 \in Pushers : Halfway(p1) /\ r = pushing[p1]
        BY <2>3
      <3>2. p1 # p
        BY <1>4, <3>1
      <3>3. pushing'[p1] = pushing[p1] /\ pushing'[p1] # Nothing
        BY <1>4, <3>1, <3>2 DEF Halfway
      <3> QED
        BY <1>0, <3>1, <3>3, OutstandingHas
    <2> QED
      BY <1>0, <2>1, <2>2, <2>3, OutstandingIs
  <1>8. CASE ended
    BY <1>1, <1>2, <1>8, KeepsWhatIsOwed
  <1>9. CASE o \in Asks
    BY <1>1, <1>2, <1>3, <1>5, <1>7, <1>9, KeepsWhatIsOwed
  <1>10. CASE ~ended /\ o \notin Asks
    <2> DEFINE e == EntryOf(n)
               s == InStampOrder(EntriesOf({n}))
    <2>1. /\ Outstanding \in SUBSET Rec /\ Outstanding' \in SUBSET Rec
          /\ Stamped(Outstanding) /\ Stamped(Outstanding')
          /\ Owed = InStampOrder(EntriesOf(Outstanding))
          /\ Owed' = InStampOrder(EntriesOf(Outstanding'))
      BY <1>1, <1>10, OwedIs
    <2>2. \A r \in Outstanding : r.seq < n.seq
      BY <1>0, <1>3 DEF StampsAreOrdered
    <2>3. Outstanding \in SUBSET Outstanding' /\ {n} \in SUBSET Outstanding'
      BY <1>6, <1>7
    <2>4. Joins(Owed', Owed, s)
      BY <1>5, <2>1, <2>2, <2>3, EntriesSplit
    <2>5. EntriesOf({n}) = {e} /\ e \in Entries /\ e.seq \in Nat
      BY <1>3, <1>10 DEF EntriesOf, Programs, EntryOf, Rec, Entries
    <2>6. Orders(s, {e}) /\ s \in Seq({e})
      <3>1. {n} \in SUBSET Rec /\ Stamped({n})
        BY <1>3 DEF Stamped, Rec
      <3>2. Orders(InStampOrder(EntriesOf({n})), EntriesOf({n}))
        BY <3>1, EntriesAre
      <3> QED
        BY <2>5, <3>2 DEF Orders
    <2> HIDE DEF e, s
    <2>7. Len(s) = 1 /\ s[1] = e
      <3>1. Len(s) \in Nat /\ \A i \in 1 .. Len(s) : s[i] = e
        BY <2>6
      <3>2. PICK i \in 1 .. Len(s) : s[i] = e
        BY <2>6 DEF Orders
      <3>3. ASSUME Len(s) >= 2 PROVE FALSE
        <4>1. 1 \in 1 .. Len(s) /\ 2 \in 1 .. Len(s)
          BY <3>1, <3>3
        <4>2. s[1].seq < s[2].seq
          BY <2>6, <4>1 DEF Orders
        <4> QED
          BY <2>5, <3>1, <4>1, <4>2
      <3>4. ~(Len(s) >= 2) /\ Len(s) >= 1
        BY <3>1, <3>2, <3>3
      <3>5. \A l \in Nat : ~(l >= 2) /\ l >= 1 => l = 1
        OBVIOUS
      <3>6. Len(s) = 1
        BY <3>1, <3>4, <3>5, Zenon
      <3>7. 1 \in 1 .. Len(s)
        BY <3>6
      <3> QED
        BY <3>1, <3>6, <3>7
    <2>8. Owed \in Seq(Entries) /\ Owed' \in Seq(Entries)
      BY <2>1, EntriesAre
    <2>9. /\ Len(Owed') = Len(Owed) + 1
          /\ \A i \in 1 .. Len(Owed) : Owed'[i] = Owed[i]
          /\ Owed'[Len(Owed) + 1] = e
      BY <2>4, <2>7 DEF Joins
    <2> DEFINE a == Owed
               b == Owed'
    <2>10. a \in Seq(Entries) /\ b \in Seq(Entries) /\ Len(b) = Len(a) + 1
           /\ (\A i \in 1 .. Len(a) : b[i] = a[i]) /\ b[Len(a) + 1] = e
      BY <2>8, <2>9
    <2> HIDE DEF a, b
    <2>11. b = Append(a, e)
      BY <2>5, <2>10
    <2>12. Owed' = Append(Owed, e)
      BY <2>11 DEF a, b
    <2> QED
      BY <1>1, <1>2, <1>10, <2>5, <2>9, <2>12 DEF OneQueue!Enqueue
  <1> QED
    BY <1>8, <1>9, <1>10

(* The record moves from the pusher's hand to its queue. *)
LEMMA PushKeeps ==
  ASSUME IInv, IInv', NEW p \in Pushers, Push(p)
  PROVE  UNCHANGED OneQueue!dvars
  <1>0. TypeOK /\ TypeOK'
    BY DEF IInv
  <1>1. ended' = ended /\ log' = log /\ out' = out
    BY DEF Push, readVars
  <1>2. ProgramsOf(log') = ProgramsOf(log)
    BY <1>1
  <1> DEFINE x == pushing[p]
  <1>3. /\ x.q \in Queues /\ pushing' = [pushing EXCEPT ![p] = Nothing]
        /\ pushing \in [Pushers -> Rec \cup {Nothing}]
    BY <1>0, PushTypes DEF TypeOK
  <1>4. /\ \A q \in Queues : q # x.q => queue'[q] = queue[q]
        /\ Len(queue[x.q]) \in Nat /\ Len(queue'[x.q]) = Len(queue[x.q]) + 1
        /\ \A i \in 1 .. Len(queue[x.q]) : queue'[x.q][i] = queue[x.q][i]
        /\ queue'[x.q][Len(queue[x.q]) + 1] = x
    BY <1>0, PushedQueues
  <1> HIDE DEF x
  <1>5. ASSUME NEW r \in Outstanding PROVE r \in Outstanding'
    <2>1. CASE \E q \in Queues : \E i \in 1 .. Len(queue[q]) : r = queue[q][i]
      <3>1. PICK q \in Queues : \E i \in 1 .. Len(queue[q]) : r = queue[q][i]
        BY <2>1
      <3>2. PICK i \in 1 .. Len(queue[q]) : r = queue[q][i]
        BY <3>1
      <3>3. i \in 1 .. Len(queue'[q]) /\ queue'[q][i] = r
        <4>1. CASE q # x.q
          BY <1>4, <3>2, <4>1
        <4>2. CASE q = x.q
          BY <1>4, <3>2, <4>2
        <4> QED
          BY <4>1, <4>2
      <3> QED
        BY <1>0, <3>3, OutstandingHas
    <2>2. CASE r \in out
      BY <1>0, <1>1, <2>2, OutstandingHas
    <2>3. CASE \E p1 \in Pushers : Halfway(p1) /\ r = pushing[p1]
      <3>1. PICK p1 \in Pushers : Halfway(p1) /\ r = pushing[p1]
        BY <2>3
      <3>2. CASE p1 = p
        <4>1. Len(queue[x.q]) + 1 \in 1 .. Len(queue'[x.q])
          BY <1>4
        <4>2. x \in Outstanding'
          BY <1>0, <1>3, <1>4, <4>1, OutstandingHas
        <4> QED
          BY <3>1, <3>2, <4>2 DEF x
      <3>3. CASE p1 # p
        <4>1. pushing'[p1] = pushing[p1] /\ pushing'[p1] # Nothing
          BY <1>3, <3>1, <3>3 DEF Halfway
        <4> QED
          BY <1>0, <3>1, <4>1, OutstandingHas
      <3> QED
        BY <3>2, <3>3
    <2> QED
      BY <1>0, <2>1, <2>2, <2>3, OutstandingIs
  <1>6. \A r \in Outstanding' : r \in Outstanding
    BY <1>0, PushMoves
  <1> QED
    BY <1>1, <1>2, <1>5, <1>6, KeepsWhatIsOwed

(* A drain moves what is the program's from a queue to the read's hand. *)
LEMMA TakeKeeps ==
  ASSUME IInv, IInv', TakeBelow
  PROVE  UNCHANGED OneQueue!dvars
  <1>0. TypeOK /\ TypeOK' /\ StampsAreOrdered /\ CloseIsLast /\ ReadHoldsItsTurn
    BY DEF IInv
  <1>1. ended' = ended /\ log' = log /\ pushing' = pushing
    BY DEF TakeBelow
  <1>2. ProgramsOf(log') = ProgramsOf(log)
    BY <1>1
  <1> DEFINE q0 == QueueOrder[at]
  <1>3. /\ q0 \in Queues /\ out' = out \cup Taken(q0)
        /\ Left(q0) = {i \in 1 .. Len(queue[q0]) :
                         queue[q0][i].seq < cut => FateOf(queue[q0][i]) = "leave"}
        /\ \A i \in 1 .. Len(queue[q0]) :
             queue[q0][i].seq < cut /\ FateOf(queue[q0][i]) = "take" => queue[q0][i] \in Taken(q0)
        /\ queue' = [queue EXCEPT ![q0] = queue'[q0]]
        /\ Thins(queue'[q0], queue[q0], Left(q0))
    BY <1>0, TakeFacts
  <1> HIDE DEF q0
  <1>4. queue \in [Queues -> Seq(Rec)]
    BY <1>0 DEF TypeOK
  <1>5. ASSUME NEW r \in Outstanding, r.owner \notin Asks PROVE r \in Outstanding'
    <2>1. CASE \E q \in Queues : \E i \in 1 .. Len(queue[q]) : r = queue[q][i]
      <3>1. PICK q \in Queues : \E i \in 1 .. Len(queue[q]) : r = queue[q][i]
        BY <2>1
      <3>2. PICK i \in 1 .. Len(queue[q]) : r = queue[q][i]
        BY <3>1
      <3>3. CASE q # q0
        <4>1. queue'[q] = queue[q]
          BY <1>3, <1>4, <3>3
        <4> QED
          BY <1>0, <3>2, <4>1, OutstandingHas
      <3>4. CASE q = q0 /\ i \in Left(q0)
        <4>1. PICK k \in 1 .. Len(queue'[q0]) : queue'[q0][k] = queue[q0][i]
          BY <1>3, <3>4 DEF Thins
        <4> QED
          BY <1>0, <1>3, <3>2, <3>4, <4>1, OutstandingHas
      <3>5. CASE q = q0 /\ i \notin Left(q0)
        <4>1. r \in Rec
          BY <1>4, <3>2
        <4>2. FateOf(r) = "take" \/ FateOf(r) = "leave"
          BY <1>0, <1>5, <4>1, FatesAre
        <4>3. r.seq < cut /\ FateOf(r) # "leave"
          BY <1>3, <3>2, <3>5
        <4>4. r \in Taken(q0)
          BY <1>3, <3>2, <3>5, <4>2, <4>3
        <4> QED
          BY <1>0, <1>3, <4>4, OutstandingHas
      <3> QED
        BY <3>3, <3>4, <3>5
    <2>2. CASE r \in out
      BY <1>0, <1>3, <2>2, OutstandingHas
    <2>3. CASE \E p1 \in Pushers : Halfway(p1) /\ r = pushing[p1]
      BY <1>0, <1>1, <2>3, OutstandingHas DEF Halfway
    <2> QED
      BY <1>0, <2>1, <2>2, <2>3, OutstandingIs
  <1>6. \A r \in Outstanding' : r \in Outstanding
    BY <1>0, TakeThins, ThinningLeaves
  <1> QED
    BY <1>1, <1>2, <1>5, <1>6, KeepsWhatIsOwed

(* What a question takes by its number is not the program's. *)
LEMMA TakeByNumberKeeps ==
  ASSUME IInv, IInv', NEW q0 \in Queues, TakeByNumber(q0)
  PROVE  UNCHANGED OneQueue!dvars
  <1>0. TypeOK /\ TypeOK' /\ CloseIsLast
    BY DEF IInv
  <1>1. ended' = ended /\ log' = log /\ pushing' = pushing /\ out' = out
    BY DEF TakeByNumber, readVars
  <1>2. ProgramsOf(log') = ProgramsOf(log)
    BY <1>1
  <1>3. PICK x \in 1 .. Len(queue[q0]) :
           /\ queue[q0][x].owner \in held
           /\ queue' = [queue EXCEPT ![q0] = queue'[q0]]
           /\ Thins(queue'[q0], queue[q0], (1 .. Len(queue[q0])) \ {x})
    BY <1>0, TakeByNumberFacts
  <1>4. queue \in [Queues -> Seq(Rec)] /\ held \subseteq Asks
    BY <1>0 DEF TypeOK
  <1>5. ASSUME NEW r \in Outstanding, r.owner \notin Asks PROVE r \in Outstanding'
    <2>1. CASE \E q \in Queues : \E i \in 1 .. Len(queue[q]) : r = queue[q][i]
      <3>1. PICK q \in Queues : \E i \in 1 .. Len(queue[q]) : r = queue[q][i]
        BY <2>1
      <3>2. PICK i \in 1 .. Len(queue[q]) : r = queue[q][i]
        BY <3>1
      <3>3. CASE q # q0
        <4>1. queue'[q] = queue[q]
          BY <1>3, <1>4, <3>3
        <4> QED
          BY <1>0, <3>2, <4>1, OutstandingHas
      <3>4. CASE q = q0
        <4>1. i # x
          BY <1>3, <1>4, <1>5, <3>2, <3>4
        <4>2. PICK k \in 1 .. Len(queue'[q0]) : queue'[q0][k] = queue[q0][i]
          BY <1>3, <3>4, <4>1 DEF Thins
        <4> QED
          BY <1>0, <3>2, <3>4, <4>2, OutstandingHas
      <3> QED
        BY <3>3, <3>4
    <2>2. CASE r \in out
      BY <1>0, <1>1, <2>2, OutstandingHas
    <2>3. CASE \E p1 \in Pushers : Halfway(p1) /\ r = pushing[p1]
      BY <1>0, <1>1, <2>3, OutstandingHas DEF Halfway
    <2> QED
      BY <1>0, <2>1, <2>2, <2>3, OutstandingIs
  <1>6. \A r \in Outstanding' : r \in Outstanding
    BY <1>0, TakeByNumberThins, ThinningLeaves
  <1> QED
    BY <1>1, <1>2, <1>5, <1>6, KeepsWhatIsOwed

(* A step that moves no record. *)
LEMMA QuietKeeps ==
  ASSUME IInv, IInv', UNCHANGED <<queue, pushing, out, log, ended>>
  PROVE  UNCHANGED OneQueue!dvars
  <1>1. ProgramsOf(log') = ProgramsOf(log)
    OBVIOUS
  <1>2. Outstanding' = Outstanding
    BY DEF Outstanding, Queued, InHand
  <1> QED
    BY <1>1, <1>2, KeepsWhatIsOwed

(* What a whole read delivers is the head of what is owed: what it leaves  *)
(* is stamped later, past its cut or past the close.                       *)
LEMMA DeliverTakesTheHead ==
  ASSUME IInv, IInv', Deliver, take # "own"
  PROVE  LET rest == {r \in Outstanding : r \notin UpToTheClose} IN
         /\ Joins(Owed, ProgramsOf(InStampOrder(UpToTheClose)), InStampOrder(EntriesOf(rest)))
         /\ Joins(ProgramsOf(log'), ProgramsOf(log), ProgramsOf(InStampOrder(UpToTheClose)))
         /\ ProgramsOf(log) \in Seq(Entries) /\ ProgramsOf(log') \in Seq(Entries)
         /\ Owed \in Seq(Entries)
         /\ ProgramsOf(InStampOrder(UpToTheClose)) \in Seq(Entries)
         /\ InStampOrder(EntriesOf(rest)) \in Seq(Entries)
         /\ Orders(ProgramsOf(InStampOrder(UpToTheClose)), EntriesOf(UpToTheClose))
         /\ rest \in SUBSET Rec
  <1> DEFINE U == UpToTheClose
             R == {r \in Outstanding : r \notin U}
             x == InStampOrder(U)
             p == ProgramsOf(x)
             g == InStampOrder(EntriesOf(R))
  <1>0. /\ TypeOK /\ TypeOK' /\ StampsAreOrdered /\ TakenIsDue /\ DrainedToTheCut
        /\ ReadHoldsItsTurn /\ pc = "deliver" /\ ~ended
    BY DEF IInv, Deliver, ReadHoldsItsTurn
  <1>1. /\ U \in SUBSET Rec /\ (\A r \in U : r \in out)
        /\ Stamped(U) /\ Orders(x, U) /\ x \in Seq(Rec)
        /\ log \in Seq(Rec) /\ log' \in Seq(Rec)
        /\ Joins(log', log, x)
    BY <1>0, DeliverFacts
  <1>2. /\ Outstanding \in SUBSET Rec /\ Stamped(Outstanding)
        /\ Owed = InStampOrder(EntriesOf(Outstanding))
    BY <1>0, OwedIs
  <1>3. \A r \in out : r \notin U => \E c \in out : c.close /\ ~(r.seq <= c.seq)
    BY DEF UpToTheClose
  <1>4. \A r \in U, c \in out : c.close => r.seq <= c.seq
    BY DEF UpToTheClose
  <1>5. /\ \A r \in Outstanding : r.seq \in Nat
        /\ \A r \in out : r \in Outstanding /\ r.seq < cut
        /\ cut \in Nat
    BY <1>0, SeqsAreNumbers, OutstandingIs DEF TakenIsDue
  <1> HIDE DEF U
  <1>6. ASSUME NEW r \in U, NEW s \in R, r.owner \notin Asks, s.owner \notin Asks
        PROVE  r.seq < s.seq
    <2>1. r \in out /\ r.seq \in Nat /\ r.seq < cut /\ s \in Outstanding /\ s.seq \in Nat
      BY <1>1, <1>5
    <2>2. CASE s \in out
      <3>1. PICK c \in out : c.close /\ ~(s.seq <= c.seq)
        BY <1>3, <2>2
      <3>2. r.seq <= c.seq /\ c.seq \in Nat
        BY <1>4, <1>5, <3>1
      <3> QED
        BY <2>1, <3>1, <3>2
    <2>3. CASE \E q \in Queues : \E i \in 1 .. Len(queue[q]) : s = queue[q][i]
      <3>1. s.seq >= cut
        BY <1>0, <1>6, <2>3, NothingBelowTheCut
      <3> QED
        BY <1>5, <2>1, <3>1
    <2>4. CASE \E p1 \in Pushers : Halfway(p1) /\ s = pushing[p1]
      <3>1. PICK p1 \in Pushers : Halfway(p1) /\ s = pushing[p1]
        BY <2>4
      <3>2. s.q \in Queues
        BY <1>0, <3>1, SeqsAreNumbers
      <3>3. PICK k \in 1 .. Len(QueueOrder) : QueueOrder[k] = s.q
        BY <3>2, QueuesAre
      <3>4. s.seq >= cut
        BY <1>0, <3>1, <3>3 DEF DrainedToTheCut, Drained
      <3> QED
        BY <1>5, <2>1, <3>4
    <2> QED
      BY <1>0, <2>1, <2>2, <2>3, <2>4, OutstandingIs
  <1>7. U \in SUBSET Outstanding /\ R \in SUBSET Outstanding
    BY <1>1, <1>5
  <1>8. \A r \in Outstanding : r.owner \notin Asks => r \in U \/ r \in R
    OBVIOUS
  <1>9. \A r \in U, s \in R : r.owner \notin Asks /\ s.owner \notin Asks => r.seq < s.seq
    BY <1>6
  <1> HIDE DEF R
  <1>10. Joins(InStampOrder(EntriesOf(Outstanding)), InStampOrder(EntriesOf(U)), g)
    BY <1>2, <1>7, <1>8, <1>9, EntriesSplit
  <1>11. Orders(p, EntriesOf(U)) /\ Stamped(EntriesOf(U))
    BY <1>1, ProgramsOrder
  <1>12. Orders(InStampOrder(EntriesOf(U)), EntriesOf(U))
    BY <1>1, EntriesAre
  <1>13. p = InStampOrder(EntriesOf(U))
    BY <1>11, <1>12, OrdersAgree
  <1>14. Joins(ProgramsOf(log'), ProgramsOf(log), p)
    BY <1>1, ProgramsConcat
  <1>15. /\ ProgramsOf(log) \in Seq(Entries) /\ ProgramsOf(log') \in Seq(Entries)
         /\ p \in Seq(Entries)
    BY <1>1, ProgramsAre
  <1>16. R \in SUBSET Rec /\ Stamped(R)
    BY <1>2, <1>7 DEF Stamped
  <1>17. g \in Seq(Entries) /\ Owed \in Seq(Entries)
    BY <1>2, <1>16, EntriesAre
  <1> QED
    BY <1>2, <1>10, <1>11, <1>13, <1>14, <1>15, <1>16, <1>17 DEF U, R, p, g, x

(* A sequence and what follows it, as SubSeq and \o say it. *)
LEMMA JoinsSplits ==
  ASSUME NEW S, NEW w \in Seq(S), NEW s \in Seq(S), NEW t \in Seq(S), Joins(w, s, t)
  PROVE  /\ SubSeq(w, 1, Len(s)) = s
         /\ SubSeq(w, Len(s) + 1, Len(w)) = t
         /\ w = s \o t
         /\ Len(w) = Len(s) + Len(t) /\ Len(s) \in Nat /\ Len(t) \in Nat
         /\ \A i \in 1 .. Len(s) : w[i] = s[i]
  <1> DEFINE n == Len(s)
             m == Len(t)
  <1>1. /\ n \in Nat /\ m \in Nat /\ Len(w) = n + m
        /\ \A i \in 1 .. n : w[i] = s[i]
        /\ \A i \in 1 .. m : w[n + i] = t[i]
        /\ \A i \in n + 1 .. n + m : w[i] = t[i - n]
    BY DEF Joins
  <1>2. w = s \o t
    BY <1>1
  <1>3. SubSeq(w, 1, n) = s
    <2> DEFINE a == SubSeq(w, 1, n)
    <2>1. a \in Seq(S) /\ Len(a) = n /\ \A i \in 1 .. n : a[i] = w[i]
      BY <1>1
    <2> HIDE DEF a
    <2>2. a = s
      BY <1>1, <2>1, SMTT(60)
    <2> QED
      BY <2>2 DEF a
  <1>4. SubSeq(w, n + 1, Len(w)) = t
    <2> DEFINE a == SubSeq(w, n + 1, n + m)
    <2>1. a \in Seq(S) /\ Len(a) = m /\ \A i \in 1 .. m : a[i] = w[n + i]
      BY <1>1
    <2> HIDE DEF a
    <2>2. Len(a) = Len(t) /\ \A i \in 1 .. Len(a) : a[i] = t[i]
      BY <1>1, <2>1
    <2>3. a = t
      BY <2>1, <2>2, SMTT(60)
    <2> QED
      BY <1>1, <2>3 DEF a
  <1> QED
    BY <1>1, <1>2, <1>3, <1>4

(* A read hands out a head of what is owed, or leaves it as it is. *)
LEMMA DeliverHandsOut ==
  ASSUME IInv, IInv', Deliver
  PROVE  OneQueue!HandOut \/ UNCHANGED OneQueue!dvars
  <1>0. /\ TypeOK /\ TypeOK' /\ StampsAreOrdered /\ TakenIsDue /\ CloseIsLast /\ RecordsAreFiled
        /\ ReadHoldsItsTurn /\ pc = "deliver" /\ ~ended /\ ended = FALSE
    BY DEF IInv, Deliver, ReadHoldsItsTurn, TypeOK
  <1>1. /\ queue' = queue /\ pushing' = pushing /\ out' = {}
        /\ (\E c \in out : c.close) => ended' = TRUE
        /\ (~\E c \in out : c.close) => ended' = ended
    BY DEF Deliver, pushVars
  <1>2. \A r \in Outstanding : r \in out \/ r \in Outstanding'
    BY <1>0, <1>1, OutstandingIs, OutstandingHas DEF Halfway
  <1>3. \A r \in Outstanding' : r \in Outstanding
    BY <1>0, DeliverThins, ThinningLeaves
  <1>4. CASE take = "own"
    <2>1. log' = log
      BY <1>0, <1>4, DeliverFacts
    <2>2. ProgramsOf(log') = ProgramsOf(log)
      BY <2>1
    <2>3. \A r \in out : r.owner \in Asks
      BY <1>0, <1>4 DEF TakenIsDue, ReadHoldsItsTurn
    <2>4. ~\E c \in out : c.close
      BY <1>0, <1>4, CloseIsRead
    <2> QED
      BY <1>1, <1>2, <1>3, <2>2, <2>3, <2>4, KeepsWhatIsOwed
  <1>5. CASE take # "own"
    <2> DEFINE U == UpToTheClose
               rest == {r \in Outstanding : r \notin U}
               p == ProgramsOf(InStampOrder(U))
               g == InStampOrder(EntriesOf(rest))
               l == ProgramsOf(log)
               m == ProgramsOf(log')
               w == Owed
               k == Len(p)
    <2>1. /\ Joins(w, p, g) /\ Joins(m, l, p)
          /\ l \in Seq(Entries) /\ m \in Seq(Entries) /\ w \in Seq(Entries)
          /\ p \in Seq(Entries) /\ g \in Seq(Entries)
          /\ Orders(p, EntriesOf(U))
          /\ rest \in SUBSET Rec
      BY <1>5, DeliverTakesTheHead
    <2>2. /\ \A r \in U : r \in out
          /\ \A r \in out : r \in U \/ \E c \in out : c.close
          /\ \A r \in U, c \in out : c.close => r.seq <= c.seq
      BY DEF UpToTheClose
    <2>3. \A r \in Outstanding : r.seq \in Nat
      BY <1>0, SeqsAreNumbers
    <2>4. \A r \in out : r \in Outstanding
      BY <1>0, OutstandingIs
    <2> HIDE DEF U, p, g, l, m, w, k
    <2>5. /\ SubSeq(w, 1, k) = p /\ SubSeq(w, k + 1, Len(w)) = g
          /\ Len(w) = k + Len(g) /\ k \in Nat /\ Len(g) \in Nat
          /\ \A i \in 1 .. k : w[i] = p[i]
      BY <2>1, JoinsSplits DEF k
    <2>6. m = l \o p /\ Len(m) = Len(l) + k /\ Len(l) \in Nat
      BY <2>1, JoinsSplits DEF k
    <2>7. ASSUME NEW i \in 1 .. k
          PROVE  \E r \in U : r.owner \notin Asks /\ p[i] = EntryOf(r)
      <3>1. p[i] \in EntriesOf(U)
        BY <2>1 DEF Orders, k
      <3> QED
        BY <3>1 DEF EntriesOf, Programs
    <2>8. \A r \in U : EntryOf(r).seq = r.seq /\ EntryOf(r).close = r.close
      BY DEF EntryOf
    <2>9. CASE \E c \in out : c.close
      <3>1. PICK c \in out : c.close
        BY <2>9
      <3>2. c.owner \notin Asks
        BY <1>0, <3>1, CloseIsRead
      <3>3. \A d \in out : d.close => d = c
        BY <1>0, <2>4, <3>1 DEF CloseIsLast
      <3>4. c \in U
        <4>1. \A d \in out : d.close => c.seq <= d.seq
          BY <2>3, <2>4, <3>3
        <4> QED
          BY <4>1 DEF U, UpToTheClose
      <3>5. EntryOf(c) \in EntriesOf(U)
        BY <3>2, <3>4 DEF EntriesOf, Programs
      <3>6. PICK j \in 1 .. k : p[j] = EntryOf(c)
        BY <2>1, <3>5 DEF Orders, k
      <3>7. \A i \in 1 .. k : p[i].seq <= c.seq /\ p[i].seq \in Nat
        <4> SUFFICES ASSUME NEW i \in 1 .. k PROVE p[i].seq <= c.seq /\ p[i].seq \in Nat
          OBVIOUS
        <4>1. PICK r \in U : p[i] = EntryOf(r)
          BY <2>7
        <4>2. p[i].seq = r.seq /\ r.seq <= c.seq
          BY <2>2, <2>8, <3>1, <4>1
        <4> QED
          BY <2>2, <2>3, <2>4, <4>2
      <3>8. \A a, b \in 1 .. k : a < b => p[a].seq < p[b].seq
        BY <2>1 DEF Orders, k
      <3>9. p[j].seq = c.seq /\ p[j].close
        BY <2>8, <3>1, <3>4, <3>6
      <3>10. j = k /\ k \in 1 .. k
        <4>1. ~(j < k)
          <5>1. ASSUME j < k PROVE FALSE
            <6>1. k \in 1 .. k
              BY <2>5, <5>1
            <6>2. p[j].seq < p[k].seq /\ p[k].seq <= c.seq /\ p[k].seq \in Nat
              BY <3>7, <3>8, <5>1, <6>1
            <6> QED
              BY <3>7, <3>9, <6>2
          <5> QED
            BY <5>1
        <4> QED
          BY <2>5, <4>1
      <3>11. ASSUME NEW i \in 1 .. k, p[i].close PROVE i = k
        <4>1. PICK r \in U : p[i] = EntryOf(r)
          BY <2>7
        <4>2. r = c
          BY <2>2, <2>8, <3>3, <3>11, <4>1
        <4>3. p[i].seq = c.seq /\ p[k].seq = c.seq /\ c.seq \in Nat
          BY <2>3, <2>4, <2>8, <3>4, <3>9, <3>10, <4>1, <4>2
        <4>4. ~(i < k)
          BY <3>8, <3>10, <4>3
        <4> QED
          BY <2>5, <4>4
      <3>12. k \in 1 .. Len(w)
        BY <2>5, <3>10
      <3>13. \A i \in 1 .. k : w[i].close => i = k
        BY <2>5, <3>11
      <3>14. w[k].close
        BY <2>5, <3>9, <3>10
      <3>15. w[k].close = TRUE
        <4>1. w[k] \in Entries
          BY <2>1, <3>12
        <4>2. w[k].close \in BOOLEAN
          BY <4>1 DEF Entries
        <4> QED
          BY <3>14, <4>2
      <3>16. m # l
        BY <2>5, <2>6, <3>10
      <3>17. Owed' = <<>> /\ ended' = TRUE
        <4>1. ended' = TRUE
          BY <1>1, <2>9
        <4> QED
          BY <4>1, OwedIs
      <3>18. m = l \o SubSeq(w, 1, k)
        BY <2>5, <2>6
      <3>19. /\ k \in 1 .. Len(Owed)
             /\ \A i \in 1 .. k : Owed[i].close => i = k
             /\ ProgramsOf(log') = ProgramsOf(log) \o SubSeq(Owed, 1, k)
             /\ ProgramsOf(log') # ProgramsOf(log)
             /\ ended' = Owed[k].close
             /\ Owed' = IF Owed[k].close THEN <<>> ELSE SubSeq(Owed, k + 1, Len(Owed))
        BY <3>12, <3>13, <3>15, <3>16, <3>17, <3>18 DEF w, l, m
      <3> QED
        BY <1>0, <3>19 DEF OneQueue!HandOut
    <2>10. CASE ~\E c \in out : c.close
      <3>1. ended' = FALSE /\ ended' = ended
        BY <1>0, <1>1, <2>10
      <3>2. \A r \in out : r \in U
        BY <2>2, <2>10
      <3>3. \A r \in Rec : r.owner \notin Asks => (r \in rest <=> r \in Outstanding')
        <4>1. ASSUME NEW r \in Outstanding', r.owner \notin Asks, r \in out PROVE FALSE
          <5>1. r.seq < cut
            BY <1>0, <4>1 DEF TakenIsDue
          <5>2. CASE \E q \in Queues : \E i \in 1 .. Len(queue'[q]) : r = queue'[q][i]
            <6>1. r.seq >= cut
              BY <1>0, <1>1, <1>5, <4>1, <5>2, NothingBelowTheCut DEF IInv
            <6> QED
              BY <1>0, <2>3, <2>4, <4>1, <5>1, <6>1, SeqsAreNumbers
          <5>3. CASE \E p1 \in Pushers : pushing'[p1] # Nothing /\ r = pushing'[p1]
            <6>1. PICK p1 \in Pushers : Halfway(p1) /\ r = pushing[p1]
              BY <1>1, <5>3 DEF Halfway
            <6>2. PICK x \in 1 .. Len(QueueOrder) : QueueOrder[x] = r.q
              BY <1>0, <6>1, SeqsAreNumbers, QueuesAre
            <6>3. r.seq >= cut
              BY <1>0, <1>5, <6>1, <6>2 DEF IInv, DrainedToTheCut, Drained
            <6> QED
              BY <1>0, <2>3, <2>4, <4>1, <5>1, <6>3, SeqsAreNumbers
          <5> QED
            BY <1>0, <1>1, <5>2, <5>3, OutstandingNext
        <4> QED
          BY <1>2, <1>3, <2>2, <3>2, <4>1
      <3>4. Owed' = g
        <4>1. Outstanding' \in SUBSET Rec /\ Owed' = InStampOrder(EntriesOf(Outstanding'))
          BY <3>1, OwedIs
        <4>2. Programs(rest) = Programs(Outstanding')
          BY <2>1, <3>3, <4>1 DEF Programs
        <4>3. EntriesOf(rest) = EntriesOf(Outstanding')
          BY <4>2 DEF EntriesOf
        <4> QED
          BY <4>1, <4>3 DEF g
      <3>5. ASSUME NEW i \in 1 .. k PROVE w[i].close = FALSE
        <4>1. PICK r \in U : p[i] = EntryOf(r)
          BY <2>7
        <4>2. ~r.close /\ p[i] \in Entries
          BY <2>1, <2>2, <2>10 DEF k
        <4>3. p[i].close \in BOOLEAN /\ ~p[i].close
          BY <2>8, <4>1, <4>2 DEF Entries
        <4> QED
          BY <2>5, <4>3
      <3>6. CASE k = 0
        <4>1. Owed' = Owed
          <5>1. w = g
            <6>1. SubSeq(w, 1, Len(w)) = w /\ k + 1 = 1
              BY <2>1, <3>6
            <6> QED
              BY <2>5, <6>1
          <5> QED
            BY <3>4, <5>1 DEF w
        <4>2. m = l
          <5>1. p = <<>>
            BY <2>1, <3>6 DEF k
          <5> QED
            BY <2>1, <2>6, <5>1
        <4> QED
          BY <3>1, <4>1, <4>2 DEF OneQueue!dvars, l, m
      <3>7. CASE k # 0
        <4>1. k \in 1 .. k /\ k \in 1 .. Len(w) /\ m # l
          BY <2>5, <2>6, <3>7
        <4>2. w[k].close = FALSE /\ \A i \in 1 .. k : ~w[i].close
          BY <3>5, <4>1
        <4>3. m = l \o SubSeq(w, 1, k)
          BY <2>5, <2>6
        <4>4. Owed' = SubSeq(w, k + 1, Len(w))
          BY <2>5, <3>4
        <4>5. /\ k \in 1 .. Len(Owed)
              /\ \A i \in 1 .. k : Owed[i].close => i = k
              /\ ProgramsOf(log') = ProgramsOf(log) \o SubSeq(Owed, 1, k)
              /\ ProgramsOf(log') # ProgramsOf(log)
              /\ ended' = Owed[k].close
              /\ Owed' = IF Owed[k].close THEN <<>> ELSE SubSeq(Owed, k + 1, Len(Owed))
          BY <3>1, <4>1, <4>2, <4>3, <4>4 DEF w, l, m
        <4> QED
          BY <1>0, <4>5 DEF OneQueue!HandOut
      <3> QED
        BY <3>6, <3>7
    <2> QED
      BY <2>9, <2>10
  <1> QED
    BY <1>4, <1>5

LEMMA StepRefines ==
  ASSUME IInv, IInv', [Next]_vars
  PROVE  [OneQueue!DNext]_OneQueue!dvars
  <1>0. TypeOK
    BY DEF IInv
  <1> USE DEF pushVars, readVars, askVars
  <1>1. ASSUME UNCHANGED <<queue, pushing, out, log, ended>>
        PROVE  [OneQueue!DNext]_OneQueue!dvars
    BY <1>1, QuietKeeps
  <1>2. ASSUME NEW p \in Pushers, NEW q \in Queues, NEW o \in Owners, NEW c \in BOOLEAN,
               Stamping(p, q, o, c)
        PROVE  [OneQueue!DNext]_OneQueue!dvars
    BY <1>2, StampEnqueues DEF OneQueue!DNext
  <1>3. ASSUME NEW p \in Pushers, Push(p) PROVE [OneQueue!DNext]_OneQueue!dvars
    BY <1>3, PushKeeps
  <1>4. CASE WriteState
    BY <1>1, <1>4 DEF WriteState
  <1>5. CASE Pushing
    BY <1>0, <1>2, <1>3, <1>4, <1>5, StampingSteps
  <1>6. CASE ProcessMsgs \/ PumpForAsk
    BY <1>1, <1>6 DEF ProcessMsgs, PumpForAsk
  <1>7. CASE TakeCut
    BY <1>1, <1>7 DEF TakeCut
  <1>8. CASE TakeBelow
    BY <1>8, TakeKeeps
  <1>9. CASE Deliver
    BY <1>9, DeliverHandsOut DEF OneQueue!DNext
  <1>10. CASE Ask
    BY <1>1, <1>10 DEF Ask
  <1>11. CASE StopAsking
    BY <1>1, <1>11 DEF StopAsking
  <1>12. ASSUME NEW q \in Queues, TakeByNumber(q) PROVE [OneQueue!DNext]_OneQueue!dvars
    BY <1>12, TakeByNumberKeeps
  <1>13. CASE UNCHANGED vars
    BY <1>1, <1>13 DEF vars
  <1> QED
    BY <1>5, <1>6, <1>7, <1>8, <1>9, <1>10, <1>11, <1>12, <1>13 DEF Next, Reading, Asking

LEMMA InitRefines ==
  ASSUME Init
  PROVE  OneQueue!DInit
  <1>1. IInv
    BY InitIInv
  <1>2. \A r \in Outstanding : FALSE
    <2>1. /\ \A q \in Queues : \A i \in 1 .. Len(queue[q]) : FALSE
          /\ \A p \in Pushers : ~Halfway(p)
          /\ out = {}
      <3>1. Len(<<>>) = 0
        OBVIOUS
      <3> QED
        BY <3>1 DEF Init, Halfway
    <2> QED
      BY <1>1, <2>1, OutstandingIs DEF IInv
  <1>3. ended = FALSE /\ log = <<>>
    BY DEF Init
  <1>4. Owed = <<>>
    <2>1. EntriesOf(Outstanding) = {} /\ Owed = InStampOrder(EntriesOf(Outstanding))
      BY <1>2, <1>3 DEF EntriesOf, Programs, Owed
    <2>2. {} \in SUBSET Rec /\ Stamped({}) /\ EntriesOf({}) = {}
      BY DEF Stamped, EntriesOf, Programs
    <2>3. InStampOrder({}) \in Seq({})
      BY <2>2, EntriesAre DEF Orders
    <2>4. \A s \in Seq({}) : s = <<>>
      OBVIOUS
    <2> QED
      BY <2>1, <2>3, <2>4
  <1>5. ProgramsOf(log) = <<>>
    <2>1. <<>> \in Seq(Rec) /\ Len(<<>>) = 0
      OBVIOUS
    <2>2. Mine(<<>>) = {}
      BY <2>1 DEF Mine
    <2>3. Thins(Only(<<>>, {}), <<>>, {})
      BY <2>1, OnlyThins
    <2>4. /\ Only(<<>>, {}) \in Seq(Rec)
          /\ \A k \in 1 .. Len(Only(<<>>, {})) : FALSE
      BY <2>3 DEF Thins
    <2>5. /\ Len(ProgramsOf(<<>>)) = Len(Only(<<>>, {}))
          /\ ProgramsOf(<<>>) \in Seq(Entries)
      BY <2>1, <2>2, ProgramsAre
    <2>6. Len(ProgramsOf(<<>>)) = 0
      BY <2>4, <2>5
    <2> DEFINE x == ProgramsOf(<<>>)
    <2>7. x \in Seq(Entries) /\ Len(x) = 0
      BY <2>5, <2>6
    <2> HIDE DEF x
    <2>8. x = <<>>
      BY <2>7
    <2> QED
      BY <1>3, <2>8 DEF x
  <1> QED
    BY <1>3, <1>4, <1>5 DEF OneQueue!DInit

(* The queues by kind, the stamps taken inside their locks, the cut, the   *)
(* turn and the questions implement one queue: what is the program's goes  *)
(* in at the tail in the order of the stamps and comes out at the head,    *)
(* none passed over, none twice, none to a question, nothing after the     *)
(* close.                                                                  *)
THEOREM OneQueueIsRead == Spec => ReadsAsOneQueue
  <1>1. Init => OneQueue!DInit
    BY InitRefines
  <1>2. IInv /\ IInv' /\ [Next]_vars => [OneQueue!DNext]_OneQueue!dvars
    BY StepRefines
  <1> QED
    BY <1>1, <1>2, Inductive, PTL DEF Spec, ReadsAsOneQueue, OneQueue!DSpec

=============================================================================
