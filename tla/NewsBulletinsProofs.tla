------------------------- MODULE NewsBulletinsProofs -------------------------
(***************************************************************************)
(* Proofs about NewsBulletins, for every bound on the cache, the stamps    *)
(* and the calls, on whichever threads the program makes them.             *)
(***************************************************************************)
EXTENDS NewsBulletins, InOrderProofs

USE LimitAssumption, MaxStampsAssumption, MaxAsksAssumption

Stamps == 0 .. MaxStamps - 1

(* Where the subscription starts. *)
Start == IF all THEN 0 ELSE from

(* The cache holds the last stamps taken, one after the other. *)
CacheIsRecent ==
  /\ Len(cache) <= next
  /\ \A i \in 1 .. Len(cache) : cache[i] = next - Len(cache) + i - 1

(* A read is past its cut, and owes bulletins. *)
Owes == rpc \in {"mark", "clone", "store"}

(* A read that began before the mark was armed and will store its cut over *)
(* it.                                                                     *)
UnderACrossing == Owes /\ crossed # NoMark /\ ~fresh

(* Until the mark is first armed nothing is owed and nothing handed over. *)
UnarmedIsSilent ==
  /\ mark = NoMark =>
       ~on /\ ~bulletins /\ Len(got) = 0 /\ complete = 0 /\ cpc # "subscribe"
  /\ Owes => bulletins
  /\ rpc = "cut" /\ bulletins => fresh \/ crossed = NoMark

(* The stamps are in their order: start, mark, cut, next.  A read that     *)
(* undoes the arming is under way with nothing yet handed over.            *)
MarksAreOrdered ==
  /\ from <= next
  /\ complete <= mark
  /\ mark # NoMark => mark <= next
  /\ Owes => cut <= next
  /\ Owes /\ ~UnderACrossing => mark <= cut
  /\ rpc \in {"clone", "store"} /\ ~UnderACrossing => rmark = mark
  /\ UnderACrossing => cut = crossed /\ Len(got) = 0 /\ complete = 0
  /\ UnderACrossing /\ cpc # "arm" => mark = Start
  /\ crossed # NoMark /\ ~UnderACrossing => crossed <= mark
  /\ crossed = NoMark /\ cpc # "arm" => Start <= mark

(* What the read has cloned: the cache from the mark up to the cut. *)
OutIsOwed ==
  rpc = "store" =>
    /\ \A i \in 1 .. Len(out) : out[i] >= rmark /\ out[i] < cut
    /\ \A i, j \in 1 .. Len(out) : i < j => out[i] < out[j]
    /\ \A c \in 1 .. Len(cache) : Owed(cache[c]) => \E i \in 1 .. Len(out) : out[i] = cache[c]

(* What the subscription has been handed: the cache from its start up to   *)
(* the mark, in order, but for what a read under way took from it.         *)
GotIsServed ==
  /\ \A i, j \in 1 .. Len(got) : i < j => got[i] < got[j]
  /\ \A i \in 1 .. Len(got) : got[i] < mark
  /\ cpc # "arm" /\ crossed = NoMark => \A i \in 1 .. Len(got) : got[i] >= Start
  /\ cpc # "arm" => \A c \in 1 .. Len(cache) :
       /\ cache[c] >= Start /\ ~LostToTheRead(cache[c])
       /\ mark # NoMark /\ cache[c] < mark
       => \E i \in 1 .. Len(got) : got[i] = cache[c]

Inv1 == TypeOK /\ CacheIsRecent
IInv == Inv1 /\ UnarmedIsSilent /\ MarksAreOrdered /\ OutIsOwed /\ GotIsServed

-----------------------------------------------------------------------------
(* The cache, one more bulletin in. *)
LEMMA KeptIsRecent ==
  ASSUME Inv1
  PROVE  /\ Kept \in Seq(Stamps) /\ Len(Kept) < Limit /\ Len(Kept) <= next
         /\ \A i \in 1 .. Len(Kept) : Kept[i] = next - Len(Kept) + i - 1
         /\ \A i \in 1 .. Len(Kept) : \E c \in 1 .. Len(cache) : cache[c] = Kept[i]
  <1>0. /\ cache \in Seq(Stamps) /\ Len(cache) <= Limit /\ Len(cache) \in Nat /\ next \in Nat
        /\ Len(cache) <= next
        /\ \A i \in 1 .. Len(cache) : cache[i] = next - Len(cache) + i - 1
    BY DEF Inv1, TypeOK, CacheIsRecent, Stamps
  <1>1. CASE Len(cache) >= Limit
    <2>1. Kept = Tail(cache) /\ Len(cache) # 0 /\ cache # <<>>
      BY <1>0, <1>1 DEF Kept
    <2>2. /\ Tail(cache) \in Seq(Stamps) /\ Len(Tail(cache)) = Len(cache) - 1
          /\ \A i \in 1 .. Len(Tail(cache)) : Tail(cache)[i] = cache[i + 1]
      BY <1>0, <2>1
    <2>3. /\ Kept \in Seq(Stamps) /\ Len(Kept) = Len(cache) - 1
          /\ \A i \in 1 .. Len(Kept) : Kept[i] = cache[i + 1] /\ i + 1 \in 1 .. Len(cache)
      BY <1>0, <2>1, <2>2
    <2>4. Len(Kept) < Limit /\ Len(Kept) <= next
      BY <1>0, <2>3
    <2>5. \A i \in 1 .. Len(Kept) : Kept[i] = next - Len(Kept) + i - 1
      BY <1>0, <2>3
    <2>6. \A i \in 1 .. Len(Kept) : \E c \in 1 .. Len(cache) : cache[c] = Kept[i]
      BY <2>3
    <2> QED
      BY <2>3, <2>4, <2>5, <2>6
  <1>2. CASE ~(Len(cache) >= Limit)
    <2>1. Kept = cache
      BY <1>2 DEF Kept
    <2> QED
      BY <1>0, <1>2, <2>1
  <1> QED
    BY <1>1, <1>2

(* A push keeps what it keeps and adds the new stamp at the end. *)
LEMMA PushAppends ==
  ASSUME Inv1, PushNewsBulletin
  PROVE  /\ cache' \in Seq(Stamps) /\ Len(cache') <= Limit /\ Len(cache') <= next'
         /\ next' = next + 1 /\ next' \in 0 .. MaxStamps
         /\ \A i \in 1 .. Len(cache') : cache'[i] = next' - Len(cache') + i - 1
         /\ \A i \in 1 .. Len(cache') :
              cache'[i] = next \/ \E c \in 1 .. Len(cache) : cache[c] = cache'[i]
  <1>0. next \in Nat /\ next < MaxStamps /\ next \in Stamps /\ next' = next + 1 /\ Limit \in Nat
    BY DEF Inv1, TypeOK, PushNewsBulletin, Stamps
  <1> DEFINE k == Kept
  <1>1. /\ k \in Seq(Stamps) /\ Len(k) < Limit /\ Len(k) <= next
        /\ \A i \in 1 .. Len(k) : k[i] = next - Len(k) + i - 1
        /\ \A i \in 1 .. Len(k) : \E c \in 1 .. Len(cache) : cache[c] = k[i]
    BY KeptIsRecent
  <1>2. cache' = Append(k, next)
    BY DEF PushNewsBulletin
  <1> HIDE DEF k
  <1>3. /\ cache' \in Seq(Stamps) /\ Len(cache') = Len(k) + 1 /\ Len(k) \in Nat
        /\ \A i \in 1 .. Len(k) : cache'[i] = k[i]
        /\ cache'[Len(k) + 1] = next
    BY <1>0, <1>1, <1>2
  <1>4. ASSUME NEW i \in 1 .. Len(cache')
        PROVE  /\ cache'[i] = next' - Len(cache') + i - 1
               /\ cache'[i] = next \/ \E c \in 1 .. Len(cache) : cache[c] = cache'[i]
    <2>1. CASE i \in 1 .. Len(k)
      BY <1>0, <1>1, <1>3, <2>1
    <2>2. CASE i = Len(k) + 1
      BY <1>0, <1>3, <2>2
    <2> QED
      BY <1>3, <2>1, <2>2
  <1> QED
    BY <1>0, <1>1, <1>3, <1>4

(* The types and the shape of the cache need nothing of the threads. *)
LEMMA Inv1Step ==
  ASSUME Inv1, [Next]_vars
  PROVE  Inv1'
  <1> USE DEF Inv1, callVars, readVars, servedVars, NoMark
  <1>1. CASE PushNewsBulletin
    <2>1. CacheIsRecent'
      BY <1>1, PushAppends DEF CacheIsRecent
    <2>2. TypeOK'
      BY <1>1, PushAppends DEF TypeOK, PushNewsBulletin, Stamps
    <2> QED
      BY <2>1, <2>2
  <1>2. ASSUME NEW all_msgs \in BOOLEAN, ReqNewsBulletins(all_msgs) PROVE Inv1'
    BY <1>2 DEF ReqNewsBulletins, TypeOK, CacheIsRecent
  <1>3. CASE ArmNewsBulletins
    <2>1. got' \in Seq(0 .. MaxStamps - 1) /\ complete' \in 0 .. MaxStamps
      BY <1>3 DEF ArmNewsBulletins
    <2>2. mark' \in 0 .. NoMark /\ crossed' \in 0 .. NoMark
      BY <1>3 DEF ArmNewsBulletins, ArmedMark, TypeOK
    <2>3. fresh' \in BOOLEAN /\ cpc' \in {"idle", "arm", "subscribe"}
      BY <1>3 DEF ArmNewsBulletins
    <2>4. UNCHANGED <<next, cache, on, all, from, asks, rpc, bulletins, cut, rmark, out>>
      BY <1>3 DEF ArmNewsBulletins
    <2> QED
      BY <2>1, <2>2, <2>3, <2>4 DEF TypeOK, CacheIsRecent
  <1>4. CASE SubscribeBulletins
    BY <1>4 DEF SubscribeBulletins, TypeOK, CacheIsRecent
  <1>5. CASE CancelNewsBulletins
    BY <1>5 DEF CancelNewsBulletins, TypeOK, CacheIsRecent
  <1>6. CASE BeginRead
    BY <1>6 DEF BeginRead, TypeOK, CacheIsRecent
  <1>7. CASE TakeCut
    BY <1>7 DEF TakeCut, TypeOK, CacheIsRecent
  <1>8. CASE LoadMark
    BY <1>8 DEF LoadMark, TypeOK, CacheIsRecent
  <1>9. CASE CloneOwed
    <2>1. out' \in Seq(Stamps)
      BY <1>9, OnlyPicks DEF CloneOwed, TypeOK, Stamps
    <2> QED
      BY <1>9, <2>1 DEF CloneOwed, TypeOK, CacheIsRecent, Stamps
  <1>10. CASE StoreMark
    BY <1>10 DEF StoreMark, MarkAfterRead, TypeOK, CacheIsRecent
  <1>11. CASE UNCHANGED vars
    BY <1>11 DEF vars, TypeOK, CacheIsRecent
  <1> QED
    BY <1>1, <1>2, <1>3, <1>4, <1>5, <1>6, <1>7, <1>8, <1>9, <1>10, <1>11 DEF Next

LEMMA Inv1Init ==
  ASSUME Init
  PROVE  Inv1
  <1>1. cache \in Seq(0 .. MaxStamps - 1) /\ Len(cache) = 0
        /\ out \in Seq(0 .. MaxStamps - 1) /\ got \in Seq(0 .. MaxStamps - 1)
    BY DEF Init
  <1>2. /\ next = 0 /\ mark \in 0 .. NoMark /\ from \in 0 .. MaxStamps /\ asks \in 0 .. MaxAsks
        /\ cut \in 0 .. MaxStamps /\ rmark \in 0 .. NoMark /\ complete \in 0 .. MaxStamps
        /\ crossed \in 0 .. NoMark
    BY DEF Init, NoMark
  <1>3. /\ on \in BOOLEAN /\ all \in BOOLEAN /\ bulletins \in BOOLEAN /\ fresh \in BOOLEAN
        /\ cpc \in {"idle", "arm", "subscribe"}
        /\ rpc \in {"idle", "cut", "mark", "clone", "store"}
    BY DEF Init
  <1> QED
    BY <1>1, <1>2, <1>3 DEF Inv1, TypeOK, CacheIsRecent

(* Every variable has its type, however the program's threads call. *)
THEOREM TypeCorrect == Spec => []TypeOK
  <1>1. Inv1 => TypeOK
    BY DEF Inv1
  <1> QED
    BY <1>1, Inv1Init, Inv1Step, PTL DEF Spec
-----------------------------------------------------------------------------
(* A session that never subscribed is silent. *)
LEMMA SilentStep ==
  ASSUME TypeOK, UnarmedIsSilent, MarksAreOrdered, [Next]_vars
  PROVE  UnarmedIsSilent'
  <1>0. /\ cut \in Nat /\ cut <= MaxStamps /\ MaxStamps \in Nat /\ from \in Nat /\ from <= MaxStamps
        /\ on \in BOOLEAN /\ all \in BOOLEAN /\ bulletins \in BOOLEAN /\ fresh \in BOOLEAN
    BY DEF TypeOK
  <1> USE <1>0 DEF UnarmedIsSilent, Owes, callVars, readVars, servedVars
  <1>1. CASE PushNewsBulletin
    BY <1>1 DEF PushNewsBulletin
  <1>2. ASSUME NEW all_msgs \in BOOLEAN, ReqNewsBulletins(all_msgs) PROVE UnarmedIsSilent'
    BY <1>2 DEF ReqNewsBulletins
  <1>3. CASE ArmNewsBulletins
    BY <1>3 DEF ArmNewsBulletins, ArmedMark, NoMark, Crossing
  <1>4. CASE SubscribeBulletins
    BY <1>4 DEF SubscribeBulletins
  <1>5. CASE CancelNewsBulletins
    BY <1>5 DEF CancelNewsBulletins
  <1>6. CASE BeginRead
    BY <1>6 DEF BeginRead
  <1>7. CASE TakeCut
    BY <1>7 DEF TakeCut
  <1>8. CASE LoadMark
    BY <1>8 DEF LoadMark
  <1>9. CASE CloneOwed
    BY <1>9 DEF CloneOwed
  <1>10. CASE StoreMark
    BY <1>10 DEF StoreMark, MarkAfterRead, NoMark
  <1>11. CASE UNCHANGED vars
    BY <1>11 DEF vars
  <1> QED
    BY <1>1, <1>2, <1>3, <1>4, <1>5, <1>6, <1>7, <1>8, <1>9, <1>10, <1>11 DEF Next

(* The stamps stay in their order, however calls and reads cross. *)
LEMMA MarksStep ==
  ASSUME TypeOK, UnarmedIsSilent, MarksAreOrdered, [Next]_vars
  PROVE  MarksAreOrdered'
  <1>0. /\ next \in Nat /\ mark \in Nat /\ from \in Nat /\ complete \in Nat
        /\ cut \in Nat /\ rmark \in Nat /\ crossed \in Nat /\ MaxStamps \in Nat
        /\ next <= MaxStamps /\ cut <= MaxStamps /\ NoMark = MaxStamps + 1
        /\ on \in BOOLEAN /\ all \in BOOLEAN /\ bulletins \in BOOLEAN /\ fresh \in BOOLEAN
        /\ cpc \in {"idle", "arm", "subscribe"}
        /\ rpc \in {"idle", "cut", "mark", "clone", "store"}
    BY DEF TypeOK, NoMark
  <1> USE <1>0 DEF MarksAreOrdered, Start, Owes, UnderACrossing, callVars, readVars, servedVars
  <1>1. CASE PushNewsBulletin
    BY <1>1 DEF PushNewsBulletin
  <1>2. ASSUME NEW all_msgs \in BOOLEAN, ReqNewsBulletins(all_msgs) PROVE MarksAreOrdered'
    BY <1>2 DEF ReqNewsBulletins
  <1>3. CASE ArmNewsBulletins
    <2>1. /\ mark' = Start /\ Len(got') = 0 /\ complete' = 0 /\ fresh' = FALSE
          /\ UNCHANGED <<next, from, all, rpc, cut, rmark>>
          /\ crossed' = IF Crossing THEN cut ELSE NoMark
          /\ Start \in Nat /\ Start <= next
      BY <1>3 DEF ArmNewsBulletins, ArmedMark
    <2>2. CASE Crossing
      BY <2>1, <2>2 DEF Crossing
    <2>3. CASE ~Crossing
      BY <2>1, <2>3 DEF Crossing, ArmedMark
    <2> QED
      BY <2>2, <2>3
  <1>4. CASE SubscribeBulletins
    BY <1>4 DEF SubscribeBulletins
  <1>5. CASE CancelNewsBulletins
    BY <1>5 DEF CancelNewsBulletins
  <1>6. CASE BeginRead
    BY <1>6 DEF BeginRead
  <1>7. CASE TakeCut
    <2>1. CASE bulletins
      BY <1>7, <2>1 DEF TakeCut, UnarmedIsSilent
    <2>2. CASE ~bulletins
      BY <1>7, <2>2 DEF TakeCut
    <2> QED
      BY <2>1, <2>2
  <1>8. CASE LoadMark
    BY <1>8 DEF LoadMark
  <1>9. CASE CloneOwed
    BY <1>9 DEF CloneOwed
  <1>10. CASE StoreMark
    <2>1. /\ mark' = cut /\ rpc' = "idle" /\ rpc = "store" /\ complete' \in {cut, complete}
          /\ UNCHANGED <<next, cut, rmark, fresh, crossed, from, all, cpc>>
      BY <1>10 DEF StoreMark, MarkAfterRead
    <2> QED
      BY <2>1
  <1>11. CASE UNCHANGED vars
    BY <1>11 DEF vars
  <1> QED
    BY <1>1, <1>2, <1>3, <1>4, <1>5, <1>6, <1>7, <1>8, <1>9, <1>10, <1>11 DEF Next

-----------------------------------------------------------------------------
(* What is cloned is what is owed, in its order. *)
LEMMA CloneIsOwed ==
  ASSUME TypeOK, CacheIsRecent, CloneOwed
  PROVE  OutIsOwed'
  <1> DEFINE I == {i \in 1 .. Len(cache) : Owed(cache[i])}
             c == Cardinality(I)
             a == Ascending(I)
             o == Only(cache, I)
  <1>0. cache \in Seq(Stamps) /\ DOMAIN cache = 1 .. Len(cache) /\ I \in SUBSET (1 .. Len(cache))
    BY DEF TypeOK, Stamps
  <1>1. /\ c \in Nat /\ Len(o) = c /\ a \in [1 .. c -> I]
        /\ \A k \in 1 .. c : o[k] = cache[a[k]]
        /\ \A j, k \in 1 .. c : j < k => a[j] < a[k]
        /\ \A i \in I : \E k \in 1 .. c : o[k] = cache[i]
    BY <1>0, OnlyPicks, ZenonT(60)
  <1>2. out' = o /\ UNCHANGED <<cache, rmark, cut>>
    BY <1>0 DEF CloneOwed
  <1> HIDE DEF c, a, o
  <1>3. \A k \in 1 .. c : Owed(o[k]) /\ a[k] \in 1 .. Len(cache)
    <2> SUFFICES ASSUME NEW k \in 1 .. c PROVE Owed(o[k]) /\ a[k] \in 1 .. Len(cache)
      OBVIOUS
    <2>1. a[k] \in I /\ o[k] = cache[a[k]]
      BY <1>1
    <2> QED
      BY <2>1
  <1>4. \A j, k \in 1 .. c : j < k => o[j] < o[k]
    <2> SUFFICES ASSUME NEW j \in 1 .. c, NEW k \in 1 .. c, j < k PROVE o[j] < o[k]
      OBVIOUS
    <2>1. /\ a[j] \in 1 .. Len(cache) /\ a[k] \in 1 .. Len(cache) /\ a[j] < a[k]
          /\ o[j] = cache[a[j]] /\ o[k] = cache[a[k]]
      BY <1>1, <1>3
    <2>2. next \in Nat /\ Len(cache) \in Nat
      BY <1>0 DEF TypeOK
    <2>3. \A x \in 1 .. Len(cache) : cache[x] = next - Len(cache) + x - 1
      BY DEF CacheIsRecent
    <2> QED
      BY <2>1, <2>2, <2>3
  <1>5. \A i \in 1 .. Len(cache) : Owed(cache[i]) => \E k \in 1 .. c : o[k] = cache[i]
    BY <1>1
  <1>6. /\ \A i \in 1 .. Len(out') : out'[i] >= rmark' /\ out'[i] < cut'
        /\ \A i, j \in 1 .. Len(out') : i < j => out'[i] < out'[j]
    BY <1>1, <1>2, <1>3, <1>4 DEF Owed
  <1>7. \A i \in 1 .. Len(cache') : Owed(cache[i])' => \E k \in 1 .. Len(out') : out'[k] = cache'[i]
    BY <1>1, <1>2, <1>5 DEF Owed
  <1> QED
    BY <1>6, <1>7 DEF OutIsOwed

LEMMA OutStep ==
  ASSUME Inv1, MarksAreOrdered, OutIsOwed, [Next]_vars
  PROVE  OutIsOwed'
  <1>0. TypeOK /\ CacheIsRecent
    BY DEF Inv1
  <1> USE DEF callVars, readVars, servedVars
  <1>1. CASE PushNewsBulletin
    <2> SUFFICES ASSUME rpc = "store" PROVE OutIsOwed'
      BY <1>1 DEF OutIsOwed, PushNewsBulletin
    <2>1. UNCHANGED <<out, rmark, cut>> /\ cut <= next /\ next \in Nat /\ cut \in Nat
      BY <1>0, <1>1 DEF PushNewsBulletin, MarksAreOrdered, Owes, TypeOK
    <2>2. \A i \in 1 .. Len(cache') :
            cache'[i] = next \/ \E c \in 1 .. Len(cache) : cache[c] = cache'[i]
      BY <1>1, PushAppends
    <2>3. ASSUME NEW i \in 1 .. Len(cache'), Owed(cache[i])'
          PROVE  \E k \in 1 .. Len(out') : out'[k] = cache'[i]
      <3>1. cache'[i] # next /\ cache'[i] >= rmark /\ cache'[i] < cut
        BY <2>1, <2>3 DEF Owed
      <3>2. PICK c \in 1 .. Len(cache) : cache[c] = cache'[i]
        BY <2>2, <3>1
      <3> QED
        BY <2>1, <3>1, <3>2 DEF OutIsOwed, Owed
    <2>4. /\ \A i \in 1 .. Len(out') : out'[i] >= rmark' /\ out'[i] < cut'
          /\ \A i, j \in 1 .. Len(out') : i < j => out'[i] < out'[j]
      BY <2>1 DEF OutIsOwed
    <2> QED
      BY <2>3, <2>4 DEF OutIsOwed
  <1>2. ASSUME NEW all_msgs \in BOOLEAN, ReqNewsBulletins(all_msgs) PROVE OutIsOwed'
    BY <1>2 DEF ReqNewsBulletins, OutIsOwed, Owed
  <1>3. CASE ArmNewsBulletins
    BY <1>3 DEF ArmNewsBulletins, OutIsOwed, Owed
  <1>4. CASE SubscribeBulletins
    BY <1>4 DEF SubscribeBulletins, OutIsOwed, Owed
  <1>5. CASE CancelNewsBulletins
    BY <1>5 DEF CancelNewsBulletins, OutIsOwed, Owed
  <1>6. CASE BeginRead
    BY <1>6 DEF BeginRead, OutIsOwed
  <1>7. CASE TakeCut
    BY <1>7 DEF TakeCut, OutIsOwed
  <1>8. CASE LoadMark
    BY <1>8 DEF LoadMark, OutIsOwed
  <1>9. CASE CloneOwed
    BY <1>0, <1>9, CloneIsOwed
  <1>10. CASE StoreMark
    BY <1>10 DEF StoreMark, OutIsOwed
  <1>11. CASE UNCHANGED vars
    BY <1>11 DEF vars, OutIsOwed, Owed
  <1> QED
    BY <1>1, <1>2, <1>3, <1>4, <1>5, <1>6, <1>7, <1>8, <1>9, <1>10, <1>11 DEF Next

-----------------------------------------------------------------------------
(* What a read hands over joins what was handed over before. *)
LEMMA StoreServes ==
  ASSUME IInv, StoreMark
  PROVE  GotIsServed'
  <1> DEFINE n == Len(got)
             m == Len(out)
  <1>0. /\ got \in Seq(Stamps) /\ out \in Seq(Stamps) /\ n \in Nat /\ m \in Nat
        /\ mark \in Nat /\ cut \in Nat /\ rmark \in Nat /\ Start \in Nat /\ crossed \in Nat
        /\ cache \in Seq(Stamps) /\ cut <= MaxStamps /\ NoMark = MaxStamps + 1
        /\ MaxStamps \in Nat
    BY DEF IInv, Inv1, TypeOK, Stamps, NoMark, Start
  <1>1. rpc = "store" /\ Owes
    BY DEF StoreMark, Owes
  <1>2. /\ UNCHANGED <<cache, cpc, crossed, Start>> /\ mark' = cut /\ got' = got \o out
    BY <1>1 DEF StoreMark, MarkAfterRead, callVars, Start
  <1>3. /\ ~UnderACrossing => rmark = mark /\ mark <= cut
        /\ UnderACrossing => n = 0 /\ cut = crossed /\ crossed # NoMark
        /\ cpc # "arm" /\ crossed = NoMark => Start <= mark
    BY <1>1 DEF IInv, MarksAreOrdered, UnderACrossing
  <1>4. /\ Len(got') = n + m
        /\ \A i \in 1 .. n : got'[i] = got[i]
        /\ \A i \in 1 .. m : got'[n + i] = out[i]
        /\ \A i \in n + 1 .. n + m : got'[i] = out[i - n] /\ i - n \in 1 .. m
    BY <1>0, <1>2
  <1>5. /\ \A i \in 1 .. n : got[i] \in Nat /\ got[i] < mark
        /\ cpc # "arm" /\ crossed = NoMark => \A i \in 1 .. n : got[i] >= Start
        /\ \A i, j \in 1 .. n : i < j => got[i] < got[j]
        /\ \A i \in 1 .. m : out[i] \in Nat /\ out[i] >= rmark /\ out[i] < cut
        /\ \A i, j \in 1 .. m : i < j => out[i] < out[j]
    <2>1. /\ \A i \in 1 .. n : got[i] \in Stamps
          /\ \A i \in 1 .. m : out[i] \in Stamps
      BY <1>0
    <2>2. /\ \A i \in 1 .. n : got[i] < mark
          /\ cpc # "arm" /\ crossed = NoMark => \A i \in 1 .. n : got[i] >= Start
          /\ \A i, j \in 1 .. n : i < j => got[i] < got[j]
      BY DEF IInv, GotIsServed
    <2>3. /\ \A i \in 1 .. m : out[i] >= rmark /\ out[i] < cut
          /\ \A i, j \in 1 .. m : i < j => out[i] < out[j]
      BY <1>1 DEF IInv, OutIsOwed
    <2> QED
      BY <2>1, <2>2, <2>3 DEF Stamps
  <1> HIDE DEF n, m
  <1>6. ASSUME NEW i \in 1 .. Len(got')
        PROVE  /\ got'[i] < cut /\ got'[i] \in Nat
               /\ cpc # "arm" /\ crossed = NoMark => got'[i] >= Start
    <2>1. CASE i \in 1 .. n
      <3>1. ~UnderACrossing
        BY <1>0, <1>3, <2>1
      <3>2. got'[i] = got[i] /\ got[i] \in Nat /\ got[i] < mark
        BY <1>4, <1>5, <2>1
      <3>3. cpc # "arm" /\ crossed = NoMark => got[i] >= Start
        BY <1>5, <2>1
      <3> QED
        BY <1>0, <1>3, <3>1, <3>2, <3>3
    <2>2. CASE i \in n + 1 .. n + m
      <3>1. got'[i] = out[i - n] /\ i - n \in 1 .. m
        BY <1>4, <2>2
      <3>2. out[i - n] \in Nat /\ out[i - n] >= rmark /\ out[i - n] < cut
        BY <1>5, <3>1
      <3>3. crossed = NoMark => ~UnderACrossing
        BY DEF UnderACrossing
      <3> QED
        BY <1>0, <1>3, <3>1, <3>2, <3>3
    <2> QED
      BY <1>0, <1>4, <2>1, <2>2
  <1>7. ASSUME NEW i \in 1 .. Len(got'), NEW j \in 1 .. Len(got'), i < j
        PROVE  got'[i] < got'[j]
    <2>1. CASE i \in 1 .. n /\ j \in 1 .. n
      BY <1>4, <1>5, <1>7, <2>1
    <2>2. CASE i \in 1 .. n /\ j \in n + 1 .. n + m
      <3>1. got'[i] = got[i] /\ got[i] < mark /\ got[i] \in Nat
        BY <1>4, <1>5, <2>2
      <3>2. got'[j] = out[j - n] /\ j - n \in 1 .. m
        BY <1>4, <2>2
      <3>3. out[j - n] >= rmark /\ out[j - n] \in Nat
        BY <1>5, <3>2
      <3>4. ~UnderACrossing
        BY <1>0, <1>3, <2>2
      <3> QED
        BY <1>0, <1>3, <3>1, <3>2, <3>3, <3>4
    <2>3. CASE i \in n + 1 .. n + m /\ j \in n + 1 .. n + m
      <3>1. i - n \in 1 .. m /\ j - n \in 1 .. m /\ i - n < j - n
        BY <1>0, <1>4, <1>7, <2>3
      <3> QED
        BY <1>4, <1>5, <2>3, <3>1
    <2> QED
      BY <1>0, <1>4, <1>7, <2>1, <2>2, <2>3
  <1>8. ASSUME NEW c \in 1 .. Len(cache), cpc # "arm", cache[c] >= Start,
               ~LostToTheRead(cache[c]), cache[c] < cut
        PROVE  \E i \in 1 .. Len(got') : got'[i] = cache[c]
    <2>0. cache[c] \in Nat
      BY <1>0 DEF Stamps
    <2>1. ~UnderACrossing
      BY <1>0, <1>3, <1>8, <2>0 DEF LostToTheRead
    <2>2. CASE cache[c] < mark
      <3>1. mark # NoMark
        BY <1>0, <1>3, <2>1
      <3>2. PICK i \in 1 .. n : got[i] = cache[c]
        BY <1>8, <2>2, <3>1 DEF IInv, GotIsServed, n
      <3> QED
        BY <1>0, <1>4, <3>2
    <2>3. CASE ~(cache[c] < mark)
      <3>1. Owed(cache[c])
        BY <1>0, <1>3, <1>8, <2>0, <2>1, <2>3 DEF Owed
      <3>2. PICK i \in 1 .. m : out[i] = cache[c]
        BY <1>1, <3>1 DEF IInv, OutIsOwed, m
      <3>3. n + i \in 1 .. Len(got') /\ got'[n + i] = cache[c]
        BY <1>0, <1>4, <3>2
      <3> QED
        BY <3>3
    <2> QED
      BY <2>2, <2>3
  <1>9. cpc' # "arm" => \A c \in 1 .. Len(cache') :
          cache'[c] >= Start' /\ ~LostToTheRead(cache[c])' /\ mark' # NoMark /\ cache'[c] < mark'
            => \E i \in 1 .. Len(got') : got'[i] = cache'[c]
    BY <1>2, <1>8 DEF LostToTheRead
  <1>10. /\ \A i \in 1 .. Len(got') : got'[i] < mark'
         /\ cpc' # "arm" /\ crossed' = NoMark => \A i \in 1 .. Len(got') : got'[i] >= Start'
    BY <1>2, <1>6
  <1> QED
    BY <1>7, <1>9, <1>10 DEF GotIsServed, NoMark

LEMMA GotStep ==
  ASSUME IInv, [Next]_vars
  PROVE  GotIsServed'
  <1>0. /\ TypeOK /\ UnarmedIsSilent /\ MarksAreOrdered /\ GotIsServed
    BY DEF IInv, Inv1
  <1> USE DEF callVars, readVars, servedVars
  <1>1. CASE PushNewsBulletin
    <2>0. UNCHANGED <<mark, crossed, cpc, got, Start>>
      BY <1>1 DEF PushNewsBulletin, Start
    <2>1. /\ mark # NoMark => mark <= next
          /\ next \in Nat /\ mark \in Nat
      BY <1>0 DEF MarksAreOrdered, TypeOK, NoMark
    <2>2. \A i \in 1 .. Len(cache') :
            cache'[i] = next \/ \E c \in 1 .. Len(cache) : cache[c] = cache'[i]
      BY <1>1, PushAppends DEF IInv
    <2>3. ASSUME cpc # "arm", NEW c \in 1 .. Len(cache'), cache'[c] >= Start,
                 ~LostToTheRead(cache'[c]), mark # NoMark, cache'[c] < mark
          PROVE  \E i \in 1 .. Len(got) : got[i] = cache'[c]
      <3>1. cache'[c] # next
        BY <2>1, <2>3
      <3>2. PICK d \in 1 .. Len(cache) : cache[d] = cache'[c]
        BY <2>2, <3>1
      <3>3. cache[d] >= Start /\ cache[d] < mark /\ ~LostToTheRead(cache[d])
        BY <2>3, <3>2
      <3>4. \E i \in 1 .. Len(got) : got[i] = cache[d]
        BY <1>0, <2>3, <3>3 DEF GotIsServed
      <3> QED
        BY <3>2, <3>4
    <2>4. cpc' # "arm" => \A c \in 1 .. Len(cache') :
            cache'[c] >= Start' /\ ~LostToTheRead(cache[c])' /\ mark' # NoMark /\ cache'[c] < mark'
              => \E i \in 1 .. Len(got') : got'[i] = cache'[c]
      BY <2>0, <2>3 DEF LostToTheRead
    <2>5. /\ \A i, j \in 1 .. Len(got') : i < j => got'[i] < got'[j]
          /\ \A i \in 1 .. Len(got') : got'[i] < mark'
          /\ cpc' # "arm" /\ crossed' = NoMark => \A i \in 1 .. Len(got') : got'[i] >= Start'
      BY <1>0, <2>0 DEF GotIsServed
    <2> QED
      BY <2>4, <2>5 DEF GotIsServed, NoMark
  <1>2. ASSUME NEW all_msgs \in BOOLEAN, ReqNewsBulletins(all_msgs) PROVE GotIsServed'
    BY <1>0, <1>2 DEF ReqNewsBulletins, GotIsServed
  <1>3. CASE ArmNewsBulletins
    <2>1. Len(got') = 0 /\ UNCHANGED <<cache, Start>> /\ mark' = Start
      BY <1>3 DEF ArmNewsBulletins, ArmedMark, Start
    <2>2. Start \in Nat /\ cache \in Seq(Stamps)
      BY <1>0 DEF TypeOK, Start, Stamps
    <2>3. \A c \in 1 .. Len(cache) : cache[c] \in Nat
      BY <2>2 DEF Stamps
    <2>4. \A c \in 1 .. Len(cache') : ~(cache'[c] >= Start' /\ cache'[c] < mark')
      BY <2>1, <2>2, <2>3
    <2>5. 1 .. Len(got') = {}
      BY <2>1
    <2> QED
      BY <2>4, <2>5 DEF GotIsServed
  <1>4. CASE SubscribeBulletins
    BY <1>0, <1>4 DEF SubscribeBulletins, GotIsServed, Start, LostToTheRead, UnarmedIsSilent, NoMark
  <1>5. CASE CancelNewsBulletins
    BY <1>0, <1>5 DEF CancelNewsBulletins, GotIsServed, Start, LostToTheRead, NoMark
  <1>6. CASE BeginRead
    BY <1>0, <1>6 DEF BeginRead, GotIsServed, Start, LostToTheRead, NoMark
  <1>7. CASE TakeCut
    BY <1>0, <1>7 DEF TakeCut, GotIsServed, Start, LostToTheRead, NoMark
  <1>8. CASE LoadMark
    BY <1>0, <1>8 DEF LoadMark, GotIsServed, Start, LostToTheRead, NoMark
  <1>9. CASE CloneOwed
    BY <1>0, <1>9 DEF CloneOwed, GotIsServed, Start, LostToTheRead, NoMark
  <1>10. CASE StoreMark
    BY <1>10, StoreServes
  <1>11. CASE UNCHANGED vars
    BY <1>0, <1>11 DEF vars, GotIsServed, Start, LostToTheRead, NoMark
  <1> QED
    BY <1>1, <1>2, <1>3, <1>4, <1>5, <1>6, <1>7, <1>8, <1>9, <1>10, <1>11 DEF Next

-----------------------------------------------------------------------------
LEMMA IInvInit ==
  ASSUME Init
  PROVE  IInv
  <1>1. Inv1
    BY Inv1Init
  <1>2. OutIsOwed
    BY DEF Init, OutIsOwed
  <1>3. UnarmedIsSilent
    BY DEF Init, UnarmedIsSilent, Owes
  <1>4. MarksAreOrdered
    BY DEF Init, MarksAreOrdered, Owes, UnderACrossing, Start, NoMark
  <1>5. 1 .. Len(got) = {} /\ 1 .. Len(cache) = {}
    BY DEF Init
  <1>6. GotIsServed
    BY <1>5 DEF GotIsServed
  <1> QED
    BY <1>1, <1>2, <1>3, <1>4, <1>6 DEF IInv

(* A subscription's cache, marks, read and deliveries stay in step, on     *)
(* whichever threads it is made and read.                                  *)
THEOREM Inductive == Spec => []IInv
  <1>1. IInv /\ [Next]_vars => IInv'
    <2> SUFFICES ASSUME IInv, [Next]_vars PROVE IInv'
      OBVIOUS
    <2>1. Inv1 /\ TypeOK /\ UnarmedIsSilent /\ MarksAreOrdered /\ OutIsOwed
      BY DEF IInv, Inv1
    <2>2. Inv1'
      BY <2>1, Inv1Step
    <2>3. UnarmedIsSilent' /\ MarksAreOrdered' /\ OutIsOwed' /\ GotIsServed'
      BY <2>1, SilentStep, MarksStep, OutStep, GotStep
    <2> QED
      BY <2>2, <2>3 DEF IInv
  <1>2. Init => IInv
    BY IInvInit
  <1> QED
    BY <1>1, <1>2, PTL DEF Spec

(* Asking for the day's bulletins gets, by the end of the first read begun *)
(* after the mark was armed, all of them that the cache still holds;       *)
(* asking for what follows gets all that followed.  Whatever threads call, *)
(* only what came before the cut of a read that undid the arming is lost.  *)
THEOREM TheDayIsRestated == Spec => []AskingRestatesTheDay
  <1>1. IInv => AskingRestatesTheDay
    <2> SUFFICES ASSUME IInv, NEW c \in DOMAIN cache, cpc = "idle", cache[c] < complete,
                        all \/ cache[c] >= from, ~LostToTheRead(cache[c])
                 PROVE  cache[c] \in ToSet(got)
      BY DEF AskingRestatesTheDay
    <2>1. /\ cache \in Seq(Stamps) /\ c \in 1 .. Len(cache) /\ cache[c] \in Nat
          /\ got \in Seq(Stamps) /\ DOMAIN got = 1 .. Len(got) /\ all \in BOOLEAN
          /\ mark \in Nat /\ complete \in Nat
      BY DEF IInv, Inv1, TypeOK, Stamps, NoMark
    <2>2. cache[c] >= Start
      BY <2>1 DEF Start
    <2>3. cache[c] < mark /\ mark # NoMark
      BY <2>1 DEF IInv, MarksAreOrdered, UnarmedIsSilent
    <2>4. \E i \in 1 .. Len(got) : got[i] = cache[c]
      BY <2>1, <2>2, <2>3 DEF IInv, GotIsServed
    <2> QED
      BY <2>1, <2>4 DEF ToSet
  <1> QED
    BY <1>1, Inductive, PTL

(* A subscription is handed nothing twice or out of order, however its     *)
(* arming falls across a read; and one that asked for what follows nothing *)
(* from before the call, unless a read under way undid its arming.         *)
THEOREM NothingMoreThanAsked == Spec => []NothingButWhatWasAsked
  <1>1. IInv => NothingButWhatWasAsked
    <2> SUFFICES ASSUME IInv PROVE NothingButWhatWasAsked
      OBVIOUS
    <2>1. DOMAIN got = 1 .. Len(got)
      BY DEF IInv, Inv1, TypeOK
    <2>2. NoBulletinTwice
      BY <2>1 DEF IInv, GotIsServed, NoBulletinTwice
    <2>3. OnlyWhatFollows
      BY <2>1 DEF IInv, GotIsServed, OnlyWhatFollows, Start
    <2> QED
      BY <2>2, <2>3 DEF NothingButWhatWasAsked
  <1> QED
    BY <1>1, Inductive, PTL
=============================================================================
