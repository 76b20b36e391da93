--------------------------- MODULE SeqQuoteProofs ---------------------------
(***************************************************************************)
(* SnapshotIsWhole for any number of words, readers and writes.            *)
(*                                                                         *)
(* Numbering the messages of a location from 0, message i of the version   *)
(* counter holds i and message i of a word holds i.  The argument is the   *)
(* two edges the fences make.  The writer's release fence puts version     *)
(* 2k - 1 in the view of every word message k, so a reader that loaded     *)
(* word k and passed its acquire fence can no longer read a version below  *)
(* 2k - 1: the second load bounds the words from above.  The Release       *)
(* fetch_add puts word k in the view of version 2k, so a reader that       *)
(* started from 2k can no longer read a word below k: the first load       *)
(* bounds them from below.                                                 *)
(***************************************************************************)
EXTENDS SeqQuote, TLAPS

(* Where the writer has left each location. *)
MemShape ==
  /\ \A l \in Locs : \A i \in 0 .. Last(l) : Msg(l, i).val = i
  /\ wpc # "idle" => quote >= 1
  /\ wpc = "fence" => done = {}
  /\ Last(Version) = IF wpc = "idle" THEN 2 * quote ELSE 2 * quote - 1
  /\ \A w \in Words :
       Last(w) = IF wpc = "idle" \/ (wpc = "store" /\ w \in done)
                   THEN quote ELSE quote - 1

(* No view runs ahead of memory, and the writer's is never behind it. *)
ViewsBounded ==
  /\ \A l \in Locs : wcur[l] = Last(l)
  /\ \A l, k \in Locs : \A i \in 0 .. Last(l) : Msg(l, i).view[k] <= Last(k)
  /\ \A l \in Locs : wrel[l] <= Last(l)
  /\ wpc = "store" => wrel[Version] = 2 * quote - 1

(* What the release fence and the Release fetch_add publish. *)
MessageViews ==
  /\ \A w \in Words : \A i \in 0 .. Last(w) : Msg(w, i).view[Version] >= 2 * i - 1
  /\ \A w \in Words : \A i \in 0 .. Last(Version) : 2 * Msg(Version, i).view[w] + 1 >= i

(* What a reader part way through a read holds. *)
ReaderInv(r) ==
  /\ \A l \in Locs : rcur[r][l] <= Last(l) /\ racq[r][l] <= Last(l)
  /\ \A w \in Words : out[r].words[w] <= rcur[r][w]
  /\ rpc[r] # "idle" =>
       /\ v1[r] % 2 = 0
       /\ \A w \in Words : 2 * rcur[r][w] + 1 >= v1[r]
       /\ \A w \in got[r] :
            /\ 2 * words[r][w] + 1 >= v1[r]
            /\ words[r][w] >= out[r].words[w]
            /\ words[r][w] <= rcur[r][w]
            /\ racq[r][Version] >= 2 * words[r][w] - 1
  /\ rpc[r] = "check" =>
       /\ got[r] = Words
       /\ \A w \in Words : rcur[r][Version] >= 2 * words[r][w] - 1

IInv ==
  /\ TypeOK
  /\ MemShape
  /\ ViewsBounded
  /\ MessageViews
  /\ \A r \in Readers : ReaderInv(r)
  /\ SnapshotIsWhole

-----------------------------------------------------------------------------
(* Join is the least view above both. *)
LEMMA JoinFacts ==
  ASSUME NEW u \in View, NEW w \in View
  PROVE  /\ Join(u, w) \in View
         /\ \A l \in Locs : Join(u, w)[l] >= u[l] /\ Join(u, w)[l] >= w[l]
         /\ \A l \in Locs : Join(u, w)[l] = u[l] \/ Join(u, w)[l] = w[l]
  BY DEF Join, View

(* A message of a well-typed memory is a message. *)
LEMMA MsgType ==
  ASSUME TypeOK, NEW l \in Locs, NEW i \in 0 .. Last(l)
  PROVE  /\ Last(l) \in Nat
         /\ i \in Nat
         /\ Msg(l, i) \in Message
         /\ Msg(l, i).val \in Nat
         /\ Msg(l, i).view \in View
  <1>1. mem[l] \in Seq(Message) /\ Len(mem[l]) \in Nat
    BY DEF TypeOK
  <1>2. Last(l) \in Nat /\ i \in Nat /\ i + 1 \in 1 .. Len(mem[l])
    BY <1>1 DEF TypeOK, Last
  <1>3. mem[l][i + 1] \in Message
    BY <1>1, <1>2
  <1> QED
    BY <1>2, <1>3 DEF Msg, Message

(* Every location has a last message. *)
LEMMA LastType ==
  ASSUME TypeOK, NEW l \in Locs
  PROVE  Last(l) \in Nat /\ Len(mem[l]) = Last(l) + 1 /\ Len(mem[l]) \in Nat
  <1>1. mem[l] \in Seq(Message) /\ Len(mem[l]) > 0
    BY DEF TypeOK
  <1> QED
    BY <1>1 DEF Last

(* The initial state satisfies the inductive invariant. *)
LEMMA InitIInv == Init => IInv
  <1> SUFFICES ASSUME Init PROVE IInv
    OBVIOUS
  <1> USE DEF Init
  <1>1. ZeroView \in View /\ NoWords \in [Words -> Nat]
    BY DEF ZeroView, View, NoWords
  <1>2. \A l \in Locs : mem[l] = <<[val |-> 0, view |-> ZeroView]>> /\ Len(mem[l]) = 1
    OBVIOUS
  <1>3. \A l \in Locs : Last(l) = 0 /\ \A i \in 0 .. Last(l) : i = 0 /\ Msg(l, i) = [val |-> 0, view |-> ZeroView]
    BY <1>2 DEF Last, Msg
  <1>4. TypeOK
    <2>1. [val |-> 0, view |-> ZeroView] \in Message
      BY <1>1 DEF Message
    <2>2. \A l \in Locs : mem[l] \in Seq(Message)
      BY <2>1, <1>2
    <2> QED
      BY <1>1, <1>2, <2>2 DEF TypeOK
  <1>5. MemShape
    BY <1>3 DEF MemShape, Locs
  <1>6. ViewsBounded
    BY <1>3 DEF ViewsBounded, ZeroView
  <1>7. MessageViews
    BY <1>3 DEF MessageViews, ZeroView, Locs
  <1>8. \A r \in Readers : ReaderInv(r)
    BY <1>3 DEF ReaderInv, ZeroView, NoWords, Locs
  <1>9. SnapshotIsWhole
    <2>1. \A r \in Readers : out[r].version = 0 /\ out[r].words = NoWords
      OBVIOUS
    <2>2. \A w \in Words : NoWords[w] = 0
      BY DEF NoWords
    <2>3. ASSUME NEW r \in Readers, NEW w \in Words
          PROVE  2 * out[r].words[w] = out[r].version
      <3>1. out[r].words[w] = 0 /\ out[r].version = 0
        BY <2>1, <2>2
      <3> QED BY <3>1
    <2> HIDE DEF Init
    <2> QED
      BY <2>3 DEF SnapshotIsWhole
  <1> QED
    BY <1>4, <1>5, <1>6, <1>7, <1>8, <1>9 DEF IInv

-----------------------------------------------------------------------------
(* A step that leaves memory and the writer alone leaves the memory's      *)
(* invariants alone.                                                       *)
LEMMA MemoryUnchanged ==
  ASSUME IInv, UNCHANGED <<mem, wvars>>
  PROVE  MemShape' /\ ViewsBounded' /\ MessageViews'
  BY DEF IInv, MemShape, ViewsBounded, MessageViews, wvars, Last, Msg

(* Appending a message to a location moves its last index by one and keeps *)
(* every message before it.                                                *)
LEMMA AppendMessage ==
  ASSUME TypeOK, NEW l \in Locs, NEW m \in Message,
         mem' = [mem EXCEPT ![l] = Append(@, m)]
  PROVE  /\ mem' \in [Locs -> Seq(Message)]
         /\ \A k \in Locs : Len(mem'[k]) > 0
         /\ Last(l)' = Last(l) + 1
         /\ \A k \in Locs \ {l} : Last(k)' = Last(k)
         /\ \A i : i = Last(l) + 1 => Msg(l, i)' = m
         /\ \A k \in Locs : \A i \in 0 .. Last(k) : Msg(k, i)' = Msg(k, i)
  <1>1. mem \in [Locs -> Seq(Message)] /\ \A k \in Locs : Len(mem[k]) > 0
    BY DEF TypeOK
  <1>2. mem'[l] = Append(mem[l], m) /\ \A k \in Locs \ {l} : mem'[k] = mem[k]
    BY <1>1
  <1>3. /\ mem'[l] \in Seq(Message)
        /\ Len(mem'[l]) = Len(mem[l]) + 1
        /\ mem'[l][Len(mem[l]) + 1] = m
        /\ \A j \in 1 .. Len(mem[l]) : mem'[l][j] = mem[l][j]
    BY <1>1, <1>2
  <1>4. \A k \in Locs : Len(mem[k]) \in Nat
    BY <1>1
  <1>5. mem' \in [Locs -> Seq(Message)]
    BY <1>1, <1>2, <1>3
  <1>6. \A k \in Locs : Len(mem'[k]) > 0
    BY <1>1, <1>2, <1>3, <1>4
  <1>7. Last(l)' = Last(l) + 1 /\ \A k \in Locs \ {l} : Last(k)' = Last(k)
    BY <1>2, <1>3, <1>4 DEF Last
  <1>8. mem'[l][(Last(l) + 1) + 1] = m
    BY <1>3, <1>4, <1>7 DEF Last
  <1>9. ASSUME NEW k \in Locs, NEW i \in 0 .. Last(k)
        PROVE  mem'[k][i + 1] = mem[k][i + 1]
    <2>1. i + 1 \in 1 .. Len(mem[k])
      BY <1>4 DEF Last
    <2> QED
      BY <2>1, <1>2, <1>3
  <1> QED
    BY <1>5, <1>6, <1>7, <1>8, <1>9 DEF Msg

(* The fetch_add stores the next version and releases the writer's whole   *)
(* view: everything stored so far.                                         *)
LEMMA FetchAddFacts ==
  ASSUME IInv, FetchAdd
  PROVE  /\ wcur' \in View
         /\ wcur'[Version] = Last(Version) + 1
         /\ \A w \in Words : wcur'[w] = Last(w)
         /\ [val |-> Last(Version) + 1, view |-> wcur'] \in Message
         /\ mem' = [mem EXCEPT ![Version] =
                      Append(@, [val |-> Last(Version) + 1, view |-> wcur'])]
  <1> DEFINE last == Msg(Version, Last(Version))
             join == Join(wcur, last.view)
  <1>1. Version \in Locs /\ Words \subseteq Locs /\ Version \notin Words
    BY VersionAssumption DEF Locs
  <1>2. TypeOK /\ MemShape /\ ViewsBounded
    BY DEF IInv
  <1>3. Last(Version) \in Nat /\ Len(mem[Version]) = Last(Version) + 1
    BY <1>1, <1>2, LastType
  <1>4. Last(Version) \in 0 .. Last(Version)
    BY <1>3
  <1>5. last.val = Last(Version) /\ last.view \in View
    <2>1. last.view \in View
      BY <1>1, <1>2, <1>4, MsgType
    <2>2. last.val = Last(Version)
      BY <1>1, <1>2, <1>4 DEF MemShape
    <2> QED BY <2>1, <2>2
  <1>6. \A k \in Locs : wcur[k] = Last(k) /\ last.view[k] <= Last(k)
    BY <1>1, <1>2, <1>4 DEF ViewsBounded
  <1>7. wcur \in View
    BY <1>2 DEF TypeOK
  <1>8. join \in View /\ \A k \in Locs : join[k] = Last(k)
    <2>1. join \in View
      BY <1>5, <1>7, JoinFacts
    <2>2. ASSUME NEW k \in Locs PROVE join[k] = Last(k)
      <3>1. join[k] >= wcur[k] /\ (join[k] = wcur[k] \/ join[k] = last.view[k])
        BY <1>5, <1>7, JoinFacts
      <3>2. Last(k) \in Nat /\ last.view[k] \in Nat
        BY <1>2, <1>5, LastType DEF View
      <3> QED
        BY <3>1, <3>2, <1>6
    <2> QED BY <2>1, <2>2
  <1>9. wcur' = [join EXCEPT ![Version] = Last(Version) + 1]
    BY <1>3 DEF FetchAdd
  <1>10. wcur' \in View
    BY <1>1, <1>3, <1>8, <1>9 DEF View
  <1>11. wcur'[Version] = Last(Version) + 1 /\ \A w \in Words : wcur'[w] = Last(w)
    BY <1>1, <1>8, <1>9 DEF View
  <1>12. mem' = [mem EXCEPT ![Version] =
                  Append(@, [val |-> Last(Version) + 1, view |-> wcur'])]
    BY <1>5 DEF FetchAdd
  <1>13. [val |-> Last(Version) + 1, view |-> wcur'] \in Message
    BY <1>3, <1>10 DEF Message
  <1> QED
    BY <1>10, <1>11, <1>12, <1>13

(* A reader's invariant survives a step of the writer: memory only grows.  *)
LEMMA ReaderKept ==
  ASSUME IInv, TypeOK', UNCHANGED rvars, \A l \in Locs : Last(l) <= Last(l)'
  PROVE  (\A r \in Readers : ReaderInv(r))' /\ SnapshotIsWhole'
  <1>1. SnapshotIsWhole'
    BY DEF IInv, SnapshotIsWhole, rvars
  <1>2. ASSUME NEW r \in Readers PROVE ReaderInv(r)'
    <2>1. ReaderInv(r)
      BY DEF IInv
    <2>2. ASSUME NEW l \in Locs
          PROVE  rcur[r][l] <= Last(l)' /\ racq[r][l] <= Last(l)'
      <3>1. rcur[r][l] <= Last(l) /\ racq[r][l] <= Last(l) /\ Last(l) <= Last(l)'
        BY <2>1 DEF ReaderInv
      <3>2. TypeOK
        BY DEF IInv
      <3>3. Last(l) \in Nat
        BY <3>2, LastType
      <3>4. Last(l)' \in Int
        BY DEF TypeOK, Last
      <3>5. rcur[r][l] \in Nat /\ racq[r][l] \in Nat
        BY <3>2 DEF TypeOK, View
      <3> QED
        BY <3>1, <3>3, <3>4, <3>5
    <2> QED
      BY <2>1, <2>2 DEF ReaderInv, rvars
  <1> QED
    BY <1>1, <1>2

-----------------------------------------------------------------------------
(* Both fetch_adds, BeginWrite's and EndWrite's: what the version's new    *)
(* message does to the memory's invariants.                                *)
LEMMA FetchAddStep ==
  ASSUME IInv, BeginWrite \/ EndWrite
  PROVE  IInv'
  <1> DEFINE m == [val |-> Last(Version) + 1, view |-> wcur']
  <1>1. Version \in Locs /\ Words \subseteq Locs /\ Version \notin Words
    BY VersionAssumption DEF Locs
  <1>2. TypeOK /\ MemShape /\ ViewsBounded /\ MessageViews
    BY DEF IInv
  <1>3. FetchAdd /\ UNCHANGED <<wrel, rvars>>
    BY DEF BeginWrite, EndWrite
  <1>4. /\ wcur' \in View
        /\ wcur'[Version] = Last(Version) + 1
        /\ \A w \in Words : wcur'[w] = Last(w)
        /\ m \in Message
        /\ mem' = [mem EXCEPT ![Version] = Append(@, m)]
    BY <1>3, FetchAddFacts
  <1>5. /\ mem' \in [Locs -> Seq(Message)]
        /\ \A k \in Locs : Len(mem'[k]) > 0
        /\ Last(Version)' = Last(Version) + 1
        /\ \A k \in Locs \ {Version} : Last(k)' = Last(k)
        /\ \A i : i = Last(Version) + 1 => Msg(Version, i)' = m
        /\ \A k \in Locs : \A i \in 0 .. Last(k) : Msg(k, i)' = Msg(k, i)
    <2> HIDE DEF m
    <2> QED BY <1>1, <1>2, <1>4, AppendMessage
  <1> HIDE DEF m
  <1>6. \A l \in Locs : Last(l) \in Nat
    BY <1>2, LastType
  <1>7. TypeOK'
    <2>1. wpc' \in {"idle", "fence", "store"} /\ done' \subseteq Words /\ quote' \in Nat
      BY <1>2 DEF BeginWrite, EndWrite, TypeOK
    <2> QED
      BY <2>1, <1>2, <1>3, <1>4, <1>5 DEF TypeOK, rvars
  <1>8. \A k \in Locs : \A i \in 0 .. Last(k)' :
          (i \in 0 .. Last(k)) \/ (k = Version /\ i = Last(Version) + 1)
    BY <1>5, <1>6
  <1>9. MemShape'
    <2>1. \A l \in Locs : \A i \in 0 .. Last(l)' : Msg(l, i)'.val = i
      BY <1>2, <1>5, <1>8 DEF MemShape, m
    <2>2. (wpc' # "idle" => quote' >= 1) /\ (wpc' = "fence" => done' = {})
      BY <1>2 DEF BeginWrite, EndWrite, TypeOK
    <2>3. Last(Version)' = IF wpc' = "idle" THEN 2 * quote' ELSE 2 * quote' - 1
      BY <1>2, <1>5 DEF BeginWrite, EndWrite, TypeOK, MemShape
    <2>4. ASSUME NEW w \in Words
          PROVE  Last(w)' = IF wpc' = "idle" \/ (wpc' = "store" /\ w \in done')
                              THEN quote' ELSE quote' - 1
      <3>1. Last(w)' = Last(w)
        BY <1>1, <1>5
      <3>2. Last(w) = quote
        BY <1>2 DEF BeginWrite, EndWrite, MemShape
      <3>3. CASE BeginWrite
        BY <3>1, <3>2, <3>3, <1>2 DEF BeginWrite, TypeOK
      <3>4. CASE EndWrite
        BY <3>1, <3>2, <3>4 DEF EndWrite
      <3> QED BY <3>3, <3>4
    <2> QED
      BY <2>1, <2>2, <2>3, <2>4 DEF MemShape
  <1>10. ViewsBounded'
    <2>1. \A l \in Locs : wcur'[l] = Last(l)'
      BY <1>1, <1>4, <1>5 DEF Locs
    <2>2. ASSUME NEW l \in Locs, NEW k \in Locs, NEW i \in 0 .. Last(l)'
          PROVE  Msg(l, i)'.view[k] <= Last(k)'
      <3>1. CASE i \in 0 .. Last(l)
        <4>1. Msg(l, i)'.view[k] <= Last(k)
          BY <3>1, <1>2, <1>5 DEF ViewsBounded
        <4>2. Msg(l, i)'.view[k] \in Nat
          BY <3>1, <1>2, <1>5, MsgType DEF View
        <4>3. Last(k) \in Nat /\ (Last(k)' = Last(k) \/ Last(k)' = Last(k) + 1)
          BY <1>5, <1>6
        <4> QED
          BY <4>1, <4>2, <4>3
      <3>2. CASE l = Version /\ i = Last(Version) + 1
        <4>1. Msg(l, i)'.view = wcur'
          BY <3>2, <1>5 DEF m
        <4>2. Last(k)' \in Int
          BY <1>5, <1>6
        <4> QED
          BY <4>1, <4>2, <2>1
      <3> QED
        BY <3>1, <3>2, <1>8
    <2>3. ASSUME NEW l \in Locs PROVE wrel'[l] <= Last(l)'
      <3>1. wrel[l] <= Last(l) /\ wrel[l] \in Nat /\ wrel' = wrel
        BY <1>2, <1>3 DEF ViewsBounded, TypeOK, View
      <3> QED
        BY <3>1, <1>1, <1>5, <1>6
    <2>4. wpc' # "store"
      BY DEF BeginWrite, EndWrite
    <2> QED
      BY <2>1, <2>2, <2>3, <2>4 DEF ViewsBounded
  <1>11. MessageViews'
    <2>1. ASSUME NEW w \in Words, NEW i \in 0 .. Last(w)'
          PROVE  Msg(w, i)'.view[Version] >= 2 * i - 1
      <3>1. i \in 0 .. Last(w) /\ Msg(w, i)' = Msg(w, i)
        BY <1>1, <1>5, <1>8
      <3> QED
        BY <3>1, <1>2 DEF MessageViews
    <2>2. ASSUME NEW w \in Words, NEW i \in 0 .. Last(Version)'
          PROVE  2 * Msg(Version, i)'.view[w] + 1 >= i
      <3>1. CASE i \in 0 .. Last(Version)
        BY <3>1, <1>1, <1>2, <1>5 DEF MessageViews
      <3>2. CASE i = Last(Version) + 1
        <4>1. Msg(Version, i)'.view[w] = Last(w)
          BY <3>2, <1>4, <1>5 DEF m
        <4>2. Last(w) = quote /\ Last(Version) <= 2 * quote /\ quote \in Nat
          BY <1>2 DEF MemShape, BeginWrite, EndWrite, TypeOK
        <4> QED
          BY <4>1, <4>2, <3>2, <1>1, <1>6
      <3> QED
        BY <3>1, <3>2, <1>1, <1>8
    <2> QED
      BY <2>1, <2>2 DEF MessageViews
  <1>12. \A l \in Locs : Last(l) <= Last(l)'
    BY <1>1, <1>5, <1>6
  <1>13. (\A r \in Readers : ReaderInv(r))' /\ SnapshotIsWhole'
    BY <1>3, <1>7, <1>12, ReaderKept
  <1> QED
    BY <1>7, <1>9, <1>10, <1>11, <1>13 DEF IInv

(* fence(Release): only the writer's fence view moves. *)
LEMMA ReleaseFenceStep ==
  ASSUME IInv, ReleaseFence
  PROVE  IInv'
  <1>1. TypeOK /\ MemShape /\ ViewsBounded /\ MessageViews
    BY DEF IInv
  <1>2. TypeOK'
    BY <1>1 DEF TypeOK, ReleaseFence, rvars
  <1>3. UNCHANGED <<mem, rvars>> /\ \A l \in Locs : Last(l)' = Last(l)
    BY DEF ReleaseFence, Last
  <1>4. \A l \in Locs : Last(l) \in Nat
    BY <1>1, LastType
  <1>5. MemShape'
    <2>1. \A l \in Locs : \A i \in 0 .. Last(l)' : Msg(l, i)'.val = i
      BY <1>1, <1>3 DEF MemShape, Msg
    <2>2. Version \in Locs /\ Words \subseteq Locs
      BY DEF Locs
    <2> QED
      BY <1>1, <1>3, <2>1, <2>2 DEF MemShape, ReleaseFence
  <1>6. ViewsBounded'
    BY <1>1, <1>3, <1>4 DEF ViewsBounded, MemShape, ReleaseFence, Msg, Locs
  <1>7. MessageViews'
    BY <1>1, <1>3 DEF MessageViews, Msg, Locs
  <1>8. (\A r \in Readers : ReaderInv(r))' /\ SnapshotIsWhole'
    BY <1>2, <1>3, <1>4, ReaderKept
  <1> QED
    BY <1>2, <1>5, <1>6, <1>7, <1>8 DEF IInv

(* A relaxed store of a word: it releases what the fence published. *)
LEMMA StoreWordStep ==
  ASSUME IInv, NEW w \in Words, StoreWord(w)
  PROVE  IInv'
  <1> DEFINE m == [val |-> quote, view |-> wrel]
  <1>1. Version \in Locs /\ Words \subseteq Locs /\ Version \notin Words /\ w # Version
    BY VersionAssumption DEF Locs
  <1>2. TypeOK /\ MemShape /\ ViewsBounded /\ MessageViews
    BY DEF IInv
  <1>3. m \in Message /\ mem' = [mem EXCEPT ![w] = Append(@, m)]
    BY <1>2 DEF TypeOK, StoreWord, Store, Message
  <1>4. /\ mem' \in [Locs -> Seq(Message)]
        /\ \A k \in Locs : Len(mem'[k]) > 0
        /\ Last(w)' = Last(w) + 1
        /\ \A k \in Locs \ {w} : Last(k)' = Last(k)
        /\ \A i : i = Last(w) + 1 => Msg(w, i)' = m
        /\ \A k \in Locs : \A i \in 0 .. Last(k) : Msg(k, i)' = Msg(k, i)
    <2> HIDE DEF m
    <2> QED BY <1>1, <1>2, <1>3, AppendMessage
  <1> HIDE DEF m
  <1>5. /\ wpc = "store" /\ wpc' = "store" /\ w \notin done /\ done' = done \cup {w}
        /\ wrel' = wrel /\ quote' = quote /\ UNCHANGED rvars
    BY DEF StoreWord
  <1>6. \A l \in Locs : Last(l) \in Nat
    BY <1>2, LastType
  <1>7. wcur' = [wcur EXCEPT ![w] = Last(w) + 1]
    BY <1>1, <1>2, LastType DEF StoreWord, Store
  <1>8. wcur' \in View
    BY <1>1, <1>2, <1>6, <1>7 DEF TypeOK, View
  <1>9. TypeOK'
    BY <1>2, <1>4, <1>5, <1>8 DEF TypeOK, rvars
  <1>10. \A k \in Locs : \A i \in 0 .. Last(k)' :
           (i \in 0 .. Last(k)) \/ (k = w /\ i = Last(w) + 1)
    BY <1>4, <1>6
  <1>11. Last(w) = quote - 1 /\ quote \in Nat /\ quote >= 1
    BY <1>2, <1>5 DEF MemShape, TypeOK
  <1>12. MemShape'
    <2>1. \A l \in Locs : \A i \in 0 .. Last(l)' : Msg(l, i)'.val = i
      BY <1>2, <1>4, <1>10, <1>11 DEF MemShape, m
    <2>2. Last(Version)' = 2 * quote' - 1
      BY <1>1, <1>2, <1>4, <1>5 DEF MemShape
    <2>3. \A x \in Words : Last(x)' = IF x \in done' THEN quote' ELSE quote' - 1
      BY <1>1, <1>2, <1>4, <1>5, <1>11 DEF MemShape
    <2> QED
      BY <2>1, <2>2, <2>3, <1>5, <1>11 DEF MemShape
  <1>13. ViewsBounded'
    <2>1. \A l \in Locs : wcur'[l] = Last(l)'
      BY <1>1, <1>2, <1>4, <1>7 DEF ViewsBounded, TypeOK, View
    <2>2. ASSUME NEW l \in Locs, NEW k \in Locs, NEW i \in 0 .. Last(l)'
          PROVE  Msg(l, i)'.view[k] <= Last(k)'
      <3>1. Last(k) \in Nat /\ (Last(k)' = Last(k) \/ Last(k)' = Last(k) + 1)
        BY <1>4, <1>6
      <3>2. CASE i \in 0 .. Last(l)
        <4>1. Msg(l, i)'.view[k] <= Last(k)
          BY <3>2, <1>2, <1>4 DEF ViewsBounded
        <4>2. Msg(l, i)'.view[k] \in Nat
          BY <3>2, <1>2, <1>4, MsgType DEF View
        <4> QED
          BY <4>1, <4>2, <3>1
      <3>3. CASE l = w /\ i = Last(w) + 1
        <4>1. Msg(l, i)'.view = wrel
          BY <3>3, <1>4 DEF m
        <4>2. wrel[k] <= Last(k) /\ wrel[k] \in Nat
          BY <1>2 DEF ViewsBounded, TypeOK, View
        <4> QED
          BY <4>1, <4>2, <3>1
      <3> QED
        BY <3>2, <3>3, <1>10
    <2>3. ASSUME NEW l \in Locs PROVE wrel'[l] <= Last(l)'
      <3>1. wrel[l] <= Last(l) /\ wrel[l] \in Nat
        BY <1>2 DEF ViewsBounded, TypeOK, View
      <3>2. Last(l) \in Nat /\ (Last(l)' = Last(l) \/ Last(l)' = Last(l) + 1)
        BY <1>4, <1>6
      <3> QED
        BY <3>1, <3>2, <1>5
    <2>4. wrel'[Version] = 2 * quote' - 1
      BY <1>2, <1>5 DEF ViewsBounded
    <2> QED
      BY <2>1, <2>2, <2>3, <2>4 DEF ViewsBounded
  <1>14. MessageViews'
    <2>1. ASSUME NEW x \in Words, NEW i \in 0 .. Last(x)'
          PROVE  Msg(x, i)'.view[Version] >= 2 * i - 1
      <3>1. CASE i \in 0 .. Last(x)
        BY <3>1, <1>1, <1>2, <1>4 DEF MessageViews
      <3>2. CASE x = w /\ i = Last(w) + 1
        <4>1. Msg(x, i)'.view[Version] = 2 * quote - 1
          BY <3>2, <1>2, <1>4, <1>5 DEF m, ViewsBounded
        <4> QED
          BY <4>1, <3>2, <1>11
      <3> QED
        BY <3>1, <3>2, <1>1, <1>10
    <2>2. ASSUME NEW x \in Words, NEW i \in 0 .. Last(Version)'
          PROVE  2 * Msg(Version, i)'.view[x] + 1 >= i
      <3>1. i \in 0 .. Last(Version)
        BY <1>1, <1>4
      <3> QED
        BY <3>1, <1>1, <1>2, <1>4 DEF MessageViews
    <2> QED
      BY <2>1, <2>2 DEF MessageViews
  <1>15. \A l \in Locs : Last(l) <= Last(l)'
    BY <1>1, <1>4, <1>6, SMTT(60)
  <1>16. (\A r \in Readers : ReaderInv(r))' /\ SnapshotIsWhole'
    BY <1>5, <1>9, <1>15, ReaderKept
  <1> QED
    BY <1>9, <1>12, <1>13, <1>14, <1>16 DEF IInv

-----------------------------------------------------------------------------
(* A view a reader takes from a message is bounded by memory, so what it   *)
(* joins into its own stays bounded.                                       *)
LEMMA JoinBounded ==
  ASSUME IInv, NEW u \in View, \A k \in Locs : u[k] <= Last(k),
         NEW l \in Locs, NEW i \in 0 .. Last(l)
  PROVE  /\ Join(u, Msg(l, i).view) \in View
         /\ \A k \in Locs : /\ Join(u, Msg(l, i).view)[k] <= Last(k)
                            /\ Join(u, Msg(l, i).view)[k] >= u[k]
                            /\ Join(u, Msg(l, i).view)[k] >= Msg(l, i).view[k]
  <1>1. TypeOK /\ ViewsBounded
    BY DEF IInv
  <1>2. Msg(l, i).view \in View
    BY <1>1, MsgType
  <1>3. \A k \in Locs : Msg(l, i).view[k] <= Last(k)
    BY <1>1 DEF ViewsBounded
  <1> QED
    BY <1>2, <1>3, JoinFacts

(* A step of one reader: the invariant for the others, and for memory. *)
LEMMA ReaderStep ==
  ASSUME IInv, NEW r \in Readers, UNCHANGED <<mem, wvars>>, TypeOK',
         \A q \in Readers \ {r} :
           /\ rpc'[q] = rpc[q] /\ rcur'[q] = rcur[q] /\ racq'[q] = racq[q]
           /\ v1'[q] = v1[q] /\ got'[q] = got[q] /\ words'[q] = words[q]
           /\ out'[q] = out[q],
         ReaderInv(r)',
         \A w \in Words : 2 * out'[r].words[w] = out'[r].version
  PROVE  IInv'
  <1>1. MemShape' /\ ViewsBounded' /\ MessageViews'
    BY MemoryUnchanged
  <1>2. \A l \in Locs : Last(l)' = Last(l)
    BY DEF Last
  <1>3. ASSUME NEW q \in Readers PROVE ReaderInv(q)'
    <2>1. CASE q = r
      BY <2>1
    <2>2. CASE q # r
      <3>1. ReaderInv(q)
        BY DEF IInv
      <3> QED
        BY <2>2, <3>1, <1>2 DEF ReaderInv
    <2> QED BY <2>1, <2>2
  <1>4. SnapshotIsWhole'
    BY DEF IInv, SnapshotIsWhole
  <1> QED
    BY <1>1, <1>3, <1>4 DEF IInv

(* The first load of the version bounds the words from below. *)
LEMMA LoadV1Step ==
  ASSUME IInv, NEW r \in Readers, LoadV1(r)
  PROVE  IInv'
  <1>1. Version \in Locs /\ Words \subseteq Locs /\ Version \notin Words
    BY VersionAssumption DEF Locs
  <1>2. TypeOK /\ MemShape /\ MessageViews /\ ReaderInv(r) /\ SnapshotIsWhole
    BY DEF IInv
  <1>3. PICK i \in 0 .. Last(Version) :
          /\ Readable(r, Version, i)
          /\ rcur' = [rcur EXCEPT ![r] =
                        [Join(rcur[r], Msg(Version, i).view) EXCEPT ![Version] = i]]
          /\ racq' = [racq EXCEPT ![r] = Join(@, Msg(Version, i).view)]
          /\ IF Msg(Version, i).val % 2 # 0
               THEN UNCHANGED <<rpc, v1>>
               ELSE /\ v1' = [v1 EXCEPT ![r] = Msg(Version, i).val]
                    /\ rpc' = [rpc EXCEPT ![r] = "words"]
    BY DEF LoadV1
  <1>4. /\ rpc[r] = "idle" /\ got' = [got EXCEPT ![r] = {}]
        /\ UNCHANGED <<mem, wvars, words, out>>
    BY DEF LoadV1
  <1> DEFINE m == Msg(Version, i)
             j == Join(rcur[r], m.view)
             a == Join(racq[r], m.view)
  <1>5. rcur[r] \in View /\ racq[r] \in View
    BY <1>2 DEF TypeOK
  <1>6. \A k \in Locs : rcur[r][k] <= Last(k) /\ racq[r][k] <= Last(k)
    BY <1>2 DEF ReaderInv
  <1>7. j \in View /\ \A k \in Locs : j[k] <= Last(k) /\ j[k] >= rcur[r][k] /\ j[k] >= m.view[k]
    BY <1>1, <1>5, <1>6, JoinBounded
  <1>8. a \in View /\ \A k \in Locs : a[k] <= Last(k)
    BY <1>1, <1>5, <1>6, JoinBounded
  <1>9. m.val = i /\ i \in Nat /\ Last(Version) \in Nat /\ m.view \in View
    BY <1>1, <1>2, MsgType DEF MemShape
  <1> HIDE DEF m, j, a
  <1>10. rcur'[r] = [j EXCEPT ![Version] = i] /\ racq'[r] = a /\ got'[r] = {}
    BY <1>2, <1>3, <1>4 DEF TypeOK, m, j, a
  <1>11. rcur'[r] \in View
    BY <1>1, <1>7, <1>9, <1>10 DEF View
  <1>12. rpc'[r] \in {"idle", "words"} /\ v1'[r] \in Nat
    BY <1>2, <1>3, <1>4, <1>9 DEF TypeOK, m
  <1>13. TypeOK'
    <2>1. mem' = mem /\ wpc' = wpc /\ wcur' = wcur /\ wrel' = wrel /\ done' = done /\ quote' = quote
      BY <1>4 DEF wvars
    <2>2. rcur' \in [Readers -> View] /\ racq' \in [Readers -> View]
      BY <1>2, <1>3, <1>8, <1>10, <1>11 DEF TypeOK
    <2>3. rpc' \in [Readers -> {"idle", "words", "check"}] /\ v1' \in [Readers -> Nat]
      BY <1>2, <1>3, <1>9, ZenonT(60) DEF TypeOK, m
    <2>4. got' \in [Readers -> SUBSET Words]
      BY <1>2, <1>4 DEF TypeOK
    <2> QED
      BY <2>1, <2>2, <2>3, <2>4, <1>2, <1>4 DEF TypeOK
  <1>14. \A l \in Locs : Last(l)' = Last(l)
    BY <1>4 DEF Last
  <1>15. \A w \in Words : rcur'[r][w] = j[w]
    BY <1>1, <1>7, <1>10 DEF View
  <1>16. rcur'[r][Version] = i
    BY <1>1, <1>7, <1>10 DEF View
  <1>17. \A l \in Locs : rcur'[r][l] <= Last(l)' /\ racq'[r][l] <= Last(l)'
    BY <1>7, <1>8, <1>9, <1>10, <1>14, <1>15, <1>16 DEF Locs
  <1>18. \A w \in Words : out'[r].words[w] <= rcur'[r][w]
    <2>1. ASSUME NEW w \in Words PROVE out[r].words[w] <= j[w]
      <3>1. out[r].words[w] <= rcur[r][w] /\ rcur[r][w] <= j[w]
        BY <1>1, <1>2, <1>7 DEF ReaderInv
      <3>2. out[r].words[w] \in Nat /\ rcur[r][w] \in Nat /\ j[w] \in Nat
        BY <1>1, <1>2, <1>5, <1>7 DEF TypeOK, View
      <3> QED BY <3>1, <3>2
    <2> QED
      BY <2>1, <1>4, <1>15
  <1>19. rpc'[r] # "idle" => v1'[r] = i /\ v1'[r] % 2 = 0
    BY <1>2, <1>3, <1>4, <1>9 DEF TypeOK, m
  <1>20. ASSUME NEW w \in Words PROVE 2 * rcur'[r][w] + 1 >= i
    <2>1. 2 * m.view[w] + 1 >= i
      BY <1>2 DEF MessageViews, m
    <2>2. j[w] >= m.view[w] /\ j[w] \in Nat /\ m.view[w] \in Nat
      BY <1>1, <1>7, <1>9 DEF View
    <2> QED
      BY <2>1, <2>2, <1>9, <1>15
  <1>21. ReaderInv(r)'
    BY <1>10, <1>12, <1>17, <1>18, <1>19, <1>20 DEF ReaderInv
  <1>22. \A w \in Words : 2 * out'[r].words[w] = out'[r].version
    BY <1>2, <1>4 DEF SnapshotIsWhole
  <1>23. \A q \in Readers \ {r} :
           /\ rpc'[q] = rpc[q] /\ rcur'[q] = rcur[q] /\ racq'[q] = racq[q]
           /\ v1'[q] = v1[q] /\ got'[q] = got[q] /\ words'[q] = words[q]
           /\ out'[q] = out[q]
    BY <1>2, <1>3, <1>4 DEF TypeOK
  <1> QED
    BY <1>4, <1>13, <1>21, <1>22, <1>23, ReaderStep

(* A relaxed load of a word: its message's view, with the version the      *)
(* release fence put there, waits in racq.                                 *)
LEMMA LoadWordStep ==
  ASSUME IInv, NEW r \in Readers, NEW x \in Words, LoadWord(r, x)
  PROVE  IInv'
  <1>1. Version \in Locs /\ Words \subseteq Locs /\ Version \notin Words
    BY VersionAssumption DEF Locs
  <1>2. TypeOK /\ MemShape /\ MessageViews /\ ReaderInv(r) /\ SnapshotIsWhole
    BY DEF IInv
  <1>3. PICK i \in 0 .. Last(x) :
          /\ Readable(r, x, i)
          /\ rcur' = [rcur EXCEPT ![r] = [@ EXCEPT ![x] = i]]
          /\ racq' = [racq EXCEPT ![r] = Join(@, Msg(x, i).view)]
          /\ words' = [words EXCEPT ![r] = [@ EXCEPT ![x] = Msg(x, i).val]]
    BY DEF LoadWord
  <1>4. /\ rpc[r] = "words" /\ x \notin got[r] /\ got' = [got EXCEPT ![r] = @ \cup {x}]
        /\ UNCHANGED <<mem, wvars, rpc, v1, out>>
    BY DEF LoadWord
  <1> DEFINE m == Msg(x, i)
             a == Join(racq[r], m.view)
  <1>5. rcur[r] \in View /\ racq[r] \in View /\ words[r] \in [Words -> Nat] /\ v1[r] \in Nat
    BY <1>2 DEF TypeOK
  <1>6. \A k \in Locs : rcur[r][k] <= Last(k) /\ racq[r][k] <= Last(k)
    BY <1>2 DEF ReaderInv
  <1>7. a \in View /\ \A k \in Locs : a[k] <= Last(k) /\ a[k] >= racq[r][k] /\ a[k] >= m.view[k]
    BY <1>1, <1>5, <1>6, JoinBounded
  <1>8. m.val = i /\ i \in Nat /\ Last(x) \in Nat /\ m.view \in View /\ i >= rcur[r][x]
    BY <1>1, <1>2, <1>3, MsgType DEF MemShape, Readable
  <1> HIDE DEF m, a
  <1>9. /\ rcur'[r] = [rcur[r] EXCEPT ![x] = i] /\ racq'[r] = a
        /\ got'[r] = got[r] \cup {x} /\ words'[r] = [words[r] EXCEPT ![x] = i]
    BY <1>2, <1>3, <1>4, <1>8 DEF TypeOK, m, a
  <1>10. rcur'[r] \in View /\ words'[r] \in [Words -> Nat]
    BY <1>1, <1>5, <1>8, <1>9 DEF View
  <1>11. TypeOK'
    <2>1. mem' = mem /\ wpc' = wpc /\ wcur' = wcur /\ wrel' = wrel /\ done' = done /\ quote' = quote
      BY <1>4 DEF wvars
    <2>2. rcur' \in [Readers -> View] /\ racq' \in [Readers -> View]
      BY <1>2, <1>3, <1>7, <1>9, <1>10 DEF TypeOK
    <2>3. words' \in [Readers -> [Words -> Nat]]
      BY <1>2, <1>3, <1>9, <1>10 DEF TypeOK
    <2>4. got' \in [Readers -> SUBSET Words]
      BY <1>2, <1>4 DEF TypeOK
    <2> QED
      BY <2>1, <2>2, <2>3, <2>4, <1>2, <1>4 DEF TypeOK
  <1>12. \A l \in Locs : Last(l)' = Last(l)
    BY <1>4 DEF Last
  <1>13. \A l \in Locs : rcur'[r][l] = IF l = x THEN i ELSE rcur[r][l]
    BY <1>1, <1>5, <1>9 DEF View
  <1>14. \A w \in Words : words'[r][w] = IF w = x THEN i ELSE words[r][w]
    BY <1>5, <1>9
  <1>15. \A l \in Locs : rcur'[r][l] <= Last(l)' /\ racq'[r][l] <= Last(l)'
    BY <1>6, <1>7, <1>8, <1>9, <1>12, <1>13
  <1>16. \A w \in Words : rcur[r][w] \in Nat /\ out[r].words[w] \in Nat /\ words[r][w] \in Nat
    BY <1>1, <1>2, <1>5 DEF TypeOK, View
  <1>17. \A w \in Words : out'[r].words[w] <= rcur'[r][w]
    BY <1>1, <1>2, <1>4, <1>8, <1>13, <1>16 DEF ReaderInv
  <1>18. v1'[r] = v1[r] /\ v1[r] % 2 = 0 /\ rpc'[r] = "words"
    BY <1>2, <1>4 DEF ReaderInv
  <1>19. \A w \in Words : 2 * rcur[r][w] + 1 >= v1[r]
    BY <1>2, <1>4 DEF ReaderInv
  <1>20. \A w \in Words : 2 * rcur'[r][w] + 1 >= v1[r]
    BY <1>1, <1>5, <1>8, <1>13, <1>16, <1>19
  <1>21. ASSUME NEW w \in got'[r]
         PROVE  /\ 2 * words'[r][w] + 1 >= v1[r]
                /\ words'[r][w] >= out[r].words[w]
                /\ words'[r][w] <= rcur'[r][w]
                /\ racq'[r][Version] >= 2 * words'[r][w] - 1
    <2>1. w \in Words
      BY <1>11 DEF TypeOK
    <2>2. CASE w = x
      <3>1. words'[r][w] = i /\ rcur'[r][w] = i
        BY <2>1, <2>2, <1>1, <1>13, <1>14
      <3>2. m.view[Version] >= 2 * i - 1 /\ m.view[Version] \in Nat
        BY <1>1, <1>2, <1>8 DEF MessageViews, m, View
      <3>3. a[Version] >= 2 * i - 1
        BY <3>2, <1>1, <1>7, <1>8 DEF View
      <3>4. out[r].words[w] <= rcur[r][w]
        BY <2>1, <1>2 DEF ReaderInv
      <3> QED
        BY <2>1, <2>2, <3>1, <3>3, <3>4, <1>5, <1>8, <1>9, <1>16, <1>19
    <2>3. CASE w # x
      <3>1. words'[r][w] = words[r][w] /\ rcur'[r][w] = rcur[r][w] /\ w \in got[r]
        BY <2>1, <2>3, <1>1, <1>9, <1>13, <1>14
      <3>2. /\ 2 * words[r][w] + 1 >= v1[r] /\ words[r][w] >= out[r].words[w]
            /\ words[r][w] <= rcur[r][w] /\ racq[r][Version] >= 2 * words[r][w] - 1
        BY <3>1, <1>2, <1>4 DEF ReaderInv
      <3>3. racq[r][Version] \in Nat /\ a[Version] \in Nat /\ a[Version] >= racq[r][Version]
        BY <1>1, <1>5, <1>7 DEF View
      <3> QED
        BY <2>1, <3>1, <3>2, <3>3, <1>9, <1>16
    <2> QED BY <2>2, <2>3
  <1>22. ReaderInv(r)'
    BY <1>4, <1>15, <1>17, <1>18, <1>20, <1>21 DEF ReaderInv
  <1>23. \A w \in Words : 2 * out'[r].words[w] = out'[r].version
    BY <1>2, <1>4 DEF SnapshotIsWhole
  <1>24. \A q \in Readers \ {r} :
           /\ rpc'[q] = rpc[q] /\ rcur'[q] = rcur[q] /\ racq'[q] = racq[q]
           /\ v1'[q] = v1[q] /\ got'[q] = got[q] /\ words'[q] = words[q]
           /\ out'[q] = out[q]
    BY <1>2, <1>3, <1>4 DEF TypeOK
  <1> QED
    BY <1>4, <1>11, <1>22, <1>23, <1>24, ReaderStep

(* fence(Acquire): the versions behind the loaded words enter the view. *)
LEMMA AcquireFenceStep ==
  ASSUME IInv, NEW r \in Readers, AcquireFence(r)
  PROVE  IInv'
  <1>1. Version \in Locs /\ Words \subseteq Locs /\ Version \notin Words
    BY VersionAssumption DEF Locs
  <1>2. TypeOK /\ ReaderInv(r) /\ SnapshotIsWhole
    BY DEF IInv
  <1>3. /\ rpc[r] = "words" /\ got[r] = Words
        /\ rcur' = [rcur EXCEPT ![r] = Join(@, racq[r])]
        /\ rpc' = [rpc EXCEPT ![r] = "check"]
        /\ UNCHANGED <<mem, wvars, racq, v1, got, words, out>>
    BY DEF AcquireFence
  <1> DEFINE j == Join(rcur[r], racq[r])
  <1>4. rcur[r] \in View /\ racq[r] \in View
    BY <1>2 DEF TypeOK
  <1>5. /\ j \in View
        /\ \A l \in Locs : j[l] >= rcur[r][l] /\ j[l] >= racq[r][l]
        /\ \A l \in Locs : j[l] = rcur[r][l] \/ j[l] = racq[r][l]
    BY <1>4, JoinFacts
  <1> HIDE DEF j
  <1>6. rcur'[r] = j /\ rpc'[r] = "check"
    BY <1>2, <1>3 DEF TypeOK, j
  <1>7. TypeOK'
    <2>1. rcur' \in [Readers -> View] /\ rpc' \in [Readers -> {"idle", "words", "check"}]
      BY <1>2, <1>3, <1>5, <1>6 DEF TypeOK
    <2>2. mem' = mem /\ wpc' = wpc /\ wcur' = wcur /\ wrel' = wrel /\ done' = done /\ quote' = quote
      BY <1>3 DEF wvars
    <2> QED
      BY <2>1, <2>2, <1>2, <1>3 DEF TypeOK
  <1>8. \A l \in Locs : Last(l)' = Last(l)
    BY <1>3 DEF Last
  <1>9. \A l \in Locs : rcur'[r][l] <= Last(l)' /\ racq'[r][l] <= Last(l)'
    BY <1>2, <1>3, <1>5, <1>6, <1>8 DEF ReaderInv
  <1>10. /\ v1[r] \in Nat
         /\ \A w \in Words : /\ rcur[r][w] \in Nat /\ j[w] \in Nat /\ j[w] >= rcur[r][w]
                             /\ out[r].words[w] \in Nat /\ words[r][w] \in Nat
         /\ j[Version] \in Nat /\ racq[r][Version] \in Nat /\ j[Version] >= racq[r][Version]
    BY <1>1, <1>2, <1>4, <1>5 DEF TypeOK, View
  <1>11. \A w \in Words :
           /\ out[r].words[w] <= rcur[r][w]
           /\ 2 * rcur[r][w] + 1 >= v1[r]
           /\ 2 * words[r][w] + 1 >= v1[r]
           /\ words[r][w] >= out[r].words[w]
           /\ words[r][w] <= rcur[r][w]
           /\ racq[r][Version] >= 2 * words[r][w] - 1
    BY <1>2, <1>3 DEF ReaderInv
  <1>12. \A w \in Words :
           /\ out[r].words[w] <= j[w]
           /\ 2 * j[w] + 1 >= v1[r]
           /\ words[r][w] <= j[w]
           /\ j[Version] >= 2 * words[r][w] - 1
    <2> SUFFICES ASSUME NEW w \in Words
                 PROVE  /\ out[r].words[w] <= j[w]
                        /\ 2 * j[w] + 1 >= v1[r]
                        /\ words[r][w] <= j[w]
                        /\ j[Version] >= 2 * words[r][w] - 1
      OBVIOUS
    <2>1. /\ rcur[r][w] \in Nat /\ j[w] \in Nat /\ j[w] >= rcur[r][w]
          /\ out[r].words[w] \in Nat /\ words[r][w] \in Nat /\ v1[r] \in Nat
          /\ j[Version] \in Nat /\ racq[r][Version] \in Nat /\ j[Version] >= racq[r][Version]
      BY <1>10
    <2>2. /\ out[r].words[w] <= rcur[r][w]
          /\ 2 * rcur[r][w] + 1 >= v1[r]
          /\ words[r][w] <= rcur[r][w]
          /\ racq[r][Version] >= 2 * words[r][w] - 1
      BY <1>11
    <2> QED
      BY <2>1, <2>2
  <1>13. v1[r] % 2 = 0
    BY <1>2, <1>3 DEF ReaderInv
  <1>14. ReaderInv(r)'
    BY <1>3, <1>6, <1>9, <1>11, <1>12, <1>13 DEF ReaderInv
  <1>15. \A w \in Words : 2 * out'[r].words[w] = out'[r].version
    BY <1>2, <1>3 DEF SnapshotIsWhole
  <1>16. \A q \in Readers \ {r} :
           /\ rpc'[q] = rpc[q] /\ rcur'[q] = rcur[q] /\ racq'[q] = racq[q]
           /\ v1'[q] = v1[q] /\ got'[q] = got[q] /\ words'[q] = words[q]
           /\ out'[q] = out[q]
    BY <1>2, <1>3 DEF TypeOK
  <1> QED
    BY <1>3, <1>7, <1>14, <1>15, <1>16, ReaderStep

(* What the check of the version decides: the words are those of one write, *)
(* and none is older than the ones returned before.                        *)
LEMMA CheckedSnapshot ==
  ASSUME IInv, NEW r \in Readers, rpc[r] = "check",
         NEW i \in 0 .. Last(Version), Readable(r, Version, i),
         Msg(Version, i).val = v1[r], NEW w \in Words
  PROVE  /\ 2 * words[r][w] = v1[r]
         /\ words[r][w] >= out[r].words[w]
         /\ words[r][w] <= rcur[r][w]
  <1>1. Version \in Locs /\ w \in Locs
    BY DEF Locs
  <1>2. TypeOK /\ MemShape /\ ReaderInv(r)
    BY DEF IInv
  <1>3. i = v1[r] /\ i \in Nat
    BY <1>1, <1>2, MsgType DEF MemShape
  <1>4. i >= rcur[r][Version]
    BY <1>3 DEF Readable
  <1>5. /\ v1[r] % 2 = 0 /\ w \in got[r]
        /\ rcur[r][Version] >= 2 * words[r][w] - 1
    BY <1>2 DEF ReaderInv
  <1>6. /\ 2 * words[r][w] + 1 >= v1[r]
        /\ words[r][w] >= out[r].words[w]
        /\ words[r][w] <= rcur[r][w]
    BY <1>2, <1>5 DEF ReaderInv
  <1>7. words[r][w] \in Nat /\ rcur[r][Version] \in Nat /\ v1[r] \in Nat
    BY <1>1, <1>2 DEF TypeOK, View
  <1> DEFINE x == words[r][w]
             y == v1[r]
             z == rcur[r][Version]
  <1>8. /\ x \in Nat /\ y \in Nat /\ z \in Nat /\ y >= z /\ z >= 2 * x - 1
        /\ 2 * x + 1 >= y /\ y % 2 = 0
    BY <1>3, <1>4, <1>5, <1>6, <1>7
  <1> HIDE DEF x, y, z
  <1>9. 2 * x = y
    BY <1>8
  <1> QED
    BY <1>6, <1>9 DEF x, y

(* The second load of the version bounds the words from above. *)
LEMMA LoadV2Step ==
  ASSUME IInv, NEW r \in Readers, LoadV2(r)
  PROVE  IInv'
  <1>1. Version \in Locs /\ Words \subseteq Locs /\ Version \notin Words
    BY VersionAssumption DEF Locs
  <1>2. TypeOK /\ MemShape /\ ReaderInv(r) /\ SnapshotIsWhole
    BY DEF IInv
  <1>3. PICK i \in 0 .. Last(Version) :
          /\ Readable(r, Version, i)
          /\ rcur' = [rcur EXCEPT ![r] = [@ EXCEPT ![Version] = i]]
          /\ racq' = [racq EXCEPT ![r] = Join(@, Msg(Version, i).view)]
          /\ out' = IF Msg(Version, i).val = v1[r]
                      THEN [out EXCEPT ![r] = [version |-> v1[r], words |-> words[r]]]
                      ELSE out
    BY DEF LoadV2
  <1>4. /\ rpc[r] = "check" /\ rpc' = [rpc EXCEPT ![r] = "idle"]
        /\ UNCHANGED <<mem, wvars, v1, got, words>>
    BY DEF LoadV2
  <1> DEFINE m == Msg(Version, i)
             a == Join(racq[r], m.view)
  <1>5. rcur[r] \in View /\ racq[r] \in View /\ words[r] \in [Words -> Nat] /\ v1[r] \in Nat
    BY <1>2 DEF TypeOK
  <1>6. \A k \in Locs : rcur[r][k] <= Last(k) /\ racq[r][k] <= Last(k)
    BY <1>2 DEF ReaderInv
  <1>7. a \in View /\ \A k \in Locs : a[k] <= Last(k)
    BY <1>1, <1>5, <1>6, JoinBounded
  <1>8. i \in Nat /\ Last(Version) \in Nat
    BY <1>1, <1>2, MsgType
  <1> HIDE DEF m, a
  <1>9. rcur'[r] = [rcur[r] EXCEPT ![Version] = i] /\ racq'[r] = a /\ rpc'[r] = "idle"
    BY <1>2, <1>3, <1>4 DEF TypeOK, m, a
  <1>10. rcur'[r] \in View
    BY <1>1, <1>5, <1>8, <1>9 DEF View
  <1>11. \/ out'[r] = out[r]
         \/ /\ m.val = v1[r]
            /\ out'[r].version = v1[r] /\ out'[r].words = words[r]
    BY <1>2, <1>3 DEF TypeOK, m
  <1>12. TypeOK'
    <2>1. mem' = mem /\ wpc' = wpc /\ wcur' = wcur /\ wrel' = wrel /\ done' = done /\ quote' = quote
      BY <1>4 DEF wvars
    <2>2. rcur' \in [Readers -> View] /\ racq' \in [Readers -> View]
      BY <1>2, <1>3, <1>7, <1>9, <1>10 DEF TypeOK
    <2>3. rpc' \in [Readers -> {"idle", "words", "check"}]
      BY <1>2, <1>4 DEF TypeOK
    <2>4. out' \in [Readers -> [version : Nat, words : [Words -> Nat]]]
      BY <1>2, <1>3, <1>5 DEF TypeOK
    <2> QED
      BY <2>1, <2>2, <2>3, <2>4, <1>2, <1>4 DEF TypeOK
  <1>13. \A l \in Locs : Last(l)' = Last(l)
    BY <1>4 DEF Last
  <1>14. \A l \in Locs : rcur'[r][l] = IF l = Version THEN i ELSE rcur[r][l]
    BY <1>1, <1>5, <1>9 DEF View
  <1>15. \A l \in Locs : rcur'[r][l] <= Last(l)' /\ racq'[r][l] <= Last(l)'
    BY <1>6, <1>7, <1>8, <1>9, <1>13, <1>14
  <1>16. \A w \in Words : rcur'[r][w] = rcur[r][w]
    BY <1>1, <1>14
  <1>17. \A w \in Words : out[r].words[w] <= rcur[r][w] /\ out[r].words[w] \in Nat
    BY <1>2, ZenonT(60) DEF ReaderInv, TypeOK
  <1>18. ASSUME m.val = v1[r], NEW w \in Words
         PROVE  /\ 2 * words[r][w] = v1[r]
                /\ words[r][w] >= out[r].words[w]
                /\ words[r][w] <= rcur[r][w]
    BY <1>3, <1>4, <1>18, CheckedSnapshot DEF m
  <1>19. ASSUME NEW w \in Words
         PROVE  /\ out'[r].words[w] <= rcur'[r][w]
                /\ 2 * out'[r].words[w] = out'[r].version
                /\ out'[r].words[w] >= out[r].words[w]
    <2>1. CASE out'[r] = out[r]
      BY <2>1, <1>2, <1>16, <1>17 DEF SnapshotIsWhole
    <2>2. CASE m.val = v1[r] /\ out'[r].version = v1[r] /\ out'[r].words = words[r]
      BY <2>2, <1>16, <1>18
    <2> QED BY <2>1, <2>2, <1>11
  <1>20. ReaderInv(r)'
    BY <1>9, <1>15, <1>19 DEF ReaderInv
  <1>21. \A q \in Readers \ {r} :
           /\ rpc'[q] = rpc[q] /\ rcur'[q] = rcur[q] /\ racq'[q] = racq[q]
           /\ v1'[q] = v1[q] /\ got'[q] = got[q] /\ words'[q] = words[q]
           /\ out'[q] = out[q]
    BY <1>2, <1>3, <1>4 DEF TypeOK
  <1> QED
    BY <1>4, <1>12, <1>19, <1>20, <1>21, ReaderStep

-----------------------------------------------------------------------------
(* Every step keeps the inductive invariant. *)
LEMMA NextIInv == IInv /\ [Next]_vars => IInv'
  <1> SUFFICES ASSUME IInv, [Next]_vars PROVE IInv'
    OBVIOUS
  <1>1. CASE BeginWrite
    BY <1>1, FetchAddStep
  <1>2. CASE ReleaseFence
    BY <1>2, ReleaseFenceStep
  <1>3. ASSUME NEW w \in Words, StoreWord(w) PROVE IInv'
    BY <1>3, StoreWordStep
  <1>4. CASE EndWrite
    BY <1>4, FetchAddStep
  <1>5. ASSUME NEW r \in Readers, LoadV1(r) PROVE IInv'
    BY <1>5, LoadV1Step
  <1>6. ASSUME NEW r \in Readers, NEW w \in Words, LoadWord(r, w) PROVE IInv'
    BY <1>6, LoadWordStep
  <1>7. ASSUME NEW r \in Readers, AcquireFence(r) PROVE IInv'
    BY <1>7, AcquireFenceStep
  <1>8. ASSUME NEW r \in Readers, LoadV2(r) PROVE IInv'
    BY <1>8, LoadV2Step
  <1>9. CASE UNCHANGED vars
    BY <1>9 DEF vars, wvars, rvars, IInv, TypeOK, MemShape, ViewsBounded, MessageViews,
                ReaderInv, SnapshotIsWhole, Last, Msg
  <1> QED
    BY <1>1, <1>2, <1>3, <1>4, <1>5, <1>6, <1>7, <1>8, <1>9 DEF Next, Writer, Reader

(* The inductive invariant holds of every behaviour: the fences of write    *)
(* and read_with_generation keep the views in step with the version.       *)
THEOREM Inductive == Spec => []IInv
  BY InitIInv, NextIInv, PTL DEF Spec

(* Every variable keeps its type. *)
THEOREM TypeCorrect == Spec => []TypeOK
  <1>1. IInv => TypeOK
    BY DEF IInv
  <1> QED BY <1>1, Inductive, PTL

(* read_with_generation never returns a quote mixing two writes, nor a     *)
(* generation with another contract's quote, on any machine of the         *)
(* release/acquire model.                                                  *)
THEOREM SnapshotsAreWhole == Spec => []SnapshotIsWhole
  <1>1. IInv => SnapshotIsWhole
    BY DEF IInv
  <1> QED BY <1>1, Inductive, PTL

=============================================================================
