----------------------- MODULE SessionLifecycleProofs -----------------------
(***************************************************************************)
(* Theorems about the engine's lap, its recovery and its end, for every    *)
(* set of scenarios: any number of orders, attempts, drops and commands.   *)
(*                                                                         *)
(* The engine's record has many fields, and each function of the lap       *)
(* changes a few.  A field's type is looked up in a table, so that a       *)
(* function's lemma names the fields it writes and nothing else.  Sound is *)
(* what every function of the lap preserves, Steps what it may do to the   *)
(* figures the properties are about, and both compose.                     *)
(***************************************************************************)
EXTENDS SessionLifecycle, FiniteSetTheorems, SequenceTheorems, TLAPS

Places == {"sockets", "take", "farm", "trading", "spawn", "finish", "takeBack", "join", "close", "ended"}
Phases == {"none", "phase", "stopping"}
Ends == {"none"} \cup Reasons

FieldType ==
  [pc |-> Places, policy |-> Policies, running |-> BOOLEAN, finishing |-> Phases,
   logoutWritten |-> BOOLEAN, told |-> BOOLEAN, logoutSent |-> BOOLEAN,
   ccpUp |-> BOOLEAN, farmUp |-> BOOLEAN, replay |-> BOOLEAN, over |-> BOOLEAN,
   settling |-> BOOLEAN, halted |-> Ends, farmHalted |-> BOOLEAN,
   farmPending |-> BOOLEAN, dropSaid |-> BOOLEAN, lossAnnounced |-> BOOLEAN,
   budget |-> Budgets, farmBudget |-> Budgets, cancel |-> BOOLEAN,
   status |-> [Orders -> Statuses], answered |-> SUBSET Orders,
   sentOnce |-> SUBSET Placements, left |-> 0 .. LapLimit, taken |-> Nat, finished |-> Nat,
   admitted |-> Nat, admissionClosed |-> BOOLEAN, closed |-> BOOLEAN,
   panicked |-> BOOLEAN, linkUp |-> BOOLEAN, sessionOver |-> Ends,
   tradingOver |-> BOOLEAN, notices |-> Seq(Notices), open |-> Int, returned |-> BOOLEAN,
   drops |-> Nat, farmDrops |-> Nat, forced |-> Nat, gone |-> Nat]

Fields == DOMAIN FieldType

\* An engine's record, of the fields and their types.
Engine(en) == en = [f \in Fields |-> en[f]] /\ \A f \in Fields : en[f] \in FieldType[f]

\* r is en but for some fields.
Same(r, en, changed) == \A f \in Fields \ changed : r[f] = en[f]

-----------------------------------------------------------------------------
(* What a function of the lap preserves, and what it may do. *)

InHand == {"waiting", "held", "built", "heldBuilt"}

\* No order command is in the loop's hands.
Idle(en) == \A o \in Orders : en.status[o] \notin InHand

\* What the loop holds of an order command is a placement held built, or nothing:
\* the finishing phase waits for all else.
Awaits == {"waiting", "held", "built"}

AtRest(en) == \A o \in Orders : en.status[o] \notin Awaits

\* Only a placement is held across a drop, and only where the logon recovers.
HeldToRecover(en) ==
  \A o \in Orders : en.status[o] \in {"held", "heldBuilt"} => Recovers /\ o \in Placements

NoClose(notices) == \A i \in 1 .. Len(notices) : notices[i] # "closed"

Sound(en) ==
  /\ Engine(en)
  /\ ~en.closed /\ NoClose(en.notices)
  /\ en.halted # "none" => ~en.running
  /\ en.finishing # "none" => en.running /\ ~en.logoutWritten
  /\ ~en.running => Idle(en)
  /\ HeldToRecover(en)
  /\ en.dropSaid => ~en.ccpUp /\ en.lossAnnounced
  /\ en.running => en.sessionOver = "none" /\ (en.lossAnnounced <=> ~en.linkUp)
  /\ en.told => en.logoutWritten /\ AtRest(en)
  /\ en.over => en.ccpUp

\* Commands keep their place before and after the loop's hands, and one held
\* built is let go by being sent or refused.
Moves(r, en) ==
  \A o \in Orders :
    /\ r.status[o] = "queued" <=> en.status[o] = "queued"
    /\ r.status[o] = "unasked" <=> en.status[o] = "unasked"
    /\ en.status[o] \in {"sent", "refused"} => r.status[o] \in {"sent", "refused"}
    /\ r.status[o] \in {"held", "heldBuilt"} =>
         en.status[o] \in {"held", "heldBuilt"} \/ (Recovers /\ o \in Placements)
    /\ r.status[o] \in Awaits => en.status[o] \in Awaits

\* No order is sent.
NoneSent(r, en) == \A o \in Orders : r.status[o] = "sent" => en.status[o] = "sent"

\* The losses said and the one still to be said, past the connections that went.
CountOf(seq, x) == Cardinality({i \in 1 .. Len(seq) : seq[i] = x})
LossesSaid(notices) == CountOf(notices, "lost")
Owed(en) ==
  LossesSaid(en.notices) + (IF ~en.ccpUp /\ ~en.dropSaid THEN 1 ELSE 0) - (en.drops + en.gone)

\* The sessions open at the venue past the one held.
Spare(en) == en.open - (IF en.ccpUp /\ ~en.told THEN 1 ELSE 0)

\* Fields none of these is about.
Unseen ==
  {"pc", "policy", "left", "taken", "finished", "admitted", "forced", "farmDrops", "panicked", "logoutSent",
   "replay", "settling", "farmHalted", "farmPending", "budget", "farmBudget", "cancel", "tradingOver",
   "answered", "sentOnce", "farmUp", "admissionClosed", "returned"}

Kept == {"pc", "policy", "left", "taken", "finished", "admitted", "forced", "drops", "farmDrops",
         "panicked", "closed"}

Steps(r, en) ==
  /\ Moves(r, en)
  /\ Owed(r) <= Owed(en)
  /\ Spare(r) = Spare(en)
  /\ \A f \in Kept : r[f] = en[f]
  /\ ~en.running => ~r.running
  /\ en.halted # "none" => r.halted # "none"
  /\ r.ccpUp => en.ccpUp
  /\ r.farmUp => en.farmUp
  /\ en.admissionClosed => r.admissionClosed

-----------------------------------------------------------------------------
(* The invariant. *)

Ending == {"takeBack", "join", "close", "ended"}

\* Each command of the channel is an order queued there once, or not an order,
\* and each order queued is there.
Channel(en, c) ==
  /\ \A o \in Orders : en.status[o] = "queued" => \E i \in 1 .. Len(c) : c[i] = o
  /\ \A i \in 1 .. Len(c) : c[i] \in Orders => en.status[c[i]] = "queued"
  /\ \A i, j \in 1 .. Len(c) : c[i] \in Orders /\ c[i] = c[j] => i = j

\* Commands are counted: admitted, taken, and in the channel.
Past(en) == {o \in Orders : en.status[o] \notin {"unasked", "queued"}}

Counted(en, c) ==
  /\ en.taken + Len(c) = en.admitted
  /\ Cardinality(Past(en)) <= en.taken

\* Sessions are counted: one for the connection held and not told goodbye, and
\* one for an attempt that landed, which is made only without a connection.
Landed(t) == t.phase = "done" /\ t.result = "session"

SessionsAreCounted(en, t) ==
  /\ Spare(en) = IF Landed(t) THEN 1 ELSE 0
  /\ t.phase # "none" => ~en.ccpUp

\* The losses said, and those that the commands in the channel will make, are
\* of connections that went.
ForcesIn(c) == CountOf(c, "ForceDisconnect")

LossesAreOwed(en, c) == Owed(en) + ForcesIn(c) <= en.forced

\* Where the lap stands.
LapInTurn(en) ==
  /\ en.pc = "sockets" => en.running
  /\ en.pc = "farm" => en.running /\ en.finishing = "none"
  /\ en.pc = "trading" => en.running \/ en.halted # "none"
  /\ en.pc = "finish" => ~en.running
  /\ en.closed <=> en.pc = "ended"
  /\ en.pc = "spawn" /\ en.running /\ en.finishing = "none" => en.ccpUp \/ ~en.linkUp

\* What the end leaves.
EndInTurn(en, t, f) ==
  /\ en.pc \in Ending /\ ~en.panicked =>
       ~en.running /\ en.admissionClosed /\ \A o \in Orders : en.status[o] # "queued"
  /\ en.pc \in {"close", "ended"} => t.phase = "none" /\ f = "none"
  /\ \A i \in 1 .. Len(en.notices) : en.notices[i] = "closed" => i = Len(en.notices)
  /\ ~en.running => Idle(en)

\* The commands counted as finished are settled, or held built.
OpenOrders(en) == {o \in Orders : en.status[o] \in Open \ {"heldBuilt"}}

Backlog(en) == ~en.panicked => en.finished + Cardinality(OpenOrders(en)) <= en.admitted

Shaped(en, t, f, c, cl) ==
  /\ Engine(en)
  /\ t \in [phase : {"none", "dialling", "written", "done"},
            result : {"none", "session", "error", "refused", "cancelled", "died"},
            gone : BOOLEAN]
  /\ f \in {"none", "dialling", "session", "error", "refused", "cancelled", "died"}
  /\ c \in Seq(Commands)
  /\ cl \in {"up", "stopping", "loggingOut", "stopped", "gone"}

Holds(en, t, f, c, cl) ==
  /\ Shaped(en, t, f, c, cl)
  /\ ~en.closed => Sound(en)
  /\ Channel(en, c) /\ Counted(en, c)
  /\ SessionsAreCounted(en, t) /\ LossesAreOwed(en, c)
  /\ LapInTurn(en) /\ EndInTurn(en, t, f)
  /\ Backlog(en)

IInv == sc \in Scenarios /\ Holds(e, trading, farm, cmds, caller)

-----------------------------------------------------------------------------
(* The fields and their types. *)

LEMMA FieldNames ==
  /\ "pc" \in Fields /\ "policy" \in Fields /\ "running" \in Fields /\ "finishing" \in Fields
  /\ "logoutWritten" \in Fields /\ "told" \in Fields /\ "logoutSent" \in Fields /\ "ccpUp" \in Fields
  /\ "farmUp" \in Fields /\ "replay" \in Fields /\ "over" \in Fields /\ "settling" \in Fields
  /\ "halted" \in Fields /\ "farmHalted" \in Fields /\ "farmPending" \in Fields /\ "dropSaid" \in Fields
  /\ "lossAnnounced" \in Fields /\ "budget" \in Fields /\ "farmBudget" \in Fields /\ "cancel" \in Fields
  /\ "status" \in Fields /\ "answered" \in Fields /\ "sentOnce" \in Fields /\ "left" \in Fields
  /\ "taken" \in Fields /\ "finished" \in Fields /\ "admitted" \in Fields /\ "admissionClosed" \in Fields
  /\ "closed" \in Fields /\ "panicked" \in Fields /\ "linkUp" \in Fields /\ "sessionOver" \in Fields
  /\ "returned" \in Fields /\ "tradingOver" \in Fields /\ "notices" \in Fields /\ "open" \in Fields /\ "drops" \in Fields
  /\ "farmDrops" \in Fields /\ "forced" \in Fields /\ "gone" \in Fields
  BY DEF Fields, FieldType

LEMMA FieldTypes ==
  /\ FieldType.pc = Places /\ FieldType.policy = Policies /\ FieldType.running = BOOLEAN
  /\ FieldType.finishing = Phases /\ FieldType.logoutWritten = BOOLEAN /\ FieldType.told = BOOLEAN
  /\ FieldType.logoutSent = BOOLEAN /\ FieldType.ccpUp = BOOLEAN /\ FieldType.farmUp = BOOLEAN
  /\ FieldType.replay = BOOLEAN /\ FieldType.over = BOOLEAN /\ FieldType.settling = BOOLEAN
  /\ FieldType.halted = Ends /\ FieldType.farmHalted = BOOLEAN /\ FieldType.farmPending = BOOLEAN
  /\ FieldType.dropSaid = BOOLEAN /\ FieldType.lossAnnounced = BOOLEAN /\ FieldType.budget = Budgets
  /\ FieldType.farmBudget = Budgets /\ FieldType.cancel = BOOLEAN /\ FieldType.status = [Orders -> Statuses]
  /\ FieldType.answered = SUBSET Orders /\ FieldType.sentOnce = SUBSET Placements /\ FieldType.left = 0 .. LapLimit
  /\ FieldType.taken = Nat /\ FieldType.finished = Nat /\ FieldType.admitted = Nat
  /\ FieldType.admissionClosed = BOOLEAN /\ FieldType.closed = BOOLEAN /\ FieldType.panicked = BOOLEAN
  /\ FieldType.linkUp = BOOLEAN /\ FieldType.sessionOver = Ends /\ FieldType.returned = BOOLEAN /\ FieldType.tradingOver = BOOLEAN
  /\ FieldType.notices = Seq(Notices) /\ FieldType.open = Int /\ FieldType.drops = Nat
  /\ FieldType.farmDrops = Nat /\ FieldType.forced = Nat /\ FieldType.gone = Nat
  BY DEF FieldType

LEMMA Typed ==
  ASSUME NEW en, Engine(en)
  PROVE  /\ en.pc \in Places /\ en.policy \in Policies /\ en.running \in BOOLEAN
         /\ en.finishing \in Phases /\ en.logoutWritten \in BOOLEAN /\ en.told \in BOOLEAN
         /\ en.logoutSent \in BOOLEAN /\ en.ccpUp \in BOOLEAN /\ en.farmUp \in BOOLEAN
         /\ en.replay \in BOOLEAN /\ en.over \in BOOLEAN /\ en.settling \in BOOLEAN
         /\ en.halted \in Ends /\ en.farmHalted \in BOOLEAN /\ en.farmPending \in BOOLEAN
         /\ en.dropSaid \in BOOLEAN /\ en.lossAnnounced \in BOOLEAN /\ en.budget \in Budgets
         /\ en.farmBudget \in Budgets /\ en.cancel \in BOOLEAN /\ en.status \in [Orders -> Statuses]
         /\ en.answered \in SUBSET Orders /\ en.sentOnce \in SUBSET Placements /\ en.left \in 0 .. LapLimit
         /\ en.taken \in Nat /\ en.finished \in Nat /\ en.admitted \in Nat
         /\ en.admissionClosed \in BOOLEAN /\ en.closed \in BOOLEAN /\ en.panicked \in BOOLEAN
         /\ en.linkUp \in BOOLEAN /\ en.sessionOver \in Ends /\ en.tradingOver \in BOOLEAN
         /\ en.returned \in BOOLEAN
         /\ en.notices \in Seq(Notices) /\ en.open \in Int /\ en.drops \in Nat
         /\ en.farmDrops \in Nat /\ en.forced \in Nat /\ en.gone \in Nat
  BY FieldNames, FieldTypes DEF Engine

LEMMA SameIs ==
  ASSUME NEW en, Engine(en), NEW changed
  PROVE  Same(en, en, changed)
  BY DEF Same

-----------------------------------------------------------------------------
(* The figures are numbers, and the relations compose. *)

LEMMA CountIsNat ==
  ASSUME NEW T, NEW s \in Seq(T), NEW x
  PROVE  IsFiniteSet({i \in 1 .. Len(s) : s[i] = x}) /\ CountOf(s, x) \in Nat
  <1>1. Len(s) \in Nat
    OBVIOUS
  <1>2. IsFiniteSet(1 .. Len(s))
    BY <1>1, FS_Interval
  <1>3. IsFiniteSet({i \in 1 .. Len(s) : s[i] = x})
    BY <1>2, FS_Subset
  <1> QED
    BY <1>3, FS_CardinalityType DEF CountOf

LEMMA CountAppended ==
  ASSUME NEW T, NEW s \in Seq(T), NEW y \in T, NEW x
  PROVE  CountOf(Append(s, y), x) = CountOf(s, x) + (IF y = x THEN 1 ELSE 0)
  <1> DEFINE A == {i \in 1 .. Len(s) : s[i] = x}
             B == {i \in 1 .. Len(Append(s, y)) : Append(s, y)[i] = x}
             n == Len(s) + 1
  <1>1. Len(s) \in Nat /\ Len(Append(s, y)) = n
    OBVIOUS
  <1>2. \A i \in 1 .. Len(s) : Append(s, y)[i] = s[i]
    OBVIOUS
  <1>3. Append(s, y)[n] = y
    OBVIOUS
  <1>4. B = A \cup (IF y = x THEN {n} ELSE {})
    BY <1>1, <1>2, <1>3
  <1>5. n \notin A
    BY <1>1
  <1>6. IsFiniteSet(A) /\ Cardinality(A) \in Nat
    BY CountIsNat DEF CountOf
  <1> HIDE DEF A, B, n
  <1>7. Cardinality(B) = Cardinality(A) + (IF y = x THEN 1 ELSE 0)
    <2>1. CASE y = x
      <3>1. B = A \cup {n}
        BY <1>4, <2>1
      <3> QED
        BY <1>5, <1>6, <2>1, <3>1, FS_AddElement
    <2>2. CASE y # x
      <3>1. B = A
        BY <1>4, <2>2
      <3> QED
        BY <1>6, <2>2, <3>1
    <2> QED
      BY <2>1, <2>2
  <1> QED
    BY <1>7 DEF A, B, CountOf

LEMMA CountTaken ==
  ASSUME NEW T, NEW s \in Seq(T), s # <<>>, NEW x
  PROVE  CountOf(Tail(s), x) + (IF Head(s) = x THEN 1 ELSE 0) <= CountOf(s, x)
  <1> DEFINE A == {i \in 1 .. Len(s) : s[i] = x}
             B == {i \in 1 .. Len(Tail(s)) : Tail(s)[i] = x}
             C == A \ {1}
             f == [i \in B |-> i + 1]
  <1>1. /\ Len(s) \in Nat /\ Len(s) # 0 /\ Len(Tail(s)) = Len(s) - 1 /\ Head(s) = s[1]
        /\ Tail(s) \in Seq(T) /\ \A i \in 1 .. Len(s) - 1 : Tail(s)[i] = s[i + 1]
    OBVIOUS
  <1>2. /\ IsFiniteSet(A) /\ Cardinality(A) \in Nat
        /\ IsFiniteSet(B) /\ Cardinality(B) \in Nat
    BY <1>1, CountIsNat DEF CountOf
  <1>3. f \in [B -> C]
    BY <1>1
  <1>4. \A i, j \in B : f[i] = f[j] => i = j
    BY <1>1
  <1>5. f \in Injection(B, C)
    BY <1>3, <1>4 DEF Injection, IsInjective
  <1>6. 1 \in A <=> Head(s) = x
    BY <1>1
  <1> HIDE DEF A, B, f
  <1>7. IsFiniteSet(C) /\ Cardinality(C) = IF 1 \in A THEN Cardinality(A) - 1 ELSE Cardinality(A)
    BY <1>2, FS_RemoveElement
  <1> HIDE DEF C
  <1>8. Cardinality(B) <= Cardinality(C)
    BY <1>5, <1>7, FS_Injection
  <1>9. Cardinality(B) + (IF Head(s) = x THEN 1 ELSE 0) <= Cardinality(A)
    BY <1>2, <1>6, <1>7, <1>8
  <1> QED
    BY <1>9 DEF A, B, CountOf

LEMMA Figures ==
  ASSUME NEW en, Engine(en)
  PROVE  /\ LossesSaid(en.notices) \in Nat /\ Owed(en) \in Int /\ Spare(en) \in Int
  <1>1. en.notices \in Seq(Notices) /\ en.open \in Int /\ en.drops \in Nat /\ en.gone \in Nat
    BY Typed
  <1>2. LossesSaid(en.notices) \in Nat
    BY <1>1, CountIsNat DEF LossesSaid
  <1>3. Owed(en) \in Int
    BY <1>1, <1>2 DEF Owed
  <1> QED
    BY <1>1, <1>2, <1>3 DEF Spare

LEMMA MovesTwice ==
  ASSUME NEW r, NEW s, NEW en, Moves(r, s), Moves(s, en)
  PROVE  Moves(r, en)
  BY DEF Moves

LEMMA MovesNone ==
  ASSUME NEW en, NEW r, r.status = en.status
  PROVE  Moves(r, en)
  BY DEF Moves

LEMMA StepsTwice ==
  ASSUME NEW r, NEW s, NEW en, Engine(r), Engine(s), Engine(en), Steps(r, s), Steps(s, en)
  PROVE  Steps(r, en)
  <1>1. Moves(r, en)
    BY MovesTwice DEF Steps
  <1>2. Owed(r) <= Owed(en) /\ Spare(r) = Spare(en)
    BY Figures DEF Steps
  <1> QED
    BY <1>1, <1>2 DEF Steps

LEMMA StepsNone ==
  ASSUME NEW en, Engine(en)
  PROVE  Steps(en, en)
  <1>1. Moves(en, en)
    BY MovesNone
  <1> QED
    BY <1>1, Figures DEF Steps

LEMMA SameTwice ==
  ASSUME NEW r, NEW s, NEW en, NEW A, NEW B, NEW C, Same(r, s, A), Same(s, en, B), A \subseteq C, B \subseteq C
  PROVE  Same(r, en, C)
  BY DEF Same

(* Commands in hand stay in hand or leave it. *)
LEMMA IdleStays ==
  ASSUME NEW r, NEW en, Engine(r), Engine(en), Moves(r, en)
  PROVE  /\ (Idle(en) => Idle(r)) /\ (AtRest(en) => AtRest(r))
         /\ HeldToRecover(en) => HeldToRecover(r)
  <1>1. r.status \in [Orders -> Statuses] /\ en.status \in [Orders -> Statuses]
    BY Typed
  <1> QED
    BY <1>1 DEF Idle, AtRest, Awaits, HeldToRecover, Moves, InHand, Statuses
(* A function that only moves order commands. *)
LEMMA Movement ==
  ASSUME NEW en, NEW r, Sound(en), Engine(r), Moves(r, en), Same(r, en, {"status", "answered", "sentOnce"})
  PROVE  Sound(r) /\ Steps(r, en)
  <1>1. Engine(en)
    BY DEF Sound
  <1>2. \A f \in Fields \ {"status", "answered", "sentOnce"} : r[f] = en[f]
    BY DEF Same
  <1>3. /\ r.closed = en.closed /\ r.notices = en.notices /\ r.halted = en.halted
        /\ r.running = en.running /\ r.dropSaid = en.dropSaid /\ r.ccpUp = en.ccpUp
        /\ r.lossAnnounced = en.lossAnnounced /\ r.sessionOver = en.sessionOver
        /\ r.linkUp = en.linkUp /\ r.told = en.told /\ r.logoutWritten = en.logoutWritten
        /\ r.drops = en.drops /\ r.gone = en.gone /\ r.open = en.open /\ r.farmUp = en.farmUp
        /\ r.admissionClosed = en.admissionClosed /\ r.finishing = en.finishing /\ r.over = en.over
    BY <1>2, FieldNames
  <1>4. \A f \in Kept : r[f] = en[f]
    BY <1>2, FieldNames DEF Kept
  <1>5. /\ (Idle(en) => Idle(r)) /\ (AtRest(en) => AtRest(r))
        /\ HeldToRecover(en) => HeldToRecover(r)
    BY <1>1, IdleStays
  <1>6. Sound(r)
    BY <1>3, <1>5 DEF Sound
  <1>7. Owed(r) = Owed(en) /\ Spare(r) = Spare(en)
    BY <1>3 DEF Owed, Spare
  <1>8. Owed(r) <= Owed(en)
    BY <1>1, <1>7, Figures
  <1> QED
    BY <1>3, <1>4, <1>6, <1>7, <1>8 DEF Steps

LEMMA BecomeDoes ==
  ASSUME NEW en, Engine(en), NEW S, NEW st \in Statuses
  PROVE  /\ Engine(Become(en, S, st)) /\ Same(Become(en, S, st), en, {"status"})
         /\ \A o \in Orders : Become(en, S, st).status[o] = IF o \in S THEN st ELSE en.status[o]
  <1> DEFINE m == [o \in Orders |-> IF o \in S THEN st ELSE en.status[o]]
  <1>1. m \in [Orders -> Statuses]
    BY Typed
  <1>2. Become(en, S, st) = [en EXCEPT !["status"] = m]
    BY DEF Become
  <1> HIDE DEF m
  <1>3. /\ Engine([en EXCEPT !["status"] = m]) /\ [en EXCEPT !["status"] = m]["status"] = m
        /\ Same([en EXCEPT !["status"] = m], en, {"status"})
    BY <1>1, FieldNames, FieldTypes DEF Engine, Same
  <1>4. \A o \in Orders : m[o] = IF o \in S THEN st ELSE en.status[o]
    BY DEF m
  <1>5. Become(en, S, st).status = m
    BY <1>2, <1>3
  <1> QED
    BY <1>2, <1>3, <1>4, <1>5

(* Every function on the orders in hand. *)
LEMMA DrainDoes ==
  ASSUME NEW en, Sound(en)
  PROVE  /\ Sound(DrainAndSendOrders(en)) /\ Steps(DrainAndSendOrders(en), en)
         /\ Same(DrainAndSendOrders(en), en, {"status"})
         /\ \A o \in Orders : \/ DrainAndSendOrders(en).status[o] = en.status[o]
                              \/ en.ccpUp /\ en.status[o] = "built"
  <1> DEFINE going == {o \in In(en, "built") : o \in Withdrawals => ~en.settling}
             r == Become(en, going, "sent")
  <1>0. Engine(en) /\ "sent" \in Statuses
    BY DEF Sound, Statuses
  <1>1. /\ Engine(r) /\ Same(r, en, {"status"})
        /\ \A o \in Orders : r.status[o] = IF o \in going THEN "sent" ELSE en.status[o]
    BY <1>0, BecomeDoes
  <1>2. \A o \in going : en.status[o] = "built"
    BY DEF In
  <1> HIDE DEF r
  <1>3. Moves(r, en)
    BY <1>1, <1>2 DEF Moves, Awaits
  <1>4. Sound(r) /\ Steps(r, en)
    BY <1>0, <1>1, <1>3, Movement DEF Same
  <1>5. CASE en.ccpUp
    BY <1>1, <1>2, <1>4, <1>5 DEF DrainAndSendOrders, r
  <1>6. CASE ~en.ccpUp
    BY <1>0, <1>6, StepsNone, SameIs DEF DrainAndSendOrders
  <1> QED
    BY <1>5, <1>6

LEMMA RefuseLeftDoes ==
  ASSUME NEW en, Sound(en)
  PROVE  /\ Sound(RefuseWhatIsLeft(en)) /\ Steps(RefuseWhatIsLeft(en), en)
         /\ Same(RefuseWhatIsLeft(en), en, {"status"})
         /\ \A o \in Orders : RefuseWhatIsLeft(en).status[o] =
                                IF en.status[o] = "built" THEN "refused" ELSE en.status[o]
  <1> DEFINE r == Become(en, In(en, "built"), "refused")
  <1>0. Engine(en) /\ "refused" \in Statuses
    BY DEF Sound, Statuses
  <1>1. /\ Engine(r) /\ Same(r, en, {"status"})
        /\ \A o \in Orders : r.status[o] = IF o \in In(en, "built") THEN "refused" ELSE en.status[o]
    BY <1>0, BecomeDoes
  <1>2. RefuseWhatIsLeft(en) = r
    BY DEF RefuseWhatIsLeft
  <1> HIDE DEF r
  <1>3. Moves(r, en)
    BY <1>1 DEF Moves, Awaits, In
  <1>4. Sound(r) /\ Steps(r, en)
    BY <1>0, <1>1, <1>3, Movement DEF Same
  <1> QED
    BY <1>1, <1>2, <1>4 DEF In

(* What the loop holds is refused, the recovery's last. *)
LEMMA AllRefused ==
  ASSUME NEW en, Engine(en)
  PROVE  LET r == RefuseWhatIsLeft(RefuseHeldOrderCommands(en))
         IN  Engine(r) /\ Same(r, en, {"status"}) /\ Idle(r) /\ Moves(r, en) /\ NoneSent(r, en)
  <1> DEFINE s == Become(en, In(en, "heldBuilt"), "built")
             u == Become(s, In(en, "waiting") \cup In(en, "held"), "refused")
             r == Become(u, In(u, "built"), "refused")
  <1>0. "refused" \in Statuses /\ "built" \in Statuses /\ en.status \in [Orders -> Statuses]
    BY Typed DEF Statuses
  <1>1. /\ Engine(s) /\ Same(s, en, {"status"})
        /\ \A o \in Orders : s.status[o] = IF o \in In(en, "heldBuilt") THEN "built" ELSE en.status[o]
    BY <1>0, BecomeDoes
  <1>2. RefuseWhatIsLeft(RefuseHeldOrderCommands(en)) = r
    BY DEF RefuseHeldOrderCommands, RefuseWhatIsLeft
  <1> HIDE DEF s
  <1>3. /\ Engine(u) /\ Same(u, s, {"status"})
        /\ \A o \in Orders : u.status[o] = IF o \in In(en, "waiting") \cup In(en, "held") THEN "refused"
                                           ELSE s.status[o]
    BY <1>0, <1>1, BecomeDoes
  <1> HIDE DEF u
  <1>4. /\ Engine(r) /\ Same(r, u, {"status"})
        /\ \A o \in Orders : r.status[o] = IF o \in In(u, "built") THEN "refused" ELSE u.status[o]
    BY <1>0, <1>3, BecomeDoes
  <1> HIDE DEF r
  <1>5. Same(r, en, {"status"})
    BY <1>1, <1>3, <1>4 DEF Same
  <1>6. Idle(r)
    BY <1>0, <1>1, <1>3, <1>4 DEF Idle, InHand, In
  <1>7. Moves(r, en) /\ NoneSent(r, en)
    BY <1>0, <1>1, <1>3, <1>4 DEF Moves, Awaits, NoneSent, In
  <1> QED
    BY <1>2, <1>4, <1>5, <1>6, <1>7

(* The orders answered change with the orders in hand. *)
LEMMA AnsweredDoes ==
  ASSUME NEW en, Engine(en), NEW S \in SUBSET Orders
  PROVE  /\ Engine([en EXCEPT !.answered = S]) /\ Same([en EXCEPT !.answered = S], en, {"answered"})
         /\ [en EXCEPT !.answered = S].status = en.status
  BY FieldNames, FieldTypes DEF Engine, Same

LEMMA SentOnceDoes ==
  ASSUME NEW en, Engine(en), NEW S \in SUBSET Placements
  PROVE  /\ Engine([en EXCEPT !.sentOnce = S]) /\ Same([en EXCEPT !.sentOnce = S], en, {"sentOnce"})
         /\ [en EXCEPT !.sentOnce = S].status = en.status
  BY FieldNames, FieldTypes DEF Engine, Same

LEMMA HoldDoes ==
  ASSUME NEW en, Sound(en), NEW atTheDrop
  PROVE  /\ Sound(HoldWhatWaitsToBePlaced(en, atTheDrop))
         /\ Steps(HoldWhatWaitsToBePlaced(en, atTheDrop), en)
         /\ Same(HoldWhatWaitsToBePlaced(en, atTheDrop), en, {"status", "answered"})
         /\ NoneSent(HoldWhatWaitsToBePlaced(en, atTheDrop), en)
  <1> DEFINE waiting == In(en, "waiting") \cap Placements
             built == In(en, "built") \cap Placements
             s == Become(en, waiting, "held")
             held == Become(s, built, "heldBuilt")
             r == [held EXCEPT !.answered = held.answered \ waiting]
             u == Become(en, waiting \cup built, "refused")
  <1>0. Engine(en) /\ "refused" \in Statuses /\ "held" \in Statuses /\ "heldBuilt" \in Statuses
    BY DEF Sound, Statuses
  <1>1. CASE Recovers
    <2>1. /\ Engine(s) /\ Same(s, en, {"status"})
          /\ \A o \in Orders : s.status[o] = IF o \in waiting THEN "held" ELSE en.status[o]
      BY <1>0, BecomeDoes
    <2> HIDE DEF s
    <2>2. /\ Engine(held) /\ Same(held, s, {"status"})
          /\ \A o \in Orders : held.status[o] = IF o \in built THEN "heldBuilt" ELSE s.status[o]
      BY <1>0, <2>1, BecomeDoes
    <2>3. HoldWhatWaitsToBePlaced(en, atTheDrop) = r
      BY <1>1 DEF HoldWhatWaitsToBePlaced, s
    <2> HIDE DEF held
    <2>4. held.answered \ waiting \in SUBSET Orders
      BY <2>2, Typed
    <2>5. Engine(r) /\ Same(r, held, {"answered"}) /\ r.status = held.status
      BY <2>2, <2>4, AnsweredDoes
    <2> HIDE DEF r
    <2>6. Moves(r, en) /\ NoneSent(r, en)
      BY <1>1, <2>1, <2>2, <2>5 DEF Moves, Awaits, NoneSent, In
    <2>7. Same(r, en, {"status", "answered"})
      BY <2>1, <2>2, <2>5 DEF Same
    <2>8. Sound(r) /\ Steps(r, en)
      BY <1>0, <2>5, <2>6, <2>7, Movement DEF Same
    <2> QED
      BY <2>3, <2>6, <2>7, <2>8
  <1>2. CASE ~Recovers /\ atTheDrop
    <2>1. /\ Engine(u) /\ Same(u, en, {"status"})
          /\ \A o \in Orders : u.status[o] = IF o \in waiting \cup built THEN "refused" ELSE en.status[o]
      BY <1>0, BecomeDoes
    <2>2. HoldWhatWaitsToBePlaced(en, atTheDrop) = u
      BY <1>2 DEF HoldWhatWaitsToBePlaced
    <2> HIDE DEF u
    <2>3. Moves(u, en) /\ NoneSent(u, en)
      BY <2>1 DEF Moves, Awaits, NoneSent, In
    <2>4. Sound(u) /\ Steps(u, en)
      BY <1>0, <2>1, <2>3, Movement DEF Same
    <2> QED
      BY <2>1, <2>2, <2>3, <2>4 DEF Same
  <1>3. CASE ~Recovers /\ ~atTheDrop
    <2>1. HoldWhatWaitsToBePlaced(en, atTheDrop) = en
      BY <1>3 DEF HoldWhatWaitsToBePlaced
    <2> QED
      BY <1>0, <2>1, StepsNone, SameIs DEF NoneSent
  <1> QED
    BY <1>1, <1>2, <1>3

LEMMA LetGoDoes ==
  ASSUME NEW en, Sound(en), en.over
  PROVE  /\ Engine(LetGoOfTheHeld(en)) /\ Same(LetGoOfTheHeld(en), en, {"status", "sentOnce"})
         /\ \A o \in Orders : LetGoOfTheHeld(en).status[o] \in
              CASE en.status[o] = "held" -> {"waiting"}
                [] en.status[o] = "heldBuilt" -> {"built", "refused"}
                [] OTHER -> {en.status[o]}
  <1> DEFINE built == In(en, "heldBuilt")
             again == built \cap en.sentOnce
             s == Become(en, In(en, "held"), "waiting")
             freed == Become(s, built \ again, "built")
             u == Become(freed, again, "refused")
             r == [u EXCEPT !.sentOnce = u.sentOnce \cup built]
  <1>0. Engine(en) /\ "refused" \in Statuses /\ "waiting" \in Statuses /\ "built" \in Statuses
    BY DEF Sound, Statuses
  <1>1. /\ Engine(s) /\ Same(s, en, {"status"})
        /\ \A o \in Orders : s.status[o] = IF o \in In(en, "held") THEN "waiting" ELSE en.status[o]
    BY <1>0, BecomeDoes
  <1> HIDE DEF s
  <1>2. /\ Engine(freed) /\ Same(freed, s, {"status"})
        /\ \A o \in Orders : freed.status[o] = IF o \in built \ again THEN "built" ELSE s.status[o]
    BY <1>0, <1>1, BecomeDoes
  <1> HIDE DEF freed
  <1>3. /\ Engine(u) /\ Same(u, freed, {"status"})
        /\ \A o \in Orders : u.status[o] = IF o \in again THEN "refused" ELSE freed.status[o]
    BY <1>0, <1>2, BecomeDoes
  <1>4. LetGoOfTheHeld(en) = r
    BY DEF LetGoOfTheHeld, s, freed
  <1> HIDE DEF u
  <1>5. u.sentOnce \cup built \in SUBSET Placements
    <2>1. built \subseteq Placements
      BY DEF Sound, HeldToRecover, In
    <2> QED
      BY <1>3, <2>1, Typed
  <1>6. Engine(r) /\ Same(r, u, {"sentOnce"}) /\ r.status = u.status
    BY <1>3, <1>5, SentOnceDoes
  <1> HIDE DEF r
  <1>7. Same(r, en, {"status", "sentOnce"})
    BY <1>1, <1>2, <1>3, <1>6 DEF Same
  <1>8. ASSUME NEW o \in Orders
        PROVE  r.status[o] \in CASE en.status[o] = "held" -> {"waiting"}
                                 [] en.status[o] = "heldBuilt" -> {"built", "refused"}
                                 [] OTHER -> {en.status[o]}
    BY <1>1, <1>2, <1>3, <1>6 DEF In
  <1> QED
    BY <1>4, <1>6, <1>7, <1>8

(* Whether an order is sent by what the recovery lets go: it was built, or held *)
(* built, and there is a connection. *)
SentFromHand(r, en) ==
  \A o \in Orders :
    r.status[o] = "sent" => en.status[o] = "sent" \/ (en.ccpUp /\ en.status[o] \in {"built", "heldBuilt"})

(* What the recovery held is let go, and the order buffer sent: the recovery is *)
(* over only on a connection, so that no placement it held built stays built. *)
LEMMA LetGoAndDrainDoes ==
  ASSUME NEW en, Sound(en), sc \in Scenarios
  PROVE  LET r == DrainAndSendOrders(LetGoOfTheHeld(en))
         IN  Sound(r) /\ Steps(r, en) /\ Same(r, en, {"status", "sentOnce"}) /\ SentFromHand(r, en)
  <1> DEFINE a == LetGoOfTheHeld(en)
             r == DrainAndSendOrders(a)
  <1>0. Engine(en) /\ en.over \in BOOLEAN /\ en.status \in [Orders -> Statuses]
    BY Typed DEF Sound
  <1>1. CASE en.over
    <2> DEFINE going == {o \in In(a, "built") : o \in Withdrawals => ~a.settling}
               b == Become(a, going, "sent")
    <2>1. /\ Engine(a) /\ Same(a, en, {"status", "sentOnce"})
          /\ \A o \in Orders : a.status[o] \in
               CASE en.status[o] = "held" -> {"waiting"}
                 [] en.status[o] = "heldBuilt" -> {"built", "refused"}
                 [] OTHER -> {en.status[o]}
      BY <1>1, LetGoDoes
    <2> HIDE DEF a
    <2>2. a.ccpUp = en.ccpUp /\ en.ccpUp
      BY <1>1, <2>1, FieldNames DEF Same, Sound
    <2>3. r = b
      BY <2>2 DEF DrainAndSendOrders
    <2>4. /\ Engine(b) /\ Same(b, a, {"status"})
          /\ \A o \in Orders : b.status[o] = IF o \in going THEN "sent" ELSE a.status[o]
      BY <2>1, BecomeDoes DEF Statuses
    <2> HIDE DEF b
    <2>5. Same(b, en, {"status", "sentOnce"})
      BY <2>1, <2>4 DEF Same
    <2>6. ASSUME NEW o \in Orders
          PROVE  b.status[o] \in
                   CASE en.status[o] = "held" -> {"waiting"}
                     [] en.status[o] = "heldBuilt" -> {"sent", "refused"}
                     [] en.status[o] = "built" -> {"built", "sent"}
                     [] OTHER -> {en.status[o]}
      <3>1. CASE en.status[o] = "heldBuilt"
        <4>1. o \in Placements
          BY <3>1 DEF Sound, HeldToRecover
        <4>2. o \notin Withdrawals
          BY <4>1, ScenariosAssumption DEF Placements, Withdrawals
        <4>3. a.status[o] \in {"built", "refused"}
          BY <2>1, <3>1
        <4> QED
          BY <2>4, <3>1, <4>2, <4>3 DEF In
      <3>2. CASE en.status[o] # "heldBuilt"
        <4>1. a.status[o] \in IF en.status[o] = "held" THEN {"waiting"} ELSE {en.status[o]}
          BY <2>1, <3>2
        <4> QED
          BY <2>4, <3>2, <4>1 DEF In
      <3> QED
        BY <3>1, <3>2
    <2>7. Moves(b, en)
      BY <1>0, <2>6 DEF Moves, Awaits, Statuses
    <2>8. SentFromHand(b, en)
      BY <1>0, <2>2, <2>6 DEF SentFromHand, Statuses
    <2>9. Sound(b) /\ Steps(b, en)
      BY <2>4, <2>5, <2>7, Movement DEF Same
    <2> QED
      BY <2>3, <2>5, <2>8, <2>9 DEF a
  <1>2. CASE ~en.over
    <2>1. a = en
      BY <1>2 DEF LetGoOfTheHeld
    <2>2. /\ Sound(r) /\ Steps(r, en) /\ Same(r, en, {"status"})
          /\ \A o \in Orders : r.status[o] = en.status[o] \/ (en.ccpUp /\ en.status[o] = "built")
      BY <2>1, DrainDoes
    <2> HIDE DEF r
    <2> QED
      BY <2>2 DEF Same, SentFromHand, r
  <1> QED
    BY <1>0, <1>1, <1>2

LEMMA WorkedThroughDoes ==
  ASSUME NEW en, Sound(en), NEW r \in WorkedThrough(en)
  PROVE  /\ Sound(r) /\ Steps(r, en) /\ Same(r, en, {"status", "answered"}) /\ NoneSent(r, en)
  <1> DEFINE ready == {o \in In(en, "waiting") : CanProceed(en, o)}
  <1>0. Engine(en) /\ "refused" \in Statuses /\ "built" \in Statuses
    BY DEF Sound, Statuses
  <1>1. PICK B \in SUBSET ready :
          r = [Become(Become(en, B, "built"), ready \ B, "refused") EXCEPT !.answered = @ \ ready]
    BY DEF WorkedThrough
  <1> DEFINE s == Become(en, B, "built")
             u == Become(s, ready \ B, "refused")
  <1>2. r = [u EXCEPT !.answered = u.answered \ ready]
    BY <1>1
  <1>3. /\ Engine(s) /\ Same(s, en, {"status"})
        /\ \A o \in Orders : s.status[o] = IF o \in B THEN "built" ELSE en.status[o]
    BY <1>0, BecomeDoes
  <1> HIDE DEF s
  <1>4. /\ Engine(u) /\ Same(u, s, {"status"})
        /\ \A o \in Orders : u.status[o] = IF o \in ready \ B THEN "refused" ELSE s.status[o]
    BY <1>0, <1>3, BecomeDoes
  <1> HIDE DEF u
  <1>5. u.answered \ ready \in SUBSET Orders
    BY <1>4, Typed
  <1>6. Engine(r) /\ Same(r, u, {"answered"}) /\ r.status = u.status
    BY <1>2, <1>4, <1>5, AnsweredDoes
  <1>7. Moves(r, en) /\ NoneSent(r, en)
    BY <1>3, <1>4, <1>6 DEF Moves, Awaits, NoneSent, In
  <1>8. Same(r, en, {"status", "answered"})
    BY <1>3, <1>4, <1>6 DEF Same
  <1>9. Sound(r) /\ Steps(r, en)
    BY <1>0, <1>6, <1>7, <1>8, Movement DEF Same
  <1> QED
    BY <1>7, <1>8, <1>9

-----------------------------------------------------------------------------
(* What is said of the connection. *)

(* A function that writes only fields the rest is not about. *)
LEMMA UnseenDoes ==
  ASSUME NEW en, NEW r, Sound(en), Engine(r), Same(r, en, Unseen)
  PROVE  /\ Sound(r) /\ r.status = en.status /\ Owed(r) = Owed(en) /\ Spare(r) = Spare(en)
         /\ r.running = en.running /\ r.halted = en.halted /\ r.ccpUp = en.ccpUp /\ r.told = en.told
         /\ r.finishing = en.finishing /\ r.linkUp = en.linkUp
  <1>1. \A f \in Fields \ Unseen : r[f] = en[f]
    BY DEF Same
  <1>2. /\ r.closed = en.closed /\ r.notices = en.notices /\ r.halted = en.halted
        /\ r.running = en.running /\ r.dropSaid = en.dropSaid /\ r.ccpUp = en.ccpUp
        /\ r.lossAnnounced = en.lossAnnounced /\ r.sessionOver = en.sessionOver
        /\ r.linkUp = en.linkUp /\ r.told = en.told /\ r.logoutWritten = en.logoutWritten
        /\ r.drops = en.drops /\ r.gone = en.gone /\ r.open = en.open /\ r.finishing = en.finishing
        /\ r.status = en.status /\ r.over = en.over
    BY <1>1, FieldNames DEF Unseen
  <1>3. Sound(r)
    BY <1>2 DEF Sound, Idle, AtRest, HeldToRecover
  <1> QED
    BY <1>2, <1>3 DEF Owed, Spare

Minor == {"logoutSent", "replay", "settling", "farmHalted", "farmPending", "budget", "farmBudget",
          "cancel", "tradingOver", "answered", "sentOnce", "farmUp", "admissionClosed"}

LEMMA MinorDoes ==
  ASSUME NEW en, NEW r, Sound(en), Engine(r), Same(r, en, Minor),
         r.farmUp => en.farmUp, en.admissionClosed => r.admissionClosed
  PROVE  Sound(r) /\ Steps(r, en) /\ NoneSent(r, en)
  <1>1. \A f \in Fields \ Minor : r[f] = en[f]
    BY DEF Same
  <1>2. Minor \subseteq Unseen
    BY DEF Minor, Unseen
  <1>3. Same(r, en, Unseen)
    BY <1>1, <1>2 DEF Same
  <1>4. /\ Sound(r) /\ r.status = en.status /\ Owed(r) = Owed(en) /\ Spare(r) = Spare(en)
        /\ r.running = en.running /\ r.halted = en.halted /\ r.ccpUp = en.ccpUp
    BY <1>3, UnseenDoes
  <1>5. \A f \in Kept : r[f] = en[f]
    BY <1>1, FieldNames DEF Kept, Minor
  <1>6. Moves(r, en)
    BY <1>4, MovesNone
  <1>7. Owed(r) <= Owed(en)
    BY <1>4, Figures DEF Sound
  <1> QED
    BY <1>4, <1>5, <1>6, <1>7 DEF Steps, NoneSent

LEMMA LostDoes ==
  ASSUME NEW en, Engine(en), NoClose(en.notices)
  PROVE  /\ Engine(SetConnectionLost(en)) /\ Same(SetConnectionLost(en), en, {"linkUp", "notices"})
         /\ SetConnectionLost(en).linkUp = FALSE /\ NoClose(SetConnectionLost(en).notices)
         /\ LossesSaid(SetConnectionLost(en).notices) <= LossesSaid(en.notices) + 1
         /\ en.sessionOver = "ByDesign" =>
              LossesSaid(SetConnectionLost(en).notices) = LossesSaid(en.notices)
  <1> DEFINE said == IF en.sessionOver = "ByDesign" THEN "lostByDesign" ELSE "lost"
             n == IF en.linkUp \/ ~(en.sessionOver = "ByDesign") THEN Append(en.notices, said) ELSE en.notices
             r == [en EXCEPT !.linkUp = FALSE, !.notices = n]
  <1>1. en.notices \in Seq(Notices) /\ said \in Notices /\ said # "closed"
    BY Typed DEF Notices
  <1>2. n \in Seq(Notices)
    BY <1>1
  <1>3. SetConnectionLost(en) = r
    BY DEF SetConnectionLost
  <1>4. NoClose(n)
    BY <1>1 DEF NoClose
  <1>5. LossesSaid(en.notices) \in Nat
    BY Figures
  <1>6. /\ CountOf(Append(en.notices, "lost"), "lost") = CountOf(en.notices, "lost") + 1
        /\ CountOf(Append(en.notices, "lostByDesign"), "lost") = CountOf(en.notices, "lost") + 0
    <2>1. "lost" \in Notices /\ "lostByDesign" \in Notices /\ "lostByDesign" # "lost"
      BY DEF Notices
    <2> QED
      BY <1>1, <2>1, CountAppended
  <1>7. LossesSaid(n) <= LossesSaid(en.notices) + 1
    BY <1>5, <1>6 DEF LossesSaid
  <1>8. en.sessionOver = "ByDesign" => LossesSaid(n) = LossesSaid(en.notices)
    BY <1>5, <1>6 DEF LossesSaid
  <1> HIDE DEF n, said
  <1>9. Engine(r) /\ Same(r, en, {"linkUp", "notices"}) /\ r.linkUp = FALSE /\ r.notices = n
    BY <1>2, FieldNames, FieldTypes DEF Engine, Same
  <1> QED
    BY <1>3, <1>4, <1>7, <1>8, <1>9

LEMMA SayTheDropDoes ==
  ASSUME NEW en, Engine(en), NoClose(en.notices), ~en.ccpUp
  PROVE  /\ Engine(SayTheDrop(en)) /\ NoClose(SayTheDrop(en).notices) /\ Owed(SayTheDrop(en)) <= Owed(en)
         /\ Same(SayTheDrop(en), en, {"dropSaid", "lossAnnounced", "linkUp", "notices"})
         /\ SayTheDrop(en).dropSaid
         /\ en.dropSaid => SayTheDrop(en) = en
         /\ ~en.dropSaid => SayTheDrop(en).lossAnnounced = TRUE /\ SayTheDrop(en).linkUp = FALSE
  <1> DEFINE s == [en EXCEPT !.dropSaid = TRUE, !.lossAnnounced = TRUE]
             r == SetConnectionLost(s)
  <1>1. CASE en.dropSaid
    <2>1. SayTheDrop(en) = en
      BY <1>1 DEF SayTheDrop
    <2> QED
      BY <1>1, <2>1, SameIs, Figures
  <1>2. CASE ~en.dropSaid
    <2>1. SayTheDrop(en) = r
      BY <1>2 DEF SayTheDrop
    <2>2. /\ Engine(s) /\ Same(s, en, {"dropSaid", "lossAnnounced"})
          /\ s.dropSaid = TRUE /\ s.lossAnnounced = TRUE
      BY FieldNames, FieldTypes DEF Engine, Same
    <2> HIDE DEF s
    <2>3. s.notices = en.notices
      BY <2>2, FieldNames DEF Same
    <2>4. /\ Engine(r) /\ Same(r, s, {"linkUp", "notices"}) /\ r.linkUp = FALSE /\ NoClose(r.notices)
          /\ LossesSaid(r.notices) <= LossesSaid(s.notices) + 1
      BY <2>2, <2>3, LostDoes
    <2> HIDE DEF r
    <2>5. Same(r, en, {"dropSaid", "lossAnnounced", "linkUp", "notices"})
      BY <2>2, <2>4 DEF Same
    <2>6. /\ r.ccpUp = en.ccpUp /\ r.drops = en.drops /\ r.gone = en.gone
          /\ r.dropSaid = TRUE /\ r.lossAnnounced = TRUE
      BY <2>2, <2>4, <2>5, FieldNames DEF Same
    <2>7. Owed(r) <= Owed(en)
      <3>1. LossesSaid(r.notices) \in Nat /\ LossesSaid(en.notices) \in Nat
        BY <2>4, Figures
      <3>2. en.drops \in Nat /\ en.gone \in Nat
        BY Typed
      <3>3. Owed(r) = LossesSaid(r.notices) - (en.drops + en.gone)
        BY <2>6, <3>1, <3>2 DEF Owed
      <3>4. Owed(en) = LossesSaid(en.notices) + 1 - (en.drops + en.gone)
        BY <1>2, <3>1, <3>2 DEF Owed
      <3> QED
        BY <2>3, <2>4, <3>1, <3>2, <3>3, <3>4
    <2> QED
      BY <1>2, <2>1, <2>4, <2>5, <2>6, <2>7
  <1>3. en.dropSaid \in BOOLEAN
    BY Typed
  <1> QED
    BY <1>1, <1>2

LEMMA DropIsSaid ==
  ASSUME NEW en, Sound(en), ~en.ccpUp
  PROVE  /\ Sound(SayTheDrop(en)) /\ Steps(SayTheDrop(en), en) /\ SayTheDrop(en).status = en.status
         /\ SayTheDrop(en).dropSaid
         /\ Same(SayTheDrop(en), en, {"dropSaid", "lossAnnounced", "linkUp", "notices"})
  <1> DEFINE r == SayTheDrop(en)
  <1>1. Engine(en) /\ NoClose(en.notices)
    BY DEF Sound
  <1>2. /\ Engine(r) /\ NoClose(r.notices) /\ Owed(r) <= Owed(en) /\ r.dropSaid
        /\ Same(r, en, {"dropSaid", "lossAnnounced", "linkUp", "notices"})
        /\ en.dropSaid => r = en
        /\ ~en.dropSaid => r.lossAnnounced = TRUE /\ r.linkUp = FALSE
    BY <1>1, SayTheDropDoes
  <1> HIDE DEF r
  <1>3. \A f \in Fields \ {"dropSaid", "lossAnnounced", "linkUp", "notices"} : r[f] = en[f]
    BY <1>2 DEF Same
  <1>4. /\ r.closed = en.closed /\ r.halted = en.halted /\ r.running = en.running /\ r.ccpUp = en.ccpUp
        /\ r.sessionOver = en.sessionOver /\ r.told = en.told /\ r.logoutWritten = en.logoutWritten
        /\ r.open = en.open /\ r.finishing = en.finishing /\ r.status = en.status /\ r.farmUp = en.farmUp
        /\ r.admissionClosed = en.admissionClosed /\ r.over = en.over
    BY <1>3, FieldNames
  <1>5. \A f \in Kept : r[f] = en[f]
    BY <1>3, FieldNames DEF Kept
  <1>6. Moves(r, en)
    BY <1>4, MovesNone
  <1>7. /\ r.dropSaid => ~r.ccpUp /\ r.lossAnnounced
        /\ r.running => r.sessionOver = "none" /\ (r.lossAnnounced <=> ~r.linkUp)
    <2>1. CASE en.dropSaid
      BY <1>2, <2>1 DEF Sound
    <2>2. CASE ~en.dropSaid
      BY <1>2, <1>4, <2>2 DEF Sound
    <2> QED
      BY <2>1, <2>2
  <1>8. Sound(r)
    BY <1>2, <1>4, <1>7 DEF Sound, Idle, AtRest, HeldToRecover
  <1>9. Spare(r) = Spare(en)
    BY <1>4 DEF Spare
  <1>10. Steps(r, en)
    BY <1>2, <1>4, <1>5, <1>6, <1>9 DEF Steps
  <1> QED
    BY <1>2, <1>4, <1>8, <1>10 DEF r

Told == {"dropSaid", "lossAnnounced", "linkUp", "notices", "status", "answered"}

(* The trading connection went: its loss is said, and once. *)
LEMMA WentDoes ==
  ASSUME NEW en, Sound(en), ~en.ccpUp
  PROVE  /\ Sound(TheTradingConnectionWent(en)) /\ Steps(TheTradingConnectionWent(en), en)
         /\ NoneSent(TheTradingConnectionWent(en), en) /\ TheTradingConnectionWent(en).dropSaid
         /\ Same(TheTradingConnectionWent(en), en, Told)
  <1> DEFINE s == SayTheDrop(en)
             r == HoldWhatWaitsToBePlaced(s, TRUE)
  <1>1. CASE en.dropSaid
    <2>1. TheTradingConnectionWent(en) = en
      BY <1>1 DEF TheTradingConnectionWent
    <2> QED
      BY <1>1, <2>1, StepsNone, SameIs DEF Sound, NoneSent
  <1>2. CASE ~en.dropSaid
    <2>1. TheTradingConnectionWent(en) = r
      BY <1>2 DEF TheTradingConnectionWent
    <2>2. /\ Sound(s) /\ Steps(s, en) /\ s.status = en.status /\ s.dropSaid
          /\ Same(s, en, {"dropSaid", "lossAnnounced", "linkUp", "notices"})
      BY DropIsSaid
    <2> HIDE DEF s
    <2>3. Sound(r) /\ Steps(r, s) /\ Same(r, s, {"status", "answered"}) /\ NoneSent(r, s)
      BY <2>2, HoldDoes
    <2> HIDE DEF r
    <2>4. Steps(r, en)
      BY <2>2, <2>3, StepsTwice DEF Sound
    <2>5. NoneSent(r, en)
      BY <2>2, <2>3 DEF NoneSent
    <2>6. Same(r, en, Told)
      BY <2>2, <2>3 DEF Same, Told
    <2>7. r.dropSaid
      BY <2>2, <2>3, FieldNames DEF Same
    <2> QED
      BY <2>1, <2>3, <2>4, <2>5, <2>6, <2>7
  <1> QED
    BY <1>1, <1>2

(* A socket an attempt let go is a connection that went. *)
LEMMA LetGoIsSaid ==
  ASSUME NEW en, Sound(en), ~en.ccpUp, NEW gone \in BOOLEAN
  PROVE  /\ Sound(SayWhatTheAttemptLetGo(en, gone)) /\ Steps(SayWhatTheAttemptLetGo(en, gone), en)
         /\ NoneSent(SayWhatTheAttemptLetGo(en, gone), en)
         /\ Same(SayWhatTheAttemptLetGo(en, gone), en, Told \cup {"gone"})
  <1> DEFINE s == [en EXCEPT !.dropSaid = FALSE, !.gone = en.gone + 1]
             r == TheTradingConnectionWent(s)
  <1>0. Engine(en) /\ en.gone \in Nat /\ en.drops \in Nat /\ LossesSaid(en.notices) \in Nat
    BY Typed, Figures DEF Sound
  <1>1. CASE ~gone
    <2>1. SayWhatTheAttemptLetGo(en, gone) = en
      BY <1>1 DEF SayWhatTheAttemptLetGo
    <2> QED
      BY <1>0, <2>1, StepsNone, SameIs DEF NoneSent
  <1>2. CASE gone
    <2>1. SayWhatTheAttemptLetGo(en, gone) = r
      BY <1>2 DEF SayWhatTheAttemptLetGo
    <2>2. /\ Engine(s) /\ Same(s, en, {"dropSaid", "gone"}) /\ s.dropSaid = FALSE /\ s.gone = en.gone + 1
      <3>1. en.gone + 1 \in Nat
        BY <1>0
      <3> QED
        BY <1>0, <3>1, FieldNames, FieldTypes DEF Engine, Same
    <2> HIDE DEF s
    <2>3. \A f \in Fields \ {"dropSaid", "gone"} : s[f] = en[f]
      BY <2>2 DEF Same
    <2>4. /\ s.closed = en.closed /\ s.notices = en.notices /\ s.halted = en.halted
          /\ s.running = en.running /\ s.ccpUp = en.ccpUp
          /\ s.lossAnnounced = en.lossAnnounced /\ s.sessionOver = en.sessionOver
          /\ s.linkUp = en.linkUp /\ s.told = en.told /\ s.logoutWritten = en.logoutWritten
          /\ s.drops = en.drops /\ s.open = en.open /\ s.finishing = en.finishing
          /\ s.status = en.status /\ s.farmUp = en.farmUp /\ s.admissionClosed = en.admissionClosed
          /\ s.over = en.over
      BY <2>3, FieldNames
    <2>5. Sound(s)
      BY <2>2, <2>4 DEF Sound, Idle, AtRest, HeldToRecover
    <2>6. Steps(s, en)
      <3>1. \A f \in Kept : s[f] = en[f]
        BY <2>3, FieldNames DEF Kept
      <3>2. Moves(s, en)
        BY <2>4, MovesNone
      <3>3. Spare(s) = Spare(en)
        BY <2>4 DEF Spare
      <3>4. Owed(s) = LossesSaid(en.notices) + 1 - (en.drops + (en.gone + 1))
        BY <2>2, <2>4 DEF Owed
      <3>5. Owed(en) >= LossesSaid(en.notices) - (en.drops + en.gone)
        BY <1>0 DEF Owed
      <3>6. Owed(s) <= Owed(en)
        BY <1>0, <3>4, <3>5, Figures
      <3> QED
        BY <2>4, <3>1, <3>2, <3>3, <3>6 DEF Steps
    <2>7. Sound(r) /\ Steps(r, s) /\ NoneSent(r, s) /\ Same(r, s, Told)
      BY <2>4, <2>5, WentDoes
    <2> HIDE DEF r
    <2>8. Steps(r, en)
      BY <2>5, <2>6, <2>7, StepsTwice DEF Sound
    <2>9. NoneSent(r, en)
      BY <2>4, <2>7 DEF NoneSent
    <2>10. Same(r, en, Told \cup {"gone"})
      BY <2>2, <2>7 DEF Same, Told
    <2> QED
      BY <2>1, <2>7, <2>8, <2>9, <2>10
  <1> QED
    BY <1>1, <1>2

LEMMA RestoredDoes ==
  ASSUME NEW en, Sound(en), en.ccpUp, en.lossAnnounced
  PROVE  LET r == SetConnectionRestored([en EXCEPT !.lossAnnounced = FALSE])
         IN  Sound(r) /\ Steps(r, en) /\ NoneSent(r, en) /\ Same(r, en, {"lossAnnounced", "linkUp", "notices"})
  <1> DEFINE n == IF en.linkUp THEN en.notices ELSE Append(en.notices, "restored")
             s == [en EXCEPT !.lossAnnounced = FALSE]
             r == [s EXCEPT !.linkUp = TRUE, !.notices = n]
  <1>0. Engine(en) /\ en.notices \in Seq(Notices) /\ "restored" \in Notices /\ LossesSaid(en.notices) \in Nat
    BY Typed, Figures DEF Sound, Notices
  <1>1. n \in Seq(Notices)
    BY <1>0
  <1>2. NoClose(n)
    BY <1>0 DEF NoClose, Sound
  <1>3. LossesSaid(n) = LossesSaid(en.notices)
    <2>1. CountOf(Append(en.notices, "restored"), "lost") = CountOf(en.notices, "lost") + 0
      BY <1>0, CountAppended
    <2> QED
      BY <1>0, <2>1 DEF LossesSaid
  <1>4. Engine(s) /\ Same(s, en, {"lossAnnounced"}) /\ s.lossAnnounced = FALSE
    BY <1>0, FieldNames, FieldTypes DEF Engine, Same
  <1> HIDE DEF s
  <1>5. s.linkUp = en.linkUp /\ s.notices = en.notices
    BY <1>4, FieldNames DEF Same
  <1>6. SetConnectionRestored(s) = r
    BY <1>5 DEF SetConnectionRestored
  <1> HIDE DEF n
  <1>7. Engine(r) /\ Same(r, s, {"linkUp", "notices"}) /\ r.linkUp = TRUE /\ r.notices = n
    BY <1>1, <1>4, FieldNames, FieldTypes DEF Engine, Same
  <1> HIDE DEF r
  <1>8. Same(r, en, {"lossAnnounced", "linkUp", "notices"}) /\ r.lossAnnounced = FALSE
    BY <1>4, <1>7, FieldNames DEF Same
  <1>9. \A f \in Fields \ {"lossAnnounced", "linkUp", "notices"} : r[f] = en[f]
    BY <1>8 DEF Same
  <1>10. /\ r.closed = en.closed /\ r.halted = en.halted /\ r.running = en.running /\ r.ccpUp = en.ccpUp
         /\ r.sessionOver = en.sessionOver /\ r.told = en.told /\ r.logoutWritten = en.logoutWritten
         /\ r.open = en.open /\ r.finishing = en.finishing /\ r.status = en.status /\ r.farmUp = en.farmUp
         /\ r.admissionClosed = en.admissionClosed /\ r.dropSaid = en.dropSaid
         /\ r.drops = en.drops /\ r.gone = en.gone /\ r.over = en.over
    BY <1>9, FieldNames
  <1>11. \A f \in Kept : r[f] = en[f]
    BY <1>9, FieldNames DEF Kept
  <1>12. Sound(r)
    BY <1>2, <1>7, <1>8, <1>10 DEF Sound, Idle, AtRest, HeldToRecover
  <1>13. Owed(r) = Owed(en) /\ Spare(r) = Spare(en)
    BY <1>3, <1>7, <1>10 DEF Owed, Spare
  <1>14. Owed(r) <= Owed(en)
    BY <1>0, <1>13, Figures
  <1>15. Moves(r, en) /\ NoneSent(r, en)
    BY <1>10, MovesNone DEF NoneSent
  <1>16. Steps(r, en)
    BY <1>10, <1>11, <1>13, <1>14, <1>15 DEF Steps
  <1> QED
    BY <1>6, <1>8, <1>12, <1>15, <1>16 DEF s

-----------------------------------------------------------------------------
(* The drops, the stop and the goodbye. *)

LEMMA DisconnectDoes ==
  ASSUME NEW en, Sound(en)
  PROVE  /\ Sound(HandleDisconnect(en)) /\ Spare(HandleDisconnect(en)) = Spare(en)
         /\ Owed(HandleDisconnect(en)) <= Owed(en) + 1
         /\ ~HandleDisconnect(en).ccpUp /\ HandleDisconnect(en).status = en.status
         /\ Same(HandleDisconnect(en), en, {"ccpUp", "settling", "over", "open", "answered"})
  <1> DEFINE n == IF en.ccpUp /\ ~en.told THEN en.open - 1 ELSE en.open
             a == en.answered \cup (In(en, "waiting") \cap Placements)
             r == [en EXCEPT !.ccpUp = FALSE, !.settling = FALSE, !.over = FALSE, !.open = n, !.answered = a]
  <1>0. /\ Engine(en) /\ en.open \in Int /\ en.answered \in SUBSET Orders /\ en.drops \in Nat
        /\ en.gone \in Nat /\ LossesSaid(en.notices) \in Nat
    BY Typed, Figures DEF Sound
  <1>1. n \in Int
    BY <1>0
  <1>2. a \in SUBSET Orders
    BY <1>0 DEF In
  <1>3. HandleDisconnect(en) = r
    BY DEF HandleDisconnect
  <1> HIDE DEF a, n
  <1>4. /\ Engine(r) /\ Same(r, en, {"ccpUp", "settling", "over", "open", "answered"})
        /\ r.ccpUp = FALSE /\ r.over = FALSE /\ r.open = n
    BY <1>0, <1>1, <1>2, FieldNames, FieldTypes DEF Engine, Same
  <1> HIDE DEF r
  <1>5. \A f \in Fields \ {"ccpUp", "settling", "over", "open", "answered"} : r[f] = en[f]
    BY <1>4 DEF Same
  <1>6. /\ r.closed = en.closed /\ r.notices = en.notices /\ r.halted = en.halted
        /\ r.running = en.running /\ r.dropSaid = en.dropSaid
        /\ r.lossAnnounced = en.lossAnnounced /\ r.sessionOver = en.sessionOver
        /\ r.linkUp = en.linkUp /\ r.told = en.told /\ r.logoutWritten = en.logoutWritten
        /\ r.drops = en.drops /\ r.gone = en.gone /\ r.finishing = en.finishing
        /\ r.status = en.status
    BY <1>5, FieldNames
  <1>7. Sound(r)
    BY <1>4, <1>6 DEF Sound, Idle, AtRest, HeldToRecover
  <1>8. Spare(r) = Spare(en)
    BY <1>0, <1>4 DEF Spare, n
  <1>9. Owed(r) <= Owed(en) + 1
    BY <1>0, <1>6 DEF Owed
  <1> QED
    BY <1>3, <1>4, <1>6, <1>7, <1>8, <1>9

LEMMA FarmDisconnectDoes ==
  ASSUME NEW en, Sound(en)
  PROVE  /\ Sound(HandleFarmDisconnect(en)) /\ Steps(HandleFarmDisconnect(en), en)
         /\ NoneSent(HandleFarmDisconnect(en), en) /\ Same(HandleFarmDisconnect(en), en, {"farmUp"})
  <1> DEFINE r == [en EXCEPT !.farmUp = FALSE]
  <1>1. Engine(r) /\ Same(r, en, {"farmUp"}) /\ r.farmUp = FALSE
    BY FieldNames, FieldTypes DEF Engine, Same, Sound
  <1>2. HandleFarmDisconnect(en) = r
    BY DEF HandleFarmDisconnect
  <1> HIDE DEF r
  <1>3. Same(r, en, Minor) /\ r.admissionClosed = en.admissionClosed
    BY <1>1, FieldNames DEF Same, Minor
  <1> QED
    BY <1>1, <1>2, <1>3, MinorDoes

LEMMA CancelDoes ==
  ASSUME NEW en, Sound(en)
  PROVE  /\ Sound(CancelRecovery(en)) /\ Steps(CancelRecovery(en), en)
         /\ NoneSent(CancelRecovery(en), en) /\ Same(CancelRecovery(en), en, {"cancel"})
  <1> DEFINE r == [en EXCEPT !.cancel = TRUE]
  <1>1. Engine(r) /\ Same(r, en, {"cancel"})
    BY FieldNames, FieldTypes DEF Engine, Same, Sound
  <1>2. CancelRecovery(en) = r
    BY DEF CancelRecovery
  <1> HIDE DEF r
  <1>3. Same(r, en, Minor) /\ r.admissionClosed = en.admissionClosed /\ r.farmUp = en.farmUp
    BY <1>1, FieldNames DEF Same, Minor
  <1> QED
    BY <1>1, <1>2, <1>3, MinorDoes

(* Nothing is sent but what is built and has a connection. *)
OnlyBuiltSent(r, en) ==
  \A o \in Orders : r.status[o] = "sent" => en.status[o] = "sent" \/ (en.ccpUp /\ en.status[o] = "built")

Stopping == {"cancel", "status", "running", "sessionOver", "linkUp", "notices"}

LEMMA StopDoes ==
  ASSUME NEW en, Sound(en), en.running, en.finishing = "none"
  PROVE  /\ Sound(Stop(en)) /\ Steps(Stop(en), en) /\ ~Stop(en).running
         /\ OnlyBuiltSent(Stop(en), en) /\ Same(Stop(en), en, Stopping)
  <1> DEFINE c == CancelRecovery(en)
             sent == DrainAndSendOrders(c)
             refused == RefuseWhatIsLeft(RefuseHeldOrderCommands(sent))
             ended == [refused EXCEPT !.running = FALSE, !.sessionOver = "ByDesign"]
             r == SetConnectionLost(ended)
  <1>1. Sound(c) /\ Steps(c, en) /\ NoneSent(c, en) /\ Same(c, en, {"cancel"})
    BY CancelDoes
  <1> HIDE DEF c
  <1>2. c.status = en.status /\ c.ccpUp = en.ccpUp
    BY <1>1, FieldNames DEF Same
  <1>3. /\ Sound(sent) /\ Steps(sent, c) /\ Same(sent, c, {"status"})
        /\ \A o \in Orders : sent.status[o] = c.status[o] \/ (c.ccpUp /\ c.status[o] = "built")
    BY <1>1, DrainDoes
  <1> HIDE DEF sent
  <1>4. /\ Engine(refused) /\ Same(refused, sent, {"status"}) /\ Idle(refused)
        /\ Moves(refused, sent) /\ NoneSent(refused, sent)
    BY <1>3, AllRefused DEF Sound
  <1> HIDE DEF refused
  <1>5. Sound(refused) /\ Steps(refused, sent)
    BY <1>3, <1>4, Movement DEF Same
  <1>6. Engine(c) /\ Engine(sent) /\ Engine(refused) /\ Engine(en)
    BY <1>1, <1>3, <1>4 DEF Sound
  <1>7. Steps(refused, en)
    <2>1. Steps(sent, en)
      BY <1>1, <1>3, <1>6, StepsTwice
    <2> QED
      BY <1>5, <1>6, <2>1, StepsTwice
  <1>8. Same(refused, en, {"cancel", "status"})
    BY <1>1, <1>3, <1>4 DEF Same
  <1>9. Idle(refused)
    BY <1>4
  <1>10. /\ Engine(ended) /\ Same(ended, refused, {"running", "sessionOver"})
         /\ ended.running = FALSE /\ ended.sessionOver = "ByDesign"
    <2>1. "ByDesign" \in Ends
      BY DEF Ends, Reasons
    <2> QED
      BY <1>6, <2>1, FieldNames, FieldTypes DEF Engine, Same
  <1>11. refused.sessionOver = "none"
    <2>1. refused.sessionOver = en.sessionOver
      BY <1>8, FieldNames DEF Same
    <2> QED
      BY <2>1 DEF Sound
  <1>12. Stop(en) = r
    <2>1. SetSessionOver([refused EXCEPT !.running = FALSE], "ByDesign") = ended
      <3>1. [refused EXCEPT !.running = FALSE].sessionOver = "none"
        BY <1>6, <1>11, FieldNames DEF Engine
      <3> QED
        BY <3>1 DEF SetSessionOver
    <2> QED
      BY <2>1 DEF Stop, c, sent, refused
  <1> HIDE DEF ended
  <1>13. ended.notices = refused.notices /\ NoClose(refused.notices)
    BY <1>5, <1>10, FieldNames DEF Same, Sound
  <1>14. /\ Engine(r) /\ Same(r, ended, {"linkUp", "notices"}) /\ r.linkUp = FALSE /\ NoClose(r.notices)
         /\ LossesSaid(r.notices) = LossesSaid(ended.notices)
    BY <1>10, <1>13, LostDoes
  <1> HIDE DEF r
  <1>15. Same(r, en, Stopping)
    BY <1>8, <1>10, <1>14 DEF Same, Stopping
  <1>16. \A f \in Fields \ {"running", "sessionOver", "linkUp", "notices"} : r[f] = refused[f]
    BY <1>10, <1>14 DEF Same
  <1>17. /\ r.closed = refused.closed /\ r.halted = refused.halted /\ r.ccpUp = refused.ccpUp
         /\ r.told = refused.told /\ r.logoutWritten = refused.logoutWritten
         /\ r.open = refused.open /\ r.finishing = refused.finishing /\ r.status = refused.status
         /\ r.farmUp = refused.farmUp /\ r.admissionClosed = refused.admissionClosed
         /\ r.dropSaid = refused.dropSaid /\ r.lossAnnounced = refused.lossAnnounced
         /\ r.drops = refused.drops /\ r.gone = refused.gone /\ r.over = refused.over
    BY <1>16, FieldNames
  <1>18. r.running = FALSE /\ r.finishing = "none"
    BY <1>10, <1>14, <1>15, FieldNames DEF Same, Stopping
  <1>19. Sound(r)
    BY <1>5, <1>9, <1>14, <1>17, <1>18 DEF Sound, Idle, AtRest, HeldToRecover
  <1>20. Owed(r) = Owed(refused) /\ Spare(r) = Spare(refused)
    BY <1>13, <1>14, <1>17 DEF Owed, Spare
  <1>21. Moves(r, refused)
    BY <1>17, MovesNone
  <1>22. \A f \in Kept : r[f] = refused[f]
    BY <1>16, FieldNames DEF Kept
  <1>23. Owed(r) <= Owed(refused)
    BY <1>6, <1>20, Figures
  <1>24. Steps(r, refused)
    BY <1>17, <1>18, <1>20, <1>21, <1>22, <1>23 DEF Steps
  <1>25. Steps(r, en)
    BY <1>6, <1>7, <1>14, <1>24, StepsTwice
  <1>26. OnlyBuiltSent(r, en)
    BY <1>2, <1>3, <1>4, <1>17 DEF OnlyBuiltSent, NoneSent
  <1> QED
    BY <1>12, <1>15, <1>18, <1>19, <1>25, <1>26

Finishing == Stopping \cup {"finishing", "told", "logoutSent", "open", "logoutWritten"}

LEMMA BeginFinishingDoes ==
  ASSUME NEW en, Sound(en), en.running, NEW stop \in BOOLEAN
  PROVE  /\ Sound(BeginFinishing(en, stop)) /\ Steps(BeginFinishing(en, stop), en)
         /\ OnlyBuiltSent(BeginFinishing(en, stop), en)
         /\ Same(BeginFinishing(en, stop), en, Finishing)
         /\ BeginFinishing(en, stop).told = en.told
  <1>0. Engine(en) /\ en.logoutWritten \in BOOLEAN
    BY Typed DEF Sound
  <1>1. CASE en.logoutWritten /\ stop
    <2>1. BeginFinishing(en, stop) = Stop(en)
      BY <1>1 DEF BeginFinishing
    <2>2. en.finishing = "none"
      BY <1>1 DEF Sound
    <2>3. /\ Sound(Stop(en)) /\ Steps(Stop(en), en) /\ OnlyBuiltSent(Stop(en), en)
          /\ Same(Stop(en), en, Stopping)
      BY <2>2, StopDoes
    <2>4. Same(Stop(en), en, Finishing) /\ Stop(en).told = en.told
      BY <2>3, FieldNames DEF Same, Stopping, Finishing
    <2> QED
      BY <2>1, <2>3, <2>4
  <1>2. CASE en.logoutWritten /\ ~stop
    <2>1. BeginFinishing(en, stop) = en
      BY <1>2 DEF BeginFinishing
    <2> QED
      BY <1>0, <2>1, StepsNone, SameIs DEF OnlyBuiltSent
  <1>3. CASE ~en.logoutWritten
    <2> DEFINE s == CancelRecovery(en)
               x == IF stop \/ s.finishing = "stopping" THEN "stopping" ELSE "phase"
               r == [s EXCEPT !.finishing = x]
    <2>1. BeginFinishing(en, stop) = r
      BY <1>3 DEF BeginFinishing
    <2>2. Sound(s) /\ Steps(s, en) /\ NoneSent(s, en) /\ Same(s, en, {"cancel"})
      BY CancelDoes
    <2>3. x \in Phases
      BY DEF Phases
    <2> HIDE DEF s, x
    <2>4. Engine(r) /\ Same(r, s, {"finishing"})
      BY <2>2, <2>3, FieldNames, FieldTypes DEF Engine, Same, Sound
    <2> HIDE DEF r
    <2>5. \A f \in Fields \ {"finishing"} : r[f] = s[f]
      BY <2>4 DEF Same
    <2>6. /\ r.closed = s.closed /\ r.notices = s.notices /\ r.halted = s.halted
          /\ r.running = s.running /\ r.dropSaid = s.dropSaid /\ r.ccpUp = s.ccpUp
          /\ r.lossAnnounced = s.lossAnnounced /\ r.sessionOver = s.sessionOver
          /\ r.linkUp = s.linkUp /\ r.told = s.told /\ r.logoutWritten = s.logoutWritten
          /\ r.drops = s.drops /\ r.gone = s.gone /\ r.open = s.open /\ r.status = s.status
          /\ r.farmUp = s.farmUp /\ r.admissionClosed = s.admissionClosed /\ r.over = s.over
      BY <2>5, FieldNames
    <2>7. s.running = en.running /\ s.logoutWritten = en.logoutWritten /\ s.told = en.told
      BY <2>2, FieldNames DEF Same
    <2>8. Sound(r)
      BY <1>3, <2>2, <2>4, <2>6, <2>7 DEF Sound, Idle, AtRest, HeldToRecover
    <2>9. Owed(r) = Owed(s) /\ Spare(r) = Spare(s) /\ Moves(r, s)
      BY <2>6, MovesNone DEF Owed, Spare
    <2>10. \A f \in Kept : r[f] = s[f]
      BY <2>5, FieldNames DEF Kept
    <2>11. Owed(r) <= Owed(s)
      BY <2>2, <2>9, Figures DEF Sound
    <2>12. Steps(r, s)
      BY <2>6, <2>9, <2>10, <2>11 DEF Steps
    <2>13. Steps(r, en)
      BY <1>0, <2>2, <2>4, <2>12, StepsTwice DEF Sound
    <2>14. Same(r, en, Finishing) /\ OnlyBuiltSent(r, en)
      BY <2>2, <2>4, <2>6 DEF Same, Stopping, Finishing, OnlyBuiltSent, NoneSent
    <2> QED
      BY <2>1, <2>6, <2>7, <2>8, <2>13, <2>14
  <1> QED
    BY <1>0, <1>1, <1>2, <1>3

(* The goodbye, once the orders are done. *)
LEMMA GoodbyeDoes ==
  ASSUME NEW en, Sound(en), ~OrdersNotDone(en)
  PROVE  LET r == [SendLogout(en) EXCEPT !.finishing = "none", !.logoutWritten = TRUE]
         IN  /\ Sound(r) /\ Steps(r, en) /\ r.status = en.status /\ r.running = en.running
             /\ r.finishing = "none" /\ r.ccpUp = en.ccpUp /\ (r.ccpUp => r.told) /\ (en.told => r.told)
             /\ Same(r, en, {"finishing", "told", "logoutSent", "open", "logoutWritten"})
  <1> DEFINE n == IF en.told THEN en.open ELSE en.open - 1
             u == IF en.ccpUp THEN [en EXCEPT !.told = TRUE, !.logoutSent = TRUE, !.open = n] ELSE en
             r == [u EXCEPT !.finishing = "none", !.logoutWritten = TRUE]
  <1>0. /\ Engine(en) /\ en.open \in Int /\ en.told \in BOOLEAN /\ en.ccpUp \in BOOLEAN
        /\ en.status \in [Orders -> Statuses]
    BY Typed DEF Sound
  <1>1. SendLogout(en) = u
    BY DEF SendLogout
  <1>2. n \in Int
    BY <1>0
  <1> HIDE DEF n
  <1>3. /\ Engine(u) /\ Same(u, en, {"told", "logoutSent", "open"})
        /\ u.told = (en.told \/ en.ccpUp) /\ u.open = IF en.ccpUp THEN n ELSE en.open
    <2>1. CASE en.ccpUp
      BY <1>0, <1>2, <2>1, FieldNames, FieldTypes DEF Engine, Same
    <2>2. CASE ~en.ccpUp
      BY <1>0, <2>2, SameIs
    <2> QED
      BY <2>1, <2>2
  <1> HIDE DEF u
  <1>4. /\ Engine(r) /\ Same(r, u, {"finishing", "logoutWritten"})
        /\ r.finishing = "none" /\ r.logoutWritten = TRUE
    <2>1. "none" \in Phases
      BY DEF Phases
    <2> QED
      BY <1>3, <2>1, FieldNames, FieldTypes DEF Engine, Same
  <1> HIDE DEF r
  <1>5. Same(r, en, {"finishing", "told", "logoutSent", "open", "logoutWritten"})
    BY <1>3, <1>4 DEF Same
  <1>6. r.told = (en.told \/ en.ccpUp) /\ r.open = IF en.ccpUp THEN n ELSE en.open
    BY <1>3, <1>4, FieldNames DEF Same
  <1>7. \A f \in Fields \ {"finishing", "told", "logoutSent", "open", "logoutWritten"} : r[f] = en[f]
    BY <1>5 DEF Same
  <1>8. /\ r.closed = en.closed /\ r.notices = en.notices /\ r.halted = en.halted
        /\ r.running = en.running /\ r.dropSaid = en.dropSaid /\ r.ccpUp = en.ccpUp
        /\ r.lossAnnounced = en.lossAnnounced /\ r.sessionOver = en.sessionOver
        /\ r.linkUp = en.linkUp /\ r.drops = en.drops /\ r.gone = en.gone /\ r.status = en.status
        /\ r.farmUp = en.farmUp /\ r.admissionClosed = en.admissionClosed /\ r.over = en.over
    BY <1>7, FieldNames
  <1>9. en.ccpUp => AtRest(en)
    BY <1>0 DEF OrdersNotDone, In, AtRest, Awaits
  <1>10. (Idle(r) <=> Idle(en)) /\ (AtRest(r) <=> AtRest(en))
    BY <1>8 DEF Idle, AtRest
  <1>11. r.told => r.logoutWritten /\ AtRest(r)
    BY <1>0, <1>4, <1>6, <1>9, <1>10 DEF Sound
  <1>12. Sound(r)
    BY <1>4, <1>8, <1>10, <1>11 DEF Sound, HeldToRecover
  <1>13. Spare(r) = Spare(en)
    BY <1>0, <1>6, <1>8 DEF Spare, n
  <1>14. Owed(r) = Owed(en) /\ Moves(r, en)
    BY <1>8, MovesNone DEF Owed
  <1>15. Owed(r) <= Owed(en)
    BY <1>0, <1>14, Figures
  <1>16. \A f \in Kept : r[f] = en[f]
    BY <1>7, FieldNames DEF Kept
  <1>17. Steps(r, en)
    BY <1>8, <1>13, <1>14, <1>15, <1>16 DEF Steps
  <1> QED
    BY <1>0, <1>1, <1>4, <1>5, <1>6, <1>8, <1>12, <1>17 DEF r

LEMMA FinishDoes ==
  ASSUME NEW en, Sound(en)
  PROVE  /\ Sound(FinishWhenTheOrdersAreDone(en)) /\ Steps(FinishWhenTheOrdersAreDone(en), en)
         /\ OnlyBuiltSent(FinishWhenTheOrdersAreDone(en), en)
         /\ Same(FinishWhenTheOrdersAreDone(en), en, Finishing)
         /\ NoneSent(FinishWhenTheOrdersAreDone(en), en)
  <1> DEFINE g == [SendLogout(en) EXCEPT !.finishing = "none", !.logoutWritten = TRUE]
  <1>0. Engine(en) /\ en.finishing \in Phases /\ en.told \in BOOLEAN /\ en.ccpUp \in BOOLEAN
    BY Typed DEF Sound
  <1>1. CASE en.finishing = "none" \/ OrdersNotDone(en)
    <2>1. FinishWhenTheOrdersAreDone(en) = en
      BY <1>1 DEF FinishWhenTheOrdersAreDone
    <2> QED
      BY <1>0, <2>1, StepsNone, SameIs DEF OnlyBuiltSent, NoneSent
  <1>2. CASE en.finishing # "none" /\ ~OrdersNotDone(en)
    <2>1. /\ Sound(g) /\ Steps(g, en) /\ g.status = en.status /\ g.running = en.running
          /\ g.finishing = "none" /\ g.ccpUp = en.ccpUp /\ (g.ccpUp => g.told) /\ (en.told => g.told)
          /\ Same(g, en, {"finishing", "told", "logoutSent", "open", "logoutWritten"})
      BY <1>2, GoodbyeDoes
    <2>2. en.running
      BY <1>2 DEF Sound
    <2>3. CASE en.finishing = "stopping"
      <3>1. FinishWhenTheOrdersAreDone(en) = Stop(g)
        BY <1>2, <2>3 DEF FinishWhenTheOrdersAreDone
      <3> HIDE DEF g
      <3>2. /\ Sound(Stop(g)) /\ Steps(Stop(g), g) /\ OnlyBuiltSent(Stop(g), g)
            /\ Same(Stop(g), g, Stopping)
        BY <2>1, <2>2, StopDoes
      <3>3. Steps(Stop(g), en)
        BY <1>0, <2>1, <3>2, StepsTwice DEF Sound
      <3>4. Same(Stop(g), en, Finishing)
        BY <2>1, <3>2 DEF Same, Finishing
      <3>5. OnlyBuiltSent(Stop(g), en)
        BY <2>1, <3>2 DEF OnlyBuiltSent
      <3>6. NoneSent(Stop(g), en)
        BY <1>2, <3>5 DEF OnlyBuiltSent, NoneSent, OrdersNotDone, In
      <3> QED
        BY <3>1, <3>2, <3>3, <3>4, <3>5, <3>6
    <2>4. CASE en.finishing # "stopping"
      <3>1. FinishWhenTheOrdersAreDone(en) = g
        BY <1>2, <2>4 DEF FinishWhenTheOrdersAreDone
      <3> HIDE DEF g
      <3>2. Same(g, en, Finishing) /\ NoneSent(g, en) /\ OnlyBuiltSent(g, en)
        BY <2>1 DEF Same, Finishing, NoneSent, OnlyBuiltSent
      <3> QED
        BY <2>1, <3>1, <3>2
    <2> QED
      BY <2>3, <2>4
  <1> QED
    BY <1>1, <1>2

-----------------------------------------------------------------------------
(* The ends of recovery. *)

Halting == {"halted", "tradingOver", "sessionOver", "dropSaid", "lossAnnounced", "linkUp", "notices", "status",
            "cancel", "admissionClosed", "farmPending", "finishing", "running"}

LEMMA HaltDoes ==
  ASSUME NEW en, Sound(en), ~en.ccpUp, NEW why \in Reasons
  PROVE  /\ Sound(HaltRecovery(en, why)) /\ Steps(HaltRecovery(en, why), en)
         /\ NoneSent(HaltRecovery(en, why), en) /\ Same(HaltRecovery(en, why), en, Halting)
         /\ ~HaltRecovery(en, why).running /\ HaltRecovery(en, why).halted # "none"
  <1>0. Engine(en) /\ en.halted \in Ends /\ NoClose(en.notices)
    BY Typed DEF Sound
  <1>1. CASE en.halted # "none"
    <2> DEFINE s == [en EXCEPT !.admissionClosed = TRUE]
               r == [s EXCEPT !.cancel = TRUE]
    <2>1. HaltRecovery(en, why) = r
      BY <1>1 DEF HaltRecovery, CancelRecovery
    <2>2. Engine(r) /\ Same(r, en, {"cancel", "admissionClosed"}) /\ r.admissionClosed = TRUE
      BY <1>0, FieldNames, FieldTypes DEF Engine, Same
    <2> HIDE DEF r
    <2>3. /\ Same(r, en, Minor) /\ Same(r, en, Halting) /\ r.farmUp = en.farmUp
          /\ r.running = en.running /\ r.halted = en.halted
      BY <2>2, FieldNames DEF Same, Minor, Halting
    <2>4. Sound(r) /\ Steps(r, en) /\ NoneSent(r, en)
      BY <2>2, <2>3, MinorDoes
    <2> QED
      BY <1>1, <2>1, <2>3, <2>4 DEF Sound
  <1>2. CASE en.halted = "none"
    <2> DEFINE h == [en EXCEPT !.halted = why, !.tradingOver = en.tradingOver \/ ~en.ccpUp]
               over == [h EXCEPT !.sessionOver = IF h.sessionOver = "none" THEN why ELSE h.sessionOver]
               said == IF en.lossAnnounced THEN over ELSE SayTheDrop(over)
               refused == RefuseWhatIsLeft(RefuseHeldOrderCommands(said))
               r == [[refused EXCEPT !.cancel = TRUE] EXCEPT !.admissionClosed = TRUE, !.farmPending = FALSE,
                                           !.finishing = "none", !.running = FALSE]
    <2>1. HaltRecovery(en, why) = r
      BY <1>2 DEF HaltRecovery, CancelRecovery, SetSessionOver
    <2>2. why \in Ends /\ why # "none" /\ "none" \in Phases
      BY DEF Ends, Reasons, Phases
    <2>3. Engine(h) /\ Same(h, en, {"halted", "tradingOver"}) /\ h.halted = why
      BY <1>0, <2>2, FieldNames, FieldTypes DEF Engine, Same
    <2> HIDE DEF h
    <2>4. Engine(over) /\ Same(over, en, {"halted", "tradingOver", "sessionOver"}) /\ over.halted = why
      <3> DEFINE x == IF h.sessionOver = "none" THEN why ELSE h.sessionOver
      <3>1. x \in Ends
        BY <2>2, <2>3, Typed
      <3> HIDE DEF x
      <3>2. /\ Engine([h EXCEPT !.sessionOver = x]) /\ Same([h EXCEPT !.sessionOver = x], h, {"sessionOver"})
        BY <2>3, <3>1, FieldNames, FieldTypes DEF Engine, Same
      <3>3. over = [h EXCEPT !.sessionOver = x]
        BY DEF x
      <3> QED
        BY <2>3, <3>2, <3>3, FieldNames DEF Same
    <2> HIDE DEF over
    <2>5. /\ over.notices = en.notices /\ over.ccpUp = en.ccpUp /\ over.dropSaid = en.dropSaid
          /\ over.drops = en.drops /\ over.gone = en.gone /\ over.lossAnnounced = en.lossAnnounced
      BY <2>4, FieldNames DEF Same
    <2>6. /\ Engine(said) /\ NoClose(said.notices) /\ Owed(said) <= Owed(en)
          /\ Same(said, en, {"halted", "tradingOver", "sessionOver", "dropSaid", "lossAnnounced", "linkUp", "notices"})
          /\ said.lossAnnounced /\ said.halted = why
      <3>1. CASE en.lossAnnounced
        <4>1. said = over
          BY <3>1
        <4>2. Owed(over) = Owed(en)
          BY <2>5 DEF Owed
        <4>3. Owed(over) <= Owed(en)
          BY <1>0, <4>2, Figures
        <4> HIDE DEF said
        <4> QED
          BY <1>0, <2>4, <2>5, <3>1, <4>1, <4>3 DEF Same
      <3>2. CASE ~en.lossAnnounced
        <4>1. said = SayTheDrop(over) /\ ~over.dropSaid
          BY <2>5, <3>2 DEF Sound
        <4> HIDE DEF said
        <4>5. NoClose(over.notices) /\ ~over.ccpUp
          BY <1>0, <2>5
        <4>2. /\ Engine(said) /\ NoClose(said.notices) /\ Owed(said) <= Owed(over)
              /\ Same(said, over, {"dropSaid", "lossAnnounced", "linkUp", "notices"})
              /\ said.lossAnnounced = TRUE
          BY <2>4, <4>1, <4>5, SayTheDropDoes
        <4>3. Owed(over) = Owed(en)
          BY <2>5 DEF Owed
        <4>4. said.halted = why
          BY <2>4, <4>2, FieldNames DEF Same
        <4> QED
          BY <2>4, <4>2, <4>3, <4>4 DEF Same
      <3> QED
        BY <3>1, <3>2
    <2> HIDE DEF said
    <2>7. /\ Engine(refused) /\ Same(refused, said, {"status"}) /\ Idle(refused) /\ Moves(refused, said)
          /\ NoneSent(refused, said)
      BY <2>6, AllRefused
    <2> HIDE DEF refused
    <2>8. /\ Engine(r) /\ Same(r, refused, {"cancel", "admissionClosed", "farmPending", "finishing", "running"})
          /\ r.admissionClosed = TRUE /\ r.finishing = "none" /\ r.running = FALSE
      BY <2>2, <2>7, FieldNames, FieldTypes DEF Engine, Same
    <2> HIDE DEF r
    <2>9. Same(r, en, Halting)
      BY <2>6, <2>7, <2>8 DEF Same, Halting
    <2>10. r.status = refused.status
      BY <2>8, FieldNames DEF Same
    <2>11. /\ r.notices = said.notices /\ r.dropSaid = said.dropSaid /\ r.lossAnnounced = said.lossAnnounced
           /\ r.halted = said.halted /\ r.ccpUp = said.ccpUp /\ r.drops = said.drops /\ r.gone = said.gone
      BY <2>7, <2>8, FieldNames DEF Same
    <2>12. /\ r.closed = en.closed /\ r.ccpUp = en.ccpUp /\ r.told = en.told /\ r.logoutWritten = en.logoutWritten
           /\ r.open = en.open /\ r.farmUp = en.farmUp /\ r.over = en.over
      BY <2>9, FieldNames DEF Same, Halting
    <2>13. \A f \in Kept : r[f] = en[f]
      BY <2>9, FieldNames DEF Same, Halting, Kept
    <2>14. said.status = en.status
      BY <2>6, FieldNames DEF Same
    <2>15. Moves(r, en) /\ NoneSent(r, en) /\ Idle(r)
      BY <2>7, <2>10, <2>14 DEF Moves, NoneSent, Idle
    <2>16. Sound(r)
      <3>1. HeldToRecover(r) /\ AtRest(r)
        BY <2>15 DEF Idle, AtRest, Awaits, HeldToRecover, InHand
      <3> QED
        BY <2>6, <2>8, <2>11, <2>12, <2>15, <3>1 DEF Sound
    <2>17. Owed(r) <= Owed(en) /\ Spare(r) = Spare(en)
      BY <2>6, <2>11, <2>12 DEF Owed, Spare
    <2>18. Steps(r, en)
      BY <1>2, <2>8, <2>12, <2>13, <2>15, <2>17 DEF Steps
    <2> QED
      BY <2>1, <2>2, <2>6, <2>8, <2>9, <2>11, <2>15, <2>16, <2>18
  <1> QED
    BY <1>1, <1>2

LEMMA FarmIsOverDoes ==
  ASSUME NEW en, Sound(en)
  PROVE  /\ Sound(FarmIsOver(en)) /\ Steps(FarmIsOver(en), en) /\ NoneSent(FarmIsOver(en), en)
         /\ Same(FarmIsOver(en), en, {"farmHalted", "farmPending"})
  <1> DEFINE r == [en EXCEPT !.farmHalted = TRUE, !.farmPending = FALSE]
  <1>1. Engine(r) /\ Same(r, en, {"farmHalted", "farmPending"})
    BY FieldNames, FieldTypes DEF Engine, Same, Sound
  <1>2. FarmIsOver(en) = r
    BY DEF FarmIsOver
  <1> HIDE DEF r
  <1>3. Same(r, en, Minor) /\ r.admissionClosed = en.admissionClosed /\ r.farmUp = en.farmUp
    BY <1>1, FieldNames DEF Same, Minor
  <1> QED
    BY <1>1, <1>2, <1>3, MinorDoes

(* Recovery past its deadline ends on its own clock. *)
LEMMA AbandonDoes ==
  ASSUME NEW en, Sound(en), trading.phase # "none" => ~en.ccpUp
  PROVE  LET r == AbandonRecoveryPastItsDeadline(en)
         IN  /\ Sound(r) /\ Steps(r, en) /\ NoneSent(r, en) /\ Same(r, en, Halting \cup {"farmHalted"})
             /\ r.running = en.running \/ (~r.running /\ r.halted # "none")
             /\ r.finishing = en.finishing \/ ~r.running
  <1> DEFINE late == en.farmPending /\ en.farmBudget.late
             f == IF late THEN FarmIsOver(en) ELSE en
             r == AbandonRecoveryPastItsDeadline(en)
  <1>0. Engine(en)
    BY DEF Sound
  <1>1. Sound(f) /\ Steps(f, en) /\ NoneSent(f, en) /\ Same(f, en, {"farmHalted", "farmPending"})
    <2>1. CASE late
      BY <2>1, FarmIsOverDoes
    <2>2. CASE ~late
      BY <1>0, <2>2, StepsNone, SameIs DEF NoneSent
    <2> QED
      BY <2>1, <2>2
  <1>2. \/ r = en
        \/ r = f
        \/ r = HaltRecovery(f, "RecoveryExhausted") /\ ~en.ccpUp
    BY DEF AbandonRecoveryPastItsDeadline
  <1> HIDE DEF f, r
  <1>3. f.ccpUp = en.ccpUp /\ f.running = en.running /\ f.finishing = en.finishing
    BY <1>1, FieldNames DEF Same
  <1>4. CASE r = en
    BY <1>0, <1>4, StepsNone, SameIs DEF NoneSent, r
  <1>5. CASE r = f
    <2>1. Same(r, en, Halting \cup {"farmHalted"})
      BY <1>1, <1>5 DEF Same, Halting
    <2> QED
      BY <1>1, <1>3, <1>5, <2>1 DEF r
  <1>6. CASE r = HaltRecovery(f, "RecoveryExhausted") /\ ~en.ccpUp
    <2>1. /\ Sound(r) /\ Steps(r, f) /\ NoneSent(r, f) /\ Same(r, f, Halting)
          /\ ~r.running /\ r.halted # "none"
      <3>1. "RecoveryExhausted" \in Reasons
        BY DEF Reasons
      <3> QED
        BY <1>1, <1>3, <1>6, <3>1, HaltDoes
    <2>2. Steps(r, en)
      BY <1>0, <1>1, <2>1, StepsTwice DEF Sound
    <2>3. NoneSent(r, en)
      BY <1>1, <2>1 DEF NoneSent
    <2>4. Same(r, en, Halting \cup {"farmHalted"})
      BY <1>1, <2>1 DEF Same, Halting
    <2> QED
      BY <2>1, <2>2, <2>3, <2>4 DEF r
  <1> QED
    BY <1>2, <1>4, <1>5, <1>6

-----------------------------------------------------------------------------
(* What recovery brings back. *)

\* A step that may install a connection, but not past the end.
Recovering(r, en) ==
  /\ Moves(r, en)
  /\ Owed(r) <= Owed(en)
  /\ \A f \in Kept : r[f] = en[f]
  /\ ~en.running => ~r.running
  /\ en.halted # "none" => r.halted # "none"
  /\ en.halted # "none" \/ ~en.running => (r.ccpUp => en.ccpUp) /\ (r.farmUp => en.farmUp)
  /\ en.admissionClosed => r.admissionClosed

LEMMA StepsRecover ==
  ASSUME NEW r, NEW en, Steps(r, en)
  PROVE  Recovering(r, en)
  BY DEF Steps, Recovering

LEMMA RecoveringTwice ==
  ASSUME NEW r, NEW s, NEW en, Engine(r), Engine(s), Engine(en), Recovering(r, s), Recovering(s, en)
  PROVE  Recovering(r, en)
  <1>1. Moves(r, en)
    BY MovesTwice DEF Recovering
  <1>2. Owed(r) <= Owed(en)
    BY Figures DEF Recovering
  <1> QED
    BY <1>1, <1>2 DEF Recovering

LEMMA FarmIsRefusedDoes ==
  ASSUME NEW en, Sound(en), NEW why \in Reasons
  PROVE  LET r == FarmIsRefused(en, why)
         IN  /\ Sound(r) /\ Steps(r, en) /\ NoneSent(r, en)
             /\ r.running = en.running \/ (~r.running /\ r.halted # "none")
             /\ en.halted # "none" => r.halted # "none"
  <1>1. CASE en.ccpUp
    <2>1. FarmIsRefused(en, why) = FarmIsOver(en)
      BY <1>1 DEF FarmIsRefused
    <2>2. /\ Sound(FarmIsOver(en)) /\ Steps(FarmIsOver(en), en) /\ NoneSent(FarmIsOver(en), en)
          /\ Same(FarmIsOver(en), en, {"farmHalted", "farmPending"})
      BY FarmIsOverDoes
    <2>3. FarmIsOver(en).running = en.running /\ FarmIsOver(en).halted = en.halted
      BY <2>2, FieldNames DEF Same
    <2> QED
      BY <2>1, <2>2, <2>3
  <1>2. CASE ~en.ccpUp
    <2>1. FarmIsRefused(en, why) = HaltRecovery(en, why)
      BY <1>2 DEF FarmIsRefused
    <2> QED
      BY <1>2, <2>1, HaltDoes
  <1> QED
    BY <1>1, <1>2

LEMMA HealthyBudget ==
  ASSUME NEW b \in Budgets
  PROVE  /\ [b EXCEPT !.healthy = TRUE] \in Budgets
         /\ [b EXCEPT !.healthy = FALSE] \in Budgets
  BY DEF Budgets

LEMMA PolledFarmDoes ==
  ASSUME NEW en, Sound(en), en.running \/ en.halted # "none"
  PROVE  LET r == PolledFarm(en)
         IN  /\ Sound(r) /\ Recovering(r, en) /\ NoneSent(r, en) /\ Spare(r) = Spare(en)
             /\ r.ccpUp => en.ccpUp
             /\ r.running \/ r.halted # "none"
  <1> DEFINE heard == [en EXCEPT !.farmPending = FALSE]
             b == [heard.farmBudget EXCEPT !.healthy = TRUE]
             up == [heard EXCEPT !.farmUp = TRUE, !.farmHalted = FALSE, !.farmBudget = b,
                                 !.sessionOver = "none", !.tradingOver = FALSE]
             r == PolledFarm(en)
  <1>0. Engine(en) /\ en.halted \in Ends
    BY Typed DEF Sound
  <1>1. Engine(heard) /\ Same(heard, en, {"farmPending"})
    BY <1>0, FieldNames, FieldTypes DEF Engine, Same
  <1>2. \/ r = en
        \/ r = heard
        \/ r = up /\ en.halted = "none"
        \/ r = FarmIsRefused(en, "Refused")
        \/ r = FarmIsRefused(en, "ByDesign")
    BY DEF PolledFarm
  <1> HIDE DEF heard, r
  <1>3. /\ Same(heard, en, Minor) /\ heard.farmUp = en.farmUp /\ heard.admissionClosed = en.admissionClosed
        /\ heard.running = en.running /\ heard.halted = en.halted /\ heard.ccpUp = en.ccpUp
    BY <1>1, FieldNames DEF Same, Minor
  <1>4. Sound(heard) /\ Steps(heard, en) /\ NoneSent(heard, en)
    BY <1>1, <1>3, MinorDoes
  <1>5. CASE r = en
    BY <1>0, <1>5, StepsNone, StepsRecover DEF NoneSent, r
  <1>6. CASE r = heard
    BY <1>3, <1>4, <1>6, StepsRecover DEF Steps, r
  <1>7. CASE r = up /\ en.halted = "none"
    <2>1. b \in Budgets
      BY <1>1, Typed, HealthyBudget
    <2>2. "none" \in Ends
      BY DEF Ends
    <2> HIDE DEF b
    <2>3. /\ Engine(up) /\ up.sessionOver = "none"
          /\ Same(up, heard, {"farmUp", "farmHalted", "farmBudget", "sessionOver", "tradingOver"})
      BY <1>1, <2>1, <2>2, FieldNames, FieldTypes DEF Engine, Same
    <2> HIDE DEF up
    <2>4. \A f \in Fields \ {"farmUp", "farmHalted", "farmBudget", "sessionOver", "tradingOver"} : up[f] = heard[f]
      BY <2>3 DEF Same
    <2>5. /\ up.closed = heard.closed /\ up.notices = heard.notices /\ up.halted = heard.halted
          /\ up.running = heard.running /\ up.dropSaid = heard.dropSaid /\ up.ccpUp = heard.ccpUp
          /\ up.lossAnnounced = heard.lossAnnounced
          /\ up.linkUp = heard.linkUp /\ up.told = heard.told /\ up.logoutWritten = heard.logoutWritten
          /\ up.drops = heard.drops /\ up.gone = heard.gone /\ up.open = heard.open
          /\ up.status = heard.status /\ up.finishing = heard.finishing
          /\ up.admissionClosed = heard.admissionClosed /\ up.over = heard.over
      BY <2>4, FieldNames
    <2>6. Sound(up)
      BY <1>4, <2>3, <2>5 DEF Sound, Idle, AtRest, HeldToRecover
    <2>7. Owed(up) = Owed(heard) /\ Spare(up) = Spare(heard) /\ Moves(up, heard)
      BY <2>5, MovesNone DEF Owed, Spare
    <2>8. Owed(up) <= Owed(en) /\ Spare(up) = Spare(en)
      BY <1>4, <2>7 DEF Steps
    <2>9. Moves(up, en)
      BY <1>4, <2>7, MovesTwice DEF Steps
    <2>10. \A f \in Kept : up[f] = en[f]
      BY <1>4, <2>4, FieldNames DEF Kept, Steps
    <2>11. NoneSent(up, en)
      BY <1>4, <2>5 DEF NoneSent
    <2>12. up.running = en.running /\ up.halted = en.halted /\ up.ccpUp = en.ccpUp
      BY <1>3, <2>5
    <2>13. Recovering(up, en)
      BY <1>3, <1>7, <2>5, <2>8, <2>9, <2>10, <2>12 DEF Recovering
    <2> QED
      BY <1>7, <2>6, <2>8, <2>11, <2>12, <2>13 DEF r
  <1>8. ASSUME NEW why \in Reasons, r = FarmIsRefused(en, why)
        PROVE  /\ Sound(r) /\ Recovering(r, en) /\ NoneSent(r, en) /\ Spare(r) = Spare(en)
               /\ r.ccpUp => en.ccpUp
               /\ r.running \/ r.halted # "none"
    <2>1. /\ Sound(r) /\ Steps(r, en) /\ NoneSent(r, en)
          /\ r.running = en.running \/ (~r.running /\ r.halted # "none")
          /\ en.halted # "none" => r.halted # "none"
      BY <1>8, FarmIsRefusedDoes
    <2> QED
      BY <2>1, StepsRecover DEF Steps
  <1>9. "Refused" \in Reasons /\ "ByDesign" \in Reasons
    BY DEF Reasons
  <1> QED
    BY <1>2, <1>5, <1>6, <1>7, <1>8, <1>9 DEF r

LEMMA ReconnectDoes ==
  ASSUME NEW en, Sound(en), en.running, en.halted = "none", ~en.ccpUp
  PROVE  LET r == ReconnectCcp(en)
         IN  /\ Sound(r) /\ Recovering(r, en) /\ NoneSent(r, en) /\ Spare(r) = Spare(en) - 1
             /\ r.running /\ r.logoutWritten = en.logoutWritten /\ r.finishing = en.finishing
             /\ r.returned = (en.returned \/ en.logoutWritten)
  <1> DEFINE b == [en.budget EXCEPT !.healthy = TRUE]
             again == en.returned \/ en.logoutWritten
             u == [en EXCEPT !.ccpUp = TRUE, !.told = FALSE, !.replay = FALSE, !.settling = TRUE,
                             !.returned = again, !.dropSaid = FALSE, !.budget = b, !.sessionOver = "none", !.tradingOver = FALSE]
             r == HoldWhatWaitsToBePlaced(u, FALSE)
  <1>0. Engine(en) /\ en.open \in Int /\ en.drops \in Nat /\ en.gone \in Nat /\ LossesSaid(en.notices) \in Nat
    BY Typed, Figures DEF Sound
  <1>1. ReconnectCcp(en) = r
    BY DEF ReconnectCcp
  <1>2. b \in Budgets /\ "none" \in Ends /\ again \in BOOLEAN
    BY <1>0, Typed, HealthyBudget DEF Ends
  <1> HIDE DEF b, again
  <1>3. /\ Engine(u) /\ u.ccpUp = TRUE /\ u.told = FALSE /\ u.dropSaid = FALSE /\ u.sessionOver = "none"
        /\ u.returned = again
        /\ Same(u, en, {"ccpUp", "told", "replay", "settling", "returned", "dropSaid", "budget", "sessionOver",
                      "tradingOver"})
    BY <1>0, <1>2, FieldNames, FieldTypes DEF Engine, Same
  <1> HIDE DEF u
  <1>4. \A f \in Fields \ {"ccpUp", "told", "replay", "settling", "returned", "dropSaid", "budget", "sessionOver",
                      "tradingOver"} :
          u[f] = en[f]
    BY <1>3 DEF Same
  <1>5. /\ u.closed = en.closed /\ u.notices = en.notices /\ u.halted = en.halted
        /\ u.running = en.running /\ u.lossAnnounced = en.lossAnnounced
        /\ u.linkUp = en.linkUp /\ u.logoutWritten = en.logoutWritten
        /\ u.drops = en.drops /\ u.gone = en.gone /\ u.open = en.open /\ u.finishing = en.finishing
        /\ u.status = en.status /\ u.farmUp = en.farmUp /\ u.admissionClosed = en.admissionClosed
        /\ u.over = en.over
    BY <1>4, FieldNames
  <1>6. Sound(u)
    BY <1>3, <1>5 DEF Sound, Idle, AtRest, HeldToRecover
  <1>7. Owed(u) <= Owed(en)
    <2>1. Owed(u) = LossesSaid(en.notices) - (en.drops + en.gone)
      BY <1>0, <1>3, <1>5 DEF Owed
    <2> QED
      BY <1>0, <2>1 DEF Owed
  <1>8. Spare(u) = Spare(en) - 1
    BY <1>0, <1>3, <1>5 DEF Spare
  <1>9. \A f \in Kept : u[f] = en[f]
    BY <1>4, FieldNames DEF Kept
  <1>10. Moves(u, en)
    BY <1>5, MovesNone
  <1>11. Recovering(u, en)
    BY <1>5, <1>7, <1>9, <1>10 DEF Recovering
  <1>12. Sound(r) /\ Steps(r, u) /\ Same(r, u, {"status", "answered"}) /\ NoneSent(r, u)
    BY <1>6, HoldDoes
  <1> HIDE DEF r
  <1>13. Recovering(r, en)
    BY <1>0, <1>3, <1>11, <1>12, StepsRecover, RecoveringTwice DEF Sound
  <1>14. /\ r.running = en.running /\ r.logoutWritten = en.logoutWritten /\ r.finishing = en.finishing
         /\ r.returned = again
    BY <1>3, <1>5, <1>12, FieldNames DEF Same
  <1>15. NoneSent(r, en) /\ Spare(r) = Spare(en) - 1
    BY <1>5, <1>8, <1>12 DEF NoneSent, Steps
  <1> QED
    BY <1>1, <1>12, <1>13, <1>14, <1>15 DEF again

(* A session told goodbye without being installed. *)
LEMMA TellLateDoes ==
  ASSUME NEW en, Sound(en)
  PROVE  LET r == TellTheLateSession(en)
         IN  /\ Sound(r) /\ Recovering(r, en) /\ NoneSent(r, en) /\ Spare(r) = Spare(en) - 1
             /\ Same(r, en, {"open"})
  <1> DEFINE n == en.open - 1
             r == [en EXCEPT !.open = n]
  <1>0. Engine(en) /\ en.open \in Int /\ n \in Int
    BY Typed DEF Sound
  <1>1. TellTheLateSession(en) = r
    BY DEF TellTheLateSession
  <1> HIDE DEF n
  <1>2. Engine(r) /\ r.open = n /\ Same(r, en, {"open"})
    BY <1>0, FieldNames, FieldTypes DEF Engine, Same
  <1> HIDE DEF r
  <1>3. \A f \in Fields \ {"open"} : r[f] = en[f]
    BY <1>2 DEF Same
  <1>4. /\ r.closed = en.closed /\ r.notices = en.notices /\ r.halted = en.halted
        /\ r.running = en.running /\ r.dropSaid = en.dropSaid /\ r.ccpUp = en.ccpUp
        /\ r.lossAnnounced = en.lossAnnounced /\ r.sessionOver = en.sessionOver
        /\ r.linkUp = en.linkUp /\ r.told = en.told /\ r.logoutWritten = en.logoutWritten
        /\ r.drops = en.drops /\ r.gone = en.gone /\ r.status = en.status /\ r.finishing = en.finishing
        /\ r.farmUp = en.farmUp /\ r.admissionClosed = en.admissionClosed /\ r.over = en.over
    BY <1>3, FieldNames
  <1>5. Sound(r)
    BY <1>2, <1>4 DEF Sound, Idle, AtRest, HeldToRecover
  <1>6. Owed(r) = Owed(en) /\ Moves(r, en) /\ NoneSent(r, en)
    BY <1>4, MovesNone DEF Owed, NoneSent
  <1>7. Spare(r) = Spare(en) - 1
    BY <1>0, <1>2, <1>4 DEF Spare, n
  <1>8. \A f \in Kept : r[f] = en[f]
    BY <1>3, FieldNames DEF Kept
  <1>9. Owed(r) <= Owed(en)
    BY <1>0, <1>6, Figures
  <1>10. Recovering(r, en)
    BY <1>4, <1>6, <1>8, <1>9 DEF Recovering
  <1> QED
    BY <1>1, <1>2, <1>5, <1>6, <1>7, <1>10

LEMMA PolledCcpDoes ==
  ASSUME NEW en, Sound(en), en.running \/ en.halted # "none", trading.phase # "none" => ~en.ccpUp,
         trading.gone \in BOOLEAN
  PROVE  LET r == PolledCcp(en)
         IN  /\ Sound(r) /\ Recovering(r, en) /\ NoneSent(r, en)
             /\ Spare(r) = Spare(en) - (IF LandedTooLate THEN 1 ELSE 0)
             /\ r.running \/ r.halted # "none"
             /\ trading.phase # "done" => r = en
  <1> DEFINE said == SayWhatTheAttemptLetGo(en, trading.gone)
             r == PolledCcp(en)
  <1>0. Engine(en) /\ en.halted \in Ends /\ Spare(en) \in Int
    BY Typed, Figures DEF Sound
  <1>1. /\ ~LandedTooLate => r \in {said, HaltRecovery(said, "Refused"), HaltRecovery(said, "ByDesign"), en}
        /\ LandedTooLate => r = IF en.halted # "none" THEN TellTheLateSession(en) ELSE ReconnectCcp(said)
        /\ trading.phase # "done" => r = en /\ ~LandedTooLate
    BY DEF PolledCcp, LandedTooLate
  <1> HIDE DEF r
  <1>2. CASE r = en /\ ~LandedTooLate
    <2>1. Recovering(en, en)
      BY <1>0, StepsNone, StepsRecover
    <2> QED
      BY <1>0, <1>2, <2>1 DEF NoneSent, r
  <1>3. CASE trading.phase = "done"
    <2>1. ~en.ccpUp /\ trading.phase # "none"
      BY <1>3
    <2>2. /\ Sound(said) /\ Steps(said, en) /\ NoneSent(said, en) /\ Same(said, en, Told \cup {"gone"})
      BY <2>1, LetGoIsSaid
    <2> HIDE DEF said
    <2>3. said.ccpUp = en.ccpUp /\ said.running = en.running /\ said.halted = en.halted
      BY <2>2, FieldNames DEF Same, Told
    <2>4. Recovering(said, en) /\ Spare(said) = Spare(en) /\ Engine(said)
      BY <2>2, StepsRecover DEF Steps, Sound
    <2>5. CASE ~LandedTooLate /\ r = said
      <3>1. Spare(r) = Spare(en) - 0
        BY <1>0, <2>4, <2>5
      <3> QED
        BY <1>3, <2>2, <2>3, <2>4, <2>5, <3>1 DEF r
    <2>6. ASSUME ~LandedTooLate, NEW why \in Reasons, r = HaltRecovery(said, why)
          PROVE  /\ Sound(r) /\ Recovering(r, en) /\ NoneSent(r, en)
                 /\ Spare(r) = Spare(en) - (IF LandedTooLate THEN 1 ELSE 0)
                 /\ r.running \/ r.halted # "none"
      <3>1. Sound(r) /\ Steps(r, said) /\ NoneSent(r, said) /\ ~r.running /\ r.halted # "none"
        BY <2>1, <2>2, <2>3, <2>6, HaltDoes
      <3>2. Recovering(r, en)
        BY <1>0, <2>4, <3>1, StepsRecover, RecoveringTwice DEF Sound
      <3>3. NoneSent(r, en)
        BY <2>2, <3>1 DEF NoneSent
      <3>4. Spare(r) = Spare(en) - 0
        BY <1>0, <2>4, <3>1 DEF Steps
      <3> QED
        BY <2>6, <3>1, <3>2, <3>3, <3>4
    <2>7. CASE LandedTooLate /\ en.halted # "none" /\ r = TellTheLateSession(en)
      <3>1. /\ Sound(r) /\ Recovering(r, en) /\ NoneSent(r, en) /\ Spare(r) = Spare(en) - 1
            /\ Same(r, en, {"open"})
        BY <2>7, TellLateDoes
      <3>2. r.halted = en.halted
        BY <3>1, FieldNames DEF Same
      <3> QED
        BY <1>3, <2>7, <3>1, <3>2 DEF r
    <2>8. CASE LandedTooLate /\ en.halted = "none" /\ r = ReconnectCcp(said)
      <3>1. /\ Sound(r) /\ Recovering(r, said) /\ NoneSent(r, said) /\ Spare(r) = Spare(said) - 1
            /\ r.running
        BY <2>1, <2>2, <2>3, <2>8, ReconnectDoes
      <3>2. Recovering(r, en)
        BY <1>0, <2>4, <3>1, RecoveringTwice DEF Sound
      <3>3. NoneSent(r, en)
        BY <2>2, <3>1 DEF NoneSent
      <3> QED
        BY <1>3, <2>4, <2>8, <3>1, <3>2, <3>3 DEF r
    <2>9. "Refused" \in Reasons /\ "ByDesign" \in Reasons
      BY DEF Reasons
    <2>10. \/ r = en /\ ~LandedTooLate
           \/ ~LandedTooLate /\ r = said
           \/ ~LandedTooLate /\ r = HaltRecovery(said, "Refused")
           \/ ~LandedTooLate /\ r = HaltRecovery(said, "ByDesign")
           \/ LandedTooLate /\ en.halted # "none" /\ r = TellTheLateSession(en)
           \/ LandedTooLate /\ en.halted = "none" /\ r = ReconnectCcp(said)
      BY <1>1, <1>3 DEF said
    <2>11. CASE ~LandedTooLate /\ r = HaltRecovery(said, "Refused")
      BY <1>3, <2>6, <2>9, <2>11 DEF r
    <2>12. CASE ~LandedTooLate /\ r = HaltRecovery(said, "ByDesign")
      BY <1>3, <2>6, <2>9, <2>12 DEF r
    <2> QED
      BY <1>2, <2>5, <2>7, <2>8, <2>10, <2>11, <2>12
  <1>4. CASE trading.phase # "done"
    <2>1. r = en /\ ~LandedTooLate
      BY <1>1, <1>4
    <2> QED
      BY <1>2, <2>1
  <1> QED
    BY <1>3, <1>4

(* What the end of a lap's recovery says of the connection is so. *)
LEMMA SaidDoes ==
  ASSUME NEW en, Sound(en), NEW r \in SaidOfTheConnection(en)
  PROVE  /\ Sound(r) /\ Steps(r, en) /\ NoneSent(r, en)
         /\ r.running => r.ccpUp \/ ~r.linkUp
         /\ r.running = en.running /\ r.halted = en.halted /\ r.finishing = en.finishing
  <1> DEFINE back == SetConnectionRestored([en EXCEPT !.lossAnnounced = FALSE])
  <1>0. Engine(en) /\ en.ccpUp \in BOOLEAN /\ en.lossAnnounced \in BOOLEAN
    BY Typed DEF Sound
  <1>1. \/ ~en.ccpUp /\ r = TheTradingConnectionWent(en)
        \/ en.ccpUp /\ r = en
        \/ en.ccpUp /\ en.lossAnnounced /\ r = back
    BY <1>0 DEF SaidOfTheConnection
  <1>2. CASE ~en.ccpUp /\ r = TheTradingConnectionWent(en)
    <2>1. Sound(r) /\ Steps(r, en) /\ NoneSent(r, en) /\ r.dropSaid /\ Same(r, en, Told)
      BY <1>2, WentDoes
    <2>2. r.running = en.running /\ r.halted = en.halted /\ r.finishing = en.finishing
      BY <2>1, FieldNames DEF Same, Told
    <2>3. r.running => ~r.linkUp
      BY <2>1 DEF Sound
    <2> QED
      BY <2>1, <2>2, <2>3
  <1>3. CASE en.ccpUp /\ r = en
    BY <1>0, <1>3, StepsNone DEF NoneSent
  <1>4. CASE en.ccpUp /\ en.lossAnnounced /\ r = back
    <2>1. Sound(r) /\ Steps(r, en) /\ NoneSent(r, en) /\ Same(r, en, {"lossAnnounced", "linkUp", "notices"})
      BY <1>4, RestoredDoes
    <2>2. r.running = en.running /\ r.halted = en.halted /\ r.finishing = en.finishing /\ r.ccpUp = en.ccpUp
      BY <2>1, FieldNames DEF Same
    <2> QED
      BY <1>4, <2>1, <2>2
  <1> QED
    BY <1>1, <1>2, <1>3, <1>4

LEMMA EndTradingDoes ==
  ASSUME NEW en, Sound(en)
  PROVE  LET r == EndTheTradingConnection(en)
         IN  /\ Sound(r) /\ Steps(r, en) /\ NoneSent(r, en) /\ Same(r, en, {"status", "tradingOver"})
  <1> DEFINE s == [en EXCEPT !.tradingOver = TRUE]
             r == RefuseWhatIsLeft(s)
  <1>0. Engine(en)
    BY DEF Sound
  <1>1. CASE en.halted # "none" /\ ~en.ccpUp
    <2>1. EndTheTradingConnection(en) = r
      BY <1>1 DEF EndTheTradingConnection
    <2>2. Engine(s) /\ Same(s, en, {"tradingOver"})
      BY <1>0, FieldNames, FieldTypes DEF Engine, Same
    <2> HIDE DEF s
    <2>3. Same(s, en, Minor) /\ s.admissionClosed = en.admissionClosed /\ s.farmUp = en.farmUp
      BY <2>2, FieldNames DEF Same, Minor
    <2>4. Sound(s) /\ Steps(s, en) /\ NoneSent(s, en)
      BY <2>2, <2>3, MinorDoes
    <2>5. /\ Sound(r) /\ Steps(r, s) /\ Same(r, s, {"status"})
          /\ \A o \in Orders : r.status[o] = IF s.status[o] = "built" THEN "refused" ELSE s.status[o]
      BY <2>4, RefuseLeftDoes
    <2> HIDE DEF r
    <2>6. Steps(r, en)
      BY <1>0, <2>2, <2>4, <2>5, StepsTwice DEF Sound
    <2>7. NoneSent(r, en) /\ Same(r, en, {"status", "tradingOver"})
      BY <2>2, <2>4, <2>5 DEF NoneSent, Same
    <2> QED
      BY <2>1, <2>5, <2>6, <2>7
  <1>2. CASE ~(en.halted # "none" /\ ~en.ccpUp)
    <2>1. EndTheTradingConnection(en) = en
      BY <1>2 DEF EndTheTradingConnection
    <2> QED
      BY <1>0, <2>1, StepsNone, SameIs DEF NoneSent
  <1> QED
    BY <1>1, <1>2

-----------------------------------------------------------------------------
(* The scenario never changes, so a fact of the next engine record is the  *)
(* fact of the next state.                                                 *)

LEMMA SameScenario ==
  ASSUME sc' = sc
  PROVE  /\ Placements' = Placements /\ Orders' = Orders /\ Recovers' = Recovers /\ Policies' = Policies
         /\ LapLimit' = LapLimit /\ Budgets' = Budgets /\ Commands' = Commands
         /\ FieldType' = FieldType /\ Fields' = Fields
  <1>1. /\ Placements' = Placements /\ Orders' = Orders /\ Recovers' = Recovers /\ Policies' = Policies
        /\ LapLimit' = LapLimit /\ MaxAttempts' = MaxAttempts
    BY DEF Placements, Withdrawals, Orders, Recovers, Policies, LapLimit, MaxAttempts
  <1>2. Budgets' = Budgets /\ Commands' = Commands
    BY <1>1 DEF Budgets, Commands
  <1>3. FieldType' = FieldType
    BY <1>1, <1>2 DEF FieldType
  <1> QED
    BY <1>1, <1>2, <1>3 DEF Fields

LEMMA Later ==
  ASSUME sc' = sc, sc \in Scenarios, Holds(e', trading', farm', cmds', caller')
  PROVE  IInv'
  <1>0. /\ Placements' = Placements /\ Orders' = Orders /\ Recovers' = Recovers
        /\ Commands' = Commands
        /\ FieldType' = FieldType /\ Fields' = Fields
    BY SameScenario
  <1>1. Engine(e') => Engine(e)'
    BY <1>0 DEF Engine
  <1>2. (Idle(e') <=> Idle(e)') /\ (AtRest(e') <=> AtRest(e)')
    BY <1>0 DEF Idle, AtRest
  <1>3. HeldToRecover(e') <=> HeldToRecover(e)'
    BY <1>0 DEF HeldToRecover
  <1>4. Sound(e') => Sound(e)'
    BY <1>0, <1>1, <1>2, <1>3 DEF Sound
  <1>5. Shaped(e', trading', farm', cmds', caller') => Shaped(e, trading, farm, cmds, caller)'
    BY <1>0, <1>1 DEF Shaped
  <1>6. Channel(e', cmds') => Channel(e, cmds)'
    BY <1>0 DEF Channel
  <1>7. Counted(e', cmds') => Counted(e, cmds)'
    BY <1>0 DEF Counted, Past
  <1>8. SessionsAreCounted(e', trading') => SessionsAreCounted(e, trading)'
    BY <1>0 DEF SessionsAreCounted
  <1>9. LossesAreOwed(e', cmds') => LossesAreOwed(e, cmds)'
    BY <1>0 DEF LossesAreOwed
  <1>10. LapInTurn(e') => LapInTurn(e)'
    BY <1>0 DEF LapInTurn
  <1>11. EndInTurn(e', trading', farm') => EndInTurn(e, trading, farm)'
    BY <1>0, <1>2 DEF EndInTurn
  <1>12. Backlog(e') => Backlog(e)'
    BY <1>0 DEF Backlog, OpenOrders
  <1> QED
    BY <1>4, <1>5, <1>6, <1>7, <1>8, <1>9, <1>10, <1>11, <1>12 DEF IInv, Holds

-----------------------------------------------------------------------------
(* What the counts are of. *)

LEMMA ScenarioIs ==
  ASSUME sc \in Scenarios
  PROVE  /\ IsFiniteSet(Orders) /\ Orders \cap {"Logout", "Shutdown", "ForceDisconnect"} = {}
         /\ Placements \cap Withdrawals = {}
         /\ Policies # {} /\ Policies \subseteq {"Auto", "Manual"}
         /\ LapLimit \in Nat \ {0} /\ MaxAttempts \in Nat
         /\ Recovers \in BOOLEAN
  BY ScenariosAssumption
     DEF Orders, Placements, Withdrawals, Policies, LapLimit, MaxAttempts, Recovers

LEMMA SomeOrders ==
  ASSUME sc \in Scenarios, NEW S, S \subseteq Orders
  PROVE  IsFiniteSet(S) /\ Cardinality(S) \in Nat
  BY ScenarioIs, FS_Subset, FS_CardinalityType

LEMMA FewerOrders ==
  ASSUME sc \in Scenarios, NEW S, NEW T, S \subseteq T, T \subseteq Orders
  PROVE  Cardinality(S) \in Nat /\ Cardinality(T) \in Nat /\ Cardinality(S) <= Cardinality(T)
  <1>1. IsFiniteSet(T) /\ Cardinality(T) \in Nat
    BY SomeOrders
  <1>2. IsFiniteSet(S) /\ Cardinality(S) <= Cardinality(T)
    BY <1>1, FS_Subset
  <1> QED
    BY <1>1, <1>2, FS_CardinalityType

(* A step that moves commands only through the loop's hands keeps what the *)
(* channel and the counts say.                                             *)
LEMMA CountsAreKept ==
  ASSUME sc \in Scenarios, NEW en, NEW r, NEW c, Engine(en), Engine(r), Moves(r, en),
         Channel(en, c), Counted(en, c), Backlog(en),
         r.taken = en.taken, r.admitted = en.admitted, r.panicked = en.panicked
  PROVE  /\ Channel(r, c) /\ Counted(r, c)
         /\ r.finished = en.finished => Backlog(r)
  <1>1. r.status \in [Orders -> Statuses] /\ en.status \in [Orders -> Statuses]
    BY Typed
  <1>2. Channel(r, c)
    BY DEF Moves, Channel
  <1>3. Past(r) = Past(en)
    BY DEF Moves, Past
  <1>4. Counted(r, c)
    BY <1>3 DEF Counted
  <1>5. OpenOrders(r) \subseteq OpenOrders(en) /\ OpenOrders(en) \subseteq Orders
    BY <1>1 DEF Moves, Awaits, OpenOrders, Open, Statuses
  <1>6. /\ Cardinality(OpenOrders(r)) \in Nat /\ Cardinality(OpenOrders(en)) \in Nat
        /\ Cardinality(OpenOrders(r)) <= Cardinality(OpenOrders(en))
    BY <1>5, FewerOrders
  <1>7. en.finished \in Nat /\ en.admitted \in Nat
    BY Typed
  <1>8. r.finished = en.finished => Backlog(r)
    BY <1>6, <1>7 DEF Backlog
  <1> QED
    BY <1>2, <1>4, <1>8

LEMMA NoticesEnd ==
  ASSUME NEW n, NoClose(n)
  PROVE  \A i \in 1 .. Len(n) : n[i] = "closed" => i = Len(n)
  BY DEF NoClose

LEMMA OwesNoMore ==
  ASSUME NEW en, NEW r, NEW c \in Seq(Commands), Engine(en), Engine(r), Owed(r) <= Owed(en), LossesAreOwed(en, c),
         r.forced = en.forced
  PROVE  LossesAreOwed(r, c)
  <1>1. Owed(en) \in Int /\ Owed(r) \in Int /\ en.forced \in Nat
    BY Figures, Typed
  <1>2. ForcesIn(c) \in Nat
    BY CountIsNat DEF ForcesIn
  <1> QED
    BY <1>1, <1>2 DEF LossesAreOwed

(* The rest of the invariant after a step of the lap. *)
LEMMA LapKeeps ==
  ASSUME sc \in Scenarios, NEW en, NEW r, NEW c, NEW t, NEW f, NEW cl, Holds(en, t, f, c, cl), ~en.closed,
         Sound(r), Moves(r, en), Owed(r) <= Owed(en),
         r.taken = en.taken, r.admitted = en.admitted, r.panicked = en.panicked, r.forced = en.forced
  PROVE  /\ Engine(r) /\ Channel(r, c) /\ Counted(r, c) /\ LossesAreOwed(r, c)
         /\ r.finished = en.finished => Backlog(r)
         /\ \A i \in 1 .. Len(r.notices) : r.notices[i] = "closed" => i = Len(r.notices)
         /\ ~r.running => Idle(r)
  <1>1. /\ Engine(en) /\ Engine(r) /\ c \in Seq(Commands) /\ Channel(en, c) /\ Counted(en, c)
        /\ LossesAreOwed(en, c) /\ Backlog(en)
    BY DEF Holds, Shaped, Sound
  <1>2. /\ Channel(r, c) /\ Counted(r, c)
        /\ r.finished = en.finished => Backlog(r)
    BY <1>1, CountsAreKept
  <1>3. LossesAreOwed(r, c)
    BY <1>1, OwesNoMore
  <1>4. NoClose(r.notices)
    BY DEF Sound
  <1>5. \A i \in 1 .. Len(r.notices) : r.notices[i] = "closed" => i = Len(r.notices)
    BY <1>4, NoticesEnd
  <1>6. ~r.running => Idle(r)
    BY DEF Sound
  <1> QED
    BY <1>1, <1>2, <1>3, <1>5, <1>6

-----------------------------------------------------------------------------
(* One lemma for each action.  A good step keeps the invariant, installs   *)
(* nothing past the end, and past the goodbye sends only what was held     *)
(* built.                                                                  *)

Installs(r, en) ==
  en.halted # "none" \/ ~en.running => (r.ccpUp => en.ccpUp) /\ (r.farmUp => en.farmUp)

SentInTime(r, en) ==
  \A o \in Orders :
    en.status[o] # "sent" /\ r.status[o] = "sent" /\ r.told => en.status[o] = "heldBuilt"

GoodStep == Holds(e', trading', farm', cmds', caller') /\ Installs(e', e) /\ SentInTime(e', e)

LEMMA MinorKeeps ==
  ASSUME sc \in Scenarios, NEW en, NEW r, NEW t, NEW f, NEW c, NEW cl, Holds(en, t, f, c, cl),
         Engine(r), Same(r, en, Minor), en.admissionClosed => r.admissionClosed
  PROVE  /\ Holds(r, t, f, c, cl) /\ SentInTime(r, en)
         /\ (r.farmUp => en.farmUp) => Installs(r, en)
  <1>1. \A x \in Fields \ Minor : r[x] = en[x]
    BY DEF Same
  <1>2. /\ r.closed = en.closed /\ r.notices = en.notices /\ r.halted = en.halted
        /\ r.running = en.running /\ r.dropSaid = en.dropSaid /\ r.ccpUp = en.ccpUp
        /\ r.lossAnnounced = en.lossAnnounced /\ r.sessionOver = en.sessionOver
        /\ r.linkUp = en.linkUp /\ r.told = en.told /\ r.logoutWritten = en.logoutWritten
        /\ r.drops = en.drops /\ r.gone = en.gone /\ r.open = en.open /\ r.finishing = en.finishing
        /\ r.status = en.status /\ r.pc = en.pc /\ r.taken = en.taken /\ r.admitted = en.admitted
        /\ r.finished = en.finished /\ r.panicked = en.panicked /\ r.forced = en.forced
    BY <1>1, FieldNames DEF Minor
  <1>3. Minor \subseteq Unseen
    BY DEF Minor, Unseen
  <1>4. Same(r, en, Unseen)
    BY <1>1, <1>3 DEF Same
  <1>5. ~r.closed => Sound(r)
    BY <1>2, <1>4, UnseenDoes DEF Holds
  <1>6. Engine(en) /\ Channel(en, c) /\ Counted(en, c) /\ Backlog(en) /\ c \in Seq(Commands) /\ LossesAreOwed(en, c)
    BY DEF Holds, Shaped
  <1>7. Channel(r, c) /\ Counted(r, c) /\ Backlog(r)
    BY <1>2, <1>6, MovesNone, CountsAreKept
  <1>8. Owed(r) = Owed(en) /\ Spare(r) = Spare(en)
    BY <1>2 DEF Owed, Spare
  <1>9. LossesAreOwed(r, c)
    BY <1>2, <1>6, <1>8 DEF LossesAreOwed
  <1>10. SessionsAreCounted(r, t)
    BY <1>2, <1>8 DEF Holds, SessionsAreCounted
  <1>11. LapInTurn(r)
    BY <1>2 DEF Holds, LapInTurn
  <1>12. EndInTurn(r, t, f)
    BY <1>2 DEF Holds, EndInTurn, Idle
  <1>13. Shaped(r, t, f, c, cl)
    BY DEF Holds, Shaped
  <1> QED
    BY <1>2, <1>5, <1>7, <1>9, <1>10, <1>11, <1>12, <1>13 DEF Holds, Installs, SentInTime

(* Steps that leave the engine's record alone. *)
LEMMA NothingNew ==
  ASSUME NEW en
  PROVE  Installs(en, en) /\ SentInTime(en, en)
  BY DEF Installs, SentInTime

LEMMA CallerMoves ==
  ASSUME NEW en, NEW t, NEW f, NEW c, NEW cl, Holds(en, t, f, c, cl),
         NEW cl2 \in {"up", "stopping", "loggingOut", "stopped", "gone"}
  PROVE  Holds(en, t, f, c, cl2)
  BY DEF Holds, Shaped

LEMMA CloseAdmissionGood ==
  ASSUME IInv, CloseAdmission
  PROVE  GoodStep
  <1> DEFINE r == [e EXCEPT !.admissionClosed = TRUE]
  <1>1. e' = r /\ caller' = "stopping" /\ trading' = trading /\ farm' = farm /\ cmds' = cmds
    BY DEF CloseAdmission
  <1>2. Engine(e) /\ sc \in Scenarios /\ Holds(e, trading, farm, cmds, caller)
    BY DEF IInv, Holds, Shaped
  <1>3. Engine(r) /\ Same(r, e, {"admissionClosed"}) /\ r.admissionClosed = TRUE
    BY <1>2, FieldNames, FieldTypes DEF Engine, Same
  <1> HIDE DEF r
  <1>4. Same(r, e, Minor) /\ r.farmUp = e.farmUp
    BY <1>3, FieldNames DEF Same, Minor
  <1>5. Holds(r, trading, farm, cmds, caller) /\ SentInTime(r, e) /\ Installs(r, e)
    BY <1>2, <1>3, <1>4, MinorKeeps
  <1>6. Holds(r, trading, farm, cmds, "stopping")
    BY <1>5, CallerMoves
  <1> QED
    BY <1>1, <1>5, <1>6 DEF GoodStep

LEMMA DropSendersGood ==
  ASSUME IInv, DropSenders
  PROVE  GoodStep
  <1>1. e' = e /\ caller' = "gone" /\ trading' = trading /\ farm' = farm /\ cmds' = cmds
    BY DEF DropSenders
  <1>2. Holds(e, trading, farm, cmds, caller)
    BY DEF IInv
  <1>3. Holds(e, trading, farm, cmds, "gone")
    BY <1>2, CallerMoves
  <1> QED
    BY <1>1, <1>3, NothingNew DEF GoodStep

Answers == [phase : {"none", "dialling", "written", "done"},
            result : {"none", "session", "error", "refused", "cancelled", "died"},
            gone : BOOLEAN]

\* A worker's step that lands no session.
LEMMA WorkerMoves ==
  ASSUME NEW en, NEW t, NEW f, NEW c, NEW cl, Holds(en, t, f, c, cl), t.phase # "none",
         NEW t2 \in Answers, t2.phase # "none", ~Landed(t), ~Landed(t2)
  PROVE  Holds(en, t2, f, c, cl)
  <1>1. SessionsAreCounted(en, t2)
    BY DEF Holds, SessionsAreCounted
  <1>2. EndInTurn(en, t2, f)
    BY DEF Holds, EndInTurn
  <1> QED
    BY <1>1, <1>2 DEF Holds, Shaped, Answers

LEMMA WriteLogonGood ==
  ASSUME IInv, WriteLogon
  PROVE  GoodStep
  <1>1. /\ e' = e /\ caller' = caller /\ farm' = farm /\ cmds' = cmds /\ trading.phase = "dialling"
        /\ trading' = [trading EXCEPT !.phase = "written"]
    BY DEF WriteLogon
  <1>2. Holds(e, trading, farm, cmds, caller) /\ trading \in Answers
    BY DEF IInv, Holds, Shaped, Answers
  <1>3. trading' \in Answers /\ trading'.phase = "written"
    BY <1>1, <1>2 DEF Answers
  <1>4. Holds(e, trading', farm, cmds, caller)
    BY <1>1, <1>2, <1>3, WorkerMoves DEF Landed
  <1> QED
    BY <1>1, <1>4, NothingNew DEF GoodStep

LEMMA FailTradingGood ==
  ASSUME IInv, FailTrading
  PROVE  GoodStep
  <1>1. /\ e' = e /\ caller' = caller /\ farm' = farm /\ cmds' = cmds
        /\ trading.phase \in {"dialling", "written"}
        /\ trading' \in AttemptFailure(e.cancel)
    BY DEF FailTrading
  <1>2. Holds(e, trading, farm, cmds, caller)
    BY DEF IInv
  <1>3. trading' \in Answers /\ trading'.phase = "done" /\ trading'.result # "session"
    <2>1. CASE e.cancel
      <3>2. trading' = [phase |-> "done", result |-> "cancelled", gone |-> FALSE]
        BY <1>1, <2>1 DEF AttemptFailure
      <3> QED
        BY <3>2 DEF Answers
    <2>2. CASE ~e.cancel
      <3>1. PICK x \in {"error", "refused"}, g \in BOOLEAN :
              trading' = [phase |-> "done", result |-> x, gone |-> g]
        BY <1>1, <2>2 DEF AttemptFailure
      <3> QED
        BY <3>1 DEF Answers
    <2> QED
      BY <2>1, <2>2
  <1>4. Holds(e, trading', farm, cmds, caller)
    BY <1>1, <1>2, <1>3, WorkerMoves DEF Landed
  <1> QED
    BY <1>1, <1>4, NothingNew DEF GoodStep

LEMMA LoseTradingWorkerGood ==
  ASSUME IInv, LoseTradingWorker
  PROVE  GoodStep
  <1>1. /\ e' = e /\ caller' = caller /\ farm' = farm /\ cmds' = cmds
        /\ trading.phase \in {"dialling", "written"}
        /\ trading' = [phase |-> "done", result |-> "died", gone |-> FALSE]
    BY DEF LoseTradingWorker
  <1>2. Holds(e, trading, farm, cmds, caller)
    BY DEF IInv
  <1>3. trading' \in Answers /\ trading'.phase = "done" /\ trading'.result # "session"
    BY <1>1 DEF Answers
  <1>4. Holds(e, trading', farm, cmds, caller)
    BY <1>1, <1>2, <1>3, WorkerMoves DEF Landed
  <1> QED
    BY <1>1, <1>4, NothingNew DEF GoodStep

LEMMA AnswerFarmGood ==
  ASSUME IInv, AnswerFarm
  PROVE  GoodStep
  <1>1. /\ e' = e /\ caller' = caller /\ trading' = trading /\ cmds' = cmds /\ farm = "dialling"
        /\ farm' \in {"session", "died", "cancelled", "error", "refused"}
    BY DEF AnswerFarm
  <1>2. Holds(e, trading, farm, cmds, caller)
    BY DEF IInv
  <1>3. EndInTurn(e, trading, farm')
    BY <1>1, <1>2 DEF Holds, EndInTurn
  <1>4. Holds(e, trading, farm', cmds, caller)
    BY <1>1, <1>2, <1>3 DEF Holds, Shaped
  <1> QED
    BY <1>1, <1>4, NothingNew DEF GoodStep

LEMMA LandTradingGood ==
  ASSUME IInv, LandTrading
  PROVE  GoodStep
  <1> DEFINE n == e.open + 1
             r == [e EXCEPT !.open = n]
  <1>1. /\ caller' = caller /\ farm' = farm /\ cmds' = cmds /\ e' = r
        /\ trading.phase = "written" /\ Landed(trading') /\ trading' \in Answers
    BY DEF LandTrading, Landed, Answers
  <1>2. /\ Holds(e, trading, farm, cmds, caller) /\ sc \in Scenarios /\ Engine(e) /\ e.open \in Int
        /\ Spare(e) \in Int
    BY Typed, Figures DEF IInv, Holds, Shaped
  <1>3. n \in Int
    BY <1>2
  <1> HIDE DEF n
  <1>4. Engine(r) /\ Same(r, e, {"open"}) /\ r.open = n
    BY <1>2, <1>3, FieldNames, FieldTypes DEF Engine, Same
  <1> HIDE DEF r
  <1>5. \A x \in Fields \ {"open"} : r[x] = e[x]
    BY <1>4 DEF Same
  <1>6. /\ r.closed = e.closed /\ r.notices = e.notices /\ r.halted = e.halted
        /\ r.running = e.running /\ r.dropSaid = e.dropSaid /\ r.ccpUp = e.ccpUp
        /\ r.lossAnnounced = e.lossAnnounced /\ r.sessionOver = e.sessionOver
        /\ r.linkUp = e.linkUp /\ r.told = e.told /\ r.logoutWritten = e.logoutWritten
        /\ r.drops = e.drops /\ r.gone = e.gone /\ r.finishing = e.finishing
        /\ r.status = e.status /\ r.pc = e.pc /\ r.taken = e.taken /\ r.admitted = e.admitted
        /\ r.finished = e.finished /\ r.panicked = e.panicked /\ r.forced = e.forced
        /\ r.admissionClosed = e.admissionClosed /\ r.farmUp = e.farmUp /\ r.over = e.over
    BY <1>5, FieldNames
  <1>7. ~r.closed => Sound(r)
    BY <1>2, <1>4, <1>6 DEF Holds, Sound, Idle, AtRest, HeldToRecover
  <1>8. Channel(r, cmds) /\ Counted(r, cmds) /\ Backlog(r)
    BY <1>2, <1>4, <1>6, MovesNone, CountsAreKept DEF Holds
  <1>9. Owed(r) = Owed(e) /\ Spare(r) = Spare(e) + 1
    BY <1>2, <1>4, <1>6 DEF Owed, Spare, n
  <1>10. LossesAreOwed(r, cmds)
    BY <1>2, <1>6, <1>9 DEF LossesAreOwed, Holds
  <1>11. ~Landed(trading) /\ ~e.ccpUp /\ Spare(e) = 0
    BY <1>1, <1>2 DEF Holds, SessionsAreCounted, Landed
  <1>12. SessionsAreCounted(r, trading')
    BY <1>1, <1>6, <1>9, <1>11 DEF SessionsAreCounted
  <1>13. LapInTurn(r) /\ EndInTurn(r, trading', farm)
    BY <1>1, <1>2, <1>6 DEF Holds, LapInTurn, EndInTurn, Idle
  <1>14. Shaped(r, trading', farm, cmds, caller)
    BY <1>1, <1>2, <1>4 DEF Holds, Shaped, Answers
  <1>15. Holds(r, trading', farm, cmds, caller)
    BY <1>7, <1>8, <1>10, <1>12, <1>13, <1>14 DEF Holds
  <1>16. Installs(r, e) /\ SentInTime(r, e)
    BY <1>6 DEF Installs, SentInTime
  <1> QED
    BY <1>1, <1>15, <1>16 DEF GoodStep

(* The caller's sends. *)
LEMMA Appended ==
  ASSUME NEW T, NEW c \in Seq(T), NEW x \in T
  PROVE  /\ Append(c, x) \in Seq(T) /\ Len(c) \in Nat /\ Len(Append(c, x)) = Len(c) + 1
         /\ \A i \in 1 .. Len(c) : Append(c, x)[i] = c[i]
         /\ Append(c, x)[Len(c) + 1] = x
  OBVIOUS

\* A command that is not an order is sent.
LEMMA SentAnother ==
  ASSUME sc \in Scenarios, NEW en, NEW r, NEW t, NEW f, NEW c, NEW cl, Holds(en, t, f, c, cl), ~en.closed,
         NEW x \in {"Logout", "Shutdown", "ForceDisconnect"},
         Engine(r), Same(r, en, {"admitted", "forced"}), r.admitted = en.admitted + 1,
         r.forced = en.forced + (IF x = "ForceDisconnect" THEN 1 ELSE 0)
  PROVE  /\ Holds(r, t, f, Append(c, x), cl) /\ Installs(r, en) /\ SentInTime(r, en) /\ ~r.closed
  <1> DEFINE d == Append(c, x)
  <1>1. \A z \in Fields \ {"admitted", "forced"} : r[z] = en[z]
    BY DEF Same
  <1>2. /\ r.closed = en.closed /\ r.notices = en.notices /\ r.halted = en.halted
        /\ r.running = en.running /\ r.dropSaid = en.dropSaid /\ r.ccpUp = en.ccpUp
        /\ r.linkUp = en.linkUp /\ r.told = en.told /\ r.farmUp = en.farmUp
        /\ r.drops = en.drops /\ r.gone = en.gone /\ r.open = en.open /\ r.finishing = en.finishing
        /\ r.status = en.status /\ r.pc = en.pc /\ r.taken = en.taken
        /\ r.finished = en.finished /\ r.panicked = en.panicked /\ r.admissionClosed = en.admissionClosed
    BY <1>1, FieldNames
  <1>3. Same(r, en, Unseen)
    BY <1>1 DEF Same, Unseen
  <1>4. Sound(r) /\ Owed(r) = Owed(en) /\ Spare(r) = Spare(en)
    BY <1>3, UnseenDoes DEF Holds
  <1>5. /\ Engine(en) /\ c \in Seq(Commands) /\ x \in Commands /\ x \notin Orders
        /\ en.taken \in Nat /\ en.admitted \in Nat /\ en.finished \in Nat /\ en.forced \in Nat /\ Owed(en) \in Int
    BY Typed, Figures, ScenarioIs DEF Holds, Shaped, Commands
  <1>6. /\ d \in Seq(Commands) /\ Len(c) \in Nat /\ Len(d) = Len(c) + 1
        /\ \A i \in 1 .. Len(c) : d[i] = c[i]
        /\ d[Len(c) + 1] = x
    BY <1>5, Appended
  <1>7. ForcesIn(d) = ForcesIn(c) + (IF x = "ForceDisconnect" THEN 1 ELSE 0) /\ ForcesIn(c) \in Nat
    <2>1. CountOf(c, "ForceDisconnect") \in Nat
      BY <1>5, CountIsNat
    <2>2. CountOf(d, "ForceDisconnect") = CountOf(c, "ForceDisconnect") + (IF x = "ForceDisconnect" THEN 1 ELSE 0)
      BY <1>5, CountAppended
    <2> QED
      BY <2>1, <2>2 DEF ForcesIn
  <1> HIDE DEF d
  <1>8. Channel(r, d)
    <2>1. \A i \in 1 .. Len(d) : i = Len(c) + 1 \/ i \in 1 .. Len(c)
      BY <1>6
    <2>2. \A i \in 1 .. Len(c) : i \in 1 .. Len(d)
      BY <1>6
    <2>3. Channel(en, c)
      BY DEF Holds
    <2>4. \A o \in Orders : r.status[o] = "queued" => \E i \in 1 .. Len(d) : d[i] = o
      BY <1>2, <1>6, <2>2, <2>3 DEF Channel
    <2>5. \A i \in 1 .. Len(d) : d[i] \in Orders => i \in 1 .. Len(c) /\ d[i] = c[i]
      BY <1>5, <1>6, <2>1
    <2>6. \A i \in 1 .. Len(d) : d[i] \in Orders => r.status[d[i]] = "queued"
      BY <1>2, <2>3, <2>5 DEF Channel
    <2>7. \A i, j \in 1 .. Len(d) : d[i] \in Orders /\ d[i] = d[j] => i = j
      BY <2>3, <2>5 DEF Channel
    <2> QED
      BY <2>4, <2>6, <2>7 DEF Channel
  <1>9. Counted(r, d)
    <2>1. Past(r) = Past(en)
      BY <1>2 DEF Past
    <2>2. Counted(en, c)
      BY DEF Holds
    <2>4. en.taken + Len(c) = en.admitted
      BY <2>2 DEF Counted
    <2>5. en.taken \in Nat /\ Len(c) \in Nat /\ Len(d) = Len(c) + 1 /\ r.taken = en.taken
      BY <1>2, <1>5, <1>6
    <2>3. r.taken + Len(d) = r.admitted
      BY <2>4, <2>5
    <2> QED
      BY <1>2, <2>1, <2>2, <2>3 DEF Counted
  <1>10. LossesAreOwed(r, d)
    BY <1>4, <1>5, <1>7 DEF LossesAreOwed, Holds
  <1>11. Backlog(r)
    <2>1. OpenOrders(r) = OpenOrders(en)
      BY <1>2 DEF OpenOrders
    <2>2. Cardinality(OpenOrders(en)) \in Nat
      BY SomeOrders DEF OpenOrders
    <2> QED
      BY <1>2, <1>5, <2>1, <2>2 DEF Backlog, Holds
  <1>12. SessionsAreCounted(r, t) /\ LapInTurn(r) /\ EndInTurn(r, t, f)
    BY <1>2, <1>4 DEF Holds, SessionsAreCounted, LapInTurn, EndInTurn, Idle
  <1>13. Shaped(r, t, f, d, cl)
    BY <1>6 DEF Holds, Shaped
  <1>14. Holds(r, t, f, d, cl)
    BY <1>4, <1>8, <1>9, <1>10, <1>11, <1>12, <1>13 DEF Holds
  <1> QED
    BY <1>2, <1>14 DEF Installs, SentInTime, d

LEMMA OneMore ==
  ASSUME NEW en, Engine(en)
  PROVE  LET r == [en EXCEPT !.admitted = en.admitted + 1]
         IN  Engine(r) /\ Same(r, en, {"admitted"}) /\ r.admitted = en.admitted + 1
  <1> DEFINE n == en.admitted + 1
  <1>1. n \in Nat
    BY Typed
  <1> HIDE DEF n
  <1>2. /\ Engine([en EXCEPT !.admitted = n]) /\ Same([en EXCEPT !.admitted = n], en, {"admitted"})
        /\ [en EXCEPT !.admitted = n].admitted = n
    BY <1>1, FieldNames, FieldTypes DEF Engine, Same
  <1> QED
    BY <1>2 DEF n

LEMMA AdmitForceGood ==
  ASSUME IInv, AdmitForceDisconnect
  PROVE  GoodStep
  <1> DEFINE s == [e EXCEPT !.admitted = e.admitted + 1]
             n == s.forced + 1
             r == [s EXCEPT !.forced = n]
  <1>1. /\ caller' = caller /\ farm' = farm /\ cmds' = Append(cmds, "ForceDisconnect") /\ e' = r
        /\ trading' = trading /\ ~e.closed
    BY DEF AdmitForceDisconnect, Admitted
  <1>2. /\ Holds(e, trading, farm, cmds, caller) /\ sc \in Scenarios /\ Engine(e)
    BY DEF IInv, Holds, Shaped
  <1>3. Engine(s) /\ Same(s, e, {"admitted"}) /\ s.admitted = e.admitted + 1
    BY <1>2, OneMore
  <1> HIDE DEF s
  <1>4. n \in Nat /\ s.forced = e.forced
    BY <1>3, Typed, FieldNames DEF Same
  <1>5. n = e.forced + 1
    BY <1>4
  <1> HIDE DEF n
  <1>6. Engine(r) /\ Same(r, s, {"forced"}) /\ r.forced = n
    BY <1>3, <1>4, FieldNames, FieldTypes DEF Engine, Same
  <1> HIDE DEF r
  <1>7. Same(r, e, {"admitted", "forced"}) /\ r.admitted = e.admitted + 1
    BY <1>3, <1>6, FieldNames DEF Same
  <1>8. /\ Holds(r, trading, farm, Append(cmds, "ForceDisconnect"), caller)
        /\ Installs(r, e) /\ SentInTime(r, e)
    BY <1>1, <1>2, <1>5, <1>6, <1>7, SentAnother
  <1> QED
    BY <1>1, <1>8 DEF GoodStep

LEMMA AdmitShutdownGood ==
  ASSUME IInv, AdmitShutdown
  PROVE  GoodStep
  <1> DEFINE r == [e EXCEPT !.admitted = e.admitted + 1]
  <1>1. /\ caller' = "stopped" /\ farm' = farm /\ trading' = trading
        /\ \/ e.closed /\ e' = e /\ cmds' = cmds
           \/ ~e.closed /\ cmds' = Append(cmds, "Shutdown") /\ e' = r
    BY DEF AdmitShutdown, Admitted
  <1>2. /\ Holds(e, trading, farm, cmds, caller) /\ sc \in Scenarios /\ Engine(e) /\ e.forced \in Nat
    BY Typed DEF IInv, Holds, Shaped
  <1>3. CASE e.closed /\ e' = e /\ cmds' = cmds
    BY <1>1, <1>2, <1>3, CallerMoves, NothingNew DEF GoodStep
  <1>4. CASE ~e.closed /\ cmds' = Append(cmds, "Shutdown") /\ e' = r
    <2>1. Engine(r) /\ Same(r, e, {"admitted"}) /\ r.admitted = e.admitted + 1
      BY <1>2, OneMore
    <2> HIDE DEF r
    <2>2. Same(r, e, {"admitted", "forced"}) /\ r.forced = e.forced + 0
      BY <1>2, <2>1, FieldNames DEF Same
    <2>3. /\ Holds(r, trading, farm, Append(cmds, "Shutdown"), caller)
          /\ Installs(r, e) /\ SentInTime(r, e)
      BY <1>2, <1>4, <2>1, <2>2, SentAnother
    <2>4. Holds(r, trading, farm, Append(cmds, "Shutdown"), "stopped")
      BY <2>3, CallerMoves
    <2> QED
      BY <1>1, <1>4, <2>3, <2>4 DEF GoodStep
  <1> QED
    BY <1>1, <1>3, <1>4

LEMMA AdmitLogoutGood ==
  ASSUME IInv, AdmitLogout
  PROVE  GoodStep
  <1> DEFINE one == <<"Logout">>
             two == <<"Logout", "Shutdown">>
             s == [e EXCEPT !.admitted = e.admitted + 1]
             r == [s EXCEPT !.admitted = s.admitted + 1]
             c == Append(cmds, "Logout")
             d == Append(c, "Shutdown")
  <1>1. /\ caller' \in {"loggingOut", "stopped"} /\ farm' = farm /\ trading' = trading
        /\ \/ e.closed /\ e' = e /\ cmds' = cmds
           \/ ~e.closed /\ cmds' = cmds \o one /\ e' = [e EXCEPT !.admitted = e.admitted + Len(one)]
           \/ ~e.closed /\ cmds' = cmds \o two /\ e' = [e EXCEPT !.admitted = e.admitted + Len(two)]
    BY DEF AdmitLogout
  <1>2. /\ Holds(e, trading, farm, cmds, caller) /\ sc \in Scenarios /\ Engine(e) /\ e.forced \in Nat
        /\ e.admitted \in Nat /\ cmds \in Seq(Commands)
    BY Typed DEF IInv, Holds, Shaped
  <1>3. CASE e.closed /\ e' = e /\ cmds' = cmds
    BY <1>1, <1>2, <1>3, CallerMoves, NothingNew DEF GoodStep
  <1>4. Engine(s) /\ Same(s, e, {"admitted"}) /\ s.admitted = e.admitted + 1
    BY <1>2, OneMore
  <1>5. Len(one) = 1 /\ Len(two) = 2
    OBVIOUS
  <1>6. cmds \o one = c /\ cmds \o two = d
    BY <1>2 DEF Commands
  <1>7. [e EXCEPT !.admitted = e.admitted + 2] = r
    <2>1. s.admitted + 1 = e.admitted + 2
      BY <1>2, <1>4
    <2>2. r = [s EXCEPT !.admitted = e.admitted + 2]
      BY <2>1
    <2> QED
      BY <2>2
  <1> HIDE DEF s, c
  <1>8. Same(s, e, {"admitted", "forced"}) /\ s.forced = e.forced + 0
    BY <1>2, <1>4, FieldNames DEF Same
  <1>9. ~e.closed => Holds(s, trading, farm, c, caller) /\ Installs(s, e) /\ SentInTime(s, e) /\ ~s.closed
    BY <1>2, <1>4, <1>8, SentAnother DEF c
  <1>10. CASE ~e.closed /\ cmds' = cmds \o one /\ e' = [e EXCEPT !.admitted = e.admitted + Len(one)]
    <2>1. e' = s /\ cmds' = c
      BY <1>5, <1>6, <1>10 DEF s
    <2>2. Holds(s, trading, farm, c, caller')
      BY <1>1, <1>9, <1>10, CallerMoves
    <2> QED
      BY <1>1, <1>9, <1>10, <2>1, <2>2 DEF GoodStep
  <1>11. CASE ~e.closed /\ cmds' = cmds \o two /\ e' = [e EXCEPT !.admitted = e.admitted + Len(two)]
    <2>1. e' = r /\ cmds' = d
      BY <1>5, <1>6, <1>7, <1>11
    <2>2. Engine(r) /\ Same(r, s, {"admitted"}) /\ r.admitted = s.admitted + 1 /\ s.forced \in Nat
      BY <1>4, OneMore, Typed
    <2> HIDE DEF r
    <2>3. Same(r, s, {"admitted", "forced"}) /\ r.forced = s.forced + 0
      BY <2>2, FieldNames DEF Same
    <2>4. Holds(r, trading, farm, d, caller) /\ Installs(r, s) /\ SentInTime(r, s)
      BY <1>2, <1>9, <1>11, <2>2, <2>3, SentAnother
    <2>5. Holds(r, trading, farm, d, caller')
      BY <1>1, <2>4, CallerMoves
    <2>6. r.status = e.status /\ r.halted = e.halted /\ r.running = e.running /\ r.ccpUp = e.ccpUp /\ r.farmUp = e.farmUp
      BY <1>4, <2>2, FieldNames DEF Same
    <2> QED
      BY <1>1, <2>1, <2>5, <2>6 DEF GoodStep, Installs, SentInTime
  <1> QED
    BY <1>1, <1>3, <1>10, <1>11

LEMMA AdmitGood ==
  ASSUME IInv, NEW o \in Orders, Admit(o)
  PROVE  GoodStep
  <1> DEFINE s == Become(e, {o}, "queued")
             r == [s EXCEPT !.admitted = s.admitted + 1]
             d == Append(cmds, o)
  <1>1. /\ caller' = caller /\ farm' = farm /\ cmds' = d /\ e' = r
        /\ trading' = trading /\ ~e.closed /\ ~e.admissionClosed /\ e.status[o] = "unasked"
    BY DEF Admit, Admitted
  <1>2. /\ Holds(e, trading, farm, cmds, caller) /\ sc \in Scenarios /\ Engine(e)
        /\ e.status \in [Orders -> Statuses] /\ e.taken \in Nat /\ e.admitted \in Nat /\ e.finished \in Nat
        /\ e.forced \in Nat /\ Owed(e) \in Int /\ "queued" \in Statuses
    BY Typed, Figures DEF IInv, Holds, Shaped, Statuses
  <1>3. Engine(s) /\ Same(s, e, {"status"}) /\ \A p \in Orders : s.status[p] = IF p = o THEN "queued" ELSE e.status[p]
    BY <1>2, BecomeDoes
  <1> HIDE DEF s
  <1>4. Engine(r) /\ Same(r, s, {"admitted"}) /\ r.admitted = s.admitted + 1
    BY <1>3, OneMore
  <1> HIDE DEF r
  <1>5. \A z \in Fields \ {"status", "admitted"} : r[z] = e[z]
    BY <1>3, <1>4 DEF Same
  <1>6. r.status = s.status /\ s.admitted = e.admitted
    BY <1>3, <1>4, FieldNames DEF Same
  <1>7. \A p \in Orders : r.status[p] = IF p = o THEN "queued" ELSE e.status[p]
    BY <1>3, <1>6
  <1>8. /\ r.closed = e.closed /\ r.notices = e.notices /\ r.halted = e.halted
        /\ r.running = e.running /\ r.dropSaid = e.dropSaid /\ r.ccpUp = e.ccpUp
        /\ r.lossAnnounced = e.lossAnnounced /\ r.sessionOver = e.sessionOver
        /\ r.linkUp = e.linkUp /\ r.told = e.told /\ r.logoutWritten = e.logoutWritten
        /\ r.drops = e.drops /\ r.gone = e.gone /\ r.open = e.open /\ r.finishing = e.finishing
        /\ r.pc = e.pc /\ r.taken = e.taken /\ r.farmUp = e.farmUp
        /\ r.finished = e.finished /\ r.panicked = e.panicked /\ r.forced = e.forced
        /\ r.admissionClosed = e.admissionClosed /\ r.over = e.over
    BY <1>5, FieldNames
  <1>9. (Idle(e) => Idle(r)) /\ (AtRest(e) => AtRest(r)) /\ (HeldToRecover(e) => HeldToRecover(r))
    BY <1>7 DEF Idle, AtRest, Awaits, HeldToRecover, InHand
  <1>10. Sound(e)
    BY <1>1, <1>2 DEF Holds
  <1>11. Sound(r)
    BY <1>4, <1>8, <1>9, <1>10 DEF Sound
  <1>12. cmds \in Seq(Commands) /\ o \in Commands /\ o # "ForceDisconnect"
    BY <1>2, ScenarioIs DEF Holds, Shaped, Commands
  <1>13. /\ d \in Seq(Commands) /\ Len(cmds) \in Nat /\ Len(d) = Len(cmds) + 1
         /\ \A i \in 1 .. Len(cmds) : d[i] = cmds[i]
         /\ d[Len(cmds) + 1] = o
    BY <1>12, Appended
  <1>14. ForcesIn(d) = ForcesIn(cmds)
    <2>1. CountOf(cmds, "ForceDisconnect") \in Nat
      BY <1>12, CountIsNat
    <2>2. CountOf(d, "ForceDisconnect") = CountOf(cmds, "ForceDisconnect") + 0
      BY <1>12, CountAppended
    <2> QED
      BY <2>1, <2>2 DEF ForcesIn
  <1> HIDE DEF d
  <1>15. Channel(e, cmds) /\ Counted(e, cmds) /\ Backlog(e) /\ LossesAreOwed(e, cmds)
    BY <1>2 DEF Holds
  <1>16. Channel(r, d)
    <2>1. \A i \in 1 .. Len(d) : i = Len(cmds) + 1 \/ i \in 1 .. Len(cmds)
      BY <1>13
    <2>2. \A i \in 1 .. Len(cmds) : i \in 1 .. Len(d)
      BY <1>13
    <2>8. Len(cmds) + 1 \in 1 .. Len(d)
      BY <1>13
    <2>3. \A i \in 1 .. Len(cmds) : cmds[i] # o
      BY <1>1, <1>15 DEF Channel
    <2>4. \A p \in Orders : r.status[p] = "queued" => \E i \in 1 .. Len(d) : d[i] = p
      <3>1. SUFFICES ASSUME NEW p \in Orders, r.status[p] = "queued"
                     PROVE  \E i \in 1 .. Len(d) : d[i] = p
        OBVIOUS
      <3>2. CASE p = o
        BY <1>13, <2>8, <3>2
      <3>3. CASE p # o
        <4>1. e.status[p] = "queued"
          BY <1>7, <3>1, <3>3
        <4>2. PICK i \in 1 .. Len(cmds) : cmds[i] = p
          BY <1>15, <4>1 DEF Channel
        <4> QED
          BY <1>13, <2>2, <4>2
      <3> QED
        BY <3>2, <3>3
    <2>6. \A i \in 1 .. Len(d) : d[i] \in Orders => r.status[d[i]] = "queued"
      BY <1>7, <1>13, <1>15, <2>1 DEF Channel
    <2>7. \A i, j \in 1 .. Len(d) : d[i] \in Orders /\ d[i] = d[j] => i = j
      BY <1>13, <1>15, <2>1, <2>3 DEF Channel
    <2> QED
      BY <2>4, <2>6, <2>7 DEF Channel
  <1>17. Counted(r, d)
    <2>1. Past(r) = Past(e)
      BY <1>1, <1>7 DEF Past
    <2>2. e.taken + Len(cmds) = e.admitted
      BY <1>15 DEF Counted
    <2>3. r.taken + Len(d) = r.admitted
      BY <1>2, <1>4, <1>6, <1>8, <1>13, <2>2
    <2> QED
      BY <1>8, <1>15, <2>1, <2>3 DEF Counted
  <1>18. Owed(r) = Owed(e) /\ Spare(r) = Spare(e)
    BY <1>8 DEF Owed, Spare
  <1>19. LossesAreOwed(r, d)
    BY <1>8, <1>14, <1>15, <1>18 DEF LossesAreOwed
  <1>20. Backlog(r)
    <2>1. OpenOrders(r) = OpenOrders(e) \cup {o} /\ o \notin OpenOrders(e)
      BY <1>1, <1>7 DEF OpenOrders, Open
    <2>2. IsFiniteSet(OpenOrders(e)) /\ Cardinality(OpenOrders(e)) \in Nat
      BY <1>2, SomeOrders DEF OpenOrders
    <2>3. Cardinality(OpenOrders(r)) = Cardinality(OpenOrders(e)) + 1
      BY <2>1, <2>2, FS_AddElement
    <2>4. ~e.panicked => e.finished + Cardinality(OpenOrders(e)) <= e.admitted
      BY <1>15 DEF Backlog
    <2> QED
      BY <1>2, <1>4, <1>6, <1>8, <2>2, <2>3, <2>4 DEF Backlog
  <1>21. SessionsAreCounted(r, trading) /\ LapInTurn(r)
    BY <1>2, <1>8, <1>18 DEF Holds, SessionsAreCounted, LapInTurn
  <1>22. EndInTurn(r, trading, farm)
    BY <1>1, <1>2, <1>8, <1>9 DEF Holds, EndInTurn
  <1>23. Shaped(r, trading, farm, d, caller)
    BY <1>2, <1>4, <1>13 DEF Holds, Shaped
  <1>24. Holds(r, trading, farm, d, caller)
    BY <1>11, <1>16, <1>17, <1>19, <1>20, <1>21, <1>22, <1>23 DEF Holds
  <1>25. Installs(r, e) /\ SentInTime(r, e)
    BY <1>7, <1>8 DEF Installs, SentInTime
  <1> QED
    BY <1>1, <1>24, <1>25 DEF GoodStep, d

-----------------------------------------------------------------------------
(* What the venue and the clock do. *)

\* A field of the engine's own is written, and the workers and the channel stay.
LEMMA MinorGood ==
  ASSUME IInv, NEW r, e' = r, UNCHANGED <<trading, farm, cmds, caller>>, Engine(r), Same(r, e, Minor),
         e.admissionClosed => r.admissionClosed, r.farmUp => e.farmUp
  PROVE  GoodStep
  <1>1. Holds(e, trading, farm, cmds, caller) /\ sc \in Scenarios
    BY DEF IInv
  <1>2. Holds(r, trading, farm, cmds, caller) /\ SentInTime(r, e) /\ Installs(r, e)
    BY <1>1, MinorKeeps
  <1> QED
    BY <1>2 DEF GoodStep

\* What a connection that is up has been told of the recovery.
LEMMA OverGood ==
  ASSUME IInv, NEW r, e' = r, UNCHANGED <<trading, farm, cmds, caller>>, Engine(r), Same(r, e, {"replay", "over"}),
         e.ccpUp
  PROVE  GoodStep
  <1>1. Holds(e, trading, farm, cmds, caller) /\ sc \in Scenarios /\ Engine(e)
    BY DEF IInv, Holds, Shaped
  <1>2. \A x \in Fields \ {"replay", "over"} : r[x] = e[x]
    BY DEF Same
  <1>3. /\ r.closed = e.closed /\ r.notices = e.notices /\ r.halted = e.halted
        /\ r.running = e.running /\ r.dropSaid = e.dropSaid /\ r.ccpUp = e.ccpUp
        /\ r.lossAnnounced = e.lossAnnounced /\ r.sessionOver = e.sessionOver
        /\ r.linkUp = e.linkUp /\ r.told = e.told /\ r.logoutWritten = e.logoutWritten
        /\ r.drops = e.drops /\ r.gone = e.gone /\ r.open = e.open /\ r.finishing = e.finishing
        /\ r.status = e.status /\ r.pc = e.pc /\ r.taken = e.taken /\ r.admitted = e.admitted
        /\ r.finished = e.finished /\ r.panicked = e.panicked /\ r.forced = e.forced
        /\ r.admissionClosed = e.admissionClosed /\ r.farmUp = e.farmUp
    BY <1>2, FieldNames
  <1>4. ~r.closed => Sound(r)
    BY <1>1, <1>3 DEF Holds, Sound, Idle, AtRest, HeldToRecover
  <1>5. Channel(r, cmds) /\ Counted(r, cmds) /\ Backlog(r)
    BY <1>1, <1>3, MovesNone, CountsAreKept DEF Holds
  <1>6. Owed(r) = Owed(e) /\ Spare(r) = Spare(e)
    BY <1>3 DEF Owed, Spare
  <1>7. LossesAreOwed(r, cmds) /\ SessionsAreCounted(r, trading) /\ LapInTurn(r) /\ EndInTurn(r, trading, farm)
    BY <1>1, <1>3, <1>6 DEF Holds, LossesAreOwed, SessionsAreCounted, LapInTurn, EndInTurn, Idle
  <1>8. Holds(r, trading, farm, cmds, caller)
    BY <1>1, <1>4, <1>5, <1>7 DEF Holds, Shaped
  <1>9. Installs(r, e) /\ SentInTime(r, e)
    BY <1>3 DEF Installs, SentInTime
  <1> QED
    BY <1>8, <1>9 DEF GoodStep

LEMMA EndNamingGood ==
  ASSUME IInv, NEW asks \in BOOLEAN, EndNaming(asks)
  PROVE  GoodStep
  <1> DEFINE r == [e EXCEPT !.replay = TRUE, !.over = ~asks]
  <1>1. e' = r /\ UNCHANGED <<trading, farm, cmds, caller>> /\ e.ccpUp
    BY DEF EndNaming
  <1>2. Engine(e)
    BY DEF IInv, Holds, Shaped
  <1>3. Engine(r) /\ Same(r, e, {"replay", "over"})
    BY <1>2, FieldNames, FieldTypes DEF Engine, Same
  <1> HIDE DEF r
  <1> QED
    BY <1>1, <1>3, OverGood

LEMMA EndQuestionGood ==
  ASSUME IInv, EndQuestion
  PROVE  GoodStep
  <1> DEFINE r == [e EXCEPT !.over = TRUE]
  <1>1. e' = r /\ UNCHANGED <<trading, farm, cmds, caller>> /\ e.ccpUp
    BY DEF EndQuestion
  <1>2. Engine(e)
    BY DEF IInv, Holds, Shaped
  <1>3. Engine(r) /\ Same(r, e, {"replay", "over"})
    BY <1>2, FieldNames, FieldTypes DEF Engine, Same
  <1> HIDE DEF r
  <1> QED
    BY <1>1, <1>3, OverGood

LEMMA EndSettlingGood ==
  ASSUME IInv, EndSettling
  PROVE  GoodStep
  <1> DEFINE r == [e EXCEPT !.settling = FALSE]
  <1>1. e' = r /\ UNCHANGED <<trading, farm, cmds, caller>>
    BY DEF EndSettling
  <1>2. Engine(e)
    BY DEF IInv, Holds, Shaped
  <1>3. Engine(r) /\ Same(r, e, {"settling"})
    BY <1>2, FieldNames, FieldTypes DEF Engine, Same
  <1> HIDE DEF r
  <1>4. Same(r, e, Minor) /\ r.admissionClosed = e.admissionClosed /\ r.farmUp = e.farmUp
    BY <1>3, FieldNames DEF Same, Minor
  <1> QED
    BY <1>1, <1>3, <1>4, MinorGood

LEMMA AnswerNamingGood ==
  ASSUME IInv, NEW o \in Orders, AnswerNaming(o)
  PROVE  GoodStep
  <1> DEFINE a == e.answered \cup {o}
             r == [e EXCEPT !.answered = a]
  <1>1. e' = r /\ UNCHANGED <<trading, farm, cmds, caller>>
    BY DEF AnswerNaming
  <1>2. Engine(e)
    BY DEF IInv, Holds, Shaped
  <1>3. a \in SUBSET Orders
    BY <1>2, Typed
  <1> HIDE DEF a
  <1>4. Engine(r) /\ Same(r, e, {"answered"})
    BY <1>2, <1>3, AnsweredDoes
  <1> HIDE DEF r
  <1>5. Same(r, e, Minor) /\ r.admissionClosed = e.admissionClosed /\ r.farmUp = e.farmUp
    BY <1>4, FieldNames DEF Same, Minor
  <1> QED
    BY <1>1, <1>4, <1>5, MinorGood

LEMMA RunOutOfTimeGood ==
  ASSUME IInv, RunOutOfTime
  PROVE  GoodStep
  <1> DEFINE b == [e.budget EXCEPT !.late = TRUE]
             g == [e.farmBudget EXCEPT !.late = TRUE]
             r == [e EXCEPT !.budget = b]
             s == [e EXCEPT !.farmBudget = g]
  <1>1. (e' = r \/ e' = s) /\ UNCHANGED <<trading, farm, cmds, caller>>
    BY DEF RunOutOfTime
  <1>2. Engine(e) /\ e.budget \in Budgets /\ e.farmBudget \in Budgets
    BY Typed DEF IInv, Holds, Shaped
  <1>3. b \in Budgets /\ g \in Budgets
    BY <1>2 DEF Budgets
  <1> HIDE DEF b, g
  <1>4. Engine(r) /\ Same(r, e, {"budget"}) /\ Engine(s) /\ Same(s, e, {"farmBudget"})
    BY <1>2, <1>3, FieldNames, FieldTypes DEF Engine, Same
  <1> HIDE DEF r, s
  <1>5. /\ Same(r, e, Minor) /\ r.admissionClosed = e.admissionClosed /\ r.farmUp = e.farmUp
        /\ Same(s, e, Minor) /\ s.admissionClosed = e.admissionClosed /\ s.farmUp = e.farmUp
    BY <1>4, FieldNames DEF Same, Minor
  <1> QED
    BY <1>1, <1>4, <1>5, MinorGood

\* One of the venue's drops is counted.
LEMMA LoseFarmGood ==
  ASSUME IInv, LoseFarm
  PROVE  GoodStep
  <1> DEFINE s == [e EXCEPT !.farmUp = FALSE]
             n == s.farmDrops + 1
             r == [s EXCEPT !.farmDrops = n]
  <1>1. e' = r /\ UNCHANGED <<trading, farm, cmds, caller>> /\ At("sockets")
    BY DEF LoseFarm, HandleFarmDisconnect
  <1>2. Engine(e) /\ Holds(e, trading, farm, cmds, caller) /\ sc \in Scenarios
    BY DEF IInv, Holds, Shaped
  <1>3. Engine(s) /\ Same(s, e, {"farmUp"}) /\ s.farmUp = FALSE
    BY <1>2, FieldNames, FieldTypes DEF Engine, Same
  <1> HIDE DEF s
  <1>4. Same(s, e, Minor) /\ s.admissionClosed = e.admissionClosed
    BY <1>3, FieldNames DEF Same, Minor
  <1>5. Holds(s, trading, farm, cmds, caller) /\ SentInTime(s, e) /\ Installs(s, e)
    BY <1>2, <1>3, <1>4, MinorKeeps
  <1>6. n \in Nat
    BY <1>3, Typed
  <1> HIDE DEF n
  <1>7. Engine(r) /\ Same(r, s, {"farmDrops"})
    BY <1>3, <1>6, FieldNames, FieldTypes DEF Engine, Same
  <1> HIDE DEF r
  <1>8. \A z \in Fields \ {"farmDrops"} : r[z] = s[z]
    BY <1>7 DEF Same
  <1>9. /\ r.closed = s.closed /\ r.notices = s.notices /\ r.halted = s.halted
        /\ r.running = s.running /\ r.ccpUp = s.ccpUp /\ r.dropSaid = s.dropSaid
        /\ r.linkUp = s.linkUp /\ r.told = s.told
        /\ r.drops = s.drops /\ r.gone = s.gone /\ r.open = s.open /\ r.finishing = s.finishing
        /\ r.status = s.status /\ r.pc = s.pc /\ r.taken = s.taken /\ r.admitted = s.admitted
        /\ r.finished = s.finished /\ r.panicked = s.panicked /\ r.forced = s.forced
        /\ r.admissionClosed = s.admissionClosed /\ r.farmUp = s.farmUp
    BY <1>8, FieldNames
  <1>10. Same(r, s, Unseen)
    BY <1>8 DEF Same, Unseen
  <1>11. ~r.closed => Sound(r)
    BY <1>5, <1>7, <1>9, <1>10, UnseenDoes DEF Holds
  <1>12. Channel(r, cmds) /\ Counted(r, cmds) /\ Backlog(r)
    BY <1>2, <1>3, <1>5, <1>7, <1>9, MovesNone, CountsAreKept DEF Holds
  <1>13. Owed(r) = Owed(s) /\ Spare(r) = Spare(s)
    BY <1>9 DEF Owed, Spare
  <1>14. LossesAreOwed(r, cmds) /\ SessionsAreCounted(r, trading) /\ LapInTurn(r) /\ EndInTurn(r, trading, farm)
    BY <1>5, <1>9, <1>13 DEF Holds, LossesAreOwed, SessionsAreCounted, LapInTurn, EndInTurn, Idle
  <1>15. Holds(r, trading, farm, cmds, caller)
    BY <1>5, <1>7, <1>11, <1>12, <1>14 DEF Holds, Shaped
  <1>16. s.status = e.status /\ s.told = e.told /\ s.running = e.running
    BY <1>3, FieldNames DEF Same
  <1>17. Installs(r, e) /\ SentInTime(r, e)
    BY <1>5, <1>9 DEF Installs, SentInTime
  <1> QED
    BY <1>1, <1>15, <1>17 DEF GoodStep

LEMMA LoseTradingGood ==
  ASSUME IInv, LoseTrading
  PROVE  GoodStep
  <1> DEFINE s == HandleDisconnect(e)
             n == s.drops + 1
             r == [s EXCEPT !.drops = n]
  <1>1. e' = r /\ UNCHANGED <<trading, farm, cmds, caller>> /\ e.pc = "sockets" /\ e.ccpUp
    BY DEF LoseTrading, At
  <1>2. /\ Engine(e) /\ Holds(e, trading, farm, cmds, caller) /\ sc \in Scenarios
        /\ e.drops \in Nat /\ e.gone \in Nat /\ Owed(e) \in Int
    BY Typed, Figures DEF IInv, Holds, Shaped
  <1>3. Sound(e) /\ ~e.closed
    BY <1>1, <1>2 DEF Holds, LapInTurn
  <1>4. /\ Sound(s) /\ Spare(s) = Spare(e) /\ Owed(s) <= Owed(e) + 1
        /\ ~s.ccpUp /\ s.status = e.status
        /\ Same(s, e, {"ccpUp", "settling", "over", "open", "answered"})
    BY <1>3, DisconnectDoes
  <1> HIDE DEF s
  <1>5. n \in Nat /\ s.drops = e.drops /\ Engine(s) /\ Owed(s) \in Int /\ LossesSaid(s.notices) \in Nat /\ s.gone \in Nat
    <2>1. Engine(s)
      BY <1>4 DEF Sound
    <2>2. s.drops = e.drops
      BY <1>4, FieldNames DEF Same
    <2>3. s.drops \in Nat /\ s.gone \in Nat
      BY <2>1, Typed
    <2> QED
      BY <2>1, <2>2, <2>3, Figures
  <1>6. n = e.drops + 1
    BY <1>5
  <1> HIDE DEF n
  <1>7. Engine(r) /\ Same(r, s, {"drops"}) /\ r.drops = n
    BY <1>5, FieldNames, FieldTypes DEF Engine, Same
  <1> HIDE DEF r
  <1>8. \A z \in Fields \ {"drops"} : r[z] = s[z]
    BY <1>7 DEF Same
  <1>9. /\ r.closed = s.closed /\ r.notices = s.notices /\ r.halted = s.halted
        /\ r.running = s.running /\ r.dropSaid = s.dropSaid /\ r.ccpUp = s.ccpUp
        /\ r.lossAnnounced = s.lossAnnounced /\ r.sessionOver = s.sessionOver
        /\ r.linkUp = s.linkUp /\ r.told = s.told /\ r.logoutWritten = s.logoutWritten
        /\ r.gone = s.gone /\ r.open = s.open /\ r.finishing = s.finishing /\ r.status = s.status
        /\ r.over = s.over
    BY <1>8, FieldNames
  <1>10. Sound(r)
    BY <1>4, <1>7, <1>9 DEF Sound, Idle, AtRest, HeldToRecover
  <1>11. Spare(r) = Spare(e)
    BY <1>4, <1>9 DEF Spare
  <1>12. Owed(r) = Owed(s) - 1
    <2> DEFINE k == IF ~s.ccpUp /\ ~s.dropSaid THEN 1 ELSE 0
    <2>1. Owed(s) = LossesSaid(s.notices) + k - (s.drops + s.gone)
      BY DEF Owed
    <2>2. Owed(r) = LossesSaid(s.notices) + k - ((s.drops + 1) + s.gone)
      BY <1>5, <1>6, <1>7, <1>9 DEF Owed
    <2>3. k \in Int /\ s.drops \in Nat
      BY <1>2, <1>5
    <2> HIDE DEF k
    <2> QED
      BY <1>5, <2>1, <2>2, <2>3
  <1>13. Owed(r) <= Owed(e)
    BY <1>2, <1>4, <1>5, <1>12
  <1>14. \A z \in Fields \ {"ccpUp", "settling", "over", "open", "answered", "drops"} : r[z] = e[z]
    BY <1>4, <1>8 DEF Same
  <1>15. /\ r.taken = e.taken /\ r.admitted = e.admitted /\ r.finished = e.finished /\ r.panicked = e.panicked
         /\ r.forced = e.forced /\ r.pc = e.pc /\ r.running = e.running /\ r.closed = e.closed
         /\ r.farmUp = e.farmUp /\ r.status = e.status
    BY <1>14, FieldNames
  <1>16. /\ Engine(r) /\ Channel(r, cmds) /\ Counted(r, cmds) /\ LossesAreOwed(r, cmds) /\ Backlog(r)
         /\ \A i \in 1 .. Len(r.notices) : r.notices[i] = "closed" => i = Len(r.notices)
         /\ ~r.running => Idle(r)
    BY <1>2, <1>3, <1>10, <1>13, <1>15, MovesNone, LapKeeps
  <1>17. SessionsAreCounted(r, trading) /\ LapInTurn(r)
    BY <1>1, <1>2, <1>4, <1>9, <1>11, <1>15 DEF Holds, SessionsAreCounted, LapInTurn
  <1>18. EndInTurn(r, trading, farm)
    BY <1>1, <1>15, <1>16 DEF EndInTurn, Ending
  <1>19. Holds(r, trading, farm, cmds, caller)
    BY <1>2, <1>10, <1>16, <1>17, <1>18 DEF Holds, Shaped
  <1>20. Installs(r, e) /\ SentInTime(r, e)
    BY <1>4, <1>9, <1>15 DEF Installs, SentInTime
  <1> QED
    BY <1>1, <1>19, <1>20 DEF GoodStep

-----------------------------------------------------------------------------
(* The lap. *)

LEMMA BuiltInTime ==
  ASSUME NEW en, NEW r, Sound(en), OnlyBuiltSent(r, en), r.told => en.told
  PROVE  SentInTime(r, en)
  <1>1. en.told => AtRest(en)
    BY DEF Sound
  <1> QED
    BY <1>1 DEF OnlyBuiltSent, SentInTime, AtRest, Awaits

LEMMA HandInTime ==
  ASSUME NEW en, NEW r, Sound(en), SentFromHand(r, en), r.told => en.told
  PROVE  SentInTime(r, en)
  <1>1. en.told => AtRest(en)
    BY DEF Sound
  <1> QED
    BY <1>1 DEF SentFromHand, SentInTime, AtRest, Awaits

LEMMA NoneInTime ==
  ASSUME NEW en, NEW r, NoneSent(r, en)
  PROVE  SentInTime(r, en)
  BY DEF NoneSent, SentInTime

\* A lap's step that leaves the channel and the workers alone.
LEMMA LapGood ==
  ASSUME IInv, NEW u, NEW r, e' = r, UNCHANGED <<cmds, caller>>, ~e.closed,
         trading' \in Answers, farm' \in {"none", "dialling", "session", "error", "refused", "cancelled", "died"},
         Sound(u), Recovering(u, e), SentInTime(u, e), Engine(r), Same(r, u, Unseen),
         r.farmUp = u.farmUp, r.taken = u.taken, r.admitted = u.admitted, r.panicked = u.panicked, r.forced = u.forced,
         r.finished = e.finished \/ Backlog(r),
         SessionsAreCounted(u, trading'), LapInTurn(r), r.pc \notin Ending
  PROVE  GoodStep
  <1>1. Holds(e, trading, farm, cmds, caller) /\ sc \in Scenarios /\ Engine(e) /\ Engine(u) /\ cmds \in Seq(Commands)
    BY DEF IInv, Holds, Shaped, Sound
  <1>2. /\ Sound(r) /\ r.status = u.status /\ Owed(r) = Owed(u) /\ Spare(r) = Spare(u)
        /\ r.running = u.running /\ r.halted = u.halted /\ r.ccpUp = u.ccpUp /\ r.told = u.told
    BY UnseenDoes
  <1>3. Moves(r, e) /\ Owed(r) <= Owed(e)
    BY <1>2 DEF Recovering, Moves
  <1>4. "taken" \in Kept /\ "admitted" \in Kept /\ "panicked" \in Kept /\ "forced" \in Kept
    BY DEF Kept
  <1>5. r.taken = e.taken /\ r.admitted = e.admitted /\ r.panicked = e.panicked /\ r.forced = e.forced
    BY <1>4 DEF Recovering
  <1>6. /\ Channel(r, cmds) /\ Counted(r, cmds) /\ LossesAreOwed(r, cmds)
        /\ r.finished = e.finished => Backlog(r)
        /\ \A i \in 1 .. Len(r.notices) : r.notices[i] = "closed" => i = Len(r.notices)
        /\ ~r.running => Idle(r)
    BY <1>1, <1>2, <1>3, <1>5, LapKeeps
  <1>7. Backlog(r)
    BY <1>6
  <1>8. SessionsAreCounted(r, trading')
    BY <1>2 DEF SessionsAreCounted
  <1>9. EndInTurn(r, trading', farm')
    BY <1>6 DEF EndInTurn, Ending
  <1>10. Shaped(r, trading', farm', cmds, caller)
    BY <1>1 DEF Holds, Shaped, Answers
  <1>11. Holds(r, trading', farm', cmds, caller)
    BY <1>2, <1>6, <1>7, <1>8, <1>9, <1>10 DEF Holds
  <1>12. Installs(r, e) /\ SentInTime(r, e)
    BY <1>2 DEF Recovering, Installs, SentInTime
  <1> QED
    BY <1>11, <1>12 DEF GoodStep

LEMMA ReadSocketsGood ==
  ASSUME IInv, ReadSockets
  PROVE  GoodStep
  <1> DEFINE b == DrainAndSendOrders(LetGoOfTheHeld(e))
  <1>1. PICK u \in WorkedThrough(b) : e' = [u EXCEPT !.pc = "take", !.left = LapLimit]
    BY DEF ReadSockets
  <1> DEFINE r == [u EXCEPT !.pc = "take", !.left = LapLimit]
  <1>2. UNCHANGED <<trading, farm, cmds, caller>> /\ e.pc = "sockets"
    BY DEF ReadSockets, At
  <1>3. Engine(e) /\ Holds(e, trading, farm, cmds, caller) /\ sc \in Scenarios
    BY DEF IInv, Holds, Shaped
  <1>4. Sound(e) /\ ~e.closed
    BY <1>2, <1>3 DEF Holds, LapInTurn
  <1>5. Sound(b) /\ Steps(b, e) /\ Same(b, e, {"status", "sentOnce"}) /\ SentFromHand(b, e)
    BY <1>3, <1>4, LetGoAndDrainDoes
  <1> HIDE DEF b
  <1>7. Sound(u) /\ Steps(u, b) /\ Same(u, b, {"status", "answered"}) /\ NoneSent(u, b)
    BY <1>5, WorkedThroughDoes
  <1>8. Engine(b) /\ Engine(u)
    BY <1>5, <1>7 DEF Sound
  <1>9. Steps(u, e)
    BY <1>3, <1>5, <1>7, <1>8, StepsTwice
  <1>10. u.told = e.told /\ u.running = e.running
    BY <1>5, <1>7, FieldNames DEF Same
  <1>11. SentFromHand(u, e)
    BY <1>5, <1>7 DEF SentFromHand, NoneSent
  <1>13. SentInTime(u, e)
    BY <1>4, <1>10, <1>11, HandInTime
  <1>14. "take" \in Places /\ LapLimit \in 0 .. LapLimit
    BY <1>3, ScenarioIs DEF Places
  <1>15. Engine(r) /\ Same(r, u, {"pc", "left"}) /\ r.pc = "take"
    BY <1>8, <1>14, FieldNames, FieldTypes DEF Engine, Same
  <1> HIDE DEF r
  <1>16. /\ Same(r, u, Unseen) /\ r.farmUp = u.farmUp /\ r.taken = u.taken /\ r.admitted = u.admitted
         /\ r.panicked = u.panicked /\ r.forced = u.forced /\ r.finished = u.finished /\ r.closed = u.closed
    BY <1>15, FieldNames DEF Same, Unseen
  <1>17. "finished" \in Kept /\ "closed" \in Kept
    BY DEF Kept
  <1>18. r.finished = e.finished /\ ~r.closed
    BY <1>4, <1>9, <1>16, <1>17 DEF Steps
  <1>19. LapInTurn(r) /\ r.pc \notin Ending
    BY <1>15, <1>18 DEF LapInTurn, Ending
  <1>20. SessionsAreCounted(u, trading)
    BY <1>3, <1>9 DEF Holds, SessionsAreCounted, Steps
  <1>21. trading \in Answers /\ farm \in {"none", "dialling", "session", "error", "refused", "cancelled", "died"}
    BY <1>3 DEF Holds, Shaped, Answers
  <1>22. e' = r
    BY <1>1 DEF r
  <1> QED
    BY <1>2, <1>4, <1>7, <1>9, <1>13, <1>15, <1>16, <1>18, <1>19, <1>20, <1>21, <1>22, StepsRecover, LapGood

(* Taking from the channel. *)
LEMMA ChannelTaken ==
  ASSUME NEW T, NEW c \in Seq(T), c # <<>>, NEW en, NEW r, Channel(en, c),
         \A o \in Orders : r.status[o] = "queued" <=> en.status[o] = "queued" /\ o # Head(c)
  PROVE  Channel(r, Tail(c))
  <1> DEFINE d == Tail(c)
  <1>1. /\ Len(c) \in Nat /\ Len(c) # 0 /\ Len(d) = Len(c) - 1 /\ Head(c) = c[1]
        /\ \A i \in 1 .. Len(c) - 1 : d[i] = c[i + 1]
    OBVIOUS
  <1> HIDE DEF d
  <1>2. \A i \in 1 .. Len(d) : i + 1 \in 1 .. Len(c) /\ i + 1 # 1 /\ d[i] = c[i + 1]
    BY <1>1
  <1>3. 1 \in 1 .. Len(c)
    BY <1>1
  <1>4. \A o \in Orders : r.status[o] = "queued" => \E i \in 1 .. Len(d) : d[i] = o
    <2>1. SUFFICES ASSUME NEW o \in Orders, r.status[o] = "queued"
                   PROVE  \E i \in 1 .. Len(d) : d[i] = o
      OBVIOUS
    <2>2. en.status[o] = "queued" /\ o # c[1]
      BY <1>1, <2>1
    <2>3. PICK i \in 1 .. Len(c) : c[i] = o
      BY <2>2 DEF Channel
    <2>4. i - 1 \in 1 .. Len(d) /\ (i - 1) + 1 = i
      BY <1>1, <2>2, <2>3
    <2> QED
      BY <1>2, <2>3, <2>4
  <1>5. \A i \in 1 .. Len(d) : d[i] \in Orders => r.status[d[i]] = "queued"
    BY <1>1, <1>2, <1>3 DEF Channel
  <1>6. \A i, j \in 1 .. Len(d) : d[i] \in Orders /\ d[i] = d[j] => i = j
    <2>1. SUFFICES ASSUME NEW i \in 1 .. Len(d), NEW j \in 1 .. Len(d), d[i] \in Orders, d[i] = d[j]
                   PROVE  i = j
      OBVIOUS
    <2>2. i + 1 = j + 1
      BY <1>2, <2>1 DEF Channel
    <2> QED
      BY <2>2
  <1> QED
    BY <1>4, <1>5, <1>6 DEF Channel, d

\* One command fewer in the channel, and one more taken.
TakenBy(r, u, en) ==
  Engine(r) /\ Same(r, u, {"left", "taken"}) /\ r.taken = en.taken + 1 /\ r.left = en.left - 1

LEMMA OneTaken ==
  ASSUME NEW u, Engine(u), NEW en, Engine(en), sc \in Scenarios, u.left = en.left, u.taken = en.taken, en.left > 0
  PROVE  TakenBy([u EXCEPT !.left = @ - 1, !.taken = @ + 1], u, en)
  <1> DEFINE k == u.left - 1
             n == u.taken + 1
             r == [u EXCEPT !.left = k, !.taken = n]
  <1>1. u.left \in 0 .. LapLimit /\ u.taken \in Nat /\ LapLimit \in Nat /\ en.taken \in Nat
    BY Typed, ScenarioIs
  <1>2. k \in 0 .. LapLimit /\ n \in Nat /\ n = en.taken + 1 /\ k = en.left - 1
    BY <1>1
  <1>3. [u EXCEPT !.left = @ - 1, !.taken = @ + 1] = r
    OBVIOUS
  <1> HIDE DEF k, n
  <1>4. Engine(r) /\ Same(r, u, {"left", "taken"}) /\ r.taken = n /\ r.left = k
    BY <1>2, FieldNames, FieldTypes DEF Engine, Same
  <1> QED
    BY <1>2, <1>3, <1>4 DEF TakenBy

LEMMA TakeOrderGood ==
  ASSUME IInv, TakeCommand, Head(cmds) \in Orders
  PROVE  GoodStep
  <1> DEFINE h == Head(cmds)
             d == Tail(cmds)
  <1>1. /\ UNCHANGED <<trading, farm, caller>> /\ e.pc = "take" /\ e.left > 0 /\ cmds # <<>> /\ cmds' = d
        /\ TakeOrder(h)
    BY DEF TakeCommand, At
  <1>2. /\ Engine(e) /\ Holds(e, trading, farm, cmds, caller) /\ sc \in Scenarios /\ cmds \in Seq(Commands)
        /\ e.taken \in Nat /\ e.admitted \in Nat /\ e.finished \in Nat /\ e.forced \in Nat /\ Owed(e) \in Int
        /\ e.status \in [Orders -> Statuses]
    BY Typed, Figures DEF IInv, Holds, Shaped
  <1>3. Sound(e) /\ ~e.closed
    BY <1>1, <1>2 DEF Holds, LapInTurn
  <1>4. PICK st : /\ st \in {"refused", "built", "waiting"}
                  /\ ~e.running \/ e.logoutWritten => st = "refused"
                  /\ e' = [Become(e, {h}, st) EXCEPT !.left = @ - 1, !.taken = @ + 1]
    BY <1>1 DEF TakeOrder, Taken
  <1> DEFINE u == Become(e, {h}, st)
             r == [u EXCEPT !.left = @ - 1, !.taken = @ + 1]
  <1>5. st \in Statuses
    BY <1>4 DEF Statuses
  <1>6. Engine(u) /\ Same(u, e, {"status"}) /\ \A o \in Orders : u.status[o] = IF o = h THEN st ELSE e.status[o]
    BY <1>2, <1>5, BecomeDoes
  <1> HIDE DEF u
  <1>7. u.left = e.left /\ u.taken = e.taken
    BY <1>6, FieldNames DEF Same
  <1>8. TakenBy(r, u, e)
    BY <1>1, <1>2, <1>6, <1>7, OneTaken
  <1>9. e' = r
    BY <1>4 DEF u
  <1> HIDE DEF r
  <1>10. /\ Engine(r) /\ r.taken = e.taken + 1 /\ r.status = u.status
         /\ \A z \in Fields \ {"status", "left", "taken"} : r[z] = e[z]
    BY <1>6, <1>8, FieldNames DEF TakenBy, Same
  <1>11. /\ r.closed = e.closed /\ r.notices = e.notices /\ r.halted = e.halted
         /\ r.running = e.running /\ r.dropSaid = e.dropSaid /\ r.ccpUp = e.ccpUp
         /\ r.lossAnnounced = e.lossAnnounced /\ r.sessionOver = e.sessionOver
         /\ r.linkUp = e.linkUp /\ r.told = e.told /\ r.logoutWritten = e.logoutWritten
         /\ r.drops = e.drops /\ r.gone = e.gone /\ r.open = e.open /\ r.finishing = e.finishing
         /\ r.pc = e.pc /\ r.admitted = e.admitted /\ r.farmUp = e.farmUp
         /\ r.finished = e.finished /\ r.panicked = e.panicked /\ r.forced = e.forced /\ r.over = e.over
    BY <1>10, FieldNames
  <1>12. \A o \in Orders : r.status[o] = IF o = h THEN st ELSE e.status[o]
    BY <1>6, <1>10
  <1>13. /\ Channel(e, cmds) /\ Counted(e, cmds) /\ Backlog(e) /\ LossesAreOwed(e, cmds)
    BY <1>2 DEF Holds
  <1>14. e.status[h] = "queued"
    <2>1. 1 \in 1 .. Len(cmds) /\ cmds[1] = h
      BY <1>1, <1>2
    <2> QED
      BY <1>13, <2>1 DEF Channel
  <1>15. /\ st = "refused" => (Idle(e) => Idle(r)) /\ (AtRest(e) => AtRest(r))
         /\ HeldToRecover(e) => HeldToRecover(r)
    BY <1>4, <1>12 DEF Idle, AtRest, Awaits, HeldToRecover, InHand
  <1>16. Sound(r)
    BY <1>3, <1>4, <1>10, <1>11, <1>15 DEF Sound
  <1>17. Channel(r, d)
    <2>1. \A o \in Orders : r.status[o] = "queued" <=> e.status[o] = "queued" /\ o # Head(cmds)
      BY <1>4, <1>12
    <2> QED
      BY <1>1, <1>2, <1>13, <2>1, ChannelTaken
  <1>18. d \in Seq(Commands) /\ Len(cmds) \in Nat /\ Len(d) = Len(cmds) - 1
    BY <1>1, <1>2
  <1> HIDE DEF d
  <1>19. Counted(r, d)
    <2>1. Past(r) = Past(e) \cup {h} /\ Past(e) \subseteq Orders
      BY <1>4, <1>12, <1>14 DEF Past
    <2>2. h \notin Past(e)
      BY <1>14 DEF Past
    <2>3. IsFiniteSet(Past(e)) /\ Cardinality(Past(e)) \in Nat
      BY <1>2, <2>1, SomeOrders
    <2>4. Cardinality(Past(r)) = Cardinality(Past(e)) + 1
      BY <2>1, <2>2, <2>3, FS_AddElement
    <2>5. e.taken + Len(cmds) = e.admitted /\ Cardinality(Past(e)) <= e.taken
      BY <1>13 DEF Counted
    <2>6. r.taken + Len(d) = r.admitted
      BY <1>2, <1>10, <1>11, <1>18, <2>5
    <2>7. Cardinality(Past(r)) <= r.taken
      BY <1>2, <1>10, <2>3, <2>4, <2>5
    <2> QED
      BY <2>6, <2>7 DEF Counted
  <1>20. Owed(r) = Owed(e) /\ Spare(r) = Spare(e)
    BY <1>11 DEF Owed, Spare
  <1>21. LossesAreOwed(r, d)
    <2>1. ForcesIn(d) + (IF h = "ForceDisconnect" THEN 1 ELSE 0) <= ForcesIn(cmds)
      BY <1>1, <1>2, CountTaken DEF ForcesIn, d
    <2>2. ForcesIn(d) \in Nat /\ ForcesIn(cmds) \in Nat
      BY <1>2, <1>18, CountIsNat DEF ForcesIn
    <2>3. ForcesIn(d) <= ForcesIn(cmds)
      BY <2>1, <2>2
    <2> QED
      BY <1>2, <1>11, <1>13, <1>20, <2>2, <2>3 DEF LossesAreOwed
  <1>22. Backlog(r)
    <2>1. OpenOrders(r) \subseteq OpenOrders(e) /\ OpenOrders(e) \subseteq Orders
      BY <1>12, <1>14 DEF OpenOrders, Open
    <2>2. /\ Cardinality(OpenOrders(r)) \in Nat /\ Cardinality(OpenOrders(e)) \in Nat
          /\ Cardinality(OpenOrders(r)) <= Cardinality(OpenOrders(e))
      BY <1>2, <2>1, FewerOrders
    <2>3. ~e.panicked => e.finished + Cardinality(OpenOrders(e)) <= e.admitted
      BY <1>13 DEF Backlog
    <2> QED
      BY <1>2, <1>11, <2>2, <2>3 DEF Backlog
  <1>23. SessionsAreCounted(r, trading)
    BY <1>2, <1>11, <1>20 DEF Holds, SessionsAreCounted
  <1>24. LapInTurn(r) /\ EndInTurn(r, trading, farm)
    BY <1>1, <1>3, <1>11, <1>16, NoticesEnd DEF LapInTurn, EndInTurn, Ending, Sound
  <1>25. Holds(r, trading, farm, d, caller)
    BY <1>2, <1>10, <1>16, <1>17, <1>18, <1>19, <1>21, <1>22, <1>23, <1>24 DEF Holds, Shaped
  <1>26. Installs(r, e) /\ SentInTime(r, e)
    BY <1>4, <1>11, <1>12 DEF Installs, SentInTime
  <1> QED
    BY <1>1, <1>9, <1>25, <1>26 DEF GoodStep

LEMMA PhaseSet ==
  ASSUME NEW en, Sound(en), en.running, ~en.logoutWritten, NEW x \in Phases
  PROVE  LET r == [en EXCEPT !.finishing = x]
         IN  Sound(r) /\ Steps(r, en) /\ r.status = en.status /\ r.told = en.told
  <1> DEFINE r == [en EXCEPT !.finishing = x]
  <1>0. Engine(en)
    BY DEF Sound
  <1>1. Engine(r) /\ Same(r, en, {"finishing"})
    BY <1>0, FieldNames, FieldTypes DEF Engine, Same
  <1> HIDE DEF r
  <1>2. \A f \in Fields \ {"finishing"} : r[f] = en[f]
    BY <1>1 DEF Same
  <1>3. /\ r.closed = en.closed /\ r.notices = en.notices /\ r.halted = en.halted
        /\ r.running = en.running /\ r.dropSaid = en.dropSaid /\ r.ccpUp = en.ccpUp
        /\ r.lossAnnounced = en.lossAnnounced /\ r.sessionOver = en.sessionOver
        /\ r.linkUp = en.linkUp /\ r.told = en.told /\ r.logoutWritten = en.logoutWritten
        /\ r.drops = en.drops /\ r.gone = en.gone /\ r.open = en.open /\ r.status = en.status
        /\ r.farmUp = en.farmUp /\ r.admissionClosed = en.admissionClosed /\ r.over = en.over
    BY <1>2, FieldNames
  <1>4. Sound(r)
    BY <1>1, <1>3 DEF Sound, Idle, AtRest, HeldToRecover
  <1>5. Owed(r) = Owed(en) /\ Spare(r) = Spare(en) /\ Moves(r, en)
    BY <1>3, MovesNone DEF Owed, Spare
  <1>6. \A f \in Kept : r[f] = en[f]
    BY <1>2, FieldNames DEF Kept
  <1>7. Owed(r) <= Owed(en)
    BY <1>0, <1>5, Figures
  <1>8. Steps(r, en)
    BY <1>3, <1>5, <1>6, <1>7 DEF Steps
  <1> QED
    BY <1>3, <1>4, <1>8 DEF r

(* A Logout, a Shutdown or a ForceDisconnect is carried out. *)
Others == {"Logout", "Shutdown", "ForceDisconnect"}

LEMMA CarriedDoes ==
  ASSUME NEW en, Sound(en), NEW cmd \in Others
  PROVE  LET u == Carried(en, cmd)
         IN  /\ Sound(u) /\ Moves(u, en) /\ Spare(u) = Spare(en) /\ \A f \in Kept : u[f] = en[f]
             /\ Owed(u) <= Owed(en) + (IF cmd = "ForceDisconnect" THEN 1 ELSE 0)
             /\ u.ccpUp => en.ccpUp
             /\ u.farmUp => en.farmUp
             /\ OnlyBuiltSent(u, en) /\ u.told = en.told
  <1> DEFINE u == Carried(en, cmd)
  <1>0. Engine(en) /\ Owed(en) \in Int /\ en.finishing \in Phases
    BY Typed, Figures DEF Sound
  <1>1. ASSUME NEW v, Sound(v), Steps(v, en), OnlyBuiltSent(v, en), v.told = en.told, u = v
        PROVE  /\ Sound(u) /\ Moves(u, en) /\ Spare(u) = Spare(en) /\ \A f \in Kept : u[f] = en[f]
               /\ Owed(u) <= Owed(en) + (IF cmd = "ForceDisconnect" THEN 1 ELSE 0)
               /\ u.ccpUp => en.ccpUp
               /\ u.farmUp => en.farmUp
               /\ OnlyBuiltSent(u, en) /\ u.told = en.told
    <2> HIDE DEF u
    <2>1. Owed(v) \in Int
      BY <1>1, Figures DEF Sound
    <2>2. Owed(u) <= Owed(en) + (IF cmd = "ForceDisconnect" THEN 1 ELSE 0)
      BY <1>0, <1>1, <2>1 DEF Steps
    <2> QED
      BY <1>1, <2>2 DEF Steps
  <1>2. CASE ~en.running
    <2>1. u = en
      BY <1>2 DEF Carried
    <2>2. Steps(en, en) /\ OnlyBuiltSent(en, en)
      BY <1>0, StepsNone DEF OnlyBuiltSent
    <2> QED
      BY <1>1, <2>1, <2>2
  <1>3. CASE en.running /\ cmd = "Logout"
    <2>1. u = BeginFinishing(en, FALSE)
      BY <1>3 DEF Carried
    <2> QED
      BY <1>1, <1>3, <2>1, BeginFinishingDoes
  <1>4. CASE en.running /\ cmd = "Shutdown" /\ en.finishing = "none"
    <2>1. u = Stop(en)
      BY <1>4 DEF Carried
    <2>2. Sound(Stop(en)) /\ Steps(Stop(en), en) /\ OnlyBuiltSent(Stop(en), en) /\ Same(Stop(en), en, Stopping)
      BY <1>4, StopDoes
    <2>3. Stop(en).told = en.told
      BY <2>2, FieldNames DEF Same, Stopping
    <2> QED
      BY <1>1, <2>1, <2>2, <2>3
  <1>5. CASE en.running /\ cmd = "Shutdown" /\ en.finishing # "none"
    <2> DEFINE v == [en EXCEPT !.finishing = "stopping"]
    <2>1. u = v
      BY <1>5 DEF Carried
    <2>2. ~en.logoutWritten /\ "stopping" \in Phases
      BY <1>5 DEF Sound, Phases
    <2>3. Sound(v) /\ Steps(v, en) /\ v.status = en.status /\ v.told = en.told
      BY <1>5, <2>2, PhaseSet
    <2> HIDE DEF v
    <2>4. OnlyBuiltSent(v, en)
      BY <2>3 DEF OnlyBuiltSent
    <2> HIDE DEF u
    <2> QED
      BY <1>1, <2>1, <2>3, <2>4 DEF u
  <1>6. CASE en.running /\ cmd = "ForceDisconnect"
    <2> DEFINE s == HandleDisconnect(en)
               v == HandleFarmDisconnect(s)
    <2>1. u = v
      BY <1>6 DEF Carried
    <2>2. /\ Sound(s) /\ Spare(s) = Spare(en) /\ Owed(s) <= Owed(en) + 1 /\ ~s.ccpUp /\ s.status = en.status
          /\ Same(s, en, {"ccpUp", "settling", "over", "open", "answered"})
      BY DisconnectDoes
    <2> HIDE DEF s
    <2>3. Sound(v) /\ Steps(v, s) /\ NoneSent(v, s) /\ Same(v, s, {"farmUp"})
      BY <2>2, FarmDisconnectDoes
    <2> HIDE DEF v
    <2>4. Same(v, en, {"ccpUp", "settling", "over", "open", "answered", "farmUp"})
      BY <2>2, <2>3 DEF Same
    <2>5. /\ v.told = en.told /\ v.status = en.status /\ v.ccpUp = s.ccpUp
          /\ \A f \in Kept : v[f] = en[f]
      BY <2>3, <2>4, FieldNames DEF Same, Kept
    <2>6. Owed(v) <= Owed(en) + 1 /\ Spare(v) = Spare(en)
      <3>1. Owed(v) \in Int /\ Owed(s) \in Int
        BY <2>2, <2>3, Figures DEF Sound
      <3> QED
        BY <1>0, <2>2, <2>3, <3>1 DEF Steps
    <2>7. Moves(v, en)
      BY <2>5, MovesNone
    <2>8. s.farmUp = en.farmUp
      BY <2>2, FieldNames DEF Same
    <2>9. v.farmUp => en.farmUp
      BY <2>3, <2>8 DEF Steps
    <2> HIDE DEF u
    <2> QED
      BY <1>6, <2>1, <2>2, <2>3, <2>5, <2>6, <2>7, <2>9 DEF OnlyBuiltSent, u
  <1> QED
    BY <1>2, <1>3, <1>4, <1>5, <1>6 DEF Others

LEMMA TakeOtherGood ==
  ASSUME IInv, TakeCommand, Head(cmds) \notin Orders
  PROVE  GoodStep
  <1> DEFINE h == Head(cmds)
             d == Tail(cmds)
             u == Carried(e, h)
             r == [u EXCEPT !.left = @ - 1, !.taken = @ + 1]
  <1>1. /\ UNCHANGED <<trading, farm, caller>> /\ e.pc = "take" /\ e.left > 0 /\ cmds # <<>> /\ cmds' = d
        /\ e' = r
    BY DEF TakeCommand, At
  <1>2. /\ Engine(e) /\ Holds(e, trading, farm, cmds, caller) /\ sc \in Scenarios /\ cmds \in Seq(Commands)
        /\ e.taken \in Nat /\ e.admitted \in Nat /\ e.finished \in Nat /\ e.forced \in Nat /\ Owed(e) \in Int
    BY Typed, Figures DEF IInv, Holds, Shaped
  <1>3. Sound(e) /\ ~e.closed
    BY <1>1, <1>2 DEF Holds, LapInTurn
  <1>4. h \in Others
    <2>1. h \in Commands
      BY <1>1, <1>2
    <2> QED
      BY <2>1 DEF Commands, Others
  <1>5. /\ Sound(u) /\ Moves(u, e) /\ Spare(u) = Spare(e) /\ \A f \in Kept : u[f] = e[f]
        /\ Owed(u) <= Owed(e) + (IF h = "ForceDisconnect" THEN 1 ELSE 0)
        /\ u.ccpUp => e.ccpUp
        /\ u.farmUp => e.farmUp
        /\ OnlyBuiltSent(u, e) /\ u.told = e.told
    BY <1>3, <1>4, CarriedDoes
  <1> HIDE DEF u
  <1>6. Engine(u) /\ Owed(u) \in Int
    BY <1>5, Figures DEF Sound
  <1>7. /\ u.left = e.left /\ u.taken = e.taken /\ u.admitted = e.admitted /\ u.finished = e.finished
        /\ u.pc = e.pc /\ u.closed = e.closed /\ u.panicked = e.panicked /\ u.forced = e.forced
    BY <1>5 DEF Kept
  <1>8. TakenBy(r, u, e)
    BY <1>1, <1>2, <1>6, <1>7, OneTaken
  <1> HIDE DEF r
  <1>9. /\ Engine(r) /\ r.taken = e.taken + 1 /\ \A z \in Fields \ {"left", "taken"} : r[z] = u[z]
    BY <1>8 DEF TakenBy, Same
  <1>10. Same(r, u, Unseen)
    BY <1>9 DEF Same, Unseen
  <1>11. /\ Sound(r) /\ r.status = u.status /\ Owed(r) = Owed(u) /\ Spare(r) = Spare(u)
         /\ r.ccpUp = u.ccpUp /\ r.told = u.told
    BY <1>5, <1>9, <1>10, UnseenDoes
  <1>12. /\ r.farmUp = u.farmUp /\ r.admitted = e.admitted /\ r.finished = e.finished /\ r.pc = e.pc
         /\ r.closed = e.closed /\ r.panicked = e.panicked /\ r.forced = e.forced
    BY <1>7, <1>9, FieldNames
  <1>13. Moves(r, e)
    BY <1>5, <1>11 DEF Moves
  <1>14. /\ Channel(e, cmds) /\ Counted(e, cmds) /\ Backlog(e) /\ LossesAreOwed(e, cmds)
    BY <1>2 DEF Holds
  <1>15. Channel(r, d)
    <2>1. \A o \in Orders : r.status[o] = "queued" <=> e.status[o] = "queued" /\ o # Head(cmds)
      BY <1>13 DEF Moves
    <2> QED
      BY <1>1, <1>2, <1>14, <2>1, ChannelTaken
  <1>16. d \in Seq(Commands) /\ Len(cmds) \in Nat /\ Len(d) = Len(cmds) - 1
    BY <1>1, <1>2
  <1>17. ForcesIn(d) + (IF h = "ForceDisconnect" THEN 1 ELSE 0) <= ForcesIn(cmds)
    BY <1>1, <1>2, CountTaken DEF ForcesIn
  <1> HIDE DEF d
  <1>18. ForcesIn(d) \in Nat /\ ForcesIn(cmds) \in Nat
    BY <1>2, <1>16, CountIsNat DEF ForcesIn
  <1>19. LossesAreOwed(r, d)
    BY <1>2, <1>5, <1>6, <1>11, <1>12, <1>14, <1>17, <1>18 DEF LossesAreOwed
  <1>20. Counted(r, d)
    <2>1. Past(r) = Past(e)
      BY <1>13 DEF Past, Moves
    <2>2. e.taken + Len(cmds) = e.admitted /\ Cardinality(Past(e)) <= e.taken
      BY <1>14 DEF Counted
    <2>3. Cardinality(Past(e)) \in Nat
      BY <1>2, SomeOrders DEF Past
    <2>4. r.taken + Len(d) = r.admitted
      BY <1>2, <1>9, <1>12, <1>16, <2>2
    <2>5. Cardinality(Past(r)) <= r.taken
      BY <1>2, <1>9, <2>1, <2>2, <2>3
    <2> QED
      BY <2>4, <2>5 DEF Counted
  <1>21. Backlog(r)
    <2>1. r.status \in [Orders -> Statuses] /\ e.status \in [Orders -> Statuses]
      BY <1>2, <1>9, Typed
    <2>2. OpenOrders(r) \subseteq OpenOrders(e) /\ OpenOrders(e) \subseteq Orders
      BY <1>13, <2>1 DEF Moves, Awaits, OpenOrders, Open, Statuses
    <2>3. /\ Cardinality(OpenOrders(r)) \in Nat /\ Cardinality(OpenOrders(e)) \in Nat
          /\ Cardinality(OpenOrders(r)) <= Cardinality(OpenOrders(e))
      BY <1>2, <2>2, FewerOrders
    <2>4. ~e.panicked => e.finished + Cardinality(OpenOrders(e)) <= e.admitted
      BY <1>14 DEF Backlog
    <2> QED
      BY <1>2, <1>12, <2>3, <2>4 DEF Backlog
  <1>22. SessionsAreCounted(r, trading)
    BY <1>2, <1>5, <1>11 DEF Holds, SessionsAreCounted
  <1>23. LapInTurn(r) /\ EndInTurn(r, trading, farm)
    BY <1>1, <1>3, <1>11, <1>12, NoticesEnd DEF LapInTurn, EndInTurn, Ending, Sound
  <1>24. Holds(r, trading, farm, d, caller)
    BY <1>2, <1>9, <1>11, <1>15, <1>16, <1>19, <1>20, <1>21, <1>22, <1>23 DEF Holds, Shaped
  <1>25. SentInTime(u, e)
    BY <1>3, <1>5, BuiltInTime
  <1>26. Installs(r, e) /\ SentInTime(r, e)
    BY <1>5, <1>11, <1>12, <1>25 DEF Installs, SentInTime
  <1> QED
    BY <1>1, <1>24, <1>26 DEF GoodStep

(* The backlog at the end of the lap's take. *)
LEMMA QueueIsShort ==
  ASSUME sc \in Scenarios, NEW en, NEW c \in Seq(Commands), Channel(en, c)
  PROVE  LET Q == {o \in Orders : en.status[o] = "queued"}
         IN  IsFiniteSet(Q) /\ Cardinality(Q) \in Nat /\ Cardinality(Q) <= Len(c)
  <1> DEFINE Q == {o \in Orders : en.status[o] = "queued"}
             I == 1 .. Len(c)
             g == [o \in Q |-> CHOOSE i \in I : c[i] = o]
  <1>1. Len(c) \in Nat
    OBVIOUS
  <1>2. IsFiniteSet(I) /\ Cardinality(I) = Len(c)
    BY <1>1, FS_Interval
  <1>3. \A o \in Q : \E i \in I : c[i] = o
    BY DEF Channel
  <1>4. \A o \in Q : g[o] \in I /\ c[g[o]] = o
    BY <1>3
  <1> HIDE DEF I
  <1>5. g \in [Q -> I]
    BY <1>4
  <1> HIDE DEF g
  <1>6. \A o, p \in Q : g[o] = g[p] => o = p
    BY <1>4
  <1>7. g \in Injection(Q, I)
    BY <1>5, <1>6 DEF Injection, IsInjective
  <1>8. IsFiniteSet(Q) /\ Cardinality(Q) \in Nat
    BY SomeOrders
  <1> HIDE DEF Q
  <1>9. Cardinality(Q) <= Cardinality(I)
    BY <1>2, <1>7, FS_Injection
  <1> QED
    BY <1>2, <1>8, <1>9 DEF Q

LEMMA HeldAreCounted ==
  ASSUME sc \in Scenarios, NEW en, NEW c \in Seq(Commands), Sound(en), Channel(en, c), Counted(en, c)
  PROVE  /\ en.taken - CommandsHeld(en) \in Nat
         /\ (en.taken - CommandsHeld(en)) + Cardinality(OpenOrders(en)) <= en.admitted
  <1> DEFINE H == In(en, "waiting") \cup In(en, "held") \cup In(en, "built")
             K == IF en.running THEN H ELSE {}
             Q == {o \in Orders : en.status[o] = "queued"}
  <1>1. /\ Engine(en) /\ en.status \in [Orders -> Statuses] /\ en.taken \in Nat /\ en.admitted \in Nat
        /\ en.running \in BOOLEAN
    BY Typed DEF Sound
  <1>2. K \subseteq Past(en) /\ Past(en) \subseteq Orders
    BY DEF In, Past
  <1>3. /\ Cardinality(K) \in Nat /\ Cardinality(Past(en)) \in Nat /\ Cardinality(K) <= Cardinality(Past(en))
        /\ IsFiniteSet(K)
    BY <1>2, FewerOrders, SomeOrders
  <1>4. CommandsHeld(en) = Cardinality(K)
    BY FS_EmptySet DEF CommandsHeld
  <1>5. Cardinality(Past(en)) <= en.taken /\ en.taken + Len(c) = en.admitted
    BY DEF Counted
  <1>6. en.taken - CommandsHeld(en) \in Nat
    BY <1>1, <1>3, <1>4, <1>5
  <1>7. IsFiniteSet(Q) /\ Cardinality(Q) \in Nat /\ Cardinality(Q) <= Len(c)
    BY QueueIsShort
  <1>8. OpenOrders(en) = K \cup Q
    BY <1>1 DEF Sound, Idle, InHand, In, OpenOrders, Open
  <1> HIDE DEF K, Q
  <1>9. Cardinality(K \cup Q) <= Cardinality(K) + Cardinality(Q) /\ Cardinality(K \cup Q) \in Nat
    <2>1. /\ IsFiniteSet(K \cup Q) /\ IsFiniteSet(K \cap Q)
          /\ Cardinality(K \cup Q) = Cardinality(K) + Cardinality(Q) - Cardinality(K \cap Q)
      BY <1>3, <1>7, FS_Union, FS_Intersection
    <2>2. Cardinality(K \cap Q) \in Nat /\ Cardinality(K \cup Q) \in Nat
      BY <2>1, FS_CardinalityType
    <2> QED
      BY <1>3, <1>7, <2>1, <2>2
  <1>10. Len(c) \in Nat
    OBVIOUS
  <1>11. (en.taken - CommandsHeld(en)) + Cardinality(OpenOrders(en)) <= en.admitted
    <2>1. (en.taken - Cardinality(K)) + Cardinality(K \cup Q) <= en.admitted
      BY <1>1, <1>3, <1>5, <1>7, <1>9, <1>10
    <2> QED
      BY <1>4, <1>8, <2>1
  <1> QED
    BY <1>6, <1>11

LEMMA BeginFinishingSends ==
  ASSUME NEW en, Sound(en), en.running, NEW stop \in BOOLEAN
  PROVE  BeginFinishing(en, stop).status = en.status \/ BeginFinishing(en, stop).finishing = "none"
  <1>0. Engine(en) /\ en.logoutWritten \in BOOLEAN
    BY Typed DEF Sound
  <1>1. CASE en.logoutWritten /\ stop
    <2>1. BeginFinishing(en, stop) = Stop(en) /\ en.finishing = "none"
      BY <1>1 DEF BeginFinishing, Sound
    <2>2. Same(Stop(en), en, Stopping)
      BY <2>1, StopDoes
    <2>3. Stop(en).finishing = en.finishing
      BY <2>2, FieldNames DEF Same, Stopping
    <2> QED
      BY <2>1, <2>3
  <1>2. CASE en.logoutWritten /\ ~stop
    BY <1>2 DEF BeginFinishing
  <1>3. CASE ~en.logoutWritten
    <2> DEFINE s == CancelRecovery(en)
               x == IF stop \/ s.finishing = "stopping" THEN "stopping" ELSE "phase"
               r == [s EXCEPT !.finishing = x]
    <2>1. BeginFinishing(en, stop) = r
      BY <1>3 DEF BeginFinishing
    <2>2. Sound(s) /\ Same(s, en, {"cancel"})
      BY CancelDoes
    <2> HIDE DEF s, x
    <2>3. r.status = s.status
      BY <2>2, FieldNames DEF Engine, Sound
    <2>4. s.status = en.status
      BY <2>2, FieldNames DEF Same
    <2> QED
      BY <2>1, <2>3, <2>4
  <1> QED
    BY <1>0, <1>1, <1>2, <1>3

LEMMA EndTakeGood ==
  ASSUME IInv, EndTake
  PROVE  GoodStep
  <1> DEFINE refused == IF e.running THEN e ELSE RefuseWhatIsLeft(e)
             begins == SendersDropped /\ e.running /\ e.finishing # "stopping"
             begun == IF begins THEN BeginFinishing(refused, TRUE) ELSE refused
             done == FinishWhenTheOrdersAreDone(begun)
             p == IF done.running /\ done.finishing = "none" THEN "farm" ELSE "spawn"
             n == done.taken - CommandsHeld(done)
             r == [done EXCEPT !.pc = p, !.left = 0, !.finished = n]
  <1>1. e' = r /\ UNCHANGED <<trading, farm, cmds, caller>> /\ e.pc = "take"
    BY DEF EndTake, At
  <1>2. /\ Engine(e) /\ Holds(e, trading, farm, cmds, caller) /\ sc \in Scenarios /\ cmds \in Seq(Commands)
        /\ e.running \in BOOLEAN
    BY Typed DEF IInv, Holds, Shaped
  <1>3. Sound(e) /\ ~e.closed
    BY <1>1, <1>2 DEF Holds, LapInTurn
  <1>4. /\ Sound(refused) /\ Steps(refused, e) /\ NoneSent(refused, e) /\ refused.told = e.told
        /\ refused.running = e.running
    <2>1. CASE e.running
      BY <1>2, <1>3, <2>1, StepsNone DEF NoneSent
    <2>2. CASE ~e.running
      <3>1. refused = RefuseWhatIsLeft(e)
        BY <2>2
      <3>2. /\ Sound(RefuseWhatIsLeft(e)) /\ Steps(RefuseWhatIsLeft(e), e)
            /\ Same(RefuseWhatIsLeft(e), e, {"status"})
            /\ \A o \in Orders : RefuseWhatIsLeft(e).status[o] =
                                IF e.status[o] = "built" THEN "refused" ELSE e.status[o]
        BY <1>3, RefuseLeftDoes
      <3> HIDE DEF refused
      <3>3. refused.told = e.told /\ refused.running = e.running
        BY <3>1, <3>2, FieldNames DEF Same
      <3>4. NoneSent(refused, e)
        BY <3>1, <3>2 DEF NoneSent
      <3> QED
        BY <3>1, <3>2, <3>3, <3>4
    <2> QED
      BY <2>1, <2>2
  <1> HIDE DEF refused
  <1>5. /\ Sound(begun) /\ Steps(begun, refused) /\ OnlyBuiltSent(begun, refused) /\ begun.told = refused.told
        /\ begun.status = refused.status \/ begun.finishing = "none"
    <2>1. CASE begins
      <3>1. begun = BeginFinishing(refused, TRUE)
        BY <2>1
      <3>2. refused.running
        BY <1>4, <2>1
      <3>3. /\ Sound(BeginFinishing(refused, TRUE)) /\ Steps(BeginFinishing(refused, TRUE), refused)
            /\ OnlyBuiltSent(BeginFinishing(refused, TRUE), refused)
            /\ BeginFinishing(refused, TRUE).told = refused.told
        BY <1>4, <3>2, BeginFinishingDoes
      <3>4. BeginFinishing(refused, TRUE).status = refused.status \/ BeginFinishing(refused, TRUE).finishing = "none"
        BY <1>4, <3>2, BeginFinishingSends
      <3> HIDE DEF begun
      <3> QED
        BY <3>1, <3>3, <3>4
    <2>2. CASE ~begins
      <3>1. begun = refused
        BY <2>2
      <3>2. Steps(refused, refused) /\ OnlyBuiltSent(refused, refused)
        BY <1>4, StepsNone DEF Sound, OnlyBuiltSent
      <3> HIDE DEF begun
      <3> QED
        BY <1>4, <3>1, <3>2
    <2> QED
      BY <2>1, <2>2
  <1> HIDE DEF begun
  <1>6. /\ Sound(done) /\ Steps(done, begun) /\ OnlyBuiltSent(done, begun)
        /\ NoneSent(done, begun)
    BY <1>5, FinishDoes
  <1>7. begun.finishing = "none" => done = begun
    BY DEF FinishWhenTheOrdersAreDone
  <1> HIDE DEF done
  <1>8. Engine(refused) /\ Engine(begun) /\ Engine(done)
    BY <1>4, <1>5, <1>6 DEF Sound
  <1>9. Steps(done, e)
    <2>1. Steps(begun, e)
      BY <1>2, <1>4, <1>5, <1>8, StepsTwice
    <2> QED
      BY <1>2, <1>6, <1>8, <2>1, StepsTwice
  <1>10. refused.told => AtRest(refused)
    BY <1>4 DEF Sound
  <1>11. SentInTime(done, e)
    <2>1. SUFFICES ASSUME NEW o \in Orders, e.status[o] # "sent", done.status[o] = "sent", done.told
                   PROVE  FALSE
      BY DEF SentInTime
    <2>2. begun.status[o] = "sent"
      BY <1>6, <2>1 DEF NoneSent
    <2>3. refused.status[o] # "sent"
      BY <1>4, <2>1 DEF NoneSent
    <2>4. begun.finishing = "none"
      BY <1>5, <2>2, <2>3
    <2>5. AtRest(refused)
      BY <1>5, <1>7, <1>10, <2>1, <2>4
    <2> QED
      BY <1>5, <2>2, <2>3, <2>5 DEF OnlyBuiltSent, AtRest, Awaits
  <1>12. \A f \in Kept : done[f] = e[f]
    BY <1>9 DEF Steps
  <1>13. /\ done.taken = e.taken /\ done.admitted = e.admitted /\ done.panicked = e.panicked
         /\ done.forced = e.forced /\ done.closed = e.closed /\ done.finished = e.finished
    BY <1>12 DEF Kept
  <1>14. Channel(done, cmds) /\ Counted(done, cmds)
    BY <1>2, <1>8, <1>9, <1>13, CountsAreKept DEF Holds, Steps
  <1>15. n \in Nat /\ n + Cardinality(OpenOrders(done)) <= done.admitted
    BY <1>2, <1>6, <1>14, HeldAreCounted
  <1>16. p \in Places /\ 0 \in 0 .. LapLimit
    BY <1>2, ScenarioIs DEF Places
  <1>17. p = "farm" => done.running /\ done.finishing = "none"
    OBVIOUS
  <1>18. p = "spawn" => ~(done.running /\ done.finishing = "none")
    OBVIOUS
  <1>19. p \in {"farm", "spawn"}
    OBVIOUS
  <1> HIDE DEF n, p
  <1>20. Engine(r) /\ Same(r, done, {"pc", "left", "finished"}) /\ r.pc = p /\ r.finished = n
    BY <1>8, <1>15, <1>16, FieldNames, FieldTypes DEF Engine, Same
  <1> HIDE DEF r
  <1>21. /\ Same(r, done, Unseen) /\ r.farmUp = done.farmUp /\ r.taken = done.taken /\ r.admitted = done.admitted
         /\ r.panicked = done.panicked /\ r.forced = done.forced /\ r.closed = done.closed
         /\ r.running = done.running /\ r.finishing = done.finishing /\ r.status = done.status
    BY <1>20, FieldNames DEF Same, Unseen
  <1>22. Backlog(r)
    <2>1. OpenOrders(r) = OpenOrders(done)
      BY <1>21 DEF OpenOrders
    <2> QED
      BY <1>15, <1>20, <1>21, <2>1 DEF Backlog
  <1>23. LapInTurn(r) /\ r.pc \notin Ending
    BY <1>3, <1>13, <1>17, <1>18, <1>19, <1>20, <1>21 DEF LapInTurn, Ending
  <1>24. SessionsAreCounted(done, trading)
    BY <1>2, <1>9 DEF Holds, SessionsAreCounted, Steps
  <1>25. trading \in Answers /\ farm \in {"none", "dialling", "session", "error", "refused", "cancelled", "died"}
    BY <1>2 DEF Holds, Shaped, Answers
  <1>26. Recovering(done, e)
    BY <1>9, StepsRecover
  <1> QED
    BY <1>1, <1>3, <1>6, <1>11, <1>20, <1>21, <1>22, <1>23, <1>24, <1>25, <1>26, LapGood

LEMMA PlaceSet ==
  ASSUME NEW en, Engine(en), NEW p \in Places
  PROVE  LET r == [en EXCEPT !.pc = p]
         IN  /\ Engine(r) /\ r.pc = p /\ Same(r, en, Unseen)
             /\ r.farmUp = en.farmUp /\ r.taken = en.taken /\ r.admitted = en.admitted /\ r.closed = en.closed
             /\ r.panicked = en.panicked /\ r.forced = en.forced /\ r.finished = en.finished
             /\ r.running = en.running /\ r.finishing = en.finishing /\ r.halted = en.halted
             /\ r.ccpUp = en.ccpUp /\ r.linkUp = en.linkUp /\ r.admissionClosed = en.admissionClosed
             /\ r.status = en.status
  <1> DEFINE r == [en EXCEPT !.pc = p]
  <1>1. Engine(r) /\ r.pc = p /\ Same(r, en, {"pc"})
    BY FieldNames, FieldTypes DEF Engine, Same
  <1> HIDE DEF r
  <1> QED
    BY <1>1, FieldNames DEF Same, Unseen, r

LEMMA RecoverFarmGood ==
  ASSUME IInv, RecoverFarm
  PROVE  GoodStep
  <1> DEFINE timely == AbandonRecoveryPastItsDeadline(e)
             u == PolledFarm(timely)
             r == [u EXCEPT !.pc = "trading"]
  <1>1. /\ e' = r /\ UNCHANGED <<trading, cmds, caller>> /\ e.pc = "farm"
        /\ farm' = IF e.farmPending /\ farm # "dialling" THEN "none" ELSE farm
    BY DEF RecoverFarm, At
  <1>2. /\ Engine(e) /\ Holds(e, trading, farm, cmds, caller) /\ sc \in Scenarios
    BY DEF IInv, Holds, Shaped
  <1>3. Sound(e) /\ ~e.closed /\ e.running
    BY <1>1, <1>2 DEF Holds, LapInTurn
  <1>4. trading.phase # "none" => ~e.ccpUp
    BY <1>2 DEF Holds, SessionsAreCounted
  <1>5. /\ Sound(timely) /\ Steps(timely, e) /\ NoneSent(timely, e)
        /\ timely.running = e.running \/ (~timely.running /\ timely.halted # "none")
    BY <1>3, <1>4, AbandonDoes
  <1> HIDE DEF timely
  <1>6. timely.running \/ timely.halted # "none"
    BY <1>3, <1>5
  <1>7. /\ Sound(u) /\ Recovering(u, timely) /\ NoneSent(u, timely) /\ Spare(u) = Spare(timely)
        /\ u.ccpUp => timely.ccpUp
        /\ u.running \/ u.halted # "none"
    BY <1>5, <1>6, PolledFarmDoes
  <1> HIDE DEF u
  <1>8. Engine(timely) /\ Engine(u)
    BY <1>5, <1>7 DEF Sound
  <1>9. Recovering(u, e)
    BY <1>2, <1>5, <1>7, <1>8, StepsRecover, RecoveringTwice
  <1>10. SentInTime(u, e)
    <2>1. NoneSent(u, e)
      BY <1>5, <1>7 DEF NoneSent
    <2> QED
      BY <2>1, NoneInTime
  <1>11. "trading" \in Places
    BY DEF Places
  <1>12. /\ Engine(r) /\ r.pc = "trading" /\ Same(r, u, Unseen)
         /\ r.farmUp = u.farmUp /\ r.taken = u.taken /\ r.admitted = u.admitted /\ r.closed = u.closed
         /\ r.panicked = u.panicked /\ r.forced = u.forced /\ r.finished = u.finished
         /\ r.running = u.running /\ r.finishing = u.finishing /\ r.halted = u.halted
    BY <1>8, <1>11, PlaceSet
  <1> HIDE DEF r
  <1>13. u.finished = e.finished /\ u.closed = e.closed
    BY <1>9 DEF Recovering, Kept
  <1>14. LapInTurn(r) /\ r.pc \notin Ending
    BY <1>3, <1>7, <1>12, <1>13 DEF LapInTurn, Ending
  <1>15. SessionsAreCounted(u, trading)
    BY <1>2, <1>5, <1>7 DEF Holds, SessionsAreCounted, Steps
  <1>16. trading \in Answers /\ farm \in {"none", "dialling", "session", "error", "refused", "cancelled", "died"}
    BY <1>2 DEF Holds, Shaped, Answers
  <1>17. farm' \in {"none", "dialling", "session", "error", "refused", "cancelled", "died"}
    BY <1>1, <1>16
  <1> QED
    BY <1>1, <1>3, <1>7, <1>9, <1>10, <1>12, <1>13, <1>14, <1>15, <1>16, <1>17, LapGood

LEMMA RecoverTradingGood ==
  ASSUME IInv, RecoverTrading
  PROVE  GoodStep
  <1> DEFINE s == PolledCcp(e)
  <1>1. PICK u \in SaidOfTheConnection(s) : e' = [u EXCEPT !.pc = "spawn"]
    BY DEF RecoverTrading
  <1> DEFINE r == [u EXCEPT !.pc = "spawn"]
  <1>2. /\ e' = r /\ UNCHANGED <<farm, cmds, caller>> /\ e.pc = "trading"
        /\ trading' = IF trading.phase = "done" THEN NoWorker ELSE trading
    BY <1>1 DEF RecoverTrading, At
  <1>3. /\ Engine(e) /\ Holds(e, trading, farm, cmds, caller) /\ sc \in Scenarios /\ Spare(e) \in Int
    BY Figures DEF IInv, Holds, Shaped
  <1>4. Sound(e) /\ ~e.closed /\ (e.running \/ e.halted # "none")
    BY <1>2, <1>3 DEF Holds, LapInTurn
  <1>5. trading.phase # "none" => ~e.ccpUp
    BY <1>3 DEF Holds, SessionsAreCounted
  <1>6. trading \in Answers /\ farm \in {"none", "dialling", "session", "error", "refused", "cancelled", "died"}
    BY <1>3 DEF Holds, Shaped, Answers
  <1>7. trading.gone \in BOOLEAN
    BY <1>6 DEF Answers
  <1>8. /\ Sound(s) /\ Recovering(s, e) /\ NoneSent(s, e)
        /\ Spare(s) = Spare(e) - (IF LandedTooLate THEN 1 ELSE 0)
        /\ s.running \/ s.halted # "none"
        /\ trading.phase # "done" => s = e
    BY <1>4, <1>5, <1>7, PolledCcpDoes
  <1> HIDE DEF s
  <1>9. /\ Sound(u) /\ Steps(u, s) /\ NoneSent(u, s)
        /\ u.running => u.ccpUp \/ ~u.linkUp
        /\ u.running = s.running /\ u.halted = s.halted /\ u.finishing = s.finishing
    BY <1>1, <1>8, SaidDoes
  <1>10. Engine(s) /\ Engine(u)
    BY <1>8, <1>9 DEF Sound
  <1>11. Recovering(u, e)
    BY <1>3, <1>8, <1>9, <1>10, StepsRecover, RecoveringTwice
  <1>12. SentInTime(u, e)
    <2>1. NoneSent(u, e)
      BY <1>8, <1>9 DEF NoneSent
    <2> QED
      BY <2>1, NoneInTime
  <1>13. "spawn" \in Places
    BY DEF Places
  <1>14. /\ Engine(r) /\ r.pc = "spawn" /\ Same(r, u, Unseen)
         /\ r.farmUp = u.farmUp /\ r.taken = u.taken /\ r.admitted = u.admitted /\ r.closed = u.closed
         /\ r.panicked = u.panicked /\ r.forced = u.forced /\ r.finished = u.finished
         /\ r.running = u.running /\ r.ccpUp = u.ccpUp /\ r.linkUp = u.linkUp
    BY <1>10, <1>13, PlaceSet
  <1> HIDE DEF r
  <1>15. u.finished = e.finished /\ u.closed = e.closed
    BY <1>11 DEF Recovering, Kept
  <1>16. LapInTurn(r) /\ r.pc \notin Ending
    BY <1>4, <1>9, <1>14, <1>15 DEF LapInTurn, Ending
  <1>17. trading' \in Answers /\ ~Landed(trading') /\ (trading'.phase # "none" => trading' = trading /\ trading.phase # "done")
    BY <1>2, <1>6 DEF Answers, NoWorker, Landed
  <1>18. SessionsAreCounted(u, trading')
    <2>1. Spare(u) = Spare(s)
      BY <1>9 DEF Steps
    <2>2. Spare(e) = IF Landed(trading) THEN 1 ELSE 0
      BY <1>3 DEF Holds, SessionsAreCounted
    <2>3. LandedTooLate <=> Landed(trading)
      BY DEF LandedTooLate, Landed
    <2>4. Spare(u) = 0
      BY <1>8, <2>1, <2>2, <2>3
    <2>5. trading'.phase # "none" => ~u.ccpUp
      BY <1>5, <1>8, <1>9, <1>17 DEF Steps
    <2> QED
      BY <1>17, <2>4, <2>5 DEF SessionsAreCounted
  <1> QED
    BY <1>2, <1>4, <1>6, <1>9, <1>11, <1>12, <1>14, <1>15, <1>16, <1>17, <1>18, LapGood
(* What the schedulers start. *)
LEMMA SettledBudget ==
  ASSUME sc \in Scenarios, NEW b \in Budgets, NEW whole \in BOOLEAN, NEW g \in Settled(b, whole)
  PROVE  g \in Budgets
  <1>1. 0 \in 0 .. MaxAttempts
    BY ScenarioIs
  <1>2. [b EXCEPT !.attempts = 0, !.late = FALSE] \in Budgets
    BY <1>1 DEF Budgets
  <1>3. [b EXCEPT !.healthy = FALSE] \in Budgets
    BY HealthyBudget
  <1> QED
    BY <1>2, <1>3 DEF Settled

LEMMA AttemptRecorded ==
  ASSUME sc \in Scenarios, NEW b \in Budgets, MayRetry(b)
  PROVE  RecordAttempt(b) \in Budgets /\ RecordAttempt(b).attempts > b.attempts
  <1>1. b.attempts \in 0 .. MaxAttempts /\ b.attempts < MaxAttempts /\ MaxAttempts \in Nat
    BY ScenarioIs DEF Budgets, MayRetry
  <1>2. b.attempts + 1 \in 0 .. MaxAttempts /\ b.attempts + 1 > b.attempts
    BY <1>1
  <1> QED
    BY <1>2 DEF RecordAttempt, Budgets

LEMMA BudgetSet ==
  ASSUME NEW en, Sound(en), NEW b \in Budgets
  PROVE  LET r == [en EXCEPT !.budget = b]
         IN  /\ Sound(r) /\ Steps(r, en) /\ NoneSent(r, en) /\ Same(r, en, {"budget"}) /\ r.budget = b
  <1> DEFINE r == [en EXCEPT !.budget = b]
  <1>1. Engine(r) /\ Same(r, en, {"budget"}) /\ r.budget = b
    BY FieldNames, FieldTypes DEF Engine, Same, Sound
  <1> HIDE DEF r
  <1>2. Same(r, en, Minor) /\ r.admissionClosed = en.admissionClosed /\ r.farmUp = en.farmUp
    BY <1>1, FieldNames DEF Same, Minor
  <1>3. Sound(r) /\ Steps(r, en) /\ NoneSent(r, en)
    BY <1>1, <1>2, MinorDoes
  <1> QED
    BY <1>1, <1>3 DEF r

LEMMA FarmBudgetSet ==
  ASSUME NEW en, Sound(en), NEW b \in Budgets, NEW p \in BOOLEAN
  PROVE  LET r == [en EXCEPT !.farmPending = p, !.farmBudget = b]
         IN  /\ Sound(r) /\ Steps(r, en) /\ NoneSent(r, en) /\ Same(r, en, {"farmPending", "farmBudget"})
  <1> DEFINE r == [en EXCEPT !.farmPending = p, !.farmBudget = b]
  <1>1. Engine(r) /\ Same(r, en, {"farmPending", "farmBudget"})
    BY FieldNames, FieldTypes DEF Engine, Same, Sound
  <1> HIDE DEF r
  <1>2. Same(r, en, Minor) /\ r.admissionClosed = en.admissionClosed /\ r.farmUp = en.farmUp
    BY <1>1, FieldNames DEF Same, Minor
  <1>3. Sound(r) /\ Steps(r, en) /\ NoneSent(r, en)
    BY <1>1, <1>2, MinorDoes
  <1> QED
    BY <1>1, <1>3 DEF r

LEMMA FarmScheduledDoes ==
  ASSUME sc \in Scenarios, NEW en, Sound(en), NEW fs \in FarmScheduled(en)
  PROVE  Sound(fs) /\ Steps(fs, en) /\ NoneSent(fs, en)
  <1> DEFINE b == RecordAttempt(en.farmBudget)
  <1>0. Engine(en) /\ en.farmBudget \in Budgets
    BY Typed DEF Sound
  <1>1. \/ fs = en
        \/ fs = [en EXCEPT !.farmPending = TRUE, !.farmBudget = b] /\ MayRetry(en.farmBudget)
        \/ fs = FarmIsOver(en)
    BY DEF FarmScheduled
  <1> HIDE DEF b
  <1>2. CASE fs = en
    BY <1>0, <1>2, StepsNone DEF NoneSent
  <1>3. CASE fs = [en EXCEPT !.farmPending = TRUE, !.farmBudget = b] /\ MayRetry(en.farmBudget)
    <2>1. b \in Budgets
      BY <1>0, <1>3, AttemptRecorded DEF b
    <2> QED
      BY <1>3, <2>1, FarmBudgetSet
  <1>4. CASE fs = FarmIsOver(en)
    BY <1>4, FarmIsOverDoes
  <1> QED
    BY <1>1, <1>2, <1>3, <1>4

LEMMA CcpScheduledDoes ==
  ASSUME sc \in Scenarios, NEW en, Sound(en), NEW cs \in CcpScheduled(en)
  PROVE  /\ Sound(cs) /\ Steps(cs, en) /\ NoneSent(cs, en)
         /\ cs.budget.attempts > en.budget.attempts => ~cs.ccpUp /\ trading.phase = "none"
  <1> DEFINE b == RecordAttempt(en.budget)
  <1>0. Engine(en) /\ en.budget \in Budgets /\ en.budget.attempts \in Nat
    BY ScenarioIs, Typed DEF Sound, Budgets
  <1>1. \/ cs = en
        \/ cs = [en EXCEPT !.budget = b] /\ MayRetry(en.budget) /\ CcpWants(en)
        \/ cs = HaltRecovery(en, "RecoveryExhausted") /\ CcpWants(en)
    BY DEF CcpScheduled
  <1> HIDE DEF b
  <1>2. CASE cs = en
    BY <1>0, <1>2, StepsNone DEF NoneSent
  <1>3. CASE cs = [en EXCEPT !.budget = b] /\ MayRetry(en.budget) /\ CcpWants(en)
    <2>1. b \in Budgets
      BY <1>0, <1>3, AttemptRecorded DEF b
    <2>2. Sound(cs) /\ Steps(cs, en) /\ NoneSent(cs, en)
      BY <1>3, <2>1, BudgetSet
    <2>3. ~cs.ccpUp /\ trading.phase = "none"
      BY <1>3, <2>2 DEF CcpWants, Steps
    <2> QED
      BY <2>2, <2>3
  <1>4. CASE cs = HaltRecovery(en, "RecoveryExhausted") /\ CcpWants(en)
    <2>1. ~en.ccpUp /\ "RecoveryExhausted" \in Reasons
      BY <1>4 DEF CcpWants, Reasons
    <2>2. Sound(cs) /\ Steps(cs, en) /\ NoneSent(cs, en) /\ Same(cs, en, Halting)
      BY <1>4, <2>1, HaltDoes
    <2>3. cs.budget = en.budget
      BY <2>2, FieldNames DEF Same, Halting
    <2> QED
      BY <1>0, <2>2, <2>3
  <1> QED
    BY <1>1, <1>2, <1>3, <1>4

\* The end of a lap, after what its schedulers made of the engine's record.
LEMMA EndLapGood ==
  ASSUME IInv, NEW cs, e' = EndLap(cs), UNCHANGED <<cmds, caller>>, ~e.closed,
         Sound(cs), Steps(cs, e), NoneSent(cs, e),
         trading' \in Answers, farm' \in {"none", "dialling", "session", "error", "refused", "cancelled", "died"},
         SessionsAreCounted(cs, trading')
  PROVE  GoodStep
  <1> DEFINE u == EndTheTradingConnection(cs)
             p == IF cs.running THEN "sockets" ELSE "finish"
             r == [u EXCEPT !.pc = p]
  <1>1. e' = r
    BY DEF EndLap
  <1>2. Engine(e) /\ Engine(cs)
    BY DEF IInv, Holds, Shaped, Sound
  <1>3. Sound(u) /\ Steps(u, cs) /\ NoneSent(u, cs) /\ Same(u, cs, {"status", "tradingOver"})
    BY EndTradingDoes
  <1> HIDE DEF u
  <1>4. Engine(u) /\ u.running = cs.running
    BY <1>3, FieldNames DEF Sound, Same
  <1>5. Recovering(u, e)
    BY <1>2, <1>3, <1>4, StepsTwice, StepsRecover
  <1>6. SentInTime(u, e)
    <2>1. NoneSent(u, e)
      BY <1>3 DEF NoneSent
    <2> QED
      BY <2>1, NoneInTime
  <1>7. p \in Places /\ (p = "sockets" => u.running) /\ (p = "finish" => ~u.running) /\ p \in {"sockets", "finish"}
    BY <1>4 DEF Places
  <1> HIDE DEF p
  <1>8. /\ Engine(r) /\ r.pc = p /\ Same(r, u, Unseen)
        /\ r.farmUp = u.farmUp /\ r.taken = u.taken /\ r.admitted = u.admitted /\ r.closed = u.closed
        /\ r.panicked = u.panicked /\ r.forced = u.forced /\ r.finished = u.finished
        /\ r.running = u.running
    BY <1>4, <1>7, PlaceSet
  <1> HIDE DEF r
  <1>9. u.finished = e.finished /\ u.closed = e.closed
    BY <1>5 DEF Recovering, Kept
  <1>10. LapInTurn(r) /\ r.pc \notin Ending
    BY <1>7, <1>8, <1>9 DEF LapInTurn, Ending
  <1>11. SessionsAreCounted(u, trading')
    BY <1>3 DEF SessionsAreCounted, Steps
  <1> QED
    BY <1>1, <1>3, <1>5, <1>6, <1>8, <1>9, <1>10, <1>11, LapGood

LEMMA SpawnGood ==
  ASSUME IInv, Spawn
  PROVE  GoodStep
  <1>1. PICK b \in Settled(e.budget, e.ccpUp), fb \in Settled(e.farmBudget, e.farmUp) :
          LET settled == [e EXCEPT !.budget = b, !.farmBudget = fb]
              timely == AbandonRecoveryPastItsDeadline(settled)
          IN  IF e.running /\ e.finishing = "none"
                THEN \E fs \in FarmScheduled(timely) : \E cs \in CcpScheduled(fs) :
                       /\ e' = EndLap(cs)
                       /\ farm' = IF fs.farmPending /\ ~timely.farmPending THEN "dialling" ELSE farm
                       /\ trading' = IF cs.budget.attempts > fs.budget.attempts
                                       THEN [NoWorker EXCEPT !.phase = "dialling"] ELSE trading
                ELSE e' = EndLap(settled) /\ UNCHANGED <<trading, farm>>
    BY DEF Spawn
  <1> DEFINE settled == [e EXCEPT !.budget = b, !.farmBudget = fb]
             timely == AbandonRecoveryPastItsDeadline(settled)
  <1>2. UNCHANGED <<cmds, caller>> /\ e.pc = "spawn"
    BY DEF Spawn, At
  <1>3. /\ Engine(e) /\ Holds(e, trading, farm, cmds, caller) /\ sc \in Scenarios /\ trading \in Answers
        /\ farm \in {"none", "dialling", "session", "error", "refused", "cancelled", "died"}
    BY DEF IInv, Holds, Shaped, Answers
  <1>4. Sound(e) /\ ~e.closed
    BY <1>2, <1>3 DEF Holds, LapInTurn
  <1>5. SessionsAreCounted(e, trading)
    BY <1>3 DEF Holds
  <1>6. b \in Budgets /\ fb \in Budgets
    <2>1. e.budget \in Budgets /\ e.farmBudget \in Budgets /\ e.ccpUp \in BOOLEAN /\ e.farmUp \in BOOLEAN
      BY <1>3, Typed
    <2> QED
      BY <1>3, <2>1, SettledBudget
  <1>7. Engine(settled) /\ Same(settled, e, {"budget", "farmBudget"})
    BY <1>3, <1>6, FieldNames, FieldTypes DEF Engine, Same
  <1>8. CASE ~(e.running /\ e.finishing = "none")
    <2>1. e' = EndLap(settled) /\ trading' = trading /\ farm' = farm
      BY <1>1, <1>8
    <2> HIDE DEF settled
    <2>2. Same(settled, e, Minor) /\ settled.admissionClosed = e.admissionClosed /\ settled.farmUp = e.farmUp
      BY <1>7, FieldNames DEF Same, Minor
    <2>3. Sound(settled) /\ Steps(settled, e) /\ NoneSent(settled, e)
      BY <1>4, <1>7, <2>2, MinorDoes
    <2>4. SessionsAreCounted(settled, trading')
      BY <1>5, <2>1, <2>3 DEF SessionsAreCounted, Steps
    <2> QED
      BY <1>2, <1>3, <1>4, <2>1, <2>3, <2>4, EndLapGood
  <1>9. CASE e.running /\ e.finishing = "none"
    <2>1. PICK fs \in FarmScheduled(timely) : \E cs \in CcpScheduled(fs) :
            /\ e' = EndLap(cs)
            /\ farm' = IF fs.farmPending /\ ~timely.farmPending THEN "dialling" ELSE farm
            /\ trading' = IF cs.budget.attempts > fs.budget.attempts
                            THEN [NoWorker EXCEPT !.phase = "dialling"] ELSE trading
      BY <1>1, <1>9
    <2>2. PICK cs \in CcpScheduled(fs) :
            /\ e' = EndLap(cs)
            /\ farm' = IF fs.farmPending /\ ~timely.farmPending THEN "dialling" ELSE farm
            /\ trading' = IF cs.budget.attempts > fs.budget.attempts
                            THEN [NoWorker EXCEPT !.phase = "dialling"] ELSE trading
      BY <2>1
    <2> HIDE DEF settled
    <2>3. /\ Same(settled, e, Minor) /\ settled.admissionClosed = e.admissionClosed /\ settled.farmUp = e.farmUp
          /\ settled.ccpUp = e.ccpUp
      BY <1>7, FieldNames DEF Same, Minor
    <2>4. Sound(settled) /\ Steps(settled, e) /\ NoneSent(settled, e)
      BY <1>4, <1>7, <2>3, MinorDoes
    <2>5. trading.phase # "none" => ~settled.ccpUp
      BY <1>5, <2>3 DEF SessionsAreCounted
    <2>6. Sound(timely) /\ Steps(timely, settled) /\ NoneSent(timely, settled)
      BY <2>4, <2>5, AbandonDoes
    <2> HIDE DEF timely
    <2>7. Sound(fs) /\ Steps(fs, timely) /\ NoneSent(fs, timely)
      BY <1>3, <2>6, FarmScheduledDoes
    <2>8. /\ Sound(cs) /\ Steps(cs, fs) /\ NoneSent(cs, fs)
          /\ cs.budget.attempts > fs.budget.attempts => ~cs.ccpUp /\ trading.phase = "none"
      BY <1>3, <2>7, CcpScheduledDoes
    <2>9. Engine(settled) /\ Engine(timely) /\ Engine(fs) /\ Engine(cs)
      BY <2>4, <2>6, <2>7, <2>8 DEF Sound
    <2>10. Steps(cs, e)
      <3>1. Steps(timely, e)
        BY <1>3, <2>4, <2>6, <2>9, StepsTwice
      <3>2. Steps(fs, e)
        BY <1>3, <2>7, <2>9, <3>1, StepsTwice
      <3> QED
        BY <1>3, <2>8, <2>9, <3>2, StepsTwice
    <2>11. NoneSent(cs, e)
      BY <2>4, <2>6, <2>7, <2>8 DEF NoneSent
    <2>12. [NoWorker EXCEPT !.phase = "dialling"] \in Answers /\ [NoWorker EXCEPT !.phase = "dialling"].phase = "dialling"
      BY DEF NoWorker, Answers
    <2>13. trading' \in Answers /\ farm' \in {"none", "dialling", "session", "error", "refused", "cancelled", "died"}
      BY <1>3, <2>2, <2>12
    <2>14. SessionsAreCounted(cs, trading')
      <3>1. CASE cs.budget.attempts > fs.budget.attempts
        <4>1. trading.phase = "none" /\ ~cs.ccpUp /\ trading'.phase = "dialling"
          BY <2>2, <2>8, <2>12, <3>1
        <4> QED
          BY <1>5, <2>10, <4>1 DEF SessionsAreCounted, Steps, Landed
      <3>2. CASE ~(cs.budget.attempts > fs.budget.attempts)
        <4>1. trading' = trading
          BY <2>2, <3>2
        <4> QED
          BY <1>5, <2>10, <4>1 DEF SessionsAreCounted, Steps
      <3> QED
        BY <3>1, <3>2
    <2> QED
      BY <1>2, <1>4, <2>2, <2>8, <2>10, <2>11, <2>13, <2>14, EndLapGood
  <1> QED
    BY <1>8, <1>9

-----------------------------------------------------------------------------
(* The engine's end. *)

LEMMA EndGood ==
  ASSUME IInv, NEW u, NEW r, e' = r, UNCHANGED <<cmds, caller>>, ~e.closed,
         trading' \in Answers, farm' \in {"none", "dialling", "session", "error", "refused", "cancelled", "died"},
         Sound(u), Recovering(u, e), NoneSent(u, e), Engine(r), Same(r, u, Unseen),
         r.farmUp = u.farmUp, r.taken = u.taken, r.admitted = u.admitted, r.forced = u.forced, r.finished = u.finished,
         u.panicked => r.panicked,
         SessionsAreCounted(u, trading'), r.pc \in {"takeBack", "join", "close"},
         ~r.panicked => ~r.running /\ r.admissionClosed /\ \A o \in Orders : r.status[o] # "queued",
         r.pc = "close" => trading'.phase = "none" /\ farm' = "none"
  PROVE  GoodStep
  <1>1. Holds(e, trading, farm, cmds, caller) /\ sc \in Scenarios /\ Engine(e) /\ Engine(u) /\ cmds \in Seq(Commands)
    BY DEF IInv, Holds, Shaped, Sound
  <1>2. /\ Sound(r) /\ r.status = u.status /\ Owed(r) = Owed(u) /\ Spare(r) = Spare(u)
        /\ r.running = u.running /\ r.halted = u.halted /\ r.ccpUp = u.ccpUp /\ r.told = u.told
    BY UnseenDoes
  <1>3. \A f \in Kept : u[f] = e[f]
    BY DEF Recovering
  <1>4. /\ u.taken = e.taken /\ u.admitted = e.admitted /\ u.panicked = e.panicked /\ u.forced = e.forced
        /\ u.finished = e.finished /\ u.closed = e.closed
    BY <1>3 DEF Kept
  <1>5. Moves(u, e) /\ Owed(u) <= Owed(e)
    BY DEF Recovering
  <1>6. /\ Channel(u, cmds) /\ Counted(u, cmds) /\ LossesAreOwed(u, cmds) /\ Backlog(u)
        /\ \A i \in 1 .. Len(u.notices) : u.notices[i] = "closed" => i = Len(u.notices)
        /\ ~u.running => Idle(u)
    BY <1>1, <1>4, <1>5, LapKeeps
  <1>7. r.notices = u.notices /\ r.closed = u.closed
    BY FieldNames DEF Same, Unseen
  <1>8. Channel(r, cmds) /\ Counted(r, cmds)
    BY <1>2, <1>6 DEF Channel, Counted, Past
  <1>9. LossesAreOwed(r, cmds)
    BY <1>2, <1>6 DEF LossesAreOwed
  <1>10. Backlog(r)
    BY <1>2, <1>6 DEF Backlog, OpenOrders
  <1>11. SessionsAreCounted(r, trading')
    BY <1>2 DEF SessionsAreCounted
  <1>12. LapInTurn(r)
    BY <1>4, <1>7 DEF LapInTurn
  <1>13. EndInTurn(r, trading', farm')
    BY <1>2, <1>6, <1>7 DEF EndInTurn, Idle
  <1>14. Shaped(r, trading', farm', cmds, caller)
    BY <1>1 DEF Holds, Shaped, Answers
  <1>15. Holds(r, trading', farm', cmds, caller)
    BY <1>2, <1>8, <1>9, <1>10, <1>11, <1>12, <1>13, <1>14 DEF Holds
  <1>16. Installs(r, e) /\ SentInTime(r, e)
    <2>1. Installs(r, e)
      BY <1>2 DEF Recovering, Installs
    <2>2. NoneSent(r, e)
      BY <1>2 DEF NoneSent
    <2> QED
      BY <2>1, <2>2, NoneInTime
  <1> QED
    BY <1>15, <1>16 DEF GoodStep

LEMMA EngineStays ==
  ASSUME NEW en, Sound(en)
  PROVE  Recovering(en, en) /\ NoneSent(en, en)
  <1>1. Steps(en, en)
    BY StepsNone DEF Sound
  <1> QED
    BY <1>1, StepsRecover DEF NoneSent

LEMMA PanicGood ==
  ASSUME IInv, Panic
  PROVE  GoodStep
  <1> DEFINE r == [e EXCEPT !.pc = "takeBack", !.panicked = TRUE]
  <1>1. /\ e' = r /\ UNCHANGED <<trading, farm, cmds, caller>>
        /\ e.pc \in {"sockets", "take", "farm", "trading", "spawn", "finish"}
    BY DEF Panic
  <1>2. /\ Engine(e) /\ Holds(e, trading, farm, cmds, caller) /\ trading \in Answers
        /\ farm \in {"none", "dialling", "session", "error", "refused", "cancelled", "died"}
    BY DEF IInv, Holds, Shaped, Answers
  <1>3. Sound(e) /\ ~e.closed
    BY <1>1, <1>2 DEF Holds, LapInTurn
  <1>4. Engine(r) /\ Same(r, e, {"pc", "panicked"}) /\ r.pc = "takeBack" /\ r.panicked = TRUE
    <2>1. "takeBack" \in Places
      BY DEF Places
    <2> QED
      BY <1>2, <2>1, FieldNames, FieldTypes DEF Engine, Same
  <1> HIDE DEF r
  <1>5. /\ Same(r, e, Unseen) /\ r.farmUp = e.farmUp /\ r.taken = e.taken /\ r.admitted = e.admitted
        /\ r.forced = e.forced /\ r.finished = e.finished
    BY <1>4, FieldNames DEF Same, Unseen
  <1>6. Recovering(e, e) /\ NoneSent(e, e)
    BY <1>3, EngineStays
  <1>7. SessionsAreCounted(e, trading)
    BY <1>2 DEF Holds
  <1> QED
    BY <1>1, <1>2, <1>3, <1>4, <1>5, <1>6, <1>7, EndGood

LEMMA RaiseCancelGood ==
  ASSUME IInv, RaiseCancel
  PROVE  GoodStep
  <1> DEFINE r == [[e EXCEPT !.cancel = TRUE] EXCEPT !.pc = "join", !.admissionClosed = TRUE]
  <1>1. /\ e' = r /\ UNCHANGED <<trading, farm, cmds, caller>> /\ e.pc = "takeBack"
    BY DEF RaiseCancel, At, CancelRecovery
  <1>2. /\ Engine(e) /\ Holds(e, trading, farm, cmds, caller) /\ trading \in Answers
        /\ farm \in {"none", "dialling", "session", "error", "refused", "cancelled", "died"}
    BY DEF IInv, Holds, Shaped, Answers
  <1>3. Sound(e) /\ ~e.closed
    BY <1>1, <1>2 DEF Holds, LapInTurn
  <1>4. Engine(r) /\ Same(r, e, {"cancel", "pc", "admissionClosed"}) /\ r.pc = "join" /\ r.admissionClosed = TRUE
    <2>1. "join" \in Places
      BY DEF Places
    <2> QED
      BY <1>2, <2>1, FieldNames, FieldTypes DEF Engine, Same
  <1> HIDE DEF r
  <1>5. /\ Same(r, e, Unseen) /\ r.farmUp = e.farmUp /\ r.taken = e.taken /\ r.admitted = e.admitted
        /\ r.forced = e.forced /\ r.finished = e.finished /\ r.panicked = e.panicked /\ r.running = e.running
        /\ r.status = e.status
    BY <1>4, FieldNames DEF Same, Unseen
  <1>6. Recovering(e, e) /\ NoneSent(e, e)
    BY <1>3, EngineStays
  <1>7. SessionsAreCounted(e, trading)
    BY <1>2 DEF Holds
  <1>8. ~e.panicked => ~e.running /\ \A o \in Orders : e.status[o] # "queued"
    BY <1>1, <1>2 DEF Holds, EndInTurn, Ending
  <1>9. ~r.panicked => ~r.running /\ r.admissionClosed /\ \A o \in Orders : r.status[o] # "queued"
    BY <1>4, <1>5, <1>8
  <1> QED
    BY <1>1, <1>2, <1>3, <1>4, <1>5, <1>6, <1>7, <1>9, EndGood

LEMMA JoinWorkersGood ==
  ASSUME IInv, JoinWorkers
  PROVE  GoodStep
  <1> DEFINE u == IF LandedTooLate THEN TellTheLateSession(e) ELSE e
             s == IF LandedTooLate THEN [u EXCEPT !.logoutSent = TRUE] ELSE u
             r == [s EXCEPT !.pc = "close", !.farmPending = FALSE]
  <1>1. /\ e' = r /\ UNCHANGED <<cmds, caller>> /\ e.pc = "join" /\ WorkersHaveEnded
        /\ trading' = IF trading.phase = "done" THEN NoWorker ELSE trading
        /\ farm' = IF farm = "dialling" THEN farm ELSE "none"
    BY DEF JoinWorkers, At, TakeBack
  <1>2. /\ Engine(e) /\ Holds(e, trading, farm, cmds, caller) /\ trading \in Answers
        /\ farm \in {"none", "dialling", "session", "error", "refused", "cancelled", "died"}
        /\ SessionsAreCounted(e, trading) /\ Spare(e) \in Int
    BY Figures DEF IInv, Holds, Shaped, Answers
  <1>3. Sound(e) /\ ~e.closed
    BY <1>1, <1>2 DEF Holds, LapInTurn
  <1>4. trading' \in Answers /\ trading'.phase = "none" /\ farm' = "none"
    BY <1>1, <1>2 DEF Answers, NoWorker, WorkersHaveEnded
  <1>5. /\ Sound(u) /\ Recovering(u, e) /\ NoneSent(u, e)
        /\ Spare(u) = Spare(e) - (IF LandedTooLate THEN 1 ELSE 0)
        /\ Same(u, e, {"open"})
    <2>1. CASE LandedTooLate
      BY <1>3, <2>1, TellLateDoes
    <2>2. CASE ~LandedTooLate
      BY <1>2, <1>3, <2>2, EngineStays, SameIs
    <2> QED
      BY <2>1, <2>2
  <1>6. Engine(s) /\ Same(s, u, {"logoutSent"})
    <2> HIDE DEF u
    <2>1. Engine(u)
      BY <1>5 DEF Sound
    <2>2. Engine([u EXCEPT !.logoutSent = TRUE]) /\ Same([u EXCEPT !.logoutSent = TRUE], u, {"logoutSent"})
      BY <2>1, FieldNames, FieldTypes DEF Engine, Same
    <2>3. Same(u, u, {"logoutSent"})
      BY <2>1, SameIs
    <2> QED
      BY <2>1, <2>2, <2>3
  <1> HIDE DEF u, s
  <1>7. Engine(r) /\ Same(r, s, {"pc", "farmPending"}) /\ r.pc = "close"
    <2>1. "close" \in Places
      BY DEF Places
    <2> QED
      BY <1>6, <2>1, FieldNames, FieldTypes DEF Engine, Same
  <1> HIDE DEF r
  <1>8. Same(r, u, {"pc", "farmPending", "logoutSent"})
    BY <1>6, <1>7 DEF Same
  <1>9. /\ Same(r, u, Unseen) /\ r.farmUp = u.farmUp /\ r.taken = u.taken /\ r.admitted = u.admitted
        /\ r.forced = u.forced /\ r.finished = u.finished /\ r.panicked = u.panicked /\ r.running = u.running
        /\ r.status = u.status /\ r.admissionClosed = u.admissionClosed
    BY <1>8, FieldNames DEF Same, Unseen
  <1>10. /\ u.running = e.running /\ u.status = e.status /\ u.admissionClosed = e.admissionClosed
         /\ u.panicked = e.panicked /\ u.ccpUp = e.ccpUp
    BY <1>5, FieldNames DEF Same
  <1>11. ~e.panicked => ~e.running /\ e.admissionClosed /\ \A o \in Orders : e.status[o] # "queued"
    BY <1>1, <1>2 DEF Holds, EndInTurn, Ending
  <1>12. ~r.panicked => ~r.running /\ r.admissionClosed /\ \A o \in Orders : r.status[o] # "queued"
    BY <1>9, <1>10, <1>11
  <1>13. SessionsAreCounted(u, trading')
    <2>1. Spare(e) = IF Landed(trading) THEN 1 ELSE 0
      BY <1>2 DEF SessionsAreCounted
    <2>2. LandedTooLate <=> Landed(trading)
      BY DEF LandedTooLate, Landed
    <2>3. Spare(u) = 0
      BY <1>5, <2>1, <2>2
    <2>4. ~Landed(trading')
      BY <1>4 DEF Landed
    <2> QED
      BY <1>4, <2>3, <2>4 DEF SessionsAreCounted
  <1> QED
    BY <1>1, <1>3, <1>4, <1>5, <1>7, <1>9, <1>12, <1>13, EndGood

\* Every command still in the channel is refused, and counted.
LEMMA FinishAdmittedGood ==
  ASSUME IInv, FinishAdmittedCommands
  PROVE  GoodStep
  <1> DEFINE d == Become(e, In(e, "queued"), "refused")
             u == Become(d, In(d, "built"), "refused")
             n == e.taken + Len(cmds)
             r == [u EXCEPT !.pc = "takeBack", !.admissionClosed = TRUE, !.taken = u.taken + Len(cmds), !.finished = n]
             Q == {o \in Orders : e.status[o] = "queued"}
  <1>1. e' = r /\ cmds' = <<>> /\ UNCHANGED <<trading, farm, caller>> /\ e.pc = "finish"
    BY DEF FinishAdmittedCommands, At, RefuseWhatIsLeft
  <1>2. /\ Engine(e) /\ Holds(e, trading, farm, cmds, caller) /\ sc \in Scenarios /\ cmds \in Seq(Commands)
        /\ e.taken \in Nat /\ e.admitted \in Nat /\ e.status \in [Orders -> Statuses] /\ e.forced \in Nat
    BY Typed DEF IInv, Holds, Shaped
  <1>3. Sound(e) /\ ~e.closed /\ ~e.running /\ Idle(e)
    BY <1>1, <1>2 DEF Holds, LapInTurn, Sound
  <1>4. /\ Engine(d) /\ Same(d, e, {"status"})
        /\ \A o \in Orders : d.status[o] = IF o \in In(e, "queued") THEN "refused" ELSE e.status[o]
    <2>1. "refused" \in Statuses
      BY DEF Statuses
    <2> QED
      BY <1>2, <2>1, BecomeDoes
  <1> HIDE DEF d
  <1>5. /\ Engine(u) /\ Same(u, d, {"status"})
        /\ \A o \in Orders : u.status[o] = IF o \in In(d, "built") THEN "refused" ELSE d.status[o]
    <2>1. "refused" \in Statuses
      BY DEF Statuses
    <2> QED
      BY <1>4, <2>1, BecomeDoes
  <1> HIDE DEF u
  <1>6. \A o \in Orders : u.status[o] = IF o \in Q THEN "refused" ELSE e.status[o]
    BY <1>3, <1>4, <1>5 DEF In, Idle, InHand
  <1>7. Same(u, e, {"status"}) /\ u.taken = e.taken
    BY <1>4, <1>5, FieldNames DEF Same
  <1>8. n \in Nat /\ Len(cmds) \in Nat /\ u.taken + Len(cmds) = n
    BY <1>2, <1>7
  <1> HIDE DEF n
  <1>9. r = [u EXCEPT !.pc = "takeBack", !.admissionClosed = TRUE, !.taken = n, !.finished = n]
    BY <1>8
  <1> HIDE DEF r
  <1>10. /\ Engine(r) /\ Same(r, u, {"pc", "admissionClosed", "taken", "finished"})
         /\ r.pc = "takeBack" /\ r.admissionClosed = TRUE /\ r.taken = n /\ r.finished = n
    <2>1. "takeBack" \in Places
      BY DEF Places
    <2> QED
      BY <1>5, <1>8, <1>9, <2>1, FieldNames, FieldTypes DEF Engine, Same
  <1>11. Same(r, e, {"status", "pc", "admissionClosed", "taken", "finished"}) /\ r.status = u.status
    BY <1>7, <1>10, FieldNames DEF Same
  <1>12. /\ r.closed = e.closed /\ r.notices = e.notices /\ r.halted = e.halted
         /\ r.running = e.running /\ r.dropSaid = e.dropSaid /\ r.ccpUp = e.ccpUp
         /\ r.lossAnnounced = e.lossAnnounced /\ r.sessionOver = e.sessionOver
         /\ r.linkUp = e.linkUp /\ r.told = e.told /\ r.logoutWritten = e.logoutWritten
         /\ r.drops = e.drops /\ r.gone = e.gone /\ r.open = e.open /\ r.finishing = e.finishing
         /\ r.admitted = e.admitted /\ r.panicked = e.panicked /\ r.forced = e.forced /\ r.farmUp = e.farmUp
         /\ r.over = e.over
    BY <1>11, FieldNames DEF Same
  <1>13. \A o \in Orders : r.status[o] = IF o \in Q THEN "refused" ELSE e.status[o]
    BY <1>6, <1>11
  <1>14. Idle(r) /\ HeldToRecover(r) /\ AtRest(r)
    BY <1>3, <1>13 DEF Idle, HeldToRecover, InHand, AtRest, Awaits
  <1>15. Sound(r)
    BY <1>3, <1>10, <1>12, <1>14 DEF Sound
  <1>16. \A o \in Orders : r.status[o] # "queued" /\ r.status[o] \notin Open
    BY <1>2, <1>3, <1>13 DEF Idle, InHand, Open, Statuses
  <1>17. Len(<<>>) = 0 /\ 1 .. 0 = {} /\ <<>> \in Seq(Commands)
    OBVIOUS
  <1>18. Channel(r, <<>>)
    BY <1>16, <1>17 DEF Channel
  <1>19. e.taken + Len(cmds) = e.admitted /\ Cardinality(Past(e)) <= e.taken
    BY <1>2 DEF Holds, Counted
  <1>20. Cardinality(Past(r)) <= n
    <2>1. Past(r) = Past(e) \cup Q
      BY <1>13 DEF Past
    <2>2. IsFiniteSet(Past(e)) /\ Cardinality(Past(e)) \in Nat
      <3>1. Past(e) \subseteq Orders
        BY DEF Past
      <3> QED
        BY <1>2, <3>1, SomeOrders
    <2>3. IsFiniteSet(Q) /\ Cardinality(Q) \in Nat /\ Cardinality(Q) <= Len(cmds)
      BY <1>2, QueueIsShort DEF Holds
    <2> HIDE DEF Q
    <2>4. /\ IsFiniteSet(Past(e) \cap Q)
          /\ Cardinality(Past(e) \cup Q) = Cardinality(Past(e)) + Cardinality(Q) - Cardinality(Past(e) \cap Q)
      BY <2>2, <2>3, FS_Union, FS_Intersection
    <2>5. Cardinality(Past(e) \cap Q) \in Nat
      BY <2>4, FS_CardinalityType
    <2>6. Cardinality(Past(e) \cup Q) <= e.taken + Len(cmds)
      BY <1>2, <1>8, <1>19, <2>2, <2>3, <2>4, <2>5
    <2> QED
      BY <2>1, <2>6 DEF n
  <1>21. n = e.admitted
    BY <1>19 DEF n
  <1>22. Counted(r, <<>>)
    <2>1. r.taken + Len(<<>>) = r.admitted
      BY <1>8, <1>10, <1>12, <1>17, <1>21
    <2> QED
      BY <1>10, <1>20, <2>1 DEF Counted
  <1>23. LossesAreOwed(r, <<>>)
    <2>1. Owed(r) = Owed(e) /\ Owed(e) \in Int
      BY <1>2, <1>12, Figures DEF Owed
    <2>2. ForcesIn(cmds) \in Nat
      BY <1>2, CountIsNat DEF ForcesIn
    <2>3. ForcesIn(<<>>) = 0
      BY <1>17, FS_EmptySet DEF ForcesIn, CountOf
    <2>4. Owed(e) + ForcesIn(cmds) <= e.forced
      BY <1>2 DEF Holds, LossesAreOwed
    <2>5. Owed(e) + 0 <= e.forced
      BY <1>2, <2>1, <2>2, <2>4
    <2> QED
      BY <1>12, <2>1, <2>3, <2>5 DEF LossesAreOwed
  <1>24. Backlog(r)
    <2>1. OpenOrders(r) = {}
      BY <1>16 DEF OpenOrders
    <2>2. Cardinality(OpenOrders(r)) = 0
      BY <2>1, FS_EmptySet
    <2>3. r.finished + 0 <= r.admitted
      BY <1>8, <1>10, <1>12, <1>21
    <2> QED
      BY <2>2, <2>3 DEF Backlog
  <1>25. SessionsAreCounted(r, trading)
    <2>1. Spare(r) = Spare(e)
      BY <1>12 DEF Spare
    <2> QED
      BY <1>2, <1>12, <2>1 DEF Holds, SessionsAreCounted
  <1>26. LapInTurn(r)
    BY <1>3, <1>10, <1>12 DEF LapInTurn
  <1>27. EndInTurn(r, trading, farm)
    <2>1. \A i \in 1 .. Len(r.notices) : r.notices[i] = "closed" => i = Len(r.notices)
      BY <1>15, NoticesEnd DEF Sound
    <2> QED
      BY <1>3, <1>10, <1>12, <1>14, <1>16, <2>1 DEF EndInTurn
  <1>28. Shaped(r, trading, farm, <<>>, caller)
    BY <1>2, <1>10, <1>17 DEF Holds, Shaped
  <1>29. Holds(r, trading, farm, <<>>, caller)
    BY <1>15, <1>18, <1>22, <1>23, <1>24, <1>25, <1>26, <1>27, <1>28 DEF Holds
  <1>30. Installs(r, e) /\ SentInTime(r, e)
    <2>1. NoneSent(r, e)
      BY <1>13 DEF NoneSent
    <2> QED
      BY <1>12, <2>1, NoneInTime DEF Installs
  <1> QED
    BY <1>1, <1>29, <1>30 DEF GoodStep

\* The session's last record.
LEMMA PushClosedGood ==
  ASSUME IInv, PushClosed
  PROVE  GoodStep
  <1> DEFINE w == IF e.panicked /\ e.sessionOver = "none" THEN "EngineStopped" ELSE e.sessionOver
             m == Append(e.notices, "closed")
             n == e.admitted
             r == [e EXCEPT !.sessionOver = w, !.pc = "ended", !.finished = n, !.admissionClosed = TRUE,
                            !.closed = TRUE, !.linkUp = FALSE, !.notices = m]
  <1>1. /\ Engine(e) /\ Holds(e, trading, farm, cmds, caller) /\ sc \in Scenarios /\ cmds \in Seq(Commands)
        /\ e.admitted \in Nat /\ e.status \in [Orders -> Statuses] /\ e.sessionOver \in Ends
        /\ e.notices \in Seq(Notices) /\ e.panicked \in BOOLEAN
    BY Typed DEF IInv, Holds, Shaped
  <1>2. e' = r /\ UNCHANGED <<trading, farm, cmds, caller>> /\ e.pc = "close"
    <2>1. CASE e.panicked
      <3>1. w = IF e.sessionOver = "none" THEN "EngineStopped" ELSE e.sessionOver
        BY <2>1
      <3>2. e' = [[e EXCEPT !.sessionOver = w] EXCEPT !.pc = "ended", !.finished = n, !.admissionClosed = TRUE,
                            !.closed = TRUE, !.linkUp = FALSE, !.notices = Append(@, "closed")]
        BY <2>1, <3>1 DEF PushClosed, SetSessionOver
      <3>3. [e EXCEPT !.sessionOver = w].notices = e.notices
        OBVIOUS
      <3> HIDE DEF w
      <3>4. e' = r
        BY <3>2, <3>3
      <3> QED
        BY <3>4 DEF PushClosed, At
    <2>2. CASE ~e.panicked
      <3>1. w = e.sessionOver
        BY <2>2
      <3>2. e' = [e EXCEPT !.pc = "ended", !.finished = n, !.admissionClosed = TRUE,
                           !.closed = TRUE, !.linkUp = FALSE, !.notices = m]
        BY <2>2 DEF PushClosed
      <3>3. e = [f \in Fields |-> e[f]]
        BY <1>1 DEF Engine
      <3> HIDE DEF w, m, n
      <3>4. e' = r
        BY <3>1, <3>2, <3>3, FieldNames
      <3> QED
        BY <3>4 DEF PushClosed, At
    <2> QED
      BY <1>1, <2>1, <2>2
  <1>3. Sound(e) /\ ~e.closed
    BY <1>2, <1>1 DEF Holds, LapInTurn
  <1>4. w \in Ends /\ m \in Seq(Notices) /\ n \in Nat /\ "ended" \in Places
    BY <1>1 DEF Ends, Reasons, Notices, Places
  <1>5. LossesSaid(m) = LossesSaid(e.notices)
    <2>1. "closed" \in Notices /\ "closed" # "lost"
      BY DEF Notices
    <2>2. CountOf(Append(e.notices, "closed"), "lost") = CountOf(e.notices, "lost") + 0
      BY <1>1, <2>1, CountAppended
    <2>3. CountOf(e.notices, "lost") \in Nat
      BY <1>1, CountIsNat
    <2> QED
      BY <2>2, <2>3 DEF LossesSaid
  <1>6. \A i \in 1 .. Len(m) : m[i] = "closed" => i = Len(m)
    <2>1. Len(m) = Len(e.notices) + 1 /\ \A i \in 1 .. Len(e.notices) : m[i] = e.notices[i]
      BY <1>1
    <2>2. NoClose(e.notices)
      BY <1>3 DEF Sound
    <2> HIDE DEF m
    <2> QED
      BY <1>1, <2>1, <2>2 DEF NoClose
  <1> HIDE DEF w, m, n
  <1>7. /\ Engine(r) /\ r.pc = "ended" /\ r.finished = n /\ r.admissionClosed = TRUE /\ r.closed = TRUE /\ r.notices = m
        /\ Same(r, e, {"sessionOver", "pc", "finished", "admissionClosed", "closed", "linkUp", "notices"})
    BY <1>1, <1>4, FieldNames, FieldTypes DEF Engine, Same
  <1> HIDE DEF r
  <1>8. /\ r.halted = e.halted /\ r.running = e.running /\ r.dropSaid = e.dropSaid /\ r.ccpUp = e.ccpUp
        /\ r.told = e.told /\ r.drops = e.drops /\ r.gone = e.gone /\ r.open = e.open
        /\ r.status = e.status /\ r.taken = e.taken
        /\ r.admitted = e.admitted /\ r.panicked = e.panicked /\ r.forced = e.forced /\ r.farmUp = e.farmUp
    BY <1>7, FieldNames DEF Same
  <1>9. Channel(r, cmds) /\ Counted(r, cmds)
    BY <1>1, <1>8 DEF Holds, Channel, Counted, Past
  <1>10. Spare(r) = Spare(e) /\ Owed(r) = Owed(e)
    BY <1>5, <1>7, <1>8 DEF Spare, Owed
  <1>11. SessionsAreCounted(r, trading) /\ LossesAreOwed(r, cmds)
    BY <1>1, <1>8, <1>10 DEF Holds, SessionsAreCounted, LossesAreOwed
  <1>12. LapInTurn(r)
    BY <1>7 DEF LapInTurn
  <1>13. /\ ~e.panicked => ~e.running /\ \A o \in Orders : e.status[o] # "queued"
         /\ trading.phase = "none" /\ farm = "none"
         /\ ~e.running => Idle(e)
    BY <1>2, <1>1 DEF Holds, EndInTurn, Ending
  <1>14. EndInTurn(r, trading, farm)
    BY <1>6, <1>7, <1>8, <1>13 DEF EndInTurn, Idle
  <1>15. Backlog(r)
    <2>1. SUFFICES ASSUME ~r.panicked
                   PROVE  r.finished + Cardinality(OpenOrders(r)) <= r.admitted
      BY DEF Backlog
    <2>2. OpenOrders(r) = {}
      BY <1>1, <1>8, <1>13, <2>1 DEF OpenOrders, Open, Idle, InHand
    <2>3. Cardinality(OpenOrders(r)) = 0
      BY <2>2, FS_EmptySet
    <2>4. n + 0 <= n
      BY <1>4
    <2>5. r.finished = n /\ r.admitted = n
      BY <1>7, <1>8 DEF n
    <2> QED
      BY <2>3, <2>4, <2>5
  <1>16. Shaped(r, trading, farm, cmds, caller)
    BY <1>1, <1>7 DEF Holds, Shaped
  <1>17. Holds(r, trading, farm, cmds, caller)
    BY <1>7, <1>9, <1>11, <1>12, <1>14, <1>15, <1>16 DEF Holds
  <1>18. Installs(r, e) /\ SentInTime(r, e)
    BY <1>8 DEF Installs, SentInTime
  <1> QED
    BY <1>2, <1>17, <1>18 DEF GoodStep

-----------------------------------------------------------------------------
(* Every step. *)

\* No attempt is dialled once recovery is halted or the loop has stopped.
Dials == e.halted # "none" \/ ~e.running => (trading'.phase = "dialling" => trading.phase = "dialling")

LEMMA TakeCommandGood ==
  ASSUME IInv, TakeCommand
  PROVE  GoodStep
  BY TakeOrderGood, TakeOtherGood

LEMMA LapIsGood ==
  ASSUME IInv, Lap
  PROVE  GoodStep
  BY ReadSocketsGood, TakeCommandGood, EndTakeGood, RecoverFarmGood, RecoverTradingGood, SpawnGood,
     FinishAdmittedGood, RaiseCancelGood, JoinWorkersGood, PushClosedGood DEF Lap

LEMMA OthersAreGood ==
  ASSUME IInv, Workers \/ Caller \/ Venue \/ RunOutOfTime \/ Panic
  PROVE  GoodStep
  <1>1. CASE Workers
    BY <1>1, WriteLogonGood, LandTradingGood, FailTradingGood, LoseTradingWorkerGood, AnswerFarmGood DEF Workers
  <1>2. CASE Caller
    BY <1>2, AdmitGood, AdmitForceGood, CloseAdmissionGood, AdmitLogoutGood, AdmitShutdownGood, DropSendersGood
       DEF Caller
  <1>3. CASE Venue
    BY <1>3, LoseTradingGood, LoseFarmGood, EndNamingGood, EndQuestionGood, EndSettlingGood, AnswerNamingGood
       DEF Venue
  <1> QED
    BY <1>1, <1>2, <1>3, RunOutOfTimeGood, PanicGood

LEMMA StepIsGood ==
  ASSUME IInv, [Next]_vars
  PROVE  GoodStep /\ sc' = sc
  <1>1. CASE Next
    BY <1>1, LapIsGood, OthersAreGood DEF Next
  <1>2. CASE UNCHANGED vars
    <2>1. UNCHANGED <<sc, e, trading, farm, cmds, caller>>
      BY <1>2 DEF vars
    <2> QED
      BY <2>1, NothingNew DEF GoodStep, IInv
  <1> QED
    BY <1>1, <1>2

LEMMA SpawnDials ==
  ASSUME IInv, Spawn
  PROVE  Dials
  <1>1. Holds(e, trading, farm, cmds, caller) /\ e.pc = "spawn"
    BY DEF IInv, Spawn, At
  <1>2. Sound(e)
    BY <1>1 DEF Holds, LapInTurn
  <1>3. e.halted # "none" \/ ~e.running => ~e.running
    BY <1>2 DEF Sound
  <1>4. ~e.running => trading' = trading
    BY DEF Spawn
  <1> QED
    BY <1>3, <1>4 DEF Dials

LEMMA StepDials ==
  ASSUME IInv, [Next]_vars
  PROVE  Dials
  <1>1. NoWorker.phase = "none"
    BY DEF NoWorker
  <1>2. CASE Lap
    <2>1. CASE Spawn
      BY <2>1, SpawnDials
    <2>2. CASE ~Spawn
      <3>1. trading' = trading \/ trading' = NoWorker
        BY <1>2, <2>2 DEF Lap, ReadSockets, TakeCommand, EndTake, RecoverFarm, RecoverTrading,
                          FinishAdmittedCommands, RaiseCancel, JoinWorkers, PushClosed
      <3> QED
        BY <1>1, <3>1 DEF Dials
    <2> QED
      BY <2>1, <2>2
  <1>3. CASE Workers
    <2>1. CASE WriteLogon
      BY <2>1 DEF WriteLogon, Dials
    <2>2. CASE LandTrading
      BY <2>2 DEF LandTrading, Dials
    <2>3. CASE FailTrading
      <3>1. trading'.phase = "done"
        BY <2>3 DEF FailTrading, AttemptFailure
      <3> QED
        BY <3>1 DEF Dials
    <2>4. CASE LoseTradingWorker
      BY <2>4 DEF LoseTradingWorker, Dials
    <2>5. CASE AnswerFarm
      BY <2>5 DEF AnswerFarm, Dials
    <2> QED
      BY <1>3, <2>1, <2>2, <2>3, <2>4, <2>5 DEF Workers
  <1>4. CASE Caller \/ Venue \/ RunOutOfTime \/ Panic
    <2>1. trading' = trading
      BY <1>4 DEF Caller, Venue, Admit, AdmitForceDisconnect, CloseAdmission, AdmitLogout, AdmitShutdown,
                  DropSenders, LoseTrading, LoseFarm, EndNaming, EndQuestion, EndSettling, AnswerNaming,
                  RunOutOfTime, Panic
    <2> QED
      BY <2>1 DEF Dials
  <1>5. CASE UNCHANGED vars
    BY <1>5 DEF vars, Dials
  <1> QED
    BY <1>2, <1>3, <1>4, <1>5 DEF Next

LEMMA InitGood ==
  ASSUME Init
  PROVE  IInv
  <1>1. sc \in Scenarios /\ trading = NoWorker /\ farm = "none" /\ cmds = <<>> /\ caller = "up"
    BY DEF Init
  <1>2. LapLimit \in Nat \ {0} /\ MaxAttempts \in Nat /\ 0 \in 0 .. LapLimit /\ 0 \in 0 .. MaxAttempts
    BY <1>1, ScenarioIs
  <1>3. NewBudget \in Budgets
    BY <1>2 DEF NewBudget, Budgets
  <1>4. PICK set \in Policies :
     e = [pc |-> "sockets", policy |-> set, running |-> TRUE, finishing |-> "none",
          logoutWritten |-> FALSE, told |-> FALSE, logoutSent |-> FALSE,
          ccpUp |-> TRUE, farmUp |-> TRUE, replay |-> FALSE, over |-> FALSE,
          settling |-> FALSE, halted |-> "none", farmHalted |-> FALSE,
          farmPending |-> FALSE, dropSaid |-> FALSE, lossAnnounced |-> FALSE,
          budget |-> NewBudget, farmBudget |-> NewBudget, cancel |-> FALSE,
          status |-> [o \in Orders |-> "unasked"], answered |-> {},
          sentOnce |-> {}, left |-> 0, taken |-> 0, finished |-> 0,
          admitted |-> 0, admissionClosed |-> FALSE, closed |-> FALSE,
          panicked |-> FALSE, linkUp |-> TRUE, sessionOver |-> "none",
          tradingOver |-> FALSE, notices |-> <<>>, open |-> 1, returned |-> FALSE,
          drops |-> 0, farmDrops |-> 0, forced |-> 0, gone |-> 0]
    BY DEF Init
  <1>5. [o \in Orders |-> "unasked"] \in [Orders -> Statuses]
    BY DEF Statuses
  <1>6. Engine(e)
    <2>1. e = [f \in Fields |-> e[f]]
      BY <1>4 DEF Fields, FieldType
    <2>2. /\ e.pc \in Places /\ e.policy \in Policies /\ e.running \in BOOLEAN
          /\ e.finishing \in Phases /\ e.logoutWritten \in BOOLEAN /\ e.told \in BOOLEAN
          /\ e.logoutSent \in BOOLEAN /\ e.ccpUp \in BOOLEAN /\ e.farmUp \in BOOLEAN
          /\ e.replay \in BOOLEAN /\ e.over \in BOOLEAN /\ e.settling \in BOOLEAN
          /\ e.halted \in Ends /\ e.farmHalted \in BOOLEAN /\ e.farmPending \in BOOLEAN
          /\ e.dropSaid \in BOOLEAN /\ e.lossAnnounced \in BOOLEAN /\ e.cancel \in BOOLEAN
          /\ e.admissionClosed \in BOOLEAN /\ e.closed \in BOOLEAN /\ e.panicked \in BOOLEAN
          /\ e.linkUp \in BOOLEAN /\ e.sessionOver \in Ends /\ e.tradingOver \in BOOLEAN
          /\ e.returned \in BOOLEAN
      BY <1>4 DEF Places, Phases, Ends
    <2>3. /\ e.budget \in Budgets /\ e.farmBudget \in Budgets /\ e.status \in [Orders -> Statuses]
          /\ e.answered \in SUBSET Orders /\ e.sentOnce \in SUBSET Placements /\ e.left \in 0 .. LapLimit
      BY <1>2, <1>3, <1>4, <1>5
    <2>4. /\ e.taken \in Nat /\ e.finished \in Nat /\ e.admitted \in Nat /\ e.open \in Int
          /\ e.drops \in Nat /\ e.farmDrops \in Nat /\ e.forced \in Nat /\ e.gone \in Nat
          /\ e.notices \in Seq(Notices)
      BY <1>4
    <2>5. \A f \in Fields :
            \/ f \in {"pc", "policy", "running", "finishing", "logoutWritten", "told", "logoutSent", "ccpUp"}
            \/ f \in {"farmUp", "replay", "over", "settling", "halted", "farmHalted", "farmPending", "dropSaid"}
            \/ f \in {"lossAnnounced", "budget", "farmBudget", "cancel", "status", "answered", "sentOnce", "left"}
            \/ f \in {"taken", "finished", "admitted", "admissionClosed", "closed", "panicked", "linkUp", "returned"}
            \/ f \in {"sessionOver", "tradingOver", "notices", "open", "drops", "farmDrops", "forced", "gone"}
      BY DEF Fields, FieldType
    <2>6. /\ \A f \in {"pc", "policy", "running", "finishing", "logoutWritten", "told", "logoutSent", "ccpUp"} :
               e[f] \in FieldType[f]
          /\ \A f \in {"farmUp", "replay", "over", "settling", "halted", "farmHalted", "farmPending", "dropSaid"} :
               e[f] \in FieldType[f]
          /\ \A f \in {"lossAnnounced", "budget", "farmBudget", "cancel", "status", "answered", "sentOnce", "left"} :
               e[f] \in FieldType[f]
          /\ \A f \in {"taken", "finished", "admitted", "admissionClosed", "closed", "panicked", "linkUp", "returned"} :
               e[f] \in FieldType[f]
          /\ \A f \in {"sessionOver", "tradingOver", "notices", "open", "drops", "farmDrops", "forced", "gone"} :
               e[f] \in FieldType[f]
      BY <2>2, <2>3, <2>4, FieldTypes
    <2>7. \A f \in Fields : e[f] \in FieldType[f]
      BY <2>5, <2>6
    <2> QED
      BY <2>1, <2>7 DEF Engine
  <1>7. \A o \in Orders : e.status[o] = "unasked"
    BY <1>4
  <1>8. /\ e.pc = "sockets" /\ e.running = TRUE /\ e.finishing = "none" /\ e.told = FALSE /\ e.ccpUp = TRUE
        /\ e.halted = "none" /\ e.dropSaid = FALSE /\ e.lossAnnounced = FALSE /\ e.closed = FALSE
        /\ e.linkUp = TRUE /\ e.sessionOver = "none" /\ e.notices = <<>> /\ e.open = 1 /\ e.taken = 0 /\ e.over = FALSE
        /\ e.finished = 0 /\ e.admitted = 0 /\ e.drops = 0 /\ e.gone = 0 /\ e.forced = 0
    BY <1>4
  <1>9. Len(<<>>) = 0 /\ 1 .. 0 = {} /\ <<>> \in Seq(Commands)
    OBVIOUS
  <1>10. Idle(e) /\ HeldToRecover(e) /\ NoClose(e.notices)
    BY <1>7, <1>8, <1>9 DEF Idle, InHand, HeldToRecover, NoClose
  <1>11. Sound(e)
    BY <1>6, <1>8, <1>10 DEF Sound
  <1>12. Channel(e, cmds)
    BY <1>1, <1>7, <1>9 DEF Channel
  <1>13. Past(e) = {} /\ OpenOrders(e) = {}
    BY <1>7 DEF Past, OpenOrders, Open
  <1>14. Cardinality(Past(e)) = 0 /\ Cardinality(OpenOrders(e)) = 0
    BY <1>13, FS_EmptySet
  <1>15. Counted(e, cmds)
    BY <1>1, <1>8, <1>9, <1>14 DEF Counted
  <1>16. Backlog(e)
    BY <1>8, <1>14 DEF Backlog
  <1>17. CountOf(<<>>, "lost") = 0 /\ CountOf(<<>>, "ForceDisconnect") = 0
    BY <1>9, FS_EmptySet DEF CountOf
  <1>18. LossesAreOwed(e, cmds)
    BY <1>1, <1>8, <1>17 DEF LossesAreOwed, Owed, LossesSaid, ForcesIn
  <1>19. trading.phase = "none" /\ ~Landed(trading)
    BY <1>1 DEF NoWorker, Landed
  <1>20. SessionsAreCounted(e, trading)
    BY <1>8, <1>19 DEF SessionsAreCounted, Spare
  <1>21. LapInTurn(e) /\ EndInTurn(e, trading, farm)
    BY <1>8, <1>9 DEF LapInTurn, EndInTurn, Ending
  <1>22. Shaped(e, trading, farm, cmds, caller)
    BY <1>1, <1>6, <1>9 DEF Shaped, NoWorker
  <1> QED
    BY <1>1, <1>11, <1>12, <1>15, <1>16, <1>18, <1>20, <1>21, <1>22 DEF IInv, Holds

-----------------------------------------------------------------------------
(* The theorems. *)

(* The invariant holds in every state: of the engine's record, the channel, *)
(* the workers and the caller, whatever the scenarios.                      *)
THEOREM Inductive == Spec => []IInv
  <1>1. Init => IInv
    BY InitGood
  <1>2. IInv /\ [Next]_vars => IInv'
    <2>1. SUFFICES ASSUME IInv, [Next]_vars
                   PROVE  IInv'
      OBVIOUS
    <2>2. GoodStep /\ sc' = sc
      BY <2>1, StepIsGood
    <2>3. Holds(e', trading', farm', cmds', caller') /\ sc \in Scenarios
      BY <2>1, <2>2 DEF GoodStep, IInv
    <2> QED
      BY <2>2, <2>3, Later
  <1> QED
    BY <1>1, <1>2, PTL DEF Spec

(* The engine's record keeps its shape through every lap, recovery and end: *)
(* each RecoveryBudget stays within the attempts the caller allowed, and at *)
(* most two sessions are open at the venue.                                 *)
THEOREM TypeCorrect == Spec => []TypeOK
  <1>1. IInv => TypeOK
    <2>1. SUFFICES ASSUME IInv
                   PROVE  TypeOK
      OBVIOUS
    <2>2. /\ sc \in Scenarios /\ Shaped(e, trading, farm, cmds, caller) /\ Engine(e)
          /\ SessionsAreCounted(e, trading)
      BY <2>1 DEF IInv, Holds, Shaped
    <2>3. e.open \in Int
      BY <2>2, Typed
    <2>4. e.open - (IF e.ccpUp /\ ~e.told THEN 1 ELSE 0) = IF Landed(trading) THEN 1 ELSE 0
      BY <2>2 DEF SessionsAreCounted, Spare
    <2>5. e.open \in 0 .. 2
      BY <2>3, <2>4
    <2>6. /\ e.pc \in Places /\ e.policy \in Policies /\ e.finishing \in Phases
          /\ e.halted \in Ends /\ e.sessionOver \in Ends /\ e.budget \in Budgets /\ e.farmBudget \in Budgets
          /\ e.status \in [Orders -> Statuses] /\ e.answered \subseteq Orders /\ e.sentOnce \subseteq Placements
          /\ e.left \in 0 .. LapLimit /\ e.notices \in Seq(Notices)
      BY <2>2, Typed
    <2>7. {e.running, e.logoutWritten, e.told, e.logoutSent, e.ccpUp, e.farmUp, e.replay, e.over,
           e.settling, e.farmHalted, e.farmPending, e.dropSaid, e.lossAnnounced, e.cancel,
           e.admissionClosed, e.closed, e.panicked, e.linkUp, e.tradingOver, e.returned} \subseteq BOOLEAN
      BY <2>2, Typed
    <2>8. {e.taken, e.finished, e.admitted, e.drops, e.farmDrops, e.forced, e.gone} \subseteq Nat
      BY <2>2, Typed
    <2> QED
      BY <2>2, <2>5, <2>6, <2>7, <2>8 DEF TypeOK, Shaped, Places, Phases, Ends
  <1> QED
    BY <1>1, Inductive, PTL

(* Whatever ends a session short of a panic (a stop, the last sender        *)
(* dropped, or a recovery that is refused, taken back or spent), every      *)
(* order the channel admitted is sent or refused before push_closed.        *)
THEOREM OrdersAreSettled == Spec => []AdmittedOrdersAreSettled
  <1>1. IInv => AdmittedOrdersAreSettled
    <2>1. SUFFICES ASSUME IInv, e.closed, ~e.panicked, NEW o \in Orders
                   PROVE  e.status[o] \notin Open
      BY DEF AdmittedOrdersAreSettled
    <2>2. e.pc = "ended" /\ EndInTurn(e, trading, farm)
      BY <2>1 DEF IInv, Holds, LapInTurn
    <2>3. e.status[o] # "queued" /\ Idle(e)
      BY <2>1, <2>2 DEF EndInTurn, Ending
    <2> QED
      BY <2>3 DEF Idle, InHand, Open
  <1> QED
    BY <1>1, Inductive, PTL

(* take_back_the_recovery_still_in_flight leaves no worker behind the       *)
(* session's last record, and push_closed's record is the last.             *)
THEOREM NothingOutlives == Spec => []NothingOutlivesTheSession
  <1>1. IInv => NothingOutlivesTheSession
    <2>1. SUFFICES ASSUME IInv
                   PROVE  NothingOutlivesTheSession
      OBVIOUS
    <2>2. (e.closed <=> e.pc = "ended") /\ EndInTurn(e, trading, farm)
      BY <2>1 DEF IInv, Holds, LapInTurn
    <2> QED
      BY <2>2 DEF EndInTurn, NothingOutlivesTheSession
  <1> QED
    BY <1>1, Inductive, PTL

(* Once halt_recovery has run or the loop has stopped, no attempt is        *)
(* dialled and nothing a worker lands is installed.                         *)
THEOREM NothingIsInstalled == Spec => NothingIsInstalledAfterTheEnd
  <1> DEFINE StaysDown == e.halted # "none" \/ ~e.running =>
                        /\ e'.ccpUp => e.ccpUp
                        /\ e'.farmUp => e.farmUp
                        /\ trading'.phase = "dialling" => trading.phase = "dialling"
  <1>1. IInv /\ [Next]_vars => [StaysDown]_vars
    <2>1. SUFFICES ASSUME IInv, [Next]_vars
                   PROVE  StaysDown
      OBVIOUS
    <2>2. Installs(e', e)
      BY <2>1, StepIsGood DEF GoodStep
    <2>3. Dials
      BY <2>1, StepDials
    <2> QED
      BY <2>2, <2>3 DEF Installs, Dials
  <1> HIDE DEF StaysDown
  <1>2. Spec => [][StaysDown]_vars
    BY <1>1, Inductive, PTL DEF Spec
  <1> QED
    BY <1>2 DEF NothingIsInstalledAfterTheEnd, StaysDown

(* A loss is said once for each connection that went, say_the_drop and      *)
(* set_connection_restored keep link_up honest at the end of every lap, and *)
(* a command counted as finished is settled, or is a placement the recovery *)
(* holds built for the connection that comes back.                          *)
THEOREM SaidIsTrue == Spec => []WhatIsSaidIsTrue
  <1>1. IInv => WhatIsSaidIsTrue
    <2>1. SUFFICES ASSUME IInv
                   PROVE  WhatIsSaidIsTrue
      OBVIOUS
    <2>2. Engine(e) /\ Holds(e, trading, farm, cmds, caller) /\ cmds \in Seq(Commands)
      BY <2>1 DEF IInv, Holds, Shaped
    <2>3. LossesAreReal
      <3>1. /\ LossesSaid(e.notices) \in Nat /\ e.drops \in Nat /\ e.gone \in Nat /\ e.forced \in Nat
            /\ ForcesIn(cmds) \in Nat
        BY <2>2, Figures, Typed, CountIsNat DEF ForcesIn
      <3>2. (LossesSaid(e.notices) + (IF ~e.ccpUp /\ ~e.dropSaid THEN 1 ELSE 0) - (e.drops + e.gone))
              + ForcesIn(cmds) <= e.forced
        BY <2>2 DEF Holds, LossesAreOwed, Owed
      <3>3. LossesSaid(e.notices) <= e.drops + e.forced + e.gone
        BY <3>1, <3>2
      <3> QED
        BY <3>3 DEF LossesAreReal, LossesSaid, CountOf
    <2>4. LinkUpIsHonest
      <3>1. SUFFICES ASSUME e.pc = "spawn", e.running, e.finishing = "none"
                     PROVE  (e.linkUp => e.ccpUp) /\ (e.lossAnnounced <=> ~e.linkUp)
        BY DEF LinkUpIsHonest, At
      <3>2. Sound(e) /\ (e.ccpUp \/ ~e.linkUp)
        BY <2>2, <3>1 DEF Holds, LapInTurn
      <3> QED
        BY <3>1, <3>2 DEF Sound
    <2>5. BacklogIsHonest
      BY <2>2 DEF Holds, Backlog, OpenOrders, BacklogIsHonest, InTheBacklog
    <2> QED
      BY <2>3, <2>4, <2>5 DEF WhatIsSaidIsTrue
  <1> QED
    BY <1>1, Inductive, PTL

(* Through stops, drops, reconnects and recovered placements,               *)
(* drain_and_send_orders sends nothing on a connection whose Logout has     *)
(* been written but a placement the recovery held built before it.          *)
THEOREM GoodbyeIsLast == Spec => OrdersPrecedeTheGoodbye
  <1> DEFINE Before == \A o \in Orders :
               e.status[o] # "sent" /\ e'.status[o] = "sent" /\ e'.told => e.status[o] = "heldBuilt"
  <1>1. IInv /\ [Next]_vars => [Before]_vars
    <2>1. SUFFICES ASSUME IInv, [Next]_vars
                   PROVE  Before
      OBVIOUS
    <2>2. SentInTime(e', e)
      BY <2>1, StepIsGood DEF GoodStep
    <2> QED
      BY <2>2 DEF SentInTime
  <1> HIDE DEF Before
  <1>2. Spec => [][Before]_vars
    BY <1>1, Inductive, PTL DEF Spec
  <1> QED
    BY <1>2 DEF OrdersPrecedeTheGoodbye, Before

-----------------------------------------------------------------------------
(***************************************************************************)
(* What the engine's session leaves at the venue.  The loop stops only     *)
(* without a connection or once the goodbye has been written, and the      *)
(* connection it then holds was told it, or came up after it.  A connection *)
(* can come up after the goodbye only where a stop's two commands fall on   *)
(* two laps: taken on one lap, the goodbye is written as the loop stops.    *)
(***************************************************************************)
\* The goodbye has been asked for: the loop is finishing, has written it, or
\* has stopped.
GoodbyeAsked(en) == ~en.running \/ en.finishing # "none" \/ en.logoutWritten

\* What a loop that said its goodbye, or that stopped, still holds.
Ended(en) ==
  /\ en.logoutWritten /\ en.ccpUp /\ ~en.told => en.returned
  /\ ~en.running => ~en.ccpUp \/ en.logoutWritten

\* A Shutdown comes after a Logout: it is sent after one, on the channel still
\* or taken already.
Heralded(c, cl) ==
  /\ \A i \in 1 .. Len(c) : c[i] = "Shutdown" => \E j \in 1 .. Len(c) : j < i /\ c[j] = "Logout"
  /\ cl = "loggingOut" => \E j \in 1 .. Len(c) : c[j] = "Logout"

Follows(en, c, cl) == GoodbyeAsked(en) \/ Heralded(c, cl)

\* On one lap, the goodbye is written only as the loop stops.
Parted(en) == (en.logoutWritten => ~en.running) /\ ~en.returned

Asked(en) == {o \in Orders : en.status[o] # "unasked"}

\* A Shutdown is next to its Logout in the channel.
Paired(c) ==
  \A i \in 1 .. Len(c) :
    /\ c[i] = "Logout" => i < Len(c) /\ c[i + 1] = "Shutdown"
    /\ c[i] = "Shutdown" /\ i > 1 => c[i - 1] = "Logout"

\* The Shutdown is next once its Logout is taken, on the same lap.
ShutdownIsNext(c) == c # <<>> /\ c[1] = "Shutdown"

InOneLap(en, c) ==
  /\ Paired(c)
  /\ en.finishing = "phase" => en.pc = "take" /\ ShutdownIsNext(c)
  /\ ShutdownIsNext(c) /\ en.running => en.pc = "take" /\ en.finishing # "none"

\* Few commands are admitted, and those a lap has taken left room for the rest.
Room(en, cl) ==
  /\ en.pc = "take" => en.left + en.taken >= LapLimit
  /\ en.forced <= MaxForced
  /\ en.admitted <= Cardinality(Asked(en)) + en.forced + (IF cl = "stopped" THEN 2 ELSE 0)
  /\ cl # "loggingOut"

OnOneLap(en, c, cl) == Parted(en) /\ InOneLap(en, c) /\ Room(en, cl)

Leaves(en, c, cl) ==
  ~en.panicked => Ended(en) /\ Follows(en, c, cl) /\ (OneLapStop => OnOneLap(en, c, cl))

LInv == Leaves(e, cmds, caller)
-----------------------------------------------------------------------------
(* What recovery may do to the parting: stop the loop only without a       *)
(* connection, install one only in a loop that runs, and count one that    *)
(* comes up after the goodbye as such.                                      *)

Parts(r, en) ==
  /\ r.logoutWritten = en.logoutWritten
  /\ r.finishing = en.finishing \/ r.finishing = "none"
  /\ ~en.running => ~r.running
  /\ ~r.running /\ r.ccpUp => ~en.running /\ en.ccpUp
  /\ GoodbyeAsked(en) => GoodbyeAsked(r)
  /\ en.returned => r.returned
  /\ r.returned => en.returned \/ (en.logoutWritten /\ en.running)
  /\ r.ccpUp /\ ~r.told => (en.ccpUp /\ ~en.told) \/ r.returned \/ ~en.logoutWritten

LEMMA PartsTwice ==
  ASSUME NEW r, NEW s, NEW en, Parts(r, s), Parts(s, en)
  PROVE  Parts(r, en)
  BY DEF Parts

LEMMA PartsParted ==
  ASSUME NEW r, NEW en, Parts(r, en), Parted(en)
  PROVE  Parted(r)
  BY DEF Parts, Parted

LEMMA PartsEnded ==
  ASSUME NEW r, NEW en, Parts(r, en), Ended(en)
  PROVE  Ended(r)
  BY DEF Parts, Ended

LEMMA PartsSame ==
  ASSUME NEW r, NEW en, NEW S, Same(r, en, S),
         "logoutWritten" \notin S, "finishing" \notin S, "running" \notin S, "ccpUp" \notin S, "told" \notin S,
         "returned" \notin S
  PROVE  Parts(r, en)
  <1>1. /\ r.logoutWritten = en.logoutWritten /\ r.finishing = en.finishing /\ r.running = en.running
        /\ r.ccpUp = en.ccpUp /\ r.told = en.told /\ r.returned = en.returned
    BY FieldNames DEF Same
  <1> QED
    BY <1>1 DEF Parts, GoodbyeAsked

LEMMA HaltParts ==
  ASSUME NEW en, Sound(en), ~en.ccpUp, NEW why \in Reasons
  PROVE  Parts(HaltRecovery(en, why), en)
  <1> DEFINE r == HaltRecovery(en, why)
  <1>1. Sound(r) /\ Same(r, en, Halting) /\ ~r.running
    BY HaltDoes
  <1> HIDE DEF r
  <1>2. /\ r.logoutWritten = en.logoutWritten /\ r.ccpUp = en.ccpUp /\ r.told = en.told
        /\ r.returned = en.returned
    BY <1>1, FieldNames DEF Same, Halting
  <1>3. r.finishing = "none"
    BY <1>1 DEF Sound
  <1>4. Parts(r, en)
    BY <1>1, <1>2, <1>3 DEF Parts, GoodbyeAsked
  <1> QED
    BY <1>4 DEF r

LEMMA FarmIsOverParts ==
  ASSUME NEW en, Sound(en)
  PROVE  Parts(FarmIsOver(en), en) /\ FarmIsOver(en).ccpUp = en.ccpUp
  <1>1. Same(FarmIsOver(en), en, {"farmHalted", "farmPending"})
    BY FarmIsOverDoes
  <1> QED
    BY <1>1, PartsSame, FieldNames DEF Same

LEMMA AbandonParts ==
  ASSUME NEW en, Sound(en), trading.phase # "none" => ~en.ccpUp
  PROVE  Parts(AbandonRecoveryPastItsDeadline(en), en)
  <1> DEFINE late == en.farmPending /\ en.farmBudget.late
             f == IF late THEN FarmIsOver(en) ELSE en
             r == AbandonRecoveryPastItsDeadline(en)
  <1>1. Sound(f) /\ Parts(f, en) /\ f.ccpUp = en.ccpUp
    <2>1. CASE late
      BY <2>1, FarmIsOverDoes, FarmIsOverParts
    <2>2. CASE ~late
      BY <2>2 DEF Parts
    <2> QED
      BY <2>1, <2>2
  <1>2. \/ r = en
        \/ r = f
        \/ r = HaltRecovery(f, "RecoveryExhausted") /\ ~en.ccpUp
    BY DEF AbandonRecoveryPastItsDeadline
  <1> HIDE DEF f
  <1>3. CASE r = en
    BY <1>3 DEF Parts
  <1>4. CASE r = HaltRecovery(f, "RecoveryExhausted") /\ ~en.ccpUp
    <2>1. "RecoveryExhausted" \in Reasons
      BY DEF Reasons
    <2>2. Parts(r, f)
      BY <1>1, <1>4, <2>1, HaltParts
    <2> QED
      BY <1>1, <2>2, PartsTwice
  <1> QED
    BY <1>1, <1>2, <1>3, <1>4

LEMMA PolledFarmParts ==
  ASSUME NEW en, Sound(en)
  PROVE  Parts(PolledFarm(en), en)
  <1> DEFINE heard == [en EXCEPT !.farmPending = FALSE]
             b == [heard.farmBudget EXCEPT !.healthy = TRUE]
             up == [heard EXCEPT !.farmUp = TRUE, !.farmHalted = FALSE, !.farmBudget = b,
                                 !.sessionOver = "none", !.tradingOver = FALSE]
             r == PolledFarm(en)
  <1>0. Engine(en)
    BY DEF Sound
  <1>1. Engine(heard) /\ Same(heard, en, {"farmPending"})
    BY <1>0, FieldNames, FieldTypes DEF Engine, Same
  <1>2. \/ r = en
        \/ r = heard
        \/ r = up
        \/ r = FarmIsOver(en)
        \/ r = HaltRecovery(en, "Refused") /\ ~en.ccpUp
        \/ r = HaltRecovery(en, "ByDesign") /\ ~en.ccpUp
    BY DEF PolledFarm, FarmIsRefused
  <1> HIDE DEF heard, b, r
  <1>3. Same(up, heard, {"farmUp", "farmHalted", "farmBudget", "sessionOver", "tradingOver"})
    BY <1>1, FieldNames DEF Engine, Same
  <1> HIDE DEF up
  <1>4. Parts(heard, en) /\ Parts(up, heard) /\ Parts(en, en)
    BY <1>1, <1>3, PartsSame DEF Parts
  <1>5. Parts(up, en)
    BY <1>4, PartsTwice
  <1>6. "Refused" \in Reasons /\ "ByDesign" \in Reasons
    BY DEF Reasons
  <1>7. Parts(r, en)
    BY <1>2, <1>4, <1>5, <1>6, FarmIsOverParts, HaltParts
  <1> QED
    BY <1>7 DEF r

LEMMA PolledCcpParts ==
  ASSUME NEW en, Sound(en), en.running \/ en.halted # "none", trading.phase # "none" => ~en.ccpUp,
         trading.gone \in BOOLEAN
  PROVE  Parts(PolledCcp(en), en)
  <1> DEFINE said == SayWhatTheAttemptLetGo(en, trading.gone)
             r == PolledCcp(en)
  <1>1. CASE trading.phase # "done"
    <2>1. r = en
      BY <1>1 DEF PolledCcp
    <2> QED
      BY <2>1 DEF Parts
  <1>2. CASE trading.phase = "done"
    <2>0. ~en.ccpUp
      BY <1>2
    <2>1. Sound(said) /\ Same(said, en, Told \cup {"gone"})
      BY <2>0, LetGoIsSaid
    <2>2. \/ r = en
          \/ r = said
          \/ r = HaltRecovery(said, "Refused")
          \/ r = HaltRecovery(said, "ByDesign")
          \/ r = TellTheLateSession(en)
          \/ en.halted = "none" /\ r = ReconnectCcp(said)
      BY <1>2 DEF PolledCcp
    <2> HIDE DEF said, r
    <2>3. said.ccpUp = en.ccpUp /\ said.running = en.running /\ said.halted = en.halted
      BY <2>1, FieldNames DEF Same, Told
    <2>4. Parts(said, en) /\ Parts(en, en)
      BY <2>1, PartsSame DEF Told, Parts
    <2>5. CASE r = HaltRecovery(said, "Refused") \/ r = HaltRecovery(said, "ByDesign")
      <3>1. "Refused" \in Reasons /\ "ByDesign" \in Reasons
        BY DEF Reasons
      <3>2. Parts(r, said)
        BY <2>0, <2>1, <2>3, <2>5, <3>1, HaltParts
      <3> QED
        BY <2>4, <3>2, PartsTwice DEF r
    <2>6. CASE r = TellTheLateSession(en)
      <3>1. Same(r, en, {"open"})
        BY <2>6, TellLateDoes
      <3> QED
        BY <3>1, PartsSame DEF r
    <2>7. CASE en.halted = "none" /\ r = ReconnectCcp(said)
      <3>1. /\ r.running /\ r.logoutWritten = said.logoutWritten /\ r.finishing = said.finishing /\ said.running
            /\ r.returned = (said.returned \/ said.logoutWritten)
        BY <2>0, <2>1, <2>3, <2>7, ReconnectDoes
      <3>2. Parts(r, said)
        BY <3>1 DEF Parts, GoodbyeAsked
      <3> QED
        BY <2>4, <3>2, PartsTwice DEF r
    <2> QED
      BY <2>2, <2>4, <2>5, <2>6, <2>7 DEF r
  <1> QED
    BY <1>1, <1>2

LEMMA SaidParts ==
  ASSUME NEW en, Sound(en), NEW r \in SaidOfTheConnection(en)
  PROVE  Parts(r, en)
  <1> DEFINE back == SetConnectionRestored([en EXCEPT !.lossAnnounced = FALSE])
  <1>0. en.ccpUp \in BOOLEAN /\ en.lossAnnounced \in BOOLEAN
    BY Typed DEF Sound
  <1>1. \/ ~en.ccpUp /\ r = TheTradingConnectionWent(en)
        \/ r = en
        \/ en.ccpUp /\ en.lossAnnounced /\ r = back
    BY <1>0 DEF SaidOfTheConnection
  <1> HIDE DEF back
  <1>2. CASE ~en.ccpUp /\ r = TheTradingConnectionWent(en)
    <2>1. Same(r, en, Told)
      BY <1>2, WentDoes
    <2> QED
      BY <2>1, PartsSame DEF Told
  <1>3. CASE en.ccpUp /\ en.lossAnnounced /\ r = back
    <2>1. Same(r, en, {"lossAnnounced", "linkUp", "notices"})
      BY <1>3, RestoredDoes DEF back
    <2> QED
      BY <2>1, PartsSame
  <1>4. Parts(en, en)
    BY DEF Parts
  <1> QED
    BY <1>1, <1>2, <1>3, <1>4

LEMMA FarmScheduledParts ==
  ASSUME NEW en, Sound(en), NEW fs \in FarmScheduled(en)
  PROVE  Parts(fs, en)
  <1> DEFINE b == RecordAttempt(en.farmBudget)
             u == [en EXCEPT !.farmPending = TRUE, !.farmBudget = b]
  <1>0. Engine(en)
    BY DEF Sound
  <1>1. fs = en \/ fs = u \/ fs = FarmIsOver(en)
    BY DEF FarmScheduled
  <1> HIDE DEF b
  <1>2. Same(u, en, {"farmPending", "farmBudget"})
    BY <1>0, FieldNames DEF Engine, Same
  <1> HIDE DEF u
  <1>3. Parts(u, en) /\ Parts(en, en)
    BY <1>2, PartsSame DEF Parts
  <1> QED
    BY <1>1, <1>3, FarmIsOverParts

LEMMA CcpScheduledParts ==
  ASSUME NEW en, Sound(en), NEW cs \in CcpScheduled(en)
  PROVE  Parts(cs, en)
  <1> DEFINE b == RecordAttempt(en.budget)
             u == [en EXCEPT !.budget = b]
  <1>0. Engine(en)
    BY DEF Sound
  <1>1. cs = en \/ cs = u \/ (cs = HaltRecovery(en, "RecoveryExhausted") /\ CcpWants(en))
    BY DEF CcpScheduled
  <1>4. CcpWants(en) => ~en.ccpUp
    BY DEF CcpWants
  <1> HIDE DEF b
  <1>2. Same(u, en, {"budget"})
    BY <1>0, FieldNames DEF Engine, Same
  <1> HIDE DEF u
  <1>3. Parts(u, en) /\ Parts(en, en) /\ "RecoveryExhausted" \in Reasons
    BY <1>2, PartsSame DEF Parts, Reasons
  <1> QED
    BY <1>1, <1>3, <1>4, HaltParts

LEMMA EndTradingParts ==
  ASSUME NEW en, Sound(en)
  PROVE  Parts(EndTheTradingConnection(en), en)
  <1>1. Same(EndTheTradingConnection(en), en, {"status", "tradingOver"})
    BY EndTradingDoes
  <1> QED
    BY <1>1, PartsSame

-----------------------------------------------------------------------------
(* The steps that leave the channel alone. *)

Noted == {"pc", "left", "taken", "admitted", "forced", "panicked", "running", "finishing", "logoutWritten",
          "told", "ccpUp", "status", "returned"}

LEMMA MovesAsked ==
  ASSUME NEW r, NEW en, Moves(r, en)
  PROVE  Asked(r) = Asked(en)
  BY DEF Moves, Asked

\* A step that writes nothing of this, wherever the lap is.
LEMMA Unmoved ==
  ASSUME NEW r, NEW en, NEW S, NEW c, NEW cl, Same(r, en, S), S \cap Noted = {}, Leaves(en, c, cl)
  PROVE  Leaves(r, c, cl)
  <1>1. \A f \in Noted : r[f] = en[f]
    BY FieldNames DEF Same, Noted
  <1>2. /\ r.pc = en.pc /\ r.left = en.left /\ r.taken = en.taken /\ r.admitted = en.admitted
        /\ r.forced = en.forced /\ r.panicked = en.panicked /\ r.running = en.running
        /\ r.finishing = en.finishing /\ r.logoutWritten = en.logoutWritten /\ r.told = en.told
        /\ r.ccpUp = en.ccpUp /\ r.status = en.status /\ r.returned = en.returned
    BY <1>1 DEF Noted
  <1> QED
    BY <1>2 DEF Leaves, Ended, Follows, GoodbyeAsked, OnOneLap, Parted, InOneLap, Room, Asked

\* A step of the lap outside the taking of commands.
LEMMA Moved ==
  ASSUME NEW r, NEW en, NEW c, NEW cl, en.pc # "take", Leaves(en, c, cl), Parts(r, en),
         r.taken = en.taken, r.admitted = en.admitted, r.forced = en.forced, r.panicked = en.panicked,
         Asked(r) = Asked(en), r.pc = "take" => r.left + r.taken >= LapLimit
  PROVE  Leaves(r, c, cl)
  <1>1. SUFFICES ASSUME ~en.panicked
                 PROVE  Ended(r) /\ Follows(r, c, cl) /\ (OneLapStop => OnOneLap(r, c, cl))
    BY DEF Leaves
  <1>2. Ended(r)
    BY <1>1, PartsEnded DEF Leaves
  <1>3. Follows(r, c, cl)
    BY <1>1 DEF Leaves, Follows, Parts
  <1>4. ASSUME OneLapStop
        PROVE  OnOneLap(r, c, cl)
    <2>1. Parted(en) /\ InOneLap(en, c) /\ Room(en, cl)
      BY <1>1, <1>4 DEF Leaves, OnOneLap
    <2>2. Parted(r)
      BY <2>1, PartsParted
    <2>3. InOneLap(r, c)
      BY <2>1 DEF InOneLap, Parts
    <2>4. Room(r, cl)
      BY <2>1 DEF Room
    <2> QED
      BY <2>2, <2>3, <2>4 DEF OnOneLap
  <1> QED
    BY <1>2, <1>3, <1>4

LEMMA MovedOn ==
  ASSUME NEW r, NEW en, NEW S, NEW c, NEW cl, en.pc # "take", r.pc # "take", Leaves(en, c, cl),
         Same(r, en, S), S \cap (Noted \ {"pc"}) = {}
  PROVE  Leaves(r, c, cl)
  <1>1. \A f \in Noted \ {"pc"} : r[f] = en[f]
    BY FieldNames DEF Same, Noted
  <1>2. /\ r.taken = en.taken /\ r.admitted = en.admitted /\ r.forced = en.forced /\ r.panicked = en.panicked
        /\ r.status = en.status
    BY <1>1 DEF Noted
  <1>3. Parts(r, en)
    BY PartsSame DEF Noted
  <1>4. Asked(r) = Asked(en)
    BY <1>2 DEF Asked
  <1> QED
    BY <1>2, <1>3, <1>4, Moved

LeftStep == Leaves(e', cmds', caller')

\* A step of recovery, and then to another place of the lap.
Placed(r, u) == Same(r, u, {"pc"}) /\ r.pc # "take"

LEMMA PlacedLeaves ==
  ASSUME LInv, NEW r, NEW u, Placed(r, u), Recovering(u, e), Parts(u, e), e.pc # "take"
  PROVE  Leaves(r, cmds, caller)
  <1>1. Same(r, u, {"pc"}) /\ r.pc # "take"
    BY DEF Placed
  <1>2. /\ r.taken = u.taken /\ r.admitted = u.admitted /\ r.forced = u.forced /\ r.panicked = u.panicked
        /\ r.status = u.status
    BY <1>1, FieldNames DEF Same
  <1>3. u.taken = e.taken /\ u.admitted = e.admitted /\ u.forced = e.forced /\ u.panicked = e.panicked
    BY DEF Recovering, Kept
  <1>4. Parts(r, e)
    BY <1>1, PartsSame, PartsTwice
  <1>5. Asked(r) = Asked(e)
    <2>1. Asked(u) = Asked(e)
      BY MovesAsked DEF Recovering
    <2> QED
      BY <1>2, <2>1 DEF Asked
  <1> QED
    BY <1>1, <1>2, <1>3, <1>4, <1>5, Moved DEF LInv

LEMMA ReadSocketsLeaves ==
  ASSUME IInv, LInv, ReadSockets
  PROVE  LeftStep
  <1> DEFINE b == DrainAndSendOrders(LetGoOfTheHeld(e))
  <1>1. PICK u \in WorkedThrough(b) : e' = [u EXCEPT !.pc = "take", !.left = LapLimit]
    BY DEF ReadSockets
  <1> DEFINE r == [u EXCEPT !.pc = "take", !.left = LapLimit]
  <1>2. cmds' = cmds /\ caller' = caller /\ e.pc = "sockets"
    BY DEF ReadSockets, At
  <1>3. Engine(e) /\ Sound(e) /\ sc \in Scenarios
    BY <1>2 DEF IInv, Holds, Shaped, LapInTurn
  <1>5. Sound(b) /\ Steps(b, e) /\ Same(b, e, {"status", "sentOnce"})
    BY <1>3, LetGoAndDrainDoes
  <1> HIDE DEF b
  <1>6. Sound(u) /\ Steps(u, b) /\ Same(u, b, {"status", "answered"})
    BY <1>5, WorkedThroughDoes
  <1>7. Engine(u) /\ LapLimit \in Nat /\ LapLimit \in 0 .. LapLimit /\ "take" \in Places
    BY <1>3, <1>6, ScenarioIs DEF Sound, Places
  <1>8. Same(r, u, {"pc", "left"}) /\ Engine(r) /\ r.left = LapLimit
    BY <1>7, FieldNames, FieldTypes DEF Engine, Same
  <1>9. r.status = u.status /\ r.taken \in Nat
    BY <1>8, FieldNames, Typed DEF Same
  <1> HIDE DEF r
  <1>10. Same(r, e, {"status", "sentOnce", "answered", "pc", "left"})
    BY <1>5, <1>6, <1>8 DEF Same
  <1>11. r.taken = e.taken /\ r.admitted = e.admitted /\ r.forced = e.forced /\ r.panicked = e.panicked
    BY <1>10, FieldNames DEF Same
  <1>12. Parts(r, e)
    BY <1>10, PartsSame
  <1>13. Asked(r) = Asked(e)
    <2>1. Asked(u) = Asked(b) /\ Asked(b) = Asked(e)
      BY <1>5, <1>6, MovesAsked DEF Steps
    <2> QED
      BY <1>9, <2>1 DEF Asked
  <1>14. r.left + r.taken >= LapLimit
    BY <1>7, <1>8, <1>9
  <1>15. Leaves(r, cmds, caller)
    BY <1>2, <1>11, <1>12, <1>13, <1>14, Moved DEF LInv
  <1> QED
    BY <1>1, <1>2, <1>15 DEF LeftStep, r

LEMMA RecoverFarmLeaves ==
  ASSUME IInv, LInv, RecoverFarm
  PROVE  LeftStep
  <1> DEFINE timely == AbandonRecoveryPastItsDeadline(e)
             u == PolledFarm(timely)
             r == [u EXCEPT !.pc = "trading"]
  <1>1. e' = r /\ cmds' = cmds /\ caller' = caller /\ e.pc = "farm"
    BY DEF RecoverFarm, At
  <1>2. Engine(e) /\ Holds(e, trading, farm, cmds, caller)
    BY DEF IInv, Holds, Shaped
  <1>3. Sound(e) /\ e.running /\ (trading.phase # "none" => ~e.ccpUp)
    BY <1>1, <1>2 DEF Holds, LapInTurn, SessionsAreCounted
  <1>4. /\ Sound(timely) /\ Steps(timely, e) /\ Parts(timely, e)
        /\ timely.running = e.running \/ (~timely.running /\ timely.halted # "none")
    BY <1>3, AbandonDoes, AbandonParts
  <1> HIDE DEF timely
  <1>5. Sound(u) /\ Recovering(u, timely) /\ Parts(u, timely)
    BY <1>3, <1>4, PolledFarmDoes, PolledFarmParts
  <1> HIDE DEF u
  <1>6. Engine(timely) /\ Engine(u) /\ "trading" \in Places
    BY <1>4, <1>5 DEF Sound, Places
  <1>7. Recovering(u, e) /\ Parts(u, e)
    BY <1>2, <1>4, <1>5, <1>6, StepsRecover, RecoveringTwice, PartsTwice
  <1>8. Same(r, u, {"pc"}) /\ r.pc = "trading"
    BY <1>6, FieldNames DEF Engine, Same
  <1> HIDE DEF r
  <1>9. Placed(r, u)
    BY <1>8 DEF Placed
  <1> QED
    BY <1>1, <1>7, <1>8, <1>9, PlacedLeaves DEF LeftStep

LEMMA RecoverTradingLeaves ==
  ASSUME IInv, LInv, RecoverTrading
  PROVE  LeftStep
  <1> DEFINE s == PolledCcp(e)
  <1>1. PICK u \in SaidOfTheConnection(s) : e' = [u EXCEPT !.pc = "spawn"]
    BY DEF RecoverTrading
  <1> DEFINE r == [u EXCEPT !.pc = "spawn"]
  <1>2. cmds' = cmds /\ caller' = caller /\ e.pc = "trading"
    BY DEF RecoverTrading, At
  <1>3. Engine(e) /\ Holds(e, trading, farm, cmds, caller) /\ trading \in Answers
    BY DEF IInv, Holds, Shaped, Answers
  <1>4. Sound(e) /\ (e.running \/ e.halted # "none") /\ (trading.phase # "none" => ~e.ccpUp)
    BY <1>2, <1>3 DEF Holds, LapInTurn, SessionsAreCounted
  <1>5. trading.gone \in BOOLEAN
    BY <1>3 DEF Answers
  <1>6. Sound(s) /\ Recovering(s, e) /\ Parts(s, e)
    BY <1>4, <1>5, PolledCcpDoes, PolledCcpParts
  <1> HIDE DEF s
  <1>7. Sound(u) /\ Steps(u, s) /\ Parts(u, s)
    BY <1>1, <1>6, SaidDoes, SaidParts
  <1>8. Engine(s) /\ Engine(u) /\ "spawn" \in Places
    BY <1>6, <1>7 DEF Sound, Places
  <1>9. Recovering(u, e) /\ Parts(u, e)
    BY <1>3, <1>6, <1>7, <1>8, StepsRecover, RecoveringTwice, PartsTwice
  <1>10. Same(r, u, {"pc"}) /\ r.pc = "spawn"
    BY <1>8, FieldNames DEF Engine, Same
  <1>11. Placed(r, u)
    BY <1>10 DEF Placed
  <1>12. e' = r
    BY <1>1
  <1> HIDE DEF r
  <1> QED
    BY <1>2, <1>9, <1>10, <1>11, <1>12, PlacedLeaves DEF LeftStep

LEMMA EndLapLeaves ==
  ASSUME LInv, NEW cs, e' = EndLap(cs), cmds' = cmds, caller' = caller, e.pc # "take", Engine(e),
         Sound(cs), Steps(cs, e), Parts(cs, e)
  PROVE  LeftStep
  <1> DEFINE u == EndTheTradingConnection(cs)
             p == IF cs.running THEN "sockets" ELSE "finish"
             r == [u EXCEPT !.pc = p]
  <1>1. e' = r
    BY DEF EndLap
  <1>2. Sound(u) /\ Steps(u, cs) /\ Parts(u, cs)
    BY EndTradingDoes, EndTradingParts
  <1> HIDE DEF u
  <1>3. Engine(cs) /\ Engine(u) /\ p # "take"
    BY <1>2 DEF Sound
  <1> HIDE DEF p
  <1>4. Recovering(u, e) /\ Parts(u, e)
    BY <1>2, <1>3, StepsTwice, StepsRecover, PartsTwice
  <1>5. Same(r, u, {"pc"}) /\ r.pc = p
    BY <1>3, FieldNames DEF Engine, Same
  <1> HIDE DEF r
  <1>6. Placed(r, u)
    BY <1>3, <1>5 DEF Placed
  <1> QED
    BY <1>1, <1>4, <1>6, PlacedLeaves DEF LeftStep

LEMMA SpawnLeaves ==
  ASSUME IInv, LInv, Spawn
  PROVE  LeftStep
  <1>1. PICK b \in Settled(e.budget, e.ccpUp), fb \in Settled(e.farmBudget, e.farmUp) :
          LET settled == [e EXCEPT !.budget = b, !.farmBudget = fb]
              timely == AbandonRecoveryPastItsDeadline(settled)
          IN  IF e.running /\ e.finishing = "none"
                THEN \E fs \in FarmScheduled(timely) : \E cs \in CcpScheduled(fs) : e' = EndLap(cs)
                ELSE e' = EndLap(settled)
    BY DEF Spawn
  <1> DEFINE settled == [e EXCEPT !.budget = b, !.farmBudget = fb]
             timely == AbandonRecoveryPastItsDeadline(settled)
  <1>2. cmds' = cmds /\ caller' = caller /\ e.pc = "spawn"
    BY DEF Spawn, At
  <1>3. Engine(e) /\ Holds(e, trading, farm, cmds, caller) /\ sc \in Scenarios
    BY DEF IInv, Holds, Shaped
  <1>4. Sound(e) /\ (trading.phase # "none" => ~e.ccpUp)
    BY <1>2, <1>3 DEF Holds, LapInTurn, SessionsAreCounted
  <1>5. b \in Budgets /\ fb \in Budgets
    <2>1. e.budget \in Budgets /\ e.farmBudget \in Budgets /\ e.ccpUp \in BOOLEAN /\ e.farmUp \in BOOLEAN
      BY <1>3, Typed
    <2> QED
      BY <1>3, <2>1, SettledBudget
  <1>6. Engine(settled) /\ Same(settled, e, {"budget", "farmBudget"})
    BY <1>3, <1>5, FieldNames, FieldTypes DEF Engine, Same
  <1>7. \/ e' = EndLap(settled)
        \/ \E fs \in FarmScheduled(timely) : \E cs \in CcpScheduled(fs) : e' = EndLap(cs)
    BY <1>1
  <1> HIDE DEF settled
  <1>8. /\ Same(settled, e, Minor) /\ settled.admissionClosed = e.admissionClosed /\ settled.farmUp = e.farmUp
        /\ settled.ccpUp = e.ccpUp
    BY <1>6, FieldNames DEF Same, Minor
  <1>9. Sound(settled) /\ Steps(settled, e) /\ Parts(settled, e)
    BY <1>4, <1>6, <1>8, MinorDoes, PartsSame
  <1>10. CASE e' = EndLap(settled)
    BY <1>2, <1>3, <1>9, <1>10, EndLapLeaves
  <1>11. CASE \E fs \in FarmScheduled(timely) : \E cs \in CcpScheduled(fs) : e' = EndLap(cs)
    <2>1. PICK fs \in FarmScheduled(timely) : \E cs \in CcpScheduled(fs) : e' = EndLap(cs)
      BY <1>11
    <2>2. PICK cs \in CcpScheduled(fs) : e' = EndLap(cs)
      BY <2>1
    <2>3. Sound(timely) /\ Steps(timely, settled) /\ Parts(timely, settled)
      BY <1>4, <1>8, <1>9, AbandonDoes, AbandonParts
    <2> HIDE DEF timely
    <2>4. Sound(fs) /\ Steps(fs, timely) /\ Parts(fs, timely)
      BY <1>3, <2>3, FarmScheduledDoes, FarmScheduledParts
    <2>5. Sound(cs) /\ Steps(cs, fs) /\ Parts(cs, fs)
      BY <1>3, <2>4, CcpScheduledDoes, CcpScheduledParts
    <2>6. Engine(settled) /\ Engine(timely) /\ Engine(fs) /\ Engine(cs)
      BY <1>9, <2>3, <2>4, <2>5 DEF Sound
    <2>7. Steps(timely, e) /\ Parts(timely, e)
      BY <1>3, <1>9, <2>3, <2>6, StepsTwice, PartsTwice
    <2>8. Steps(fs, e) /\ Parts(fs, e)
      BY <1>3, <2>4, <2>6, <2>7, StepsTwice, PartsTwice
    <2>9. Steps(cs, e) /\ Parts(cs, e)
      BY <1>3, <2>5, <2>6, <2>8, StepsTwice, PartsTwice
    <2> QED
      BY <1>2, <1>3, <2>2, <2>5, <2>9, EndLapLeaves
  <1> QED
    BY <1>7, <1>10, <1>11

\* The end: nothing of this is written but the place, and the channel emptied.
LEMMA EndLeaves ==
  ASSUME IInv, LInv, FinishAdmittedCommands \/ RaiseCancel \/ JoinWorkers \/ PushClosed
  PROVE  LeftStep
  <1>0. Engine(e) /\ Holds(e, trading, farm, cmds, caller) /\ sc \in Scenarios
    BY DEF IInv, Holds, Shaped
  <1>1. CASE FinishAdmittedCommands
    <2> DEFINE d == Become(e, In(e, "queued"), "refused")
               u == Become(d, In(d, "built"), "refused")
               k == u.taken + Len(cmds)
               n == e.taken + Len(cmds)
               r == [u EXCEPT !.pc = "takeBack", !.admissionClosed = TRUE, !.taken = k, !.finished = n]
    <2>1. e' = r /\ cmds' = <<>> /\ caller' = caller /\ e.pc = "finish"
      BY <1>1 DEF FinishAdmittedCommands, At, RefuseWhatIsLeft
    <2>2. "refused" \in Statuses
      BY DEF Statuses
    <2>3. /\ Engine(d) /\ Same(d, e, {"status"})
          /\ \A o \in Orders : d.status[o] = IF o \in In(e, "queued") THEN "refused" ELSE e.status[o]
      BY <1>0, <2>2, BecomeDoes
    <2> HIDE DEF d
    <2>4. /\ Engine(u) /\ Same(u, d, {"status"})
          /\ \A o \in Orders : u.status[o] = IF o \in In(d, "built") THEN "refused" ELSE d.status[o]
      BY <2>2, <2>3, BecomeDoes
    <2> HIDE DEF u, k, n
    <2>5. Same(r, u, {"pc", "admissionClosed", "taken", "finished"}) /\ r.pc = "takeBack"
      BY <2>4, FieldNames DEF Engine, Same
    <2> HIDE DEF r
    <2>6. Same(r, e, {"status", "pc", "admissionClosed", "taken", "finished"}) /\ r.status = u.status
      BY <2>3, <2>4, <2>5, FieldNames DEF Same
    <2>7. Parts(r, e) /\ r.admitted = e.admitted /\ r.forced = e.forced /\ r.panicked = e.panicked
      BY <2>6, PartsSame, FieldNames DEF Same
    <2>8. Asked(r) = Asked(e)
      BY <2>3, <2>4, <2>6 DEF Asked, In
    <2>9. ~e.running /\ r.running = e.running
      BY <1>0, <2>1, <2>6, FieldNames DEF Holds, LapInTurn, Same
    <2>10. ~e.panicked => Ended(r) /\ Follows(r, <<>>, caller)
      BY <2>7, <2>9, PartsEnded DEF LInv, Leaves, Follows, GoodbyeAsked
    <2>11. ~e.panicked /\ OneLapStop => OnOneLap(r, <<>>, caller)
      <3>1. SUFFICES ASSUME ~e.panicked, OneLapStop
                     PROVE  Parted(r) /\ InOneLap(r, <<>>) /\ Room(r, caller)
        BY DEF OnOneLap
      <3>2. Parted(e) /\ InOneLap(e, cmds) /\ Room(e, caller)
        BY <3>1 DEF LInv, Leaves, OnOneLap
      <3>3. Parted(r)
        BY <2>7, <3>2, PartsParted
      <3>4. Room(r, caller)
        BY <2>5, <2>7, <2>8, <3>2 DEF Room
      <3>5. InOneLap(r, <<>>)
        BY <2>1, <2>7, <3>2 DEF InOneLap, Paired, ShutdownIsNext, Parts
      <3> QED
        BY <3>3, <3>4, <3>5
    <2> QED
      BY <2>1, <2>7, <2>10, <2>11 DEF LeftStep, Leaves
  <1>2. CASE RaiseCancel
    <2> DEFINE r == [[e EXCEPT !.cancel = TRUE] EXCEPT !.pc = "join", !.admissionClosed = TRUE]
    <2>1. e' = r /\ cmds' = cmds /\ caller' = caller /\ e.pc = "takeBack"
      BY <1>2 DEF RaiseCancel, At, CancelRecovery
    <2>2. Same(r, e, {"cancel", "pc", "admissionClosed"}) /\ r.pc = "join"
      BY <1>0, FieldNames DEF Engine, Same
    <2> HIDE DEF r
    <2>3. Leaves(r, cmds, caller)
      BY <2>1, <2>2, MovedOn DEF LInv, Noted
    <2> QED
      BY <2>1, <2>3 DEF LeftStep
  <1>3. CASE JoinWorkers
    <2> DEFINE k == e.open - 1
               u == [e EXCEPT !.open = k, !.logoutSent = TRUE]
               r == [e EXCEPT !.pc = "close", !.farmPending = FALSE]
               s == [u EXCEPT !.pc = "close", !.farmPending = FALSE]
    <2>1. cmds' = cmds /\ caller' = caller /\ e.pc = "join" /\ (e' = r \/ e' = s)
      BY <1>3 DEF JoinWorkers, At, TakeBack, TellTheLateSession
    <2> HIDE DEF k
    <2>2. Same(r, e, {"pc", "farmPending"}) /\ r.pc = "close"
      BY <1>0, FieldNames DEF Engine, Same
    <2>3. Same(s, e, {"open", "logoutSent", "pc", "farmPending"}) /\ s.pc = "close"
      BY <1>0, FieldNames DEF Engine, Same
    <2> HIDE DEF r, s
    <2>4. Leaves(r, cmds, caller) /\ Leaves(s, cmds, caller)
      BY <2>1, <2>2, <2>3, MovedOn DEF LInv, Noted
    <2> QED
      BY <2>1, <2>4 DEF LeftStep
  <1>4. CASE PushClosed
    <2> DEFINE w == IF e.panicked /\ e.sessionOver = "none" THEN "EngineStopped" ELSE e.sessionOver
               u == [e EXCEPT !.sessionOver = w]
               n == e.admitted
               r == [u EXCEPT !.pc = "ended", !.finished = n, !.admissionClosed = TRUE,
                              !.closed = TRUE, !.linkUp = FALSE, !.notices = Append(u.notices, "closed")]
               s == [e EXCEPT !.pc = "ended", !.finished = n, !.admissionClosed = TRUE,
                              !.closed = TRUE, !.linkUp = FALSE, !.notices = Append(e.notices, "closed")]
    <2>1. cmds' = cmds /\ caller' = caller /\ e.pc = "close" /\ (e' = r \/ e' = s)
      <3>1. CASE e.panicked
        BY <1>4, <3>1 DEF PushClosed, At, SetSessionOver
      <3>2. CASE ~e.panicked
        BY <1>4, <3>2 DEF PushClosed, At
      <3> QED
        BY <3>1, <3>2
    <2> HIDE DEF w, n
    <2>2. Same(r, e, {"sessionOver", "pc", "finished", "admissionClosed", "closed", "linkUp", "notices"}) /\ r.pc = "ended"
      BY <1>0, FieldNames DEF Engine, Same
    <2>3. Same(s, e, {"pc", "finished", "admissionClosed", "closed", "linkUp", "notices"}) /\ s.pc = "ended"
      BY <1>0, FieldNames DEF Engine, Same
    <2> HIDE DEF r, s
    <2>4. Leaves(r, cmds, caller) /\ Leaves(s, cmds, caller)
      BY <2>1, <2>2, <2>3, MovedOn DEF LInv, Noted
    <2> QED
      BY <2>1, <2>4 DEF LeftStep
  <1> QED
    BY <1>1, <1>2, <1>3, <1>4

LEMMA OthersLeave ==
  ASSUME IInv, LInv, Workers \/ Venue \/ RunOutOfTime \/ Panic
  PROVE  LeftStep
  <1>0. Engine(e) /\ Holds(e, trading, farm, cmds, caller)
    BY DEF IInv, Holds, Shaped
  <1>1. CASE WriteLogon \/ FailTrading \/ LoseTradingWorker \/ AnswerFarm
    <2>1. e' = e /\ cmds' = cmds /\ caller' = caller
      BY <1>1 DEF WriteLogon, FailTrading, LoseTradingWorker, AnswerFarm
    <2> QED
      BY <2>1 DEF LeftStep, LInv
  <1>2. CASE LandTrading
    <2> DEFINE k == e.open + 1
               r == [e EXCEPT !.open = k]
    <2>1. e' = r /\ cmds' = cmds /\ caller' = caller
      BY <1>2 DEF LandTrading
    <2> HIDE DEF k
    <2>2. Same(r, e, {"open"})
      BY <1>0, FieldNames DEF Engine, Same
    <2> QED
      BY <2>1, <2>2, Unmoved DEF LeftStep, LInv, Noted
  <1>3. CASE LoseTrading
    <2> DEFINE s == HandleDisconnect(e)
               n == s.drops + 1
               r == [s EXCEPT !.drops = n]
    <2>1. e' = r /\ cmds' = cmds /\ caller' = caller /\ e.pc = "sockets"
      BY <1>3 DEF LoseTrading, At
    <2>2. Sound(e)
      BY <1>0, <2>1 DEF Holds, LapInTurn
    <2>3. /\ Sound(s) /\ ~s.ccpUp /\ s.status = e.status
          /\ Same(s, e, {"ccpUp", "settling", "over", "open", "answered"})
      BY <2>2, DisconnectDoes
    <2> HIDE DEF s
    <2>4. Engine(s)
      BY <2>3 DEF Sound
    <2> HIDE DEF n
    <2>5. Same(r, s, {"drops"})
      BY <2>4, FieldNames DEF Engine, Same
    <2> HIDE DEF r
    <2>6. r.ccpUp = s.ccpUp /\ r.status = e.status
      BY <2>3, <2>5, FieldNames DEF Same
    <2>7. Same(r, e, {"ccpUp", "settling", "over", "open", "answered", "drops"})
      BY <2>3, <2>5 DEF Same
    <2>8. /\ r.logoutWritten = e.logoutWritten /\ r.finishing = e.finishing /\ r.running = e.running
          /\ r.told = e.told /\ r.taken = e.taken /\ r.admitted = e.admitted /\ r.forced = e.forced
          /\ r.panicked = e.panicked /\ r.pc = e.pc /\ r.returned = e.returned
      BY <2>7, FieldNames DEF Same
    <2>9. Parts(r, e)
      BY <2>3, <2>6, <2>8 DEF Parts, GoodbyeAsked
    <2>10. Asked(r) = Asked(e)
      BY <2>6 DEF Asked
    <2>11. Leaves(r, cmds, caller)
      BY <2>1, <2>8, <2>9, <2>10, Moved DEF LInv
    <2> QED
      BY <2>1, <2>11 DEF LeftStep
  <1>4. CASE LoseFarm
    <2> DEFINE s == [e EXCEPT !.farmUp = FALSE]
               n == s.farmDrops + 1
               r == [s EXCEPT !.farmDrops = n]
    <2>1. e' = r /\ cmds' = cmds /\ caller' = caller
      BY <1>4 DEF LoseFarm, HandleFarmDisconnect
    <2> HIDE DEF n
    <2>2. Same(r, e, {"farmUp", "farmDrops"})
      BY <1>0, FieldNames DEF Engine, Same
    <2> QED
      BY <2>1, <2>2, Unmoved DEF LeftStep, LInv, Noted
  <1>5. CASE \E asks \in BOOLEAN : EndNaming(asks)
    <2>1. PICK asks \in BOOLEAN : EndNaming(asks)
      BY <1>5
    <2> DEFINE r == [e EXCEPT !.replay = TRUE, !.over = ~asks]
    <2>2. e' = r /\ cmds' = cmds /\ caller' = caller
      BY <2>1 DEF EndNaming
    <2>3. Same(r, e, {"replay", "over"})
      BY <1>0, FieldNames DEF Engine, Same
    <2> QED
      BY <2>2, <2>3, Unmoved DEF LeftStep, LInv, Noted
  <1>6. CASE EndQuestion
    <2>1. e' = [e EXCEPT !.over = TRUE] /\ cmds' = cmds /\ caller' = caller
      BY <1>6 DEF EndQuestion
    <2>2. Same(e', e, {"over"})
      BY <1>0, <2>1, FieldNames DEF Engine, Same
    <2> QED
      BY <2>1, <2>2, Unmoved DEF LeftStep, LInv, Noted
  <1>7. CASE EndSettling
    <2>1. e' = [e EXCEPT !.settling = FALSE] /\ cmds' = cmds /\ caller' = caller
      BY <1>7 DEF EndSettling
    <2>2. Same(e', e, {"settling"})
      BY <1>0, <2>1, FieldNames DEF Engine, Same
    <2> QED
      BY <2>1, <2>2, Unmoved DEF LeftStep, LInv, Noted
  <1>8. CASE \E o \in Orders : AnswerNaming(o)
    <2>1. PICK o \in Orders : AnswerNaming(o)
      BY <1>8
    <2> DEFINE a == e.answered \cup {o}
    <2>2. e' = [e EXCEPT !.answered = a] /\ cmds' = cmds /\ caller' = caller
      BY <2>1 DEF AnswerNaming
    <2> HIDE DEF a
    <2>3. Same(e', e, {"answered"})
      BY <1>0, <2>2, FieldNames DEF Engine, Same
    <2> QED
      BY <2>2, <2>3, Unmoved DEF LeftStep, LInv, Noted
  <1>9. CASE RunOutOfTime
    <2> DEFINE b == [e.budget EXCEPT !.late = TRUE]
               g == [e.farmBudget EXCEPT !.late = TRUE]
    <2>1. /\ e' = [e EXCEPT !.budget = b] \/ e' = [e EXCEPT !.farmBudget = g]
          /\ cmds' = cmds /\ caller' = caller
      BY <1>9 DEF RunOutOfTime
    <2> HIDE DEF b, g
    <2>2. Same(e', e, {"budget", "farmBudget"})
      BY <1>0, <2>1, FieldNames DEF Engine, Same
    <2> QED
      BY <2>1, <2>2, Unmoved DEF LeftStep, LInv, Noted
  <1>10. CASE Panic
    <2>1. e' = [e EXCEPT !.pc = "takeBack", !.panicked = TRUE]
      BY <1>10 DEF Panic
    <2>2. e'.panicked = TRUE
      BY <1>0, <2>1, FieldNames DEF Engine
    <2> QED
      BY <2>2 DEF LeftStep, Leaves
  <1> QED
    BY <1>1, <1>2, <1>3, <1>4, <1>5, <1>6, <1>7, <1>8, <1>9, <1>10 DEF Workers, Venue

-----------------------------------------------------------------------------
(* The steps that send to the channel and take from it. *)

LEMMA PairedSent ==
  ASSUME NEW T, NEW c \in Seq(T), NEW x \in T, Paired(c), x \notin {"Logout", "Shutdown"}
  PROVE  Paired(Append(c, x)) /\ (ShutdownIsNext(Append(c, x)) => ShutdownIsNext(c))
         /\ (ShutdownIsNext(c) => ShutdownIsNext(Append(c, x)))
  <1> DEFINE d == Append(c, x)
  <1>1. /\ Len(c) \in Nat /\ Len(d) = Len(c) + 1 /\ d[Len(c) + 1] = x
        /\ \A i \in 1 .. Len(c) : d[i] = c[i]
    OBVIOUS
  <1>2. c = <<>> <=> Len(c) = 0
    OBVIOUS
  <1>3. d # <<>>
    BY <1>1
  <1> HIDE DEF d
  <1>4. Paired(d)
    BY <1>1 DEF Paired
  <1>5. ShutdownIsNext(d) <=> ShutdownIsNext(c)
    <2>1. CASE Len(c) = 0
      <3>1. d[1] = x
        BY <1>1, <2>1
      <3> QED
        BY <1>2, <2>1, <3>1 DEF ShutdownIsNext
    <2>2. CASE Len(c) # 0
      <3>1. d[1] = c[1]
        BY <1>1, <2>2
      <3> QED
        BY <1>2, <1>3, <2>2, <3>1 DEF ShutdownIsNext
    <2> QED
      BY <2>1, <2>2
  <1> QED
    BY <1>4, <1>5 DEF d

LEMMA PairedStop ==
  ASSUME NEW T, NEW c \in Seq(T), "Logout" \in T, "Shutdown" \in T, Paired(c)
  PROVE  LET d == Append(Append(c, "Logout"), "Shutdown")
         IN  Paired(d) /\ (ShutdownIsNext(d) <=> ShutdownIsNext(c))
  <1> DEFINE b == Append(c, "Logout")
             d == Append(b, "Shutdown")
  <1>0. b \in Seq(T)
    OBVIOUS
  <1>1. /\ Len(c) \in Nat /\ Len(b) = Len(c) + 1 /\ b[Len(c) + 1] = "Logout"
        /\ \A i \in 1 .. Len(c) : b[i] = c[i]
    OBVIOUS
  <1> HIDE DEF b
  <1>2. /\ Len(d) = Len(b) + 1 /\ d[Len(b) + 1] = "Shutdown"
        /\ \A i \in 1 .. Len(b) : d[i] = b[i]
    BY <1>0
  <1>3. c = <<>> <=> Len(c) = 0
    OBVIOUS
  <1>4. d # <<>>
    BY <1>0
  <1> HIDE DEF d
  <1>5. /\ Len(d) = Len(c) + 2 /\ d[Len(c) + 1] = "Logout" /\ d[Len(c) + 2] = "Shutdown"
        /\ \A i \in 1 .. Len(c) : d[i] = c[i]
    BY <1>1, <1>2
  <1>6. Paired(d)
    <2>1. SUFFICES ASSUME NEW i \in 1 .. Len(d)
                   PROVE  /\ d[i] = "Logout" => i < Len(d) /\ d[i + 1] = "Shutdown"
                          /\ d[i] = "Shutdown" /\ i > 1 => d[i - 1] = "Logout"
      BY DEF Paired
    <2>2. CASE i \in 1 .. Len(c)
      <3>1. c[i] = "Logout" => i < Len(c) /\ c[i + 1] = "Shutdown"
        BY <2>2 DEF Paired
      <3>2. c[i] = "Shutdown" /\ i > 1 => c[i - 1] = "Logout"
        BY <2>2 DEF Paired
      <3> QED
        BY <1>1, <1>5, <2>2, <3>1, <3>2
    <2>3. CASE i = Len(c) + 1
      BY <1>1, <1>5, <2>3
    <2>4. CASE i = Len(c) + 2
      <3>1. i - 1 = Len(c) + 1
        BY <1>1, <2>4
      <3> QED
        BY <1>1, <1>5, <2>4, <3>1
    <2> QED
      BY <1>1, <1>5, <2>1, <2>2, <2>3, <2>4
  <1>7. ShutdownIsNext(d) <=> ShutdownIsNext(c)
    <2>1. CASE Len(c) = 0
      <3>1. d[1] = "Logout"
        BY <1>5, <2>1
      <3> QED
        BY <1>3, <2>1, <3>1 DEF ShutdownIsNext
    <2>2. CASE Len(c) # 0
      <3>1. d[1] = c[1]
        BY <1>1, <1>5, <2>2
      <3> QED
        BY <1>3, <1>4, <2>2, <3>1 DEF ShutdownIsNext
    <2> QED
      BY <2>1, <2>2
  <1> QED
    BY <1>6, <1>7 DEF d, b

LEMMA PairedTaken ==
  ASSUME NEW T, NEW c \in Seq(T), c # <<>>, Paired(c)
  PROVE  Paired(Tail(c)) /\ (ShutdownIsNext(Tail(c)) <=> Head(c) = "Logout")
  <1> DEFINE d == Tail(c)
  <1>1. /\ Len(c) \in Nat /\ Len(c) # 0 /\ Len(d) = Len(c) - 1 /\ Head(c) = c[1]
        /\ \A i \in 1 .. Len(c) - 1 : d[i] = c[i + 1]
    OBVIOUS
  <1>2. d = <<>> <=> Len(d) = 0
    <2>1. d \in Seq(T)
      OBVIOUS
    <2>2. \A z \in Seq(T) : z = <<>> <=> Len(z) = 0
      OBVIOUS
    <2> QED
      BY <2>1, <2>2
  <1> HIDE DEF d
  <1>3. Paired(d)
    <2>1. SUFFICES ASSUME NEW i \in 1 .. Len(d)
                   PROVE  /\ d[i] = "Logout" => i < Len(d) /\ d[i + 1] = "Shutdown"
                          /\ d[i] = "Shutdown" /\ i > 1 => d[i - 1] = "Logout"
      BY DEF Paired
    <2>2. i + 1 \in 1 .. Len(c) /\ d[i] = c[i + 1] /\ (i + 1) - 1 = i /\ i + 1 > 1
      BY <1>1
    <2>3. c[i + 1] = "Logout" => i + 1 < Len(c) /\ c[(i + 1) + 1] = "Shutdown"
      BY <2>2 DEF Paired
    <2>4. c[i + 1] = "Shutdown" => c[i] = "Logout"
      BY <2>2 DEF Paired
    <2>5. i > 1 => d[i - 1] = c[i]
      BY <1>1
    <2>6. i + 1 < Len(c) => d[i + 1] = c[(i + 1) + 1] /\ i < Len(d)
      BY <1>1
    <2> QED
      BY <2>2, <2>3, <2>4, <2>5, <2>6
  <1>4. ShutdownIsNext(d) <=> Head(c) = "Logout"
    <2>1. 1 \in 1 .. Len(c)
      BY <1>1
    <2>2. c[1] = "Logout" => 1 < Len(c) /\ c[2] = "Shutdown"
      BY <2>1 DEF Paired
    <2>3. Len(c) > 1 => d[1] = c[2] /\ Len(d) # 0 /\ 2 \in 1 .. Len(c)
      BY <1>1
    <2>4. Len(c) > 1 /\ c[2] = "Shutdown" => c[1] = "Logout"
      <3>1. 2 \in 1 .. Len(c) /\ c[2] = "Shutdown" /\ 2 > 1 => c[2 - 1] = "Logout"
        BY DEF Paired
      <3> QED
        BY <2>3, <3>1
    <2>5. Len(d) # 0 => Len(c) > 1
      BY <1>1
    <2> QED
      BY <1>1, <1>2, <2>2, <2>3, <2>4, <2>5 DEF ShutdownIsNext
  <1> QED
    BY <1>3, <1>4 DEF d

(* What a sender adds keeps a Shutdown behind its Logout. *)
LEMMA HeraldedSent ==
  ASSUME NEW T, NEW c \in Seq(T), NEW x \in T, NEW cl, NEW to, Heralded(c, cl),
         x = "Shutdown" => cl = "loggingOut",
         to = "loggingOut" => cl = "loggingOut" \/ x = "Logout"
  PROVE  Heralded(Append(c, x), to)
  <1> DEFINE d == Append(c, x)
  <1>1. /\ Len(c) \in Nat /\ Len(d) = Len(c) + 1 /\ d[Len(c) + 1] = x
        /\ \A i \in 1 .. Len(c) : d[i] = c[i]
    OBVIOUS
  <1> HIDE DEF d
  <1>2. cl = "loggingOut" => \E j \in 1 .. Len(d) : j < Len(c) + 1 /\ d[j] = "Logout"
    BY <1>1 DEF Heralded
  <1>3. ASSUME NEW i \in 1 .. Len(d), d[i] = "Shutdown"
        PROVE  \E j \in 1 .. Len(d) : j < i /\ d[j] = "Logout"
    <2>1. CASE i = Len(c) + 1
      BY <1>1, <1>2, <1>3, <2>1
    <2>2. CASE i # Len(c) + 1
      <3>1. i \in 1 .. Len(c) /\ c[i] = "Shutdown"
        BY <1>1, <1>3, <2>2
      <3>2. PICK j \in 1 .. Len(c) : j < i /\ c[j] = "Logout"
        BY <3>1 DEF Heralded
      <3> QED
        BY <1>1, <3>2
    <2> QED
      BY <2>1, <2>2
  <1>4. to = "loggingOut" => \E j \in 1 .. Len(d) : d[j] = "Logout"
    <2>1. x = "Logout" => Len(c) + 1 \in 1 .. Len(d) /\ d[Len(c) + 1] = "Logout"
      BY <1>1
    <2> QED
      BY <1>2, <2>1
  <1>5. Heralded(d, to)
    BY <1>3, <1>4 DEF Heralded
  <1> QED
    BY <1>5 DEF d

(* What is taken, but a Logout, keeps it so; and a Shutdown is not the first. *)
LEMMA HeraldedTaken ==
  ASSUME NEW T, NEW c \in Seq(T), c # <<>>, NEW cl, Heralded(c, cl), Head(c) # "Logout"
  PROVE  Heralded(Tail(c), cl) /\ Head(c) # "Shutdown"
  <1> DEFINE d == Tail(c)
  <1>1. /\ Len(c) \in Nat /\ Len(c) # 0 /\ Len(d) = Len(c) - 1 /\ Head(c) = c[1]
        /\ \A i \in 1 .. Len(c) - 1 : d[i] = c[i + 1]
    OBVIOUS
  <1> HIDE DEF d
  <1>2. \A j \in 1 .. Len(c) : c[j] = "Logout" => j - 1 \in 1 .. Len(d) /\ d[j - 1] = "Logout"
    <2>1. SUFFICES ASSUME NEW j \in 1 .. Len(c), c[j] = "Logout"
                   PROVE  j - 1 \in 1 .. Len(d) /\ d[j - 1] = "Logout"
      OBVIOUS
    <2>2. j # 1
      BY <1>1, <2>1
    <2>3. j - 1 \in 1 .. Len(d) /\ (j - 1) + 1 = j
      BY <1>1, <2>2
    <2> QED
      BY <1>1, <2>1, <2>3
  <1>3. ASSUME NEW i \in 1 .. Len(d), d[i] = "Shutdown"
        PROVE  \E j \in 1 .. Len(d) : j < i /\ d[j] = "Logout"
    <2>1. i + 1 \in 1 .. Len(c) /\ c[i + 1] = "Shutdown"
      BY <1>1, <1>3
    <2>2. PICK j \in 1 .. Len(c) : j < i + 1 /\ c[j] = "Logout"
      BY <2>1 DEF Heralded
    <2>3. j - 1 \in 1 .. Len(d) /\ d[j - 1] = "Logout" /\ j - 1 < i
      BY <1>1, <1>2, <2>2
    <2> QED
      BY <2>3
  <1>4. cl = "loggingOut" => \E j \in 1 .. Len(d) : d[j] = "Logout"
    BY <1>2 DEF Heralded
  <1>5. Head(c) # "Shutdown"
    <2>1. 1 \in 1 .. Len(c) /\ \A j \in 1 .. Len(c) : ~(j < 1)
      BY <1>1
    <2> QED
      BY <1>1, <2>1 DEF Heralded
  <1>6. Heralded(d, cl)
    BY <1>3, <1>4 DEF Heralded
  <1> QED
    BY <1>5, <1>6 DEF d

LEMMA SentLeaves ==
  ASSUME NEW r, NEW en, NEW c, NEW d, NEW cl, NEW x, Same(r, en, {"admitted", "forced", "status", "admissionClosed"}),
         Leaves(en, c, cl), ~en.panicked => Heralded(d, x) \/ GoodbyeAsked(en),
         ~en.panicked /\ OneLapStop =>
           Room(r, x) /\ Paired(d) /\ (ShutdownIsNext(d) <=> ShutdownIsNext(c))
  PROVE  Leaves(r, d, x)
  <1>1. /\ r.pc = en.pc /\ r.panicked = en.panicked /\ r.running = en.running /\ r.finishing = en.finishing
        /\ r.logoutWritten = en.logoutWritten /\ r.told = en.told /\ r.ccpUp = en.ccpUp
        /\ r.returned = en.returned
    BY FieldNames DEF Same
  <1>2. ~en.panicked => Ended(r) /\ Follows(r, d, x)
    BY <1>1 DEF Leaves, Ended, Follows, GoodbyeAsked
  <1>3. ~en.panicked /\ OneLapStop => OnOneLap(r, d, x)
    BY <1>1 DEF Leaves, OnOneLap, Parted, InOneLap
  <1> QED
    BY <1>1, <1>2, <1>3 DEF Leaves

LEMMA CallerLeaves ==
  ASSUME IInv, LInv, Caller
  PROVE  LeftStep
  <1>0. /\ Engine(e) /\ Holds(e, trading, farm, cmds, caller) /\ sc \in Scenarios /\ cmds \in Seq(Commands)
        /\ e.admitted \in Nat /\ e.forced \in Nat /\ e.panicked \in BOOLEAN /\ e.status \in [Orders -> Statuses]
        /\ e.left \in 0 .. LapLimit /\ e.taken \in Nat
    BY Typed DEF IInv, Holds, Shaped
  <1>1. /\ IsFiniteSet(Asked(e)) /\ Cardinality(Asked(e)) \in Nat /\ MaxForced \in Nat
        /\ LapLimit \in Nat /\ SplitStop \in BOOLEAN
    BY <1>0, SomeOrders, ScenarioIs, ScenariosAssumption DEF Asked, MaxForced, SplitStop
  <1> DEFINE OneLap == ~e.panicked /\ OneLapStop
  <1>2. OneLap => /\ Room(e, caller) /\ Paired(cmds) /\ ~SplitStop
                  /\ e.admitted <= Cardinality(Asked(e)) + e.forced + (IF caller = "stopped" THEN 2 ELSE 0)
                  /\ caller # "loggingOut" /\ e.forced <= MaxForced
                  /\ (e.pc = "take" => e.left + e.taken >= LapLimit)
    BY DEF LInv, Leaves, OnOneLap, Room, InOneLap, OneLapStop
  <1>2a. ~e.panicked => Heralded(cmds, caller) \/ GoodbyeAsked(e)
    BY DEF LInv, Leaves, Follows
  <1>2b. ~e.panicked /\ e.closed => GoodbyeAsked(e)
    BY <1>0 DEF Holds, LapInTurn, EndInTurn, Ending, GoodbyeAsked
  <1>3. CASE \E o \in Orders : Admit(o)
    <2>1. PICK o \in Orders : Admit(o)
      BY <1>3
    <2> DEFINE s == Become(e, {o}, "queued")
               n == s.admitted + 1
               r == [s EXCEPT !.admitted = n]
    <2>2. /\ caller' = caller /\ cmds' = Append(cmds, o) /\ e' = r /\ caller = "up" /\ e.status[o] = "unasked"
      BY <2>1 DEF Admit, Admitted
    <2>3. "queued" \in Statuses
      BY DEF Statuses
    <2>4. /\ Engine(s) /\ Same(s, e, {"status"})
          /\ \A p \in Orders : s.status[p] = IF p \in {o} THEN "queued" ELSE e.status[p]
      BY <1>0, <2>3, BecomeDoes
    <2> HIDE DEF s
    <2>5. s.admitted = e.admitted
      BY <2>4, FieldNames DEF Same
    <2>6. n = e.admitted + 1
      BY <2>5
    <2> HIDE DEF n
    <2>7. Same(r, s, {"admitted"}) /\ r.admitted = n
      BY <2>4, FieldNames DEF Engine, Same
    <2> HIDE DEF r
    <2>8. /\ Same(r, e, {"admitted", "forced", "status", "admissionClosed"}) /\ r.status = s.status
          /\ r.forced = e.forced /\ r.pc = e.pc /\ r.left = e.left /\ r.taken = e.taken
      BY <2>4, <2>7, FieldNames DEF Same
    <2>9. Asked(r) = Asked(e) \cup {o} /\ o \notin Asked(e)
      BY <2>2, <2>4, <2>8 DEF Asked
    <2>10. Cardinality(Asked(r)) = Cardinality(Asked(e)) + 1
      BY <1>1, <2>9, FS_AddElement
    <2>11. OneLap => r.admitted <= Cardinality(Asked(r)) + r.forced + 0
      <3>1. OneLap => e.admitted <= Cardinality(Asked(e)) + e.forced + 0
        BY <1>2, <2>2
      <3>2. e.admitted <= Cardinality(Asked(e)) + e.forced + 0 => n <= (Cardinality(Asked(e)) + 1) + e.forced + 0
        BY <1>0, <1>1, <2>6
      <3> QED
        BY <2>7, <2>8, <2>10, <3>1, <3>2
    <2>12. OneLap => Room(r, caller)
      BY <1>2, <2>2, <2>8, <2>11 DEF Room
    <2>13. OneLap => Paired(Append(cmds, o)) /\ (ShutdownIsNext(Append(cmds, o)) <=> ShutdownIsNext(cmds))
      <3>1. o \in Commands /\ o \notin {"Logout", "Shutdown"}
        BY <1>0, ScenarioIs DEF Commands
      <3> QED
        BY <1>0, <1>2, <3>1, PairedSent
    <2>14. ~e.panicked => Heralded(Append(cmds, o), caller) \/ GoodbyeAsked(e)
      <3>1. o \in Commands /\ o # "Shutdown"
        BY <1>0, ScenarioIs DEF Commands
      <3> QED
        BY <1>0, <1>2a, <3>1, HeraldedSent
    <2>15. Leaves(r, Append(cmds, o), caller)
      BY <2>8, <2>12, <2>13, <2>14, SentLeaves DEF LInv
    <2> QED
      BY <2>2, <2>15 DEF LeftStep
  <1>4. CASE AdmitForceDisconnect
    <2> DEFINE n == e.admitted + 1
               s == [e EXCEPT !.admitted = n]
               k == s.forced + 1
               r == [s EXCEPT !.forced = k]
               d == Append(cmds, "ForceDisconnect")
    <2>1. /\ caller' = caller /\ cmds' = d /\ e' = r /\ caller = "up" /\ e.forced < MaxForced
      BY <1>4 DEF AdmitForceDisconnect, Admitted
    <2>2. s.forced = e.forced /\ k = e.forced + 1
      BY <1>0, FieldNames DEF Engine
    <2> HIDE DEF n, k
    <2>3. Same(r, e, {"admitted", "forced", "status", "admissionClosed"}) /\ r.admitted = n /\ r.forced = k
          /\ r.status = e.status /\ r.pc = e.pc /\ r.left = e.left /\ r.taken = e.taken
      BY <1>0, FieldNames DEF Engine, Same
    <2> HIDE DEF r
    <2>4. Asked(r) = Asked(e)
      BY <2>3 DEF Asked
    <2>5. OneLap => r.admitted <= Cardinality(Asked(r)) + r.forced + 0
      <3>1. OneLap => e.admitted <= Cardinality(Asked(e)) + e.forced + 0
        BY <1>2, <2>1
      <3>2. e.admitted <= Cardinality(Asked(e)) + e.forced + 0 => n <= Cardinality(Asked(e)) + k + 0
        BY <1>0, <1>1, <2>2 DEF n
      <3> QED
        BY <2>3, <2>4, <3>1, <3>2
    <2>6. r.forced <= MaxForced
      BY <1>0, <1>1, <2>1, <2>2, <2>3
    <2>7. OneLap => Room(r, caller)
      BY <1>2, <2>1, <2>3, <2>5, <2>6 DEF Room
    <2>8. OneLap => Paired(d) /\ (ShutdownIsNext(d) <=> ShutdownIsNext(cmds))
      <3>1. "ForceDisconnect" \in Commands /\ "ForceDisconnect" \notin {"Logout", "Shutdown"}
        BY DEF Commands
      <3> QED
        BY <1>0, <1>2, <3>1, PairedSent
    <2>9. ~e.panicked => Heralded(d, caller) \/ GoodbyeAsked(e)
      <3>1. "ForceDisconnect" \in Commands
        BY DEF Commands
      <3> QED
        BY <1>0, <1>2a, <3>1, HeraldedSent
    <2> HIDE DEF d
    <2>10. Leaves(r, d, caller)
      BY <2>3, <2>7, <2>8, <2>9, SentLeaves DEF LInv
    <2> QED
      BY <2>1, <2>10 DEF LeftStep
  <1>5. CASE CloseAdmission
    <2> DEFINE r == [e EXCEPT !.admissionClosed = TRUE]
    <2>1. e' = r /\ cmds' = cmds /\ caller = "up" /\ caller' = "stopping"
      BY <1>5 DEF CloseAdmission
    <2>2. /\ Same(r, e, {"admitted", "forced", "status", "admissionClosed"}) /\ r.admitted = e.admitted
          /\ r.forced = e.forced /\ r.status = e.status /\ r.pc = e.pc /\ r.left = e.left /\ r.taken = e.taken
      BY <1>0, FieldNames DEF Engine, Same
    <2> HIDE DEF r
    <2>3. OneLap => Room(r, "stopping")
      BY <1>2, <2>1, <2>2 DEF Room, Asked
    <2>3a. Heralded(cmds, caller) => Heralded(cmds, "stopping")
      BY DEF Heralded
    <2>4. Leaves(r, cmds, "stopping")
      BY <1>2, <1>2a, <2>2, <2>3, <2>3a, SentLeaves DEF LInv
    <2> QED
      BY <2>1, <2>4 DEF LeftStep
  <1>6. CASE AdmitLogout
    <2> DEFINE two == <<"Logout", "Shutdown">>
               one == <<"Logout">>
               b == Append(cmds, "Logout")
               d == Append(b, "Shutdown")
    <2>0. "Logout" \in Commands /\ "Shutdown" \in Commands
      BY DEF Commands
    <2>1. /\ caller = "stopping" /\ caller' = IF SplitStop THEN "loggingOut" ELSE "stopped"
          /\ \/ e.closed /\ e' = e /\ cmds' = cmds
             \/ ~SplitStop /\ cmds' = cmds \o two /\ e' = [e EXCEPT !.admitted = e.admitted + Len(two)]
             \/ SplitStop /\ cmds' = cmds \o one /\ e' = [e EXCEPT !.admitted = e.admitted + Len(one)]
      BY <1>1, <1>6 DEF AdmitLogout
    <2>2. Len(two) = 2 /\ cmds \o two = d /\ Len(one) = 1 /\ cmds \o one = b
      BY <1>0 DEF Commands
    <2>3. OneLap => e.admitted <= Cardinality(Asked(e)) + e.forced + 0
      BY <1>2, <2>1
    <2>4. CASE e.closed /\ e' = e /\ cmds' = cmds
      <3>1. OneLap => Room(e, caller') /\ Paired(cmds)
        <4>1. e.admitted <= Cardinality(Asked(e)) + e.forced + 0 => e.admitted <= Cardinality(Asked(e)) + e.forced + 2
          BY <1>0, <1>1
        <4> QED
          BY <1>2, <2>1, <2>3, <4>1 DEF Room
      <3>2. Leaves(e, cmds, caller')
        BY <1>0, <1>2b, <2>4, <3>1, SameIs, SentLeaves DEF LInv
      <3> QED
        BY <2>4, <3>2 DEF LeftStep
    <2>5. CASE ~SplitStop /\ cmds' = d /\ e' = [e EXCEPT !.admitted = e.admitted + 2]
      <3> DEFINE n == e.admitted + 2
                 r == [e EXCEPT !.admitted = n]
      <3>1. e.admitted <= Cardinality(Asked(e)) + e.forced + 0 => n <= Cardinality(Asked(e)) + e.forced + 2
        BY <1>0, <1>1
      <3> HIDE DEF n
      <3>2. /\ Same(r, e, {"admitted", "forced", "status", "admissionClosed"}) /\ r.admitted = n
            /\ r.forced = e.forced /\ r.status = e.status /\ r.pc = e.pc /\ r.left = e.left /\ r.taken = e.taken
        BY <1>0, FieldNames DEF Engine, Same
      <3>3. e' = r
        BY <2>5 DEF n
      <3> HIDE DEF r
      <3>4. Asked(r) = Asked(e)
        BY <3>2 DEF Asked
      <3>5. OneLap => Room(r, "stopped")
        BY <1>2, <2>3, <3>1, <3>2, <3>4 DEF Room
      <3>6. OneLap => Paired(d) /\ (ShutdownIsNext(d) <=> ShutdownIsNext(cmds))
        BY <1>0, <1>2, <2>0, PairedStop
      <3>7. ~e.panicked => Heralded(d, "stopped") \/ GoodbyeAsked(e)
        <4>1. b \in Seq(Commands)
          BY <1>0, <2>0
        <4>2. Heralded(cmds, caller) => Heralded(b, "loggingOut")
          BY <1>0, <2>0, HeraldedSent
        <4> HIDE DEF b
        <4>3. Heralded(b, "loggingOut") => Heralded(d, "stopped")
          BY <2>0, <4>1, HeraldedSent
        <4> QED
          BY <1>2a, <4>2, <4>3
      <3> HIDE DEF d
      <3>8. Leaves(r, d, "stopped")
        BY <3>2, <3>5, <3>6, <3>7, SentLeaves DEF LInv
      <3> QED
        BY <2>1, <2>5, <3>3, <3>8 DEF LeftStep
    <2>6. CASE SplitStop /\ cmds' = b /\ e' = [e EXCEPT !.admitted = e.admitted + 1]
      <3> DEFINE n == e.admitted + 1
                 r == [e EXCEPT !.admitted = n]
      <3>1. e' = r
        BY <2>6
      <3> HIDE DEF n
      <3>2. Same(r, e, {"admitted", "forced", "status", "admissionClosed"})
        BY <1>0, FieldNames DEF Engine, Same
      <3> HIDE DEF r
      <3>3. ~e.panicked => Heralded(b, "loggingOut") \/ GoodbyeAsked(e)
        BY <1>0, <1>2a, <2>0, HeraldedSent
      <3> HIDE DEF b
      <3>4. ~OneLap
        BY <1>2, <2>6
      <3>5. Leaves(r, b, "loggingOut")
        BY <3>2, <3>3, <3>4, SentLeaves DEF LInv
      <3> QED
        BY <2>1, <2>6, <3>1, <3>5 DEF LeftStep
    <2> QED
      BY <2>1, <2>2, <2>4, <2>5, <2>6
  <1>7. CASE AdmitShutdown
    <2> DEFINE n == e.admitted + 1
               r == [e EXCEPT !.admitted = n]
               d == Append(cmds, "Shutdown")
    <2>1. /\ caller = "loggingOut" /\ caller' = "stopped"
          /\ (e.closed /\ e' = e /\ cmds' = cmds) \/ (e' = r /\ cmds' = d)
      BY <1>7 DEF AdmitShutdown, Admitted
    <2> HIDE DEF n
    <2>2. ~OneLap
      BY <1>2, <2>1
    <2>3. Same(r, e, {"admitted", "forced", "status", "admissionClosed"})
      BY <1>0, FieldNames DEF Engine, Same
    <2> HIDE DEF r
    <2>4. ~e.panicked => Heralded(d, "stopped") \/ GoodbyeAsked(e)
      <3>1. "Shutdown" \in Commands
        BY DEF Commands
      <3> QED
        BY <1>0, <1>2a, <2>1, <3>1, HeraldedSent
    <2> HIDE DEF d
    <2>5. Leaves(r, d, "stopped")
      BY <2>2, <2>3, <2>4, SentLeaves DEF LInv
    <2>6. e.closed => Leaves(e, cmds, "stopped")
      BY <1>0, <1>2b, <2>2, SameIs, SentLeaves DEF LInv
    <2> QED
      BY <2>1, <2>5, <2>6 DEF LeftStep
  <1>8. CASE DropSenders
    <2>1. e' = e /\ cmds' = cmds /\ caller = "up" /\ caller' = "gone"
      BY <1>8 DEF DropSenders
    <2>2. OneLap => Room(e, "gone") /\ Paired(cmds)
      BY <1>2, <2>1 DEF Room
    <2>2a. Heralded(cmds, caller) => Heralded(cmds, "gone")
      BY DEF Heralded
    <2>3. Leaves(e, cmds, "gone")
      BY <1>0, <1>2a, <2>2, <2>2a, SameIs, SentLeaves DEF LInv
    <2> QED
      BY <2>1, <2>3 DEF LeftStep
  <1> QED
    BY <1>3, <1>4, <1>5, <1>6, <1>7, <1>8 DEF Caller

(* What is left of the parting when a command is taken from the channel. *)
LEMMA TakenLeaves ==
  ASSUME IInv, LInv, e.pc = "take", e.left > 0, cmds # <<>>, NEW u, NEW r, TakenBy(r, u, e),
         u.pc = e.pc, u.panicked = e.panicked, u.admitted = e.admitted, u.forced = e.forced, Asked(u) = Asked(e),
         ~e.panicked => Ended(u) /\ (GoodbyeAsked(e) \/ Head(cmds) = "Logout" => GoodbyeAsked(u)),
         ~e.panicked /\ OneLapStop =>
           /\ Parted(u)
           /\ u.finishing = "phase" => Head(cmds) = "Logout"
           /\ Head(cmds) = "Logout" /\ u.running => u.finishing # "none"
  PROVE  Leaves(r, Tail(cmds), caller)
  <1>1. cmds \in Seq(Commands) /\ e.left \in 0 .. LapLimit /\ e.taken \in Nat /\ LapLimit \in Nat
    BY Typed, ScenarioIs DEF IInv, Holds, Shaped
  <1>2. /\ r.panicked = u.panicked /\ r.pc = u.pc /\ r.admitted = u.admitted /\ r.forced = u.forced
        /\ r.status = u.status /\ r.running = u.running /\ r.finishing = u.finishing /\ r.ccpUp = u.ccpUp
        /\ r.told = u.told /\ r.logoutWritten = u.logoutWritten /\ r.returned = u.returned
    BY FieldNames DEF TakenBy, Same
  <1>3. SUFFICES ASSUME ~e.panicked
                 PROVE  Ended(r) /\ Follows(r, Tail(cmds), caller) /\ (OneLapStop => OnOneLap(r, Tail(cmds), caller))
    BY <1>2 DEF Leaves
  <1>4. Ended(r)
    BY <1>2, <1>3 DEF Ended
  <1>5. Follows(r, Tail(cmds), caller)
    <2>1. Heralded(cmds, caller) /\ Head(cmds) # "Logout" => Heralded(Tail(cmds), caller)
      BY <1>1, HeraldedTaken
    <2>2. GoodbyeAsked(e) \/ Heralded(cmds, caller)
      BY <1>3 DEF LInv, Leaves, Follows
    <2>3. GoodbyeAsked(u) => GoodbyeAsked(r)
      BY <1>2 DEF GoodbyeAsked
    <2> QED
      BY <1>3, <2>1, <2>2, <2>3 DEF Follows
  <1>6. ASSUME OneLapStop
        PROVE  OnOneLap(r, Tail(cmds), caller)
    <2>0. InOneLap(e, cmds) /\ Room(e, caller)
      BY <1>3, <1>6 DEF LInv, Leaves, OnOneLap
    <2>1. Parted(r)
      BY <1>2, <1>3, <1>6 DEF Parted
    <2>2. Paired(Tail(cmds)) /\ (ShutdownIsNext(Tail(cmds)) <=> Head(cmds) = "Logout")
      BY <1>1, <2>0, PairedTaken DEF InOneLap
    <2>3. InOneLap(r, Tail(cmds))
      BY <1>2, <1>3, <1>6, <2>2 DEF InOneLap
    <2>4. r.left + r.taken >= LapLimit
      <3>1. e.left + e.taken >= LapLimit
        BY <2>0 DEF Room
      <3>2. r.taken = e.taken + 1 /\ r.left = e.left - 1
        BY DEF TakenBy
      <3> QED
        BY <1>1, <3>1, <3>2
    <2>5. Asked(r) = Asked(e)
      BY <1>2 DEF Asked
    <2>6. Room(r, caller)
      BY <1>2, <2>0, <2>4, <2>5 DEF Room
    <2> QED
      BY <2>1, <2>3, <2>6 DEF OnOneLap
  <1> QED
    BY <1>4, <1>5, <1>6

LEMMA TakeOrderLeaves ==
  ASSUME IInv, LInv, TakeCommand, Head(cmds) \in Orders
  PROVE  LeftStep
  <1> DEFINE h == Head(cmds)
  <1>1. /\ caller' = caller /\ e.pc = "take" /\ e.left > 0 /\ cmds # <<>> /\ cmds' = Tail(cmds)
        /\ TakeOrder(h)
    BY DEF TakeCommand, At
  <1>2. /\ Engine(e) /\ Holds(e, trading, farm, cmds, caller) /\ sc \in Scenarios /\ cmds \in Seq(Commands)
    BY DEF IInv, Holds, Shaped
  <1>3. PICK st : /\ st \in {"refused", "built", "waiting"}
                  /\ e' = [Become(e, {h}, st) EXCEPT !.left = @ - 1, !.taken = @ + 1]
    BY <1>1 DEF TakeOrder, Taken
  <1> DEFINE u == Become(e, {h}, st)
             r == [u EXCEPT !.left = @ - 1, !.taken = @ + 1]
  <1>4. st \in Statuses /\ st # "unasked"
    BY <1>3 DEF Statuses
  <1>5. Engine(u) /\ Same(u, e, {"status"}) /\ \A o \in Orders : u.status[o] = IF o = h THEN st ELSE e.status[o]
    BY <1>2, <1>4, BecomeDoes
  <1>6. e' = r
    BY <1>3
  <1> HIDE DEF u
  <1>7. /\ u.left = e.left /\ u.taken = e.taken /\ u.pc = e.pc /\ u.panicked = e.panicked
        /\ u.admitted = e.admitted /\ u.forced = e.forced /\ u.running = e.running /\ u.finishing = e.finishing
        /\ u.logoutWritten = e.logoutWritten /\ u.told = e.told /\ u.ccpUp = e.ccpUp
        /\ u.returned = e.returned
    BY <1>5, FieldNames DEF Same
  <1>8. TakenBy(r, u, e)
    BY <1>1, <1>2, <1>5, <1>7, OneTaken
  <1> HIDE DEF r
  <1>9. 1 \in 1 .. Len(cmds) /\ cmds[1] = h
    BY <1>1, <1>2
  <1>10. e.status[h] = "queued"
    BY <1>2, <1>9 DEF Holds, Channel
  <1>11. Asked(u) = Asked(e)
    BY <1>4, <1>5, <1>10 DEF Asked
  <1>12. h # "Logout" /\ h # "Shutdown"
    BY <1>2, ScenarioIs
  <1>13. ~e.panicked => Ended(u) /\ (GoodbyeAsked(e) \/ h = "Logout" => GoodbyeAsked(u))
    BY <1>7, <1>12 DEF LInv, Leaves, Ended, GoodbyeAsked
  <1>13a. ~e.panicked /\ OneLapStop => /\ Parted(u)
                                       /\ u.finishing = "phase" => h = "Logout"
    BY <1>7, <1>9, <1>12 DEF LInv, Leaves, OnOneLap, Parted, InOneLap, ShutdownIsNext
  <1>14. Leaves(r, Tail(cmds), caller)
    BY <1>1, <1>7, <1>8, <1>11, <1>12, <1>13, <1>13a, TakenLeaves
  <1> QED
    BY <1>1, <1>6, <1>14 DEF LeftStep

(* A loop that stops, its goodbye said or with no connection to say it on. *)
LEMMA StopLeaves ==
  ASSUME NEW en, Sound(en), en.running, en.finishing = "none", Ended(en), en.logoutWritten \/ ~en.ccpUp
  PROVE  LET r == Stop(en)
         IN  /\ Ended(r) /\ ~r.running /\ r.finishing = "none" /\ r.returned = en.returned
  <1> DEFINE r == Stop(en)
  <1>1. ~r.running /\ Same(r, en, Stopping)
    BY StopDoes
  <1> HIDE DEF r
  <1>2. /\ r.logoutWritten = en.logoutWritten /\ r.ccpUp = en.ccpUp /\ r.told = en.told
        /\ r.finishing = en.finishing /\ r.returned = en.returned
    BY <1>1, FieldNames DEF Same, Stopping
  <1>3. Ended(r)
    BY <1>2 DEF Ended
  <1> QED
    BY <1>1, <1>2, <1>3 DEF r

LEMMA BeginFinishingLeaves ==
  ASSUME NEW en, Sound(en), en.running, Ended(en), NEW stop \in BOOLEAN
  PROVE  LET r == BeginFinishing(en, stop)
             x == IF stop \/ en.finishing = "stopping" THEN "stopping" ELSE "phase"
         IN  /\ Ended(r) /\ GoodbyeAsked(r) /\ r.returned = en.returned
             /\ ~en.logoutWritten => r.running /\ ~r.logoutWritten /\ r.finishing = x
  <1> DEFINE r == BeginFinishing(en, stop)
             x == IF stop \/ en.finishing = "stopping" THEN "stopping" ELSE "phase"
  <1>0. en.logoutWritten \in BOOLEAN /\ en.finishing \in Phases
    BY Typed DEF Sound
  <1>1. CASE en.logoutWritten /\ stop
    <2>1. r = Stop(en) /\ en.finishing = "none"
      BY <1>1 DEF BeginFinishing, Sound
    <2> HIDE DEF r
    <2>2. Ended(r) /\ ~r.running /\ r.returned = en.returned
      BY <1>1, <2>1, StopLeaves
    <2> QED
      BY <1>1, <2>2 DEF GoodbyeAsked, r
  <1>2. CASE en.logoutWritten /\ ~stop
    <2>1. r = en
      BY <1>2 DEF BeginFinishing
    <2> QED
      BY <1>2, <2>1 DEF GoodbyeAsked
  <1>3. CASE ~en.logoutWritten
    <2> DEFINE s == CancelRecovery(en)
               y == IF stop \/ s.finishing = "stopping" THEN "stopping" ELSE "phase"
               v == [s EXCEPT !.finishing = y]
    <2>1. r = v
      BY <1>3 DEF BeginFinishing
    <2>2. Sound(s) /\ Same(s, en, {"cancel"})
      BY CancelDoes
    <2>3. s.finishing = en.finishing
      BY <2>2, FieldNames DEF Same
    <2>4. y = x
      BY <2>3
    <2> HIDE DEF s, y, r
    <2>5. Engine(s)
      BY <2>2 DEF Sound
    <2>6. Same(v, s, {"finishing"}) /\ v.finishing = y
      BY <2>5, FieldNames DEF Engine, Same
    <2> HIDE DEF v
    <2>7. /\ v.running = en.running /\ v.logoutWritten = en.logoutWritten /\ v.ccpUp = en.ccpUp
          /\ v.told = en.told /\ v.returned = en.returned
      BY <2>2, <2>6, FieldNames DEF Same
    <2>8. Ended(v) /\ GoodbyeAsked(v)
      BY <1>3, <2>4, <2>6, <2>7 DEF Ended, GoodbyeAsked
    <2> QED
      BY <1>3, <2>1, <2>4, <2>6, <2>7, <2>8 DEF r
  <1> QED
    BY <1>0, <1>1, <1>2, <1>3

(* The goodbye is written once the orders are done, and told to the         *)
(* connection held.                                                         *)
LEMMA FinishLeaves ==
  ASSUME NEW en, Sound(en), Ended(en)
  PROVE  LET r == FinishWhenTheOrdersAreDone(en)
         IN  /\ Ended(r) /\ (GoodbyeAsked(en) => GoodbyeAsked(r))
             /\ Parted(en) /\ en.finishing # "phase" => Parted(r) /\ r.finishing # "phase"
  <1> DEFINE r == FinishWhenTheOrdersAreDone(en)
             g == [SendLogout(en) EXCEPT !.finishing = "none", !.logoutWritten = TRUE]
  <1>0. Engine(en) /\ en.finishing \in Phases
    BY Typed DEF Sound
  <1>1. CASE en.finishing = "none" \/ OrdersNotDone(en)
    <2>1. r = en
      BY <1>1 DEF FinishWhenTheOrdersAreDone
    <2> QED
      BY <2>1
  <1>2. CASE en.finishing # "none" /\ ~OrdersNotDone(en)
    <2>1. en.running
      BY <1>2 DEF Sound
    <2>2. r = IF en.finishing = "stopping" THEN Stop(g) ELSE g
      BY <1>2 DEF FinishWhenTheOrdersAreDone
    <2>3. /\ Sound(g) /\ g.running = en.running /\ g.finishing = "none" /\ (g.ccpUp => g.told)
          /\ Same(g, en, {"finishing", "told", "logoutSent", "open", "logoutWritten"})
      BY <1>2, GoodbyeDoes
    <2>4. g.logoutWritten = TRUE
      <3> DEFINE n == IF en.told THEN en.open ELSE en.open - 1
                 u == IF en.ccpUp THEN [en EXCEPT !.told = TRUE, !.logoutSent = TRUE, !.open = n] ELSE en
      <3>1. g = [u EXCEPT !.finishing = "none", !.logoutWritten = TRUE]
        BY DEF SendLogout
      <3> HIDE DEF n
      <3>2. "logoutWritten" \in DOMAIN u
        BY <1>0, FieldNames DEF Engine
      <3> HIDE DEF u, g
      <3> QED
        BY <3>1, <3>2
    <2> HIDE DEF g
    <2>5. g.returned = en.returned
      BY <2>3, FieldNames DEF Same
    <2>6. Ended(g) /\ GoodbyeAsked(g)
      BY <2>1, <2>3, <2>4 DEF Ended, GoodbyeAsked
    <2>7. CASE en.finishing = "stopping"
      <3>1. r = Stop(g)
        BY <2>2, <2>7
      <3> HIDE DEF r
      <3>2. Ended(r) /\ ~r.running /\ r.finishing = "none" /\ r.returned = g.returned
        BY <2>1, <2>3, <2>4, <2>6, <3>1, StopLeaves
      <3>3. Ended(r) /\ GoodbyeAsked(r) /\ (Parted(en) => Parted(r) /\ r.finishing # "phase")
        BY <2>5, <3>2 DEF Parted, GoodbyeAsked
      <3> QED
        BY <3>3 DEF r
    <2>8. CASE en.finishing # "stopping"
      <3>1. r = g /\ en.finishing = "phase"
        BY <1>0, <1>2, <2>2, <2>8 DEF Phases
      <3> HIDE DEF r
      <3> QED
        BY <2>6, <3>1 DEF r
    <2> QED
      BY <2>7, <2>8
  <1> QED
    BY <1>1, <1>2

LEMMA CarriedLeaves ==
  ASSUME NEW en, Sound(en), NEW cmd \in Others, Ended(en), cmd = "Shutdown" => GoodbyeAsked(en)
  PROVE  LET u == Carried(en, cmd)
         IN  /\ Ended(u) /\ (GoodbyeAsked(en) \/ cmd = "Logout" => GoodbyeAsked(u))
             /\ /\ Parted(en)
                /\ en.finishing = "phase" => cmd = "Shutdown"
                /\ cmd = "Shutdown" /\ en.running => en.finishing # "none"
                => /\ Parted(u)
                   /\ u.finishing = "phase" => cmd = "Logout"
                   /\ cmd = "Logout" /\ u.running => u.finishing # "none"
  <1> DEFINE u == Carried(en, cmd)
             OnTime == /\ Parted(en)
                       /\ en.finishing = "phase" => cmd = "Shutdown"
                       /\ cmd = "Shutdown" /\ en.running => en.finishing # "none"
             Then == /\ Parted(u)
                     /\ u.finishing = "phase" => cmd = "Logout"
                     /\ cmd = "Logout" /\ u.running => u.finishing # "none"
  <1>0. Engine(en) /\ en.running \in BOOLEAN
    BY Typed DEF Sound
  <1>1. CASE ~en.running
    <2>1. u = en /\ en.finishing = "none"
      BY <1>1 DEF Carried, Sound
    <2> QED
      BY <1>1, <2>1 DEF GoodbyeAsked
  <1>2. CASE en.running /\ cmd = "Logout"
    <2>1. u = BeginFinishing(en, FALSE)
      BY <1>2 DEF Carried
    <2> HIDE DEF u
    <2>2. /\ Ended(u) /\ GoodbyeAsked(u) /\ u.returned = en.returned
          /\ ~en.logoutWritten => u.running /\ ~u.logoutWritten /\ u.finishing \in {"stopping", "phase"}
      BY <1>2, <2>1, BeginFinishingLeaves
    <2>3. Parted(en) => Then
      BY <1>2, <2>2 DEF Parted
    <2> QED
      BY <2>2, <2>3 DEF u
  <1>3. CASE en.running /\ cmd = "Shutdown" /\ en.finishing = "none"
    <2>1. u = Stop(en) /\ en.logoutWritten
      BY <1>3 DEF Carried, GoodbyeAsked
    <2> HIDE DEF u
    <2>2. Ended(u) /\ ~u.running
      BY <1>3, <2>1, StopLeaves
    <2>3. Ended(u) /\ GoodbyeAsked(u) /\ ~OnTime
      BY <1>3, <2>2 DEF GoodbyeAsked
    <2> QED
      BY <2>3 DEF u
  <1>4. CASE en.running /\ cmd = "Shutdown" /\ en.finishing # "none"
    <2>1. u = [en EXCEPT !.finishing = "stopping"]
      BY <1>4 DEF Carried
    <2> HIDE DEF u
    <2>2. u.finishing = "stopping" /\ Same(u, en, {"finishing"})
      BY <1>0, <2>1, FieldNames DEF Engine, Same
    <2>3. /\ u.running = en.running /\ u.logoutWritten = en.logoutWritten /\ u.returned = en.returned
          /\ u.ccpUp = en.ccpUp /\ u.told = en.told
      BY <2>2, FieldNames DEF Same
    <2>4. Ended(u) /\ GoodbyeAsked(u)
      BY <2>2, <2>3 DEF Ended, GoodbyeAsked
    <2>5. Parted(en) => Then
      BY <1>4, <2>2, <2>3 DEF Parted
    <2> QED
      BY <2>4, <2>5 DEF u
  <1>5. CASE en.running /\ cmd = "ForceDisconnect"
    <2> DEFINE s == HandleDisconnect(en)
               v == HandleFarmDisconnect(s)
    <2>1. u = v
      BY <1>5 DEF Carried
    <2>2. Sound(s) /\ ~s.ccpUp /\ Same(s, en, {"ccpUp", "settling", "over", "open", "answered"})
      BY DisconnectDoes
    <2> HIDE DEF s, u
    <2>3. Same(v, s, {"farmUp"})
      BY <2>2, FarmDisconnectDoes
    <2> HIDE DEF v
    <2>4. ~v.ccpUp /\ Same(v, en, {"ccpUp", "settling", "over", "open", "answered", "farmUp"})
      BY <2>2, <2>3, FieldNames DEF Same
    <2>5. /\ v.running = en.running /\ v.logoutWritten = en.logoutWritten /\ v.finishing = en.finishing
          /\ v.returned = en.returned
      BY <2>4, FieldNames DEF Same
    <2>6. Ended(v) /\ (GoodbyeAsked(en) => GoodbyeAsked(v))
      BY <1>5, <2>4, <2>5 DEF Ended, GoodbyeAsked
    <2>7. OnTime => Parted(v) /\ v.finishing # "phase"
      BY <1>5, <2>5 DEF Parted
    <2> QED
      BY <1>5, <2>1, <2>6, <2>7 DEF u
  <1> QED
    BY <1>0, <1>1, <1>2, <1>3, <1>4, <1>5 DEF Others

LEMMA TakeOtherLeaves ==
  ASSUME IInv, LInv, TakeCommand, Head(cmds) \notin Orders
  PROVE  LeftStep
  <1> DEFINE h == Head(cmds)
             u == Carried(e, h)
             r == [u EXCEPT !.left = @ - 1, !.taken = @ + 1]
  <1>1. /\ caller' = caller /\ e.pc = "take" /\ e.left > 0 /\ cmds # <<>> /\ cmds' = Tail(cmds) /\ e' = r
    BY DEF TakeCommand, At
  <1>2. Engine(e) /\ Holds(e, trading, farm, cmds, caller) /\ sc \in Scenarios /\ cmds \in Seq(Commands)
    BY DEF IInv, Holds, Shaped
  <1>3. Sound(e)
    BY <1>1, <1>2 DEF Holds, LapInTurn
  <1>4. h \in Others
    <2>1. h \in Commands
      BY <1>1, <1>2
    <2> QED
      BY <2>1 DEF Commands, Others
  <1>5. cmds[1] = h
    BY <1>1, <1>2
  <1>6. ~e.panicked => Ended(e) /\ (h = "Shutdown" => GoodbyeAsked(e))
    <2>1. Heralded(cmds, caller) => h # "Shutdown"
      <3>1. CASE h = "Logout"
        BY <3>1
      <3>2. CASE h # "Logout"
        BY <1>1, <1>2, <3>2, HeraldedTaken
      <3> QED
        BY <3>1, <3>2
    <2> QED
      BY <2>1 DEF LInv, Leaves, Follows
  <1>6a. ~e.panicked /\ OneLapStop => /\ Parted(e)
                                      /\ e.finishing = "phase" => h = "Shutdown"
                                      /\ h = "Shutdown" /\ e.running => e.finishing # "none"
    BY <1>1, <1>5 DEF LInv, Leaves, OnOneLap, InOneLap, ShutdownIsNext
  <1>7. ~e.panicked => Ended(u) /\ (GoodbyeAsked(e) \/ h = "Logout" => GoodbyeAsked(u))
    BY <1>3, <1>4, <1>6, CarriedLeaves
  <1>7a. ~e.panicked /\ OneLapStop => /\ Parted(u)
                                      /\ u.finishing = "phase" => h = "Logout"
                                      /\ h = "Logout" /\ u.running => u.finishing # "none"
    BY <1>3, <1>4, <1>6, <1>6a, CarriedLeaves
  <1>8. Sound(u) /\ Moves(u, e) /\ \A f \in Kept : u[f] = e[f]
    BY <1>3, <1>4, CarriedDoes
  <1> HIDE DEF u
  <1>9. Engine(u) /\ Asked(u) = Asked(e)
    BY <1>8, MovesAsked DEF Sound
  <1>10. /\ u.left = e.left /\ u.taken = e.taken /\ u.pc = e.pc /\ u.panicked = e.panicked
         /\ u.admitted = e.admitted /\ u.forced = e.forced
    BY <1>8 DEF Kept
  <1>11. TakenBy(r, u, e)
    BY <1>1, <1>2, <1>9, <1>10, OneTaken
  <1> HIDE DEF r
  <1>12. Leaves(r, Tail(cmds), caller)
    BY <1>1, <1>7, <1>7a, <1>9, <1>10, <1>11, TakenLeaves
  <1> QED
    BY <1>1, <1>12 DEF LeftStep

(* The lap that takes the last command has room for it. *)
LEMMA AllTaken ==
  ASSUME IInv, LInv, OneLapStop, ~e.panicked, e.pc = "take", e.left = 0 \/ cmds = <<>>
  PROVE  cmds = <<>>
  <1>1. /\ sc \in Scenarios /\ cmds \in Seq(Commands) /\ Counted(e, cmds) /\ e.taken \in Nat /\ e.forced \in Nat
        /\ e.admitted \in Nat
    BY Typed DEF IInv, Holds, Shaped
  <1>2. /\ LapLimit \in Nat /\ MaxForced \in Nat
    BY <1>1, ScenarioIs, ScenariosAssumption DEF MaxForced
  <1>3. Cardinality(Asked(e)) \in Nat /\ Cardinality(Orders) \in Nat /\ Cardinality(Asked(e)) <= Cardinality(Orders)
    <2>1. Asked(e) \subseteq Orders
      BY DEF Asked
    <2> QED
      BY <1>1, <2>1, FewerOrders
  <1>4. Cardinality(Orders) + MaxForced + 2 <= LapLimit
    BY DEF OneLapStop
  <1>5. /\ e.left + e.taken >= LapLimit /\ e.forced <= MaxForced
        /\ e.admitted <= Cardinality(Asked(e)) + e.forced + (IF caller = "stopped" THEN 2 ELSE 0)
    BY DEF LInv, Leaves, OnOneLap, Room
  <1>6. e.admitted <= Cardinality(Asked(e)) + e.forced + 2
    BY <1>1, <1>3, <1>5
  <1>7. e.taken + Len(cmds) = e.admitted /\ Len(cmds) \in Nat
    BY <1>1 DEF Counted
  <1>8. e.left = 0 => Len(cmds) = 0
    BY <1>1, <1>2, <1>3, <1>4, <1>5, <1>6, <1>7
  <1>9. Len(cmds) = 0 => cmds = <<>>
    BY <1>1
  <1> QED
    BY <1>8, <1>9

LEMMA EndTakeLeaves ==
  ASSUME IInv, LInv, EndTake
  PROVE  LeftStep
  <1> DEFINE refused == IF e.running THEN e ELSE RefuseWhatIsLeft(e)
             begins == SendersDropped /\ e.running /\ e.finishing # "stopping"
             begun == IF begins THEN BeginFinishing(refused, TRUE) ELSE refused
             done == FinishWhenTheOrdersAreDone(begun)
             p == IF done.running /\ done.finishing = "none" THEN "farm" ELSE "spawn"
             n == done.taken - CommandsHeld(done)
             r == [done EXCEPT !.pc = p, !.left = 0, !.finished = n]
  <1>1. e' = r /\ cmds' = cmds /\ caller' = caller /\ e.pc = "take" /\ (e.left = 0 \/ cmds = <<>>)
    BY DEF EndTake, At
  <1>2. Engine(e) /\ Holds(e, trading, farm, cmds, caller) /\ e.running \in BOOLEAN
    BY Typed DEF IInv, Holds, Shaped
  <1>3. Sound(e)
    BY <1>1, <1>2 DEF Holds, LapInTurn
  <1>4. ~e.panicked /\ OneLapStop => cmds = <<>> /\ Parted(e) /\ e.finishing # "phase" /\ ~ShutdownIsNext(cmds)
    <2>1. ~e.panicked /\ OneLapStop => cmds = <<>>
      BY <1>1, AllTaken
    <2> QED
      BY <2>1 DEF LInv, Leaves, OnOneLap, InOneLap, ShutdownIsNext
  <1>5. /\ Sound(refused) /\ Steps(refused, e) /\ Same(refused, e, {"status"})
    <2>1. CASE e.running
      BY <1>2, <1>3, <2>1, StepsNone, SameIs
    <2>2. CASE ~e.running
      BY <1>3, <2>2, RefuseLeftDoes
    <2> QED
      BY <1>2, <2>1, <2>2
  <1> HIDE DEF refused
  <1>6. /\ refused.running = e.running /\ refused.finishing = e.finishing /\ refused.told = e.told
        /\ refused.ccpUp = e.ccpUp /\ refused.logoutWritten = e.logoutWritten
        /\ refused.returned = e.returned
    BY <1>5, FieldNames DEF Same
  <1>7. Sound(begun) /\ Steps(begun, refused)
    <2>1. CASE begins
      BY <1>5, <1>6, <2>1, BeginFinishingDoes
    <2>2. CASE ~begins
      BY <1>5, <2>2, StepsNone DEF Sound
    <2> QED
      BY <2>1, <2>2
  <1>8. ~e.panicked => Ended(begun) /\ (GoodbyeAsked(e) => GoodbyeAsked(begun))
    <2>1. SUFFICES ASSUME ~e.panicked
                   PROVE  Ended(begun) /\ (GoodbyeAsked(e) => GoodbyeAsked(begun))
      OBVIOUS
    <2>2. Ended(refused) /\ (GoodbyeAsked(e) => GoodbyeAsked(refused))
      BY <1>6, <2>1 DEF LInv, Leaves, Ended, GoodbyeAsked
    <2>3. CASE begins
      BY <1>5, <1>6, <2>2, <2>3, BeginFinishingLeaves
    <2>4. CASE ~begins
      BY <2>2, <2>4
    <2> QED
      BY <2>3, <2>4
  <1>8a. ~e.panicked /\ OneLapStop => Parted(begun) /\ begun.finishing # "phase"
    <2>1. SUFFICES ASSUME ~e.panicked, OneLapStop
                   PROVE  Parted(begun) /\ begun.finishing # "phase"
      OBVIOUS
    <2>2. Parted(refused) /\ refused.finishing # "phase" /\ Ended(refused)
      BY <1>4, <1>6, <2>1 DEF Parted, LInv, Leaves, Ended
    <2>3. CASE begins
      <3>1. refused.running /\ ~refused.logoutWritten
        BY <1>6, <2>2, <2>3 DEF Parted
      <3>2. ~begun.logoutWritten /\ begun.finishing = "stopping" /\ begun.returned = refused.returned
        BY <1>5, <2>2, <2>3, <3>1, BeginFinishingLeaves
      <3> QED
        BY <2>2, <3>2 DEF Parted
    <2>4. CASE ~begins
      BY <2>2, <2>4
    <2> QED
      BY <2>3, <2>4
  <1> HIDE DEF begun
  <1>9. Sound(done) /\ Steps(done, begun)
    BY <1>7, FinishDoes
  <1>10. ~e.panicked => Ended(done) /\ (GoodbyeAsked(e) => GoodbyeAsked(done))
    BY <1>7, <1>8, FinishLeaves
  <1>10a. ~e.panicked /\ OneLapStop => Parted(done) /\ done.finishing # "phase"
    BY <1>7, <1>8, <1>8a, FinishLeaves
  <1> HIDE DEF done
  <1>11. Engine(refused) /\ Engine(begun) /\ Engine(done)
    BY <1>5, <1>7, <1>9 DEF Sound
  <1>12. Steps(done, e)
    <2>1. Steps(begun, e)
      BY <1>2, <1>5, <1>7, <1>11, StepsTwice
    <2> QED
      BY <1>2, <1>9, <1>11, <2>1, StepsTwice
  <1>13. /\ done.taken = e.taken /\ done.admitted = e.admitted /\ done.panicked = e.panicked /\ done.forced = e.forced
         /\ Asked(done) = Asked(e)
    BY <1>12, MovesAsked DEF Steps, Kept
  <1>14. p # "take"
    OBVIOUS
  <1> HIDE DEF p, n
  <1>15. Same(r, done, {"pc", "left", "finished"}) /\ r.pc = p
    BY <1>11, FieldNames DEF Engine, Same
  <1> HIDE DEF r
  <1>16. /\ r.taken = e.taken /\ r.admitted = e.admitted /\ r.panicked = e.panicked /\ r.forced = e.forced
         /\ r.status = done.status /\ r.running = done.running /\ r.finishing = done.finishing
         /\ r.logoutWritten = done.logoutWritten /\ r.told = done.told /\ r.ccpUp = done.ccpUp
         /\ r.returned = done.returned
    BY <1>13, <1>15, FieldNames DEF Same
  <1>17. Asked(r) = Asked(e)
    BY <1>13, <1>16 DEF Asked
  <1>18. ~e.panicked => Ended(r) /\ Follows(r, cmds, caller)
    BY <1>10, <1>16 DEF LInv, Leaves, Ended, Follows, GoodbyeAsked
  <1>19. ~e.panicked /\ OneLapStop => OnOneLap(r, cmds, caller)
    <2>1. SUFFICES ASSUME ~e.panicked, OneLapStop
                   PROVE  Parted(r) /\ InOneLap(r, cmds) /\ Room(r, caller)
      BY DEF OnOneLap
    <2>2. Parted(r)
      BY <1>10a, <1>16, <2>1 DEF Parted
    <2>3. Paired(cmds) /\ Room(e, caller)
      BY <2>1 DEF LInv, Leaves, OnOneLap, InOneLap
    <2>4. InOneLap(r, cmds)
      BY <1>4, <1>10a, <1>16, <2>1, <2>3 DEF InOneLap
    <2>5. Room(r, caller)
      BY <1>14, <1>15, <1>16, <1>17, <2>3 DEF Room
    <2> QED
      BY <2>2, <2>4, <2>5
  <1>20. Leaves(r, cmds, caller)
    BY <1>16, <1>18, <1>19 DEF Leaves
  <1> QED
    BY <1>1, <1>20 DEF LeftStep

-----------------------------------------------------------------------------
LEMMA StepLeaves ==
  ASSUME IInv, LInv, [Next]_vars
  PROVE  LeftStep
  <1>1. CASE UNCHANGED vars
    BY <1>1 DEF vars, LeftStep, LInv
  <1>2. CASE Lap
    <2>1. TakeCommand => LeftStep
      BY TakeOrderLeaves, TakeOtherLeaves
    <2> QED
      BY <1>2, <2>1, ReadSocketsLeaves, EndTakeLeaves, RecoverFarmLeaves, RecoverTradingLeaves, SpawnLeaves,
         EndLeaves DEF Lap
  <1> QED
    BY <1>1, <1>2, OthersLeave, CallerLeaves DEF Next

LEMMA LeftLater ==
  ASSUME LeftStep, sc' = sc
  PROVE  LInv'
  <1>1. Orders' = Orders /\ LapLimit' = LapLimit /\ MaxForced' = MaxForced /\ OneLapStop' = OneLapStop
    BY SameScenario DEF MaxForced, SplitStop, OneLapStop
  <1>2. Asked(e)' = Asked(e')
    BY <1>1 DEF Asked
  <1>3. Room(e', caller') => Room(e, caller)'
    BY <1>1, <1>2 DEF Room
  <1>4. Parted(e') => Parted(e)'
    BY DEF Parted
  <1>5. InOneLap(e', cmds') => InOneLap(e, cmds)'
    BY DEF InOneLap, Paired, ShutdownIsNext
  <1>6. Ended(e') => Ended(e)'
    BY DEF Ended
  <1>7. Follows(e', cmds', caller') => Follows(e, cmds, caller)'
    BY DEF Follows, GoodbyeAsked, Heralded
  <1> QED
    BY <1>1, <1>3, <1>4, <1>5, <1>6, <1>7 DEF LeftStep, LInv, Leaves, OnOneLap

LEMMA InitLeaves ==
  ASSUME Init
  PROVE  LInv
  <1>1. /\ e.logoutWritten = FALSE /\ e.running = TRUE /\ e.finishing = "none" /\ e.pc = "sockets"
        /\ e.forced = 0 /\ e.admitted = 0 /\ cmds = <<>> /\ caller = "up" /\ sc \in Scenarios
        /\ \A o \in Orders : e.status[o] = "unasked"
        /\ e.returned = FALSE
    BY DEF Init
  <1>2. Parted(e) /\ Ended(e)
    BY <1>1 DEF Parted, Ended
  <1>2a. Follows(e, cmds, caller)
    BY <1>1 DEF Follows, Heralded
  <1>3. InOneLap(e, cmds)
    BY <1>1 DEF InOneLap, Paired, ShutdownIsNext
  <1>4. Cardinality(Asked(e)) = 0
    <2>1. Asked(e) = {}
      BY <1>1 DEF Asked
    <2> QED
      BY <2>1, FS_EmptySet
  <1>5. 0 <= MaxForced
    <2>1. MaxForced \in Nat
      BY <1>1, ScenariosAssumption DEF MaxForced
    <2> QED
      BY <2>1
  <1>6. e.admitted <= Cardinality(Asked(e)) + e.forced + 0
    BY <1>1, <1>4
  <1>7. Room(e, caller)
    BY <1>1, <1>5, <1>6 DEF Room
  <1> QED
    BY <1>2, <1>2a, <1>3, <1>7 DEF LInv, Leaves, OnOneLap

(* Whatever the scenario, a session that ends by itself or by a stop leaves *)
(* no recovery thread running, nothing said after its last record and no    *)
(* session open at the venue: finish_when_the_orders_are_done tells the one *)
(* it holds, and one that lands later is told by poll_ccp_reconnect or by   *)
(* the join.  The one exception is a connection that reconnect_ccp brought  *)
(* up after the goodbye was written, and there is none where a stop's two   *)
(* commands are sent together and a lap has room for every command.         *)
THEOREM NothingLeftBehind == Spec => []NothingIsLeftBehind
  <1>1. Init => LInv
    BY InitLeaves
  <1>2. IInv /\ LInv /\ [Next]_vars => LInv'
    <2>1. SUFFICES ASSUME IInv, LInv, [Next]_vars
                   PROVE  LInv'
      OBVIOUS
    <2>2. LeftStep /\ sc' = sc
      BY <2>1, StepLeaves, StepIsGood
    <2> QED
      BY <2>2, LeftLater
  <1>3. IInv /\ LInv => NoSessionLeftOpen
    <2>1. SUFFICES ASSUME IInv, LInv, ~e.panicked
                   PROVE  /\ e.closed => e.open = 0 \/ (e.open = 1 /\ e.returned)
                          /\ OneLapStop => ~e.returned
      BY DEF NoSessionLeftOpen
    <2>2. OneLapStop => ~e.returned
      BY <2>1 DEF LInv, Leaves, OnOneLap, Parted
    <2>3. ASSUME e.closed
          PROVE  e.open = 0 \/ (e.open = 1 /\ e.returned)
      <3>1. /\ e.pc = "ended" /\ EndInTurn(e, trading, farm) /\ Engine(e) /\ SessionsAreCounted(e, trading)
        BY <2>1, <2>3 DEF IInv, Holds, LapInTurn, Shaped
      <3>2. ~e.running /\ trading.phase = "none"
        BY <2>1, <3>1 DEF EndInTurn, Ending
      <3>3. e.ccpUp /\ ~e.told => e.returned
        BY <2>1, <3>2 DEF LInv, Leaves, Ended
      <3>4. ~Landed(trading)
        BY <3>2 DEF Landed
      <3>5. e.open \in Int /\ Spare(e) = e.open - (IF e.ccpUp /\ ~e.told THEN 1 ELSE 0)
        BY <3>1, Typed DEF Spare
      <3>6. e.open = IF e.ccpUp /\ ~e.told THEN 1 ELSE 0
        BY <3>1, <3>4, <3>5 DEF SessionsAreCounted
      <3> QED
        BY <3>3, <3>6
    <2> QED
      BY <2>2, <2>3
  <1>4. Spec => []NoSessionLeftOpen
    BY <1>1, <1>2, <1>3, Inductive, PTL DEF Spec
  <1> QED
    BY <1>4, NothingOutlives, PTL DEF NothingIsLeftBehind
=============================================================================
