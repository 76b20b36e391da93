-------------------------- MODULE SessionLifecycle --------------------------
(***************************************************************************)
(* The engine's lap, the recovery of its connections and its end           *)
(* (src/engine/hot_loop/mod.rs, src/reliability, src/gateway).             *)
(*                                                                         *)
(* Four actors.  A caller admits orders through a channel and stops the    *)
(* session.  The engine's thread makes laps: it reads its sockets, takes   *)
(* commands, takes what recovery has brought back, and schedules recovery. *)
(* One worker at a time rebuilds the trading connection and one the quote  *)
(* farm.  The venue drops connections, names what is working, and keeps    *)
(* open every session it was not told the end of.                          *)
(*                                                                         *)
(* A lap is cut where another actor's step can matter: after the sockets   *)
(* are read, at each command, before the farm's answer, before the trading *)
(* connection's answer, and before the schedulers.  Operators that take    *)
(* and return an engine record, `en', are the functions the lap calls.     *)
(***************************************************************************)
EXTENDS Integers, Sequences, FiniteSets

CONSTANT Scenarios  \* what the caller set, and the bounds, of each behaviour

ASSUME ScenariosAssumption ==
  \A s \in Scenarios :
    /\ s.placements \cap s.withdrawals = {} /\ IsFiniteSet(s.placements \cup s.withdrawals)
    /\ (s.placements \cup s.withdrawals) \cap {"Logout", "Shutdown", "ForceDisconnect"} = {}
    /\ {s.recovers, s.timed, s.splitStop, s.mayPanic} \subseteq BOOLEAN
    /\ s.policies # {} /\ s.policies \subseteq {"Auto", "Manual"}
    /\ s.lapLimit \in Nat \ {0}
    /\ {s.maxAttempts, s.maxDrops, s.maxFarmDrops, s.maxForced} \subseteq Nat

VARIABLES
  sc,       \* the scenario
  e,        \* the engine's own state and what it shares with the surfaces
  trading,  \* the trading connection's recovery worker
  farm,     \* the quote farm's recovery worker
  cmds,     \* the control channel
  caller    \* where the caller's stop stands

vars == <<sc, e, trading, farm, cmds, caller>>

Placements == sc.placements      \* order commands that place an order
Withdrawals == sc.withdrawals    \* order commands that withdraw one working at the venue
Orders == Placements \cup Withdrawals
Recovers == sc.recovers          \* the logon recovers placements across a drop
Policies == sc.policies          \* the reconnect policies the caller may set
Timed == sc.timed                \* the caller bounded recovery in time (max_elapsed)
MaxAttempts == sc.maxAttempts    \* the caller's max_attempts, for each of the two budgets
LapLimit == sc.lapLimit          \* COMMANDS_PER_LAP
SplitStop == sc.splitStop        \* the two sends of a stop may be taken on different laps
MayPanic == sc.mayPanic          \* the engine's thread may panic
MaxDrops == sc.maxDrops          \* bound: trading connections the venue takes away
MaxFarmDrops == sc.maxFarmDrops  \* bound: farm connections the venue takes away
MaxForced == sc.maxForced        \* bound: ForceDisconnect commands

Commands == Orders \cup {"Logout", "Shutdown", "ForceDisconnect"}
Reasons == {"ByDesign", "RecoveryExhausted", "Refused", "EngineStopped"}
Notices == {"lost", "lostByDesign", "restored", "closed"}

\* Where an order command stands: in the channel; waiting on the venue's
\* naming, held there across a drop; built in the order buffer, held built
\* across a drop; or settled.
Statuses == {"unasked", "queued", "waiting", "held", "built", "heldBuilt", "sent", "refused"}
Open == {"queued", "waiting", "held", "built", "heldBuilt"}

NoWorker == [phase |-> "none", result |-> "none", gone |-> FALSE]

\* RecoveryBudget: the attempts spent, whether their clock has run past what
\* the caller allowed, and whether a connection has come up since the last.
NewBudget == [attempts |-> 0, late |-> FALSE, healthy |-> FALSE]

Init ==
  /\ sc \in Scenarios
  /\ \E set \in Policies :
     e = [pc |-> "sockets", policy |-> set, running |-> TRUE, finishing |-> "none",
          logoutWritten |-> FALSE, told |-> FALSE, logoutSent |-> FALSE,
          ccpUp |-> TRUE, farmUp |-> TRUE, replay |-> FALSE, over |-> FALSE,
          settling |-> FALSE, halted |-> "none", farmHalted |-> FALSE,
          farmPending |-> FALSE, dropSaid |-> FALSE, lossAnnounced |-> FALSE,
          budget |-> NewBudget, farmBudget |-> NewBudget, cancel |-> FALSE,
          status |-> [o \in Orders |-> "unasked"], answered |-> {},
          sentOnce |-> {}, left |-> 0, taken |-> 0, finished |-> 0,
          admitted |-> 0, admissionClosed |-> FALSE, closed |-> FALSE,
          panicked |-> FALSE, linkUp |-> TRUE, sessionOver |-> "none",
          tradingOver |-> FALSE, notices |-> <<>>, open |-> 1,
          returned |-> FALSE, drops |-> 0, farmDrops |-> 0, forced |-> 0, gone |-> 0]
  /\ trading = NoWorker
  /\ farm = "none"
  /\ cmds = <<>>
  /\ caller = "up"

-----------------------------------------------------------------------------
(* Orders in the engine's hands. *)

In(en, st) == {o \in Orders : en.status[o] = st}

Become(en, S, st) ==
  [en EXCEPT !.status = [o \in Orders |-> IF o \in S THEN st ELSE en.status[o]]]

\* order_builder::drain_and_send_orders: nothing without a connection; a
\* withdrawal waits while a reconnect is settling what the venue holds.
DrainAndSendOrders(en) ==
  LET going == {o \in In(en, "built") : o \in Withdrawals => ~en.settling}
  IN  IF en.ccpUp THEN Become(en, going, "sent") ELSE en

RefuseWhatIsLeft(en) == Become(en, In(en, "built"), "refused")

\* Mutant: the stop forgets what the recovery held built.
RefuseForgetsTheHeldBuilt(en) == Become(en, In(en, "waiting") \cup In(en, "held"), "refused")

\* What the recovery held is waiting too, and goes to the order buffer.
RefuseHeldOrderCommands(en) ==
  Become(Become(en, In(en, "heldBuilt"), "built"), In(en, "waiting") \cup In(en, "held"), "refused")

\* hold_what_waits_to_be_placed: where the logon recovers placements they are
\* held until the next recovery is over, and otherwise cancelled at the drop.
HoldWhatWaitsToBePlaced(en, atTheDrop) ==
  LET waiting == In(en, "waiting") \cap Placements
      built == In(en, "built") \cap Placements
      held == Become(Become(en, waiting, "held"), built, "heldBuilt")
  IN  CASE Recovers -> [held EXCEPT !.answered = @ \ waiting]
        [] ~Recovers /\ atTheDrop -> Become(en, waiting \cup built, "refused")
        [] OTHER -> en

\* let_go_of_the_held: a placement the recovery sent out once is refused.
LetGoOfTheHeld(en) ==
  LET built == In(en, "heldBuilt")
      again == built \cap en.sentOnce
      freed == Become(Become(en, In(en, "held"), "waiting"), built \ again, "built")
  IN  IF en.over
        THEN [Become(freed, again, "refused") EXCEPT !.sentOnce = @ \cup built]
        ELSE en

\* What a lap makes of an order command it takes or works through: a placement
\* waits while the trading connection is down, and otherwise on the venue's
\* naming; a withdrawal waits for the working set to be named, or its bound.
CanProceed(en, o) ==
  IF o \in Placements THEN en.ccpUp /\ o \in en.answered
                      ELSE en.replay \/ o \in en.answered

Taken(en, o) ==
  CASE CanProceed(en, o) -> {"built", "refused"}
    [] o \in Placements /\ en.ccpUp -> {"built", "waiting", "refused"}
    [] OTHER -> {"waiting"}

WorkedThrough(en) ==
  LET ready == {o \in In(en, "waiting") : CanProceed(en, o)}
  IN  {[Become(Become(en, B, "built"), ready \ B, "refused") EXCEPT !.answered = @ \ ready] :
         B \in SUBSET ready}

\* Mutant: the order buffer is not counted.
CommandsHeldButForTheBuffer(en) ==
  IF en.running THEN Cardinality(In(en, "waiting") \cup In(en, "held")) ELSE 0

CommandsHeld(en) ==
  IF en.running THEN Cardinality(In(en, "waiting") \cup In(en, "held") \cup In(en, "built")) ELSE 0

-----------------------------------------------------------------------------
(* What is said of the connection, and the ends of recovery and session. *)

SetSessionOver(en, why) == [en EXCEPT !.sessionOver = IF @ = "none" THEN why ELSE @]

SetConnectionLost(en) ==
  LET byDesign == en.sessionOver = "ByDesign"
      said == IF byDesign THEN "lostByDesign" ELSE "lost"
  IN  [en EXCEPT !.linkUp = FALSE,
                 !.notices = IF en.linkUp \/ ~byDesign THEN Append(@, said) ELSE @]

SetConnectionRestored(en) ==
  [en EXCEPT !.linkUp = TRUE, !.notices = IF en.linkUp THEN @ ELSE Append(@, "restored")]

SayTheDrop(en) ==
  IF en.dropSaid THEN en
  ELSE SetConnectionLost([en EXCEPT !.dropSaid = TRUE, !.lossAnnounced = TRUE])

\* Mutant: the drop is told on every lap it lasts.
TheTradingConnectionWentEachLap(en) ==
  HoldWhatWaitsToBePlaced(SayTheDrop([en EXCEPT !.dropSaid = FALSE]), TRUE)

TheTradingConnectionWent(en) ==
  IF en.dropSaid THEN en ELSE HoldWhatWaitsToBePlaced(SayTheDrop(en), TRUE)

\* say_what_the_attempt_let_go: a socket the attempt opened and let go without
\* a session on it is a connection that went.
SayWhatTheAttemptLetGo(en, gone) ==
  IF gone THEN TheTradingConnectionWent([en EXCEPT !.dropSaid = FALSE, !.gone = @ + 1]) ELSE en

\* ccp.handle_disconnect: a naming in flight is answered as refused.  The
\* venue's session goes with its connection.
HandleDisconnect(en) ==
  [en EXCEPT !.ccpUp = FALSE, !.settling = FALSE, !.over = FALSE,
             !.open = IF en.ccpUp /\ ~en.told THEN @ - 1 ELSE @,
             !.answered = @ \cup (In(en, "waiting") \cap Placements)]

HandleFarmDisconnect(en) == [en EXCEPT !.farmUp = FALSE]

CancelRecovery(en) == [en EXCEPT !.cancel = TRUE]

Stop(en) ==
  LET sent == DrainAndSendOrders(CancelRecovery(en))
      refused == RefuseWhatIsLeft(RefuseHeldOrderCommands(sent))
  IN  SetConnectionLost(SetSessionOver([refused EXCEPT !.running = FALSE], "ByDesign"))

BeginFinishing(en, stop) ==
  CASE en.logoutWritten -> IF stop THEN Stop(en) ELSE en
    [] ~en.logoutWritten ->
         [CancelRecovery(en) EXCEPT !.finishing = IF stop \/ @ = "stopping" THEN "stopping" ELSE "phase"]

\* Mutants: the phase does not wait for the order buffer, or waits for it with
\* no connection to send it on.
OrdersNotDoneButForTheBuffer(en) == In(en, "waiting") \cup In(en, "held") # {}
OrdersNotDoneEvenUnsendable(en) == In(en, "waiting") \cup In(en, "held") \cup In(en, "built") # {}

\* Whether an order command the phase must complete is still open.  What is
\* built and has no connection to go on is left to be refused.
OrdersNotDone(en) ==
  \/ In(en, "waiting") \cup In(en, "held") # {}
  \/ In(en, "built") # {} /\ en.ccpUp

\* The venue ends a session it is told the end of.
SendLogout(en) ==
  IF en.ccpUp
    THEN [en EXCEPT !.told = TRUE, !.logoutSent = TRUE, !.open = IF en.told THEN @ ELSE @ - 1]
    ELSE en

\* The goodbye to a session that landed too late to be installed.
TellTheLateSession(en) == [en EXCEPT !.open = @ - 1]

FinishWhenTheOrdersAreDone(en) ==
  LET goodbye == [SendLogout(en) EXCEPT !.finishing = "none", !.logoutWritten = TRUE]
  IN  CASE en.finishing = "none" \/ OrdersNotDone(en) -> en
        [] en.finishing = "stopping" /\ ~OrdersNotDone(en) -> Stop(goodbye)
        [] OTHER -> goodbye

\* halt_recovery: recovery ends for the session, and the loop with it.
HaltRecovery(en, why) ==
  LET over == SetSessionOver([en EXCEPT !.halted = why, !.tradingOver = @ \/ ~en.ccpUp], why)
      said == IF en.lossAnnounced THEN over ELSE SayTheDrop(over)
      refused == RefuseWhatIsLeft(RefuseHeldOrderCommands(said))
      taken == CancelRecovery([en EXCEPT !.admissionClosed = TRUE])
  IN  IF en.halted # "none" THEN taken
      ELSE [CancelRecovery(refused) EXCEPT !.admissionClosed = TRUE, !.farmPending = FALSE,
                                           !.finishing = "none", !.running = FALSE]

FarmIsOver(en) == [en EXCEPT !.farmHalted = TRUE, !.farmPending = FALSE]

\* abandon_recovery_past_its_deadline: each attempt in flight on its own clock.
AbandonRecoveryPastItsDeadline(en) ==
  LET farmRead == IF en.farmPending /\ en.farmBudget.late THEN FarmIsOver(en) ELSE en
  IN  CASE en.halted # "none" -> en
        [] trading.phase # "none" /\ en.budget.late -> HaltRecovery(farmRead, "RecoveryExhausted")
        [] OTHER -> farmRead

\* end_the_trading_connection_once_recovery_is_over
EndTheTradingConnection(en) ==
  IF en.halted # "none" /\ ~en.ccpUp
    THEN RefuseWhatIsLeft([en EXCEPT !.tradingOver = TRUE]) ELSE en

-----------------------------------------------------------------------------
(* The caller: admitting, and stopping in two sends. *)

Admitted(en) == [en EXCEPT !.admitted = @ + 1]

Admit(o) ==
  /\ ~e.admissionClosed /\ ~e.closed
  /\ caller = "up"
  /\ e.status[o] = "unasked"
  /\ e' = Admitted(Become(e, {o}, "queued"))
  /\ cmds' = Append(cmds, o)
  /\ UNCHANGED <<trading, farm, caller>>

AdmitForceDisconnect ==
  /\ ~e.admissionClosed /\ ~e.closed
  /\ caller = "up"
  /\ e.forced < MaxForced
  /\ e' = [Admitted(e) EXCEPT !.forced = @ + 1]
  /\ cmds' = Append(cmds, "ForceDisconnect")
  /\ UNCHANGED <<trading, farm, caller>>

\* admit of a Logout or a Shutdown, refused only once the session is closed.
CloseAdmission ==
  /\ caller = "up"
  /\ e' = [e EXCEPT !.admissionClosed = TRUE]
  /\ caller' = "stopping"
  /\ UNCHANGED <<trading, farm, cmds>>

AdmitLogout ==
  /\ caller = "stopping"
  /\ caller' = IF SplitStop THEN "loggingOut" ELSE "stopped"
  /\ LET sent == IF SplitStop THEN <<"Logout">> ELSE <<"Logout", "Shutdown">>
     IN  IF e.closed THEN UNCHANGED <<e, cmds>>
         ELSE /\ cmds' = cmds \o sent
              /\ e' = [e EXCEPT !.admitted = @ + Len(sent)]
  /\ UNCHANGED <<trading, farm>>

AdmitShutdown ==
  /\ caller = "loggingOut"
  /\ caller' = "stopped"
  /\ IF e.closed THEN UNCHANGED <<e, cmds>>
     ELSE /\ cmds' = Append(cmds, "Shutdown")
          /\ e' = Admitted(e)
  /\ UNCHANGED <<trading, farm>>

\* The last sender is dropped without a stop.
DropSenders ==
  /\ caller = "up"
  /\ caller' = "gone"
  /\ UNCHANGED <<e, trading, farm, cmds>>

-----------------------------------------------------------------------------
(* The engine's lap.  First the sockets: what the venue did since the last. *)

At(pc) == e.pc = pc

LoseTrading ==
  /\ At("sockets") /\ e.ccpUp /\ e.drops < MaxDrops
  /\ e' = [HandleDisconnect(e) EXCEPT !.drops = @ + 1]
  /\ UNCHANGED <<trading, farm, cmds, caller>>

LoseFarm ==
  /\ At("sockets") /\ e.farmUp /\ e.farmDrops < MaxFarmDrops
  /\ e' = [HandleFarmDisconnect(e) EXCEPT !.farmDrops = @ + 1]
  /\ UNCHANGED <<trading, farm, cmds, caller>>

\* The venue ends what it names: the recovery of the drop is over with it,
\* unless a question of what the venue has finished is asked first.
EndNaming(asks) ==
  /\ At("sockets") /\ e.ccpUp /\ ~e.replay
  /\ asks => e.drops + e.forced > 0
  /\ e' = [e EXCEPT !.replay = TRUE, !.over = ~asks]
  /\ UNCHANGED <<trading, farm, cmds, caller>>

EndQuestion ==
  /\ At("sockets") /\ e.ccpUp /\ e.replay /\ ~e.over
  /\ e' = [e EXCEPT !.over = TRUE]
  /\ UNCHANGED <<trading, farm, cmds, caller>>

\* sweep_recovery: the orders a reconnect left in doubt are named, or the
\* grace it gives the venue has passed.
EndSettling ==
  /\ At("sockets") /\ e.settling
  /\ e' = [e EXCEPT !.settling = FALSE]
  /\ UNCHANGED <<trading, farm, cmds, caller>>

\* What an order waits on is answered, or its bound passes.  A placement's
\* contract is asked only on a connection.
AnswerNaming(o) ==
  /\ At("sockets") /\ e.status[o] = "waiting" /\ o \notin e.answered
  /\ o \in Placements => e.ccpUp
  /\ e' = [e EXCEPT !.answered = @ \cup {o}]
  /\ UNCHANGED <<trading, farm, cmds, caller>>

\* The rest of the lap up to the channel: what a recovery held is let go, the
\* order buffer is sent, and what waits is worked through.
ReadSockets ==
  /\ At("sockets")
  /\ \E en \in WorkedThrough(DrainAndSendOrders(LetGoOfTheHeld(e))) :
       e' = [en EXCEPT !.pc = "take", !.left = LapLimit]
  /\ UNCHANGED <<trading, farm, cmds, caller>>

\* One command of the lap's, in the order they were admitted.
TakeOrder(o) ==
  \E st \in (IF ~e.running \/ e.logoutWritten THEN {"refused"} ELSE Taken(e, o)) :
    e' = [Become(e, {o}, st) EXCEPT !.left = @ - 1, !.taken = @ + 1]

Carried(en, cmd) ==
  CASE ~en.running -> en
    [] en.running /\ cmd = "Logout" -> BeginFinishing(en, FALSE)
    [] en.running /\ cmd = "ForceDisconnect" -> HandleFarmDisconnect(HandleDisconnect(en))
    [] en.running /\ cmd = "Shutdown" ->
         IF en.finishing = "none" THEN Stop(en) ELSE [en EXCEPT !.finishing = "stopping"]

TakeCommand ==
  /\ At("take") /\ e.left > 0 /\ cmds # <<>>
  /\ IF Head(cmds) \in Orders
       THEN TakeOrder(Head(cmds))
       ELSE e' = [Carried(e, Head(cmds)) EXCEPT !.left = @ - 1, !.taken = @ + 1]
  /\ cmds' = Tail(cmds)
  /\ UNCHANGED <<trading, farm, caller>>

SendersDropped == caller = "gone" /\ cmds = <<>> /\ e.left > 0

EndTake ==
  /\ At("take") /\ (e.left = 0 \/ cmds = <<>>)
  /\ LET refused == IF e.running THEN e ELSE RefuseWhatIsLeft(e)
         begun == IF SendersDropped /\ e.running /\ e.finishing # "stopping"
                    THEN BeginFinishing(refused, TRUE) ELSE refused
         done == FinishWhenTheOrdersAreDone(begun)
     IN  e' = [done EXCEPT !.pc = IF done.running /\ done.finishing = "none" THEN "farm" ELSE "spawn",
                           !.left = 0, !.finished = done.taken - CommandsHeld(done)]
  /\ UNCHANGED <<trading, farm, cmds, caller>>

\* A terminal answer to the farm's logon ends the feed while the trading
\* connection is up, and the session where that one is down too.
FarmIsRefused(en, why) == IF en.ccpUp THEN FarmIsOver(en) ELSE HaltRecovery(en, why)

\* abandon_recovery_past_its_deadline and poll_farm_reconnect.
PolledFarm(en) ==
  LET heard == [en EXCEPT !.farmPending = FALSE]
  IN  CASE ~en.farmPending \/ farm = "dialling" -> en
        [] en.farmPending /\ farm = "session" ->
             IF en.halted # "none" THEN heard
             ELSE [heard EXCEPT !.farmUp = TRUE, !.farmHalted = FALSE,
                                !.farmBudget.healthy = TRUE,
                                !.sessionOver = "none", !.tradingOver = FALSE]
        [] en.farmPending /\ farm = "refused" -> FarmIsRefused(en, "Refused")
        [] en.farmPending /\ farm = "cancelled" -> FarmIsRefused(en, "ByDesign")
        [] OTHER -> heard

RecoverFarm ==
  /\ At("farm")
  /\ LET polled == PolledFarm(AbandonRecoveryPastItsDeadline(e))
     IN  e' = [polled EXCEPT !.pc = "trading"]
  /\ farm' = IF e.farmPending /\ farm # "dialling" THEN "none" ELSE farm
  /\ UNCHANGED <<trading, cmds, caller>>

\* Mutant: the connection's own drop is not told again.
ReconnectCcpKeepsTheDropSaid(en) ==
  HoldWhatWaitsToBePlaced(
    [en EXCEPT !.ccpUp = TRUE, !.told = FALSE, !.replay = FALSE, !.settling = TRUE,
               !.returned = @ \/ en.logoutWritten,
               !.budget.healthy = TRUE, !.sessionOver = "none", !.tradingOver = FALSE], FALSE)

\* reconnect_ccp: the connection is installed, and what waits is held with
\* what the drop left.  (`returned' is a history of it: whether a connection
\* came up after the goodbye was written.)
ReconnectCcp(en) ==
  HoldWhatWaitsToBePlaced(
    [en EXCEPT !.ccpUp = TRUE, !.told = FALSE, !.replay = FALSE, !.settling = TRUE,
               !.returned = @ \/ en.logoutWritten,
               !.dropSaid = FALSE, !.budget.healthy = TRUE,
               !.sessionOver = "none", !.tradingOver = FALSE], FALSE)

\* Mutant: what lands is installed whatever ended recovery.
PolledCcpWhateverTheHalt(en) ==
  IF trading.phase = "done" /\ trading.result = "session"
    THEN ReconnectCcp(SayWhatTheAttemptLetGo(en, trading.gone)) ELSE en

\* poll_ccp_reconnect.  What lands after a halt is told goodbye and dropped.
PolledCcp(en) ==
  LET said == SayWhatTheAttemptLetGo(en, trading.gone)
  IN  CASE trading.phase # "done" -> en
        [] trading.phase = "done" /\ trading.result = "session" ->
             IF en.halted # "none" THEN TellTheLateSession(en) ELSE ReconnectCcp(said)
        [] trading.phase = "done" /\ trading.result = "error" -> said
        [] trading.phase = "done" /\ trading.result = "refused" -> HaltRecovery(said, "Refused")
        [] trading.phase = "done" /\ trading.result = "cancelled" -> HaltRecovery(said, "ByDesign")
        [] OTHER -> en

\* say_what_the_trading_connection_did.  A return is said once the venue has
\* named what is working, and the farms are up or have been awaited.
SaidOfTheConnection(en) ==
  LET restored == SetConnectionRestored([en EXCEPT !.lossAnnounced = FALSE])
  IN  CASE ~en.ccpUp -> {TheTradingConnectionWent(en)}
        [] en.ccpUp /\ (~en.lossAnnounced \/ ~en.replay) -> {en}
        [] OTHER -> {restored} \cup (IF en.farmUp THEN {} ELSE {en})

RecoverTrading ==
  /\ At("trading")
  /\ \E en \in SaidOfTheConnection(PolledCcp(e)) : e' = [en EXCEPT !.pc = "spawn"]
  /\ trading' = IF trading.phase = "done" THEN NoWorker ELSE trading
  /\ UNCHANGED <<farm, cmds, caller>>

\* Mutant: one attempt more than the caller allowed.
MayRetryOnceMore(b) == e.policy = "Auto" /\ b.attempts <= MaxAttempts /\ ~b.late

\* RecoveryBudget: what the caller allowed, and what is given back once the
\* connection it bounds has held for the stable window.
MayRetry(b) == e.policy = "Auto" /\ b.attempts < MaxAttempts /\ ~b.late
IsSpent(b) == b.attempts >= MaxAttempts \/ b.late
RecordAttempt(b) == [b EXCEPT !.attempts = @ + 1, !.healthy = FALSE]

Settled(b, whole) ==
  CASE ~whole -> {[b EXCEPT !.healthy = FALSE]}
    [] whole /\ b.healthy -> {b, [b EXCEPT !.attempts = 0, !.late = FALSE]}
    [] OTHER -> {b}

\* maybe_spawn_farm_reconnect: an attempt that is due may start; a spent
\* budget ends the feed.
FarmWants(en) == ~en.farmUp /\ ~en.farmPending /\ en.halted = "none" /\ ~en.farmHalted

FarmScheduled(en) ==
  CASE FarmWants(en) /\ MayRetry(en.farmBudget) ->
         {en, [en EXCEPT !.farmPending = TRUE, !.farmBudget = RecordAttempt(@)]}
    [] FarmWants(en) /\ ~MayRetry(en.farmBudget) /\ IsSpent(en.farmBudget) -> {FarmIsOver(en)}
    [] OTHER -> {en}

\* maybe_spawn_ccp_reconnect: a spent budget ends the session.
CcpWants(en) == ~en.ccpUp /\ trading.phase = "none" /\ en.halted = "none"

CcpScheduled(en) ==
  CASE CcpWants(en) /\ MayRetry(en.budget) -> {en, [en EXCEPT !.budget = RecordAttempt(@)]}
    [] CcpWants(en) /\ ~MayRetry(en.budget) /\ IsSpent(en.budget) ->
         {HaltRecovery(en, "RecoveryExhausted")}
    [] OTHER -> {en}

EndLap(en) ==
  [EndTheTradingConnection(en) EXCEPT !.pc = IF en.running THEN "sockets" ELSE "finish"]

Spawn ==
  /\ At("spawn")
  /\ \E b \in Settled(e.budget, e.ccpUp), fb \in Settled(e.farmBudget, e.farmUp) :
       LET settled == [e EXCEPT !.budget = b, !.farmBudget = fb]
           timely == AbandonRecoveryPastItsDeadline(settled)
       IN  IF e.running /\ e.finishing = "none"
             THEN \E fs \in FarmScheduled(timely) : \E cs \in CcpScheduled(fs) :
                    /\ e' = EndLap(cs)
                    /\ farm' = IF fs.farmPending /\ ~timely.farmPending THEN "dialling" ELSE farm
                    /\ trading' = IF cs.budget.attempts > fs.budget.attempts
                                    THEN [NoWorker EXCEPT !.phase = "dialling"] ELSE trading
             ELSE e' = EndLap(settled) /\ UNCHANGED <<trading, farm>>
  /\ UNCHANGED <<cmds, caller>>

\* The clock of a recovery in progress passes what the caller allowed.  A lap
\* reads it in two places, and it passes before the one that finds it so.
RunOutOfTime ==
  /\ Timed /\ (At("farm") \/ At("spawn"))
  /\ \/ e.budget.attempts > 0 /\ ~e.budget.late /\ e' = [e EXCEPT !.budget.late = TRUE]
     \/ e.farmBudget.attempts > 0 /\ ~e.farmBudget.late /\ e' = [e EXCEPT !.farmBudget.late = TRUE]
  /\ UNCHANGED <<trading, farm, cmds, caller>>

-----------------------------------------------------------------------------
(* The recovery workers. *)

\* reconnect_ccp_attempt reads the flag for the last time before it writes the
\* logon; from there the attempt is let finish.
WriteLogon ==
  /\ trading.phase = "dialling" /\ ~e.cancel
  /\ trading' = [trading EXCEPT !.phase = "written"]
  /\ UNCHANGED <<e, farm, cmds, caller>>

LandTrading ==
  /\ trading.phase = "written"
  /\ \E gone \in BOOLEAN :
       trading' = [phase |-> "done", result |-> "session", gone |-> gone]
  /\ e' = [e EXCEPT !.open = @ + 1]
  /\ UNCHANGED <<farm, cmds, caller>>

\* A failure after the attempt was taken back is reported as the stop it is.
AttemptFailure(cancel) ==
  IF cancel THEN {[phase |-> "done", result |-> "cancelled", gone |-> FALSE]}
  ELSE {[phase |-> "done", result |-> r, gone |-> g] : r \in {"error", "refused"}, g \in BOOLEAN}

FailTrading ==
  /\ trading.phase \in {"dialling", "written"}
  /\ trading' \in AttemptFailure(e.cancel)
  /\ UNCHANGED <<e, farm, cmds, caller>>

\* A worker that ends without an answer.
LoseTradingWorker ==
  /\ trading.phase \in {"dialling", "written"}
  /\ trading' = [phase |-> "done", result |-> "died", gone |-> FALSE]
  /\ UNCHANGED <<e, farm, cmds, caller>>

AnswerFarm ==
  /\ farm = "dialling"
  /\ farm' \in {"session", "died"} \cup (IF e.cancel THEN {"cancelled"} ELSE {"error", "refused"})
  /\ UNCHANGED <<e, trading, cmds, caller>>

-----------------------------------------------------------------------------
(* The engine's end. *)

\* finish_admitted_commands: nothing more is admitted, and what is in the
\* channel is refused.
FinishAdmittedCommands ==
  /\ At("finish")
  /\ LET drained == Become(e, In(e, "queued"), "refused")
         refused == RefuseWhatIsLeft(drained)
     IN  e' = [refused EXCEPT !.pc = "takeBack", !.admissionClosed = TRUE,
                              !.taken = @ + Len(cmds), !.finished = e.taken + Len(cmds)]
  /\ cmds' = <<>>
  /\ UNCHANGED <<trading, farm, caller>>

\* take_back_the_recovery_still_in_flight: the flag is raised, every worker
\* waited out, and a session that landed told goodbye.
RaiseCancel ==
  /\ At("takeBack")
  /\ e' = [CancelRecovery(e) EXCEPT !.pc = "join", !.admissionClosed = TRUE]
  /\ UNCHANGED <<trading, farm, cmds, caller>>

LandedTooLate == trading.phase = "done" /\ trading.result = "session"

\* Mutant: the session that landed is dropped in silence.
TakeBackInSilence(en) == en

TakeBack(en) ==
  IF LandedTooLate THEN [TellTheLateSession(en) EXCEPT !.logoutSent = TRUE] ELSE en

\* Mutant: the workers are not waited for.
WorkersNeedNotEnd == TRUE

WorkersHaveEnded == trading.phase \in {"none", "done"} /\ farm # "dialling"

JoinWorkers ==
  /\ At("join") /\ WorkersHaveEnded
  /\ e' = [TakeBack(e) EXCEPT !.pc = "close", !.farmPending = FALSE]
  /\ trading' = IF trading.phase = "done" THEN NoWorker ELSE trading
  /\ farm' = IF farm = "dialling" THEN farm ELSE "none"
  /\ UNCHANGED <<cmds, caller>>

\* push_closed, the session's last record.
PushClosed ==
  /\ At("close")
  /\ LET over == IF e.panicked THEN SetSessionOver(e, "EngineStopped") ELSE e
     IN  e' = [over EXCEPT !.pc = "ended", !.finished = e.admitted, !.admissionClosed = TRUE,
                           !.closed = TRUE, !.linkUp = FALSE, !.notices = Append(@, "closed")]
  /\ UNCHANGED <<trading, farm, cmds, caller>>

\* run_with_panic_recovery: a lap that panics goes straight to the take-back.
Panic ==
  /\ MayPanic /\ e.pc \in {"sockets", "take", "farm", "trading", "spawn", "finish"}
  /\ e' = [e EXCEPT !.pc = "takeBack", !.panicked = TRUE]
  /\ UNCHANGED <<trading, farm, cmds, caller>>

-----------------------------------------------------------------------------
Lap ==
  \/ ReadSockets
  \/ TakeCommand
  \/ EndTake
  \/ RecoverFarm
  \/ RecoverTrading
  \/ Spawn
  \/ FinishAdmittedCommands
  \/ RaiseCancel
  \/ JoinWorkers
  \/ PushClosed

Workers ==
  \/ WriteLogon
  \/ LandTrading
  \/ FailTrading
  \/ LoseTradingWorker
  \/ AnswerFarm

Caller ==
  \/ \E o \in Orders : Admit(o)
  \/ AdmitForceDisconnect
  \/ CloseAdmission
  \/ AdmitLogout
  \/ AdmitShutdown
  \/ DropSenders

Venue ==
  \/ LoseTrading
  \/ LoseFarm
  \/ \E asks \in BOOLEAN : EndNaming(asks)
  \/ EndQuestion
  \/ EndSettling
  \/ \E o \in Orders : AnswerNaming(o)

Next ==
  /\ Lap \/ Workers \/ Caller \/ Venue \/ RunOutOfTime \/ Panic
  /\ UNCHANGED sc

Spec == Init /\ [][Next]_vars

\* The waits the venue or a clock of the engine's ends: what an order waits on
\* with a connection up, and the settling of a reconnect.  Each can happen
\* finitely often, so fairness of the whole is fairness of each.
BoundedWait == EndSettling \/ \E o \in Orders : AnswerNaming(o)

\* Where the engine's thread has a step to take: always, but for the wait on
\* its workers and once it has ended.
LapIsReady == ~At("ended") /\ (At("join") => WorkersHaveEnded)

\* The thread makes its laps: WF_vars(Lap), with ENABLED Lap written out.
FairLap == []<>(~LapIsReady) \/ []<><<Lap>>_vars

\* The thread makes its laps; each phase of a worker's handshake is bounded; a
\* caller that began to stop sends both commands; and a bounded wait ends.
FairSpec ==
  /\ Spec
  /\ FairLap
  /\ WF_vars(Workers /\ UNCHANGED sc)
  /\ WF_vars((AdmitLogout \/ AdmitShutdown) /\ UNCHANGED sc)
  /\ SF_vars(BoundedWait /\ UNCHANGED sc)

-----------------------------------------------------------------------------
(* Properties. *)

Budgets == [attempts : 0..MaxAttempts, late : BOOLEAN, healthy : BOOLEAN]

\* The engine's record keeps its shape: each budget within the attempts the
\* caller allowed, and no more sessions open at the venue than the one held
\* and the one an attempt landed.
TypeOK ==
  /\ sc \in Scenarios
  /\ e.pc \in {"sockets", "take", "farm", "trading", "spawn", "finish", "takeBack", "join",
               "close", "ended"}
  /\ {e.running, e.logoutWritten, e.told, e.logoutSent, e.ccpUp, e.farmUp, e.replay, e.over,
      e.settling, e.farmHalted, e.farmPending, e.dropSaid, e.lossAnnounced, e.cancel,
      e.admissionClosed, e.closed, e.panicked, e.linkUp, e.tradingOver,
      e.returned} \subseteq BOOLEAN
  /\ e.finishing \in {"none", "phase", "stopping"} /\ e.policy \in Policies
  /\ {e.halted, e.sessionOver} \subseteq {"none"} \cup Reasons
  /\ {e.budget, e.farmBudget} \subseteq Budgets
  /\ e.status \in [Orders -> Statuses]
  /\ e.answered \subseteq Orders /\ e.sentOnce \subseteq Placements
  /\ e.left \in 0..LapLimit /\ e.open \in 0..2
  /\ {e.taken, e.finished, e.admitted, e.drops, e.farmDrops, e.forced, e.gone} \subseteq Nat
  /\ e.notices \in Seq(Notices)
  /\ trading \in [phase : {"none", "dialling", "written", "done"},
                  result : {"none", "session", "error", "refused", "cancelled", "died"},
                  gone : BOOLEAN]
  /\ farm \in {"none", "dialling", "session", "error", "refused", "cancelled", "died"}
  /\ cmds \in Seq(Commands)
  /\ caller \in {"up", "stopping", "loggingOut", "stopped", "gone"}

\* Every order admitted is sent or refused before the session's last record,
\* whatever ended the session short of a panic.
AdmittedOrdersAreSettled ==
  e.closed /\ ~e.panicked => \A o \in Orders : e.status[o] \notin Open

\* The two commands of a stop are admitted together, and a lap has room for
\* every command there can be: one lap takes both.
OneLapStop == ~SplitStop /\ Cardinality(Orders) + MaxForced + 2 <= LapLimit

\* A session that ends by itself or by a stop leaves none open at the venue: the
\* one it holds and the one a late attempt lands are told goodbye.  The one
\* exception is a connection that came up after the goodbye was written, which
\* is told none; and it takes a stop whose two commands fall on two laps.
NoSessionLeftOpen ==
  ~e.panicked =>
    /\ e.closed => e.open = 0 \/ (e.open = 1 /\ e.returned)
    /\ OneLapStop => ~e.returned

\* No recovery outlives the session's last record, and nothing is said after.
NothingOutlivesTheSession ==
  /\ e.closed => trading.phase = "none" /\ farm = "none"
  /\ \A i \in 1..Len(e.notices) : e.notices[i] = "closed" => i = Len(e.notices)

\* What a session that is over leaves behind: no session at the venue but one
\* that came up after its goodbye, no thread of its own and nothing said.
NothingIsLeftBehind == NoSessionLeftOpen /\ NothingOutlivesTheSession

\* A loss is said for a trading connection that went or a socket an attempt
\* let go, and once for each, whichever of the lap's paths finds it first.
LossesAreReal ==
  Cardinality({i \in 1..Len(e.notices) : e.notices[i] = "lost"}) <= e.drops + e.forced + e.gone

\* By the end of a lap that recovers, the surfaces read the link as up only
\* where the trading connection is, and as down exactly while a loss has been
\* told whose return has not.
LinkUpIsHonest ==
  At("spawn") /\ e.running /\ e.finishing = "none" =>
    /\ e.linkUp => e.ccpUp
    /\ e.lossAnnounced <=> ~e.linkUp

\* A command counted as finished is settled: one in the channel or held by the
\* loop is in the backlog.  A placement the recovery holds built is counted as
\* finished: CommandsHeld leaves it out.
InTheBacklog == {o \in Orders : e.status[o] \in Open \ {"heldBuilt"}}

BacklogIsHonest == ~e.panicked => e.finished + Cardinality(InTheBacklog) <= e.admitted

\* What the session says of itself is true: of its losses, of its link and of
\* the commands it has finished.
WhatIsSaidIsTrue == LossesAreReal /\ LinkUpIsHonest /\ BacklogIsHonest

\* No order is sent on a connection whose goodbye has been written, whatever
\* drops and recoveries it went through, but a placement the recovery still
\* held built: the finishing phase does not wait for it, and the venue's answer
\* lets it go.
OrdersPrecedeTheGoodbye ==
  [][\A o \in Orders :
       e.status[o] # "sent" /\ e'.status[o] = "sent" /\ e'.told => e.status[o] = "heldBuilt"]_vars

\* Once recovery is halted or the loop has stopped, nothing is dialled and
\* nothing that lands is installed.
NothingIsInstalledAfterTheEnd ==
  [][e.halted # "none" \/ ~e.running =>
       /\ e'.ccpUp => e.ccpUp
       /\ e'.farmUp => e.farmUp
       /\ trading'.phase = "dialling" => trading.phase = "dialling"]_vars

Stopped == caller \in {"stopped", "gone"}

\* A stop ends the session: its last record follows.
StopEndsTheSession == Stopped ~> e.closed

\* A placement held across a drop is let go only as the venue ends its
\* naming, and the recovery's own bound does not end that wait.
PlacementWaitsOnTheVenue ==
  \/ ~e.ccpUp /\ In(e, "waiting") \cap Placements # {}
  \/ In(e, "held") # {} /\ ~e.over

\* A stop ends the session unless a placement waits with the trading
\* connection down, or is held by a recovery the venue does not end; nothing
\* else can hold the finishing phase.
OnlyAPlacementHoldsTheStop == Stopped ~> (e.closed \/ PlacementWaitsOnTheVenue)
=============================================================================
