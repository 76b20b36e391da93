--------------------------- MODULE SessionRecords ---------------------------
(***************************************************************************)
(* The one order of a session: src/bridge/record.rs and the reads of       *)
(* src/api/client/dispatch.rs and ask.rs.                                  *)
(*                                                                         *)
(* Threads push records into a queue per kind.  Each record takes a stamp  *)
(* from one counter inside the lock of its queue.  A read holds the        *)
(* session's turn, polls the conflated state, reads the counter once (the  *)
(* cut), takes from one queue after another what is stamped below the cut, *)
(* delivers it in stamp order and then delivers the state.                 *)
(*                                                                         *)
(* A record is told apart by its stamp, its queue and the number it is     *)
(* under: no number, a number the program chose, or the number of a        *)
(* question (a call that answers).  Questions are 1, 2, ...; the numbers   *)
(* of the real band never come back, so a question's is never reused.      *)
(***************************************************************************)
EXTENDS InOrder, SequencesExt

CONSTANTS
  QueueOrder,  \* the queues a read drains, in its order
  MaxRecords,  \* bound on the stamps taken and the writes of conflated state
  MaxAsks      \* bound on the questions asked

ASSUME MaxRecordsAssumption == MaxRecords \in Nat
ASSUME MaxAsksAssumption == MaxAsks \in Nat

NoOwner == -1
Program == 0
Asks == 1 .. MaxAsks
Owners == {NoOwner, Program} \cup Asks

(***************************************************************************)
(* The queues, one for each way take_records treats a record: the          *)
(* session's own, what a call pushed, what is under an order's number,     *)
(* what an order's number is told that a call asking for a preview of one  *)
(* waits for, what refuses a request and what answers one.                 *)
(***************************************************************************)
AllQueues == {"session", "calls", "orders", "previews", "errors", "answers"}
ASSUME QueueOrderAssumption ==
  /\ QueueOrder \in Seq(AllQueues)
  /\ {"session", "calls"} \subseteq ToSet(QueueOrder)
Queues == ToSet(QueueOrder)

(* The hot loop, and a thread of the caller's. *)
Pushers == {"engine", "caller"}

(* How questions read: through a whole read that also feeds the record a   *)
(* session keeps, through a read of their own numbers only, or (the Python *)
(* surface) by number out of the queues without the turn.                  *)
Surfaces == {"kept", "bare", "python"}

VARIABLES
  surface,  \* which of the three this client is
  next,     \* Stamps: the next stamp
  queue,    \* Queue::items, by queue
  holder,   \* who holds the lock of each queue between stamp and push
  pushing,  \* the record each pusher has stamped and not yet pushed
  state,    \* conflated state: its version, and the engine's stamp then
  engineAt, \* the stamp after the engine's last record
  closed,   \* SharedState::closed
  turn,     \* EClient::asking: who holds the turn
  asked,    \* how many questions have been asked
  held,     \* ReferenceState::ours_in_flight: the questions' numbers held
  pc,       \* the read in progress: where it is
  take,     \* which records it takes
  at,       \* which queue it drains next
  cut,      \* its cut
  out,      \* what it has taken
  polled,   \* the state it polled
  told,     \* the state last delivered
  ended,    \* EClient::ended
  log,      \* what the program was delivered, in order
  answers   \* what the questions were delivered

pushVars == <<next, queue, holder, pushing, state, engineAt, closed>>
readVars == <<turn, pc, take, at, cut, out, polled, told, ended, log>>
askVars == <<asked, held, answers>>
vars == <<surface, pushVars, readVars, askVars>>

Nothing == [seq |-> -1, q |-> "session", owner |-> NoOwner, close |-> FALSE]
NoState == [version |-> 0, after |-> 0]

Init ==
  /\ surface \in Surfaces
  /\ next = 0
  /\ queue = [q \in Queues |-> <<>>]
  /\ holder = [q \in Queues |-> "free"]
  /\ pushing = [p \in Pushers |-> Nothing]
  /\ state = NoState
  /\ engineAt = 0
  /\ closed = FALSE
  /\ turn = "free"
  /\ asked = 0
  /\ held = {}
  /\ pc = "idle"
  /\ take = "dispatch"
  /\ at = 1
  /\ cut = 0
  /\ out = {}
  /\ polled = NoState
  /\ told = NoState
  /\ ended = FALSE
  /\ log = <<>>
  /\ answers = {}

-----------------------------------------------------------------------------
(***************************************************************************)
(* Pushing.                                                                *)
(***************************************************************************)

(* Queue::push waits for the queue's lock. *)
LockQueue(p, q) ==
  /\ pushing[p] = Nothing
  /\ holder[q] = "free"
  /\ holder' = [holder EXCEPT ![q] = p]

(* Queue::push up to Stamps::take: from here the counter is past the       *)
(* record, and the record is in no queue yet.                              *)
Stamp(p, q, o, close) ==
  /\ next + state.version < MaxRecords
  /\ LockQueue(p, q)
  /\ pushing' = [pushing EXCEPT ![p] =
                   [seq |-> next, q |-> q, owner |-> o, close |-> close]]
  /\ next' = next + 1

(* What may be under which number: an answer or a refusal of the venue's   *)
(* is the program's or that of a question asked, answered late or not.     *)
MayOwn(q) ==
  CASE q = "session" -> {NoOwner}
    [] q \in {"calls", "orders"} -> {Program}
    [] OTHER -> {Program} \cup (1 .. asked)

(* The engine pushes a record of the session's, an order's or a request's. *)
EnginePush(q, o) ==
  /\ ~closed
  /\ q # "calls"
  /\ o \in MayOwn(q)
  /\ Stamp("engine", q, o, FALSE)
  /\ UNCHANGED <<surface, queue, state, engineAt, closed, readVars, askVars>>

(* push_closed: the engine's last record, once. *)
PushClosed ==
  /\ ~closed
  /\ Stamp("engine", "session", NoOwner, TRUE)
  /\ closed' = TRUE
  /\ UNCHANGED <<surface, queue, state, engineAt, readVars, askVars>>

(* push_refused, push_call_record: a record made at a call, on the thread  *)
(* that made the call.                                                     *)
PushCallRecord ==
  /\ Stamp("caller", "calls", Program, FALSE)
  /\ UNCHANGED <<surface, queue, state, engineAt, closed, readVars, askVars>>

(* The rest of Queue::push: the record goes to the tail, the lock is let go. *)
Push(p) ==
  LET r == pushing[p] IN
  /\ r # Nothing
  /\ queue' = [queue EXCEPT ![r.q] = Append(@, r)]
  /\ holder' = [holder EXCEPT ![r.q] = "free"]
  /\ pushing' = [pushing EXCEPT ![p] = Nothing]
  /\ engineAt' = IF p = "engine" THEN r.seq + 1 ELSE engineAt
  /\ UNCHANGED <<surface, next, state, closed, readVars, askVars>>

(* The engine writes a quote, a holding or a figure: one value, overwritten. *)
WriteState ==
  /\ ~closed
  /\ pushing["engine"] = Nothing
  /\ next + state.version < MaxRecords
  /\ state' = [version |-> state.version + 1, after |-> engineAt]
  /\ UNCHANGED <<surface, next, queue, holder, pushing, engineAt, closed,
                 readVars, askVars>>

-----------------------------------------------------------------------------
(***************************************************************************)
(* What a read does with a record, by queue.  "mine" is the number of the  *)
(* question that reads, for a read of its own numbers.                     *)
(***************************************************************************)
HeldAny(o) == o \in held
Abandoned(o) == o \in Asks /\ ~HeldAny(o)

(* leave, for a record under a number.  A whole read takes a question's    *)
(* answer in its place: only a reader outside the band is left its records, *)
(* and the Rust and Python surfaces hold none.                             *)
Leave(answer, o) ==
  CASE take = "dispatch" -> answer /\ HeldAny(o)
    [] take = "whole"    -> FALSE
    [] take = "own"      -> o # asked

(* Mutant: what no question holds any longer is given to the program. *)
KeptBackNeverDrops(answer, o) ==
  IF Leave(answer, o) THEN "leave" ELSE "take"

(* Mutant: what no question holds is nobody's, the program's own included. *)
KeptBackDropsTheRest(answer, o) ==
  CASE o # NoOwner /\ ~HeldAny(o) -> "drop"
    [] Leave(answer, o)          -> "leave"
    [] OTHER                     -> "take"

(* kept_back: what answers a question given up on is nobody's. *)
KeptBack(answer, o) ==
  CASE Abandoned(o)      -> "drop"
    [] Leave(answer, o)  -> "leave"
    [] OTHER             -> "take"

SessionFate(o) == KeptBack(FALSE, o)

(* The refusals made at a call are never dropped. *)
CallFate(o) ==
  IF (take = "dispatch" /\ HeldAny(o)) \/ (take = "own" /\ o # asked)
    THEN "leave" ELSE "take"

(* What is read by no call under an order's number.                        *)
OrderFate(o) == KeptBack(FALSE, o)

(* An order's notice, its end before it stood, and a preview's answer:     *)
(* kept for the call that holds the number.  Only what is under a          *)
(* request's number is abandoned, so what a preview given up on was owed   *)
(* is read as an order's.                                                  *)
PreviewFate(o) == IF Leave(TRUE, o) THEN "leave" ELSE "take"

(* error_kept_back: the refusals of every kind of request share a queue. *)
ErrorFate(o) ==
  CASE Abandoned(o) -> "drop"
    [] take = "dispatch" /\ HeldAny(o) -> "leave"
    [] take = "own" /\ o # asked -> "leave"
    [] OTHER -> "take"

AnswerFate(o) == KeptBack(TRUE, o)

FateOf(r) ==
  CASE r.q = "session" -> SessionFate(r.owner)
    [] r.q = "calls"   -> CallFate(r.owner)
    [] r.q = "orders"  -> OrderFate(r.owner)
    [] r.q = "previews" -> PreviewFate(r.owner)
    [] r.q = "errors"  -> ErrorFate(r.owner)
    [] r.q = "answers" -> AnswerFate(r.owner)

-----------------------------------------------------------------------------
(***************************************************************************)
(* A read.                                                                 *)
(***************************************************************************)

(* read_the_session, step (a): nothing once the session has ended; the     *)
(* state is taken before the cut, and not at all for a question's own.     *)
PollTheState(kind) ==
  /\ pc = "idle"
  /\ ~ended
  /\ take' = kind
  /\ polled' = IF kind = "own" THEN NoState ELSE state
  /\ pc' = "cut"

(* process_msgs: takes the turn and reads. *)
ProcessMsgs ==
  /\ turn = "free"
  /\ PollTheState("dispatch")
  /\ turn' = "program"
  /\ UNCHANGED <<surface, pushVars, at, cut, out, told, ended, log, askVars>>

(* pump_for_ask: one read of the question holding the turn. *)
PumpForAsk ==
  /\ turn = "question"
  /\ PollTheState(IF surface = "kept" THEN "whole" ELSE "own")
  /\ UNCHANGED <<surface, pushVars, turn, at, cut, out, told, ended, log, askVars>>

(* Step (b): next_seq. *)
TakeCut ==
  /\ pc = "cut"
  /\ cut' = next
  /\ pc' = "drain"
  /\ UNCHANGED <<surface, pushVars, turn, take, at, out, polled, told, ended, log, askVars>>

(* partition_point: the length of the prefix of a queue below the cut. *)
BelowCut(q) ==
  CHOOSE end \in 0 .. Len(queue[q]) :
    \A i \in DOMAIN queue[q] : i <= end <=> queue[q][i].seq < cut

(* Mutant: off by one at the end of the list of queues. *)
PastTheLastQueue == at > Len(QueueOrder)

(* Whether the queue being drained is the last. *)
LastQueue == at = Len(QueueOrder)

(* What a drain takes of a queue, and the places of what it leaves there:  *)
(* put back in front of what was pushed since the cut.                     *)
Taken(q) == {queue[q][i] : i \in {j \in 1 .. BelowCut(q) : FateOf(queue[q][j]) = "take"}}
Left(q) == {i \in DOMAIN queue[q] : i <= BelowCut(q) => FateOf(queue[q][i]) = "leave"}

(* Step (c): Queue::take_below, one queue under its lock. *)
TakeBelow ==
  LET q == QueueOrder[at]
  IN  /\ pc = "drain"
      /\ holder[q] = "free"
      /\ out' = out \cup Taken(q)
      /\ queue' = [queue EXCEPT ![q] = Only(@, Left(q))]
      /\ IF LastQueue
           THEN pc' = "deliver" /\ UNCHANGED at
           ELSE at' = at + 1 /\ UNCHANGED pc
      /\ UNCHANGED <<surface, next, holder, pushing, state, engineAt, closed,
                     turn, take, cut, polled, told, ended, log, askVars>>

(* The sort: what was taken, by stamp. *)
InStampOrder(S) ==
  CHOOSE f \in [1 .. Cardinality(S) -> S] :
    \A i, j \in DOMAIN f : i < j => f[i].seq < f[j].seq

(* Mutant: the state is polled after the records are taken. *)
PolledLate == state

(* The state a read delivers after its records: the one it polled before   *)
(* its cut.                                                                *)
PolledState == polled

(* Mutant: what the read polled stands for the last state at the close. *)
FinalStateStale == polled

(* At the close the state is taken again: every writer has stopped. *)
FinalState == state

(* Mutant: what a read took is delivered queue by queue. *)
HandOverByQueue(S) ==
  /\ log' = IF take = "own" THEN log
            ELSE log \o FlattenSeq([i \in DOMAIN QueueOrder |->
                                      InStampOrder({r \in S : r.q = QueueOrder[i]})])
  /\ answers' = answers \cup {r \in S : take # "dispatch" /\ r.owner \in held}

(* The record is the program's, the kept record's or the question's. *)
HandOver(S) ==
  /\ log' = IF take = "own" THEN log ELSE log \o InStampOrder(S)
  /\ answers' = answers \cup {r \in S : take # "dispatch" /\ r.owner \in held}

(* Mutant: what is stamped after the close is delivered too. *)
UpToTheCloseAll == out

(* Nothing after the session's last record is delivered. *)
UpToTheClose ==
  {r \in out : \A c \in out : c.close => r.seq <= c.seq}

(* Steps (d) and (e): the records in stamp order, then the state.  The     *)
(* close is a barrier: the state taken again, connection_closed, and the   *)
(* session has ended.  The read's own variables go out of scope with it.   *)
Deliver ==
  /\ pc = "deliver"
  /\ HandOver(UpToTheClose)
  /\ IF \E c \in out : c.close
       THEN told' = FinalState /\ ended' = TRUE
       ELSE /\ told' = IF take = "own" THEN told ELSE PolledState
            /\ UNCHANGED ended
  /\ pc' = "idle"
  /\ turn' = IF turn = "program" THEN "free" ELSE turn
  /\ take' = "dispatch" /\ at' = 1 /\ cut' = 0 /\ out' = {} /\ polled' = NoState
  /\ UNCHANGED <<surface, pushVars, asked, held>>

-----------------------------------------------------------------------------
(***************************************************************************)
(* Questions.                                                              *)
(***************************************************************************)

(* A call that answers takes the turn for as long as it waits and holds    *)
(* its number before its request goes out.  The Python surface's holds no  *)
(* turn.                                                                   *)
Ask ==
  /\ held = {}
  /\ asked < MaxAsks
  /\ ~ended
  /\ surface # "python" => turn = "free"
  /\ turn' = IF surface = "python" THEN turn ELSE "question"
  /\ asked' = asked + 1
  /\ held' = {asked + 1}
  /\ UNCHANGED <<surface, pushVars, pc, take, at, cut, out, polled, told,
                 ended, log, answers>>

(* take_one, take_error_for: the Python surface's wait takes its own first *)
(* record out of a queue.                                                  *)
TakeByNumber(q) ==
  LET mine == {i \in DOMAIN queue[q] : queue[q][i].owner \in held} IN
  /\ surface = "python"
  /\ q \in {"answers", "errors", "previews"}
  /\ holder[q] = "free"
  /\ mine # {}
  /\ LET i == CHOOSE i \in mine : \A j \in mine : i <= j IN
       /\ answers' = answers \cup {queue[q][i]}
       /\ queue' = [queue EXCEPT ![q] = Only(@, (DOMAIN @) \ {i})]
  /\ UNCHANGED <<surface, next, holder, pushing, state, engineAt, closed,
                 readVars, asked, held>>

(* Mutant: the turn outlives the question. *)
StopAskingKeepsTheTurn ==
  /\ held # {}
  /\ turn = "question" => pc = "idle"
  /\ held' = {}
  /\ UNCHANGED <<surface, pushVars, readVars, asked, answers>>

(* The question is answered, refused, or given up on: AskId is dropped, and *)
(* then the turn.                                                          *)
StopAsking ==
  /\ held # {}
  /\ turn = "question" => pc = "idle"
  /\ held' = {}
  /\ turn' = IF turn = "question" THEN "free" ELSE turn
  /\ UNCHANGED <<surface, pushVars, pc, take, at, cut, out, polled, told,
                 ended, log, asked, answers>>

-----------------------------------------------------------------------------
Pushing ==
  \/ \E q \in Queues, o \in Owners : EnginePush(q, o)
  \/ PushClosed
  \/ PushCallRecord
  \/ \E p \in Pushers : Push(p)
  \/ WriteState

Reading == ProcessMsgs \/ PumpForAsk \/ TakeCut \/ TakeBelow \/ Deliver

Asking == Ask \/ StopAsking \/ \E q \in Queues : TakeByNumber(q)

Next == Pushing \/ Reading \/ Asking

Spec == Init /\ [][Next]_vars

(***************************************************************************)
(* A push once stamped is finished (nothing waits inside the lock), the    *)
(* program calls process_msgs in a loop, a read runs to its end, and a     *)
(* question ends (it has a deadline).  The engine owes nothing.            *)
(***************************************************************************)
Fairness ==
  /\ \A p \in Pushers : WF_vars(Push(p))
  /\ WF_vars(ProcessMsgs)
  /\ WF_vars(TakeCut \/ TakeBelow \/ Deliver)
  /\ SF_vars(StopAsking)

FairSpec == Spec /\ Fairness

-----------------------------------------------------------------------------
(***************************************************************************)
(* Properties.                                                             *)
(***************************************************************************)
Rec == [seq : 0 .. MaxRecords - 1, q : Queues, owner : Owners, close : BOOLEAN]
StateType == [version : 0 .. MaxRecords, after : 0 .. MaxRecords]

(* Every variable has its type. *)
TypeOK ==
  /\ surface \in Surfaces
  /\ next \in 0 .. MaxRecords
  /\ queue \in [Queues -> Seq(Rec)]
  /\ holder \in [Queues -> Pushers \cup {"free"}]
  /\ pushing \in [Pushers -> Rec \cup {Nothing}]
  /\ state \in StateType
  /\ engineAt \in 0 .. MaxRecords
  /\ closed \in BOOLEAN
  /\ turn \in {"free", "program", "question"}
  /\ asked \in 0 .. MaxAsks
  /\ held \subseteq Asks
  /\ pc \in {"idle", "cut", "drain", "deliver"}
  /\ take \in {"dispatch", "whole", "own"}
  /\ at \in 1 .. Len(QueueOrder)
  /\ cut \in 0 .. MaxRecords
  /\ out \subseteq Rec
  /\ polled \in StateType
  /\ told \in StateType
  /\ ended \in BOOLEAN
  /\ log \in Seq(Rec)
  /\ answers \subseteq Rec

Logged == ToSet(log)

(* A change to the conflated state that followed a record's push is        *)
(* delivered no earlier than that record.                                  *)
StateAfterItsRecords ==
  \A q \in Queues : \A i \in DOMAIN queue[q] :
    queue[q][i].seq < told.after /\ queue[q][i].q # "calls"
      => queue[q][i].owner \in Asks

(* The state the program is left with at the close is the last the engine  *)
(* wrote, not the one the read polled before the close was pushed.         *)
FinalStateIsTold == ended => told = state

(* The conflated state is told in its turn, beside the records: neither    *)
(* ahead of what explains it nor stale at the end.                         *)
StateIsToldInTurn == StateAfterItsRecords /\ FinalStateIsTold

(* What answers a question never reaches the program's callbacks on a      *)
(* client that keeps no record: held, it waits for its question; given up  *)
(* on, it is nobody's.  The exception is the code's own: a preview is      *)
(* asked under an order's number, and take_records abandons only what is   *)
(* under a request's, so a preview answered after its call gave up is told *)
(* to the program.                                                         *)
AnswersStayPrivate ==
  surface # "kept" => \A r \in Logged : r.q # "previews" => r.owner \notin Asks

(* The program's records, told apart by their stamp. *)
Entries == [seq : 0 .. MaxRecords - 1, close : BOOLEAN]
EntryOf(r) == [seq |-> r.seq, close |-> r.close]
ProgramsOf(records) ==
  LET mine == Only(records, {i \in DOMAIN records : records[i].owner \notin Asks})
  IN  [k \in DOMAIN mine |-> EntryOf(mine[k])]

(* Stamped and not yet handed to anybody, wherever it is: not yet in its   *)
(* queue, in a queue, or taken by the read in progress.                    *)
Queued == UNION {ToSet(queue[q]) : q \in Queues}
InHand == {pushing[p] : p \in Pushers} \ {Nothing}
Outstanding == Queued \cup out \cup InHand

(* What the reads still owe the program, in the order of the stamps. *)
Owed ==
  IF ended THEN <<>>
  ELSE InStampOrder({EntryOf(r) : r \in {s \in Outstanding : s.owner \notin Asks}})

OneQueue ==
  INSTANCE Delivery WITH Records <- Entries, owed <- Owed, log <- ProgramsOf(log), over <- ended

(* The queues by kind, the cut and the turn are, to the program, one queue *)
(* read from its head: no read passes over a record stamped before one it  *)
(* delivers, none is lost to a question's read, and nothing follows the    *)
(* close.                                                                  *)
ReadsAsOneQueue == OneQueue!DSpec

(* Every record that is the program's is delivered in the end, unless the  *)
(* session ended first: a question that holds the turn, a record left for  *)
(* it and a push caught halfway all only delay it.                         *)
EverythingIsDelivered ==
  \A s \in 0 .. MaxRecords - 1 :
    (\E q \in Queues : \E i \in DOMAIN queue[q] :
       queue[q][i].seq = s /\ queue[q][i].owner \notin Asks)
    ~> (ended \/ \E r \in Logged : r.seq = s)
=============================================================================
