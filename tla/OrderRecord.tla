---------------------------- MODULE OrderRecord ----------------------------
(***************************************************************************)
(* The record this session keeps of an order it placed, from the placement *)
(* to the report that ends it: src/engine/context/mod.rs,                  *)
(* src/engine/hot_loop/order_builder, src/engine/hot_loop/ccp and          *)
(* src/bridge/orders.rs.                                                   *)
(*                                                                         *)
(* The order is changed and withdrawn while the venue fills it, each       *)
(* request under a name of its own, and the record takes what was asked    *)
(* ahead of the answer.  A connection that drops loses the answers on the  *)
(* way; the next one names what is working, restates executions, and, when *)
(* the drop left something unanswered, is asked what has finished.         *)
(*                                                                         *)
(* One order number is modelled.  The venue is external.  Its name for the *)
(* order is Ours; an order that had the number before it is Earlier, whose *)
(* reports the venue restates too.                                         *)
(***************************************************************************)
EXTENDS Integers, Sequences, FiniteSets, SequencesExt

CONSTANTS
  Size,       \* the lots the order is for, filled one at a time
  Scenarios   \* what the caller and the venue may do, and how often

ASSUME SizeAssumption == Size \in Nat \ {0}
ASSUME ScenariosAssumption ==
  \A sc \in Scenarios :
    /\ {sc.changes, sc.cancels, sc.fills, sc.busts, sc.echoes, sc.repeats, sc.drops, sc.failures, sc.ends} \subseteq Nat
    /\ {sc.overlaps, sc.earlier, sc.late, sc.replays} \subseteq BOOLEAN

VARIABLES
  load,   \* the scenario of this behaviour
  b,      \* what this session keeps of the order
  venue,  \* the venue's own state of it
  out,    \* written to the venue and not yet taken by it
  in,     \* written by the venue and not yet read
  spent   \* how often each bounded thing has happened

vars == <<load, b, venue, out, in, spent>>

NoName == 0
Earlier == 1
Ours == 2

NoOrder == [status |-> "None", terms |-> 0, filled |-> 0]
Nothing == -1

\* OrderStatus::rank.
Rank ==
  [Uncertain |-> 0, PendingSubmit |-> 1, PreSubmitted |-> 2, Submitted |-> 3, PendingReplace |-> 3,
   Inactive |-> 3, PendingCancel |-> 4, PartiallyFilled |-> 4, Filled |-> 5, Cancelled |-> 5, Rejected |-> 5]
Terminal == {"Filled", "Cancelled", "Rejected"}

Init ==
  /\ load \in Scenarios
  /\ b = [up |-> TRUE, broken |-> FALSE,
          held |-> NoOrder,      \* open_orders
          ver |-> 0,             \* modify_versions
          name |-> Nothing,      \* last_clord: the revision it names
          names |-> {},          \* venue_orders
          placed |-> Nothing,    \* placed_at: what the venue had counted to
          count |-> 0,           \* venue_counts
          attempts |-> Nothing,  \* cancel_attempts
          before |-> "None",     \* before_the_cancel
          pre |-> {},            \* pre_replace
          keys |-> {},           \* seen_exec_ids
          done |-> NoName,       \* completed: the venue's name of what finished
          finished |-> FALSE,    \* numbers.finished
          position |-> 0,
          pending |-> <<>>,      \* pending_orders
          unanswered |-> FALSE, cancelling |-> FALSE, until |-> FALSE, here |-> FALSE,
          question |-> "None", open |-> FALSE,  \* completed_orders_open
          named |-> TRUE,        \* the replay is done
          sweep |-> FALSE]       \* recovery_sweep_at
  /\ venue = [state |-> "none", rev |-> 0, cum |-> 0, execs |-> <<>>, busted |-> 0, keys |-> 0, naming |-> FALSE,
              refused |-> FALSE, reopened |-> FALSE]  \* a cancel; a filled order, by a correction
  /\ out = <<>> /\ in = <<>>
  /\ spent = [placed |-> 0, changes |-> 0, cancels |-> 0, fills |-> 0, busts |-> 0, echoes |-> 0,
              repeats |-> 0, drops |-> 0, failures |-> 0, ends |-> 0, gaveUp |-> 0, blind |-> FALSE, hasty |-> FALSE]

Spend(what) == spent[what] < load[what] /\ spent' = [spent EXCEPT ![what] = @ + 1]

-----------------------------------------------------------------------------
(* The book: src/engine/context/mod.rs. *)

Held(k) == k.held.status # "None"

ReplaceIsOutstanding(k) == k.pre # {}

\* Whether update_order_status takes a status.
Takes(k, status, replayed) ==
  LET prev == k.held.status
      resumesWorking == ~replayed /\ prev = "PendingCancel" /\ status \in {"PreSubmitted", "Submitted"}
      cancelStillOwed == prev = "PendingCancel" /\ status = "Rejected" /\ ReplaceIsOutstanding(k)
      replayLeavesTheCancel == replayed /\ prev = "PendingCancel" /\ status \notin Terminal
  IN  /\ Held(k)
      /\ \/ resumesWorking
         \/ /\ ~replayLeavesTheCancel /\ ~cancelStillOwed /\ prev \notin Terminal
            /\ Rank[status] >= Rank[prev]

SetOrderStatusForced(k, status) == IF Held(k) THEN [k EXCEPT !.held.status = status] ELSE k

UpdateOrderStatus(k, status, replayed) ==
  IF Takes(k, status, replayed) THEN [k EXCEPT !.held.status = status] ELSE k

\* What a refused change would put back is left behind.
RetireKeepsThePrior(k) ==
  [k EXCEPT !.held = NoOrder, !.ver = 0, !.name = Nothing, !.names = {}, !.placed = Nothing,
            !.attempts = Nothing, !.before = "None"]

RetireOrder(k) ==
  [k EXCEPT !.held = NoOrder, !.ver = 0, !.name = Nothing, !.names = {}, !.placed = Nothing,
            !.attempts = Nothing, !.before = "None", !.pre = {}]

ReconcileRecoveredRevision(k, revision) ==
  [k EXCEPT !.ver = IF revision > @ THEN revision ELSE @, !.pre = {}]

\* The terms are put back and the name is not.
RestoreKeepsTheName(k, revision) ==
  IF ~\E p \in k.pre : p.rev = revision THEN k
  ELSE LET prior == CHOOSE p \in k.pre : p.rev = revision
       IN  [k EXCEPT !.pre = {p \in @ : p.rev < revision}, !.held = [prior.order EXCEPT !.filled = k.held.filled]]

RestorePreReplace(k, revision) ==
  IF ~\E p \in k.pre : p.rev = revision THEN k
  ELSE LET prior == CHOOSE p \in k.pre : p.rev = revision
           now == k.held.status
           filled == IF Held(k) THEN k.held.filled ELSE prior.order.filled
           kept == IF Held(k) /\ now # "PendingReplace" /\ Rank[now] > Rank[prior.order.status]
                   THEN now ELSE prior.order.status
           status == IF filled > 0 /\ Rank[kept] < Rank["PartiallyFilled"] THEN "PartiallyFilled" ELSE kept
       IN  [k EXCEPT !.pre = {p \in @ : p.rev < revision},
                     !.held = [status |-> status, terms |-> prior.order.terms, filled |-> filled],
                     !.name = prior.name]

\* The order reads as it did.
MarkNothing(k) == k

MarkOrdersUncertain(k) ==
  IF Held(k) /\ k.held.status \notin Terminal THEN [k EXCEPT !.held.status = "Uncertain"] ELSE k

UnansweredOrders(k) ==
  k.held.status = "PendingSubmit" \/ (k.held.status = "Uncertain" /\ k.names = {})
\* Only placements are kept.
UnansweredCancelsNone(k) == FALSE

UnansweredCancels(k) == k.held.status = "PendingCancel"

\* The revision a request names the order by.
OrigName(k) == IF k.name = Nothing THEN k.ver ELSE k.name

-----------------------------------------------------------------------------
(* Requests: the caller's, taken by the intake, and what the order buffer    *)
(* writes of them.                                                           *)

\* The caller's order, once.
Place ==
  /\ b.up /\ spent.placed = 0
  /\ spent' = [spent EXCEPT !.placed = 1]
  /\ b' = [b EXCEPT !.pending = Append(@, "place")]
  /\ UNCHANGED <<load, venue, out, in>>

\* A caller that does not overlap its requests leaves an order it has been told
\* is being withdrawn alone, and one that is not late is done once it drops.
MayAsk ==
  /\ spent.placed = 1
  /\ load.overlaps \/ (b.pending = <<>> /\ b.held.status \notin {"PendingCancel", "PendingReplace"})
  /\ load.late \/ spent.drops = 0

\* A number that has finished is refused.  A placement and a replacement wait
\* for the connection; a cancel's wait for the naming has a bound, and the
\* number was placed here.
TakeCancel ==
  /\ MayAsk /\ Spend("cancels")
  /\ b' = IF b.finished THEN b ELSE [b EXCEPT !.pending = Append(@, "cancel")]
  /\ UNCHANGED <<load, venue, out, in>>

TakeChange ==
  /\ MayAsk /\ b.up /\ Spend("changes")
  /\ b' = IF b.finished THEN b ELSE [b EXCEPT !.pending = Append(@, "change")]
  /\ UNCHANGED <<load, venue, out, in>>

\* send_order_ex: the record, then the write.
SendPlace(k, ok) ==
  LET sent == [k EXCEPT !.held = [status |-> "PendingSubmit", terms |-> 0, filled |-> 0]]
  IN  IF ok THEN [sent EXCEPT !.placed = k.count] ELSE SetOrderStatusForced(sent, "Uncertain")

\* send_cancel and synthesize_pending_cancel.
SendCancel(k, ok) ==
  LET sent == [k EXCEPT !.attempts = @ + 1]
      cleared == [sent EXCEPT !.before = "None"]
  IN  IF ~ok THEN SetOrderStatusForced(sent, "Uncertain")
      ELSE IF ~Takes(cleared, "PendingCancel", FALSE) THEN cleared
      ELSE [cleared EXCEPT !.held.status = "PendingCancel", !.before = k.held.status]

\* OrderRequest::Modify: the record takes the attempt, and keeps what to put
\* back; a write that fails puts it back and leaves the name.
SendChange(k, ok) ==
  LET new == k.ver + 1
      attempt == [k EXCEPT !.ver = new, !.name = new]
  IN  IF ok
      THEN [attempt EXCEPT !.held.status = "PendingReplace", !.held.terms = new,
                           !.pre = @ \cup {[rev |-> new, order |-> k.held, name |-> OrigName(k)]}]
      ELSE SetOrderStatusForced(attempt, "Uncertain")

\* The frame a request is written as.
Frame(k, request) ==
  CASE request = "place" -> [op |-> "new", rev |-> k.ver, orig |-> 0]
    [] request = "cancel" -> [op |-> "cancel", rev |-> k.attempts + 1, orig |-> OrigName(k)]
    [] request = "change" -> [op |-> "replace", rev |-> k.ver + 1, orig |-> OrigName(k)]

Write(k, request, ok) ==
  CASE request = "place" -> SendPlace(k, ok)
    [] request = "cancel" -> SendCancel(k, ok)
    [] request = "change" -> SendChange(k, ok)

\* A change of an order not held here is refused and not written.
Written(k, request) == request # "change" \/ Held(k)

\* Mutant: a request goes out at once, whatever the recovery has yet to name.
WaitsForNothing(k, request) == FALSE

\* A request for an order in doubt waits while the venue is still to name what it
\* has working.
Waits(k, request) == k.sweep /\ request # "place" /\ k.held.status = "Uncertain"

\* One request of drain_and_send_orders; acc is the book, what has been written
\* and what goes back to the buffer, and, for the properties, whether a request
\* was written for an order in doubt, and for one whose grace ran out before the
\* venue had named it (hasty).  The request at `fails' meets a transport
\* that breaks, and its frame may have gone.
DrainOne(acc, request, fails) ==
  LET k == acc.book
      at == acc.at + 1
      ok == at # fails
  IN  IF k.broken \/ Waits(k, request) THEN [acc EXCEPT !.at = at, !.unsent = Append(@, request)]
      ELSE IF ~Written(k, request) THEN [acc EXCEPT !.at = at]
      ELSE [acc EXCEPT !.at = at, !.book = [Write(k, request, ok) EXCEPT !.broken = ~ok],
                       !.frames = Append(@, Frame(k, request)),
                       !.blind = @ \/ k.held.status = "Uncertain",
                       !.hasty = @ \/ (k.held.status = "Uncertain" /\ ~k.sweep /\ ~k.named)]

\* drain_and_send_orders.
DrainAndSendOrders ==
  /\ b.up /\ ~b.broken /\ b.pending # <<>>
  /\ \E fails \in 0 .. Len(b.pending), reached \in BOOLEAN :
       LET acc == FoldLeft(LAMBDA a, request : DrainOne(a, request, fails),
                           [at |-> 0, book |-> b, frames |-> <<>>, unsent |-> <<>>,
                            blind |-> spent.blind, hasty |-> spent.hasty], b.pending)
           gone == IF acc.book.broken /\ ~reached THEN Front(acc.frames) ELSE acc.frames
       IN  /\ acc.unsent # b.pending
           /\ fails = 0 => reached
           /\ fails # 0 => acc.book.broken /\ spent.failures < load.failures
           /\ b' = [acc.book EXCEPT !.pending = acc.unsent]
           /\ out' = out \o gone
           /\ spent' = [spent EXCEPT !.failures = IF fails = 0 THEN @ ELSE @ + 1, !.blind = acc.blind,
                                    !.hasty = acc.hasty]
  /\ UNCHANGED <<load, venue, in>>

-----------------------------------------------------------------------------
(* Reports: handle_exec_report and handle_cancel_reject.                     *)

\* A report: what it is, the revision it names, whether it names a cancel, the
\* cumulative quantity and execution it states, the order the venue means, and
\* whether it is marked as restating the past.
Report(t, rev, cum, key, order, marked) ==
  [t |-> t, rev |-> rev, cum |-> cum, key |-> key, order |-> order, marked |-> marked]

EndOfNames == Report("end", 0, 0, 0, NoName, FALSE)

NamesTheCancel(r) == r.t \in {"cancelled", "acknowledged"}
StatusReport(r) == r.t \in {"status", "changing", "cancelled"}
RestatesATrade(r) == r.t = "bust"

StatusOf(r) ==
  CASE r.t \in {"new", "status", "replaced"} -> "Submitted"
    [] r.t \in {"changing", "acknowledged"} -> "PreSubmitted"
    [] r.t = "fill" -> IF r.cum = Size THEN "Filled" ELSE "PartiallyFilled"
    [] r.t = "bust" -> IF r.cum = 0 THEN "Submitted" ELSE "PartiallyFilled"
    [] r.t \in {"cancelled", "expired"} -> "Cancelled"
    [] r.t = "rejected" -> "Rejected"

\* Whether a report under the number is about another order than the one held,
\* or seen to finish, under it.  An earlier order is stamped before the send.
AnotherOrder(k, r) ==
  IF ~Held(k) THEN r.marked /\ k.done \notin {NoName, r.order}
  ELSE IF r.order # NoName /\ k.names # {} /\ (r.order \in k.names \/ r.marked) THEN r.order \notin k.names
  ELSE /\ k.placed # Nothing /\ r.order # NoName
       /\ r.order <= k.placed \/ (r.marked /\ r.order < Ours)

\* The venue refused a cancel, in a report naming it: the order stands where it
\* stood.
CancelRefused(k) ==
  LET stood == IF k.before = "None" THEN k ELSE SetOrderStatusForced(k, k.before)
  IN  [stood EXCEPT !.before = "None"]

\* What the status of a report comes to, against the order held.
StatusRead(k, r) ==
  LET held == k.held.status
      belowTheCancel == /\ StatusReport(r) /\ ~NamesTheCancel(r)
                        /\ k.before # "None" /\ held = "PendingCancel"
      acknowledges == /\ r.t = "changing" /\ ~r.marked /\ ~belowTheCancel /\ r.rev >= k.ver
                      /\ held \notin Terminal \cup {"Uncertain", "None"}
      leaves == \/ belowTheCancel
                \/ r.t = "acknowledged"
                \/ r.t = "changing" /\ ~acknowledges /\ held # "Uncertain"
                \/ /\ r.t \in {"new", "replaced"} \/ (r.t = "bust" /\ r.cum = 0)
                   /\ held = "PendingCancel" \/ (held = "Inactive" /\ k.placed = Nothing)
  IN  [forced |-> acknowledges,
       status |-> IF Held(k) /\ leaves THEN held ELSE StatusOf(r)]

\* An order that finished is recovered like any other.
RecoveringTheFinished(k, r) ==
  /\ StatusRead(k, r).status \notin Terminal /\ ~r.marked
  /\ ~(r.t = "acknowledged" /\ Held(k))
  /\ k.held.status \in {"None", "Uncertain"}

Recovering(k, r) ==
  /\ StatusRead(k, r).status \notin Terminal /\ ~r.marked
  /\ ~(r.t = "acknowledged" /\ Held(k))
  /\ ~(RestatesATrade(r) /\ r.key \in k.keys)
  /\ k.done # r.order \/ RestatesATrade(r)
  /\ k.held.status \in {"None", "Uncertain"}

\* The shares the booking adds are counted here too.
RecoverWholeFigure(k, r) ==
  ReconcileRecoveredRevision(
    [k EXCEPT !.held = [status |-> IF Held(k) THEN "Uncertain" ELSE StatusOf(r), terms |-> r.rev, filled |-> r.cum],
              !.name = r.rev], r.rev)

\* recover_order: the record as the report states it, without the shares the
\* booking adds, and the name and revision with it.
RecoverOrder(k, r) ==
  LET own == IF r.t = "fill" THEN 1 ELSE 0
      recovered == [k EXCEPT
        !.done = IF @ # r.order THEN NoName ELSE @,
        !.held = [status |-> IF Held(k) THEN "Uncertain" ELSE StatusOf(r), terms |-> r.rev, filled |-> r.cum - own]]
  IN  IF NamesTheCancel(r) THEN recovered
      ELSE ReconcileRecoveredRevision([recovered EXCEPT !.name = r.rev], r.rev)

\* The venue's name for the order, and the revision it is held under, which
\* goes forward only.
NoteTheName(k, r) ==
  LET named == IF ~r.marked /\ r.order # NoName /\ Held(k) THEN [k EXCEPT !.names = @ \cup {r.order}] ELSE k
  IN  IF /\ ~NamesTheCancel(r) /\ (k.done # r.order \/ RestatesATrade(r))
         /\ k.name = Nothing \/ r.rev >= k.name
      THEN [named EXCEPT !.name = r.rev] ELSE named

\* A marked execution is booked by its own increment.
BookFillAsStated(k, r) ==
  LET booked == IF r.key \in k.keys THEN 0 ELSE 1
  IN  [k EXCEPT !.keys = @ \cup {r.key}, !.held.filled = IF Held(k) THEN @ + booked ELSE @,
                !.position = @ + booked]

\* The execution's key is not kept.
BookFillForgetsTheKey(k, r) ==
  LET booked == IF r.t = "fill" THEN 1 ELSE r.cum - k.held.filled
  IN  [k EXCEPT !.held.filled = IF Held(k) THEN @ + booked ELSE @, !.position = @ + booked,
                !.finished = @ \/ (r.t = "fill" /\ r.cum = Size)]

\* book_fill.
BookFill(k, r) ==
  LET resend == r.marked \/ RestatesATrade(r)
      delta == r.cum - k.held.filled
      booked == IF r.key \in k.keys THEN 0
                ELSE IF ~resend THEN 1
                ELSE IF ~Held(k) THEN 0
                ELSE IF RestatesATrade(r) \/ delta > 0 THEN delta ELSE 0
      filled == IF k.held.filled + booked < 0 THEN 0 ELSE k.held.filled + booked
  IN  [k EXCEPT !.keys = @ \cup {r.key},
                !.held.filled = IF Held(k) THEN filled ELSE @,
                !.position = @ + booked,
                !.finished = @ \/ (booked # 0 /\ r.t = "fill" /\ r.cum = Size)]

\* What becomes of an order a report states finished.
Complete(k, r, status) ==
  LET cancelStillOwed == status = "Rejected" /\ k.held.status = "PendingCancel" /\ ReplaceIsOutstanding(k)
  IN  IF status \notin Terminal \/ cancelStillOwed THEN k
      ELSE RetireOrder([k EXCEPT !.done = r.order])

\* A report about the order, from the status it states to its end.
TakeReport(k, r) ==
  LET read == StatusRead(k, r)
      twice == RestatesATrade(r) /\ r.key \in k.keys
      recovered == IF Recovering(k, r) THEN RecoverOrder(k, r) ELSE k
      named == NoteTheName(recovered, r)
      acked == IF r.t = "replaced" THEN [named EXCEPT !.pre = {p \in @ : p.rev > r.rev}] ELSE named
      moved == IF read.forced THEN SetOrderStatusForced(acked, read.status)
               ELSE UpdateOrderStatus(acked, read.status, r.marked)
      booked == IF r.t \in {"fill", "bust"} THEN BookFill(moved, r) ELSE moved
      told == [booked EXCEPT !.finished = @ \/ booked.held.status \in Terminal]
      corrected == IF RestatesATrade(r) /\ ~r.marked /\ ~twice THEN [told EXCEPT !.done = NoName] ELSE told
  IN  Complete(corrected, r, read.status)

HandleExecReport(k, r) ==
  LET counted == [k EXCEPT !.count = IF r.order > @ THEN r.order ELSE @]
      another == AnotherOrder(k, r)
  IN  CASE k.open /\ (another \/ (~Held(k) /\ r.marked)) -> counted
        [] another -> counted
        [] OTHER -> IF r.t = "cancelRefused" THEN CancelRefused(counted)
                    ELSE IF r.t = "changeRefused" THEN RestorePreReplace(counted, r.rev)
                    ELSE TakeReport(counted, r)

\* A refusal in a message of its own: 434=1 of a cancel, 434=2 of a change.
HandleCancelReject(k, r) ==
  LET ofAChange == r.t = "changeRejected"
      live == ofAChange /\ \E p \in k.pre : p.rev = r.rev
      withdrawn == k.held.status = "PendingCancel"
      restored == IF ofAChange THEN RestorePreReplace(k, r.rev) ELSE k
      working == IF restored.held.filled > 0 THEN "PartiallyFilled" ELSE "Submitted"
  IN  IF ~ofAChange \/ (live /\ ~withdrawn) THEN SetOrderStatusForced(restored, working) ELSE restored

-----------------------------------------------------------------------------
(* A drop and what follows it: src/engine/hot_loop/ccp/recovery.rs.          *)

KeepWhatTheDropLeaves(k) ==
  LET dropped == [k EXCEPT !.open = IF k.question = "Out" THEN FALSE ELSE @, !.question = "None"]
  IN  IF k.until THEN [dropped EXCEPT !.here = FALSE]
      ELSE [dropped EXCEPT !.unanswered = @ \/ UnansweredOrders(k),
                           !.cancelling = @ \/ UnansweredCancels(k)]

\* The trading connection goes, and what was on the way with it.
HandleDisconnect ==
  /\ b.up /\ (b.broken \/ spent.drops < load.drops)
  /\ b' = LET kept == KeepWhatTheDropLeaves([b EXCEPT !.up = FALSE, !.broken = FALSE, !.sweep = FALSE])
          IN  MarkOrdersUncertain([kept EXCEPT !.open = FALSE])
  /\ spent' = [spent EXCEPT !.drops = @ + 1]
  /\ out' = <<>> /\ in' = <<>>
  /\ venue' = [venue EXCEPT !.naming = FALSE]
  /\ UNCHANGED load

\* Whether the drop left the recovery anything to settle.
Holds(k) == k.unanswered \/ k.cancelling

BeginTheRecovery(k) == IF Holds(k) /\ ~k.until THEN [k EXCEPT !.until = TRUE, !.here = TRUE] ELSE k

Reconnect ==
  /\ ~b.up
  /\ b' = BeginTheRecovery([b EXCEPT !.up = TRUE, !.named = FALSE, !.sweep = TRUE])
  /\ venue' = [venue EXCEPT !.naming = TRUE]
  /\ UNCHANGED <<load, out, in, spent>>

\* The cancels are let go of with the rest.
JudgeOnlyPlacements(k) ==
  LET judged == IF k.unanswered /\ k.held.status = "Uncertain" THEN SetOrderStatusForced(k, "Inactive") ELSE k
  IN  [judged EXCEPT !.unanswered = FALSE, !.cancelling = FALSE, !.until = FALSE, !.here = FALSE]

\* The cancel is written again where the order still reads as working or
\* inactive.
SettleAnUnansweredCancel(k) ==
  IF k.held.status \in Terminal \cup {"None", "PendingCancel", "Uncertain"} THEN k
  ELSE [k EXCEPT !.pending = Append(@, "cancel")]

\* Recovery of the orders the drop left unanswered, once both answers are over.
JudgeWhatTheDropLeft(k) ==
  LET judged == IF k.unanswered /\ k.held.status = "Uncertain" THEN SetOrderStatusForced(k, "Inactive") ELSE k
      over == [judged EXCEPT !.unanswered = FALSE, !.cancelling = FALSE, !.until = FALSE, !.here = FALSE]
  IN  IF k.cancelling THEN SettleAnUnansweredCancel(over) ELSE over

\* The answer to the recovery's own question is judged by; the naming's end asks it.
RecoverAtTheEnd(k, ours) ==
  IF ours THEN JudgeWhatTheDropLeft([k EXCEPT !.question = "None"])
  ELSE IF k.here /\ Holds(k) /\ k.question = "None"
       THEN [k EXCEPT !.question = "Due"]
       ELSE k

EndWhatTheVenueNames(k) ==
  RecoverAtTheEnd([k EXCEPT !.open = FALSE, !.named = TRUE], k.open /\ k.question = "Out")

\* carry_the_recovery: the question, which a failed write leaves to the bound,
\* and the bound.
AskWhatFinished ==
  /\ b.question = "Due" /\ ~b.open /\ b.up
  /\ b' = [b EXCEPT !.question = "Out", !.open = ~b.broken]
  /\ out' = IF b.broken THEN out ELSE Append(out, [op |-> "question", rev |-> 0, orig |-> 0])
  /\ UNCHANGED <<load, venue, in, spent>>

GiveUpTheRecovery ==
  /\ b.until
  /\ b' = [b EXCEPT !.unanswered = FALSE, !.cancelling = FALSE, !.until = FALSE, !.here = FALSE,
                    !.question = IF @ = "Due" THEN "None" ELSE @]
  /\ spent' = [spent EXCEPT !.gaveUp = 1]
  /\ UNCHANGED <<load, venue, out, in>>

\* sweep_recovery, at the grace the code gives the naming or at its end: the
\* grace may run out with the naming still on its way.
SweepRecovery ==
  /\ b.sweep
  /\ b' = [b EXCEPT !.sweep = FALSE]
  /\ UNCHANGED <<load, venue, out, in, spent>>

ReadReport ==
  /\ b.up /\ in # <<>>
  /\ in' = Tail(in)
  /\ b' = LET r == Head(in)
          IN  CASE r.t = "end" -> EndWhatTheVenueNames(b)
                [] r.t \in {"cancelRejected", "changeRejected"} -> HandleCancelReject(b, r)
                [] OTHER -> HandleExecReport(b, r)
  /\ UNCHANGED <<load, venue, out, spent>>

-----------------------------------------------------------------------------
(* The venue, external.                                                      *)

About(t, key) == Report(t, venue.rev, venue.cum, key, Ours, FALSE)

Say(reports) == in' = in \o reports

Refuse(request, kinds) == \E t \in kinds : Say(<<Report(t, request.rev, 0, 0, NoName, FALSE)>>)

Works(request) == venue.state = "working" /\ venue.rev = request.orig

TakeNew ==
  \/ /\ venue' = [venue EXCEPT !.state = "working"]
     /\ Say(<<About("new", 0)>>)
  \/ /\ venue' = [venue EXCEPT !.state = "rejected"]
     /\ Say(<<About("rejected", 0)>>)

CancelOrder(request) ==
  \/ /\ Works(request) /\ venue' = [venue EXCEPT !.state = "cancelled"]
     /\ Say(<<About("acknowledged", 0), About("cancelled", 0)>>)
  \/ /\ venue' = [venue EXCEPT !.refused = TRUE]
     /\ Refuse(request, {"cancelRefused", "cancelRejected"})

ReplaceOrder(request) ==
  \/ /\ Works(request) /\ venue' = [venue EXCEPT !.rev = request.rev]
     /\ Say(<<[About("changing", 0) EXCEPT !.rev = request.rev], [About("replaced", 0) EXCEPT !.rev = request.rev]>>)
  \/ UNCHANGED venue /\ Refuse(request, {"changeRefused", "changeRejected"})

\* An order's executions, as they are restated.
Restated == [i \in 1 .. Len(venue.execs) |-> [venue.execs[i] EXCEPT !.marked = TRUE]]
EarlierOrders ==
  IF load.earlier THEN <<Report("fill", 0, Size, 99, Earlier, TRUE), Report("cancelled", 0, 1, 0, Earlier, TRUE)>>
  ELSE <<>>

AnswerWhatFinished ==
  /\ UNCHANGED venue
  /\ Say(EarlierOrders
           \o (IF venue.state \in {"filled", "cancelled"} THEN Restated ELSE <<>>)
           \o (IF venue.state = "cancelled" THEN <<[About("cancelled", 0) EXCEPT !.marked = TRUE]>> ELSE <<>>)
           \o (IF venue.state = "rejected" THEN <<[About("rejected", 0) EXCEPT !.marked = TRUE]>> ELSE <<>>)
           \o <<EndOfNames>>)

VenueTakes ==
  /\ out # <<>> /\ out' = Tail(out)
  /\ LET request == Head(out)
     IN  \/ request.op = "new" /\ TakeNew
         \/ request.op = "cancel" /\ CancelOrder(request)
         \/ request.op = "replace" /\ ReplaceOrder(request)
         \/ request.op = "question" /\ AnswerWhatFinished
  /\ UNCHANGED <<load, b, spent>>

VenueFills ==
  /\ venue.state = "working" /\ Spend("fills")
  /\ LET execution == Report("fill", venue.rev, venue.cum + 1, venue.keys + 1, Ours, FALSE)
     IN  /\ venue' = [venue EXCEPT !.cum = @ + 1, !.keys = @ + 1, !.execs = Append(@, execution),
                                   !.state = IF venue.cum + 1 = Size THEN "filled" ELSE @]
         /\ in' = IF b.up THEN Append(in, execution) ELSE in
  /\ UNCHANGED <<load, b, out>>

\* The last execution is undone, and an order it had filled is working again.
VenueBusts ==
  /\ venue.state \in {"working", "filled"} /\ venue.execs # <<>> /\ b.up /\ Spend("busts")
  /\ venue' = [venue EXCEPT !.cum = @ - 1, !.keys = @ + 1, !.execs = Front(@), !.state = "working",
                            !.busted = @ + 1, !.reopened = @ \/ venue.state = "filled"]
  /\ in' = Append(in, Report("bust", venue.rev, venue.cum - 1, venue.keys + 1, Ours, FALSE))
  /\ UNCHANGED <<load, b, out>>

\* The venue ends the order by itself.
VenueEnds ==
  /\ venue.state = "working" /\ Spend("ends")
  /\ venue' = [venue EXCEPT !.state = "cancelled"]
  /\ in' = IF b.up THEN Append(in, About("expired", 0)) ELSE in
  /\ UNCHANGED <<load, b, out>>

\* A working status said again, and behind the fill that ended the order.
VenueEchoes ==
  /\ venue.state \in {"working", "filled"} /\ b.up /\ Spend("echoes")
  /\ Say(<<About("status", 0)>>)
  /\ UNCHANGED <<load, b, venue, out>>

\* An execution said again.
VenueRepeats ==
  /\ venue.execs # <<>> /\ b.up /\ Spend("repeats")
  /\ \E i \in DOMAIN venue.execs, marked \in BOOLEAN : Say(<<[venue.execs[i] EXCEPT !.marked = marked]>>)
  /\ UNCHANGED <<load, b, venue, out>>

\* A new connection: what is working, the end of it, and the executions behind it.
VenueNames ==
  /\ venue.naming /\ venue' = [venue EXCEPT !.naming = FALSE]
  /\ Say((IF venue.state = "working" THEN <<About("status", 0)>> ELSE <<>>)
           \o (IF load.replays THEN EarlierOrders \o Restated ELSE <<>>) \o <<EndOfNames>>)
  /\ UNCHANGED <<load, b, out, spent>>

-----------------------------------------------------------------------------
Next ==
  \/ Place \/ TakeCancel \/ TakeChange \/ DrainAndSendOrders \/ ReadReport
  \/ HandleDisconnect \/ Reconnect \/ AskWhatFinished \/ GiveUpTheRecovery \/ SweepRecovery
  \/ VenueTakes \/ VenueFills \/ VenueEnds \/ VenueBusts \/ VenueEchoes \/ VenueRepeats \/ VenueNames

Spec == Init /\ [][Next]_vars

-----------------------------------------------------------------------------
(* Properties. *)

ReportKinds == {"end", "new", "status", "changing", "acknowledged", "replaced", "fill", "bust", "cancelled",
                "expired", "rejected", "cancelRefused", "changeRefused", "cancelRejected", "changeRejected"}
Statuses == {"None"} \cup DOMAIN Rank
Revisions == Nothing .. load.changes

\* The book holds what its tables declare: revisions the session has written,
\* shares within the order's size, an answer open for each question out, and
\* nothing of an order that left the book but its name and the number's end.
TypeOK ==
  /\ load \in Scenarios
  /\ {b.up, b.broken, b.finished, b.unanswered, b.cancelling, b.until, b.here, b.open, b.named, b.sweep} \subseteq BOOLEAN
  /\ b.held.status \in Statuses /\ b.held.terms \in Revisions /\ b.held.filled \in 0 .. Size
  /\ b.ver \in 0 .. load.changes /\ b.name \in Revisions /\ b.names \subseteq {Ours}
  /\ b.before \in Statuses /\ b.attempts \in Nothing .. 2 * load.cancels
  /\ \A p \in b.pre : p.rev \in 1 .. b.ver /\ p.order.status \in DOMAIN Rank /\ p.name < p.rev
  /\ b.done \in {NoName, Earlier, Ours}
  /\ b.question \in {"None", "Due", "Out"} /\ (b.question = "Out" => b.open \/ b.broken)
  /\ ~Held(b) => b.names = {} /\ b.pre = {} /\ b.before = "None" /\ b.placed = Nothing
  /\ \A i \in DOMAIN b.pending : b.pending[i] \in {"place", "cancel", "change"}
  /\ \A i \in DOMAIN in : in[i].t \in ReportKinds
  /\ venue.cum = Len(venue.execs) /\ venue.cum \in 0 .. Size

\* Nothing is on the way in either direction, and no recovery is at work.
Quiet ==
  /\ b.up /\ ~b.broken /\ b.named /\ b.pending = <<>> /\ b.question = "None"
  /\ in = <<>> /\ out = <<>> /\ ~venue.naming

Known == b.held.status \notin {"None", "Uncertain"}

\* An order working at the venue is in the book, from the write that placed it
\* to the report that ends it (the book is what a cancel-all iterates), unless
\* the correction that brought it back has yet to be read.  Once nothing is on
\* the way its status is a working one, and its terms, its shares and the name
\* the next request will give it are the venue's: unless the grace ran out with
\* the naming on its way and a request was written for the order in doubt.
WorkingIsHeld ==
  venue.state = "working" =>
    /\ Held(b) \/ \E i \in DOMAIN in : in[i].t = "bust"
    /\ Quiet /\ ~spent.hasty =>
         /\ Known
         /\ ~load.overlaps => b.held.status \in {"PendingSubmit", "PreSubmitted", "Submitted", "PartiallyFilled"}
         /\ b.held.terms = venue.rev /\ b.held.filled = venue.cum /\ OrigName(b) = venue.rev

\* An order that is over at the venue is not shown working once nothing is on
\* the way: a report repeated, restated or arriving behind the one that ended
\* it does not bring it back, and one in doubt stays in doubt.  Restated
\* executions after a drop, overlapping requests and requests for an order in
\* doubt are apart: there the code does show one (README).
FinishedIsNotWorking ==
  /\ Quiet /\ venue.state \in {"filled", "cancelled", "rejected"}
  /\ ~load.overlaps /\ ~spent.blind /\ ~(load.replays /\ spent.drops > 0)
  => ~Known

\* The book and the venue agree on the order.
AgreesWithTheVenue == WorkingIsHeld /\ FinishedIsNotWorking

\* An execution moves the position once, however often it is stated, marked or
\* not, on this connection or the next.  On a connection that stayed up none is
\* missed either, and a correction of one moves the position back (book_fill),
\* though not where it reopens an order that had left the book (README).
BookedOnce ==
  /\ b.position <= venue.cum + venue.busted
  /\ Quiet /\ spent.drops = 0 /\ ~venue.reopened => b.position = venue.cum

\* A cancel the session took ends the order or is refused by the venue.  One
\* that a drop left unanswered is written again once what is working and what
\* finished have been named, unless the recovery's bound ran out first or a
\* second drop left it to that bound.  A write that failed, shares filled
\* behind the cancel, and a number refused as finished are apart (README).
WithdrawalsStand ==
  /\ Quiet /\ venue.state = "working" /\ spent.cancels > 0 /\ ~b.finished /\ spent.failures = 0
  /\ spent.drops > 0 => spent.drops = 1 /\ spent.gaveUp = 0 /\ venue.cum = 0
  => venue.refused
=============================================================================
