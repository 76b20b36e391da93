---------------------------- MODULE NewsBulletins ----------------------------
(***************************************************************************)
(* The day's cache of broadcast notices (push_news_bulletin,               *)
(* arm_news_bulletins in src/bridge/market_data.rs), the subscription to   *)
(* it (req_news_bulletins) and the part of take_records                    *)
(* (src/bridge/record.rs) that hands a subscription what it is owed.       *)
(*                                                                         *)
(* The cache is never drained: a subscription is a mark, the stamp from    *)
(* which bulletins are owed.  The mark is written by the call that         *)
(* subscribes and by every read of a subscribed session, on whichever      *)
(* threads the program makes them.                                         *)
(***************************************************************************)
EXTENDS InOrder, SequencesExt

CONSTANTS
  Limit,        \* NEWS_BULLETIN_LIMIT
  MaxStamps,    \* bound on the bulletins broadcast
  MaxAsks       \* bound on the calls of req_news_bulletins

ASSUME LimitAssumption == Limit \in Nat \ {0}
ASSUME MaxStampsAssumption == MaxStamps \in Nat
ASSUME MaxAsksAssumption == MaxAsks \in Nat

(* u64::MAX, the mark of a session that never subscribed. *)
NoMark == MaxStamps + 1

VARIABLES
  next,     \* the next stamp
  cache,    \* news_bulletins: the stamps of the bulletins kept, oldest first
  mark,     \* bulletin_mark
  on,       \* bulletin_subscribed
  cpc,      \* the caller's place in req_news_bulletins
  all,      \* its all_msgs
  from,     \* the cut it read
  asks,     \* how many times it has been called
  rpc,      \* the reader's place
  bulletins,\* the flag it read as it began
  cut,      \* its cut
  rmark,    \* the mark it read
  out,      \* what it has cloned
  fresh,    \* whether it began after the mark was armed
  got,      \* what this subscription has been handed, in order
  complete, \* the cut up to which a whole read has served it
  crossed   \* history: the cut of the read it was armed in the middle of

callVars == <<cpc, all, from, asks>>
readVars == <<rpc, bulletins, cut, rmark, out, fresh>>
servedVars == <<got, complete, crossed>>
vars == <<next, cache, mark, on, callVars, readVars, servedVars>>

Init ==
  /\ next = 0
  /\ cache = <<>>
  /\ mark = NoMark
  /\ on = FALSE
  /\ cpc = "idle"
  /\ all = FALSE
  /\ from = 0
  /\ asks = 0
  /\ rpc = "idle"
  /\ bulletins = FALSE
  /\ cut = 0
  /\ rmark = 0
  /\ out = <<>>
  /\ fresh = FALSE
  /\ got = <<>>
  /\ complete = 0
  /\ crossed = NoMark

-----------------------------------------------------------------------------
(* Mutant: the bound is tested with > for >=. *)
KeptOneOver == IF Len(cache) > Limit THEN Tail(cache) ELSE cache

(* What is kept as another comes in: past the bound the oldest goes. *)
Kept == IF Len(cache) >= Limit THEN Tail(cache) ELSE cache

(* push_news_bulletin.  Stamp and push are one step: a read that cut       *)
(* between the two waits for the cache's lock before it looks.             *)
PushNewsBulletin ==
  /\ next < MaxStamps
  /\ cache' = Append(Kept, next)
  /\ next' = next + 1
  /\ UNCHANGED <<mark, on, callVars, readVars, servedVars>>

(* req_news_bulletins(all_msgs), on whichever thread: the cut is read      *)
(* first.                                                                  *)
ReqNewsBulletins(all_msgs) ==
  /\ cpc = "idle"
  /\ asks < MaxAsks
  /\ asks' = asks + 1
  /\ all' = all_msgs
  /\ from' = next
  /\ cpc' = "arm"
  /\ UNCHANGED <<next, cache, mark, on, readVars, servedVars>>

(* Mutant: every subscription starts at the day's start. *)
ArmedMarkAtStart == 0

(* Where a subscription starts. *)
ArmedMark == IF all THEN 0 ELSE from

(* A read under way has its cut and stores it as the mark when it ends:    *)
(* one that has read the mark before it is armed, or whose cut lies before *)
(* the mark it is armed at, undoes the arming.                             *)
Crossing ==
  \/ rpc \in {"clone", "store"}
  \/ rpc = "mark" /\ cut < ArmedMark

(* arm_news_bulletins.  What is handed over from here on is this           *)
(* subscription's.                                                         *)
ArmNewsBulletins ==
  /\ cpc = "arm"
  /\ mark' = ArmedMark
  /\ got' = <<>>
  /\ complete' = 0
  /\ fresh' = FALSE
  /\ crossed' = IF Crossing THEN cut ELSE NoMark
  /\ cpc' = "subscribe"
  /\ UNCHANGED <<next, cache, on, all, from, asks, rpc, bulletins, cut, rmark,
                 out>>

(* subscribe_bulletins, and the call returns. *)
SubscribeBulletins ==
  /\ cpc = "subscribe"
  /\ on' = TRUE
  /\ cpc' = "idle"
  /\ UNCHANGED <<next, cache, mark, all, from, asks, readVars, servedVars>>

(* cancel_news_bulletins. *)
CancelNewsBulletins ==
  /\ cpc = "idle"
  /\ on
  /\ on' = FALSE
  /\ UNCHANGED <<next, cache, mark, callVars, readVars, servedVars>>

-----------------------------------------------------------------------------
(* process_msgs begins: whether bulletins were asked for is read once.     *)
BeginRead ==
  /\ rpc = "idle"
  /\ bulletins' = on
  /\ fresh' = on
  /\ rpc' = "cut"
  /\ UNCHANGED <<next, cache, mark, on, callVars, cut, rmark, out, servedVars>>

(* The read's cut.  A read nobody asked bulletins of ends here. *)
TakeCut ==
  /\ rpc = "cut"
  /\ cut' = next
  /\ rpc' = IF bulletins THEN "mark" ELSE "idle"
  /\ UNCHANGED <<next, cache, mark, on, callVars, bulletins, rmark, out, fresh,
                 servedVars>>

LoadMark ==
  /\ rpc = "mark"
  /\ rmark' = mark
  /\ rpc' = "clone"
  /\ UNCHANGED <<next, cache, mark, on, callVars, bulletins, cut, out, fresh,
                 servedVars>>

(* Mutant: the bulletin at the mark is left out. *)
OwedAfter(s) == s > rmark /\ s < cut

(* What the read owes: from the mark up to the cut. *)
Owed(s) == s >= rmark /\ s < cut

(* The owed are cloned under the cache's lock, and the cache stays. *)
CloneOwed ==
  /\ rpc = "clone"
  /\ out' = Only(cache, {i \in DOMAIN cache : Owed(cache[i])})
  /\ rpc' = "store"
  /\ UNCHANGED <<next, cache, mark, on, callVars, bulletins, cut, rmark, fresh,
                 servedVars>>

(* Mutant: the mark is not moved. *)
MarkAfterReadStays == rmark

(* The mark a read leaves. *)
MarkAfterRead == cut

(* The mark moves to the cut, and the bulletins are handed over. *)
StoreMark ==
  /\ rpc = "store"
  /\ mark' = MarkAfterRead
  /\ got' = got \o out
  /\ complete' = IF fresh THEN cut ELSE complete
  /\ out' = <<>>
  /\ rpc' = "idle"
  /\ UNCHANGED <<next, cache, on, callVars, bulletins, cut, rmark, fresh,
                 crossed>>

-----------------------------------------------------------------------------
Next ==
  \/ PushNewsBulletin
  \/ \E all_msgs \in BOOLEAN : ReqNewsBulletins(all_msgs)
  \/ ArmNewsBulletins
  \/ SubscribeBulletins
  \/ CancelNewsBulletins
  \/ BeginRead
  \/ TakeCut
  \/ LoadMark
  \/ CloneOwed
  \/ StoreMark

Spec == Init /\ [][Next]_vars

-----------------------------------------------------------------------------
(***************************************************************************)
(* Properties.                                                             *)
(***************************************************************************)

(* Every variable has its type. *)
TypeOK ==
  /\ next \in 0 .. MaxStamps
  /\ cache \in Seq(0 .. MaxStamps - 1) /\ Len(cache) <= Limit
  /\ mark \in 0 .. NoMark
  /\ on \in BOOLEAN
  /\ cpc \in {"idle", "arm", "subscribe"}
  /\ all \in BOOLEAN
  /\ from \in 0 .. MaxStamps
  /\ asks \in 0 .. MaxAsks
  /\ rpc \in {"idle", "cut", "mark", "clone", "store"}
  /\ bulletins \in BOOLEAN
  /\ cut \in 0 .. MaxStamps
  /\ rmark \in 0 .. NoMark
  /\ out \in Seq(0 .. MaxStamps - 1)
  /\ fresh \in BOOLEAN
  /\ got \in Seq(0 .. MaxStamps - 1)
  /\ complete \in 0 .. MaxStamps
  /\ crossed \in 0 .. NoMark

(* What a subscription may go without: the bulletins from before the cut   *)
(* of the read it was armed in the middle of, which stored that cut over   *)
(* the mark.                                                               *)
LostToTheRead(s) == crossed # NoMark /\ s < crossed

(* A read begun after the mark was armed has handed over, when it ends,    *)
(* everything still cached that the subscription asked for: the whole      *)
(* day's for all_msgs, and otherwise what came after the call.  On         *)
(* whichever threads the calls are made nothing is missed but what came    *)
(* before the cut of a read under way, and none of that unless that read   *)
(* undid the arming.                                                       *)
AskingRestatesTheDay ==
  \A i \in DOMAIN cache :
    /\ cpc = "idle" /\ cache[i] < complete
    /\ all \/ cache[i] >= from
    /\ ~LostToTheRead(cache[i])
    => cache[i] \in ToSet(got)

(* A subscription is handed no bulletin twice, and in the order they came, *)
(* however the arming falls across a read.                                 *)
NoBulletinTwice ==
  \A i, j \in DOMAIN got : i < j => got[i] < got[j]

(* Asking only for what follows hands over nothing from before the call,   *)
(* unless a read under way undid the arming.                               *)
OnlyWhatFollows ==
  cpc = "idle" /\ ~all /\ crossed = NoMark =>
    \A i \in DOMAIN got : got[i] >= from

(* A subscription is handed nothing again, out of order or that it did not *)
(* ask for.                                                                *)
NothingButWhatWasAsked == NoBulletinTwice /\ OnlyWhatFollows
=============================================================================
