------------------------------ MODULE WakeHook ------------------------------
(***************************************************************************)
(* How a reader learns that a session has something to read: notify, wake, *)
(* set_wake_hook, arm_wake and wait_for_data of src/bridge/mod.rs.         *)
(*                                                                         *)
(* The engine pushes records and writes conflated state, and notifies at   *)
(* the end of every lap.  A program either sets a hook, which notify calls *)
(* at most once until a read begins, and reads when the hook told it to;   *)
(* or waits on the condition variable and reads when the wait said true.   *)
(* The model has one reader of each kind, and a thread of the caller's     *)
(* that pushes the records made at calls and sets the hook.                *)
(*                                                                         *)
(* Every shared access is a step.  arm_wake's store and the read that      *)
(* follows it are a store and a load of different locations, which a       *)
(* machine may exchange unless a fence keeps them apart: the store waits   *)
(* in a buffer of the reading thread until it drains or the fence drains   *)
(* it.                                                                     *)
(***************************************************************************)
EXTENDS Integers

CONSTANTS
  MaxPushes,  \* bound on the records pushed
  MaxWrites,  \* bound on the writes of conflated state
  MaxHooks    \* bound on the calls of set_wake_hook

ASSUME MaxPushesAssumption == MaxPushes \in Nat
ASSUME MaxWritesAssumption == MaxWrites \in Nat
ASSUME MaxHooksAssumption == MaxHooks \in Nat

NoHook == 0

VARIABLES
  stamp,    \* the stamp counter: how many records have been pushed
  version,  \* how many times the conflated state has been written
  written,  \* Stamps: conflated state was written
  wakeCut,  \* wake_cut
  armed,    \* wake_armed
  buffered, \* arm_wake's store, waiting in the reader's store buffer
  hook,     \* wake_hook: the hook set, by the call that set it
  hooks,    \* how many times set_wake_hook has been called
  last,     \* what the last such call set
  from,     \* the stamp as that call returned
  panicked, \* the hooks that have panicked
  pending,  \* notify_mutex's flag
  epc,      \* the engine's place: in its lap, or in notify
  ecut,     \* the cut wake read
  news,     \* pushed || written
  ehook,    \* the hook wake cloned out of the lock
  calls,    \* how many times a hook has been called
  due,      \* a hook told its reader to read
  arms,     \* how many reads have begun
  rpc,      \* the hooked reader's place
  seen,     \* the cut of its last read
  seenState,\* the version its last read polled
  wpc,      \* the waiting reader's place
  wseen     \* the cut of its last read

engineVars == <<epc, ecut, news, ehook>>
hookVars == <<hook, hooks, last, from>>
readerVars == <<due, arms, rpc, seen, seenState>>
waiterVars == <<wpc, wseen>>
vars == <<stamp, version, written, wakeCut, armed, buffered, hookVars,
          panicked, pending, engineVars, calls, readerVars, waiterVars>>

Init ==
  /\ stamp = 0
  /\ version = 0
  /\ written = FALSE
  /\ wakeCut = 0
  /\ armed = TRUE
  /\ buffered = FALSE
  /\ hook = NoHook
  /\ hooks = 0
  /\ last = NoHook
  /\ from = 0
  /\ panicked = {}
  /\ pending = FALSE
  /\ epc = "lap"
  /\ ecut = 0
  /\ news = FALSE
  /\ ehook = NoHook
  /\ calls = 0
  /\ due = FALSE
  /\ arms = 0
  /\ rpc = "idle"
  /\ seen = 0
  /\ seenState = 0
  /\ wpc = "out"
  /\ wseen = 0

-----------------------------------------------------------------------------
(***************************************************************************)
(* The engine's lap.                                                       *)
(***************************************************************************)

(* A record is pushed: by the engine in its lap, or by a caller's thread   *)
(* (push_refused) at any time.  Neither notifies.                          *)
PushRecord ==
  /\ stamp < MaxPushes
  /\ stamp' = stamp + 1
  /\ UNCHANGED <<version, written, wakeCut, armed, buffered, hookVars, panicked,
                 pending, engineVars, calls, readerVars, waiterVars>>

(* A quote, a holding or a figure is written, and note_written after it. *)
WriteState ==
  /\ epc = "lap"
  /\ version < MaxWrites
  /\ version' = version + 1
  /\ written' = TRUE
  /\ UNCHANGED <<stamp, wakeCut, armed, buffered, hookVars, panicked, pending,
                 engineVars, calls, readerVars, waiterVars>>

(* notify: the flag is raised under its lock and one waiter woken. *)
Notify ==
  /\ epc = "lap"
  /\ pending' = TRUE
  /\ epc' = "cut"
  /\ UNCHANGED <<stamp, version, written, wakeCut, armed, buffered, hookVars,
                 panicked, ecut, news, ehook, calls, readerVars, waiterVars>>

(* wake: stamps.cut(). *)
WakeReadsCut ==
  /\ epc = "cut"
  /\ ecut' = stamp
  /\ epc' = "swap"
  /\ UNCHANGED <<stamp, version, written, wakeCut, armed, buffered, hookVars,
                 panicked, pending, news, ehook, calls, readerVars, waiterVars>>

(* wake_cut.swap(cut) != cut. *)
WakeSwapsCut ==
  /\ epc = "swap"
  /\ news' = (wakeCut # ecut)
  /\ wakeCut' = ecut
  /\ epc' = "written"
  /\ UNCHANGED <<stamp, version, written, armed, buffered, hookVars, panicked,
                 pending, ecut, ehook, calls, readerVars, waiterVars>>

(* Mutant: the mark conflated state leaves is read and not taken. *)
WakeLeavesWritten ==
  /\ epc = "written"
  /\ news' = (news \/ written)
  /\ epc' = "armed"
  /\ UNCHANGED <<stamp, version, written, wakeCut, armed, buffered, hookVars,
                 panicked, pending, ecut, ehook, calls, readerVars, waiterVars>>

(* take_written. *)
WakeTakesWritten ==
  /\ epc = "written"
  /\ news' = (news \/ written)
  /\ written' = FALSE
  /\ epc' = "armed"
  /\ UNCHANGED <<stamp, version, wakeCut, armed, buffered, hookVars, panicked,
                 pending, ecut, ehook, calls, readerVars, waiterVars>>

(* Nothing new, or no read since the hook was last called: the lap goes on. *)
WakeReadsArmed ==
  /\ epc = "armed"
  /\ epc' = IF news /\ armed THEN "hook" ELSE "lap"
  /\ UNCHANGED <<stamp, version, written, wakeCut, armed, buffered, hookVars,
                 panicked, pending, ecut, news, ehook, calls, readerVars,
                 waiterVars>>

(* Mutant: a session with no hook set is not told apart. *)
WakeClonesNothing ==
  /\ epc = "hook"
  /\ ehook' = hook
  /\ epc' = "disarm"
  /\ UNCHANGED <<stamp, version, written, wakeCut, armed, buffered, hookVars,
                 panicked, pending, ecut, news, calls, readerVars, waiterVars>>

(* The hook is cloned out of its lock. *)
WakeClonesHook ==
  /\ epc = "hook"
  /\ ehook' = hook
  /\ epc' = IF hook = NoHook THEN "lap" ELSE "disarm"
  /\ UNCHANGED <<stamp, version, written, wakeCut, armed, buffered, hookVars,
                 panicked, pending, ecut, news, calls, readerVars, waiterVars>>

(* Mutant: the hook is called without disarming. *)
WakeStaysArmed ==
  /\ epc = "disarm"
  /\ epc' = "call"
  /\ UNCHANGED <<stamp, version, written, wakeCut, armed, buffered, hookVars,
                 panicked, pending, ecut, news, ehook, calls, readerVars,
                 waiterVars>>

(* wake_armed.swap(false). *)
WakeDisarms ==
  /\ epc = "disarm"
  /\ epc' = IF armed THEN "call" ELSE "lap"
  /\ armed' = FALSE
  /\ UNCHANGED <<stamp, version, written, wakeCut, buffered, hookVars, panicked,
                 pending, ecut, news, ehook, calls, readerVars, waiterVars>>

(* The hook runs on the engine's thread and tells its reader to read. *)
CallHook ==
  /\ epc = "call"
  /\ calls' = calls + 1
  /\ due' = TRUE
  /\ epc' = "lap"
  /\ UNCHANGED <<stamp, version, written, wakeCut, armed, buffered, hookVars,
                 panicked, pending, ecut, news, ehook, arms, rpc, seen,
                 seenState, waiterVars>>

(* The hook panics instead; the panic is caught. *)
HookPanics ==
  /\ epc = "call"
  /\ calls' = calls + 1
  /\ panicked' = panicked \cup {ehook}
  /\ epc' = "remove"
  /\ UNCHANGED <<stamp, version, written, wakeCut, armed, buffered, hookVars,
                 pending, ecut, news, ehook, readerVars, waiterVars>>

(* Mutant: whatever hook is set now is removed. *)
RemovalTakesAny == NoHook

(* The hook left set: the panicked one is removed only if it is still the  *)
(* one set.                                                                *)
AfterRemoval == IF hook = ehook THEN NoHook ELSE hook

RemoveHook ==
  /\ epc = "remove"
  /\ hook' = AfterRemoval
  /\ epc' = "lap"
  /\ UNCHANGED <<stamp, version, written, wakeCut, armed, buffered, hooks, last,
                 from, panicked, pending, ecut, news, ehook, calls, readerVars,
                 waiterVars>>

-----------------------------------------------------------------------------
(* set_wake_hook: a new hook, or none.  Replacing it arms nothing. *)
SetWakeHook(some) ==
  /\ hooks < MaxHooks
  /\ hooks' = hooks + 1
  /\ hook' = IF some THEN hooks + 1 ELSE NoHook
  /\ last' = hook'
  /\ from' = stamp
  /\ UNCHANGED <<stamp, version, written, wakeCut, armed, buffered, panicked,
                 pending, engineVars, calls, readerVars, waiterVars>>

-----------------------------------------------------------------------------
(***************************************************************************)
(* The reader a hook wakes.                                                *)
(***************************************************************************)

(* arm_wake's store, into the reading thread's buffer. *)
ArmStore ==
  /\ rpc = "idle"
  /\ due
  /\ due' = FALSE
  /\ arms' = arms + 1
  /\ buffered' = TRUE
  /\ rpc' = "fence"
  /\ UNCHANGED <<stamp, version, written, wakeCut, armed, hookVars, panicked,
                 pending, engineVars, calls, seen, seenState, waiterVars>>

(* The buffer drains by itself. *)
Drain ==
  /\ buffered
  /\ armed' = TRUE
  /\ buffered' = FALSE
  /\ UNCHANGED <<stamp, version, written, wakeCut, hookVars, panicked, pending,
                 engineVars, calls, readerVars, waiterVars>>

(* Mutant: no fence after arm_wake's store. *)
ArmFenceMissing ==
  /\ rpc = "fence"
  /\ rpc' = "poll"
  /\ UNCHANGED <<stamp, version, written, wakeCut, armed, buffered, hookVars,
                 panicked, pending, engineVars, calls, due, arms, seen,
                 seenState, waiterVars>>

(* arm_wake's fence waits for the buffer. *)
ArmFence ==
  /\ rpc = "fence"
  /\ ~buffered
  /\ rpc' = "poll"
  /\ UNCHANGED <<stamp, version, written, wakeCut, armed, buffered, hookVars,
                 panicked, pending, engineVars, calls, due, arms, seen,
                 seenState, waiterVars>>

(* process_msgs polls the state, then takes its cut and every record below. *)
PollState ==
  /\ rpc = "poll"
  /\ seenState' = version
  /\ rpc' = "take"
  /\ UNCHANGED <<stamp, version, written, wakeCut, armed, buffered, hookVars,
                 panicked, pending, engineVars, calls, due, arms, seen,
                 waiterVars>>

TakeRecords ==
  /\ rpc = "take"
  /\ seen' = stamp
  /\ rpc' = "idle"
  /\ UNCHANGED <<stamp, version, written, wakeCut, armed, buffered, hookVars,
                 panicked, pending, engineVars, calls, due, arms, seenState,
                 waiterVars>>

-----------------------------------------------------------------------------
(***************************************************************************)
(* The reader that waits: run() of the Python surface, whose dispatch does *)
(* not arm the hook.  It and the hooked reader share nothing but the       *)
(* engine that notifies both.                                              *)
(***************************************************************************)

(* wait_for_data with the flag up: taken at once. *)
WaitFindsData ==
  /\ wpc = "out"
  /\ pending
  /\ pending' = FALSE
  /\ wpc' = "read"
  /\ UNCHANGED <<stamp, version, written, wakeCut, armed, buffered, hookVars,
                 panicked, engineVars, calls, readerVars, wseen>>

(* With the flag down it sleeps, its lock let go. *)
WaitSleeps ==
  /\ wpc = "out"
  /\ ~pending
  /\ wpc' = "asleep"
  /\ UNCHANGED <<stamp, version, written, wakeCut, armed, buffered, hookVars,
                 panicked, pending, engineVars, calls, readerVars, wseen>>

(* Mutant: the flag is cleared after a wait that timed out, and not said. *)
WaitWakesAndForgets(timedOut) ==
  /\ wpc = "asleep"
  /\ pending' = FALSE
  /\ wpc' = IF timedOut THEN "out" ELSE "read"
  /\ UNCHANGED <<stamp, version, written, wakeCut, armed, buffered, hookVars,
                 panicked, engineVars, calls, readerVars, wseen>>

(* Signalled, timed out or woken for nothing, it holds the lock again and  *)
(* takes the flag it finds.  A wait that timed out and finds the flag down *)
(* says false, and the program waits again.                                *)
WaitWakes(timedOut) ==
  /\ wpc = "asleep"
  /\ pending' = FALSE
  /\ wpc' = IF pending \/ ~timedOut THEN "read" ELSE "out"
  /\ UNCHANGED <<stamp, version, written, wakeCut, armed, buffered, hookVars,
                 panicked, engineVars, calls, readerVars, wseen>>

WaiterReads ==
  /\ wpc = "read"
  /\ wseen' = stamp
  /\ wpc' = "out"
  /\ UNCHANGED <<stamp, version, written, wakeCut, armed, buffered, hookVars,
                 panicked, pending, engineVars, calls, readerVars>>

-----------------------------------------------------------------------------
Wake ==
  \/ WakeReadsCut
  \/ WakeSwapsCut
  \/ WakeTakesWritten
  \/ WakeReadsArmed
  \/ WakeClonesHook
  \/ WakeDisarms
  \/ CallHook
  \/ RemoveHook

Reader == ArmStore \/ ArmFence \/ PollState \/ TakeRecords

Waiter ==
  \/ WaitFindsData
  \/ WaitSleeps
  \/ \E timedOut \in BOOLEAN : WaitWakes(timedOut)
  \/ WaiterReads

Next ==
  \/ PushRecord
  \/ WriteState
  \/ Notify
  \/ Wake
  \/ HookPanics
  \/ \E some \in BOOLEAN : SetWakeHook(some)
  \/ Reader
  \/ Drain
  \/ Waiter

Spec == Init /\ [][Next]_vars

(***************************************************************************)
(* The loop laps for as long as the session runs and every lap notifies; a *)
(* reader told to read reads; a store buffer drains; the waiter keeps      *)
(* waiting and reading.                                                    *)
(***************************************************************************)
Fairness ==
  /\ WF_vars(Notify \/ Wake)
  /\ WF_vars(Reader)
  /\ WF_vars(Drain)
  /\ WF_vars(Waiter)

FairSpec == Spec /\ Fairness

-----------------------------------------------------------------------------
(***************************************************************************)
(* Properties.                                                             *)
(***************************************************************************)

(* Every variable has its type. *)
TypeOK ==
  /\ stamp \in 0 .. MaxPushes
  /\ version \in 0 .. MaxWrites
  /\ written \in BOOLEAN
  /\ wakeCut \in 0 .. MaxPushes
  /\ armed \in BOOLEAN
  /\ buffered \in BOOLEAN
  /\ hook \in 0 .. MaxHooks
  /\ hooks \in 0 .. MaxHooks
  /\ last \in 0 .. MaxHooks
  /\ from \in 0 .. MaxPushes
  /\ panicked \subseteq 1 .. MaxHooks
  /\ pending \in BOOLEAN
  /\ epc \in {"lap", "cut", "swap", "written", "armed", "hook", "disarm",
              "call", "remove"}
  /\ ecut \in 0 .. MaxPushes
  /\ news \in BOOLEAN
  /\ ehook \in 0 .. MaxHooks
  /\ calls \in Nat
  /\ due \in BOOLEAN
  /\ arms \in Nat
  /\ rpc \in {"idle", "fence", "poll", "take"}
  /\ seen \in 0 .. MaxPushes
  /\ seenState \in 0 .. MaxWrites
  /\ wpc \in {"out", "asleep", "read"}
  /\ wseen \in 0 .. MaxPushes

(* The hook is called at most once until the next read begins, however     *)
(* many laps notify and however the reads fall between their steps.        *)
OneCallPerRead == calls <= arms + 1

(* An idle session never calls the hook: every call is paid for by a       *)
(* record pushed or a write of state.                                      *)
CallsNeedNews == calls <= stamp + version

(* The hook is called neither twice for one read nor for nothing. *)
CallsAreDue == OneCallPerRead /\ CallsNeedNews

(* The hook set is the one the program set last, unless that one panicked: *)
(* a hook that replaced a panicking one while it ran is not removed for it. *)
HookSurvivesAnothersPanic ==
  hook = last \/ (hook = NoHook /\ last \in panicked)

(* What is pushed once a hook is set is read, by a reader that reads only  *)
(* when its hook calls: no wake is lost between a push, a notification, a  *)
(* read that begins and a read that is still going.                        *)
HookedReaderReadsAll ==
  \A s \in 1 .. MaxPushes :
    (hook # NoHook /\ from < s /\ stamp >= s)
      ~> (seen >= s \/ hook = NoHook \/ panicked # {})

(* The same for a reader that reads when wait_for_data says true: the last *)
(* signal before the engine goes quiet is not lost to a timeout.           *)
WaiterReadsAll ==
  \A s \in 1 .. MaxPushes : stamp >= s ~> wseen >= s

(* No reader is left asleep over something to read, whichever way it waits. *)
NoWakeIsLost == HookedReaderReadsAll /\ WaiterReadsAll
=============================================================================
