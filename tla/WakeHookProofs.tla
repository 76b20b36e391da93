--------------------------- MODULE WakeHookProofs ---------------------------
(***************************************************************************)
(* CallsAreDue and HookSurvivesAnothersPanic for any number of records,    *)
(* writes and hooks.                                                       *)
(*                                                                         *)
(* Both bounds on the calls are kept by counting.  Leave to call is a      *)
(* token: a read begun makes one, it lies in the store buffer, then in     *)
(* wake_armed, and the engine takes it to the call.  News is another: a    *)
(* record pushed or a write of state pays for one, the swap of the cut or  *)
(* the taking of the mark claims it, and the engine carries it to the call. *)
(***************************************************************************)
EXTENDS WakeHook, TLAPS

One(b) == IF b THEN 1 ELSE 0

(* Leave to call the hook is spent once: calls made, and leave still held  *)
(* in the flag, the buffer or the engine's hand, are the reads begun and   *)
(* the leave the session started with.                                     *)
LeaveIsCounted == calls + One(armed) + One(buffered) + One(epc = "call") <= arms + 1

(* Calls made, the news the engine is carrying and the mark not yet taken  *)
(* are paid for by the stamps the engine has seen and the writes.          *)
Carrying == epc \in {"written", "armed", "hook", "disarm", "call"} /\ news
NewsIsCounted ==
  /\ calls + One(Carrying) + One(written) <= wakeCut + version
  /\ wakeCut <= stamp
  /\ ecut <= stamp
  /\ epc = "swap" => wakeCut <= ecut
  /\ epc \in {"hook", "disarm", "call"} => news

(* The hook the engine calls is one that was set, and the one it removes   *)
(* has panicked.                                                           *)
CalledHook ==
  /\ epc \in {"disarm", "call", "remove"} => ehook # NoHook
  /\ epc = "remove" => ehook \in panicked

IInv == TypeOK /\ LeaveIsCounted /\ NewsIsCounted /\ CalledHook /\ HookSurvivesAnothersPanic

-----------------------------------------------------------------------------
USE MaxPushesAssumption, MaxWritesAssumption, MaxHooksAssumption

(* The initial state satisfies the invariant. *)
LEMMA InitIInv == Init => IInv
  <1> SUFFICES ASSUME Init PROVE IInv
    OBVIOUS
  <1>1. TypeOK
    <2>1. /\ stamp \in 0 .. MaxPushes /\ wakeCut \in 0 .. MaxPushes /\ from \in 0 .. MaxPushes
          /\ ecut \in 0 .. MaxPushes /\ seen \in 0 .. MaxPushes /\ wseen \in 0 .. MaxPushes
          /\ version \in 0 .. MaxWrites /\ seenState \in 0 .. MaxWrites
      BY DEF Init
    <2>2. /\ hook \in 0 .. MaxHooks /\ hooks \in 0 .. MaxHooks /\ last \in 0 .. MaxHooks
          /\ ehook \in 0 .. MaxHooks /\ panicked \subseteq 1 .. MaxHooks
      BY DEF Init, NoHook
    <2> QED
      BY <2>1, <2>2 DEF Init, TypeOK
  <1>2. LeaveIsCounted
    BY DEF Init, LeaveIsCounted, One
  <1>3. NewsIsCounted
    BY DEF Init, NewsIsCounted, Carrying, One
  <1>4. CalledHook /\ HookSurvivesAnothersPanic
    BY DEF Init, CalledHook, HookSurvivesAnothersPanic
  <1> QED
    BY <1>1, <1>2, <1>3, <1>4 DEF IInv

(* Types are kept.  A hook that panics is one that was set: CalledHook. *)
LEMMA TypeStep == IInv /\ [Next]_vars => TypeOK'
  <1> SUFFICES ASSUME IInv, [Next]_vars PROVE TypeOK'
    OBVIOUS
  <1> USE DEF TypeOK, NoHook
  <1>0. TypeOK /\ CalledHook
    BY DEF IInv
  <1>1. CASE PushRecord
    BY <1>0, <1>1 DEF PushRecord, hookVars, engineVars, readerVars, waiterVars
  <1>2. CASE WriteState
    BY <1>0, <1>2 DEF WriteState, hookVars, engineVars, readerVars, waiterVars
  <1>3. CASE Notify
    BY <1>0, <1>3 DEF Notify, hookVars, engineVars, readerVars, waiterVars
  <1>4. CASE WakeReadsCut
    BY <1>0, <1>4 DEF WakeReadsCut, hookVars, engineVars, readerVars, waiterVars
  <1>5. CASE WakeSwapsCut
    BY <1>0, <1>5 DEF WakeSwapsCut, hookVars, engineVars, readerVars, waiterVars
  <1>6. CASE WakeTakesWritten
    BY <1>0, <1>6 DEF WakeTakesWritten, hookVars, engineVars, readerVars, waiterVars
  <1>7. CASE WakeReadsArmed
    BY <1>0, <1>7 DEF WakeReadsArmed, hookVars, engineVars, readerVars, waiterVars
  <1>8. CASE WakeClonesHook
    BY <1>0, <1>8 DEF WakeClonesHook, hookVars, engineVars, readerVars, waiterVars
  <1>9. CASE WakeDisarms
    BY <1>0, <1>9, ZenonT(60) DEF WakeDisarms, hookVars, engineVars, readerVars, waiterVars
  <1>10. CASE CallHook
    BY <1>0, <1>10 DEF CallHook, hookVars, engineVars, readerVars, waiterVars
  <1>11. CASE HookPanics
    <2>1. ehook \in 1 .. MaxHooks
      BY <1>0, <1>11 DEF HookPanics, CalledHook
    <2>2. panicked' \subseteq 1 .. MaxHooks
      BY <1>0, <1>11, <2>1 DEF HookPanics
    <2> QED
      BY <1>0, <1>11, <2>2 DEF HookPanics, hookVars, engineVars, readerVars, waiterVars
  <1>12. CASE RemoveHook
    BY <1>0, <1>12 DEF RemoveHook, AfterRemoval, hookVars, engineVars, readerVars, waiterVars
  <1>13. CASE ArmStore
    <2>1. arms' \in Nat /\ due' = FALSE /\ buffered' = TRUE /\ rpc' = "fence"
      BY <1>0, <1>13 DEF ArmStore
    <2>2. UNCHANGED <<stamp, version, written, wakeCut, armed, hookVars, panicked, pending, engineVars,
                      calls, seen, seenState, waiterVars>>
      BY <1>13 DEF ArmStore
    <2> QED
      BY <1>0, <2>1, <2>2 DEF hookVars, engineVars, waiterVars
  <1>14. CASE ArmFence
    BY <1>0, <1>14 DEF ArmFence, hookVars, engineVars, readerVars, waiterVars
  <1>15. CASE PollState
    BY <1>0, <1>15 DEF PollState, hookVars, engineVars, readerVars, waiterVars
  <1>16. CASE TakeRecords
    BY <1>0, <1>16 DEF TakeRecords, hookVars, engineVars, readerVars, waiterVars
  <1>17. CASE Drain
    <2>1. buffered' = FALSE /\ armed' = TRUE
      BY <1>17 DEF Drain
    <2>2. UNCHANGED <<stamp, version, written, wakeCut, hookVars, panicked, pending, engineVars, calls,
                      readerVars, waiterVars>>
      BY <1>17 DEF Drain
    <2> QED
      BY <1>0, <2>1, <2>2, ZenonT(60) DEF hookVars, engineVars, readerVars, waiterVars
  <1>18. CASE WaitFindsData
    BY <1>0, <1>18, ZenonT(60) DEF WaitFindsData, hookVars, engineVars, readerVars, waiterVars
  <1>19. CASE WaitSleeps
    BY <1>0, <1>19 DEF WaitSleeps, hookVars, engineVars, readerVars, waiterVars
  <1>20. CASE WaiterReads
    BY <1>0, <1>20 DEF WaiterReads, hookVars, engineVars, readerVars, waiterVars
  <1>21. ASSUME NEW some \in BOOLEAN, SetWakeHook(some) PROVE TypeOK'
    BY <1>0, <1>21 DEF SetWakeHook, hookVars, engineVars, readerVars, waiterVars
  <1>22. ASSUME NEW timedOut \in BOOLEAN, WaitWakes(timedOut) PROVE TypeOK'
    BY <1>0, <1>22, ZenonT(60) DEF WaitWakes, hookVars, engineVars, readerVars, waiterVars
  <1>23. CASE UNCHANGED vars
    BY <1>0, <1>23 DEF vars, hookVars, engineVars, readerVars, waiterVars
  <1> QED
    BY <1>1, <1>2, <1>3, <1>4, <1>5, <1>6, <1>7, <1>8, <1>9, <1>10, <1>11, <1>12, <1>13,
       <1>14, <1>15, <1>16, <1>17, <1>18, <1>19, <1>20, <1>21, <1>22, <1>23 DEF Next,
       Wake, Reader, Waiter

(* A token of leave is made by ArmStore, moved by Drain and WakeDisarms,   *)
(* and spent by CallHook or HookPanics; no other step touches one.         *)
LEMMA LeaveStep == IInv /\ [Next]_vars => LeaveIsCounted'
  <1> SUFFICES ASSUME IInv, [Next]_vars PROVE LeaveIsCounted'
    OBVIOUS
  <1> USE DEF LeaveIsCounted, One
  <1>0. /\ LeaveIsCounted /\ calls \in Nat /\ arms \in Nat
        /\ armed \in BOOLEAN /\ buffered \in BOOLEAN
    BY DEF IInv, TypeOK
  <1>1. CASE PushRecord \/ WriteState \/ Notify \/ WakeReadsCut \/ WakeSwapsCut \/ WakeTakesWritten
    BY <1>0, <1>1 DEF PushRecord, WriteState, Notify, WakeReadsCut, WakeSwapsCut, WakeTakesWritten,
                      engineVars, readerVars
  <1>2. CASE WakeReadsArmed \/ WakeClonesHook
    BY <1>0, <1>2 DEF WakeReadsArmed, WakeClonesHook, engineVars, readerVars
  <1>3. CASE WakeDisarms
    BY <1>0, <1>3 DEF WakeDisarms, engineVars, readerVars
  <1>4. CASE CallHook \/ HookPanics \/ RemoveHook
    BY <1>0, <1>4 DEF CallHook, HookPanics, RemoveHook, engineVars, readerVars
  <1>5. ASSUME NEW some \in BOOLEAN, SetWakeHook(some) PROVE LeaveIsCounted'
    BY <1>0, <1>5 DEF SetWakeHook, engineVars, readerVars
  <1>6. CASE Reader
    BY <1>0, <1>6 DEF Reader, ArmStore, ArmFence, PollState, TakeRecords, engineVars, readerVars
  <1>7. CASE Drain
    BY <1>0, <1>7 DEF Drain, engineVars, readerVars
  <1>8. CASE Waiter
    BY <1>0, <1>8 DEF Waiter, WaitFindsData, WaitSleeps, WaitWakes, WaiterReads, engineVars, readerVars
  <1>9. CASE UNCHANGED vars
    BY <1>0, <1>9 DEF vars, engineVars, readerVars
  <1> QED
    BY <1>1, <1>2, <1>3, <1>4, <1>5, <1>6, <1>7, <1>8, <1>9 DEF Next, Wake

(* News is paid for as it is pushed or written, claimed at the swap and at *)
(* the mark, and spent at the call.                                        *)
LEMMA NewsStep == IInv /\ [Next]_vars => NewsIsCounted'
  <1> SUFFICES ASSUME IInv, [Next]_vars PROVE NewsIsCounted'
    OBVIOUS
  <1> USE DEF NewsIsCounted, Carrying, One
  <1>0. /\ NewsIsCounted /\ calls \in Nat /\ stamp \in Nat /\ version \in Nat /\ wakeCut \in Nat
        /\ ecut \in Nat /\ written \in BOOLEAN /\ news \in BOOLEAN
    BY DEF IInv, TypeOK
  <1>1. CASE PushRecord \/ WriteState \/ Notify \/ WakeReadsCut
    BY <1>0, <1>1 DEF PushRecord, WriteState, Notify, WakeReadsCut, engineVars
  <1>2. CASE WakeSwapsCut
    <2>1. CASE wakeCut = ecut
      <3>1. news' = FALSE
        BY <1>2, <2>1 DEF WakeSwapsCut
      <3> QED
        BY <1>0, <1>2, <2>1, <3>1 DEF WakeSwapsCut, engineVars
    <2>2. CASE wakeCut # ecut
      <3>1. news' = TRUE
        BY <1>2, <2>2 DEF WakeSwapsCut
      <3> QED
        BY <1>0, <1>2, <2>2, <3>1 DEF WakeSwapsCut, engineVars
    <2> QED
      BY <2>1, <2>2
  <1>3. CASE WakeTakesWritten
    BY <1>0, <1>3 DEF WakeTakesWritten, engineVars
  <1>4. CASE WakeReadsArmed \/ WakeClonesHook \/ WakeDisarms
    BY <1>0, <1>4 DEF WakeReadsArmed, WakeClonesHook, WakeDisarms, engineVars
  <1>5. CASE CallHook \/ HookPanics \/ RemoveHook
    BY <1>0, <1>5 DEF CallHook, HookPanics, RemoveHook, engineVars
  <1>6. ASSUME NEW some \in BOOLEAN, SetWakeHook(some) PROVE NewsIsCounted'
    BY <1>0, <1>6 DEF SetWakeHook, engineVars
  <1>7. CASE Reader \/ Drain
    BY <1>0, <1>7 DEF Reader, ArmStore, ArmFence, PollState, TakeRecords, Drain, engineVars
  <1>8. CASE Waiter
    BY <1>0, <1>8 DEF Waiter, WaitFindsData, WaitSleeps, WaitWakes, WaiterReads, engineVars
  <1>9. CASE UNCHANGED vars
    BY <1>0, <1>9 DEF vars, engineVars
  <1> QED
    BY <1>1, <1>2, <1>3, <1>4, <1>5, <1>6, <1>7, <1>8, <1>9 DEF Next, Wake

(* What the engine has in its hand is a hook, and only HookPanics, which   *)
(* notes the panic, leads to the removal.                                  *)
LEMMA HookStep == IInv /\ [Next]_vars => CalledHook' /\ HookSurvivesAnothersPanic'
  <1> SUFFICES ASSUME IInv, [Next]_vars PROVE CalledHook' /\ HookSurvivesAnothersPanic'
    OBVIOUS
  <1> USE DEF CalledHook, HookSurvivesAnothersPanic, NoHook
  <1>0. CalledHook /\ HookSurvivesAnothersPanic /\ hooks \in Nat
    BY DEF IInv, TypeOK
  <1>1. CASE PushRecord \/ WriteState \/ Notify
    BY <1>0, <1>1 DEF PushRecord, WriteState, Notify, hookVars, engineVars
  <1>2. CASE WakeReadsCut \/ WakeSwapsCut \/ WakeTakesWritten \/ WakeReadsArmed
    BY <1>0, <1>2 DEF WakeReadsCut, WakeSwapsCut, WakeTakesWritten, WakeReadsArmed, hookVars, engineVars
  <1>3. CASE WakeClonesHook \/ WakeDisarms \/ CallHook \/ HookPanics
    BY <1>0, <1>3 DEF WakeClonesHook, WakeDisarms, CallHook, HookPanics, hookVars, engineVars
  <1>4. CASE RemoveHook
    BY <1>0, <1>4 DEF RemoveHook, AfterRemoval, hookVars, engineVars
  <1>5. ASSUME NEW some \in BOOLEAN, SetWakeHook(some) PROVE CalledHook' /\ HookSurvivesAnothersPanic'
    BY <1>0, <1>5 DEF SetWakeHook, hookVars, engineVars
  <1>6. CASE Reader \/ Drain
    BY <1>0, <1>6 DEF Reader, ArmStore, ArmFence, PollState, TakeRecords, Drain, hookVars, engineVars
  <1>7. CASE Waiter
    BY <1>0, <1>7 DEF Waiter, WaitFindsData, WaitSleeps, WaitWakes, WaiterReads, hookVars, engineVars
  <1>8. CASE UNCHANGED vars
    BY <1>0, <1>8 DEF vars, hookVars, engineVars
  <1> QED
    BY <1>1, <1>2, <1>3, <1>4, <1>5, <1>6, <1>7, <1>8 DEF Next, Wake

(* The invariant holds of every reachable state. *)
THEOREM Inductive == Spec => []IInv
  <1>1. IInv /\ [Next]_vars => IInv'
    BY TypeStep, LeaveStep, NewsStep, HookStep DEF IInv
  <1> QED
    BY InitIInv, <1>1, PTL DEF Spec

(* Every variable keeps its type (notify, wake, set_wake_hook, arm_wake    *)
(* and wait_for_data, however they interleave).                            *)
THEOREM TypeCorrect == Spec => []TypeOK
  <1>1. IInv => TypeOK
    BY DEF IInv
  <1> QED
    BY Inductive, <1>1, PTL

(* wake calls the hook at most once until the next read begins, and never  *)
(* without a record or a write to pay for the call.                        *)
THEOREM EveryCallIsDue == Spec => []CallsAreDue
  <1>1. IInv => CallsAreDue
    BY DEF IInv, TypeOK, LeaveIsCounted, NewsIsCounted, Carrying, One, CallsAreDue, OneCallPerRead, CallsNeedNews
  <1> QED
    BY Inductive, <1>1, PTL

(* A hook set while another was panicking on the engine's thread stays.    *)
THEOREM SuccessorSurvives == Spec => []HookSurvivesAnothersPanic
  <1>1. IInv => HookSurvivesAnothersPanic
    BY DEF IInv
  <1> QED
    BY Inductive, <1>1, PTL
=============================================================================
