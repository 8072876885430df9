-------------------------- MODULE CrossCore_proofs --------------------------
(***************************************************************************)
(* Proofs about CrossCore, for every size of the path table, every number  *)
(* of calls, of captures and every set of LED requests.                    *)
(***************************************************************************)
EXTENDS CrossCore, TLAPS

USE DEF PathIds, Cleared, Edits

(* Every step gives the flags values of their types.                       *)
LEMMA FlagStep == TypeOK /\ Next => FlagType'
<1> SUFFICES ASSUME TypeOK, Next PROVE FlagType'
  OBVIOUS
<1> USE CrossCoreAssumption DEF TypeOK, FlagType
<1>1. CASE Core0Call
  <2>1. CASE CallLeds
    <3>1. PICK led \in LedOptions : flag' = [flag EXCEPT !.showLEDsCore2 = led]
      BY <2>1 DEF CallLeds
    <3> QED
      BY <3>1
  <2>2. CASE CallFlash
    BY <2>2 DEF CallFlash
  <2>3. CASE UNCHANGED flag
    BY <2>3
  <2> QED
    BY <1>1, <2>1, <2>2, <2>3 DEF Core0Call, CallRefresh, CallRefreshLocal,
       CallShared
<1>2. CASE Core0Step
  <2>1. CASE PostLeds
    BY <2>1 DEF PostLeds, Core0Type
  <2>2. CASE LocalPostLeds
    BY <2>2 DEF LocalPostLeds, Core0Type
  <2>3. CASE FlashEnd
    <3>1. r0.wasPaused \in BOOLEAN
      BY DEF Core0Type
    <3> QED
    BY <2>3, <3>1, Zenon DEF FlashEnd
  <2>4. CASE UNCHANGED flag
    BY <2>4
  <2>5. CASE WaitCore2Timeout \/ Pause \/ ClearPaths \/ Unpause \/ PostSend
    BY <2>5 DEF WaitCore2Timeout, Pause, ClearPaths, Unpause, PostSend
  <2>6. CASE \/ WaitDoneTimeout \/ LocalWaitTimeout \/ LocalPost
             \/ CoreSyncAcquire \/ CoreSyncRelease
    BY <2>6 DEF WaitDoneTimeout, LocalWaitTimeout, LocalPost, CoreSyncAcquire,
       CoreSyncRelease
  <2> QED
    BY <1>2, <2>1, <2>2, <2>3, <2>4, <2>5, <2>6 DEF Core0Step, WaitCore2Busy,
       WaitCore2Sent, RoutePath, WaitDone, ReadTermColors, LocalWait,
       FlashWait, FlashPark
<1>3. CASE Core2Step
  <2>1. CASE LoopStep
    <3>1. CASE DecodeStore
      BY <3>1 DEF DecodeStore, Mode, Core2Type
    <3>2. CASE EnterCore2stuff \/ CheckBypass \/ TryLock \/ CheckPause
      BY <3>2 DEF EnterCore2stuff, CheckBypass, TryLock, CheckPause
    <3>3. CASE RequestMenuFrame
      BY <3>3 DEF RequestMenuFrame
    <3>4. CASE StartLedFrame \/ IdlePass
      <4>1. /\ flag'.core2busy \in BOOLEAN
            /\ flag' = [flag EXCEPT !.core2busy = flag'.core2busy]
        BY <3>4 DEF StartLedFrame, IdlePass
      <4> QED
        BY <4>1
    <3>5. CASE ReleaseLock \/ ReadAdc
      BY <3>5 DEF ReleaseLock, ReadAdc
    <3>6. CASE UNCHANGED flag
      BY <3>6
    <3> QED
      BY <2>1, <3>1, <3>2, <3>3, <3>4, <3>5, <3>6 DEF LoopStep, LoopPaused,
         PausedBypass, MenuFrameDue, DecodeLoad, SkipPass, StartSend, SkipAdc
  <2>2. CASE SendStep
    BY <2>2 DEF SendStep, SendStart, SendPath, SendDone, Acknowledge,
       SendRelease
  <2>3. CASE FrameStep
    <3>1. CASE \/ EndSwirl \/ StartNets \/ CheckPauseNets
               \/ ShowNets \/ DrawOverlays
      BY <3>1 DEF EndSwirl, StartNets, CheckPauseNets, ShowNets, DrawOverlays
    <3>2. CASE CheckPauseMenu \/ StartMenu \/ DrawMenu \/ ShowLeds
      BY <3>2 DEF CheckPauseMenu, StartMenu, DrawMenu, ShowLeds
    <3>3. CASE ClearRequest
      BY <3>3 DEF ClearRequest
    <3>4. CASE FrameEnd
      BY <3>4 DEF FrameEnd
    <3>5. CASE UNCHANGED flag
      BY <3>5
    <3> QED
      BY <2>3, <3>1, <3>2, <3>3, <3>4, <3>5 DEF FrameStep, CompareRequest
  <2> QED
    BY <1>3, <2>1, <2>2, <2>3 DEF Core2Step
<1>4. CASE Capture
  BY <1>4 DEF Capture, StartCapture, StopCapture
<1> QED
  BY <1>1, <1>2, <1>3, <1>4 DEF Next

(* Every step keeps the tables functions from entries to edits.            *)
LEMMA DataStep == TypeOK /\ Next => DataType'
<1> SUFFICES ASSUME TypeOK, Next PROVE DataType'
  OBVIOUS
<1> USE CrossCoreAssumption DEF TypeOK, DataType, data
<1>1. CASE Core0Call
  <2>1. CASE UNCHANGED data
    BY <2>1
  <2>2. CASE CallRefresh \/ CallRefreshLocal
    <3>1. r0.calls < MaxCalls /\ r0.calls \in 0..MaxCalls
      BY <2>2 DEF CallRefresh, CallRefreshLocal, Begin, Core0Type
    <3>2. r0.calls + 2 \in Edits \ {Cleared}
      BY <3>1
    <3>3. bridges' = r0.calls + 2 /\ UNCHANGED <<paths, netColors, crossbar>>
      BY <2>2 DEF CallRefresh, CallRefreshLocal
    <3> QED
      BY <3>2, <3>3
  <2> QED
    BY <1>1, <2>1, <2>2 DEF Core0Call, CallFlash, CallShared, CallLeds
<1>2. CASE Core0Step
  <2>1. CASE UNCHANGED data
    BY <2>1
  <2>2. CASE ClearPaths
    <3>1. paths' = [i \in PathIds |-> Cleared]
      BY <2>2 DEF ClearPaths
    <3>2. UNCHANGED <<bridges, netColors, crossbar>>
      BY <2>2 DEF ClearPaths
    <3> QED
      BY <3>1, <3>2
  <2>3. CASE RoutePath
    BY <2>3 DEF RoutePath
  <2> QED
    BY <1>2, <2>1, <2>2, <2>3 DEF Core0Step, WaitCore2Busy, WaitCore2Sent,
       WaitCore2Timeout, Pause, Unpause, PostSend, WaitDone, WaitDoneTimeout,
       PostLeds, ReadTermColors, LocalWait, LocalWaitTimeout, LocalPost,
       LocalPostLeds, FlashWait, FlashPark, FlashEnd, CoreSyncAcquire,
       CoreSyncRelease
<1>3. CASE Core2Step
  <2>1. CASE LoopStep
    BY <2>1 DEF LoopStep, LoopPaused, PausedBypass, EnterCore2stuff,
       CheckBypass, TryLock, CheckPause, MenuFrameDue, RequestMenuFrame,
       DecodeLoad, DecodeStore, SkipPass, StartLedFrame, StartSend, IdlePass,
       ReleaseLock, SkipAdc, ReadAdc
  <2>2. CASE SendStep
    <3>1. CASE SendStart
      BY <3>1 DEF SendStart
    <3>2. CASE SendPath
      BY <3>2 DEF SendPath, Core2Type
    <3>3. CASE UNCHANGED data
      BY <3>3
    <3> QED
      BY <2>2, <3>1, <3>2, <3>3 DEF SendStep, SendDone, Acknowledge,
         SendRelease
  <2>3. CASE FrameStep
    <3>1. CASE ShowNets
      BY <3>1 DEF ShowNets
    <3>2. CASE UNCHANGED data
      BY <3>2
    <3> QED
      BY <2>3, <3>1, <3>2 DEF FrameStep, EndSwirl, StartNets, CheckPauseNets,
         DrawOverlays, CheckPauseMenu, StartMenu, DrawMenu, ShowLeds,
         CompareRequest, ClearRequest, FrameEnd
  <2> QED
    BY <1>3, <2>1, <2>2, <2>3 DEF Core2Step
<1>4. CASE Capture
  BY <1>4 DEF Capture, StartCapture, StopCapture
<1> QED
  BY <1>1, <1>2, <1>3, <1>4 DEF Next

(* Every step keeps Core 0's counter and registers in their ranges.        *)
LEMMA Core0StepType == TypeOK /\ Next => Core0Type'
<1> SUFFICES ASSUME TypeOK, Next PROVE Core0Type'
  OBVIOUS
<1> USE CrossCoreAssumption DEF TypeOK, Core0Type, Go0, Pc0Names
<1>1. CASE Core0Call
  <2>1. r0.calls < MaxCalls => r0.calls + 1 \in 0..MaxCalls
    OBVIOUS
  <2>2. CASE CallRefresh
    <3>1. PICK led \in LedOptions \cup {0}, clean \in BOOLEAN :
            r0' = [r0 EXCEPT !.call = "full", !.led = led, !.clean = clean,
                             !.return = "pause", !.calls = @ + 1]
      BY <2>2 DEF CallRefresh
    <3> QED
      BY <2>1, <2>2, <3>1 DEF CallRefresh, Begin
  <2>3. CASE CallRefreshLocal
    <3>1. PICK name \in {"local", "localWait"}, led \in LedOptions \cup {0} :
            r0' = [r0 EXCEPT !.call = name, !.led = led, !.return = "idle",
                             !.calls = @ + 1]
      BY <2>3 DEF CallRefreshLocal
    <3> QED
      BY <2>1, <2>3, <3>1 DEF CallRefreshLocal, Begin
  <2>4. CASE CallFlash
    <3> DEFINE was == flag.pauseCore2
    <3>1. /\ r0' = [r0 EXCEPT !.wasPaused = was, !.calls = @ + 1]
          /\ was \in BOOLEAN
          /\ pc0' = "flash_wait"
          /\ r0.calls < MaxCalls
      BY <2>4 DEF CallFlash, Begin, FlagType
    <3> HIDE DEF was
    <3> QED
      BY <2>1, <3>1
  <2>5. CASE CallShared \/ CallLeds
    BY <2>1, <2>5 DEF CallShared, CallLeds, Begin
  <2> QED
    BY <1>1, <2>2, <2>3, <2>4, <2>5 DEF Core0Call
<1>2. CASE Core0Step
  <2>1. CASE ClearPaths
    BY <2>1 DEF ClearPaths
  <2>2. CASE RoutePath
    BY <2>2 DEF RoutePath
  <2>3. CASE PostLeds
    BY <2>3 DEF PostLeds
  <2>4. CASE WaitCore2Busy \/ WaitCore2Sent \/ WaitCore2Timeout
    BY <2>4 DEF WaitCore2Busy, WaitCore2Sent, WaitCore2Timeout
  <2>5. CASE Pause \/ Unpause \/ PostSend
    BY <2>5 DEF Pause, Unpause, PostSend
  <2>6. CASE WaitDone \/ WaitDoneTimeout \/ ReadTermColors
    BY <2>6 DEF WaitDone, WaitDoneTimeout, ReadTermColors, AfterSend
  <2>7. CASE LocalWait \/ LocalWaitTimeout \/ LocalPost \/ LocalPostLeds
    BY <2>7 DEF LocalWait, LocalWaitTimeout, LocalPost, LocalPostLeds,
       AfterLocal
  <2>8. CASE FlashWait \/ FlashPark \/ FlashEnd
    BY <2>8 DEF FlashWait, FlashPark, FlashEnd
  <2>9. CASE CoreSyncAcquire \/ CoreSyncRelease
    BY <2>9 DEF CoreSyncAcquire, CoreSyncRelease
  <2> QED
    BY <1>2, <2>1, <2>2, <2>3, <2>4, <2>5, <2>6, <2>7, <2>8, <2>9 DEF
       Core0Step
<1>3. CASE Core2Step
  <2>1. UNCHANGED core0
    BY <1>3 DEF Core2Step, LoopStep, SendStep, FrameStep, Go2, LoopPaused,
       PausedBypass, EnterCore2stuff, CheckBypass, TryLock, CheckPause,
       MenuFrameDue, RequestMenuFrame, DecodeLoad, DecodeStore, SkipPass,
       StartLedFrame, StartSend, IdlePass, ReleaseLock, SkipAdc, ReadAdc,
       SendStart, SendPath, SendDone, Acknowledge, SendRelease, EndSwirl,
       StartNets, CheckPauseNets, ShowNets, DrawOverlays, CheckPauseMenu,
       StartMenu, DrawMenu, ShowLeds, CompareRequest, ClearRequest, FrameEnd
  <2> QED
    BY <2>1 DEF core0
<1>4. CASE Capture
  BY <1>4 DEF Capture, StartCapture, StopCapture, Go2, core0
<1> QED
  BY <1>1, <1>2, <1>3, <1>4 DEF Next

(* Every step keeps Core 2's counter and registers in their ranges.        *)
LEMMA Core2StepType == TypeOK /\ Next => Core2Type'
<1> SUFFICES ASSUME TypeOK, Next PROVE Core2Type'
  OBVIOUS
<1> USE CrossCoreAssumption
    DEF TypeOK, Core2Type, Go2, Pc2Names, PassPcs, SendPcs, FramePcs
<1>1. CASE Core0Call \/ Core0Step
  <2>1. UNCHANGED core2
    BY <1>1 DEF Core0Call, Core0Step, Go0, CallRefresh, CallRefreshLocal,
       CallFlash, CallShared, CallLeds, WaitCore2Busy, WaitCore2Sent,
       WaitCore2Timeout, Pause, ClearPaths, RoutePath, Unpause, PostSend,
       WaitDone, WaitDoneTimeout, PostLeds, ReadTermColors, LocalWait,
       LocalWaitTimeout, LocalPost, LocalPostLeds, FlashWait, FlashPark,
       FlashEnd, CoreSyncAcquire, CoreSyncRelease
  <2> QED
    BY <2>1 DEF core2
<1>2. CASE LoopStep
  <2>1. CASE PausedBypass
    BY <2>1 DEF PausedBypass
  <2>2. CASE EnterCore2stuff \/ TryLock \/ CheckPause
    BY <2>2 DEF EnterCore2stuff, TryLock, CheckPause
  <2>3. CASE CheckBypass
    BY <2>3 DEF CheckBypass
  <2>4. CASE DecodeLoad
    BY <2>4 DEF DecodeLoad, FlagType
  <2>5. CASE LoopPaused \/ MenuFrameDue \/ RequestMenuFrame \/ DecodeStore
    BY <2>5 DEF LoopPaused, MenuFrameDue, RequestMenuFrame, DecodeStore
  <2>6. CASE StartLedFrame
    BY <2>6 DEF StartLedFrame, FlagType
  <2>7. CASE StartSend
    <3> DEFINE c == (flag.sendAllPathsCore2 = -1)
    <3>1. /\ r2' = [r2 EXCEPT !.clean = c, !.from = "pass"]
          /\ c \in BOOLEAN
          /\ pc2' = "send_start"
      BY <2>7 DEF StartSend
    <3> HIDE DEF c
    <3> QED
      BY <3>1
  <2>8. CASE IdlePass
    <3>1. PICK tick \in BOOLEAN : r2' = [r2 EXCEPT !.swirled = tick]
      BY <2>8 DEF IdlePass
    <3> QED
      BY <2>8, <3>1 DEF IdlePass
  <2>9. CASE SkipPass \/ ReleaseLock \/ SkipAdc \/ ReadAdc
    BY <2>9 DEF SkipPass, ReleaseLock, SkipAdc, ReadAdc
  <2> QED
    BY <1>2, <2>1, <2>2, <2>3, <2>4, <2>5, <2>6, <2>7, <2>8, <2>9 DEF LoopStep
<1>3. CASE SendStep
  <2>1. CASE SendStart
    BY <2>1 DEF SendStart
  <2>2. CASE SendPath
    BY <2>2 DEF SendPath
  <2>3. CASE SendDone \/ Acknowledge \/ SendRelease
    BY <2>3 DEF SendDone, Acknowledge, SendRelease
  <2> QED
    BY <1>3, <2>1, <2>2, <2>3 DEF SendStep
<1>4. CASE FrameStep
  <2>1. CASE FrameEnd
    BY <2>1 DEF FrameEnd
  <2>2. CASE EndSwirl \/ StartNets \/ CheckPauseNets \/ ShowNets \/ DrawOverlays
    BY <2>2 DEF EndSwirl, StartNets, CheckPauseNets, ShowNets, DrawOverlays
  <2>3. CASE CheckPauseMenu \/ StartMenu \/ DrawMenu \/ ShowLeds
    BY <2>3 DEF CheckPauseMenu, StartMenu, DrawMenu, ShowLeds
  <2>4. CASE CompareRequest \/ ClearRequest
    BY <2>4 DEF CompareRequest, ClearRequest
  <2> QED
    BY <1>4, <2>1, <2>2, <2>3, <2>4 DEF FrameStep
<1>5. CASE StartCapture
  <2>1. /\ r2' = [r2 EXCEPT !.capturing = TRUE, !.captures = @ + 1]
        /\ r2.captures < MaxCaptures
        /\ pc2' = "loop"
    BY <1>5 DEF StartCapture
  <2>2. r2.captures + 1 \in 0..MaxCaptures
    BY <2>1
  <2> QED
    BY <2>1, <2>2
<1>6. CASE StopCapture
  <2>1. r2' = [r2 EXCEPT !.capturing = FALSE] /\ pc2' = "loop"
    BY <1>6 DEF StopCapture
  <2> QED
    BY <2>1
<1> QED
  BY <1>1, <1>2, <1>3, <1>4, <1>5, <1>6 DEF Next, Core2Step, Capture

(* The initial values are well typed ...                                    *)
LEMMA TypeInit == Init => TypeOK
<1> SUFFICES ASSUME Init PROVE TypeOK
  OBVIOUS
<1> USE CrossCoreAssumption DEF Init
<1>1. FlagType
  BY DEF FlagType
<1>2. DataType
  BY DEF DataType
<1>3. Core0Type
  BY DEF Core0Type, Pc0Names
<1>4. Core2Type
  BY DEF Core2Type, Pc2Names
<1> QED
  BY <1>1, <1>2, <1>3, <1>4 DEF TypeOK

(* ... and every step keeps them so.                                       *)
LEMMA TypeStep == TypeOK /\ [Next]_vars => TypeOK'
<1> SUFFICES ASSUME TypeOK, [Next]_vars PROVE TypeOK'
  OBVIOUS
<1>1. CASE Next
  BY <1>1, FlagStep, DataStep, Core0StepType, Core2StepType DEF TypeOK
<1>2. CASE UNCHANGED vars
  BY <1>2 DEF vars, data, core0, core2, TypeOK, FlagType, DataType, Core0Type,
     Core2Type
<1> QED
  BY <1>1, <1>2

(* Every flag, table and register keeps to the values the code gives it.   *)
THEOREM TypeCorrect == Spec => []TypeOK
  BY TypeInit, TypeStep, PTL DEF Spec

(* What a step of one core leaves alone of the other core's state.         *)
LEMMA Core0Frame ==
  ASSUME Core0Call \/ Core0Step
  PROVE  UNCHANGED <<pc2, r2, netColors, crossbar>>
  BY DEF Core0Call, Core0Step, Go0, core2, data, CallRefresh,
     CallRefreshLocal, CallFlash, CallShared, CallLeds, WaitCore2Busy,
     WaitCore2Sent, WaitCore2Timeout, Pause, ClearPaths, RoutePath, Unpause,
     PostSend, WaitDone, WaitDoneTimeout, PostLeds, ReadTermColors, LocalWait,
     LocalWaitTimeout, LocalPost, LocalPostLeds, FlashWait, FlashPark,
     FlashEnd, CoreSyncAcquire, CoreSyncRelease

(* ... and the same for Core 2.                                            *)
LEMMA Core2Frame ==
  ASSUME Core2Step \/ Capture
  PROVE  UNCHANGED <<pc0, r0, bridges, paths>>
  BY DEF Core2Step, Capture, LoopStep, SendStep, FrameStep, Go2, core0, data,
     LoopPaused, PausedBypass, StartCapture, StopCapture, EnterCore2stuff,
     CheckBypass, TryLock, CheckPause, MenuFrameDue, RequestMenuFrame,
     DecodeLoad, DecodeStore, SkipPass, StartLedFrame, StartSend, IdlePass,
     ReleaseLock, SkipAdc, ReadAdc, SendStart, SendPath, SendDone,
     Acknowledge, SendRelease, EndSwirl, StartNets, CheckPauseNets, ShowNets,
     DrawOverlays, CheckPauseMenu, StartMenu, DrawMenu, ShowLeds,
     CompareRequest, ClearRequest, FrameEnd

-----------------------------------------------------------------------------
(* core_sync.  No condition is needed: whatever times out and whatever is  *)
(* called, every return from core2stuff has given the mutex back.          *)

(* The places of Core 2's code between an acquire and its release.         *)
Core2Holds ==
  \/ pc2 \in PassPcs \cup FramePcs
  \/ pc2 \in SendPcs /\ r2.from # "paused"

(* A step of Core 0 that is none of the two of the mutex leaves its owner. *)
LEMMA Core0Sync ==
  ASSUME TypeOK, Core0Call \/ Core0Step, ~CoreSyncAcquire, ~CoreSyncRelease
  PROVE  /\ flag'.coreSync = flag.coreSync
         /\ pc0 # "shared" /\ pc0' # "shared"
<1> USE DEF TypeOK, FlagType, Core0Type, Go0
<1>1. CASE Core0Call
  <2>1. CASE CallFlash
    BY <2>1 DEF CallFlash, Begin
  <2>2. CASE CallLeds
    BY <2>2 DEF CallLeds, Begin
  <2>3. CASE CallRefresh \/ CallRefreshLocal \/ CallShared
    BY <2>3 DEF CallRefresh, CallRefreshLocal, CallShared, Begin
  <2> QED
    BY <1>1, <2>1, <2>2, <2>3 DEF Core0Call
<1>2. CASE Core0Step
  <2>1. CASE WaitCore2Busy \/ WaitCore2Sent \/ WaitCore2Timeout
    BY <2>1 DEF WaitCore2Busy, WaitCore2Sent, WaitCore2Timeout
  <2>2. CASE Pause \/ ClearPaths \/ RoutePath \/ Unpause
    BY <2>2 DEF Pause, ClearPaths, RoutePath, Unpause
  <2>3. CASE PostSend
    BY <2>3 DEF PostSend
  <2>4. CASE WaitDone \/ WaitDoneTimeout \/ PostLeds \/ ReadTermColors
    BY <2>4 DEF WaitDone, WaitDoneTimeout, PostLeds, ReadTermColors, AfterSend
  <2>5. CASE LocalWait \/ LocalWaitTimeout \/ LocalPost \/ LocalPostLeds
    BY <2>5 DEF LocalWait, LocalWaitTimeout, LocalPost, LocalPostLeds,
       AfterLocal
  <2>6. CASE FlashWait \/ FlashPark
    BY <2>6 DEF FlashWait, FlashPark
  <2>7. CASE FlashEnd
    BY <2>7 DEF FlashEnd
  <2> QED
    BY <1>2, <2>1, <2>2, <2>3, <2>4, <2>5, <2>6, <2>7 DEF Core0Step
<1> QED
  BY <1>1, <1>2

(* A step of Core 2 takes the free mutex, or gives its own back, exactly   *)
(* where it enters or leaves the code that needs it.                       *)
LEMMA Core2Sync ==
  ASSUME TypeOK, Core2Step \/ Capture
  PROVE  \/ flag'.coreSync = flag.coreSync /\ (Core2Holds' <=> Core2Holds)
         \/ /\ flag.coreSync = "none" /\ ~Core2Holds
            /\ flag'.coreSync = "core2" /\ Core2Holds'
         \/ /\ Core2Holds
            /\ flag'.coreSync = "none" /\ ~Core2Holds'
<1> USE DEF TypeOK, FlagType, Core2Type, Core2Holds, PassPcs, SendPcs,
        FramePcs, Go2
<1>1. CASE LoopStep
  <2>1. CASE LoopPaused
    BY <2>1 DEF LoopPaused
  <2>2. CASE PausedBypass
    BY <2>2 DEF PausedBypass
  <2>3. CASE EnterCore2stuff
    BY <2>3 DEF EnterCore2stuff
  <2>4. CASE CheckBypass
    BY <2>4 DEF CheckBypass
  <2>5. CASE TryLock
    BY <2>5 DEF TryLock
  <2>6. CASE CheckPause
    BY <2>6 DEF CheckPause
  <2>7. CASE MenuFrameDue \/ RequestMenuFrame \/ DecodeStore \/ SkipPass
    BY <2>7 DEF MenuFrameDue, RequestMenuFrame, DecodeStore, SkipPass
  <2>8. CASE DecodeLoad
    BY <2>8 DEF DecodeLoad
  <2>9. CASE StartLedFrame
    BY <2>9 DEF StartLedFrame
  <2>10. CASE StartSend
    BY <2>10 DEF StartSend
  <2>11. CASE IdlePass
    BY <2>11 DEF IdlePass
  <2>12. CASE ReleaseLock
    BY <2>12 DEF ReleaseLock
  <2>13. CASE SkipAdc \/ ReadAdc
    BY <2>13 DEF SkipAdc, ReadAdc
  <2> QED
    BY <1>1, <2>1, <2>2, <2>3, <2>4, <2>5, <2>6, <2>7, <2>8, <2>9, <2>10,
       <2>11, <2>12, <2>13 DEF LoopStep
<1>2. CASE SendStep
  <2>1. CASE SendStart
    BY <2>1 DEF SendStart
  <2>2. CASE SendPath
    BY <2>2 DEF SendPath
  <2>3. CASE SendDone
    BY <2>3 DEF SendDone
  <2>4. CASE Acknowledge
    BY <2>4 DEF Acknowledge
  <2>5. CASE SendRelease
    BY <2>5 DEF SendRelease
  <2> QED
    BY <1>2, <2>1, <2>2, <2>3, <2>4, <2>5 DEF SendStep
<1>3. CASE FrameStep
  <2>1. CASE EndSwirl
    BY <2>1 DEF EndSwirl
  <2>2. CASE CheckPauseNets
    BY <2>2 DEF CheckPauseNets
  <2>3. CASE CheckPauseMenu
    BY <2>3 DEF CheckPauseMenu
  <2>4. CASE StartNets \/ ShowNets \/ DrawOverlays \/ StartMenu
    BY <2>4 DEF StartNets, ShowNets, DrawOverlays, StartMenu
  <2>5. CASE DrawMenu \/ ShowLeds
    BY <2>5 DEF DrawMenu, ShowLeds
  <2>6. CASE CompareRequest \/ ClearRequest \/ FrameEnd
    BY <2>6 DEF CompareRequest, ClearRequest, FrameEnd
  <2> QED
    BY <1>3, <2>1, <2>2, <2>3, <2>4, <2>5, <2>6 DEF FrameStep
<1>4. CASE Capture
  BY <1>4 DEF Capture, StartCapture, StopCapture
<1> QED
  BY <1>1, <1>2, <1>3, <1>4 DEF Core2Step

(* The mutex has the owner the two program counters say, at every step.    *)
LEMMA CoreSyncStep ==
  ASSUME TypeOK, CoreSyncHeld, [Next]_vars
  PROVE  CoreSyncHeld'
<1> USE DEF CoreSyncHeld
<1>1. flag.coreSync = "core2" <=> Core2Holds
  BY DEF Core2Holds
<1>2. CASE CoreSyncAcquire \/ CoreSyncRelease
  <2>1. UNCHANGED <<pc2, r2>>
    BY <1>2, Core0Frame DEF Core0Step
  <2>2. \/ flag.coreSync = "none" /\ flag'.coreSync = "core0" /\ pc0' = "shared"
        \/ flag.coreSync = "core0" /\ flag'.coreSync = "none" /\ pc0' = "idle"
    BY <1>2 DEF CoreSyncAcquire, CoreSyncRelease, Go0, TypeOK, FlagType
  <2> QED
    BY <2>1, <2>2
<1>3. CASE (Core0Call \/ Core0Step) /\ ~CoreSyncAcquire /\ ~CoreSyncRelease
  <2>1. UNCHANGED <<pc2, r2>>
    BY <1>3, Core0Frame
  <2>2. flag'.coreSync = flag.coreSync /\ pc0 # "shared" /\ pc0' # "shared"
    BY <1>3, Core0Sync
  <2> QED
    BY <2>1, <2>2
<1>4. CASE Core2Step \/ Capture
  <2>1. pc0' = pc0
    BY <1>4, Core2Frame
  <2>2. /\ flag'.coreSync = "core2" <=> Core2Holds'
        /\ flag'.coreSync = "core0" <=> flag.coreSync = "core0"
    BY <1>1, <1>4, Core2Sync
  <2> QED
    BY <2>1, <2>2 DEF Core2Holds
<1>5. CASE UNCHANGED vars
  BY <1>5 DEF vars, core0, core2
<1> QED
  BY <1>2, <1>3, <1>4, <1>5 DEF Next

(* core_sync always has the owner that is in its critical section, and no  *)
(* other: both cores never hold it, and no early return forgets it.        *)
THEOREM CoreSyncCorrect == Spec => []CoreSyncHeld
<1>1. Init => CoreSyncHeld
  BY DEF Init, CoreSyncHeld, PassPcs, SendPcs, FramePcs
<1> QED
  BY <1>1, TypeInit, TypeStep, CoreSyncStep, PTL DEF Spec

-----------------------------------------------------------------------------
(* The handshake.  A refresh that does not return before its request was   *)
(* taken, and waits that are not cut short, are what makes the flags       *)
(* protect the path table: refreshLocalConnections is always followed by   *)
(* waitCore2, and neither deadline that drops a request passes.            *)
Waiting ==
  "local" \notin Calls /\ "wait25" \notin Timeouts /\ "wait1000" \notin Timeouts

(* A request is outstanding only while Core 0 waits for its answer.        *)
PendingInv ==
  flag.sendAllPathsCore2 # 0 =>
    \/ pc0 = "wait_done"
    \/ pc0 \in {"local_leds", "wait_busy", "wait_sent"} /\ r0.return = "idle"

(* Where in its code Core 0 is tells which refresh it runs.                *)
CallInv ==
  /\ r0.call # "local"
  /\ r0.call = "localWait" => r0.return = "idle"
  /\ pc0 \in {"pause", "clear", "unpause", "post", "wait_done", "leds",
              "term"} => r0.call = "full"
  /\ pc0 \in {"local_wait", "local_clear", "local_post", "local_leds"}
       => r0.call = "localWait"

(* Core 2 sends only on a request, and the request outlives the send.      *)
ServingInv ==
  pc2 \in {"send_start", "send", "send_done", "ack"}
    => flag.sendAllPathsCore2 # 0

(* The table is whole but during a rebuild, which has routed a prefix.     *)
TableInv ==
  /\ pc0 # "rebuild" => Whole(paths)
  /\ pc0 = "rebuild" => \A i \in 1..(r0.index - 1) : paths[i] = bridges

(* The chips hold a whole routing but during a send, which has copied a    *)
(* prefix of the table.                                                    *)
CrossbarInv ==
  /\ pc2 # "send" => Whole(crossbar)
  /\ pc2 = "send" => \A i \in 1..(r2.index - 1) : crossbar[i] = paths[i]

HandshakeInv ==
  TypeOK /\ PendingInv /\ CallInv /\ ServingInv /\ TableInv /\ CrossbarInv

(* Core 0 never withdraws a request when no deadline passes ...            *)
LEMMA Core0Keeps ==
  ASSUME TypeOK, Waiting, Core0Call \/ Core0Step
  PROVE  \/ flag'.sendAllPathsCore2 = flag.sendAllPathsCore2
         \/ /\ pc0 \in {"post", "local_post"}
            /\ flag'.sendAllPathsCore2 # 0
<1> USE DEF TypeOK, FlagType, Waiting, Go0
<1>1. CASE Core0Call
  <2>1. CASE CallFlash
    BY <2>1 DEF CallFlash
  <2>2. CASE CallLeds
    BY <2>2 DEF CallLeds
  <2>3. CASE UNCHANGED flag
    BY <2>3
  <2> QED
    BY <1>1, <2>1, <2>2, <2>3 DEF Core0Call, CallRefresh, CallRefreshLocal,
       CallShared
<1>2. CASE Core0Step
  <2>1. CASE PostSend
    <3> DEFINE request == IF r0.clean THEN -1 ELSE 1
    <3>1. flag' = [flag EXCEPT !.sendAllPathsCore2 = request] /\ pc0 = "post"
      BY <2>1 DEF PostSend
    <3>2. request # 0
      OBVIOUS
    <3> HIDE DEF request
    <3> QED
      BY <3>1, <3>2
  <2>2. CASE LocalPost
    BY <2>2 DEF LocalPost
  <2>3. CASE Pause \/ ClearPaths \/ Unpause \/ PostLeds
    BY <2>3 DEF Pause, ClearPaths, Unpause, PostLeds
  <2>4. CASE LocalWaitTimeout \/ LocalPostLeds \/ FlashEnd
    BY <2>4 DEF LocalWaitTimeout, LocalPostLeds, FlashEnd
  <2>5. CASE CoreSyncAcquire \/ CoreSyncRelease
    BY <2>5 DEF CoreSyncAcquire, CoreSyncRelease
  <2>6. CASE UNCHANGED flag
    BY <2>6
  <2> QED
    BY <1>2, <2>1, <2>2, <2>3, <2>4, <2>5, <2>6 DEF Core0Step, WaitCore2Busy,
       WaitCore2Sent, WaitCore2Timeout, RoutePath, WaitDone, WaitDoneTimeout,
       ReadTermColors, LocalWait, FlashWait, FlashPark
<1> QED
  BY <1>1, <1>2

(* ... and Core 2 changes it only by acknowledging.                        *)
LEMMA Core2Keeps ==
  ASSUME TypeOK, Core2Step \/ Capture
  PROVE  \/ flag'.sendAllPathsCore2 = flag.sendAllPathsCore2
         \/ /\ pc2 \in {"ack", "ack_again"}
            /\ pc2' \in {"ack_again", "send_release"}
            /\ flag'.sendAllPathsCore2 = 0
<1> USE DEF TypeOK, FlagType, Go2
<1>1. CASE LoopStep
  <2>1. CASE EnterCore2stuff \/ CheckBypass \/ TryLock \/ CheckPause
    BY <2>1 DEF EnterCore2stuff, CheckBypass, TryLock, CheckPause
  <2>2. CASE RequestMenuFrame \/ DecodeStore \/ StartLedFrame \/ IdlePass
    BY <2>2 DEF RequestMenuFrame, DecodeStore, StartLedFrame, IdlePass
  <2>3. CASE ReleaseLock \/ ReadAdc
    BY <2>3 DEF ReleaseLock, ReadAdc
  <2>4. CASE UNCHANGED flag
    BY <2>4
  <2> QED
    BY <1>1, <2>1, <2>2, <2>3, <2>4 DEF LoopStep, LoopPaused, PausedBypass,
       MenuFrameDue, DecodeLoad, SkipPass, StartSend, SkipAdc
<1>2. CASE SendStep
  BY <1>2 DEF SendStep, SendStart, SendPath, SendDone, Acknowledge,
     SendRelease
<1>3. CASE FrameStep
  <2>1. CASE EndSwirl \/ StartNets \/ CheckPauseNets \/ ShowNets \/ DrawOverlays
    BY <2>1 DEF EndSwirl, StartNets, CheckPauseNets, ShowNets, DrawOverlays
  <2>2. CASE CheckPauseMenu \/ StartMenu \/ DrawMenu \/ ShowLeds
    BY <2>2 DEF CheckPauseMenu, StartMenu, DrawMenu, ShowLeds
  <2>3. CASE ClearRequest \/ FrameEnd
    BY <2>3 DEF ClearRequest, FrameEnd
  <2>4. CASE UNCHANGED flag
    BY <2>4
  <2> QED
    BY <1>3, <2>1, <2>2, <2>3, <2>4 DEF FrameStep, CompareRequest
<1>4. CASE Capture
  BY <1>4 DEF Capture, StartCapture, StopCapture
<1> QED
  BY <1>1, <1>2, <1>3, <1>4 DEF Core2Step

(* A request stays with the Core 0 that waits for it.                      *)
LEMMA PendingStep == HandshakeInv /\ Waiting /\ Next => PendingInv'
<1> SUFFICES ASSUME HandshakeInv, Waiting, Next PROVE PendingInv'
  OBVIOUS
<1> USE DEF HandshakeInv, PendingInv
<1>1. CASE Core2Step \/ Capture
  <2>1. UNCHANGED <<pc0, r0>>
    BY <1>1, Core2Frame
  <2>2. flag'.sendAllPathsCore2 \in {0, flag.sendAllPathsCore2}
    BY <1>1, Core2Keeps
  <2> QED
    BY <2>1, <2>2
<1>2. CASE Core0Call
  <2>1. pc0 = "idle"
    BY <1>2 DEF Core0Call, CallRefresh, CallRefreshLocal, CallFlash,
       CallShared, CallLeds, Begin
  <2>2. flag'.sendAllPathsCore2 = flag.sendAllPathsCore2
    BY <1>2, <2>1, Core0Keeps
  <2> QED
    BY <2>1, <2>2
<1>3. CASE Core0Step
  <2>1. CASE pc0 = "post"
    BY <1>3, <2>1 DEF Core0Step, Go0, WaitCore2Busy, WaitCore2Sent,
       WaitCore2Timeout, Pause, ClearPaths, RoutePath, Unpause, PostSend,
       WaitDone, WaitDoneTimeout, PostLeds, ReadTermColors, LocalWait,
       LocalWaitTimeout, LocalPost, LocalPostLeds, FlashWait, FlashPark,
       FlashEnd, CoreSyncAcquire, CoreSyncRelease
  <2>2. CASE pc0 \in {"local_post", "local_leds"}
    <3>1. r0.call = "localWait" /\ r0.return = "idle"
      BY <2>2 DEF CallInv
    <3>2. (LocalPost \/ LocalPostLeds)
      BY <1>3, <2>2 DEF Core0Step, Go0, WaitCore2Busy, WaitCore2Sent,
         WaitCore2Timeout, Pause, ClearPaths, RoutePath, Unpause, PostSend,
         WaitDone, WaitDoneTimeout, PostLeds, ReadTermColors, LocalWait,
         LocalWaitTimeout, FlashWait, FlashPark, FlashEnd, CoreSyncAcquire,
         CoreSyncRelease
    <3>3. r0' = r0 /\ pc0' \in {"local_leds", "wait_busy"}
      BY <3>1, <3>2 DEF LocalPost, LocalPostLeds, Go0, AfterLocal
    <3> QED
      BY <3>1, <3>3
  <2>3. CASE pc0 \notin {"post", "local_post", "local_leds"}
    <3>1. flag'.sendAllPathsCore2 = flag.sendAllPathsCore2
      BY <1>3, <2>3, Core0Keeps
    <3>2. CASE flag.sendAllPathsCore2 = 0
      BY <3>1, <3>2
    <3>3. CASE flag.sendAllPathsCore2 # 0
      <4>1. WaitCore2Busy \/ WaitCore2Sent
        BY <1>3, <2>3, <3>3 DEF Core0Step, Go0, WaitCore2Timeout, Waiting,
           Pause, ClearPaths, RoutePath, Unpause, PostSend, WaitDone,
           WaitDoneTimeout, PostLeds, ReadTermColors, LocalWait,
           LocalWaitTimeout, LocalPost, LocalPostLeds, FlashWait, FlashPark,
           FlashEnd, CoreSyncAcquire, CoreSyncRelease
      <4>2. r0.return = "idle"
        BY <3>3, <4>1 DEF WaitCore2Busy, WaitCore2Sent, Go0
      <4>3. r0' = r0 /\ pc0' \in {"wait_busy", "wait_sent"}
        BY <3>3, <4>1 DEF WaitCore2Busy, WaitCore2Sent, Go0
      <4> QED
        BY <4>2, <4>3
    <3> QED
      BY <3>2, <3>3
  <2> QED
    BY <2>1, <2>2, <2>3
<1> QED
  BY <1>1, <1>2, <1>3 DEF Next

(* Core 0 does not change operation on its way.                            *)
LEMMA CallStep == HandshakeInv /\ Waiting /\ Next => CallInv'
<1> SUFFICES ASSUME HandshakeInv, Waiting, Next PROVE CallInv'
  OBVIOUS
<1> USE DEF HandshakeInv, CallInv, TypeOK, Core0Type
<1>1. CASE Core2Step \/ Capture
  <2>1. UNCHANGED <<pc0, r0>>
    BY <1>1, Core2Frame
  <2> QED
    BY <2>1
<1>2. CASE CallRefresh
  <2>1. PICK led \in LedOptions \cup {0}, clean \in BOOLEAN :
          r0' = [r0 EXCEPT !.call = "full", !.led = led, !.clean = clean,
                           !.return = "pause", !.calls = @ + 1]
    BY <1>2 DEF CallRefresh
  <2>2. r0'.call = "full"
    BY <2>1
  <2>3. pc0' = "wait_busy"
    BY <1>2 DEF CallRefresh, Go0
  <2> QED
    BY <2>2, <2>3
<1>3. CASE CallRefreshLocal
  <2>1. PICK name \in {"local", "localWait"}, led \in LedOptions \cup {0} :
          /\ name \in Calls
          /\ r0' = [r0 EXCEPT !.call = name, !.led = led, !.return = "idle",
                              !.calls = @ + 1]
    BY <1>3 DEF CallRefreshLocal, Begin
  <2>2. r0'.call = "localWait" /\ r0'.return = "idle"
    BY <2>1 DEF Waiting
  <2>3. pc0' = "local_wait"
    BY <1>3 DEF CallRefreshLocal, Go0
  <2> QED
    BY <2>2, <2>3
<1>4. CASE CallFlash \/ CallShared \/ CallLeds
  <2>1. r0'.call = r0.call /\ r0'.return = r0.return
    BY <1>4 DEF CallFlash, CallShared, CallLeds
  <2>2. pc0' \in {"flash_wait", "shared_acquire", "idle"}
    BY <1>4 DEF CallFlash, CallShared, CallLeds, Go0
  <2> QED
    BY <2>1, <2>2
<1>5. CASE Core0Step
  <2>1. CASE PostLeds
    BY <2>1 DEF PostLeds, Go0
  <2>2. CASE RoutePath
    BY <2>2 DEF RoutePath, Go0
  <2>3. CASE ClearPaths
    BY <2>3 DEF ClearPaths, Go0
  <2>4. CASE WaitCore2Busy \/ WaitCore2Sent \/ WaitCore2Timeout
    BY <2>4 DEF WaitCore2Busy, WaitCore2Sent, WaitCore2Timeout, Go0, Waiting
  <2>5. CASE Pause \/ Unpause \/ PostSend
    BY <2>5 DEF Pause, Unpause, PostSend, Go0
  <2>6. CASE WaitDone \/ WaitDoneTimeout \/ ReadTermColors
    BY <2>6 DEF WaitDone, WaitDoneTimeout, ReadTermColors, AfterSend, Go0
  <2>7. CASE LocalWait \/ LocalWaitTimeout \/ LocalPost \/ LocalPostLeds
    BY <2>7 DEF LocalWait, LocalWaitTimeout, LocalPost, LocalPostLeds,
       AfterLocal, Go0
  <2>8. CASE \/ FlashWait \/ FlashPark \/ FlashEnd
             \/ CoreSyncAcquire \/ CoreSyncRelease
    BY <2>8 DEF FlashWait, FlashPark, FlashEnd, CoreSyncAcquire,
       CoreSyncRelease, Go0
  <2> QED
    BY <1>5, <2>1, <2>2, <2>3, <2>4, <2>5, <2>6, <2>7, <2>8 DEF Core0Step
<1> QED
  BY <1>1, <1>2, <1>3, <1>4, <1>5 DEF Next, Core0Call

(* Core 2 starts to send on a request and sees it to its end: nobody takes *)
(* the request back meanwhile.                                             *)
LEMMA ServingStep == HandshakeInv /\ Waiting /\ Next => ServingInv'
<1> SUFFICES ASSUME HandshakeInv, Waiting, Next PROVE ServingInv'
  OBVIOUS
<1> USE DEF HandshakeInv, ServingInv
<1>1. CASE Core0Call \/ Core0Step
  <2>1. UNCHANGED pc2
    BY <1>1, Core0Frame
  <2>2. \/ flag'.sendAllPathsCore2 = flag.sendAllPathsCore2
        \/ flag'.sendAllPathsCore2 # 0
    BY <1>1, Core0Keeps
  <2> QED
    BY <2>1, <2>2
<1>2. CASE Core2Step \/ Capture
  <2>1. CASE flag'.sendAllPathsCore2 # flag.sendAllPathsCore2
    <3>1. pc2' \in {"ack_again", "send_release"}
      BY <1>2, <2>1, Core2Keeps
    <3> QED
      BY <3>1
  <2>2. CASE flag'.sendAllPathsCore2 = flag.sendAllPathsCore2
    <3>1. CASE pc2 \in {"send_start", "send", "send_done", "ack"}
      BY <2>2, <3>1
    <3>2. CASE pc2' \notin {"send_start", "send", "send_done", "ack"}
      BY <3>2
    <3>3. CASE /\ pc2 \notin {"send_start", "send", "send_done", "ack"}
               /\ pc2' \in {"send_start", "send", "send_done", "ack"}
      <4>1. PausedBypass \/ CheckBypass \/ StartSend
        BY <1>2, <3>3 DEF Core2Step, Capture, LoopStep, SendStep, FrameStep,
           Go2, StartCapture, StopCapture, LoopPaused, EnterCore2stuff,
           TryLock, CheckPause, MenuFrameDue, RequestMenuFrame, DecodeLoad,
           DecodeStore, SkipPass, StartLedFrame, IdlePass, ReleaseLock,
           SkipAdc, ReadAdc, SendStart, SendPath, SendDone, Acknowledge,
           SendRelease, EndSwirl, StartNets, CheckPauseNets, ShowNets,
           DrawOverlays, CheckPauseMenu, StartMenu, DrawMenu, ShowLeds,
           CompareRequest, ClearRequest, FrameEnd
      <4>2. flag.sendAllPathsCore2 # 0
        BY <3>3, <4>1 DEF PausedBypass, CheckBypass, StartSend, Go2
      <4> QED
        BY <2>2, <4>2
    <3> QED
      BY <3>1, <3>2, <3>3
  <2> QED
    BY <2>1, <2>2
<1> QED
  BY <1>1, <1>2 DEF Next

(* The table is cleared only at the start of a rebuild, and a rebuild ends *)
(* only once it has routed every entry.                                    *)
LEMMA TableStep == HandshakeInv /\ Waiting /\ Next => TableInv'
<1> SUFFICES ASSUME HandshakeInv, Waiting, Next PROVE TableInv'
  OBVIOUS
<1> USE CrossCoreAssumption
    DEF HandshakeInv, TableInv, Whole, TypeOK, DataType, Core0Type
<1>1. CASE Core2Step \/ Capture
  <2>1. UNCHANGED <<pc0, r0, bridges, paths>>
    BY <1>1, Core2Frame
  <2> QED
    BY <2>1
<1>2. CASE Core0Call
  <2>1. pc0 = "idle" /\ pc0' # "rebuild" /\ UNCHANGED paths
    BY <1>2 DEF Core0Call, CallRefresh, CallRefreshLocal, CallFlash,
       CallShared, CallLeds, Begin, Go0, data
  <2> QED
    BY <2>1
<1>3. CASE ClearPaths
  <2>1. pc0' = "rebuild" /\ r0'.index = 1
    BY <1>3 DEF ClearPaths, Go0
  <2> QED
    BY <2>1
<1>4. CASE RoutePath
  <2>1. /\ paths' = [paths EXCEPT ![r0.index] = bridges]
        /\ bridges' = bridges
        /\ pc0 = "rebuild"
        /\ r0.index \in PathIds
    BY <1>4 DEF RoutePath, Go0
  <2>2. \A i \in 1..r0.index : paths'[i] = bridges
    <3> SUFFICES ASSUME NEW i \in 1..r0.index PROVE paths'[i] = bridges
      OBVIOUS
    <3>1. i \in PathIds /\ (i = r0.index \/ i \in 1..(r0.index - 1))
      BY <2>1
    <3> QED
      BY <2>1, <3>1
  <2>3. CASE r0.index < NPaths
    <3>1. pc0' = "rebuild" /\ r0'.index = r0.index + 1
      BY <1>4, <2>3 DEF RoutePath, Go0
    <3> QED
      BY <2>1, <2>2, <3>1
  <2>4. CASE r0.index = NPaths
    <3>1. pc0' # "rebuild"
      BY <1>4, <2>4 DEF RoutePath, Go0
    <3>2. bridges # Cleared
      OBVIOUS
    <3> QED
      BY <2>2, <2>4, <3>1, <3>2
  <2> QED
    BY <2>1, <2>3, <2>4
<1>5. CASE Core0Step /\ ~ClearPaths /\ ~RoutePath
  <2>1. pc0 # "rebuild" /\ UNCHANGED paths
    BY <1>5 DEF Core0Step, Go0, data, WaitCore2Busy, WaitCore2Sent,
       WaitCore2Timeout, Pause, Unpause, PostSend, WaitDone, WaitDoneTimeout,
       PostLeds, ReadTermColors, LocalWait, LocalWaitTimeout, LocalPost,
       LocalPostLeds, FlashWait, FlashPark, FlashEnd, CoreSyncAcquire,
       CoreSyncRelease
  <2>2. pc0' # "rebuild"
    BY <1>5 DEF Core0Step, Go0, WaitCore2Busy, WaitCore2Sent,
       WaitCore2Timeout, Pause, Unpause, PostSend, WaitDone, WaitDoneTimeout,
       PostLeds, ReadTermColors, LocalWait, LocalWaitTimeout, LocalPost,
       LocalPostLeds, FlashWait, FlashPark, FlashEnd, CoreSyncAcquire,
       CoreSyncRelease, AfterSend, AfterLocal
  <2> QED
    BY <2>1, <2>2
<1> QED
  BY <1>1, <1>2, <1>3, <1>4, <1>5 DEF Next

(* Core 0 waits while Core 2 sends, so the table cannot change under it.   *)
LEMMA SendingIsWhole ==
  ASSUME HandshakeInv, pc2 = "send"
  PROVE  Whole(paths) /\ pc0 \notin {"rebuild", "clear", "local_clear"}
  BY DEF HandshakeInv, PendingInv, ServingInv, TableInv

(* A send copies one whole table onto the chips.                           *)
LEMMA CrossbarStep == HandshakeInv /\ Waiting /\ Next => CrossbarInv'
<1> SUFFICES ASSUME HandshakeInv, Waiting, Next PROVE CrossbarInv'
  OBVIOUS
<1> USE CrossCoreAssumption
    DEF HandshakeInv, CrossbarInv, Whole, TypeOK, DataType, Core2Type
<1>1. CASE Core0Call \/ Core0Step
  <2>1. UNCHANGED <<pc2, r2, crossbar>>
    BY <1>1, Core0Frame
  <2>2. pc2 = "send" => UNCHANGED paths
    <3> SUFFICES ASSUME pc2 = "send" PROVE UNCHANGED paths
      OBVIOUS
    <3>1. pc0 \notin {"rebuild", "clear", "local_clear"}
      BY SendingIsWhole
    <3> QED
      BY <1>1, <3>1 DEF Core0Call, Core0Step, Go0, data, CallRefresh,
         CallRefreshLocal, CallFlash, CallShared, CallLeds, WaitCore2Busy,
         WaitCore2Sent, WaitCore2Timeout, Pause, ClearPaths, RoutePath,
         Unpause, PostSend, WaitDone, WaitDoneTimeout, PostLeds,
         ReadTermColors, LocalWait, LocalWaitTimeout, LocalPost,
         LocalPostLeds, FlashWait, FlashPark, FlashEnd, CoreSyncAcquire,
         CoreSyncRelease
  <2> QED
    BY <2>1, <2>2
<1>2. CASE SendStart
  <2>1. pc2' = "send" /\ r2'.index = 1
    BY <1>2 DEF SendStart, Go2
  <2> QED
    BY <2>1
<1>3. CASE SendPath
  <2>1. /\ crossbar' = [crossbar EXCEPT ![r2.index] = paths[r2.index]]
        /\ paths' = paths
        /\ pc2 = "send"
        /\ r2.index \in PathIds
    BY <1>3 DEF SendPath, Go2
  <2>2. \A i \in 1..r2.index : crossbar'[i] = paths[i]
    <3> SUFFICES ASSUME NEW i \in 1..r2.index PROVE crossbar'[i] = paths[i]
      OBVIOUS
    <3>1. i \in PathIds /\ (i = r2.index \/ i \in 1..(r2.index - 1))
      BY <2>1
    <3> QED
      BY <2>1, <3>1
  <2>3. CASE r2.index < NPaths
    <3>1. pc2' = "send" /\ r2'.index = r2.index + 1
      BY <1>3, <2>3 DEF SendPath, Go2
    <3>2. r2'.index - 1 = r2.index
      BY <2>1, <3>1
    <3>3. \A i \in 1..(r2'.index - 1) : crossbar'[i] = paths'[i]
      BY <2>1, <2>2, <3>2
    <3> QED
      BY <3>1, <3>3
  <2>4. CASE r2.index = NPaths
    <3>1. pc2' # "send"
      BY <1>3, <2>4 DEF SendPath, Go2
    <3>2. Whole(paths)
      BY <2>1, SendingIsWhole
    <3> QED
      BY <2>2, <2>4, <3>1, <3>2
  <2> QED
    BY <2>1, <2>3, <2>4
<1>4. CASE (Core2Step \/ Capture) /\ ~SendStart /\ ~SendPath
  <2>1. UNCHANGED crossbar /\ pc2 # "send" /\ pc2' # "send"
    BY <1>4 DEF Core2Step, Capture, LoopStep, SendStep, FrameStep, Go2, data,
       LoopPaused, PausedBypass, StartCapture, StopCapture, EnterCore2stuff,
       CheckBypass, TryLock, CheckPause, MenuFrameDue, RequestMenuFrame,
       DecodeLoad, DecodeStore, SkipPass, StartLedFrame, StartSend, IdlePass,
       ReleaseLock, SkipAdc, ReadAdc, SendDone, Acknowledge, SendRelease,
       EndSwirl, StartNets, CheckPauseNets, ShowNets, DrawOverlays,
       CheckPauseMenu, StartMenu, DrawMenu, ShowLeds, CompareRequest,
       ClearRequest, FrameEnd
  <2> QED
    BY <2>1
<1> QED
  BY <1>1, <1>2, <1>3, <1>4 DEF Next

(* The strengthened invariant holds at the start ...                       *)
LEMMA HandshakeInit == Init => HandshakeInv
<1> SUFFICES ASSUME Init PROVE HandshakeInv
  OBVIOUS
<1>1. TypeOK
  BY TypeInit
<1>2. PendingInv /\ CallInv /\ ServingInv
  BY DEF Init, PendingInv, CallInv, ServingInv
<1>3. Whole(paths) /\ Whole(crossbar)
  BY DEF Init, Whole
<1>4. TableInv /\ CrossbarInv
  BY <1>3 DEF Init, TableInv, CrossbarInv
<1> QED
  BY <1>1, <1>2, <1>4 DEF HandshakeInv

(* ... and is kept by every step.                                         *)
LEMMA HandshakeStep == HandshakeInv /\ Waiting /\ [Next]_vars => HandshakeInv'
<1> SUFFICES ASSUME HandshakeInv, Waiting, [Next]_vars PROVE HandshakeInv'
  OBVIOUS
<1>1. TypeOK'
  BY TypeStep DEF HandshakeInv
<1>2. CASE Next
  BY <1>1, <1>2, PendingStep, CallStep, ServingStep, TableStep, CrossbarStep
     DEF HandshakeInv
<1>3. CASE UNCHANGED vars
  <2>1. UNCHANGED <<flag, bridges, paths, crossbar, pc0, r0, pc2, r2>>
    BY <1>3 DEF vars, data, core0, core2
  <2>2. PendingInv' /\ CallInv' /\ ServingInv'
    BY <2>1 DEF HandshakeInv, PendingInv, CallInv, ServingInv
  <2>3. TableInv' /\ CrossbarInv'
    BY <2>1 DEF HandshakeInv, TableInv, CrossbarInv, Whole
  <2> QED
    BY <1>1, <2>2, <2>3 DEF HandshakeInv
<1> QED
  BY <1>2, <1>3

(* Core 2 never programs the crossbar from a table under reconstruction,   *)
(* as long as every refresh waits for its answer and gets it.              *)
THEOREM SendReadsWholeTableCorrect ==
  ASSUME Waiting PROVE Spec => []SendReadsWholeTable
<1>1. HandshakeInv => SendReadsWholeTable
  BY SendingIsWhole DEF SendReadsWholeTable
<1>2. HandshakeInv /\ [Next]_vars => HandshakeInv'
  BY HandshakeStep, Waiting
<1> QED
  BY HandshakeInit, <1>1, <1>2, PTL DEF Spec

(* Under the same condition the chips never keep a mixture of two edits.   *)
THEOREM CrossbarWholeCorrect ==
  ASSUME Waiting PROVE Spec => []CrossbarWhole
<1>1. HandshakeInv => CrossbarWhole
  BY DEF HandshakeInv, CrossbarInv, CrossbarWhole
<1>2. HandshakeInv /\ [Next]_vars => HandshakeInv'
  BY HandshakeStep, Waiting
<1> QED
  BY HandshakeInit, <1>1, <1>2, PTL DEF Spec
-----------------------------------------------------------------------------
(* The pause and busy flags.  No condition is needed here either: whatever *)
(* deadline passes, an operation takes back what it raised.                *)

(* Which refresh Core 0 is in, where refreshConnections and                *)
(* refreshLocalConnections share their code.                               *)
RefreshInv ==
  /\ r0.return = "pause" => r0.call = "full"
  /\ pc0 \in {"pause", "clear", "unpause"} => r0.call = "full"
  /\ pc0 \in {"local_wait", "local_clear", "local_post"} => r0.call # "full"

(* pauseCore2 is raised only inside a full refresh or a flash operation,   *)
(* and the latter saved it lowered.                                        *)
PauseInv ==
  /\ flag.pauseCore2 =>
       \/ pc0 \in {"clear", "unpause", "flash_wait", "flash_ready", "flash"}
       \/ pc0 = "rebuild" /\ r0.call = "full"
  /\ pc0 \in {"flash_wait", "flash_ready", "flash"} => ~r0.wasPaused

(* core1busy is raised only while the path table is rebuilt.               *)
BusyInv ==
  flag.core1busy => pc0 \in {"rebuild", "unpause", "local_post"}

RestoreInv == TypeOK /\ RefreshInv /\ PauseInv /\ BusyInv

(* Core 2 reads the two flags and never writes them.                       *)
LEMMA Core2LeavesPause ==
  ASSUME TypeOK, Core2Step \/ Capture
  PROVE  /\ flag'.pauseCore2 = flag.pauseCore2
         /\ flag'.core1busy = flag.core1busy
<1> USE DEF TypeOK, FlagType
<1>1. CASE Capture
  BY <1>1 DEF Capture, StartCapture, StopCapture
<1>2. CASE Core2Step
  <2>1. CASE LoopStep
    BY <2>1 DEF LoopStep, LoopPaused, PausedBypass, EnterCore2stuff,
       CheckBypass, TryLock, CheckPause, MenuFrameDue, RequestMenuFrame,
       DecodeLoad, DecodeStore, SkipPass, StartLedFrame, StartSend, IdlePass,
       ReleaseLock, SkipAdc, ReadAdc
  <2>2. CASE SendStep
    BY <2>2 DEF SendStep, SendStart, SendPath, SendDone, Acknowledge,
       SendRelease
  <2>3. CASE FrameStep
    BY <2>3 DEF FrameStep, EndSwirl, StartNets, CheckPauseNets, ShowNets,
       DrawOverlays, CheckPauseMenu, StartMenu, DrawMenu, ShowLeds,
       CompareRequest, ClearRequest, FrameEnd
  <2> QED
    BY <1>2, <2>1, <2>2, <2>3 DEF Core2Step
<1> QED
  BY <1>1, <1>2

(* Where a step of Core 0 leads, and from where.                           *)
LEMMA RefreshStep == TypeOK /\ RefreshInv /\ Next => RefreshInv'
<1> SUFFICES ASSUME TypeOK, RefreshInv, Next PROVE RefreshInv'
  OBVIOUS
<1> USE DEF RefreshInv, TypeOK, Core0Type
<1>1. CASE Core2Step \/ Capture
  BY <1>1, Core2Frame
<1>2. CASE CallRefresh
  <2>1. PICK led \in LedOptions \cup {0}, clean \in BOOLEAN :
          r0' = [r0 EXCEPT !.call = "full", !.led = led, !.clean = clean,
                           !.return = "pause", !.calls = @ + 1]
    BY <1>2 DEF CallRefresh
  <2>2. r0'.call = "full"
    BY <2>1
  <2>3. pc0' = "wait_busy"
    BY <1>2 DEF CallRefresh, Go0
  <2> QED
    BY <2>2, <2>3
<1>3. CASE CallRefreshLocal
  <2>1. PICK name \in {"local", "localWait"}, led \in LedOptions \cup {0} :
          r0' = [r0 EXCEPT !.call = name, !.led = led, !.return = "idle",
                           !.calls = @ + 1]
    BY <1>3 DEF CallRefreshLocal
  <2>2. r0'.call # "full" /\ r0'.return = "idle"
    BY <2>1
  <2>3. pc0' = "local_wait"
    BY <1>3 DEF CallRefreshLocal, Go0
  <2> QED
    BY <2>2, <2>3
<1>4. CASE CallFlash \/ CallShared \/ CallLeds
  <2>1. r0'.call = r0.call /\ r0'.return = r0.return
    BY <1>4 DEF CallFlash, CallShared, CallLeds
  <2>2. pc0' \in {"flash_wait", "shared_acquire", "idle"}
    BY <1>4 DEF CallFlash, CallShared, CallLeds, Go0
  <2> QED
    BY <2>1, <2>2
<1>5. CASE Core0Step
  <2>1. CASE PostLeds
    BY <2>1 DEF PostLeds, Go0
  <2>2. CASE RoutePath
    BY <2>2 DEF RoutePath, Go0
  <2>3. CASE ClearPaths
    BY <2>3 DEF ClearPaths, Go0
  <2>4. CASE WaitCore2Busy \/ WaitCore2Sent \/ WaitCore2Timeout
    BY <2>4 DEF WaitCore2Busy, WaitCore2Sent, WaitCore2Timeout, Go0
  <2>5. CASE Pause \/ Unpause \/ PostSend
    BY <2>5 DEF Pause, Unpause, PostSend, Go0
  <2>6. CASE WaitDone \/ WaitDoneTimeout \/ ReadTermColors
    BY <2>6 DEF WaitDone, WaitDoneTimeout, ReadTermColors, AfterSend, Go0
  <2>7. CASE LocalWait \/ LocalWaitTimeout \/ LocalPost \/ LocalPostLeds
    BY <2>7 DEF LocalWait, LocalWaitTimeout, LocalPost, LocalPostLeds,
       AfterLocal, Go0
  <2>8. CASE \/ FlashWait \/ FlashPark \/ FlashEnd
             \/ CoreSyncAcquire \/ CoreSyncRelease
    BY <2>8 DEF FlashWait, FlashPark, FlashEnd, CoreSyncAcquire,
       CoreSyncRelease, Go0
  <2> QED
    BY <1>5, <2>1, <2>2, <2>3, <2>4, <2>5, <2>6, <2>7, <2>8 DEF Core0Step
<1> QED
  BY <1>1, <1>2, <1>3, <1>4, <1>5 DEF Next, Core0Call

(* Every operation lowers pauseCore2 again, or gives back what it saved.   *)
LEMMA PauseStep == RestoreInv /\ Next => PauseInv'
<1> SUFFICES ASSUME RestoreInv, Next PROVE PauseInv'
  OBVIOUS
<1> USE DEF RestoreInv, PauseInv, TypeOK, FlagType, Core0Type
<1>1. CASE Core2Step \/ Capture
  BY <1>1, Core2Frame, Core2LeavesPause
<1>2. CASE Core0Call
  <2>1. CASE CallFlash
    BY <2>1 DEF CallFlash, Begin, Go0
  <2>2. CASE CallLeds
    <3>1. flag'.pauseCore2 = flag.pauseCore2
      BY <2>2 DEF CallLeds
    <3>2. pc0 = "idle" /\ pc0' = "idle"
      BY <2>2 DEF CallLeds, Go0
    <3> QED
      BY <3>1, <3>2
  <2>3. CASE CallRefresh \/ CallRefreshLocal \/ CallShared
    <3>1. flag' = flag
      BY <2>3 DEF CallRefresh, CallRefreshLocal, CallShared
    <3>2. pc0 = "idle" /\ pc0' \in {"wait_busy", "local_wait", "shared_acquire"}
      BY <2>3 DEF CallRefresh, CallRefreshLocal, CallShared, Go0
    <3> QED
      BY <3>1, <3>2
  <2> QED
    BY <1>2, <2>1, <2>2, <2>3 DEF Core0Call
<1>3. CASE Core0Step
  <2>1. CASE WaitCore2Busy \/ WaitCore2Sent \/ WaitCore2Timeout
    BY <2>1 DEF WaitCore2Busy, WaitCore2Sent, WaitCore2Timeout, Go0
  <2>2. CASE Pause
    BY <2>2 DEF Pause, Go0
  <2>3. CASE ClearPaths
    BY <2>3 DEF ClearPaths, Go0, RefreshInv
  <2>4. CASE RoutePath
    <3>1. flag' = flag /\ r0'.call = r0.call /\ pc0 = "rebuild"
      BY <2>4 DEF RoutePath, Go0
    <3>2. \/ pc0' = "rebuild"
          \/ pc0' = IF r0.call = "full" THEN "unpause" ELSE "local_post"
      BY <2>4 DEF RoutePath, Go0
    <3> QED
      BY <3>1, <3>2
  <2>5. CASE Unpause
    BY <2>5 DEF Unpause, Go0
  <2>6. CASE PostSend \/ PostLeds \/ LocalPost \/ LocalPostLeds
    BY <2>6 DEF PostSend, PostLeds, LocalPost, LocalPostLeds, AfterLocal, Go0
  <2>7. CASE WaitDone \/ WaitDoneTimeout \/ ReadTermColors
    BY <2>7 DEF WaitDone, WaitDoneTimeout, ReadTermColors, AfterSend, Go0
  <2>8. CASE LocalWait \/ LocalWaitTimeout
    BY <2>8 DEF LocalWait, LocalWaitTimeout, Go0
  <2>9. CASE FlashWait \/ FlashPark
    BY <2>9 DEF FlashWait, FlashPark, Go0
  <2>10. CASE FlashEnd
    BY <2>10 DEF FlashEnd, Go0
  <2>11. CASE CoreSyncAcquire \/ CoreSyncRelease
    BY <2>11 DEF CoreSyncAcquire, CoreSyncRelease, Go0
  <2> QED
    BY <1>3, <2>1, <2>2, <2>3, <2>4, <2>5, <2>6, <2>7, <2>8, <2>9, <2>10,
       <2>11 DEF Core0Step
<1> QED
  BY <1>1, <1>2, <1>3 DEF Next

(* Every rebuild lowers core1busy when the table is complete.              *)
LEMMA BusyStep == RestoreInv /\ Next => BusyInv'
<1> SUFFICES ASSUME RestoreInv, Next PROVE BusyInv'
  OBVIOUS
<1> USE DEF RestoreInv, BusyInv, TypeOK, FlagType, Core0Type
<1>1. CASE Core2Step \/ Capture
  BY <1>1, Core2Frame, Core2LeavesPause
<1>2. CASE Core0Call
  <2>1. flag'.core1busy = flag.core1busy
    BY <1>2 DEF Core0Call, CallRefresh, CallRefreshLocal, CallFlash,
       CallShared, CallLeds
  <2>2. pc0 = "idle"
    BY <1>2 DEF Core0Call, CallRefresh, CallRefreshLocal, CallFlash,
       CallShared, CallLeds, Go0
  <2> QED
    BY <2>1, <2>2
<1>3. CASE Core0Step
  <2>1. CASE WaitCore2Busy \/ WaitCore2Sent \/ WaitCore2Timeout
    BY <2>1 DEF WaitCore2Busy, WaitCore2Sent, WaitCore2Timeout, Go0
  <2>2. CASE Pause
    BY <2>2 DEF Pause, Go0
  <2>3. CASE ClearPaths
    BY <2>3 DEF ClearPaths, Go0
  <2>4. CASE RoutePath
    BY <2>4 DEF RoutePath, Go0
  <2>5. CASE Unpause
    BY <2>5 DEF Unpause, Go0
  <2>6. CASE PostSend \/ PostLeds \/ LocalPost \/ LocalPostLeds
    BY <2>6 DEF PostSend, PostLeds, LocalPost, LocalPostLeds, AfterLocal, Go0
  <2>7. CASE WaitDone \/ WaitDoneTimeout \/ ReadTermColors
    BY <2>7 DEF WaitDone, WaitDoneTimeout, ReadTermColors, AfterSend, Go0
  <2>8. CASE LocalWait \/ LocalWaitTimeout
    BY <2>8 DEF LocalWait, LocalWaitTimeout, Go0
  <2>9. CASE FlashWait \/ FlashPark
    BY <2>9 DEF FlashWait, FlashPark, Go0
  <2>10. CASE FlashEnd
    BY <2>10 DEF FlashEnd, Go0
  <2>11. CASE CoreSyncAcquire \/ CoreSyncRelease
    BY <2>11 DEF CoreSyncAcquire, CoreSyncRelease, Go0
  <2> QED
    BY <1>3, <2>1, <2>2, <2>3, <2>4, <2>5, <2>6, <2>7, <2>8, <2>9, <2>10,
       <2>11 DEF Core0Step
<1> QED
  BY <1>1, <1>2, <1>3 DEF Next

LEMMA RestoreStep == RestoreInv /\ [Next]_vars => RestoreInv'
<1> SUFFICES ASSUME RestoreInv, [Next]_vars PROVE RestoreInv'
  OBVIOUS
<1>1. TypeOK'
  BY TypeStep DEF RestoreInv
<1>2. CASE Next
  BY <1>1, <1>2, RefreshStep, PauseStep, BusyStep DEF RestoreInv
<1>3. CASE UNCHANGED vars
  BY <1>1, <1>3 DEF RestoreInv, RefreshInv, PauseInv, BusyInv, vars, core0
<1> QED
  BY <1>2, <1>3

(* No operation of Core 0 returns with Core 2 paused or with itself still  *)
(* marked busy, whatever deadlines passed and whatever Core 2 did: a local *)
(* refresh never meets a raised pauseCore2, and a flash operation saves it *)
(* lowered.                                                                *)
THEOREM FlagsRestoredCorrect == Spec => []FlagsRestored
<1>1. Init => RefreshInv /\ PauseInv /\ BusyInv
  BY DEF Init, RefreshInv, PauseInv, BusyInv
<1>2. Init => RestoreInv
  BY <1>1, TypeInit DEF RestoreInv
<1>3. RestoreInv => FlagsRestored
  BY DEF RestoreInv, PauseInv, BusyInv, FlagsRestored
<1> QED
  BY <1>2, <1>3, RestoreStep, PTL DEF Spec
=============================================================================
