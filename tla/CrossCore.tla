----------------------------- MODULE CrossCore -----------------------------
(***************************************************************************)
(* The handshake between the two cores of the firmware.                    *)
(*                                                                         *)
(* Core 0 runs the commands: it rebuilds the path table from the bridges   *)
(* (refreshConnections, refreshLocalConnections), writes flash and uses    *)
(* the shared buffers.  Core 1, which the source calls "Core 2", runs      *)
(* loop1(): it programs the crossbar from the path table (sendPaths) and   *)
(* draws the LEDs from the same table (core2stuff).  The two communicate   *)
(* through volatile flags only; the core_sync mutex protects the shared    *)
(* buffers, not the path table.                                            *)
(*                                                                         *)
(* One action is one step between two accesses to shared state that the    *)
(* other core can tell apart.  Each core has a program counter, pc0 and    *)
(* pc2, and the registers r0 and r2 it keeps from one step to a later one. *)
(***************************************************************************)
EXTENDS Integers

CONSTANTS
  NPaths,      (* entries of the path table                                *)
  MaxCalls,    (* bound: operations Core 0 performs                        *)
  MaxCaptures, (* bound: logic analyzer captures                           *)
  Calls,       (* the operations Core 0 performs                           *)
  Timeouts,    (* the waits whose deadline may pass before Core 2 is done  *)
  LedOptions   (* the values callers give showLEDsCore2                    *)

CallNames    == {"full", "local", "localWait", "flash", "shared", "leds"}
TimeoutNames == {"wait25", "wait200", "wait1000", "waitFlash"}

ASSUME CrossCoreAssumption ==
  /\ NPaths \in Nat \ {0}
  /\ MaxCalls \in Nat
  /\ MaxCaptures \in Nat
  /\ Calls \subseteq CallNames
  /\ Timeouts \subseteq TimeoutNames
  /\ LedOptions \subseteq Int

VARIABLES
  flag,      (* the flags both cores read and write, and core_sync's owner *)
  bridges,   (* number of the edit globalState.connections.bridges holds   *)
  paths,     (* per entry, the edit it was routed from, or Cleared         *)
  netColors, (* the path table as the last netlist frame read it           *)
  crossbar,  (* per entry, what the CH446Q chips were last given           *)
  pc0, r0,   (* Core 0                                                     *)
  pc2, r2    (* Core 2                                                     *)

core0 == <<pc0, r0>>
core2 == <<pc2, r2>>
data  == <<bridges, paths, netColors, crossbar>>
vars  == <<flag, data, core0, core2>>

PathIds == 1..NPaths
Cleared == 0
Edits   == 0..MaxCalls + 1

(* Table t holds one complete routing: no entry cleared, all of one edit.  *)
Whole(t) == \A i, j \in PathIds : t[i] = t[j] /\ t[i] # Cleared

Pc0Names == {"idle", "wait_busy", "wait_sent", "pause", "clear", "rebuild",
             "unpause", "post", "wait_done", "leds", "term", "local_wait",
             "local_clear", "local_post", "local_leds", "flash_wait",
             "flash_ready", "flash", "shared_acquire", "shared"}
SendPcs  == {"send_start", "send", "send_done", "ack", "ack_again",
             "send_release"}
FramePcs == {"swirl", "frame", "frame_check", "nets", "overlays", "menu",
             "menu_raise", "menu_draw", "show", "showing", "settle",
             "settle_clear", "frame_end"}
PassPcs  == {"locked", "decode", "menu_due", "decode_store", "decide",
             "release"}
Pc2Names == {"loop", "paused", "entry", "lock", "adc", "adc_read"}
              \cup PassPcs \cup SendPcs \cup FramePcs

Init ==
  /\ flag = [core1busy |-> FALSE, core2busy |-> FALSE, pauseCore2 |-> FALSE,
             sendAllPathsCore2 |-> 0, showLEDsCore2 |-> 0,
             coreSync |-> "none"]
  /\ bridges = 1
  /\ paths = [i \in PathIds |-> 1]
  /\ netColors = paths
  /\ crossbar = paths
  /\ pc0 = "idle"
  /\ r0 = [call |-> "full", return |-> "idle", led |-> 0, clean |-> FALSE,
           index |-> 1, wasPaused |-> FALSE, calls |-> 0]
  /\ pc2 = "loop"
  /\ r2 = [index |-> 1, clean |-> FALSE, from |-> "pass", led |-> 0,
           rails |-> 0, swirled |-> FALSE, capturing |-> FALSE,
           captures |-> 0]

Go0(from, to) == pc0 = from /\ pc0' = to /\ UNCHANGED core2
Go2(from, to) == pc2 = from /\ pc2' = to /\ UNCHANGED core0

(* An LED request without its sign and its +10.                            *)
Mode(v) == LET a == IF v < 0 THEN -v ELSE v IN IF a >= 10 THEN a - 10 ELSE a

-----------------------------------------------------------------------------
(* Core 0                                                                  *)

(* An idle Core 0 takes the next operation; MaxCalls bounds their number.  *)
Begin(name) == pc0 = "idle" /\ name \in Calls /\ r0.calls < MaxCalls

(* A caller edits the bridges and calls refreshConnections, which first    *)
(* waits for Core 2 (waitCore2).                                           *)
CallRefresh ==
  /\ Begin("full")
  /\ \E led \in LedOptions \cup {0}, clean \in BOOLEAN :
       r0' = [r0 EXCEPT !.call = "full", !.led = led, !.clean = clean,
                        !.return = "pause", !.calls = @ + 1]
  /\ bridges' = r0.calls + 2
  /\ Go0("idle", "wait_busy")
  /\ UNCHANGED <<flag, paths, netColors, crossbar>>

(* A caller edits the bridges and calls refreshLocalConnections, with or   *)
(* without a waitCore2 after it.                                           *)
CallRefreshLocal ==
  /\ \E name \in {"local", "localWait"}, led \in LedOptions \cup {0} :
       /\ Begin(name)
       /\ r0' = [r0 EXCEPT !.call = name, !.led = led, !.return = "idle",
                           !.calls = @ + 1]
  /\ bridges' = r0.calls + 2
  /\ Go0("idle", "local_wait")
  /\ UNCHANGED <<flag, paths, netColors, crossbar>>

(* waitCore2: `while (core2busy || sendAllPathsCore2 != 0)` reads the two  *)
(* flags one after the other.                                              *)
WaitCore2Busy ==
  /\ Go0("wait_busy", "wait_sent")
  /\ ~flag.core2busy
  /\ UNCHANGED <<flag, data, r0>>

WaitCore2Sent ==
  /\ Go0("wait_sent",
         IF flag.sendAllPathsCore2 = 0 THEN r0.return ELSE "wait_busy")
  /\ UNCHANGED <<flag, data, r0>>

(* After 25 ms waitCore2 clears both flags itself and goes on.             *)
WaitCore2Timeout ==
  /\ "wait25" \in Timeouts
  /\ \/ Go0("wait_busy", r0.return) /\ flag.core2busy
     \/ Go0("wait_sent", r0.return) /\ flag.sendAllPathsCore2 # 0
  /\ flag' = [flag EXCEPT !.core2busy = FALSE, !.sendAllPathsCore2 = 0]
  /\ UNCHANGED <<data, r0>>

Pause ==
  /\ Go0("pause", "clear")
  /\ flag' = [flag EXCEPT !.pauseCore2 = TRUE]
  /\ UNCHANGED <<data, r0>>

(* clearAllNTCC wipes the path table before it is routed again.            *)
ClearPaths ==
  /\ Go0("clear", "rebuild") \/ Go0("local_clear", "rebuild")
  /\ flag' = [flag EXCEPT !.core1busy = TRUE]
  /\ paths' = [i \in PathIds |-> Cleared]
  /\ r0' = [r0 EXCEPT !.index = 1]
  /\ UNCHANGED <<bridges, netColors, crossbar>>

(* loadBridgesFromState ... bridgesToPaths route one entry after another.  *)
RoutePath ==
  /\ paths' = [paths EXCEPT ![r0.index] = bridges]
  /\ \/ r0.index < NPaths /\ Go0("rebuild", "rebuild")
     \/ /\ r0.index = NPaths
        /\ Go0("rebuild", IF r0.call = "full" THEN "unpause" ELSE "local_post")
  /\ r0' = [r0 EXCEPT !.index = IF @ < NPaths THEN @ + 1 ELSE @]
  /\ UNCHANGED <<flag, bridges, netColors, crossbar>>

(* Mutant: the rebuild leaves core1busy raised.                            *)
UnpauseStillBusy ==
  /\ Go0("unpause", "post")
  /\ flag' = [flag EXCEPT !.pauseCore2 = FALSE]
  /\ UNCHANGED <<data, r0>>

(* Mutant: ... or leaves Core 2 paused.                                    *)
UnpauseStillPaused ==
  /\ Go0("unpause", "post")
  /\ flag' = [flag EXCEPT !.core1busy = FALSE]
  /\ UNCHANGED <<data, r0>>

Unpause ==
  /\ Go0("unpause", "post")
  /\ flag' = [flag EXCEPT !.pauseCore2 = FALSE, !.core1busy = FALSE]
  /\ UNCHANGED <<data, r0>>

PostSend ==
  /\ Go0("post", "wait_done")
  /\ flag' = [flag EXCEPT !.sendAllPathsCore2 = IF r0.clean THEN -1 ELSE 1]
  /\ UNCHANGED <<data, r0>>

(* The wait for the crossbar, after which the LED request is posted; after *)
(* 1000 ms the send request is dropped with a warning.                     *)
AfterSend == IF r0.led # 0 THEN "leds" ELSE "term"

(* Mutant: the wait for the answer looks at core2busy.                     *)
WaitDoneIdle ==
  /\ Go0("wait_done", AfterSend)
  /\ ~flag.core2busy
  /\ UNCHANGED <<flag, data, r0>>

WaitDone ==
  /\ Go0("wait_done", AfterSend)
  /\ flag.sendAllPathsCore2 = 0
  /\ UNCHANGED <<flag, data, r0>>

(* Mutant: the deadline is looked at only while Core 2 is idle.            *)
WaitDoneTimeoutIdle ==
  /\ "wait1000" \in Timeouts
  /\ Go0("wait_done", AfterSend)
  /\ flag.sendAllPathsCore2 # 0 /\ ~flag.core2busy
  /\ flag' = [flag EXCEPT !.sendAllPathsCore2 = 0]
  /\ UNCHANGED <<data, r0>>

WaitDoneTimeout ==
  /\ "wait1000" \in Timeouts
  /\ Go0("wait_done", AfterSend)
  /\ flag.sendAllPathsCore2 # 0
  /\ flag' = [flag EXCEPT !.sendAllPathsCore2 = 0]
  /\ UNCHANGED <<data, r0>>

(* The LED request, then a waitCore2 before the terminal colors are read.  *)
PostLeds ==
  /\ Go0("leds", "wait_busy")
  /\ flag' = [flag EXCEPT !.showLEDsCore2 = r0.led]
  /\ r0' = [r0 EXCEPT !.return = "term"]
  /\ UNCHANGED data

(* assignTermColor reads netColors and the refresh returns.                *)
ReadTermColors == Go0("term", "idle") /\ UNCHANGED <<flag, data, r0>>

(* refreshLocalConnections waits on core2busy alone and forces it after    *)
(* 200 ms.                                                                 *)
LocalWait ==
  /\ Go0("local_wait", "local_clear")
  /\ ~flag.core2busy
  /\ UNCHANGED <<flag, data, r0>>

LocalWaitTimeout ==
  /\ "wait200" \in Timeouts
  /\ Go0("local_wait", "local_clear")
  /\ flag.core2busy
  /\ flag' = [flag EXCEPT !.core2busy = FALSE]
  /\ UNCHANGED <<data, r0>>

(* Where refreshLocalConnections leads its caller.                         *)
AfterLocal == IF r0.call = "localWait" THEN "wait_busy" ELSE "idle"

LocalPost ==
  /\ Go0("local_post", IF r0.led # 0 THEN "local_leds" ELSE AfterLocal)
  /\ flag' = [flag EXCEPT !.core1busy = FALSE, !.sendAllPathsCore2 = 3]
  /\ UNCHANGED <<data, r0>>

LocalPostLeds ==
  /\ Go0("local_leds", AfterLocal)
  /\ flag' = [flag EXCEPT !.showLEDsCore2 = r0.led]
  /\ UNCHANGED <<data, r0>>

(* pauseCore2ForFlash saves the flag, sets it and waits on core2busy.      *)
CallFlash ==
  /\ Begin("flash")
  /\ Go0("idle", "flash_wait")
  /\ r0' = [r0 EXCEPT !.wasPaused = flag.pauseCore2, !.calls = @ + 1]
  /\ flag' = [flag EXCEPT !.pauseCore2 = TRUE]
  /\ UNCHANGED data

(* The wait ends when Core 2 looks idle or its time is up ...              *)
FlashWait ==
  /\ Go0("flash_wait", "flash_ready")
  /\ ~flag.core2busy \/ "waitFlash" \in Timeouts
  /\ UNCHANGED <<flag, data, r0>>

(* ... and idleOtherCore() then parks Core 2 wherever it is by now.        *)
FlashPark == Go0("flash_ready", "flash") /\ UNCHANGED <<flag, data, r0>>

FlashEnd ==
  /\ Go0("flash", "idle")
  /\ flag' = [flag EXCEPT !.pauseCore2 = r0.wasPaused]
  /\ UNCHANGED <<data, r0>>

(* A section of Core 0 between core_sync_acquire and core_sync_release     *)
(* (SharedBuffer, ContextManager).                                         *)
CallShared ==
  /\ Begin("shared")
  /\ Go0("idle", "shared_acquire")
  /\ r0' = [r0 EXCEPT !.calls = @ + 1]
  /\ UNCHANGED <<flag, data>>

CoreSyncAcquire ==
  /\ Go0("shared_acquire", "shared")
  /\ flag.coreSync = "none"
  /\ flag' = [flag EXCEPT !.coreSync = "core0"]
  /\ UNCHANGED <<data, r0>>

CoreSyncRelease ==
  /\ Go0("shared", "idle")
  /\ flag' = [flag EXCEPT !.coreSync = "none"]
  /\ UNCHANGED <<data, r0>>

(* A menu or an app posts an LED request of its own.                       *)
CallLeds ==
  /\ Begin("leds")
  /\ Go0("idle", "idle")
  /\ r0' = [r0 EXCEPT !.calls = @ + 1]
  /\ \E led \in LedOptions : flag' = [flag EXCEPT !.showLEDsCore2 = led]
  /\ UNCHANGED data

-----------------------------------------------------------------------------
(* Core 2                                                                  *)

(* loop1 spins while it is paused, but serves a bypass request (3) even    *)
(* then, without the mutex.                                                *)
LoopPaused == Go2("loop", "paused") /\ flag.pauseCore2 /\ UNCHANGED <<flag, data, r2>>

PausedBypass ==
  /\ \/ /\ Go2("paused", "send_start")
        /\ flag.sendAllPathsCore2 = 3
        /\ r2' = [r2 EXCEPT !.from = "paused", !.clean = FALSE]
     \/ /\ Go2("paused", "loop")
        /\ flag.sendAllPathsCore2 # 3
        /\ UNCHANGED r2
  /\ UNCHANGED <<flag, data>>

(* The logic analyzer's handler starts a capture; while it runs, loop1     *)
(* does not call core2stuff.                                               *)
StartCapture ==
  /\ Go2("loop", "loop")
  /\ ~flag.pauseCore2 /\ ~r2.capturing /\ r2.captures < MaxCaptures
  /\ r2' = [r2 EXCEPT !.capturing = TRUE, !.captures = @ + 1]
  /\ UNCHANGED <<flag, data>>

StopCapture ==
  /\ Go2("loop", "loop")
  /\ r2.capturing
  /\ r2' = [r2 EXCEPT !.capturing = FALSE]
  /\ UNCHANGED <<flag, data>>

(* core2stuff starts by declaring Core 2 idle.                             *)
EnterCore2stuff ==
  /\ Go2("loop", "entry")
  /\ ~flag.pauseCore2 /\ ~r2.capturing
  /\ flag' = [flag EXCEPT !.core2busy = FALSE]
  /\ UNCHANGED <<data, r2>>

(* A bypass request is served before anything else, under the mutex; when  *)
(* Core 0 holds it for the whole millisecond, a later pass serves it.      *)
CheckBypass ==
  /\ \/ /\ Go2("entry", "lock")
        /\ flag.sendAllPathsCore2 # 3
        /\ UNCHANGED <<flag, r2>>
     \/ /\ Go2("entry", "send_start")
        /\ flag.sendAllPathsCore2 = 3 /\ flag.coreSync = "none"
        /\ flag' = [flag EXCEPT !.coreSync = "core2"]
        /\ r2' = [r2 EXCEPT !.from = "entry", !.clean = FALSE]
     \/ /\ Go2("entry", "loop")
        /\ flag.sendAllPathsCore2 = 3 /\ flag.coreSync # "none"
        /\ UNCHANGED <<flag, r2>>
  /\ UNCHANGED data

(* The rest of core2stuff runs under the mutex, taken without blocking.    *)
TryLock ==
  /\ \/ /\ Go2("lock", "locked")
        /\ flag.coreSync = "none"
        /\ flag' = [flag EXCEPT !.coreSync = "core2"]
     \/ Go2("lock", "loop") /\ flag.coreSync # "none" /\ UNCHANGED flag
  /\ UNCHANGED <<data, r2>>

(* Mutant: the early return forgets the mutex.                             *)
CheckPauseKeeping ==
  /\ \/ Go2("locked", "loop") /\ flag.pauseCore2
     \/ Go2("locked", "decode") /\ ~flag.pauseCore2
  /\ UNCHANGED <<flag, data, r2>>

(* Leaves core2stuff when a pause was requested meanwhile.                 *)
CheckPause ==
  /\ \/ /\ Go2("locked", "loop")
        /\ flag.pauseCore2
        /\ flag' = [flag EXCEPT !.coreSync = "none"]
     \/ Go2("locked", "decode") /\ ~flag.pauseCore2 /\ UNCHANGED flag
  /\ UNCHANGED <<data, r2>>

(* The menu engine requests its next frame itself when nothing is pending; *)
(* a menu is open only in a run whose requests have one of its (mode 2).   *)
MenuFrameDue ==
  /\ Go2("decode", "menu_due")
  /\ flag.showLEDsCore2 = 0
  /\ \E led \in LedOptions : Mode(led) = 2
  /\ UNCHANGED <<flag, data, r2>>

RequestMenuFrame ==
  /\ Go2("menu_due", "decode")
  /\ flag' = [flag EXCEPT !.showLEDsCore2 = 2]
  /\ UNCHANGED <<data, r2>>

(* The LED request is decoded in place, by a load and a store: the sign    *)
(* (clear first) and the +10 (blocking show) are taken off.                *)
DecodeLoad ==
  /\ r2' = [r2 EXCEPT !.led = flag.showLEDsCore2]
  /\ Go2("decode", IF Mode(flag.showLEDsCore2) = flag.showLEDsCore2
                     THEN "decide" ELSE "decode_store")
  /\ UNCHANGED <<flag, data>>

DecodeStore ==
  /\ Go2("decode_store", "decide")
  /\ flag' = [flag EXCEPT !.showLEDsCore2 = Mode(r2.led)]
  /\ UNCHANGED <<data, r2>>

(* The scheduler's interval has not elapsed and no interactive frame waits.*)
SkipPass ==
  /\ Go2("decide", "release")
  /\ flag.showLEDsCore2 \notin {2, 3}
  /\ UNCHANGED <<flag, data, r2>>

(* Mutant: off by one, a request for the netlist is not due.               *)
LedFrameDueAboveOne ==
  /\ flag.showLEDsCore2 > 1 \/ r2.swirled
  /\ flag.sendAllPathsCore2 = 0

(* The LED branch needs a request or a logo tick, and no path request.     *)
LedFrameDue ==
  /\ flag.showLEDsCore2 >= 1 \/ r2.swirled
  /\ flag.sendAllPathsCore2 = 0

StartLedFrame ==
  /\ Go2("decide", "swirl")
  /\ LedFrameDue
  /\ flag' = [flag EXCEPT !.core2busy = TRUE]
  /\ r2' = [r2 EXCEPT !.rails = flag.showLEDsCore2]
  /\ UNCHANGED data

(* After the rails and the logo, mode 2 shows the menu buffer, 3 nothing   *)
(* more; any other mode shows the nets.  An open menu, hideNets or the     *)
(* demo display suppress either.                                           *)
EndSwirl ==
  /\ \/ Go2("swirl", "frame") /\ r2.rails \notin {2, 3}
     \/ Go2("swirl", "menu") /\ r2.rails = 2
     \/ Go2("swirl", "settle")
  /\ flag' = [flag EXCEPT !.core2busy = FALSE]
  /\ UNCHANGED <<data, r2>>

StartSend ==
  /\ Go2("decide", "send_start")
  /\ ~LedFrameDue
  /\ flag.sendAllPathsCore2 # 0
  /\ r2' = [r2 EXCEPT !.clean = flag.sendAllPathsCore2 = -1,
                      !.from = "pass"]
  /\ UNCHANGED <<flag, data>>

(* Nothing to do: the logo advances when its own timer is due, which makes *)
(* the next pass draw a frame.                                             *)
IdlePass ==
  /\ Go2("decide", "release")
  /\ ~LedFrameDue
  /\ flag.sendAllPathsCore2 = 0
  /\ \E tick \in BOOLEAN :
       /\ tick => flag.showLEDsCore2 = 0 /\ ~flag.core1busy
       /\ r2' = [r2 EXCEPT !.swirled = tick]
  /\ flag' = [flag EXCEPT !.core2busy = FALSE]
  /\ UNCHANGED data

(* sendPaths: busy, a reset pulse when the send is clean, then one path    *)
(* after another from the table as it is, then idle and acknowledged.      *)
SendStart ==
  /\ Go2("send_start", "send")
  /\ flag' = [flag EXCEPT !.core2busy = TRUE]
  /\ crossbar' = IF r2.clean THEN [i \in PathIds |-> Cleared] ELSE crossbar
  /\ r2' = [r2 EXCEPT !.index = 1]
  /\ UNCHANGED <<bridges, paths, netColors>>

(* Mutant: the loop over the paths goes one too far.                       *)
SendPathOver ==
  /\ crossbar' = [crossbar EXCEPT ![r2.index] = paths[r2.index]]
  /\ \/ r2.index <= NPaths /\ Go2("send", "send")
     \/ r2.index > NPaths /\ Go2("send", "send_done")
  /\ r2' = [r2 EXCEPT !.index = IF @ <= NPaths THEN @ + 1 ELSE @]
  /\ UNCHANGED <<flag, bridges, paths, netColors>>

(* Mutant: ... or stops one short.                                         *)
SendPathShort ==
  /\ crossbar' = [crossbar EXCEPT ![r2.index] = paths[r2.index]]
  /\ \/ r2.index + 1 < NPaths /\ Go2("send", "send")
     \/ r2.index + 1 >= NPaths /\ Go2("send", "send_done")
  /\ r2' = [r2 EXCEPT !.index = IF @ < NPaths THEN @ + 1 ELSE @]
  /\ UNCHANGED <<flag, bridges, paths, netColors>>

SendPath ==
  /\ crossbar' = [crossbar EXCEPT ![r2.index] = paths[r2.index]]
  /\ \/ r2.index < NPaths /\ Go2("send", "send")
     \/ r2.index = NPaths /\ Go2("send", "send_done")
  /\ r2' = [r2 EXCEPT !.index = IF @ < NPaths THEN @ + 1 ELSE @]
  /\ UNCHANGED <<flag, bridges, paths, netColors>>

(* Mutant: neither sendPaths nor its caller clears the request.            *)
SendDoneUnacknowledged ==
  /\ Go2("send_done", "send_release")
  /\ flag' = [flag EXCEPT !.core2busy = FALSE]
  /\ UNCHANGED <<data, r2>>

SendDone ==
  /\ Go2("send_done", "ack")
  /\ flag' = [flag EXCEPT !.core2busy = FALSE]
  /\ UNCHANGED <<data, r2>>

(* sendPaths clears the request, and each of its callers clears it again.  *)
Acknowledge ==
  /\ Go2("ack", "ack_again") \/ Go2("ack_again", "send_release")
  /\ flag' = [flag EXCEPT !.sendAllPathsCore2 = 0]
  /\ UNCHANGED <<data, r2>>

(* The send ends where it was called: in the paused loop, which holds no   *)
(* mutex, at core2stuff's entry, which gives it back, or in its pass.      *)
SendRelease ==
  /\ Go2("send_release", IF r2.from = "pass" THEN "release" ELSE "loop")
  /\ flag' = [flag EXCEPT !.core2busy = FALSE,
                          !.coreSync = IF r2.from = "entry" THEN "none" ELSE @]
  /\ UNCHANGED <<data, r2>>

(* One netlist frame: core2busy is raised before the pause is read, and a  *)
(* pause abandons the frame; showNets raises it again.                     *)
StartNets ==
  /\ Go2("frame", "frame_check")
  /\ flag' = [flag EXCEPT !.core2busy = TRUE]
  /\ UNCHANGED <<data, r2>>

CheckPauseNets ==
  /\ \/ /\ Go2("frame_check", "loop")
        /\ flag.pauseCore2
        /\ flag' = [flag EXCEPT !.core2busy = FALSE, !.coreSync = "none"]
     \/ /\ Go2("frame_check", "nets")
        /\ ~flag.pauseCore2
        /\ flag' = [flag EXCEPT !.core2busy = TRUE]
  /\ UNCHANGED <<data, r2>>

(* showNets reads the nets (assignNetColors) and itself drops core2busy    *)
(* before the measurements and the overlays are drawn.                     *)
ShowNets ==
  /\ Go2("nets", "overlays")
  /\ netColors' = paths
  /\ flag' = [flag EXCEPT !.core2busy = FALSE]
  /\ UNCHANGED <<bridges, paths, crossbar, r2>>

DrawOverlays ==
  /\ Go2("overlays", "show")
  /\ flag' = [flag EXCEPT !.core2busy = FALSE]
  /\ UNCHANGED <<data, r2>>

(* A menu frame reads the pause first and then raises core2busy.           *)
CheckPauseMenu ==
  /\ \/ /\ Go2("menu", "loop")
        /\ flag.pauseCore2
        /\ flag' = [flag EXCEPT !.coreSync = "none"]
     \/ Go2("menu", "menu_raise") /\ ~flag.pauseCore2 /\ UNCHANGED flag
  /\ UNCHANGED <<data, r2>>

StartMenu ==
  /\ Go2("menu_raise", "menu_draw")
  /\ flag' = [flag EXCEPT !.core2busy = TRUE]
  /\ UNCHANGED <<data, r2>>

(* menuTransitionRender may refuse to show a half-painted frame.           *)
DrawMenu ==
  /\ Go2("menu_draw", "show") \/ Go2("menu_draw", "settle")
  /\ flag' = [flag EXCEPT !.core2busy = FALSE]
  /\ UNCHANGED <<data, r2>>

ShowLeds ==
  /\ \/ Go2("show", "showing") /\ flag' = [flag EXCEPT !.core2busy = TRUE]
     \/ Go2("showing", "settle") /\ flag' = [flag EXCEPT !.core2busy = FALSE]
  /\ UNCHANGED <<data, r2>>

(* The request is cleared if it still has the value that was served; the   *)
(* comparison and the store are two accesses.                              *)
CompareRequest ==
  /\ Go2("settle",
         IF r2.rails # 3 /\ ~r2.swirled /\ flag.showLEDsCore2 = r2.rails
           THEN "settle_clear" ELSE "frame_end")
  /\ UNCHANGED <<flag, data, r2>>

ClearRequest ==
  /\ Go2("settle_clear", "frame_end")
  /\ flag' = [flag EXCEPT !.showLEDsCore2 = 0]
  /\ UNCHANGED <<data, r2>>

FrameEnd ==
  /\ Go2("frame_end", "release")
  /\ flag' = [flag EXCEPT !.core2busy = FALSE]
  /\ r2' = [r2 EXCEPT !.swirled = FALSE]
  /\ UNCHANGED data

ReleaseLock ==
  /\ Go2("release", "adc")
  /\ flag' = [flag EXCEPT !.coreSync = "none"]
  /\ UNCHANGED <<data, r2>>

(* updateLazyAdcReadings, after the mutex was given back: when a channel   *)
(* is due and no pause requested, core2busy is raised around the reading.  *)
SkipAdc == Go2("adc", "loop") /\ UNCHANGED <<flag, data, r2>>

ReadAdc ==
  /\ \/ /\ Go2("adc", "adc_read")
        /\ ~flag.pauseCore2
        /\ flag' = [flag EXCEPT !.core2busy = TRUE]
     \/ /\ Go2("adc_read", "loop")
        /\ flag' = [flag EXCEPT !.core2busy = FALSE]
  /\ UNCHANGED <<data, r2>>

-----------------------------------------------------------------------------
(* What Core 0 starts, and what it then carries on with.                   *)
Core0Call ==
  CallRefresh \/ CallRefreshLocal \/ CallFlash \/ CallShared \/ CallLeds

Core0Step ==
  \/ WaitCore2Busy \/ WaitCore2Sent \/ WaitCore2Timeout
  \/ Pause \/ ClearPaths \/ RoutePath \/ Unpause
  \/ PostSend \/ WaitDone \/ WaitDoneTimeout \/ PostLeds \/ ReadTermColors
  \/ LocalWait \/ LocalWaitTimeout \/ LocalPost \/ LocalPostLeds
  \/ FlashWait \/ FlashPark \/ FlashEnd
  \/ CoreSyncAcquire \/ CoreSyncRelease

LoopStep ==
  \/ LoopPaused \/ PausedBypass
  \/ EnterCore2stuff \/ CheckBypass \/ TryLock \/ CheckPause
  \/ MenuFrameDue \/ RequestMenuFrame \/ DecodeLoad \/ DecodeStore
  \/ SkipPass \/ StartLedFrame \/ StartSend \/ IdlePass
  \/ ReleaseLock \/ SkipAdc \/ ReadAdc

SendStep ==
  SendStart \/ SendPath \/ SendDone \/ Acknowledge \/ SendRelease

FrameStep ==
  \/ EndSwirl \/ StartNets \/ CheckPauseNets \/ ShowNets \/ DrawOverlays
  \/ CheckPauseMenu \/ StartMenu \/ DrawMenu \/ ShowLeds
  \/ CompareRequest \/ ClearRequest \/ FrameEnd

(* Core 2 stands still while idleOtherCore() parks it for a flash write.   *)
Parked    == pc0 = "flash"
Core2Step == ~Parked /\ (LoopStep \/ SendStep \/ FrameStep)
Capture   == ~Parked /\ (StartCapture \/ StopCapture)

Next == Core0Call \/ Core0Step \/ Core2Step \/ Capture

Spec == Init /\ [][Next]_vars

(* Core 0 alone is obliged to run: what holds under Core0Fair holds        *)
(* whatever Core 2 does, or if it hangs.  A deadline that has passed stays *)
(* passed while waitCore2 goes round its loop, hence strong fairness.      *)
Core0Fair == Spec /\ WF_vars(Core0Step) /\ SF_vars(WaitCore2Timeout)

(* Both cores run, captures end, and the pass in which the scheduler's     *)
(* interval has elapsed comes: once elapsed it stays so until such a pass  *)
(* restarts the timer, hence strong fairness for what it enables.          *)
BothFair ==
  /\ Core0Fair
  /\ WF_vars(Core2Step)
  /\ WF_vars(~Parked /\ StopCapture)
  /\ SF_vars(~Parked /\ StartSend)
  /\ SF_vars(~Parked /\ StartLedFrame)

-----------------------------------------------------------------------------
FlagType ==
  flag \in [core1busy : BOOLEAN, core2busy : BOOLEAN, pauseCore2 : BOOLEAN,
            sendAllPathsCore2 : {-1, 0, 1, 3}, showLEDsCore2 : Int,
            coreSync : {"none", "core0", "core2"}]

DataType ==
  /\ bridges \in Edits \ {Cleared}
  /\ paths \in [PathIds -> Edits]
  /\ netColors \in [PathIds -> Edits]
  /\ crossbar \in [PathIds -> Edits]

Core0Type ==
  /\ pc0 \in Pc0Names
  /\ r0 \in [call : {"full", "local", "localWait"},
             return : {"idle", "pause", "term"}, led : LedOptions \cup {0},
             clean : BOOLEAN, index : PathIds, wasPaused : BOOLEAN,
             calls : 0..MaxCalls]

Core2Type ==
  /\ pc2 \in Pc2Names
  /\ r2 \in [index : PathIds, clean : BOOLEAN, from : {"paused", "entry", "pass"},
             led : Int, rails : Int, swirled : BOOLEAN, capturing : BOOLEAN,
             captures : 0..MaxCaptures]

TypeOK == FlagType /\ DataType /\ Core0Type /\ Core2Type

(* While Core 2 programs the crossbar, the table it reads is one complete  *)
(* routing: sendPaths never meets the table between clearAllNTCC and the   *)
(* end of bridgesToPaths, although no lock protects it.                    *)
SendReadsWholeTable == pc2 = "send" => Whole(paths)

(* Outside a send the chips hold one complete routing, never a mixture of  *)
(* two edits.                                                              *)
CrossbarWhole == pc2 # "send" => Whole(crossbar)

(* Every way out of core2stuff gives the mutex back, and only the send     *)
(* started from the paused loop runs without it.                           *)
CoreSyncHeld ==
  /\ flag.coreSync = "core2" <=>
       \/ pc2 \in PassPcs \cup FramePcs
       \/ pc2 \in SendPcs /\ r2.from # "paused"
  /\ flag.coreSync = "core0" <=> pc0 = "shared"

(* Whatever an operation did to the pause and busy flags on its way, it    *)
(* leaves Core 2 running and Core 0 not busy when it returns.              *)
FlagsRestored == pc0 = "idle" => ~flag.pauseCore2 /\ ~flag.core1busy

(* A refresh returns to its caller even when Core 2 never answers: every   *)
(* wait has a deadline.                                                    *)
RefreshReturns ==
  (pc0 \notin {"idle", "shared_acquire"}) ~> (pc0 = "idle")

(* A request that refreshConnections posts while Core 2 is not still       *)
(* acknowledging an earlier one ends with the crossbar holding the table.  *)
PostedIsProgrammed ==
  (/\ pc0 = "wait_done"
   /\ flag.sendAllPathsCore2 # 0
   /\ pc2 \notin {"ack", "ack_again"}) ~> (crossbar = paths)

(* A bypass request is taken up, by the paused loop too.                   *)
BypassServed == (flag.sendAllPathsCore2 = 3) ~> (flag.sendAllPathsCore2 # 3)

(* A request for the netlist does not stay pending for ever: sends, pauses *)
(* and contention for the mutex delay a frame, they do not starve it.      *)
NetsRequestServed == (flag.showLEDsCore2 = 1) ~> (flag.showLEDsCore2 # 1)
=============================================================================
