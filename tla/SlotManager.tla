----------------------------- MODULE SlotManager -----------------------------
(***************************************************************************)
(* The slots: which board is in memory, which slot's it is taken to be,    *)
(* and what the slot files hold.  Everything that loads, saves, previews,  *)
(* borrows or deletes a slot is here: the commands, the autosave, the      *)
(* click menu, the apps, the Python session, the host that mounts the      *)
(* drive, and the power.                                                   *)
(*                                                                         *)
(* The operations of the manager are functions from a state of it to the   *)
(* states and answers it may come back with, so that a handler is the      *)
(* composition of the calls it makes.                                      *)
(***************************************************************************)
EXTENDS Integers

CONSTANTS
  Slots,      (* the numbered slots                                        *)
  Python,     (* the slot of an isolated Python session, 99                *)
  AppSlot,    (* the number an app works under, 8: it has no file          *)
  Nowhere,    (* no active slot, -1                                        *)
  Wires,      (* what a user can put on a board                            *)
  OutOfRange, (* a setting validate() rejects: only a host's file has it   *)
  NoFile, None,
  MaxFaults,  (* reads and writes that fail in a behaviour                 *)
  MaxWrites   (* files the host writes in a behaviour                      *)

ASSUME SlotManagerAssumption ==
  /\ 0 \in Slots
  /\ Slots \cap {Python, AppSlot, Nowhere, None} = {}
  /\ Python \notin {AppSlot, Nowhere, None}
  /\ None \notin {AppSlot, Nowhere} /\ AppSlot # Nowhere
  /\ OutOfRange \notin Wires
  /\ \A b \in SUBSET (Wires \union {OutOfRange}) : b \notin {NoFile, None}
  /\ MaxFaults \in Nat /\ MaxWrites \in Nat

VARIABLES
  mgr,      (* [files, board, dirty, active, net, ok, faults]: the files,  *)
            (* activeState, activeSlotNumber, netSlot and the last answer  *)
  mode,     (* what has the main loop: the menu, an app, Python            *)
  preview,  (* [slot, original, shown]: previewSlotNumber (None unless     *)
            (* previewModeActive), originalSlotNumber, the slot the menu   *)
            (* highlights                                                  *)
  original, (* temporarySlotOriginal, or None                              *)
  python,   (* [isolated, entry, backup]: the context, pythonEntrySlot and *)
            (* the state backup                                            *)
  host,     (* [mounted, writes]: usbMountedByHost                         *)
  home,     (* the slot one was on when the menu or an app was entered     *)
  work      (* what the user last made in each slot                        *)

vars == <<mgr, mode, preview, original, python, host, home, work>>

Storable == Slots \union {Python}
Boards   == SUBSET (Wires \union {OutOfRange})
Numbers  == Storable \union {AppSlot, Nowhere}
Valid(b) == OutOfRange \notin b

Managers == [files : [Storable -> Boards \union {NoFile}], board : Boards,
             dirty : BOOLEAN, active : Numbers, net : Numbers, ok : BOOLEAN,
             faults : 0..MaxFaults]

NoPreview == [slot |-> None, original |-> None, shown |-> None]

Stored(files, n) == IF files[n] = NoFile THEN {} ELSE files[n]

-----------------------------------------------------------------------------
(* The manager.  A read fails when the file cannot be opened; a write      *)
(* fails before the file is touched, or after a part of it.                *)

Failed(s)  == [s EXCEPT !.ok = FALSE]
Faulty(s)  == [s EXCEPT !.ok = FALSE, !.faults = @ + 1]
Done(s)    == [s EXCEPT !.ok = TRUE]
Numbered(s, n) == [s EXCEPT !.active = n, !.net = n]
Cleared(s)     == [s EXCEPT !.board = {}, !.dirty = FALSE]

(* fromYAML: what the file says replaces the board even when it turns out  *)
(* to be invalid.  The board is cleared, each connection of the file makes *)
(* it dirty, and only a valid file makes it clean again.                   *)
fromYAML(s, b) == [s EXCEPT !.board = b, !.ok = Valid(b),
                            !.dirty = ~Valid(b) /\ b # {OutOfRange}]

readSlotFile(s, n) ==
  {fromYAML(s, s.files[n])}
    \union (IF s.faults < MaxFaults THEN {Faulty(s)} ELSE {})

loadSlot(s, n) ==
  IF n \notin Storable THEN {Failed(s)}
  ELSE IF s.files[n] = NoFile THEN {Numbered(Done(Cleared(s)), n)}
  ELSE {IF t.ok THEN Numbered(t, n) ELSE t : t \in readSlotFile(s, n)}

Refused(s, n, checked) == n \notin Storable \/ (checked /\ ~Valid(s.board))

saveSlot(s, n, checked) ==
  IF Refused(s, n, checked) THEN {Failed(s)}
  ELSE {Numbered(Done([s EXCEPT !.files[n] = s.board, !.dirty = FALSE]), n)}
         \union (IF s.faults < MaxFaults
                 THEN {Faulty([s EXCEPT !.files[n] = c])
                        : c \in {s.files[n]} \union SUBSET s.board}
                 ELSE {})

saveActiveSlot(s) == saveSlot(s, s.active, TRUE)

deleteSlot(s, n) ==
  {IF s.active = n
   THEN [Done(Cleared(s)) EXCEPT !.files[n] = NoFile,
                                 !.active = Nowhere, !.net = 0]
   ELSE [Done(s) EXCEPT !.files[n] = NoFile]}
    \union (IF s.files[n] # NoFile /\ s.faults < MaxFaults
            THEN {Faulty(s)} ELSE {})

(* restoreStateBackup(TRUE).                                               *)
restoreAndSaveStateBackup(s, backup) ==
  IF backup = None THEN {s}
  ELSE LET t == fromYAML(s, backup)
       IN  IF t.ok THEN saveSlot(t, t.net, TRUE) ELSE {t}

(* Mutant: the dirty board is not saved before the slot is loaded.         *)
reloadUnsaved(s) == {IF t.ok THEN t ELSE Cleared(t) : t \in loadSlot(s, s.net)}

(* main.cpp's loadfile.                                                    *)
reload(s) ==
  LET saved == IF s.dirty THEN saveActiveSlot(s) ELSE {s}
  IN  {IF t.ok THEN t ELSE Cleared(t) : t \in UNION {loadSlot(u, u.net) : u \in saved}}

-----------------------------------------------------------------------------
Init ==
  /\ mgr = [files |-> [n \in Storable |-> NoFile], board |-> {},
            dirty |-> FALSE, active |-> 0, net |-> 0, ok |-> TRUE, faults |-> 0]
  /\ mode = "main" /\ preview = NoPreview /\ original = None
  /\ python = [isolated |-> FALSE, entry |-> None, backup |-> None]
  /\ host = [mounted |-> FALSE, writes |-> 0]
  /\ home = 0 /\ work = [n \in Slots |-> {}]

(* The board is clean and is not what the active slot's file holds.        *)
Stale(s) ==
  /\ ~s.dirty /\ s.active \in Storable
  /\ s.board # Stored(s.files, s.active)

(* Work is lost or misplaced when unsaved edits are dropped or cannot be   *)
(* written, and when a board is saved that is not the one its slot number  *)
(* stands for.  From then on the user's work is what is left of it.  What  *)
(* a rejected file has left on the board is nobody's work, dirty or not.   *)
Edited(s) == s.dirty /\ Valid(s.board)
Left(s)   == [n \in Slots |-> IF Edited(s) /\ s.active = n THEN s.board
                                                         ELSE Stored(s.files, n)]
Works(lost, w) == work' = IF lost THEN Left(mgr') ELSE w
Keeps(lost)    == Works(lost, work)

Fault    == mgr'.faults > mgr.faults
Unsaved  == Edited(mgr) /\ (Fault \/ Refused(mgr, mgr.active, TRUE))
Apart(s) == Edited(s) /\ s.active # s.net

(* A connection is made or removed, by a command, the probe, an app or a   *)
(* script.                                                                 *)
Changed(board, w) == IF w \in board THEN board \ {w} ELSE board \union {w}

Edit(w) ==
  /\ mode \in {"main", "app", "python"}
  /\ mgr' = [mgr EXCEPT !.board = Changed(@, w), !.dirty = TRUE]
  /\ Works(mgr.active # mgr.net \/ Stale(mgr) \/ ~Valid(mgr.board),
           [n \in Slots |-> IF n = mgr.net THEN Changed(work[n], w) ELSE work[n]])
  /\ UNCHANGED <<mode, preview, original, python, host, home>>

(* Mutant: the active slot is not taken from netSlot first.                *)
AutoSaveUnsynced ==
  /\ mode = "main" /\ ~host.mounted /\ mgr.dirty
  /\ mgr' \in saveSlot(mgr, mgr.active, FALSE)
  /\ Keeps(Apart(mgr) \/ ~Valid(mgr.board))
  /\ UNCHANGED <<mode, preview, original, python, host, home>>

(* The service that saves a dirty board when the device is idle.  It does  *)
(* not check the board, which may be a rejected file's.                    *)
AutoSave ==
  /\ mode = "main" /\ ~host.mounted /\ mgr.dirty
  /\ LET synced == [mgr EXCEPT !.active = mgr.net]
     IN  mgr' \in saveSlot(synced, synced.active, FALSE)
  /\ Keeps(Apart(mgr) \/ ~Valid(mgr.board))
  /\ UNCHANGED <<mode, preview, original, python, host, home>>

(* "<" and "<n": a slot is asked for and loadfile follows.                 *)
cycleSlots(n) ==
  /\ mode = "main"
  /\ mgr' \in reload([mgr EXCEPT !.net = n])
  /\ preview' = NoPreview
  /\ Keeps(Unsaved \/ Apart(mgr))
  /\ UNCHANGED <<mode, original, python, host, home>>

(* The other commands that end in loadfile.                                *)
LoadFile ==
  /\ mode = "main"
  /\ mgr' \in reload(mgr)
  /\ preview' = NoPreview
  /\ Keeps(Unsaved \/ Apart(mgr))
  /\ UNCHANGED <<mode, original, python, host, home>>

(* nodes_save, and the commands that save the state at once.               *)
saveStateToSlot(n) ==
  /\ mode \in {"main", "python"}
  /\ mgr' \in saveSlot(mgr, n, TRUE)
  /\ Works(Fault \/ (Edited(mgr) /\ mgr.active # n) \/ mgr.board # work[n],
           IF mgr'.ok THEN [work EXCEPT ![n] = mgr.board] ELSE work)
  /\ UNCHANGED <<mode, preview, original, python, host, home>>

(* "f Slot n { ... }": a board typed or pasted for a slot, which need not  *)
(* be the active one; that one is loaded again.  loadfile follows.         *)
inputNodeFileList(n, b) ==
  LET typed == Numbered([Cleared(mgr) EXCEPT !.board = b], n)
      loaded(s) == IF s.ok \/ mgr.active # n THEN loadSlot(s, mgr.active) ELSE {s}
  IN  /\ mode = "main"
      /\ mgr' \in UNION {reload(s) : s \in UNION {loaded(u) : u \in saveSlot(typed, n, TRUE)}}
      /\ preview' = NoPreview
      /\ Works(Fault \/ (Edited(mgr) /\ mgr.active # n), [work EXCEPT ![n] = b])
      /\ UNCHANGED <<mode, original, python, host, home>>

-----------------------------------------------------------------------------
(* The click menu.  Highlighting a slot under Load loads it; the slot one  *)
(* came from is remembered the first time.                                 *)

(* Mutant: the slot one came from is remembered at every slot shown.       *)
previewSlotAgain(n) ==
  /\ mode \in {"main", "menu"}
  /\ mode' = "menu"
  /\ mgr' \in loadSlot(mgr, n)
  /\ preview' =
       IF ~mgr'.ok THEN [preview EXCEPT !.shown = n]
       ELSE [slot |-> n, shown |-> n,
             original |-> mgr.active]
  /\ home' = IF mode = "main" THEN mgr.active ELSE home
  /\ Keeps(Edited(mgr))
  /\ UNCHANGED <<original, python, host>>

previewSlot(n) ==
  /\ mode \in {"main", "menu"}
  /\ mode' = "menu"
  /\ mgr' \in loadSlot(mgr, n)
  /\ preview' =
       IF ~mgr'.ok THEN [preview EXCEPT !.shown = n]
       ELSE [slot |-> n, shown |-> n,
             original |-> IF preview.slot = None THEN mgr.active ELSE preview.original]
  /\ home' = IF mode = "main" THEN mgr.active ELSE home
  /\ Keeps(Edited(mgr))
  /\ UNCHANGED <<original, python, host>>

(* exitPreview(FALSE), or a menu left without a preview.                   *)
cancelPreview ==
  /\ mode = "menu"
  /\ mode' = "main" /\ preview' = NoPreview
  /\ mgr' \in IF preview.slot = None THEN {mgr} ELSE loadSlot(mgr, preview.original)
  /\ UNCHANGED <<original, python, host, home, work>>

(* Load: exitPreview(TRUE), then the highlighted slot is made the active   *)
(* one whatever the answer was.                                            *)
applyPreview ==
  /\ mode = "menu" /\ preview.shown # None
  /\ mode' = "main" /\ preview' = NoPreview
  /\ LET n == preview.slot
         absent == n # None /\ mgr.files[n] = NoFile
     IN  mgr' \in {Numbered(s, preview.shown) :
                     s \in IF absent THEN saveSlot(mgr, n, TRUE) ELSE {mgr}}
  /\ Keeps(Stale(mgr) \/ (Edited(mgr) /\ preview.shown # mgr.active))
  /\ UNCHANGED <<original, python, host, home>>

(* Save to: saveCurrentSlotToSlot, then netSlot whatever came of it.       *)
saveCurrentSlotToSlot(n) ==
  /\ mode = "main"
  /\ mgr' \in {[s EXCEPT !.net = n] :
                 s \in UNION {IF t.ok THEN saveSlot(t, n, TRUE) ELSE {t}
                                : t \in loadSlot(mgr, mgr.net)}}
  /\ Works(Edited(mgr) \/ Fault, IF mgr'.ok THEN [work EXCEPT ![n] = mgr'.board] ELSE work)
  /\ UNCHANGED <<mode, preview, original, python, host, home>>

(* Clear.                                                                  *)
clearSlot(n) ==
  /\ mode = "main"
  /\ mgr' \in deleteSlot(mgr, n)
  /\ work' = IF mgr'.ok THEN [work EXCEPT ![n] = {}] ELSE work
  /\ UNCHANGED <<mode, preview, original, python, host, home>>

-----------------------------------------------------------------------------
(* An app works on a blank board under a number that has no file.          *)
enterTemporarySlot ==
  /\ mode = "main" /\ original = None
  /\ mode' = "app"
  /\ \E s \in IF mgr.dirty THEN saveActiveSlot(mgr) ELSE {mgr} :
       /\ mgr' = Numbered(Cleared(s), AppSlot)
       /\ original' = s.active
  /\ home' = mgr.active
  /\ Keeps(Unsaved \/ Apart(mgr))
  /\ UNCHANGED <<preview, python, host>>

(* Mutant: it is not checked that an app has the main loop.                *)
exitTemporarySlotTwice ==
  LET back == Numbered(mgr, original)
      restored == original \in Storable /\ mgr.files[original] # NoFile
  IN  /\ mode \in {"main", "app"}
      /\ mode' = "main" /\ original' = None
      /\ mgr' \in IF restored THEN readSlotFile(back, original) ELSE {back}
      /\ Keeps(~restored \/ ~mgr'.ok)
      /\ UNCHANGED <<preview, python, host, home>>

(* Mutant: only the number is brought back.                                *)
exitTemporarySlotUnread ==
  /\ mode = "app"
  /\ mode' = "main" /\ original' = None
  /\ mgr' = Numbered(mgr, original)
  /\ Keeps(mgr.files[original] = NoFile)
  /\ UNCHANGED <<preview, python, host, home>>

exitTemporarySlot ==
  LET back == Numbered(mgr, original)
      restored == original \in Storable /\ mgr.files[original] # NoFile
  IN  /\ mode = "app"
      /\ mode' = "main" /\ original' = None
      /\ mgr' \in IF restored THEN readSlotFile(back, original) ELSE {back}
      /\ Keeps(~restored \/ ~mgr'.ok)
      /\ UNCHANGED <<preview, python, host, home>>

-----------------------------------------------------------------------------
(* A Python session works on the user's board, or isolated on its own slot *)
(* with the user's board kept in a backup.                                 *)

createdPythonSlot(s) ==
  IF s.files[Python] = NoFile THEN saveSlot(Cleared(s), Python, TRUE) ELSE {s}

initLocalCopy ==
  /\ python' = [python EXCEPT !.entry = mgr.net, !.backup = mgr.board]
  /\ mgr' \in IF python.isolated
              THEN UNION {loadSlot(s, Python) : s \in createdPythonSlot(mgr)}
              ELSE {mgr}
  /\ Keeps(python.isolated /\ Edited(mgr))
  /\ UNCHANGED <<preview, original, host, home>>

startREPL == mode = "main" /\ mode' = "python" /\ initLocalCopy

(* A script typed over several lines takes a copy of its own.              *)
runScript == mode = "python" /\ mode' = "python" /\ initLocalCopy

toggleContext ==
  /\ mode = "python"
  /\ python' = [python EXCEPT !.isolated = ~@]
  /\ UNCHANGED <<mgr, mode, preview, original, host, home, work>>

(* switch_slot: the number, and nothing else.                              *)
switch_slot(n) ==
  /\ mode = "python"
  /\ mgr' = [mgr EXCEPT !.net = n]
  /\ UNCHANGED <<mode, preview, original, python, host, home, work>>

(* nodes_discard.                                                          *)
nodes_discard ==
  /\ mode = "python"
  /\ mgr' \in restoreAndSaveStateBackup(mgr, python.backup)
  /\ Works(~mgr'.ok \/ mgr.net # mgr.active,
           IF python.backup # None /\ mgr.net \in Slots
           THEN [work EXCEPT ![mgr.net] = python.backup] ELSE work)
  /\ UNCHANGED <<mode, preview, original, python, host, home>>

exitREPL ==
  LET restored(s) == restoreAndSaveStateBackup(s, python.backup)
      numbered(s) == IF python.entry \in Slots THEN Numbered(s, python.entry) ELSE s
  IN  /\ mode = "python" /\ mode' = "main"
      /\ \/ /\ python.isolated
            /\ mgr' \in {numbered(s) : s \in UNION {restored(t) : t \in saveSlot(mgr, Python, TRUE)}}
            /\ Keeps({mgr.active, mgr.net} # {Python})
            /\ UNCHANGED python
         \/ /\ ~python.isolated
            /\ python' = [python EXCEPT !.backup = None]
            /\ UNCHANGED <<mgr, work>>
      /\ UNCHANGED <<preview, original, host, home>>

-----------------------------------------------------------------------------
(* The host mounts the drive, writes a file, and lets it go.               *)
usbPlug ==
  /\ ~host.mounted /\ host' = [host EXCEPT !.mounted = TRUE]
  /\ UNCHANGED <<mgr, mode, preview, original, python, home, work>>

hostWrites(n, c) ==
  /\ host.mounted /\ host.writes < MaxWrites
  /\ host' = [host EXCEPT !.writes = @ + 1]
  /\ mgr' = [mgr EXCEPT !.files[n] = c]
  /\ work' = IF n \in Slots /\ ~(Edited(mgr) /\ n = mgr.active)
             THEN [work EXCEPT ![n] = Stored(mgr'.files, n)] ELSE work
  /\ UNCHANGED <<mode, preview, original, python, home>>

usbUnplug ==
  /\ host.mounted /\ host' = [host EXCEPT !.mounted = FALSE]
  /\ mgr' \in IF mgr.net = Nowhere THEN {mgr} ELSE loadSlot(mgr, mgr.net)
  /\ Keeps(Edited(mgr))
  /\ home' = IF mode = "menu" /\ preview.slot = None THEN mgr'.active ELSE home
  /\ UNCHANGED <<mode, preview, original, python>>

(* The mass storage is turned off: here the board is saved first.          *)
disableUSB ==
  /\ mode = "main"
  /\ host' = [host EXCEPT !.mounted = FALSE]
  /\ mgr' \in UNION {IF s.net = Nowhere THEN {s} ELSE loadSlot(s, s.net)
                       : s \in IF mgr.dirty THEN saveSlot(mgr, mgr.net, TRUE) ELSE {mgr}}
  /\ Keeps(Edited(mgr) /\ (Fault \/ Refused(mgr, mgr.net, TRUE) \/ Apart(mgr)))
  /\ UNCHANGED <<mode, preview, original, python, home>>

(* The power goes and comes back: the files are as they were, and slot 0   *)
(* is loaded.                                                              *)
Restart ==
  /\ mode' = "main" /\ preview' = NoPreview /\ original' = None
  /\ python' = [isolated |-> FALSE, entry |-> None, backup |-> None]
  /\ host' = [host EXCEPT !.mounted = FALSE]
  /\ mgr' \in reload(Numbered(Cleared(mgr), 0))
  /\ work' = [n \in Slots |-> Stored(mgr.files, n)]
  /\ UNCHANGED home

Next ==
  \/ \E w \in Wires : Edit(w)
  \/ AutoSave \/ LoadFile
  \/ \E n \in Slots :
       \/ cycleSlots(n) \/ saveStateToSlot(n) \/ previewSlot(n)
       \/ saveCurrentSlotToSlot(n) \/ clearSlot(n) \/ switch_slot(n)
       \/ \E b \in SUBSET Wires : inputNodeFileList(n, b)
  \/ cancelPreview \/ applyPreview
  \/ enterTemporarySlot \/ exitTemporarySlot
  \/ startREPL \/ runScript \/ toggleContext \/ nodes_discard \/ exitREPL
  \/ usbPlug \/ usbUnplug \/ disableUSB
  \/ \E n \in Storable, c \in Boards \union {NoFile} : hostWrites(n, c)
  \/ Restart

Spec == Init /\ [][Next]_vars /\ WF_vars(AutoSave)

-----------------------------------------------------------------------------
TypeOK ==
  /\ mgr \in Managers
  /\ mode \in {"main", "menu", "app", "python"}
  /\ preview \in [slot : Slots \union {None}, original : Numbers \union {None},
                  shown : Slots \union {None}]
  /\ original \in Numbers \union {None}
  /\ python \in [isolated : BOOLEAN, entry : Numbers \union {None},
                 backup : Boards \union {None}]
  /\ host \in [mounted : BOOLEAN, writes : 0..MaxWrites]
  /\ work \in [Slots -> Boards]
  /\ home \in Numbers

(* What the user last made in a slot is what its file holds, or is the     *)
(* unsaved board: commands, autosaves, imports, apps, the menu and         *)
(* restarts lose nothing and put nothing into another slot, short of the   *)
(* cases the actions name.                                                 *)
WorkKept ==
  \A n \in Slots : \/ Stored(mgr.files, n) = work[n]
                   \/ mgr.dirty /\ mgr.active = n /\ mgr.board = work[n]

(* A clean board is the one its slot's file holds: no step that succeeds   *)
(* leaves a difference that no autosave will ever write.  The host's       *)
(* writes, the end of an isolated Python session and a Load of a slot that *)
(* could not be previewed are the exceptions.                              *)
CleanIsStored ==
  [][Stale(mgr)' => \/ Stale(mgr) \/ ~mgr'.ok \/ host.mounted
                    \/ mode = "python" /\ python.isolated
                    \/ mode = "menu" /\ preview.slot # preview.shown]_vars

(* Leaving the menu after looking through any number of slots, and leaving *)
(* an app, bring back the slot one came from.                              *)
ReturnsToSlot ==
  [][(/\ mode # "main" /\ mode' = "main" /\ mgr'.ok
       /\ (exitTemporarySlot \/ (preview.slot # None /\ cancelPreview)))
     => (mgr'.active = home /\ mgr'.net = home)]_vars

(* An edit does not stay unsaved for ever while the device is idle.        *)
EditsStored ==
  []<>(~mgr.dirty \/ mode # "main" \/ host.mounted \/ mgr.net \notin Storable)

(* What States.cpp:4126 says, that a slot switch "invokes saveSlot         *)
(* synchronously", and States.cpp:2801 of the flush in loadSlot, without   *)
(* which "the user's work since their last commit would be lost": refuted. *)
(* Without the file cache the flush saves nothing, and a board with        *)
(* unsaved edits is replaced by the first slot the menu shows.             *)
SwitchKeepsEdits ==
  [][\A n \in Slots \ {mgr.active} :
       mgr.dirty /\ Valid(mgr.board) /\ mgr.active \in Slots
         /\ mgr'.ok /\ previewSlot(n)
       => Stored(mgr'.files, mgr.active) = mgr.board]_vars
=============================================================================
