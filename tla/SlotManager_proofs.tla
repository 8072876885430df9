------------------------- MODULE SlotManager_proofs -------------------------
(* Theorems about SlotManager and their proofs.                            *)
EXTENDS SlotManager, TLAPS

LEMMA Parameters ==
  /\ 0 \in Slots /\ 0 \in Numbers
  /\ Slots \subseteq Storable /\ Storable \subseteq Numbers
  /\ Python \in Storable /\ Python \notin Slots
  /\ AppSlot \in Numbers \ Storable /\ Nowhere \in Numbers \ Storable
  /\ None \notin Storable
  /\ NoFile \notin Boards /\ None \notin Boards /\ {} \in Boards
  /\ MaxFaults \in Nat /\ MaxWrites \in Nat
  BY SlotManagerAssumption DEF Storable, Numbers, Boards

(* What a file stands for: a board.                                        *)
LEMMA StoredIsBoard ==
  ASSUME NEW s \in Managers, NEW n \in Storable
  PROVE  Stored(s.files, n) \in Boards
  BY Parameters DEF Managers, Stored

(* The same board, as dirty as it was.                                     *)
LEMMA EditedSame ==
  ASSUME NEW s, NEW t, t.dirty = s.dirty, t.board = s.board
  PROVE  Edited(t) <=> Edited(s)
  BY DEF Edited

(* A manager that has just loaded a slot, or saved one.                    *)
Settled(s) == /\ ~s.dirty /\ s.active \in Storable /\ s.net = s.active
              /\ s.board = Stored(s.files, s.active)

LEMMA SettledNotStale ==
  ASSUME NEW s, Settled(s) PROVE ~Stale(s)
  BY DEF Settled, Stale

LEMMA FailedSame ==
  ASSUME NEW s \in Managers
  PROVE  /\ Failed(s) \in Managers /\ ~Failed(s).ok
         /\ Failed(s).files = s.files /\ Failed(s).board = s.board
         /\ Failed(s).dirty = s.dirty /\ Failed(s).active = s.active
         /\ Failed(s).net = s.net /\ Failed(s).faults = s.faults
  BY DEF Managers, Failed

LEMMA FaultySame ==
  ASSUME NEW s \in Managers, s.faults < MaxFaults
  PROVE  /\ Faulty(s) \in Managers /\ ~Faulty(s).ok
         /\ Faulty(s).files = s.files /\ Faulty(s).board = s.board
         /\ Faulty(s).dirty = s.dirty /\ Faulty(s).active = s.active
         /\ Faulty(s).net = s.net /\ Faulty(s).faults > s.faults
  <1>1. s.faults + 1 \in 0..MaxFaults /\ s.faults + 1 > s.faults
    BY Parameters DEF Managers
  <1> QED  BY <1>1 DEF Managers, Faulty

LEMMA DoneSame ==
  ASSUME NEW s \in Managers
  PROVE  /\ Done(s) \in Managers /\ Done(s).ok
         /\ Done(s).files = s.files /\ Done(s).board = s.board
         /\ Done(s).dirty = s.dirty /\ Done(s).active = s.active
         /\ Done(s).net = s.net /\ Done(s).faults = s.faults
  BY DEF Managers, Done

LEMMA NumberedSame ==
  ASSUME NEW s \in Managers, NEW n \in Numbers
  PROVE  /\ Numbered(s, n) \in Managers /\ Numbered(s, n).ok = s.ok
         /\ Numbered(s, n).files = s.files /\ Numbered(s, n).board = s.board
         /\ Numbered(s, n).dirty = s.dirty /\ Numbered(s, n).active = n
         /\ Numbered(s, n).net = n /\ Numbered(s, n).faults = s.faults
  BY DEF Managers, Numbered

LEMMA ClearedSame ==
  ASSUME NEW s \in Managers
  PROVE  /\ Cleared(s) \in Managers /\ Cleared(s).ok = s.ok
         /\ Cleared(s).files = s.files /\ Cleared(s).board = {}
         /\ ~Cleared(s).dirty /\ Cleared(s).active = s.active
         /\ Cleared(s).net = s.net /\ Cleared(s).faults = s.faults
  BY Parameters DEF Managers, Cleared

LEMMA FromYAMLSame ==
  ASSUME NEW s \in Managers, NEW b \in Boards
  PROVE  /\ fromYAML(s, b) \in Managers /\ fromYAML(s, b).ok = Valid(b)
         /\ fromYAML(s, b).files = s.files /\ fromYAML(s, b).board = b
         /\ fromYAML(s, b).active = s.active
         /\ fromYAML(s, b).net = s.net /\ fromYAML(s, b).faults = s.faults
         /\ Valid(b) => ~fromYAML(s, b).dirty
         /\ ~Edited(fromYAML(s, b))
<1>1. fromYAML(s, b) = [s EXCEPT !.board = b, !.ok = Valid(b),
                                 !.dirty = ~Valid(b) /\ b # {OutOfRange}]
  BY DEF fromYAML
<1>2. Valid(b) \in BOOLEAN
  BY DEF Valid
<1>3. /\ fromYAML(s, b) \in Managers /\ fromYAML(s, b).ok = Valid(b)
      /\ fromYAML(s, b).files = s.files /\ fromYAML(s, b).board = b
      /\ fromYAML(s, b).active = s.active
      /\ fromYAML(s, b).net = s.net /\ fromYAML(s, b).faults = s.faults
      /\ Valid(b) => ~fromYAML(s, b).dirty
  BY <1>1, <1>2 DEF Managers
<1> QED  BY <1>3 DEF Edited

(* Reading a slot's file changes no file and no number.                    *)
LEMMA Reads ==
  ASSUME NEW s \in Managers, NEW n \in Storable, s.files[n] # NoFile,
         NEW t \in readSlotFile(s, n)
  PROVE  /\ t \in Managers /\ t.files = s.files /\ t.active = s.active
         /\ t.net = s.net /\ t.faults >= s.faults
         /\ Edited(t) => Edited(s)
         /\ t.ok => ~t.dirty /\ t.board = s.files[n]
<1>1. s.files[n] \in Boards /\ s.faults \in Nat
  BY DEF Managers
<1>2. CASE t = fromYAML(s, s.files[n])
  BY <1>1, <1>2, FromYAMLSame
<1>3. CASE s.faults < MaxFaults /\ t = Faulty(s)
  <2>1. s.faults < MaxFaults
    BY <1>3
  <2> QED  BY <1>1, <1>3, <2>1, FaultySame, EditedSame, Parameters DEF Managers
<1> QED  BY <1>2, <1>3 DEF readSlotFile

(* loadSlot: what it leaves when it succeeds and when it fails.            *)
LEMMA Loads ==
  ASSUME NEW s \in Managers, NEW n, NEW t \in loadSlot(s, n)
  PROVE  /\ t \in Managers /\ t.files = s.files /\ t.faults >= s.faults
         /\ Edited(t) => Edited(s)
         /\ t.ok => Settled(t) /\ t.active = n
         /\ ~t.ok => t.active = s.active /\ t.net = s.net
         /\ n \notin Storable => t = Failed(s)
<1>1. s.faults \in Nat /\ s.files \in [Storable -> Boards \union {NoFile}]
  BY DEF Managers
<1>2. CASE n \notin Storable
  <2>1. t = Failed(s)
    BY <1>2 DEF loadSlot
  <2> QED  BY <1>1, <1>2, <2>1, FailedSame, EditedSame
<1>3. CASE n \in Storable /\ s.files[n] = NoFile
  <2> DEFINE u == Done(Cleared(s))
  <2>1. t = Numbered(u, n)
    BY <1>3 DEF loadSlot
  <2>2. /\ u \in Managers /\ u.ok /\ u.files = s.files /\ u.board = {} /\ ~u.dirty
        /\ u.faults = s.faults
    BY ClearedSame, DoneSame
  <2>3. n \in Numbers
    BY <1>3, Parameters
  <2> HIDE DEF u
  <2>4. /\ t \in Managers /\ t.ok /\ t.files = s.files /\ t.board = {} /\ ~t.dirty
        /\ t.active = n /\ t.net = n /\ t.faults = s.faults
    BY <2>1, <2>2, <2>3, NumberedSame
  <2>5. Settled(t)
    BY <1>3, <2>4 DEF Settled, Stored
  <2> QED  BY <1>1, <1>3, <2>4, <2>5 DEF Edited
<1>4. CASE n \in Storable /\ s.files[n] # NoFile
  <2>1. PICK u \in readSlotFile(s, n) : t = IF u.ok THEN Numbered(u, n) ELSE u
    BY <1>4 DEF loadSlot
  <2>2. /\ u \in Managers /\ u.files = s.files /\ u.active = s.active
        /\ u.net = s.net /\ u.faults >= s.faults
        /\ Edited(u) => Edited(s)
        /\ u.ok => ~u.dirty /\ u.board = s.files[n]
    BY <1>4, Reads
  <2>3. CASE u.ok
    <3>1. t = Numbered(u, n) /\ n \in Numbers
      BY <1>4, <2>1, <2>3, Parameters
    <3>2. /\ t \in Managers /\ t.ok = u.ok /\ t.files = u.files /\ t.board = u.board
          /\ t.dirty = u.dirty /\ t.active = n /\ t.net = n /\ t.faults = u.faults
      BY <2>2, <3>1, NumberedSame
    <3>3. Settled(t)
      BY <1>4, <2>2, <2>3, <3>2 DEF Settled, Stored
    <3> QED  BY <1>4, <2>2, <2>3, <3>2, <3>3 DEF Edited
  <2>4. CASE ~u.ok
    BY <1>4, <2>1, <2>2, <2>4
  <2> QED  BY <2>3, <2>4
<1> QED  BY <1>2, <1>3, <1>4

(* saveSlot: it writes one file, and changes the numbers only when it      *)
(* succeeds.                                                               *)
AfterSave(s, n, t) ==
  /\ t \in Managers /\ t.board = s.board /\ t.faults >= s.faults
  /\ \A m \in Storable : m # n => t.files[m] = s.files[m]
  /\ t.ok => Settled(t) /\ t.active = n /\ t.files[n] = s.board /\ t.faults = s.faults
  /\ ~t.ok => /\ t.active = s.active /\ t.net = s.net /\ t.dirty = s.dirty
              /\ \/ t = Failed(s) /\ (n \in Storable => ~Valid(s.board))
                 \/ /\ t.faults > s.faults /\ n \in Storable
                    /\ t.files[n] = s.files[n] \/ t.files[n] \in SUBSET s.board

LEMMA Saves ==
  ASSUME NEW s \in Managers, NEW n, NEW t,
         t \in saveSlot(s, n, TRUE) \/ t \in saveSlot(s, n, FALSE)
  PROVE  AfterSave(s, n, t)
<1>1. /\ s.faults \in Nat /\ s.files \in [Storable -> Boards \union {NoFile}]
      /\ s.board \in Boards
  BY DEF Managers
<1> DEFINE written == t = Numbered(Done([s EXCEPT !.files[n] = s.board, !.dirty = FALSE]), n)
           broken == /\ s.faults < MaxFaults
                     /\ \E c \in {s.files[n]} \union SUBSET s.board :
                          t = Faulty([s EXCEPT !.files[n] = c])
<1>2. \/ t = Failed(s) /\ (n \in Storable => ~Valid(s.board))
      \/ n \in Storable /\ (written \/ broken)
  <2>1. CASE t \in saveSlot(s, n, TRUE)
    BY <2>1 DEF saveSlot, Refused
  <2>2. CASE t \in saveSlot(s, n, FALSE)
    BY <2>2 DEF saveSlot, Refused
  <2> QED  BY <2>1, <2>2
<1>3. CASE t = Failed(s) /\ (n \in Storable => ~Valid(s.board))
  BY <1>1, <1>3, FailedSame DEF AfterSave
<1>4. CASE n \in Storable /\ (written \/ broken)
  <2>1. n \in Storable /\ n \in Numbers
    BY <1>4, Parameters
  <2>2. CASE written
    <3> DEFINE u == [s EXCEPT !.files[n] = s.board, !.dirty = FALSE]
    <3>1. /\ u \in Managers /\ u.files = [s.files EXCEPT ![n] = s.board]
          /\ u.board = s.board /\ ~u.dirty /\ u.faults = s.faults
      BY <1>1, <2>1 DEF Managers
    <3>2. t = Numbered(Done(u), n)
      BY <2>2
    <3> HIDE DEF u
    <3>3. /\ Done(u) \in Managers /\ Done(u).ok /\ Done(u).files = u.files
          /\ Done(u).board = u.board /\ ~Done(u).dirty /\ Done(u).faults = u.faults
      BY <3>1, DoneSame
    <3>4. /\ t \in Managers /\ t.ok /\ t.files = u.files
          /\ t.board = u.board /\ ~t.dirty /\ t.faults = u.faults
          /\ t.active = n /\ t.net = n
      BY <2>1, <3>2, <3>3, NumberedSame
    <3>5. t.files[n] = s.board /\ \A m \in Storable : m # n => t.files[m] = s.files[m]
      BY <1>1, <2>1, <3>1, <3>4
    <3>6. Settled(t)
      BY <1>1, <2>1, <3>1, <3>4, <3>5, Parameters DEF Settled, Stored
    <3> QED  BY <1>1, <3>1, <3>4, <3>5, <3>6 DEF AfterSave
  <2>3. CASE broken
    <3>1. PICK c \in {s.files[n]} \union SUBSET s.board : t = Faulty([s EXCEPT !.files[n] = c])
      BY <2>3
    <3> DEFINE u == [s EXCEPT !.files[n] = c]
    <3>2. c \in Boards \union {NoFile}
      BY <1>1, <2>1 DEF Boards
    <3>3. /\ u \in Managers /\ u.files = [s.files EXCEPT ![n] = c] /\ u.board = s.board
          /\ u.dirty = s.dirty /\ u.active = s.active /\ u.net = s.net /\ u.faults = s.faults
      BY <1>1, <2>1, <3>2 DEF Managers
    <3>4. t = Faulty(u)
      BY <3>1
    <3> HIDE DEF u
    <3>5. u.faults < MaxFaults
      BY <2>3, <3>3
    <3>6. /\ t \in Managers /\ ~t.ok /\ t.files = u.files /\ t.board = u.board
          /\ t.dirty = u.dirty /\ t.active = u.active /\ t.net = u.net /\ t.faults > u.faults
      BY <3>3, <3>4, <3>5, FaultySame
    <3>7. t.files[n] = c /\ \A m \in Storable : m # n => t.files[m] = s.files[m]
      BY <1>1, <2>1, <3>3, <3>6
    <3>8. t.faults >= s.faults
      BY <1>1, <3>3, <3>6 DEF Managers
    <3> QED  BY <2>1, <3>1, <3>3, <3>6, <3>7, <3>8 DEF AfterSave
  <2> HIDE DEF written, broken
  <2> QED  BY <1>4, <2>2, <2>3
<1> HIDE DEF written, broken
<1> QED  BY <1>2, <1>3, <1>4

(* A board that validate() rejects is not written.                         *)
LEMMA RejectedSave ==
  ASSUME NEW s, ~Valid(s.board), NEW n, NEW t \in saveSlot(s, n, TRUE)
  PROVE  t = Failed(s)
  BY DEF saveSlot, Refused

(* deleteSlot: the file is gone, unless the file system refuses.           *)
LEMMA Deletes ==
  ASSUME NEW s \in Managers, NEW n \in Storable, NEW t \in deleteSlot(s, n)
  PROVE  /\ t \in Managers
         /\ \A m \in Storable : m # n => t.files[m] = s.files[m]
         /\ t.ok => /\ t.files[n] = NoFile
                    /\ IF s.active = n THEN ~t.dirty /\ t.active = Nowhere
                       ELSE /\ t.dirty = s.dirty /\ t.active = s.active /\ t.board = s.board
         /\ ~t.ok => /\ t.files = s.files /\ t.active = s.active
                     /\ t.dirty = s.dirty /\ t.board = s.board
<1>1. s.files \in [Storable -> Boards \union {NoFile}]
  BY DEF Managers
<1>2. CASE s.active = n /\ t = [Done(Cleared(s)) EXCEPT !.files[n] = NoFile, !.active = Nowhere, !.net = 0]
  <2> DEFINE u == Done(Cleared(s))
  <2>1. u \in Managers /\ u.ok /\ u.files = s.files /\ ~u.dirty
    BY ClearedSame, DoneSame
  <2>2. t = [u EXCEPT !.files[n] = NoFile, !.active = Nowhere, !.net = 0]
    BY <1>2
  <2> HIDE DEF u
  <2>3. /\ t \in Managers /\ t.ok /\ t.files = [s.files EXCEPT ![n] = NoFile]
        /\ ~t.dirty /\ t.active = Nowhere
    BY <1>1, <2>1, <2>2, Parameters DEF Managers
  <2> QED  BY <1>1, <1>2, <2>3
<1>3. CASE s.active # n /\ t = [Done(s) EXCEPT !.files[n] = NoFile]
  <2> DEFINE u == Done(s)
  <2>1. /\ u \in Managers /\ u.ok /\ u.files = s.files /\ u.dirty = s.dirty
        /\ u.active = s.active /\ u.board = s.board
    BY DoneSame
  <2>2. t = [u EXCEPT !.files[n] = NoFile]
    BY <1>3
  <2> HIDE DEF u
  <2>3. /\ t \in Managers /\ t.ok /\ t.files = [s.files EXCEPT ![n] = NoFile]
        /\ t.dirty = s.dirty /\ t.active = s.active /\ t.board = s.board
    BY <1>1, <2>1, <2>2 DEF Managers
  <2> QED  BY <1>1, <1>3, <2>3
<1>4. CASE s.faults < MaxFaults /\ t = Faulty(s)
  <2>1. s.faults < MaxFaults
    BY <1>4
  <2> QED  BY <1>4, <2>1, FaultySame
<1> QED  BY <1>2, <1>3, <1>4 DEF deleteSlot

(* Restoring a backup leaves no edits, and writes no file but that of the  *)
(* slot in use.                                                            *)
LEMMA Restores ==
  ASSUME NEW s \in Managers, NEW backup \in Boards,
         NEW t \in restoreAndSaveStateBackup(s, backup)
  PROVE  /\ t \in Managers /\ ~Edited(t)
         /\ \A m \in Storable : m # s.net => t.files[m] = s.files[m]
         /\ t.ok => Settled(t) /\ t.active = s.net /\ t.files[s.net] = backup
<1> DEFINE u == fromYAML(s, backup)
<1>1. /\ u \in Managers /\ u.files = s.files /\ u.board = backup
      /\ u.net = s.net /\ (u.ok => ~u.dirty) /\ ~Edited(u)
  BY FromYAMLSame
<1>2. t \in IF u.ok THEN saveSlot(u, u.net, TRUE) ELSE {u}
  BY Parameters DEF restoreAndSaveStateBackup
<1> HIDE DEF u
<1>3. CASE u.ok
  <2>1. t \in saveSlot(u, u.net, TRUE)
    BY <1>2, <1>3
  <2>2. /\ t \in Managers /\ t.board = u.board
        /\ \A m \in Storable : m # u.net => t.files[m] = u.files[m]
        /\ t.ok => Settled(t) /\ t.active = u.net /\ t.files[u.net] = u.board
        /\ ~t.ok => t.dirty = u.dirty
    <3>1. AfterSave(u, u.net, t)
      BY <1>1, <2>1, Saves, Zenon
    <3> QED  BY <3>1 DEF AfterSave
  <2>3. ~t.dirty
    BY <1>1, <1>3, <2>2 DEF Settled
  <2> QED  BY <1>1, <2>2, <2>3 DEF Edited
<1>4. CASE ~u.ok
  BY <1>1, <1>2, <1>4
<1> QED  BY <1>3, <1>4

(* loadfile always leaves a clean board.  When it saves the one there was, *)
(* and does not fail, that one is in its slot's file; a rejected one is    *)
(* not saved.                                                              *)
LEMMA Reloads ==
  ASSUME NEW s \in Managers, NEW t \in reload(s)
  PROVE  /\ t \in Managers /\ ~t.dirty /\ t.faults >= s.faults
         /\ t.ok => Settled(t)
         /\ ~Edited(s) => t.files = s.files
         /\ Edited(s) =>
              /\ \A m \in Storable : m # s.active => t.files[m] = s.files[m]
              /\ s.active \in Storable /\ ~(t.faults > s.faults) =>
                   t.files[s.active] = s.board
<1> DEFINE saved == IF s.dirty THEN saveActiveSlot(s) ELSE {s}
<1>1. PICK u \in saved : \E v \in loadSlot(u, u.net) : t = IF v.ok THEN v ELSE Cleared(v)
  BY DEF reload
<1>2. PICK v \in loadSlot(u, u.net) : t = IF v.ok THEN v ELSE Cleared(v)
  BY <1>1
<1>3. /\ u \in Managers /\ u.faults >= s.faults
      /\ ~Edited(s) => u.files = s.files
      /\ Edited(s) =>
           /\ \A m \in Storable : m # s.active => u.files[m] = s.files[m]
           /\ s.active \in Storable => u.files[s.active] = s.board \/ u.faults > s.faults
  <2>1. CASE Edited(s)
    <3>1. u \in saveSlot(s, s.active, TRUE)
      BY <1>1, <2>1 DEF saveActiveSlot, Edited
    <3>2. AfterSave(s, s.active, u)
      BY <3>1, Saves, Zenon
    <3> QED  BY <2>1, <3>2 DEF AfterSave, Edited
  <2>2. CASE s.dirty /\ ~Valid(s.board)
    <3>1. u = Failed(s)
      BY <1>1, <2>2, RejectedSave DEF saveActiveSlot
    <3> QED  BY <2>2, <3>1, FailedSame DEF Managers, Edited
  <2>3. CASE ~s.dirty
    BY <1>1, <2>3 DEF Managers, Edited
  <2> QED  BY <2>1, <2>2, <2>3 DEF Edited
<1> HIDE DEF saved
<1>4. /\ v \in Managers /\ v.files = u.files /\ v.faults >= u.faults
      /\ v.ok => Settled(v)
  BY <1>2, <1>3, Loads
<1>5. /\ t \in Managers /\ t.files = v.files /\ t.faults = v.faults /\ ~t.dirty
      /\ t.ok => Settled(t)
  <2>1. CASE v.ok
    BY <1>2, <1>4, <2>1 DEF Settled
  <2>2. CASE ~v.ok
    BY <1>2, <1>4, <2>2, ClearedSame
  <2> QED  BY <2>1, <2>2
<1>6. s.faults \in Nat /\ u.faults \in Nat /\ v.faults \in Nat
  BY <1>3, <1>4 DEF Managers
<1>7. t.faults >= s.faults /\ (u.faults > s.faults => t.faults > s.faults)
  BY <1>3, <1>4, <1>5, <1>6
<1> QED  BY <1>3, <1>4, <1>5, <1>7

-----------------------------------------------------------------------------
(* The invariant.  The unsaved board, if there is one, and the files are   *)
(* all that is left of the user's work; an app has its own number and      *)
(* knows the slot it came from; the menu shows a loaded slot or the one it *)
(* came from, and what it previews is nobody's work; a Python session has  *)
(* a backup.                                                               *)

WorkIsLeft == work = Left(mgr)

InApp ==
  mode = "app" => /\ original \in Numbers /\ original = home
                  /\ mgr.active = AppSlot /\ mgr.net = AppSlot
                  /\ mgr.dirty \/ mgr.board = {}

InMenu ==
  /\ preview.slot # None =>
       /\ mode = "menu" /\ ~Edited(mgr)
       /\ mgr.active = preview.slot /\ mgr.net = preview.slot
       /\ preview.original = home
  /\ mode = "menu" /\ preview.slot = None => mgr.active = home

InPython == mode = "python" => python.backup # None

IInv == TypeOK /\ WorkIsLeft /\ InApp /\ InMenu /\ InPython

(* What every step does with the board and the work, and what              *)
(* CleanIsStored says of a step.                                           *)
StepKeeps == mgr' \in Managers /\ work' = Left(mgr')

CleanStep ==
  Stale(mgr)' => \/ Stale(mgr) \/ ~mgr'.ok \/ host.mounted
                 \/ mode = "python" /\ python.isolated
                 \/ mode = "menu" /\ preview.slot # preview.shown

LEMMA StoredSame ==
  ASSUME NEW f, NEW g, NEW n, f[n] = g[n]
  PROVE  Stored(f, n) = Stored(g, n)
  BY DEF Stored

LEMMA LeftAt ==
  ASSUME NEW s \in Managers
  PROVE  /\ Left(s) \in [Slots -> Boards]
         /\ \A n \in Slots :
              Left(s)[n] = IF Edited(s) /\ s.active = n THEN s.board ELSE Stored(s.files, n)
<1>1. s.board \in Boards
  BY DEF Managers
<1>2. \A n \in Slots : Stored(s.files, n) \in Boards
  BY StoredIsBoard, Parameters
<1> QED  BY <1>1, <1>2 DEF Left

LEMMA IsLeft ==
  ASSUME NEW s \in Managers, NEW w \in [Slots -> Boards],
         \A n \in Slots : w[n] = IF Edited(s) /\ s.active = n THEN s.board
                                                             ELSE Stored(s.files, n)
  PROVE  w = Left(s)
<1> DEFINE l == Left(s)
<1>1. l \in [Slots -> Boards] /\ \A n \in Slots : w[n] = l[n]
  BY LeftAt
<1> HIDE DEF l
<1>2. w = l
  BY <1>1
<1> QED  BY <1>2 DEF l

(* A board without edits can go and another come: the work is in the       *)
(* files.                                                                  *)
LEMMA CleanLeft ==
  ASSUME NEW s \in Managers, NEW t \in Managers, ~Edited(t),
         \A n \in Slots : t.files[n] = s.files[n],
         Edited(s) => s.active \notin Slots
  PROVE  Left(t) = Left(s)
<1>1. ASSUME NEW n \in Slots PROVE Stored(t.files, n) = Stored(s.files, n)
  <2>1. t.files[n] = s.files[n]
    OBVIOUS
  <2> QED  BY <2>1, StoredSame, Zenon
<1>2. \A n \in Slots :
        Left(s)[n] = IF Edited(t) /\ t.active = n THEN t.board ELSE Stored(t.files, n)
  BY <1>1, LeftAt
<1>3. Left(s) \in [Slots -> Boards]
  BY LeftAt
<1> QED  BY <1>2, <1>3, IsLeft

(* What was unsaved is in its slot's file now.                             *)
LEMMA SavedLeft ==
  ASSUME NEW s \in Managers, NEW t \in Managers, Edited(s), ~Edited(t), s.active \in Storable,
         \A n \in Storable : n # s.active => t.files[n] = s.files[n],
         t.files[s.active] = s.board
  PROVE  Left(t) = Left(s)
<1>1. \A n \in Slots : n # s.active => Stored(t.files, n) = Stored(s.files, n)
  BY StoredSame, Parameters
<1>2. Stored(t.files, s.active) = s.board
  BY Parameters DEF Stored, Managers
<1>3. \A n \in Slots :
        Left(s)[n] = IF Edited(t) /\ t.active = n THEN t.board ELSE Stored(t.files, n)
  BY <1>1, <1>2, LeftAt
<1>4. Left(s) \in [Slots -> Boards]
  BY LeftAt
<1> QED  BY <1>3, <1>4, IsLeft

(* The board and the files are as they were.                               *)
LEMMA SameLeft ==
  ASSUME NEW s \in Managers, NEW t \in Managers,
         t.dirty = s.dirty, t.active = s.active, t.board = s.board, t.files = s.files
  PROVE  Left(t) = Left(s)
  BY DEF Left, Edited

LEMMA CleanOf ==
  ASSUME ~Stale(mgr')
  PROVE  CleanStep
  BY DEF CleanStep, Stale, Stored

LEMMA SettledClean ==
  ASSUME mgr'.ok => Settled(mgr')
  PROVE  CleanStep
  BY DEF CleanStep, Stale, Stored, Settled

LEMMA SameClean ==
  ASSUME mgr'.dirty = mgr.dirty, mgr'.active = mgr.active, mgr'.board = mgr.board,
         mgr'.files = mgr.files
  PROVE  CleanStep
  BY DEF CleanStep, Stale, Stored

-----------------------------------------------------------------------------
LEMMA EditStep ==
  ASSUME IInv, NEW w \in Wires, Edit(w)
  PROVE  StepKeeps /\ CleanStep
<1> DEFINE edited == [n \in Slots |-> IF n = mgr.net THEN Changed(work[n], w) ELSE work[n]]
<1>1. /\ mgr \in Managers /\ work = Left(mgr) /\ mgr.board \in Boards
      /\ \A n \in Slots : work[n] \in Boards
  BY DEF IInv, TypeOK, WorkIsLeft, Managers
<1>2. \A b \in Boards : Changed(b, w) \in Boards
  BY DEF Boards, Changed
<1>3. mgr' = [mgr EXCEPT !.board = Changed(mgr.board, w), !.dirty = TRUE]
  BY DEF Edit
<1>4. \/ work' = Left(mgr')
      \/ mgr.active = mgr.net /\ ~Stale(mgr) /\ Valid(mgr.board) /\ work' = edited
  <2>1. Works(mgr.active # mgr.net \/ Stale(mgr) \/ ~Valid(mgr.board), edited)
    BY DEF Edit
  <2> HIDE DEF edited
  <2> QED  BY <2>1 DEF Works
<1>5. /\ mgr' \in Managers /\ mgr'.board = Changed(mgr.board, w) /\ mgr'.dirty
      /\ mgr'.active = mgr.active /\ mgr'.files = mgr.files
  BY <1>1, <1>2, <1>3 DEF Managers
<1>6. CleanStep
  BY <1>5 DEF CleanStep, Stale
<1>7. ASSUME mgr.active = mgr.net, ~Stale(mgr), Valid(mgr.board), work' = edited
      PROVE  work' = Left(mgr')
  <2>0. Edited(mgr')
    BY <1>5, <1>7, SlotManagerAssumption DEF Edited, Valid, Changed
  <2>1. mgr.active \in Slots => work[mgr.active] = mgr.board
    BY <1>1, <1>7, LeftAt, Parameters DEF Stale, Edited
  <2>2. \A n \in Slots : n # mgr.active => work[n] = Stored(mgr.files, n)
    BY <1>1, LeftAt
  <2>3. work' \in [Slots -> Boards]
    BY <1>1, <1>2, <1>7
  <2>4. \A n \in Slots : work'[n] = IF Edited(mgr') /\ mgr'.active = n
                                 THEN mgr'.board ELSE Stored(mgr'.files, n)
    BY <1>5, <1>7, <2>0, <2>1, <2>2
  <2> QED  BY <1>5, <2>3, <2>4, IsLeft
<1> HIDE DEF edited
<1> QED  BY <1>4, <1>5, <1>6, <1>7 DEF StepKeeps

LEMMA AutoSaveStep ==
  ASSUME IInv, AutoSave
  PROVE  StepKeeps /\ CleanStep
<1>1. mgr \in Managers /\ work = Left(mgr) /\ mgr.dirty
  BY DEF IInv, TypeOK, WorkIsLeft, AutoSave
<1> DEFINE synced == [mgr EXCEPT !.active = mgr.net]
<1>2. /\ synced \in Managers /\ synced.board = mgr.board /\ synced.dirty
      /\ synced.active = mgr.net /\ synced.net = mgr.net /\ synced.files = mgr.files
  BY <1>1 DEF Managers
<1>3. mgr' \in saveSlot(synced, synced.active, FALSE)
  BY DEF AutoSave
<1>4. work' = Left(mgr') \/ (~Apart(mgr) /\ Valid(mgr.board) /\ work' = work)
  BY DEF AutoSave, Keeps, Works
<1> HIDE DEF synced
<1>5. AfterSave(synced, synced.active, mgr')
  BY <1>2, <1>3, Saves, Zenon
<1>6. CleanStep
  BY <1>5, SettledClean DEF AfterSave
<1>7. ASSUME mgr.active = mgr.net, Edited(mgr) PROVE Left(mgr') = Left(mgr)
  <2>1. CASE mgr'.ok
    <3>1. ~mgr'.dirty /\ mgr.active \in Storable
      BY <1>2, <1>5, <1>7, <2>1 DEF AfterSave, Settled
    <3> QED  BY <1>1, <1>2, <1>5, <1>7, <2>1, <3>1, SavedLeft DEF AfterSave, Edited
  <2>2. CASE ~mgr'.ok
    <3>1. /\ mgr' \in Managers /\ mgr'.dirty /\ mgr'.active = mgr.active /\ mgr'.board = mgr.board
          /\ \A n \in Storable : n # mgr.active => mgr'.files[n] = mgr.files[n]
      BY <1>2, <1>5, <1>7, <2>2 DEF AfterSave
    <3>2. \A n \in Slots : n # mgr.active => Stored(mgr'.files, n) = Stored(mgr.files, n)
      BY <3>1, StoredSame, Parameters
    <3>3. \A n \in Slots :
            Left(mgr)[n] = IF Edited(mgr') /\ mgr'.active = n THEN mgr'.board
                                                              ELSE Stored(mgr'.files, n)
      <4>1. Edited(mgr')
        BY <1>7, <3>1 DEF Edited
      <4> QED  BY <1>1, <1>7, <3>1, <3>2, <4>1, LeftAt
    <3>4. Left(mgr) \in [Slots -> Boards]
      BY <1>1, LeftAt
    <3> QED  BY <3>1, <3>3, <3>4, IsLeft
  <2> QED  BY <2>1, <2>2
<1>8. Valid(mgr.board) => Edited(mgr) /\ (Apart(mgr) <=> mgr.active # mgr.net)
  BY <1>1 DEF Apart, Edited
<1> QED  BY <1>1, <1>4, <1>5, <1>6, <1>7, <1>8 DEF StepKeeps, AfterSave

LEMMA ReloadStep ==
  ASSUME IInv, NEW s \in Managers, s.dirty = mgr.dirty, s.active = mgr.active,
         s.board = mgr.board, s.files = mgr.files, s.faults = mgr.faults,
         mgr' \in reload(s), Keeps(Unsaved \/ Apart(mgr))
  PROVE  StepKeeps /\ CleanStep
<1>1. mgr \in Managers /\ work = Left(mgr)
  BY DEF IInv, TypeOK, WorkIsLeft
<1>2. /\ mgr' \in Managers /\ ~mgr'.dirty
      /\ mgr'.ok => Settled(mgr')
      /\ ~Edited(mgr) => mgr'.files = mgr.files
      /\ Edited(mgr) =>
           /\ \A m \in Storable : m # mgr.active => mgr'.files[m] = mgr.files[m]
           /\ mgr.active \in Storable /\ ~Fault => mgr'.files[mgr.active] = mgr.board
  BY Reloads, EditedSame DEF Fault
<1>3. \/ work' = Left(mgr')
      \/ /\ work' = work
         /\ Edited(mgr) => ~Fault /\ mgr.active \in Storable
  BY DEF Keeps, Works, Unsaved, Refused
<1>4. CleanStep
  BY <1>2, SettledClean
<1>5. CASE Edited(mgr) /\ work' = work /\ ~Fault /\ mgr.active \in Storable
  <2>1. Left(mgr') = Left(mgr)
    BY <1>1, <1>2, <1>5, SavedLeft DEF Edited
  <2> QED  BY <1>1, <1>2, <1>4, <1>5, <2>1 DEF StepKeeps
<1>6. CASE ~Edited(mgr) /\ work' = work
  <2>1. Left(mgr') = Left(mgr)
    BY <1>1, <1>2, <1>6, CleanLeft DEF Edited
  <2> QED  BY <1>1, <1>2, <1>4, <1>6, <2>1 DEF StepKeeps
<1> QED  BY <1>2, <1>3, <1>4, <1>5, <1>6 DEF StepKeeps

LEMMA CycleSlotsStep ==
  ASSUME IInv, NEW n \in Slots, cycleSlots(n)
  PROVE  StepKeeps /\ CleanStep
<1> DEFINE s == [mgr EXCEPT !.net = n]
<1>1. mgr \in Managers
  BY DEF IInv, TypeOK
<1>2. /\ s \in Managers /\ s.dirty = mgr.dirty /\ s.active = mgr.active
      /\ s.board = mgr.board /\ s.files = mgr.files /\ s.faults = mgr.faults
  BY <1>1, Parameters DEF Managers
<1>3. mgr' \in reload(s) /\ Keeps(Unsaved \/ Apart(mgr))
  BY DEF cycleSlots
<1> HIDE DEF s
<1> QED  BY <1>2, <1>3, ReloadStep

LEMMA LoadFileStep ==
  ASSUME IInv, LoadFile
  PROVE  StepKeeps /\ CleanStep
<1>1. mgr \in Managers
  BY DEF IInv, TypeOK
<1>2. mgr' \in reload(mgr) /\ Keeps(Unsaved \/ Apart(mgr))
  BY DEF LoadFile
<1> QED  BY <1>1, <1>2, ReloadStep

LEMMA SaveStateToSlotStep ==
  ASSUME IInv, NEW n \in Slots, saveStateToSlot(n)
  PROVE  StepKeeps /\ CleanStep
<1>1. mgr \in Managers /\ work = Left(mgr) /\ n \in Storable
  BY Parameters DEF IInv, TypeOK, WorkIsLeft
<1>2. AfterSave(mgr, n, mgr')
  <2>1. mgr' \in saveSlot(mgr, n, TRUE)
    BY DEF saveStateToSlot
  <2> QED  BY <1>1, <2>1, Saves, Zenon
<1> DEFINE saved == IF mgr'.ok THEN [work EXCEPT ![n] = mgr.board] ELSE work
<1>3. \/ work' = Left(mgr')
      \/ ~Fault /\ (Edited(mgr) => mgr.active = n) /\ mgr.board = work[n] /\ work' = saved
  <2>1. Works(Fault \/ (Edited(mgr) /\ mgr.active # n) \/ mgr.board # work[n], saved)
    BY DEF saveStateToSlot
  <2> HIDE DEF saved
  <2> QED  BY <2>1 DEF Works
<1>4. CleanStep
  BY <1>2, SettledClean DEF AfterSave
<1>5. ASSUME ~Fault, Edited(mgr) => mgr.active = n, mgr.board = work[n], work' = saved
      PROVE  work' = Left(mgr')
  <2>1. Left(mgr) \in [Slots -> Boards]
    BY <1>1, LeftAt
  <2>2. work' = work
    BY <1>1, <1>5, <2>1
  <2>3. CASE mgr'.ok
    <3>1. ~mgr'.dirty /\ mgr'.files[n] = mgr.board /\ mgr' \in Managers
      BY <1>2, <2>3 DEF AfterSave, Settled
    <3>2. \A m \in Storable : m # n => mgr'.files[m] = mgr.files[m]
      BY <1>2 DEF AfterSave
    <3>3. \A m \in Slots : m # n => Stored(mgr'.files, m) = Stored(mgr.files, m)
      BY <3>2, StoredSame, Parameters
    <3>4. mgr.board # NoFile
      BY <1>1, Parameters DEF Managers
    <3>5. Stored(mgr'.files, n) = mgr.board
      BY <3>1, <3>4 DEF Stored
    <3>6. \A m \in Slots :
            Left(mgr)[m] = IF Edited(mgr') /\ mgr'.active = m THEN mgr'.board
                                                              ELSE Stored(mgr'.files, m)
      BY <1>1, <1>5, <3>1, <3>3, <3>5, LeftAt DEF Edited
    <3> QED  BY <1>1, <2>1, <2>2, <3>1, <3>6, IsLeft
  <2>4. CASE ~mgr'.ok
    <3>1. ~(mgr'.faults > mgr.faults)
      BY <1>5 DEF Fault
    <3>2. mgr' = Failed(mgr)
      BY <1>2, <2>4, <3>1 DEF AfterSave
    <3> QED  BY <1>1, <2>2, <3>2, FailedSame, SameLeft
  <2> QED  BY <2>3, <2>4
<1>6. mgr' \in Managers
  BY <1>2 DEF AfterSave
<1> HIDE DEF saved
<1> QED  BY <1>3, <1>4, <1>5, <1>6 DEF StepKeeps

(* A board was written to a slot of which nothing was unsaved.             *)
LEMMA WrittenLeft ==
  ASSUME NEW s \in Managers, NEW t \in Managers, NEW n \in Slots, NEW b \in Boards,
         Edited(s) => s.active = n, ~Edited(t), t.files[n] = b,
         \A m \in Storable : m # n => t.files[m] = s.files[m]
  PROVE  [Left(s) EXCEPT ![n] = b] = Left(t)
<1> DEFINE w == [Left(s) EXCEPT ![n] = b]
<1>1. Left(s) \in [Slots -> Boards]
  BY LeftAt
<1>2. w \in [Slots -> Boards] /\ w[n] = b /\ \A m \in Slots : m # n => w[m] = Left(s)[m]
  BY <1>1
<1> HIDE DEF w
<1>3. \A m \in Slots : m # n => Stored(t.files, m) = Stored(s.files, m)
  BY StoredSame, Parameters
<1>4. Stored(t.files, n) = b
  BY Parameters DEF Stored
<1>5. ASSUME NEW m \in Slots
      PROVE  w[m] = IF Edited(t) /\ t.active = m THEN t.board ELSE Stored(t.files, m)
  <2>1. w[m] = Stored(t.files, m)
    <3>1. CASE m = n
      BY <1>2, <1>4, <3>1
    <3>2. CASE m # n
      <4>1. w[m] = Left(s)[m] /\ Stored(t.files, m) = Stored(s.files, m)
        BY <1>2, <1>3, <3>2
      <4>2. ~(Edited(s) /\ s.active = m)
        BY <3>2
      <4> QED  BY <4>1, <4>2, LeftAt
    <3> QED  BY <3>1, <3>2
  <2> QED  BY <2>1
<1>6. w = Left(t)
  BY <1>2, <1>5, IsLeft
<1> QED  BY <1>6 DEF w

LEMMA InputNodeFileListStep ==
  ASSUME IInv, NEW n \in Slots, NEW b \in SUBSET Wires, inputNodeFileList(n, b)
  PROVE  StepKeeps /\ CleanStep
<1> DEFINE typed == Numbered([Cleared(mgr) EXCEPT !.board = b], n)
           written == [work EXCEPT ![n] = b]
           loaded(u) == IF u.ok \/ mgr.active # n THEN loadSlot(u, mgr.active) ELSE {u}
<1>1. mgr \in Managers /\ work = Left(mgr) /\ n \in Numbers /\ n \in Storable
  BY Parameters DEF IInv, TypeOK, WorkIsLeft
<1>2. b \in Boards /\ Valid(b)
  BY SlotManagerAssumption DEF Boards, Valid
<1>3. /\ typed \in Managers /\ typed.board = b /\ ~typed.dirty
      /\ typed.files = mgr.files /\ typed.faults = mgr.faults
  <2> DEFINE blank == Cleared(mgr)
             pasted == [blank EXCEPT !.board = b]
  <2>1. /\ blank \in Managers /\ ~blank.dirty
        /\ blank.files = mgr.files /\ blank.faults = mgr.faults
    BY <1>1, ClearedSame
  <2> HIDE DEF blank
  <2>2. /\ pasted \in Managers /\ pasted.board = b /\ ~pasted.dirty
        /\ pasted.files = mgr.files /\ pasted.faults = mgr.faults
    BY <1>2, <2>1 DEF Managers
  <2>3. typed = Numbered(pasted, n)
    BY DEF blank
  <2> HIDE DEF pasted, typed
  <2> QED  BY <1>1, <2>2, <2>3, NumberedSame
<1>4. PICK u \in saveSlot(typed, n, TRUE) : \E v \in loaded(u) : mgr' \in reload(v)
  BY DEF inputNodeFileList
<1>5. PICK v \in loaded(u) : mgr' \in reload(v)
  BY <1>4
<1>6. work' = Left(mgr') \/ (~Fault /\ (Edited(mgr) => mgr.active = n) /\ work' = written)
  <2>1. Works(Fault \/ (Edited(mgr) /\ mgr.active # n), written)
    BY DEF inputNodeFileList
  <2> HIDE DEF written
  <2> QED  BY <2>1 DEF Works
<1> HIDE DEF typed
<1>7. AfterSave(typed, n, u)
  BY <1>3, <1>4, Saves, Zenon
<1>8. u \in Managers /\ ~u.dirty /\ u.faults >= mgr.faults
  BY <1>3, <1>7 DEF AfterSave, Settled
<1>9. v \in Managers /\ ~Edited(v) /\ v.files = u.files /\ v.faults >= u.faults
  <2>1. CASE v \in loadSlot(u, mgr.active)
    BY <1>8, <2>1, Loads DEF Edited
  <2>2. CASE v = u
    BY <1>8, <2>2 DEF Managers, Edited
  <2> QED  BY <1>5, <2>1, <2>2
<1> HIDE DEF loaded
<1>10. /\ mgr' \in Managers /\ ~mgr'.dirty /\ mgr'.files = u.files /\ mgr'.faults >= v.faults
       /\ mgr'.ok => Settled(mgr')
  BY <1>5, <1>9, Reloads
<1>11. CleanStep
  BY <1>10, SettledClean
<1>12. ASSUME ~Fault, Edited(mgr) => mgr.active = n, work' = written
       PROVE  work' = Left(mgr')
  <2>1. ~(u.faults > typed.faults)
    BY <1>1, <1>3, <1>8, <1>9, <1>10, <1>12 DEF Fault, Managers
  <2>2. mgr'.files[n] = b
    BY <1>1, <1>2, <1>3, <1>7, <1>10, <2>1 DEF AfterSave
  <2>3. \A m \in Storable : m # n => mgr'.files[m] = mgr.files[m]
    BY <1>3, <1>7, <1>10 DEF AfterSave
  <2>4. [Left(mgr) EXCEPT ![n] = b] = Left(mgr')
    BY <1>1, <1>2, <1>10, <1>12, <2>2, <2>3, WrittenLeft DEF Edited
  <2> QED  BY <1>1, <1>12, <2>4
<1> HIDE DEF written
<1> QED  BY <1>6, <1>10, <1>11, <1>12 DEF StepKeeps

LEMMA PreviewSlotStep ==
  ASSUME IInv, NEW n \in Slots, previewSlot(n)
  PROVE  StepKeeps /\ CleanStep
<1>1. mgr \in Managers /\ work = Left(mgr)
  BY DEF IInv, TypeOK, WorkIsLeft
<1>2. mgr' \in loadSlot(mgr, n) /\ (work' = Left(mgr') \/ (~Edited(mgr) /\ work' = work))
  BY DEF previewSlot, Keeps, Works
<1>3. /\ mgr' \in Managers /\ mgr'.files = mgr.files /\ (Edited(mgr') => Edited(mgr))
      /\ mgr'.ok => Settled(mgr')
  BY <1>1, <1>2, Loads
<1>4. CleanStep
  BY <1>3, SettledClean
<1>5. ~Edited(mgr) => Left(mgr') = Left(mgr)
  BY <1>1, <1>3, CleanLeft
<1> QED  BY <1>1, <1>2, <1>3, <1>4, <1>5 DEF StepKeeps

LEMMA CancelPreviewStep ==
  ASSUME IInv, cancelPreview
  PROVE  StepKeeps /\ CleanStep
<1>1. mgr \in Managers /\ work' = Left(mgr)
  BY DEF IInv, TypeOK, WorkIsLeft, cancelPreview
<1>2. CASE preview.slot = None
  <2>1. mgr' = mgr
    BY <1>2 DEF cancelPreview
  <2>2. CleanStep
    BY <2>1, SameClean
  <2> QED  BY <1>1, <2>1, <2>2 DEF StepKeeps
<1>3. CASE preview.slot # None
  <2>1. ~Edited(mgr) /\ mgr' \in loadSlot(mgr, preview.original)
    BY <1>3 DEF IInv, InMenu, cancelPreview
  <2>2. /\ mgr' \in Managers /\ mgr'.files = mgr.files /\ ~Edited(mgr')
        /\ mgr'.ok => Settled(mgr')
    BY <1>1, <2>1, Loads
  <2>3. CleanStep
    BY <2>2, SettledClean
  <2>4. Left(mgr') = Left(mgr)
    BY <1>1, <2>1, <2>2, CleanLeft
  <2> QED  BY <1>1, <2>2, <2>3, <2>4 DEF StepKeeps
<1> QED  BY <1>2, <1>3

(* Under Load the menu shows the slot that is loaded, so a file that is    *)
(* missing is written with a blank board.                                  *)
LEMMA ApplyPreviewStep ==
  ASSUME IInv, applyPreview
  PROVE  StepKeeps /\ CleanStep
<1> DEFINE n == preview.slot
           absent == n # None /\ mgr.files[n] = NoFile
<1>1. /\ mgr \in Managers /\ work = Left(mgr) /\ mode = "menu"
      /\ preview.shown \in Slots /\ preview.shown # None /\ n \in Slots \union {None}
  BY DEF IInv, TypeOK, WorkIsLeft, applyPreview
<1>2. PICK s \in IF absent THEN saveSlot(mgr, n, TRUE) ELSE {mgr} :
        mgr' = Numbered(s, preview.shown)
  BY DEF applyPreview
<1>3. \/ work' = Left(mgr')
      \/ ~Stale(mgr) /\ (Edited(mgr) => preview.shown = mgr.active) /\ work' = work
  BY DEF applyPreview, Keeps, Works
<1>4. absent => AfterSave(mgr, n, s)
  <2>1. ASSUME absent PROVE s \in saveSlot(mgr, n, TRUE)
    BY <1>2, <2>1
  <2> QED  BY <1>1, <2>1, Saves, Zenon
<1>5. ~absent => s = mgr
  BY <1>2
<1>6. s \in Managers
  BY <1>1, <1>4, <1>5 DEF AfterSave
<1>7. /\ mgr' \in Managers /\ mgr'.ok = s.ok /\ mgr'.files = s.files /\ mgr'.board = s.board
      /\ mgr'.dirty = s.dirty /\ mgr'.active = preview.shown /\ mgr'.net = preview.shown
  <2>1. mgr' = Numbered(s, preview.shown) /\ preview.shown \in Numbers
    BY <1>1, <1>2, Parameters
  <2> QED  BY <1>6, <2>1, NumberedSame
<1>8. CASE n = None
  <2>1. s = mgr
    BY <1>5, <1>8
  <2>2. CleanStep
    BY <1>1, <1>8 DEF CleanStep
  <2>3. (Edited(mgr) => preview.shown = mgr.active) => Left(mgr') = Left(mgr)
    <3>1. CASE Edited(mgr) /\ preview.shown = mgr.active
      BY <1>1, <1>7, <2>1, <3>1, SameLeft
    <3>2. CASE ~Edited(mgr)
      BY <1>1, <1>7, <2>1, <3>2, CleanLeft, EditedSame
    <3> QED  BY <3>1, <3>2
  <2> QED  BY <1>1, <1>3, <1>7, <2>2, <2>3 DEF StepKeeps
<1>9. CASE n # None
  <2>1. n \in Slots /\ n \in Storable /\ ~Edited(mgr) /\ mgr.active = n
    BY <1>1, <1>9, Parameters DEF IInv, InMenu
  <2>2. ~Edited(s) /\ (s.ok /\ absent => s.active = n /\ s.board = Stored(s.files, n))
    BY <1>4, <1>5, <2>1 DEF AfterSave, Settled, Edited
  <2>3. CleanStep
    <3>1. ASSUME n = preview.shown, ~Stale(mgr), mgr'.ok PROVE ~Stale(mgr')
      <4>1. CASE absent
        BY <1>7, <2>2, <3>1, <4>1 DEF Stale
      <4>2. CASE ~absent
        BY <1>5, <1>7, <2>1, <3>1, <4>2 DEF Stale
      <4> QED  BY <4>1, <4>2
    <3>2. ~Stale(mgr') => CleanStep
      BY CleanOf
    <3> QED  BY <1>1, <3>1, <3>2 DEF CleanStep
  <2>4. ASSUME ~Stale(mgr) PROVE Left(mgr') = Left(mgr)
    <3>1. mgr.dirty \/ mgr.board = Stored(mgr.files, n)
      BY <2>1, <2>4 DEF Stale
    <3>2. Stored(s.files, n) = Stored(mgr.files, n)
      <4>1. CASE absent
        <5>1. CASE mgr.dirty
          <6>1. s = Failed(mgr)
            BY <1>2, <2>1, <4>1, <5>1, RejectedSave DEF Edited
          <6> QED  BY <1>1, <6>1, FailedSame
        <5>2. CASE mgr.board = {} /\ mgr.files[n] = NoFile
          <6>1. s.files[n] = {} \/ s.files[n] = NoFile
            BY <1>4, <4>1, <5>2, FailedSame, <1>1 DEF AfterSave
          <6> QED  BY <5>2, <6>1 DEF Stored
        <5> QED  BY <3>1, <4>1, <5>1, <5>2 DEF Stored
      <4> QED  BY <1>5, <4>1
    <3>3. \A m \in Storable : m # n => s.files[m] = mgr.files[m]
      BY <1>4, <1>5 DEF AfterSave
    <3>4. \A m \in Slots : Stored(s.files, m) = Stored(mgr.files, m)
      BY <3>2, <3>3, StoredSame, Parameters
    <3>5. \A m \in Slots :
            Left(mgr)[m] = IF Edited(mgr') /\ mgr'.active = m THEN mgr'.board
                                                              ELSE Stored(mgr'.files, m)
      BY <1>1, <1>7, <2>1, <2>2, <3>4, LeftAt, EditedSame
    <3> QED  BY <1>1, <1>7, <3>5, LeftAt, IsLeft
  <2> QED  BY <1>1, <1>3, <1>7, <2>3, <2>4 DEF StepKeeps
<1> QED  BY <1>8, <1>9

LEMMA SaveCurrentSlotToSlotStep ==
  ASSUME IInv, NEW n \in Slots, saveCurrentSlotToSlot(n)
  PROVE  StepKeeps /\ CleanStep
<1> DEFINE written == IF mgr'.ok THEN [work EXCEPT ![n] = mgr'.board] ELSE work
           saved(t) == IF t.ok THEN saveSlot(t, n, TRUE) ELSE {t}
<1>1. mgr \in Managers /\ work = Left(mgr) /\ n \in Numbers /\ n \in Storable
  BY Parameters DEF IInv, TypeOK, WorkIsLeft
<1>2. PICK s \in UNION {saved(t) : t \in loadSlot(mgr, mgr.net)} : mgr' = [s EXCEPT !.net = n]
  BY DEF saveCurrentSlotToSlot
<1>3. PICK t \in loadSlot(mgr, mgr.net) : s \in saved(t)
  BY <1>2
<1>4. work' = Left(mgr') \/ (~Edited(mgr) /\ ~Fault /\ work' = written)
  <2>1. Works(Edited(mgr) \/ Fault, written)
    BY DEF saveCurrentSlotToSlot
  <2> HIDE DEF written
  <2> QED  BY <2>1 DEF Works
<1>5. t \in Managers /\ t.files = mgr.files /\ t.faults >= mgr.faults /\ (Edited(t) => Edited(mgr))
  BY <1>1, <1>3, Loads
<1>6. t.ok => AfterSave(t, n, s)
  <2>1. ASSUME t.ok PROVE s \in saveSlot(t, n, TRUE)
    BY <1>3, <2>1
  <2> QED  BY <1>5, <2>1, Saves, Zenon
<1>7. ~t.ok => s = t
  BY <1>3
<1> HIDE DEF saved
<1>8. s \in Managers
  BY <1>5, <1>6, <1>7 DEF AfterSave
<1>9. /\ mgr' \in Managers /\ mgr'.ok = s.ok /\ mgr'.files = s.files /\ mgr'.board = s.board
      /\ mgr'.dirty = s.dirty /\ mgr'.active = s.active /\ mgr'.net = n /\ mgr'.faults = s.faults
  BY <1>1, <1>2, <1>8 DEF Managers
<1>10. ASSUME mgr'.ok
       PROVE  Settled(mgr') /\ mgr'.files[n] = mgr'.board /\ mgr'.board \in Boards
              /\ \A m \in Storable : m # n => mgr'.files[m] = mgr.files[m]
  <2>1. AfterSave(t, n, s) /\ s.ok
    BY <1>6, <1>7, <1>9, <1>10
  <2>2. Settled(s) /\ s.active = n /\ s.files[n] = t.board /\ s.board = t.board
    BY <2>1 DEF AfterSave
  <2>3. \A m \in Storable : m # n => s.files[m] = t.files[m]
    BY <2>1 DEF AfterSave
  <2>4. Settled(mgr')
    BY <1>9, <2>2 DEF Settled
  <2>5. mgr'.board \in Boards
    BY <1>9 DEF Managers
  <2> QED  BY <1>5, <1>9, <2>2, <2>3, <2>4, <2>5
<1>11. CleanStep
  BY <1>10, SettledClean
<1>12. ASSUME ~Edited(mgr), ~Fault, work' = written PROVE work' = Left(mgr')
  <2>1. CASE mgr'.ok
    <3>1. ~mgr'.dirty
      BY <1>10, <2>1 DEF Settled
    <3>2. [Left(mgr) EXCEPT ![n] = mgr'.board] = Left(mgr')
      BY <1>1, <1>9, <1>10, <1>12, <2>1, <3>1, WrittenLeft DEF Edited
    <3> QED  BY <1>1, <1>12, <2>1, <3>2
  <2>2. CASE ~mgr'.ok
    <3>1. s.files = mgr.files /\ ~Edited(s)
      <4>1. CASE t.ok
        <5>1. ~(s.faults > t.faults)
          BY <1>1, <1>5, <1>8, <1>9, <1>12 DEF Fault, Managers
        <5>2. s = Failed(t)
          BY <1>6, <1>9, <2>2, <4>1, <5>1 DEF AfterSave
        <5> QED  BY <1>5, <1>12, <5>2, FailedSame, EditedSame
      <4>2. CASE ~t.ok
        BY <1>5, <1>7, <1>12, <4>2
      <4> QED  BY <4>1, <4>2
    <3>2. Left(mgr') = Left(mgr)
      BY <1>1, <1>9, <1>12, <3>1, CleanLeft, EditedSame
    <3> QED  BY <1>1, <1>12, <2>2, <3>2
  <2> QED  BY <2>1, <2>2
<1> HIDE DEF written
<1> QED  BY <1>4, <1>9, <1>11, <1>12 DEF StepKeeps

LEMMA ClearSlotStep ==
  ASSUME IInv, NEW n \in Slots, clearSlot(n)
  PROVE  StepKeeps /\ CleanStep
<1> DEFINE cleared == [work EXCEPT ![n] = {}]
<1>1. mgr \in Managers /\ work = Left(mgr) /\ n \in Storable
  BY Parameters DEF IInv, TypeOK, WorkIsLeft
<1>2. mgr' \in deleteSlot(mgr, n) /\ work' = IF mgr'.ok THEN cleared ELSE work
  BY DEF clearSlot
<1>3. /\ mgr' \in Managers
      /\ \A m \in Storable : m # n => mgr'.files[m] = mgr.files[m]
      /\ mgr'.ok => /\ mgr'.files[n] = NoFile
                    /\ IF mgr.active = n THEN ~mgr'.dirty /\ mgr'.active = Nowhere
                       ELSE /\ mgr'.dirty = mgr.dirty /\ mgr'.active = mgr.active
                            /\ mgr'.board = mgr.board
      /\ ~mgr'.ok => /\ mgr'.files = mgr.files /\ mgr'.active = mgr.active
                     /\ mgr'.dirty = mgr.dirty /\ mgr'.board = mgr.board
  BY <1>1, <1>2, Deletes
<1>4. Left(mgr) \in [Slots -> Boards]
  BY <1>1, LeftAt
<1>5. CASE mgr'.ok
  <2>1. cleared \in [Slots -> Boards] /\ cleared[n] = {}
        /\ \A m \in Slots : m # n => cleared[m] = Left(mgr)[m]
    BY <1>1, <1>4, Parameters
  <2>2. work' = cleared
    BY <1>2, <1>5
  <2> HIDE DEF cleared
  <2>3. Stored(mgr'.files, n) = {}
    BY <1>3, <1>5 DEF Stored
  <2>4. \A m \in Storable : m # n => Stored(mgr'.files, m) = Stored(mgr.files, m)
    BY <1>3, StoredSame
  <2>5. \A m \in Slots :
          cleared[m] = IF Edited(mgr') /\ mgr'.active = m THEN mgr'.board
                                                          ELSE Stored(mgr'.files, m)
    <3>1. \A m \in Slots : m # n =>
            cleared[m] = IF Edited(mgr) /\ mgr.active = m THEN mgr.board
                                                          ELSE Stored(mgr'.files, m)
      BY <1>1, <2>1, <2>4, LeftAt, Parameters
    <3>2. CASE mgr.active = n
      <4>1. ~Edited(mgr')
        BY <1>3, <1>5, <3>2 DEF Edited
      <4> QED  BY <2>1, <2>3, <3>1, <3>2, <4>1
    <3>3. CASE mgr.active # n
      <4>1. mgr'.dirty = mgr.dirty /\ mgr'.active = mgr.active /\ mgr'.board = mgr.board
        BY <1>3, <1>5, <3>3
      <4> QED  BY <2>1, <2>3, <3>1, <3>3, <4>1, EditedSame
    <3> QED  BY <3>2, <3>3
  <2>6. work' = Left(mgr')
    BY <1>3, <2>1, <2>2, <2>5, IsLeft
  <2>7. ASSUME Stale(mgr') PROVE Stale(mgr)
    BY <1>3, <1>5, <2>4, <2>7, Parameters DEF Stale
  <2>8. CleanStep
    <3>1. ~Stale(mgr') => CleanStep
      BY CleanOf
    <3>2. Stale(mgr) => CleanStep
      BY DEF CleanStep
    <3> QED  BY <2>7, <3>1, <3>2
  <2> QED  BY <1>3, <2>6, <2>8 DEF StepKeeps
<1>6. CASE ~mgr'.ok
  <2>1. Left(mgr') = Left(mgr)
    BY <1>1, <1>3, <1>6, SameLeft
  <2>2. CleanStep
    BY <1>6 DEF CleanStep
  <2>3. work' = work
    BY <1>2, <1>6
  <2> QED  BY <1>1, <1>3, <2>1, <2>2, <2>3 DEF StepKeeps
<1> QED  BY <1>5, <1>6

-----------------------------------------------------------------------------
LEMMA EnterTemporarySlotStep ==
  ASSUME IInv, enterTemporarySlot
  PROVE  StepKeeps /\ CleanStep
<1>1. mgr \in Managers /\ work = Left(mgr)
  BY DEF IInv, TypeOK, WorkIsLeft
<1>2. PICK s \in IF mgr.dirty THEN saveActiveSlot(mgr) ELSE {mgr} :
        mgr' = Numbered(Cleared(s), AppSlot) /\ original' = s.active
  BY DEF enterTemporarySlot
<1>3. \/ work' = Left(mgr')
      \/ /\ work' = work
         /\ Edited(mgr) => ~Fault /\ mgr.active \in Storable
  BY DEF enterTemporarySlot, Keeps, Works, Unsaved, Refused
<1>4. mgr.dirty => AfterSave(mgr, mgr.active, s)
  <2>1. ASSUME mgr.dirty PROVE s \in saveSlot(mgr, mgr.active, TRUE)
    BY <1>2, <2>1 DEF saveActiveSlot
  <2> QED  BY <1>1, <2>1, Saves, Zenon
<1>5. ~mgr.dirty => s = mgr
  BY <1>2
<1>6. s \in Managers
  BY <1>1, <1>4, <1>5 DEF AfterSave
<1>7. /\ mgr' \in Managers /\ mgr'.files = s.files /\ ~mgr'.dirty
      /\ mgr'.active = AppSlot /\ mgr'.faults = s.faults
  <2> DEFINE u == Cleared(s)
  <2>1. u \in Managers /\ u.files = s.files /\ ~u.dirty /\ u.faults = s.faults
    BY <1>6, ClearedSame
  <2>2. mgr' = Numbered(u, AppSlot) /\ AppSlot \in Numbers
    BY <1>2, Parameters
  <2> HIDE DEF u
  <2> QED  BY <2>1, <2>2, NumberedSame
<1>8. CleanStep
  <2>1. ~Stale(mgr')
    BY <1>7, Parameters DEF Stale
  <2> QED  BY <2>1, CleanOf
<1>9. CASE ~Edited(mgr)
  <2>1. s.files = mgr.files
    <3>1. CASE mgr.dirty
      <4>1. s = Failed(mgr)
        BY <1>2, <1>9, <3>1, RejectedSave DEF saveActiveSlot, Edited
      <4> QED  BY <1>1, <4>1, FailedSame
    <3> QED  BY <1>5, <3>1
  <2>2. Left(mgr') = Left(mgr)
    BY <1>1, <1>7, <1>9, <2>1, CleanLeft DEF Edited
  <2> QED  BY <1>1, <1>3, <1>7, <1>8, <1>9, <2>2 DEF StepKeeps
<1>10. CASE Edited(mgr) /\ work' = work /\ ~Fault /\ mgr.active \in Storable
  <2>1. s.files[mgr.active] = mgr.board
    BY <1>4, <1>7, <1>10 DEF AfterSave, Fault, Edited
  <2>2. \A m \in Storable : m # mgr.active => s.files[m] = mgr.files[m]
    BY <1>4, <1>10 DEF AfterSave, Edited
  <2>3. Left(mgr') = Left(mgr)
    BY <1>1, <1>7, <1>10, <2>1, <2>2, SavedLeft DEF Edited
  <2> QED  BY <1>1, <1>7, <1>8, <1>10, <2>3 DEF StepKeeps
<1> QED  BY <1>3, <1>7, <1>8, <1>9, <1>10 DEF StepKeeps

(* A blank app's board that was not changed is what a slot without a file  *)
(* holds.                                                                  *)
LEMMA ExitTemporarySlotStep ==
  ASSUME IInv, exitTemporarySlot
  PROVE  StepKeeps /\ CleanStep
<1> DEFINE back == Numbered(mgr, original)
           restored == original \in Storable /\ mgr.files[original] # NoFile
<1>1. /\ mgr \in Managers /\ work = Left(mgr) /\ original \in Numbers
      /\ mgr.active = AppSlot /\ (mgr.dirty \/ mgr.board = {})
  BY DEF IInv, TypeOK, WorkIsLeft, InApp, exitTemporarySlot
<1>2. mgr' \in IF restored THEN readSlotFile(back, original) ELSE {back}
  BY DEF exitTemporarySlot
<1>3. work' = Left(mgr') \/ (restored /\ mgr'.ok /\ work' = work)
  BY DEF exitTemporarySlot, Keeps, Works
<1>4. /\ back \in Managers /\ back.files = mgr.files /\ back.active = original
      /\ back.net = original /\ back.board = mgr.board /\ back.dirty = mgr.dirty
  BY <1>1, NumberedSame
<1> HIDE DEF back
<1>5. CASE restored
  <2>1. mgr' \in readSlotFile(back, original) /\ original \in Storable /\ back.files[original] # NoFile
    BY <1>2, <1>4, <1>5
  <2>2. /\ mgr' \in Managers /\ mgr'.files = mgr.files /\ mgr'.active = original
        /\ mgr'.ok => ~mgr'.dirty /\ mgr'.board = mgr.files[original]
    BY <1>4, <2>1, Reads
  <2>3. mgr'.ok => ~Stale(mgr')
    BY <1>4, <2>1, <2>2 DEF Stale, Stored
  <2>4. CleanStep
    <3>1. ~Stale(mgr') => CleanStep
      BY CleanOf
    <3>2. ~mgr'.ok => CleanStep
      BY DEF CleanStep
    <3> QED  BY <2>3, <3>1, <3>2
  <2>5. mgr'.ok => Left(mgr') = Left(mgr)
    <3>1. AppSlot \notin Slots
      BY Parameters
    <3> QED  BY <1>1, <2>2, <3>1, CleanLeft DEF Edited
  <2> QED  BY <1>1, <1>3, <2>2, <2>4, <2>5 DEF StepKeeps
<1>6. CASE ~restored
  <2>1. mgr' = back
    BY <1>2, <1>6
  <2>2. ~Stale(mgr')
    BY <1>1, <1>4, <1>6, <2>1 DEF Stale, Stored
  <2>3. CleanStep
    BY <2>2, CleanOf
  <2> QED  BY <1>3, <1>4, <1>6, <2>1, <2>3 DEF StepKeeps
<1> QED  BY <1>5, <1>6

-----------------------------------------------------------------------------
LEMMA UnchangedStep ==
  ASSUME IInv, UNCHANGED <<mgr, work>>
  PROVE  StepKeeps /\ CleanStep
<1>1. mgr \in Managers /\ work = Left(mgr)
  BY DEF IInv, TypeOK, WorkIsLeft
<1>2. CleanStep
  BY SameClean
<1> QED  BY <1>1, <1>2 DEF StepKeeps

LEMMA InitLocalCopyStep ==
  ASSUME IInv, initLocalCopy
  PROVE  StepKeeps /\ CleanStep
<1>1. mgr \in Managers /\ work = Left(mgr) /\ Python \in Storable
  BY Parameters DEF IInv, TypeOK, WorkIsLeft
<1>2. work' = Left(mgr') \/ ((python.isolated => ~Edited(mgr)) /\ work' = work)
  BY DEF initLocalCopy, Keeps, Works
<1>3. CASE ~python.isolated
  <2>1. mgr' = mgr
    BY <1>3 DEF initLocalCopy
  <2>2. CleanStep
    BY <2>1, SameClean
  <2> QED  BY <1>1, <1>2, <2>1, <2>2 DEF StepKeeps
<1>4. CASE python.isolated
  <2>1. PICK s \in createdPythonSlot(mgr) : mgr' \in loadSlot(s, Python)
    BY <1>4 DEF initLocalCopy
  <2>2. /\ s \in Managers /\ (Edited(s) => Edited(mgr))
        /\ \A m \in Storable : m # Python => s.files[m] = mgr.files[m]
    <3>1. CASE mgr.files[Python] = NoFile
      <4> DEFINE u == Cleared(mgr)
      <4>1. s \in saveSlot(u, Python, TRUE)
        BY <2>1, <3>1 DEF createdPythonSlot
      <4>2. u \in Managers /\ u.files = mgr.files /\ ~u.dirty
        BY <1>1, ClearedSame
      <4> HIDE DEF u
      <4>3. AfterSave(u, Python, s)
        BY <4>1, <4>2, Saves, Zenon
      <4> QED  BY <4>2, <4>3 DEF AfterSave, Settled, Edited
    <3>2. CASE mgr.files[Python] # NoFile
      BY <1>1, <2>1, <3>2 DEF createdPythonSlot
    <3> QED  BY <3>1, <3>2
  <2>3. /\ mgr' \in Managers /\ mgr'.files = s.files /\ (Edited(mgr') => Edited(s))
        /\ mgr'.ok => Settled(mgr')
    BY <2>1, <2>2, Loads
  <2>4. CleanStep
    BY <2>3, SettledClean
  <2>5. ~Edited(mgr) => Left(mgr') = Left(mgr)
    <3>1. \A m \in Slots : mgr'.files[m] = mgr.files[m]
      BY <2>2, <2>3, Parameters
    <3> QED  BY <1>1, <2>2, <2>3, <3>1, CleanLeft
  <2> QED  BY <1>1, <1>2, <1>4, <2>3, <2>4, <2>5 DEF StepKeeps
<1> QED  BY <1>3, <1>4

LEMMA SwitchSlotStep ==
  ASSUME IInv, NEW n \in Slots, switch_slot(n)
  PROVE  StepKeeps /\ CleanStep
<1>1. mgr \in Managers /\ work = Left(mgr) /\ n \in Numbers
  BY Parameters DEF IInv, TypeOK, WorkIsLeft
<1>2. mgr' = [mgr EXCEPT !.net = n] /\ work' = work
  BY DEF switch_slot
<1>3. /\ mgr' \in Managers /\ mgr'.dirty = mgr.dirty /\ mgr'.active = mgr.active
      /\ mgr'.board = mgr.board /\ mgr'.files = mgr.files
  BY <1>1, <1>2 DEF Managers
<1>4. CleanStep
  BY <1>3, SameClean
<1>5. Left(mgr') = Left(mgr)
  BY <1>1, <1>3, SameLeft
<1> QED  BY <1>1, <1>2, <1>3, <1>4, <1>5 DEF StepKeeps

LEMMA NodesDiscardStep ==
  ASSUME IInv, nodes_discard
  PROVE  StepKeeps /\ CleanStep
<1> DEFINE discarded == IF python.backup # None /\ mgr.net \in Slots
                        THEN [work EXCEPT ![mgr.net] = python.backup] ELSE work
<1>1. /\ mgr \in Managers /\ work = Left(mgr)
      /\ python.backup \in Boards /\ python.backup # None
  BY DEF IInv, TypeOK, WorkIsLeft, InPython, nodes_discard
<1>2. mgr' \in restoreAndSaveStateBackup(mgr, python.backup)
  BY DEF nodes_discard
<1>3. work' = Left(mgr') \/ (mgr'.ok /\ mgr.net = mgr.active /\ work' = discarded)
  <2>1. Works(~mgr'.ok \/ mgr.net # mgr.active, discarded)
    BY DEF nodes_discard
  <2> HIDE DEF discarded
  <2> QED  BY <2>1 DEF Works
<1>4. /\ mgr' \in Managers /\ ~Edited(mgr')
      /\ \A m \in Storable : m # mgr.net => mgr'.files[m] = mgr.files[m]
      /\ mgr'.ok => Settled(mgr') /\ mgr'.active = mgr.net /\ mgr'.files[mgr.net] = python.backup
  BY <1>1, <1>2, Restores
<1>5. CleanStep
  BY <1>4, SettledClean
<1>6. ASSUME mgr'.ok, mgr.net = mgr.active, work' = discarded PROVE work' = Left(mgr')
  <2>1. CASE mgr.net \in Slots
    <3>1. [Left(mgr) EXCEPT ![mgr.net] = python.backup] = Left(mgr')
      BY <1>1, <1>4, <1>6, <2>1, WrittenLeft
    <3> QED  BY <1>1, <1>6, <2>1, <3>1
  <2>2. CASE mgr.net \notin Slots
    <3>1. \A m \in Slots : mgr'.files[m] = mgr.files[m]
      BY <1>4, <2>2, Parameters
    <3>2. Left(mgr') = Left(mgr)
      BY <1>1, <1>4, <1>6, <2>2, <3>1, CleanLeft
    <3> QED  BY <1>1, <1>6, <2>2, <3>2
  <2> QED  BY <2>1, <2>2
<1> HIDE DEF discarded
<1> QED  BY <1>3, <1>4, <1>5, <1>6 DEF StepKeeps

(* The end of an isolated session writes the Python slot only, wherever    *)
(* the board goes.                                                         *)
LEMMA ExitREPLStep ==
  ASSUME IInv, exitREPL
  PROVE  StepKeeps /\ CleanStep
<1>1. /\ mgr \in Managers /\ work = Left(mgr) /\ mode = "python"
      /\ python.backup \in Boards
  BY DEF IInv, TypeOK, WorkIsLeft, InPython, exitREPL
<1>2. CASE ~python.isolated
  <2>1. UNCHANGED <<mgr, work>>
    BY <1>2 DEF exitREPL
  <2> QED  BY <2>1, UnchangedStep
<1>3. CASE python.isolated
  <2> DEFINE numbered(s) == IF python.entry \in Slots THEN Numbered(s, python.entry) ELSE s
             restored(t) == restoreAndSaveStateBackup(t, python.backup)
  <2>1. PICK s \in UNION {restored(t) : t \in saveSlot(mgr, Python, TRUE)} : mgr' = numbered(s)
    BY <1>3 DEF exitREPL
  <2>2. PICK t \in saveSlot(mgr, Python, TRUE) : s \in restored(t)
    BY <2>1
  <2>3. work' = Left(mgr') \/ (mgr.active = Python /\ mgr.net = Python /\ work' = work)
    <3>1. Keeps({mgr.active, mgr.net} # {Python})
      BY <1>3 DEF exitREPL
    <3> QED  BY <3>1 DEF Keeps, Works
  <2>4. AfterSave(mgr, Python, t)
    BY <1>1, <2>2, Saves, Zenon
  <2>5. t \in Managers
    BY <2>4 DEF AfterSave
  <2>6. /\ s \in Managers /\ ~Edited(s)
        /\ \A m \in Storable : m # t.net => s.files[m] = t.files[m]
    BY <1>1, <2>2, <2>5, Restores
  <2>7. mgr' \in Managers /\ ~Edited(mgr') /\ mgr'.files = s.files
    <3>1. CASE python.entry \in Slots
      <4>1. mgr' = Numbered(s, python.entry) /\ python.entry \in Numbers
        BY <2>1, <3>1, Parameters
      <4> QED  BY <2>6, <4>1, NumberedSame, EditedSame
    <3>2. CASE python.entry \notin Slots
      BY <2>1, <2>6, <3>2
    <3> QED  BY <3>1, <3>2
  <2> HIDE DEF numbered, restored
  <2>8. CleanStep
    BY <1>1, <1>3 DEF CleanStep
  <2>9. ASSUME mgr.active = Python, mgr.net = Python PROVE Left(mgr') = Left(mgr)
    <3>1. t.net = Python
      BY <2>4, <2>9 DEF AfterSave, Settled
    <3>2. \A m \in Storable : m # Python => t.files[m] = mgr.files[m]
      BY <2>4 DEF AfterSave
    <3>3. \A m \in Slots : mgr'.files[m] = mgr.files[m]
      BY <2>6, <2>7, <3>1, <3>2, Parameters
    <3>4. mgr.active \notin Slots
      BY <2>9, Parameters
    <3> QED  BY <1>1, <2>7, <3>3, <3>4, CleanLeft
  <2> QED  BY <1>1, <2>3, <2>7, <2>8, <2>9 DEF StepKeeps
<1> QED  BY <1>2, <1>3

-----------------------------------------------------------------------------
LEMMA HostWritesStep ==
  ASSUME IInv, NEW n \in Storable, NEW c \in Boards \union {NoFile}, hostWrites(n, c)
  PROVE  StepKeeps /\ CleanStep
<1> DEFINE written == [work EXCEPT ![n] = Stored(mgr'.files, n)]
<1>1. mgr \in Managers /\ work = Left(mgr)
  BY DEF IInv, TypeOK, WorkIsLeft
<1>2. mgr' = [mgr EXCEPT !.files[n] = c] /\ host.mounted
  BY DEF hostWrites
<1>3. work' = IF n \in Slots /\ ~(Edited(mgr) /\ n = mgr.active) THEN written ELSE work
  BY DEF hostWrites
<1>4. /\ mgr' \in Managers /\ mgr'.dirty = mgr.dirty /\ mgr'.active = mgr.active
      /\ mgr'.board = mgr.board /\ mgr'.files = [mgr.files EXCEPT ![n] = c]
  BY <1>1, <1>2 DEF Managers
<1>5. \A m \in Storable : m # n => mgr'.files[m] = mgr.files[m]
  BY <1>1, <1>4 DEF Managers
<1>6. CleanStep
  BY <1>2 DEF CleanStep
<1>7. Left(mgr) \in [Slots -> Boards] /\ Stored(mgr'.files, n) \in Boards
  BY <1>1, <1>4, LeftAt, StoredIsBoard
<1>8. \A m \in Slots : m # n => Stored(mgr'.files, m) = Stored(mgr.files, m)
  BY <1>5, StoredSame, Parameters
<1>9. /\ work' \in [Slots -> Boards]
      /\ n \in Slots => work'[n] = IF ~(Edited(mgr) /\ n = mgr.active)
                                   THEN Stored(mgr'.files, n) ELSE work[n]
      /\ \A m \in Slots : m # n => work'[m] = Left(mgr)[m]
  BY <1>1, <1>3, <1>7
<1> HIDE DEF written
<1>10. Edited(mgr') <=> Edited(mgr)
  BY <1>4, EditedSame
<1>11. \A m \in Slots :
         work'[m] = IF Edited(mgr') /\ mgr'.active = m THEN mgr'.board
                                                       ELSE Stored(mgr'.files, m)
  BY <1>1, <1>4, <1>8, <1>9, <1>10, LeftAt
<1>12. work' = Left(mgr')
  BY <1>4, <1>9, <1>11, IsLeft
<1> QED  BY <1>4, <1>6, <1>12 DEF StepKeeps

LEMMA UsbUnplugStep ==
  ASSUME IInv, usbUnplug
  PROVE  StepKeeps /\ CleanStep
<1>1. mgr \in Managers /\ work = Left(mgr)
  BY DEF IInv, TypeOK, WorkIsLeft
<1>2. /\ work' = Left(mgr') \/ (~Edited(mgr) /\ work' = work)
      /\ mgr' = mgr \/ mgr' \in loadSlot(mgr, mgr.net)
      /\ host.mounted
  BY DEF usbUnplug, Keeps, Works
<1>3. CleanStep
  BY <1>2 DEF CleanStep
<1>4. mgr' \in Managers /\ mgr'.files = mgr.files /\ (Edited(mgr') => Edited(mgr))
  BY <1>1, <1>2, Loads
<1>5. ~Edited(mgr) => Left(mgr') = Left(mgr)
  BY <1>1, <1>4, CleanLeft
<1> QED  BY <1>1, <1>2, <1>3, <1>4, <1>5 DEF StepKeeps

LEMMA DisableUSBStep ==
  ASSUME IInv, disableUSB
  PROVE  StepKeeps /\ CleanStep
<1> DEFINE loaded(s) == IF s.net = Nowhere THEN {s} ELSE loadSlot(s, s.net)
<1>1. mgr \in Managers /\ work = Left(mgr)
  BY DEF IInv, TypeOK, WorkIsLeft
<1>2. PICK s \in IF mgr.dirty THEN saveSlot(mgr, mgr.net, TRUE) ELSE {mgr} : mgr' \in loaded(s)
  BY DEF disableUSB
<1>3. \/ work' = Left(mgr')
      \/ /\ work' = work
         /\ Edited(mgr) => /\ ~Fault /\ mgr.net \in Storable /\ Valid(mgr.board)
                           /\ mgr.active = mgr.net
  BY DEF disableUSB, Keeps, Works, Refused, Apart
<1>4. mgr.dirty => AfterSave(mgr, mgr.net, s)
  <2>1. ASSUME mgr.dirty PROVE s \in saveSlot(mgr, mgr.net, TRUE)
    BY <1>2, <2>1
  <2> QED  BY <1>1, <2>1, Saves, Zenon
<1>5. ~mgr.dirty => s = mgr
  BY <1>2
<1>6. s \in Managers
  BY <1>1, <1>4, <1>5 DEF AfterSave
<1>7. mgr' = s \/ mgr' \in loadSlot(s, s.net)
  BY <1>2
<1> HIDE DEF loaded
<1>8. mgr' \in Managers /\ mgr'.files = s.files /\ mgr'.faults >= s.faults
      /\ (Edited(mgr') => Edited(s))
  BY <1>6, <1>7, Loads DEF Managers
<1>9. CleanStep
  <2>1. CASE mgr' \in loadSlot(s, s.net)
    <3>1. mgr'.ok => Settled(mgr')
      BY <1>6, <2>1, Loads
    <3> QED  BY <3>1, SettledClean
  <2>2. CASE mgr' = s /\ ~mgr.dirty
    BY <1>5, <2>2, SameClean
  <2>3. CASE mgr' = s /\ mgr.dirty
    <3>1. mgr'.ok => Settled(mgr')
      BY <1>4, <2>3 DEF AfterSave
    <3> QED  BY <3>1, SettledClean
  <2> QED  BY <1>7, <2>1, <2>2, <2>3
<1>10. CASE ~Edited(mgr)
  <2>1. s.files = mgr.files /\ ~Edited(s)
    <3>1. CASE mgr.dirty
      <4>1. s = Failed(mgr)
        BY <1>2, <1>10, <3>1, RejectedSave DEF Edited
      <4> QED  BY <1>1, <1>10, <4>1, FailedSame, EditedSame
    <3> QED  BY <1>5, <1>10, <3>1
  <2>2. Left(mgr') = Left(mgr)
    BY <1>1, <1>8, <1>10, <2>1, CleanLeft
  <2> QED  BY <1>1, <1>3, <1>8, <1>9, <1>10, <2>2 DEF StepKeeps
<1>11. CASE /\ Edited(mgr) /\ work' = work /\ ~Fault /\ mgr.net \in Storable
            /\ Valid(mgr.board) /\ mgr.active = mgr.net
  <2>1. ~(s.faults > mgr.faults)
    BY <1>1, <1>6, <1>8, <1>11 DEF Fault, Managers
  <2>2. s.ok
    BY <1>4, <1>11, <2>1 DEF AfterSave, Edited
  <2>3. ~s.dirty /\ s.files[mgr.active] = mgr.board
    BY <1>4, <1>11, <2>2 DEF AfterSave, Settled, Edited
  <2>4. \A m \in Storable : m # mgr.active => s.files[m] = mgr.files[m]
    BY <1>4, <1>11 DEF AfterSave, Edited
  <2>5. Left(mgr') = Left(mgr)
    BY <1>1, <1>8, <1>11, <2>3, <2>4, SavedLeft DEF Edited
  <2> QED  BY <1>1, <1>8, <1>9, <1>11, <2>5 DEF StepKeeps
<1> QED  BY <1>3, <1>8, <1>9, <1>10, <1>11 DEF StepKeeps

LEMMA RestartStep ==
  ASSUME IInv, Restart
  PROVE  StepKeeps /\ CleanStep
<1> DEFINE s == Numbered(Cleared(mgr), 0)
<1>1. mgr \in Managers
  BY DEF IInv, TypeOK
<1>2. s \in Managers /\ ~s.dirty /\ s.files = mgr.files
  <2> DEFINE u == Cleared(mgr)
  <2>1. u \in Managers /\ ~u.dirty /\ u.files = mgr.files
    BY <1>1, ClearedSame
  <2>2. s = Numbered(u, 0) /\ 0 \in Numbers
    BY Parameters
  <2> HIDE DEF u, s
  <2> QED  BY <2>1, <2>2, NumberedSame
<1>3. mgr' \in reload(s) /\ work' = [n \in Slots |-> Stored(mgr.files, n)]
  BY DEF Restart
<1> HIDE DEF s
<1>4. /\ mgr' \in Managers /\ ~mgr'.dirty /\ mgr'.files = mgr.files
      /\ mgr'.ok => Settled(mgr')
  BY <1>2, <1>3, Reloads DEF Edited
<1>5. CleanStep
  BY <1>4, SettledClean
<1>6. \A n \in Slots : Stored(mgr.files, n) \in Boards
  BY <1>1, StoredIsBoard, Parameters
<1>7. work' = Left(mgr')
  BY <1>3, <1>4, <1>6, IsLeft DEF Edited
<1> QED  BY <1>4, <1>5, <1>7 DEF StepKeeps

-----------------------------------------------------------------------------
(* Every step keeps the work, and satisfies CleanIsStored.                 *)
LEMMA StepKept ==
  ASSUME IInv, [Next]_vars
  PROVE  StepKeeps /\ CleanStep
<1>1. CASE UNCHANGED vars
  BY <1>1, UnchangedStep DEF vars
<1>2. ASSUME NEW w \in Wires, Edit(w) PROVE StepKeeps /\ CleanStep
  BY <1>2, EditStep
<1>3. CASE AutoSave \/ LoadFile
  BY <1>3, AutoSaveStep, LoadFileStep
<1>4. ASSUME NEW n \in Slots,
             \/ cycleSlots(n) \/ saveStateToSlot(n) \/ previewSlot(n)
             \/ saveCurrentSlotToSlot(n) \/ clearSlot(n) \/ switch_slot(n)
             \/ \E b \in SUBSET Wires : inputNodeFileList(n, b)
      PROVE  StepKeeps /\ CleanStep
  <2>1. CASE cycleSlots(n)
    BY <2>1, CycleSlotsStep
  <2>2. CASE saveStateToSlot(n)
    BY <2>2, SaveStateToSlotStep
  <2>3. CASE previewSlot(n)
    BY <2>3, PreviewSlotStep
  <2>4. CASE saveCurrentSlotToSlot(n)
    BY <2>4, SaveCurrentSlotToSlotStep
  <2>5. CASE clearSlot(n)
    BY <2>5, ClearSlotStep
  <2>6. CASE switch_slot(n)
    BY <2>6, SwitchSlotStep
  <2>7. ASSUME NEW b \in SUBSET Wires, inputNodeFileList(n, b) PROVE StepKeeps /\ CleanStep
    BY <2>7, InputNodeFileListStep
  <2> QED  BY <1>4, <2>1, <2>2, <2>3, <2>4, <2>5, <2>6, <2>7
<1>5. CASE cancelPreview \/ applyPreview
  BY <1>5, CancelPreviewStep, ApplyPreviewStep
<1>6. CASE enterTemporarySlot \/ exitTemporarySlot
  BY <1>6, EnterTemporarySlotStep, ExitTemporarySlotStep
<1>7. CASE startREPL \/ runScript
  BY <1>7, InitLocalCopyStep DEF startREPL, runScript
<1>8. CASE toggleContext
  BY <1>8, UnchangedStep DEF toggleContext
<1>9. CASE nodes_discard \/ exitREPL
  BY <1>9, NodesDiscardStep, ExitREPLStep
<1>10. CASE usbPlug
  BY <1>10, UnchangedStep DEF usbPlug
<1>11. CASE usbUnplug \/ disableUSB
  BY <1>11, UsbUnplugStep, DisableUSBStep
<1>12. ASSUME NEW n \in Storable, NEW c \in Boards \union {NoFile}, hostWrites(n, c)
       PROVE  StepKeeps /\ CleanStep
  BY <1>12, HostWritesStep
<1>13. CASE Restart
  BY <1>13, RestartStep
<1> QED
  BY <1>1, <1>2, <1>3, <1>4, <1>5, <1>6, <1>7, <1>8, <1>9, <1>10, <1>11, <1>12, <1>13 DEF Next

(* The types of what the menu, apps, Python and the host remember.         *)
LEMMA TypeStep ==
  ASSUME IInv, [Next]_vars, StepKeeps
  PROVE  TypeOK'
<1> DEFINE Rest ==
      /\ mode \in {"main", "menu", "app", "python"}
      /\ preview \in [slot : Slots \union {None}, original : Numbers \union {None},
                      shown : Slots \union {None}]
      /\ original \in Numbers \union {None}
      /\ python \in [isolated : BOOLEAN, entry : Numbers \union {None},
                     backup : Boards \union {None}]
      /\ host \in [mounted : BOOLEAN, writes : 0..MaxWrites]
      /\ home \in Numbers
<1>0. SUFFICES Rest'
  <2>1. mgr' \in Managers /\ work' \in [Slots -> Boards]
    BY LeftAt DEF StepKeeps
  <2> QED  BY <2>1 DEF TypeOK
<1>1. Rest /\ mgr \in Managers
  BY DEF IInv, TypeOK
<1>2. /\ mgr' \in Managers /\ mgr'.active \in Numbers /\ mgr.active \in Numbers
      /\ mgr.net \in Numbers /\ mgr.board \in Boards
  BY <1>1 DEF StepKeeps, Managers
<1>4. NoPreview \in [slot : Slots \union {None}, original : Numbers \union {None},
                     shown : Slots \union {None}]
  BY DEF NoPreview
<1>5. [host EXCEPT !.mounted = TRUE] \in [mounted : BOOLEAN, writes : 0..MaxWrites]
  BY <1>1
<1>6. [host EXCEPT !.mounted = FALSE] \in [mounted : BOOLEAN, writes : 0..MaxWrites]
  BY <1>1
<1>7. CASE UNCHANGED vars
  BY <1>1, <1>7 DEF vars
<1>8. ASSUME NEW w \in Wires, Edit(w) PROVE Rest'
  BY <1>1, <1>8 DEF Edit
<1>9. CASE AutoSave \/ LoadFile
  BY <1>1, <1>4, <1>9 DEF AutoSave, LoadFile
<1>10. ASSUME NEW n \in Slots,
              \/ cycleSlots(n) \/ saveStateToSlot(n)
              \/ saveCurrentSlotToSlot(n) \/ clearSlot(n) \/ switch_slot(n)
              \/ \E b \in SUBSET Wires : inputNodeFileList(n, b)
       PROVE  Rest'
  BY <1>1, <1>4, <1>10 DEF cycleSlots, saveStateToSlot, saveCurrentSlotToSlot, clearSlot,
                           switch_slot, inputNodeFileList
<1>11. ASSUME NEW n \in Slots, previewSlot(n) PROVE Rest'
  <2>1. /\ mode' = "menu" /\ UNCHANGED <<original, python, host>>
        /\ home' \in {mgr.active, home}
        /\ \/ preview' = [preview EXCEPT !.shown = n]
           \/ \E o \in {mgr.active, preview.original} :
                preview' = [slot |-> n, shown |-> n, original |-> o]
    BY <1>11 DEF previewSlot
  <2>2. preview' \in [slot : Slots \union {None}, original : Numbers \union {None},
                      shown : Slots \union {None}]
    BY <1>1, <1>2, <2>1
  <2> QED  BY <1>1, <1>2, <2>1, <2>2
<1>12. CASE cancelPreview \/ applyPreview
  BY <1>1, <1>4, <1>12 DEF cancelPreview, applyPreview
<1>13. CASE enterTemporarySlot
  <2>1. PICK s \in IF mgr.dirty THEN saveActiveSlot(mgr) ELSE {mgr} : original' = s.active
    BY <1>13 DEF enterTemporarySlot
  <2>2. s \in Managers
    <3>1. ASSUME mgr.dirty PROVE AfterSave(mgr, mgr.active, s)
      <4>1. s \in saveSlot(mgr, mgr.active, TRUE)
        BY <2>1, <3>1 DEF saveActiveSlot
      <4> QED  BY <1>1, <4>1, Saves, Zenon
    <3> QED  BY <1>1, <2>1, <3>1 DEF AfterSave
  <2>3. original' \in Numbers
    BY <2>1, <2>2 DEF Managers
  <2> QED  BY <1>1, <1>2, <1>13, <2>3 DEF enterTemporarySlot
<1>14. CASE exitTemporarySlot
  BY <1>1, <1>14 DEF exitTemporarySlot
<1>15. CASE startREPL \/ runScript
  <2>1. /\ mode' = "python" /\ UNCHANGED <<preview, original, host, home>>
        /\ python' = [python EXCEPT !.entry = mgr.net, !.backup = mgr.board]
    BY <1>15 DEF startREPL, runScript, initLocalCopy
  <2> QED  BY <1>1, <1>2, <2>1
<1>16. CASE toggleContext
  <2>1. python' = [python EXCEPT !.isolated = ~python.isolated]
    BY <1>16 DEF toggleContext
  <2>2. python' \in [isolated : BOOLEAN, entry : Numbers \union {None},
                     backup : Boards \union {None}]
    BY <1>1, <2>1
  <2> QED  BY <1>1, <1>16, <2>2 DEF toggleContext
<1>17. CASE nodes_discard \/ exitREPL
  BY <1>1, <1>17 DEF nodes_discard, exitREPL
<1>18. CASE usbPlug \/ usbUnplug \/ disableUSB
  BY <1>1, <1>2, <1>5, <1>6, <1>18 DEF usbPlug, usbUnplug, disableUSB
<1>19. ASSUME NEW n \in Storable, NEW c \in Boards \union {NoFile}, hostWrites(n, c)
       PROVE  Rest'
  <2>1. host.writes + 1 \in 0..MaxWrites
    BY <1>1, <1>19, Parameters DEF hostWrites
  <2> QED  BY <1>1, <1>19, <2>1 DEF hostWrites
<1>20. CASE Restart
  BY <1>1, <1>4, <1>6, <1>20 DEF Restart
<1> HIDE DEF Rest
<1> QED
  BY <1>7, <1>8, <1>9, <1>10, <1>11, <1>12, <1>13, <1>14, <1>15, <1>16, <1>17, <1>18, <1>19, <1>20
     DEF Next

(* Only apps are entered from the main loop, with a blank board and their  *)
(* own number; in one, nothing but edits changes the board.                *)
LEMMA AppStep ==
  ASSUME IInv, [Next]_vars
  PROVE  InApp'
<1>1. mgr \in Managers /\ InApp
  BY DEF IInv, TypeOK
<1>2. SUFFICES ASSUME mode' = "app"
               PROVE  /\ original' \in Numbers /\ original' = home'
                      /\ mgr'.active = AppSlot /\ mgr'.net = AppSlot
                      /\ mgr'.dirty \/ mgr'.board = {}
  BY DEF InApp
<1>3. CASE UNCHANGED vars
  BY <1>1, <1>2, <1>3 DEF vars, InApp
<1>4. ASSUME NEW w \in Wires, Edit(w)
      PROVE  /\ original' \in Numbers /\ original' = home'
             /\ mgr'.active = AppSlot /\ mgr'.net = AppSlot
             /\ mgr'.dirty \/ mgr'.board = {}
  <2>1. /\ mgr' = [mgr EXCEPT !.board = Changed(mgr.board, w), !.dirty = TRUE]
        /\ UNCHANGED <<mode, original, home>>
    BY <1>4 DEF Edit
  <2>2. mgr'.dirty /\ mgr'.active = mgr.active /\ mgr'.net = mgr.net
    BY <1>1, <2>1 DEF Managers
  <2> QED  BY <1>1, <1>2, <2>1, <2>2 DEF InApp
<1>5. CASE enterTemporarySlot
  <2>1. PICK s \in IF mgr.dirty THEN saveActiveSlot(mgr) ELSE {mgr} :
          mgr' = Numbered(Cleared(s), AppSlot) /\ original' = s.active
    BY <1>5 DEF enterTemporarySlot
  <2>2. s \in Managers /\ s.active = mgr.active
    <3>1. CASE mgr.dirty
      <4>1. s \in saveSlot(mgr, mgr.active, TRUE)
        BY <2>1, <3>1 DEF saveActiveSlot
      <4>2. AfterSave(mgr, mgr.active, s)
        BY <1>1, <4>1, Saves, Zenon
      <4> QED  BY <4>2 DEF AfterSave
    <3>2. CASE ~mgr.dirty
      BY <1>1, <2>1, <3>2
    <3> QED  BY <3>1, <3>2
  <2>3. home' = mgr.active
    BY <1>5 DEF enterTemporarySlot
  <2>4. s.active \in Numbers
    BY <2>2 DEF Managers
  <2>5. mgr'.active = AppSlot /\ mgr'.net = AppSlot /\ mgr'.board = {}
    <3> DEFINE u == Cleared(s)
    <3>1. u \in Managers /\ u.board = {}
      BY <2>2, ClearedSame
    <3>2. mgr' = Numbered(u, AppSlot) /\ AppSlot \in Numbers
      BY <2>1, Parameters
    <3> HIDE DEF u
    <3> QED  BY <3>1, <3>2, NumberedSame
  <2> QED  BY <2>1, <2>2, <2>3, <2>4, <2>5
<1>6. CASE usbPlug
  BY <1>1, <1>2, <1>6 DEF usbPlug, InApp
<1>7. CASE usbUnplug
  <2>1. UNCHANGED <<mode, original>>
    BY <1>7 DEF usbUnplug
  <2>2. home' = home
    BY <1>2, <1>7, <2>1 DEF usbUnplug
  <2>3. mgr.net = AppSlot
    BY <1>1, <1>2, <2>1 DEF InApp
  <2>4. mgr' \in loadSlot(mgr, AppSlot)
    BY <1>7, <2>3, SlotManagerAssumption DEF usbUnplug
  <2>5. mgr' = Failed(mgr)
    BY <1>1, <2>4, Loads, Parameters
  <2>6. mgr'.dirty = mgr.dirty /\ mgr'.board = mgr.board /\ mgr'.active = mgr.active
        /\ mgr'.net = mgr.net
    BY <1>1, <2>5, FailedSame
  <2> QED  BY <1>1, <1>2, <2>1, <2>2, <2>6 DEF InApp
<1>8. ASSUME NEW n \in Storable, NEW c \in Boards \union {NoFile}, hostWrites(n, c)
      PROVE  /\ original' \in Numbers /\ original' = home'
             /\ mgr'.active = AppSlot /\ mgr'.net = AppSlot
             /\ mgr'.dirty \/ mgr'.board = {}
  <2>1. mgr' = [mgr EXCEPT !.files[n] = c] /\ UNCHANGED <<mode, original, home>>
    BY <1>8 DEF hostWrites
  <2>2. mgr'.dirty = mgr.dirty /\ mgr'.board = mgr.board /\ mgr'.active = mgr.active
        /\ mgr'.net = mgr.net
    BY <1>1, <2>1 DEF Managers
  <2> QED  BY <1>1, <1>2, <2>1, <2>2 DEF InApp
<1>9. CASE AutoSave \/ LoadFile \/ cancelPreview \/ applyPreview \/ exitTemporarySlot
             \/ startREPL \/ runScript \/ toggleContext \/ nodes_discard \/ exitREPL
             \/ disableUSB \/ Restart
  BY <1>2, <1>9 DEF AutoSave, LoadFile, cancelPreview, applyPreview, exitTemporarySlot,
     startREPL, runScript, toggleContext, nodes_discard, exitREPL, disableUSB, Restart
<1>10. ASSUME NEW n \in Slots,
              \/ cycleSlots(n) \/ saveStateToSlot(n) \/ previewSlot(n)
              \/ saveCurrentSlotToSlot(n) \/ clearSlot(n) \/ switch_slot(n)
              \/ \E b \in SUBSET Wires : inputNodeFileList(n, b)
       PROVE  FALSE
  BY <1>2, <1>10 DEF cycleSlots, saveStateToSlot, previewSlot, saveCurrentSlotToSlot, clearSlot,
     switch_slot, inputNodeFileList
<1> QED  BY <1>3, <1>4, <1>5, <1>6, <1>7, <1>8, <1>9, <1>10 DEF Next

(* Outside the menu there is no preview.                                   *)
LEMMA MenuAway ==
  ASSUME InMenu, mode # "menu", preview' \in {preview, NoPreview}, mode' # "menu"
  PROVE  InMenu'
<1>1. preview'.slot = None
  BY DEF InMenu, NoPreview
<1> QED  BY <1>1 DEF InMenu

LEMMA MenuLeft ==
  ASSUME preview' = NoPreview, mode' # "menu"
  PROVE  InMenu'
<1>1. preview'.slot = None
  BY DEF NoPreview
<1> QED  BY <1>1 DEF InMenu

(* What the menu shows under Load is what is loaded, and what it goes back *)
(* to is the slot one was on when the menu was entered.                    *)
LEMMA MenuStep ==
  ASSUME IInv, [Next]_vars
  PROVE  InMenu'
<1>1. /\ mgr \in Managers /\ InMenu
      /\ preview \in [slot : Slots \union {None}, original : Numbers \union {None},
                      shown : Slots \union {None}]
  BY DEF IInv, TypeOK
<1>2. CASE UNCHANGED vars
  BY <1>1, <1>2 DEF vars, InMenu
<1>3. ASSUME NEW n \in Slots, previewSlot(n) PROVE InMenu'
  <2>1. /\ mgr' \in loadSlot(mgr, n) /\ mode' = "menu" /\ mode \in {"main", "menu"}
        /\ home' = IF mode = "main" THEN mgr.active ELSE home
        /\ preview' =
             IF ~mgr'.ok THEN [preview EXCEPT !.shown = n]
             ELSE [slot |-> n, shown |-> n,
                   original |-> IF preview.slot = None THEN mgr.active ELSE preview.original]
    BY <1>3 DEF previewSlot
  <2>2. /\ Edited(mgr') => Edited(mgr)
        /\ mgr'.ok => Settled(mgr') /\ mgr'.active = n
        /\ ~mgr'.ok => mgr'.active = mgr.active /\ mgr'.net = mgr.net
    BY <1>1, <2>1, Loads
  <2>3. mode = "main" => preview.slot = None
    BY <1>1 DEF InMenu
  <2>4. preview.slot = None => mgr.active = home'
    BY <1>1, <2>1 DEF InMenu
  <2>5. preview.slot # None => preview.original = home' /\ home' = home
    BY <1>1, <2>1, <2>3 DEF InMenu
  <2>6. CASE mgr'.ok
    <3>1. /\ preview'.slot = n
          /\ preview'.original = IF preview.slot = None THEN mgr.active ELSE preview.original
      BY <2>1, <2>6
    <3>2. preview'.original = home'
      BY <2>4, <2>5, <3>1
    <3>3. ~Edited(mgr') /\ mgr'.active = n /\ mgr'.net = n
      BY <2>2, <2>6 DEF Settled, Edited
    <3>4. n # None
      BY Parameters
    <3> QED  BY <2>1, <3>1, <3>2, <3>3, <3>4 DEF InMenu
  <2>7. CASE ~mgr'.ok
    <3>1. preview'.slot = preview.slot /\ preview'.original = preview.original
      BY <1>1, <2>1, <2>7
    <3> QED  BY <1>1, <2>1, <2>2, <2>4, <2>5, <2>7, <3>1 DEF InMenu
  <2> QED  BY <2>6, <2>7
<1>4. CASE usbUnplug
  <2>1. /\ mgr' = mgr \/ mgr' \in loadSlot(mgr, mgr.net)
        /\ UNCHANGED <<mode, preview>>
        /\ home' = IF mode = "menu" /\ preview.slot = None THEN mgr'.active ELSE home
    BY <1>4 DEF usbUnplug
  <2>2. /\ Edited(mgr') => Edited(mgr)
        /\ \/ mgr'.active = mgr.active /\ mgr'.net = mgr.net
           \/ mgr'.active = mgr.net /\ mgr'.net = mgr.net
    BY <1>1, <2>1, Loads DEF Settled
  <2> QED  BY <1>1, <2>1, <2>2 DEF InMenu
<1>5. ASSUME NEW n \in Storable, NEW c \in Boards \union {NoFile}, hostWrites(n, c)
      PROVE  InMenu'
  <2>1. mgr' = [mgr EXCEPT !.files[n] = c] /\ UNCHANGED <<mode, preview, home>>
    BY <1>5 DEF hostWrites
  <2>2. /\ mgr'.dirty = mgr.dirty /\ mgr'.board = mgr.board
        /\ mgr'.active = mgr.active /\ mgr'.net = mgr.net
    BY <1>1, <2>1 DEF Managers
  <2> QED  BY <1>1, <2>1, <2>2, EditedSame DEF InMenu
<1>6. CASE usbPlug
  BY <1>1, <1>6 DEF usbPlug, InMenu
<1>7. CASE cancelPreview \/ applyPreview \/ Restart
  <2>1. preview' = NoPreview /\ mode' # "menu"
    BY <1>7 DEF cancelPreview, applyPreview, Restart
  <2> QED  BY <2>1, MenuLeft
<1>8. CASE AutoSave \/ LoadFile \/ enterTemporarySlot \/ exitTemporarySlot
             \/ startREPL \/ runScript \/ toggleContext \/ nodes_discard \/ exitREPL \/ disableUSB
  <2>1. mode # "menu" /\ preview' \in {preview, NoPreview} /\ mode' # "menu"
    BY <1>8 DEF AutoSave, LoadFile, enterTemporarySlot, exitTemporarySlot, startREPL, runScript,
       initLocalCopy, toggleContext, nodes_discard, exitREPL, disableUSB
  <2> QED  BY <1>1, <2>1, MenuAway
<1>9. ASSUME NEW n \in Slots,
             \/ cycleSlots(n) \/ saveStateToSlot(n)
             \/ saveCurrentSlotToSlot(n) \/ clearSlot(n) \/ switch_slot(n)
             \/ \E b \in SUBSET Wires : inputNodeFileList(n, b)
      PROVE  InMenu'
  <2>1. mode # "menu" /\ preview' \in {preview, NoPreview} /\ mode' # "menu"
    BY <1>9 DEF cycleSlots, saveStateToSlot, saveCurrentSlotToSlot, clearSlot, switch_slot,
       inputNodeFileList
  <2> QED  BY <1>1, <2>1, MenuAway
<1>10. ASSUME NEW w \in Wires, Edit(w) PROVE InMenu'
  <2>1. mode # "menu" /\ preview' \in {preview, NoPreview} /\ mode' # "menu"
    BY <1>10 DEF Edit
  <2> QED  BY <1>1, <2>1, MenuAway
<1> QED  BY <1>2, <1>3, <1>4, <1>5, <1>6, <1>7, <1>8, <1>9, <1>10 DEF Next

(* A session takes a backup when it begins and gives it up when it ends.   *)
LEMMA PythonStep ==
  ASSUME IInv, [Next]_vars
  PROVE  InPython'
<1>1. /\ mgr \in Managers /\ InPython
      /\ python \in [isolated : BOOLEAN, entry : Numbers \union {None},
                     backup : Boards \union {None}]
  BY DEF IInv, TypeOK
<1>2. SUFFICES ASSUME mode' = "python" PROVE python'.backup # None
  BY DEF InPython
<1>3. CASE UNCHANGED <<mode, python>>
  BY <1>1, <1>2, <1>3 DEF InPython
<1>4. CASE startREPL \/ runScript
  <2>1. python' = [python EXCEPT !.entry = mgr.net, !.backup = mgr.board]
    BY <1>4 DEF startREPL, runScript, initLocalCopy
  <2>2. mgr.board \in Boards
    BY <1>1 DEF Managers
  <2> QED  BY <1>1, <2>1, <2>2, Parameters
<1>5. CASE toggleContext
  <2>1. python' = [python EXCEPT !.isolated = ~python.isolated] /\ mode' = mode
    BY <1>5, <1>2 DEF toggleContext
  <2> QED  BY <1>1, <1>2, <2>1 DEF InPython
<1>6. CASE \/ AutoSave \/ LoadFile \/ nodes_discard \/ usbPlug \/ usbUnplug \/ disableUSB
           \/ \E w \in Wires : Edit(w)
           \/ \E n \in Storable, c \in Boards \union {NoFile} : hostWrites(n, c)
           \/ \E n \in Slots : \/ cycleSlots(n) \/ saveStateToSlot(n) \/ saveCurrentSlotToSlot(n)
                               \/ clearSlot(n) \/ switch_slot(n)
                               \/ \E b \in SUBSET Wires : inputNodeFileList(n, b)
  <2>1. UNCHANGED <<mode, python>>
    BY <1>6 DEF AutoSave, LoadFile, nodes_discard, usbPlug, usbUnplug, disableUSB, Edit, hostWrites,
       cycleSlots, saveStateToSlot, saveCurrentSlotToSlot, clearSlot, switch_slot, inputNodeFileList
  <2> QED  BY <1>3, <2>1
<1>7. CASE \/ cancelPreview \/ applyPreview \/ enterTemporarySlot \/ exitTemporarySlot
           \/ exitREPL \/ Restart \/ \E n \in Slots : previewSlot(n)
  BY <1>2, <1>7 DEF cancelPreview, applyPreview, enterTemporarySlot, exitTemporarySlot, exitREPL,
     Restart, previewSlot
<1>8. UNCHANGED vars => UNCHANGED <<mode, python>>
  BY DEF vars
<1> QED  BY <1>3, <1>4, <1>5, <1>6, <1>7, <1>8 DEF Next

-----------------------------------------------------------------------------
LEMMA InitInv == Init => IInv
<1> SUFFICES ASSUME Init PROVE IInv
  OBVIOUS
<1>1. mgr \in Managers
  <2>1. [n \in Storable |-> NoFile] \in [Storable -> Boards \union {NoFile}]
    OBVIOUS
  <2> QED  BY <2>1, Parameters DEF Init, Managers
<1>2. TypeOK
  <2>1. work \in [Slots -> Boards]
    BY Parameters DEF Init
  <2>2. /\ mode \in {"main", "menu", "app", "python"}
        /\ preview \in [slot : Slots \union {None}, original : Numbers \union {None},
                        shown : Slots \union {None}]
        /\ original \in Numbers \union {None}
        /\ python \in [isolated : BOOLEAN, entry : Numbers \union {None},
                       backup : Boards \union {None}]
        /\ host \in [mounted : BOOLEAN, writes : 0..MaxWrites]
        /\ home \in Numbers
    BY Parameters DEF Init, NoPreview
  <2> QED  BY <1>1, <2>1, <2>2 DEF TypeOK
<1>3. WorkIsLeft
  <2>1. \A n \in Slots : Stored(mgr.files, n) = {}
    BY Parameters DEF Init, Stored
  <2>2. ~mgr.dirty /\ work = [n \in Slots |-> {}]
    BY DEF Init
  <2>3. \A n \in Slots :
          work[n] = IF Edited(mgr) /\ mgr.active = n THEN mgr.board ELSE Stored(mgr.files, n)
    BY <2>1, <2>2 DEF Edited
  <2>4. work \in [Slots -> Boards]
    BY <1>2 DEF TypeOK
  <2> QED  BY <1>1, <2>3, <2>4, IsLeft DEF WorkIsLeft
<1>4. InApp /\ InMenu /\ InPython
  BY DEF Init, InApp, InMenu, InPython, NoPreview
<1> QED  BY <1>2, <1>3, <1>4 DEF IInv

LEMMA StepInv == IInv /\ [Next]_vars => IInv'
<1> SUFFICES ASSUME IInv, [Next]_vars PROVE IInv'
  OBVIOUS
<1>1. StepKeeps
  BY StepKept
<1>2. TypeOK' /\ InApp' /\ InMenu' /\ InPython'
  BY <1>1, TypeStep, AppStep, MenuStep, PythonStep
<1>3. WorkIsLeft'
  BY <1>1 DEF StepKeeps, WorkIsLeft, Left, Stored, Edited, Valid
<1> QED  BY <1>2, <1>3 DEF IInv

(* The invariant holds, whatever the slots, wires and bounds.              *)
THEOREM Invariant == Spec => []IInv
  BY InitInv, StepInv, PTL DEF Spec

(* Every variable keeps its type: no handler leaves a number, a board or a *)
(* file that the others do not expect, and an app always has a slot to go  *)
(* back to.                                                                *)
THEOREM TypeCorrect == Spec => []TypeOK
<1>1. IInv => TypeOK
  BY DEF IInv
<1> QED  BY <1>1, Invariant, PTL

(* No work is lost or misplaced but where the actions say so.              *)
THEOREM WorkKeptCorrect == Spec => []WorkKept
<1>1. IInv => WorkKept
  <2> SUFFICES ASSUME IInv PROVE WorkKept
    OBVIOUS
  <2>1. mgr \in Managers /\ work = Left(mgr)
    BY DEF IInv, TypeOK, WorkIsLeft
  <2> QED  BY <2>1, LeftAt DEF WorkKept, Edited
<1> QED  BY <1>1, Invariant, PTL

(* A clean board is what its slot's file holds, but for the exceptions the *)
(* property names.                                                         *)
THEOREM CleanIsStoredCorrect == Spec => CleanIsStored
<1>1. IInv /\ [Next]_vars =>
        [Stale(mgr)' => \/ Stale(mgr) \/ ~mgr'.ok \/ host.mounted
                        \/ mode = "python" /\ python.isolated
                        \/ mode = "menu" /\ preview.slot # preview.shown]_vars
  BY StepKept DEF CleanStep
<1> QED  BY <1>1, Invariant, PTL DEF Spec, CleanIsStored

(* The menu and the apps lead back to the slot they were entered from.     *)
THEOREM ReturnsToSlotCorrect == Spec => ReturnsToSlot
<1>1. ASSUME IInv, exitTemporarySlot, mgr'.ok PROVE mgr'.active = home /\ mgr'.net = home
  <2> DEFINE back == Numbered(mgr, original)
             restored == original \in Storable /\ mgr.files[original] # NoFile
  <2>1. mgr \in Managers /\ original \in Numbers /\ original = home
    BY <1>1 DEF IInv, TypeOK, InApp, exitTemporarySlot
  <2>2. mgr' \in IF restored THEN readSlotFile(back, original) ELSE {back}
    BY <1>1 DEF exitTemporarySlot
  <2>3. back \in Managers /\ back.files = mgr.files /\ back.active = original /\ back.net = original
    BY <2>1, NumberedSame
  <2> HIDE DEF back
  <2>4. CASE restored
    <3>1. mgr' \in readSlotFile(back, original) /\ original \in Storable /\ back.files[original] # NoFile
      BY <2>2, <2>3, <2>4
    <3> QED  BY <2>1, <2>3, <3>1, Reads
  <2>5. CASE ~restored
    BY <2>1, <2>2, <2>3, <2>5
  <2> QED  BY <2>4, <2>5
<1>2. ASSUME IInv, preview.slot # None, cancelPreview, mgr'.ok
      PROVE  mgr'.active = home /\ mgr'.net = home
  <2>1. mgr \in Managers /\ preview.original = home /\ mgr' \in loadSlot(mgr, preview.original)
    BY <1>2 DEF IInv, TypeOK, InMenu, cancelPreview
  <2> QED  BY <1>2, <2>1, Loads DEF Settled
<1>3. IInv /\ [Next]_vars =>
        [(/\ mode # "main" /\ mode' = "main" /\ mgr'.ok
          /\ (exitTemporarySlot \/ (preview.slot # None /\ cancelPreview)))
         => (mgr'.active = home /\ mgr'.net = home)]_vars
  BY <1>1, <1>2
<1> QED  BY <1>3, Invariant, PTL DEF Spec, ReturnsToSlot

=============================================================================
