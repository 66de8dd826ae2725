---------------------------- MODULE RestoreProofs ----------------------------
(***************************************************************************)
(* The emergency restore beside the daemon, proved for every set of        *)
(* configuration files, every number of transactions, commands and faults, *)
(* and every snapshot limit.                                               *)
(***************************************************************************)
EXTENDS EmergencyRestore, ApplyTxProofs

CommandSteps == {"off", "check", "undo", "drop", "write", "reload"}

(***************************************************************************)
(* The command's own variables.                                            *)
(***************************************************************************)
CommandTypeOK ==
  /\ rpc \in CommandSteps
  /\ force \in BOOLEAN /\ warned \in BOOLEAN /\ raced \in BOOLEAN
  /\ point \in Confs \cup {Gone}
  /\ rpc # "off" => point \in Confs
  /\ left \subseteq Written
  /\ undo \in Snapshots \cup {NoSnap}
  /\ rpc \in {"check", "undo"} => undo = NoSnap
  /\ begun \in 0 .. issued

\* No snapshot is from the future: what is left of DiskInv when the command
\* prunes snapshots and clears the journal under the daemon's hands.
SnapsInv == \A i \in Ids : snaps[i] # Gone => i <= clock

(***************************************************************************)
(* As long as no command met a busy daemon, the daemon's own invariants    *)
(* hold, and during a command it stays idle.                               *)
(***************************************************************************)
QuietInv ==
  ~raced => /\ DiskInv /\ NetInv
            /\ rpc # "off" => ~Busy

(***************************************************************************)
(* What a command without a warning has done so far, and what is left of   *)
(* it afterwards: nothing old in the draft, and no record of a change that *)
(* a later start would undo.                                               *)
(***************************************************************************)
StoryInv ==
  /\ rpc # "off" => restored = Gone /\ stopped = Gone
  /\ (rpc \in {"write", "reload"} /\ ~warned) \/ restored # Gone
     => Staged \subseteq newer
  /\ /\ rpc \in {"undo", "drop", "write", "reload"}
     /\ ~warned /\ issued = begun
     /\ ~force \/ rpc = "reload"
     => journal = NoRec
  /\ restored # Gone => /\ Part(conf) = restored
                        /\ journal = NoRec /\ op # "recover"

\* c is the newest snapshot, and the Wi-Fi is still as it was in c.
NewestIs(c) ==
  /\ c \in Confs
  /\ conf[Wireless] = c[Wireless]
  /\ \E u \in Ids : snaps[u] = c /\ \A j \in Ids : j > u => snaps[j] = Gone

(***************************************************************************)
(* The way back from a command that stops half-way.                        *)
(***************************************************************************)
UndoInv ==
  /\ rpc \in {"drop", "write"} /\ undo # NoSnap /\ undo.kept /\ ~raced
     => NewestIs(undo.data)
  /\ stopped # Gone => NewestIs(stopped)

RestoreInv == /\ TypeOK /\ ControlInv /\ CommandTypeOK /\ SnapsInv
              /\ QuietInv /\ StoryInv /\ UndoInv

-----------------------------------------------------------------------------
(***************************************************************************)
(* What a step of the daemon may do to what it shares with the command.    *)
(***************************************************************************)
DaemonEffect ==
  /\ issued' = issued => journal' \in {journal, NoRec}
  /\ issued' \in {issued, issued + 1}
  /\ pc \in {"free", "down"} => conf' = conf /\ snaps' = snaps
  /\ op' = "recover" => op = "recover" \/ journal # NoRec
  /\ SnapsInv'

\* Only GoLive writes a record, and it issues a token with it; only a call that
\* holds the mutex touches /etc/config or the snapshots; only a record starts a
\* recovery.
LEMMA DaemonDoes ==
  ASSUME TypeOK, ControlInv, SnapsInv, Daemon
  PROVE  DaemonEffect
<1> USE DEF DaemonEffect, SnapsInv, uciVars, diskVars, coordVars, timerVars,
            callVars, boundVars, historyVars
<1>1. CASE TakeSnapshot
  <2>1. PICK kept \in BOOLEAN :
          IF kept THEN Persist(clock, conf) ELSE PersistFails(clock)
    BY <1>1 DEF TakeSnapshot
  <2>2. \A i \in Ids : snaps'[i] # Gone => i <= clock
    <3>1. CASE kept
      BY <2>1, <3>1, PersistKeepsNewest
    <3>2. CASE ~kept
      BY <2>1, <3>2, BoundsAssumption DEF PersistFails, TypeOK, Ids
    <3> QED
      BY <3>1, <3>2
  <2> QED
    BY <1>1, <2>2 DEF TakeSnapshot
<1>2. CASE SnapshotFails
  BY <1>2 DEF SnapshotFails, Unlock
<1>3. CASE UciCommit
  BY <1>3 DEF UciCommit, Goto
<1>4. ASSUME NEW D \in SUBSET Packages, UciCommitFails(D) PROVE DaemonEffect
  BY <1>4 DEF UciCommitFails, Goto
<1>5. CASE ReloadConfig
  BY <1>5 DEF ReloadConfig, Goto
<1>6. CASE GoLive
  BY <1>6 DEF GoLive, Unlock, TypeOK
<1>7. CASE Finalise
  BY <1>7 DEF Finalise, Unlock
<1>8. CASE DropStaged
  BY <1>8 DEF DropStaged, Goto
<1>9. ASSUME NEW D \in SUBSET Packages, DropStagedFails(D) PROVE DaemonEffect
  BY <1>9 DEF DropStagedFails, RevertReturns
<1>10. CASE Unpack
  BY <1>10 DEF Unpack, Goto
<1>11. ASSUME NEW D \in SUBSET Packages, UnpackFails(D) PROVE DaemonEffect
  BY <1>11 DEF UnpackFails, RevertReturns
<1>12. CASE ReloadBack
  BY <1>12 DEF ReloadBack, RevertReturns
<1>13. CASE CommitFailed
  BY <1>13 DEF CommitFailed, Unlock
<1>14. CASE RevertLocked
  BY <1>14 DEF RevertLocked, Unlock, ClearJournal
<1>15. CASE Recovered
  BY <1>15 DEF Recovered, Unlock
<1>16. CASE Start
  BY <1>16 DEF Start, FreshProcess
<1>17. CASE NothingToRecover
  BY <1>17 DEF NothingToRecover, Unlock
<1>18. CASE RecoverPending
  BY <1>18 DEF RecoverPending, Unlock
<1>19. ASSUME NEW v \in Values, Stage(v) PROVE DaemonEffect
  BY <1>19 DEF Stage
<1>20. CASE Apply
  BY <1>20 DEF Apply, Lock
<1>21. ASSUME NEW t \in Tokens, Confirm(t) PROVE DaemonEffect
  BY <1>21 DEF Confirm, ClearJournal
<1>22. ASSUME NEW t \in Tokens, Expire(t) PROVE DaemonEffect
  BY <1>22 DEF Expire
<1>23. ASSUME NEW t \in Tokens, AutoRevert(t) PROVE DaemonEffect
  BY <1>23 DEF AutoRevert, Lock
<1>24. CASE Revert
  BY <1>24 DEF Revert, Lock
<1>25. ASSUME NEW r \in BOOLEAN, Crash(r) PROVE DaemonEffect
  BY <1>25 DEF Crash, FreshProcess
<1>26. CASE Tick
  BY <1>26, BoundsAssumption DEF Tick, TypeOK, Ids
<1> QED
  BY <1>1, <1>2, <1>3, <1>4, <1>5, <1>6, <1>7, <1>8, <1>9, <1>10, <1>11,
     <1>12, <1>13, <1>14, <1>15, <1>16, <1>17, <1>18, <1>19, <1>20, <1>21,
     <1>22, <1>23, <1>24, <1>25, <1>26
  DEF Daemon, HolderStep, Boot

\* The daemon beside the command takes only steps of ApplyTx.
LEMMA DaemonIsNext == Daemon => Next
BY DEF Daemon, Next, Request

\* A step of the daemon keeps everything; while it is idle it leaves the
\* command alone, and once it is not the story says so.
LEMMA DaemonKeeps == RestoreInv /\ DaemonStep => RestoreInv'
<1> SUFFICES ASSUME RestoreInv, DaemonStep PROVE RestoreInv'
  OBVIOUS
<1> USE DEF commandVars
<1>1. TypeOK /\ ControlInv /\ CommandTypeOK /\ SnapsInv
  BY DEF RestoreInv
<1>2. QuietInv /\ StoryInv /\ UndoInv
  BY DEF RestoreInv
<1>3. Daemon /\ [Next]_vars
  BY DaemonIsNext DEF DaemonStep
<1>4. TypeOK' /\ ControlInv'
  BY <1>1, <1>3, TypeStep, ControlStep
<1>5. DaemonEffect
  BY <1>1, <1>3, DaemonDoes
<1>6. SnapsInv'
  BY <1>5 DEF DaemonEffect
<1>7. CommandTypeOK'
  <2>1. raced' \in BOOLEAN
    BY DEF DaemonStep
  <2>2. begun' \in 0 .. issued'
    BY <1>1, <1>5 DEF DaemonStep, DaemonEffect, CommandTypeOK, TypeOK
  <2> QED
    BY <1>1, <2>1, <2>2 DEF DaemonStep, CommandTypeOK
<1>8. QuietInv'
  <2> SUFFICES ASSUME ~raced' PROVE DiskInv' /\ NetInv' /\ (rpc' # "off" => ~Busy')
    BY DEF QuietInv
  <2>1. ~raced /\ (rpc # "off" => ~Busy') /\ rpc' = rpc
    BY DEF DaemonStep
  <2> QED
    BY <1>1, <1>2, <1>3, <2>1, DiskStep, NetStep DEF QuietInv
<1>9. StoryInv'
  <2>1. rpc' # "off" => restored' = Gone /\ stopped' = Gone
    BY <1>2 DEF DaemonStep, StoryInv
  <2>2. ASSUME (rpc' \in {"write", "reload"} /\ ~warned') \/ restored' # Gone
        PROVE  Staged' \subseteq newer'
    <3>1. Staged \subseteq newer
      BY <1>2, <2>2 DEF DaemonStep, StoryInv
    <3>2. newer' = newer \cup {p \in Packages : draft'[p] # draft[p]}
      BY DEF DaemonStep
    <3> QED
      BY <3>1, <3>2 DEF Staged
  <2>3. ASSUME rpc' \in {"undo", "drop", "write", "reload"},
               ~warned', issued' = begun', ~force' \/ rpc' = "reload"
        PROVE  journal' = NoRec
    <3>1. issued' = issued
      BY <1>1, <1>5, <2>3 DEF DaemonStep, DaemonEffect, CommandTypeOK, TypeOK
    <3>2. journal = NoRec
      BY <1>2, <2>3, <3>1 DEF DaemonStep, StoryInv
    <3> QED
      BY <1>5, <3>1, <3>2 DEF DaemonEffect
  <2>4. ASSUME restored' # Gone
        PROVE  Part(conf') = restored' /\ journal' = NoRec /\ op' # "recover"
    <3>1. restored' = restored /\ issued' = issued
          /\ (conf' = conf \/ op = "recover")
      BY <2>4 DEF DaemonStep
    <3>2. Part(conf) = restored /\ journal = NoRec /\ op # "recover"
      BY <1>2, <2>4, <3>1 DEF StoryInv
    <3> QED
      BY <1>5, <3>1, <3>2 DEF DaemonEffect, Part
  <2> QED
    BY <2>1, <2>2, <2>3, <2>4 DEF StoryInv, Part
<1>10. UndoInv'
  <2>1. ASSUME rpc' \in {"drop", "write"}, undo' # NoSnap, undo'.kept, ~raced'
        PROVE  NewestIs(undo.data)'
    <3>1. rpc' = rpc /\ undo' = undo /\ ~raced
      BY <2>1 DEF DaemonStep
    <3>2. NewestIs(undo.data) /\ ~Busy
      BY <1>2, <2>1, <3>1 DEF UndoInv, QuietInv
    <3>3. conf' = conf /\ snaps' = snaps
      BY <1>5, <3>2 DEF DaemonEffect, Busy
    <3> QED
      BY <3>1, <3>2, <3>3 DEF NewestIs
  <2>2. ASSUME stopped' # Gone PROVE NewestIs(stopped)'
    <3>1. conf' = conf /\ snaps' = snaps /\ stopped' = stopped
      BY <2>2 DEF DaemonStep
    <3> QED
      BY <1>2, <2>2, <3>1 DEF UndoInv, NewestIs
  <2> QED
    BY <2>1, <2>2 DEF UndoInv
<1> QED
  BY <1>4, <1>6, <1>7, <1>8, <1>9, <1>10 DEF RestoreInv

-----------------------------------------------------------------------------
(***************************************************************************)
(* The steps of the command.                                               *)
(***************************************************************************)
Command ==
  \/ \E f \in BOOLEAN : ReadPoints(f)
  \/ CheckPending
  \/ KeepUndo
  \/ DropDraft
  \/ \E p \in Packages : WriteFile(p)
  \/ WriteFails
  \/ ClearPending
  \/ Reload
  \/ Killed

\* The command keeps what the daemon believes about itself: it touches neither
\* the coordinator's memory nor the call that holds the mutex.
LEMMA CommandAlone ==
  ASSUME Command
  PROVE  /\ UNCHANGED <<coordVars, timerVars, callVars, clock, issued, tried,
                        breach, admitted>>
         /\ journal' \in {journal, NoRec}
         /\ raced' \/ Watch
<1> USE DEF vars, uciVars, diskVars, coordVars, timerVars, callVars, boundVars,
            historyVars, Watch
<1>1. ASSUME NEW f \in BOOLEAN, ReadPoints(f)
      PROVE  /\ UNCHANGED <<coordVars, timerVars, callVars, clock, issued, tried,
                            breach, admitted>>
             /\ journal' \in {journal, NoRec} /\ (raced' \/ Watch)
  BY <1>1 DEF ReadPoints
<1>2. CASE CheckPending
  BY <1>2 DEF CheckPending
<1>3. CASE KeepUndo
  BY <1>3 DEF KeepUndo
<1>4. CASE DropDraft
  BY <1>4 DEF DropDraft
<1>5. ASSUME NEW p \in Packages, WriteFile(p)
      PROVE  /\ UNCHANGED <<coordVars, timerVars, callVars, clock, issued, tried,
                            breach, admitted>>
             /\ journal' \in {journal, NoRec} /\ (raced' \/ Watch)
  BY <1>5 DEF WriteFile
<1>6. CASE WriteFails
  BY <1>6 DEF WriteFails
<1>7. CASE ClearPending
  BY <1>7 DEF ClearPending
<1>8. CASE Reload
  BY <1>8 DEF Reload
<1>9. CASE Killed
  BY <1>9 DEF Killed
<1> QED
  BY <1>1, <1>2, <1>3, <1>4, <1>5, <1>6, <1>7, <1>8, <1>9 DEF Command

\* What the command writes is well-formed, and it writes nothing from the future.
LEMMA CommandTypes ==
  ASSUME RestoreInv, Command
  PROVE  TypeOK' /\ CommandTypeOK' /\ SnapsInv'
<1> DEFINE Types == TypeOK' /\ CommandTypeOK' /\ SnapsInv'
<1>0. TypeOK /\ CommandTypeOK /\ SnapsInv
  BY DEF RestoreInv
<1> USE <1>0, SentinelsAssumption
<1> USE DEF vars, uciVars, diskVars, coordVars, timerVars, callVars, boundVars,
            historyVars, Watch, Step, SnapsInv, CommandSteps
<1>1. ASSUME NEW f \in BOOLEAN, ReadPoints(f) PROVE Types
  <2>1. PICK i \in Points : point' = snaps[i] /\ left' = Differs(snaps[i], conf)
    BY <1>1 DEF ReadPoints, Chosen
  <2>2. point' \in Confs /\ left' \subseteq Written
    BY <2>1 DEF Points, Differs, TypeOK
  <2>3. begun' \in 0 .. issued'
    BY <1>1 DEF ReadPoints, TypeOK
  <2> QED
    BY <1>1, <2>2, <2>3 DEF ReadPoints, TypeOK, CommandTypeOK
<1>2. CASE CheckPending
  <2>1. faults' \in 0 .. MaxFaults /\ warned' \in BOOLEAN
    BY <1>2, FaultType DEF CheckPending, CommandTypeOK
  <2> QED
    BY <1>2, <2>1 DEF CheckPending, TypeOK, CommandTypeOK
<1>3. CASE KeepUndo
  <2>1. snaps' \in [Ids -> Confs \cup {Torn, Gone}] /\ faults' \in 0 .. MaxFaults
    BY <1>3, PersistType, FaultType DEF KeepUndo, TypeOK
  <2>2. SnapsInv'
    BY <1>3, PersistKeepsNewest, BoundsAssumption
    DEF KeepUndo, PersistFails, TypeOK, Ids
  <2>3. clock \in Ids /\ conf \in Confs /\ warned \in BOOLEAN
        /\ undo \in Snapshots \cup {NoSnap}
    BY DEF TypeOK, CommandTypeOK
  <2>4. undo' \in Snapshots \cup {NoSnap}
    <3>1. \A k \in BOOLEAN : [id |-> clock, data |-> conf, kept |-> k] \in Snapshots
      BY <2>3 DEF Snapshots
    <3>2. \/ \E k \in BOOLEAN : undo' = [id |-> clock, data |-> conf, kept |-> k]
          \/ undo' = undo
      BY <1>3 DEF KeepUndo
    <3> QED
      BY <2>3, <3>1, <3>2
  <2>5. warned' \in BOOLEAN
    BY <1>3, <2>3 DEF KeepUndo
  <2> QED
    BY <1>3, <2>1, <2>2, <2>4, <2>5 DEF KeepUndo, TypeOK, CommandTypeOK
<1>4. CASE DropDraft
  <2>1. draft' \in Drafts /\ faults' \in 0 .. MaxFaults /\ warned' \in BOOLEAN
    BY <1>4, MixType, FaultType DEF DropDraft, CommandTypeOK
  <2> QED
    BY <1>4, <2>1 DEF DropDraft, TypeOK, CommandTypeOK
<1>5. ASSUME NEW p \in Packages, WriteFile(p) PROVE Types
  <2>1. point \in Confs
    BY <1>5 DEF WriteFile, CommandTypeOK
  <2>2. conf' \in Confs /\ accepted' \in Confs
    BY <1>5, <2>1 DEF WriteFile, TypeOK, Confs
  <2> QED
    BY <1>5, <2>2 DEF WriteFile, TypeOK, CommandTypeOK
<1>6. CASE WriteFails
  BY <1>6, FaultType DEF WriteFails, TypeOK, CommandTypeOK
<1>7. CASE ClearPending
  <2>1. journal' \in Records \cup {NoRec} /\ faults' \in 0 .. MaxFaults
        /\ warned' \in BOOLEAN
    BY <1>7, FaultType DEF ClearPending, TypeOK, CommandTypeOK
  <2> QED
    BY <1>7, <2>1 DEF ClearPending, TypeOK, CommandTypeOK
<1>8. CASE Reload
  BY <1>8 DEF Reload, TypeOK, CommandTypeOK
<1>9. CASE Killed
  BY <1>9, FaultType DEF Killed, TypeOK, CommandTypeOK
<1> QED
  BY <1>1, <1>2, <1>3, <1>4, <1>5, <1>6, <1>7, <1>8, <1>9 DEF Command

\* What the command does to /etc/config it does to what the operator accepts.
LEMMA CommandAccepts ==
  ASSUME RestoreInv, Command, conf = accepted
  PROVE  conf' = accepted'
<1> USE DEF vars, uciVars, historyVars
<1>1. ASSUME NEW p \in Packages, WriteFile(p) PROVE conf' = accepted'
  BY <1>1 DEF WriteFile
<1>2. ASSUME NEW f \in BOOLEAN, ReadPoints(f) PROVE conf' = accepted'
  BY <1>2 DEF ReadPoints
<1> QED
  BY <1>1, <1>2 DEF Command, CheckPending, KeepUndo, DropDraft, WriteFails,
                    ClearPending, Reload, Killed

\* A command that met an idle daemon leaves it idle, with the way back known.
LEMMA CommandQuiet ==
  ASSUME RestoreInv, Command, SnapsInv'
  PROVE  ControlInv' /\ QuietInv'
<1> USE DEF coordVars, callVars
<1>1. ControlInv /\ QuietInv
  BY DEF RestoreInv
<1>2. /\ UNCHANGED <<coordVars, timerVars, callVars, clock, issued, tried,
                     breach, admitted>>
      /\ journal' \in {journal, NoRec} /\ (raced' \/ Watch)
  BY CommandAlone
<1>3. ControlInv'
  BY <1>1, <1>2 DEF ControlInv
<1>4. QuietInv'
  <2> SUFFICES ASSUME ~raced' PROVE DiskInv' /\ NetInv' /\ ~Busy'
    BY DEF QuietInv
  <2>1. ~raced /\ ~Busy /\ NetInv
    BY <1>1, <1>2 DEF Watch, QuietInv
  <2>2. pc \in {"free", "down"} /\ phase # "awaiting_confirm" /\ journal = NoRec
    BY <2>1 DEF Busy
  <2>3. op = "none" /\ journal' = NoRec
    BY <1>1, <1>2, <2>2 DEF ControlInv
  <2>4. DiskInv'
    BY <1>2, <2>2, <2>3 DEF DiskInv, SnapsInv
  <2>5. breach = {} => conf = accepted /\ (pc = "free" => phase # "revert_failed")
    BY <2>1, <2>2 DEF NetInv, WayBack, Settled, AfterRestart
  <2>6. breach = {} => conf' = accepted'
    BY <2>5, CommandAccepts
  <2>7. NetInv'
    BY <1>2, <2>2, <2>3, <2>5, <2>6
    DEF NetInv, WayBack, Settled, AfterRestart, InRevert
  <2> QED
    BY <1>2, <2>2, <2>3, <2>4, <2>7 DEF Busy
<1> QED
  BY <1>3, <1>4

\* A command that warns of nothing has dropped the old draft and left no record
\* by the time it ends.
LEMMA CommandStory ==
  ASSUME RestoreInv, Command
  PROVE  StoryInv'
<1>0. TypeOK /\ ControlInv /\ CommandTypeOK /\ StoryInv
  BY DEF RestoreInv
<1> USE <1>0
<1> USE DEF StoryInv, Step, Staged, vars, uciVars, diskVars, coordVars, timerVars,
            callVars, boundVars, historyVars
<1>1. ASSUME NEW f \in BOOLEAN, ReadPoints(f) PROVE StoryInv'
  BY <1>1 DEF ReadPoints
<1>2. CASE CheckPending
  BY <1>2 DEF CheckPending
<1>3. CASE KeepUndo
  BY <1>3 DEF KeepUndo
<1>4. CASE DropDraft
  <2>1. ~warned' => Staged' = {}
    BY <1>4 DEF DropDraft, Mix, NoDraft
  <2> QED
    BY <1>4, <2>1 DEF DropDraft
<1>5. ASSUME NEW p \in Packages, WriteFile(p) PROVE StoryInv'
  BY <1>5 DEF WriteFile
<1>6. CASE WriteFails
  BY <1>6 DEF WriteFails
<1>7. CASE ClearPending
  BY <1>7 DEF ClearPending
<1>8. CASE Reload
  <2>1. restored' # Gone => journal = NoRec /\ op # "recover" /\ ~warned
    BY <1>8 DEF Reload, ControlInv
  <2>2. restored' # Gone => Part(conf)' = restored'
    BY <1>8 DEF Reload, Part
  <2> QED
    BY <1>8, <2>1, <2>2 DEF Reload
<1>9. CASE Killed
  BY <1>9 DEF Killed
<1> QED
  BY <1>1, <1>2, <1>3, <1>4, <1>5, <1>6, <1>7, <1>8, <1>9 DEF Command

\* The way back is the newest snapshot from the moment it is kept: the command
\* writes no other, and no Wi-Fi.
LEMMA CommandUndo ==
  ASSUME RestoreInv, Command
  PROVE  UndoInv'
<1>0. TypeOK /\ CommandTypeOK /\ SnapsInv /\ StoryInv /\ UndoInv
  BY DEF RestoreInv
<1> DEFINE Way == rpc \in {"drop", "write"} /\ undo # NoSnap /\ undo.kept /\ ~raced
<1>1. ASSUME UNCHANGED <<conf, snaps, undo, stopped>>, Way' => Way
      PROVE  UndoInv'
  BY <1>0, <1>1 DEF UndoInv, NewestIs
<1>2. raced => (raced' \/ ~Watch)
  BY DEF Watch
<1> USE DEF Step, vars, uciVars, diskVars, boundVars, historyVars
<1>3. ASSUME NEW f \in BOOLEAN, ReadPoints(f) PROVE UndoInv'
  BY <1>3 DEF ReadPoints, UndoInv
<1>4. CASE CheckPending
  BY <1>1, <1>4 DEF CheckPending
<1>5. CASE KeepUndo
  <2>1. stopped' = Gone
    BY <1>0, <1>5 DEF KeepUndo, StoryInv
  <2>2. ASSUME Way' PROVE NewestIs(undo.data)'
    <3>1. undo = NoSnap
      BY <1>0, <1>5 DEF KeepUndo, CommandTypeOK
    <3>2. Persist(clock, conf) /\ undo'.data = conf
      BY <1>5, <2>2, <3>1 DEF KeepUndo
    <3>3. snaps'[clock] = conf /\ \A i \in Ids : snaps'[i] # Gone => i <= clock
      BY <1>0, <3>2, PersistKeepsNewest DEF SnapsInv
    <3>4. clock \in Ids /\ conf \in Confs /\ conf' = conf
      BY <1>0, <1>5 DEF KeepUndo, TypeOK
    <3>5. \A j \in Ids : j > clock => snaps'[j] = Gone
      BY <3>3, <3>4, BoundsAssumption DEF Ids
    <3> QED
      BY <3>2, <3>3, <3>4, <3>5 DEF NewestIs
  <2> QED
    BY <2>1, <2>2 DEF UndoInv
<1>6. CASE DropDraft
  <2>1. UNCHANGED <<conf, snaps, undo, stopped>> /\ (Way' => Way)
    BY <1>2, <1>6 DEF DropDraft
  <2> QED
    BY <1>1, <2>1
<1>7. ASSUME NEW p \in Packages, WriteFile(p) PROVE UndoInv'
  <2>1. conf'[Wireless] = conf[Wireless]
    BY <1>0, <1>7, PackagesAssumption
    DEF WriteFile, CommandTypeOK, Written, TypeOK, Confs
  <2>2. UNCHANGED <<snaps, undo, stopped>> /\ (Way' => Way)
    BY <1>2, <1>7 DEF WriteFile
  <2> QED
    BY <1>0, <2>1, <2>2 DEF UndoInv, NewestIs
<1>8. CASE WriteFails
  <2>1. UNCHANGED <<conf, snaps, undo>> /\ rpc' = "off"
    BY <1>8 DEF WriteFails
  <2>2. stopped' # Gone => Way /\ stopped' = undo.data
    BY <1>8 DEF WriteFails
  <2> QED
    BY <1>0, <2>1, <2>2 DEF UndoInv, NewestIs
<1>9. CASE ClearPending
  <2>1. UNCHANGED <<conf, snaps, undo, stopped>> /\ rpc' = "reload"
    BY <1>9 DEF ClearPending
  <2> QED
    BY <1>1, <2>1
<1>10. CASE Reload
  <2>1. UNCHANGED <<conf, snaps, undo, stopped>> /\ rpc' = "off"
    BY <1>10 DEF Reload
  <2> QED
    BY <1>1, <2>1
<1>11. CASE Killed
  <2>1. UNCHANGED <<conf, snaps, undo, stopped>> /\ rpc' = "off"
    BY <1>11 DEF Killed
  <2> QED
    BY <1>1, <2>1
<1> QED
  BY <1>3, <1>4, <1>5, <1>6, <1>7, <1>8, <1>9, <1>10, <1>11 DEF Command

-----------------------------------------------------------------------------
\* The router starts on an empty disk with no command given.
LEMMA InitRestoreInv == RestoreInit => RestoreInv
<1> SUFFICES ASSUME RestoreInit PROVE RestoreInv
  OBVIOUS
<1>1. IInv /\ Init
  BY InitIInv DEF RestoreInit
<1>2. CommandTypeOK
  <2>1. begun \in 0 .. issued
    BY <1>1 DEF RestoreInit, Init
  <2> QED
    BY <2>1 DEF RestoreInit, CommandTypeOK, CommandSteps
<1>3. SnapsInv /\ QuietInv
  BY <1>1 DEF IInv, DiskInv, SnapsInv, QuietInv, RestoreInit
<1>4. StoryInv /\ UndoInv
  BY DEF RestoreInit, StoryInv, UndoInv
<1> QED
  BY <1>1, <1>2, <1>3, <1>4 DEF IInv, RestoreInv

\* Whatever order the steps of the daemon and of the command come in.
LEMMA StepRestoreInv == RestoreInv /\ [RestoreNext]_routerVars => RestoreInv'
<1> SUFFICES ASSUME RestoreInv, [RestoreNext]_routerVars PROVE RestoreInv'
  OBVIOUS
<1>1. CASE DaemonStep
  BY <1>1, DaemonKeeps
<1>2. CASE Command
  <2>1. TypeOK' /\ CommandTypeOK' /\ SnapsInv'
    BY <1>2, CommandTypes
  <2>2. ControlInv' /\ QuietInv'
    BY <1>2, <2>1, CommandQuiet
  <2> QED
    BY <1>2, <2>1, <2>2, CommandStory, CommandUndo DEF RestoreInv
<1>3. CASE UNCHANGED routerVars
  <2>1. UNCHANGED vars
    BY <1>3 DEF routerVars
  <2>2. TypeOK' /\ ControlInv' /\ (DiskInv /\ NetInv => DiskInv' /\ NetInv')
    BY <2>1, TypeStep, ControlStep, DiskStep, NetStep DEF RestoreInv
  <2>3. QuietInv'
    BY <1>3, <2>1, <2>2
    DEF RestoreInv, QuietInv, Busy, routerVars, restoreVars, commandVars, storyVars,
        vars, diskVars, coordVars, callVars
  <2>4. CommandTypeOK' /\ SnapsInv' /\ StoryInv' /\ UndoInv'
    BY <1>3
    DEF RestoreInv, CommandTypeOK, SnapsInv, StoryInv, UndoInv, NewestIs, Staged,
        Part, routerVars, restoreVars, commandVars, storyVars, vars, uciVars,
        diskVars, coordVars, callVars, boundVars
  <2> QED
    BY <2>2, <2>3, <2>4 DEF RestoreInv
<1> QED
  BY <1>1, <1>2, <1>3 DEF RestoreNext, Command

\* RestoreInductive: the invariant of daemon and command together holds in every
\* interleaving of the two, deaths of either and failing OS calls included.
THEOREM RestoreInductive == RestoreSpec => []RestoreInv
BY InitRestoreInv, StepRestoreInv, PTL DEF RestoreSpec

\* RestoreIsLasting: what an unwarned `-restore-network' put back is not undone by
\* any later start of the daemon, until a new change goes live.
THEOREM RestoreIsLasting == RestoreSpec => []RestoredStays
<1>1. RestoreInv => RestoredStays
  BY DEF RestoreInv, StoryInv, RestoredStays
<1> QED
  BY <1>1, RestoreInductive, PTL

\* RestoreDropsTheDraft: and nothing staged before it waits for the next apply.
THEOREM RestoreDropsTheDraft == RestoreSpec => []NothingOldStaged
<1>1. RestoreInv => NothingOldStaged
  BY DEF RestoreInv, StoryInv, NothingOldStaged
<1> QED
  BY <1>1, RestoreInductive, PTL

\* RestoreKeepsThePromise: a command that met an idle daemon, or none, leaves the
\* router on what was last confirmed, made final or restored.
THEOREM RestoreKeepsThePromise == RestoreSpec => []SettledUnlessRaced
<1>1. RestoreInv => SettledUnlessRaced
  BY DEF RestoreInv, QuietInv, NetInv, WayBack, SettledUnlessRaced, SettledIsAccepted
<1> QED
  BY <1>1, RestoreInductive, PTL

\* StoppedComesBack: after a command that stopped half-way the next one finds what
\* was being replaced: it is the newest snapshot and the only one it can choose.
THEOREM StoppedComesBack == RestoreSpec => []StoppedIsUndone
<1>1. RestoreInv => StoppedIsUndone
  <2> SUFFICES ASSUME RestoreInv, stopped # Gone, conf # stopped,
                      NEW i \in Chosen
               PROVE  snaps[i] = stopped
    BY DEF StoppedIsUndone
  <2>1. TypeOK /\ NewestIs(stopped)
    BY DEF RestoreInv, UndoInv
  <2>2. PICK u \in Ids : snaps[u] = stopped /\ \A j \in Ids : j > u => snaps[j] = Gone
    BY <2>1 DEF NewestIs
  <2>3. u \in Points /\ i \in Points /\ i \in Ids
    BY <2>1, <2>2, SentinelsAssumption DEF Points, NewestIs, Chosen
  <2>4. ~(i > u)
    BY <2>2, <2>3 DEF Points
  <2>5. Differs(stopped, conf) # {}
    <3>1. stopped \in Confs /\ conf \in Confs /\ conf[Wireless] = stopped[Wireless]
      BY <2>1 DEF TypeOK, NewestIs
    <3>2. PICK p \in Packages : stopped[p] # conf[p]
      BY <3>1 DEF Confs
    <3> QED
      BY <3>1, <3>2 DEF Differs, Written
  <2>6. ~(u > i)
    BY <2>2, <2>3, <2>5 DEF Chosen
  <2>7. i = u
    BY <2>2, <2>3, <2>4, <2>6, BoundsAssumption DEF Ids
  <2> QED
    BY <2>2, <2>7
<1> QED
  BY <1>1, RestoreInductive, PTL
=============================================================================
