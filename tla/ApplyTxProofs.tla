---------------------------- MODULE ApplyTxProofs ----------------------------
(***************************************************************************)
(* The invariants of ApplyTx, proved for every set of configuration files, *)
(* every number of transactions and faults, and every snapshot limit.      *)
(***************************************************************************)
EXTENDS ApplyTx, FiniteSetTheorems, TLAPS

InRevert == {"drop", "unpack", "reloadBack", "done"}

(***************************************************************************)
(* Who can hold the mutex at which step, and what the coordinator's fields *)
(* are then.                                                               *)
(***************************************************************************)
ControlInv ==
  /\ (op = "none") <=> (pc \in {"down", "boot", "free"})
  /\ op \in {"revert", "watchdog", "recover"} => pc \in InRevert
  /\ op = "none" => cur = NoSnap /\ ~failed
  /\ pc \in {"commit", "reload", "golive"} \cup InRevert => cur # NoSnap
  /\ pc \in {"commit", "reload", "golive"} => cur.data \in Confs
  /\ pc \in {"down", "boot"} \/ op = "recover" => phase = "idle"
  /\ op \in {"apply", "applyNow"} => phase # "awaiting_confirm"
  /\ op \in {"revert", "watchdog"} => phase = "awaiting_confirm" /\ cur = snapshot
  /\ phase = "awaiting_confirm" => snapshot # NoSnap /\ token \in Tokens
  /\ phase # "awaiting_confirm" => token = NoToken
  /\ op = "apply" => issued < MaxTx

(***************************************************************************)
(* What is on disk while a transaction goes live, or is undone at a start. *)
(***************************************************************************)
DiskInv ==
  /\ \A i \in Ids : snaps[i] # Gone => i <= clock
  /\ pc \in {"commit", "reload", "golive"} /\ cur.kept => snaps[cur.id] = cur.data
  /\ phase = "awaiting_confirm" /\ ~lastErr /\ snapshot.kept
     => /\ journal = [snap |-> snapshot.id, token |-> token]
        /\ snaps[snapshot.id] = snapshot.data
  /\ op = "recover" => journal # NoRec /\ cur.data = snaps[journal.snap]

(***************************************************************************)
(* The timers.                                                             *)
(***************************************************************************)
TimerInv ==
  /\ armed \cup firing \subseteq 1 .. issued
  /\ armed \cap firing = {}
  /\ phase = "awaiting_confirm" /\ pc = "free" => tried[token] = conf
  /\ Watched
  /\ NoEarlyRevert

(***************************************************************************)
(* As long as the net is whole, every point of every call knows the way    *)
(* back to the accepted configuration.                                     *)
(***************************************************************************)
WayBack ==
  /\ Settled => conf = accepted /\ journal = NoRec /\ phase # "revert_failed"
  /\ phase = "awaiting_confirm" => snapshot.data = accepted
  /\ op \in {"apply", "applyNow"} => journal = NoRec /\ phase # "revert_failed"
  /\ pc \in {"snapshot", "commit"} => conf = accepted
  /\ pc \in {"commit", "reload", "golive"} \cup InRevert => cur.data = accepted
  /\ op = "applyNow" /\ pc \in {"snapshot", "commit"}
     => \A p \in Packages \ {Wireless} : draft[p] = None
  /\ op = "applyNow" /\ pc \in {"reload", "golive"}
     => \A p \in Packages \ {Wireless} : conf[p] = accepted[p]
  /\ pc = "reloadBack" \/ (pc = "done" /\ ~failed) => conf = accepted
  /\ pc \in {"down", "boot"} \/ op = "recover" => AfterRestart = accepted

NetInv == breach = {} => WayBack

IInv == TypeOK /\ ControlInv /\ DiskInv /\ TimerInv /\ NetInv

-----------------------------------------------------------------------------
(***************************************************************************)
(* Facts about the helpers.                                                *)
(***************************************************************************)
LEMMA FaultType ==
  ASSUME TypeOK, Fault \/ NoFault
  PROVE  faults' \in 0 .. MaxFaults
BY BoundsAssumption DEF TypeOK, Fault, NoFault

\* Putting some files of one configuration into another gives a configuration;
\* dropping some files of a draft, or committing staged ones, likewise.
LEMMA MixType ==
  ASSUME TypeOK, NEW D \in SUBSET Packages
  PROVE  /\ \A f \in Confs : Mix(conf, f, D) \in Confs
         /\ Mix(conf, draft, Staged \cap D) \in Confs
         /\ Mix(conf, draft, Staged) \in Confs
         /\ Mix(draft, NoDraft, D) \in Drafts
         /\ NoDraft \in Drafts
BY DEF TypeOK, Mix, NoDraft, Staged, Confs, Drafts

\* A new snapshot file leaves a well-formed directory in which the newest file
\* is the one just written, provided no file is from the future.
LEMMA PersistType ==
  ASSUME TypeOK, Persist(clock, conf) \/ PersistFails(clock)
  PROVE  snaps' \in [Ids -> Confs \cup {Torn, Gone}] /\ (Fault \/ NoFault)
<1>1. CASE PersistFails(clock)
  BY <1>1 DEF PersistFails, TypeOK
<1>2. CASE Persist(clock, conf)
  <2> DEFINE written == [snaps EXCEPT ![clock] = conf]
             ids == {i \in Ids : written[i] # Gone}
  <2>1. written \in [Ids -> Confs \cup {Torn, Gone}]
    BY DEF TypeOK
  <2>2. PICK left \in SUBSET ids :
          /\ IF left = Newest(ids) THEN NoFault ELSE Fault
          /\ snaps' = [i \in Ids |-> IF i \in left THEN written[i] ELSE Gone]
    BY <1>2 DEF Persist
  <2> QED
    BY <2>1, <2>2
<1> QED
  BY <1>1, <1>2

\* The snapshot just written is among the ones prune leaves.
LEMMA PersistKeepsNewest ==
  ASSUME TypeOK, \A i \in Ids : snaps[i] # Gone => i <= clock,
         Persist(clock, conf)
  PROVE  /\ snaps'[clock] = conf
         /\ \A i \in Ids : snaps'[i] # Gone => i <= clock
<1> DEFINE written == [snaps EXCEPT ![clock] = conf]
           ids == {i \in Ids : written[i] # Gone}
<1>1. PICK left \in SUBSET ids :
        /\ Newest(ids) \subseteq left
        /\ snaps' = [i \in Ids |-> IF i \in left THEN written[i] ELSE Gone]
  BY DEF Persist
<1>2. /\ clock \in Ids
      /\ written[clock] = conf
      /\ \A i \in Ids : i # clock => written[i] = snaps[i]
  BY DEF TypeOK
<1>3. clock \in ids
  BY <1>2, SentinelsAssumption DEF TypeOK
<1>4. \A i \in ids : i <= clock
  BY <1>2, BoundsAssumption DEF Ids
<1>5. {j \in ids : j > clock} = {}
  BY <1>2, <1>4, BoundsAssumption DEF Ids
<1>6. Cardinality({j \in ids : j > clock}) = 0
  BY <1>5, FS_EmptySet
<1>7. clock \in Newest(ids)
  BY <1>3, <1>6, BoundsAssumption DEF Newest
<1>8. snaps'[clock] = conf
  BY <1>1, <1>2, <1>7
<1>9. \A i \in Ids : snaps'[i] # Gone => i \in ids
  BY <1>1
<1> QED
  BY <1>4, <1>8, <1>9

(***************************************************************************)
(* Types and control are preserved together: a restore reads cur.data,     *)
(* which is a configuration only where control says so.                    *)
(***************************************************************************)
LEMMA TypeStep == TypeOK /\ ControlInv /\ [Next]_vars => TypeOK'
<1> SUFFICES ASSUME TypeOK, ControlInv, [Next]_vars PROVE TypeOK'
  OBVIOUS
<1> USE PackagesAssumption DEF NoToken
<1> USE DEF uciVars, diskVars, coordVars, timerVars, callVars, boundVars,
            historyVars
<1>1. CASE TakeSnapshot
  <2>1. PICK kept \in BOOLEAN :
          /\ IF kept THEN Persist(clock, conf) ELSE PersistFails(clock)
          /\ cur' = [id |-> clock, data |-> conf, kept |-> kept]
    BY <1>1 DEF TakeSnapshot
  <2>2. snaps' \in [Ids -> Confs \cup {Torn, Gone}] /\ faults' \in 0 .. MaxFaults
    BY <2>1, PersistType, FaultType
  <2>3. cur' \in Snapshots
    BY <2>1 DEF Snapshots, TypeOK
  <2> QED
    BY <1>1, <2>2, <2>3 DEF TakeSnapshot, TypeOK, Labels
<1>2. CASE SnapshotFails
  <2>1. faults' \in 0 .. MaxFaults
    BY <1>2, FaultType DEF SnapshotFails
  <2>2. lastErr' \in BOOLEAN
    BY <1>2 DEF SnapshotFails, TypeOK
  <2> QED
    BY <1>2, <2>1, <2>2
    DEF SnapshotFails, Unlock, TypeOK, Labels, Ops, Phases
<1>3. CASE UciCommit
  BY <1>3, MixType DEF UciCommit, Goto, TypeOK, Labels
<1>4. ASSUME NEW D \in SUBSET Packages, UciCommitFails(D) PROVE TypeOK'
  BY <1>4, MixType, FaultType DEF UciCommitFails, Goto, TypeOK, Labels
<1>5. CASE ReloadConfig
  BY <1>5, FaultType DEF ReloadConfig, Goto, TypeOK, Labels
<1>6. CASE GoLive
  <2>1. issued + 1 \in Tokens /\ issued + 1 \in 0 .. MaxTx
    BY <1>6, BoundsAssumption DEF GoLive, JournalSave, ArmWatchdog, ControlInv, TypeOK, Tokens
  <2>2. cur \in Snapshots
    BY <1>6 DEF GoLive, JournalSave, ArmWatchdog, ControlInv, TypeOK
  <2>3. [snap |-> cur.id, token |-> issued + 1] \in Records
    BY <2>1, <2>2 DEF Snapshots, Records
  <2>4. faults' \in 0 .. MaxFaults /\ lastErr' \in BOOLEAN
    BY <1>6, FaultType DEF GoLive, JournalSave, ArmWatchdog
  <2>5. journal' \in Records \cup {NoRec}
    BY <1>6, <2>3 DEF GoLive, JournalSave, ArmWatchdog, TypeOK
  <2>6. tried' \in [Tokens -> Confs \cup {Gone}] /\ armed' \subseteq Tokens
    BY <1>6, <2>1 DEF GoLive, JournalSave, ArmWatchdog, TypeOK
  <2> QED
    BY <1>6, <2>1, <2>2, <2>4, <2>5, <2>6
    DEF GoLive, JournalSave, ArmWatchdog, Unlock, TypeOK, Labels, Ops, Phases
<1>7. CASE Finalise
  BY <1>7 DEF Finalise, WithWireless, Unlock, TypeOK, Labels, Ops, Phases, Confs
<1>8. CASE DropStaged
  BY <1>8, MixType DEF DropStaged, Goto, TypeOK, Labels
<1>9. ASSUME NEW D \in SUBSET Packages, DropStagedFails(D) PROVE TypeOK'
  BY <1>9, MixType, FaultType
  DEF DropStagedFails, RevertReturns, TypeOK, Labels
<1>10. CASE Unpack
  <2>1. cur \in Snapshots
    BY <1>10 DEF Unpack, ControlInv, InRevert, TypeOK
  <2>2. cur.data \in Confs
    BY <1>10, <2>1 DEF Unpack, Snapshots
  <2> QED
    BY <1>10, <2>2 DEF Unpack, Goto, TypeOK, Labels
<1>11. ASSUME NEW D \in SUBSET Packages, UnpackFails(D) PROVE TypeOK'
  <2>1. cur \in Snapshots
    BY <1>11 DEF UnpackFails, ControlInv, InRevert, TypeOK
  <2>2. conf' \in Confs
    BY <1>11, <2>1, MixType DEF UnpackFails, Snapshots
  <2>3. faults' \in 0 .. MaxFaults
    BY <1>11, FaultType DEF UnpackFails
  <2> QED
    BY <1>11, <2>2, <2>3 DEF UnpackFails, RevertReturns, TypeOK, Labels
<1>12. CASE ReloadBack
  <2>1. faults' \in 0 .. MaxFaults
    BY <1>12, FaultType DEF ReloadBack
  <2> QED
    BY <1>12, <2>1 DEF ReloadBack, RevertReturns, TypeOK, Labels
<1>13. CASE CommitFailed
  <2>1. breach' \subseteq Breaches
    BY <1>13 DEF CommitFailed, TypeOK, Breaches
  <2> QED
    BY <1>13, <2>1 DEF CommitFailed, Unlock, TypeOK, Labels, Ops, Phases
<1>14. CASE RevertLocked
  <2>1. breach' \subseteq Breaches
    BY <1>14 DEF RevertLocked, TypeOK, Breaches
  <2>2. faults' \in 0 .. MaxFaults
    BY <1>14, FaultType DEF RevertLocked, ClearJournal, NoFault
  <2>3. lastErr' \in BOOLEAN /\ journal' \in Records \cup {NoRec}
    BY <1>14 DEF RevertLocked, ClearJournal, TypeOK
  <2> QED
    BY <1>14, <2>1, <2>2, <2>3
    DEF RevertLocked, Unlock, TypeOK, Labels, Ops, Phases
<1>15. CASE Recovered
  <2>1. breach' \subseteq Breaches
    BY <1>15 DEF Recovered, TypeOK, Breaches
  <2>2. faults' \in 0 .. MaxFaults
    BY <1>15, FaultType DEF Recovered, NoFault
  <2>3. lastErr' \in BOOLEAN /\ journal' \in Records \cup {NoRec}
    BY <1>15 DEF Recovered, TypeOK
  <2> QED
    BY <1>15, <2>1, <2>2, <2>3
    DEF Recovered, Unlock, TypeOK, Labels, Ops, Phases
<1>16. CASE RefuseWhileApplying
  BY <1>16 DEF RefuseWhileApplying, TypeOK
<1>17. ASSUME NEW p \in Packages, NEW v \in Values, LockedStage(p, v)
       PROVE  TypeOK'
  <2>1. faults' \in 0 .. MaxFaults
    BY <1>17, FaultType DEF LockedStage
  <2>2. draft' \in Drafts
    BY <1>17 DEF LockedStage, TypeOK, Drafts
  <2> QED
    BY <1>17, <2>1, <2>2 DEF LockedStage, TypeOK
<1>18. ASSUME NEW v \in Values, Stage(v) PROVE TypeOK'
  BY <1>18 DEF Stage, TypeOK, Drafts
<1>19. ASSUME NEW D \in SUBSET Packages, DiscardStaged(D) PROVE TypeOK'
  BY <1>19, MixType, FaultType DEF DiscardStaged, TypeOK
<1>20. CASE Apply
  BY <1>20 DEF Apply, Lock, TypeOK, Labels, Ops
<1>21. ASSUME NEW v \in Values, ApplyNow(v) PROVE TypeOK'
  <2>1. faults' \in 0 .. MaxFaults
    BY <1>21, FaultType DEF ApplyNow
  <2>2. draft' \in Drafts
    BY <1>21 DEF ApplyNow, TypeOK, Drafts
  <2>3. breach' \subseteq Breaches
    BY <1>21 DEF ApplyNow, TypeOK, Breaches
  <2> QED
    BY <1>21, <2>1, <2>2, <2>3 DEF ApplyNow, Lock, TypeOK, Labels, Ops
<1>22. ASSUME NEW t \in Tokens, Confirm(t) PROVE TypeOK'
  <2>1. breach' \subseteq Breaches
    BY <1>22 DEF Confirm, IsPending, TypeOK, Breaches
  <2>2. faults' \in 0 .. MaxFaults
    BY <1>22, FaultType DEF Confirm, IsPending, ClearJournal
  <2>3. lastErr' \in BOOLEAN /\ journal' \in Records \cup {NoRec}
    BY <1>22 DEF Confirm, IsPending, ClearJournal, TypeOK
  <2> QED
    BY <1>22, <2>1, <2>2, <2>3 DEF Confirm, IsPending, StopWatchdog, TypeOK, Phases
<1>23. CASE Revert
  BY <1>23 DEF Revert, StopWatchdog, Lock, TypeOK, Labels, Ops
<1>24. CASE Start
  BY <1>24 DEF Start, FreshProcess, TypeOK, Labels, Ops, Phases
<1>25. CASE NothingToRecover
  <2>1. breach' \subseteq Breaches /\ faults' \in 0 .. MaxFaults
    BY <1>25, FaultType DEF NothingToRecover, TypeOK, Breaches
  <2> QED
    BY <1>25, <2>1 DEF NothingToRecover, Unlock, TypeOK, Labels, Ops
<1>26. CASE RecoverPending
  <2>1. journal \in Records
    BY <1>26 DEF RecoverPending, LoadSnapshot, TypeOK
  <2>2. journal.snap \in Ids
    BY <2>1 DEF Records
  <2>3. snaps[journal.snap] # Gone =>
          [id |-> journal.snap, data |-> snaps[journal.snap], kept |-> TRUE]
            \in Snapshots
    BY <2>2 DEF Snapshots, TypeOK
  <2>4. breach' \subseteq Breaches
    BY <1>26 DEF RecoverPending, LoadSnapshot, TypeOK, Breaches
  <2>5. lastErr' \in BOOLEAN /\ failed' \in BOOLEAN
    BY <1>26 DEF RecoverPending, LoadSnapshot, Unlock, TypeOK
  <2>6. faults' \in 0 .. MaxFaults
    BY <1>26, FaultType DEF RecoverPending, LoadSnapshot
  <2> QED
    BY <1>26, <2>3, <2>4, <2>5, <2>6
    DEF RecoverPending, LoadSnapshot, Unlock, TypeOK, Labels, Ops, Phases
<1>27. ASSUME NEW t \in Tokens, Expire(t) PROVE TypeOK'
  BY <1>27 DEF Expire, TypeOK
<1>28. ASSUME NEW t \in Tokens, AutoRevert(t) PROVE TypeOK'
  BY <1>28 DEF AutoRevert, IsPending, Lock, TypeOK, Labels, Ops
<1>29. ASSUME NEW r \in BOOLEAN, Crash(r) PROVE TypeOK'
  <2>1. breach' \subseteq Breaches
    BY <1>29 DEF Crash, TypeOK, Breaches
  <2>2. faults' \in 0 .. MaxFaults
    BY <1>29, FaultType DEF Crash
  <2>3. draft' \in Drafts
    BY <1>29, MixType DEF Crash, TypeOK
  <2> QED
    BY <1>29, <2>1, <2>2, <2>3
    DEF Crash, FreshProcess, TypeOK, Labels, Ops, Phases
<1>30. CASE Tick
  BY <1>30, BoundsAssumption DEF Tick, TypeOK, Ids
<1>31. CASE UNCHANGED vars
  BY <1>31 DEF vars, TypeOK
<1>32. ASSUME NEW v \in Values, AccessNotStaged(v) PROVE TypeOK'
  <2>1. faults' \in 0 .. MaxFaults
    BY <1>32, FaultType DEF AccessNotStaged
  <2>2. draft' \in Drafts
    BY <1>32 DEF AccessNotStaged, TypeOK, Drafts
  <2> QED
    BY <1>32, <2>1, <2>2 DEF AccessNotStaged, TypeOK
<1> QED
  BY <1>1, <1>2, <1>3, <1>4, <1>5, <1>6, <1>7, <1>8, <1>9, <1>10, <1>11,
     <1>12, <1>13, <1>14, <1>15, <1>16, <1>17, <1>18, <1>19, <1>20, <1>21,
     <1>22, <1>23, <1>24, <1>25, <1>26, <1>27, <1>28, <1>29, <1>30, <1>31, <1>32
  DEF Next, HolderStep, Request, Boot

\* Control is preserved by every step.
LEMMA ControlStep == TypeOK /\ ControlInv /\ [Next]_vars => ControlInv'
<1> SUFFICES ASSUME TypeOK, ControlInv, [Next]_vars PROVE ControlInv'
  OBVIOUS
<1> USE DEF ControlInv, InRevert, NoToken,
            uciVars, diskVars, coordVars, timerVars, callVars, boundVars,
            historyVars
<1>1. CASE TakeSnapshot
  <2>1. \E kept \in BOOLEAN : cur' = [id |-> clock, data |-> conf, kept |-> kept]
    BY <1>1 DEF TakeSnapshot
  <2>2. cur' \in Snapshots /\ cur'.data = conf
    BY <2>1 DEF TypeOK, Snapshots
  <2> QED
    BY <1>1, <2>2, ZeroValuesAssumption DEF TakeSnapshot, TypeOK
<1>2. CASE SnapshotFails
  BY <1>2 DEF SnapshotFails, Unlock
<1>3. CASE UciCommit
  BY <1>3 DEF UciCommit, Goto
<1>4. ASSUME NEW D \in SUBSET Packages, UciCommitFails(D) PROVE ControlInv'
  BY <1>4 DEF UciCommitFails, Goto
<1>5. CASE ReloadConfig
  BY <1>5 DEF ReloadConfig, Goto
<1>6. CASE GoLive
  <2>1. issued + 1 \in Tokens
    BY <1>6, BoundsAssumption DEF GoLive, JournalSave, ArmWatchdog, TypeOK, Tokens
  <2> QED
    BY <1>6, <2>1 DEF GoLive, JournalSave, ArmWatchdog, Unlock
<1>7. CASE Finalise
  BY <1>7 DEF Finalise, WithWireless, Unlock
<1>8. CASE DropStaged
  BY <1>8 DEF DropStaged, Goto
<1>9. ASSUME NEW D \in SUBSET Packages, DropStagedFails(D) PROVE ControlInv'
  BY <1>9 DEF DropStagedFails, RevertReturns
<1>10. CASE Unpack
  BY <1>10 DEF Unpack, Goto
<1>11. ASSUME NEW D \in SUBSET Packages, UnpackFails(D) PROVE ControlInv'
  BY <1>11 DEF UnpackFails, RevertReturns
<1>12. CASE ReloadBack
  BY <1>12 DEF ReloadBack, RevertReturns
<1>13. CASE CommitFailed
  BY <1>13 DEF CommitFailed, Unlock
<1>14. CASE RevertLocked
  BY <1>14 DEF RevertLocked, Unlock, ClearJournal
<1>15. CASE Recovered
  BY <1>15 DEF Recovered, Unlock
<1>16. CASE RefuseWhileApplying
  BY <1>16 DEF RefuseWhileApplying
<1>17. ASSUME NEW p \in Packages, NEW v \in Values, LockedStage(p, v) PROVE ControlInv'
  BY <1>17 DEF LockedStage
<1>18. ASSUME NEW v \in Values, Stage(v) PROVE ControlInv'
  BY <1>18 DEF Stage
<1>19. ASSUME NEW D \in SUBSET Packages, DiscardStaged(D) PROVE ControlInv'
  BY <1>19 DEF DiscardStaged
<1>20. CASE Apply
  BY <1>20 DEF Apply, Lock
<1>21. ASSUME NEW v \in Values, ApplyNow(v) PROVE ControlInv'
  BY <1>21 DEF ApplyNow, Lock
<1>22. ASSUME NEW t \in Tokens, Confirm(t) PROVE ControlInv'
  BY <1>22 DEF Confirm, IsPending, ClearJournal
<1>23. CASE Revert
  BY <1>23 DEF Revert, Lock
<1>24. CASE Start
  BY <1>24 DEF Start, FreshProcess
<1>25. CASE NothingToRecover
  BY <1>25 DEF NothingToRecover, Unlock
<1>26. CASE RecoverPending
  <2>1. journal.snap \in Ids
    BY <1>26 DEF RecoverPending, LoadSnapshot, TypeOK, Records
  <2>2. snaps[journal.snap] # Gone =>
          [id |-> journal.snap, data |-> snaps[journal.snap], kept |-> TRUE]
            \in Snapshots
    BY <2>1 DEF Snapshots, TypeOK
  <2>3. CASE pc' = "drop"
    <3>1. cur' # NoSnap /\ cur'.data = snaps[journal.snap]
      <4>1. /\ snaps[journal.snap] # Gone
            /\ cur' = [id |-> journal.snap, data |-> snaps[journal.snap],
                       kept |-> TRUE]
        BY <1>26, <2>3 DEF RecoverPending, LoadSnapshot, Unlock
      <4>2. cur' \in Snapshots
        BY <2>2, <4>1
      <4> QED
        BY <4>1, <4>2, ZeroValuesAssumption
    <3> QED
      BY <1>26, <2>3, <3>1 DEF RecoverPending, LoadSnapshot, Unlock
  <2>4. CASE pc' = "free"
    BY <1>26, <2>4 DEF RecoverPending, LoadSnapshot, Unlock
  <2> QED
    BY <1>26, <2>3, <2>4 DEF RecoverPending, LoadSnapshot, Unlock
<1>27. ASSUME NEW t \in Tokens, Expire(t) PROVE ControlInv'
  BY <1>27 DEF Expire
<1>28. ASSUME NEW t \in Tokens, AutoRevert(t) PROVE ControlInv'
  BY <1>28 DEF AutoRevert, IsPending, Lock
<1>29. ASSUME NEW r \in BOOLEAN, Crash(r) PROVE ControlInv'
  BY <1>29 DEF Crash, FreshProcess
<1>30. CASE Tick
  BY <1>30 DEF Tick
<1>31. CASE UNCHANGED vars
  BY <1>31 DEF vars
<1>32. ASSUME NEW v \in Values, AccessNotStaged(v) PROVE ControlInv'
  BY <1>32 DEF AccessNotStaged
<1> QED
  BY <1>1, <1>2, <1>3, <1>4, <1>5, <1>6, <1>7, <1>8, <1>9, <1>10, <1>11,
     <1>12, <1>13, <1>14, <1>15, <1>16, <1>17, <1>18, <1>19, <1>20, <1>21,
     <1>22, <1>23, <1>24, <1>25, <1>26, <1>27, <1>28, <1>29, <1>30, <1>31, <1>32
  DEF Next, HolderStep, Request, Boot

\* What Apply leaves on disk stays there until the transaction is over.
LEMMA DiskStep == TypeOK /\ ControlInv /\ DiskInv /\ [Next]_vars => DiskInv'
<1> SUFFICES ASSUME TypeOK, ControlInv, DiskInv, [Next]_vars PROVE DiskInv'
  OBVIOUS
<1> USE DEF DiskInv, ControlInv, InRevert, uciVars, diskVars, coordVars, timerVars, callVars,
            boundVars, historyVars
<1>1. CASE TakeSnapshot
  <2>1. PICK kept \in BOOLEAN :
          /\ IF kept THEN Persist(clock, conf) ELSE PersistFails(clock)
          /\ cur' = [id |-> clock, data |-> conf, kept |-> kept]
    BY <1>1 DEF TakeSnapshot
  <2>2. clock' = clock /\ op' = op /\ phase' = phase /\ pc' = "commit"
    BY <1>1 DEF TakeSnapshot
  <2>3. phase # "awaiting_confirm" /\ op # "recover"
    BY <1>1 DEF TakeSnapshot, TypeOK, Ops
  <2>4. CASE kept
    BY <2>1, <2>2, <2>3, <2>4, PersistKeepsNewest
  <2>5. CASE ~kept
    <3>1. \A i \in Ids : snaps'[i] # Gone => i <= clock
      BY <2>1, <2>5, BoundsAssumption DEF PersistFails, TypeOK, Ids
    <3> QED
      BY <2>1, <2>2, <2>3, <2>5, <3>1
  <2> QED
    BY <2>4, <2>5
<1>2. CASE SnapshotFails
  BY <1>2 DEF SnapshotFails, Unlock
<1>3. CASE UciCommit
  BY <1>3 DEF UciCommit, Goto
<1>4. ASSUME NEW D \in SUBSET Packages, UciCommitFails(D) PROVE DiskInv'
  BY <1>4 DEF UciCommitFails, Goto
<1>5. CASE ReloadConfig
  BY <1>5 DEF ReloadConfig, Goto
<1>6. CASE GoLive
  <2>1. cur.kept => snaps[cur.id] = cur.data
    BY <1>6 DEF GoLive, JournalSave, ArmWatchdog
  <2> QED
    BY <1>6, <2>1 DEF GoLive, JournalSave, ArmWatchdog, Unlock
<1>7. CASE Finalise
  BY <1>7 DEF Finalise, WithWireless, Unlock
<1>8. CASE DropStaged
  BY <1>8 DEF DropStaged, Goto
<1>9. ASSUME NEW D \in SUBSET Packages, DropStagedFails(D) PROVE DiskInv'
  BY <1>9 DEF DropStagedFails, RevertReturns
<1>10. CASE Unpack
  BY <1>10 DEF Unpack, Goto
<1>11. ASSUME NEW D \in SUBSET Packages, UnpackFails(D) PROVE DiskInv'
  BY <1>11 DEF UnpackFails, RevertReturns
<1>12. CASE ReloadBack
  BY <1>12 DEF ReloadBack, RevertReturns
<1>13. CASE CommitFailed
  BY <1>13 DEF CommitFailed, Unlock
<1>14. CASE RevertLocked
  BY <1>14 DEF RevertLocked, Unlock, ClearJournal
<1>15. CASE Recovered
  BY <1>15 DEF Recovered, Unlock
<1>16. CASE RefuseWhileApplying
  BY <1>16 DEF RefuseWhileApplying
<1>17. ASSUME NEW p \in Packages, NEW v \in Values, LockedStage(p, v) PROVE DiskInv'
  BY <1>17 DEF LockedStage
<1>18. ASSUME NEW v \in Values, Stage(v) PROVE DiskInv'
  BY <1>18 DEF Stage
<1>19. ASSUME NEW D \in SUBSET Packages, DiscardStaged(D) PROVE DiskInv'
  BY <1>19 DEF DiscardStaged
<1>20. CASE Apply
  BY <1>20 DEF Apply, Lock
<1>21. ASSUME NEW v \in Values, ApplyNow(v) PROVE DiskInv'
  BY <1>21 DEF ApplyNow, Lock
<1>22. ASSUME NEW t \in Tokens, Confirm(t) PROVE DiskInv'
  BY <1>22 DEF Confirm, IsPending, StopWatchdog, ClearJournal
<1>23. CASE Revert
  BY <1>23 DEF Revert, StopWatchdog, Lock
<1>24. CASE Start
  BY <1>24 DEF Start, FreshProcess
<1>25. CASE NothingToRecover
  BY <1>25 DEF NothingToRecover, Unlock
<1>26. CASE RecoverPending
  BY <1>26 DEF RecoverPending, LoadSnapshot, Unlock
<1>27. ASSUME NEW t \in Tokens, Expire(t) PROVE DiskInv'
  BY <1>27 DEF Expire
<1>28. ASSUME NEW t \in Tokens, AutoRevert(t) PROVE DiskInv'
  BY <1>28 DEF AutoRevert, IsPending, Lock
<1>29. ASSUME NEW r \in BOOLEAN, Crash(r) PROVE DiskInv'
  BY <1>29 DEF Crash, FreshProcess
<1>30. CASE Tick
  BY <1>30, BoundsAssumption DEF Tick, TypeOK, Ids
<1>31. CASE UNCHANGED vars
  BY <1>31 DEF vars
<1>32. ASSUME NEW v \in Values, AccessNotStaged(v) PROVE DiskInv'
  BY <1>32 DEF AccessNotStaged
<1> QED
  BY <1>1, <1>2, <1>3, <1>4, <1>5, <1>6, <1>7, <1>8, <1>9, <1>10, <1>11,
     <1>12, <1>13, <1>14, <1>15, <1>16, <1>17, <1>18, <1>19, <1>20, <1>21,
     <1>22, <1>23, <1>24, <1>25, <1>26, <1>27, <1>28, <1>29, <1>30, <1>31, <1>32
  DEF Next, HolderStep, Request, Boot

\* A token is on at most one timer, and the pending one is always on one.
LEMMA TimerStep == TypeOK /\ ControlInv /\ TimerInv /\ [Next]_vars => TimerInv'
<1> SUFFICES ASSUME TypeOK, ControlInv, TimerInv, [Next]_vars PROVE TimerInv'
  OBVIOUS
<1> USE DEF TimerInv, Watched, NoEarlyRevert, ControlInv, InRevert,
            uciVars, diskVars, coordVars, timerVars, callVars,
            boundVars, historyVars
<1>1. CASE TakeSnapshot
  <2>1. pc' = "commit" /\ op' = op /\ op # "watchdog"
    BY <1>1 DEF TakeSnapshot
  <2>2. UNCHANGED <<armed, firing, issued>>
    BY <1>1 DEF TakeSnapshot
  <2> QED
    BY <2>1, <2>2
<1>2. CASE SnapshotFails
  <2>1. op \in {"apply", "applyNow"}
    BY <1>2 DEF SnapshotFails, TypeOK, Ops
  <2> QED
    BY <1>2, <2>1 DEF SnapshotFails, Unlock
<1>3. CASE UciCommit
  BY <1>3 DEF UciCommit, Goto
<1>4. ASSUME NEW D \in SUBSET Packages, UciCommitFails(D) PROVE TimerInv'
  BY <1>4 DEF UciCommitFails, Goto
<1>5. CASE ReloadConfig
  BY <1>5 DEF ReloadConfig, Goto
<1>6. CASE GoLive
  <2>1. issued + 1 \notin 1 .. issued /\ 1 .. issued \subseteq 1 .. issued + 1
    BY DEF TypeOK
  <2>2. armed' \cup firing' \subseteq 1 .. issued' /\ armed' \cap firing' = {}
    BY <1>6, <2>1 DEF GoLive, JournalSave, ArmWatchdog, TypeOK
  <2>3. issued + 1 \in Tokens
    BY <1>6, BoundsAssumption DEF GoLive, JournalSave, ArmWatchdog, ControlInv, TypeOK, Tokens
  <2> QED
    BY <1>6, <2>2, <2>3 DEF GoLive, JournalSave, ArmWatchdog, Unlock, TypeOK
<1>7. CASE Finalise
  BY <1>7 DEF Finalise, WithWireless, Unlock
<1>8. CASE DropStaged
  BY <1>8 DEF DropStaged, Goto
<1>9. ASSUME NEW D \in SUBSET Packages, DropStagedFails(D) PROVE TimerInv'
  BY <1>9 DEF DropStagedFails, RevertReturns
<1>10. CASE Unpack
  BY <1>10 DEF Unpack, Goto
<1>11. ASSUME NEW D \in SUBSET Packages, UnpackFails(D) PROVE TimerInv'
  BY <1>11 DEF UnpackFails, RevertReturns
<1>12. CASE ReloadBack
  BY <1>12 DEF ReloadBack, RevertReturns
<1>13. CASE CommitFailed
  BY <1>13 DEF CommitFailed, Unlock
<1>14. CASE RevertLocked
  BY <1>14 DEF RevertLocked, Unlock, ClearJournal
<1>15. CASE Recovered
  BY <1>15 DEF Recovered, Unlock
<1>16. CASE RefuseWhileApplying
  BY <1>16 DEF RefuseWhileApplying
<1>17. ASSUME NEW p \in Packages, NEW v \in Values, LockedStage(p, v) PROVE TimerInv'
  BY <1>17 DEF LockedStage
<1>18. ASSUME NEW v \in Values, Stage(v) PROVE TimerInv'
  BY <1>18 DEF Stage
<1>19. ASSUME NEW D \in SUBSET Packages, DiscardStaged(D) PROVE TimerInv'
  BY <1>19 DEF DiscardStaged
<1>20. CASE Apply
  BY <1>20 DEF Apply, Lock
<1>21. ASSUME NEW v \in Values, ApplyNow(v) PROVE TimerInv'
  BY <1>21 DEF ApplyNow, Lock
<1>22. ASSUME NEW t \in Tokens, Confirm(t) PROVE TimerInv'
  BY <1>22 DEF Confirm, IsPending, StopWatchdog, ClearJournal
<1>23. CASE Revert
  BY <1>23 DEF Revert, StopWatchdog, Lock
<1>24. CASE Start
  BY <1>24 DEF Start, FreshProcess
<1>25. CASE NothingToRecover
  BY <1>25 DEF NothingToRecover, Unlock
<1>26. CASE RecoverPending
  BY <1>26 DEF RecoverPending, LoadSnapshot, Unlock
<1>27. ASSUME NEW t \in Tokens, Expire(t) PROVE TimerInv'
  BY <1>27 DEF Expire
<1>28. ASSUME NEW t \in Tokens, AutoRevert(t) PROVE TimerInv'
  BY <1>28 DEF AutoRevert, IsPending, Lock, ControlInv
<1>29. ASSUME NEW r \in BOOLEAN, Crash(r) PROVE TimerInv'
  BY <1>29 DEF Crash, FreshProcess
<1>30. CASE Tick
  BY <1>30 DEF Tick
<1>31. CASE UNCHANGED vars
  BY <1>31 DEF vars
<1>32. ASSUME NEW v \in Values, AccessNotStaged(v) PROVE TimerInv'
  BY <1>32 DEF AccessNotStaged
<1> QED
  BY <1>1, <1>2, <1>3, <1>4, <1>5, <1>6, <1>7, <1>8, <1>9, <1>10, <1>11,
     <1>12, <1>13, <1>14, <1>15, <1>16, <1>17, <1>18, <1>19, <1>20, <1>21,
     <1>22, <1>23, <1>24, <1>25, <1>26, <1>27, <1>28, <1>29, <1>30, <1>31, <1>32
  DEF Next, HolderStep, Request, Boot

\* The way back to the accepted configuration is kept by every step that does
\* not cut the net, and found again by a Confirm that clears the journal.
LEMMA NetStep ==
  TypeOK /\ ControlInv /\ DiskInv /\ NetInv /\ [Next]_vars => NetInv'
<1> SUFFICES ASSUME TypeOK, ControlInv, DiskInv, NetInv, [Next]_vars,
                    breach' = {}
             PROVE  WayBack'
  BY DEF NetInv
<1> USE DEF NetInv, WayBack, DiskInv, Settled, ControlInv, InRevert, AfterRestart,
            uciVars, diskVars, coordVars, timerVars, callVars,
            boundVars, historyVars
<1>1. CASE TakeSnapshot
  BY <1>1 DEF TakeSnapshot
<1>2. CASE SnapshotFails
  <2>1. op \in {"apply", "applyNow"}
    BY <1>2 DEF SnapshotFails, TypeOK, Ops
  <2> QED
    BY <1>2, <2>1 DEF SnapshotFails, Unlock
<1>3. CASE UciCommit
  <2>1. ASSUME op = "applyNow", NEW p \in Packages \ {Wireless}
        PROVE  conf'[p] = accepted[p]
    <3>1. draft[p] = None /\ conf = accepted
      BY <1>3, <2>1 DEF UciCommit
    <3>2. p \notin Staged
      BY <3>1 DEF Staged
    <3> QED
      BY <1>3, <3>1, <3>2 DEF UciCommit, Mix
  <2> QED
    BY <1>3, <2>1 DEF UciCommit, Goto
<1>4. ASSUME NEW D \in SUBSET Packages, UciCommitFails(D) PROVE WayBack'
  BY <1>4 DEF UciCommitFails, Goto
<1>5. CASE ReloadConfig
  BY <1>5 DEF ReloadConfig, Goto
<1>6. CASE GoLive
  BY <1>6 DEF GoLive, JournalSave, ArmWatchdog, Unlock
<1>7. CASE Finalise
  <2>1. \A p \in Packages \ {Wireless} : conf[p] = accepted[p]
    BY <1>7 DEF Finalise, WithWireless
  <2>2. conf' = accepted'
    BY <1>7, <2>1, PackagesAssumption DEF Finalise, WithWireless, TypeOK, Confs
  <2> QED
    BY <1>7, <2>2 DEF Finalise, WithWireless, Unlock
<1>8. CASE DropStaged
  BY <1>8 DEF DropStaged, Goto
<1>9. ASSUME NEW D \in SUBSET Packages, DropStagedFails(D) PROVE WayBack'
  BY <1>9 DEF DropStagedFails, RevertReturns
<1>10. CASE Unpack
  BY <1>10 DEF Unpack, Goto
<1>11. ASSUME NEW D \in SUBSET Packages, UnpackFails(D) PROVE WayBack'
  BY <1>11 DEF UnpackFails, RevertReturns
<1>12. CASE ReloadBack
  BY <1>12 DEF ReloadBack, RevertReturns
<1>13. CASE CommitFailed
  BY <1>13 DEF CommitFailed, Unlock
<1>14. CASE RevertLocked
  BY <1>14 DEF RevertLocked, Unlock, ClearJournal
<1>15. CASE Recovered
  BY <1>15 DEF Recovered, Unlock
<1>16. CASE RefuseWhileApplying
  BY <1>16 DEF RefuseWhileApplying
<1>17. ASSUME NEW p \in Packages, NEW v \in Values, LockedStage(p, v) PROVE WayBack'
  BY <1>17 DEF LockedStage
<1>18. ASSUME NEW v \in Values, Stage(v) PROVE WayBack'
  BY <1>18 DEF Stage
<1>19. ASSUME NEW D \in SUBSET Packages, DiscardStaged(D) PROVE WayBack'
  BY <1>19 DEF DiscardStaged
<1>20. CASE Apply
  BY <1>20 DEF Apply, Lock
<1>21. ASSUME NEW v \in Values, ApplyNow(v) PROVE WayBack'
  <2>1. draft = NoDraft /\ breach = {}
    BY <1>21 DEF ApplyNow
  <2>2. \A p \in Packages \ {Wireless} : draft'[p] = None
    BY <1>21, <2>1 DEF ApplyNow, NoDraft
  <2>3. /\ pc = "free" /\ pc' = "snapshot" /\ op' = "applyNow"
        /\ UNCHANGED <<conf, accepted, journal, phase, snapshot>>
        /\ phase # "awaiting_confirm"
    BY <1>21 DEF ApplyNow, Lock
  <2> QED
    BY <2>1, <2>2, <2>3
<1>22. ASSUME NEW t \in Tokens, Confirm(t) PROVE WayBack'
  BY <1>22 DEF Confirm, IsPending, StopWatchdog, ClearJournal
<1>23. CASE Revert
  BY <1>23 DEF Revert, StopWatchdog, Lock
<1>24. CASE Start
  BY <1>24 DEF Start, FreshProcess
<1>25. CASE NothingToRecover
  BY <1>25 DEF NothingToRecover, Unlock
<1>26. CASE RecoverPending
  BY <1>26 DEF RecoverPending, LoadSnapshot, Unlock
<1>27. ASSUME NEW t \in Tokens, Expire(t) PROVE WayBack'
  BY <1>27 DEF Expire
<1>28. ASSUME NEW t \in Tokens, AutoRevert(t) PROVE WayBack'
  BY <1>28 DEF AutoRevert, IsPending, Lock, ControlInv
<1>29. ASSUME NEW r \in BOOLEAN, Crash(r) PROVE WayBack'
  <2>1. breach = {} /\ ~Exposed
    BY <1>29 DEF Crash
  <2>2. AfterRestart = accepted
    <3>1. CASE op \in {"apply", "applyNow"}
      BY <2>1, <3>1 DEF Exposed
    <3>2. CASE phase = "awaiting_confirm"
      <4>1. CASE lastErr \/ ~snapshot.kept
        BY <2>1, <3>2, <4>1 DEF Exposed
      <4>2. CASE ~lastErr /\ snapshot.kept
        <5>1. /\ journal = [snap |-> snapshot.id, token |-> token]
              /\ snaps[snapshot.id] = snapshot.data
          BY <3>2, <4>2 DEF DiskInv
        <5>2. journal # NoRec
          <6>1. snapshot.id \in Ids /\ token \in Tokens
            BY <3>2 DEF TypeOK, Snapshots
          <6> QED
            BY <5>1, <6>1, ZeroValuesAssumption DEF Records
        <5>3. snapshot.data = accepted
          BY <2>1, <3>2
        <5> QED
          BY <5>1, <5>2, <5>3
      <4> QED
        BY <4>1, <4>2
    <3>3. CASE /\ op \notin {"apply", "applyNow"}
               /\ phase # "awaiting_confirm"
      <4>1. pc \in {"down", "boot", "free"} \/ op = "recover"
        BY <3>3 DEF TypeOK, Ops
      <4> QED
        BY <2>1, <3>3, <4>1
    <3> QED
      BY <3>1, <3>2, <3>3
  <2> QED
    BY <1>29, <2>1, <2>2 DEF Crash, FreshProcess
<1>30. CASE Tick
  BY <1>30 DEF Tick
<1>31. CASE UNCHANGED vars
  BY <1>31 DEF vars
<1>32. ASSUME NEW v \in Values, AccessNotStaged(v) PROVE WayBack'
  BY <1>32 DEF AccessNotStaged
<1> QED
  BY <1>1, <1>2, <1>3, <1>4, <1>5, <1>6, <1>7, <1>8, <1>9, <1>10, <1>11,
     <1>12, <1>13, <1>14, <1>15, <1>16, <1>17, <1>18, <1>19, <1>20, <1>21,
     <1>22, <1>23, <1>24, <1>25, <1>26, <1>27, <1>28, <1>29, <1>30, <1>31, <1>32
  DEF Next, HolderStep, Request, Boot

-----------------------------------------------------------------------------
\* The daemon starts on an empty draft, without a journal or a snapshot.
LEMMA InitIInv == Init => IInv
<1> SUFFICES ASSUME Init PROVE IInv
  OBVIOUS
<1>1. TypeOK
  <2>1. draft \in Drafts
    BY DEF Init, NoDraft, Drafts
  <2>2. snaps \in [Ids -> Confs \cup {Torn, Gone}]
    BY DEF Init
  <2>3. tried \in [Tokens -> Confs \cup {Gone}]
    BY DEF Init
  <2>4. clock \in Ids /\ issued \in 0 .. MaxTx /\ faults \in 0 .. MaxFaults
    BY BoundsAssumption DEF Init, Ids
  <2> QED
    BY <2>1, <2>2, <2>3, <2>4 DEF Init, TypeOK, Phases, Labels, Ops
<1>2. ControlInv /\ TimerInv
  BY DEF Init, ControlInv, TimerInv, InRevert, NoToken, Watched, NoEarlyRevert
<1>3. DiskInv
  BY DEF Init, DiskInv
<1>4. NetInv
  BY DEF Init, NetInv, WayBack, Settled, InRevert, AfterRestart
<1> QED
  BY <1>1, <1>2, <1>3, <1>4 DEF IInv

\* The conjunction of the five invariants is inductive.
LEMMA StepIInv == IInv /\ [Next]_vars => IInv'
BY TypeStep, ControlStep, DiskStep, TimerStep, NetStep DEF IInv

\* Inductive: the inductive invariant holds throughout every behaviour of the
\* apply transaction, deaths and failing OS calls included.
THEOREM Inductive == Spec => []IInv
BY InitIInv, StepIInv, PTL DEF Spec

\* TypeCorrect: every variable of the transaction keeps its type; in particular
\* /etc/config never holds an absent file's content, whatever is committed or
\* restored half-way.
THEOREM TypeCorrect == Spec => []TypeOK
<1>1. IInv => TypeOK
  BY DEF IInv
<1> QED
  BY <1>1, Inductive, PTL

\* ChangeIsKeptOnlyIfAccepted: as long as the net is whole, a device with no
\* change pending runs the configuration last confirmed or made final.
THEOREM ChangeIsKeptOnlyIfAccepted == Spec => []SettledIsAccepted
<1>1. IInv => SettledIsAccepted
  BY DEF IInv, NetInv, WayBack, SettledIsAccepted
<1> QED
  BY <1>1, Inductive, PTL

\* RestartUndoes: a journaled transaction's snapshot is on disk, whole, and is
\* the accepted configuration, so that RecoverPending can undo the change; no
\* pruning of older snapshots and no second transaction takes it away.
THEOREM RestartUndoes == Spec => []NetIsUp
<1>1. IInv => NetIsUp
  <2> SUFFICES ASSUME IInv, phase = "awaiting_confirm", ~lastErr,
                      snapshot.kept, breach = {}
               PROVE  /\ journal = [snap |-> snapshot.id, token |-> token]
                      /\ snaps[journal.snap] = accepted
    BY DEF NetIsUp
  <2>1. /\ journal = [snap |-> snapshot.id, token |-> token]
        /\ snaps[snapshot.id] = snapshot.data
    BY DEF IInv, DiskInv
  <2>2. snapshot.data = accepted
    BY DEF IInv, NetInv, WayBack
  <2> QED
    BY <2>1, <2>2
<1> QED
  BY <1>1, Inductive, PTL

\* AlwaysWatched: a live, unconfirmed change always has its own timer armed or
\* its own autoRevert goroutine waiting for the mutex.
THEOREM AlwaysWatched == Spec => []Watched
<1>1. IInv => Watched
  BY DEF IInv, TimerInv
<1> QED
  BY <1>1, Inductive, PTL

\* OnlyOwnTimerReverts: autoRevert never undoes a change inside its window.
THEOREM OnlyOwnTimerReverts == Spec => []NoEarlyRevert
<1>1. IInv => NoEarlyRevert
  BY DEF IInv, TimerInv
<1> QED
  BY <1>1, Inductive, PTL

\* ConfirmIsBoundToToken: what a Confirm makes final is the configuration that
\* went live under the token it carries.
THEOREM ConfirmIsBoundToToken == Spec => ConfirmKeepsWhatWasSeen
<1>1. IInv => \A t \in Tokens : Confirm(t) => accepted' = tried[t]
  BY DEF IInv, TimerInv, Confirm, IsPending
<1> QED
  BY <1>1, Inductive, PTL DEF ConfirmKeepsWhatWasSeen

-----------------------------------------------------------------------------
(***************************************************************************)
(* The apply transaction implements its promise, for every value of the    *)
(* constants.  Each action of ApplyTx maps to one action of ApplyPromise   *)
(* or leaves what the promise is about alone; the way back that WayBack    *)
(* keeps is what the promise's Undone and AcceptAtOnce need.               *)
(***************************************************************************)

\* A step of the promise, or one it does not notice.
Simulated == Promise!PromiseNext \/ UNCHANGED Promise!promiseVars

\* A device that has just been set up runs what it will keep.
LEMMA InitPromise == Init => Promise!PromiseInit
BY DEF Init, Promise!PromiseInit, StageOf, Whole

\* Every step of the transaction is a step of the promise or a stutter.
LEMMA StepPromise == IInv /\ IInv' /\ [Next]_vars => Simulated
<1> SUFFICES ASSUME IInv, IInv', [Next]_vars PROVE Simulated
  OBVIOUS
<1> USE DEF Simulated, IInv, Promise!promiseVars,
            StageOf, Whole, ControlInv, InRevert,
            uciVars, diskVars, coordVars, timerVars, callVars, boundVars,
            historyVars
<1>1. CASE TakeSnapshot
  BY <1>1 DEF TakeSnapshot
<1>2. CASE SnapshotFails
  <2>1. Promise!Undone
    BY <1>2 DEF SnapshotFails, Unlock, Promise!MayBeCut, NetInv, WayBack, TypeOK, Ops, Phases, Promise!Undone
  <2> QED
    BY <2>1 DEF Promise!PromiseNext
<1>3. CASE UciCommit
  <2>1. Promise!Work
    BY <1>3 DEF UciCommit, Goto, TypeOK, Ops, Promise!Work
  <2> QED
    BY <2>1 DEF Promise!PromiseNext
<1>4. ASSUME NEW D \in SUBSET Packages, UciCommitFails(D) PROVE Simulated
  <2>1. Promise!Work
    BY <1>4 DEF UciCommitFails, Goto, TypeOK, Ops, Promise!Work
  <2> QED
    BY <2>1 DEF Promise!PromiseNext
<1>5. CASE ReloadConfig
  BY <1>5 DEF ReloadConfig, Goto
<1>6. CASE GoLive
  <2>1. Promise!Offer
    BY <1>6 DEF GoLive, JournalSave, Unlock, Promise!Offer
  <2> QED
    BY <2>1 DEF Promise!PromiseNext
<1>7. CASE Finalise
  <2>1. breach' = {} => conf' = accepted'
    BY <1>7 DEF Finalise, Unlock, NetInv, WayBack, Settled
  <2>2. Promise!AcceptAtOnce
    BY <1>7, <2>1 DEF Finalise, Unlock, Promise!AcceptAtOnce
  <2> QED
    BY <2>2 DEF Promise!PromiseNext
<1>8. CASE DropStaged
  BY <1>8 DEF DropStaged, Goto
<1>9. ASSUME NEW D \in SUBSET Packages, DropStagedFails(D) PROVE Simulated
  BY <1>9 DEF DropStagedFails, RevertReturns
<1>10. CASE Unpack
  <2>1. Promise!Work
    BY <1>10 DEF Unpack, Goto, TypeOK, Promise!Work
  <2> QED
    BY <2>1 DEF Promise!PromiseNext
<1>11. ASSUME NEW D \in SUBSET Packages, UnpackFails(D) PROVE Simulated
  <2>1. Promise!Work
    BY <1>11 DEF UnpackFails, RevertReturns, TypeOK, Promise!Work
  <2> QED
    BY <2>1 DEF Promise!PromiseNext
<1>12. CASE ReloadBack
  BY <1>12 DEF ReloadBack, RevertReturns
<1>13. CASE CommitFailed
  <2>1. Promise!Undone
    BY <1>13 DEF CommitFailed, Unlock, Promise!MayBeCut, NetInv, WayBack, Promise!Undone
  <2> QED
    BY <2>1 DEF Promise!PromiseNext
<1>14. CASE RevertLocked
  <2>1. Promise!Undone
    BY <1>14 DEF RevertLocked, Unlock, Promise!MayBeCut, NetInv, WayBack, Promise!Undone
  <2> QED
    BY <2>1 DEF Promise!PromiseNext
<1>15. CASE Recovered
  <2>1. Promise!Undone
    BY <1>15 DEF Recovered, Unlock, Promise!MayBeCut, NetInv, WayBack, Promise!Undone
  <2> QED
    BY <2>1 DEF Promise!PromiseNext
<1>16. CASE RefuseWhileApplying
  BY <1>16 DEF RefuseWhileApplying
<1>17. ASSUME NEW p \in Packages, NEW v \in Values, LockedStage(p, v) PROVE Simulated
  BY <1>17 DEF LockedStage
<1>18. ASSUME NEW v \in Values, Stage(v) PROVE Simulated
  BY <1>18 DEF Stage
<1>19. ASSUME NEW D \in SUBSET Packages, DiscardStaged(D) PROVE Simulated
  BY <1>19 DEF DiscardStaged
<1>20. CASE Apply
  <2>1. Promise!Begin
    BY <1>20 DEF Apply, Lock, Promise!MayBeCut, Promise!Begin
  <2> QED
    BY <2>1 DEF Promise!PromiseNext
<1>21. ASSUME NEW v \in Values, ApplyNow(v) PROVE Simulated
  <2>1. Promise!Begin
    BY <1>21 DEF ApplyNow, Lock, Promise!MayBeCut, Promise!Begin
  <2> QED
    BY <2>1 DEF Promise!PromiseNext
<1>22. ASSUME NEW t \in Tokens, Confirm(t) PROVE Simulated
  <2>1. Promise!Accept
    BY <1>22 DEF Confirm, IsPending, Promise!Accept
  <2> QED
    BY <2>1 DEF Promise!PromiseNext
<1>23. CASE Revert
  <2>1. Promise!TakeBack
    BY <1>23 DEF Revert, Lock, Promise!MayBeCut, Promise!TakeBack
  <2> QED
    BY <2>1 DEF Promise!PromiseNext
<1>24. CASE Start
  BY <1>24 DEF Start, FreshProcess
<1>25. CASE NothingToRecover
  <2>1. Promise!Undone
    BY <1>25 DEF NothingToRecover, Unlock, Promise!MayBeCut, NetInv, WayBack, AfterRestart, Promise!Undone
  <2> QED
    BY <2>1 DEF Promise!PromiseNext
<1>26. CASE RecoverPending
  <2>1. CASE pc' = "free"
    <3>1. breach' # {}
      BY <1>26, <2>1 DEF RecoverPending, LoadSnapshot
    <3>2. Promise!Undone
      BY <1>26, <2>1, <3>1
      DEF RecoverPending, LoadSnapshot, Unlock, Promise!Undone, Promise!MayBeCut
    <3> QED
      BY <3>2 DEF Promise!PromiseNext
  <2>2. CASE pc' # "free"
    BY <1>26, <2>2 DEF RecoverPending, LoadSnapshot, Unlock
  <2> QED
    BY <2>1, <2>2
<1>27. ASSUME NEW t \in Tokens, Expire(t) PROVE Simulated
  BY <1>27 DEF Expire
<1>28. ASSUME NEW t \in Tokens, AutoRevert(t) PROVE Simulated
  <2>1. CASE IsPending(t)
    <3>1. Promise!TakeBack
      BY <1>28, <2>1
      DEF AutoRevert, Lock, IsPending, Promise!TakeBack, Promise!MayBeCut
    <3> QED
      BY <3>1 DEF Promise!PromiseNext
  <2>2. CASE ~IsPending(t)
    BY <1>28, <2>2 DEF AutoRevert
  <2> QED
    BY <2>1, <2>2
<1>29. ASSUME NEW r \in BOOLEAN, Crash(r) PROVE Simulated
  <2>1. Promise!TakeBack
    BY <1>29 DEF Crash, FreshProcess, Promise!MayBeCut, Promise!TakeBack
  <2> QED
    BY <2>1 DEF Promise!PromiseNext
<1>30. CASE Tick
  BY <1>30 DEF Tick
<1>31. CASE UNCHANGED vars
  BY <1>31 DEF vars
<1>32. ASSUME NEW v \in Values, AccessNotStaged(v) PROVE Simulated
  BY <1>32 DEF AccessNotStaged
<1> QED
  BY <1>1, <1>2, <1>3, <1>4, <1>5, <1>6, <1>7, <1>8, <1>9, <1>10, <1>11,
     <1>12, <1>13, <1>14, <1>15, <1>16, <1>17, <1>18, <1>19, <1>20, <1>21,
     <1>22, <1>23, <1>24, <1>25, <1>26, <1>27, <1>28, <1>29, <1>30, <1>31, <1>32
  DEF Next, HolderStep, Request, Boot

\* PromiseKept: the transaction with its mutex, journal, snapshots, timers,
\* failing OS calls and deaths implements the promise made to the operator.
THEOREM PromiseKept == Spec => ImplementsPromise
<1>1. IInv /\ IInv' /\ [Next]_vars => [Promise!PromiseNext]_Promise!promiseVars
  BY StepPromise DEF Simulated
<1> QED
  BY InitPromise, <1>1, Inductive, PTL
  DEF Spec, ImplementsPromise, Promise!PromiseSpec
=============================================================================
