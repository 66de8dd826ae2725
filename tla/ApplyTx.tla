------------------------------- MODULE ApplyTx -------------------------------
(***************************************************************************)
(* The apply transaction of veilbridged: the coordinator (core/apply.go),  *)
(* the uci applier that snapshots, commits and restores /etc/config        *)
(* (openwrt/uci.go), the on-disk journal of the pending transaction        *)
(* (openwrt/journal.go), the draft in /tmp/.uci, the watchdog timer, and   *)
(* the daemon dying and being respawned at any point.                      *)
(*                                                                         *)
(* Every coordinator method holds one mutex from start to return, so the   *)
(* methods never interleave with each other; what does come between two    *)
(* of their OS effects is a timer expiring, the clock, and the death of    *)
(* the process.  A call that holds the mutex is therefore a sequence of    *)
(* steps, one per OS effect, driven by `pc'; `pc = "free"' is the mutex    *)
(* released.  An OS effect that returns an error is a disjunct of its own. *)
(***************************************************************************)
EXTENDS Naturals, FiniteSets

CONSTANTS
  Packages,       \* the uci configuration files, e.g. network and wireless
  Wireless,       \* the file ApplyNow edits (the Wi-Fi name and password)
  Values,         \* contents a configuration file can have
  KeepSnapshots,  \* uciApplier.keepSnapshots
  MaxTx,          \* bound: transactions that go live (tokens issued)
  MaxClock,       \* bound: seconds the clock advances
  MaxFaults,      \* bound: OS calls that fail and deaths of the daemon
  None,           \* a file with nothing staged
  Torn,           \* a snapshot file cut short by a failed write
  Gone,           \* no snapshot file under this id
  NoSnap,         \* the zero core.Snapshot
  NoRec           \* no pending-apply.json

Confs  == [Packages -> Values]
Drafts == [Packages -> Values \cup {None}]
Tokens == 1 .. MaxTx
Ids    == 0 .. MaxClock
NoToken == 0

ASSUME PackagesAssumption == Wireless \in Packages
ASSUME BoundsAssumption == /\ MaxTx \in Nat
                           /\ MaxClock \in Nat
                           /\ MaxFaults \in Nat
                           /\ KeepSnapshots \in Nat \ {0}
ASSUME SentinelsAssumption == /\ None \notin Values
                              /\ Torn \notin Confs
                              /\ Gone \notin Confs
                              /\ Torn # Gone

(***************************************************************************)
(* A snapshot held in memory: its id (the second it was taken in), its     *)
(* payload, and whether persisting it worked.  The code does not keep the  *)
(* last field: Snapshot() swallows the error.                              *)
(***************************************************************************)
Snapshots == [id : Ids, data : Confs \cup {Torn}, kept : BOOLEAN]
Records   == [snap : Ids, token : Tokens]

ASSUME ZeroValuesAssumption == NoSnap \notin Snapshots /\ NoRec \notin Records

Phases == {"idle", "awaiting_confirm", "confirmed", "reverted", "revert_failed"}
Ops    == {"none", "apply", "applyNow", "revert", "watchdog", "recover"}

(***************************************************************************)
(* down: no process; boot: started, RecoverPending not run yet; free: the  *)
(* mutex is free; the others name the OS effect the holder does next.      *)
(***************************************************************************)
Labels == {"down", "boot", "free", "snapshot", "commit", "reload", "golive",
           "drop", "unpack", "reloadBack", "done"}

(***************************************************************************)
(* The ways the safety net can be cut, each at a place the code knows of   *)
(* or could know of:                                                       *)
(*   netless      died with a live change that nothing on disk undoes      *)
(*   cut          the same, inside ApplyNow                                *)
(*   revertFailed applier.Revert or LoadSnapshot returned an error         *)
(*   recordKept   journal.Clear returned an error                          *)
(*   recordUnread journal.Load returned an error at startup                *)
(*   blind        ApplyNow committed a draft it could not read             *)
(***************************************************************************)
Breaches == {"netless", "cut", "revertFailed", "recordKept", "recordUnread",
             "blind"}

VARIABLES
  conf,      \* /etc/config
  draft,     \* /tmp/.uci
  snaps,     \* /etc/veilbridge/snapshots, by id
  journal,   \* /etc/veilbridge/pending-apply.json
  clock,     \* wall clock, in seconds
  phase, token, snapshot, lastErr, watchdog,  \* ApplyCoordinator's fields
  armed,     \* tokens whose timer has not expired and was not stopped
  firing,    \* tokens whose autoRevert goroutine waits for the mutex
  pc, op,    \* the call holding the mutex, and its next effect
  cur,       \* that call's local snapshot
  failed,    \* that call's applier.Revert returned an error
  admitted,  \* a staging handler is past refuseWhileApplying
  issued,    \* tokens handed out so far
  faults,    \* OS calls failed and deaths so far
  accepted,  \* history: the configuration last confirmed or made final
  tried,     \* history: the configuration that went live under each token
  breach     \* history: how the safety net was cut since the last confirm

uciVars     == <<conf, draft>>
diskVars    == <<snaps, journal>>
coordVars   == <<phase, token, snapshot, lastErr, watchdog>>
timerVars   == <<armed, firing>>
callVars    == <<pc, op, cur, failed>>
boundVars   == <<clock, issued, faults>>
historyVars == <<accepted, tried, breach>>
vars == <<uciVars, diskVars, coordVars, timerVars, callVars, boundVars,
          historyVars, admitted>>

TypeOK ==
  /\ conf \in Confs
  /\ draft \in Drafts
  /\ snaps \in [Ids -> Confs \cup {Torn, Gone}]
  /\ journal \in Records \cup {NoRec}
  /\ clock \in Ids
  /\ phase \in Phases
  /\ token \in Tokens \cup {NoToken}
  /\ snapshot \in Snapshots \cup {NoSnap}
  /\ lastErr \in BOOLEAN
  /\ watchdog \in Tokens \cup {NoToken}
  /\ armed \subseteq Tokens
  /\ firing \subseteq Tokens
  /\ pc \in Labels
  /\ op \in Ops
  /\ cur \in Snapshots \cup {NoSnap}
  /\ failed \in BOOLEAN
  /\ admitted \in BOOLEAN
  /\ issued \in 0 .. MaxTx
  /\ faults \in 0 .. MaxFaults
  /\ accepted \in Confs
  /\ tried \in [Tokens -> Confs \cup {Gone}]
  /\ breach \subseteq Breaches

-----------------------------------------------------------------------------
NoDraft == [p \in Packages |-> None]

\* The files of D taken from `new', the others left as they are in `old'.
Mix(old, new, D) == [p \in Packages |-> IF p \in D THEN new[p] ELSE old[p]]

\* Mutant: a file nobody staged is committed with the others, as an empty one.
StagedAll == Packages

\* uci commit: the staged files replace the committed ones.
Staged == {p \in Packages : draft[p] # None}

Init ==
  /\ conf \in Confs
  /\ draft = NoDraft
  /\ snaps = [i \in Ids |-> Gone]
  /\ journal = NoRec
  /\ clock = 0
  /\ phase = "idle" /\ token = NoToken /\ snapshot = NoSnap
  /\ lastErr = FALSE /\ watchdog = NoToken
  /\ armed = {} /\ firing = {}
  /\ pc = "down" /\ op = "none" /\ cur = NoSnap /\ failed = FALSE
  /\ admitted = FALSE /\ issued = 0 /\ faults = 0
  /\ accepted = conf
  /\ tried = [t \in Tokens |-> Gone]
  /\ breach = {}

\* A method takes the mutex (nobody else holds it) and names its first effect.
Lock(o, label, snap) ==
  /\ pc = "free"
  /\ pc' = label /\ op' = o /\ cur' = snap
  /\ UNCHANGED failed

\* The mutex changes hands between effects only by the method returning.
Unlock == pc' = "free" /\ op' = "none" /\ cur' = NoSnap /\ failed' = FALSE

Goto(label) == pc' = label /\ UNCHANGED <<op, cur, failed>>

\* An OS call returns an error, or the process dies.
Fault == faults < MaxFaults /\ faults' = faults + 1
NoFault == faults' = faults

-----------------------------------------------------------------------------
(* The draft.                                                               *)

\* A staging handler asks State() whether a change is pending, and lets go of
\* the mutex with the answer.
RefuseWhileApplying ==
  /\ pc = "free"
  /\ phase # "awaiting_confirm"
  /\ ~admitted
  /\ admitted' = TRUE
  /\ UNCHANGED <<uciVars, diskVars, coordVars, timerVars, callVars, boundVars,
                 historyVars>>

\* The handler then stages under the mutex (Exclusive: the phase is not looked
\* at again).  It may be refused, stage its edit, or fail and drop the file's
\* draft.
LockedStage(p, v) ==
  /\ pc = "free"
  /\ admitted
  /\ admitted' = FALSE
  /\ \/ draft' \in {draft, [draft EXCEPT ![p] = v]} /\ NoFault
     \/ draft' = [draft EXCEPT ![p] = None] /\ Fault
  /\ UNCHANGED <<conf, diskVars, coordVars, timerVars, callVars, clock, issued,
                 historyVars>>

\* Mutant: staging commits by accident.
StageCommits(v) ==
  /\ pc = "free"
  /\ phase # "awaiting_confirm"
  /\ draft = NoDraft
  /\ conf' = [p \in Packages |-> v]
  /\ UNCHANGED <<draft, diskVars, coordVars, timerVars, callVars, boundVars,
                 historyVars, admitted>>

\* Coordinator.Stage, used for the guest network: several files at once, only
\* on an empty draft, and the phase is checked under the mutex.
Stage(v) ==
  /\ pc = "free"
  /\ phase # "awaiting_confirm"
  /\ draft = NoDraft
  /\ draft' = [p \in Packages |-> v]
  /\ UNCHANGED <<conf, diskVars, coordVars, timerVars, callVars, boundVars,
                 historyVars, admitted>>

\* DiscardStaged drops file after file and stops at the first error.
DiscardStaged(D) ==
  /\ pc = "free"
  /\ draft' = Mix(draft, NoDraft, D)
  /\ IF D = Packages THEN NoFault ELSE Fault
  /\ UNCHANGED <<conf, diskVars, coordVars, timerVars, callVars, clock, issued,
                 historyVars, admitted>>

-----------------------------------------------------------------------------
(* Apply and ApplyNow.                                                      *)

Apply ==
  /\ phase # "awaiting_confirm"
  /\ issued < MaxTx
  /\ Lock("apply", "snapshot", NoSnap)
  /\ UNCHANGED <<uciVars, diskVars, coordVars, timerVars, boundVars,
                 historyVars, admitted>>

\* setWiFiAccess: refused on a draft known not to be empty, but a draft that
\* could not be read passes.
ApplyNow(v) ==
  /\ phase # "awaiting_confirm"
  /\ v # conf[Wireless]
  /\ \/ draft = NoDraft /\ breach' = breach /\ NoFault
     \/ draft # NoDraft /\ breach' = breach \cup {"blind"} /\ Fault
  /\ draft' = [draft EXCEPT ![Wireless] = v]
  /\ Lock("applyNow", "snapshot", NoSnap)
  /\ UNCHANGED <<conf, diskVars, coordVars, timerVars, clock, issued, accepted,
                 tried, admitted>>

\* setWiFiAccess when `uci set' fails: the wireless draft is dropped, and left
\* as it is when that fails as well (the error of discardConfig is ignored).
AccessNotStaged(v) ==
  /\ pc = "free"
  /\ phase # "awaiting_confirm"
  /\ draft' \in {[draft EXCEPT ![Wireless] = None],
                 [draft EXCEPT ![Wireless] = v]}
  /\ Fault
  /\ UNCHANGED <<conf, diskVars, coordVars, timerVars, callVars, clock, issued,
                 historyVars, admitted>>

\* Mutant: one snapshot too many is removed.
OneTooFew(ids) ==
  {i \in ids : Cardinality({j \in ids : j > i}) + 1 < KeepSnapshots}

\* The ids that prune leaves: the newest KeepSnapshots, in lexical order.
Newest(ids) == {i \in ids : Cardinality({j \in ids : j > i}) < KeepSnapshots}

\* persist: the file written, then the surplus removed oldest first; a removal
\* that fails leaves the rest of the surplus in place.
Persist(id, data) ==
  LET written == [snaps EXCEPT ![id] = data]
      ids     == {i \in Ids : written[i] # Gone}
  IN  \E left \in SUBSET ids :
        /\ Newest(ids) \subseteq left
        /\ \A i \in left, j \in ids : j > i => j \in left
        /\ IF left = Newest(ids) THEN NoFault ELSE Fault
        /\ snaps' = [i \in Ids |-> IF i \in left THEN written[i] ELSE Gone]

\* Persisting is best-effort: when it fails the file is missing, or an older
\* one of the same second is still there, or it is cut short.
PersistFails(id) ==
  /\ Fault
  /\ snaps' \in {snaps, [snaps EXCEPT ![id] = Torn]}

TakeSnapshot ==
  /\ pc = "snapshot"
  /\ \E kept \in BOOLEAN :
       /\ IF kept THEN Persist(clock, conf) ELSE PersistFails(clock)
       /\ cur' = [id |-> clock, data |-> conf, kept |-> kept]
  /\ pc' = "commit"
  /\ UNCHANGED <<op, failed, uciVars, journal, coordVars, timerVars, clock,
                 issued, historyVars, admitted>>

SnapshotFails ==
  /\ pc = "snapshot"
  /\ Fault
  /\ phase' = IF op = "apply" THEN "idle" ELSE phase
  /\ lastErr' = IF op = "apply" THEN TRUE ELSE lastErr
  /\ Unlock
  /\ UNCHANGED <<token, snapshot, watchdog, uciVars, diskVars, timerVars,
                 clock, issued, historyVars, admitted>>

UciCommit ==
  /\ pc = "commit"
  /\ conf' = Mix(conf, draft, Staged)
  /\ draft' = NoDraft
  /\ Goto("reload")
  /\ UNCHANGED <<diskVars, coordVars, timerVars, boundVars, historyVars,
                 admitted>>

\* Mutant: a failed commit is reported and the snapshot is not put back.
UciCommitFailsForward(D) ==
  /\ pc = "commit"
  /\ conf' = Mix(conf, draft, Staged \cap D)
  /\ draft' = Mix(draft, NoDraft, D)
  /\ Goto("done")
  /\ Fault
  /\ UNCHANGED <<diskVars, coordVars, timerVars, clock, issued, historyVars,
                 admitted>>

\* uci commit fails with only the files of D written; Revert is called next.
UciCommitFails(D) ==
  /\ pc = "commit"
  /\ conf' = Mix(conf, draft, Staged \cap D)
  /\ draft' = Mix(draft, NoDraft, D)
  /\ Goto("drop")
  /\ Fault
  /\ UNCHANGED <<diskVars, coordVars, timerVars, clock, issued, historyVars,
                 admitted>>

ReloadConfig ==
  /\ pc = "reload"
  /\ \/ Goto("golive") /\ NoFault
     \/ Goto("drop") /\ Fault
  /\ UNCHANGED <<uciVars, diskVars, coordVars, timerVars, clock, issued,
                 historyVars, admitted>>

\* Mutant: the watchdog field is set and the timer never started.
NeverArms(t) == watchdog' = t /\ UNCHANGED armed

\* afterFunc: this transaction's own timer, carrying its token.
ArmWatchdog(t) == watchdog' = t /\ armed' = armed \cup {t}

\* journal.Save renames a complete file into place; an error is only shown.
JournalSave(rec) ==
  \/ journal' = rec /\ lastErr' = FALSE /\ NoFault
  \/ journal' = journal /\ lastErr' = TRUE /\ Fault

\* The end of Apply: a new token, the record saved or not, the watchdog armed.
GoLive ==
  /\ pc = "golive" /\ op = "apply"
  /\ LET t == issued + 1 IN
       /\ phase' = "awaiting_confirm" /\ token' = t /\ snapshot' = cur
       /\ issued' = t
       /\ JournalSave([snap |-> cur.id, token |-> t])
       /\ ArmWatchdog(t)
       /\ tried' = [tried EXCEPT ![t] = conf]
  /\ Unlock
  /\ UNCHANGED <<uciVars, snaps, firing, clock, accepted, breach, admitted>>

\* Configuration c with the Wi-Fi file of d.
WithWireless(c, d) == [c EXCEPT ![Wireless] = d[Wireless]]

\* The end of ApplyNow: applied and final.
Finalise ==
  /\ pc = "golive" /\ op = "applyNow"
  /\ phase' = "idle" /\ lastErr' = FALSE
  /\ accepted' = WithWireless(accepted, conf)
  /\ Unlock
  /\ UNCHANGED <<token, snapshot, watchdog, uciVars, diskVars, timerVars,
                 boundVars, tried, breach, admitted>>

-----------------------------------------------------------------------------
(* The end of a transaction.                                                *)

\* clearJournalLocked: an error is shown unless there is one to show already.
ClearJournal(errBefore) ==
  \/ journal' = NoRec /\ lastErr' = errBefore /\ NoFault
  \/ journal # NoRec /\ journal' = journal /\ lastErr' = TRUE /\ Fault

StopWatchdog == armed' = armed \ {watchdog} /\ watchdog' = NoToken

\* Mutant: any pending change will do.
IsAnyPending(t) == phase = "awaiting_confirm"

\* The change that token t was given out for is the one that is pending now.
IsPending(t) == phase = "awaiting_confirm" /\ t = token

\* A client confirms with the token it was given, perhaps long ago.
Confirm(t) ==
  /\ pc = "free"
  /\ IsPending(t)
  /\ StopWatchdog
  /\ phase' = "confirmed" /\ token' = NoToken /\ snapshot' = NoSnap
  /\ ClearJournal(lastErr)
  /\ accepted' = conf
  /\ breach' = IF journal' = NoRec THEN {} ELSE breach \cup {"recordKept"}
  /\ UNCHANGED <<uciVars, snaps, firing, callVars, clock, issued, tried,
                 admitted>>

Revert ==
  /\ phase = "awaiting_confirm"
  /\ StopWatchdog
  /\ Lock("revert", "drop", snapshot)
  /\ UNCHANGED <<phase, token, snapshot, lastErr, firing, uciVars, diskVars,
                 boundVars, historyVars, admitted>>

\* The window closes: the runtime starts the autoRevert goroutine, which Stop
\* can no longer call back.
Expire(t) ==
  /\ t \in armed
  /\ armed' = armed \ {t}
  /\ firing' = firing \cup {t}
  /\ UNCHANGED <<uciVars, diskVars, coordVars, callVars, boundVars,
                 historyVars, admitted>>

AutoRevert(t) ==
  /\ pc = "free"
  /\ t \in firing
  /\ firing' = firing \ {t}
  /\ IF IsPending(t)
       THEN watchdog' = NoToken /\ Lock("watchdog", "drop", snapshot)
       ELSE UNCHANGED <<watchdog, callVars>>
  /\ UNCHANGED <<phase, token, snapshot, lastErr, armed, uciVars, diskVars,
                 boundVars, historyVars, admitted>>

-----------------------------------------------------------------------------
(* uciApplier.Revert: drop the draft, unpack the snapshot, reload.          *)

RevertReturns(err) == pc' = "done" /\ failed' = err /\ UNCHANGED <<op, cur>>

DropStaged ==
  /\ pc = "drop"
  /\ cur # NoSnap
  /\ draft' = NoDraft
  /\ Goto("unpack")
  /\ UNCHANGED <<conf, diskVars, coordVars, timerVars, boundVars, historyVars,
                 admitted>>

\* A snapshot without payload, or uci refusing to list or drop the draft.
DropStagedFails(D) ==
  /\ pc = "drop"
  /\ cur = NoSnap => D = {}
  /\ draft' = Mix(draft, NoDraft, D)
  /\ RevertReturns(TRUE)
  /\ IF cur = NoSnap THEN NoFault ELSE Fault
  /\ UNCHANGED <<conf, diskVars, coordVars, timerVars, clock, issued,
                 historyVars, admitted>>

Unpack ==
  /\ pc = "unpack"
  /\ cur.data # Torn
  /\ conf' = cur.data
  /\ Goto("reloadBack")
  /\ UNCHANGED <<draft, diskVars, coordVars, timerVars, boundVars, historyVars,
                 admitted>>

\* tar stops with only the files of D written; a torn archive always does, and
\* what it wrote by then is anybody's guess.
UnpackFails(D) ==
  /\ pc = "unpack"
  /\ \/ /\ cur.data = Torn
        /\ \E f \in Confs : conf' = Mix(conf, f, D)
        /\ NoFault
     \/ /\ cur.data # Torn
        /\ conf' = Mix(conf, cur.data, D)
        /\ Fault
  /\ RevertReturns(TRUE)
  /\ UNCHANGED <<draft, diskVars, coordVars, timerVars, clock, issued,
                 historyVars, admitted>>

ReloadBack ==
  /\ pc = "reloadBack"
  /\ \/ RevertReturns(FALSE) /\ NoFault
     \/ RevertReturns(TRUE) /\ Fault
  /\ UNCHANGED <<uciVars, diskVars, coordVars, timerVars, clock, issued,
                 historyVars, admitted>>

\* Apply and ApplyNow after a failed Commit.
CommitFailed ==
  /\ pc = "done" /\ op \in {"apply", "applyNow"}
  /\ phase' = IF failed THEN "revert_failed" ELSE "reverted"
  /\ lastErr' = TRUE
  /\ snapshot' = IF op = "apply" THEN cur ELSE snapshot
  /\ breach' = IF failed THEN breach \cup {"revertFailed"} ELSE breach
  /\ Unlock
  /\ UNCHANGED <<token, watchdog, uciVars, diskVars, timerVars, boundVars,
                 accepted, tried, admitted>>

\* revertLocked after applier.Revert, for the button and for the watchdog.
RevertLocked ==
  /\ pc = "done" /\ op \in {"revert", "watchdog"}
  /\ token' = NoToken
  /\ \/ /\ failed
        /\ phase' = "revert_failed" /\ lastErr' = TRUE
        /\ breach' = breach \cup {"revertFailed"}
        /\ UNCHANGED <<snapshot, journal, faults>>
     \/ /\ ~failed
        /\ phase' = "reverted" /\ snapshot' = NoSnap
        /\ ClearJournal(FALSE)
        /\ breach' = IF journal' = NoRec THEN breach
                     ELSE breach \cup {"recordKept"}
  /\ Unlock
  /\ UNCHANGED <<watchdog, uciVars, snaps, timerVars, clock, issued, accepted,
                 tried, admitted>>

-----------------------------------------------------------------------------
(* Startup.                                                                 *)

\* What the coordinator, its timers and its callers hold in memory at startup.
FreshProcess ==
  /\ phase' = "idle" /\ token' = NoToken /\ snapshot' = NoSnap
  /\ lastErr' = FALSE /\ watchdog' = NoToken
  /\ armed' = {} /\ firing' = {} /\ admitted' = FALSE
  /\ op' = "none" /\ cur' = NoSnap /\ failed' = FALSE

Start ==
  /\ pc = "down"
  /\ pc' = "boot"
  /\ FreshProcess
  /\ UNCHANGED <<uciVars, diskVars, boundVars, historyVars>>

\* RecoverPending with no record, or with one that could not be read: main
\* logs a warning and serves.
NothingToRecover ==
  /\ pc = "boot"
  /\ \/ journal = NoRec /\ breach' = breach /\ NoFault
     \/ journal # NoRec /\ breach' = breach \cup {"recordUnread"} /\ Fault
  /\ Unlock
  /\ UNCHANGED <<uciVars, diskVars, coordVars, timerVars, clock, issued,
                 accepted, tried, admitted>>

\* The snapshot as a later process reads it back.
LoadSnapshot(id) == [id |-> id, data |-> snaps[id], kept |-> TRUE]

RecoverPending ==
  /\ pc = "boot"
  /\ journal # NoRec
  /\ \/ /\ snaps[journal.snap] # Gone
        /\ pc' = "drop" /\ op' = "recover"
        /\ cur' = LoadSnapshot(journal.snap)
        /\ NoFault
        /\ UNCHANGED <<failed, phase, lastErr, breach>>
     \/ /\ IF snaps[journal.snap] \in {Gone, Torn} THEN NoFault ELSE Fault
        /\ phase' = "revert_failed" /\ lastErr' = TRUE
        /\ breach' = breach \cup {"revertFailed"}
        /\ Unlock
  /\ UNCHANGED <<token, snapshot, watchdog, uciVars, diskVars, timerVars,
                 clock, issued, accepted, tried, admitted>>

\* The rest of RecoverPending: a journal that cannot be cleared leaves the
\* phase as it was.
Recovered ==
  /\ pc = "done" /\ op = "recover"
  /\ \/ /\ failed
        /\ phase' = "revert_failed" /\ lastErr' = TRUE
        /\ breach' = breach \cup {"revertFailed"}
        /\ UNCHANGED <<journal, faults>>
     \/ /\ ~failed
        /\ journal' = NoRec
        /\ phase' = "reverted"
        /\ UNCHANGED <<lastErr, breach, faults>>
     \/ /\ ~failed
        /\ Fault
        /\ breach' = breach \cup {"recordKept"}
        /\ UNCHANGED <<journal, phase, lastErr>>
  /\ Unlock
  /\ UNCHANGED <<token, snapshot, watchdog, uciVars, snaps, timerVars, clock,
                 issued, accepted, tried, admitted>>

-----------------------------------------------------------------------------
(* The world around the daemon.                                             *)

\* What a restart that meets no further failure leaves in /etc/config.
AfterRestart == IF journal = NoRec THEN conf ELSE snaps[journal.snap]

\* A live change that nothing on disk undoes: Apply or ApplyNow is under way,
\* or the transaction's record or snapshot could not be written.
Exposed ==
  /\ AfterRestart # accepted
  /\ \/ op \in {"apply", "applyNow"}
     \/ phase = "awaiting_confirm" /\ (lastErr \/ ~snapshot.kept)

\* The process dies between two effects; a reboot also loses /tmp/.uci.
Crash(rebooted) ==
  /\ pc # "down"
  /\ Fault
  /\ pc' = "down"
  /\ FreshProcess
  /\ draft' = IF rebooted THEN NoDraft ELSE draft
  /\ breach' = IF ~Exposed THEN breach
               ELSE breach \cup {IF op = "applyNow" THEN "cut" ELSE "netless"}
  /\ UNCHANGED <<conf, diskVars, clock, issued, accepted, tried>>

Tick ==
  /\ clock < MaxClock
  /\ clock' = clock + 1
  /\ UNCHANGED <<uciVars, diskVars, coordVars, timerVars, callVars, issued,
                 faults, historyVars, admitted>>

-----------------------------------------------------------------------------
\* The next effect of the call that holds the mutex.
HolderStep ==
  \/ TakeSnapshot
  \/ SnapshotFails
  \/ UciCommit
  \/ \E D \in SUBSET Packages : UciCommitFails(D)
  \/ ReloadConfig
  \/ GoLive
  \/ Finalise
  \/ DropStaged
  \/ \E D \in SUBSET Packages : DropStagedFails(D)
  \/ Unpack
  \/ \E D \in SUBSET Packages : UnpackFails(D)
  \/ ReloadBack
  \/ CommitFailed
  \/ RevertLocked
  \/ Recovered

\* What the operator's requests start.
Request ==
  \/ RefuseWhileApplying
  \/ \E p \in Packages, v \in Values : LockedStage(p, v)
  \/ \E v \in Values : Stage(v)
  \/ \E D \in SUBSET Packages : DiscardStaged(D)
  \/ Apply
  \/ \E v \in Values : ApplyNow(v) \/ AccessNotStaged(v)
  \/ \E t \in Tokens : Confirm(t)
  \/ Revert

Boot == Start \/ NothingToRecover \/ RecoverPending

Next ==
  \/ HolderStep
  \/ Request
  \/ Boot
  \/ \E t \in Tokens : Expire(t) \/ AutoRevert(t)
  \/ \E rebooted \in BOOLEAN : Crash(rebooted)
  \/ Tick

Spec == Init /\ [][Next]_vars

(***************************************************************************)
(* OS commands run under a timeout, so a call that holds the mutex goes    *)
(* on; procd respawns the daemon; a timer that is not stopped expires; and *)
(* a goroutine waiting for a Go mutex gets it.  Requests are the           *)
(* operator's, and owe nothing.                                            *)
(***************************************************************************)
Fairness ==
  /\ WF_vars(HolderStep)
  /\ WF_vars(Boot)
  /\ \A t \in Tokens : WF_vars(Expire(t)) /\ WF_vars(AutoRevert(t))

FairSpec == Spec /\ Fairness

-----------------------------------------------------------------------------
Settled == pc = "free" /\ phase # "awaiting_confirm"

\* SettledIsAccepted: whatever requests, expiries, failures and deaths came
\* before, when no change is pending the device runs what was last confirmed or
\* made final, unless the safety net was cut (breach); and a failed revert is
\* one of the cuts.  Apply, Confirm, Revert, autoRevert and RecoverPending
\* share this promise.
SettledIsAccepted ==
  Settled /\ breach = {} => conf = accepted /\ phase # "revert_failed"

\* NetIsUp: while a change awaits confirmation, the disk holds what a restart
\* needs to undo it.  The journal names this transaction, and the snapshot it
\* names is the accepted configuration, unless Apply reported that it could not
\* journal (lastErr) or Snapshot could not persist.
NetIsUp ==
  /\ phase = "awaiting_confirm"
  /\ pc = "free"
  /\ ~lastErr
  /\ snapshot.kept
  /\ breach = {}
  => /\ journal = [snap |-> snapshot.id, token |-> token]
     /\ snaps[journal.snap] = accepted

\* Watched: a live unconfirmed change always has a watchdog of its own: its
\* timer is armed or its autoRevert goroutine is on its way to the mutex.
Watched ==
  pc = "free" /\ phase = "awaiting_confirm" => token \in armed \cup firing

\* NoEarlyRevert: autoRevert only undoes a change whose own window has closed:
\* the late timer of an earlier transaction never reverts the next one.
NoEarlyRevert == op = "watchdog" => token \notin armed

\* ConfirmKeepsWhatWasSeen: a Confirm that succeeds keeps the configuration
\* that went live under the token the client echoes, never that of a later
\* transaction the client has not seen.
ConfirmKeepsWhatWasSeen ==
  [][\A t \in Tokens : Confirm(t) => accepted' = tried[t]]_vars

\* TransactionEnds: silence means revert.  Every transaction that goes live is
\* over at some later time with the mutex free, whether the operator answers,
\* the window closes, or the daemon dies and is respawned.
TransactionEnds ==
  \A t \in Tokens :
    (phase = "awaiting_confirm" /\ token = t) ~> (pc = "free" /\ token # t)

\* UnacceptedIsUndone: a device that runs something nobody accepted comes back
\* to the accepted configuration (or someone accepts it), unless the safety net
\* was cut.
UnacceptedIsUndone ==
  conf # accepted ~> (conf = accepted \/ breach # {})

-----------------------------------------------------------------------------
\* Where the change in progress is, as the operator sees it.
StageOf ==
  IF pc = "free"
  THEN IF phase = "awaiting_confirm" THEN "offered" ELSE "settled"
  ELSE IF op \in {"apply", "applyNow"} THEN "changing" ELSE "undoing"

Whole == breach = {}

Promise == INSTANCE ApplyPromise
             WITH Configurations <- Confs, AtOnce <- WithWireless,
                  running <- conf, kept <- accepted,
                  stage <- StageOf, whole <- Whole

\* ImplementsPromise: every behaviour of the transaction, deaths and failing OS
\* calls included, is one of the promise's: what is offered does not move until
\* it is answered, only Confirm and a finished ApplyNow accept anything, and
\* every other way out of Apply, Revert, autoRevert and RecoverPending ends on
\* what was accepted, or with the net known to be cut.
ImplementsPromise == Promise!PromiseSpec

-----------------------------------------------------------------------------
(* What the comments say, and the code does not keep to.                    *)

\* NoUnconfirmedSurvivor (api/server.go): "a change nobody confirmed must not
\* survive just because the process died".
NoUnconfirmedSurvivor ==
  Settled /\ breach \subseteq {"netless"} => conf = accepted

=============================================================================
