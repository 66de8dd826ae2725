-------------------------- MODULE EmergencyRestore ---------------------------
(***************************************************************************)
(* `veilbridged -restore-network' (openwrt/restore.go) beside the daemon:  *)
(* a process of its own, which shares with it /etc/config, the draft, the  *)
(* snapshots and the journal, and no mutex.  It is a sequence of steps,    *)
(* one per OS effect, driven by `rpc'; between any two of them the daemon  *)
(* of ApplyTx takes what steps it likes, dies or is respawned.             *)
(***************************************************************************)
EXTENDS ApplyTx

CONSTANT MaxRestores   \* bound: commands that get past the reading

ASSUME RestoresAssumption == MaxRestores \in Nat

VARIABLES
  rpc,       \* the command's next effect, "off" when none runs
  force,     \* -force
  point,     \* the files of the chosen restore point
  left,      \* the files it has still to put back
  undo,      \* the snapshot of what is being replaced, NoSnap without one
  restores,  \* commands so far
  begun,     \* history: the tokens issued when the command began
  warned,    \* history: a warning was printed
  raced,     \* history: the daemon was in the middle of a change during a command
  newer,     \* history: the files staged since the draft was dropped
  restored,  \* history: what the last command put back, until the daemon
             \* changed something by itself or a new change went live
  stopped    \* history: what the last command was replacing when it failed

commandVars == <<rpc, force, point, left, undo, restores, begun, warned>>
storyVars   == <<raced, newer, restored, stopped>>
restoreVars == <<commandVars, storyVars>>
routerVars  == <<vars, restoreVars>>

\* writtenConfigs: Wi-Fi is not put back (D-77).
Written == Packages \ {Wireless}

Part(c) == [p \in Written |-> c[p]]

Differs(c, d) == {p \in Written : c[p] # d[p]}

\* points: a snapshot that cannot be read is skipped.
Points == {i \in Ids : snaps[i] \notin {Gone, Torn}}

\* Mutant: the oldest one that differs.
Oldest == {i \in Points : /\ Differs(snaps[i], conf) # {}
                          /\ \A j \in Points : j < i => Differs(snaps[j], conf) = {}}

\* What the command puts back when it is not told: the newest that differs.
Chosen == {i \in Points : /\ Differs(snaps[i], conf) # {}
                          /\ \A j \in Points : j > i => Differs(snaps[j], conf) = {}}

\* The daemon is in the middle of a change, or one waits for confirmation.
Busy == pc \notin {"free", "down"} \/ phase = "awaiting_confirm" \/ journal # NoRec

RestoreInit ==
  /\ Init
  /\ rpc = "off" /\ force = FALSE /\ point = Gone /\ left = {} /\ undo = NoSnap
  /\ restores = 0 /\ begun = 0 /\ warned = FALSE
  /\ raced = FALSE /\ newer = {} /\ restored = Gone /\ stopped = Gone

Step(label) == rpc' = label /\ UNCHANGED <<force, point, restores, begun>>

\* The daemon may have been busy before this step, and it may be after it.
Watch == raced' = (raced \/ Busy)

-----------------------------------------------------------------------------

\* The restore points are read and compared, and one is chosen.  With no
\* difference there is nothing to do.
ReadPoints(f) ==
  /\ rpc = "off" /\ restores < MaxRestores
  /\ \E i \in Chosen \cup {j \in Points : Differs(snaps[j], conf) # {}} :
       point' = snaps[i] /\ left' = Differs(snaps[i], conf)
  /\ rpc' = "check" /\ force' = f /\ restores' = restores + 1
  /\ undo' = NoSnap /\ begun' = issued /\ warned' = FALSE
  /\ Watch /\ restored' = Gone /\ stopped' = Gone
  /\ UNCHANGED <<vars, newer>>

\* A change that waits for confirmation sends the person away; a journal that
\* cannot be read does not.
CheckPending ==
  /\ rpc = "check"
  /\ \/ /\ journal # NoRec /\ ~force
        /\ Step("off") /\ NoFault
        /\ UNCHANGED warned
     \/ /\ journal = NoRec \/ force
        /\ Step("undo") /\ NoFault
        /\ UNCHANGED warned
     \/ Step("undo") /\ Fault /\ warned' = TRUE
  /\ Watch
  /\ UNCHANGED <<uciVars, diskVars, coordVars, timerVars, callVars, clock, issued,
                 historyVars, admitted, left, undo, newer, restored, stopped>>

\* What is being replaced becomes a restore point, if it can be.
KeepUndo ==
  /\ rpc = "undo"
  /\ \/ /\ Persist(clock, conf)
        /\ undo' = [id |-> clock, data |-> conf, kept |-> TRUE]
        /\ UNCHANGED warned
     \/ /\ PersistFails(clock)
        /\ undo' = [id |-> clock, data |-> conf, kept |-> FALSE]
        /\ UNCHANGED warned
     \/ /\ Fault /\ warned' = TRUE
        /\ UNCHANGED <<snaps, undo>>
  /\ Step("drop") /\ Watch
  /\ UNCHANGED <<uciVars, journal, coordVars, timerVars, callVars, clock, issued,
                 historyVars, admitted, left, newer, restored, stopped>>

\* Mutant: the draft is left alone.
LeaveDraft ==
  /\ rpc = "drop"
  /\ newer' = {}
  /\ Step("write") /\ Watch
  /\ UNCHANGED <<vars, left, undo, warned, restored, stopped>>

\* The draft is dropped, with a warning when that fails part of the way.
DropDraft ==
  /\ rpc = "drop"
  /\ \E D \in SUBSET Packages :
       /\ draft' = Mix(draft, NoDraft, D)
       /\ IF D = Packages THEN NoFault /\ UNCHANGED warned
          ELSE Fault /\ warned' = TRUE
  /\ newer' = {}
  /\ Step("write") /\ Watch
  /\ UNCHANGED <<conf, diskVars, coordVars, timerVars, callVars, clock, issued,
                 historyVars, admitted, left, undo, restored, stopped>>

\* Mutant: the whole of /etc/config, as the daemon unpacks it.
WriteEverything(p) ==
  /\ rpc = "write" /\ p \in left
  /\ conf' = point
  /\ accepted' = [accepted EXCEPT ![p] = point[p]]
  /\ left' = left \ {p}
  /\ Step("write") /\ Watch
  /\ UNCHANGED <<draft, diskVars, coordVars, timerVars, callVars, boundVars, tried,
                 breach, admitted, undo, warned, newer, restored, stopped>>

\* One file after the other, each whole; the operator asked for it.
WriteFile(p) ==
  /\ rpc = "write" /\ p \in left
  /\ conf' = [conf EXCEPT ![p] = point[p]]
  /\ accepted' = [accepted EXCEPT ![p] = point[p]]
  /\ left' = left \ {p}
  /\ Step("write") /\ Watch
  /\ UNCHANGED <<draft, diskVars, coordVars, timerVars, callVars, boundVars, tried,
                 breach, admitted, undo, warned, newer, restored, stopped>>

\* A file that cannot be written ends the command, whatever was put back.
WriteFails ==
  /\ rpc = "write" /\ left # {}
  /\ Fault
  /\ stopped' = IF undo # NoSnap /\ undo.kept /\ ~raced /\ ~Busy THEN undo.data ELSE Gone
  /\ left' = {}
  /\ Step("off") /\ Watch
  /\ UNCHANGED <<uciVars, diskVars, coordVars, timerVars, callVars, clock, issued,
                 historyVars, admitted, undo, warned, newer, restored>>

\* Mutant: -force puts the files back and leaves the record.
LeaveRecord ==
  /\ rpc = "write" /\ left = {}
  /\ Step("reload") /\ Watch
  /\ UNCHANGED <<vars, left, undo, warned, newer, restored, stopped>>

\* With -force the record of the pending change is removed: the next start
\* would undo the whole of /etc/config.
ClearPending ==
  /\ rpc = "write" /\ left = {}
  /\ IF force
       THEN \/ journal' = NoRec /\ NoFault /\ UNCHANGED warned
            \/ journal' = journal /\ Fault /\ warned' = TRUE
       ELSE UNCHANGED <<journal, faults, warned>>
  /\ Step("reload") /\ Watch
  /\ UNCHANGED <<uciVars, snaps, coordVars, timerVars, callVars, clock, issued,
                 historyVars, admitted, left, undo, newer, restored, stopped>>

\* The services are told, or the person is told to reboot: the end.
Reload ==
  /\ rpc = "reload"
  /\ restored' = IF /\ ~warned /\ Differs(point, conf) = {}
                    /\ pc \in {"free", "down"} /\ issued = begun
                   THEN Part(conf) ELSE Gone
  /\ Step("off") /\ Watch
  /\ UNCHANGED <<vars, left, undo, warned, newer, stopped>>

\* The command is cut off, alone or with the router.
Killed ==
  /\ rpc # "off"
  /\ Fault
  /\ Step("off")
  /\ left' = {} /\ raced' = TRUE
  /\ UNCHANGED <<uciVars, diskVars, coordVars, timerVars, callVars, clock, issued,
                 historyVars, admitted, undo, warned, newer, restored, stopped>>

-----------------------------------------------------------------------------
\* The daemon of ApplyTx.  Of the operator's requests those that make, apply,
\* keep or undo a draft of several files; one of a single file, and the Wi-Fi
\* that is applied at once, meet the same files and are left to ApplyTx.
Daemon ==
  \/ HolderStep
  \/ Boot
  \/ \E v \in Values : Stage(v)
  \/ Apply
  \/ \E t \in Tokens : Confirm(t) \/ Expire(t) \/ AutoRevert(t)
  \/ Revert
  \/ \E rebooted \in BOOLEAN : Crash(rebooted)
  \/ Tick

\* A step of the daemon, and what it means for the command's story.
DaemonStep ==
  /\ Daemon
  /\ newer' = newer \cup {p \in Packages : draft'[p] # draft[p]}
  /\ restored' = IF (conf' # conf /\ op # "recover") \/ issued' # issued
                   THEN Gone ELSE restored
  /\ stopped' = IF conf' # conf \/ snaps' # snaps THEN Gone ELSE stopped
  /\ raced' = (raced \/ (rpc # "off" /\ Busy'))
  /\ UNCHANGED commandVars

RestoreNext ==
  \/ DaemonStep
  \/ \E f \in BOOLEAN : ReadPoints(f)
  \/ CheckPending
  \/ KeepUndo
  \/ DropDraft
  \/ \E p \in Packages : WriteFile(p)
  \/ WriteFails
  \/ ClearPending
  \/ Reload
  \/ Killed

RestoreSpec == RestoreInit /\ [][RestoreNext]_routerVars

-----------------------------------------------------------------------------
(* Properties.                                                              *)

\* RestoredStays: what a command that ended without a warning has put back is
\* not undone by the daemon's next start, nor by the ones after it, -force over
\* a pending change included; only a new change, or the panel that was not
\* restarted as the command asks, replaces it.
RestoredStays == restored # Gone => Part(conf) = restored

\* NothingOldStaged: and the draft holds nothing from before it, which "would
\* be committed by the next apply and quietly bring back what is being removed".
NothingOldStaged == restored # Gone => Staged \subseteq newer

\* SettledUnlessRaced: a command that met an idle daemon, or none, leaves the
\* promise of ApplyTx alone: with no change pending and none of its own steps
\* left, the router runs what was last confirmed, made final or restored.
SettledUnlessRaced == ~raced /\ rpc = "off" => SettledIsAccepted

\* StoppedIsUndone: when it stops with only some of the files put back, the
\* same command given again puts back all of what it was replacing.
StoppedIsUndone ==
  stopped # Gone /\ conf # stopped /\ rpc = "off" =>
    \A i \in Chosen : snaps[i] = stopped
=============================================================================
