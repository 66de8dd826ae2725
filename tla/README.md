# A formal model of veilbridged

`veilbridged` is the daemon behind a router panel for OpenWrt. It changes the
network configuration of a device whose owner may be far away from it, and it
sends chosen traffic through a VPN. Two promises carry the product:

1. **A change that nobody confirms is undone**, even if the daemon dies.
2. **Traffic meant for the tunnel never leaves by the ordinary uplink.**

Both are kept by several commands of the operating system, one after another,
any of which may fail, while timers fire, other requests arrive and the process
may die. Two more are smaller and used every day: **a device is off the
internet exactly when the panel says so**, and **what the apply bar and the
cards of the panel say about the configuration is what it is**. That is what
this project models, checks with TLC, and for most of its properties proves
with TLAPS for every size of the system.

## Inventory of the system

| Component | State it keeps | Operations | What is hard about it |
|---|---|---|---|
| Apply coordinator (`core/apply.go`) | phase, token, snapshot, last error, watchdog | Apply, ApplyNow, Confirm, Revert, Stage, Exclusive, autoRevert, RecoverPending | a late timer, a stale token, a death between two effects, one failing command of several |
| uci applier (`openwrt/uci.go`) | `/etc/config`, the draft in `/tmp/.uci`, snapshot files | Snapshot, persist, prune, Commit, Revert, dropStaged | half-done commits and restores, the snapshot limit, the wall clock |
| Journal (`openwrt/journal.go`) | `pending-apply.json` | Save, Load, Clear, LoadSnapshot | it is all that survives a death |
| Apply API (`api/server.go`, `api/wifi.go`) | none | apply, confirm, revert, discard, stage…, setWiFiAccess | check-then-act around the coordinator's mutex |
| Draft of a file (`openwrt/network_write.go`) | uci's draft: sections and the lines of `uci changes` | stage, StagedChanges, DiscardStaged | failing halfway through several `uci` calls; the same change described twice, from two reads |
| Uplink, local network, routes (`openwrt/network_write.go`, `lan*.go`, `routes*.go`) | `network`, `dhcp` | StageWAN, StageLAN, StageHandout, reservations, static routes | checks against the running network in one place and against the draft in another |
| Tunnel routing (`openwrt/tunnel_route.go`) | policy rules, two routing tables | Ensure, Up, Down | the rule set is rebuilt while traffic flows |
| VPN manager (`openwrt/vpn.go`) | the running connection, the stored choice | ImportConfig, RemoveNode, Activate, Restore, bringBack | a retry loop racing a person |
| Routing manager (`openwrt/routing.go`) | nftables marks, stored rules | SetRules, Apply, applyUntilDone | marks without rules are a leak |
| Configuration store (`config/store.go`) | one JSON document | Load, Save, Update | lost updates between callers |
| Daemon start (`cmd/veilbridged`, `openwrt/wiring.go`) | none | recover, restore, serve | order |
| Emergency restore (`openwrt/restore.go`) | none; a second process | `-restore-network`, `-force` | works on the same files without the daemon's mutex |
| Internet schedules (`core/schedule.go`, `openwrt/devices_schedule.go`) | firewall rules | StageDeviceSchedule, schedules, OffAt, NextChange | midnight, Sunday, two rules that are one window, a staging that fails halfway |
| Internet off for a device (`openwrt/devices_internet.go`) | firewall rules | StageDeviceInternet | blocks paused by hand, a half-written block |
| Firewall rules (`openwrt/firewall*.go`) | ordered rules, port forwards | add, edit, move, remove, shadowing | order decides the meaning; an answer must survive a reload of the page |
| Guest network (`openwrt/wifi_guest.go`) | a dozen sections of four files | make, turn off and on, remove, status | who owns a section, and whether guests are still kept apart after somebody edited by hand |
| Devices (`openwrt/devices*.go`) | memory of last-seen devices, notes, counters | list, note, wake | bounded memory, counters that reset |
| Live events (`api/events.go`, `web/src/stores/live.ts`) | number of streams | stream | a limit, polling |
| Metrics (`metrics/`) | a ring of samples | sample, history | a clock that is set back |

How they interact: every request that touches the configuration goes through
the coordinator's one mutex (`ApplyCoordinator.mu`). The coordinator calls the
applier and the journal while holding it. Staging handlers first ask the
coordinator whether a change is pending and then stage under the mutex, in two
separate steps. The VPN manager and the routing manager have a mutex each, and
both take the router's mutex inside their own; both read and write the same
stored document. At start the daemon first undoes a pending change, then
restores the policy rules, then starts a goroutine for the connection, then
applies the marks (retrying in the background if that fails), then serves.
procd respawns a daemon that dies (`packaging/openwrt/etc/init.d/veilbridge`).

The properties that make the parts correct are listed with the runs below; the
hazards they are for are in `PROJECT.json` under `hazards`, each at its line.

## Modules

### `ApplyTx`: the apply transaction

State: `conf` (`/etc/config`), `draft` (`/tmp/.uci`), `snaps` (the snapshot
files by id), `journal`, the coordinator's fields under their own names, the
timers (`armed`: running; `firing`: the goroutine is past `Stop` and waits for
the mutex), and the call holding the mutex (`op`, its next effect `pc`, its
local snapshot `cur`).

A coordinator method holds the mutex from start to return, so methods do not
interleave with each other; what comes between two effects of a method is an
expiring timer, the clock, or the death of the process. So each OS effect is an
action: `TakeSnapshot`, `UciCommit`, `ReloadConfig`, `GoLive`, `DropStaged`,
`Unpack`, `ReloadBack`, and for each the way it fails, with everything the
failure can leave behind: any subset of the files committed or restored, any
subset of the drafts dropped, a snapshot file missing, older, or cut short
(`Torn`). `Crash` may happen between any two effects; a reboot also loses the
draft. A death inside a command is the failing form of that command followed by
`Crash`.

`accepted`, `tried` and `breach` are history variables. `breach` names the ways
the safety net is cut, so that properties can say *which* loss they excuse:
died with nothing on disk to undo the change (`netless`, `cut`), a restore that
returned an error (`revertFailed`), a record that could not be removed or read
(`recordKept`, `recordUnread`), a draft committed unread (`blind`). A confirm
with a clean journal resets it.

### `ApplyPromise`: what the operator is promised

Configurations running and kept, and where a change stands: settled, changing,
offered, undoing. What is offered does not move until it is answered; only a
confirm and a finished ApplyNow accept anything; every other way ends on what
was accepted, or with the net known to be cut. `ApplyTx` implements it
(`ImplementsPromise`), checked by TLC and proved in `ApplyTxProofs`.

### `TunnelRouter` and `TunnelManagers`: the tunnel

`TunnelRouter` holds the kernel's state (`rules` by family and priority,
`refusing`, `table`, `dev`) and the router's steps, one per `ip` command or per
priority. A command that fails may still have taken effect. Somebody else may
put a rule on one of the panel's priorities (`ForeignRule`).

`TunnelManagers` composes it with the two managers that share it, the stored
document, the start sequence and the death of the process. Every change of the
store reads the document in one step and writes it in another; `vread` and
`aread` are the copies in between. `Leaks` is the kernel's lookup for a
marked packet: the rules in order of priority.

### `Schedule` and `DeviceInternet`: when a device is off the internet

`Schedule` is pure: a window as the panel knows it (days, from, to), the
decision `OffAt` and the search `NextChange` over it, the one or two firewall
rules that carry it (`Evening`, `Morning`), the way back (`ScheduleFrom`,
`Shown`), and what the firewall makes of a rule (`Rejects`, external: days and
seconds of the day, both ends included). Times are minutes and seconds; their
spelling as HH:MM is left out.

`DeviceInternet` stages them: `conf` is the committed firewall and `view` the
same with the draft on top, per device. StageDeviceSchedule and
StageDeviceInternet hold the coordinator's mutex while they run one `uci`
command after another; `pc` is the next of them. A command may fail after some
of the options (written in alphabetical order, as the code does), the undo may
fail, the daemon may die, a read that fails is taken for "not there", and
somebody may switch a section off or on in LuCI. `asked` and `agreed` are
history: the schedule last asked for in the draft and in the committed
configuration, or `Unknown` where sections were left half written, edited by
hand, or written over a section that could not be read.

### `EmergencyRestore`: the command beside the daemon

`veilbridged -restore-network` is another process on the same files without the
daemon's mutex. The module extends `ApplyTx` with the command, one action per OS
effect (`ReadPoints`, `CheckPending`, `KeepUndo`, `DropDraft`, `WriteFile`,
`ClearPending`, `Reload`), each with its failure, and `Killed`. Between any two
of them the daemon of `ApplyTx` takes any of its steps, dies or starts again.
The history variables tell a command that met an idle daemon from one that did
not (`raced`), and what it had put back (`restored`, until the daemon changes
something itself or a new change goes live) or was replacing when it failed
(`stopped`). Of the daemon's requests the single-file staging and the
Wi-Fi edit are left out: they meet the same files as the ones that stay.

### `UciDraft`, `FirewallRules`, `AddressPool`, `NetworkDraft`: the draft

`UciDraft` is one configuration file with a draft on it: the sequence of its
sections, the lines of `uci changes`, the batch writer `stage` with what it
leaves when it stops after n commands (`Cuts`), and StagedChanges, which
rebuilds the rows of the apply bar from two reads of the device. It is pure and
used by the two modules that follow. Go's filtering loops are `Picked`: what a
sequence has at a set of positions, in its order.

`FirewallRules` has the traffic rules and the port forwards: reading, shadowing
(`Covers`, `ShadowedBy`), adding in front of another, editing in place, moving,
removing. `PortsOf` is the table of what a written list of ports stands for.
The sections that the device screen writes are rules too, listed and accepted by
these operations, but the apply bar has words and rows of its own for them:
`Names` says which ids they have (negative, because `uci` numbers the unnamed
ones) and what their names say, a device's block or a part of its schedule.
`Described` is what a staging answers (ruleWords, portForwardWords), `Words`,
`Says` and `Label` what StagedChanges says (entryWords, describe), and `LineRow`
gives all sections of a schedule the one `ScheduleRow` of their device, from
`ScheduleWords` of the file before and after.
`Matches` and `Decides` are the firewall's first match, external.

`NetworkDraft` has the uplink, this router's address, the handout, the
reservations and the static routes, in two files. Which of its inputs come from
the running network (`LanNetwork`, `Kernel`) and which from the draft is as in
the code, and is what its properties are about. `AddressPool` is the arithmetic
of the handout: first and last address against offset and count. Numbers,
addresses and prefixes are text in the files and read back (`Text`,
`NumberOf`, `PrefixOf`).

A staging is one step here, because it runs under the coordinator's mutex;
what a failure can leave behind is a choice of that step. When the failure is
that the 20 seconds are up, the revert runs under the same expired deadline and
the half-written batch stays (`late`).

### `GuestNetwork`: a network in a dozen sections

The four files are one function from a section's key to the section. `Ours`,
`Foreign`, `Orphans`, `Owned`, `Attached` and `Stray` are readGuestShape's
verdicts, and `Traces` all that looks like a guest network; `Blockers` and
`Weakened` the warnings; `Recipe` what StageGuest writes; `Rows` and `Folds` the apply bar's rows. `EditByHand` is LuCI or a
shell, `LockedStage` another screen of the panel, `RestoreNetwork` the
emergency restore (three files of four), `UplinkMoves` another connection. What
the firewall, dnsmasq and the access points then do with the committed files
(`Reaches`, `Served`) is external, and is what `UnwarnedKeepsPromise` compares
the card with. Sections are compared as a whole where the code compares their
options; file order, names and passwords, negated and IPv6 zone subnets and an
IPv6 uplink in a zone of its own are left out. History: `byHand` are the
sections that somebody else made, changed or took away, in the starting files
the ones that look like a guest network without being the panel's; `waits` is
the guest edit in the draft; `torn` says that its take-back failed, or that a
hand changed a guest section, or whose the committed network is, while it
waited.

### Proof modules

`ApplyTxProofs`, `RestoreProofs` (on top of it), `TunnelProofs`,
`ScheduleProofs`, `UciDraftProofs`, `FirewallProofs` and `NetworkProofs` (both on
top of `UciDraftProofs`) and `GuestProofs`. Each extends its component.

## Runs

| Run | Checks | Bounds |
|---|---|---|
| `apply` | `TypeOK`, `SettledIsAccepted`, `NetIsUp`, `Watched`, `NoEarlyRevert`, `ConfirmKeepsWhatWasSeen`, `ImplementsPromise` | 2 files, 2 contents, 2 transactions, 2 seconds, 1 snapshot kept, 1 fault or death |
| `apply_live` | `TransactionEnds`, `UnacceptedIsUndone` | 1 file, 2 transactions, 2 faults |
| `restore` | `RestoredStays`, `NothingOldStaged`, `SettledUnlessRaced`, `StoppedIsUndone` | 3 files (network, dhcp, wireless), 2 contents, 1 transaction, 1 restore command, 2 snapshots kept, 1 fault |
| `tunnel` | `TunnelTypeOK`, `NoLeak`, `HoldIsReported`, `ReadsUpIsRouted`, `PersonsChoiceStays` | 1 family, 2 connections with different routes, a foreign rule on the hold's priority, imports of a whole document, 1 fault or death |
| `tunnel_live` | `BroughtBack`, `MarksComeBack` | 1 family, 1 connection, foreign rules on one priority, 1 fault or death |
| `device_internet` | `AskedIsListed`, `ListedIsEnforced`, `PausedStays`, `ChangeIsAnnounced` | 1 device, a week of 3 days of 3 minutes, 3 windows, 2 faults |
| `firewall` | `ShadowIsCertain`, `HalfIsLate`, `StagedIsShown`, `PlacedRuleActs`, `ReloadSaysTheSame` | 2 zones, a file of 5 sections (rules and a forward) and one of 6 (a device's block and schedule, a forward without a port and a rule without a zone), 5 rules and 1 forward to ask for, 2 edits, 1 fault |
| `network` | `PoolInside`, `ResolversAreUsed`, `RoutesDistinct`, `OneReservation`, `HandoutReadsBack`, `RowsAfterReload` | 32 addresses, 4 masks, 3 connections, 2 starting configurations, 3 edits, 1 fault |
| `guest` | `UnwarnedKeepsPromise`, `GuestWaitsWhole`, `PromisedPrefixFits`, `GuestRowsAfterReload`, `RemovedForGood` | 2 radios, 2 starting configurations, 19 edits by hand of which one happens, 3 edits of the owner's, 3 steps, 2 faults |
| `survivor`, `invisible`, `lost_rules` | one sentence of the code's comments each, which the code does not keep | those of `apply` with 1 transaction; those of `firewall` with the first file; those of `tunnel_live` with no fault |

Why the bounds are enough: two files show a mixture of configurations; two
transactions show a stale token and a late timer; one snapshot kept puts
`prune` at its limit. One fault is any command failing or the process dying
anywhere; the cases that need two ("a command failed, and so did what was meant
to repair it") are in `apply_live`, `device_internet` and `guest`, with two faults, and the theorems below
hold for any number. Two connections with different routes show routes left
over from the other. A week of three days has a first, a middle and a last one,
a day of three minutes a window within it, one up to midnight, one across, and
one from the last day into the first; devices do not share sections, so one is
enough. Two edits of the firewall reach an entry that is edited and then moved
or removed, and a commit in between; three edits of the network reach an
address, a pool counted from another one, and a dropped draft between them; 32
addresses hold the provider's network, the local one and routes into both.
Three steps of the guest network reach make, restore, remove. Contents of files
are symmetric, and the symmetry is used only in the safety runs.

The type invariants of `ApplyTx` and of the tunnel are checked in their runs
and proved; `DeviceTypeOK` is proved only.

What the properties excuse, and why: `HalfIsLate` and its neighbours excuse
a staging whose time was up (`late`), because the code ignores the error of the
revert; `PoolInside` excuses a handout staged while the draft moves the router,
and a dropped `dhcp` draft (`crossed`), where the code checks nothing;
`OneReservation` excuses a list that could not be read (`unread`);
`PlacedRuleActs` excuses a move of a rule that only a hand can have written (a
protocol the panel does not write, a zone that is not there, ports beside every
protocol), of which MoveRule's check cannot tell;
`StagedIsShown` lists the rows that there are, and leaves out: an entry that was
moved before it was removed, which has no row at all; the options of an entry
that was moved; a moved rule whose number is what it was; the sections of a
schedule, of which the row of the device's schedule is required instead, and none
where a part of it cannot be read as a schedule; and, where a rule comes or goes
or a part of a schedule was moved, any change of order that is not two rules
which changed sides;
`ReloadSaysTheSame` leaves out an edit, a move or a removal of what the apply bar
has other words for: a device's block, its schedule, a forward without a port
on the router, and a rule for every protocol that names no zone and no family;
`RoutesDistinct` excuses a metric of 0 that is written out, which the code reads
as none; `SettledUnlessRaced` excuses a daemon that was in the middle of a
change during the command; `GuestWaitsWhole` excuses a take-back that failed
itself, and a hand that changes guest sections, or whose the committed guest
network is, while one waits; `RemovedForGood` excuses sections in `byHand`.

Fairness. OS commands run under a timeout, so a call that holds a mutex goes
on (weak fairness of its steps); procd respawns the daemon (weak fairness of
the start); a timer that is not stopped expires; a Go mutex does not starve a
waiting goroutine (strong fairness of the tunnel steps that may wait for one,
weak fairness of `AutoRevert`, which nothing can overtake forever once the
bound on transactions is reached); the retry loops never give up. Nothing is
assumed of the operator. Faults are bounded, which is what "eventually" needs:
a command that fails for ever gives no promise.

### What the violation runs show

Each is a sentence in the repository that the code does not keep; the full
quotes and lines are in `PROJECT.json` under `findings`.

- `survivor`: the record is written after the change is live; a death in
  between leaves an unconfirmed change in force.
- `invisible`: a rule that is edited and then moved in one draft shows its move
  only. The same line of code hides more: a rule that is moved and then removed
  has no row, because the line of its move gives none for a section that is gone,
  and the line of its removal is skipped as the same key
  (`openwrt/network_write.go:629-679`).
- `lost_rules`: an import writes back the document it read, and undoes the rules
  saved in between; a removal of a connection does the same. Neither takes the
  file's lock (`Update`).

Further disagreements, and places where a reader of the code should look twice.
Those of the first group were each reproduced with TLC; they are described here
rather than kept as runs.

- The pending check (`api/server.go:889`) and the staging (`:851`) are two
  critical sections; an Apply in between gets a draft on top of the live change,
  against `api/server.go:953` "A change may not be staged on top of one that is
  already live and waiting to be confirmed".
- After a failed revert a Wi-Fi edit through ApplyNow sets the phase to idle and
  the error to nil (`core/apply.go:377`), against `core/apply.go:84-86` "This is
  the state that must never be hidden".
- With a clock that was set back `prune` removes the snapshot just taken
  (`openwrt/uci.go:280`), because ids are sorted as text: `openwrt/uci.go:278`
  "The ID is a sortable UTC timestamp, so lexical order is chronological."
- A rebuild deletes the bypass rule first and the nets rule last
  (`openwrt/tunnel_route.go:187`); in between the engine's own packets to a
  server inside the tunnel's networks enter the tunnel, against
  `vpn/engine.go:78-81`.
- A staging that fails because its time is up cannot revert under the same
  deadline, and the half stays in the draft (`openwrt/network_write.go:371`, two
  lines below "A half-staged batch is not left behind").
- After a reload the pool is shown as the two numbers the router keeps
  (`openwrt/network_write.go:690`), where StageHandout says them as addresses
  ("the operating system talking", `openwrt/lan_write.go:112`).
- A handout is counted from the running address even when the draft moves the
  router (`openwrt/lan_write.go:99`), and a dropped `dhcp` draft leaves an
  address that was checked against it: a pool outside the network, unnoticed.
- A route whose metric is written out as 0 on a connection with another metric
  is read as having none (`openwrt/routes_write.go:96`), so it passes the check
  for a clash. A route without a name is looked up by its number among the
  committed ones (`:322`), which a removal in the draft shifts: a false refusal.
- An edit of an IPv6 route is refused before "only switched on and off" can be
  true of it (`openwrt/routes_write.go:71`).
- What a staging answers and what a reload of the page says are in other words
  for a device's block (`openwrt/network_write.go:955`, `:865`: its address and
  "no internet" against the rule's zones and protocols), for a schedule's section
  (`:652`: one row for the device), for a forward without a port on the router
  (`:969`: nothing) and for a rule for every protocol that names no zone and no
  family (`openwrt/firewall_rules.go:589`: no words, so that the reload says its
  kind), against the comment on StagedChanges (`:550`), "It must
  describe that draft exactly the way StageWAN described it when it was created".
- A row for a move is dropped when the rule's number is unchanged although other
  rules came or went around it (`openwrt/network_write.go:767`).
- After `-restore-network -force` the Wi-Fi part of the unconfirmed change stays;
  and a panel that is not restarted, as the command asks, still has its timer and
  undoes what was put back.
- Turning the guest network off access point by access point is not a guest row,
  so lockedStage does not refuse then (`api/server.go:873`); an orphaned access
  point changed by hand while its removal waits hides the guest row.

Named by the model, which excuses them where a property would fail:

- The Wi-Fi edit applied at once takes an unreadable draft for an empty one
  (`api/wifi.go:315`) and commits other people's edits, where the same file says
  at line 168 that "a draft that cannot be read is not an empty one".
  `SettledIsAccepted` excuses it by `breach` (`blind`).
- A section that cannot be read is taken for absent
  (`openwrt/devices_schedule.go:220`), so it stays and is written over, also one
  switched off by hand. `AskedIsListed` excuses it by `unread`.
- A block half written by a daemon that died counts as a block for ever
  (`openwrt/devices_internet.go:110`): asking again changes nothing.
- A record that could not be removed (`recordKept`) is forgotten by the next
  ApplyNow, which sets the error to nil (`core/apply.go:378`); a later start
  then undoes a confirmed change. `SettledIsAccepted` excuses it by `breach`.
- A snapshot that could not be saved is not reported (`openwrt/uci.go:141`,
  below a comment that says to report it); `NetIsUp` excuses it by `kept`,
  which is a field of the model only.
- A foreign rule on the hold's priority, beside a hold left behind, makes every
  rebuild stop at adding a rule the kernel already has
  (`openwrt/tunnel_route.go:181`), so the marks never come back. `tunnel_live`
  puts foreign rules on another priority; with `"hold"` in `ForeignAt` and two
  faults TLC finds `MarksComeBack` violated.

## Theorems

All are for arbitrary constants within the named assumptions, which TLC
evaluates in the runs. They say that bounds are naturals, that sentinels differ
from values, that at least one snapshot is kept and one address family is
there; where a proof reads configuration files, that the files a run starts
from, and what others write into them, are what `uci show` can print. The
inductive invariants were checked with TLC before they were proved.

`ApplyTxProofs`: the inductive invariant `IInv` is the conjunction of

- `TypeOK`;
- `ControlInv`: which `op`, `cur`, `phase` and `token` go with each `pc`;
- `DiskInv`: the snapshot of the call in progress and of the pending
  transaction is on disk if it could be written, no snapshot is from the future,
  and a change that is undone at a start is undone to the recorded one;
- `TimerInv`: no timer or goroutine carries a token not yet issued, and a
  pending change has one of its own;
- `NetInv`: while nothing is cut, every path from the current `pc` leads back
  to the accepted configuration, and so does a restart.

`SettledIsAccepted` alone is not inductive: it says nothing about the middle of
a call, where the device runs neither configuration; `NetInv` says what the
rest of the call, or a restart, will make of it. From `IInv` follow
`TypeCorrect`, `ChangeIsKeptOnlyIfAccepted`, `RestartUndoes`, `AlwaysWatched`,
`OnlyOwnTimerReverts`, `ConfirmIsBoundToToken` and `PromiseKept` (step simulation of `ApplyPromise`).

`TunnelProofs`: `TunnelInv` is the conjunction of `TunnelTypeOK`, `LockInv`
(who holds the router's mutex), `HoldInv` (inside a rebuild the hold and the
refusal are in place), `DoneInv` (families already verified), `RefusedInv`
(while anything is marked, or an Ensure returned without error, marked traffic
is refused in every family), `DeviceInv` (device, routes and `up` agree at every
step of the VPN manager). From it follow `TunnelTypeCorrect`, `NothingLeaks`,
`UpMeansRouted`, `HoldsAreReported`, `ChoiceIsThePersons`.

`ScheduleProofs`, for any length of the day and the week and any number of
devices: `ReadsBack` (a schedule reads back as it was written) and
`RulesSayTheSame` (its rules reject exactly when `OffAt` says so) are about the
pure operators. `DeviceInv` is the conjunction of `DeviceTypeOK`, `AgreedInv`
and `AskedInv` (sections whose history is known carry that schedule and nothing
else: the property of the list alone would allow a stray morning rule that the
firewall obeys) and `CallInv` (what the sections of the device in hand hold
before each command). From it and the two facts follow `DeviceTypeCorrect`,
`ListShowsWhatWasAsked` and `FirewallDoesWhatIsListed`. In the one second in
which a window ends the firewall still rejects and the panel does not
(`LastSecond`): the firewall's hour match includes its end.
`ChangeComesWhenAnnounced` is about NextChange, which searches minute by minute
and at most a week ahead: from one minute to the next either the device changes
at the announced minute or the announcement stays. The proof takes the least
number of minutes to a change (the naturals are well founded) and, where there
is none, uses that the week comes round. `ChangesComeAsAnnounced` carries it to
the running clock. `PausedIsLeftAlone` needs one more invariant, `OffInv`
(nothing is off in the draft that is not off in the committed firewall: only a
hand switches off, and in both), and goes through what each `uci` command may do
to the switch of a section.

`RestoreProofs`: the command and the daemon share files without a mutex, so the
daemon's own invariant breaks where they race. `RestoreInv` keeps of it `TypeOK`
and `ControlInv`, and adds `CommandTypeOK`, `SnapsInv` (no snapshot from the
future), `QuietInv` (`DiskInv` and `NetInv` as long as no command met a busy
daemon, which stays idle during the command), `StoryInv` (what a command has done
before each of its steps: nothing old in the draft, no record that a start would
undo, and what was put back still there) and `UndoInv` (what a half-done command
was replacing is the newest point to go back to). The steps of the daemon are
not gone through again for each: `DaemonDoes` bounds what they do to what is
shared, and the lemmas of `ApplyTxProofs` give `QuietInv`. From it follow
`RestoreIsLasting`, `RestoreDropsTheDraft`, `RestoreKeepsThePromise` and
`StoppedComesBack`.

`UciDraftProofs` has no theorem of its own; its lemmas, for every file, batch and
list of lines, carry the proofs of both drafts. The first group is about
sequences: what `Picked` keeps and in which order, and what it keeps of a
sequence that changed in one place. The second is about `uci`: what a set, an
add, a delete and a reorder leave of the sections and of their order. The third
is about `Recorded`, a relation between committed file, draft and lines: a
section that came, went, changed in an option or moved has a line that says so,
and the sections nobody moved are in the order they were in. It holds of an
empty draft and each `uci` command keeps it. The last is about the apply bar: one
row per key, at the place of its first line, and none where nothing differs.

`FirewallProofs`: `CoversMatches` (a rule that covers another matches each of
its packets) gives `RefusedRuleIsSilent` for any rules in the draft;
`FailureIsWhole` is an invariant over the actions and over what a batch leaves
when it stops after n commands. `FirewallInv` says that the draft is `Recorded`,
that its sections have the options of their kind, and that without lines it is
the committed file; `DraftIsRecorded` is that it is an invariant, through every
action, every point at which a batch may stop and every revert.
`StagedIsShown` alone is not inductive: a row depends on which line of a section
came first, so the proof needs what every line stands for.
`ApplyBarShowsTheDraft` follows, for the rows that `StagedIsShown` lists and no
others, and `AnswerIsTheBar` computes the rows that each staging answers with and
the ones that StagedChanges makes of the draft it leaves; for an entry that is
not `Reworded` the two have the same words. `PlacedIsHeard` has two halves: StageRule and MoveRule look at exactly the
rules that will stand in front (positions are shifted by the insertion, and the
row is moved among sections that are no rules), and where `Covers` says no there
is a packet between the two rules. Assumed: the starting files are well formed
(`FilesAssumption`), different sections of the device screen have different names
and no number (`NamesAssumption`), requests carry known protocols and port lists
(`BodiesAssumption`), no zone is called `*` or is without a name, and ports are
positive (`FirewallAssumption`).

`NetworkProofs`: `NetworkInv` is the conjunction of `FilesInv` (sections are
well formed and named once, and the local network's are there), `PoolInv` (every
pool lies in the network of every address that it may meet through a commit or a
dropped draft: the committed pool in the committed network, the draft's in the
committed one and in the draft's), `TidyInv` (resolvers, connections and routes)
and `HostInv` (one reservation for a device), both of the draft and of the
committed files, and `FlagsInv` (types of the history variables). `PoolInside` alone is not inductive, because a draft of one
file can be dropped while the other stays. From it follow `PoolStaysInside`,
`ResolversStayUsed`, `RoutesStayDistinct`, `DeviceReservedOnce`, and with the
arithmetic of `AddressPool` `HandoutReturns`. `NetworkAnswerIsTheBar` needs
`EmptyInv` besides (without lines the draft of `network` is the committed file)
and compares, for the uplink, the address and the routes, the rows of the answer
with those rebuilt from the lines: each option that a batch changes has one
line and one row, in the order of the batch. Assumed: that different numbers
and prefixes are written differently (`TextAssumption`), that a run starts from
files which have the properties themselves (`FilesAssumption`), and requests the
API could parse (`RequestsAssumption`).

`GuestProofs`: `GuestInv` is the conjunction of `SoundInv` (the files are well
formed; what looks like a guest network and is none of the panel's is in
`byHand`) and `WaitInv` (until something is torn, what waits is the difference
between draft and disk up to what others did, and the guest network is the
panel's in one of the two and not in the other). The second half of `WaitInv` is
why the locks work: `WaitsPending` shows that then the apply bar has the row
which lockedStage looks for. `SilentCardKeepsPromise` compares two readings of
the same files: `Whole` is what a network without a warning has, `OneZone` that
fw4 takes guests into its zone and no other, and a lemma per promise follows.
It needs that a zone has a name other than `*` (`FilesAssumption`): in a
forwarding that name means every zone. `DraftWaitsWhole`
and `RemovedIsGone` follow from `GuestInv`; `AnswersAreTheBar` computes the rows
of each edit (`MadeRows`, `TurnedRows`, `RemovalRows`) on the empty draft it was
staged on. `PromiseFits` needs one more invariant, `SizesInv` (the sections of
`network` are finitely many and their lengths are numbers), and two facts. What
guestIPv6 adds up in a loop is the number of things in a set (`Things`), whatever
the order of the loop: induction over the parts of a finite set, stated for a set
of parts rather than a predicate (`PartByPart`), from the least number of a set
of naturals. And the sum decides: with the larger parts first, each begins where
those before it end, which is a multiple of its own size because sizes are powers
of two, and what is left behind the last one is the guests' /64 (`CutInTurn`,
`RoomCutsUp`). Assumed: lengths are numbers (`SizesAssumption`), of any size.

Only model-checked:

- the four liveness properties (`TransactionEnds`, `UnacceptedIsUndone`,
  `BroughtBack`, `MarksComeBack`): the prover handles neither fairness nor
  `ENABLED`. Every other property of a passing run is stated by a theorem;
- the violations, which are counterexamples and need no proof.

## Abstractions to know about

- The contents of a configuration file are a value; a snapshot is the whole
  configuration. Deadlines are an expiry that may come at any time.
- In `ApplyTx` the staging of one page is one step that may be refused, succeed
  or fail and drop the file's draft; what it writes is in the modules of the
  draft and of the guest network, which in turn leave out the coordinator.
- The files of the draft modules hold the options the panel writes; `more`
  stands for conditions it does not show.
- The files of `FirewallRules` hold no section of the guest network, whose rows
  are in `GuestNetwork`. A device's blocks and schedules are among its sections as
  the rules' screen sees them; what their own screen does is in `Schedule` and
  `DeviceInternet`. Times of a schedule have one spelling there (`Clock`), and its
  weekdays are the text that is written.
- A reservation without a MAC address, of which the apply bar has no words, and the
  guest network's name, of which its row has some, are left out of the rows.
- `NetworkDraft` lets StageReservation take an address outside the network where
  the local network cannot be read, as the code does; no property speaks of it.
- `GuestNetwork` keeps one restore point; the restore puts back what it finds there,
  and takes a new one, or fails to.
- A failed snapshot in ApplyNow leaves the Wi-Fi edit in the draft, as in the
  code.
- Families are processed in any order (the code: IPv4, then IPv6); the routes of
  a family are added all or none.
- The rules stored by the operator are abstracted to whether they mark anything.
- A connection removed from the document behind bringBack's back is retried for
  ever, as in the code; `BroughtBack` excludes it.

## Not modelled, and why

- Devices, traffic counters and wake (`openwrt/devices.go`, `devices_traffic.go`,
  `devices_wake.go`): readers of kernel tables with a bounded memory; planned.
- Live events and metrics (`api/events.go`, `metrics/`): a stream limit, a polled
  phase and a ring of samples; planned.
- The configuration store beyond the VPN and routing managers' use of it: device
  notes and the rules' read-modify-write (`api/server.go:506`); planned.
- The readers of system state, the netstack engine, the mock adapter, the web
  panel and sessions: parsing, a third-party network stack, a demonstration, a
  user interface and stateless tokens, without state that a sequence of steps
  could break.

## Plan

Done: every module above with its run, and the proofs of the eight proof
modules. Next, most important first:

1. `ConfigStore`: device notes, rules and nodes; which updates can be lost.
2. `EventStream`, `MetricsRing`, `DeviceMemory`: limits, polling, clock steps.
