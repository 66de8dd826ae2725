--------------------------- MODULE DeviceInternet ---------------------------
(***************************************************************************)
(* Turning a device's internet off, and scheduling it: StageDeviceInternet *)
(* (openwrt/devices_internet.go) and StageDeviceSchedule                   *)
(* (openwrt/devices_schedule.go) write firewall sections into the draft,   *)
(* one uci command after another, under the coordinator's mutex.  A        *)
(* command may fail, and so may the undo that follows; the daemon may die  *)
(* in between and leave the draft as it is; a section may be switched off  *)
(* by hand.  Requests that are refused before the first command (a guest   *)
(* device, no local zone, a firewall that cannot be checked) change        *)
(* nothing.                                                                *)
(***************************************************************************)
EXTENDS Schedule

CONSTANTS
  Devices,
  Offered,    \* bound: the schedules the operator asks for
  MaxFaults,  \* bound: commands that fail, deaths, switches by hand
  Unknown     \* a device whose sections were left half written, or edited

ASSUME OfferedAssumption == /\ Offered \subseteq Schedules
                            /\ MaxFaults \in Nat
                            /\ Unknown \notin Schedules \cup {NoSchedule}

VARIABLES
  conf,    \* the committed firewall: each device's sections
  view,    \* the same with the draft on top, as uci shows it
  pc,      \* the next command of the call that holds the mutex
  mac,     \* the device it is about
  want,    \* the schedule it asks for
  unread,  \* it took a section that could not be read for one not there
  now,     \* the router's local time: day and minute
  faults,
  asked,   \* history: the schedule asked for, per device, in the draft
  agreed   \* history: the same, in the committed firewall

callVars    == <<pc, mac, want, unread>>
historyVars == <<asked, agreed>>
deviceVars  == <<conf, view, callVars, now, faults, historyVars>>

Steps == {"idle", "block", "delete", "evening", "morning", "check", "undo"}
Halves == {"evening", "morning"}

\* block: "off" is switched off by hand, "half" cut short.
Entries == [evening : Sections \cup {NoSection},
            morning : Sections \cup {NoSection},
            block : {"none", "on", "off", "half"}]

DeviceTypeOK ==
  /\ conf \in [Devices -> Entries]
  /\ view \in [Devices -> Entries]
  /\ pc \in Steps
  /\ mac \in Devices
  /\ want \in Schedules \cup {NoSchedule}
  /\ unread \in BOOLEAN
  /\ now \in [day : Days, minute : Minutes]
  /\ faults \in 0 .. MaxFaults
  /\ asked \in [Devices -> Schedules \cup {NoSchedule, Unknown}]
  /\ agreed \in [Devices -> Schedules \cup {NoSchedule, Unknown}]

Nothing == [evening |-> NoSection, morning |-> NoSection, block |-> "none"]

DeviceInit ==
  /\ conf = [d \in Devices |-> Nothing]
  /\ view = conf
  /\ pc = "idle" /\ mac \in Devices /\ want = NoSchedule
  /\ unread = FALSE
  /\ now = [day |-> 0, minute |-> 0]
  /\ faults = 0
  /\ asked = [d \in Devices |-> NoSchedule]
  /\ agreed = asked

Fault == faults < MaxFaults /\ faults' = faults + 1
NoFault == faults' = faults

\* The call lets go of the mutex, or goes on.
Returns ==
  pc' = "idle" /\ want' = NoSchedule /\ unread' = FALSE /\ UNCHANGED mac
Goto(step) == pc' = step /\ UNCHANGED <<mac, want, unread>>

Listed(entries, d) == Shown(entries[d].evening, entries[d].morning)

SwitchedOff(r) == r # NoSection /\ ~r.on

-----------------------------------------------------------------------------
(* StageDeviceInternet.                                                     *)

\* Off: a block that is there is left alone, also one switched off by hand;
\* otherwise its section is written.  One that cannot be read is taken for
\* absent.
BlockDevice(d) ==
  /\ pc = "idle"
  /\ IF view[d].block = "none" THEN NoFault ELSE Fault
  /\ pc' = "block" /\ mac' = d
  /\ UNCHANGED <<want, unread, conf, view, now, historyVars>>

\* What the commands make of it: all of them, and some.  None of them switches
\* it on, and a whole section is not taken apart.
Whole(block)  == IF block = "off" THEN block ELSE "on"
Partly(block) == IF block \in {"on", "off"} THEN block ELSE "half"

\* Mutant: the section is replaced, and is on again.
WriteBlockAnew ==
  /\ pc = "block"
  /\ view' = [view EXCEPT ![mac].block = "on"]
  /\ NoFault
  /\ Returns
  /\ UNCHANGED <<conf, now, historyVars>>

\* The section written and accepted, or taken back, or left as it was or half
\* written, or written and not taken back.
WriteBlock ==
  /\ pc = "block"
  /\ \/ /\ view' = [view EXCEPT ![mac].block = Whole(@)]
        /\ NoFault
     \/ /\ LET b == view[mac].block
           IN  \E left \in {conf[mac].block, b, Partly(b), Whole(b)} :
                 view' = [view EXCEPT ![mac].block = left]
        /\ Fault
  /\ Returns
  /\ UNCHANGED <<conf, now, historyVars>>

\* On: one command, which happens or fails.
UnblockDevice(d) ==
  /\ pc = "idle"
  /\ view[d].block # "none"
  /\ view' = [view EXCEPT ![d].block = "none"]
  /\ UNCHANGED <<callVars, conf, now, faults, historyVars>>

-----------------------------------------------------------------------------
(* StageDeviceSchedule.                                                     *)

\* Refused while one of the sections is switched off; nothing to do when the
\* device is listed with just this schedule, or with none and none is wanted.
\* Either may be overlooked when the firewall cannot be read.
StageDeviceSchedule(d, s) ==
  /\ pc = "idle"
  /\ s # NoSchedule => Clean(s)
  /\ s = NoSchedule => Listed(view, d) # NoSchedule
  /\ IF s = Listed(view, d) \/ \E p \in Halves : SwitchedOff(view[d][p])
       THEN Fault ELSE NoFault
  /\ pc' = "delete" /\ mac' = d /\ want' = s
  /\ UNCHANGED <<unread, conf, view, now, historyVars>>

\* What is there is deleted, the evening's section first; what cannot be read
\* is taken for absent, and stays.
DeleteSections ==
  /\ pc = "delete"
  /\ \/ \E kept \in SUBSET {p \in Halves : view[mac][p] # NoSection} :
          /\ view' = [view EXCEPT
               ![mac].evening = IF "evening" \in kept THEN @ ELSE NoSection,
               ![mac].morning = IF "morning" \in kept THEN @ ELSE NoSection]
          /\ IF kept = {} THEN NoFault ELSE Fault
          /\ unread' = (kept # {})
          /\ pc' = IF want = NoSchedule THEN "check" ELSE "evening"
          /\ UNCHANGED <<mac, want>>
     \/ /\ view' \in {view, [view EXCEPT ![mac].evening = NoSection]}
        /\ Goto("undo")
        /\ Fault
  /\ UNCHANGED <<conf, now, historyVars>>

WriteEvening ==
  /\ pc = "evening"
  /\ \/ /\ view' = [view EXCEPT ![mac].evening = Written(Evening(want), @)]
        /\ Goto(IF Morning(want) = NoSection THEN "check" ELSE "morning")
        /\ NoFault
     \/ /\ \E r \in Cut(Evening(want), view[mac].evening) :
             view' = [view EXCEPT ![mac].evening = r]
        /\ Goto("undo")
        /\ Fault
  /\ UNCHANGED <<conf, now, historyVars>>

WriteMorning ==
  /\ pc = "morning"
  /\ \/ /\ view' = [view EXCEPT ![mac].morning = Written(Morning(want), @)]
        /\ Goto("check")
        /\ NoFault
     \/ /\ \E r \in Cut(Morning(want), view[mac].morning) :
             view' = [view EXCEPT ![mac].morning = r]
        /\ Goto("undo")
        /\ Fault
  /\ UNCHANGED <<conf, now, historyVars>>

\* fw4 accepts the draft, or it is taken back.
CheckDraft ==
  /\ pc = "check"
  /\ \/ /\ Returns
        /\ asked' = [asked EXCEPT ![mac] = IF unread THEN Unknown ELSE want]
        /\ NoFault
     \/ Goto("undo") /\ asked' = asked /\ Fault
  /\ UNCHANGED <<conf, view, now, agreed>>

\* Mutant: only the section that failed is taken back.
UndoMorning ==
  /\ pc = "undo"
  /\ view' = [view EXCEPT ![mac].morning = conf[mac].morning]
  /\ asked' = [asked EXCEPT ![mac] = agreed[mac]]
  /\ Returns
  /\ UNCHANGED <<conf, now, faults, agreed>>

\* The device's two sections go back to what is committed, an earlier draft of
\* theirs included; a revert that fails is ignored.
Undo ==
  /\ pc = "undo"
  /\ \E back \in SUBSET Halves :
       /\ view' = [view EXCEPT
            ![mac].evening =
              IF "evening" \in back THEN conf[mac].evening ELSE @,
            ![mac].morning =
              IF "morning" \in back THEN conf[mac].morning ELSE @]
       /\ asked' = [asked EXCEPT
            ![mac] = IF back = Halves THEN agreed[mac] ELSE Unknown]
       /\ IF back = Halves THEN NoFault ELSE Fault
  /\ Returns
  /\ UNCHANGED <<conf, now, agreed>>

-----------------------------------------------------------------------------
(* Around it.                                                               *)

\* The transaction commits the draft, or the operator discards it.
CommitDraft ==
  /\ pc = "idle"
  /\ conf' = view /\ agreed' = asked
  /\ UNCHANGED <<view, callVars, now, faults, asked>>

DiscardDraft ==
  /\ pc = "idle"
  /\ view' = conf /\ asked' = agreed
  /\ UNCHANGED <<conf, callVars, now, faults, agreed>>

\* The daemon dies; a reboot also loses the draft.
Die(rebooted) ==
  /\ Fault
  /\ Returns
  /\ IF rebooted
       THEN view' = conf /\ asked' = agreed
       ELSE /\ LET b == view[mac].block
               IN  \E left \in IF pc = "block" THEN {b, Partly(b), Whole(b)}
                               ELSE {b} :
                     view' = [view EXCEPT ![mac].block = left]
            /\ asked' = [asked EXCEPT
                 ![mac] = IF pc \in {"idle", "block"} THEN @ ELSE Unknown]
  /\ UNCHANGED <<conf, now, agreed>>

\* Somebody switches one of the sections off or on, in LuCI.
SwitchByHand(d, p) ==
  /\ pc = "idle"
  /\ conf[d] = view[d] /\ conf[d][p] # NoSection
  /\ Fault
  /\ conf' = [conf EXCEPT ![d][p].on = ~@]
  /\ view' = [view EXCEPT ![d][p].on = ~@]
  /\ asked' = [asked EXCEPT ![d] = Unknown]
  /\ agreed' = [agreed EXCEPT ![d] = Unknown]
  /\ UNCHANGED <<callVars, now>>

SwitchBlockByHand(d) ==
  /\ pc = "idle"
  /\ conf[d] = view[d] /\ conf[d].block \in {"on", "off"}
  /\ Fault
  /\ conf' = [conf EXCEPT ![d].block = IF @ = "on" THEN "off" ELSE "on"]
  /\ view' = [view EXCEPT ![d].block = IF @ = "on" THEN "off" ELSE "on"]
  /\ UNCHANGED <<callVars, now, historyVars>>

\* A minute passes.
Tick ==
  /\ now' = IF now.minute + 1 < DayLength
            THEN [now EXCEPT !.minute = @ + 1]
            ELSE [day |-> (now.day + 1) % WeekLength, minute |-> 0]
  /\ UNCHANGED <<conf, view, callVars, faults, historyVars>>

DeviceNext ==
  \/ \E d \in Devices : BlockDevice(d) \/ UnblockDevice(d)
  \/ \E d \in Devices, s \in Offered \cup {NoSchedule} :
       StageDeviceSchedule(d, s)
  \/ WriteBlock \/ DeleteSections \/ WriteEvening \/ WriteMorning
  \/ CheckDraft \/ Undo
  \/ CommitDraft \/ DiscardDraft
  \/ \E b \in BOOLEAN : Die(b)
  \/ \E d \in Devices, p \in Halves : SwitchByHand(d, p)
  \/ \E d \in Devices : SwitchBlockByHand(d)
  \/ Tick

DeviceSpec == DeviceInit /\ [][DeviceNext]_deviceVars

-----------------------------------------------------------------------------
\* ApplySchedule: what the list says of a device by the router's clock.
OffBySchedule(entries, d, t) ==
  Listed(entries, d) # NoSchedule /\ OffAt(Listed(entries, d), t.day, t.minute)

\* ApplySchedule: when the list says this changes.
ScheduleChangeAt(entries, d, t) ==
  IF Listed(entries, d) = NoSchedule THEN Unset
  ELSE NextChange(Listed(entries, d), t.day, t.minute)

\* AskedIsListed: what the list shows is what was asked for last, through
\* stagings that fail at any command and are undone, drafts that are discarded,
\* committed or lost; unless the device's sections were left half written or
\* edited by hand, or a section of theirs could not be read.
AskedIsListed ==
  pc = "idle" => \A d \in Devices :
    /\ asked[d] # Unknown => Listed(view, d) = asked[d]
    /\ agreed[d] # Unknown => Listed(conf, d) = agreed[d]

\* ListedIsEnforced: at any second the firewall rejects a device by its
\* schedule's rules exactly when the list says it is off, except in the one
\* second in which the window ends.
ListedIsEnforced ==
  \A d \in Devices :
    LET s     == Listed(conf, d)
        off   == OffBySchedule(conf, d, now)
        rules == {conf[d].evening, conf[d].morning}
    IN  agreed[d] # Unknown =>
          \A second \in 60 * now.minute .. 60 * now.minute + 59 :
            \/ (\E r \in rules : Rejects(r, now.day, second)) <=> off
            \/ s # NoSchedule /\ LastSecond(s, second)

\* PausedStays: a block or a schedule's rule that somebody switched off by hand
\* is not switched on by the panel, also when it was overlooked, but for one
\* that is removed first.
PausedStays ==
  [][\A d \in Devices :
       \/ /\ view[d].block = "off" => view'[d].block # "on"
          /\ \A p \in Halves :
               SwitchedOff(view[d][p]) => Read(view'[d][p]) = NoSection
       \/ SwitchBlockByHand(d)
       \/ \E p \in Halves : SwitchByHand(d, p)]_deviceVars

\* ChangeIsAnnounced: the time the list gives for the next change stays the same
\* until it comes, and then the device goes off or comes back, as announced.
ChangeIsAnnounced ==
  [][\A d \in Devices :
       conf'[d] = conf[d] =>
         IF OffBySchedule(conf', d, now') # OffBySchedule(conf, d, now)
         THEN now'.minute = ScheduleChangeAt(conf, d, now)
         ELSE ScheduleChangeAt(conf', d, now') = ScheduleChangeAt(conf, d, now)
    ]_deviceVars
=============================================================================
