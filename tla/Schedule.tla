------------------------------ MODULE Schedule ------------------------------
(***************************************************************************)
(* A device's internet schedule (core/schedule.go) and the firewall rules  *)
(* that carry it (openwrt/devices_schedule.go).  The panel knows a window  *)
(* by the days it starts on and two times of day; the firewall knows rules *)
(* with the days they hold on and two seconds of the day, both included.   *)
(* A window across midnight is one window for the panel and two rules for  *)
(* the firewall.  Times of day are minutes: HH:MM is only their spelling.  *)
(***************************************************************************)
EXTENDS Integers

CONSTANTS
  WeekLength,  \* 7
  DayLength,   \* 24 * 60
  Unset,       \* an option that is not there
  NoSection,   \* a section that is not there
  NoSchedule   \* a device without a schedule

Days    == 0 .. WeekLength - 1
Minutes == 0 .. DayLength - 1
Seconds == 0 .. 60 * DayLength - 1

Schedules == [days : SUBSET Days, from : Minutes, to : Minutes]

\* The options of a rule that differ from one schedule to another, in the order
\* they are written; "on": not switched off by hand.
Sections == [start : Seconds \cup {Unset}, stop : Seconds \cup {Unset},
             target : BOOLEAN, days : {Unset} \cup SUBSET Days, on : BOOLEAN]

ASSUME WeekAssumption == WeekLength \in Nat \ {0} /\ DayLength \in Nat \ {0}
ASSUME UnsetAssumption == /\ Unset \notin Seconds
                          /\ Unset \notin Minutes
                          /\ \A D \in SUBSET Days : Unset # D
ASSUME NothingAssumption == /\ NoSection \notin Sections
                            /\ NoSchedule \notin Schedules

-----------------------------------------------------------------------------
(* What the panel says.                                                     *)

\* CleanSchedule refuses a window without days, and one that ends as it starts.
Clean(s) == s.days # {} /\ s.from # s.to

\* Mutant: Sunday night ends at midnight.
OffAtNoWrap(s, day, minute) ==
  \E d \in s.days :
    \/ s.to > s.from /\ day = d /\ minute >= s.from /\ minute < s.to
    \/ s.to <= s.from /\ day = d /\ minute >= s.from
    \/ s.to <= s.from /\ s.to # 0 /\ day = d + 1 /\ minute < s.to

\* The device is off the internet: within one day, or up to midnight and then,
\* unless the window ends at midnight, the next morning.
OffAt(s, day, minute) ==
  \E d \in s.days :
    \/ s.to > s.from /\ day = d /\ minute >= s.from /\ minute < s.to
    \/ s.to <= s.from /\ day = d /\ minute >= s.from
    \/ /\ s.to <= s.from /\ s.to # 0
       /\ day = (d + 1) % WeekLength /\ minute < s.to

\* The state k minutes later.
OffAfter(s, day, minute, k) ==
  OffAt(s, (day + (minute + k) \div DayLength) % WeekLength,
        (minute + k) % DayLength)

\* Mutant: the search stops at the end of the day.
NextChangeToday(s, day, minute) ==
  LET changes == {k \in 1 .. DayLength - 1 :
                    OffAfter(s, day, minute, k) # OffAt(s, day, minute)}
  IN  IF changes = {} THEN Unset
      ELSE (minute + CHOOSE k \in changes : \A j \in changes : k <= j)
             % DayLength

\* The time of day of the next change within a week.
NextChange(s, day, minute) ==
  LET changes == {k \in 1 .. WeekLength * DayLength :
                    OffAfter(s, day, minute, k) # OffAt(s, day, minute)}
  IN  IF changes = {} THEN Unset
      ELSE (minute + CHOOSE k \in changes : \A j \in changes : k <= j)
             % DayLength

-----------------------------------------------------------------------------
(* What the firewall holds.                                                 *)

\* The last second of the day: "until midnight".
EveningEnd == 60 * DayLength - 1

Rule(days, start, stop) ==
  [start |-> start, stop |-> stop, target |-> TRUE, days |-> days, on |-> TRUE]

Evening(s) ==
  Rule(s.days, 60 * s.from, IF s.to > s.from THEN 60 * s.to ELSE EveningEnd)

\* The rule for the morning after, on the next days.
Morning(s) ==
  IF s.to > s.from \/ s.to = 0 THEN NoSection
  ELSE Rule({(d + 1) % WeekLength : d \in s.days}, 0, 60 * s.to)

\* uci set, option by option, onto what the section held before.
Blank == [start |-> Unset, stop |-> Unset, target |-> FALSE, days |-> Unset,
          on |-> TRUE]
Base(old) == IF old = NoSection THEN Blank ELSE old

Written(r, old) == [r EXCEPT !.on = Base(old).on]

\* The writing cut short: only the first options are r's.
Parts(r, old) ==
  { Base(old),
    [Base(old) EXCEPT !.start = r.start],
    [Base(old) EXCEPT !.start = r.start, !.stop = r.stop],
    [Base(old) EXCEPT !.start = r.start, !.stop = r.stop,
                      !.target = r.target] }

\* Nothing written yet, or some of it.
Cut(r, old) == Parts(r, old) \cup {old}

\* A rule that is not there, or is switched off, is no part of a schedule.
Read(r) == IF r = NoSection \/ ~r.on THEN NoSection ELSE r

\* The rules as a schedule again; what does not read as one is none.
ScheduleFrom(e, m) ==
  LET end == IF e.stop # EveningEnd THEN e.stop
             ELSE IF m = NoSection THEN 0 ELSE m.stop
      s   == [days |-> e.days, from |-> e.start \div 60, to |-> end \div 60]
  IN  IF \/ e.start = Unset \/ end = Unset \/ e.days = Unset
         \/ ~Clean(s)
      THEN NoSchedule ELSE s

\* schedules: what the panel lists for a device with these two sections.
Shown(evening, morning) ==
  IF Read(evening) = NoSection THEN NoSchedule
  ELSE ScheduleFrom(Read(evening), Read(morning))

\* The firewall rejects by this rule: a bound that is not set does not bind,
\* and both ends are included.
Rejects(r, day, second) ==
  /\ r # NoSection /\ r.on /\ r.target
  /\ r.days = Unset \/ day \in r.days
  /\ r.start = Unset \/ r.start <= second
  /\ r.stop = Unset \/ second <= r.stop

\* The one second in which panel and firewall differ: the window is over for
\* the panel, and its last second is included for the firewall.
LastSecond(s, second) == s.to # 0 /\ second = 60 * s.to
=============================================================================
