--------------------------- MODULE ScheduleProofs ---------------------------
(***************************************************************************)
(* Proofs about Schedule and DeviceInternet: the firewall's rules and the  *)
(* panel's schedule say the same at every second of every week, a schedule *)
(* reads back as it was written, and so through every staging, failure and *)
(* death, for any length of the day and of the week.                       *)
(***************************************************************************)
EXTENDS DeviceInternet, WellFoundedInduction, TLAPS

-----------------------------------------------------------------------------
(* The schedule and its rules.                                              *)

\* The rules of a schedule are sections (scheduleOptions).
LEMMA RulesType ==
  ASSUME NEW s \in Schedules
  PROVE  /\ Evening(s) \in Sections
         /\ Morning(s) \in Sections \cup {NoSection}
<1>1. /\ s.days \in SUBSET Days /\ s.from \in Minutes /\ s.to \in Minutes
  BY DEF Schedules
<1>2. /\ 60 * s.from \in Seconds /\ 60 * s.to \in Seconds
      /\ EveningEnd \in Seconds /\ 0 \in Seconds
  BY <1>1, WeekAssumption DEF Minutes, Seconds, EveningEnd
<1>3. {(d + 1) % WeekLength : d \in s.days} \in SUBSET Days
  BY <1>1, WeekAssumption DEF Days
<1>4. \A D \in SUBSET Days, a, b \in Seconds : Rule(D, a, b) \in Sections
  BY DEF Rule, Sections
<1> QED
  BY <1>1, <1>2, <1>3, <1>4 DEF Evening, Morning

\* A schedule reads back from its rules as it was written (scheduleFrom after
\* scheduleOptions).
THEOREM ReadsBack ==
  ASSUME NEW s \in Schedules, Clean(s)
  PROVE  Shown(Evening(s), Morning(s)) = s
<1>1. /\ s.days \in SUBSET Days /\ s.from \in Minutes /\ s.to \in Minutes
      /\ s = [days |-> s.days, from |-> s.from, to |-> s.to]
  BY DEF Schedules
<1>2. /\ s.from \in Int /\ s.to \in Int /\ 0 <= s.from /\ 0 <= s.to
      /\ s.from < DayLength /\ s.to < DayLength
  BY <1>1, WeekAssumption DEF Minutes
<1>3. /\ 60 * s.from \in Seconds /\ 60 * s.to \in Seconds /\ 0 \in Seconds
      /\ EveningEnd \in Seconds /\ 60 * s.to # EveningEnd
      /\ (60 * s.from) \div 60 = s.from /\ (60 * s.to) \div 60 = s.to
      /\ 0 \div 60 = 0
  BY <1>2, WeekAssumption DEF Seconds, EveningEnd
<1>4. /\ Evening(s) # NoSection
      /\ Evening(s).on /\ Evening(s).days = s.days
      /\ Evening(s).start = 60 * s.from
      /\ Evening(s).stop = IF s.to > s.from THEN 60 * s.to ELSE EveningEnd
  BY RulesType, NothingAssumption DEF Evening, Rule
<1>5. Read(Evening(s)) = Evening(s)
  BY <1>4 DEF Read
<1>6. CASE s.to > s.from
  <2>1. Evening(s).stop = 60 * s.to /\ Evening(s).stop # EveningEnd
    BY <1>4, <1>3, <1>6
  <2>2. ScheduleFrom(Evening(s), Read(Morning(s))) = s
    BY <2>1, <1>1, <1>3, <1>4, UnsetAssumption DEF ScheduleFrom, Clean
  <2> QED
    BY <2>2, <1>4, <1>5 DEF Shown
<1>7. CASE ~(s.to > s.from) /\ s.to = 0
  <2>1. Morning(s) = NoSection /\ Read(Morning(s)) = NoSection
    BY <1>7 DEF Morning, Read
  <2>2. Evening(s).stop = EveningEnd
    BY <1>4, <1>7
  <2>3. ScheduleFrom(Evening(s), NoSection) = s
    BY <2>2, <1>1, <1>3, <1>4, <1>7, UnsetAssumption DEF ScheduleFrom, Clean
  <2> QED
    BY <2>1, <2>3, <1>4, <1>5 DEF Shown
<1>8. CASE ~(s.to > s.from) /\ s.to # 0
  <2>1. /\ Morning(s) # NoSection /\ Morning(s).on
        /\ Morning(s).stop = 60 * s.to
    <3>1. Morning(s) = Rule({(d + 1) % WeekLength : d \in s.days}, 0, 60 * s.to)
      BY <1>8 DEF Morning
    <3>2. Morning(s) \in Sections
      <4>1. {(d + 1) % WeekLength : d \in s.days} \in SUBSET Days
        BY <1>1, WeekAssumption DEF Days
      <4> QED
        BY <3>1, <4>1, <1>3 DEF Rule, Sections
    <3>3. Morning(s) # NoSection
      BY <3>2, NothingAssumption
    <3>4. Morning(s).on /\ Morning(s).stop = 60 * s.to
      BY <3>1 DEF Rule
    <3> QED
      BY <3>3, <3>4
  <2>2. Read(Morning(s)) = Morning(s)
    BY <2>1 DEF Read
  <2>3. Evening(s).stop = EveningEnd
    BY <1>4, <1>8
  <2>4. ScheduleFrom(Evening(s), Morning(s)) = s
    BY <2>1, <2>3, <1>1, <1>3, <1>4, UnsetAssumption DEF ScheduleFrom, Clean
  <2> QED
    BY <2>2, <2>4, <1>4, <1>5 DEF Shown
<1> QED
  BY <1>6, <1>7, <1>8

\* At every second but the one in which a window ends, the firewall's rules for
\* a schedule reject exactly when OffAt says the device is off.
THEOREM RulesSayTheSame ==
  ASSUME NEW s \in Schedules, Clean(s),
         NEW day \in Days, NEW minute \in Minutes,
         NEW second \in 60 * minute .. 60 * minute + 59, ~LastSecond(s, second)
  PROVE  (Rejects(Evening(s), day, second) \/ Rejects(Morning(s), day, second))
         <=> OffAt(s, day, minute)
<1>1. /\ s.days \in SUBSET Days /\ s.from \in Minutes /\ s.to \in Minutes
  BY DEF Schedules
<1>2. /\ s.from \in Int /\ s.to \in Int /\ 0 <= s.from /\ 0 <= s.to
      /\ minute \in Int /\ 0 <= minute /\ minute < DayLength
      /\ DayLength \in Int
      /\ second \in Int /\ 60 * minute <= second /\ second <= 60 * minute + 59
      /\ 60 * s.from \in Seconds /\ 60 * s.to \in Seconds /\ 0 \in Seconds
      /\ EveningEnd \in Seconds
  BY <1>1, WeekAssumption DEF Minutes, Seconds, EveningEnd
<1>3. (60 * s.from <= second) <=> (minute >= s.from)
  BY <1>2
<1>4. second <= EveningEnd /\ 0 <= second
  BY <1>2 DEF EveningEnd
<1>5. s.to # 0 => ((second <= 60 * s.to) <=> (minute < s.to))
  BY <1>2 DEF LastSecond
<1>6. Rejects(Evening(s), day, second)
      <=> /\ day \in s.days /\ minute >= s.from
          /\ s.to > s.from => minute < s.to
  <2>1. Evening(s) # NoSection
    BY RulesType, NothingAssumption
  <2>2. /\ Evening(s).on /\ Evening(s).target /\ Evening(s).days = s.days
        /\ Evening(s).start = 60 * s.from
        /\ Evening(s).stop = IF s.to > s.from THEN 60 * s.to ELSE EveningEnd
        /\ Evening(s).days # Unset /\ Evening(s).start # Unset
        /\ Evening(s).stop # Unset
    BY <1>1, <1>2, UnsetAssumption DEF Evening, Rule
  <2>3. Rejects(Evening(s), day, second)
        <=> /\ day \in s.days /\ minute >= s.from
            /\ second <= Evening(s).stop
    BY <2>1, <2>2, <1>3 DEF Rejects
  <2>4. CASE s.to > s.from
    BY <2>2, <2>3, <2>4, <1>2, <1>5
  <2>5. CASE ~(s.to > s.from)
    BY <2>2, <2>3, <2>5, <1>4
  <2> QED
    BY <2>4, <2>5
<1>7. Rejects(Morning(s), day, second)
      <=> /\ s.to <= s.from /\ s.to # 0 /\ minute < s.to
          /\ \E d \in s.days : day = (d + 1) % WeekLength
  <2>1. CASE s.to > s.from \/ s.to = 0
    <3>1. ~Rejects(Morning(s), day, second)
      BY <2>1 DEF Morning, Rejects
    <3> QED
      BY <3>1, <2>1, <1>2
  <2>2. CASE ~(s.to > s.from \/ s.to = 0)
    <3> DEFINE D == {(d + 1) % WeekLength : d \in s.days}
    <3>1. D \in SUBSET Days
      BY <1>1, WeekAssumption DEF Days
    <3>2. Morning(s) = Rule(D, 0, 60 * s.to)
      BY <2>2 DEF Morning
    <3>3. Morning(s) # NoSection
      <4>1. Rule(D, 0, 60 * s.to) \in Sections
        BY <3>1, <1>2 DEF Rule, Sections
      <4> QED
        BY <4>1, <3>2, NothingAssumption
    <3>4. /\ Morning(s).on /\ Morning(s).target /\ Morning(s).days = D
          /\ Morning(s).start = 0 /\ Morning(s).stop = 60 * s.to
      BY <3>2 DEF Rule
    <3>5. D # Unset /\ 0 # Unset /\ 60 * s.to # Unset
      BY <3>1, <1>2, UnsetAssumption
    <3>6. Rejects(Morning(s), day, second) <=> day \in D /\ second <= 60 * s.to
      BY <3>3, <3>4, <3>5, <1>4 DEF Rejects
    <3> QED
      BY <3>6, <2>2, <1>2, <1>5
  <2> QED
    BY <2>1, <2>2
<1> QED
  BY <1>6, <1>7, <1>2 DEF OffAt

\* A section written whole, or cut short anywhere, is a section (uci set); one
\* written where none was holds just the rule.
LEMMA WritingType ==
  ASSUME NEW r \in Sections, NEW old \in Sections \cup {NoSection}
  PROVE  /\ Written(r, old) \in Sections
         /\ Cut(r, old) \subseteq Sections \cup {NoSection}
<1>1. Blank \in Sections
  BY DEF Blank, Sections
<1>2. Base(old) \in Sections
  BY <1>1 DEF Base
<1>3. Base(old).on \in BOOLEAN
  BY <1>2 DEF Sections
<1>4. Written(r, old) \in Sections
  BY <1>3 DEF Written, Sections
<1>5. Parts(r, old) \subseteq Sections
  BY <1>2 DEF Parts, Sections
<1> QED
  BY <1>4, <1>5 DEF Cut

LEMMA WrittenAnew ==
  ASSUME NEW s \in Schedules
  PROVE  /\ Written(Evening(s), NoSection) = Evening(s)
         /\ Morning(s) # NoSection =>
              Written(Morning(s), NoSection) = Morning(s)
<1>1. Base(NoSection).on = TRUE
  BY DEF Base, Blank
<1>2. ASSUME NEW r \in Sections, r.on = TRUE
      PROVE  Written(r, NoSection) = r
  <2>1. Written(r, NoSection) = [r EXCEPT !.on = TRUE]
    BY <1>1 DEF Written
  <2> QED
    BY <2>1, <1>2 DEF Sections
<1>3. Evening(s).on = TRUE
  BY DEF Evening, Rule
<1>4. Morning(s) # NoSection => Morning(s).on = TRUE
  BY DEF Morning, Rule
<1> QED
  BY <1>2, <1>3, <1>4, RulesType

\* A set of numbers that is not empty has a least one.
LEMMA EarliestIs ==
  ASSUME NEW S, S \subseteq Nat, S # {}
  PROVE  LET k == CHOOSE i \in S : \A j \in S : i <= j
         IN  k \in S /\ \A j \in S : k <= j
<1>1. IsWellFoundedOn(OpToRel(<, Nat), Nat)
  BY NatLessThanWellFounded
<1>2. PICK x \in S : \A y \in S : ~(<<y, x>> \in OpToRel(<, Nat))
  BY <1>1, WFMin
<1>3. ASSUME NEW y \in S PROVE x <= y
  <2>1. ~(y < x)
    BY <1>2 DEF OpToRel
  <2> QED
    BY <2>1
<1> QED
  BY <1>3

-----------------------------------------------------------------------------
(* When it changes.                                                         *)

LEMMA Division ==
  ASSUME NEW n \in Int, n > 0, NEW k \in Int,
         NEW q \in Int, q = k \div n, NEW r \in Int, r = k % n
  PROVE  k = n * q + r
OBVIOUS

LEMMA Divided ==
  ASSUME NEW n \in Nat \ {0}, NEW q \in Int, NEW r \in 0 .. n - 1
  PROVE  (n * q + r) % n = r /\ (n * q + r) \div n = q
OBVIOUS

\* Once around changes the quotient and not the rest.
LEMMA Around ==
  ASSUME NEW n \in Nat \ {0}, NEW k \in Nat
  PROVE  (n + k) % n = k % n /\ (n + k) \div n = 1 + k \div n
<1>1. PICK q \in Int, r \in 0 .. n - 1 :
        q = k \div n /\ r = k % n /\ k = n * q + r
  <2>1. k \div n \in Int
    OBVIOUS
  <2>2. k % n \in 0 .. n - 1
    OBVIOUS
  <2>3. PICK q \in Int, r \in 0 .. n - 1 : q = k \div n /\ r = k % n
    BY <2>1, <2>2
  <2>4. n \in Int /\ n > 0 /\ k \in Int /\ r \in Int
    OBVIOUS
  <2>5. k = n * q + r
    BY <2>3, <2>4, Division
  <2> QED
    BY <2>3, <2>5
<1>2. n + k = n * (q + 1) + r /\ q + 1 \in Int
  BY <1>1
<1>3. (n * (q + 1) + r) % n = r /\ (n * (q + 1) + r) \div n = q + 1
  BY <1>2, Divided
<1> QED
  BY <1>1, <1>2, <1>3

NextMinute(t) ==
  IF t.minute + 1 < DayLength THEN [t EXCEPT !.minute = @ + 1]
  ELSE [day |-> (t.day + 1) % WeekLength, minute |-> 0]

\* A minute from now, and k minutes after that.
LEMMA OneLater ==
  ASSUME NEW s, NEW t \in [day : Days, minute : Minutes], NEW k \in Nat
  PROVE  LET u == NextMinute(t)
         IN  /\ u \in [day : Days, minute : Minutes]
             /\ (u.minute + k) % DayLength = (t.minute + (k + 1)) % DayLength
             /\ OffAfter(s, u.day, u.minute, k) = OffAfter(s, t.day, t.minute, k + 1)
<1> DEFINE u == NextMinute(t)
           off(d, m) == OffAt(s, d, m)
<1>1. /\ t.day \in Nat /\ t.day < WeekLength /\ t.minute \in Nat
      /\ t.minute < DayLength /\ DayLength \in Nat \ {0} /\ WeekLength \in Nat \ {0}
      /\ t = [day |-> t.day, minute |-> t.minute]
  BY WeekAssumption DEF Days, Minutes
<1>2. CASE t.minute + 1 < DayLength
  <2>1. u.day = t.day /\ u.minute = t.minute + 1 /\ u \in [day : Days, minute : Minutes]
    BY <1>1, <1>2 DEF NextMinute, Days, Minutes
  <2>2. u.minute + k = t.minute + (k + 1)
    BY <1>1, <2>1
  <2> QED
    BY <2>1, <2>2 DEF OffAfter
<1>3. CASE ~(t.minute + 1 < DayLength)
  <2>1. /\ u.day = (t.day + 1) % WeekLength /\ u.minute = 0
        /\ u = [day |-> (t.day + 1) % WeekLength, minute |-> 0]
    BY <1>3 DEF NextMinute
  <2>2. u \in [day : Days, minute : Minutes]
    BY <1>1, <2>1 DEF Days, Minutes
  <2>3. t.minute + (k + 1) = DayLength + k /\ u.minute + k = k
    BY <1>1, <1>3, <2>1
  <2>4. /\ (DayLength + k) % DayLength = k % DayLength
        /\ (DayLength + k) \div DayLength = 1 + k \div DayLength
    BY <1>1, Around
  <2>5. PICK q \in Nat : q = k \div DayLength
    BY <1>1
  <2>6. (u.day + q) % WeekLength = (t.day + (1 + q)) % WeekLength
    <3>1. CASE t.day + 1 < WeekLength
      <4>1. u.day = t.day + 1
        BY <1>1, <2>1, <3>1
      <4>2. u.day + q = t.day + (1 + q)
        BY <1>1, <4>1
      <4> QED
        BY <4>2
    <3>2. CASE t.day + 1 = WeekLength
      <4>1. WeekLength % WeekLength = 0
        BY <1>1
      <4>2. u.day = 0
        BY <2>1, <3>2, <4>1
      <4>3. u.day + q = q /\ t.day + (1 + q) = WeekLength + q
        BY <1>1, <3>2, <4>2
      <4>4. (WeekLength + q) % WeekLength = q % WeekLength
        BY <1>1, Around
      <4> QED
        BY <4>3, <4>4
    <3> QED
      BY <1>1, <3>1, <3>2
  <2> HIDE DEF u
  <2> QED
    BY <2>2, <2>3, <2>4, <2>5, <2>6 DEF OffAfter, u
<1> QED
  BY <1>2, <1>3

\* A week from now everything is as it is now.
LEMMA WeekLater ==
  ASSUME NEW s, NEW t \in [day : Days, minute : Minutes]
  PROVE  /\ OffAfter(s, t.day, t.minute, 0) = OffAt(s, t.day, t.minute)
         /\ OffAfter(s, t.day, t.minute, WeekLength * DayLength)
            = OffAt(s, t.day, t.minute)
<1>1. /\ t.day \in 0 .. WeekLength - 1 /\ t.minute \in 0 .. DayLength - 1
      /\ DayLength \in Nat \ {0} /\ WeekLength \in Nat \ {0}
  BY WeekAssumption DEF Days, Minutes
<1> PICK day \in 0 .. WeekLength - 1 : day = t.day
  BY <1>1
<1> PICK minute \in 0 .. DayLength - 1 : minute = t.minute
  BY <1>1
<1>2. /\ t.minute + WeekLength * DayLength = DayLength * WeekLength + t.minute
      /\ t.minute + 0 = t.minute
  BY <1>1
<1>3. /\ (DayLength * WeekLength + t.minute) % DayLength = t.minute
      /\ (DayLength * WeekLength + t.minute) \div DayLength = WeekLength
  <2>1. WeekLength \in Int
    BY <1>1
  <2>2. /\ (DayLength * WeekLength + minute) % DayLength = minute
        /\ (DayLength * WeekLength + minute) \div DayLength = WeekLength
    BY <1>1, <2>1, Divided
  <2> QED
    BY <2>2
<1>4. (t.day + WeekLength) % WeekLength = t.day
  <2>1. (WeekLength + t.day) % WeekLength = t.day % WeekLength
    <3>1. day \in Nat
      OBVIOUS
    <3>2. (WeekLength + day) % WeekLength = day % WeekLength
      BY <1>1, <3>1, Around
    <3> QED
      BY <3>2
  <2>2. t.day % WeekLength = t.day /\ t.day + WeekLength = WeekLength + t.day
    BY <1>1
  <2> QED
    BY <2>1, <2>2
<1>5. /\ t.minute % DayLength = t.minute /\ t.minute \div DayLength = 0
      /\ (t.day + 0) % WeekLength = t.day
  BY <1>1
<1> QED
  BY <1>2, <1>3, <1>4, <1>5 DEF OffAfter

\* The minutes until the next change are one fewer a minute later.
THEOREM ChangeComesWhenAnnounced ==
  ASSUME NEW s, NEW t \in [day : Days, minute : Minutes]
  PROVE  LET u == NextMinute(t)
         IN  IF OffAt(s, u.day, u.minute) # OffAt(s, t.day, t.minute)
             THEN u.minute = NextChange(s, t.day, t.minute)
             ELSE NextChange(s, u.day, u.minute) = NextChange(s, t.day, t.minute)
<1> DEFINE u == NextMinute(t)
           week == WeekLength * DayLength
           f(k) == OffAfter(s, t.day, t.minute, k)
           g(k) == OffAfter(s, u.day, u.minute, k)
           now0 == OffAt(s, t.day, t.minute)
           now1 == OffAt(s, u.day, u.minute)
           C == {k \in 1 .. week : f(k) # now0}
           D == {k \in 1 .. week : g(k) # now1}
           c == CHOOSE k \in C : \A j \in C : k <= j
           d == CHOOSE k \in D : \A j \in D : k <= j
<1>0. week \in Nat /\ 1 <= week /\ t.minute \in Nat /\ DayLength \in Nat \ {0}
  BY WeekAssumption DEF Days, Minutes
<1>1. u \in [day : Days, minute : Minutes]
  <2>1. 0 \in Nat
    OBVIOUS
  <2> QED
    BY <2>1, OneLater
<1>2. /\ f(week) = now0 /\ g(week) = now1 /\ g(0) = now1 /\ f(0) = now0
  BY <1>1, WeekLater
<1>3. \A k \in Nat : /\ g(k) = f(k + 1)
                     /\ (u.minute + k) % DayLength = (t.minute + (k + 1)) % DayLength
  BY OneLater
<1>4. /\ NextChange(s, t.day, t.minute)
           = IF C = {} THEN Unset ELSE (t.minute + c) % DayLength
      /\ NextChange(s, u.day, u.minute)
           = IF D = {} THEN Unset ELSE (u.minute + d) % DayLength
  BY DEF NextChange
<1>5. f(1) = now1
  <2>1. g(0) = f(0 + 1) /\ 0 + 1 = 1
    BY <1>3
  <2> QED
    BY <1>2, <2>1
<1>6. u.minute = (t.minute + 1) % DayLength
  <2>1. (u.minute + 0) % DayLength = (t.minute + (0 + 1)) % DayLength
    BY <1>3
  <2>2. u.minute \in 0 .. DayLength - 1
    BY <1>1 DEF Minutes
  <2>3. (u.minute + 0) % DayLength = u.minute
    BY <1>0, <2>2
  <2> QED
    BY <2>1, <2>3
<1> HIDE DEF f, g, now0, now1, week, u
<1>7. CASE now1 # now0
  <2>1. 1 \in C /\ \A j \in C : 1 <= j
    BY <1>0, <1>5, <1>7
  <2>2. c = 1
    <3>1. c \in C /\ \A j \in C : c <= j
      BY <2>1
    <3>2. c \in Nat
      BY <1>0, <3>1
    <3> QED
      BY <2>1, <3>1, <3>2
  <2>3. C # {}
    BY <2>1
  <2> HIDE DEF c, C, D, d
  <2>4. u.minute = NextChange(s, t.day, t.minute)
    BY <1>4, <1>6, <2>2, <2>3
  <2> QED
    BY <1>7, <2>4 DEF now0, now1, u
<1>8. CASE now1 = now0
  <2>1. \A k \in Nat : k \in D <=> k + 1 \in C
    <3> SUFFICES ASSUME NEW k \in Nat PROVE k \in D <=> k + 1 \in C
      OBVIOUS
    <3>1. g(k) = f(k + 1)
      BY <1>3
    <3>2. CASE k = 0
      BY <1>5, <1>8, <3>2
    <3>3. CASE k = week
      BY <1>0, <1>2, <3>3
    <3>4. CASE k # 0 /\ k # week
      BY <1>0, <1>8, <3>1, <3>4
    <3> QED
      BY <3>2, <3>3, <3>4
  <2>2. \A k \in C : k \in Nat /\ k - 1 \in Nat /\ k - 1 \in D
    <3> SUFFICES ASSUME NEW k \in C PROVE k \in Nat /\ k - 1 \in Nat /\ k - 1 \in D
      OBVIOUS
    <3>1. k \in Nat /\ k - 1 \in Nat /\ (k - 1) + 1 = k
      BY <1>0
    <3> QED
      BY <2>1, <3>1
  <2>3. D \subseteq Nat
    BY <1>0
  <2> HIDE DEF C, D
  <2>4. CASE C = {}
    <3>1. D = {}
      BY <2>1, <2>3, <2>4
    <3> QED
      BY <1>4, <1>8, <2>4, <3>1 DEF now0, now1, u
  <2>5. CASE C # {}
    <3>1. c \in C /\ \A j \in C : c <= j
      <4>1. C \subseteq Nat
        BY <2>2
      <4> QED
        BY <2>5, <4>1, EarliestIs
    <3>2. c - 1 \in D /\ \A j \in D : c - 1 <= j
      BY <2>1, <2>2, <2>3, <3>1
    <3>3. d \in D /\ \A j \in D : d <= j
      BY <3>2
    <3>4. d = c - 1 /\ d \in Nat /\ c = d + 1
      BY <2>2, <2>3, <3>1, <3>2, <3>3
    <3>5. D # {}
      BY <3>3
    <3> HIDE DEF c, d
    <3>6. (u.minute + d) % DayLength = (t.minute + c) % DayLength
      BY <1>3, <3>4
    <3>7. NextChange(s, u.day, u.minute) = NextChange(s, t.day, t.minute)
      BY <1>4, <2>5, <3>5, <3>6
    <3> QED
      BY <1>8, <3>7 DEF now0, now1, u
  <2> QED
    BY <2>4, <2>5
<1> QED
  BY <1>7, <1>8

-----------------------------------------------------------------------------
(* The staging.                                                             *)

Wanted == {s \in Schedules : Clean(s)} \cup {NoSchedule}

\* The sections are those of the schedule, and nothing else.
Carries(entry, s) ==
  /\ entry.evening = (IF s = NoSchedule THEN NoSection ELSE Evening(s))
  /\ entry.morning = (IF s = NoSchedule THEN NoSection ELSE Morning(s))

\* Committed, and in the draft but for the device a call is writing.
AgreedInv ==
  \A d \in Devices : agreed[d] # Unknown =>
    agreed[d] \in Wanted /\ Carries(conf[d], agreed[d])

AskedInv ==
  \A d \in Devices :
    asked[d] # Unknown /\ (d # mac \/ pc \in {"idle", "block", "delete"}) =>
      asked[d] \in Wanted /\ Carries(view[d], asked[d])

\* How far the call has come.
CallInv ==
  /\ want \in Wanted
  /\ pc \in {"evening", "morning"} => want # NoSchedule
  /\ pc = "evening" /\ ~unread => Carries(view[mac], NoSchedule)
  /\ pc = "morning" => Morning(want) # NoSection
  /\ pc = "morning" /\ ~unread =>
       view[mac].evening = Evening(want) /\ view[mac].morning = NoSection
  /\ pc = "check" /\ ~unread => Carries(view[mac], want)

DeviceInv == DeviceTypeOK /\ AgreedInv /\ AskedInv /\ CallInv

\* What carries a schedule is listed with it.
LEMMA CarriedIsListed ==
  ASSUME NEW s \in Wanted, NEW entry, Carries(entry, s)
  PROVE  Shown(entry.evening, entry.morning) = s
<1>1. CASE s = NoSchedule
  BY <1>1 DEF Carries, Shown, Read
<1>2. CASE s # NoSchedule
  BY <1>2, ReadsBack DEF Carries, Wanted
<1> QED
  BY <1>1, <1>2

\* Replacing parts of an entry.
LEMMA EntryType ==
  ASSUME NEW entry \in Entries
  PROVE  /\ entry.evening \in Sections \cup {NoSection}
         /\ entry.morning \in Sections \cup {NoSection}
         /\ entry.block \in {"none", "on", "off", "half"}
         /\ \A e, m \in Sections \cup {NoSection} :
              /\ [entry EXCEPT !.evening = e] \in Entries
              /\ [entry EXCEPT !.morning = m] \in Entries
              /\ [entry EXCEPT !.evening = e, !.morning = m] \in Entries
         /\ \A b \in {"none", "on", "off", "half"} :
              [entry EXCEPT !.block = b] \in Entries
BY DEF Entries

LEMMA DeviceInitInv == DeviceInit => DeviceInv
<1> SUFFICES ASSUME DeviceInit PROVE DeviceInv
  OBVIOUS
<1>1. Nothing \in Entries /\ Carries(Nothing, NoSchedule)
  BY DEF Nothing, Entries, Carries
<1>2. NoSchedule # Unknown
  BY OfferedAssumption
<1>3. 0 \in Days /\ 0 \in Minutes
  BY WeekAssumption DEF Days, Minutes
<1>4. DeviceTypeOK
  <2>1. now \in [day : Days, minute : Minutes] /\ faults \in 0 .. MaxFaults
    BY <1>3, OfferedAssumption DEF DeviceInit
  <2>2. /\ conf \in [Devices -> Entries] /\ view \in [Devices -> Entries]
        /\ asked \in [Devices -> Schedules \cup {NoSchedule, Unknown}]
        /\ agreed \in [Devices -> Schedules \cup {NoSchedule, Unknown}]
    BY <1>1 DEF DeviceInit
  <2> QED
    BY <2>1, <2>2 DEF DeviceInit, DeviceTypeOK, Steps
<1>5. AgreedInv /\ AskedInv
  BY <1>1, <1>2 DEF DeviceInit, AgreedInv, AskedInv, Wanted
<1>6. CallInv
  BY DEF DeviceInit, CallInv, Wanted
<1> QED
  BY <1>4, <1>5, <1>6 DEF DeviceInv

\* The steps that write one device's sections and nothing that is committed.
LEMMA WritesOne ==
  ASSUME DeviceInv, NEW e \in Entries,
         view' = [view EXCEPT ![mac] = e],
         pc' \in Steps, mac' = mac, want' \in Wanted, unread' \in BOOLEAN,
         faults' \in 0 .. MaxFaults, UNCHANGED <<conf, now, agreed>>,
         NEW a \in Schedules \cup {NoSchedule, Unknown},
         asked' = [asked EXCEPT ![mac] = a],
         CallInv',
         pc' \in {"idle", "block", "delete"} /\ a # Unknown =>
           a \in Wanted /\ Carries(e, a)
  PROVE  DeviceInv'
<1> USE DEF DeviceInv
<1>1. DeviceTypeOK'
  BY DEF DeviceTypeOK, Wanted
<1>2. AgreedInv'
  BY DEF AgreedInv
<1>3. /\ view'[mac] = e /\ asked'[mac] = a
      /\ \A d \in Devices \ {mac} : view'[d] = view[d] /\ asked'[d] = asked[d]
  BY DEF DeviceTypeOK
<1>4. AskedInv'
  BY <1>3 DEF AskedInv
<1> QED
  BY <1>1, <1>2, <1>4

LEMMA FaultType ==
  ASSUME DeviceTypeOK, Fault \/ NoFault
  PROVE  faults' \in 0 .. MaxFaults
BY OfferedAssumption DEF DeviceTypeOK, Fault, NoFault

\* Each step of StageDeviceSchedule keeps the invariant.
LEMMA DeleteKeeps == DeviceInv /\ DeleteSections => DeviceInv'
<1> SUFFICES ASSUME DeviceInv, DeleteSections PROVE DeviceInv'
  OBVIOUS
<1>0. /\ DeviceTypeOK /\ CallInv /\ AskedInv
      /\ view[mac] \in Entries /\ mac \in Devices /\ pc = "delete"
      /\ want \in Wanted /\ unread \in BOOLEAN
      /\ UNCHANGED <<conf, now, asked, agreed>>
      /\ asked[mac] \in Schedules \cup {NoSchedule, Unknown}
      /\ asked' = [asked EXCEPT ![mac] = asked[mac]]
  BY DEF DeviceInv, DeviceTypeOK, DeleteSections, historyVars, CallInv
<1>1. ASSUME NEW kept \in SUBSET {p \in Halves : view[mac][p] # NoSection},
             view' = [view EXCEPT
               ![mac].evening = IF "evening" \in kept THEN @ ELSE NoSection,
               ![mac].morning = IF "morning" \in kept THEN @ ELSE NoSection],
             IF kept = {} THEN NoFault ELSE Fault,
             unread' = (kept # {}),
             pc' = IF want = NoSchedule THEN "check" ELSE "evening",
             UNCHANGED <<mac, want>>
      PROVE  DeviceInv'
  <2> DEFINE e == [view[mac] EXCEPT
               !.evening = IF "evening" \in kept THEN @ ELSE NoSection,
               !.morning = IF "morning" \in kept THEN @ ELSE NoSection]
  <2>1. e \in Entries /\ view' = [view EXCEPT ![mac] = e]
    BY <1>0, <1>1, EntryType DEF DeviceTypeOK
  <2>2. view'[mac] = e
    BY <2>1, <1>0 DEF DeviceTypeOK
  <2>3. ~unread' => Carries(view'[mac], NoSchedule)
    <3>1. kept = {} => e.evening = NoSection /\ e.morning = NoSection
      BY <1>0 DEF Entries
    <3> QED
      BY <3>1, <2>2, <1>1 DEF Carries
  <2>4. CallInv'
    BY <1>0, <1>1, <2>3 DEF CallInv
  <2>5. faults' \in 0 .. MaxFaults
    BY <1>0, <1>1, FaultType
  <2> HIDE DEF e
  <2> QED
    BY WritesOne, <1>0, <1>1, <2>1, <2>4, <2>5 DEF Steps
<1>2. ASSUME view' \in {view, [view EXCEPT ![mac].evening = NoSection]},
             Goto("undo"), Fault
      PROVE  DeviceInv'
  <2>1. PICK e \in Entries : view' = [view EXCEPT ![mac] = e]
    <3>1. CASE view' = view
      BY <3>1, <1>0 DEF DeviceTypeOK
    <3>2. CASE view' = [view EXCEPT ![mac].evening = NoSection]
      BY <3>2, <1>0, EntryType DEF DeviceTypeOK
    <3> QED
      BY <3>1, <3>2, <1>2
  <2>2. CallInv'
    BY <1>0, <1>2 DEF CallInv, Goto
  <2>3. faults' \in 0 .. MaxFaults
    BY <1>0, <1>2, FaultType
  <2> QED
    BY WritesOne, <1>0, <1>2, <2>1, <2>2, <2>3 DEF Steps, Goto
<1> QED
  BY <1>1, <1>2 DEF DeleteSections

LEMMA EveningKeeps == DeviceInv /\ WriteEvening => DeviceInv'
<1> SUFFICES ASSUME DeviceInv, WriteEvening PROVE DeviceInv'
  OBVIOUS
<1>0. /\ DeviceTypeOK /\ CallInv /\ AskedInv
      /\ view[mac] \in Entries /\ mac \in Devices /\ pc = "evening"
      /\ want \in Schedules /\ want \in Wanted /\ want # NoSchedule
      /\ unread \in BOOLEAN /\ UNCHANGED <<conf, now, asked, agreed>>
      /\ asked[mac] \in Schedules \cup {NoSchedule, Unknown}
      /\ asked' = [asked EXCEPT ![mac] = asked[mac]]
  BY DEF DeviceInv, DeviceTypeOK, WriteEvening, historyVars, CallInv, Wanted
<1>1. ASSUME view' = [view EXCEPT
               ![mac].evening = Written(Evening(want), @)],
             Goto(IF Morning(want) = NoSection THEN "check" ELSE "morning"),
             NoFault
      PROVE  DeviceInv'
  <2> DEFINE w == Written(Evening(want), view[mac].evening)
             e == [view[mac] EXCEPT !.evening = w]
  <2>1. w \in Sections
    BY <1>0, RulesType, WritingType, EntryType
  <2>2. e \in Entries /\ view' = [view EXCEPT ![mac] = e]
    BY <1>0, <1>1, <2>1, EntryType DEF DeviceTypeOK
  <2>3. /\ view'[mac].evening = w
        /\ view'[mac].morning = view[mac].morning
    BY <2>2, <1>0 DEF DeviceTypeOK, Entries
  <2>4. ~unread => w = Evening(want) /\ view[mac].morning = NoSection
    BY <1>0, WrittenAnew DEF CallInv, Carries
  <2>5. CallInv'
    BY <1>0, <1>1, <2>3, <2>4 DEF CallInv, Goto, Carries
  <2>6. faults' \in 0 .. MaxFaults
    BY <1>0, <1>1, FaultType
  <2> HIDE DEF e
  <2> QED
    BY WritesOne, <1>0, <1>1, <2>2, <2>5, <2>6 DEF Steps, Goto
<1>2. ASSUME NEW r \in Cut(Evening(want), view[mac].evening),
             view' = [view EXCEPT ![mac].evening = r],
             Goto("undo"), Fault
      PROVE  DeviceInv'
  <2>1. r \in Sections \cup {NoSection}
    BY <1>0, RulesType, WritingType, EntryType
  <2>2. PICK e \in Entries : view' = [view EXCEPT ![mac] = e]
    BY <1>0, <1>2, <2>1, EntryType DEF DeviceTypeOK
  <2>3. CallInv'
    BY <1>0, <1>2 DEF CallInv, Goto
  <2>4. faults' \in 0 .. MaxFaults
    BY <1>0, <1>2, FaultType
  <2> QED
    BY WritesOne, <1>0, <1>2, <2>2, <2>3, <2>4 DEF Steps, Goto
<1> QED
  BY <1>1, <1>2 DEF WriteEvening

LEMMA MorningKeeps == DeviceInv /\ WriteMorning => DeviceInv'
<1> SUFFICES ASSUME DeviceInv, WriteMorning PROVE DeviceInv'
  OBVIOUS
<1>0. /\ DeviceTypeOK /\ CallInv /\ AskedInv
      /\ view[mac] \in Entries /\ mac \in Devices /\ pc = "morning"
      /\ want \in Schedules /\ want \in Wanted /\ want # NoSchedule
      /\ Morning(want) # NoSection
      /\ unread \in BOOLEAN /\ UNCHANGED <<conf, now, asked, agreed>>
      /\ asked[mac] \in Schedules \cup {NoSchedule, Unknown}
      /\ asked' = [asked EXCEPT ![mac] = asked[mac]]
  BY DEF DeviceInv, DeviceTypeOK, WriteMorning, historyVars, CallInv, Wanted
<1>1. ASSUME view' = [view EXCEPT
               ![mac].morning = Written(Morning(want), @)],
             Goto("check"), NoFault
      PROVE  DeviceInv'
  <2> DEFINE w == Written(Morning(want), view[mac].morning)
             e == [view[mac] EXCEPT !.morning = w]
  <2>1. w \in Sections
    BY <1>0, RulesType, WritingType, EntryType
  <2>2. e \in Entries /\ view' = [view EXCEPT ![mac] = e]
    BY <1>0, <1>1, <2>1, EntryType DEF DeviceTypeOK
  <2>3. /\ view'[mac].morning = w
        /\ view'[mac].evening = view[mac].evening
    BY <2>2, <1>0 DEF DeviceTypeOK, Entries
  <2>4. ~unread => w = Morning(want) /\ view[mac].evening = Evening(want)
    BY <1>0, WrittenAnew DEF CallInv, Carries
  <2>5. CallInv'
    BY <1>0, <1>1, <2>3, <2>4 DEF CallInv, Goto, Carries
  <2>6. faults' \in 0 .. MaxFaults
    BY <1>0, <1>1, FaultType
  <2> HIDE DEF e
  <2> QED
    BY WritesOne, <1>0, <1>1, <2>2, <2>5, <2>6 DEF Steps, Goto
<1>2. ASSUME NEW r \in Cut(Morning(want), view[mac].morning),
             view' = [view EXCEPT ![mac].morning = r],
             Goto("undo"), Fault
      PROVE  DeviceInv'
  <2>1. r \in Sections \cup {NoSection}
    BY <1>0, RulesType, WritingType, EntryType
  <2>2. PICK e \in Entries : view' = [view EXCEPT ![mac] = e]
    BY <1>0, <1>2, <2>1, EntryType DEF DeviceTypeOK
  <2>3. CallInv'
    BY <1>0, <1>2 DEF CallInv, Goto
  <2>4. faults' \in 0 .. MaxFaults
    BY <1>0, <1>2, FaultType
  <2> QED
    BY WritesOne, <1>0, <1>2, <2>2, <2>3, <2>4 DEF Steps, Goto
<1> QED
  BY <1>1, <1>2 DEF WriteMorning

LEMMA CheckKeeps == DeviceInv /\ CheckDraft => DeviceInv'
<1> SUFFICES ASSUME DeviceInv, CheckDraft PROVE DeviceInv'
  OBVIOUS
<1>0. /\ DeviceTypeOK /\ CallInv
      /\ view[mac] \in Entries /\ mac \in Devices /\ pc = "check"
      /\ want \in Wanted /\ unread \in BOOLEAN
      /\ UNCHANGED <<conf, now, agreed>>
      /\ asked[mac] \in Schedules \cup {NoSchedule, Unknown}
      /\ view' = [view EXCEPT ![mac] = view[mac]]
      /\ NoSchedule \in Wanted
  BY DEF DeviceInv, DeviceTypeOK, CheckDraft, CallInv, Wanted
<1>1. ASSUME Returns, NoFault,
             asked' = [asked EXCEPT ![mac] = IF unread THEN Unknown ELSE want]
      PROVE  DeviceInv'
  <2> DEFINE a == IF unread THEN Unknown ELSE want
  <2>1. /\ a \in Schedules \cup {NoSchedule, Unknown}
        /\ asked' = [asked EXCEPT ![mac] = a]
    BY <1>0, <1>1 DEF Wanted
  <2>2. a # Unknown => a \in Wanted /\ Carries(view[mac], a)
    BY <1>0 DEF CallInv
  <2>3. CallInv'
    BY <1>0, <1>1 DEF CallInv, Returns
  <2>4. faults' \in 0 .. MaxFaults
    BY <1>0, <1>1, FaultType
  <2> HIDE DEF a
  <2> QED
    BY WritesOne, <1>0, <1>1, <2>1, <2>2, <2>3, <2>4 DEF Steps, Returns
<1>2. ASSUME Goto("undo"), asked' = asked, Fault
      PROVE  DeviceInv'
  <2>1. asked' = [asked EXCEPT ![mac] = asked[mac]]
    BY <1>0, <1>2 DEF DeviceTypeOK
  <2>2. CallInv'
    BY <1>0, <1>2 DEF CallInv, Goto
  <2>3. faults' \in 0 .. MaxFaults
    BY <1>0, <1>2, FaultType
  <2> QED
    BY WritesOne, <1>0, <1>2, <2>1, <2>2, <2>3 DEF Steps, Goto
<1> QED
  BY <1>1, <1>2 DEF CheckDraft

LEMMA UndoKeeps == DeviceInv /\ Undo => DeviceInv'
<1> SUFFICES ASSUME DeviceInv, Undo PROVE DeviceInv'
  OBVIOUS
<1>0. /\ DeviceTypeOK /\ AgreedInv
      /\ view[mac] \in Entries /\ conf[mac] \in Entries /\ mac \in Devices
      /\ UNCHANGED <<conf, now, agreed>> /\ Returns
      /\ agreed[mac] \in Schedules \cup {NoSchedule, Unknown}
      /\ NoSchedule \in Wanted
  BY DEF DeviceInv, DeviceTypeOK, Undo, Wanted
<1>1. PICK back \in SUBSET Halves :
        /\ view' = [view EXCEPT
             ![mac].evening =
               IF "evening" \in back THEN conf[mac].evening ELSE @,
             ![mac].morning =
               IF "morning" \in back THEN conf[mac].morning ELSE @]
        /\ asked' = [asked EXCEPT
             ![mac] = IF back = Halves THEN agreed[mac] ELSE Unknown]
        /\ IF back = Halves THEN NoFault ELSE Fault
  BY DEF Undo
<1> DEFINE ev == IF "evening" \in back THEN conf[mac].evening
                 ELSE view[mac].evening
           mo == IF "morning" \in back THEN conf[mac].morning
                 ELSE view[mac].morning
           e == [view[mac] EXCEPT !.evening = ev, !.morning = mo]
           a == IF back = Halves THEN agreed[mac] ELSE Unknown
<1>2. ev \in Sections \cup {NoSection} /\ mo \in Sections \cup {NoSection}
  BY <1>0, EntryType
<1>3. e \in Entries /\ view' = [view EXCEPT ![mac] = e]
  BY <1>0, <1>1, <1>2, EntryType DEF DeviceTypeOK
<1>4. /\ a \in Schedules \cup {NoSchedule, Unknown}
      /\ asked' = [asked EXCEPT ![mac] = a]
  BY <1>0, <1>1
<1>5. e.evening = ev /\ e.morning = mo
  BY <1>0 DEF Entries
<1>6. a # Unknown => a \in Wanted /\ Carries(e, a)
  <2>1. a # Unknown => ev = conf[mac].evening /\ mo = conf[mac].morning
    BY DEF Halves
  <2> QED
    BY <2>1, <1>5, <1>0 DEF AgreedInv, Carries
<1>7. CallInv'
  BY <1>0 DEF CallInv, Returns
<1>8. faults' \in 0 .. MaxFaults
  BY <1>0, <1>1, FaultType
<1> HIDE DEF e, a
<1> QED
  BY WritesOne, <1>0, <1>3, <1>4, <1>6, <1>7, <1>8 DEF Steps, Returns

\* StageDeviceInternet touches the block only.
LEMMA BlockKeeps == DeviceInv /\ WriteBlock => DeviceInv'
<1> SUFFICES ASSUME DeviceInv, WriteBlock PROVE DeviceInv'
  OBVIOUS
<1>0. /\ DeviceTypeOK /\ AskedInv /\ pc = "block"
      /\ view[mac] \in Entries /\ conf[mac] \in Entries /\ mac \in Devices
      /\ UNCHANGED <<conf, now, agreed>> /\ Returns
      /\ asked[mac] \in Schedules \cup {NoSchedule, Unknown}
      /\ asked' = [asked EXCEPT ![mac] = asked[mac]]
      /\ NoSchedule \in Wanted
      /\ Fault \/ NoFault
  BY DEF DeviceInv, DeviceTypeOK, WriteBlock, historyVars, Wanted
<1>1. PICK b \in {"none", "on", "off", "half"} :
        view' = [view EXCEPT ![mac].block = b]
  <2>1. /\ view[mac].block \in {"none", "on", "off", "half"}
        /\ conf[mac].block \in {"none", "on", "off", "half"}
        /\ Whole(view[mac].block) \in {"none", "on", "off", "half"}
        /\ Partly(view[mac].block) \in {"none", "on", "off", "half"}
    BY <1>0, EntryType DEF Whole, Partly
  <2> QED
    BY <2>1 DEF WriteBlock
<1> DEFINE e == [view[mac] EXCEPT !.block = b]
<1>2. /\ e \in Entries /\ view' = [view EXCEPT ![mac] = e]
      /\ e.evening = view[mac].evening /\ e.morning = view[mac].morning
  BY <1>0, <1>1, EntryType DEF DeviceTypeOK, Entries
<1>3. asked[mac] # Unknown => asked[mac] \in Wanted /\ Carries(e, asked[mac])
  BY <1>0, <1>2 DEF AskedInv, Carries
<1>4. CallInv'
  BY <1>0 DEF CallInv, Returns
<1>5. faults' \in 0 .. MaxFaults
  BY <1>0, FaultType
<1> HIDE DEF e
<1> QED
  BY WritesOne, <1>0, <1>2, <1>3, <1>4, <1>5 DEF Steps, Returns

LEMMA UnblockKeeps ==
  ASSUME DeviceInv, NEW d \in Devices, UnblockDevice(d)
  PROVE  DeviceInv'
<1>0. /\ DeviceTypeOK /\ AskedInv /\ AgreedInv /\ CallInv /\ pc = "idle"
      /\ view[d] \in Entries
      /\ UNCHANGED <<pc, mac, want, unread, conf, now, faults, asked, agreed>>
  BY DEF DeviceInv, DeviceTypeOK, UnblockDevice, historyVars, callVars
<1> DEFINE e == [view[d] EXCEPT !.block = "none"]
<1>1. /\ e \in Entries /\ view' = [view EXCEPT ![d] = e]
      /\ e.evening = view[d].evening /\ e.morning = view[d].morning
  BY <1>0, EntryType DEF DeviceTypeOK, Entries, UnblockDevice
<1>2. \A x \in Devices : /\ view'[x].evening = view[x].evening
                         /\ view'[x].morning = view[x].morning
  BY <1>0, <1>1 DEF DeviceTypeOK
<1>3. DeviceTypeOK'
  BY <1>0, <1>1 DEF DeviceTypeOK
<1>4. AgreedInv' /\ AskedInv'
  BY <1>0, <1>2 DEF AgreedInv, AskedInv, Carries
<1>5. CallInv'
  BY <1>0 DEF CallInv
<1> QED
  BY <1>3, <1>4, <1>5 DEF DeviceInv

\* A call begins.
LEMMA BeginKeeps ==
  ASSUME DeviceInv, NEW d \in Devices, NEW s \in Offered \cup {NoSchedule},
         BlockDevice(d) \/ StageDeviceSchedule(d, s)
  PROVE  DeviceInv'
<1>0. /\ DeviceTypeOK /\ AskedInv /\ AgreedInv /\ CallInv /\ pc = "idle"
      /\ mac' = d /\ pc' \in {"block", "delete"} /\ want' \in Wanted
      /\ UNCHANGED <<unread, conf, view, now, asked, agreed>>
      /\ Fault \/ NoFault
  BY OfferedAssumption
  DEF DeviceInv, BlockDevice, StageDeviceSchedule, historyVars, CallInv, Wanted
<1>1. DeviceTypeOK'
  BY <1>0, FaultType DEF DeviceTypeOK, Steps, Wanted
<1>2. AgreedInv' /\ AskedInv'
  BY <1>0 DEF AgreedInv, AskedInv
<1>3. CallInv'
  BY <1>0 DEF CallInv
<1> QED
  BY <1>1, <1>2, <1>3 DEF DeviceInv

\* What happens around the calls.
LEMMA DraftKeeps == DeviceInv /\ (CommitDraft \/ DiscardDraft) => DeviceInv'
<1> SUFFICES ASSUME DeviceInv, CommitDraft \/ DiscardDraft PROVE DeviceInv'
  OBVIOUS
<1>0. /\ DeviceTypeOK /\ AskedInv /\ AgreedInv /\ CallInv /\ pc = "idle"
      /\ UNCHANGED <<pc, mac, want, unread, now, faults>>
      /\ \/ conf' = view /\ agreed' = asked /\ UNCHANGED <<view, asked>>
         \/ view' = conf /\ asked' = agreed /\ UNCHANGED <<conf, agreed>>
  BY DEF DeviceInv, CommitDraft, DiscardDraft, callVars
<1>1. DeviceTypeOK'
  BY <1>0 DEF DeviceTypeOK
<1>2. AgreedInv' /\ AskedInv'
  BY <1>0 DEF AgreedInv, AskedInv
<1>3. CallInv'
  BY <1>0 DEF CallInv
<1> QED
  BY <1>1, <1>2, <1>3 DEF DeviceInv

LEMMA DieKeeps ==
  ASSUME DeviceInv, NEW rebooted \in BOOLEAN, Die(rebooted)
  PROVE  DeviceInv'
<1>0. /\ DeviceTypeOK /\ AskedInv /\ AgreedInv /\ CallInv
      /\ view[mac] \in Entries /\ mac \in Devices
      /\ UNCHANGED <<conf, now, agreed>> /\ Returns /\ Fault
      /\ asked[mac] \in Schedules \cup {NoSchedule, Unknown}
      /\ NoSchedule \in Wanted
  BY DEF DeviceInv, DeviceTypeOK, Die, Wanted
<1>1. CallInv'
  BY <1>0 DEF CallInv, Returns
<1>2. faults' \in 0 .. MaxFaults
  BY <1>0, FaultType
<1>3. CASE view' = conf /\ asked' = agreed
  <2>1. DeviceTypeOK'
    BY <1>0, <1>2, <1>3 DEF DeviceTypeOK, Returns, Steps
  <2>2. AgreedInv' /\ AskedInv'
    BY <1>0, <1>3 DEF AgreedInv, AskedInv
  <2> QED
    BY <2>1, <2>2, <1>1 DEF DeviceInv
<1>4. ASSUME NEW b \in {"none", "on", "off", "half"},
             view' = [view EXCEPT ![mac].block = b],
             asked' = [asked EXCEPT
               ![mac] = IF pc \in {"idle", "block"} THEN @ ELSE Unknown]
      PROVE  DeviceInv'
  <2> DEFINE e == [view[mac] EXCEPT !.block = b]
             a == IF pc \in {"idle", "block"} THEN asked[mac] ELSE Unknown
  <2>1. /\ e \in Entries /\ view' = [view EXCEPT ![mac] = e]
        /\ e.evening = view[mac].evening /\ e.morning = view[mac].morning
    BY <1>0, <1>4, EntryType DEF DeviceTypeOK, Entries
  <2>2. /\ a \in Schedules \cup {NoSchedule, Unknown}
        /\ asked' = [asked EXCEPT ![mac] = a]
    BY <1>0, <1>4 DEF DeviceTypeOK
  <2>3. a # Unknown => a \in Wanted /\ Carries(e, a)
    BY <1>0, <2>1 DEF AskedInv, Carries
  <2> HIDE DEF e, a
  <2> QED
    BY WritesOne, <1>0, <1>1, <1>2, <2>1, <2>2, <2>3 DEF Steps, Returns
<1>5. LET b == view[mac].block
      IN  \A left \in {b, Partly(b), Whole(b)} :
            left \in {"none", "on", "off", "half"}
  BY <1>0, EntryType DEF Whole, Partly
<1> QED
  BY <1>3, <1>4, <1>5 DEF Die

LEMMA HandKeeps ==
  ASSUME DeviceInv, NEW d \in Devices, NEW p \in Halves,
         SwitchByHand(d, p) \/ SwitchBlockByHand(d)
  PROVE  DeviceInv'
<1>0. /\ DeviceTypeOK /\ AskedInv /\ AgreedInv /\ CallInv /\ pc = "idle"
      /\ view[d] \in Entries /\ conf[d] \in Entries /\ conf[d] = view[d]
      /\ UNCHANGED <<pc, mac, want, unread, now>> /\ Fault
  BY DEF DeviceInv, DeviceTypeOK, SwitchByHand, SwitchBlockByHand, callVars
<1>1. CallInv'
  BY <1>0 DEF CallInv
<1>2. faults' \in 0 .. MaxFaults
  BY <1>0, FaultType
<1>3. CASE SwitchByHand(d, p)
  <2> DEFINE r == [conf[d][p] EXCEPT !.on = ~@]
             e == [conf[d] EXCEPT ![p] = r]
  <2>1. p \in {"evening", "morning"} /\ conf[d][p] \in Sections
    BY <1>0, <1>3, EntryType DEF Halves, SwitchByHand
  <2>2. r \in Sections
    BY <2>1 DEF Sections
  <2>3. e \in Entries
    <3> HIDE DEF r
    <3>0. /\ [conf[d] EXCEPT !.evening = r] \in Entries
          /\ [conf[d] EXCEPT !.morning = r] \in Entries
      BY <1>0, <2>2, EntryType
    <3>1. CASE p = "evening"
      BY <3>0, <3>1
    <3>2. CASE p = "morning"
      BY <3>0, <3>2
    <3> QED
      BY <3>1, <3>2, <2>1
  <2>4. conf' = [conf EXCEPT ![d] = e] /\ view' = [view EXCEPT ![d] = e]
    BY <1>0, <1>3 DEF SwitchByHand, DeviceTypeOK
  <2>5. /\ asked' = [asked EXCEPT ![d] = Unknown]
        /\ agreed' = [agreed EXCEPT ![d] = Unknown]
    BY <1>3 DEF SwitchByHand
  <2>6. DeviceTypeOK'
    BY <1>0, <1>2, <2>3, <2>4, <2>5 DEF DeviceTypeOK
  <2>7. AgreedInv' /\ AskedInv'
    BY <1>0, <2>4, <2>5 DEF AgreedInv, AskedInv, DeviceTypeOK
  <2> QED
    BY <2>6, <2>7, <1>1 DEF DeviceInv
<1>4. CASE SwitchBlockByHand(d)
  <2> DEFINE b == IF conf[d].block = "on" THEN "off" ELSE "on"
             e == [conf[d] EXCEPT !.block = b]
  <2>1. /\ e \in Entries
        /\ e.evening = conf[d].evening /\ e.morning = conf[d].morning
    <3>1. b \in {"none", "on", "off", "half"}
      OBVIOUS
    <3> HIDE DEF b
    <3>2. e \in Entries
      BY <1>0, <3>1, EntryType
    <3> QED
      BY <1>0, <3>2 DEF Entries
  <2>2. conf' = [conf EXCEPT ![d] = e] /\ view' = [view EXCEPT ![d] = e]
    BY <1>0, <1>4 DEF SwitchBlockByHand, DeviceTypeOK
  <2>3. asked' = asked /\ agreed' = agreed
    BY <1>4 DEF SwitchBlockByHand, historyVars
  <2>4. DeviceTypeOK'
    BY <1>0, <1>2, <2>1, <2>2, <2>3 DEF DeviceTypeOK
  <2>5. \A x \in Devices : /\ view'[x].evening = view[x].evening
                           /\ view'[x].morning = view[x].morning
                           /\ conf'[x].evening = conf[x].evening
                           /\ conf'[x].morning = conf[x].morning
    BY <1>0, <2>1, <2>2 DEF DeviceTypeOK
  <2>6. AgreedInv' /\ AskedInv'
    BY <1>0, <2>3, <2>5 DEF AgreedInv, AskedInv, Carries
  <2> QED
    BY <2>4, <2>6, <1>1 DEF DeviceInv
<1> QED
  BY <1>3, <1>4

LEMMA TickKeeps == DeviceInv /\ (Tick \/ UNCHANGED deviceVars) => DeviceInv'
<1> SUFFICES ASSUME DeviceInv, Tick \/ UNCHANGED deviceVars PROVE DeviceInv'
  OBVIOUS
<1>0. /\ DeviceTypeOK /\ AskedInv /\ AgreedInv /\ CallInv
      /\ UNCHANGED <<conf, view, pc, mac, want, unread, faults, asked, agreed>>
      /\ now \in [day : Days, minute : Minutes]
  BY DEF DeviceInv, DeviceTypeOK, Tick, deviceVars, callVars, historyVars
<1>1. now' \in [day : Days, minute : Minutes]
  <2>1. /\ now.day \in Days /\ now.minute \in Minutes /\ 0 \in Minutes
        /\ (now.day + 1) % WeekLength \in Days
        /\ now.minute + 1 < DayLength => now.minute + 1 \in Minutes
    BY <1>0, WeekAssumption DEF Days, Minutes
  <2> QED
    BY <1>0, <2>1 DEF Tick, deviceVars
<1>2. DeviceTypeOK'
  BY <1>0, <1>1 DEF DeviceTypeOK
<1>3. AgreedInv' /\ AskedInv' /\ CallInv'
  BY <1>0 DEF AgreedInv, AskedInv, CallInv
<1> QED
  BY <1>2, <1>3 DEF DeviceInv

\* The strengthened invariant: sections that nobody left half written carry the
\* schedule asked for and nothing else, and a call in progress is as far as its
\* next command says.
THEOREM DeviceInductive == DeviceSpec => []DeviceInv
<1>1. ASSUME DeviceInv, [DeviceNext]_deviceVars
      PROVE  DeviceInv'
  <2>1. ASSUME NEW d \in Devices, BlockDevice(d)
        PROVE  DeviceInv'
    BY <1>1, <2>1, BeginKeeps
  <2>2. ASSUME NEW d \in Devices, UnblockDevice(d)
        PROVE  DeviceInv'
    BY <1>1, <2>2, UnblockKeeps
  <2>3. ASSUME NEW d \in Devices, NEW s \in Offered \cup {NoSchedule},
               StageDeviceSchedule(d, s)
        PROVE  DeviceInv'
    BY <1>1, <2>3, BeginKeeps
  <2>4. ASSUME NEW b \in BOOLEAN, Die(b)
        PROVE  DeviceInv'
    BY <1>1, <2>4, DieKeeps
  <2>5. ASSUME NEW d \in Devices, NEW p \in Halves, SwitchByHand(d, p)
        PROVE  DeviceInv'
    BY <1>1, <2>5, HandKeeps
  <2>6. ASSUME NEW d \in Devices, SwitchBlockByHand(d)
        PROVE  DeviceInv'
    <3>1. "evening" \in Halves
      BY DEF Halves
    <3> QED
      BY <1>1, <2>6, <3>1, HandKeeps
  <2> QED
    BY <1>1, <2>1, <2>2, <2>3, <2>4, <2>5, <2>6, BlockKeeps, DeleteKeeps,
       EveningKeeps, MorningKeeps, CheckKeeps, UndoKeeps, DraftKeeps, TickKeeps
    DEF DeviceNext
<1> QED
  BY <1>1, DeviceInitInv, PTL DEF DeviceSpec

\* Every variable keeps its type, the router's clock included.
THEOREM DeviceTypeCorrect == DeviceSpec => []DeviceTypeOK
<1>1. DeviceInv => DeviceTypeOK
  BY DEF DeviceInv
<1> QED
  BY <1>1, DeviceInductive, PTL

\* What the list shows is what was asked for last, for any number of devices,
\* schedules and failures (StageDeviceSchedule and its undo).
THEOREM ListShowsWhatWasAsked == DeviceSpec => []AskedIsListed
<1>1. DeviceInv => AskedIsListed
  BY CarriedIsListed
  DEF DeviceInv, AgreedInv, AskedInv, AskedIsListed, Listed
<1> QED
  BY <1>1, DeviceInductive, PTL

\* The firewall rejects a device by its schedule exactly when the list says it
\* is off, at every second but the one in which the window ends.
THEOREM FirewallDoesWhatIsListed == DeviceSpec => []ListedIsEnforced
<1>1. DeviceInv => ListedIsEnforced
  <2> SUFFICES ASSUME DeviceInv, NEW d \in Devices, agreed[d] # Unknown,
                      NEW second \in 60 * now.minute .. 60 * now.minute + 59,
                      ~(/\ Listed(conf, d) # NoSchedule
                        /\ LastSecond(Listed(conf, d), second))
               PROVE  (\E r \in {conf[d].evening, conf[d].morning} :
                         Rejects(r, now.day, second))
                      <=> OffBySchedule(conf, d, now)
    BY DEF ListedIsEnforced
  <2>1. agreed[d] \in Wanted /\ Carries(conf[d], agreed[d])
    BY DEF DeviceInv, AgreedInv
  <2>2. Listed(conf, d) = agreed[d]
    BY <2>1, CarriedIsListed DEF Listed
  <2>3. now.day \in Days /\ now.minute \in Minutes
    BY DEF DeviceInv, DeviceTypeOK
  <2>4. CASE agreed[d] = NoSchedule
    BY <2>1, <2>2, <2>4 DEF Carries, Rejects, OffBySchedule
  <2>5. CASE agreed[d] # NoSchedule
    <3>1. agreed[d] \in Schedules /\ Clean(agreed[d])
      BY <2>1, <2>5 DEF Wanted
    <3>2. /\ conf[d].evening = Evening(agreed[d])
          /\ conf[d].morning = Morning(agreed[d])
      BY <2>1, <2>5 DEF Carries
    <3>3. (\/ Rejects(Evening(agreed[d]), now.day, second)
           \/ Rejects(Morning(agreed[d]), now.day, second))
          <=> OffAt(agreed[d], now.day, now.minute)
      BY <3>1, <2>2, <2>3, <2>5, RulesSayTheSame
    <3> QED
      BY <3>2, <3>3, <2>2, <2>5 DEF OffBySchedule
  <2> QED
    BY <2>4, <2>5
<1> QED
  BY <1>1, DeviceInductive, PTL

\* ChangeIsAnnounced: whatever is staged, committed or fails, the time of the
\* next change that the list gives stays until it comes, for any week and any
\* window (NextChange and OffAt, core/schedule.go, which search and decide
\* independently).
THEOREM ChangesComeAsAnnounced == DeviceSpec => ChangeIsAnnounced
<1>1. ASSUME DeviceInv, [DeviceNext]_deviceVars
      PROVE  now' = now \/ now' = NextMinute(now)
  BY <1>1
  DEF DeviceNext, deviceVars, BlockDevice, UnblockDevice, StageDeviceSchedule,
      WriteBlock, DeleteSections, WriteEvening, WriteMorning, CheckDraft, Undo,
      CommitDraft, DiscardDraft, Die, SwitchByHand, SwitchBlockByHand, Tick,
      NextMinute
<1>2. ASSUME DeviceInv, [DeviceNext]_deviceVars, NEW d \in Devices,
             conf'[d] = conf[d]
      PROVE  IF OffBySchedule(conf', d, now') # OffBySchedule(conf, d, now)
             THEN now'.minute = ScheduleChangeAt(conf, d, now)
             ELSE ScheduleChangeAt(conf', d, now') = ScheduleChangeAt(conf, d, now)
  <2> DEFINE s == Listed(conf, d)
  <2>1. Listed(conf', d) = s
    BY <1>2 DEF Listed
  <2>2. now \in [day : Days, minute : Minutes]
    BY <1>2 DEF DeviceInv, DeviceTypeOK
  <2> HIDE DEF s
  <2>3. CASE s = NoSchedule
    BY <2>1, <2>3 DEF OffBySchedule, ScheduleChangeAt, s
  <2>4. CASE s # NoSchedule
    <3>1. \A day, minute : OffAt(s, day, minute) \in BOOLEAN
      BY DEF OffAt
    <3>2. /\ OffBySchedule(conf, d, now) = OffAt(s, now.day, now.minute)
          /\ OffBySchedule(conf', d, now') = OffAt(s, now'.day, now'.minute)
      BY <2>1, <2>4, <3>1 DEF OffBySchedule, s
    <3>3. /\ ScheduleChangeAt(conf, d, now) = NextChange(s, now.day, now.minute)
          /\ ScheduleChangeAt(conf', d, now') = NextChange(s, now'.day, now'.minute)
      BY <2>1, <2>4 DEF ScheduleChangeAt, s
    <3>4. CASE now' = now
      BY <3>2, <3>4, <3>3
    <3>5. CASE now' = NextMinute(now)
      <4>1. IF OffAt(s, now'.day, now'.minute) # OffAt(s, now.day, now.minute)
            THEN now'.minute = NextChange(s, now.day, now.minute)
            ELSE NextChange(s, now'.day, now'.minute)
                 = NextChange(s, now.day, now.minute)
        BY <2>2, <3>5, ChangeComesWhenAnnounced
      <4> QED
        BY <3>2, <3>3, <4>1
    <3> QED
      BY <1>1, <1>2, <3>4, <3>5
  <2> QED
    BY <2>3, <2>4
<1>3. DeviceInv /\ [DeviceNext]_deviceVars
      => [\A d \in Devices :
            conf'[d] = conf[d] =>
              IF OffBySchedule(conf', d, now') # OffBySchedule(conf, d, now)
              THEN now'.minute = ScheduleChangeAt(conf, d, now)
              ELSE ScheduleChangeAt(conf', d, now') = ScheduleChangeAt(conf, d, now)
         ]_deviceVars
  BY <1>2
<1> QED
  BY <1>3, DeviceInductive, PTL DEF DeviceSpec, ChangeIsAnnounced

-----------------------------------------------------------------------------
(* What was switched off by hand.                                           *)

\* Nothing is off in the draft that is not off in the committed firewall: only
\* a hand switches off, and it does so in both.
OffInv ==
  \A d \in Devices :
    /\ view[d].block = "off" => conf[d].block = "off"
    /\ SwitchedOff(view[d].evening) => SwitchedOff(conf[d].evening)
    /\ SwitchedOff(view[d].morning) => SwitchedOff(conf[d].morning)

\* What a step of the panel does to one section: removed, as committed, or
\* written over with its switch left alone.
Spares(old, new, committed) ==
  new \in {NoSection, committed} \/ (new.on <=> Base(old).on)

SparesBlock(old, new, committed) ==
  /\ new = "off" => "off" \in {old, committed}
  /\ old = "off" => new # "on" \/ new = committed

PanelSpares ==
  /\ UNCHANGED conf
  /\ \A d \in Devices : /\ Spares(view[d].evening, view'[d].evening, conf[d].evening)
                        /\ Spares(view[d].morning, view'[d].morning, conf[d].morning)
                        /\ SparesBlock(view[d].block, view'[d].block, conf[d].block)

PausedNow(d) ==
  /\ view[d].block = "off" => view'[d].block # "on"
  /\ \A p \in Halves : SwitchedOff(view[d][p]) => Read(view'[d][p]) = NoSection

LEMMA SparedStays ==
  ASSUME OffInv, PanelSpares
  PROVE  OffInv' /\ \A d \in Devices : PausedNow(d)
<1>1. ASSUME NEW old, NEW new, NEW committed, Spares(old, new, committed),
             SwitchedOff(old) => SwitchedOff(committed)
      PROVE  /\ SwitchedOff(new) => SwitchedOff(committed)
             /\ SwitchedOff(old) => Read(new) = NoSection
  BY <1>1 DEF Spares, SwitchedOff, Read, Base, Blank
<1>2. UNCHANGED conf
  BY DEF PanelSpares
<1>3. ASSUME NEW d \in Devices
      PROVE  /\ view'[d].block = "off" => conf[d].block = "off"
             /\ view[d].block = "off" => view'[d].block # "on"
             /\ SwitchedOff(view'[d].evening) => SwitchedOff(conf[d].evening)
             /\ SwitchedOff(view'[d].morning) => SwitchedOff(conf[d].morning)
             /\ SwitchedOff(view[d].evening) => Read(view'[d].evening) = NoSection
             /\ SwitchedOff(view[d].morning) => Read(view'[d].morning) = NoSection
  <2>1. /\ view[d].block = "off" => conf[d].block = "off"
        /\ SwitchedOff(view[d].evening) => SwitchedOff(conf[d].evening)
        /\ SwitchedOff(view[d].morning) => SwitchedOff(conf[d].morning)
    BY DEF OffInv
  <2>2. /\ Spares(view[d].evening, view'[d].evening, conf[d].evening)
        /\ Spares(view[d].morning, view'[d].morning, conf[d].morning)
        /\ SparesBlock(view[d].block, view'[d].block, conf[d].block)
    BY DEF PanelSpares
  <2>3. /\ view'[d].block = "off" => conf[d].block = "off"
        /\ view[d].block = "off" => view'[d].block # "on"
    BY <2>1, <2>2 DEF SparesBlock
  <2> QED
    BY <1>1, <2>1, <2>2, <2>3
<1>4. OffInv'
  BY <1>2, <1>3 DEF OffInv
<1> QED
  BY <1>3, <1>4 DEF PausedNow, Halves

\* A step that rewrites the entry of one device.
LEMMA SparesOne ==
  ASSUME DeviceTypeOK, NEW d \in Devices, NEW e, UNCHANGED conf,
         view' = [view EXCEPT ![d] = e],
         Spares(view[d].evening, e.evening, conf[d].evening),
         Spares(view[d].morning, e.morning, conf[d].morning),
         SparesBlock(view[d].block, e.block, conf[d].block)
  PROVE  PanelSpares
<1>1. view \in [Devices -> Entries]
  BY DEF DeviceTypeOK
<1>2. ASSUME NEW x \in Devices, x # d
      PROVE  /\ Spares(view[x].evening, view'[x].evening, conf[x].evening)
             /\ Spares(view[x].morning, view'[x].morning, conf[x].morning)
             /\ SparesBlock(view[x].block, view'[x].block, conf[x].block)
  <2>1. view'[x] = view[x]
    BY <1>1, <1>2
  <2>2. \A r : Spares(r, r, NoSection)
    BY DEF Spares, Base
  <2> QED
    BY <2>1, <2>2 DEF Spares, SparesBlock, Base
<1>3. view'[d] = e
  BY <1>1
<1> QED
  BY <1>2, <1>3 DEF PanelSpares

\* The commands of the two stagings leave the switch alone.
LEMMA WritingSpares ==
  ASSUME NEW r \in Sections, NEW old \in Sections \cup {NoSection}, NEW committed
  PROVE  /\ Spares(old, Written(r, old), committed)
         /\ \A new \in Cut(r, old) : Spares(old, new, committed)
         /\ Spares(old, old, committed)
<1>1. Base(old) \in Sections /\ Base(old).on \in BOOLEAN
  BY DEF Base, Blank, Sections
<1>2. Written(r, old).on = Base(old).on
  BY <1>1 DEF Written, Sections
<1>3. \A new \in Parts(r, old) : new.on = Base(old).on
  BY <1>1 DEF Parts, Sections
<1>4. Spares(old, old, committed)
  BY DEF Spares, Base
<1> QED
  BY <1>1, <1>2, <1>3, <1>4 DEF Spares, Cut

\* Every step but a hand's is one that spares, or commits.
LEMMA StepSpares ==
  ASSUME DeviceInv, OffInv, DeviceNext
  PROVE  \/ PanelSpares \/ CommitDraft
         \/ \E d \in Devices, p \in Halves : SwitchByHand(d, p)
         \/ \E d \in Devices : SwitchBlockByHand(d)
<1> DEFINE e == view[mac]
           c == conf[mac]
<1>1. /\ DeviceTypeOK /\ CallInv /\ mac \in Devices /\ e \in Entries /\ c \in Entries
      /\ view \in [Devices -> Entries] /\ want \in Wanted
  BY DEF DeviceInv, DeviceTypeOK, CallInv
<1>2. /\ e.evening \in Sections \cup {NoSection} /\ e.morning \in Sections \cup {NoSection}
      /\ e.block \in {"none", "on", "off", "half"}
  BY <1>1 DEF Entries
<1>3. /\ \A committed : Spares(e.evening, e.evening, committed)
      /\ \A committed : Spares(e.morning, e.morning, committed)
      /\ \A b, committed : SparesBlock(b, b, committed) /\ SparesBlock(b, "none", committed)
      /\ \A old, committed : Spares(old, NoSection, committed) /\ Spares(old, committed, committed)
  BY DEF Spares, SparesBlock, Base
<1>4. ASSUME UNCHANGED <<conf, view>> PROVE PanelSpares
  <2>1. \A r, committed : Spares(r, r, committed)
    BY DEF Spares, Base
  <2> QED
    BY <1>3, <1>4, <2>1 DEF PanelSpares
<1>5. ASSUME view' = conf, UNCHANGED conf PROVE PanelSpares
  <2>1. \A d \in Devices : SparesBlock(view[d].block, conf[d].block, conf[d].block)
    BY DEF OffInv, SparesBlock
  <2> QED
    BY <1>3, <1>5, <2>1 DEF PanelSpares
<1>6. ASSUME NEW b, SparesBlock(e.block, b, c.block), UNCHANGED conf,
             view' = [view EXCEPT ![mac].block = b]
      PROVE  PanelSpares
  <2> DEFINE n == [e EXCEPT !.block = b]
  <2>1. view' = [view EXCEPT ![mac] = n]
    BY <1>6
  <2>2. n.evening = e.evening /\ n.morning = e.morning /\ n.block = b
    BY <1>1 DEF Entries
  <2> HIDE DEF n
  <2> QED
    BY <1>1, <1>3, <1>6, <2>1, <2>2, SparesOne
<1>7. ASSUME NEW x, NEW y, Spares(e.evening, x, c.evening), Spares(e.morning, y, c.morning),
             UNCHANGED conf,
             view' = [view EXCEPT ![mac] = [e EXCEPT !.evening = x, !.morning = y]]
      PROVE  PanelSpares
  <2> DEFINE n == [e EXCEPT !.evening = x, !.morning = y]
  <2>1. n.evening = x /\ n.morning = y /\ n.block = e.block
    BY <1>1 DEF Entries
  <2> HIDE DEF n
  <2> QED
    BY <1>1, <1>3, <1>7, <2>1, SparesOne DEF n
<1>8. ASSUME NEW x, NEW p \in Halves, UNCHANGED conf,
             p = "evening" => Spares(e.evening, x, c.evening)
                              /\ view' = [view EXCEPT ![mac].evening = x],
             p = "morning" => Spares(e.morning, x, c.morning)
                              /\ view' = [view EXCEPT ![mac].morning = x]
      PROVE  PanelSpares
  <2>1. CASE p = "evening"
    <3>1. view' = [view EXCEPT ![mac] = [e EXCEPT !.evening = x, !.morning = e.morning]]
      BY <1>1, <1>8, <2>1 DEF Entries
    <3> QED
      BY <1>3, <1>7, <1>8, <2>1, <3>1
  <2>2. CASE p = "morning"
    <3>1. view' = [view EXCEPT ![mac] = [e EXCEPT !.evening = e.evening, !.morning = x]]
      BY <1>1, <1>8, <2>2 DEF Entries
    <3> QED
      BY <1>3, <1>7, <1>8, <2>2, <3>1
  <2> QED
    BY <1>8, <2>1, <2>2 DEF Halves
<1>9. \A b \in {e.block, Partly(e.block), Whole(e.block), c.block} :
        SparesBlock(e.block, b, c.block)
  <2>1. e.block = "off" => c.block = "off"
    BY <1>1 DEF OffInv
  <2> QED
    BY <1>2, <2>1 DEF SparesBlock, Partly, Whole
<1>10. CASE WriteBlock
  <2>1. PICK b \in {e.block, Partly(e.block), Whole(e.block), c.block} :
          view' = [view EXCEPT ![mac].block = b]
    BY <1>10 DEF WriteBlock
  <2>2. UNCHANGED conf
    BY <1>10 DEF WriteBlock
  <2> QED
    BY <1>6, <1>9, <2>1, <2>2
<1>11. ASSUME NEW d \in Devices, UnblockDevice(d) PROVE PanelSpares
  <2> DEFINE n == [view[d] EXCEPT !.block = "none"]
  <2>1. view' = [view EXCEPT ![d] = n] /\ UNCHANGED conf
    BY <1>11 DEF UnblockDevice
  <2>2. n.evening = view[d].evening /\ n.morning = view[d].morning /\ n.block = "none"
    BY <1>1 DEF Entries
  <2>3. \A r, committed : Spares(r, r, committed)
    BY DEF Spares, Base
  <2> HIDE DEF n
  <2> QED
    BY <1>1, <1>3, <2>1, <2>2, <2>3, SparesOne
<1>12. CASE DeleteSections
  <2>1. UNCHANGED conf
    BY <1>12 DEF DeleteSections
  <2>2. CASE view' \in {view, [view EXCEPT ![mac].evening = NoSection]}
    <3>1. CASE view' = view
      BY <1>4, <2>1, <3>1
    <3>2. CASE view' = [view EXCEPT ![mac].evening = NoSection]
      BY <1>3, <1>8, <2>1, <3>2 DEF Halves
    <3> QED
      BY <2>2, <3>1, <3>2
  <2>3. ASSUME NEW kept,
               view' = [view EXCEPT
                 ![mac].evening = IF "evening" \in kept THEN @ ELSE NoSection,
                 ![mac].morning = IF "morning" \in kept THEN @ ELSE NoSection]
        PROVE  PanelSpares
    <3> DEFINE x == IF "evening" \in kept THEN e.evening ELSE NoSection
               y == IF "morning" \in kept THEN e.morning ELSE NoSection
    <3>1. view' = [view EXCEPT ![mac] = [e EXCEPT !.evening = x, !.morning = y]]
      BY <1>1, <2>3 DEF Entries
    <3>2. Spares(e.evening, x, c.evening) /\ Spares(e.morning, y, c.morning)
      BY <1>3
    <3> HIDE DEF x, y
    <3> QED
      BY <1>7, <2>1, <3>1, <3>2
  <2> QED
    BY <1>12, <2>2, <2>3 DEF DeleteSections
<1>13. CASE WriteEvening
  <2>1. want \in Schedules /\ pc = "evening"
    BY <1>1, <1>13 DEF CallInv, Wanted, WriteEvening
  <2>2. Evening(want) \in Sections
    BY <2>1, RulesType
  <2>3. PICK x \in {Written(Evening(want), e.evening)} \cup Cut(Evening(want), e.evening) :
          view' = [view EXCEPT ![mac].evening = x]
    BY <1>13 DEF WriteEvening
  <2>4. UNCHANGED conf
    BY <1>13 DEF WriteEvening
  <2>5. Spares(e.evening, x, c.evening)
    BY <1>2, <2>2, <2>3, WritingSpares
  <2> QED
    BY <1>8, <2>3, <2>4, <2>5 DEF Halves
<1>14. CASE WriteMorning
  <2>1. want \in Schedules /\ pc = "morning" /\ Morning(want) # NoSection
    BY <1>1, <1>14 DEF CallInv, Wanted, WriteMorning
  <2>2. Morning(want) \in Sections
    BY <2>1, RulesType
  <2>3. PICK x \in {Written(Morning(want), e.morning)} \cup Cut(Morning(want), e.morning) :
          view' = [view EXCEPT ![mac].morning = x]
    BY <1>14 DEF WriteMorning
  <2>4. UNCHANGED conf
    BY <1>14 DEF WriteMorning
  <2>5. Spares(e.morning, x, c.morning)
    BY <1>2, <2>2, <2>3, WritingSpares
  <2> QED
    BY <1>8, <2>3, <2>4, <2>5 DEF Halves
<1>15. CASE Undo
  <2>1. UNCHANGED conf
    BY <1>15 DEF Undo
  <2>2. PICK back \in SUBSET Halves :
          view' = [view EXCEPT
            ![mac].evening = IF "evening" \in back THEN c.evening ELSE @,
            ![mac].morning = IF "morning" \in back THEN c.morning ELSE @]
    BY <1>15 DEF Undo
  <2> DEFINE x == IF "evening" \in back THEN c.evening ELSE e.evening
             y == IF "morning" \in back THEN c.morning ELSE e.morning
  <2>3. view' = [view EXCEPT ![mac] = [e EXCEPT !.evening = x, !.morning = y]]
    BY <1>1, <2>2 DEF Entries
  <2>4. Spares(e.evening, x, c.evening) /\ Spares(e.morning, y, c.morning)
    BY <1>3
  <2> HIDE DEF x, y
  <2> QED
    BY <1>7, <2>1, <2>3, <2>4
<1>16. ASSUME NEW b \in BOOLEAN, Die(b) PROVE PanelSpares
  <2>1. UNCHANGED conf
    BY <1>16 DEF Die
  <2>2. CASE b
    BY <1>5, <1>16, <2>1, <2>2 DEF Die
  <2>3. CASE ~b
    <3>1. PICK left \in {e.block, Partly(e.block), Whole(e.block)} :
            view' = [view EXCEPT ![mac].block = left]
      BY <1>16, <2>3 DEF Die
    <3> QED
      BY <1>6, <1>9, <2>1, <3>1
  <2> QED
    BY <2>2, <2>3
<1>17. ASSUME NEW d \in Devices, NEW s, BlockDevice(d) \/ StageDeviceSchedule(d, s)
              \/ CheckDraft \/ Tick
       PROVE  PanelSpares
  BY <1>4, <1>17 DEF BlockDevice, StageDeviceSchedule, CheckDraft, Tick
<1>18. CASE DiscardDraft
  BY <1>5, <1>18 DEF DiscardDraft
<1> QED
  BY <1>1, <1>10, <1>11, <1>12, <1>13, <1>14, <1>15, <1>16, <1>17, <1>18
  DEF DeviceNext

LEMMA HandSpares ==
  ASSUME DeviceInv, OffInv, NEW d \in Devices,
         SwitchBlockByHand(d) \/ \E p \in Halves : SwitchByHand(d, p)
  PROVE  OffInv' /\ \A x \in Devices : x # d => PausedNow(x)
<1>1. /\ view \in [Devices -> Entries] /\ conf \in [Devices -> Entries]
      /\ conf[d] = view[d]
  BY DEF DeviceInv, DeviceTypeOK, SwitchBlockByHand, SwitchByHand
<1>2. PICK e : view' = [view EXCEPT ![d] = e] /\ conf' = [conf EXCEPT ![d] = e]
  BY <1>1 DEF SwitchBlockByHand, SwitchByHand
<1>3. view'[d] = conf'[d]
  BY <1>1, <1>2
<1>4. \A x \in Devices : x # d => view'[x] = view[x] /\ conf'[x] = conf[x]
  BY <1>1, <1>2
<1>5. OffInv'
  BY <1>3, <1>4 DEF OffInv
<1>6. ASSUME NEW x \in Devices, x # d PROVE PausedNow(x)
  BY <1>4, <1>6 DEF PausedNow, SwitchedOff, Read
<1> QED
  BY <1>5, <1>6

LEMMA OffKept == DeviceSpec => []OffInv
<1>1. DeviceInit => OffInv
  BY DEF DeviceInit, OffInv
<1>2. ASSUME DeviceInv, OffInv, [DeviceNext]_deviceVars PROVE OffInv'
  <2>1. CASE UNCHANGED deviceVars
    BY <1>2, <2>1 DEF deviceVars, OffInv
  <2>2. CASE PanelSpares
    BY <1>2, <2>2, SparedStays
  <2>3. CASE CommitDraft
    BY <2>3 DEF CommitDraft, OffInv
  <2>4. ASSUME NEW d \in Devices, SwitchBlockByHand(d) \/ \E p \in Halves : SwitchByHand(d, p)
        PROVE  OffInv'
    BY <1>2, <2>4, HandSpares
  <2> QED
    BY <1>2, <2>1, <2>2, <2>3, <2>4, StepSpares
<1> QED
  BY <1>1, <1>2, DeviceInductive, PTL DEF DeviceSpec

\* PausedStays: no staging, failure, undo, death or discarded draft switches on
\* what somebody switched off by hand, for any number of devices and faults
\* (StageDeviceInternet and StageDeviceSchedule write option by option, and
\* never the one that is the switch).
THEOREM PausedIsLeftAlone == DeviceSpec => PausedStays
<1>1. ASSUME DeviceInv, OffInv, DeviceNext, NEW d \in Devices
      PROVE  \/ PausedNow(d) \/ SwitchBlockByHand(d)
             \/ \E p \in Halves : SwitchByHand(d, p)
  <2>1. CASE PanelSpares
    BY <1>1, <2>1, SparedStays
  <2>2. CASE CommitDraft
    BY <2>2 DEF CommitDraft, PausedNow, SwitchedOff, Read
  <2>3. ASSUME NEW x \in Devices, SwitchBlockByHand(x) \/ \E p \in Halves : SwitchByHand(x, p)
        PROVE  \/ PausedNow(d) \/ SwitchBlockByHand(d)
               \/ \E p \in Halves : SwitchByHand(d, p)
    BY <1>1, <2>3, HandSpares
  <2> QED
    BY <1>1, <2>1, <2>2, <2>3, StepSpares
<1>2. DeviceInv /\ OffInv /\ [DeviceNext]_deviceVars
      => [\A d \in Devices :
            \/ /\ view[d].block = "off" => view'[d].block # "on"
               /\ \A p \in Halves :
                    SwitchedOff(view[d][p]) => Read(view'[d][p]) = NoSection
            \/ SwitchBlockByHand(d)
            \/ \E p \in Halves : SwitchByHand(d, p)]_deviceVars
  BY <1>1 DEF PausedNow
<1> QED
  BY <1>2, DeviceInductive, OffKept, PTL DEF DeviceSpec, PausedStays
=============================================================================
