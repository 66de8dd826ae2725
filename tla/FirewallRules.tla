--------------------------- MODULE FirewallRules ----------------------------
(***************************************************************************)
(* The owner's traffic rules and port forwards: StageRule, RemoveRule and  *)
(* MoveRule (openwrt/firewall_rules.go), StagePortForward and              *)
(* RemovePortForward (openwrt/firewall_write.go), the reader they rest on  *)
(* (openwrt/firewall.go), and what StagedChanges tells of their draft.     *)
(*                                                                         *)
(* A staging runs under the coordinator's mutex, so no other staging comes *)
(* in between; what it leaves behind when a command fails, or when its     *)
(* time is up and the revert cannot run either, is a step of its own here. *)
(* A request refused before its first command changes nothing.             *)
(***************************************************************************)
EXTENDS UciDraft

CONSTANTS
  Zones,         \* the zones of this firewall, by name
  InternetZone,  \* the one with NAT, and the one the local network is in
  LocalZone,
  PortsOf,       \* the ports a written list of ports stands for
  Lan,           \* the addresses of the local network
  Clock,         \* the times of day, as the panel writes them into a rule
  Names,         \* the sections of the device screen, and what their names say
  Stock,         \* the rules the firewall package ships, as options
  Files,         \* the committed files a run starts from
  Bodies,        \* bound: the rules the operator asks for
  Forwards,      \* bound: the port forwards the operator asks for
  MaxEdits,      \* bound: stagings that change something
  MaxFaults      \* bound: commands that fail or run out of time

ASSUME FirewallAssumption ==
  /\ MaxEdits \in Nat /\ MaxFaults \in Nat
  /\ {InternetZone, LocalZone} \subseteq Zones /\ InternetZone # LocalZone
  /\ {"", "*"} \cap Zones = {}
  /\ "" \in DOMAIN PortsOf /\ PortsOf[""] = {}
  /\ \A l \in DOMAIN PortsOf : PortsOf[l] \subseteq Nat \ {0}

\* The rules another screen keeps for a device are told by their names:
\* `vb_noinet_' before an address is a block, `vb_sched_' a part of a schedule.
\* mac is "" where no address can be read.  uci numbers the sections it names
\* itself, so these have the other numbers.
ASSUME NamesAssumption ==
  /\ \A id \in DOMAIN Names :
       /\ id \in Int \ Nat
       /\ Names[id].part \in {"block", "evening", "morning"}
  /\ \A i, j \in DOMAIN Names : Names[i] = Names[j] => i = j

VARIABLES
  conf,    \* the committed file
  view,    \* the same with the draft on top, as `uci show' prints it
  lines,   \* `uci changes'
  said,    \* the rows the last staging answered with
  edits,
  faults,
  told,    \* history: the file the last answer that was no error was about
  late     \* history: a revert was due when the time was up

historyVars  == <<told, late>>
firewallVars == <<conf, view, lines, said, edits, faults, historyVars>>

Actions == {"accept", "reject", "drop"}

\* What the panel writes into a rule, and the conditions it only reads: `more'
\* is any it has no use for.
SetOptions == {"name", "enabled", "src", "dest", "proto", "dest_port",
               "target", "family"}

Conditions == {"src_mac", "weekdays", "start_time", "stop_time", "more"}

RuleOptions == SetOptions \cup Conditions

ForwardOptions == {"target", "src", "dest", "proto", "src_dport", "dest_ip",
                   "dest_port", "name", "enabled"}

-----------------------------------------------------------------------------
(* Reading a rule.                                                          *)

\* protocols: none written is TCP and UDP.  Of the lists only this one is
\* written here.
ProtosOf(proto) ==
  IF proto \in {"", "tcpudp", "tcp udp"} THEN {"tcp", "udp"} ELSE {proto}

\* ruleAction: a target that decides nothing is "other".
ActionOf(target) ==
  IF target = "" THEN "accept" ELSE IF target \in Actions THEN target ELSE "other"

IsSystem(s) == s.opt \in Stock

\* parseFirewall, for a section of kind "rule"; more: it has a condition the
\* panel does not show.
RuleOf(s) ==
  [id |-> s.id, name |-> s.opt["name"], enabled |-> s.opt["enabled"] # "0",
   from |-> s.opt["src"], to |-> s.opt["dest"],
   protos |-> ProtosOf(s.opt["proto"]), ports |-> s.opt["dest_port"],
   action |-> ActionOf(s.opt["target"]),
   family |-> IF s.opt["family"] = "any" THEN "" ELSE s.opt["family"],
   more |-> \/ \E o \in Conditions : s.opt[o] # ""
            \/ ActionOf(s.opt["target"]) = "other"]

RulesOf(file) == OfKind(file, "rule")

RuleIds(file) == {s \in Ids(file) : Of(file, s).kind = "rule"}

PortsApply(protos) == protos # {} /\ protos \subseteq {"tcp", "udp"}

\* FirewallRuleConfig.
Body(name, enabled, from, to, proto, ports, action, family) ==
  [name |-> name, enabled |-> enabled, from |-> from, to |-> to,
   proto |-> proto, protos |-> ProtosOf(proto), ports |-> ports,
   action |-> action, family |-> family]

\* The protocols the panel writes.
RuleProtos == {"tcp", "udp", "icmp", "all"}

\* What the API hands down, parsed; the ports are a list normalizeRule reads, or
\* one it finds nothing in.
ASSUME BodiesAssumption ==
  \A b \in Bodies :
    /\ b = Body(b.name, b.enabled, b.from, b.to, b.proto, b.ports, b.action, b.family)
    /\ b.enabled \in BOOLEAN /\ b.ports \in DOMAIN PortsOf
    /\ ProtosOf(b.proto) \subseteq RuleProtos

\* normalizeRule and the zones of the device.
Normal(b) ==
  /\ b.from \in Zones \cup {"*"}
  /\ b.to \in Zones \cup {"*", ""}
  /\ b.ports # "" => PortsApply(b.protos) /\ PortsOf[b.ports] # {}
  /\ b.action \in Actions
  /\ b.family \in {"", "ipv4", "ipv6"}

\* Mutant: a rule for one family is taken to cover both.
CoversAnyFamily(r, want) ==
  /\ r.from \in {want.from, "*"}
  /\ r.to = want.to \/ (r.to = "*" /\ want.to # "")
  /\ "all" \in r.protos \/ want.protos \subseteq r.protos
  /\ \/ r.ports = ""
     \/ /\ want.ports # "" /\ PortsApply(want.protos)
        /\ PortsOf[want.ports] \subseteq PortsOf[r.ports]

\* Mutant: a rule into a zone is not seen to be covered by one into any zone.
CoversSameTo(r, want) ==
  /\ r.from \in {want.from, "*"}
  /\ r.to = want.to
  /\ r.family \in {"", want.family}
  /\ "all" \in r.protos \/ want.protos \subseteq r.protos
  /\ \/ r.ports = ""
     \/ /\ want.ports # "" /\ PortsApply(want.protos)
        /\ PortsOf[want.ports] \subseteq PortsOf[r.ports]

Covers(r, want) ==
  /\ r.from \in {want.from, "*"}
  /\ r.to = want.to \/ (r.to = "*" /\ want.to # "")
  /\ r.family \in {"", want.family}
  /\ "all" \in r.protos \/ want.protos \subseteq r.protos
  /\ \/ r.ports = ""
     \/ /\ want.ports # "" /\ PortsApply(want.protos)
        /\ PortsOf[want.ports] \subseteq PortsOf[r.ports]

\* One of the first `at' rules decides all of it, the other way.
ShadowedBy(rules, at, want) ==
  /\ want.enabled
  /\ \E i \in 1 .. at :
       LET r == RuleOf(rules[i])
       IN  /\ r.enabled /\ ~r.more /\ r.action # "other"
           /\ (r.action = "accept") # (want.action = "accept")
           /\ Covers(r, want)

\* ruleAsConfig: a protocol the panel does not write, an action that decides
\* nothing, or a list of ports that cannot be read is not checked.
Statable(r) ==
  /\ r.action \in Actions /\ r.protos \subseteq RuleProtos
  /\ r.ports # "" => PortsOf[r.ports] # {}

-----------------------------------------------------------------------------
(* What the answers and the rows say.                                       *)

ForwardPort(o) == IF o["dest_port"] = "" THEN o["src_dport"] ELSE o["dest_port"]

\* ruleWords: every protocol is not said, nor are its ports.
RuleWords(o) ==
  LET all    == ProtosOf(o["proto"]) = {"all"}
      family == IF o["family"] \in {"ipv4", "ipv6"} THEN o["family"] ELSE ""
  IN  IF all /\ <<o["src"], o["dest"], family>> = <<"", "", "">> THEN <<>>
      ELSE <<"rule", o["src"], o["dest"], ProtosOf(o["proto"]),
             IF all THEN "" ELSE o["dest_port"], family>>

\* ruleWords and portForwardWords, in which a staging answers.
Described(s) ==
  IF s.kind = "rule" THEN RuleWords(s.opt)
    ELSE <<"forward", ProtosOf(s.opt["proto"]), s.opt["src_dport"],
           s.opt["dest_ip"], ForwardPort(s.opt)>>

\* rulePhrase.
Phrase(s) ==
  IF s.kind = "rule"
    THEN <<ActionOf(s.opt["target"]),
           IF s.opt["dest"] = "" THEN "router" ELSE "through">>
    ELSE <<"redirect">>

\* isNoInternetSection, isScheduleSection.
IsBlock(s) == s.kind = "rule" /\ s.id \in DOMAIN Names /\ Names[s.id].part = "block"

IsSchedule(id) == id \in DOMAIN Names /\ Names[id].part # "block"

\* entryWords, in which the apply bar tells of an entry: a device's block by the
\* device, and nothing of a forward whose port on the router is not written.
Words(s) ==
  IF IsBlock(s) THEN Said(s.opt["src_mac"])
  ELSE IF s.kind = "redirect" /\ s.opt["src_dport"] = "" THEN <<>>
  ELSE Described(s)

\* roleOf and describe: the panel's own block first.
Says(s) == IF IsBlock(s) THEN <<"no internet">> ELSE Phrase(s)

Label(s, option) == IF IsBlock(s) THEN <<"setting">> ELSE <<s.kind, option>>

EntryKinds == {"rule", "redirect"}

-----------------------------------------------------------------------------
(* A device's schedule: one or two sections, and one row.                   *)

EveningEnd == "23:59:59"
Midnight   == "00:00:00"

\* What is written of this part of the device's schedule, unless it is off.
PartOn(file, mac, part) ==
  {Of(file, id).opt : id \in
     {x \in Ids(file) \cap DOMAIN Names :
        /\ Names[x].part = part /\ Names[x].mac = mac
        /\ Of(file, x).kind = "rule" /\ Of(file, x).opt["enabled"] # "0"}}

\* scheduleFrom, of what is written of the two parts: an evening that goes on
\* after midnight ends where its morning does.
ScheduleFrom(evenings, mornings) ==
  LET evening == CHOOSE o \in evenings : TRUE
      morning == CHOOSE o \in mornings : TRUE
      to      == IF evening["stop_time"] # EveningEnd THEN evening["stop_time"]
                 ELSE IF mornings = {} THEN Midnight ELSE morning["stop_time"]
  IN  IF \/ evenings = {}
         \/ evening["weekdays"] = ""
         \/ ~({evening["start_time"], to} \subseteq Clock)
         \/ evening["start_time"] = to
      THEN <<>>
      ELSE <<evening["weekdays"], evening["start_time"], to>>

\* schedules and Words; <<>> when the file has no schedule for the device.
ScheduleWords(file, mac) ==
  ScheduleFrom(PartOn(file, mac, "evening"), PartOn(file, mac, "morning"))

\* scheduleRow; the section its detail names may not be there.
ScheduleRow(mac, was, will) == Row(0, <<"schedule">>, was, will, <<mac>>)

\* The row of the i-th line: that of a schedule's section is the schedule's,
\* where the first line of any of its sections is, whatever the line is.
LineRow(before, after, log, whole, i) ==
  LET id  == log[i].id
      was == ScheduleWords(before, Names[id].mac)
      now == ScheduleWords(after, Names[id].mac)
  IN  IF ~IsSchedule(id)
        THEN RowOfLine(before, after, log[i], whole, EntryKinds, Words, Says, Label)
      ELSE IF \/ Names[id].mac = ""
              \/ \E j \in 1 .. i - 1 : /\ IsSchedule(log[j].id)
                                       /\ Names[log[j].id].mac = Names[id].mac
              \/ was = now
        THEN NoRow
      ELSE ScheduleRow(Names[id].mac, was, now)

\* StagedChanges, of the firewall.
RowsIn(before, after, log) ==
  LET whole == WholeEntries(before, after, log, EntryKinds)
  IN  Bar(log, [i \in DOMAIN log |-> LineRow(before, after, log, whole, i)])

Rows == RowsIn(conf, view, lines)

-----------------------------------------------------------------------------
(* How a staging ends.                                                      *)

\* What uci prints of a file: every section has a name of its own, and what the
\* panel reads of a rule or a forward is there or "".
IsSection(s) ==
  /\ s = Section(s.id, s.kind, s.opt) /\ s.id \in Int \ {0}
  /\ s.opt = [o \in DOMAIN s.opt |-> s.opt[o]] /\ "" \notin DOMAIN s.opt
  /\ s.kind = "rule" => /\ DOMAIN s.opt = RuleOptions
                        /\ s.opt["dest_port"] \in DOMAIN PortsOf
  /\ s.kind = "redirect" => DOMAIN s.opt = ForwardOptions

IsFile(file) ==
  /\ file \in Seq({file[i] : i \in DOMAIN file})
  /\ \A i \in DOMAIN file : IsSection(file[i])
  /\ \A i, j \in DOMAIN file : file[i].id = file[j].id => i = j

ASSUME FilesAssumption == \A file \in Files : IsFile(file)

FirewallInit ==
  /\ conf \in Files
  /\ view = conf /\ lines = <<>> /\ said = <<>>
  /\ edits = 0 /\ faults = 0
  /\ told = conf /\ late = FALSE

\* fw4 check has nothing new to say.
Accepted(file, log, rows) ==
  /\ view' = file /\ lines' = log /\ said' = rows
  /\ told' = file
  /\ UNCHANGED <<faults, late>>

\* Mutant: what was written before the failure is left.
DroppedNothing(cuts) ==
  /\ faults < MaxFaults /\ faults' = faults + 1
  /\ said' = <<>>
  /\ \E cut \in cuts : view' = cut.file /\ lines' = cut.log
  /\ UNCHANGED <<told, late>>

\* A command fails, or the check refuses the draft: the whole file's draft is
\* discarded, whoever made it.  When the failure is that the time is up the
\* revert, which runs under the same deadline, does not happen, and one of the
\* cuts is what stays.
Dropped(cuts) ==
  /\ faults < MaxFaults /\ faults' = faults + 1
  /\ said' = <<>>
  /\ \/ view' = conf /\ lines' = <<>> /\ UNCHANGED <<told, late>>
     \/ /\ \E cut \in cuts : view' = cut.file /\ lines' = cut.log
        /\ late' = TRUE
        /\ UNCHANGED told

Counted == edits < MaxEdits /\ edits' = edits + 1 /\ UNCHANGED conf

-----------------------------------------------------------------------------
(* Rules.                                                                   *)

\* What StageRule writes.
RuleSettings(b) ==
  <<Setting("src", b.from, ""), Setting("dest", b.to, ""),
    Setting("proto", b.proto, ""), Setting("dest_port", b.ports, ""),
    Setting("target", b.action, ""), Setting("family", b.family, "any"),
    Setting("name", b.name, ""),
    Setting("enabled", IF b.enabled THEN "" ELSE "0", "1")>>

\* Defaults an existing rule leaves out are not written out.
LeavesOut(opt, s) ==
  \/ s.key = "proto" /\ s.value = "tcp udp" /\ opt["proto"] \in {"", "tcpudp"}
  \/ s.key = "target" /\ s.value = "accept" /\ opt["target"] = ""

WrittenOut(sets, opt) ==
  Picked(sets, {i \in DOMAIN sets : ~LeavesOut(opt, sets[i])})

\* A new rule, in front of `before' or last: added, filled in, and then moved
\* to the place `before' has in the whole file.
AddRule(b, before) ==
  LET rules == RulesOf(view)
      at    == IF before = 0 THEN Len(rules) ELSE Pos(rules, before) - 1
      id    == NewId(view, lines)
      sets  == RuleSettings(b)
      es    == Edits(sets, NoOptions(RuleOptions), {})
      added == Append(view, Section(id, "rule", NoOptions(RuleOptions)))
      log   == Append(lines, Line(id, "", FALSE))
      set   == Staged(added, id, es)
      slog  == log \o LinesOf(id, sets, es)
      file  == IF before = 0 THEN set
               ELSE UciReorder(set, id, Pos(view, before) - 1)
      flog  == IF before = 0 THEN slog ELSE Append(slog, Line(id, "", TRUE))
      sec   == Of(file, id)
  IN  /\ Counted
      /\ Normal(b)
      /\ before \in RuleIds(view) \cup {0}
      /\ ~ShadowedBy(rules, at, b)
      /\ \/ Accepted(file, flog, <<Row(id, Phrase(sec), <<>>, Described(sec), <<>>)>>)
         \/ Dropped(Cuts(added, log, id, sets, es) \cup {Cut(file, flog)})

\* sameButEnabled.
SameButEnabled(r, want) ==
  /\ r.name = want.name /\ r.from = want.from /\ r.to = want.to
  /\ r.protos = want.protos /\ r.ports = want.ports /\ r.action = want.action
  /\ r.family = want.family

\* An edit in place.  An option that cannot be read is taken for absent.
EditRule(id, b) ==
  LET opt  == Of(view, id).opt
      sets(unread) == WrittenOut(RuleSettings(b), Over(opt, [k \in unread |-> ""]))
      es(unread) == Edits(sets(unread), opt, unread)
      log(unread) == lines \o LinesOf(id, sets(unread), es(unread))
      rows(unread) == RowsOf(id, sets(unread), es(unread), opt, unread,
                             LAMBDA k : <<"rule", k>>, Subject(Of(view, id), Described))
  IN  /\ Counted
      /\ Normal(b)
      /\ ~IsSystem(Of(view, id))
      /\ RuleOf(Of(view, id)).more => SameButEnabled(RuleOf(Of(view, id)), b)
      /\ \/ Accepted(Staged(view, id, es({})), log({}), rows({}))
         \/ \E o \in {k \in SetOptions : opt[k] # ""} :
              /\ faults < MaxFaults /\ faults' = faults + 1
              /\ view' = Staged(view, id, es({o}))
              /\ lines' = log({o})
              /\ said' = rows({o})
              /\ told' = view'
              /\ UNCHANGED late
         \/ es({}) # {} /\ Dropped(Cuts(view, lines, id, sets({}), es({})))

RemoveRule(id) ==
  LET sec == Of(view, id)
  IN  /\ Counted
      /\ ~IsSystem(sec)
      /\ Accepted(UciDelete(view, id), Append(lines, Line(id, "", FALSE)),
                  <<Row(id, Phrase(sec), Described(sec), <<>>, <<>>)>>)

\* The place `uci reorder' is given: that of `before', or one less when the
\* rule's own place closes up first; past every section for the end.
PlaceInFile(file, before, land, at) ==
  IF before = 0 THEN Len(file)
  ELSE Pos(file, before) - 1 - (IF land >= at THEN 1 ELSE 0)

\* A move in front of `before', or to the end.
MoveRule(id, before) ==
  LET rules == RulesOf(view)
      r     == RuleOf(Of(view, id))
      at    == Pos(rules, id) - 1
      bt    == Pos(rules, before) - 1
      rest  == UciDelete(rules, id)
      land  == IF before = 0 THEN Len(rest)
               ELSE IF bt > at THEN bt - 1 ELSE bt
      file  == UciReorder(view, id, PlaceInFile(view, before, land, at))
      log   == Append(lines, Line(id, "", TRUE))
  IN  /\ Counted
      /\ ~IsSystem(Of(view, id))
      /\ before \in (RuleIds(view) \ {id}) \cup {0}
      /\ land # at
      /\ Statable(r) => ~ShadowedBy(rest, land, r)
      /\ \/ Accepted(file, log,
              <<Row(id, <<"position">>, <<"place", at + 1>>, <<"place", land + 1>>,
                    Subject(Of(view, id), Described))>>)
         \/ Dropped({Cut(view, lines), Cut(file, log)})

-----------------------------------------------------------------------------
(* Port forwards.                                                           *)

\* parseFirewall lists no other redirect.
IsForward(s) == s.kind = "redirect" /\ s.opt["target"] \in {"", "DNAT"}

\* The range on the router maps one to one to the device's, and the device is
\* on the local network.
Forwardable(f) ==
  /\ ProtosOf(f.proto) \subseteq {"tcp", "udp"}
  /\ PortsOf[f.external] # {}
  /\ f.port # "" => Cardinality(PortsOf[f.port]) = Cardinality(PortsOf[f.external])
  /\ f.address \in Lan

\* A name that is not given is left alone.
ForwardSettings(f) ==
  <<Setting("target", "DNAT", ""), Setting("src", InternetZone, ""),
    Setting("dest", LocalZone, ""), Setting("proto", f.proto, ""),
    Setting("src_dport", f.external, ""), Setting("dest_ip", f.address, ""),
    Setting("dest_port", f.port, "")>>
  \o (IF f.name = "" THEN <<>> ELSE <<Setting("name", f.name, "")>>)
  \o <<Setting("enabled", IF f.enabled THEN "" ELSE "0", "1")>>

AddForward(f) ==
  LET id    == NewId(view, lines)
      sets  == ForwardSettings(f)
      es    == Edits(sets, NoOptions(ForwardOptions), {})
      added == Append(view, Section(id, "redirect", NoOptions(ForwardOptions)))
      log   == Append(lines, Line(id, "", FALSE))
      file  == Staged(added, id, es)
      sec   == Of(file, id)
  IN  /\ Counted
      /\ Forwardable(f)
      /\ \/ Accepted(file, log \o LinesOf(id, sets, es),
                     <<Row(id, Phrase(sec), <<>>, Described(sec), <<>>)>>)
         \/ Dropped(Cuts(added, log, id, sets, es))

EditForward(id, f) ==
  LET opt  == Of(view, id).opt
      sets == ForwardSettings(f)
      es   == Edits(sets, opt, {})
  IN  /\ Counted
      /\ IsForward(Of(view, id))
      /\ Forwardable(f)
      /\ \/ Accepted(Staged(view, id, es), lines \o LinesOf(id, sets, es),
                     RowsOf(id, sets, es, opt, {}, LAMBDA k : <<"redirect", k>>,
                            Subject(Of(view, id), Described)))
         \/ es # {} /\ Dropped(Cuts(view, lines, id, sets, es))

RemoveForward(id) ==
  LET sec == Of(view, id)
  IN  /\ Counted
      /\ IsForward(sec)
      /\ Accepted(UciDelete(view, id), Append(lines, Line(id, "", FALSE)),
                  <<Row(id, Phrase(sec), Described(sec), <<>>, <<>>)>>)

-----------------------------------------------------------------------------
(* The end of a draft.                                                      *)

\* DiscardStaged, the firewall's part.
DiscardStaged ==
  /\ lines # <<>>
  /\ view' = conf /\ lines' = <<>> /\ said' = <<>> /\ told' = conf
  /\ late' = FALSE
  /\ UNCHANGED <<conf, edits, faults>>

\* The coordinator commits.
Commit ==
  /\ lines # <<>>
  /\ conf' = view /\ lines' = <<>> /\ said' = <<>> /\ told' = view
  /\ late' = FALSE
  /\ UNCHANGED <<view, edits, faults>>

FirewallNext ==
  \/ \E b \in Bodies, before \in RuleIds(view) \cup {0} : AddRule(b, before)
  \/ \E id \in RuleIds(view) :
       \/ \E b \in Bodies : EditRule(id, b)
       \/ RemoveRule(id)
       \/ \E before \in RuleIds(view) \cup {0} : MoveRule(id, before)
  \/ \E f \in Forwards :
       \/ AddForward(f)
       \/ \E id \in Ids(view) : EditForward(id, f)
  \/ \E id \in Ids(view) : RemoveForward(id)
  \/ DiscardStaged
  \/ Commit

FirewallSpec == FirewallInit /\ [][FirewallNext]_firewallVars

-----------------------------------------------------------------------------
(* What the kernel makes of the rules: the first that matches decides.      *)

\* Port 0 stands for every port no list names.
Packets ==
  [from : Zones, to : Zones \cup {""}, proto : {"tcp", "udp", "icmp", "other"},
   port : {0} \cup UNION {PortsOf[l] : l \in DOMAIN PortsOf},
   family : {"ipv4", "ipv6"}]

Matches(r, p) ==
  /\ r.from \in {"*", p.from}
  /\ IF r.to = "*" THEN p.to # "" ELSE p.to = r.to
  /\ "all" \in r.protos \/ p.proto \in r.protos
  /\ \/ r.ports = ""
     \/ p.proto \in {"tcp", "udp"} /\ p.port \in PortsOf[r.ports]
  /\ r.family \in {"", p.family}

\* A rule that is certain to decide what it matches.
Decides(r) == r.enabled /\ ~r.more /\ r.action # "other"

-----------------------------------------------------------------------------
(* Properties.                                                              *)

\* ShadowIsCertain: a rule that is refused because an earlier one decides its
\* traffic would indeed never have acted there: every packet it matches is
\* decided above it ("a false refusal would be worse than the silence").
ShadowIsCertain ==
  LET rules == RulesOf(view)
  IN  \A b \in Bodies, at \in 0 .. Len(rules) :
        ShadowedBy(rules, at, b) =>
          \A p \in Packets :
            Matches(b, p) => \E i \in 1 .. at : /\ Decides(RuleOf(rules[i]))
                                               /\ Matches(RuleOf(rules[i]), p)

\* PlacedRuleActs: a rule that was added, or moved and in the panel's own terms,
\* is on its place not silenced by one rule above it that decides all of its
\* traffic the other way.  Of a rule only a hand can have written (a protocol the
\* panel does not write, a zone that is not there, ports next to every protocol)
\* MoveRule's check cannot tell.
PlacedRuleActs ==
  [][/\ faults' = faults /\ Len(lines') > Len(lines)
     => LET last == lines'[Len(lines')].id
            rules == RulesOf(view')
            k == Pos(rules, last)
            r == RuleOf(rules[k])
        IN  /\ last \in RuleIds(view')
            /\ \/ last \notin Ids(view)
               \/ lines'[Len(lines')].reorder /\ Normal(r) /\ Statable(r)
            /\ Decides(r)
            => \A i \in 1 .. k - 1 :
                 LET e == RuleOf(rules[i])
                 IN  Decides(e) /\ (e.action = "accept") # (r.action = "accept")
                     => \E p \in Packets : Matches(r, p) /\ ~Matches(e, p)
    ]_firewallVars

\* An entry the apply bar has other words for than the screen of the firewall, or
\* none, where it says its kind.
Reworded(s) ==
  \/ s.id \in DOMAIN Names
  \/ s.kind \in EntryKinds /\ Words(s) = <<>>

\* Lines that are about none of these, of the committed file.
NoneReworded(log) ==
  \A i \in DOMAIN log :
    log[i].id \in Ids(conf) => ~Reworded(Of(conf, log[i].id))

\* ReloadSaysTheSame: the rows a staging answers with on an empty draft are the
\* rows the apply bar shows after the page is reloaded ("it must describe that
\* draft exactly the way StageWAN described it when it was created"), for every
\* new entry, and every entry of the file but those the bar has other words for:
\* the device screen's blocks and schedules, a forward without a port on the
\* router, and a rule for every protocol that names no zone and no family.
ReloadSaysTheSame ==
  [][/\ lines = <<>> /\ faults' = faults /\ edits' # edits
     /\ NoneReworded(lines')
     => said' = Rows']_firewallVars

\* HalfIsLate: a staging that fails leaves no half of itself in the draft, but
\* for one that ran out of time.
HalfIsLate == view \in {told, conf} \/ late

\* The sections with a line that moves them, and those whose own first line does.
Moved(id) == \E i \in DOMAIN lines : lines[i].id = id /\ lines[i].reorder

MovedFirst(id) ==
  \E i \in DOMAIN lines :
    lines[i].id = id /\ lines[i].reorder /\ FirstAt(lines, i)

\* An entry that comes, or goes, is named with all it is.
EntryShown(rows, id) ==
  /\ id \in Ids(view) \ Ids(conf)
     => \E i \in DOMAIN rows :
          /\ rows[i].id = id /\ rows[i].from = <<>>
          /\ rows[i].to = Entry(Of(view, id), Words)
  /\ id \in Ids(conf) \ Ids(view)
     => \E i \in DOMAIN rows :
          /\ rows[i].id = id /\ rows[i].to = <<>>
          /\ rows[i].from = Entry(Of(conf, id), Words)

\* Every option of an entry that stays, from what it was to what it will be.
FieldsShown(rows, id) ==
  id \in Ids(conf) /\ id \in Ids(view)
  => \A o \in DOMAIN Of(conf, id).opt :
       Of(conf, id).opt[o] # Of(view, id).opt[o]
       => \E i \in DOMAIN rows :
            /\ rows[i].id = id /\ rows[i].label = Label(Of(view, id), o)
            /\ rows[i].from = Said(Of(conf, id).opt[o])
            /\ rows[i].to = Said(Of(view, id).opt[o])

\* A rule that stays has a row from its number to its new one.
PositionShown(rows, id) ==
  \E i \in DOMAIN rows :
    /\ rows[i].id = id /\ rows[i].label = <<"position">>
    /\ rows[i].from = <<"place", Place(conf, id)>>
    /\ rows[i].to = <<"place", Place(view, id)>>

MoveShown(rows, id) ==
  /\ id \in RuleIds(conf) \cap RuleIds(view)
  /\ Place(conf, id) # Place(view, id)
  => PositionShown(rows, id)

\* Of two rules that changed sides one was moved, and has its row unless its
\* number is what it was.
TurnShown(rows, x, y) ==
  /\ Place(conf, x) < Place(conf, y) /\ Place(view, y) < Place(view, x)
  => \E id \in {x, y} :
       /\ Moved(id)
       /\ \/ PositionShown(rows, id)
          \/ IsSchedule(id)
          \/ Place(conf, id) = Place(view, id)

SameIds(s, t) == [i \in DOMAIN s |-> s[i].id] = [i \in DOMAIN t |-> t[i].id]

OrderShown(rows) ==
  /\ \A x, y \in RuleIds(conf) \cap RuleIds(view) : TurnShown(rows, x, y)
  /\ /\ RuleIds(conf) = RuleIds(view)
     /\ \A id \in DOMAIN Names : IsSchedule(id) => ~Moved(id)
     /\ ~SameIds(RulesOf(conf), RulesOf(view))
     => \E i \in DOMAIN rows : rows[i].label = <<"position">>

\* A device's schedule that the draft changes.
ScheduleShown(rows, mac) ==
  ScheduleWords(conf, mac) # ScheduleWords(view, mac)
  => \E i \in DOMAIN rows :
       rows[i] = ScheduleRow(mac, ScheduleWords(conf, mac), ScheduleWords(view, mac))

Devices == {Names[id].mac : id \in {x \in DOMAIN Names : IsSchedule(x)}} \ {""}

\* StagedIsShown: what the apply bar has a row for.  Of every section but those
\* of a schedule: that it comes; that it goes, unless it was moved first; each
\* option of one that stays and was not moved; and the new number of a rule that
\* was moved.  Of two rules that changed sides one was moved.  Where no rule comes
\* or goes and no part of a schedule was moved, a changed order has a row.  Each
\* device's schedule that reads otherwise than before.
StagedIsShown ==
  LET rows == Rows
  IN  /\ \A id \in {x \in Ids(conf) \cup Ids(view) : ~IsSchedule(x)} :
           /\ ~MovedFirst(id) => EntryShown(rows, id)
           /\ ~Moved(id) => FieldsShown(rows, id)
           /\ Moved(id) => MoveShown(rows, id)
      /\ OrderShown(rows)
      /\ \A mac \in Devices : ScheduleShown(rows, mac)

-----------------------------------------------------------------------------
(* What the comments say, and the code does not keep to.                    *)

\* NoInvisibleDraft (openwrt/network_write.go, keysOf): "An invisible draft is
\* the worst kind on this product, because the next apply commits it": the
\* same for an entry that was moved as well, a schedule's sections left out.
NoInvisibleDraft ==
  LET rows == Rows
  IN  \A id \in {x \in Ids(conf) \cup Ids(view) : ~IsSchedule(x)} :
        EntryShown(rows, id) /\ FieldsShown(rows, id)
=============================================================================
