--------------------------- MODULE FirewallProofs ---------------------------
(***************************************************************************)
(* Refusing and placing a rule, what a failed staging leaves, and the rows *)
(* of the apply bar, proved for every firewall, every set of zones and port*)
(* lists, and every number of edits and faults.                            *)
(***************************************************************************)
EXTENDS FirewallRules, UciDraftProofs, TLAPS

\* What ruleCovers means: a rule that covers another matches each of its packets.
LEMMA CoversMatches ==
  ASSUME NEW r, NEW b, NEW p, Covers(r, b), Matches(b, p)
  PROVE  Matches(r, p)
<1>1. r.from \in {"*", p.from}
  BY DEF Covers, Matches
<1>2. IF r.to = "*" THEN p.to # "" ELSE p.to = r.to
  BY DEF Covers, Matches
<1>3. "all" \in r.protos \/ p.proto \in r.protos
  BY DEF Covers, Matches
<1>4. \/ r.ports = ""
      \/ p.proto \in {"tcp", "udp"} /\ p.port \in PortsOf[r.ports]
  BY DEF Covers, Matches
<1>5. r.family \in {"", p.family}
  BY DEF Covers, Matches
<1> QED
  BY <1>1, <1>2, <1>3, <1>4, <1>5 DEF Matches

\* RefusedRuleIsSilent: whatever rules are in the draft, one that is refused
\* because an earlier one decides its traffic would never have acted there.
THEOREM RefusedRuleIsSilent == FirewallSpec => []ShadowIsCertain
<1>1. ShadowIsCertain
  <2> DEFINE rules == RulesOf(view)
  <2> SUFFICES ASSUME NEW b \in Bodies, NEW at \in 0 .. Len(rules),
                      ShadowedBy(rules, at, b), NEW p \in Packets, Matches(b, p)
               PROVE  \E i \in 1 .. at : /\ Decides(RuleOf(rules[i]))
                                         /\ Matches(RuleOf(rules[i]), p)
    BY DEF ShadowIsCertain
  <2>1. PICK i \in 1 .. at : /\ RuleOf(rules[i]).enabled /\ ~RuleOf(rules[i]).more
                             /\ RuleOf(rules[i]).action # "other"
                             /\ Covers(RuleOf(rules[i]), b)
    BY DEF ShadowedBy
  <2>2. Matches(RuleOf(rules[i]), p)
    BY <2>1, CoversMatches
  <2> QED
    BY <2>1, <2>2 DEF Decides
<1> QED
  BY <1>1, PTL

\* Every way a staging ends.
LEMMA EndsWhole ==
  ASSUME NEW file, NEW log, NEW rows, Accepted(file, log, rows)
  PROVE  HalfIsLate'
BY DEF Accepted, HalfIsLate

LEMMA EndsHalf ==
  ASSUME NEW cuts, Dropped(cuts), conf' = conf
  PROVE  HalfIsLate'
BY DEF Dropped, HalfIsLate

\* FailureIsWhole: a staging that fails leaves no half of itself in the draft,
\* unless its time was up and the revert could not run.
THEOREM FailureIsWhole == FirewallSpec => []HalfIsLate
<1>1. FirewallInit => HalfIsLate
  BY DEF FirewallInit, HalfIsLate
<1>2. HalfIsLate /\ [FirewallNext]_firewallVars => HalfIsLate'
  <2> SUFFICES ASSUME HalfIsLate, [FirewallNext]_firewallVars PROVE HalfIsLate'
    OBVIOUS
  <2> USE DEF Counted
  <2>1. ASSUME NEW b \in Bodies, NEW before \in RuleIds(view) \cup {0},
               AddRule(b, before)
        PROVE  HalfIsLate'
    BY <2>1, EndsWhole, EndsHalf DEF AddRule
  <2>2. ASSUME NEW id \in RuleIds(view), NEW b \in Bodies, EditRule(id, b)
        PROVE  HalfIsLate'
    BY <2>2, EndsWhole, EndsHalf DEF EditRule, HalfIsLate
  <2>3. ASSUME NEW id \in RuleIds(view), RemoveRule(id) PROVE HalfIsLate'
    BY <2>3, EndsWhole DEF RemoveRule
  <2>4. ASSUME NEW id \in RuleIds(view), NEW before \in RuleIds(view) \cup {0},
               MoveRule(id, before)
        PROVE  HalfIsLate'
    BY <2>4, EndsWhole, EndsHalf DEF MoveRule
  <2>5. ASSUME NEW f \in Forwards, AddForward(f) PROVE HalfIsLate'
    BY <2>5, EndsWhole, EndsHalf DEF AddForward
  <2>6. ASSUME NEW f \in Forwards, NEW id \in Ids(view), EditForward(id, f)
        PROVE  HalfIsLate'
    BY <2>6, EndsWhole, EndsHalf DEF EditForward
  <2>7. ASSUME NEW id \in Ids(view), RemoveForward(id) PROVE HalfIsLate'
    BY <2>7, EndsWhole DEF RemoveForward
  <2>8. CASE DiscardStaged
    BY <2>8 DEF DiscardStaged, HalfIsLate
  <2>9. CASE Commit
    BY <2>9 DEF Commit, HalfIsLate
  <2>10. CASE UNCHANGED firewallVars
    BY <2>10 DEF firewallVars, historyVars, HalfIsLate
  <2> QED
    BY <2>1, <2>2, <2>3, <2>4, <2>5, <2>6, <2>7, <2>8, <2>9, <2>10 DEF FirewallNext
<1> QED
  BY <1>1, <1>2, PTL DEF FirewallSpec

-----------------------------------------------------------------------------
(* The draft: its lines tell everything in which it differs from the file.  *)

KnownSection(s) ==
  /\ s.kind = "rule" => /\ DOMAIN s.opt = RuleOptions
                        /\ s.opt["dest_port"] \in DOMAIN PortsOf
  /\ s.kind = "redirect" => DOMAIN s.opt = ForwardOptions

KnownFile(file) == \A x \in Ids(file) : KnownSection(Of(file, x))

Draft(c, v, l) ==
  /\ Recorded(c, v, l) /\ KnownFile(c) /\ KnownFile(v)
  /\ l = <<>> => v = c

FirewallInv == Draft(conf, view, lines)

LEMMA FileIs ==
  ASSUME NEW file, IsFile(file)
  PROVE  WellFormed(file) /\ KnownFile(file)
<1>1. IsLog(file) /\ Named(file)
  BY DEF IsFile, IsLog, Named
<1>2. \A i \in DOMAIN file : Formed(file[i]) /\ KnownSection(file[i])
  BY DEF IsFile, IsSection, Formed, KnownSection
<1>3. WellFormed(file)
  BY <1>1, <1>2 DEF WellFormed
<1>4. \A x \in Ids(file) : Pos(file, x) \in DOMAIN file
  BY PosIn
<1> QED
  BY <1>2, <1>3, <1>4 DEF KnownFile, Of

LEMMA DraftNone ==
  ASSUME NEW c, WellFormed(c), KnownFile(c)
  PROVE  Draft(c, c, <<>>)
BY RecordedNone DEF Draft

\* A batch for a section of a kind: what it writes there can be read.
Suits(sets, kind) ==
  /\ Keyed(sets)
  /\ \A s \in InBatch(sets) : /\ kind = "rule" => s.key \in RuleOptions
                              /\ kind = "redirect" => s.key \in ForwardOptions
  /\ kind = "rule" => \A s \in InBatch(sets) :
                        s.key = "dest_port" => s.value \in DOMAIN PortsOf

\* Another section, and the rest as it was.
LEMMA KnownStep ==
  ASSUME NEW file, NEW g, NEW id, KnownFile(file), Keeps(file, g, id),
         id \in Ids(g) => KnownSection(Of(g, id))
  PROVE  KnownFile(g)
<1> SUFFICES ASSUME NEW x \in Ids(g), x # id PROVE KnownSection(Of(g, x))
  BY DEF KnownFile
<1>1. x \in Ids(file) /\ Of(g, x) = Of(file, x)
  BY DEF Keeps
<1> QED
  BY <1>1 DEF KnownFile

LEMMA KnownSet ==
  ASSUME NEW file, WellFormed(file), KnownFile(file), NEW id \in Ids(file),
         NEW sets, Suits(sets, Of(file, id).kind), NEW E, E \subseteq InBatch(sets)
  PROVE  KnownFile(Staged(file, id, E))
<1> DEFINE g == Staged(file, id, E)
           s == Of(file, id)
           o == Over(s.opt, Values(E))
<1>1. Keeps(file, g, id) /\ Of(g, id) = Section(id, s.kind, o)
  BY StagedFile
<1>2. Of(g, id).kind = s.kind /\ Of(g, id).opt = o
  BY ONLY <1>1, SectionFields
<1>3. KnownSection(s)
  BY DEF KnownFile
<1>4. DOMAIN o = DOMAIN s.opt
  BY DEF Over
<1>5. ASSUME s.kind = "rule" PROVE o["dest_port"] \in DOMAIN PortsOf
  <2>1. "dest_port" \in DOMAIN s.opt /\ s.opt["dest_port"] \in DOMAIN PortsOf
    BY <1>3, <1>5 DEF KnownSection, RuleOptions, SetOptions, Conditions
  <2>2. CASE "dest_port" \in DOMAIN Values(E)
    <3>1. PICK e \in E : e.key = "dest_port"
      BY <2>2 DEF Values
    <3>2. Values(E)["dest_port"] = e.value
      BY <3>1, KeyedValues DEF Suits
    <3>3. e.value \in DOMAIN PortsOf
      BY <1>5, <3>1 DEF Suits
    <3> QED
      BY <2>1, <2>2, <3>2, <3>3 DEF Over
  <2>3. CASE "dest_port" \notin DOMAIN Values(E)
    BY <2>1, <2>3 DEF Over
  <2> QED
    BY <2>2, <2>3
<1> HIDE DEF g, s, o
<1>6. KnownSection(Of(g, id))
  BY <1>2, <1>3, <1>4, <1>5 DEF KnownSection
<1> QED
  BY <1>1, <1>6, KnownStep DEF g

LEMMA DraftSet ==
  ASSUME NEW c, NEW v, NEW l, Draft(c, v, l), NEW id \in Ids(v),
         NEW sets, Suits(sets, Of(v, id).kind), NEW E, E \subseteq InBatch(sets)
  PROVE  Draft(c, Staged(v, id, E), l \o LinesOf(id, sets, E))
<1>1. Recorded(c, v, l) /\ KnownFile(c) /\ KnownFile(v) /\ (l = <<>> => v = c)
  BY DEF Draft
<1>2. WellFormed(v) /\ IsLog(l)
  BY <1>1 DEF Recorded
<1>3. IsLog(sets) /\ \A s \in E : s.key # ""
  BY DEF Suits, Keyed, InBatch
<1>4. Recorded(c, Staged(v, id, E), l \o LinesOf(id, sets, E))
  BY <1>1, <1>3, RecordedSet
<1>5. KnownFile(Staged(v, id, E))
  BY <1>1, <1>2, KnownSet
<1>6. ASSUME l \o LinesOf(id, sets, E) = <<>> PROVE Staged(v, id, E) = c
  <2>1. l = <<>> /\ E = {}
    BY <1>2, <1>3, <1>6, NoLines
  <2> QED
    BY <1>1, <1>2, <2>1, StagedNone
<1> QED
  BY <1>1, <1>4, <1>5, <1>6 DEF Draft

\* A kind of section, and the options it is added with.
OptionsFit(kind, options) ==
  /\ "" \notin options
  /\ kind = "rule" => options = RuleOptions
  /\ kind = "redirect" => options = ForwardOptions

NewSection(v, l, kind, options, id, w, m) ==
  /\ id = NewId(v, l) /\ m = Append(l, Line(id, "", FALSE))
  /\ w = Append(v, Section(id, kind, NoOptions(options)))

LEMMA DraftAdd ==
  ASSUME NEW c, NEW v, NEW l, Draft(c, v, l), NEW kind, NEW options,
         OptionsFit(kind, options)
  PROVE  \A id, w, m :
           NewSection(v, l, kind, options, id, w, m)
           => /\ Draft(c, w, m)
              /\ id \in Ids(w) /\ id \notin Ids(c) /\ id \notin Ids(v)
              /\ Of(w, id) = Section(id, kind, NoOptions(options))
<1> DEFINE id == NewId(v, l)
           s  == Section(id, kind, NoOptions(options))
           w  == Append(v, s)
           m  == Append(l, Line(id, "", FALSE))
           no == NoOptions(options)
<1>1. Recorded(c, v, l) /\ KnownFile(c) /\ KnownFile(v)
  BY DEF Draft
<1>2. WellFormed(v) /\ IsLog(l) /\ IsLog(v)
  BY <1>1 DEF Recorded, WellFormed
<1>3. no = [o \in DOMAIN no |-> no[o]] /\ DOMAIN no = options
      /\ \A o \in options : no[o] = ""
  BY DEF NoOptions
<1>4. /\ Recorded(c, w, m) /\ id \notin Ids(c) /\ id \notin Ids(v) /\ id \in Ids(w)
  <2> HIDE DEF no
  <2>1. no = [o \in DOMAIN no |-> no[o]] /\ "" \notin DOMAIN no
    BY <1>3 DEF OptionsFit
  <2> QED
    BY <1>1, <2>1, RecordedAdd DEF no
<1>5. id \in Int \ {0}
  BY <1>2, NewIdIs
<1>6. s.id = id /\ s.kind = kind /\ s.opt = no
  <2> HIDE DEF id, no
  <2>1. s = Section(id, kind, no)
    BY DEF no
  <2> QED
    BY ONLY <2>1, SectionFields
<1>7. Formed(s)
  <2> HIDE DEF id, no
  <2>1. s = Section(s.id, s.kind, s.opt) /\ s.id \in Int \ {0}
    BY <1>5, <1>6 DEF no
  <2>2. s.opt = [o \in DOMAIN s.opt |-> s.opt[o]] /\ "" \notin DOMAIN s.opt
    BY <1>3, <1>6 DEF OptionsFit
  <2> QED
    BY <2>1, <2>2 DEF Formed
<1>8. Keeps(v, w, id) /\ Of(w, id) = s
  <2> HIDE DEF id, s
  <2>1. s.id \notin Ids(v)
    BY <1>4, <1>6
  <2>2. Keeps(v, w, s.id) /\ Of(w, s.id) = s
    BY <1>2, <1>7, <2>1, AddedFile
  <2> QED
    BY <1>6, <2>2
<1>9. KnownSection(s)
  <2> HIDE DEF s, no
  <2>1. kind = "rule" => "dest_port" \in options
    BY DEF OptionsFit, RuleOptions, SetOptions, Conditions
  <2> QED
    BY <1>3, <1>6, <2>1, FirewallAssumption DEF KnownSection, OptionsFit
<1>10. KnownFile(w)
  <2> HIDE DEF w, id, s
  <2> QED
    BY <1>1, <1>8, <1>9, KnownStep
<1>11. m # <<>>
  BY <1>2, OneMore
<1> QED
  BY <1>1, <1>4, <1>8, <1>10, <1>11 DEF Draft, NewSection

LEMMA DraftDelete ==
  ASSUME NEW c, NEW v, NEW l, Draft(c, v, l), NEW id \in Ids(v)
  PROVE  Draft(c, UciDelete(v, id), Append(l, Line(id, "", FALSE)))
<1>1. Recorded(c, v, l) /\ KnownFile(c) /\ KnownFile(v)
  BY DEF Draft
<1>2. WellFormed(v) /\ IsLog(l)
  BY <1>1 DEF Recorded
<1>3. Keeps(v, UciDelete(v, id), id) /\ id \notin Ids(UciDelete(v, id))
  BY <1>2, DeletedFile
<1>4. KnownFile(UciDelete(v, id))
  BY <1>1, <1>3, KnownStep
<1> QED
  BY <1>1, <1>2, <1>4, RecordedDelete, OneMore DEF Draft

LEMMA DraftMove ==
  ASSUME NEW c, NEW v, NEW l, Draft(c, v, l), NEW id \in Ids(v), NEW place \in Nat
  PROVE  Draft(c, UciReorder(v, id, place), Append(l, Line(id, "", TRUE)))
<1> DEFINE g == UciReorder(v, id, place)
<1>1. Recorded(c, v, l) /\ KnownFile(c) /\ KnownFile(v)
  BY DEF Draft
<1>2. WellFormed(v) /\ IsLog(l)
  BY <1>1 DEF Recorded
<1>3. Keeps(v, g, id) /\ Of(g, id) = Of(v, id)
  BY <1>2, ReorderedFile
<1>4. KnownSection(Of(g, id))
  BY <1>1, <1>3 DEF KnownFile
<1>5. KnownFile(g)
  <2> HIDE DEF g
  <2> QED
    BY <1>1, <1>3, <1>4, KnownStep
<1> QED
  BY <1>1, <1>2, <1>5, RecordedMove, OneMore DEF Draft

\* The halves of a batch are drafts as well.
LEMMA DraftCuts ==
  ASSUME NEW c, NEW v, NEW l, Draft(c, v, l), NEW id \in Ids(v),
         NEW sets, Suits(sets, Of(v, id).kind), NEW E, E \subseteq InBatch(sets),
         NEW cut \in Cuts(v, l, id, sets, E)
  PROVE  Draft(c, cut.file, cut.log)
<1>1. PICK n \in 0 .. Len(sets) :
        LET D == E \cap {sets[i] : i \in 1 .. n}
        IN  cut = Cut(Staged(v, id, D), l \o LinesOf(id, sets, D))
  BY DEF Cuts
<1> DEFINE D == E \cap {sets[i] : i \in 1 .. n}
<1>2. D \subseteq InBatch(sets)
  OBVIOUS
<1> HIDE DEF D
<1>3. Draft(c, Staged(v, id, D), l \o LinesOf(id, sets, D))
  BY <1>2, DraftSet
<1>4. cut.file = Staged(v, id, D) /\ cut.log = l \o LinesOf(id, sets, D)
  BY <1>1 DEF Cut, D
<1> QED
  BY <1>3, <1>4

-----------------------------------------------------------------------------
(* What the panel writes.                                                   *)

LEMMA RuleBatch ==
  ASSUME NEW b \in Bodies, NEW kind, kind # "redirect"
  PROVE  Suits(RuleSettings(b), kind)
<1> DEFINE s == RuleSettings(b)
<1>1. /\ s \in Seq({s[1], s[2], s[3], s[4], s[5], s[6], s[7], s[8]})
      /\ Len(s) = 8 /\ DOMAIN s = 1 .. 8
  BY DEF RuleSettings
<1>2. /\ s[1].key = "src" /\ s[2].key = "dest" /\ s[3].key = "proto"
      /\ s[4].key = "dest_port" /\ s[5].key = "target" /\ s[6].key = "family"
      /\ s[7].key = "name" /\ s[8].key = "enabled" /\ s[4].value = b.ports
  BY DEF RuleSettings, Setting
<1> HIDE DEF s
<1>3. IsLog(s)
  BY <1>1 DEF IsLog
<1>4. \A i \in 1 .. 8 : i = 1 \/ i = 2 \/ i = 3 \/ i = 4 \/ i = 5 \/ i = 6 \/ i = 7
                        \/ i = 8
  OBVIOUS
<1>5. Keyed(s)
  BY <1>1, <1>2, <1>3, <1>4 DEF Keyed
<1>6. \A e \in InBatch(s) : e.key = "dest_port" => e.value \in DOMAIN PortsOf
  <2> SUFFICES ASSUME NEW i \in DOMAIN s, s[i].key = "dest_port"
               PROVE  s[i].value \in DOMAIN PortsOf
    BY DEF InBatch
  <2>1. i = 4
    BY <1>1, <1>2, <1>4
  <2> QED
    BY <1>2, <2>1, BodiesAssumption
<1>7. \A i \in DOMAIN s : s[i].key \in RuleOptions
  BY <1>1, <1>2, <1>4 DEF RuleOptions, SetOptions, Conditions
<1> QED
  BY <1>5, <1>6, <1>7 DEF Suits, InBatch, s

LEMMA PartSuits ==
  ASSUME NEW sets, NEW kind, Suits(sets, kind), NEW opt
  PROVE  Suits(WrittenOut(sets, opt), kind)
<1> DEFINE K == {i \in DOMAIN sets : ~LeavesOut(opt, sets[i])}
<1>1. /\ Keyed(Picked(sets, K)) /\ InBatch(Picked(sets, K)) = {sets[i] : i \in K}
  BY KeyedPicked DEF Suits
<1>2. InBatch(Picked(sets, K)) \subseteq InBatch(sets)
  BY <1>1 DEF InBatch
<1>3. WrittenOut(sets, opt) = Picked(sets, K)
  BY DEF WrittenOut
<1> QED
  BY <1>1, <1>2, <1>3 DEF Suits

LEMMA ForwardBatch ==
  ASSUME NEW f, NEW kind, kind # "rule"
  PROVE  Suits(ForwardSettings(f), kind)
<1> DEFINE s == <<Setting("target", "DNAT", ""), Setting("src", InternetZone, ""),
                  Setting("dest", LocalZone, ""), Setting("proto", f.proto, ""),
                  Setting("src_dport", f.external, ""),
                  Setting("dest_ip", f.address, ""), Setting("dest_port", f.port, "")>>
           n == IF f.name = "" THEN <<>> ELSE <<Setting("name", f.name, "")>>
           e == Setting("enabled", IF f.enabled THEN "" ELSE "0", "1")
<1>1. /\ s \in Seq({s[1], s[2], s[3], s[4], s[5], s[6], s[7]})
      /\ Len(s) = 7 /\ DOMAIN s = 1 .. 7
  OBVIOUS
<1>2. /\ s[1].key = "target" /\ s[2].key = "src" /\ s[3].key = "dest"
      /\ s[4].key = "proto" /\ s[5].key = "src_dport" /\ s[6].key = "dest_ip"
      /\ s[7].key = "dest_port"
  BY DEF Setting
<1>3. Keyed(n) /\ \A k : KeyIn(n, k) => k = "name"
  <2>1. CASE f.name = ""
    BY <2>1, KeyedNone
  <2>2. CASE f.name # ""
    <3> DEFINE m == Setting("name", f.name, "")
    <3>1. m.key = "name"
      BY DEF Setting
    <3> HIDE DEF m
    <3>2. Keyed(<<m>>) /\ \A k : KeyIn(<<m>>, k) <=> k = m.key
      BY <3>1, KeyedOne
    <3>3. n = <<m>>
      BY <2>2 DEF m
    <3> QED
      BY <3>1, <3>2, <3>3
  <2> QED
    BY <2>1, <2>2
<1>4. e.key = "enabled"
  BY DEF Setting
<1>5. ForwardSettings(f) = (s \o n) \o <<e>>
  BY DEF ForwardSettings
<1> HIDE DEF s, n, e
<1>6. \A i \in 1 .. 7 : i = 1 \/ i = 2 \/ i = 3 \/ i = 4 \/ i = 5 \/ i = 6 \/ i = 7
  OBVIOUS
<1>7. IsLog(s)
  BY <1>1 DEF IsLog
<1>8. Keyed(s) /\ ~KeyIn(s, "name") /\ ~KeyIn(s, "enabled")
      /\ \A k : KeyIn(s, k) => k \in ForwardOptions
  BY <1>1, <1>2, <1>6, <1>7 DEF Keyed, KeyIn, ForwardOptions
<1>9. Keyed(s \o n) /\ \A k : KeyIn(s \o n, k) <=> KeyIn(s, k) \/ KeyIn(n, k)
  <2>1. \A k : ~(KeyIn(s, k) /\ KeyIn(n, k))
    BY <1>3, <1>8
  <2> QED
    BY <1>3, <1>8, <2>1, KeyedJoined
<1> DEFINE t == s \o n
<1>10. Keyed(t) /\ ~KeyIn(t, "enabled") /\ \A k : KeyIn(t, k) => k \in ForwardOptions
  BY <1>3, <1>8, <1>9 DEF ForwardOptions
<1> HIDE DEF t
<1>11. Keyed(<<e>>) /\ \A k : KeyIn(<<e>>, k) <=> k = e.key
  BY <1>4, KeyedOne
<1>12. \A k : ~(KeyIn(t, k) /\ KeyIn(<<e>>, k))
  BY <1>4, <1>10, <1>11
<1> DEFINE all == t \o <<e>>
<1>13. Keyed(all) /\ \A k : KeyIn(all, k) <=> KeyIn(t, k) \/ KeyIn(<<e>>, k)
  BY <1>10, <1>11, <1>12, KeyedJoined
<1> HIDE DEF all
<1>14. \A k : KeyIn(all, k) => k \in ForwardOptions
  BY <1>4, <1>10, <1>11, <1>13 DEF ForwardOptions
<1>15. \A i \in DOMAIN all : KeyIn(all, all[i].key)
  BY DEF KeyIn
<1>16. \A i \in DOMAIN all : all[i].key \in ForwardOptions
  BY <1>14, <1>15
<1>17. ForwardSettings(f) = all
  BY <1>5 DEF all, t
<1> QED
  BY <1>13, <1>16, <1>17 DEF Suits, InBatch

\* A new section, filled in.
LEMMA DraftNew ==
  ASSUME NEW c, NEW v, NEW l, Draft(c, v, l), NEW kind, NEW options,
         OptionsFit(kind, options), NEW sets, Suits(sets, kind), NEW E, E \subseteq InBatch(sets),
         NEW id, NEW added, NEW log, NewSection(v, l, kind, options, id, added, log)
  PROVE  /\ Draft(c, Staged(added, id, E), log \o LinesOf(id, sets, E))
         /\ \A cut \in Cuts(added, log, id, sets, E) : Draft(c, cut.file, cut.log)
         /\ id \in Ids(Staged(added, id, E)) /\ id \notin Ids(c) /\ id \notin Ids(v)
         /\ Of(Staged(added, id, E), id)
              = Section(id, kind, Over(NoOptions(options), Values(E)))
<1>1. /\ Draft(c, added, log) /\ id \in Ids(added) /\ id \notin Ids(c)
      /\ id \notin Ids(v) /\ Of(added, id) = Section(id, kind, NoOptions(options))
  BY DraftAdd
<1>2. Of(added, id).kind = kind /\ Of(added, id).opt = NoOptions(options)
  BY ONLY <1>1, SectionFields
<1>3. WellFormed(added)
  BY <1>1 DEF Draft, Recorded
<1>4. Suits(sets, Of(added, id).kind)
  BY <1>2
<1>5. Draft(c, Staged(added, id, E), log \o LinesOf(id, sets, E))
  BY <1>1, <1>4, DraftSet
<1>6. \A cut \in Cuts(added, log, id, sets, E) : Draft(c, cut.file, cut.log)
  BY <1>1, <1>4, DraftCuts
<1>7. /\ Ids(Staged(added, id, E)) = Ids(added)
      /\ Of(Staged(added, id, E), id)
           = Section(id, Of(added, id).kind, Over(Of(added, id).opt, Values(E)))
  BY <1>1, <1>3, StagedFile
<1> QED
  BY <1>1, <1>2, <1>5, <1>6, <1>7

LEMMA AcceptedKeeps ==
  ASSUME NEW file, NEW log, NEW rows, Draft(conf, file, log),
         Accepted(file, log, rows), conf' = conf
  PROVE  FirewallInv'
BY DEF Accepted, FirewallInv

LEMMA DroppedKeeps ==
  ASSUME FirewallInv, NEW cuts, Dropped(cuts), conf' = conf,
         \A cut \in cuts : Draft(conf, cut.file, cut.log)
  PROVE  FirewallInv'
<1>1. WellFormed(conf) /\ KnownFile(conf)
  BY DEF FirewallInv, Draft, Recorded
<1>2. Draft(conf, conf, <<>>)
  BY <1>1, DraftNone
<1> QED
  BY <1>2 DEF Dropped, FirewallInv

-----------------------------------------------------------------------------
(* Every step leaves such a draft.                                          *)

\* AddRule's file and lines, before and after the move to its place.
NewRule(b)  == Edits(RuleSettings(b), NoOptions(RuleOptions), {})
RuleId      == NewId(view, lines)
RuleAdded   == Append(view, Section(RuleId, "rule", NoOptions(RuleOptions)))
RuleLogged  == Append(lines, Line(RuleId, "", FALSE))
LastFile(b) == Staged(RuleAdded, RuleId, NewRule(b))
LastLog(b)  == RuleLogged \o LinesOf(RuleId, RuleSettings(b), NewRule(b))
RuleFile(b, before) ==
  IF before = 0 THEN LastFile(b)
  ELSE UciReorder(LastFile(b), RuleId, Pos(view, before) - 1)
RuleLog(b, before) ==
  IF before = 0 THEN LastLog(b) ELSE Append(LastLog(b), Line(RuleId, "", TRUE))

LEMMA AddRuleIs ==
  ASSUME NEW b, NEW before, AddRule(b, before)
  PROVE  LET file == RuleFile(b, before)
             log  == RuleLog(b, before)
             sec  == Of(file, RuleId)
         IN  /\ Counted /\ Normal(b) /\ before \in RuleIds(view) \cup {0}
             /\ ~ShadowedBy(RulesOf(view), IF before = 0 THEN Len(RulesOf(view))
                                           ELSE Pos(RulesOf(view), before) - 1, b)
             /\ \/ Accepted(file, log, <<Row(RuleId, Phrase(sec), <<>>, Described(sec), <<>>)>>)
                \/ Dropped(Cuts(RuleAdded, RuleLogged, RuleId, RuleSettings(b), NewRule(b))
                           \cup {Cut(file, log)})
BY DEF AddRule, RuleFile, RuleLog, LastFile, LastLog, RuleAdded, RuleLogged, RuleId,
       NewRule

\* The new rule's section.
LEMMA LastFileIs ==
  ASSUME FirewallInv, NEW b \in Bodies
  PROVE  /\ Draft(conf, LastFile(b), LastLog(b))
         /\ \A cut \in Cuts(RuleAdded, RuleLogged, RuleId, RuleSettings(b), NewRule(b)) :
              Draft(conf, cut.file, cut.log)
         /\ RuleId \in Ids(LastFile(b)) /\ RuleId \notin Ids(conf)
         /\ RuleId \notin Ids(view)
         /\ Of(LastFile(b), RuleId) =
              Section(RuleId, "rule", Over(NoOptions(RuleOptions), Values(NewRule(b))))
<1>1. Suits(RuleSettings(b), "rule")
  BY RuleBatch
<1>2. NewRule(b) \subseteq InBatch(RuleSettings(b))
  BY EditsAre DEF NewRule
<1>3. OptionsFit("rule", RuleOptions)
  BY DEF OptionsFit, RuleOptions, SetOptions, Conditions
<1>4. NewSection(view, lines, "rule", RuleOptions, RuleId, RuleAdded, RuleLogged)
  BY DEF NewSection, RuleId, RuleAdded, RuleLogged
<1> DEFINE k == "rule"
<1>5. /\ Suits(RuleSettings(b), k) /\ OptionsFit(k, RuleOptions)
      /\ NewSection(view, lines, k, RuleOptions, RuleId, RuleAdded, RuleLogged)
      /\ k = "rule"
  BY <1>1, <1>3, <1>4
<1> HIDE DEF k
<1>6. /\ Draft(conf, LastFile(b), LastLog(b))
      /\ \A cut \in Cuts(RuleAdded, RuleLogged, RuleId, RuleSettings(b), NewRule(b)) :
           Draft(conf, cut.file, cut.log)
      /\ RuleId \in Ids(LastFile(b)) /\ RuleId \notin Ids(conf)
      /\ RuleId \notin Ids(view)
      /\ Of(LastFile(b), RuleId) =
           Section(RuleId, k, Over(NoOptions(RuleOptions), Values(NewRule(b))))
  BY <1>2, <1>5, DraftNew DEF FirewallInv, LastFile, LastLog
<1> QED
  BY <1>5, <1>6

LEMMA RulesAreSections ==
  ASSUME FirewallInv, NEW id \in RuleIds(view)
  PROVE  /\ id \in Ids(view) /\ Of(view, id).kind = "rule" /\ id # 0
         /\ Pos(view, id) - 1 \in Nat /\ WellFormed(view)
<1>1. WellFormed(view) /\ id \in Ids(view) /\ Of(view, id).kind = "rule"
  BY DEF FirewallInv, Draft, Recorded, RuleIds
<1>2. Pos(view, id) \in 1 .. Len(view) /\ Len(view) \in Nat /\ id \in Int \ {0}
  BY <1>1, SectionAt
<1> QED
  BY <1>1, <1>2

LEMMA RuleFileIs ==
  ASSUME FirewallInv, NEW b \in Bodies, NEW before \in RuleIds(view) \cup {0}
  PROVE  /\ Draft(conf, RuleFile(b, before), RuleLog(b, before))
         /\ RuleId \in Ids(RuleFile(b, before))
         /\ Of(RuleFile(b, before), RuleId) = Of(LastFile(b), RuleId)
<1>1. Draft(conf, LastFile(b), LastLog(b)) /\ RuleId \in Ids(LastFile(b))
  BY LastFileIs
<1>2. CASE before = 0
  BY <1>1, <1>2 DEF RuleFile, RuleLog
<1>3. CASE before # 0
  <2> DEFINE place == Pos(view, before) - 1
  <2>1. place \in Nat
    BY <1>3, RulesAreSections
  <2> HIDE DEF place
  <2>2. Draft(conf, UciReorder(LastFile(b), RuleId, place),
              Append(LastLog(b), Line(RuleId, "", TRUE)))
    BY <1>1, <2>1, DraftMove
  <2>3. WellFormed(LastFile(b))
    BY <1>1 DEF Draft, Recorded
  <2>4. /\ Ids(UciReorder(LastFile(b), RuleId, place)) = Ids(LastFile(b))
        /\ Of(UciReorder(LastFile(b), RuleId, place), RuleId) = Of(LastFile(b), RuleId)
    BY <1>1, <2>1, <2>3, ReorderedFile
  <2> QED
    BY <1>1, <1>3, <2>2, <2>4 DEF RuleFile, RuleLog, place
<1> QED
  BY <1>2, <1>3

LEMMA AddRuleKeeps ==
  ASSUME FirewallInv, NEW b \in Bodies, NEW before \in RuleIds(view) \cup {0},
         AddRule(b, before)
  PROVE  FirewallInv'
<1> DEFINE file == RuleFile(b, before)
           log  == RuleLog(b, before)
           cuts == Cuts(RuleAdded, RuleLogged, RuleId, RuleSettings(b), NewRule(b))
<1>1. Draft(conf, file, log)
  BY RuleFileIs
<1>2. \A cut \in cuts : Draft(conf, cut.file, cut.log)
  BY LastFileIs
<1>3. conf' = conf /\ (\/ \E rows : Accepted(file, log, rows)
                       \/ Dropped(cuts \cup {Cut(file, log)}))
  BY AddRuleIs DEF Counted
<1> HIDE DEF file, log, cuts
<1>4. \A cut \in cuts \cup {Cut(file, log)} : Draft(conf, cut.file, cut.log)
  BY <1>1, <1>2 DEF Cut
<1> QED
  BY <1>1, <1>3, <1>4, AcceptedKeeps, DroppedKeeps

\* EditRule's batch, edits, file and lines.
EditSets(id, b, unread) ==
  WrittenOut(RuleSettings(b), Over(Of(view, id).opt, [k \in unread |-> ""]))
RuleEdits(id, b, unread) ==
  Edits(EditSets(id, b, unread), Of(view, id).opt, unread)
EditFile(id, b, unread) == Staged(view, id, RuleEdits(id, b, unread))
EditLog(id, b, unread) ==
  lines \o LinesOf(id, EditSets(id, b, unread), RuleEdits(id, b, unread))
EditRows(id, b) ==
  RowsOf(id, EditSets(id, b, {}), RuleEdits(id, b, {}), Of(view, id).opt, {},
         LAMBDA k : <<"rule", k>>, Subject(Of(view, id), Described))

LEMMA EditRuleIs ==
  ASSUME NEW id, NEW b, EditRule(id, b)
  PROVE  /\ Counted
         /\ \/ Accepted(EditFile(id, b, {}), EditLog(id, b, {}), EditRows(id, b))
            \/ \E o : /\ faults < MaxFaults /\ faults' = faults + 1
                      /\ view' = EditFile(id, b, {o}) /\ lines' = EditLog(id, b, {o})
            \/ Dropped(Cuts(view, lines, id, EditSets(id, b, {}), RuleEdits(id, b, {})))
BY DEF EditRule, EditFile, EditLog, EditRows, EditSets, RuleEdits

LEMMA EditFileIs ==
  ASSUME FirewallInv, NEW id \in RuleIds(view), NEW b \in Bodies, NEW unread
  PROVE  /\ Draft(conf, EditFile(id, b, unread), EditLog(id, b, unread))
         /\ Suits(EditSets(id, b, unread), Of(view, id).kind)
         /\ RuleEdits(id, b, unread) \subseteq InBatch(EditSets(id, b, unread))
<1>1. id \in Ids(view)
  BY DEF RuleIds
<1>2. Suits(EditSets(id, b, unread), Of(view, id).kind)
  BY RuleBatch, PartSuits DEF EditSets, RuleIds
<1>3. RuleEdits(id, b, unread) \subseteq InBatch(EditSets(id, b, unread))
  BY EditsAre DEF RuleEdits
<1>4. Draft(conf, EditFile(id, b, unread), EditLog(id, b, unread))
  BY <1>1, <1>2, <1>3, DraftSet DEF EditFile, EditLog, FirewallInv
<1> QED
  BY <1>2, <1>3, <1>4

LEMMA EditRuleKeeps ==
  ASSUME FirewallInv, NEW id \in RuleIds(view), NEW b \in Bodies, EditRule(id, b)
  PROVE  FirewallInv'
<1>1. conf' = conf
  BY EditRuleIs DEF Counted
<1>2. CASE Accepted(EditFile(id, b, {}), EditLog(id, b, {}), EditRows(id, b))
  <2>1. Draft(conf, EditFile(id, b, {}), EditLog(id, b, {}))
    BY EditFileIs
  <2> QED
    BY <1>1, <1>2, <2>1, AcceptedKeeps
<1>3. ASSUME NEW o, view' = EditFile(id, b, {o}), lines' = EditLog(id, b, {o})
      PROVE  FirewallInv'
  <2>1. Draft(conf, EditFile(id, b, {o}), EditLog(id, b, {o}))
    BY EditFileIs
  <2> QED
    BY <1>1, <1>3, <2>1 DEF FirewallInv
<1>4. CASE Dropped(Cuts(view, lines, id, EditSets(id, b, {}), RuleEdits(id, b, {})))
  <2> DEFINE cuts == Cuts(view, lines, id, EditSets(id, b, {}), RuleEdits(id, b, {}))
  <2>1. \A cut \in cuts : Draft(conf, cut.file, cut.log)
    <3>1. id \in Ids(view) /\ Draft(conf, view, lines)
      BY DEF RuleIds, FirewallInv
    <3>2. /\ Suits(EditSets(id, b, {}), Of(view, id).kind)
          /\ RuleEdits(id, b, {}) \subseteq InBatch(EditSets(id, b, {}))
      BY EditFileIs
    <3> QED
      BY <3>1, <3>2, DraftCuts
  <2> HIDE DEF cuts
  <2> QED
    BY <1>1, <1>4, <2>1, DroppedKeeps DEF cuts
<1> QED
  BY <1>2, <1>3, <1>4, EditRuleIs

LEMMA RemoveKeeps ==
  ASSUME FirewallInv, NEW id \in Ids(view), RemoveRule(id) \/ RemoveForward(id)
  PROVE  FirewallInv'
<1>1. Draft(conf, UciDelete(view, id), Append(lines, Line(id, "", FALSE)))
  BY DraftDelete DEF FirewallInv
<1>2. conf' = conf /\ \E rows : Accepted(UciDelete(view, id),
                                         Append(lines, Line(id, "", FALSE)), rows)
  BY DEF RemoveRule, RemoveForward, Counted
<1> QED
  BY <1>1, <1>2, AcceptedKeeps

\* MoveRule's places in the list of the rules and in the file, and its file and
\* lines.
MoveAt(id) == Pos(RulesOf(view), id) - 1
MoveLand(id, before) ==
  IF before = 0 THEN Len(UciDelete(RulesOf(view), id))
  ELSE IF Pos(RulesOf(view), before) - 1 > MoveAt(id)
         THEN Pos(RulesOf(view), before) - 1 - 1
         ELSE Pos(RulesOf(view), before) - 1
MovePlace(id, before) == PlaceInFile(view, before, MoveLand(id, before), MoveAt(id))
MoveFile(id, before) == UciReorder(view, id, MovePlace(id, before))
MoveLog(id) == Append(lines, Line(id, "", TRUE))

LEMMA MoveRuleIs ==
  ASSUME NEW id, NEW before, MoveRule(id, before)
  PROVE  LET file == MoveFile(id, before)
             log  == MoveLog(id)
             r    == RuleOf(Of(view, id))
             at   == MoveAt(id)
             land == MoveLand(id, before)
         IN  /\ Counted /\ before \in (RuleIds(view) \ {id}) \cup {0} /\ land # at
             /\ Statable(r) => ~ShadowedBy(UciDelete(RulesOf(view), id), land, r)
             /\ \/ Accepted(file, log,
                     <<Row(id, <<"position">>, <<"place", at + 1>>,
                           <<"place", land + 1>>, Subject(Of(view, id), Described))>>)
                \/ Dropped({Cut(view, lines), Cut(file, log)})
BY DEF MoveRule, MoveFile, MoveLog, MovePlace, MoveLand, MoveAt

\* The rules are the sections of their kind, in the order of the file.
LEMMA RulesAre ==
  ASSUME NEW file, WellFormed(file)
  PROVE  /\ WellFormed(RulesOf(file)) /\ Ids(RulesOf(file)) = RuleIds(file)
         /\ \A x \in RuleIds(file) : Of(RulesOf(file), x) = Of(file, x)
         /\ SameOrder(file, RulesOf(file), RuleIds(file))
<1> DEFINE k == "rule"
<1>1. RulesOf(file) = OfKind(file, k) /\ RuleIds(file) = IdsOfKind(file, k)
  BY DEF RulesOf, RuleIds, IdsOfKind
<1> HIDE DEF k
<1>2. LET rs == OfKind(file, k)
      IN  /\ WellFormed(rs) /\ Ids(rs) = IdsOfKind(file, k)
          /\ \A x \in Ids(rs) : Of(rs, x) = Of(file, x)
          /\ SameOrder(file, rs, Ids(rs))
  BY OfKindIs
<1> QED
  BY <1>1, <1>2

\* `uci reorder' is told the place `before' has once the rule is taken out.
LEMMA MovePlaceIs ==
  ASSUME FirewallInv, NEW id \in RuleIds(view),
         NEW before \in (RuleIds(view) \ {id}) \cup {0}
  PROVE  /\ MovePlace(id, before) \in Nat
         /\ before = 0 => MovePlace(id, before) = Len(view)
         /\ before # 0 => MovePlace(id, before) = Pos(UciDelete(view, id), before) - 1
<1> DEFINE rules == RulesOf(view)
<1>1. WellFormed(view) /\ id \in Ids(view) /\ Len(view) \in Nat
  BY RulesAreSections, LogShape DEF WellFormed
<1>2. CASE before = 0
  BY <1>1, <1>2 DEF MovePlace, PlaceInFile
<1>3. CASE before # 0
  <2>1. /\ before \in Ids(view) /\ before # id /\ before \in RuleIds(view)
        /\ Pos(view, before) \in 1 .. Len(view) /\ Pos(view, id) \in 1 .. Len(view)
    BY <1>1, <1>3, SectionAt DEF RuleIds
  <2>2. /\ WellFormed(rules) /\ Ids(rules) = RuleIds(view)
        /\ SameOrder(view, rules, RuleIds(view))
    BY <1>1, RulesAre
  <2>3. /\ Pos(rules, before) \in 1 .. Len(rules) /\ Pos(rules, id) \in 1 .. Len(rules)
        /\ Len(rules) \in Nat
    BY <2>1, <2>2, SectionAt
  <2>4. Pos(rules, before) # Pos(rules, id)
    BY <2>1, <2>2, PosDiffer
  <2>5. /\ Pos(view, id) < Pos(view, before) <=> Pos(rules, id) < Pos(rules, before)
        /\ Pos(view, before) < Pos(view, id) <=> Pos(rules, before) < Pos(rules, id)
    BY <2>1, <2>2 DEF SameOrder
  <2>6. Pos(UciDelete(view, id), before)
          = IF Pos(view, before) < Pos(view, id) THEN Pos(view, before)
            ELSE Pos(view, before) - 1
    BY <1>1, <2>1, DeletedFile
  <2> HIDE DEF rules
  <2>7. CASE Pos(rules, id) < Pos(rules, before)
    <3>1. MoveLand(id, before) >= MoveAt(id)
      BY <1>3, <2>3, <2>7 DEF MoveLand, MoveAt, rules
    <3>2. MovePlace(id, before) = Pos(view, before) - 1 - 1
      BY <1>3, <3>1 DEF MovePlace, PlaceInFile
    <3> QED
      BY <1>3, <2>1, <2>5, <2>6, <2>7, <3>2
  <2>8. CASE Pos(rules, before) < Pos(rules, id)
    <3>1. ~(MoveLand(id, before) >= MoveAt(id))
      BY <1>3, <2>3, <2>8 DEF MoveLand, MoveAt, rules
    <3>2. MovePlace(id, before) = Pos(view, before) - 1 - 0
      BY <1>3, <3>1 DEF MovePlace, PlaceInFile
    <3> QED
      BY <1>3, <2>1, <2>5, <2>6, <2>8, <3>2
  <2> QED
    BY <2>3, <2>4, <2>7, <2>8
<1> QED
  BY <1>2, <1>3

LEMMA MoveRuleKeeps ==
  ASSUME FirewallInv, NEW id \in RuleIds(view), NEW before, MoveRule(id, before)
  PROVE  FirewallInv'
<1> DEFINE file == MoveFile(id, before)
           log  == MoveLog(id)
<1>1. conf' = conf /\ before \in (RuleIds(view) \ {id}) \cup {0}
      /\ (\/ \E rows : Accepted(file, log, rows)
          \/ Dropped({Cut(view, lines), Cut(file, log)}))
  BY MoveRuleIs DEF Counted
<1>2. id \in Ids(view) /\ Draft(conf, view, lines)
  BY DEF RuleIds, FirewallInv
<1>3. MovePlace(id, before) \in Nat
  BY <1>1, MovePlaceIs
<1>4. Draft(conf, file, log)
  BY <1>2, <1>3, DraftMove DEF MoveFile, MoveLog
<1> HIDE DEF file, log
<1>5. \A cut \in {Cut(view, lines), Cut(file, log)} : Draft(conf, cut.file, cut.log)
  BY <1>2, <1>4 DEF Cut
<1> QED
  BY <1>1, <1>4, <1>5, AcceptedKeeps, DroppedKeeps

\* AddForward's.
ForwardAdded  == Append(view, Section(RuleId, "redirect", NoOptions(ForwardOptions)))
NewForward(f) == Edits(ForwardSettings(f), NoOptions(ForwardOptions), {})
ForwardMade(f) == Over(NoOptions(ForwardOptions), Values(NewForward(f)))
ForwardFile(f) == Staged(ForwardAdded, RuleId, NewForward(f))
ForwardLog(f) == RuleLogged \o LinesOf(RuleId, ForwardSettings(f), NewForward(f))

LEMMA AddForwardIs ==
  ASSUME NEW f, AddForward(f)
  PROVE  LET sec == Of(ForwardFile(f), RuleId)
         IN  /\ Counted /\ Forwardable(f)
             /\ \/ Accepted(ForwardFile(f), ForwardLog(f),
                            <<Row(RuleId, Phrase(sec), <<>>, Described(sec), <<>>)>>)
                \/ Dropped(Cuts(ForwardAdded, RuleLogged, RuleId, ForwardSettings(f),
                                NewForward(f)))
BY DEF AddForward, ForwardFile, ForwardLog, ForwardAdded, NewForward, RuleId, RuleLogged

LEMMA ForwardFileIs ==
  ASSUME FirewallInv, NEW f
  PROVE  /\ Draft(conf, ForwardFile(f), ForwardLog(f))
         /\ \A cut \in Cuts(ForwardAdded, RuleLogged, RuleId, ForwardSettings(f),
                            NewForward(f)) : Draft(conf, cut.file, cut.log)
         /\ RuleId \in Ids(ForwardFile(f)) /\ RuleId \notin Ids(conf)
         /\ RuleId \notin Ids(view)
         /\ Of(ForwardFile(f), RuleId).kind = "redirect"
         /\ Of(ForwardFile(f), RuleId).opt = ForwardMade(f)
<1> DEFINE k == "redirect"
           o == ForwardMade(f)
<1>1. Suits(ForwardSettings(f), k)
  BY ForwardBatch
<1>2. NewForward(f) \subseteq InBatch(ForwardSettings(f))
  BY EditsAre DEF NewForward
<1>3. OptionsFit(k, ForwardOptions)
  BY DEF OptionsFit, ForwardOptions
<1>4. NewSection(view, lines, k, ForwardOptions, RuleId, ForwardAdded, RuleLogged)
  BY DEF NewSection, RuleId, ForwardAdded, RuleLogged
<1>5. k = "redirect"
  OBVIOUS
<1> HIDE DEF k
<1>6. /\ Draft(conf, ForwardFile(f), ForwardLog(f))
      /\ \A cut \in Cuts(ForwardAdded, RuleLogged, RuleId, ForwardSettings(f),
                         NewForward(f)) : Draft(conf, cut.file, cut.log)
      /\ RuleId \in Ids(ForwardFile(f)) /\ RuleId \notin Ids(conf)
      /\ RuleId \notin Ids(view)
      /\ Of(ForwardFile(f), RuleId) = Section(RuleId, k, o)
  BY <1>1, <1>2, <1>3, <1>4, DraftNew
  DEF FirewallInv, ForwardFile, ForwardLog, ForwardMade
<1> HIDE DEF o
<1>7. Of(ForwardFile(f), RuleId).kind = k /\ Of(ForwardFile(f), RuleId).opt = o
  BY ONLY <1>6, SectionFields
<1> QED
  BY <1>5, <1>6, <1>7 DEF o

LEMMA AddForwardKeeps ==
  ASSUME FirewallInv, NEW f, AddForward(f)
  PROVE  FirewallInv'
<1>1. conf' = conf
  BY AddForwardIs DEF Counted
<1> QED
  BY <1>1, AddForwardIs, ForwardFileIs, AcceptedKeeps, DroppedKeeps

\* EditForward's.
ForwardEdits(id, f) == Edits(ForwardSettings(f), Of(view, id).opt, {})
ChangedFile(id, f)  == Staged(view, id, ForwardEdits(id, f))
ChangedLog(id, f)   == lines \o LinesOf(id, ForwardSettings(f), ForwardEdits(id, f))
ChangedRows(id, f) ==
  RowsOf(id, ForwardSettings(f), ForwardEdits(id, f), Of(view, id).opt, {},
         LAMBDA k : <<"redirect", k>>, Subject(Of(view, id), Described))

LEMMA EditForwardIs ==
  ASSUME NEW id, NEW f, EditForward(id, f)
  PROVE  /\ Counted /\ Of(view, id).kind = "redirect"
         /\ \/ Accepted(ChangedFile(id, f), ChangedLog(id, f), ChangedRows(id, f))
            \/ Dropped(Cuts(view, lines, id, ForwardSettings(f), ForwardEdits(id, f)))
BY DEF EditForward, IsForward, ChangedFile, ChangedLog, ChangedRows, ForwardEdits

LEMMA ChangedFileIs ==
  ASSUME FirewallInv, NEW id \in Ids(view), Of(view, id).kind = "redirect", NEW f
  PROVE  /\ Draft(conf, ChangedFile(id, f), ChangedLog(id, f))
         /\ \A cut \in Cuts(view, lines, id, ForwardSettings(f), ForwardEdits(id, f)) :
              Draft(conf, cut.file, cut.log)
<1>1. Suits(ForwardSettings(f), Of(view, id).kind)
  BY ForwardBatch
<1>2. ForwardEdits(id, f) \subseteq InBatch(ForwardSettings(f))
  BY EditsAre DEF ForwardEdits
<1>3. Draft(conf, view, lines)
  BY DEF FirewallInv
<1> QED
  BY <1>1, <1>2, <1>3, DraftSet, DraftCuts DEF ChangedFile, ChangedLog

LEMMA EditForwardKeeps ==
  ASSUME FirewallInv, NEW id \in Ids(view), NEW f, EditForward(id, f)
  PROVE  FirewallInv'
<1>1. conf' = conf /\ Of(view, id).kind = "redirect"
  BY EditForwardIs DEF Counted
<1> QED
  BY <1>1, EditForwardIs, ChangedFileIs, AcceptedKeeps, DroppedKeeps

LEMMA DraftStarts == FirewallInit => FirewallInv
<1> SUFFICES ASSUME FirewallInit PROVE FirewallInv
  OBVIOUS
<1>1. IsFile(conf) /\ view = conf /\ lines = <<>>
  BY FilesAssumption DEF FirewallInit
<1> QED
  BY <1>1, FileIs, DraftNone DEF FirewallInv

LEMMA DraftKept == FirewallInv /\ [FirewallNext]_firewallVars => FirewallInv'
<1> SUFFICES ASSUME FirewallInv, [FirewallNext]_firewallVars PROVE FirewallInv'
  OBVIOUS
<1>1. ASSUME NEW b \in Bodies, NEW before \in RuleIds(view) \cup {0}, AddRule(b, before)
      PROVE  FirewallInv'
  BY <1>1, AddRuleKeeps
<1>2. ASSUME NEW id \in RuleIds(view), NEW b \in Bodies, EditRule(id, b)
      PROVE  FirewallInv'
  BY <1>2, EditRuleKeeps
<1>3. ASSUME NEW id \in RuleIds(view), RemoveRule(id) PROVE FirewallInv'
  BY <1>3, RemoveKeeps DEF RuleIds
<1>4. ASSUME NEW id \in RuleIds(view), NEW before \in RuleIds(view) \cup {0},
             MoveRule(id, before)
      PROVE  FirewallInv'
  BY <1>4, MoveRuleKeeps
<1>5. ASSUME NEW f \in Forwards, AddForward(f) PROVE FirewallInv'
  BY <1>5, AddForwardKeeps
<1>6. ASSUME NEW f \in Forwards, NEW id \in Ids(view), EditForward(id, f)
      PROVE  FirewallInv'
  BY <1>6, EditForwardKeeps
<1>7. ASSUME NEW id \in Ids(view), RemoveForward(id) PROVE FirewallInv'
  BY <1>7, RemoveKeeps
<1>8. CASE DiscardStaged
  <2>1. Draft(conf, conf, <<>>)
    BY DraftNone DEF FirewallInv, Draft, Recorded
  <2> QED
    BY <1>8, <2>1 DEF DiscardStaged, FirewallInv
<1>9. CASE Commit
  <2>1. Draft(view, view, <<>>)
    BY DraftNone DEF FirewallInv, Draft, Recorded
  <2> QED
    BY <1>9, <2>1 DEF Commit, FirewallInv
<1>10. CASE UNCHANGED firewallVars
  BY <1>10 DEF firewallVars, FirewallInv
<1> QED
  BY <1>1, <1>2, <1>3, <1>4, <1>5, <1>6, <1>7, <1>8, <1>9, <1>10 DEF FirewallNext

\* DraftIsRecorded: at any time the draft differs from the file only in what its
\* lines tell.
THEOREM DraftIsRecorded == FirewallSpec => []FirewallInv
BY DraftStarts, DraftKept, PTL DEF FirewallSpec

-----------------------------------------------------------------------------
(* The rows of the apply bar.                                               *)

RowIn(c, v, l, e) ==
  RowOfLine(c, v, e, WholeEntries(c, v, l, EntryKinds), EntryKinds, Words, Says, Label)

RowsMade(c, v, l) ==
  [i \in DOMAIN l |-> LineRow(c, v, l, WholeEntries(c, v, l, EntryKinds), i)]

LEMMA RowsAre ==
  ASSUME NEW c, NEW v, NEW l
  PROVE  RowsIn(c, v, l) = Bar(l, RowsMade(c, v, l))
BY DEF RowsIn, RowsMade

LEMMA PlainRow ==
  ASSUME NEW c, NEW v, NEW l, NEW i \in DOMAIN l, ~IsSchedule(l[i].id)
  PROVE  RowsMade(c, v, l)[i] = RowIn(c, v, l, l[i])
BY DEF RowsMade, LineRow, RowIn

\* What is not NoRow is shown, where the first line of its key is.
LEMMA RowShown ==
  ASSUME NEW c, NEW v, NEW l, IsLog(l), NEW i \in DOMAIN l, FirstAt(l, i),
         NEW r, r = RowsMade(c, v, l)[i], r # NoRow
  PROVE  Shows(RowsIn(c, v, l), r)
<1> DEFINE row == RowsMade(c, v, l)
<1>1. row[i] = r
  OBVIOUS
<1> HIDE DEF row
<1>2. Shows(Bar(l, row), row[i])
  BY <1>1, BarShows
<1> QED
  BY <1>1, <1>2, RowsAre DEF row

\* The row of an entry that goes or comes, and of an option.
GoneRow(x, s) == Row(x, Says(s), Entry(s, Words), <<>>, <<>>)
NewRow(x, s)  == Row(x, Says(s), <<>>, Entry(s, Words), <<>>)
OptionRow(c, v, x, o) ==
  Row(x, Label(Of(v, x), o), Said(Of(c, x).opt[o]), Said(Of(v, x).opt[o]),
      IF Of(c, x).kind \in EntryKinds THEN Subject(Of(c, x), Words) ELSE <<>>)

LEMMA RowOfGone ==
  ASSUME NEW c, NEW v, NEW l, NEW e, NEW x, IsSet(e, x, ""), Goes(c, v, x)
  PROVE  RowIn(c, v, l, e) = GoneRow(x, Of(c, x))
BY DEF RowIn, RowOfLine, IsSet, Goes, GoneRow

LEMMA RowOfNew ==
  ASSUME NEW c, NEW v, NEW l, NEW e, NEW x, IsSet(e, x, ""), Comes(c, v, x)
  PROVE  RowIn(c, v, l, e) = NewRow(x, Of(v, x))
BY DEF RowIn, RowOfLine, IsSet, Comes, NewRow

LEMMA RowOfOption ==
  ASSUME NEW c, NEW v, NEW l, NEW e, NEW x, NEW o, IsSet(e, x, o), Turns(c, v, x, o),
         x \notin WholeEntries(c, v, l, EntryKinds)
  PROVE  RowIn(c, v, l, e) = OptionRow(c, v, x, o)
BY DEF RowIn, RowOfLine, IsSet, Turns, OptionRow

LEMMA RowOfMove ==
  ASSUME NEW c, NEW v, NEW l, NEW e, NEW x, IsMove(e, x),
         Place(c, x) # 0, Place(v, x) # 0, Place(c, x) # Place(v, x)
  PROVE  RowIn(c, v, l, e)
           = Row(x, <<"position">>, <<"place", Place(c, x)>>, <<"place", Place(v, x)>>,
                 Subject(Of(c, x), Words))
BY DEF RowIn, RowOfLine, IsMove, MoveRow

-----------------------------------------------------------------------------
(* StagedIsShown.                                                           *)

\* A rule's number is its place in the list of the rules.
LEMMA RulePlace ==
  ASSUME NEW file, WellFormed(file), NEW id \in RuleIds(file)
  PROVE  /\ Place(file, id) = Pos(RulesOf(file), id)
         /\ Place(file, id) # 0 /\ Place(file, id) \in Int
<1>1. Place(file, id) = Pos(RulesOf(file), id)
  BY PlaceIs DEF RulesOf, RuleIds, IdsOfKind
<1>2. WellFormed(RulesOf(file)) /\ id \in Ids(RulesOf(file))
  BY RulesAre
<1>3. Pos(RulesOf(file), id) \in 1 .. Len(RulesOf(file)) /\ Len(RulesOf(file)) \in Nat
  BY <1>2, SectionAt
<1> QED
  BY <1>1, <1>3

\* An entry that comes or goes: unless it was moved first, its first line is not
\* a move, and its row is.
LEMMA EntryHasRow ==
  ASSUME FirewallInv, NEW id \in Ids(conf) \cup Ids(view), ~IsSchedule(id),
         ~MovedFirst(id)
  PROVE  EntryShown(Rows, id)
<1>1. SUFFICES ASSUME ~(id \in Ids(conf) /\ id \in Ids(view))
               PROVE  EntryShown(Rows, id)
  BY DEF EntryShown
<1>2. Recorded(conf, view, lines) /\ IsLog(lines) /\ WellFormed(conf) /\ WellFormed(view)
  BY DEF FirewallInv, Draft, Recorded
<1>3. id # 0
  BY <1>2, SectionAt
<1>4. SetLine(lines, id, "")
  BY <1>1, <1>2 DEF Recorded, SectionTold
<1>5. PICK j \in DOMAIN lines : lines[j].id = id /\ lines[j].option = ""
  BY <1>4 DEF SetLine
<1>6. PICK i \in DOMAIN lines : /\ lines[i].id = id /\ lines[i].option = ""
                                /\ FirstAt(lines, i)
  BY <1>2, <1>5, FirstLine
<1>7. IsSet(lines[i], id, "")
  BY <1>6 DEF MovedFirst, IsSet
<1>8. ASSUME NEW r, r = RowIn(conf, view, lines, lines[i]), r # NoRow
      PROVE  \E n \in DOMAIN Rows : Rows[n] = r
  <2>1. lines[i].id = id /\ i \in DOMAIN lines
    BY <1>6
  <2>2. RowsMade(conf, view, lines)[i] = r
    BY <1>8, <2>1, PlainRow
  <2>3. Shows(RowsIn(conf, view, lines), r)
    BY <1>2, <1>6, <1>8, <2>2, RowShown
  <2> QED
    BY <2>3 DEF Shows, Rows
<1>9. CASE Goes(conf, view, id)
  <2> DEFINE r == GoneRow(id, Of(conf, id))
  <2>1. r = RowIn(conf, view, lines, lines[i])
    BY <1>7, <1>9, RowOfGone
  <2>2. r.id = id /\ r.to = <<>> /\ r.from = Entry(Of(conf, id), Words) /\ r # NoRow
    BY ONLY <1>3, RowFields, RowIsOne DEF GoneRow
  <2> HIDE DEF r
  <2>3. PICK n \in DOMAIN Rows : Rows[n] = r
    BY <1>8, <2>1, <2>2
  <2> QED
    BY <1>9, <2>2, <2>3 DEF EntryShown, Goes
<1>10. CASE Comes(conf, view, id)
  <2> DEFINE r == NewRow(id, Of(view, id))
  <2>1. r = RowIn(conf, view, lines, lines[i])
    BY <1>7, <1>10, RowOfNew
  <2>2. r.id = id /\ r.from = <<>> /\ r.to = Entry(Of(view, id), Words) /\ r # NoRow
    BY ONLY <1>3, RowFields, RowIsOne DEF NewRow
  <2> HIDE DEF r
  <2>3. PICK n \in DOMAIN Rows : Rows[n] = r
    BY <1>8, <2>1, <2>2
  <2> QED
    BY <1>10, <2>2, <2>3 DEF EntryShown, Comes
<1> QED
  BY <1>1, <1>9, <1>10 DEF Goes, Comes

\* An option that changed: no line of the section's own, so its rows stand.
LEMMA FieldsHaveRows ==
  ASSUME FirewallInv, NEW id \in Ids(conf) \cup Ids(view), ~IsSchedule(id), ~Moved(id)
  PROVE  FieldsShown(Rows, id)
<1> SUFFICES ASSUME id \in Ids(conf), id \in Ids(view), NEW o \in DOMAIN Of(conf, id).opt,
                    Of(conf, id).opt[o] # Of(view, id).opt[o]
             PROVE  \E i \in DOMAIN Rows : /\ Rows[i].id = id
                                           /\ Rows[i].label = Label(Of(view, id), o)
                                           /\ Rows[i].from = Said(Of(conf, id).opt[o])
                                           /\ Rows[i].to = Said(Of(view, id).opt[o])
  BY DEF FieldsShown
<1>1. Recorded(conf, view, lines) /\ IsLog(lines) /\ WellFormed(conf) /\ WellFormed(view)
  BY DEF FirewallInv, Draft, Recorded
<1>2. id # 0 /\ Formed(Of(conf, id))
  BY <1>1, SectionAt
<1>3. o # ""
  BY <1>2 DEF Formed
<1>4. /\ SetLine(lines, id, o) /\ ~SetLine(lines, id, "")
      /\ Of(conf, id).kind = Of(view, id).kind
  BY <1>1 DEF Recorded, SectionTold
<1>5. PICK j \in DOMAIN lines : lines[j].id = id /\ lines[j].option = o
  BY <1>4 DEF SetLine
<1>6. PICK i \in DOMAIN lines : /\ lines[i].id = id /\ lines[i].option = o
                                /\ FirstAt(lines, i)
  BY <1>1, <1>5, FirstLine
<1>7. IsSet(lines[i], id, o)
  BY <1>6 DEF Moved, IsSet
<1>8. id \notin WholeEntries(conf, view, lines, EntryKinds)
  BY <1>4 DEF WholeEntries, SetLine, Moved
<1> DEFINE r == OptionRow(conf, view, id, o)
<1>9. RowIn(conf, view, lines, lines[i]) = r
  <2>1. Turns(conf, view, id, o)
    BY <1>3 DEF Turns
  <2> QED
    BY <1>7, <1>8, <2>1, RowOfOption
<1>10. /\ r.id = id /\ r.label = Label(Of(view, id), o) /\ r # NoRow
       /\ r.from = Said(Of(conf, id).opt[o]) /\ r.to = Said(Of(view, id).opt[o])
  BY ONLY <1>2, RowFields, RowIsOne DEF OptionRow
<1> HIDE DEF r
<1>11. RowsMade(conf, view, lines)[i] = r
  BY <1>6, <1>9, PlainRow
<1>12. Shows(RowsIn(conf, view, lines), r)
  BY <1>1, <1>6, <1>10, <1>11, RowShown
<1> QED
  BY <1>10, <1>12 DEF Shows, Rows

\* A rule that was moved: its own first line is the move.
LEMMA MoveHasRow ==
  ASSUME FirewallInv, NEW id, ~IsSchedule(id), Moved(id)
  PROVE  MoveShown(Rows, id)
<1> SUFFICES ASSUME id \in RuleIds(conf), id \in RuleIds(view),
                    Place(conf, id) # Place(view, id)
             PROVE  PositionShown(Rows, id)
  BY DEF MoveShown
<1>1. Recorded(conf, view, lines) /\ IsLog(lines) /\ WellFormed(conf) /\ WellFormed(view)
  BY DEF FirewallInv, Draft, Recorded
<1>2. id \in Ids(conf) /\ id \in Ids(view) /\ id # 0
  BY <1>1, SectionAt DEF RuleIds
<1>3. ~SetLine(lines, id, "")
  BY <1>1, <1>2 DEF Recorded, SectionTold
<1>4. PICK j \in DOMAIN lines : lines[j].id = id /\ lines[j].reorder
  BY DEF Moved
<1>5. lines[j].option = ""
  BY <1>1, <1>4 DEF Recorded
<1>6. PICK i \in DOMAIN lines : /\ lines[i].id = id /\ lines[i].option = ""
                                /\ FirstAt(lines, i)
  BY <1>1, <1>4, <1>5, FirstLine
<1>7. IsMove(lines[i], id)
  BY <1>3, <1>6 DEF SetLine, IsMove
<1>8. Place(conf, id) # 0 /\ Place(view, id) # 0
  BY <1>1, RulePlace
<1> DEFINE r == Row(id, <<"position">>, <<"place", Place(conf, id)>>,
                    <<"place", Place(view, id)>>, Subject(Of(conf, id), Words))
<1>9. RowIn(conf, view, lines, lines[i]) = r
  BY <1>7, <1>8, RowOfMove
<1>10. /\ r.id = id /\ r.label = <<"position">> /\ r # NoRow
       /\ r.from = <<"place", Place(conf, id)>> /\ r.to = <<"place", Place(view, id)>>
  BY ONLY <1>2, RowFields, RowIsOne
<1> HIDE DEF r
<1>11. RowsMade(conf, view, lines)[i] = r
  <2>1. lines[i].id = id /\ i \in DOMAIN lines
    BY <1>6
  <2> QED
    BY <1>9, <2>1, PlainRow
<1>12. Shows(RowsIn(conf, view, lines), r)
  BY <1>1, <1>6, <1>10, <1>11, RowShown
<1> QED
  BY <1>10, <1>12 DEF Shows, Rows, PositionShown

\* Where two lists of the same names first differ, two names changed sides.
LEMMA TwoChangedSides ==
  ASSUME NEW s, NEW t, WellFormed(s), WellFormed(t), Ids(s) = Ids(t), ~SameIds(s, t)
  PROVE  \E x, y \in Ids(s) : /\ Pos(s, x) < Pos(s, y) /\ Pos(t, y) < Pos(t, x)
                              /\ Pos(s, x) # Pos(t, x) /\ Pos(s, y) # Pos(t, y)
<1>1. IsLog(s) /\ IsLog(t) /\ Named(s) /\ Named(t)
  BY DEF WellFormed
<1>2. /\ Len(s) \in Nat /\ DOMAIN s = 1 .. Len(s) /\ Len(t) \in Nat
      /\ DOMAIN t = 1 .. Len(t) /\ IsFiniteSet(DOMAIN s)
  BY <1>1, LogShape
<1>3. Len(s) = Len(t)
  BY CountInFront
<1> DEFINE n == Len(s)
           K == {i \in 1 .. n : s[i].id # t[i].id}
           k == Nth(K, 1)
<1>4. DOMAIN s = 1 .. n /\ DOMAIN t = 1 .. n /\ n \in Nat /\ IsFiniteSet(1 .. n)
  BY <1>2, <1>3
<1>5. K # {}
  <2>1. SUFFICES ASSUME \A i \in 1 .. n : s[i].id = t[i].id PROVE FALSE
    OBVIOUS
  <2>2. [i \in DOMAIN s |-> s[i].id] = [i \in DOMAIN t |-> t[i].id]
    BY <1>4, <2>1
  <2> QED
    BY <2>2 DEF SameIds
<1>6. IsFiniteSet(K) /\ K \subseteq Int /\ K \subseteq 1 .. n
  <2>1. K \subseteq 1 .. n
    OBVIOUS
  <2> HIDE DEF K, n
  <2>2. IsFiniteSet(K)
    BY <1>4, <2>1, FS_Subset
  <2> QED
    BY <1>4, <2>1, <2>2
<1>7. \A i \in 1 .. n : i \in K <=> s[i].id # t[i].id
  OBVIOUS
<1> HIDE DEF K, n
<1>8. PICK i \in K : TRUE
  BY <1>5
<1>9. 1 \in 1 .. Cardinality(K) /\ Cardinality(K) \in Nat
  <2>1. Cardinality(K) \in Nat /\ Rank(K, i) \in 1 .. Cardinality(K)
    BY <1>6, NthIs
  <2> QED
    BY <2>1
<1>10. k \in K /\ Rank(K, k) = 1
  BY <1>6, <1>9, NthIs
<1> HIDE DEF k
<1>11. \A j \in 1 .. n : j < k => s[j].id = t[j].id
  <2> SUFFICES ASSUME NEW j \in 1 .. n, j < k, j \in K PROVE FALSE
    BY <1>7
  <2>1. Rank(K, j) \in 1 .. Cardinality(K) /\ Rank(K, j) < Rank(K, k)
    BY <1>6, <1>10, RankGrows
  <2> QED
    BY <1>9, <1>10, <2>1
<1> DEFINE x == s[k].id
           y == t[k].id
<1>12. k \in 1 .. n /\ x # y
  BY <1>6, <1>7, <1>10
<1>13. Pos(s, x) = k /\ x \in Ids(s) /\ Pos(t, y) = k /\ y \in Ids(t)
  BY <1>1, <1>4, <1>12, PosIs DEF Ids
<1> HIDE DEF x, y
<1>14. /\ Pos(t, x) \in 1 .. n /\ t[Pos(t, x)].id = x
       /\ Pos(s, y) \in 1 .. n /\ s[Pos(s, y)].id = y
  BY <1>4, <1>13, PosIn
<1>15. Pos(t, x) # k /\ Pos(s, y) # k
  BY <1>12, <1>14 DEF x, y
<1>16. ~(Pos(t, x) < k)
  <2> SUFFICES ASSUME Pos(t, x) < k PROVE FALSE
    OBVIOUS
  <2>1. s[Pos(t, x)].id = x
    BY <1>11, <1>14
  <2>2. Pos(s, x) = Pos(t, x)
    BY <1>1, <1>4, <1>14, <2>1, FoundAt
  <2> QED
    BY <1>13, <1>14, <1>12, <2>2
<1>17. ~(Pos(s, y) < k)
  <2> SUFFICES ASSUME Pos(s, y) < k PROVE FALSE
    OBVIOUS
  <2>1. t[Pos(s, y)].id = y
    BY <1>11, <1>14
  <2>2. Pos(t, y) = Pos(s, y)
    BY <1>1, <1>4, <1>14, <2>1, FoundAt
  <2> QED
    BY <1>13, <1>14, <1>12, <2>2
<1>18. Pos(s, x) < Pos(s, y) /\ Pos(t, y) < Pos(t, x)
  BY <1>4, <1>12, <1>13, <1>14, <1>15, <1>16, <1>17
<1> QED
  BY <1>13, <1>15, <1>18

\* Two rules that changed sides: the rest of the file keeps its order.
LEMMA OneWasMoved ==
  ASSUME FirewallInv, NEW x \in RuleIds(conf) \cap RuleIds(view),
         NEW y \in RuleIds(conf) \cap RuleIds(view),
         Place(conf, x) < Place(conf, y), Place(view, y) < Place(view, x)
  PROVE  Moved(x) \/ Moved(y)
<1>1. Recorded(conf, view, lines) /\ WellFormed(conf) /\ WellFormed(view)
  BY DEF FirewallInv, Draft, Recorded
<1>2. /\ SameOrder(conf, RulesOf(conf), RuleIds(conf))
      /\ SameOrder(view, RulesOf(view), RuleIds(view))
  BY <1>1, RulesAre
<1>3. /\ Pos(RulesOf(conf), x) < Pos(RulesOf(conf), y)
      /\ Pos(RulesOf(view), y) < Pos(RulesOf(view), x)
  <2>1. /\ Place(conf, x) = Pos(RulesOf(conf), x) /\ Place(conf, y) = Pos(RulesOf(conf), y)
        /\ Place(view, x) = Pos(RulesOf(view), x) /\ Place(view, y) = Pos(RulesOf(view), y)
    BY <1>1, RulePlace
  <2> QED
    BY <2>1
<1>4. Pos(conf, x) < Pos(conf, y) /\ Pos(view, y) < Pos(view, x)
  BY <1>2, <1>3 DEF SameOrder
<1> SUFFICES ASSUME ~Moved(x), ~Moved(y) PROVE FALSE
  OBVIOUS
<1>5. ~MoveLine(lines, x) /\ ~MoveLine(lines, y)
  BY DEF Moved, MoveLine
<1>6. x \in Ids(conf) \cap Ids(view) /\ y \in Ids(conf) \cap Ids(view)
  BY DEF RuleIds
<1>7. Pos(conf, x) < Pos(conf, y) <=> Pos(view, x) < Pos(view, y)
  BY <1>1, <1>5, <1>6 DEF Recorded, OrderTold, SameOrder
<1>8. Pos(view, x) \in Int /\ Pos(view, y) \in Int
  BY <1>1, <1>6, SectionAt
<1> QED
  BY <1>4, <1>7, <1>8

LEMMA TurnHasRow ==
  ASSUME FirewallInv, NEW x \in RuleIds(conf) \cap RuleIds(view),
         NEW y \in RuleIds(conf) \cap RuleIds(view)
  PROVE  TurnShown(Rows, x, y)
<1> SUFFICES ASSUME Place(conf, x) < Place(conf, y), Place(view, y) < Place(view, x)
             PROVE  \E id \in {x, y} : /\ Moved(id)
                                       /\ \/ PositionShown(Rows, id)
                                          \/ IsSchedule(id)
                                          \/ Place(conf, id) = Place(view, id)
  BY DEF TurnShown
<1>1. PICK id \in {x, y} : Moved(id)
  BY OneWasMoved
<1>2. id \in RuleIds(conf) \cap RuleIds(view)
  OBVIOUS
<1>3. ~IsSchedule(id) => MoveShown(Rows, id)
  BY <1>1, MoveHasRow
<1> QED
  BY <1>1, <1>2, <1>3 DEF MoveShown

\* A changed order: of two rules that changed sides, with other numbers, one was
\* moved.
LEMMA OrderHasRow ==
  ASSUME FirewallInv
  PROVE  OrderShown(Rows)
<1>1. \A x, y \in RuleIds(conf) \cap RuleIds(view) : TurnShown(Rows, x, y)
  BY TurnHasRow
<1> SUFFICES ASSUME RuleIds(conf) = RuleIds(view),
                    \A id \in DOMAIN Names : IsSchedule(id) => ~Moved(id),
                    ~SameIds(RulesOf(conf), RulesOf(view))
             PROVE  \E i \in DOMAIN Rows : Rows[i].label = <<"position">>
  BY <1>1 DEF OrderShown
<1> DEFINE s == RulesOf(conf)
           t == RulesOf(view)
<1>2. WellFormed(conf) /\ WellFormed(view)
  BY DEF FirewallInv, Draft, Recorded
<1>3. WellFormed(s) /\ Ids(s) = RuleIds(conf) /\ WellFormed(t) /\ Ids(t) = RuleIds(view)
  BY <1>2, RulesAre
<1>4. PICK x, y \in Ids(s) : /\ Pos(s, x) < Pos(s, y) /\ Pos(t, y) < Pos(t, x)
                             /\ Pos(s, x) # Pos(t, x) /\ Pos(s, y) # Pos(t, y)
  BY <1>3, TwoChangedSides
<1>5. \A z \in {x, y} : /\ z \in RuleIds(conf) \cap RuleIds(view)
                        /\ Place(conf, z) = Pos(s, z) /\ Place(view, z) = Pos(t, z)
  BY <1>2, <1>3, RulePlace
<1>6. PICK id \in {x, y} : Moved(id)
  <2>1. Place(conf, x) < Place(conf, y) /\ Place(view, y) < Place(view, x)
    BY <1>4, <1>5
  <2> QED
    BY <1>5, <2>1, OneWasMoved
<1>7. ~IsSchedule(id)
  BY <1>6 DEF IsSchedule
<1>8. MoveShown(Rows, id)
  BY <1>6, <1>7, MoveHasRow
<1>9. PositionShown(Rows, id)
  BY <1>4, <1>5, <1>8 DEF MoveShown
<1> QED
  BY <1>9 DEF PositionShown

\* The parts of a schedule no line is about are what they were.
LEMMA PartsUntold ==
  ASSUME NEW c, NEW v, NEW l, Recorded(c, v, l), NEW mac, NEW part, part # "block",
         \A i \in DOMAIN l : ~(IsSchedule(l[i].id) /\ Names[l[i].id].mac = mac)
  PROVE  PartOn(c, mac, part) = PartOn(v, mac, part)
<1> DEFINE P(x) == x \in DOMAIN Names /\ Names[x].part = part /\ Names[x].mac = mac
<1>1. ASSUME NEW x, P(x)
      PROVE  /\ x \in Ids(c) <=> x \in Ids(v)
             /\ x \in Ids(c) => Of(c, x).kind = Of(v, x).kind /\ Of(c, x).opt = Of(v, x).opt
  <2>1. \A o : ~SetLine(l, x, o)
    BY <1>1 DEF SetLine, IsSchedule
  <2>2. x \in Ids(c) <=> x \in Ids(v)
    BY <2>1 DEF Recorded, SectionTold
  <2>3. ASSUME x \in Ids(c)
        PROVE  Of(c, x).kind = Of(v, x).kind /\ Of(c, x).opt = Of(v, x).opt
    <3> DEFINE f == Of(c, x).opt
               g == Of(v, x).opt
    <3>1. SectionTold(c, v, l, x)
      BY <2>3 DEF Recorded
    <3>2. /\ Of(c, x).kind = Of(v, x).kind /\ DOMAIN f = DOMAIN g
          /\ \A o \in DOMAIN f : f[o] = g[o]
      BY <2>1, <2>2, <2>3, <3>1 DEF SectionTold
    <3>3. Formed(Of(c, x)) /\ Formed(Of(v, x))
      BY <2>2, <2>3, SectionAt DEF Recorded
    <3>4. f = [o \in DOMAIN f |-> f[o]] /\ g = [o \in DOMAIN g |-> g[o]]
      BY <3>3 DEF Formed
    <3> HIDE DEF f, g
    <3>5. f = g
      BY <3>2, <3>4
    <3> QED
      BY <3>2, <3>5 DEF f, g
  <2> QED
    BY <2>2, <2>3
<1> DEFINE On(file) == {x \in Ids(file) \cap DOMAIN Names :
                          /\ Names[x].part = part /\ Names[x].mac = mac
                          /\ Of(file, x).kind = "rule"
                          /\ Of(file, x).opt["enabled"] # "0"}
<1>2. On(c) = On(v)
  BY <1>1
<1>3. \A x \in On(c) : Of(c, x).opt = Of(v, x).opt
  BY <1>1
<1>4. {Of(c, x).opt : x \in On(c)} = {Of(v, x).opt : x \in On(v)}
  BY <1>2, <1>3
<1> QED
  BY <1>4 DEF PartOn

LEMMA ScheduleUntold ==
  ASSUME NEW c, NEW v, NEW l, Recorded(c, v, l), NEW mac,
         \A i \in DOMAIN l : ~(IsSchedule(l[i].id) /\ Names[l[i].id].mac = mac)
  PROVE  ScheduleWords(c, mac) = ScheduleWords(v, mac)
<1>1. \A part : part # "block" => PartOn(c, mac, part) = PartOn(v, mac, part)
  BY PartsUntold
<1>2. /\ PartOn(c, mac, "evening") = PartOn(v, mac, "evening")
      /\ PartOn(c, mac, "morning") = PartOn(v, mac, "morning")
  BY <1>1
<1> QED
  BY <1>2 DEF ScheduleWords

\* The first line about a device's schedule has its row.
LEMMA ScheduleHasRow ==
  ASSUME FirewallInv, NEW mac \in Devices
  PROVE  ScheduleShown(Rows, mac)
<1> DEFINE was == ScheduleWords(conf, mac)
           now == ScheduleWords(view, mac)
           K   == {i \in DOMAIN lines : /\ IsSchedule(lines[i].id)
                                        /\ Names[lines[i].id].mac = mac}
           r   == ScheduleRow(mac, was, now)
<1> SUFFICES ASSUME was # now PROVE \E i \in DOMAIN Rows : Rows[i] = r
  BY DEF ScheduleShown
<1>1. Recorded(conf, view, lines) /\ IsLog(lines)
  BY DEF FirewallInv, Draft, Recorded
<1>2. K # {}
  BY <1>1, ScheduleUntold
<1>3. PICK k \in K : \A j \in 1 .. k - 1 : j \in DOMAIN lines /\ j \notin K
  <2>1. K \in SUBSET DOMAIN lines
    OBVIOUS
  <2> HIDE DEF K
  <2> QED
    BY <1>1, <1>2, <2>1, FirstOf
<1>4. k \in DOMAIN lines /\ IsSchedule(lines[k].id) /\ Names[lines[k].id].mac = mac
  OBVIOUS
<1>5. \A j \in 1 .. k - 1 : ~(IsSchedule(lines[j].id) /\ Names[lines[j].id].mac = mac)
  BY <1>3
<1>6. FirstAt(lines, k)
  BY <1>4, <1>5 DEF FirstAt
<1>7. mac # ""
  BY DEF Devices
<1>8. RowsMade(conf, view, lines)[k] = r
  <2>1. ~\E j \in 1 .. k - 1 : IsSchedule(lines[j].id) /\ Names[lines[j].id].mac = mac
    BY <1>5
  <2> QED
    BY <1>4, <1>7, <2>1 DEF RowsMade, LineRow
<1>9. r # NoRow
  <2>1. r.label = <<"schedule">> /\ NoRow.label = <<>>
    BY ONLY RowFields DEF ScheduleRow, NoRow
  <2> QED
    BY <2>1
<1> HIDE DEF r
<1>10. Shows(RowsIn(conf, view, lines), r)
  BY <1>1, <1>4, <1>6, <1>8, <1>9, RowShown
<1> QED
  BY <1>10 DEF Shows, Rows

\* ApplyBarShowsTheDraft: whatever was staged, in whatever order and with whatever
\* failures, the bar has the rows StagedIsShown lists, and no more is said: an
\* entry that was moved before it was removed, and the options of one that was
\* moved, are not among them; a schedule's sections have the row of their device,
\* and of the order no more is said than two rules that changed sides show.
THEOREM ApplyBarShowsTheDraft == FirewallSpec => []StagedIsShown
<1>1. FirewallInv => StagedIsShown
  BY EntryHasRow, FieldsHaveRows, MoveHasRow, OrderHasRow, ScheduleHasRow
  DEF StagedIsShown
<1> QED
  BY <1>1, DraftIsRecorded, PTL

-----------------------------------------------------------------------------
(* ReloadSaysTheSame.                                                       *)

\* An entry the bar has the answers' words for.
LEMMA SameWords ==
  ASSUME NEW s, s.kind \in EntryKinds, ~Reworded(s)
  PROVE  /\ Words(s) = Described(s) /\ Entry(s, Words) = Described(s)
         /\ Says(s) = Phrase(s) /\ Subject(s, Words) = Subject(s, Described)
         /\ ~IsSchedule(s.id) /\ \A k : Label(s, k) = <<s.kind, k>>
<1>1. ~IsBlock(s) /\ ~IsSchedule(s.id)
  BY DEF Reworded, IsBlock, IsSchedule
<1>2. Words(s) # <<>>
  BY DEF Reworded
<1>3. Words(s) = Described(s)
  BY <1>1, <1>2 DEF Words
<1> QED
  BY <1>1, <1>2, <1>3 DEF Entry, Says, Subject, Label

\* An entry that is new has one row.
LEMMA NewEntryRows ==
  ASSUME NEW c, NEW v, NEW l, NEW x, x # 0, NewEntryLog(l, x), Comes(c, v, x),
         Of(v, x).kind \in EntryKinds, ~IsSchedule(x)
  PROVE  RowsIn(c, v, l) = <<NewRow(x, Of(v, x))>>
<1> DEFINE row == RowsMade(c, v, l)
<1>1. 1 \in DOMAIN l /\ IsSet(l[1], x, "")
  BY DEF NewEntryLog
<1>2. row[1] = NewRow(x, Of(v, x))
  <2>1. RowIn(c, v, l, l[1]) = NewRow(x, Of(v, x))
    BY <1>1, RowOfNew
  <2>2. 1 \in DOMAIN l /\ ~IsSchedule(l[1].id)
    BY <1>1 DEF IsSet
  <2> HIDE DEF row
  <2>3. row[1] = RowIn(c, v, l, l[1])
    BY ONLY <2>2, PlainRow DEF row
  <2> QED
    BY <2>1, <2>3
<1>3. row[1] # NoRow
  BY <1>2, RowIsOne DEF NewRow
<1>4. x \in WholeEntries(c, v, l, EntryKinds)
  BY <1>1 DEF WholeEntries, Comes, IsSet
<1>5. ASSUME NEW i \in DOMAIN l, l[i].option # ""
      PROVE  row[i] = NoRow
  <2>1. IsSet(l[i], x, l[i].option)
    BY <1>5 DEF NewEntryLog, IsLineOf, IsSet
  <2>2. RowIn(c, v, l, l[i]) = NoRow
    BY <1>4, <1>5, <2>1 DEF RowIn, RowOfLine, IsSet, Comes
  <2>3. ~IsSchedule(l[i].id)
    BY <2>1 DEF IsSet
  <2> QED
    BY <2>2, <2>3, PlainRow
<1> HIDE DEF row
<1>6. Bar(l, row) = <<row[1]>>
  BY <1>3, <1>5, BarOfNew
<1> QED
  BY <1>2, <1>6, RowsAre DEF row

\* An entry that is changed: a row for every edit.
SetRow(s, e) ==
  Row(s.id, <<s.kind, e.key>>, Said(s.opt[e.key]), Said(e.value),
      Subject(s, Described))

SetRows(s, sets, E) ==
  [i \in DOMAIN InTurn(sets, E) |-> SetRow(s, InTurn(sets, E)[i])]

LEMMA EditsHaveRows ==
  ASSUME NEW c, WellFormed(c), KnownFile(c), NEW id \in Ids(c),
         Of(c, id).kind \in EntryKinds, NEW sets, Suits(sets, Of(c, id).kind),
         NEW E, E = Edits(sets, Of(c, id).opt, {}), E # {} => ~Reworded(Of(c, id))
  PROVE  RowsIn(c, Staged(c, id, E), LinesOf(id, sets, E)) = SetRows(Of(c, id), sets, E)
<1> DEFINE s   == Of(c, id)
           v   == Staged(c, id, E)
           l   == LinesOf(id, sets, E)
           es  == InTurn(sets, E)
           row == RowsMade(c, v, l)
<1>1. Keyed(sets) /\ E \subseteq InBatch(sets)
  BY EditsAre DEF Suits
<1>2. s.id = id /\ id # 0 /\ KnownSection(s)
  BY SectionAt DEF KnownFile
<1>3. \A e \in E : e.key \in DOMAIN s.opt
  BY <1>1, <1>2 DEF Suits, KnownSection, EntryKinds
<1>4. BatchOf(c, v, l, id, es)
  BY <1>1, <1>3, BatchIs
<1>5. \A i \in DOMAIN es : es[i] \in E
  BY <1>1, InTurnIs DEF Keyed
<1> HIDE DEF s, v, l, es, row
<1>6. ASSUME NEW i \in DOMAIN l
      PROVE  row[i] = SetRow(s, es[i]) /\ row[i] # NoRow
  <2> DEFINE k == es[i].key
  <2>1. /\ IsSet(l[i], id, k) /\ Turns(c, v, id, k) /\ Of(v, id).opt[k] = es[i].value
        /\ Of(v, id).kind = s.kind /\ id \notin WholeEntries(c, v, l, EntryKinds)
    BY <1>4, <1>6 DEF BatchOf, s
  <2> HIDE DEF k
  <2>2. RowIn(c, v, l, l[i]) = OptionRow(c, v, id, k)
    BY ONLY <2>1, RowOfOption
  <2>3. /\ Subject(s, Words) = Subject(s, Described) /\ ~IsSchedule(id)
        /\ Label(Of(v, id), k) = <<s.kind, k>>
    <3>1. ~Reworded(s) /\ s.kind \in EntryKinds
      BY <1>4, <1>6, <1>5 DEF BatchOf, s
    <3>2. ~IsBlock(Of(v, id))
      BY <1>2, <1>4, <3>1 DEF BatchOf, IsBlock, Reworded
    <3> QED
      BY <1>2, <2>1, <3>1, <3>2, SameWords DEF Label
  <2>4. OptionRow(c, v, id, k)
          = Row(id, <<s.kind, k>>, Said(s.opt[k]), Said(es[i].value),
                Subject(s, Described))
    BY <2>1, <2>3 DEF OptionRow, s
  <2>5. OptionRow(c, v, id, k) = SetRow(s, es[i])
    BY <1>2, <2>4 DEF SetRow, k
  <2>6. OptionRow(c, v, id, k) # NoRow
    BY <1>2, <2>4, RowIsOne
  <2>7. row[i] = RowIn(c, v, l, l[i])
    BY <1>6, <2>1, <2>3, PlainRow DEF row, IsSet
  <2> QED
    BY <2>2, <2>5, <2>6, <2>7
<1>7. row = [i \in DOMAIN l |-> row[i]]
  BY DEF row, RowsMade
<1>8. Bar(l, row) = row
  BY <1>4, <1>6, <1>7, BarOfBatch
<1>9. RowsIn(c, v, l) = [i \in DOMAIN es |-> SetRow(s, es[i])]
  BY <1>4, <1>6, <1>7, <1>8, RowsAre DEF BatchOf, row
<1> QED
  BY <1>9 DEF SetRows, s, v, l, es

\* Where a batch writes something its lines are about its section.
LEMMA EditedIs ==
  ASSUME NEW id \in Ids(conf), NEW sets, IsLog(sets), NEW E, E \subseteq InBatch(sets),
         NoneReworded(LinesOf(id, sets, E)), E # {}
  PROVE  ~Reworded(Of(conf, id))
<1> DEFINE l == LinesOf(id, sets, E)
<1>1. PICK s \in E : TRUE
  OBVIOUS
<1>2. /\ \A i \in DOMAIN l : l[i].id = id
      /\ \E i \in DOMAIN l : l[i].option = s.key
  BY <1>1, LinesAre
<1> HIDE DEF l
<1> QED
  BY <1>2 DEF NoneReworded, l

LEMMA EditRowsAre ==
  ASSUME FirewallInv, lines = <<>>, NEW id \in RuleIds(view), NEW b \in Bodies,
         NoneReworded(EditLog(id, b, {}))
  PROVE  EditRows(id, b) = RowsIn(conf, EditFile(id, b, {}), EditLog(id, b, {}))
<1> DEFINE sets == EditSets(id, b, {})
           E    == RuleEdits(id, b, {})
           s    == Of(view, id)
<1>1. view = conf /\ WellFormed(view) /\ KnownFile(view) /\ id \in Ids(view)
  BY DEF FirewallInv, Draft, Recorded, RuleIds
<1>2. s.kind = "rule" /\ s.id = id
  BY <1>1, SectionAt DEF RuleIds
<1>3. Suits(sets, s.kind) /\ E \subseteq InBatch(sets)
  BY EditFileIs
<1>4. E = Edits(sets, s.opt, {})
  BY DEF RuleEdits
<1>5. IsLog(sets)
  BY <1>3 DEF Suits, Keyed
<1>6. EditRows(id, b) = SetRows(s, sets, E)
  <2> HIDE DEF sets, E, s
  <2>1. EditRows(id, b) = RowsOf(id, sets, E, s.opt, {}, LAMBDA k : <<"rule", k>>,
                                 Subject(s, Described))
    BY DEF EditRows, sets, E, s
  <2>2. EditRows(id, b)
          = [i \in DOMAIN InTurn(sets, E) |->
               Row(id, <<"rule", InTurn(sets, E)[i].key>>,
                   Said(s.opt[InTurn(sets, E)[i].key]), Said(InTurn(sets, E)[i].value),
                   Subject(s, Described))]
    BY <2>1 DEF RowsOf
  <2> QED
    BY <1>2, <2>2 DEF SetRow, SetRows
<1>7. s.kind \in EntryKinds
  BY <1>2 DEF EntryKinds
<1>8. IsLog(LinesOf(id, sets, E))
  BY <1>3, <1>5, LinesAre
<1>9. EditLog(id, b, {}) = LinesOf(id, sets, E)
  BY <1>8, NothingJoined DEF EditLog
<1>10. EditFile(id, b, {}) = Staged(view, id, E)
  BY DEF EditFile
<1>11. E # {} => ~Reworded(s)
  BY <1>1, <1>3, <1>5, <1>9, EditedIs
<1> HIDE DEF sets, E
<1>12. RowsIn(view, Staged(view, id, E), LinesOf(id, sets, E)) = SetRows(s, sets, E)
  BY <1>1, <1>3, <1>4, <1>7, <1>11, EditsHaveRows
<1> QED
  BY <1>1, <1>6, <1>9, <1>10, <1>12

LEMMA ChangedRowsAre ==
  ASSUME FirewallInv, lines = <<>>, NEW id \in Ids(view),
         Of(view, id).kind = "redirect", NEW f, NoneReworded(ChangedLog(id, f))
  PROVE  ChangedRows(id, f) = RowsIn(conf, ChangedFile(id, f), ChangedLog(id, f))
<1> DEFINE sets == ForwardSettings(f)
           E    == ForwardEdits(id, f)
           s    == Of(view, id)
<1>1. view = conf /\ WellFormed(view) /\ KnownFile(view)
  BY DEF FirewallInv, Draft, Recorded
<1>2. s.kind = "redirect" /\ s.id = id
  BY <1>1, SectionAt
<1>3. Suits(sets, s.kind)
  BY ForwardBatch
<1>4. E = Edits(sets, s.opt, {}) /\ E \subseteq InBatch(sets)
  BY EditsAre DEF ForwardEdits
<1>5. IsLog(sets)
  BY <1>3 DEF Suits, Keyed
<1>6. ChangedRows(id, f) = SetRows(s, sets, E)
  <2> HIDE DEF sets, E, s
  <2>1. ChangedRows(id, f) = RowsOf(id, sets, E, s.opt, {}, LAMBDA k : <<"redirect", k>>,
                                    Subject(s, Described))
    BY DEF ChangedRows, sets, E, s
  <2>2. ChangedRows(id, f)
          = [i \in DOMAIN InTurn(sets, E) |->
               Row(id, <<"redirect", InTurn(sets, E)[i].key>>,
                   Said(s.opt[InTurn(sets, E)[i].key]), Said(InTurn(sets, E)[i].value),
                   Subject(s, Described))]
    BY <2>1 DEF RowsOf
  <2> QED
    BY <1>2, <2>2 DEF SetRow, SetRows
<1>7. s.kind \in EntryKinds
  BY <1>2 DEF EntryKinds
<1>8. IsLog(LinesOf(id, sets, E))
  BY <1>4, <1>5, LinesAre
<1>9. ChangedLog(id, f) = LinesOf(id, sets, E)
  BY <1>8, NothingJoined DEF ChangedLog
<1>10. ChangedFile(id, f) = Staged(view, id, E)
  BY DEF ChangedFile
<1>11. E # {} => ~Reworded(s)
  BY <1>1, <1>4, <1>5, <1>9, EditedIs
<1> HIDE DEF sets, E
<1>12. RowsIn(view, Staged(view, id, E), LinesOf(id, sets, E)) = SetRows(s, sets, E)
  BY ONLY <1>1, <1>3, <1>4, <1>7, <1>11, id \in Ids(view), EditsHaveRows
<1> QED
  BY <1>1, <1>6, <1>9, <1>10, <1>12

\* A rule's place in the list is behind the rules in front of it in the file.
LEMMA RulesInFront ==
  ASSUME NEW file, WellFormed(file), NEW id \in RuleIds(file)
  PROVE  InFront(RulesOf(file), id) = InFront(file, id) \cap RuleIds(file)
<1>1. /\ Ids(RulesOf(file)) = RuleIds(file)
      /\ SameOrder(file, RulesOf(file), RuleIds(file))
  BY RulesAre
<1>2. RuleIds(file) \subseteq Ids(file)
  BY DEF RuleIds
<1> QED
  BY <1>1, <1>2 DEF InFront, SameOrder

\* A move leaves the rules what they are.
LEMMA MovedRules ==
  ASSUME NEW file, WellFormed(file), NEW id \in Ids(file), NEW place \in Nat
  PROVE  LET g == UciReorder(file, id, place)
         IN  /\ WellFormed(g) /\ Ids(g) = Ids(file) /\ RuleIds(g) = RuleIds(file)
             /\ \A x \in Ids(file) : Of(g, x) = Of(file, x)
<1> DEFINE g == UciReorder(file, id, place)
<1>1. Keeps(file, g, id) /\ Ids(g) = Ids(file) /\ Of(g, id) = Of(file, id)
  BY ReorderedFile
<1> HIDE DEF g
<1>2. WellFormed(g) /\ \A x \in Ids(file) : Of(g, x) = Of(file, x)
  BY <1>1 DEF Keeps
<1>3. RuleIds(g) = RuleIds(file)
  BY <1>1, <1>2 DEF RuleIds
<1> QED
  BY <1>1, <1>2, <1>3 DEF g

\* MoveRule lands where it says: the rules in front are the ones that were in
\* front of `before', or all the others.
LEMMA MovedBehind ==
  ASSUME FirewallInv, NEW id \in RuleIds(view),
         NEW before \in (RuleIds(view) \ {id}) \cup {0}
  PROVE  /\ WellFormed(MoveFile(id, before)) /\ Ids(MoveFile(id, before)) = Ids(view)
         /\ RuleIds(MoveFile(id, before)) = RuleIds(view)
         /\ \A x \in Ids(view) : Of(MoveFile(id, before), x) = Of(view, x)
         /\ InFront(RulesOf(MoveFile(id, before)), id)
              = (IF before = 0 THEN RuleIds(view) ELSE InFront(RulesOf(view), before))
                \ {id}
<1> DEFINE g == MoveFile(id, before)
           p == MovePlace(id, before)
<1>1. WellFormed(view) /\ id \in Ids(view) /\ RuleIds(view) \subseteq Ids(view)
  BY RulesAreSections DEF RuleIds
<1>2. /\ p \in Nat
      /\ before = 0 => p = Len(view)
      /\ before # 0 => p = Pos(UciDelete(view, id), before) - 1
  BY MovePlaceIs
<1> HIDE DEF p
<1>3. g = UciReorder(view, id, p)
  BY DEF MoveFile, p
<1>4. /\ WellFormed(g) /\ Ids(g) = Ids(view) /\ RuleIds(g) = RuleIds(view)
      /\ \A x \in Ids(view) : Of(g, x) = Of(view, x)
  BY <1>1, <1>2, <1>3, MovedRules
<1>5. InFront(g, id) = (IF before = 0 THEN Ids(view) ELSE InFront(view, before)) \ {id}
  <2>1. CASE before = 0
    <3>1. Len(view) \in Nat
      BY <1>1, SectionAt
    <3>2. p \in Nat /\ p >= Len(view) - 1
      BY <1>2, <2>1, <3>1
    <3> QED
      BY <1>1, <1>3, <2>1, <3>2, MovedToTheEnd
  <2>2. CASE before # 0
    <3>1. before \in Ids(view) \ {id}
      BY <1>1, <2>2
    <3> QED
      BY <1>1, <1>2, <1>3, <2>2, <3>1, MovedInFrontOf
  <2> QED
    BY <2>1, <2>2
<1> HIDE DEF g
<1>6. InFront(RulesOf(g), id) = InFront(g, id) \cap RuleIds(view)
  BY <1>4, RulesInFront
<1>7. before # 0 => InFront(RulesOf(view), before) = InFront(view, before) \cap RuleIds(view)
  BY <1>1, RulesInFront
<1>8. InFront(RulesOf(g), id)
        = (IF before = 0 THEN RuleIds(view) ELSE InFront(RulesOf(view), before)) \ {id}
  BY <1>1, <1>5, <1>6, <1>7
<1> QED
  BY <1>4, <1>8 DEF g

LEMMA LandsThere ==
  ASSUME FirewallInv, NEW id \in RuleIds(view),
         NEW before \in (RuleIds(view) \ {id}) \cup {0}
  PROVE  /\ MoveLand(id, before) \in Nat
         /\ Pos(RulesOf(MoveFile(id, before)), id) = MoveLand(id, before) + 1
         /\ Len(UciDelete(RulesOf(view), id)) = Len(RulesOf(view)) - 1
<1> DEFINE g     == MoveFile(id, before)
           rules == RulesOf(view)
           F     == IF before = 0 THEN RuleIds(view) ELSE InFront(rules, before)
<1>1. WellFormed(view)
  BY RulesAreSections
<1>2. /\ WellFormed(g) /\ RuleIds(g) = RuleIds(view)
      /\ InFront(RulesOf(g), id) = F \ {id}
  BY MovedBehind
<1>3. WellFormed(rules) /\ Ids(rules) = RuleIds(view)
  BY <1>1, RulesAre
<1>4. WellFormed(RulesOf(g)) /\ Ids(RulesOf(g)) = RuleIds(view)
  BY <1>2, RulesAre
<1> HIDE DEF g, rules
<1>5. /\ Cardinality(InFront(RulesOf(g), id)) = Pos(RulesOf(g), id) - 1
      /\ Pos(RulesOf(g), id) \in Int
  BY <1>4, CountInFront, SectionAt
<1>6. Len(UciDelete(rules, id)) = Len(rules) - 1 /\ Len(rules) \in Nat
  BY <1>3, DeletedFile, SectionAt
<1>7. /\ Pos(rules, id) \in 1 .. Len(rules)
      /\ before # 0 => Pos(rules, before) \in 1 .. Len(rules)
  BY <1>3, SectionAt
<1>8. /\ IsFiniteSet(RuleIds(view)) /\ Cardinality(RuleIds(view)) = Len(rules)
      /\ before # 0 => /\ IsFiniteSet(InFront(rules, before))
                       /\ Cardinality(InFront(rules, before)) = Pos(rules, before) - 1
  BY <1>3, CountInFront
<1>9. IsFiniteSet(F) /\ Cardinality(F \ {id})
        = IF id \in F THEN Cardinality(F) - 1 ELSE Cardinality(F)
  <2>1. IsFiniteSet(F)
    BY <1>8
  <2> HIDE DEF F
  <2> QED
    BY <2>1, FS_RemoveElement
<1>10. CASE before = 0
  <2>1. MoveLand(id, before) = Len(rules) - 1
    BY <1>6, <1>10 DEF MoveLand, rules
  <2>2. Cardinality(F \ {id}) = Len(rules) - 1
    BY <1>8, <1>9, <1>10
  <2> QED
    BY <1>2, <1>5, <1>6, <1>7, <2>1, <2>2 DEF g, rules
<1>11. CASE before # 0
  <2>1. F = InFront(rules, before) /\ Cardinality(F) = Pos(rules, before) - 1
    BY <1>8, <1>11
  <2>2. id \in F <=> Pos(rules, id) < Pos(rules, before)
    BY <1>3, <2>1 DEF InFront
  <2>3. MoveLand(id, before) = IF Pos(rules, before) - 1 > Pos(rules, id) - 1
                                 THEN Pos(rules, before) - 1 - 1
                                 ELSE Pos(rules, before) - 1
    BY <1>11 DEF MoveLand, MoveAt, rules
  <2>4. MoveLand(id, before) = Cardinality(F \ {id}) /\ MoveLand(id, before) \in Nat
    BY <1>7, <1>9, <1>11, <2>1, <2>2, <2>3
  <2> QED
    BY <1>2, <1>5, <1>6, <2>4 DEF g, rules
<1> QED
  BY <1>10, <1>11

\* The log of a new rule or forward on an empty draft.
LEMMA LoggedIsNew ==
  ASSUME lines = <<>>, NEW sets, IsLog(sets), NEW E, E \subseteq InBatch(sets)
  PROVE  /\ NewEntryLog(RuleLogged \o LinesOf(RuleId, sets, E), RuleId)
         /\ NewEntryLog(Append(RuleLogged \o LinesOf(RuleId, sets, E),
                               Line(RuleId, "", TRUE)), RuleId)
<1> DEFINE l == RuleLogged
           m == l \o LinesOf(RuleId, sets, E)
           e == Line(RuleId, "", TRUE)
<1>1. NewEntryLog(l, RuleId)
  BY NewEntryStarts DEF RuleLogged
<1>2. IsLog(l)
  BY <1>1 DEF NewEntryLog
<1> HIDE DEF l
<1>3. Longer(l, m, RuleId)
  BY <1>2, LongerByBatch
<1> HIDE DEF m
<1>4. NewEntryLog(m, RuleId)
  BY <1>1, <1>3, NewEntryGrows
<1>5. IsLog(m)
  BY <1>4 DEF NewEntryLog
<1>6. IsLineOf(e, RuleId)
  BY DEF IsLineOf, Line
<1> HIDE DEF e
<1>7. Longer(m, Append(m, e), RuleId)
  BY <1>5, <1>6, LongerByOne
<1>8. NewEntryLog(Append(m, e), RuleId)
  BY <1>4, <1>7, NewEntryGrows
<1> QED
  BY <1>4, <1>8 DEF m, l, e

\* The row a staging answers with for an entry that is new.
AnswerRow(id, s) == Row(id, Phrase(s), <<>>, Described(s), <<>>)

\* The settings of a new rule.
FreshOptions(b) == Over(NoOptions(RuleOptions), Values(NewRule(b)))

LEMMA FreshIs ==
  ASSUME NEW b \in Bodies
  PROVE  LET o == FreshOptions(b)
         IN  /\ o["src"] = b.from /\ o["dest"] = b.to /\ o["proto"] = b.proto
             /\ o["dest_port"] = b.ports /\ o["target"] = b.action
             /\ o["family"] = b.family /\ o["name"] = b.name
             /\ o["enabled"] = (IF b.enabled THEN "" ELSE "0")
             /\ \A c \in Conditions : o[c] = ""
<1> DEFINE s == RuleSettings(b)
           o == FreshOptions(b)
           on == IF b.enabled THEN "" ELSE "0"
<1>1. DOMAIN s = 1 .. 8 /\ \A i \in 1 .. 8 : /\ s[i].key \in RuleOptions
                                            /\ s[i].key \notin Conditions
  <2>1. DOMAIN s = 1 .. 8
    BY DEF RuleSettings
  <2>2. /\ s[1].key = "src" /\ s[2].key = "dest" /\ s[3].key = "proto"
        /\ s[4].key = "dest_port" /\ s[5].key = "target" /\ s[6].key = "family"
        /\ s[7].key = "name" /\ s[8].key = "enabled"
    BY DEF RuleSettings, Setting
  <2>3. \A i \in 1 .. 8 : i = 1 \/ i = 2 \/ i = 3 \/ i = 4 \/ i = 5 \/ i = 6 \/ i = 7
                          \/ i = 8
    OBVIOUS
  <2> HIDE DEF s
  <2> QED
    BY <2>1, <2>2, <2>3 DEF RuleOptions, SetOptions, Conditions
<1>2. s = <<Setting("src", b.from, ""), Setting("dest", b.to, ""),
            Setting("proto", b.proto, ""), Setting("dest_port", b.ports, ""),
            Setting("target", b.action, ""), Setting("family", b.family, "any"),
            Setting("name", b.name, ""), Setting("enabled", on, "1")>>
  BY DEF RuleSettings
<1>3. Keyed(s)
  <2> DEFINE k == "rule"
  <2>1. k # "redirect"
    OBVIOUS
  <2> HIDE DEF k
  <2> QED
    BY <2>1, RuleBatch DEF Suits
<1> HIDE DEF s, on
<1>4. \A i \in 1 .. 8 : o[s[i].key] = s[i].value
  BY <1>1, <1>3, FilledIn DEF FreshOptions, NewRule, s
<1>5. \A c \in Conditions : c \in RuleOptions /\ ~KeyIn(s, c)
  BY <1>1 DEF KeyIn, RuleOptions, SetOptions, Conditions
<1>6. \A c \in Conditions : o[c] = ""
  BY <1>5, NotFilledIn DEF FreshOptions, NewRule, s
<1> HIDE DEF o
<1>7. /\ s[1].key = "src" /\ s[2].key = "dest" /\ s[3].key = "proto"
      /\ s[4].key = "dest_port" /\ s[5].key = "target" /\ s[6].key = "family"
      /\ s[7].key = "name" /\ s[8].key = "enabled"
      /\ s[1].value = b.from /\ s[2].value = b.to /\ s[3].value = b.proto
      /\ s[4].value = b.ports /\ s[5].value = b.action /\ s[6].value = b.family
      /\ s[7].value = b.name /\ s[8].value = on
  BY <1>2 DEF Setting
<1>8. /\ o["src"] = b.from /\ o["dest"] = b.to /\ o["proto"] = b.proto
      /\ o["dest_port"] = b.ports /\ o["target"] = b.action
      /\ o["family"] = b.family /\ o["name"] = b.name /\ o["enabled"] = on
  BY <1>4, <1>7
<1> QED
  BY <1>6, <1>8 DEF o, on

\* uci numbers it, so its name says nothing.
LEMMA RuleIsUnnamed ==
  ASSUME FirewallInv
  PROVE  RuleId \notin DOMAIN Names
<1>1. IsLog(view) /\ IsLog(lines)
  BY DEF FirewallInv, Draft, Recorded, WellFormed
<1>2. RuleId \in Nat
  BY <1>1, NewIdIs DEF RuleId
<1> QED
  BY <1>2, NamesAssumption

LEMMA AddedRow ==
  ASSUME FirewallInv, lines = <<>>, NEW b \in Bodies, Normal(b),
         NEW before \in RuleIds(view) \cup {0}
  PROVE  <<AnswerRow(RuleId, Of(RuleFile(b, before), RuleId))>>
           = RowsIn(conf, RuleFile(b, before), RuleLog(b, before))
<1> DEFINE g == RuleFile(b, before)
<1>1. Suits(RuleSettings(b), "rule") /\ NewRule(b) \subseteq InBatch(RuleSettings(b))
  <2>1. Suits(RuleSettings(b), "rule")
    BY RuleBatch
  <2> QED
    BY <2>1, EditsAre DEF NewRule
<1>2. IsLog(RuleSettings(b))
  BY <1>1 DEF Suits, Keyed
<1>3. NewEntryLog(RuleLog(b, before), RuleId)
  BY <1>1, <1>2, LoggedIsNew DEF RuleLog, LastLog
<1>4. RuleId \in Ids(g) /\ Of(g, RuleId) = Of(LastFile(b), RuleId) /\ WellFormed(g)
  BY RuleFileIs DEF Draft, Recorded
<1>5. /\ RuleId \notin Ids(conf)
      /\ Of(LastFile(b), RuleId) =
           Section(RuleId, "rule", Over(NoOptions(RuleOptions), Values(NewRule(b))))
  BY LastFileIs
<1>6. Of(LastFile(b), RuleId).kind = "rule"
  BY ONLY <1>5, SectionFields
<1> HIDE DEF g
<1>7. Of(g, RuleId).kind \in EntryKinds
  BY <1>4, <1>6 DEF EntryKinds
<1>8. Comes(conf, g, RuleId)
  BY <1>4, <1>5 DEF Comes
<1>9. RuleId # 0 /\ Of(g, RuleId).id = RuleId /\ RuleId \notin DOMAIN Names
  BY <1>4, SectionAt, RuleIsUnnamed
<1>10. ~Reworded(Of(g, RuleId))
  <2> DEFINE s == Of(g, RuleId)
  <2>1. s.opt = FreshOptions(b)
    BY ONLY <1>4, <1>5, SectionFields DEF FreshOptions
  <2>2. s.opt["src"] = b.from
    BY <2>1, FreshIs
  <2>3. b.from # ""
    BY FirewallAssumption DEF Normal
  <2>4. s.id \notin DOMAIN Names /\ s.kind = "rule"
    BY <1>4, <1>6, <1>9
  <2> HIDE DEF s
  <2>5. RuleWords(s.opt) # <<>>
    BY <2>2, <2>3 DEF RuleWords
  <2>6. Words(s) = RuleWords(s.opt)
    BY <2>4 DEF Words, IsBlock, Described
  <2> QED
    BY <2>4, <2>5, <2>6 DEF Reworded, s
<1>11. RowsIn(conf, g, RuleLog(b, before)) = <<NewRow(RuleId, Of(g, RuleId))>>
  BY <1>3, <1>7, <1>8, <1>9, NewEntryRows DEF IsSchedule
<1> QED
  BY <1>7, <1>10, <1>11, SameWords DEF AnswerRow, NewRow, g

\* A forward the panel makes has its port.
LEMMA ForwardHasPort ==
  ASSUME NEW f, Forwardable(f)
  PROVE  ForwardMade(f)["src_dport"] # ""
<1> DEFINE sets == ForwardSettings(f)
<1>1. f.external # ""
  BY FirewallAssumption DEF Forwardable
<1>2. Keyed(sets)
  <2> DEFINE k == "redirect"
  <2>1. k # "rule"
    OBVIOUS
  <2> HIDE DEF k
  <2> QED
    BY <2>1, ForwardBatch DEF Suits
<1> DEFINE k == "src_dport"
           v == f.external
           t == Setting(k, v, "")
<1>3. 5 \in DOMAIN sets /\ sets[5] = t
  BY DEF ForwardSettings
<1>4. t.key = k /\ t.value = v
  BY DEF Setting
<1> HIDE DEF sets, t
<1>5. sets[5].key = "src_dport" /\ sets[5].value = f.external
  BY ONLY <1>3, <1>4
<1>6. sets[5].key \in ForwardOptions
  BY <1>5 DEF ForwardOptions
<1>7. ForwardMade(f)[sets[5].key] = sets[5].value
  BY <1>2, <1>3, <1>6, FilledIn DEF ForwardMade, NewForward, sets
<1> QED
  BY <1>1, <1>5, <1>7

LEMMA ForwardedRow ==
  ASSUME FirewallInv, lines = <<>>, NEW f, Forwardable(f)
  PROVE  <<AnswerRow(RuleId, Of(ForwardFile(f), RuleId))>>
           = RowsIn(conf, ForwardFile(f), ForwardLog(f))
<1> DEFINE g == ForwardFile(f)
<1>1. Suits(ForwardSettings(f), "redirect")
      /\ NewForward(f) \subseteq InBatch(ForwardSettings(f))
  <2>1. Suits(ForwardSettings(f), "redirect")
    BY ForwardBatch
  <2> QED
    BY <2>1, EditsAre DEF NewForward
<1>2. IsLog(ForwardSettings(f))
  BY <1>1 DEF Suits, Keyed
<1>3. NewEntryLog(ForwardLog(f), RuleId)
  BY <1>1, <1>2, LoggedIsNew DEF ForwardLog
<1>4. /\ RuleId \in Ids(g) /\ RuleId \notin Ids(conf)
      /\ Of(g, RuleId).kind = "redirect" /\ WellFormed(g)
      /\ Of(g, RuleId).opt["src_dport"] # ""
  BY ForwardFileIs, ForwardHasPort DEF Draft, Recorded
<1> HIDE DEF g
<1>5. Of(g, RuleId).kind \in EntryKinds
  BY <1>4 DEF EntryKinds
<1>6. Comes(conf, g, RuleId)
  BY <1>4 DEF Comes
<1>7. RuleId # 0 /\ Of(g, RuleId).id = RuleId /\ RuleId \notin DOMAIN Names
  BY <1>4, SectionAt, RuleIsUnnamed
<1>8. ~Reworded(Of(g, RuleId))
  BY <1>4, <1>7 DEF Reworded, Words, IsBlock, Described
<1>9. RowsIn(conf, g, ForwardLog(f)) = <<NewRow(RuleId, Of(g, RuleId))>>
  BY <1>3, <1>5, <1>6, <1>7, NewEntryRows DEF IsSchedule
<1> QED
  BY <1>5, <1>8, <1>9, SameWords DEF AnswerRow, NewRow, g

\* One line is the first of its key.
LEMMA SingleRow ==
  ASSUME NEW c, NEW v, NEW e, NEW r, r = RowIn(c, v, <<e>>, e), r # NoRow,
         ~IsSchedule(e.id)
  PROVE  RowsIn(c, v, <<e>>) = <<r>>
<1> DEFINE l   == <<e>>
           row == RowsMade(c, v, l)
<1>1. DOMAIN l = {1} /\ l[1] = e
  BY LogOfOne, Zenon
<1>2. l = <<e>>
  OBVIOUS
<1> HIDE DEF l
<1>3. row[1] = r
  BY <1>1, <1>2, PlainRow
<1> HIDE DEF row
<1>4. Bar(<<e>>, row) = <<row[1]>>
  BY <1>3, BarOfOne
<1> QED
  BY <1>3, <1>4, RowsAre DEF row, l

\* A line on an empty draft.
LEMMA LoneLine ==
  ASSUME lines = <<>>, NEW id \in Ids(conf), NEW moves,
         NoneReworded(Append(lines, Line(id, "", moves)))
  PROVE  ~Reworded(Of(conf, id)) /\ Line(id, "", moves).id = id
<1> DEFINE e == Line(id, "", moves)
           l == <<e>>
<1>1. e.id = id
  BY DEF Line
<1>2. Append(lines, e) = l
  BY ONLY lines = <<>>
<1> HIDE DEF e
<1>3. DOMAIN l = {1} /\ l[1] = e
  BY LogOfOne, Zenon
<1> HIDE DEF l
<1> QED
  BY <1>1, <1>2, <1>3 DEF NoneReworded, e

LEMMA RemovedRow ==
  ASSUME FirewallInv, lines = <<>>, NEW id \in Ids(view),
         Of(view, id).kind \in EntryKinds,
         NoneReworded(Append(lines, Line(id, "", FALSE)))
  PROVE  <<Row(id, Phrase(Of(view, id)), Described(Of(view, id)), <<>>, <<>>)>>
           = RowsIn(conf, UciDelete(view, id), Append(lines, Line(id, "", FALSE)))
<1> DEFINE e == Line(id, "", FALSE)
           g == UciDelete(view, id)
<1>1. view = conf /\ WellFormed(view)
  BY DEF FirewallInv, Draft, Recorded
<1>2. Ids(g) = Ids(view) \ {id} /\ id # 0 /\ Of(view, id).id = id
  BY <1>1, DeletedFile, SectionAt
<1>3. ~Reworded(Of(conf, id)) /\ Line(id, "", FALSE).id = id
  BY <1>1, LoneLine
<1>4. Goes(conf, g, id) /\ IsSet(e, id, "")
  BY <1>1, <1>2 DEF Goes, IsSet, Line
<1>5. Append(lines, e) = <<e>>
  BY ONLY lines = <<>>
<1>6. e.id = id
  BY <1>3
<1> HIDE DEF e, g
<1>7. RowIn(conf, g, <<e>>, e) = GoneRow(id, Of(conf, id))
  BY <1>4, RowOfGone
<1>8. GoneRow(id, Of(conf, id)) # NoRow
  BY <1>2, RowIsOne DEF GoneRow
<1>9. /\ Phrase(Of(conf, id)) = Says(Of(conf, id)) /\ ~IsSchedule(id)
      /\ Described(Of(conf, id)) = Entry(Of(conf, id), Words)
  BY <1>1, <1>2, <1>3, SameWords
<1>10. RowsIn(conf, g, <<e>>) = <<GoneRow(id, Of(conf, id))>>
  BY <1>6, <1>7, <1>8, <1>9, SingleRow
<1> QED
  BY <1>1, <1>5, <1>10, <1>9 DEF GoneRow, e, g

LEMMA MovedRow ==
  ASSUME FirewallInv, lines = <<>>, NEW id \in RuleIds(view),
         NEW before \in (RuleIds(view) \ {id}) \cup {0},
         MoveLand(id, before) # MoveAt(id), NoneReworded(MoveLog(id))
  PROVE  <<Row(id, <<"position">>, <<"place", MoveAt(id) + 1>>,
               <<"place", MoveLand(id, before) + 1>>, Subject(Of(view, id), Described))>>
           = RowsIn(conf, MoveFile(id, before), MoveLog(id))
<1> DEFINE e == Line(id, "", TRUE)
           g == MoveFile(id, before)
<1>1. view = conf /\ WellFormed(view) /\ id \in Ids(view) /\ id # 0
  BY RulesAreSections DEF FirewallInv, Draft
<1>2. /\ WellFormed(g) /\ RuleIds(g) = RuleIds(view)
  BY MovedBehind
<1>3. /\ MoveLand(id, before) \in Nat
      /\ Pos(RulesOf(g), id) = MoveLand(id, before) + 1
  BY LandsThere
<1>4. Append(lines, e) = <<e>> /\ IsMove(e, id)
  BY DEF IsMove, Line
<1>5. Pos(RulesOf(view), id) \in Nat \ {0}
  <2>1. WellFormed(RulesOf(view)) /\ Ids(RulesOf(view)) = RuleIds(view)
    BY <1>1, RulesAre
  <2>2. Pos(RulesOf(view), id) \in 1 .. Len(RulesOf(view)) /\ Len(RulesOf(view)) \in Nat
    BY <2>1, SectionAt
  <2> QED
    BY <2>2
<1> HIDE DEF e, g
<1>6. Place(conf, id) = MoveAt(id) + 1 /\ Place(g, id) = MoveLand(id, before) + 1
  BY <1>1, <1>2, <1>3, <1>5, PlaceIs DEF RulesOf, RuleIds, IdsOfKind, MoveAt
<1>7. Place(conf, id) # 0 /\ Place(g, id) # 0 /\ Place(conf, id) # Place(g, id)
  BY <1>3, <1>5, <1>6 DEF MoveAt
<1> DEFINE r == Row(id, <<"position">>, <<"place", Place(conf, id)>>,
                    <<"place", Place(g, id)>>, Subject(Of(conf, id), Words))
<1>8. RowIn(conf, g, <<e>>, e) = r
  BY <1>4, <1>7, RowOfMove
<1>9. r # NoRow
  BY <1>1, RowIsOne
<1> HIDE DEF r
<1>10. ~Reworded(Of(conf, id)) /\ e.id = id
  BY <1>1, LoneLine DEF MoveLog, e
<1>11. Subject(Of(conf, id), Words) = Subject(Of(view, id), Described) /\ ~IsSchedule(id)
  <2>1. Of(conf, id).kind \in EntryKinds /\ Of(conf, id).id = id
    BY <1>1, SectionAt DEF RuleIds, EntryKinds
  <2> QED
    BY ONLY <1>1, <1>10, <2>1, SameWords
<1>12. RowsIn(conf, g, <<e>>) = <<r>>
  BY <1>8, <1>9, <1>10, <1>11, SingleRow
<1> QED
  BY <1>1, <1>4, <1>6, <1>12, <1>11 DEF MoveLog, e, g, r

\* What is accepted is what the apply bar then makes of the draft.
LEMMA AcceptedSays ==
  ASSUME NEW file, NEW log, NEW rows, Accepted(file, log, rows), conf' = conf,
         rows = RowsIn(conf, file, log)
  PROVE  said' = Rows'
BY DEF Accepted, Rows, RowsIn

CountInv == faults \in Nat

LEMMA DroppedCounts ==
  ASSUME CountInv, NEW cuts, Dropped(cuts)
  PROVE  faults' # faults
BY DEF Dropped, CountInv

LEMMA CountKept == CountInv /\ [FirewallNext]_firewallVars => CountInv'
<1> SUFFICES ASSUME CountInv, [FirewallNext]_firewallVars PROVE CountInv'
  OBVIOUS
<1>1. ASSUME NEW file, NEW log, NEW rows, Accepted(file, log, rows) PROVE CountInv'
  BY <1>1 DEF Accepted, CountInv
<1>2. ASSUME NEW cuts, Dropped(cuts) PROVE CountInv'
  BY <1>2 DEF Dropped, CountInv
<1>3. ASSUME NEW b, NEW before, AddRule(b, before) PROVE CountInv'
  BY <1>1, <1>2, <1>3, AddRuleIs
<1>4. ASSUME NEW id, NEW b, EditRule(id, b) PROVE CountInv'
  <2>1. faults' = faults + 1 => CountInv'
    BY DEF CountInv
  <2> QED
    BY <1>1, <1>2, <1>4, <2>1, EditRuleIs
<1>5. ASSUME NEW id, RemoveRule(id) \/ RemoveForward(id) PROVE CountInv'
  BY <1>1, <1>5 DEF RemoveRule, RemoveForward
<1>6. ASSUME NEW id, NEW before, MoveRule(id, before) PROVE CountInv'
  BY <1>1, <1>2, <1>6, MoveRuleIs
<1>7. ASSUME NEW f, AddForward(f) PROVE CountInv'
  BY <1>1, <1>2, <1>7, AddForwardIs
<1>8. ASSUME NEW f, NEW id, EditForward(id, f) PROVE CountInv'
  BY <1>1, <1>2, <1>8, EditForwardIs
<1>9. CASE DiscardStaged \/ Commit \/ UNCHANGED firewallVars
  BY <1>9 DEF DiscardStaged, Commit, firewallVars, CountInv
<1> QED
  BY <1>3, <1>4, <1>5, <1>6, <1>7, <1>8, <1>9 DEF FirewallNext

\* An answer on an empty draft, action by action.
LEMMA StagingSays ==
  ASSUME FirewallInv, CountInv, [FirewallNext]_firewallVars,
         lines = <<>>, faults' = faults, edits' # edits, NoneReworded(lines')
  PROVE  said' = Rows'
<1>1. ASSUME NEW b \in Bodies, NEW before \in RuleIds(view) \cup {0}, AddRule(b, before)
      PROVE  said' = Rows'
  <2>1. /\ conf' = conf /\ Normal(b)
        /\ \/ Accepted(RuleFile(b, before), RuleLog(b, before),
                       <<AnswerRow(RuleId, Of(RuleFile(b, before), RuleId))>>)
           \/ \E cuts : Dropped(cuts)
    BY <1>1, AddRuleIs DEF Counted, AnswerRow
  <2> QED
    BY <2>1, AddedRow, AcceptedSays, DroppedCounts
<1>2. ASSUME NEW id \in RuleIds(view), NEW b \in Bodies, EditRule(id, b)
      PROVE  said' = Rows'
  <2>1. conf' = conf /\ (faults' = faults + 1 => faults' # faults)
    BY <1>2, EditRuleIs DEF Counted, CountInv
  <2>2. \/ Accepted(EditFile(id, b, {}), EditLog(id, b, {}), EditRows(id, b))
        \/ \E cuts : Dropped(cuts)
    BY <1>2, <2>1, EditRuleIs
  <2> QED
    BY <2>1, <2>2, EditRowsAre, AcceptedSays, DroppedCounts DEF Accepted
<1>3. ASSUME NEW id \in Ids(view),
             (id \in RuleIds(view) /\ RemoveRule(id)) \/ RemoveForward(id)
      PROVE  said' = Rows'
  <2>1. /\ conf' = conf
        /\ Accepted(UciDelete(view, id), Append(lines, Line(id, "", FALSE)),
                    <<Row(id, Phrase(Of(view, id)), Described(Of(view, id)), <<>>, <<>>)>>)
        /\ Of(view, id).kind \in EntryKinds
    BY <1>3 DEF RemoveRule, RemoveForward, IsForward, Counted, RuleIds, EntryKinds
  <2> QED
    BY <2>1, RemovedRow, AcceptedSays DEF Accepted
<1>4. ASSUME NEW id \in RuleIds(view), NEW before, MoveRule(id, before)
      PROVE  said' = Rows'
  <2> DEFINE rows == <<Row(id, <<"position">>, <<"place", MoveAt(id) + 1>>,
                           <<"place", MoveLand(id, before) + 1>>,
                           Subject(Of(view, id), Described))>>
  <2>1. /\ conf' = conf /\ before \in (RuleIds(view) \ {id}) \cup {0}
        /\ MoveLand(id, before) # MoveAt(id)
        /\ \/ Accepted(MoveFile(id, before), MoveLog(id), rows)
           \/ \E cuts : Dropped(cuts)
    BY <1>4, MoveRuleIs DEF Counted
  <2>2. NoneReworded(MoveLog(id)) => rows = RowsIn(conf, MoveFile(id, before), MoveLog(id))
    BY <2>1, MovedRow
  <2> HIDE DEF rows
  <2> QED
    BY <2>1, <2>2, AcceptedSays, DroppedCounts DEF Accepted
<1>5. ASSUME NEW f \in Forwards, AddForward(f) PROVE said' = Rows'
  <2>1. /\ conf' = conf
        /\ \/ Accepted(ForwardFile(f), ForwardLog(f),
                       <<AnswerRow(RuleId, Of(ForwardFile(f), RuleId))>>)
           \/ \E cuts : Dropped(cuts)
        /\ Forwardable(f)
    BY <1>5, AddForwardIs DEF Counted, AnswerRow
  <2> QED
    BY <2>1, ForwardedRow, AcceptedSays, DroppedCounts
<1>6. ASSUME NEW f \in Forwards, NEW id \in Ids(view), EditForward(id, f)
      PROVE  said' = Rows'
  <2>1. /\ conf' = conf /\ Of(view, id).kind = "redirect"
        /\ \/ Accepted(ChangedFile(id, f), ChangedLog(id, f), ChangedRows(id, f))
           \/ \E cuts : Dropped(cuts)
    BY <1>6, EditForwardIs DEF Counted
  <2>2. NoneReworded(ChangedLog(id, f))
        => ChangedRows(id, f) = RowsIn(conf, ChangedFile(id, f), ChangedLog(id, f))
    BY <2>1, ChangedRowsAre
  <2> QED
    BY <2>1, <2>2, AcceptedSays, DroppedCounts DEF Accepted
<1>7. CASE DiscardStaged \/ Commit \/ UNCHANGED firewallVars
  BY <1>7 DEF DiscardStaged, Commit, firewallVars
<1>8. RuleIds(view) \subseteq Ids(view)
  BY DEF RuleIds
<1> QED
  BY <1>1, <1>2, <1>3, <1>4, <1>5, <1>6, <1>7, <1>8 DEF FirewallNext

\* AnswerIsTheBar: a staging on an empty draft answers with exactly the rows the
\* apply bar makes of the draft after a reload, for every file and request, but
\* for an edit, a move or a removal of what the bar has other words for: the
\* device screen's sections, a forward without a port on the router, and a rule
\* for every protocol that names no zone and no family.
THEOREM AnswerIsTheBar == FirewallSpec => ReloadSaysTheSame
<1>1. FirewallInit => CountInv
  BY DEF FirewallInit, CountInv
<1>2. FirewallInv /\ CountInv /\ [FirewallNext]_firewallVars
      => [/\ lines = <<>> /\ faults' = faults /\ edits' # edits
          /\ NoneReworded(lines')
          => said' = Rows']_firewallVars
  BY StagingSays
<1> QED
  BY <1>1, <1>2, CountKept, DraftIsRecorded, PTL DEF FirewallSpec, ReloadSaysTheSame

-----------------------------------------------------------------------------
(* PlacedRuleActs: ruleCovers says no only when there is a packet between.  *)

\* The parts of a match.
FromFits(r, z)   == r.from \in {"*", z}
ToFits(r, z)     == IF r.to = "*" THEN z # "" ELSE z = r.to
ProtoFits(r, q)  == "all" \in r.protos \/ q \in r.protos
PortFits(r, q, n) == r.ports = "" \/ (q \in {"tcp", "udp"} /\ n \in PortsOf[r.ports])
FamilyFits(r, f) == r.family \in {"", f}

Protos == {"tcp", "udp", "icmp", "other"}
Ports  == {0} \cup UNION {PortsOf[l] : l \in DOMAIN PortsOf}

\* A rule as the panel reads it.
IsRule(r) ==
  /\ r.protos = {"tcp", "udp"} \/ \E x : r.protos = {x}
  /\ r.ports \in DOMAIN PortsOf

LEMMA TwoZones ==
  \A x : \E z \in Zones : z # x /\ z # "" /\ z # "*"
BY FirewallAssumption

LEMMA FromApart ==
  ASSUME NEW e, NEW r, Normal(r)
  PROVE  /\ \E z \in Zones : FromFits(r, z)
         /\ e.from \notin {r.from, "*"} => \E z \in Zones : FromFits(r, z) /\ ~FromFits(e, z)
<1>1. r.from \in Zones \cup {"*"}
  BY DEF Normal
<1>2. CASE r.from \in Zones
  BY <1>2 DEF FromFits
<1>3. CASE r.from = "*"
  <2>1. PICK z \in Zones : z # e.from /\ z # "" /\ z # "*"
    BY TwoZones
  <2> QED
    BY <1>3, <2>1 DEF FromFits
<1> QED
  BY <1>1, <1>2, <1>3

LEMMA ToApart ==
  ASSUME NEW e, NEW r, Normal(r)
  PROVE  /\ \E t \in Zones \cup {""} : ToFits(r, t)
         /\ ~(e.to = r.to \/ (e.to = "*" /\ r.to # ""))
            => \E t \in Zones \cup {""} : ToFits(r, t) /\ ~ToFits(e, t)
<1>1. r.to \in Zones \cup {"*", ""}
  BY DEF Normal
<1>2. CASE r.to \in Zones
  <2>1. r.to # "" /\ r.to # "*"
    BY <1>2, FirewallAssumption
  <2> QED
    BY <1>2, <2>1 DEF ToFits
<1>3. CASE r.to = "*"
  <2>1. PICK z \in Zones : z # e.to /\ z # "" /\ z # "*"
    BY TwoZones
  <2> QED
    BY <1>3, <2>1 DEF ToFits
<1>4. CASE r.to = ""
  BY <1>4 DEF ToFits
<1> QED
  BY <1>1, <1>2, <1>3, <1>4

LEMMA FamilyApart ==
  ASSUME NEW e, NEW r, Normal(r)
  PROVE  /\ \E f \in {"ipv4", "ipv6"} : FamilyFits(r, f)
         /\ e.family \notin {"", r.family}
            => \E f \in {"ipv4", "ipv6"} : FamilyFits(r, f) /\ ~FamilyFits(e, f)
<1>1. r.family \in {"", "ipv4", "ipv6"}
  BY DEF Normal
<1> QED
  BY <1>1 DEF FamilyFits

\* A rule of the panel's has a protocol, and ports only with one that has them.
LEMMA ProtoOf ==
  ASSUME NEW r, Normal(r), Statable(r), IsRule(r)
  PROVE  /\ \E q \in Protos : ProtoFits(r, q)
         /\ r.ports # "" => /\ \E q \in {"tcp", "udp"} : q \in r.protos
                            /\ \E n \in Ports : n \in PortsOf[r.ports]
                            /\ r.protos \subseteq {"tcp", "udp"} /\ PortsApply(r.protos)
<1>1. r.protos \subseteq {"tcp", "udp", "icmp", "all"} /\ \E x : x \in r.protos
  BY DEF Statable, RuleProtos, IsRule
<1>2. PICK x : x \in r.protos
  BY <1>1
<1>3. \E q \in Protos : ProtoFits(r, q)
  <2>1. CASE x = "all"
    BY <1>2, <2>1 DEF Protos, ProtoFits
  <2>2. CASE x # "all"
    BY <1>1, <1>2, <2>2 DEF Protos, ProtoFits
  <2> QED
    BY <2>1, <2>2
<1>4. ASSUME r.ports # ""
      PROVE  /\ \E q \in {"tcp", "udp"} : q \in r.protos
             /\ \E n \in Ports : n \in PortsOf[r.ports]
             /\ r.protos \subseteq {"tcp", "udp"} /\ PortsApply(r.protos)
  <2>1. PortsApply(r.protos) /\ PortsOf[r.ports] # {}
    BY <1>4 DEF Normal
  <2>2. r.protos \subseteq {"tcp", "udp"}
    BY <2>1 DEF PortsApply
  <2>3. PICK n : n \in PortsOf[r.ports]
    BY <2>1
  <2>4. n \in Ports
    BY <2>3 DEF Ports, IsRule
  <2> QED
    BY <1>2, <2>1, <2>2, <2>3, <2>4
<1> QED
  BY <1>3, <1>4

LEMMA TrafficApart ==
  ASSUME NEW e, NEW r, Normal(r), Statable(r), IsRule(r), IsRule(e)
  PROVE  /\ \E q \in Protos, n \in Ports : ProtoFits(r, q) /\ PortFits(r, q, n)
         /\ ~("all" \in e.protos \/ r.protos \subseteq e.protos)
            => \E q \in Protos, n \in Ports :
                 ProtoFits(r, q) /\ PortFits(r, q, n) /\ ~ProtoFits(e, q)
         /\ ~(\/ e.ports = ""
              \/ /\ r.ports # "" /\ PortsApply(r.protos)
                 /\ PortsOf[r.ports] \subseteq PortsOf[e.ports])
            => \E q \in Protos, n \in Ports :
                 ProtoFits(r, q) /\ PortFits(r, q, n) /\ ~PortFits(e, q, n)
<1>1. 0 \in Ports
  BY DEF Ports
<1>2. \E q \in Protos, n \in Ports : ProtoFits(r, q) /\ PortFits(r, q, n)
  <2>1. CASE r.ports = ""
    BY <1>1, <2>1, ProtoOf DEF PortFits
  <2>2. CASE r.ports # ""
    <3>1. PICK q \in {"tcp", "udp"} : q \in r.protos
      BY <2>2, ProtoOf
    <3>2. PICK n \in Ports : n \in PortsOf[r.ports]
      BY <2>2, ProtoOf
    <3> QED
      BY <3>1, <3>2 DEF Protos, ProtoFits, PortFits
  <2> QED
    BY <2>1, <2>2
<1>3. ASSUME "all" \notin e.protos, ~(r.protos \subseteq e.protos)
      PROVE  \E q \in Protos, n \in Ports :
               ProtoFits(r, q) /\ PortFits(r, q, n) /\ ~ProtoFits(e, q)
  <2>1. PICK x : x \in r.protos /\ x \notin e.protos
    BY <1>3
  <2>2. x \in {"tcp", "udp", "icmp", "all"}
    BY <2>1 DEF Statable, RuleProtos
  <2>3. CASE r.ports # ""
    <3>1. PICK n \in Ports : n \in PortsOf[r.ports]
      BY <2>3, ProtoOf
    <3>2. x \in {"tcp", "udp"}
      BY <2>1, <2>3, ProtoOf
    <3> QED
      BY <1>3, <2>1, <3>1, <3>2 DEF Protos, ProtoFits, PortFits
  <2>4. CASE r.ports = "" /\ x # "all"
    BY <1>1, <1>3, <2>1, <2>2, <2>4 DEF Protos, ProtoFits, PortFits
  <2>5. CASE r.ports = "" /\ x = "all"
    <3>1. \E q \in Protos : q \notin e.protos
      BY DEF IsRule, Protos
    <3> QED
      BY <1>1, <1>3, <2>1, <2>5, <3>1 DEF ProtoFits, PortFits
  <2> QED
    BY <2>3, <2>4, <2>5
<1>4. ASSUME e.ports # "",
             ~(/\ r.ports # "" /\ PortsApply(r.protos)
               /\ PortsOf[r.ports] \subseteq PortsOf[e.ports])
      PROVE  \E q \in Protos, n \in Ports :
               ProtoFits(r, q) /\ PortFits(r, q, n) /\ ~PortFits(e, q, n)
  <2>1. CASE r.ports = ""
    <3>1. 0 \notin PortsOf[e.ports]
      BY FirewallAssumption DEF IsRule
    <3>2. PICK q \in Protos : ProtoFits(r, q)
      BY ProtoOf
    <3> QED
      BY <1>1, <1>4, <2>1, <3>1, <3>2 DEF PortFits
  <2>2. CASE r.ports # ""
    <3>1. PICK n : n \in PortsOf[r.ports] /\ n \notin PortsOf[e.ports]
      BY <1>4, <2>2, ProtoOf
    <3>2. n \in Ports
      BY <3>1 DEF Ports, IsRule
    <3>3. PICK q \in {"tcp", "udp"} : q \in r.protos
      BY <2>2, ProtoOf
    <3> QED
      BY <1>4, <3>1, <3>2, <3>3 DEF Protos, ProtoFits, PortFits
  <2> QED
    BY <2>1, <2>2
<1> QED
  BY <1>2, <1>3, <1>4

\* A rule that does not cover another leaves it a packet.
LEMMA NotCovered ==
  ASSUME NEW e, NEW r, Normal(r), Statable(r), IsRule(r), IsRule(e), ~Covers(e, r)
  PROVE  \E p \in Packets : Matches(r, p) /\ ~Matches(e, p)
<1>1. PICK z \in Zones : FromFits(r, z)
  BY FromApart
<1>2. PICK t \in Zones \cup {""} : ToFits(r, t)
  BY ToApart
<1>3. PICK f \in {"ipv4", "ipv6"} : FamilyFits(r, f)
  BY FamilyApart
<1>4. PICK q \in Protos, n \in Ports : ProtoFits(r, q) /\ PortFits(r, q, n)
  BY TrafficApart
<1>5. \E z1 \in Zones, t1 \in Zones \cup {""}, f1 \in {"ipv4", "ipv6"},
         q1 \in Protos, n1 \in Ports :
        /\ FromFits(r, z1) /\ ToFits(r, t1) /\ ProtoFits(r, q1)
        /\ PortFits(r, q1, n1) /\ FamilyFits(r, f1)
        /\ ~(/\ FromFits(e, z1) /\ ToFits(e, t1) /\ ProtoFits(e, q1)
             /\ PortFits(e, q1, n1) /\ FamilyFits(e, f1))
  <2>1. CASE e.from \notin {r.from, "*"}
    <3>1. PICK y \in Zones : FromFits(r, y) /\ ~FromFits(e, y)
      BY <2>1, FromApart
    <3> QED
      BY <1>2, <1>3, <1>4, <3>1
  <2>2. CASE ~(e.to = r.to \/ (e.to = "*" /\ r.to # ""))
    <3>1. PICK y \in Zones \cup {""} : ToFits(r, y) /\ ~ToFits(e, y)
      BY <2>2, ToApart
    <3> QED
      BY <1>1, <1>3, <1>4, <3>1
  <2>3. CASE e.family \notin {"", r.family}
    <3>1. PICK y \in {"ipv4", "ipv6"} : FamilyFits(r, y) /\ ~FamilyFits(e, y)
      BY <2>3, FamilyApart
    <3> QED
      BY <1>1, <1>2, <1>4, <3>1
  <2>4. CASE ~("all" \in e.protos \/ r.protos \subseteq e.protos)
    <3>1. PICK q1 \in Protos, n1 \in Ports :
            ProtoFits(r, q1) /\ PortFits(r, q1, n1) /\ ~ProtoFits(e, q1)
      BY <2>4, TrafficApart
    <3> QED
      BY <1>1, <1>2, <1>3, <3>1
  <2>5. CASE ~(\/ e.ports = ""
               \/ /\ r.ports # "" /\ PortsApply(r.protos)
                  /\ PortsOf[r.ports] \subseteq PortsOf[e.ports])
    <3>1. PICK q1 \in Protos, n1 \in Ports :
            ProtoFits(r, q1) /\ PortFits(r, q1, n1) /\ ~PortFits(e, q1, n1)
      BY <2>5, TrafficApart
    <3> QED
      BY <1>1, <1>2, <1>3, <3>1
  <2> QED
    BY <2>1, <2>2, <2>3, <2>4, <2>5 DEF Covers
<1>6. PICK z1 \in Zones, t1 \in Zones \cup {""}, f1 \in {"ipv4", "ipv6"},
           q1 \in Protos, n1 \in Ports :
        /\ FromFits(r, z1) /\ ToFits(r, t1) /\ ProtoFits(r, q1)
        /\ PortFits(r, q1, n1) /\ FamilyFits(r, f1)
        /\ ~(/\ FromFits(e, z1) /\ ToFits(e, t1) /\ ProtoFits(e, q1)
             /\ PortFits(e, q1, n1) /\ FamilyFits(e, f1))
  BY <1>5
<1> DEFINE p == [from |-> z1, to |-> t1, proto |-> q1, port |-> n1, family |-> f1]
<1>7. p \in Packets
  BY DEF Packets, Protos, Ports
<1>8. p.from = z1 /\ p.to = t1 /\ p.proto = q1 /\ p.port = n1 /\ p.family = f1
  OBVIOUS
<1> HIDE DEF p
<1>9. Matches(r, p)
  BY <1>6, <1>8 DEF Matches, FromFits, ToFits, ProtoFits, PortFits, FamilyFits
<1>10. ~Matches(e, p)
  BY <1>6, <1>8 DEF Matches, FromFits, ToFits, ProtoFits, PortFits, FamilyFits
<1> QED
  BY <1>7, <1>9, <1>10
\* A rule that is certain to decide what it matches the other way.
Silences(e, r) == Decides(e) /\ (e.action = "accept") # (r.action = "accept")

\* No single rule above a place takes all of the traffic of the rule on it.
Heard(r, e) == Silences(e, r) => \E p \in Packets : Matches(r, p) /\ ~Matches(e, p)

\* The conclusion of PlacedRuleActs.
HeardOn(rules, id) ==
  LET k == Pos(rules, id)
      r == RuleOf(rules[k])
  IN  \A i \in 1 .. k - 1 :
        LET e == RuleOf(rules[i])
        IN  Decides(e) /\ (e.action = "accept") # (r.action = "accept")
            => \E p \in Packets : Matches(r, p) /\ ~Matches(e, p)

\* Not switched off.
On(b) == b.enabled

LEMMA NotShadowed ==
  ASSUME NEW rules, NEW at, NEW r, ~ShadowedBy(rules, at, r), On(r),
         NEW i \in 1 .. at, Silences(RuleOf(rules[i]), r)
  PROVE  ~Covers(RuleOf(rules[i]), r)
BY Zenon DEF ShadowedBy, Silences, Decides, On

LEMMA HeardOnIs ==
  ASSUME NEW v, WellFormed(v), NEW id \in RuleIds(v),
         \A x \in InFront(RulesOf(v), id) : Heard(RuleOf(Of(v, id)), RuleOf(Of(v, x)))
  PROVE  HeardOn(RulesOf(v), id)
<1> DEFINE rules == RulesOf(v)
           k     == Pos(rules, id)
<1>1. /\ WellFormed(rules) /\ Ids(rules) = RuleIds(v)
      /\ \A x \in RuleIds(v) : Of(rules, x) = Of(v, x)
  BY RulesAre
<1>2. k \in 1 .. Len(rules) /\ Len(rules) \in Nat /\ rules[k] = Of(rules, id)
  BY <1>1, SectionAt
<1>3. IsLog(rules) /\ Named(rules)
  BY <1>1 DEF WellFormed
<1>4. DOMAIN rules = 1 .. Len(rules)
  BY ONLY <1>3, LogShape
<1>5. ASSUME NEW i \in 1 .. k - 1
      PROVE  Heard(RuleOf(rules[k]), RuleOf(rules[i]))
  <2>1. i \in DOMAIN rules
    BY <1>2, <1>4, <1>5
  <2> DEFINE x == rules[i].id
  <2>2. x \in Ids(rules) /\ Pos(rules, x) = i /\ Of(rules, x) = rules[i]
    BY <1>3, <2>1, PosIs DEF Ids
  <2>3. x \in InFront(rules, id)
    BY <1>2, <1>5, <2>2 DEF InFront
  <2> QED
    BY <1>1, <1>2, <2>2, <2>3
<1> QED
  BY <1>5, Zenon DEF HeardOn, Heard, Silences

LEMMA ReadRule ==
  ASSUME NEW v, KnownFile(v), NEW x \in RuleIds(v)
  PROVE  IsRule(RuleOf(Of(v, x)))
<1>1. Of(v, x).opt["dest_port"] \in DOMAIN PortsOf
  BY DEF RuleIds, KnownFile, KnownSection
<1>2. ProtosOf(Of(v, x).opt["proto"]) = {"tcp", "udp"}
      \/ \E y : ProtosOf(Of(v, x).opt["proto"]) = {y}
  BY DEF ProtosOf
<1>3. /\ RuleOf(Of(v, x)).ports = Of(v, x).opt["dest_port"]
      /\ RuleOf(Of(v, x)).protos = ProtosOf(Of(v, x).opt["proto"])
  BY DEF RuleOf
<1> QED
  BY <1>1, <1>2, <1>3 DEF IsRule

LEMMA HeardThere ==
  ASSUME NEW v, WellFormed(v), KnownFile(v), NEW id \in RuleIds(v),
         Normal(RuleOf(Of(v, id))), Statable(RuleOf(Of(v, id))),
         \A x \in InFront(RulesOf(v), id) :
           Silences(RuleOf(Of(v, x)), RuleOf(Of(v, id)))
           => ~Covers(RuleOf(Of(v, x)), RuleOf(Of(v, id)))
  PROVE  HeardOn(RulesOf(v), id)
<1> DEFINE r == RuleOf(Of(v, id))
<1>1. Normal(r) /\ Statable(r) /\ IsRule(r)
  BY ReadRule
<1>2. ASSUME NEW x \in InFront(RulesOf(v), id) PROVE Heard(r, RuleOf(Of(v, x)))
  <2>1. x \in RuleIds(v)
    BY <1>2, RulesAre DEF InFront
  <2> DEFINE e == RuleOf(Of(v, x))
  <2>2. IsRule(e) /\ (Silences(e, r) => ~Covers(e, r))
    BY <1>2, <2>1, ReadRule
  <2> HIDE DEF e, r
  <2>3. ~Covers(e, r) => \E p \in Packets : Matches(r, p) /\ ~Matches(e, p)
    BY <1>1, <2>2, NotCovered
  <2>4. Heard(r, e)
    BY <2>2, <2>3, Zenon DEF Heard
  <2> QED
    BY <2>4 DEF e
<1> QED
  BY <1>2, HeardOnIs

-----------------------------------------------------------------------------
(* A new rule is what was asked for.                                        *)

\* The rule the reader makes of it.
FreshRule(b) == RuleOf(Section(RuleId, "rule", FreshOptions(b)))

\* What ruleCovers and the kernel look at.
SameMatch(r, b) ==
  /\ r.from = b.from /\ r.to = b.to /\ r.protos = b.protos /\ r.ports = b.ports
  /\ r.action = b.action /\ r.family = b.family

LEMMA FreshRuleIs ==
  ASSUME NEW b \in Bodies, Normal(b)
  PROVE  /\ SameMatch(FreshRule(b), b) /\ Normal(FreshRule(b)) /\ Statable(FreshRule(b))
         /\ Decides(FreshRule(b)) => On(b)
<1> DEFINE o == FreshOptions(b)
           r == FreshRule(b)
<1>1. /\ o["src"] = b.from /\ o["dest"] = b.to /\ o["proto"] = b.proto
      /\ o["dest_port"] = b.ports /\ o["target"] = b.action
      /\ o["family"] = b.family
  BY FreshIs
<1>2. o["enabled"] = (IF On(b) THEN "" ELSE "0")
  BY FreshIs, Zenon DEF On
<1>3. Section(RuleId, "rule", o).opt = o
  BY SectionFields
<1>4. r = [id |-> Section(RuleId, "rule", o).id, name |-> o["name"],
           enabled |-> o["enabled"] # "0", from |-> o["src"], to |-> o["dest"],
           protos |-> ProtosOf(o["proto"]), ports |-> o["dest_port"],
           action |-> ActionOf(o["target"]),
           family |-> IF o["family"] = "any" THEN "" ELSE o["family"],
           more |-> \/ \E c \in Conditions : o[c] # ""
                    \/ ActionOf(o["target"]) = "other"]
  BY ONLY <1>3, Zenon DEF FreshRule, RuleOf
<1> HIDE DEF o, r
<1>5. /\ r.from = o["src"] /\ r.to = o["dest"] /\ r.protos = ProtosOf(o["proto"])
      /\ r.ports = o["dest_port"] /\ r.action = ActionOf(o["target"])
      /\ r.family = (IF o["family"] = "any" THEN "" ELSE o["family"])
      /\ Decides(r) => o["enabled"] # "0"
  BY <1>4 DEF Decides
<1>6. b.action \in Actions /\ b.action # "" /\ b.family \in {"", "ipv4", "ipv6"}
  BY DEF Normal, Actions
<1>7. b.protos = ProtosOf(b.proto) /\ ProtosOf(b.proto) \subseteq RuleProtos
  BY BodiesAssumption DEF Body
<1>8. SameMatch(r, b)
  BY <1>1, <1>5, <1>6, <1>7 DEF SameMatch, ActionOf
<1>9. Normal(r) /\ Statable(r)
  BY <1>6, <1>7, <1>8 DEF SameMatch, Normal, Statable
<1>10. Decides(r) => On(b)
  BY <1>2, <1>5
<1> QED
  BY <1>8, <1>9, <1>10 DEF r

-----------------------------------------------------------------------------
(* The places of a new rule and of a moved one.                             *)

LEMMA LastPlaces ==
  ASSUME FirewallInv, NEW b \in Bodies
  PROVE  LET g == LastFile(b)
         IN  /\ WellFormed(g) /\ Ids(g) = Ids(view) \cup {RuleId}
             /\ \A x \in Ids(view) : Of(g, x) = Of(view, x) /\ Pos(g, x) = Pos(view, x)
             /\ Pos(g, RuleId) = Len(view) + 1
<1> DEFINE s == Section(RuleId, "rule", NoOptions(RuleOptions))
           a == RuleAdded
           g == LastFile(b)
<1>1. WellFormed(view) /\ IsLog(lines)
  BY DEF FirewallInv, Draft, Recorded
<1>2. RuleId \in Nat \ {0} /\ RuleId \notin Ids(view)
  BY <1>1, NewIdIs DEF RuleId, WellFormed
<1>3. s.id = RuleId /\ s.kind = "rule" /\ s.opt = NoOptions(RuleOptions)
  BY SectionFields
<1>4. Formed(s)
  <2>1. "" \notin RuleOptions
    BY DEF RuleOptions, SetOptions, Conditions
  <2>2. s = Section(s.id, s.kind, s.opt) /\ s.id \in Int \ {0}
    BY <1>2, <1>3
  <2> HIDE DEF s
  <2>3. s.opt = [o \in DOMAIN s.opt |-> s.opt[o]] /\ "" \notin DOMAIN s.opt
    BY <1>3, <2>1 DEF NoOptions
  <2> QED
    BY <2>2, <2>3 DEF Formed
<1>5. a = Append(view, s)
  BY DEF RuleAdded
<1> HIDE DEF s, a
<1>6. /\ Keeps(view, a, RuleId) /\ Ids(a) = Ids(view) \cup {RuleId}
      /\ \A x \in Ids(view) : Pos(a, x) = Pos(view, x)
      /\ Pos(a, RuleId) = Len(view) + 1
  BY <1>1, <1>2, <1>3, <1>4, <1>5, AddedFile
<1>7. WellFormed(a) /\ RuleId \in Ids(a)
      /\ \A x \in Ids(view) : Of(a, x) = Of(view, x)
  BY <1>2, <1>6 DEF Keeps
<1>8. g = Staged(a, RuleId, NewRule(b))
  BY DEF LastFile, a
<1> HIDE DEF g
<1>9. /\ Keeps(a, g, RuleId) /\ Ids(g) = Ids(a)
      /\ \A x \in Ids(a) : Pos(g, x) = Pos(a, x)
  BY <1>7, <1>8, StagedFile
<1>10. /\ WellFormed(g) /\ Ids(g) = Ids(view) \cup {RuleId}
       /\ \A x \in Ids(view) : Of(g, x) = Of(view, x) /\ Pos(g, x) = Pos(view, x)
       /\ Pos(g, RuleId) = Len(view) + 1
  BY <1>2, <1>6, <1>7, <1>9 DEF Keeps
<1> QED
  BY <1>10 DEF g

\* How many rules stand in front of it.
NewAt(before) ==
  IF before = 0 THEN Len(RulesOf(view)) ELSE Pos(RulesOf(view), before) - 1

LEMMA NewBehind ==
  ASSUME FirewallInv, NEW b \in Bodies, NEW before \in RuleIds(view) \cup {0}
  PROVE  LET g == RuleFile(b, before)
         IN  /\ WellFormed(g) /\ RuleId \in RuleIds(g)
             /\ Of(g, RuleId) = Section(RuleId, "rule", FreshOptions(b))
             /\ \A x \in InFront(RulesOf(g), RuleId) :
                  /\ x \in RuleIds(view) /\ Of(g, x) = Of(view, x)
                  /\ Pos(RulesOf(view), x) \in 1 .. NewAt(before)
<1> DEFINE g == RuleFile(b, before)
           w == LastFile(b)
           rules == RulesOf(view)
<1>1. WellFormed(view)
  BY DEF FirewallInv, Draft, Recorded
<1>2. /\ WellFormed(w) /\ Ids(w) = Ids(view) \cup {RuleId}
      /\ \A x \in Ids(view) : Of(w, x) = Of(view, x) /\ Pos(w, x) = Pos(view, x)
      /\ Pos(w, RuleId) = Len(view) + 1
  BY LastPlaces
<1>3. RuleId \notin Ids(view) /\ Of(w, RuleId) = Section(RuleId, "rule", FreshOptions(b))
  BY LastFileIs DEF FreshOptions
<1> HIDE DEF w
<1>4. Of(w, RuleId).kind = "rule"
  BY ONLY <1>3, SectionFields
<1>5. /\ WellFormed(rules) /\ Ids(rules) = RuleIds(view)
      /\ SameOrder(view, rules, RuleIds(view))
  BY <1>1, RulesAre
<1>6. RuleIds(view) \subseteq Ids(view)
  BY DEF RuleIds
<1>7. /\ WellFormed(g) /\ Ids(g) = Ids(w) /\ \A x \in Ids(w) : Of(g, x) = Of(w, x)
      /\ InFront(g, RuleId) \subseteq Ids(view)
      /\ before # 0 => InFront(g, RuleId) \subseteq InFront(view, before)
  <2>1. CASE before = 0
    <3>1. g = w
      BY <2>1 DEF RuleFile, w
    <3>2. InFront(w, RuleId) \subseteq Ids(view)
      <4>1. Pos(w, RuleId) \in Nat
        BY <1>2, SectionAt
      <4> QED
        BY <1>2, <4>1 DEF InFront
    <3> QED
      BY <1>2, <2>1, <3>1, <3>2
  <2>2. CASE before # 0
    <3>1. before \in Ids(view) /\ before # RuleId /\ Pos(view, before) - 1 \in Nat
      BY <1>3, <1>6, <2>2, RulesAreSections
    <3>2. g = UciReorder(w, RuleId, Pos(view, before) - 1)
      BY <2>2 DEF RuleFile, w
    <3>3. RuleId \in Ids(w) /\ before \in Ids(w) \ {RuleId}
      BY <1>2, <3>1
    <3>4. Pos(view, before) \in 1 .. Len(view) /\ Len(view) \in Nat
      BY <1>1, <3>1, SectionAt
    <3>5. Pos(UciDelete(w, RuleId), before)
            = IF Pos(w, before) < Pos(w, RuleId) THEN Pos(w, before)
              ELSE Pos(w, before) - 1
      BY <1>2, <3>3, DeletedFile
    <3>6. Pos(UciDelete(w, RuleId), before) = Pos(view, before)
      BY <1>2, <3>1, <3>4, <3>5
    <3>7. InFront(g, RuleId) = InFront(w, before) \ {RuleId}
      BY <1>2, <3>1, <3>2, <3>3, <3>6, MovedInFrontOf
    <3>8. InFront(w, before) \ {RuleId} \subseteq InFront(view, before)
      BY <1>2, <3>1 DEF InFront
    <3>9. /\ WellFormed(g) /\ Ids(g) = Ids(w) /\ \A x \in Ids(w) : Of(g, x) = Of(w, x)
      BY <1>2, <3>1, <3>2, <3>3, MovedRules
    <3> HIDE DEF g
    <3> QED
      BY <2>2, <3>7, <3>8, <3>9 DEF InFront
  <2> QED
    BY <2>1, <2>2
<1> HIDE DEF g
<1>8. RuleId \in Ids(g) /\ Of(g, RuleId) = Of(w, RuleId)
  BY <1>2, <1>7
<1>9. RuleId \in RuleIds(g)
  BY <1>4, <1>8 DEF RuleIds
<1>10. ASSUME NEW x \in InFront(RulesOf(g), RuleId)
       PROVE  /\ x \in RuleIds(view) /\ Of(g, x) = Of(view, x)
              /\ Pos(rules, x) \in 1 .. NewAt(before)
  <2>1. x \in InFront(g, RuleId) /\ x \in RuleIds(g)
    BY <1>7, <1>9, <1>10, RulesInFront
  <2>2. x \in Ids(view) /\ Of(g, x) = Of(view, x)
    BY <1>2, <1>7, <2>1
  <2>3. x \in RuleIds(view)
    BY <2>1, <2>2 DEF RuleIds
  <2>4. Pos(rules, x) \in 1 .. Len(rules) /\ Len(rules) \in Nat
    BY <1>5, <2>3, SectionAt
  <2>5. CASE before = 0
    BY <2>2, <2>3, <2>4, <2>5 DEF NewAt
  <2>6. CASE before # 0
    <3>1. before \in RuleIds(view)
      BY <2>6
    <3>2. Pos(view, x) < Pos(view, before)
      BY <1>7, <2>1, <2>6 DEF InFront
    <3>3. Pos(rules, x) < Pos(rules, before)
      BY <1>5, <2>3, <3>1, <3>2 DEF SameOrder
    <3>4. Pos(rules, before) \in Nat
      BY <1>5, <3>1, SectionAt
    <3>5. NewAt(before) = Pos(rules, before) - 1
      BY <2>6 DEF NewAt
    <3> HIDE DEF rules
    <3> QED
      BY <2>2, <2>3, <2>4, <3>3, <3>4, <3>5
  <2> QED
    BY <2>5, <2>6
<1> QED
  BY <1>3, <1>7, <1>8, <1>9, <1>10 DEF g, w
LEMMA AddHeard ==
  ASSUME FirewallInv, NEW b \in Bodies, NEW before \in RuleIds(view) \cup {0}, Normal(b),
         ~ShadowedBy(RulesOf(view), NewAt(before), b),
         Decides(RuleOf(Of(RuleFile(b, before), RuleId)))
  PROVE  HeardOn(RulesOf(RuleFile(b, before)), RuleId)
<1> DEFINE g == RuleFile(b, before)
           r == FreshRule(b)
           rules == RulesOf(view)
<1>1. /\ WellFormed(g) /\ RuleId \in RuleIds(g)
      /\ Of(g, RuleId) = Section(RuleId, "rule", FreshOptions(b))
      /\ \A x \in InFront(RulesOf(g), RuleId) :
           /\ x \in RuleIds(view) /\ Of(g, x) = Of(view, x)
           /\ Pos(rules, x) \in 1 .. NewAt(before)
  BY NewBehind
<1>2. KnownFile(g)
  BY RuleFileIs DEF Draft
<1>3. RuleOf(Of(g, RuleId)) = r
  BY <1>1 DEF FreshRule
<1>4. /\ SameMatch(r, b) /\ Normal(r) /\ Statable(r) /\ On(b)
  BY <1>3, FreshRuleIs
<1>5. \A x \in RuleIds(view) : rules[Pos(rules, x)] = Of(view, x)
  BY RulesAre DEF FirewallInv, Draft, Recorded, Of
<1> HIDE DEF g, r, rules
<1>6. ASSUME NEW x \in InFront(RulesOf(g), RuleId), Silences(RuleOf(Of(g, x)), r)
      PROVE  ~Covers(RuleOf(Of(g, x)), r)
  <2> DEFINE i == Pos(rules, x)
             e == RuleOf(Of(g, x))
  <2>1. i \in 1 .. NewAt(before) /\ RuleOf(rules[i]) = e
    BY <1>1, <1>5, <1>6
  <2> HIDE DEF i, e
  <2>2. Silences(e, b)
    BY <1>4, <1>6, Zenon DEF Silences, SameMatch, e
  <2>3. ~ShadowedBy(rules, NewAt(before), b)
    BY DEF rules
  <2>4. ~Covers(e, b)
    BY <1>4, <2>1, <2>2, <2>3, NotShadowed
  <2>5. ~Covers(e, r)
    BY <1>4, <2>4 DEF Covers, SameMatch
  <2> QED
    BY <2>5 DEF e
<1>7. HeardOn(RulesOf(g), RuleId)
  BY <1>1, <1>2, <1>3, <1>4, <1>6, HeardThere
<1> QED
  BY <1>7 DEF g

LEMMA MoveHeard ==
  ASSUME FirewallInv, NEW id \in RuleIds(view),
         NEW before \in (RuleIds(view) \ {id}) \cup {0},
         Normal(RuleOf(Of(view, id))), Statable(RuleOf(Of(view, id))),
         Decides(RuleOf(Of(view, id))),
         ~ShadowedBy(UciDelete(RulesOf(view), id), MoveLand(id, before),
                     RuleOf(Of(view, id)))
  PROVE  HeardOn(RulesOf(MoveFile(id, before)), id)
<1> DEFINE g     == MoveFile(id, before)
           r     == RuleOf(Of(view, id))
           rules == RulesOf(view)
           rest  == UciDelete(rules, id)
           land  == MoveLand(id, before)
<1>1. WellFormed(view) /\ KnownFile(view) /\ RuleIds(view) \subseteq Ids(view)
  BY DEF FirewallInv, Draft, Recorded, RuleIds
<1>2. /\ WellFormed(g) /\ Ids(g) = Ids(view) /\ RuleIds(g) = RuleIds(view)
      /\ \A x \in Ids(view) : Of(g, x) = Of(view, x)
      /\ InFront(RulesOf(g), id)
           = (IF before = 0 THEN RuleIds(view) ELSE InFront(rules, before)) \ {id}
  BY MovedBehind
<1>3. KnownFile(g)
  BY <1>1, <1>2 DEF KnownFile
<1>4. /\ WellFormed(rules) /\ Ids(rules) = RuleIds(view)
      /\ \A x \in RuleIds(view) : Of(rules, x) = Of(view, x)
  BY <1>1, RulesAre
<1>5. land = IF before = 0 THEN Len(rest)
             ELSE IF Pos(rules, before) - 1 > Pos(rules, id) - 1
                    THEN Pos(rules, before) - 1 - 1 ELSE Pos(rules, before) - 1
  BY DEF MoveLand, MoveAt
<1>6. ~ShadowedBy(rest, land, r) /\ Normal(r) /\ Statable(r) /\ On(r)
  BY DEF Decides, On
<1> HIDE DEF g, r, rules, land
<1>7. /\ WellFormed(rest) /\ Ids(rest) = RuleIds(view) \ {id}
      /\ \A x \in RuleIds(view) \ {id} :
           /\ Of(rest, x) = Of(view, x)
           /\ Pos(rest, x) = IF Pos(rules, x) < Pos(rules, id) THEN Pos(rules, x)
                             ELSE Pos(rules, x) - 1
  BY <1>4, DeletedFile DEF Keeps
<1> HIDE DEF rest
<1>8. ASSUME NEW x \in InFront(RulesOf(g), id), Silences(RuleOf(Of(g, x)), r)
      PROVE  ~Covers(RuleOf(Of(g, x)), r)
  <2>1. x \in RuleIds(view) \ {id}
    BY <1>2, <1>4, <1>8 DEF InFront
  <2>2. Pos(rest, x) \in 1 .. Len(rest) /\ Len(rest) \in Nat
    BY <1>7, <2>1, SectionAt
  <2>3. Pos(rest, x) \in 1 .. land
    <3>1. CASE before = 0
      BY <1>5, <2>2, <3>1
    <3>2. CASE before # 0
      <4>1. before \in RuleIds(view) \ {id} /\ Pos(rules, x) < Pos(rules, before)
        BY <1>2, <1>8, <3>2 DEF InFront
      <4>2. Pos(rules, x) \in Nat /\ Pos(rules, before) \in Nat /\ Pos(rules, id) \in Nat
        BY <1>4, <2>1, <4>1, SectionAt
      <4>3. Pos(rules, before) # Pos(rules, id) /\ Pos(rules, x) # Pos(rules, id)
        BY <1>4, <2>1, <4>1, PosDiffer
      <4>4. land = IF Pos(rules, before) - 1 > Pos(rules, id) - 1
                     THEN Pos(rules, before) - 1 - 1 ELSE Pos(rules, before) - 1
        BY <1>5, <3>2
      <4>5. Pos(rest, x) = IF Pos(rules, x) < Pos(rules, id) THEN Pos(rules, x)
                           ELSE Pos(rules, x) - 1
        BY <1>7, <2>1
      <4> QED
        BY <2>2, <4>1, <4>2, <4>3, <4>4, <4>5
    <3> QED
      BY <3>1, <3>2
  <2>4. RuleOf(rest[Pos(rest, x)]) = RuleOf(Of(g, x))
    BY <1>1, <1>2, <1>7, <2>1 DEF Of
  <2> DEFINE i == Pos(rest, x)
             e == RuleOf(Of(g, x))
  <2>5. i \in 1 .. land /\ RuleOf(rest[i]) = e /\ Silences(e, r)
    BY <1>8, <2>3, <2>4
  <2> HIDE DEF i, e
  <2>6. ~Covers(e, r)
    BY <1>6, <2>5, NotShadowed
  <2> QED
    BY <2>6 DEF e
<1>9. id \in RuleIds(g) /\ RuleOf(Of(g, id)) = r
  BY <1>1, <1>2 DEF r
<1>10. HeardOn(RulesOf(g), id)
  BY <1>2, <1>3, <1>6, <1>8, <1>9, HeardThere
<1> QED
  BY <1>10 DEF g

-----------------------------------------------------------------------------
(* The last line of a draft is about what was staged last.                  *)

\* It moves a section.
MovesLast(l) == l[Len(l)].reorder

LEMMA LastLineOf ==
  ASSUME NEW l, IsLog(l), NEW m, NEW id, Longer(l, m, id), Len(m) > Len(l)
  PROVE  m[Len(m)].id = id /\ Len(m) \in DOMAIN m /\ Len(m) \notin DOMAIN l
<1>1. IsLog(m)
  BY DEF Longer
<1>2. Len(m) \in Nat /\ DOMAIN m = 1 .. Len(m)
  BY ONLY <1>1, LogShape
<1>3. Len(l) \in Nat /\ DOMAIN l = 1 .. Len(l)
  BY ONLY IsLog(l), LogShape
<1>4. Len(m) \in DOMAIN m /\ Len(m) \notin DOMAIN l
  BY <1>2, <1>3
<1> QED
  BY <1>4 DEF Longer, IsLineOf

LEMMA OneLine ==
  ASSUME NEW id, NEW moves
  PROVE  IsLineOf(Line(id, "", moves), id)
BY DEF IsLineOf, Line

\* The lines of a new entry.
LEMMA NewLines ==
  ASSUME FirewallInv, NEW sets, IsLog(sets), NEW E, E \subseteq InBatch(sets)
  PROVE  LET m == RuleLogged \o LinesOf(RuleId, sets, E)
         IN  /\ Longer(lines, m, RuleId)
             /\ Longer(lines, Append(m, Line(RuleId, "", TRUE)), RuleId)
<1> DEFINE m == RuleLogged \o LinesOf(RuleId, sets, E)
           s == Line(RuleId, "", FALSE)
           t == Line(RuleId, "", TRUE)
<1>1. IsLog(lines)
  BY DEF FirewallInv, Draft, Recorded
<1>2. IsLineOf(s, RuleId) /\ IsLineOf(t, RuleId)
  BY OneLine
<1>3. RuleLogged = Append(lines, s)
  BY DEF RuleLogged
<1> HIDE DEF s, t
<1>4. Longer(lines, RuleLogged, RuleId)
  BY <1>1, <1>2, <1>3, LongerByOne
<1>5. IsLog(RuleLogged)
  BY <1>4 DEF Longer
<1>6. Longer(RuleLogged, m, RuleId)
  BY <1>5, LongerByBatch
<1>7. IsLog(m)
  BY <1>6 DEF Longer
<1> HIDE DEF m
<1>8. Longer(m, Append(m, t), RuleId)
  BY <1>2, <1>7, LongerByOne
<1>9. Longer(lines, m, RuleId) /\ Longer(lines, Append(m, t), RuleId)
  BY <1>4, <1>6, <1>8, LongerStill
<1> QED
  BY <1>9 DEF m, t

\* An edit moves nothing.
LEMMA EditEnds ==
  ASSUME FirewallInv, NEW id, NEW sets, IsLog(sets), NEW E, E \subseteq InBatch(sets),
         NEW m, m = lines \o LinesOf(id, sets, E), Len(m) > Len(lines)
  PROVE  m[Len(m)].id = id /\ ~MovesLast(m)
<1>1. IsLog(lines)
  BY DEF FirewallInv, Draft, Recorded
<1>2. /\ Longer(lines, m, id)
      /\ \A i \in DOMAIN m : i \notin DOMAIN lines => ~m[i].reorder
  BY <1>1, LongerByBatch
<1>3. m[Len(m)].id = id /\ Len(m) \in DOMAIN m /\ Len(m) \notin DOMAIN lines
  BY <1>1, <1>2, LastLineOf
<1> QED
  BY <1>2, <1>3 DEF MovesLast

\* A line of a section's own.
LEMMA LineEnds ==
  ASSUME FirewallInv, NEW id, NEW moves, NEW m, m = Append(lines, Line(id, "", moves))
  PROVE  m[Len(m)].id = id
<1>1. IsLog(lines)
  BY DEF FirewallInv, Draft, Recorded
<1>2. Len(m) = Len(lines) + 1 /\ m[Len(lines) + 1] = Line(id, "", moves)
  BY <1>1, LogAppended
<1>3. Line(id, "", moves).id = id
  BY DEF Line
<1> QED
  BY <1>2, <1>3
\* The rules PlacedRuleActs is about: new, or moved and in the panel's terms.
IsPlaced(v, w, m, id) ==
  /\ id \in RuleIds(w) /\ Decides(RuleOf(Of(RulesOf(w), id)))
  /\ \/ id \notin Ids(v)
     \/ /\ MovesLast(m) /\ Normal(RuleOf(Of(RulesOf(w), id)))
        /\ Statable(RuleOf(Of(RulesOf(w), id)))

LEMMA PlacedIsRule ==
  ASSUME NEW v, NEW w, WellFormed(w), NEW m, NEW id, IsPlaced(v, w, m, id)
  PROVE  /\ id \in RuleIds(w) /\ Decides(RuleOf(Of(w, id)))
         /\ id \in Ids(v) => /\ MovesLast(m) /\ Normal(RuleOf(Of(w, id)))
                             /\ Statable(RuleOf(Of(w, id)))
<1>1. id \in RuleIds(w)
  BY DEF IsPlaced
<1>2. Of(RulesOf(w), id) = Of(w, id)
  BY <1>1, RulesAre
<1> QED
  BY <1>1, <1>2 DEF IsPlaced

LEMMA PlacedStep ==
  ASSUME FirewallInv, CountInv, [FirewallNext]_firewallVars,
         faults' = faults, Len(lines') > Len(lines),
         NEW last, last = lines'[Len(lines')].id, IsPlaced(view, view', lines', last)
  PROVE  HeardOn(RulesOf(view'), last)
<1>1. IsLog(lines) /\ WellFormed(view)
  BY DEF FirewallInv, Draft, Recorded
<1>2. WellFormed(view')
  BY DraftKept DEF FirewallInv, Draft, Recorded
<1>3. /\ last \in RuleIds(view') /\ Decides(RuleOf(Of(view', last)))
      /\ last \in Ids(view) => /\ MovesLast(lines') /\ Normal(RuleOf(Of(view', last)))
                               /\ Statable(RuleOf(Of(view', last)))
  BY <1>2, PlacedIsRule
<1>4. RuleIds(view) \subseteq Ids(view) /\ RuleIds(view') \subseteq Ids(view')
  BY DEF RuleIds
<1>5. ASSUME NEW b \in Bodies, NEW before \in RuleIds(view) \cup {0}, AddRule(b, before)
      PROVE  HeardOn(RulesOf(view'), last)
  <2>1. /\ Normal(b) /\ ~ShadowedBy(RulesOf(view), NewAt(before), b)
        /\ \/ view' = RuleFile(b, before) /\ lines' = RuleLog(b, before)
           \/ \E cuts : Dropped(cuts)
    BY <1>5, AddRuleIs DEF Accepted, NewAt
  <2>2. view' = RuleFile(b, before) /\ lines' = RuleLog(b, before)
    BY <2>1, DroppedCounts
  <2>3. IsLog(RuleSettings(b)) /\ NewRule(b) \subseteq InBatch(RuleSettings(b))
    <3> DEFINE k == "rule"
    <3>1. k # "redirect"
      OBVIOUS
    <3> HIDE DEF k
    <3> QED
      BY <3>1, RuleBatch, EditsAre DEF Suits, Keyed, NewRule
  <2>4. Longer(lines, RuleLog(b, before), RuleId)
    BY <2>3, NewLines DEF RuleLog, LastLog
  <2>5. last = RuleId
    BY <1>1, <2>2, <2>4, LastLineOf
  <2> QED
    BY <1>3, <2>1, <2>2, <2>5, AddHeard
<1>6. ASSUME NEW id \in RuleIds(view), NEW b \in Bodies, EditRule(id, b)
      PROVE  FALSE
  <2>1. \/ lines' = EditLog(id, b, {})
        \/ faults' = faults + 1
        \/ \E cuts : Dropped(cuts)
    BY <1>6, EditRuleIs DEF Accepted
  <2>2. faults' # faults + 1
    BY DEF CountInv
  <2>3. lines' = EditLog(id, b, {})
    BY <2>1, <2>2, DroppedCounts
  <2> DEFINE sets == EditSets(id, b, {})
             E    == RuleEdits(id, b, {})
  <2>4. IsLog(sets) /\ E \subseteq InBatch(sets)
    BY EditFileIs DEF Suits, Keyed
  <2>5. lines' = lines \o LinesOf(id, sets, E)
    BY <2>3 DEF EditLog
  <2> HIDE DEF sets, E
  <2>6. last = id /\ ~MovesLast(lines')
    BY <2>4, <2>5, EditEnds
  <2> QED
    BY <1>3, <1>4, <2>6
<1>7. ASSUME NEW id \in Ids(view), RemoveRule(id) \/ RemoveForward(id)
      PROVE  FALSE
  <2>1. view' = UciDelete(view, id) /\ lines' = Append(lines, Line(id, "", FALSE))
    BY <1>7 DEF RemoveRule, RemoveForward, Accepted
  <2>2. last = id
    BY <2>1, LineEnds
  <2>3. Ids(UciDelete(view, id)) = Ids(view) \ {id}
    BY <1>1, DeletedFile
  <2>4. view' = UciDelete(view, id)
    BY <2>1
  <2>5. id \notin Ids(view')
    BY ONLY <2>3, <2>4
  <2> QED
    BY <1>3, <1>4, <2>2, <2>5
<1>8. ASSUME NEW id \in RuleIds(view), NEW before \in RuleIds(view) \cup {0},
             MoveRule(id, before)
      PROVE  HeardOn(RulesOf(view'), last)
  <2>1. /\ before \in (RuleIds(view) \ {id}) \cup {0}
        /\ Statable(RuleOf(Of(view, id)))
           => ~ShadowedBy(UciDelete(RulesOf(view), id), MoveLand(id, before),
                          RuleOf(Of(view, id)))
        /\ \/ view' = MoveFile(id, before) /\ lines' = MoveLog(id)
           \/ \E cuts : Dropped(cuts)
    BY <1>8, MoveRuleIs DEF Accepted
  <2>2. view' = MoveFile(id, before) /\ lines' = MoveLog(id)
    BY <2>1, DroppedCounts
  <2>3. last = id
    BY <2>2, LineEnds DEF MoveLog
  <2>4. Of(view', id) = Of(view, id)
    BY <1>4, <2>1, <2>2, MovedBehind
  <2>5. /\ Normal(RuleOf(Of(view, id))) /\ Statable(RuleOf(Of(view, id)))
        /\ Decides(RuleOf(Of(view, id)))
    BY <1>3, <1>4, <2>3, <2>4
  <2> QED
    BY <2>1, <2>2, <2>3, <2>5, MoveHeard
<1>9. ASSUME NEW f \in Forwards, AddForward(f)
      PROVE  FALSE
  <2>1. \/ view' = ForwardFile(f) /\ lines' = ForwardLog(f)
        \/ \E cuts : Dropped(cuts)
    BY <1>9, AddForwardIs DEF Accepted
  <2>2. view' = ForwardFile(f) /\ lines' = ForwardLog(f)
    BY <2>1, DroppedCounts
  <2>3. IsLog(ForwardSettings(f)) /\ NewForward(f) \subseteq InBatch(ForwardSettings(f))
    <3> DEFINE k == "redirect"
    <3>1. k # "rule"
      OBVIOUS
    <3> HIDE DEF k
    <3> QED
      BY <3>1, ForwardBatch, EditsAre DEF Suits, Keyed, NewForward
  <2>4. Longer(lines, ForwardLog(f), RuleId)
    BY <2>3, NewLines DEF ForwardLog
  <2>5. last = RuleId
    BY <1>1, <2>2, <2>4, LastLineOf
  <2>6. Of(view', RuleId).kind = "redirect"
    BY <2>2, ForwardFileIs
  <2> QED
    BY <1>3, <2>5, <2>6 DEF RuleIds
<1>10. ASSUME NEW f \in Forwards, NEW id \in Ids(view), EditForward(id, f)
       PROVE  FALSE
  <2>1. \/ lines' = ChangedLog(id, f)
        \/ \E cuts : Dropped(cuts)
    BY <1>10, EditForwardIs DEF Accepted
  <2>2. lines' = ChangedLog(id, f)
    BY <2>1, DroppedCounts
  <2>3. /\ IsLog(ForwardSettings(f))
        /\ ForwardEdits(id, f) \subseteq InBatch(ForwardSettings(f))
    <3> DEFINE k == "redirect"
    <3>1. k # "rule"
      OBVIOUS
    <3> HIDE DEF k
    <3> QED
      BY <3>1, ForwardBatch, EditsAre DEF Suits, Keyed, ForwardEdits
  <2>4. last = id /\ ~MovesLast(lines')
    BY <2>2, <2>3, EditEnds DEF ChangedLog
  <2> QED
    BY <1>3, <2>4
<1>11. CASE DiscardStaged \/ Commit \/ UNCHANGED firewallVars
  <2>1. lines' = <<>> \/ lines' = lines
    BY <1>11 DEF DiscardStaged, Commit, firewallVars
  <2>2. Len(lines) \in Nat
    BY ONLY <1>1, LogShape
  <2>3. Len(lines') \in {0, Len(lines)}
    BY <2>1
  <2> QED
    BY <2>2, <2>3
<1> QED
  BY <1>4, <1>5, <1>6, <1>7, <1>8, <1>9, <1>10, <1>11 DEF FirewallNext

\* PlacedIsHeard: a rule the panel has put on a place, new or moved, is there not
\* silenced by one rule above it, whatever the file, the rules and the port lists:
\* StageRule and MoveRule look at exactly the rules that will stand in front, and
\* where ruleCovers says no there is a packet that gets past.
THEOREM PlacedIsHeard == FirewallSpec => PlacedRuleActs
<1>1. FirewallInit => CountInv
  BY DEF FirewallInit, CountInv
<1>2. ASSUME FirewallInv, CountInv, [FirewallNext]_firewallVars,
             faults' = faults, Len(lines') > Len(lines),
             IsPlaced(view, view', lines', lines'[Len(lines')].id)
      PROVE  HeardOn(RulesOf(view'), lines'[Len(lines')].id)
  BY <1>2, PlacedStep
<1>3. FirewallInv /\ CountInv /\ [FirewallNext]_firewallVars
      => [/\ faults' = faults /\ Len(lines') > Len(lines)
          => LET last == lines'[Len(lines')].id
                 rules == RulesOf(view')
                 k == Pos(rules, last)
                 r == RuleOf(rules[k])
             IN  /\ last \in RuleIds(view')
                 /\ \/ last \notin Ids(view)
                    \/ lines'[Len(lines')].reorder /\ Normal(r) /\ Statable(r)
                 /\ Decides(r)
                 => \A i \in 1 .. k - 1 :
                      LET e == RuleOf(rules[i])
                      IN  Decides(e) /\ (e.action = "accept") # (r.action = "accept")
                          => \E p \in Packets : Matches(r, p) /\ ~Matches(e, p)
         ]_firewallVars
  BY <1>2, Zenon DEF IsPlaced, HeardOn, MovesLast, Of
<1> QED
  BY <1>1, <1>3, CountKept, DraftIsRecorded, PTL DEF FirewallSpec, PlacedRuleActs
=============================================================================
