---------------------------- MODULE NetworkProofs ----------------------------
(***************************************************************************)
(* The draft of `network' and `dhcp', proved for every address space, every*)
(* set of files and requests, and every number of edits and faults.        *)
(***************************************************************************)
EXTENDS NetworkDraft, UciDraftProofs, WellFoundedInduction, TLAPS

Kinds == {"interface", "dhcp", "host", "route", "route6"}

\* Text; the panel's own words are named, since no prover knows them for text.
Written == STRING \cup {"", "0", "1", "dhcp", "static", "pppoe"} \cup Interfaces

SectionsOf(k) == [id : Nat \ {0}, kind : {k}, opt : [OptionsOf[k] -> Written]]

Sections == UNION {SectionsOf(k) : k \in Kinds}

-----------------------------------------------------------------------------
(***************************************************************************)
(* What the operators on one file do.                                      *)
(***************************************************************************)

\* A section is a record of a kind, with the options of its kind.
LEMMA SectionIs ==
  ASSUME NEW s
  PROVE  /\ IsSection(s) => s \in Sections
         /\ s \in Sections => /\ s = Section(s.id, s.kind, s.opt)
                              /\ s.id \in Nat \ {0} /\ s.kind \in Kinds
                              /\ s.opt \in [OptionsOf[s.kind] -> Written]
<1>1. ASSUME IsSection(s) PROVE s \in SectionsOf(s.kind) /\ s.kind \in Kinds
  BY <1>1 DEF IsSection, SectionsOf, OptionsOf, Kinds, Written
<1>2. ASSUME NEW k \in Kinds, s \in SectionsOf(k)
      PROVE  /\ s = Section(s.id, s.kind, s.opt)
             /\ s.id \in Nat \ {0} /\ s.kind = k
             /\ s.opt \in [OptionsOf[k] -> Written]
  BY <1>2 DEF SectionsOf, Section
<1> QED
  BY <1>1, <1>2 DEF Sections

LEMMA SectionMade ==
  ASSUME NEW id \in Nat \ {0}, NEW k \in Kinds, NEW o \in [OptionsOf[k] -> Written]
  PROVE  Section(id, k, o) \in Sections
BY DEF Section, Sections, SectionsOf

\* `uci set' changes the options of one section.
LEMMA SetIs ==
  ASSUME NEW file \in Seq(Sections), Named(file), NEW id \in Ids(file),
         NEW es, \A s \in es : s.value \in Written
  PROVE  LET g == Staged(file, id, es)
             k == Pos(file, id)
         IN  /\ g \in Seq(Sections) /\ Len(g) = Len(file) /\ Named(g)
             /\ \A i \in DOMAIN file : i # k => g[i] = file[i]
             /\ g[k] = Section(id, file[k].kind, Over(file[k].opt, Values(es)))
<1> DEFINE k == Pos(file, id)
           o == Over(file[k].opt, Values(es))
           g == Staged(file, id, es)
<1>1. k \in DOMAIN file /\ file[k].id = id /\ file[k] \in Sections
  BY PosIn, ElementOfSeq
<1>2. /\ file[k] = Section(id, file[k].kind, file[k].opt)
      /\ file[k].kind \in Kinds /\ id \in Nat \ {0}
      /\ file[k].opt \in [OptionsOf[file[k].kind] -> Written]
  BY <1>1, SectionIs
<1>3. o \in [OptionsOf[file[k].kind] -> Written]
  <2>1. \A x \in DOMAIN Values(es) : Values(es)[x] \in Written
    BY DEF Values
  <2> QED
    BY <1>2, <2>1 DEF Over
<1>4. Section(id, file[k].kind, o) \in Sections
  BY <1>2, <1>3, SectionMade
<1>5. g = [file EXCEPT ![k] = Section(id, file[k].kind, o)]
  <2>1. g = [file EXCEPT ![k] = [file[k] EXCEPT !.opt = o]]
    BY <1>1 DEF Staged, UciSet
  <2>2. [file[k] EXCEPT !.opt = o] = Section(id, file[k].kind, o)
    BY <1>2 DEF Section
  <2> QED
    BY <2>1, <2>2
<1>6. g \in Seq(Sections) /\ Len(g) = Len(file) /\ DOMAIN g = DOMAIN file
  BY <1>1, <1>4, <1>5, ExceptSeq
<1>7. /\ \A i \in DOMAIN file : i # k => g[i] = file[i]
      /\ g[k] = Section(id, file[k].kind, o)
  BY <1>1, <1>5
<1>8. \A i \in DOMAIN file : g[i].id = file[i].id
  BY <1>1, <1>7 DEF Section
<1>9. Named(g)
  BY <1>6, <1>8 DEF Named
<1> QED
  BY <1>6, <1>7, <1>9

\* `uci add' appends a section with a name nobody has.
LEMMA AddIs ==
  ASSUME NEW file \in Seq(Sections), Named(file), NEW s \in Sections,
         s.id \notin Ids(file)
  PROVE  LET g == Append(file, s)
         IN  /\ g \in Seq(Sections) /\ Named(g)
             /\ Len(g) = Len(file) + 1 /\ g[Len(file) + 1] = s
             /\ \A i \in DOMAIN file : i \in DOMAIN g /\ g[i] = file[i]
             /\ Pos(g, s.id) = Len(file) + 1 /\ s.id \in Ids(g)
<1> DEFINE g == Append(file, s)
<1>1. /\ g \in Seq(Sections) /\ Len(g) = Len(file) + 1 /\ g[Len(file) + 1] = s
      /\ \A i \in 1 .. Len(file) : g[i] = file[i]
  BY AppendProperties
<1>2. DOMAIN file = 1 .. Len(file) /\ DOMAIN g = 1 .. Len(file) + 1
      /\ Len(file) \in Nat
  BY <1>1, LenProperties
<1>3. Named(g)
  <2>1. \A i \in DOMAIN file : g[i].id = file[i].id /\ g[i].id # s.id
    BY <1>1, <1>2 DEF Ids
  <2>2. \A i \in DOMAIN g : i \in DOMAIN file \/ i = Len(file) + 1
    BY <1>2
  <2> QED
    BY <1>1, <2>1, <2>2 DEF Named
<1>4. Pos(g, s.id) = Len(file) + 1
  <2>1. Len(file) + 1 \in DOMAIN g
    BY <1>2
  <2>2. Pos(g, g[Len(file) + 1].id) = Len(file) + 1
    BY <1>3, <2>1, PosIs
  <2> QED
    BY <1>1, <2>2
<1>5. s.id \in Ids(g)
  BY <1>1, <1>2 DEF Ids
<1> QED
  BY <1>1, <1>2, <1>3, <1>4, <1>5

\* `uci delete' takes one section away and leaves the others in their order.
LEMMA DeleteIs ==
  ASSUME NEW file \in Seq(Sections), Named(file), NEW id \in Ids(file)
  PROVE  LET g == UciDelete(file, id)
         IN  /\ g \in Seq(Sections) /\ Named(g)
             /\ \A i \in DOMAIN g : \E j \in DOMAIN file : g[i] = file[j]
             /\ \A j \in DOMAIN file :
                  file[j].id # id => \E i \in DOMAIN g : g[i] = file[j]
<1> DEFINE g == UciDelete(file, id)
           k == Pos(file, id)
           at(i) == IF i < k THEN i ELSE i + 1
<1>1. Len(file) \in Nat /\ DOMAIN file = 1 .. Len(file)
  BY LenProperties
<1>2. k \in 1 .. Len(file) /\ file[k].id = id
  BY <1>1, PosIn
<1>3. \A i \in 1 .. Len(file) - 1 : at(i) \in DOMAIN file /\ g[i] = file[at(i)]
  BY <1>1, <1>2 DEF UciDelete
<1>4. g \in Seq(Sections) /\ DOMAIN g = 1 .. Len(file) - 1
  <2>1. \A i \in 1 .. Len(file) - 1 :
          (IF i < k THEN file[i] ELSE file[i + 1]) \in Sections
    BY <1>1, <1>2, ElementOfSeq
  <2>2. Len(file) - 1 \in Nat
    BY <1>1, <1>2
  <2> QED
    BY <2>1, <2>2, IsASeq DEF UciDelete
<1>5. Named(g)
  <2> SUFFICES ASSUME NEW i \in DOMAIN g, NEW j \in DOMAIN g, g[i].id = g[j].id
               PROVE  i = j
    BY DEF Named
  <2>1. at(i) = at(j)
    BY <1>3, <1>4 DEF Named
  <2> QED
    BY <1>2, <1>4, <2>1
<1>6. ASSUME NEW j \in DOMAIN file, file[j].id # id
      PROVE  \E i \in DOMAIN g : g[i] = file[j]
  <2>1. CASE j < k
    BY <1>1, <1>2, <1>3, <1>4, <2>1
  <2>2. CASE j > k
    <3>1. j - 1 \in DOMAIN g /\ at(j - 1) = j
      BY <1>1, <1>2, <1>4, <2>2
    <3> QED
      BY <1>3, <1>4, <3>1
  <2> QED
    BY <1>1, <1>2, <1>6, <2>1, <2>2
<1> QED
  BY <1>3, <1>4, <1>5, <1>6

\* Each key of a batch is in it once.
Once(S) == \A s, t \in S : s.key = t.key => s = t

LEMMA LogIs ==
  ASSUME NEW log, IsLog(log)
  PROVE  /\ IsLog(<<>>)
         /\ \A e : IsLog(Append(log, e))
         /\ \A m : IsLog(m) => IsLog(log \o m)
<1>1. IsLog(<<>>)
  BY EmptySeq DEF IsLog
<1> QED
  BY <1>1, LogAppended, LogJoined

(***************************************************************************)
(* Two files that differ in one section at most.                           *)
(***************************************************************************)
Touches(file, g, id) ==
  /\ g \in Seq(Sections) /\ Named(g)
  /\ \A i \in DOMAIN g : g[i].id # id => \E j \in DOMAIN file : g[i] = file[j]
  /\ \A j \in DOMAIN file : file[j].id # id => \E i \in DOMAIN g : g[i] = file[j]
  /\ \A i \in DOMAIN g, j \in DOMAIN file :
       g[i].id = id /\ file[j].id = id => g[i].kind = file[j].kind

\* A batch, or the beginning of one, touches its section.
LEMMA StagedTouches ==
  ASSUME NEW file \in Seq(Sections), Named(file), NEW id \in Ids(file),
         NEW es, \A s \in es : s.value \in Written
  PROVE  LET g == Staged(file, id, es)
         IN  /\ Touches(file, g, id) /\ id \in Ids(g)
             /\ Of(g, id) = Section(id, Of(file, id).kind,
                                    Over(Of(file, id).opt, Values(es)))
<1> DEFINE g == Staged(file, id, es)
           k == Pos(file, id)
<1>1. /\ g \in Seq(Sections) /\ Len(g) = Len(file) /\ Named(g)
      /\ \A i \in DOMAIN file : i # k => g[i] = file[i]
      /\ g[k] = Section(id, file[k].kind, Over(file[k].opt, Values(es)))
  BY SetIs
<1>2. DOMAIN g = DOMAIN file
  BY <1>1, LenProperties
<1>3. k \in DOMAIN file /\ file[k].id = id
  BY PosIn
<1>4. g[k].id = id /\ g[k].kind = file[k].kind
  BY <1>1 DEF Section
<1>5. \A j \in DOMAIN file : file[j].id = id => j = k
  BY <1>3 DEF Named
<1>6. \A i \in DOMAIN g : g[i].id = id => i = k
  BY <1>1, <1>2, <1>3, <1>4 DEF Named
<1>7. Touches(file, g, id)
  BY <1>1, <1>2, <1>3, <1>4, <1>5, <1>6 DEF Touches
<1>8. Of(g, id) = g[k] /\ id \in Ids(g)
  BY <1>1, <1>2, <1>3, <1>4, PosIs DEF Ids
<1> QED
  BY <1>1, <1>7, <1>8 DEF Of

\* So does a new section, filled in or not.
LEMMA NewTouches ==
  ASSUME NEW file \in Seq(Sections), Named(file), NEW log, IsLog(log),
         NEW kind \in Kinds,
         NEW es, \A s \in es : s.value \in Written
  PROVE  LET id == NewId(file, log)
             o  == NoOptions(OptionsOf[kind])
             g  == Staged(Append(file, Section(id, kind, o)), id, es)
         IN  /\ Touches(file, g, id) /\ id \in Ids(g) /\ id \notin Ids(file)
             /\ Of(g, id).kind = kind /\ Of(g, id).opt = Over(o, Values(es))
             /\ IsLog(Append(log, Line(id, "", FALSE)))
<1> DEFINE id == NewId(file, log)
           o  == NoOptions(OptionsOf[kind])
           s  == Section(id, kind, o)
           a  == Append(file, s)
           g  == Staged(a, id, es)
<1>1. id \in Nat \ {0} /\ id \notin Ids(file)
  BY NewIdIs DEF IsLog
<1> HIDE DEF id
<1>2. s \in Sections /\ s.id = id /\ s.kind = kind /\ s.opt = o
  <2>1. \A D : NoOptions(D) \in [D -> Written]
    BY DEF NoOptions, Written
  <2> QED
    BY <1>1, <2>1, SectionMade DEF Section
<1> HIDE DEF s
<1>3. /\ a \in Seq(Sections) /\ Named(a)
      /\ Len(a) = Len(file) + 1 /\ a[Len(file) + 1] = s
      /\ \A i \in DOMAIN file : i \in DOMAIN a /\ a[i] = file[i]
      /\ Pos(a, id) = Len(file) + 1 /\ id \in Ids(a)
  BY <1>1, <1>2, AddIs
<1>4. Of(a, id) = s
  BY <1>3 DEF Of
<1>5. /\ Touches(a, g, id) /\ id \in Ids(g)
      /\ Of(g, id) = Section(id, Of(a, id).kind, Over(Of(a, id).opt, Values(es)))
  BY <1>3, StagedTouches
<1>10. Of(g, id).kind = kind /\ Of(g, id).opt = Over(o, Values(es))
  BY <1>2, <1>4, <1>5, SectionFields
<1>6. \A i \in DOMAIN a : a[i].id # id => \E j \in DOMAIN file : a[i] = file[j]
  <2>1. DOMAIN a = 1 .. Len(file) + 1 /\ DOMAIN file = 1 .. Len(file) /\ Len(file) \in Nat
    BY <1>3, LenProperties
  <2> QED
    BY <1>2, <1>3, <2>1
<1>7. \A j \in DOMAIN file : file[j].id # id
  BY <1>1 DEF Ids
<1>8. Touches(file, g, id)
  BY <1>3, <1>5, <1>6, <1>7 DEF Touches
<1>9. IsLog(Append(log, Line(id, "", FALSE)))
  BY LogIs
<1> QED
  BY <1>1, <1>2, <1>4, <1>5, <1>8, <1>9, <1>10 DEF id, s

LEMMA DeleteTouches ==
  ASSUME NEW file \in Seq(Sections), Named(file), NEW id \in Ids(file)
  PROVE  /\ Touches(file, UciDelete(file, id), id)
         /\ id \notin Ids(UciDelete(file, id))
<1> DEFINE g == UciDelete(file, id)
<1>1. /\ g \in Seq(Sections) /\ Named(g)
      /\ \A i \in DOMAIN g : \E j \in DOMAIN file : g[i] = file[j]
      /\ \A j \in DOMAIN file : file[j].id # id => \E i \in DOMAIN g : g[i] = file[j]
  BY DeleteIs
<1>2. \A i \in DOMAIN g : g[i].id # id
  <2> SUFFICES ASSUME NEW i \in DOMAIN g, g[i].id = id PROVE FALSE
    OBVIOUS
  <2> DEFINE k == Pos(file, id)
  <2>1. /\ Len(file) \in Nat /\ DOMAIN file = 1 .. Len(file)
        /\ k \in DOMAIN file /\ file[k].id = id
    BY LenProperties, PosIn
  <2>2. DOMAIN g = 1 .. Len(file) - 1 /\ g[i] = IF i < k THEN file[i] ELSE file[i + 1]
    BY DEF UciDelete
  <2>3. CASE i < k
    BY <2>1, <2>2, <2>3 DEF Named
  <2>4. CASE ~(i < k)
    <3>1. i + 1 \in DOMAIN file /\ file[i + 1].id = id
      BY <2>1, <2>2, <2>4
    <3> QED
      BY <2>1, <2>2, <2>4, <3>1 DEF Named
  <2> QED
    BY <2>3, <2>4
<1> QED
  BY <1>1, <1>2 DEF Touches, Ids

\* The other sections are as they were.
LEMMA OthersStay ==
  ASSUME NEW file \in Seq(Sections), Named(file), NEW g, NEW id,
         Touches(file, g, id), NEW x \in Ids(file), x # id
  PROVE  x \in Ids(g) /\ Of(g, x) = Of(file, x)
<1>1. PICK j \in DOMAIN file : file[j].id = x
  BY DEF Ids
<1>2. PICK i \in DOMAIN g : g[i] = file[j]
  BY <1>1 DEF Touches
<1>3. Of(file, x) = file[j] /\ Of(g, x) = g[i]
  BY <1>1, <1>2, PosIs DEF Touches
<1> QED
  BY <1>1, <1>2, <1>3 DEF Ids

-----------------------------------------------------------------------------
(***************************************************************************)
(* The inductive invariant.                                                *)
(***************************************************************************)

\* A network file has its connections, and this router an address of its own.
NetworkOK(file) ==
  /\ file \in Seq(Sections) /\ Named(file)
  /\ \A n \in Interfaces : /\ IdOf(n) \in Ids(file)
                           /\ Of(file, IdOf(n)).kind = "interface"
  /\ LET o == Of(file, Lan).opt
     IN  /\ o["proto"] = "static"
         /\ Parses(o["ipaddr"], Addresses) /\ Parses(o["netmask"], Sizes)

DhcpOK(file) ==
  /\ file \in Seq(Sections) /\ Named(file)
  /\ Lan \in Ids(file) /\ Of(file, Lan).kind = "dhcp"

FilesInv ==
  /\ DOMAIN conf = Configs /\ DOMAIN view = Configs /\ DOMAIN lines = Configs
  /\ \A c \in Configs : IsLog(lines[c])
  /\ NetworkOK(conf["network"]) /\ NetworkOK(view["network"])
  /\ DhcpOK(conf["dhcp"]) /\ DhcpOK(view["dhcp"])

\* A file may become the committed one or be given back to it, alone or with
\* the other: each pool is inside each address it may meet.
PoolInv ==
  crossed \/ /\ PoolIn(conf["dhcp"], conf["network"])
             /\ PoolIn(view["dhcp"], conf["network"])
             /\ PoolIn(view["dhcp"], view["network"])

Tidy(network) == Resolves(network) /\ Connected(network) /\ DistinctRoutes(network)

TidyInv == late \/ (Tidy(conf["network"]) /\ Tidy(view["network"]))

HostInv == unread \/ (ReservedOnce(conf["dhcp"]) /\ ReservedOnce(view["dhcp"]))

FlagsInv == crossed \in BOOLEAN /\ late \in BOOLEAN /\ unread \in BOOLEAN

NetworkInv == FilesInv /\ PoolInv /\ TidyInv /\ HostInv /\ FlagsInv

-----------------------------------------------------------------------------
(***************************************************************************)
(* One network file after another.                                         *)
(***************************************************************************)

LEMMA OfIs ==
  ASSUME NEW file \in Seq(Sections), NEW id \in Ids(file)
  PROVE  Of(file, id) \in Sections /\ Of(file, id).id = id
BY PosIn, ElementOfSeq DEF Of

\* Each connection has a name of its own.
LEMMA IdsDiffer ==
  \A m, n \in Interfaces : IdOf(m) = IdOf(n) => m = n
<1>1. \A n \in Interfaces : Names[IdOf(n)] = n
  BY NamesAssumption DEF IdOf
<1> QED
  BY <1>1

\* What is the same where a connection is the same.
SameConnection(file, g, n) ==
  IdOf(n) \in Ids(g) /\ Of(g, IdOf(n)) = Of(file, IdOf(n))

LEMMA SameReadings ==
  ASSUME NEW file, NEW g, NEW n \in Interfaces, SameConnection(file, g, n)
  PROVE  /\ AddressesOf(g, n) = AddressesOf(file, n)
         /\ NetworksOf(g, n) = NetworksOf(file, n)
         /\ MetricOf(g, n) = MetricOf(file, n)
         /\ n = "wan" => (Resolves(g) <=> Resolves(file))
<1>1. AddressesOf(g, n) = AddressesOf(file, n)
  BY DEF SameConnection, AddressesOf
<1>2. NetworksOf(g, n) = NetworksOf(file, n)
  BY <1>1 DEF NetworksOf
<1>3. MetricOf(g, n) = MetricOf(file, n)
  BY DEF SameConnection, MetricOf
<1> QED
  BY <1>1, <1>2, <1>3 DEF SameConnection, Resolves

\* A section that is no connection leaves the connections as they are.
LEMMA RouteLeavesConnections ==
  ASSUME NEW file, NetworkOK(file), NEW g, NEW id, Touches(file, g, id),
         id \in Ids(file) => Of(file, id).kind # "interface"
  PROVE  /\ NetworkOK(g)
         /\ \A n \in Interfaces : SameConnection(file, g, n)
<1>1. \A n \in Interfaces : IdOf(n) # id
  BY DEF NetworkOK
<1>2. ASSUME NEW n \in Interfaces PROVE SameConnection(file, g, n)
  BY <1>1, OthersStay DEF NetworkOK, SameConnection
<1>3. SameConnection(file, g, "lan")
  BY <1>2 DEF Interfaces
<1> QED
  BY <1>2, <1>3 DEF NetworkOK, SameConnection, Lan, Touches

\* The routes that were there still are distinct when no metric of a
\* connection has changed.
LEMMA FewerRoutes ==
  ASSUME NEW file, NEW g, Connected(file), DistinctRoutes(file),
         \A i \in DOMAIN g : IsRoute(g[i]) => \E j \in DOMAIN file : g[i] = file[j],
         \A n \in Interfaces : MetricOf(g, n) = MetricOf(file, n)
  PROVE  Connected(g) /\ DistinctRoutes(g)
<1>1. Connected(g)
  BY DEF Connected
<1>2. ASSUME NEW r \in RoutesOf(g)
      PROVE  /\ r \in RoutesOf(file) /\ r.iface \in Interfaces
             /\ EffectiveMetric(r, g) = EffectiveMetric(r, file)
             /\ ZeroWritten(r, g) <=> ZeroWritten(r, file)
  <2>1. PICK i \in DOMAIN g : IsRoute(g[i]) /\ r = RouteOf(g[i])
    BY DEF RoutesOf
  <2>2. PICK j \in DOMAIN file : g[i] = file[j]
    BY <2>1
  <2>3. r \in RoutesOf(file)
    BY <2>1, <2>2 DEF RoutesOf
  <2>4. r.iface \in Interfaces
    BY <1>1, <2>1 DEF RouteOf, Connected
  <2> QED
    BY <2>3, <2>4 DEF EffectiveMetric, ZeroWritten
<1>3. DistinctRoutes(g)
  BY <1>2 DEF DistinctRoutes
<1> QED
  BY <1>1, <1>3
-----------------------------------------------------------------------------
(***************************************************************************)
(* Batches.                                                                *)
(***************************************************************************)

\* A batch has each key once, and text for every key.
Apart(sets) == \A i, j \in DOMAIN sets : sets[i].key = sets[j].key => i = j

IsBatch(sets) == /\ IsLog(sets) /\ Once(InBatch(sets)) /\ Apart(sets)
                 /\ \A s \in InBatch(sets) : s.value \in Written

KeysOf(sets) == {s.key : s \in InBatch(sets)}

LEMMA BatchOfOne ==
  ASSUME NEW k, NEW v \in Written, NEW d
  PROVE  LET sets == <<Setting(k, v, d)>>
         IN  InBatch(sets) = {Setting(k, v, d)} /\ IsBatch(sets) /\ KeysOf(sets) = {k}
<1> DEFINE s == Setting(k, v, d)
<1>1. s.key = k /\ s.value = v
  BY DEF Setting
<1> HIDE DEF s
<1>2. <<s>> \in Seq({s}) /\ InBatch(<<s>>) = {s}
  BY DEF InBatch
<1>3. IsBatch(<<s>>) /\ KeysOf(<<s>>) = {k}
  BY <1>1, <1>2 DEF IsBatch, IsLog, Once, Apart, KeysOf
<1> QED
  BY <1>2, <1>3 DEF s

LEMMA BatchJoined ==
  ASSUME NEW s, NEW t, IsBatch(s), IsBatch(t), KeysOf(s) \cap KeysOf(t) = {}
  PROVE  /\ IsBatch(s \o t) /\ InBatch(s \o t) = InBatch(s) \cup InBatch(t)
         /\ KeysOf(s \o t) = KeysOf(s) \cup KeysOf(t)
<1>1. PICK S, T : s \in Seq(S) /\ t \in Seq(T)
  BY DEF IsBatch, IsLog
<1>2. s \in Seq(S \cup T) /\ t \in Seq(S \cup T)
  BY <1>1, SeqMonotonic
<1>3. /\ s \o t \in Seq(S \cup T)
      /\ Len(s \o t) = Len(s) + Len(t)
      /\ \A i \in 1 .. Len(s) : (s \o t)[i] = s[i]
      /\ \A i \in 1 .. Len(t) : (s \o t)[Len(s) + i] = t[i]
  BY <1>2, ConcatProperties
<1>4. /\ DOMAIN s = 1 .. Len(s) /\ DOMAIN t = 1 .. Len(t)
      /\ DOMAIN (s \o t) = 1 .. Len(s) + Len(t)
      /\ Len(s) \in Nat /\ Len(t) \in Nat
  BY <1>2, <1>3, LenProperties
<1>5. InBatch(s \o t) = InBatch(s) \cup InBatch(t)
  <2>1. \A i \in DOMAIN (s \o t) : \/ i \in DOMAIN s
                                   \/ i - Len(s) \in DOMAIN t /\ i = Len(s) + (i - Len(s))
    BY <1>4
  <2>2. \A i \in DOMAIN (s \o t) : (s \o t)[i] \in InBatch(s) \cup InBatch(t)
    BY <1>3, <1>4, <2>1 DEF InBatch
  <2>3. \A i \in DOMAIN s : i \in DOMAIN (s \o t)
    BY <1>4
  <2>4. \A i \in DOMAIN t : Len(s) + i \in DOMAIN (s \o t)
    BY <1>4
  <2> QED
    BY <1>3, <1>4, <2>2, <2>3, <2>4 DEF InBatch
<1>6. KeysOf(s \o t) = KeysOf(s) \cup KeysOf(t)
  BY <1>5 DEF KeysOf
<1>7. Once(InBatch(s) \cup InBatch(t))
  BY DEF IsBatch, Once, KeysOf
<1>8. Apart(s \o t)
  <2> SUFFICES ASSUME NEW i \in DOMAIN (s \o t), NEW j \in DOMAIN (s \o t),
                      (s \o t)[i].key = (s \o t)[j].key
               PROVE  i = j
    BY DEF Apart
  <2>1. \A n \in DOMAIN (s \o t) : \/ n \in DOMAIN s /\ (s \o t)[n] = s[n]
                                   \/ /\ n - Len(s) \in DOMAIN t
                                      /\ (s \o t)[n] = t[n - Len(s)]
    <3> SUFFICES ASSUME NEW n \in 1 .. Len(s) + Len(t), ~(n \in 1 .. Len(s))
                 PROVE  n - Len(s) \in DOMAIN t /\ (s \o t)[n] = t[n - Len(s)]
      BY <1>3, <1>4
    <3>1. n - Len(s) \in 1 .. Len(t) /\ n = Len(s) + (n - Len(s))
      BY <1>4
    <3> QED
      BY <1>3, <1>4, <3>1
  <2>2. \A m \in DOMAIN s, n \in DOMAIN t : s[m].key # t[n].key
    BY DEF KeysOf, InBatch
  <2>3. /\ \A m, n \in DOMAIN s : s[m].key = s[n].key => m = n
        /\ \A m, n \in DOMAIN t : t[m].key = t[n].key => m = n
    BY DEF IsBatch, Apart
  <2>4. CASE i \in DOMAIN s /\ j \in DOMAIN s /\ (s \o t)[i] = s[i] /\ (s \o t)[j] = s[j]
    BY <2>3, <2>4
  <2>5. CASE /\ i - Len(s) \in DOMAIN t /\ j - Len(s) \in DOMAIN t
             /\ (s \o t)[i] = t[i - Len(s)] /\ (s \o t)[j] = t[j - Len(s)]
    <3>1. i - Len(s) = j - Len(s)
      BY <2>3, <2>5
    <3>2. i \in Int /\ j \in Int
      BY <1>4
    <3> QED
      BY <1>4, <3>1, <3>2
  <2> QED
    BY <2>1, <2>2, <2>4, <2>5
<1> QED
  BY <1>3, <1>5, <1>6, <1>7, <1>8 DEF IsBatch, IsLog

LEMMA BatchOfNone == IsBatch(<<>>) /\ InBatch(<<>>) = {} /\ KeysOf(<<>>) = {}
<1>1. <<>> \in Seq({}) /\ InBatch(<<>>) = {}
  BY DEF InBatch
<1> QED
  BY <1>1 DEF IsBatch, IsLog, Once, Apart, KeysOf

LEMMA BatchOfTwo ==
  ASSUME NEW a, NEW b, a.key # b.key, a.value \in Written, b.value \in Written
  PROVE  /\ InBatch(<<a, b>>) = {a, b}
         /\ IsBatch(<<a, b>>) /\ KeysOf(<<a, b>>) = {a.key, b.key}
<1>1. <<a, b>> \in Seq({a, b}) /\ InBatch(<<a, b>>) = {a, b}
  BY DEF InBatch
<1>2. IsBatch(<<a, b>>) /\ KeysOf(<<a, b>>) = {a.key, b.key}
  BY <1>1 DEF IsBatch, IsLog, Once, Apart, KeysOf
<1> QED
  BY <1>1, <1>2

\* A setting that is written when it is given.
LEMMA BatchIfGiven ==
  ASSUME NEW k, NEW v \in Written
  PROVE  /\ IsBatch(IfGiven(k, v)) /\ KeysOf(IfGiven(k, v)) \subseteq {k}
         /\ v = "" => InBatch(IfGiven(k, v)) = {}
         /\ v # "" => InBatch(IfGiven(k, v)) = {Setting(k, v, "")}
<1>1. CASE v = ""
  <2>1. IfGiven(k, v) = <<>>
    BY <1>1 DEF IfGiven
  <2> QED
    BY <1>1, <2>1, BatchOfNone
<1>2. CASE v # ""
  <2>1. IfGiven(k, v) = <<Setting(k, v, "")>>
    BY <1>2 DEF IfGiven
  <2>2. LET sets == <<Setting(k, v, "")>>
        IN  InBatch(sets) = {Setting(k, v, "")} /\ IsBatch(sets) /\ KeysOf(sets) = {k}
    BY BatchOfOne
  <2> QED
    BY <1>2, <2>1, <2>2
<1> QED
  BY <1>1, <1>2
\* The edits of a batch are finitely many, and so are their lines.
LEMMA BatchLines ==
  ASSUME NEW sets, IsBatch(sets), NEW E, E \subseteq InBatch(sets),
         NEW log, IsLog(log), NEW id
  PROVE  IsLog(log \o LinesOf(id, sets, E))
<1>1. IsLog(sets)
  BY DEF IsBatch
<1>2. IsLog(LinesOf(id, sets, E))
  BY <1>1, LinesAre
<1> QED
  BY <1>2, LogIs

\* The options of a section after a part of a batch, and after the whole of it.
Part(sets, was, o) ==
  /\ DOMAIN o = DOMAIN was
  /\ \A k \in DOMAIN was :
       \/ o[k] = was[k]
       \/ \E s \in InBatch(sets) : s.key = k /\ o[k] = s.value

InForce(sets, was, o) ==
  \A s \in InBatch(sets) :
    s.key \in DOMAIN was => \/ o[s.key] = s.value
                            \/ /\ s.value = "" /\ o[s.key] = was[s.key]
                               /\ was[s.key] \in {"", s.same}

\* The file g is the file with one section that was `was' edited by a batch.
Edited(file, g, id, kind, was, sets) ==
  /\ Touches(file, g, id) /\ id \in Ids(g) /\ Of(g, id).kind = kind
  /\ Part(sets, was, Of(g, id).opt)

LEMMA PartIs ==
  ASSUME NEW sets, IsBatch(sets), NEW was, NEW E, E \subseteq Edits(sets, was, {})
  PROVE  LET o == Over(was, Values(E))
         IN  /\ Part(sets, was, o)
             /\ E = Edits(sets, was, {}) => InForce(sets, was, o)
             /\ E \subseteq InBatch(sets) /\ \A s \in E : s.value \in Written
<1> DEFINE o == Over(was, Values(E))
<1>1. E \subseteq InBatch(sets) /\ \A s \in E : s.value \in Written
  BY DEF Edits, InBatch, IsBatch
<1>2. DOMAIN o = DOMAIN was
  BY DEF Over
<1>3. ASSUME NEW k \in DOMAIN was
      PROVE  /\ \/ o[k] = was[k]
                \/ \E s \in InBatch(sets) : s.key = k /\ o[k] = s.value
             /\ E = Edits(sets, was, {})
                => \A s \in InBatch(sets) :
                     s.key = k => \/ o[k] = s.value
                                  \/ /\ s.value = "" /\ o[k] = was[k]
                                     /\ was[k] \in {"", s.same}
  <2>0. Once(InBatch(sets))
    BY DEF IsBatch
  <2>1. \A s \in E : s \in InBatch(sets)
    BY DEF Edits, InBatch
  <2>2. \A s \in E : s.key = k => o[k] = s.value
    <3> SUFFICES ASSUME NEW s \in E, s.key = k PROVE o[k] = s.value
      OBVIOUS
    <3>1. k \in DOMAIN Values(E) /\ Values(E)[k] = (CHOOSE t \in E : t.key = k).value
      BY DEF Values
    <3>2. (CHOOSE t \in E : t.key = k) = s
      BY <2>0, <2>1 DEF Once
    <3> QED
      BY <3>1, <3>2 DEF Over
  <2>3. (\A s \in E : s.key # k) => o[k] = was[k]
    BY DEF Over, Values
  <2>4. ASSUME E = Edits(sets, was, {}), NEW s \in InBatch(sets), s.key = k
        PROVE  \/ o[k] = s.value
               \/ s.value = "" /\ o[k] = was[k] /\ was[k] \in {"", s.same}
    <3>1. CASE s \in E
      BY <2>2, <2>4, <3>1
    <3>2. CASE s \notin E
      <4>1. ~Effective(s, was[k])
        BY <2>4, <3>2 DEF Edits, InBatch
      <4>2. \A t \in E : t.key # k
        BY <2>0, <2>1, <2>4, <3>2 DEF Once
      <4> QED
        BY <2>3, <4>1, <4>2 DEF Effective
    <3> QED
      BY <3>1, <3>2
  <2> QED
    BY <2>1, <2>2, <2>3, <2>4 DEF Over
<1> HIDE DEF o
<1>4. Part(sets, was, o)
  BY <1>2, <1>3 DEF Part
<1>5. ASSUME E = Edits(sets, was, {}) PROVE InForce(sets, was, o)
  <2> SUFFICES ASSUME NEW s \in InBatch(sets), s.key \in DOMAIN was
               PROVE  \/ o[s.key] = s.value
                      \/ /\ s.value = "" /\ o[s.key] = was[s.key]
                         /\ was[s.key] \in {"", s.same}
    BY DEF InForce
  <2> QED
    BY <1>3, <1>5
<1> QED
  BY <1>1, <1>4, <1>5 DEF o

LEMMA SectionEdited ==
  ASSUME NEW file \in Seq(Sections), Named(file), NEW id \in Ids(file),
         NEW sets, IsBatch(sets),
         NEW E, E \subseteq Edits(sets, Of(file, id).opt, {})
  PROVE  LET g   == Staged(file, id, E)
             was == Of(file, id).opt
         IN  /\ Edited(file, g, id, Of(file, id).kind, was, sets)
             /\ E = Edits(sets, was, {}) => InForce(sets, was, Of(g, id).opt)
<1> DEFINE was == Of(file, id).opt
           g   == Staged(file, id, E)
           o   == Over(was, Values(E))
<1>1. /\ Part(sets, was, o) /\ \A s \in E : s.value \in Written
      /\ E = Edits(sets, was, {}) => InForce(sets, was, o)
  BY PartIs
<1>2. /\ Touches(file, g, id) /\ id \in Ids(g)
      /\ Of(g, id) = Section(id, Of(file, id).kind, o)
  BY <1>1, StagedTouches
<1>3. Of(g, id).kind = Of(file, id).kind /\ Of(g, id).opt = o
  BY <1>2 DEF Section
<1> QED
  BY <1>1, <1>2, <1>3 DEF Edited

LEMMA NewEdited ==
  ASSUME NEW file \in Seq(Sections), Named(file), NEW log, IsLog(log),
         NEW kind \in Kinds, NEW sets, IsBatch(sets),
         NEW E, E \subseteq Edits(sets, NoOptions(OptionsOf[kind]), {})
  PROVE  LET id  == NewId(file, log)
             was == NoOptions(OptionsOf[kind])
             g   == Staged(Append(file, Section(id, kind, was)), id, E)
         IN  /\ Edited(file, g, id, kind, was, sets) /\ id \notin Ids(file)
             /\ E = Edits(sets, was, {}) => InForce(sets, was, Of(g, id).opt)
             /\ IsLog(Append(log, Line(id, "", FALSE)))
<1> DEFINE id  == NewId(file, log)
           was == NoOptions(OptionsOf[kind])
           g   == Staged(Append(file, Section(id, kind, was)), id, E)
           o   == Over(was, Values(E))
<1>1. /\ Part(sets, was, o) /\ \A s \in E : s.value \in Written
      /\ E = Edits(sets, was, {}) => InForce(sets, was, o)
  BY PartIs
<1>2. /\ Touches(file, g, id) /\ id \in Ids(g) /\ id \notin Ids(file)
      /\ Of(g, id).kind = kind /\ Of(g, id).opt = o
      /\ IsLog(Append(log, Line(id, "", FALSE)))
  BY <1>1, NewTouches
<1> HIDE DEF id, was, g, o
<1>3. /\ Edited(file, g, id, kind, was, sets) /\ id \notin Ids(file)
      /\ E = Edits(sets, was, {}) => InForce(sets, was, Of(g, id).opt)
      /\ IsLog(Append(log, Line(id, "", FALSE)))
  BY <1>1, <1>2 DEF Edited
<1> QED
  BY <1>3 DEF id, was, g, o
-----------------------------------------------------------------------------
(***************************************************************************)
(* How a staging ends.                                                     *)
(***************************************************************************)

\* The draft of one file was given back.
Back(c, g) ==
  /\ g = conf[c]
  /\ crossed' = (crossed \/ (c = "dhcp" /\ Moving)) /\ late' = late

\* A batch is in the draft as a whole, or its draft was given back, or a part
\* of it was left behind.
Ends(c, g, id, kind, was, sets, cross) ==
  /\ unread' = unread
  /\ \/ /\ Edited(view[c], g, id, kind, was, sets)
        /\ InForce(sets, was, Of(g, id).opt)
        /\ crossed' = cross /\ late' = late
     \/ Back(c, g)
     \/ /\ Edited(view[c], g, id, kind, was, sets)
        /\ crossed' = TRUE /\ late' = TRUE

LEMMA FilesAre ==
  ASSUME FilesInv, NEW c \in Configs
  PROVE  /\ view[c] \in Seq(Sections) /\ Named(view[c]) /\ IsLog(lines[c])
         /\ conf[c] \in Seq(Sections) /\ Named(conf[c])
BY DEF FilesInv, NetworkOK, DhcpOK, Configs

LEMMA SectionEnds ==
  ASSUME FilesInv, NEW c \in Configs, NEW id \in Ids(view[c]),
         NEW sets, IsBatch(sets), NEW rows, NEW cross,
         StageSection(c, id, sets, rows, cross) \/ SectionWritten(c, id, sets, rows, cross)
  PROVE  \E g, log :
           /\ IsLog(log) /\ Put(c, g, log)
           /\ Ends(c, g, id, Of(view[c], id).kind, Of(view[c], id).opt, sets, cross)
<1> DEFINE was == Of(view[c], id).opt
           kind == Of(view[c], id).kind
           es == Edits(sets, was, {})
<1>1. view[c] \in Seq(Sections) /\ Named(view[c]) /\ IsLog(lines[c])
  BY FilesAre
<1>2. ASSUME NEW E, E \subseteq es
      PROVE  LET g == Staged(view[c], id, E)
             IN  /\ Edited(view[c], g, id, kind, was, sets)
                 /\ E = es => InForce(sets, was, Of(g, id).opt)
                 /\ IsLog(lines[c] \o LinesOf(id, sets, E))
  <2>1. E \subseteq InBatch(sets)
    BY <1>2, PartIs
  <2> QED
    BY <1>1, <1>2, <2>1, SectionEdited, BatchLines
<1>3. CASE /\ Accepted(c, Staged(view[c], id, es), lines[c] \o LinesOf(id, sets, es),
                       rows)
           /\ crossed' = cross
           /\ UNCHANGED <<unread, late>>
  <2> DEFINE g == Staged(view[c], id, es)
             log == lines[c] \o LinesOf(id, sets, es)
  <2>1. Edited(view[c], g, id, kind, was, sets) /\ InForce(sets, was, Of(g, id).opt) /\ IsLog(log)
    BY <1>2
  <2>2. Put(c, g, log) /\ crossed' = cross /\ unread' = unread /\ late' = late
    BY <1>3 DEF Accepted
  <2> HIDE DEF g, log, was, kind
  <2>3. Ends(c, g, id, kind, was, sets, cross)
    BY <2>1, <2>2 DEF Ends
  <2>4. \E h, l : IsLog(l) /\ Put(c, h, l) /\ Ends(c, h, id, kind, was, sets, cross)
    BY <2>1, <2>2, <2>3
  <2> QED
    BY <2>4 DEF was, kind
<1>4. CASE Dropped(c, Cuts(view[c], lines[c], id, sets, es))
  <2>1. CASE /\ Put(c, conf[c], <<>>)
             /\ crossed' = (crossed \/ (c = "dhcp" /\ Moving))
             /\ UNCHANGED late
    <3>1. unread' = unread /\ late' = late
      BY <1>4, <2>1 DEF Dropped
    <3>2. Ends(c, conf[c], id, kind, was, sets, cross)
      BY <2>1, <3>1 DEF Ends, Back
    <3>3. IsLog(<<>>)
      BY <1>1, LogIs
    <3> QED
      BY <2>1, <3>2, <3>3
  <2>2. CASE /\ \E cut \in Cuts(view[c], lines[c], id, sets, es) : Put(c, cut.file, cut.log)
             /\ crossed' = TRUE /\ late' = TRUE
    <3>1. PICK n \in 0 .. Len(sets) :
            LET E == es \cap {sets[i] : i \in 1 .. n}
            IN  Put(c, Cut(Staged(view[c], id, E), lines[c] \o LinesOf(id, sets, E)).file,
                       Cut(Staged(view[c], id, E), lines[c] \o LinesOf(id, sets, E)).log)
      BY <2>2 DEF Cuts
    <3> DEFINE E == es \cap {sets[i] : i \in 1 .. n}
               g == Staged(view[c], id, E)
               log == lines[c] \o LinesOf(id, sets, E)
    <3>2. Put(c, g, log)
      BY <3>1 DEF Cut
    <3>3. Edited(view[c], g, id, kind, was, sets) /\ IsLog(log)
      BY <1>2
    <3>4. unread' = unread
      BY <1>4 DEF Dropped
    <3> HIDE DEF g, log
    <3>5. Ends(c, g, id, kind, was, sets, cross)
      BY <2>2, <3>3, <3>4 DEF Ends
    <3> QED
      BY <3>2, <3>3, <3>5
  <2> QED
    BY <1>4, <2>1, <2>2 DEF Dropped
<1> QED
  BY <1>3, <1>4 DEF StageSection, SectionWritten

LEMMA NewEnds ==
  ASSUME FilesInv, NEW c \in Configs, NEW kind \in Kinds,
         NEW sets, IsBatch(sets),
         \/ StageNew(c, kind, OptionsOf[kind], sets)
         \/ NewWritten(c, kind, OptionsOf[kind], sets)
  PROVE  \E g, log, id :
           /\ IsLog(log) /\ Put(c, g, log) /\ id \notin Ids(view[c])
           /\ Ends(c, g, id, kind, NoOptions(OptionsOf[kind]), sets, crossed)
<1> DEFINE id  == NewId(view[c], lines[c])
           was == NoOptions(OptionsOf[kind])
           es  == Edits(sets, was, {})
           a   == Append(view[c], Section(id, kind, was))
           l   == Append(lines[c], Line(id, "", FALSE))
<1>1. view[c] \in Seq(Sections) /\ Named(view[c]) /\ IsLog(lines[c])
  BY FilesAre
<1>2. ASSUME NEW E, E \subseteq es
      PROVE  LET g == Staged(a, id, E)
             IN  /\ Edited(view[c], g, id, kind, was, sets)
                 /\ E = es => InForce(sets, was, Of(g, id).opt)
                 /\ IsLog(l \o LinesOf(id, sets, E))
  <2>1. E \subseteq InBatch(sets)
    BY <1>2, PartIs
  <2>2. LET g == Staged(a, id, E)
        IN  /\ Edited(view[c], g, id, kind, was, sets)
            /\ E = es => InForce(sets, was, Of(g, id).opt)
            /\ IsLog(l)
    BY <1>1, <1>2, NewEdited
  <2> QED
    BY <2>1, <2>2, BatchLines
<1>3. id \notin Ids(view[c])
  BY <1>1, NewIdIs DEF IsLog
<1>4. /\ New(c, kind, OptionsOf[kind], sets).file = Staged(a, id, es)
      /\ New(c, kind, OptionsOf[kind], sets).log = l \o LinesOf(id, sets, es)
      /\ New(c, kind, OptionsOf[kind], sets).cuts = Cuts(a, l, id, sets, es)
  BY DEF New
<1> HIDE DEF id, was, a, l
<1>5. CASE \E rows : /\ Accepted(c, Staged(a, id, es), l \o LinesOf(id, sets, es), rows)
                     /\ UNCHANGED historyVars
  <2> DEFINE g == Staged(a, id, es)
             log == l \o LinesOf(id, sets, es)
  <2>1. Edited(view[c], g, id, kind, was, sets) /\ InForce(sets, was, Of(g, id).opt) /\ IsLog(log)
    BY <1>2
  <2>2. Put(c, g, log) /\ crossed' = crossed /\ unread' = unread /\ late' = late
    BY <1>5 DEF Accepted, historyVars
  <2> HIDE DEF g, log
  <2>3. Ends(c, g, id, kind, was, sets, crossed)
    BY <2>1, <2>2 DEF Ends
  <2> QED
    BY <1>3, <2>1, <2>2, <2>3 DEF was
<1>6. CASE Dropped(c, Cuts(a, l, id, sets, es))
  <2>1. CASE /\ Put(c, conf[c], <<>>)
             /\ crossed' = (crossed \/ (c = "dhcp" /\ Moving))
             /\ UNCHANGED late
    <3>1. unread' = unread /\ late' = late
      BY <1>6, <2>1 DEF Dropped
    <3>2. Ends(c, conf[c], id, kind, was, sets, crossed)
      BY <2>1, <3>1 DEF Ends, Back
    <3>3. IsLog(<<>>)
      BY <1>1, LogIs
    <3> QED
      BY <1>3, <2>1, <3>2, <3>3 DEF was
  <2>2. CASE /\ \E cut \in Cuts(a, l, id, sets, es) : Put(c, cut.file, cut.log)
             /\ crossed' = TRUE /\ late' = TRUE
    <3>1. PICK n \in 0 .. Len(sets) :
            LET E == es \cap {sets[i] : i \in 1 .. n}
            IN  Put(c, Cut(Staged(a, id, E), l \o LinesOf(id, sets, E)).file,
                       Cut(Staged(a, id, E), l \o LinesOf(id, sets, E)).log)
      BY <2>2 DEF Cuts
    <3> DEFINE E == es \cap {sets[i] : i \in 1 .. n}
               g == Staged(a, id, E)
               log == l \o LinesOf(id, sets, E)
    <3>2. Put(c, g, log)
      BY <3>1 DEF Cut
    <3>3. Edited(view[c], g, id, kind, was, sets) /\ IsLog(log)
      BY <1>2
    <3>4. unread' = unread
      BY <1>6 DEF Dropped
    <3> HIDE DEF g, log
    <3>5. Ends(c, g, id, kind, was, sets, crossed)
      BY <2>2, <3>3, <3>4 DEF Ends
    <3> QED
      BY <1>3, <3>2, <3>3, <3>5 DEF was
  <2> QED
    BY <1>6, <2>1, <2>2 DEF Dropped
<1> QED
  BY <1>4, <1>5, <1>6 DEF StageNew, NewWritten

\* What a file has to be to take its place in the draft.
LEMMA PutKeeps ==
  ASSUME NetworkInv, NEW c \in Configs, NEW g, NEW log, IsLog(log), Put(c, g, log),
         UNCHANGED conf, FlagsInv',
         crossed => crossed', late => late', unread => unread',
         c = "network" => /\ NetworkOK(g)
                          /\ ~late' => Tidy(g)
                          /\ ~crossed' => PoolIn(view["dhcp"], g),
         c = "dhcp" => /\ DhcpOK(g)
                       /\ ~unread' => ReservedOnce(g)
                       /\ ~crossed' => /\ PoolIn(g, conf["network"])
                                       /\ PoolIn(g, view["network"])
  PROVE  NetworkInv'
<1>1. /\ view'[c] = g /\ lines'[c] = log
      /\ \A d \in Configs : d # c => view'[d] = view[d] /\ lines'[d] = lines[d]
      /\ DOMAIN view' = Configs /\ DOMAIN lines' = Configs
  BY DEF NetworkInv, FilesInv, Put
<1>2. CASE c = "network"
  <2>1. view'["network"] = g /\ view'["dhcp"] = view["dhcp"]
    BY <1>1, <1>2 DEF Configs
  <2>2. FilesInv'
    BY <1>1, <1>2, <2>1 DEF NetworkInv, FilesInv
  <2>3. PoolInv' /\ TidyInv' /\ HostInv'
    BY <1>2, <2>1 DEF NetworkInv, PoolInv, TidyInv, HostInv
  <2> QED
    BY <2>2, <2>3 DEF NetworkInv
<1>3. CASE c = "dhcp"
  <2>1. view'["dhcp"] = g /\ view'["network"] = view["network"]
    BY <1>1, <1>3 DEF Configs
  <2>2. FilesInv'
    BY <1>1, <1>3, <2>1 DEF NetworkInv, FilesInv
  <2>3. PoolInv' /\ TidyInv' /\ HostInv'
    BY <1>3, <2>1 DEF NetworkInv, PoolInv, TidyInv, HostInv
  <2> QED
    BY <2>2, <2>3 DEF NetworkInv
<1> QED
  BY <1>2, <1>3 DEF Configs

\* The address the router has is the draft's, unless the draft changes it.
LEMMA Standing ==
  ASSUME ~Moving
  PROVE  NetworksOf(view["network"], "lan") = NetworksOf(conf["network"], "lan")
BY DEF Moving, NetworksOf, AddressesOf, Lan

\* The committed file fits where the draft's was.
LEMMA BackKeeps ==
  ASSUME NetworkInv, NEW c \in Configs, NEW g, NEW log, IsLog(log), Put(c, g, log),
         UNCHANGED conf, unread' = unread, Back(c, g)
  PROVE  NetworkInv'
<1>1. FlagsInv' /\ (crossed => crossed') /\ late' = late
  BY DEF NetworkInv, FlagsInv, Back, Moving
<1>2. CASE c = "network"
  <2>1. NetworkOK(g) /\ (~late' => Tidy(g)) /\ (~crossed' => PoolIn(view["dhcp"], g))
    BY <1>1, <1>2 DEF NetworkInv, FilesInv, TidyInv, PoolInv, Back
  <2> QED
    BY <1>1, <1>2, <2>1, PutKeeps
<1>3. CASE c = "dhcp"
  <2>1. DhcpOK(g) /\ (~unread' => ReservedOnce(g))
    BY <1>3 DEF NetworkInv, FilesInv, HostInv, Back
  <2>2. ASSUME ~crossed' PROVE PoolIn(g, conf["network"]) /\ PoolIn(g, view["network"])
    <3>1. ~crossed /\ ~Moving /\ g = conf["dhcp"]
      BY <1>3, <2>2 DEF Back
    <3>2. PoolIn(g, conf["network"])
      BY <3>1 DEF NetworkInv, PoolInv
    <3> QED
      BY <3>1, <3>2, Standing DEF PoolIn
  <2> QED
    BY <1>1, <1>3, <2>1, <2>2, PutKeeps
<1> QED
  BY <1>2, <1>3 DEF Configs

\* What has to be shown of a batch: what every part of it keeps, and what the
\* whole of it brings.
LEMMA EndsKeep ==
  ASSUME NetworkInv, NEW c \in Configs, NEW g, NEW log, NEW id, NEW kind, NEW was,
         NEW sets, NEW cross \in BOOLEAN, crossed => cross,
         IsLog(log), Put(c, g, log), UNCHANGED conf,
         Ends(c, g, id, kind, was, sets, cross),
         Edited(view[c], g, id, kind, was, sets)
         => /\ c = "network" => NetworkOK(g)
            /\ c = "dhcp" => DhcpOK(g) /\ (~unread => ReservedOnce(g)),
         Edited(view[c], g, id, kind, was, sets) /\ InForce(sets, was, Of(g, id).opt)
         => /\ c = "network" => /\ ~late => Tidy(g)
                                /\ ~cross => PoolIn(view["dhcp"], g)
            /\ c = "dhcp" /\ ~cross => /\ PoolIn(g, conf["network"])
                                       /\ PoolIn(g, view["network"])
  PROVE  NetworkInv'
<1>1. unread' = unread /\ FlagsInv
  BY DEF Ends, NetworkInv
<1>2. CASE Back(c, g)
  BY <1>1, <1>2, BackKeeps
<1>3. CASE /\ Edited(view[c], g, id, kind, was, sets)
           /\ InForce(sets, was, Of(g, id).opt)
           /\ crossed' = cross /\ late' = late
  <2>1. FlagsInv' /\ (crossed => crossed') /\ (late => late')
    BY <1>1, <1>3 DEF FlagsInv
  <2> QED
    BY <1>1, <1>3, <2>1, PutKeeps
<1>4. CASE /\ Edited(view[c], g, id, kind, was, sets)
           /\ crossed' = TRUE /\ late' = TRUE
  <2>1. FlagsInv' /\ (crossed => crossed') /\ (late => late')
    BY <1>1, <1>4 DEF FlagsInv
  <2> QED
    BY <1>1, <1>4, <2>1, PutKeeps
<1> QED
  BY <1>2, <1>3, <1>4 DEF Ends

-----------------------------------------------------------------------------
(***************************************************************************)
(* The uplink and this router's address.                                   *)
(***************************************************************************)

\* An edit of a connection that leaves its metric alone leaves the routes as
\* they are.
LEMMA ConnectionEdited ==
  ASSUME NEW file, NetworkOK(file), NEW n \in Interfaces, NEW g, NEW sets,
         "metric" \notin KeysOf(sets),
         Edited(file, g, IdOf(n), "interface", Of(file, IdOf(n)).opt, sets)
  PROVE  /\ g \in Seq(Sections) /\ Named(g)
         /\ \A m \in Interfaces : m # n => SameConnection(file, g, m)
         /\ \A m \in Interfaces : /\ IdOf(m) \in Ids(g)
                                  /\ Of(g, IdOf(m)).kind = "interface"
         /\ Connected(file) /\ DistinctRoutes(file)
            => Connected(g) /\ DistinctRoutes(g)
<1> DEFINE id == IdOf(n)
<1>1. /\ file \in Seq(Sections) /\ Named(file) /\ id \in Ids(file)
      /\ Of(file, id).kind = "interface"
  BY DEF NetworkOK
<1>2. /\ g \in Seq(Sections) /\ Named(g) /\ Touches(file, g, id) /\ id \in Ids(g)
      /\ Of(g, id).kind = "interface"
  BY DEF Edited, Touches
<1>3. ASSUME NEW m \in Interfaces, m # n PROVE SameConnection(file, g, m)
  <2>1. IdOf(m) # id /\ IdOf(m) \in Ids(file)
    BY <1>3, IdsDiffer DEF NetworkOK
  <2> QED
    BY <1>1, <1>2, <2>1, OthersStay DEF SameConnection
<1>4. ASSUME NEW m \in Interfaces
      PROVE  IdOf(m) \in Ids(g) /\ Of(g, IdOf(m)).kind = "interface"
  <2>1. CASE m = n
    BY <1>2, <2>1
  <2>2. CASE m # n
    BY <1>3, <2>2 DEF SameConnection, NetworkOK
  <2> QED
    BY <2>1, <2>2
<1>5. MetricOf(g, n) = MetricOf(file, n)
  <2>1. "metric" \in DOMAIN Of(file, id).opt
    <3>1. Of(file, id) \in Sections
      BY <1>1, OfIs
    <3>2. Of(file, id).opt \in [OptionsOf[Of(file, id).kind] -> Written]
      BY <3>1, SectionIs
    <3> QED
      BY <1>1, <3>2 DEF OptionsOf, InterfaceOptions
  <2>2. Of(g, id).opt["metric"] = Of(file, id).opt["metric"]
    BY <2>1 DEF Edited, Part, KeysOf
  <2> QED
    BY <2>2 DEF MetricOf
<1>6. \A m \in Interfaces : MetricOf(g, m) = MetricOf(file, m)
  BY <1>3, <1>5, SameReadings
<1>7. ASSUME NEW i \in DOMAIN g, IsRoute(g[i])
      PROVE  \E j \in DOMAIN file : g[i] = file[j]
  <2>1. g[i].id # id
    <3> SUFFICES ASSUME g[i].id = id PROVE FALSE
      OBVIOUS
    <3>1. g[i] = Of(g, id)
      BY <1>2, PosIs
    <3> QED
      BY <1>2, <1>7, <3>1 DEF IsRoute
  <2> QED
    BY <1>2, <2>1 DEF Touches
<1>8. Connected(file) /\ DistinctRoutes(file) => Connected(g) /\ DistinctRoutes(g)
  BY <1>6, <1>7, FewerRoutes
<1> QED
  BY <1>2, <1>3, <1>4, <1>8

LEMMA WanBatch ==
  ASSUME NEW q \in WANs
  PROVE  /\ IsBatch(WanSettings(q)) /\ "metric" \notin KeysOf(WanSettings(q))
         /\ KeysOf(WanSettings(q)) \subseteq InterfaceOptions
         /\ q.proto # "" /\ Setting("proto", q.proto, "") \in InBatch(WanSettings(q))
         /\ q.proto = "dhcp" /\ q.dns = ""
            => Setting("dns", "", "") \in InBatch(WanSettings(q))
         /\ q.proto = "dhcp" /\ q.dns # ""
            => Setting("peerdns", "0", "") \in InBatch(WanSettings(q))
<1> DEFINE p == <<Setting("proto", q.proto, "")>>
           Fine(t) == /\ IsBatch(t) /\ KeysOf(t) \cap {"proto", "metric"} = {}
                      /\ KeysOf(t) \subseteq InterfaceOptions
<1>1. /\ q.proto \in {"dhcp", "static", "pppoe"}
      /\ q.proto \in Written /\ q.address \in Written /\ q.netmask \in Written
      /\ q.gateway \in Written /\ q.dns \in Written /\ q.username \in Written
      /\ q.password \in Written
  BY RequestsAssumption DEF Written
<1>2. "" \in Written /\ "0" \in Written
  BY DEF Written
<1>3. InBatch(p) = {Setting("proto", q.proto, "")} /\ IsBatch(p) /\ KeysOf(p) = {"proto"}
  BY <1>1, BatchOfOne
<1> HIDE DEF p
<1>4. ASSUME NEW t, Fine(t)
      PROVE  /\ IsBatch(p \o t) /\ "metric" \notin KeysOf(p \o t)
             /\ KeysOf(p \o t) \subseteq InterfaceOptions
             /\ InBatch(p \o t) = {Setting("proto", q.proto, "")} \cup InBatch(t)
  <2>1. KeysOf(p) \cap KeysOf(t) = {}
    BY <1>3, <1>4
  <2>2. /\ IsBatch(p \o t) /\ InBatch(p \o t) = InBatch(p) \cup InBatch(t)
        /\ KeysOf(p \o t) = KeysOf(p) \cup KeysOf(t)
    BY <1>3, <1>4, <2>1, BatchJoined
  <2>3. "proto" \in InterfaceOptions
    BY DEF InterfaceOptions
  <2> QED
    BY <1>3, <1>4, <2>2, <2>3
<1>5. CASE q.proto = "dhcp" /\ q.dns = ""
  <2> DEFINE a == Setting("peerdns", "", "1")
             b == Setting("dns", "", "")
             t == <<a, b>>
  <2>0. a.key = "peerdns" /\ b.key = "dns" /\ a.value = "" /\ b.value = ""
    BY DEF Setting
  <2> HIDE DEF a, b
  <2>1. InBatch(t) = {a, b} /\ IsBatch(t) /\ KeysOf(t) = {"peerdns", "dns"}
    <3>1. a.key # b.key /\ a.value \in Written /\ b.value \in Written
      BY <1>1, <1>2, <2>0
    <3>2. InBatch(t) = {a, b} /\ IsBatch(t) /\ KeysOf(t) = {a.key, b.key}
      BY <3>1, BatchOfTwo
    <3> QED
      BY <2>0, <3>2
  <2>2. WanSettings(q) = p \o t
    BY <1>5 DEF WanSettings, p, a, b
  <2> HIDE DEF t
  <2>3. Fine(t)
    BY <2>1 DEF InterfaceOptions
  <2> QED
    BY <1>1, <1>4, <1>5, <2>1, <2>2, <2>3 DEF b
<1>6. CASE q.proto = "dhcp" /\ q.dns # ""
  <2> DEFINE a == Setting("peerdns", "0", "")
             b == Setting("dns", q.dns, "")
             t == <<a, b>>
  <2>0. a.key = "peerdns" /\ b.key = "dns" /\ a.value = "0" /\ b.value = q.dns
    BY DEF Setting
  <2> HIDE DEF a, b
  <2>1. InBatch(t) = {a, b} /\ IsBatch(t) /\ KeysOf(t) = {"peerdns", "dns"}
    <3>1. a.key # b.key /\ a.value \in Written /\ b.value \in Written
      BY <1>1, <1>2, <2>0
    <3>2. InBatch(t) = {a, b} /\ IsBatch(t) /\ KeysOf(t) = {a.key, b.key}
      BY <3>1, BatchOfTwo
    <3> QED
      BY <2>0, <3>2
  <2>2. WanSettings(q) = p \o t
    BY <1>6 DEF WanSettings, p, a, b
  <2> HIDE DEF t
  <2>3. Fine(t)
    BY <2>1 DEF InterfaceOptions
  <2> QED
    BY <1>1, <1>4, <1>6, <2>1, <2>2, <2>3 DEF a
<1>7. CASE q.proto = "static"
  <2> DEFINE a == Setting("ipaddr", q.address, "")
             b == Setting("netmask", q.netmask, "")
             u == <<a, b>>
             v == IfGiven("gateway", q.gateway)
             w == IfGiven("dns", q.dns)
  <2>0. /\ a.key = "ipaddr" /\ b.key = "netmask"
        /\ a.value = q.address /\ b.value = q.netmask
    BY DEF Setting
  <2> HIDE DEF a, b
  <2>1. IsBatch(u) /\ KeysOf(u) = {"ipaddr", "netmask"}
    BY <1>1, <2>0, BatchOfTwo
  <2>2. /\ IsBatch(v) /\ KeysOf(v) \subseteq {"gateway"}
        /\ IsBatch(w) /\ KeysOf(w) \subseteq {"dns"}
    BY <1>1, BatchIfGiven
  <2>3. WanSettings(q) = p \o (u \o v \o w)
    BY <1>7 DEF WanSettings, p, a, b
  <2> HIDE DEF u, v, w
  <2>4. IsBatch(u \o v) /\ KeysOf(u \o v) \subseteq {"ipaddr", "netmask", "gateway"}
    <3>1. KeysOf(u) \cap KeysOf(v) = {}
      BY <2>1, <2>2
    <3> QED
      BY <2>1, <2>2, <3>1, BatchJoined
  <2>5. Fine(u \o v \o w)
    <3>1. KeysOf(u \o v) \cap KeysOf(w) = {}
      BY <2>2, <2>4
    <3> QED
      BY <2>2, <2>4, <3>1, BatchJoined DEF InterfaceOptions
  <2> QED
    BY <1>1, <1>4, <1>7, <2>3, <2>5
<1>8. CASE q.proto = "pppoe"
  <2> DEFINE u == <<Setting("username", q.username, "")>>
             v == IfGiven("password", q.password)
             w == IfGiven("dns", q.dns)
  <2>1. IsBatch(u) /\ KeysOf(u) = {"username"}
    BY <1>1, BatchOfOne
  <2>2. /\ IsBatch(v) /\ KeysOf(v) \subseteq {"password"}
        /\ IsBatch(w) /\ KeysOf(w) \subseteq {"dns"}
    BY <1>1, BatchIfGiven
  <2>3. WanSettings(q) = p \o (u \o v \o w)
    BY <1>8 DEF WanSettings, p
  <2> HIDE DEF u, v, w
  <2>4. IsBatch(u \o v) /\ KeysOf(u \o v) \subseteq {"username", "password"}
    <3>1. KeysOf(u) \cap KeysOf(v) = {}
      BY <2>1, <2>2
    <3> QED
      BY <2>1, <2>2, <3>1, BatchJoined
  <2>5. Fine(u \o v \o w)
    <3>1. KeysOf(u \o v) \cap KeysOf(w) = {}
      BY <2>2, <2>4
    <3> QED
      BY <2>2, <2>4, <3>1, BatchJoined DEF InterfaceOptions
  <2> QED
    BY <1>1, <1>4, <1>8, <2>3, <2>5
<1> QED
  BY <1>1, <1>5, <1>6, <1>7, <1>8

\* An uplink asked for with resolvers has the provider's turned off, and one
\* asked for without has none: in force, the settings leave no third state.
LEMMA StageWANKeeps ==
  ASSUME NetworkInv, NEW q \in WANs, StageWAN(q)
  PROVE  NetworkInv'
<1> PICK c \in Configs : c = "network"
  BY DEF Configs
<1> PICK wan \in Interfaces : wan = "wan"
  BY DEF Interfaces
<1> PICK lan \in Interfaces : lan = "lan"
  BY DEF Interfaces
<1> DEFINE id   == IdOf(wan)
           was  == Of(view[c], id).opt
           sets == WanSettings(q)
<1>1. FilesInv /\ UNCHANGED conf /\ NetworkOK(view[c]) /\ crossed \in BOOLEAN
  BY DEF NetworkInv, FilesInv, FlagsInv, StageWAN, Counted
<1>2. id \in Ids(view[c]) /\ Of(view[c], id).kind = "interface" /\ wan # lan
  BY <1>1 DEF NetworkOK
<1>3. /\ IsBatch(sets) /\ "metric" \notin KeysOf(sets)
      /\ q.proto # "" /\ Setting("proto", q.proto, "") \in InBatch(sets)
      /\ q.proto = "dhcp" /\ q.dns = "" => Setting("dns", "", "") \in InBatch(sets)
      /\ q.proto = "dhcp" /\ q.dns # "" => Setting("peerdns", "0", "") \in InBatch(sets)
  BY WanBatch
<1>4. \E rows : StageSection(c, id, sets, rows, crossed)
  BY DEF StageWAN
<1> HIDE DEF sets, id
<1>5. PICK g, log : /\ IsLog(log) /\ Put(c, g, log)
                    /\ Ends(c, g, id, "interface", was, sets, crossed)
  BY <1>1, <1>2, <1>3, <1>4, SectionEnds
<1>6. ASSUME Edited(view[c], g, id, "interface", was, sets)
      PROVE  /\ NetworkOK(g)
             /\ NetworksOf(g, "lan") = NetworksOf(view[c], "lan")
             /\ Connected(view[c]) /\ DistinctRoutes(view[c])
                => Connected(g) /\ DistinctRoutes(g)
  <2>1. /\ g \in Seq(Sections) /\ Named(g)
        /\ \A m \in Interfaces : m # wan => SameConnection(view[c], g, m)
        /\ \A m \in Interfaces : /\ IdOf(m) \in Ids(g)
                                 /\ Of(g, IdOf(m)).kind = "interface"
        /\ Connected(view[c]) /\ DistinctRoutes(view[c])
           => Connected(g) /\ DistinctRoutes(g)
    BY <1>1, <1>2, <1>3, <1>6, ConnectionEdited DEF id
  <2>2. SameConnection(view[c], g, lan)
    BY <1>2, <2>1
  <2>3. NetworkOK(g)
    BY <1>1, <2>1, <2>2 DEF NetworkOK, SameConnection, Lan
  <2> QED
    BY <2>1, <2>2, <2>3, SameReadings
<1>7. ASSUME Edited(view[c], g, id, "interface", was, sets),
             InForce(sets, was, Of(g, id).opt)
      PROVE  Resolves(g)
  <2> DEFINE o == Of(g, id).opt
  <2>1. DOMAIN was = InterfaceOptions
    <3>1. Of(view[c], id) \in Sections
      BY <1>1, <1>2, OfIs DEF NetworkOK
    <3>2. was \in [OptionsOf[Of(view[c], id).kind] -> Written]
      BY <3>1, SectionIs
    <3> QED
      BY <1>2, <3>2 DEF OptionsOf
  <2> HIDE DEF was
  <2>2. InForce(sets, was, o)
    BY <1>7 DEF was
  <2> HIDE DEF o
  <2>3. o["proto"] = q.proto
    BY <1>3, <2>1, <2>2 DEF InForce, Setting, InterfaceOptions
  <2>4. q.proto = "dhcp" /\ q.dns = "" => o["dns"] = ""
    BY <1>3, <2>1, <2>2 DEF InForce, Setting, InterfaceOptions
  <2>5. q.proto = "dhcp" /\ q.dns # "" => o["peerdns"] = "0"
    BY <1>3, <2>1, <2>2 DEF InForce, Setting, InterfaceOptions
  <2> QED
    BY <2>3, <2>4, <2>5 DEF Resolves, o, id
<1> HIDE DEF was
<1>8. ~late => Connected(view[c]) /\ DistinctRoutes(view[c])
  BY DEF NetworkInv, TidyInv, Tidy
<1>9. ~crossed => PoolIn(view["dhcp"], view[c])
  BY DEF NetworkInv, PoolInv
<1>10. NetworksOf(g, "lan") = NetworksOf(view[c], "lan") /\ ~crossed
       => PoolIn(view["dhcp"], g)
  BY <1>9 DEF PoolIn
<1> QED
  BY <1>1, <1>5, <1>6, <1>7, <1>8, <1>10, EndsKeep DEF Tidy

\* A number that is written reads back.
LEMMA TextReads ==
  ASSUME NEW n \in Numbers
  PROVE  /\ Text(n) \in Written /\ Text(n) # ""
         /\ Text(n) \in DOMAIN NumberOf /\ NumberOf[Text(n)] = n
         /\ \A S : n \in S => Parses(Text(n), S)
<1>1. Text(n) \in Written /\ Text(n) # ""
  BY TextAssumption DEF Written
<1>2. Text(n) \in DOMAIN NumberOf /\ NumberOf[Text(n)] = CHOOSE m \in Numbers : Text(m) = Text(n)
  BY DEF NumberOf
<1>3. (CHOOSE m \in Numbers : Text(m) = Text(n)) = n
  BY TextAssumption
<1> QED
  BY <1>1, <1>2, <1>3 DEF Parses

LEMMA NumbersAre ==
  /\ Addresses \subseteq Numbers /\ Sizes \subseteq Numbers
  /\ \A a \in Addresses : a \in Int
  /\ \A s \in Sizes : s \in Nat /\ s > 0 /\ s <= Top + 1
BY PoolAssumption DEF Addresses, Numbers

\* The network of a connection with this address and mask, and of the router's.
LEMMA StaticNetwork ==
  ASSUME NEW file, NEW n, NEW a, NEW size,
         LET o == Of(file, IdOf(n)).opt
         IN  /\ o["proto"] = "static"
             /\ Parses(o["ipaddr"], Addresses) /\ Parses(o["netmask"], Sizes)
             /\ NumberOf[o["ipaddr"]] = a /\ NumberOf[o["netmask"]] = size
  PROVE  NetworksOf(file, n) = {Network(a, size)}
<1>1. AddressesOf(file, n) = {<<a, size>>}
  BY DEF AddressesOf
<1> QED
  BY <1>1 DEF NetworksOf

LEMMA LanIs ==
  ASSUME NEW file, NetworkOK(file)
  PROVE  \E a \in Addresses, size \in Sizes :
           NetworksOf(file, "lan") = {Network(a, size)}
<1> PICK lan : lan = "lan"
  OBVIOUS
<1> DEFINE o == Of(file, IdOf(lan)).opt
<1>1. /\ o["proto"] = "static"
      /\ Parses(o["ipaddr"], Addresses) /\ Parses(o["netmask"], Sizes)
  BY DEF NetworkOK, Lan
<1>2. NumberOf[o["ipaddr"]] \in Addresses /\ NumberOf[o["netmask"]] \in Sizes
  BY <1>1 DEF Parses
<1>3. NetworksOf(file, lan) = {Network(NumberOf[o["ipaddr"]], NumberOf[o["netmask"]])}
  BY <1>1, StaticNetwork
<1> QED
  BY <1>2, <1>3

LEMMA BatchOfThree ==
  ASSUME NEW a, NEW b, NEW d, a.key # b.key, b.key # d.key, a.key # d.key,
         a.value \in Written, b.value \in Written, d.value \in Written
  PROVE  /\ InBatch(<<a, b, d>>) = {a, b, d}
         /\ IsBatch(<<a, b, d>>) /\ KeysOf(<<a, b, d>>) = {a.key, b.key, d.key}
<1>1. <<a, b, d>> \in Seq({a, b, d}) /\ InBatch(<<a, b, d>>) = {a, b, d}
  BY DEF InBatch
<1>2. IsBatch(<<a, b, d>>) /\ KeysOf(<<a, b, d>>) = {a.key, b.key, d.key}
  BY <1>1 DEF IsBatch, IsLog, Once, Apart, KeysOf
<1> QED
  BY <1>1, <1>2

LanSettings(q) ==
  <<Setting("proto", "static", ""), Setting("ipaddr", Text(q[1]), ""),
    Setting("netmask", Text(q[2]), "")>>

LEMMA LanBatch ==
  ASSUME NEW q \in LANs
  PROVE  /\ IsBatch(LanSettings(q)) /\ "metric" \notin KeysOf(LanSettings(q))
         /\ KeysOf(LanSettings(q)) \subseteq InterfaceOptions
         /\ \E a, b, d : /\ InBatch(LanSettings(q)) = {a, b, d}
                         /\ a.key = "proto" /\ b.key = "ipaddr" /\ d.key = "netmask"
                         /\ a.value = "static" /\ b.value = Text(q[1])
                         /\ d.value = Text(q[2])
         /\ q[1] \in Addresses /\ q[2] \in Sizes
         /\ q[1] \in Numbers /\ q[2] \in Numbers
<1>1. q[1] \in Addresses /\ q[2] \in Sizes /\ q[1] \in Numbers /\ q[2] \in Numbers
  BY RequestsAssumption, NumbersAre
<1> DEFINE a == Setting("proto", "static", "")
           b == Setting("ipaddr", Text(q[1]), "")
           d == Setting("netmask", Text(q[2]), "")
<1>2. /\ a.key = "proto" /\ b.key = "ipaddr" /\ d.key = "netmask"
      /\ a.value = "static" /\ b.value = Text(q[1]) /\ d.value = Text(q[2])
  BY DEF Setting
<1> HIDE DEF a, b, d
<1>3. a.value \in Written /\ b.value \in Written /\ d.value \in Written
  <2>1. "static" \in Written
    BY DEF Written
  <2> QED
    BY <1>1, <1>2, <2>1, TextReads
<1>4. a.key # b.key /\ b.key # d.key /\ a.key # d.key
  BY <1>2
<1>5. /\ InBatch(<<a, b, d>>) = {a, b, d}
      /\ IsBatch(<<a, b, d>>) /\ KeysOf(<<a, b, d>>) = {a.key, b.key, d.key}
  BY <1>3, <1>4, BatchOfThree
<1>6. LanSettings(q) = <<a, b, d>>
  BY DEF LanSettings, a, b, d
<1>7. "metric" \notin KeysOf(<<a, b, d>>) /\ KeysOf(<<a, b, d>>) \subseteq InterfaceOptions
  BY <1>2, <1>5 DEF InterfaceOptions
<1>8. /\ IsBatch(LanSettings(q)) /\ "metric" \notin KeysOf(LanSettings(q))
      /\ KeysOf(LanSettings(q)) \subseteq InterfaceOptions
      /\ InBatch(LanSettings(q)) = {a, b, d}
  BY <1>5, <1>6, <1>7
<1> QED
  BY <1>1, <1>2, <1>8

\* The router's address stays one it can have after any part of the batch, and
\* the draft's pool was checked against the whole of it.
LEMMA StageLANKeeps ==
  ASSUME NetworkInv, NEW q \in LANs, StageLAN(q)
  PROVE  NetworkInv'
<1> PICK c \in Configs : c = "network"
  BY DEF Configs
<1> PICK lan \in Interfaces : lan = "lan"
  BY DEF Interfaces
<1> PICK wan \in Interfaces : wan = "wan"
  BY DEF Interfaces
<1> DEFINE id   == IdOf(lan)
           was  == Of(view[c], id).opt
           sets == LanSettings(q)
           es   == Edits(sets, was, {})
           fits == PoolFits(Pool(view["dhcp"]), Network(q[1], q[2]))
<1>1. FilesInv /\ UNCHANGED conf /\ NetworkOK(view[c]) /\ FlagsInv
  BY DEF NetworkInv, FilesInv, StageLAN, Counted
<1>2. /\ id = Lan /\ id \in Ids(view[c]) /\ Of(view[c], id).kind = "interface"
      /\ wan # lan
  BY <1>1 DEF NetworkOK, Lan
<1>3. /\ IsBatch(sets) /\ "metric" \notin KeysOf(sets)
      /\ \E a, b, d : /\ InBatch(sets) = {a, b, d}
                      /\ a.key = "proto" /\ b.key = "ipaddr" /\ d.key = "netmask"
                      /\ a.value = "static" /\ b.value = Text(q[1])
                      /\ d.value = Text(q[2])
      /\ q[1] \in Addresses /\ q[2] \in Sizes
      /\ q[1] \in Numbers /\ q[2] \in Numbers
  BY LanBatch
<1>4. \/ fits /\ \E rows : StageSection(c, id, sets, rows, crossed)
      \/ /\ ~fits /\ Accepted(c, Staged(view[c], id, es), lines[c] \o LinesOf(id, sets, es), <<>>)
         /\ crossed' = TRUE /\ unread' = unread /\ late' = late
  BY DEF StageLAN, LanSettings, Lan
<1>5. \E g, log : /\ IsLog(log) /\ Put(c, g, log)
                  /\ Ends(c, g, id, "interface", was, sets, crossed \/ ~fits)
  <2> HIDE DEF sets
  <2>1. CASE fits
    <3> HIDE DEF fits, id
    <3>1. \E g, log : /\ IsLog(log) /\ Put(c, g, log)
                      /\ Ends(c, g, id, Of(view[c], id).kind, was, sets, crossed)
      BY <1>1, <1>2, <1>3, <1>4, <2>1, SectionEnds
    <3>2. (crossed \/ ~fits) = crossed
      BY <1>1, <2>1 DEF FlagsInv
    <3> QED
      BY <1>2, <3>1, <3>2
  <2>2. CASE ~fits
    <3> HIDE DEF fits
    <3> DEFINE g == Staged(view[c], id, es)
               log == lines[c] \o LinesOf(id, sets, es)
    <3>1. /\ Edited(view[c], g, id, Of(view[c], id).kind, was, sets)
          /\ InForce(sets, was, Of(g, id).opt)
      BY <1>1, <1>2, <1>3, SectionEdited DEF NetworkOK
    <3>2. IsLog(log)
      <4>1. es \subseteq InBatch(sets)
        BY DEF Edits, InBatch
      <4> QED
        BY <1>1, <1>3, <4>1, BatchLines DEF FilesInv
    <3>3. Put(c, g, log)
      BY <1>4, <2>2 DEF Accepted
    <3>4. crossed' = (crossed \/ ~fits) /\ unread' = unread /\ late' = late
      BY <1>4, <2>2
    <3> HIDE DEF g, log, was
    <3>5. Ends(c, g, id, "interface", was, sets, crossed \/ ~fits)
      BY <1>2, <3>1, <3>4 DEF Ends
    <3> QED
      BY <3>2, <3>3, <3>5 DEF was
  <2> QED
    BY <2>1, <2>2
<1> HIDE DEF sets, id, fits
<1>6. PICK g, log : /\ IsLog(log) /\ Put(c, g, log)
                    /\ Ends(c, g, id, "interface", was, sets, crossed \/ ~fits)
  BY <1>5
<1>7. DOMAIN was = InterfaceOptions
  <2>1. Of(view[c], id) \in Sections
    BY <1>1, <1>2, OfIs DEF NetworkOK
  <2>2. was \in [OptionsOf[Of(view[c], id).kind] -> Written]
    BY <2>1, SectionIs
  <2> QED
    BY <1>2, <2>2 DEF OptionsOf
<1>8. /\ was["proto"] = "static"
      /\ Parses(was["ipaddr"], Addresses) /\ Parses(was["netmask"], Sizes)
  BY <1>1, <1>2 DEF NetworkOK
<1> HIDE DEF was
<1> DEFINE o == Of(g, id).opt
<1>9. ASSUME Edited(view[c], g, id, "interface", was, sets)
      PROVE  /\ NetworkOK(g)
             /\ ~late => Tidy(g)
  <2>1. /\ g \in Seq(Sections) /\ Named(g)
        /\ \A m \in Interfaces : m # lan => SameConnection(view[c], g, m)
        /\ \A m \in Interfaces : /\ IdOf(m) \in Ids(g)
                                 /\ Of(g, IdOf(m)).kind = "interface"
        /\ Connected(view[c]) /\ DistinctRoutes(view[c])
           => Connected(g) /\ DistinctRoutes(g)
    BY <1>1, <1>3, <1>9, ConnectionEdited DEF id, was
  <2>2. Part(sets, was, o)
    BY <1>9 DEF Edited
  <2> HIDE DEF o
  <2>3. o["proto"] = "static"
    BY <1>3, <1>7, <1>8, <2>2 DEF Part, InterfaceOptions
  <2>4. o["ipaddr"] = was["ipaddr"] \/ o["ipaddr"] = Text(q[1])
    BY <1>3, <1>7, <1>8, <2>2 DEF Part, InterfaceOptions
  <2>5. o["netmask"] = was["netmask"] \/ o["netmask"] = Text(q[2])
    BY <1>3, <1>7, <1>8, <2>2 DEF Part, InterfaceOptions
  <2>6. Parses(o["ipaddr"], Addresses) /\ Parses(o["netmask"], Sizes)
    BY <1>3, <1>8, <2>4, <2>5, TextReads
  <2>7. NetworkOK(g)
    BY <1>2, <2>1, <2>3, <2>6 DEF NetworkOK, o
  <2>8. Resolves(g) <=> Resolves(view[c])
    BY <1>2, <2>1, SameReadings
  <2> QED
    BY <2>1, <2>7, <2>8 DEF NetworkInv, TidyInv, Tidy
<1>10. ASSUME InForce(sets, was, o), Edited(view[c], g, id, "interface", was, sets),
              ~crossed, fits
       PROVE  PoolIn(view["dhcp"], g)
  <2> HIDE DEF o
  <2>1. o["proto"] = "static"
    <3>1. "proto" \in DOMAIN was
      BY <1>7 DEF InterfaceOptions
    <3>2. PICK x \in InBatch(sets) : x.key = "proto" /\ x.value = "static"
      BY <1>3
    <3> QED
      BY <1>10, <3>1, <3>2 DEF InForce
  <2>2. o["ipaddr"] = Text(q[1])
    <3>1. Text(q[1]) # "" /\ "ipaddr" \in DOMAIN was
      BY <1>3, <1>7, TextReads DEF InterfaceOptions
    <3>2. PICK x \in InBatch(sets) : x.key = "ipaddr" /\ x.value = Text(q[1])
      BY <1>3
    <3> QED
      BY <1>10, <3>1, <3>2 DEF InForce
  <2>3. o["netmask"] = Text(q[2])
    <3>1. Text(q[2]) # "" /\ "netmask" \in DOMAIN was
      BY <1>3, <1>7, TextReads DEF InterfaceOptions
    <3>2. PICK x \in InBatch(sets) : x.key = "netmask" /\ x.value = Text(q[2])
      BY <1>3
    <3> QED
      BY <1>10, <3>1, <3>2 DEF InForce
  <2>4. /\ Parses(o["ipaddr"], Addresses) /\ Parses(o["netmask"], Sizes)
        /\ NumberOf[o["ipaddr"]] = q[1] /\ NumberOf[o["netmask"]] = q[2]
    BY <1>3, <2>2, <2>3, TextReads
  <2>5. NetworksOf(g, lan) = {Network(q[1], q[2])}
    BY <2>1, <2>4, StaticNetwork DEF o, id
  <2> QED
    BY <1>10, <2>5 DEF PoolIn, fits, PoolFits
<1>11. (crossed \/ ~fits) \in BOOLEAN
  OBVIOUS
<1> QED
  BY <1>1, <1>6, <1>9, <1>10, <1>11, EndsKeep

-----------------------------------------------------------------------------
(***************************************************************************)
(* The handout.                                                            *)
(***************************************************************************)

\* What the panel writes for a first and a last address reads back as those.
LEMMA PoolRoundTrip ==
  ASSUME NEW n, n.base \in Int, n.size \in Nat, n.size <= Top + 1,
         NEW first \in Addresses, NEW last \in Addresses,
         PoolOffsets(n, first, last) # <<>>
  PROVE  LET p == PoolOffsets(n, first, last)
         IN  /\ p[1] \in Numbers /\ p[2] \in Numbers /\ p[2] # 0
             /\ PoolRange(n, p[1], p[2]) = <<first, last>>
<1>1. /\ Contains(n, first) /\ Contains(n, last) /\ first <= last /\ first # n.base
      /\ PoolOffsets(n, first, last) = <<first - n.base, last - first + 1>>
  BY DEF PoolOffsets
<1>2. /\ first \in Nat /\ first <= Top /\ last \in Nat /\ last <= Top /\ Top \in Nat
  BY PoolAssumption DEF Addresses
<1>3. /\ first - n.base \in Numbers /\ last - first + 1 \in Numbers
      /\ last - first + 1 # 0
  BY <1>1, <1>2 DEF Contains, Numbers
<1>4. AddOffset(n.base, first - n.base) = first
  BY <1>1, <1>2 DEF Contains, AddOffset
<1>5. AddOffset(n.base, (first - n.base) + (last - first + 1) - 1) = last
  BY <1>1, <1>2 DEF Contains, AddOffset
<1>6. first # NoAddress /\ last # NoAddress
  BY <1>2 DEF NoAddress
<1>7. PoolRange(n, first - n.base, last - first + 1) = <<first, last>>
  BY <1>1, <1>4, <1>5, <1>6 DEF PoolRange
<1> QED
  BY <1>1, <1>3, <1>7

LEMMA HandoutLands ==
  ASSUME NetworkOK(conf["network"]), NEW q \in Handouts,
         PoolOffsets(LanNetwork, q.first, q.last) # <<>>
  PROVE  LET pool == PoolOffsets(LanNetwork, q.first, q.last)
         IN  /\ NetworksOf(conf["network"], "lan") = {LanNetwork}
             /\ pool[1] \in Numbers /\ pool[2] \in Numbers
             /\ \A o : o["start"] = Text(pool[1]) /\ o["limit"] = Text(pool[2])
                       => HasPool(o) /\ Handout(o, LanNetwork) = <<q.first, q.last>>
<1> DEFINE pool == PoolOffsets(LanNetwork, q.first, q.last)
<1>1. PICK a \in Addresses, size \in Sizes :
        NetworksOf(conf["network"], "lan") = {Network(a, size)}
  BY LanIs
<1>2. LanNetwork = Network(a, size)
  BY <1>1 DEF LanNetwork
<1>3. LanNetwork.base \in Int /\ LanNetwork.size \in Nat /\ LanNetwork.size <= Top + 1
  <2>1. a \in Int /\ size \in Nat /\ size > 0 /\ size <= Top + 1
    BY NumbersAre
  <2>2. Network(a, size).base = a - (a % size) /\ Network(a, size).size = size
    BY DEF Network
  <2>3. a % size \in Int
    BY <2>1
  <2> QED
    BY <1>2, <2>1, <2>2, <2>3
<1>4. q.first \in Addresses /\ q.last \in Addresses
  BY RequestsAssumption
<1>5. /\ pool[1] \in Numbers /\ pool[2] \in Numbers /\ pool[2] # 0
      /\ PoolRange(LanNetwork, pool[1], pool[2]) = <<q.first, q.last>>
  BY <1>3, <1>4, PoolRoundTrip
<1> HIDE DEF pool
<1>6. ASSUME NEW o, o["start"] = Text(pool[1]), o["limit"] = Text(pool[2])
      PROVE  HasPool(o) /\ Handout(o, LanNetwork) = <<q.first, q.last>>
  <2>1. /\ Parses(Text(pool[1]), Numbers) /\ Parses(Text(pool[2]), Numbers)
        /\ NumberOf[Text(pool[1])] = pool[1] /\ NumberOf[Text(pool[2])] = pool[2]
    BY <1>5, TextReads
  <2>2. Text(pool[2]) # "0"
    <3>1. 0 \in Numbers
      BY PoolAssumption DEF Numbers
    <3> QED
      BY <1>5, <3>1, TextAssumption
  <2> QED
    BY <1>5, <1>6, <2>1, <2>2 DEF HasPool, Handout
<1> QED
  BY <1>1, <1>2, <1>5, <1>6 DEF pool

\* A section that is not the pool leaves the pool, and one that is no
\* reservation leaves the reservations.
LEMMA HostLeavesPool ==
  ASSUME NEW file, DhcpOK(file), NEW g, NEW id, id # Lan, Touches(file, g, id)
  PROVE  DhcpOK(g) /\ Pool(g) = Pool(file)
<1>1. file \in Seq(Sections) /\ Named(file) /\ Lan \in Ids(file)
  BY DEF DhcpOK
<1>2. Lan \in Ids(g) /\ Of(g, Lan) = Of(file, Lan)
  BY <1>1, OthersStay
<1> QED
  BY <1>2 DEF DhcpOK, Touches, Pool

LEMMA FewerHosts ==
  ASSUME NEW file, NEW g, Named(g), ReservedOnce(file),
         \A i \in DOMAIN g : g[i].kind = "host" => \E j \in DOMAIN file : g[i] = file[j]
  PROVE  ReservedOnce(g)
<1> SUFFICES ASSUME NEW i \in Reserved(g), NEW j \in Reserved(g),
                    g[i].opt["mac"] = g[j].opt["mac"]
             PROVE  i = j
  BY DEF ReservedOnce
<1>1. PICK k \in DOMAIN file : g[i] = file[k]
  BY DEF Reserved
<1>2. PICK l \in DOMAIN file : g[j] = file[l]
  BY DEF Reserved
<1>3. k \in Reserved(file) /\ l \in Reserved(file)
  BY <1>1, <1>2 DEF Reserved
<1>4. k = l
  BY <1>1, <1>2, <1>3 DEF ReservedOnce
<1> QED
  BY <1>1, <1>2, <1>4 DEF Named, Reserved

LEMMA PoolEdited ==
  ASSUME NEW file, DhcpOK(file), NEW g, NEW sets,
         Edited(file, g, Lan, "dhcp", Pool(file), sets)
  PROVE  /\ DhcpOK(g) /\ Part(sets, Pool(file), Pool(g))
         /\ ReservedOnce(file) => ReservedOnce(g)
         /\ DOMAIN Pool(file) = PoolOptions
<1>1. DhcpOK(g) /\ Part(sets, Pool(file), Pool(g))
  BY DEF DhcpOK, Edited, Touches, Pool
<1>2. ASSUME NEW i \in DOMAIN g, g[i].kind = "host"
      PROVE  \E j \in DOMAIN file : g[i] = file[j]
  <2>1. g[i].id # Lan
    <3> SUFFICES ASSUME g[i].id = Lan PROVE FALSE
      OBVIOUS
    <3>1. g[i] = Of(g, Lan)
      BY <1>1, PosIs DEF DhcpOK
    <3> QED
      BY <1>1, <1>2, <3>1 DEF DhcpOK
  <2> QED
    BY <2>1 DEF Edited, Touches
<1>3. ReservedOnce(file) => ReservedOnce(g)
  BY <1>1, <1>2, FewerHosts DEF DhcpOK
<1>4. DOMAIN Pool(file) = PoolOptions
  <2>1. Of(file, Lan) \in Sections
    BY OfIs DEF DhcpOK
  <2>2. Of(file, Lan).opt \in [OptionsOf[Of(file, Lan).kind] -> Written]
    BY <2>1, SectionIs
  <2> QED
    BY <2>2 DEF OptionsOf, DhcpOK, Pool
<1> QED
  BY <1>1, <1>3, <1>4

\* The two batches of a handout.
HandoutOff == <<Setting("ignore", "1", "")>>

HandoutOn(q) ==
  LET pool == PoolOffsets(LanNetwork, q.first, q.last)
  IN  <<Setting("ignore", "", ""), Setting("start", Text(pool[1]), ""),
        Setting("limit", Text(pool[2]), "")>>
      \o (IF q.lease > 0 THEN <<Setting("leasetime", LeaseText[q.lease], "")>>
          ELSE <<>>)

LEMMA HandoutOffBatch ==
  IsBatch(HandoutOff) /\ KeysOf(HandoutOff) = {"ignore"}
<1> DEFINE a == Setting("ignore", "1", "")
<1>1. a.key = "ignore" /\ a.value = "1" /\ "1" \in Written
  BY DEF Setting, Written
<1> HIDE DEF a
<1>2. <<a>> \in Seq({a}) /\ InBatch(<<a>>) = {a}
  BY DEF InBatch
<1>3. IsBatch(<<a>>) /\ KeysOf(<<a>>) = {"ignore"}
  BY <1>1, <1>2 DEF IsBatch, IsLog, Once, Apart, KeysOf
<1> QED
  BY <1>3 DEF HandoutOff, a

LEMMA HandoutOnBatch ==
  ASSUME NEW q \in Handouts, NetworkOK(conf["network"]),
         PoolOffsets(LanNetwork, q.first, q.last) # <<>>
  PROVE  LET pool == PoolOffsets(LanNetwork, q.first, q.last)
         IN  /\ IsBatch(HandoutOn(q))
             /\ \E s \in InBatch(HandoutOn(q)) :
                  s.key = "ignore" /\ s.value = "" /\ s.same = ""
             /\ \E s \in InBatch(HandoutOn(q)) :
                  s.key = "start" /\ s.value = Text(pool[1])
             /\ \E s \in InBatch(HandoutOn(q)) :
                  s.key = "limit" /\ s.value = Text(pool[2])
             /\ Text(pool[1]) # "" /\ Text(pool[2]) # ""
<1> DEFINE pool == PoolOffsets(LanNetwork, q.first, q.last)
           a == Setting("ignore", "", "")
           b == Setting("start", Text(pool[1]), "")
           d == Setting("limit", Text(pool[2]), "")
           t == IF q.lease > 0 THEN <<Setting("leasetime", LeaseText[q.lease], "")>>
                ELSE <<>>
<1>1. pool[1] \in Numbers /\ pool[2] \in Numbers
  BY HandoutLands
<1> HIDE DEF pool
<1>2. /\ a.key = "ignore" /\ b.key = "start" /\ d.key = "limit" /\ a.same = ""
      /\ a.value = "" /\ b.value = Text(pool[1]) /\ d.value = Text(pool[2])
  BY DEF Setting
<1>3. IsBatch(t) /\ KeysOf(t) \subseteq {"leasetime"}
  <2>1. CASE q.lease > 0
    <3> DEFINE e == Setting("leasetime", LeaseText[q.lease], "")
    <3>1. e.key = "leasetime" /\ e.value = LeaseText[q.lease]
      BY DEF Setting
    <3>2. LeaseText[q.lease] \in Written
      BY <2>1, RequestsAssumption DEF Written
    <3>3. t = <<e>>
      BY <2>1
    <3> HIDE DEF e, t
    <3>4. <<e>> \in Seq({e}) /\ InBatch(<<e>>) = {e}
      BY DEF InBatch
    <3>5. IsBatch(<<e>>) /\ KeysOf(<<e>>) = {"leasetime"}
      BY <3>1, <3>2, <3>4 DEF IsBatch, IsLog, Once, Apart, KeysOf
    <3> QED
      BY <3>3, <3>5
  <2>2. CASE ~(q.lease > 0)
    BY <2>2, BatchOfNone
  <2> QED
    BY <2>1, <2>2
<1>4. HandoutOn(q) = <<a, b, d>> \o t
  BY DEF HandoutOn, pool
<1> HIDE DEF a, b, d, t
<1>5. /\ a.value \in Written /\ b.value \in Written /\ d.value \in Written
      /\ Text(pool[1]) # "" /\ Text(pool[2]) # ""
  <2>1. "" \in Written
    BY DEF Written
  <2> QED
    BY <1>1, <1>2, <2>1, TextReads
<1>6. a.key # b.key /\ b.key # d.key /\ a.key # d.key
  BY <1>2
<1>7. /\ InBatch(<<a, b, d>>) = {a, b, d} /\ IsBatch(<<a, b, d>>)
      /\ KeysOf(<<a, b, d>>) = {a.key, b.key, d.key}
  <2>1. a.value \in Written /\ b.value \in Written /\ d.value \in Written
    BY <1>5
  <2> QED
    BY <1>6, <2>1, BatchOfThree
<1>8. KeysOf(<<a, b, d>>) \cap KeysOf(t) = {}
  BY <1>2, <1>3, <1>7
<1>9. /\ IsBatch(<<a, b, d>> \o t)
      /\ InBatch(<<a, b, d>> \o t) = InBatch(<<a, b, d>>) \cup InBatch(t)
  BY <1>3, <1>7, <1>8, BatchJoined
<1>10. /\ IsBatch(HandoutOn(q)) /\ a \in InBatch(HandoutOn(q))
       /\ b \in InBatch(HandoutOn(q)) /\ d \in InBatch(HandoutOn(q))
  BY <1>4, <1>7, <1>9
<1> DEFINE S == InBatch(HandoutOn(q))
<1> HIDE DEF S
<1>11. a \in S /\ b \in S /\ d \in S
  BY <1>10 DEF S
<1>12. /\ \E s \in S : s.key = "ignore" /\ s.value = "" /\ s.same = ""
       /\ \E s \in S : s.key = "start" /\ s.value = Text(pool[1])
       /\ \E s \in S : s.key = "limit" /\ s.value = Text(pool[2])
  BY <1>2, <1>11
<1> QED
  BY <1>5, <1>10, <1>12 DEF pool, S

\* The options of the pool once a handout is in force.
LEMMA HandoutInForce ==
  ASSUME NEW q \in Handouts, NetworkOK(conf["network"]),
         PoolOffsets(LanNetwork, q.first, q.last) # <<>>,
         NEW was, DOMAIN was = PoolOptions, NEW o, InForce(HandoutOn(q), was, o)
  PROVE  /\ o["ignore"] = "" /\ HasPool(o)
         /\ Handout(o, LanNetwork) = <<q.first, q.last>>
<1> DEFINE pool == PoolOffsets(LanNetwork, q.first, q.last)
           sets == HandoutOn(q)
<1>1. /\ \E s \in InBatch(sets) : s.key = "ignore" /\ s.value = "" /\ s.same = ""
      /\ \E s \in InBatch(sets) : s.key = "start" /\ s.value = Text(pool[1])
      /\ \E s \in InBatch(sets) : s.key = "limit" /\ s.value = Text(pool[2])
      /\ Text(pool[1]) # "" /\ Text(pool[2]) # ""
  BY HandoutOnBatch
<1>2. InForce(sets, was, o)
  OBVIOUS
<1> HIDE DEF pool, sets
<1>3. o["ignore"] = ""
  BY <1>1, <1>2 DEF InForce, PoolOptions
<1>4. o["start"] = Text(pool[1])
  BY <1>1, <1>2 DEF InForce, PoolOptions
<1>5. o["limit"] = Text(pool[2])
  BY <1>1, <1>2 DEF InForce, PoolOptions
<1> QED
  BY <1>3, <1>4, <1>5, HandoutLands DEF pool

LEMMA StageHandoutKeeps ==
  ASSUME NetworkInv, NEW q \in Handouts, StageHandout(q)
  PROVE  NetworkInv'
<1> PICK c \in Configs : c = "dhcp"
  BY DEF Configs
<1> DEFINE was == Pool(view[c])
<1>1. /\ FilesInv /\ UNCHANGED conf /\ DhcpOK(view[c]) /\ FlagsInv
      /\ NetworkOK(conf["network"])
  BY DEF NetworkInv, FilesInv, StageHandout, Counted
<1>2. Lan \in Ids(view[c]) /\ Of(view[c], Lan).kind = "dhcp" /\ was = Of(view[c], Lan).opt
  BY <1>1 DEF DhcpOK, Pool
<1> HIDE DEF was
<1>3. ~unread => ReservedOnce(view[c])
  BY DEF NetworkInv, HostInv
<1>4. ASSUME NEW g, NEW sets, Edited(view[c], g, Lan, "dhcp", was, sets)
      PROVE  /\ DhcpOK(g) /\ (~unread => ReservedOnce(g))
             /\ Part(sets, was, Of(g, Lan).opt) /\ DOMAIN was = PoolOptions
  BY <1>1, <1>3, <1>4, PoolEdited DEF was, Pool
<1>5. CASE q.enabled
  <2> DEFINE sets == HandoutOn(q)
             cross == crossed \/ Moving
  <2>1. /\ PoolOffsets(LanNetwork, q.first, q.last) # <<>>
        /\ \E rows : StageSection(c, Lan, sets, rows, cross)
    BY <1>5 DEF StageHandout, HandoutOn
  <2>2. IsBatch(sets)
    BY <1>1, <2>1, HandoutOnBatch
  <2> HIDE DEF sets, cross
  <2>3. PICK g, log : /\ IsLog(log) /\ Put(c, g, log)
                      /\ Ends(c, g, Lan, "dhcp", was, sets, cross)
    BY <1>1, <1>2, <2>1, <2>2, SectionEnds
  <2>4. ASSUME Edited(view[c], g, Lan, "dhcp", was, sets),
               InForce(sets, was, Of(g, Lan).opt), ~cross
        PROVE  PoolIn(g, conf["network"]) /\ PoolIn(g, view["network"])
    <3>1. HasPool(Pool(g)) /\ Handout(Pool(g), LanNetwork) = <<q.first, q.last>>
      BY <1>1, <1>4, <2>1, <2>4, HandoutInForce DEF sets, Pool
    <3>2. NetworksOf(conf["network"], "lan") = {LanNetwork}
      BY <1>1, <2>1, HandoutLands
    <3>3. NetworksOf(view["network"], "lan") = NetworksOf(conf["network"], "lan")
      BY <2>4, Standing DEF cross
    <3>4. <<q.first, q.last>> # <<>>
      OBVIOUS
    <3> QED
      BY <3>1, <3>2, <3>3, <3>4 DEF PoolIn
  <2>5. cross \in BOOLEAN /\ (crossed => cross)
    BY DEF cross
  <2> QED
    BY <1>1, <1>4, <2>3, <2>4, <2>5, EndsKeep
<1>6. CASE ~q.enabled
  <2> DEFINE sets == HandoutOff
  <2>1. \E rows : StageSection(c, Lan, sets, rows, crossed)
    BY <1>6 DEF StageHandout, HandoutOff
  <2>2. IsBatch(sets) /\ KeysOf(sets) = {"ignore"}
    BY HandoutOffBatch
  <2> HIDE DEF sets
  <2>3. PICK g, log : /\ IsLog(log) /\ Put(c, g, log)
                      /\ Ends(c, g, Lan, "dhcp", was, sets, crossed)
    BY <1>1, <1>2, <2>1, <2>2, SectionEnds
  <2>4. ASSUME Edited(view[c], g, Lan, "dhcp", was, sets), ~crossed
        PROVE  PoolIn(g, conf["network"]) /\ PoolIn(g, view["network"])
    <3>1. Part(sets, was, Pool(g)) /\ DOMAIN was = PoolOptions
      BY <1>4, <2>4 DEF Pool
    <3>2. Pool(g)["start"] = was["start"] /\ Pool(g)["limit"] = was["limit"]
      BY <2>2, <3>1 DEF Part, KeysOf, PoolOptions
    <3>3. \A f : PoolIn(view[c], f) => PoolIn(g, f)
      BY <3>2 DEF PoolIn, HasPool, Handout, was
    <3> QED
      BY <2>4, <3>3 DEF NetworkInv, PoolInv
  <2>5. crossed \in BOOLEAN
    BY <1>1 DEF FlagsInv
  <2> QED
    BY <1>1, <1>4, <2>3, <2>4, <2>5, EndsKeep
<1> QED
  BY <1>5, <1>6

-----------------------------------------------------------------------------
(***************************************************************************)
(* Reservations.                                                           *)
(***************************************************************************)

LEMMA HostBatch ==
  ASSUME NEW q \in Hosts
  PROVE  /\ IsBatch(HostSettings(q)) /\ q.ip \in Addresses
         /\ \A s \in InBatch(HostSettings(q)) : s.key = "mac" => s.value = q.mac
<1> DEFINE a == Setting("mac", q.mac, "")
           b == Setting("ip", Text(q.ip), "")
           t == IfGiven("name", q.name)
<1>1. /\ q.mac \in Written /\ q.name \in Written /\ q.ip \in Addresses
      /\ q.ip \in Numbers
  BY RequestsAssumption, NumbersAre DEF Written
<1>2. a.key = "mac" /\ b.key = "ip" /\ a.value = q.mac /\ b.value = Text(q.ip)
  BY DEF Setting
<1>3. IsBatch(t) /\ KeysOf(t) \subseteq {"name"}
  BY <1>1, BatchIfGiven
<1>4. HostSettings(q) = <<a, b>> \o t
  BY DEF HostSettings
<1> HIDE DEF a, b, t
<1>5. a.key # b.key /\ a.value \in Written /\ b.value \in Written
  BY <1>1, <1>2, TextReads
<1>6. /\ InBatch(<<a, b>>) = {a, b} /\ IsBatch(<<a, b>>)
      /\ KeysOf(<<a, b>>) = {a.key, b.key}
  BY <1>5, BatchOfTwo
<1>7. KeysOf(<<a, b>>) \cap KeysOf(t) = {}
  BY <1>2, <1>3, <1>6
<1>8. /\ IsBatch(<<a, b>> \o t)
      /\ InBatch(<<a, b>> \o t) = InBatch(<<a, b>>) \cup InBatch(t)
  BY <1>3, <1>6, <1>7, BatchJoined
<1>9. \A s \in InBatch(t) : s.key # "mac"
  BY <1>3 DEF KeysOf
<1>10. \A s \in InBatch(<<a, b>> \o t) : s.key = "mac" => s.value = q.mac
  BY <1>2, <1>6, <1>8, <1>9
<1> QED
  BY <1>1, <1>4, <1>8, <1>10

\* Of a device's reservations there is a first.
LEMMA FirstIs ==
  ASSUME NEW T, T \subseteq Nat, T # {}
  PROVE  LET x == CHOOSE i \in T : \A j \in T : i <= j IN x \in T
<1>1. IsWellFoundedOn(OpToRel(<, Nat), Nat)
  BY NatLessThanWellFounded
<1>2. PICK x \in T : \A y \in T : ~(<<y, x>> \in OpToRel(<, Nat))
  BY <1>1, WFMin
<1>3. ASSUME NEW y \in T PROVE x <= y
  <2>1. ~(y < x)
    BY <1>2 DEF OpToRel
  <2> QED
    BY <2>1
<1> QED
  BY <1>3

OwnOrNone(file, q, id, was) ==
  /\ "mac" \in DOMAIN was /\ was["mac"] \in {"", q.mac}
  /\ \A l \in Known(file, q) : file[l].id = id

\* A reservation that is new, or this device's own, leaves every other device
\* its one: after a part of the batch the section has this device or none.
LEMMA HostEdited ==
  ASSUME NEW q \in Hosts, NEW file, DhcpOK(file), ReservedOnce(file), NEW g, NEW id,
         NEW was, NEW kind, Edited(file, g, id, kind, was, HostSettings(q)),
         OwnOrNone(file, q, id, was)
  PROVE  ReservedOnce(g)
<1>1. Touches(file, g, id) /\ Named(g) /\ id \in Ids(g)
  BY DEF Edited, Touches
<1>2. Of(g, id).opt["mac"] \in {"", q.mac}
  <2>1. \A s \in InBatch(HostSettings(q)) : s.key = "mac" => s.value = q.mac
    BY HostBatch
  <2> QED
    BY <2>1 DEF Edited, Part, OwnOrNone
<1>3. ASSUME NEW i \in Reserved(g), g[i].id = id PROVE g[i].opt["mac"] = q.mac
  <2>1. g[i] = Of(g, id)
    BY <1>1, <1>3, PosIs DEF Reserved
  <2> QED
    BY <1>2, <2>1 DEF Reserved
<1>4. ASSUME NEW i \in Reserved(g), g[i].id # id
      PROVE  \E l \in Reserved(file) : g[i] = file[l] /\ g[i].opt["mac"] # q.mac
  <2>1. PICK l \in DOMAIN file : g[i] = file[l]
    BY <1>1, <1>4 DEF Touches, Reserved
  <2>2. l \in Reserved(file)
    BY <2>1 DEF Reserved
  <2>3. l \notin Known(file, q)
    BY <1>4, <2>1 DEF OwnOrNone
  <2> QED
    BY <2>1, <2>2, <2>3 DEF Known
<1> SUFFICES ASSUME NEW i \in Reserved(g), NEW j \in Reserved(g),
                    g[i].opt["mac"] = g[j].opt["mac"]
             PROVE  g[i].id = g[j].id
  BY <1>1 DEF ReservedOnce, Named, Reserved
<1>5. CASE g[i].id = id \/ g[j].id = id
  BY <1>3, <1>4, <1>5
<1>6. CASE g[i].id # id /\ g[j].id # id
  <2>1. PICK k \in Reserved(file) : g[i] = file[k]
    BY <1>4, <1>6
  <2>2. PICK l \in Reserved(file) : g[j] = file[l]
    BY <1>4, <1>6
  <2> QED
    BY <2>1, <2>2 DEF ReservedOnce
<1> QED
  BY <1>5, <1>6

LEMMA NewIs ==
  ASSUME FilesInv, NEW c \in Configs, NEW kind \in Kinds, NEW sets, IsBatch(sets)
  PROVE  LET new == New(c, kind, OptionsOf[kind], sets)
         IN  /\ IsLog(new.log)
             /\ \E id : /\ id \notin Ids(view[c])
                        /\ Edited(view[c], new.file, id, kind,
                                  NoOptions(OptionsOf[kind]), sets)
<1> DEFINE id  == NewId(view[c], lines[c])
           was == NoOptions(OptionsOf[kind])
           es  == Edits(sets, was, {})
           a   == Append(view[c], Section(id, kind, was))
           l   == Append(lines[c], Line(id, "", FALSE))
           new == New(c, kind, OptionsOf[kind], sets)
<1>1. view[c] \in Seq(Sections) /\ Named(view[c]) /\ IsLog(lines[c])
  BY FilesAre
<1>2. LET g == Staged(a, id, es)
      IN  /\ Edited(view[c], g, id, kind, was, sets) /\ id \notin Ids(view[c])
          /\ IsLog(l)
  BY <1>1, NewEdited
<1>3. es \subseteq InBatch(sets)
  BY DEF Edits, InBatch
<1>4. new.file = Staged(a, id, es) /\ new.log = l \o LinesOf(id, sets, es)
  BY DEF New
<1> HIDE DEF id, was, es, a, l, new
<1>5. IsLog(new.log)
  BY <1>2, <1>3, <1>4, BatchLines
<1>6. Edited(view[c], new.file, id, kind, was, sets) /\ id \notin Ids(view[c])
  BY <1>2, <1>4
<1> QED
  BY <1>5, <1>6 DEF was, new

LEMMA StageReservationKeeps ==
  ASSUME NetworkInv, NEW q \in Hosts, StageReservation(q)
  PROVE  NetworkInv'
<1> PICK c \in Configs : c = "dhcp"
  BY DEF Configs
<1> PICK kind \in Kinds : kind = "host"
  BY DEF Kinds
<1> DEFINE file  == view[c]
           known == Known(file, q)
           first == file[CHOOSE i \in known : \A j \in known : i <= j]
           sets  == HostSettings(q)
           blank == NoOptions(OptionsOf[kind])
<1>1. /\ FilesInv /\ UNCHANGED conf /\ DhcpOK(file) /\ FlagsInv
      /\ file \in Seq(Sections) /\ Named(file)
  BY DEF NetworkInv, FilesInv, StageReservation, Counted, DhcpOK
<1>2. IsBatch(sets)
  BY HostBatch
<1>3. OptionsOf[kind] = HostOptions
  BY DEF OptionsOf
<1>4. "mac" \in DOMAIN blank /\ blank["mac"] = ""
  BY <1>3 DEF NoOptions, HostOptions
<1>5. ~crossed => PoolIn(file, conf["network"]) /\ PoolIn(file, view["network"])
  BY DEF NetworkInv, PoolInv
<1>6. ~unread => ReservedOnce(file)
  BY DEF NetworkInv, HostInv
<1>7. \/ /\ known = {}
         /\ \/ StageNew(c, kind, OptionsOf[kind], sets)
            \/ NewWritten(c, kind, OptionsOf[kind], sets)
      \/ /\ known # {}
         /\ \E rows : \/ StageSection(c, first.id, sets, rows, crossed)
                      \/ SectionWritten(c, first.id, sets, rows, crossed)
      \/ LET new == New(c, kind, OptionsOf[kind], sets)
         IN  /\ Accepted(c, new.file, new.log, new.rows)
             /\ unread' = TRUE /\ crossed' = crossed /\ late' = late
  BY <1>3 DEF StageReservation
<1> HIDE DEF file, sets, blank
<1>8. ASSUME NEW g, NEW id, id # Lan, Touches(file, g, id)
      PROVE  /\ DhcpOK(g)
             /\ ~crossed => PoolIn(g, conf["network"]) /\ PoolIn(g, view["network"])
  <2>1. DhcpOK(g) /\ Pool(g) = Pool(file)
    BY <1>1, <1>8, HostLeavesPool
  <2> QED
    BY <1>5, <2>1 DEF PoolIn
<1>9. Lan \in Ids(file) /\ crossed \in BOOLEAN
  BY <1>1 DEF DhcpOK, FlagsInv
<1>10. CASE /\ known = {}
            /\ \/ StageNew(c, kind, OptionsOf[kind], sets)
               \/ NewWritten(c, kind, OptionsOf[kind], sets)
  <2>1. PICK g, log, id : /\ IsLog(log) /\ Put(c, g, log) /\ id \notin Ids(file)
                          /\ Ends(c, g, id, kind, blank, sets, crossed)
    BY <1>1, <1>2, <1>10, NewEnds DEF file, blank
  <2>2. id # Lan
    BY <1>9, <2>1
  <2>3. ASSUME Edited(file, g, id, kind, blank, sets)
        PROVE  /\ DhcpOK(g) /\ (~unread => ReservedOnce(g))
               /\ ~crossed => PoolIn(g, conf["network"]) /\ PoolIn(g, view["network"])
    <3>1. Touches(file, g, id)
      BY <2>3 DEF Edited
    <3>2. ASSUME ~unread PROVE ReservedOnce(g)
      <4>1. OwnOrNone(file, q, id, blank)
        BY <1>4, <1>10 DEF OwnOrNone
      <4> QED
        BY <1>1, <1>6, <2>3, <3>2, <4>1, HostEdited DEF sets
    <3> QED
      BY <1>8, <2>2, <3>1, <3>2
  <2> QED
    BY <1>1, <1>9, <2>1, <2>3, EndsKeep DEF file
<1>11. CASE /\ known # {}
            /\ \E rows : \/ StageSection(c, first.id, sets, rows, crossed)
                         \/ SectionWritten(c, first.id, sets, rows, crossed)
  <2> DEFINE k == CHOOSE i \in known : \A j \in known : i <= j
             id == first.id
             was == Of(file, id).opt
  <2>1. k \in known /\ k \in DOMAIN file
    <3>1. known \subseteq DOMAIN file
      BY DEF Known, Reserved
    <3>2. known # {} /\ known \subseteq Nat
      <4>1. file \in Seq(Sections)
        BY <1>1
      <4>2. DOMAIN file = 1 .. Len(file) /\ Len(file) \in Nat
        BY <4>1, LenProperties
      <4> HIDE DEF known
      <4> QED
        BY <1>11, <3>1, <4>2
    <3> HIDE DEF known
    <3>3. k \in known
      BY <3>2, FirstIs
    <3> QED
      BY <3>1, <3>3
  <2>2. /\ file[k].kind = "host" /\ file[k].opt["mac"] = q.mac /\ first = file[k]
        /\ k \in Reserved(file)
    BY <2>1 DEF Known, Reserved
  <2> HIDE DEF k, first
  <2>3. Of(file, id) = file[k] /\ id \in Ids(file)
    BY <1>1, <2>1, <2>2, PosIs DEF Ids
  <2>4. id # Lan
    BY <1>1, <2>2, <2>3 DEF DhcpOK
  <2>5. "mac" \in DOMAIN was
    <3>1. file[k] \in Sections
      BY <1>1, <2>1, ElementOfSeq
    <3>2. file[k].opt \in [OptionsOf[file[k].kind] -> Written]
      BY <3>1, SectionIs
    <3> QED
      BY <1>3, <2>2, <2>3, <3>2 DEF HostOptions
  <2> HIDE DEF id
  <2>6. PICK g, log : /\ IsLog(log) /\ Put(c, g, log)
                      /\ Ends(c, g, id, kind, was, sets, crossed)
    BY <1>1, <1>2, <1>11, <2>2, <2>3, SectionEnds DEF file, id
  <2>7. ASSUME Edited(file, g, id, kind, was, sets)
        PROVE  /\ DhcpOK(g) /\ (~unread => ReservedOnce(g))
               /\ ~crossed => PoolIn(g, conf["network"]) /\ PoolIn(g, view["network"])
    <3>1. Touches(file, g, id)
      BY <2>7 DEF Edited
    <3>2. ASSUME ~unread PROVE ReservedOnce(g)
      <4>1. \A l \in known : file[l].id = id
        BY <1>6, <2>1, <2>2, <3>2 DEF ReservedOnce, Known, id
      <4>2. was["mac"] = q.mac
        BY <2>2, <2>3
      <4>3. OwnOrNone(file, q, id, was)
        BY <2>5, <4>1, <4>2 DEF OwnOrNone
      <4> HIDE DEF was
      <4> QED
        BY <1>1, <1>6, <2>7, <3>2, <4>3, HostEdited DEF sets
    <3> QED
      BY <1>8, <2>4, <3>1, <3>2
  <2> QED
    BY <1>1, <1>9, <2>6, <2>7, EndsKeep DEF file
<1>12. CASE LET new == New(c, kind, OptionsOf[kind], sets)
            IN  /\ Accepted(c, new.file, new.log, new.rows)
                /\ unread' = TRUE /\ crossed' = crossed /\ late' = late
  <2> DEFINE new == New(c, kind, OptionsOf[kind], sets)
  <2>1. PICK id : id \notin Ids(file) /\ Edited(file, new.file, id, kind, blank, sets)
    BY <1>1, <1>2, NewIs DEF file, blank
  <2>2. IsLog(new.log)
    BY <1>1, <1>2, NewIs
  <2>3. Put(c, new.file, new.log)
    BY <1>12 DEF Accepted
  <2> HIDE DEF new
  <2>4. id # Lan /\ Touches(file, new.file, id)
    BY <1>9, <2>1 DEF Edited
  <2>5. FlagsInv'
    BY <1>1, <1>12 DEF FlagsInv
  <2> QED
    BY <1>1, <1>8, <1>12, <2>2, <2>3, <2>4, <2>5, PutKeeps
<1> QED
  BY <1>7, <1>10, <1>11, <1>12

LEMMA RemoveReservationKeeps ==
  ASSUME NetworkInv, NEW id, RemoveReservation(id)
  PROVE  NetworkInv'
<1> PICK c \in Configs : c = "dhcp"
  BY DEF Configs
<1> DEFINE file == view[c]
           g    == UciDelete(file, id)
           log  == Append(lines[c], Line(id, "", FALSE))
<1>1. /\ FilesInv /\ UNCHANGED conf /\ DhcpOK(file) /\ FlagsInv
      /\ file \in Seq(Sections) /\ Named(file)
  BY DEF NetworkInv, FilesInv, RemoveReservation, Counted, DhcpOK
<1>2. PICK i \in Reserved(file) : file[i].id = id
  BY DEF RemoveReservation
<1>3. id \in Ids(file) /\ Of(file, id).kind = "host" /\ id # Lan
  <2>1. i \in DOMAIN file /\ file[i].kind = "host"
    BY <1>2 DEF Reserved
  <2>2. Of(file, id) = file[i] /\ id \in Ids(file)
    BY <1>1, <1>2, <2>1, PosIs DEF Ids
  <2> QED
    BY <1>1, <2>1, <2>2 DEF DhcpOK
<1>4. Put(c, g, log) /\ crossed' = crossed /\ unread' = unread /\ late' = late
  BY DEF RemoveReservation, StageRemoval, Accepted, historyVars
<1>5. IsLog(log)
  BY <1>1, LogIs DEF FilesInv
<1>6. Touches(file, g, id) /\ id \notin Ids(g)
  BY <1>1, <1>3, DeleteTouches
<1> HIDE DEF file, g, log
<1>7. DhcpOK(g) /\ Pool(g) = Pool(file)
  BY <1>1, <1>3, <1>6, HostLeavesPool
<1>8. ~unread => ReservedOnce(g)
  <2>1. \A j \in DOMAIN g : \E k \in DOMAIN file : g[j] = file[k]
    BY <1>6 DEF Touches, Ids
  <2>2. ~unread => ReservedOnce(file)
    BY DEF NetworkInv, HostInv, file
  <2> QED
    BY <1>7, <2>1, <2>2, FewerHosts DEF DhcpOK
<1>9. ~crossed => PoolIn(g, conf["network"]) /\ PoolIn(g, view["network"])
  BY <1>7 DEF NetworkInv, PoolInv, PoolIn, file
<1>10. FlagsInv'
  BY <1>1, <1>4 DEF FlagsInv
<1> QED
  BY <1>1, <1>4, <1>5, <1>7, <1>8, <1>9, <1>10, PutKeeps

-----------------------------------------------------------------------------
(***************************************************************************)
(* Static routes.                                                          *)
(***************************************************************************)

LEMMA RemoveRouteKeeps ==
  ASSUME NetworkInv, NEW id \in RouteIds, RemoveRoute(id)
  PROVE  NetworkInv'
<1> PICK c \in Configs : c = "network"
  BY DEF Configs
<1> PICK lan \in Interfaces : lan = "lan"
  BY DEF Interfaces
<1> PICK wan \in Interfaces : wan = "wan"
  BY DEF Interfaces
<1> DEFINE file == view[c]
           g    == UciDelete(file, id)
           log  == Append(lines[c], Line(id, "", FALSE))
<1>1. /\ FilesInv /\ UNCHANGED conf /\ NetworkOK(file) /\ FlagsInv
      /\ file \in Seq(Sections) /\ Named(file)
  BY DEF NetworkInv, FilesInv, RemoveRoute, Counted, NetworkOK
<1>2. id \in Ids(file) /\ Of(file, id).kind # "interface"
  BY DEF RouteIds, IsRoute
<1>3. Put(c, g, log) /\ crossed' = crossed /\ unread' = unread /\ late' = late
  BY DEF RemoveRoute, StageRemoval, Accepted, historyVars
<1>4. IsLog(log)
  BY <1>1, LogIs DEF FilesInv
<1>5. Touches(file, g, id) /\ id \notin Ids(g)
  BY <1>1, <1>2, DeleteTouches
<1> HIDE DEF file, g, log
<1>6. NetworkOK(g) /\ \A n \in Interfaces : SameConnection(file, g, n)
  BY <1>1, <1>2, <1>5, RouteLeavesConnections
<1>7. /\ \A n \in Interfaces : MetricOf(g, n) = MetricOf(file, n)
      /\ NetworksOf(g, "lan") = NetworksOf(file, "lan")
      /\ Resolves(g) <=> Resolves(file)
  BY <1>6, SameReadings
<1>8. ~late => Tidy(g)
  <2>1. \A i \in DOMAIN g : \E j \in DOMAIN file : g[i] = file[j]
    BY <1>5 DEF Touches, Ids
  <2>2. ~late => Tidy(file)
    BY DEF NetworkInv, TidyInv, file
  <2> QED
    BY <1>7, <2>1, <2>2, FewerRoutes DEF Tidy
<1>9. ~crossed => PoolIn(view["dhcp"], g)
  BY <1>7 DEF NetworkInv, PoolInv, PoolIn, file
<1>10. FlagsInv'
  BY <1>1, <1>3 DEF FlagsInv
<1> QED
  BY <1>1, <1>3, <1>4, <1>6, <1>8, <1>9, <1>10, PutKeeps

\* A network is the network of its own address.
LEMMA NetworkOfItsBase ==
  ASSUME NEW a \in Nat, NEW s \in Nat, s > 0
  PROVE  LET b == a - (a % s) IN b \in 0 .. a /\ b % s = 0
<1>1. a % s \in 0 .. s - 1 /\ a \div s \in Nat /\ a = s * (a \div s) + (a % s)
  OBVIOUS
<1> QED
  BY <1>1

LEMMA PrefixesAre ==
  ASSUME NEW p \in Prefixes
  PROVE  /\ p.base \in Addresses /\ p.size \in Sizes /\ Network(p.base, p.size) = p
         /\ PrefixText(p) \in Written /\ PrefixText(p) # ""
         /\ PrefixText(p) \in DOMAIN PrefixOf /\ PrefixOf[PrefixText(p)] = p
<1>1. PICK a \in Addresses, s \in Sizes : p = Network(a, s)
  BY DEF Prefixes
<1>2. a \in Nat /\ a <= Top /\ s \in Nat /\ s > 0 /\ Top \in Nat
  BY PoolAssumption, NumbersAre DEF Addresses
<1>3. p.base = a - (a % s) /\ p.size = s
  BY <1>1 DEF Network
<1>4. p.base \in 0 .. a /\ p.base % s = 0
  BY <1>2, <1>3, NetworkOfItsBase
<1>5. p.base \in Addresses
  BY <1>2, <1>4 DEF Addresses
<1>6. Network(p.base, p.size) = p
  <2>1. p.base - (p.base % s) = p.base
    BY <1>4
  <2>2. Network(p.base, p.size) = [base |-> p.base, size |-> s]
    BY <1>3, <2>1 DEF Network
  <2>3. p = [base |-> p.base, size |-> s]
    BY <1>1, <1>3 DEF Network
  <2> QED
    BY <2>2, <2>3
<1>7. PrefixText(p) \in Written
  BY TextAssumption DEF Written
<1>8. /\ PrefixText(p) \in DOMAIN PrefixOf
      /\ PrefixOf[PrefixText(p)] = CHOOSE r \in Prefixes : PrefixText(r) = PrefixText(p)
  BY DEF PrefixOf
<1>9. (CHOOSE r \in Prefixes : PrefixText(r) = PrefixText(p)) = p
  BY TextAssumption
<1>10. PrefixText(p) # ""
  BY TextAssumption
<1> QED
  BY <1>3, <1>5, <1>6, <1>7, <1>8, <1>9, <1>10

LEMMA NumberIsNoPrefix ==
  ASSUME NEW n \in Numbers
  PROVE  Text(n) \notin DOMAIN PrefixOf
<1> SUFFICES ASSUME Text(n) \in DOMAIN PrefixOf PROVE FALSE
  OBVIOUS
<1>1. PICK p \in Prefixes : Text(n) = PrefixText(p)
  BY DEF PrefixOf
<1> QED
  BY <1>1, TextAssumption

LEMMA NothingParses == \A S : ~Parses("", S)
BY TextAssumption DEF Parses, NumberOf

\* A setting of a batch.
Asks(sets, k, v, d) ==
  \E s \in InBatch(sets) : s.key = k /\ s.value = v /\ s.same = d

\* What the settings of a route ask for.
AsksRoute(sets, q, iface, mask) ==
  /\ Asks(sets, "interface", iface, "")
  /\ mask => /\ Asks(sets, "target", Text(q.prefix.base), "")
             /\ Asks(sets, "netmask", Text(q.prefix.size), "")
  /\ ~mask => Asks(sets, "target", PrefixText(q.prefix), "")
  /\ Asks(sets, "metric", IF q.metric = 0 THEN "" ELSE Text(q.metric), "0")
  /\ Asks(sets, "disabled", IF q.enabled THEN "" ELSE "1", "0")

LEMMA BatchOfFour ==
  ASSUME NEW a, NEW b, NEW d, NEW e,
         a.key # b.key, a.key # d.key, a.key # e.key,
         b.key # d.key, b.key # e.key, d.key # e.key,
         a.value \in Written, b.value \in Written,
         d.value \in Written, e.value \in Written
  PROVE  /\ InBatch(<<a, b, d, e>>) = {a, b, d, e} /\ IsBatch(<<a, b, d, e>>)
         /\ KeysOf(<<a, b, d, e>>) = {a.key, b.key, d.key, e.key}
<1>1. <<a, b, d, e>> \in Seq({a, b, d, e}) /\ InBatch(<<a, b, d, e>>) = {a, b, d, e}
  BY DEF InBatch
<1>2. IsBatch(<<a, b, d, e>>) /\ KeysOf(<<a, b, d, e>>) = {a.key, b.key, d.key, e.key}
  BY <1>1 DEF IsBatch, IsLog, Once, Apart, KeysOf
<1> QED
  BY <1>1, <1>2

LEMMA RouteBatch ==
  ASSUME NEW q \in Routes, NEW iface \in Interfaces, NEW mask \in BOOLEAN
  PROVE  /\ IsBatch(RouteSettings(q, iface, mask))
         /\ KeysOf(RouteSettings(q, iface, mask)) \subseteq RouteOptions
         /\ AsksRoute(RouteSettings(q, iface, mask), q, iface, mask)
<1> DEFINE a == Setting("interface", iface, "")
           b == IF mask THEN Setting("target", Text(q.prefix.base), "")
                ELSE Setting("target", PrefixText(q.prefix), "")
           d == IF mask THEN Setting("netmask", Text(q.prefix.size), "")
                ELSE Setting("netmask", "", "")
           gateway == IF q.gateway = NoAddress THEN "" ELSE Text(q.gateway)
           metric == IF q.metric = 0 THEN "" ELSE Text(q.metric)
           disabled == IF q.enabled THEN "" ELSE "1"
           e == Setting("gateway", gateway, "")
           f == Setting("metric", metric, "0")
           h == Setting("name", q.name, "")
           i == Setting("disabled", disabled, "0")
           sets == RouteSettings(q, iface, mask)
<1>1. /\ q.prefix \in Prefixes /\ q.metric \in Numbers /\ q.name \in Written
      /\ q.gateway \in Addresses \cup {NoAddress} /\ "" \in Written /\ "1" \in Written
      /\ iface \in Written
  BY RequestsAssumption DEF Written
<1>2. /\ q.prefix.base \in Numbers /\ q.prefix.size \in Numbers
      /\ PrefixText(q.prefix) \in Written
  BY <1>1, PrefixesAre, NumbersAre
<1>3. /\ Text(q.prefix.base) \in Written /\ Text(q.prefix.size) \in Written
      /\ gateway \in Written /\ metric \in Written /\ disabled \in Written
  BY <1>1, <1>2, NumbersAre, TextReads
<1>4. a.key = "interface" /\ a.value = iface /\ a.same = ""
  BY DEF Setting
<1>5. /\ b.key = "target" /\ b.same = ""
      /\ b.value = IF mask THEN Text(q.prefix.base) ELSE PrefixText(q.prefix)
  BY DEF Setting
<1>6. /\ d.key = "netmask" /\ d.same = ""
      /\ d.value = IF mask THEN Text(q.prefix.size) ELSE ""
  BY DEF Setting
<1> HIDE DEF gateway, metric, disabled
<1>7. e.key = "gateway" /\ e.value = gateway
  BY DEF Setting
<1>8. f.key = "metric" /\ f.value = metric /\ f.same = "0"
  BY DEF Setting
<1>9. h.key = "name" /\ h.value = q.name
  BY DEF Setting
<1>10. i.key = "disabled" /\ i.value = disabled /\ i.same = "0"
  BY DEF Setting
<1>11. sets = <<a>> \o <<b, d>> \o <<e, f, h, i>>
  BY DEF RouteSettings, gateway, metric, disabled
<1> HIDE DEF a, b, d, e, f, h, i, sets
<1>12. InBatch(<<a>>) = {a} /\ IsBatch(<<a>>) /\ KeysOf(<<a>>) = {"interface"}
  BY <1>1, BatchOfOne DEF a
<1>13. /\ InBatch(<<b, d>>) = {b, d} /\ IsBatch(<<b, d>>)
       /\ KeysOf(<<b, d>>) = {"target", "netmask"}
  <2>1. b.value \in Written /\ d.value \in Written
    BY <1>1, <1>2, <1>3, <1>5, <1>6
  <2>2. b.key # d.key
    BY <1>5, <1>6
  <2>3. InBatch(<<b, d>>) = {b, d} /\ IsBatch(<<b, d>>) /\ KeysOf(<<b, d>>) = {b.key, d.key}
    BY <2>1, <2>2, BatchOfTwo
  <2> QED
    BY <1>5, <1>6, <2>3
<1>14. /\ InBatch(<<e, f, h, i>>) = {e, f, h, i} /\ IsBatch(<<e, f, h, i>>)
       /\ KeysOf(<<e, f, h, i>>) = {"gateway", "metric", "name", "disabled"}
  <2>1. /\ e.value \in Written /\ f.value \in Written
        /\ h.value \in Written /\ i.value \in Written
    BY <1>1, <1>3, <1>7, <1>8, <1>9, <1>10
  <2>2. /\ e.key # f.key /\ e.key # h.key /\ e.key # i.key
        /\ f.key # h.key /\ f.key # i.key /\ h.key # i.key
    BY <1>7, <1>8, <1>9, <1>10
  <2>3. /\ InBatch(<<e, f, h, i>>) = {e, f, h, i} /\ IsBatch(<<e, f, h, i>>)
        /\ KeysOf(<<e, f, h, i>>) = {e.key, f.key, h.key, i.key}
    BY <2>1, <2>2, BatchOfFour
  <2> QED
    BY <1>7, <1>8, <1>9, <1>10, <2>3
<1> DEFINE s == <<a>>
           t == <<b, d>>
           u == <<e, f, h, i>>
<1>15. sets = s \o t \o u
  BY <1>11
<1> HIDE DEF s, t, u
<1>16. /\ InBatch(s) = {a} /\ IsBatch(s) /\ KeysOf(s) = {"interface"}
       /\ InBatch(t) = {b, d} /\ IsBatch(t) /\ KeysOf(t) = {"target", "netmask"}
       /\ InBatch(u) = {e, f, h, i} /\ IsBatch(u)
       /\ KeysOf(u) = {"gateway", "metric", "name", "disabled"}
  BY <1>12, <1>13, <1>14 DEF s, t, u
<1>17. /\ IsBatch(s \o t) /\ InBatch(s \o t) = {a, b, d}
       /\ KeysOf(s \o t) = {"interface", "target", "netmask"}
  <2>1. KeysOf(s) \cap KeysOf(t) = {}
    BY <1>16
  <2>2. /\ IsBatch(s \o t) /\ InBatch(s \o t) = InBatch(s) \cup InBatch(t)
        /\ KeysOf(s \o t) = KeysOf(s) \cup KeysOf(t)
    BY <1>16, <2>1, BatchJoined
  <2> QED
    BY <1>16, <2>2
<1>18. /\ IsBatch(sets) /\ a \in InBatch(sets) /\ b \in InBatch(sets)
       /\ d \in InBatch(sets) /\ f \in InBatch(sets) /\ i \in InBatch(sets)
       /\ KeysOf(sets) \subseteq RouteOptions
  <2> DEFINE v == s \o t
  <2> HIDE DEF v
  <2>1. KeysOf(v) \cap KeysOf(u) = {}
    BY <1>16, <1>17 DEF v
  <2>2. /\ IsBatch(v \o u) /\ InBatch(v \o u) = InBatch(v) \cup InBatch(u)
        /\ KeysOf(v \o u) = KeysOf(v) \cup KeysOf(u)
    BY <1>16, <1>17, <2>1, BatchJoined DEF v
  <2>3. KeysOf(v) \cup KeysOf(u) \subseteq RouteOptions
    BY <1>16, <1>17 DEF v, RouteOptions
  <2> QED
    BY <1>15, <1>16, <1>17, <2>2, <2>3 DEF v
<1>19. AsksRoute(sets, q, iface, mask)
  BY <1>4, <1>5, <1>6, <1>8, <1>10, <1>18 DEF AsksRoute, Asks, metric, disabled
<1> QED
  BY <1>18, <1>19 DEF sets

\* A route that is in force is the one that was asked for.  Of its metric only
\* that of 0 may be another: written out already, it is left there.
LEMMA RouteLands ==
  ASSUME NEW q \in Routes, NEW iface \in Interfaces, NEW mask \in BOOLEAN,
         NEW was, DOMAIN was = RouteOptions, NEW s, s.kind = "route",
         InForce(RouteSettings(q, iface, mask), was, s.opt)
  PROVE  LET r == RouteOf(s)
         IN  /\ r.id = s.id /\ r.iface = iface /\ s.opt["interface"] = iface
             /\ r.prefix = q.prefix /\ r.disabled = ~q.enabled
             /\ q.metric # 0 => r.hasMetric /\ r.metric = q.metric
             /\ q.metric = 0 /\ r.hasMetric => r.metric = 0
<1> DEFINE sets == RouteSettings(q, iface, mask)
           o == s.opt
           r == RouteOf(s)
<1>1. AsksRoute(sets, q, iface, mask) /\ InForce(sets, was, o)
  BY RouteBatch
<1> HIDE DEF sets, o
<1>2. q.prefix \in Prefixes /\ q.metric \in Numbers /\ q.enabled \in BOOLEAN
  BY RequestsAssumption
<1>3. o["interface"] = iface
  <2>1. "interface" \in DOMAIN was /\ iface # ""
    BY DEF RouteOptions, Interfaces
  <2>2. PICK x \in InBatch(sets) : x.key = "interface" /\ x.value = iface
    BY <1>1 DEF AsksRoute, Asks
  <2> QED
    BY <1>1, <2>1, <2>2 DEF InForce
<1>4. RouteTarget(o) = q.prefix
  <2>1. "target" \in DOMAIN was /\ "netmask" \in DOMAIN was
    BY DEF RouteOptions
  <2>2. /\ q.prefix.base \in Addresses /\ q.prefix.size \in Sizes
        /\ Network(q.prefix.base, q.prefix.size) = q.prefix
        /\ PrefixText(q.prefix) # ""
        /\ PrefixText(q.prefix) \in DOMAIN PrefixOf
        /\ PrefixOf[PrefixText(q.prefix)] = q.prefix
    BY <1>2, PrefixesAre
  <2>3. CASE mask
    <3>1. q.prefix.base \in Numbers /\ q.prefix.size \in Numbers
      BY <2>2, NumbersAre
    <3>2. /\ Text(q.prefix.base) # "" /\ Text(q.prefix.size) # ""
          /\ Parses(Text(q.prefix.base), Addresses) /\ Parses(Text(q.prefix.size), Sizes)
          /\ NumberOf[Text(q.prefix.base)] = q.prefix.base
          /\ NumberOf[Text(q.prefix.size)] = q.prefix.size
          /\ Text(q.prefix.base) \notin DOMAIN PrefixOf
      BY <2>2, <3>1, TextReads, NumberIsNoPrefix
    <3>3. o["target"] = Text(q.prefix.base)
      <4>1. PICK x \in InBatch(sets) : x.key = "target" /\ x.value = Text(q.prefix.base)
        BY <1>1, <2>3 DEF AsksRoute, Asks
      <4> QED
        BY <1>1, <2>1, <3>2, <4>1 DEF InForce
    <3>4. o["netmask"] = Text(q.prefix.size)
      <4>1. PICK x \in InBatch(sets) : x.key = "netmask" /\ x.value = Text(q.prefix.size)
        BY <1>1, <2>3 DEF AsksRoute, Asks
      <4> QED
        BY <1>1, <2>1, <3>2, <4>1 DEF InForce
    <3> QED
      BY <2>2, <3>2, <3>3, <3>4 DEF RouteTarget
  <2>4. CASE ~mask
    <3>1. o["target"] = PrefixText(q.prefix)
      <4>1. PICK x \in InBatch(sets) : x.key = "target" /\ x.value = PrefixText(q.prefix)
        BY <1>1, <2>4 DEF AsksRoute, Asks
      <4> QED
        BY <1>1, <2>1, <2>2, <4>1 DEF InForce
    <3> QED
      BY <2>2, <3>1 DEF RouteTarget
  <2> QED
    BY <2>3, <2>4
<1>5. (o["disabled"] = "1") = ~q.enabled
  <2>1. "disabled" \in DOMAIN was
    BY DEF RouteOptions
  <2>2. CASE q.enabled
    <3>1. o["disabled"] \in {"", "0"}
      <4>1. PICK x \in InBatch(sets) : x.key = "disabled" /\ x.value = "" /\ x.same = "0"
        BY <1>1, <2>2 DEF AsksRoute, Asks
      <4> QED
        BY <1>1, <2>1, <4>1 DEF InForce
    <3> QED
      BY <2>2, <3>1
  <2>3. CASE ~q.enabled
    <3>1. o["disabled"] = "1"
      <4>1. PICK x \in InBatch(sets) : x.key = "disabled" /\ x.value = "1"
        BY <1>1, <2>3 DEF AsksRoute, Asks
      <4> QED
        BY <1>1, <2>1, <4>1 DEF InForce
    <3> QED
      BY <1>2, <2>3, <3>1
  <2> QED
    BY <2>2, <2>3
<1>6. "metric" \in DOMAIN was
  BY DEF RouteOptions
<1>7. ASSUME q.metric # 0
      PROVE  Parses(o["metric"], Numbers) /\ NumberOf[o["metric"]] = q.metric
  <2>1. /\ Text(q.metric) # "" /\ Parses(Text(q.metric), Numbers)
        /\ NumberOf[Text(q.metric)] = q.metric
    BY <1>2, TextReads
  <2>2. o["metric"] = Text(q.metric)
    <3>1. PICK x \in InBatch(sets) : x.key = "metric" /\ x.value = Text(q.metric)
      BY <1>1, <1>7 DEF AsksRoute, Asks
    <3> QED
      BY <1>1, <1>6, <2>1, <3>1 DEF InForce
  <2> QED
    BY <2>1, <2>2
<1>8. ASSUME q.metric = 0, Parses(o["metric"], Numbers)
      PROVE  NumberOf[o["metric"]] = 0
  <2>1. o["metric"] \in {"", "0"}
    <3>1. PICK x \in InBatch(sets) : x.key = "metric" /\ x.value = "" /\ x.same = "0"
      BY <1>1, <1>8 DEF AsksRoute, Asks
    <3> QED
      BY <1>1, <1>6, <3>1 DEF InForce
  <2>2. o["metric"] = "0"
    BY <1>8, <2>1, NothingParses
  <2>3. 0 \in Numbers /\ Text(0) = "0"
    <3>1. 0 \in Numbers
      BY PoolAssumption DEF Numbers
    <3>2. Text(0) = "0"
      BY TextAssumption
    <3> QED
      BY <3>1, <3>2
  <2>4. NumberOf[Text(0)] = 0
    BY <2>3, TextReads
  <2> QED
    BY <2>2, <2>3, <2>4
<1>9. /\ r.id = s.id /\ r.iface = o["interface"] /\ r.prefix = RouteTarget(o)
      /\ r.disabled = (o["disabled"] = "1")
      /\ r.hasMetric = Parses(o["metric"], Numbers)
      /\ r.metric = IF Parses(o["metric"], Numbers) THEN NumberOf[o["metric"]] ELSE 0
  BY DEF RouteOf, o
<1> HIDE DEF r
<1>10. /\ r.id = s.id /\ r.iface = iface /\ o["interface"] = iface
       /\ r.prefix = q.prefix /\ r.disabled = ~q.enabled
  BY <1>3, <1>4, <1>5, <1>9
<1>11. q.metric # 0 => r.hasMetric /\ r.metric = q.metric
  BY <1>7, <1>9
<1>12. q.metric = 0 /\ r.hasMetric => r.metric = 0
  BY <1>8, <1>9
<1> QED
  BY <1>10, <1>11, <1>12 DEF r, o

\* The metric a request is checked with.
Metric(q, iface, file) == IF q.metric = 0 THEN MetricOf(file, iface) ELSE q.metric

\* A route that clashes with none, or does not act, leaves the routes distinct.
LEMMA RouteStaged ==
  ASSUME NEW file, NetworkOK(file), Connected(file), DistinctRoutes(file),
         NEW q \in Routes, NEW iface \in Interfaces, NEW mask \in BOOLEAN,
         NEW g, NEW id, NEW was, DOMAIN was = RouteOptions,
         id \in Ids(file) => Of(file, id).kind # "interface",
         Edited(file, g, id, "route", was, RouteSettings(q, iface, mask)),
         InForce(RouteSettings(q, iface, mask), was, Of(g, id).opt),
         q.enabled => ~\E r \in RoutesOf(file) :
                         /\ r.id # id /\ ~r.disabled /\ r.v4 /\ r.prefix = q.prefix
                         /\ EffectiveMetric(r, file) = Metric(q, iface, file)
  PROVE  Connected(g) /\ DistinctRoutes(g)
<1> DEFINE s   == Of(g, id)
           own == RouteOf(s)
<1>1. Touches(file, g, id) /\ g \in Seq(Sections) /\ Named(g) /\ id \in Ids(g) /\ s.kind = "route"
  BY DEF Edited, Touches
<1>2. s.id = id
  BY <1>1, OfIs
<1>3. /\ own.id = id /\ own.iface = iface /\ s.opt["interface"] = iface
      /\ own.prefix = q.prefix /\ own.disabled = ~q.enabled
      /\ q.metric # 0 => own.hasMetric /\ own.metric = q.metric
      /\ q.metric = 0 /\ own.hasMetric => own.metric = 0
  BY <1>1, <1>2, RouteLands
<1>4. \A n \in Interfaces : MetricOf(g, n) = MetricOf(file, n)
  BY <1>1, RouteLeavesConnections, SameReadings
<1>5. ASSUME NEW i \in DOMAIN g PROVE \/ g[i] = s
                                      \/ g[i].id # id /\ \E j \in DOMAIN file : g[i] = file[j]
  <2>1. CASE g[i].id = id
    BY <1>1, <2>1, PosIs
  <2>2. CASE g[i].id # id
    BY <1>1, <2>2 DEF Touches
  <2> QED
    BY <2>1, <2>2
<1>6. Connected(g)
  BY <1>3, <1>5 DEF Connected
<1> HIDE DEF s, own
<1>7. ASSUME NEW r \in RoutesOf(g)
      PROVE  \/ r = own
             \/ /\ r \in RoutesOf(file) /\ r.iface \in Interfaces /\ r.id # id
                /\ EffectiveMetric(r, g) = EffectiveMetric(r, file)
                /\ ZeroWritten(r, g) <=> ZeroWritten(r, file)
  <2>1. PICK i \in DOMAIN g : IsRoute(g[i]) /\ r = RouteOf(g[i])
    BY DEF RoutesOf
  <2>2. CASE g[i] = s
    BY <2>1, <2>2 DEF own
  <2>3. CASE g[i].id # id /\ \E j \in DOMAIN file : g[i] = file[j]
    <3>1. r \in RoutesOf(file)
      BY <2>1, <2>3 DEF RoutesOf
    <3>2. r.iface \in Interfaces /\ r.id # id
      BY <1>6, <2>1, <2>3 DEF RouteOf, Connected
    <3> QED
      BY <1>4, <3>1, <3>2 DEF EffectiveMetric, ZeroWritten
  <2> QED
    BY <1>5, <2>2, <2>3
<1>8. ZeroWritten(own, g) \/ EffectiveMetric(own, g) = Metric(q, iface, file)
  <2>1. MetricOf(g, iface) = MetricOf(file, iface)
    BY <1>4
  <2> QED
    BY <1>3, <2>1 DEF ZeroWritten, EffectiveMetric, Metric
<1>9. ASSUME NEW r \in RoutesOf(file), r.id # id, Acts(r), Acts(own),
             r.prefix = own.prefix, EffectiveMetric(r, file) = EffectiveMetric(own, g)
      PROVE  ZeroWritten(own, g)
  <2>1. q.enabled
    BY <1>3, <1>9, RequestsAssumption DEF Acts
  <2>2. ~r.disabled /\ r.v4 /\ r.prefix = q.prefix
    BY <1>3, <1>9 DEF Acts
  <2>3. EffectiveMetric(r, file) # Metric(q, iface, file)
    BY <1>9, <2>1, <2>2
  <2> QED
    BY <1>8, <1>9, <2>3
<1>10. DistinctRoutes(g)
  <2> SUFFICES ASSUME NEW r \in RoutesOf(g), NEW p \in RoutesOf(g), Acts(r), Acts(p),
                      r.id # p.id, r.prefix = p.prefix,
                      EffectiveMetric(r, g) = EffectiveMetric(p, g)
               PROVE  ZeroWritten(r, g) \/ ZeroWritten(p, g)
    BY DEF DistinctRoutes
  <2>1. CASE r = own
    BY <1>3, <1>7, <1>9, <2>1
  <2>2. CASE p = own
    BY <1>3, <1>7, <1>9, <2>2
  <2>3. CASE r # own /\ p # own
    BY <1>7, <2>3 DEF DistinctRoutes
  <2> QED
    BY <2>1, <2>2, <2>3
<1> QED
  BY <1>6, <1>10

\* A route leaves through a connection, or is refused.
LEMMA InterfaceIs ==
  ASSUME NEW q \in Routes
  PROVE  LET iface == RouteInterfaceFor(q.iface, q.gateway)
         IN  iface # "" => iface \in Interfaces
<1> DEFINE on == {i \in DOMAIN InOrder :
                    q.gateway # NoAddress /\ OnNetwork(q.gateway, InOrder[i])}
           iface == RouteInterfaceFor(q.iface, q.gateway)
<1>1. q.iface \in Interfaces \cup {""}
  BY RequestsAssumption
<1>2. CASE q.iface # ""
  <2>1. iface = q.iface \/ iface = ""
    BY <1>2 DEF RouteInterfaceFor
  <2> QED
    BY <1>1, <1>2, <2>1
<1>3. CASE q.iface = ""
  <2>1. iface = IF on = {} THEN "" ELSE InOrder[CHOOSE i \in on : \A j \in on : i <= j]
    BY <1>3 DEF RouteInterfaceFor
  <2>2. DOMAIN InOrder = 1 .. 3 /\ \A i \in 1 .. 3 : InOrder[i] \in Interfaces
    BY DEF InOrder, Interfaces
  <2>3. on \subseteq 1 .. 3
    BY <2>2
  <2> HIDE DEF on, iface
  <2>4. CASE on # {}
    <3>1. (CHOOSE i \in on : \A j \in on : i <= j) \in on
      <4>1. on \subseteq Nat
        BY <2>3
      <4> QED
        BY <2>4, <4>1, FirstIs
    <3> QED
      BY <2>1, <2>2, <2>3, <2>4, <3>1 DEF iface
  <2> QED
    BY <2>1, <2>4 DEF iface
<1> QED
  BY <1>2, <1>3

LEMMA AddRouteKeeps ==
  ASSUME NetworkInv, NEW q \in Routes, AddRoute(q)
  PROVE  NetworkInv'
<1> PICK c \in Configs : c = "network"
  BY DEF Configs
<1> PICK kind \in Kinds : kind = "route"
  BY DEF Kinds
<1> DEFINE file  == view[c]
           iface == RouteInterfaceFor(q.iface, q.gateway)
           sets  == RouteSettings(q, iface, FALSE)
           blank == NoOptions(OptionsOf[kind])
<1>1. FilesInv /\ UNCHANGED conf /\ NetworkOK(file) /\ FlagsInv
  BY DEF NetworkInv, FilesInv, AddRoute, Counted
<1>2. iface \in Interfaces
  BY InterfaceIs DEF AddRoute
<1>3. OptionsOf[kind] = RouteOptions
  BY DEF OptionsOf
<1>4. StageNew(c, kind, OptionsOf[kind], sets)
  BY <1>3 DEF AddRoute
<1>5. q.enabled => ~\E r \in RoutesOf(file) :
                      /\ r.id # 0 /\ ~r.disabled /\ r.v4 /\ r.prefix = q.prefix
                      /\ EffectiveMetric(r, file) = Metric(q, iface, file)
  BY DEF AddRoute, RouteClash, AskedMetric, Metric
<1> HIDE DEF iface
<1>6. IsBatch(sets)
  BY <1>2, RouteBatch
<1>7. DOMAIN blank = RouteOptions
  BY <1>3 DEF NoOptions
<1> HIDE DEF sets, blank, file
<1>8. PICK g, log, id : /\ IsLog(log) /\ Put(c, g, log) /\ id \notin Ids(file)
                        /\ Ends(c, g, id, kind, blank, sets, crossed)
  BY <1>1, <1>4, <1>6, NewEnds DEF file, blank
<1>9. ASSUME NEW r \in RoutesOf(file) PROVE r.id # 0
  <2>1. PICK i \in DOMAIN file : r = RouteOf(file[i])
    BY DEF RoutesOf
  <2>2. file[i] \in Sections
    BY <1>1, ElementOfSeq DEF NetworkOK
  <2>3. file[i].id \in Nat \ {0}
    BY <2>2, SectionIs
  <2> QED
    BY <2>1, <2>3 DEF RouteOf
<1>10. ASSUME Edited(file, g, id, kind, blank, sets)
       PROVE  /\ NetworkOK(g) /\ (Resolves(g) <=> Resolves(file))
              /\ NetworksOf(g, "lan") = NetworksOf(file, "lan")
              /\ InForce(sets, blank, Of(g, id).opt) /\ ~late
                 => Connected(g) /\ DistinctRoutes(g)
  <2>1. NetworkOK(g) /\ \A n \in Interfaces : SameConnection(file, g, n)
    BY <1>1, <1>8, <1>10, RouteLeavesConnections DEF Edited
  <2> PICK lan \in Interfaces : lan = "lan"
    BY DEF Interfaces
  <2> PICK wan \in Interfaces : wan = "wan"
    BY DEF Interfaces
  <2>2. (Resolves(g) <=> Resolves(file)) /\ NetworksOf(g, "lan") = NetworksOf(file, "lan")
    BY <2>1, SameReadings
  <2>3. ASSUME InForce(sets, blank, Of(g, id).opt), ~late
        PROVE  Connected(g) /\ DistinctRoutes(g)
    <3>1. Connected(file) /\ DistinctRoutes(file)
      BY <2>3 DEF NetworkInv, TidyInv, Tidy, file
    <3>2. Edited(file, g, id, "route", blank, RouteSettings(q, iface, FALSE))
      BY <1>10 DEF sets
    <3>3. InForce(RouteSettings(q, iface, FALSE), blank, Of(g, id).opt)
      BY <2>3 DEF sets
    <3>4. id \in Ids(file) => Of(file, id).kind # "interface"
      BY <1>8
    <3>5. q.enabled => ~\E r \in RoutesOf(file) :
                          /\ r.id # id /\ ~r.disabled /\ r.v4 /\ r.prefix = q.prefix
                          /\ EffectiveMetric(r, file) = Metric(q, iface, file)
      BY <1>5, <1>9
    <3> PICK mask \in BOOLEAN : mask = FALSE
      OBVIOUS
    <3>6. /\ Edited(file, g, id, "route", blank, RouteSettings(q, iface, mask))
          /\ InForce(RouteSettings(q, iface, mask), blank, Of(g, id).opt)
      BY <3>2, <3>3
    <3> QED
      BY <1>1, <1>2, <1>7, <3>1, <3>4, <3>5, <3>6, RouteStaged
  <2> QED
    BY <2>1, <2>2, <2>3
<1>11. ~late => Resolves(file)
  BY DEF NetworkInv, TidyInv, Tidy, file
<1>12. NetworksOf(g, "lan") = NetworksOf(file, "lan") /\ ~crossed => PoolIn(view["dhcp"], g)
  BY DEF NetworkInv, PoolInv, PoolIn, file
<1>13. crossed \in BOOLEAN
  BY <1>1 DEF FlagsInv
<1> QED
  BY <1>1, <1>8, <1>10, <1>11, <1>12, <1>13, EndsKeep DEF Tidy, file

LEMMA EditRouteKeeps ==
  ASSUME NetworkInv, NEW q \in Routes, NEW id \in RouteIds, EditRoute(id, q)
  PROVE  NetworkInv'
<1> PICK c \in Configs : c = "network"
  BY DEF Configs
<1> DEFINE file  == view[c]
           iface == RouteInterfaceFor(q.iface, q.gateway)
           mask  == RouteOf(Of(file, id)).mask
           sets  == RouteSettings(q, iface, mask)
           was   == Of(file, id).opt
<1>1. FilesInv /\ UNCHANGED conf /\ NetworkOK(file) /\ FlagsInv
  BY DEF NetworkInv, FilesInv, EditRoute, Counted
<1>2. iface \in Interfaces
  BY InterfaceIs DEF EditRoute
<1>3. mask \in BOOLEAN /\ id \in Ids(file)
  BY DEF RouteOf, RouteIds, Parses
<1>4. Of(file, id).kind = "route"
  BY DEF EditRoute, RouteOf
<1>5. \E rows : StageSection(c, id, sets, rows, crossed)
  BY DEF EditRoute
<1>6. q.enabled => ~\E r \in RoutesOf(file) :
                      /\ r.id # id /\ ~r.disabled /\ r.v4 /\ r.prefix = q.prefix
                      /\ EffectiveMetric(r, file) = Metric(q, iface, file)
  BY DEF EditRoute, RouteClash, AskedMetric, Metric
<1> HIDE DEF iface, mask
<1>7. IsBatch(sets)
  BY <1>2, <1>3, RouteBatch
<1>8. DOMAIN was = RouteOptions
  <2>1. Of(file, id) \in Sections
    BY <1>1, <1>3, OfIs DEF NetworkOK
  <2>2. was \in [OptionsOf[Of(file, id).kind] -> Written]
    BY <2>1, SectionIs
  <2> QED
    BY <1>4, <2>2 DEF OptionsOf
<1> HIDE DEF sets
<1>9. PICK g, log : /\ IsLog(log) /\ Put(c, g, log)
                    /\ Ends(c, g, id, "route", was, sets, crossed)
  BY <1>1, <1>3, <1>4, <1>5, <1>7, SectionEnds
<1> HIDE DEF was, file
<1>10. ASSUME Edited(file, g, id, "route", was, sets)
       PROVE  /\ NetworkOK(g) /\ (Resolves(g) <=> Resolves(file))
              /\ NetworksOf(g, "lan") = NetworksOf(file, "lan")
              /\ InForce(sets, was, Of(g, id).opt) /\ ~late
                 => Connected(g) /\ DistinctRoutes(g)
  <2>1. NetworkOK(g) /\ \A n \in Interfaces : SameConnection(file, g, n)
    BY <1>1, <1>4, <1>10, RouteLeavesConnections DEF Edited
  <2> PICK lan \in Interfaces : lan = "lan"
    BY DEF Interfaces
  <2> PICK wan \in Interfaces : wan = "wan"
    BY DEF Interfaces
  <2>2. (Resolves(g) <=> Resolves(file)) /\ NetworksOf(g, "lan") = NetworksOf(file, "lan")
    BY <2>1, SameReadings
  <2>3. ASSUME InForce(sets, was, Of(g, id).opt), ~late
        PROVE  Connected(g) /\ DistinctRoutes(g)
    <3>1. Connected(file) /\ DistinctRoutes(file)
      BY <2>3 DEF NetworkInv, TidyInv, Tidy, file
    <3>2. Edited(file, g, id, "route", was, RouteSettings(q, iface, mask))
      BY <1>10 DEF sets
    <3>3. InForce(RouteSettings(q, iface, mask), was, Of(g, id).opt)
      BY <2>3 DEF sets
    <3>4. Of(file, id).kind # "interface"
      BY <1>4
    <3> QED
      BY <1>1, <1>2, <1>3, <1>6, <1>8, <3>1, <3>2, <3>3, <3>4, RouteStaged
  <2> QED
    BY <2>1, <2>2, <2>3
<1>11. ~late => Resolves(file)
  BY DEF NetworkInv, TidyInv, Tidy, file
<1>12. NetworksOf(g, "lan") = NetworksOf(file, "lan") /\ ~crossed => PoolIn(view["dhcp"], g)
  BY DEF NetworkInv, PoolInv, PoolIn, file
<1>13. crossed \in BOOLEAN
  BY <1>1 DEF FlagsInv
<1> QED
  BY <1>1, <1>9, <1>10, <1>11, <1>12, <1>13, EndsKeep DEF Tidy, file
-----------------------------------------------------------------------------
(***************************************************************************)
(* The end of a draft, and the whole.                                      *)
(***************************************************************************)

LEMMA DiscardKeeps ==
  ASSUME NetworkInv, DiscardStaged
  PROVE  NetworkInv'
<1>1. UNCHANGED conf /\ UNCHANGED <<crossed, unread, late>> /\ FilesInv /\ FlagsInv
  BY DEF DiscardStaged, historyVars, NetworkInv
<1>2. \A c \in Configs : IsLog(lines[c])
  BY <1>1 DEF FilesInv
<1>3. IsLog(<<>>)
  BY <1>2, LogIs DEF Configs
<1>4. CASE view' = conf /\ lines' = [c \in Configs |-> <<>>]
  <2>1. FilesInv'
    BY <1>1, <1>3, <1>4 DEF FilesInv
  <2>2. PoolInv' /\ TidyInv' /\ HostInv' /\ FlagsInv'
    BY <1>1, <1>4 DEF NetworkInv, PoolInv, TidyInv, HostInv, FlagsInv
  <2> QED
    BY <2>1, <2>2 DEF NetworkInv
<1>5. CASE Put("network", conf["network"], <<>>)
  <2> PICK c \in Configs : c = "network"
    BY DEF Configs
  <2>1. Put(c, conf[c], <<>>) /\ Back(c, conf[c])
    BY <1>1, <1>5 DEF Back, FlagsInv
  <2> QED
    BY <1>1, <1>3, <2>1, BackKeeps
<1> QED
  BY <1>4, <1>5 DEF DiscardStaged

LEMMA CommitKeeps ==
  ASSUME NetworkInv, Commit
  PROVE  NetworkInv'
<1>1. /\ conf' = view /\ view' = view /\ lines' = [c \in Configs |-> <<>>]
      /\ UNCHANGED <<crossed, unread, late>> /\ FilesInv
  BY DEF Commit, historyVars, NetworkInv
<1>2. \A c \in Configs : IsLog(lines[c])
  BY <1>1 DEF FilesInv
<1>3. IsLog(<<>>)
  BY <1>2, LogIs DEF Configs
<1>4. FilesInv'
  BY <1>1, <1>3 DEF FilesInv
<1>5. PoolInv' /\ TidyInv' /\ HostInv' /\ FlagsInv'
  BY <1>1 DEF NetworkInv, PoolInv, TidyInv, HostInv, FlagsInv
<1> QED
  BY <1>4, <1>5 DEF NetworkInv

LEMMA NextKeeps == NetworkInv /\ [NetworkNext]_networkVars => NetworkInv'
<1> SUFFICES ASSUME NetworkInv, [NetworkNext]_networkVars PROVE NetworkInv'
  OBVIOUS
<1>1. ASSUME NEW q \in WANs, StageWAN(q) PROVE NetworkInv'
  BY <1>1, StageWANKeeps
<1>2. ASSUME NEW q \in LANs, StageLAN(q) PROVE NetworkInv'
  BY <1>2, StageLANKeeps
<1>3. ASSUME NEW q \in Handouts, StageHandout(q) PROVE NetworkInv'
  BY <1>3, StageHandoutKeeps
<1>4. ASSUME NEW q \in Hosts, StageReservation(q) PROVE NetworkInv'
  BY <1>4, StageReservationKeeps
<1>5. ASSUME NEW id \in Ids(view["dhcp"]), RemoveReservation(id) PROVE NetworkInv'
  BY <1>5, RemoveReservationKeeps
<1>6. ASSUME NEW q \in Routes, AddRoute(q) PROVE NetworkInv'
  BY <1>6, AddRouteKeeps
<1>7. ASSUME NEW q \in Routes, NEW id \in RouteIds, EditRoute(id, q) PROVE NetworkInv'
  BY <1>7, EditRouteKeeps
<1>8. ASSUME NEW id \in RouteIds, RemoveRoute(id) PROVE NetworkInv'
  BY <1>8, RemoveRouteKeeps
<1>9. CASE DiscardStaged
  BY <1>9, DiscardKeeps
<1>10. CASE Commit
  BY <1>10, CommitKeeps
<1>11. CASE UNCHANGED networkVars
  <2>1. UNCHANGED <<conf, view, lines, crossed, unread, late>>
    BY <1>11 DEF networkVars, historyVars
  <2> QED
    BY <2>1 DEF NetworkInv, FilesInv, PoolInv, TidyInv, HostInv, FlagsInv
<1> QED
  BY <1>1, <1>2, <1>3, <1>4, <1>5, <1>6, <1>7, <1>8, <1>9, <1>10, <1>11
     DEF NetworkNext

\* The files a run starts from are files the proof can speak of.
LEMMA FileIs ==
  ASSUME NEW file, IsFile(file)
  PROVE  file \in Seq(Sections)
<1> DEFINE S == {file[i] : i \in DOMAIN file}
<1>1. file \in Seq(S) /\ \A s \in S : IsSection(s)
  BY DEF IsFile
<1>2. S \subseteq Sections
  BY <1>1, SectionIs
<1> QED
  BY <1>1, <1>2, SeqMonotonic

LEMMA InitKeeps == NetworkInit => NetworkInv
<1> SUFFICES ASSUME NetworkInit PROVE NetworkInv
  OBVIOUS
<1>1. /\ conf \in Files /\ view = conf /\ lines = [c \in Configs |-> <<>>]
      /\ crossed = FALSE /\ unread = FALSE /\ late = FALSE
  BY DEF NetworkInit
<1>2. /\ DOMAIN conf = Configs /\ \A c \in Configs : IsFile(conf[c])
      /\ Sound(conf) /\ Connected(conf["network"])
      /\ PoolIn(conf["dhcp"], conf["network"]) /\ Resolves(conf["network"])
      /\ DistinctRoutes(conf["network"]) /\ ReservedOnce(conf["dhcp"])
  BY <1>1, FilesAssumption
<1>3. \A c \in Configs : conf[c] \in Seq(Sections) /\ Named(conf[c])
  BY <1>2, FileIs DEF Sound, Named
<1>4. ASSUME NEW c \in Configs, NEW i \in DOMAIN conf[c]
      PROVE  conf[c][i].id \in Ids(conf[c]) /\ Of(conf[c], conf[c][i].id) = conf[c][i]
  BY <1>3, PosIs DEF Ids
<1>5. NetworkOK(conf["network"])
  <2> PICK c \in Configs : c = "network"
    BY DEF Configs
  <2>1. \A n \in Interfaces : IdOf(n) \in Ids(conf[c]) /\ Of(conf[c], IdOf(n)).kind = "interface"
    BY <1>2, <1>4 DEF Sound
  <2>2. LET o == Of(conf[c], Lan).opt
        IN  /\ o["proto"] = "static"
            /\ Parses(o["ipaddr"], Addresses) /\ Parses(o["netmask"], Sizes)
    BY <1>2 DEF Sound
  <2> QED
    BY <1>3, <2>1, <2>2 DEF NetworkOK
<1>6. DhcpOK(conf["dhcp"])
  <2> PICK c \in Configs : c = "dhcp"
    BY DEF Configs
  <2>1. Lan \in Ids(conf[c]) /\ Of(conf[c], Lan).kind = "dhcp"
    BY <1>2, <1>4 DEF Sound
  <2> QED
    BY <1>3, <2>1 DEF DhcpOK
<1>7. IsLog(<<>>)
  BY EmptySeq DEF IsLog
<1>8. FilesInv
  BY <1>1, <1>2, <1>5, <1>6, <1>7 DEF FilesInv
<1>9. PoolInv /\ TidyInv /\ HostInv /\ FlagsInv
  BY <1>1, <1>2 DEF PoolInv, TidyInv, Tidy, HostInv, FlagsInv
<1> QED
  BY <1>8, <1>9 DEF NetworkInv

-----------------------------------------------------------------------------
(***************************************************************************)
(* The theorems.                                                           *)
(***************************************************************************)

\* The inductive invariant: the files stay files of the panel's kind, the pool
\* of either file lies in each network it may meet, and neither network file
\* is in two minds (network_write.go, lan_write.go, routes_write.go).
THEOREM NetworkInductive == NetworkSpec => []NetworkInv
<1>1. NetworkInit => NetworkInv
  BY InitKeeps
<1>2. NetworkInv /\ [NetworkNext]_networkVars => NetworkInv'
  BY NextKeeps
<1> QED
  BY <1>1, <1>2, PTL DEF NetworkSpec

\* PoolInside: whatever is staged, discarded, committed or fails, the pool of
\* the draft lies in the network of the draft's address (poolFitsAddress and
\* StageHandout look at one file each), unless they were never checked against
\* each other.
THEOREM PoolStaysInside == NetworkSpec => []PoolInside
<1>1. NetworkInv => PoolInside
  BY DEF NetworkInv, PoolInv, PoolInside
<1> QED
  BY <1>1, NetworkInductive, PTL

\* ResolversAreUsed: no sequence of uplink forms, of whatever kind, leaves
\* resolvers beside the provider's (wanSettings).
THEOREM ResolversStayUsed == NetworkSpec => []ResolversAreUsed
<1>1. NetworkInv => ResolversAreUsed
  BY DEF NetworkInv, TidyInv, Tidy, ResolversAreUsed
<1> QED
  BY <1>1, NetworkInductive, PTL

\* RoutesDistinct: routeClash, asked of one route at a time, keeps the whole
\* list free of two routes with one network and one metric, across removals,
\* edits of the connections and drafts given back.
THEOREM RoutesStayDistinct == NetworkSpec => []RoutesDistinct
<1>1. NetworkInv => RoutesDistinct
  BY DEF NetworkInv, TidyInv, Tidy, RoutesDistinct
<1> QED
  BY <1>1, NetworkInductive, PTL

\* OneReservation: a device has one reservation, however often it is asked for
\* (StageReservation), as long as the list could be read.
THEOREM DeviceReservedOnce == NetworkSpec => []OneReservation
<1>1. NetworkInv => OneReservation
  BY DEF NetworkInv, HostInv, OneReservation
<1> QED
  BY <1>1, NetworkInductive, PTL

CountInv == faults \in Nat

LEMMA FaultsCounted == NetworkSpec => []CountInv
<1>1. NetworkInit => CountInv
  BY DEF NetworkInit, CountInv
<1>2. CountInv /\ [NetworkNext]_networkVars => CountInv'
  <2> SUFFICES ASSUME faults \in Nat, [NetworkNext]_networkVars PROVE faults' \in Nat
    BY DEF CountInv
  <2>1. Fails => faults' \in Nat
    BY DEF Fails
  <2>2. UNCHANGED faults => faults' \in Nat
    OBVIOUS
  <2>3. \A c, cuts : Dropped(c, cuts) => faults' \in Nat
    BY <2>1 DEF Dropped
  <2>4. \A c, id, sets, rows, cross :
          StageSection(c, id, sets, rows, cross) => faults' \in Nat
    BY <2>2, <2>3 DEF StageSection
  <2>5. \A c, kind, options, sets : StageNew(c, kind, options, sets) => faults' \in Nat
    BY <2>2, <2>3 DEF StageNew
  <2>6. \A c, id : StageRemoval(c, id) => faults' \in Nat
    BY <2>2 DEF StageRemoval
  <2>7. ASSUME NEW q \in Handouts, StageHandout(q) PROVE faults' \in Nat
    BY <2>4, <2>7 DEF StageHandout
  <2>8. ASSUME NEW q \in Hosts, StageReservation(q) PROVE faults' \in Nat
    BY <2>1, <2>4, <2>5, <2>8 DEF StageReservation
  <2>9. ASSUME NEW q \in LANs, StageLAN(q) PROVE faults' \in Nat
    BY <2>1, <2>4, <2>9 DEF StageLAN
  <2>10. ASSUME NEW q \in WANs, StageWAN(q) PROVE faults' \in Nat
    BY <2>4, <2>10 DEF StageWAN
  <2>11. ASSUME NEW q \in Routes, NEW id \in RouteIds, EditRoute(id, q)
         PROVE  faults' \in Nat
    BY <2>4, <2>11 DEF EditRoute
  <2>12. ASSUME NEW q \in Routes, AddRoute(q) PROVE faults' \in Nat
    BY <2>5, <2>12 DEF AddRoute
  <2>13. ASSUME NEW id, RemoveRoute(id) \/ RemoveReservation(id) PROVE faults' \in Nat
    BY <2>6, <2>13 DEF RemoveRoute, RemoveReservation
  <2>14. DiscardStaged \/ Commit \/ UNCHANGED networkVars => faults' \in Nat
    BY <2>1, <2>2 DEF DiscardStaged, Commit, networkVars
  <2> QED
    BY <2>7, <2>8, <2>9, <2>10, <2>11, <2>12, <2>13, <2>14 DEF NetworkNext
<1> QED
  BY <1>1, <1>2, PTL DEF NetworkSpec

LEMMA HandoutStaged ==
  ASSUME NetworkInv, faults \in Nat, NEW q \in Handouts,
         faults' = faults, q.enabled, StageHandout(q)
  PROVE  LET o == Pool(view'["dhcp"])
         IN  /\ o["ignore"] # "1" /\ HasPool(o)
             /\ Handout(o, LanNetwork) = <<q.first, q.last>>
<1> PICK c \in Configs : c = "dhcp"
  BY DEF Configs
<1> DEFINE sets == HandoutOn(q)
           was  == Of(view[c], Lan).opt
           es   == Edits(sets, was, {})
           g    == Staged(view[c], Lan, es)
<1>1. /\ DhcpOK(view[c]) /\ NetworkOK(conf["network"]) /\ DOMAIN view = Configs
      /\ view[c] \in Seq(Sections) /\ Named(view[c]) /\ Lan \in Ids(view[c])
      /\ Of(view[c], Lan).kind = "dhcp"
  BY DEF NetworkInv, FilesInv, DhcpOK
<1>2. /\ PoolOffsets(LanNetwork, q.first, q.last) # <<>>
      /\ \E rows, cross : StageSection(c, Lan, sets, rows, cross)
  BY DEF StageHandout, HandoutOn
<1>3. IsBatch(sets)
  BY <1>1, <1>2, HandoutOnBatch
<1> HIDE DEF sets
<1>4. ~Fails
  BY DEF Fails
<1>5. \E log : Put(c, g, log)
  BY <1>2, <1>4 DEF StageSection, SectionWritten, Accepted, Dropped
<1>6. view'[c] = g
  BY <1>1, <1>5 DEF Put
<1>7. /\ Edited(view[c], g, Lan, "dhcp", was, sets)
      /\ InForce(sets, was, Of(g, Lan).opt)
  BY <1>1, <1>3, SectionEdited
<1>8. DOMAIN was = PoolOptions
  <2>1. Of(view[c], Lan) \in Sections
    BY <1>1, OfIs
  <2>2. was \in [OptionsOf[Of(view[c], Lan).kind] -> Written]
    BY <2>1, SectionIs
  <2> QED
    BY <1>1, <2>2 DEF OptionsOf
<1> HIDE DEF was, es, g
<1>9. /\ Pool(g)["ignore"] = "" /\ HasPool(Pool(g))
      /\ Handout(Pool(g), LanNetwork) = <<q.first, q.last>>
  BY <1>1, <1>2, <1>7, <1>8, HandoutInForce DEF sets, Pool
<1> QED
  BY <1>6, <1>9

\* HandoutReadsBack: a pool is staged as a count of addresses from the network
\* the router has; whatever was in the file, on or off, with numbers of any
\* shape, reading it back against that network gives the two addresses the
\* operator asked for (StageHandout, poolOffsets, handout).
THEOREM HandoutReturns == NetworkSpec => HandoutReadsBack
<1>1. NetworkInv /\ CountInv /\ [NetworkNext]_networkVars
      => [\A q \in Handouts :
            faults' = faults /\ q.enabled /\ StageHandout(q)
            => LET o == Pool(view'["dhcp"])
               IN  /\ o["ignore"] # "1" /\ HasPool(o)
                   /\ Handout(o, LanNetwork) = <<q.first, q.last>>]_networkVars
  BY HandoutStaged DEF CountInv
<1> QED
  BY <1>1, NetworkInductive, FaultsCounted, PTL DEF NetworkSpec, HandoutReadsBack

-----------------------------------------------------------------------------
(***************************************************************************)
(* The answer and the apply bar.  An empty draft of the network file is the*)
(* committed file: whatever changes it leaves a line.                      *)
(***************************************************************************)
EmptyInv == lines["network"] = <<>> => view["network"] = conf["network"]

LEMMA FileFormed ==
  ASSUME NEW file \in Seq(Sections), Named(file)
  PROVE  WellFormed(file) /\ IsLog(file)
<1>1. IsLog(file)
  BY DEF IsLog
<1>2. ASSUME NEW i \in DOMAIN file PROVE Formed(file[i])
  <2> DEFINE s == file[i]
  <2>1. s \in Sections
    BY ElementOfSeq
  <2> HIDE DEF s
  <2>2. /\ s = Section(s.id, s.kind, s.opt) /\ s.id \in Nat \ {0} /\ s.kind \in Kinds
        /\ s.opt \in [OptionsOf[s.kind] -> Written]
    BY <2>1, SectionIs
  <2>3. \A k \in Kinds :
          OptionsOf[k] \in {InterfaceOptions, PoolOptions, HostOptions, RouteOptions}
    BY DEF Kinds, OptionsOf
  <2>4. "" \notin OptionsOf[s.kind]
    <3>1. /\ "" \notin InterfaceOptions /\ "" \notin PoolOptions
          /\ "" \notin HostOptions /\ "" \notin RouteOptions
      BY DEF InterfaceOptions, PoolOptions, HostOptions, RouteOptions
    <3> QED
      BY <2>2, <2>3, <3>1
  <2>5. s.id \in Int \ {0} /\ DOMAIN s.opt = OptionsOf[s.kind]
        /\ s.opt = [o \in DOMAIN s.opt |-> s.opt[o]]
    BY <2>2
  <2>6. Formed(s)
    BY <2>2, <2>4, <2>5 DEF Formed
  <2> QED
    BY <2>6 DEF s
<1> QED
  BY <1>1, <1>2 DEF WellFormed

\* A draft with these lines and this file changes nothing without a line.
Tells(g, log) ==
  log = <<>> => (lines["network"] = <<>> /\ g = view["network"]) \/ g = conf["network"]

LEMMA BatchTells ==
  ASSUME FilesInv, NEW id \in Ids(view["network"]), NEW sets, IsBatch(sets),
         NEW E, E \subseteq InBatch(sets)
  PROVE  Tells(Staged(view["network"], id, E), lines["network"] \o LinesOf(id, sets, E))
<1> DEFINE l == lines["network"]
<1>1. /\ view["network"] \in Seq(Sections) /\ Named(view["network"]) /\ IsLog(l)
  BY DEF FilesInv, NetworkOK, Configs
<1>2. WellFormed(view["network"])
  BY <1>1, FileFormed
<1>3. Staged(view["network"], id, {}) = view["network"]
  BY <1>2, StagedNone
<1>4. IsLog(sets)
  BY DEF IsBatch
<1>5. l \o LinesOf(id, sets, E) = <<>> => l = <<>> /\ E = {}
  BY <1>1, <1>4, NoLines
<1> QED
  BY <1>3, <1>5 DEF Tells

LEMMA LineTells ==
  ASSUME NEW g, NEW l, IsLog(l), NEW e, NEW id, NEW sets, IsBatch(sets),
         NEW E, E \subseteq InBatch(sets)
  PROVE  Tells(g, Append(l, e)) /\ Tells(g, Append(l, e) \o LinesOf(id, sets, E))
<1> DEFINE m == Append(l, e)
<1>1. m # <<>> /\ IsLog(m)
  BY OneMore, LogIs
<1> HIDE DEF m
<1>2. IsLog(sets)
  BY DEF IsBatch
<1>3. m \o LinesOf(id, sets, E) = <<>> => m = <<>>
  BY <1>1, <1>2, NoLines
<1>4. Tells(g, m) /\ Tells(g, m \o LinesOf(id, sets, E))
  BY <1>1, <1>3 DEF Tells
<1> QED
  BY <1>4 DEF m

LEMMA PutTells ==
  ASSUME FilesInv, EmptyInv, UNCHANGED conf, NEW g, NEW log, Put("network", g, log),
         Tells(g, log)
  PROVE  EmptyInv'
<1>1. view'["network"] = g /\ lines'["network"] = log
  BY DEF Put, FilesInv, Configs
<1> QED
  BY <1>1 DEF EmptyInv, Tells

LEMMA DroppedTells ==
  ASSUME FilesInv, EmptyInv, UNCHANGED conf, NEW cuts, Dropped("network", cuts),
         \A cut \in cuts : Tells(cut.file, cut.log)
  PROVE  EmptyInv'
<1>1. CASE Put("network", conf["network"], <<>>)
  BY <1>1, PutTells DEF Tells
<1>2. CASE \E cut \in cuts : Put("network", cut.file, cut.log)
  BY <1>2, PutTells
<1> QED
  BY <1>1, <1>2 DEF Dropped

LEMMA SectionTells ==
  ASSUME FilesInv, EmptyInv, UNCHANGED conf, NEW id \in Ids(view["network"]),
         NEW sets, IsBatch(sets), NEW rows, NEW cross,
         StageSection("network", id, sets, rows, cross)
  PROVE  EmptyInv'
<1> DEFINE es   == Edits(sets, Of(view["network"], id).opt, {})
           cuts == Cuts(view["network"], lines["network"], id, sets, es)
<1>1. es \subseteq InBatch(sets)
  BY EditsAre
<1>2. \/ \E r : Accepted("network", Staged(view["network"], id, es),
                         lines["network"] \o LinesOf(id, sets, es), r)
      \/ Dropped("network", cuts)
  BY DEF StageSection, SectionWritten
<1> HIDE DEF es
<1>3. ASSUME NEW cut \in cuts PROVE Tells(cut.file, cut.log)
  <2>1. PICK n : cut = LET E == es \cap {sets[i] : i \in 1 .. n}
                       IN  Cut(Staged(view["network"], id, E),
                               lines["network"] \o LinesOf(id, sets, E))
    BY DEF Cuts
  <2> DEFINE E == es \cap {sets[i] : i \in 1 .. n}
  <2>2. E \subseteq InBatch(sets)
    BY <1>1
  <2>3. /\ cut.file = Staged(view["network"], id, E)
        /\ cut.log = lines["network"] \o LinesOf(id, sets, E)
    BY <2>1 DEF Cut
  <2> HIDE DEF E
  <2> QED
    BY <2>2, <2>3, BatchTells
<1>4. Tells(Staged(view["network"], id, es), lines["network"] \o LinesOf(id, sets, es))
  BY <1>1, BatchTells
<1> HIDE DEF cuts
<1> QED
  BY <1>2, <1>3, <1>4, PutTells, DroppedTells DEF Accepted

LEMMA NewTells ==
  ASSUME FilesInv, EmptyInv, UNCHANGED conf, NEW kind, NEW options, NEW sets,
         IsBatch(sets), StageNew("network", kind, options, sets)
  PROVE  EmptyInv'
<1> DEFINE id   == NewId(view["network"], lines["network"])
           es   == Edits(sets, NoOptions(options), {})
           file == Append(view["network"], Section(id, kind, NoOptions(options)))
           e    == Line(id, "", FALSE)
           log  == Append(lines["network"], e)
           new  == New("network", kind, options, sets)
<1>1. es \subseteq InBatch(sets) /\ IsLog(lines["network"])
  BY EditsAre DEF FilesInv, Configs
<1>2. /\ new.log = log \o LinesOf(id, sets, es)
      /\ new.cuts = Cuts(file, log, id, sets, es)
  BY DEF New
<1>3. \/ \E r : Accepted("network", new.file, new.log, r)
      \/ Dropped("network", new.cuts)
  BY DEF StageNew, NewWritten
<1> HIDE DEF id, es, file, new
<1>4. ASSUME NEW cut \in new.cuts PROVE Tells(cut.file, cut.log)
  <2>1. PICK n : cut = LET E == es \cap {sets[i] : i \in 1 .. n}
                       IN  Cut(Staged(file, id, E), log \o LinesOf(id, sets, E))
    BY <1>2 DEF Cuts
  <2> DEFINE E == es \cap {sets[i] : i \in 1 .. n}
  <2>2. E \subseteq InBatch(sets)
    BY <1>1
  <2>3. cut.log = log \o LinesOf(id, sets, E)
    BY <2>1 DEF Cut
  <2> HIDE DEF E, e
  <2> QED
    BY <1>1, <2>2, <2>3, LineTells
<1> HIDE DEF e
<1>5. Tells(new.file, new.log)
  BY <1>1, <1>2, LineTells
<1> QED
  BY <1>3, <1>4, <1>5, PutTells, DroppedTells DEF Accepted

LEMMA RemovalTells ==
  ASSUME FilesInv, EmptyInv, UNCHANGED conf, NEW id, StageRemoval("network", id)
  PROVE  EmptyInv'
<1> DEFINE g == UciDelete(view["network"], id)
           e == Line(id, "", FALSE)
<1>1. IsLog(lines["network"])
  BY DEF FilesInv, Configs
<1>2. Put("network", g, Append(lines["network"], e))
  BY DEF StageRemoval, Accepted
<1> HIDE DEF g, e
<1>3. Tells(g, Append(lines["network"], e))
  BY <1>1, OneMore DEF Tells
<1> QED
  BY <1>2, <1>3, PutTells

\* What the stagings of the network file are batches for.
LEMMA EditRouteIs ==
  ASSUME FilesInv, NEW q \in Routes, NEW id \in RouteIds, EditRoute(id, q)
  PROVE  LET iface == RouteInterfaceFor(q.iface, q.gateway)
             sets  == RouteSettings(q, iface, RouteOf(Of(view["network"], id)).mask)
         IN  /\ IsBatch(sets) /\ KeysOf(sets) \subseteq RouteOptions
             /\ id \in Ids(view["network"]) /\ Of(view["network"], id).kind = "route"
             /\ StageSection("network", id, sets,
                             SectionRows("network", id, sets,
                                         Subject(Of(view["network"], id), Words)),
                             crossed)
             /\ UNCHANGED conf
<1> DEFINE iface == RouteInterfaceFor(q.iface, q.gateway)
           mask  == RouteOf(Of(view["network"], id)).mask
           sets  == RouteSettings(q, iface, mask)
<1>1. iface \in Interfaces
  BY InterfaceIs DEF EditRoute
<1>2. mask \in BOOLEAN /\ id \in Ids(view["network"])
  BY DEF RouteOf, RouteIds, Parses
<1>3. Of(view["network"], id).kind = "route"
  BY DEF EditRoute, RouteOf
<1>4. /\ StageSection("network", id, sets,
                      SectionRows("network", id, sets,
                                  Subject(Of(view["network"], id), Words)), crossed)
      /\ UNCHANGED conf
  BY DEF EditRoute, Counted
<1> HIDE DEF iface, mask
<1>5. IsBatch(sets) /\ KeysOf(sets) \subseteq RouteOptions
  BY <1>1, <1>2, RouteBatch
<1> QED
  BY <1>2, <1>3, <1>4, <1>5 DEF iface, mask

LEMMA AddRouteIs ==
  ASSUME NEW q \in Routes, AddRoute(q)
  PROVE  LET sets == RouteSettings(q, RouteInterfaceFor(q.iface, q.gateway), FALSE)
         IN  /\ IsBatch(sets) /\ KeysOf(sets) \subseteq RouteOptions
             /\ StageNew("network", "route", RouteOptions, sets)
             /\ UNCHANGED conf
<1> DEFINE iface == RouteInterfaceFor(q.iface, q.gateway)
<1>1. iface \in Interfaces
  BY InterfaceIs DEF AddRoute
<1>2. StageNew("network", "route", RouteOptions, RouteSettings(q, iface, FALSE))
      /\ UNCHANGED conf
  BY DEF AddRoute, Counted
<1> HIDE DEF iface
<1> PICK mask \in BOOLEAN : mask = FALSE
  OBVIOUS
<1>3. /\ IsBatch(RouteSettings(q, iface, mask))
      /\ KeysOf(RouteSettings(q, iface, mask)) \subseteq RouteOptions
  BY <1>1, RouteBatch
<1> QED
  BY <1>2, <1>3 DEF iface

\* A staging of the dhcp file leaves the other one alone.
Elsewhere ==
  /\ view'["network"] = view["network"] /\ lines'["network"] = lines["network"]
  /\ UNCHANGED conf

LEMMA DhcpElsewhere ==
  ASSUME FilesInv,
         \/ \E q \in Handouts : StageHandout(q)
         \/ \E q \in Hosts : StageReservation(q)
         \/ \E id : RemoveReservation(id)
  PROVE  Elsewhere
<1>1. ASSUME NEW g, NEW log, Put("dhcp", g, log)
      PROVE  view'["network"] = view["network"] /\ lines'["network"] = lines["network"]
  BY <1>1 DEF Put, FilesInv, Configs
<1>2. ASSUME NEW cuts, Dropped("dhcp", cuts)
      PROVE  view'["network"] = view["network"] /\ lines'["network"] = lines["network"]
  BY <1>1, <1>2 DEF Dropped
<1>3. ASSUME NEW id, NEW sets, NEW rows, NEW cross,
             StageSection("dhcp", id, sets, rows, cross)
      PROVE  view'["network"] = view["network"] /\ lines'["network"] = lines["network"]
  BY <1>1, <1>2, <1>3 DEF StageSection, SectionWritten, Accepted
<1>4. ASSUME NEW kind, NEW options, NEW sets, StageNew("dhcp", kind, options, sets)
      PROVE  view'["network"] = view["network"] /\ lines'["network"] = lines["network"]
  BY <1>1, <1>2, <1>4 DEF StageNew, NewWritten, Accepted
<1>5. ASSUME NEW q \in Handouts, StageHandout(q) PROVE Elsewhere
  BY <1>3, <1>5 DEF StageHandout, Counted, Elsewhere
<1>6. ASSUME NEW q \in Hosts, StageReservation(q) PROVE Elsewhere
  BY <1>1, <1>3, <1>4, <1>6 DEF StageReservation, Counted, Accepted, Elsewhere,
                                   SectionWritten, NewWritten
<1>7. ASSUME NEW id, RemoveReservation(id) PROVE Elsewhere
  BY <1>1, <1>7 DEF RemoveReservation, StageRemoval, Counted, Accepted, Elsewhere
<1> QED
  BY <1>5, <1>6, <1>7

LEMMA ConnectionIds ==
  ASSUME FilesInv
  PROVE  /\ IdOf("wan") \in Ids(view["network"]) /\ Lan \in Ids(view["network"])
         /\ Of(view["network"], IdOf("wan")).kind = "interface"
         /\ Of(view["network"], Lan).kind = "interface"
BY DEF FilesInv, NetworkOK, Interfaces, Lan

LEMMA EmptyKept == NetworkInv /\ EmptyInv /\ [NetworkNext]_networkVars => EmptyInv'
<1> SUFFICES ASSUME FilesInv, EmptyInv, [NetworkNext]_networkVars PROVE EmptyInv'
  BY DEF NetworkInv
<1>1. ASSUME NEW q \in WANs, StageWAN(q) PROVE EmptyInv'
  <2>1. IsBatch(WanSettings(q))
    BY WanBatch
  <2>2. /\ UNCHANGED conf
        /\ \E rows : StageSection("network", IdOf("wan"), WanSettings(q), rows, crossed)
    BY <1>1 DEF StageWAN, Counted
  <2> QED
    BY <2>1, <2>2, ConnectionIds, SectionTells
<1>2. ASSUME NEW q \in LANs, StageLAN(q) PROVE EmptyInv'
  <2> DEFINE sets == LanSettings(q)
             es   == Edits(sets, Of(view["network"], Lan).opt, {})
  <2>1. IsBatch(sets)
    BY LanBatch
  <2>2. /\ UNCHANGED conf
        /\ \/ \E rows : StageSection("network", Lan, sets, rows, crossed)
           \/ \E rows : Accepted("network", Staged(view["network"], Lan, es),
                                 lines["network"] \o LinesOf(Lan, sets, es), rows)
    BY <1>2 DEF StageLAN, LanSettings, Counted
  <2>3. es \subseteq InBatch(sets)
    BY EditsAre
  <2> HIDE DEF sets, es
  <2>4. Tells(Staged(view["network"], Lan, es), lines["network"] \o LinesOf(Lan, sets, es))
    BY <2>1, <2>3, ConnectionIds, BatchTells
  <2> QED
    BY <2>1, <2>2, <2>4, ConnectionIds, SectionTells, PutTells DEF Accepted
<1>3. ASSUME NEW q \in Routes, AddRoute(q) PROVE EmptyInv'
  BY <1>3, AddRouteIs, NewTells
<1>4. ASSUME NEW q \in Routes, NEW id \in RouteIds, EditRoute(id, q) PROVE EmptyInv'
  BY <1>4, EditRouteIs, SectionTells
<1>5. ASSUME NEW id, RemoveRoute(id) PROVE EmptyInv'
  BY <1>5, RemovalTells DEF RemoveRoute, Counted
<1>6. CASE Elsewhere
  BY <1>6 DEF Elsewhere, EmptyInv
<1>7. CASE DiscardStaged
  <2>1. UNCHANGED conf
    BY <1>7 DEF DiscardStaged
  <2>2. Tells(conf["network"], <<>>)
    BY DEF Tells
  <2>3. CASE view' = conf
    BY <2>1, <2>3 DEF EmptyInv
  <2>4. CASE Put("network", conf["network"], <<>>)
    BY <2>1, <2>2, <2>4, PutTells
  <2> QED
    BY <1>7, <2>3, <2>4 DEF DiscardStaged
<1>8. CASE Commit
  BY <1>8 DEF Commit, EmptyInv
<1>9. CASE UNCHANGED networkVars
  BY <1>9 DEF networkVars, EmptyInv
<1> QED
  BY <1>1, <1>2, <1>3, <1>4, <1>5, <1>6, <1>7, <1>8, <1>9, DhcpElsewhere DEF NetworkNext

\* EmptyDraftIsCommitted: an empty draft changes nothing.
LEMMA EmptyDraftIsCommitted == NetworkSpec => []EmptyInv
<1>1. NetworkInit => EmptyInv
  BY DEF NetworkInit, EmptyInv
<1> QED
  BY <1>1, EmptyKept, NetworkInductive, PTL DEF NetworkSpec

-----------------------------------------------------------------------------
(***************************************************************************)
(* The rows that StagedChanges makes of a file, a draft and its lines.     *)
(***************************************************************************)
RowsIn(c, v, l) == StagedChanges(c, v, l, EntryKinds, Words, Says, Label)

RowIn(c, v, l, e) ==
  RowOfLine(c, v, e, WholeEntries(c, v, l, EntryKinds), EntryKinds, Words, Says, Label)

RowsMade(c, v, l) == [i \in DOMAIN l |-> RowIn(c, v, l, l[i])]

LEMMA RowsAre ==
  ASSUME NEW c, NEW v, NEW l
  PROVE  RowsIn(c, v, l) = Bar(l, RowsMade(c, v, l))
BY DEF RowsIn, StagedChanges, RowIn, RowsMade

\* Every entry of this file has words.
LEMMA EntryIsWords == \A s : Entry(s, Words) = Words(s)
<1> SUFFICES ASSUME NEW s PROVE Words(s) # <<>>
  BY DEF Entry
<1> QED
  BY DEF Words

\* The row of a route that goes or comes, and of an option.
GoneRow(x, s) == Row(x, Says(s), Words(s), <<>>, <<>>)
NewRow(x, s)  == Row(x, Says(s), <<>>, Words(s), <<>>)
SetRow(s, e) ==
  Row(s.id, Label(s, e.key), Said(s.opt[e.key]), Said(e.value),
      IF s.kind \in EntryKinds THEN Subject(s, Words) ELSE <<>>)

SetRows(s, sets, E) ==
  [i \in DOMAIN InTurn(sets, E) |-> SetRow(s, InTurn(sets, E)[i])]

LEMMA NewEntryRows ==
  ASSUME NEW c, NEW v, NEW l, NEW x, x # 0, NewEntryLog(l, x), Comes(c, v, x),
         Of(v, x).kind \in EntryKinds
  PROVE  RowsIn(c, v, l) = <<NewRow(x, Of(v, x))>>
<1> DEFINE row == RowsMade(c, v, l)
<1>1. 1 \in DOMAIN l /\ IsSet(l[1], x, "")
  BY DEF NewEntryLog
<1>2. RowIn(c, v, l, l[1]) = NewRow(x, Of(v, x))
  BY <1>1, EntryIsWords DEF RowIn, RowOfLine, IsSet, Comes, NewRow
<1>3. row[1] = NewRow(x, Of(v, x))
  BY <1>1, <1>2 DEF RowsMade
<1>4. row[1] # NoRow
  BY <1>3, RowIsOne DEF NewRow
<1>5. x \in WholeEntries(c, v, l, EntryKinds)
  BY <1>1 DEF WholeEntries, Comes, IsSet
<1>6. ASSUME NEW i \in DOMAIN l, l[i].option # ""
      PROVE  row[i] = NoRow
  <2>1. IsSet(l[i], x, l[i].option)
    BY <1>6 DEF NewEntryLog, IsLineOf, IsSet
  <2>2. RowIn(c, v, l, l[i]) = NoRow
    BY <1>5, <1>6, <2>1 DEF RowIn, RowOfLine, IsSet, Comes
  <2> QED
    BY <2>2 DEF RowsMade
<1> HIDE DEF row
<1>7. Bar(l, row) = <<row[1]>>
  BY <1>4, <1>6, BarOfNew
<1> QED
  BY <1>3, <1>7, RowsAre DEF row

\* A section that goes: one line, one row.
LEMMA GoneEntryRows ==
  ASSUME NEW c, NEW v, NEW x, x # 0, Goes(c, v, x)
  PROVE  RowsIn(c, v, <<Line(x, "", FALSE)>>) = <<GoneRow(x, Of(c, x))>>
<1> DEFINE e   == Line(x, "", FALSE)
           l   == <<e>>
           row == RowsMade(c, v, l)
<1>1. IsSet(e, x, "")
  BY DEF IsSet, Line
<1> HIDE DEF e
<1>2. DOMAIN l = {1} /\ l[1] = e
  BY LogOfOne, Zenon
<1>3. RowIn(c, v, l, e) = GoneRow(x, Of(c, x))
  BY <1>1, EntryIsWords DEF RowIn, RowOfLine, IsSet, Goes, GoneRow
<1> HIDE DEF l
<1>4. row[1] = GoneRow(x, Of(c, x))
  BY <1>2, <1>3 DEF RowsMade
<1>5. row[1] # NoRow
  BY <1>4, RowIsOne DEF GoneRow
<1> HIDE DEF row
<1>6. Bar(<<e>>, row) = <<row[1]>>
  BY <1>5, BarOfOne
<1>7. RowsIn(c, v, l) = <<GoneRow(x, Of(c, x))>>
  BY <1>4, <1>6, RowsAre DEF row, l
<1> QED
  BY <1>7 DEF l, e

\* A section that is changed: a row for every edit, in the order of the batch.
LEMMA EditsHaveRows ==
  ASSUME NEW c \in Seq(Sections), Named(c), NEW id \in Ids(c), NEW sets, IsBatch(sets),
         KeysOf(sets) \subseteq DOMAIN Of(c, id).opt,
         NEW E, E = Edits(sets, Of(c, id).opt, {})
  PROVE  RowsIn(c, Staged(c, id, E), LinesOf(id, sets, E)) = SetRows(Of(c, id), sets, E)
<1> DEFINE s   == Of(c, id)
           v   == Staged(c, id, E)
           l   == LinesOf(id, sets, E)
           es  == InTurn(sets, E)
           row == RowsMade(c, v, l)
<1>1. WellFormed(c)
  BY FileFormed
<1>2. s.id = id /\ id # 0 /\ "" \notin DOMAIN s.opt
  BY <1>1, SectionAt DEF Formed
<1>3. \A i \in DOMAIN sets : sets[i].key \in DOMAIN s.opt
  BY DEF KeysOf, InBatch
<1>4. Keyed(sets)
  BY <1>2, <1>3 DEF IsBatch, Apart, Keyed
<1>5. E \subseteq InBatch(sets)
  BY EditsAre
<1>6. \A e \in E : e.key \in DOMAIN s.opt
  BY <1>3, <1>5 DEF InBatch
<1>7. BatchOf(c, v, l, id, es)
  BY <1>1, <1>4, <1>6, BatchIs
<1> HIDE DEF s, v, l, es, row
<1>8. ASSUME NEW i \in DOMAIN l
      PROVE  row[i] = SetRow(s, es[i]) /\ row[i] # NoRow
  <2> DEFINE k == es[i].key
  <2>1. /\ IsSet(l[i], id, k) /\ Turns(c, v, id, k) /\ Of(v, id).opt[k] = es[i].value
        /\ Of(v, id).kind = s.kind /\ Of(v, id).id = id
        /\ id \notin WholeEntries(c, v, l, EntryKinds)
    BY <1>7, <1>8 DEF BatchOf, s
  <2> HIDE DEF k
  <2>2. RowIn(c, v, l, l[i])
          = Row(id, Label(Of(v, id), k), Said(Of(c, id).opt[k]), Said(Of(v, id).opt[k]),
                IF Of(c, id).kind \in EntryKinds THEN Subject(Of(c, id), Words) ELSE <<>>)
    BY ONLY <2>1 DEF RowIn, RowOfLine, IsSet, Turns
  <2>3. Label(Of(v, id), k) = Label(s, k)
    BY <1>2, <2>1 DEF Label, Says, IsRoute
  <2>4. RowIn(c, v, l, l[i]) = SetRow(s, es[i])
    BY <1>2, <2>1, <2>2, <2>3 DEF SetRow, s, k
  <2>5. SetRow(s, es[i]) # NoRow
    BY <1>2, RowIsOne DEF SetRow
  <2>6. row[i] = RowIn(c, v, l, l[i])
    BY DEF row, RowsMade
  <2> QED
    BY <2>4, <2>5, <2>6
<1>9. row = [i \in DOMAIN l |-> row[i]]
  BY DEF row, RowsMade
<1>10. Bar(l, row) = row
  BY <1>7, <1>8, <1>9, BarOfBatch
<1>11. RowsIn(c, v, l) = [i \in DOMAIN es |-> SetRow(s, es[i])]
  BY <1>7, <1>8, <1>9, <1>10, RowsAre DEF BatchOf, row
<1> QED
  BY <1>11 DEF SetRows, s, v, l, es

\* The answers, on an empty draft of the network file.
LEMMA SectionAnswer ==
  ASSUME FilesInv, EmptyInv, lines["network"] = <<>>, NEW id \in Ids(view["network"]),
         NEW sets, IsBatch(sets), KeysOf(sets) \subseteq DOMAIN Of(view["network"], id).opt,
         NEW subject,
         subject = IF Of(view["network"], id).kind \in EntryKinds
                     THEN Subject(Of(view["network"], id), Words) ELSE <<>>
  PROVE  LET es == Edits(sets, Of(view["network"], id).opt, {})
         IN  SectionRows("network", id, sets, subject)
               = RowsIn(conf["network"], Staged(view["network"], id, es),
                        lines["network"] \o LinesOf(id, sets, es))
<1> DEFINE file == view["network"]
           s    == Of(file, id)
           es   == Edits(sets, s.opt, {})
<1>1. file \in Seq(Sections) /\ Named(file) /\ file = conf["network"]
  BY DEF FilesInv, NetworkOK, EmptyInv
<1>2. s.id = id
  BY <1>1, OfIs
<1>3. es \subseteq InBatch(sets) /\ IsLog(sets)
  BY EditsAre DEF IsBatch
<1>4. SectionRows("network", id, sets, subject) = SetRows(s, sets, es)
  <2>1. SectionRows("network", id, sets, subject)
          = RowsOf(id, sets, es, s.opt, {}, LAMBDA k : Label(s, k), subject)
    BY DEF SectionRows
  <2> HIDE DEF s, es
  <2>2. SectionRows("network", id, sets, subject)
          = [i \in DOMAIN InTurn(sets, es) |->
               Row(id, Label(s, InTurn(sets, es)[i].key),
                   Said(s.opt[InTurn(sets, es)[i].key]), Said(InTurn(sets, es)[i].value),
                   subject)]
    BY <2>1 DEF RowsOf
  <2>3. subject = IF s.kind \in EntryKinds THEN Subject(s, Words) ELSE <<>>
    BY DEF s
  <2> QED
    BY <1>2, <2>2, <2>3 DEF SetRow, SetRows
<1>5. IsLog(LinesOf(id, sets, es))
  BY <1>3, LinesAre
<1>6. lines["network"] \o LinesOf(id, sets, es) = LinesOf(id, sets, es)
  BY <1>5, NothingJoined
<1>7. RowsIn(file, Staged(file, id, es), LinesOf(id, sets, es)) = SetRows(s, sets, es)
  BY <1>1, EditsHaveRows
<1> QED
  BY <1>1, <1>4, <1>6, <1>7

\* A section that was added stands in the file, of its kind and under a name
\* no section had.
Stands(file, log, kind, es) ==
  LET id == NewId(file, log)
      o  == NoOptions(OptionsOf[kind])
      g  == Staged(Append(file, Section(id, kind, o)), id, es)
  IN  id \in Ids(g) /\ id \notin Ids(file) /\ Of(g, id).kind = kind

LEMMA NewStands ==
  ASSUME NEW file \in Seq(Sections), Named(file), NEW log, IsLog(log),
         NEW kind \in Kinds,
         NEW es, \A s \in es : s.value \in Written
  PROVE  Stands(file, log, kind, es)
<1> DEFINE id == NewId(file, log)
           o  == NoOptions(OptionsOf[kind])
           g  == Staged(Append(file, Section(id, kind, o)), id, es)
<1>1. /\ Touches(file, g, id) /\ id \in Ids(g) /\ id \notin Ids(file)
      /\ Of(g, id).kind = kind /\ Of(g, id).opt = Over(o, Values(es))
      /\ IsLog(Append(log, Line(id, "", FALSE)))
  BY NewTouches
<1> HIDE DEF id, o, g
<1>2. id \in Ids(g) /\ id \notin Ids(file) /\ Of(g, id).kind = kind
  BY <1>1
<1> QED
  BY <1>2 DEF Stands, id, o, g

LEMMA NewAnswer ==
  ASSUME FilesInv, EmptyInv, lines["network"] = <<>>, NEW sets, IsBatch(sets)
  PROVE  LET new == New("network", "route", RouteOptions, sets)
         IN  new.rows = RowsIn(conf["network"], new.file, new.log)
<1> PICK kind \in Kinds : kind = "route"
  BY DEF Kinds
<1> DEFINE file == view["network"]
           none == lines["network"]
           id   == NewId(file, none)
           o    == NoOptions(OptionsOf[kind])
           es   == Edits(sets, o, {})
           g    == Staged(Append(file, Section(id, kind, o)), id, es)
           log  == Append(none, Line(id, "", FALSE))
           m    == log \o LinesOf(id, sets, es)
           new  == New("network", "route", RouteOptions, sets)
<1>1. file \in Seq(Sections) /\ Named(file) /\ file = conf["network"] /\ IsLog(none)
  BY DEF FilesInv, NetworkOK, EmptyInv, Configs
<1>2. OptionsOf[kind] = RouteOptions
  BY DEF OptionsOf
<1>3. new.file = g /\ new.log = m /\ new.rows = <<NewRow(id, Of(g, id))>>
  BY <1>2 DEF New, NewRow
<1>4. es \subseteq InBatch(sets) /\ IsLog(sets) /\ \A s \in es : s.value \in Written
  BY EditsAre DEF IsBatch
<1>5. id # 0
  <2>1. IsLog(file)
    BY <1>1, FileFormed
  <2> QED
    BY <1>1, <2>1, NewIdIs
<1>6. NewEntryLog(log, id)
  BY NewEntryStarts
<1> HIDE DEF es
<1>7. id \in Ids(g) /\ id \notin Ids(file) /\ Of(g, id).kind = kind
  <2>1. Stands(file, none, kind, es)
    <3> HIDE DEF file, none
    <3> QED
      BY ONLY <1>1, <1>4, kind \in Kinds, NewStands
  <2> QED
    BY ONLY <2>1 DEF Stands
<1> HIDE DEF g, log, new, id
<1>8. IsLog(log)
  BY <1>6 DEF NewEntryLog
<1>9. NewEntryLog(m, id)
  <2>1. Longer(log, m, id)
    BY <1>4, <1>8, LongerByBatch
  <2> HIDE DEF m
  <2> QED
    BY <1>6, <2>1, NewEntryGrows
<1> HIDE DEF m
<1>10. Comes(file, g, id) /\ Of(g, id).kind \in EntryKinds
  BY <1>7 DEF Comes, EntryKinds
<1>11. RowsIn(file, g, m) = <<NewRow(id, Of(g, id))>>
  BY <1>5, <1>9, <1>10, NewEntryRows
<1>12. new.rows = RowsIn(conf["network"], new.file, new.log)
  BY <1>1, <1>3, <1>11
<1> QED
  BY <1>12 DEF new

LEMMA RemovalAnswer ==
  ASSUME FilesInv, EmptyInv, lines["network"] = <<>>, NEW id \in Ids(view["network"])
  PROVE  <<GoneRow(id, Of(view["network"], id))>>
           = RowsIn(conf["network"], UciDelete(view["network"], id),
                    Append(lines["network"], Line(id, "", FALSE)))
<1> DEFINE file == view["network"]
           g    == UciDelete(file, id)
           e    == Line(id, "", FALSE)
<1>1. file \in Seq(Sections) /\ Named(file) /\ file = conf["network"]
  BY DEF FilesInv, NetworkOK, EmptyInv
<1>2. WellFormed(file)
  BY <1>1, FileFormed
<1>3. Ids(g) = Ids(file) \ {id} /\ id # 0
  BY <1>2, DeletedFile, SectionAt
<1>4. Append(lines["network"], e) = <<e>>
  OBVIOUS
<1>5. Goes(file, g, id)
  BY <1>3 DEF Goes
<1>6. RowsIn(file, g, <<e>>) = <<GoneRow(id, Of(file, id))>>
  BY <1>3, <1>5, GoneEntryRows
<1> QED
  BY <1>1, <1>4, <1>6

Answered == said' = RowsOfFile("network")'

LEMMA AcceptedAnswers ==
  ASSUME FilesInv, UNCHANGED conf, NEW g, NEW log, NEW rows,
         Accepted("network", g, log, rows), rows = RowsIn(conf["network"], g, log)
  PROVE  Answered
<1>1. view'["network"] = g /\ lines'["network"] = log /\ said' = rows
  BY DEF Accepted, Put, FilesInv, Configs
<1> QED
  BY <1>1 DEF Answered, RowsOfFile, RowsIn

LEMMA SectionAnswered ==
  ASSUME FilesInv, EmptyInv, CountInv, UNCHANGED conf, faults' = faults,
         lines["network"] = <<>>, NEW id \in Ids(view["network"]),
         NEW sets, IsBatch(sets), KeysOf(sets) \subseteq DOMAIN Of(view["network"], id).opt,
         NEW subject,
         subject = IF Of(view["network"], id).kind \in EntryKinds
                     THEN Subject(Of(view["network"], id), Words) ELSE <<>>,
         NEW cross,
         StageSection("network", id, sets, SectionRows("network", id, sets, subject), cross)
  PROVE  Answered
<1> DEFINE es == Edits(sets, Of(view["network"], id).opt, {})
<1>1. ~Fails
  BY DEF Fails, CountInv
<1>2. Accepted("network", Staged(view["network"], id, es),
               lines["network"] \o LinesOf(id, sets, es),
               SectionRows("network", id, sets, subject))
  BY <1>1 DEF StageSection, SectionWritten, Dropped
<1>3. SectionRows("network", id, sets, subject)
        = RowsIn(conf["network"], Staged(view["network"], id, es),
                 lines["network"] \o LinesOf(id, sets, es))
  BY SectionAnswer
<1> HIDE DEF es
<1> QED
  BY <1>2, <1>3, AcceptedAnswers

\* The options of a section are those of its kind.
LEMMA OptionsAre ==
  ASSUME FilesInv, NEW id \in Ids(view["network"])
  PROVE  /\ Of(view["network"], id).kind = "interface"
            => DOMAIN Of(view["network"], id).opt = InterfaceOptions
         /\ Of(view["network"], id).kind = "route"
            => DOMAIN Of(view["network"], id).opt = RouteOptions
<1> DEFINE s == Of(view["network"], id)
<1>1. s \in Sections
  BY OfIs DEF FilesInv, NetworkOK
<1> HIDE DEF s
<1>2. s.opt \in [OptionsOf[s.kind] -> Written]
  BY <1>1, SectionIs
<1>3. OptionsOf["interface"] = InterfaceOptions /\ OptionsOf["route"] = RouteOptions
  BY DEF OptionsOf
<1>4. DOMAIN s.opt = OptionsOf[s.kind]
  BY <1>2
<1> QED
  BY <1>3, <1>4 DEF s

LEMMA StagingAnswers ==
  ASSUME NetworkInv, EmptyInv, CountInv, [NetworkNext]_networkVars,
         lines["network"] = <<>>, faults' = faults, edits' # edits,
         lines'["network"] # <<>>
  PROVE  Answered
<1>1. FilesInv
  BY DEF NetworkInv
<1>2. ~Fails
  BY DEF Fails, CountInv
<1>3. "interface" \notin EntryKinds /\ "route" \in EntryKinds
  BY DEF EntryKinds
<1>4. ASSUME NEW q \in WANs, StageWAN(q) PROVE Answered
  <2> DEFINE id   == IdOf("wan")
             sets == WanSettings(q)
  <2>1. IsBatch(sets) /\ KeysOf(sets) \subseteq InterfaceOptions
    BY WanBatch
  <2>2. /\ UNCHANGED conf
        /\ StageSection("network", id, sets, SectionRows("network", id, sets, <<>>),
                        crossed)
    BY <1>4 DEF StageWAN, Counted
  <2>3. id \in Ids(view["network"]) /\ Of(view["network"], id).kind = "interface"
    BY <1>1, ConnectionIds
  <2> HIDE DEF id, sets
  <2>4. KeysOf(sets) \subseteq DOMAIN Of(view["network"], id).opt
    BY <1>1, <2>1, <2>3, OptionsAre
  <2> QED
    BY <1>1, <1>3, <2>1, <2>2, <2>3, <2>4, SectionAnswered
<1>5. ASSUME NEW q \in LANs, StageLAN(q) PROVE Answered
  <2> DEFINE sets == LanSettings(q)
  <2>1. IsBatch(sets) /\ KeysOf(sets) \subseteq InterfaceOptions
    BY LanBatch
  <2>2. /\ UNCHANGED conf
        /\ StageSection("network", Lan, sets, SectionRows("network", Lan, sets, <<>>),
                        crossed)
    BY <1>2, <1>5 DEF StageLAN, LanSettings, Counted
  <2>3. Lan \in Ids(view["network"]) /\ Of(view["network"], Lan).kind = "interface"
    BY <1>1, ConnectionIds
  <2> HIDE DEF sets
  <2>4. KeysOf(sets) \subseteq DOMAIN Of(view["network"], Lan).opt
    BY <1>1, <2>1, <2>3, OptionsAre
  <2> QED
    BY <1>1, <1>3, <2>1, <2>2, <2>3, <2>4, SectionAnswered
<1>6. ASSUME NEW q \in Routes, AddRoute(q) PROVE Answered
  <2> DEFINE sets == RouteSettings(q, RouteInterfaceFor(q.iface, q.gateway), FALSE)
             new  == New("network", "route", RouteOptions, sets)
  <2>1. /\ IsBatch(sets) /\ UNCHANGED conf
        /\ StageNew("network", "route", RouteOptions, sets)
    BY <1>6, AddRouteIs
  <2> HIDE DEF sets
  <2>2. Accepted("network", new.file, new.log, new.rows)
    BY <1>2, <2>1 DEF StageNew, NewWritten, Dropped
  <2>3. new.rows = RowsIn(conf["network"], new.file, new.log)
    BY <1>1, <2>1, NewAnswer
  <2> HIDE DEF new
  <2> QED
    BY <1>1, <2>1, <2>2, <2>3, AcceptedAnswers
<1>7. ASSUME NEW q \in Routes, NEW id \in RouteIds, EditRoute(id, q) PROVE Answered
  <2> DEFINE sets == RouteSettings(q, RouteInterfaceFor(q.iface, q.gateway),
                                   RouteOf(Of(view["network"], id)).mask)
  <2>1. /\ IsBatch(sets) /\ KeysOf(sets) \subseteq RouteOptions
        /\ id \in Ids(view["network"]) /\ Of(view["network"], id).kind = "route"
        /\ StageSection("network", id, sets,
                        SectionRows("network", id, sets,
                                    Subject(Of(view["network"], id), Words)), crossed)
        /\ UNCHANGED conf
    BY <1>1, <1>7, EditRouteIs
  <2> HIDE DEF sets
  <2>2. KeysOf(sets) \subseteq DOMAIN Of(view["network"], id).opt
    BY <1>1, <2>1, OptionsAre
  <2> QED
    BY <1>1, <1>3, <2>1, <2>2, SectionAnswered
<1>8. ASSUME NEW id \in RouteIds, RemoveRoute(id) PROVE Answered
  <2>1. id \in Ids(view["network"])
    BY DEF RouteIds
  <2>2. /\ UNCHANGED conf
        /\ Accepted("network", UciDelete(view["network"], id),
                    Append(lines["network"], Line(id, "", FALSE)),
                    <<GoneRow(id, Of(view["network"], id))>>)
    BY <1>8 DEF RemoveRoute, StageRemoval, Counted, GoneRow
  <2> QED
    BY <1>1, <2>1, <2>2, RemovalAnswer, AcceptedAnswers
<1>9. ~Elsewhere
  BY DEF Elsewhere
<1>10. ~DiscardStaged /\ ~Commit /\ ~UNCHANGED networkVars
  BY DEF DiscardStaged, Commit, networkVars
<1> QED
  BY <1>1, <1>4, <1>5, <1>6, <1>7, <1>8, <1>9, <1>10, DhcpElsewhere DEF NetworkNext

\* NetworkAnswerIsTheBar: what StageWAN, StageLAN and the route screens answer on
\* an empty draft is, row by row and in this order, what StagedChanges rebuilds
\* from the committed file, the draft and `uci changes' after a reload.
THEOREM NetworkAnswerIsTheBar == NetworkSpec => RowsAfterReload
<1>1. NetworkInv /\ EmptyInv /\ CountInv /\ [NetworkNext]_networkVars
      => [/\ lines = [c \in Configs |-> <<>>]
          /\ faults' = faults /\ edits' # edits /\ lines'["network"] # <<>>
          => said' = RowsOfFile("network")']_networkVars
  <2> SUFFICES ASSUME NetworkInv, EmptyInv, CountInv, [NetworkNext]_networkVars,
                      lines = [c \in Configs |-> <<>>],
                      faults' = faults, edits' # edits, lines'["network"] # <<>>
               PROVE  Answered
    BY DEF Answered
  <2>1. lines["network"] = <<>>
    BY DEF Configs
  <2> QED
    BY <2>1, StagingAnswers
<1> QED
  BY <1>1, NetworkInductive, EmptyDraftIsCommitted, FaultsCounted, PTL
  DEF NetworkSpec, RowsAfterReload
=============================================================================
