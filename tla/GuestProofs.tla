----------------------------- MODULE GuestProofs -----------------------------
(***************************************************************************)
(* Proofs about the guest network.  They hold for any radios, files to     *)
(* start from, edits by hand and on other screens, and failures.           *)
(*                                                                         *)
(* The card's verdict is a reading of one set of files, so its proof is an *)
(* implication between two readings; it needs only that the files are well *)
(* formed (SoundInv).  What waits in the draft needs to know that the      *)
(* apply bar shows it (WaitInv): that row is what the locks look at.       *)
(* That a promised IPv6 prefix fits is about sizes: they are counted, and  *)
(* the parts are cut off the prefix in turn, the larger ones first.        *)
(***************************************************************************)
EXTENDS GuestNetwork, FiniteSetTheorems, FunctionTheorems, WellFoundedInduction,
        TLAPS

-----------------------------------------------------------------------------
(* The inductive invariant.                                                 *)

\* A section that looks like the guest network's and that the panel never makes.
Strange(k, s) ==
  /\ k \notin PanelKeys
  /\ \/ k[1] = "firewall" /\ s.kind = "zone" /\ s.name = guestSection
     \/ k[1] = "wireless" /\ k[2] = guestPrefix /\ s.kind # "wifi-iface"
     \/ k[1] = "wireless" /\ k[2] # guestPrefix /\ s.kind = "wifi-iface" /\ OnGuest(s)
     \/ k[1] = "network" /\ s.kind = "device" /\ s.name = guestBridge
     \/ k[1] = "network" /\ s.kind = "interface" /\ s.device = guestBridge

Sound(c, by) ==
  AreFiles(c) /\ \A k \in DOMAIN c : Strange(k, c[k]) => k \in by

SoundInv == Sound(disk, byHand) /\ Sound(view, byHand) /\ Sound(snap, byHand)

-----------------------------------------------------------------------------
(* Files made of other files.                                               *)

LEMMA OptionsAre ==
  /\ DOMAIN Options = {"network", "firewall", "wireless", "dhcp"}
  /\ Options["network"] = {"kind", "name", "device", "addr", "ip6assign", "more"}
  /\ Options["firewall"] = {"kind", "name", "src", "dest", "what", "target",
                            "enabled", "more", "network", "device", "subnet",
                            "input", "forward", "masq", "reflection"}
  /\ Options["wireless"] = {"kind", "network", "device", "channel", "disabled",
                            "isolate", "bridge_isolate"}
  /\ Options["dhcp"] = {"kind", "only", "skip"}
<1>1. /\ DOMAIN Net("") = {"kind", "name", "device", "addr", "ip6assign", "more"}
      /\ DOMAIN Dhcp("") = {"kind", "only", "skip"}
  BY DEF Net, Dhcp
<1>2. DOMAIN Wl("") = {"kind", "network", "device", "channel", "disabled",
                       "isolate", "bridge_isolate"}
  BY DEF Wl
<1>3. DOMAIN Fw("") = {"kind", "name", "src", "dest", "what", "target",
                       "enabled", "more", "network", "device", "subnet",
                       "input", "forward", "masq", "reflection"}
  BY DEF Fw
<1>4. DOMAIN Options = {"network", "firewall", "wireless", "dhcp"}
  BY DEF Options
<1>5. /\ Options["network"] = DOMAIN Net("") /\ Options["firewall"] = DOMAIN Fw("")
      /\ Options["wireless"] = DOMAIN Wl("") /\ Options["dhcp"] = DOMAIN Dhcp("")
  BY DEF Options
<1> QED
  BY <1>1, <1>2, <1>3, <1>4, <1>5

LEMMA SectionIs ==
  ASSUME NEW k, NEW s, IsSection(k, s)
  PROVE  /\ "kind" \in DOMAIN s /\ DOMAIN s = Options[k[1]]
         /\ k[1] \in {"network", "firewall", "wireless", "dhcp"}
<1>1. DOMAIN s = Options[k[1]] /\ k[1] \in DOMAIN Options
  BY DEF IsSection
<1> QED
  BY <1>1, OptionsAre

LEMMA SoundMore ==
  ASSUME NEW c, NEW by, NEW more, Sound(c, by), by \subseteq more
  PROVE  Sound(c, more)
BY DEF Sound

LEMMA SoundFiles ==
  ASSUME NEW c, NEW d, NEW by, NEW fs, Sound(c, by), Sound(d, by)
  PROVE  Sound(WithFiles(c, d, fs), by)
<1> DEFINE w == WithFiles(c, d, fs)
<1>1. /\ w = [k \in DOMAIN w |-> w[k]]
      /\ \A k \in DOMAIN w : \/ k \in DOMAIN c /\ w[k] = c[k]
                             \/ k \in DOMAIN d /\ w[k] = d[k]
      /\ LanKey \in DOMAIN c /\ LanKey \in DOMAIN d => LanKey \in DOMAIN w
  BY DEF WithFiles
<1> HIDE DEF w
<1>2. Sound(w, by)
  BY <1>1 DEF Sound, AreFiles
<1> QED
  BY <1>2 DEF w

LEMMA SoundWithout ==
  ASSUME NEW c, NEW by, NEW ks, Sound(c, by), LanKey \notin ks
  PROVE  Sound(Without(c, ks), by)
<1> DEFINE w == Without(c, ks)
<1>1. /\ w = [k \in DOMAIN w |-> w[k]] /\ DOMAIN w = DOMAIN c \ ks
      /\ \A k \in DOMAIN w : w[k] = c[k]
  BY DEF Without
<1> HIDE DEF w
<1>2. Sound(w, by)
  BY <1>1 DEF Sound, AreFiles
<1> QED
  BY <1>2 DEF w

LEMMA SoundWith ==
  ASSUME NEW c, NEW by, NEW k, NEW s, Sound(c, by), IsSection(k, s),
         Strange(k, s) => k \in by
  PROVE  Sound(With(c, k, s), by)
<1> DEFINE w == With(c, k, s)
<1>1. /\ w = [x \in DOMAIN w |-> w[x]] /\ DOMAIN w = DOMAIN c \cup {k}
      /\ w[k] = s /\ \A x \in DOMAIN w : x # k => w[x] = c[x]
  BY DEF With
<1> HIDE DEF w
<1>2. Sound(w, by)
  BY <1>1 DEF Sound, AreFiles
<1> QED
  BY <1>2 DEF w

\* The parts p of the panel's over c.
LEMMA SoundOver ==
  ASSUME NEW c, NEW by, NEW p, Sound(c, by),
         \A k \in DOMAIN p : IsSection(k, p[k]) /\ ~Strange(k, p[k])
  PROVE  Sound(Over(p, c), by)
<1> DEFINE w == Over(p, c)
<1>1. /\ w = [x \in DOMAIN w |-> w[x]] /\ DOMAIN w = DOMAIN p \cup DOMAIN c
      /\ \A x \in DOMAIN p : w[x] = p[x]
      /\ \A x \in DOMAIN c \ DOMAIN p : w[x] = c[x]
  BY DEF Over
<1> HIDE DEF w
<1>2. Sound(w, by)
  BY <1>1 DEF Sound, AreFiles
<1> QED
  BY <1>2 DEF w

LEMMA SoundPut ==
  ASSUME NEW c, NEW by, NEW k \in DOMAIN c, NEW f, Sound(c, by),
         "kind" \notin DOMAIN f,
         "name" \in DOMAIN f => f["name"] \notin {"", "*"},
         Strange(k, Put(c, k, f)[k]) => k \in by
  PROVE  Sound(Put(c, k, f), by)
<1> DEFINE w == Put(c, k, f)
           s == w[k]
<1>0. c = [x \in DOMAIN c |-> c[x]] /\ IsSection(k, c[k])
  BY DEF Sound, AreFiles
<1>1. /\ DOMAIN w = DOMAIN c /\ w = [x \in DOMAIN w |-> w[x]]
      /\ \A x \in DOMAIN c : x # k => w[x] = c[x]
      /\ s = [x \in DOMAIN c[k] |-> IF x \in DOMAIN f THEN f[x] ELSE c[k][x]]
  <2>1. /\ DOMAIN Put(c, k, f) = DOMAIN c
        /\ Put(c, k, f) = [x \in DOMAIN c |-> Put(c, k, f)[x]]
        /\ \A x \in DOMAIN c : x # k => Put(c, k, f)[x] = c[x]
        /\ Put(c, k, f)[k] = [x \in DOMAIN c[k] |->
                                IF x \in DOMAIN f THEN f[x] ELSE c[k][x]]
    BY DEF Put
  <2> QED
    BY <2>1
<1>2. DOMAIN c[k] = Options[k[1]] /\ k[1] \in DOMAIN Options
      /\ "kind" \in DOMAIN c[k]
  BY <1>0, SectionIs, OptionsAre
<1> HIDE DEF w, s
<1>3. s = [o \in Options[k[1]] |-> s[o]]
  BY <1>1, <1>2
<1>4. s["kind"] = c[k]["kind"]
  BY <1>1, <1>2
<1>5. s["kind"] = "zone" => k[1] = "firewall" /\ s["name"] \notin {"", "*"}
  <2> SUFFICES ASSUME s["kind"] = "zone"
               PROVE  k[1] = "firewall" /\ s["name"] \notin {"", "*"}
    OBVIOUS
  <2>1. k[1] = "firewall" /\ c[k]["name"] \notin {"", "*"}
    BY <1>0, <1>4 DEF IsSection
  <2>2. "name" \in DOMAIN c[k]
    BY <1>0, <1>2, <1>4, OptionsAre DEF IsSection
  <2> QED
    BY <1>1, <2>1, <2>2
<1>6. IsSection(k, s)
  BY <1>2, <1>3, <1>5 DEF IsSection
<1> QED
  BY <1>1, <1>6 DEF Sound, AreFiles, s, w

-----------------------------------------------------------------------------
(* What the card's silence means.                                           *)

\* A rule that reads as the panel wrote it has the options that matter.
LEMMA MatchIs ==
  ASSUME NEW s, NEW spec, RuleMatches(s, spec), "kind" \in DOMAIN spec,
         "src" \in DOMAIN spec, "dest" \in DOMAIN spec, "target" \in DOMAIN spec
  PROVE  /\ s.kind = spec.kind /\ s.src = spec.src
         /\ s.dest = spec.dest /\ s.target = spec.target
<1>1. [s EXCEPT !.enabled = "", !.name = ""] = spec
  BY DEF RuleMatches
<1>2. DOMAIN s = DOMAIN spec
  BY <1>1
<1> QED
  BY <1>1, <1>2

LEMMA SpecIs ==
  ASSUME NEW r \in RuleNames, NEW wan
  PROVE  LET spec == RuleSpec(r, wan)
         IN  /\ {"kind", "src", "dest", "target"} \subseteq DOMAIN spec
             /\ spec.kind = "rule" /\ spec.src = guestSection
             /\ r \in Services => /\ spec.dest = "" /\ spec.target = "ACCEPT"
                                  /\ spec = RuleSpec(r, "")
             /\ r \notin Services => spec.target = "REJECT"
BY DEF RuleSpec, Fw

\* The reasons that are not given.
LEMMA Unblocked ==
  ASSUME NEW c, NEW u, Blockers(c, u) = {}, Ours(c)
  PROVE  LET wan == UplinkZone(c, u)
             zones == {k \in Kind(c, "firewall", "zone") : c[k].name = wan}
         IN  /\ wan # ""
             /\ \A k \in zones : ~ZoneHoldsHome(c[k]) /\ c[k].masq = "1"
             /\ OpenToAll(c) = {} /\ ~DhcpSkipsGuests(c) /\ ~Weakened(c, u)
<1> DEFINE wan == UplinkZone(c, u)
           zones == {k \in Kind(c, "firewall", "zone") : c[k].name = wan}
<1> HIDE DEF wan, zones
<1>1. /\ ~(wan = "") /\ ~(\E k \in zones : ZoneHoldsHome(c[k]))
      /\ ~(\E k \in zones : c[k].masq # "1") /\ ~(OpenToAll(c) # {})
      /\ ~DhcpSkipsGuests(c) /\ ~(Ours(c) /\ Weakened(c, u))
  BY DEF Blockers, wan, zones
<1> QED
  BY <1>1 DEF wan, zones

\* What an unweakened guest network has.
Whole(c, u) ==
  LET wan  == UplinkZone(c, u)
      ours == {RuleKey(r) : r \in RuleNames}
  IN  /\ GuestZone \in DOMAIN c /\ c[GuestZone].kind = "zone"
      /\ {c[GuestZone].input, c[GuestZone].forward} \subseteq {"REJECT", "DROP"}
      /\ c[GuestZone].name = guestSection /\ c[GuestZone].network = {guestSection}
      /\ c[GuestZone].device = {} /\ c[GuestZone].subnet = {}
      /\ GuestDev \in DOMAIN c /\ ~c[GuestDev].more
      /\ OtherOnGuestBridge(c) = {}
      /\ GuestIface \in DOMAIN c
      /\ \A k \in Kind(c, "firewall", "zone") \ {GuestZone} :
           c[GuestIface].addr \notin c[k].subnet
      /\ GuestWan \in DOMAIN c /\ c[GuestWan].kind = "forwarding"
      /\ c[GuestWan].src = guestSection /\ c[GuestWan].enabled # "0"
      /\ c[GuestWan].dest = wan
      /\ ZoneTakingGuests(c) = {}
      /\ \A r \in RuleNames : /\ RuleKey(r) \in DOMAIN c
                              /\ RuleMatches(c[RuleKey(r)], RuleSpec(r, wan))
      /\ GuestOpenings(c, wan, ours) = {}
      /\ Owned(c) = Attached(c) /\ Stray(c) = {}
      /\ \A k \in Attached(c) : c[k].isolate = "1" /\ c[k].bridge_isolate = "1"

LEMMA UnweakenedIsWhole ==
  ASSUME NEW c, NEW u, Ours(c), ~Weakened(c, u)
  PROVE  Whole(c, u)
<1>1. Has(c, GuestZone, "zone")
  BY DEF Weakened
<1>2. GuestDev \in DOMAIN c /\ GuestIface \in DOMAIN c
  BY <1>1 DEF Ours, Orphans, Has, FirewallOfGuests
<1> QED
  BY <1>1, <1>2 DEF Weakened, Whole, Has

\* Guests are taken into their own zone and into no other.
LEMMA OneZone ==
  ASSUME NEW c, NEW u, Whole(c, u)
  PROVE  ZonesOfGuests(c) = {GuestZone}
<1>1. GuestZone \in ZonesOfGuests(c)
  BY DEF Whole, ZonesOfGuests, Kind, File, GuestZone
<1>2. ASSUME NEW k \in ZonesOfGuests(c), k # GuestZone PROVE FALSE
  <2>1. k \in Kind(c, "firewall", "zone") \ {GuestZone}
    BY <1>2 DEF ZonesOfGuests
  <2>2. ~(guestSection \in c[k].network) /\ ~(guestBridge \in c[k].device)
    BY <2>1 DEF Whole, ZoneTakingGuests
  <2>3. OtherOnGuestBridge(c) = {} /\ c[GuestIface].addr \notin c[k].subnet
    BY <2>1 DEF Whole
  <2> QED
    BY <1>2, <2>2, <2>3 DEF ZonesOfGuests
<1> QED
  BY <1>1, <1>2

LEMMA FromZone ==
  ASSUME NEW c, NEW u, Whole(c, u), NEW s
  PROVE  FromGuests(c, s) <=> s.enabled # "0" /\ s.src \in {"*", guestSection}
<1>1. {c[k].name : k \in ZonesOfGuests(c)} = {guestSection}
  BY OneZone DEF Whole
<1> QED
  BY <1>1 DEF FromGuests

\* The name of the zone guests are let out to is a zone's.
LEMMA UplinkName ==
  ASSUME NEW c, NEW u, AreFiles(c)
  PROVE  UplinkZone(c, u) # "*"
<1>1. CASE u # "" /\ ZonesHolding(c, u) # {}
  <2>1. PICK k \in ZonesHolding(c, u) : UplinkZone(c, u) = c[k].name
    BY <1>1 DEF UplinkZone
  <2>2. k \in DOMAIN c /\ c[k].kind = "zone"
    BY <2>1 DEF ZonesHolding, Kind, File
  <2> QED
    BY <2>1, <2>2 DEF AreFiles, IsSection
<1>2. CASE ~(u # "" /\ ZonesHolding(c, u) # {})
  BY <1>2 DEF UplinkZone
<1> QED
  BY <1>1, <1>2

\* A rule of the panel's that lets somebody in is one of its services.
LEMMA OursOpen ==
  ASSUME NEW c, NEW u, Whole(c, u), NEW r \in RuleNames
  PROVE  LET k == RuleKey(r)
         IN  /\ k \in Kind(c, "firewall", "rule")
             /\ OpenTo(c[k]) => /\ r \in Services /\ c[k].dest = ""
                                /\ RuleMatches(c[k], RuleSpec(r, ""))
<1> DEFINE k == RuleKey(r)
           spec == RuleSpec(r, UplinkZone(c, u))
<1>1. k \in DOMAIN c /\ k[1] = "firewall" /\ RuleMatches(c[k], spec)
  BY DEF Whole, RuleKey
<1>2. /\ {"kind", "src", "dest", "target"} \subseteq DOMAIN spec
      /\ spec.kind = "rule"
      /\ r \in Services => spec.dest = "" /\ spec = RuleSpec(r, "")
      /\ r \notin Services => spec.target = "REJECT"
  BY SpecIs
<1> HIDE DEF k, spec
<1>3. c[k].kind = "rule" /\ c[k].dest = spec.dest /\ c[k].target = spec.target
  BY <1>1, <1>2, MatchIs
<1>4. k \in Kind(c, "firewall", "rule")
  BY <1>1, <1>3 DEF Kind, File
<1>5. OpenTo(c[k]) => /\ r \in Services /\ c[k].dest = ""
                      /\ RuleMatches(c[k], RuleSpec(r, ""))
  BY <1>1, <1>2, <1>3 DEF OpenTo
<1> QED
  BY <1>4, <1>5 DEF k

LEMMA GuestsAreServed ==
  ASSUME NEW c, AreFiles(c), Ours(c), Blockers(c, up) = {}
  PROVE  Served(c)
<1> DEFINE wan == UplinkZone(c, up)
<1>1. /\ wan # "" /\ ~DhcpSkipsGuests(c) /\ Whole(c, up)
      /\ \A k \in Kind(c, "firewall", "zone") : c[k].name = wan => c[k].masq = "1"
  BY Unblocked, UnweakenedIsWhole
<1> HIDE DEF wan
<1>2. \E k \in Kind(c, "firewall", "forwarding") :
        FromGuests(c, c[k]) /\ c[k].dest = wan
  <2>1. GuestWan \in Kind(c, "firewall", "forwarding")
    BY <1>1 DEF Whole, Kind, File, GuestWan
  <2>2. FromGuests(c, c[GuestWan]) /\ c[GuestWan].dest = wan
    BY <1>1, FromZone DEF Whole, wan
  <2> QED
    BY <2>1, <2>2
<1>3. \A r \in {"dhcp", "dns"} : \E k \in Kind(c, "firewall", "rule") :
        RuleMatches(c[k], RuleSpec(r, ""))
  <2> SUFFICES ASSUME NEW r \in {"dhcp", "dns"}
               PROVE  \E k \in Kind(c, "firewall", "rule") :
                        RuleMatches(c[k], RuleSpec(r, ""))
    OBVIOUS
  <2>1. r \in Services /\ r \in RuleNames
    BY DEF Services, RuleNames
  <2>2. RuleSpec(r, wan) = RuleSpec(r, "")
    BY <2>1, SpecIs
  <2>3. RuleMatches(c[RuleKey(r)], RuleSpec(r, wan))
    BY <1>1, <2>1 DEF Whole, wan
  <2>4. RuleKey(r) \in Kind(c, "firewall", "rule")
    BY <1>1, <2>1, OursOpen
  <2> QED
    BY <2>2, <2>3, <2>4
<1> QED
  BY <1>1, <1>2, <1>3 DEF Served, wan

LEMMA RouterIsShut ==
  ASSUME NEW c, Ours(c), Blockers(c, up) = {}
  PROVE  ~Reaches(c, "router")
<1>1. OpenToAll(c) = {} /\ Whole(c, up)
  BY Unblocked, UnweakenedIsWhole
<1>2. ASSUME NEW k \in ZonesOfGuests(c) PROVE c[k].input # "ACCEPT"
  BY <1>1, OneZone DEF Whole
<1>3. ASSUME NEW k \in Kind(c, "firewall", "rule"), FromGuests(c, c[k]),
             OpenTo(c[k]), c[k].dest = ""
      PROVE  \E r \in Services : RuleMatches(c[k], RuleSpec(r, ""))
  <2>1. k \in File(c, "firewall") /\ c[k].enabled # "0"
        /\ c[k].src \in {"*", guestSection}
    BY <1>1, <1>3, FromZone DEF Kind
  <2>2. c[k].src = guestSection
    BY <1>1, <1>3, <2>1 DEF OpenToAll
  <2>3. k \in {RuleKey(r) : r \in RuleNames}
    BY <1>1, <1>3, <2>1, <2>2 DEF Whole, GuestOpenings
  <2>4. PICK r \in RuleNames : k = RuleKey(r)
    BY <2>3
  <2> QED
    BY <1>1, <1>3, <2>4, OursOpen
<1> QED
  BY <1>2, <1>3 DEF Reaches

LEMMA HomeIsShut ==
  ASSUME NEW c, AreFiles(c), Ours(c), Blockers(c, up) = {}
  PROVE  ~Reaches(c, "home")
<1> DEFINE wan == UplinkZone(c, up)
<1>1. /\ OpenToAll(c) = {} /\ Whole(c, up) /\ wan # "*"
      /\ \A k \in Kind(c, "firewall", "zone") : c[k].name = wan => ~ZoneHoldsHome(c[k])
  BY Unblocked, UnweakenedIsWhole, UplinkName
<1> HIDE DEF wan
<1>2. ASSUME NEW k \in ZonesOfGuests(c) PROVE ~ZoneHoldsHome(c[k])
  BY <1>1, OneZone DEF Whole, ZoneHoldsHome, guestSection
<1>3. ~LeadsHome(c, wan)
  BY <1>1 DEF LeadsHome
<1>4. ~LeadsHome(c, "")
  BY DEF LeadsHome, AreFiles, IsSection, Kind, File
<1>5. ASSUME NEW k \in File(c, "firewall"), c[k].enabled # "0",
             FromGuests(c, c[k]), LeadsHome(c, c[k].dest),
             c[k].kind \in {"forwarding", "redirect"} \/ OpenTo(c[k])
      PROVE  FALSE
  <2>1. c[k].src \in {"*", guestSection}
    BY <1>1, <1>5, FromZone
  <2>2. c[k].src = guestSection
    BY <1>1, <1>5, <2>1 DEF OpenToAll
  <2>3. CASE k \in {RuleKey(r) : r \in RuleNames}
    <3>1. PICK r \in RuleNames : k = RuleKey(r)
      BY <2>3
    <3>2. c[k].kind = "rule" /\ (OpenTo(c[k]) => c[k].dest = "")
      BY <1>1, <3>1, OursOpen DEF Kind
    <3> QED
      BY <1>4, <1>5, <3>2
  <2>4. CASE k \notin {RuleKey(r) : r \in RuleNames}
    <3>1. /\ ~OpenTo(c[k]) /\ c[k].kind # "redirect"
          /\ c[k].kind = "forwarding" => c[k].dest = wan
      BY <1>1, <1>5, <2>2, <2>4 DEF Whole, GuestOpenings, wan
    <3> QED
      BY <1>3, <1>5, <3>1
  <2> QED
    BY <2>3, <2>4
<1>6. ASSUME NEW k \in File(c, "firewall"), c[k].enabled # "0",
             c[k].kind = "redirect", guestSection \in c[k].reflection
      PROVE  FALSE
  BY <1>1, <1>6 DEF Whole, GuestOpenings
<1> QED
  BY <1>2, <1>5, <1>6 DEF Reaches

LEMMA UpstreamIsShut ==
  ASSUME NEW c, Ours(c), Blockers(c, up) = {}
  PROVE  ~Reaches(c, "upstream")
<1>1. Whole(c, up)
  BY Unblocked, UnweakenedIsWhole
<1>2. ASSUME NEW r \in {"no_private4", "no_private6"}
      PROVE  \E k \in Kind(c, "firewall", "rule") :
               RuleMatches(c[k], RuleSpec(r, UplinkZone(c, up)))
  <2>1. r \in RuleNames
    BY DEF RuleNames
  <2> QED
    BY <1>1, <2>1, OursOpen DEF Whole
<1> QED
  BY <1>2 DEF Reaches

LEMMA AirIsShut ==
  ASSUME NEW c, Ours(c), Blockers(c, up) = {}
  PROVE  ~Reaches(c, "peers") /\ ~Reaches(c, "home by air")
<1>1. Whole(c, up)
  BY Unblocked, UnweakenedIsWhole
<1>2. ASSUME NEW k \in Kind(c, "wireless", "wifi-iface"), OnGuest(c[k])
      PROVE  c[k].isolate = "1" /\ c[k].bridge_isolate = "1"
  <2>1. k[2] = guestPrefix
    BY <1>1, <1>2 DEF Whole, Stray
  <2>2. k \in Owned(c)
    BY <1>2, <2>1 DEF Owned, PanelAPs, Kind
  <2> QED
    BY <1>1, <2>2 DEF Whole
<1>3. ASSUME NEW k \in Owned(c) PROVE "lan" \notin c[k].network
  BY <1>1, <1>3 DEF Whole, Attached, guestSection
<1>4. ~Reaches(c, "peers")
  BY <1>1, <1>2 DEF Reaches, Whole
<1>5. ~Reaches(c, "home by air")
  BY <1>3 DEF Reaches
<1> QED
  BY <1>4, <1>5

-----------------------------------------------------------------------------
(* The recipe.                                                              *)

LEMMA KeysAre ==
  /\ GuestDev = <<"network", "guest_", "dev">>
  /\ GuestIface = <<"network", "guest", "">>
  /\ GuestDhcp = <<"dhcp", "guest", "">>
  /\ GuestZone = <<"firewall", "guest", "">>
  /\ GuestWan = <<"firewall", "guest_", "wan">>
  /\ LanKey = <<"network", "", "lan">>
  /\ \A r : RuleKey(r) = <<"firewall", "guest_", r>> /\ AP(r) = <<"wireless", "guest_", r>>
BY DEF GuestDev, GuestIface, GuestDhcp, GuestZone, GuestWan, RuleKey, AP, LanKey,
       guestSection, guestPrefix

LEMMA KeysDiffer ==
  /\ GuestDev # GuestIface /\ GuestDev # GuestDhcp /\ GuestDev # GuestZone
  /\ GuestDev # GuestWan /\ GuestIface # GuestDhcp /\ GuestIface # GuestZone
  /\ GuestIface # GuestWan /\ GuestDhcp # GuestZone /\ GuestDhcp # GuestWan
  /\ GuestZone # GuestWan
  /\ GuestDev[1] = "network" /\ GuestIface[1] = "network" /\ GuestDhcp[1] = "dhcp"
  /\ GuestZone[1] = "firewall" /\ GuestWan[1] = "firewall"
  /\ \A r : /\ AP(r) \notin {GuestDev, GuestIface, GuestDhcp, GuestZone, GuestWan}
            /\ AP(r)[1] = "wireless" /\ AP(r)[2] = guestPrefix /\ AP(r)[3] = r
  /\ \A r \in RuleNames :
       /\ RuleKey(r) \notin {GuestDev, GuestIface, GuestDhcp, GuestZone, GuestWan}
       /\ RuleKey(r)[1] = "firewall" /\ RuleKey(r)[3] = r
       /\ \A x : RuleKey(r) # AP(x)
<1>1. /\ GuestDev # GuestIface /\ GuestDev # GuestDhcp /\ GuestDev # GuestZone
      /\ GuestDev # GuestWan /\ GuestIface # GuestDhcp /\ GuestIface # GuestZone
      /\ GuestIface # GuestWan /\ GuestDhcp # GuestZone /\ GuestDhcp # GuestWan
      /\ GuestZone # GuestWan
      /\ GuestDev[1] = "network" /\ GuestIface[1] = "network" /\ GuestDhcp[1] = "dhcp"
      /\ GuestZone[1] = "firewall" /\ GuestWan[1] = "firewall"
  BY KeysAre
<1>2. ASSUME NEW r
      PROVE  /\ AP(r) \notin {GuestDev, GuestIface, GuestDhcp, GuestZone, GuestWan}
             /\ AP(r)[1] = "wireless" /\ AP(r)[2] = guestPrefix /\ AP(r)[3] = r
  BY KeysAre DEF guestPrefix
<1>3. ASSUME NEW r \in RuleNames
      PROVE  /\ RuleKey(r) \notin {GuestDev, GuestIface, GuestDhcp, GuestZone, GuestWan}
             /\ RuleKey(r)[1] = "firewall" /\ RuleKey(r)[3] = r
             /\ \A x : RuleKey(r) # AP(x)
  <2>1. r # "wan"
    BY DEF RuleNames, Services
  <2> QED
    BY <2>1, KeysAre
<1> QED
  BY <1>1, <1>2, <1>3

LEMMA DevIs ==
  ASSUME NEW wan, NEW subnet
  PROVE  Part(GuestDev, wan, subnet)
           = [kind |-> "device", name |-> guestBridge, device |-> "",
              addr |-> 0, ip6assign |-> 0, more |-> FALSE]
<1>1. Part(GuestDev, wan, subnet) = [Net("device") EXCEPT !.name = guestBridge]
  BY KeysDiffer DEF Part
<1> QED
  BY <1>1 DEF Net

LEMMA DevPart ==
  ASSUME NEW wan, NEW subnet, NEW s, s = Part(GuestDev, wan, subnet)
  PROVE  IsSection(GuestDev, s)
<1>1. s = [kind |-> "device", name |-> guestBridge, device |-> "",
              addr |-> 0, ip6assign |-> 0, more |-> FALSE]
  BY DevIs
<1>2. DOMAIN s = Options["network"] /\ s = [o \in DOMAIN s |-> s[o]]
  BY <1>1, OptionsAre
<1>3. "network" \in DOMAIN Options
  BY OptionsAre
<1>4. GuestDev[1] = "network"
  BY KeysDiffer
<1>5. s["kind"] = "device"
  BY ONLY <1>1
<1> QED
  BY <1>2, <1>3, <1>4, <1>5 DEF IsSection

LEMMA IfaceIs ==
  ASSUME NEW wan, NEW subnet
  PROVE  Part(GuestIface, wan, subnet)
           = [kind |-> "interface", name |-> "", device |-> guestBridge,
              addr |-> subnet, ip6assign |-> guestAssign, more |-> FALSE]
<1>1. Part(GuestIface, wan, subnet) = 
        [Net("interface") EXCEPT !.device = guestBridge, !.addr = subnet,
                                 !.ip6assign = guestAssign]
  BY KeysDiffer DEF Part
<1> QED
  BY <1>1 DEF Net

LEMMA IfacePart ==
  ASSUME NEW wan, NEW subnet, NEW s, s = Part(GuestIface, wan, subnet)
  PROVE  IsSection(GuestIface, s)
<1>1. s = [kind |-> "interface", name |-> "", device |-> guestBridge,
              addr |-> subnet, ip6assign |-> guestAssign, more |-> FALSE]
  BY IfaceIs
<1>2. DOMAIN s = Options["network"] /\ s = [o \in DOMAIN s |-> s[o]]
  BY <1>1, OptionsAre
<1>3. "network" \in DOMAIN Options
  BY OptionsAre
<1>4. GuestIface[1] = "network"
  BY KeysDiffer
<1>5. s["kind"] = "interface"
  BY ONLY <1>1
<1> QED
  BY <1>2, <1>3, <1>4, <1>5 DEF IsSection

LEMMA DhcpPart ==
  ASSUME NEW wan, NEW subnet, NEW s, s = Part(GuestDhcp, wan, subnet)
  PROVE  IsSection(GuestDhcp, s)
<1>1. s = [kind |-> "dhcp", only |-> {}, skip |-> {}]
  BY KeysDiffer DEF Part, Dhcp
<1>2. DOMAIN s = Options["dhcp"] /\ s = [o \in DOMAIN s |-> s[o]]
  BY <1>1, OptionsAre
<1>3. "dhcp" \in DOMAIN Options
  BY OptionsAre
<1> QED
  BY <1>1, <1>2, <1>3, KeysDiffer DEF IsSection

\* What Fw leaves is a section of the firewall, whatever is set in it.
LEMMA FwDomain ==
  ASSUME NEW s, DOMAIN s = DOMAIN Fw(""), s = [o \in DOMAIN s |-> s[o]],
         NEW k, k[1] = "firewall", s["kind"] = "zone" => s["name"] = "guest"
  PROVE  IsSection(k, s)
<1>1. DOMAIN s = Options["firewall"]
  BY DEF Options
<1>2. "firewall" \in DOMAIN Options
  BY OptionsAre
<1> QED
  BY <1>1, <1>2 DEF IsSection

LEMMA FwIs ==
  ASSUME NEW kind
  PROVE  /\ DOMAIN Fw(kind) = DOMAIN Fw("")
         /\ Fw(kind) = [o \in DOMAIN Fw(kind) |-> Fw(kind)[o]]
         /\ Fw(kind)["kind"] = kind
BY DEF Fw

LEMMA ZonePart ==
  ASSUME NEW wan, NEW subnet, NEW s, s = Part(GuestZone, wan, subnet)
  PROVE  IsSection(GuestZone, s)
<1>1. s = [Fw("zone") EXCEPT !.name = guestSection, !.network = {guestSection},
                             !.input = "REJECT", !.forward = "REJECT"]
  BY KeysDiffer DEF Part
<1>2. DOMAIN s = DOMAIN Fw("") /\ s = [o \in DOMAIN s |-> s[o]]
  BY <1>1, FwIs
<1>3. s["name"] = "guest"
  BY <1>1 DEF Fw, guestSection
<1>4. GuestZone[1] = "firewall"
  BY KeysDiffer
<1> QED
  BY <1>2, <1>3, <1>4, FwDomain

LEMMA WanPart ==
  ASSUME NEW wan, NEW subnet, NEW s, s = Part(GuestWan, wan, subnet)
  PROVE  IsSection(GuestWan, s)
<1>1. s = [Fw("forwarding") EXCEPT !.src = guestSection, !.dest = wan]
  BY KeysDiffer DEF Part
<1>2. DOMAIN s = DOMAIN Fw("") /\ s = [o \in DOMAIN s |-> s[o]]
  BY <1>1, FwIs
<1>3. s["kind"] = "forwarding"
  BY <1>1 DEF Fw
<1>4. GuestWan[1] = "firewall"
  BY KeysDiffer
<1> QED
  BY <1>2, <1>3, <1>4, FwDomain

LEMMA RulePart ==
  ASSUME NEW wan, NEW subnet, NEW r \in RuleNames, NEW s,
         s = Part(RuleKey(r), wan, subnet)
  PROVE  IsSection(RuleKey(r), s)
<1>1. s = RuleSpec(r, wan)
  BY KeysDiffer DEF Part
<1>2. DOMAIN s = DOMAIN Fw("") /\ s = [o \in DOMAIN s |-> s[o]]
  BY <1>1, FwIs DEF RuleSpec
<1>3. s["kind"] = "rule"
  BY <1>1, SpecIs
<1>4. RuleKey(r)[1] = "firewall"
  BY KeysDiffer
<1> QED
  BY <1>2, <1>3, <1>4, FwDomain

LEMMA APIs ==
  ASSUME NEW wan, NEW subnet, NEW r
  PROVE  Part(AP(r), wan, subnet)
           = [kind |-> "wifi-iface", network |-> {guestSection}, device |-> r,
              channel |-> "", disabled |-> "", isolate |-> "1",
              bridge_isolate |-> "1"]
<1>1. Part(AP(r), wan, subnet)
        = [Wl("wifi-iface") EXCEPT !.device = r, !.network = {guestSection},
                                   !.isolate = "1", !.bridge_isolate = "1"]
  BY KeysDiffer DEF Part
<1> QED
  BY <1>1 DEF Wl

LEMMA APPart ==
  ASSUME NEW wan, NEW subnet, NEW r, NEW s, s = Part(AP(r), wan, subnet)
  PROVE  IsSection(AP(r), s)
<1>2. s = [kind |-> "wifi-iface", network |-> {guestSection}, device |-> r,
           channel |-> "", disabled |-> "", isolate |-> "1", bridge_isolate |-> "1"]
  BY APIs
<1>3. DOMAIN s = Options["wireless"] /\ s = [o \in DOMAIN s |-> s[o]]
  BY <1>2, OptionsAre
<1>4. "wireless" \in DOMAIN Options
  BY OptionsAre
<1>5. AP(r)[1] = "wireless"
  BY KeysDiffer
<1>6. s["kind"] = "wifi-iface"
  BY ONLY <1>2
<1> QED
  BY <1>3, <1>4, <1>5, <1>6 DEF IsSection

\* A section of the recipe is one of its file, and the panel's own.
LEMMA RecipeSound ==
  ASSUME NEW wan, NEW subnet, NEW radios,
         NEW k \in PanelKeys \cup {AP(r) : r \in radios}
  PROVE  /\ IsSection(k, Part(k, wan, subnet)) /\ ~Strange(k, Part(k, wan, subnet))
         /\ IsGuestSection(k) /\ k # LanKey
<1> DEFINE s == Part(k, wan, subnet)
<1>1. \/ k = GuestDev \/ k = GuestIface \/ k = GuestDhcp \/ k = GuestZone
      \/ k = GuestWan
      \/ \E r \in RuleNames : k = RuleKey(r)
      \/ \E r \in radios : k = AP(r)
  BY DEF PanelKeys, GuestRules
<1>2. k[2] \in {"guest", "guest_"} /\ LanKey[2] = ""
  <2>1. /\ GuestDev[2] = "guest_" /\ GuestIface[2] = "guest" /\ GuestDhcp[2] = "guest"
        /\ GuestZone[2] = "guest" /\ GuestWan[2] = "guest_" /\ LanKey[2] = ""
        /\ \A r : RuleKey(r)[2] = "guest_" /\ AP(r)[2] = "guest_"
    BY KeysAre
  <2> QED
    BY <1>1, <2>1
<1>3. IsGuestSection(k) /\ k # LanKey
  BY <1>2 DEF IsGuestSection, guestSection, guestPrefix
<1> HIDE DEF s
<1>4. IsSection(k, s)
  <2>1. CASE k = GuestDev
    BY <2>1, DevPart DEF s
  <2>2. CASE k = GuestIface
    BY <2>2, IfacePart DEF s
  <2>3. CASE k = GuestDhcp
    BY <2>3, DhcpPart DEF s
  <2>4. CASE k = GuestZone
    BY <2>4, ZonePart DEF s
  <2>5. CASE k = GuestWan
    BY <2>5, WanPart DEF s
  <2>6. ASSUME NEW r \in RuleNames, k = RuleKey(r) PROVE IsSection(k, s)
    BY <2>6, RulePart DEF s
  <2>7. ASSUME NEW r \in radios, k = AP(r) PROVE IsSection(k, s)
    BY <2>7, APPart DEF s
  <2> QED
    BY <1>1, <2>1, <2>2, <2>3, <2>4, <2>5, <2>6, <2>7
<1>5. ~Strange(k, s)
  <2>1. CASE k \in PanelKeys
    BY <2>1 DEF Strange
  <2>2. CASE k \notin PanelKeys
    <3>1. PICK r \in radios : k = AP(r)
      BY <2>2
    <3>2. k[1] = "wireless" /\ k[2] = guestPrefix
      BY <3>1, KeysDiffer
    <3>3. s = [kind |-> "wifi-iface", network |-> {guestSection}, device |-> r,
               channel |-> "", disabled |-> "", isolate |-> "1", bridge_isolate |-> "1"]
      BY <3>1, APIs DEF s
    <3>4. s["kind"] = "wifi-iface"
      BY ONLY <3>3
    <3> QED
      BY <3>2, <3>4 DEF Strange
  <2> QED
    BY <2>1, <2>2
<1> QED
  BY <1>3, <1>4, <1>5 DEF s

-----------------------------------------------------------------------------
(* What waits in the draft.                                                 *)

Made(c) ==
  /\ Has(c, GuestDev, "device") /\ c[GuestDev].name = guestBridge
  /\ Has(c, GuestIface, "interface") /\ c[GuestIface].device = guestBridge

Unmade(c) ==
  GuestDev \notin DOMAIN c /\ \A k \in PanelAPs(c) : c[k].kind # "wifi-iface"

\* As long as nothing was torn, what waits is the difference between the draft
\* and the disk, up to what others did, and the apply bar shows it: the guest
\* network is the panel's in one of them and not in the other.
WaitsAs(d, v, by, w) ==
  /\ w.made \subseteq DOMAIN v \ DOMAIN d
  /\ w.gone \subseteq DOMAIN d \ DOMAIN v
  /\ \A k \in w.made \cup w.gone : IsGuestSection(k)
  /\ (DOMAIN v \ DOMAIN d) \ by \subseteq w.made
  /\ (DOMAIN d \ DOMAIN v) \ by \subseteq w.gone
  /\ w.made # {} => ~Ours(d) /\ Made(v)
  /\ w.gone # {} => Ours(d) /\ Unmade(v)

WaitInv ==
  /\ torn \in BOOLEAN
  /\ waits = [made |-> waits.made, gone |-> waits.gone]
  /\ ~torn => WaitsAs(disk, view, byHand, waits)

GuestInv == SoundInv /\ WaitInv

\* An apply bar without rows is a draft without changes.
LEMMA NoRows ==
  ASSUME NEW b, NEW a, AreFiles(b), AreFiles(a), Rows(b, a) = {}
  PROVE  a = b
<1> DEFINE lines  == ChangedLines(b, a)
           folded == {l \in lines : /\ IsGuestSection(l[1])
                                    /\ Ours(b) \/ Ours(a)
                                    /\ Folds(b, a, l)}
           row(l) == IF l[2] = "" THEN Row(l[1], "", <<>>, <<>>)
                     ELSE Row(l[1], l[2], b[l[1]][l[2]], a[l[1]][l[2]])
<1>1. /\ {row(l) : l \in lines \ folded} = {}
      /\ (IF folded = {} THEN {} ELSE {GuestRow(GuestWords(b), GuestWords(a))}) = {}
  BY DEF Rows
<1> HIDE DEF lines, folded, row
<1>2. lines = {}
  BY <1>1 DEF folded
<1> DEFINE gone  == (DOMAIN b \ DOMAIN a) \cup (DOMAIN a \ DOMAIN b)
           opts(k) == {<<k, o>> : o \in {x \in DOMAIN b[k] : b[k][x] # a[k][x]}}
           kept  == {x \in DOMAIN b \cap DOMAIN a : b[x] # a[x]}
<1> HIDE DEF gone, opts, kept
<1>0. {<<k, "">> : k \in gone} = {} /\ UNION {opts(k) : k \in kept} = {}
  BY <1>2 DEF lines, ChangedLines, gone, opts, kept
<1>3. DOMAIN b = DOMAIN a
  <2>1. gone = {}
    BY <1>0
  <2> QED
    BY <2>1 DEF gone
<1>4. ASSUME NEW k \in DOMAIN b PROVE a[k] = b[k]
  <2>1. \A o \in DOMAIN b[k] : b[k][o] = a[k][o]
    <3> SUFFICES ASSUME NEW o \in DOMAIN b[k], b[k][o] # a[k][o] PROVE FALSE
      OBVIOUS
    <3>1. <<k, o>> \in opts(k)
      BY DEF opts
    <3>2. k \in kept
      BY <1>3, <1>4 DEF kept
    <3> QED
      BY <1>0, <3>1, <3>2
  <2>2. /\ b[k] = [o \in Options[k[1]] |-> b[k][o]]
        /\ a[k] = [o \in Options[k[1]] |-> a[k][o]]
    BY <1>3, <1>4 DEF AreFiles, IsSection
  <2> QED
    BY <2>1, <2>2
<1> QED
  BY <1>3, <1>4 DEF AreFiles

LEMMA WordsDiffer ==
  ASSUME NEW b, NEW a, \/ Ours(b) /\ ~Ours(a)
                       \/ ~Ours(b) /\ Ours(a)
  PROVE  /\ GuestWords(b) # GuestWords(a)
         /\ <<>> \in {GuestWords(b), GuestWords(a)}
<1>1. ASSUME NEW c, ~Ours(c) PROVE GuestWords(c) = <<>>
  BY <1>1 DEF GuestWords
<1>2. ASSUME NEW c, Ours(c) PROVE GuestWords(c) # <<>>
  BY <1>2 DEF GuestWords
<1> QED
  BY <1>1, <1>2

\* A section that comes or goes with the guest network is shown as the guest
\* network's row.
LEMMA WaitsPending ==
  ASSUME NEW b, NEW a, \/ Ours(b) /\ ~Ours(a)
                       \/ ~Ours(b) /\ Ours(a),
         NEW k, IsGuestSection(k), k \in (DOMAIN b \ DOMAIN a) \cup (DOMAIN a \ DOMAIN b)
  PROVE  GuestDraftPending(Rows(b, a))
<1> DEFINE l == <<k, "">>
           lines  == ChangedLines(b, a)
           folded == {x \in lines : /\ IsGuestSection(x[1])
                                    /\ Ours(b) \/ Ours(a)
                                    /\ Folds(b, a, x)}
           r == GuestRow(GuestWords(b), GuestWords(a))
<1>1. l \in lines
  BY DEF ChangedLines
<1>2. Folds(b, a, l)
  BY WordsDiffer DEF Folds
<1>3. l \in folded
  BY <1>1, <1>2
<1>4. r \in Rows(b, a)
  <2> HIDE DEF r, l, lines
  <2> QED
    BY <1>3 DEF Rows, r, lines
<1>5. r.option = "guest"
  BY DEF GuestRow, Row
<1> HIDE DEF r
<1> QED
  BY <1>4, <1>5 DEF GuestDraftPending

LEMMA MadeIsOurs ==
  ASSUME NEW c
  PROVE  /\ Made(c) => Ours(c)
         /\ Unmade(c) => ~Ours(c)
BY DEF Made, Unmade, Ours, Orphans, Has

\* Nothing of a guest network waits when no row says so.
LEMMA NothingWaits ==
  ASSUME NEW d, NEW v, NEW by, NEW w, WaitsAs(d, v, by, w),
         ~GuestDraftPending(Rows(d, v))
  PROVE  w.made = {} /\ w.gone = {}
<1>1. ASSUME NEW k \in w.made PROVE FALSE
  <2>1. ~Ours(d) /\ Ours(v) /\ IsGuestSection(k) /\ k \in DOMAIN v \ DOMAIN d
    BY <1>1, MadeIsOurs DEF WaitsAs
  <2> QED
    BY <2>1, WaitsPending
<1>2. ASSUME NEW k \in w.gone PROVE FALSE
  <2>1. Ours(d) /\ ~Ours(v) /\ IsGuestSection(k) /\ k \in DOMAIN d \ DOMAIN v
    BY <1>2, MadeIsOurs DEF WaitsAs
  <2> QED
    BY <2>1, WaitsPending
<1> QED
  BY <1>1, <1>2

\* The edit of one section, by hand or on another screen.
LEMMA EditedIs ==
  ASSUME NEW c, NEW by, Sound(c, by), NEW e \in Edits \cup OwnerEdits
  PROVE  LET w == Edited(c, e)
         IN  /\ Sound(w, by \cup {e.key})
             /\ \A k : k # e.key => /\ k \in DOMAIN w <=> k \in DOMAIN c
                                    /\ k \in DOMAIN c => w[k] = c[k]
<1> DEFINE w == Edited(c, e)
<1>1. /\ e.how \in {"add", "change", "delete"}
      /\ e.how = "add" => IsSection(e.key, e.to)
      /\ e.how = "change" => /\ "kind" \notin DOMAIN e.to
                             /\ "name" \in DOMAIN e.to => e.to.name \notin {"", "*"}
      /\ e.how = "delete" => e.key # LanKey
  BY FilesAssumption
<1>2. Sound(c, by \cup {e.key})
  BY SoundMore
<1>3. CASE ~Applies(c, e)
  BY <1>2, <1>3 DEF Edited
<1>4. CASE Applies(c, e) /\ e.how = "add"
  <2>1. w = With(c, e.key, e.to)
    BY <1>4 DEF Edited
  <2>2. Sound(With(c, e.key, e.to), by \cup {e.key})
    BY <1>1, <1>2, <1>4, SoundWith
  <2> QED
    BY <2>1, <2>2 DEF With
<1>5. CASE Applies(c, e) /\ e.how = "change"
  <2>1. w = Put(c, e.key, e.to) /\ e.key \in DOMAIN c
    BY <1>5 DEF Edited, Applies
  <2>2. Sound(Put(c, e.key, e.to), by \cup {e.key})
    BY <1>1, <1>2, <1>5, <2>1, SoundPut
  <2> QED
    BY <2>1, <2>2 DEF Put
<1>6. CASE Applies(c, e) /\ e.how = "delete"
  <2>1. w = Without(c, {e.key})
    BY <1>6 DEF Edited
  <2>2. Sound(Without(c, {e.key}), by \cup {e.key})
    BY <1>1, <1>2, <1>6, SoundWithout
  <2> QED
    BY <2>1, <2>2 DEF Without
<1> QED
  BY <1>1, <1>3, <1>4, <1>5, <1>6

-----------------------------------------------------------------------------
(* The steps.                                                               *)

LEMMA OnEmptyDraft ==
  ASSUME SoundInv, Begins
  PROVE  view = disk
BY NoRows DEF SoundInv, Sound, Begins

\* Nothing of the panel's is there when neither its own nor a foreign guest
\* network is.
LEMMA NoneThere ==
  ASSUME NEW c, AreFiles(c), ~Ours(c), ~Foreign(c)
  PROVE  PanelKeys \cap DOMAIN c = {} /\ \A r : AP(r) \notin DOMAIN c
<1>1. Traces(c) = {}
  BY DEF Foreign
<1>2. PanelKeys \cap DOMAIN c = {}
  BY <1>1 DEF Traces, FirewallOfGuests, PanelKeys
<1>3. ASSUME NEW r, AP(r) \in DOMAIN c PROVE FALSE
  <2>1. AP(r) \in PanelAPs(c)
    BY <1>3, KeysDiffer DEF PanelAPs, File
  <2> QED
    BY <1>1, <2>1 DEF Traces
<1> QED
  BY <1>2, <1>3

\* The files that StageGuest makes, and what a take-back that fails leaves.
StagedHome ==
  IF GuestIPv6(view, prefixes).renumber
    THEN Put(view, LanKey, [ip6assign |-> guestAssign]) ELSE view

StagedParts(asked) ==
  Recipe(RadiosFor(asked), UplinkZone(view, up), FirstFree(view))

LEMMA HomeIs ==
  ASSUME SoundInv
  PROVE  Sound(StagedHome, byHand) /\ DOMAIN StagedHome = DOMAIN view
<1>1. LanKey \in DOMAIN view /\ Sound(view, byHand)
      /\ view = [k \in DOMAIN view |-> view[k]]
  BY DEF SoundInv, Sound, AreFiles
<1> DEFINE f == [ip6assign |-> guestAssign]
           p == Put(view, LanKey, f)
<1>2. DOMAIN f = {"ip6assign"}
  OBVIOUS
<1>3. DOMAIN p = DOMAIN view
  BY <1>1 DEF Put
<1>4. p[LanKey] = [x \in DOMAIN view[LanKey] |->
                     IF x \in DOMAIN f THEN f[x] ELSE view[LanKey][x]]
  BY <1>1 DEF Put
<1>5. LanKey[1] = "network" /\ IsSection(LanKey, view[LanKey])
  BY <1>1, KeysAre DEF Sound, AreFiles
<1>6. {"kind", "name", "device"} \subseteq DOMAIN view[LanKey]
  BY <1>5, SectionIs, OptionsAre
<1> HIDE DEF f
<1>7. /\ p[LanKey]["kind"] = view[LanKey]["kind"]
      /\ p[LanKey]["name"] = view[LanKey]["name"]
      /\ p[LanKey]["device"] = view[LanKey]["device"]
  BY <1>2, <1>4, <1>6
<1> HIDE DEF p
<1>8. Strange(LanKey, p[LanKey]) => LanKey \in byHand
  <2>1. Strange(LanKey, p[LanKey]) => Strange(LanKey, view[LanKey])
    BY <1>5, <1>7 DEF Strange
  <2> QED
    BY <1>1, <2>1 DEF Sound
<1>9. Sound(p, byHand)
  BY <1>1, <1>2, <1>8, SoundPut DEF p
<1> QED
  BY <1>1, <1>3, <1>9 DEF StagedHome, p, f

LEMMA PartsAre ==
  ASSUME NEW asked
  PROVE  LET p == StagedParts(asked)
         IN  /\ DOMAIN p = PanelKeys \cup {AP(r) : r \in RadiosFor(asked)}
             /\ \A k \in DOMAIN p : /\ IsSection(k, p[k]) /\ ~Strange(k, p[k])
                                    /\ IsGuestSection(k) /\ k # LanKey
                                    /\ p[k] = Part(k, UplinkZone(view, up), FirstFree(view))
<1> DEFINE p == StagedParts(asked)
<1>1. /\ DOMAIN p = PanelKeys \cup {AP(r) : r \in RadiosFor(asked)}
      /\ \A k \in DOMAIN p : p[k] = Part(k, UplinkZone(view, up), FirstFree(view))
  BY DEF StagedParts, Recipe
<1> HIDE DEF p
<1>2. \A k \in DOMAIN p : /\ IsSection(k, p[k]) /\ ~Strange(k, p[k])
                          /\ IsGuestSection(k) /\ k # LanKey
  BY <1>1, RecipeSound
<1> QED
  BY <1>1, <1>2 DEF p

LEMMA StageGuestKeeps ==
  ASSUME GuestInv, NEW asked, StageGuest(asked)
  PROVE  GuestInv'
<1> DEFINE parts == StagedParts(asked)
           home == StagedHome
           all == Over(parts, home)
<1>1. /\ view = disk /\ ~Ours(view) /\ ~Foreign(view) /\ SoundInv /\ AreFiles(view)
      /\ UNCHANGED <<disk, snap, byHand>>
  BY OnEmptyDraft DEF StageGuest, Begins, GuestInv, SoundInv, Sound
<1>2. \/ \E rows : Accepted(all, rows, DOMAIN parts, {})
      \/ TakenBack
      \/ NotTakenBack({With(view, k, parts[k]) : k \in DOMAIN parts}
                      \cup ({home} \ {view}))
  BY DEF StageGuest, StagedParts, StagedHome
<1>3. Sound(home, byHand) /\ DOMAIN home = DOMAIN view
  BY <1>1, HomeIs
<1>4. /\ DOMAIN parts = PanelKeys \cup {AP(r) : r \in RadiosFor(asked)}
      /\ \A k \in DOMAIN parts : /\ IsSection(k, parts[k]) /\ ~Strange(k, parts[k])
                                 /\ IsGuestSection(k)
                                 /\ parts[k] = Part(k, UplinkZone(view, up), FirstFree(view))
  BY PartsAre
<1> HIDE DEF parts, home
<1>5. DOMAIN parts \cap DOMAIN view = {}
  BY <1>1, <1>4, NoneThere
<1>6. Sound(all, byHand)
  BY <1>3, <1>4, SoundOver
<1>7. /\ DOMAIN all = DOMAIN parts \cup DOMAIN view
      /\ \A k \in DOMAIN parts : all[k] = parts[k]
  BY <1>3 DEF Over
<1>8. Made(all)
  <2>1. GuestDev \in DOMAIN parts /\ GuestIface \in DOMAIN parts
    BY <1>4 DEF PanelKeys
  <2>2. /\ parts[GuestDev]["kind"] = "device" /\ parts[GuestDev]["name"] = guestBridge
        /\ parts[GuestIface]["kind"] = "interface"
        /\ parts[GuestIface]["device"] = guestBridge
    <3> DEFINE dev == parts[GuestDev]
               net == parts[GuestIface]
    <3> HIDE DEF dev, net
    <3>1. dev = [kind |-> "device", name |-> guestBridge, device |-> "",
                 addr |-> 0, ip6assign |-> 0, more |-> FALSE]
      BY <1>4, <2>1, DevIs DEF dev
    <3>2. net = [kind |-> "interface", name |-> "", device |-> guestBridge,
                 addr |-> FirstFree(view), ip6assign |-> guestAssign, more |-> FALSE]
      BY <1>4, <2>1, IfaceIs DEF net
    <3>3. dev["kind"] = "device" /\ dev["name"] = guestBridge
      BY ONLY <3>1
    <3>4. net["kind"] = "interface" /\ net["device"] = guestBridge
      BY ONLY <3>2
    <3> QED
      BY <3>3, <3>4 DEF dev, net
  <2> HIDE DEF all
  <2> QED
    BY <1>7, <2>1, <2>2 DEF Made, Has
<1> HIDE DEF all
<1>9. CASE \E rows : Accepted(all, rows, DOMAIN parts, {})
  <2>1. view' = all /\ waits' = [made |-> DOMAIN parts, gone |-> {}] /\ torn' = torn
    BY <1>9 DEF Accepted
  <2>2. WaitsAs(disk, all, byHand, [made |-> DOMAIN parts, gone |-> {}])
    BY <1>1, <1>4, <1>5, <1>7, <1>8 DEF WaitsAs
  <2> QED
    BY <1>1, <1>6, <2>1, <2>2 DEF GuestInv, SoundInv, WaitInv
<1>10. CASE TakenBack
  BY <1>1, <1>10 DEF GuestInv, SoundInv, WaitInv, TakenBack
<1>11. CASE NotTakenBack({With(view, k, parts[k]) : k \in DOMAIN parts}
                         \cup ({home} \ {view}))
  <2>1. torn' = TRUE /\ waits' = waits
    BY <1>11 DEF NotTakenBack
  <2>2. view' = home \/ \E k \in DOMAIN parts : view' = With(view, k, parts[k])
    BY <1>11 DEF NotTakenBack
  <2>3. Sound(view', byHand)
    BY <1>1, <1>3, <1>4, <2>2, SoundWith DEF SoundInv
  <2> QED
    BY <1>1, <2>1, <2>3 DEF GuestInv, SoundInv, WaitInv
<1> QED
  BY <1>2, <1>9, <1>10, <1>11

LEMMA OwnedAre ==
  ASSUME NEW c, NEW k \in Owned(c)
  PROVE  /\ k \in DOMAIN c /\ k[1] = "wireless" /\ k[2] = guestPrefix
         /\ c[k].kind = "wifi-iface"
<1>1. k \in PanelAPs(c) /\ c[k].kind = "wifi-iface"
  BY DEF Owned
<1> QED
  BY <1>1 DEF PanelAPs, File

\* Access points turned on or off are still the panel's.
LEMMA TurnedIs ==
  ASSUME NEW c, NEW by, Sound(c, by), NEW ks, ks \subseteq Owned(c), NEW on \in BOOLEAN,
         NEW k \in ks, NEW s, s = Turned(c, ks, on)[k]
  PROVE  IsSection(k, s) /\ ~Strange(k, s)
<1> DEFINE v == IF on THEN "" ELSE "1"
<1>1. k \in DOMAIN c /\ k[1] = "wireless" /\ k[2] = guestPrefix
  BY OwnedAre
<1>2. c[k]["kind"] = "wifi-iface"
  BY OwnedAre
<1>3. IsSection(k, c[k])
  BY <1>1 DEF Sound, AreFiles
<1>4. /\ DOMAIN c[k] = Options[k[1]] /\ k[1] \in DOMAIN Options
      /\ "disabled" \in DOMAIN c[k] /\ "kind" \in DOMAIN c[k]
  BY <1>1, <1>3, SectionIs, OptionsAre
<1>5. s = [c[k] EXCEPT !.disabled = v]
  BY <1>1 DEF Turned
<1> HIDE DEF v
<1>6. /\ DOMAIN s = DOMAIN c[k] /\ s["disabled"] = v
      /\ s = [o \in DOMAIN s |-> s[o]]
      /\ \A o \in DOMAIN c[k] \ {"disabled"} : s[o] = c[k][o]
  BY <1>4, <1>5
<1>7. s["kind"] = "wifi-iface"
  BY <1>2, <1>4, <1>6
<1>8. IsSection(k, s)
  BY <1>4, <1>6, <1>7 DEF IsSection
<1>9. ~Strange(k, s)
  BY <1>1, <1>7 DEF Strange
<1> QED
  BY <1>8, <1>9

LEMMA SoundTurned ==
  ASSUME NEW c, NEW by, Sound(c, by), NEW ks, ks \subseteq Owned(c), NEW on \in BOOLEAN
  PROVE  Sound(Turned(c, ks, on), by) /\ DOMAIN Turned(c, ks, on) = DOMAIN c
<1> DEFINE w == Turned(c, ks, on)
<1>1. /\ DOMAIN w = DOMAIN c /\ w = [k \in DOMAIN w |-> w[k]]
      /\ \A k \in DOMAIN c \ ks : w[k] = c[k]
  BY DEF Turned
<1>2. ASSUME NEW k \in ks PROVE IsSection(k, w[k]) /\ ~Strange(k, w[k])
  <2>1. PICK s : s = Turned(c, ks, on)[k]
    OBVIOUS
  <2>2. IsSection(k, s) /\ ~Strange(k, s)
    BY <1>2, <2>1, TurnedIs
  <2> QED
    BY <2>1, <2>2
<1> HIDE DEF w
<1>3. Sound(w, by)
  BY <1>1, <1>2 DEF Sound, AreFiles
<1> QED
  BY <1>1, <1>3 DEF w

LEMMA EnabledKeeps ==
  ASSUME GuestInv, NEW on \in BOOLEAN, StageGuestEnabled(on)
  PROVE  GuestInv'
<1> DEFINE ks    == Flips(view, on)
           after == Turned(view, ks, on)
<1>1. view = disk /\ SoundInv /\ UNCHANGED <<disk, snap, byHand>>
  BY OnEmptyDraft DEF StageGuestEnabled, Begins, GuestInv
<1>2. \/ \E rows : Accepted(after, rows, {}, {})
      \/ TakenBack
      \/ NotTakenBack({Turned(view, {k}, on) : k \in ks})
  BY DEF StageGuestEnabled
<1>3. ks \subseteq Owned(view)
  BY DEF Flips
<1> HIDE DEF ks
<1>4. Sound(after, byHand) /\ DOMAIN after = DOMAIN disk
  BY <1>1, <1>3, SoundTurned DEF SoundInv
<1>5. \A k \in ks : Sound(Turned(view, {k}, on), byHand)
  BY <1>1, <1>3, SoundTurned DEF SoundInv
<1> HIDE DEF after
<1>6. CASE \E rows : Accepted(after, rows, {}, {})
  <2>1. view' = after /\ waits' = [made |-> {}, gone |-> {}] /\ torn' = torn
    BY <1>6 DEF Accepted
  <2>2. WaitsAs(disk, after, byHand, [made |-> {}, gone |-> {}])
    BY <1>4 DEF WaitsAs
  <2> QED
    BY <1>1, <1>4, <2>1, <2>2 DEF GuestInv, SoundInv, WaitInv
<1>7. CASE TakenBack
  BY <1>1, <1>7 DEF GuestInv, SoundInv, WaitInv, TakenBack
<1>8. CASE NotTakenBack({Turned(view, {k}, on) : k \in ks})
  <2>1. torn' = TRUE /\ waits' = waits /\ \E k \in ks : view' = Turned(view, {k}, on)
    BY <1>8 DEF NotTakenBack
  <2> QED
    BY <1>1, <1>5, <2>1 DEF GuestInv, SoundInv, WaitInv
<1> QED
  BY <1>2, <1>6, <1>7, <1>8

\* What is removed is the panel's, and nothing else of it is left.
LEMMA RemovedAre ==
  ASSUME NEW c, AreFiles(c), Ours(c)
  PROVE  LET w == Without(c, Removed(c))
         IN  /\ Removed(c) \subseteq DOMAIN c /\ Removed(c) # {}
             /\ \A k \in Removed(c) : IsGuestSection(k) /\ k # LanKey
             /\ DOMAIN w = DOMAIN c \ Removed(c)
             /\ \A k \in DOMAIN w : w[k] = c[k]
             /\ Unmade(w)
<1> DEFINE w == Without(c, Removed(c))
<1>1. \A k \in Owned(c) : /\ k \in DOMAIN c /\ k[1] = "wireless" /\ k[2] = guestPrefix
  BY OwnedAre
<1>2. Removed(c) \subseteq DOMAIN c
  BY <1>1 DEF Removed
<1>3. ASSUME NEW k \in Removed(c) PROVE IsGuestSection(k) /\ k # LanKey
  <2>1. CASE k \in PanelKeys
    BY <2>1, RecipeSound
  <2>2. CASE k \in Owned(c)
    <3>1. LanKey[2] # guestPrefix
      BY KeysAre DEF guestPrefix
    <3> QED
      BY <1>1, <2>2, <3>1 DEF IsGuestSection
  <2> QED
    BY <1>3, <2>1, <2>2 DEF Removed
<1>4. DOMAIN w = DOMAIN c \ Removed(c) /\ \A k \in DOMAIN w : w[k] = c[k]
  BY DEF Without
<1> HIDE DEF w
<1>5. GuestDev \notin DOMAIN w
  BY <1>4 DEF Removed, PanelKeys
<1>6. ASSUME NEW k \in PanelAPs(w) PROVE w[k].kind # "wifi-iface"
  <2>1. k \in DOMAIN w /\ k[1] = "wireless" /\ k[2] = guestPrefix
    BY <1>6 DEF PanelAPs, File
  <2>2. k \in PanelAPs(c) /\ w[k] = c[k] /\ k \notin Owned(c)
    BY <1>4, <2>1 DEF PanelAPs, File, Removed
  <2> QED
    BY <2>2 DEF Owned
<1>7. Removed(c) # {}
  <2>1. CASE Has(c, GuestDev, "device")
    BY <2>1 DEF Has, Removed, PanelKeys
  <2>2. CASE Orphans(c)
    <3>1. PICK k \in PanelAPs(c) : c[k].kind = "wifi-iface"
      BY <2>2 DEF Orphans
    <3> QED
      BY <3>1 DEF Owned, Removed
  <2> QED
    BY <2>1, <2>2 DEF Ours
<1> QED
  BY <1>2, <1>3, <1>4, <1>5, <1>6, <1>7 DEF Unmade, w

LEMMA RemoveKeeps ==
  ASSUME GuestInv, StageGuestRemove
  PROVE  GuestInv'
<1> DEFINE keys == Removed(view)
           left == Without(view, keys)
<1>1. /\ view = disk /\ SoundInv /\ AreFiles(view) /\ Ours(view)
      /\ UNCHANGED <<disk, snap, byHand>>
  BY OnEmptyDraft DEF StageGuestRemove, Begins, GuestInv, SoundInv, Sound
<1>2. \/ \E rows : Accepted(left, rows, {}, keys)
      \/ TakenBack
      \/ NotTakenBack({Without(view, {k}) : k \in keys})
  BY DEF StageGuestRemove
<1>3. /\ keys \subseteq DOMAIN view /\ keys # {}
      /\ \A k \in keys : IsGuestSection(k) /\ k # LanKey
      /\ DOMAIN left = DOMAIN view \ keys /\ Unmade(left)
  BY <1>1, RemovedAre
<1> HIDE DEF keys
<1>4. Sound(left, byHand) /\ \A k \in keys : Sound(Without(view, {k}), byHand)
  BY <1>1, <1>3, SoundWithout DEF SoundInv
<1> HIDE DEF left
<1>5. CASE \E rows : Accepted(left, rows, {}, keys)
  <2>1. view' = left /\ waits' = [made |-> {}, gone |-> keys] /\ torn' = torn
    BY <1>5 DEF Accepted
  <2>2. WaitsAs(disk, left, byHand, [made |-> {}, gone |-> keys])
    BY <1>1, <1>3 DEF WaitsAs
  <2> QED
    BY <1>1, <1>4, <2>1, <2>2 DEF GuestInv, SoundInv, WaitInv
<1>6. CASE TakenBack
  BY <1>1, <1>6 DEF GuestInv, SoundInv, WaitInv, TakenBack
<1>7. CASE NotTakenBack({Without(view, {k}) : k \in keys})
  <2>1. torn' = TRUE /\ waits' = waits /\ \E k \in keys : view' = Without(view, {k})
    BY <1>7 DEF NotTakenBack
  <2> QED
    BY <1>1, <1>4, <2>1 DEF GuestInv, SoundInv, WaitInv
<1> QED
  BY <1>2, <1>5, <1>6, <1>7

\* Another screen's edit finds nothing of the guest network waiting.
LEMMA LockedKeeps ==
  ASSUME GuestInv, NEW e \in OwnerEdits, LockedStage(e)
  PROVE  GuestInv'
<1> DEFINE by == byHand \cup {e.key}
<1>1. /\ UNCHANGED <<disk, snap, waits, torn>> /\ byHand' = by
      /\ ~GuestDraftPending(Rows(disk, view))
      /\ view' = Edited(view, e) \/ view' = WithFiles(view, disk, {e.key[1]})
  BY DEF LockedStage
<1>2. Sound(disk, by) /\ Sound(view, by) /\ Sound(snap, by)
  BY SoundMore DEF GuestInv, SoundInv
<1>3. Sound(view', by)
  BY <1>1, <1>2, EditedIs, SoundFiles DEF GuestInv, SoundInv
<1>4. \A k \in (DOMAIN view' \ DOMAIN disk) : k \in DOMAIN view \/ k = e.key
  <2>1. CASE view' = Edited(view, e)
    BY <2>1, EditedIs DEF GuestInv, SoundInv
  <2>2. CASE view' = WithFiles(view, disk, {e.key[1]})
    BY <2>2 DEF WithFiles
  <2> QED
    BY <1>1, <2>1, <2>2
<1>5. \A k \in (DOMAIN disk \ DOMAIN view') : k \notin DOMAIN view \/ k = e.key
  <2>1. CASE view' = Edited(view, e)
    BY <2>1, EditedIs DEF GuestInv, SoundInv
  <2>2. CASE view' = WithFiles(view, disk, {e.key[1]})
    BY <2>2 DEF WithFiles
  <2> QED
    BY <1>1, <2>1, <2>2
<1>6. ASSUME ~torn PROVE WaitsAs(disk, view', by, waits)
  <2>1. WaitsAs(disk, view, byHand, waits)
    BY <1>6 DEF GuestInv, WaitInv
  <2>2. waits.made = {} /\ waits.gone = {}
    BY <1>1, <2>1, NothingWaits
  <2> QED
    BY <1>4, <1>5, <2>1, <2>2 DEF WaitsAs
<1> QED
  BY <1>1, <1>2, <1>3, <1>6 DEF GuestInv, SoundInv, WaitInv

\* A change by hand to another section leaves what waits as it is.
LEMMA HandKeeps ==
  ASSUME GuestInv, NEW e \in Edits, EditByHand(e)
  PROVE  GuestInv'
<1> DEFINE by == byHand \cup {e.key}
<1>1. /\ disk' = Edited(disk, e) /\ view' = Edited(view, e)
      /\ UNCHANGED <<snap, waits>> /\ byHand' = by
      /\ torn' = (torn \/ (waits # NoWait
                           /\ (IsGuestSection(e.key) \/ Ours(disk') # Ours(disk))))
  BY DEF EditByHand
<1>2. Sound(disk', by) /\ Sound(view', by) /\ Sound(snap, by)
  BY <1>1, EditedIs, SoundMore DEF GuestInv, SoundInv
<1>3. \A k : k # e.key => /\ k \in DOMAIN view' <=> k \in DOMAIN view
                          /\ k \in DOMAIN view => view'[k] = view[k]
                          /\ k \in DOMAIN disk' <=> k \in DOMAIN disk
  BY <1>1, EditedIs DEF GuestInv, SoundInv
<1>4. ASSUME ~torn' PROVE WaitsAs(disk', view', by, waits)
  <2>1. WaitsAs(disk, view, byHand, waits)
    BY <1>1, <1>4 DEF GuestInv, WaitInv
  <2>2. CASE waits = NoWait
    <3>1. waits.made = {} /\ waits.gone = {}
      BY <2>2 DEF NoWait
    <3> QED
      BY <1>3, <2>1, <3>1 DEF WaitsAs
  <2>3. CASE waits # NoWait
    <3>1. ~IsGuestSection(e.key) /\ Ours(disk') = Ours(disk)
      BY <1>1, <1>4, <2>3
    <3>2. Made(view) => Made(view')
      <4>1. IsGuestSection(GuestDev) /\ IsGuestSection(GuestIface)
        BY RecipeSound DEF PanelKeys
      <4>2. e.key # GuestDev /\ e.key # GuestIface
        BY <3>1, <4>1
      <4> QED
        BY <1>3, <4>2 DEF Made, Has
    <3>3. Unmade(view) => Unmade(view')
      <4>1. IsGuestSection(GuestDev)
        BY RecipeSound DEF PanelKeys
      <4>2. \A k \in PanelAPs(view') : k # e.key
        BY <3>1 DEF PanelAPs, File, IsGuestSection
      <4>3. \A k \in PanelAPs(view') : k \in PanelAPs(view) /\ view'[k] = view[k]
        BY <1>3, <4>2 DEF PanelAPs, File
      <4> QED
        BY <1>3, <3>1, <4>1, <4>3 DEF Unmade
    <3>4. \A k \in waits.made \cup waits.gone : k # e.key
      BY <2>1, <3>1 DEF WaitsAs
    <3>5. /\ waits.made \subseteq DOMAIN view' \ DOMAIN disk'
          /\ waits.gone \subseteq DOMAIN disk' \ DOMAIN view'
      BY <1>3, <2>1, <3>4 DEF WaitsAs
    <3>6. /\ (DOMAIN view' \ DOMAIN disk') \ by \subseteq waits.made
          /\ (DOMAIN disk' \ DOMAIN view') \ by \subseteq waits.gone
      BY <1>3, <2>1 DEF WaitsAs
    <3> QED
      BY <2>1, <3>1, <3>2, <3>3, <3>5, <3>6 DEF WaitsAs
  <2> QED
    BY <2>2, <2>3
<1>5. torn' \in BOOLEAN
  BY <1>1
<1> QED
  BY <1>1, <1>2, <1>4, <1>5 DEF GuestInv, SoundInv, WaitInv

\* A draft that was committed, dropped or overtaken by the emergency restore.
LEMMA SettledKeeps ==
  ASSUME GuestInv, Commit \/ DiscardStaged \/ RestoreNetwork
  PROVE  GuestInv'
<1>1. view' = disk' /\ byHand' = byHand /\ waits' = NoWait /\ torn' = FALSE
  BY DEF Commit, DiscardStaged, RestoreNetwork, Settled
<1>2. Sound(disk', byHand) /\ Sound(snap', byHand)
  BY SoundFiles DEF GuestInv, SoundInv, Commit, DiscardStaged, RestoreNetwork
<1>3. WaitsAs(disk', view', byHand, NoWait) /\ NoWait = [made |-> {}, gone |-> {}]
  BY <1>1 DEF WaitsAs, NoWait
<1> QED
  BY <1>1, <1>2, <1>3 DEF GuestInv, SoundInv, WaitInv

LEMMA GuestInitInv == GuestInit => GuestInv
<1> SUFFICES ASSUME GuestInit PROVE GuestInv
  OBVIOUS
<1>1. /\ AreFiles(disk) /\ view = disk /\ snap = disk /\ waits = NoWait /\ torn = FALSE
      /\ byHand = Traces(disk) \ Removed(disk)
  BY FilesAssumption DEF GuestInit
<1>2. ASSUME NEW k \in DOMAIN disk, Strange(k, disk[k]) PROVE k \in byHand
  <2>1. k \in Traces(disk)
    BY <1>2 DEF Strange, Traces, FirewallOfGuests, NamedGuest, PanelAPs,
                OtherOnGuestBridge, Kind, File, PanelKeys
  <2>2. k \notin Removed(disk)
    <3>1. k \notin PanelKeys
      BY <1>2 DEF Strange
    <3>2. k \notin Owned(disk)
      <4>1. CASE k \in Owned(disk)
        <5>1. k[1] = "wireless" /\ k[2] = guestPrefix /\ disk[k].kind = "wifi-iface"
          BY <4>1, OwnedAre
        <5> QED
          BY <1>2, <5>1 DEF Strange
      <4> QED
        BY <4>1
    <3> QED
      BY <3>1, <3>2 DEF Removed
  <2> QED
    BY <1>1, <2>1, <2>2
<1>3. Sound(disk, byHand)
  BY <1>1, <1>2 DEF Sound
<1>4. WaitsAs(disk, view, byHand, NoWait) /\ NoWait = [made |-> {}, gone |-> {}]
  BY <1>1 DEF WaitsAs, NoWait
<1> QED
  BY <1>1, <1>3, <1>4 DEF GuestInv, SoundInv, WaitInv

LEMMA GuestNextInv ==
  ASSUME GuestInv, [GuestNext]_guestVars
  PROVE  GuestInv'
<1>1. ASSUME NEW asked \in Asked, StageGuest(asked) PROVE GuestInv'
  BY <1>1, StageGuestKeeps
<1>2. ASSUME NEW on \in BOOLEAN, StageGuestEnabled(on) PROVE GuestInv'
  BY <1>2, EnabledKeeps
<1>3. CASE StageGuestRemove
  BY <1>3, RemoveKeeps
<1>4. ASSUME NEW e \in OwnerEdits, LockedStage(e) PROVE GuestInv'
  BY <1>4, LockedKeeps
<1>5. ASSUME NEW e \in Edits, EditByHand(e) PROVE GuestInv'
  BY <1>5, HandKeeps
<1>6. CASE Commit \/ DiscardStaged \/ RestoreNetwork
  BY <1>6, SettledKeeps
<1>7. ASSUME NEW u \in Uplinks, UplinkMoves(u) PROVE GuestInv'
  BY <1>7 DEF UplinkMoves, GuestInv, SoundInv, WaitInv
<1>8. CASE UNCHANGED guestVars
  BY <1>8 DEF guestVars, bounds, GuestInv, SoundInv, WaitInv
<1> QED
  BY <1>1, <1>2, <1>3, <1>4, <1>5, <1>6, <1>7, <1>8 DEF GuestNext

-----------------------------------------------------------------------------
(* The rows a guest edit answers with.                                      *)

\* The apply bar of a draft, line by line.
FoldedLines(b, a) ==
  {l \in ChangedLines(b, a) : /\ IsGuestSection(l[1])
                              /\ Ours(b) \/ Ours(a)
                              /\ Folds(b, a, l)}

RowOf(b, a, l) ==
  IF l[2] = "" THEN Row(l[1], "", <<>>, <<>>)
  ELSE Row(l[1], l[2], b[l[1]][l[2]], a[l[1]][l[2]])

LEMMA RowsAre ==
  ASSUME NEW b, NEW a
  PROVE  Rows(b, a) = {RowOf(b, a, l) : l \in ChangedLines(b, a) \ FoldedLines(b, a)}
                      \cup (IF FoldedLines(b, a) = {} THEN {}
                            ELSE {GuestRow(GuestWords(b), GuestWords(a))})
BY DEF Rows, RowOf, FoldedLines

LEMMA RemovalRows ==
  ASSUME NEW c, AreFiles(c), Ours(c)
  PROVE  Rows(c, Without(c, Removed(c))) = {GuestRow(GuestWords(c), <<>>)}
<1> DEFINE w == Without(c, Removed(c))
           lines == {<<k, "">> : k \in Removed(c)}
<1>1. /\ Removed(c) \subseteq DOMAIN c /\ Removed(c) # {}
      /\ \A k \in Removed(c) : IsGuestSection(k)
      /\ DOMAIN w = DOMAIN c \ Removed(c) /\ \A k \in DOMAIN w : w[k] = c[k]
      /\ Unmade(w)
  BY RemovedAre
<1> HIDE DEF w
<1>2. ~Ours(w) /\ GuestWords(w) = <<>>
  BY <1>1, MadeIsOurs DEF GuestWords
<1>3. ChangedLines(c, w) = lines
  <2>1. (DOMAIN c \ DOMAIN w) \cup (DOMAIN w \ DOMAIN c) = Removed(c)
    BY <1>1
  <2>2. {x \in DOMAIN c \cap DOMAIN w : c[x] # w[x]} = {}
    BY <1>1
  <2> QED
    BY <2>1, <2>2 DEF ChangedLines
<1>4. FoldedLines(c, w) = lines
  <2>1. ASSUME NEW l \in lines
        PROVE  IsGuestSection(l[1]) /\ Folds(c, w, l)
    <3>1. PICK k \in Removed(c) : l = <<k, "">>
      BY <2>1
    <3>2. IsGuestSection(k) /\ k \in DOMAIN c /\ k \notin DOMAIN w /\ l[1] = k
      BY <1>1, <3>1
    <3>3. Folds(c, w, l)
      BY <1>2, <3>2, WordsDiffer DEF Folds
    <3> QED
      BY <3>2, <3>3
  <2> QED
    BY <1>3, <2>1 DEF FoldedLines
<1>5. lines # {}
  BY <1>1
<1> HIDE DEF lines
<1>6. Rows(c, w) = {GuestRow(GuestWords(c), GuestWords(w))}
  BY <1>3, <1>4, <1>5, RowsAre
<1> QED
  BY <1>2, <1>6 DEF w

LEMMA TurnedRows ==
  ASSUME NEW c, NEW by, Sound(c, by), Ours(c), NEW on \in BOOLEAN
  PROVE  LET ks == Flips(c, on)
             w  == Turned(c, ks, on)
         IN  Rows(c, w) = IF GuestWords(w) # GuestWords(c)
                          THEN {GuestRow(GuestWords(c), GuestWords(w))}
                          ELSE {Row(k, "disabled", c[k].disabled, w[k].disabled) : k \in ks}
<1> DEFINE ks == Flips(c, on)
           w  == Turned(c, ks, on)
           lines == {<<k, "disabled">> : k \in ks}
<1>1. ks \subseteq Owned(c)
  BY DEF Flips
<1>2. \A k \in ks : c[k].disabled # (IF on THEN "" ELSE "1")
  BY DEF Flips, IsOn
<1>3. ASSUME NEW k \in ks
      PROVE  /\ k \in DOMAIN c /\ k[1] = "wireless" /\ k[2] = guestPrefix
             /\ IsGuestSection(k)
  BY <1>1, <1>3, OwnedAre DEF IsGuestSection
<1> HIDE DEF ks
<1>4. DOMAIN w = DOMAIN c /\ \A k \in DOMAIN c \ ks : w[k] = c[k]
  BY DEF Turned
<1>5. ASSUME NEW k \in ks
      PROVE  /\ "disabled" \in DOMAIN c[k] /\ w[k]["disabled"] # c[k]["disabled"]
             /\ \A o \in DOMAIN c[k] \ {"disabled"} : w[k][o] = c[k][o]
  <2> DEFINE v == IF on THEN "" ELSE "1"
  <2>1. k \in DOMAIN c /\ k[1] = "wireless" /\ IsSection(k, c[k])
    BY <1>3, <1>5 DEF Sound, AreFiles
  <2>2. "disabled" \in DOMAIN c[k]
    BY <2>1, SectionIs, OptionsAre
  <2>3. w[k] = [c[k] EXCEPT !["disabled"] = v]
    BY <1>5, <2>1 DEF Turned
  <2>4. c[k]["disabled"] # v
    BY <1>2, <1>5
  <2> HIDE DEF v, w
  <2> QED
    BY <2>2, <2>3, <2>4
<1> HIDE DEF w
<1>6. ChangedLines(c, w) = lines
  <2> DEFINE opts(k) == {<<k, o>> : o \in {x \in DOMAIN c[k] : c[k][x] # w[k][x]}}
  <2>1. (DOMAIN c \ DOMAIN w) \cup (DOMAIN w \ DOMAIN c) = {}
    BY <1>4
  <2>2. {x \in DOMAIN c \cap DOMAIN w : c[x] # w[x]} = ks
    BY <1>3, <1>4, <1>5
  <2>3. ASSUME NEW k \in ks PROVE opts(k) = {<<k, "disabled">>}
    <3>1. {x \in DOMAIN c[k] : c[k][x] # w[k][x]} = {"disabled"}
      BY <1>5, <2>3
    <3> QED
      BY <3>1
  <2> HIDE DEF opts
  <2>4. UNION {opts(k) : k \in ks} = lines
    BY <2>3
  <2>5. ChangedLines(c, w) = {<<k, "">> : k \in {}} \cup UNION {opts(k) : k \in ks}
    BY <2>1, <2>2 DEF ChangedLines, opts
  <2> QED
    BY <2>4, <2>5
<1>7. CASE GuestWords(w) # GuestWords(c)
  <2>1. FoldedLines(c, w) = lines
    <3>1. ASSUME NEW l \in lines PROVE IsGuestSection(l[1]) /\ Folds(c, w, l)
      <4>1. PICK k \in ks : l = <<k, "disabled">>
        BY <3>1
      <4>2. l[1] = k /\ l[2] = "disabled"
        BY <4>1
      <4> QED
        BY <1>3, <1>7, <4>2 DEF Folds
    <3> QED
      BY <1>6, <3>1 DEF FoldedLines
  <2>2. lines # {}
    <3>1. ASSUME lines = {} PROVE FALSE
      <4>1. ks = {}
        BY <3>1
      <4>2. w = c
        <5>1. c = [k \in DOMAIN c |-> c[k]] /\ w = [k \in DOMAIN c |-> w[k]]
          BY <1>4 DEF Sound, AreFiles, w, Turned
        <5>2. \A k \in DOMAIN c : w[k] = c[k]
          BY <1>4, <4>1
        <5> QED
          BY <5>1, <5>2
      <4> QED
        BY <1>7, <4>2
    <3> QED
      BY <3>1
  <2> HIDE DEF lines
  <2>3. Rows(c, w) = {GuestRow(GuestWords(c), GuestWords(w))}
    BY <1>6, <2>1, <2>2, RowsAre
  <2> QED
    BY <1>7, <2>3 DEF w, ks
<1>8. CASE GuestWords(w) = GuestWords(c)
  <2>1. FoldedLines(c, w) = {}
    BY <1>8 DEF FoldedLines, Folds
  <2>2. Rows(c, w) = {RowOf(c, w, l) : l \in lines}
    BY <1>6, <2>1, RowsAre
  <2>3. \A k \in ks : RowOf(c, w, <<k, "disabled">>)
                        = Row(k, "disabled", c[k].disabled, w[k].disabled)
    BY DEF RowOf
  <2>4. {RowOf(c, w, l) : l \in lines}
          = {Row(k, "disabled", c[k].disabled, w[k].disabled) : k \in ks}
    BY <2>3
  <2> QED
    BY <1>8, <2>2, <2>4 DEF w, ks
<1> QED
  BY <1>7, <1>8

\* The words for a guest network that has just been made: it is on, on the bands
\* of the radios it was asked for on.
OnAir(a, radios) ==
  /\ Made(a) /\ radios # {} /\ PanelAPs(a) = {AP(r) : r \in radios}
  /\ \A r \in radios : /\ a[AP(r)].kind = "wifi-iface" /\ a[AP(r)].device = r
                        /\ a[AP(r)].network = {guestSection}
                        /\ a[AP(r)].disabled = ""

WordsOn(radios) == <<"on", {Band[r] : r \in radios}>>

LEMMA MadeWords ==
  ASSUME NEW a, NEW radios, OnAir(a, radios)
  PROVE  GuestWords(a) = WordsOn(radios)
<1> USE DEF OnAir, WordsOn
<1>1. Ours(a)
  BY MadeIsOurs
<1> DEFINE aps == {AP(r) : r \in radios}
<1>2. ASSUME NEW k \in aps
      PROVE  /\ a[k].kind = "wifi-iface" /\ a[k].network = {guestSection}
             /\ a[k].disabled = "" /\ \E r \in radios : a[k].device = r
  <2>1. PICK r \in radios : k = AP(r)
    BY <1>2
  <2> QED
    BY <2>1
<1>3. \A r \in radios : AP(r) \in aps /\ a[AP(r)].device = r
  OBVIOUS
<1>4. PanelAPs(a) = aps /\ aps # {}
  <2>1. PICK r \in radios : TRUE
    OBVIOUS
  <2>2. AP(r) \in aps
    BY <2>1
  <2> QED
    BY <2>2
<1> HIDE DEF aps
<1>5. Attached(a) = aps
  <2>1. Owned(a) = aps
    BY <1>1, <1>2, <1>4 DEF Owned
  <2> QED
    BY <1>2, <2>1 DEF Attached
<1>6. \E k \in Attached(a) : IsOn(a, k)
  <2>1. PICK k \in aps : a[k].disabled = ""
    BY <1>2, <1>4
  <2> QED
    BY <1>5, <2>1 DEF IsOn
<1>7. {Band[a[k].device] : k \in Attached(a)} = {Band[r] : r \in radios}
  <2>1. ASSUME NEW k \in aps PROVE Band[a[k].device] \in {Band[r] : r \in radios}
    <3>1. PICK r \in radios : a[k].device = r
      BY <1>2
    <3> QED
      BY <3>1
  <2>2. ASSUME NEW r \in radios PROVE Band[r] \in {Band[a[k].device] : k \in aps}
    <3>1. PICK k \in aps : a[k].device = r
      BY <1>3
    <3> QED
      BY <3>1
  <2>3. {Band[a[k].device] : k \in aps} \subseteq {Band[r] : r \in radios}
    BY ONLY <2>1
  <2>5. {Band[r] : r \in radios} \subseteq {Band[a[k].device] : k \in aps}
    BY ONLY <2>2
  <2>4. {Band[a[k].device] : k \in aps} = {Band[r] : r \in radios}
    BY <2>3, <2>5
  <2> QED
    BY <1>5, <2>4
<1> QED
  BY <1>1, <1>6, <1>7 DEF GuestWords

\* The lines of a draft that adds the parts p and moves the home network h on.
MovesOn(c, p, h, moved) ==
  /\ DOMAIN h = DOMAIN c /\ DOMAIN p \cap DOMAIN c = {}
  /\ moved \subseteq {LanKey} /\ LanKey \in DOMAIN c
  /\ \A k \in DOMAIN c \ moved : h[k] = c[k]
  /\ \A k \in moved : {o \in DOMAIN c[k] : c[k][o] # h[k][o]} = {"ip6assign"}

LinesOfMade(new, moved) ==
  {<<k, "">> : k \in new} \cup {<<k, "ip6assign">> : k \in moved}

LEMMA MadeLines ==
  ASSUME NEW c, NEW p, NEW h, NEW moved, MovesOn(c, p, h, moved)
  PROVE  ChangedLines(c, Over(p, h)) = LinesOfMade(DOMAIN p, moved)
<1> USE DEF MovesOn, LinesOfMade
<1> DEFINE a == Over(p, h)
           opts(k) == {<<k, o>> : o \in {x \in DOMAIN c[k] : c[k][x] # a[k][x]}}
<1>1. /\ DOMAIN a = DOMAIN p \cup DOMAIN c
      /\ \A k \in DOMAIN c : a[k] = h[k]
  BY DEF Over
<1> HIDE DEF a
<1>2. (DOMAIN c \ DOMAIN a) \cup (DOMAIN a \ DOMAIN c) = DOMAIN p
  BY <1>1
<1>3. \A k \in moved : {x \in DOMAIN c[k] : c[k][x] # a[k][x]} = {"ip6assign"}
  BY <1>1
<1>4. {x \in DOMAIN c \cap DOMAIN a : c[x] # a[x]} = moved
  <2>1. \A k \in moved : k \in DOMAIN c /\ c[k] # a[k]
    BY <1>3
  <2> QED
    BY <1>1, <2>1
<1>5. \A k \in moved : opts(k) = {<<k, "ip6assign">>}
  BY <1>3
<1>6. ChangedLines(c, a) = {<<k, "">> : k \in DOMAIN p} \cup UNION {opts(k) : k \in moved}
  BY <1>2, <1>4 DEF ChangedLines
<1> HIDE DEF opts
<1>7. UNION {opts(k) : k \in moved} = {<<k, "ip6assign">> : k \in moved}
  BY <1>5
<1> QED
  BY <1>6, <1>7 DEF a

\* And its rows: one for the guest network, one for the home network's prefix.
RowsOfMade(c, a, moved) ==
  {GuestRow(<<>>, GuestWords(a))}
  \cup {Row(k, "ip6assign", c[k]["ip6assign"], a[k]["ip6assign"]) : k \in moved}

LEMMA MadeRows ==
  ASSUME NEW c, NEW a, NEW new, NEW moved,
         ~Ours(c), Ours(a), new # {}, moved \subseteq {LanKey},
         \A k \in new : IsGuestSection(k) /\ k \notin DOMAIN c /\ k \in DOMAIN a,
         ChangedLines(c, a) = LinesOfMade(new, moved)
  PROVE  Rows(c, a) = RowsOfMade(c, a, moved)
<1> USE DEF LinesOfMade, RowsOfMade
<1> DEFINE mine  == {<<k, "">> : k \in new}
           other == {<<k, "ip6assign">> : k \in moved}
<1>1. GuestWords(c) = <<>>
  BY DEF GuestWords
<1>2. ASSUME NEW l \in mine PROVE IsGuestSection(l[1]) /\ Folds(c, a, l)
  <2>1. PICK k \in new : l = <<k, "">>
    BY <1>2
  <2>2. l[1] = k /\ k \notin DOMAIN c /\ k \in DOMAIN a
    BY <2>1
  <2> QED
    BY <2>2, WordsDiffer DEF Folds
<1>3. ASSUME NEW l \in other PROVE ~IsGuestSection(l[1])
  <2>1. l[1] = LanKey
    <3>1. PICK k \in moved : l = <<k, "ip6assign">>
      BY <1>3
    <3> QED
      BY <3>1
  <2>2. LanKey[2] = ""
    BY KeysAre
  <2> QED
    BY <2>1, <2>2 DEF IsGuestSection, guestSection, guestPrefix
<1>4. mine # {} /\ ChangedLines(c, a) = mine \cup other
  OBVIOUS
<1>5. \A k \in moved : RowOf(c, a, <<k, "ip6assign">>)
                         = Row(k, "ip6assign", c[k]["ip6assign"], a[k]["ip6assign"])
  BY DEF RowOf
<1>6. {RowOf(c, a, l) : l \in other}
        = {Row(k, "ip6assign", c[k]["ip6assign"], a[k]["ip6assign"]) : k \in moved}
  BY <1>5
<1> HIDE DEF mine, other
<1>7. FoldedLines(c, a) = mine
  BY <1>2, <1>3, <1>4 DEF FoldedLines
<1>8. (mine \cup other) \ mine = other
  BY <1>2, <1>3
<1> QED
  BY <1>1, <1>4, <1>6, <1>7, <1>8, RowsAre

\* Where the home network is renumbered its prefix changes, and nothing else.
LEMMA HomeMoves ==
  ASSUME SoundInv
  PROVE  LET moved == IF GuestIPv6(view, prefixes).renumber THEN {LanKey} ELSE {}
         IN  /\ \A k \in DOMAIN view \ moved : StagedHome[k] = view[k]
             /\ \A k \in moved :
                  /\ {o \in DOMAIN view[k] : view[k][o] # StagedHome[k][o]} = {"ip6assign"}
                  /\ StagedHome[k]["ip6assign"] = guestAssign
<1> DEFINE renumber == GuestIPv6(view, prefixes).renumber
           f == [ip6assign |-> guestAssign]
           lan == view[LanKey]
           s == StagedHome[LanKey]
<1>1. LanKey \in DOMAIN view /\ IsSection(LanKey, lan)
      /\ view = [k \in DOMAIN view |-> view[k]]
  BY DEF SoundInv, Sound, AreFiles
<1>2. CASE ~renumber
  BY <1>2 DEF StagedHome
<1>3. CASE renumber
  <2>1. lan["ip6assign"] # guestAssign
    <3>1. lan["ip6assign"] < guestAssign
      BY <1>3 DEF GuestIPv6
    <3>2. ~(guestAssign < guestAssign)
      BY DEF guestAssign
    <3> QED
      BY <3>1, <3>2
  <2>2. "ip6assign" \in DOMAIN lan
    <3>1. LanKey[1] = "network"
      BY KeysAre
    <3> QED
      BY <1>1, <3>1, SectionIs, OptionsAre
  <2>3. /\ \A k \in DOMAIN view : k # LanKey => StagedHome[k] = view[k]
        /\ s = [x \in DOMAIN lan |-> IF x \in DOMAIN f THEN f[x] ELSE lan[x]]
    BY <1>1, <1>3 DEF StagedHome, Put
  <2>4. DOMAIN f = {"ip6assign"} /\ f["ip6assign"] = guestAssign
    OBVIOUS
  <2> HIDE DEF f, s, lan
  <2>5. /\ s["ip6assign"] = guestAssign
        /\ \A o \in DOMAIN lan : o # "ip6assign" => s[o] = lan[o]
    BY <2>2, <2>3, <2>4
  <2>6. {o \in DOMAIN lan : lan[o] # s[o]} = {"ip6assign"}
    BY <2>1, <2>2, <2>5
  <2> QED
    BY <1>3, <2>3, <2>5, <2>6 DEF s, lan
<1> QED
  BY <1>2, <1>3

LEMMA StageGuestRows ==
  ASSUME GuestInv, NEW asked, StageGuest(asked)
  PROVE  Rows(view, Over(StagedParts(asked), StagedHome))
           = {GuestRow(<<>>, <<"on", {Band[r] : r \in RadiosFor(asked)}>>)}
             \cup (IF GuestIPv6(view, prefixes).renumber
                   THEN {Row(LanKey, "ip6assign", view[LanKey].ip6assign, guestAssign)}
                   ELSE {})
<1> DEFINE parts == StagedParts(asked)
           home == StagedHome
           all == Over(parts, home)
           radios == RadiosFor(asked)
           moved == IF GuestIPv6(view, prefixes).renumber THEN {LanKey} ELSE {}
<1>1. ~Ours(view) /\ ~Foreign(view) /\ radios # {} /\ SoundInv /\ AreFiles(view)
  BY DEF StageGuest, GuestInv, SoundInv, Sound
<1>2. DOMAIN home = DOMAIN view /\ LanKey \in DOMAIN view
  BY <1>1, HomeIs DEF AreFiles
<1>3. /\ \A k \in DOMAIN view \ moved : home[k] = view[k]
      /\ \A k \in moved :
           /\ {o \in DOMAIN view[k] : view[k][o] # home[k][o]} = {"ip6assign"}
           /\ home[k]["ip6assign"] = guestAssign
  BY <1>1, HomeMoves
<1>4. moved \subseteq {LanKey}
  OBVIOUS
<1>5. /\ DOMAIN parts = PanelKeys \cup {AP(r) : r \in radios}
      /\ \A k \in DOMAIN parts :
           /\ IsGuestSection(k)
           /\ parts[k] = Part(k, UplinkZone(view, up), FirstFree(view))
  BY PartsAre
<1> HIDE DEF parts, home, moved, radios
<1>6. DOMAIN parts \cap DOMAIN view = {}
  BY <1>1, <1>5, NoneThere
<1>7. ChangedLines(view, all) = LinesOfMade(DOMAIN parts, moved)
  <2>1. MovesOn(view, parts, home, moved)
    BY <1>2, <1>3, <1>4, <1>6 DEF MovesOn
  <2> QED
    BY <2>1, MadeLines
<1>8. /\ DOMAIN all = DOMAIN parts \cup DOMAIN view
      /\ \A k \in DOMAIN parts : all[k] = parts[k]
      /\ \A k \in DOMAIN view : all[k] = home[k]
  BY <1>2, <1>6 DEF Over
<1> HIDE DEF all
<1>9. Made(all)
  <2>1. GuestDev \in DOMAIN parts /\ GuestIface \in DOMAIN parts
    BY <1>5 DEF PanelKeys
  <2> DEFINE dev == parts[GuestDev]
             net == parts[GuestIface]
  <2> HIDE DEF dev, net
  <2>2. dev = [kind |-> "device", name |-> guestBridge, device |-> "",
               addr |-> 0, ip6assign |-> 0, more |-> FALSE]
    BY <1>5, <2>1, DevIs DEF dev
  <2>3. net = [kind |-> "interface", name |-> "", device |-> guestBridge,
               addr |-> FirstFree(view), ip6assign |-> guestAssign, more |-> FALSE]
    BY <1>5, <2>1, IfaceIs DEF net
  <2>4. dev["kind"] = "device" /\ dev["name"] = guestBridge
    BY ONLY <2>2
  <2>5. net["kind"] = "interface" /\ net["device"] = guestBridge
    BY ONLY <2>3
  <2> QED
    BY <1>8, <2>1, <2>4, <2>5 DEF Made, Has, dev, net
<1>10. PanelAPs(all) = {AP(r) : r \in radios}
  <2>1. ASSUME NEW k \in PanelAPs(all) PROVE k \in {AP(r) : r \in radios}
    <3>1. k \in DOMAIN all /\ k[1] = "wireless" /\ k[2] = guestPrefix
      BY <2>1 DEF PanelAPs, File
    <3>2. k \notin DOMAIN view
      <4>1. PanelAPs(view) = {}
        BY <1>1 DEF Foreign, Traces
      <4> QED
        BY <3>1, <4>1 DEF PanelAPs, File
    <3>3. k \notin PanelKeys
      <4>1. \A x \in PanelKeys : x[1] # "wireless"
        BY KeysDiffer DEF PanelKeys, GuestRules
      <4> QED
        BY <3>1, <4>1
    <3> QED
      BY <1>5, <1>8, <3>1, <3>2, <3>3
  <2>2. ASSUME NEW r \in radios PROVE AP(r) \in PanelAPs(all)
    <3>1. AP(r) \in DOMAIN all
      BY <1>5, <1>8, <2>2
    <3> QED
      BY <3>1, KeysDiffer DEF PanelAPs, File
  <2> QED
    BY <2>1, <2>2
<1>11. ASSUME NEW r \in radios
       PROVE  /\ all[AP(r)].kind = "wifi-iface" /\ all[AP(r)].device = r
              /\ all[AP(r)].network = {guestSection} /\ all[AP(r)].disabled = ""
  <2>1. AP(r) \in DOMAIN parts
    BY <1>5, <1>11
  <2> DEFINE s == all[AP(r)]
  <2> HIDE DEF s
  <2>2. s = [kind |-> "wifi-iface", network |-> {guestSection}, device |-> r,
             channel |-> "", disabled |-> "", isolate |-> "1", bridge_isolate |-> "1"]
    BY <1>5, <1>8, <2>1, APIs DEF s
  <2>3. /\ s["kind"] = "wifi-iface" /\ s["device"] = r
        /\ s["network"] = {guestSection} /\ s["disabled"] = ""
    BY ONLY <2>2
  <2> QED
    BY <2>3 DEF s
<1>12. GuestWords(all) = WordsOn(radios)
  <2>1. OnAir(all, radios)
    BY <1>1, <1>9, <1>10, <1>11 DEF OnAir
  <2> QED
    BY <2>1, MadeWords
<1>13. Rows(view, all) = RowsOfMade(view, all, moved)
  <2>1. Ours(all) /\ DOMAIN parts # {}
    BY <1>5, <1>9, MadeIsOurs DEF PanelKeys
  <2>2. \A k \in DOMAIN parts : IsGuestSection(k) /\ k \notin DOMAIN view /\ k \in DOMAIN all
    BY <1>5, <1>6, <1>8
  <2> QED
    BY <1>1, <1>4, <1>7, <2>1, <2>2, MadeRows
<1>14. {Row(k, "ip6assign", view[k]["ip6assign"], all[k]["ip6assign"]) : k \in moved}
         = IF GuestIPv6(view, prefixes).renumber
           THEN {Row(LanKey, "ip6assign", view[LanKey].ip6assign, guestAssign)}
           ELSE {}
  <2>1. \A k \in moved : k = LanKey /\ all[k]["ip6assign"] = guestAssign
    BY <1>2, <1>3, <1>4, <1>8
  <2>2. moved = IF GuestIPv6(view, prefixes).renumber THEN {LanKey} ELSE {}
    BY DEF moved
  <2> QED
    BY <2>1, <2>2
<1> QED
  BY <1>12, <1>13, <1>14 DEF all, parts, home, radios, RowsOfMade, WordsOn

-----------------------------------------------------------------------------
(* The theorems.                                                            *)

\* Files stay well formed, and as long as nothing was torn what waits in the
\* draft is the difference it makes, up to what others did.
THEOREM GuestInductive == GuestSpec => []GuestInv
<1>1. GuestInit => GuestInv
  BY GuestInitInv
<1>2. GuestInv /\ [GuestNext]_guestVars => GuestInv'
  BY GuestNextInv
<1> QED
  BY <1>1, <1>2, PTL DEF GuestSpec

\* The card's silence is a promise that is kept, whatever the files, the edits
\* by hand and the uplink: guests are served, and kept from the router, the home
\* network, what is above the router and each other (guestBlocker and
\* guestWeakened leave nothing out that fw4 would act on).
THEOREM SilentCardKeepsPromise == GuestSpec => []UnwarnedKeepsPromise
<1>1. GuestInv => UnwarnedKeepsPromise
  <2> SUFFICES ASSUME GuestInv, Ours(disk), CardBlocked = {}
               PROVE  /\ Served(disk)
                      /\ \A what \in {"router", "home", "upstream", "peers", "home by air"} :
                           ~Reaches(disk, what)
    BY DEF UnwarnedKeepsPromise
  <2>1. Blockers(disk, up) = {} /\ AreFiles(disk)
    BY DEF CardBlocked, GuestInv, SoundInv, Sound
  <2>2. Served(disk)
    BY <2>1, GuestsAreServed
  <2>3. ~Reaches(disk, "router") /\ ~Reaches(disk, "upstream")
    BY <2>1, RouterIsShut, UpstreamIsShut
  <2>4. ~Reaches(disk, "home")
    BY <2>1, HomeIsShut
  <2>5. ~Reaches(disk, "peers") /\ ~Reaches(disk, "home by air")
    BY <2>1, AirIsShut
  <2> QED
    BY <2>2, <2>3, <2>4, <2>5
<1> QED
  BY <1>1, GuestInductive, PTL

\* What waits of the guest network is all there, and nothing of a failed edit
\* is (lockedStage, stageGuest).
THEOREM DraftWaitsWhole == GuestSpec => []GuestWaitsWhole
<1>1. GuestInv => GuestWaitsWhole
  <2> SUFFICES ASSUME GuestInv, ~torn PROVE GuestWaitsWhole
    BY DEF GuestWaitsWhole
  <2>1. WaitsAs(disk, view, byHand, waits)
    BY DEF GuestInv, WaitInv
  <2> QED
    BY <2>1 DEF WaitsAs, GuestWaitsWhole
<1> QED
  BY <1>1, GuestInductive, PTL

\* What is left after a removal that looks like a guest network is not the
\* panel's.
LEMMA RemovalLeaves ==
  ASSUME NEW c, NEW by, Sound(c, by), Ours(c)
  PROVE  LET w == Without(c, Removed(c))
         IN  ~Ours(w) /\ Traces(w) \subseteq by
<1> DEFINE w == Without(c, Removed(c))
<1>1. /\ DOMAIN w = DOMAIN c \ Removed(c) /\ Unmade(w)
      /\ \A k \in DOMAIN w : w[k] = c[k]
  BY RemovedAre DEF Sound
<1> HIDE DEF w
<1>2. ~Ours(w)
  BY <1>1, MadeIsOurs
<1>3. ASSUME NEW k \in Traces(w) PROVE k \in by
  <2>1. k \in DOMAIN w /\ k \notin PanelKeys
    <3>1. k \in DOMAIN w
      BY <1>3 DEF Traces, FirewallOfGuests, NamedGuest, PanelAPs,
                  OtherOnGuestBridge, Kind, File
    <3> QED
      BY <1>1, <3>1 DEF Removed
  <2>2. k \notin {GuestDev, GuestIface, GuestDhcp, GuestZone} \cup GuestRules
    BY <2>1 DEF PanelKeys
  <2>3. CASE k \in NamedGuest(w)
    <3>1. Strange(k, w[k])
      BY <2>1, <2>3 DEF Strange, NamedGuest, Kind, File
    <3> QED
      BY <1>1, <2>1, <3>1 DEF Sound
  <2>4. CASE k \in PanelAPs(w)
    <3>1. Strange(k, w[k])
      BY <1>1, <2>1, <2>4 DEF Strange, Unmade, PanelAPs, File
    <3> QED
      BY <1>1, <2>1, <3>1 DEF Sound
  <2>5. CASE k \in Kind(w, "wireless", "wifi-iface") /\ OnGuest(w[k])
    <3>1. k[1] = "wireless" /\ w[k].kind = "wifi-iface"
      BY <2>5 DEF Kind, File
    <3>2. k[2] # guestPrefix
      BY <1>1, <2>1, <3>1 DEF Unmade, PanelAPs, File
    <3>3. Strange(k, w[k])
      BY <2>1, <2>5, <3>1, <3>2 DEF Strange
    <3> QED
      BY <1>1, <2>1, <3>3 DEF Sound
  <2>6. CASE k \in Kind(w, "network", "device") /\ w[k].name = guestBridge
    <3>1. Strange(k, w[k])
      BY <2>1, <2>6 DEF Strange, Kind, File
    <3> QED
      BY <1>1, <2>1, <3>1 DEF Sound
  <2>7. CASE k \in OtherOnGuestBridge(w)
    <3>1. Strange(k, w[k])
      BY <2>1, <2>7 DEF Strange, OtherOnGuestBridge, Kind, File
    <3> QED
      BY <1>1, <2>1, <3>1 DEF Sound
  <2> QED
    BY <1>3, <2>2, <2>3, <2>4, <2>5, <2>6, <2>7 DEF Traces, FirewallOfGuests
<1> QED
  BY <1>2, <1>3 DEF w

\* A guest network that was removed is gone for good: what is left of the look
\* of one was made or changed by somebody else (StageGuestRemove).
THEOREM RemovedIsGone == GuestSpec => RemovedForGood
<1> DEFINE A == (waits' # waits /\ waits'.gone # {}) =>
                  ~Ours(view') /\ Traces(view') \subseteq byHand
<1>1. GuestInv /\ [GuestNext]_guestVars => [A]_guestVars
  <2> SUFFICES ASSUME GuestInv, GuestNext, waits' # waits, waits'.gone # {}
               PROVE  ~Ours(view') /\ Traces(view') \subseteq byHand
    OBVIOUS
  <2>1. CASE StageGuestRemove
    <3>1. Sound(view, byHand) /\ Ours(view)
      BY <2>1 DEF GuestInv, SoundInv, StageGuestRemove
    <3>2. view' = Without(view, Removed(view))
      BY <2>1 DEF StageGuestRemove, Accepted, TakenBack, NotTakenBack
    <3> QED
      BY <3>1, <3>2, RemovalLeaves
  <2>2. ASSUME NEW asked \in Asked, StageGuest(asked) PROVE FALSE
    BY <2>2 DEF StageGuest, Accepted, TakenBack, NotTakenBack
  <2>3. ASSUME NEW on \in BOOLEAN, StageGuestEnabled(on) PROVE FALSE
    BY <2>3 DEF StageGuestEnabled, Accepted, TakenBack, NotTakenBack
  <2>4. ASSUME NEW e \in OwnerEdits, LockedStage(e) PROVE FALSE
    BY <2>4 DEF LockedStage
  <2>5. ASSUME NEW e \in Edits, EditByHand(e) PROVE FALSE
    BY <2>5 DEF EditByHand
  <2>6. CASE Commit \/ DiscardStaged \/ RestoreNetwork
    <3>1. waits' = NoWait
      BY <2>6 DEF Commit, DiscardStaged, RestoreNetwork, Settled
    <3> QED
      BY <3>1 DEF NoWait
  <2>7. ASSUME NEW u \in Uplinks, UplinkMoves(u) PROVE FALSE
    BY <2>7 DEF UplinkMoves
  <2> QED
    BY <2>1, <2>2, <2>3, <2>4, <2>5, <2>6, <2>7 DEF GuestNext
<1> QED
  BY <1>1, GuestInductive, PTL DEF GuestSpec, RemovedForGood

\* What a guest edit answers with is what the apply bar shows after a reload
\* (StageGuest, StageGuestEnabled, StageGuestRemove, against StagedChanges).
THEOREM AnswersAreTheBar == GuestSpec => GuestRowsAfterReload
<1> DEFINE A == said' # {} /\ said' # said => said' = Rows(disk', view')
<1>1. GuestInv /\ [GuestNext]_guestVars => [A]_guestVars
  <2> SUFFICES ASSUME GuestInv, GuestNext, said' # {}, said' # said
               PROVE  said' = Rows(disk', view')
    OBVIOUS
  <2>1. ASSUME Begins PROVE view = disk /\ disk' = disk
    BY <2>1, OnEmptyDraft DEF GuestInv, Begins
  <2>2. ASSUME NEW asked \in Asked, StageGuest(asked) PROVE said' = Rows(disk', view')
    <3>1. view = disk /\ disk' = disk
      BY <2>1, <2>2 DEF StageGuest
    <3>2. /\ view' = Over(StagedParts(asked), StagedHome)
          /\ said' = {GuestRow(<<>>, <<"on", {Band[r] : r \in RadiosFor(asked)}>>)}
                     \cup (IF GuestIPv6(view, prefixes).renumber
                           THEN {Row(LanKey, "ip6assign", view[LanKey].ip6assign, guestAssign)}
                           ELSE {})
      BY <2>2 DEF StageGuest, StagedParts, StagedHome, Accepted, TakenBack, NotTakenBack
    <3> QED
      BY <2>2, <3>1, <3>2, StageGuestRows
  <2>3. ASSUME NEW on \in BOOLEAN, StageGuestEnabled(on) PROVE said' = Rows(disk', view')
    <3>1. view = disk /\ disk' = disk /\ Sound(view, byHand) /\ Ours(view)
      BY <2>1, <2>3 DEF StageGuestEnabled, Owned, GuestInv, SoundInv
    <3> DEFINE ks == Flips(view, on)
               w  == Turned(view, ks, on)
    <3>2. /\ view' = w
          /\ said' = IF GuestWords(w) # GuestWords(view)
                     THEN {GuestRow(GuestWords(view), GuestWords(w))}
                     ELSE {Row(k, "disabled", view[k].disabled, w[k].disabled) : k \in ks}
      BY <2>3 DEF StageGuestEnabled, Accepted, TakenBack, NotTakenBack
    <3> QED
      BY <2>3, <3>1, <3>2, TurnedRows
  <2>4. CASE StageGuestRemove
    <3>1. view = disk /\ disk' = disk /\ AreFiles(view) /\ Ours(view)
      BY <2>1, <2>4 DEF StageGuestRemove, GuestInv, SoundInv, Sound
    <3>2. /\ view' = Without(view, Removed(view))
          /\ said' = {GuestRow(GuestWords(view), <<>>)}
      BY <2>4 DEF StageGuestRemove, Accepted, TakenBack, NotTakenBack
    <3> QED
      BY <3>1, <3>2, RemovalRows
  <2>5. ASSUME NEW e \in OwnerEdits, LockedStage(e) PROVE FALSE
    BY <2>5 DEF LockedStage
  <2>6. ASSUME NEW e \in Edits, EditByHand(e) PROVE FALSE
    BY <2>6 DEF EditByHand
  <2>7. CASE Commit \/ DiscardStaged \/ RestoreNetwork
    BY <2>7 DEF Commit, DiscardStaged, RestoreNetwork, Settled
  <2>8. ASSUME NEW u \in Uplinks, UplinkMoves(u) PROVE FALSE
    BY <2>8 DEF UplinkMoves
  <2> QED
    BY <2>2, <2>3, <2>4, <2>5, <2>6, <2>7, <2>8 DEF GuestNext
<1> QED
  BY <1>1, GuestInductive, PTL DEF GuestSpec, GuestRowsAfterReload
-----------------------------------------------------------------------------
(***************************************************************************)
(* Sums of sizes.  A part of a finite set has a property if its smaller    *)
(* parts have it; sizes are added up by counting.                          *)
(***************************************************************************)

LEMMA LeastNumber ==
  ASSUME NEW T \in SUBSET Nat, T # {}
  PROVE  \E x \in T : \A y \in T : x <= y
<1>1. IsWellFoundedOn(OpToRel(<, Nat), Nat)
  BY NatLessThanWellFounded
<1>2. PICK x \in T : \A y \in T : ~(<<y, x>> \in OpToRel(<, Nat))
  BY <1>1, WFMin
<1>3. ASSUME NEW y \in T PROVE x <= y
  <2>1. ~(y < x)
    BY <1>2 DEF OpToRel
  <2> QED
    BY <2>1
<1> QED
  BY <1>3

\* G has every part of J, if it has each part of which it has the ones with one
\* element less.
LEMMA PartByPart ==
  ASSUME NEW J, IsFiniteSet(J), NEW G,
         \A s \in SUBSET J : (\A k \in s : s \ {k} \in G) => s \in G
  PROVE  \A s \in SUBSET J : s \in G
<1> SUFFICES ASSUME NEW t \in SUBSET J, t \notin G PROVE FALSE
  OBVIOUS
<1> DEFINE Bad == {n \in Nat : \E s \in SUBSET J : s \notin G /\ Cardinality(s) = n}
<1>1. \A s \in SUBSET J : IsFiniteSet(s) /\ Cardinality(s) \in Nat
  BY FS_Subset, FS_CardinalityType
<1>2. Bad # {} /\ Bad \in SUBSET Nat
  BY <1>1
<1>3. PICK n \in Bad : \A m \in Bad : n <= m
  BY <1>2, LeastNumber
<1>4. PICK s \in SUBSET J : s \notin G /\ Cardinality(s) = n
  BY <1>3
<1>5. ASSUME NEW k \in s PROVE s \ {k} \in G
  <2>1. Cardinality(s \ {k}) = n - 1 /\ s \ {k} \in SUBSET J
    BY <1>1, <1>4, FS_RemoveElement
  <2>2. n - 1 \notin Bad /\ n - 1 \in Nat
    BY <1>1, <1>3, <2>1
  <2> QED
    BY <2>1, <2>2
<1> QED
  BY <1>4, <1>5

\* As many things as the sizes of the elements of A say, each with its element.
Things(z, A) == {t \in A \X Nat : t[2] < z[t[1]]}

LEMMA ThingsOfOne ==
  ASSUME NEW z, NEW k, z[k] \in Nat
  PROVE  IsFiniteSet(Things(z, {k})) /\ Cardinality(Things(z, {k})) = z[k]
<1> DEFINE S == 0 .. z[k] - 1
           f == [i \in S |-> <<k, i>>]
<1>1. IsFiniteSet(S) /\ Cardinality(S) = z[k]
  BY FS_Interval
<1>2. f \in Bijection(S, Things(z, {k}))
  <2>1. f \in [S -> Things(z, {k})]
    BY DEF Things
  <2>2. \A i, j \in S : f[i] = f[j] => i = j
    OBVIOUS
  <2>3. ASSUME NEW t \in Things(z, {k}) PROVE t[2] \in S /\ f[t[2]] = t
    BY <2>3 DEF Things
  <2> QED
    BY <2>1, <2>2, <2>3 DEF Bijection, Injection, IsInjective, Surjection
<1>3. ExistsBijection(S, Things(z, {k}))
  BY <1>2 DEF ExistsBijection
<1> QED
  BY <1>1, <1>3, FS_Bijection

\* The things of a part, and of what is apart from it.
LEMMA ThingsJoined ==
  ASSUME NEW z, NEW A, NEW B, A \cap B = {},
         IsFiniteSet(Things(z, A)), IsFiniteSet(Things(z, B))
  PROVE  /\ IsFiniteSet(Things(z, A \cup B))
         /\ Cardinality(Things(z, A \cup B))
              = Cardinality(Things(z, A)) + Cardinality(Things(z, B))
<1>1. Things(z, A \cup B) = Things(z, A) \cup Things(z, B)
  BY DEF Things
<1>2. Things(z, A) \cap Things(z, B) = {}
  BY DEF Things
<1>3. Cardinality(Things(z, A)) \in Nat /\ Cardinality(Things(z, B)) \in Nat
  BY FS_CardinalityType
<1>4. Cardinality(Things(z, A) \cap Things(z, B)) = 0
  BY <1>2, FS_EmptySet
<1>5. /\ IsFiniteSet(Things(z, A) \cup Things(z, B))
      /\ Cardinality(Things(z, A) \cup Things(z, B))
           = Cardinality(Things(z, A)) + Cardinality(Things(z, B))
             - Cardinality(Things(z, A) \cap Things(z, B))
  BY FS_Union
<1>6. \A a, b, c, d : a \in Nat /\ b \in Nat /\ c = 0 /\ d = a + b - c => d = a + b
  OBVIOUS
<1>7. Cardinality(Things(z, A) \cup Things(z, B))
        = Cardinality(Things(z, A)) + Cardinality(Things(z, B))
  BY ONLY <1>3, <1>4, <1>5, <1>6, Zenon
<1> QED
  BY ONLY <1>1, <1>5, <1>7, Zenon

Sized(z, J) == \A k \in J : z[k] \in Nat

LEMMA ThingsFinite ==
  ASSUME NEW J, IsFiniteSet(J), NEW z, Sized(z, J)
  PROVE  \A A \in SUBSET J : /\ IsFiniteSet(Things(z, A))
                             /\ Cardinality(Things(z, A)) \in Nat
<1> DEFINE G == {A \in SUBSET J : IsFiniteSet(Things(z, A))}
<1>1. ASSUME NEW s \in SUBSET J, \A k \in s : s \ {k} \in G PROVE s \in G
  <2>1. CASE s = {}
    <3>1. Things(z, s) = {}
      BY <2>1 DEF Things
    <3> QED
      BY <3>1, FS_EmptySet
  <2>2. ASSUME NEW k \in s PROVE s \in G
    <3>1. IsFiniteSet(Things(z, s \ {k})) /\ IsFiniteSet(Things(z, {k}))
      BY <1>1, <2>2, ThingsOfOne DEF Sized
    <3>2. s = (s \ {k}) \cup {k} /\ (s \ {k}) \cap {k} = {}
      BY <2>2
    <3>3. IsFiniteSet(Things(z, (s \ {k}) \cup {k}))
      BY ONLY <3>1, (s \ {k}) \cap {k} = {}, <3>2, ThingsJoined
    <3> QED
      BY <3>2, <3>3
  <2> QED
    BY <2>1, <2>2
<1>2. \A s \in SUBSET J : s \in G
  <2> HIDE DEF G
  <2> QED
    BY <1>1, PartByPart
<1> QED
  BY <1>2, FS_CardinalityType

\* One more element adds its size.
LEMMA OneMore ==
  ASSUME NEW J, IsFiniteSet(J), NEW z, Sized(z, J), NEW A \in SUBSET J, NEW k \in A
  PROVE  Cardinality(Things(z, A)) = z[k] + Cardinality(Things(z, A \ {k}))
<1> DEFINE B == A \ {k}
<1>1. A = B \cup {k} /\ B \cap {k} = {} /\ B \in SUBSET J
  OBVIOUS
<1>2. /\ IsFiniteSet(Things(z, {k})) /\ Cardinality(Things(z, {k})) = z[k]
      /\ z[k] \in Nat
  BY ThingsOfOne DEF Sized
<1>3. IsFiniteSet(Things(z, B)) /\ Cardinality(Things(z, B)) \in Nat
  BY <1>1, ThingsFinite
<1>4. Cardinality(Things(z, B \cup {k}))
        = Cardinality(Things(z, B)) + Cardinality(Things(z, {k}))
  BY <1>1, <1>2, <1>3, ThingsJoined
<1>5. \A a, b, c, d : a \in Nat /\ b \in Nat /\ c = a /\ d = b + c => d = a + b
  OBVIOUS
<1>6. Cardinality(Things(z, B \cup {k})) = z[k] + Cardinality(Things(z, B))
  BY ONLY <1>2, <1>3, <1>4, <1>5, Zenon
<1> QED
  BY ONLY <1>1, <1>6, Zenon

\* The things of sizes that are multiples of one are a multiple of it.
Multiple(x, u) == \E m \in Nat : x = m * u

LEMMA ThingsMultiple ==
  ASSUME NEW J, IsFiniteSet(J), NEW z, Sized(z, J), NEW u \in Nat,
         \A k \in J : Multiple(z[k], u)
  PROVE  \A A \in SUBSET J : Multiple(Cardinality(Things(z, A)), u)
<1> DEFINE G == {A \in SUBSET J : Multiple(Cardinality(Things(z, A)), u)}
<1>1. ASSUME NEW s \in SUBSET J, \A k \in s : s \ {k} \in G PROVE s \in G
  <2>1. CASE s = {}
    <3>1. Things(z, s) = {}
      BY <2>1 DEF Things
    <3>2. Cardinality(Things(z, s)) = 0 * u
      BY <3>1, FS_EmptySet
    <3> QED
      BY <3>2 DEF Multiple
  <2>2. ASSUME NEW k \in s PROVE s \in G
    <3>1. PICK m \in Nat : Cardinality(Things(z, s \ {k})) = m * u
      BY <1>1, <2>2 DEF Multiple
    <3>2. PICK n \in Nat : z[k] = n * u
      BY <2>2 DEF Multiple
    <3>3. Cardinality(Things(z, s)) = z[k] + Cardinality(Things(z, s \ {k}))
      BY <2>2, OneMore
    <3>4. n * u + m * u = (n + m) * u /\ n + m \in Nat
      OBVIOUS
    <3>5. Cardinality(Things(z, s)) = (n + m) * u
      BY ONLY <3>1, <3>2, <3>3, <3>4
    <3> QED
      BY <3>4, <3>5 DEF Multiple
  <2> QED
    BY <2>1, <2>2
<1>2. \A s \in SUBSET J : s \in G
  <2> HIDE DEF G
  <2> QED
    BY <1>1, PartByPart
<1> QED
  BY <1>2

\* What a loop adds up, in whatever order it goes through them.
AddsUp(f, J, z) ==
  f = [s \in SUBSET J |-> IF s = {} THEN 0
                          ELSE LET k == CHOOSE x \in s : TRUE
                               IN  z[k] + f[s \ {k}]]

LEMMA AddedUp ==
  ASSUME NEW J, IsFiniteSet(J), NEW z, Sized(z, J), NEW f, AddsUp(f, J, z)
  PROVE  \A s \in SUBSET J : f[s] = Cardinality(Things(z, s))
<1> DEFINE G == {s \in SUBSET J : f[s] = Cardinality(Things(z, s))}
<1> USE DEF AddsUp
<1>1. ASSUME NEW s \in SUBSET J, \A k \in s : s \ {k} \in G PROVE s \in G
  <2>1. CASE s = {}
    <3>1. Things(z, s) = {}
      BY <2>1 DEF Things
    <3> QED
      BY <2>1, <3>1, FS_EmptySet
  <2>2. CASE s # {}
    <3> DEFINE k == CHOOSE x \in s : TRUE
    <3>1. k \in s
      BY <2>2
    <3>2. f[s] = z[k] + f[s \ {k}]
      BY <2>2
    <3> HIDE DEF k
    <3>3. f[s \ {k}] = Cardinality(Things(z, s \ {k}))
      BY <1>1, <3>1
    <3>4. Cardinality(Things(z, s)) = z[k] + Cardinality(Things(z, s \ {k}))
      BY <3>1, OneMore
    <3> QED
      BY <3>2, <3>3, <3>4
  <2> QED
    BY <2>1, <2>2
<1>2. \A s \in SUBSET J : s \in G
  <2> HIDE DEF G
  <2> QED
    BY <1>1, PartByPart
<1> QED
  BY <1>2

\* The function that a loop computes is there: it counts.
LEMMA CountAddsUp ==
  ASSUME NEW J, IsFiniteSet(J), NEW z, Sized(z, J)
  PROVE  \E f : AddsUp(f, J, z)
<1> DEFINE f == [s \in SUBSET J |-> Cardinality(Things(z, s))]
           h == [s \in SUBSET J |-> IF s = {} THEN 0
                                    ELSE LET k == CHOOSE x \in s : TRUE
                                         IN  z[k] + f[s \ {k}]]
<1>1. ASSUME NEW s \in SUBSET J PROVE f[s] = h[s]
  <2>1. CASE s = {}
    <3>1. Things(z, s) = {}
      BY <2>1 DEF Things
    <3> QED
      BY <2>1, <3>1, FS_EmptySet
  <2>2. CASE s # {}
    <3> DEFINE k == CHOOSE x \in s : TRUE
    <3>1. k \in s
      BY <2>2
    <3>2. h[s] = z[k] + f[s \ {k}]
      BY <2>2
    <3> HIDE DEF k, h
    <3>3. f[s \ {k}] = Cardinality(Things(z, s \ {k}))
      OBVIOUS
    <3>4. Cardinality(Things(z, s)) = z[k] + Cardinality(Things(z, s \ {k}))
      BY <3>1, OneMore
    <3> QED
      BY <3>2, <3>3, <3>4
  <2> QED
    BY <2>1, <2>2
<1>2. AddsUp(f, J, z)
  BY <1>1 DEF AddsUp
<1> QED
  BY <1>2

-----------------------------------------------------------------------------
(* Sizes of prefixes.                                                       *)

Powers == {1, 2, 4, 8, 16, 32, 64, 128, 256, 512, 1024, 2048, 4096, 8192,
           16384, 32768, 65536}

LEMMA CapacityIs ==
  ASSUME NEW mask \in Int
  PROVE  Capacity(mask) \in Powers \cup {0} /\ Capacity(guestAssign) = 1
<1>1. /\ 2 ^ 0 = 1 /\ 2 ^ 1 = 2 /\ 2 ^ 2 = 4 /\ 2 ^ 3 = 8 /\ 2 ^ 4 = 16
      /\ 2 ^ 5 = 32 /\ 2 ^ 6 = 64 /\ 2 ^ 7 = 128 /\ 2 ^ 8 = 256 /\ 2 ^ 9 = 512
      /\ 2 ^ 10 = 1024 /\ 2 ^ 11 = 2048 /\ 2 ^ 12 = 4096 /\ 2 ^ 13 = 8192
      /\ 2 ^ 14 = 16384 /\ 2 ^ 15 = 32768 /\ 2 ^ 16 = 65536
  OBVIOUS
<1>2. ASSUME NEW n \in 0 .. 16 PROVE 2 ^ n \in Powers
  <2>1. n \in {0, 1, 2, 3, 4, 5, 6, 7, 8, 9, 10, 11, 12, 13, 14, 15, 16}
    OBVIOUS
  <2>2. /\ 2 ^ 0 \in Powers /\ 2 ^ 1 \in Powers /\ 2 ^ 2 \in Powers
        /\ 2 ^ 3 \in Powers /\ 2 ^ 4 \in Powers /\ 2 ^ 5 \in Powers
        /\ 2 ^ 6 \in Powers /\ 2 ^ 7 \in Powers /\ 2 ^ 8 \in Powers
        /\ 2 ^ 9 \in Powers /\ 2 ^ 10 \in Powers /\ 2 ^ 11 \in Powers
        /\ 2 ^ 12 \in Powers /\ 2 ^ 13 \in Powers /\ 2 ^ 14 \in Powers
        /\ 2 ^ 15 \in Powers /\ 2 ^ 16 \in Powers
    BY <1>1 DEF Powers
  <2> HIDE DEF Powers
  <2> QED
    BY ONLY <2>1, <2>2, Zenon
<1>3. Capacity(guestAssign) = 1
  BY <1>1 DEF Capacity, guestAssign
<1> DEFINE n == guestAssign - (IF mask < guestAssign - 16 THEN guestAssign - 16 ELSE mask)
<1>4. CASE mask > 0 /\ mask <= guestAssign
  <2>1. n \in 0 .. 16
    BY <1>4 DEF guestAssign
  <2>2. Capacity(mask) = 2 ^ n
    BY <1>4 DEF Capacity, guestAssign
  <2> QED
    BY <1>2, <1>3, <2>1, <2>2
<1>5. CASE ~(mask > 0 /\ mask <= guestAssign)
  BY <1>3, <1>5 DEF Capacity, guestAssign
<1> QED
  BY <1>4, <1>5

\* The smaller of two sizes is a part of the larger.
LEMMA PowersDivide ==
  ASSUME NEW a \in Powers, NEW b \in Powers, a <= b
  PROVE  Multiple(b, a)
<1>1. b = (b \div a) * a /\ b \div a \in Nat
  BY DEF Powers
<1> QED
  BY <1>1 DEF Multiple

LEMMA TakenIs ==
  ASSUME NEW c, IsSized(c)
  PROVE  LET ks    == OtherNetworks(c)
             takes == [k \in ks |-> Capacity(c[k].ip6assign)]
         IN  /\ IsFiniteSet(ks) /\ Sized(takes, ks)
             /\ TakenByOthers(c) = Cardinality(Things(takes, ks))
<1> DEFINE ks    == OtherNetworks(c)
           takes == [k \in ks |-> Capacity(c[k].ip6assign)]
           sum   == CHOOSE f : AddsUp(f, ks, takes)
<1>1. IsFiniteSet(ks)
  <2>1. ks \in SUBSET File(c, "network")
    BY DEF OtherNetworks, Kind, File
  <2> QED
    BY <2>1, FS_Subset DEF IsSized
<1>2. Sized(takes, ks)
  <2>1. ASSUME NEW k \in ks PROVE takes[k] \in Nat
    <3>1. c[k].ip6assign \in Int
      BY DEF OtherNetworks, Kind, IsSized
    <3> QED
      BY <3>1, CapacityIs DEF Powers
  <2> QED
    BY <2>1 DEF Sized
<1>3. TakenByOthers(c) = sum[ks]
  BY DEF TakenByOthers, AddsUp
<1> HIDE DEF ks, takes
<1>4. AddsUp(sum, ks, takes)
  BY <1>1, <1>2, CountAddsUp
<1> HIDE DEF sum
<1>5. sum[ks] = Cardinality(Things(takes, ks))
  BY <1>1, <1>2, <1>4, AddedUp
<1>6. TakenByOthers(c) = Cardinality(Things(takes, ks))
  BY <1>3, <1>5
<1> QED
  BY <1>1, <1>2, <1>6 DEF ks, takes

-----------------------------------------------------------------------------
(***************************************************************************)
(* Cutting up.  The larger parts come first, and each begins where those   *)
(* before it end: on a multiple of its own size, as they are multiples of  *)
(* it.                                                                     *)
(***************************************************************************)
LEMMA ThingsMore ==
  ASSUME NEW J, IsFiniteSet(J), NEW z, Sized(z, J),
         NEW B \in SUBSET J, NEW A \in SUBSET B, NEW k \in B \ A
  PROVE  Cardinality(Things(z, A)) + z[k] <= Cardinality(Things(z, B))
<1> DEFINE C == A \cup {k}
<1>1. C \in SUBSET J /\ k \in C /\ C \ {k} = A /\ A \in SUBSET J
  OBVIOUS
<1>2. Cardinality(Things(z, C)) = z[k] + Cardinality(Things(z, C \ {k}))
  BY <1>1, OneMore
<1>3. Things(z, C) \in SUBSET Things(z, B)
  BY DEF Things
<1>4. /\ IsFiniteSet(Things(z, B)) /\ Cardinality(Things(z, B)) \in Nat
      /\ Cardinality(Things(z, A)) \in Nat /\ z[k] \in Nat
  BY <1>1, ThingsFinite DEF Sized
<1> HIDE DEF C
<1>5. Cardinality(Things(z, C)) <= Cardinality(Things(z, B))
  BY <1>3, <1>4, FS_Subset
<1>6. Cardinality(Things(z, C)) = z[k] + Cardinality(Things(z, A))
  BY ONLY <1>1, <1>2, Zenon
<1>7. \A a, b, c, d : a \in Nat /\ b \in Nat /\ d \in Nat /\ c = b + a /\ c <= d => a + b <= d
  OBVIOUS
<1> QED
  BY ONLY <1>4, <1>5, <1>6, <1>7, Zenon

\* The elements can be told apart by numbers.
LEMMA Numbered ==
  ASSUME NEW J, IsFiniteSet(J)
  PROVE  \E r \in [J -> Nat] : \A j, k \in J : r[j] = r[k] => j = k
<1>1. PICK n \in Nat : ExistsBijection(1 .. n, J)
  BY FS_NatBijection
<1>2. ExistsBijection(J, 1 .. n)
  BY <1>1, Fun_ExistsBijSymmetric
<1>3. PICK r : r \in Bijection(J, 1 .. n)
  BY <1>2 DEF ExistsBijection
<1>4. r \in [J -> Nat] /\ \A j, k \in J : r[j] = r[k] => j = k
  BY <1>3 DEF Bijection, Injection, IsInjective
<1> QED
  BY <1>4

LEMMA CutInTurn ==
  ASSUME NEW J, IsFiniteSet(J), NEW z, \A k \in J : z[k] \in Powers \cup {0}
  PROVE  \E at \in [J -> Nat] :
           /\ \A k \in J : /\ z[k] # 0 => Multiple(at[k], z[k])
                           /\ at[k] + z[k] <= Cardinality(Things(z, J))
           /\ \A j, k \in J : j # k => at[j] + z[j] <= at[k] \/ at[k] + z[k] <= at[j]
<1>1. Sized(z, J)
  BY DEF Sized, Powers
<1>2. PICK r \in [J -> Nat] : \A j, k \in J : r[j] = r[k] => j = k
  BY Numbered
<1> DEFINE Before(j, k) == z[j] > z[k] \/ (z[j] = z[k] /\ r[j] < r[k])
           Ahead(k)     == {j \in J : Before(j, k)}
           at           == [k \in J |-> Cardinality(Things(z, Ahead(k)))]
<1>3. at \in [J -> Nat]
  BY <1>1, ThingsFinite
<1>4. ASSUME NEW k \in J, z[k] # 0 PROVE Multiple(at[k], z[k])
  <2>1. IsFiniteSet(Ahead(k)) /\ Sized(z, Ahead(k)) /\ z[k] \in Nat
    BY <1>1, FS_Subset DEF Sized
  <2>2. ASSUME NEW j \in Ahead(k) PROVE Multiple(z[j], z[k])
    <3>1. z[j] \in Powers /\ z[k] \in Powers /\ z[k] <= z[j]
      BY <1>4 DEF Powers
    <3> QED
      BY <3>1, PowersDivide
  <2> DEFINE A == Ahead(k)
  <2>3. at[k] = Cardinality(Things(z, A))
    OBVIOUS
  <2> HIDE DEF A
  <2>4. /\ IsFiniteSet(A) /\ Sized(z, A) /\ z[k] \in Nat
        /\ \A j \in A : Multiple(z[j], z[k])
    BY <2>1, <2>2 DEF A
  <2>5. \A B \in SUBSET A : Multiple(Cardinality(Things(z, B)), z[k])
    BY ONLY <2>4, ThingsMultiple
  <2>6. A \in SUBSET A
    OBVIOUS
  <2> QED
    BY ONLY <2>3, <2>5, <2>6, Zenon
<1>5. ASSUME NEW k \in J PROVE at[k] + z[k] <= Cardinality(Things(z, J))
  <2>1. Ahead(k) \in SUBSET J /\ k \in J \ Ahead(k) /\ J \in SUBSET J
    BY <1>1 DEF Sized
  <2>2. at[k] = Cardinality(Things(z, Ahead(k)))
    OBVIOUS
  <2>3. Cardinality(Things(z, Ahead(k))) + z[k] <= Cardinality(Things(z, J))
    <3> HIDE DEF Ahead
    <3> QED
      BY <1>1, <2>1, ThingsMore
  <2> QED
    BY ONLY <2>2, <2>3
<1>6. ASSUME NEW j \in J, NEW k \in J, Before(j, k) PROVE at[j] + z[j] <= at[k]
  <2>1. Ahead(k) \in SUBSET J /\ Ahead(j) \in SUBSET Ahead(k) /\ j \in Ahead(k) \ Ahead(j)
    BY <1>1, <1>2, <1>6 DEF Sized
  <2>2. /\ at[j] = Cardinality(Things(z, Ahead(j)))
        /\ at[k] = Cardinality(Things(z, Ahead(k)))
    OBVIOUS
  <2>3. Cardinality(Things(z, Ahead(j))) + z[j] <= Cardinality(Things(z, Ahead(k)))
    <3> HIDE DEF Ahead
    <3> QED
      BY <1>1, <2>1, ThingsMore
  <2> QED
    BY ONLY <2>2, <2>3
<1>7. ASSUME NEW j \in J, NEW k \in J, j # k PROVE Before(j, k) \/ Before(k, j)
  BY <1>1, <1>2, <1>7 DEF Sized
<1> HIDE DEF at, Before
<1> QED
  BY <1>3, <1>4, <1>5, <1>6, <1>7

\* A multiple of its size, and inside, is a place.
LEMMA InPlace ==
  ASSUME NEW p \in Int, NEW a \in Int, NEW at \in Nat,
         Capacity(a) # 0 => Multiple(at, Capacity(a)),
         at + Capacity(a) <= Capacity(p), Capacity(p) # 0
  PROVE  at .. at + Capacity(a) - 1 \in Places(p, a)
<1> DEFINE u == Capacity(a)
           w == Capacity(p)
<1>1. u \in Powers \cup {0} /\ w \in Powers
  BY CapacityIs
<1>2. CASE u = 0
  <2>1. at .. at + u - 1 = {}
    BY <1>2
  <2> QED
    BY <1>2, <2>1 DEF Places
<1>3. CASE u # 0
  <2>1. PICK m \in Nat : at = m * u
    BY <1>3 DEF Multiple
  <2>2. m \in 0 .. (w \div u) - 1 /\ at + u = (m + 1) * u
    <3>1. u \in Powers
      BY <1>1, <1>3
    <3> HIDE DEF u, w
    <3>2. PICK d \in Nat : w = d * u
      <4>1. u <= w
        BY <1>1, <3>1 DEF u, w, Powers
      <4> QED
        BY <1>1, <3>1, <4>1, PowersDivide DEF Multiple
    <3>3. at + u <= w
      BY DEF u, w
    <3> QED
      BY ONLY <2>1, <3>1, <3>2, <3>3, m \in Nat, d \in Nat DEF Powers
  <2>3. at .. at + u - 1 = m * u .. (m + 1) * u - 1
    <3>1. u \in Nat
      BY <1>1 DEF Powers
    <3> HIDE DEF u
    <3>2. m * u \in Nat /\ (m + 1) * u \in Nat
      BY <3>1
    <3>3. \A x, y \in Nat : at = x /\ at + u = y => at .. at + u - 1 = x .. y - 1
      BY <3>1
    <3> QED
      BY ONLY <2>1, <2>2, <3>2, <3>3, Zenon
  <2> QED
    BY <1>3, <2>2, <2>3 DEF Places
<1> QED
  BY <1>2, <1>3

\* A prefix that holds more than the others and the home network take can be cut
\* up for them, and has a /64 left over behind them.
LEMMA RoomCutsUp ==
  ASSUME NEW c, IsSized(c), NEW p \in Int, NEW home \in Int,
         Capacity(p) > Capacity(home) + TakenByOthers(c)
  PROVE  CutsUp(c, p, home)
<1> DEFINE ks    == OtherNetworks(c)
           takes == [k \in ks |-> Capacity(c[k].ip6assign)]
           J     == ks \cup {LanKey}
           z     == [k \in J |-> IF k = LanKey THEN Capacity(home)
                                 ELSE Capacity(c[k].ip6assign)]
           T     == Cardinality(Things(z, J))
<1>1. /\ IsFiniteSet(ks) /\ TakenByOthers(c) = Cardinality(Things(takes, ks))
      /\ LanKey \notin ks
      /\ \A k \in ks : c[k].ip6assign \in Int
  BY TakenIs DEF OtherNetworks, Kind, IsSized
<1>2. IsFiniteSet(J)
  BY <1>1, FS_AddElement
<1>3. /\ \A k \in J : z[k] \in Powers \cup {0}
      /\ z[LanKey] = Capacity(home) /\ \A k \in ks : z[k] = Capacity(c[k].ip6assign)
  BY <1>1, CapacityIs
<1>4. Sized(z, J)
  <2> HIDE DEF z, J
  <2> QED
    BY <1>3 DEF Sized, Powers
<1>5. T = Capacity(home) + TakenByOthers(c) /\ T \in Nat
  <2>1. J \ {LanKey} = ks /\ J \in SUBSET J /\ LanKey \in J
    BY <1>1
  <2>2. Things(z, ks) = Things(takes, ks)
    BY <1>3 DEF Things
  <2> HIDE DEF z, takes, J, ks
  <2>3. Cardinality(Things(z, J)) = z[LanKey] + Cardinality(Things(z, J \ {LanKey}))
    BY <1>2, <1>4, <2>1, OneMore
  <2>4. T \in Nat
    BY <1>2, <1>4, <2>1, ThingsFinite
  <2> QED
    BY ONLY <1>1, <1>3, <2>1, <2>2, <2>3, <2>4, Zenon
<1> HIDE DEF T
<1>6. T < Capacity(p) /\ Capacity(p) \in Powers
  BY <1>5, CapacityIs
<1>7. PICK at \in [J -> Nat] :
        /\ \A k \in J : /\ z[k] # 0 => Multiple(at[k], z[k])
                        /\ at[k] + z[k] <= T
        /\ \A j, k \in J : j # k => at[j] + z[j] <= at[k] \/ at[k] + z[k] <= at[j]
  <2> HIDE DEF z, J
  <2> QED
    BY <1>2, <1>3, CutInTurn DEF T
<1> DEFINE part(k) == at[k] .. at[k] + z[k] - 1
           place   == [k \in ks |-> part(k)]
           h       == part(LanKey)
           g       == T .. T + Capacity(guestAssign) - 1
<1> HIDE DEF z, ks, takes
<1>8. \A k \in J : at[k] \in Nat /\ z[k] \in Nat
  BY <1>4, <1>7 DEF Sized
<1>9. ASSUME NEW k \in ks PROVE part(k) \in Places(p, c[k].ip6assign)
  <2>1. k \in J /\ z[k] = Capacity(c[k].ip6assign)
    BY <1>3
  <2>2. /\ Capacity(c[k].ip6assign) # 0 => Multiple(at[k], Capacity(c[k].ip6assign))
        /\ at[k] + Capacity(c[k].ip6assign) <= T /\ at[k] \in Nat
        /\ Capacity(c[k].ip6assign) \in Nat
    BY <1>7, <1>8, <2>1
  <2>3. at[k] + Capacity(c[k].ip6assign) <= Capacity(p) /\ Capacity(p) # 0
    BY <1>5, <1>6, <2>2 DEF Powers
  <2>4. at[k] .. at[k] + Capacity(c[k].ip6assign) - 1 \in Places(p, c[k].ip6assign)
    BY <1>1, <2>2, <2>3, InPlace
  <2> QED
    BY ONLY <2>1, <2>4, Zenon
<1>10. h \in Places(p, home)
  <2>1. LanKey \in J /\ z[LanKey] = Capacity(home)
    BY <1>3
  <2>2. /\ Capacity(home) # 0 => Multiple(at[LanKey], Capacity(home))
        /\ at[LanKey] + Capacity(home) <= T /\ at[LanKey] \in Nat
        /\ Capacity(home) \in Nat
    BY <1>7, <1>8, <2>1
  <2>3. at[LanKey] + Capacity(home) <= Capacity(p) /\ Capacity(p) # 0
    BY <1>5, <1>6, <2>2 DEF Powers
  <2>4. at[LanKey] .. at[LanKey] + Capacity(home) - 1 \in Places(p, home)
    BY <2>2, <2>3, InPlace
  <2> QED
    BY ONLY <2>1, <2>4, Zenon
<1>11. g \in Places(p, guestAssign)
  <2>1. guestAssign \in Int /\ Capacity(guestAssign) = 1
    BY CapacityIs DEF guestAssign
  <2>2. Multiple(T, Capacity(guestAssign))
    <3>1. T = T * 1
      BY <1>5
    <3> QED
      BY <1>5, <2>1, <3>1 DEF Multiple
  <2>3. T + Capacity(guestAssign) <= Capacity(p) /\ Capacity(p) # 0
    BY <1>5, <1>6, <2>1 DEF Powers
  <2> HIDE DEF guestAssign
  <2> QED
    BY <1>5, <2>1, <2>2, <2>3, InPlace
<1>12. \A j, k \in J : j # k => part(j) \cap part(k) = {}
  <2> SUFFICES ASSUME NEW j \in J, NEW k \in J, j # k PROVE part(j) \cap part(k) = {}
    OBVIOUS
  <2>1. at[j] + z[j] <= at[k] \/ at[k] + z[k] <= at[j]
    BY <1>7
  <2> QED
    BY <1>8, <2>1
<1>13. ASSUME NEW k \in J PROVE part(k) \cap g = {}
  <2>1. at[k] + z[k] <= T
    BY <1>7
  <2> QED
    BY <1>5, <1>8, <2>1
<1>14. LanKey \in J /\ ks \subseteq J /\ \A k \in ks : place[k] = part(k) /\ k # LanKey
  BY <1>1
<1> HIDE DEF part, g, J
<1>15. /\ \A k \in ks : place[k] \in Places(p, c[k].ip6assign)
       /\ \A j, k \in ks : j # k => place[j] \cap place[k] = {}
  BY <1>9, <1>12, <1>14
<1>16. h \cap g = {} /\ \A k \in ks : place[k] \cap (h \cup g) = {}
  BY <1>12, <1>13, <1>14
<1>17. place \in [ks -> UNION {Places(p, c[k].ip6assign) : k \in ks}]
  BY <1>9
<1> HIDE DEF place, h
<1> QED
  BY <1>10, <1>11, <1>15, <1>16, <1>17 DEF CutsUp, ks

LEMMA SizedPrefixFits ==
  ASSUME IsSized(view), LanKey \in DOMAIN view, prefixes \subseteq Int
  PROVE  PromisedPrefixFits
<1> DEFINE want    == GuestIPv6(view, prefixes)
           globals == {view[k].addr : k \in Kind(view, "network", "globals")}
           assign  == view[LanKey].ip6assign
           home    == IF want.renumber THEN guestAssign ELSE assign
<1> SUFFICES ASSUME want.ipv6 PROVE \E p \in prefixes \cup globals : CutsUp(view, p, home)
  BY DEF PromisedPrefixFits
<1>1. assign \in Int
  <2>1. LanKey \in File(view, "network")
    BY DEF File, LanKey
  <2> QED
    BY <2>1 DEF IsSized
<1>2. globals \subseteq Int
  BY DEF Kind, IsSized
<1>3. PICK p \in prefixes \cup globals :
        HasRoom(p, (IF want.renumber THEN 1 ELSE Capacity(assign)) + TakenByOthers(view))
  BY DEF GuestIPv6
<1> HIDE DEF want
<1>4. /\ home \in Int
      /\ Capacity(home) = IF want.renumber THEN 1 ELSE Capacity(assign)
  BY <1>1, CapacityIs DEF guestAssign
<1>5. p \in Int
  BY <1>2
<1> HIDE DEF home, assign, globals
<1>6. CutsUp(view, p, home)
  BY <1>3, <1>4, <1>5, RoomCutsUp DEF HasRoom
<1> QED
  BY <1>6

-----------------------------------------------------------------------------
(* Lengths stay numbers, and sections countable.                            *)

SizesInv ==
  IsSized(disk) /\ IsSized(view) /\ IsSized(snap) /\ prefixes \subseteq Int

HasLengths(s) == s.ip6assign \in Int /\ s.addr \in Int

\* Sections of sized files, and finitely many others with lengths.
LEMMA SizedFrom ==
  ASSUME NEW c, IsSized(c), NEW w, NEW N, IsFiniteSet(N),
         \A k \in File(w, "network") : \/ k \in File(c, "network") /\ w[k] = c[k]
                                       \/ k \in N /\ HasLengths(w[k])
  PROVE  IsSized(w)
<1>1. IsFiniteSet(File(c, "network") \cup N)
  BY FS_Union DEF IsSized
<1>2. File(w, "network") \in SUBSET (File(c, "network") \cup N)
  OBVIOUS
<1>3. IsFiniteSet(File(w, "network"))
  BY <1>1, <1>2, FS_Subset
<1> QED
  BY <1>3 DEF IsSized, HasLengths

LEMMA SizedFiles ==
  ASSUME NEW c, NEW d, NEW fs, IsSized(c), IsSized(d)
  PROVE  IsSized(WithFiles(c, d, fs))
<1> DEFINE w == WithFiles(c, d, fs)
<1>1. ASSUME NEW k \in File(w, "network")
      PROVE  \/ k \in File(c, "network") /\ w[k] = c[k]
             \/ k \in File(d, "network") /\ w[k] = d[k]
  BY DEF WithFiles, File
<1> HIDE DEF w
<1>2. \A k \in File(d, "network") : HasLengths(d[k])
  BY DEF IsSized, HasLengths
<1>3. IsFiniteSet(File(d, "network"))
  BY DEF IsSized
<1>4. IsSized(w)
  BY <1>1, <1>2, <1>3, SizedFrom
<1> QED
  BY <1>4 DEF w

LEMMA SizedWithout ==
  ASSUME NEW c, IsSized(c), NEW ks
  PROVE  IsSized(Without(c, ks))
<1> DEFINE w == Without(c, ks)
<1>1. \A k \in File(w, "network") : k \in File(c, "network") /\ w[k] = c[k]
  BY DEF Without, File
<1> HIDE DEF w
<1>2. IsSized(w)
  BY <1>1, FS_EmptySet, SizedFrom
<1> QED
  BY <1>2 DEF w

LEMMA SizedWith ==
  ASSUME NEW c, IsSized(c), NEW k, NEW s, k[1] = "network" => HasLengths(s)
  PROVE  IsSized(With(c, k, s))
<1> DEFINE w == With(c, k, s)
<1>1. ASSUME NEW x \in File(w, "network")
      PROVE  \/ x \in File(c, "network") /\ w[x] = c[x]
             \/ x \in {k} /\ HasLengths(w[x])
  BY DEF With, File
<1> HIDE DEF w
<1>2. IsSized(w)
  BY <1>1, FS_Singleton, SizedFrom
<1> QED
  BY <1>2 DEF w

LEMMA SizedPut ==
  ASSUME NEW c, NEW by, Sound(c, by), IsSized(c), NEW k \in DOMAIN c, NEW f,
         k[1] = "network" => \A o \in {"ip6assign", "addr"} \cap DOMAIN f : f[o] \in Int
  PROVE  IsSized(Put(c, k, f))
<1> DEFINE w == Put(c, k, f)
<1>1. /\ DOMAIN w = DOMAIN c /\ \A x \in DOMAIN c : x # k => w[x] = c[x]
      /\ w[k] = [x \in DOMAIN c[k] |-> IF x \in DOMAIN f THEN f[x] ELSE c[k][x]]
  BY DEF Put
<1> HIDE DEF w
<1>2. ASSUME k[1] = "network" PROVE HasLengths(w[k])
  <2>1. {"ip6assign", "addr"} \subseteq DOMAIN c[k]
    BY <1>2, SectionIs, OptionsAre DEF Sound, AreFiles
  <2>2. c[k]["ip6assign"] \in Int /\ c[k]["addr"] \in Int
    BY <1>2 DEF IsSized, File
  <2>3. w[k]["ip6assign"] \in Int /\ w[k]["addr"] \in Int
    BY <1>1, <1>2, <2>1, <2>2
  <2> QED
    BY <2>3 DEF HasLengths
<1>3. ASSUME NEW x \in File(w, "network")
      PROVE  \/ x \in File(c, "network") /\ w[x] = c[x]
             \/ x \in {k} /\ HasLengths(w[x])
  BY <1>1, <1>2 DEF File
<1>4. IsSized(w)
  BY <1>3, FS_Singleton, SizedFrom
<1> QED
  BY <1>4 DEF w

LEMMA SizedTurned ==
  ASSUME NEW c, IsSized(c), NEW ks, ks \subseteq Owned(c), NEW on
  PROVE  IsSized(Turned(c, ks, on))
<1> DEFINE w == Turned(c, ks, on)
<1>1. ASSUME NEW x \in File(w, "network") PROVE x \in File(c, "network") /\ w[x] = c[x]
  <2>1. x[1] = "network" /\ x \in DOMAIN c
    BY DEF File, Turned
  <2>2. x \notin ks
    BY <2>1, OwnedAre
  <2> QED
    BY <2>1, <2>2 DEF File, Turned
<1> HIDE DEF w
<1>2. IsSized(w)
  BY <1>1, FS_EmptySet, SizedFrom
<1> QED
  BY <1>2 DEF w

LEMMA SizedEdited ==
  ASSUME NEW c, NEW by, Sound(c, by), IsSized(c), NEW e \in Edits \cup OwnerEdits
  PROVE  IsSized(Edited(c, e))
<1>1. /\ e.how \in {"add", "change", "delete"}
      /\ e.how = "add" => IsSection(e.key, e.to)
  BY FilesAssumption
<1>2. (e.key[1] = "network" /\ e.how # "delete") =>
        \A o \in {"ip6assign", "addr"} \cap DOMAIN e.to : e.to[o] \in Int
  BY SizesAssumption
<1>3. CASE ~Applies(c, e)
  BY <1>3 DEF Edited
<1>4. CASE Applies(c, e) /\ e.how = "add"
  <2>1. e.key[1] = "network" => HasLengths(e.to)
    <3> SUFFICES ASSUME e.key[1] = "network" PROVE HasLengths(e.to)
      OBVIOUS
    <3>1. {"ip6assign", "addr"} \subseteq DOMAIN e.to
      BY <1>1, <1>4, SectionIs, OptionsAre
    <3> QED
      BY <1>2, <1>4, <3>1 DEF HasLengths
  <2> QED
    BY <1>4, <2>1, SizedWith DEF Edited
<1>5. CASE Applies(c, e) /\ e.how = "change"
  <2>1. e.key \in DOMAIN c
    BY <1>5 DEF Applies
  <2>2. IsSized(Put(c, e.key, e.to))
    BY <1>2, <1>5, <2>1, SizedPut
  <2> QED
    BY <1>5, <2>2 DEF Edited
<1>6. CASE Applies(c, e) /\ e.how = "delete"
  BY <1>6, SizedWithout DEF Edited
<1> QED
  BY <1>1, <1>3, <1>4, <1>5, <1>6

\* The panel's own sections have lengths; there are two in `network'.
LEMMA PartsSized ==
  ASSUME NEW asked, FreeSubnets(view) # {}, NEW k \in DOMAIN StagedParts(asked),
         k[1] = "network"
  PROVE  k \in {GuestDev, GuestIface} /\ HasLengths(StagedParts(asked)[k])
<1> DEFINE n == FirstFree(view)
           s == StagedParts(asked)[k]
<1>1. n \in Int
  <2>1. FreeSubnets(view) \in SUBSET Nat
    BY GuestAssumption DEF FreeSubnets
  <2>2. \E x \in FreeSubnets(view) : \A y \in FreeSubnets(view) : x <= y
    BY <2>1, LeastNumber
  <2>3. n \in FreeSubnets(view)
    BY <2>2 DEF FirstFree
  <2> QED
    BY <2>1, <2>3
<1>2. k \in PanelKeys \cup {AP(r) : r \in RadiosFor(asked)}
  BY PartsAre
<1>3. k \in {GuestDev, GuestIface}
  <2>1. \/ k = GuestDev \/ k = GuestIface \/ k = GuestDhcp \/ k = GuestZone
        \/ k = GuestWan
        \/ \E r \in RuleNames : k = RuleKey(r)
        \/ \E r \in RadiosFor(asked) : k = AP(r)
    BY <1>2 DEF PanelKeys, GuestRules
  <2>2. /\ GuestDhcp[1] = "dhcp" /\ GuestZone[1] = "firewall" /\ GuestWan[1] = "firewall"
        /\ \A r : RuleKey(r)[1] = "firewall" /\ AP(r)[1] = "wireless"
    BY KeysAre
  <2> QED
    BY <2>1, <2>2
<1>4. s = Part(k, UplinkZone(view, up), n)
  BY PartsAre
<1> HIDE DEF n, s
<1>5. CASE k = GuestDev
  <2>1. s = [kind |-> "device", name |-> guestBridge, device |-> "",
             addr |-> 0, ip6assign |-> 0, more |-> FALSE]
    BY <1>4, <1>5, DevIs
  <2>2. s.ip6assign = 0 /\ s.addr = 0
    BY ONLY <2>1
  <2> QED
    BY <1>3, <2>2 DEF HasLengths, s
<1>6. CASE k = GuestIface
  <2>1. s = [kind |-> "interface", name |-> "", device |-> guestBridge,
             addr |-> n, ip6assign |-> guestAssign, more |-> FALSE]
    BY <1>4, <1>6, IfaceIs
  <2>2. s.ip6assign = guestAssign /\ s.addr = n
    BY ONLY <2>1
  <2> QED
    BY <1>1, <1>3, <2>2 DEF HasLengths, s, guestAssign
<1> QED
  BY <1>3, <1>5, <1>6

LEMMA SizedOver ==
  ASSUME NEW c, IsSized(c), NEW asked, FreeSubnets(view) # {}
  PROVE  IsSized(Over(StagedParts(asked), c))
<1> DEFINE p == StagedParts(asked)
           w == Over(p, c)
           N == {GuestDev, GuestIface}
<1>1. IsFiniteSet(N)
  <2>1. N = {GuestDev} \cup {GuestIface}
    OBVIOUS
  <2>2. IsFiniteSet({GuestDev}) /\ IsFiniteSet({GuestIface})
    BY FS_Singleton
  <2>3. IsFiniteSet({GuestDev} \cup {GuestIface})
    BY ONLY <2>2, FS_Union
  <2> QED
    BY ONLY <2>1, <2>3, Zenon
<1>2. ASSUME NEW k \in File(w, "network")
      PROVE  \/ k \in File(c, "network") /\ w[k] = c[k]
             \/ k \in N /\ HasLengths(w[k])
  <2>1. k[1] = "network" /\ k \in DOMAIN p \cup DOMAIN c
        /\ w[k] = IF k \in DOMAIN p THEN p[k] ELSE c[k]
    BY DEF File, Over
  <2>2. CASE k \in DOMAIN p
    BY <2>1, <2>2, PartsSized
  <2>3. CASE k \notin DOMAIN p
    BY <2>1, <2>3 DEF File
  <2> QED
    BY <2>2, <2>3
<1> HIDE DEF w, N
<1>3. IsSized(w)
  BY <1>1, <1>2, SizedFrom
<1> QED
  BY <1>3 DEF w

LEMMA SizedHome ==
  ASSUME SoundInv, IsSized(view)
  PROVE  IsSized(StagedHome)
<1> DEFINE f == [ip6assign |-> guestAssign]
<1>1. LanKey \in DOMAIN view /\ Sound(view, byHand)
  BY DEF SoundInv, Sound, AreFiles
<1>2. DOMAIN f = {"ip6assign"} /\ f["ip6assign"] \in Int
  BY DEF guestAssign
<1> HIDE DEF f
<1>3. IsSized(Put(view, LanKey, f))
  BY <1>1, <1>2, SizedPut
<1> QED
  BY <1>3 DEF StagedHome, f

LEMMA SizesKept ==
  ASSUME GuestInv, SizesInv, [GuestNext]_guestVars
  PROVE  SizesInv'
<1>1. Sound(disk, byHand) /\ Sound(view, byHand) /\ SoundInv
  BY DEF GuestInv, SoundInv
<1>2. IsSized(disk) /\ IsSized(view) /\ IsSized(snap) /\ prefixes \subseteq Int
  BY DEF SizesInv
<1>3. ASSUME disk' = disk, snap' = snap, prefixes' = prefixes, IsSized(view') PROVE SizesInv'
  BY <1>2, <1>3 DEF SizesInv
<1>4. ASSUME NEW asked \in Asked, StageGuest(asked) PROVE SizesInv'
  <2> DEFINE parts == StagedParts(asked)
             home  == StagedHome
  <2>1. /\ Begins /\ FreeSubnets(view) # {}
        /\ \/ view' = Over(parts, home)
           \/ view' = view
           \/ \E c \in {With(view, k, parts[k]) : k \in DOMAIN parts} \cup ({home} \ {view}) :
                view' = c
    BY <1>4 DEF StageGuest, StagedParts, StagedHome, Accepted, TakenBack, NotTakenBack
  <2>2. IsSized(home)
    BY <1>1, <1>2, SizedHome
  <2>3. IsSized(Over(parts, home))
    BY <2>1, <2>2, SizedOver
  <2>4. ASSUME NEW k \in DOMAIN parts PROVE IsSized(With(view, k, parts[k]))
    BY <1>2, <2>1, <2>4, PartsSized, SizedWith
  <2> HIDE DEF parts, home
  <2>5. IsSized(view')
    BY <1>2, <2>1, <2>2, <2>3, <2>4
  <2> QED
    BY <1>3, <2>1, <2>5 DEF Begins
<1>5. ASSUME NEW on \in BOOLEAN, StageGuestEnabled(on) PROVE SizesInv'
  <2> DEFINE ks == Flips(view, on)
  <2>1. /\ Begins
        /\ \/ view' = Turned(view, ks, on)
           \/ view' = view
           \/ \E c \in {Turned(view, {k}, on) : k \in ks} : view' = c
    BY <1>5 DEF StageGuestEnabled, Accepted, TakenBack, NotTakenBack
  <2>2. ks \subseteq Owned(view)
    BY DEF Flips
  <2> HIDE DEF ks
  <2>3. IsSized(Turned(view, ks, on)) /\ \A k \in ks : IsSized(Turned(view, {k}, on))
    BY <1>2, <2>2, SizedTurned
  <2>4. IsSized(view')
    BY <1>2, <2>1, <2>3
  <2> QED
    BY <1>3, <2>1, <2>4 DEF Begins
<1>6. CASE StageGuestRemove
  <2>1. /\ Begins
        /\ \/ view' = Without(view, Removed(view))
           \/ view' = view
           \/ \E k \in Removed(view) : view' = Without(view, {k})
    BY <1>6 DEF StageGuestRemove, Accepted, TakenBack, NotTakenBack
  <2>2. IsSized(view')
    BY <1>2, <2>1, SizedWithout
  <2> QED
    BY <1>3, <2>1, <2>2 DEF Begins
<1>7. ASSUME NEW e \in OwnerEdits, LockedStage(e) PROVE SizesInv'
  <2>1. /\ disk' = disk /\ snap' = snap /\ prefixes' = prefixes
        /\ view' = Edited(view, e) \/ view' = WithFiles(view, disk, {e.key[1]})
    BY <1>7 DEF LockedStage
  <2>2. IsSized(Edited(view, e)) /\ IsSized(WithFiles(view, disk, {e.key[1]}))
    BY <1>1, <1>2, <1>7, SizedEdited, SizedFiles
  <2> QED
    BY <1>3, <2>1, <2>2
<1>8. ASSUME NEW e \in Edits, EditByHand(e) PROVE SizesInv'
  <2>1. /\ snap' = snap /\ prefixes' = prefixes
        /\ disk' = Edited(disk, e) /\ view' = Edited(view, e)
    BY <1>8 DEF EditByHand
  <2>2. IsSized(Edited(view, e)) /\ IsSized(Edited(disk, e))
    BY <1>1, <1>2, <1>8, SizedEdited
  <2> QED
    BY <1>2, <2>1, <2>2 DEF SizesInv
<1>9. CASE Commit \/ DiscardStaged
  BY <1>2, <1>9 DEF Commit, DiscardStaged, Settled, SizesInv
<1>10. CASE RestoreNetwork
  <2> DEFINE back == WithFiles(disk, snap, {"network", "dhcp", "firewall"})
  <2>1. /\ disk' = back /\ view' = back /\ prefixes' = prefixes
        /\ snap' = disk \/ snap' = snap
    BY <1>10 DEF RestoreNetwork
  <2>2. IsSized(back)
    BY <1>2, SizedFiles
  <2> HIDE DEF back
  <2> QED
    BY <1>2, <2>1, <2>2 DEF SizesInv
<1>11. ASSUME NEW u \in Uplinks, UplinkMoves(u) PROVE SizesInv'
  BY <1>2, <1>11 DEF UplinkMoves, SizesInv
<1>12. CASE UNCHANGED guestVars
  BY <1>2, <1>12 DEF guestVars, SizesInv
<1> QED
  BY <1>4, <1>5, <1>6, <1>7, <1>8, <1>9, <1>10, <1>11, <1>12 DEF GuestNext

\* PromiseFits: guestIPv6 adds up sizes and never looks at alignment, and yet
\* where it says that guests get IPv6 a prefix can be cut up for every network
\* that asks for a part, the home network (renumbered or not) and a guest /64,
\* whatever lengths are asked for and delegated.
THEOREM PromiseFits == GuestSpec => []PromisedPrefixFits
<1>1. GuestInit => SizesInv
  <2> SUFFICES ASSUME GuestInit PROVE SizesInv
    OBVIOUS
  <2>1. PICK s \in Starts : disk = s.files /\ prefixes = s.prefixes
    BY DEF GuestInit
  <2>2. view = disk /\ snap = disk
    BY DEF GuestInit
  <2>3. IsSized(disk)
    BY <2>1, SizesAssumption
  <2>4. prefixes \subseteq Int
    BY <2>1, GuestAssumption
  <2> QED
    BY <2>2, <2>3, <2>4 DEF SizesInv
<1>2. GuestInv /\ SizesInv /\ [GuestNext]_guestVars => SizesInv'
  BY SizesKept
<1>3. GuestInv /\ SizesInv => PromisedPrefixFits
  <2> SUFFICES ASSUME GuestInv, SizesInv PROVE PromisedPrefixFits
    OBVIOUS
  <2>1. IsSized(view) /\ LanKey \in DOMAIN view /\ prefixes \subseteq Int
    BY DEF GuestInv, SoundInv, Sound, AreFiles, SizesInv
  <2> QED
    BY <2>1, SizedPrefixFits
<1> QED
  BY <1>1, <1>2, <1>3, GuestInductive, PTL DEF GuestSpec

=============================================================================
