---------------------------- MODULE GuestNetwork ----------------------------
(***************************************************************************)
(* The panel's guest network (openwrt/wifi_guest.go): making, turning off  *)
(* and on, and removing a dozen sections in four files; the card that says *)
(* whether guests are kept from the home network; and the locks that keep  *)
(* other edits from tearing its draft apart (api/server.go, api/wifi.go).  *)
(*                                                                         *)
(* The four files are one function from a section's key to the section.    *)
(* Somebody with LuCI, or the owner on the firewall screen, may change any *)
(* of them; the card must not promise what no longer holds.                *)
(***************************************************************************)
EXTENDS Integers, FiniteSets

CONSTANTS
  Radios,      \* the radios, named sections of `wireless'
  Band,        \* the band of each
  Subnets,     \* the private /24s, in the order they are tried
  LiveNets,    \* the ones an interface or a route of the router is on
  Starts,      \* what a run starts from: the files, and the lengths of the
               \* delegated IPv6 prefixes
  Asked,       \* bound: the radios asked for, {} for every one
  Uplinks,     \* bound: the interfaces with the default route over time
  Edits,       \* bound: what is changed by hand
  OwnerEdits,  \* bound: what the owner stages on other screens
  MaxHand,     \* bound: changes by hand
  MaxSteps,    \* bound: stagings, restores, other uplinks
  MaxFaults    \* bound: commands that fail

ASSUME GuestAssumption ==
  /\ MaxHand \in Nat /\ MaxSteps \in Nat /\ MaxFaults \in Nat
  /\ Band \in [Radios -> {"2.4", "5", "6"}] /\ Asked \subseteq SUBSET Radios
  /\ Subnets \subseteq Nat \ {0} /\ LiveNets \subseteq Subnets
  /\ \A s \in Starts : s.prefixes \subseteq 1 .. 64

VARIABLES
  disk,      \* the committed files
  view,      \* the same with the draft on top
  snap,      \* the newest restore point: the files before a commit or a restore
  up,        \* the interface with the default route, "" for none
  prefixes,  \* what the uplink was delegated
  said,      \* the rows the last staging answered with
  steps, hand, faults,
  byHand,    \* history: sections somebody else made, changed or took away
  waits,     \* history: the guest edit that waits in the draft
  torn       \* history: taking a failed guest edit back failed too, or one
             \* that waits was changed by hand

bounds    == <<steps, hand, faults>>
guestVars == <<disk, view, snap, up, prefixes, said, bounds, byHand, waits, torn>>

-----------------------------------------------------------------------------
(* Sections.  A key is file, prefix and name: "guest_" with a radio is the  *)
(* panel's access point, "guest" with nothing the panel's own section.      *)

Net(kind) == [kind |-> kind, name |-> "", device |-> "", addr |-> 0,
              ip6assign |-> 0, more |-> FALSE]
Fw(kind) == [kind |-> kind, name |-> "", src |-> "", dest |-> "", what |-> "",
             target |-> "", enabled |-> "", more |-> FALSE, network |-> {},
             device |-> {}, subnet |-> {}, input |-> "", forward |-> "",
             masq |-> "", reflection |-> {}]
Wl(kind) == [kind |-> kind, network |-> {}, device |-> "", channel |-> "",
             disabled |-> "", isolate |-> "", bridge_isolate |-> ""]
Dhcp(kind) == [kind |-> kind, only |-> {}, skip |-> {}]

guestSection == "guest"
guestPrefix  == "guest_"
guestBridge  == "br-guest"
guestAssign  == 64

GuestDev   == <<"network", guestPrefix, "dev">>
GuestIface == <<"network", guestSection, "">>
GuestDhcp  == <<"dhcp", guestSection, "">>
GuestZone  == <<"firewall", guestSection, "">>
GuestWan   == <<"firewall", guestPrefix, "wan">>
LanKey     == <<"network", "", "lan">>
AP(r)      == <<"wireless", guestPrefix, r>>
RuleKey(r) == <<"firewall", guestPrefix, r>>

File(c, f)     == {k \in DOMAIN c : k[1] = f}
Kind(c, f, kd) == {k \in File(c, f) : c[k].kind = kd}
Has(c, k, kd)  == k \in DOMAIN c /\ c[k].kind = kd
Without(c, ks) == [k \in DOMAIN c \ ks |-> c[k]]
Put(c, k, f) ==
  [c EXCEPT ![k] = [x \in DOMAIN @ |-> IF x \in DOMAIN f THEN f[x] ELSE @[x]]]
With(c, k, s) == [x \in DOMAIN c \cup {k} |-> IF x = k THEN s ELSE c[x]]
\* The sections of d, and of c the others.
Over(d, c) ==
  [k \in DOMAIN d \cup DOMAIN c |-> IF k \in DOMAIN d THEN d[k] ELSE c[k]]
\* The files in fs as they are in d, the others as in c.
WithFiles(c, d, fs) ==
  [k \in {x \in DOMAIN c : x[1] \notin fs} \cup {x \in DOMAIN d : x[1] \in fs} |->
     IF k[1] \in fs THEN d[k] ELSE c[k]]

\* Every option of the file is there, the ones not written as "" or {}.  A zone
\* has a name, and not the one that stands for every zone in a rule.
Options == [network |-> DOMAIN Net(""), firewall |-> DOMAIN Fw(""),
            wireless |-> DOMAIN Wl(""), dhcp |-> DOMAIN Dhcp("")]

IsSection(k, s) ==
  /\ k[1] \in DOMAIN Options /\ s = [o \in Options[k[1]] |-> s[o]]
  /\ s.kind = "zone" => k[1] = "firewall" /\ s.name \notin {"", "*"}

AreFiles(c) ==
  /\ c = [k \in DOMAIN c |-> c[k]] /\ LanKey \in DOMAIN c
  /\ \A k \in DOMAIN c : IsSection(k, c[k])

ASSUME FilesAssumption ==
  /\ \A s \in Starts : AreFiles(s.files)
  /\ \A e \in Edits \cup OwnerEdits :
       /\ e.how \in {"add", "change", "delete"}
       /\ e.how = "add" => IsSection(e.key, e.to)
       /\ e.how = "change" => /\ "kind" \notin DOMAIN e.to
                              /\ "name" \in DOMAIN e.to => e.to.name \notin {"", "*"}
       /\ e.how = "delete" => e.key # LanKey

\* The lengths in `network' (ip6assign, and the addr of globals) are numbers: a
\* text that is none reads as 0.  And its sections can be counted.
IsSized(c) ==
  /\ IsFiniteSet(File(c, "network"))
  /\ \A k \in File(c, "network") : c[k].ip6assign \in Int /\ c[k].addr \in Int

ASSUME SizesAssumption ==
  /\ \A s \in Starts : IsSized(s.files)
  /\ \A e \in Edits \cup OwnerEdits :
       (e.key[1] = "network" /\ e.how # "delete") =>
         \A o \in {"ip6assign", "addr"} \cap DOMAIN e.to : e.to[o] \in Int

IsGuestSection(k) == k[2] \in {guestSection, guestPrefix}

\* guestRuleSpecs: `what' stands for protocol, ports, types and addresses.
Services == {"dhcp", "dns", "icmpv6", "dhcpv6"}
RuleNames == Services \cup {"no_private4", "no_private6"}

RuleSpec(r, wan) ==
  IF r \in Services
    THEN [Fw("rule") EXCEPT !.src = guestSection, !.what = r, !.target = "ACCEPT"]
    ELSE [Fw("rule") EXCEPT !.src = guestSection, !.dest = wan, !.what = r,
                            !.target = "REJECT"]

GuestRules == {GuestWan} \cup {RuleKey(r) : r \in RuleNames}
PanelKeys  == {GuestDev, GuestIface, GuestDhcp, GuestZone} \cup GuestRules

\* A rule that reads as the panel wrote it, and nothing more.
RuleMatches(s, spec) ==
  s.enabled \in {"", "1"} /\ [s EXCEPT !.enabled = "", !.name = ""] = spec

-----------------------------------------------------------------------------
(* Reading: is there a guest network, and is it the panel's?                *)

OnGuest(s) == guestSection \in s.network
OtherOnGuestBridge(c) ==
  {k \in Kind(c, "network", "interface") :
     k # GuestIface /\ c[k].device = guestBridge}

PanelAPs(c) == {k \in File(c, "wireless") : k[2] = guestPrefix}
NamedGuest(c) == {k \in Kind(c, "firewall", "zone") : c[k].name = guestSection}
FirewallOfGuests(c) ==
  (DOMAIN c \cap ({GuestZone} \cup GuestRules)) \cup NamedGuest(c)

\* What an emergency restore leaves: only the panel's access points.
Orphans(c) ==
  /\ {GuestDev, GuestIface} \cap DOMAIN c = {}
  /\ PanelAPs(c) # {}
  /\ \A k \in PanelAPs(c) : c[k].kind = "wifi-iface" /\ c[k].network = {guestSection}
  /\ FirewallOfGuests(c) = {}
  /\ GuestDhcp \notin DOMAIN c

Ours(c) ==
  \/ /\ Has(c, GuestDev, "device") /\ c[GuestDev].name = guestBridge
     /\ Has(c, GuestIface, "interface") /\ c[GuestIface].device = guestBridge
  \/ Orphans(c)

\* Whatever looks like a guest network.
Traces(c) ==
  (DOMAIN c \cap {GuestDev, GuestIface, GuestDhcp})
  \cup FirewallOfGuests(c)
  \cup PanelAPs(c)
  \cup {k \in Kind(c, "wireless", "wifi-iface") : OnGuest(c[k])}
  \cup {k \in Kind(c, "network", "device") : c[k].name = guestBridge}
  \cup OtherOnGuestBridge(c)

Foreign(c) == ~Ours(c) /\ Traces(c) # {}

\* readGuestShape: owned is wherever it is attached now, attached what is on
\* the guest network, stray what others put there.
Owned(c) ==
  IF Ours(c) THEN {k \in PanelAPs(c) : c[k].kind = "wifi-iface"} ELSE {}
Attached(c) == {k \in Owned(c) : c[k].network = {guestSection}}
Stray(c) ==
  {k \in Kind(c, "wireless", "wifi-iface") :
     Ours(c) /\ k[2] # guestPrefix /\ OnGuest(c[k])}

\* Mutant: the address handout is left behind.
RemovedWithoutDhcp(c) ==
  Owned(c) \cup (DOMAIN c \cap (PanelKeys \ {GuestDhcp}))

\* What is there of the panel's guest network.
Removed(c) ==
  Owned(c) \cup (DOMAIN c \cap PanelKeys)

IsOn(c, k) == c[k].disabled # "1"

\* guestWords: the state and the bands; <<>> for no guest network.
GuestWords(c) ==
  IF ~Ours(c) THEN <<>>
  ELSE << IF \E k \in Attached(c) : IsOn(c, k) THEN "on" ELSE "off",
          {Band[c[k].device] : k \in Attached(c)} >>

-----------------------------------------------------------------------------
(* What stands in the way of keeping guests apart.                          *)

ZonesHolding(c, net) == {k \in Kind(c, "firewall", "zone") : net \in c[k].network}

\* "" when there is nothing to forward guests to.
UplinkZone(c, u) ==
  IF u # "" THEN IF ZonesHolding(c, u) = {} THEN ""
                 ELSE c[CHOOSE k \in ZonesHolding(c, u) : TRUE].name
  ELSE IF \E k \in Kind(c, "firewall", "zone") : c[k].name = "wan" THEN "wan"
  ELSE ""

ZoneHoldsHome(z) == "lan" \in z.network \/ "br-lan" \in z.device

OpenTo(s) == s.kind = "rule" /\ s.target \in {"", "ACCEPT"}

\* From every zone: fw4 puts these before the zones' own rules.
OpenToAll(c) ==
  {k \in File(c, "firewall") :
     /\ c[k].src = "*" /\ c[k].enabled # "0"
     /\ OpenTo(c[k]) \/ c[k].kind \in {"forwarding", "redirect"}}

DhcpSkipsGuests(c) ==
  \E k \in Kind(c, "dhcp", "dnsmasq") :
    \/ c[k].only # {} /\ c[k].only \cap {guestSection, guestBridge} = {}
    \/ c[k].skip \cap {guestSection, guestBridge} # {}

\* guestOpenings: enabled sections that let the guests' zone somewhere else.
GuestOpenings(c, wan, ours) ==
  {k \in File(c, "firewall") :
     /\ c[k].enabled # "0"
     /\ \/ /\ k \notin ours /\ c[k].src = guestSection
           /\ \/ OpenTo(c[k])
              \/ c[k].kind = "redirect"
              \/ c[k].kind = "forwarding" /\ c[k].dest # wan
        \/ /\ c[k].kind = "redirect"
           /\ guestSection \in c[k].reflection \/ c[k].dest = guestSection}

ZoneTakingGuests(c) ==
  {k \in Kind(c, "firewall", "zone") \ {GuestZone} :
     guestSection \in c[k].network \/ guestBridge \in c[k].device}

\* Mutant: the rules of the recipe are looked for, not read.
WeakenedByName(c, u) ==
  LET wan == UplinkZone(c, u)
      ours == {RuleKey(r) : r \in RuleNames}
  IN  \/ ~Has(c, GuestZone, "zone")
      \/ LET z == c[GuestZone] IN
           \/ {z.input, z.forward} \cap {"REJECT", "DROP"} # {z.input, z.forward}
           \/ z.network # {guestSection}
      \/ ~ours \subseteq DOMAIN c
      \/ GuestOpenings(c, wan, ours) # {}

\* guestWeakened: a protection that is not as the panel made it.
Weakened(c, u) ==
  LET wan  == UplinkZone(c, u)
      ours == {RuleKey(r) : r \in RuleNames}
  IN  \/ ~Has(c, GuestZone, "zone")
      \/ LET z == c[GuestZone] IN
           \/ {z.input, z.forward} \cap {"REJECT", "DROP"} # {z.input, z.forward}
           \/ z.name # guestSection \/ z.network # {guestSection}
           \/ z.more \/ z.device # {} \/ z.subnet # {}
      \/ GuestDev \in DOMAIN c /\ c[GuestDev].more
      \/ OtherOnGuestBridge(c) # {}
      \/ /\ GuestIface \in DOMAIN c
         /\ \E k \in Kind(c, "firewall", "zone") \ {GuestZone} :
              c[GuestIface].addr \in c[k].subnet
      \/ ~Has(c, GuestWan, "forwarding")
      \/ c[GuestWan].src # guestSection \/ c[GuestWan].enabled = "0"
      \/ c[GuestWan].dest # wan
      \/ ZoneTakingGuests(c) # {}
      \/ \E r \in RuleNames :
           \/ RuleKey(r) \notin DOMAIN c
           \/ ~RuleMatches(c[RuleKey(r)], RuleSpec(r, wan))
      \/ GuestOpenings(c, wan, ours) # {}
      \/ Owned(c) # Attached(c)
      \/ Stray(c) # {}
      \/ \E k \in Attached(c) : c[k].isolate # "1" \/ c[k].bridge_isolate # "1"

\* guestBlocker: the reasons, of which the code names the first.
Blockers(c, u) ==
  LET wan == UplinkZone(c, u)
      zones == {k \in Kind(c, "firewall", "zone") : c[k].name = wan}
      reason(why, cond) == IF cond THEN {why} ELSE {}
  IN  reason("no uplink", wan = "")
      \cup reason("shared zone", \E k \in zones : ZoneHoldsHome(c[k]))
      \cup reason("no nat", \E k \in zones : c[k].masq # "1")
      \cup reason("open rule", OpenToAll(c) # {})
      \cup reason("no dhcp", DhcpSkipsGuests(c))
      \cup reason("weakened", Ours(c) /\ Weakened(c, u))
      \cup reason("guest rule", /\ ~Ours(c)
                                /\ GuestOpenings(c, wan, {}) # {}
                                   \/ ZoneTakingGuests(c) # {})

\* guestStatus and Status: the warning is what is live first; the draft may
\* add its own.
CardState(c) ==
  LET shown == IF Attached(c) # {} THEN Attached(c) ELSE Owned(c)
  IN  IF Ours(c) THEN IF \E k \in shown : IsOn(c, k) THEN "on" ELSE "off"
      ELSE IF Foreign(c) THEN "foreign" ELSE "none"

CardBlocked == Blockers(disk, up) \cup Blockers(view, up)

-----------------------------------------------------------------------------
(* Addresses for guests.                                                    *)

\* freeGuestSubnet: the first that nothing the router has overlaps.
FreeSubnets(c) ==
  Subnets \ (LiveNets
             \cup {c[k].addr : k \in Kind(c, "network", "interface")}
             \cup UNION {c[k].subnet : k \in Kind(c, "firewall", "zone")})

FirstFree(c) ==
  CHOOSE n \in FreeSubnets(c) : \A x \in FreeSubnets(c) : n <= x

\* How many /64s a prefix of this length holds.
Capacity(mask) ==
  IF mask <= 0 \/ mask > guestAssign THEN 0
  ELSE 2 ^ (guestAssign - (IF mask < guestAssign - 16 THEN guestAssign - 16
                           ELSE mask))

\* The other networks that take a part of the same prefixes.
OtherNetworks(c) ==
  {k \in Kind(c, "network", "interface") \ {LanKey, GuestIface} :
     c[k].ip6assign > 0}

TakenByOthers(c) ==
  LET ks    == OtherNetworks(c)
      takes == [k \in ks |-> Capacity(c[k].ip6assign)]
      sum[s \in SUBSET ks] ==
        IF s = {} THEN 0
        ELSE LET k == CHOOSE x \in s : TRUE
             IN  takes[k] + sum[s \ {k}]
  IN  sum[ks]

\* Mutant: a prefix that is exactly used up still has room.
HasRoomAtLast(mask, used) == Capacity(mask) >= used
HasRoom(mask, used) == Capacity(mask) > used

\* guestIPv6: whether guests get IPv6, and whether the home network is
\* renumbered for it.  The `addr' of globals is the length of the local (ULA)
\* prefix, 0 for none.
GuestIPv6(c, ps) ==
  LET assign   == c[LanKey].ip6assign
      home     == Capacity(assign)
      others   == TakenByOthers(c)
      renumber == /\ assign > 0 /\ assign < guestAssign
                  /\ \A p \in ps : ~HasRoom(p, home + others)
      used     == (IF renumber THEN 1 ELSE home) + others
      globals  == {c[k].addr : k \in Kind(c, "network", "globals")}
      ipv6     == \E p \in ps \cup globals : HasRoom(p, used)
  IN  [ipv6 |-> ipv6, renumber |-> ipv6 /\ renumber]

-----------------------------------------------------------------------------
(* The rows of the apply bar.                                               *)

Row(key, option, from, to) ==
  [key |-> key, option |-> option, from |-> from, to |-> to]

GuestRow(was, will) == Row(GuestIface, "guest", was, will)

\* The lines of `uci changes' that change something: a section that comes or
\* goes, and the options of one that stays.
ChangedLines(b, a) ==
  {<<k, "">> : k \in (DOMAIN b \ DOMAIN a) \cup (DOMAIN a \ DOMAIN b)}
  \cup UNION {{<<k, o>> : o \in {x \in DOMAIN b[k] : b[k][x] # a[k][x]}}
              : k \in {x \in DOMAIN b \cap DOMAIN a : b[x] # a[x]}}

\* Mutant: turning the network off or on is shown point by point.
FoldsSections(b, a, l) ==
  /\ GuestWords(b) # GuestWords(a)
  /\ <<>> \in {GuestWords(b), GuestWords(a)}
  /\ (l[1] \in DOMAIN b) # (l[1] \in DOMAIN a)

\* guestDraft.folds: the network appearing, going away, or turned on or off.
Folds(b, a, l) ==
  LET was == GuestWords(b) will == GuestWords(a)
  IN  /\ was # will
      /\ \/ <<>> \in {was, will} /\ (l[1] \in DOMAIN b) # (l[1] \in DOMAIN a)
         \/ l[1][1] = "wireless" /\ l[1][2] = guestPrefix /\ l[2] = "disabled"

\* StagedChanges, of a draft that makes a of b.
Rows(b, a) ==
  LET lines  == ChangedLines(b, a)
      folded == {l \in lines : /\ IsGuestSection(l[1])
                               /\ Ours(b) \/ Ours(a)
                               /\ Folds(b, a, l)}
      row(l) == IF l[2] = "" THEN Row(l[1], "", <<>>, <<>>)
                ELSE Row(l[1], l[2], b[l[1]][l[2]], a[l[1]][l[2]])
  IN  {row(l) : l \in lines \ folded}
      \cup (IF folded = {} THEN {} ELSE {GuestRow(GuestWords(b), GuestWords(a))})

\* Mutant: nobody looks for the guest network in the draft.
NeverPending(rows) == FALSE
GuestDraftPending(rows) == \E r \in rows : r.option = "guest"

-----------------------------------------------------------------------------
(* Staging.                                                                 *)

NoWait == [made |-> {}, gone |-> {}]

GuestInit ==
  /\ \E s \in Starts : disk = s.files /\ prefixes = s.prefixes
  /\ view = disk /\ snap = disk /\ up = "wan"
  /\ said = {} /\ steps = 0 /\ hand = 0 /\ faults = 0
  /\ byHand = Traces(disk) \ Removed(disk)
  /\ waits = NoWait /\ torn = FALSE

\* stageGuest: only on an empty draft.
Begins ==
  /\ Rows(disk, view) = {}
  /\ steps < MaxSteps
  /\ steps' = steps + 1
  /\ UNCHANGED <<disk, snap, up, prefixes, hand, byHand>>

\* The edit is in the draft.
Accepted(c, rows, made, gone) ==
  /\ view' = c /\ said' = rows
  /\ waits' = [made |-> made, gone |-> gone]
  /\ UNCHANGED <<faults, torn>>

\* A command fails; discard takes every section the edit touched back under a
\* context of its own.
TakenBack ==
  /\ faults < MaxFaults /\ faults' = faults + 1
  /\ said' = {} /\ UNCHANGED <<view, waits, torn>>

\* And a command of discard fails: its section stays as the edit left it.
NotTakenBack(cuts) ==
  /\ faults + 1 < MaxFaults /\ faults' = faults + 2
  /\ \E c \in cuts : view' = c
  /\ said' = {} /\ torn' = TRUE /\ UNCHANGED waits

\* What a guest network is made of, in four files.
Part(k, wan, subnet) ==
  CASE k = GuestDev   -> [Net("device") EXCEPT !.name = guestBridge]
    [] k = GuestIface -> [Net("interface") EXCEPT !.device = guestBridge,
                            !.addr = subnet, !.ip6assign = guestAssign]
    [] k = GuestDhcp  -> Dhcp("dhcp")
    [] k = GuestZone  -> [Fw("zone") EXCEPT !.name = guestSection,
                            !.network = {guestSection}, !.input = "REJECT",
                            !.forward = "REJECT"]
    [] k = GuestWan   -> [Fw("forwarding") EXCEPT !.src = guestSection, !.dest = wan]
    [] k[1] = "wireless" ->
         [Wl("wifi-iface") EXCEPT !.device = k[3], !.network = {guestSection},
                                  !.isolate = "1", !.bridge_isolate = "1"]
    [] OTHER -> RuleSpec(k[3], wan)

Recipe(radios, wan, subnet) ==
  [k \in PanelKeys \cup {AP(r) : r \in radios} |-> Part(k, wan, subnet)]

\* Every radio but 6 GHz when none are given.
RadiosFor(asked) ==
  IF asked = {} THEN {r \in Radios : Band[r] # "6"} ELSE asked

StageGuest(asked) ==
  LET radios   == RadiosFor(asked)
      wan      == UplinkZone(view, up)
      renumber == GuestIPv6(view, prefixes).renumber
      parts    == Recipe(radios, wan, FirstFree(view))
      old      == view[LanKey].ip6assign
      home     == IF renumber THEN Put(view, LanKey, [ip6assign |-> guestAssign])
                  ELSE view
  IN  /\ Begins
      /\ ~Ours(view) /\ ~Foreign(view)
      /\ radios # {} /\ \A r \in radios : Band[r] # "6"
      /\ Blockers(view, up) = {}
      /\ FreeSubnets(view) # {}
      /\ \/ Accepted(Over(parts, home),
                     {GuestRow(<<>>, <<"on", {Band[r] : r \in radios}>>)}
                     \cup (IF renumber THEN {Row(LanKey, "ip6assign", old, guestAssign)}
                           ELSE {}),
                     DOMAIN parts, {})
         \/ TakenBack
         \/ NotTakenBack({With(view, k, parts[k]) : k \in DOMAIN parts}
                         \cup ({home} \ {view}))

\* Off is every access point of the panel's, on only those still on the guest
\* network.
Flips(c, on) ==
  {k \in Owned(c) : IF on THEN ~IsOn(c, k) /\ k \in Attached(c) ELSE IsOn(c, k)}

Turned(c, ks, on) ==
  [k \in DOMAIN c |-> IF k \in ks
                        THEN [c[k] EXCEPT !.disabled = IF on THEN "" ELSE "1"]
                        ELSE c[k]]

StageGuestEnabled(on) ==
  LET ks     == Flips(view, on)
      after  == Turned(view, ks, on)
      before == GuestWords(view)
      to     == GuestWords(after)
      flip(k) == Row(k, "disabled", view[k].disabled, after[k].disabled)
  IN  /\ Begins
      /\ Owned(view) # {}
      /\ \/ Accepted(after, IF to # before THEN {GuestRow(before, to)}
                            ELSE {flip(k) : k \in ks}, {}, {})
         \/ ks # {} /\ TakenBack
         \/ ks # {} /\ NotTakenBack({Turned(view, {k}, on) : k \in ks})

StageGuestRemove ==
  LET keys == Removed(view)
  IN  /\ Begins
      /\ Ours(view)
      /\ \/ Accepted(Without(view, keys), {GuestRow(GuestWords(view), <<>>)}, {}, keys)
         \/ TakenBack
         \/ NotTakenBack({Without(view, {k}) : k \in keys})

-----------------------------------------------------------------------------
(* Everybody else.                                                          *)

\* An edit: a section added, an option of one changed, or one taken away.
Applies(c, e) == (e.how = "add") # (e.key \in DOMAIN c)
Edited(c, e) ==
  IF ~Applies(c, e) THEN c
  ELSE CASE e.how = "add"    -> With(c, e.key, e.to)
         [] e.how = "change" -> Put(c, e.key, e.to)
         [] e.how = "delete" -> Without(c, {e.key})

\* lockedStage: another screen's edit; when it fails it takes the draft of its
\* whole file with it.
LockedStage(e) ==
  /\ steps < MaxSteps /\ steps' = steps + 1
  /\ ~GuestDraftPending(Rows(disk, view))
  /\ Applies(view, e)
  /\ said' = {}
  /\ \/ /\ view' = Edited(view, e)
        /\ UNCHANGED faults
     \/ /\ faults < MaxFaults /\ faults' = faults + 1
        /\ view' = WithFiles(view, disk, {e.key[1]})
  /\ byHand' = byHand \cup {e.key}
  /\ UNCHANGED <<disk, snap, up, prefixes, hand, waits, torn>>

\* LuCI or a shell: on disk at once, and under the draft.  Two hands do not
\* write one option at a time.
EditByHand(e) ==
  /\ hand < MaxHand /\ hand' = hand + 1
  /\ Applies(disk, e)
  /\ e.how = "add" => e.key \notin DOMAIN view
  /\ disk' = Edited(disk, e) /\ view' = Edited(view, e)
  /\ byHand' = byHand \cup {e.key}
  /\ torn' = \/ torn
             \/ waits # NoWait /\ (IsGuestSection(e.key) \/ Ours(disk') # Ours(disk))
  /\ UNCHANGED <<snap, up, prefixes, said, steps, faults, waits>>

Settled ==
  /\ said' = {} /\ waits' = NoWait /\ torn' = FALSE
  /\ UNCHANGED <<up, prefixes, bounds, byHand>>

Commit ==
  /\ view # disk
  /\ disk' = view /\ snap' = disk
  /\ UNCHANGED view /\ Settled

DiscardStaged ==
  /\ view # disk
  /\ view' = disk
  /\ UNCHANGED <<disk, snap>> /\ Settled

\* The emergency restore keeps what it replaces, if it can, and puts network,
\* dhcp and firewall back, not wireless.
RestoreNetwork ==
  LET back == WithFiles(disk, snap, {"network", "dhcp", "firewall"})
  IN  /\ steps < MaxSteps /\ steps' = steps + 1
      /\ back # disk
      /\ disk' = back /\ view' = back /\ snap' \in {disk, snap}
      /\ said' = {} /\ waits' = NoWait /\ torn' = FALSE
      /\ UNCHANGED <<up, prefixes, hand, faults, byHand>>

\* Another connection takes over.
UplinkMoves(u) ==
  /\ steps < MaxSteps /\ steps' = steps + 1
  /\ u # up /\ up' = u
  /\ UNCHANGED <<disk, view, snap, prefixes, said, hand, faults, byHand,
                 waits, torn>>

GuestNext ==
  \/ \E asked \in Asked : StageGuest(asked)
  \/ \E on \in BOOLEAN : StageGuestEnabled(on)
  \/ StageGuestRemove
  \/ \E e \in OwnerEdits : LockedStage(e)
  \/ \E e \in Edits : EditByHand(e)
  \/ Commit
  \/ DiscardStaged
  \/ RestoreNetwork
  \/ \E u \in Uplinks : UplinkMoves(u)

GuestSpec == GuestInit /\ [][GuestNext]_guestVars

-----------------------------------------------------------------------------
(* Properties.                                                              *)

\* What fw4 makes of the committed files for a packet that comes in from the
\* guests' bridge: the zones it may be taken into, and what they let it reach.
ZonesOfGuests(c) ==
  {k \in Kind(c, "firewall", "zone") :
     \/ guestSection \in c[k].network
     \/ guestBridge \in c[k].device
     \/ \E i \in OtherOnGuestBridge(c) : i[3] \in c[k].network
     \/ GuestIface \in DOMAIN c /\ c[GuestIface].addr \in c[k].subnet}

FromGuests(c, s) ==
  s.enabled # "0" /\ s.src \in {"*"} \cup {c[k].name : k \in ZonesOfGuests(c)}

LeadsHome(c, name) ==
  name = "*" \/ \E k \in Kind(c, "firewall", "zone") :
                  c[k].name = name /\ ZoneHoldsHome(c[k])

Reaches(c, what) ==
  CASE what = "router" ->
         \/ \E k \in ZonesOfGuests(c) : c[k].input = "ACCEPT"
         \/ \E k \in Kind(c, "firewall", "rule") :
              /\ FromGuests(c, c[k]) /\ OpenTo(c[k]) /\ c[k].dest = ""
              /\ \A r \in Services : ~RuleMatches(c[k], RuleSpec(r, ""))
    [] what = "home" ->
         \/ \E k \in ZonesOfGuests(c) : ZoneHoldsHome(c[k])
         \/ \E k \in File(c, "firewall") :
              /\ c[k].enabled # "0"
              /\ \/ /\ FromGuests(c, c[k]) /\ LeadsHome(c, c[k].dest)
                    /\ c[k].kind \in {"forwarding", "redirect"} \/ OpenTo(c[k])
                 \/ c[k].kind = "redirect" /\ guestSection \in c[k].reflection
    [] what = "upstream" ->
         \E r \in {"no_private4", "no_private6"} :
           ~\E k \in Kind(c, "firewall", "rule") :
              RuleMatches(c[k], RuleSpec(r, UplinkZone(c, up)))
    [] what = "peers" ->
         \/ GuestDev \in DOMAIN c /\ c[GuestDev].more
         \/ \E k \in Kind(c, "wireless", "wifi-iface") :
              /\ OnGuest(c[k]) /\ IsOn(c, k)
              /\ c[k].isolate # "1" \/ c[k].bridge_isolate # "1"
    [] what = "home by air" ->
         \E k \in Owned(c) : IsOn(c, k) /\ "lan" \in c[k].network

\* Guests get an address and the internet.
Served(c) ==
  /\ UplinkZone(c, up) # ""
  /\ \E k \in Kind(c, "firewall", "forwarding") :
       FromGuests(c, c[k]) /\ c[k].dest = UplinkZone(c, up)
  /\ \A k \in Kind(c, "firewall", "zone") :
       c[k].name = UplinkZone(c, up) => c[k].masq = "1"
  /\ \A r \in {"dhcp", "dns"} : \E k \in Kind(c, "firewall", "rule") :
       RuleMatches(c[k], RuleSpec(r, ""))
  /\ ~DhcpSkipsGuests(c)

\* A card that shows a guest network on the air and no warning keeps its
\* promise: guests have the internet, and reach neither the panel, nor the
\* home network, nor private addresses above the router, nor each other
\* (guestBlocker and guestWeakened, wifi_guest.go, against what fw4 does with
\* the files).
UnwarnedKeepsPromise ==
  (Ours(disk) /\ CardState(disk) = "on" /\ CardBlocked = {})
    => /\ Served(disk)
       /\ \A what \in {"router", "home", "upstream", "peers", "home by air"} :
            ~Reaches(disk, what)

\* A guest network that waits in the draft waits whole: no other edit, failing
\* or not, takes a part of it away, and a failed edit leaves nothing of itself
\* (lockedStage and stageGuest, against StageGuest's touched sections).
GuestWaitsWhole ==
  ~torn => /\ waits.made \subseteq DOMAIN view
           /\ waits.gone \cap DOMAIN view = {}
           /\ \A k \in (DOMAIN view \ DOMAIN disk) \ byHand : k \in waits.made
           /\ \A k \in (DOMAIN disk \ DOMAIN view) \ byHand : k \in waits.gone

\* What a guest edit answers with is what the apply bar shows after a reload
\* (the rows of StageGuest, StageGuestEnabled and StageGuestRemove, against
\* StagedChanges with guestDraft.folds).
GuestRowsAfterReload ==
  [][said' # {} /\ said' # said => said' = Rows(disk', view')]_guestVars

\* After the panel removed its guest network it can make one again, unless
\* somebody else's section is in the way (StageGuestRemove, against what
\* readGuestShape calls foreign).
RemovedForGood ==
  [][(waits' # waits /\ waits'.gone # {}) =>
       /\ ~Ours(view')
       /\ Traces(view') \subseteq byHand]_guestVars

\* The places that an assignment of length a has in a prefix of length p.  One
\* that takes nothing is anywhere.
Places(p, a) ==
  IF Capacity(a) = 0 THEN {{}}
  ELSE {n * Capacity(a) .. (n + 1) * Capacity(a) - 1
          : n \in 0 .. (Capacity(p) \div Capacity(a)) - 1}

\* The prefix can be cut up for the other networks, the home one and a guest one.
CutsUp(c, p, home) ==
  LET others == OtherNetworks(c)
  IN  \E place \in [others -> UNION {Places(p, c[k].ip6assign) : k \in others}] :
        /\ \A k \in others : place[k] \in Places(p, c[k].ip6assign)
        /\ \A j, k \in others : j # k => place[j] \cap place[k] = {}
        /\ \E h \in Places(p, home), g \in Places(p, guestAssign) :
             /\ h \cap g = {}
             /\ \A k \in others : place[k] \cap (h \cup g) = {}

\* Where the card says guests get IPv6, some prefix can be cut up into aligned
\* parts that do not overlap, one for every network that asks for one and a /64
\* for guests (guestIPv6, which only adds up sizes).
PromisedPrefixFits ==
  LET want    == GuestIPv6(view, prefixes)
      globals == {view[k].addr : k \in Kind(view, "network", "globals")}
      home    == IF want.renumber THEN guestAssign ELSE view[LanKey].ip6assign
  IN  want.ipv6 => \E p \in prefixes \cup globals : CutsUp(view, p, home)
=============================================================================
