---------------------------- MODULE NetworkDraft ----------------------------
(***************************************************************************)
(* The draft of `network' and `dhcp': the uplink (StageWAN), this router's *)
(* address (StageLAN), the address handout (StageHandout), reserved        *)
(* addresses, static routes, and how a draft ends (openwrt/network_write.go*)
(* lan_write.go, lan.go, routes_write.go, routes.go).                      *)
(*                                                                         *)
(* What a staging checks its request against is not one thing: the address *)
(* the pool is counted from and the kernel's routes are the running ones,  *)
(* the pool an address is checked against and the other routes are the     *)
(* draft's.  Numbers, addresses and networks are kept in the files as text,*)
(* and read back.                                                          *)
(***************************************************************************)
EXTENDS UciDraft, AddressPool, TLC

CONSTANTS
  Names,         \* the sections with a name of their own, by id
  Given,         \* the addresses the provider gave a connection
  Foreign,       \* the kernel's routes that are in no file
  LeaseText,     \* formatLeaseTime
  Files,         \* the committed files a run starts from
  WANs, LANs, Handouts, Hosts, Routes,   \* bound: what the operator asks for
  MaxEdits,      \* bound: stagings that change something
  MaxFaults      \* bound: commands that fail or run out of time

ASSUME NetworkAssumption == MaxEdits \in Nat /\ MaxFaults \in Nat

VARIABLES
  conf,     \* the committed files
  view,     \* the same with the draft on top
  lines,    \* `uci changes', of each file
  said,     \* the rows the last staging answered with
  edits,
  faults,
  crossed,  \* history: the address and the pool of the draft were not checked
            \* against each other
  unread,   \* history: a list of reservations could not be read
  late      \* history: a revert was due when the time was up

historyVars == <<crossed, unread, late>>
networkVars == <<conf, view, lines, said, edits, faults, historyVars>>

Configs == {"network", "dhcp"}

-----------------------------------------------------------------------------
(* Text.                                                                    *)

Text(v) == ToString(v)

Numbers  == 0 .. Top + 1
Prefixes == {Network(a, size) : a \in Addresses, size \in Sizes}

\* strconv.Atoi and net.ParseIP, netip.ParsePrefix.
NumberOf == [t \in {Text(n) : n \in Numbers} |->
               CHOOSE n \in Numbers : Text(n) = t]

PrefixText(p) == Text(<<p.base, p.size>>)

PrefixOf == [t \in {PrefixText(p) : p \in Prefixes} |->
               CHOOSE p \in Prefixes : PrefixText(p) = t]

\* Text reads back as what was written.
ASSUME TextAssumption ==
  /\ Text(0) = "0"
  /\ \A n \in Numbers : Text(n) \in STRING \ {""}
  /\ \A m, n \in Numbers : Text(m) = Text(n) => m = n
  /\ \A p \in Prefixes : PrefixText(p) \in STRING \ {""}
  /\ \A p \in Prefixes, n \in Numbers : PrefixText(p) # Text(n)
  /\ \A p, q \in Prefixes : PrefixText(p) = PrefixText(q) => p = q

Parses(text, values) == text \in DOMAIN NumberOf /\ NumberOf[text] \in values

-----------------------------------------------------------------------------
(* The connections.                                                         *)

IdOf(name) == CHOOSE id \in DOMAIN Names : Names[id] = name

Lan == IdOf("lan")

InterfaceOptions == {"proto", "ipaddr", "netmask", "gateway", "dns", "peerdns",
                     "username", "password", "metric"}

Interfaces == {"lan", "vpn", "wan"}

ASSUME NamesAssumption == \A n \in Interfaces : \E id \in DOMAIN Names : Names[id] = n

\* LANInfo and routeInterfaces: the address and mask a connection runs with.
\* One that is not static has what the provider gave.
AddressesOf(file, name) ==
  LET o == Of(file, IdOf(name)).opt
  IN  IF o["proto"] = "static"
        THEN IF Parses(o["ipaddr"], Addresses) /\ Parses(o["netmask"], Sizes)
               THEN {<<NumberOf[o["ipaddr"]], NumberOf[o["netmask"]]>>} ELSE {}
        ELSE Given[name]

NetworksOf(file, name) ==
  {Network(p[1], p[2]) : p \in AddressesOf(file, name)}

\* lanNetwork: of the running network.
LanNetwork == CHOOSE n \in NetworksOf(conf["network"], "lan") : TRUE

MetricOf(file, name) ==
  LET m == Of(file, IdOf(name)).opt["metric"]
  IN  IF Parses(m, Numbers) THEN NumberOf[m] ELSE 0

-----------------------------------------------------------------------------
(* The handout and the reservations.                                        *)

PoolOptions == {"ignore", "start", "limit", "leasetime"}
HostOptions == {"mac", "ip", "name"}

Pool(file) == Of(file, Lan).opt

HasPool(o) ==
  /\ Parses(o["start"], Numbers) /\ Parses(o["limit"], Numbers)
  /\ o["limit"] # "0"

\* handout: the ends of the pool in network n.
Handout(o, n) ==
  PoolRange(n, NumberOf[o["start"]], NumberOf[o["limit"]])

\* Mutant: only the first address is looked at.
PoolFitsFirst(o, n) ==
  HasPool(o) => Contains(n, AddOffset(n.base, NumberOf[o["start"]]))

\* poolFitsAddress; what cannot be read is no pool.
PoolFits(o, n) == HasPool(o) => Handout(o, n) # <<>>

\* reserved: an entry without both halves reserves nothing.
Reserved(file) ==
  {i \in DOMAIN file : /\ file[i].kind = "host"
                       /\ file[i].opt["mac"] # "" /\ file[i].opt["ip"] # ""}

-----------------------------------------------------------------------------
(* Routes.                                                                  *)

NoPrefix == [base |-> NoAddress, size |-> 0]

\* routeTarget: a network, an address with a mask, or one address.
RouteTarget(o) ==
  LET t == o["target"]
      m == o["netmask"]
  IN  IF t \in DOMAIN PrefixOf THEN PrefixOf[t]
      ELSE IF ~Parses(t, Addresses) THEN NoPrefix
      ELSE IF m = "" THEN [base |-> NumberOf[t], size |-> 1]
      ELSE IF Parses(m, Sizes) THEN Network(NumberOf[t], NumberOf[m])
      ELSE NoPrefix

RouteOptions == {"interface", "target", "netmask", "gateway", "metric", "name",
                 "disabled", "more"}

\* parseRouteSections; `more' stands for the options the panel does not show.
RouteOf(s) ==
  LET o == s.opt
  IN  [id |-> s.id, name |-> o["name"], disabled |-> o["disabled"] = "1",
       v4 |-> s.kind = "route", prefix |-> RouteTarget(o),
       mask |-> o["netmask"] # "" /\ Parses(o["target"], Addresses),
       gateway |-> IF Parses(o["gateway"], Addresses)
                     THEN NumberOf[o["gateway"]] ELSE NoAddress,
       iface |-> o["interface"],
       metric |-> IF Parses(o["metric"], Numbers)
                    THEN NumberOf[o["metric"]] ELSE 0,
       hasMetric |-> Parses(o["metric"], Numbers),
       more |-> o["more"] # "" \/ RouteTarget(o) = NoPrefix]

IsRoute(s) == s.kind \in {"route", "route6"}

RoutesOf(file) == {RouteOf(file[i]) : i \in {j \in DOMAIN file : IsRoute(file[j])}}

EffectiveMetric(r, file) ==
  IF r.hasMetric THEN r.metric ELSE MetricOf(file, r.iface)

\* A line of /proc/net/route; a connection's device is named after it.
KernelRoute(prefix, gateway, metric, iface) ==
  [prefix |-> prefix, gateway |-> gateway, metric |-> metric, iface |-> iface]

\* What netifd gives the kernel for a file.
Kernel(file) ==
  Foreign
  \cup UNION {{KernelRoute(n, NoAddress, MetricOf(file, i), i)
                 : n \in NetworksOf(file, i)} : i \in Interfaces}
  \cup {KernelRoute(r.prefix, r.gateway, EffectiveMetric(r, file), r.iface)
          : r \in {q \in RoutesOf(file) :
                     ~q.disabled /\ q.v4 /\ q.prefix # NoPrefix}}

\* onNetwork and checkable: a mask that leaves one address is no network.
OnNetwork(gateway, name) ==
  \E n \in NetworksOf(conf["network"], name) : n.size > 1 /\ Contains(n, gateway)

Checkable(name) == \E n \in NetworksOf(conf["network"], name) : n.size > 1

\* The connections in the order of their names.
InOrder == <<"lan", "vpn", "wan">>

\* routeInterfaceFor: the connection a route leaves through, "" when refused.
RouteInterfaceFor(name, gateway) ==
  IF name = ""
    THEN LET on == {i \in DOMAIN InOrder :
                      gateway # NoAddress /\ OnNetwork(gateway, InOrder[i])}
         IN  IF on = {} THEN ""
             ELSE InOrder[CHOOSE i \in on : \A j \in on : i <= j]
  ELSE IF \/ gateway = NoAddress
          \/ /\ gateway \notin {p[1] : p \in AddressesOf(conf["network"], name)}
             /\ Checkable(name) => OnNetwork(gateway, name)
         THEN name ELSE ""

\* Mutant: the draft's other routes are not looked at.
RouteClashInKernel(id, own, prefix, metric) ==
  \E k \in Kernel(conf["network"]) :
    /\ k.prefix = prefix /\ k.metric = metric
    /\ ~\E r \in own :
         /\ ~r.disabled
         /\ k = KernelRoute(r.prefix, r.gateway,
                            EffectiveMetric(r, view["network"]), r.iface)

\* routeClash: another enabled route of the draft has this network and metric,
\* or the kernel has, and not for this route as it is committed.
RouteClash(id, own, prefix, metric) ==
  \/ \E r \in RoutesOf(view["network"]) :
       /\ r.id # id /\ ~r.disabled /\ r.v4
       /\ r.prefix = prefix /\ EffectiveMetric(r, view["network"]) = metric
  \/ RouteClashInKernel(id, own, prefix, metric)

\* The committed route of the same name as this one in the draft.  The name of
\* a section without one is its number among those of its kind, and the draft
\* may have removed one in front of it.
Own(id) ==
  LET file == view["network"]
      k    == Pos(OfKind(file, "route"), id)
      was  == OfKind(conf["network"], "route")
  IN  IF id \in DOMAIN Names
        THEN {RouteOf(was[i]) : i \in {j \in DOMAIN was : was[j].id = id}}
        ELSE {RouteOf(was[i]) : i \in {j \in DOMAIN was : j = k}}

-----------------------------------------------------------------------------
(* What the rows say.                                                       *)

\* routeWords and reservationWords.
Words(s) ==
  IF IsRoute(s)
    THEN <<"route", IF RouteTarget(s.opt) = NoPrefix THEN <<s.opt["target"]>>
                    ELSE <<RouteTarget(s.opt)>>,
           s.opt["gateway"], s.opt["interface"]>>
    ELSE <<"host", s.opt["name"], s.opt["mac"], s.opt["ip"]>>

Says(s) == <<IF IsRoute(s) THEN "route" ELSE s.kind>>

\* roleOf: the uplink and the local network are told apart by their names.
Label(s, option) ==
  <<IF s.kind = "interface" THEN Names[s.id] ELSE Says(s)[1], option>>

EntryKinds == {"host", "route", "route6"}

RowsOfFile(c) ==
  StagedChanges(conf[c], view[c], lines[c], EntryKinds, Words, Says, Label)

-----------------------------------------------------------------------------
(* How a staging ends.                                                      *)

NetworkInit ==
  /\ conf \in Files
  /\ view = conf /\ lines = [c \in Configs |-> <<>>] /\ said = <<>>
  /\ edits = 0 /\ faults = 0
  /\ crossed = FALSE /\ unread = FALSE /\ late = FALSE

Counted == edits < MaxEdits /\ edits' = edits + 1 /\ UNCHANGED conf

Fails == faults < MaxFaults /\ faults' = faults + 1

Put(c, file, log) ==
  view' = [view EXCEPT ![c] = file] /\ lines' = [lines EXCEPT ![c] = log]

Accepted(c, file, log, rows) == Put(c, file, log) /\ said' = rows

\* The draft changes this router's address.
Moving ==
  Of(view["network"], Lan).opt # Of(conf["network"], Lan).opt

\* A command fails: the draft of that file is discarded, whoever made it; or
\* the time is up, and what was written stays.
Dropped(c, cuts) ==
  /\ Fails
  /\ said' = <<>>
  /\ \/ /\ Put(c, conf[c], <<>>)
        /\ crossed' = (crossed \/ (c = "dhcp" /\ Moving))
        /\ UNCHANGED late
     \/ /\ \E cut \in cuts : Put(c, cut.file, cut.log)
        /\ crossed' = TRUE /\ late' = TRUE
  /\ UNCHANGED unread

\* stage's rows for a section the file has.
SectionRows(c, id, sets, subject) ==
  LET opt == Of(view[c], id).opt
  IN  RowsOf(id, sets, Edits(sets, opt, {}), opt, {},
             LAMBDA k : Label(Of(view[c], id), k), subject)

\* Every command of a batch goes well; `cross' is whether the address and the
\* pool are now unchecked.
SectionWritten(c, id, sets, rows, cross) ==
  LET es == Edits(sets, Of(view[c], id).opt, {})
  IN  /\ Accepted(c, Staged(view[c], id, es), lines[c] \o LinesOf(id, sets, es), rows)
      /\ crossed' = cross
      /\ UNCHANGED <<unread, late>>

\* stage, for a section the file has.
StageSection(c, id, sets, rows, cross) ==
  LET es == Edits(sets, Of(view[c], id).opt, {})
  IN  \/ SectionWritten(c, id, sets, rows, cross) /\ UNCHANGED faults
      \/ es # {} /\ Dropped(c, Cuts(view[c], lines[c], id, sets, es))

\* Mutant: a row for every field.
NewFieldByField(c, kind, options, sets) ==
  LET id    == NewId(view[c], lines[c])
      es    == Edits(sets, NoOptions(options), {})
      added == Append(view[c], Section(id, kind, NoOptions(options)))
      log   == Append(lines[c], Line(id, "", FALSE))
      file  == Staged(added, id, es)
  IN  [file |-> file, log |-> log \o LinesOf(id, sets, es),
       rows |-> RowsOf(id, sets, es, NoOptions(options), {},
                       LAMBDA k : Label(Of(file, id), k), <<>>),
       cuts |-> Cuts(added, log, id, sets, es)]

\* A section just added and filled in, which is one row.
New(c, kind, options, sets) ==
  LET id    == NewId(view[c], lines[c])
      es    == Edits(sets, NoOptions(options), {})
      added == Append(view[c], Section(id, kind, NoOptions(options)))
      log   == Append(lines[c], Line(id, "", FALSE))
      file  == Staged(added, id, es)
  IN  [file |-> file, log |-> log \o LinesOf(id, sets, es),
       rows |-> <<Row(id, Says(Of(file, id)), <<>>, Words(Of(file, id)), <<>>)>>,
       cuts |-> Cuts(added, log, id, sets, es)]

NewWritten(c, kind, options, sets) ==
  LET new == New(c, kind, options, sets)
  IN  Accepted(c, new.file, new.log, new.rows) /\ UNCHANGED historyVars

StageNew(c, kind, options, sets) ==
  \/ NewWritten(c, kind, options, sets) /\ UNCHANGED faults
  \/ Dropped(c, New(c, kind, options, sets).cuts)

StageRemoval(c, id) ==
  LET s == Of(view[c], id)
  IN  /\ Accepted(c, UciDelete(view[c], id), Append(lines[c], Line(id, "", FALSE)),
                  <<Row(id, Says(s), Words(s), <<>>, <<>>)>>)
      /\ UNCHANGED <<faults, historyVars>>

-----------------------------------------------------------------------------
(* The uplink and this router's address.                                    *)

\* A setting that is only written when it is given.
IfGiven(key, value) == IF value = "" THEN <<>> ELSE <<Setting(key, value, "")>>

\* Mutant: back to the provider's address, the resolvers are left as they are.
WanSettingsOneWay(q) ==
  <<Setting("proto", q.proto, "")>>
  \o (IF q.proto = "dhcp" THEN IfGiven("dns", q.dns)
      ELSE IfGiven("username", q.username) \o IfGiven("dns", q.dns))

\* wanSettings: resolvers of one's own need the provider's turned off, and go
\* together with that.
WanSettings(q) ==
  <<Setting("proto", q.proto, "")>>
  \o CASE q.proto = "dhcp" /\ q.dns = "" ->
            <<Setting("peerdns", "", "1"), Setting("dns", "", "")>>
       [] q.proto = "dhcp" /\ q.dns # "" ->
            <<Setting("peerdns", "0", ""), Setting("dns", q.dns, "")>>
       [] q.proto = "static" ->
            <<Setting("ipaddr", q.address, ""), Setting("netmask", q.netmask, "")>>
            \o IfGiven("gateway", q.gateway) \o IfGiven("dns", q.dns)
       [] q.proto = "pppoe" ->
            <<Setting("username", q.username, "")>>
            \o IfGiven("password", q.password) \o IfGiven("dns", q.dns)

StageWAN(q) ==
  /\ Counted
  /\ q.proto = "static" => q.address # "" /\ q.netmask # ""
  /\ q.proto = "pppoe" => q.username # ""
  /\ StageSection("network", IdOf("wan"), WanSettings(q),
                  SectionRows("network", IdOf("wan"), WanSettings(q), <<>>), crossed)

\* The draft's pool has to fit the new address.  Either number of it that
\* cannot be read is a pool that is not there.
StageLAN(q) ==
  LET sets == <<Setting("proto", "static", ""), Setting("ipaddr", Text(q[1]), ""),
                Setting("netmask", Text(q[2]), "")>>
      es   == Edits(sets, Of(view["network"], Lan).opt, {})
      fits == PoolFits(Pool(view["dhcp"]), Network(q[1], q[2]))
  IN  /\ Counted
      /\ \/ fits /\ StageSection("network", Lan, sets,
                                SectionRows("network", Lan, sets, <<>>), crossed)
         \/ /\ ~fits /\ Fails
            /\ Accepted("network", Staged(view["network"], Lan, es),
                        lines["network"] \o LinesOf(Lan, sets, es), <<>>)
            /\ crossed' = TRUE
            /\ UNCHANGED <<unread, late>>

-----------------------------------------------------------------------------
(* The handout.                                                             *)

\* offsetAsAddress, and lastAsAddress with `more' the rest of the count.
OffsetText(stored, more) ==
  LET a == AddOffset(LanNetwork.base, NumberOf[stored] + more)
  IN  IF Parses(stored, Numbers) /\ a # NoAddress THEN Text(a) ELSE ""

LastText(o) ==
  IF ~Parses(o["limit"], Numbers) \/ o["limit"] = "0" THEN ""
  ELSE OffsetText(o["start"], NumberOf[o["limit"]] - 1)

\* The two numbers of the pool are said as addresses.
InAddresses(q, o, rows) ==
  LET say(r, was, is) ==
        [r EXCEPT !.from = IF was = "" THEN @ ELSE <<was>>, !.to = <<is>>]
  IN  [i \in DOMAIN rows |->
         CASE rows[i].label[2] = "start" ->
                say(rows[i], OffsetText(o["start"], 0), Text(q.first))
           [] rows[i].label[2] = "limit" ->
                say(rows[i], LastText(o), Text(q.last))
           [] OTHER -> rows[i]]

\* Off keeps the pool.  On, the offsets are counted from the address the router
\* has now, whatever the draft says of it.
StageHandout(q) ==
  LET o    == Pool(view["dhcp"])
      pool == PoolOffsets(LanNetwork, q.first, q.last)
      off  == <<Setting("ignore", "1", "")>>
      on   == <<Setting("ignore", "", ""), Setting("start", Text(pool[1]), ""),
                Setting("limit", Text(pool[2]), "")>>
              \o (IF q.lease > 0 THEN <<Setting("leasetime", LeaseText[q.lease], "")>>
                  ELSE <<>>)
  IN  /\ Counted
      /\ IF q.enabled
           THEN /\ pool # <<>>
                /\ StageSection("dhcp", Lan, on,
                                InAddresses(q, o, SectionRows("dhcp", Lan, on, <<>>)),
                                crossed \/ Moving)
           ELSE StageSection("dhcp", Lan, off, SectionRows("dhcp", Lan, off, <<>>),
                             crossed)

-----------------------------------------------------------------------------
(* Reservations.                                                            *)

HostSettings(q) ==
  <<Setting("mac", q.mac, ""), Setting("ip", Text(q.ip), "")>> \o IfGiven("name", q.name)

\* Mutant: the address is looked for, not the device.
KnownByAddress(file, q) ==
  {i \in Reserved(file) : file[i].opt["ip"] = Text(q.ip)}

\* The reservations this device has.
Known(file, q) == {i \in Reserved(file) : file[i].opt["mac"] = q.mac}

\* A device that has a reservation gets another address for it, the first of
\* them if it has two.  A list that cannot be read is an empty one, and where
\* the LAN cannot be read nothing is asked of the address.
StageReservation(q) ==
  LET known == Known(view["dhcp"], q)
      first == view["dhcp"][CHOOSE i \in known : \A j \in known : i <= j]
      new   == New("dhcp", "host", HostOptions, HostSettings(q))
      rows  == SectionRows("dhcp", first.id, HostSettings(q), Subject(first, Words))
  IN  /\ Counted
      /\ \/ /\ Contains(LanNetwork, q.ip)
            /\ known = {} /\ StageNew("dhcp", "host", HostOptions, HostSettings(q))
         \/ /\ Contains(LanNetwork, q.ip)
            /\ known # {}
            /\ StageSection("dhcp", first.id, HostSettings(q), rows, crossed)
         \/ /\ Contains(LanNetwork, q.ip)
            /\ known # {} /\ Fails
            /\ Accepted("dhcp", new.file, new.log, new.rows)
            /\ unread' = TRUE
            /\ UNCHANGED <<crossed, late>>
         \/ /\ Fails
            /\ known = {} /\ NewWritten("dhcp", "host", HostOptions, HostSettings(q))
         \/ /\ Fails
            /\ known # {}
            /\ SectionWritten("dhcp", first.id, HostSettings(q), rows, crossed)

RemoveReservation(id) ==
  /\ Counted
  /\ \E i \in Reserved(view["dhcp"]) : view["dhcp"][i].id = id
  /\ StageRemoval("dhcp", id)

-----------------------------------------------------------------------------
(* Static routes.                                                           *)

\* The mask stays where the route was written with one.
RouteSettings(q, iface, mask) ==
  <<Setting("interface", iface, "")>>
  \o (IF mask THEN <<Setting("target", Text(q.prefix.base), ""),
                     Setting("netmask", Text(q.prefix.size), "")>>
      ELSE <<Setting("target", PrefixText(q.prefix), ""),
             Setting("netmask", "", "")>>)
  \o <<Setting("gateway", IF q.gateway = NoAddress THEN "" ELSE Text(q.gateway), ""),
       Setting("metric", IF q.metric = 0 THEN "" ELSE Text(q.metric), "0"),
       Setting("name", q.name, ""),
       Setting("disabled", IF q.enabled THEN "" ELSE "1", "0")>>

\* The metric a route is checked with.
AskedMetric(q, iface) ==
  IF q.metric = 0 THEN MetricOf(view["network"], iface) ELSE q.metric

AddRoute(q) ==
  LET iface == RouteInterfaceFor(q.iface, q.gateway)
  IN  /\ Counted
      /\ iface # ""
      /\ q.enabled => ~RouteClash(0, {}, q.prefix, AskedMetric(q, iface))
      /\ StageNew("network", "route", RouteOptions, RouteSettings(q, iface, FALSE))

\* A route with options the panel does not show is only switched on and off.
EditRoute(id, q) ==
  LET r     == RouteOf(Of(view["network"], id))
      iface == RouteInterfaceFor(q.iface, q.gateway)
      sets  == RouteSettings(q, iface, r.mask)
  IN  /\ Counted
      /\ r.v4
      /\ iface # ""
      /\ r.more => /\ r.prefix = q.prefix /\ r.gateway = q.gateway
                   /\ r.iface = iface /\ r.metric = q.metric /\ r.name = q.name
      /\ q.enabled => ~RouteClash(id, Own(id), q.prefix, AskedMetric(q, iface))
      /\ StageSection("network", id, sets,
                      SectionRows("network", id, sets,
                                  Subject(Of(view["network"], id), Words)), crossed)

RemoveRoute(id) == Counted /\ StageRemoval("network", id)

-----------------------------------------------------------------------------
(* The end of a draft.                                                      *)

\* The files one after the other; one that fails leaves the rest.
DiscardStaged ==
  /\ \E c \in Configs : lines[c] # <<>>
  /\ said' = <<>>
  /\ \/ /\ view' = conf /\ lines' = [c \in Configs |-> <<>>]
        /\ UNCHANGED faults
     \/ Fails /\ Put("network", conf["network"], <<>>)
  /\ UNCHANGED <<conf, edits, historyVars>>

\* The coordinator commits, and the network restarts with the new files.
Commit ==
  /\ \E c \in Configs : lines[c] # <<>>
  /\ conf' = view /\ lines' = [c \in Configs |-> <<>>] /\ said' = <<>>
  /\ UNCHANGED <<view, edits, faults, historyVars>>

RouteIds == {id \in Ids(view["network"]) : IsRoute(Of(view["network"], id))}

NetworkNext ==
  \/ \E q \in WANs : StageWAN(q)
  \/ \E q \in LANs : StageLAN(q)
  \/ \E q \in Handouts : StageHandout(q)
  \/ \E q \in Hosts : StageReservation(q)
  \/ \E id \in Ids(view["dhcp"]) : RemoveReservation(id)
  \/ \E q \in Routes : AddRoute(q) \/ \E id \in RouteIds : EditRoute(id, q)
  \/ \E id \in RouteIds : RemoveRoute(id)
  \/ DiscardStaged
  \/ Commit

NetworkSpec == NetworkInit /\ [][NetworkNext]_networkVars

-----------------------------------------------------------------------------
(* The files a run starts from, and the requests.                           *)

OptionsOf == [interface |-> InterfaceOptions, dhcp |-> PoolOptions,
              host |-> HostOptions, route |-> RouteOptions, route6 |-> RouteOptions]

IsSection(s) ==
  /\ s \in [id : Nat \ {0}, kind : DOMAIN OptionsOf, opt : {s.opt}]
  /\ s.opt \in [OptionsOf[s.kind] -> STRING]

IsFile(file) ==
  LET sections == {file[i] : i \in DOMAIN file}
  IN  file \in Seq(sections) /\ \A s \in sections : IsSection(s)

\* uci's names are names, the connections are there, this router has an address
\* of its own, and the routes leave through the connections.
Sound(file) ==
  /\ \A c \in Configs : \A i, j \in DOMAIN file[c] :
       file[c][i].id = file[c][j].id => i = j
  /\ \A n \in Interfaces : \E i \in DOMAIN file["network"] :
       file["network"][i].id = IdOf(n) /\ file["network"][i].kind = "interface"
  /\ \E i \in DOMAIN file["dhcp"] :
       file["dhcp"][i].id = Lan /\ file["dhcp"][i].kind = "dhcp"
  /\ LET o == Of(file["network"], Lan).opt
     IN  /\ o["proto"] = "static"
         /\ Parses(o["ipaddr"], Addresses) /\ Parses(o["netmask"], Sizes)

Connected(network) ==
  \A i \in DOMAIN network :
    IsRoute(network[i]) => network[i].opt["interface"] \in Interfaces

-----------------------------------------------------------------------------
(* Properties.                                                              *)

\* HandoutReadsBack: the pool that is staged, read against the address it was
\* counted from, begins and ends where it was asked to, whatever was there.
HandoutReadsBack ==
  [][\A q \in Handouts :
       faults' = faults /\ q.enabled /\ StageHandout(q)
       => LET o == Pool(view'["dhcp"])
          IN  /\ o["ignore"] # "1" /\ HasPool(o)
              /\ Handout(o, LanNetwork) = <<q.first, q.last>>]_networkVars

\* The pool of a dhcp file lies in the network of a network file's address.
PoolIn(dhcp, network) ==
  HasPool(Pool(dhcp)) => \A n \in NetworksOf(network, "lan") :
                           Handout(Pool(dhcp), n) # <<>>

\* PoolInside: the pool of the draft lies in the network of the draft's address
\* ("a router that hands out addresses it cannot reach is a network that half
\* works"), as long as no handout was staged on top of a new address, and no
\* pool a new address was checked against was dropped.
PoolInside == crossed \/ PoolIn(view["dhcp"], view["network"])

\* An uplink that takes its address from the provider does not take the
\* provider's resolvers on top of ones of its own.
Resolves(network) ==
  LET o == Of(network, IdOf("wan")).opt
  IN  o["proto"] = "dhcp" /\ o["dns"] # "" => o["peerdns"] = "0"

\* ResolversAreUsed: an uplink that takes its address from the provider never
\* has resolvers of its own and the provider's on top of them ("asking for one
\* without the other silently does nothing").
ResolversAreUsed == late \/ Resolves(view["network"])

\* A metric of 0 written out, where the connection has another: EditRoute reads
\* it as none.
ZeroWritten(r, file) ==
  r.hasMetric /\ r.metric = 0 /\ MetricOf(file, r.iface) # 0

Acts(r) == ~r.disabled /\ r.v4 /\ r.prefix # NoPrefix

\* No two routes that act have one network and one metric.
DistinctRoutes(file) ==
  \A r, q \in {r \in RoutesOf(file) : Acts(r)} :
    /\ r.id # q.id /\ r.prefix = q.prefix
    /\ EffectiveMetric(r, file) = EffectiveMetric(q, file)
    => ZeroWritten(r, file) \/ ZeroWritten(q, file)

\* RoutesDistinct: no two enabled routes of the draft have one network and one
\* metric: netifd would keep one, and remove it together with the other.
RoutesDistinct == late \/ DistinctRoutes(view["network"])

\* No two entries reserve for one device.
ReservedOnce(file) ==
  \A i, j \in Reserved(file) : file[i].opt["mac"] = file[j].opt["mac"] => i = j

\* OneReservation: a device has one reservation ("two entries for one device is
\* a configuration whose behaviour depends on file order"), as long as the list
\* could be read.
OneReservation == unread \/ ReservedOnce(view["dhcp"])

\* The committed files keep to all of this before the panel is first used.
ASSUME FilesAssumption ==
  \A f \in Files :
    /\ DOMAIN f = Configs /\ \A c \in Configs : IsFile(f[c])
    /\ Sound(f) /\ Connected(f["network"])
    /\ PoolIn(f["dhcp"], f["network"]) /\ Resolves(f["network"])
    /\ DistinctRoutes(f["network"]) /\ ReservedOnce(f["dhcp"])

\* What the API hands down, parsed.
ASSUME RequestsAssumption ==
  /\ WANs \subseteq [proto : {"dhcp", "static", "pppoe"}, address : STRING,
                     netmask : STRING, gateway : STRING, dns : STRING,
                     username : STRING, password : STRING]
  /\ LANs \subseteq Addresses \X Sizes
  /\ Handouts \subseteq [enabled : BOOLEAN, first : Addresses, last : Addresses,
                         lease : Nat]
  /\ \A q \in Handouts : q.lease > 0 => LeaseText[q.lease] \in STRING
  /\ Hosts \subseteq [mac : STRING, ip : Addresses, name : STRING]
  /\ Routes \subseteq [name : STRING, prefix : Prefixes,
                       gateway : Addresses \cup {NoAddress},
                       iface : Interfaces \cup {""}, metric : Numbers,
                       enabled : BOOLEAN]

\* RowsAfterReload: the rows a staging of the network file answers with on an
\* empty draft are the ones the apply bar shows after a reload.
RowsAfterReload ==
  [][/\ lines = [c \in Configs |-> <<>>]
     /\ faults' = faults /\ edits' # edits /\ lines'["network"] # <<>>
     => said' = RowsOfFile("network")']_networkVars
=============================================================================
