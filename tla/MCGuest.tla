------------------------------- MODULE MCGuest -------------------------------
(* A router with two radios, a guest network or none, and everything LuCI or *)
(* the firewall screen can do to it.                                         *)
EXTENDS GuestNetwork, TLC

MCBand == [r \in Radios |-> IF r = "radio0" THEN "2.4" ELSE "5"]

Zone(name, nets) ==
  [Fw("zone") EXCEPT !.name = name, !.network = nets, !.input = "ACCEPT",
                     !.forward = "ACCEPT"]
FwKey(id) == <<"firewall", "", id>>

Stock ==
  (LanKey :> [Net("interface") EXCEPT !.device = "br-lan", !.addr = 1,
                                       !.ip6assign = 60])
  @@ (<<"network", "", "wan">> :> Net("interface"))
  @@ (<<"network", "", "globals">> :> [Net("globals") EXCEPT !.addr = 0])
  @@ (FwKey("zlan") :> Zone("lan", {"lan", "extra"}))
  @@ (FwKey("zwan") :> [Zone("wan", {"wan"}) EXCEPT !.input = "REJECT",
                          !.forward = "REJECT", !.masq = "1"])
  @@ (FwKey("lanwan") :> [Fw("forwarding") EXCEPT !.src = "lan", !.dest = "wan"])
  @@ (<<"dhcp", "", "dnsmasq">> :> Dhcp("dnsmasq"))
  @@ [k \in {<<"wireless", "", r>> : r \in Radios} |-> Wl("wifi-device")]

\* The same with the panel's guest network in it, and with one more network.
Iot == (<<"network", "", "iot">> :> [Net("interface") EXCEPT !.ip6assign = 62]) @@ Stock

Start(files, ps) == [files |-> files, prefixes |-> ps]

MCStarts ==
  {Start(Recipe(Radios, "wan", 3)
           @@ Put(Stock, <<"network", "", "globals">>, [addr |-> 60]), {64}),
   Start(Iot, {61})}

Add(key, to)    == [how |-> "add", key |-> key, to |-> to]
Change(key, to) == [how |-> "change", key |-> key, to |-> to]
Delete(key)     == [how |-> "delete", key |-> key, to |-> <<>>]

Accept == [Fw("rule") EXCEPT !.target = "ACCEPT"]

MCOwnerEdits ==
  { Add(FwKey("allow"), [Accept EXCEPT !.src = guestSection]),
    Change(RuleKey("no_private4"), [enabled |-> "0"]),
    Change(<<"wireless", "", "radio0">>, [channel |-> "11"]) }

MCEdits ==
  { Add(FwKey("any"), [Accept EXCEPT !.src = "*"]),
    Add(FwKey("fwd"), [Fw("redirect") EXCEPT !.src = "wan", !.dest = "lan",
                         !.reflection = {guestSection}]),
    Add(FwKey("vpn"), [Zone("vpn", {}) EXCEPT !.subnet = {3}]),
    Change(GuestZone, [input |-> "ACCEPT"]),
    Change(GuestWan, [enabled |-> "0"]),
    Change(RuleKey("no_private6"), [more |-> TRUE]),
    Delete(RuleKey("dns")),
    Change(FwKey("zlan"), [network |-> {"lan", guestSection}]),
    Change(FwKey("zwan"), [network |-> {"wan", "lan"}]),
    Change(FwKey("zwan"), [masq |-> "0"]),
    Add(<<"network", "", "extra">>, [Net("interface") EXCEPT !.device = guestBridge]),
    Change(GuestDev, [more |-> TRUE]),
    Change(<<"network", "", "globals">>, [addr |-> 0]),
    Change(<<"dhcp", "", "dnsmasq">>, [only |-> {"lan"}]),
    Change(AP("radio0"), [network |-> {"lan"}]),
    Change(AP("radio0"), [bridge_isolate |-> ""]),
    Change(AP("radio0"), [disabled |-> "1"]),
    Delete(AP("radio1")),
    Add(<<"wireless", "", "luci">>, [Wl("wifi-iface") EXCEPT !.device = "radio1",
                                       !.network = {guestSection, "lan"}]) }
=============================================================================
