----------------------------- MODULE MCNetwork ------------------------------
(* Instances of NetworkDraft for TLC: 32 addresses.                         *)
EXTENDS NetworkDraft

MCNames == 1 :> "lan" @@ 2 :> "wan" @@ 3 :> "vpn"

\* The provider's network, and one address of a tunnel that is no network.
MCGiven == "lan" :> {} @@ "vpn" :> {<<6, 1>>} @@ "wan" :> {<<9, 4>>}

MCForeign == {KernelRoute(Network(0, 4), NoAddress, 0, "vpn")}

MCLeaseText == 7200 :> "2h" @@ 90 :> "90"

Interface(proto, address, netmask, metric) ==
  Over(NoOptions(InterfaceOptions),
       "proto" :> proto @@ "ipaddr" :> address @@ "netmask" :> netmask
       @@ "metric" :> metric)

Route(iface, target, netmask, gateway, metric, disabled, more) ==
  Over(NoOptions(RouteOptions),
       "interface" :> iface @@ "target" :> target @@ "netmask" :> netmask
       @@ "gateway" :> gateway @@ "metric" :> metric
       @@ "disabled" :> disabled @@ "more" :> more)

\* Routes the older way and with an option that is not shown, one of them off;
\* the uplink has a metric, and in one file a route has the metric 0.
MCFiles ==
  {[network |-> <<Section(1, "interface", Interface("static", "17", "16", "")),
                  Section(2, "interface", Interface("dhcp", "", "", "5")),
                  Section(3, "interface", Interface("none", "", "", "")),
                  Section(4, "route", Route("lan", "12", "4", "18", zero, "1", "")),
                  Section(5, "route", Route("wan", Text(<<12, 4>>), "", "10", "", "", "mtu"))>>,
    dhcp |-> <<Section(1, "dhcp", "ignore" :> "" @@ "start" :> "2" @@ "limit" :> "5"
                                  @@ "leasetime" :> "12h"),
               Section(2, "host", "mac" :> "m1" @@ "ip" :> "20" @@ "name" :> "")>>]
     : zero \in {"", "0"}}

WAN(proto, address, netmask, dns, username) ==
  [proto |-> proto, address |-> address, netmask |-> netmask, gateway |-> "",
   dns |-> dns, username |-> username, password |-> ""]

MCWANs == {WAN("dhcp", "", "", "", ""), WAN("dhcp", "", "", "d", ""),
           WAN("static", "9", "4", "d", ""), WAN("pppoe", "", "", "", "u")}

\* The last has no room for the pool the files start with.
MCLANs == {<<25, 8>>, <<21, 4>>}

MCHandouts ==
  {[enabled |-> FALSE, first |-> 0, last |-> 0, lease |-> 0],
   [enabled |-> TRUE, first |-> 17, last |-> 18, lease |-> 0],
   [enabled |-> TRUE, first |-> 20, last |-> 31, lease |-> 7200]}

MCHosts == {[mac |-> "m1", ip |-> 21, name |-> "n"], [mac |-> "m2", ip |-> 20, name |-> ""],
            [mac |-> "m2", ip |-> 3, name |-> ""]}

Asked(size, gateway, iface, metric, enabled) ==
  [name |-> "", prefix |-> Network(12, size), gateway |-> gateway, iface |-> iface,
   metric |-> metric, enabled |-> enabled]

MCRoutes == {Asked(4, 18, "", 0, TRUE), Asked(4, 10, "wan", 0, FALSE),
             Asked(4, NoAddress, "vpn", 5, TRUE), Asked(1, 18, "lan", 5, TRUE)}
=============================================================================
