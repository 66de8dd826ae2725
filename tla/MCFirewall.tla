----------------------------- MODULE MCFirewall -----------------------------
(* Instances of FirewallRules for TLC.                                      *)
EXTENDS FirewallRules, TLC

MCPortsOf == "" :> {} @@ "22" :> {22} @@ "80" :> {80} @@ "22 80" :> {22, 80}

Rule(name, enabled, src, dest, proto, ports, target, family) ==
  "name" :> name @@ "enabled" :> enabled @@ "src" :> src @@ "dest" :> dest
  @@ "proto" :> proto @@ "dest_port" :> ports @@ "target" :> target
  @@ "family" :> family @@ NoOptions(Conditions)

\* "Allow-DHCP-Renew", and a rule with a limit on the ICMP types.
Renew == Rule("renew", "", "wan", "", "udp", "22", "accept", "ipv4")
Ping  == Over(Rule("ping", "", "wan", "*", "icmp", "", "accept", "ipv6"),
              "more" :> "types")

MCStock == {Renew, Ping}

Forward == "target" :> "DNAT" @@ "src" :> "wan" @@ "dest" :> "lan"
           @@ "proto" :> "" @@ "src_dport" :> "80" @@ "dest_ip" :> "a"
           @@ "dest_port" :> "" @@ "name" :> "" @@ "enabled" :> ""

\* A zone first, then rules with a port forward among them: the owner's rule
\* that leaves its defaults out, and a plain one.
Plain ==
  <<Section(1, "zone", NoOptions({"name"})), Section(2, "rule", Renew),
    Section(3, "rule", Rule("", "1", "wan", "*", "", "22 80", "", "any")),
    Section(4, "redirect", Forward),
    Section(5, "rule", Rule("", "", "lan", "wan", "all", "", "reject", ""))>>

\* What the device screen left: a device's block, and a schedule from the evening
\* to the morning; a forward of every port; and a rule for what the router sends.
Device(more) == Over(Rule("vb", "", "lan", "*", "all", "", "reject", ""),
                     more @@ "src_mac" :> "m")

MCNames == -1 :> [part |-> "block", mac |-> "m"]
           @@ -2 :> [part |-> "evening", mac |-> "m"]
           @@ -3 :> [part |-> "morning", mac |-> "m"]

Kept ==
  <<Section(1, "zone", NoOptions({"name"})),
    Section(-1, "rule", Device("src_mac" :> "m")),
    Section(-2, "rule", Device("weekdays" :> "fri" @@ "start_time" :> "22:00:00"
                               @@ "stop_time" :> EveningEnd)),
    Section(-3, "rule", Device("weekdays" :> "sat" @@ "start_time" :> Midnight
                               @@ "stop_time" :> "07:00:00")),
    Section(2, "redirect", Over(Forward, "src_dport" :> "")),
    Section(3, "rule", Rule("", "", "", "", "all", "", "reject", ""))>>

MCFiles == {Plain, Kept}

MCPlain == {Plain}

\* The last switches off what the device screen left.
MCBodies ==
  {Body("", TRUE, "wan", "", "udp", "22", "drop", ""),
   Body("", TRUE, "wan", "lan", "tcp", "80", "drop", ""),
   Body("", TRUE, "lan", "wan", "tcp udp", "", "accept", "ipv4"),
   Body("", FALSE, "lan", "wan", "all", "", "reject", ""),
   Body("vb", FALSE, "lan", "*", "all", "", "reject", "")}

MCForwards ==
  {[proto |-> "tcp", external |-> "22", port |-> "80", address |-> "a",
    name |-> "ssh", enabled |-> TRUE]}
=============================================================================
