--------------------------- MODULE TunnelManagers ---------------------------
(***************************************************************************)
(* The two managers that share the tunnel's routing: vpnManager            *)
(* (openwrt/vpn.go), which brings a connection up and down and brings it   *)
(* back after a restart, and routingManager (openwrt/routing.go), which    *)
(* has nftables mark the traffic that must use it.  Each holds a mutex of  *)
(* its own during a call and takes the router's mutex inside it, so their  *)
(* router calls queue up while their other steps interleave.  The process  *)
(* can die at any point; rules, refusal and marks stay in the kernel, the  *)
(* connection's device and its routes do not.                              *)
(***************************************************************************)
EXTENDS TunnelRouter

CONSTANT Imports  \* bound: the documents the operator may import whole

VARIABLES
  run,       \* the process: "dead", the stages of Restore, "serving"
  marking,   \* nftables marks traffic for the tunnel
  doc,       \* the stored document: rules, nodes, active
  vread,     \* the document vpnManager's call read, with its own change in it
  aread,     \* the document routingManager's call read
  up,        \* vpnManager.up
  vpc,       \* vpnManager's call, by the step it does next; "idle": mutex free
  req,       \* who made that call
  target,    \* the connection it is about
  bringing,  \* the connection a bringBack goroutine is after
  apc,       \* routingManager.Apply's next step; "idle": mutex free
  applier,   \* who called Apply
  retrying,  \* the applyUntilDone goroutine is running
  reported   \* history: the last Ensure returned an error, or died

vpnVars   == <<up, vpc, req, target, bringing>>
markVars  == <<marking, apc, applier, retrying>>
storeVars == <<doc, vread, aread>>
tunnelVars == <<kernelVars, routerVars, faults, run, vpnVars, markVars,
                storeVars, reported>>

VpnSteps == {"idle", "down", "unroute", "unrouting", "engine", "route",
             "routing", "undo", "undoRoute", "undoing", "update", "write"}

\* config.Document: whether the routing rules send something into the tunnel,
\* the connections, and the one to bring back.
Documents == [rules: BOOLEAN, nodes: SUBSET Nodes, active: Nodes \cup {NoNode}]
Nothing == [rules |-> FALSE, nodes |-> {}, active |-> NoNode]

ASSUME ImportsAssumption == Imports \subseteq Documents

TunnelTypeOK ==
  /\ RouterTypeOK
  /\ run \in {"dead", "rules", "ensuring", "node", "marks", "serving"}
  /\ marking \in BOOLEAN /\ retrying \in BOOLEAN
  /\ doc \in Documents /\ vread \in Documents /\ aread \in Documents
  /\ up \in Nodes \cup {NoNode}
  /\ bringing \in Nodes \cup {NoNode} /\ target \in Nodes \cup {NoNode}
  /\ vpc \in VpnSteps
  /\ req \in {"none", "person", "bringBack", "import", "remove"}
  /\ apc \in {"idle", "ensure", "ensuring", "nft", "write"}
  /\ applier \in {"none", "start", "person", "retry"}
  /\ reported \in BOOLEAN

\* A first boot, or a boot with connections and rules stored by an earlier one.
TunnelInit ==
  /\ RouterInit
  /\ run = "dead" /\ marking = FALSE
  /\ doc \in {d \in Documents : d.nodes = Nodes}
  /\ vread = Nothing /\ aread = Nothing
  /\ up = NoNode /\ vpc = "idle" /\ req = "none" /\ target = NoNode
  /\ bringing = NoNode
  /\ apc = "idle" /\ applier = "none" /\ retrying = FALSE /\ reported = FALSE

-----------------------------------------------------------------------------
(* Router calls.                                                            *)

Step == RouterStep /\ UNCHANGED <<run, vpnVars, markVars, storeVars, reported>>

\* The mutex is taken by whoever waits for it.
VpnEnters ==
  /\ \/ vpc = "unroute" /\ Enter("down") /\ vpc' = "unrouting"
     \/ vpc = "route" /\ Enter("up") /\ vpc' = "routing"
     \/ vpc = "undoRoute" /\ Enter("down") /\ vpc' = "undoing"
  /\ UNCHANGED <<up, req, target, bringing, run, markVars, storeVars, reported>>

ApplyEnters ==
  /\ apc = "ensure"
  /\ Enter("ensure")
  /\ apc' = "ensuring"
  /\ UNCHANGED <<marking, applier, retrying, run, vpnVars, storeVars, reported>>

-----------------------------------------------------------------------------
(* vpnManager.                                                              *)

(* Every change of the store reads the document, changes a copy and writes *)
(* the copy back; the file lock of Update keeps out only another Update.   *)

\* vpnManager takes its mutex for a call about n.
Begins(n, who, next) ==
  /\ vpc = "idle"
  /\ req' = who /\ target' = n
  /\ vpc' = next
  /\ UNCHANGED <<kernelVars, routerVars, faults, run, up, bringing, markVars,
                 doc, aread, reported>>

\* And lets go of it.
Ends == vpc' = "idle" /\ req' = "none" /\ target' = NoNode

ImportConfig(n) ==
  /\ run = "serving"
  /\ vread' = [doc EXCEPT !.nodes = @ \cup {n}]
  /\ Begins(n, "import", "write")

RemoveNode(n) ==
  /\ run = "serving"
  /\ n \in doc.nodes
  /\ vread' = [doc EXCEPT !.nodes = @ \ {n},
                          !.active = IF @ = n THEN NoNode ELSE @]
  /\ Begins(n, "remove", IF up = n THEN "down" ELSE "write")

\* activateLocked up to its first effect: a running tunnel goes down first.
ActivateLocked(n, who) ==
  /\ n \in doc.nodes
  /\ vread' = vread
  /\ Begins(n, who, IF up # NoNode THEN "down" ELSE "engine")

Activate(n) == run = "serving" /\ ActivateLocked(n, "person")

\* The bringBack goroutine has nothing left to do.
BringBackEnds ==
  /\ vpc = "idle" /\ bringing # NoNode
  /\ bringing' = NoNode
  /\ UNCHANGED <<kernelVars, routerVars, faults, run, up, vpc, req, target,
                 markVars, storeVars, reported>>

\* Mutant: the stored choice alone decides.
BringBackRegardless ==
  \/ doc.active # bringing /\ BringBackEnds
  \/ bringing = doc.active /\ ActivateLocked(bringing, "bringBack")

\* Mutant: one attempt, whatever comes of it.
BringBackGivesUp ==
  \/ (up # NoNode \/ doc.active # bringing) /\ BringBackEnds
  \/ up = NoNode /\ doc.active = bringing /\ BringBackEnds

\* One attempt of the bringBack goroutine; until it succeeds there is another.
BringBackOnce ==
  \/ (up # NoNode \/ doc.active # bringing) /\ BringBackEnds
  \/ /\ up = NoNode /\ doc.active = bringing
     /\ ActivateLocked(bringing, "bringBack")

\* engine.Down: closing the device removes it and the routes over it.
EngineDown ==
  /\ \/ vpc = "down" /\ vpc' = "unroute"
     \/ vpc = "undo" /\ vpc' = "undoRoute"
  /\ dev' = NoNode
  /\ table' = NoRoutes
  /\ UNCHANGED <<rules, refusing, routerVars, faults, run, up, req, target,
                 bringing, markVars, storeVars, reported>>

\* engine.Up; a failure leaves no device, and the call returns it.
EngineUp ==
  /\ vpc = "engine"
  /\ \/ dev' = target /\ vpc' = "route" /\ UNCHANGED <<req, target>> /\ NoFault
     \/ dev' = dev /\ Ends /\ Fault
  /\ UNCHANGED <<rules, refusing, table, routerVars, run, up, bringing,
                 markVars, storeVars, reported>>

\* unroute returned.
Unrouted ==
  /\ Leave
  /\ \/ /\ vpc = "unrouting"
        /\ up' = NoNode
        /\ vpc' = IF req = "remove" THEN "write" ELSE "engine"
        /\ UNCHANGED <<req, target>>
     \/ vpc = "undoing" /\ Ends /\ UNCHANGED up
  /\ UNCHANGED <<kernelVars, faults, run, bringing, markVars, storeVars,
                 reported>>

\* router.Up returned: a tunnel nothing routes into is not reported as up.
Routed ==
  /\ vpc = "routing"
  /\ Leave
  /\ reported' = errs
  /\ \/ errs /\ vpc' = "undo" /\ UNCHANGED up
     \/ ~errs /\ vpc' = "update" /\ up' = target
  /\ UNCHANGED <<kernelVars, faults, run, req, target, bringing, markVars,
                 storeVars>>

\* The choice is saved on a fresh read.
Update ==
  /\ vpc = "update"
  /\ vread' = [doc EXCEPT !.active = target]
  /\ vpc' = "write"
  /\ UNCHANGED <<kernelVars, routerVars, faults, run, up, req, target, bringing,
                 markVars, doc, aread, reported>>

\* The copy is written; a bringBack whose attempt succeeded is done.
Save ==
  /\ vpc = "write"
  /\ Ends /\ vread' = Nothing
  /\ \/ /\ doc' = vread
        /\ bringing' = IF req = "bringBack" THEN NoNode ELSE bringing
        /\ NoFault
     \/ UNCHANGED <<doc, bringing>> /\ Fault
  /\ UNCHANGED <<kernelVars, routerVars, run, up, markVars, aread, reported>>

\* The panel's own import of a configuration replaces the whole document.
ReplaceDocument(d) ==
  /\ run = "serving"
  /\ doc' = d
  /\ UNCHANGED <<kernelVars, routerVars, faults, run, vpnVars, markVars, vread,
                 aread, reported>>

-----------------------------------------------------------------------------
(* routingManager.                                                          *)

SetRules(b) ==
  /\ run = "serving" /\ apc = "idle"
  /\ aread' = [doc EXCEPT !.rules = b]
  /\ apc' = "write"
  /\ UNCHANGED <<kernelVars, routerVars, faults, run, vpnVars, marking, applier,
                 retrying, doc, vread, reported>>

RulesSaved ==
  /\ apc = "write"
  /\ apc' = "idle" /\ aread' = Nothing
  /\ \/ doc' = aread /\ NoFault
     \/ doc' = doc /\ Fault
  /\ UNCHANGED <<kernelVars, routerVars, run, vpnVars, marking, applier,
                 retrying, vread, reported>>

\* Apply, asked for by the operator or repeated by applyUntilDone, reads the
\* rules.
ApplyRules(who) ==
  /\ apc = "idle"
  /\ \/ who = "person" /\ run = "serving"
     \/ who = "retry" /\ retrying
  /\ apc' = "ensure" /\ applier' = who
  /\ aread' = [Nothing EXCEPT !.rules = doc.rules]
  /\ UNCHANGED <<kernelVars, routerVars, faults, run, vpnVars, marking,
                 retrying, doc, vread, reported>>

\* Mutant: a failure at start is only logged.
ApplyReturnsOnce(ok) ==
  /\ apc' = "idle" /\ applier' = "none" /\ aread' = Nothing
  /\ run' = IF applier = "start" THEN "serving" ELSE run
  /\ retrying' = IF applier = "person" THEN retrying ELSE FALSE

\* Apply returns: a failure at start hands over to applyUntilDone, which ends
\* with the first success of its own.
ApplyReturns(ok) ==
  /\ apc' = "idle" /\ applier' = "none" /\ aread' = Nothing
  /\ run' = IF applier = "start" THEN "serving" ELSE run
  /\ retrying' = IF applier = "person" THEN retrying ELSE ~ok

\* Ensure returned to Apply: nothing is marked without the rules in place.
Ensured ==
  /\ apc = "ensuring"
  /\ Leave
  /\ reported' = errs
  /\ \/ errs /\ ApplyReturns(FALSE)
     \/ ~errs /\ apc' = "nft" /\ UNCHANGED <<run, applier, retrying, aread>>
  /\ UNCHANGED <<kernelVars, faults, vpnVars, marking, doc, vread>>

\* nft replaces the whole table in one transaction, or not at all; the local
\* network's interfaces may not be known yet.
Nft ==
  /\ apc = "nft"
  /\ \/ marking' = aread.rules /\ ApplyReturns(TRUE) /\ NoFault
     \/ marking' \in {marking, aread.rules} /\ ApplyReturns(FALSE) /\ Fault
  /\ UNCHANGED <<kernelVars, routerVars, vpnVars, doc, vread, reported>>

-----------------------------------------------------------------------------
(* Restore, and the process dying.                                          *)

Start ==
  /\ run = "dead"
  /\ run' = "rules"
  /\ UNCHANGED <<kernelVars, routerVars, faults, vpnVars, markVars, storeVars,
                 reported>>

\* vpnManager.Restore: the rules first; an error is only reported.
RestoreRules ==
  /\ run = "rules"
  /\ Enter("ensure")
  /\ run' = "ensuring"
  /\ UNCHANGED <<vpnVars, markVars, storeVars, reported>>

RulesRestored ==
  /\ run = "ensuring"
  /\ Leave
  /\ reported' = errs
  /\ run' = "node"
  /\ UNCHANGED <<kernelVars, faults, vpnVars, markVars, storeVars>>

\* Then the goroutine for the stored choice, unless the store cannot be read;
\* then routingManager.Apply.
RestoreNode ==
  /\ run = "node"
  /\ run' = "marks"
  /\ \/ bringing' = doc.active /\ NoFault
     \/ bringing' = NoNode /\ Fault
  /\ apc' = "ensure" /\ applier' = "start"
  /\ aread' = [Nothing EXCEPT !.rules = doc.rules]
  /\ UNCHANGED <<kernelVars, routerVars, up, vpc, req, target, marking,
                 retrying, doc, vread, reported>>

\* The process dies.  The kernel keeps rules and marks; a reboot does not.
Die(rebooted) ==
  /\ run # "dead"
  /\ Fault
  /\ run' = "dead"
  /\ up' = NoNode /\ vpc' = "idle" /\ req' = "none" /\ target' = NoNode
  /\ bringing' = NoNode
  /\ apc' = "idle" /\ applier' = "none" /\ retrying' = FALSE
  /\ step' = "free" /\ call' = "none" /\ left' = {} /\ idx' = 1 /\ errs' = FALSE
  /\ dev' = NoNode /\ table' = NoRoutes
  /\ IF rebooted
       THEN /\ rules' = NoRules
            /\ refusing' = [f \in Families |-> FALSE]
            /\ marking' = FALSE
       ELSE UNCHANGED <<rules, refusing, marking>>
  /\ vread' = Nothing /\ aread' = Nothing
  /\ reported' = TRUE
  /\ UNCHANGED <<fam, doc>>

-----------------------------------------------------------------------------
VpnStep == VpnEnters \/ EngineDown \/ EngineUp \/ Unrouted \/ Routed
           \/ Update \/ Save

ApplyStep == ApplyEnters \/ Ensured \/ Nft \/ RulesSaved

Restore == Start \/ RestoreRules \/ RulesRestored \/ RestoreNode

TunnelNext ==
  \/ Step
  \/ VpnStep \/ ApplyStep \/ Restore
  \/ BringBackOnce
  \/ \E n \in Nodes : ImportConfig(n) \/ Activate(n) \/ RemoveNode(n)
  \/ \E b \in BOOLEAN : SetRules(b)
  \/ \E d \in Imports : ReplaceDocument(d)
  \/ \E who \in {"person", "retry"} : ApplyRules(who)
  \/ ForeignRule /\ UNCHANGED <<run, vpnVars, markVars, storeVars, reported>>
  \/ \E b \in BOOLEAN : Die(b)

TunnelSpec == TunnelInit /\ [][TunnelNext]_tunnelVars

(***************************************************************************)
(* Commands run under a timeout and procd respawns the daemon, so whoever  *)
(* holds a mutex goes on.  A Go mutex does not starve a goroutine that     *)
(* waits for it (strong fairness of the steps that may have to wait), and  *)
(* the two retry loops never give up.  The operator owes nothing.          *)
(***************************************************************************)
TunnelFairness ==
  /\ WF_tunnelVars(Step) /\ WF_tunnelVars(Restore)
  /\ SF_tunnelVars(VpnStep) /\ SF_tunnelVars(ApplyStep)
  /\ SF_tunnelVars(BringBackOnce) /\ SF_tunnelVars(ApplyRules("retry"))

TunnelFairSpec == TunnelSpec /\ TunnelFairness

-----------------------------------------------------------------------------
\* NoLeak: a marked packet never leaves by the uplink, not while the rules are
\* rebuilt, not when a command of the rebuild fails, not when the daemon dies
\* in the middle of it, not during start, and not for what two managers do to
\* the router at the same time.
NoLeak == marking => \A f \in Families, inNets \in BOOLEAN : ~Leaks(f, inNets)

\* ReadsUpIsRouted: a connection that reads as up has its device and all of its
\* routes, and no route of the one before it.
ReadsUpIsRouted ==
  up # NoNode /\ vpc = "idle"
  => dev = up /\ \A f \in Families : table[f] = Allowed[up][f]

\* HoldIsReported: a hold that outlives its rebuild, and so refuses all marked
\* traffic, was reported by the Ensure that left it.
HoldIsReported ==
  step = "free" /\ ~reported => \A f \in Families : ~Ours(f, "hold")

\* PersonsChoiceStays: a connection that is up is never torn down by the
\* bringBack goroutine.
PersonsChoiceStays ==
  [][up # NoNode /\ up' # up /\ run' # "dead" => req # "bringBack"]_tunnelVars

\* BroughtBack: the goroutine that brings a connection back gets there, unless
\* somebody chose otherwise, the connection is no longer stored or the daemon
\* died.
BroughtBack ==
  \A n \in Nodes :
    bringing = n ~> \/ bringing # n /\ (up # NoNode \/ doc.active # n)
                    \/ n \notin doc.nodes
                    \/ run = "dead"

\* MarksComeBack: the rules a start finds stored are in force in the end, also
\* when they could not be applied at once, unless they are taken back.
MarksComeBack == applier = "start" /\ aread.rules ~> marking \/ ~doc.rules

-----------------------------------------------------------------------------
(* What the comments say, and the code does not keep to.                    *)

\* RulesStay: no call of vpnManager changes the saved rules.  The comment on
\* fileLocks (config/store.go) says that "a lock inside a Store would let them
\* overwrite each other", them being the holders of the one file; but an import
\* or a removal of a connection reads and writes the document without that
\* lock, and rules saved in between are gone.
RulesStay == [][vpc' # vpc => doc'.rules = doc.rules]_tunnelVars
=============================================================================
