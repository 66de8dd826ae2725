---------------------------- MODULE TunnelRouter ----------------------------
(***************************************************************************)
(* tunnelRouter (openwrt/tunnel_route.go): the policy-routing rules and    *)
(* the two tables that decide where traffic marked for the tunnel goes,    *)
(* and the steps by which Ensure, Up and Down change them.  Each step is   *)
(* one `ip' command, or several on the same priority; a command that fails *)
(* or times out may still have had its effect.  The managers that call the *)
(* router, and the process dying, are in TunnelManagers.                   *)
(***************************************************************************)
EXTENDS Naturals, Sequences

CONSTANTS
  Families,   \* the address families the kernel has
  Nodes,      \* connections the operator can activate
  Allowed,    \* Allowed[n][f]: the routes of connection n in family f
  ForeignAt,  \* bound: the priorities somebody else may put a rule on
  MaxFaults,  \* bound: commands that fail, foreign rules, deaths
  NoNode      \* no connection

Routes == {"default", "nets"}

ASSUME TunnelAssumption == /\ Families # {}
                           /\ Allowed \in [Nodes -> [Families -> SUBSET Routes]]
                           /\ NoNode \notin Nodes
                           /\ MaxFaults \in Nat

\* wantRules, in the order they are deleted and added; "hold" is apart.
WantRules == <<"bypass", "marked", "refuse", "local", "nets">>
Want == {"bypass", "marked", "refuse", "local", "nets"}
Priorities == Want \cup {"hold"}

ASSUME ForeignAssumption == ForeignAt \subseteq Priorities

Steps == {"free", "check", "refuseRoute", "hold", "delete", "add", "verify",
          "release", "end", "flush", "routes", "return"}
Calls == {"none", "ensure", "up", "down"}

VARIABLES
  rules,     \* rules[f][p]: whose rules sit on priority p, "ours" or "foreign"
  refusing,  \* refusing[f]: table 148 has its unreachable default route
  table,     \* table[f]: the routes in table 147
  dev,       \* the connection whose device exists
  step,      \* the router's next command; "free": its mutex is free
  call,      \* the method that holds the mutex
  left, fam, \* families not done yet, and the one being done
  idx,       \* position in WantRules
  errs,      \* the method has an error to report
  faults     \* commands failed, foreign rules and deaths so far

kernelVars == <<rules, refusing, table, dev>>
routerVars == <<step, call, left, fam, idx, errs>>

RouterTypeOK ==
  /\ rules \in [Families -> [Priorities -> SUBSET {"ours", "foreign"}]]
  /\ refusing \in [Families -> BOOLEAN]
  /\ table \in [Families -> SUBSET Routes]
  /\ dev \in Nodes \cup {NoNode}
  /\ step \in Steps
  /\ call \in Calls
  /\ left \subseteq Families
  /\ fam \in Families
  /\ idx \in 1 .. 5
  /\ errs \in BOOLEAN
  /\ faults \in 0 .. MaxFaults

-----------------------------------------------------------------------------
Ours(f, p) == "ours" \in rules[f][p]

NoRules  == [f \in Families |-> [p \in Priorities |-> {}]]
NoRoutes == [f \in Families |-> {}]

RouterInit ==
  /\ rules = NoRules
  /\ refusing = [f \in Families |-> FALSE]
  /\ table = NoRoutes
  /\ dev = NoNode
  /\ step = "free" /\ call = "none"
  /\ left = {} /\ fam \in Families /\ idx = 1 /\ errs = FALSE
  /\ faults = 0

Fault == faults < MaxFaults /\ faults' = faults + 1
NoFault == faults' = faults

Goto(s) == step' = s /\ UNCHANGED <<call, left, fam, idx, errs>>

\* The rest of the loop over the families, or its end.
NextFamily(err) ==
  /\ errs' = err
  /\ idx' = 1
  /\ \/ left = {} /\ step' = "end" /\ UNCHANGED <<left, fam>>
     \/ \E f \in left : fam' = f /\ left' = left \ {f} /\ step' = "check"
  /\ UNCHANGED call

\* A method takes the router's mutex.
Enter(c) ==
  /\ step = "free"
  /\ call' = c /\ errs' = FALSE /\ idx' = 1
  /\ IF c = "down"
       THEN step' = "flush" /\ UNCHANGED <<left, fam>>
       ELSE \E f \in Families :
              fam' = f /\ left' = Families \ {f} /\ step' = "check"
  /\ UNCHANGED <<kernelVars, faults>>

\* It returns and lets go of the mutex; the caller looks at errs.
Leave == step = "return" /\ step' = "free" /\ call' = "none"
         /\ errs' = FALSE
         /\ UNCHANGED <<left, fam, idx>>

PutRules(f, p, S) == rules' = [rules EXCEPT ![f][p] = S]
WithOurs(f, p) == [rules EXCEPT ![f][p] = @ \cup {"ours"}]

\* inPlace, when both `ip ... show' commands answer.
InPlace(f) == refusing[f] /\ \A p \in Want : rules[f][p] = {"ours"}

-----------------------------------------------------------------------------
(* ensureLocked, for one family.                                            *)

\* A list that cannot be read counts as not in place.
Check ==
  /\ step = "check"
  /\ \/ InPlace(fam) /\ Goto("release") /\ NoFault
     \/ ~InPlace(fam) /\ Goto("refuseRoute") /\ NoFault
     \/ InPlace(fam) /\ Goto("refuseRoute") /\ Fault
  /\ UNCHANGED kernelVars

RefuseRoute ==
  /\ step = "refuseRoute"
  /\ \/ /\ refusing' = [refusing EXCEPT ![fam] = TRUE]
        /\ Goto("hold")
        /\ NoFault
     \/ /\ refusing' \in {refusing, [refusing EXCEPT ![fam] = TRUE]}
        /\ NextFamily(TRUE)
        /\ Fault
  /\ UNCHANGED <<rules, table, dev>>

\* Mutant: the rebuild starts without its hold.
HoldNothing ==
  /\ step = "hold"
  /\ Goto("delete") /\ NoFault
  /\ UNCHANGED kernelVars

\* A hold that is there alone is kept; the kernel refuses to add a rule it has.
Hold ==
  /\ step = "hold"
  /\ \/ /\ ~Ours(fam, "hold") \/ rules[fam]["hold"] = {"ours"}
        /\ rules' = WithOurs(fam, "hold")
        /\ Goto("delete")
        /\ NoFault
     \/ /\ rules[fam]["hold"] = {"ours", "foreign"}
        /\ rules' = rules
        /\ NextFamily(TRUE)
        /\ NoFault
     \/ /\ rules' \in {rules, WithOurs(fam, "hold")}
        /\ NextFamily(TRUE)
        /\ Fault
  /\ UNCHANGED <<refusing, table, dev>>

\* Mutant: the loop goes one position too far.
AdvancePast(s) ==
  /\ IF idx <= Len(WantRules) THEN idx' = idx + 1 /\ step' = step
                              ELSE idx' = 1 /\ step' = s
  /\ UNCHANGED <<call, left, fam>>

\* The loop over wantRules: on to the next position, or to the next loop.
Advance(s) ==
  /\ IF idx < Len(WantRules) THEN idx' = idx + 1 /\ step' = step
                             ELSE idx' = 1 /\ step' = s
  /\ UNCHANGED <<call, left, fam>>

\* deleteAll on one priority; it stops at the first error.
DeleteAll ==
  /\ step = "delete"
  /\ \E S \in SUBSET rules[fam][WantRules[idx]] :
       /\ PutRules(fam, WantRules[idx], S)
       /\ IF S = {} THEN NoFault ELSE Fault
  /\ Advance("add")
  /\ UNCHANGED <<errs, refusing, table, dev>>

Add ==
  /\ step = "add"
  /\ \/ /\ ~Ours(fam, WantRules[idx])
        /\ rules' = WithOurs(fam, WantRules[idx])
        /\ errs' = errs
        /\ NoFault
     \/ /\ Ours(fam, WantRules[idx])
        /\ rules' = rules
        /\ errs' = TRUE
        /\ NoFault
     \/ /\ rules' \in {rules, WithOurs(fam, WantRules[idx])}
        /\ errs' = TRUE
        /\ Fault
  /\ Advance("verify")
  /\ UNCHANGED <<refusing, table, dev>>

Verify ==
  /\ step = "verify"
  /\ \/ InPlace(fam) /\ Goto("release") /\ NoFault
     \/ ~InPlace(fam) /\ NextFamily(TRUE) /\ NoFault
     \/ InPlace(fam) /\ NextFamily(TRUE) /\ Fault
  /\ UNCHANGED kernelVars

\* Mutant: nobody looks whether the hold is gone.
ReleaseUnchecked ==
  /\ step = "release"
  /\ \E S \in SUBSET rules[fam]["hold"] :
       /\ PutRules(fam, "hold", S)
       /\ IF S = {} THEN NoFault ELSE Fault
  /\ NextFamily(errs)
  /\ UNCHANGED <<refusing, table, dev>>

\* release: the hold's priority is emptied, and the result looked at.
Release ==
  /\ step = "release"
  /\ \E S \in SUBSET rules[fam]["hold"] :
       /\ PutRules(fam, "hold", S)
       /\ \/ S = {} /\ NextFamily(errs) /\ NoFault
          \/ NextFamily(TRUE) /\ Fault
  /\ UNCHANGED <<refusing, table, dev>>

EnsureEnds ==
  /\ step = "end"
  /\ Goto(IF call = "up" /\ ~errs THEN "flush" ELSE "return")
  /\ UNCHANGED <<kernelVars, faults>>

-----------------------------------------------------------------------------
(* The connection's table.                                                  *)

\* flush ignores errors.
Flush ==
  /\ step = "flush"
  /\ \E F \in SUBSET Families :
       /\ table' = [f \in Families |-> IF f \in F THEN {} ELSE table[f]]
       /\ IF F = Families THEN NoFault ELSE Fault
  /\ Goto(IF call = "up" THEN "routes" ELSE "return")
  /\ UNCHANGED <<rules, refusing, dev>>

\* Mutant: a route that could not be added goes unreported.
AddRoutesQuietly ==
  /\ step = "routes"
  /\ \E F \in SUBSET Families :
       /\ table' = [f \in Families |-> IF f \in F
                                       THEN table[f] \cup Allowed[dev][f]
                                       ELSE table[f]]
       /\ IF F = Families THEN NoFault ELSE Fault
  /\ Goto("return")
  /\ UNCHANGED <<rules, refusing, dev>>

\* Up routes the connection's networks through its device.
AddRoutes ==
  /\ step = "routes"
  /\ \E F \in SUBSET Families :
       /\ table' = [f \in Families |-> IF f \in F
                                       THEN table[f] \cup Allowed[dev][f]
                                       ELSE table[f]]
       /\ \/ F = Families /\ errs' = errs /\ NoFault
          \/ errs' = TRUE /\ Fault
  /\ step' = "return"
  /\ UNCHANGED <<rules, refusing, dev, call, left, fam, idx>>

RouterStep ==
  \/ Check \/ RefuseRoute \/ Hold \/ DeleteAll \/ Add \/ Verify \/ Release
  \/ EnsureEnds \/ Flush \/ AddRoutes

\* Somebody else puts a rule of their own on one of the priorities.
ForeignRule ==
  /\ \E f \in Families, p \in ForeignAt :
       /\ "foreign" \notin rules[f][p]
       /\ rules' = [rules EXCEPT ![f][p] = @ \cup {"foreign"}]
  /\ Fault
  /\ UNCHANGED <<refusing, table, dev, routerVars>>

-----------------------------------------------------------------------------
(* What the kernel does with a packet: the rules in order of priority.      *)

\* Table 147 has a route for an address inside the connection's networks, or
\* for any other.
Reaches(f, inNets) ==
  "default" \in table[f] \/ (inNets /\ "nets" \in table[f])

\* Marked traffic that is neither refused nor sent into the tunnel leaves by
\* the uplink, or by main's route to one of the router's own networks.
Leaks(f, inNets) ==
  /\ ~(Ours(f, "hold") /\ refusing[f])
  /\ ~(Ours(f, "marked") /\ Reaches(f, inNets))
  /\ ~(Ours(f, "refuse") /\ refusing[f])

=============================================================================
