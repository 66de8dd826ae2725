---------------------------- MODULE TunnelProofs ----------------------------
(***************************************************************************)
(* The safety properties of TunnelManagers, proved for every set of        *)
(* address families, connections and foreign priorities and every number   *)
(* of faults.                                                              *)
(***************************************************************************)
EXTENDS TunnelManagers, TLAPS

InFamily == {"check", "refuseRoute", "hold", "delete", "add", "verify", "release"}
Building == {"delete", "add", "verify"}

\* One call at a time is inside the router, and its caller waits for it.
LockInv ==
  /\ step = "free" <=> call = "none"
  /\ run \in {"dead", "rules", "ensuring", "node"}
     => apc = "idle" /\ vpc = "idle" /\ ~retrying /\ bringing = NoNode
  /\ run = "ensuring" => call = "ensure"
  /\ apc = "ensuring" => call = "ensure"
  /\ vpc = "routing" <=> call = "up"
  /\ vpc \in {"unrouting", "undoing"} <=> call = "down"
  /\ step \in InFamily \cup {"end"} => call \in {"ensure", "up"}
  /\ step = "flush" => call \in {"up", "down"}
  /\ step = "routes" => call = "up"

\* The hold is there before the first rule goes, and goes only after the
\* permanent refusal was seen.
HoldInv ==
  /\ step \in Building \cup {"hold"} => refusing[fam]
  /\ step \in Building => Ours(fam, "hold")
  /\ step = "release" => refusing[fam] /\ Ours(fam, "refuse")

\* A family whose rules are done refuses what is marked, and is not held.
Done(f) == refusing[f] /\ Ours(f, "refuse") /\ ~Ours(f, "hold")

\* An Ensure that has no error to report has done the families it has left.
DoneInv ==
  /\ step \in InFamily /\ ~errs => \A f \in Families \ (left \cup {fam}) : Done(f)
  /\ step \in {"end", "flush", "routes", "return"} /\ call \in {"ensure", "up"}
     /\ ~errs
     => \A f \in Families : Done(f)
  /\ call \in {"none", "down"} /\ ~reported
     => \A f \in Families : ~Ours(f, "hold")

Refused(f) == refusing[f] /\ (Ours(f, "hold") \/ Ours(f, "refuse"))

\* Nothing is marked, or about to be, that is not refused.
RefusedInv == marking \/ apc = "nft" => \A f \in Families : Refused(f)

\* The device and the routes at each step of a call of vpnManager.
DeviceInv ==
  /\ vpc \in {"engine", "route", "routing", "undo", "undoRoute", "undoing"}
     => up = NoNode
  /\ \/ vpc \in {"unroute", "unrouting", "undoRoute", "undoing", "engine"}
     \/ up = NoNode /\ vpc \in {"idle", "write"}
     => dev = NoNode /\ table = NoRoutes
  /\ vpc \in {"engine", "route", "routing", "update"} => target \in Nodes
  /\ vpc = "update" => up # NoNode
  /\ vpc \in {"route", "routing"} => dev = target
  /\ vpc = "route" \/ (vpc = "routing" /\ step # "return") => table = NoRoutes
  /\ vpc = "routing" /\ step = "return" /\ ~errs => table = Allowed[dev]
  /\ up # NoNode /\ vpc \in {"idle", "update", "write"}
     => dev = up /\ table = Allowed[up]
  /\ vpc \in {"down", "unroute", "unrouting"} => req # "bringBack"
  /\ vpc \in {"down", "unroute", "unrouting"} /\ req # "remove" => target \in Nodes

TunnelInv == TunnelTypeOK /\ LockInv /\ HoldInv /\ DoneInv /\ RefusedInv /\ DeviceInv

-----------------------------------------------------------------------------
\* A command that fails stays within the bound on faults.
LEMMA FaultBound ==
  ASSUME faults \in 0 .. MaxFaults, Fault \/ NoFault
  PROVE  faults' \in 0 .. MaxFaults
BY TunnelAssumption DEF Fault, NoFault

\* What is refused does not leave by the uplink.
LEMMA RefusedIsNoLeak ==
  ASSUME NEW f \in Families, Refused(f), NEW inNets \in BOOLEAN
  PROVE  ~Leaks(f, inNets)
BY DEF Refused, Leaks

\* At boot nothing is marked, held or routed.
LEMMA InitTunnelInv == TunnelInit => TunnelInv
<1> SUFFICES ASSUME TunnelInit PROVE TunnelInv
  OBVIOUS
<1> USE DEF TunnelInit, RouterInit
<1>0. RouterTypeOK
  <2>1. rules \in [Families -> [Priorities -> SUBSET {"ours", "foreign"}]]
    BY DEF NoRules
  <2>2. table \in [Families -> SUBSET Routes]
    BY DEF NoRoutes
  <2>3. refusing \in [Families -> BOOLEAN]
    OBVIOUS
  <2>4. faults \in 0 .. MaxFaults /\ idx \in 1 .. 5
    BY TunnelAssumption
  <2> QED
    BY <2>1, <2>2, <2>3, <2>4 DEF RouterTypeOK, Steps, Calls
<1>1. TunnelTypeOK
  <2>1. Nothing \in Documents
    BY DEF Nothing, Documents
  <2>2. doc \in Documents
    OBVIOUS
  <2> QED
    BY <1>0, <2>1, <2>2 DEF TunnelTypeOK, VpnSteps
<1>2. LockInv
  BY DEF LockInv, InFamily
<1>3. HoldInv /\ DoneInv
  BY DEF HoldInv, DoneInv, Building, InFamily, Ours, NoRules, Priorities, Want
<1>4. RefusedInv /\ DeviceInv
  BY DEF RefusedInv, DeviceInv, NoRoutes
<1> QED
  BY <1>1, <1>2, <1>3, <1>4 DEF TunnelInv

-----------------------------------------------------------------------------
(* The router's own steps.                                                  *)

Managers == <<run, vpnVars, markVars, storeVars, reported>>

\* A step of the router leaves the kernel's state of the other families alone.
OthersKept ==
  \A g \in Families \ {fam} : rules'[g] = rules[g] /\ refusing'[g] = refusing[g]

\* The managers keep their types while the router steps.
LEMMA ManagersType ==
  ASSUME TunnelTypeOK, RouterTypeOK', UNCHANGED Managers
  PROVE  TunnelTypeOK'
BY DEF TunnelTypeOK, Managers, vpnVars, markVars, storeVars

\* What NextFamily leaves: the done families are those not in left before.
LEMMA NextFamilyFacts ==
  ASSUME RouterTypeOK, NEW e \in BOOLEAN, NextFamily(e)
  PROVE  /\ errs' = e /\ idx' = 1 /\ call' = call
         /\ left' \subseteq Families /\ fam' \in Families
         /\ step' \in {"end", "check"}
         /\ step' = "check" => Families \ (left' \cup {fam'}) = Families \ left
         /\ step' = "end" => left = {}
BY DEF RouterTypeOK, NextFamily

\* The types when a family is left, whatever the last command did to its rules.
LEMMA FamilyEndsType ==
  ASSUME RouterTypeOK, NEW e \in BOOLEAN, NextFamily(e),
         rules' \in [Families -> [Priorities -> SUBSET {"ours", "foreign"}]],
         refusing' \in [Families -> BOOLEAN],
         UNCHANGED <<table, dev>>, faults' \in 0 .. MaxFaults
  PROVE  RouterTypeOK'
<1>1. /\ errs' = e /\ idx' = 1 /\ call' = call
      /\ left' \subseteq Families /\ fam' \in Families
      /\ step' \in {"end", "check"}
  BY NextFamilyFacts
<1> QED
  BY <1>1 DEF RouterTypeOK, Steps

\* Refusing the families that were refused keeps RefusedInv.
LEMMA RefusedKept ==
  ASSUME RefusedInv, RouterTypeOK, UNCHANGED Managers, OthersKept,
         \A f \in Families : f = fam /\ Refused(f) => Refused(f)'
  PROVE  RefusedInv'
<1> SUFFICES ASSUME (marking \/ apc = "nft")', NEW f \in Families
             PROVE  Refused(f)'
  BY DEF RefusedInv
<1>1. Refused(f)
  BY DEF RefusedInv, Managers, markVars
<1>2. CASE f = fam
  BY <1>1, <1>2
<1>3. CASE f # fam
  BY <1>1, <1>3 DEF OthersKept, Refused, Ours
<1> QED
  BY <1>2, <1>3

\* A family that ends with an error to report, or done, keeps DoneInv and the
\* rest of what is known between families.
LEMMA FamilyEnds ==
  ASSUME TunnelInv, step \in InFamily, NEW e \in BOOLEAN, NextFamily(e),
         UNCHANGED Managers, UNCHANGED <<table, dev>>, OthersKept,
         ~e => ~errs /\ \A f \in Families : f = fam => Done(f)'
  PROVE  LockInv' /\ HoldInv' /\ DoneInv' /\ DeviceInv'
<1> USE DEF TunnelInv, TunnelTypeOK
<1>0. /\ errs' = e /\ call' = call /\ step' \in {"end", "check"}
      /\ step' = "check" => Families \ (left' \cup {fam'}) = Families \ left
      /\ step' = "end" => left = {}
  BY NextFamilyFacts
<1>1. LockInv'
  BY <1>0 DEF LockInv, InFamily, Managers, vpnVars, markVars
<1>2. HoldInv'
  BY <1>0 DEF HoldInv, Building
<1>3. DoneInv'
  <2>1. call' \in {"ensure", "up"}
    BY <1>0 DEF LockInv
  <2>2. ASSUME ~errs', NEW f \in Families \ left
        PROVE  Done(f)'
    <3>1. CASE f = fam
      BY <2>2, <3>1, <1>0
    <3>2. CASE f # fam
      <4>1. Done(f)
        BY <2>2, <3>2, <1>0 DEF DoneInv
      <4> QED
        BY <4>1, <3>2 DEF OthersKept, Done, Ours
    <3> QED
      BY <3>1, <3>2
  <2> QED
    BY <2>1, <2>2, <1>0 DEF DoneInv, InFamily
<1>4. DeviceInv'
  BY <1>0 DEF DeviceInv, InFamily, Managers, vpnVars
<1> QED
  BY <1>1, <1>2, <1>3, <1>4

\* A step inside a family, towards another.
LEMMA FamilyGoesOn ==
  ASSUME TunnelInv, step \in InFamily, step' \in InFamily,
         UNCHANGED <<call, left, fam>>, errs => errs', errs' \in BOOLEAN,
         UNCHANGED Managers, UNCHANGED <<table, dev>>, OthersKept
  PROVE  LockInv' /\ DoneInv' /\ DeviceInv'
<1> USE DEF TunnelInv, TunnelTypeOK
<1>1. LockInv'
  BY DEF LockInv, InFamily, Managers, vpnVars, markVars
<1>2. DoneInv'
  <2>1. call' \in {"ensure", "up"}
    BY DEF LockInv
  <2>2. ASSUME ~errs', NEW f \in Families \ (left' \cup {fam'})
        PROVE  Done(f)'
    <3>1. Done(f) /\ f # fam
      BY <2>2 DEF DoneInv
    <3> QED
      BY <3>1 DEF OthersKept, Done, Ours
  <2> QED
    BY <2>1, <2>2 DEF DoneInv, InFamily
<1>3. DeviceInv'
  BY DEF DeviceInv, InFamily, Managers, vpnVars
<1> QED
  BY <1>1, <1>2, <1>3

\* Check and Verify only look.
LEMMA LooksKeeps ==
  ASSUME TunnelInv, Check \/ Verify, UNCHANGED Managers
  PROVE  TunnelInv'
<1> USE DEF TunnelInv, TunnelTypeOK
<1>0. /\ UNCHANGED kernelVars /\ step \in {"check", "verify"}
      /\ faults' \in 0 .. MaxFaults /\ OthersKept
  BY FaultBound DEF Check, Verify, kernelVars, RouterTypeOK, OthersKept
<1>1. RefusedInv'
  BY <1>0, RefusedKept DEF Refused, Ours, kernelVars
<1>2. CASE NextFamily(TRUE)
  <2>1. RouterTypeOK'
    BY <1>0, <1>2, FamilyEndsType DEF kernelVars, RouterTypeOK
  <2>2. LockInv' /\ HoldInv' /\ DoneInv' /\ DeviceInv'
    BY <1>0, <1>2, FamilyEnds DEF InFamily, kernelVars
  <2> QED
    BY <1>1, <2>1, <2>2, ManagersType
<1>3. CASE Goto("release") /\ InPlace(fam)
  <2>1. RouterTypeOK'
    BY <1>0, <1>3 DEF RouterTypeOK, kernelVars, Steps, Goto
  <2>2. LockInv' /\ DoneInv' /\ DeviceInv'
    BY <1>0, <1>3, FamilyGoesOn DEF InFamily, kernelVars, Goto, RouterTypeOK
  <2>3. HoldInv'
    BY <1>0, <1>3 DEF HoldInv, Building, Goto, InPlace, Want, Ours, kernelVars
  <2> QED
    BY <1>1, <2>1, <2>2, <2>3, ManagersType
<1>4. CASE Goto("refuseRoute")
  <2>1. RouterTypeOK'
    BY <1>0, <1>4 DEF RouterTypeOK, kernelVars, Steps, Goto
  <2>2. LockInv' /\ DoneInv' /\ DeviceInv'
    BY <1>0, <1>4, FamilyGoesOn DEF InFamily, kernelVars, Goto, RouterTypeOK
  <2>3. HoldInv'
    BY <1>4 DEF HoldInv, Building, Goto
  <2> QED
    BY <1>1, <2>1, <2>2, <2>3, ManagersType
<1> QED
  BY <1>2, <1>3, <1>4 DEF Check, Verify

\* The refusing route goes in before the hold that points to it.
LEMMA RefuseRouteKeeps ==
  ASSUME TunnelInv, RefuseRoute, UNCHANGED Managers
  PROVE  TunnelInv'
<1> USE DEF TunnelInv, TunnelTypeOK
<1>0. /\ UNCHANGED <<rules, table, dev>> /\ step = "refuseRoute"
      /\ faults' \in 0 .. MaxFaults
      /\ refusing' \in {refusing, [refusing EXCEPT ![fam] = TRUE]}
  BY FaultBound DEF RefuseRoute, RouterTypeOK
<1>1. OthersKept /\ refusing' \in [Families -> BOOLEAN]
      /\ (refusing[fam] => refusing'[fam])
  BY <1>0 DEF OthersKept, RouterTypeOK
<1>2. RefusedInv'
  BY <1>0, <1>1, RefusedKept DEF Refused, Ours
<1>3. CASE NextFamily(TRUE)
  <2>1. RouterTypeOK'
    BY <1>0, <1>1, <1>3, FamilyEndsType DEF RouterTypeOK
  <2>2. LockInv' /\ HoldInv' /\ DoneInv' /\ DeviceInv'
    BY <1>0, <1>1, <1>3, FamilyEnds DEF InFamily
  <2> QED
    BY <1>2, <2>1, <2>2, ManagersType
<1>4. CASE Goto("hold") /\ refusing' = [refusing EXCEPT ![fam] = TRUE]
  <2>1. RouterTypeOK'
    BY <1>0, <1>1, <1>4 DEF RouterTypeOK, Steps, Goto
  <2>2. LockInv' /\ DoneInv' /\ DeviceInv'
    BY <1>0, <1>1, <1>4, FamilyGoesOn DEF InFamily, Goto, RouterTypeOK
  <2>3. HoldInv'
    <3>1. refusing'[fam] = TRUE
      BY <1>4 DEF RouterTypeOK
    <3> QED
      BY <1>4, <3>1 DEF HoldInv, Building, Goto
  <2> QED
    BY <1>2, <2>1, <2>2, <2>3, ManagersType
<1> QED
  BY <1>3, <1>4 DEF RefuseRoute

\* The hold goes in, or nothing else is touched.
LEMMA HoldKeeps ==
  ASSUME TunnelInv, Hold, UNCHANGED Managers
  PROVE  TunnelInv'
<1> USE DEF TunnelInv, TunnelTypeOK
<1>0. /\ UNCHANGED <<refusing, table, dev>> /\ step = "hold"
      /\ faults' \in 0 .. MaxFaults
      /\ rules' \in {rules, WithOurs(fam, "hold")}
  BY FaultBound DEF Hold, RouterTypeOK
<1>1. /\ rules' \in [Families -> [Priorities -> SUBSET {"ours", "foreign"}]]
      /\ OthersKept
      /\ \A p \in Priorities : "ours" \in rules[fam][p] => "ours" \in rules'[fam][p]
  <2>1. CASE rules' = rules
    BY <1>0, <2>1 DEF OthersKept, RouterTypeOK
  <2>2. CASE rules' = WithOurs(fam, "hold")
    <3> DEFINE S == rules[fam]["hold"] \cup {"ours"}
    <3>1. "hold" \in Priorities /\ fam \in Families
      BY DEF Priorities, RouterTypeOK
    <3>2. S \in SUBSET {"ours", "foreign"}
      BY <3>1 DEF RouterTypeOK
    <3>3. rules' = [rules EXCEPT ![fam]["hold"] = S]
      BY <2>2 DEF WithOurs
    <3> QED
      BY <1>0, <3>1, <3>2, <3>3 DEF OthersKept, RouterTypeOK
  <2> QED
    BY <1>0, <2>1, <2>2
<1>2. RefusedInv'
  BY <1>0, <1>1, RefusedKept DEF Refused, Ours, Priorities, Want
<1>3. CASE NextFamily(TRUE)
  <2>1. RouterTypeOK'
    BY <1>0, <1>1, <1>3, FamilyEndsType DEF RouterTypeOK
  <2>2. LockInv' /\ HoldInv' /\ DoneInv' /\ DeviceInv'
    BY <1>0, <1>1, <1>3, FamilyEnds DEF InFamily
  <2> QED
    BY <1>2, <2>1, <2>2, ManagersType
<1>4. CASE Goto("delete") /\ rules' = WithOurs(fam, "hold") /\ refusing[fam]
  <2>1. RouterTypeOK'
    BY <1>0, <1>1, <1>4 DEF RouterTypeOK, Steps, Goto
  <2>2. LockInv' /\ DoneInv' /\ DeviceInv'
    BY <1>0, <1>1, <1>4, FamilyGoesOn DEF InFamily, Goto, RouterTypeOK
  <2>3. HoldInv'
    <3>1. "ours" \in rules'[fam]["hold"]
      BY <1>4 DEF WithOurs, RouterTypeOK, Priorities
    <3> QED
      BY <1>0, <1>4, <3>1 DEF HoldInv, Building, Goto, Ours
  <2> QED
    BY <1>2, <2>1, <2>2, <2>3, ManagersType
<1>5. refusing[fam]
  BY <1>0 DEF HoldInv
<1> QED
  BY <1>3, <1>4, <1>5 DEF Hold

\* The priority at a position of WantRules.
LEMMA Position ==
  ASSUME RouterTypeOK
  PROVE  /\ WantRules[idx] \in Want /\ WantRules[idx] \in Priorities
         /\ WantRules[idx] # "hold"
<1>1. idx = 1 \/ idx = 2 \/ idx = 3 \/ idx = 4 \/ idx = 5
  BY DEF RouterTypeOK
<1> QED
  BY <1>1 DEF WantRules, Want, Priorities

\* The steps of the loops over WantRules: the hold is there throughout.
LEMMA LoopKeeps ==
  ASSUME TunnelInv, DeleteAll \/ Add, UNCHANGED Managers
  PROVE  TunnelInv'
<1> USE DEF TunnelInv, TunnelTypeOK
<1>0. /\ UNCHANGED <<refusing, table, dev, call, left, fam>>
      /\ step \in {"delete", "add"} /\ step' \in Building
      /\ faults' \in 0 .. MaxFaults
      /\ errs' \in BOOLEAN /\ (errs => errs')
  BY FaultBound DEF DeleteAll, Add, Advance, Building, RouterTypeOK
<1>1. idx' \in 1 .. 5
  <2>1. Len(WantRules) = 5
    BY DEF WantRules
  <2> QED
    BY <2>1 DEF DeleteAll, Add, Advance, RouterTypeOK
<1>2. fam \in Families /\ refusing[fam] /\ "ours" \in rules[fam]["hold"]
  BY <1>0 DEF HoldInv, Building, Ours, RouterTypeOK
<1>3. \E S \in SUBSET {"ours", "foreign"} :
        rules' = [rules EXCEPT ![fam][WantRules[idx]] = S]
  <2>1. CASE DeleteAll
    <3>1. PICK S \in SUBSET rules[fam][WantRules[idx]] :
            PutRules(fam, WantRules[idx], S)
      BY <2>1 DEF DeleteAll
    <3>2. rules[fam][WantRules[idx]] \in SUBSET {"ours", "foreign"}
      BY Position, <1>2 DEF RouterTypeOK
    <3>3. S \in SUBSET {"ours", "foreign"}
      BY <3>2
    <3> QED
      BY <3>1, <3>3 DEF PutRules
  <2>2. CASE Add
    <3>0. rules[fam][WantRules[idx]] \in SUBSET {"ours", "foreign"}
      BY Position, <1>2 DEF RouterTypeOK
    <3>1. CASE rules' = rules
      <4>1. rules = [rules EXCEPT ![fam][WantRules[idx]] = rules[fam][WantRules[idx]]]
        BY Position, <1>2 DEF RouterTypeOK
      <4> QED
        BY <3>0, <3>1, <4>1
    <3>2. CASE rules' = WithOurs(fam, WantRules[idx])
      <4>1. rules' = [rules EXCEPT ![fam][WantRules[idx]] =
                        rules[fam][WantRules[idx]] \cup {"ours"}]
        BY <3>2 DEF WithOurs
      <4> QED
        BY <3>0, <4>1
    <3> QED
      BY <2>2, <3>1, <3>2 DEF Add
  <2> QED
    BY <2>1, <2>2
<1>4. PICK S \in SUBSET {"ours", "foreign"} :
        rules' = [rules EXCEPT ![fam][WantRules[idx]] = S]
  BY <1>3
<1>5. /\ rules' \in [Families -> [Priorities -> SUBSET {"ours", "foreign"}]]
      /\ rules'[fam]["hold"] = rules[fam]["hold"]
      /\ OthersKept
  BY <1>0, <1>2, <1>4, Position DEF RouterTypeOK, OthersKept, Priorities
<1>6. RouterTypeOK'
  BY <1>0, <1>1, <1>5 DEF RouterTypeOK, Building, Steps
<1>7. LockInv' /\ DoneInv' /\ DeviceInv'
  BY <1>0, <1>5, FamilyGoesOn DEF InFamily, Building
<1>8. HoldInv'
  BY <1>0, <1>2, <1>5 DEF HoldInv, Building, Ours
<1>9. RefusedInv'
  BY <1>0, <1>2, <1>5, RefusedKept DEF Refused, Ours
<1> QED
  BY <1>6, <1>7, <1>8, <1>9, ManagersType

\* The hold goes only where the permanent refusal was verified.
LEMMA ReleaseKeeps ==
  ASSUME TunnelInv, Release, UNCHANGED Managers
  PROVE  TunnelInv'
<1> USE DEF TunnelInv, TunnelTypeOK
<1>0. PICK S \in SUBSET rules[fam]["hold"] :
        /\ PutRules(fam, "hold", S)
        /\ \/ S = {} /\ NextFamily(errs) /\ NoFault
           \/ NextFamily(TRUE) /\ Fault
  BY DEF Release
<1>1. /\ UNCHANGED <<refusing, table, dev>> /\ step = "release"
      /\ faults' \in 0 .. MaxFaults
      /\ refusing[fam] /\ "ours" \in rules[fam]["refuse"]
      /\ fam \in Families /\ errs \in BOOLEAN
  BY <1>0, FaultBound DEF Release, RouterTypeOK, HoldInv, Ours
<1>2. /\ rules' \in [Families -> [Priorities -> SUBSET {"ours", "foreign"}]]
      /\ rules'[fam]["hold"] = S
      /\ rules'[fam]["refuse"] = rules[fam]["refuse"]
      /\ OthersKept
  <2>1. "hold" \in Priorities /\ "refuse" \in Priorities
    BY DEF Priorities, Want
  <2>2. S \in SUBSET {"ours", "foreign"}
    BY <1>1, <2>1 DEF RouterTypeOK
  <2> QED
    BY <1>0, <1>1, <2>1, <2>2 DEF RouterTypeOK, OthersKept, PutRules
<1>3. RefusedInv'
  BY <1>1, <1>2, RefusedKept DEF Refused, Ours
<1>4. CASE NextFamily(TRUE)
  <2>1. RouterTypeOK'
    BY <1>1, <1>2, <1>4, FamilyEndsType DEF RouterTypeOK
  <2>2. LockInv' /\ HoldInv' /\ DoneInv' /\ DeviceInv'
    BY <1>1, <1>2, <1>4, FamilyEnds DEF InFamily
  <2> QED
    BY <1>3, <2>1, <2>2, ManagersType
<1>5. CASE S = {} /\ NextFamily(errs)
  <2>1. RouterTypeOK'
    BY <1>1, <1>2, <1>5, FamilyEndsType DEF RouterTypeOK
  <2>2. \A f \in Families : f = fam => Done(f)'
    BY <1>1, <1>2, <1>5 DEF Done, Ours
  <2>3. LockInv' /\ HoldInv' /\ DoneInv' /\ DeviceInv'
    BY <1>1, <1>2, <1>5, <2>2, FamilyEnds DEF InFamily
  <2> QED
    BY <1>3, <2>1, <2>3, ManagersType
<1> QED
  BY <1>0, <1>4, <1>5

\* After the families: the table's routes.
LEMMA RoutesKeep ==
  ASSUME TunnelInv, EnsureEnds \/ Flush \/ AddRoutes, UNCHANGED Managers
  PROVE  TunnelInv'
<1> USE DEF TunnelInv, TunnelTypeOK
<1>0. /\ UNCHANGED <<rules, refusing, dev, call, left, fam, idx>>
      /\ step \in {"end", "flush", "routes"}
      /\ step' \in {"flush", "routes", "return"}
      /\ faults' \in 0 .. MaxFaults
      /\ errs' \in BOOLEAN /\ (errs => errs')
      /\ step' = "flush" => call = "up"
      /\ step' = "routes" => call = "up"
  BY FaultBound DEF EnsureEnds, Flush, AddRoutes, Goto, kernelVars, RouterTypeOK
<1>1. OthersKept
  BY <1>0 DEF OthersKept
<1>2. RefusedInv'
  BY <1>0, <1>1, RefusedKept DEF Refused, Ours
<1>3. LockInv'
  BY <1>0 DEF LockInv, InFamily, Managers, vpnVars, markVars
<1>4. HoldInv'
  BY <1>0 DEF HoldInv, Building
<1>5. DoneInv'
  <2>1. \A f \in Families : Done(f) => Done(f)'
    BY <1>0 DEF Done, Ours
  <2>2. \A f \in Families : Ours(f, "hold")' <=> Ours(f, "hold")
    BY <1>0 DEF Ours
  <2> QED
    BY <1>0, <2>1, <2>2 DEF DoneInv, InFamily, Managers
<1>6. RouterTypeOK' /\ DeviceInv'
  <2>1. CASE EnsureEnds
    <3>1. UNCHANGED table
      BY <2>1 DEF EnsureEnds, kernelVars
    <3>2. step' = "return" /\ call = "up" => errs'
      BY <2>1 DEF EnsureEnds, Goto, RouterTypeOK
    <3>3. RouterTypeOK'
      BY <1>0, <3>1 DEF RouterTypeOK, Steps
    <3>4. DeviceInv'
      BY <1>0, <3>1, <3>2 DEF DeviceInv, LockInv, Managers, vpnVars
    <3> QED
      BY <3>3, <3>4
  <2>2. CASE Flush
    <3>1. PICK F \in SUBSET Families :
            table' = [f \in Families |-> IF f \in F THEN {} ELSE table[f]]
      BY <2>2 DEF Flush
    <3>2. table' \in [Families -> SUBSET Routes]
      BY <3>1 DEF RouterTypeOK
    <3>3. table = NoRoutes => table' = NoRoutes
      BY <3>1 DEF NoRoutes
    <3>4. RouterTypeOK'
      BY <1>0, <3>2 DEF RouterTypeOK, Steps
    <3>5. call = "up" \/ call = "down"
      BY <2>2 DEF Flush, LockInv
    <3>6. call = "up" => step' = "routes"
      BY <2>2 DEF Flush, Goto
    <3>7. vpc \in {"routing", "unrouting", "undoing"} /\ step # "return"
      BY <1>0, <3>5 DEF LockInv
    <3>8. DeviceInv'
      BY <1>0, <3>3, <3>6, <3>7 DEF DeviceInv, LockInv, Managers, vpnVars
    <3> QED
      BY <3>4, <3>8
  <2>3. CASE AddRoutes
    <3>0. vpc = "routing" /\ call = "up" /\ dev \in Nodes /\ table = NoRoutes
      BY <2>3 DEF AddRoutes, LockInv, DeviceInv
    <3>1. PICK F \in SUBSET Families :
            /\ table' = [f \in Families |-> IF f \in F
                                            THEN table[f] \cup Allowed[dev][f]
                                            ELSE table[f]]
            /\ F = Families \/ errs' = TRUE
      BY <2>3 DEF AddRoutes
    <3>2. table' \in [Families -> SUBSET Routes]
      BY <3>0, <3>1, TunnelAssumption DEF RouterTypeOK
    <3>3. F = Families => table' = Allowed[dev]
      <4>1. Allowed[dev] \in [Families -> SUBSET Routes]
        BY <3>0, TunnelAssumption
      <4> QED
        BY <3>0, <3>1, <4>1 DEF NoRoutes
    <3>4. RouterTypeOK'
      BY <1>0, <3>2 DEF RouterTypeOK, Steps
    <3>5. step' = "return"
      BY <2>3 DEF AddRoutes
    <3>6. DeviceInv'
      BY <1>0, <3>0, <3>1, <3>3, <3>5 DEF DeviceInv, Managers, vpnVars
    <3> QED
      BY <3>4, <3>6
  <2> QED
    BY <2>1, <2>2, <2>3
<1> QED
  BY <1>2, <1>3, <1>4, <1>5, <1>6, ManagersType

\* Every step of the router keeps the invariant.
LEMMA StepKeeps == TunnelInv /\ Step => TunnelInv'
BY LooksKeeps, RefuseRouteKeeps, HoldKeeps, LoopKeeps, ReleaseKeeps, RoutesKeep
   DEF Step, RouterStep, Managers

-----------------------------------------------------------------------------
(* The managers' steps.                                                     *)

\* A step that leaves the kernel's rules and the router's call alone.
LEMMA RouterRests ==
  ASSUME TunnelInv, UNCHANGED <<rules, refusing, routerVars, reported>>
  PROVE  /\ HoldInv' /\ DoneInv'
         /\ \A f \in Families : Refused(f) => Refused(f)'
<1> USE DEF TunnelInv
<1>1. \A f \in Families, p \in Priorities : Ours(f, p)' <=> Ours(f, p)
  BY DEF Ours
<1>2. HoldInv'
  BY DEF HoldInv, Ours, routerVars
<1>3. \A f \in Families : (Done(f)' <=> Done(f)) /\ (Ours(f, "hold")' <=> Ours(f, "hold"))
  BY DEF Done, Ours
<1>4. DoneInv'
  BY <1>3 DEF DoneInv, routerVars
<1>5. \A f \in Families : Refused(f) => Refused(f)'
  BY DEF Refused, Ours
<1> QED
  BY <1>2, <1>4, <1>5

\* A call begins to use the router, and the other managers wait.
LEMMA EntersKeeps ==
  ASSUME TunnelInv, NEW c \in {"ensure", "up", "down"}, Enter(c),
         UNCHANGED <<markVars, reported>> \/ (UNCHANGED <<marking, reported>> /\ apc' # "nft")
  PROVE  /\ HoldInv' /\ DoneInv' /\ RefusedInv'
         /\ RouterTypeOK'
         /\ step = "free" /\ call = "none" /\ call' = c
         /\ step' = IF c = "down" THEN "flush" ELSE "check"
         /\ UNCHANGED <<kernelVars, faults>> /\ errs' = FALSE
<1> USE DEF TunnelInv, TunnelTypeOK
<1>1. /\ step = "free" /\ call = "none" /\ call' = c
      /\ step' = IF c = "down" THEN "flush" ELSE "check"
      /\ UNCHANGED <<kernelVars, faults>> /\ errs' = FALSE /\ idx' = 1
      /\ c = "down" => UNCHANGED <<left, fam>>
      /\ c # "down" => fam' \in Families /\ left' = Families \ {fam'}
  BY DEF Enter, LockInv
<1>2. RouterTypeOK'
  <2>1. left' \subseteq Families /\ fam' \in Families
    BY <1>1 DEF RouterTypeOK
  <2>2. step' \in Steps /\ call' \in Calls
    BY <1>1 DEF Steps, Calls
  <2>3. UNCHANGED <<rules, refusing, table, dev, faults>>
    BY <1>1 DEF kernelVars
  <2>4. idx' = 1 /\ errs' = FALSE
    BY DEF Enter
  <2>5. /\ rules' \in [Families -> [Priorities -> SUBSET {"ours", "foreign"}]]
        /\ refusing' \in [Families -> BOOLEAN]
        /\ table' \in [Families -> SUBSET Routes]
        /\ dev' \in Nodes \cup {NoNode}
    BY <2>3 DEF RouterTypeOK
  <2>6. faults' \in 0 .. MaxFaults
    BY <2>3 DEF RouterTypeOK
  <2>7. idx' \in 1 .. 5
    BY <2>4
  <2> QED
    BY <2>1, <2>2, <2>4, <2>5, <2>6, <2>7, Zenon DEF RouterTypeOK
<1>3. HoldInv'
  BY <1>1 DEF HoldInv, Building
<1>4. DoneInv'
  <2>1. \A f \in Families : Ours(f, "hold")' <=> Ours(f, "hold")
    BY <1>1 DEF Ours, kernelVars
  <2>2. c = "down" => (DoneInv')
    BY <1>1, <2>1 DEF DoneInv, InFamily, markVars
  <2>3. c # "down" => Families \ (left' \cup {fam'}) = {}
    BY <1>1
  <2>4. c # "down" => (DoneInv')
    BY <1>1, <2>3 DEF DoneInv, InFamily
  <2> QED
    BY <2>2, <2>4
<1>5. RefusedInv'
  <2>1. \A f \in Families : Refused(f) => Refused(f)'
    BY <1>1 DEF Refused, Ours, kernelVars
  <2> QED
    BY <2>1 DEF RefusedInv, markVars
<1> QED
  BY <1>1, <1>2, <1>3, <1>4, <1>5

\* vpnManager gets the mutex for route or unroute.
LEMMA VpnEntersKeeps ==
  ASSUME TunnelInv, VpnEnters
  PROVE  TunnelInv'
<1> USE DEF TunnelInv, TunnelTypeOK
<1>0. UNCHANGED <<up, req, target, bringing, run, markVars, storeVars, reported>>
  BY DEF VpnEnters
<1>1. PICK c \in {"up", "down"} :
        /\ Enter(c)
        /\ c = "up" => vpc = "route" /\ vpc' = "routing"
        /\ c = "down" => \/ vpc = "unroute" /\ vpc' = "unrouting"
                         \/ vpc = "undoRoute" /\ vpc' = "undoing"
  BY DEF VpnEnters
<1>2. /\ HoldInv' /\ DoneInv' /\ RefusedInv' /\ RouterTypeOK'
      /\ step = "free" /\ call = "none" /\ call' = c
      /\ step' = IF c = "down" THEN "flush" ELSE "check"
      /\ UNCHANGED <<kernelVars, faults>> /\ errs' = FALSE
  BY <1>0, <1>1, EntersKeeps
<1>3. TunnelTypeOK'
  BY <1>0, <1>1, <1>2 DEF VpnSteps, markVars, storeVars
<1>4. LockInv'
  BY <1>0, <1>1, <1>2 DEF LockInv, InFamily, markVars
<1>5. DeviceInv'
  BY <1>0, <1>1, <1>2 DEF DeviceInv, kernelVars
<1> QED
  BY <1>2, <1>3, <1>4, <1>5

\* routingManager.Apply gets it for Ensure.
LEMMA ApplyEntersKeeps ==
  ASSUME TunnelInv, ApplyEnters
  PROVE  TunnelInv'
<1> USE DEF TunnelInv, TunnelTypeOK
<1>0. /\ UNCHANGED <<marking, applier, retrying, run, vpnVars, storeVars, reported>>
      /\ apc = "ensure" /\ apc' = "ensuring" /\ Enter("ensure")
  BY DEF ApplyEnters
<1>2. /\ HoldInv' /\ DoneInv' /\ RefusedInv' /\ RouterTypeOK'
      /\ step = "free" /\ call = "none" /\ call' = "ensure"
      /\ step' = "check"
      /\ UNCHANGED <<kernelVars, faults>> /\ errs' = FALSE
  BY <1>0, EntersKeeps
<1>3. TunnelTypeOK'
  BY <1>0, <1>2 DEF vpnVars, storeVars
<1>4. LockInv'
  BY <1>0, <1>2 DEF LockInv, InFamily, vpnVars
<1>5. DeviceInv'
  BY <1>0, <1>2 DEF DeviceInv, kernelVars, vpnVars, LockInv
<1> QED
  BY <1>2, <1>3, <1>4, <1>5

\* vpnManager.Restore gets it for Ensure.
LEMMA RestoreRulesKeeps ==
  ASSUME TunnelInv, RestoreRules
  PROVE  TunnelInv'
<1> USE DEF TunnelInv, TunnelTypeOK
<1>0. /\ UNCHANGED <<vpnVars, markVars, storeVars, reported>>
      /\ run = "rules" /\ run' = "ensuring" /\ Enter("ensure")
  BY DEF RestoreRules
<1>2. /\ HoldInv' /\ DoneInv' /\ RefusedInv' /\ RouterTypeOK'
      /\ step = "free" /\ call = "none" /\ call' = "ensure"
      /\ step' = "check"
      /\ UNCHANGED <<kernelVars, faults>> /\ errs' = FALSE
  BY <1>0, EntersKeeps
<1>3. TunnelTypeOK'
  BY <1>0, <1>2 DEF vpnVars, storeVars, markVars
<1>4. LockInv'
  BY <1>0, <1>2 DEF LockInv, InFamily, vpnVars, markVars
<1>5. DeviceInv'
  BY <1>0, <1>2 DEF DeviceInv, kernelVars, vpnVars, LockInv
<1> QED
  BY <1>2, <1>3, <1>4, <1>5

\* A call leaves the router: what it has to report is what the caller sees.
LEMMA LeavesKeeps ==
  ASSUME TunnelInv, Leave, UNCHANGED <<kernelVars, faults>>,
         reported' = IF call = "down" THEN reported ELSE errs
  PROVE  /\ HoldInv' /\ DoneInv' /\ RouterTypeOK'
         /\ step = "return" /\ step' = "free" /\ call' = "none" /\ call # "none"
         /\ \A f \in Families : Refused(f) => Refused(f)'
         /\ call = "ensure" /\ ~errs => \A f \in Families : Refused(f)'
         /\ reported' \in BOOLEAN
<1> USE DEF TunnelInv, TunnelTypeOK
<1>1. /\ step = "return" /\ step' = "free" /\ call' = "none" /\ call # "none"
      /\ errs' = FALSE /\ UNCHANGED <<left, fam, idx>>
  BY DEF Leave, LockInv
<1>2. RouterTypeOK'
  BY <1>1 DEF RouterTypeOK, kernelVars, Steps, Calls
<1>3. HoldInv'
  BY <1>1 DEF HoldInv, Building
<1>4. \A f \in Families : /\ Ours(f, "hold")' <=> Ours(f, "hold")
                          /\ Refused(f)' <=> Refused(f)
                          /\ Done(f) => Refused(f)
  BY DEF Ours, Done, Refused, kernelVars
<1>5. call \in {"ensure", "up", "down"}
  BY <1>1 DEF RouterTypeOK, Calls
<1>6. call # "down" /\ ~errs => \A f \in Families : Done(f)
  BY <1>1, <1>5 DEF DoneInv
<1>7. DoneInv'
  <2>1. ASSUME ~reported', NEW f \in Families PROVE ~Ours(f, "hold")
    <3>1. CASE call = "down"
      BY <2>1, <3>1 DEF DoneInv
    <3>2. CASE call # "down"
      BY <2>1, <3>2, <1>6 DEF Done
    <3> QED
      BY <3>1, <3>2
  <2> QED
    BY <1>1, <1>4, <2>1 DEF DoneInv, InFamily
<1> QED
  BY <1>1, <1>2, <1>3, <1>4, <1>6, <1>7 DEF RouterTypeOK

\* unroute leaves the router.
LEMMA UnroutedKeeps ==
  ASSUME TunnelInv, Unrouted
  PROVE  TunnelInv'
<1> USE DEF TunnelInv, TunnelTypeOK
<1>0. /\ UNCHANGED <<kernelVars, faults, run, bringing, markVars, storeVars, reported>>
      /\ Leave
      /\ \/ /\ vpc = "unrouting" /\ up' = NoNode
            /\ vpc' = IF req = "remove" THEN "write" ELSE "engine"
            /\ UNCHANGED <<req, target>>
         \/ vpc = "undoing" /\ Ends /\ UNCHANGED up
  BY DEF Unrouted
<1>1. call = "down"
  BY <1>0 DEF LockInv
<1>2. /\ HoldInv' /\ DoneInv' /\ RouterTypeOK'
      /\ step = "return" /\ step' = "free" /\ call' = "none"
      /\ \A f \in Families : Refused(f) => Refused(f)'
  BY <1>0, <1>1, LeavesKeeps
<1>3. TunnelTypeOK'
  BY <1>0, <1>2 DEF markVars, storeVars, VpnSteps, Ends
<1>4. LockInv'
  BY <1>0, <1>1, <1>2 DEF LockInv, InFamily, markVars, Ends
<1>5. RefusedInv'
  BY <1>0, <1>2 DEF RefusedInv, markVars
<1>6. DeviceInv'
  BY <1>0, <1>2 DEF DeviceInv, kernelVars, Ends
<1> QED
  BY <1>2, <1>3, <1>4, <1>5, <1>6

\* route leaves the router: the connection reads as up only without an error.
LEMMA RoutedKeeps ==
  ASSUME TunnelInv, Routed
  PROVE  TunnelInv'
<1> USE DEF TunnelInv, TunnelTypeOK
<1>0. /\ UNCHANGED <<kernelVars, faults, run, req, target, bringing, markVars, storeVars>>
      /\ Leave /\ reported' = errs /\ vpc = "routing"
      /\ \/ errs /\ vpc' = "undo" /\ UNCHANGED up
         \/ ~errs /\ vpc' = "update" /\ up' = target
  BY DEF Routed
<1>1. call = "up"
  BY <1>0 DEF LockInv
<1>2. /\ HoldInv' /\ DoneInv' /\ RouterTypeOK'
      /\ step = "return" /\ step' = "free" /\ call' = "none"
      /\ \A f \in Families : Refused(f) => Refused(f)'
      /\ reported' \in BOOLEAN
  BY <1>0, <1>1, LeavesKeeps
<1>3. TunnelTypeOK'
  BY <1>0, <1>2 DEF markVars, storeVars, VpnSteps
<1>4. LockInv'
  BY <1>0, <1>1, <1>2 DEF LockInv, InFamily, markVars
<1>5. RefusedInv'
  BY <1>0, <1>2 DEF RefusedInv, markVars
<1>6. DeviceInv'
  BY <1>0, <1>2, TunnelAssumption DEF DeviceInv, kernelVars
<1> QED
  BY <1>2, <1>3, <1>4, <1>5, <1>6

\* The empty document, and a document with only rules, are documents.
LEMMA DocumentsMade ==
  ASSUME TunnelTypeOK
  PROVE  /\ Nothing \in Documents
         /\ [Nothing EXCEPT !.rules = doc.rules] \in Documents
         /\ \A b \in BOOLEAN : [doc EXCEPT !.rules = b] \in Documents
         /\ \A n \in Nodes : /\ [doc EXCEPT !.active = n] \in Documents
                             /\ [doc EXCEPT !.nodes = @ \cup {n}] \in Documents
                             /\ [doc EXCEPT !.nodes = @ \ {n},
                                            !.active = IF @ = n THEN NoNode ELSE @]
                                \in Documents
         /\ doc.nodes \subseteq Nodes /\ doc.active \in Nodes \cup {NoNode}
         /\ doc.rules \in BOOLEAN /\ aread.rules \in BOOLEAN
BY DEF TunnelTypeOK, Documents, Nothing

\* Apply's Ensure leaves the router: without an error everything is refused.
LEMMA EnsuredKeeps ==
  ASSUME TunnelInv, Ensured
  PROVE  TunnelInv'
<1> USE DEF TunnelInv, TunnelTypeOK
<1>0. /\ UNCHANGED <<kernelVars, faults, vpnVars, marking, doc, vread>>
      /\ Leave /\ reported' = errs /\ apc = "ensuring"
      /\ \/ errs /\ ApplyReturns(FALSE)
         \/ ~errs /\ apc' = "nft" /\ UNCHANGED <<run, applier, retrying, aread>>
  BY DEF Ensured
<1>1. call = "ensure" /\ run \notin {"dead", "rules", "ensuring", "node"}
  BY <1>0 DEF LockInv
<1>2. /\ HoldInv' /\ DoneInv' /\ RouterTypeOK'
      /\ step = "return" /\ step' = "free" /\ call' = "none"
      /\ \A f \in Families : Refused(f) => Refused(f)'
      /\ ~errs => \A f \in Families : Refused(f)'
      /\ reported' \in BOOLEAN
  BY <1>0, <1>1, LeavesKeeps
<1>3. TunnelTypeOK'
  <2>1. Nothing \in Documents
    BY DocumentsMade
  <2> QED
    BY <1>0, <1>2, <2>1 DEF vpnVars, ApplyReturns
<1>4. LockInv'
  BY <1>0, <1>1, <1>2 DEF LockInv, InFamily, vpnVars, ApplyReturns
<1>5. RefusedInv'
  BY <1>0, <1>2 DEF RefusedInv, ApplyReturns
<1>6. DeviceInv'
  BY <1>0, <1>1, <1>2 DEF DeviceInv, kernelVars, vpnVars, LockInv
<1> QED
  BY <1>2, <1>3, <1>4, <1>5, <1>6

\* Restore's Ensure leaves the router.
LEMMA RulesRestoredKeeps ==
  ASSUME TunnelInv, RulesRestored
  PROVE  TunnelInv'
<1> USE DEF TunnelInv, TunnelTypeOK
<1>0. /\ UNCHANGED <<kernelVars, faults, vpnVars, markVars, storeVars>>
      /\ Leave /\ reported' = errs /\ run = "ensuring" /\ run' = "node"
  BY DEF RulesRestored
<1>1. call = "ensure"
  BY <1>0 DEF LockInv
<1>2. /\ HoldInv' /\ DoneInv' /\ RouterTypeOK'
      /\ step = "return" /\ step' = "free" /\ call' = "none"
      /\ \A f \in Families : Refused(f) => Refused(f)'
      /\ reported' \in BOOLEAN
  BY <1>0, <1>1, LeavesKeeps
<1>3. TunnelTypeOK'
  BY <1>0, <1>2 DEF vpnVars, markVars, storeVars
<1>4. LockInv'
  BY <1>0, <1>1, <1>2 DEF LockInv, InFamily, vpnVars, markVars
<1>5. RefusedInv'
  BY <1>0, <1>2 DEF RefusedInv, markVars
<1>6. DeviceInv'
  BY <1>0, <1>1, <1>2 DEF DeviceInv, kernelVars, vpnVars, LockInv
<1> QED
  BY <1>2, <1>3, <1>4, <1>5, <1>6

\* The rest of the managers' steps leave the router's call and the rules alone.
LEMMA QuietKeeps ==
  ASSUME TunnelInv, UNCHANGED <<rules, refusing, routerVars, reported>>,
         table' \in [Families -> SUBSET Routes], dev' \in Nodes \cup {NoNode},
         faults' \in 0 .. MaxFaults
  PROVE  /\ RouterTypeOK' /\ HoldInv' /\ DoneInv'
         /\ (marking' \/ apc' = "nft" => marking \/ apc = "nft") => RefusedInv'
<1>1. RouterTypeOK'
  BY DEF TunnelInv, TunnelTypeOK, RouterTypeOK, routerVars
<1>2. /\ HoldInv' /\ DoneInv'
      /\ \A f \in Families : Refused(f) => Refused(f)'
  BY RouterRests
<1>3. (marking' \/ apc' = "nft" => marking \/ apc = "nft") => RefusedInv'
  BY <1>2 DEF TunnelInv, RefusedInv
<1> QED
  BY <1>1, <1>2, <1>3

\* A call of vpnManager begins.
LEMMA BeginsKeeps ==
  ASSUME TunnelInv, NEW n \in Nodes, run # "dead",
         NEW who \in {"person", "bringBack", "import", "remove"},
         NEW next \in {"write", "down", "engine"}, Begins(n, who, next),
         run \in {"dead", "rules", "ensuring", "node"} => FALSE,
         vread' \in Documents,
         next = "down" => up # NoNode /\ who # "bringBack",
         next = "engine" => up = NoNode
  PROVE  TunnelInv'
<1> USE DEF TunnelInv, TunnelTypeOK
<1>0. /\ vpc = "idle" /\ vpc' = next /\ req' = who /\ target' = n
      /\ UNCHANGED <<rules, refusing, table, dev, routerVars, faults, run, up,
                     bringing, marking, apc, applier, retrying, doc, aread, reported>>
  BY DEF Begins, kernelVars, markVars
<1>1. table' \in [Families -> SUBSET Routes] /\ dev' \in Nodes \cup {NoNode}
      /\ faults' \in 0 .. MaxFaults
  BY <1>0 DEF RouterTypeOK
<1>2. RouterTypeOK' /\ HoldInv' /\ DoneInv' /\ RefusedInv'
  BY <1>0, <1>1, QuietKeeps
<1>3. TunnelTypeOK'
  BY <1>0, <1>2 DEF VpnSteps
<1>4. LockInv'
  BY <1>0 DEF LockInv, InFamily, routerVars
<1>5. DeviceInv'
  BY <1>0 DEF DeviceInv, routerVars
<1> QED
  BY <1>2, <1>3, <1>4, <1>5

\* The calls the operator makes on vpnManager.
LEMMA CallsKeep ==
  ASSUME TunnelInv, NEW n \in Nodes, ImportConfig(n) \/ Activate(n) \/ RemoveNode(n)
  PROVE  TunnelInv'
<1> USE DEF TunnelInv
<1>1. CASE ImportConfig(n)
  BY <1>1, BeginsKeeps, DocumentsMade DEF ImportConfig
<1>2. CASE Activate(n)
  <2>1. vread' \in Documents
    BY <1>2 DEF Activate, ActivateLocked, TunnelTypeOK
  <2>2. CASE up = NoNode
    BY <1>2, <2>1, <2>2, BeginsKeeps DEF Activate, ActivateLocked
  <2>3. CASE up # NoNode
    BY <1>2, <2>1, <2>3, BeginsKeeps DEF Activate, ActivateLocked
  <2> QED
    BY <2>2, <2>3
<1>3. CASE RemoveNode(n)
  <2>1. vread' \in Documents
    BY <1>3, DocumentsMade DEF RemoveNode
  <2>2. CASE up = n
    BY <1>3, <2>1, <2>2, BeginsKeeps, TunnelAssumption DEF RemoveNode
  <2>3. CASE up # n
    BY <1>3, <2>1, <2>3, BeginsKeeps DEF RemoveNode
  <2> QED
    BY <2>2, <2>3
<1> QED
  BY <1>1, <1>2, <1>3

\* An attempt to bring a connection back begins only when none is up.
LEMMA BringBackKeeps ==
  ASSUME TunnelInv, BringBackOnce
  PROVE  TunnelInv'
<1> USE DEF TunnelInv
<1>1. CASE BringBackEnds
  <2>0. /\ bringing' = NoNode
        /\ UNCHANGED <<rules, refusing, table, dev, routerVars, faults, run, up,
                       vpc, req, target, markVars, storeVars, reported>>
    BY <1>1 DEF BringBackEnds, kernelVars
  <2>1. RouterTypeOK' /\ HoldInv' /\ DoneInv' /\ RefusedInv'
    BY <2>0, QuietKeeps DEF TunnelTypeOK, RouterTypeOK, markVars
  <2>2. TunnelTypeOK'
    BY <2>0, <2>1 DEF TunnelTypeOK, markVars, storeVars
  <2>3. LockInv'
    BY <2>0 DEF LockInv, routerVars, markVars
  <2>4. DeviceInv'
    BY <2>0 DEF DeviceInv, routerVars
  <2> QED
    BY <2>1, <2>2, <2>3, <2>4
<1>2. CASE /\ up = NoNode /\ doc.active = bringing
           /\ ActivateLocked(bringing, "bringBack")
  <2>1. bringing \in Nodes /\ bringing # NoNode
    BY <1>2, DocumentsMade, TunnelAssumption DEF ActivateLocked
  <2>2. run \notin {"dead", "rules", "ensuring", "node"}
    BY <2>1 DEF LockInv
  <2>3. vread' \in Documents
    BY <1>2 DEF ActivateLocked, TunnelTypeOK
  <2> QED
    BY <1>2, <2>1, <2>2, <2>3, BeginsKeeps DEF ActivateLocked
<1> QED
  BY <1>1, <1>2 DEF BringBackOnce

\* The device goes and takes its routes along, or comes without any.
LEMMA EngineKeeps ==
  ASSUME TunnelInv, EngineDown \/ EngineUp
  PROVE  TunnelInv'
<1> USE DEF TunnelInv, TunnelTypeOK
<1>0. UNCHANGED <<rules, refusing, routerVars, run, up, bringing, markVars,
                  storeVars, reported>>
  BY DEF EngineDown, EngineUp
<1>1. CASE EngineDown
  <2>1. NoRoutes \in [Families -> SUBSET Routes]
    BY DEF NoRoutes
  <2>2. /\ table' = NoRoutes /\ dev' = NoNode
        /\ faults' = faults /\ req' = req /\ target' = target
        /\ \/ vpc = "down" /\ vpc' = "unroute"
           \/ vpc = "undo" /\ vpc' = "undoRoute"
    BY <1>1 DEF EngineDown
  <2>3. RouterTypeOK' /\ HoldInv' /\ DoneInv' /\ RefusedInv'
    BY <1>0, <2>1, <2>2, QuietKeeps DEF RouterTypeOK, markVars
  <2>4. TunnelTypeOK'
    BY <1>0, <2>2, <2>3 DEF markVars, storeVars, VpnSteps
  <2>5. LockInv'
    BY <1>0, <2>2 DEF LockInv, routerVars, markVars
  <2>6. DeviceInv'
    BY <1>0, <2>2 DEF DeviceInv, routerVars
  <2> QED
    BY <2>3, <2>4, <2>5, <2>6
<1>2. CASE EngineUp
  <2>1. /\ UNCHANGED table /\ vpc = "engine" /\ faults' \in 0 .. MaxFaults
        /\ \/ dev' = target /\ vpc' = "route" /\ UNCHANGED <<req, target>>
           \/ UNCHANGED dev /\ vpc' = "idle" /\ req' = "none" /\ target' = NoNode
    BY <1>2, FaultBound DEF EngineUp, Ends, RouterTypeOK
  <2>2. target \in Nodes
    BY <2>1 DEF DeviceInv
  <2>3. RouterTypeOK' /\ HoldInv' /\ DoneInv' /\ RefusedInv'
    BY <1>0, <2>1, <2>2, QuietKeeps DEF RouterTypeOK, markVars
  <2>4. TunnelTypeOK'
    BY <1>0, <2>1, <2>3 DEF markVars, storeVars, VpnSteps
  <2>5. LockInv'
    BY <1>0, <2>1 DEF LockInv, routerVars, markVars
  <2>6. DeviceInv'
    BY <1>0, <2>1, <2>2 DEF DeviceInv, routerVars
  <2> QED
    BY <2>3, <2>4, <2>5, <2>6
<1> QED
  BY <1>1, <1>2

\* The steps that only read or write the store.
LEMMA StoreKeeps ==
  ASSUME TunnelInv,
         \/ Update \/ Save \/ RulesSaved
         \/ \E d \in Imports : ReplaceDocument(d)
         \/ \E b \in BOOLEAN : SetRules(b)
  PROVE  TunnelInv'
<1> USE DEF TunnelInv, TunnelTypeOK
<1> DEFINE Rest == UNCHANGED <<rules, refusing, table, dev, routerVars, run, up,
                                marking, applier, retrying, reported>>
<1>0. /\ Rest
      /\ faults' \in 0 .. MaxFaults
      /\ bringing' \in {bringing, NoNode}
      /\ \/ apc' = apc
         \/ apc = "idle" /\ apc' = "write" /\ run = "serving"
         \/ apc = "write" /\ apc' = "idle"
      /\ \/ UNCHANGED <<vpc, req, target>>
         \/ vpc = "update" /\ vpc' = "write" /\ UNCHANGED <<req, target>>
         \/ vpc = "write" /\ vpc' = "idle" /\ req' = "none" /\ target' = NoNode
  <2>1. faults' \in 0 .. MaxFaults
    BY FaultBound DEF Update, Save, RulesSaved, ReplaceDocument, SetRules, RouterTypeOK
  <2>2. Rest
    BY DEF Update, Save, RulesSaved, ReplaceDocument, SetRules, kernelVars,
       markVars, vpnVars
  <2>3. CASE Update
    BY <2>1, <2>2, <2>3 DEF Update, markVars
  <2>4. CASE Save
    BY <2>1, <2>2, <2>4 DEF Save, Ends, markVars
  <2>5. CASE RulesSaved
    BY <2>1, <2>2, <2>5 DEF RulesSaved, vpnVars
  <2>6. CASE \E d \in Imports : ReplaceDocument(d)
    BY <2>1, <2>2, <2>6 DEF ReplaceDocument, vpnVars, markVars
  <2>7. CASE \E b \in BOOLEAN : SetRules(b)
    BY <2>1, <2>2, <2>7 DEF SetRules, vpnVars
  <2> QED
    BY <2>3, <2>4, <2>5, <2>6, <2>7
<1>1. RouterTypeOK' /\ HoldInv' /\ DoneInv' /\ RefusedInv'
  BY <1>0, QuietKeeps DEF RouterTypeOK
<1>2. doc' \in Documents /\ vread' \in Documents /\ aread' \in Documents
  <2>1. CASE Update
    <3>1. target \in Nodes
      BY <2>1 DEF Update, DeviceInv
    <3> QED
      BY <2>1, <3>1, DocumentsMade DEF Update
  <2>2. CASE Save
    BY <2>2, DocumentsMade DEF Save
  <2>3. CASE RulesSaved
    BY <2>3, DocumentsMade DEF RulesSaved
  <2>4. CASE \E d \in Imports : ReplaceDocument(d)
    BY <2>4, ImportsAssumption DEF ReplaceDocument
  <2>5. CASE \E b \in BOOLEAN : SetRules(b)
    BY <2>5, DocumentsMade DEF SetRules
  <2> QED
    BY <2>1, <2>2, <2>3, <2>4, <2>5
<1>3. TunnelTypeOK'
  BY <1>0, <1>1, <1>2 DEF VpnSteps
<1>4. LockInv'
  BY <1>0 DEF LockInv, routerVars
<1>5. DeviceInv'
  BY <1>0 DEF DeviceInv, routerVars
<1> QED
  BY <1>1, <1>3, <1>4, <1>5

\* The steps of routingManager.Apply outside the router, and of the start.
LEMMA ApplyKeeps ==
  ASSUME TunnelInv,
         \/ \E who \in {"person", "retry"} : ApplyRules(who)
         \/ Nft \/ Start \/ RestoreNode
  PROVE  TunnelInv'
<1> USE DEF TunnelInv, TunnelTypeOK
<1>0. /\ UNCHANGED <<rules, refusing, table, dev, routerVars, up, vpc, req, target,
                     doc, vread, reported>>
      /\ faults' \in 0 .. MaxFaults
  BY FaultBound DEF ApplyRules, Nft, Start, RestoreNode, kernelVars, vpnVars,
     storeVars, RouterTypeOK
<1>1. table' \in [Families -> SUBSET Routes] /\ dev' \in Nodes \cup {NoNode}
  BY <1>0 DEF RouterTypeOK
<1>2. DeviceInv'
  BY <1>0 DEF DeviceInv, routerVars
<1>3. Nothing \in Documents /\ [Nothing EXCEPT !.rules = doc.rules] \in Documents
      /\ doc.active \in Nodes \cup {NoNode} /\ aread.rules \in BOOLEAN
  BY DocumentsMade
<1>4. CASE \E who \in {"person", "retry"} : ApplyRules(who)
  <2>1. /\ apc = "idle" /\ apc' = "ensure" /\ applier' \in {"person", "retry"}
        /\ aread' = [Nothing EXCEPT !.rules = doc.rules]
        /\ UNCHANGED <<run, bringing, marking, retrying>>
        /\ run = "serving" \/ retrying
    BY <1>4 DEF ApplyRules, vpnVars
  <2>2. RouterTypeOK' /\ HoldInv' /\ DoneInv' /\ RefusedInv'
    BY <1>0, <1>1, <2>1, QuietKeeps
  <2>3. TunnelTypeOK'
    BY <1>0, <1>3, <2>1, <2>2
  <2>4. LockInv'
    BY <1>0, <2>1 DEF LockInv, routerVars
  <2> QED
    BY <1>2, <2>2, <2>3, <2>4
<1>5. CASE Nft
  <2>1. /\ apc = "nft" /\ apc' = "idle" /\ applier' = "none" /\ aread' = Nothing
        /\ marking' \in BOOLEAN /\ retrying' \in BOOLEAN
        /\ run' \in {run, "serving"} /\ bringing' = bringing
    BY <1>3, <1>5 DEF Nft, ApplyReturns, vpnVars
  <2>2. RouterTypeOK' /\ HoldInv' /\ DoneInv' /\ RefusedInv'
    BY <1>0, <1>1, <2>1, QuietKeeps
  <2>3. TunnelTypeOK'
    BY <1>0, <1>3, <2>1, <2>2
  <2>4. run \notin {"dead", "rules", "ensuring", "node"}
    BY <2>1 DEF LockInv
  <2>5. LockInv'
    BY <1>0, <2>1, <2>4 DEF LockInv, routerVars
  <2> QED
    BY <1>2, <2>2, <2>3, <2>5
<1>6. CASE Start
  <2>1. run = "dead" /\ run' = "rules"
        /\ UNCHANGED <<bringing, marking, apc, applier, retrying, aread>>
    BY <1>6 DEF Start, vpnVars, markVars, storeVars
  <2>2. RouterTypeOK' /\ HoldInv' /\ DoneInv' /\ RefusedInv'
    BY <1>0, <1>1, <2>1, QuietKeeps
  <2>3. TunnelTypeOK'
    BY <1>0, <2>1, <2>2
  <2>4. LockInv'
    BY <1>0, <2>1 DEF LockInv, routerVars
  <2> QED
    BY <1>2, <2>2, <2>3, <2>4
<1>7. CASE RestoreNode
  <2>1. /\ run = "node" /\ run' = "marks" /\ bringing' \in {doc.active, NoNode}
        /\ apc' = "ensure" /\ applier' = "start"
        /\ aread' = [Nothing EXCEPT !.rules = doc.rules]
        /\ UNCHANGED <<marking, retrying>>
    BY <1>7 DEF RestoreNode
  <2>2. RouterTypeOK' /\ HoldInv' /\ DoneInv' /\ RefusedInv'
    BY <1>0, <1>1, <2>1, QuietKeeps
  <2>3. TunnelTypeOK'
    BY <1>0, <1>3, <2>1, <2>2
  <2>4. LockInv'
    BY <1>0, <2>1 DEF LockInv, routerVars
  <2> QED
    BY <1>2, <2>2, <2>3, <2>4
<1> QED
  BY <1>4, <1>5, <1>6, <1>7

\* The process dies: the kernel's rules stay as the last command left them.
LEMMA DieKeeps ==
  ASSUME TunnelInv, NEW b \in BOOLEAN, Die(b)
  PROVE  TunnelInv'
<1> USE DEF TunnelInv, TunnelTypeOK
<1>0. /\ run' = "dead" /\ up' = NoNode /\ vpc' = "idle" /\ req' = "none"
      /\ target' = NoNode /\ bringing' = NoNode /\ apc' = "idle"
      /\ applier' = "none" /\ retrying' = FALSE /\ step' = "free"
      /\ call' = "none" /\ left' = {} /\ idx' = 1 /\ errs' = FALSE
      /\ dev' = NoNode /\ table' = NoRoutes /\ vread' = Nothing
      /\ aread' = Nothing /\ reported' = TRUE /\ UNCHANGED <<fam, doc>>
      /\ faults' \in 0 .. MaxFaults
      /\ \/ UNCHANGED <<rules, refusing, marking>>
         \/ /\ rules' = NoRules /\ refusing' = [f \in Families |-> FALSE]
            /\ marking' = FALSE
  BY FaultBound DEF Die, RouterTypeOK
<1>1. /\ rules' \in [Families -> [Priorities -> SUBSET {"ours", "foreign"}]]
      /\ refusing' \in [Families -> BOOLEAN] /\ marking' \in BOOLEAN
      /\ table' \in [Families -> SUBSET Routes]
  BY <1>0 DEF RouterTypeOK, NoRules, NoRoutes
<1>2. RouterTypeOK'
  <2>1. fam' \in Families /\ idx' \in 1 .. 5 /\ left' \subseteq Families
    BY <1>0 DEF RouterTypeOK
  <2>2. step' \in Steps /\ call' \in Calls /\ dev' \in Nodes \cup {NoNode}
        /\ errs' \in BOOLEAN /\ faults' \in 0 .. MaxFaults
    BY <1>0 DEF Steps, Calls
  <2> QED
    BY <1>1, <2>1, <2>2, Zenon DEF RouterTypeOK
<1>3. TunnelTypeOK'
  <2>1. Nothing \in Documents
    BY DocumentsMade
  <2> QED
    BY <1>0, <1>1, <1>2, <2>1 DEF VpnSteps
<1>4. LockInv' /\ HoldInv'
  BY <1>0 DEF LockInv, HoldInv, InFamily, Building
<1>5. DoneInv'
  BY <1>0 DEF DoneInv, InFamily
<1>6. RefusedInv'
  BY <1>0 DEF RefusedInv, Refused, Ours
<1>7. DeviceInv'
  BY <1>0 DEF DeviceInv
<1> QED
  BY <1>3, <1>4, <1>5, <1>6, <1>7

\* A foreign rule takes nothing of ours away.
LEMMA ForeignKeeps ==
  ASSUME TunnelInv, ForeignRule, UNCHANGED Managers
  PROVE  TunnelInv'
<1> USE DEF TunnelInv, TunnelTypeOK
<1>0. /\ UNCHANGED <<refusing, table, dev, step, call, left, fam, idx, errs>>
      /\ faults' \in 0 .. MaxFaults
  BY FaultBound DEF ForeignRule, RouterTypeOK, routerVars
<1>1. PICK f \in Families, p \in ForeignAt :
        rules' = [rules EXCEPT ![f][p] = @ \cup {"foreign"}]
  BY DEF ForeignRule
<1>2. p \in Priorities
  BY ForeignAssumption
<1>3. rules' \in [Families -> [Priorities -> SUBSET {"ours", "foreign"}]]
  BY <1>1, <1>2 DEF RouterTypeOK
<1>4. \A g \in Families, q \in Priorities : Ours(g, q)' <=> Ours(g, q)
  BY <1>1, <1>2 DEF RouterTypeOK, Ours
<1>5. "hold" \in Priorities /\ "refuse" \in Priorities
  BY DEF Priorities, Want
<1>6. RouterTypeOK'
  BY <1>0, <1>3 DEF RouterTypeOK
<1>7. TunnelTypeOK' /\ LockInv' /\ DeviceInv'
  BY <1>0, <1>6, ManagersType DEF LockInv, DeviceInv, Managers, vpnVars, markVars
<1>8. HoldInv'
  BY <1>0, <1>4, <1>5 DEF HoldInv, RouterTypeOK, Ours
<1>9. \A g \in Families : /\ Done(g)' <=> Done(g)
                          /\ Refused(g)' <=> Refused(g)
                          /\ Ours(g, "hold")' <=> Ours(g, "hold")
  BY <1>0, <1>4, <1>5 DEF Done, Refused
<1>10. DoneInv' /\ RefusedInv'
  BY <1>0, <1>9 DEF DoneInv, RefusedInv, Managers, markVars
<1> QED
  BY <1>7, <1>8, <1>10

\* TunnelInductive: the invariant that carries the others.
THEOREM TunnelInductive == TunnelSpec => []TunnelInv
<1>1. TunnelInv /\ [TunnelNext]_tunnelVars => TunnelInv'
  <2> SUFFICES ASSUME TunnelInv, [TunnelNext]_tunnelVars PROVE TunnelInv'
    OBVIOUS
  <2>1. CASE Step
    BY <2>1, StepKeeps
  <2>2. CASE VpnStep
    BY <2>2, VpnEntersKeeps, EngineKeeps, UnroutedKeeps, RoutedKeeps, StoreKeeps
       DEF VpnStep
  <2>3. CASE ApplyStep
    BY <2>3, ApplyEntersKeeps, EnsuredKeeps, ApplyKeeps, StoreKeeps DEF ApplyStep
  <2>4. CASE Restore
    BY <2>4, ApplyKeeps, RestoreRulesKeeps, RulesRestoredKeeps DEF Restore
  <2>5. CASE BringBackOnce
    BY <2>5, BringBackKeeps
  <2>6. CASE \E n \in Nodes : ImportConfig(n) \/ Activate(n) \/ RemoveNode(n)
    BY <2>6, CallsKeep
  <2>7. CASE \/ \E b \in BOOLEAN : SetRules(b)
             \/ \E d \in Imports : ReplaceDocument(d)
    BY <2>7, StoreKeeps
  <2>8. CASE \E who \in {"person", "retry"} : ApplyRules(who)
    BY <2>8, ApplyKeeps
  <2>9. CASE ForeignRule /\ UNCHANGED <<run, vpnVars, markVars, storeVars, reported>>
    BY <2>9, ForeignKeeps DEF Managers
  <2>10. CASE \E b \in BOOLEAN : Die(b)
    BY <2>10, DieKeeps
  <2>11. CASE UNCHANGED tunnelVars
    <3>1. /\ UNCHANGED <<rules, refusing, table, dev, routerVars, faults, reported>>
          /\ UNCHANGED Managers
      BY <2>11 DEF tunnelVars, kernelVars, Managers
    <3>2. RouterTypeOK' /\ HoldInv' /\ DoneInv' /\ RefusedInv'
      BY <3>1, QuietKeeps DEF TunnelInv, TunnelTypeOK, RouterTypeOK, Managers, markVars
    <3>3. TunnelTypeOK'
      BY <3>1, <3>2, ManagersType DEF TunnelInv
    <3>4. LockInv' /\ DeviceInv'
      BY <3>1 DEF TunnelInv, LockInv, DeviceInv, routerVars, Managers, vpnVars,
         markVars
    <3> QED
      BY <3>2, <3>3, <3>4 DEF TunnelInv
  <2> QED
    BY <2>1, <2>2, <2>3, <2>4, <2>5, <2>6, <2>7, <2>8, <2>9, <2>10, <2>11
       DEF TunnelNext
<1> QED
  BY InitTunnelInv, <1>1, PTL DEF TunnelSpec

\* TunnelTypeCorrect: the router's loops stay inside WantRules, the device that
\* is routed is a connection's, and every document written is one.
THEOREM TunnelTypeCorrect == TunnelSpec => []TunnelTypeOK
<1>1. TunnelInv => TunnelTypeOK
  BY DEF TunnelInv
<1> QED
  BY <1>1, TunnelInductive, PTL

\* NothingLeaks: marked traffic never leaves by the uplink, whatever fails,
\* dies or interferes, for any families, connections and foreign rules.
THEOREM NothingLeaks == TunnelSpec => []NoLeak
<1>1. TunnelInv => NoLeak
  BY RefusedIsNoLeak DEF TunnelInv, RefusedInv, NoLeak
<1> QED
  BY <1>1, TunnelInductive, PTL

\* UpMeansRouted: a connection that reads as up has its device and its routes.
THEOREM UpMeansRouted == TunnelSpec => []ReadsUpIsRouted
<1>1. TunnelInv => ReadsUpIsRouted
  BY DEF TunnelInv, DeviceInv, ReadsUpIsRouted
<1> QED
  BY <1>1, TunnelInductive, PTL

\* HoldsAreReported: no hold stays behind unreported.
THEOREM HoldsAreReported == TunnelSpec => []HoldIsReported
<1>1. TunnelInv => HoldIsReported
  BY DEF TunnelInv, LockInv, DoneInv, HoldIsReported
<1> QED
  BY <1>1, TunnelInductive, PTL

\* ChoiceIsThePersons: the bringBack goroutine never takes down a connection
\* that is up.
THEOREM ChoiceIsThePersons == TunnelSpec => PersonsChoiceStays
<1>1. TunnelInv /\ [TunnelNext]_tunnelVars
      => [up # NoNode /\ up' # up /\ run' # "dead" => req # "bringBack"]_tunnelVars
  <2> SUFFICES ASSUME TunnelInv, TunnelNext, up # NoNode, up' # up, run' # "dead"
               PROVE  req # "bringBack"
    OBVIOUS
  <2>1. Unrouted \/ Routed
    BY DEF TunnelNext, Step, VpnStep, ApplyStep, Restore, VpnEnters, EngineDown,
       EngineUp, Update, Save, ApplyEnters, Ensured, Nft, RulesSaved, Start,
       RestoreRules, RulesRestored, RestoreNode, BringBackOnce, BringBackEnds,
       ActivateLocked, Begins, ImportConfig, Activate, RemoveNode, SetRules,
       ReplaceDocument, ApplyRules, Die, vpnVars
  <2>2. CASE Unrouted
    BY <2>2 DEF Unrouted, TunnelInv, DeviceInv
  <2>3. CASE Routed
    BY <2>3 DEF Routed, TunnelInv, DeviceInv
  <2> QED
    BY <2>1, <2>2, <2>3
<1> QED
  BY <1>1, TunnelInductive, PTL DEF TunnelSpec, PersonsChoiceStays
=============================================================================
