---------------------------- MODULE ApplyPromise ----------------------------
(***************************************************************************)
(* What the apply transaction promises the operator, with nothing said     *)
(* about how: no mutex, no journal, no snapshot, no timer, no process.     *)
(*                                                                         *)
(* The device runs a configuration; the operator has accepted one.  The    *)
(* two differ only while a change is being made, is on offer, or is being  *)
(* taken back.  What is on offer does not move, and only an answer from    *)
(* the operator changes what is accepted.  When the safety net is cut the  *)
(* device may be left with anything, but still nothing is accepted on the  *)
(* operator's behalf.                                                      *)
(***************************************************************************)
CONSTANTS Configurations,    \* what the device can run
          AtOnce(_, _)       \* the first with the part of the second that
                             \* takes effect without being offered

VARIABLES running,  \* what the device runs
          kept,     \* what the operator accepted last
          stage,    \* of the change in progress
          whole     \* the safety net is whole

promiseVars == <<running, kept, stage, whole>>

Stages == {"settled", "changing", "offered", "undoing"}

PromiseInit == /\ running \in Configurations
               /\ kept = running
               /\ stage = "undoing"     \* the daemon has not looked yet
               /\ whole = TRUE

\* The net can be cut in any step, and is mended by an answer alone.
MayBeCut == whole' => whole

Begin == /\ stage = "settled" /\ stage' = "changing"
         /\ MayBeCut
         /\ UNCHANGED <<running, kept>>

\* Something changes on the device, on the way there or on the way back.
Work == /\ stage \in {"changing", "undoing"}
        /\ running' \in Configurations
        /\ UNCHANGED <<kept, stage, whole>>

Offer == /\ stage = "changing" /\ stage' = "offered"
         /\ UNCHANGED <<running, kept, whole>>

\* The operator's answer.  A net that could not be mended is cut.
Accept == /\ stage = "offered" /\ stage' = "settled"
          /\ kept' = running
          /\ whole' \in BOOLEAN
          /\ UNCHANGED running

\* A change that is not offered: the operator accepted it by asking for it.
AcceptAtOnce == /\ stage = "changing" /\ stage' = "settled"
                /\ kept' = AtOnce(kept, running)
                /\ whole => running = kept'
                /\ UNCHANGED <<running, whole>>

\* The operator declines, the window closes, or the process dies.
TakeBack == /\ stage' = "undoing"
            /\ MayBeCut
            /\ UNCHANGED <<running, kept>>

Undone == /\ stage \in {"changing", "undoing"} /\ stage' = "settled"
          /\ MayBeCut
          /\ whole' => running = kept
          /\ UNCHANGED <<running, kept>>

PromiseNext == Begin \/ Work \/ Offer \/ Accept \/ AcceptAtOnce \/ TakeBack
               \/ Undone

PromiseSpec == PromiseInit /\ [][PromiseNext]_promiseVars
=============================================================================
