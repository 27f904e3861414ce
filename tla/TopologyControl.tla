-------------------------- MODULE TopologyControl --------------------------
(***************************************************************************)
(* What the switch guards promise, without routers, phases or nodes: a run *)
(* adopts a first topology and from then on switches only to a topology it *)
(* has not left recently, only after the active one has dwelled MinDwell   *)
(* iterations, and at most MaxPerRun times. The history is the tail of the *)
(* topologies the run left, in order.                                      *)
(***************************************************************************)
EXTENDS Integers, Sequences

CONSTANTS Names, None, MinDwell, Cooldown, MaxPerRun, HistoryTail

VARIABLES
  active,   \* the topology in force, or None
  left,     \* the last HistoryTail topologies that were left
  count,    \* switches so far
  clock,    \* iterations the run has done
  since     \* clock when active came into force

cvars == <<active, left, count, clock, since>>

LastOf(s, n) == IF Len(s) > n THEN SubSeq(s, Len(s) - n + 1, Len(s)) ELSE s

Init == active = None /\ left = << >> /\ count = 0 /\ clock = 0 /\ since = 0

\* A sub-topology does some iterations.
Work == clock' \in Nat /\ clock' > clock /\ UNCHANGED <<active, left, count, since>>

Adopt ==
  /\ active = None /\ active' \in Names
  /\ since' = clock
  /\ UNCHANGED <<left, count, clock>>

Switch ==
  /\ active # None /\ active' \in Names \ {active}
  /\ clock - since >= MinDwell
  /\ active' \notin {left[i] : i \in {j \in DOMAIN left : j > Len(left) - Cooldown}}
  /\ count < MaxPerRun
  /\ count' = count + 1
  /\ left' = LastOf(Append(left, active), HistoryTail)
  /\ since' = clock
  /\ UNCHANGED clock

Next == Work \/ Adopt \/ Switch

Spec == Init /\ [][Next]_cvars
=============================================================================
