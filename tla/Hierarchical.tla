---------------------------- MODULE Hierarchical ----------------------------
(***************************************************************************)
(* The hierarchical topology, atm/topology/hierarchical.py, without a      *)
(* human: a top coordinator runs team A, then team B, and finalizes when   *)
(* both drafts exist or a limit is reached. Drafts, activation flags and   *)
(* the finalize signal live in signals and survive the subgraph.           *)
(***************************************************************************)
EXTENDS SharedState

CONSTANT HierMaxRounds
ASSUME HierAssumption == HierMaxRounds \in Nat

\* Faulty: a coordinator turn that is not counted.
CountNothing(s) == s

Count(s) == [s EXCEPT !.iter_total = @ + 1, !.iteration = @ + 1]

\* top_coord_node: both teams are activated only on the first iteration of the run.
TopCoord(s) ==
  [Count(s) EXCEPT !.signals =
     IF s.iter_total = 0 THEN @ \cup {"activate_team_a", "activate_team_b"} ELSE @]

TopCoordRoute(s) ==
  LET drafts == {"team_a_draft", "team_b_draft"}
  IN IF s.iter_total >= SubMax \/ "top_coord_finalize" \in s.signals THEN "finalize"
     ELSE IF "activate_team_a" \in s.signals THEN "team_a"
     ELSE IF "activate_team_b" \in s.signals THEN "team_b"
     ELSE IF drafts \subseteq s.signals \/ s.iter_total > HierMaxRounds THEN "finalize"
     ELSE "team_a"

\* A team's workers run in order; draft: some worker of the team has a draft.
\* top_coord_after_team_a always hands the turn to team B.
AfterTeamA(s, draft) ==
  [s EXCEPT !.signals = (@ \ {"activate_team_a"}) \cup {"activate_team_b"}
                          \cup (IF draft THEN {"team_a_draft"} ELSE {})]

TeamA(s) ==
  { AfterTeamA(Count(ExecutorStep(s, w)), draft) :
    w \in SUBSET ExecutorSignals, draft \in BOOLEAN }

\* top_coord_after_team_b: finalize needs team A's recorded draft and a draft of team B.
AfterTeamB(s, draft) ==
  [s EXCEPT !.signals = (@ \ {"activate_team_b"})
                          \cup (IF draft THEN {"team_b_draft"} ELSE {})
                          \cup (IF draft /\ "team_a_draft" \in @
                                THEN {"top_coord_finalize"} ELSE {})]

TeamB(s) ==
  { AfterTeamB(Count(ExecutorStep(s, w)), draft) :
    w \in SUBSET ExecutorSignals, draft \in BOOLEAN }

TeamBStops(s) ==
  \/ s.iter_total >= SubMax
  \/ "top_coord_finalize" \in s.signals
  \/ s.iter_total > HierMaxRounds
=============================================================================
