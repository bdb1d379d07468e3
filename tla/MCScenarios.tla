---------------------------- MODULE MCScenarios ----------------------------
(***************************************************************************)
(* TLC instances of RunCore in which a few of the attempts and writers     *)
(* take part, with as long a history as is worth while for them: a run     *)
(* checks the union of its scenarios.                                      *)
(***************************************************************************)
EXTENDS RunCore, TLC

VARIABLE scenario

Scenario(who, items, events) == [who |-> who, items |-> items, events |-> events]

(* Only who is in the scenario acts, on its items and within its bound.    *)
Within ==
  /\ UNCHANGED scenario
  /\ Len(log') <= scenario.events
  /\ \A a \in Attempts : /\ a \in scenario.who \/ sink'[a] = sink[a]
                         /\ sink'[a].item \in scenario.items \cup {NoId}
  /\ \A n \in (Len(log) + 1)..Len(log') :
       log'[n].kind = "item_ended" => log'[n].ref \in scenario.items
  /\ \A w \in Writers \ scenario.who : pend'[w] = pend[w]

ScenarioInit(scenarios) == Init /\ scenario \in scenarios

ScenarioNext == Next /\ Within

(* What the gate decides on: repeated executions or verifications; a       *)
(* review of one of two diffs; a failed execution, verification, fix loop. *)
GateScenarios ==
  {Scenario(Executions \cup {v} \cup Workers, {}, 8) : v \in Verifications}
    \cup {Scenario({e} \cup Verifications \cup Workers, {}, 8) : e \in Executions}
    \cup {Scenario({e, v} \cup Reviews \cup Workers, {}, 10) :
            e \in Executions, v \in Verifications}
    \cup {Scenario({e, v} \cup Loops \cup Workers, {}, 8) :
            e \in Executions, v \in Verifications}

EvidenceSpec == ScenarioInit(GateScenarios) /\ [][ScenarioNext]_<<vars, scenario>>

EvidenceSymmetry == Permutations(Executions) \cup Permutations(Verifications)
                      \cup Permutations(Diffs)

(* A Run with its user, its worker and a recovery; a recovery of a fix     *)
(* loop and its verification; a recovery of native and ACP planners.       *)
Histories ==
  {Scenario(Executions \cup Verifications \cup Writers, {}, 9),
   Scenario(Verifications \cup Loops \cup Recoverers, Items, 11),
   Scenario(Plans \cup AcpSessions \cup Recoverers, Items, 9)}

HistorySpec == ScenarioInit(Histories) /\ [][ScenarioNext]_<<vars, scenario>>
=============================================================================
