---------------------------- MODULE MCScheduler ----------------------------
(* Plans for the model checker. A step is named by a letter.               *)
EXTENDS Scheduler

Sym(R) == R \cup {<<p[2], p[1]>> : p \in R}

\* One task: code (agent), repair (agent, when code failed), ship (agent, needs
\* code), lint (command, needs nothing).
PlanSteps == {"code", "repair", "ship", "lint"}
PlanTaskOf == [s \in PlanSteps |-> "t1"]
PlanNeeds == [s \in PlanSteps |-> IF s \in {"repair", "ship"} THEN {"code"} ELSE {}]
PlanWhenStep == [s \in PlanSteps |-> IF s = "repair" THEN "code" ELSE None]
PlanWhenStatus == [s \in PlanSteps |-> "failed"]
PlanTries == [s \in PlanSteps |-> IF s = "code" THEN 2 ELSE 1]
PlanHops == [s \in PlanSteps |-> IF s = "code" THEN 1 ELSE 0]

\* One task, two independent steps: an agent and a command.
PairSteps == {"code", "verify"}
PairTaskOf == [s \in PairSteps |-> "t1"]
PairNeeds == [s \in PairSteps |-> {}]
PairWhenStep == [s \in PairSteps |-> None]
PairWhenStatus == [s \in PairSteps |-> "failed"]
PairTries == [s \in PairSteps |-> IF s = "code" THEN 2 ELSE 1]
OnceTries == [s \in PairSteps |-> 1]
PairHops == [s \in PairSteps |-> 0]
PairOverlap == Sym({<<"code", "verify">>})
PairAcross == [s \in PairSteps |-> IF s = "code" THEN "t1" ELSE "t2"]
PairFollow == [s \in PairSteps |-> IF s = "verify" THEN {"code"} ELSE {}]
TwoAttempts == 1..2
ThreeAttempts == 1..3
SixAttempts == 1..6
=============================================================================
