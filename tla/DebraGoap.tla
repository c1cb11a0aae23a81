------------------------------ MODULE DebraGoap ------------------------------
(***************************************************************************)
(* The GOAP world of the Debra robot (strategy.cpp): DebraState, the four  *)
(* actions' can_run, plan_effects and execute, the two goals, and the     *)
(* contract of the planner (goap::Planner, outside this repository):      *)
(* plan() returns a path of at most max_path_len actions, each runnable   *)
(* in the state the previous ones' plan_effects give, that reaches the    *)
(* goal at its end and not before, and 0 when there is none.              *)
(***************************************************************************)
EXTENDS Integers, Sequences

CONSTANTS
    MaxPathLen,     \* max_path_len (line 446)
    UnsignedMod     \* 2^(bits of unsigned): the wrap-around of DebraState's counters

ASSUME GoapAssumptions ==
    /\ MaxPathLen \in Nat \ {0}
    /\ UnsignedMod \in Nat /\ UnsignedMod > 10

-----------------------------------------------------------------------------
(* Lines 195-200: DebraState, with unsigned score and cylinder_count.      *)
DebraStates ==
    [score : 0..UnsignedMod - 1, arms_are_indexed : BOOLEAN,
     arms_are_deployed : BOOLEAN, cylinder_count : 0..UnsignedMod - 1]

InitialDebraState ==
    [score |-> 0, arms_are_indexed |-> FALSE, arms_are_deployed |-> TRUE,
     cylinder_count |-> 0]

(* unsigned arithmetic of lines 196 and 199: modulo 2^bits.                *)
UnsignedAdd(x, d) == (x + d) % UnsignedMod

(* Lines 202-213: IndexArms can always run and indexes the arms.           *)
IndexArmsCanRun(s) == TRUE
IndexArmsPlanEffects(s) == [s EXCEPT !.arms_are_indexed = TRUE]

(* Lines 215-244: indexing never fails.                                    *)
IndexArmsExecute(s, moved) == [state |-> [s EXCEPT !.arms_are_indexed = TRUE], ok |-> TRUE]

(* Lines 247-257: RetractArms needs indexed arms.                          *)
RetractArmsCanRun(s) == s.arms_are_indexed
RetractArmsPlanEffects(s) == [s EXCEPT !.arms_are_deployed = FALSE]

(* Lines 259-269.                                                          *)
RetractArmsExecute(s, moved) == [state |-> [s EXCEPT !.arms_are_deployed = FALSE], ok |-> TRUE]

(* Lines 280-290: CollectCylinder needs the arms in.                       *)
CollectCylinderCanRun(s) == ~s.arms_are_deployed
CollectCylinderPlanEffects(s) ==
    [s EXCEPT !.cylinder_count = UnsignedAdd(@, 1), !.arms_are_deployed = TRUE]

(* Mutant of CollectCylinderExecute: line 342 is lost.                     *)
CollectCylinderExecuteNoCount(s, moved) ==
    IF ~moved THEN [state |-> [s EXCEPT !.arms_are_deployed = TRUE], ok |-> FALSE]
    ELSE [state |-> [s EXCEPT !.arms_are_deployed = TRUE], ok |-> TRUE]

(* Lines 292-345: the approach with the base may fail (lines 312-315),     *)
(* leaving the arm deployed; otherwise the cylinder is taken.              *)
CollectCylinderExecute(s, moved) ==
    IF ~moved THEN [state |-> [s EXCEPT !.arms_are_deployed = TRUE], ok |-> FALSE]
    ELSE [state |-> [s EXCEPT !.cylinder_count = UnsignedAdd(@, 1),
                               !.arms_are_deployed = TRUE],
          ok |-> TRUE]

(* Lines 356-367: DepositCylinder needs the arms in and a cylinder.        *)
DepositCylinderCanRun(s) == ~s.arms_are_deployed /\ s.cylinder_count > 0
DepositCylinderPlanEffects(s) ==
    [s EXCEPT !.score = UnsignedAdd(@, 10),
              !.cylinder_count = UnsignedAdd(@, UnsignedMod - 1),
              !.arms_are_deployed = TRUE]

(* Mutant of DepositCylinderExecute: line 409 is lost.                     *)
DepositCylinderExecuteNoScore(s, moved) ==
    IF ~moved THEN [state |-> [s EXCEPT !.arms_are_deployed = TRUE], ok |-> FALSE]
    ELSE [state |-> [s EXCEPT !.cylinder_count = UnsignedAdd(@, UnsignedMod - 1),
                               !.arms_are_deployed = TRUE],
          ok |-> TRUE]

(* Lines 369-413: the move to the construction area may fail (385-388);   *)
(* otherwise the cylinder is dropped and scored.                           *)
DepositCylinderExecute(s, moved) ==
    IF ~moved THEN [state |-> [s EXCEPT !.arms_are_deployed = TRUE], ok |-> FALSE]
    ELSE [state |-> [s EXCEPT !.score = UnsignedAdd(@, 10),
                               !.cylinder_count = UnsignedAdd(@, UnsignedMod - 1),
                               !.arms_are_deployed = TRUE],
          ok |-> TRUE]

(* Lines 417-429: the two goals.                                           *)
InitGoalReached(s) == ~s.arms_are_deployed

(* Mutant of GameGoalReached: || for &&.                                   *)
GameGoalReachedEither(s) == s.score > 0 \/ ~s.arms_are_deployed

GameGoalReached(s) == s.score > 0 /\ ~s.arms_are_deployed

Goals == {"init", "game"}
GoalReached(g, s) == IF g = "init" THEN InitGoalReached(s) ELSE GameGoalReached(s)

(* Lines 449-454: the action table given to the planner.                   *)
DebraActions == {"index_arms", "retract_arms", "collect_cylinder", "deposit_cylinder"}

(* The virtual calls can_run, plan_effects and execute on an action of     *)
(* the table (lines 456, 466, 499).                                        *)
CanRun(a, s) ==
    \/ a = "index_arms" /\ IndexArmsCanRun(s)
    \/ a = "retract_arms" /\ RetractArmsCanRun(s)
    \/ a = "collect_cylinder" /\ CollectCylinderCanRun(s)
    \/ a = "deposit_cylinder" /\ DepositCylinderCanRun(s)

PlanEffects(a, s) ==
    IF a = "index_arms" THEN IndexArmsPlanEffects(s)
    ELSE IF a = "retract_arms" THEN RetractArmsPlanEffects(s)
    ELSE IF a = "collect_cylinder" THEN CollectCylinderPlanEffects(s)
    ELSE DepositCylinderPlanEffects(s)

Execute(a, s, moved) ==
    IF a = "index_arms" THEN IndexArmsExecute(s, moved)
    ELSE IF a = "retract_arms" THEN RetractArmsExecute(s, moved)
    ELSE IF a = "collect_cylinder" THEN CollectCylinderExecute(s, moved)
    ELSE DepositCylinderExecute(s, moved)

-----------------------------------------------------------------------------
(* The planner's contract (planner.plan, lines 464 and 494).              *)

(* Mutants of Candidates: a path buffer one action short, or the planner *)
(* told of one more slot than path[] has.                                 *)
CandidatesLong == UNION {[1..n -> DebraActions] : n \in 1..MaxPathLen + 1}

CandidatesShort == UNION {[1..n -> DebraActions] : n \in 1..MaxPathLen - 1}

(* Lines 446-447: plans fit the path buffer of max_path_len actions.      *)
Candidates == UNION {[1..n -> DebraActions] : n \in 1..MaxPathLen}

(* The states plan_effects predicts along a path p from state s.          *)
Chain(s, p) ==
    LET t[i \in 1..Len(p) + 1] == IF i = 1 THEN s ELSE PlanEffects(p[i - 1], t[i - 1])
    IN  t

(* A plan: its actions and the predicted states before and after each.    *)
ValidPlan(s, g, pl) ==
    LET n == Len(pl.acts)
    IN  /\ pl.sts \in [1..n + 1 -> DebraStates]
        /\ pl.sts[1] = s
        /\ \A j \in 1..n : /\ CanRun(pl.acts[j], pl.sts[j])
                           /\ pl.sts[j + 1] = PlanEffects(pl.acts[j], pl.sts[j])
                           /\ ~GoalReached(g, pl.sts[j])
        /\ GoalReached(g, pl.sts[n + 1])

Plans(s, g) ==
    {pl \in {[acts |-> p, sts |-> Chain(s, p)] : p \in Candidates} : ValidPlan(s, g, pl)}
=============================================================================
