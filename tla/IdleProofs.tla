----------------------------- MODULE IdleProofs -----------------------------
(***************************************************************************)
(* Proof that the game loop of strategy_debra_play_game never takes the   *)
(* "No valid plan found" branch (lines 509-511) when the path buffer has  *)
(* room for five actions (max_path_len is 10, line 446): from every state *)
(* the loop can ask for a plan in, a plan of at most five actions reaches *)
(* GameGoal.  The planner's contract (DebraGoap) is about Chain, the     *)
(* recursive function of the states plan_effects predicts; the witness    *)
(* plans are checked against its defining equation.                      *)
(***************************************************************************)
EXTENDS StrategyProofs

-----------------------------------------------------------------------------
(* The predicted states of a path.                                         *)

(* Chain(s, p) satisfies its defining equation: some function does.      *)
LEMMA ChainEquation ==
    ASSUME NEW s, NEW p \in Seq(DebraActions),
           NEW q \in [1..Len(p) + 1 -> DebraStates],
           q[1] = s,
           \A i \in 2..Len(p) + 1 : q[i] = PlanEffects(p[i - 1], q[i - 1])
    PROVE  Chain(s, p) =
              [i \in 1..Len(p) + 1 |->
                  IF i = 1 THEN s ELSE PlanEffects(p[i - 1], Chain(s, p)[i - 1])]
<1>1. q = [i \in 1..Len(p) + 1 |-> IF i = 1 THEN s ELSE PlanEffects(p[i - 1], q[i - 1])]
    OBVIOUS
<1>. QED
    BY <1>1 DEF Chain

(* For a path of at most five actions, the states q that follow the      *)
(* equation step by step are Chain(s, p).                                 *)
LEMMA ChainValues ==
    ASSUME NEW s, NEW p \in Seq(DebraActions), Len(p) <= 5,
           NEW q \in [1..Len(p) + 1 -> DebraStates],
           q[1] = s,
           \A i \in 2..Len(p) + 1 : q[i] = PlanEffects(p[i - 1], q[i - 1])
    PROVE  Chain(s, p) = q
<1> DEFINE c == Chain(s, p)
           D == 1..Len(p) + 1
<1>1. c = [i \in D |-> IF i = 1 THEN s ELSE PlanEffects(p[i - 1], c[i - 1])]
    BY ChainEquation
<1>2. \A i \in D : i <= 1 => c[i] = q[i]
    BY <1>1
<1>3. \A i \in D : i <= 2 => c[i] = q[i]
    BY <1>1, <1>2
<1>4. \A i \in D : i <= 3 => c[i] = q[i]
    BY <1>1, <1>3
<1>5. \A i \in D : i <= 4 => c[i] = q[i]
    BY <1>1, <1>4
<1>6. \A i \in D : i <= 5 => c[i] = q[i]
    BY <1>1, <1>5
<1>7. \A i \in D : i <= 6 => c[i] = q[i]
    BY <1>1, <1>6
<1>. QED
    BY <1>1, <1>7

(* A path of at most five actions that is runnable along its predicted   *)
(* states, misses goal g before its end and reaches it at its end, is a  *)
(* plan the planner may return.                                           *)
LEMMA PlanWitness ==
    ASSUME NEW s \in DebraStates, NEW g \in Goals,
           NEW n \in 1..5, n <= MaxPathLen,
           NEW p \in [1..n -> DebraActions],
           NEW q \in [1..n + 1 -> DebraStates],
           q[1] = s,
           \A j \in 1..n : /\ CanRun(p[j], q[j])
                           /\ q[j + 1] = PlanEffects(p[j], q[j])
                           /\ ~GoalReached(g, q[j]),
           GoalReached(g, q[n + 1])
    PROVE  [acts |-> p, sts |-> q] \in Plans(s, g)
<1>1. p \in Seq(DebraActions) /\ Len(p) = n
    OBVIOUS
<1>2. Chain(s, p) = q
    <2>1. \A i \in 2..Len(p) + 1 : q[i] = PlanEffects(p[i - 1], q[i - 1])
        <3> SUFFICES ASSUME NEW i \in 2..n + 1 PROVE q[i] = PlanEffects(p[i - 1], q[i - 1])
            BY <1>1
        <3>1. i - 1 \in 1..n /\ (i - 1) + 1 = i
            OBVIOUS
        <3>. QED
            BY <3>1
    <2>. QED
        BY <1>1, <2>1, ChainValues
<1>3. p \in Candidates
    BY DEF Candidates
<1>4. ValidPlan(s, g, [acts |-> p, sts |-> q])
    BY <1>1 DEF ValidPlan
<1>. QED
    BY <1>2, <1>3, <1>4, Zenon DEF Plans

-----------------------------------------------------------------------------
(* What plan_effects of the three actions in the witness plans predicts:  *)
(* RetractArms pulls the arms in (lines 250-254).                          *)
LEMMA RetractFields ==
    ASSUME NEW s \in DebraStates
    PROVE  /\ PlanEffects("retract_arms", s) \in DebraStates
           /\ PlanEffects("retract_arms", s).arms_are_deployed = FALSE
           /\ PlanEffects("retract_arms", s).score = s.score
           /\ PlanEffects("retract_arms", s).cylinder_count = s.cylinder_count
           /\ PlanEffects("retract_arms", s).arms_are_indexed = s.arms_are_indexed
BY DEF PlanEffects, DebraStates, RetractArmsPlanEffects

(* CollectCylinder counts one more cylinder with the arms out (285-289).  *)
LEMMA CollectFields ==
    ASSUME NEW s \in DebraStates
    PROVE  /\ PlanEffects("collect_cylinder", s) \in DebraStates
           /\ PlanEffects("collect_cylinder", s).arms_are_deployed = TRUE
           /\ PlanEffects("collect_cylinder", s).score = s.score
           /\ PlanEffects("collect_cylinder", s).cylinder_count =
                 (s.cylinder_count + 1) % UnsignedMod
           /\ PlanEffects("collect_cylinder", s).arms_are_indexed = s.arms_are_indexed
<1>1. UnsignedAdd(s.cylinder_count, 1) \in 0..UnsignedMod - 1
    BY UnsignedAddType DEF DebraStates
<1>. QED
    BY <1>1 DEF PlanEffects, DebraStates, CollectCylinderPlanEffects, UnsignedAdd

(* DepositCylinder scores 10 with the arms out (lines 361-366).           *)
LEMMA DepositFields ==
    ASSUME NEW s \in DebraStates
    PROVE  /\ PlanEffects("deposit_cylinder", s) \in DebraStates
           /\ PlanEffects("deposit_cylinder", s).arms_are_deployed = TRUE
           /\ PlanEffects("deposit_cylinder", s).score = (s.score + 10) % UnsignedMod
           /\ PlanEffects("deposit_cylinder", s).arms_are_indexed = s.arms_are_indexed
<1>1. /\ UnsignedAdd(s.score, 10) \in 0..UnsignedMod - 1
      /\ UnsignedAdd(s.cylinder_count, UnsignedMod - 1) \in 0..UnsignedMod - 1
    BY UnsignedAddType, GoapAssumptions DEF DebraStates
<1>. QED
    BY <1>1 DEF PlanEffects, DebraStates, DepositCylinderPlanEffects, UnsignedAdd

(* The game loop asks for a plan (line 494) with the arms indexed and     *)
(* GameGoal not reached.  Then, with room for five actions, the planner  *)
(* has a plan: retract the arms if they are out and nothing was scored,  *)
(* collect a cylinder if none is held, retract, deposit it, retract.     *)
LEMMA GamePlanExists ==
    ASSUME MaxPathLen >= 5,
           NEW s \in DebraStates, s.arms_are_indexed, ~GameGoalReached(s)
    PROVE  Plans(s, "game") # {}
<1>0. /\ "game" \in Goals
      /\ \A x : GoalReached("game", x) = GameGoalReached(x)
      /\ s.score \in 0..UnsignedMod - 1 /\ s.cylinder_count \in 0..UnsignedMod - 1
      /\ ~s.arms_are_deployed => s.score = 0
      /\ UnsignedMod \in Nat /\ UnsignedMod > 10
    BY GoapAssumptions DEF Goals, GoalReached, GameGoalReached, DebraStates
<1>1. CASE s.arms_are_deployed /\ s.score > 0
    <2> DEFINE q1 == s
               q2 == PlanEffects("retract_arms", q1)
               p == <<"retract_arms">>
               q == <<q1, q2>>
    <2>1. /\ q2 \in DebraStates /\ q2.arms_are_indexed
          /\ q2.arms_are_deployed = FALSE
          /\ q2.score = q1.score /\ q2.cylinder_count = q1.cylinder_count
        BY <1>1, <1>0, RetractFields
    <2>3. \A j \in 1..1 : /\ CanRun(p[j], q[j])
                      /\ q[j + 1] = PlanEffects(p[j], q[j])
                      /\ ~GoalReached("game", q[j])
        <3> SUFFICES ASSUME NEW j \in 1..1
                     PROVE  /\ CanRun(p[j], q[j])
                            /\ q[j + 1] = PlanEffects(p[j], q[j])
                            /\ ~GoalReached("game", q[j])
            OBVIOUS
        <3>1. CASE j = 1
            <4>1. p[j] = "retract_arms" /\ q[j] = q1 /\ q[j + 1] = q2
                BY <3>1
            <4>2. CanRun("retract_arms", q1) /\ ~GameGoalReached(q1)
                BY <2>1, <1>0, <1>1 DEF CanRun, RetractArmsCanRun, GameGoalReached
            <4>. QED
                BY <1>0, <4>1, <4>2
        <3>. QED
            BY <3>1
    <2>4. GoalReached("game", q[1 + 1])
        <3>1. q[1 + 1] = q2
            OBVIOUS
        <3>2. GameGoalReached(q2)
            BY <2>1, <1>0, <1>1 DEF GameGoalReached
        <3>. QED
            BY <1>0, <3>1, <3>2
    <2>5. /\ 1 \in 1..5 /\ 1 <= MaxPathLen /\ 1 + 1 = 2
          /\ p \in [1..1 -> DebraActions] /\ q \in [1..1 + 1 -> DebraStates]
          /\ q[1] = s
        BY <2>1, GoapAssumptions DEF DebraActions
    <2>6. [acts |-> p, sts |-> q] \in Plans(s, "game")
        <3> HIDE DEF p, q
        <3>. QED
            BY <1>0, <2>3, <2>4, <2>5, PlanWitness, Zenon
    <2>. QED
        BY <2>6
<1>2. CASE s.arms_are_deployed /\ s.score = 0 /\ s.cylinder_count > 0
    <2> DEFINE q1 == s
               q2 == PlanEffects("retract_arms", q1)
               q3 == PlanEffects("deposit_cylinder", q2)
               q4 == PlanEffects("retract_arms", q3)
               p == <<"retract_arms", "deposit_cylinder", "retract_arms">>
               q == <<q1, q2, q3, q4>>
    <2>1. /\ q2 \in DebraStates /\ q2.arms_are_indexed
          /\ q2.arms_are_deployed = FALSE
          /\ q2.score = q1.score /\ q2.cylinder_count = q1.cylinder_count
        BY <1>2, <1>0, RetractFields
    <2>2. /\ q3 \in DebraStates /\ q3.arms_are_indexed
          /\ q3.arms_are_deployed = TRUE
          /\ q3.score = (q2.score + 10) % UnsignedMod
        BY <2>1, DepositFields
    <2>3. /\ q4 \in DebraStates /\ q4.arms_are_indexed
          /\ q4.arms_are_deployed = FALSE
          /\ q4.score = q3.score /\ q4.cylinder_count = q3.cylinder_count
        BY <2>2, RetractFields
    <2>5. \A j \in 1..3 : /\ CanRun(p[j], q[j])
                      /\ q[j + 1] = PlanEffects(p[j], q[j])
                      /\ ~GoalReached("game", q[j])
        <3> SUFFICES ASSUME NEW j \in 1..3
                     PROVE  /\ CanRun(p[j], q[j])
                            /\ q[j + 1] = PlanEffects(p[j], q[j])
                            /\ ~GoalReached("game", q[j])
            OBVIOUS
        <3>1. CASE j = 1
            <4>1. p[j] = "retract_arms" /\ q[j] = q1 /\ q[j + 1] = q2
                BY <3>1
            <4>2. CanRun("retract_arms", q1) /\ ~GameGoalReached(q1)
                BY <2>1, <2>2, <2>3, <1>0, <1>2 DEF CanRun, RetractArmsCanRun, GameGoalReached
            <4>. QED
                BY <1>0, <4>1, <4>2
        <3>2. CASE j = 2
            <4>1. p[j] = "deposit_cylinder" /\ q[j] = q2 /\ q[j + 1] = q3
                BY <3>2
            <4>2. CanRun("deposit_cylinder", q2) /\ ~GameGoalReached(q2)
                BY <2>1, <2>2, <2>3, <1>0, <1>2 DEF CanRun, DepositCylinderCanRun, GameGoalReached
            <4>. QED
                BY <1>0, <4>1, <4>2
        <3>3. CASE j = 3
            <4>1. p[j] = "retract_arms" /\ q[j] = q3 /\ q[j + 1] = q4
                BY <3>3
            <4>2. CanRun("retract_arms", q3) /\ ~GameGoalReached(q3)
                BY <2>1, <2>2, <2>3, <1>0, <1>2 DEF CanRun, RetractArmsCanRun, GameGoalReached
            <4>. QED
                BY <1>0, <4>1, <4>2
        <3>. QED
            BY <3>1, <3>2, <3>3
    <2>6. GoalReached("game", q[3 + 1])
        <3>1. q[3 + 1] = q4
            OBVIOUS
        <3>2. GameGoalReached(q4)
            BY <2>1, <2>2, <2>3, <1>0, <1>2 DEF GameGoalReached
        <3>. QED
            BY <1>0, <3>1, <3>2
    <2>7. /\ 3 \in 1..5 /\ 3 <= MaxPathLen /\ 3 + 1 = 4
          /\ p \in [1..3 -> DebraActions] /\ q \in [1..3 + 1 -> DebraStates]
          /\ q[1] = s
        BY <2>1, <2>2, <2>3, GoapAssumptions DEF DebraActions
    <2>8. [acts |-> p, sts |-> q] \in Plans(s, "game")
        <3> HIDE DEF p, q
        <3>. QED
            BY <1>0, <2>5, <2>6, <2>7, PlanWitness, Zenon
    <2>. QED
        BY <2>8
<1>3. CASE s.arms_are_deployed /\ s.score = 0 /\ s.cylinder_count = 0
    <2> DEFINE q1 == s
               q2 == PlanEffects("retract_arms", q1)
               q3 == PlanEffects("collect_cylinder", q2)
               q4 == PlanEffects("retract_arms", q3)
               q5 == PlanEffects("deposit_cylinder", q4)
               q6 == PlanEffects("retract_arms", q5)
               p == <<"retract_arms", "collect_cylinder", "retract_arms", "deposit_cylinder", "retract_arms">>
               q == <<q1, q2, q3, q4, q5, q6>>
    <2>1. /\ q2 \in DebraStates /\ q2.arms_are_indexed
          /\ q2.arms_are_deployed = FALSE
          /\ q2.score = q1.score /\ q2.cylinder_count = q1.cylinder_count
        BY <1>3, <1>0, RetractFields
    <2>2. /\ q3 \in DebraStates /\ q3.arms_are_indexed
          /\ q3.arms_are_deployed = TRUE
          /\ q3.score = q2.score /\ q3.cylinder_count = (q2.cylinder_count + 1) % UnsignedMod
        BY <2>1, CollectFields
    <2>3. /\ q4 \in DebraStates /\ q4.arms_are_indexed
          /\ q4.arms_are_deployed = FALSE
          /\ q4.score = q3.score /\ q4.cylinder_count = q3.cylinder_count
        BY <2>2, RetractFields
    <2>4. /\ q5 \in DebraStates /\ q5.arms_are_indexed
          /\ q5.arms_are_deployed = TRUE
          /\ q5.score = (q4.score + 10) % UnsignedMod
        BY <2>3, DepositFields
    <2>5. /\ q6 \in DebraStates /\ q6.arms_are_indexed
          /\ q6.arms_are_deployed = FALSE
          /\ q6.score = q5.score /\ q6.cylinder_count = q5.cylinder_count
        BY <2>4, RetractFields
    <2>7. \A j \in 1..5 : /\ CanRun(p[j], q[j])
                      /\ q[j + 1] = PlanEffects(p[j], q[j])
                      /\ ~GoalReached("game", q[j])
        <3> SUFFICES ASSUME NEW j \in 1..5
                     PROVE  /\ CanRun(p[j], q[j])
                            /\ q[j + 1] = PlanEffects(p[j], q[j])
                            /\ ~GoalReached("game", q[j])
            OBVIOUS
        <3>1. CASE j = 1
            <4>1. p[j] = "retract_arms" /\ q[j] = q1 /\ q[j + 1] = q2
                BY <3>1
            <4>2. CanRun("retract_arms", q1) /\ ~GameGoalReached(q1)
                BY <2>1, <2>2, <2>3, <2>4, <2>5, <1>0, <1>3 DEF CanRun, RetractArmsCanRun, GameGoalReached
            <4>. QED
                BY <1>0, <4>1, <4>2
        <3>2. CASE j = 2
            <4>1. p[j] = "collect_cylinder" /\ q[j] = q2 /\ q[j + 1] = q3
                BY <3>2
            <4>2. CanRun("collect_cylinder", q2) /\ ~GameGoalReached(q2)
                BY <2>1, <2>2, <2>3, <2>4, <2>5, <1>0, <1>3 DEF CanRun, CollectCylinderCanRun, GameGoalReached
            <4>. QED
                BY <1>0, <4>1, <4>2
        <3>3. CASE j = 3
            <4>1. p[j] = "retract_arms" /\ q[j] = q3 /\ q[j + 1] = q4
                BY <3>3
            <4>2. CanRun("retract_arms", q3) /\ ~GameGoalReached(q3)
                BY <2>1, <2>2, <2>3, <2>4, <2>5, <1>0, <1>3 DEF CanRun, RetractArmsCanRun, GameGoalReached
            <4>. QED
                BY <1>0, <4>1, <4>2
        <3>4. CASE j = 4
            <4>1. p[j] = "deposit_cylinder" /\ q[j] = q4 /\ q[j + 1] = q5
                BY <3>4
            <4>2. CanRun("deposit_cylinder", q4) /\ ~GameGoalReached(q4)
                BY <2>1, <2>2, <2>3, <2>4, <2>5, <1>0, <1>3 DEF CanRun, DepositCylinderCanRun, GameGoalReached
            <4>. QED
                BY <1>0, <4>1, <4>2
        <3>5. CASE j = 5
            <4>1. p[j] = "retract_arms" /\ q[j] = q5 /\ q[j + 1] = q6
                BY <3>5
            <4>2. CanRun("retract_arms", q5) /\ ~GameGoalReached(q5)
                BY <2>1, <2>2, <2>3, <2>4, <2>5, <1>0, <1>3 DEF CanRun, RetractArmsCanRun, GameGoalReached
            <4>. QED
                BY <1>0, <4>1, <4>2
        <3>. QED
            BY <3>1, <3>2, <3>3, <3>4, <3>5
    <2>8. GoalReached("game", q[5 + 1])
        <3>1. q[5 + 1] = q6
            OBVIOUS
        <3>2. GameGoalReached(q6)
            BY <2>1, <2>2, <2>3, <2>4, <2>5, <1>0, <1>3 DEF GameGoalReached
        <3>. QED
            BY <1>0, <3>1, <3>2
    <2>9. /\ 5 \in 1..5 /\ 5 <= MaxPathLen /\ 5 + 1 = 6
          /\ p \in [1..5 -> DebraActions] /\ q \in [1..5 + 1 -> DebraStates]
          /\ q[1] = s
        BY <2>1, <2>2, <2>3, <2>4, <2>5, GoapAssumptions DEF DebraActions
    <2>10. [acts |-> p, sts |-> q] \in Plans(s, "game")
        <3> HIDE DEF p, q
        <3>. QED
            BY <1>0, <2>7, <2>8, <2>9, PlanWitness, Zenon
    <2>. QED
        BY <2>10
<1>4. CASE ~s.arms_are_deployed /\ s.cylinder_count > 0
    <2> DEFINE q1 == s
               q2 == PlanEffects("deposit_cylinder", q1)
               q3 == PlanEffects("retract_arms", q2)
               p == <<"deposit_cylinder", "retract_arms">>
               q == <<q1, q2, q3>>
    <2>1. /\ q2 \in DebraStates /\ q2.arms_are_indexed
          /\ q2.arms_are_deployed = TRUE
          /\ q2.score = (q1.score + 10) % UnsignedMod
        BY <1>4, <1>0, DepositFields
    <2>2. /\ q3 \in DebraStates /\ q3.arms_are_indexed
          /\ q3.arms_are_deployed = FALSE
          /\ q3.score = q2.score /\ q3.cylinder_count = q2.cylinder_count
        BY <2>1, RetractFields
    <2>4. \A j \in 1..2 : /\ CanRun(p[j], q[j])
                      /\ q[j + 1] = PlanEffects(p[j], q[j])
                      /\ ~GoalReached("game", q[j])
        <3> SUFFICES ASSUME NEW j \in 1..2
                     PROVE  /\ CanRun(p[j], q[j])
                            /\ q[j + 1] = PlanEffects(p[j], q[j])
                            /\ ~GoalReached("game", q[j])
            OBVIOUS
        <3>1. CASE j = 1
            <4>1. p[j] = "deposit_cylinder" /\ q[j] = q1 /\ q[j + 1] = q2
                BY <3>1
            <4>2. CanRun("deposit_cylinder", q1) /\ ~GameGoalReached(q1)
                BY <2>1, <2>2, <1>0, <1>4 DEF CanRun, DepositCylinderCanRun, GameGoalReached
            <4>. QED
                BY <1>0, <4>1, <4>2
        <3>2. CASE j = 2
            <4>1. p[j] = "retract_arms" /\ q[j] = q2 /\ q[j + 1] = q3
                BY <3>2
            <4>2. CanRun("retract_arms", q2) /\ ~GameGoalReached(q2)
                BY <2>1, <2>2, <1>0, <1>4 DEF CanRun, RetractArmsCanRun, GameGoalReached
            <4>. QED
                BY <1>0, <4>1, <4>2
        <3>. QED
            BY <3>1, <3>2
    <2>5. GoalReached("game", q[2 + 1])
        <3>1. q[2 + 1] = q3
            OBVIOUS
        <3>2. GameGoalReached(q3)
            BY <2>1, <2>2, <1>0, <1>4 DEF GameGoalReached
        <3>. QED
            BY <1>0, <3>1, <3>2
    <2>6. /\ 2 \in 1..5 /\ 2 <= MaxPathLen /\ 2 + 1 = 3
          /\ p \in [1..2 -> DebraActions] /\ q \in [1..2 + 1 -> DebraStates]
          /\ q[1] = s
        BY <2>1, <2>2, GoapAssumptions DEF DebraActions
    <2>7. [acts |-> p, sts |-> q] \in Plans(s, "game")
        <3> HIDE DEF p, q
        <3>. QED
            BY <1>0, <2>4, <2>5, <2>6, PlanWitness, Zenon
    <2>. QED
        BY <2>7
<1>5. CASE ~s.arms_are_deployed /\ s.cylinder_count = 0
    <2> DEFINE q1 == s
               q2 == PlanEffects("collect_cylinder", q1)
               q3 == PlanEffects("retract_arms", q2)
               q4 == PlanEffects("deposit_cylinder", q3)
               q5 == PlanEffects("retract_arms", q4)
               p == <<"collect_cylinder", "retract_arms", "deposit_cylinder", "retract_arms">>
               q == <<q1, q2, q3, q4, q5>>
    <2>1. /\ q2 \in DebraStates /\ q2.arms_are_indexed
          /\ q2.arms_are_deployed = TRUE
          /\ q2.score = q1.score /\ q2.cylinder_count = (q1.cylinder_count + 1) % UnsignedMod
        BY <1>5, <1>0, CollectFields
    <2>2. /\ q3 \in DebraStates /\ q3.arms_are_indexed
          /\ q3.arms_are_deployed = FALSE
          /\ q3.score = q2.score /\ q3.cylinder_count = q2.cylinder_count
        BY <2>1, RetractFields
    <2>3. /\ q4 \in DebraStates /\ q4.arms_are_indexed
          /\ q4.arms_are_deployed = TRUE
          /\ q4.score = (q3.score + 10) % UnsignedMod
        BY <2>2, DepositFields
    <2>4. /\ q5 \in DebraStates /\ q5.arms_are_indexed
          /\ q5.arms_are_deployed = FALSE
          /\ q5.score = q4.score /\ q5.cylinder_count = q4.cylinder_count
        BY <2>3, RetractFields
    <2>6. \A j \in 1..4 : /\ CanRun(p[j], q[j])
                      /\ q[j + 1] = PlanEffects(p[j], q[j])
                      /\ ~GoalReached("game", q[j])
        <3> SUFFICES ASSUME NEW j \in 1..4
                     PROVE  /\ CanRun(p[j], q[j])
                            /\ q[j + 1] = PlanEffects(p[j], q[j])
                            /\ ~GoalReached("game", q[j])
            OBVIOUS
        <3>1. CASE j = 1
            <4>1. p[j] = "collect_cylinder" /\ q[j] = q1 /\ q[j + 1] = q2
                BY <3>1
            <4>2. CanRun("collect_cylinder", q1) /\ ~GameGoalReached(q1)
                BY <2>1, <2>2, <2>3, <2>4, <1>0, <1>5 DEF CanRun, CollectCylinderCanRun, GameGoalReached
            <4>. QED
                BY <1>0, <4>1, <4>2
        <3>2. CASE j = 2
            <4>1. p[j] = "retract_arms" /\ q[j] = q2 /\ q[j + 1] = q3
                BY <3>2
            <4>2. CanRun("retract_arms", q2) /\ ~GameGoalReached(q2)
                BY <2>1, <2>2, <2>3, <2>4, <1>0, <1>5 DEF CanRun, RetractArmsCanRun, GameGoalReached
            <4>. QED
                BY <1>0, <4>1, <4>2
        <3>3. CASE j = 3
            <4>1. p[j] = "deposit_cylinder" /\ q[j] = q3 /\ q[j + 1] = q4
                BY <3>3
            <4>2. CanRun("deposit_cylinder", q3) /\ ~GameGoalReached(q3)
                BY <2>1, <2>2, <2>3, <2>4, <1>0, <1>5 DEF CanRun, DepositCylinderCanRun, GameGoalReached
            <4>. QED
                BY <1>0, <4>1, <4>2
        <3>4. CASE j = 4
            <4>1. p[j] = "retract_arms" /\ q[j] = q4 /\ q[j + 1] = q5
                BY <3>4
            <4>2. CanRun("retract_arms", q4) /\ ~GameGoalReached(q4)
                BY <2>1, <2>2, <2>3, <2>4, <1>0, <1>5 DEF CanRun, RetractArmsCanRun, GameGoalReached
            <4>. QED
                BY <1>0, <4>1, <4>2
        <3>. QED
            BY <3>1, <3>2, <3>3, <3>4
    <2>7. GoalReached("game", q[4 + 1])
        <3>1. q[4 + 1] = q5
            OBVIOUS
        <3>2. GameGoalReached(q5)
            BY <2>1, <2>2, <2>3, <2>4, <1>0, <1>5 DEF GameGoalReached
        <3>. QED
            BY <1>0, <3>1, <3>2
    <2>8. /\ 4 \in 1..5 /\ 4 <= MaxPathLen /\ 4 + 1 = 5
          /\ p \in [1..4 -> DebraActions] /\ q \in [1..4 + 1 -> DebraStates]
          /\ q[1] = s
        BY <2>1, <2>2, <2>3, <2>4, GoapAssumptions DEF DebraActions
    <2>9. [acts |-> p, sts |-> q] \in Plans(s, "game")
        <3> HIDE DEF p, q
        <3>. QED
            BY <1>0, <2>6, <2>7, <2>8, PlanWitness, Zenon
    <2>. QED
        BY <2>9
<1>6. \/ s.arms_are_deployed /\ s.score > 0
      \/ s.arms_are_deployed /\ s.score = 0 /\ s.cylinder_count > 0
      \/ s.arms_are_deployed /\ s.score = 0 /\ s.cylinder_count = 0
      \/ ~s.arms_are_deployed /\ s.cylinder_count > 0
      \/ ~s.arms_are_deployed /\ s.cylinder_count = 0
    BY <1>0
<1>. QED
    BY <1>1, <1>2, <1>3, <1>4, <1>5, <1>6, Zenon

(* The initial plan (line 464): from the initial DebraState, index the    *)
(* arms and retract them.                                                 *)
LEMMA InitPlanExists ==
    ASSUME MaxPathLen >= 5
    PROVE  Plans(InitialDebraState, "init") # {}
<1> DEFINE q1 == InitialDebraState
           q2 == PlanEffects("index_arms", q1)
           q3 == PlanEffects("retract_arms", q2)
           p == <<"index_arms", "retract_arms">>
           q == <<q1, q2, q3>>
<1>1. /\ q1 \in DebraStates /\ q1.arms_are_deployed /\ ~q1.arms_are_indexed
      /\ "init" \in Goals
      /\ \A x : GoalReached("init", x) = InitGoalReached(x)
    BY GoapAssumptions DEF InitialDebraState, DebraStates, Goals, GoalReached
<1>2. q2 \in DebraStates /\ q2.arms_are_deployed /\ q2.arms_are_indexed
    BY <1>1 DEF PlanEffects, IndexArmsPlanEffects, DebraStates
<1>3. q3 \in DebraStates /\ ~q3.arms_are_deployed
    BY <1>2, RetractFields
<1>4. \A j \in 1..2 : /\ CanRun(p[j], q[j])
                      /\ q[j + 1] = PlanEffects(p[j], q[j])
                      /\ ~GoalReached("init", q[j])
    <2> SUFFICES ASSUME NEW j \in 1..2
                 PROVE  /\ CanRun(p[j], q[j])
                        /\ q[j + 1] = PlanEffects(p[j], q[j])
                        /\ ~GoalReached("init", q[j])
        OBVIOUS
    <2>1. CASE j = 1
        <3>1. p[j] = "index_arms" /\ q[j] = q1 /\ q[j + 1] = q2
            BY <2>1
        <3>2. CanRun("index_arms", q1) /\ ~InitGoalReached(q1)
            BY <1>1 DEF CanRun, IndexArmsCanRun, InitGoalReached
        <3>. QED
            BY <1>1, <3>1, <3>2
    <2>2. CASE j = 2
        <3>1. p[j] = "retract_arms" /\ q[j] = q2 /\ q[j + 1] = q3
            BY <2>2
        <3>2. CanRun("retract_arms", q2) /\ ~InitGoalReached(q2)
            BY <1>2 DEF CanRun, RetractArmsCanRun, InitGoalReached
        <3>. QED
            BY <1>1, <3>1, <3>2
    <2>. QED
        BY <2>1, <2>2
<1>5. GoalReached("init", q[2 + 1])
    <2>1. q[2 + 1] = q3
        OBVIOUS
    <2>. QED
        BY <1>1, <1>3, <2>1 DEF InitGoalReached
<1>6. /\ 2 \in 1..5 /\ 2 <= MaxPathLen /\ 2 + 1 = 3
      /\ p \in [1..2 -> DebraActions] /\ q \in [1..2 + 1 -> DebraStates]
      /\ q[1] = InitialDebraState
    BY <1>1, <1>2, <1>3, GoapAssumptions DEF DebraActions
<1>7. [acts |-> p, sts |-> q] \in Plans(InitialDebraState, "init")
    <2> HIDE DEF p, q
    <2>. QED
        BY <1>1, <1>4, <1>5, <1>6, PlanWitness, Zenon
<1>. QED
    BY <1>7

-----------------------------------------------------------------------------
(* Lemmas on execute.                                                      *)

(* No execute un-indexes the arms.                                         *)
LEMMA ExecuteKeepsIndexed ==
    ASSUME NEW a \in DebraActions, NEW s \in DebraStates, NEW m \in BOOLEAN,
           s.arms_are_indexed
    PROVE  Execute(a, s, m).state.arms_are_indexed
BY DEF Execute, DebraActions, DebraStates, IndexArmsExecute, RetractArmsExecute,
       CollectCylinderExecute, DepositCylinderExecute

(* With the arms out only the arm actions run: they leave the arms        *)
(* indexed and do not score.                                              *)
LEMMA ArmActionEffects ==
    ASSUME NEW a \in DebraActions, NEW s \in DebraStates, CanRun(a, s), s.arms_are_deployed
    PROVE  /\ PlanEffects(a, s).arms_are_indexed
           /\ PlanEffects(a, s).score = s.score
<1>1. a \in {"index_arms", "retract_arms"}
    BY DEF CanRun, CollectCylinderCanRun, DepositCylinderCanRun, DebraActions
<1>2. CASE a = "index_arms"
    BY <1>2 DEF PlanEffects, IndexArmsPlanEffects, DebraStates
<1>3. CASE a = "retract_arms"
    BY <1>3 DEF PlanEffects, RetractArmsPlanEffects, CanRun, RetractArmsCanRun, DebraStates
<1>. QED
    BY <1>1, <1>2, <1>3

-----------------------------------------------------------------------------
(* IdleInv is inductive when max_path_len >= 5.                            *)

LEMMA IdleInvInit == Init => IdleInv
<1> SUFFICES ASSUME Init PROVE IdleInv
    OBVIOUS
<1>1. PlanInv
    BY PlanInvInit
<1>. QED
    BY <1>1 DEF Init, IdleInv, NeverIdle

LEMMA IdleInvStep ==
    ASSUME MaxPathLen >= 5
    PROVE  IdleInv /\ [Next]_vars => IdleInv'
<1> SUFFICES ASSUME IdleInv, [Next]_vars PROVE IdleInv'
    OBVIOUS
<1>0. /\ PlanInv /\ PlanInv'
      /\ st \in DebraStates /\ spc \in PcValues
    BY PlanInvStep DEF IdleInv, PlanInv, StrategyTypeOK
<1>1. CASE SelectColor \/ AutopositionInit
    <2>1. /\ spc \in {"color", "autopos_init"} /\ spc' \in {"autopos_init", "init_plan"}
          /\ st' = st
        BY <1>1 DEF SelectColor, AutopositionInit
    <2>. QED
        BY <1>0, <2>1 DEF IdleInv, NeverIdle
<1>2. CASE GameWaitElapsed
    BY <1>2 DEF GameWaitElapsed, IdleInv, NeverIdle
<1>3. CASE InitPlan
    <2>1. spc = "init_plan" /\ st = InitialDebraState /\ st' = st
        BY <1>3 DEF InitPlan, IdleInv
    <2>2. Plans(st, "init") # {}
        BY <2>1, InitPlanExists
    <2>3. PICK pl \in Plans(st, "init") : path' = pl.acts /\ sts' = pl.sts /\ spc' = "init_exec"
        BY <1>3, <2>2 DEF InitPlan
    <2>4. InitGoalReached(sts'[Len(path') + 1])
        BY <1>0, <2>3, PlanFacts DEF GoalReached, Goals
    <2>5. st'.score = 0
        BY <2>1 DEF InitialDebraState
    <2>. QED
        BY <1>0, <2>3, <2>4, <2>5 DEF IdleInv, NeverIdle
<1>4. CASE InitExec
    <2>1. /\ idx \in 1..Len(path) /\ st = sts[idx]
          /\ CanRun(path[idx], sts[idx])
          /\ sts[idx + 1] = PlanEffects(path[idx], sts[idx])
          /\ ~InitGoalReached(sts[idx])
          /\ path[idx] \in DebraActions
        BY <1>0, <1>4 DEF InitExec, PlanInv, StrategyTypeOK
    <2>2. st.arms_are_deployed /\ st.score = 0 /\ InitGoalReached(sts[Len(path) + 1])
        BY <1>4, <2>1 DEF InitExec, IdleInv, InitGoalReached
    <2>3. PICK m \in Outcomes(path[idx]) : st' = Execute(path[idx], st, m).state
        BY <1>4 DEF InitExec
    <2>4. m = TRUE /\ Execute(path[idx], st, m).ok
        BY <1>0, <2>1, <2>2, DeployedActions
    <2>5. st' = sts[idx + 1]
        BY <1>0, <2>1, <2>3, <2>4, ExecuteAsPlanned
    <2>6. st'.arms_are_indexed /\ st'.score = 0
        BY <1>0, <2>1, <2>2, <2>5, ArmActionEffects
    <2>7. /\ UNCHANGED <<path, sts>>
          /\ IF idx < Len(path) THEN spc' = "init_exec" ELSE spc' = "autopos_robot" /\ idx = Len(path)
        BY <1>4, <2>1 DEF InitExec
    <2>. QED
        BY <1>0, <2>2, <2>5, <2>6, <2>7 DEF IdleInv, NeverIdle
<1>5. CASE AutopositionRobot \/ PositionRobot
    <2>1. /\ spc \in {"autopos_robot", "position"} /\ spc' \in {"position", "starter"}
          /\ st' = st
        BY <1>5 DEF AutopositionRobot, PositionRobot, GotoAvoidRetry
    <2>. QED
        BY <1>0, <2>1 DEF IdleInv, NeverIdle
<1>6. CASE Starter
    <2>1. spc = "starter" /\ spc' = "plan" /\ st' = st
        BY <1>6 DEF Starter
    <2>2. ~GameGoalReached(st)
        BY <2>1 DEF IdleInv, GameGoalReached
    <2>. QED
        BY <1>0, <2>1, <2>2 DEF IdleInv, NeverIdle
<1>7. CASE GamePlan
    <2>1. spc = "plan" /\ spc' = "exec" /\ st' = st
        BY <1>7 DEF GamePlan
    <2>. QED
        BY <1>0, <2>1 DEF IdleInv, NeverIdle
<1>8. CASE GameNoPlan
    <2>1. spc = "plan" /\ Plans(st, "game") = {}
        BY <1>8 DEF GameNoPlan
    <2>2. st.arms_are_indexed /\ ~GameGoalReached(st)
        BY <2>1 DEF IdleInv
    <2>. QED
        BY <1>0, <2>1, <2>2, GamePlanExists
<1>9. CASE GameExec
    <2>1. /\ idx \in 1..Len(path) /\ path[idx] \in DebraActions
          /\ st.arms_are_indexed /\ spc = "exec"
        BY <1>0, <1>9 DEF GameExec, PlanInv, StrategyTypeOK, IdleInv
    <2>2. PICK m \in Outcomes(path[idx]) :
              /\ st' = Execute(path[idx], st, m).state
              /\ IF ~Execute(path[idx], st, m).ok THEN spc' = "plan"
                 ELSE spc' \in {"exec", "done"}
        BY <1>9 DEF GameExec
    <2>3. m \in BOOLEAN
        BY DEF Outcomes, GotoAvoidOutcomes
    <2>4. st'.arms_are_indexed
        BY <1>0, <2>1, <2>2, <2>3, ExecuteKeepsIndexed
    <2>5. ~Execute(path[idx], st, m).ok => st'.arms_are_deployed
        <3> SUFFICES ASSUME ~Execute(path[idx], st, m).ok PROVE st'.arms_are_deployed
            OBVIOUS
        <3>1. st' = [st EXCEPT !.arms_are_deployed = TRUE]
            BY <1>0, <2>1, <2>2, <2>3, ExecuteFails
        <3>. QED
            BY <1>0, <3>1 DEF DebraStates
    <2>. QED
        BY <1>0, <2>2, <2>4, <2>5 DEF IdleInv, NeverIdle, GameGoalReached
<1>10. CASE TimerExpire
    <2>1. spc \in {"plan", "exec", "wait"} /\ UNCHANGED <<spc, st, path, sts>>
        BY <1>10 DEF TimerExpire
    <2>. QED
        BY <1>0, <2>1 DEF IdleInv, NeverIdle
<1>11. CASE Finished \/ UNCHANGED vars
    <2>1. UNCHANGED vars
        BY <1>11 DEF Finished
    <2>. QED
        BY <1>0, <2>1 DEF vars, IdleInv, NeverIdle
<1>. QED
    BY <1>1, <1>2, <1>3, <1>4, <1>5, <1>6, <1>7, <1>8, <1>9, <1>10, <1>11
    DEF Next, StrategyStep

(* IdleInv holds in every reachable state when max_path_len >= 5: the     *)
(* initial plan ends with the arms indexed and in, nothing ever un-indexes *)
(* them, and the game loop replans only short of GameGoal.                 *)
THEOREM IdleInvariant ==
    ASSUME MaxPathLen >= 5
    PROVE  Spec => []IdleInv
<1>1. IdleInv /\ [Next]_vars => IdleInv'
    BY IdleInvStep
<1>. QED
    BY <1>1, IdleInvInit, PTL DEF Spec

(* NeverIdle: with max_path_len >= 5 (the code has 10, line 446) the game *)
(* loop never takes the "No valid plan found" branch (lines 509-511): the *)
(* planner always finds a plan from the state a failed collection or      *)
(* deposit leaves, for every counter width and number of failed moves.   *)
THEOREM PlannerNeverIdle ==
    ASSUME MaxPathLen >= 5
    PROVE  Spec => []NeverIdle
<1>1. IdleInv => NeverIdle
    BY DEF IdleInv
<1>. QED
    BY <1>1, IdleInvariant, PTL
=============================================================================
