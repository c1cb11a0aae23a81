--------------------------- MODULE StrategyProofs ---------------------------
(***************************************************************************)
(* Proofs about the Debra strategy model, for every path bound, counter    *)
(* width and number of failed moves that StrategyAssumptions allows.      *)
(***************************************************************************)
EXTENDS Strategy, SequenceTheorems, TLAPS

USE GoapAssumptions, StrategyAssumptions

-----------------------------------------------------------------------------
(* Lemmas on the GOAP actions.                                             *)

(* unsigned arithmetic stays in range.                                     *)
LEMMA UnsignedAddType ==
    ASSUME NEW x \in 0..UnsignedMod - 1, NEW d \in Nat
    PROVE  UnsignedAdd(x, d) \in 0..UnsignedMod - 1
BY StrategyAssumptions DEF UnsignedAdd

(* A failed execute only leaves the arm deployed (lines 313 and 386).    *)
LEMMA ExecuteFails ==
    ASSUME NEW a \in DebraActions, NEW s \in DebraStates, NEW m \in BOOLEAN,
           ~Execute(a, s, m).ok
    PROVE  Execute(a, s, m).state = [s EXCEPT !.arms_are_deployed = TRUE]
BY DEF Execute, DebraActions, IndexArmsExecute, RetractArmsExecute,
       CollectCylinderExecute, DepositCylinderExecute

(* execute leaves a DebraState and returns a Boolean.                      *)
LEMMA ExecuteType ==
    ASSUME NEW a \in DebraActions, NEW s \in DebraStates, NEW m \in BOOLEAN
    PROVE  /\ Execute(a, s, m).state \in DebraStates
           /\ Execute(a, s, m).ok \in BOOLEAN
<1>1. /\ UnsignedAdd(s.score, 10) \in 0..UnsignedMod - 1
      /\ UnsignedAdd(s.cylinder_count, 1) \in 0..UnsignedMod - 1
      /\ UnsignedAdd(s.cylinder_count, UnsignedMod - 1) \in 0..UnsignedMod - 1
    BY UnsignedAddType, StrategyAssumptions DEF DebraStates
<1>. QED
    BY <1>1 DEF Execute, DebraActions, DebraStates, IndexArmsExecute, RetractArmsExecute,
                CollectCylinderExecute, DepositCylinderExecute

(* An execute that succeeds does what plan_effects predicted.             *)
LEMMA ExecuteAsPlanned ==
    ASSUME NEW a \in DebraActions, NEW s \in DebraStates, NEW m \in BOOLEAN,
           Execute(a, s, m).ok
    PROVE  Execute(a, s, m).state = PlanEffects(a, s)
BY DEF Execute, PlanEffects, DebraActions, IndexArmsExecute, RetractArmsExecute,
       CollectCylinderExecute, DepositCylinderExecute, IndexArmsPlanEffects,
       RetractArmsPlanEffects, CollectCylinderPlanEffects, DepositCylinderPlanEffects

(* With the arms deployed only the two arm actions can run; they do not   *)
(* move the base and cannot fail.                                         *)
LEMMA DeployedActions ==
    ASSUME NEW a \in DebraActions, NEW s \in DebraStates, NEW m \in Outcomes(a),
           CanRun(a, s), s.arms_are_deployed
    PROVE  /\ m = TRUE
           /\ Execute(a, s, m).ok
<1>1. a \in {"index_arms", "retract_arms"}
    BY DEF CanRun, CollectCylinderCanRun, DepositCylinderCanRun, DebraActions
<1>2. m = TRUE
    BY <1>1 DEF Outcomes, MovingActions
<1>. QED
    BY <1>1, <1>2 DEF Execute, IndexArmsExecute, RetractArmsExecute

(* A move outcome counts a failure only while the timer runs, and only    *)
(* below MaxFailures.                                                     *)
LEMMA MovedBound ==
    ASSUME NEW a, failures \in 0..MaxFailures, NEW m \in Outcomes(a), Moved(m)
    PROVE  /\ failures' \in 0..MaxFailures
           /\ failures' >= failures
           /\ m \in BOOLEAN
           /\ (~m /\ ~timerExpired) => failures' = failures + 1
<1>1. m \in BOOLEAN
    BY DEF Outcomes, GotoAvoidOutcomes
<1>2. (~m /\ ~timerExpired) => failures < MaxFailures
    BY DEF Outcomes, GotoAvoidOutcomes
<1>. QED
    BY <1>1, <1>2, StrategyAssumptions DEF Moved

(* What the planner's contract says of a plan it returns.                 *)
LEMMA PlanFacts ==
    ASSUME NEW s \in DebraStates, NEW g \in Goals, NEW pl \in Plans(s, g)
    PROVE  /\ pl.acts \in Seq(DebraActions)
           /\ Len(pl.acts) \in 1..MaxPathLen
           /\ pl.sts \in Seq(DebraStates)
           /\ DOMAIN pl.sts = 1..Len(pl.acts) + 1
           /\ pl.sts[1] = s
           /\ \A j \in 1..Len(pl.acts) :
                 /\ CanRun(pl.acts[j], pl.sts[j])
                 /\ pl.sts[j + 1] = PlanEffects(pl.acts[j], pl.sts[j])
                 /\ ~GoalReached(g, pl.sts[j])
           /\ GoalReached(g, pl.sts[Len(pl.acts) + 1])
<1>1. PICK p \in Candidates : pl = [acts |-> p, sts |-> Chain(s, p)] /\ ValidPlan(s, g, pl)
    BY Zenon DEF Plans
<1>2. PICK n \in 1..MaxPathLen : p \in [1..n -> DebraActions]
    BY <1>1 DEF Candidates
<1>3. pl.acts = p
    BY <1>1
<1>4. p \in Seq(DebraActions) /\ Len(p) = n
    BY <1>2, StrategyAssumptions
<1>5. pl.sts \in [1..n + 1 -> DebraStates]
    BY <1>1, <1>3, <1>4 DEF ValidPlan
<1>6. pl.sts \in Seq(DebraStates)
    BY <1>5, StrategyAssumptions
<1>. QED
    BY <1>1, <1>2, <1>3, <1>4, <1>5, <1>6 DEF ValidPlan

-----------------------------------------------------------------------------
(* PlanInv is inductive.                                                   *)

LEMMA PlanInvInit == Init => PlanInv
<1> SUFFICES ASSUME Init PROVE PlanInv
    OBVIOUS
<1>1. InitialDebraState \in DebraStates
    BY StrategyAssumptions DEF InitialDebraState, DebraStates
<1>2. <<>> \in Seq(DebraActions) /\ <<>> \in Seq(DebraStates) /\ Len(<<>>) = 0
    OBVIOUS
<1>3. timerExpired \in BOOLEAN
    BY Zenon DEF Init
<1>4. /\ spc \in PcValues /\ st \in DebraStates
      /\ path \in Seq(DebraActions) /\ Len(path) <= MaxPathLen
      /\ sts \in Seq(DebraStates) /\ idx \in 1..MaxPathLen
      /\ retries \in 0..MaxFailures /\ failures \in 0..MaxFailures
    BY <1>1, <1>2 DEF Init, PcValues
<1>5. StrategyTypeOK
    BY <1>3, <1>4 DEF StrategyTypeOK
<1>. QED
    BY <1>5 DEF Init, PlanInv

(* A newly chosen plan satisfies the path part of PlanInv from idx = 1.   *)
LEMMA PlanChosen ==
    ASSUME NEW s \in DebraStates, NEW g \in Goals, NEW pl \in Plans(s, g)
    PROVE  /\ pl.acts \in Seq(DebraActions) /\ Len(pl.acts) <= MaxPathLen
           /\ pl.sts \in Seq(DebraStates)
           /\ 1 \in 1..Len(pl.acts)
           /\ DOMAIN pl.sts = 1..Len(pl.acts) + 1
           /\ s = pl.sts[1]
           /\ \A j \in 1..Len(pl.acts) :
                 /\ CanRun(pl.acts[j], pl.sts[j])
                 /\ pl.sts[j + 1] = PlanEffects(pl.acts[j], pl.sts[j])
           /\ g = "init" => \A j \in 1..Len(pl.acts) : ~InitGoalReached(pl.sts[j])
           /\ g = "game" => GameGoalReached(pl.sts[Len(pl.acts) + 1])
BY PlanFacts DEF GoalReached

(* A step that changes neither the real state nor the path, enters no     *)
(* execution phase, and may only reset the retry counter or clear path.   *)
LEMMA QuietStep ==
    ASSUME PlanInv,
           spc' \in PcValues \ {"init_exec", "exec", "done"},
           st' = st, sts' = sts, idx' \in 1..MaxPathLen, failures' = failures,
           retries' \in 0..retries,
           path' \in Seq(DebraActions), Len(path') <= MaxPathLen,
           timerExpired' \in BOOLEAN,
           spc' \notin {"plan", "exec", "wait", "done"} => ~timerExpired'
    PROVE  PlanInv'
<1>1. StrategyTypeOK'
    BY DEF PlanInv, StrategyTypeOK
<1>2. retries' <= failures'
    BY DEF PlanInv, StrategyTypeOK
<1>. QED
    BY <1>1, <1>2 DEF PlanInv

(* Starting a plan the planner returned.                                  *)
LEMMA PlanStarted ==
    ASSUME PlanInv, NEW g \in Goals, NEW pl \in Plans(st, g),
           path' = pl.acts, sts' = pl.sts, idx' = 1,
           st' = st, failures' = failures, retries' = retries,
           timerExpired' = timerExpired,
           spc' = IF g = "init" THEN "init_exec" ELSE "exec",
           g = "init" => ~timerExpired
    PROVE  PlanInv'
<1>1. st \in DebraStates
    BY DEF PlanInv, StrategyTypeOK
<1>2. /\ pl.acts \in Seq(DebraActions) /\ Len(pl.acts) <= MaxPathLen
      /\ pl.sts \in Seq(DebraStates)
      /\ 1 \in 1..Len(pl.acts)
      /\ DOMAIN pl.sts = 1..Len(pl.acts) + 1
      /\ st = pl.sts[1]
      /\ \A j \in 1..Len(pl.acts) :
            /\ CanRun(pl.acts[j], pl.sts[j])
            /\ pl.sts[j + 1] = PlanEffects(pl.acts[j], pl.sts[j])
      /\ g = "init" => \A j \in 1..Len(pl.acts) : ~InitGoalReached(pl.sts[j])
      /\ g = "game" => GameGoalReached(pl.sts[Len(pl.acts) + 1])
    BY <1>1, PlanChosen
<1>3. StrategyTypeOK'
    BY <1>2, StrategyAssumptions DEF PlanInv, StrategyTypeOK, PcValues, Goals
<1>4. retries' <= failures'
    BY DEF PlanInv
<1>. QED
    BY <1>2, <1>3, <1>4, StrategyAssumptions DEF PlanInv, Goals

LEMMA PlanInvStep == PlanInv /\ [Next]_vars => PlanInv'
<1> SUFFICES ASSUME PlanInv, [Next]_vars PROVE PlanInv'
    OBVIOUS
<1>0. /\ StrategyTypeOK
      /\ retries <= failures
      /\ spc \notin {"plan", "exec", "wait", "done"} => ~timerExpired
    BY DEF PlanInv
<1>1. CASE SelectColor \/ AutopositionInit \/ GameWaitElapsed
    <2>1. /\ spc' \in {"autopos_init", "init_plan", "plan"}
          /\ spc' # "plan" => spc \in {"color", "autopos_init"}
          /\ UNCHANGED <<st, path, sts, idx, retries, failures, timerExpired>>
        BY <1>1 DEF SelectColor, AutopositionInit, GameWaitElapsed
    <2>. QED
        BY <1>0, <2>1, QuietStep DEF StrategyTypeOK, PcValues
<1>2. CASE Starter
    <2>1. spc = "starter" /\ spc' = "plan" /\ UNCHANGED <<st, path, sts, idx, retries, failures>>
        BY <1>2 DEF Starter
    <2>2. timerExpired' \in BOOLEAN
        BY <1>2, Zenon DEF Starter
    <2>. QED
        BY <1>0, <2>1, <2>2, QuietStep DEF StrategyTypeOK, PcValues
<1>9. CASE TimerExpire
    <2>1. spc \in {"plan", "exec", "wait"} /\ UNCHANGED <<spc, st, path, sts, idx, retries, failures>>
        BY <1>9 DEF TimerExpire
    <2>2. timerExpired' \in BOOLEAN
        BY <1>9, Zenon DEF TimerExpire
    <2>3. CASE spc = "exec"
        BY <2>1, <2>2, <2>3 DEF PlanInv, StrategyTypeOK
    <2>4. CASE spc # "exec"
        BY <1>0, <2>1, <2>2, <2>4, QuietStep DEF StrategyTypeOK, PcValues
    <2>. QED
        BY <2>3, <2>4
<1>10. CASE AutopositionRobot
    <2>1. spc = "autopos_robot" /\ spc' = "position" /\ retries' = 0
          /\ UNCHANGED <<st, path, sts, idx, failures, timerExpired>>
        BY <1>10 DEF AutopositionRobot
    <2>. QED
        BY <1>0, <2>1, QuietStep DEF StrategyTypeOK, PcValues
<1>11. CASE GameNoPlan
    <2>1. spc = "plan" /\ spc' = "wait" /\ path' = <<>>
          /\ UNCHANGED <<st, sts, idx, retries, failures, timerExpired>>
        BY <1>11 DEF GameNoPlan
    <2>2. path' \in Seq(DebraActions) /\ Len(path') <= MaxPathLen
        BY <2>1
    <2>3. /\ spc' \in PcValues \ {"init_exec", "exec", "done"}
          /\ idx' \in 1..MaxPathLen /\ retries' \in 0..retries
          /\ timerExpired' \in BOOLEAN
        BY <1>0, <2>1 DEF StrategyTypeOK, PcValues
    <2>. QED
        BY <2>1, <2>2, <2>3, QuietStep, Zenon DEF StrategyTypeOK, PcValues
<1>3. CASE Finished \/ UNCHANGED vars
    <2>1. UNCHANGED vars
        BY <1>3 DEF Finished
    <2>. QED
        BY <2>1, Zenon DEF vars, PlanInv, StrategyTypeOK
<1>4. CASE InitPlan
    <2>1. CASE Plans(st, "init") = {}
        <3>1. spc = "init_plan" /\ spc' = "autopos_robot" /\ path' = <<>> /\ idx' = 1
              /\ UNCHANGED <<st, sts, retries, failures, timerExpired>>
            BY <1>4, <2>1 DEF InitPlan
        <3>2. idx' \in 1..MaxPathLen
            BY <3>1
        <3>. QED
            BY <1>0, <3>1, <3>2, QuietStep DEF StrategyTypeOK, PcValues
    <2>2. CASE Plans(st, "init") # {}
        BY <1>0, <1>4, <2>2, PlanStarted DEF InitPlan, Goals
    <2>. QED
        BY <2>1, <2>2
<1>5. CASE GamePlan
    BY <1>5, PlanStarted DEF GamePlan, Goals
<1>6. CASE PositionRobot
    <2>a. PICK m \in GotoAvoidOutcomes :
              /\ Moved(m)
              /\ IF m \/ (-1 >= 0 /\ retries + 1 > -1)
                 THEN spc' = "starter" /\ retries' = 0
                 ELSE spc' = spc /\ retries' = retries + 1
        BY <1>6 DEF PositionRobot, GotoAvoidRetry
    <2>b. m \in Outcomes("collect_cylinder")
        BY <2>a DEF Outcomes, MovingActions
    <2>c. ~timerExpired /\ spc = "position"
        BY <1>0, <1>6 DEF PositionRobot
    <2>d. /\ failures' \in 0..MaxFailures /\ failures' >= failures /\ m \in BOOLEAN
          /\ ~m => failures' = failures + 1
        BY <1>0, <2>a, <2>b, <2>c, MovedBound DEF StrategyTypeOK
    <2>. QED
        BY <1>0, <1>6, <2>a, <2>c, <2>d
        DEF PositionRobot, PlanInv, StrategyTypeOK, PcValues
<1>7. CASE InitExec
    <2>1. /\ idx \in 1..Len(path) /\ DOMAIN sts = 1..Len(path) + 1 /\ st = sts[idx]
          /\ \A j \in idx..Len(path) :
                /\ CanRun(path[j], sts[j])
                /\ sts[j + 1] = PlanEffects(path[j], sts[j])
          /\ \A j \in idx..Len(path) : ~InitGoalReached(sts[j])
        BY <1>7 DEF InitExec, PlanInv
    <2>2. path[idx] \in DebraActions /\ st \in DebraStates
        BY <1>0, <2>1 DEF StrategyTypeOK
    <2>3. /\ CanRun(path[idx], st) /\ st.arms_are_deployed
          /\ sts[idx + 1] = PlanEffects(path[idx], st)
        BY <2>1 DEF InitGoalReached
    <2>4. PICK m \in Outcomes(path[idx]) :
              /\ st' = Execute(path[idx], st, m).state
              /\ Moved(m)
        BY <1>7 DEF InitExec
    <2>5. m = TRUE /\ Execute(path[idx], st, m).ok
        BY <2>2, <2>3, DeployedActions
    <2>6. st' = sts[idx + 1]
        BY <2>2, <2>4, <2>5, <2>3, ExecuteAsPlanned
    <2>7. failures' = failures
        BY <2>4, <2>5 DEF Moved
    <2>8. st' \in DebraStates
        BY <2>2, <2>4, <2>5, ExecuteType
    <2>9. /\ UNCHANGED <<path, sts, retries, timerExpired>>
          /\ IF idx < Len(path) THEN idx' = idx + 1 /\ spc' = spc
                                ELSE idx' = idx /\ spc' = "autopos_robot"
          /\ spc = "init_exec"
        BY <1>7 DEF InitExec
    <2>10. StrategyTypeOK'
        BY <1>0, <2>1, <2>7, <2>8, <2>9 DEF StrategyTypeOK, PcValues
    <2>. QED
        BY <1>0, <2>1, <2>6, <2>7, <2>9, <2>10 DEF PlanInv
<1>8. CASE GameExec
    <2>1. /\ idx \in 1..Len(path) /\ DOMAIN sts = 1..Len(path) + 1 /\ st = sts[idx]
          /\ \A j \in idx..Len(path) :
                /\ CanRun(path[j], sts[j])
                /\ sts[j + 1] = PlanEffects(path[j], sts[j])
          /\ GameGoalReached(sts[Len(path) + 1])
        BY <1>8 DEF GameExec, PlanInv
    <2>2. path[idx] \in DebraActions /\ st \in DebraStates
        BY <1>0, <2>1 DEF StrategyTypeOK
    <2>3. sts[idx + 1] = PlanEffects(path[idx], st)
        BY <2>1
    <2>4. PICK m \in Outcomes(path[idx]) :
              /\ st' = Execute(path[idx], st, m).state
              /\ Moved(m)
              /\ IF ~Execute(path[idx], st, m).ok THEN spc' = "plan" /\ idx' = idx
                 ELSE IF idx < Len(path) THEN spc' = spc /\ idx' = idx + 1
                 ELSE spc' = "done" /\ idx' = idx
        BY <1>8 DEF GameExec
    <2>5. failures' \in 0..MaxFailures /\ failures' >= failures /\ m \in BOOLEAN
        BY <1>0, <2>4, MovedBound DEF StrategyTypeOK
    <2>6. st' \in DebraStates
        BY <2>2, <2>4, <2>5, ExecuteType
    <2>7. Execute(path[idx], st, m).ok => st' = sts[idx + 1]
        BY <2>2, <2>3, <2>4, <2>5, ExecuteAsPlanned
    <2>8. UNCHANGED <<path, sts, retries, timerExpired>> /\ spc = "exec"
        BY <1>8 DEF GameExec
    <2>9. StrategyTypeOK'
        BY <1>0, <2>1, <2>4, <2>5, <2>6, <2>8 DEF StrategyTypeOK, PcValues
    <2>10. retries' <= failures'
        BY <1>0, <2>5, <2>8 DEF StrategyTypeOK
    <2>. QED
        BY <2>1, <2>4, <2>7, <2>8, <2>9, <2>10 DEF PlanInv
<1>. QED
    BY <1>1, <1>2, <1>3, <1>4, <1>5, <1>6, <1>7, <1>8, <1>9, <1>10, <1>11
    DEF Next, StrategyStep

(* The plan/execute loops of strategy_debra_play_game keep PlanInv: the   *)
(* action about to run can always run, and the game loop ends only in    *)
(* the game goal, for every max_path_len, counter width and number of    *)
(* failed moves.                                                          *)
THEOREM PlanInvariant == Spec => []PlanInv
BY PlanInvInit, PlanInvStep, PTL DEF Spec

(* DoneMeansGoal: the game loop exits (line 507) only with GameGoal       *)
(* reached in the real DebraState.                                        *)
THEOREM GameLoopSound == Spec => []DoneMeansGoal
<1>1. PlanInv => DoneMeansGoal
    BY DEF PlanInv, DoneMeansGoal
<1>. QED
    BY <1>1, PlanInvariant, PTL

(* NextActionRunnable: the loops of lines 465-467 and 498-504 never run  *)
(* an action whose can_run is false in the real state.                    *)
THEOREM ExecutionRunnable == Spec => []NextActionRunnable
<1>1. PlanInv => NextActionRunnable
    BY DEF PlanInv, NextActionRunnable
<1>. QED
    BY <1>1, PlanInvariant, PTL


(* StrategyTypeOK: the game loops keep the path buffer, the predicted     *)
(* states, the path index and the retry counter within their ranges, so  *)
(* path[idx] (lines 466 and 500) is always an action of the buffer.       *)
THEOREM StrategyWellTyped == Spec => []StrategyTypeOK
<1>1. PlanInv => StrategyTypeOK
    BY DEF PlanInv
<1>. QED
    BY <1>1, PlanInvariant, PTL


-----------------------------------------------------------------------------
(* Refinement of AbstractGame.                                             *)

(* AbstractGame's world is DebraGoap's: the instance's operators are the *)
(* model's.                                                               *)
LEMMA GameOperators ==
    /\ Game!DebraActions = DebraActions
    /\ Game!InitialDebraState = InitialDebraState
    /\ \A a, s : Game!CanRun(a, s) = CanRun(a, s)
    /\ \A a, s : Game!PlanEffects(a, s) = PlanEffects(a, s)
    /\ \A s : Game!GameGoalReached(s) = GameGoalReached(s)
<1>1. Game!DebraActions = DebraActions /\ Game!InitialDebraState = InitialDebraState
    BY DEF Game!DebraActions, DebraActions, Game!InitialDebraState, InitialDebraState
<1>2. \A a, s : Game!CanRun(a, s) = CanRun(a, s)
    BY DEF Game!CanRun, CanRun, Game!IndexArmsCanRun, IndexArmsCanRun, Game!RetractArmsCanRun,
           RetractArmsCanRun, Game!CollectCylinderCanRun, CollectCylinderCanRun,
           Game!DepositCylinderCanRun, DepositCylinderCanRun
<1>3. \A a, s : Game!PlanEffects(a, s) = PlanEffects(a, s)
    BY DEF Game!PlanEffects, PlanEffects, Game!IndexArmsPlanEffects, IndexArmsPlanEffects,
           Game!RetractArmsPlanEffects, RetractArmsPlanEffects, Game!CollectCylinderPlanEffects,
           CollectCylinderPlanEffects, Game!DepositCylinderPlanEffects,
           DepositCylinderPlanEffects, Game!UnsignedAdd, UnsignedAdd
<1>4. \A s : Game!GameGoalReached(s) = GameGoalReached(s)
    BY DEF Game!GameGoalReached, GameGoalReached
<1>. QED
    BY <1>1, <1>2, <1>3, <1>4

(* A step that keeps the real state and stays within one phase is a      *)
(* stutter of AbstractGame.                                               *)
LEMMA AbsStutter ==
    ASSUME st' = st,
           \/ spc \in SetupPcs /\ spc' \in SetupPcs
           \/ spc \in {"plan", "exec", "wait"} /\ spc' \in {"plan", "exec", "wait"}
           \/ spc = "done" /\ spc' = "done"
    PROVE  UNCHANGED Game!absVars
BY DEF Game!absVars, GamePhase, SetupPcs

LEMMA AbsStep == PlanInv /\ [Next]_vars => [Game!AbsNext]_Game!absVars
<1> SUFFICES ASSUME PlanInv, [Next]_vars PROVE [Game!AbsNext]_Game!absVars
    OBVIOUS
<1>0. StrategyTypeOK
    BY DEF PlanInv
<1>1. CASE SelectColor \/ AutopositionInit \/ InitPlan \/ AutopositionRobot \/ PositionRobot
    <2>1. st' = st /\ spc \in SetupPcs /\ spc' \in SetupPcs
        BY <1>1 DEF SelectColor, AutopositionInit, InitPlan, AutopositionRobot, PositionRobot,
                    GotoAvoidRetry, SetupPcs
    <2>. QED
        BY <2>1, AbsStutter
<1>2. CASE GameNoPlan \/ GameWaitElapsed \/ TimerExpire \/ GamePlan
    <2>1. st' = st /\ spc \in {"plan", "exec", "wait"} /\ spc' \in {"plan", "exec", "wait"}
        BY <1>2 DEF GameNoPlan, GameWaitElapsed, TimerExpire, GamePlan
    <2>. QED
        BY <2>1, AbsStutter
<1>3. CASE Finished \/ UNCHANGED vars
    BY <1>3 DEF Finished, vars, Game!absVars, GamePhase
<1>4. CASE Starter
    <2>1. spc = "starter" /\ spc' = "plan" /\ st' = st
        BY <1>4 DEF Starter
    <2>. QED
        BY <2>1 DEF Game!AbsNext, Game!Start, GamePhase, SetupPcs
<1>5. CASE InitExec
    <2>1. /\ idx \in 1..Len(path) /\ st = sts[idx]
          /\ CanRun(path[idx], sts[idx]) /\ sts[idx + 1] = PlanEffects(path[idx], sts[idx])
          /\ ~InitGoalReached(sts[idx])
        BY <1>5 DEF InitExec, PlanInv
    <2>2. path[idx] \in DebraActions /\ st \in DebraStates
        BY <1>0, <2>1 DEF StrategyTypeOK
    <2>3. PICK m \in Outcomes(path[idx]) :
              /\ st' = Execute(path[idx], st, m).state
              /\ spc' \in {"init_exec", "autopos_robot"}
        BY <1>5 DEF InitExec
    <2>4. m = TRUE /\ Execute(path[idx], st, m).ok
        BY <2>1, <2>2, DeployedActions DEF InitGoalReached
    <2>5. st' = PlanEffects(path[idx], st)
        BY <2>2, <2>3, <2>4, ExecuteAsPlanned
    <2>6. GamePhase = "setup" /\ GamePhase' = "setup"
        BY <1>5, <2>3 DEF InitExec, GamePhase, SetupPcs
    <2>7. Game!Apply(path[idx])
        BY <2>1, <2>5, <2>6, GameOperators DEF Game!Apply
    <2>. QED
        BY <2>2, <2>7, GameOperators DEF Game!AbsNext
<1>6. CASE GameExec
    <2>1. /\ idx \in 1..Len(path) /\ st = sts[idx]
          /\ CanRun(path[idx], sts[idx]) /\ sts[idx + 1] = PlanEffects(path[idx], sts[idx])
          /\ GameGoalReached(sts[Len(path) + 1])
        BY <1>6 DEF GameExec, PlanInv
    <2>2. path[idx] \in DebraActions /\ st \in DebraStates
        BY <1>0, <2>1 DEF StrategyTypeOK
    <2>3. PICK m \in Outcomes(path[idx]) :
              /\ st' = Execute(path[idx], st, m).state
              /\ IF ~Execute(path[idx], st, m).ok THEN spc' = "plan" /\ idx' = idx
                 ELSE IF idx < Len(path) THEN spc' = spc /\ idx' = idx + 1
                 ELSE spc' = "done" /\ idx' = idx
        BY <1>6 DEF GameExec
    <2>4. m \in BOOLEAN
        BY DEF Outcomes, GotoAvoidOutcomes
    <2>5. st' \in {PlanEffects(path[idx], st), Game!Failed(st)}
        BY <2>2, <2>3, <2>4, ExecuteAsPlanned, ExecuteFails DEF Game!Failed
    <2>6. GamePhase = "playing"
        BY <1>6 DEF GameExec, GamePhase, SetupPcs
    <2>7. GamePhase' \in {GamePhase} \cup (IF GameGoalReached(st') THEN {"won"} ELSE {})
        <3>1. CASE ~Execute(path[idx], st, m).ok \/ idx < Len(path)
            BY <1>6, <2>3, <3>1 DEF GameExec, GamePhase, SetupPcs
        <3>2. CASE Execute(path[idx], st, m).ok /\ ~(idx < Len(path))
            <4>1. idx = Len(path) /\ spc' = "done"
                BY <2>1, <2>3, <3>2
            <4>2. st' = sts[Len(path) + 1]
                BY <2>1, <2>2, <2>3, <2>4, <3>2, <4>1, ExecuteAsPlanned
            <4>. QED
                BY <2>1, <4>1, <4>2 DEF GamePhase, SetupPcs
        <3>. QED
            BY <3>1, <3>2
    <2>8. Game!Apply(path[idx])
        BY <2>1, <2>5, <2>6, <2>7, GameOperators DEF Game!Apply
    <2>. QED
        BY <2>2, <2>8, GameOperators DEF Game!AbsNext
<1>. QED
    BY <1>1, <1>2, <1>3, <1>4, <1>5, <1>6 DEF Next, StrategyStep

(* ImplementsAbstractGame: strategy_debra_play_game changes DebraState   *)
(* only by runnable actions with their planned or failed effect, and     *)
(* exits only in GameGoal, for every value of the constants.             *)
THEOREM Refinement == Spec => ImplementsAbstractGame
<1>1. Init => Game!AbsInit
    BY GameOperators DEF Init, Game!AbsInit, GamePhase, SetupPcs
<1>. QED
    BY <1>1, PlanInvInit, PlanInvStep, AbsStep, PTL DEF Spec, ImplementsAbstractGame, Game!AbsSpec

=============================================================================
