------------------------------ MODULE Strategy ------------------------------
(***************************************************************************)
(* The game strategy of the Debra robot (strategy.cpp, DEBRA build): the   *)
(* set-up (arm indexing by an initial plan, positioning with               *)
(* strategy_goto_avoid_retry) and the game loop that plans, executes the  *)
(* plan and replans when an action fails, over the GOAP world of          *)
(* DebraGoap.  Moves of the base (strategy_goto_avoid) succeed or fail;   *)
(* the environment makes at most MaxFailures of them fail until the game  *)
(* timer runs out, after which every move fails.                          *)
(***************************************************************************)
EXTENDS DebraGoap

CONSTANT
    MaxFailures     \* how many moves the opponent and obstacles make fail

ASSUME StrategyAssumptions == MaxFailures \in Nat

-----------------------------------------------------------------------------
VARIABLES
    spc,           \* where strategy_debra_play_game is
    st,            \* DebraState state (line 444)
    path,          \* path[] and len returned by the last plan (lines 447, 494)
    sts,           \* the states the planner predicted along path
    idx,           \* i of the loops executing path (lines 465, 498)
    retries,       \* counter of strategy_goto_avoid_retry (line 167)
    failures,      \* moves that failed so far (environment)
    timerExpired   \* the trajectory manager's game timer has run out

vars == <<spc, st, path, sts, idx, retries, failures, timerExpired>>

PcValues ==
    {"color", "autopos_init", "init_plan", "init_exec", "autopos_robot", "position",
     "starter", "plan", "exec", "wait", "done"}

StrategyTypeOK ==
    /\ spc \in PcValues
    /\ st \in DebraStates
    /\ path \in Seq(DebraActions) /\ Len(path) <= MaxPathLen
    /\ sts \in Seq(DebraStates)
    /\ idx \in 1..MaxPathLen
    /\ retries \in 0..MaxFailures
    /\ failures \in 0..MaxFailures
    /\ timerExpired \in BOOLEAN

(* Lines 551-565 and 444: the strategy thread starts the DEBRA game.      *)
Init ==
    /\ spc = "color"
    /\ st = InitialDebraState
    /\ path = <<>> /\ sts = <<>> /\ idx = 1
    /\ retries = 0 /\ failures = 0 /\ timerExpired = FALSE

(* Lines 91-161: what strategy_goto_avoid can return.  Every end reason   *)
(* other than TRAJ_END_GOAL_REACHED, and an empty path, give false.       *)
GotoAvoidOutcomes ==
    IF timerExpired THEN {FALSE}
    ELSE IF failures < MaxFailures THEN BOOLEAN ELSE {TRUE}

(* Only CollectCylinder and DepositCylinder move the base in execute.    *)
MovingActions == {"collect_cylinder", "deposit_cylinder"}

Outcomes(a) == IF a \in MovingActions THEN GotoAvoidOutcomes ELSE {TRUE}

(* A move with outcome moved happened; failures after the timer ran out  *)
(* are not the environment's.                                            *)
Moved(moved) == failures' = IF moved \/ timerExpired THEN failures ELSE failures + 1

(* Lines 35-62, 434: wait_for_color_selection.                            *)
SelectColor ==
    /\ spc = "color" /\ spc' = "autopos_init"
    /\ UNCHANGED <<st, path, sts, idx, retries, failures, timerExpired>>

(* Lines 64-78, 462-463: wait_for_autoposition_signal, then planning.     *)
AutopositionInit ==
    /\ spc = "autopos_init" /\ spc' = "init_plan"
    /\ UNCHANGED <<st, path, sts, idx, retries, failures, timerExpired>>

(* Line 464: plan towards InitGoal; the loop of 465 runs len times.       *)
InitPlan ==
    /\ spc = "init_plan"
    /\ IF Plans(st, "init") = {}
       THEN /\ spc' = "autopos_robot" /\ path' = <<>>
            /\ UNCHANGED sts
       ELSE \E pl \in Plans(st, "init") :
               /\ path' = pl.acts /\ sts' = pl.sts
               /\ spc' = "init_exec"
    /\ idx' = 1
    /\ UNCHANGED <<st, retries, failures, timerExpired>>

(* Lines 465-467: path[i]->execute(state), its result ignored.            *)
InitExec ==
    /\ spc = "init_exec"
    /\ \E moved \in Outcomes(path[idx]) :
          LET r == Execute(path[idx], st, moved)
          IN  /\ st' = r.state
              /\ Moved(moved)
    /\ IF idx < Len(path) THEN idx' = idx + 1 /\ spc' = spc
                          ELSE idx' = idx /\ spc' = "autopos_robot"
    /\ UNCHANGED <<path, sts, retries, timerExpired>>

(* Lines 469-476: signal, then strategy_auto_position against the walls.  *)
AutopositionRobot ==
    /\ spc = "autopos_robot" /\ spc' = "position"
    /\ retries' = 0
    /\ UNCHANGED <<st, path, sts, idx, failures, timerExpired>>

(* Lines 164-181: one try of strategy_goto_avoid_retry(..., num_retries): *)
(* it returns when the move succeeds or, for num_retries >= 0, when the   *)
(* counter passes num_retries.  A negative count retries forever.         *)
GotoAvoidRetry(numRetries, after) ==
    \E moved \in GotoAvoidOutcomes :
        /\ Moved(moved)
        /\ IF moved \/ (numRetries >= 0 /\ retries + 1 > numRetries)
           THEN spc' = after /\ retries' = 0
           ELSE spc' = spc /\ retries' = retries + 1

(* Lines 478-482: the second alignment, retried without limit.            *)
PositionRobot ==
    /\ spc = "position"
    /\ GotoAvoidRetry(-1, "starter")
    /\ UNCHANGED <<st, path, sts, idx, timerExpired>>

(* Lines 487-492: wait_for_starter, then the game timer is reset.         *)
Starter ==
    /\ spc = "starter" /\ spc' = "plan"
    /\ timerExpired' = FALSE
    /\ UNCHANGED <<st, path, sts, idx, retries, failures>>

(* Lines 494-497: a plan towards GameGoal was found.                      *)
GamePlan ==
    /\ spc = "plan"
    /\ \E pl \in Plans(st, "game") :
          /\ path' = pl.acts /\ sts' = pl.sts
    /\ idx' = 1 /\ spc' = "exec"
    /\ UNCHANGED <<st, retries, failures, timerExpired>>

(* Lines 509-510: no plan: wait.                                          *)
GameNoPlan ==
    /\ spc = "plan"
    /\ Plans(st, "game") = {}
    /\ spc' = "wait" /\ path' = <<>>
    /\ UNCHANGED <<st, sts, idx, retries, failures, timerExpired>>

(* Lines 511-512: after strategy_wait_ms(1000), plan again.               *)
GameWaitElapsed ==
    /\ spc = "wait" /\ spc' = "plan"
    /\ UNCHANGED <<st, path, sts, idx, retries, failures, timerExpired>>

(* Mutant of GameExec: the break of line 503 is lost, so the path runs on *)
(* after a failed action.                                                 *)
GameExecNoBreak ==
    /\ spc = "exec"
    /\ \E moved \in Outcomes(path[idx]) :
          LET r == Execute(path[idx], st, moved)
          IN  /\ st' = r.state
              /\ Moved(moved)
              /\ IF idx < Len(path) THEN spc' = spc /\ idx' = idx + 1
                 ELSE IF ~r.ok THEN spc' = "plan" /\ idx' = idx
                 ELSE spc' = "done" /\ idx' = idx
    /\ UNCHANGED <<path, sts, retries, timerExpired>>

(* Lines 498-508: success &= path[i]->execute(state); a failure asks for  *)
(* a new plan, success of the whole path ends the game loop.              *)
GameExec ==
    /\ spc = "exec"
    /\ \E moved \in Outcomes(path[idx]) :
          LET r == Execute(path[idx], st, moved)
          IN  /\ st' = r.state
              /\ Moved(moved)
              /\ IF ~r.ok THEN spc' = "plan" /\ idx' = idx
                 ELSE IF idx < Len(path) THEN spc' = spc /\ idx' = idx + 1
                 ELSE spc' = "done" /\ idx' = idx
    /\ UNCHANGED <<path, sts, retries, timerExpired>>

(* The game timer (trajectory manager) runs out once the game started.    *)
TimerExpire ==
    /\ spc \in {"plan", "exec", "wait"} /\ ~timerExpired
    /\ timerExpired' = TRUE
    /\ UNCHANGED <<spc, st, path, sts, idx, retries, failures>>

(* The strategy thread returned.                                          *)
Finished ==
    /\ spc = "done"
    /\ UNCHANGED vars

StrategyStep ==
    \/ SelectColor \/ AutopositionInit \/ InitPlan \/ InitExec
    \/ AutopositionRobot \/ PositionRobot \/ Starter
    \/ GamePlan \/ GameNoPlan \/ GameWaitElapsed \/ GameExec

Next == StrategyStep \/ TimerExpire \/ Finished

Spec == Init /\ [][Next]_vars

(* The strategy thread runs whenever it can.  Nothing is assumed of the   *)
(* game timer.                                                            *)
FairSpec == Spec /\ WF_vars(StrategyStep)

-----------------------------------------------------------------------------
(***************************************************************************)
(* Properties                                                              *)
(***************************************************************************)

(* Plans are computed on plan_effects, executed on execute: the action    *)
(* the loops of lines 465-467 and 498-504 run next can always run in the  *)
(* real state (so DepositCylinder never decrements a zero cylinder_count, *)
(* line 410), however earlier moves failed and plans were abandoned.      *)
NextActionRunnable ==
    spc \in {"init_exec", "exec"} => CanRun(path[idx], st)

(* The game loop exits (line 507) only when GameGoal holds in the real    *)
(* state, not just in the planner's prediction.                           *)
DoneMeansGoal ==
    spc = "done" => GameGoalReached(st)

(* The "No valid plan found" branch (lines 509-511) is never taken: the   *)
(* path buffer is long enough for every plan that recovers from a failed  *)
(* collection or deposit.                                                 *)
NeverIdle == spc # "wait"

(* With a path buffer one action shorter than the recovery that needs    *)
(* most (retract, collect, retract, deposit, retract), the "No valid plan *)
(* found" wait of lines 509-511 is reached only after a failed collection *)
(* move (line 313) left the arms deployed with nothing held or scored:   *)
(* every other state the game loop replans in has a plan of at most four *)
(* actions.                                                               *)
WaitOnlyAfterFailedCollect ==
    spc = "wait" =>
        st.arms_are_deployed /\ st.cylinder_count = 0 /\ st.score = 0

(* Inductive form of the two safety properties: while a path runs, the    *)
(* real state is the predicted one, the rest of the path is runnable from *)
(* it, and a game path ends in the game goal.  The initial plan holds no  *)
(* moving action (none can run before InitGoal), so ignoring its results *)
(* (line 466) is harmless.  The retry counter never passes the failures. *)
PlanInv ==
    /\ StrategyTypeOK
    /\ retries <= failures
    /\ spc \notin {"plan", "exec", "wait", "done"} => ~timerExpired
    /\ spc = "init_exec" =>
          \A j \in idx..Len(path) : ~InitGoalReached(sts[j])
    /\ spc \in {"init_exec", "exec"} =>
          /\ idx \in 1..Len(path)
          /\ DOMAIN sts = 1..Len(path) + 1
          /\ st = sts[idx]
          /\ \A j \in idx..Len(path) :
                /\ CanRun(path[j], sts[j])
                /\ sts[j + 1] = PlanEffects(path[j], sts[j])
          /\ spc = "exec" => GameGoalReached(sts[Len(path) + 1])
    /\ spc = "done" => GameGoalReached(st)

(* Inductive form of NeverIdle: the initial plan (lines 464-467) starts   *)
(* from the initial DebraState and ends with the arms indexed and in,     *)
(* without scoring; every action keeps the arms indexed; and the game    *)
(* loop asks for a plan (line 494) only when GameGoal does not hold yet.  *)
(* From such a state a plan of at most five actions reaches GameGoal, so *)
(* a buffer of max_path_len >= 5 never leaves the planner empty-handed.  *)
IdleInv ==
    /\ PlanInv
    /\ spc \in {"color", "autopos_init", "init_plan"} => st = InitialDebraState
    /\ spc = "init_exec" => InitGoalReached(sts[Len(path) + 1]) /\ st.score = 0
    /\ spc \in {"autopos_robot", "position", "starter"} =>
          InitGoalReached(st) /\ st.score = 0
    /\ spc \notin {"color", "autopos_init", "init_plan", "init_exec"} =>
          st.arms_are_indexed
    /\ spc = "plan" => ~GameGoalReached(st)
    /\ NeverIdle

(* Once the game started, the strategy reaches its goal or the game timer *)
(* runs out, when the environment makes finitely many moves fail.         *)
GameEnds == (spc = "plan") ~> (spc = "done" \/ timerExpired)

-----------------------------------------------------------------------------
(* Refinement: the strategy implements AbstractGame.  Everything before   *)
(* the starter is the set-up phase; the game is won when the loop exits.  *)
SetupPcs ==
    {"color", "autopos_init", "init_plan", "init_exec", "autopos_robot", "position", "starter"}

GamePhase == IF spc \in SetupPcs THEN "setup" ELSE IF spc = "done" THEN "won" ELSE "playing"

Game == INSTANCE AbstractGame WITH phase <- GamePhase, world <- st

(* Every step of strategy_debra_play_game is a step of AbstractGame or   *)
(* leaves its phase and DebraState alone: the state only changes by a    *)
(* runnable action's execute, which does what plan_effects predicts or   *)
(* fails with the arm deployed (lines 313 and 386), and the loop exits   *)
(* only in the goal.                                                      *)
ImplementsAbstractGame == Game!AbsSpec

=============================================================================
