------------------------------- MODULE Sandoi -------------------------------
(***************************************************************************)
(* The game of the non-DEBRA build, strategy_sandoi_play_game             *)
(* (strategy.cpp 516-549): after colour selection and positioning, each   *)
(* pull of the starter plays a round (go to the lunar module, push it,    *)
(* come home), both moves by strategy_goto_avoid_retry with -1 retries.   *)
(* As in Strategy, at most MaxFailures moves fail until the trajectory    *)
(* manager's game timer runs out; then every TRAJ_FLAGS_ALL move ends     *)
(* with TRAJ_END_TIMER and fails (lines 154-157).  This game never resets *)
(* the timer.                                                             *)
(***************************************************************************)
EXTENDS Naturals

CONSTANTS
    MaxFailures,  \* how many moves the opponent and obstacles make fail
    MaxRounds     \* how many times the starter is pulled again

ASSUME SandoiAssumptions == MaxFailures \in Nat /\ MaxRounds \in Nat

VARIABLES
    spc,           \* where strategy_sandoi_play_game is
    rounds,        \* rounds started after the first
    failures,      \* moves that failed so far (environment)
    timerExpired   \* the game timer has run out

vars == <<spc, rounds, failures, timerExpired>>

Init ==
    /\ spc = "color" /\ rounds = 0 /\ failures = 0 /\ timerExpired = FALSE

(* Lines 91-161: what strategy_goto_avoid can return.                    *)
GotoAvoidOutcomes ==
    IF timerExpired THEN {FALSE}
    ELSE IF failures < MaxFailures THEN BOOLEAN ELSE {TRUE}

(* Mutant of RetryForever: the loop test of line 169 inverted.          *)
RetryForeverInverted(after) ==
    \E moved \in GotoAvoidOutcomes :
        /\ failures' = IF moved \/ timerExpired THEN failures ELSE failures + 1
        /\ spc' = IF moved THEN spc ELSE after

(* Lines 164-181 with num_retries = -1: one try; the loop leaves only on *)
(* success, the counter test of line 176 never holds.                     *)
RetryForever(after) ==
    \E moved \in GotoAvoidOutcomes :
        /\ failures' = IF moved \/ timerExpired THEN failures ELSE failures + 1
        /\ spc' = IF moved THEN after ELSE spc

(* Lines 518-519: wait_for_color_selection.                               *)
SelectColor ==
    /\ spc = "color" /\ spc' = "autopos"
    /\ UNCHANGED <<rounds, failures, timerExpired>>

(* Lines 522-525: wait_for_autoposition_signal, strategy_auto_position.   *)
Autoposition ==
    /\ spc = "autopos" /\ spc' = "starter"
    /\ UNCHANGED <<rounds, failures, timerExpired>>

(* Lines 528-529: wait_for_starter; the game timer is not reset.          *)
Starter ==
    /\ spc = "starter" /\ spc' = "lunar"
    /\ UNCHANGED <<rounds, failures, timerExpired>>

(* Line 533: go to the lunar module, retried without limit.               *)
GotoLunar ==
    /\ spc = "lunar"
    /\ RetryForever("push")
    /\ UNCHANGED <<rounds, timerExpired>>

(* Lines 535-539: push the module forward and back.                       *)
PushLunar ==
    /\ spc = "push" /\ spc' = "home"
    /\ UNCHANGED <<rounds, failures, timerExpired>>

(* Line 542: go back home, retried without limit.                         *)
GotoHome ==
    /\ spc = "home"
    /\ RetryForever("ended")
    /\ UNCHANGED <<rounds, timerExpired>>

(* Lines 544-547: "Insert coin to play more": the next pull of the        *)
(* starter starts another round.                                          *)
NextRound ==
    /\ spc = "ended" /\ rounds < MaxRounds
    /\ spc' = "lunar" /\ rounds' = rounds + 1
    /\ UNCHANGED <<failures, timerExpired>>

(* The game timer runs out once the game started.                         *)
TimerExpire ==
    /\ spc \in {"lunar", "push", "home", "ended"} /\ ~timerExpired
    /\ timerExpired' = TRUE
    /\ UNCHANGED <<spc, rounds, failures>>

Next ==
    \/ SelectColor \/ Autoposition \/ Starter
    \/ GotoLunar \/ PushLunar \/ GotoHome \/ NextRound \/ TimerExpire

Spec == Init /\ [][Next]_vars

(* The strategy thread moves the robot whenever it can; the buttons and   *)
(* the starter are pulled by people, and nothing is assumed of them.      *)
FairSpec == Spec /\ WF_vars(GotoLunar \/ PushLunar \/ GotoHome)

-----------------------------------------------------------------------------
(* A round the starter began comes home before the game timer runs out,   *)
(* or the timer runs out: the retry loops of lines 533 and 542 end when   *)
(* the environment stops making moves fail.                               *)
RoundEndsOrTimer == (spc = "lunar") ~> (spc = "ended" \/ timerExpired)

=============================================================================
