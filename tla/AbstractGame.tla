---------------------------- MODULE AbstractGame ----------------------------
(***************************************************************************)
(* What the Debra strategy promises, without plans, moves or timers: the  *)
(* world (DebraState) changes only by running an action whose can_run     *)
(* holds, which either has its planned effect or fails with the arm left  *)
(* deployed; the game starts once and is won only by an action that       *)
(* reaches GameGoal.                                                      *)
(***************************************************************************)
EXTENDS DebraGoap

VARIABLES
    phase,    \* "setup", "playing" or "won"
    world     \* the robot's DebraState

absVars == <<phase, world>>

(* A failed move leaves the arm deployed and changes nothing else.        *)
Failed(s) == [s EXCEPT !.arms_are_deployed = TRUE]

AbsInit ==
    /\ phase = "setup"
    /\ world = InitialDebraState

(* An action runs; if it reaches the game goal while playing, the game   *)
(* may end with it.                                                       *)
Apply(a) ==
    /\ phase \in {"setup", "playing"}
    /\ CanRun(a, world)
    /\ world' \in {PlanEffects(a, world), Failed(world)}
    /\ phase' \in {phase} \cup (IF phase = "playing" /\ GameGoalReached(world')
                                THEN {"won"} ELSE {})

Start ==
    /\ phase = "setup" /\ phase' = "playing"
    /\ UNCHANGED world

AbsNext == Start \/ \E a \in DebraActions : Apply(a)

AbsSpec == AbsInit /\ [][AbsNext]_absVars
=============================================================================
