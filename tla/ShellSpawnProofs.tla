-------------------------- MODULE ShellSpawnProofs --------------------------
(***************************************************************************)
(* Proofs about the shell respawn loops: ShellInv is inductive, so for    *)
(* every set of memory blocks no shelltp dangles, no shell's memory is    *)
(* lost, and no shell is created on a running shell's working area.      *)
(***************************************************************************)
EXTENDS ShellSpawn, TLAPS

USE ShellAssumptions

(* The spawners are two distinct names.                                   *)
LEMMA SpawnersDistinct == "main" # "cmd" /\ "main" \in Spawners /\ "cmd" \in Spawners
BY DEF Spawners

LEMMA ShellInvInit == Init => ShellInv
BY DEF Init, ShellInv, ShellTypeOK, NoDanglingShell, NoLeakedShell, Spawners, HeapSlots

LEMMA ShellInvStep == ShellInv /\ [Next]_vars => ShellInv'
<1> SUFFICES ASSUME ShellInv, [Next]_vars PROVE ShellInv'
    OBVIOUS
<1> USE SpawnersDistinct
<1>1. CASE MainSpawn
    BY <1>1 DEF MainSpawn, HeapFree, ShellInv, ShellTypeOK, NoDanglingShell, NoLeakedShell,
              Spawners, HeapSlots
<1>2. CASE MainReap
    BY <1>2 DEF MainReap, Terminated, ShellInv, ShellTypeOK, NoDanglingShell, NoLeakedShell,
              Spawners, HeapSlots
<1>3. CASE StaticSpawn
    BY <1>3 DEF StaticSpawn, ShellInv, ShellTypeOK, NoDanglingShell, NoLeakedShell,
              Spawners, HeapSlots
<1>4. CASE StaticReap
    BY <1>4 DEF StaticReap, Terminated, ShellInv, ShellTypeOK, NoDanglingShell, NoLeakedShell,
              Spawners, HeapSlots
<1>5. ASSUME NEW s \in Slots, ShellExit(s) PROVE ShellInv'
    BY <1>5 DEF ShellExit, ShellInv, ShellTypeOK, NoDanglingShell, NoLeakedShell,
              Spawners, HeapSlots
<1>6. ASSUME NEW s \in Slots, OtherAlloc(s) PROVE ShellInv'
    BY <1>6 DEF OtherAlloc, HeapFree, ShellInv, ShellTypeOK, NoDanglingShell, NoLeakedShell,
              Spawners, HeapSlots
<1>7. ASSUME NEW s \in Slots, OtherFree(s) PROVE ShellInv'
    BY <1>7 DEF OtherFree, ShellInv, ShellTypeOK, NoDanglingShell, NoLeakedShell,
              Spawners, HeapSlots
<1>8. CASE UNCHANGED vars
    BY <1>8 DEF vars, ShellInv, ShellTypeOK, NoDanglingShell, NoLeakedShell
<1>9. QED
    BY <1>1, <1>2, <1>3, <1>4, <1>5, <1>6, <1>7, <1>8 DEF Next

(* The shell pointers of main.c and commands.cpp never dangle and every   *)
(* block a shell runs on is reachable from one of them, whatever the      *)
(* number of heap blocks.                                                 *)
LEMMA ShellMemorySafe == Spec => []ShellInv
BY ShellInvInit, ShellInvStep, PTL DEF Spec

(* Every shelltp main.c and commands.cpp test with chThdTerminatedX       *)
(* points at a live thread, whatever the number of heap blocks.           *)
THEOREM ShelltpNeverDangles == Spec => []NoDanglingShell
<1>1. ShellInv => NoDanglingShell
    BY DEF ShellInv
<1>. QED
    BY <1>1, ShellMemorySafe, PTL

(* Every block a shell thread holds is reachable from a spawner's         *)
(* shelltp, so chThdRelease (main.c 195) can always give it back.         *)
THEOREM ShellNeverLeaked == Spec => []NoLeakedShell
<1>1. ShellInv => NoLeakedShell
    BY DEF ShellInv
<1>. QED
    BY <1>1, ShellMemorySafe, PTL

(* A spawn (main.c 193, commands.cpp 73) never starts a shell on the      *)
(* working area of a running one.                                         *)
THEOREM NoStackReuse == Spec => StackNotReused
<1>1. ShellInv /\ [Next]_vars =>
        [\A m \in Spawners :
            shelltp'[m] \notin {NULL, shelltp[m]} => thd[shelltp'[m]] # "running"]_vars
    <2> SUFFICES ASSUME ShellInv, [Next]_vars, NEW m \in Spawners,
                        shelltp'[m] \notin {NULL, shelltp[m]}
                 PROVE  thd[shelltp'[m]] # "running"
        BY DEF vars
    <2> USE SpawnersDistinct
    <2>1. Next
        BY DEF vars
    <2>2. ASSUME NEW s \in Slots, ShellExit(s) \/ OtherAlloc(s) \/ OtherFree(s)
          PROVE  FALSE
        BY <2>2 DEF ShellExit, OtherAlloc, OtherFree
    <2>3. ~MainReap /\ ~StaticReap
        BY DEF MainReap, StaticReap, ShellInv, ShellTypeOK, Spawners
    <2>4. MainSpawn => thd[shelltp'[m]] # "running"
        BY DEF MainSpawn, HeapFree, ShellInv, ShellTypeOK, Spawners, HeapSlots
    <2>5. StaticSpawn => thd[shelltp'[m]] # "running"
        BY DEF StaticSpawn, ShellInv, ShellTypeOK, NoLeakedShell, Spawners, HeapSlots
    <2> QED
        BY <2>1, <2>2, <2>3, <2>4, <2>5 DEF Next
<1>2. QED
    BY <1>1, ShellMemorySafe, PTL DEF Spec, StackNotReused
=============================================================================
