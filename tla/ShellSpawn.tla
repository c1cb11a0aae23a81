----------------------------- MODULE ShellSpawn -----------------------------
(***************************************************************************)
(* The respawn of the USB shell thread: the main thread of src/src/main.c  *)
(* (lines 191-200), which creates the shell from the heap, and            *)
(* shell_spawn of commands.cpp (lines 66-80), which creates it on the     *)
(* static working area shell_wa.  Each call looks at shelltp: when NULL,  *)
(* it creates a shell; when the shell has terminated, it releases the     *)
(* thread and sets shelltp to NULL for the next call.  The shell thread   *)
(* terminates on its own (exit command, end of the USB session); other    *)
(* threads allocate and free heap blocks.  The two spawners belong to two  *)
(* firmwares; they are composed here over one set of memory blocks.     *)
(***************************************************************************)
EXTENDS FiniteSets

CONSTANTS
    Slots,     \* memory blocks a shell's working area can occupy
    StaticWA,  \* the block of shell_wa (commands.cpp 68); the others are heap
    NULL

ASSUME ShellAssumptions ==
    /\ StaticWA \in Slots
    /\ NULL \notin Slots

(* The two spawners: the main thread of main.c and shell_spawn.           *)
Spawners == {"main", "cmd"}

HeapSlots == Slots \ {StaticWA}

VARIABLES
    shelltp,  \* shelltp[m]: the thread_t* shelltp of spawner m
    thd,      \* thd[s]: the shell thread whose working area is s
    others    \* heap blocks other threads hold

vars == <<shelltp, thd, others>>

ShellTypeOK ==
    /\ shelltp \in [Spawners -> Slots \cup {NULL}]
    /\ thd \in [Slots -> {"none", "running", "terminated"}]
    /\ others \subseteq HeapSlots

Init ==
    /\ shelltp = [m \in Spawners |-> NULL]
    /\ thd = [s \in Slots |-> "none"]
    /\ others = {}

(* A block the heap allocator can hand out.                               *)
HeapFree(s) == s \in HeapSlots /\ thd[s] = "none" /\ s \notin others

(* The shell of m terminated (chThdTerminatedX).                          *)
Terminated(m) == shelltp[m] # NULL /\ thd[shelltp[m]] = "terminated"

(* main.c 192-193: shellCreate from the heap; on an exhausted heap it     *)
(* returns NULL, which is no change, and the loop tries again 500 ms on.  *)
MainSpawn ==
    /\ shelltp["main"] = NULL
    /\ \E s \in HeapSlots :
          /\ HeapFree(s)
          /\ shelltp' = [shelltp EXCEPT !["main"] = s]
          /\ thd' = [thd EXCEPT ![s] = "running"]
    /\ UNCHANGED others

(* Mutants of MainReap: the pointer kept after the release, or the       *)
(* release forgotten.                                                     *)
MainReapKeepsPointer ==
    /\ Terminated("main")
    /\ thd' = [thd EXCEPT ![shelltp["main"]] = "none"]
    /\ UNCHANGED <<shelltp, others>>

MainReapNoRelease ==
    /\ Terminated("main")
    /\ shelltp' = [shelltp EXCEPT !["main"] = NULL]
    /\ UNCHANGED <<thd, others>>

(* main.c 194-197: chThdRelease frees the terminated shell's memory, and  *)
(* the NULL pointer triggers the next spawn.                              *)
MainReap ==
    /\ Terminated("main")
    /\ thd' = [thd EXCEPT ![shelltp["main"]] = "none"]
    /\ shelltp' = [shelltp EXCEPT !["main"] = NULL]
    /\ UNCHANGED others

(* commands.cpp 71-75: chThdCreateStatic on shell_wa, whatever runs on it. *)
StaticSpawn ==
    /\ shelltp["cmd"] = NULL
    /\ shelltp' = [shelltp EXCEPT !["cmd"] = StaticWA]
    /\ thd' = [thd EXCEPT ![StaticWA] = "running"]
    /\ UNCHANGED others

(* Mutants of StaticReap: the chThdTerminatedX check is lost, or the      *)
(* pointer is kept after the release.                                     *)
StaticReapKeepsPointer ==
    /\ Terminated("cmd")
    /\ thd' = [thd EXCEPT ![StaticWA] = "none"]
    /\ UNCHANGED <<shelltp, others>>

StaticReapUnchecked ==
    /\ shelltp["cmd"] # NULL
    /\ thd' = [thd EXCEPT ![StaticWA] = IF @ = "terminated" THEN "none" ELSE @]
    /\ shelltp' = [shelltp EXCEPT !["cmd"] = NULL]
    /\ UNCHANGED others

(* commands.cpp 76-79: release the terminated shell.                      *)
StaticReap ==
    /\ Terminated("cmd")
    /\ thd' = [thd EXCEPT ![StaticWA] = "none"]
    /\ shelltp' = [shelltp EXCEPT !["cmd"] = NULL]
    /\ UNCHANGED others

(* A shell thread exits (exit command, end of the session).               *)
ShellExit(s) ==
    /\ thd[s] = "running"
    /\ thd' = [thd EXCEPT ![s] = "terminated"]
    /\ UNCHANGED <<shelltp, others>>

(* Other threads allocate and free heap memory.                           *)
OtherAlloc(s) ==
    /\ HeapFree(s)
    /\ others' = others \cup {s}
    /\ UNCHANGED <<shelltp, thd>>

OtherFree(s) ==
    /\ s \in others
    /\ others' = others \ {s}
    /\ UNCHANGED <<shelltp, thd>>

Next ==
    \/ MainSpawn \/ MainReap \/ StaticSpawn \/ StaticReap
    \/ \E s \in Slots : ShellExit(s) \/ OtherAlloc(s) \/ OtherFree(s)

Spec == Init /\ [][Next]_vars

(* Both spawners are called periodically forever (every 500 ms in main.c),*)
(* so a spawn enabled again and again happens even when other threads     *)
(* take the heap in between; heap users free what they took.             *)
FairSpec ==
    /\ Spec
    /\ SF_vars(MainSpawn) /\ WF_vars(MainReap)
    /\ WF_vars(StaticSpawn) /\ WF_vars(StaticReap)
    /\ \A s \in Slots : WF_vars(OtherFree(s))

-----------------------------------------------------------------------------
(* shelltp never dangles: while it is set, it points at a shell that runs *)
(* or has terminated and still holds its working area, so the             *)
(* chThdTerminatedX of main.c 194 and commands.cpp 76 reads a live        *)
(* thread.                                                                *)
NoDanglingShell == \A m \in Spawners : shelltp[m] # NULL => thd[shelltp[m]] # "none"

(* No shell's memory is lost: every working area holding a shell thread  *)
(* is one a spawner's shelltp points at ("Recovers memory of the previous *)
(* shell", main.c 195).                                                   *)
NoLeakedShell == \A s \in Slots : thd[s] # "none" => \E m \in Spawners : shelltp[m] = s

(* A new shell never starts on the working area of a running one: the     *)
(* static chThdCreateStatic of commands.cpp 73 checks nothing itself.     *)
StackNotReused ==
    [][\A m \in Spawners :
          shelltp'[m] \notin {NULL, shelltp[m]} => thd[shelltp'[m]] # "running"]_vars

(* Inductive form of the two memory properties: main's shell lives on the *)
(* heap and shell_spawn's on shell_wa, and no other thread holds a block  *)
(* a shell runs on.                                                       *)
ShellInv ==
    /\ ShellTypeOK
    /\ shelltp["main"] \in HeapSlots \cup {NULL}
    /\ shelltp["cmd"] \in {StaticWA, NULL}
    /\ \A s \in others : thd[s] = "none"
    /\ NoDanglingShell
    /\ NoLeakedShell

(* A shell that terminated is eventually replaced by a running one.      *)
ShellRespawned ==
    \A m \in Spawners :
        Terminated(m) ~> (shelltp[m] # NULL /\ thd[shelltp[m]] = "running")
=============================================================================
