------------------------------ MODULE MCKernel ------------------------------
(***************************************************************************)
(* Model-checking instance of five parts of the kernel that share no state *)
(* with one another: semaphores, virtual memory, the real-time scheduler,  *)
(* the IPC tables and the file system.  A behaviour is one of one part,    *)
(* and the others stay as they start.                                      *)
(***************************************************************************)
EXTENDS Semaphore, VirtualMemory, RtScheduler, IpcTables, FileSystem

VARIABLE part    \* the part that takes the steps

semVars == vars
allVars == <<semVars, vmvars, rtvars, ipcvars, fsvars, part>>

OneRegion == {{11, 12}}

(***************************************************************************)
(* The parts that do not take steps start with any one policy.             *)
(***************************************************************************)
KernelInit ==
    /\ part \in {"semaphore", "memory", "real time", "ipc", "files"}
    /\ Init /\ VmInit /\ RtInit /\ ipc_init /\ FsInit
    /\ part # "memory" => type = "PRA_FIFO"
    /\ part # "real time" => discipline = "edf"

KernelNext ==
    /\ \/ part = "semaphore"   /\ Next       /\ UNCHANGED <<vmvars, rtvars, ipcvars, fsvars>>
       \/ part = "memory"      /\ VmNext     /\ UNCHANGED <<semVars, rtvars, ipcvars, fsvars>>
       \/ part = "real time"   /\ RtNext     /\ UNCHANGED <<semVars, vmvars, ipcvars, fsvars>>
       \/ part = "ipc"         /\ IpcNext    /\ UNCHANGED <<semVars, vmvars, rtvars, fsvars>>
       \/ part = "files"       /\ FsNext     /\ UNCHANGED <<semVars, vmvars, rtvars, ipcvars>>
    /\ UNCHANGED part

KernelSpec == KernelInit /\ [][KernelNext]_allVars

\* The file system is looked at up to the first loss.
Intact == m.damage = {}

\* page_fault_handler and mm_protect do not depend on the replacement policy: they
\* are looked at under one policy only, next to two direct allocations, and the
\* others with direct allocations alone.
FaultsUnderFifo ==
    \/ type = "PRA_FIFO" /\ Cardinality(held) <= 2
    \/ /\ type # "PRA_FIFO"
       /\ \A r \in Regions : flags[r] = {"READ", "WRITE"}
       /\ \A v \in VPages : pte[v].page = None
       /\ alive

\* States that differ only in fields the replacement policy at hand never reads
\* are taken together.
ByPolicy ==
    LET f(i) == CASE type = "PRA_FIFO" -> frames[i].vaddr
                  [] type = "PRA_CLOCK" -> <<frames[i].vaddr, frames[i].accessed>>
                  [] OTHER -> <<frames[i].vaddr, frames[i].reference>>
    IN  <<part, semVars, rtvars, ipcvars, fsvars,
          type, [i \in Frames |-> f(i)], hand, pool, held, pte, flags, alive,
          IF type = "PRA_FIFO" THEN damage ELSE {},
          IF type = "PRA_NFU" THEN recent ELSE {},
          IF type = "PRA_FIFO" THEN loaded ELSE <<>> >>
=============================================================================
