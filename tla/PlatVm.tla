------------------------------- MODULE PlatVm -------------------------------
(***************************************************************************)
(* The address space the workers share, as plat_vm_map, plat_vm_map_fixed  *)
(* and plat_vm_unmap change it (src/platform/linux.c 294-405), and the     *)
(* regions of isolated workers (src/benchmarks/utils.h 114-120).  It is    *)
(* counted in slots, the size of one mapping of the run; a memory object   *)
(* that is too small, a missing one and a failed system call are all the   *)
(* error returns of these functions, chosen by MayFail.                    *)
(***************************************************************************)
EXTENDS BenchRun

CONSTANTS
  RegionSlots,   \* slots in the 512 GB (ADDRESS_OFFSET) of one isolated worker
  AboveSlots,    \* bound: slots above the regions, up to where the kernel maps nothing
  PoolSlots      \* bound: the slots the kernel chooses from for mmap(NULL, ...)

ASSUME PlatVmAssumption ==
  /\ RegionSlots \in Nat \ {0} /\ RegionSlots % 2 = 0
  /\ PoolSlots \in Nat /\ PoolSlots <= 2 * RegionSlots
  /\ AboveSlots \in Nat

VARIABLE vm      \* the worker that made the mapping in each slot

NoOne == -1      \* nothing is mapped there
NULL == 0        \* slot 0 is never mapped

(* Plausible slip: the regions are only half as far apart as they are large. *)
RegionBaseHalf(tid) == RegionSlots + (RegionSlots \div 2) * (tid + 2)

(* utils_vmops_get_map_address *)
RegionBase(tid) == RegionSlots * (tid + 2) + RegionSlots \div 2

Region(t) == RegionBase(t)..(RegionBase(t) + RegionSlots - 1)
Pool == 1..PoolSlots
Slots == 1..(RegionSlots * (N + 2) + RegionSlots + AboveSlots)

(* Where mmap(NULL, ...) may put a mapping. *)
FreePool == {a \in Pool : vm[a] = NoOne}

(* The system call behind a mapping at a, MAP_FIXED or chosen by the kernel:  *)
(* whatever was mapped there is replaced.                                     *)
Mmap(t, a) == vm' = [vm EXCEPT ![a] = t]

(* munmap: also succeeds where nothing is mapped. *)
Munmap(a) == vm' = [vm EXCEPT ![a] = NoOne]
==============================================================================
