-------------------------- MODULE MCMonitorRuntime --------------------------
(* Small programs and monitor libraries for MonitorRuntime.                 *)
EXTENDS MonitorRuntime, TLC

CONSTANTS main, w,   \* threads
          x          \* a cell

OneMutex == {1}
GuardedByFirst == [c \in Cells |-> 1]

Basic == {"start", "spawn", "return", "lock", "drop"}
AccessKinds == Basic \cup {"read", "print", "panic"}
FaultKinds == Basic \cup {"try_lock", "update", "panic"}
TryKinds == Basic \cup {"try_lock", "print", "panic"}
StdoutKinds == Basic \cup {"stdout_lock", "stdout_unlock", "read"}

(* What this_is_our_monitor_function defines.                               *)
ShippedHooks == EntryHooks \cup MemHooks \cup
                {"lock_before", "lock_after", "try_lock_before", "try_lock_after"}
(* A library for critical sections, with the drop hook MonitorsInfo has a   *)
(* place for.                                                               *)
SectionHooks == {"lock_after", "try_lock_after", "drop_before", "drop_after"}
=============================================================================
