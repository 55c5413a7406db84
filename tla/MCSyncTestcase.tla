--------------------------- MODULE MCSyncTestcase ---------------------------
(* All functions of the test crate, for SyncTestcase.                       *)
EXTENDS SyncTestcase

AllFunctions == {"main", "testconvar", "test_multimutex", "test_conflict_lock"}
=============================================================================
