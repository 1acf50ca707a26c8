--------------------------- MODULE MCTaskClockLive ---------------------------
(* Instances of TaskClockLive for TLC. *)
EXTENDS TaskClockLive

Two   == {0, 1}
Three == {0, 1, 2}

(* Waiting threads spin until they are told: SLEEP is never called.          *)
SpinOps == {"halt"}

(* Waiting threads may give up spinning.                                     *)
SleepOps == {"halt", "sleep"}
=============================================================================
