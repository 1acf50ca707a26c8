----------------------------- MODULE MCTaskClock -----------------------------
(* Instances of TaskClock for TLC. *)
EXTENDS TaskClock

Two   == {0, 1}
Three == {0, 1, 2}

(* Everything a program can call. *)
AllOps == Optional

(* A group whose threads never leave it, so that clocks enter only above     *)
(* their creator's.                                                          *)
SteadyOps == {"sleep", "signal", "add_ticks", "coarse"}

(* Threads that start, stop, wait and create others, and nothing else.       *)
NoOps == {}

(* ... and that leave the group and enter it again.                          *)
HaltOps == {"halt", "activate"}
=============================================================================
