-------------------------- MODULE MCCallbackThread --------------------------
(***************************************************************************)
(* Instances of CallbackThread for TLC: a world in which two threads       *)
(* register and the clock is followed round the system time three times,   *)
(* and one in which time stands and a thread subscribes.                   *)
(***************************************************************************)
EXTENDS CallbackThread

MCPeriod == [c \in {"rtc", "pcsm", "sm"} |-> IF c = "rtc" THEN 1 ELSE 0]

MCPlans == {[callbacks |-> {"pcsm", "sm"}, aliases |-> {}, time |-> 3 * SysTime],
            [callbacks |-> {"sm"}, aliases |-> Key, time |-> 0]}

=============================================================================
