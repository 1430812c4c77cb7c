------------------------------ MODULE MCSwitch ------------------------------
(* Two CPUs; the idle contexts lie between and after the user contexts in     *)
(* pointer order, so that both ranges of the scan meet one.                   *)
EXTENDS Switch

CONSTANTS cpu0, cpu1

MCIdle == [cpu \in {cpu0, cpu1} |-> IF cpu = cpu0 THEN 2 ELSE 5]

(* The scheduler with the clock at rest: for the progress of a context, which *)
(* is runnable anyway, a deadline is only a second way to unblock another.    *)
Timeless == now = 0 /\ Next
TimelessSpec == Init /\ [][Timeless]_vars /\ Fairness
=============================================================================
