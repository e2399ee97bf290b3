-------------------------- MODULE MCExecutionGuard --------------------------
(***************************************************************************)
(* Two engines of the dashboard process: e1 runs two tasks (its            *)
(* consolidation and its account refresh), e2 one, so that tasks of one    *)
(* loop and tasks of different loops compete for the guard.                *)
(***************************************************************************)
EXTENDS ExecutionGuard, TLC

CONSTANTS e1, e2, t1, t2, t3

MCEngine == {e1, e2}
MCTask == {t1, t2, t3}
MCHome == (t1 :> e1) @@ (t2 :> e1) @@ (t3 :> e2)
MCMonitor == {t2}
NoEngine == {}
NoTask == {}
=============================================================================
