-------------------------- MODULE MCRuntimeShutdown --------------------------
(* The environments in which a shutdown is checked.                          *)
EXTENDS RuntimeShutdown

Env(owned, starved, stops, dependent) ==
    [owned |-> owned, starved |-> starved, stops |-> stops, dependent |-> dependent]

(* A call that depends on the loop is not combined with starts that fail: the *)
(* fall-back stops the loop first, and whether such a call then ends depends  *)
(* on what it waits for, which is not modelled.                               *)
AllEnvironments ==
    {Env(TRUE, FALSE, FALSE, TRUE), Env(TRUE, TRUE, FALSE, FALSE), Env(TRUE, TRUE, TRUE, FALSE)}
        \cup {Env(FALSE, TRUE, TRUE, FALSE)}

StoppedLoop == {Env(TRUE, FALSE, TRUE, FALSE)}
=============================================================================
