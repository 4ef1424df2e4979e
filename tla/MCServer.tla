------------------------------ MODULE MCServer ------------------------------
(* Instances of Server: what clients ask for.                               *)
EXTENDS Server

CONSTANTS c1, c2

Ask(k, f, c) == [kind |-> k, form |-> f, client |-> c]
MCAsks == {Ask("evaluate", "good", c1), Ask("ready", "good", c1), Ask("fx", "invalid", c2)}
=============================================================================
