-------------------------------- MODULE MCFx --------------------------------
(* Instances of FxRates: two processes with one provider each, of which the *)
(* second is one-shot and accepts stale rates; one provider alone.          *)
EXTENDS FxRates, TLC

CONSTANTS first, second, here, there

Apart    == (first :> here @@ second :> there)
Alone    == (first :> here)

TwoSources == <<"frankfurter", "erapi">>

\* The second source's tables are too large for L1 from the instant 1 on, so are
\* those of the first at the instant 2.
LargeTables ==
    [from : {"erapi"}, at : 1 .. MaxTime] \cup [from : {"frankfurter"}, at : {2}]
=============================================================================
