---------------------------- MODULE FilePromise ----------------------------
(***************************************************************************)
(* What write_cache_file of domains/fx_provider.rs promises: the cache     *)
(* file changes at one instant, from what it held to the whole snapshot of *)
(* one writer, or not at all; a writer that fails or is killed has changed *)
(* nothing.                                                                *)
(***************************************************************************)
CONSTANTS Writers, Processes, ProcessOf, Snapshots, NoText, Damaged

VARIABLES
    file,    \* what the cache file holds: a snapshot, or one of Damaged
    text     \* per writer: the snapshot it is writing or NoText

promiseVars == <<file, text>>

Init ==
    /\ file \in Snapshots \cup Damaged
    /\ text = [w \in Writers |-> NoText]

Start(w, s) ==
    /\ text[w] = NoText
    /\ text' = [text EXCEPT ![w] = s]
    /\ UNCHANGED file

Finish(w) ==
    /\ text[w] # NoText
    /\ file' \in {file, text[w]}
    /\ text' = [text EXCEPT ![w] = NoText]

Kill(p) ==
    /\ text' = [w \in Writers |-> IF ProcessOf[w] = p THEN NoText ELSE text[w]]
    /\ UNCHANGED file

Next ==
    \/ \E w \in Writers : Finish(w) \/ \E s \in Snapshots : Start(w, s)
    \/ \E p \in Processes : Kill(p)

Spec == Init /\ [][Next]_promiseVars /\ \A w \in Writers : WF_promiseVars(Finish(w))
=============================================================================
