----------------------------- MODULE EvalPromise -----------------------------
(***************************************************************************)
(* What core/evaluator.rs promises its callers, with no cache in sight:    *)
(* every request is answered, by what evaluating it yields at some moment  *)
(* between the call and the return, by the error of the stage that         *)
(* rejects it, or by a timeout.                                            *)
(***************************************************************************)
EXTENDS EvalTypes

CONSTANT NoOutcome

VARIABLES
    world,    \* version of everything outside the program: clock, rate table
    phase,    \* per call: not yet made, pending or answered
    request,  \* per call: its request
    since,    \* per call: the world when it was made
    answer    \* per call: its outcome

promiseVars == <<world, phase, request, since, answer>>

Init ==
    /\ world = 0
    /\ phase = [c \in Calls |-> "idle"]
    /\ request = [c \in Calls |-> SomeRequest]
    /\ since = [c \in Calls |-> 0]
    /\ answer = [c \in Calls |-> NoOutcome]

AdvanceWorld ==
    /\ world < MaxWorld
    /\ world' = world + 1
    /\ UNCHANGED <<phase, request, since, answer>>

Call(c, r) ==
    /\ phase[c] = "idle"
    /\ phase' = [phase EXCEPT ![c] = "pending"]
    /\ request' = [request EXCEPT ![c] = r]
    /\ since' = [since EXCEPT ![c] = world]
    /\ UNCHANGED <<world, answer>>

Return(c) ==
    /\ phase[c] = "pending"
    /\ phase' = [phase EXCEPT ![c] = "answered"]
    /\ \E o \in Allowed(request[c], since[c] .. world) :
           answer' = [answer EXCEPT ![c] = o]
    /\ UNCHANGED <<world, request, since>>

Next ==
    \/ AdvanceWorld
    \/ \E c \in Calls : Return(c) \/ \E r \in Requests : Call(c, r)

Spec == Init /\ [][Next]_promiseVars /\ \A c \in Calls : WF_promiseVars(Return(c))
=============================================================================
