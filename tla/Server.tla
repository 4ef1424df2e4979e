------------------------------- MODULE Server -------------------------------
(***************************************************************************)
(* The life of a request in the HTTP or MCP server (server/*.rs):          *)
(*                                                                         *)
(*   rate limit -> body -> validate -> spawn_blocking -> timeout(30 s)     *)
(*                                                                         *)
(* Over HTTP the limiter sees a request when its head has come; the Json   *)
(* extractor then waits for the body, as long as the client takes, and the *)
(* handler begins after it.  A request that needs computing becomes a task *)
(* of the blocking pool; the handler starts its timer and waits for the    *)
(* task or the timer.  Nothing cancels a task:                             *)
(* when the timer fires, or the client leaves, it stays in the queue or on *)
(* its thread.  Tasks end when they like, or never.  The handlers run on   *)
(* threads that compute nothing, so timers fire when they are due: the     *)
(* clock does not pass a deadline.  tokio, axum, sdforge and limiteron are *)
(* external and modelled from how the code uses them.                      *)
(***************************************************************************)
EXTENDS Integers, Sequences, FiniteSets

CONSTANTS
    Requests,        \* how many requests there are, numbered as they arrive
    Clients,         \* what extract_client_ip tells apart
    Asks,            \* what is asked for: kind, form, by whom
    Threads,         \* threads of the blocking pool
    Limit, Window,   \* CALNEXUS_RATELIMIT_LIMIT, CALNEXUS_RATELIMIT_WINDOW_SECS
    RequestTimeout,  \* REQUEST_TIMEOUT_SECS
    ReadinessTimeout,
    DrainTimeout,
    MaxTime          \* bound: the clock

Ids == 1 .. Requests

ASSUME ServerAssumption ==
    /\ Requests \in Nat /\ Clients # {}
    /\ Threads \in Nat \ {0} /\ Limit \in Nat \ {0} /\ Window \in Nat \ {0}
    /\ {RequestTimeout, ReadinessTimeout, DrainTimeout, MaxTime} \subseteq Nat
    /\ ReadinessTimeout <= RequestTimeout /\ RequestTimeout <= DrainTimeout

ApiKinds == {"evaluate", "fx", "list"}
Kinds    == ApiKinds \cup {"ready", "live"}
Forms    == {"good", "invalid", "malformed", "too_big"}
Outcomes == {"value", "fault", "unavailable", "panic"}
Statuses == {200, 400, 413, 422, 429, 500, 503}
Stages   == {"unsent", "reading", "waiting", "answered", "gone", "cut"}
Phases   == {"off", "serving", "draining", "dropping", "stopped"}

ASSUME AsksAssumption == Asks \subseteq [kind : Kinds, form : Forms, client : Clients]

VARIABLES
    transport,  \* --serve-http or --serve-mcp
    phase,      \* of the process
    now,
    asked,      \* per id: what was asked for, by whom, when
    stage,      \* per id: where the request is
    status,     \* per id: of its answer
    begun,      \* per id: when its handler began to wait for its task
    task,       \* per id: its task in the blocking pool, or the outcome of it
    window,     \* per client: the window of the rate limiter
    stopAt,     \* when shutdown began
    admitted    \* history, per client: when a request passed the limiter, in which window

requestVars == <<asked, stage, status, begun>>
vars == <<transport, phase, now, asked, stage, status, begun, task, window, stopAt, admitted>>

Nothing == [kind |-> "live", form |-> "good", client |-> CHOOSE c \in Clients : TRUE, at |-> 0]

Init ==
    /\ transport \in {"http", "mcp"} /\ phase = "off"
    /\ now = 0 /\ stopAt = 0
    /\ asked = [r \in Ids |-> Nothing]
    /\ stage = [r \in Ids |-> "unsent"]
    /\ status = [r \in Ids |-> 0]
    /\ begun = [r \in Ids |-> 0]
    /\ task = [r \in Ids |-> "none"]
    /\ window = [c \in Clients |-> [start |-> 0, count |-> 0]]
    /\ admitted = [c \in Clients |-> <<>>]

Reading == {r \in Ids : stage[r] = "reading"}
Waiting == {r \in Ids : stage[r] = "waiting"}
InFlight == Reading \cup Waiting
Running == {r \in Ids : task[r] = "running"}
Over(r) == task[r] \in Outcomes
-----------------------------------------------------------------------------
\* The address is bound before anything else is touched, and that may fail.
Serve ==
    /\ phase = "off" /\ phase' \in {"serving", "stopped"}
    /\ UNCHANGED <<transport, now, requestVars, task, window, stopAt, admitted>>
-----------------------------------------------------------------------------
Answer(r, s) ==
    /\ stage' = [stage EXCEPT ![r] = "answered"]
    /\ status' = [status EXCEPT ![r] = s]

\* The window the limiter counts a request of client c in.
\* Mutant: a window is never closed.
WindowForEver(c)  == IF window[c].count = 0 THEN [start |-> now, count |-> 0] ELSE window[c]
WindowOf(c) ==
    IF window[c].count = 0 \/ now >= window[c].start + Window
    THEN [start |-> now, count |-> 0] ELSE window[c]

Limited(kind)    == transport = "http" /\ kind \in ApiKinds
\* Mutant: one more than Limit passes.
RefusesLate(c)   == WindowOf(c).count > Limit
Refuses(c)       == WindowOf(c).count >= Limit

Admit(c) ==
    /\ window' = [window EXCEPT ![c] = [start |-> WindowOf(c).start, count |-> WindowOf(c).count + 1]]
    /\ admitted' = [admitted EXCEPT ![c] = Append(@, [at |-> now, window |-> WindowOf(c).start])]

\* What the extractors and validate answer, before anything is computed.
Rejection(q) == CASE q.form = "malformed" -> 400
                  [] q.form = "too_big"   -> 413
                  [] q.form = "invalid"   -> 422
Computes(q)  == q.kind \in {"evaluate", "fx", "ready"} /\ q.form = "good"

Offered(q) == transport = "mcp" => q.kind \in ApiKinds /\ q.form \in {"good", "invalid"}

\* The handler, once the extractors are done: a good request that computes gets
\* its task and its timer in one go, every other one its answer.
Handle(r, q) ==
    /\ now + RequestTimeout <= MaxTime
    /\ IF Computes(q)
         THEN /\ stage' = [stage EXCEPT ![r] = "waiting"]
              /\ begun' = [begun EXCEPT ![r] = now]
              /\ task' = [task EXCEPT ![r] = "queued"]
              /\ UNCHANGED status
         ELSE /\ Answer(r, IF q.form = "good" THEN 200 ELSE Rejection(q))
              /\ UNCHANGED <<begun, task>>

\* The head of a request comes.  Only the API routes of HTTP have a body to
\* wait for, and only they have the limiter before it.
Arrive(r, q) ==
  LET c == q.client IN
    /\ phase = "serving" /\ stage[r] = "unsent" /\ Offered(q)
    /\ \A i \in 1 .. r - 1 : stage[i] # "unsent"
    /\ asked' = [asked EXCEPT ![r] = [kind |-> q.kind, form |-> q.form, client |-> c, at |-> now]]
    /\ \/ /\ Limited(q.kind) /\ Refuses(c)
          /\ Answer(r, 429) /\ UNCHANGED <<begun, task, window, admitted>>
       \/ /\ Limited(q.kind) /\ ~Refuses(c)
          /\ Admit(c) /\ stage' = [stage EXCEPT ![r] = "reading"]
          /\ UNCHANGED <<status, begun, task>>
       \/ /\ ~Limited(q.kind)
          /\ Handle(r, q) /\ UNCHANGED <<window, admitted>>
    /\ UNCHANGED <<transport, phase, now, stopAt>>

\* The last of the body comes, at any time or never, while the server drains too.
ReadBody(r) ==
    /\ phase \in {"serving", "draining"} /\ r \in Reading
    /\ Handle(r, asked[r])
    /\ UNCHANGED <<transport, phase, now, asked, window, stopAt, admitted>>
-----------------------------------------------------------------------------
\* The blocking pool: a queued task gets a thread whoever still waits for it.
StartTask(r) ==
    /\ phase \in {"serving", "draining"}
    /\ task[r] = "queued" /\ Cardinality(Running) < Threads
    /\ task' = [task EXCEPT ![r] = "running"]
    /\ UNCHANGED <<transport, phase, now, requestVars, window, stopAt, admitted>>

\* An outcome nobody waits for any more is dropped with the task's handle.
PossibleOutcomes(kind) == IF kind = "ready" THEN {"value", "panic"} ELSE Outcomes
EndTask(r) ==
    /\ phase # "stopped" /\ task[r] = "running"
    /\ IF r \in Waiting
         THEN \E o \in PossibleOutcomes(asked[r].kind) : task' = [task EXCEPT ![r] = o]
         ELSE task' = [task EXCEPT ![r] = "dropped"]
    /\ UNCHANGED <<transport, phase, now, requestVars, window, stopAt, admitted>>

\* The status an outcome is answered with; the readiness check turns a failed
\* task into an unhealthy cache.
StatusOf(kind, o) ==
    CASE o = "value"       -> 200
      [] o = "fault"       -> 400
      [] o = "unavailable" -> 503
      [] o = "panic"       -> IF kind = "ready" THEN 503 ELSE 500

Respond(r) ==
    /\ phase \in {"serving", "draining"} /\ r \in Waiting /\ Over(r)
    /\ Answer(r, StatusOf(asked[r].kind, task[r]))
    /\ UNCHANGED <<transport, phase, now, asked, begun, task, window, stopAt, admitted>>

\* Mutant: no timer runs for a task that has no thread yet.
DeadlineOnThread(r) ==
    IF task[r] = "queued" THEN MaxTime + 1
    ELSE begun[r] + (IF asked[r].kind = "ready" THEN ReadinessTimeout ELSE RequestTimeout)
Deadline(r) == begun[r] + (IF asked[r].kind = "ready" THEN ReadinessTimeout ELSE RequestTimeout)

\* timeout(.., join_handle): a result that is there is taken before the timer.
\* Mutant: the timer wins.
TimeOutFirst(r) ==
    /\ phase \in {"serving", "draining"} /\ r \in Waiting /\ now >= Deadline(r)
    /\ Answer(r, 503)
    /\ UNCHANGED <<transport, phase, now, asked, begun, task, window, stopAt, admitted>>
TimeOut(r) ==
    /\ phase \in {"serving", "draining"} /\ r \in Waiting
    /\ ~Over(r) /\ now >= Deadline(r)
    /\ Answer(r, 503)
    /\ UNCHANGED <<transport, phase, now, asked, begun, task, window, stopAt, admitted>>

\* The client closes the connection: its handler is dropped, its task is not.
Orphan(r) == IF Over(r) THEN "dropped" ELSE task[r]
Leave(r) ==
    /\ r \in InFlight
    /\ stage' = [stage EXCEPT ![r] = "gone"]
    /\ task' = [task EXCEPT ![r] = Orphan(r)]
    /\ UNCHANGED <<transport, phase, now, asked, status, begun, window, stopAt, admitted>>
-----------------------------------------------------------------------------
\* A signal, or the end of the MCP client's input: no more requests.
Shutdown ==
    /\ phase = "serving" /\ now + DrainTimeout <= MaxTime
    /\ phase' = "draining" /\ stopAt' = now
    /\ UNCHANGED <<transport, now, requestVars, task, window, admitted>>

\* HTTP stops when everything is answered, or after DRAIN_TIMEOUT; it forgets
\* its runtime, and with the process its tasks end.  MCP drops its runtime,
\* which waits for the tasks that run.
\* Mutant: it does not wait at all.
DrainAtOnce == TRUE
DrainDone == transport = "mcp" \/ InFlight = {} \/ now >= stopAt + DrainTimeout
Close(next) ==
    /\ phase = "draining" /\ DrainDone /\ phase' = next
    /\ stage' = [r \in Ids |-> IF r \in InFlight THEN "cut" ELSE stage[r]]
    /\ task' = [r \in Ids |-> IF r \in InFlight THEN Orphan(r) ELSE task[r]]
    /\ UNCHANGED <<transport, now, asked, status, begun, window, stopAt, admitted>>
\* Mutant: HTTP drops its runtime too.
StopDropping == Close("dropping")
Stop == Close(IF transport = "http" THEN "stopped" ELSE "dropping")

DropRuntime ==
    /\ phase = "dropping" /\ Running = {} /\ phase' = "stopped"
    /\ UNCHANGED <<transport, now, requestVars, task, window, stopAt, admitted>>

\* Time passes while the server runs, but never beyond something that is due.
Due == \/ \E r \in Waiting : Over(r) \/ now >= Deadline(r)
       \/ phase = "draining" /\ now >= stopAt + DrainTimeout
Tick ==
    /\ phase \notin {"off", "stopped"} /\ now < MaxTime /\ ~Due
    /\ now' = now + 1
    /\ UNCHANGED <<transport, phase, requestVars, task, window, stopAt, admitted>>

Next ==
    \/ Serve \/ Shutdown \/ Stop \/ DropRuntime \/ Tick
    \/ \E r \in Ids : ReadBody(r) \/ StartTask(r) \/ EndTask(r) \/ Respond(r) \/ TimeOut(r) \/ Leave(r)
    \/ \E r \in Ids, q \in Asks : Arrive(r, q)

\* Handlers and timers run; a task that has a thread need not end, and a client
\* need not send its body.
Fairness ==
    /\ WF_vars(Tick) /\ WF_vars(Stop) /\ WF_vars(DropRuntime)
    /\ \A r \in Ids : WF_vars(Respond(r)) /\ WF_vars(TimeOut(r)) /\ WF_vars(StartTask(r))

Spec == Init /\ [][Next]_vars /\ Fairness
-----------------------------------------------------------------------------
\* Types of all variables.
TypeOK ==
    /\ transport \in {"http", "mcp"} /\ phase \in Phases
    /\ now \in 0 .. MaxTime /\ stopAt \in 0 .. now
    /\ asked \in [Ids -> [kind : Kinds, form : Forms, client : Clients, at : 0 .. now]]
    /\ stage \in [Ids -> Stages]
    /\ status \in [Ids -> Statuses \cup {0}]
    /\ begun \in [Ids -> 0 .. now]
    /\ task \in [Ids -> {"none", "queued", "running", "dropped"} \cup Outcomes]
    /\ window \in [Clients -> [start : 0 .. now, count : 0 .. Limit]]
    /\ admitted \in [Clients -> Seq([at : 0 .. now, window : 0 .. now])]

\* What the fixed window is worth: bursts on both sides of the edge of a window
\* pass more than Limit, but never 2 * Limit within the length of one window,
\* since a window begins with the first request it counts.
LimitPerWindow ==
    \A c \in Clients : \A i \in 1 .. Len(admitted[c]) - (2 * Limit - 1) :
        admitted[c][i + 2 * Limit - 1].at >= admitted[c][i].at + Window

\* A request is refused only when its own client has had Limit requests
\* within the window before it; what others ask, and the probes, do not count.
RefusedOnlyOverLimit ==
    \A r \in Ids : status[r] = 429 =>
        LET past == admitted[asked[r].client] IN
        \E i \in 1 .. Len(past) - Limit + 1 :
            /\ past[i].at > asked[r].at - Window
            /\ past[i + Limit - 1].at <= asked[r].at

\* A computed answer tells how the request's own task ended, whatever other
\* tasks do: 200 for a value, 400 for a fault of the expression, and 503 for a
\* late one only if no result was there when the timer fired.
OwnAnswer ==
    \A r \in Ids : stage[r] = "answered" /\ task[r] # "none" =>
        IF Over(r) THEN /\ status[r] = 200 <=> task[r] = "value"
                        /\ status[r] = 400 <=> task[r] = "fault"
        ELSE status[r] = 503 /\ now >= Deadline(r)

\* Draining costs no request its answer that the HTTP server had read before
\* shutdown began: its timer ends with the drain at the latest.  Who can be cut
\* off is a request whose body has not come, or came while the server drained or
\* in the moment it began to: its timer began then and may outlast the drain.
NobodyCutOff ==
    transport = "http" =>
        \A r \in Ids : stage[r] = "cut" => task[r] = "none" \/ begun[r] >= stopAt

\* Every request that was read is answered unless its client leaves or the server
\* stops, although tasks may occupy every thread for ever.
EveryRequestAnswered ==
    \A r \in Ids : (stage[r] = "waiting") ~> (stage[r] # "waiting")

\* HTTP shuts down although tasks hang; MCP unless one does.
ServerStops ==
    phase = "draining" ~> (phase = "stopped" \/ (transport = "mcp" /\ Running # {}))
=============================================================================
