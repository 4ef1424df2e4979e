---------------------------- MODULE Server_proofs ----------------------------
(***************************************************************************)
(* What TLAPS proves of Server for any number of requests, clients and     *)
(* threads and for any limits and timeouts the code's constants allow: the *)
(* types, what the rate limiter is worth and whom it refuses, whose answer *)
(* a request gets, and that draining cuts nobody off.                      *)
(***************************************************************************)
EXTENDS Server, SequenceTheorems, TLAPS

-----------------------------------------------------------------------------
(* Types                                                                   *)

Admissions == [at : 0 .. now, window : 0 .. now]

\* The window a request is counted in began by now and holds no more than Limit.
LEMMA WindowOfType ==
    ASSUME TypeOK, NEW c \in Clients
    PROVE  WindowOf(c) \in [start : 0 .. now, count : 0 .. Limit]
BY ServerAssumption DEF WindowOf, TypeOK, ServerAssumption

\* A request that passes the limiter is counted and remembered.
LEMMA AdmitType ==
    ASSUME TypeOK, NEW c \in Clients, Admit(c), ~Refuses(c), now' = now
    PROVE  /\ window' \in [Clients -> [start : 0 .. now, count : 0 .. Limit]]
           /\ admitted' \in [Clients -> Seq(Admissions)]
<1> USE DEF Admissions
<1>1. WindowOf(c).count + 1 \in 0 .. Limit /\ WindowOf(c).start \in 0 .. now
  BY WindowOfType, ServerAssumption DEF Refuses, ServerAssumption
<1>2. [at |-> now, window |-> WindowOf(c).start] \in Admissions
  BY <1>1 DEF TypeOK
<1>3. Append(admitted[c], [at |-> now, window |-> WindowOf(c).start]) \in Seq(Admissions)
  BY <1>2, AppendProperties DEF TypeOK
<1>4. admitted' \in [Clients -> Seq(Admissions)]
  BY <1>3 DEF Admit, TypeOK
<1>5. window' \in [Clients -> [start : 0 .. now, count : 0 .. Limit]]
  BY <1>1 DEF Admit, TypeOK
<1> QED BY <1>4, <1>5

\* What a handler starts with: a task, or an answer of its own.
Queued(r) ==
    /\ stage' = [stage EXCEPT ![r] = "waiting"]
    /\ begun' = [begun EXCEPT ![r] = now]
    /\ task' = [task EXCEPT ![r] = "queued"]
    /\ status' = status
OwnStatuses == {200, 400, 413, 422}
Told(r, s) ==
    /\ stage' = [stage EXCEPT ![r] = "answered"]
    /\ begun' = begun
    /\ task' = task
    /\ status' = [status EXCEPT ![r] = s]
HandledAs(r) == Queued(r) \/ \E s \in OwnStatuses : Told(r, s)

LEMMA HandleSteps ==
    ASSUME NEW r \in Ids, NEW q, q.form \in Forms, Handle(r, q)
    PROVE  HandledAs(r)
<1>1. CASE Computes(q)
  BY <1>1 DEF Handle, HandledAs, Queued
<1>2. CASE ~Computes(q)
  <2> DEFINE s == IF q.form = "good" THEN 200 ELSE Rejection(q)
  <2>1. s \in OwnStatuses
    <3>1. q.form # "good" => Rejection(q) \in {400, 413, 422}
      BY DEF Rejection, Forms
    <3> QED BY <3>1 DEF OwnStatuses
  <2>2. Answer(r, s) /\ begun' = begun /\ task' = task
    BY <1>2 DEF Handle
  <2> HIDE DEF s
  <2>3. Told(r, s)
    BY <2>2 DEF Answer, Told
  <2> QED BY <2>1, <2>3 DEF HandledAs
<1> QED BY <1>1, <1>2

LEMMA HandleType ==
    ASSUME TypeOK, NEW r \in Ids, HandledAs(r)
    PROVE  /\ stage' \in [Ids -> Stages] /\ status' \in [Ids -> Statuses \cup {0}]
           /\ begun' \in [Ids -> 0 .. now]
           /\ task' \in [Ids -> {"none", "queued", "running", "dropped"} \cup Outcomes]
<1>1. now \in 0 .. now
  BY ServerAssumption DEF ServerAssumption, TypeOK
<1>2. CASE Queued(r)
  BY <1>1, <1>2 DEF Queued, TypeOK, Stages
<1>3. ASSUME NEW s \in OwnStatuses, Told(r, s)
      PROVE  stage' \in [Ids -> Stages] /\ status' \in [Ids -> Statuses \cup {0}]
  <2>1. s \in Statuses
    BY DEF OwnStatuses, Statuses
  <2> QED BY <1>3, <2>1 DEF Told, TypeOK, Stages
<1>4. ASSUME NEW s \in OwnStatuses, Told(r, s)
      PROVE  /\ begun' \in [Ids -> 0 .. now]
             /\ task' \in [Ids -> {"none", "queued", "running", "dropped"} \cup Outcomes]
  BY <1>4 DEF Told, TypeOK
<1> QED BY <1>2, <1>3, <1>4 DEF HandledAs

\* It touches no other request.
LEMMA HandlesOne ==
    ASSUME TypeOK, NEW r \in Ids, HandledAs(r)
    PROVE  /\ \/ stage'[r] = "waiting" /\ begun'[r] = now /\ task'[r] = "queued" /\ status'[r] = status[r]
              \/ /\ stage'[r] = "answered" /\ begun'[r] = begun[r] /\ task'[r] = task[r]
                 /\ status'[r] \in {200, 400, 413, 422}
           /\ \A x \in Ids \ {r} : /\ stage'[x] = stage[x] /\ begun'[x] = begun[x]
                                    /\ task'[x] = task[x] /\ status'[x] = status[x]
<1>1. CASE Queued(r)
  BY <1>1 DEF Queued, TypeOK
<1>2. ASSUME NEW s \in OwnStatuses, Told(r, s)
      PROVE  /\ stage'[r] = "answered" /\ begun'[r] = begun[r] /\ task'[r] = task[r]
             /\ status'[r] \in {200, 400, 413, 422}
             /\ \A x \in Ids \ {r} : /\ stage'[x] = stage[x] /\ begun'[x] = begun[x]
                                      /\ task'[x] = task[x] /\ status'[x] = status[x]
  BY <1>2 DEF Told, OwnStatuses, TypeOK
<1> QED BY <1>1, <1>2 DEF HandledAs

\* A sequence of admissions is one of a later moment's too.
LEMMA AdmissionsLater ==
    ASSUME NEW t \in Nat, NEW s \in Seq([at : 0 .. t, window : 0 .. t])
    PROVE  s \in Seq([at : 0 .. t + 1, window : 0 .. t + 1])
<1>1. 0 .. t \subseteq 0 .. t + 1
  OBVIOUS
<1>2. [at : 0 .. t, window : 0 .. t] \subseteq [at : 0 .. t + 1, window : 0 .. t + 1]
  BY <1>1
<1> QED BY <1>2, SeqMonotonic

\* Every step of the server, its clients and its clock keeps the types.
LEMMA ServerTypeInductive ==
    ASSUME TypeOK, [Next]_vars
    PROVE  TypeOK'
<1> USE ServerAssumption DEF ServerAssumption, Ids
<1>1. CASE Serve
  BY <1>1 DEF Serve, TypeOK, Phases, Stages, requestVars
<1>2. CASE Shutdown
  <2>1. /\ phase' \in Phases /\ stopAt' = now /\ now \in 0 .. MaxTime
        /\ UNCHANGED <<transport, now, asked, stage, status, begun, task, window, admitted>>
    BY <1>2 DEF Shutdown, TypeOK, Phases, Stages, requestVars
  <2>2. stopAt' \in 0 .. now'
    BY <2>1
  <2> QED BY <2>1, <2>2 DEF TypeOK
<1>3. CASE Stop
  BY <1>3 DEF Stop, Close, TypeOK, Phases, Stages, Orphan
<1>4. CASE DropRuntime
  BY <1>4 DEF DropRuntime, TypeOK, Phases, Stages, requestVars
<1>5. CASE Tick
  <2>1. /\ now \in Nat /\ now' = now + 1 /\ now' \in 0 .. MaxTime
        /\ UNCHANGED <<transport, phase, asked, stage, status, begun, task, window, stopAt, admitted>>
    BY <1>5 DEF Tick, TypeOK, requestVars
  <2>2. admitted' \in [Clients -> Seq([at : 0 .. now', window : 0 .. now'])]
    BY <2>1, AdmissionsLater DEF TypeOK
  <2>3. asked' \in [Ids -> [kind : Kinds, form : Forms, client : Clients, at : 0 .. now']]
    BY <2>1 DEF TypeOK
  <2>4. window' \in [Clients -> [start : 0 .. now', count : 0 .. Limit]]
    BY <2>1 DEF TypeOK
  <2>5. stopAt' \in 0 .. now'
    BY <2>1 DEF TypeOK
  <2>6. transport' \in {"http", "mcp"} /\ phase' \in Phases /\ status' \in [Ids -> Statuses \cup {0}]
        /\ stage' \in [Ids -> Stages]
        /\ task' \in [Ids -> {"none", "queued", "running", "dropped"} \cup Outcomes]
    BY <2>1 DEF TypeOK
  <2>7. begun' \in [Ids -> 0 .. now']
    BY <2>1 DEF TypeOK
  <2> HIDE DEF Ids
  <2> QED BY <2>1, <2>2, <2>3, <2>4, <2>5, <2>6, <2>7 DEF TypeOK
<1>6. ASSUME NEW r \in Ids, StartTask(r)
      PROVE  TypeOK'
  BY <1>6 DEF StartTask, TypeOK, requestVars
<1>7. ASSUME NEW r \in Ids, EndTask(r)
      PROVE  TypeOK'
  BY <1>7 DEF EndTask, PossibleOutcomes, Outcomes, TypeOK, requestVars
<1>8. ASSUME NEW r \in Ids, Respond(r)
      PROVE  TypeOK'
  <2>1. StatusOf(asked[r].kind, task[r]) \in Statuses
    BY <1>8 DEF Respond, Over, Outcomes, StatusOf, Statuses
  <2> QED BY <1>8, <2>1 DEF Respond, Answer, TypeOK, Stages
<1>9. ASSUME NEW r \in Ids, TimeOut(r)
      PROVE  TypeOK'
  <2>1. 503 \in Statuses
    BY DEF Statuses
  <2> QED BY <1>9, <2>1 DEF TimeOut, Answer, TypeOK, Stages
<1>10. ASSUME NEW r \in Ids, Leave(r)
       PROVE  TypeOK'
  BY <1>10 DEF Leave, Orphan, TypeOK, Stages
<1>11. ASSUME NEW r \in Ids, NEW q \in Asks, Arrive(r, q)
       PROVE  TypeOK'
  <2>1. q \in [kind : Kinds, form : Forms, client : Clients]
    BY AsksAssumption DEF AsksAssumption
  <2>2. asked' \in [Ids -> [kind : Kinds, form : Forms, client : Clients, at : 0 .. now]]
    <3>1. asked' = [asked EXCEPT ![r] = [kind |-> q.kind, form |-> q.form, client |-> q.client, at |-> now]]
      BY <1>11 DEF Arrive
    <3>2. [kind |-> q.kind, form |-> q.form, client |-> q.client, at |-> now]
            \in [kind : Kinds, form : Forms, client : Clients, at : 0 .. now]
      BY <2>1 DEF TypeOK
    <3>3. asked \in [Ids -> [kind : Kinds, form : Forms, client : Clients, at : 0 .. now]]
      BY DEF TypeOK
    <3> HIDE DEF Ids
    <3> QED BY <3>1, <3>2, <3>3
  <2>3. window' \in [Clients -> [start : 0 .. now, count : 0 .. Limit]] /\ admitted' \in [Clients -> Seq(Admissions)]
    <3>1. CASE Admit(q.client) /\ ~Refuses(q.client)
      BY <1>11, <2>1, <3>1, AdmitType DEF Arrive
    <3>2. CASE UNCHANGED <<window, admitted>>
      BY <3>2 DEF TypeOK, Admissions
    <3> QED BY <1>11, <3>1, <3>2 DEF Arrive
  <2>4. /\ stage' \in [Ids -> Stages] /\ status' \in [Ids -> Statuses \cup {0}]
        /\ begun' \in [Ids -> 0 .. now]
        /\ task' \in [Ids -> {"none", "queued", "running", "dropped"} \cup Outcomes]
    <3>1. CASE Handle(r, q)
      BY <2>1, <3>1, HandleSteps, HandleType
    <3>2. CASE Answer(r, 429) /\ UNCHANGED <<begun, task>>
      BY <3>2 DEF Answer, TypeOK, Stages, Statuses
    <3>3. CASE stage' = [stage EXCEPT ![r] = "reading"] /\ UNCHANGED <<status, begun, task>>
      BY <3>3 DEF TypeOK, Stages
    <3> QED BY <1>11, <3>1, <3>2, <3>3 DEF Arrive
  <2>5. UNCHANGED <<transport, phase, now, stopAt>>
    BY <1>11 DEF Arrive
  <2> HIDE DEF Ids
  <2> QED BY <2>2, <2>3, <2>4, <2>5 DEF TypeOK, Admissions
<1>13. ASSUME NEW r \in Ids, ReadBody(r)
       PROVE  TypeOK'
  <2>1. asked[r].kind \in Kinds /\ asked[r].form \in Forms /\ Handle(r, asked[r])
    BY <1>13 DEF ReadBody, TypeOK
  <2>2. UNCHANGED <<transport, phase, now, asked, window, stopAt, admitted>>
    BY <1>13 DEF ReadBody
  <2> HIDE DEF Ids
  <2>3. HandledAs(r)
    BY <2>1, HandleSteps
  <2>4. /\ stage' \in [Ids -> Stages] /\ status' \in [Ids -> Statuses \cup {0}]
        /\ begun' \in [Ids -> 0 .. now]
        /\ task' \in [Ids -> {"none", "queued", "running", "dropped"} \cup Outcomes]
    BY <2>3, HandleType
  <2> QED BY <2>2, <2>4 DEF TypeOK
<1>12. CASE UNCHANGED vars
  BY <1>12 DEF vars, requestVars, TypeOK
<1> QED BY <1>1, <1>2, <1>3, <1>4, <1>5, <1>6, <1>7, <1>8, <1>9, <1>10, <1>11, <1>12, <1>13 DEF Next

\* The types hold whatever clients ask and however tasks end.
THEOREM ServerTypeCorrect == Spec => []TypeOK
<1>1. Init => TypeOK
  <2>1. Nothing \in [kind : Kinds, form : Forms, client : Clients, at : 0 .. 0]
    BY ServerAssumption DEF ServerAssumption, Nothing, Kinds, Forms
  <2>2. <<>> \in Seq([at : 0 .. 0, window : 0 .. 0])
    BY EmptySeq
  <2> QED BY <2>1, <2>2, ServerAssumption DEF ServerAssumption, Init, TypeOK, Phases, Stages, Ids
<1> QED BY <1>1, ServerTypeInductive, PTL DEF Spec

-----------------------------------------------------------------------------
(* The rate limiter                                                        *)

\* What client c was admitted to: in order, each request in a window that was
\* open when it came, windows at least a Window apart, each beginning with the
\* first request it counts.
InWindows(c) ==
    LET past == admitted[c] IN
    /\ \A i \in 1 .. Len(past) : past[i].window <= past[i].at /\ past[i].at < past[i].window + Window
    /\ \A i, j \in 1 .. Len(past) :
           i < j => past[i].window = past[j].window \/ past[i].window + Window <= past[j].window
    /\ \A i \in 1 .. Len(past) :
           i = 1 \/ past[i - 1].window # past[i].window => past[i].at = past[i].window

\* The limiter's counter counts the last admissions, which are those of its
\* window.
Counted(c) ==
    LET past == admitted[c]
        w    == window[c]
    IN  /\ w.count <= Len(past) /\ (w.count = 0 => Len(past) = 0)
        /\ \A i \in 1 .. Len(past) :
              /\ i > Len(past) - w.count => past[i].window = w.start
              /\ i <= Len(past) - w.count => past[i].window + Window <= w.start

\* No window admits more than Limit.
Rationed(c) ==
    LET past == admitted[c] IN
    \A i \in 1 .. Len(past) - Limit : past[i].window + Window <= past[i + Limit].window

Limiter == \A c \in Clients : InWindows(c) /\ Counted(c) /\ Rationed(c)

\* Passing the limiter keeps its accounts.
LEMMA LimiterAdmits ==
    ASSUME TypeOK, Limiter, NEW c \in Clients, Admit(c), ~Refuses(c)
    PROVE  InWindows(c)' /\ Counted(c)' /\ Rationed(c)'
<1> DEFINE past  == admitted[c]
           n     == Len(past)
           start == WindowOf(c).start
           count == WindowOf(c).count
           new   == [at |-> now, window |-> start]
           after == admitted'[c]
<1>0. past \in Seq(Admissions)
  BY DEF TypeOK, Admissions
<1>1. Limit \in Nat \ {0} /\ Window \in Nat \ {0} /\ now \in Nat /\ n \in Nat
  <2>1. n \in Nat
    BY <1>0, LenProperties
  <2>2. now \in Nat
    BY ServerAssumption DEF ServerAssumption, TypeOK
  <2> QED BY <2>1, <2>2, ServerAssumption DEF ServerAssumption
<1>2. \A i \in 1 .. n : past[i] \in Admissions
  BY <1>0, ElementOfSeq
<1>3. \A i \in 1 .. n : past[i].at \in Nat /\ past[i].window \in Nat
  BY <1>1, <1>2 DEF Admissions
<1>4. window[c].start \in Nat /\ window[c].count \in Nat /\ window[c].start <= now /\ window[c].count <= Limit
  BY <1>1 DEF TypeOK
<1>5. start \in Nat /\ count \in Nat /\ count < Limit /\ start <= now /\ now < start + Window
  <2>1. count < Limit
    BY <1>1, <1>4 DEF Refuses, WindowOf
  <2> QED BY <1>1, <1>4, <2>1 DEF WindowOf
<1>s. count = 0 => start = now
  BY <1>4 DEF WindowOf
<1>6. /\ count <= n
      /\ \A i \in 1 .. n : i > n - count => past[i].window = start
      /\ \A i \in 1 .. n : i <= n - count => past[i].window + Window <= start
  <2>1. /\ window[c].count <= n /\ (window[c].count = 0 => n = 0)
        /\ \A i \in 1 .. n : i > n - window[c].count => past[i].window = window[c].start
        /\ \A i \in 1 .. n : i <= n - window[c].count => past[i].window + Window <= window[c].start
    BY DEF Limiter, Counted
  <2>2. CASE window[c].count = 0
    <3>1. n = 0 /\ count = 0
      BY <2>1, <2>2 DEF WindowOf
    <3> QED BY <3>1
  <2>3. CASE window[c].count # 0 /\ now >= window[c].start + Window
    <3>1. start = now /\ count = 0
      BY <2>3 DEF WindowOf
    <3> HIDE DEF past, n, start, count
    <3>2. ASSUME NEW i \in 1 .. n
          PROVE  past[i].window + Window <= start
      <4>1. past[i].window \in Nat /\ past[i].window <= window[c].start
        <5>1. past[i].window = window[c].start \/ past[i].window + Window <= window[c].start
          BY <2>1, <1>1, <1>4
        <5> QED BY <5>1, <1>1, <1>3, <1>4
      <4> QED BY <1>1, <1>4, <2>3, <3>1, <4>1
    <3> QED BY <1>1, <3>1, <3>2
  <2>4. CASE window[c].count # 0 /\ ~(now >= window[c].start + Window)
    <3>1. start = window[c].start /\ count = window[c].count
      BY <2>4 DEF WindowOf
    <3> QED BY <2>1, <3>1
  <2> QED BY <2>2, <2>3, <2>4
<1>7. window'[c].start = start /\ window'[c].count = count + 1 /\ after = Append(past, new)
  BY DEF Admit, TypeOK
<1>8. Len(after) = n + 1 /\ after[n + 1] = new /\ \A i \in 1 .. n : after[i] = past[i]
  <2>1. new \in Admissions
    BY <1>1, <1>5 DEF Admissions
  <2> QED BY <1>0, <1>7, <2>1, AppendProperties
<1>9. /\ after[n + 1].at = now /\ after[n + 1].window = start
      /\ \A i \in 1 .. n : after[i].at = past[i].at /\ after[i].window = past[i].window
  BY <1>8
<1>10. /\ \A i \in 1 .. n : past[i].window <= past[i].at /\ past[i].at < past[i].window + Window
       /\ \A i, j \in 1 .. n : i < j => past[i].window = past[j].window \/ past[i].window + Window <= past[j].window
       /\ \A i \in 1 .. n : i = 1 \/ past[i - 1].window # past[i].window => past[i].at = past[i].window
       /\ \A i \in 1 .. n - Limit : past[i].window + Window <= past[i + Limit].window
  BY DEF Limiter, InWindows, Rationed
<1> HIDE DEF past, n, start, count, new, after
<1>11. \A i \in 1 .. n + 1 : after[i].window <= after[i].at /\ after[i].at < after[i].window + Window
  BY <1>1, <1>5, <1>9, <1>10
<1>12. ASSUME NEW i \in 1 .. n + 1, NEW j \in 1 .. n + 1, i < j
       PROVE  after[i].window = after[j].window \/ after[i].window + Window <= after[j].window
  <2>1. CASE j <= n
    BY <1>1, <1>9, <1>10, <1>12, <2>1
  <2>2. CASE j = n + 1
    <3>1. i \in 1 .. n
      BY <1>1, <1>12, <2>2
    <3>2. past[i].window = start \/ past[i].window + Window <= start
      BY <1>1, <1>5, <1>6, <3>1
    <3> QED BY <1>9, <2>2, <3>1, <3>2
  <2> QED BY <1>1, <2>1, <2>2
<1>13. ASSUME NEW i \in 1 .. n + 1
       PROVE  /\ i > (n + 1) - (count + 1) => after[i].window = start
              /\ i <= (n + 1) - (count + 1) => after[i].window + Window <= start
  <2>1. CASE i = n + 1
    BY <1>1, <1>5, <1>6, <1>9, <2>1
  <2>2. CASE i <= n
    <3>1. i \in 1 .. n /\ (n + 1) - (count + 1) = n - count
      BY <1>1, <1>5, <2>2
    <3> QED BY <1>6, <1>9, <3>1
  <2> QED BY <1>1, <2>1, <2>2
<1>14. ASSUME NEW i \in 1 .. (n + 1) - Limit
       PROVE  after[i].window + Window <= after[i + Limit].window
  <2>1. CASE i + Limit <= n
    <3>1. i \in 1 .. n - Limit /\ i \in 1 .. n /\ i + Limit \in 1 .. n
      BY <1>1, <2>1
    <3> QED BY <3>1, <1>9, <1>10
  <2>2. CASE i + Limit = n + 1
    <3>1. i \in 1 .. n /\ i <= n - count
      BY <1>1, <1>5, <2>2
    <3> QED BY <1>6, <1>9, <2>2, <3>1
  <2> QED BY <1>1, <2>1, <2>2
<1>o. ASSUME NEW i \in 1 .. n + 1, i = 1 \/ after[i - 1].window # after[i].window
      PROVE  after[i].at = after[i].window
  <2>1. CASE i <= n
    <3>1. i \in 1 .. n /\ (i # 1 => i - 1 \in 1 .. n)
      BY <1>1, <2>1
    <3>2. i = 1 \/ past[i - 1].window # past[i].window
      BY <1>o, <1>9, <3>1
    <3> QED BY <1>9, <1>10, <3>1, <3>2
  <2>2. CASE i = n + 1
    <3>1. count = 0
      <4>1. SUFFICES ASSUME count # 0 PROVE FALSE
        OBVIOUS
      <4>2. n \in 1 .. n /\ n > n - count
        BY <1>1, <1>5, <1>6, <4>1
      <4>3. after[n].window = start /\ i # 1
        BY <1>1, <1>6, <1>9, <2>2, <4>2
      <4> QED BY <1>1, <1>o, <1>9, <2>2, <4>3
    <3> QED BY <1>s, <1>9, <2>2, <3>1
  <2> QED BY <1>1, <2>1, <2>2
<1> USE DEF past, n, start, count, new, after
<1>15. InWindows(c)'
  BY <1>8, <1>11, <1>12, <1>o DEF InWindows
<1>16. Counted(c)'
  <2>1. count + 1 <= n + 1 /\ count + 1 # 0
    BY <1>1, <1>5, <1>6
  <2> QED BY <1>7, <1>8, <1>13, <2>1 DEF Counted
<1>17. Rationed(c)'
  BY <1>8, <1>14 DEF Rationed
<1> QED BY <1>15, <1>16, <1>17

\* Every other step leaves the limiter alone.
LEMMA LimiterElsewhere ==
    ASSUME Next, ~ \E r \in Ids, q \in Asks : Arrive(r, q)
    PROVE  UNCHANGED <<window, admitted>>
BY DEF Next, Serve, Shutdown, Stop, Close, DropRuntime, Tick, ReadBody, StartTask, EndTask, Respond, TimeOut, Leave

\* What client c was admitted to grows at its end only.
Grows(c) ==
    /\ Len(admitted'[c]) >= Len(admitted[c])
    /\ \A i \in 1 .. Len(admitted[c]) : admitted'[c][i] = admitted[c][i]

LEMMA AdmittedGrows ==
    ASSUME TypeOK, [Next]_vars
    PROVE  \A c \in Clients : Grows(c)
<1> SUFFICES ASSUME NEW c \in Clients PROVE Grows(c)
  OBVIOUS
<1>1. /\ Len(admitted[c]) \in Nat /\ admitted[c] \in Seq(Admissions)
  BY LenProperties DEF TypeOK, Admissions
<1>2. CASE admitted' = admitted
  BY <1>1, <1>2 DEF Grows
<1>3. ASSUME NEW r \in Ids, NEW q \in Asks, Arrive(r, q), admitted' # admitted
      PROVE  Grows(c)
  <2>1. q.client \in Clients /\ Admit(q.client) /\ ~Refuses(q.client)
    BY <1>3, AsksAssumption DEF AsksAssumption, Arrive
  <2>2. CASE c # q.client
    <3>1. admitted'[c] = admitted[c]
      BY <2>1, <2>2 DEF Admit, TypeOK
    <3> QED BY <1>1, <3>1 DEF Grows
  <2>3. CASE c = q.client
    <3>1. [at |-> now, window |-> WindowOf(c).start] \in Admissions
      <4>1. WindowOf(c).start \in 0 .. now /\ now \in 0 .. now
        <5>1. WindowOf(c) \in [start : 0 .. now, count : 0 .. Limit]
          BY WindowOfType
        <5>2. now \in Nat
          BY ServerAssumption DEF TypeOK, ServerAssumption
        <5> QED BY <5>1, <5>2
      <4> QED BY <4>1 DEF Admissions
    <3>2. admitted'[c] = Append(admitted[c], [at |-> now, window |-> WindowOf(c).start])
      BY <2>1, <2>3 DEF Admit, TypeOK
    <3> QED BY <1>1, <3>1, <3>2, AppendProperties DEF Grows
  <2> QED BY <2>2, <2>3
<1>4. CASE UNCHANGED vars
  BY <1>2, <1>4 DEF vars
<1> QED BY <1>2, <1>3, <1>4, LimiterElsewhere

\* Every step keeps the limiter's accounts.
LEMMA LimiterInductive ==
    ASSUME TypeOK, Limiter, [Next]_vars
    PROVE  Limiter'
<1>1. CASE UNCHANGED <<window, admitted>>
  BY <1>1 DEF Limiter, InWindows, Counted, Rationed
<1>2. ASSUME NEW r \in Ids, NEW q \in Asks, Arrive(r, q), ~UNCHANGED <<window, admitted>>
      PROVE  Limiter'
  <2>1. q.client \in Clients /\ Admit(q.client) /\ ~Refuses(q.client)
    BY <1>2, AsksAssumption DEF AsksAssumption, Arrive
  <2>2. ASSUME NEW c \in Clients, c # q.client
        PROVE  (InWindows(c) /\ Counted(c) /\ Rationed(c))'
    <3>1. admitted'[c] = admitted[c] /\ window'[c] = window[c]
      BY <2>1, <2>2 DEF Admit, TypeOK
    <3> QED BY <3>1 DEF Limiter, InWindows, Counted, Rationed
  <2>3. (InWindows(q.client) /\ Counted(q.client) /\ Rationed(q.client))'
    BY <2>1, LimiterAdmits
  <2> QED BY <2>2, <2>3 DEF Limiter
<1>3. CASE UNCHANGED vars
  BY <1>1, <1>3 DEF vars
<1> QED BY <1>1, <1>2, <1>3, LimiterElsewhere

\* The accounts begin empty and stay right.
LEMMA LimiterAlways == Spec => []Limiter
<1>1. Init => Limiter
  <2> SUFFICES ASSUME Init, NEW c \in Clients PROVE InWindows(c) /\ Counted(c) /\ Rationed(c)
    BY DEF Limiter
  <2>1. admitted[c] = <<>> /\ window[c] = [start |-> 0, count |-> 0] /\ Len(admitted[c]) = 0
    BY EmptySeq DEF Init
  <2>2. 1 .. 0 = {} /\ 1 .. 0 - Limit = {}
    BY ServerAssumption DEF ServerAssumption
  <2> QED BY <2>1, <2>2 DEF InWindows, Counted, Rationed
<1> QED BY <1>1, LimiterInductive, ServerTypeCorrect, PTL DEF Spec

\* Within the length of one window less than twice Limit requests pass, for
\* every Limit and Window and whenever requests come.
THEOREM LimiterIsWorthIt == Spec => []LimitPerWindow
<1>1. TypeOK /\ Limiter => LimitPerWindow
  <2> SUFFICES ASSUME TypeOK, Limiter, NEW c \in Clients, NEW i \in 1 .. Len(admitted[c]) - (2 * Limit - 1)
               PROVE  admitted[c][i + 2 * Limit - 1].at >= admitted[c][i].at + Window
    BY DEF LimitPerWindow
  <2> DEFINE past == admitted[c]
             n    == Len(past)
             m    == i + Limit - 1
             next == i + Limit
             j    == i + 2 * Limit - 1
  <2>1. Limit \in Nat \ {0} /\ Window \in Nat \ {0} /\ n \in Nat /\ past \in Seq(Admissions)
    <3>1. past \in Seq(Admissions)
      BY DEF TypeOK, Admissions
    <3> QED BY <3>1, LenProperties, ServerAssumption DEF ServerAssumption
  <2>2. \A k \in 1 .. n : past[k].at \in Nat /\ past[k].window \in Nat
    <3>1. \A k \in 1 .. n : past[k] \in Admissions
      BY <2>1, ElementOfSeq
    <3> QED BY <3>1 DEF Admissions, TypeOK
  <2>3. /\ \A k \in 1 .. n : past[k].window <= past[k].at /\ past[k].at < past[k].window + Window
        /\ \A k, l \in 1 .. n : k < l => past[k].window = past[l].window \/ past[k].window + Window <= past[l].window
        /\ \A k \in 1 .. n : k = 1 \/ past[k - 1].window # past[k].window => past[k].at = past[k].window
        /\ \A k \in 1 .. n - Limit : past[k].window + Window <= past[k + Limit].window
    BY DEF Limiter, InWindows, Rationed
  <2> HIDE DEF past, n
  <2>4. /\ i \in 1 .. n /\ m \in 1 .. n - Limit /\ m \in 1 .. n /\ j \in 1 .. n
        /\ m + Limit = j /\ i <= m /\ next <= j /\ next \in 1 .. n /\ i \in 1 .. n - Limit
        /\ i # 1 => i - 1 \in 1 .. n - Limit /\ i - 1 \in 1 .. n /\ i - 1 + Limit = m
    BY <2>1 DEF n, past
  <2> HIDE DEF m, next, j
  <2>5. CASE past[i].window = past[m].window
    <3>1. i = 1 \/ past[i - 1].window # past[i].window
      <4>1. SUFFICES ASSUME i # 1, past[i - 1].window = past[i].window PROVE FALSE
        OBVIOUS
      <4>2. past[i - 1].window + Window <= past[m].window
        BY <2>3, <2>4, <4>1
      <4> QED BY <2>1, <2>2, <2>4, <2>5, <4>1, <4>2
    <3>2. past[i].at = past[i].window
      BY <2>3, <2>4, <3>1
    <3>3. past[i].window + Window <= past[next].window
      BY <2>3, <2>4 DEF next
    <3>4. /\ past[i].window \in Nat /\ past[next].window \in Nat
          /\ past[j].window \in Nat /\ past[j].at \in Nat
      BY <2>2, <2>4
    <3>5. next = j \/ past[next].window = past[j].window \/ past[next].window + Window <= past[j].window
      <4>1. next = j \/ next < j
        BY <2>1, <2>4
      <4> QED BY <2>3, <2>4, <4>1
    <3>6. past[j].window <= past[j].at
      BY <2>3, <2>4
    <3>7. past[i].window + Window <= past[j].window
      BY <2>1, <3>3, <3>4, <3>5
    <3>8. past[j].at >= past[i].at + Window
      BY <2>1, <3>2, <3>4, <3>6, <3>7
    <3> QED BY <3>8 DEF past, j
  <2>6. CASE past[i].window # past[m].window
    <3>1. i < m
      BY <2>1, <2>4, <2>6
    <3>2. past[i].window + Window <= past[m].window
      BY <2>3, <2>4, <2>6, <3>1
    <3>3. past[m].window + Window <= past[j].window
      BY <2>3, <2>4
    <3>4. past[j].window <= past[j].at /\ past[i].at < past[i].window + Window
      BY <2>3, <2>4
    <3>5. past[j].at >= past[i].at + Window
      <4>1. /\ past[i].window \in Nat /\ past[i].at \in Nat /\ past[m].window \in Nat
            /\ past[j].window \in Nat /\ past[j].at \in Nat
        BY <2>2, <2>4
      <4>2. \A at1, w1, w2, w3, at3, size \in Nat :
               at1 < w1 + size /\ w1 + size <= w2 /\ w2 + size <= w3 /\ w3 <= at3 => at3 >= at1 + size
        OBVIOUS
      <4> QED BY <2>1, <3>2, <3>3, <3>4, <4>1, <4>2
    <3> QED BY <3>5 DEF past, j
  <2> QED BY <2>5, <2>6
<1> QED BY <1>1, ServerTypeCorrect, LimiterAlways, PTL

\* Who was refused had been admitted Limit times within the window before.
OverLimit(r) ==
    LET past == admitted[asked[r].client] IN
    \E i \in 1 .. Len(past) - Limit + 1 :
        /\ past[i].at > asked[r].at - Window
        /\ past[i + Limit - 1].at <= asked[r].at

\* A request refused now is over the limit now.
LEMMA RefusedNow ==
    ASSUME TypeOK, Limiter, NEW c \in Clients, Refuses(c)
    PROVE  \E i \in 1 .. Len(admitted[c]) - Limit + 1 :
              admitted[c][i].at > now - Window /\ admitted[c][i + Limit - 1].at <= now
<1> DEFINE past == admitted[c]
           n    == Len(past)
<1>1. past \in Seq(Admissions)
  BY DEF TypeOK, Admissions
<1>2. Limit \in Nat \ {0} /\ Window \in Nat \ {0} /\ now \in Nat /\ n \in Nat
  <2>1. n \in Nat
    BY <1>1, LenProperties
  <2>2. now \in Nat
    BY ServerAssumption DEF ServerAssumption, TypeOK
  <2> QED BY <2>1, <2>2, ServerAssumption DEF ServerAssumption
<1>3. \A i \in 1 .. n : past[i] \in Admissions
  BY <1>1, ElementOfSeq
<1>4. \A i \in 1 .. n : past[i].at \in Nat /\ past[i].window \in Nat /\ past[i].at <= now
  BY <1>2, <1>3 DEF Admissions
<1>5. /\ window[c].start \in Nat /\ window[c].count \in Nat
      /\ window[c].count = Limit /\ now < window[c].start + Window
  <2>1. window[c].start \in Nat /\ window[c].count \in Nat /\ window[c].count <= Limit
    BY <1>2 DEF TypeOK
  <2> QED BY <1>2, <2>1 DEF Refuses, WindowOf
<1>6. /\ Limit <= n
      /\ \A i \in 1 .. n : i > n - Limit => past[i].window = window[c].start
      /\ \A i \in 1 .. n : past[i].window <= past[i].at
  BY <1>5 DEF Limiter, Counted, InWindows
<1> HIDE DEF past, n
<1>7. n - Limit + 1 \in 1 .. n /\ (n - Limit + 1) + Limit - 1 = n /\ n \in 1 .. n
  BY <1>2, <1>6
<1>8. past[n - Limit + 1].at > now - Window
  <2>1. past[n - Limit + 1].window = window[c].start
    BY <1>2, <1>6, <1>7
  <2> QED BY <1>2, <1>4, <1>5, <1>6, <1>7, <2>1
<1>9. past[(n - Limit + 1) + Limit - 1].at <= now
  BY <1>4, <1>7
<1>10. n - Limit + 1 \in 1 .. n - Limit + 1
  BY <1>2, <1>7
<1> QED BY <1>8, <1>9, <1>10 DEF past, n

\* What a request was refused for is not forgotten.
LEMMA OverLimitStays ==
    ASSUME TypeOK, [Next]_vars, NEW r \in Ids, OverLimit(r), asked'[r] = asked[r]
    PROVE  OverLimit(r)'
<1> DEFINE c == asked[r].client
<1>1. c \in Clients /\ Grows(c)
  BY AdmittedGrows DEF TypeOK
<1>2. Limit \in Nat \ {0} /\ Len(admitted[c]) \in Nat
  <2>1. admitted[c] \in Seq(Admissions)
    BY <1>1 DEF TypeOK, Admissions
  <2> QED BY <2>1, LenProperties, ServerAssumption DEF ServerAssumption
<1>3. PICK i \in 1 .. Len(admitted[c]) - Limit + 1 :
         admitted[c][i].at > asked[r].at - Window /\ admitted[c][i + Limit - 1].at <= asked[r].at
  BY DEF OverLimit
<1>4. i \in 1 .. Len(admitted[c]) /\ i + Limit - 1 \in 1 .. Len(admitted[c])
  BY <1>2
<1>5. admitted'[c][i] = admitted[c][i] /\ admitted'[c][i + Limit - 1] = admitted[c][i + Limit - 1]
  BY <1>1, <1>4 DEF Grows
<1>6. Len(admitted'[c]) >= Len(admitted[c]) /\ (Len(admitted'[c]) \in Nat)
  <2>1. TypeOK'
    BY ServerTypeInductive
  <2>2. admitted'[c] \in Seq(Admissions')
    BY <1>1, <2>1 DEF TypeOK, Admissions
  <2> QED BY <1>1, <2>2, LenProperties DEF Grows
<1>7. i \in 1 .. Len(admitted'[c]) - Limit + 1
  BY <1>2, <1>6
<1> QED BY <1>3, <1>5, <1>7 DEF OverLimit

\* A request whose handler has not begun has no status and no task.
Unhandled == \A r \in Ids : stage[r] \in {"unsent", "reading"} => status[r] = 0 /\ task[r] = "none"

\* Every step keeps that.
LEMMA UnhandledInductive ==
    ASSUME TypeOK, Unhandled, [Next]_vars
    PROVE  Unhandled'
<1>3. ASSUME NEW r \in Ids, HandledAs(r)
      PROVE  Unhandled'
  <2>1. stage'[r] \in {"waiting", "answered"}
    BY <1>3, HandlesOne
  <2>2. \A x \in Ids \ {r} : stage'[x] = stage[x] /\ status'[x] = status[x] /\ task'[x] = task[x]
    BY <1>3, HandlesOne
  <2> QED BY <2>1, <2>2 DEF Unhandled
<1> USE DEF Unhandled, TypeOK
<1>1. ASSUME NEW r \in Ids, StartTask(r) \/ EndTask(r) \/ Respond(r) \/ TimeOut(r)
      PROVE  Unhandled'
  <2>1. task[r] # "none" \/ stage[r] = "waiting"
    BY <1>1 DEF StartTask, EndTask, Respond, TimeOut, Waiting
  <2>2. stage[r] \notin {"unsent", "reading"}
    BY <2>1
  <2>3. \A x \in Ids \ {r} : stage'[x] = stage[x] /\ status'[x] = status[x] /\ task'[x] = task[x]
    BY <1>1 DEF StartTask, EndTask, Respond, TimeOut, Answer, requestVars
  <2>4. stage'[r] \in {stage[r], "answered"}
    BY <1>1 DEF StartTask, EndTask, Respond, TimeOut, Answer, requestVars
  <2> QED BY <2>2, <2>3, <2>4
<1>2. ASSUME NEW r \in Ids, Leave(r)
      PROVE  Unhandled'
  BY <1>2 DEF Leave
<1>4. ASSUME NEW r \in Ids, NEW q \in Asks, Arrive(r, q)
      PROVE  Unhandled'
  <2>1. q.form \in Forms
    BY AsksAssumption DEF AsksAssumption
  <2>2. CASE Handle(r, q)
    BY <1>3, <2>1, <2>2, HandleSteps
  <2>3. CASE ~Handle(r, q)
    BY <1>4, <2>3 DEF Arrive, Answer
  <2> QED BY <2>2, <2>3
<1>5. ASSUME NEW r \in Ids, ReadBody(r)
      PROVE  Unhandled'
  <2>1. asked[r].form \in Forms /\ Handle(r, asked[r])
    BY <1>5 DEF ReadBody
  <2> QED BY <1>3, <2>1, HandleSteps
<1>6. CASE Stop
  BY <1>6 DEF Stop, Close, InFlight, Reading, Waiting
<1>7. CASE Serve \/ Shutdown \/ DropRuntime \/ Tick \/ UNCHANGED vars
  BY <1>7 DEF Serve, Shutdown, DropRuntime, Tick, vars, requestVars
<1> QED BY <1>1, <1>2, <1>4, <1>5, <1>6, <1>7 DEF Next

LEMMA UnhandledAlways == Spec => []Unhandled
<1>1. Init => Unhandled
  BY DEF Init, Unhandled
<1> QED BY <1>1, UnhandledInductive, ServerTypeCorrect, PTL DEF Spec

\* At every step, only an over-limit request is answered 429.
LEMMA RefusedInductive ==
    ASSUME TypeOK, Limiter, Unhandled, \A r \in Ids : status[r] = 429 => OverLimit(r), [Next]_vars
    PROVE  (\A r \in Ids : status[r] = 429 => OverLimit(r))'
<1> SUFFICES ASSUME NEW r \in Ids, status'[r] = 429
             PROVE  OverLimit(r)'
  OBVIOUS
<1>1. CASE status'[r] = status[r] /\ asked'[r] = asked[r]
  BY <1>1, OverLimitStays
<1>2. ASSUME NEW q \in Asks, Arrive(r, q)
      PROVE  OverLimit(r)'
  <2>1. q.client \in Clients /\ q.kind \in Kinds /\ q.form \in Forms
    BY AsksAssumption DEF AsksAssumption
  <2>2. status[r] = 0
    BY <1>2 DEF Arrive, Unhandled
  <2>3. Limited(q.kind) /\ Refuses(q.client) /\ admitted' = admitted
    <3>1. ~Handle(r, q)
      <4>1. Handle(r, q) => status'[r] \in {0, 200, 400, 413, 422}
        BY <2>1, <2>2, HandleSteps, HandlesOne
      <4> QED BY <4>1
    <3>2. ~(stage' = [stage EXCEPT ![r] = "reading"] /\ UNCHANGED status)
      BY <2>2
    <3> QED BY <1>2, <3>1, <3>2 DEF Arrive
  <2>4. asked'[r].client = q.client /\ asked'[r].at = now
    BY <1>2 DEF Arrive, TypeOK
  <2> QED BY <2>1, <2>3, <2>4, RefusedNow DEF OverLimit
<1>3. ASSUME NEW x \in Ids, NEW q \in Asks, Arrive(x, q), x # r
      PROVE  status'[r] = status[r] /\ asked'[r] = asked[r]
  BY <1>3 DEF Arrive, Handle, Answer, TypeOK
<1>7. ASSUME NEW x \in Ids, ReadBody(x)
      PROVE  status'[r] = status[r] /\ asked'[r] = asked[r]
  <2>1. asked[x].kind \in Kinds /\ asked[x].form \in Forms /\ Handle(x, asked[x]) /\ asked' = asked
    BY <1>7 DEF ReadBody, TypeOK
  <2>2. HandledAs(x)
    BY <2>1, HandleSteps
  <2>3. status'[r] = status[r] \/ status'[r] \in {200, 400, 413, 422}
    BY <2>2, HandlesOne
  <2> QED BY <2>1, <2>3
<1>4. ASSUME NEW x \in Ids, Respond(x)
      PROVE  status'[r] = status[r] /\ asked'[r] = asked[r]
  <2>1. StatusOf(asked[x].kind, task[x]) # 429
    BY <1>4 DEF Respond, Over, Outcomes, StatusOf
  <2> QED BY <1>4, <2>1 DEF Respond, Answer, TypeOK
<1>5. ASSUME NEW x \in Ids, TimeOut(x)
      PROVE  status'[r] = status[r] /\ asked'[r] = asked[r]
  BY <1>5 DEF TimeOut, Answer, TypeOK
<1>6. ASSUME Serve \/ Shutdown \/ Stop \/ DropRuntime \/ Tick \/ UNCHANGED vars
             \/ \E x \in Ids : StartTask(x) \/ EndTask(x) \/ Leave(x)
      PROVE  status'[r] = status[r] /\ asked'[r] = asked[r]
  BY <1>6 DEF Serve, Shutdown, Stop, Close, DropRuntime, Tick, StartTask, EndTask, Leave, vars, requestVars
<1> QED BY <1>1, <1>2, <1>3, <1>4, <1>5, <1>6, <1>7 DEF Next

\* A request is refused only after its own client had Limit requests admitted
\* within the window before it, however the windows lie.
THEOREM RefusedRightly == Spec => []RefusedOnlyOverLimit
<1> DEFINE Refused == \A r \in Ids : status[r] = 429 => OverLimit(r)
<1>1. Init => Refused
  BY DEF Init
<1>2. TypeOK /\ Limiter /\ Unhandled /\ Refused /\ [Next]_vars => Refused'
  BY RefusedInductive
<1>3. Refused => RefusedOnlyOverLimit
  BY DEF RefusedOnlyOverLimit, OverLimit
<1> HIDE DEF Refused
<1> QED BY <1>1, <1>2, <1>3, ServerTypeCorrect, LimiterAlways, UnhandledAlways, PTL DEF Spec

-----------------------------------------------------------------------------
(* Answers                                                                 *)

\* An answer stays that of the request's own task when any task ends, any
\* timer fires or any client leaves.
LEMMA OwnAnswerInductive ==
    ASSUME TypeOK, Unhandled, OwnAnswer, [Next]_vars
    PROVE  OwnAnswer'
<1> SUFFICES ASSUME NEW r \in Ids, stage'[r] = "answered", task'[r] # "none"
             PROVE  IF Over(r)' THEN (status'[r] = 200 <=> task'[r] = "value") /\ (status'[r] = 400 <=> task'[r] = "fault")
                    ELSE status'[r] = 503 /\ now' >= Deadline(r)'
  BY DEF OwnAnswer
<1> DEFINE Same == UNCHANGED <<stage[r], status[r], asked[r], begun[r]>> /\ now' \in {now, now + 1}
<1>0. now \in Nat /\ begun[r] \in Nat /\ RequestTimeout \in Nat /\ ReadinessTimeout \in Nat
  BY ServerAssumption DEF ServerAssumption, TypeOK
<1>1. CASE Same /\ task'[r] = task[r]
  <2>1. Deadline(r)' = Deadline(r) /\ Deadline(r) \in Nat /\ (Over(r)' <=> Over(r))
    BY <1>0, <1>1 DEF Deadline, Over
  <2> HIDE DEF OwnAnswer
  <2>2. IF Over(r) THEN (status[r] = 200 <=> task[r] = "value") /\ (status[r] = 400 <=> task[r] = "fault")
        ELSE status[r] = 503 /\ now >= Deadline(r)
    BY <1>1 DEF OwnAnswer
  <2> QED BY <1>0, <1>1, <2>1, <2>2
<1>2. CASE Same /\ task[r] \in {"queued", "running"} /\ task'[r] \in {"running", "dropped"}
  <2>1. Deadline(r)' = Deadline(r) /\ Deadline(r) \in Nat /\ ~Over(r)' /\ ~Over(r) /\ task[r] # "none"
    BY <1>0, <1>2 DEF Deadline, Over, Outcomes
  <2>2. status[r] = 503 /\ now >= Deadline(r)
    BY <1>2, <2>1 DEF OwnAnswer
  <2> QED BY <1>0, <1>2, <2>1, <2>2
<1>3. ASSUME NEW x \in Ids, StartTask(x)
      PROVE  Same /\ (task'[r] = task[r] \/ (task[r] = "queued" /\ task'[r] = "running"))
  BY <1>3 DEF StartTask, requestVars, TypeOK
<1>4. ASSUME NEW x \in Ids, EndTask(x)
      PROVE  Same /\ (task'[r] = task[r] \/ (task[r] = "running" /\ task'[r] = "dropped"))
  BY <1>4 DEF EndTask, Waiting, requestVars, TypeOK
<1>5. CASE Respond(r)
  <2>1. Over(r) /\ task' = task /\ status'[r] = StatusOf(asked[r].kind, task[r])
    BY <1>5 DEF Respond, Answer, TypeOK
  <2> QED BY <2>1 DEF Over, Outcomes, StatusOf
<1>6. CASE TimeOut(r)
  BY <1>6 DEF TimeOut, Answer, Over, Deadline, TypeOK
<1>7. ASSUME NEW x \in Ids, x # r, Respond(x) \/ TimeOut(x) \/ Leave(x)
      PROVE  Same /\ task'[r] = task[r]
  BY <1>7 DEF Respond, TimeOut, Leave, Answer, TypeOK
<1>8. ~Leave(r)
  BY DEF Leave, TypeOK
<1>9. ASSUME NEW x \in Ids, NEW q \in Asks, Arrive(x, q)
      PROVE  x # r /\ Same /\ task'[r] = task[r]
  <2>1. x # r
    <3>1. SUFFICES ASSUME x = r PROVE FALSE
      OBVIOUS
    <3>2. task[r] = "none" /\ stage[r] = "unsent"
      BY <1>9, <3>1 DEF Arrive, Unhandled
    <3> QED BY <1>9, <3>1, <3>2 DEF Arrive, Handle, Answer, TypeOK
  <2> QED BY <1>9, <2>1 DEF Arrive, Handle, Answer, TypeOK
<1>12. ASSUME NEW x \in Ids, ReadBody(x)
       PROVE  x # r /\ Same /\ task'[r] = task[r]
  <2>1. x # r
    <3>1. SUFFICES ASSUME x = r PROVE FALSE
      OBVIOUS
    <3>2. task[r] = "none"
      BY <1>12, <3>1 DEF ReadBody, Reading, Unhandled
    <3> QED BY <1>12, <3>1, <3>2 DEF ReadBody, Handle, Answer, TypeOK
  <2> QED BY <1>12, <2>1 DEF ReadBody, Handle, Answer, TypeOK
<1>11. ASSUME Serve \/ Shutdown \/ DropRuntime \/ Tick \/ UNCHANGED vars
       PROVE  Same /\ task'[r] = task[r]
  BY <1>11 DEF Serve, Shutdown, DropRuntime, Tick, vars, requestVars
<1>10. Stop => Same /\ task'[r] = task[r]
  BY DEF Stop, Close, InFlight, Reading, Waiting, TypeOK
<1> HIDE DEF Same
<1> QED BY <1>1, <1>2, <1>3, <1>4, <1>5, <1>6, <1>7, <1>8, <1>9, <1>10, <1>11, <1>12 DEF Next

\* A computed answer is the outcome of the request's own task, or 503 after
\* its own deadline, whatever the tasks of others do.
THEOREM AnswersAreOwn == Spec => []OwnAnswer
<1>1. Init => OwnAnswer
  BY DEF Init, OwnAnswer
<1> QED BY <1>1, OwnAnswerInductive, ServerTypeCorrect, UnhandledAlways, PTL DEF Spec

-----------------------------------------------------------------------------
(* Draining                                                                *)

\* No request waits beyond its deadline, and none is cut off before the server
\* stops.
InTime ==
    /\ \A r \in Waiting : now <= Deadline(r)
    /\ \A r \in Ids : stage[r] = "cut" => phase \in {"dropping", "stopped"}

Drained == InTime /\ NobodyCutOff

\* A handler that begins now is in time.
LEMMA HandledInTime ==
    ASSUME TypeOK, Drained, NEW x \in Ids, HandledAs(x), phase \in {"serving", "draining"}, 
           UNCHANGED <<transport, phase, now, stopAt>>, \A r \in Ids \ {x} : asked'[r] = asked[r]
    PROVE  Drained'
<1>0. now \in Nat /\ RequestTimeout \in Nat /\ ReadinessTimeout \in Nat
  BY ServerAssumption DEF ServerAssumption, TypeOK
<1>1. \A r \in Ids \ {x} : stage'[r] = stage[r] /\ begun'[r] = begun[r] /\ Deadline(r)' = Deadline(r)
  BY HandlesOne DEF Deadline
<1>2. stage'[x] = "answered" \/ (stage'[x] = "waiting" /\ begun'[x] = now)
  BY HandlesOne
<1>3. begun'[x] = now => now <= Deadline(x)'
  BY <1>0 DEF Deadline
<1>4. \A r \in Waiting' : now' <= Deadline(r)'
  BY <1>1, <1>2, <1>3 DEF Drained, InTime, Waiting
<1>5. \A r \in Ids : stage'[r] # "cut"
  BY <1>1, <1>2 DEF Drained, InTime
<1> QED BY <1>4, <1>5 DEF Drained, InTime, NobodyCutOff

\* Every step keeps that, since the clock waits for what is due.
LEMMA DrainedInductive ==
    ASSUME TypeOK, Unhandled, Drained, [Next]_vars
    PROVE  Drained'
<1>0. /\ now \in Nat /\ stopAt \in Nat /\ \A r \in Ids : begun[r] \in Nat
      /\ {RequestTimeout, ReadinessTimeout, DrainTimeout} \subseteq Nat
      /\ ReadinessTimeout <= RequestTimeout /\ RequestTimeout <= DrainTimeout
  BY ServerAssumption DEF ServerAssumption, TypeOK
<1>a. \A r \in Ids : Deadline(r) \in Nat /\ Deadline(r) <= begun[r] + RequestTimeout
  BY <1>0 DEF Deadline
<1>1. ASSUME UNCHANGED <<transport, phase, now, stopAt, asked, begun>>,
             \A r \in Ids : stage'[r] = stage[r] \/ stage'[r] \in {"answered", "gone"},
             \A r \in Ids : task[r] = "none" => task'[r] = "none"
      PROVE  Drained'
  <2>1. \A r \in Ids : Deadline(r)' = Deadline(r) /\ (r \in Waiting' => r \in Waiting)
    BY <1>1 DEF Deadline, Waiting
  <2>2. InTime'
    BY <1>1, <2>1 DEF Drained, InTime, Waiting
  <2> QED BY <1>1, <2>2 DEF Drained, NobodyCutOff
<1>2. CASE \E r \in Ids : StartTask(r) \/ EndTask(r) \/ Respond(r) \/ TimeOut(r) \/ Leave(r)
  <2>1. PICK r \in Ids : StartTask(r) \/ EndTask(r) \/ Respond(r) \/ TimeOut(r) \/ Leave(r)
    BY <1>2
  <2>2. UNCHANGED <<transport, phase, now, stopAt, asked, begun>>
    BY <2>1 DEF StartTask, EndTask, Respond, TimeOut, Leave, requestVars
  <2>3. \/ stage' = stage
        \/ stage' = [stage EXCEPT ![r] = "answered"]
        \/ stage' = [stage EXCEPT ![r] = "gone"]
    BY <2>1 DEF StartTask, EndTask, Respond, TimeOut, Leave, Answer, requestVars
  <2>4. \A x \in Ids : stage'[x] = stage[x] \/ stage'[x] \in {"answered", "gone"}
    BY <2>3 DEF TypeOK
  <2>5. \A x \in Ids : task[x] = "none" => task'[x] = "none"
    BY <2>1 DEF StartTask, EndTask, Respond, TimeOut, Leave, Orphan, Over, Outcomes, TypeOK
  <2> QED BY <1>1, <2>2, <2>4, <2>5
<1>3. CASE UNCHANGED vars
  BY <1>1, <1>3 DEF vars, requestVars
<1>4. CASE Serve
  BY <1>4 DEF Serve, requestVars, Drained, InTime, NobodyCutOff, Waiting, Deadline
<1>5. CASE Shutdown
  <2>1. phase = "serving" /\ UNCHANGED <<transport, now, asked, stage, begun>>
    BY <1>5 DEF Shutdown, requestVars
  <2>2. Waiting' = Waiting /\ \A r \in Waiting : Deadline(r)' = Deadline(r)
    BY <2>1 DEF Waiting, Deadline
  <2>3. \A r \in Ids : stage[r] # "cut"
    BY <2>1 DEF Drained, InTime
  <2> QED BY <2>1, <2>2, <2>3 DEF Drained, InTime, NobodyCutOff
<1>6. CASE DropRuntime
  BY <1>6 DEF DropRuntime, requestVars, Drained, InTime, NobodyCutOff, Waiting, Deadline
<1>7. CASE Tick
  <2>1. now' = now + 1 /\ ~Due /\ UNCHANGED <<transport, phase, asked, stage, begun, task, stopAt>>
    BY <1>7 DEF Tick, requestVars
  <2>2. \A r \in Waiting : now < Deadline(r)
    BY <1>0, <1>a, <2>1 DEF Due, Waiting
  <2>3. Waiting' = Waiting /\ \A r \in Ids : Deadline(r)' = Deadline(r)
    BY <2>1 DEF Waiting, Deadline
  <2>4. \A r \in Waiting : now' <= Deadline(r)
    BY <1>0, <1>a, <2>1, <2>2 DEF Waiting
  <2>5. InTime'
    BY <2>1, <2>3, <2>4 DEF Drained, InTime, Waiting
  <2> QED BY <2>1, <2>5 DEF Drained, NobodyCutOff
<1>8. ASSUME NEW x \in Ids, NEW q \in Asks, Arrive(x, q)
      PROVE  Drained'
  <2>1. /\ phase = "serving" /\ UNCHANGED <<transport, phase, now, stopAt>>
        /\ \A r \in Ids \ {x} : asked'[r] = asked[r]
    BY <1>8 DEF Arrive, TypeOK
  <2>2. CASE Handle(x, q)
    <3>1. q.form \in Forms
      BY AsksAssumption DEF AsksAssumption
    <3> QED BY <2>1, <2>2, <3>1, HandleSteps, HandledInTime
  <2>3. CASE ~Handle(x, q)
    <3>1. /\ stage'[x] \in {"answered", "reading"} /\ begun' = begun
          /\ \A r \in Ids \ {x} : stage'[r] = stage[r]
      BY <1>8, <2>3 DEF Arrive, Answer, TypeOK
    <3>2. \A r \in Waiting' : r \in Waiting /\ Deadline(r)' = Deadline(r)
      BY <2>1, <3>1 DEF Waiting, Deadline
    <3>3. \A r \in Ids : stage'[r] # "cut"
      BY <2>1, <3>1 DEF Drained, InTime
    <3> QED BY <2>1, <3>2, <3>3 DEF Drained, InTime, NobodyCutOff
  <2> QED BY <2>2, <2>3
<1>9. ASSUME NEW x \in Ids, ReadBody(x)
      PROVE  Drained'
  <2>1. asked[x].form \in Forms
    BY DEF TypeOK
  <2>2. /\ Handle(x, asked[x]) /\ phase \in {"serving", "draining"}
        /\ UNCHANGED <<transport, phase, now, stopAt, asked>>
    BY <1>9 DEF ReadBody
  <2> QED BY <2>1, <2>2, HandleSteps, HandledInTime
<1>10. CASE Stop
  <2>1. /\ phase = "draining" /\ DrainDone /\ phase' \in {"stopped", "dropping"}
        /\ stage' = [r \in Ids |-> IF r \in InFlight THEN "cut" ELSE stage[r]]
        /\ task' = [r \in Ids |-> IF r \in InFlight THEN Orphan(r) ELSE task[r]]
        /\ UNCHANGED <<transport, now, asked, stopAt, begun>>
    BY <1>10 DEF Stop, Close
  <2>2. Waiting' = {}
    BY <2>1 DEF InFlight, Waiting
  <2>3. \A r \in Ids : stage[r] # "cut"
    BY <2>1 DEF Drained, InTime
  <2>4. ASSUME transport = "http", NEW r \in Waiting
        PROVE  begun[r] >= stopAt
    <3>1. now >= stopAt + DrainTimeout
      BY <2>1, <2>4 DEF DrainDone, InFlight
    <3>2. r \in Ids /\ now <= Deadline(r)
      BY DEF Drained, InTime, Waiting
    <3>3. begun[r] \in Nat /\ Deadline(r) <= begun[r] + RequestTimeout /\ Deadline(r) \in Nat
      BY <1>0, <1>a, <3>2
    <3> QED BY <1>0, <3>1, <3>2, <3>3
  <2>5. \A r \in Reading : task'[r] = "none"
    BY <2>1 DEF InFlight, Reading, Unhandled, Orphan, Over, Outcomes
  <2>6. \A r \in Ids : stage'[r] = "cut" => r \in Reading \/ r \in Waiting
    BY <2>1, <2>3 DEF InFlight
  <2> QED BY <2>1, <2>2, <2>4, <2>5, <2>6 DEF Drained, InTime, NobodyCutOff
<1> QED BY <1>2, <1>3, <1>4, <1>5, <1>6, <1>7, <1>8, <1>9, <1>10 DEF Next

\* Over HTTP shutdown cuts off no request that was read before it, for every
\* drain that is at least as long as a request's timeout and however late other
\* clients send their bodies.
THEOREM DrainingIsPolite == Spec => []NobodyCutOff
<1>1. Init => Drained
  BY DEF Init, Drained, InTime, NobodyCutOff, Waiting
<1>2. Drained => NobodyCutOff
  BY DEF Drained
<1> QED BY <1>1, <1>2, DrainedInductive, ServerTypeCorrect, UnhandledAlways, PTL DEF Spec
=============================================================================
