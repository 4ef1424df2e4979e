--------------------------- MODULE FxRates_proofs ---------------------------
(***************************************************************************)
(* What TLAPS proves of FxRates for any number of providers, processes and *)
(* sources, any TTL, threshold and cooldown.                               *)
(***************************************************************************)
EXTENDS FxRates, TLAPS

-----------------------------------------------------------------------------
(* Types.  Ages are differences with the clock, so the types need that no  *)
(* table is from the future; and a closure that saves has something.       *)

NoneFromFuture ==
    /\ IsSnapshot(file) => file.table.at <= clock
    /\ \A p \in Providers :
         /\ l1[p] # None => l1[p].at <= clock
         /\ read[p] \in Snapshots => read[p].table.at <= clock
         /\ fetched[p] # None => fetched[p].at <= clock

SavesWhatItGot == \A p \in Providers : pc[p] = "save" => fetched[p] # None

TypeInv == TypeOK /\ NoneFromFuture /\ SavesWhatItGot

\* A served table of the past is an answer.
LEMMA ServedIsAnswer ==
    ASSUME clock \in Times, NEW t \in Tables, t.at <= clock,
           NEW via \in {"l1", "file", "network", "stale"}
    PROVE  /\ Served(t, via) \in Answers
           /\ Served(t, via).tag = "ok" /\ Served(t, via).table = t
           /\ Served(t, via).via = via /\ Served(t, via).age = clock - t.at
  BY RatesAssumption DEF RatesAssumption, Served, Answers, Times, Tables

\* A refusal with one of the two reasons is an answer.
LEMMA RefusedIsAnswer ==
    ASSUME NEW why \in {"cache_unreadable", "network_unreachable"}
    PROVE  Refused(why) \in Answers /\ Refused(why).tag = "err"
  BY DEF Refused, Answers

\* The stale policy answers with an error, or, where it is allowed, with the
\* table that was read.
LEMMA StaleOutcomeIsAnswer ==
    ASSUME TypeInv, NEW p \in Providers
    PROVE  /\ StaleOutcome(p) \in Answers
           /\ \/ StaleOutcome(p).tag = "err"
              \/ /\ p \in StaleAllowed /\ read[p] \in Snapshots
                 /\ StaleOutcome(p) = Served(read[p].table, "stale")
<1>1. CASE read[p] \in {Corrupted, Missing}
  BY <1>1, RefusedIsAnswer DEF StaleOutcome
<1>2. CASE read[p] \notin {Corrupted, Missing}
  <2>1. read[p] \in Snapshots /\ read[p].table \in Tables /\ read[p].table.at <= clock
    BY <1>2 DEF TypeInv, TypeOK, NoneFromFuture, Snapshots
  <2> QED BY <1>2, <2>1, RefusedIsAnswer, ServedIsAnswer DEF StaleOutcome, TypeInv, TypeOK
<1> QED BY <1>1, <1>2

\* The circuit after a failure is one.
LEMMA AfterFailureIsCircuit ==
    ASSUME TypeInv, NEW p \in Providers
    PROVE  AfterFailure(p) \in Circuits
<1>1. /\ breaker[p].state \in {"closed", "open"} /\ breaker[p].failed \in 0 .. Threshold
      /\ breaker[p].since \in Times /\ clock \in Times
      /\ breaker[p] = [state |-> breaker[p].state, failed |-> breaker[p].failed,
                       since |-> breaker[p].since]
  BY DEF TypeInv, TypeOK, Circuits
<1>2. CASE breaker[p].state = "open" \/ breaker[p].failed + 1 >= Threshold
  BY <1>1, <1>2, RatesAssumption DEF RatesAssumption, AfterFailure, Circuits
<1>3. CASE ~(breaker[p].state = "open" \/ breaker[p].failed + 1 >= Threshold)
  <2>1. AfterFailure(p) = [state |-> breaker[p].state, failed |-> breaker[p].failed + 1,
                           since |-> breaker[p].since]
    BY <1>1, <1>3 DEF AfterFailure
  <2> QED BY <1>1, <1>3, <2>1, RatesAssumption DEF RatesAssumption, Circuits
<1> QED BY <1>2, <1>3

\* An answer is no answer yet, a table or an error.
LEMMA AnswerShape ==
    ASSUME NEW a \in Answers
    PROVE  /\ a.tag \in {"none", "ok", "err"}
           /\ a.tag = "ok" => a.table \in Tables /\ a.age \in Times
  BY DEF Answers, Unasked

\* What the end of a closure leaves behind has the right types.
LEMMA FinishTypes ==
    ASSUME TypeInv, NEW p \in Providers, NEW outcome \in Answers, NEW circuit \in Circuits,
           outcome.tag = "ok" => outcome.table.at <= clock,
           Finish(p, outcome, circuit)
    PROVE  /\ pc' \in [Providers -> Stages]
           /\ l1' \in [Providers -> Tables \cup {None}]
           /\ read' \in [Providers -> Snapshots \cup {Missing, Corrupted}]
           /\ source' \in [Providers -> DOMAIN Chain]
           /\ fetched' \in [Providers -> Tables \cup {None}]
           /\ breaker' \in [Providers -> Circuits]
           /\ answer' \in [Providers -> Answers]
           /\ \A q \in Providers :
                /\ l1'[q] # None => l1'[q].at <= clock
                /\ read'[q] \in Snapshots => read'[q].table.at <= clock
                /\ fetched'[q] # None => fetched'[q].at <= clock
                /\ pc'[q] = "save" => fetched'[q] # None
<1>1. Closed \in Circuits /\ 1 \in DOMAIN Chain /\ Missing \notin Snapshots
  BY RatesAssumption DEF RatesAssumption, Closed, Circuits, Times, Tables, Damaged
<1>2. outcome.tag = "ok" => outcome.table \in Tables
  BY AnswerShape
<1>3. Kept(outcome) \in Tables \cup {None} /\ (Kept(outcome) # None => Kept(outcome).at <= clock)
  BY <1>2 DEF Kept
<1> QED BY <1>1, <1>3 DEF Finish, GoTo, Stages, TypeInv, TypeOK, NoneFromFuture, SavesWhatItGot

\* Appending a time to at most Threshold + 1 times and dropping the oldest:
\* the new time is the last, and the one before it is the old last.
LEMMA RecentAppend ==
    ASSUME NEW s \in Seq(Times), NEW t \in Times
    PROVE  /\ Recent(Append(s, t)) \in Seq(Times)
           /\ Len(s) <= Threshold + 1 =>
                LET r == Recent(Append(s, t))
                IN  /\ Len(r) = IF Len(s) = Threshold + 1 THEN Threshold + 1 ELSE Len(s) + 1
                    /\ r[Len(r)] = t
                    /\ Len(s) > 0 => r[Len(r) - 1] = s[Len(s)]
<1> DEFINE a == Append(s, t)
<1>1. /\ a \in Seq(Times) /\ Len(a) = Len(s) + 1 /\ a[Len(s) + 1] = t
      /\ \A i \in 1 .. Len(s) : a[i] = s[i]
      /\ Len(s) \in Nat
  OBVIOUS
<1>2. /\ Tail(a) \in Seq(Times) /\ Len(Tail(a)) = Len(s)
      /\ \A i \in 1 .. Len(s) : Tail(a)[i] = a[i + 1]
  BY <1>1
<1> HIDE DEF a
<1>3. CASE Len(a) > Threshold + 1
  <2>1. Recent(a) = Tail(a) /\ Len(s) > 0
    BY <1>1, <1>3, RatesAssumption DEF RatesAssumption, Recent
  <2>2. Len(s) > 1 => Tail(a)[Len(s) - 1] = a[Len(s)]
    BY <1>1, <1>2
  <2> QED BY <1>1, <1>2, <1>3, <2>1, <2>2, RatesAssumption DEF RatesAssumption, a
<1>4. CASE ~(Len(a) > Threshold + 1)
  <2>1. Recent(a) = a
    BY <1>4 DEF Recent
  <2> QED BY <1>1, <1>4, <2>1, RatesAssumption DEF RatesAssumption, a
<1> QED BY <1>3, <1>4

\* Every step of every provider, every restart and every tick keeps the types.
LEMMA TypeInvInductive ==
    ASSUME TypeInv, [Next]_vars
    PROVE  TypeInv'
<1>t. /\ clock \in Times /\ clock' \in Times /\ clock <= clock'
      /\ \A t \in Tables : t.at <= clock => t.at <= clock'
  <2>1. clock \in Times /\ clock' \in Times /\ clock <= clock'
    BY RatesAssumption DEF RatesAssumption, TypeInv, TypeOK, Next, vars, Step, Fetch, Times,
       AskHit, AskMiss, ReadFile, Admit, Reject, FetchOk, FetchNext, FetchFail, Save, Restart, Tick
  <2> QED BY <2>1, RatesAssumption DEF RatesAssumption, Times, Tables
<1>d. /\ None \notin Tables /\ Missing \notin Snapshots /\ Corrupted \notin Snapshots
      /\ Closed \in Circuits /\ 1 \in DOMAIN Chain
  BY RatesAssumption DEF RatesAssumption, Damaged, Closed, Circuits, Times
<1>1. ASSUME NEW p \in Providers, AskHit(p)
      PROVE  TypeInv'
  <2>1. Served(l1[p], "l1") \in Answers
    BY <1>1, ServedIsAnswer DEF AskHit, TypeInv, TypeOK, NoneFromFuture
  <2> QED BY <1>1, <2>1 DEF AskHit, TypeInv, TypeOK, NoneFromFuture, SavesWhatItGot
<1>2. ASSUME NEW p \in Providers, AskMiss(p)
      PROVE  TypeInv'
  BY <1>2 DEF AskMiss, GoTo, TypeInv, TypeOK, NoneFromFuture, SavesWhatItGot, Stages
<1>3. ASSUME NEW p \in Providers, ReadFile(p)
      PROVE  TypeInv'
  <2>1. CASE IsSnapshot(file) /\ ~Expired(file)
    <3>1. file \in Snapshots /\ file.table \in Tables /\ file.table.at <= clock
      BY <2>1 DEF TypeInv, TypeOK, NoneFromFuture, IsSnapshot, Damaged, Snapshots
    <3>2. /\ Served(file.table, "file") \in Answers
          /\ Served(file.table, "file").table = file.table
      BY <3>1, <1>t, ServedIsAnswer
    <3>3. Finish(p, Served(file.table, "file"), breaker[p])
      BY <1>3, <2>1 DEF ReadFile
    <3>4. breaker[p] \in Circuits
      BY DEF TypeInv, TypeOK
    <3> QED BY <1>3, <3>1, <3>2, <3>3, <3>4, FinishTypes
            DEF ReadFile, TypeInv, TypeOK, NoneFromFuture, SavesWhatItGot
  <2>2. CASE ~(IsSnapshot(file) /\ ~Expired(file))
    <3>1. /\ read' = [read EXCEPT ![p] = IF file = Unreadable THEN Missing ELSE file]
          /\ pc' = [pc EXCEPT ![p] = "admit"]
          /\ UNCHANGED <<clock, file, l1, source, fetched, breaker, answer, failures>>
      BY <1>3, <2>2 DEF ReadFile, GoTo
    <3>2. read' \in [Providers -> Snapshots \cup {Missing, Corrupted}]
      BY <3>1 DEF TypeInv, TypeOK, Damaged
    <3>3. \A q \in Providers : read'[q] \in Snapshots => read'[q].table.at <= clock
      BY <3>1, <1>d DEF TypeInv, TypeOK, NoneFromFuture, IsSnapshot, Damaged
    <3> QED BY <3>1, <3>2, <3>3 DEF TypeInv, TypeOK, NoneFromFuture, SavesWhatItGot, Stages
  <2> QED BY <2>1, <2>2
<1>4. ASSUME NEW p \in Providers, Admit(p)
      PROVE  TypeInv'
  BY <1>4 DEF Admit, GoTo, TypeInv, TypeOK, NoneFromFuture, SavesWhatItGot, Stages
<1>5. ASSUME NEW p \in Providers, NEW circuit \in Circuits,
             Finish(p, StaleOutcome(p), circuit), UNCHANGED <<clock, file>>,
             failures' \in [Providers -> Seq(Times)]
      PROVE  TypeInv'
  <2>1. /\ StaleOutcome(p) \in Answers
        /\ StaleOutcome(p).tag = "ok" => StaleOutcome(p).table.at <= clock
    <3>1. CASE StaleOutcome(p).tag = "err"
      BY <3>1, StaleOutcomeIsAnswer
    <3>2. CASE /\ read[p] \in Snapshots
               /\ StaleOutcome(p) = Served(read[p].table, "stale")
      BY <3>2, <1>t, ServedIsAnswer DEF TypeInv, NoneFromFuture, Snapshots
    <3> QED BY <3>1, <3>2, StaleOutcomeIsAnswer
  <2> QED BY <1>5, <2>1, FinishTypes DEF TypeInv, TypeOK, NoneFromFuture, SavesWhatItGot
<1>6. ASSUME NEW p \in Providers, Reject(p)
      PROVE  TypeInv'
  <2>1. breaker[p] \in Circuits /\ failures' \in [Providers -> Seq(Times)]
    BY <1>6 DEF Reject, TypeInv, TypeOK
  <2> QED BY <1>5, <1>6, <2>1 DEF Reject
<1>7. ASSUME NEW p \in Providers, FetchOk(p)
      PROVE  TypeInv'
  <2> DEFINE t == [from |-> Chain[source[p]], at |-> clock]
  <2>1. t \in Tables /\ t.at <= clock
    BY <1>t, RatesAssumption DEF RatesAssumption, Tables, TypeInv, TypeOK, Times
  <2> HIDE DEF t
  <2>2. /\ fetched' = [fetched EXCEPT ![p] = t]
        /\ breaker' = [breaker EXCEPT ![p] = Closed]
        /\ failures' = [failures EXCEPT ![p] = <<>>]
        /\ pc' = [pc EXCEPT ![p] = "save"]
        /\ UNCHANGED <<clock, file, l1, read, source, answer>>
    BY <1>7 DEF FetchOk, GoTo, t
  <2> QED BY <1>d, <2>1, <2>2 DEF TypeInv, TypeOK, NoneFromFuture, SavesWhatItGot, Stages
<1>8. ASSUME NEW p \in Providers, FetchNext(p)
      PROVE  TypeInv'
  BY <1>8, RatesAssumption
  DEF RatesAssumption, FetchNext, TypeInv, TypeOK, NoneFromFuture, SavesWhatItGot
<1>9. ASSUME NEW p \in Providers, FetchFail(p)
      PROVE  TypeInv'
  <2>1. failures' \in [Providers -> Seq(Times)]
    BY <1>9, <1>t, RecentAppend DEF FetchFail, TypeInv, TypeOK
  <2> QED BY <1>5, <1>9, <2>1, AfterFailureIsCircuit DEF FetchFail
<1>10. ASSUME NEW p \in Providers, Save(p)
       PROVE  TypeInv'
  <2>1. fetched[p] \in Tables /\ fetched[p].at <= clock
    BY <1>10 DEF Save, TypeInv, TypeOK, NoneFromFuture, SavesWhatItGot
  <2>2. /\ Served(fetched[p], "network") \in Answers
        /\ Served(fetched[p], "network").table = fetched[p]
    BY <2>1, <1>t, ServedIsAnswer
  <2>3. Finish(p, Served(fetched[p], "network"), breaker[p]) /\ breaker[p] \in Circuits
    BY <1>10 DEF Save, TypeInv, TypeOK
  <2>4. file' \in Snapshots \cup Damaged /\ (IsSnapshot(file') => file'.table.at <= clock)
    BY <1>10, <2>1 DEF Save, Snapshots, Tables, IsSnapshot, TypeInv, TypeOK, NoneFromFuture
  <2> QED BY <1>10, <2>1, <2>2, <2>3, <2>4, FinishTypes
          DEF Save, IsSnapshot, TypeInv, TypeOK, NoneFromFuture, SavesWhatItGot
<1>11. ASSUME NEW proc \in Processes, Restart(proc)
       PROVE  TypeInv'
  <2>1. Unasked \in Answers
    BY DEF Answers
  <2> QED BY <1>11, <1>d, <2>1 DEF Restart, TypeInv, TypeOK, NoneFromFuture, SavesWhatItGot, Stages
<1>12. CASE Tick
  <2>1. UNCHANGED <<file, pc, l1, read, source, fetched, breaker, answer, failures>>
    BY <1>12 DEF Tick
  <2>2. IsSnapshot(file) => file.table \in Tables
    BY DEF TypeInv, TypeOK, IsSnapshot, Snapshots
  <2>3. \A p \in Providers : read[p] \in Snapshots => read[p].table \in Tables
    BY DEF Snapshots
  <2> QED BY <1>t, <2>1, <2>2, <2>3 DEF TypeInv, TypeOK, NoneFromFuture, SavesWhatItGot
<1>13. CASE UNCHANGED vars
  BY <1>13 DEF vars, TypeInv, TypeOK, NoneFromFuture, SavesWhatItGot
<1> QED BY <1>1, <1>2, <1>3, <1>4, <1>6, <1>7, <1>8, <1>9, <1>10, <1>11, <1>12, <1>13
        DEF Next, Step, Fetch

\* The types are always right.
LEMMA TypeInvCorrect == Spec => []TypeInv
<1>1. Init => TypeInv
  BY RatesAssumption
  DEF RatesAssumption, Init, TypeInv, TypeOK, NoneFromFuture, SavesWhatItGot, Times, Tables,
      Snapshots, Damaged, IsSnapshot, Closed, Circuits, Answers, Stages
<1> QED BY <1>1, TypeInvInductive, PTL DEF Spec

\* TypeOK for any providers, processes and sources.
THEOREM TypeCorrect == Spec => []TypeOK
<1>1. TypeInv => TypeOK
  BY DEF TypeInv
<1> QED BY <1>1, TypeInvCorrect, PTL

-----------------------------------------------------------------------------
(* Freshness.  The stamp of the file is the age of its table, whoever saved *)
(* it, so a file that has not expired holds a table within the TTL.         *)

StampedTruly == IsSnapshot(file) => file.fetched_at = file.table.at

Fresh == StampedTruly /\ NoSilentlyStale

\* An answer that is not changed, or changed into one that is not from the
\* file, keeps a strict provider fresh.
LEMMA FreshKept ==
    ASSUME Fresh, NEW p \in Providers, NEW outcome, TypeInv,
           answer' = [answer EXCEPT ![p] = outcome],
           p \notin StaleAllowed /\ outcome.tag = "ok" /\ outcome.via \in {"file", "stale"} =>
               outcome.age <= Ttl
    PROVE  NoSilentlyStale'
  BY DEF Fresh, NoSilentlyStale, TypeInv, TypeOK

\* Every step keeps the stamp and the strict providers fresh.
LEMMA FreshInductive ==
    ASSUME TypeInv, Fresh, [Next]_vars
    PROVE  Fresh'
<1>1. ASSUME NEW p \in Providers, AskHit(p)
      PROVE  Fresh'
  <2>1. answer' = [answer EXCEPT ![p] = Served(l1[p], "l1")] /\ UNCHANGED file
    BY <1>1 DEF AskHit
  <2> QED BY <2>1, FreshKept DEF Fresh, StampedTruly, IsSnapshot, Served
<1>2. ASSUME NEW p \in Providers, ReadFile(p)
      PROVE  Fresh'
  <2>1. CASE IsSnapshot(file) /\ ~Expired(file)
    <3>1. /\ file.fetched_at = file.table.at /\ file.table.at \in Times /\ clock \in Times
          /\ clock - file.table.at <= Ttl
      BY <2>1, RatesAssumption
      DEF RatesAssumption, Fresh, StampedTruly, Expired, TypeInv, TypeOK, IsSnapshot, Snapshots,
          Tables, Times
    <3>2. answer' = [answer EXCEPT ![p] = Served(file.table, "file")] /\ UNCHANGED file
      BY <1>2, <2>1 DEF ReadFile, Finish
    <3> QED BY <3>1, <3>2, FreshKept DEF Fresh, StampedTruly, IsSnapshot, Served
  <2>2. CASE ~(IsSnapshot(file) /\ ~Expired(file))
    BY <1>2, <2>2 DEF ReadFile, Fresh, StampedTruly, IsSnapshot, NoSilentlyStale
  <2> QED BY <2>1, <2>2
<1>3. ASSUME NEW p \in Providers, NEW circuit, Finish(p, StaleOutcome(p), circuit), UNCHANGED file
      PROVE  Fresh'
  <2>1. answer' = [answer EXCEPT ![p] = StaleOutcome(p)]
    BY <1>3 DEF Finish
  <2>2. p \notin StaleAllowed => StaleOutcome(p).tag # "ok"
    BY StaleOutcomeIsAnswer
  <2> QED BY <1>3, <2>1, <2>2, FreshKept DEF Fresh, StampedTruly, IsSnapshot
<1>4. ASSUME NEW p \in Providers, Save(p)
      PROVE  Fresh'
  <2>1. answer' = [answer EXCEPT ![p] = Served(fetched[p], "network")]
    BY <1>4 DEF Save, Finish
  <2>2. StampedTruly'
    BY <1>4 DEF Save, Fresh, StampedTruly, IsSnapshot
  <2> QED BY <2>1, <2>2, FreshKept DEF Fresh, Served
<1>5. ASSUME NEW proc \in Processes, Restart(proc)
      PROVE  Fresh'
  BY <1>5 DEF Restart, Fresh, StampedTruly, IsSnapshot, NoSilentlyStale, Unasked
<1>6. ASSUME UNCHANGED <<file, answer>>
      PROVE  Fresh'
  BY <1>6 DEF Fresh, StampedTruly, IsSnapshot, NoSilentlyStale
<1> QED BY <1>1, <1>2, <1>3, <1>4, <1>5, <1>6
        DEF Next, Step, Fetch, AskMiss, Admit, Reject, FetchOk, FetchNext, FetchFail, Tick, vars

\* NoSilentlyStale: without CALNEXUS_FX_ALLOW_STALE no table from the file is
\* older than the TTL when it is taken, whoever else writes the file.
THEOREM NoSilentlyStaleCorrect == Spec => []NoSilentlyStale
<1>1. Init => Fresh
  BY DEF Init, Fresh, StampedTruly, IsSnapshot, NoSilentlyStale, Unasked
<1>2. TypeInv /\ Fresh /\ [Next]_vars => Fresh'
  BY FreshInductive
<1>3. Fresh => NoSilentlyStale
  BY DEF Fresh
<1> QED BY <1>1, <1>2, <1>3, TypeInvCorrect, PTL DEF Spec

-----------------------------------------------------------------------------
(* Availability.  A provider that has answered with a table that fits has  *)
(* one in L1 and nothing running.                                          *)

HasRates ==
    \A p \in Providers \ OneShot :
        answer[p].tag = "ok" /\ Fits(answer[p].table) => pc[p] = "idle" /\ l1[p] # None

\* The end of a closure fills L1 if it answers with a table that fits.
LEMMA HasRatesFinish ==
    ASSUME TypeInv, HasRates, NEW p \in Providers, NEW outcome, NEW circuit,
           outcome.tag = "ok" => outcome.table \in Tables,
           Finish(p, outcome, circuit)
    PROVE  HasRates'
<1>1. outcome.tag = "ok" /\ Fits(outcome.table) => Kept(outcome) # None
  BY RatesAssumption DEF RatesAssumption, Kept
<1> QED BY <1>1 DEF Finish, GoTo, HasRates, TypeInv, TypeOK

\* Every step keeps the rates of those that have answered.
LEMMA HasRatesInductive ==
    ASSUME TypeInv, HasRates, [Next]_vars
    PROVE  HasRates'
<1>1. ASSUME NEW p \in Providers, AskHit(p)
      PROVE  HasRates'
  BY <1>1 DEF AskHit, HasRates, TypeInv, TypeOK
<1>2. ASSUME NEW p \in Providers, AskMiss(p)
      PROVE  HasRates'
  BY <1>2 DEF AskMiss, GoTo, HasRates, TypeInv, TypeOK
<1>3. ASSUME NEW p \in Providers, ReadFile(p)
      PROVE  HasRates'
  <2>1. CASE IsSnapshot(file) /\ ~Expired(file)
    <3>1. file.table \in Tables /\ Finish(p, Served(file.table, "file"), breaker[p])
      BY <1>3, <2>1 DEF ReadFile, TypeInv, TypeOK, IsSnapshot, Snapshots
    <3>2. Served(file.table, "file").table = file.table
      BY DEF Served
    <3> QED BY <3>1, <3>2, HasRatesFinish
  <2>2. CASE ~(IsSnapshot(file) /\ ~Expired(file))
    BY <1>3, <2>2 DEF ReadFile, GoTo, HasRates, TypeInv, TypeOK
  <2> QED BY <2>1, <2>2
<1>4. ASSUME NEW p \in Providers, NEW circuit, Finish(p, StaleOutcome(p), circuit)
      PROVE  HasRates'
  <2>1. StaleOutcome(p).tag = "ok" => StaleOutcome(p).table \in Tables
    BY StaleOutcomeIsAnswer DEF Served, Snapshots
  <2> QED BY <1>4, <2>1, HasRatesFinish
<1>5. ASSUME NEW p \in Providers, Save(p)
      PROVE  HasRates'
  <2>1. fetched[p] \in Tables /\ Finish(p, Served(fetched[p], "network"), breaker[p])
    BY <1>5 DEF Save, TypeInv, TypeOK, SavesWhatItGot
  <2>2. Served(fetched[p], "network").table = fetched[p]
    BY DEF Served
  <2> QED BY <2>1, <2>2, HasRatesFinish
<1>6. ASSUME NEW proc \in Processes, Restart(proc)
      PROVE  HasRates'
  BY <1>6 DEF Restart, HasRates, Unasked
<1>7. ASSUME NEW p \in Providers, Admit(p) \/ FetchOk(p) \/ FetchNext(p)
      PROVE  HasRates'
  BY <1>7 DEF Admit, FetchOk, FetchNext, GoTo, HasRates, TypeInv, TypeOK
<1>8. CASE Tick \/ UNCHANGED vars
  BY <1>8 DEF Tick, vars, HasRates
<1> QED BY <1>1, <1>2, <1>3, <1>4, <1>5, <1>6, <1>7, <1>8
        DEF Next, Step, Fetch, Reject, FetchFail

\* StaysAvailable: rates once had, in a table that fits into L1, are never
\* followed by an error, except through the end of the process.
THEOREM StaysAvailableCorrect == Spec => StaysAvailable
<1>1. Init => HasRates
  BY DEF Init, HasRates, Unasked
<1>2. TypeInv /\ HasRates /\ [Next]_vars => HasRates'
  BY HasRatesInductive
<1>3. ASSUME TypeInv, HasRates, [Next]_vars
      PROVE  [\A p \in Providers \ OneShot :
                 answer[p].tag = "ok" /\ Fits(answer[p].table) => answer'[p].tag # "err"]_vars
  <2> SUFFICES ASSUME NEW p \in Providers \ OneShot, answer[p].tag = "ok", Fits(answer[p].table), Next
               PROVE  answer'[p].tag # "err"
    BY <1>3
  <2>1. pc[p] = "idle" /\ l1[p] # None
    BY <1>3 DEF HasRates
  <2>2. CASE AskHit(p)
    BY <1>3, <2>2 DEF AskHit, Served, TypeInv, TypeOK
  <2>3. CASE AskMiss(p) \/ Step(p)
    BY <2>1, <2>3 DEF AskMiss, Step, Fetch, ReadFile, Admit, Reject, FetchOk, FetchNext,
       FetchFail, Save
  <2>4. ASSUME NEW q \in Providers, q # p, AskHit(q) \/ AskMiss(q) \/ Step(q)
        PROVE  answer'[p] = answer[p]
    BY <1>3, <2>4 DEF AskHit, AskMiss, Step, Fetch, ReadFile, Admit, Reject, FetchOk,
       FetchNext, FetchFail, Save, Finish, TypeInv, TypeOK
  <2>5. ASSUME NEW proc \in Processes, Restart(proc)
        PROVE  answer'[p] \in {answer[p], Unasked}
    BY <2>5 DEF Restart
  <2>6. CASE Tick
    BY <2>6 DEF Tick
  <2> QED BY <2>2, <2>3, <2>4, <2>5, <2>6 DEF Next, Unasked
<1> QED BY <1>1, <1>2, <1>3, TypeInvCorrect, PTL DEF Spec, StaysAvailable

-----------------------------------------------------------------------------
(* Outages.  The breaker of a provider that outlives its calls agrees with *)
(* the history of its failed rounds: closed, it has counted all of them;   *)
(* open, it was opened by the last one, and a round that is running was    *)
(* admitted after the cooldown.                                            *)

Counted(p) ==
    LET n == Len(failures[p])
    IN  /\ n <= Threshold + 1
        /\ breaker[p].state = "closed" => n = breaker[p].failed /\ n < Threshold
        /\ breaker[p].state = "open" =>
              /\ n >= Threshold
              /\ breaker[p].since = failures[p][n]
              /\ pc[p] = "fetch" => clock >= breaker[p].since + Cooldown

Paced == \A p \in Providers \ OneShot : Counted(p) /\ PacedBy(p)

\* Counted and PacedBy depend on nothing but these four.
LEMMA PacedFrame ==
    ASSUME NEW p \in Providers, Counted(p), PacedBy(p),
           breaker'[p] = breaker[p], failures'[p] = failures[p],
           pc'[p] = "fetch" => pc[p] = "fetch",
           TypeInv, TypeInv', clock <= clock'
    PROVE  Counted(p)' /\ PacedBy(p)'
  BY RatesAssumption DEF RatesAssumption, Counted, PacedBy, TypeInv, TypeOK, Circuits, Times

\* With an empty history and a closed breaker, all is paced.
LEMMA PacedAfresh ==
    ASSUME NEW p \in Providers, breaker'[p] = Closed, failures'[p] = <<>>
    PROVE  Counted(p)' /\ PacedBy(p)'
  BY RatesAssumption DEF RatesAssumption, Counted, PacedBy, Closed

\* A failed round that was admitted keeps the pace.
LEMMA PacedFailure ==
    ASSUME TypeInv, NEW p \in Providers, Counted(p), PacedBy(p),
           pc[p] = "fetch", pc'[p] = "idle",
           breaker'[p] = AfterFailure(p), failures'[p] = Recent(Append(failures[p], clock))
    PROVE  Counted(p)' /\ PacedBy(p)'
<1> DEFINE n == Len(failures[p])
           r == Recent(Append(failures[p], clock))
<1>1. /\ failures[p] \in Seq(Times) /\ clock \in Times /\ n \in Nat /\ n <= Threshold + 1
      /\ breaker[p] \in Circuits
  BY DEF TypeInv, TypeOK, Counted
<1>2. /\ Len(r) = IF n = Threshold + 1 THEN Threshold + 1 ELSE n + 1
      /\ r[Len(r)] = clock
      /\ n > 0 => r[Len(r) - 1] = failures[p][n]
  BY <1>1, RecentAppend
<1>3. CASE breaker[p].state = "open"
  <2>1. /\ n >= Threshold /\ breaker[p].since = failures[p][n]
        /\ clock >= breaker[p].since + Cooldown
    BY <1>3 DEF Counted
  <2>2. breaker'[p].state = "open" /\ breaker'[p].since = clock
    BY <1>3 DEF AfterFailure
  <2> QED BY <1>1, <1>2, <2>1, <2>2, RatesAssumption DEF RatesAssumption, Counted, PacedBy
<1>4. CASE breaker[p].state = "closed"
  <2>1. n = breaker[p].failed /\ n < Threshold
    BY <1>4 DEF Counted
  <2>2. CASE n + 1 >= Threshold
    <3>1. breaker'[p].state = "open" /\ breaker'[p].since = clock
      BY <1>4, <2>1, <2>2 DEF AfterFailure
    <3> QED BY <1>1, <1>2, <2>1, <2>2, <3>1, RatesAssumption DEF RatesAssumption, Counted, PacedBy
  <2>3. CASE n + 1 < Threshold
    <3>1. breaker'[p].state = "closed" /\ breaker'[p].failed = n + 1
      BY <1>1, <1>4, <2>1, <2>3, RatesAssumption DEF RatesAssumption, AfterFailure, Circuits
    <3> QED BY <1>1, <1>2, <2>1, <2>3, <3>1, RatesAssumption DEF RatesAssumption, Counted, PacedBy
  <2> QED BY <1>1, <2>2, <2>3, RatesAssumption DEF RatesAssumption
<1> QED BY <1>1, <1>3, <1>4 DEF Circuits

LEMMA ClockIsNat == TypeInv => clock \in Nat
  BY RatesAssumption DEF RatesAssumption, TypeInv, TypeOK, Times

\* Every step keeps the pace.
LEMMA PacedInductive ==
    ASSUME TypeInv, TypeInv', Paced, [Next]_vars
    PROVE  Paced'
<1> SUFFICES ASSUME NEW p \in Providers \ OneShot
             PROVE  Counted(p)' /\ PacedBy(p)'
  BY DEF Paced
<1>1. Counted(p) /\ PacedBy(p)
  BY DEF Paced
<1>2. ASSUME breaker'[p] = breaker[p], failures'[p] = failures[p],
             pc'[p] = "fetch" => pc[p] = "fetch", clock' = clock
      PROVE  Counted(p)' /\ PacedBy(p)'
  <2>1. clock <= clock'
    BY <1>2, ClockIsNat
  <2>2. p \in Providers
    OBVIOUS
  <2> QED BY <1>1, <1>2, <2>1, <2>2, PacedFrame
<1>3. ASSUME NEW outcome, Finish(p, outcome, breaker[p]), failures' = failures, clock' = clock
      PROVE  Counted(p)' /\ PacedBy(p)'
  <2>1. breaker'[p] = breaker[p] /\ pc'[p] = "idle"
    BY <1>3 DEF Finish, GoTo, TypeInv, TypeOK
  <2> QED BY <1>2, <1>3, <2>1
<1>4. CASE AskHit(p) \/ AskMiss(p) \/ FetchNext(p)
  BY <1>2, <1>4 DEF AskHit, AskMiss, FetchNext, GoTo, TypeInv, TypeOK
<1>5. CASE ReadFile(p)
  <2>1. CASE IsSnapshot(file) /\ ~Expired(file)
    BY <1>3, <1>5, <2>1 DEF ReadFile
  <2>2. CASE ~(IsSnapshot(file) /\ ~Expired(file))
    BY <1>2, <1>5, <2>2 DEF ReadFile, GoTo, TypeInv, TypeOK
  <2> QED BY <2>1, <2>2
<1>6. CASE Admit(p)
  <2>1. /\ pc'[p] = "fetch" /\ UNCHANGED <<clock, breaker, failures>>
        /\ breaker[p].state = "open" => ~(clock < breaker[p].since + Cooldown)
    BY <1>6 DEF Admit, Cooling, GoTo, TypeInv, TypeOK
  <2>2. breaker[p] \in Circuits /\ clock \in Times
    BY DEF TypeInv, TypeOK
  <2> QED BY <1>1, <2>1, <2>2, RatesAssumption
          DEF RatesAssumption, Counted, PacedBy, Circuits, Times
<1>7. CASE Reject(p)
  BY <1>3, <1>7 DEF Reject
<1>8. CASE FetchOk(p)
  <2>1. breaker'[p] = Closed /\ failures'[p] = <<>>
    BY <1>8 DEF FetchOk, TypeInv, TypeOK
  <2> QED BY <2>1, PacedAfresh
<1>9. CASE FetchFail(p)
  <2>1. /\ pc[p] = "fetch" /\ pc'[p] = "idle" /\ breaker'[p] = AfterFailure(p)
        /\ failures'[p] = Recent(Append(failures[p], clock))
    BY <1>9 DEF FetchFail, Finish, GoTo, TypeInv, TypeOK
  <2> QED BY <1>1, <2>1, PacedFailure
<1>10. CASE Save(p)
  BY <1>3, <1>10 DEF Save
<1>11. ASSUME NEW q \in Providers, q # p, AskHit(q) \/ AskMiss(q) \/ Step(q)
       PROVE  Counted(p)' /\ PacedBy(p)'
  <2>1. pc'[p] = pc[p] /\ breaker'[p] = breaker[p] /\ failures'[p] = failures[p] /\ clock' = clock
    BY <1>11 DEF AskHit, AskMiss, Step, Fetch, ReadFile, Admit, Reject, FetchOk, FetchNext,
       FetchFail, Save, Finish, GoTo, TypeInv, TypeOK
  <2> QED BY <1>2, <2>1
<1>12. ASSUME NEW proc \in Processes, Restart(proc)
       PROVE  Counted(p)' /\ PacedBy(p)'
  <2>1. CASE ProcessOf[p] = proc
    <3>1. breaker'[p] = Closed /\ failures'[p] = <<>>
      BY <1>12, <2>1 DEF Restart
    <3> QED BY <3>1, PacedAfresh
  <2>2. CASE ProcessOf[p] # proc
    BY <1>2, <1>12, <2>2 DEF Restart
  <2> QED BY <2>1, <2>2
<1>13. CASE Tick
  <2>1. clock <= clock' /\ UNCHANGED <<breaker, failures, pc>>
    BY <1>13, ClockIsNat DEF Tick
  <2>2. p \in Providers
    OBVIOUS
  <2> QED BY <1>1, <2>1, <2>2, PacedFrame
<1>14. CASE UNCHANGED vars
  BY <1>2, <1>14 DEF vars
<1> QED BY <1>4, <1>5, <1>6, <1>7, <1>8, <1>9, <1>10, <1>11, <1>12, <1>13, <1>14
        DEF Next, Step, Fetch

\* OutageIsPaced: for any threshold and cooldown, after the first Threshold
\* failed rounds in a row a provider pays for the next one a cooldown later at
\* the earliest, failed probes included.
THEOREM OutageIsPacedCorrect == Spec => []OutageIsPaced
<1>1. Init => Paced
  <2> SUFFICES ASSUME Init, NEW p \in Providers \ OneShot
               PROVE  Counted(p) /\ PacedBy(p)
    BY DEF Paced
  <2>1. failures[p] = <<>> /\ breaker[p] = [state |-> "closed", failed |-> 0, since |-> 0]
    BY DEF Init, Closed
  <2>2. Len(failures[p]) = 0 /\ breaker[p].state = "closed" /\ breaker[p].failed = 0
    BY <2>1
  <2> QED BY <2>2, RatesAssumption DEF RatesAssumption, Counted, PacedBy
<1>2. TypeInv /\ TypeInv' /\ Paced /\ [Next]_vars => Paced'
  BY PacedInductive
<1>3. Paced => OutageIsPaced
  BY DEF Paced, OutageIsPaced
<1> QED BY <1>1, <1>2, <1>3, TypeInvCorrect, PTL DEF Spec
=============================================================================
