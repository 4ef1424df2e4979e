------------------------------- MODULE FxRates -------------------------------
(***************************************************************************)
(* CachedRateProvider of domains/fx_provider.rs: memory (L1), then the     *)
(* cache file (L2), then the chain of network sources behind a circuit     *)
(* breaker, then the stale policy.  Any number of providers share the one  *)
(* cache file: the router's FxDomain, the server's fx tools, the providers *)
(* the library API makes for a single call, and other processes.           *)
(*                                                                         *)
(* All callers of a provider that miss in L1 share one run of its closure  *)
(* (single flight), so a provider has one pc.  The file is replaced in one *)
(* step, as FilePromise says and SnapshotFile refines.                     *)
(***************************************************************************)
EXTENDS Naturals, Sequences

CONSTANTS
    Providers, Processes,
    ProcessOf,      \* the process of a provider
    OneShot,        \* providers made for one call (api/applied.rs)
    StaleAllowed,   \* providers that run with CALNEXUS_FX_ALLOW_STALE=1
    Chain,          \* the sources in the order they are tried
    Oversize,       \* tables too large for L1
    Ttl,            \* CALNEXUS_FX_TTL_HOURS
    Threshold, Cooldown,    \* of the circuit breaker
    MaxTime,        \* bound on the clock
    None,           \* no table
    Missing, Corrupted, Unreadable  \* what else the cache file can be

VARIABLES
    clock,
    file,       \* the cache file: a snapshot or one of Damaged
    pc,         \* per provider: what its closure does next
    l1,         \* per provider: the table in memory or None
    read,       \* per provider: what its closure read from the file
    source,     \* per provider: index of the source it is asking
    fetched,    \* per provider: the table it got and is about to save
    breaker,    \* per provider: circuit breaker
    answer,     \* per provider: the last answer
    failures    \* history, per provider: times of the failed rounds since the last good one

vars == <<clock, file, pc, l1, read, source, fetched, breaker, answer, failures>>

Times     == 0 .. MaxTime
\* A rate table: where it comes from and, which the program forgets, when it was fetched.
Tables    == [from : {Chain[k] : k \in DOMAIN Chain}, at : Times]
Snapshots == [table : Tables, fetched_at : Times]
Damaged   == {Missing, Corrupted, Unreadable}

ASSUME RatesAssumption ==
    /\ ProcessOf \in [Providers -> Processes]
    /\ OneShot \subseteq Providers /\ StaleAllowed \subseteq Providers
    /\ Ttl \in Nat /\ Cooldown \in Nat /\ MaxTime \in Nat
    /\ Threshold \in Nat \ {0}
    /\ Chain \in Seq(STRING) \ {<<>>}
    /\ None \notin Tables /\ Damaged \cap Snapshots = {}

Unasked   == [tag |-> "none"]
Served(t, via) == [tag |-> "ok", table |-> t, via |-> via, age |-> clock - t.at]
Refused(why)   == [tag |-> "err", why |-> why]

Closed == [state |-> "closed", failed |-> 0, since |-> 0]

IsSnapshot(c) == c \notin Damaged
Expired(c)    == clock > c.fetched_at + Ttl

Init ==
    /\ clock = 0
    /\ file \in Damaged \cup [table : [from : {Chain[1]}, at : {0}], fetched_at : {0}]
    /\ pc = [p \in Providers |-> "idle"]
    /\ l1 = [p \in Providers |-> None]
    /\ read = [p \in Providers |-> Missing]
    /\ source = [p \in Providers |-> 1]
    /\ fetched = [p \in Providers |-> None]
    /\ breaker = [p \in Providers |-> Closed]
    /\ answer = [p \in Providers |-> Unasked]
    /\ failures = [p \in Providers |-> <<>>]
-----------------------------------------------------------------------------
GoTo(p, stage) == pc' = [pc EXCEPT ![p] = stage]

\* A table of more bytes than FX_RATES_MAX_ENTRY_BYTES, at 96 a currency, is
\* not admitted to L1.
Fits(table) == table \notin Oversize

\* What L1 keeps of a closure's outcome: a table that fits, wherever it came
\* from; a larger one is served and not kept, and an error is not kept either.
\* Mutant: only fetched tables are kept.
KeptOfFetched(outcome) ==
    IF outcome.tag = "ok" /\ outcome.via = "network" /\ Fits(outcome.table)
    THEN outcome.table ELSE None
Kept(outcome) ==
    IF outcome.tag = "ok" /\ Fits(outcome.table) THEN outcome.table ELSE None

\* The end of a closure.  What it held is gone, and with a one-shot provider so
\* are its memory and its breaker.
Finish(p, outcome, circuit) ==
    /\ answer' = [answer EXCEPT ![p] = outcome]
    /\ l1' = [l1 EXCEPT ![p] = IF p \in OneShot THEN None ELSE Kept(outcome)]
    /\ breaker' = [breaker EXCEPT ![p] = IF p \in OneShot THEN Closed ELSE circuit]
    /\ GoTo(p, "idle")
    /\ read' = [read EXCEPT ![p] = Missing]
    /\ source' = [source EXCEPT ![p] = 1]
    /\ fetched' = [fetched EXCEPT ![p] = None]

\* apply_stale_policy on what the closure read.
StaleOutcome(p) ==
    CASE read[p] = Corrupted -> Refused("cache_unreadable")
      [] read[p] = Missing -> Refused("network_unreachable")
      [] OTHER -> IF p \in StaleAllowed THEN Served(read[p].table, "stale")
                  ELSE Refused("network_unreachable")
-----------------------------------------------------------------------------
\* rates(): L1 has no lifetime.
AskHit(p) ==
    /\ pc[p] = "idle"
    /\ l1[p] # None
    /\ answer' = [answer EXCEPT ![p] = Served(l1[p], "l1")]
    /\ UNCHANGED <<clock, file, pc, l1, read, source, fetched, breaker, failures>>

AskMiss(p) ==
    /\ pc[p] = "idle"
    /\ l1[p] = None
    /\ GoTo(p, "read")
    /\ UNCHANGED <<clock, file, l1, read, source, fetched, breaker, answer, failures>>

\* L2.  A file that cannot be read counts as missing.
\* Mutants: it is told apart; a damaged file is read again.
ReadFileRaw(p) ==
    /\ pc[p] = "read"
    /\ IF IsSnapshot(file) /\ ~Expired(file)
         THEN Finish(p, Served(file.table, "file"), breaker[p])
         ELSE /\ read' = [read EXCEPT ![p] = file]
              /\ GoTo(p, "admit")
              /\ UNCHANGED <<l1, source, fetched, breaker, answer>>
    /\ UNCHANGED <<clock, file, failures>>
ReadFileAgain(p) ==
    /\ pc[p] = "read"
    /\ file # Corrupted
    /\ IF IsSnapshot(file) /\ ~Expired(file)
         THEN Finish(p, Served(file.table, "file"), breaker[p])
         ELSE /\ read' = [read EXCEPT ![p] = IF file = Unreadable THEN Missing ELSE file]
              /\ GoTo(p, "admit")
              /\ UNCHANGED <<l1, source, fetched, breaker, answer>>
    /\ UNCHANGED <<clock, file, failures>>
ReadFile(p) ==
    /\ pc[p] = "read"
    /\ IF IsSnapshot(file) /\ ~Expired(file)
         THEN Finish(p, Served(file.table, "file"), breaker[p])
         ELSE /\ read' = [read EXCEPT ![p] = IF file = Unreadable THEN Missing ELSE file]
              /\ GoTo(p, "admit")
              /\ UNCHANGED <<l1, source, fetched, breaker, answer>>
    /\ UNCHANGED <<clock, file, failures>>

\* The breaker rejects while it is open and cooling, and lets one probe through
\* afterwards.
Cooling(p) == breaker[p].state = "open" /\ clock < breaker[p].since + Cooldown

\* Mutant: the sources are asked without asking the breaker.
AdmitUnasked(p) ==
    /\ pc[p] = "admit"
    /\ GoTo(p, "fetch")
    /\ UNCHANGED <<clock, file, l1, read, source, fetched, breaker, answer, failures>>
Admit(p) ==
    /\ pc[p] = "admit"
    /\ ~Cooling(p)
    /\ GoTo(p, "fetch")
    /\ UNCHANGED <<clock, file, l1, read, source, fetched, breaker, answer, failures>>

Reject(p) ==
    /\ pc[p] = "admit"
    /\ Cooling(p)
    /\ Finish(p, StaleOutcome(p), breaker[p])
    /\ UNCHANGED <<clock, file, failures>>

\* One source of the chain answers, or the next is asked.
FetchOk(p) ==
    /\ pc[p] = "fetch"
    /\ fetched' = [fetched EXCEPT ![p] = [from |-> Chain[source[p]], at |-> clock]]
    /\ breaker' = [breaker EXCEPT ![p] = Closed]
    /\ failures' = [failures EXCEPT ![p] = <<>>]
    /\ GoTo(p, "save")
    /\ UNCHANGED <<clock, file, l1, read, source, answer>>

FetchNext(p) ==
    /\ pc[p] = "fetch"
    /\ source[p] < Len(Chain)
    /\ source' = [source EXCEPT ![p] = @ + 1]
    /\ UNCHANGED <<clock, file, pc, l1, read, fetched, breaker, answer, failures>>

\* The last source has failed: one failure of the whole chain for the breaker.
\* A failed probe opens the circuit again.
AfterFailure(p) ==
    LET b == breaker[p]
        n == b.failed + 1
    IN IF b.state = "open" \/ n >= Threshold
       THEN [state |-> "open", failed |-> 0, since |-> clock]
       ELSE [b EXCEPT !.failed = n]

\* The last Threshold + 1 elements of a sequence.
Recent(s) == IF Len(s) > Threshold + 1 THEN Tail(s) ELSE s

\* Mutant: the stale policy saves what it serves, as if it had been fetched now.
FetchFailRenewing(p) ==
    /\ pc[p] = "fetch"
    /\ source[p] = Len(Chain)
    /\ Finish(p, StaleOutcome(p), AfterFailure(p))
    /\ failures' = [failures EXCEPT ![p] = Recent(Append(@, clock))]
    /\ file' = IF StaleOutcome(p).tag = "ok"
               THEN [table |-> read[p].table, fetched_at |-> clock] ELSE file
    /\ UNCHANGED clock
FetchFail(p) ==
    /\ pc[p] = "fetch"
    /\ source[p] = Len(Chain)
    /\ Finish(p, StaleOutcome(p), AfterFailure(p))
    /\ failures' = [failures EXCEPT ![p] = Recent(Append(@, clock))]
    /\ UNCHANGED <<clock, file>>

\* The table is written back, best effort, and served either way.  The program
\* stamps it right after the fetch; the two moments are taken for one.
Save(p) ==
    /\ pc[p] = "save"
    /\ file' \in {file, [table |-> fetched[p], fetched_at |-> fetched[p].at]}
    /\ Finish(p, Served(fetched[p], "network"), breaker[p])
    /\ UNCHANGED <<clock, failures>>
-----------------------------------------------------------------------------
\* A process is killed and started again.
Restart(proc) ==
    LET lost == {p \in Providers : ProcessOf[p] = proc}
        Reset(f, v) == [p \in Providers |-> IF p \in lost THEN v ELSE f[p]]
    IN /\ pc' = Reset(pc, "idle")
       /\ l1' = Reset(l1, None)
       /\ read' = Reset(read, Missing)
       /\ source' = Reset(source, 1)
       /\ fetched' = Reset(fetched, None)
       /\ breaker' = Reset(breaker, Closed)
       /\ answer' = Reset(answer, Unasked)
       /\ failures' = Reset(failures, <<>>)
       /\ UNCHANGED <<clock, file>>

Tick ==
    /\ clock < MaxTime
    /\ clock' = clock + 1
    /\ UNCHANGED <<file, pc, l1, read, source, fetched, breaker, answer, failures>>

Fetch(p) == FetchOk(p) \/ FetchNext(p) \/ FetchFail(p)
Step(p)  == ReadFile(p) \/ Admit(p) \/ Reject(p) \/ Fetch(p) \/ Save(p)

Next ==
    \/ \E p \in Providers : AskHit(p) \/ AskMiss(p) \/ Step(p)
    \/ \E proc \in Processes : Restart(proc)
    \/ Tick

\* A closure that has begun runs on; HTTP_TIMEOUT ends every request.
Spec == Init /\ [][Next]_vars /\ \A p \in Providers : WF_vars(Step(p))
-----------------------------------------------------------------------------
\* Types of all variables.
Stages == {"idle", "read", "admit", "fetch", "save"}
Answers ==
    {Unasked}
    \cup [tag : {"ok"}, table : Tables, via : {"l1", "file", "network", "stale"}, age : Times]
    \cup [tag : {"err"}, why : {"cache_unreadable", "network_unreachable"}]
Circuits == [state : {"closed", "open"}, failed : 0 .. Threshold, since : Times]

TypeOK ==
    /\ clock \in Times
    /\ file \in Snapshots \cup Damaged
    /\ pc \in [Providers -> Stages]
    /\ l1 \in [Providers -> Tables \cup {None}]
    /\ read \in [Providers -> Snapshots \cup {Missing, Corrupted}]
    /\ source \in [Providers -> DOMAIN Chain]
    /\ fetched \in [Providers -> Tables \cup {None}]
    /\ breaker \in [Providers -> Circuits]
    /\ answer \in [Providers -> Answers]
    /\ failures \in [Providers -> Seq(Times)]

\* Without CALNEXUS_FX_ALLOW_STALE a process takes no table from the file that
\* was fetched longer than the TTL ago, even when it shares the file with
\* processes that accept stale rates, and whatever their failures, saves and
\* restarts have done to it.
NoSilentlyStale ==
    \A p \in Providers \ StaleAllowed :
        answer[p].tag = "ok" /\ answer[p].via \in {"file", "stale"} => answer[p].age <= Ttl

\* An outage does not cost a timeout per call (FAQ: after `threshold` failures
\* in a row the circuit opens for `cooldown`): after the first Threshold failed
\* rounds, a failed round is at least Cooldown later than the one before it.
PacedBy(p) ==
    LET n == Len(failures[p])
    IN n > Threshold => failures[p][n] >= failures[p][n - 1] + Cooldown
OutageIsPaced == \A p \in Providers \ OneShot : PacedBy(p)

\* A process that has had rates keeps having rates until it ends, whatever
\* happens to the network, the breaker and the file.  This is owed only once the
\* table fitted into L1: one that is too large is served and forgotten, and the
\* next ask depends on the file and the network again.
StaysAvailable ==
    [][\A p \in Providers \ OneShot :
         answer[p].tag = "ok" /\ Fits(answer[p].table) => answer'[p].tag # "err"]_vars

\* Every closure ends: with a table, an error, or the end of its process.
EveryAskAnswered == \A p \in Providers : pc[p] # "idle" ~> pc[p] = "idle"

\* README and USER_GUIDE: a snapshot is valid for CALNEXUS_FX_TTL_HOURS; the
\* code gives L1 no lifetime, so this does not hold.
SnapshotsExpire ==
    \A p \in Providers \ StaleAllowed : answer[p].tag = "ok" => answer[p].age <= Ttl
=============================================================================
