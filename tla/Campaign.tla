------------------------------ MODULE Campaign ------------------------------
(***************************************************************************)
(* src/tools/flight-tune: one Tuner that drives a simulator and a vehicle  *)
(* through training, promotion and final qualification, and records every  *)
(* step in the journal before or after it happens.  Each append and each   *)
(* call into an adapter is a step; between any two of them the process may *)
(* die, and a later open resumes from the durable chain and from what the  *)
(* adapters still hold.                                                    *)
(***************************************************************************)
EXTENDS Journal, Naturals, FiniteSets

CONSTANTS Initial,      \* the released candidate
          Challengers,  \* candidates a strategy may propose
          Suites, FirstSuite,
          Runs,         \* runs in an attempt plan
          Limit,        \* execution_retry_limit
          None,
          MaxMishaps    \* bound: failed calls and appends, crashes

ASSUME CampaignAssumption ==
    /\ Initial \notin Challengers /\ None \notin Challengers \cup {Initial} \cup Suites
    /\ FirstSuite \in Suites
    /\ Runs \in Nat \ {0} /\ Limit \in Nat /\ MaxMishaps \in Nat

VARIABLES pc,        \* the next step of the call under way
          op,        \* that call
          answer,    \* how the last call ended
          live,      \* the current run was started by this process
          aim, sound,\* semantic outcome of the run, and of its containment
          result,    \* what the attempt reports to its caller
          left,      \* challengers this call may still evaluate
          proposal,  \* the challenger this call is working towards
          sessions, bindings,  \* simulator sessions and vehicle bindings held
          mounted,   \* the candidate on the vehicle
          evidence,  \* terminal receipt the adapter has for the current run
          flights,   \* the runs of the newest trial that were started
          reflown,   \* a run was started twice
          mishaps

callVars == <<op, answer, live, aim, sound, result, left, proposal>>
worldVars == <<sessions, bindings, mounted, evidence, flights, reflown>>
vars == <<journalVars, pc, callVars, worldVars, mishaps>>

Candidates == Challengers \cup {Initial}
-----------------------------------------------------------------------------
(* JournalState and the events that replay applies to it.                  *)

Condition(role, cand, suite) == [role |-> role, cand |-> cand, suite |-> suite]
Baseline(cand, suite) == Condition("baseline", cand, suite)
Challenge(cand, suite) == Condition("challenger", cand, suite)
PromotionBaseline == Condition("promotionBaseline", Initial, None)
PromotionFrozen(s) == Condition("promotionFrozen", s.frozen, None)

Conditions ==
    {Baseline(c, u) : c \in Candidates, u \in Suites}
    \cup {Challenge(c, u) : c \in Challengers, u \in Suites}
    \cup {PromotionBaseline}
    \cup {Condition(r, c, None) : r \in {"promotionFrozen", "final"}, c \in Candidates}

\* A pending attempt (its current run in place), and an authorized replacement.
Attempts ==
    [trial : Nat, cond : Conditions, index : 0 .. Limit, runs : 0 .. Runs,
     run : {"none", "prepared", "bound", "intent", "report", "evidence", "committed"},
     aim : {"none", "complete", "gate", "error", "recovery"},
     class : {"none", "complete", "gate", "quarantine", "evidenceFailure"},
     outcome : {"none", "passed", "gate", "quarantined"},
     selected : BOOLEAN, decision : {"none", "authorized", "exhausted"}]
Replacements == [cond : Conditions, index : 1 .. Limit]

\* None stands for the absent value of every Option of the state.
ASSUME NoneAssumption ==
    None \notin Conditions /\ None \notin Attempts /\ None \notin Replacements

\* No journal has been created yet, or none is held.
NoChain == [phase |-> "absent"]

Start ==
    [phase |-> "searching", incumbent |-> Initial, safe |-> FALSE,
     results |-> [c \in {} |-> c], next |-> 0, allowed |-> None,
     retry |-> None, pending |-> None, frozen |-> None,
     decision |-> "none", verdict |-> "none"]

Has(s, c) == c \in DOMAIN s.results
Passed(s, c) == Has(s, c) /\ s.results[c] = "passed"
Tried(s) == {c.cand : c \in {d \in DOMAIN s.results : d.role = "challenger"}}
NewerBaseline(s, u) == Baseline(s.incumbent, u)

AuthorizedFinal(s) ==
    IF s.decision = "promoted" THEN s.frozen
    ELSE IF s.decision = "noImprovement" THEN Initial ELSE None
Final(s) == Condition("final", AuthorizedFinal(s), None)

\* settled_candidate_digest
Settled(s) ==
    IF s.phase = "searching" THEN s.incumbent
    ELSE IF /\ s.decision = "promoted"
            /\ \/ s.phase = "closed"
               \/ s.phase = "sealed" /\ s.verdict = "qualified"
    THEN s.frozen ELSE Initial

RoleAllowed(s, c) ==
    /\ ~Has(s, c)
    /\ \/ c.role = "baseline" /\ s.phase = "searching" /\ c.cand = s.incumbent
       \/ c.role = "challenger" /\ s.phase = "searching" /\ Passed(s, NewerBaseline(s, c.suite))
       \/ c.role = "promotionBaseline" /\ s.phase = "frozen"
       \/ c.role = "promotionFrozen" /\ s.phase = "frozen" /\ Has(s, PromotionBaseline)
       \/ c.role = "final" /\ s.phase = "closed"

\* Nothing but its attempt may follow an authorization.
Preparable(s, c) ==
    /\ s.pending = None /\ RoleAllowed(s, c)
    /\ IF s.retry # None THEN s.retry.cond = c
       ELSE s.allowed = (IF c.role = "challenger" THEN c ELSE None)

Prepared(s, c) ==
    [s EXCEPT !.allowed = None, !.retry = None, !.next = @ + 1,
     !.pending = [trial |-> s.next, cond |-> c,
                  index |-> IF s.retry = None THEN 0 ELSE s.retry.index,
                  runs |-> 0, run |-> "none", aim |-> "none", class |-> "none",
                  outcome |-> "none", selected |-> FALSE, decision |-> "none"]]

RunPrepared(s) ==
    [s EXCEPT !.pending.runs = @ + 1, !.pending.run = "prepared",
              !.pending.aim = "none", !.pending.class = "none"]
RunIs(s, state) == [s EXCEPT !.pending.run = state]
Intent(s, a) == [s EXCEPT !.pending.run = "intent", !.pending.aim = a]

\* Mutant: a contained run is complete, whatever its semantic outcome was.
ClassifyContained(a, contained) ==
    IF a = "gate" THEN a ELSE IF contained THEN "complete" ELSE "quarantine"
\* RunTerminalClass::classify
Classify(a, contained) ==
    IF a \in {"complete", "gate"} /\ contained THEN a ELSE "quarantine"
Report(s, contained) ==
    [s EXCEPT !.pending.run = "report", !.pending.class = Classify(s.pending.aim, contained)]

Completed(s, kind, chosen) ==
    [s EXCEPT !.pending.outcome = kind, !.pending.selected = chosen]
\* Mutant: one replacement more than the limit is authorized.
DecidedLate(s) ==
    [s EXCEPT !.pending.decision = IF s.pending.index <= Limit THEN "authorized" ELSE "exhausted"]
Decided(s) ==
    [s EXCEPT !.pending.decision = IF s.pending.index < Limit THEN "authorized" ELSE "exhausted"]

\* A replaced execution states no result (finalize).
Finalized(s) ==
    LET q == s.pending
        t == [s EXCEPT !.pending = None]
        wins == q.outcome = "passed" /\ q.selected
    IN  IF q.decision = "authorized"
        THEN [t EXCEPT !.retry = [cond |-> q.cond, index |-> q.index + 1]]
        ELSE [t EXCEPT !.results = [c \in DOMAIN s.results \cup {q.cond} |->
                                      IF c = q.cond THEN q.outcome ELSE s.results[c]],
                       !.safe = @ \/ wins,
                       !.incumbent = IF wins /\ q.cond.role = "challenger"
                                     THEN q.cond.cand ELSE @]

Freezable(s) ==
    /\ s.phase = "searching" /\ s.pending = None /\ s.safe
    /\ s.allowed = None /\ s.retry = None
Frozen(s) == [s EXCEPT !.phase = "frozen", !.frozen = s.incumbent]

Rejects(s, kind) ==
    \E c \in {PromotionBaseline, PromotionFrozen(s)} : Has(s, c) /\ s.results[c] = kind
\* The comparison of the two hidden results is left open.
Decisions(s) ==
    IF Rejects(s, "gate") THEN {"rejectedGate"}
    ELSE IF Rejects(s, "quarantined") THEN {"indeterminate"}
    ELSE {"promoted", "noImprovement"}
Closed(s, d) == [s EXCEPT !.phase = "closed", !.decision = d]

Verdicts(s) ==
    IF Passed(s, Final(s)) THEN {"qualified", "failedObjective"}
    ELSE {IF s.results[Final(s)] = "gate" THEN "failedGate" ELSE "indeterminate"}
Sealed(s, v) == [s EXCEPT !.phase = "sealed", !.verdict = v]
-----------------------------------------------------------------------------
Init ==
    /\ saved = NoChain /\ mem = NoChain /\ poisoned = FALSE
    /\ pc = "closed" /\ op = "none" /\ answer = "none" /\ live = FALSE
    /\ aim = "none" /\ sound = FALSE /\ result = "none" /\ left = 0 /\ proposal = None
    /\ sessions = 0 /\ bindings = 0 /\ mounted = None /\ evidence = "none"
    /\ flights = [trial |-> 0, ends |-> [i \in {} |-> i]] /\ reflown = FALSE
    /\ mishaps = 0

p == mem.pending
Pending == p # None
SameWorld == UNCHANGED worldVars
SameCall == UNCHANGED callVars
Smooth == UNCHANGED mishaps
Mishap == mishaps < MaxMishaps /\ mishaps' = mishaps + 1
Fares(o) == IF o = "acked" THEN Smooth ELSE Mishap

Goto(next) == pc' = next /\ SameCall

\* A call ends: the tuner is open again, or the open is rolled back.
Return(how) ==
    /\ pc' = IF op = "open" /\ how = "error" THEN "rollback" ELSE "idle"
    /\ answer' = how
    /\ live' = FALSE /\ aim' = "none" /\ sound' = FALSE /\ result' = "none"
    /\ left' = 0 /\ proposal' = None
    /\ UNCHANGED op

\* One append, after which the call goes on at next.
Write(state, next) ==
    \E o \in Outcomes :
        /\ AppendEntry(state, o) /\ Fares(o)
        /\ IF o = "acked" THEN Goto(next) ELSE Return("error")

\* An attempt ends (finish_with_candidate_reconciliation): with no attempt
\* pending the vehicle gets the settled candidate back, even after an error.
EndAttempt(how, pending) ==
    IF op = "open"
    THEN IF how = "error" THEN Return("error")
         ELSE Goto(IF live THEN "settle" ELSE "reauthorize")
    ELSE IF pending THEN Return("error")
    ELSE /\ pc' = "settle" /\ result' = how
         /\ UNCHANGED <<op, answer, live, aim, sound, left, proposal>>
-----------------------------------------------------------------------------
(* Journal::open_or_create, then the open transaction.                     *)

OpenJournal ==
    /\ pc = "closed"
    /\ op' = "open" /\ answer' = "none"
    /\ UNCHANGED <<live, aim, sound, result, left, proposal>>
    /\ SameWorld
    /\ IF saved # NoChain
       THEN Load /\ Smooth /\ pc' = "reconcile"
       ELSE \E o \in Outcomes :
              /\ AppendEntry(Start, o) /\ Fares(o)
              /\ pc' = IF o = "acked" THEN "reconcile" ELSE "gone"

\* A journal that could not be created has no holder.
LoseJournal ==
    /\ pc = "gone" /\ pc' = "closed" /\ mem' = NoChain /\ poisoned' = FALSE
    /\ UNCHANGED saved /\ SameCall /\ SameWorld /\ Smooth

\* Mutant: an incomplete release does not stop the open.
ReleaseAnyway(next) ==
    \E b, s \in BOOLEAN :
        /\ bindings' = IF b THEN 0 ELSE bindings
        /\ sessions' = IF s THEN 0 ELSE sessions
        /\ IF b /\ s THEN Smooth ELSE Mishap
        /\ pc' = next
        /\ UNCHANGED <<mounted, evidence, flights, reflown>>

\* Both releases are asked for, whatever the first one says.
Release(next) ==
    \E b, s \in BOOLEAN :
        /\ bindings' = IF b THEN 0 ELSE bindings
        /\ sessions' = IF s THEN 0 ELSE sessions
        /\ IF b /\ s THEN Smooth ELSE Mishap
        /\ pc' = IF b /\ s THEN next ELSE "ended"
        /\ UNCHANGED <<mounted, evidence, flights, reflown>>

ReconcilePriorOpen ==
    /\ pc = "reconcile" /\ ~poisoned
    /\ Release("openSession") /\ SameCall /\ SameJournal

\* An acquisition that fails may still leave its resource behind.
OpenSession ==
    /\ pc = "openSession" /\ ~poisoned
    /\ \E ok \in BOOLEAN :
          /\ sessions' \in IF ok THEN {sessions + 1} ELSE {sessions, sessions + 1}
          /\ IF ok THEN Goto("bindVehicle") /\ Smooth ELSE Return("error") /\ Mishap
    /\ UNCHANGED <<bindings, mounted, evidence, flights, reflown>> /\ SameJournal

BindVehicle ==
    /\ pc = "bindVehicle" /\ ~poisoned
    /\ \E ok \in BOOLEAN :
          /\ bindings' \in IF ok THEN {bindings + 1} ELSE {bindings, bindings + 1}
          /\ IF ok THEN Goto("recover") /\ Smooth ELSE Return("error") /\ Mishap
    /\ UNCHANGED <<sessions, mounted, evidence, flights, reflown>> /\ SameJournal

RollBack == pc = "rollback" /\ Release("ended") /\ SameCall /\ SameJournal

\* The failed open drops its journal.
EndOpen ==
    /\ pc = "ended" /\ pc' = "closed" /\ mem' = NoChain /\ poisoned' = FALSE
    /\ UNCHANGED saved /\ SameCall /\ SameWorld /\ Smooth

\* reauthorize_saved: the vehicle must repeat every saved authorization.
Reauthorize ==
    /\ pc = "reauthorize" /\ ~poisoned
    /\ \/ Goto(IF Pending THEN "nextRun" ELSE "settle") /\ Smooth
       \/ Return("error") /\ Mishap
    /\ SameWorld /\ SameJournal
-----------------------------------------------------------------------------
(* Recovery of a pending attempt.                                          *)

\* Mutant: a run whose binding is durable is taken up where it was.
RecoverByRelaunch ==
    IF p.outcome # "none"
    THEN IF p.outcome = "quarantined" /\ p.decision = "none" THEN "decide" ELSE "cleanup"
    ELSE IF p.run = "bound" THEN "launch"
    ELSE IF p.run \in {"prepared", "intent"} THEN "contain"
    ELSE IF p.run \in {"report", "evidence"} THEN "receipt"
    ELSE IF p.run = "committed" THEN "record"
    ELSE IF op = "open" THEN "reauthorize" ELSE "nextRun"

RecoverFrom ==
    IF p.outcome # "none"
    THEN IF p.outcome = "quarantined" /\ p.decision = "none" THEN "decide" ELSE "cleanup"
    ELSE IF p.run \in {"prepared", "bound", "intent"} THEN "contain"
    ELSE IF p.run \in {"report", "evidence"} THEN "receipt"
    ELSE IF p.run = "committed" THEN "record"
    ELSE IF op = "open" THEN "reauthorize" ELSE "nextRun"

RecoverPending ==
    /\ pc = "recover" /\ ~poisoned
    /\ pc' = IF Pending THEN RecoverFrom
             ELSE IF op = "open" THEN "reauthorize"
             ELSE IF mem.retry # None THEN "prepare" ELSE "proceed"
    /\ live' = FALSE
    /\ aim' = IF Pending /\ p.run = "intent" THEN p.aim ELSE "recovery"
    /\ UNCHANGED <<op, answer, sound, result, left, proposal>>
    /\ SameWorld /\ SameJournal /\ Smooth
-----------------------------------------------------------------------------
(* One attempt: its runs, their terminal receipts, its outcome.            *)

AttemptCondition ==
    IF mem.retry # None THEN mem.retry.cond
    ELSE IF op = "train" /\ mem.allowed # None THEN mem.allowed
    ELSE IF op = "train" /\ proposal # None THEN NewerBaseline(mem, proposal.suite)
    ELSE IF op = "train" THEN NewerBaseline(mem, FirstSuite)
    ELSE IF op = "promote"
         THEN IF Has(mem, PromotionBaseline) THEN PromotionFrozen(mem) ELSE PromotionBaseline
    ELSE Final(mem)

\* Replay refuses an attempt the state does not allow, and poisons nothing.
PrepareAttempt ==
    /\ pc = "prepare" /\ ~poisoned
    /\ IF Preparable(mem, AttemptCondition)
       THEN Write(Prepared(mem, AttemptCondition), "nextRun")
       ELSE Return("error") /\ SameJournal /\ Smooth
    /\ SameWorld

PrepareRun ==
    /\ pc = "nextRun"
    /\ \E o \in Outcomes :
          /\ AppendEntry(RunPrepared(mem), o) /\ Fares(o)
          /\ IF o # "acked" THEN Return("error")
             ELSE /\ pc' = "bind" /\ live' = TRUE
                  /\ UNCHANGED <<op, answer, aim, sound, result, left, proposal>>
    /\ evidence' = "none"
    /\ UNCHANGED <<sessions, bindings, mounted, flights, reflown>>

BindRun ==
    /\ pc = "bind"
    /\ Write(RunIs(mem, "bound"), IF live THEN "launch" ELSE "intent")
    /\ SameWorld

\* The binding, the mission, the candidate and the evaluators come first; a
\* failure among them ends the run before it starts.
Launch ==
    /\ pc = "launch" /\ ~poisoned
    /\ LET here == flights.trial = p.trial
           ends == IF here THEN flights.ends ELSE [i \in {} |-> i]
       IN  \/ /\ mounted' = p.cond.cand
              /\ reflown' = (reflown \/ flights.trial > p.trial \/ p.runs \in DOMAIN ends)
              /\ flights' = [trial |-> p.trial,
                             ends |-> [i \in DOMAIN ends \cup {p.runs} |->
                                         IF i = p.runs THEN "cut" ELSE ends[i]]]
              /\ Goto("fly") /\ Smooth
           \/ /\ mounted' \in {mounted, None, p.cond.cand}
              /\ UNCHANGED <<flights, reflown>>
              /\ pc' = "intent" /\ aim' = "error"
              /\ UNCHANGED <<op, answer, live, sound, result, left, proposal>>
              /\ Mishap
    /\ UNCHANGED <<sessions, bindings, evidence>> /\ SameJournal

Fly ==
    /\ pc = "fly" /\ ~poisoned
    /\ \E end \in {"complete", "gate", "error"} :
          /\ flights' = [flights EXCEPT !.ends[p.runs] = end]
          /\ pc' = "intent" /\ aim' = end
          /\ IF end = "error" THEN Mishap ELSE Smooth
    /\ UNCHANGED <<op, answer, live, sound, result, left, proposal>>
    /\ UNCHANGED <<sessions, bindings, mounted, evidence, reflown>> /\ SameJournal

PrepareIntent ==
    /\ pc = "intent"
    /\ Write(Intent(mem, aim), IF live THEN "contain" ELSE "report")
    /\ SameWorld

\* execute_plan_blocking: stop the simulator, the controls, the traces and the
\* children; sound says that every required operation succeeded.
Contain ==
    /\ pc = "contain" /\ ~poisoned
    /\ \E ok \in BOOLEAN : sound' = ok /\ IF ok THEN Smooth ELSE Mishap
    /\ pc' = IF p.run = "prepared" THEN "bind"
             ELSE IF p.run = "bound" THEN "intent" ELSE "report"
    /\ UNCHANGED <<op, answer, live, aim, result, left, proposal>>
    /\ SameWorld /\ SameJournal

RecordReport == pc = "report" /\ Write(Report(mem, sound), "receipt") /\ SameWorld

Desired == IF p.run = "evidence" THEN "evidenceFailure" ELSE p.class

RecoverReceipt ==
    /\ pc = "receipt" /\ ~poisoned
    /\ IF evidence = Desired THEN Goto("commit") /\ SameJournal
       ELSE IF evidence = "none" THEN Goto("publish") /\ SameJournal
       ELSE Poison /\ Return("error")
    /\ SameWorld /\ Smooth

\* The receipt read back decides, not the answer of the seal.
PublishReceipt ==
    /\ pc = "publish" /\ ~poisoned
    /\ \/ evidence' = Desired /\ Goto("commit") /\ Smooth
       \/ /\ evidence' = evidence /\ Mishap
          /\ IF Desired \in {"complete", "gate"} THEN Goto("evidenceFailure") \/ Return("error")
             ELSE Return("error")
    /\ UNCHANGED <<sessions, bindings, mounted, flights, reflown>> /\ SameJournal

RecordEvidenceFailure ==
    pc = "evidenceFailure" /\ Write(RunIs(mem, "evidence"), "publish") /\ SameWorld

CommitRun ==
    /\ pc = "commit"
    /\ Write([RunIs(mem, "committed") EXCEPT !.pending.class = Desired], "record")
    /\ SameWorld

\* training_selection compares scores; the model leaves that choice open.
Choices == IF p.cond.role = "challenger" THEN BOOLEAN ELSE {p.cond.role = "baseline"}

RecordRun ==
    /\ pc = "record" /\ ~poisoned
    /\ IF p.class = "complete" /\ p.runs < Runs
       THEN /\ \/ Goto(IF op = "open" /\ ~live THEN "reauthorize" ELSE "nextRun") /\ Smooth
               \/ EndAttempt("error", TRUE) /\ Mishap
            /\ SameJournal
       ELSE IF p.class = "complete"
       THEN \E chosen \in Choices : Write(Completed(mem, "passed", chosen), "cleanup")
       ELSE IF p.class = "gate" THEN Write(Completed(mem, "gate", FALSE), "cleanup")
       ELSE Write(Completed(mem, "quarantined", FALSE), "decide")
    /\ SameWorld

\* The decision is durable before cleanup.
DecideRetry == pc = "decide" /\ Write(Decided(mem), "cleanup") /\ SameWorld

Cleanup ==
    /\ pc = "cleanup"
    /\ \E clean \in BOOLEAN, o \in Outcomes :
          /\ AppendEntry(IF clean THEN Finalized(mem) ELSE mem, o)
          /\ IF clean /\ o = "acked" THEN Smooth ELSE Mishap
          /\ IF o # "acked" THEN Return("error")
             ELSE EndAttempt(IF clean /\ ~(live /\ p.outcome = "quarantined")
                             THEN "ok" ELSE "error", ~clean)
    /\ SameWorld

\* A call into an adapter fails and ends the call with the attempt pending.
CallFails ==
    /\ pc \in {"report", "receipt", "publish"} /\ ~poisoned
    /\ Return("error") /\ SameWorld /\ SameJournal /\ Mishap

\* settled_candidate_blocking, then the next replacement or the caller.
Settle ==
    /\ pc = "settle" /\ ~poisoned
    /\ \E ok \in BOOLEAN :
          /\ IF Pending THEN ok = FALSE /\ Smooth /\ UNCHANGED mounted
             ELSE IF ok THEN mounted' = Settled(mem) /\ Smooth
             ELSE mounted' \in {mounted, None} /\ Mishap
          /\ IF op = "open" \/ result = "done" THEN Return(IF ok THEN "ok" ELSE "error")
             ELSE IF mem.retry # None THEN Goto("prepare")
             ELSE IF ok /\ result = "ok" THEN Goto("proceed") ELSE Return("error")
    /\ UNCHANGED <<sessions, bindings, evidence, flights, reflown>> /\ SameJournal
-----------------------------------------------------------------------------
(* The operations of an open tuner.                                        *)

Call(name, limit) ==
    /\ pc = "idle" /\ ~poisoned
    /\ op' = name /\ left' = limit /\ answer' = "none"
    /\ UNCHANGED <<live, aim, sound, proposal>>
    /\ SameWorld /\ SameJournal /\ Smooth

Train ==
    /\ Call("train", Cardinality(Challengers)) /\ mem.phase = "searching"
    /\ pc' = "recover" /\ UNCHANGED result
Freeze ==
    /\ Call("freeze", 0) /\ mem.phase = "searching"
    /\ pc' = "recover" /\ UNCHANGED result

\* A repeated call runs nothing: it returns the saved answer.
Again(have) == IF have THEN pc' = "settle" /\ result' = "done"
               ELSE pc' = "recover" /\ UNCHANGED result
Promote ==
    /\ Call("promote", 0) /\ mem.phase # "searching"
    /\ Again(mem.decision # "none")
Qualify ==
    /\ Call("qualify", 0) /\ mem.phase \in {"closed", "sealed"}
    /\ (mem.verdict # "none" \/ AuthorizedFinal(mem) # None)
    /\ Again(mem.verdict # "none")

Finish(state) ==
    \E o \in Outcomes :
        /\ AppendEntry(state, o) /\ Fares(o)
        /\ IF o # "acked" THEN Return("error")
           ELSE /\ pc' = "settle" /\ result' = "done"
                /\ UNCHANGED <<op, answer, live, aim, sound, left, proposal>>

At(name) == pc = "proceed" /\ op = name /\ ~poisoned /\ SameWorld
Quiet == SameJournal /\ Smooth

\* Each challenger needs a baseline of the incumbent on its own suite.
Towards(c) ==
    IF ~Has(mem, NewerBaseline(mem, c.suite)) THEN pc' = "prepare"
    ELSE pc' = "authorize"

ProceedTraining ==
    /\ At("train") /\ Quiet
    /\ IF ~mem.safe THEN Goto("prepare")
       ELSE IF proposal # None
       THEN /\ Towards(proposal) /\ SameCall
       ELSE IF left = 0 THEN Return("ok")
       ELSE IF mem.allowed # None
       THEN /\ pc' = "prepare" /\ left' = left - 1
            /\ UNCHANGED <<op, answer, live, aim, sound, result, proposal>>
       ELSE \/ Return("ok")
            \/ \E c \in Challengers \ (Tried(mem) \cup {mem.incumbent}), u \in Suites :
                  /\ proposal' = Challenge(c, u) /\ left' = left - 1
                  /\ Towards(Challenge(c, u))
                  /\ UNCHANGED <<op, answer, live, aim, sound, result>>

AuthorizeTransition ==
    /\ pc = "authorize" /\ ~poisoned
    /\ IF Passed(mem, NewerBaseline(mem, proposal.suite))
       THEN \E o \in Outcomes :
              /\ AppendEntry([mem EXCEPT !.allowed = proposal], o) /\ Fares(o)
              /\ IF o # "acked" THEN Return("error")
                 ELSE /\ pc' = "prepare" /\ proposal' = None
                      /\ UNCHANGED <<op, answer, live, aim, sound, result, left>>
       ELSE Return("error") /\ Quiet
    /\ SameWorld

ProceedFreezing ==
    /\ At("freeze")
    /\ IF Freezable(mem) THEN Finish(Frozen(mem)) ELSE Return("error") /\ Quiet

ProceedPromotion ==
    /\ At("promote")
    /\ IF \/ ~Has(mem, PromotionBaseline)
          \/ Passed(mem, PromotionBaseline) /\ ~Has(mem, PromotionFrozen(mem))
       THEN Goto("prepare") /\ Quiet
       ELSE \E d \in Decisions(mem) : Finish(Closed(mem, d))

ProceedQualification ==
    /\ At("qualify")
    /\ IF ~Has(mem, Final(mem)) THEN Goto("prepare") /\ Quiet
       ELSE \E v \in Verdicts(mem) : Finish(Sealed(mem, v))
-----------------------------------------------------------------------------
\* A guard of the journal fails: the head or a stored document is not what the
\* holder remembers, or the adapter returned a foreign receipt.
LoseAuthority ==
    /\ pc \notin {"closed", "gone", "ended"} /\ Poison /\ Mishap
    /\ UNCHANGED pc /\ SameCall /\ SameWorld

\* Mutant: the retry loop asks a poisoned journal again, without a limit.
RefuseForever ==
    /\ poisoned /\ pc \notin {"idle", "closed", "gone", "ended", "rollback"}
    /\ IF pc = "prepare" THEN Goto("prepare") ELSE Return("error")
    /\ SameWorld /\ SameJournal /\ Smooth

\* A poisoned journal refuses the next step of the call.
Refuse ==
    /\ poisoned /\ pc \notin {"idle", "closed", "gone", "ended", "rollback"}
    /\ Return("error") /\ SameWorld /\ SameJournal /\ Smooth

Stop ==
    /\ pc' = "closed" /\ mem' = NoChain /\ poisoned' = FALSE
    /\ op' = "none" /\ answer' = "none" /\ live' = FALSE /\ aim' = "none"
    /\ sound' = FALSE /\ result' = "none" /\ left' = 0 /\ proposal' = None
    /\ UNCHANGED saved /\ SameWorld
Exit == pc = "idle" /\ Stop /\ Smooth
Crash == pc \notin {"idle", "closed"} /\ Stop /\ Mishap

\* What the program does by itself once it is called.
Step ==
    \/ LoseJournal \/ ReconcilePriorOpen \/ OpenSession \/ BindVehicle \/ RollBack
    \/ EndOpen \/ Reauthorize \/ RecoverPending
    \/ PrepareAttempt \/ PrepareRun \/ BindRun \/ Launch \/ Fly \/ PrepareIntent
    \/ Contain \/ RecordReport \/ RecoverReceipt \/ PublishReceipt
    \/ RecordEvidenceFailure \/ CommitRun \/ RecordRun \/ DecideRetry \/ Cleanup
    \/ CallFails \/ Settle
    \/ ProceedTraining \/ AuthorizeTransition
    \/ ProceedFreezing \/ ProceedPromotion \/ ProceedQualification
    \/ Refuse

Next ==
    \/ OpenJournal \/ Train \/ Freeze \/ Promote \/ Qualify
    \/ Step
    \/ LoseAuthority \/ Exit \/ Crash

Spec == Init /\ [][Next]_vars
FairSpec == Spec /\ WF_vars(Step)
-----------------------------------------------------------------------------
(* Properties.                                                             *)

Open == pc \notin {"closed", "gone", "ended"}

\* A holder that is not poisoned remembers exactly what a restart would replay,
\* through lost acknowledgements and crashes (record_append_result).
MemoryIsDurable == Open /\ ~poisoned => mem = saved

\* No run identity is ever flown twice: a run that a crash interrupted is
\* contained and quarantined, never resumed (recover_prepared, recover_bound).
FlownOnce == ~reflown

\* Every run that was started was durable first, with its binding, and hidden
\* scenarios are flown only by a campaign whose training is durably closed.
FlightsAreRecorded ==
    DOMAIN flights.ends # {} =>
        /\ saved.next > flights.trial
        /\ saved.pending # None /\ saved.pending.trial = flights.trial =>
              /\ DOMAIN flights.ends \subseteq 1 .. saved.pending.runs
              /\ saved.pending.run = "prepared" =>
                    saved.pending.runs \notin DOMAIN flights.ends
              /\ saved.pending.cond.role \in {"promotionBaseline", "promotionFrozen", "final"} =>
                    saved.phase \in {"frozen", "closed"}

\* A durable result states what was flown: a passing attempt has every run of
\* its plan complete, a hard gate failure ends in a gated run.
ResultsAreFlown ==
    LET q == saved.pending
    IN  saved # NoChain /\ q # None /\ q.outcome \in {"passed", "gate"} =>
            /\ flights.trial = q.trial
            /\ DOMAIN flights.ends = 1 .. q.runs
            /\ \A i \in 1 .. q.runs :
                  flights.ends[i] = IF i = q.runs /\ q.outcome = "gate" THEN "gate" ELSE "complete"
            /\ q.outcome = "passed" => q.runs = Runs

\* Both together: what the chain says was flown is what was flown.
ChainIsTheFlightLog == FlightsAreRecorded /\ ResultsAreFlown

\* However opens fail, roll back or die, a campaign never holds two simulator
\* sessions or two vehicle bindings (reconcile_prior_open).
OneSession == sessions <= 1 /\ bindings <= 1

\* An open, a freeze, a promotion or a qualification that reports success leaves
\* no attempt pending and the settled candidate on the vehicle.  A training call
\* that finds nothing to evaluate reconciles nothing (campaign.rs:80).
SettledAfterClosing ==
    pc = "idle" /\ answer = "ok" /\ ~poisoned /\ op # "train" =>
        mem.pending = None /\ mounted = Settled(mem)

\* What a campaign says of itself, while it runs and once a call succeeded: the
\* chain states the flights that were flown, and the vehicle is as it states.
ChainIsTheFact == ChainIsTheFlightLog /\ SettledAfterClosing

\* Every call comes back, whatever fails: the retry loop and the recovery end.
CallsReturn == (pc \notin {"idle", "closed"}) ~> (pc \in {"idle", "closed"})

Execution ==
    IF saved = NoChain THEN [open |-> None, tries |-> 0]
    ELSE IF saved.pending # None
         THEN [open |-> saved.pending.cond, tries |-> saved.pending.index + 1]
    ELSE IF saved.retry # None THEN [open |-> saved.retry.cond, tries |-> saved.retry.index]
    ELSE [open |-> None, tries |-> 0]

Experiments == INSTANCE Trials WITH
    NoCondition <- None,
    open <- Execution.open, tries <- Execution.tries,
    results <- IF saved = NoChain THEN [c \in {} |-> c] ELSE saved.results

\* The durable chain, with its crashes, retries and recoveries, is a run of
\* Trials: no condition has two results or more executions than the limit.
TrialsSpec == Experiments!Spec
=============================================================================
