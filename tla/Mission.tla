------------------------------ MODULE Mission ------------------------------
(***************************************************************************)
(* The mission sequencing core: pilotage-mission-core, engine.rs and       *)
(* engine/{run,cleanup,runtime}.rs.  It flies the phases of a document one *)
(* at a time.  A phase is entered when its conditions hold, its action is  *)
(* a directive to the host, and the host's receipt and the completion      *)
(* conditions end it.  Anything else that ends a phase ends the mission,   *)
(* and then the cleanup actions of the phases entered so far are attempted.*)
(*                                                                         *)
(* Each action is one tick, in which the code takes the first branch that  *)
(* applies: mission deadline, phase deadline, abort condition, then the    *)
(* phase's own stage.  A tick that the engine refuses (a clock that runs   *)
(* back, a receipt for another directive than the outstanding one) changes *)
(* nothing and is no action.                                               *)
(***************************************************************************)
EXTENDS Integers, Sequences

CONSTANTS Documents,       \* the validated documents
          NoDeadline,      \* of a phase that runs until its conditions end it
          WallLimit,       \* mission deadline, on the wall clock
          ReceiptTimeout, RetryLimit

Phases(d) == DOMAIN d.dependsOn

\* validate_dependencies: until all phases have run, one of them is ready.
Acyclic(d) ==
    \A done \in SUBSET Phases(d) :
        done # Phases(d) => \E p \in Phases(d) \ done : d.dependsOn[p] \subseteq done

ASSUME MissionAssumption ==
    /\ WallLimit \in Nat \ {0} /\ ReceiptTimeout \in Nat /\ RetryLimit \in Nat
    /\ NoDeadline \notin Nat
    /\ \A d \in Documents :
          LET n == Len(d.dependsOn)
          IN  /\ n # 0 /\ d.dependsOn \in Seq(SUBSET (1 .. n))
              /\ d.deadline \in [1 .. n -> Nat \cup {NoDeadline}]
              /\ d.cleanups \in [1 .. n -> Nat]
              /\ Acyclic(d)

VARIABLES document,
          stage, phase,
          entered,         \* entered_phases
          todo, step,      \* cleanup steps not issued yet, and the one under way
          retries,         \* retries_used of the outstanding directive
          cause, failures, \* the terminal result
          wall, age, waited, \* wall clock; time in the phase and since the directive
          sent, succeeded  \* history: directives, and those acknowledged

work == <<phase, entered, todo, step, retries>>
result == <<cause, failures>>
clocks == <<wall, age, waited>>
history == <<sent, succeeded>>
vars == <<document, stage, work, result, clocks, history>>

\* A directive is a phase with the index of a cleanup action, or 0 for its
\* action.  A cleanup step names the phase by its position among the entered.
Of(s) == <<entered[s[1]], s[2]>>
Running == stage \in {"entry", "receipt", "completion"}

Entered(seq) == {seq[i] : i \in DOMAIN seq}

\* Mutant: whatever a phase depends on.
ReadyInList(done) == Phases(document) \ done

\* Mutant: the search stops before the last phase of the list.
ReadyButLast(done) ==
    {p \in Phases(document) \ done : /\ document.dependsOn[p] \subseteq done
                                      /\ p # Len(document.dependsOn)}

\* next_ready picks the first of these.
Ready(done) ==
    {p \in Phases(document) \ done : document.dependsOn[p] \subseteq done}
IsFirst(p, S) == p \in S /\ \A q \in S : p <= q

Init ==
    /\ document \in Documents
    /\ stage = "entry" /\ phase \in Phases(document) /\ IsFirst(phase, Ready({}))
    /\ entered = <<>>
    /\ todo = {} /\ step = <<0, 0>> /\ retries = 0
    /\ cause = "none" /\ failures = {}
    /\ wall = 0 /\ age = 0 /\ waited = 0
    /\ sent = {} /\ succeeded = {}

\* The wall clock goes on; the mission clock may pause.  Each is followed as
\* far as a deadline can depend on it.
Upto(limit, t) == IF t < limit THEN t + 1 ELSE t
Clock ==
    /\ stage # "terminal"
    /\ wall' = Upto(WallLimit, wall) /\ waited' = Upto(ReceiptTimeout, waited)
    /\ age' \in {age, Upto(WallLimit, age)}
    /\ UNCHANGED <<document, stage, work, result, history>>
-----------------------------------------------------------------------------
(* Cleanup.                                                                *)

\* The last phase entered comes first, its actions in their order.
Before(s, t) == s[1] > t[1] \/ (s[1] = t[1] /\ s[2] < t[2])

\* issue_or_finish, with the steps that are left
IssueOrFinish(rest) ==
    \/ /\ rest = {} /\ stage' = "terminal" /\ todo' = {}
       /\ UNCHANGED <<step, retries, waited, sent>>
    \/ \E s \in rest :
          /\ \A t \in rest \ {s} : Before(s, t)
          /\ stage' = "cleanup" /\ step' = s /\ todo' = rest \ {s}
          /\ retries' = 0 /\ waited' = 0
          /\ sent' = sent \cup {Of(s)}

\* Mutant: only what completed is cleaned up.
OwedByCompleted ==
    UNION {{i} \X (1 .. document.cleanups[entered[i]]) :
              i \in {j \in DOMAIN entered : entered[j] # phase}}

\* cleanup_steps
Owed == UNION {{i} \X (1 .. document.cleanups[entered[i]]) : i \in DOMAIN entered}

StartCleanup(why) == cause' = why /\ IssueOrFinish(Owed)

\* The step ends, failed or not, and the next one is issued.
CleanupReceipt ==
    /\ stage = "cleanup"
    /\ \/ /\ succeeded' = succeeded \cup {Of(step)} /\ UNCHANGED failures
       \/ /\ failures' = failures \cup {Of(step)} /\ UNCHANGED succeeded
    /\ IssueOrFinish(todo)
    /\ UNCHANGED <<document, phase, entered, cause, wall, age>>

\* Mutant: a retry does not count.
CleanupRetryAlways ==
    /\ stage = "cleanup"
    /\ waited' = 0
    /\ UNCHANGED <<document, stage, work, result, wall, age, history>>

\* A retryable receipt; beyond the limit it is a failure.
CleanupRetry ==
    /\ stage = "cleanup"
    /\ retries < RetryLimit /\ retries' = retries + 1 /\ waited' = 0
    /\ UNCHANGED <<document, stage, phase, entered, todo, step, result, wall, age, history>>

CleanupTimeout ==
    /\ stage = "cleanup" /\ waited >= ReceiptTimeout
    /\ failures' = failures \cup {Of(step)}
    /\ IssueOrFinish(todo)
    /\ UNCHANGED <<document, phase, entered, cause, wall, age, succeeded>>
-----------------------------------------------------------------------------
(* The running mission.                                                    *)

MissionDeadline ==
    /\ Running /\ wall >= WallLimit
    /\ StartCleanup("deadline")
    /\ UNCHANGED <<document, phase, entered, failures, wall, age, succeeded>>

PhaseOverdue ==
    document.deadline[phase] # NoDeadline /\ age >= document.deadline[phase]

PhaseDeadline ==
    /\ Running /\ wall < WallLimit /\ PhaseOverdue
    /\ StartCleanup("deadline")
    /\ UNCHANGED <<document, phase, entered, failures, wall, age, succeeded>>

OnTime == Running /\ wall < WallLimit /\ ~PhaseOverdue

\* An abort condition of the phase holds.
Abort ==
    /\ OnTime
    /\ StartCleanup("aborted")
    /\ UNCHANGED <<document, phase, entered, failures, wall, age, succeeded>>

\* enter_if_ready: the entry conditions of p hold.
EnterPhase(p) ==
    /\ stage' = "receipt" /\ entered' = Append(entered, p)
    /\ sent' = sent \cup {<<p, 0>>}
    /\ retries' = 0 /\ waited' = 0

Enter ==
    /\ OnTime /\ stage = "entry"
    /\ EnterPhase(phase)
    /\ UNCHANGED <<document, phase, todo, step, result, wall, age, succeeded>>

\* A host that refuses or fails the action, or has retried it too often.
ReceiptRefused ==
    /\ OnTime /\ stage = "receipt"
    /\ \E why \in {"refused", "aborted"} : StartCleanup(why)
    /\ UNCHANGED <<document, phase, entered, failures, wall, age, succeeded>>

Retry ==
    /\ OnTime /\ stage = "receipt"
    /\ retries < RetryLimit /\ retries' = retries + 1 /\ waited' = 0
    /\ UNCHANGED <<document, stage, phase, entered, todo, step, result, wall, age, history>>

ReceiptTimedOut ==
    /\ OnTime /\ stage = "receipt" /\ waited >= ReceiptTimeout
    /\ StartCleanup("timeout")
    /\ UNCHANGED <<document, phase, entered, failures, wall, age, succeeded>>

\* complete_if_ready, when the completion conditions hold: the next phase is
\* aborted, entered or waited for in the same tick.
Leave ==
    \/ /\ Ready(Entered(entered)) = {}
       /\ stage' = "terminal" /\ cause' = "complete"
       /\ UNCHANGED <<work, failures, age, waited, sent>>
    \/ \E next \in Ready(Entered(entered)) :
          /\ IsFirst(next, Ready(Entered(entered)))
          /\ phase' = next /\ age' = 0
          /\ \/ StartCleanup("aborted") /\ UNCHANGED <<entered, failures>>
             \/ EnterPhase(next) /\ UNCHANGED <<todo, step, result>>
             \/ /\ stage' = "entry"
                /\ UNCHANGED <<entered, todo, step, retries, result, waited, sent>>

\* The action succeeded.  The phase may be complete at once.
ReceiptSucceeded ==
    /\ OnTime /\ stage = "receipt"
    /\ succeeded' = succeeded \cup {<<phase, 0>>}
    /\ \/ Leave
       \/ stage' = "completion" /\ UNCHANGED <<work, result, age, waited, sent>>
    /\ UNCHANGED <<document, wall>>

Complete ==
    /\ OnTime /\ stage = "completion"
    /\ Leave
    /\ UNCHANGED <<document, wall, succeeded>>

Ended == stage = "terminal" /\ UNCHANGED vars

Next ==
    \/ Clock \/ MissionDeadline \/ PhaseDeadline \/ Abort \/ Enter
    \/ ReceiptSucceeded \/ ReceiptRefused \/ Retry \/ ReceiptTimedOut \/ Complete
    \/ CleanupReceipt \/ CleanupRetry \/ CleanupTimeout \/ Ended

Spec == Init /\ [][Next]_vars

\* A host goes on ticking and its clock goes on: a deadline or a timeout that
\* stays due is taken.
FairSpec ==
    /\ Spec
    /\ WF_vars(Clock) /\ WF_vars(MissionDeadline) /\ WF_vars(CleanupTimeout)
-----------------------------------------------------------------------------
(* Properties.                                                             *)

\* Values of the state.
TypeOK ==
    /\ document \in Documents
    /\ stage \in {"entry", "receipt", "completion", "cleanup", "terminal"}
    /\ phase \in Phases(document) /\ entered \in Seq(Phases(document))
    /\ todo \subseteq (DOMAIN entered) \X Nat /\ step \in Nat \X Nat
    /\ retries \in 0 .. RetryLimit
    /\ cause \in {"none", "complete", "aborted", "refused", "deadline", "timeout"}
    /\ failures \subseteq Phases(document) \X Nat
    /\ wall \in 0 .. WallLimit /\ age \in 0 .. WallLimit /\ waited \in 0 .. ReceiptTimeout
    /\ sent \subseteq Phases(document) \X Nat /\ succeeded \subseteq sent

\* When a mission ends other than complete, every cleanup action of every
\* phase whose action ever went out has been attempted, however the mission
\* ended and whatever became of the other attempts, and the result lists as
\* failures exactly the attempts that were not acknowledged.
NothingLeftBehind ==
    stage = "terminal" /\ cause # "complete" =>
        \A p \in Phases(document) :
            <<p, 0>> \in sent =>
                \A k \in 1 .. document.cleanups[p] :
                    /\ <<p, k>> \in sent
                    /\ <<p, k>> \in failures <=> <<p, k>> \notin succeeded

\* A mission is called complete only when the action of every phase of its
\* document succeeded, and nothing was cleaned up.
CompletionIsEarned ==
    cause = "complete" =>
        /\ \A p \in Phases(document) : <<p, 0>> \in succeeded
        /\ sent \subseteq Phases(document) \X {0}

\* Work is done in order.  An action goes out after the actions it depends on
\* have succeeded, one phase at a time, and never after cleanup has begun; a
\* cleanup action goes out when those of all phases entered later are settled.
Settled(d) == d \in succeeded' \cup failures'
InOrder(d) ==
    IF d[2] = 0
    THEN /\ \A e \in document.dependsOn[d[1]] : <<e, 0>> \in succeeded'
         /\ \A e \in sent : e[2] = 0 /\ e \in succeeded'
    ELSE \A i, j \in DOMAIN entered' : \A k \in 1 .. document.cleanups[entered'[j]] :
            i < j /\ entered'[i] = d[1] => Settled(<<entered'[j], k>>)
WorkInOrder == [][\A d \in sent' \ sent : InOrder(d)]_vars

\* Every mission ends: its deadline stops the phases, and timeouts and the
\* retry limit bound the cleanup, whatever the host answers.
MissionEnds == <>(stage = "terminal")
=============================================================================
