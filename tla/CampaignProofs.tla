--------------------------- MODULE CampaignProofs ---------------------------
(***************************************************************************)
(* Theorems about Campaign, for every set of challengers and suites, every *)
(* plan length, retry limit and bound on mishaps.  They rest on what a     *)
(* step may do to the journal and to the resources held, which the lemmas  *)
(* state action by action.                                                 *)
(***************************************************************************)
EXTENDS Campaign, TLAPS

-----------------------------------------------------------------------------
(* The journal.                                                            *)

Holding == Open /\ ~poisoned

\* What one step may do to the chain and to the memory of it.
JournalStep ==
    \/ \E s, o : AppendEntry(s, o)
    \/ Load
    \/ poisoned'
    \/ SameJournal /\ (Open' => Open)
    \/ ~Open'

\* The open transaction and what follows it, up to the first attempt.
LEMMA OpeningJournal ==
    ASSUME OpenJournal \/ LoseJournal \/ ReconcilePriorOpen \/ OpenSession
           \/ BindVehicle \/ RollBack \/ EndOpen \/ Reauthorize \/ RecoverPending
    PROVE  JournalStep
<1>1. CASE OpenJournal
  BY <1>1 DEF OpenJournal, JournalStep
<1>2. CASE LoseJournal \/ EndOpen
  BY <1>2 DEF LoseJournal, EndOpen, JournalStep, Open
<1>3. CASE ReconcilePriorOpen \/ OpenSession \/ BindVehicle \/ RollBack
  BY <1>3 DEF ReconcilePriorOpen, OpenSession, BindVehicle, RollBack, Release,
              JournalStep, Open
<1>4. CASE Reauthorize \/ RecoverPending
  BY <1>4 DEF Reauthorize, RecoverPending, JournalStep, Open
<1>5. QED
  BY <1>1, <1>2, <1>3, <1>4

\* One append of an attempt.
LEMMA WriteJournal ==
    ASSUME NEW s, NEW next, Write(s, next)
    PROVE  JournalStep
BY DEF Write, JournalStep

\* The steps of an attempt.
LEMMA AttemptJournal ==
    ASSUME PrepareAttempt \/ PrepareRun \/ BindRun \/ Launch \/ Fly
           \/ PrepareIntent \/ Contain \/ RecordReport \/ RecoverReceipt
           \/ PublishReceipt \/ RecordEvidenceFailure \/ CommitRun \/ RecordRun
           \/ DecideRetry \/ Cleanup \/ CallFails \/ Settle
    PROVE  JournalStep
<1>1. CASE PrepareAttempt
  <2>1. CASE Preparable(mem, AttemptCondition)
    BY <1>1, <2>1, WriteJournal DEF PrepareAttempt
  <2>2. CASE ~Preparable(mem, AttemptCondition)
    BY <1>1, <2>2 DEF PrepareAttempt, JournalStep, Open
  <2>3. QED
    BY <2>1, <2>2
<1>2. CASE PrepareRun
  BY <1>2 DEF PrepareRun, JournalStep
<1>3. CASE BindRun \/ PrepareIntent \/ RecordReport \/ RecordEvidenceFailure
           \/ CommitRun \/ DecideRetry
  BY <1>3, WriteJournal DEF BindRun, PrepareIntent, RecordReport,
              RecordEvidenceFailure, CommitRun, DecideRetry
<1>4. CASE Launch \/ Fly \/ Contain \/ CallFails \/ Settle
  BY <1>4 DEF Launch, Fly, Contain, CallFails, Settle, JournalStep, Open
<1>5. CASE RecoverReceipt \/ PublishReceipt
  BY <1>5 DEF RecoverReceipt, PublishReceipt, Poison, JournalStep, Open
<1>6. CASE RecordRun
  <2>1. CASE p.class = "complete" /\ p.runs < Runs
    BY <1>6, <2>1 DEF RecordRun, JournalStep, Open
  <2>2. CASE ~(p.class = "complete" /\ p.runs < Runs)
    <3>1. \E s, next : Write(s, next)
      BY <1>6, <2>2 DEF RecordRun
    <3>2. QED
      BY <3>1, WriteJournal
  <2>3. QED
    BY <2>1, <2>2
<1>7. CASE Cleanup
  BY <1>7 DEF Cleanup, JournalStep
<1>8. QED
  BY <1>1, <1>2, <1>3, <1>4, <1>5, <1>6, <1>7

\* The operations of an open tuner, and how it ends.
LEMMA CallJournal ==
    ASSUME Train \/ Freeze \/ Promote \/ Qualify \/ ProceedTraining
           \/ AuthorizeTransition \/ ProceedFreezing \/ ProceedPromotion
           \/ ProceedQualification \/ Refuse \/ LoseAuthority \/ Exit \/ Crash
    PROVE  JournalStep
<1>1. CASE Train \/ Freeze \/ Promote \/ Qualify
  BY <1>1 DEF Train, Freeze, Promote, Qualify, Call, JournalStep, Open
<1>2. CASE ProceedTraining
  BY <1>2 DEF ProceedTraining, At, Quiet, JournalStep, Open
<1>3. CASE AuthorizeTransition
  BY <1>3 DEF AuthorizeTransition, Quiet, JournalStep, Open
<1>4. CASE ProceedFreezing \/ ProceedPromotion \/ ProceedQualification
  BY <1>4 DEF ProceedFreezing, ProceedPromotion, ProceedQualification, Finish,
              At, Quiet, JournalStep, Open
<1>5. CASE Refuse \/ LoseAuthority
  BY <1>5 DEF Refuse, LoseAuthority, Poison, JournalStep, Open
<1>6. CASE Exit \/ Crash
  BY <1>6 DEF Exit, Crash, Stop, JournalStep, Open
<1>7. QED
  BY <1>1, <1>2, <1>3, <1>4, <1>5, <1>6

\* Whatever step is taken, the journal changes in one of those ways.
LEMMA StepsKeepTheJournal ==
    ASSUME Next
    PROVE  JournalStep
<1>1. CASE Step
  BY <1>1, OpeningJournal, AttemptJournal, CallJournal DEF Step
<1>2. CASE ~Step
  BY <1>2, OpeningJournal, CallJournal DEF Next
<1>3. QED
  BY <1>1, <1>2

\* Through every fault and crash, a holder that is not poisoned remembers what
\* a restart would replay (record_append_result, Journal::resume).
THEOREM MemoryHolds == Spec => []MemoryIsDurable
<1>1. Init => MemoryIsDurable
  BY DEF Init, MemoryIsDurable
<1>2. ASSUME MemoryIsDurable, Next
      PROVE  MemoryIsDurable'
  <2>1. JournalStep
    BY <1>2, StepsKeepTheJournal
  <2>2. CASE \E s, o : AppendEntry(s, o)
    BY <2>2 DEF AppendEntry, MemoryIsDurable
  <2>3. CASE ~\E s, o : AppendEntry(s, o)
    BY <1>2, <2>1, <2>3 DEF JournalStep, Load, SameJournal, journalVars,
                            MemoryIsDurable, Open
  <2>4. QED
    BY <2>2, <2>3
<1>3. ASSUME MemoryIsDurable, UNCHANGED vars
      PROVE  MemoryIsDurable'
  BY <1>3 DEF MemoryIsDurable, Open, vars, journalVars
<1>4. QED
  BY <1>1, <1>2, <1>3, PTL DEF Spec
-----------------------------------------------------------------------------
(* The resources.  OneSession is not inductive: an open that acquires      *)
(* again is safe only because what came before it was released first.      *)

SessionInv ==
    /\ sessions \in {0, 1} /\ bindings \in {0, 1}
    /\ pc = "openSession" => sessions = 0 /\ bindings = 0
    /\ pc = "bindVehicle" => bindings = 0

Acquiring == {"openSession", "bindVehicle"}

\* Everything but the open transaction leaves the resources alone.
KeepsResources ==
    /\ UNCHANGED <<sessions, bindings>>
    /\ pc' = pc \/ pc' \notin Acquiring

\* A release asked for everywhere either frees everything or ends the open.
LEMMA ReleaseEmpties ==
    ASSUME SessionInv, NEW next, Release(next), next \notin {"bindVehicle"}
    PROVE  SessionInv'
BY DEF Release, SessionInv

\* An acquisition follows a complete release.
LEMMA OpeningResources ==
    ASSUME SessionInv,
           ReconcilePriorOpen \/ OpenSession \/ BindVehicle \/ RollBack
    PROVE  SessionInv'
<1>1. CASE ReconcilePriorOpen \/ RollBack
  BY <1>1, ReleaseEmpties DEF ReconcilePriorOpen, RollBack
<1>2. CASE OpenSession
  BY <1>2 DEF OpenSession, SessionInv, Goto, Return
<1>3. CASE BindVehicle
  BY <1>3 DEF BindVehicle, SessionInv, Goto, Return
<1>4. QED
  BY <1>1, <1>2, <1>3

\* No other step acquires, or leads to an acquisition.
LEMMA OtherResources ==
    ASSUME OpenJournal \/ LoseJournal \/ EndOpen \/ Reauthorize \/ RecoverPending
           \/ PrepareAttempt \/ PrepareRun \/ BindRun \/ Launch \/ Fly
           \/ PrepareIntent \/ Contain \/ RecordReport \/ RecoverReceipt
           \/ PublishReceipt \/ RecordEvidenceFailure \/ CommitRun \/ RecordRun
           \/ DecideRetry \/ Cleanup \/ CallFails \/ Settle
           \/ Train \/ Freeze \/ Promote \/ Qualify \/ ProceedTraining
           \/ AuthorizeTransition \/ ProceedFreezing \/ ProceedPromotion
           \/ ProceedQualification \/ Refuse \/ LoseAuthority \/ Exit \/ Crash
    PROVE  KeepsResources
<1> USE DEF KeepsResources, Acquiring, SameWorld, worldVars, Goto, Return
<1>1. CASE OpenJournal \/ LoseJournal \/ EndOpen \/ Reauthorize
  BY <1>1 DEF OpenJournal, LoseJournal, EndOpen, Reauthorize
<1>2. CASE RecoverPending
  BY <1>2 DEF RecoverPending, RecoverFrom
<1>3. CASE PrepareAttempt \/ PrepareRun \/ BindRun
  BY <1>3 DEF PrepareAttempt, PrepareRun, BindRun, Write
<1>4. CASE Launch \/ Fly \/ Contain
  BY <1>4 DEF Launch, Fly, Contain
<1>5. CASE PrepareIntent \/ RecordReport \/ RecordEvidenceFailure \/ CommitRun
           \/ DecideRetry
  <2>1. \E s, next : /\ Write(s, next) /\ SameWorld
                    /\ next \in {"contain", "report", "receipt", "publish",
                                "record", "cleanup"}
    BY <1>5 DEF PrepareIntent, RecordReport, RecordEvidenceFailure, CommitRun, DecideRetry
  <2>2. QED
    BY <2>1 DEF Write
<1>6. CASE RecoverReceipt \/ PublishReceipt \/ CallFails
  BY <1>6 DEF RecoverReceipt, PublishReceipt, CallFails
<1>7. CASE RecordRun
  <2>1. CASE p.class = "complete" /\ p.runs < Runs
    BY <1>7, <2>1 DEF RecordRun, EndAttempt
  <2>2. CASE ~(p.class = "complete" /\ p.runs < Runs)
    <3>1. \E s, next : /\ Write(s, next) /\ SameWorld
                      /\ next \in {"cleanup", "decide"}
      BY <1>7, <2>2 DEF RecordRun
    <3>2. QED
      BY <3>1 DEF Write
  <2>3. QED
    BY <2>1, <2>2
<1>8. CASE Cleanup
  BY <1>8 DEF Cleanup, EndAttempt
<1>9. CASE Settle
  BY <1>9 DEF Settle
<1>10. CASE Train \/ Freeze \/ Promote \/ Qualify
  BY <1>10 DEF Train, Freeze, Promote, Qualify, Call, Again
<1>11. CASE ProceedTraining
  BY <1>11 DEF ProceedTraining, At, Towards
<1>12. CASE AuthorizeTransition
  BY <1>12 DEF AuthorizeTransition
<1>13. CASE ProceedFreezing \/ ProceedPromotion \/ ProceedQualification
  BY <1>13 DEF ProceedFreezing, ProceedPromotion, ProceedQualification, Finish, At
<1>14. CASE Refuse \/ LoseAuthority \/ Exit \/ Crash
  BY <1>14 DEF Refuse, LoseAuthority, Exit, Crash, Stop
<1>15. QED
  BY <1>1, <1>2, <1>3, <1>4, <1>5, <1>6, <1>7, <1>8, <1>9, <1>10, <1>11, <1>12,
     <1>13, <1>14

\* However opens fail, roll back or die, at most one simulator session and one
\* vehicle binding exist (reconcile_prior_open_blocking, roll_back_blocking).
THEOREM SessionsAreSingle == Spec => []OneSession
<1>1. Init => SessionInv
  BY DEF Init, SessionInv
<1>2. ASSUME SessionInv, Next
      PROVE  SessionInv'
  <2>1. CASE ReconcilePriorOpen \/ OpenSession \/ BindVehicle \/ RollBack
    BY <1>2, <2>1, OpeningResources
  <2>2. CASE ~(ReconcilePriorOpen \/ OpenSession \/ BindVehicle \/ RollBack)
    <3>1. KeepsResources
      BY <1>2, <2>2, OtherResources DEF Next, Step
    <3>2. QED
      BY <1>2, <3>1 DEF KeepsResources, Acquiring, SessionInv
  <2>3. QED
    BY <2>1, <2>2
<1>3. ASSUME SessionInv, UNCHANGED vars
      PROVE  SessionInv'
  BY <1>3 DEF SessionInv, vars, worldVars
<1>4. SessionInv => OneSession
  BY DEF SessionInv, OneSession
<1>5. QED
  BY <1>1, <1>2, <1>3, <1>4, PTL DEF Spec
-----------------------------------------------------------------------------
(* Flights.  FlownOnce says nothing of the chain; it follows from the      *)
(* chain staying ahead of the flights: the newest trial that flew has been *)
(* prepared, its flown runs are prepared runs, and a run that is prepared  *)
(* and not yet bound has not flown.                                        *)

Flown == DOMAIN flights.ends
NothingFlew == flights.trial = 0 /\ Flown = {}

\* The attempt of a state is its newest trial, and accounts for the flights.
Accounted(s) ==
    LET q == s.pending
    IN  /\ {"trial", "runs", "run"} \subseteq DOMAIN q
        /\ q.trial \in Nat /\ q.trial + 1 = s.next
        /\ q.runs \in Nat
        /\ q.run = "prepared" => q.runs > 0
        /\ flights.trial = q.trial =>
              /\ Flown \subseteq 1 .. q.runs
              /\ q.run = "prepared" => q.runs \notin Flown

Ahead(s) ==
    /\ {"phase", "next", "pending"} \subseteq DOMAIN s
    /\ s.phase # "absent"
    /\ s.next \in Nat
    /\ NothingFlew \/ flights.trial < s.next

Sound(s) == Ahead(s) /\ (s.pending # None => Accounted(s))

AttemptSteps == {"nextRun", "bind", "launch", "fly", "intent", "contain", "report",
                 "receipt", "publish", "evidenceFailure", "commit", "record",
                 "decide", "cleanup"}

\* What the next step of an attempt relies on.
Fits(s, at) ==
    /\ at \in AttemptSteps => Accounted(s)
    /\ at = "bind" => s.pending.run = "prepared"
    /\ at = "launch" => /\ s.pending.run # "prepared" /\ s.pending.runs > 0
                        /\ flights.trial = s.pending.trial =>
                              s.pending.runs \notin Flown

FlightInv ==
    /\ ~reflown
    /\ {"trial", "ends"} \subseteq DOMAIN flights /\ flights.trial \in Nat
    /\ IF saved = NoChain THEN NothingFlew ELSE Sound(saved)
    /\ Holding => mem = saved /\ saved # NoChain /\ Fits(mem, pc)

SameFlights == UNCHANGED <<flights, reflown>>

\* A sound state is the replay of a chain.
LEMMA SoundIsAChain ==
    ASSUME NEW s, Sound(s)
    PROVE  s # NoChain
BY DEF Sound, Ahead, NoChain

\* An append: whatever its outcome, the chain stays sound, and a holder that
\* goes on does so at a step the new state fits.
LEMMA AppendKeepsFlights ==
    ASSUME FlightInv, NEW t, NEW o, AppendEntry(t, o), SameFlights, Sound(t),
           o = "acked" => Fits(t, pc')
    PROVE  FlightInv'
<1>1. t # NoChain
  BY SoundIsAChain
<1>2. Sound(t)' /\ (o = "acked" => Fits(t, pc)')
  BY DEF SameFlights, Sound, Ahead, Accounted, Fits, NothingFlew, Flown
<1>3. QED
  BY <1>1, <1>2 DEF FlightInv, AppendEntry, SameFlights, Holding, Sound, Ahead,
     Accounted, Fits, NothingFlew, Flown

\* A step without an append.
LEMMA StayingKeepsFlights ==
    ASSUME FlightInv, SameJournal, SameFlights,
           Holding => Fits(mem, pc'), Open' => Open
    PROVE  FlightInv'
BY DEF FlightInv, SameJournal, journalVars, SameFlights, Holding, Sound, Ahead,
       Accounted, Fits, NothingFlew, Flown

\* The attempt of s is still the attempt of t.
Continues(s, t) ==
    /\ DOMAIN t = DOMAIN s /\ t.next = s.next /\ t.phase = s.phase
    /\ DOMAIN t.pending = DOMAIN s.pending
    /\ t.pending.trial = s.pending.trial
    /\ t.pending.runs = s.pending.runs
    /\ t.pending.run = "prepared" => s.pending.run = "prepared"

\* An attempt that goes on is accounted for.
LEMMA ContinuingIsSound ==
    ASSUME NEW s, NEW t, Continues(s, t), Ahead(s), Accounted(s)
    PROVE  Sound(t) /\ Accounted(t)
BY DEF Continues, Sound, Ahead, Accounted

\* What an attempt step may rely on.
LEMMA AttemptIsAccounted ==
    ASSUME FlightInv, ~poisoned, pc \in AttemptSteps
    PROVE  Holding /\ Ahead(mem) /\ Accounted(mem) /\ Sound(mem) /\ Fits(mem, pc)
BY DEF FlightInv, Holding, Open, AttemptSteps, Fits, Sound

\* One append within an attempt, to a step that only needs the attempt.
LEMMA WriteKeepsFlights ==
    ASSUME FlightInv, NEW t, NEW next, Write(t, next), SameWorld, Sound(t),
           Fits(t, next)
    PROVE  FlightInv'
<1>1. PICK o \in Outcomes : AppendEntry(t, o) /\ (o = "acked" => pc' = next)
  BY DEF Write, Goto
<1>2. SameFlights
  BY DEF SameWorld, worldVars, SameFlights
<1>3. QED
  BY <1>1, <1>2, AppendKeepsFlights

\* The same with an attempt that continues.
LEMMA ContinuingKeepsFlights ==
    ASSUME FlightInv, pc \in AttemptSteps, NEW t, NEW next,
           Write(t, next), SameWorld, Continues(mem, t), next \notin {"bind", "launch"}
    PROVE  FlightInv'
<1>1. ~poisoned
  BY DEF Write, AppendEntry
<1>2. Sound(t) /\ Accounted(t)
  BY <1>1, AttemptIsAccounted, ContinuingIsSound
<1>3. QED
  BY <1>2, WriteKeepsFlights DEF Fits

\* The events of an attempt after its binding.
LEMMA RecordingKeepsFlights ==
    ASSUME FlightInv,
           PrepareIntent \/ RecordReport \/ RecordEvidenceFailure \/ CommitRun
           \/ DecideRetry
    PROVE  FlightInv'
<1>1. pc \in AttemptSteps /\ ~poisoned
  BY DEF AttemptSteps, PrepareIntent, RecordReport, RecordEvidenceFailure, CommitRun,
         DecideRetry, Write, AppendEntry
<1>2. {"next", "phase", "pending"} \subseteq DOMAIN mem
      /\ {"trial", "runs", "run"} \subseteq DOMAIN mem.pending
  BY <1>1, AttemptIsAccounted DEF Ahead, Accounted
<1>3. CASE PrepareIntent
  <2>1. Continues(mem, Intent(mem, aim))
    BY <1>2 DEF Continues, Intent
  <2>2. QED
    BY <1>1, <1>3, <2>1, ContinuingKeepsFlights DEF PrepareIntent
<1>4. CASE RecordReport
  <2>1. Continues(mem, Report(mem, sound))
    BY <1>2 DEF Continues, Report
  <2>2. QED
    BY <1>1, <1>4, <2>1, ContinuingKeepsFlights DEF RecordReport
<1>5. CASE RecordEvidenceFailure
  <2>1. Continues(mem, RunIs(mem, "evidence"))
    BY <1>2 DEF Continues, RunIs
  <2>2. QED
    BY <1>1, <1>5, <2>1, ContinuingKeepsFlights DEF RecordEvidenceFailure
<1>6. CASE CommitRun
  <2>1. Continues(mem, [RunIs(mem, "committed") EXCEPT !.pending.class = Desired])
    BY <1>2 DEF Continues, RunIs
  <2>2. QED
    BY <1>1, <1>6, <2>1, ContinuingKeepsFlights DEF CommitRun
<1>7. CASE DecideRetry
  <2>1. Continues(mem, Decided(mem))
    BY <1>2 DEF Continues, Decided
  <2>2. QED
    BY <1>1, <1>7, <2>1, ContinuingKeepsFlights DEF DecideRetry
<1>8. QED
  BY <1>3, <1>4, <1>5, <1>6, <1>7

\* An attempt that ends or is left goes on outside the attempt.
LEMMA LeavingAnAttempt ==
    ASSUME NEW how, NEW pending, EndAttempt(how, pending) \/ Return(how)
    PROVE  pc' \notin AttemptSteps
BY DEF EndAttempt, Return, Goto, AttemptSteps

\* The outcome of an attempt.
LEMMA OutcomeKeepsFlights ==
    ASSUME FlightInv, RecordRun
    PROVE  FlightInv'
<1>1. pc \in AttemptSteps /\ ~poisoned
  BY DEF AttemptSteps, RecordRun
<1>2. Holding /\ Accounted(mem)
      /\ {"next", "phase", "pending"} \subseteq DOMAIN mem
      /\ {"trial", "runs", "run"} \subseteq DOMAIN mem.pending
  BY <1>1, AttemptIsAccounted DEF Ahead, Accounted
<1>3. CASE p.class = "complete" /\ p.runs < Runs
  <2>1. SameJournal /\ SameFlights /\ Open
    BY <1>2, <1>3 DEF RecordRun, SameWorld, worldVars, SameFlights, Holding
  <2>2. CASE pc' \notin AttemptSteps
    BY <2>1, <2>2, StayingKeepsFlights DEF Fits, AttemptSteps
  <2>3. CASE pc' \in AttemptSteps
    <3>1. pc' \in {"nextRun", "reauthorize"}
      BY <1>3, <2>3, LeavingAnAttempt DEF RecordRun, Goto
    <3>2. QED
      BY <1>2, <2>1, <3>1, StayingKeepsFlights DEF Fits
  <2>4. QED
    BY <2>2, <2>3
<1>4. CASE ~(p.class = "complete" /\ p.runs < Runs)
  <2>1. PICK kind, chosen, next :
           /\ Write(Completed(mem, kind, chosen), next)
           /\ next \in {"cleanup", "decide"}
    BY <1>4 DEF RecordRun
  <2>2. Continues(mem, Completed(mem, kind, chosen))
    BY <1>2 DEF Continues, Completed
  <2>3. SameWorld
    BY DEF RecordRun
  <2>4. QED
    BY <1>1, <2>1, <2>2, <2>3, ContinuingKeepsFlights
<1>5. QED
  BY <1>3, <1>4

\* The end of an attempt.
LEMMA CleanupKeepsFlights ==
    ASSUME FlightInv, Cleanup
    PROVE  FlightInv'
<1>1. PICK clean \in BOOLEAN, o \in Outcomes :
         /\ AppendEntry(IF clean THEN Finalized(mem) ELSE mem, o)
         /\ IF o # "acked" THEN Return("error")
            ELSE EndAttempt(IF clean /\ ~(live /\ p.outcome = "quarantined")
                            THEN "ok" ELSE "error", ~clean)
  BY DEF Cleanup
<1>2. pc \in AttemptSteps /\ ~poisoned /\ SameFlights
  BY <1>1 DEF AttemptSteps, Cleanup, AppendEntry, SameWorld, worldVars, SameFlights
<1>3. Sound(mem) /\ Ahead(mem)
  BY <1>2, AttemptIsAccounted
<1>4. pc' \notin AttemptSteps
  BY <1>1, LeavingAnAttempt
<1>5. Sound(Finalized(mem))
  BY <1>3 DEF Finalized, Sound, Ahead
<1>6. Sound(IF clean THEN Finalized(mem) ELSE mem)
  BY <1>3, <1>5
<1>7. Fits(IF clean THEN Finalized(mem) ELSE mem, pc')
  BY <1>4 DEF Fits, AttemptSteps
<1>8. QED
  BY <1>1, <1>2, <1>6, <1>7, AppendKeepsFlights

\* A new attempt is the newest trial, and nothing of it has flown.
LEMMA PreparingKeepsFlights ==
    ASSUME FlightInv, PrepareAttempt
    PROVE  FlightInv'
<1>1. ~poisoned /\ pc = "prepare" /\ SameWorld
  BY DEF PrepareAttempt
<1>2. Holding /\ mem = saved /\ Sound(mem) /\ Ahead(mem)
  BY <1>1 DEF Holding, Open, FlightInv, Sound
<1>3. CASE Preparable(mem, AttemptCondition)
  <2>1. Sound(Prepared(mem, AttemptCondition)) /\ Accounted(Prepared(mem, AttemptCondition))
    BY <1>2 DEF Prepared, Sound, Ahead, Accounted, NothingFlew, FlightInv
  <2>2. QED
    BY <1>1, <1>3, <2>1, WriteKeepsFlights DEF PrepareAttempt, Fits
<1>4. CASE ~Preparable(mem, AttemptCondition)
  <2>1. SameJournal /\ SameFlights /\ Open /\ pc' \notin AttemptSteps
    BY <1>1, <1>2, <1>4, LeavingAnAttempt DEF PrepareAttempt, SameWorld, worldVars,
       SameFlights, Holding
  <2>2. QED
    BY <2>1, StayingKeepsFlights DEF Fits, AttemptSteps
<1>5. QED
  BY <1>3, <1>4

\* A new run is prepared and has not flown; its binding is what lets it.
LEMMA RunsKeepFlights ==
    ASSUME FlightInv, PrepareRun \/ BindRun
    PROVE  FlightInv'
<1>1. pc \in AttemptSteps /\ ~poisoned
  BY DEF AttemptSteps, PrepareRun, BindRun, Write, AppendEntry
<1>2. Holding /\ Accounted(mem) /\ Ahead(mem) /\ Fits(mem, pc)
  BY <1>1, AttemptIsAccounted
<1>3. CASE PrepareRun
  <2>1. PICK o \in Outcomes : AppendEntry(RunPrepared(mem), o) /\ (o = "acked" => pc' = "bind")
    BY <1>3 DEF PrepareRun
  <2>2. SameFlights
    BY <1>3 DEF PrepareRun, SameFlights
  <2>3. Sound(RunPrepared(mem)) /\ Accounted(RunPrepared(mem))
    <3> DEFINE t == RunPrepared(mem)
    <3>1. /\ DOMAIN t = DOMAIN mem /\ t.next = mem.next /\ t.phase = mem.phase
          /\ DOMAIN t.pending = DOMAIN mem.pending
          /\ t.pending.trial = mem.pending.trial
          /\ t.pending.runs = mem.pending.runs + 1
      BY <1>2 DEF RunPrepared, Ahead, Accounted
    <3>2. /\ mem.pending.runs \in Nat
          /\ flights.trial = mem.pending.trial => Flown \subseteq 1 .. mem.pending.runs
      BY <1>2 DEF Accounted
    <3>3. /\ t.pending.runs \in Nat /\ t.pending.runs > 0
          /\ flights.trial = t.pending.trial =>
                Flown \subseteq 1 .. t.pending.runs /\ t.pending.runs \notin Flown
      BY <3>1, <3>2
    <3> HIDE DEF t
    <3>4. Sound(t) /\ Accounted(t)
      BY <1>2, <3>1, <3>3 DEF Sound, Ahead, Accounted
    <3>5. QED
      BY <3>4 DEF t
  <2>4. RunPrepared(mem).pending.run = "prepared"
    BY <1>2 DEF RunPrepared, Ahead, Accounted
  <2>5. QED
    BY <2>1, <2>2, <2>3, <2>4, AppendKeepsFlights DEF Fits
<1>4. CASE BindRun
  <2>1. Continues(mem, RunIs(mem, "bound")) /\ RunIs(mem, "bound").pending.run = "bound"
    BY <1>2 DEF RunIs, Continues, Ahead, Accounted
  <2>2. Sound(RunIs(mem, "bound")) /\ Accounted(RunIs(mem, "bound"))
    BY <1>2, <2>1, ContinuingIsSound
  <2>3. mem.pending.run = "prepared"
    BY <1>2, <1>4 DEF BindRun, Fits
  <2>4. Fits(RunIs(mem, "bound"), "launch") /\ Fits(RunIs(mem, "bound"), "intent")
    BY <1>2, <2>1, <2>2, <2>3 DEF Fits, Accounted, Continues
  <2>5. QED
    BY <1>4, <2>2, <2>4, WriteKeepsFlights DEF BindRun
<1>5. QED
  BY <1>3, <1>4

\* The two steps that fly: the run started is bound and had not flown.
LEMMA FlyingKeepsFlights ==
    ASSUME FlightInv, Launch \/ Fly
    PROVE  FlightInv'
<1>1. pc \in AttemptSteps /\ ~poisoned
  BY DEF AttemptSteps, Launch, Fly
<1>2. Holding /\ Accounted(mem) /\ Ahead(mem) /\ Sound(mem) /\ Fits(mem, pc) /\ mem = saved
  BY <1>1, AttemptIsAccounted DEF FlightInv
<1>3. SameJournal /\ saved # NoChain
  BY <1>2, SoundIsAChain DEF Launch, Fly
<1>4. CASE Launch
  <2>1. CASE UNCHANGED <<flights, reflown>>
    <3>1. pc' \in {"intent", "fly"}
      BY <1>4 DEF Launch, Goto
    <3>2. QED
      BY <1>2, <1>3, <2>1, <3>1, StayingKeepsFlights DEF SameFlights, Fits, Holding
  <2>2. CASE ~UNCHANGED <<flights, reflown>>
    <3> DEFINE ends == IF flights.trial = p.trial THEN flights.ends ELSE [i \in {} |-> i]
    <3>1. /\ reflown' = (reflown \/ flights.trial > p.trial \/ p.runs \in DOMAIN ends)
          /\ flights' = [trial |-> p.trial,
                         ends |-> [i \in DOMAIN ends \cup {p.runs} |->
                                     IF i = p.runs THEN "cut" ELSE ends[i]]]
          /\ pc' = "fly"
      BY <1>4, <2>2 DEF Launch, Goto
    <3>2. p.trial \in Nat /\ p.trial + 1 = mem.next /\ p.runs \in Nat /\ p.runs > 0
          /\ p.run # "prepared" /\ flights.trial \in Nat
          /\ (flights.trial = p.trial => p.runs \notin Flown /\ Flown \subseteq 1 .. p.runs)
      BY <1>2, <1>4 DEF Accounted, Fits, Launch, FlightInv, p
    <3>3. flights.trial <= p.trial
      BY <1>2, <3>2 DEF Ahead, NothingFlew
    <3>4. ~reflown'
      <4>1. p.runs \notin DOMAIN ends
        BY <3>2 DEF Flown
      <4>2. ~(flights.trial > p.trial)
        BY <3>2, <3>3
      <4>3. ~reflown
        BY DEF FlightInv
      <4> HIDE DEF ends
      <4>4. QED
        BY <3>1, <4>1, <4>2, <4>3, Zenon
    <3>5. flights'.trial = p.trial /\ Flown' \subseteq 1 .. p.runs
      BY <3>1, <3>2 DEF Flown
    <3>6. Sound(saved)'  /\ Accounted(mem)'
      BY <1>2, <1>3, <3>2, <3>5 DEF Sound, Ahead, Accounted, SameJournal, journalVars, p
    <3>7. QED
      BY <1>2, <1>3, <3>1, <3>2, <3>4, <3>6 DEF FlightInv, Fits, SameJournal, journalVars
  <2>3. QED
    BY <2>1, <2>2
<1>5. CASE Fly
  <2>1. PICK end : flights' = [flights EXCEPT !.ends[p.runs] = end]
    BY <1>5 DEF Fly
  <2>2. flights'.trial = flights.trial /\ Flown' = Flown /\ DOMAIN flights' = DOMAIN flights
    BY <2>1 DEF FlightInv, Flown
  <2>3. reflown' = reflown /\ pc' = "intent"
    BY <1>5 DEF Fly
  <2>4. Sound(saved)' /\ Accounted(mem)'
    BY <1>2, <1>3, <2>2 DEF Sound, Ahead, Accounted, SameJournal, journalVars, NothingFlew
  <2>5. QED
    BY <1>2, <1>3, <2>2, <2>3, <2>4 DEF FlightInv, Fits, SameJournal, journalVars
<1>6. QED
  BY <1>4, <1>5

\* A step without an append that goes on outside the attempt.
LEMMA LeavingKeepsFlights ==
    ASSUME FlightInv, SameJournal, SameWorld, Open' => Open, pc' \notin AttemptSteps
    PROVE  FlightInv'
BY StayingKeepsFlights DEF SameWorld, worldVars, SameFlights, Fits, AttemptSteps

\* Recovery and containment lead back to a run only where it has not flown.
LEMMA RecoveringKeepsFlights ==
    ASSUME FlightInv, RecoverPending \/ Contain \/ Reauthorize
    PROVE  FlightInv'
<1>1. ~poisoned /\ Open /\ SameJournal /\ SameFlights
  BY DEF RecoverPending, Contain, Reauthorize, Open, SameWorld, worldVars, SameFlights
<1>2. Sound(mem) /\ Fits(mem, pc)
  BY <1>1 DEF FlightInv, Holding
<1>3. CASE RecoverPending
  <2>1. CASE Pending
    <3>1. Accounted(mem)
      BY <1>2, <2>1 DEF Sound, Pending, p
    <3>2. pc' \notin {"bind", "launch"}
      BY <1>3, <2>1 DEF RecoverPending, RecoverFrom
    <3>3. QED
      BY <1>1, <3>1, <3>2, StayingKeepsFlights DEF Fits
  <2>2. CASE ~Pending
    BY <1>1, <1>3, <2>2, StayingKeepsFlights DEF RecoverPending, Fits, AttemptSteps
  <2>3. QED
    BY <2>1, <2>2
<1>4. CASE Contain
  <2>1. Accounted(mem)
    BY <1>2, <1>4 DEF Contain, Fits, AttemptSteps
  <2>2. pc' # "launch" /\ (pc' = "bind" => mem.pending.run = "prepared")
    BY <1>4 DEF Contain, p
  <2>3. QED
    BY <1>1, <2>1, <2>2, StayingKeepsFlights DEF Fits
<1>5. CASE Reauthorize
  <2>1. pc' = "nextRun" => Accounted(mem)
    BY <1>2, <1>5 DEF Reauthorize, Sound, Pending, p, Goto, Return
  <2>2. pc' \in {"nextRun", "settle", "rollback", "idle"}
    BY <1>5 DEF Reauthorize, Goto, Return
  <2>3. Fits(mem, pc')
    BY <2>1, <2>2 DEF Fits, AttemptSteps
  <2>4. QED
    BY <1>1, <2>3, StayingKeepsFlights
<1>6. QED
  BY <1>3, <1>4, <1>5

\* The receipts of a run, a failed call, and the settled candidate.
LEMMA ReceiptsKeepFlights ==
    ASSUME FlightInv, RecoverReceipt \/ PublishReceipt \/ CallFails \/ Settle
    PROVE  FlightInv'
<1>1. ~poisoned /\ Open /\ SameFlights /\ Sound(mem)
      /\ (pc # "settle" => Accounted(mem))
  <2>1. ~poisoned /\ Open /\ SameFlights
        /\ (pc \in {"report", "receipt", "publish"} \/ pc = "settle")
    BY DEF RecoverReceipt, PublishReceipt, CallFails, Settle, Open, SameWorld,
           worldVars, SameFlights
  <2>2. QED
    BY <2>1 DEF FlightInv, Holding, Fits, AttemptSteps
<1>2. CASE RecoverReceipt
  <2>1. CASE Poison
    BY <2>1, <1>1 DEF FlightInv, Poison, SameFlights, Holding, Sound, Ahead, Accounted,
       NothingFlew, Flown
  <2>2. CASE ~Poison
    <3>1. SameJournal /\ pc' \in {"commit", "publish"} /\ pc # "settle"
      BY <1>2, <2>2 DEF RecoverReceipt, Goto
    <3>2. QED
      BY <1>1, <3>1, StayingKeepsFlights DEF Fits
  <2>3. QED
    BY <2>1, <2>2
<1>3. CASE PublishReceipt \/ CallFails
  <2>1. SameJournal /\ pc # "settle" /\ pc' \notin {"bind", "launch"}
    BY <1>3 DEF PublishReceipt, CallFails, Goto, Return
  <2>2. QED
    BY <1>1, <2>1, StayingKeepsFlights DEF Fits
<1>4. CASE Settle
  <2>1. SameJournal /\ pc' \notin AttemptSteps
    BY <1>4 DEF Settle, Goto, Return, AttemptSteps
  <2>2. QED
    BY <1>1, <2>1, StayingKeepsFlights DEF Fits, AttemptSteps
<1>5. QED
  BY <1>2, <1>3, <1>4

\* A state that differs in neither attempt nor numbering.
LEMMA SameAttemptIsSound ==
    ASSUME NEW s, NEW t, Sound(s), DOMAIN t = DOMAIN s, t.next = s.next,
           t.pending = s.pending, t.phase # "absent"
    PROVE  Sound(t)
BY DEF Sound, Ahead, Accounted

\* An append outside the attempts.
LEMMA DecidingKeepsFlights ==
    ASSUME FlightInv, NEW t, NEW o, AppendEntry(t, o), SameWorld, Open, Sound(t),
           pc' \notin AttemptSteps
    PROVE  FlightInv'
BY AppendKeepsFlights DEF SameWorld, worldVars, SameFlights, Fits, AttemptSteps

\* Freezing, the decisions, and the authorization of a transition.
LEMMA CallsKeepFlights ==
    ASSUME FlightInv,
           ProceedTraining \/ AuthorizeTransition \/ ProceedFreezing
           \/ ProceedPromotion \/ ProceedQualification
    PROVE  FlightInv'
<1>1. ~poisoned /\ Open /\ SameWorld /\ Sound(mem)
  <2>1. ~poisoned /\ Open /\ SameWorld
    BY DEF ProceedTraining, AuthorizeTransition, ProceedFreezing, ProceedPromotion,
           ProceedQualification, At, Open
  <2>2. QED
    BY <2>1 DEF FlightInv, Holding
<1>2. {"next", "phase", "pending"} \subseteq DOMAIN mem /\ mem.phase # "absent"
  BY <1>1 DEF Sound, Ahead
<1>3. pc' \notin AttemptSteps
  BY DEF ProceedTraining, AuthorizeTransition, ProceedFreezing, ProceedPromotion,
         ProceedQualification, At, Finish, Goto, Return, Towards, AttemptSteps
<1>4. CASE SameJournal
  BY <1>1, <1>3, <1>4, LeavingKeepsFlights
<1>5. CASE ~SameJournal
  <2>1. CASE ProceedTraining
    BY <1>5, <2>1 DEF ProceedTraining, Quiet
  <2>2. CASE AuthorizeTransition
    <3>1. PICK o : AppendEntry([mem EXCEPT !.allowed = proposal], o)
      BY <1>5, <2>2 DEF AuthorizeTransition, Quiet
    <3>2. Sound([mem EXCEPT !.allowed = proposal])
      BY <1>1, <1>2, SameAttemptIsSound
    <3>3. QED
      BY <1>1, <1>3, <3>1, <3>2, DecidingKeepsFlights
  <2>3. CASE ProceedFreezing
    <3>1. PICK o : AppendEntry(Frozen(mem), o)
      BY <1>5, <2>3 DEF ProceedFreezing, Finish, Quiet
    <3>2. Sound(Frozen(mem))
      <4>1. /\ DOMAIN Frozen(mem) = DOMAIN mem /\ Frozen(mem).next = mem.next
            /\ Frozen(mem).pending = mem.pending /\ Frozen(mem).phase # "absent"
        BY <1>2 DEF Frozen
      <4>2. QED
        BY <1>1, <4>1, SameAttemptIsSound
    <3>3. QED
      BY <1>1, <1>3, <3>1, <3>2, DecidingKeepsFlights
  <2>4. CASE ProceedPromotion
    <3>1. PICK d, o : AppendEntry(Closed(mem, d), o)
      BY <1>5, <2>4 DEF ProceedPromotion, Finish, Quiet
    <3>2. Sound(Closed(mem, d))
      <4>1. /\ DOMAIN Closed(mem, d) = DOMAIN mem /\ Closed(mem, d).next = mem.next
            /\ Closed(mem, d).pending = mem.pending /\ Closed(mem, d).phase # "absent"
        BY <1>2 DEF Closed
      <4>2. QED
        BY <1>1, <4>1, SameAttemptIsSound
    <3>3. QED
      BY <1>1, <1>3, <3>1, <3>2, DecidingKeepsFlights
  <2>5. CASE ProceedQualification
    <3>1. PICK v, o : AppendEntry(Sealed(mem, v), o)
      BY <1>5, <2>5 DEF ProceedQualification, Finish, Quiet
    <3>2. Sound(Sealed(mem, v))
      <4>1. /\ DOMAIN Sealed(mem, v) = DOMAIN mem /\ Sealed(mem, v).next = mem.next
            /\ Sealed(mem, v).pending = mem.pending /\ Sealed(mem, v).phase # "absent"
        BY <1>2 DEF Sealed
      <4>2. QED
        BY <1>1, <4>1, SameAttemptIsSound
    <3>3. QED
      BY <1>1, <1>3, <3>1, <3>2, DecidingKeepsFlights
  <2>6. QED
    BY <2>1, <2>2, <2>3, <2>4, <2>5
<1>6. QED
  BY <1>4, <1>5

\* The open transaction, the entry of a call, and every way to stop.
LEMMA OutsideKeepsFlights ==
    ASSUME FlightInv,
           OpenJournal \/ LoseJournal \/ ReconcilePriorOpen \/ OpenSession
           \/ BindVehicle \/ RollBack \/ EndOpen
           \/ Train \/ Freeze \/ Promote \/ Qualify
           \/ Refuse \/ LoseAuthority \/ Exit \/ Crash
    PROVE  FlightInv'
<1>1. CASE OpenJournal
  <2>1. SameFlights /\ pc' \in {"reconcile", "gone"}
    BY <1>1 DEF OpenJournal, SameWorld, worldVars, SameFlights
  <2>2. CASE saved # NoChain
    BY <1>1, <2>1, <2>2 DEF OpenJournal, Load, FlightInv, SameFlights, Sound, Ahead,
       Accounted, NothingFlew, Flown, Fits, AttemptSteps, Holding
  <2>3. CASE saved = NoChain
    <3>1. PICK o : AppendEntry(Start, o)
      BY <1>1, <2>3 DEF OpenJournal
    <3>2. Sound(Start)
      BY <2>3 DEF FlightInv, Start, Sound, Ahead
    <3>3. Fits(Start, pc')
      BY <2>1 DEF Fits, AttemptSteps
    <3>4. QED
      BY <2>1, <3>1, <3>2, <3>3, AppendKeepsFlights
  <2>4. QED
    BY <2>2, <2>3
<1>2. CASE LoseJournal \/ EndOpen \/ Exit \/ Crash
  <2>1. SameFlights /\ saved' = saved /\ pc' = "closed"
    BY <1>2 DEF LoseJournal, EndOpen, Exit, Crash, Stop, SameWorld, worldVars, SameFlights
  <2>2. QED
    BY <2>1 DEF FlightInv, SameFlights, Holding, Open, Sound, Ahead, Accounted,
       NothingFlew, Flown
<1>3. CASE ReconcilePriorOpen \/ OpenSession \/ BindVehicle \/ RollBack
  <2>1. SameFlights /\ SameJournal /\ (Open' => Open) /\ pc' \notin AttemptSteps
    BY <1>3 DEF ReconcilePriorOpen, OpenSession, BindVehicle, RollBack, Release, Goto,
       Return, Open, SameFlights, AttemptSteps
  <2>2. QED
    BY <2>1, StayingKeepsFlights DEF Fits, AttemptSteps
<1>4. CASE Train \/ Freeze \/ Promote \/ Qualify
  <2>1. SameWorld /\ SameJournal /\ Open /\ pc' \in {"recover", "settle"}
    BY <1>4 DEF Train, Freeze, Promote, Qualify, Call, Again, Open
  <2>2. QED
    BY <2>1, LeavingKeepsFlights DEF AttemptSteps
<1>5. CASE Refuse
  <2>1. SameWorld /\ SameJournal /\ Open /\ pc' \notin AttemptSteps
    BY <1>5, LeavingAnAttempt DEF Refuse, Open
  <2>2. QED
    BY <2>1, LeavingKeepsFlights
<1>6. CASE LoseAuthority
  BY <1>6 DEF LoseAuthority, Poison, SameWorld, worldVars, FlightInv, Holding, Sound,
     Ahead, Accounted, NothingFlew, Flown
<1>7. QED
  BY <1>1, <1>2, <1>3, <1>4, <1>5, <1>6

\* Every step keeps the flights accounted for.
LEMMA StepsKeepTheFlights ==
    ASSUME FlightInv, Next
    PROVE  FlightInv'
<1>1. CASE Step
  BY <1>1, RecoveringKeepsFlights, ReceiptsKeepFlights, CallsKeepFlights,
     OutsideKeepsFlights, FlyingKeepsFlights, RunsKeepFlights, PreparingKeepsFlights,
     CleanupKeepsFlights, OutcomeKeepsFlights, RecordingKeepsFlights DEF Step
<1>2. CASE ~Step
  BY <1>2, OutsideKeepsFlights DEF Next
<1>3. QED
  BY <1>1, <1>2

\* No run identity is ever flown twice, wherever the process dies and whichever
\* append loses its acknowledgement (recover_prepared, recover_bound).
THEOREM FlightsAreSingle == Spec => []FlownOnce
<1>1. Init => FlightInv
  BY DEF Init, FlightInv, NothingFlew, Flown, Holding, Open
<1>2. FlightInv /\ Next => FlightInv'
  BY StepsKeepTheFlights
<1>3. ASSUME FlightInv, UNCHANGED vars
      PROVE  FlightInv'
  BY <1>3 DEF FlightInv, vars, journalVars, worldVars, Holding, Open, Sound, Ahead,
     Accounted, Fits, NothingFlew, Flown
<1>4. FlightInv => FlownOnce
  BY DEF FlightInv, FlownOnce
<1>5. QED
  BY <1>1, <1>2, <1>3, <1>4, PTL DEF Spec
-----------------------------------------------------------------------------
(* What the chain says of the flights.  ChainIsTheFact needs what a run has *)
(* recorded at every step of an attempt: which of its runs were flown to a  *)
(* complete end, what the intent and the terminal class of the current one  *)
(* state, and where in the attempt the process is.                          *)

Aims == {"none", "complete", "gate", "error", "recovery"}
FlownEnds == {"complete", "gate"}
Hidden == {"promotionBaseline", "promotionFrozen", "final"}
Challenges == {Challenge(c, u) : c \in Challengers, u \in Suites}

\* The current run of attempt q was flown and ended with e.
Ended(q, e) == flights.trial = q.trial /\ q.runs \in Flown /\ flights.ends[q.runs] = e

\* What an attempt states of its runs is what was flown.
Recorded(q) ==
    /\ \A i \in 1 .. q.runs - 1 :
          flights.trial = q.trial /\ i \in Flown /\ flights.ends[i] = "complete"
    /\ q.run = "none" <=> q.runs = 0
    /\ q.run = "intent" /\ q.aim \in FlownEnds => Ended(q, q.aim)
    /\ q.run \in {"report", "evidence", "committed"} /\ q.class \in FlownEnds =>
          Ended(q, q.class)
    /\ q.outcome \in {"passed", "gate"} =>
          /\ q.run = "committed"
          /\ q.class = IF q.outcome = "passed" THEN "complete" ELSE "gate"
          /\ q.outcome = "passed" => q.runs = Runs
    /\ q.decision = "authorized" => q.index < Limit

\* The state that the replay of a chain gives.
ChainOK(s) ==
    /\ DOMAIN s = DOMAIN Start
    /\ s.phase \in {"searching", "frozen", "closed", "sealed"}
    /\ s.incumbent \in Candidates /\ s.frozen \in Candidates \cup {None}
    /\ s.next \in Nat
    /\ s.allowed \in Conditions \cup {None}
    /\ s.pending \in Attempts \cup {None} /\ s.retry \in Replacements \cup {None}
    /\ s.phase = "frozen" => s.frozen # None
    /\ s.pending # None =>
          /\ s.retry = None /\ Recorded(s.pending)
          /\ s.pending.cond.role \in Hidden => s.phase \in {"frozen", "closed"}

\* An attempt that may prepare its next run.
Continuable(q) ==
    /\ q.outcome = "none" /\ q.runs < Runs
    /\ q.run \in {"none", "committed"}
    /\ q.run = "committed" => q.class = "complete"

\* Where the pending attempt q of a holder is when the next step is at.
Placed(q, at) ==
    /\ at \in AttemptSteps => q # None
    /\ at \in AttemptSteps \ {"decide", "cleanup"} => q.outcome = "none"
    /\ at \in {"nextRun", "reauthorize"} /\ q # None => Continuable(q)
    /\ at = "bind" => q.run = "prepared" /\ (live \/ aim \notin FlownEnds)
    /\ at \in {"launch", "fly", "intent"} => q.run = "bound"
    /\ at = "fly" => flights.trial = q.trial /\ q.runs \in Flown
    /\ at = "intent" /\ aim \in FlownEnds => Ended(q, aim)
    /\ at = "contain" => /\ q.run \in {"prepared", "bound", "intent"}
                         /\ q.run # "intent" => ~live /\ aim \notin FlownEnds
    /\ at = "report" => q.run = "intent"
    /\ at \in {"receipt", "publish", "commit"} => q.run \in {"report", "evidence"}
    /\ at = "evidenceFailure" => q.run = "report"
    /\ at = "record" => q.run = "committed"
    /\ at = "decide" => q.outcome = "quarantined"
    /\ at = "cleanup" => q.outcome # "none"
    /\ at = "proceed" => q = None

\* What the call under way guarantees of the condition it prepares.
CallFits(s, at) ==
    /\ at = "prepare" => s.retry # None \/ op \in {"train", "promote", "qualify"}
    /\ at = "authorize" => op = "train"
    /\ op = "qualify" /\ at # "idle" /\ ~(at = "settle" /\ result = "done") =>
          AuthorizedFinal(s) # None

ChainInv ==
    /\ aim \in Aims
    /\ proposal \in Challenges \cup {None}
    /\ saved # NoChain => ChainOK(saved)
    /\ Holding => /\ mem = saved /\ saved # NoChain
                  /\ Placed(mem.pending, pc) /\ CallFits(mem, pc)

\* The memory of the call that a step leaves typed.
CallTyped == aim' \in Aims /\ proposal' \in Challenges \cup {None}

\* What one append may make of the chain.
Event(s, t) ==
    \/ s = NoChain /\ t = Start
    \/ /\ s # NoChain /\ s.pending # None /\ t.pending # None
       /\ t.pending.cond = s.pending.cond /\ t.pending.index = s.pending.index
       /\ t.results = s.results
    \/ \E c \in Conditions : s # NoChain /\ Preparable(s, c) /\ t = Prepared(s, c)
    \/ s # NoChain /\ s.pending # None /\ s.pending.outcome # "none" /\ t = Finalized(s)
    \/ /\ s # NoChain /\ t.pending = s.pending /\ t.retry = s.retry
       /\ t.results = s.results

\* A step leaves a sound chain, after one event at most.
ChainGoesOn ==
    /\ ChainInv'
    /\ saved' = saved \/ (saved' # NoChain /\ Event(saved, saved'))

\* An append: the chain stays sound whatever its outcome, and a holder that
\* goes on does so at a step that fits.
LEMMA AppendKeepsChain ==
    ASSUME ChainInv, NEW t, NEW o, AppendEntry(t, o), UNCHANGED flights, CallTyped,
           ChainOK(t), Event(saved, t),
           o = "acked" => Placed(mem.pending, pc)' /\ CallFits(mem, pc)'
    PROVE  ChainGoesOn
<1>1. ChainOK(t)' /\ (ChainOK(saved) => (saved' = saved => ChainOK(saved)'))
  BY DEF ChainOK, Recorded, Ended, Flown
<1>2. t # NoChain
  BY DEF ChainOK, NoChain, Start
<1>3. (saved # NoChain)' => ChainOK(saved)'
  BY <1>1 DEF AppendEntry, ChainInv
<1>4. Holding' => o = "acked" /\ mem' = t /\ saved' = t
  BY DEF AppendEntry, Holding
<1>5. ChainInv'
  BY <1>2, <1>3, <1>4 DEF ChainInv, CallTyped
<1>6. saved' = saved \/ (saved' # NoChain /\ Event(saved, saved'))
  <2>1. CASE saved' = t
    BY <1>2, <2>1
  <2>2. CASE saved' # t
    BY <2>2 DEF AppendEntry
  <2>3. QED
    BY <2>1, <2>2
<1>7. QED
  BY <1>5, <1>6 DEF ChainGoesOn

\* A step without an append.
LEMMA StayingKeepsChain ==
    ASSUME ChainInv, SameJournal, UNCHANGED flights, CallTyped, Open' => Open,
           Holding => Placed(mem.pending, pc)' /\ CallFits(mem, pc)'
    PROVE  ChainGoesOn
<1>1. ChainOK(saved) => ChainOK(saved)'
  BY DEF ChainOK, Recorded, Ended, Flown, SameJournal, journalVars
<1>2. Holding' => Holding
  BY DEF Holding, SameJournal, journalVars
<1>3. ChainInv'
  BY <1>1, <1>2 DEF ChainInv, CallTyped, SameJournal, journalVars
<1>4. QED
  BY <1>3 DEF ChainGoesOn, SameJournal, journalVars

\* A call that returns is at no step of an attempt.
LEMMA ReturnFits ==
    ASSUME NEW how, Return(how)
    PROVE  CallTyped /\ Placed(mem.pending, pc)' /\ CallFits(mem, pc)'
<1>1. pc' \in {"rollback", "idle"} /\ (pc' = "rollback" => op' = "open")
      /\ aim' = "none" /\ proposal' = None
  BY DEF Return
<1>2. QED
  BY <1>1 DEF CallTyped, Aims, Placed, CallFits, AttemptSteps

\* A call that goes on keeps its guarantee.
LEMMA CallGoesOn ==
    ASSUME ChainInv, Holding, pc # "idle", ~(pc = "settle" /\ result = "done"),
           op' = op, AuthorizedFinal(mem)' = AuthorizedFinal(mem),
           pc' \notin {"prepare", "authorize"}
    PROVE  CallFits(mem, pc)'
BY DEF ChainInv, CallFits

Amended(s, q) == [s EXCEPT !.pending = q]

\* An attempt of which one more event is recorded.
LEMMA AmendingIsSound ==
    ASSUME NEW s, ChainOK(s), s.pending # None, NEW q \in Attempts,
           q.cond = s.pending.cond, q.index = s.pending.index, Recorded(q)
    PROVE  /\ ChainOK(Amended(s, q)) /\ Amended(s, q).pending = q
           /\ AuthorizedFinal(Amended(s, q)) = AuthorizedFinal(s)
           /\ Event(s, Amended(s, q))
<1> DEFINE t == Amended(s, q)
<1>1. /\ DOMAIN t = DOMAIN s /\ t.pending = q /\ t.phase = s.phase
      /\ t.incumbent = s.incumbent /\ t.frozen = s.frozen /\ t.next = s.next
      /\ t.allowed = s.allowed /\ t.retry = s.retry /\ t.decision = s.decision
      /\ t.results = s.results
  BY DEF ChainOK, Start, Amended
<1> HIDE DEF t
<1>2. ChainOK(t)
  BY <1>1 DEF ChainOK
<1>3. AuthorizedFinal(t) = AuthorizedFinal(s)
  BY <1>1 DEF AuthorizedFinal
<1>4. Event(s, t)
  <2>1. s # NoChain
    BY DEF ChainOK, NoChain, Start
  <2>2. QED
    BY <1>1, <2>1, NoneAssumption DEF Event
<1>5. QED
  BY <1>1, <1>2, <1>3, <1>4 DEF t

\* What an attempt step may rely on.
LEMMA AttemptIsPlaced ==
    ASSUME ChainInv, ~poisoned, pc \in AttemptSteps
    PROVE  /\ Holding /\ mem = saved /\ ChainOK(mem)
           /\ mem.pending # None /\ mem.pending \in Attempts /\ Recorded(mem.pending)
           /\ Placed(mem.pending, pc) /\ CallFits(mem, pc)
<1>1. Holding
  BY DEF Holding, Open, AttemptSteps
<1>2. mem = saved /\ ChainOK(mem) /\ Placed(mem.pending, pc) /\ CallFits(mem, pc)
  BY <1>1 DEF ChainInv
<1>3. mem.pending # None
  BY <1>2 DEF Placed
<1>4. QED
  BY <1>1, <1>2, <1>3 DEF ChainOK

\* One event of an attempt is appended and the attempt goes on at next.
LEMMA WriteKeepsChain ==
    ASSUME ChainInv, pc \in AttemptSteps, NEW q \in Attempts, NEW next,
           q.cond = mem.pending.cond, q.index = mem.pending.index, Recorded(q),
           Placed(q, next),
           next \notin {"prepare", "authorize"},
           Write(Amended(mem, q), next), SameWorld
    PROVE  ChainGoesOn
<1> DEFINE t == Amended(mem, q)
<1>1. PICK o \in Outcomes : /\ AppendEntry(t, o)
                            /\ IF o = "acked" THEN Goto(next) ELSE Return("error")
  BY DEF Write
<1>2. ~poisoned /\ UNCHANGED flights
  BY <1>1 DEF AppendEntry, SameWorld, worldVars
<1>3. Holding /\ mem = saved /\ ChainOK(mem) /\ mem.pending # None
  BY <1>2, AttemptIsPlaced
<1>4. /\ ChainOK(t) /\ t.pending = q /\ AuthorizedFinal(t) = AuthorizedFinal(mem)
      /\ Event(saved, t)
  BY <1>3, AmendingIsSound
<1> HIDE DEF t
<1>5. CASE o = "acked"
  <2>1. mem' = t /\ pc' = next /\ UNCHANGED <<op, live, aim, proposal, result>>
    BY <1>1, <1>5 DEF AppendEntry, Goto, SameCall, callVars
  <2>2. CallTyped
    BY <2>1 DEF CallTyped, ChainInv
  <2>3. Placed(mem.pending, pc)'
    BY <1>2, <1>4, <2>1 DEF Placed, Ended, Flown, Continuable
  <2>4. AuthorizedFinal(mem)' = AuthorizedFinal(mem)
    BY <1>4, <2>1 DEF AuthorizedFinal
  <2>5. CallFits(mem, pc)'
    BY <1>3, <2>1, <2>4, CallGoesOn DEF AttemptSteps
  <2>6. QED
    BY <1>1, <1>2, <1>4, <2>2, <2>3, <2>5, AppendKeepsChain
<1>6. CASE o # "acked"
  BY <1>1, <1>2, <1>4, <1>6, AppendKeepsChain, ReturnFits
<1>7. QED
  BY <1>5, <1>6

\* The binding of a run and what follows it, up to its terminal commit.
LEMMA RecordingKeepsChain ==
    ASSUME ChainInv,
           BindRun \/ PrepareIntent \/ RecordReport \/ RecordEvidenceFailure \/ CommitRun
    PROVE  ChainGoesOn
<1>1. pc \in AttemptSteps /\ ~poisoned /\ SameWorld
  BY DEF AttemptSteps, BindRun, PrepareIntent, RecordReport, RecordEvidenceFailure,
         CommitRun, Write, AppendEntry
<1>2. /\ ChainOK(mem) /\ p # None /\ p \in Attempts /\ Recorded(p) /\ Placed(p, pc)
      /\ p.outcome = "none"
  BY <1>1, AttemptIsPlaced DEF Placed, BindRun, PrepareIntent, RecordReport,
     RecordEvidenceFailure, CommitRun, p, AttemptSteps
<1>3. "pending" \in DOMAIN mem
  BY <1>2 DEF ChainOK, Start
<1>4. CASE BindRun
  <2> DEFINE q == [p EXCEPT !.run = "bound"]
  <2>1. RunIs(mem, "bound") = Amended(mem, q)
    BY <1>2, <1>3 DEF RunIs, Amended, p, Attempts
  <2>2. q \in Attempts /\ q.cond = p.cond /\ q.index = p.index /\ Recorded(q)
    BY <1>2, <1>4 DEF Attempts, Recorded, Ended, BindRun, Placed
  <2>3. p.run = "prepared" /\ (live \/ aim \notin FlownEnds)
    BY <1>2, <1>4 DEF BindRun, Placed
  <2>4. Placed(q, IF live THEN "launch" ELSE "intent")
    BY <1>2, <2>3, NoneAssumption DEF Placed, AttemptSteps, Attempts
  <2>5. Write(Amended(mem, q), IF live THEN "launch" ELSE "intent")
    BY <1>4, <2>1 DEF BindRun
  <2> HIDE DEF q
  <2>6. QED
    BY <1>1, <2>2, <2>4, <2>5, WriteKeepsChain DEF p
<1>5. CASE PrepareIntent
  <2> DEFINE q == [p EXCEPT !.run = "intent", !.aim = aim]
  <2>1. Intent(mem, aim) = Amended(mem, q)
    BY <1>2, <1>3 DEF Intent, Amended, p, Attempts
  <2>2. p.run = "bound" /\ (aim \in FlownEnds => Ended(p, aim))
    BY <1>2, <1>5 DEF PrepareIntent, Placed
  <2>3. q \in Attempts /\ q.cond = p.cond /\ q.index = p.index
    BY <1>2, ZenonT(40) DEF Attempts, ChainInv, Aims
  <2>4. Recorded(q)
    BY <1>2, <2>2 DEF Attempts, Recorded, Ended
  <2>5. Placed(q, IF live THEN "contain" ELSE "report")
    BY <1>2, <2>3, NoneAssumption, ZenonT(40) DEF Placed, AttemptSteps, Attempts
  <2>6. Write(Amended(mem, q), IF live THEN "contain" ELSE "report")
    BY <1>5, <2>1 DEF PrepareIntent
  <2> HIDE DEF q
  <2>7. QED
    BY <1>1, <2>3, <2>4, <2>5, <2>6, WriteKeepsChain DEF p
<1>6. CASE RecordReport
  <2> DEFINE c == Classify(p.aim, sound)
             q == [p EXCEPT !.run = "report", !.class = c]
  <2>1. Report(mem, sound) = Amended(mem, q)
    BY <1>2, <1>3 DEF Report, Amended, p, Attempts
  <2>2. p.run = "intent" /\ (p.aim \in FlownEnds => Ended(p, p.aim))
    BY <1>2, <1>6 DEF RecordReport, Placed, Recorded
  <2>3. c \in {"complete", "gate", "quarantine"} /\ (c \in FlownEnds => c = p.aim)
    BY DEF Classify, FlownEnds
  <2> HIDE DEF c
  <2>4. q \in Attempts /\ q.cond = p.cond /\ q.index = p.index
    BY <1>2, <2>3 DEF Attempts
  <2>5. Recorded(q)
    BY <1>2, <2>2, <2>3 DEF Attempts, Recorded, Ended
  <2>6. Placed(q, "receipt")
    BY <1>2, <2>4, NoneAssumption, ZenonT(40) DEF Placed, AttemptSteps, Attempts
  <2>7. Write(Amended(mem, q), "receipt")
    BY <1>6, <2>1 DEF RecordReport
  <2> HIDE DEF q
  <2>8. QED
    BY <1>1, <2>4, <2>5, <2>6, <2>7, WriteKeepsChain DEF p
<1>7. CASE RecordEvidenceFailure
  <2> DEFINE q == [p EXCEPT !.run = "evidence"]
  <2>1. RunIs(mem, "evidence") = Amended(mem, q)
    BY <1>2, <1>3 DEF RunIs, Amended, p, Attempts
  <2>2. p.run = "report"
    BY <1>2, <1>7 DEF RecordEvidenceFailure, Placed
  <2>3. q \in Attempts /\ q.cond = p.cond /\ q.index = p.index /\ Recorded(q)
    BY <1>2, <2>2 DEF Attempts, Recorded, Ended
  <2>4. Placed(q, "publish")
    BY <1>2, NoneAssumption DEF Placed, AttemptSteps, Attempts
  <2>5. Write(Amended(mem, q), "publish")
    BY <1>7, <2>1 DEF RecordEvidenceFailure
  <2> HIDE DEF q
  <2>6. QED
    BY <1>1, <2>3, <2>4, <2>5, WriteKeepsChain DEF p
<1>8. CASE CommitRun
  <2> DEFINE d == Desired
             q == [p EXCEPT !.run = "committed", !.class = d]
  <2>1. [RunIs(mem, "committed") EXCEPT !.pending.class = d] = Amended(mem, q)
    BY <1>2, <1>3 DEF RunIs, Amended, p, Attempts
  <2>2. p.run \in {"report", "evidence"}
    BY <1>2, <1>8 DEF CommitRun, Placed
  <2>3. d = p.class \/ d = "evidenceFailure"
    BY DEF Desired
  <2> HIDE DEF d
  <2>4. q \in Attempts /\ q.cond = p.cond /\ q.index = p.index
    BY <1>2, <2>3 DEF Attempts
  <2>5. Recorded(q)
    BY <1>2, <2>2, <2>3 DEF Attempts, Recorded, Ended, FlownEnds
  <2>6. Placed(q, "record")
    BY <1>2, <2>4, NoneAssumption, ZenonT(40) DEF Placed, AttemptSteps, Attempts
  <2>7. Write(Amended(mem, q), "record")
    BY <1>8, <2>1 DEF CommitRun, d
  <2> HIDE DEF q
  <2>8. QED
    BY <1>1, <2>4, <2>5, <2>6, <2>7, WriteKeepsChain DEF p
<1>9. QED
  BY <1>4, <1>5, <1>6, <1>7, <1>8

\* The next run of a plan is prepared once all before it were complete.
LEMMA PreparingRunKeepsChain ==
    ASSUME ChainInv, PrepareRun
    PROVE  ChainGoesOn
<1> DEFINE q == [p EXCEPT !.runs = @ + 1, !.run = "prepared", !.aim = "none",
                          !.class = "none"]
           t == Amended(mem, q)
<1>1. PICK o \in Outcomes :
         /\ AppendEntry(RunPrepared(mem), o)
         /\ IF o # "acked" THEN Return("error")
            ELSE /\ pc' = "bind" /\ live' = TRUE
                 /\ UNCHANGED <<op, answer, aim, sound, result, left, proposal>>
  BY DEF PrepareRun
<1>2. pc = "nextRun" /\ pc \in AttemptSteps /\ ~poisoned /\ UNCHANGED flights
  BY <1>1 DEF PrepareRun, AttemptSteps, AppendEntry
<1>3. /\ Holding /\ mem = saved /\ ChainOK(mem) /\ p # None /\ p \in Attempts /\ Recorded(p)
      /\ Continuable(p)
  BY <1>2, AttemptIsPlaced DEF Placed, p
<1>4. RunPrepared(mem) = t
  BY <1>3 DEF RunPrepared, Amended, p, Attempts, ChainOK, Start
<1>5. /\ q.trial = p.trial /\ q.cond = p.cond /\ q.runs = p.runs + 1
      /\ q.run = "prepared" /\ q.outcome = "none" /\ q.decision = p.decision
      /\ q.index = p.index /\ p.runs \in Nat /\ p.runs < Runs /\ Runs \in Nat
      /\ q \in Attempts
  <2>1. /\ p.runs \in Nat /\ p.runs < Runs /\ Runs \in Nat
        /\ p.outcome = "none" /\ p.runs + 1 \in 0 .. Runs
    BY <1>3, CampaignAssumption DEF Attempts, Continuable
  <2>2. QED
    BY <1>3, <2>1 DEF Attempts
<1>6. Recorded(q)
  <2>1. ASSUME NEW i \in 1 .. p.runs
        PROVE  flights.trial = p.trial /\ i \in Flown /\ flights.ends[i] = "complete"
    <3>1. CASE i = p.runs
      <4>1. Ended(p, "complete")
        BY <1>3, <1>5, <3>1 DEF Recorded, Continuable, FlownEnds
      <4>2. QED
        BY <3>1, <4>1 DEF Ended
    <3>2. CASE i # p.runs
      BY <1>3, <1>5, <3>2 DEF Recorded
    <3>3. QED
      BY <3>1, <3>2
  <2>2. p.decision = "authorized" => p.index < Limit
    BY <1>3 DEF Recorded
  <2> HIDE DEF q
  <2>3. 1 .. q.runs - 1 = 1 .. p.runs /\ q.runs # 0
    BY <1>5
  <2>4. QED
    BY <1>5, <2>1, <2>2, <2>3 DEF Recorded
<1> HIDE DEF q
<1>7. /\ ChainOK(t) /\ t.pending = q /\ AuthorizedFinal(t) = AuthorizedFinal(mem)
      /\ Event(saved, t)
  BY <1>3, <1>5, <1>6, AmendingIsSound DEF p
<1> HIDE DEF t
<1>8. CASE o = "acked"
  <2>1. mem' = t /\ pc' = "bind" /\ live' = TRUE /\ UNCHANGED <<op, aim, proposal, result>>
    BY <1>1, <1>4, <1>8 DEF AppendEntry
  <2>2. CallTyped
    BY <2>1 DEF CallTyped, ChainInv
  <2>3. Placed(mem.pending, pc)'
    BY <1>5, <1>7, <2>1, NoneAssumption DEF Placed, AttemptSteps
  <2>4. AuthorizedFinal(mem)' = AuthorizedFinal(mem)
    BY <1>7, <2>1 DEF AuthorizedFinal
  <2>5. CallFits(mem, pc)'
    BY <1>2, <1>3, <2>1, <2>4, CallGoesOn
  <2>6. QED
    BY <1>1, <1>2, <1>4, <1>7, <2>2, <2>3, <2>5, AppendKeepsChain
<1>9. CASE o # "acked"
  BY <1>1, <1>2, <1>4, <1>7, <1>9, AppendKeepsChain, ReturnFits
<1>10. QED
  BY <1>8, <1>9

\* The outcome of an attempt and the decision about its replacement.
LEMMA OutcomeKeepsChain ==
    ASSUME ChainInv, RecordRun \/ DecideRetry
    PROVE  ChainGoesOn
<1>1. pc \in AttemptSteps /\ ~poisoned /\ SameWorld
  BY DEF AttemptSteps, RecordRun, DecideRetry, Write, AppendEntry
<1>2. /\ Holding /\ ChainOK(mem) /\ p # None /\ p \in Attempts /\ Recorded(p)
      /\ Placed(p, pc)
  BY <1>1, AttemptIsPlaced DEF p
<1>3. "pending" \in DOMAIN mem
  BY <1>2 DEF ChainOK, Start
<1>4. CASE DecideRetry
  <2> DEFINE d == IF p.index < Limit THEN "authorized" ELSE "exhausted"
             q == [p EXCEPT !.decision = d]
  <2>1. Decided(mem) = Amended(mem, q)
    BY <1>2, <1>3 DEF Decided, Amended, p, Attempts
  <2>2. p.outcome = "quarantined"
    BY <1>2, <1>4 DEF DecideRetry, Placed
  <2>3. d \in {"authorized", "exhausted"} /\ (d = "authorized" => p.index < Limit)
    OBVIOUS
  <2> HIDE DEF d
  <2>4. q \in Attempts /\ q.cond = p.cond /\ q.index = p.index
    BY <1>2, <2>3 DEF Attempts
  <2>5. Recorded(q)
    BY <1>2, <2>2, <2>3 DEF Attempts, Recorded, Ended
  <2>6. Placed(q, "cleanup")
    BY <1>2, <2>2, <2>4, NoneAssumption DEF Placed, AttemptSteps, Attempts
  <2>7. Write(Amended(mem, q), "cleanup")
    BY <1>4, <2>1 DEF DecideRetry
  <2> HIDE DEF q
  <2>8. QED
    BY <1>1, <2>4, <2>5, <2>6, <2>7, WriteKeepsChain DEF p
<1>5. CASE RecordRun /\ p.class = "complete" /\ p.runs < Runs
  <2>1. p.outcome = "none" /\ p.run = "committed"
    BY <1>2, <1>5 DEF RecordRun, Placed, AttemptSteps
  <2>2. SameJournal /\ UNCHANGED flights /\ Open /\ mem' = mem
    BY <1>2, <1>5 DEF RecordRun, SameWorld, worldVars, Holding, SameJournal, journalVars
  <2>3. CASE EndAttempt("error", TRUE)
    <3>1. Return("error")
      BY <2>3 DEF EndAttempt
    <3>2. QED
      BY <2>2, <3>1, ReturnFits, StayingKeepsChain
  <2>4. CASE ~EndAttempt("error", TRUE)
    <3>1. pc' \in {"reauthorize", "nextRun"} /\ SameCall
      BY <1>5, <2>4 DEF RecordRun, Goto
    <3>2. UNCHANGED <<op, live, aim, proposal, result>>
      BY <3>1 DEF SameCall, callVars
    <3>3. Continuable(p)
      BY <1>5, <2>1 DEF Continuable
    <3>4. Placed(mem.pending, pc)'
      <4>1. p' = p /\ Continuable(p')
        BY <2>2, <3>3 DEF p
      <4>2. QED
        BY <1>2, <2>1, <3>1, <4>1 DEF Placed, AttemptSteps, p, Continuable
    <3>5. AuthorizedFinal(mem)' = AuthorizedFinal(mem)
      BY <2>2 DEF AuthorizedFinal
    <3>6. CallFits(mem, pc)'
      BY <1>1, <1>2, <3>1, <3>2, <3>5, CallGoesOn DEF AttemptSteps
    <3>7. CallTyped
      BY <3>2 DEF CallTyped, ChainInv
    <3>8. QED
      BY <2>2, <3>4, <3>6, <3>7, StayingKeepsChain
  <2>5. QED
    BY <2>3, <2>4
<1>6. CASE RecordRun /\ ~(p.class = "complete" /\ p.runs < Runs)
  <2>1. PICK kind, chosen, next :
           /\ Write(Completed(mem, kind, chosen), next)
           /\ chosen \in BOOLEAN
           /\ \/ kind = "passed" /\ p.class = "complete" /\ next = "cleanup"
              \/ kind = "gate" /\ p.class = "gate" /\ next = "cleanup"
              \/ kind = "quarantined" /\ next = "decide"
    BY <1>6 DEF RecordRun, Choices
  <2> DEFINE q == [p EXCEPT !.outcome = kind, !.selected = chosen]
  <2>2. Completed(mem, kind, chosen) = Amended(mem, q)
    BY <1>2, <1>3 DEF Completed, Amended, p, Attempts
  <2>3. p.outcome = "none" /\ p.run = "committed"
    BY <1>2, <1>6 DEF RecordRun, Placed, AttemptSteps
  <2>4. q \in Attempts /\ q.cond = p.cond /\ q.index = p.index
    BY <1>2, <2>1 DEF Attempts
  <2>5. p.class = "complete" => p.runs = Runs
    BY <1>2, <1>6, CampaignAssumption DEF Attempts
  <2>6. Recorded(q)
    BY <1>2, <2>1, <2>3, <2>5 DEF Attempts, Recorded, Ended
  <2>7. Placed(q, next)
    BY <1>2, <2>1, <2>4, NoneAssumption, ZenonT(40) DEF Placed, AttemptSteps, Attempts
  <2>8. Write(Amended(mem, q), next) /\ next \notin {"prepare", "authorize"}
    BY <2>1, <2>2
  <2> HIDE DEF q
  <2>9. QED
    BY <1>1, <2>4, <2>6, <2>7, <2>8, WriteKeepsChain DEF p
<1>7. QED
  BY <1>4, <1>5, <1>6

\* What an attempt that ends, is abandoned to a replacement or stays pending
\* leaves behind.
LEMMA FinalizingIsSound ==
    ASSUME NEW s, ChainOK(s), s.pending # None
    PROVE  /\ ChainOK(Finalized(s)) /\ Finalized(s).pending = None
           /\ AuthorizedFinal(Finalized(s)) = AuthorizedFinal(s)
<1> DEFINE q == s.pending
           t == [s EXCEPT !.pending = None]
           f == Finalized(s)
<1>1. /\ q \in Attempts /\ q.cond \in Conditions /\ s.retry = None
      /\ q.decision = "authorized" => q.index < Limit
      /\ q.index \in Nat /\ Limit \in Nat
  BY CampaignAssumption DEF ChainOK, Attempts, Recorded
<1>2. q.cond.cand \in Candidates
  BY <1>1, CampaignAssumption
     DEF Conditions, Baseline, Challenge, PromotionBaseline, Condition, Candidates
<1>3. /\ DOMAIN t = DOMAIN Start /\ t.pending = None
      /\ t.phase = s.phase /\ t.frozen = s.frozen /\ t.allowed = s.allowed
      /\ t.retry = None /\ t.incumbent = s.incumbent /\ t.decision = s.decision
      /\ t.next = s.next
  BY <1>1 DEF ChainOK, Start
<1>4. /\ DOMAIN f = DOMAIN Start /\ f.pending = None
      /\ f.phase = s.phase /\ f.frozen = s.frozen /\ f.allowed = s.allowed
      /\ f.decision = s.decision /\ f.next = s.next
      /\ f.incumbent \in {s.incumbent, q.cond.cand}
      /\ f.retry = IF q.decision = "authorized" THEN [cond |-> q.cond, index |-> q.index + 1]
                   ELSE None
  <2>1. CASE q.decision = "authorized"
    <3>1. f = [t EXCEPT !.retry = [cond |-> q.cond, index |-> q.index + 1]]
      BY <2>1 DEF Finalized
    <3> HIDE DEF f, t, q
    <3>2. QED
      BY <1>3, <2>1, <3>1 DEF Start
  <2>2. CASE q.decision # "authorized"
    <3> DEFINE wins == q.outcome = "passed" /\ q.selected
    <3>1. f = [t EXCEPT !.results = [c \in DOMAIN s.results \cup {q.cond} |->
                                      IF c = q.cond THEN q.outcome ELSE s.results[c]],
                       !.safe = @ \/ wins,
                       !.incumbent = IF wins /\ q.cond.role = "challenger"
                                     THEN q.cond.cand ELSE @]
      BY <2>2 DEF Finalized
    <3> HIDE DEF f, t, q, wins
    <3>2. QED
      BY <1>3, <2>2, <3>1 DEF Start
  <2>3. QED
    BY <2>1, <2>2
<1>5. f.retry \in Replacements \cup {None}
  BY <1>1, <1>4 DEF Replacements
<1> HIDE DEF f, q, t
<1>6. ChainOK(f)
  BY <1>2, <1>4, <1>5 DEF ChainOK
<1>7. AuthorizedFinal(f) = AuthorizedFinal(s)
  BY <1>4 DEF AuthorizedFinal
<1>8. QED
  BY <1>4, <1>6, <1>7 DEF f

\* The end of an attempt.
LEMMA CleanupKeepsChain ==
    ASSUME ChainInv, Cleanup
    PROVE  ChainGoesOn
<1>1. PICK clean \in BOOLEAN, o \in Outcomes :
         /\ AppendEntry(IF clean THEN Finalized(mem) ELSE mem, o)
         /\ IF o # "acked" THEN Return("error")
            ELSE EndAttempt(IF clean /\ ~(live /\ p.outcome = "quarantined")
                            THEN "ok" ELSE "error", ~clean)
  BY DEF Cleanup
<1> DEFINE t == IF clean THEN Finalized(mem) ELSE mem
<1>2. pc = "cleanup" /\ pc \in AttemptSteps /\ ~poisoned /\ UNCHANGED flights
  BY <1>1 DEF AttemptSteps, Cleanup, AppendEntry, SameWorld, worldVars
<1>3. /\ Holding /\ mem = saved /\ ChainOK(mem) /\ mem.pending # None
      /\ mem.pending.outcome # "none" /\ mem # NoChain
  BY <1>2, AttemptIsPlaced DEF Placed, ChainInv
<1>4. /\ ChainOK(t) /\ AuthorizedFinal(t) = AuthorizedFinal(mem)
      /\ (clean => t.pending = None) /\ Event(saved, t)
  BY <1>3, FinalizingIsSound DEF Event
<1>5. CASE o # "acked" \/ ~clean
  <2>1. Return("error")
    BY <1>1, <1>5 DEF EndAttempt
  <2>2. QED
    BY <1>1, <1>2, <1>4, <2>1, AppendKeepsChain, ReturnFits
<1>6. CASE o = "acked" /\ clean
  <2>1. PICK how \in {"ok", "error"} : EndAttempt(how, FALSE)
    BY <1>1, <1>6
  <2>2. CASE Return("error")
    BY <1>1, <1>2, <1>4, <2>2, AppendKeepsChain, ReturnFits
  <2>3. CASE ~Return("error")
    <3>1. /\ pc' \in {"settle", "reauthorize"} /\ UNCHANGED <<op, aim, proposal>>
          /\ pc' = "settle" => result' \in {"ok", "error"} \/ op = "open"
      BY <2>1, <2>3 DEF EndAttempt, Goto, SameCall, callVars
    <3> HIDE DEF t
    <3>2. mem' = t /\ t.pending = None
      BY <1>1, <1>4, <1>6 DEF AppendEntry, t
    <3>3. CallTyped
      BY <3>1 DEF CallTyped, ChainInv
    <3>4. Placed(mem.pending, pc)'
      BY <3>1, <3>2 DEF Placed, AttemptSteps
    <3>5. AuthorizedFinal(mem)' = AuthorizedFinal(mem)
      BY <1>4, <3>2 DEF AuthorizedFinal
    <3>6. CallFits(mem, pc)'
      BY <1>2, <1>3, <3>1, <3>5, CallGoesOn
    <3>7. QED
      BY <1>1, <1>2, <1>4, <3>3, <3>4, <3>6, AppendKeepsChain DEF t
  <2>4. QED
    BY <2>2, <2>3
<1>7. QED
  BY <1>5, <1>6

\* What is prepared is a condition of the campaign: a candidate that exists, in
\* a role and a suite that exist.
LEMMA AttemptsAreConditions ==
    ASSUME ChainInv, Holding, pc = "prepare", Preparable(mem, AttemptCondition)
    PROVE  AttemptCondition \in Conditions
<1> DEFINE c == AttemptCondition
<1>1. ChainOK(mem) /\ CallFits(mem, pc)
  BY DEF ChainInv
<1>2. \A d \in Candidates, u \in Suites : Baseline(d, u) \in Conditions
  BY DEF Conditions
<1>3. CASE mem.retry # None
  BY <1>1, <1>3 DEF AttemptCondition, ChainOK, Replacements
<1>4. CASE mem.retry = None /\ op = "train"
  <2>1. FirstSuite \in Suites /\ mem.incumbent \in Candidates
    BY <1>1, CampaignAssumption DEF ChainOK
  <2>2. proposal # None => proposal.suite \in Suites
    BY DEF ChainInv, Challenges, Challenge, Condition
  <2>3. mem.allowed # None => mem.allowed \in Conditions
    BY <1>1 DEF ChainOK
  <2>4. QED
    BY <1>2, <1>4, <2>1, <2>2, <2>3 DEF AttemptCondition, NewerBaseline
<1>5. CASE mem.retry = None /\ op = "promote"
  <2>1. CASE Has(mem, PromotionBaseline)
    <3>1. c = PromotionFrozen(mem)
      BY <1>5, <2>1 DEF AttemptCondition
    <3>2. mem.phase = "frozen"
      BY <3>1 DEF Preparable, RoleAllowed, PromotionFrozen, Condition
    <3>3. mem.frozen \in Candidates
      BY <1>1, <3>2 DEF ChainOK
    <3>4. QED
      BY <3>1, <3>3 DEF PromotionFrozen, Conditions
  <2>2. CASE ~Has(mem, PromotionBaseline)
    BY <1>5, <2>2 DEF AttemptCondition, Conditions
  <2>3. QED
    BY <2>1, <2>2
<1>6. CASE mem.retry = None /\ op = "qualify"
  <2>1. c = Final(mem) /\ AuthorizedFinal(mem) # None
    BY <1>1, <1>6 DEF AttemptCondition, CallFits
  <2>2. AuthorizedFinal(mem) \in Candidates
    BY <1>1, <2>1 DEF AuthorizedFinal, ChainOK, Candidates
  <2>3. QED
    BY <2>1, <2>2 DEF Final, Conditions
<1>7. QED
  BY <1>1, <1>3, <1>4, <1>5, <1>6 DEF CallFits

\* A new attempt states no flight.
LEMMA PreparingIsSound ==
    ASSUME NEW s, ChainOK(s), NEW c \in Conditions, Preparable(s, c)
    PROVE  LET t == Prepared(s, c)
           IN  /\ ChainOK(t) /\ t.pending # None
               /\ t.pending.cond = c /\ t.pending.runs = 0 /\ t.pending.run = "none"
               /\ t.pending.outcome = "none"
               /\ t.pending.index = IF s.retry = None THEN 0 ELSE s.retry.index
               /\ t.results = s.results
               /\ AuthorizedFinal(t) = AuthorizedFinal(s)
<1> DEFINE q == [trial |-> s.next, cond |-> c,
                 index |-> IF s.retry = None THEN 0 ELSE s.retry.index,
                 runs |-> 0, run |-> "none", aim |-> "none", class |-> "none",
                 outcome |-> "none", selected |-> FALSE, decision |-> "none"]
           t == Prepared(s, c)
<1>1. s.next \in Nat /\ Limit \in Nat /\ Runs \in Nat
      /\ (s.retry # None => s.retry.index \in 0 .. Limit)
  BY CampaignAssumption DEF ChainOK, Replacements
<1>2. q \in Attempts
  BY <1>1 DEF Attempts
<1>3. q # None
  BY <1>2, NoneAssumption
<1>4. c.role \in Hidden => s.phase \in {"frozen", "closed"}
  BY DEF Preparable, RoleAllowed, Hidden
<1>5. Recorded(q)
  BY DEF Recorded
<1>6. /\ q.cond = c /\ q.runs = 0 /\ q.run = "none" /\ q.outcome = "none"
      /\ q.index = IF s.retry = None THEN 0 ELSE s.retry.index
  OBVIOUS
<1>7. t = [s EXCEPT !.allowed = None, !.retry = None, !.next = @ + 1, !.pending = q]
  BY DEF Prepared
<1> HIDE DEF q, t
<1>8. /\ DOMAIN t = DOMAIN s /\ t.pending = q /\ t.retry = None /\ t.allowed = None
      /\ t.next = s.next + 1 /\ t.phase = s.phase /\ t.incumbent = s.incumbent
      /\ t.frozen = s.frozen /\ t.decision = s.decision /\ t.results = s.results
  BY <1>7 DEF ChainOK, Start
<1>9. ChainOK(t)
  BY <1>1, <1>2, <1>4, <1>5, <1>6, <1>8 DEF ChainOK
<1>10. AuthorizedFinal(t) = AuthorizedFinal(s)
  BY <1>8 DEF AuthorizedFinal
<1>11. QED
  BY <1>3, <1>6, <1>8, <1>9, <1>10 DEF t

\* A new attempt.
LEMMA PreparingKeepsChain ==
    ASSUME ChainInv, PrepareAttempt
    PROVE  ChainGoesOn
<1>1. pc = "prepare" /\ ~poisoned /\ UNCHANGED flights
  BY DEF PrepareAttempt, SameWorld, worldVars
<1>2. Holding /\ ChainOK(mem) /\ mem = saved /\ saved # NoChain
  BY <1>1 DEF Holding, Open, ChainInv
<1>3. CASE ~Preparable(mem, AttemptCondition)
  <2>1. SameJournal /\ Return("error") /\ Open
    BY <1>2, <1>3 DEF PrepareAttempt, Holding
  <2>2. QED
    BY <1>1, <2>1, ReturnFits, StayingKeepsChain
<1>4. CASE Preparable(mem, AttemptCondition)
  <2> DEFINE c == AttemptCondition
             t == Prepared(mem, c)
  <2>1. c \in Conditions
    BY <1>1, <1>2, <1>4, AttemptsAreConditions
  <2>2. /\ ChainOK(t) /\ t.pending # None /\ t.pending.runs = 0
        /\ t.pending.run = "none" /\ t.pending.outcome = "none"
        /\ AuthorizedFinal(t) = AuthorizedFinal(mem)
        /\ Event(saved, t)
    BY <1>2, <1>4, <2>1, PreparingIsSound DEF Event
  <2>3. PICK o \in Outcomes :
           /\ AppendEntry(t, o)
           /\ IF o = "acked" THEN Goto("nextRun") ELSE Return("error")
    BY <1>4 DEF PrepareAttempt, Write
  <2> HIDE DEF t
  <2>4. CASE o = "acked"
    <3>1. mem' = t /\ pc' = "nextRun" /\ UNCHANGED <<op, aim, proposal, result>>
      BY <2>3, <2>4 DEF AppendEntry, Goto, SameCall, callVars
    <3>2. CallTyped
      BY <3>1 DEF CallTyped, ChainInv
    <3>3. Placed(mem.pending, pc)'
      BY <2>2, <3>1, CampaignAssumption DEF Placed, AttemptSteps, Continuable
    <3>4. AuthorizedFinal(mem)' = AuthorizedFinal(mem)
      BY <2>2, <3>1 DEF AuthorizedFinal
    <3>5. CallFits(mem, pc)'
      BY <1>1, <1>2, <3>1, <3>4, CallGoesOn
    <3>6. QED
      BY <1>1, <2>2, <2>3, <3>2, <3>3, <3>5, AppendKeepsChain
  <2>5. CASE o # "acked"
    BY <1>1, <2>2, <2>3, <2>5, AppendKeepsChain, ReturnFits
  <2>6. QED
    BY <2>4, <2>5
<1>5. QED
  BY <1>3, <1>4

\* The two steps that fly: earlier runs of the trial stay flown, and the intent
\* will state the end that the flight had.
LEMMA FlyingKeepsChain ==
    ASSUME ChainInv, FlightInv, Launch \/ Fly
    PROVE  ChainGoesOn
<1>1. pc \in AttemptSteps /\ ~poisoned /\ SameJournal /\ pc # "idle"
  BY DEF AttemptSteps, Launch, Fly
<1>2. /\ Holding /\ ChainOK(mem) /\ mem = saved /\ p # None /\ p \in Attempts
      /\ Recorded(p) /\ p.run = "bound" /\ p.outcome = "none" /\ Placed(p, pc)
      /\ CallFits(mem, pc)
  BY <1>1, AttemptIsPlaced DEF Placed, Launch, Fly, p, AttemptSteps
<1>3. /\ mem' = mem /\ saved' = saved /\ poisoned' = poisoned /\ p' = p
      /\ Holding' => Holding /\ saved # NoChain
  BY <1>1, <1>2 DEF SameJournal, journalVars, Holding, ChainInv, p
<1>4. /\ pc' \in {"fly", "intent"} /\ UNCHANGED <<op, proposal, result>>
      /\ CallTyped
  BY DEF Launch, Fly, Goto, SameCall, callVars, CallTyped, Aims, ChainInv
<1>5. CallFits(mem, pc)'
  <2>1. AuthorizedFinal(mem)' = AuthorizedFinal(mem)
    BY <1>3 DEF AuthorizedFinal
  <2>2. ~(pc = "settle" /\ result = "done")
    BY DEF Launch, Fly
  <2>3. QED
    BY <1>1, <1>2, <1>4, <2>1, <2>2, CallGoesOn
<1>6. SUFFICES Recorded(p)' /\ Placed(p, pc)'
  <2>1. ASSUME Recorded(p)', Placed(p, pc)'
        PROVE  ChainGoesOn
    <3>1. ChainOK(saved)'
      BY <1>2, <1>3, <2>1 DEF ChainOK, p
    <3>2. QED
      BY <1>2, <1>3, <1>4, <1>5, <2>1, <3>1 DEF ChainInv, ChainGoesOn, CallTyped, p
  <2>2. QED
    BY <2>1
<1>7. p.trial \in Nat /\ p.runs \in Nat
  BY <1>2 DEF Attempts
<1>8. CASE Launch /\ pc' = "intent"
  <2>1. UNCHANGED flights /\ aim' = "error"
    BY <1>8 DEF Launch, Goto
  <2>2. Recorded(p)'
    BY <1>2, <1>3, <2>1 DEF Recorded, Ended, Flown
  <2>3. Placed(p, pc)'
    BY <1>2, <1>3, <1>8, <2>1 DEF Placed, AttemptSteps, FlownEnds
  <2>4. QED
    BY <2>2, <2>3
<1>9. CASE Launch /\ pc' = "fly"
  <2> DEFINE ends == IF flights.trial = p.trial THEN flights.ends ELSE [i \in {} |-> i]
  <2>1. /\ flights' = [trial |-> p.trial,
                       ends |-> [i \in DOMAIN ends \cup {p.runs} |->
                                   IF i = p.runs THEN "cut" ELSE ends[i]]]
        /\ pc' = "fly"
    BY <1>9 DEF Launch, Goto
  <2>2. flights'.trial = p.trial /\ p.runs \in Flown'
    BY <2>1 DEF Flown
  <2>3. ASSUME NEW i \in 1 .. p.runs - 1
        PROVE  i \in Flown' /\ flights'.ends[i] = "complete"
    <3>1. flights.trial = p.trial /\ i \in Flown /\ flights.ends[i] = "complete"
      BY <1>2 DEF Recorded
    <3>2. i \in DOMAIN ends /\ ends[i] = "complete" /\ i # p.runs
      BY <1>7, <3>1 DEF Flown
    <3> HIDE DEF ends
    <3>3. QED
      BY <2>1, <3>2 DEF Flown
  <2>4. Recorded(p)'
    BY <1>2, <1>3, <2>2, <2>3 DEF Recorded
  <2>5. Placed(p, pc)'
    BY <1>2, <1>3, <2>1, <2>2 DEF Placed, AttemptSteps
  <2>6. QED
    BY <2>4, <2>5
<1>10. CASE Fly
  <2>1. PICK end \in {"complete", "gate", "error"} :
           /\ flights' = [flights EXCEPT !.ends[p.runs] = end]
           /\ pc' = "intent" /\ aim' = end
    BY <1>10 DEF Fly
  <2>2. flights.trial = p.trial /\ p.runs \in Flown
    BY <1>2, <1>10 DEF Placed, Fly
  <2>3. /\ flights'.trial = p.trial /\ Flown' = Flown
        /\ flights'.ends = [flights.ends EXCEPT ![p.runs] = end]
    BY <2>1, <2>2 DEF FlightInv, Flown
  <2>4. Ended(p, end)'
    BY <1>3, <2>2, <2>3 DEF Ended, Flown
  <2>5. Recorded(p)'
    <3>1. ASSUME NEW i \in 1 .. p.runs - 1
          PROVE  i \in Flown' /\ flights'.ends[i] = "complete"
      BY <1>2, <1>7, <2>3 DEF Recorded, Flown
    <3>2. QED
      BY <1>2, <1>3, <2>3, <3>1 DEF Recorded
  <2>6. Placed(p, pc)'
    BY <1>2, <1>3, <2>1, <2>4 DEF Placed, AttemptSteps, Ended
  <2>7. QED
    BY <2>5, <2>6
<1>11. QED
  BY <1>4, <1>8, <1>9, <1>10

\* A step of a holder that appends nothing and keeps the call under way.
LEMMA GoingOnKeepsChain ==
    ASSUME ChainInv, Holding, SameJournal, SameWorld, Open' => Open,
           pc \notin {"idle", "settle"}, UNCHANGED <<op, proposal>>, aim' \in Aims,
           pc' \notin {"prepare", "authorize"}, Placed(mem.pending, pc)'
    PROVE  ChainGoesOn
<1>1. AuthorizedFinal(mem)' = AuthorizedFinal(mem)
  BY DEF AuthorizedFinal, SameJournal, journalVars
<1>2. CallFits(mem, pc)'
  BY <1>1, CallGoesOn
<1>3. CallTyped
  BY DEF CallTyped, ChainInv
<1>4. QED
  BY <1>2, <1>3, StayingKeepsChain DEF SameWorld, worldVars

\* Recovery reads where the attempt was from what the chain states of it.
LEMMA RecoveringKeepsChain ==
    ASSUME ChainInv, RecoverPending \/ Contain \/ Reauthorize
    PROVE  ChainGoesOn
<1>1. /\ ~poisoned /\ Holding /\ SameJournal /\ SameWorld /\ Open
      /\ pc \notin {"idle", "settle"} /\ mem' = mem /\ UNCHANGED flights
  BY DEF RecoverPending, Contain, Reauthorize, Holding, Open, SameJournal, journalVars,
         SameWorld, worldVars
<1>2. ChainOK(mem) /\ Placed(p, pc) /\ CallFits(mem, pc)
  BY <1>1 DEF ChainInv, p
<1>3. p # None => p \in Attempts /\ Recorded(p)
  BY <1>2 DEF ChainOK, p
<1>4. CASE RecoverPending
  <2>1. /\ aim' = IF Pending /\ p.run = "intent" THEN p.aim ELSE "recovery"
        /\ live' = FALSE /\ UNCHANGED <<op, result, proposal>>
        /\ pc' = IF Pending THEN RecoverFrom
                 ELSE IF op = "open" THEN "reauthorize"
                 ELSE IF mem.retry # None THEN "prepare" ELSE "proceed"
    BY <1>4 DEF RecoverPending
  <2>2. aim' \in Aims
    BY <1>3, <2>1 DEF Pending, Attempts, Aims
  <2>3. CASE Pending
    <3>1. p # None /\ p \in Attempts /\ Recorded(p)
      BY <1>3, <2>3 DEF Pending
    <3>2. pc' \in {"decide", "cleanup", "contain", "receipt", "record", "reauthorize", "nextRun"}
      BY <2>1, <2>3 DEF RecoverFrom
    <3>3. /\ pc' \in {"decide", "cleanup"} <=> p.outcome # "none"
          /\ pc' = "decide" => p.outcome = "quarantined"
          /\ pc' = "contain" => p.run \in {"prepared", "bound", "intent"}
          /\ pc' = "receipt" => p.run \in {"report", "evidence"}
          /\ pc' = "record" => p.run = "committed"
          /\ pc' \in {"reauthorize", "nextRun"} => p.run = "none"
      BY <2>1, <2>3, <3>1 DEF RecoverFrom, Attempts
    <3>4. pc' \in {"reauthorize", "nextRun"} => Continuable(p)
      BY <3>1, <3>3, CampaignAssumption DEF Continuable, Recorded
    <3>5. p.run # "intent" => aim' \notin FlownEnds
      BY <2>1 DEF FlownEnds
    <3>6. p' = p
      BY <1>1 DEF p
    <3>7. Placed(p, pc)'
      BY <2>1, <3>1, <3>2, <3>3, <3>4, <3>5, <3>6 DEF Placed, AttemptSteps, Continuable
    <3>8. QED
      BY <1>1, <2>1, <2>2, <3>2, <3>7, GoingOnKeepsChain DEF p
  <2>4. CASE ~Pending /\ pc' # "prepare"
    <3>1. pc' \in {"reauthorize", "proceed"} /\ p' = p /\ p = None
      BY <1>1, <2>1, <2>4 DEF Pending, p
    <3>2. Placed(p, pc)'
      BY <3>1 DEF Placed, AttemptSteps
    <3>3. QED
      BY <1>1, <2>1, <2>2, <3>1, <3>2, GoingOnKeepsChain DEF p
  <2>5. CASE ~Pending /\ pc' = "prepare"
    <3>1. mem.retry # None
      BY <2>1, <2>5
    <3>2. AuthorizedFinal(mem)' = AuthorizedFinal(mem)
      BY <1>1 DEF AuthorizedFinal
    <3>3. CallFits(mem, pc)'
      BY <1>1, <1>2, <2>1, <2>5, <3>1, <3>2 DEF CallFits
    <3>4. Placed(mem.pending, pc)'
      BY <2>5 DEF Placed, AttemptSteps
    <3>5. CallTyped
      BY <2>1, <2>2 DEF CallTyped, ChainInv
    <3>6. QED
      BY <1>1, <3>3, <3>4, <3>5, StayingKeepsChain
  <2>6. QED
    BY <2>3, <2>4, <2>5
<1>5. CASE Contain
  <2>1. /\ pc' = IF p.run = "prepared" THEN "bind"
                 ELSE IF p.run = "bound" THEN "intent" ELSE "report"
        /\ UNCHANGED <<op, live, aim, result, proposal>>
    BY <1>5 DEF Contain
  <2>2. /\ p # None /\ p.outcome = "none" /\ p.run \in {"prepared", "bound", "intent"}
        /\ p.run # "intent" => ~live /\ aim \notin FlownEnds
    BY <1>2, <1>5 DEF Contain, Placed, AttemptSteps
  <2>3. p' = p
    BY <1>1 DEF p
  <2>4. Placed(p, pc)'
    BY <1>2, <2>1, <2>2, <2>3 DEF Placed, AttemptSteps
  <2>5. aim' \in Aims
    BY <2>1 DEF ChainInv
  <2>6. QED
    BY <1>1, <2>1, <2>4, <2>5, GoingOnKeepsChain DEF p
<1>6. CASE Reauthorize
  <2>1. CASE Return("error")
    BY <1>1, <2>1, ReturnFits, StayingKeepsChain
  <2>2. CASE ~Return("error")
    <3>1. pc' = (IF Pending THEN "nextRun" ELSE "settle")
          /\ UNCHANGED <<op, live, aim, result, proposal>>
      BY <1>6, <2>2 DEF Reauthorize, Goto, SameCall, callVars
    <3>2. p # None => Continuable(p)
      BY <1>2, <1>6 DEF Reauthorize, Placed
    <3>3. p' = p
      BY <1>1 DEF p
    <3>4. Placed(p, pc)'
      BY <3>1, <3>2, <3>3 DEF Placed, AttemptSteps, Pending, Continuable
    <3>5. aim' \in Aims
      BY <3>1 DEF ChainInv
    <3>6. QED
      BY <1>1, <3>1, <3>4, <3>5, GoingOnKeepsChain DEF p
  <2>3. QED
    BY <2>1, <2>2
<1>7. QED
  BY <1>4, <1>5, <1>6

\* The receipts of a run, a failed call, and the settled candidate.
LEMMA ReceiptsKeepChain ==
    ASSUME ChainInv, RecoverReceipt \/ PublishReceipt \/ CallFails \/ Settle
    PROVE  ChainGoesOn
<1>1. /\ ~poisoned /\ Holding /\ Open /\ UNCHANGED flights
      /\ ChainOK(mem) /\ Placed(p, pc) /\ CallFits(mem, pc)
  <2>1. ~poisoned /\ Open /\ UNCHANGED flights
    BY DEF RecoverReceipt, PublishReceipt, CallFails, Settle, Open, SameWorld, worldVars
  <2>2. QED
    BY <2>1 DEF ChainInv, Holding, p
<1>2. CASE RecoverReceipt \/ PublishReceipt \/ CallFails
  <2>1. CASE poisoned'
    <3>1. Return("error") /\ saved' = saved
      BY <1>1, <1>2, <2>1 DEF RecoverReceipt, PublishReceipt, CallFails, Poison,
         SameJournal, journalVars
    <3>2. ChainOK(saved) => ChainOK(saved)'
      BY <1>1, <3>1 DEF ChainOK, Recorded, Ended, Flown
    <3>3. QED
      BY <2>1, <3>1, <3>2, ReturnFits DEF ChainInv, ChainGoesOn, CallTyped, Holding
  <2>2. CASE ~poisoned' /\ Return("error")
    <3>1. SameJournal
      BY <1>2, <2>2 DEF RecoverReceipt, PublishReceipt, CallFails, Poison
    <3>2. QED
      BY <1>1, <2>2, <3>1, ReturnFits, StayingKeepsChain
  <2>3. CASE ~poisoned' /\ ~Return("error")
    <3>1. /\ SameJournal /\ pc' \in {"commit", "publish", "evidenceFailure"}
          /\ UNCHANGED <<op, live, aim, proposal, result>>
          /\ pc \in {"receipt", "publish"}
      BY <1>2, <2>3 DEF RecoverReceipt, PublishReceipt, CallFails, Poison, Goto,
         SameCall, callVars
    <3>2. pc' = "evidenceFailure" => Desired \in {"complete", "gate"}
      BY <1>2, <2>3 DEF RecoverReceipt, PublishReceipt, CallFails, Goto
    <3>3. /\ p # None /\ p.outcome = "none" /\ p.run \in {"report", "evidence"}
      BY <1>1, <3>1 DEF Placed, AttemptSteps
    <3>4. pc' = "evidenceFailure" => p.run = "report"
      BY <3>2, <3>3 DEF Desired
    <3>5. mem' = mem /\ p' = p
      BY <3>1 DEF SameJournal, journalVars, p
    <3>6. Placed(p, pc)'
      BY <1>1, <3>1, <3>3, <3>4, <3>5 DEF Placed, AttemptSteps
    <3>7. AuthorizedFinal(mem)' = AuthorizedFinal(mem)
      BY <3>5 DEF AuthorizedFinal
    <3>8. CallFits(mem, pc)'
      BY <1>1, <3>1, <3>7, CallGoesOn
    <3>9. CallTyped
      BY <3>1 DEF CallTyped, ChainInv
    <3>10. QED
      BY <1>1, <3>1, <3>6, <3>8, <3>9, StayingKeepsChain DEF p
  <2>4. QED
    BY <2>1, <2>2, <2>3
<1>3. CASE Settle
  <2>1. SameJournal /\ mem' = mem /\ p' = p
    BY <1>3 DEF Settle, SameJournal, journalVars, p
  <2>2. CASE \E how : Return(how)
    BY <1>1, <2>1, <2>2, ReturnFits, StayingKeepsChain
  <2>3. CASE ~\E how : Return(how)
    <3>1. /\ pc = "settle" /\ result # "done"
          /\ UNCHANGED <<op, live, aim, proposal, result>>
          /\ \/ pc' = "prepare" /\ mem.retry # None
             \/ pc' = "proceed" /\ p = None
      BY <1>3, <2>3 DEF Settle, Goto, SameCall, callVars, Pending
    <3>2. Placed(p, pc)'
      BY <2>1, <3>1 DEF Placed, AttemptSteps
    <3>3. AuthorizedFinal(mem)' = AuthorizedFinal(mem)
      BY <2>1 DEF AuthorizedFinal
    <3>4. CallFits(mem, pc)'
      BY <1>1, <2>1, <3>1, <3>3 DEF CallFits
    <3>5. CallTyped
      BY <3>1 DEF CallTyped, ChainInv
    <3>6. QED
      BY <1>1, <2>1, <3>2, <3>4, <3>5, StayingKeepsChain DEF p
  <2>4. QED
    BY <2>2, <2>3
<1>4. QED
  BY <1>2, <1>3

\* A change of the state outside its attempts.
Decides(s, t) == ChainOK(t) /\ Event(s, t)

\* The decisions of a campaign are such changes.
LEMMA DecidingIsSound ==
    ASSUME NEW s, ChainOK(s)
    PROVE  /\ \A c \in Challenges \cup {None} : Decides(s, [s EXCEPT !.allowed = c])
           /\ Freezable(s) => Decides(s, Frozen(s))
           /\ s.pending = None =>
                 /\ \A d : Decides(s, Closed(s, d))
                 /\ \A v : Decides(s, Sealed(s, v))
<1>0. s # NoChain
  BY DEF ChainOK, NoChain, Start
<1>1. Challenges \subseteq Conditions
  BY DEF Challenges, Conditions
<1>2. ASSUME NEW c \in Challenges \cup {None}
      PROVE  Decides(s, [s EXCEPT !.allowed = c])
  <2> DEFINE t == [s EXCEPT !.allowed = c]
  <2>1. /\ DOMAIN t = DOMAIN s /\ t.phase = s.phase /\ t.incumbent = s.incumbent
        /\ t.frozen = s.frozen /\ t.next = s.next /\ t.allowed = c
        /\ t.pending = s.pending /\ t.retry = s.retry
        /\ t.results = s.results
    BY DEF ChainOK, Start
  <2> HIDE DEF t
  <2>2. Decides(s, t)
    BY <1>0, <1>1, <2>1 DEF ChainOK, Decides, Event
  <2>3. QED
    BY <2>2 DEF t
<1>3. ASSUME Freezable(s)
      PROVE  Decides(s, Frozen(s))
  <2> DEFINE t == Frozen(s)
  <2>1. /\ DOMAIN t = DOMAIN s /\ t.phase = "frozen" /\ t.incumbent = s.incumbent
        /\ t.frozen = s.incumbent /\ t.next = s.next /\ t.allowed = s.allowed
        /\ t.pending = s.pending /\ t.retry = s.retry
        /\ t.results = s.results
    BY DEF ChainOK, Start, Frozen
  <2>2. s.pending = None /\ s.incumbent \in Candidates /\ None \notin Candidates
    BY <1>3, CampaignAssumption DEF Freezable, ChainOK, Candidates
  <2> HIDE DEF t
  <2>3. Decides(s, t)
    BY <1>0, <2>1, <2>2 DEF ChainOK, Decides, Event
  <2>4. QED
    BY <2>3 DEF t
<1>4. ASSUME s.pending = None, NEW d
      PROVE  Decides(s, Closed(s, d))
  <2> DEFINE t == Closed(s, d)
  <2>1. /\ DOMAIN t = DOMAIN s /\ t.phase = "closed" /\ t.incumbent = s.incumbent
        /\ t.frozen = s.frozen /\ t.next = s.next /\ t.allowed = s.allowed
        /\ t.pending = s.pending /\ t.retry = s.retry
        /\ t.results = s.results
    BY DEF ChainOK, Start, Closed
  <2> HIDE DEF t
  <2>2. Decides(s, t)
    BY <1>0, <1>4, <2>1 DEF ChainOK, Decides, Event
  <2>3. QED
    BY <2>2 DEF t
<1>5. ASSUME s.pending = None, NEW v
      PROVE  Decides(s, Sealed(s, v))
  <2> DEFINE t == Sealed(s, v)
  <2>1. /\ DOMAIN t = DOMAIN s /\ t.phase = "sealed" /\ t.incumbent = s.incumbent
        /\ t.frozen = s.frozen /\ t.next = s.next /\ t.allowed = s.allowed
        /\ t.pending = s.pending /\ t.retry = s.retry
        /\ t.results = s.results
    BY DEF ChainOK, Start, Sealed
  <2> HIDE DEF t
  <2>2. Decides(s, t)
    BY <1>0, <1>5, <2>1 DEF ChainOK, Decides, Event
  <2>3. QED
    BY <2>2 DEF t
<1>6. QED
  BY <1>2, <1>3, <1>4, <1>5

\* The events of a closing call.
LEMMA FinishKeepsChain ==
    ASSUME ChainInv, ~poisoned, SameWorld, NEW t, Finish(t), Decides(saved, t)
    PROVE  ChainGoesOn
<1>1. PICK o \in Outcomes :
         /\ AppendEntry(t, o)
         /\ IF o # "acked" THEN Return("error")
            ELSE /\ pc' = "settle" /\ result' = "done"
                 /\ UNCHANGED <<op, answer, live, aim, sound, left, proposal>>
  BY DEF Finish
<1>2. UNCHANGED flights /\ ChainOK(t) /\ Event(saved, t)
  BY DEF SameWorld, worldVars, Decides
<1>3. CASE o # "acked"
  BY <1>1, <1>2, <1>3, ReturnFits, AppendKeepsChain
<1>4. CASE o = "acked"
  <2>1. CallTyped
    BY <1>1, <1>4 DEF CallTyped, ChainInv
  <2>2. Placed(mem.pending, pc)' /\ CallFits(mem, pc)'
    BY <1>1, <1>4 DEF Placed, CallFits, AttemptSteps
  <2>3. QED
    BY <1>1, <1>2, <2>1, <2>2, AppendKeepsChain
<1>5. QED
  BY <1>3, <1>4

\* Training, freezing, the decisions, and the authorization of a transition.
LEMMA CallsKeepChain ==
    ASSUME ChainInv,
           ProceedTraining \/ AuthorizeTransition \/ ProceedFreezing
           \/ ProceedPromotion \/ ProceedQualification
    PROVE  ChainGoesOn
<1>1. /\ ~poisoned /\ Open /\ Holding /\ SameWorld /\ UNCHANGED flights
      /\ mem = saved /\ ChainOK(mem) /\ Placed(mem.pending, pc) /\ CallFits(mem, pc)
  <2>1. ~poisoned /\ Open /\ SameWorld
    BY DEF ProceedTraining, AuthorizeTransition, ProceedFreezing, ProceedPromotion,
           ProceedQualification, At, Open
  <2>2. QED
    BY <2>1 DEF ChainInv, Holding, SameWorld, worldVars
<1>2. pc = "proceed" => mem.pending = None
  BY <1>1 DEF Placed
<1>3. CASE SameJournal /\ \E how : Return(how)
  BY <1>1, <1>3, ReturnFits, StayingKeepsChain
<1>4. CASE SameJournal /\ pc' \in {"prepare", "authorize"} /\ ~AuthorizeTransition
  <2>1. pc' \in {"prepare", "authorize"} /\ UNCHANGED <<op, aim>> /\ pc = "proceed"
        /\ op \in {"train", "promote", "qualify"}
        /\ (pc' = "authorize" => op = "train")
    BY <1>4 DEF ProceedTraining, ProceedFreezing, ProceedPromotion, ProceedQualification,
       At, Finish, Goto, Return, SameCall, callVars, Towards
  <2>2. proposal' \in Challenges \cup {None}
    BY <1>4 DEF ProceedTraining, ProceedFreezing, ProceedPromotion, ProceedQualification,
       Finish, Goto, Return, SameCall, callVars, ChainInv, Challenges
  <2>3. CallTyped
    BY <2>1, <2>2 DEF CallTyped, ChainInv
  <2>4. Placed(mem.pending, pc)'
    BY <2>1 DEF Placed, AttemptSteps
  <2>5. mem' = mem /\ AuthorizedFinal(mem)' = AuthorizedFinal(mem)
    BY <1>4 DEF AuthorizedFinal, SameJournal, journalVars
  <2>6. CallFits(mem, pc)'
    BY <1>1, <2>1, <2>5 DEF CallFits
  <2>7. QED
    BY <1>1, <1>4, <2>3, <2>4, <2>6, StayingKeepsChain
<1>5. CASE /\ ~(SameJournal /\ \E how : Return(how))
           /\ ~(SameJournal /\ pc' \in {"prepare", "authorize"} /\ ~AuthorizeTransition)
  <2>1. CASE AuthorizeTransition
    <3>1. PICK o \in Outcomes :
             /\ AppendEntry([mem EXCEPT !.allowed = proposal], o)
             /\ IF o # "acked" THEN Return("error")
                ELSE /\ pc' = "prepare" /\ proposal' = None
                     /\ UNCHANGED <<op, answer, live, aim, sound, result, left>>
      BY <1>5, <2>1 DEF AuthorizeTransition, Quiet
    <3>2. /\ ChainOK([mem EXCEPT !.allowed = proposal])
          /\ Event(saved, [mem EXCEPT !.allowed = proposal])
      BY <1>1, DecidingIsSound DEF ChainInv, Decides
    <3>3. CASE o # "acked"
      BY <1>1, <3>1, <3>2, <3>3, ReturnFits, AppendKeepsChain
    <3>4. CASE o = "acked"
      <4>1. op = "train"
        BY <1>1, <2>1 DEF CallFits, AuthorizeTransition
      <4>2. CallTyped
        BY <3>1, <3>4 DEF CallTyped, ChainInv
      <4>3. Placed(mem.pending, pc)' /\ CallFits(mem, pc)'
        BY <3>1, <3>4, <4>1 DEF Placed, CallFits, AttemptSteps
      <4>4. QED
        BY <1>1, <3>1, <3>2, <4>2, <4>3, AppendKeepsChain
    <3>5. QED
      BY <3>3, <3>4
  <2>2. CASE ProceedTraining
    BY <1>5, <2>2 DEF ProceedTraining, At, AuthorizeTransition, Quiet, Towards, Goto
  <2>3. CASE ProceedFreezing
    <3>1. Freezable(mem) /\ Finish(Frozen(mem))
      BY <1>5, <2>3 DEF ProceedFreezing, Quiet
    <3>2. QED
      BY <1>1, <3>1, DecidingIsSound, FinishKeepsChain
  <2>4. CASE ProceedPromotion
    <3>1. PICK d : Finish(Closed(mem, d))
      BY <1>5, <2>4 DEF ProceedPromotion, At, AuthorizeTransition, Quiet, Goto
    <3>2. Decides(mem, Closed(mem, d))
      BY <1>1, <1>2, <2>4, DecidingIsSound DEF ProceedPromotion, At
    <3>3. QED
      BY <1>1, <3>1, <3>2, FinishKeepsChain
  <2>5. CASE ProceedQualification
    <3>1. PICK v : Finish(Sealed(mem, v))
      BY <1>5, <2>5 DEF ProceedQualification, At, AuthorizeTransition, Quiet, Goto
    <3>2. Decides(mem, Sealed(mem, v))
      BY <1>1, <1>2, <2>5, DecidingIsSound DEF ProceedQualification, At
    <3>3. QED
      BY <1>1, <3>1, <3>2, FinishKeepsChain
  <2>6. QED
    BY <2>1, <2>2, <2>3, <2>4, <2>5
<1>6. QED
  BY <1>3, <1>4, <1>5

\* The open transaction, the entry of a call, and every way to stop.
LEMMA OutsideKeepsChain ==
    ASSUME ChainInv,
           OpenJournal \/ LoseJournal \/ ReconcilePriorOpen \/ OpenSession
           \/ BindVehicle \/ RollBack \/ EndOpen
           \/ Train \/ Freeze \/ Promote \/ Qualify
           \/ Refuse \/ LoseAuthority \/ Exit \/ Crash
    PROVE  ChainGoesOn
<1>1. CASE OpenJournal
  <2>1. /\ UNCHANGED flights /\ pc' \in {"reconcile", "gone"} /\ op' = "open" /\ CallTyped
    BY <1>1 DEF OpenJournal, SameWorld, worldVars, CallTyped, ChainInv
  <2>2. Placed(mem.pending, pc)' /\ CallFits(mem, pc)'
    BY <2>1 DEF Placed, CallFits, AttemptSteps
  <2>3. CASE saved # NoChain
    <3>1. mem' = saved /\ saved' = saved
      BY <1>1, <2>3 DEF OpenJournal, Load
    <3>2. ChainOK(saved)'
      BY <2>1, <2>3, <3>1 DEF ChainInv, ChainOK, Recorded, Ended, Flown
    <3>3. QED
      BY <2>1, <2>2, <2>3, <3>1, <3>2 DEF ChainInv, ChainGoesOn, CallTyped
  <2>4. CASE saved = NoChain
    <3>1. PICK o : AppendEntry(Start, o)
      BY <1>1, <2>4 DEF OpenJournal
    <3>2. ChainOK(Start) /\ Event(saved, Start)
      BY <2>4 DEF ChainOK, Start, Candidates, Event
    <3>3. QED
      BY <2>1, <2>2, <3>1, <3>2, AppendKeepsChain
  <2>5. QED
    BY <2>3, <2>4
<1>2. CASE LoseJournal \/ EndOpen \/ Exit \/ Crash
  <2>1. UNCHANGED flights /\ saved' = saved /\ pc' = "closed" /\ CallTyped
    BY <1>2 DEF LoseJournal, EndOpen, Exit, Crash, Stop, SameWorld, worldVars, SameCall,
       callVars, CallTyped, Aims, ChainInv
  <2>2. ChainOK(saved) => ChainOK(saved)'
    BY <2>1 DEF ChainOK, Recorded, Ended, Flown
  <2>3. QED
    BY <2>1, <2>2 DEF ChainInv, ChainGoesOn, CallTyped, Holding, Open
<1>3. CASE ReconcilePriorOpen \/ OpenSession \/ BindVehicle \/ RollBack
  <2>1. UNCHANGED flights /\ SameJournal /\ (Open' => Open)
    BY <1>3 DEF ReconcilePriorOpen, OpenSession, BindVehicle, RollBack, Release, Open
  <2>2. CASE \E how : Return(how)
    BY <2>1, <2>2, ReturnFits, StayingKeepsChain
  <2>3. CASE ~\E how : Return(how)
    <3>1. /\ pc' \in {"openSession", "bindVehicle", "recover", "ended"}
          /\ pc \notin {"idle", "settle"} /\ UNCHANGED <<op, aim, proposal>>
      BY <1>3, <2>3 DEF ReconcilePriorOpen, OpenSession, BindVehicle, RollBack, Release,
         Goto, SameCall, callVars
    <3>2. CallTyped /\ Placed(mem.pending, pc)'
      BY <3>1 DEF CallTyped, ChainInv, Placed, AttemptSteps
    <3>3. AuthorizedFinal(mem)' = AuthorizedFinal(mem)
      BY <2>1 DEF AuthorizedFinal, SameJournal, journalVars
    <3>4. Holding => CallFits(mem, pc)'
      BY <3>1, <3>3, CallGoesOn
    <3>5. QED
      BY <2>1, <3>2, <3>4, StayingKeepsChain
  <2>4. QED
    BY <2>2, <2>3
<1>4. CASE Train \/ Freeze \/ Promote \/ Qualify
  <2>1. /\ SameWorld /\ SameJournal /\ Open /\ pc' \in {"recover", "settle"}
        /\ UNCHANGED <<aim, proposal>>
        /\ pc' = "settle" => result' = "done"
    BY <1>4 DEF Train, Freeze, Promote, Qualify, Call, Again, Open
  <2>2. pc' = "settle" \/ (op' = "qualify" => AuthorizedFinal(mem) # None)
    BY <1>4 DEF Train, Freeze, Promote, Qualify, Call, Again
  <2>3. AuthorizedFinal(mem)' = AuthorizedFinal(mem) /\ UNCHANGED flights
    BY <2>1 DEF AuthorizedFinal, SameJournal, journalVars, SameWorld, worldVars
  <2>4. CallFits(mem, pc)' /\ Placed(mem.pending, pc)' /\ CallTyped
    BY <2>1, <2>2, <2>3 DEF CallFits, Placed, AttemptSteps, CallTyped, ChainInv
  <2>5. QED
    BY <2>1, <2>3, <2>4, StayingKeepsChain
<1>5. CASE Refuse
  <2>1. UNCHANGED flights /\ SameJournal /\ Open /\ Return("error")
    BY <1>5 DEF Refuse, Open, SameWorld, worldVars
  <2>2. QED
    BY <2>1, ReturnFits, StayingKeepsChain
<1>6. CASE LoseAuthority
  <2>1. /\ UNCHANGED flights /\ saved' = saved /\ poisoned' /\ UNCHANGED <<aim, proposal>>
    BY <1>6 DEF LoseAuthority, Poison, SameWorld, worldVars, SameCall, callVars
  <2>2. ChainOK(saved) => ChainOK(saved)'
    BY <2>1 DEF ChainOK, Recorded, Ended, Flown
  <2>3. QED
    BY <2>1, <2>2 DEF ChainInv, ChainGoesOn, Holding
<1>7. QED
  BY <1>1, <1>2, <1>3, <1>4, <1>5, <1>6

\* What the chain and the flights owe to each other follows from both invariants.
LEMMA InvariantsStateTheFlights ==
    ASSUME FlightInv, ChainInv
    PROVE  ChainIsTheFlightLog
<1>1. CASE saved = NoChain
  <2>1. DOMAIN flights.ends = {}
    BY <1>1 DEF FlightInv, NothingFlew, Flown
  <2>2. QED
    BY <1>1, <2>1 DEF ChainIsTheFlightLog, FlightsAreRecorded, ResultsAreFlown
<1>2. CASE saved # NoChain
  <2> DEFINE q == saved.pending
  <2>1. /\ Sound(saved) /\ ChainOK(saved) /\ flights.trial \in Nat
        /\ Flown = DOMAIN flights.ends
    BY <1>2 DEF FlightInv, ChainInv, Flown
  <2>2. DOMAIN flights.ends # {} => saved.next > flights.trial
    BY <2>1 DEF Sound, Ahead, NothingFlew
  <2>3. CASE q = None
    BY <2>2, <2>3 DEF ChainIsTheFlightLog, FlightsAreRecorded, ResultsAreFlown
  <2>4. CASE q # None
    <3>1. Accounted(saved) /\ Recorded(q) /\ q \in Attempts
      BY <2>1, <2>4 DEF Sound, ChainOK
    <3>2. q.cond.role \in Hidden => saved.phase \in {"frozen", "closed"}
      BY <2>1, <2>4 DEF ChainOK
    <3>3. FlightsAreRecorded
      BY <2>1, <2>2, <3>1, <3>2 DEF FlightsAreRecorded, Accounted, Hidden
    <3>4. ASSUME q.outcome \in {"passed", "gate"}
          PROVE  /\ flights.trial = q.trial
                 /\ DOMAIN flights.ends = 1 .. q.runs
                 /\ \A i \in 1 .. q.runs :
                       flights.ends[i] = IF i = q.runs /\ q.outcome = "gate"
                                         THEN "gate" ELSE "complete"
                 /\ q.outcome = "passed" => q.runs = Runs
      <4>1. /\ q.run = "committed"
            /\ q.class = IF q.outcome = "passed" THEN "complete" ELSE "gate"
            /\ q.outcome = "passed" => q.runs = Runs
        BY <3>1, <3>4 DEF Recorded
      <4>2. Ended(q, q.class)
        BY <3>1, <3>4, <4>1 DEF Recorded, FlownEnds
      <4>3. flights.trial = q.trial /\ Flown \subseteq 1 .. q.runs /\ q.runs \in Nat
        BY <3>1, <4>2 DEF Accounted, Ended
      <4>4. ASSUME NEW i \in 1 .. q.runs
            PROVE  /\ i \in Flown
                   /\ flights.ends[i] = IF i = q.runs /\ q.outcome = "gate"
                                        THEN "gate" ELSE "complete"
        <5>1. CASE i = q.runs
          BY <3>4, <4>1, <4>2, <5>1 DEF Ended
        <5>2. CASE i # q.runs
          <6>1. i \in 1 .. q.runs - 1
            BY <4>3, <5>2
          <6>2. QED
            BY <3>1, <5>2, <6>1 DEF Recorded
        <5>3. QED
          BY <5>1, <5>2
      <4>5. QED
        BY <2>1, <4>1, <4>3, <4>4
    <3>5. ResultsAreFlown
      BY <3>4 DEF ResultsAreFlown
    <3>6. QED
      BY <3>3, <3>5 DEF ChainIsTheFlightLog
  <2>5. QED
    BY <2>3, <2>4
<1>3. QED
  BY <1>1, <1>2

\* A call other than training succeeds only by putting the settled candidate
\* back, with no attempt pending.
Reconciled ==
    \/ pc' # "idle" \/ answer' # "ok" \/ poisoned' \/ op' = "train"
    \/ (mem.pending = None /\ mounted = Settled(mem))'

LEMMA SettlingReconciles ==
    ASSUME Settle
    PROVE  Reconciled
<1>1. mem' = mem /\ (pc' = "idle" /\ answer' = "ok" => \E how : Return(how))
  BY DEF Settle, SameJournal, journalVars, Goto
<1>2. CASE pc' # "idle" \/ answer' # "ok"
  BY <1>2 DEF Reconciled
<1>3. CASE pc' = "idle" /\ answer' = "ok"
  <2>1. ~Pending /\ mounted' = Settled(mem)
    BY <1>3 DEF Settle, Return, Goto
  <2>2. Settled(mem)' = Settled(mem)
    BY <1>1 DEF Settled
  <2>3. QED
    BY <1>1, <2>1, <2>2 DEF Reconciled, Pending, p
<1>4. QED
  BY <1>2, <1>3

LEMMA StepsReconcile ==
    ASSUME Next
    PROVE  Reconciled
<1>1. CASE \E how : Return(how) /\ how = "error"
  BY <1>1 DEF Return, Reconciled
<1>2. CASE pc' # "idle"
  BY <1>2 DEF Reconciled
<1>3. CASE Settle
  BY <1>3, SettlingReconciles
<1>4. CASE LoseAuthority
  BY <1>4 DEF LoseAuthority, Poison, Reconciled
<1>5. CASE ProceedTraining
  BY <1>5 DEF ProceedTraining, At, Return, Goto, SameCall, callVars, Towards, Reconciled
<1> DEFINE Silent == pc' # "idle" \/ \E how : Return(how) /\ how = "error"
<1>6. ASSUME NEW s, NEW next, Write(s, next), next # "idle"
      PROVE  Silent
  BY <1>6 DEF Write, Goto
<1>7. ASSUME NEW how, NEW pending, EndAttempt(how, pending)
      PROVE  Silent
  BY <1>7 DEF EndAttempt, Goto
<1>8. ASSUME NEW s, Finish(s)
      PROVE  Silent
  BY <1>8 DEF Finish
<1>9. CASE OpenJournal \/ LoseJournal \/ ReconcilePriorOpen \/ OpenSession
           \/ BindVehicle \/ RollBack \/ EndOpen \/ Reauthorize \/ RecoverPending
           \/ Train \/ Freeze \/ Promote \/ Qualify \/ Refuse \/ Exit \/ Crash
  <2>1. Silent
    BY <1>9 DEF OpenJournal, LoseJournal, ReconcilePriorOpen, OpenSession, BindVehicle,
       RollBack, EndOpen, Reauthorize, RecoverPending, RecoverFrom, Release, Goto, Train,
       Freeze, Promote, Qualify, Call, Again, Refuse, Exit, Crash, Stop
  <2>2. QED
    BY <1>1, <1>2, <2>1
<1>10. CASE BindRun \/ PrepareIntent \/ RecordReport \/ RecordEvidenceFailure
            \/ CommitRun \/ DecideRetry
  <2>1. \E s, next : Write(s, next) /\ next # "idle"
    BY <1>10 DEF BindRun, PrepareIntent, RecordReport, RecordEvidenceFailure, CommitRun,
       DecideRetry
  <2>2. QED
    BY <1>1, <1>2, <1>6, <2>1
<1>11. CASE PrepareAttempt \/ PrepareRun \/ RecordRun \/ Cleanup
  <2>1. CASE PrepareAttempt
    <3>1. Return("error") \/ \E s : Write(s, "nextRun")
      BY <2>1 DEF PrepareAttempt
    <3>2. QED
      BY <1>1, <1>2, <1>6, <3>1
  <2>2. CASE PrepareRun
    BY <1>1, <1>2, <2>2 DEF PrepareRun
  <2>3. CASE RecordRun
    <3>1. \/ \E how, pending : EndAttempt(how, pending)
          \/ \E s, next : Write(s, next) /\ next # "idle"
          \/ pc' # "idle"
      <4>1. CASE p.class = "complete" /\ p.runs < Runs
        BY <2>3, <4>1 DEF RecordRun, Goto
      <4>2. CASE ~(p.class = "complete" /\ p.runs < Runs)
        <5>1. \E s, next : Write(s, next) /\ next \in {"cleanup", "decide"}
          BY <2>3, <4>2 DEF RecordRun
        <5>2. QED
          BY <5>1
      <4>3. QED
        BY <4>1, <4>2
    <3>2. QED
      BY <1>1, <1>2, <1>6, <1>7, <3>1
  <2>4. CASE Cleanup
    <3>1. Return("error") \/ \E how, pending : EndAttempt(how, pending)
      BY <2>4 DEF Cleanup
    <3>2. QED
      BY <1>1, <1>2, <1>7, <3>1
  <2>5. QED
    BY <1>11, <2>1, <2>2, <2>3, <2>4
<1>12. CASE Launch \/ Fly \/ Contain \/ RecoverReceipt \/ PublishReceipt \/ CallFails
  BY <1>1, <1>2, <1>12 DEF Launch, Fly, Contain, RecoverReceipt, PublishReceipt,
     CallFails, Goto
<1>13. CASE AuthorizeTransition
  BY <1>1, <1>2, <1>13 DEF AuthorizeTransition
<1>14. CASE ProceedFreezing \/ ProceedPromotion \/ ProceedQualification
  <2>1. Return("error") \/ (\E s : Finish(s)) \/ pc' # "idle"
    BY <1>14 DEF ProceedFreezing, ProceedPromotion, ProceedQualification, Goto
  <2>2. QED
    BY <1>1, <1>2, <1>8, <2>1
<1>15. QED
  BY <1>3, <1>4, <1>5, <1>9, <1>10, <1>11, <1>12, <1>13, <1>14 DEF Next, Step

FactInv == FlightInv /\ ChainInv /\ SettledAfterClosing

\* Every step keeps the flights, the chain and what the vehicle carries.
LEMMA StepsKeepTheChain ==
    ASSUME ChainInv, FlightInv, Next
    PROVE  ChainGoesOn
<1>1. CASE Step
  BY <1>1, RecordingKeepsChain, PreparingRunKeepsChain, OutcomeKeepsChain,
     CleanupKeepsChain, PreparingKeepsChain, FlyingKeepsChain, RecoveringKeepsChain,
     ReceiptsKeepChain, CallsKeepChain, OutsideKeepsChain DEF Step
<1>2. CASE ~Step
  BY <1>2, OutsideKeepsChain DEF Next
<1>3. QED
  BY <1>1, <1>2

\* The facts hold from the beginning.
LEMMA FactsBegin == Init => FactInv
BY DEF Init, FactInv, FlightInv, NothingFlew, Flown, Holding, Open, ChainInv, Aims,
   SettledAfterClosing

\* No step breaks them.
LEMMA StepsKeepTheFacts ==
    ASSUME FactInv, [Next]_vars
    PROVE  FactInv'
<1>1. CASE Next
  <2>1. FlightInv' /\ ChainInv'
    BY <1>1, StepsKeepTheFlights, StepsKeepTheChain DEF FactInv, ChainGoesOn
  <2>2. SettledAfterClosing'
    BY <1>1, StepsReconcile DEF FactInv, Reconciled, SettledAfterClosing
  <2>3. QED
    BY <2>1, <2>2 DEF FactInv
<1>2. CASE UNCHANGED vars
  <2>1. FlightInv'
    BY <1>2 DEF FactInv, FlightInv, vars, journalVars, worldVars, Holding, Open, Sound,
       Ahead, Accounted, Fits, NothingFlew, Flown
  <2>2. ChainInv'
    BY <1>2 DEF FactInv, ChainInv, vars, journalVars, callVars, worldVars, Holding, Open,
       ChainOK, Recorded, Ended, Flown, Placed, Continuable, CallFits, AuthorizedFinal
  <2>3. SettledAfterClosing'
    BY <1>2 DEF FactInv, SettledAfterClosing, Settled, vars, journalVars, callVars, worldVars
  <2>4. QED
    BY <2>1, <2>2, <2>3 DEF FactInv
<1>3. QED
  BY <1>1, <1>2

\* What a campaign says of itself is so: the durable chain states the flights
\* that were flown, through every crash and lost acknowledgement, and a call that
\* succeeds leaves the settled candidate on the vehicle.
THEOREM ChainHolds == Spec => []ChainIsTheFact
<1>1. FactInv => ChainIsTheFact
  BY InvariantsStateTheFlights DEF FactInv, ChainIsTheFact
<1>2. FactInv /\ [Next]_vars => FactInv'
  BY StepsKeepTheFacts
<1>3. QED
  BY <1>1, <1>2, FactsBegin, PTL DEF Spec
-----------------------------------------------------------------------------
(* The chain implements Trials: each event begins, replaces or concludes an *)
(* execution of one condition, or is no step of the experiments at all.     *)

\* What the experiments see of one event.
LEMMA EventsAreTrials ==
    ASSUME ChainInv, ChainGoesOn
    PROVE  [Experiments!Next]_(Experiments!trialVars)
<1> USE DEF Experiments!trialVars, Execution
<1>1. CASE saved' = saved
  BY <1>1
<1>2. CASE saved' # saved
  <2>1. saved' # NoChain /\ Event(saved, saved') /\ ChainOK(saved)'
    BY <1>2 DEF ChainGoesOn, ChainInv
  <2>2. CASE saved = NoChain
    <3>1. saved' = Start
      BY <2>1, <2>2 DEF Event
    <3>2. saved'.pending = None /\ saved'.retry = None /\ saved'.results = [c \in {} |-> c]
      BY <3>1 DEF Start
    <3>3. QED
      BY <2>1, <2>2, <3>2
  <2>3. CASE saved # NoChain /\ saved.pending # None /\ saved'.pending # None
             /\ saved'.pending.cond = saved.pending.cond
             /\ saved'.pending.index = saved.pending.index
             /\ saved'.results = saved.results
    BY <2>1, <2>3
  <2>4. CASE saved # NoChain /\ saved'.pending = saved.pending
             /\ saved'.retry = saved.retry /\ saved'.results = saved.results
    BY <2>1, <2>4
  <2>5. CASE saved # NoChain /\ \E c \in Conditions :
                Preparable(saved, c) /\ saved' = Prepared(saved, c)
    <3>1. PICK c \in Conditions : Preparable(saved, c) /\ saved' = Prepared(saved, c)
      BY <2>5
    <3>2. ChainOK(saved)
      BY <2>5 DEF ChainInv
    <3>3. /\ saved'.pending # None /\ saved'.pending.cond = c
          /\ saved'.pending.index = (IF saved.retry = None THEN 0 ELSE saved.retry.index)
          /\ saved'.results = saved.results
      BY <3>1, <3>2, PreparingIsSound
    <3>4. saved.pending = None /\ c \notin DOMAIN saved.results
      BY <3>1 DEF Preparable, RoleAllowed, Has
    <3>5. CASE saved.retry = None
      <4>1. Execution.open = None /\ Execution.open' = c /\ Execution.tries' = 1
        BY <2>1, <2>5, <3>3, <3>4, <3>5
      <4>2. Experiments!Begin(c)
        BY <2>1, <2>5, <3>3, <3>4, <4>1 DEF Experiments!Begin
      <4>3. QED
        BY <4>2 DEF Experiments!Next
    <3>6. CASE saved.retry # None
      <4>1. /\ saved.retry.cond = c /\ c # None
            /\ saved.retry.index \in Nat /\ saved.retry.index <= Limit
        BY <3>1, <3>2, <3>6, CampaignAssumption, NoneAssumption
           DEF Preparable, ChainOK, Replacements
      <4>2. /\ Execution.open = c /\ Execution.tries = saved.retry.index
            /\ Execution.open' = c /\ Execution.tries' = saved.retry.index + 1
        BY <2>1, <2>5, <3>3, <3>4, <3>6, <4>1
      <4>3. Experiments!Replace
        BY <2>1, <2>5, <3>3, <4>1, <4>2 DEF Experiments!Replace
      <4>4. QED
        BY <4>3 DEF Experiments!Next
    <3>7. QED
      BY <3>5, <3>6
  <2>6. CASE saved # NoChain /\ saved.pending # None /\ saved.pending.outcome # "none"
             /\ saved' = Finalized(saved)
    <3> DEFINE q == saved.pending
    <3>1. /\ ChainOK(saved) /\ q \in Attempts /\ saved.retry = None /\ q.cond # None
          /\ saved'.pending = None /\ q.index \in Nat
      BY <2>6, FinalizingIsSound, NoneAssumption DEF ChainInv, ChainOK, Attempts
    <3>2. Execution.open = q.cond /\ Execution.tries = q.index + 1
      BY <2>6
    <3>3. CASE q.decision = "authorized"
      <4>1. saved' = [[saved EXCEPT !.pending = None]
                        EXCEPT !.retry = [cond |-> q.cond, index |-> q.index + 1]]
        BY <2>6, <3>3 DEF Finalized
      <4>2. /\ saved'.retry = [cond |-> q.cond, index |-> q.index + 1]
            /\ saved'.results = saved.results
        BY <3>1, <4>1 DEF ChainOK, Start
      <4>3. saved'.retry # None
        <5>1. q.index < Limit /\ Limit \in Nat /\ q.cond \in Conditions
          BY <2>6, <3>1, <3>3, CampaignAssumption DEF ChainOK, Recorded, Attempts
        <5>2. saved'.retry \in Replacements
          BY <3>1, <4>2, <5>1 DEF Replacements
        <5>3. QED
          BY <5>2, NoneAssumption
      <4>4. Execution.open' = q.cond /\ Execution.tries' = q.index + 1
        BY <2>1, <3>1, <4>2, <4>3
      <4>5. QED
        BY <2>1, <2>6, <3>2, <4>2, <4>4
    <3>4. CASE q.decision # "authorized"
      <4>1. /\ saved'.retry = None
            /\ saved'.results = [c \in DOMAIN saved.results \cup {q.cond} |->
                                   IF c = q.cond THEN q.outcome ELSE saved.results[c]]
        BY <2>6, <3>1, <3>4 DEF Finalized, ChainOK, Start
      <4>2. Execution.open' = None /\ Execution.tries' = 0
        BY <2>1, <3>1, <4>1
      <4>3. PICK r \in {"passed", "gate", "quarantined"} : r = q.outcome
        BY <2>6, <3>1 DEF Attempts
      <4>4. Experiments!Conclude(r)
        BY <2>1, <2>6, <3>1, <3>2, <4>1, <4>2, <4>3 DEF Experiments!Conclude
      <4>5. QED
        BY <4>4 DEF Experiments!Next
    <3>5. QED
      BY <3>3, <3>4
  <2>7. QED
    BY <2>1, <2>2, <2>3, <2>4, <2>5, <2>6 DEF Event
<1>3. QED
  BY <1>1, <1>2

\* The durable chain is a run of Trials: through crashes, retries and lost
\* acknowledgements no condition gets a second result, and no execution more
\* replacements than the limit allows (JournalState::apply, finalize).
THEOREM ChainImplementsTrials == Spec => TrialsSpec
<1>1. Init => Experiments!Init
  BY DEF Init, Experiments!Init, Execution
<1>2. FactInv /\ [Next]_vars => FactInv'
  BY StepsKeepTheFacts
<1>3. ASSUME FactInv, [Next]_vars
      PROVE  [Experiments!Next]_(Experiments!trialVars)
  <2>1. CASE Next
    BY <1>3, <2>1, StepsKeepTheChain, EventsAreTrials DEF FactInv
  <2>2. CASE UNCHANGED vars
    BY <2>2 DEF vars, journalVars, Experiments!trialVars, Execution
  <2>3. QED
    BY <1>3, <2>1, <2>2
<1>4. QED
  BY <1>1, <1>2, <1>3, FactsBegin, PTL DEF Spec, TrialsSpec, Experiments!Spec
=============================================================================
