------------------------------ MODULE LaneHost ------------------------------
(***************************************************************************)
(* The session host's mission lane: runtime/mission_lane.rs with its start *)
(* and journal, and the runs it steers: a flight (automation/task.rs) or a *)
(* run of operations (operations/runner.rs).                               *)
(*                                                                         *)
(* The lane's task takes one intent or one tick at a time.  A tick is the  *)
(* clock, then the run's progress; both, and an intent, end with the       *)
(* record.  turn names the part that is next.  A start that replaces a run *)
(* waits in between for that run to end (starting).  The run, a task of    *)
(* its own, moves at any time and takes its controls in order.  The lane's *)
(* task reads the run's status first (seen), then whether the run is over. *)
(***************************************************************************)
EXTENDS Lane

CONSTANTS Kinds,           \* of plan people propose: "survey" or "operations"
          Envelopes,       \* what an approval may say, but its digest
          NoRun,
          Capacity,        \* of the channel to a run
          MaxPlans, MaxTime, MaxTroubles   \* bounds of the instance

ASSUME LaneHostAssumption ==
    /\ Kinds \subseteq {"survey", "operations"}
    /\ Envelopes \subseteq [expires : Nat, onExpiry : {"hold", "home"},
                            onControlLost : {"hold", "home"}]
    /\ NoApproval \notin Approval
    /\ Capacity \in Nat \ {0}
    /\ MaxPlans \in Nat /\ MaxTime \in Nat /\ MaxTroubles \in Nat

VARIABLES lane, turn,
          run, controls,   \* the run it started, and what it was told since
          seen,            \* the status it read of that run
          unrecorded,      \* an order that waits for the journal
          afterHandBack,   \* one that waits for a hand-back
          starting,        \* one that waits for the run it replaces to end
          journal,         \* the record it holds
          now, plans,      \* civil time, and the plans compiled so far
          reports,         \* the reports that exist, by plan and operation
          troubles         \* losses of control, failures and restarts so far

orders == <<unrecorded, afterHandBack, starting>>
vars == <<lane, turn, run, controls, seen, orders, journal, now, plans, reports, troubles>>

Plan(kind) == [digest |-> plans + 1, kind |-> kind]
Approvals(p) == {[digest |-> p.digest, expires |-> e.expires, onExpiry |-> e.onExpiry,
                  onControlLost |-> e.onControlLost] : e \in Envelopes}

NewRunOf(order) ==
    [plan |-> order.plan, todo |-> order.todo,
     finished |-> {}, cancelled |-> {}, failed |-> {}, active |-> 0,
     lease |-> IF Flies(order.plan) THEN "none" ELSE "ours",
     hold |-> FALSE, paused |-> FALSE, stopping |-> FALSE,
     complete |-> FALSE, ended |-> FALSE, fenced |-> FALSE, gone |-> FALSE,
     told |-> FALSE]       \* the lane's task told it to stop

AwaitsHandBack(r) == r.lease \in {"lost", "freed"}

\* What it says it does: it lost control, which somebody took or let go, or not.
Execution(r) == IF AwaitsHandBack(r) /\ ~(r.gone /\ r.stopping) THEN r.lease ELSE "other"
\* What a run shows of itself.
Status(r) ==
    [plan |-> r.plan, active |-> r.active, finished |-> r.finished,
     cancelled |-> r.cancelled, failed |-> r.failed, complete |-> r.complete,
     ended |-> r.ended \/ r.fenced, hold |-> r.hold, execution |-> Execution(r)]
\* A status as it was read, and whether its run is over by now.
Progress(s, gone, still) ==
    [plan |-> s.plan, active |-> s.active, finished |-> s.finished,
     cancelled |-> s.cancelled, failed |-> s.failed, complete |-> s.complete,
     ended |-> s.ended \/ gone, holding |-> still, execution |-> s.execution]

Init ==
    /\ lane = NewLane /\ turn = "idle"
    /\ run = NoRun /\ controls = <<>> /\ seen = NoRun
    /\ unrecorded = NoOrder /\ afterHandBack = NoOrder /\ starting = NoOrder
    /\ journal = NoRecord
    /\ now = 0 /\ plans = 0
    /\ reports = {}
    /\ troubles = 0

-----------------------------------------------------------------------------
(* Effects *)

\* Makes the journal hold the record of l; kept is whether it does.
Write(l, kept) ==
    /\ ~kept => Record(l) # journal /\ troubles < MaxTroubles
    /\ journal' = IF kept THEN Record(l) ELSE journal
    /\ troubles' = IF kept THEN troubles ELSE troubles + 1

\* A run that is over hears nothing; a full channel keeps the lane waiting.
Hears == run # NoRun /\ ~run.gone
Tell(control) ==
    /\ Hears => Len(controls) < Capacity
    /\ controls' = IF Hears THEN Append(controls, control) ELSE controls

\* Mutant: a run starts as if nothing held its lane.
SpawnFree(order, l) == run' = NewRunOf(order) /\ controls' = <<>>
Spawn(order, l) ==
    /\ run' = NewRunOf(order)
    /\ controls' = IF Holding(l) THEN <<"hold">> ELSE <<>>

\* The run in progress lost control, and the order may not start without it.
Waits(order) ==
    /\ run # NoRun
    /\ AwaitsHandBack(run) /\ ~(order.recovery /\ run.lease = "freed")

\* Starts the run of order, once the journal holds the lane's record; left
\* still waits for the journal, and waiting for a hand-back.
StartRun(order, l, left, waiting) ==
    \/ /\ Write(l, FALSE)
       /\ unrecorded' = order /\ afterHandBack' = waiting
       /\ UNCHANGED <<run, controls, starting>>
    \/ /\ Write(l, TRUE) /\ Waits(order)
       /\ Tell("hold")
       /\ unrecorded' = left /\ afterHandBack' = order
       /\ UNCHANGED <<run, starting>>
    \/ /\ Write(l, TRUE) /\ ~Waits(order) /\ run # NoRun
       /\ Tell("abort")
       /\ starting' = order
       /\ unrecorded' = left /\ afterHandBack' = waiting
       /\ UNCHANGED run
    \/ /\ Write(l, TRUE) /\ run = NoRun
       /\ Spawn(order, l)
       /\ unrecorded' = left /\ afterHandBack' = waiting
       /\ UNCHANGED starting

\* Mutant: a replaced run resumes with its lane.
ResumesAnyway == Tell("resume")
\* A replaced run stays held: only its replacement resumes.
Resumes == IF afterHandBack # NoOrder THEN UNCHANGED controls ELSE Tell("resume")

Perform(effect, l) ==
    CASE effect.do = "start" -> StartRun(effect.order, l, unrecorded, afterHandBack)
      [] effect.do \in {"hold", "answer"} ->
            /\ Tell(effect.do)
            /\ UNCHANGED <<run, orders, journal, troubles>>
      [] effect.do = "resume" ->
            /\ Resumes
            /\ UNCHANGED <<run, orders, journal, troubles>>
      [] effect.do = "abort" ->
            /\ Tell("abort")
            /\ unrecorded' = NoOrder /\ afterHandBack' = NoOrder
            /\ UNCHANGED <<run, starting, journal, troubles>>
      [] OTHER -> UNCHANGED <<run, controls, orders, journal, troubles>>

\* The plan a recovery compiled, if it did.
Compiled(l) == IF plans + 1 \in {l.proposal.digest} \cup
                     (IF l.successor = NoSuccessor THEN {} ELSE {l.successor.plan.digest})
               THEN plans + 1 ELSE plans

-----------------------------------------------------------------------------
(* Intents *)

\* What is left of the turn is the record, if there is something to record.
Closes ==
    turn' = IF Record(lane') = journal' /\ unrecorded' = NoOrder THEN "idle" ELSE "record"

Take(reply) ==
    /\ turn = "idle" /\ starting = NoOrder
    /\ lane' = reply.lane
    /\ Perform(reply.effect, reply.lane)
    /\ Closes
    /\ UNCHANGED <<seen, now, reports>>

ProposeIntent ==
    \E kind \in Kinds :
        /\ ~IsFlying(lane) /\ plans < MaxPlans
        /\ Take(Propose(lane, Plan(kind)))
        /\ plans' = plans + 1
ApproveIntent ==
    \E p \in Approvable(lane) : \E approval \in Approvals(p) :
        /\ Admits(approval, p, now)
        /\ Take(Approve(lane, approval))
        /\ UNCHANGED plans
StartIntent == CanStart(lane, now) /\ Take(Start(lane)) /\ UNCHANGED plans
HoldIntent == Live(lane) /\ Take(Hold(lane)) /\ UNCHANGED plans
ResumeIntent == CanResume(lane, now) /\ Take(Resume(lane)) /\ UNCHANGED plans
AbortIntent == IsFlying(lane) /\ Take(Abort(lane)) /\ UNCHANGED plans
ReviseIntent ==
    \E within \in BOOLEAN :
        /\ CanRevise(lane) /\ plans < MaxPlans
        /\ Take(Revise(lane, Plan("survey"), within, now))
        /\ plans' = plans + 1
AnswerIntent == CanAnswer(lane) /\ Take(Answer(lane)) /\ UNCHANGED plans

-----------------------------------------------------------------------------
(* Ticks *)

Clock ==
    LET reply == OnClock(lane, Plan("home"), now)
    IN  /\ turn = "idle" /\ starting = NoOrder /\ ExpiredNow(lane, now)
        /\ lane' = reply.lane
        /\ Perform(reply.effect, reply.lane)
        /\ plans' = Compiled(reply.lane)
        /\ turn' = "status"
        /\ UNCHANGED <<seen, now, reports>>

ReadStatus ==
    /\ starting = NoOrder
    /\ turn = "status" \/ (turn = "idle" /\ ~ExpiredNow(lane, now))
    /\ seen' = (IF run = NoRun THEN NoRun ELSE Status(run)) /\ turn' = "progress"
    /\ UNCHANGED <<lane, run, controls, orders, journal, now, plans, reports, troubles>>

\* The run that lost control ended, so no hand-back can reach it.
ReplacedRunEnded ==
    /\ run.gone
    /\ IF afterHandBack.recovery
       THEN /\ \/ /\ Write(lane, TRUE)
                  /\ Spawn(afterHandBack, lane)
                  /\ UNCHANGED unrecorded
               \/ /\ Write(lane, FALSE)
                  /\ run' = NoRun /\ controls' = <<>>
                  /\ unrecorded' = afterHandBack
            /\ UNCHANGED <<lane, starting>>
       ELSE /\ lane' = OnProgress(lane, [Progress(seen, TRUE, FALSE) EXCEPT
                            !.plan = NoPlan, !.complete = FALSE, !.execution = "other"],
                            NoPlan, now).lane
            /\ run' = NoRun /\ controls' = <<>>
            /\ UNCHANGED <<unrecorded, starting, journal, troubles>>
    /\ afterHandBack' = NoOrder
    /\ UNCHANGED plans

\* Of the replaced run only the end of its taker's lease counts.
ReplacedRunWaits ==
    LET reply == OnExecution(lane, seen.execution, Plan("home"), now)
        handedBack == \/ seen.execution = "other"
                      \/ afterHandBack.recovery /\ seen.execution = "freed"
        order == IF reply.effect.do = "start" THEN reply.effect.order ELSE afterHandBack
    IN  /\ ~run.gone
        /\ lane' = reply.lane
        /\ plans' = IF reply.effect.do = "start" THEN plans + 1 ELSE plans
        /\ IF reply.effect.do = "start" \/ handedBack
           THEN StartRun(order, reply.lane, unrecorded, NoOrder)
           ELSE UNCHANGED <<run, controls, orders, journal, troubles>>

\* A run whose lane ended is told to stop; one that ended is forgotten.
Watched(l) ==
    /\ IF ~IsFlying(l) /\ ~run.told /\ ~run.gone
       THEN IF Len(controls) < Capacity
            THEN run' = [run EXCEPT !.told = TRUE] /\ controls' = Append(controls, "abort")
            ELSE UNCHANGED <<run, controls>>
       ELSE IF run.gone THEN run' = NoRun /\ controls' = <<>>
                        ELSE UNCHANGED <<run, controls>>
    /\ UNCHANGED <<orders, journal, troubles>>

\* A vehicle that was told to hold stands still, or does not yet.
OwnRunProgress ==
    \E still \in {FALSE} \cup (IF lane.state = "holdRequested" THEN {seen.hold} ELSE {}) :
        LET reply == OnProgress(lane, Progress(seen, run.gone, still), Plan("home"), now)
        IN  /\ lane' = reply.lane
            /\ plans' = IF lane.tasks = <<>> THEN plans ELSE Compiled(reply.lane)
            /\ IF reply.effect.do # "none"
               THEN Perform(reply.effect, reply.lane)
               ELSE Watched(reply.lane)

ProgressTick ==
    /\ turn = "progress" /\ starting = NoOrder
    /\ CASE run = NoRun -> UNCHANGED <<lane, plans, run, controls, orders, journal, troubles>>
         [] run # NoRun /\ afterHandBack # NoOrder -> ReplacedRunEnded \/ ReplacedRunWaits
         [] run # NoRun /\ afterHandBack = NoOrder -> OwnRunProgress
    /\ Closes /\ seen' = NoRun
    /\ UNCHANGED <<now, reports>>

\* The journal holds the run as it is now, and the run that waited starts.
RecordTurn ==
    /\ turn = "record" /\ starting = NoOrder
    /\ \/ unrecorded # NoOrder /\ StartRun(unrecorded, lane, NoOrder, afterHandBack)
       \/ /\ unrecorded = NoOrder /\ \E kept \in BOOLEAN : Write(lane, kept)
          /\ UNCHANGED <<run, controls, orders>>
    /\ turn' = "idle"
    /\ UNCHANGED <<lane, seen, now, plans, reports>>

\* The run it replaces ended.
Replaced ==
    /\ starting # NoOrder /\ run.gone
    /\ Spawn(starting, lane)
    /\ starting' = NoOrder
    /\ UNCHANGED <<lane, turn, seen, unrecorded, afterHandBack, journal, now, plans, reports, troubles>>

HostStep == Clock \/ ReadStatus \/ ProgressTick \/ RecordTurn \/ Replaced

-----------------------------------------------------------------------------
(* A flight *)

Flight == Hears /\ Flies(run.plan)
RunOnly == UNCHANGED <<lane, turn, seen, orders, journal, now, plans, reports>>
Goes == RunOnly /\ UNCHANGED <<controls, troubles>>
Suffers(left) ==
    /\ troubles < MaxTroubles /\ troubles' = troubles + 1
    /\ controls' = left
    /\ RunOnly

\* A resume starts the clock of its tasks again, whoever holds the lease.
FlightControl ==
    /\ Flight /\ controls # <<>>
    /\ LET control == Head(controls)
       IN  run' = CASE control = "hold" -> [run EXCEPT !.hold = TRUE, !.paused = TRUE]
                    [] control = "resume" ->
                          IF run.stopping THEN run
                                          ELSE [run EXCEPT !.hold = FALSE, !.paused = FALSE]
                    [] control = "abort" ->
                          [run EXCEPT !.hold = TRUE, !.paused = TRUE, !.stopping = TRUE]
                    [] OTHER -> run
    /\ controls' = Tail(controls)
    /\ RunOnly /\ UNCHANGED troubles

\* The engine answers the lease request: granted, or denied while a person holds it.
LeaseAnswered ==
    /\ Flight /\ ~run.fenced /\ run.lease = "none"
    /\ \E answer \in {"ours", "denied"} :
          run' = [run EXCEPT !.lease = answer, !.paused = @ \/ answer = "denied"]
    /\ Goes
\* A person hands control over, or a denied lease is free at a later request.
LeaseHandedOver ==
    /\ Flight /\ ~run.fenced /\ run.lease \in {"denied", "lost"}
    /\ run' = [run EXCEPT !.lease = "ours", !.paused = FALSE]
    /\ Goes
ControlIsLost ==
    /\ Flight /\ run.lease \in {"ours", "freed"}
    /\ run' = [run EXCEPT !.lease = "lost", !.paused = TRUE]
    /\ Suffers(controls)
ControlIsFreed ==
    /\ Flight /\ run.lease = "lost"
    /\ run' = [run EXCEPT !.lease = "freed"]
    /\ Goes

Ticks == Flight /\ ~run.fenced /\ run.lease # "none" /\ ~run.hold /\ ~run.paused
Undone == run.todo \ (run.finished \cup run.cancelled \cup run.failed)
NextTask == CHOOSE i \in Undone : \A j \in Undone : i <= j

TaskStarted ==
    /\ Ticks /\ run.active = 0 /\ Undone # {}
    /\ run' = [run EXCEPT !.active = NextTask]
    /\ Goes
TaskFinished ==
    /\ Ticks /\ run.active # 0
    /\ run' = [run EXCEPT !.finished = @ \cup {run.active}, !.active = 0,
                          !.complete = Undone = {run.active}]
    /\ Goes

\* The vehicle disarmed or landed on its own: the run stops as by an abort.
LeftFlight ==
    /\ Flight /\ ~run.fenced /\ ~run.stopping /\ run.active # 0
    /\ run' = [run EXCEPT !.ended = TRUE, !.hold = TRUE, !.paused = TRUE, !.stopping = TRUE]
    /\ Goes
\* A frame was rejected under a superseded authority: the run is fenced for good.
Fence ==
    /\ Flight /\ ~run.fenced /\ run.lease \in {"ours", "lost", "freed"}
    /\ run' = [run EXCEPT !.fenced = TRUE, !.lease = IF @ = "ours" THEN "denied" ELSE @]
    /\ Suffers(controls)
\* Its plan cannot be built, or the engine closes its connection.
FlightExits ==
    /\ Flight
    /\ run' = [run EXCEPT !.gone = TRUE]
    /\ Suffers(<<>>)
\* Stopped in place, it releases the lease and ends; without one it just ends.
Released ==
    /\ Flight /\ ~run.fenced /\ run.stopping /\ run.lease # "none"
    /\ run' = [run EXCEPT !.gone = TRUE, !.fenced = TRUE]
    /\ controls' = <<>>
    /\ RunOnly /\ UNCHANGED troubles

FlightStep == \/ FlightControl \/ LeaseAnswered \/ TaskStarted \/ TaskFinished \/ Released
People == \/ LeaseHandedOver \/ ControlIsLost \/ ControlIsFreed \/ LeftFlight \/ Fence
          \/ FlightExits

-----------------------------------------------------------------------------
(* A run of operations *)

Operating == Hears /\ ~Flies(run.plan)
Between == Operating /\ run.active = 0
At(kind) == Operating /\ run.active # 0 /\ Operations[run.active] = kind

\* The journal holds the end of every task that ended before the next.
EndedInJournal ==
    IF journal = NoRecord THEN 0
    ELSE Cardinality({i \in DOMAIN journal.tasks : journal.tasks[i] \in Ended})
\* Mutant: the last end is left out.
RecordedButLast ==
    EndedInJournal + 1 >= Cardinality(DOMAIN Operations \ run.todo) + Cardinality(run.finished)
RecordedAll ==
    EndedInJournal >= Cardinality(DOMAIN Operations \ run.todo) + Cardinality(run.finished)

Over(r) == [r EXCEPT !.gone = TRUE, !.stopping = TRUE]
Done(r) == [r EXCEPT !.finished = @ \cup {r.active}, !.active = 0]
\* After the controls told, in their order.
WithControls(r, told) ==
    LET steering == {i \in DOMAIN told : told[i] \in {"hold", "resume"}}
        last == CHOOSE i \in steering : \A j \in steering : j <= i
    IN  [r EXCEPT !.hold = IF steering = {} THEN @ ELSE told[last] = "hold",
                  !.stopping = @ \/ \E i \in DOMAIN told : told[i] = "abort"]

\* It takes its controls between two operations, and while it asks a person;
\* an abort ends it there.
OperationControl ==
    /\ Between \/ At("ask")
    /\ controls # <<>>
    /\ LET control == Head(controls)
       IN  CASE control = "abort" ->
                  run' = Over([run EXCEPT !.cancelled = @ \cup ({run.active} \ {0}),
                                          !.active = 0])
             [] control = "answer" /\ At("ask") ->
                  \E accepted \in BOOLEAN :
                      run' = IF accepted THEN Done(run)
                                         ELSE Over([Done(run) EXCEPT !.ended = TRUE])
             [] OTHER -> run' = WithControls(run, <<control>>)
    /\ controls' = Tail(controls)
    /\ RunOnly /\ UNCHANGED troubles

OperationBegins ==
    /\ Between /\ controls = <<>> /\ Undone # {}
    /\ ~run.hold /\ ~run.stopping /\ RecordedAll
    /\ run' = [run EXCEPT !.active = NextTask]
    /\ Goes

ReadEnds == At("read") /\ run' = Done(run) /\ Goes

\* The report is in place, and the run does not know it yet.
ReportStands ==
    /\ At("write") /\ <<run.plan.digest, run.active>> \notin reports
    /\ reports' = reports \cup {<<run.plan.digest, run.active>>}
    /\ UNCHANGED <<lane, turn, run, controls, seen, orders, journal, now, plans, troubles>>

\* An abort does not cut a write short; it ends the run after it.  A failed
\* write may leave its report in place.
WriteEnds ==
    /\ At("write")
    /\ \/ /\ <<run.plan.digest, run.active>> \in reports
          /\ run' = WithControls(Done(run), controls)
          /\ controls' = <<>> /\ UNCHANGED troubles
       \/ /\ troubles < MaxTroubles /\ troubles' = troubles + 1
          /\ run' = Over([run EXCEPT !.failed = @ \cup {run.active}, !.ended = TRUE])
          /\ UNCHANGED controls
    /\ RunOnly

\* Its last operation ended, or an abort came during the one before.
OperationsEnd ==
    /\ Between
    /\ \/ run.stopping /\ run' = Over(run)
       \/ ~run.stopping /\ Undone = {} /\ run' = Over([run EXCEPT !.complete = TRUE])
    /\ Goes

OperationStep == \/ OperationControl \/ OperationBegins \/ ReadEnds \/ ReportStands
                 \/ WriteEnds \/ OperationsEnd

-----------------------------------------------------------------------------
(* Time, and a restart of the host *)

\* now is the time the lane's task read last.
TimePasses ==
    /\ turn = "idle" /\ starting = NoOrder
    /\ now < MaxTime /\ now' = now + 1
    /\ UNCHANGED <<lane, turn, run, controls, seen, orders, journal, plans, reports, troubles>>

\* The host starts again from its journal and asks what became of the
\* operations it may ask about; an answer may be unavailable.
Crash ==
    LET restored == IF journal = NoRecord THEN NewLane ELSE Restore(journal)
        Report(i) == <<restored.proposal.digest, i>>
        written == {i \in restored.queried : Operations[i] = "write" /\ Report(i) \in reports}
    IN  /\ troubles < MaxTroubles /\ troubles' = troubles + 1
        /\ \E told \in SUBSET restored.queried :
              LET found == Reconcile(restored, told \cap written, told \ written)
              IN  /\ {i \in restored.queried : Operations[i] = "ask"} \subseteq told
                  /\ lane' = found
                  /\ journal' = IF journal = NoRecord THEN journal ELSE Record(found)
        /\ turn' = "idle"
        /\ run' = NoRun /\ controls' = <<>> /\ seen' = NoRun
        /\ unrecorded' = NoOrder /\ afterHandBack' = NoOrder /\ starting' = NoOrder
        /\ UNCHANGED <<now, plans, reports>>

-----------------------------------------------------------------------------

Intent == \/ ProposeIntent \/ ApproveIntent \/ StartIntent \/ HoldIntent \/ ResumeIntent
          \/ AbortIntent \/ ReviseIntent \/ AnswerIntent

Next == Intent \/ HostStep \/ FlightStep \/ People \/ OperationStep \/ TimePasses \/ Crash

Spec == Init /\ [][Next]_vars
\* The lane's task and its run go on; people, failures and time need not.
FairSpec == Spec /\ WF_vars(HostStep) /\ WF_vars(FlightStep) /\ WF_vars(OperationStep)

-----------------------------------------------------------------------------
(* What the lane and its runs keep to *)

\* A run of the lane begins.
RunBegins == run' # NoRun /\ ~run'.gone /\ (run = NoRun \/ run.gone)
\* It begins though its lane took another plan, or ended, since it was ordered:
\* start() leaves the orders that wait where they are when a later one starts
\* (see StartsAreJournalled).
StaleStart == RunBegins /\ (run'.plan # lane'.proposal \/ ~Live(lane'))

LaneApproved ==
    Live(lane) =>
        /\ lane.approval # NoApproval /\ lane.approval.digest = lane.proposal.digest
        /\ lane.state = "running" => lane.holds = {}
        /\ lane.successor # NoSuccessor =>
              (lane.successor.admitted <=>
                  lane.successor.approval # NoApproval
                  /\ lane.successor.approval.digest = lane.successor.plan.digest)
        /\ lane.expired /\ lane.approval.onExpiry = "hold" => "approvalExpired" \in lane.holds

\* A lane on its way home, or that flies it after the line in progress.
GoesHome(l) ==
    \/ l.proposal.kind = "home"
    \/ l.successor # NoSuccessor /\ l.successor.basis = "expiryRecovery"
\* A lane that is now m goes home if its expired approval says so, unless it
\* had already expired, as k, and did not.
KeepsHome(k, m) ==
    (/\ Live(m) /\ m.expired /\ m.approval.onExpiry = "home" /\ Flies(m.proposal)
     /\ k.expired /\ Live(k) => GoesHome(k))
    => GoesHome(m)

\* A lane is at work only under an approval that binds its very plan.  One whose
\* approval expired is held until it is renewed, and so is every run that begins
\* for it; or it goes home, unless a person drafts a revision, which takes the
\* place of the way home (expiry.rs:1-5, successor.rs:103).  A run begins only
\* for the plan approved, but for a stale start.
UnderApproval ==
    [][/\ LaneApproved'
       /\ ~ReviseIntent => KeepsHome(lane, lane')
       /\ RunBegins /\ ~StaleStart =>
             /\ lane'.approval.digest = run'.plan.digest
             /\ "approvalExpired" \in lane'.holds => controls' = <<"hold">>]_vars

\* Once the run took what it was told, it holds when its lane holds and goes on
\* when its lane runs; a restarted lane has no run before a person resumes it.
HoldsAreInForce ==
    /\ (/\ turn = "idle" /\ orders = <<NoOrder, NoOrder, NoOrder>> /\ controls = <<>>
        /\ Hears /\ Live(lane) /\ ~run.stopping)
       => (run.hold <=> Holding(lane))
    /\ "restarted" \in lane.holds => run = NoRun /\ unrecorded = NoOrder

\* When a run begins the journal holds its lane as it is, and its plan but for a
\* stale start; and an operation of the lane's run begins only once the journal
\* holds how the ones before it ended, the very ones (journal.rs:6).
JournalLeads ==
    [][/\ RunBegins =>
             /\ journal' = Record(lane')
             /\ ~StaleStart => journal' # NoRecord /\ journal'.proposal = run'.plan
       /\ Between /\ run' # NoRun /\ run'.active # 0 /\ Live(lane) /\ lane.proposal = run.plan
          => \A i \in 1 .. run'.active - 1 : journal.tasks[i] \in Ended]_vars

\* "The host starts no run before the journal holds it" (journal.rs:6).
StartsAreJournalled ==
    [][RunBegins => journal' # NoRecord /\ journal'.proposal = run'.plan]_vars

\* The lane takes for its own run's the completion of a run that its own was to
\* replace, and that was left in place (lane.rs:459; see CompletionsAreTrue).
ForeignCompletion ==
    /\ ProgressTick /\ run # NoRun /\ afterHandBack = NoOrder
    /\ seen.complete /\ run.plan # lane.proposal

\* The operations of a plan that a lane or a record calls completed.
Completed(r, plan) == {i \in DOMAIN r.tasks : r.proposal = plan /\ r.tasks[i] = "completed"}

\* A write that a lane comes to call completed left its report, whatever runs,
\* restarts, replaced runs and failures of the journal came between: a restart
\* calls completed what its journal did, or what the host found to have happened.
\* And a lane of any plan comes to be complete only with every task of its plan
\* completed, or as its journal had it: only a foreign completion is not true.
OutcomesAreTrue ==
    [][LET plan == lane'.proposal
           known == Completed(lane, plan) \cup
                       (IF journal = NoRecord THEN {} ELSE Completed(journal, plan))
       IN  ~ForeignCompletion =>
              /\ plan # NoPlan /\ ~Flies(plan) =>
                    \A i \in Completed(lane', plan) \ known :
                       Operations[i] = "write" => <<plan.digest, i>> \in reports'
              /\ lane'.state = "complete" =>
                    \/ lane.state = "complete"
                    \/ /\ journal # NoRecord /\ journal.proposal = plan
                       /\ journal.state = "complete"
                    \/ \A i \in DOMAIN lane'.tasks : lane'.tasks[i] = "completed"]_vars

\* "A plan that completes ends the run" (lane.rs:431): a lane that is complete
\* completed the tasks of its plan.
CompletionsAreTrue ==
    lane.state = "complete" => \A i \in DOMAIN lane.tasks : lane.tasks[i] = "completed"

\* A restart replays nothing: no operation that left its report begins again.
NothingIsReplayed ==
    [][Between /\ run' # NoRun /\ run'.active # 0
         => <<run.plan.digest, run'.active>> \notin reports]_vars

\* A run that is not over holds, or ends, once it took what it was told.
StaysHeld ==
    Hears => LET told == WithControls(run, controls) IN told.hold \/ told.stopping

\* A run that awaits a hand-back is told to end for another only if that is a
\* recovery and its taker let go, and where another begins in its place it is one
\* for the way home, or the run lost control after it was told to end: start()
\* awaits that end and does not look again (start.rs:20-37).  A run that an order
\* waits for is told to hold and stays held, so its own plan never flies again,
\* whoever resumes the lane (start.rs:24).
HandBackComesFirst ==
    [][/\ starting' \notin {NoOrder, starting} /\ AwaitsHandBack(run) =>
             starting'.recovery /\ run.lease = "freed"
       /\ RunBegins /\ run # NoRun /\ AwaitsHandBack(run) =>
             starting # NoOrder \/ run'.plan.kind = "home"
       /\ afterHandBack' # NoOrder /\ ~RunBegins
          /\ (afterHandBack' # afterHandBack \/ StaysHeld) => StaysHeld']_vars

\* "The previous run released the vehicle or is releasing it": the run that
\* is replaced ends, and its replacement starts (start.rs:33).
ReplacementsStart == starting # NoOrder ~> starting = NoOrder
=============================================================================
