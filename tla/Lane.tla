-------------------------------- MODULE Lane --------------------------------
(***************************************************************************)
(* The mission lane of one vehicle: pilotage-mission, lane.rs and lane/.   *)
(* The lane is sans-IO: an intent, the clock or the run's progress changes *)
(* its record and returns an effect for the host.  A lane is the record    *)
(* NewLane and what the operators below make of it; each of them is one    *)
(* call and returns [lane, effect].  A refused call changes nothing, so    *)
(* what the code refuses is the negation of the operator's Can... guard.   *)
(*                                                                         *)
(* A plan is its digest and what it flies.  An approval is the digest it   *)
(* binds, its expiry and its two recoveries; the height, area and reserve  *)
(* of its envelope are taken to cover the plan.                            *)
(***************************************************************************)
EXTENDS Integers, Sequences, FiniteSets

CONSTANTS Operations,      \* of a plan of operations: "read", "write" or "ask"
          Lines,           \* of a survey
          NoPlan, NoApproval, NoSuccessor, NoOrder, NoRecord

ASSUME LaneAssumption ==
    /\ Operations \in Seq({"read", "write", "ask"}) /\ Operations # <<>>
    /\ Lines \in Nat \ {0}

AnyPlan == [digest : Nat, kind : {"operations", "survey", "home"}]
\* An order is told from none.
ASSUME OrderAssumption ==
    NoOrder \notin [plan : AnyPlan, todo : SUBSET Nat, recovery : BOOLEAN]

TasksOf(plan) ==
    CASE plan.kind = "operations" -> Operations
      [] plan.kind = "survey" -> [i \in 1 .. Lines + 1 |-> IF i > Lines THEN "home" ELSE "line"]
      [] plan.kind = "home" -> <<"home">>
Flies(plan) == plan.kind # "operations"

NewLane ==
    [state |-> "idle", proposal |-> NoPlan, approval |-> NoApproval,
     tasks |-> <<>>,       \* of its run, each with how its execution stands
     active |-> 0, answered |-> FALSE,
     successor |-> NoSuccessor,
     expired |-> FALSE, execution |-> "other", holds |-> {},
     restarted |-> FALSE, queried |-> {}]

Reply(l, do) == [lane |-> l, effect |-> [do |-> do, order |-> NoOrder]]
StartReply(l, order) == [lane |-> l, effect |-> [do |-> "start", order |-> order]]

Live(l) == l.state \in {"running", "holdRequested", "held"}
IsFlying(l) == Live(l) \/ l.state = "uncertain"
Holding(l) == l.state \in {"holdRequested", "held"}
Open == {"pending", "active", "uncertain"}    \* TaskTrack::end changes these
Ended == {"completed", "cancelled", "failed"}
Approval == [digest : Nat, expires : Nat, onExpiry : {"hold", "home"},
             onControlLost : {"hold", "home"}]
\* No plan is told from one, no successor from a way home, and no record from
\* that of a lane at work.
ASSUME RecordAssumption ==
    /\ NoPlan \notin AnyPlan
    /\ NoSuccessor \notin [plan : AnyPlan, admitted : {TRUE}, basis : {"expiryRecovery"},
                           approval : Approval, flown : Nat]
    /\ NoRecord \notin [proposal : AnyPlan, approval : Approval,
                        state : {"running", "holdRequested", "held"},
                        tasks : Seq(Open \cup Ended)]

NewRun(plan) == [i \in DOMAIN TasksOf(plan) |-> "pending"]
IsTask(l, kind) == l.active # 0 /\ TasksOf(l.proposal)[l.active] = kind
FlownLines(l) ==
    Cardinality({i \in DOMAIN l.tasks : /\ TasksOf(l.proposal)[i] = "line"
                                        /\ l.tasks[i] \in Ended})
ControlLost(l) == l.execution \in {"lost", "freed"}

-----------------------------------------------------------------------------
(* Approvals *)

StillValid(approval, now) == now < approval.expires
\* Mutant: a delegated approval keeps the digest it was given for.
BindNothing(approval, plan) == approval
Bind(approval, plan) == [approval EXCEPT !.digest = plan.digest]

\* A recovery the plan cannot fly is refused.
Admits(approval, plan, now) ==
    /\ approval.digest = plan.digest
    /\ StillValid(approval, now)
    /\ "home" \in {approval.onExpiry, approval.onControlLost} => Flies(plan)

WithHold(l, reason) == [l EXCEPT !.holds = @ \cup {reason}]

Order(plan, todo, recovery) == [plan |-> plan, todo |-> todo, recovery |-> recovery]
Left(l) == {i \in DOMAIN l.tasks : l.tasks[i] = "pending"}

\* A restarted run has no run on the host to resume: what is left of it starts.
ResumeWhenFree(l) ==
    LET freed == [l EXCEPT !.state = "running", !.restarted = FALSE]
    IN  IF l.holds # {} \/ ~Holding(l) THEN Reply(l, "none")
        ELSE IF l.restarted THEN StartReply(freed, Order(l.proposal, Left(l), FALSE))
                            ELSE Reply(freed, "resume")

Renew(l, approval) ==
    ResumeWhenFree([l EXCEPT !.approval = approval, !.expired = FALSE,
                             !.holds = @ \ {"approvalExpired"}])

-----------------------------------------------------------------------------
(* Successors: revisions of a plan in progress, and recoveries *)

Recoveries == {"expiryRecovery", "controlLossRecovery"}

Draft(l, plan) ==
    [l EXCEPT !.successor = [plan |-> plan, admitted |-> FALSE, basis |-> "drafted",
                             approval |-> NoApproval, flown |-> FlownLines(l)]]

\* A held lane starts its successor's run held.
Switch(l) ==
    LET next == l.successor
        holds == IF next.basis = "expiryRecovery" THEN l.holds
                                                  ELSE l.holds \ {"approvalExpired"}
    IN  StartReply([l EXCEPT !.proposal = next.plan, !.approval = next.approval,
                             !.tasks = NewRun(next.plan), !.active = 0, !.answered = FALSE,
                             !.successor = NoSuccessor,
                             !.expired = next.basis = "expiryRecovery",
                             !.holds = holds,
                             !.state = IF holds = {} THEN "running" ELSE @],
                   Order(next.plan, DOMAIN NewRun(next.plan), next.basis \in Recoveries))

Admitted(l, approval, basis) ==
    [l EXCEPT !.successor.admitted = TRUE, !.successor.basis = basis,
              !.successor.approval = approval]

AdmitSuccessor(l, approval, basis) ==
    LET admitted == Admitted(l, approval, basis)
    IN  IF Holding(l) \/ ~IsTask(l, "line") \/ ControlLost(l)
        THEN Switch(admitted) ELSE Reply(admitted, "none")

\* A revision applies only under its own approval, still valid now.
StillAdmitted(l, now) ==
    \/ l.successor.basis \in Recoveries
    \/ Admits(l.successor.approval, l.successor.plan, now)

AtCheckpoint(l, complete, now) ==
    LET reached == \/ complete \/ ~IsTask(l, "line")
                   \/ FlownLines(l) > l.successor.flown
    IN  CASE l.successor = NoSuccessor -> Reply(l, "none")
          [] l.successor # NoSuccessor /\ ~l.successor.admitted -> Reply(l, "none")
          [] l.successor # NoSuccessor /\ l.successor.admitted ->
                IF ~StillAdmitted(l, now)
                THEN Reply([l EXCEPT !.successor.admitted = FALSE, !.successor.basis = "drafted",
                                     !.successor.approval = NoApproval], "none")
                ELSE IF reached THEN Switch(l) ELSE Reply(l, "none")

-----------------------------------------------------------------------------
(* Intents *)

Propose(l, plan) ==
    Reply([l EXCEPT !.state = "proposed", !.proposal = plan, !.approval = NoApproval,
                    !.tasks = <<>>, !.active = 0, !.answered = FALSE,
                    !.successor = NoSuccessor, !.holds = {},
                    !.restarted = FALSE, !.queried = {}], "none")

\* What an approval is for: the plan, its renewal, or the drafted successor.
Approvable(l) ==
    CASE l.state = "proposed" -> {l.proposal}
      [] IsFlying(l) -> {l.proposal} \cup
            (IF l.successor = NoSuccessor THEN {}
             ELSE IF l.successor.admitted THEN {} ELSE {l.successor.plan})
      [] OTHER -> {}

Approve(l, approval) ==
    CASE l.state = "proposed" ->
            Reply([l EXCEPT !.approval = approval, !.state = "admitted"], "none")
      [] IsFlying(l) /\ approval.digest = l.proposal.digest -> Renew(l, approval)
      [] OTHER -> AdmitSuccessor(l, approval, "approved")

CanStart(l, now) == l.state = "admitted" /\ StillValid(l.approval, now)
Start(l) ==
    StartReply([l EXCEPT !.expired = FALSE, !.tasks = NewRun(l.proposal), !.active = 0,
                         !.answered = FALSE, !.state = "running"],
               Order(l.proposal, DOMAIN NewRun(l.proposal), FALSE))

Hold(l) ==
    IF l.state = "running"
    THEN Reply([WithHold(l, "operator") EXCEPT !.state = "holdRequested"], "hold")
    ELSE Reply(WithHold(l, "operator"), "none")

CanResume(l, now) ==
    /\ Holding(l) /\ "approvalExpired" \notin l.holds
    /\ l.expired \/ StillValid(l.approval, now)
Resume(l) == ResumeWhenFree([l EXCEPT !.holds = @ \ {"operator", "restarted"}])

\* What a flight was at is cancelled; an operation ends as its run reports it.
Abort(l) ==
    Reply([l EXCEPT !.state = "aborted", !.successor = NoSuccessor, !.holds = {},
                    !.restarted = FALSE, !.queried = {}, !.active = 0,
                    !.tasks = [i \in DOMAIN @ |->
                        IF Flies(l.proposal) /\ @[i] = "active" THEN "cancelled" ELSE @[i]]],
          "abort")

CanRevise(l) == Live(l) /\ Flies(l.proposal)
Revise(l, plan, within, now) ==
    LET delegated == Bind(l.approval, plan)
    IN  IF within /\ Admits(delegated, plan, now)
        THEN AdmitSuccessor(Draft(l, plan), delegated, "withinEnvelope")
        ELSE Reply(Draft(l, plan), "none")

CanAnswer(l) == IsFlying(l) /\ IsTask(l, "ask") /\ ~l.answered
Answer(l) == Reply([l EXCEPT !.answered = TRUE], "answer")

-----------------------------------------------------------------------------
(* The clock and the run's progress.  home is a fresh plan for a way home. *)

ExpiredNow(l, now) == Live(l) /\ ~l.expired /\ ~StillValid(l.approval, now)

OnClock(l, home, now) ==
    LET late == [l EXCEPT !.expired = TRUE]
    IN  CASE ~ExpiredNow(l, now) -> Reply(l, "none")
          [] ExpiredNow(l, now) /\ l.approval.onExpiry = "home" /\ Flies(l.proposal) ->
                AdmitSuccessor(Draft(late, home), Bind(l.approval, home), "expiryRecovery")
          [] OTHER ->
                IF l.state = "running"
                THEN Reply([WithHold(late, "approvalExpired") EXCEPT !.state = "holdRequested"],
                           "hold")
                ELSE Reply(WithHold(late, "approvalExpired"), "none")

RecoversFromLostControl(l, now) ==
    /\ l.execution = "freed" /\ Live(l)
    /\ StillValid(l.approval, now) /\ l.approval.onControlLost = "home"
    /\ Flies(l.proposal)

RecoverFromLostControl(l, home) ==
    Switch(Admitted(Draft(l, home), Bind(l.approval, home), "controlLossRecovery"))

\* Each lease that ends without a hand-back starts the recovery once.
OnExecution(l, execution, home, now) ==
    LET seen == [l EXCEPT !.execution = execution]
    IN  IF l.execution # "freed" /\ RecoversFromLostControl(seen, now)
        THEN RecoverFromLostControl(seen, home) ELSE Reply(seen, "none")

\* The tasks of progress are those of its plan: a successor numbers its own.
Fold(l, progress) ==
    LET own == progress.plan = l.proposal
        Of(i) == IF l.tasks[i] \notin Open THEN l.tasks[i]
                 ELSE CASE i \in progress.finished -> "completed"
                        [] i \in progress.cancelled -> "cancelled"
                        [] i \in progress.failed -> "failed"
                        [] OTHER -> IF i = progress.active /\ l.tasks[i] = "pending"
                                    THEN "active" ELSE l.tasks[i]
    IN  [l EXCEPT !.tasks = IF own THEN [i \in DOMAIN @ |-> Of(i)] ELSE @,
                  !.active = IF own THEN progress.active ELSE 0,
                  !.execution = progress.execution,
                  !.state = IF @ = "holdRequested" /\ progress.holding THEN "held" ELSE @]

\* An operation in progress ends only as the host reports it.
Close(l, outcome, state) ==
    [l EXCEPT !.state = state, !.active = 0,
              !.tasks = [i \in DOMAIN @ |->
                  IF @[i] = "active" /\ (Flies(l.proposal) \/ outcome = "completed")
                  THEN outcome ELSE @[i]]]

OnProgress(l, progress, home, now) ==
    LET folded == Fold(l, progress)
        checked == IF IsFlying(l) THEN AtCheckpoint(folded, progress.complete, now)
                                  ELSE Reply(folded, "none")
        next == checked.lane
    IN  CASE l.tasks = <<>> -> Reply([l EXCEPT !.execution = progress.execution], "none")
          [] l.tasks # <<>> /\ l.execution # "freed" /\ RecoversFromLostControl(folded, now) ->
                RecoverFromLostControl(folded, home)
          [] OTHER ->
                IF checked.effect.do # "none" THEN checked
                ELSE CASE progress.complete /\ IsFlying(l) ->
                            Reply(Close(next, "completed", "complete"), "none")
                       [] ~progress.complete /\ progress.ended /\ IsFlying(l) ->
                            Reply(Close(next, "failed", "failed"), "none")
                       [] OTHER -> Reply(next, "none")

-----------------------------------------------------------------------------
(* The record of a run, and the lane a record leaves *)

Record(l) ==
    IF l.tasks = <<>> THEN NoRecord
    ELSE [proposal |-> l.proposal, approval |-> l.approval, state |-> l.state, tasks |-> l.tasks]

\* Mutant: a write is taken to have no effect worth asking about.
OnlyAsks == {"ask"}
StatusQuery == {"write", "ask"}      \* executors that can tell what happened

\* Only the first operation that did not complete may have begun.
SettleOperations(l) ==
    LET undone == {i \in DOMAIN l.tasks : l.tasks[i] # "completed"}
        first == CHOOSE i \in undone : \A j \in undone : i <= j
        stopped == \E i \in DOMAIN l.tasks : l.tasks[i] \in {"cancelled", "failed"}
        redone == TasksOf(l.proposal)[first] \notin StatusQuery /\ IsFlying(l)
    IN  IF /\ ~Flies(l.proposal) /\ undone # {}
           /\ IsFlying(l) \/ (l.state = "aborted" /\ ~stopped)
           /\ l.tasks[first] \in {"pending", "active"}
        THEN [l EXCEPT !.tasks[first] = IF redone THEN "pending" ELSE "uncertain"]
        ELSE l

\* Holds a restarted run of operations for a person once no task is uncertain.
SettleRestart(l) ==
    CASE ~l.restarted \/ l.queried # {} -> l
      [] l.restarted /\ l.queried = {} /\ l.state # "uncertain" -> [l EXCEPT !.restarted = FALSE]
      [] OTHER ->
            IF Flies(l.proposal) \/ \E i \in DOMAIN l.tasks : l.tasks[i] = "uncertain" THEN l
            ELSE IF \A i \in DOMAIN l.tasks : l.tasks[i] = "completed"
                 THEN [l EXCEPT !.restarted = FALSE, !.state = "complete"]
                 ELSE [WithHold(l, "restarted") EXCEPT !.state = "held"]

Restore(record) ==
    LET left == SettleOperations([NewLane EXCEPT
                    !.state = record.state, !.proposal = record.proposal,
                    !.approval = record.approval, !.tasks = record.tasks])
        queried == {i \in DOMAIN left.tasks : /\ left.tasks[i] = "uncertain"
                                              /\ TasksOf(left.proposal)[i] \in StatusQuery}
    IN  SettleRestart([left EXCEPT !.restarted = IsFlying(left) \/ queried # {},
                                   !.queried = queried,
                                   !.state = IF IsFlying(left) THEN "uncertain" ELSE @])

\* Mutant: an operation the host asked about is done.
ReconcileAsDone(l, happened, didNot) ==
    IF happened \cup didNot = {} THEN l
    ELSE SettleRestart([l EXCEPT
            !.queried = @ \ (happened \cup didNot),
            !.tasks = [i \in DOMAIN @ |->
                IF i \in happened \cup didNot THEN "completed" ELSE @[i]]])
\* What the host found out of the operations it could ask about.
Reconcile(l, happened, didNot) ==
    IF happened \cup didNot = {} THEN l
    ELSE SettleRestart([l EXCEPT
            !.queried = @ \ (happened \cup didNot),
            !.tasks = [i \in DOMAIN @ |-> CASE i \in happened -> "completed"
                                            [] i \in didNot -> "pending"
                                            [] OTHER -> @[i]]])
=============================================================================
