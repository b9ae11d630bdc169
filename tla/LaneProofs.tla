----------------------------- MODULE LaneProofs -----------------------------
(***************************************************************************)
(* Six theorems about LaneHost, for every plan of operations, survey, set  *)
(* of approvals, capacity of a channel and bound: what may take the place  *)
(* of a run that lost control, under which approvals a lane works, that a  *)
(* run and its lane agree on whether it holds, that the journal leads the  *)
(* run, that nothing is replayed, and that what a lane comes to call done  *)
(* was done.  Each has its invariant, which LaneInvariants states, one     *)
(* lemma per operation of the lane, and one per action of the host that    *)
(* changes what it reads.                                                  *)
(***************************************************************************)
EXTENDS LaneInvariants, TLAPS, FiniteSetTheorems, WellFoundedInduction

-----------------------------------------------------------------------------
(* The lane.                                                               *)

\* A reply that starts nothing hands on the lane it is given.
LEMMA ReplyIsHome ==
    ASSUME NEW l, HomeLane(l), NEW do, do # "start"
    PROVE  HomeReply(Reply(l, do)) /\ Reply(l, do).lane = l /\ Reply(l, do).effect.do = do
BY DEF HomeReply, Reply

\* A hold keeps the successor.
LEMMA HoldIsHome ==
    ASSUME NEW l, HomeLane(l)
    PROVE  HomeReply(Hold(l))
BY DEF HomeReply, HomeLane, Hold, Reply, WithHold

\* What is left of a restarted run is started as work, not as a recovery.
LEMMA ResumingIsHome ==
    ASSUME NEW l, HomeLane(l)
    PROVE  HomeReply(ResumeWhenFree(l))
BY DEF HomeReply, HomeLane, HomeOrder, ResumeWhenFree, Reply, StartReply, Order

\* A drafted successor is no recovery yet.
LEMMA DraftIsHome ==
    ASSUME NEW l, HomeLane(l), NEW plan
    PROVE  /\ HomeLane(Draft(l, plan))
           /\ HomeSuccessor(Draft(l, plan).successor)
           /\ Draft(l, plan).successor.plan = plan
BY DEF HomeLane, HomeSuccessor, Draft, Recoveries

\* Only a way home is admitted as a recovery.
LEMMA AdmittedIsHome ==
    ASSUME NEW l, HomeLane(l), HomeSuccessor(l.successor), NEW approval, NEW basis,
           basis \in Recoveries => l.successor.plan.kind = "home"
    PROVE  /\ HomeLane(Admitted(l, approval, basis))
           /\ HomeSuccessor(Admitted(l, approval, basis).successor)
BY DEF HomeLane, HomeSuccessor, Admitted

\* The order of a switch recovers only if its successor does.
LEMMA SwitchIsHome ==
    ASSUME NEW l, HomeLane(l), HomeSuccessor(l.successor)
    PROVE  HomeReply(Switch(l))
BY DEF HomeReply, HomeLane, HomeSuccessor, HomeOrder, Switch, StartReply, Order

\* A successor that is admitted waits, or takes over as it is.
LEMMA AdmitSuccessorIsHome ==
    ASSUME NEW l, HomeLane(l), HomeSuccessor(l.successor), NEW approval, NEW basis,
           basis \in Recoveries => l.successor.plan.kind = "home"
    PROVE  HomeReply(AdmitSuccessor(l, approval, basis))
<1> DEFINE admitted == Admitted(l, approval, basis)
<1>1. HomeLane(admitted) /\ HomeSuccessor(admitted.successor) BY AdmittedIsHome
<1>2. HomeReply(Switch(admitted)) BY <1>1, SwitchIsHome
<1>3. HomeReply(Reply(admitted, "none")) BY <1>1, ReplyIsHome
<1> QED BY <1>2, <1>3 DEF AdmitSuccessor

\* A checkpoint applies the successor, drops its admission, or does nothing.
LEMMA CheckpointIsHome ==
    ASSUME NEW l, HomeLane(l), NEW complete, NEW t
    PROVE  HomeReply(AtCheckpoint(l, complete, t))
<1>1. CASE l.successor = NoSuccessor \/ ~l.successor.admitted
  <2>1. AtCheckpoint(l, complete, t) = Reply(l, "none") BY <1>1 DEF AtCheckpoint
  <2> QED BY <2>1, ReplyIsHome
<1>2. CASE l.successor # NoSuccessor /\ l.successor.admitted
  <2> DEFINE lapsed == [l EXCEPT !.successor.admitted = FALSE, !.successor.basis = "drafted",
                                 !.successor.approval = NoApproval]
  <2>1. HomeSuccessor(l.successor) BY <1>2 DEF HomeLane
  <2>2. HomeLane(lapsed) BY <2>1 DEF HomeLane, HomeSuccessor, Recoveries
  <2>3. HomeReply(Reply(lapsed, "none")) /\ HomeReply(Reply(l, "none")) BY <2>2, ReplyIsHome
  <2>4. HomeReply(Switch(l)) BY <2>1, SwitchIsHome
  <2>5. AtCheckpoint(l, complete, t) =
           IF ~StillAdmitted(l, t) THEN Reply(lapsed, "none")
           ELSE IF complete \/ ~IsTask(l, "line") \/ FlownLines(l) > l.successor.flown
                THEN Switch(l) ELSE Reply(l, "none")
    BY <1>2, Zenon DEF AtCheckpoint
  <2>6. AtCheckpoint(l, complete, t) \in {Reply(lapsed, "none"), Switch(l), Reply(l, "none")}
    BY <2>5, Zenon
  <2> HIDE DEF lapsed
  <2> QED BY <2>3, <2>4, <2>6
<1> QED BY <1>1, <1>2

\* A new plan has no successor.
LEMMA ProposeIsHome ==
    ASSUME NEW l, HomeLane(l), NEW plan
    PROVE  HomeReply(Propose(l, plan))
BY DEF HomeReply, HomeLane, Propose, Reply

\* No approval makes a recovery of a revision.
LEMMA ApproveIsHome ==
    ASSUME NEW l, HomeLane(l), NEW p \in Approvable(l), NEW approval,
           approval.digest = p.digest
    PROVE  HomeReply(Approve(l, approval))
<1>1. CASE l.state = "proposed"
  <2> DEFINE approved == [l EXCEPT !.approval = approval, !.state = "admitted"]
  <2>1. HomeLane(approved) BY DEF HomeLane
  <2>2. Approve(l, approval) = Reply(approved, "none") BY <1>1 DEF Approve, IsFlying, Live
  <2> QED BY <2>1, <2>2, ReplyIsHome
<1>2. CASE l.state # "proposed" /\ IsFlying(l) /\ approval.digest = l.proposal.digest
  <2> DEFINE renewed == [l EXCEPT !.approval = approval, !.expired = FALSE,
                                  !.holds = @ \ {"approvalExpired"}]
  <2>1. HomeLane(renewed) BY DEF HomeLane
  <2>2. Approve(l, approval) = ResumeWhenFree(renewed) BY <1>2 DEF Approve, Renew
  <2> QED BY <2>1, <2>2, ResumingIsHome
<1>3. CASE l.state # "proposed" /\ ~(IsFlying(l) /\ approval.digest = l.proposal.digest)
  <2>1. IsFlying(l) /\ p # l.proposal BY <1>3 DEF Approvable
  <2>2. l.successor # NoSuccessor BY <1>3, <2>1 DEF Approvable
  <2>3. HomeSuccessor(l.successor) BY <2>2 DEF HomeLane
  <2>4. HomeReply(AdmitSuccessor(l, approval, "approved"))
    BY <2>3, AdmitSuccessorIsHome DEF Recoveries
  <2> QED BY <1>3, <2>4 DEF Approve
<1> QED BY <1>1, <1>2, <1>3

\* A start is work.
LEMMA StartIsHome ==
    ASSUME NEW l, HomeLane(l)
    PROVE  HomeReply(Start(l))
BY DEF HomeReply, HomeLane, HomeOrder, Start, StartReply, Order

\* A resume keeps the successor.
LEMMA ResumeIsHome ==
    ASSUME NEW l, HomeLane(l)
    PROVE  HomeReply(Resume(l))
<1>1. HomeLane([l EXCEPT !.holds = @ \ {"operator", "restarted"}]) BY DEF HomeLane
<1> QED BY <1>1, ResumingIsHome DEF Resume

\* An abort drops the successor.
LEMMA AbortIsHome ==
    ASSUME NEW l, HomeLane(l)
    PROVE  HomeReply(Abort(l))
BY DEF HomeReply, HomeLane, Abort, Reply

\* A revision is no recovery, approved at once or later.
LEMMA ReviseIsHome ==
    ASSUME NEW l, HomeLane(l), NEW plan, NEW within, NEW t
    PROVE  HomeReply(Revise(l, plan, within, t))
<1> DEFINE drafted == Draft(l, plan)
<1>1. HomeLane(drafted) /\ HomeSuccessor(drafted.successor) BY DraftIsHome
<1>2. HomeReply(Reply(drafted, "none")) BY <1>1, ReplyIsHome
<1>3. HomeReply(AdmitSuccessor(drafted, Bind(l.approval, plan), "withinEnvelope"))
  BY <1>1, AdmitSuccessorIsHome DEF Recoveries
<1> QED BY <1>2, <1>3 DEF Revise

\* An answer keeps the successor.
LEMMA AnswerIsHome ==
    ASSUME NEW l, HomeLane(l)
    PROVE  HomeReply(Answer(l))
BY DEF HomeReply, HomeLane, Answer, Reply

\* An expiry recovers by a way home.
LEMMA OnClockIsHome ==
    ASSUME NEW l, HomeLane(l), NEW home, home.kind = "home", NEW t
    PROVE  HomeReply(OnClock(l, home, t))
<1> DEFINE late == [l EXCEPT !.expired = TRUE]
<1>1. HomeLane(late) BY DEF HomeLane
<1>2. HomeReply(Reply(l, "none")) BY ReplyIsHome
<1>3. HomeReply(AdmitSuccessor(Draft(late, home), Bind(l.approval, home), "expiryRecovery"))
  <2>1. /\ HomeLane(Draft(late, home)) /\ HomeSuccessor(Draft(late, home).successor)
        /\ Draft(late, home).successor.plan = home
    BY <1>1, DraftIsHome
  <2> QED BY <2>1, AdmitSuccessorIsHome
<1>4. HomeReply(Reply([WithHold(late, "approvalExpired") EXCEPT !.state = "holdRequested"], "hold"))
  BY DEF HomeReply, HomeLane, WithHold, Reply
<1>5. HomeReply(Reply(WithHold(late, "approvalExpired"), "none"))
  BY DEF HomeReply, HomeLane, WithHold, Reply
<1> QED BY <1>2, <1>3, <1>4, <1>5 DEF OnClock

\* A loss of control recovers by a way home.
LEMMA RecoveryIsHome ==
    ASSUME NEW l, HomeLane(l), NEW home, home.kind = "home"
    PROVE  HomeReply(RecoverFromLostControl(l, home))
<1> DEFINE drafted == Draft(l, home)
           admitted == Admitted(drafted, Bind(l.approval, home), "controlLossRecovery")
<1>1. HomeLane(drafted) /\ HomeSuccessor(drafted.successor) /\ drafted.successor.plan = home
  BY DraftIsHome
<1>2. HomeLane(admitted) /\ HomeSuccessor(admitted.successor) BY <1>1, AdmittedIsHome
<1> QED BY <1>2, SwitchIsHome DEF RecoverFromLostControl

\* The end of the taker's lease starts a way home or nothing.
LEMMA OnExecutionIsHome ==
    ASSUME NEW l, HomeLane(l), NEW execution, NEW home, home.kind = "home", NEW t
    PROVE  HomeReply(OnExecution(l, execution, home, t))
<1> DEFINE told == [l EXCEPT !.execution = execution]
<1>1. HomeLane(told) BY DEF HomeLane
<1>2. HomeReply(Reply(told, "none")) BY <1>1, ReplyIsHome
<1>3. HomeReply(RecoverFromLostControl(told, home)) BY <1>1, RecoveryIsHome
<1> QED BY <1>2, <1>3 DEF OnExecution

\* Progress brings a checkpoint, an end, or a recovery; only that needs a way home.
LEMMA OnProgressIsHome ==
    ASSUME NEW l, HomeLane(l), NEW progress, NEW home, NEW t,
           home.kind = "home" \/ progress.execution # "freed"
    PROVE  HomeReply(OnProgress(l, progress, home, t))
<1> DEFINE folded == Fold(l, progress)
           checked == IF IsFlying(l) THEN AtCheckpoint(folded, progress.complete, t)
                                     ELSE Reply(folded, "none")
<1>1. HomeLane(folded) /\ folded.execution = progress.execution BY DEF HomeLane, Fold
<1>2. HomeReply(checked) BY <1>1, CheckpointIsHome, ReplyIsHome
<1>3. HomeReply(Reply([l EXCEPT !.execution = progress.execution], "none"))
  BY DEF HomeReply, HomeLane, Reply
<1>4. ASSUME RecoversFromLostControl(folded, t)
      PROVE  HomeReply(RecoverFromLostControl(folded, home))
  <2>1. home.kind = "home" BY <1>1, <1>4 DEF RecoversFromLostControl
  <2> QED BY <1>1, <2>1, RecoveryIsHome
<1>5. HomeLane(checked.lane) BY <1>2 DEF HomeReply
<1>6. ASSUME NEW outcome, NEW state
      PROVE  HomeReply(Reply(Close(checked.lane, outcome, state), "none"))
  BY <1>5 DEF HomeReply, HomeLane, Close, Reply
<1>7. HomeReply(Reply(checked.lane, "none")) BY <1>5, ReplyIsHome
<1> DEFINE closed(outcome, state) == Reply(Close(checked.lane, outcome, state), "none")
           recovers == /\ l.tasks # <<>> /\ l.execution # "freed"
                       /\ RecoversFromLostControl(folded, t)
<1>8. CASE l.tasks = <<>> BY <1>3, <1>8 DEF OnProgress
<1>9. CASE recovers
  <2>1. OnProgress(l, progress, home, t) = RecoverFromLostControl(folded, home)
    BY <1>9 DEF OnProgress
  <2> QED BY <1>4, <1>9, <2>1
<1>10. CASE l.tasks # <<>> /\ ~recovers
  <2>1. OnProgress(l, progress, home, t) \in
           {checked, closed("completed", "complete"), closed("failed", "failed"),
            Reply(checked.lane, "none")}
    BY <1>10 DEF OnProgress
  <2> HIDE DEF checked, closed
  <2>2. HomeReply(closed("completed", "complete")) /\ HomeReply(closed("failed", "failed"))
    BY <1>6 DEF closed
  <2> QED BY <1>2, <1>7, <2>1, <2>2
<1> QED BY <1>8, <1>9, <1>10

\* A restarted lane has no successor.
LEMMA RestoredIsHome ==
    ASSUME NEW record, NEW happened, NEW didNot
    PROVE  HomeLane(Reconcile(Restore(record), happened, didNot))
<1>1. ASSUME NEW l, HomeLane(l)
      PROVE  HomeLane(SettleOperations(l)) /\ HomeLane(SettleRestart(l))
  BY <1>1 DEF HomeLane, SettleOperations, SettleRestart, WithHold
<1>2. HomeLane(NewLane) BY DEF HomeLane, NewLane
<1> DEFINE recorded == [NewLane EXCEPT !.state = record.state, !.proposal = record.proposal,
                                       !.approval = record.approval, !.tasks = record.tasks]
           left == SettleOperations(recorded)
<1>3. HomeLane(recorded) BY <1>2 DEF HomeLane
<1>4. HomeLane(left) BY <1>1, <1>3
<1>5. HomeLane(Restore(record))
  <2> DEFINE queried == {i \in DOMAIN left.tasks :
                           /\ left.tasks[i] = "uncertain"
                           /\ TasksOf(left.proposal)[i] \in StatusQuery}
             restored == [left EXCEPT !.restarted = IsFlying(left) \/ queried # {},
                                      !.queried = queried,
                                      !.state = IF IsFlying(left) THEN "uncertain" ELSE @]
  <2>1. Restore(record) = SettleRestart(restored) BY DEF Restore
  <2> HIDE DEF left, queried
  <2>2. HomeLane(restored) BY <1>4 DEF HomeLane
  <2> QED BY <1>1, <2>1, <2>2
<1> DEFINE found == [Restore(record) EXCEPT
            !.queried = @ \ (happened \cup didNot),
            !.tasks = [i \in DOMAIN @ |-> CASE i \in happened -> "completed"
                                            [] i \in didNot -> "pending"
                                            [] OTHER -> @[i]]]
<1>6. HomeLane(found) BY <1>5 DEF HomeLane
<1>7. HomeLane(SettleRestart(found)) BY <1>1, <1>6
<1> QED BY <1>5, <1>7 DEF Reconcile

-----------------------------------------------------------------------------
(* The host.                                                               *)

HandBackStep ==
    /\ starting' \notin {NoOrder, starting} /\ AwaitsHandBack(run) =>
          starting'.recovery /\ run.lease = "freed"
    /\ RunBegins /\ run # NoRun /\ AwaitsHandBack(run) =>
          starting # NoOrder \/ run'.plan.kind = "home"
Keeps == HomeOrders' /\ HandBackStep

\* An order is kept, waits for a hand-back, replaces a run that has control,
\* or starts.
LEMMA StartRunKeeps ==
    ASSUME HomeInv, NEW order, order = NoOrder \/ HomeOrder(order), NEW l,
           NEW left, left = NoOrder \/ HomeOrder(left),
           NEW waiting, waiting = NoOrder \/ HomeOrder(waiting),
           StartRun(order, l, left, waiting)
    PROVE  Keeps
<1>1. CASE /\ unrecorded' = order /\ afterHandBack' = waiting
           /\ UNCHANGED <<run, controls, starting>>
  BY <1>1 DEF HomeInv, Keeps, HomeOrders, HandBackStep, RunBegins
<1>2. CASE /\ unrecorded' = left /\ afterHandBack' = order
           /\ UNCHANGED <<run, starting>>
  BY <1>2 DEF HomeInv, Keeps, HomeOrders, HandBackStep, RunBegins
<1>3. CASE /\ ~Waits(order) /\ run # NoRun
           /\ starting' = order
           /\ unrecorded' = left /\ afterHandBack' = waiting
           /\ UNCHANGED run
  BY <1>3 DEF HomeInv, Keeps, HomeOrders, HandBackStep, RunBegins, Waits
<1>4. CASE /\ run = NoRun /\ Spawn(order, l)
           /\ unrecorded' = left /\ afterHandBack' = waiting
           /\ UNCHANGED starting
  BY <1>4 DEF HomeInv, Keeps, HomeOrders, HandBackStep
<1> QED BY <1>1, <1>2, <1>3, <1>4 DEF StartRun

\* Every other effect leaves the run and its orders, or drops them.
LEMMA PerformKeeps ==
    ASSUME HomeInv, NEW r, HomeReply(r), Perform(r.effect, r.lane)
    PROVE  Keeps
<1>1. CASE r.effect.do = "start"
  <2>1. StartRun(r.effect.order, r.lane, unrecorded, afterHandBack) BY <1>1 DEF Perform
  <2>2. HomeOrder(r.effect.order) BY <1>1 DEF HomeReply
  <2>3. /\ unrecorded = NoOrder \/ HomeOrder(unrecorded)
        /\ afterHandBack = NoOrder \/ HomeOrder(afterHandBack)
    BY DEF HomeInv, HomeOrders
  <2> QED BY <2>1, <2>2, <2>3, StartRunKeeps
<1>2. CASE r.effect.do # "start"
  <2>1. /\ UNCHANGED <<run, starting>>
        /\ unrecorded' \in {unrecorded, NoOrder} /\ afterHandBack' \in {afterHandBack, NoOrder}
    BY <1>2 DEF HomeReply, Perform, orders
  <2> QED BY <2>1 DEF HomeInv, Keeps, HomeOrders, HandBackStep, RunBegins
<1> QED BY <1>1, <1>2

\* So does an intent that is taken.
LEMMA TakeKeeps ==
    ASSUME HomeInv, NEW r, HomeReply(r), Take(r)
    PROVE  HomeInv' /\ HandBackStep
<1>1. Perform(r.effect, r.lane) /\ lane' = r.lane BY DEF Take
<1>2. Keeps BY <1>1, PerformKeeps
<1>3. HomeLane(lane)' BY <1>1 DEF HomeReply, HomeLane
<1> QED BY <1>2, <1>3 DEF HomeInv, Keeps

\* Intents.
LEMMA IntentKeeps ==
    ASSUME HomeInv, Intent
    PROVE  HomeInv' /\ HandBackStep
<1> HomeLane(lane) BY DEF HomeInv
<1>1. ASSUME NEW kind \in Kinds, Take(Propose(lane, Plan(kind)))
      PROVE  HomeInv' /\ HandBackStep
  BY <1>1, ProposeIsHome, TakeKeeps
<1>2. ASSUME NEW p \in Approvable(lane), NEW approval \in Approvals(p),
             Take(Approve(lane, approval))
      PROVE  HomeInv' /\ HandBackStep
  <2>1. approval.digest = p.digest BY DEF Approvals
  <2>2. HomeReply(Approve(lane, approval)) BY <2>1, ApproveIsHome
  <2> QED BY <1>2, <2>2, TakeKeeps
<1>3. ASSUME Take(Start(lane))
      PROVE  HomeInv' /\ HandBackStep
  BY <1>3, StartIsHome, TakeKeeps
<1>4. ASSUME Take(Hold(lane))
      PROVE  HomeInv' /\ HandBackStep
  BY <1>4, HoldIsHome, TakeKeeps
<1>5. ASSUME Take(Resume(lane))
      PROVE  HomeInv' /\ HandBackStep
  BY <1>5, ResumeIsHome, TakeKeeps
<1>6. ASSUME Take(Abort(lane))
      PROVE  HomeInv' /\ HandBackStep
  BY <1>6, AbortIsHome, TakeKeeps
<1>7. ASSUME NEW within \in BOOLEAN, Take(Revise(lane, Plan("survey"), within, now))
      PROVE  HomeInv' /\ HandBackStep
  BY <1>7, ReviseIsHome, TakeKeeps
<1>8. ASSUME Take(Answer(lane))
      PROVE  HomeInv' /\ HandBackStep
  BY <1>8, AnswerIsHome, TakeKeeps
<1> QED
  BY <1>1, <1>2, <1>3, <1>4, <1>5, <1>6, <1>7, <1>8
     DEF Intent, ProposeIntent, ApproveIntent, StartIntent, HoldIntent, ResumeIntent,
         AbortIntent, ReviseIntent, AnswerIntent

\* The clock.
LEMMA ClockKeeps ==
    ASSUME HomeInv, Clock
    PROVE  HomeInv' /\ HandBackStep
<1> DEFINE reply == OnClock(lane, Plan("home"), now)
<1>1. HomeReply(reply) BY OnClockIsHome DEF HomeInv, Plan
<1>2. lane' = reply.lane /\ Perform(reply.effect, reply.lane) BY DEF Clock
<1> HIDE DEF reply
<1>3. Keeps BY <1>1, <1>2, PerformKeeps
<1> QED BY <1>1, <1>2, <1>3 DEF HomeInv, Keeps, HomeReply, HomeLane

\* Of a run that ended while control was away, only a recovery takes the
\* place.
LEMMA ReplacedRunEndedKeeps ==
    ASSUME HomeInv, afterHandBack # NoOrder, ReplacedRunEnded
    PROVE  HomeInv' /\ HandBackStep
<1>1. HomeOrder(afterHandBack) BY DEF HomeInv, HomeOrders
<1>2. CASE afterHandBack.recovery
  <2>1. UNCHANGED <<lane, starting>> /\ afterHandBack' = NoOrder BY <1>2 DEF ReplacedRunEnded
  <2>2. HomeLane(lane)' BY <2>1 DEF HomeInv, HomeLane
  <2>3. CASE Spawn(afterHandBack, lane) /\ UNCHANGED unrecorded
    <3>1. run'.plan.kind = "home" BY <1>1, <1>2, <2>3 DEF HomeOrder, Spawn, NewRunOf
    <3> QED BY <2>1, <2>2, <2>3, <3>1 DEF HomeInv, HomeOrders, HandBackStep
  <2>4. CASE run' = NoRun /\ unrecorded' = afterHandBack
    BY <1>1, <2>1, <2>2, <2>4 DEF HomeInv, HomeOrders, HandBackStep, RunBegins
  <2> QED BY <1>2, <2>3, <2>4 DEF ReplacedRunEnded
<1>3. CASE ~afterHandBack.recovery
  <2> DEFINE progress == [Progress(seen, TRUE, FALSE) EXCEPT
                            !.plan = NoPlan, !.complete = FALSE, !.execution = "other"]
  <2>1. lane' = OnProgress(lane, progress, NoPlan, now).lane BY <1>3 DEF ReplacedRunEnded
  <2>2. progress.execution = "other" BY DEF Progress
  <2> HIDE DEF progress
  <2>3. HomeReply(OnProgress(lane, progress, NoPlan, now))
    BY <2>2, OnProgressIsHome DEF HomeInv
  <2>4. HomeLane(lane)' BY <2>1, <2>3 DEF HomeReply, HomeLane
  <2>5. run' = NoRun /\ afterHandBack' = NoOrder /\ UNCHANGED <<unrecorded, starting>>
    BY <1>3 DEF ReplacedRunEnded
  <2> QED BY <2>4, <2>5 DEF HomeInv, HomeOrders, HandBackStep, RunBegins
<1> QED BY <1>2, <1>3

\* A replaced run waits, recovers, or was handed its control back.
LEMMA ReplacedRunWaitsKeeps ==
    ASSUME HomeInv, afterHandBack # NoOrder, ReplacedRunWaits
    PROVE  HomeInv' /\ HandBackStep
<1> DEFINE reply == OnExecution(lane, seen.execution, Plan("home"), now)
           order == IF reply.effect.do = "start" THEN reply.effect.order ELSE afterHandBack
<1>1. HomeReply(reply) BY OnExecutionIsHome DEF HomeInv, Plan
<1>2. HomeOrder(order) BY <1>1 DEF HomeInv, HomeOrders, HomeReply
<1>3. unrecorded = NoOrder \/ HomeOrder(unrecorded) BY DEF HomeInv, HomeOrders
<1>4. /\ lane' = reply.lane
      /\ \/ StartRun(order, reply.lane, unrecorded, NoOrder)
         \/ UNCHANGED <<run, controls, orders, journal, troubles>>
  BY DEF ReplacedRunWaits
<1> HIDE DEF reply, order
<1>5. HomeLane(lane)' BY <1>1, <1>4 DEF HomeReply, HomeLane
<1>6. CASE StartRun(order, reply.lane, unrecorded, NoOrder)
  <2>1. Keeps BY <1>2, <1>3, <1>6, StartRunKeeps
  <2> QED BY <1>5, <2>1 DEF HomeInv, Keeps
<1>7. CASE UNCHANGED <<run, controls, orders, journal, troubles>>
  BY <1>5, <1>7 DEF HomeInv, HomeOrders, HandBackStep, RunBegins, orders
<1> QED BY <1>4, <1>6, <1>7

\* The progress of the lane's own run.
LEMMA OwnRunProgressKeeps ==
    ASSUME HomeInv, run # NoRun, OwnRunProgress
    PROVE  HomeInv' /\ HandBackStep
<1>1. PICK still \in {FALSE} \cup (IF lane.state = "holdRequested" THEN {seen.hold} ELSE {}) :
        LET reply == OnProgress(lane, Progress(seen, run.gone, still), Plan("home"), now)
        IN  /\ lane' = reply.lane
            /\ IF reply.effect.do # "none" THEN Perform(reply.effect, reply.lane)
                                           ELSE Watched(reply.lane)
  BY DEF OwnRunProgress
<1> DEFINE reply == OnProgress(lane, Progress(seen, run.gone, still), Plan("home"), now)
<1>2. HomeReply(reply) BY OnProgressIsHome DEF HomeInv, Plan
<1>3. /\ lane' = reply.lane
      /\ Perform(reply.effect, reply.lane) \/ Watched(reply.lane)
  BY <1>1
<1> HIDE DEF reply
<1>4. HomeLane(lane)' BY <1>2, <1>3 DEF HomeReply, HomeLane
<1>5. CASE Perform(reply.effect, reply.lane)
  BY <1>2, <1>4, <1>5, PerformKeeps DEF HomeInv, Keeps
<1>6. CASE Watched(reply.lane)
  <2>1. UNCHANGED orders /\ (run' = NoRun \/ run' = run \/ ~run.gone) BY <1>6 DEF Watched
  <2> QED BY <1>4, <2>1 DEF HomeInv, HomeOrders, HandBackStep, RunBegins, orders
<1> QED BY <1>3, <1>5, <1>6

\* The lane's task.
LEMMA HostKeeps ==
    ASSUME HomeInv, HostStep
    PROVE  HomeInv' /\ HandBackStep
<1>1. ASSUME ReadStatus
      PROVE  HomeInv' /\ HandBackStep
  BY <1>1 DEF ReadStatus, HomeInv, HomeLane, HomeOrders, HandBackStep, RunBegins, orders
<1>2. ASSUME ProgressTick
      PROVE  HomeInv' /\ HandBackStep
  <2>1. CASE run = NoRun
    <3>1. UNCHANGED <<lane, plans, run, controls, orders, journal, troubles>>
      BY <1>2, <2>1 DEF ProgressTick
    <3> QED BY <3>1 DEF HomeInv, HomeLane, HomeOrders, HandBackStep, RunBegins, orders
  <2>2. CASE run # NoRun /\ afterHandBack # NoOrder
    <3>1. ReplacedRunEnded \/ ReplacedRunWaits BY <1>2, <2>2 DEF ProgressTick
    <3> QED BY <2>2, <3>1, ReplacedRunEndedKeeps, ReplacedRunWaitsKeeps
  <2>3. CASE run # NoRun /\ afterHandBack = NoOrder
    <3>1. OwnRunProgress BY <1>2, <2>3 DEF ProgressTick
    <3> QED BY <2>3, <3>1, OwnRunProgressKeeps
  <2> QED BY <2>1, <2>2, <2>3
<1>3. ASSUME RecordTurn
      PROVE  HomeInv' /\ HandBackStep
  <2>1. HomeLane(lane)' BY <1>3 DEF RecordTurn, HomeInv, HomeLane
  <2>2. CASE StartRun(unrecorded, lane, NoOrder, afterHandBack)
    <3>1. /\ unrecorded = NoOrder \/ HomeOrder(unrecorded)
          /\ afterHandBack = NoOrder \/ HomeOrder(afterHandBack)
      BY DEF HomeInv, HomeOrders
    <3>2. Keeps BY <2>2, <3>1, StartRunKeeps
    <3> QED BY <2>1, <3>2 DEF HomeInv, Keeps
  <2>3. CASE UNCHANGED <<run, controls, orders>>
    BY <2>1, <2>3 DEF HomeInv, HomeOrders, HandBackStep, RunBegins, orders
  <2> QED BY <1>3, <2>2, <2>3 DEF RecordTurn
<1>4. ASSUME Replaced
      PROVE  HomeInv' /\ HandBackStep
  BY <1>4 DEF Replaced, HomeInv, HomeLane, HomeOrders, HandBackStep
<1> QED BY <1>1, <1>2, <1>3, <1>4, ClockKeeps DEF HostStep

\* A run that moves leaves the lane and its orders.
LEMMA RunsMove ==
    ASSUME FlightStep \/ People \/ OperationStep
    PROVE  Hears /\ UNCHANGED <<lane, orders, journal>>
<1>1. CASE FlightStep \/ People
  BY <1>1 DEF FlightStep, People, FlightControl, LeaseAnswered, TaskStarted, TaskFinished, Released,
              LeaseHandedOver, ControlIsLost, ControlIsFreed, LeftFlight, Fence, FlightExits,
              Ticks, Flight, RunOnly, Goes, Suffers
<1>2. CASE OperationStep
  BY <1>2 DEF OperationStep, OperationControl, OperationBegins, ReadEnds, ReportStands, WriteEnds,
              OperationsEnd, At, Between, Operating, RunOnly, Goes
<1> QED BY <1>1, <1>2

\* Such a step keeps the orders.
LEMMA MovesKeep ==
    ASSUME HomeInv, FlightStep \/ People \/ OperationStep
    PROVE  HomeInv' /\ HandBackStep
BY RunsMove DEF Hears, HomeInv, HomeLane, HomeOrders, HandBackStep, RunBegins, orders

\* A restart starts without a run and without orders.
LEMMA CrashKeeps ==
    ASSUME HomeInv, Crash
    PROVE  HomeInv' /\ HandBackStep
<1>1. run' = NoRun /\ unrecorded' = NoOrder /\ afterHandBack' = NoOrder /\ starting' = NoOrder
  BY DEF Crash
<1>2. HomeLane(lane)'
  <2> DEFINE restored == IF journal = NoRecord THEN NewLane ELSE Restore(journal)
  <2>1. \E a, b : lane' = Reconcile(restored, a, b) BY DEF Crash
  <2>2. CASE journal = NoRecord
    <3>1. ASSUME NEW a, NEW b PROVE HomeLane(Reconcile(NewLane, a, b))
      BY DEF HomeLane, NewLane, Reconcile, SettleRestart, WithHold
    <3> QED BY <2>1, <2>2, <3>1 DEF HomeLane
  <2>3. CASE journal # NoRecord BY <2>1, <2>3, RestoredIsHome DEF HomeLane
  <2> QED BY <2>2, <2>3
<1> QED BY <1>1, <1>2 DEF HomeInv, HomeOrders, HandBackStep, RunBegins

\* The parts of HandBackComesFirst but the last.
LEMMA HandBackNext == HomeInv /\ [Next]_vars => HomeInv' /\ [HandBackStep]_vars
<1> SUFFICES ASSUME HomeInv, [Next]_vars PROVE HomeInv' /\ HandBackStep
  OBVIOUS
<1>1. CASE TimePasses \/ UNCHANGED vars
  BY <1>1 DEF TimePasses, vars, HomeInv, HomeLane, HomeOrders, HandBackStep, RunBegins, orders
<1> QED BY <1>1, IntentKeeps, HostKeeps, MovesKeep, CrashKeeps DEF Next

-----------------------------------------------------------------------------
(* The approvals a lane works under.                                       *)

-----------------------------------------------------------------------------
(* The lane.                                                               *)

\* An approval that is bound to a plan is an approval of it.
LEMMA BindBinds ==
    ASSUME NEW approval \in Approval, NEW plan, plan.digest \in Nat
    PROVE  Binds(Bind(approval, plan), plan) /\ Bind(approval, plan).onExpiry = approval.onExpiry
BY DEF Approval, Binds, Bind

\* What a lane may do that flies is approved.
LEMMA FlyingIsApproved ==
    ASSUME NEW l, ApprovedLane(l), IsFlying(l)
    PROVE  l.approval \in Approval /\ Binds(l.approval, l.proposal)
BY DEF ApprovedLane, Backed, Binds, IsFlying, Live, Flyable

\* A draft has no approval.
LEMMA DraftIsApproved ==
    ASSUME NEW l, ApprovedLane(l), NEW plan, plan.digest \in Nat
    PROVE  /\ ApprovedLane(Draft(l, plan))
           /\ AdmittedByOwn(Draft(l, plan).successor)
           /\ Draft(l, plan).successor.plan = plan
BY DEF ApprovedLane, Backed, AdmittedByOwn, Draft, IsFlying, Live

\* An approval of the successor admits it, and changes nothing else.
LEMMA AdmittedIsApproved ==
    ASSUME NEW l, ApprovedLane(l), AdmittedByOwn(l.successor),
           NEW approval, Binds(approval, l.successor.plan),
           NEW basis, basis = "expiryRecovery" => approval.onExpiry = "home"
    PROVE  /\ ApprovedLane(Admitted(l, approval, basis))
           /\ AdmittedByOwn(Admitted(l, approval, basis).successor)
           /\ Admitted(l, approval, basis).successor.admitted
<1> DEFINE admitted == Admitted(l, approval, basis)
<1>1. /\ AdmittedByOwn(admitted.successor) /\ admitted.successor.admitted
  BY DEF ApprovedLane, AdmittedByOwn, Admitted
<1>2. /\ admitted.state = l.state /\ admitted.holds = l.holds /\ admitted.expired = l.expired
      /\ admitted.approval = l.approval /\ admitted.proposal = l.proposal
      /\ DOMAIN admitted = DOMAIN l
  BY DEF ApprovedLane, Backed, Admitted
<1> HIDE DEF admitted
<1>3. ApprovedLane(admitted) BY <1>1, <1>2 DEF ApprovedLane, Backed, IsFlying, Live
<1> QED BY <1>1, <1>3 DEF admitted

\* The successor takes over with its approval.  Its hold on expiry is no
\* longer due, unless it is what the expiry asked for.
LEMMA SwitchIsApproved ==
    ASSUME NEW l, ApprovedLane(l), AdmittedByOwn(l.successor), l.successor.admitted
    PROVE  ApprovedLane(Switch(l).lane)
<1> DEFINE next == l.successor
           holds == IF next.basis = "expiryRecovery" THEN l.holds
                                                     ELSE l.holds \ {"approvalExpired"}
           switched == Switch(l).lane
<1>1. Binds(next.approval, next.plan) /\ next.plan.digest \in Nat BY DEF AdmittedByOwn
<1>2. /\ switched.proposal = next.plan /\ switched.approval = next.approval
      /\ switched.successor = NoSuccessor /\ switched.holds = holds
      /\ switched.expired = (next.basis = "expiryRecovery")
      /\ switched.state = IF holds = {} THEN "running" ELSE l.state
      /\ {"state", "proposal", "approval", "tasks"} \subseteq DOMAIN switched
      /\ {"holds", "successor", "expired", "execution"} \subseteq DOMAIN switched
  BY DEF ApprovedLane, Backed, Switch, StartReply
<1>3. next.basis = "expiryRecovery" => next.approval.onExpiry = "home" BY DEF AdmittedByOwn
<1>4. l.state \in {"proposed", "admitted", "running"} => holds = {} BY DEF ApprovedLane
<1> HIDE DEF switched, next, holds
<1> QED BY <1>1, <1>2, <1>3, <1>4 DEF ApprovedLane, Backed, switched

\* A successor that is admitted waits, or takes over.
LEMMA AdmitSuccessorIsApproved ==
    ASSUME NEW l, ApprovedLane(l), AdmittedByOwn(l.successor),
           NEW approval, Binds(approval, l.successor.plan),
           NEW basis, basis = "expiryRecovery" => approval.onExpiry = "home"
    PROVE  ApprovedLane(AdmitSuccessor(l, approval, basis).lane)
<1> DEFINE admitted == Admitted(l, approval, basis)
<1>1. /\ ApprovedLane(admitted) /\ AdmittedByOwn(admitted.successor)
      /\ admitted.successor.admitted
  BY AdmittedIsApproved
<1>2. ApprovedLane(Switch(admitted).lane) BY <1>1, SwitchIsApproved
<1>3. Reply(admitted, "none").lane = admitted BY DEF Reply
<1> HIDE DEF admitted
<1> QED BY <1>1, <1>2, <1>3 DEF AdmitSuccessor, admitted

\* A successor whose admission lapsed has no approval any more.
LEMMA CheckpointIsApproved ==
    ASSUME NEW l, ApprovedLane(l), NEW complete, NEW t
    PROVE  ApprovedLane(AtCheckpoint(l, complete, t).lane)
<1>1. Reply(l, "none").lane = l BY DEF Reply
<1>2. CASE l.successor = NoSuccessor \/ ~l.successor.admitted
  <2>1. AtCheckpoint(l, complete, t) = Reply(l, "none") BY <1>2 DEF AtCheckpoint
  <2> QED BY <1>1, <2>1
<1>3. CASE l.successor # NoSuccessor /\ l.successor.admitted
  <2> DEFINE lapsed == [l EXCEPT !.successor.admitted = FALSE, !.successor.basis = "drafted",
                                 !.successor.approval = NoApproval]
  <2>1. AdmittedByOwn(l.successor) BY <1>3 DEF ApprovedLane
  <2>2. ApprovedLane(Switch(l).lane) BY <1>3, <2>1, SwitchIsApproved
  <2>3. /\ AdmittedByOwn(lapsed.successor)
        /\ lapsed.state = l.state /\ lapsed.holds = l.holds /\ lapsed.expired = l.expired
        /\ lapsed.approval = l.approval /\ lapsed.proposal = l.proposal
        /\ DOMAIN lapsed = DOMAIN l
    BY <2>1 DEF ApprovedLane, Backed, AdmittedByOwn
  <2>4. Reply(lapsed, "none").lane = lapsed BY DEF Reply
  <2>5. AtCheckpoint(l, complete, t) =
           IF ~StillAdmitted(l, t) THEN Reply(lapsed, "none")
           ELSE IF complete \/ ~IsTask(l, "line") \/ FlownLines(l) > l.successor.flown
                THEN Switch(l) ELSE Reply(l, "none")
    BY <1>3, Zenon DEF AtCheckpoint
  <2>6. AtCheckpoint(l, complete, t) \in {Reply(lapsed, "none"), Switch(l), Reply(l, "none")}
    BY <2>5, Zenon
  <2> HIDE DEF lapsed
  <2>7. ApprovedLane(lapsed) BY <2>3 DEF ApprovedLane, Backed, IsFlying, Live
  <2> QED BY <1>1, <2>2, <2>4, <2>6, <2>7
<1> QED BY <1>2, <1>3

\* A lane that nothing holds any more runs.
LEMMA ResumingIsApproved ==
    ASSUME NEW l, ApprovedLane(l)
    PROVE  ApprovedLane(ResumeWhenFree(l).lane)
<1> DEFINE freed == [l EXCEPT !.state = "running", !.restarted = FALSE]
<1>1. CASE l.holds # {} \/ ~Holding(l)
  <2>1. ResumeWhenFree(l).lane = l BY <1>1 DEF ResumeWhenFree, Reply
  <2> QED BY <2>1
<1>2. CASE l.holds = {} /\ Holding(l)
  <2>1. ResumeWhenFree(l).lane = freed BY <1>2 DEF ResumeWhenFree, Reply, StartReply
  <2>2. ApprovedLane(freed) BY <1>2 DEF ApprovedLane, Backed, Holding, IsFlying, Live, Flyable
  <2> QED BY <2>1, <2>2
<1> QED BY <1>1, <1>2

\* A new plan needs no approval before it starts.
LEMMA ProposeIsApproved ==
    ASSUME NEW l, ApprovedLane(l), NEW plan, plan.digest \in Nat
    PROVE  ApprovedLane(Propose(l, plan).lane)
BY DEF ApprovedLane, Backed, Propose, Reply, IsFlying, Live, Flyable

\* An approval of the plan, its renewal, or one of the successor.
LEMMA ApproveIsApproved ==
    ASSUME NEW l, ApprovedLane(l), NEW p \in Approvable(l), NEW approval \in Approvals(p)
    PROVE  ApprovedLane(Approve(l, approval).lane)
<1>1. p.digest \in Nat
  BY DEF ApprovedLane, Backed, AdmittedByOwn, Approvable, IsFlying, Live, Flyable
<1>2. Binds(approval, p) BY <1>1, LaneHostAssumption DEF Approvals, Binds, Approval
<1>3. CASE l.state = "proposed"
  <2> DEFINE approved == [l EXCEPT !.approval = approval, !.state = "admitted"]
  <2>1. Approve(l, approval) = Reply(approved, "none") BY <1>3 DEF Approve, IsFlying, Live
  <2>2. p = l.proposal BY <1>3 DEF Approvable, IsFlying, Live
  <2>3. ApprovedLane(approved) BY <1>2, <1>3, <2>2 DEF ApprovedLane, Backed, IsFlying, Live
  <2> QED BY <2>1, <2>3 DEF Reply
<1>4. CASE l.state # "proposed" /\ IsFlying(l) /\ approval.digest = l.proposal.digest
  <2> DEFINE renewed == [l EXCEPT !.approval = approval, !.expired = FALSE,
                                  !.holds = @ \ {"approvalExpired"}]
  <2>1. Approve(l, approval) = ResumeWhenFree(renewed) BY <1>4 DEF Approve, Renew
  <2>2. ApprovedLane(renewed) BY <1>2, <1>4 DEF ApprovedLane, Backed, Binds, IsFlying, Live
  <2> QED BY <2>1, <2>2, ResumingIsApproved
<1>5. CASE l.state # "proposed" /\ ~(IsFlying(l) /\ approval.digest = l.proposal.digest)
  <2>1. l.successor # NoSuccessor /\ p = l.successor.plan BY <1>2, <1>5 DEF Approvable, Binds
  <2>2. AdmittedByOwn(l.successor) BY <2>1 DEF ApprovedLane
  <2>3. Approve(l, approval) = AdmitSuccessor(l, approval, "approved") BY <1>5 DEF Approve
  <2> QED BY <1>2, <2>1, <2>2, <2>3, AdmitSuccessorIsApproved
<1> QED BY <1>3, <1>4, <1>5

\* A lane that starts has not expired.
LEMMA StartIsApproved ==
    ASSUME NEW l, ApprovedLane(l), l.state = "admitted"
    PROVE  ApprovedLane(Start(l).lane)
BY DEF ApprovedLane, Backed, Start, StartReply, IsFlying, Live, Flyable

\* A hold leaves the approval.
LEMMA HoldIsApproved ==
    ASSUME NEW l, ApprovedLane(l), Live(l)
    PROVE  ApprovedLane(Hold(l).lane)
BY DEF ApprovedLane, Backed, Hold, WithHold, Reply, IsFlying, Live, Flyable

\* A resume lifts no hold of an expired approval.
LEMMA ResumeIsApproved ==
    ASSUME NEW l, ApprovedLane(l)
    PROVE  ApprovedLane(Resume(l).lane)
<1> DEFINE lifted == [l EXCEPT !.holds = @ \ {"operator", "restarted"}]
<1>1. ApprovedLane(lifted) BY DEF ApprovedLane, Backed, IsFlying, Live
<1> QED BY <1>1, ResumingIsApproved DEF Resume

\* A lane that was aborted flies no more.
LEMMA AbortIsApproved ==
    ASSUME NEW l, ApprovedLane(l)
    PROVE  ApprovedLane(Abort(l).lane)
BY DEF ApprovedLane, Backed, Abort, Reply, IsFlying, Live, Flyable

\* A revision inside the envelope comes under the approval in force, bound to
\* it.
LEMMA ReviseIsApproved ==
    ASSUME NEW l, ApprovedLane(l), Live(l), NEW plan, plan.digest \in Nat, NEW within, NEW t
    PROVE  ApprovedLane(Revise(l, plan, within, t).lane)
<1> DEFINE drafted == Draft(l, plan)
           delegated == Bind(l.approval, plan)
<1>1. /\ ApprovedLane(drafted) /\ AdmittedByOwn(drafted.successor)
      /\ drafted.successor.plan = plan
  BY DraftIsApproved
<1>2. Binds(delegated, plan) BY FlyingIsApproved, BindBinds DEF IsFlying
<1>3. ApprovedLane(AdmitSuccessor(drafted, delegated, "withinEnvelope").lane)
  BY <1>1, <1>2, AdmitSuccessorIsApproved
<1>4. Reply(drafted, "none").lane = drafted BY DEF Reply
<1> HIDE DEF drafted, delegated
<1> QED BY <1>1, <1>3, <1>4 DEF Revise, drafted, delegated

\* An answer leaves the approval.
LEMMA AnswerIsApproved ==
    ASSUME NEW l, ApprovedLane(l)
    PROVE  ApprovedLane(Answer(l).lane)
BY DEF ApprovedLane, Backed, Answer, Reply, IsFlying, Live

\* An expiry is answered as the approval says: a way home, or a hold.
LEMMA OnClockIsApproved ==
    ASSUME NEW l, ApprovedLane(l), NEW home, home.digest \in Nat, NEW t, ExpiredNow(l, t)
    PROVE  ApprovedLane(OnClock(l, home, t).lane)
<1> DEFINE late == [l EXCEPT !.expired = TRUE]
           bound == Bind(l.approval, home)
<1>1. IsFlying(l) /\ l.approval \in Approval BY FlyingIsApproved DEF ExpiredNow, IsFlying
<1>2. CASE l.approval.onExpiry = "home" /\ Flies(l.proposal)
  <2>1. ApprovedLane(late) BY <1>2 DEF ApprovedLane, Backed, IsFlying, Live
  <2>2. Binds(bound, home) /\ bound.onExpiry = "home" BY <1>1, <1>2, BindBinds
  <2>3. /\ ApprovedLane(Draft(late, home)) /\ AdmittedByOwn(Draft(late, home).successor)
        /\ Draft(late, home).successor.plan = home
    BY <2>1, DraftIsApproved
  <2>4. OnClock(l, home, t) = AdmitSuccessor(Draft(late, home), bound, "expiryRecovery")
    BY <1>2 DEF OnClock
  <2> HIDE DEF late, bound
  <2> QED BY <2>2, <2>3, <2>4, AdmitSuccessorIsApproved
<1>3. CASE ~(l.approval.onExpiry = "home" /\ Flies(l.proposal))
  <2> DEFINE waiting == WithHold(late, "approvalExpired")
             stopping == [waiting EXCEPT !.state = "holdRequested"]
  <2>1. OnClock(l, home, t).lane = IF l.state = "running" THEN stopping ELSE waiting
    BY <1>3 DEF OnClock, Reply
  <2>2. /\ waiting.state = l.state /\ waiting.proposal = l.proposal
        /\ waiting.approval = l.approval /\ waiting.successor = l.successor
        /\ waiting.holds = l.holds \cup {"approvalExpired"}
        /\ DOMAIN waiting = DOMAIN l
    BY DEF ApprovedLane, Backed, WithHold
  <2>3. /\ stopping.state = "holdRequested" /\ stopping.proposal = l.proposal
        /\ stopping.approval = l.approval /\ stopping.successor = l.successor
        /\ stopping.holds = l.holds \cup {"approvalExpired"}
        /\ DOMAIN stopping = DOMAIN l
    BY <2>2 DEF ApprovedLane, Backed
  <2> HIDE DEF waiting, stopping
  <2>4. l.state # "running" => ApprovedLane(waiting)
    BY <1>1, <2>2 DEF ApprovedLane, Backed, IsFlying, Live
  <2>5. ApprovedLane(stopping) BY <1>1, <2>3 DEF ApprovedLane, Backed, IsFlying, Live, Flyable
  <2> QED BY <2>1, <2>4, <2>5
<1> QED BY <1>2, <1>3

\* A recovery comes under the approval in force, bound to it.
LEMMA RecoveryIsApproved ==
    ASSUME NEW l, ApprovedLane(l), Live(l), NEW home, home.digest \in Nat
    PROVE  ApprovedLane(RecoverFromLostControl(l, home).lane)
<1> DEFINE drafted == Draft(l, home)
           bound == Bind(l.approval, home)
<1>1. /\ ApprovedLane(drafted) /\ AdmittedByOwn(drafted.successor)
      /\ drafted.successor.plan = home
  BY DraftIsApproved
<1>2. Binds(bound, home) BY FlyingIsApproved, BindBinds DEF IsFlying
<1> HIDE DEF drafted, bound
<1> DEFINE admitted == Admitted(drafted, bound, "controlLossRecovery")
<1>3. ApprovedLane(admitted) /\ AdmittedByOwn(admitted.successor) /\ admitted.successor.admitted
  BY <1>1, <1>2, AdmittedIsApproved
<1> HIDE DEF admitted
<1>4. ApprovedLane(Switch(admitted).lane) BY <1>3, SwitchIsApproved
<1> QED BY <1>4 DEF RecoverFromLostControl, admitted, drafted, bound

\* The end of the taker's lease leaves the approval, or recovers.
LEMMA OnExecutionIsApproved ==
    ASSUME NEW l, ApprovedLane(l), NEW execution, NEW home, home.digest \in Nat, NEW t
    PROVE  ApprovedLane(OnExecution(l, execution, home, t).lane)
<1> DEFINE told == [l EXCEPT !.execution = execution]
<1>1. ApprovedLane(told) BY DEF ApprovedLane, Backed, IsFlying, Live
<1>2. Reply(told, "none").lane = told BY DEF Reply
<1>3. RecoversFromLostControl(told, t) => ApprovedLane(RecoverFromLostControl(told, home).lane)
  BY <1>1, RecoveryIsApproved DEF RecoversFromLostControl
<1> HIDE DEF told
<1> QED BY <1>1, <1>2, <1>3 DEF OnExecution, told

\* What the lane takes over of its run's status leaves its approval.
LEMMA FoldIsApproved ==
    ASSUME NEW l, ApprovedLane(l), NEW progress
    PROVE  LET m == Fold(l, progress)
           IN  /\ ApprovedLane(m)
               /\ m.proposal = l.proposal /\ m.approval = l.approval
               /\ m.holds = l.holds /\ m.expired = l.expired
               /\ m.successor = l.successor /\ m.execution = progress.execution
               /\ m.state = l.state \/ (l.state = "holdRequested" /\ m.state = "held")
               /\ DOMAIN m = DOMAIN l
<1> DEFINE m == Fold(l, progress)
<1>1. /\ m.proposal = l.proposal /\ m.approval = l.approval
      /\ m.holds = l.holds /\ m.expired = l.expired
      /\ m.successor = l.successor /\ m.execution = progress.execution
      /\ m.state = l.state \/ (l.state = "holdRequested" /\ m.state = "held")
      /\ DOMAIN m = DOMAIN l
  BY DEF ApprovedLane, Backed, Fold
<1> HIDE DEF m
<1>2. ApprovedLane(m) BY <1>1 DEF ApprovedLane, Backed, IsFlying, Live, Flyable
<1> QED BY <1>1, <1>2 DEF m

\* Progress brings a checkpoint, an end, or a recovery; only that needs a way home.
LEMMA OnProgressIsApproved ==
    ASSUME NEW l, ApprovedLane(l), NEW progress, NEW home, NEW t,
           home.digest \in Nat \/ progress.execution # "freed"
    PROVE  ApprovedLane(OnProgress(l, progress, home, t).lane)
<1> DEFINE folded == Fold(l, progress)
           checked == IF IsFlying(l) THEN AtCheckpoint(folded, progress.complete, t)
                                     ELSE Reply(folded, "none")
           told == [l EXCEPT !.execution = progress.execution]
<1>1. folded.execution = progress.execution BY FoldIsApproved
<1>2. ApprovedLane(folded) BY FoldIsApproved
<1>3. ApprovedLane(checked.lane)
  <2>1. Reply(folded, "none").lane = folded BY DEF Reply
  <2> HIDE DEF folded
  <2> QED BY <1>2, <2>1, CheckpointIsApproved
<1>4. ApprovedLane(told) BY DEF ApprovedLane, Backed, IsFlying, Live
<1>5. ASSUME NEW outcome, NEW state, state \in {"complete", "failed"}
      PROVE  ApprovedLane(Close(checked.lane, outcome, state))
  <2> DEFINE next == checked.lane
             closed == Close(next, outcome, state)
  <2> HIDE DEF checked
  <2>1. /\ closed.state = state /\ closed.successor = next.successor
        /\ DOMAIN closed = DOMAIN next
    BY <1>3 DEF ApprovedLane, Backed, Close
  <2> HIDE DEF closed
  <2>2. ApprovedLane(closed)
    BY <1>3, <2>1, <1>5 DEF ApprovedLane, Backed, IsFlying, Live, Flyable
  <2> QED BY <2>2 DEF closed
<1> DEFINE recovers == /\ l.tasks # <<>> /\ l.execution # "freed"
                       /\ RecoversFromLostControl(folded, t)
<1>6. CASE l.tasks = <<>> BY <1>4, <1>6 DEF OnProgress, Reply
<1>7. CASE recovers
  <2>1. OnProgress(l, progress, home, t) = RecoverFromLostControl(folded, home)
    BY <1>7 DEF OnProgress
  <2>2. home.digest \in Nat /\ Live(folded) BY <1>1, <1>7 DEF RecoversFromLostControl
  <2> QED BY <1>2, <2>1, <2>2, RecoveryIsApproved
<1>8. CASE l.tasks # <<>> /\ ~recovers
  <2> DEFINE closed(outcome, state) == Reply(Close(checked.lane, outcome, state), "none")
  <2>1. OnProgress(l, progress, home, t) \in
           {checked, closed("completed", "complete"), closed("failed", "failed"),
            Reply(checked.lane, "none")}
    BY <1>8 DEF OnProgress
  <2> HIDE DEF checked
  <2>2. /\ ApprovedLane(closed("completed", "complete").lane)
        /\ ApprovedLane(closed("failed", "failed").lane)
        /\ ApprovedLane(Reply(checked.lane, "none").lane)
    BY <1>3, <1>5 DEF Reply
  <2> HIDE DEF closed
  <2> QED BY <1>3, <2>1, <2>2
<1> QED BY <1>6, <1>7, <1>8

-----------------------------------------------------------------------------
(* Records and restarts.                                                   *)

\* A record has the approval of its lane.
LEMMA RecordIsBacked ==
    ASSUME NEW l, ApprovedLane(l)
    PROVE  Record(l) = NoRecord \/ Backed(Record(l))
BY DEF ApprovedLane, Backed, Record

\* Settling a restart leaves the approval.
LEMMA SettledIsApproved ==
    ASSUME NEW l, ApprovedLane(l), {"restarted", "queried"} \subseteq DOMAIN l
    PROVE  /\ ApprovedLane(SettleOperations(l)) /\ ApprovedLane(SettleRestart(l))
           /\ DOMAIN SettleOperations(l) = DOMAIN l /\ DOMAIN SettleRestart(l) = DOMAIN l
<1>1. /\ ApprovedLane(SettleOperations(l)) /\ DOMAIN SettleOperations(l) = DOMAIN l
      /\ SettleOperations(l).state = l.state
  BY DEF ApprovedLane, Backed, SettleOperations, IsFlying, Live
<1> DEFINE free == [l EXCEPT !.restarted = FALSE]
           over == [l EXCEPT !.restarted = FALSE, !.state = "complete"]
           held == [WithHold(l, "restarted") EXCEPT !.state = "held"]
<1>2. ApprovedLane(free) /\ DOMAIN free = DOMAIN l BY DEF ApprovedLane, Backed, IsFlying, Live
<1>3. ApprovedLane(over) /\ DOMAIN over = DOMAIN l
  BY DEF ApprovedLane, Backed, IsFlying, Live, Flyable
<1>4. l.state = "uncertain" => ApprovedLane(held) /\ DOMAIN held = DOMAIN l
  BY DEF ApprovedLane, Backed, WithHold, IsFlying, Live, Flyable
<1>5. \/ SettleRestart(l) \in {l, free, over}
      \/ l.state = "uncertain" /\ SettleRestart(l) = held
  BY DEF SettleRestart
<1> HIDE DEF free, over, held
<1> QED BY <1>1, <1>2, <1>3, <1>4, <1>5

\* A lane that is restored has the approval of its record.
LEMMA RestoredIsApproved ==
    ASSUME NEW record, Backed(record)
    PROVE  /\ ApprovedLane(Restore(record))
           /\ {"restarted", "queried"} \subseteq DOMAIN Restore(record)
<1> DEFINE recorded == [NewLane EXCEPT !.state = record.state, !.proposal = record.proposal,
                                       !.approval = record.approval, !.tasks = record.tasks]
           left == SettleOperations(recorded)
<1>1. /\ Backed(recorded) /\ recorded.holds = {} /\ ~recorded.expired
      /\ recorded.successor = NoSuccessor
      /\ {"holds", "successor", "expired", "execution", "restarted", "queried"} \subseteq DOMAIN recorded
  BY DEF Backed, NewLane
<1>2. ApprovedLane(recorded)
  <2> HIDE DEF recorded
  <2> QED BY <1>1 DEF ApprovedLane
<1>3. ApprovedLane(left) /\ {"restarted", "queried"} \subseteq DOMAIN left
  <2> HIDE DEF recorded
  <2> QED BY <1>1, <1>2, SettledIsApproved
<1> DEFINE queried == {i \in DOMAIN left.tasks :
                         /\ left.tasks[i] = "uncertain"
                         /\ TasksOf(left.proposal)[i] \in StatusQuery}
           restored == [left EXCEPT !.restarted = IsFlying(left) \/ queried # {},
                                    !.queried = queried,
                                    !.state = IF IsFlying(left) THEN "uncertain" ELSE @]
<1>4. Restore(record) = SettleRestart(restored) BY DEF Restore
<1> HIDE DEF left, queried
<1>5. /\ restored.proposal = left.proposal /\ restored.approval = left.approval
      /\ restored.holds = left.holds /\ restored.expired = left.expired
      /\ restored.successor = left.successor /\ DOMAIN restored = DOMAIN left
      /\ restored.state = IF IsFlying(left) THEN "uncertain" ELSE left.state
  BY <1>3 DEF ApprovedLane, Backed
<1> HIDE DEF restored
<1>6. ApprovedLane(restored) BY <1>3, <1>5 DEF ApprovedLane, Backed, IsFlying, Live, Flyable
<1> QED BY <1>3, <1>4, <1>5, <1>6, SettledIsApproved

\* What became of its operations changes no approval.
LEMMA ReconciledIsApproved ==
    ASSUME NEW l, ApprovedLane(l), {"restarted", "queried"} \subseteq DOMAIN l,
           NEW happened, NEW didNot
    PROVE  ApprovedLane(Reconcile(l, happened, didNot))
<1> DEFINE found == [l EXCEPT
            !.queried = @ \ (happened \cup didNot),
            !.tasks = [i \in DOMAIN @ |-> CASE i \in happened -> "completed"
                                            [] i \in didNot -> "pending"
                                            [] OTHER -> @[i]]]
<1>1. ApprovedLane(found) /\ DOMAIN found = DOMAIN l
  BY DEF ApprovedLane, Backed, IsFlying, Live
<1> HIDE DEF found
<1>2. ApprovedLane(SettleRestart(found)) BY <1>1, SettledIsApproved
<1> QED BY <1>2 DEF Reconcile, found

-----------------------------------------------------------------------------
(* The host.                                                               *)

\* What a step does to the journal, if it records l at all.
Records(l) == journal' \in {journal, Record(l)}

\* Every effect records the lane or leaves the journal.
LEMMA PerformRecords ==
    ASSUME NEW r, Perform(r.effect, r.lane)
    PROVE  Records(r.lane)
BY DEF Perform, StartRun, Write, Records

\* A step is fine if its lane is, and the journal records that lane or none.
LEMMA ApprovedStep ==
    ASSUME ApprovedInv, NEW l, ApprovedLane(l), lane' = l, Records(l), plans' \in Nat
    PROVE  ApprovedInv'
<1>1. (journal = NoRecord \/ Backed(journal))' BY RecordIsBacked DEF ApprovedInv, Records
<1> QED BY <1>1 DEF ApprovedInv

\* An intent that is taken.
LEMMA TakeApproved ==
    ASSUME ApprovedInv, NEW r, ApprovedLane(r.lane), Take(r), plans' \in Nat
    PROVE  ApprovedInv'
<1>1. Perform(r.effect, r.lane) /\ lane' = r.lane BY DEF Take
<1>2. Records(r.lane) BY <1>1, PerformRecords
<1> QED BY <1>1, <1>2, ApprovedStep

\* Intents.
LEMMA IntentApproved ==
    ASSUME ApprovedInv, Intent
    PROVE  ApprovedInv'
<1>1. ApprovedLane(lane) /\ plans \in Nat BY DEF ApprovedInv
<1>2. ASSUME NEW kind PROVE Plan(kind).digest \in Nat BY <1>1 DEF Plan
<1>3. plans' \in {plans, plans + 1}
  BY DEF Intent, ProposeIntent, ApproveIntent, StartIntent, HoldIntent, ResumeIntent,
         AbortIntent, ReviseIntent, AnswerIntent
<1>4. plans' \in Nat BY <1>1, <1>3
<1>5. CASE ProposeIntent
  BY <1>1, <1>2, <1>4, <1>5, ProposeIsApproved, TakeApproved DEF ProposeIntent
<1>6. CASE ApproveIntent BY <1>1, <1>4, <1>6, ApproveIsApproved, TakeApproved DEF ApproveIntent
<1>7. CASE StartIntent
  BY <1>1, <1>4, <1>7, StartIsApproved, TakeApproved DEF StartIntent, CanStart
<1>8. CASE HoldIntent BY <1>1, <1>4, <1>8, HoldIsApproved, TakeApproved DEF HoldIntent
<1>9. CASE ResumeIntent BY <1>1, <1>4, <1>9, ResumeIsApproved, TakeApproved DEF ResumeIntent
<1>10. CASE AbortIntent BY <1>1, <1>4, <1>10, AbortIsApproved, TakeApproved DEF AbortIntent
<1>11. CASE ReviseIntent
  BY <1>1, <1>2, <1>4, <1>11, ReviseIsApproved, TakeApproved DEF ReviseIntent, CanRevise
<1>12. CASE AnswerIntent BY <1>1, <1>4, <1>12, AnswerIsApproved, TakeApproved DEF AnswerIntent
<1> QED BY <1>5, <1>6, <1>7, <1>8, <1>9, <1>10, <1>11, <1>12 DEF Intent

\* The clock.
LEMMA ClockApproved ==
    ASSUME ApprovedInv, Clock
    PROVE  ApprovedInv'
<1> DEFINE reply == OnClock(lane, Plan("home"), now)
<1>1. ApprovedLane(reply.lane) BY OnClockIsApproved DEF ApprovedInv, Plan, Clock
<1>2. lane' = reply.lane /\ Perform(reply.effect, reply.lane) /\ plans' = Compiled(reply.lane)
  BY DEF Clock
<1> HIDE DEF reply
<1>3. Records(reply.lane) BY <1>2, PerformRecords
<1>4. plans' \in Nat BY <1>2 DEF Compiled, ApprovedInv
<1> QED BY <1>1, <1>2, <1>3, <1>4, ApprovedStep

\* The progress of a run.
LEMMA ProgressApproved ==
    ASSUME ApprovedInv, ProgressTick
    PROVE  ApprovedInv'
<1>1. ApprovedLane(lane) /\ plans \in Nat /\ Plan("home").digest \in Nat
  BY DEF ApprovedInv, Plan
<1>2. CASE ReplacedRunEnded
  <2>1. plans' = plans BY <1>2 DEF ReplacedRunEnded
  <2>2. CASE afterHandBack.recovery
    <3>1. lane' = lane /\ Records(lane) BY <1>2, <2>2 DEF ReplacedRunEnded, Write, Records
    <3> QED BY <1>1, <2>1, <3>1, ApprovedStep
  <2>3. CASE ~afterHandBack.recovery
    <3> DEFINE progress == [Progress(seen, TRUE, FALSE) EXCEPT
                              !.plan = NoPlan, !.complete = FALSE, !.execution = "other"]
    <3>1. lane' = OnProgress(lane, progress, NoPlan, now).lane /\ journal' = journal
      BY <1>2, <2>3 DEF ReplacedRunEnded
    <3>2. progress.execution = "other" BY DEF Progress
    <3> HIDE DEF progress
    <3>3. ApprovedLane(lane') BY <1>1, <3>1, <3>2, OnProgressIsApproved
    <3> QED BY <1>1, <2>1, <3>1, <3>3, ApprovedStep DEF Records
  <2> QED BY <2>2, <2>3
<1>3. CASE ReplacedRunWaits
  <2> DEFINE reply == OnExecution(lane, seen.execution, Plan("home"), now)
  <2>1. ApprovedLane(reply.lane) BY <1>1, OnExecutionIsApproved
  <2>2. lane' = reply.lane /\ plans' \in {plans, plans + 1} /\ Records(reply.lane)
    BY <1>3 DEF ReplacedRunWaits, StartRun, Write, Records
  <2> HIDE DEF reply
  <2>3. plans' \in Nat BY <1>1, <2>2
  <2> QED BY <2>1, <2>2, <2>3, ApprovedStep
<1>4. CASE OwnRunProgress
  <2>1. PICK still \in {FALSE} \cup (IF lane.state = "holdRequested" THEN {seen.hold} ELSE {}) :
          LET reply == OnProgress(lane, Progress(seen, run.gone, still), Plan("home"), now)
          IN  /\ lane' = reply.lane
              /\ plans' = IF lane.tasks = <<>> THEN plans ELSE Compiled(reply.lane)
              /\ IF reply.effect.do # "none" THEN Perform(reply.effect, reply.lane)
                                             ELSE Watched(reply.lane)
    BY <1>4 DEF OwnRunProgress
  <2> DEFINE reply == OnProgress(lane, Progress(seen, run.gone, still), Plan("home"), now)
  <2>2. ApprovedLane(reply.lane) BY <1>1, OnProgressIsApproved
  <2>3. /\ lane' = reply.lane /\ plans' \in {plans, Compiled(reply.lane)}
        /\ Perform(reply.effect, reply.lane) \/ Watched(reply.lane)
    BY <2>1
  <2> HIDE DEF reply
  <2>4. Records(reply.lane) BY <2>3, PerformRecords DEF Watched, Records
  <2>5. plans' \in Nat BY <1>1, <2>3 DEF Compiled
  <2> QED BY <2>2, <2>3, <2>4, <2>5, ApprovedStep
<1>5. CASE run = NoRun
  <2>1. UNCHANGED <<lane, plans, journal>> BY <1>5 DEF ProgressTick
  <2> QED BY <1>1, <2>1, ApprovedStep DEF Records
<1> QED BY <1>2, <1>3, <1>4, <1>5 DEF ProgressTick

\* A restart.
LEMMA CrashApproved ==
    ASSUME ApprovedInv, Crash
    PROVE  ApprovedInv'
<1> DEFINE restored == IF journal = NoRecord THEN NewLane ELSE Restore(journal)
<1>1. ApprovedLane(restored) /\ {"restarted", "queried"} \subseteq DOMAIN restored
  <2>1. CASE journal = NoRecord
    BY <2>1 DEF NewLane, ApprovedLane, Backed, IsFlying, Live, Flyable
  <2>2. CASE journal # NoRecord BY <2>2, RestoredIsApproved DEF ApprovedInv
  <2> QED BY <2>1, <2>2
<1>2. PICK happened, didNot :
        LET found == Reconcile(restored, happened, didNot)
        IN  lane' = found /\ journal' \in {journal, Record(found)}
  BY DEF Crash
<1> HIDE DEF restored
<1> DEFINE found == Reconcile(restored, happened, didNot)
<1>3. ApprovedLane(found) BY <1>1, ReconciledIsApproved
<1>4. plans' \in Nat BY DEF Crash, ApprovedInv
<1>5. lane' = found /\ Records(found) BY <1>2 DEF Records
<1> HIDE DEF found
<1> QED BY <1>3, <1>4, <1>5, ApprovedStep

\* A run changes neither the lane nor the journal.
LEMMA RunApproved ==
    ASSUME ApprovedInv, FlightStep \/ People \/ OperationStep
    PROVE  UNCHANGED <<lane, journal, plans>>
BY DEF FlightStep, FlightControl, LeaseAnswered, TaskStarted, TaskFinished, Released,
       People, LeaseHandedOver, ControlIsLost, ControlIsFreed, LeftFlight, Fence, FlightExits,
       OperationStep, OperationControl, OperationBegins, ReadEnds, ReportStands, WriteEnds,
       OperationsEnd, RunOnly, Goes, Suffers

\* The invariant is inductive.
LEMMA ApprovedNext == ApprovedInv /\ [Next]_vars => ApprovedInv'
<1> SUFFICES ASSUME ApprovedInv, [Next]_vars PROVE ApprovedInv' OBVIOUS
<1>1. ASSUME UNCHANGED <<lane, journal, plans>> PROVE ApprovedInv'
  BY <1>1, ApprovedStep DEF ApprovedInv, Records
<1>2. CASE HostStep
  <2>1. CASE RecordTurn
    <3>1. lane' = lane /\ plans' = plans /\ Records(lane)
      BY <2>1 DEF RecordTurn, StartRun, Write, Records
    <3> QED BY <3>1, ApprovedStep DEF ApprovedInv
  <2>2. CASE ReadStatus \/ Replaced BY <1>1, <2>2 DEF ReadStatus, Replaced
  <2> QED BY <1>2, <2>1, <2>2, ClockApproved, ProgressApproved DEF HostStep
<1>3. CASE TimePasses \/ UNCHANGED vars BY <1>1, <1>3 DEF TimePasses, vars
<1> QED BY <1>1, <1>2, <1>3, IntentApproved, RunApproved, CrashApproved DEF Next

-----------------------------------------------------------------------------
(* What lanes, records and orders are.                                     *)

\* The fields of a lane.
LEMMA LaneFields ==
    DOMAIN NewLane = {"state", "proposal", "approval", "tasks", "active", "answered",
                      "successor", "expired", "execution", "holds", "restarted", "queried"}
BY DEF NewLane

\* The tasks of a plan are numbered, and there is a first.
LEMMA NumbersAreNaturals ==
    ASSUME NEW plan \in AnyPlan
    PROVE  /\ Numbers(plan) \subseteq Nat /\ 1 \in Numbers(plan) /\ 0 \notin Numbers(plan)
           /\ \E len \in Nat : Numbers(plan) = 1 .. len
<1>1. Operations \in Seq({"read", "write", "ask"}) /\ Operations # <<>> /\ Lines \in Nat \ {0}
  BY LaneAssumption
<1>2. DOMAIN Operations = 1 .. Len(Operations) /\ Len(Operations) \in Nat \ {0} BY <1>1
<1>3. CASE plan.kind = "operations" BY <1>2, <1>3 DEF TasksOf, Numbers
<1>4. CASE plan.kind = "survey"
  <2>1. TasksOf(plan) = [i \in 1 .. Lines + 1 |-> IF i > Lines THEN "home" ELSE "line"]
    BY <1>4 DEF TasksOf
  <2>2. Numbers(plan) = 1 .. Lines + 1 /\ Lines + 1 \in Nat BY <1>1, <2>1 DEF Numbers
  <2> QED BY <1>1, <2>2
<1>5. CASE plan.kind = "home"
  <2>1. Numbers(plan) = 1 .. 1 BY <1>5 DEF TasksOf, Numbers
  <2> QED BY <2>1
<1> QED BY <1>3, <1>4, <1>5 DEF AnyPlan

\* A run begins with all its tasks ahead.
LEMMA NewRunIsTyped ==
    ASSUME NEW plan \in AnyPlan
    PROVE  /\ NewRun(plan) \in [Numbers(plan) -> Statuses]
           /\ DOMAIN NewRun(plan) = Numbers(plan)
           /\ DOMAIN NewRun(plan) \in SUBSET Nat
BY NumbersAreNaturals DEF NewRun, Numbers, Statuses

\* What is left of a run are numbers of tasks.
LEMMA LeftIsTyped ==
    ASSUME NEW l, TypedLane(l)
    PROVE  Left(l) \in SUBSET Nat
BY NumbersAreNaturals DEF Left, TypedLane, TypedRecord

\* An order is one.
LEMMA OrderIsTyped ==
    ASSUME NEW plan \in AnyPlan, NEW todo \in SUBSET Nat, NEW recovery \in BOOLEAN
    PROVE  TypedOrder(Order(plan, todo, recovery)) /\ Order(plan, todo, recovery) # NoOrder
<1>1. TypedOrder(Order(plan, todo, recovery))
  <2>1. CASE recovery = TRUE BY <2>1 DEF TypedOrder, Order
  <2>2. CASE recovery = FALSE BY <2>2 DEF TypedOrder, Order
  <2> QED BY <2>1, <2>2
<1> QED BY <1>1, OrderAssumption, Zenon DEF TypedOrder

\* What became of a call depends on the state and the holds it began with.
LEMMA SteersAlike ==
    ASSUME NEW l, NEW m, l.state = m.state, l.holds = m.holds, NEW r, Steers(m, r)
    PROVE  Steers(l, r)
BY DEF Steers, Live, Holding

\* A lane whose fields are the ones of a fine lane, but for some no type is about.
LEMMA Alike ==
    ASSUME NEW l, Fine(l), NEW m, DOMAIN m = DOMAIN l,
           m.state = l.state, m.proposal = l.proposal, m.tasks = l.tasks,
           m.successor = l.successor, m.holds = l.holds
    PROVE  Fine(m)
BY DEF Fine, TypedLane, TypedRecord, Rests

\* A reply that says nothing changed nothing.
LEMMA SilentSteers ==
    ASSUME NEW l, NEW m, Fine(m), m.state = l.state, "restarted" \in m.holds => "restarted" \in l.holds
    PROVE  Steered(l, Reply(m, "none"))
BY DEF Steered, Steers, Reply, Effects, Live, Holding

\* The successor takes over, and its run starts.
LEMMA SwitchSteers ==
    ASSUME NEW l, TypedLane(l), l.state # "idle",
           {"plan", "admitted", "basis", "approval"} \subseteq DOMAIN l.successor,
           l.successor.plan \in AnyPlan, "restarted" \notin l.holds
    PROVE  Steered(l, Switch(l))
<1> DEFINE next == l.successor
           switched == Switch(l).lane
           order == Switch(l).effect.order
<1>1. /\ switched.proposal = next.plan /\ switched.tasks = NewRun(next.plan)
      /\ switched.successor = NoSuccessor /\ switched.holds \subseteq l.holds
      /\ switched.state \in {"running", l.state}
      /\ DOMAIN switched = DOMAIN l
      /\ Switch(l).effect.do = "start"
      /\ order = Order(next.plan, DOMAIN NewRun(next.plan), next.basis \in Recoveries)
  BY LaneFields DEF TypedLane, Switch, StartReply
<1>2. TypedOrder(order)
  <2>1. DOMAIN NewRun(next.plan) \in SUBSET Nat BY NewRunIsTyped
  <2>2. (next.basis \in Recoveries) \in BOOLEAN OBVIOUS
  <2>3. TypedOrder(Order(next.plan, DOMAIN NewRun(next.plan), next.basis \in Recoveries))
    BY <2>1, <2>2, OrderIsTyped, Zenon
  <2> QED BY <1>1, <2>3, Zenon
<1>3. /\ NewRun(next.plan) \in [Numbers(next.plan) -> Statuses] BY NewRunIsTyped
<1> HIDE DEF switched, next, order
<1>4. TypedLane(switched) BY <1>1, <1>3 DEF TypedLane, TypedRecord, States, next
<1>5. Fine(switched) BY <1>1, <1>4 DEF Fine, Rests
<1> QED BY <1>1, <1>2, <1>5 DEF Steered, Steers, Effects, switched, order

\* A draft leaves the run of the lane.
LEMMA DraftIsFine ==
    ASSUME NEW l, Fine(l), NEW plan \in AnyPlan, "restarted" \notin l.holds
    PROVE  /\ Fine(Draft(l, plan))
           /\ Draft(l, plan).state = l.state /\ Draft(l, plan).holds = l.holds
           /\ Draft(l, plan).proposal = l.proposal
           /\ Draft(l, plan).successor.plan = plan
           /\ {"plan", "admitted", "basis", "approval"} \subseteq DOMAIN Draft(l, plan).successor
BY LaneFields DEF Fine, TypedLane, TypedRecord, Rests, Draft

\* So does an admission.
LEMMA AdmittedIsFine ==
    ASSUME NEW l, Fine(l), "restarted" \notin l.holds,
           {"plan", "admitted", "basis", "approval"} \subseteq DOMAIN l.successor,
           l.successor.plan \in AnyPlan, NEW approval, NEW basis
    PROVE  LET m == Admitted(l, approval, basis)
           IN  /\ Fine(m) /\ m.state = l.state /\ m.holds = l.holds /\ m.proposal = l.proposal
               /\ {"plan", "admitted", "basis", "approval"} \subseteq DOMAIN m.successor
               /\ m.successor.plan \in AnyPlan
<1> DEFINE m == Admitted(l, approval, basis)
<1>1. /\ DOMAIN m = DOMAIN l /\ m.state = l.state /\ m.proposal = l.proposal
      /\ m.tasks = l.tasks /\ m.holds = l.holds
      /\ m.successor.plan = l.successor.plan
      /\ DOMAIN m.successor = DOMAIN l.successor
  BY LaneFields DEF Fine, TypedLane, Admitted
<1> HIDE DEF m
<1>2. Fine(m) BY <1>1 DEF Fine, TypedLane, TypedRecord, Rests
<1> QED BY <1>1, <1>2 DEF m

\* A successor that is admitted waits, or takes over.
LEMMA AdmitSuccessorSteers ==
    ASSUME NEW l, Fine(l), l.state # "idle", "restarted" \notin l.holds,
           {"plan", "admitted", "basis", "approval"} \subseteq DOMAIN l.successor,
           l.successor.plan \in AnyPlan, NEW approval, NEW basis
    PROVE  Steered(l, AdmitSuccessor(l, approval, basis))
<1> DEFINE m == Admitted(l, approval, basis)
<1>1. /\ Fine(m) /\ m.state = l.state /\ m.holds = l.holds /\ m.proposal = l.proposal
      /\ {"plan", "admitted", "basis", "approval"} \subseteq DOMAIN m.successor
      /\ m.successor.plan \in AnyPlan
  BY AdmittedIsFine
<1>2. AdmitSuccessor(l, approval, basis) \in {Switch(m), Reply(m, "none")}
  BY DEF AdmitSuccessor
<1> HIDE DEF m
<1>3. Steered(m, Switch(m)) BY <1>1, SwitchSteers DEF Fine
<1>4. Steered(l, Switch(m)) BY <1>1, <1>3, SteersAlike DEF Steered
<1>5. Steered(l, Reply(m, "none")) BY <1>1, SilentSteers
<1> QED BY <1>2, <1>4, <1>5

\* A checkpoint applies the successor, drops its admission, or does nothing.
LEMMA CheckpointSteers ==
    ASSUME NEW l, Fine(l), ApprovedLane(l), l.state # "idle", NEW complete, NEW t
    PROVE  Steered(l, AtCheckpoint(l, complete, t))
<1>1. CASE l.successor = NoSuccessor \/ ~l.successor.admitted
  <2>1. AtCheckpoint(l, complete, t) = Reply(l, "none") BY <1>1 DEF AtCheckpoint
  <2> QED BY <2>1, SilentSteers
<1>2. CASE l.successor # NoSuccessor /\ l.successor.admitted
  <2> DEFINE lapsed == [l EXCEPT !.successor.admitted = FALSE, !.successor.basis = "drafted",
                                 !.successor.approval = NoApproval]
  <2>1. /\ {"plan", "admitted", "basis", "approval"} \subseteq DOMAIN l.successor
        /\ l.successor.plan \in AnyPlan /\ "restarted" \notin l.holds
    BY <1>2 DEF ApprovedLane, AdmittedByOwn, Fine, TypedLane, Rests
  <2>2. Steered(l, Switch(l)) BY <2>1, SwitchSteers DEF Fine
  <2>3. /\ DOMAIN lapsed = DOMAIN l /\ lapsed.state = l.state /\ lapsed.holds = l.holds
        /\ lapsed.proposal = l.proposal /\ lapsed.tasks = l.tasks
        /\ lapsed.successor.plan = l.successor.plan
    BY <2>1, LaneFields DEF Fine, TypedLane
  <2>4. AtCheckpoint(l, complete, t) =
           IF ~StillAdmitted(l, t) THEN Reply(lapsed, "none")
           ELSE IF complete \/ ~IsTask(l, "line") \/ FlownLines(l) > l.successor.flown
                THEN Switch(l) ELSE Reply(l, "none")
    BY <1>2, Zenon DEF AtCheckpoint
  <2>5. AtCheckpoint(l, complete, t) \in {Reply(lapsed, "none"), Switch(l), Reply(l, "none")}
    BY <2>4, Zenon
  <2> HIDE DEF lapsed
  <2>6. Fine(lapsed) BY <2>1, <2>3 DEF Fine, TypedLane, TypedRecord, Rests
  <2>7. Steered(l, Reply(lapsed, "none")) /\ Steered(l, Reply(l, "none"))
    BY <2>3, <2>6, SilentSteers
  <2> QED BY <2>2, <2>5, <2>7
<1> QED BY <1>1, <1>2

\* A lane that nothing holds any more resumes its run, or starts what is left of it.
LEMMA ResumingSteers ==
    ASSUME NEW l, Fine(l), NEW m, m.state = l.state,
           "restarted" \in l.holds => "restarted" \in m.holds
    PROVE  Steered(m, ResumeWhenFree(l))
<1> DEFINE freed == [l EXCEPT !.state = "running", !.restarted = FALSE]
           order == Order(l.proposal, Left(l), FALSE)
<1>1. CASE l.holds # {} \/ ~Holding(l)
  <2>1. ResumeWhenFree(l) = Reply(l, "none") BY <1>1 DEF ResumeWhenFree
  <2> QED BY <2>1, SilentSteers
<1>2. CASE l.holds = {} /\ Holding(l)
  <2>1. ResumeWhenFree(l) \in {StartReply(freed, order), Reply(freed, "resume")}
    BY <1>2 DEF ResumeWhenFree
  <2>2. l.proposal \in AnyPlan BY <1>2 DEF Fine, TypedLane, TypedRecord, Holding
  <2>3. TypedOrder(order) BY <2>2, LeftIsTyped, OrderIsTyped DEF Fine
  <2>4. /\ DOMAIN freed = DOMAIN l /\ freed.state = "running" /\ freed.holds = {}
        /\ freed.proposal = l.proposal /\ freed.tasks = l.tasks /\ freed.successor = l.successor
    BY <1>2, LaneFields DEF Fine, TypedLane
  <2> HIDE DEF freed, order
  <2>5. Fine(freed)
    BY <1>2, <2>4 DEF Fine, TypedLane, TypedRecord, Rests, States, Flying, Holding
  <2>6. Steered(m, StartReply(freed, order))
    BY <2>3, <2>4, <2>5 DEF Steered, Steers, StartReply, Effects
  <2>7. Steered(m, Reply(freed, "resume"))
    BY <2>4, <2>5 DEF Steered, Steers, Reply, Effects, Holding
  <2> QED BY <2>1, <2>6, <2>7
<1> QED BY <1>1, <1>2

\* A new plan is flown by nobody yet.
LEMMA ProposeSteers ==
    ASSUME NEW l, Fine(l), NEW plan \in AnyPlan
    PROVE  Steered(l, Propose(l, plan))
<1> DEFINE m == Propose(l, plan).lane
<1>1. /\ DOMAIN m = DOMAIN l /\ m.state = "proposed" /\ m.holds = {} /\ m.proposal = plan
      /\ m.tasks = <<>> /\ m.successor = NoSuccessor
      /\ Propose(l, plan).effect.do = "none"
  BY LaneFields DEF Fine, TypedLane, Propose, Reply
<1>2. <<>> \in [{} -> Statuses] OBVIOUS
<1> HIDE DEF m
<1>3. Fine(m) BY <1>1, <1>2 DEF Fine, TypedLane, TypedRecord, Rests, States, Flying
<1> QED BY <1>1, <1>3 DEF Steered, Steers, Effects, Live, m

\* An approval admits a plan or a successor, or lifts the hold on expiry.
LEMMA ApproveSteers ==
    ASSUME NEW l, Fine(l), ApprovedLane(l), NEW p \in Approvable(l), NEW approval,
           approval.digest = p.digest
    PROVE  Steered(l, Approve(l, approval))
<1>1. CASE l.state = "proposed"
  <2> DEFINE m == [l EXCEPT !.approval = approval, !.state = "admitted"]
  <2>1. Approve(l, approval) = Reply(m, "none") BY <1>1 DEF Approve, IsFlying, Live
  <2>2. /\ DOMAIN m = DOMAIN l /\ m.state = "admitted" /\ m.holds = l.holds
        /\ m.proposal = l.proposal /\ m.tasks = l.tasks /\ m.successor = l.successor
    BY LaneFields DEF Fine, TypedLane
  <2> HIDE DEF m
  <2>3. Fine(m) BY <1>1, <2>2 DEF Fine, TypedLane, TypedRecord, Rests, States, Flying
  <2> QED BY <2>1, <2>2, <2>3 DEF Steered, Steers, Reply, Effects, Live
<1>2. CASE l.state # "proposed" /\ IsFlying(l) /\ approval.digest = l.proposal.digest
  <2> DEFINE m == [l EXCEPT !.approval = approval, !.expired = FALSE,
                            !.holds = @ \ {"approvalExpired"}]
  <2>1. Approve(l, approval) = ResumeWhenFree(m) BY <1>2 DEF Approve, Renew
  <2>2. /\ DOMAIN m = DOMAIN l /\ m.state = l.state /\ m.holds \subseteq l.holds
        /\ m.proposal = l.proposal /\ m.tasks = l.tasks /\ m.successor = l.successor
    BY LaneFields DEF Fine, TypedLane
  <2> HIDE DEF m
  <2>3. Fine(m) BY <2>2 DEF Fine, TypedLane, TypedRecord, Rests
  <2> QED BY <2>1, <2>2, <2>3, ResumingSteers
<1>3. CASE l.state # "proposed" /\ ~(IsFlying(l) /\ approval.digest = l.proposal.digest)
  <2>1. IsFlying(l) /\ l.successor # NoSuccessor BY <1>3 DEF Approvable
  <2>2. l.successor.plan \in AnyPlan /\ "restarted" \notin l.holds /\ l.state # "idle"
        /\ {"plan", "admitted", "basis", "approval"} \subseteq DOMAIN l.successor
    BY <2>1 DEF Fine, TypedLane, Rests, ApprovedLane, AdmittedByOwn, IsFlying, Live
  <2>3. Approve(l, approval) = AdmitSuccessor(l, approval, "approved") BY <1>3 DEF Approve
  <2> QED BY <2>2, <2>3, AdmitSuccessorSteers
<1> QED BY <1>1, <1>2, <1>3

\* A lane that starts orders all of its plan.
LEMMA StartSteers ==
    ASSUME NEW l, Fine(l), ApprovedLane(l), l.state = "admitted"
    PROVE  Steered(l, Start(l))
<1> DEFINE m == Start(l).lane
           order == Order(l.proposal, DOMAIN NewRun(l.proposal), FALSE)
<1>1. l.proposal \in AnyPlan /\ l.holds = {} BY DEF Fine, TypedLane, TypedRecord, ApprovedLane
<1>2. /\ DOMAIN m = DOMAIN l /\ m.state = "running" /\ m.holds = l.holds
      /\ m.proposal = l.proposal /\ m.tasks = NewRun(l.proposal) /\ m.successor = l.successor
      /\ Start(l).effect = [do |-> "start", order |-> order]
  BY LaneFields DEF Fine, TypedLane, Start, StartReply
<1>3. TypedOrder(order) /\ NewRun(l.proposal) \in [Numbers(l.proposal) -> Statuses]
  BY <1>1, NewRunIsTyped, OrderIsTyped
<1> HIDE DEF m, order
<1>4. Fine(m) BY <1>1, <1>2, <1>3 DEF Fine, TypedLane, TypedRecord, Rests, States
<1> QED BY <1>1, <1>2, <1>3, <1>4 DEF Steered, Steers, Effects, m

\* A hold is told to a run that goes on.
LEMMA HoldSteers ==
    ASSUME NEW l, Fine(l), Live(l)
    PROVE  Steered(l, Hold(l))
<1> DEFINE m == WithHold(l, "operator")
           held == [m EXCEPT !.state = "holdRequested"]
<1>1. Hold(l) = IF l.state = "running" THEN Reply(held, "hold") ELSE Reply(m, "none")
  BY DEF Hold
<1>2. /\ DOMAIN m = DOMAIN l /\ m.state = l.state /\ m.holds = l.holds \cup {"operator"}
      /\ m.proposal = l.proposal /\ m.tasks = l.tasks /\ m.successor = l.successor
  BY LaneFields DEF Fine, TypedLane, WithHold
<1>3. /\ DOMAIN held = DOMAIN l /\ held.state = "holdRequested" /\ held.holds = l.holds \cup {"operator"}
      /\ held.proposal = l.proposal /\ held.tasks = l.tasks /\ held.successor = l.successor
  BY <1>2, LaneFields DEF Fine, TypedLane
<1> HIDE DEF m, held
<1>4. Fine(m) BY <1>2 DEF Fine, TypedLane, TypedRecord, Rests
<1>5. l.state = "running" => Fine(held) /\ "restarted" \notin held.holds
  BY <1>3 DEF Fine, TypedLane, TypedRecord, Rests, States, Flying
<1>6. Steered(l, Reply(m, "none")) BY <1>2, <1>4, SilentSteers
<1>7. l.state = "running" => Steered(l, Reply(held, "hold"))
  BY <1>3, <1>5 DEF Steered, Steers, Reply, Effects, Holding
<1> QED BY <1>1, <1>6, <1>7

\* A resume lifts the holds of people.
LEMMA ResumeSteers ==
    ASSUME NEW l, Fine(l)
    PROVE  Steered(l, Resume(l))
<1> DEFINE m == [l EXCEPT !.holds = @ \ {"operator", "restarted"}]
<1>1. /\ DOMAIN m = DOMAIN l /\ m.state = l.state /\ m.holds = l.holds \ {"operator", "restarted"}
      /\ m.proposal = l.proposal /\ m.tasks = l.tasks /\ m.successor = l.successor
  BY LaneFields DEF Fine, TypedLane
<1>2. Resume(l) = ResumeWhenFree(m) BY DEF Resume
<1> HIDE DEF m
<1>3. Fine(m) BY <1>1 DEF Fine, TypedLane, TypedRecord, Rests
<1> QED BY <1>1, <1>2, <1>3, ResumingSteers

\* A lane that is aborted goes on no more.
LEMMA AbortSteers ==
    ASSUME NEW l, Fine(l), IsFlying(l)
    PROVE  Steered(l, Abort(l))
<1> DEFINE m == Abort(l).lane
<1>1. /\ DOMAIN m = DOMAIN l /\ m.state = "aborted" /\ m.holds = {} /\ m.proposal = l.proposal
      /\ m.tasks = [i \in DOMAIN l.tasks |->
                      IF Flies(l.proposal) /\ l.tasks[i] = "active" THEN "cancelled" ELSE l.tasks[i]]
      /\ m.successor = NoSuccessor /\ Abort(l).effect.do = "abort"
  BY LaneFields DEF Fine, TypedLane, Abort, Reply
<1>2. l.tasks \in [Numbers(l.proposal) -> Statuses] /\ l.proposal \in AnyPlan
  BY DEF Fine, TypedLane, TypedRecord, IsFlying, Live, Flying
<1>3. m.tasks \in [Numbers(l.proposal) -> Statuses] BY <1>1, <1>2 DEF Statuses
<1> HIDE DEF m
<1>4. Fine(m) BY <1>1, <1>2, <1>3 DEF Fine, TypedLane, TypedRecord, Rests, States
<1> QED BY <1>1, <1>4 DEF Steered, Steers, Effects, Live, m

\* A revision takes over now, or waits.
LEMMA ReviseSteers ==
    ASSUME NEW l, Fine(l), CanRevise(l), NEW plan \in AnyPlan, NEW within, NEW t
    PROVE  Steered(l, Revise(l, plan, within, t))
<1> DEFINE drafted == Draft(l, plan)
<1>1. "restarted" \notin l.holds /\ l.state # "idle" BY DEF CanRevise, Fine, Rests, Live
<1>2. /\ Fine(drafted) /\ drafted.state = l.state /\ drafted.holds = l.holds
      /\ {"plan", "admitted", "basis", "approval"} \subseteq DOMAIN drafted.successor
      /\ drafted.successor.plan \in AnyPlan
  BY <1>1, DraftIsFine
<1> HIDE DEF drafted
<1>3. Steered(l, Reply(drafted, "none")) BY <1>2, SilentSteers
<1>4. Steered(drafted, AdmitSuccessor(drafted, Bind(l.approval, plan), "withinEnvelope"))
  BY <1>1, <1>2, AdmitSuccessorSteers
<1>5. Steered(l, AdmitSuccessor(drafted, Bind(l.approval, plan), "withinEnvelope"))
  BY <1>2, <1>4, SteersAlike DEF Steered
<1> QED BY <1>3, <1>5 DEF Revise, drafted

\* An answer changes no hold.
LEMMA AnswerSteers ==
    ASSUME NEW l, Fine(l)
    PROVE  Steered(l, Answer(l))
<1> DEFINE m == [l EXCEPT !.answered = TRUE]
<1>1. /\ DOMAIN m = DOMAIN l /\ m.state = l.state /\ m.holds = l.holds
      /\ m.proposal = l.proposal /\ m.tasks = l.tasks /\ m.successor = l.successor
  BY LaneFields DEF Fine, TypedLane
<1> HIDE DEF m
<1>2. Fine(m) BY <1>1, Alike
<1> QED BY <1>1, <1>2 DEF Steered, Steers, Answer, Reply, Effects, Live, Holding, m

\* An expiry is answered by a way home, by a hold, or by one more reason to hold.
LEMMA OnClockSteers ==
    ASSUME NEW l, Fine(l), NEW home \in AnyPlan, NEW t, ExpiredNow(l, t)
    PROVE  Steered(l, OnClock(l, home, t))
<1> DEFINE late == [l EXCEPT !.expired = TRUE]
           m == WithHold(late, "approvalExpired")
           held == [m EXCEPT !.state = "holdRequested"]
<1>1. Live(l) /\ l.state # "idle" BY DEF ExpiredNow, Live
<1>2. /\ DOMAIN late = DOMAIN l /\ late.state = l.state /\ late.holds = l.holds
      /\ late.proposal = l.proposal /\ late.tasks = l.tasks /\ late.successor = l.successor
  BY LaneFields DEF Fine, TypedLane
<1>3. Fine(late) BY <1>2, Alike
<1>4. CASE l.approval.onExpiry = "home" /\ Flies(l.proposal)
  <2> DEFINE drafted == Draft(late, home)
  <2>1. "restarted" \notin late.holds BY <1>2, <1>4 DEF Fine, Rests
  <2> HIDE DEF late
  <2>2. /\ Fine(drafted) /\ drafted.state = late.state /\ drafted.holds = late.holds
        /\ {"plan", "admitted", "basis", "approval"} \subseteq DOMAIN drafted.successor
        /\ drafted.successor.plan \in AnyPlan
    BY <1>3, <2>1, DraftIsFine
  <2>3. OnClock(l, home, t) = AdmitSuccessor(drafted, Bind(l.approval, home), "expiryRecovery")
    BY <1>4 DEF OnClock, late
  <2> HIDE DEF drafted
  <2>4. Steered(drafted, OnClock(l, home, t))
    BY <1>1, <1>2, <2>1, <2>2, <2>3, AdmitSuccessorSteers
  <2> QED BY <1>2, <2>2, <2>4, SteersAlike DEF Steered
<1>5. CASE ~(l.approval.onExpiry = "home" /\ Flies(l.proposal))
  <2>1. OnClock(l, home, t) = IF l.state = "running" THEN Reply(held, "hold") ELSE Reply(m, "none")
    BY <1>5 DEF OnClock
  <2>2. /\ DOMAIN m = DOMAIN l /\ m.state = l.state /\ m.holds = l.holds \cup {"approvalExpired"}
        /\ m.proposal = l.proposal /\ m.tasks = l.tasks /\ m.successor = l.successor
    BY <1>2, LaneFields DEF Fine, TypedLane, WithHold
  <2>3. /\ DOMAIN held = DOMAIN l /\ held.state = "holdRequested"
        /\ held.holds = l.holds \cup {"approvalExpired"}
        /\ held.proposal = l.proposal /\ held.tasks = l.tasks /\ held.successor = l.successor
    BY <2>2, LaneFields DEF Fine, TypedLane
  <2> HIDE DEF m, held
  <2>4. Fine(m) BY <2>2 DEF Fine, TypedLane, TypedRecord, Rests
  <2>5. l.state = "running" => Fine(held) /\ "restarted" \notin held.holds
    BY <2>3 DEF Fine, TypedLane, TypedRecord, Rests, States, Flying
  <2>6. Steered(l, Reply(m, "none")) BY <2>2, <2>4, SilentSteers
  <2>7. l.state = "running" => Steered(l, Reply(held, "hold"))
    BY <2>3, <2>5 DEF Steered, Steers, Reply, Effects, Holding
  <2> QED BY <2>1, <2>6, <2>7
<1> QED BY <1>4, <1>5

\* A recovery takes over at once.
LEMMA RecoverySteers ==
    ASSUME NEW l, Fine(l), Live(l), Flies(l.proposal), NEW home \in AnyPlan
    PROVE  Steered(l, RecoverFromLostControl(l, home))
<1> DEFINE drafted == Draft(l, home)
           m == Admitted(drafted, Bind(l.approval, home), "controlLossRecovery")
<1>1. "restarted" \notin l.holds /\ l.state # "idle" BY DEF Fine, Rests, Live
<1>2. /\ Fine(drafted) /\ drafted.state = l.state /\ drafted.holds = l.holds
      /\ {"plan", "admitted", "basis", "approval"} \subseteq DOMAIN drafted.successor
      /\ drafted.successor.plan \in AnyPlan
  BY <1>1, DraftIsFine
<1> HIDE DEF drafted
<1>3. /\ Fine(m) /\ m.state = l.state /\ m.holds = l.holds
      /\ {"plan", "admitted", "basis", "approval"} \subseteq DOMAIN m.successor
      /\ m.successor.plan \in AnyPlan
  BY <1>1, <1>2, AdmittedIsFine
<1> HIDE DEF m
<1>4. Steered(m, Switch(m)) BY <1>1, <1>3, SwitchSteers DEF Fine
<1>5. Steered(l, Switch(m)) BY <1>3, <1>4, SteersAlike DEF Steered
<1> QED BY <1>5 DEF RecoverFromLostControl, drafted, m

\* The end of the taker's lease starts a recovery or nothing.
LEMMA OnExecutionSteers ==
    ASSUME NEW l, Fine(l), NEW execution, NEW home \in AnyPlan, NEW t
    PROVE  Steered(l, OnExecution(l, execution, home, t))
<1> DEFINE m == [l EXCEPT !.execution = execution]
<1>1. /\ DOMAIN m = DOMAIN l /\ m.state = l.state /\ m.holds = l.holds
      /\ m.proposal = l.proposal /\ m.tasks = l.tasks /\ m.successor = l.successor
  BY LaneFields DEF Fine, TypedLane
<1>2. OnExecution(l, execution, home, t) =
         IF l.execution # "freed" /\ RecoversFromLostControl(m, t)
         THEN RecoverFromLostControl(m, home) ELSE Reply(m, "none")
  BY DEF OnExecution
<1> HIDE DEF m
<1>3. Fine(m) BY <1>1, Alike
<1>4. Steered(l, Reply(m, "none")) BY <1>1, <1>3, SilentSteers
<1>5. RecoversFromLostControl(m, t) => Steered(m, RecoverFromLostControl(m, home))
  BY <1>3, RecoverySteers DEF RecoversFromLostControl
<1>6. RecoversFromLostControl(m, t) => Steered(l, RecoverFromLostControl(m, home))
  BY <1>1, <1>5, SteersAlike DEF Steered
<1> QED BY <1>2, <1>4, <1>6

\* What progress of its plan makes of a task.
TaskOf(l, progress, i) ==
    IF l.tasks[i] \notin Open THEN l.tasks[i]
    ELSE CASE i \in progress.finished -> "completed"
           [] i \in progress.cancelled -> "cancelled"
           [] i \in progress.failed -> "failed"
           [] OTHER -> IF i = progress.active /\ l.tasks[i] = "pending"
                       THEN "active" ELSE l.tasks[i]

\* What the lane takes over of its run's status.
LEMMA FoldIsFine ==
    ASSUME NEW l, Fine(l), NEW progress
    PROVE  LET m == Fold(l, progress)
           IN  /\ Fine(m) /\ m.holds = l.holds /\ m.proposal = l.proposal
               /\ m.successor = l.successor
               /\ m.state = l.state \/ (l.state = "holdRequested" /\ m.state = "held")
<1> DEFINE m == Fold(l, progress)
           Of(i) == TaskOf(l, progress, i)
<1> USE DEF TaskOf
<1>1. /\ DOMAIN m = DOMAIN l /\ m.holds = l.holds /\ m.proposal = l.proposal
      /\ m.successor = l.successor
      /\ m.state = l.state \/ (l.state = "holdRequested" /\ m.state = "held")
      /\ m.tasks \in {l.tasks, [i \in DOMAIN l.tasks |-> Of(i)]}
  BY LaneFields DEF Fine, TypedLane, Fold
<1>2. ASSUME NEW i \in DOMAIN l.tasks, l.tasks[i] \in Statuses PROVE Of(i) \in Statuses
  BY <1>2 DEF Statuses
<1>3. \A S : l.tasks \in [S -> Statuses] => m.tasks \in [S -> Statuses]
  <2> SUFFICES ASSUME NEW S, l.tasks \in [S -> Statuses] PROVE m.tasks \in [S -> Statuses]
    OBVIOUS
  <2>1. \A i \in DOMAIN l.tasks : Of(i) \in Statuses BY <1>2
  <2> HIDE DEF Of, m, TaskOf
  <2> QED BY <1>1, <2>1
<1> HIDE DEF m
<1>4. TypedRecord(m) BY <1>1, <1>3, LaneFields DEF Fine, TypedLane, TypedRecord, States, Flying
<1>5. Fine(m) BY <1>1, <1>4 DEF Fine, TypedLane, Rests
<1> QED BY <1>1, <1>5 DEF m

\* A lane that is over tells its run nothing.
LEMMA CloseSteers ==
    ASSUME NEW l, NEW m, Fine(m), "restarted" \notin m.holds, m.state \in Flying,
           NEW outcome \in Statuses, NEW state \in {"complete", "failed"}
    PROVE  Steered(l, Reply(Close(m, outcome, state), "none"))
<1> DEFINE c == Close(m, outcome, state)
<1>1. /\ DOMAIN c = DOMAIN m /\ c.holds = m.holds /\ c.proposal = m.proposal
      /\ c.successor = m.successor /\ c.state = state
      /\ c.tasks = [i \in DOMAIN m.tasks |->
            IF m.tasks[i] = "active" /\ (Flies(m.proposal) \/ outcome = "completed")
            THEN outcome ELSE m.tasks[i]]
  BY LaneFields DEF Fine, TypedLane, Close
<1>2. m.tasks \in [Numbers(m.proposal) -> Statuses] /\ m.proposal \in AnyPlan
  BY DEF Fine, TypedLane, TypedRecord
<1>3. c.tasks \in [Numbers(m.proposal) -> Statuses] BY <1>1, <1>2
<1> HIDE DEF c
<1>4. Fine(c) BY <1>1, <1>2, <1>3, LaneFields DEF Fine, TypedLane, TypedRecord, Rests, States
<1> QED BY <1>1, <1>4 DEF Steered, Steers, Reply, Effects, Live, c

\* Progress brings a checkpoint, an end, or a recovery.
LEMMA OnProgressSteers ==
    ASSUME NEW l, Fine(l), ApprovedLane(l), "restarted" \notin l.holds, NEW progress, NEW home, NEW t,
           home \in AnyPlan \/ progress.execution # "freed"
    PROVE  Steered(l, OnProgress(l, progress, home, t))
<1> DEFINE folded == Fold(l, progress)
           checked == IF IsFlying(l) THEN AtCheckpoint(folded, progress.complete, t)
                                     ELSE Reply(folded, "none")
           told == [l EXCEPT !.execution = progress.execution]
           closed(outcome, state) == Reply(Close(checked.lane, outcome, state), "none")
           recovers == /\ l.tasks # <<>> /\ l.execution # "freed"
                       /\ RecoversFromLostControl(folded, t)
<1>1. /\ Fine(folded) /\ folded.holds = l.holds /\ folded.proposal = l.proposal
      /\ folded.successor = l.successor
      /\ folded.state = l.state \/ (l.state = "holdRequested" /\ folded.state = "held")
  BY FoldIsFine
<1>2. folded.execution = progress.execution /\ ApprovedLane(folded) BY FoldIsApproved
<1> HIDE DEF folded
<1>3. ASSUME NEW r, Steered(folded, r) PROVE Steered(l, r)
  BY <1>1, <1>3 DEF Steered, Steers, Live, Holding
<1>4. Steered(l, Reply(folded, "none")) BY <1>1, <1>3, SilentSteers
<1>5. Steered(l, checked)
  <2>1. IsFlying(l) => folded.state # "idle" BY <1>1 DEF IsFlying, Live
  <2>2. IsFlying(l) => Steered(folded, AtCheckpoint(folded, progress.complete, t))
    BY <1>1, <1>2, <2>1, CheckpointSteers
  <2> QED BY <1>3, <1>4, <2>2
<1>6. checked.effect.do = "none" =>
         /\ Fine(checked.lane) /\ "restarted" \notin checked.lane.holds
  BY <1>5 DEF Steered, Steers
<1>7. IsFlying(l) /\ checked.effect.do = "none" => checked.lane.state \in Flying
  <2>1. SUFFICES ASSUME IsFlying(l), checked.effect.do = "none" PROVE checked.lane.state \in Flying
    OBVIOUS
  <2>2. folded.state \in Flying BY <1>1, <2>1 DEF IsFlying, Live, Flying
  <2>3. checked = AtCheckpoint(folded, progress.complete, t) BY <2>1
  <2>4. AtCheckpoint(folded, progress.complete, t).effect.do = "none"
          => AtCheckpoint(folded, progress.complete, t).lane.state = folded.state
    BY LaneFields, <1>1 DEF AtCheckpoint, Reply, Switch, StartReply, Fine, TypedLane
  <2> QED BY <2>1, <2>2, <2>3, <2>4
<1>8. CASE l.tasks = <<>>
  <2>1. OnProgress(l, progress, home, t) = Reply(told, "none") BY <1>8 DEF OnProgress
  <2>2. /\ DOMAIN told = DOMAIN l /\ told.state = l.state /\ told.holds = l.holds
        /\ told.proposal = l.proposal /\ told.tasks = l.tasks /\ told.successor = l.successor
    BY LaneFields DEF Fine, TypedLane
  <2> HIDE DEF told
  <2>3. Fine(told) BY <2>2, Alike
  <2> QED BY <2>1, <2>2, <2>3, SilentSteers
<1>9. CASE recovers
  <2>1. OnProgress(l, progress, home, t) = RecoverFromLostControl(folded, home)
    BY <1>9 DEF OnProgress, folded
  <2>2. home \in AnyPlan /\ Live(folded) /\ Flies(folded.proposal)
    BY <1>2, <1>9 DEF RecoversFromLostControl
  <2> QED BY <1>1, <1>3, <2>1, <2>2, RecoverySteers
<1>10. CASE l.tasks # <<>> /\ ~recovers
  <2>1. OnProgress(l, progress, home, t) =
           IF checked.effect.do # "none" THEN checked
           ELSE CASE progress.complete /\ IsFlying(l) -> closed("completed", "complete")
                  [] ~progress.complete /\ progress.ended /\ IsFlying(l) -> closed("failed", "failed")
                  [] OTHER -> Reply(checked.lane, "none")
    BY <1>10 DEF OnProgress, folded
  <2>2. CASE checked.effect.do # "none" BY <1>5, <2>1, <2>2
  <2>3. CASE checked.effect.do = "none"
    <3>1. IsFlying(l) => /\ Steered(l, closed("completed", "complete"))
                         /\ Steered(l, closed("failed", "failed"))
      BY <1>6, <1>7, <2>3, CloseSteers DEF Statuses
    <3>2. Steered(l, Reply(checked.lane, "none"))
      <4> HIDE DEF checked
      <4> QED BY <1>5, <2>3 DEF Steered, Steers, Reply
    <3>3. OnProgress(l, progress, home, t) \in
             {closed("completed", "complete"), closed("failed", "failed"), Reply(checked.lane, "none")}
      BY <2>1, <2>3, Zenon
    <3>4. ~IsFlying(l) => OnProgress(l, progress, home, t) = Reply(checked.lane, "none")
      BY <2>1, <2>3
    <3> HIDE DEF closed, checked
    <3> QED BY <3>1, <3>2, <3>3, <3>4
  <2> QED BY <2>2, <2>3
<1> QED BY <1>8, <1>9, <1>10

-----------------------------------------------------------------------------
(* Records and restarts.                                                   *)

\* A record is that of its lane.
LEMMA RecordIsTyped ==
    ASSUME NEW l, Fine(l)
    PROVE  Record(l) = NoRecord \/ TypedRecord(Record(l))
BY DEF Fine, TypedLane, TypedRecord, Record

\* Settling what a restart finds leaves a lane that rests.
LEMMA SettlingIsFine ==
    ASSUME NEW l, Fine(l)
    PROVE  /\ Fine(SettleOperations(l))
           /\ SettleOperations(l).state = l.state /\ SettleOperations(l).holds = l.holds
           /\ SettleOperations(l).proposal = l.proposal
           /\ SettleOperations(l).successor = l.successor
           /\ l.successor = NoSuccessor => Fine(SettleRestart(l))
           /\ l.successor = NoSuccessor => SettleRestart(l).successor = NoSuccessor
<1>1. /\ DOMAIN SettleOperations(l) = DOMAIN l
      /\ SettleOperations(l).state = l.state /\ SettleOperations(l).holds = l.holds
      /\ SettleOperations(l).proposal = l.proposal
      /\ SettleOperations(l).successor = l.successor
      /\ \A S : l.tasks \in [S -> Statuses] => SettleOperations(l).tasks \in [S -> Statuses]
  <2> DEFINE undone == {i \in DOMAIN l.tasks : l.tasks[i] # "completed"}
             first == CHOOSE i \in undone : \A j \in undone : i <= j
  <2>1. \E v \in {"pending", "uncertain"} :
          SettleOperations(l) \in {l, [l EXCEPT !.tasks[first] = v]}
    BY DEF SettleOperations
  <2> HIDE DEF first
  <2>2. PICK v \in {"pending", "uncertain"} :
          SettleOperations(l) \in {l, [l EXCEPT !.tasks[first] = v]}
    BY <2>1
  <2>3. ASSUME NEW S, l.tasks \in [S -> Statuses] PROVE [l.tasks EXCEPT ![first] = v] \in [S -> Statuses]
    BY <2>3 DEF Statuses
  <2>4. LET m == [l EXCEPT !.tasks[first] = v]
        IN  /\ DOMAIN m = DOMAIN l /\ m.state = l.state /\ m.holds = l.holds
            /\ m.proposal = l.proposal /\ m.successor = l.successor
            /\ m.tasks = [l.tasks EXCEPT ![first] = v]
    BY LaneFields DEF Fine, TypedLane
  <2> QED BY <2>2, <2>3, <2>4
<1>2. Fine(SettleOperations(l)) BY <1>1, LaneFields DEF Fine, TypedLane, TypedRecord, Rests
<1> DEFINE free == [l EXCEPT !.restarted = FALSE]
           over == [l EXCEPT !.restarted = FALSE, !.state = "complete"]
           held == [WithHold(l, "restarted") EXCEPT !.state = "held"]
<1>3. /\ DOMAIN free = DOMAIN l /\ free.state = l.state /\ free.holds = l.holds
      /\ free.proposal = l.proposal /\ free.tasks = l.tasks /\ free.successor = l.successor
      /\ DOMAIN over = DOMAIN l /\ over.state = "complete" /\ over.holds = l.holds
      /\ over.proposal = l.proposal /\ over.tasks = l.tasks /\ over.successor = l.successor
      /\ DOMAIN held = DOMAIN l /\ held.state = "held"
      /\ held.proposal = l.proposal /\ held.tasks = l.tasks /\ held.successor = l.successor
  BY LaneFields DEF Fine, TypedLane, WithHold
<1>4. \/ SettleRestart(l) \in {l, free}
      \/ l.state = "uncertain" /\ SettleRestart(l) = over
      \/ l.state = "uncertain" /\ ~Flies(l.proposal) /\ SettleRestart(l) = held
  BY DEF SettleRestart
<1> HIDE DEF free, over, held
<1>5. Fine(free) BY <1>3, Alike
<1>6. l.state = "uncertain" => Fine(over)
  BY <1>3, LaneFields DEF Fine, TypedLane, TypedRecord, Rests, States, Flying
<1>7. l.state = "uncertain" /\ ~Flies(l.proposal) /\ l.successor = NoSuccessor => Fine(held)
  BY <1>3, LaneFields DEF Fine, TypedLane, TypedRecord, Rests, States, Flying
<1> QED BY <1>1, <1>2, <1>3, <1>4, <1>5, <1>6, <1>7

\* A restored lane is a lane, and rests if it was restarted.
LEMMA RestoredIsFine ==
    ASSUME NEW record, TypedRecord(record)
    PROVE  Fine(Restore(record)) /\ Restore(record).successor = NoSuccessor
<1> DEFINE recorded == [NewLane EXCEPT !.state = record.state, !.proposal = record.proposal,
                                       !.approval = record.approval, !.tasks = record.tasks]
           left == SettleOperations(recorded)
           queried == {i \in DOMAIN left.tasks :
                         /\ left.tasks[i] = "uncertain"
                         /\ TasksOf(left.proposal)[i] \in StatusQuery}
           restored == [left EXCEPT !.restarted = IsFlying(left) \/ queried # {},
                                    !.queried = queried,
                                    !.state = IF IsFlying(left) THEN "uncertain" ELSE @]
<1>1. /\ DOMAIN recorded = DOMAIN NewLane /\ recorded.state = record.state
      /\ recorded.proposal = record.proposal /\ recorded.tasks = record.tasks
      /\ recorded.successor = NoSuccessor /\ recorded.holds = {}
  BY DEF NewLane
<1> HIDE DEF recorded
<1>2. Fine(recorded) BY <1>1, LaneFields DEF Fine, TypedLane, TypedRecord, Rests
<1>3. /\ Fine(left) /\ left.successor = NoSuccessor /\ left.holds = {}
  BY <1>1, <1>2, SettlingIsFine
<1>4. Restore(record) = SettleRestart(restored) BY DEF Restore, recorded
<1> HIDE DEF left, queried
<1>5. /\ DOMAIN restored = DOMAIN left /\ restored.proposal = left.proposal
      /\ restored.tasks = left.tasks /\ restored.successor = left.successor
      /\ restored.holds = left.holds
      /\ restored.state = IF IsFlying(left) THEN "uncertain" ELSE left.state
  BY <1>3, LaneFields DEF Fine, TypedLane
<1> HIDE DEF restored
<1>6. Fine(restored)
  BY <1>3, <1>5, LaneFields
     DEF Fine, TypedLane, TypedRecord, Rests, States, Flying, IsFlying, Live
<1> QED BY <1>3, <1>4, <1>5, <1>6, SettlingIsFine

\* So is one whose operations were asked about.
LEMMA ReconciledIsFine ==
    ASSUME NEW l, Fine(l), l.successor = NoSuccessor, NEW happened, NEW didNot
    PROVE  Fine(Reconcile(l, happened, didNot))
<1> DEFINE Found(i) == CASE i \in happened -> "completed"
                         [] i \in didNot -> "pending"
                         [] OTHER -> l.tasks[i]
           m == [l EXCEPT !.queried = @ \ (happened \cup didNot),
                          !.tasks = [i \in DOMAIN @ |-> CASE i \in happened -> "completed"
                                                          [] i \in didNot -> "pending"
                                                          [] OTHER -> @[i]]]
<1>1. /\ DOMAIN m = DOMAIN l /\ m.state = l.state /\ m.holds = l.holds
      /\ m.proposal = l.proposal /\ m.successor = l.successor
      /\ m.tasks = [i \in DOMAIN l.tasks |-> Found(i)]
  BY LaneFields DEF Fine, TypedLane
<1>2. \A i \in DOMAIN l.tasks : l.tasks[i] \in Statuses => Found(i) \in Statuses
  BY DEF Statuses
<1>3. Reconcile(l, happened, didNot) \in {l, SettleRestart(m)} BY DEF Reconcile
<1> HIDE DEF m, Found
<1>4. \A S : l.tasks \in [S -> Statuses] => m.tasks \in [S -> Statuses] BY <1>1, <1>2
<1>5. Fine(m) BY <1>1, <1>4, LaneFields DEF Fine, TypedLane, TypedRecord, Rests
<1> QED BY <1>1, <1>3, <1>5, SettlingIsFine

-----------------------------------------------------------------------------
(* What a run was told and did not take yet.                               *)

\* The one before is not the last any more.
LEMMA AppendTold ==
    ASSUME NEW s, IsTold(s), NEW c \in Told
    PROVE  LET t == Append(s, c)
           IN  /\ t \in Seq(Told) /\ Len(t) = Len(s) + 1 /\ Len(s) \in Nat
               /\ t[Len(s) + 1] = c /\ \A i \in 1 .. Len(s) : t[i] = s[i]
               /\ IsTold(t)
<1> DEFINE t == Append(s, c)
<1>1. /\ t \in Seq(Told) /\ Len(t) = Len(s) + 1 /\ Len(s) \in Nat
      /\ t[Len(s) + 1] = c /\ \A i \in 1 .. Len(s) : t[i] = s[i]
  BY DEF IsTold
<1> HIDE DEF t
<1>2. CASE c \in Steer
  <2>1. LastSteer(t, Len(s) + 1) BY <1>1, <1>2 DEF LastSteer
  <2> QED BY <1>1, <2>1 DEF IsTold, t
<1>3. CASE c \notin Steer
  <2>1. NoSteer(s) => NoSteer(t) BY <1>1, <1>3 DEF NoSteer
  <2>2. ASSUME NEW i \in Nat, LastSteer(s, i) PROVE LastSteer(t, i)
    BY <1>1, <1>3, <2>2 DEF LastSteer
  <2> QED BY <1>1, <2>1, <2>2 DEF IsTold, t
<1> QED BY <1>2, <1>3, <1>1 DEF t

\* What is told last is what counts.
LEMMA SteerLeads ==
    ASSUME NEW s, IsTold(s), NEW c \in Steer, NEW hold
    PROVE  Leads(hold, Append(s, c), c = "hold")
<1> DEFINE t == Append(s, c)
<1>1. /\ t \in Seq(Told) /\ Len(t) = Len(s) + 1 /\ Len(s) \in Nat
      /\ t[Len(s) + 1] = c
  BY AppendTold DEF Steer, Told
<1> HIDE DEF t
<1>2. ~NoSteer(t) BY <1>1 DEF NoSteer
<1>3. ASSUME NEW i \in Nat, LastSteer(t, i) PROVE i = Len(s) + 1
  <2>1. i \in 1 .. Len(s) + 1 /\ Len(s) + 1 <= i BY <1>1, <1>3 DEF LastSteer
  <2> QED BY <1>1, <2>1
<1> QED BY <1>1, <1>2, <1>3 DEF Leads, t

\* What steers nothing changes nothing.
LEMMA OtherLeads ==
    ASSUME NEW s, IsTold(s), NEW c \in Told \ Steer, NEW hold, NEW g, Leads(hold, s, g)
    PROVE  Leads(hold, Append(s, c), g)
<1> DEFINE t == Append(s, c)
<1>1. /\ t \in Seq(Told) /\ Len(t) = Len(s) + 1 /\ Len(s) \in Nat
      /\ t[Len(s) + 1] = c /\ \A i \in 1 .. Len(s) : t[i] = s[i]
  BY AppendTold
<1> HIDE DEF t
<1>2. NoSteer(t) => NoSteer(s) BY <1>1 DEF NoSteer
<1>3. ASSUME NEW i \in Nat, LastSteer(t, i) PROVE LastSteer(s, i) /\ t[i] = s[i]
  <2>1. i \in 1 .. Len(s) + 1 /\ t[i] \in Steer BY <1>1, <1>3 DEF LastSteer
  <2>2. i \in 1 .. Len(s) BY <1>1, <2>1
  <2>3. \A j \in 1 .. Len(s) : s[j] \in Steer => j <= i BY <1>1, <1>3 DEF LastSteer
  <2> QED BY <1>1, <2>1, <2>2, <2>3 DEF LastSteer
<1> QED BY <1>2, <1>3 DEF Leads, t

\* The first one that is taken.
LEMMA TailTold ==
    ASSUME NEW s, IsTold(s), s # <<>>
    PROVE  LET t == Tail(s)
           IN  /\ Head(s) = s[1] /\ Head(s) \in Told
               /\ t \in Seq(Told) /\ Len(s) = Len(t) + 1 /\ Len(t) \in Nat
               /\ \A i \in 1 .. Len(t) : t[i] = s[i + 1]
               /\ IsTold(t)
<1> DEFINE t == Tail(s)
<1>1. /\ Head(s) = s[1] /\ Head(s) \in Told
      /\ t \in Seq(Told) /\ Len(s) = Len(t) + 1 /\ Len(t) \in Nat
      /\ \A i \in 1 .. Len(t) : t[i] = s[i + 1]
  BY DEF IsTold
<1> HIDE DEF t
<1>2. \A i \in 1 .. Len(t) : i + 1 \in 1 .. Len(s) BY <1>1
<1>3. NoSteer(s) => NoSteer(t) BY <1>1, <1>2 DEF NoSteer
<1>4. ASSUME NEW i \in Nat, LastSteer(s, i) PROVE NoSteer(t) \/ \E k \in Nat : LastSteer(t, k)
  <2>1. i \in 1 .. Len(t) + 1 /\ s[i] \in Steer BY <1>1, <1>4 DEF LastSteer
  <2>2. \A j \in 1 .. Len(t) : t[j] \in Steer => j + 1 <= i BY <1>1, <1>2, <1>4 DEF LastSteer
  <2>3. CASE i = 1
    <3>1. \A j \in 1 .. Len(t) : ~(j + 1 <= i) BY <2>3
    <3> QED BY <2>2, <3>1 DEF NoSteer
  <2>4. CASE i # 1
    <3>1. i - 1 \in 1 .. Len(t) /\ (i - 1) + 1 = i BY <1>1, <2>1, <2>4
    <3>2. t[i - 1] = s[i] BY <1>1, <3>1
    <3>3. \A j \in 1 .. Len(t) : t[j] \in Steer => j <= i - 1 BY <2>2, <3>1
    <3> QED BY <2>1, <3>1, <3>2, <3>3 DEF LastSteer
  <2> QED BY <2>3, <2>4
<1> QED BY <1>1, <1>3, <1>4 DEF IsTold, t

\* A run that takes the first goes on to the same end.
LEMMA TailLeads ==
    ASSUME NEW s, IsTold(s), s # <<>>, NEW hold, NEW g, Leads(hold, s, g), NEW next,
           Head(s) = "hold" => next, Head(s) = "resume" => ~next,
           Head(s) \notin Steer => (next <=> hold)
    PROVE  Leads(next, Tail(s), g)
<1> DEFINE t == Tail(s)
<1>1. /\ Head(s) = s[1] /\ Head(s) \in Told
      /\ t \in Seq(Told) /\ Len(s) = Len(t) + 1 /\ Len(t) \in Nat
      /\ \A i \in 1 .. Len(t) : t[i] = s[i + 1]
  BY TailTold
<1> HIDE DEF t
<1>2. ASSUME NoSteer(t) PROVE next <=> g
  <2>1. \A j \in 1 .. Len(s) : j # 1 => s[j] \notin Steer
    <3> SUFFICES ASSUME NEW j \in 1 .. Len(s), j # 1 PROVE s[j] \notin Steer OBVIOUS
    <3>1. j - 1 \in 1 .. Len(t) /\ (j - 1) + 1 = j BY <1>1
    <3>2. t[j - 1] = s[j] BY <1>1, <3>1
    <3> QED BY <1>2, <3>1, <3>2 DEF NoSteer
  <2>2. CASE Head(s) \in Steer
    <3>1. 1 \in 1 .. Len(s) BY <1>1
    <3>2. \A j \in 1 .. Len(s) : s[j] \in Steer => j <= 1 BY <2>1
    <3>3. LastSteer(s, 1) BY <1>1, <2>2, <3>1, <3>2 DEF LastSteer
    <3>4. s[1] = "hold" <=> g BY <3>3 DEF Leads
    <3> QED BY <1>1, <2>2, <3>4 DEF Steer
  <2>3. CASE Head(s) \notin Steer
    <3>1. NoSteer(s) BY <1>1, <2>1, <2>3 DEF NoSteer
    <3> QED BY <2>3, <3>1 DEF Leads
  <2> QED BY <2>2, <2>3
<1>3. ASSUME NEW i \in Nat, LastSteer(t, i) PROVE t[i] = "hold" <=> g
  <2>1. i \in 1 .. Len(t) /\ t[i] \in Steer /\ t[i] = s[i + 1] BY <1>1, <1>3 DEF LastSteer
  <2>2. i + 1 \in 1 .. Len(s) /\ i + 1 \in Nat BY <1>1, <2>1
  <2>3. ASSUME NEW j \in 1 .. Len(s), s[j] \in Steer PROVE j <= i + 1
    <3>1. CASE j = 1 BY <2>1, <3>1
    <3>2. CASE j # 1
      <4>1. j - 1 \in 1 .. Len(t) /\ (j - 1) + 1 = j BY <1>1, <3>2
      <4>2. t[j - 1] = s[j] BY <1>1, <4>1
      <4>3. j - 1 <= i BY <1>3, <2>3, <4>1, <4>2 DEF LastSteer
      <4> QED BY <2>1, <4>1, <4>3
    <3> QED BY <3>1, <3>2
  <2>4. LastSteer(s, i + 1) BY <2>1, <2>2, <2>3 DEF LastSteer
  <2> QED BY <2>1, <2>2, <2>4 DEF Leads
<1> QED BY <1>2, <1>3 DEF Leads, t

\* A run that takes them all at once holds as the last of them says.
LEMMA WithControlsHolds ==
    ASSUME NEW s, IsTold(s), NEW r, {"hold", "stopping"} \subseteq DOMAIN r
    PROVE  /\ NoSteer(s) => WithControls(r, s).hold = r.hold
           /\ \A i \in Nat : LastSteer(s, i) => WithControls(r, s).hold = (s[i] = "hold")
<1> DEFINE steering == {i \in DOMAIN s : s[i] \in {"hold", "resume"}}
           last == CHOOSE i \in steering : \A j \in steering : j <= i
<1>0. DOMAIN s = 1 .. Len(s) /\ Len(s) \in Nat BY DEF IsTold
<1>1. WithControls(r, s).hold = IF steering = {} THEN r.hold ELSE s[last] = "hold"
  BY DEF WithControls
<1>2. CASE NoSteer(s)
  <2>1. steering = {} BY <1>0, <1>2 DEF NoSteer, Steer
  <2> QED BY <1>0, <1>1, <1>2, <2>1 DEF NoSteer, LastSteer
<1>3. ASSUME NEW i \in Nat, LastSteer(s, i) PROVE WithControls(r, s).hold = (s[i] = "hold")
  <2>2. i \in steering /\ \A j \in steering : j <= i BY <1>0, <1>3 DEF LastSteer, Steer
  <2>3. last \in steering /\ \A j \in steering : j <= last BY <2>2
  <2>4. last \in Nat /\ last <= i /\ i <= last BY <1>0, <2>2, <2>3
  <2>5. last = i BY <2>4
  <2>7. steering # {} BY <2>2
  <2> HIDE DEF last, steering
  <2> QED BY <1>1, <2>5, <2>7
<1> QED BY <1>2, <1>3

\* So it comes to the same end.
LEMMA WithControlsLeads ==
    ASSUME NEW s, IsTold(s), NEW r, {"hold", "stopping"} \subseteq DOMAIN r, NEW g, Leads(r.hold, s, g)
    PROVE  Leads(WithControls(r, s).hold, <<>>, g)
<1>1. WithControls(r, s).hold <=> g BY WithControlsHolds DEF IsTold, Leads
<1> QED BY <1>1 DEF Leads, LastSteer

-----------------------------------------------------------------------------
(* The host.                                                               *)

\* A run that is steered after a step is where it was led before.
Follows ==
    Steerable' => Steerable /\ \A g : Leads(run.hold, controls, g) => Leads(run'.hold, controls', g)

\* An order is none or one.
LEMMA OrderIsOne ==
    ASSUME NEW o, TypedOrder(o)
    PROVE  o # NoOrder
BY OrderAssumption, Zenon DEF TypedOrder

\* What a run that hears it is told.
LEMMA TellTells ==
    ASSUME IsTold(controls), NEW c \in Told, Tell(c)
    PROVE  IsTold(controls)' /\ controls' = IF Hears THEN Append(controls, c) ELSE controls
<1>1. controls' = IF Hears THEN Append(controls, c) ELSE controls BY DEF Tell
<1>2. IsTold(Append(controls, c)) BY AppendTold
<1>3. IsTold(controls') BY <1>1, <1>2
<1> QED BY <1>1, <1>3 DEF IsTold, NoSteer, LastSteer

\* A new run holds just if its lane does.
LEMMA SpawnLeads ==
    ASSUME NEW order, NEW l, Spawn(order, l), lane' = l
    PROVE  /\ RunFields \subseteq DOMAIN run' /\ IsTold(controls)'
           /\ Leads(run.hold, controls, Holding(lane))'
<1>1. /\ RunFields \subseteq DOMAIN run' /\ run'.hold = FALSE
      /\ controls' = IF Holding(l) THEN <<"hold">> ELSE <<>>
  BY DEF Spawn, NewRunOf, RunFields
<1>2. IsTold(<<>>) BY DEF IsTold, NoSteer
<1>3. Append(<<>>, "hold") = <<"hold">> OBVIOUS
<1>4. IsTold(<<"hold">>) /\ Leads(FALSE, <<"hold">>, TRUE)
  BY <1>2, <1>3, AppendTold, SteerLeads DEF Told, Steer
<1>5. Leads(FALSE, <<>>, FALSE) BY DEF Leads, LastSteer
<1>6. IsTold(controls') BY <1>1, <1>2, <1>4
<1>7. Leads(run'.hold, controls', Holding(l))
  <2>1. CASE Holding(l)
    <3>1. controls' = <<"hold">> BY <1>1, <2>1
    <3> QED BY <1>1, <1>4, <2>1, <3>1 DEF Leads
  <2>2. CASE ~Holding(l)
    <3>1. controls' = <<>> BY <1>1, <2>2
    <3> QED BY <1>1, <1>5, <2>2, <3>1 DEF Leads
  <2> QED BY <2>1, <2>2
<1>8. Leads(run'.hold, controls', Holding(lane')) BY <1>7
<1> QED BY <1>1, <1>6, <1>8 DEF IsTold, NoSteer, LastSteer, Leads, Holding

\* An order that is given is kept somewhere, or its run begins as its lane is.
LEMMA StartRunSteers ==
    ASSUME SteerInv, NEW l, Fine(l), "restarted" \notin l.holds, lane' = l,
           NEW order, TypedOrder(order), NEW left, IsOrder(left), NEW waiting, IsOrder(waiting),
           StartRun(order, l, left, waiting)
    PROVE  SteerInv'
<1>1. order # NoOrder BY OrderIsOne
<1>2. Restful' /\ Fine(lane)' BY DEF Restful, Fine, TypedLane, TypedRecord, Rests
<1>3. (journal = NoRecord \/ TypedRecord(journal))'
  <2>1. journal' \in {journal, Record(l)} BY DEF StartRun, Write
  <2> QED BY <2>1, RecordIsTyped DEF SteerInv, TypedHost, TypedRecord
<1>4. CASE /\ unrecorded' = order /\ afterHandBack' = waiting
           /\ UNCHANGED <<run, controls, starting>>
  BY <1>1, <1>2, <1>3, <1>4 DEF SteerInv, TypedHost, Agreement, NoOrders, IsTold, NoSteer,
     LastSteer, IsOrder, TypedOrder
<1>5. CASE /\ Tell("hold")
           /\ unrecorded' = left /\ afterHandBack' = order
           /\ UNCHANGED <<run, starting>>
  <2>1. IsTold(controls)' BY <1>5, TellTells DEF SteerInv, TypedHost, Told
  <2> QED BY <1>1, <1>2, <1>3, <1>5, <2>1 DEF SteerInv, TypedHost, Agreement, NoOrders,
          IsOrder, TypedOrder
<1>6. CASE /\ Tell("abort") /\ starting' = order
           /\ unrecorded' = left /\ afterHandBack' = waiting
           /\ UNCHANGED run
  <2>1. IsTold(controls)' BY <1>6, TellTells DEF SteerInv, TypedHost, Told
  <2> QED BY <1>1, <1>2, <1>3, <1>6, <2>1 DEF SteerInv, TypedHost, Agreement, NoOrders,
          IsOrder, TypedOrder
<1>7. CASE /\ Spawn(order, l)
           /\ unrecorded' = left /\ afterHandBack' = waiting
           /\ UNCHANGED starting
  <2>1. /\ RunFields \subseteq DOMAIN run' /\ IsTold(controls)'
        /\ Leads(run.hold, controls, Holding(lane))'
    BY <1>7, SpawnLeads
  <2> QED BY <1>2, <1>3, <1>7, <2>1 DEF SteerInv, TypedHost, Agreement, IsOrder, TypedOrder,
          RunFields
<1> QED BY <1>4, <1>5, <1>6, <1>7 DEF StartRun

\* What a call tells its run brings it where the lane is.
LEMMA PerformSteers ==
    ASSUME SteerInv, NEW r, Steered(lane, r), lane' = r.lane, Perform(r.effect, r.lane)
    PROVE  SteerInv'
<1>1. Fine(r.lane) /\ Fine(lane)' BY DEF Steered, Fine, TypedLane, TypedRecord, Rests
<1>2. CASE r.effect.do = "start"
  <2>1. /\ TypedOrder(r.effect.order) /\ "restarted" \notin r.lane.holds
        /\ StartRun(r.effect.order, r.lane, unrecorded, afterHandBack)
    BY <1>2 DEF Steered, Steers, Perform
  <2>2. IsOrder(unrecorded) /\ IsOrder(afterHandBack) BY DEF SteerInv, TypedHost
  <2> QED BY <1>1, <2>1, <2>2, StartRunSteers
<1>3. CASE r.effect.do # "start"
  <2>1. /\ UNCHANGED <<run, starting, journal>>
        /\ unrecorded' \in {unrecorded, NoOrder} /\ afterHandBack' \in {afterHandBack, NoOrder}
        /\ r.effect.do # "abort" => UNCHANGED <<unrecorded, afterHandBack>>
    BY <1>3 DEF Perform, orders, Steered, Steers, Effects
  <2>2. r.effect.do \in {"hold", "answer", "abort"} => Tell(r.effect.do) BY DEF Perform
  <2>3. r.effect.do = "resume" /\ afterHandBack = NoOrder => Tell("resume") BY DEF Perform, Resumes
  <2>4. r.effect.do = "resume" /\ afterHandBack # NoOrder => UNCHANGED controls
    BY DEF Perform, Resumes
  <2>5. r.effect.do = "none" => UNCHANGED controls BY DEF Perform
  <2>6. r.effect.do \in {"none", "hold", "answer", "abort", "resume"}
    BY <1>3 DEF Steered, Steers, Effects
  <2>7. IsTold(controls) /\ IsTold(controls)'
    <3>1. IsTold(controls) BY DEF SteerInv, TypedHost
    <3>2. \A c \in Told : Tell(c) => IsTold(controls)' BY <3>1, TellTells
    <3>3. UNCHANGED controls => IsTold(controls)' BY <3>1 DEF IsTold, NoSteer, LastSteer
    <3> QED BY <2>2, <2>3, <2>4, <2>5, <2>6, <3>1, <3>2, <3>3 DEF Told
  <2>8. TypedHost' BY <2>1, <2>7 DEF SteerInv, TypedHost, IsOrder, TypedOrder, TypedRecord
  <2>9. Restful' BY <2>1 DEF SteerInv, Restful, NoOrders, Steered, Steers
  <2>10. Agreement'
    <3> SUFFICES ASSUME NoOrders', Steerable', Live(lane)'
                 PROVE  Leads(run.hold, controls, Holding(lane))'
      BY DEF Agreement
    <3>1. Live(r.lane) /\ r.effect.do # "abort" BY DEF Steered, Steers, Live
    <3>2. NoOrders BY <2>1, <3>1 DEF NoOrders
    <3>3. Hears /\ ~run.stopping BY <2>1 DEF Steerable, Hears
    <3>4. \A c \in Told : Tell(c) => controls' = Append(controls, c) BY <2>7, <3>3, TellTells
    <3>5. \A i \in 1 .. Len(controls) : controls[i] # "abort"
      <4>1. UNCHANGED controls => \A i \in 1 .. Len(controls) : controls[i] # "abort"
        BY DEF Steerable
      <4>2. ASSUME NEW c \in Told, Tell(c) PROVE \A i \in 1 .. Len(controls) : controls[i] # "abort"
        <5>1. controls' = Append(controls, c) BY <3>4, <4>2
        <5>2. /\ Len(controls') = Len(controls) + 1 /\ Len(controls) \in Nat
              /\ \A i \in 1 .. Len(controls) : controls'[i] = controls[i]
          BY <2>7, <5>1, AppendTold
        <5> QED BY <5>2 DEF Steerable
      <4> QED BY <2>2, <2>3, <2>4, <2>5, <2>6, <4>1, <4>2 DEF Told
    <3>6. Steerable BY <3>3, <3>5 DEF Steerable
    <3>7. Live(lane) => Leads(run.hold, controls, Holding(lane))
      BY <3>2, <3>6 DEF SteerInv, Agreement
    <3>8. Leads(run'.hold, controls', Holding(r.lane))
      <4>1. CASE r.effect.do \in {"none", "answer"}
        <5>1. Live(lane) /\ (Holding(r.lane) <=> Holding(lane))
          BY <3>1, <4>1 DEF Steered, Steers
        <5>2. Leads(run.hold, controls, Holding(r.lane)) BY <3>7, <5>1 DEF Leads
        <5>3. CASE r.effect.do = "none" BY <2>1, <2>5, <5>2, <5>3
        <5>4. CASE r.effect.do = "answer"
          <6>1. controls' = Append(controls, "answer") BY <2>2, <3>4, <5>4 DEF Told
          <6>2. "answer" \in Told \ Steer BY DEF Told, Steer
          <6>3. Leads(run.hold, Append(controls, "answer"), Holding(r.lane))
            BY <2>7, <5>2, <6>2, OtherLeads
          <6> QED BY <2>1, <6>1, <6>3
        <5> QED BY <4>1, <5>3, <5>4
      <4>2. CASE r.effect.do = "hold"
        <5>1. controls' = Append(controls, "hold") BY <2>2, <3>4, <4>2 DEF Told
        <5>2. Leads(run.hold, Append(controls, "hold"), TRUE) BY <2>7, SteerLeads DEF Steer
        <5>3. Holding(r.lane) BY <4>2 DEF Steered, Steers
        <5> QED BY <2>1, <5>1, <5>2, <5>3 DEF Leads
      <4>3. CASE r.effect.do = "resume"
        <5>1. controls' = Append(controls, "resume")
          BY <2>3, <3>2, <3>4, <4>3 DEF Told, NoOrders
        <5>2. Leads(run.hold, Append(controls, "resume"), FALSE) BY <2>7, SteerLeads DEF Steer
        <5>3. ~Holding(r.lane) BY <4>3 DEF Steered, Steers
        <5> QED BY <2>1, <5>1, <5>2, <5>3 DEF Leads
      <4> QED BY <2>6, <3>1, <4>1, <4>2, <4>3
    <3> QED BY <3>8 DEF Leads, NoSteer, LastSteer, Holding
  <2> QED BY <1>1, <2>8, <2>9, <2>10 DEF SteerInv
<1> QED BY <1>2, <1>3

\* Intents.
LEMMA IntentSteers ==
    ASSUME ApprovedInv, SteerInv, Intent
    PROVE  SteerInv'
<1> Fine(lane) /\ ApprovedLane(lane) /\ plans \in Nat BY DEF SteerInv, ApprovedInv
<1>1. ASSUME NEW r, Steered(lane, r), Take(r) PROVE SteerInv' BY <1>1, PerformSteers DEF Take
<1>2. ASSUME NEW kind \in Kinds \cup {"survey"} PROVE Plan(kind) \in AnyPlan
  BY LaneHostAssumption DEF Plan, AnyPlan
<1>3. ASSUME ProposeIntent PROVE SteerInv' BY <1>1, <1>2, <1>3, ProposeSteers DEF ProposeIntent
<1>4. ASSUME ApproveIntent PROVE SteerInv'
  BY <1>1, <1>4, ApproveSteers DEF ApproveIntent, Approvals
<1>5. ASSUME StartIntent PROVE SteerInv' BY <1>1, <1>5, StartSteers DEF StartIntent, CanStart
<1>6. ASSUME HoldIntent PROVE SteerInv' BY <1>1, <1>6, HoldSteers DEF HoldIntent
<1>7. ASSUME ResumeIntent PROVE SteerInv' BY <1>1, <1>7, ResumeSteers DEF ResumeIntent
<1>8. ASSUME AbortIntent PROVE SteerInv' BY <1>1, <1>8, AbortSteers DEF AbortIntent
<1>9. ASSUME ReviseIntent PROVE SteerInv' BY <1>1, <1>2, <1>9, ReviseSteers DEF ReviseIntent
<1>10. ASSUME AnswerIntent PROVE SteerInv' BY <1>1, <1>10, AnswerSteers DEF AnswerIntent
<1> QED BY <1>3, <1>4, <1>5, <1>6, <1>7, <1>8, <1>9, <1>10 DEF Intent

\* A run that goes on with what it was told is where it was.
LEMMA RunSteers ==
    ASSUME SteerInv, UNCHANGED <<lane, orders, journal>>, IsTold(controls)',
           run # NoRun, RunFields \subseteq DOMAIN run',
           Follows
    PROVE  SteerInv' /\ Follows
<1>1. Fine(lane)' BY DEF SteerInv, Fine, TypedLane, TypedRecord, Rests
<1>2. TypedHost' BY DEF SteerInv, TypedHost, orders, IsOrder, TypedOrder, TypedRecord
<1>3. Restful' BY DEF SteerInv, Restful, orders
<1>4. Agreement'
  <2> SUFFICES ASSUME NoOrders', Steerable', Live(lane)'
               PROVE  Leads(run.hold, controls, Holding(lane))'
    BY DEF Agreement
  <2>1. NoOrders /\ Live(lane) /\ lane' = lane BY DEF NoOrders, Live, orders
  <2>2. Leads(run.hold, controls, Holding(lane)) BY <2>1 DEF SteerInv, Agreement, Follows
  <2>3. Leads(run'.hold, controls', Holding(lane)) BY <2>2 DEF Follows
  <2> QED BY <2>1, <2>3 DEF Leads, NoSteer, LastSteer, Holding
<1> QED BY <1>1, <1>2, <1>3, <1>4 DEF SteerInv

\* A run that stays held or not, with nothing more told or taken.
LEMMA QuietSteers ==
    ASSUME SteerInv, UNCHANGED <<lane, orders, journal, controls>>,
           run # NoRun, RunFields \subseteq DOMAIN run',
           run'.hold = run.hold, run'.stopping = run.stopping, run'.gone = run.gone
    PROVE  SteerInv' /\ Follows
<1>1. IsTold(controls)' BY DEF SteerInv, TypedHost, IsTold, NoSteer, LastSteer
<1>2. Steerable' => Steerable BY DEF Steerable, Hears
<1>3. \A g : Leads(run.hold, controls, g) => Leads(run'.hold, controls', g) OBVIOUS
<1> QED BY <1>1, <1>2, <1>3, RunSteers DEF Follows

\* A run that stops, or is over, is not steered any more.
LEMMA StopSteers ==
    ASSUME SteerInv, UNCHANGED <<lane, orders, journal>>, IsTold(controls'),
           run # NoRun, RunFields \subseteq DOMAIN run', run'.stopping \/ run'.gone
    PROVE  SteerInv' /\ Follows
<1>1. ~Steerable' BY DEF Steerable, Hears
<1>2. IsTold(controls)' BY DEF IsTold, NoSteer, LastSteer
<1> QED BY <1>1, <1>2, RunSteers DEF Follows

\* A run that takes what it was told first.
LEMMA TakingSteers ==
    ASSUME SteerInv, UNCHANGED <<lane, orders, journal>>,
           controls # <<>>, controls' = Tail(controls), Head(controls) # "abort",
           run # NoRun, RunFields \subseteq DOMAIN run',
           run.stopping => run'.stopping, run'.gone = run.gone,
           Head(controls) = "hold" => run'.hold, Head(controls) = "resume" => ~run'.hold,
           Head(controls) \notin Steer => run'.hold = run.hold
    PROVE  SteerInv' /\ Follows
<1>1. IsTold(controls) BY DEF SteerInv, TypedHost
<1>2. /\ Head(controls) = controls[1]
      /\ Len(controls) = Len(controls') + 1 /\ Len(controls') \in Nat
      /\ \A i \in 1 .. Len(controls') : controls'[i] = controls[i + 1]
      /\ IsTold(controls')
  BY <1>1, TailTold
<1>3. ASSUME Steerable' PROVE Steerable
  <2>1. Hears /\ ~run.stopping BY <1>3 DEF Steerable, Hears
  <2>2. ASSUME NEW i \in 1 .. Len(controls) PROVE controls[i] # "abort"
    <3>1. CASE i = 1 BY <1>2, <3>1
    <3>2. CASE i # 1
      <4>1. i - 1 \in 1 .. Len(controls') /\ (i - 1) + 1 = i BY <1>2, <3>2
      <4>2. controls'[i - 1] = controls[i] BY <1>2, <4>1
      <4> QED BY <1>3, <4>1, <4>2 DEF Steerable
    <3> QED BY <3>1, <3>2
  <2> QED BY <2>1, <2>2 DEF Steerable
<1>4. ASSUME NEW g, Leads(run.hold, controls, g) PROVE Leads(run'.hold, controls', g)
  <2>1. Head(controls) \notin Steer => (run'.hold <=> run.hold) OBVIOUS
  <2>2. Leads(run'.hold, Tail(controls), g) BY <1>1, <1>4, <2>1, TailLeads
  <2> QED BY <2>2
<1>5. IsTold(controls)' BY <1>2 DEF IsTold, NoSteer, LastSteer
<1> QED BY <1>3, <1>4, <1>5, RunSteers DEF Follows

\* Flights.
LEMMA FlightSteers ==
    ASSUME SteerInv, FlightStep \/ People
    PROVE  SteerInv' /\ Follows
<1> USE DEF RunOnly, Goes, Suffers
<1>1. ASSUME Flight PROVE run # NoRun /\ RunFields \subseteq DOMAIN run
  BY <1>1 DEF SteerInv, TypedHost, Flight, Hears
<1>2. IsTold(controls) /\ IsTold(<<>>) BY DEF SteerInv, TypedHost, IsTold, NoSteer
<1>3. CASE FlightControl
  <2> DEFINE held == [run EXCEPT !.hold = TRUE, !.paused = TRUE]
             freed == [run EXCEPT !.hold = FALSE, !.paused = FALSE]
             stopped == [run EXCEPT !.hold = TRUE, !.paused = TRUE, !.stopping = TRUE]
  <2>1. /\ run # NoRun /\ RunFields \subseteq DOMAIN run
        /\ controls # <<>> /\ controls' = Tail(controls)
        /\ UNCHANGED <<lane, orders, journal>>
    BY <1>1, <1>3 DEF FlightControl
  <2>2. IsTold(controls') BY <1>2, <2>1, TailTold
  <2>3. run' = CASE Head(controls) = "hold" -> held
                 [] Head(controls) = "resume" -> IF run.stopping THEN run ELSE freed
                 [] Head(controls) = "abort" -> stopped
                 [] OTHER -> run
    BY <1>3 DEF FlightControl
  <2>4. /\ RunFields \subseteq DOMAIN held /\ held.hold = TRUE
        /\ held.stopping = run.stopping /\ held.gone = run.gone
        /\ RunFields \subseteq DOMAIN freed /\ freed.hold = FALSE
        /\ freed.stopping = run.stopping /\ freed.gone = run.gone
        /\ RunFields \subseteq DOMAIN stopped /\ stopped.stopping = TRUE
    BY <2>1 DEF RunFields
  <2> HIDE DEF held, freed, stopped
  <2>5. CASE Head(controls) = "hold"
    <3>1. run' = held BY <2>3, <2>5
    <3> QED BY <2>1, <2>4, <2>5, <3>1, TakingSteers DEF Steer
  <2>6. CASE Head(controls) = "resume"
    <3>1. run' = IF run.stopping THEN run ELSE freed BY <2>3, <2>6
    <3>2. CASE run.stopping BY <2>1, <2>2, <3>1, <3>2, StopSteers
    <3>3. CASE ~run.stopping BY <2>1, <2>4, <2>6, <3>1, <3>3, TakingSteers DEF Steer
    <3> QED BY <3>2, <3>3
  <2>7. CASE Head(controls) = "abort"
    <3>1. run' = stopped BY <2>3, <2>7
    <3> QED BY <2>1, <2>2, <2>4, <3>1, StopSteers
  <2>8. CASE Head(controls) \notin {"hold", "resume", "abort"}
    <3>1. run' = run BY <2>3, <2>8
    <3> QED BY <2>1, <2>8, <3>1, TakingSteers DEF Steer
  <2> QED BY <2>5, <2>6, <2>7, <2>8
<1>4. CASE LeaseAnswered
  <2>1. PICK answer : run' = [run EXCEPT !.lease = answer, !.paused = @ \/ answer = "denied"]
    BY <1>4 DEF LeaseAnswered
  <2> QED BY <1>1, <1>4, <2>1, QuietSteers DEF LeaseAnswered, RunFields
<1>5. CASE LeaseHandedOver BY <1>1, <1>5, QuietSteers DEF LeaseHandedOver, RunFields
<1>6. CASE ControlIsLost BY <1>1, <1>6, QuietSteers DEF ControlIsLost, RunFields
<1>7. CASE ControlIsFreed BY <1>1, <1>7, QuietSteers DEF ControlIsFreed, RunFields
<1>8. CASE TaskStarted BY <1>1, <1>8, QuietSteers DEF TaskStarted, Ticks, RunFields
<1>9. CASE TaskFinished BY <1>1, <1>9, QuietSteers DEF TaskFinished, Ticks, RunFields
<1>10. CASE LeftFlight BY <1>1, <1>2, <1>10, StopSteers DEF LeftFlight, RunFields
<1>11. CASE Fence BY <1>1, <1>11, QuietSteers DEF Fence, RunFields
<1>12. CASE FlightExits BY <1>1, <1>2, <1>12, StopSteers DEF FlightExits, RunFields
<1>13. CASE Released BY <1>1, <1>2, <1>13, StopSteers DEF Released, RunFields
<1> QED
  BY <1>3, <1>4, <1>5, <1>6, <1>7, <1>8, <1>9, <1>10, <1>11, <1>12, <1>13
     DEF FlightStep, People

\* Runs of operations.
LEMMA OperationSteers ==
    ASSUME SteerInv, OperationStep
    PROVE  SteerInv' /\ Follows
<1> USE DEF RunOnly, Goes
<1>1. ASSUME Operating PROVE run # NoRun /\ RunFields \subseteq DOMAIN run
  BY <1>1 DEF SteerInv, TypedHost, Operating, Hears
<1>2. IsTold(controls) /\ IsTold(<<>>) BY DEF SteerInv, TypedHost, IsTold, NoSteer
<1>3. ASSUME NEW r, RunFields \subseteq DOMAIN r
      PROVE  /\ RunFields \subseteq DOMAIN Over(r) /\ Over(r).gone = TRUE
             /\ RunFields \subseteq DOMAIN Done(r) /\ Done(r).gone = r.gone
             /\ Done(r).hold = r.hold /\ Done(r).stopping = r.stopping
  BY <1>3 DEF Over, Done, RunFields
<1>4. ASSUME NEW r, RunFields \subseteq DOMAIN r, NEW s
      PROVE  /\ RunFields \subseteq DOMAIN WithControls(r, s)
             /\ WithControls(r, s).gone = r.gone
             /\ WithControls(r, s).stopping = (r.stopping \/ \E i \in DOMAIN s : s[i] = "abort")
  BY <1>4 DEF WithControls, RunFields
<1>0. ASSUME NEW r, RunFields \subseteq DOMAIN r, run' = Over(r), run # NoRun,
             UNCHANGED <<lane, orders, journal>>, IsTold(controls')
      PROVE  SteerInv' /\ Follows
  <2>1. RunFields \subseteq DOMAIN run' /\ run'.gone = TRUE BY <1>0, <1>3
  <2> QED BY <1>0, <2>1, StopSteers
<1>5. CASE OperationControl
  <2> DEFINE cut == [run EXCEPT !.cancelled = @ \cup ({run.active} \ {0}), !.active = 0]
             refused == [Done(run) EXCEPT !.ended = TRUE]
             steered == WithControls(run, <<Head(controls)>>)
  <2>1. /\ run # NoRun /\ RunFields \subseteq DOMAIN run
        /\ controls # <<>> /\ controls' = Tail(controls)
        /\ UNCHANGED <<lane, orders, journal>>
    BY <1>1, <1>5 DEF OperationControl, Between, At
  <2>2. IsTold(controls') /\ Head(controls) \in Told BY <1>2, <2>1, TailTold
  <2>3. RunFields \subseteq DOMAIN cut /\ RunFields \subseteq DOMAIN refused
    BY <1>3, <2>1 DEF RunFields
  <2>4. /\ Head(controls) = "abort" => run' = Over(cut)
        /\ Head(controls) = "answer" => run' \in {Done(run), Over(refused), steered}
        /\ Head(controls) \in Steer => run' = steered
    BY <1>5 DEF OperationControl, Steer
  <2>5. RunFields \subseteq DOMAIN steered /\ steered.gone = run.gone BY <1>4, <2>1
  <2>6. /\ Head(controls) \in Steer => steered.hold = (Head(controls) = "hold")
        /\ Head(controls) \notin Steer => steered.hold = run.hold
        /\ Head(controls) # "abort" => steered.stopping = (run.stopping \/ FALSE)
    <3> DEFINE s == <<Head(controls)>>
               steering == {i \in DOMAIN s : s[i] \in {"hold", "resume"}}
               last == CHOOSE i \in steering : \A j \in steering : j <= i
    <3>1. DOMAIN s = {1} /\ s[1] = Head(controls) OBVIOUS
    <3>2. steered.hold = IF steering = {} THEN run.hold ELSE s[last] = "hold"
      BY <2>1 DEF WithControls, RunFields
    <3>3. CASE Head(controls) \in Steer
      <4>1. steering = {1} BY <3>1, <3>3 DEF Steer
      <4> HIDE DEF steering
      <4>2. last = 1 BY <4>1
      <4> HIDE DEF last
      <4>3. steered.hold = (Head(controls) = "hold") BY <3>1, <3>2, <4>1, <4>2
      <4>4. (\E i \in DOMAIN s : s[i] = "abort") = FALSE BY <3>1, <3>3 DEF Steer
      <4>5. steered.stopping = (run.stopping \/ FALSE) BY <1>4, <2>1, <4>4
      <4> QED BY <3>3, <4>3, <4>5
    <3>4. CASE Head(controls) \notin Steer
      <4>1. steering = {} BY <3>1, <3>4 DEF Steer
      <4>2. steered.hold = run.hold BY <3>2, <4>1
      <4>3. Head(controls) # "abort" => (\E i \in DOMAIN s : s[i] = "abort") = FALSE BY <3>1
      <4>4. Head(controls) # "abort" => steered.stopping = (run.stopping \/ FALSE)
        BY <1>4, <2>1, <4>3
      <4> QED BY <3>4, <4>2, <4>4
    <3> QED BY <3>3, <3>4
  <2> HIDE DEF cut, refused, steered
  <2>7. CASE run' = steered /\ Head(controls) # "abort"
    <3>1. CASE run.stopping BY <2>1, <2>2, <2>5, <2>6, <2>7, <3>1, StopSteers
    <3>2. CASE ~run.stopping
      <4>1. Head(controls) = "hold" => run'.hold BY <2>6, <2>7 DEF Steer
      <4>2. Head(controls) = "resume" => ~run'.hold BY <2>6, <2>7 DEF Steer
      <4>3. Head(controls) \notin Steer => run'.hold = run.hold BY <2>6, <2>7
      <4> QED BY <2>1, <2>5, <2>7, <3>2, <4>1, <4>2, <4>3, TakingSteers
    <3> QED BY <3>1, <3>2
  <2>8. CASE run' = Done(run) /\ Head(controls) = "answer"
    <3>1. /\ RunFields \subseteq DOMAIN Done(run) /\ Done(run).gone = run.gone
          /\ Done(run).hold = run.hold /\ Done(run).stopping = run.stopping
      BY <1>3, <2>1
    <3> QED BY <2>1, <2>8, <3>1, TakingSteers DEF Steer
  <2>9. CASE run' = Over(cut) \/ run' = Over(refused)
    <3>1. UNCHANGED <<lane, orders, journal>> /\ run # NoRun BY <2>1
    <3>2. CASE run' = Over(cut) BY <1>0, <2>2, <2>3, <3>1, <3>2
    <3>3. CASE run' = Over(refused) BY <1>0, <2>2, <2>3, <3>1, <3>3
    <3> QED BY <2>9, <3>2, <3>3
  <2> QED BY <2>2, <2>4, <2>7, <2>8, <2>9 DEF Told, Steer
<1>6. CASE OperationBegins BY <1>1, <1>6, QuietSteers DEF OperationBegins, Between, RunFields
<1>7. CASE ReadEnds
  <2>1. run # NoRun /\ RunFields \subseteq DOMAIN run BY <1>1, <1>7 DEF ReadEnds, At
  <2>2. run' = Done(run) /\ UNCHANGED <<lane, orders, journal, controls>> BY <1>7 DEF ReadEnds
  <2> QED BY <1>3, <2>1, <2>2, QuietSteers
<1>8. CASE ReportStands
  <2>1. run # NoRun /\ RunFields \subseteq DOMAIN run BY <1>1, <1>8 DEF ReportStands, At
  <2>2. UNCHANGED <<lane, orders, journal, controls, run>> BY <1>8 DEF ReportStands
  <2> QED BY <2>1, <2>2, QuietSteers
<1>9. CASE WriteEnds
  <2> DEFINE stopped == [run EXCEPT !.failed = @ \cup {run.active}, !.ended = TRUE]
             steered == WithControls(Done(run), controls)
  <2>1. run # NoRun /\ RunFields \subseteq DOMAIN run BY <1>1, <1>9 DEF WriteEnds, At
  <2>2. RunFields \subseteq DOMAIN stopped BY <2>1
  <2>3. UNCHANGED <<lane, orders, journal>> BY <1>9 DEF WriteEnds
  <2>4. \/ run' = steered /\ controls' = <<>>
        \/ run' = Over(stopped) /\ controls' = controls
    BY <1>9 DEF WriteEnds
  <2> HIDE DEF stopped
  <2>5. CASE run' = Over(stopped) /\ controls' = controls
    <3>1. IsTold(controls') BY <1>2, <2>5
    <3> QED BY <1>0, <2>1, <2>2, <2>3, <2>5, <3>1
  <2>6. CASE run' = steered /\ controls' = <<>>
    <3>1. /\ RunFields \subseteq DOMAIN Done(run) /\ Done(run).gone = run.gone
          /\ Done(run).hold = run.hold /\ Done(run).stopping = run.stopping
      BY <1>3, <2>1
    <3>2. /\ RunFields \subseteq DOMAIN steered /\ steered.gone = run.gone
          /\ steered.stopping = (run.stopping \/ \E i \in DOMAIN controls : controls[i] = "abort")
      BY <1>4, <3>1
    <3>3. ASSUME NEW g, Leads(run.hold, controls, g) PROVE Leads(steered.hold, <<>>, g)
      <4>1. {"hold", "stopping"} \subseteq DOMAIN Done(run) BY <3>1 DEF RunFields
      <4>2. Leads(Done(run).hold, controls, g) BY <3>1, <3>3
      <4> QED BY <1>2, <4>1, <4>2, WithControlsLeads
    <3> HIDE DEF steered
    <3>4. DOMAIN controls = 1 .. Len(controls) BY <1>2 DEF IsTold
    <3>5. ASSUME Steerable' PROVE Steerable
      <4>1. ~steered.stopping /\ ~steered.gone BY <2>6, <3>5 DEF Steerable, Hears
      <4>2. ~run.stopping /\ ~\E i \in DOMAIN controls : controls[i] = "abort" BY <3>2, <4>1
      <4> QED BY <2>1, <3>2, <3>4, <4>1, <4>2 DEF Steerable, Hears
    <3>6. IsTold(controls)' BY <1>2, <2>6 DEF IsTold, NoSteer, LastSteer
    <3>7. \A g : Leads(run.hold, controls, g) => Leads(run'.hold, controls', g) BY <2>6, <3>3
    <3>8. RunFields \subseteq DOMAIN run' BY <2>6, <3>2
    <3> QED BY <2>1, <2>3, <3>5, <3>6, <3>7, <3>8, RunSteers DEF Follows
  <2> QED BY <2>4, <2>5, <2>6
<1>10. CASE OperationsEnd
  <2> DEFINE whole == [run EXCEPT !.complete = TRUE]
  <2>1. run # NoRun /\ RunFields \subseteq DOMAIN run BY <1>1, <1>10 DEF OperationsEnd, Between
  <2>2. RunFields \subseteq DOMAIN whole BY <2>1
  <2>3. UNCHANGED <<lane, orders, journal, controls>> /\ run' \in {Over(run), Over(whole)}
    BY <1>10 DEF OperationsEnd
  <2> HIDE DEF whole
  <2>4. IsTold(controls') BY <1>2, <2>3
  <2>5. CASE run' = Over(run) BY <1>0, <2>1, <2>3, <2>4, <2>5
  <2>6. CASE run' = Over(whole) BY <1>0, <2>1, <2>2, <2>3, <2>4, <2>6
  <2> QED BY <2>3, <2>5, <2>6
<1> QED BY <1>5, <1>6, <1>7, <1>8, <1>9, <1>10 DEF OperationStep

\* Nothing the invariant reads.
LEMMA SameSteers ==
    ASSUME SteerInv, UNCHANGED <<lane, run, controls, orders>>, journal' \in {journal, Record(lane)}
    PROVE  SteerInv'
<1>1. Fine(lane)' BY DEF SteerInv, Fine, TypedLane, TypedRecord, Rests
<1>2. (journal = NoRecord \/ TypedRecord(journal))'
  BY RecordIsTyped DEF SteerInv, TypedHost, TypedRecord
<1>3. IsTold(controls)' BY DEF SteerInv, TypedHost, IsTold, NoSteer, LastSteer
<1>4. TypedHost' BY <1>2, <1>3 DEF SteerInv, TypedHost, orders, IsOrder, TypedOrder
<1>5. Restful' BY DEF SteerInv, Restful, NoOrders, orders
<1>6. Agreement'
  BY DEF SteerInv, Agreement, NoOrders, orders, Steerable, Hears, Live, Leads, NoSteer,
     LastSteer, Holding
<1> QED BY <1>1, <1>4, <1>5, <1>6 DEF SteerInv

\* A run begins, in the place of the order it was.
LEMMA SpawnSteers ==
    ASSUME SteerInv, NEW order, Spawn(order, lane), "restarted" \notin lane.holds,
           lane' = lane, journal' \in {journal, Record(lane)},
           unrecorded' \in {unrecorded, NoOrder}, afterHandBack' \in {afterHandBack, NoOrder},
           starting' \in {starting, NoOrder}
    PROVE  SteerInv'
<1>1. Fine(lane)' BY DEF SteerInv, Fine, TypedLane, TypedRecord, Rests
<1>2. (journal = NoRecord \/ TypedRecord(journal))'
  BY RecordIsTyped DEF SteerInv, TypedHost, TypedRecord
<1>3. /\ RunFields \subseteq DOMAIN run' /\ IsTold(controls)'
      /\ Leads(run.hold, controls, Holding(lane))'
  BY SpawnLeads
<1>4. TypedHost' BY <1>2, <1>3 DEF SteerInv, TypedHost, IsOrder, TypedOrder, RunFields
<1>5. Restful' BY DEF Restful
<1> QED BY <1>1, <1>3, <1>4, <1>5 DEF SteerInv, Agreement

\* Nobody is there to be steered.
LEMMA NobodySteers ==
    ASSUME SteerInv, NEW l, Fine(l), lane' = l, "restarted" \in l.holds => "restarted" \in lane.holds,
           journal' = NoRecord \/ TypedRecord(journal'), run' = NoRun, controls' = <<>>,
           IsOrder(unrecorded'), IsOrder(afterHandBack'), IsOrder(starting'),
           "restarted" \in lane.holds => NoOrders'
    PROVE  SteerInv'
<1>1. Fine(lane)' BY DEF Fine, TypedLane, TypedRecord, Rests
<1>2. IsTold(controls)' BY DEF IsTold, NoSteer
<1>3. TypedHost' BY <1>2 DEF TypedHost, IsOrder, TypedOrder, TypedRecord
<1>4. Restful' BY DEF Restful
<1>5. Agreement' BY DEF Agreement, Steerable, Hears
<1> QED BY <1>1, <1>3, <1>4, <1>5 DEF SteerInv

\* The clock.
LEMMA ClockSteers ==
    ASSUME ApprovedInv, SteerInv, Clock
    PROVE  SteerInv'
<1> DEFINE reply == OnClock(lane, Plan("home"), now)
<1>1. Plan("home") \in AnyPlan BY DEF ApprovedInv, Plan, AnyPlan
<1>2. Steered(lane, reply) BY <1>1, OnClockSteers DEF SteerInv, Clock
<1>3. lane' = reply.lane /\ Perform(reply.effect, reply.lane) BY DEF Clock
<1> HIDE DEF reply
<1> QED BY <1>2, <1>3, PerformSteers

\* The run that lost control is over.
LEMMA ReplacedRunEndedSteers ==
    ASSUME ApprovedInv, SteerInv, run # NoRun, afterHandBack # NoOrder, ReplacedRunEnded
    PROVE  SteerInv'
<1>1. "restarted" \notin lane.holds BY DEF SteerInv, Restful
<1>2. afterHandBack' = NoOrder BY DEF ReplacedRunEnded
<1>3. /\ IsOrder(unrecorded) /\ IsOrder(afterHandBack) /\ IsOrder(starting)
      /\ IsOrder(NoOrder) /\ Fine(lane) /\ (journal = NoRecord \/ TypedRecord(journal))
  BY DEF SteerInv, TypedHost, IsOrder
<1>4. CASE afterHandBack.recovery
  <2>1. /\ lane' = lane /\ starting' = starting
        /\ \/ Write(lane, TRUE) /\ Spawn(afterHandBack, lane) /\ UNCHANGED unrecorded
           \/ /\ Write(lane, FALSE) /\ run' = NoRun /\ controls' = <<>>
              /\ unrecorded' = afterHandBack
    BY <1>4 DEF ReplacedRunEnded
  <2>2. CASE Write(lane, TRUE) /\ Spawn(afterHandBack, lane) /\ UNCHANGED unrecorded
    <3>1. journal' = Record(lane) BY <2>2 DEF Write
    <3> QED BY <1>1, <1>2, <2>1, <2>2, <3>1, SpawnSteers
  <2>3. CASE /\ Write(lane, FALSE) /\ run' = NoRun /\ controls' = <<>>
             /\ unrecorded' = afterHandBack
    <3>1. journal' = journal BY <2>3 DEF Write
    <3> QED BY <1>1, <1>2, <1>3, <2>1, <2>3, <3>1, NobodySteers
  <2> QED BY <2>1, <2>2, <2>3
<1>5. CASE ~afterHandBack.recovery
  <2> DEFINE progress == [Progress(seen, TRUE, FALSE) EXCEPT
                            !.plan = NoPlan, !.complete = FALSE, !.execution = "other"]
             reply == OnProgress(lane, progress, NoPlan, now)
  <2>1. /\ lane' = reply.lane /\ run' = NoRun /\ controls' = <<>>
        /\ UNCHANGED <<unrecorded, starting, journal>>
    BY <1>5 DEF ReplacedRunEnded
  <2>2. progress.execution = "other" BY DEF Progress
  <2> HIDE DEF progress
  <2>3. Steered(lane, reply) BY <1>1, <1>3, <2>2, OnProgressSteers DEF ApprovedInv
  <2> HIDE DEF reply
  <2>4. Fine(reply.lane) /\ "restarted" \notin reply.lane.holds
    BY <1>1, <2>3 DEF Steered, Steers
  <2> QED BY <1>1, <1>2, <1>3, <2>1, <2>4, NobodySteers
<1> QED BY <1>4, <1>5

\* The run that lost control is there yet.
LEMMA ReplacedRunWaitsSteers ==
    ASSUME ApprovedInv, SteerInv, run # NoRun, afterHandBack # NoOrder, ReplacedRunWaits
    PROVE  SteerInv'
<1> DEFINE reply == OnExecution(lane, seen.execution, Plan("home"), now)
           order == IF reply.effect.do = "start" THEN reply.effect.order ELSE afterHandBack
<1>1. "restarted" \notin lane.holds BY DEF SteerInv, Restful
<1>2. Steered(lane, reply)
  <2>1. Plan("home") \in AnyPlan BY DEF ApprovedInv, Plan, AnyPlan
  <2> QED BY <2>1, OnExecutionSteers DEF SteerInv
<1>3. /\ lane' = reply.lane
      /\ \/ StartRun(order, reply.lane, unrecorded, NoOrder)
         \/ UNCHANGED <<run, controls, orders, journal>>
  BY DEF ReplacedRunWaits
<1> HIDE DEF reply
<1>4. Fine(reply.lane) /\ "restarted" \notin reply.lane.holds BY <1>1, <1>2 DEF Steered, Steers
<1>5. CASE StartRun(order, reply.lane, unrecorded, NoOrder)
  <2>1. TypedOrder(order) BY <1>2 DEF Steered, Steers, SteerInv, TypedHost, IsOrder
  <2>2. IsOrder(unrecorded) /\ IsOrder(NoOrder) BY DEF SteerInv, TypedHost, IsOrder
  <2> HIDE DEF order
  <2> QED BY <1>3, <1>4, <1>5, <2>1, <2>2, StartRunSteers
<1>6. CASE UNCHANGED <<run, controls, orders, journal>>
  <2>1. Fine(lane)' BY <1>3, <1>4 DEF Fine, TypedLane, TypedRecord, Rests
  <2>2. TypedHost'
    BY <1>6 DEF SteerInv, TypedHost, orders, IsOrder, TypedOrder, TypedRecord, IsTold,
       NoSteer, LastSteer
  <2>3. ~NoOrders' BY <1>6 DEF NoOrders, orders
  <2>4. Restful' BY <1>3, <1>4 DEF Restful
  <2> QED BY <2>1, <2>2, <2>3, <2>4 DEF SteerInv, Agreement
<1> QED BY <1>3, <1>5, <1>6

\* The run of the lane.
LEMMA OwnRunProgressSteers ==
    ASSUME ApprovedInv, SteerInv, run # NoRun, OwnRunProgress
    PROVE  SteerInv'
<1>1. PICK still \in {FALSE} \cup (IF lane.state = "holdRequested" THEN {seen.hold} ELSE {}) :
        LET reply == OnProgress(lane, Progress(seen, run.gone, still), Plan("home"), now)
        IN  /\ lane' = reply.lane
            /\ IF reply.effect.do # "none" THEN Perform(reply.effect, reply.lane)
                                           ELSE Watched(reply.lane)
  BY DEF OwnRunProgress
<1> DEFINE reply == OnProgress(lane, Progress(seen, run.gone, still), Plan("home"), now)
<1>2. "restarted" \notin lane.holds BY DEF SteerInv, Restful
<1>3. Steered(lane, reply)
  <2>1. Plan("home") \in AnyPlan BY DEF ApprovedInv, Plan, AnyPlan
  <2> QED BY <1>2, <2>1, OnProgressSteers DEF SteerInv, ApprovedInv
<1>4. /\ lane' = reply.lane
      /\ Perform(reply.effect, reply.lane) \/ (reply.effect.do = "none" /\ Watched(reply.lane))
  BY <1>1
<1> HIDE DEF reply
<1>5. CASE Perform(reply.effect, reply.lane) BY <1>3, <1>4, <1>5, PerformSteers
<1>6. CASE reply.effect.do = "none" /\ Watched(reply.lane)
  <2>1. Fine(reply.lane) /\ "restarted" \notin reply.lane.holds
    BY <1>2, <1>3 DEF Steered, Steers
  <2>2. UNCHANGED <<orders, journal, troubles>> BY <1>6 DEF Watched
  <2>3. CASE UNCHANGED <<run, controls>>
    <3>1. Perform(reply.effect, reply.lane) BY <1>6, <2>2, <2>3 DEF Perform
    <3> QED BY <1>5, <3>1
  <2>4. CASE run' = NoRun /\ controls' = <<>>
    BY <1>2, <1>4, <2>1, <2>2, <2>4, NobodySteers DEF SteerInv, TypedHost, orders
  <2>5. CASE ~IsFlying(reply.lane) /\ run' = [run EXCEPT !.told = TRUE]
             /\ controls' = Append(controls, "abort")
    <3>1. Fine(lane)' BY <1>4, <2>1 DEF Fine, TypedLane, TypedRecord, Rests
    <3>2. IsTold(controls') BY <2>5, AppendTold DEF SteerInv, TypedHost, Told
    <3>3. TypedHost'
      BY <2>2, <2>5, <3>2 DEF SteerInv, TypedHost, orders, IsOrder, TypedOrder, TypedRecord,
         IsTold, NoSteer, LastSteer, RunFields
    <3>4. Restful' BY <1>4, <2>1 DEF Restful
    <3>5. ~Live(lane)' BY <1>4, <2>5 DEF IsFlying, Live
    <3> QED BY <3>1, <3>3, <3>4, <3>5 DEF SteerInv, Agreement
  <2> QED BY <1>6, <2>3, <2>4, <2>5 DEF Watched
<1> QED BY <1>4, <1>5, <1>6

\* The lane's own task.
LEMMA HostSteers ==
    ASSUME ApprovedInv, SteerInv, HostStep
    PROVE  SteerInv'
<1>1. CASE Clock BY <1>1, ClockSteers
<1>2. CASE ReadStatus BY <1>2, SameSteers DEF ReadStatus
<1>3. CASE ProgressTick
  <2>1. CASE run = NoRun
    <3>1. UNCHANGED <<lane, run, controls, orders, journal>> BY <1>3, <2>1 DEF ProgressTick
    <3> QED BY <3>1, SameSteers
  <2>2. CASE run # NoRun /\ afterHandBack # NoOrder
    BY <1>3, <2>2, ReplacedRunEndedSteers, ReplacedRunWaitsSteers DEF ProgressTick
  <2>3. CASE run # NoRun /\ afterHandBack = NoOrder
    BY <1>3, <2>3, OwnRunProgressSteers DEF ProgressTick
  <2> QED BY <2>1, <2>2, <2>3
<1>4. CASE RecordTurn
  <2>1. lane' = lane BY <1>4 DEF RecordTurn
  <2>2. CASE unrecorded # NoOrder /\ StartRun(unrecorded, lane, NoOrder, afterHandBack)
    <3>1. "restarted" \notin lane.holds BY <2>2 DEF SteerInv, Restful, NoOrders
    <3>2. TypedOrder(unrecorded) /\ IsOrder(NoOrder) /\ IsOrder(afterHandBack) /\ Fine(lane)
      BY <2>2 DEF SteerInv, TypedHost, IsOrder
    <3> QED BY <2>1, <2>2, <3>1, <3>2, StartRunSteers
  <2>3. CASE (\E kept \in BOOLEAN : Write(lane, kept)) /\ UNCHANGED <<run, controls, orders>>
    BY <2>1, <2>3, SameSteers DEF Write
  <2> QED BY <1>4, <2>2, <2>3 DEF RecordTurn
<1>5. CASE Replaced
  <2>1. "restarted" \notin lane.holds BY <1>5 DEF Replaced, SteerInv, Restful, NoOrders
  <2> QED BY <1>5, <2>1, SpawnSteers DEF Replaced
<1> QED BY <1>1, <1>2, <1>3, <1>4, <1>5 DEF HostStep

\* A restart.
LEMMA CrashSteers ==
    ASSUME SteerInv, Crash
    PROVE  SteerInv'
<1> DEFINE restored == IF journal = NoRecord THEN NewLane ELSE Restore(journal)
<1>1. Fine(restored) /\ restored.successor = NoSuccessor
  <2>1. CASE journal = NoRecord
    <3>1. <<>> \in [{} -> Statuses] OBVIOUS
    <3> QED BY <2>1, <3>1 DEF NewLane, Fine, TypedLane, TypedRecord, Rests, States, Flying
  <2>2. CASE journal # NoRecord BY <2>2, RestoredIsFine DEF SteerInv, TypedHost
  <2> QED BY <2>1, <2>2
<1>2. PICK happened, didNot :
        LET found == Reconcile(restored, happened, didNot)
        IN  lane' = found /\ journal' = IF journal = NoRecord THEN journal ELSE Record(found)
  BY DEF Crash
<1> HIDE DEF restored
<1> DEFINE found == Reconcile(restored, happened, didNot)
<1>3. Fine(found) BY <1>1, ReconciledIsFine
<1>4. lane' = found /\ journal' \in {NoRecord, Record(found)} BY <1>2
<1> HIDE DEF found
<1>5. /\ run' = NoRun /\ controls' = <<>>
      /\ unrecorded' = NoOrder /\ afterHandBack' = NoOrder /\ starting' = NoOrder
  BY DEF Crash
<1>6. Fine(lane)' BY <1>3, <1>4 DEF Fine, TypedLane, TypedRecord, Rests
<1>7. IsTold(controls)' BY <1>5 DEF IsTold, NoSteer
<1>8. (journal = NoRecord \/ TypedRecord(journal))'
  BY <1>3, <1>4, RecordIsTyped DEF TypedRecord
<1>9. TypedHost' BY <1>5, <1>7, <1>8 DEF TypedHost, IsOrder, TypedOrder
<1>10. Restful' BY <1>5 DEF Restful, NoOrders
<1>11. Agreement' BY <1>5 DEF Agreement, Steerable, Hears
<1> QED BY <1>6, <1>9, <1>10, <1>11 DEF SteerInv

\* The invariant is inductive.
LEMMA SteerNext == ApprovedInv /\ SteerInv /\ [Next]_vars => SteerInv'
<1> SUFFICES ASSUME ApprovedInv, SteerInv, [Next]_vars PROVE SteerInv' OBVIOUS
<1>1. CASE TimePasses \/ UNCHANGED vars BY <1>1, SameSteers DEF TimePasses, vars
<1> QED BY <1>1, IntentSteers, HostSteers, FlightSteers, OperationSteers, CrashSteers DEF Next

\* A lane that has nothing to fly yet.
LEMMA SteerInit == Init => SteerInv
<1> SUFFICES ASSUME Init PROVE SteerInv OBVIOUS
<1>1. Fine(lane)
  <2>1. <<>> \in [{} -> Statuses] OBVIOUS
  <2> QED BY <2>1 DEF Init, NewLane, Fine, TypedLane, TypedRecord, Rests, States, Flying
<1>2. TypedHost BY DEF Init, TypedHost, IsOrder, IsTold, NoSteer
<1> QED BY <1>1, <1>2 DEF Init, SteerInv, Restful, Agreement, NoOrders, Steerable, Hears

\* Once the run took what it was told, it holds when its lane holds and goes on
\* when its lane runs; a restarted lane has no run before a person resumes it.
THEOREM HoldsHold == Spec => []HoldsAreInForce
<1>1. Init => ApprovedInv
  BY DEF Init, ApprovedInv, ApprovedLane, Backed, NewLane, IsFlying, Live, Flyable
<1>2. Init => SteerInv BY SteerInit
<1>3. SteerInv => HoldsAreInForce
  <2> SUFFICES ASSUME SteerInv PROVE HoldsAreInForce OBVIOUS
  <2>1. "restarted" \in lane.holds => run = NoRun /\ unrecorded = NoOrder
    BY DEF SteerInv, Restful, NoOrders
  <2>2. ASSUME orders = <<NoOrder, NoOrder, NoOrder>>, controls = <<>>, Hears, Live(lane),
               ~run.stopping
        PROVE  run.hold <=> Holding(lane)
    <3>1. NoOrders BY <2>2 DEF orders, NoOrders
    <3>2. Steerable /\ NoSteer(controls) BY <2>2 DEF Steerable, NoSteer
    <3> QED BY <2>2, <3>1, <3>2 DEF SteerInv, Agreement, Leads
  <2> QED BY <2>1, <2>2 DEF HoldsAreInForce
<1> QED BY <1>1, <1>2, <1>3, ApprovedNext, SteerNext, PTL DEF Spec

-----------------------------------------------------------------------------
(* A run that an order waits for.                                          *)

HeldStep ==
    afterHandBack' # NoOrder /\ ~RunBegins /\ (afterHandBack' # afterHandBack \/ Held) => Held'

\* That is what the property says of it.
LEMMA HeldAlike ==
    ASSUME NEW s, IsTold(s), NEW r, {"hold", "stopping"} \subseteq DOMAIN r
    PROVE  WithControls(r, s).hold \/ WithControls(r, s).stopping
           <=> (~r.stopping /\ (\A i \in 1 .. Len(s) : s[i] # "abort") => Leads(r.hold, s, TRUE))
<1>0. WithControls(r, s).stopping = (r.stopping \/ \E i \in DOMAIN s : s[i] = "abort")
  BY DEF WithControls
<1>1. WithControls(r, s).stopping <=> r.stopping \/ \E i \in 1 .. Len(s) : s[i] = "abort"
  <2>1. DOMAIN s = 1 .. Len(s) BY DEF IsTold
  <2> QED BY <1>0, <2>1, Zenon
<1>2. WithControls(r, s).hold <=> Leads(r.hold, s, TRUE)
  BY WithControlsHolds DEF IsTold, Leads, LastSteer, NoSteer
<1> QED BY <1>1, <1>2
LEMMA StaysHeldIsHeld == TypedHost /\ TypedHost' => (StaysHeld <=> Held) /\ (StaysHeld <=> Held)'
<1> SUFFICES ASSUME TypedHost, TypedHost' PROVE (StaysHeld <=> Held) /\ (StaysHeld <=> Held)'
  OBVIOUS
<1>1. StaysHeld <=> Held
  BY HeldAlike DEF TypedHost, RunFields, StaysHeld, Held, Steerable, Hears
<1>2. IsTold(controls') BY DEF TypedHost, IsTold, NoSteer, LastSteer
<1>3. WithControls(run, controls)' = WithControls(run', controls') BY DEF WithControls
<1>4. Leads(run.hold, controls, TRUE)' = Leads(run'.hold, controls', TRUE)
  BY DEF Leads, NoSteer, LastSteer
<1>5. (run = NoRun \/ {"hold", "stopping"} \subseteq DOMAIN run)' BY DEF TypedHost, RunFields
<1>6. StaysHeld' <=> Held'
  BY <1>2, <1>3, <1>4, <1>5, HeldAlike DEF StaysHeld, Held, Steerable, Hears
<1> QED BY <1>1, <1>6

\* A run that is told nothing else goes on as it was.
LEMMA SameHolds ==
    ASSUME UNCHANGED <<run, controls>>, Held
    PROVE  Held'
BY DEF Held, Steerable, Hears, Leads, NoSteer, LastSteer

\* One that is told to hold holds, and one that is told to end is not steered.
LEMMA ToldHolds ==
    ASSUME TypedHost, UNCHANGED run, NEW c \in Told \ {"resume"}, Tell(c), c = "answer" => Held
    PROVE  Held'
<1> SUFFICES ASSUME Steerable' PROVE Leads(run.hold, controls, TRUE)' BY DEF Held
<1>1. IsTold(controls) /\ Hears /\ ~run.stopping BY DEF TypedHost, Steerable, Hears
<1>2. controls' = Append(controls, c) BY <1>1, TellTells
<1>3. /\ Len(controls') = Len(controls) + 1 /\ Len(controls) \in Nat
      /\ controls'[Len(controls) + 1] = c
      /\ \A i \in 1 .. Len(controls) : controls'[i] = controls[i]
  BY <1>1, <1>2, AppendTold
<1>4. c # "abort" /\ \A i \in 1 .. Len(controls) : controls[i] # "abort"
  BY <1>3 DEF Steerable
<1>5. Leads(run.hold, Append(controls, c), TRUE)
  <2>1. CASE c = "hold" BY <1>1, <2>1, SteerLeads DEF Steer
  <2>2. CASE c = "answer" BY <1>1, <1>4, <2>2, OtherLeads DEF Held, Steerable, Told, Steer
  <2> QED BY <1>4, <2>1, <2>2 DEF Told
<1> QED BY <1>2, <1>5 DEF Leads, NoSteer, LastSteer

\* What waits for a hand-back is told to hold.
LEMMA StartRunHolds ==
    ASSUME TypedHost, NEW order, NEW l, NEW left, NEW waiting \in {NoOrder, afterHandBack},
           StartRun(order, l, left, waiting)
    PROVE  HeldStep
<1>1. CASE UNCHANGED <<run, controls>> /\ afterHandBack' = waiting
  BY <1>1, SameHolds DEF HeldStep
<1>2. CASE (Tell("hold") \/ Tell("abort")) /\ UNCHANGED run
  BY <1>2, ToldHolds DEF HeldStep, Told
<1>3. CASE run = NoRun /\ Spawn(order, l)
  BY <1>3 DEF HeldStep, RunBegins, Spawn, NewRunOf, Held, Steerable, Hears
<1> QED BY <1>1, <1>2, <1>3 DEF StartRun

\* No effect resumes it.
LEMMA PerformHolds ==
    ASSUME TypedHost, NEW effect, NEW l, Perform(effect, l)
    PROVE  HeldStep
<1>1. CASE effect.do = "start" BY <1>1, StartRunHolds DEF Perform
<1>2. CASE effect.do \in {"hold", "answer"}
  BY <1>2, ToldHolds DEF Perform, HeldStep, Told, orders
<1>3. CASE effect.do = "resume"
  BY <1>3, SameHolds DEF Perform, Resumes, HeldStep, orders
<1>4. CASE effect.do = "abort" BY <1>4 DEF Perform, HeldStep
<1>5. CASE effect.do \notin {"start", "hold", "answer", "resume", "abort"}
  BY <1>5, SameHolds DEF Perform, HeldStep, orders
<1> QED BY <1>1, <1>2, <1>3, <1>4, <1>5

\* Nor does a tick.
LEMMA HostHolds ==
    ASSUME TypedHost, HostStep
    PROVE  HeldStep
<1>1. ASSUME UNCHANGED <<run, controls, orders>> PROVE HeldStep
  BY <1>1, SameHolds DEF HeldStep, orders
<1>2. CASE Clock BY <1>2, PerformHolds DEF Clock
<1>3. CASE ReadStatus BY <1>1, <1>3 DEF ReadStatus
<1>4. CASE ProgressTick
  <2>1. CASE run = NoRun BY <1>1, <1>4, <2>1 DEF ProgressTick
  <2>2. CASE ReplacedRunEnded BY <2>2 DEF ReplacedRunEnded, HeldStep
  <2>3. CASE ReplacedRunWaits
    <3>1. \/ UNCHANGED <<run, controls, orders>>
          \/ \E order, l : StartRun(order, l, unrecorded, NoOrder)
      BY <2>3 DEF ReplacedRunWaits
    <3> QED BY <1>1, <3>1, StartRunHolds
  <2>4. CASE afterHandBack = NoOrder /\ OwnRunProgress
    <3>1. (\E effect, l : Perform(effect, l)) \/ UNCHANGED orders
      BY <2>4 DEF OwnRunProgress, Watched
    <3> QED BY <2>4, <3>1, PerformHolds DEF HeldStep, orders
  <2> QED BY <1>4, <2>1, <2>2, <2>3, <2>4 DEF ProgressTick
<1>5. CASE RecordTurn BY <1>1, <1>5, StartRunHolds DEF RecordTurn
<1>6. CASE Replaced
  BY <1>6 DEF Replaced, Spawn, NewRunOf, HeldStep, RunBegins, Held, Steerable, Hears
<1> QED BY <1>2, <1>3, <1>4, <1>5, <1>6 DEF HostStep

\* Nor does the run itself.
LEMMA HeldNext == SteerInv /\ [Next]_vars => [HeldStep]_vars
<1> SUFFICES ASSUME SteerInv, Next PROVE HeldStep OBVIOUS
<1> TypedHost BY DEF SteerInv
<1>1. CASE Intent
  <2>1. \E r : Take(r)
    BY <1>1 DEF Intent, ProposeIntent, ApproveIntent, StartIntent, HoldIntent, ResumeIntent,
                AbortIntent, ReviseIntent, AnswerIntent
  <2> QED BY <2>1, PerformHolds DEF Take
<1>2. CASE FlightStep \/ People \/ OperationStep
  <2>1. Follows BY <1>2, FlightSteers, OperationSteers
  <2>2. UNCHANGED orders BY <1>2, RunsMove
  <2> QED BY <2>1, <2>2 DEF Follows, HeldStep, Held, Leads, NoSteer, LastSteer, orders
<1>3. CASE TimePasses BY <1>3, SameHolds DEF TimePasses, HeldStep, orders
<1>4. CASE Crash BY <1>4 DEF Crash, HeldStep
<1> QED BY <1>1, <1>2, <1>3, <1>4, HostHolds DEF Next

\* A run that awaits a hand-back is told to end for another only for a recovery,
\* once its taker let go; where another begins in its place it is one for the way
\* home, or one that waited for it to end; and a run that an order waits for
\* stays held.
THEOREM HandBacks == Spec => HandBackComesFirst
<1>1. Init => HomeInv /\ ApprovedInv /\ SteerInv
  BY SteerInit DEF Init, HomeInv, HomeLane, HomeOrders, NewLane, ApprovedInv, ApprovedLane,
     Backed, IsFlying, Live, Flyable
<1>2. SteerInv /\ SteerInv' /\ [HandBackStep]_vars /\ [HeldStep]_vars => [HandBackStep /\
        (afterHandBack' # NoOrder /\ ~RunBegins /\ (afterHandBack' # afterHandBack \/ StaysHeld)
         => StaysHeld')]_vars
  BY StaysHeldIsHeld DEF SteerInv, HeldStep
<1> QED BY <1>1, <1>2, HandBackNext, ApprovedNext, SteerNext, HeldNext, PTL
        DEF Spec, HandBackComesFirst, HandBackStep

-----------------------------------------------------------------------------
(* Runs that begin.                                                        *)

\* A run begins as its lane is, and behind its record.
Begin == RunBegins => journal' = Record(lane') /\ \E order : Spawn(order, lane')
BeginStep == Recorded' /\ Begin

\* A start that waits, or begins, is recorded.
LEMMA StartRunBegins ==
    ASSUME starting = NoOrder, NEW order, NEW l, lane' = l, NEW left, NEW waiting,
           StartRun(order, l, left, waiting)
    PROVE  BeginStep
<1>1. CASE UNCHANGED <<run, starting>> BY <1>1 DEF BeginStep, Begin, Recorded, RunBegins
<1>2. CASE Write(l, TRUE) /\ UNCHANGED run
  BY <1>2 DEF Write, Record, BeginStep, Begin, Recorded, RunBegins
<1>3. CASE Write(l, TRUE) /\ Spawn(order, l) /\ UNCHANGED starting
  BY <1>3 DEF Write, BeginStep, Begin, Recorded
<1> QED BY <1>1, <1>2, <1>3 DEF StartRun

\* So it is at every step.
LEMMA BeginNext == Recorded /\ [Next]_vars => Recorded' /\ [Begin]_vars
<1> SUFFICES ASSUME Recorded, [Next]_vars PROVE BeginStep BY DEF BeginStep
<1>1. ASSUME UNCHANGED <<run, starting>>, starting = NoOrder \/ UNCHANGED <<lane, journal>>
      PROVE  BeginStep
  BY <1>1 DEF BeginStep, Begin, Recorded, RunBegins, Record
<1>2. ASSUME NEW effect, NEW l, starting = NoOrder, lane' = l, Perform(effect, l) PROVE BeginStep
  <2>1. CASE effect.do = "start" BY <1>2, <2>1, StartRunBegins DEF Perform
  <2>2. CASE effect.do # "start" BY <1>1, <1>2, <2>2 DEF Perform, orders
  <2> QED BY <2>1, <2>2
<1>3. CASE Intent
  BY <1>2, <1>3 DEF Intent, ProposeIntent, ApproveIntent, StartIntent, HoldIntent, ResumeIntent,
        AbortIntent, ReviseIntent, AnswerIntent, Take
<1>4. CASE Clock BY <1>2, <1>4 DEF Clock
<1>5. CASE ReadStatus \/ TimePasses \/ UNCHANGED vars
  BY <1>1, <1>5 DEF ReadStatus, TimePasses, vars, orders
<1>6. CASE ProgressTick
  <2> starting = NoOrder BY <1>6 DEF ProgressTick
  <2>1. CASE run = NoRun BY <1>1, <1>6, <2>1 DEF ProgressTick, orders
  <2>2. CASE ReplacedRunEnded
    BY <2>2 DEF ReplacedRunEnded, Write, BeginStep, Begin, Recorded, RunBegins
  <2>3. CASE ReplacedRunWaits
    BY <1>1, <2>3, StartRunBegins DEF ReplacedRunWaits, orders
  <2>4. CASE run # NoRun /\ OwnRunProgress
    <3>1. ASSUME NEW l, Watched(l) PROVE BeginStep
      <4>1. UNCHANGED starting /\ (UNCHANGED run \/ run' = NoRun \/ ~run.gone)
        BY <3>1 DEF Watched, orders
      <4> QED BY <2>4, <4>1 DEF BeginStep, Begin, Recorded, RunBegins
    <3> QED BY <1>2, <2>4, <3>1 DEF OwnRunProgress
  <2> QED BY <1>6, <2>1, <2>2, <2>3, <2>4 DEF ProgressTick
<1>7. CASE RecordTurn BY <1>1, <1>7, StartRunBegins DEF RecordTurn, orders
<1>8. CASE Replaced BY <1>8 DEF Replaced, BeginStep, Begin, Recorded, Record
<1>9. CASE FlightStep \/ People \/ OperationStep
  BY <1>9, RunsMove DEF orders, Hears, BeginStep, Begin, Recorded, RunBegins, Record
<1>10. CASE Crash BY <1>10 DEF Crash, BeginStep, Begin, Recorded, RunBegins
<1> QED BY <1>3, <1>4, <1>5, <1>6, <1>7, <1>8, <1>9, <1>10 DEF Next, HostStep

-----------------------------------------------------------------------------
(* The way home.                                                           *)

\* What changes nothing of it.
SameWay(k, m) ==
    /\ m.proposal = k.proposal /\ m.successor = k.successor
    /\ Live(m) /\ m.expired => Live(k) /\ k.expired

\* Then it keeps to it.
LEMMA SameWayKeeps ==
    ASSUME NEW k, NEW l, SameWay(k, l)
    PROVE  KeepsHome(k, l) /\ \A m : KeepsHome(l, m) => KeepsHome(k, m)
BY DEF SameWay, KeepsHome, GoesHome

\* A plan that takes over is expired only if it is a way home.
LEMMA SwitchGoesHome ==
    ASSUME NEW k, NEW l, {"successor", "expired", "proposal"} \subseteq DOMAIN l,
           HomeSuccessor(l.successor)
    PROVE  KeepsHome(k, Switch(l).lane)
BY DEF KeepsHome, GoesHome, HomeSuccessor, Recoveries, Switch, StartReply

\* A checkpoint drops the admission of no recovery.
LEMMA CheckpointGoesHome ==
    ASSUME NEW l, HomeLane(l), ApprovedLane(l), NEW complete, NEW t
    PROVE  KeepsHome(l, AtCheckpoint(l, complete, t).lane)
<1> DEFINE lapsed == [l EXCEPT !.successor.admitted = FALSE, !.successor.basis = "drafted",
                               !.successor.approval = NoApproval]
<1>1. KeepsHome(l, Reply(l, "none").lane) BY SameWayKeeps DEF SameWay, Reply
<1>2. CASE l.successor # NoSuccessor /\ l.successor.admitted
  <2>1. HomeSuccessor(l.successor) BY <1>2 DEF HomeLane
  <2>2. KeepsHome(l, Switch(l).lane) BY <2>1, SwitchGoesHome DEF ApprovedLane, Backed
  <2>3. ~StillAdmitted(l, t) => KeepsHome(l, Reply(lapsed, "none").lane)
    <3>1. /\ lapsed.proposal = l.proposal /\ lapsed.approval = l.approval
          /\ lapsed.state = l.state /\ lapsed.expired = l.expired
      BY DEF ApprovedLane, Backed
    <3> HIDE DEF lapsed
    <3>2. ~StillAdmitted(l, t) => l.successor.basis # "expiryRecovery"
      BY DEF StillAdmitted, Recoveries
    <3> QED BY <3>1, <3>2 DEF KeepsHome, GoesHome, Live, Reply
  <2> HIDE DEF lapsed
  <2>4. \/ AtCheckpoint(l, complete, t) \in {Switch(l), Reply(l, "none")}
        \/ ~StillAdmitted(l, t) /\ AtCheckpoint(l, complete, t) = Reply(lapsed, "none")
    BY <1>2, Zenon DEF AtCheckpoint, lapsed
  <2> QED BY <1>1, <2>2, <2>3, <2>4
<1>3. CASE l.successor = NoSuccessor \/ ~l.successor.admitted
  BY <1>1, <1>3 DEF AtCheckpoint
<1> QED BY <1>2, <1>3

\* An approval makes no other plan of a way home.
LEMMA ApproveGoesHome ==
    ASSUME NEW l, HomeLane(l), ApprovedLane(l), NEW p \in Approvable(l), NEW approval,
           approval.digest = p.digest
    PROVE  KeepsHome(l, Approve(l, approval).lane)
<1>1. CASE l.state = "proposed"
  <2> DEFINE approved == [l EXCEPT !.approval = approval, !.state = "admitted"]
  <2>1. KeepsHome(l, approved) BY DEF KeepsHome, Live, ApprovedLane, Backed
  <2>2. Approve(l, approval) = Reply(approved, "none") BY <1>1 DEF Approve, IsFlying, Live
  <2> QED BY <2>1, <2>2 DEF Reply
<1>2. CASE l.state # "proposed" /\ IsFlying(l) /\ approval.digest = l.proposal.digest
  BY <1>2 DEF Approve, Renew, ResumeWhenFree, Reply, StartReply, KeepsHome, ApprovedLane
<1>3. CASE l.state # "proposed" /\ ~(IsFlying(l) /\ approval.digest = l.proposal.digest)
  <2> DEFINE admitted == Admitted(l, approval, "approved")
  <2>1. IsFlying(l) /\ l.successor # NoSuccessor /\ ~l.successor.admitted
    BY <1>3 DEF Approvable
  <2>2. HomeSuccessor(l.successor) BY <2>1 DEF HomeLane
  <2>3. HomeSuccessor(admitted.successor) BY <2>2, AdmittedIsHome DEF Recoveries
  <2>4. DOMAIN admitted = DOMAIN l BY DEF Admitted
  <2>5. KeepsHome(l, admitted)
    BY <2>1, <2>2 DEF Admitted, KeepsHome, GoesHome, HomeSuccessor, Recoveries, ApprovedLane,
                      Backed, Live
  <2> HIDE DEF admitted
  <2>6. KeepsHome(l, Switch(admitted).lane)
    BY <2>3, <2>4, SwitchGoesHome DEF ApprovedLane, Backed
  <2>7. Approve(l, approval).lane \in {Switch(admitted).lane, admitted}
    BY <1>3 DEF Approve, AdmitSuccessor, Reply, admitted
  <2> QED BY <2>5, <2>6, <2>7
<1> QED BY <1>1, <1>2, <1>3

\* A recovery from a lost control is under an approval that has not expired.
LEMMA RecoveryGoesHome ==
    ASSUME NEW l, ApprovedLane(l), NEW home
    PROVE  KeepsHome(l, RecoverFromLostControl(l, home).lane)
<1> DEFINE admitted == Admitted(Draft(l, home), Bind(l.approval, home), "controlLossRecovery")
<1>1. admitted.successor.basis = "controlLossRecovery" /\ DOMAIN admitted = DOMAIN l
  BY DEF Admitted, Draft, ApprovedLane
<1> HIDE DEF admitted
<1>2. ~Switch(admitted).lane.expired BY <1>1 DEF Switch, StartReply, ApprovedLane
<1> QED BY <1>2 DEF RecoverFromLostControl, KeepsHome, admitted

\* An expiry starts the way home, or admits it.
LEMMA OnClockGoesHome ==
    ASSUME NEW l, ApprovedLane(l), HomeLane(l), TypedLane(l),
           NEW home \in AnyPlan, home.kind = "home", NEW t
    PROVE  KeepsHome(l, OnClock(l, home, t).lane)
<1> DEFINE late == [l EXCEPT !.expired = TRUE]
           drafted == Draft(late, home)
           admitted == Admitted(drafted, Bind(l.approval, home), "expiryRecovery")
<1>1. CASE ~ExpiredNow(l, t) BY <1>1, SameWayKeeps DEF OnClock, Reply, SameWay
<1>2. CASE ExpiredNow(l, t) /\ l.approval.onExpiry = "home" /\ Flies(l.proposal)
  <2>1. HomeLane(late) BY DEF HomeLane
  <2>2. HomeLane(drafted) /\ HomeSuccessor(drafted.successor) /\ drafted.successor.plan = home
    BY <2>1, DraftIsHome
  <2>3. HomeSuccessor(admitted.successor) BY <2>2, AdmittedIsHome
  <2>4. DOMAIN admitted = DOMAIN l BY DEF Admitted, Draft
  <2>5. FlownLines(late) \in Nat
    <3>1. DOMAIN l.tasks = {} \/ \E len \in Nat : DOMAIN l.tasks = 1 .. len
      BY NumbersAreNaturals DEF TypedLane, TypedRecord
    <3>2. IsFiniteSet(DOMAIN late.tasks)
      BY <3>1, FS_EmptySet, FS_Interval, Nat \subseteq Int, 1 \in Int DEF ApprovedLane, Backed
    <3> DEFINE flown == {i \in DOMAIN late.tasks : /\ TasksOf(late.proposal)[i] = "line"
                                                   /\ late.tasks[i] \in Ended}
    <3>3. IsFiniteSet(flown) BY <3>2, FS_Subset
    <3> QED BY <3>3, FS_CardinalityType DEF FlownLines
  <2>6. Bind(l.approval, home) \in Approval
    BY <1>2, BindBinds, FlyingIsApproved DEF ExpiredNow, IsFlying, Binds, AnyPlan
  <2>7. admitted.successor = [plan |-> home, admitted |-> TRUE, basis |-> "expiryRecovery",
                              approval |-> Bind(l.approval, home), flown |-> FlownLines(late)]
    BY DEF Admitted, Draft, ApprovedLane
  <2> HIDE DEF admitted
  <2>8. GoesHome(admitted)
    <3>1. admitted.successor \in [plan : AnyPlan, admitted : {TRUE}, basis : {"expiryRecovery"},
                                  approval : Approval, flown : Nat]
      BY <2>5, <2>6, <2>7
    <3> QED BY <2>7, <3>1, RecordAssumption DEF GoesHome
  <2>9. KeepsHome(l, Switch(admitted).lane)
    BY <2>3, <2>4, SwitchGoesHome DEF ApprovedLane, Backed
  <2>10. OnClock(l, home, t).lane \in {Switch(admitted).lane, admitted}
    BY <1>2 DEF OnClock, AdmitSuccessor, Reply, admitted
  <2> QED BY <2>8, <2>9, <2>10 DEF KeepsHome
<1>3. CASE ExpiredNow(l, t) /\ ~(l.approval.onExpiry = "home" /\ Flies(l.proposal))
  BY <1>3 DEF OnClock, Reply, WithHold, KeepsHome, ApprovedLane, Backed
<1> QED BY <1>1, <1>2, <1>3

\* What a run did changes nothing of it.
LEMMA OnProgressGoesHome ==
    ASSUME NEW l, HomeLane(l), ApprovedLane(l), NEW progress, NEW home, NEW t
    PROVE  KeepsHome(l, OnProgress(l, progress, home, t).lane)
<1> DEFINE folded == Fold(l, progress)
           checked == IF IsFlying(l) THEN AtCheckpoint(folded, progress.complete, t)
                                     ELSE Reply(folded, "none")
<1>1. HomeLane(folded) /\ ApprovedLane(folded) BY FoldIsApproved DEF HomeLane, Fold
<1>2. SameWay(l, folded) BY FoldIsApproved DEF SameWay, Live
<1> HIDE DEF folded
<1>3. KeepsHome(l, checked.lane)
  BY <1>1, <1>2, SameWayKeeps, CheckpointGoesHome DEF Reply
<1>4. KeepsHome(l, RecoverFromLostControl(folded, home).lane)
  BY <1>1, <1>2, SameWayKeeps, RecoveryGoesHome
<1>5. KeepsHome(l, [l EXCEPT !.execution = progress.execution])
  BY SameWayKeeps DEF SameWay, Live, ApprovedLane, Backed
<1> DEFINE closed(outcome, state) == Reply(Close(checked.lane, outcome, state), "none")
<1>6. ASSUME NEW outcome, NEW state \in {"complete", "failed"}
      PROVE  KeepsHome(l, closed(outcome, state).lane)
  <2>1. "state" \in DOMAIN checked.lane
    BY <1>1, CheckpointIsApproved DEF Reply, ApprovedLane, Backed
  <2> HIDE DEF checked
  <2> QED BY <2>1 DEF Close, KeepsHome, Live, Reply
<1>7. CASE l.tasks = <<>> BY <1>5, <1>7 DEF OnProgress, Reply
<1>8. CASE l.tasks # <<>>
  <2>1. OnProgress(l, progress, home, t) \in
           {RecoverFromLostControl(folded, home), checked, closed("completed", "complete"),
            closed("failed", "failed"), Reply(checked.lane, "none")}
    BY <1>8 DEF OnProgress, folded
  <2> HIDE DEF checked, closed
  <2> QED BY <1>3, <1>4, <1>6, <2>1 DEF Reply
<1> QED BY <1>7, <1>8

\* An intent but a revision keeps to it.
LEMMA IntentGoesHome ==
    ASSUME HomeInv, ApprovedInv, Intent, ~ReviseIntent
    PROVE  KeepsHome(lane, lane')
<1>1. HomeLane(lane) /\ ApprovedLane(lane) BY DEF HomeInv, ApprovedInv
<1>2. {"state", "proposal", "successor", "expired", "holds"} \subseteq DOMAIN lane
  BY <1>1 DEF ApprovedLane, Backed
<1>3. CASE ProposeIntent \/ AbortIntent
  BY <1>2, <1>3 DEF ProposeIntent, AbortIntent, Take, Propose, Abort, Reply, KeepsHome, Live
<1>4. CASE ApproveIntent
  BY <1>1, <1>4, ApproveGoesHome DEF ApproveIntent, Take, Approvals
<1>5. CASE StartIntent
  BY <1>2, <1>5 DEF StartIntent, Take, Start, StartReply, KeepsHome
<1>6. CASE HoldIntent \/ AnswerIntent
  <2>1. SameWay(lane, Hold(lane).lane) /\ SameWay(lane, Answer(lane).lane)
    BY <1>2 DEF SameWay, Hold, Answer, WithHold, Reply, Live
  <2> QED BY <1>6, <2>1, SameWayKeeps DEF HoldIntent, AnswerIntent, Take
<1>7. CASE ResumeIntent
  <2>1. SameWay(lane, Resume(lane).lane)
    BY <1>2 DEF SameWay, Resume, ResumeWhenFree, Reply, StartReply, Live, Holding
  <2> QED BY <1>7, <2>1, SameWayKeeps DEF ResumeIntent, Take
<1> QED BY <1>3, <1>4, <1>5, <1>6, <1>7 DEF Intent

\* So does every other step.
LEMMA WayHomeNext ==
    HomeInv /\ ApprovedInv /\ SteerInv /\ [Next]_vars => [~ReviseIntent => KeepsHome(lane, lane')]_vars
<1> SUFFICES ASSUME HomeInv, ApprovedInv, SteerInv, [Next]_vars, ~ReviseIntent
             PROVE  KeepsHome(lane, lane')
  OBVIOUS
<1>1. /\ HomeLane(lane) /\ ApprovedLane(lane) /\ TypedLane(lane)
      /\ Plan("home") \in AnyPlan /\ Plan("home").kind = "home"
  BY DEF HomeInv, ApprovedInv, SteerInv, Fine, Plan, AnyPlan
<1>2. CASE UNCHANGED lane BY <1>2, SameWayKeeps DEF SameWay
<1>3. CASE Clock BY <1>1, <1>3, OnClockGoesHome DEF Clock
<1>4. CASE ProgressTick
  <2>1. CASE ReplacedRunEnded BY <1>1, <1>2, <2>1, OnProgressGoesHome DEF ReplacedRunEnded
  <2>2. CASE ReplacedRunWaits
    <3> DEFINE told == [lane EXCEPT !.execution = seen.execution]
    <3>1. SameWay(lane, told) /\ ApprovedLane(told)
      BY <1>1 DEF SameWay, Live, IsFlying, ApprovedLane, Backed
    <3> HIDE DEF told
    <3>2. KeepsHome(lane, told) /\ KeepsHome(lane, RecoverFromLostControl(told, Plan("home")).lane)
      BY <3>1, SameWayKeeps, RecoveryGoesHome
    <3> QED BY <2>2, <3>2 DEF ReplacedRunWaits, OnExecution, Reply, told
  <2>3. CASE OwnRunProgress BY <1>1, <2>3, OnProgressGoesHome DEF OwnRunProgress
  <2> QED BY <1>2, <1>4, <2>1, <2>2, <2>3 DEF ProgressTick
<1>5. CASE Crash
  <2> DEFINE restored == IF journal = NoRecord THEN NewLane ELSE Restore(journal)
         unexpired(l) == ~l.expired /\ {"expired", "holds", "state", "restarted"} \subseteq DOMAIN l
  <2>1. ASSUME NEW l, unexpired(l) PROVE unexpired(SettleRestart(l)) /\ unexpired(SettleOperations(l))
    BY <2>1 DEF SettleRestart, SettleOperations, WithHold
  <2>2. unexpired(restored)
    <3> DEFINE recorded == [NewLane EXCEPT !.state = journal.state, !.proposal = journal.proposal,
                                           !.approval = journal.approval, !.tasks = journal.tasks]
    <3>1. unexpired(NewLane) /\ unexpired(recorded) BY DEF NewLane
    <3> HIDE DEF recorded
    <3>2. unexpired(SettleOperations(recorded)) BY <2>1, <3>1
    <3> QED BY <2>1, <3>1, <3>2 DEF Restore, recorded
  <2>3. \A a, b : ~Reconcile(restored, a, b).expired
    <3> HIDE DEF restored
    <3> QED BY <2>1, <2>2 DEF Reconcile
  <2> HIDE DEF restored
  <2> QED BY <1>5, <2>3 DEF Crash, KeepsHome, restored
<1> QED
  BY <1>2, <1>3, <1>4, <1>5, IntentGoesHome, RunsMove
     DEF Next, HostStep, ReadStatus, RecordTurn, Replaced, TimePasses, vars

\* A lane is at work only under an approval that binds its very plan.  One whose
\* approval expired is held until it is renewed, and so is every run that begins
\* for it; or it goes home, unless a person drafts a revision.  A run begins only
\* for the plan approved, but for a stale start (expiry.rs:1-5).
THEOREM Approved == Spec => UnderApproval
<1>1. Init => HomeInv /\ ApprovedInv /\ SteerInv /\ Recorded
  BY SteerInit DEF Init, HomeInv, HomeLane, HomeOrders, NewLane, ApprovedInv, ApprovedLane,
     Backed, IsFlying, Live, Flyable, Recorded
<1>2. ApprovedInv => LaneApproved
  <2> SUFFICES ASSUME ApprovedInv, Live(lane) PROVE LaneApproved BY DEF LaneApproved
  <2>1. ApprovedLane(lane) /\ IsFlying(lane) BY DEF ApprovedInv, IsFlying
  <2>2. Binds(lane.approval, lane.proposal) BY <2>1, FlyingIsApproved
  <2>3. \A approval \in Approval : approval # NoApproval BY LaneHostAssumption
  <2> QED BY <2>1, <2>2, <2>3 DEF LaneApproved, ApprovedLane, AdmittedByOwn, Binds
<1>3. ASSUME ApprovedInv', LaneApproved', Begin, RunBegins, ~StaleStart
      PROVE  /\ lane'.approval.digest = run'.plan.digest
             /\ "approvalExpired" \in lane'.holds => controls' = <<"hold">>
  <2>1. run'.plan = lane'.proposal /\ Live(lane') BY <1>3 DEF StaleStart
  <2>2. PICK order : Spawn(order, lane') BY <1>3 DEF Begin
  <2> QED BY <1>3, <2>1, <2>2 DEF LaneApproved, ApprovedInv, ApprovedLane, Live, Holding, Spawn
<1>4. ApprovedInv' /\ LaneApproved' /\ [~ReviseIntent => KeepsHome(lane, lane')]_vars /\ [Begin]_vars
         => [/\ LaneApproved'
             /\ ~ReviseIntent => KeepsHome(lane, lane')
             /\ RunBegins /\ ~StaleStart =>
                   /\ lane'.approval.digest = run'.plan.digest
                   /\ "approvalExpired" \in lane'.holds => controls' = <<"hold">>]_vars
  BY <1>3
<1> QED BY <1>1, <1>2, <1>4, HandBackNext, ApprovedNext, SteerNext, BeginNext, WayHomeNext, PTL
        DEF Spec, UnderApproval

-----------------------------------------------------------------------------
(* How far a lane has come.                                                *)

\* Nothing of a new run has ended.
LEMMA NothingEnded ==
    ASSUME NEW plan
    PROVE  EndedOf(NewRun(plan)) = {} /\ DOMAIN NewRun(plan) = Numbers(plan)
BY DEF EndedOf, NewRun, Ended, Numbers

\* No task of no tasks ended.
LEMMA NoneEnded == EndedOf(<<>>) = {}
<1>1. DOMAIN <<>> = {} OBVIOUS
<1> QED BY <1>1 DEF EndedOf

\* A lane that goes on and then advances has advanced.
LEMMA OnwardAdvances ==
    ASSUME NEW l, NEW m, NEW done, NEW fresh, Onward(l, m, done, fresh),
           "restarted" \in m.holds => "restarted" \in l.holds,
           m.state = "admitted" => l.state = "admitted",
           NEW r, Advances(m, r, {}, fresh)
    PROVE  Advances(l, r, done, fresh)
<1>1. CASE r.effect.do # "start" /\ Onward(m, r.lane, {}, fresh)
  <2>1. Onward(l, r.lane, done, fresh) BY <1>1 DEF Onward
  <2> QED BY <1>1, <2>1 DEF Advances
<1>2. CASE Begins(m, r) BY <1>2 DEF Advances, Begins, Onward
<1>3. CASE TakesOver(m, r, fresh) BY <1>3 DEF Advances, TakesOver, Onward
<1> QED BY <1>1, <1>2, <1>3 DEF Advances

\* A lane whose plan and tasks are the same goes on.
LEMMA SameGoesOn ==
    ASSUME NEW l, NEW m, m.proposal = l.proposal, m.tasks = l.tasks,
           m.successor = l.successor,
           m.state \in Begun <=> l.state \in Begun, m.state = "idle" <=> l.state = "idle",
           Live(m) => Live(l), NEW done, NEW fresh
    PROVE  Onward(l, m, done, fresh)
BY DEF Onward

\* A reply without an order.
LEMMA ReplyAdvances ==
    ASSUME NEW l, NEW m, Steady(m), NEW done, NEW fresh, Onward(l, m, done, fresh),
           NEW do, do # "start"
    PROVE  Advances(l, Reply(m, do), done, fresh)
BY DEF Advances, Reply

\* The successor takes over.
LEMMA SwitchAdvances ==
    ASSUME NEW l, TypedLane(l), Steady(l), Live(l), "restarted" \notin l.holds,
           NEW done, NEW fresh, l.successor # NoSuccessor \/ l.successor.plan \in fresh
    PROVE  Advances(l, Switch(l), done, fresh)
<1> DEFINE next == l.successor
           m == Switch(l).lane
<1>1. /\ m.proposal = next.plan /\ m.tasks = NewRun(next.plan)
      /\ m.successor = NoSuccessor /\ m.holds \subseteq l.holds
      /\ m.state \in {"running", l.state} /\ m.restarted = l.restarted
      /\ Switch(l).effect.do = "start" /\ Switch(l).effect.order.plan = next.plan
      /\ Switch(l).effect.order.todo = DOMAIN NewRun(next.plan)
  BY LaneFields DEF TypedLane, Switch, StartReply, Order
<1>2. l.state \in Begun /\ ~l.restarted BY DEF Live, Begun, Steady
<1>3. EndedOf(NewRun(next.plan)) = {} /\ DOMAIN NewRun(next.plan) = Numbers(next.plan)
  BY NothingEnded
<1> HIDE DEF m
<1>4. Steady(m) BY <1>1, <1>2 DEF Steady, Begun
<1>5. Orders(Switch(l)) BY <1>1, <1>2, <1>3 DEF Orders, Begun, m
<1>6. TakesOver(l, Switch(l), fresh) BY <1>1, <1>2, <1>5 DEF TakesOver, m
<1> QED BY <1>4, <1>6 DEF Advances, m

\* A draft is a successor to be.
LEMMA DraftGoesOn ==
    ASSUME NEW l, Fine(l), Steady(l), Live(l), NEW plan \in AnyPlan, NEW done
    PROVE  LET m == Draft(l, plan)
           IN  /\ Onward(l, m, done, {plan}) /\ Steady(m) /\ Live(m)
               /\ m.successor.plan = plan /\ m.state = l.state /\ m.holds = l.holds
               /\ {"plan", "admitted", "basis", "approval"} \subseteq DOMAIN m.successor
<1> DEFINE m == Draft(l, plan)
<1>1. /\ m.proposal = l.proposal /\ m.tasks = l.tasks /\ m.state = l.state /\ m.holds = l.holds
      /\ m.restarted = l.restarted /\ m.successor.plan = plan
      /\ {"plan", "admitted", "basis", "approval"} \subseteq DOMAIN m.successor
  BY LaneFields DEF Fine, TypedLane, Draft
<1> HIDE DEF m
<1>2. l.state \in Begun \ {"uncertain"} BY DEF Live, Begun
<1> QED BY <1>1, <1>2 DEF Onward, Steady, Live, m

\* A successor that is admitted waits, or takes over.
LEMMA AdmitSuccessorAdvances ==
    ASSUME NEW l, Fine(l), Steady(l), Live(l), "restarted" \notin l.holds,
           {"plan", "admitted", "basis", "approval"} \subseteq DOMAIN l.successor,
           l.successor.plan \in AnyPlan, NEW approval, NEW basis, NEW fresh,
           l.successor # NoSuccessor \/ l.successor.plan \in fresh
    PROVE  Advances(l, AdmitSuccessor(l, approval, basis), {}, fresh)
<1> DEFINE m == Admitted(l, approval, basis)
<1>1. /\ Fine(m) /\ m.state = l.state /\ m.holds = l.holds /\ m.proposal = l.proposal
  BY AdmittedIsFine
<1>2. m.tasks = l.tasks /\ m.restarted = l.restarted /\ m.successor.plan = l.successor.plan
  BY LaneFields DEF Fine, TypedLane, Admitted
<1>3. AdmitSuccessor(l, approval, basis) \in {Switch(m), Reply(m, "none")}
  BY DEF AdmitSuccessor
<1> HIDE DEF m
<1>4. l.state \in Begun \ {"uncertain"} BY DEF Live, Begun
<1>5. Steady(m) /\ Live(m) BY <1>1, <1>2, <1>4 DEF Steady, Live
<1>6. Onward(l, m, {}, fresh) BY <1>1, <1>2 DEF Onward, Live
<1>7. CASE l.successor.plan \in fresh
  <2>1. Advances(m, Switch(m), {}, fresh) BY <1>1, <1>2, <1>5, <1>7, SwitchAdvances DEF Fine
  <2>2. Advances(l, Switch(m), {}, fresh) BY <1>1, <1>6, <2>1, OnwardAdvances
  <2> QED BY <1>3, <1>5, <1>6, <2>2, ReplyAdvances
<1>8. CASE l.successor # NoSuccessor
  <2>1. Advances(m, Switch(m), {}, {l.successor.plan})
    BY <1>1, <1>2, <1>5, SwitchAdvances DEF Fine
  <2>2. Switch(m).effect.do = "start" BY DEF Switch, StartReply
  <2>3. TakesOver(m, Switch(m), {l.successor.plan})
    BY <1>1, <1>5, <2>1, <2>2 DEF Advances, Begins, Live
  <2>4. TakesOver(l, Switch(m), fresh) BY <1>1, <1>2, <1>8, <2>3 DEF TakesOver
  <2>5. Advances(l, Switch(m), {}, fresh) BY <2>1, <2>4 DEF Advances
  <2> QED BY <1>3, <1>5, <1>6, <2>5, ReplyAdvances
<1> QED BY <1>7, <1>8

\* A checkpoint applies the successor, drops its admission, or does nothing.
LEMMA CheckpointAdvances ==
    ASSUME NEW l, Fine(l), ApprovedLane(l), Steady(l), IsFlying(l), NEW complete, NEW t,
           NEW fresh
    PROVE  Advances(l, AtCheckpoint(l, complete, t), {}, fresh)
<1>1. CASE l.successor = NoSuccessor \/ ~l.successor.admitted
  <2>1. AtCheckpoint(l, complete, t) = Reply(l, "none") BY <1>1 DEF AtCheckpoint
  <2> QED BY <2>1, ReplyAdvances, SameGoesOn
<1>2. CASE l.successor # NoSuccessor /\ l.successor.admitted
  <2> DEFINE lapsed == [l EXCEPT !.successor.admitted = FALSE, !.successor.basis = "drafted",
                                 !.successor.approval = NoApproval]
  <2>1. /\ {"plan", "admitted", "basis", "approval"} \subseteq DOMAIN l.successor
        /\ l.successor.plan \in AnyPlan /\ "restarted" \notin l.holds
    BY <1>2 DEF ApprovedLane, AdmittedByOwn, Fine, TypedLane, Rests
  <2>2. Live(l) BY <1>2 DEF Steady, IsFlying
  <2>3. Advances(l, Switch(l), {}, fresh) BY <1>2, <2>1, <2>2, SwitchAdvances DEF Fine
  <2>4. /\ lapsed.state = l.state /\ lapsed.holds = l.holds
        /\ lapsed.proposal = l.proposal /\ lapsed.tasks = l.tasks
        /\ lapsed.restarted = l.restarted /\ lapsed.successor.plan = l.successor.plan
    BY <2>1, LaneFields DEF Fine, TypedLane
  <2>5. AtCheckpoint(l, complete, t) =
           IF ~StillAdmitted(l, t) THEN Reply(lapsed, "none")
           ELSE IF complete \/ ~IsTask(l, "line") \/ FlownLines(l) > l.successor.flown
                THEN Switch(l) ELSE Reply(l, "none")
    BY <1>2, Zenon DEF AtCheckpoint
  <2>6. AtCheckpoint(l, complete, t) \in {Reply(lapsed, "none"), Switch(l), Reply(l, "none")}
    BY <2>5, Zenon
  <2> HIDE DEF lapsed
  <2>7. Steady(lapsed) /\ Onward(l, lapsed, {}, fresh)
    BY <1>2, <2>2, <2>4 DEF Steady, Onward, Live, Begun
  <2>8. Advances(l, Reply(lapsed, "none"), {}, fresh) BY <2>7, ReplyAdvances
  <2>9. Advances(l, Reply(l, "none"), {}, fresh) BY ReplyAdvances, SameGoesOn
  <2> QED BY <2>3, <2>6, <2>8, <2>9
<1> QED BY <1>1, <1>2

\* A lane that nothing holds any more resumes its run, or starts what is left of
\* it: l is the lane with some of its holds lifted, from before.
LEMMA ResumingAdvances ==
    ASSUME NEW before, NEW l, Fine(l), l.holds \subseteq Reasons, IsFlying(l),
           l.state = before.state, l.proposal = before.proposal, l.tasks = before.tasks,
           l.successor = before.successor, l.restarted = before.restarted,
           Fine(before), Steady(before),
           l.holds = {} \/ ("restarted" \in before.holds => "restarted" \in l.holds),
           NEW fresh
    PROVE  Advances(before, ResumeWhenFree(l), {}, fresh)
<1> DEFINE freed == [l EXCEPT !.state = "running", !.restarted = FALSE]
           order == Order(l.proposal, Left(l), FALSE)
<1>1. l.state \in Begun BY DEF IsFlying, Live, Begun
<1>2. CASE l.holds # {} \/ ~Holding(l)
  <2>1. ResumeWhenFree(l) = Reply(l, "none") BY <1>2 DEF ResumeWhenFree
  <2>2. Steady(l)
    <3>1. CASE l.holds # {} BY <1>1, <3>1 DEF Steady, Live
    <3>2. CASE ~Holding(l) /\ l.holds = {}
      <4>1. "restarted" \notin before.holds BY <3>2 DEF Fine, Rests, Holding
      <4> QED BY <1>1, <3>2, <4>1 DEF Steady, Live
    <3> QED BY <1>2, <3>1, <3>2
  <2>3. Onward(before, l, {}, fresh) BY SameGoesOn DEF Live
  <2> QED BY <2>1, <2>2, <2>3, ReplyAdvances
<1>3. CASE l.holds = {} /\ Holding(l)
  <2>1. /\ l.restarted => ResumeWhenFree(l) = StartReply(freed, order)
        /\ ~l.restarted => ResumeWhenFree(l) = Reply(freed, "resume")
    BY <1>3 DEF ResumeWhenFree
  <2>2. /\ freed.state = "running" /\ freed.holds = {} /\ ~freed.restarted
        /\ freed.proposal = l.proposal /\ freed.tasks = l.tasks /\ freed.successor = l.successor
    BY <1>3, LaneFields DEF Fine, TypedLane
  <2>3. order.plan = l.proposal /\ order.todo = Left(l) BY DEF Order
  <2>4. Live(l) /\ Live(before) BY <1>3 DEF Live, Holding
  <2> HIDE DEF freed, order
  <2>5. Steady(freed) BY <2>2, <2>4 DEF Steady, Begun, Live
  <2>6. CASE ~l.restarted
    <3>1. Onward(before, freed, {}, fresh) BY <2>2, <2>4, SameGoesOn DEF Begun, Live
    <3> QED BY <2>1, <2>5, <2>6, <3>1, ReplyAdvances
  <2>7. CASE l.restarted
    <3>1. "restarted" \in before.holds BY <2>4, <2>7 DEF Steady
    <3>2. l.successor = NoSuccessor /\ before.state = "held" BY <3>1 DEF Fine, Rests
    <3>3. Left(l) \subseteq Numbers(l.proposal) /\ EndedOf(l.tasks) \cap Left(l) = {}
      <4>1. l.tasks \in [Numbers(l.proposal) -> Statuses]
        BY <2>4 DEF Fine, TypedLane, TypedRecord, Live, Flying
      <4> QED BY <4>1 DEF Left, EndedOf, Ended
    <3>4. Orders(StartReply(freed, order))
      BY <2>2, <2>3, <3>2, <3>3 DEF Orders, StartReply, Begun
    <3>5. Begins(before, StartReply(freed, order))
      BY <2>2, <3>1, <3>2, <3>4 DEF Begins, StartReply
    <3> QED BY <2>1, <2>5, <2>7, <3>5 DEF Advances, StartReply
  <2> QED BY <2>6, <2>7
<1> QED BY <1>2, <1>3

\* An approval admits a plan or a successor, or lifts the hold on expiry.
LEMMA ApproveAdvances ==
    ASSUME NEW l, Fine(l), ApprovedLane(l), Steady(l), NEW p \in Approvable(l), NEW approval,
           approval.digest = p.digest, NEW fresh
    PROVE  Advances(l, Approve(l, approval), {}, fresh)
<1>1. CASE l.state = "proposed"
  <2> DEFINE m == [l EXCEPT !.approval = approval, !.state = "admitted"]
  <2>1. Approve(l, approval) = Reply(m, "none") BY <1>1 DEF Approve, IsFlying, Live
  <2>2. /\ m.state = "admitted" /\ m.holds = l.holds /\ m.restarted = l.restarted
        /\ m.proposal = l.proposal /\ m.tasks = l.tasks /\ m.successor = l.successor
    BY LaneFields DEF Fine, TypedLane
  <2> HIDE DEF m
  <2>3. Steady(m) BY <1>1, <2>2 DEF Steady, Begun
  <2>4. Onward(l, m, {}, fresh) BY <1>1, <2>2, SameGoesOn DEF Begun, Live
  <2> QED BY <2>1, <2>3, <2>4, ReplyAdvances
<1>2. CASE l.state # "proposed" /\ IsFlying(l) /\ approval.digest = l.proposal.digest
  <2> DEFINE m == [l EXCEPT !.approval = approval, !.expired = FALSE,
                            !.holds = @ \ {"approvalExpired"}]
  <2>1. Approve(l, approval) = ResumeWhenFree(m) BY <1>2 DEF Approve, Renew
  <2>2. /\ DOMAIN m = DOMAIN l /\ m.state = l.state /\ m.holds = l.holds \ {"approvalExpired"}
        /\ m.proposal = l.proposal /\ m.tasks = l.tasks /\ m.successor = l.successor
        /\ m.restarted = l.restarted
    BY LaneFields DEF Fine, TypedLane
  <2> HIDE DEF m
  <2>3. Fine(m) /\ IsFlying(m)
    BY <1>2, <2>2 DEF Fine, TypedLane, TypedRecord, Rests, IsFlying, Live
  <2>4. m.holds \subseteq Reasons BY <2>2 DEF Steady
  <2> QED BY <2>1, <2>2, <2>3, <2>4, ResumingAdvances
<1>3. CASE l.state # "proposed" /\ ~(IsFlying(l) /\ approval.digest = l.proposal.digest)
  <2>1. IsFlying(l) /\ l.successor # NoSuccessor BY <1>3 DEF Approvable
  <2>2. l.successor.plan \in AnyPlan /\ "restarted" \notin l.holds /\ Live(l)
        /\ {"plan", "admitted", "basis", "approval"} \subseteq DOMAIN l.successor
    BY <2>1 DEF Fine, TypedLane, Rests, ApprovedLane, AdmittedByOwn, IsFlying, Steady
  <2>3. Approve(l, approval) = AdmitSuccessor(l, approval, "approved") BY <1>3 DEF Approve
  <2> QED BY <2>1, <2>2, <2>3, AdmitSuccessorAdvances
<1> QED BY <1>1, <1>2, <1>3

\* A lane that starts orders all of its plan.
LEMMA StartAdvances ==
    ASSUME NEW l, Fine(l), ApprovedLane(l), Steady(l), l.state = "admitted", NEW fresh
    PROVE  Advances(l, Start(l), {}, fresh)
<1> DEFINE m == Start(l).lane
<1>1. /\ l.holds = {} /\ ~l.restarted /\ l.tasks = <<>> /\ l.successor = NoSuccessor
  BY DEF ApprovedLane, Steady, Begun
<1>2. /\ m.state = "running" /\ m.holds = l.holds /\ m.restarted = l.restarted
      /\ m.proposal = l.proposal /\ m.tasks = NewRun(l.proposal) /\ m.successor = l.successor
      /\ Start(l).effect.do = "start" /\ Start(l).effect.order.plan = l.proposal
      /\ Start(l).effect.order.todo = DOMAIN NewRun(l.proposal)
  BY LaneFields DEF Fine, TypedLane, Start, StartReply, Order
<1>3. EndedOf(NewRun(l.proposal)) = {} /\ DOMAIN NewRun(l.proposal) = Numbers(l.proposal)
  BY NothingEnded
<1> HIDE DEF m
<1>4. Steady(m) BY <1>1, <1>2 DEF Steady, Begun
<1>5. Orders(Start(l)) BY <1>1, <1>2, <1>3 DEF Orders, Begun, m
<1>6. Begins(l, Start(l)) BY <1>1, <1>2, <1>5, NoneEnded DEF Begins, m
<1> QED BY <1>4, <1>6 DEF Advances, m

\* A hold stops nothing that ended.
LEMMA HoldAdvances ==
    ASSUME NEW l, Fine(l), Steady(l), Live(l), NEW fresh
    PROVE  Advances(l, Hold(l), {}, fresh)
<1> DEFINE m == WithHold(l, "operator")
           held == [m EXCEPT !.state = "holdRequested"]
<1>1. Hold(l) = IF l.state = "running" THEN Reply(held, "hold") ELSE Reply(m, "none")
  BY DEF Hold
<1>2. /\ DOMAIN m = DOMAIN l /\ m.state = l.state /\ m.holds = l.holds \cup {"operator"}
      /\ m.proposal = l.proposal /\ m.tasks = l.tasks /\ m.successor = l.successor
      /\ m.restarted = l.restarted
  BY LaneFields DEF Fine, TypedLane, WithHold
<1>3. /\ held.state = "holdRequested" /\ held.holds = l.holds \cup {"operator"}
      /\ held.proposal = l.proposal /\ held.tasks = l.tasks /\ held.successor = l.successor
      /\ held.restarted = l.restarted
  BY <1>2, LaneFields DEF Fine, TypedLane
<1> HIDE DEF m, held
<1>4. Steady(m) /\ Steady(held) BY <1>2, <1>3 DEF Steady, Reasons, Begun, Live
<1>5. Onward(l, m, {}, fresh) /\ Onward(l, held, {}, fresh)
  BY <1>2, <1>3 DEF Onward, Live, Begun
<1> QED BY <1>1, <1>4, <1>5, ReplyAdvances

\* A resume lifts every hold there is, or it would not be one.
LEMMA ResumeAdvances ==
    ASSUME NEW l, Fine(l), Steady(l), NEW t, CanResume(l, t), NEW fresh
    PROVE  Advances(l, Resume(l), {}, fresh)
<1> DEFINE m == [l EXCEPT !.holds = @ \ {"operator", "restarted"}]
<1>1. /\ DOMAIN m = DOMAIN l /\ m.state = l.state /\ m.holds = l.holds \ {"operator", "restarted"}
      /\ m.proposal = l.proposal /\ m.tasks = l.tasks /\ m.successor = l.successor
      /\ m.restarted = l.restarted
  BY LaneFields DEF Fine, TypedLane
<1>2. Resume(l) = ResumeWhenFree(m) BY DEF Resume
<1> HIDE DEF m
<1>3. Fine(m) BY <1>1 DEF Fine, TypedLane, TypedRecord, Rests
<1>4. m.holds = {} BY <1>1 DEF CanResume, Steady, Reasons
<1>5. IsFlying(m) BY <1>1 DEF CanResume, Holding, IsFlying, Live
<1> QED BY <1>1, <1>2, <1>3, <1>4, <1>5, ResumingAdvances

\* A lane that is aborted goes on no more.
LEMMA AbortAdvances ==
    ASSUME NEW l, Fine(l), IsFlying(l), NEW fresh
    PROVE  Advances(l, Abort(l), {}, fresh)
<1> DEFINE m == Abort(l).lane
<1>1. /\ m.state = "aborted" /\ m.holds = {} /\ m.proposal = l.proposal /\ ~m.restarted
      /\ m.tasks = [i \in DOMAIN l.tasks |->
                      IF Flies(l.proposal) /\ l.tasks[i] = "active" THEN "cancelled" ELSE l.tasks[i]]
      /\ m.successor = NoSuccessor /\ Abort(l).effect.do = "abort"
  BY LaneFields DEF Fine, TypedLane, Abort, Reply
<1> HIDE DEF m
<1>2. EndedOf(l.tasks) \subseteq EndedOf(m.tasks) BY <1>1 DEF EndedOf, Ended
<1>3. Steady(m) BY <1>1 DEF Steady, Begun
<1>4. Onward(l, m, {}, fresh) BY <1>1, <1>2 DEF Onward, Begun, Live, IsFlying
<1> QED BY <1>1, <1>3, <1>4 DEF Advances, m

\* A revision takes over now, or waits.
LEMMA ReviseAdvances ==
    ASSUME NEW l, Fine(l), Steady(l), CanRevise(l), NEW plan \in AnyPlan, NEW within, NEW t
    PROVE  Advances(l, Revise(l, plan, within, t), {}, {plan})
<1> DEFINE drafted == Draft(l, plan)
<1>1. "restarted" \notin l.holds /\ Live(l) BY DEF CanRevise, Fine, Rests
<1>2. /\ Fine(drafted) /\ drafted.state = l.state /\ drafted.holds = l.holds
      /\ {"plan", "admitted", "basis", "approval"} \subseteq DOMAIN drafted.successor
      /\ drafted.successor.plan = plan
  BY <1>1, DraftIsFine
<1>3. Onward(l, drafted, {}, {plan}) /\ Steady(drafted) /\ Live(drafted) BY <1>1, DraftGoesOn
<1> HIDE DEF drafted
<1>4. Advances(l, Reply(drafted, "none"), {}, {plan}) BY <1>3, ReplyAdvances
<1> DEFINE reply == AdmitSuccessor(drafted, Bind(l.approval, plan), "withinEnvelope")
<1>5. Advances(drafted, reply, {}, {plan}) BY <1>1, <1>2, <1>3, AdmitSuccessorAdvances
<1> HIDE DEF reply
<1>6. Advances(l, reply, {}, {plan}) BY <1>2, <1>3, <1>5, OnwardAdvances
<1> QED BY <1>4, <1>6 DEF Revise, drafted, reply

\* An answer ends nothing yet.
LEMMA AnswerAdvances ==
    ASSUME NEW l, Fine(l), Steady(l), NEW fresh
    PROVE  Advances(l, Answer(l), {}, fresh)
<1> DEFINE m == [l EXCEPT !.answered = TRUE]
<1>1. /\ m.state = l.state /\ m.holds = l.holds /\ m.restarted = l.restarted
      /\ m.proposal = l.proposal /\ m.tasks = l.tasks /\ m.successor = l.successor
  BY LaneFields DEF Fine, TypedLane
<1> HIDE DEF m
<1>2. Steady(m) /\ Onward(l, m, {}, fresh) BY <1>1, SameGoesOn DEF Steady, Live
<1> QED BY <1>2, ReplyAdvances DEF Answer, m

\* An expiry is answered by a way home, by a hold, or by one more reason to hold.
LEMMA OnClockAdvances ==
    ASSUME NEW l, Fine(l), Steady(l), NEW home \in AnyPlan, NEW t, ExpiredNow(l, t)
    PROVE  Advances(l, OnClock(l, home, t), {}, {home})
<1> DEFINE late == [l EXCEPT !.expired = TRUE]
           m == WithHold(late, "approvalExpired")
           held == [m EXCEPT !.state = "holdRequested"]
<1>1. Live(l) BY DEF ExpiredNow
<1>2. /\ DOMAIN late = DOMAIN l /\ late.state = l.state /\ late.holds = l.holds
      /\ late.proposal = l.proposal /\ late.tasks = l.tasks /\ late.successor = l.successor
      /\ late.restarted = l.restarted
  BY LaneFields DEF Fine, TypedLane
<1>3. Fine(late) BY <1>2, Alike
<1>4. CASE l.approval.onExpiry = "home" /\ Flies(l.proposal)
  <2> DEFINE drafted == Draft(late, home)
  <2>1. "restarted" \notin late.holds BY <1>2, <1>4 DEF Fine, Rests
  <2> HIDE DEF late
  <2>2. Steady(late) /\ Live(late) /\ Onward(l, late, {}, {home})
    BY <1>1, <1>2, SameGoesOn DEF Steady, Live
  <2>3. /\ Fine(drafted) /\ drafted.state = late.state /\ drafted.holds = late.holds
        /\ {"plan", "admitted", "basis", "approval"} \subseteq DOMAIN drafted.successor
        /\ drafted.successor.plan = home
    BY <1>3, <2>1, DraftIsFine
  <2>4. Onward(late, drafted, {}, {home}) /\ Steady(drafted) /\ Live(drafted)
    BY <1>3, <2>2, DraftGoesOn
  <2>5. OnClock(l, home, t) = AdmitSuccessor(drafted, Bind(l.approval, home), "expiryRecovery")
    BY <1>4 DEF OnClock, late
  <2> HIDE DEF drafted
  <2> DEFINE reply == OnClock(l, home, t)
  <2>6. Advances(drafted, reply, {}, {home}) BY <2>1, <2>3, <2>4, <2>5, AdmitSuccessorAdvances
  <2> HIDE DEF reply
  <2>7. Advances(late, reply, {}, {home}) BY <2>3, <2>4, <2>6, OnwardAdvances
  <2>8. Advances(l, reply, {}, {home}) BY <1>2, <2>2, <2>7, OnwardAdvances
  <2> QED BY <2>8 DEF reply
<1>5. CASE ~(l.approval.onExpiry = "home" /\ Flies(l.proposal))
  <2>1. OnClock(l, home, t) = IF l.state = "running" THEN Reply(held, "hold") ELSE Reply(m, "none")
    BY <1>5 DEF OnClock
  <2>2. /\ DOMAIN m = DOMAIN l /\ m.state = l.state /\ m.holds = l.holds \cup {"approvalExpired"}
        /\ m.proposal = l.proposal /\ m.tasks = l.tasks /\ m.successor = l.successor
        /\ m.restarted = l.restarted
    BY <1>2, LaneFields DEF Fine, TypedLane, WithHold
  <2>3. /\ held.state = "holdRequested"
        /\ held.holds = l.holds \cup {"approvalExpired"}
        /\ held.proposal = l.proposal /\ held.tasks = l.tasks /\ held.successor = l.successor
        /\ held.restarted = l.restarted
    BY <2>2, LaneFields DEF Fine, TypedLane
  <2> HIDE DEF m, held
  <2>4. Steady(m) /\ Steady(held) BY <1>1, <2>2, <2>3 DEF Steady, Reasons, Begun, Live
  <2>5. Onward(l, m, {}, {home}) /\ Onward(l, held, {}, {home})
    BY <1>1, <2>2, <2>3 DEF Onward, Live, Begun
  <2> QED BY <2>1, <2>4, <2>5, ReplyAdvances
<1> QED BY <1>4, <1>5

\* A recovery takes over at once.
LEMMA RecoveryAdvances ==
    ASSUME NEW l, Fine(l), Steady(l), Live(l), Flies(l.proposal), NEW home \in AnyPlan, NEW fresh,
           home \in fresh
    PROVE  Advances(l, RecoverFromLostControl(l, home), {}, fresh)
<1> DEFINE drafted == Draft(l, home)
           m == Admitted(drafted, Bind(l.approval, home), "controlLossRecovery")
<1>1. "restarted" \notin l.holds BY DEF Fine, Rests
<1>2. /\ Fine(drafted) /\ drafted.state = l.state /\ drafted.holds = l.holds
      /\ {"plan", "admitted", "basis", "approval"} \subseteq DOMAIN drafted.successor
      /\ drafted.successor.plan = home
  BY <1>1, DraftIsFine
<1>3. /\ Onward(l, drafted, {}, {home}) /\ Steady(drafted) BY DraftGoesOn
<1>4. DOMAIN drafted = DOMAIN NewLane BY <1>2 DEF Fine, TypedLane
<1> HIDE DEF drafted
<1>5. /\ Fine(m) /\ m.state = drafted.state /\ m.holds = drafted.holds
      /\ m.proposal = drafted.proposal
      /\ m.tasks = drafted.tasks /\ m.restarted = drafted.restarted
      /\ m.successor.plan = home
  <2>1. Fine(m) /\ m.state = drafted.state /\ m.holds = drafted.holds
    BY <1>1, <1>2, AdmittedIsFine
  <2>2. /\ m.proposal = drafted.proposal
        /\ m.tasks = drafted.tasks /\ m.restarted = drafted.restarted
        /\ m.successor.plan = home
    BY <1>2, <1>4, LaneFields DEF Admitted
  <2> QED BY <2>1, <2>2
<1> HIDE DEF m
<1>6. Steady(m) /\ Live(m) BY <1>2, <1>3, <1>5 DEF Steady, Live, Begun
<1>7. Onward(l, m, {}, fresh) BY <1>2, <1>3, <1>5 DEF Onward, Live
<1>8. Advances(m, Switch(m), {}, fresh) BY <1>1, <1>2, <1>5, <1>6, SwitchAdvances DEF Fine
<1>9. Advances(l, Switch(m), {}, fresh) BY <1>2, <1>5, <1>7, <1>8, OnwardAdvances
<1> QED BY <1>9 DEF RecoverFromLostControl, drafted, m

\* The end of the taker's lease starts a recovery or nothing.
LEMMA OnExecutionAdvances ==
    ASSUME NEW l, Fine(l), Steady(l), NEW execution, NEW home \in AnyPlan, NEW t
    PROVE  LET r == OnExecution(l, execution, home, t)
           IN  Advances(l, r, {}, IF r.effect.do = "start" THEN {home} ELSE {})
<1> DEFINE m == [l EXCEPT !.execution = execution]
<1>1. /\ DOMAIN m = DOMAIN l /\ m.state = l.state /\ m.holds = l.holds
      /\ m.proposal = l.proposal /\ m.tasks = l.tasks /\ m.successor = l.successor
      /\ m.restarted = l.restarted
  BY LaneFields DEF Fine, TypedLane
<1>2. OnExecution(l, execution, home, t) =
         IF l.execution # "freed" /\ RecoversFromLostControl(m, t)
         THEN RecoverFromLostControl(m, home) ELSE Reply(m, "none")
  BY DEF OnExecution
<1> HIDE DEF m
<1>3. Fine(m) /\ Steady(m) BY <1>1, Alike DEF Steady, Live
<1>4. Onward(l, m, {}, {}) /\ Onward(l, m, {}, {home}) BY <1>1, SameGoesOn DEF Live
<1>5. Advances(l, Reply(m, "none"), {}, {}) /\ Reply(m, "none").effect.do = "none"
  BY <1>3, <1>4, ReplyAdvances DEF Reply
<1>6. ASSUME RecoversFromLostControl(m, t)
      PROVE  /\ Advances(l, RecoverFromLostControl(m, home), {}, {home})
             /\ RecoverFromLostControl(m, home).effect.do = "start"
  <2> DEFINE r == RecoverFromLostControl(m, home)
  <2>1. Advances(m, r, {}, {home}) BY <1>3, <1>6, RecoveryAdvances DEF RecoversFromLostControl
  <2>2. r.effect.do = "start" BY DEF RecoverFromLostControl, Switch, StartReply
  <2> HIDE DEF r
  <2>3. Advances(l, r, {}, {home}) BY <1>1, <1>4, <2>1, OnwardAdvances
  <2> QED BY <2>2, <2>3 DEF r
<1> QED BY <1>2, <1>5, <1>6

\* What a status tells of the tasks of the lane.
DoneBy(l, progress) ==
    IF progress.plan = l.proposal
    THEN progress.finished \cup progress.cancelled \cup progress.failed ELSE {}

\* The lane takes over what its run ended, and no more.
LEMMA FoldGoesOn ==
    ASSUME NEW l, Fine(l), Steady(l), NEW progress, NEW fresh
    PROVE  LET m == Fold(l, progress)
           IN  /\ Onward(l, m, DoneBy(l, progress), fresh) /\ Steady(m)
               /\ m.execution = progress.execution
<1> DEFINE m == Fold(l, progress)
           own == progress.plan = l.proposal
           Of(i) == TaskOf(l, progress, i)
<1> USE DEF TaskOf
<1>1. /\ DOMAIN m = DOMAIN l /\ m.holds = l.holds /\ m.proposal = l.proposal
      /\ m.successor = l.successor /\ m.restarted = l.restarted
      /\ m.state = l.state \/ (l.state = "holdRequested" /\ m.state = "held")
      /\ m.tasks = IF own THEN [i \in DOMAIN l.tasks |-> Of(i)] ELSE l.tasks
      /\ m.execution = progress.execution
  BY LaneFields DEF Fine, TypedLane, Fold
<1>2. ASSUME NEW i \in DOMAIN l.tasks
      PROVE  /\ l.tasks[i] \in Ended => Of(i) \in Ended
             /\ own /\ Of(i) \in Ended => l.tasks[i] \in Ended \/ i \in DoneBy(l, progress)
  <2>1. CASE l.tasks[i] \notin Open BY <2>1
  <2>2. CASE l.tasks[i] \in Open
    <3>1. l.tasks[i] \notin Ended BY <2>2 DEF Open, Ended
    <3>2. CASE i \in progress.finished \cup progress.cancelled \cup progress.failed
      BY <3>1, <3>2 DEF DoneBy
    <3>3. CASE i \notin progress.finished \cup progress.cancelled \cup progress.failed
      <4>1. Of(i) \in {"active", l.tasks[i]} BY <2>2, <3>3
      <4>2. Of(i) \notin Ended BY <3>1, <4>1 DEF Ended
      <4> QED BY <3>1, <4>2
    <3> QED BY <3>2, <3>3
  <2> QED BY <2>1, <2>2
<1> HIDE DEF m, Of, TaskOf
<1>3. /\ EndedOf(l.tasks) \subseteq EndedOf(m.tasks)
      /\ EndedOf(m.tasks) \subseteq EndedOf(l.tasks) \cup DoneBy(l, progress)
  <2>1. CASE own
    <3>1. m.tasks = [i \in DOMAIN l.tasks |-> Of(i)] BY <1>1, <2>1
    <3> QED BY <1>2, <2>1, <3>1 DEF EndedOf
  <2>2. CASE ~own BY <1>1, <2>2
  <2> QED BY <2>1, <2>2
<1>4. Steady(m)
  <2>1. l.state \notin Begun => m.tasks = <<>>
    <3>1. ASSUME l.tasks = <<>> PROVE m.tasks = <<>>
      <4>1. DOMAIN l.tasks = {} BY <3>1
      <4>2. [i \in DOMAIN l.tasks |-> Of(i)] = <<>> BY <4>1
      <4> QED BY <1>1, <3>1, <4>2
    <3> QED BY <3>1 DEF Steady
  <2>2. m.state \in Begun <=> l.state \in Begun BY <1>1 DEF Begun
  <2> QED BY <1>1, <2>1, <2>2 DEF Steady, Live, Begun
<1>5. Onward(l, m, DoneBy(l, progress), fresh) BY <1>1, <1>3 DEF Onward, Live, Begun
<1> QED BY <1>1, <1>4, <1>5 DEF m

\* A lane that is over ended no less.
LEMMA CloseAdvances ==
    ASSUME NEW l, NEW m, Fine(m), Steady(m), NEW done, NEW fresh, Onward(l, m, done, fresh),
           l.state \in Begun, NEW outcome \in Ended, NEW state \in {"complete", "failed"}
    PROVE  Advances(l, Reply(Close(m, outcome, state), "none"), done, fresh)
<1> DEFINE c == Close(m, outcome, state)
<1>1. /\ c.holds = m.holds /\ c.proposal = m.proposal /\ c.restarted = m.restarted
      /\ c.successor = m.successor /\ c.state = state
      /\ c.tasks = [i \in DOMAIN m.tasks |->
            IF m.tasks[i] = "active" /\ (Flies(m.proposal) \/ outcome = "completed")
            THEN outcome ELSE m.tasks[i]]
  BY LaneFields DEF Fine, TypedLane, Close
<1> HIDE DEF c
<1>2. EndedOf(m.tasks) \subseteq EndedOf(c.tasks) BY <1>1 DEF EndedOf, Ended
<1>3. Steady(c) BY <1>1 DEF Steady, Begun, Live
<1>4. Onward(l, c, done, fresh) BY <1>1, <1>2 DEF Onward, Begun, Live
<1> QED BY <1>3, <1>4, ReplyAdvances DEF c

\* Progress brings a checkpoint, an end, or a recovery.
LEMMA OnProgressAdvances ==
    ASSUME NEW l, Fine(l), ApprovedLane(l), Steady(l), "restarted" \notin l.holds, NEW progress,
           NEW home, NEW fresh, NEW t,
           \/ home \in AnyPlan /\ home \in fresh
           \/ progress.execution # "freed" \/ l.tasks = <<>>
    PROVE  Advances(l, OnProgress(l, progress, home, t), DoneBy(l, progress), fresh)
<1> DEFINE folded == Fold(l, progress)
           done == DoneBy(l, progress)
           checked == IF IsFlying(l) THEN AtCheckpoint(folded, progress.complete, t)
                                     ELSE Reply(folded, "none")
           told == [l EXCEPT !.execution = progress.execution]
           closed(outcome, state) == Reply(Close(checked.lane, outcome, state), "none")
           recovers == /\ l.tasks # <<>> /\ l.execution # "freed"
                       /\ RecoversFromLostControl(folded, t)
<1>1. /\ Fine(folded) /\ folded.holds = l.holds /\ folded.proposal = l.proposal
      /\ folded.successor = l.successor
      /\ folded.state = l.state \/ (l.state = "holdRequested" /\ folded.state = "held")
  BY FoldIsFine
<1>2. folded.execution = progress.execution /\ ApprovedLane(folded) BY FoldIsApproved
<1>3. Onward(l, folded, done, fresh) /\ Steady(folded) BY FoldGoesOn
<1> HIDE DEF folded, done
<1>4. ASSUME NEW r, Advances(folded, r, {}, fresh) PROVE Advances(l, r, done, fresh)
  BY <1>1, <1>3, <1>4, OnwardAdvances
<1>5. Advances(l, checked, done, fresh)
  <2>1. CASE IsFlying(l)
    <3>1. IsFlying(folded) /\ checked = AtCheckpoint(folded, progress.complete, t)
      BY <1>1, <2>1 DEF IsFlying, Live
    <3> QED BY <1>1, <1>2, <1>3, <1>4, <3>1, CheckpointAdvances
  <2>2. CASE ~IsFlying(l) BY <1>3, <2>2, ReplyAdvances
  <2> QED BY <2>1, <2>2
<1>6. Fine(checked.lane)
  <2>1. CASE IsFlying(l)
    <3>1. folded.state # "idle" /\ checked = AtCheckpoint(folded, progress.complete, t)
      BY <1>1, <2>1 DEF IsFlying, Live
    <3> QED BY <1>1, <1>2, <3>1, CheckpointSteers DEF Steered
  <2>2. CASE ~IsFlying(l) BY <1>1, <2>2 DEF Reply
  <2> QED BY <2>1, <2>2
<1>7. CASE l.tasks = <<>>
  <2>1. OnProgress(l, progress, home, t) = Reply(told, "none") BY <1>7 DEF OnProgress
  <2>2. /\ told.state = l.state /\ told.holds = l.holds /\ told.restarted = l.restarted
        /\ told.proposal = l.proposal /\ told.tasks = l.tasks /\ told.successor = l.successor
    BY LaneFields DEF Fine, TypedLane
  <2> HIDE DEF told
  <2>3. Steady(told) /\ Onward(l, told, done, fresh) BY <2>2, SameGoesOn DEF Steady, Live
  <2> QED BY <2>1, <2>3, ReplyAdvances DEF done
<1>8. CASE recovers
  <2>1. OnProgress(l, progress, home, t) = RecoverFromLostControl(folded, home)
    BY <1>8 DEF OnProgress, folded
  <2>2. home \in AnyPlan /\ home \in fresh /\ Live(folded) /\ Flies(folded.proposal)
    BY <1>2, <1>8 DEF RecoversFromLostControl
  <2>3. Advances(folded, RecoverFromLostControl(folded, home), {}, fresh)
    BY <1>1, <1>3, <2>2, RecoveryAdvances
  <2> QED BY <1>4, <2>1, <2>3 DEF done
<1>9. CASE l.tasks # <<>> /\ ~recovers
  <2>1. OnProgress(l, progress, home, t) =
           IF checked.effect.do # "none" THEN checked
           ELSE CASE progress.complete /\ IsFlying(l) -> closed("completed", "complete")
                  [] ~progress.complete /\ progress.ended /\ IsFlying(l) -> closed("failed", "failed")
                  [] OTHER -> Reply(checked.lane, "none")
    BY <1>9 DEF OnProgress, folded
  <2>2. CASE checked.effect.do # "none" BY <1>5, <2>1, <2>2 DEF done
  <2>3. CASE checked.effect.do = "none"
    <3> HIDE DEF checked
    <3>1. Steady(checked.lane) /\ Onward(l, checked.lane, done, fresh)
      BY <1>5, <2>3 DEF Advances, Begins, TakesOver, Orders
    <3>2. IsFlying(l) => /\ Advances(l, closed("completed", "complete"), done, fresh)
                         /\ Advances(l, closed("failed", "failed"), done, fresh)
      BY <1>6, <3>1, CloseAdvances DEF Ended, IsFlying, Live, Begun
    <3>3. Advances(l, Reply(checked.lane, "none"), done, fresh) BY <3>1, ReplyAdvances
    <3>4. /\ OnProgress(l, progress, home, t) \in
                {closed("completed", "complete"), closed("failed", "failed"), Reply(checked.lane, "none")}
          /\ ~IsFlying(l) => OnProgress(l, progress, home, t) = Reply(checked.lane, "none")
      BY <2>1, <2>3
    <3> HIDE DEF closed
    <3> QED BY <3>2, <3>3, <3>4 DEF done
  <2> QED BY <2>2, <2>3
<1> QED BY <1>7, <1>8, <1>9

-----------------------------------------------------------------------------
(* What the lane, its orders, its run and its record are to each other.    *)

\* A lane that goes on with its plan.
LEMMA OnwardLeads ==
    ASSUME NEW l, Fine(l), NEW m, Fine(m), Steady(m), NEW n \in Nat, NEW k \in Nat, n <= k,
           NEW u, NEW a, NEW r, NEW j, Led(l, n, u, a, NoOrder, r, j),
           NEW done, NEW fresh, Onward(l, m, done, fresh),
           \A p \in fresh : p.digest > n,
           m.successor # NoSuccessor /\ m.successor.plan \in fresh => m.successor.plan.digest <= k,
           done # {} => /\ r # NoRun /\ r.plan = l.proposal
                        /\ ~r.gone /\ ~Flies(r.plan) => done \subseteq r.finished
    PROVE  Led(m, k, u, a, NoOrder, r, j)
<1>1. /\ l.state # "idle" => l.proposal \in AnyPlan
      /\ l.successor # NoSuccessor => l.successor.plan \in AnyPlan
      /\ m.successor # NoSuccessor => m.successor.plan \in AnyPlan
      /\ l.state \in States /\ m.state \in States
  BY DEF Fine, TypedLane, TypedRecord
<1>2. \A p \in AnyPlan : p.digest \in Nat BY DEF AnyPlan
<1>3. ASSUME NEW p, Used(p, l, n) PROVE Used(p, m, k)
  <2>1. p.digest \in Nat /\ p.digest <= n /\ p.digest <= k BY <1>2, <1>3 DEF Used
  <2>2. m.successor # NoSuccessor => p.digest < m.successor.plan.digest
    BY <1>1, <1>2, <1>3, <2>1 DEF Used, Onward
  <2>3. m.state \in {"proposed", "admitted"} => p.digest < m.proposal.digest
    <3>1. m.state \in {"proposed", "admitted"} => l.state \in {"proposed", "admitted"}
      BY <1>1 DEF Onward, Begun, States
    <3> QED BY <1>3, <3>1 DEF Used, Onward
  <2> QED BY <1>3, <2>1, <2>2, <2>3 DEF Used
<1>4. Dated(m, k)
  <2>1. m.state # "idle" => m.proposal.digest <= k BY <1>1, <1>2 DEF Led, Dated, Onward
  <2>2. ASSUME m.successor # NoSuccessor
        PROVE  m.proposal.digest < m.successor.plan.digest /\ m.successor.plan.digest <= k
    <3>1. l.state # "idle" /\ l.proposal.digest \in Nat /\ l.proposal.digest <= n
      BY <1>1, <1>2, <2>2 DEF Steady, Onward, Begun, Led, Dated
    <3>2. m.successor.plan.digest \in Nat BY <1>1, <1>2, <2>2
    <3>3. CASE m.successor.plan \in fresh BY <2>2, <3>1, <3>2, <3>3 DEF Onward
    <3>4. CASE l.successor # NoSuccessor /\ m.successor.plan = l.successor.plan
      BY <3>1, <3>2, <3>4 DEF Led, Dated, Onward
    <3> QED BY <2>2, <3>3, <3>4 DEF Onward
  <2> QED BY <2>1, <2>2 DEF Dated
<1>5. ASSUME NEW o, Given(o, l, n), o # NoOrder /\ o.plan = l.proposal /\ Live(l) => done = {}
      PROVE  Given(o, m, k)
  <2> SUFFICES ASSUME o # NoOrder PROVE Given(o, m, k) BY DEF Given
  <2>1. Used(o.plan, m, k) /\ o.todo \subseteq Numbers(o.plan) BY <1>3, <1>5 DEF Given
  <2>2. o.plan = m.proposal /\ Live(m) => EndedOf(m.tasks) \cap o.todo = {}
    BY <1>5 DEF Given, Onward
  <2> QED BY <2>1, <2>2 DEF Given
<1>6. Given(u, m, k) /\ Given(a, m, k)
  <2>1. u # NoOrder /\ u.plan = l.proposal /\ Live(l) => done = {} BY DEF Led, Sole
  <2>2. a # NoOrder /\ a.plan = l.proposal /\ Live(l) => done = {} BY DEF Led, Sole
  <2> QED BY <1>5, <2>1, <2>2 DEF Led
<1>7. RunLed(r, m, j, k)
  <2> SUFFICES ASSUME r # NoRun PROVE RunLed(r, m, j, k) BY DEF RunLed
  <2>1. Used(r.plan, m, k) BY <1>3 DEF Led, RunLed
  <2>2. ASSUME r.plan = m.proposal, Live(m), ~r.gone
        PROVE  /\ j # NoRecord /\ j.proposal = r.plan
               /\ ~Flies(r.plan) =>
                     /\ EndedOf(m.tasks) \subseteq (Numbers(r.plan) \ r.todo) \cup r.finished
                     /\ 1 .. r.active - 1 \subseteq EndedOf(j.tasks)
    <3>1. r.plan = l.proposal /\ Live(l) BY <2>2 DEF Onward
    <3>2. /\ j # NoRecord /\ j.proposal = r.plan
          /\ ~Flies(r.plan) =>
                /\ EndedOf(l.tasks) \subseteq (Numbers(r.plan) \ r.todo) \cup r.finished
                /\ 1 .. r.active - 1 \subseteq EndedOf(j.tasks)
      BY <2>2, <3>1 DEF Led, RunLed
    <3>3. ~Flies(r.plan) => done \subseteq r.finished BY <2>2
    <3> QED BY <2>2, <3>2, <3>3 DEF Onward
  <2> QED BY <2>1, <2>2 DEF RunLed
<1>8. JournalOk(j, m, k) BY <1>3 DEF Led, JournalOk, Onward
<1>9. Sole(m, u, a, NoOrder, r) BY DEF Led, Sole, Onward
<1> QED BY <1>4, <1>6, <1>7, <1>8, <1>9 DEF Led, Given

\* A lane that orders its plan anew, which is nowhere yet.
LEMMA OrderLeads ==
    ASSUME NEW l, NEW n \in Nat, NEW k \in Nat, n <= k, NEW reply, LET m == reply.lane IN Fine(m),
           NEW u, NEW a, NEW r, NEW j, Led(l, n, u, a, NoOrder, r, j),
           Steady(reply.lane), Orders(reply), reply.lane.proposal.digest <= k,
           \A p : (u # NoOrder /\ p = u.plan) \/ (a # NoOrder /\ p = a.plan) \/ (r # NoRun /\ p = r.plan)
                     => p # reply.lane.proposal,
           j # NoRecord /\ j.proposal = reply.lane.proposal
              => EndedOf(j.tasks) \subseteq EndedOf(reply.lane.tasks)
    PROVE  Led(reply.lane, k, u, a, reply.effect.order, r, j)
<1> DEFINE m == reply.lane
           s == reply.effect.order
<1>1. m.state \in Begun /\ m.successor = NoSuccessor /\ s.plan = m.proposal
      /\ EndedOf(m.tasks) \cap s.todo = {} /\ s.todo \subseteq Numbers(s.plan)
  BY DEF Orders
<1>2. m.proposal \in AnyPlan BY <1>1 DEF Fine, TypedLane, TypedRecord, Begun
<1>3. /\ u # NoOrder => u.plan # m.proposal
      /\ a # NoOrder => a.plan # m.proposal
      /\ r # NoRun => r.plan # m.proposal
  OBVIOUS
<1>4. /\ Steady(m) /\ m.proposal.digest <= k
      /\ j # NoRecord /\ j.proposal = m.proposal => EndedOf(j.tasks) \subseteq EndedOf(m.tasks)
  OBVIOUS
<1> HIDE DEF m, s
<1>5. ASSUME NEW p, Used(p, l, n) PROVE Used(p, m, k)
  <2>1. p.digest \in Nat /\ p.digest <= n BY <1>5 DEF Used, AnyPlan
  <2> QED BY <1>1, <1>5, <2>1 DEF Used, Begun
<1>6. Dated(m, k) BY <1>1, <1>4 DEF Dated
<1>7. Given(u, m, k) /\ Given(a, m, k) /\ RunLed(r, m, j, k)
  BY <1>3, <1>5 DEF Led, Given, RunLed
<1>8. Given(s, m, k) BY <1>1, <1>2, <1>4 DEF Given, Used, Begun
<1>9. JournalOk(j, m, k) BY <1>4, <1>5 DEF Led, JournalOk
<1>10. Sole(m, u, a, s, r) BY <1>3 DEF Sole
<1> QED BY <1>4, <1>6, <1>7, <1>8, <1>9, <1>10 DEF Led, m, s

\* A call: what it orders is nowhere yet.
LEMMA AdvanceLeads ==
    ASSUME NEW l, Fine(l), NEW reply, LET m == reply.lane IN Fine(m),
           NEW n \in Nat, NEW k \in Nat, n <= k,
           NEW u, NEW a, NEW r, NEW j, Led(l, n, u, a, NoOrder, r, j),
           NEW done, NEW fresh, Advances(l, reply, done, fresh),
           \A p \in fresh : p.digest > n,
           LET m == reply.lane
           IN  /\ m.proposal \in fresh => m.proposal.digest <= k
               /\ m.successor # NoSuccessor /\ m.successor.plan \in fresh =>
                     m.successor.plan.digest <= k,
           done # {} => /\ r # NoRun /\ r.plan = l.proposal
                        /\ ~r.gone /\ ~Flies(r.plan) => done \subseteq r.finished,
           "restarted" \in l.holds => r = NoRun /\ u = NoOrder /\ a = NoOrder
    PROVE  /\ reply.effect.do # "start" => Led(reply.lane, k, u, a, NoOrder, r, j)
           /\ reply.effect.do = "start" =>
                 /\ Led(reply.lane, k, u, a, reply.effect.order, r, j)
                 /\ reply.effect.order.plan = reply.lane.proposal
<1> DEFINE m == reply.lane
<1>1. CASE reply.effect.do # "start" /\ Onward(l, m, done, fresh)
  <2>1. Steady(m) BY DEF Advances
  <2> QED BY <1>1, <2>1, OnwardLeads
<1>2. ASSUME NEW p, (u # NoOrder /\ p = u.plan) \/ (a # NoOrder /\ p = a.plan)
                       \/ (r # NoRun /\ p = r.plan) \/ (j # NoRecord /\ p = j.proposal)
      PROVE  Used(p, l, n) /\ p.digest \in Nat /\ p.digest <= n
  <2>1. Used(p, l, n) BY <1>2 DEF Led, Given, RunLed, JournalOk
  <2> QED BY <2>1 DEF Used, AnyPlan
<1>3. CASE Begins(l, reply)
  <2>1. Steady(m) /\ Orders(reply) /\ reply.effect.do = "start" /\ m.proposal = l.proposal
        /\ reply.effect.order.plan = m.proposal /\ l.state # "idle"
    BY <1>3 DEF Advances, Begins, Orders
  <2>2. l.proposal.digest <= k
    <3>1. l.proposal.digest \in Nat /\ l.proposal.digest <= n
      BY <2>1 DEF Led, Dated, Fine, TypedLane, TypedRecord, AnyPlan
    <3> QED BY <3>1
  <2>3. j # NoRecord /\ j.proposal = m.proposal => EndedOf(j.tasks) \subseteq EndedOf(m.tasks)
    BY <1>3 DEF Led, JournalOk, Begins
  <2>4. ASSUME NEW p, (u # NoOrder /\ p = u.plan) \/ (a # NoOrder /\ p = a.plan)
                         \/ (r # NoRun /\ p = r.plan)
        PROVE  p # m.proposal
    <3>1. l.state = "admitted" BY <1>3, <2>4 DEF Begins
    <3>2. Used(p, l, n) /\ p.digest \in Nat BY <1>2, <2>4
    <3>3. p.digest < l.proposal.digest BY <3>1, <3>2 DEF Used
    <3> QED BY <2>1, <3>2, <3>3
  <2>5. Led(m, k, u, a, reply.effect.order, r, j) BY <2>1, <2>2, <2>3, <2>4, OrderLeads
  <2> QED BY <2>1, <2>5
<1>4. CASE TakesOver(l, reply, fresh)
  <2>1. Steady(m) /\ Orders(reply) /\ reply.effect.do = "start"
        /\ reply.effect.order.plan = m.proposal
    BY <1>4 DEF Advances, TakesOver, Orders
  <2>2. m.proposal \in AnyPlan /\ m.proposal.digest \in Nat
    BY <2>1 DEF Fine, TypedLane, TypedRecord, Begun, AnyPlan, Orders
  <2>3. /\ m.proposal.digest <= k
        /\ \A p : Used(p, l, n) => p.digest < m.proposal.digest
    <3>1. CASE m.proposal \in fresh
      <4>1. m.proposal.digest > n /\ m.proposal.digest <= k BY <3>1
      <4> QED BY <2>2, <4>1 DEF Used, AnyPlan
    <3>2. CASE l.successor # NoSuccessor /\ m.proposal = l.successor.plan
      <4>1. m.proposal.digest <= n BY <3>2 DEF Led, Dated
      <4> QED BY <2>2, <3>2, <4>1 DEF Used
    <3> QED BY <1>4, <3>1, <3>2 DEF TakesOver
  <2>4. \A p : Used(p, l, n) => p # m.proposal BY <2>2, <2>3
  <2>5. j # NoRecord /\ j.proposal = m.proposal => EndedOf(j.tasks) \subseteq EndedOf(m.tasks)
    BY <1>2, <2>4
  <2>6. \A p : (u # NoOrder /\ p = u.plan) \/ (a # NoOrder /\ p = a.plan)
                         \/ (r # NoRun /\ p = r.plan) => p # m.proposal
    BY <1>2, <2>4
  <2>7. Led(m, k, u, a, reply.effect.order, r, j) BY <2>1, <2>3, <2>5, <2>6, OrderLeads
  <2> QED BY <2>1, <2>7
<1> QED BY <1>1, <1>3, <1>4 DEF Advances

\* Orders that are dropped or put elsewhere.
LEMMA LedMoves ==
    ASSUME NEW l, NEW n, NEW u, NEW a, NEW s, NEW r, NEW j, Led(l, n, u, a, s, r, j)
    PROVE  /\ Led(l, n, s, a, NoOrder, r, j) /\ Led(l, n, u, s, NoOrder, r, j)
           /\ Led(l, n, u, NoOrder, a, r, j) /\ Led(l, n, NoOrder, a, u, r, j)
           /\ Led(l, n, NoOrder, NoOrder, s, r, j) /\ Led(l, n, u, a, s, NoRun, j)
           /\ Led(l, n, a, NoOrder, NoOrder, NoRun, j)
<1>1. Given(NoOrder, l, n) /\ RunLed(NoRun, l, j, n) BY DEF Given, RunLed
<1>2. Sole(l, u, a, s, r) BY DEF Led
<1>3. /\ Sole(l, s, a, NoOrder, r) /\ Sole(l, u, s, NoOrder, r)
      /\ Sole(l, u, NoOrder, a, r) /\ Sole(l, NoOrder, a, u, r)
      /\ Sole(l, NoOrder, NoOrder, s, r) /\ Sole(l, u, a, s, NoRun)
      /\ Sole(l, a, NoOrder, NoOrder, NoRun)
  BY <1>2 DEF Sole
<1> QED BY <1>1, <1>3 DEF Led

\* A lane at work has a record of its own.
LEMMA RecordIsOne ==
    ASSUME NEW l, Fine(l), ApprovedLane(l), Live(l)
    PROVE  Record(l) # NoRecord /\ Record(l).proposal = l.proposal
<1>1. l.tasks \in [Numbers(l.proposal) -> Statuses] /\ l.proposal \in AnyPlan
  BY DEF Fine, TypedLane, TypedRecord, Live, Flying
<1>2. l.approval \in Approval BY FlyingIsApproved DEF IsFlying
<1>3. l.tasks # <<>>
  <2>1. 1 \in DOMAIN l.tasks BY <1>1, NumbersAreNaturals
  <2> QED BY <2>1
<1>4. l.tasks \in Seq(Open \cup Ended)
  <2>1. PICK len \in Nat : Numbers(l.proposal) = 1 .. len BY <1>1, NumbersAreNaturals
  <2>2. Statuses = Open \cup Ended BY DEF Statuses, Open, Ended
  <2>3. l.tasks \in [1 .. len -> Open \cup Ended] BY <1>1, <2>1, <2>2
  <2> QED BY <2>3
<1>5. Record(l) = [proposal |-> l.proposal, approval |-> l.approval, state |-> l.state,
                   tasks |-> l.tasks]
  BY <1>3 DEF Record
<1>6. Record(l) \in [proposal : AnyPlan, approval : Approval,
                     state : {"running", "holdRequested", "held"}, tasks : Seq(Open \cup Ended)]
  BY <1>1, <1>2, <1>4, <1>5 DEF Live
<1> QED BY <1>5, <1>6, RecordAssumption DEF Approval

\* The record of the lane may take the place of the one before.
LEMMA RecordLeads ==
    ASSUME NEW l, Fine(l), ApprovedLane(l), NEW n \in Nat,
           NEW u, NEW a, NEW s, NEW r, NEW j, Led(l, n, u, a, s, r, j)
    PROVE  Led(l, n, u, a, s, r, Record(l)) /\ \A o : StartingOk(o, l, Record(l))
<1>1. Live(l) => Record(l) # NoRecord /\ Record(l).proposal = l.proposal BY RecordIsOne
<1>2. Record(l) # NoRecord =>
         /\ l.tasks # <<>>
         /\ Record(l).proposal = l.proposal /\ Record(l).tasks = l.tasks
         /\ Record(l).state = l.state
  BY DEF Record
<1>3. JournalOk(Record(l), l, n)
  <2> SUFFICES ASSUME Record(l) # NoRecord PROVE JournalOk(Record(l), l, n) BY DEF JournalOk
  <2>1. l.state \in Begun BY <1>2 DEF Led, Steady
  <2>2. Used(l.proposal, l, n)
    BY <2>1 DEF Used, Led, Dated, Fine, TypedLane, TypedRecord, Begun
  <2> QED BY <1>2, <2>1, <2>2 DEF JournalOk
<1>4. RunLed(r, l, Record(l), n)
  <2> SUFFICES ASSUME r # NoRun, r.plan = l.proposal, Live(l), ~r.gone
               PROVE  /\ Record(l) # NoRecord /\ Record(l).proposal = r.plan
                      /\ ~Flies(r.plan) =>
                            /\ EndedOf(l.tasks) \subseteq (Numbers(r.plan) \ r.todo) \cup r.finished
                            /\ 1 .. r.active - 1 \subseteq EndedOf(Record(l).tasks)
    BY DEF Led, RunLed
  <2>1. /\ j # NoRecord /\ j.proposal = r.plan
        /\ ~Flies(r.plan) =>
              /\ EndedOf(l.tasks) \subseteq (Numbers(r.plan) \ r.todo) \cup r.finished
              /\ 1 .. r.active - 1 \subseteq EndedOf(j.tasks)
    BY DEF Led, RunLed
  <2>2. EndedOf(j.tasks) \subseteq EndedOf(Record(l).tasks)
    BY <1>1, <1>2, <2>1 DEF Led, JournalOk
  <2> QED BY <1>1, <2>1, <2>2
<1> QED BY <1>1, <1>3, <1>4 DEF Led, StartingOk

\* A run begins with its order.
LEMMA SpawnIsLed ==
    ASSUME NEW l, Fine(l), NEW n \in Nat, NEW u, NEW a, NEW o, NEW r, NEW j,
           Led(l, n, u, a, o, r, j), o # NoOrder, StartingOk(o, l, j)
    PROVE  Led(l, n, u, a, NoOrder, NewRunOf(o), j) /\ RunOk(NewRunOf(o))
<1> DEFINE new == NewRunOf(o)
<1>1. /\ new.plan = o.plan /\ new.todo = o.todo /\ new.finished = {} /\ new.active = 0
      /\ new.cancelled = {} /\ new.failed = {}
  BY DEF NewRunOf
<1> HIDE DEF new
<1>2. Used(o.plan, l, n) /\ o.todo \subseteq Numbers(o.plan) BY DEF Led, Given
<1>3. RunOk(new) BY <1>1, <1>2 DEF RunOk
<1>4. RunLed(new, l, j, n)
  <2> SUFFICES ASSUME new.plan = l.proposal, Live(l)
               PROVE  /\ j # NoRecord /\ j.proposal = new.plan
                      /\ EndedOf(l.tasks) \subseteq (Numbers(new.plan) \ new.todo) \cup new.finished
                      /\ 1 .. new.active - 1 \subseteq EndedOf(j.tasks)
    BY <1>1, <1>2 DEF RunLed
  <2>1. j # NoRecord /\ j.proposal = new.plan BY <1>1 DEF StartingOk
  <2>2. EndedOf(l.tasks) \subseteq Numbers(l.proposal)
    BY DEF EndedOf, Fine, TypedLane, TypedRecord, Live, Flying
  <2>3. EndedOf(l.tasks) \cap o.todo = {} BY <1>1 DEF Led, Given
  <2>4. 1 .. 0 - 1 = {} OBVIOUS
  <2> QED BY <1>1, <2>1, <2>2, <2>3, <2>4
<1>5. Sole(l, u, a, NoOrder, new) BY <1>1 DEF Led, Sole
<1>6. Given(NoOrder, l, n) BY DEF Given
<1> QED BY <1>3, <1>4, <1>5, <1>6 DEF Led, new

-----------------------------------------------------------------------------
(* The journal and the host.                                               *)

\* An order that is given waits behind a record, or its run begins behind one.
LEMMA StartRunLeads ==
    ASSUME starting = NoOrder, NEW l, Fine(l), ApprovedLane(l), lane' = l, plans' \in Nat,
           NEW order, order # NoOrder, NEW left, NEW waiting,
           Led(l, plans', left, waiting, order, run, journal), RunOk(run),
           StartRun(order, l, left, waiting)
    PROVE  HostLed'
<1>1. /\ Led(l, plans', left, waiting, order, run, Record(l))
      /\ StartingOk(order, l, Record(l))
  BY RecordLeads
<1>2. StartingOk(NoOrder, l, journal') BY DEF StartingOk
<1>3. CASE /\ Write(l, FALSE) /\ unrecorded' = order /\ afterHandBack' = waiting
           /\ UNCHANGED <<run, controls, starting>>
  <2>1. Led(l, plans', order, waiting, NoOrder, run, journal) BY LedMoves
  <2>2. journal' = journal /\ run' = run /\ starting' = NoOrder BY <1>3 DEF Write
  <2> QED BY <1>2, <1>3, <2>1, <2>2 DEF HostLed
<1>4. CASE /\ Write(l, TRUE) /\ unrecorded' = left /\ afterHandBack' = order
           /\ UNCHANGED <<run, starting>>
  <2>1. Led(l, plans', left, order, NoOrder, run, Record(l)) BY <1>1, LedMoves
  <2>2. journal' = Record(l) /\ run' = run /\ starting' = NoOrder BY <1>4 DEF Write
  <2> QED BY <1>2, <1>4, <2>1, <2>2 DEF HostLed
<1>5. CASE /\ Write(l, TRUE) /\ starting' = order /\ unrecorded' = left
           /\ afterHandBack' = waiting /\ UNCHANGED run
  <2>1. journal' = Record(l) /\ run' = run BY <1>5 DEF Write
  <2> QED BY <1>1, <1>5, <2>1 DEF HostLed
<1>6. CASE /\ Write(l, TRUE) /\ Spawn(order, l) /\ unrecorded' = left
           /\ afterHandBack' = waiting /\ UNCHANGED starting
  <2>1. /\ Led(l, plans', left, waiting, NoOrder, NewRunOf(order), Record(l))
        /\ RunOk(NewRunOf(order))
    BY <1>1, SpawnIsLed
  <2>2. journal' = Record(l) /\ run' = NewRunOf(order) /\ starting' = NoOrder
    BY <1>6 DEF Write, Spawn
  <2> QED BY <1>2, <1>6, <2>1, <2>2 DEF HostLed
<1> QED BY <1>3, <1>4, <1>5, <1>6 DEF StartRun

\* A call of the lane, and what it does to the host.
LEMMA PerformLeads ==
    ASSUME ApprovedInv, SteerInv, HostLed, starting = NoOrder, ApprovedInv', SteerInv',
           NEW r, lane' = r.lane, plans <= plans', NEW done, NEW fresh,
           Advances(lane, r, done, fresh), Steered(lane, r),
           \A p \in fresh : p.digest > plans,
           lane'.proposal \in fresh => lane'.proposal.digest <= plans',
           lane'.successor # NoSuccessor /\ lane'.successor.plan \in fresh =>
              lane'.successor.plan.digest <= plans',
           done # {} => /\ run # NoRun /\ run.plan = lane.proposal
                        /\ ~run.gone /\ ~Flies(run.plan) => done \subseteq run.finished
    PROVE  /\ r.effect.do # "start" =>
                 Led(lane', plans', unrecorded, afterHandBack, NoOrder, run, journal)
           /\ r.effect.do = "start" =>
                 /\ Led(lane', plans', unrecorded, afterHandBack, r.effect.order, run, journal)
                 /\ r.effect.order # NoOrder
           /\ Perform(r.effect, r.lane) => HostLed'
<1>1. Fine(lane) /\ Fine(lane') /\ ApprovedLane(lane') /\ plans \in Nat /\ plans' \in Nat
  BY DEF SteerInv, ApprovedInv
<1>2. Led(lane, plans, unrecorded, afterHandBack, NoOrder, run, journal) /\ RunOk(run)
  BY DEF HostLed
<1>3. "restarted" \in lane.holds => run = NoRun /\ unrecorded = NoOrder /\ afterHandBack = NoOrder
  BY DEF SteerInv, Restful, NoOrders
<1> DEFINE m == r.lane
<1>4. /\ r.effect.do # "start" =>
            Led(m, plans', unrecorded, afterHandBack, NoOrder, run, journal)
      /\ r.effect.do = "start" =>
            Led(m, plans', unrecorded, afterHandBack, r.effect.order, run, journal)
  <2>1. /\ m.proposal \in fresh => m.proposal.digest <= plans'
        /\ m.successor # NoSuccessor /\ m.successor.plan \in fresh =>
              m.successor.plan.digest <= plans'
    OBVIOUS
  <2>2. Fine(m) BY <1>1
  <2> HIDE DEF m
  <2> QED BY <1>1, <1>2, <1>3, <2>1, <2>2, AdvanceLeads DEF m
<1>5. r.effect.do = "start" => r.effect.order # NoOrder BY OrderIsOne DEF Steered, Steers
<1>6. ASSUME Perform(r.effect, r.lane) PROVE HostLed'
  <2>1. CASE r.effect.do = "start"
    <3>1. StartRun(r.effect.order, r.lane, unrecorded, afterHandBack) BY <1>6, <2>1 DEF Perform
    <3> QED BY <1>1, <1>2, <1>4, <1>5, <2>1, <3>1, StartRunLeads
  <2>2. CASE r.effect.do # "start"
    <3>1. /\ UNCHANGED <<run, starting, journal>>
          /\ \/ unrecorded' = unrecorded /\ afterHandBack' = afterHandBack
             \/ unrecorded' = NoOrder /\ afterHandBack' = NoOrder
      BY <1>6, <2>2 DEF Perform, orders, Steered, Steers, Effects
    <3>2. Led(m, plans', unrecorded', afterHandBack', NoOrder, run, journal)
      BY <1>4, <2>2, <3>1, LedMoves
    <3>3. StartingOk(NoOrder, m, journal') BY DEF StartingOk
    <3> HIDE DEF m
    <3> QED BY <1>2, <3>1, <3>2, <3>3 DEF HostLed, m
  <2> QED BY <2>1, <2>2
<1> QED BY <1>4, <1>5, <1>6

\* A new plan is nowhere yet.
LEMMA ProposeLeads ==
    ASSUME ApprovedInv, SteerInv, HostLed, starting = NoOrder, NEW kind,
           Plan(kind) \in AnyPlan, Take(Propose(lane, Plan(kind))), plans' = plans + 1
    PROVE  HostLed'
<1> DEFINE m == Propose(lane, Plan(kind)).lane
<1>1. /\ m.state = "proposed" /\ m.proposal.digest = plans + 1 /\ m.tasks = <<>>
      /\ m.successor = NoSuccessor /\ m.holds = {} /\ ~m.restarted
      /\ Propose(lane, Plan(kind)).effect.do = "none"
  BY LaneFields DEF SteerInv, Fine, TypedLane, Propose, Reply, Plan
<1>2. lane' = m /\ UNCHANGED <<run, orders, journal>> BY <1>1 DEF Take, Perform
<1> HIDE DEF m
<1>3. plans \in Nat BY DEF ApprovedInv
<1>4. ASSUME NEW p, Used(p, lane, plans) PROVE Used(p, m, plans + 1) /\ p # m.proposal
  BY <1>1, <1>3, <1>4 DEF Used, AnyPlan
<1>5. Steady(m) /\ Dated(m, plans + 1) /\ ~Live(m) BY <1>1, <1>3 DEF Steady, Dated, Begun, Live
<1>6. Led(m, plans + 1, unrecorded, afterHandBack, starting, run, journal)
  BY <1>4, <1>5 DEF HostLed, Led, Given, RunLed, JournalOk, Sole
<1>7. StartingOk(starting, m, journal) BY DEF StartingOk
<1> QED BY <1>2, <1>6, <1>7 DEF HostLed, orders

\* Intents.
LEMMA IntentLeads ==
    ASSUME ApprovedInv, SteerInv, LeadInv, ApprovedInv', SteerInv', Intent
    PROVE  LeadInv'
<1> Fine(lane) /\ ApprovedLane(lane) /\ Steady(lane) /\ plans \in Nat
  BY DEF SteerInv, ApprovedInv, LeadInv, HostLed, Led
<1>1. ASSUME NEW r, Take(r), HostLed' PROVE LeadInv' BY <1>1 DEF Take, Closes, LeadInv
<1>2. ASSUME NEW r, Take(r), Steered(lane, r), Advances(lane, r, {}, {}), plans' = plans
      PROVE  LeadInv'
  <2>1. starting = NoOrder /\ lane' = r.lane /\ Perform(r.effect, r.lane) BY <1>2 DEF Take
  <2>2. HostLed' BY <1>2, <2>1, PerformLeads DEF LeadInv
  <2> QED BY <1>1, <1>2, <2>2
<1>3. ASSUME NEW kind \in Kinds \cup {"survey"}
      PROVE  Plan(kind) \in AnyPlan /\ Plan(kind).digest = plans + 1
  BY LaneHostAssumption DEF Plan, AnyPlan
<1>4. ASSUME ProposeIntent PROVE LeadInv'
  <2>1. PICK kind \in Kinds : Take(Propose(lane, Plan(kind))) /\ plans' = plans + 1
    BY <1>4 DEF ProposeIntent
  <2>2. starting = NoOrder BY <2>1 DEF Take
  <2>3. HostLed' BY <1>3, <2>1, <2>2, ProposeLeads DEF LeadInv
  <2> QED BY <1>1, <2>1, <2>3
<1>5. ASSUME ApproveIntent PROVE LeadInv'
  BY <1>2, <1>5, ApproveSteers, ApproveAdvances DEF ApproveIntent, Approvals
<1>6. ASSUME StartIntent PROVE LeadInv'
  BY <1>2, <1>6, StartSteers, StartAdvances DEF StartIntent, CanStart
<1>7. ASSUME HoldIntent PROVE LeadInv' BY <1>2, <1>7, HoldSteers, HoldAdvances DEF HoldIntent
<1>8. ASSUME ResumeIntent PROVE LeadInv'
  BY <1>2, <1>8, ResumeSteers, ResumeAdvances DEF ResumeIntent
<1>9. ASSUME AbortIntent PROVE LeadInv'
  BY <1>2, <1>9, AbortSteers, AbortAdvances DEF AbortIntent
<1>10. ASSUME ReviseIntent PROVE LeadInv'
  <2> DEFINE plan == Plan("survey")
  <2>1. PICK within \in BOOLEAN :
          CanRevise(lane) /\ Take(Revise(lane, plan, within, now)) /\ plans' = plans + 1
    BY <1>10 DEF ReviseIntent
  <2>2. plan \in AnyPlan /\ plan.digest = plans + 1 BY <1>3
  <2> HIDE DEF plan
  <2> DEFINE r == Revise(lane, plan, within, now)
  <2>3. Steered(lane, r) /\ Advances(lane, r, {}, {plan})
    BY <2>1, <2>2, ReviseSteers, ReviseAdvances
  <2>4. starting = NoOrder /\ lane' = r.lane /\ Perform(r.effect, r.lane) /\ Take(r)
    BY <2>1 DEF Take
  <2> HIDE DEF r
  <2>5. HostLed' BY <2>1, <2>2, <2>3, <2>4, PerformLeads DEF LeadInv
  <2> QED BY <1>1, <2>4, <2>5
<1>11. ASSUME AnswerIntent PROVE LeadInv'
  BY <1>2, <1>11, AnswerSteers, AnswerAdvances DEF AnswerIntent
<1> QED BY <1>4, <1>5, <1>6, <1>7, <1>8, <1>9, <1>10, <1>11 DEF Intent

\* The clock.
LEMMA ClockLeads ==
    ASSUME ApprovedInv, SteerInv, LeadInv, ApprovedInv', SteerInv', Clock
    PROVE  LeadInv'
<1> DEFINE home == Plan("home")
           r == OnClock(lane, home, now)
<1>1. Fine(lane) /\ Steady(lane) /\ plans \in Nat
  BY DEF SteerInv, ApprovedInv, LeadInv, HostLed, Led
<1>2. home \in AnyPlan /\ home.digest = plans + 1 BY <1>1 DEF Plan, AnyPlan
<1>3. /\ starting = NoOrder /\ lane' = r.lane /\ Perform(r.effect, r.lane)
      /\ plans' = Compiled(r.lane) /\ turn' = "status" /\ ExpiredNow(lane, now)
  BY DEF Clock
<1> HIDE DEF home
<1>4. Steered(lane, r) /\ Advances(lane, r, {}, {home})
  BY <1>1, <1>2, <1>3, OnClockSteers, OnClockAdvances
<1> HIDE DEF r
<1>5. /\ plans <= plans'
      /\ lane'.proposal = home => home.digest <= plans'
      /\ lane'.successor # NoSuccessor /\ lane'.successor.plan = home => home.digest <= plans'
  BY <1>1, <1>2, <1>3 DEF Compiled
<1>6. HostLed' BY <1>1, <1>2, <1>3, <1>4, <1>5, PerformLeads DEF LeadInv
<1> QED BY <1>3, <1>6 DEF LeadInv

\* The run that lost control is over.
LEMMA ReplacedRunEndedLeads ==
    ASSUME ApprovedInv, SteerInv, LeadInv, ApprovedInv', SteerInv',
           run # NoRun, afterHandBack # NoOrder, starting = NoOrder, ReplacedRunEnded
    PROVE  HostLed'
<1>1. /\ Fine(lane) /\ ApprovedLane(lane) /\ Steady(lane) /\ plans \in Nat
      /\ Led(lane, plans, unrecorded, afterHandBack, NoOrder, run, journal) /\ RunOk(run)
  BY DEF SteerInv, ApprovedInv, LeadInv, HostLed, Led
<1>2. afterHandBack' = NoOrder /\ plans' = plans BY DEF ReplacedRunEnded
<1>3. CASE afterHandBack.recovery
  <2>1. /\ lane' = lane /\ starting' = NoOrder
        /\ \/ Write(lane, TRUE) /\ Spawn(afterHandBack, lane) /\ UNCHANGED unrecorded
           \/ /\ Write(lane, FALSE) /\ run' = NoRun /\ controls' = <<>>
              /\ unrecorded' = afterHandBack
    BY <1>3 DEF ReplacedRunEnded
  <2>2. CASE Write(lane, TRUE) /\ Spawn(afterHandBack, lane) /\ UNCHANGED unrecorded
    <3>1. journal' = Record(lane) /\ run' = NewRunOf(afterHandBack) /\ unrecorded' = unrecorded
      BY <2>2 DEF Write, Spawn
    <3>2. Led(lane, plans, unrecorded, NoOrder, afterHandBack, run, journal) BY <1>1, LedMoves
    <3>3. /\ Led(lane, plans, unrecorded, NoOrder, afterHandBack, run, Record(lane))
          /\ StartingOk(afterHandBack, lane, Record(lane))
      BY <1>1, <3>2, RecordLeads
    <3>4. /\ Led(lane, plans, unrecorded, NoOrder, NoOrder, NewRunOf(afterHandBack), Record(lane))
          /\ RunOk(NewRunOf(afterHandBack))
      BY <1>1, <3>3, SpawnIsLed
    <3>5. StartingOk(NoOrder, lane, Record(lane)) BY DEF StartingOk
    <3> QED BY <1>2, <2>1, <3>1, <3>4, <3>5 DEF HostLed
  <2>3. CASE /\ Write(lane, FALSE) /\ run' = NoRun /\ controls' = <<>>
             /\ unrecorded' = afterHandBack
    <3>1. journal' = journal BY <2>3 DEF Write
    <3>2. Led(lane, plans, afterHandBack, NoOrder, NoOrder, NoRun, journal) BY <1>1, LedMoves
    <3>3. StartingOk(NoOrder, lane, journal) /\ RunOk(NoRun) BY DEF StartingOk, RunOk
    <3> QED BY <1>2, <2>1, <2>3, <3>1, <3>2, <3>3 DEF HostLed
  <2> QED BY <2>1, <2>2, <2>3
<1>4. CASE ~afterHandBack.recovery
  <2> DEFINE progress == [Progress(seen, TRUE, FALSE) EXCEPT
                            !.plan = NoPlan, !.complete = FALSE, !.execution = "other"]
             r == OnProgress(lane, progress, NoPlan, now)
  <2>1. /\ lane' = r.lane /\ run' = NoRun
        /\ UNCHANGED <<unrecorded, starting, journal>>
    BY <1>4 DEF ReplacedRunEnded
  <2>2. progress.execution = "other" /\ progress.plan = NoPlan BY DEF Progress
  <2> HIDE DEF progress
  <2>3. "restarted" \notin lane.holds BY DEF SteerInv, Restful
  <2>4. Steered(lane, r) /\ Advances(lane, r, DoneBy(lane, progress), {})
    BY <1>1, <2>2, <2>3, OnProgressSteers, OnProgressAdvances
  <2>5. Live(lane) => DoneBy(lane, progress) = {}
    <3>1. Live(lane) => lane.proposal \in AnyPlan
      BY <1>1 DEF Fine, TypedLane, TypedRecord, Live
    <3> QED BY <2>2, <3>1, RecordAssumption DEF DoneBy
  <2>6. Advances(lane, r, {}, {})
    <3>1. \A m, done : Onward(lane, m, done, {}) /\ (Live(lane) => done = {})
                          => Onward(lane, m, {}, {})
      BY DEF Onward
    <3> HIDE DEF r
    <3> QED BY <2>4, <2>5, <3>1 DEF Advances
  <2> HIDE DEF r
  <2>7. /\ r.effect.do # "start" =>
              Led(lane', plans', unrecorded, afterHandBack, NoOrder, run, journal)
        /\ r.effect.do = "start" =>
              Led(lane', plans', unrecorded, afterHandBack, r.effect.order, run, journal)
    BY <1>1, <1>2, <2>1, <2>4, <2>6, PerformLeads DEF LeadInv
  <2>8. \E s : Led(lane', plans', unrecorded, afterHandBack, s, run, journal) BY <2>7
  <2>9. Led(lane', plans', unrecorded, NoOrder, NoOrder, NoRun, journal)
    <3>1. PICK s : Led(lane', plans', unrecorded, afterHandBack, s, run, journal) BY <2>8
    <3>2. Led(lane', plans', unrecorded, afterHandBack, s, NoRun, journal) BY <3>1, LedMoves
    <3>3. Led(lane', plans', NoOrder, afterHandBack, unrecorded, NoRun, journal)
      BY <3>2, LedMoves
    <3>4. Led(lane', plans', NoOrder, NoOrder, unrecorded, NoRun, journal) BY <3>3, LedMoves
    <3> QED BY <3>4, LedMoves
  <2>10. StartingOk(NoOrder, lane', journal) /\ RunOk(NoRun) BY DEF StartingOk, RunOk
  <2> QED BY <1>2, <2>1, <2>9, <2>10 DEF HostLed
<1> QED BY <1>3, <1>4

\* The run that lost control is there yet.
LEMMA ReplacedRunWaitsLeads ==
    ASSUME ApprovedInv, SteerInv, LeadInv, ApprovedInv', SteerInv',
           run # NoRun, afterHandBack # NoOrder, starting = NoOrder, ReplacedRunWaits
    PROVE  HostLed'
<1> DEFINE home == Plan("home")
           r == OnExecution(lane, seen.execution, home, now)
           fresh == IF r.effect.do = "start" THEN {home} ELSE {}
           order == IF r.effect.do = "start" THEN r.effect.order ELSE afterHandBack
<1>1. /\ Fine(lane) /\ Steady(lane) /\ plans \in Nat /\ RunOk(run)
  BY DEF SteerInv, ApprovedInv, LeadInv, HostLed, Led
<1>2. home \in AnyPlan /\ home.digest = plans + 1 BY <1>1 DEF Plan, AnyPlan
<1>3. /\ lane' = r.lane /\ plans' = IF r.effect.do = "start" THEN plans + 1 ELSE plans
      /\ \/ StartRun(order, r.lane, unrecorded, NoOrder)
         \/ r.effect.do # "start" /\ UNCHANGED <<run, controls, orders, journal, troubles>>
  BY DEF ReplacedRunWaits
<1>4. Fine(lane') /\ ApprovedLane(lane') /\ plans' \in Nat BY DEF SteerInv, ApprovedInv
<1> HIDE DEF home
<1>5. Steered(lane, r) /\ Advances(lane, r, {}, fresh)
  BY <1>1, <1>2, OnExecutionSteers, OnExecutionAdvances
<1> HIDE DEF r
<1>6. /\ plans <= plans' /\ \A p \in fresh : p.digest > plans
      /\ lane'.proposal \in fresh => lane'.proposal.digest <= plans'
      /\ lane'.successor # NoSuccessor /\ lane'.successor.plan \in fresh =>
            lane'.successor.plan.digest <= plans'
  BY <1>1, <1>2, <1>3
<1> HIDE DEF fresh
<1>7. /\ r.effect.do # "start" =>
            Led(lane', plans', unrecorded, afterHandBack, NoOrder, run, journal)
      /\ r.effect.do = "start" =>
            /\ Led(lane', plans', unrecorded, afterHandBack, r.effect.order, run, journal)
            /\ r.effect.order # NoOrder
  BY <1>3, <1>5, <1>6, PerformLeads DEF LeadInv
<1>8. Led(lane', plans', unrecorded, NoOrder, order, run, journal) /\ order # NoOrder
  <2>1. CASE r.effect.do = "start"
    <3>1. Led(lane', plans', unrecorded, afterHandBack, r.effect.order, run, journal)
      BY <1>7, <2>1
    <3>2. Led(lane', plans', unrecorded, r.effect.order, NoOrder, run, journal)
      BY <3>1, LedMoves
    <3>3. Led(lane', plans', unrecorded, NoOrder, r.effect.order, run, journal)
      BY <3>2, LedMoves
    <3> QED BY <1>7, <2>1, <3>3
  <2>2. CASE r.effect.do # "start"
    <3>1. Led(lane', plans', unrecorded, NoOrder, afterHandBack, run, journal)
      BY <1>7, <2>2, LedMoves
    <3> QED BY <2>2, <3>1
  <2> QED BY <2>1, <2>2
<1> HIDE DEF order
<1>9. CASE StartRun(order, r.lane, unrecorded, NoOrder)
  <2>1. StartRun(order, lane', unrecorded, NoOrder) BY <1>3, <1>9
  <2> DEFINE l == r.lane
  <2>2. /\ Fine(l) /\ ApprovedLane(l) /\ lane' = l
        /\ Led(l, plans', unrecorded, NoOrder, order, run, journal)
    BY <1>3, <1>4, <1>8
  <2> QED BY <1>1, <1>4, <1>8, <1>9, <2>2, StartRunLeads
<1>10. CASE r.effect.do # "start" /\ UNCHANGED <<run, controls, orders, journal, troubles>>
  <2>1. Led(lane', plans', unrecorded, afterHandBack, NoOrder, run, journal) BY <1>7, <1>10
  <2>2. StartingOk(NoOrder, lane', journal) BY DEF StartingOk
  <2> QED BY <1>1, <1>10, <2>1, <2>2 DEF HostLed, orders
<1> QED BY <1>3, <1>9, <1>10

\* A run that goes on ends what it ends, and begins nothing.
LEMMA RunIsLed ==
    ASSUME NEW l, NEW n, NEW u, NEW a, NEW s, NEW r, NEW j, Led(l, n, u, a, s, r, j), r # NoRun,
           NEW q, q.plan = r.plan, q.todo = r.todo, r.finished \subseteq q.finished,
           ~q.gone => ~r.gone,
           r.plan = l.proposal /\ Live(l) /\ ~q.gone /\ ~Flies(r.plan) =>
              1 .. q.active - 1 \subseteq EndedOf(j.tasks)
    PROVE  Led(l, n, u, a, s, q, j)
<1>1. RunLed(q, l, j, n) BY DEF Led, RunLed
<1>2. Sole(l, u, a, s, q) BY DEF Led, Sole
<1> QED BY <1>1, <1>2 DEF Led

\* The run of the lane.
LEMMA OwnRunProgressLeads ==
    ASSUME ApprovedInv, SteerInv, LeadInv, ApprovedInv', SteerInv',
           run # NoRun, turn = "progress", OwnRunProgress
    PROVE  HostLed'
<1>1. PICK still \in {FALSE} \cup (IF lane.state = "holdRequested" THEN {seen.hold} ELSE {}) :
        LET reply == OnProgress(lane, Progress(seen, run.gone, still), Plan("home"), now)
        IN  /\ lane' = reply.lane
            /\ plans' = IF lane.tasks = <<>> THEN plans ELSE Compiled(reply.lane)
            /\ IF reply.effect.do # "none" THEN Perform(reply.effect, reply.lane)
                                           ELSE Watched(reply.lane)
  BY DEF OwnRunProgress
<1> DEFINE home == Plan("home")
           progress == Progress(seen, run.gone, still)
           r == OnProgress(lane, progress, home, now)
           fresh == IF lane.tasks = <<>> THEN {} ELSE {home}
           done == DoneBy(lane, progress)
<1>2. /\ lane' = r.lane
      /\ plans' = IF lane.tasks = <<>> THEN plans ELSE Compiled(r.lane)
      /\ Perform(r.effect, r.lane) \/ (r.effect.do = "none" /\ Watched(r.lane))
  BY <1>1
<1>3. /\ Fine(lane) /\ ApprovedLane(lane) /\ Steady(lane) /\ plans \in Nat /\ RunOk(run)
      /\ starting = NoOrder /\ SeenOk(seen, run) /\ "restarted" \notin lane.holds
  BY DEF SteerInv, Restful, ApprovedInv, LeadInv, HostLed, Led
<1>4. home \in AnyPlan /\ home.digest = plans + 1 BY <1>3 DEF Plan, AnyPlan
<1>5. /\ progress.plan = seen.plan /\ progress.finished = seen.finished
      /\ progress.cancelled = seen.cancelled /\ progress.failed = seen.failed
  BY DEF Progress
<1> HIDE DEF home, progress
<1>6. Steered(lane, r) /\ Advances(lane, r, done, fresh)
  BY <1>3, <1>4, OnProgressSteers, OnProgressAdvances
<1>7. done # {} => /\ run # NoRun /\ run.plan = lane.proposal
                   /\ ~run.gone /\ ~Flies(run.plan) => done \subseteq run.finished
  BY <1>3, <1>5 DEF DoneBy, SeenOk
<1> HIDE DEF r, done
<1>8. /\ plans <= plans' /\ \A p \in fresh : p.digest > plans
      /\ lane'.proposal \in fresh => lane'.proposal.digest <= plans'
      /\ lane'.successor # NoSuccessor /\ lane'.successor.plan \in fresh =>
            lane'.successor.plan.digest <= plans'
  <2>1. plans' = IF lane.tasks = <<>> THEN plans ELSE Compiled(lane') BY <1>2
  <2>2. plans <= plans' BY <1>3, <2>1 DEF Compiled
  <2>3. CASE lane.tasks = <<>> BY <2>2, <2>3
  <2>4. CASE lane.tasks # <<>>
    <3>1. lane'.proposal = home => home.digest <= plans' BY <1>3, <1>4, <2>1, <2>4 DEF Compiled
    <3>2. lane'.successor # NoSuccessor /\ lane'.successor.plan = home => home.digest <= plans'
      BY <1>3, <1>4, <2>1, <2>4 DEF Compiled
    <3> QED BY <1>3, <1>4, <2>2, <2>4, <3>1, <3>2
  <2> QED BY <2>3, <2>4
<1> HIDE DEF fresh
<1>9. /\ r.effect.do # "start" =>
            Led(lane', plans', unrecorded, afterHandBack, NoOrder, run, journal)
      /\ Perform(r.effect, r.lane) => HostLed'
  BY <1>2, <1>3, <1>6, <1>7, <1>8, PerformLeads DEF LeadInv
<1>10. CASE r.effect.do = "none" /\ Watched(r.lane)
  <2>1. Led(lane', plans', unrecorded, afterHandBack, NoOrder, run, journal) BY <1>9, <1>10
  <2>2. StartingOk(NoOrder, lane', journal) /\ RunOk(NoRun) BY DEF StartingOk, RunOk
  <2>3. /\ UNCHANGED <<orders, journal>>
        /\ \/ UNCHANGED run
           \/ run' = NoRun
           \/ run' = [run EXCEPT !.told = TRUE]
    BY <1>10 DEF Watched
  <2>4. Led(lane', plans', unrecorded, afterHandBack, NoOrder, run', journal) /\ RunOk(run')
    <3>1. CASE run' = NoRun BY <2>1, <2>2, <3>1, LedMoves
    <3>2. CASE run' = [run EXCEPT !.told = TRUE]
      <4> DEFINE q == [run EXCEPT !.told = TRUE]
      <4>1. RunFields \subseteq DOMAIN run BY DEF SteerInv, TypedHost
      <4>2. /\ q.plan = run.plan /\ q.todo = run.todo /\ q.finished = run.finished
            /\ q.active = run.active /\ q.gone = run.gone
            /\ q.cancelled = run.cancelled /\ q.failed = run.failed
        BY <4>1 DEF RunFields
      <4> HIDE DEF q
      <4>3. RunOk(q) BY <1>3, <4>2 DEF RunOk
      <4>4. run.plan = lane'.proposal /\ Live(lane') /\ ~q.gone /\ ~Flies(run.plan) =>
               1 .. q.active - 1 \subseteq EndedOf(journal.tasks)
        BY <2>1, <4>2 DEF Led, RunLed
      <4>5. Led(lane', plans', unrecorded, afterHandBack, NoOrder, q, journal)
        BY <2>1, <4>2, <4>4, RunIsLed
      <4> QED BY <3>2, <4>3, <4>5 DEF q
    <3>3. CASE UNCHANGED run BY <1>3, <2>1, <3>3
    <3> QED BY <2>3, <3>1, <3>2, <3>3
  <2> QED BY <1>3, <2>2, <2>3, <2>4 DEF HostLed, orders
<1> QED BY <1>2, <1>9, <1>10

\* The lane's own task.
LEMMA HostLeads ==
    ASSUME ApprovedInv, SteerInv, LeadInv, ApprovedInv', SteerInv', HostStep
    PROVE  LeadInv'
<1>1. CASE Clock BY <1>1, ClockLeads
<1>2. CASE ReadStatus
  <2>1. /\ UNCHANGED <<lane, run, orders, journal, plans>> /\ starting = NoOrder
        /\ seen' = IF run = NoRun THEN NoRun ELSE Status(run)
    BY <1>2 DEF ReadStatus
  <2>2. SeenOk(seen', run) BY <2>1 DEF SeenOk, Status, LeadInv, HostLed, RunOk
  <2> QED BY <2>1, <2>2 DEF LeadInv, HostLed, orders
<1>3. CASE ProgressTick
  <2>1. starting = NoOrder /\ turn = "progress" /\ turn' # "progress"
    BY <1>3 DEF ProgressTick, Closes
  <2>2. CASE run = NoRun
    <3>1. UNCHANGED <<lane, plans, run, orders, journal>> BY <1>3, <2>2 DEF ProgressTick
    <3> QED BY <2>1, <3>1 DEF LeadInv, HostLed, orders
  <2>3. CASE run # NoRun /\ afterHandBack # NoOrder
    <3>1. ReplacedRunEnded \/ ReplacedRunWaits BY <1>3, <2>3 DEF ProgressTick
    <3>2. HostLed' BY <2>1, <2>3, <3>1, ReplacedRunEndedLeads, ReplacedRunWaitsLeads
    <3> QED BY <2>1, <3>2 DEF LeadInv
  <2>4. CASE run # NoRun /\ afterHandBack = NoOrder
    <3>1. OwnRunProgress BY <1>3, <2>4 DEF ProgressTick
    <3>2. HostLed' BY <2>1, <2>4, <3>1, OwnRunProgressLeads
    <3> QED BY <2>1, <3>2 DEF LeadInv
  <2> QED BY <2>2, <2>3, <2>4
<1>4. CASE RecordTurn
  <2>1. starting = NoOrder /\ lane' = lane /\ plans' = plans /\ turn' # "progress"
    BY <1>4 DEF RecordTurn
  <2>2. /\ Fine(lane) /\ ApprovedLane(lane) /\ plans \in Nat /\ RunOk(run)
        /\ Led(lane, plans, unrecorded, afterHandBack, NoOrder, run, journal)
    BY <2>1 DEF SteerInv, ApprovedInv, LeadInv, HostLed
  <2>3. CASE unrecorded # NoOrder /\ StartRun(unrecorded, lane, NoOrder, afterHandBack)
    <3>1. Led(lane, plans', NoOrder, afterHandBack, unrecorded, run, journal)
      BY <2>1, <2>2, LedMoves
    <3>2. HostLed' BY <2>1, <2>2, <2>3, <3>1, StartRunLeads
    <3> QED BY <2>1, <3>2 DEF LeadInv
  <2>4. CASE (\E kept \in BOOLEAN : Write(lane, kept)) /\ UNCHANGED <<run, controls, orders>>
    <3>1. journal' \in {journal, Record(lane)} BY <2>4 DEF Write
    <3>2. Led(lane, plans, unrecorded, afterHandBack, NoOrder, run, journal')
      BY <2>2, <3>1, RecordLeads
    <3>3. StartingOk(NoOrder, lane, journal') BY DEF StartingOk
    <3> QED BY <2>1, <2>2, <2>4, <3>2, <3>3 DEF LeadInv, HostLed, orders
  <2> QED BY <1>4, <2>3, <2>4 DEF RecordTurn
<1>5. CASE Replaced
  <2>1. /\ starting # NoOrder /\ run' = NewRunOf(starting) /\ starting' = NoOrder
        /\ UNCHANGED <<lane, turn, unrecorded, afterHandBack, journal, plans>>
    BY <1>5 DEF Replaced, Spawn
  <2>2. /\ Led(lane, plans, unrecorded, afterHandBack, NoOrder, NewRunOf(starting), journal)
        /\ RunOk(NewRunOf(starting))
    BY <2>1, SpawnIsLed DEF SteerInv, ApprovedInv, LeadInv, HostLed
  <2>3. StartingOk(NoOrder, lane, journal) BY DEF StartingOk
  <2> QED BY <2>1, <2>2, <2>3 DEF LeadInv, HostLed
<1> QED BY <1>1, <1>2, <1>3, <1>4, <1>5 DEF HostStep

\* A step of the run that ends what it ends, and begins nothing out of turn.
LEMMA RunStepLeads ==
    ASSUME LeadInv, UNCHANGED <<lane, turn, seen, orders, journal, plans>>, run # NoRun, ~run.gone,
           run'.plan = run.plan, run'.todo = run.todo, run.finished \subseteq run'.finished,
           RunOk(run'),
           run.plan = lane.proposal /\ Live(lane) /\ ~run'.gone /\ ~Flies(run.plan) =>
              1 .. run'.active - 1 \subseteq EndedOf(journal.tasks)
    PROVE  LeadInv'
<1>1. Led(lane, plans, unrecorded, afterHandBack, starting, run', journal)
  BY RunIsLed DEF LeadInv, HostLed
<1>2. HostLed' BY <1>1 DEF LeadInv, HostLed, orders
<1>3. turn = "progress" => starting = NoOrder /\ SeenOk(seen, run') BY DEF LeadInv, SeenOk
<1> QED BY <1>2, <1>3 DEF LeadInv, orders

\* A flight goes on with its plan.
LEMMA FlightGoesOn ==
    ASSUME SteerInv, FlightStep \/ People
    PROVE  /\ run # NoRun /\ ~run.gone /\ Flies(run.plan) /\ RunFields \subseteq DOMAIN run
           /\ UNCHANGED <<lane, turn, seen, orders, journal, plans, reports>>
           /\ run'.plan = run.plan /\ run'.todo = run.todo /\ run.finished \subseteq run'.finished
<1> USE DEF RunOnly, Goes, Suffers
<1>1. /\ Flight
      /\ UNCHANGED <<lane, turn, seen, orders, journal, plans, reports>>
  BY DEF FlightStep, People, FlightControl, LeaseAnswered, TaskStarted, TaskFinished, Released,
         LeaseHandedOver, ControlIsLost, ControlIsFreed, LeftFlight, Fence, FlightExits, Ticks
<1>2. run # NoRun /\ ~run.gone /\ Flies(run.plan) /\ RunFields \subseteq DOMAIN run
  BY <1>1 DEF SteerInv, TypedHost, Flight, Hears
<1>3. /\ run'.plan = run.plan /\ run'.todo = run.todo /\ run.finished \subseteq run'.finished
  <2>1. CASE FlightControl
    <3> DEFINE held == [run EXCEPT !.hold = TRUE, !.paused = TRUE]
               freed == [run EXCEPT !.hold = FALSE, !.paused = FALSE]
               stopped == [run EXCEPT !.hold = TRUE, !.paused = TRUE, !.stopping = TRUE]
    <3>1. run' \in {held, freed, stopped, run} BY <2>1 DEF FlightControl
    <3>2. \A r \in {held, freed, stopped} :
             r.plan = run.plan /\ r.todo = run.todo /\ r.finished = run.finished
      BY <1>2 DEF RunFields
    <3> HIDE DEF held, freed, stopped
    <3> QED BY <3>1, <3>2
  <2>2. CASE LeaseAnswered
    <3>1. PICK answer : run' = [run EXCEPT !.lease = answer, !.paused = @ \/ answer = "denied"]
      BY <2>2 DEF LeaseAnswered
    <3> QED BY <1>2, <3>1 DEF RunFields
  <2>3. CASE TaskFinished BY <1>2, <2>3 DEF TaskFinished, RunFields
  <2>4. CASE LeaseHandedOver BY <1>2, <2>4 DEF LeaseHandedOver, RunFields
  <2>5. CASE ControlIsLost BY <1>2, <2>5 DEF ControlIsLost, RunFields
  <2>6. CASE ControlIsFreed BY <1>2, <2>6 DEF ControlIsFreed, RunFields
  <2>7. CASE TaskStarted BY <1>2, <2>7 DEF TaskStarted, RunFields
  <2>8. CASE LeftFlight BY <1>2, <2>8 DEF LeftFlight, RunFields
  <2>9. CASE Fence BY <1>2, <2>9 DEF Fence, RunFields
  <2>10. CASE FlightExits BY <1>2, <2>10 DEF FlightExits, RunFields
  <2>11. CASE Released BY <1>2, <2>11 DEF Released, RunFields
  <2> QED
    BY <2>1, <2>2, <2>3, <2>4, <2>5, <2>6, <2>7, <2>8, <2>9, <2>10, <2>11 DEF FlightStep, People
<1> QED BY <1>1, <1>2, <1>3

\* A flight, whose tasks the journal need not lead.
LEMMA FlightLeads ==
    ASSUME SteerInv, LeadInv, FlightStep \/ People
    PROVE  LeadInv'
<1>1. /\ run # NoRun /\ ~run.gone /\ Flies(run.plan)
      /\ UNCHANGED <<lane, turn, seen, orders, journal, plans, reports>>
      /\ run'.plan = run.plan /\ run'.todo = run.todo /\ run.finished \subseteq run'.finished
  BY FlightGoesOn
<1>2. RunOk(run') BY <1>1 DEF LeadInv, HostLed, RunOk
<1> QED BY <1>1, <1>2, RunStepLeads

\* The operations of a plan.
LEMMA OperationsAre ==
    ASSUME NEW plan, ~Flies(plan)
    PROVE  Numbers(plan) = 1 .. Len(Operations) /\ Len(Operations) \in Nat
<1>1. Numbers(plan) = DOMAIN Operations BY DEF Numbers, TasksOf, Flies
<1> QED BY <1>1, LaneAssumption

\* Of the operations that are left one is the first.
LEMMA LeastIsFirst ==
    ASSUME NEW plan, ~Flies(plan), NEW undone, undone \subseteq Numbers(plan), undone # {}
    PROVE  \E i \in undone : \A j \in undone : i <= j
<1>1. undone \subseteq Nat BY OperationsAre
<1> DEFINE R == OpToRel(<, Nat)
<1>2. IsWellFoundedOn(R, Nat) BY NatLessThanWellFounded
<1>3. \A x, y \in Nat : <<y, x>> \in R <=> y < x BY DEF OpToRel
<1> HIDE DEF R
<1>4. PICK x \in undone : \A y \in undone : <<y, x>> \notin R BY <1>1, <1>2, WFMin
<1>5. ASSUME NEW y \in undone PROVE x <= y
  <2>1. x \in Nat /\ y \in Nat BY <1>1
  <2>2. ~(y < x) BY <1>3, <1>4, <2>1
  <2> QED BY <2>1, <2>2
<1> QED BY <1>4, <1>5

\* An operation that begins once as many ends are recorded as there were before
\* it begins behind the end of each of them.
LEMMA NextIsLed ==
    ASSUME NEW plan, ~Flies(plan), NEW todo, todo \subseteq Numbers(plan),
           NEW finished, finished \subseteq todo,
           NEW ended, ended \subseteq (Numbers(plan) \ todo) \cup finished,
           Cardinality(ended) >= Cardinality(Numbers(plan) \ todo) + Cardinality(finished),
           NEW next \in todo \ finished, \A j \in todo \ finished : next <= j
    PROVE  1 .. next - 1 \subseteq ended
<1>1. Numbers(plan) = 1 .. Len(Operations) /\ Len(Operations) \in Nat BY OperationsAre
<1> DEFINE before == Numbers(plan) \ todo
<1>2. IsFiniteSet(Numbers(plan)) BY <1>1, FS_Interval
<1>3. /\ IsFiniteSet(before) /\ IsFiniteSet(finished) /\ IsFiniteSet(before \cup finished)
      /\ before \cup finished \subseteq Numbers(plan) /\ before \cap finished = {}
  <2>1. before \cup finished \subseteq Numbers(plan) /\ before \subseteq Numbers(plan) /\ finished \subseteq Numbers(plan)
    OBVIOUS
  <2> QED BY <1>2, <2>1, FS_Subset
<1>4. Cardinality(before \cup finished) = Cardinality(before) + Cardinality(finished)
  <2>1. Cardinality(before \cap finished) = 0 BY <1>3, FS_EmptySet
  <2>2. Cardinality(before \cup finished) =
            Cardinality(before) + Cardinality(finished) - Cardinality(before \cap finished)
    BY <1>3, FS_Union
  <2>3. Cardinality(before) \in Nat /\ Cardinality(finished) \in Nat
    BY <1>3, FS_CardinalityType
  <2> QED BY <2>1, <2>2, <2>3
<1>5. ended = before \cup finished
  <2>1. /\ IsFiniteSet(ended) /\ Cardinality(ended) <= Cardinality(before \cup finished)
        /\ Cardinality(before \cup finished) = Cardinality(ended) => ended = before \cup finished
    BY <1>3, FS_Subset
  <2>2. Cardinality(ended) \in Nat /\ Cardinality(before \cup finished) \in Nat
    BY <1>3, <2>1, FS_CardinalityType
  <2> QED BY <1>4, <2>1, <2>2
<1> QED BY <1>1, <1>5

\* A run of operations, which begins one only behind the record.
LEMMA OperationLeads ==
    ASSUME SteerInv, LeadInv, OperationStep
    PROVE  LeadInv'
<1> USE DEF RunOnly, Goes
<1>1. Operating
  BY DEF OperationStep, OperationControl, OperationBegins, ReadEnds, ReportStands, WriteEnds,
         OperationsEnd, Between, At
<1>2. run # NoRun /\ ~run.gone /\ ~Flies(run.plan) /\ RunFields \subseteq DOMAIN run
  BY <1>1 DEF SteerInv, TypedHost, Operating, Hears
<1>3. /\ run.todo \subseteq Numbers(run.plan) /\ run.finished \subseteq run.todo
      /\ run.cancelled = {} /\ run.failed = {}
      /\ run.active \in {0} \cup (run.todo \ run.finished)
      /\ Led(lane, plans, unrecorded, afterHandBack, starting, run, journal)
  BY <1>2 DEF LeadInv, HostLed, RunOk
<1>4. run.plan = lane.proposal /\ Live(lane) =>
         /\ journal # NoRecord /\ journal.proposal = lane.proposal
         /\ EndedOf(lane.tasks) \subseteq (Numbers(run.plan) \ run.todo) \cup run.finished
         /\ EndedOf(journal.tasks) \subseteq EndedOf(lane.tasks)
         /\ 1 .. run.active - 1 \subseteq EndedOf(journal.tasks)
  BY <1>2, <1>3 DEF Led, RunLed, JournalOk
<1>5. 1 .. 0 - 1 = {} OBVIOUS
<1>6. ASSUME NEW r, RunFields \subseteq DOMAIN r
      PROVE  /\ Over(r).plan = r.plan /\ Over(r).todo = r.todo
             /\ Over(r).finished = r.finished /\ Over(r).gone = TRUE
             /\ RunFields \subseteq DOMAIN Done(r)
             /\ Done(r).plan = r.plan /\ Done(r).todo = r.todo
             /\ Done(r).finished = r.finished \cup {r.active} /\ Done(r).active = 0
             /\ Done(r).cancelled = r.cancelled /\ Done(r).failed = r.failed
  BY <1>6 DEF Over, Done, RunFields
<1>7. ASSUME NEW r, RunFields \subseteq DOMAIN r, NEW s
      PROVE  /\ WithControls(r, s).plan = r.plan /\ WithControls(r, s).todo = r.todo
             /\ WithControls(r, s).finished = r.finished /\ WithControls(r, s).active = r.active
             /\ WithControls(r, s).cancelled = r.cancelled
             /\ WithControls(r, s).failed = r.failed
  BY <1>7 DEF WithControls, RunFields
<1>8. ASSUME NEW r, RunFields \subseteq DOMAIN r, r.plan = run.plan, r.todo = run.todo,
             run.finished \subseteq r.finished, run' = Over(r),
             UNCHANGED <<lane, turn, seen, orders, journal, plans>>
      PROVE  LeadInv'
  <2>1. /\ run'.plan = run.plan /\ run'.todo = run.todo /\ run.finished \subseteq run'.finished
        /\ run'.gone = TRUE
    BY <1>6, <1>8
  <2>2. RunOk(run') BY <1>3, <2>1 DEF RunOk
  <2> QED BY <1>2, <1>8, <2>1, <2>2, RunStepLeads
<1>9. ASSUME run'.plan = run.plan, run'.todo = run.todo, run'.cancelled = {}, run'.failed = {},
             \/ run'.finished = run.finished /\ run'.active = run.active
             \/ /\ run.active # 0 /\ run'.active = 0
                /\ run'.finished = run.finished \cup {run.active},
             UNCHANGED <<lane, turn, seen, orders, journal, plans>>
      PROVE  LeadInv'
  <2>1. run.finished \subseteq run'.finished BY <1>9
  <2>2. run'.finished \subseteq run'.todo /\ run'.active \in {0} \cup (run'.todo \ run'.finished)
    BY <1>3, <1>9
  <2>3. RunOk(run') BY <1>3, <1>9, <2>2 DEF RunOk
  <2>4. run.plan = lane.proposal /\ Live(lane) => 1 .. run'.active - 1 \subseteq EndedOf(journal.tasks)
    BY <1>4, <1>5, <1>9
  <2> QED BY <1>2, <1>9, <2>1, <2>3, <2>4, RunStepLeads
<1>10. CASE OperationControl
  <2> DEFINE cut == [run EXCEPT !.cancelled = @ \cup ({run.active} \ {0}), !.active = 0]
             refused == [Done(run) EXCEPT !.ended = TRUE]
             steered == WithControls(run, <<Head(controls)>>)
  <2>1. UNCHANGED <<lane, turn, seen, orders, journal, plans>> BY <1>10 DEF OperationControl
  <2>2. /\ RunFields \subseteq DOMAIN cut /\ cut.plan = run.plan /\ cut.todo = run.todo
        /\ cut.finished = run.finished
        /\ RunFields \subseteq DOMAIN refused /\ refused.plan = run.plan
        /\ refused.todo = run.todo /\ run.finished \subseteq refused.finished
    BY <1>2, <1>6 DEF RunFields
  <2>3. run' \in {Over(cut), Over(refused), steered} \/ (At("ask") /\ run' = Done(run))
    BY <1>10 DEF OperationControl
  <2> HIDE DEF cut, refused
  <2>4. CASE run' = Over(cut) BY <1>8, <2>1, <2>2, <2>4
  <2>5. CASE run' = Over(refused) BY <1>8, <2>1, <2>2, <2>5
  <2>6. CASE run' = steered BY <1>2, <1>3, <1>7, <1>9, <2>1, <2>6
  <2>7. CASE At("ask") /\ run' = Done(run)
    <3>1. run.active # 0 BY <2>7 DEF At
    <3> QED BY <1>2, <1>3, <1>6, <1>9, <2>1, <2>7, <3>1
  <2> QED BY <2>3, <2>4, <2>5, <2>6, <2>7
<1>11. CASE OperationBegins
  <2>1. /\ RecordedAll /\ Undone # {} /\ run' = [run EXCEPT !.active = NextTask]
        /\ UNCHANGED <<lane, turn, seen, orders, journal, plans>>
    BY <1>11 DEF OperationBegins
  <2>2. /\ run'.plan = run.plan /\ run'.todo = run.todo /\ run'.finished = run.finished
        /\ run'.cancelled = {} /\ run'.failed = {} /\ run'.active = NextTask
    BY <1>2, <1>3, <2>1 DEF RunFields
  <2>3. Undone = run.todo \ run.finished BY <1>3 DEF Undone
  <2>4. NextTask \in run.todo \ run.finished /\ \A j \in run.todo \ run.finished : NextTask <= j
    <3>1. \E i \in Undone : \A j \in Undone : i <= j BY <1>2, <1>3, <2>1, <2>3, LeastIsFirst
    <3>2. NextTask \in Undone /\ \A j \in Undone : NextTask <= j BY <3>1 DEF NextTask
    <3> QED BY <2>3, <3>2
  <2>5. ASSUME run.plan = lane.proposal, Live(lane)
        PROVE  1 .. NextTask - 1 \subseteq EndedOf(journal.tasks)
    <3>1. EndedInJournal = Cardinality(EndedOf(journal.tasks))
      BY <1>4, <2>5 DEF EndedInJournal, EndedOf
    <3>2. DOMAIN Operations = Numbers(run.plan) BY <1>2 DEF Numbers, TasksOf, Flies
    <3>3. Cardinality(EndedOf(journal.tasks)) >=
             Cardinality(Numbers(run.plan) \ run.todo) + Cardinality(run.finished)
      BY <2>1, <3>1, <3>2 DEF RecordedAll
    <3>4. EndedOf(journal.tasks) \subseteq (Numbers(run.plan) \ run.todo) \cup run.finished
      BY <1>4, <2>5
    <3> DEFINE plan == run.plan
               todo == run.todo
               finished == run.finished
               ended == EndedOf(journal.tasks)
               next == NextTask
    <3>5. ~Flies(plan) /\ todo \subseteq Numbers(plan) /\ finished \subseteq todo BY <1>2, <1>3
    <3>6. next \in todo \ finished /\ \A j \in todo \ finished : next <= j BY <2>4
    <3>7. /\ ended \subseteq (Numbers(plan) \ todo) \cup finished
          /\ Cardinality(ended) >= Cardinality(Numbers(plan) \ todo) + Cardinality(finished)
      BY <3>3, <3>4
    <3> HIDE DEF plan, todo, finished, ended, next
    <3>8. 1 .. next - 1 \subseteq ended BY <3>5, <3>6, <3>7, NextIsLed
    <3> QED BY <3>8 DEF next, ended
  <2>6. RunOk(run') BY <1>3, <2>2, <2>4 DEF RunOk
  <2> QED BY <1>2, <2>1, <2>2, <2>5, <2>6, RunStepLeads
<1>12. CASE ReadEnds
  <2>1. /\ run' = Done(run) /\ run.active # 0
        /\ UNCHANGED <<lane, turn, seen, orders, journal, plans>>
    BY <1>12 DEF ReadEnds, At
  <2> QED BY <1>2, <1>3, <1>6, <1>9, <2>1
<1>13. CASE ReportStands BY <1>13 DEF ReportStands, LeadInv, HostLed, orders
<1>14. CASE WriteEnds
  <2> DEFINE stopped == [run EXCEPT !.failed = @ \cup {run.active}, !.ended = TRUE]
  <2>1. UNCHANGED <<lane, turn, seen, orders, journal, plans>> /\ run.active # 0
    BY <1>14 DEF WriteEnds, At
  <2>2. /\ RunFields \subseteq DOMAIN stopped /\ stopped.plan = run.plan
        /\ stopped.todo = run.todo /\ stopped.finished = run.finished
    BY <1>2 DEF RunFields
  <2>3. run' = WithControls(Done(run), controls) \/ run' = Over(stopped) BY <1>14 DEF WriteEnds
  <2> HIDE DEF stopped
  <2>4. CASE run' = Over(stopped) BY <1>8, <2>1, <2>2, <2>4
  <2>5. CASE run' = WithControls(Done(run), controls)
    <3>1. /\ run'.plan = Done(run).plan /\ run'.todo = Done(run).todo
          /\ run'.finished = Done(run).finished /\ run'.active = Done(run).active
          /\ run'.cancelled = Done(run).cancelled /\ run'.failed = Done(run).failed
      <4> DEFINE done == Done(run)
      <4>1. RunFields \subseteq DOMAIN done /\ run' = WithControls(done, controls)
        BY <1>2, <1>6, <2>5
      <4> HIDE DEF done
      <4>2. /\ run'.plan = done.plan /\ run'.todo = done.todo
            /\ run'.finished = done.finished /\ run'.active = done.active
            /\ run'.cancelled = done.cancelled /\ run'.failed = done.failed
        BY <1>7, <4>1
      <4> QED BY <4>2 DEF done
    <3>2. /\ run'.plan = run.plan /\ run'.todo = run.todo /\ run'.active = 0
          /\ run'.finished = run.finished \cup {run.active}
          /\ run'.cancelled = {} /\ run'.failed = {}
      BY <1>2, <1>3, <1>6, <3>1
    <3> QED BY <1>9, <2>1, <3>2
  <2> QED BY <2>3, <2>4, <2>5
<1>15. CASE OperationsEnd
  <2> DEFINE whole == [run EXCEPT !.complete = TRUE]
  <2>1. UNCHANGED <<lane, turn, seen, orders, journal, plans>> /\ run' \in {Over(run), Over(whole)}
    BY <1>15 DEF OperationsEnd
  <2>2. /\ RunFields \subseteq DOMAIN whole /\ whole.plan = run.plan
        /\ whole.todo = run.todo /\ whole.finished = run.finished
    BY <1>2 DEF RunFields
  <2> HIDE DEF whole
  <2>3. CASE run' = Over(run) BY <1>2, <1>8, <2>1, <2>3
  <2>4. CASE run' = Over(whole) BY <1>8, <2>1, <2>2, <2>4
  <2> QED BY <2>1, <2>3, <2>4
<1> QED BY <1>10, <1>11, <1>12, <1>13, <1>14, <1>15 DEF OperationStep

\* Settling what a restart finds keeps a lane where it was, or at an end, or
\* held for a person.
LEMMA SettlingIsSteady ==
    ASSUME NEW l, Fine(l), Steady(l), l.state \in Begun, l.successor = NoSuccessor
    PROVE  /\ Steady(SettleRestart(l)) /\ SettleRestart(l).state \in Begun
           /\ SettleRestart(l).proposal = l.proposal /\ SettleRestart(l).successor = NoSuccessor
<1> DEFINE free == [l EXCEPT !.restarted = FALSE]
           over == [l EXCEPT !.restarted = FALSE, !.state = "complete"]
           held == [WithHold(l, "restarted") EXCEPT !.state = "held"]
<1>1. /\ free.state = l.state /\ free.holds = l.holds /\ free.restarted = FALSE
      /\ free.proposal = l.proposal /\ free.tasks = l.tasks /\ free.successor = l.successor
      /\ over.state = "complete" /\ over.holds = l.holds /\ over.restarted = FALSE
      /\ over.proposal = l.proposal /\ over.tasks = l.tasks /\ over.successor = l.successor
      /\ held.state = "held" /\ held.holds = l.holds \cup {"restarted"}
      /\ held.proposal = l.proposal /\ held.tasks = l.tasks /\ held.successor = l.successor
  BY LaneFields DEF Fine, TypedLane, WithHold
<1>2. SettleRestart(l) \in {l, free, over, held} BY DEF SettleRestart
<1> HIDE DEF free, over, held
<1>3. Steady(free) /\ Steady(over) /\ Steady(held) BY <1>1 DEF Steady, Begun, Reasons, Live
<1> QED BY <1>1, <1>2, <1>3 DEF Begun

\* A restored lane waits, or is at an end.
LEMMA RestoredIsSteady ==
    ASSUME NEW record, TypedRecord(record), record.state \in Begun
    PROVE  /\ Steady(Restore(record)) /\ Restore(record).state \in Begun
           /\ Restore(record).proposal = record.proposal
<1> DEFINE recorded == [NewLane EXCEPT !.state = record.state, !.proposal = record.proposal,
                                       !.approval = record.approval, !.tasks = record.tasks]
           left == SettleOperations(recorded)
           queried == {i \in DOMAIN left.tasks :
                         /\ left.tasks[i] = "uncertain"
                         /\ TasksOf(left.proposal)[i] \in StatusQuery}
           restored == [left EXCEPT !.restarted = IsFlying(left) \/ queried # {},
                                    !.queried = queried,
                                    !.state = IF IsFlying(left) THEN "uncertain" ELSE @]
<1>1. /\ DOMAIN recorded = DOMAIN NewLane /\ recorded.state = record.state
      /\ recorded.proposal = record.proposal /\ recorded.tasks = record.tasks
      /\ recorded.successor = NoSuccessor /\ recorded.holds = {}
  BY DEF NewLane
<1> HIDE DEF recorded
<1>2. Fine(recorded) BY <1>1, LaneFields DEF Fine, TypedLane, TypedRecord, Rests
<1>3. /\ Fine(left) /\ left.successor = NoSuccessor /\ left.holds = {}
      /\ left.state = record.state /\ left.proposal = record.proposal
  BY <1>1, <1>2, SettlingIsFine
<1>4. Restore(record) = SettleRestart(restored) BY DEF Restore, recorded
<1> HIDE DEF left, queried
<1>5. /\ DOMAIN restored = DOMAIN left /\ restored.proposal = left.proposal
      /\ restored.tasks = left.tasks /\ restored.successor = left.successor
      /\ restored.holds = left.holds
      /\ restored.state = IF IsFlying(left) THEN "uncertain" ELSE left.state
  BY <1>3, LaneFields DEF Fine, TypedLane
<1> HIDE DEF restored
<1>6. Fine(restored)
  BY <1>3, <1>5, LaneFields
     DEF Fine, TypedLane, TypedRecord, Rests, States, Flying, IsFlying, Live
<1>7. restored.state \in Begun /\ ~Live(restored) BY <1>3, <1>5 DEF Begun, IsFlying, Live
<1>8. Steady(restored) BY <1>3, <1>5, <1>7 DEF Steady
<1> QED BY <1>3, <1>4, <1>5, <1>6, <1>7, <1>8, SettlingIsSteady

\* So is one whose operations were asked about.
LEMMA ReconciledIsSteady ==
    ASSUME NEW l, Fine(l), Steady(l), l.state \in Begun, l.successor = NoSuccessor,
           NEW happened, NEW didNot
    PROVE  LET m == Reconcile(l, happened, didNot)
           IN  /\ Steady(m) /\ m.state \in Begun
               /\ m.proposal = l.proposal /\ m.successor = NoSuccessor
<1> DEFINE Found(i) == CASE i \in happened -> "completed"
                         [] i \in didNot -> "pending"
                         [] OTHER -> l.tasks[i]
           m == [l EXCEPT !.queried = @ \ (happened \cup didNot),
                          !.tasks = [i \in DOMAIN @ |-> CASE i \in happened -> "completed"
                                                          [] i \in didNot -> "pending"
                                                          [] OTHER -> @[i]]]
<1>1. /\ DOMAIN m = DOMAIN l /\ m.state = l.state /\ m.holds = l.holds
      /\ m.proposal = l.proposal /\ m.successor = l.successor
      /\ m.restarted = l.restarted
      /\ m.tasks = [i \in DOMAIN l.tasks |-> Found(i)]
  BY LaneFields DEF Fine, TypedLane
<1>2. \A i \in DOMAIN l.tasks : l.tasks[i] \in Statuses => Found(i) \in Statuses
  BY DEF Statuses
<1>3. Reconcile(l, happened, didNot) \in {l, SettleRestart(m)} BY DEF Reconcile
<1> HIDE DEF m, Found
<1>4. \A S : l.tasks \in [S -> Statuses] => m.tasks \in [S -> Statuses] BY <1>1, <1>2
<1>5. Fine(m) BY <1>1, <1>4, LaneFields DEF Fine, TypedLane, TypedRecord, Rests
<1>6. Steady(m) BY <1>1 DEF Steady, Live
<1> QED BY <1>1, <1>3, <1>5, <1>6, SettlingIsSteady

\* A restart.
LEMMA CrashLeads ==
    ASSUME ApprovedInv, SteerInv, LeadInv, Crash
    PROVE  LeadInv'
<1> DEFINE restored == IF journal = NoRecord THEN NewLane ELSE Restore(journal)
<1>1. PICK happened, didNot :
        LET found == Reconcile(restored, happened, didNot)
        IN  /\ happened \cup didNot \subseteq restored.queried
            /\ lane' = found /\ journal' = IF journal = NoRecord THEN journal ELSE Record(found)
  BY DEF Crash
<1>2. /\ run' = NoRun /\ unrecorded' = NoOrder /\ afterHandBack' = NoOrder
      /\ starting' = NoOrder /\ turn' = "idle" /\ plans' = plans
  BY DEF Crash
<1>3. plans \in Nat BY DEF ApprovedInv
<1>4. ASSUME NEW l, Steady(l), Dated(l, plans), NEW j, JournalOk(j, l, plans), lane' = l, journal' = j
      PROVE  LeadInv'
  <2>1. Led(l, plans, NoOrder, NoOrder, NoOrder, NoRun, j) BY <1>4 DEF Led, Given, RunLed, Sole
  <2>2. StartingOk(NoOrder, l, j) /\ RunOk(NoRun) BY DEF StartingOk, RunOk
  <2> QED BY <1>2, <1>4, <2>1, <2>2 DEF LeadInv, HostLed
<1>5. CASE journal = NoRecord
  <2>1. restored = NewLane /\ NewLane.queried = {} BY <1>5 DEF NewLane
  <2>2. happened \cup didNot = {} BY <1>1, <2>1
  <2>3. lane' = NewLane /\ journal' = NoRecord BY <1>1, <1>5, <2>1, <2>2 DEF Reconcile
  <2>4. Steady(NewLane) /\ Dated(NewLane, plans) /\ JournalOk(NoRecord, NewLane, plans)
    BY DEF NewLane, Steady, Dated, JournalOk, Begun, Live
  <2> QED BY <1>4, <2>3, <2>4
<1>6. CASE journal # NoRecord
  <2> DEFINE found == Reconcile(restored, happened, didNot)
  <2>1. /\ TypedRecord(journal) /\ journal.state \in Begun
        /\ journal.proposal \in AnyPlan /\ journal.proposal.digest <= plans
    BY <1>6 DEF SteerInv, TypedHost, LeadInv, HostLed, Led, JournalOk, Used
  <2>2. restored = Restore(journal) BY <1>6
  <2>3. /\ Fine(restored) /\ Steady(restored) /\ restored.state \in Begun
        /\ restored.successor = NoSuccessor /\ restored.proposal = journal.proposal
    BY <2>1, <2>2, RestoredIsFine, RestoredIsSteady
  <2>4. lane' = found /\ journal' = Record(found) BY <1>1, <1>6
  <2> HIDE DEF restored
  <2>5. /\ Steady(found) /\ found.state \in Begun
        /\ found.proposal = journal.proposal /\ found.successor = NoSuccessor
    BY <2>3, ReconciledIsSteady
  <2> HIDE DEF found
  <2>6. Dated(found, plans) /\ Used(found.proposal, found, plans)
    BY <2>1, <2>5 DEF Dated, Used, Begun
  <2>7. JournalOk(Record(found), found, plans)
    <3>1. Record(found) # NoRecord =>
            /\ Record(found).proposal = found.proposal /\ Record(found).tasks = found.tasks
            /\ Record(found).state = found.state
      BY DEF Record
    <3> QED BY <2>5, <2>6, <3>1 DEF JournalOk
  <2> QED BY <1>4, <2>4, <2>5, <2>6, <2>7
<1> QED BY <1>5, <1>6

\* The invariant is inductive.
LEMMA LeadNext ==
    ApprovedInv /\ SteerInv /\ LeadInv /\ [Next]_vars /\ ApprovedInv' /\ SteerInv' => LeadInv'
<1> SUFFICES ASSUME ApprovedInv, SteerInv, LeadInv, [Next]_vars, ApprovedInv', SteerInv'
             PROVE  LeadInv'
  OBVIOUS
<1>1. CASE TimePasses \/ UNCHANGED vars BY <1>1 DEF TimePasses, vars, LeadInv, HostLed, orders
<1> QED BY <1>1, IntentLeads, HostLeads, FlightLeads, OperationLeads, CrashLeads DEF Next

\* A lane that has nothing to fly yet.
LEMMA LeadInit == Init => ApprovedInv /\ SteerInv /\ LeadInv
<1> SUFFICES ASSUME Init PROVE ApprovedInv /\ SteerInv /\ LeadInv OBVIOUS
<1>1. ApprovedInv
  BY DEF Init, ApprovedInv, ApprovedLane, Backed, NewLane, IsFlying, Live, Flyable
<1>2. SteerInv BY SteerInit
<1>3. LeadInv
  <2>1. Steady(NewLane) /\ Dated(NewLane, 0) /\ JournalOk(NoRecord, NewLane, 0)
    BY DEF NewLane, Steady, Dated, JournalOk, Begun, Live
  <2>2. Led(NewLane, 0, NoOrder, NoOrder, NoOrder, NoRun, NoRecord)
    BY <2>1 DEF Led, Given, RunLed, Sole
  <2>3. StartingOk(NoOrder, NewLane, NoRecord) /\ RunOk(NoRun) BY DEF StartingOk, RunOk
  <2> QED BY <2>2, <2>3 DEF Init, LeadInv, HostLed
<1> QED BY <1>1, <1>2, <1>3

-----------------------------------------------------------------------------
(* What is replayed, and what is called completed.                         *)

\* Nothing of a new run is active, nor ended one way or the other.
LEMMA NothingBegan ==
    ASSUME NEW plan
    PROVE  /\ ActiveOf(NewRun(plan)) = {} /\ Unsuccessful(NewRun(plan)) = {}
           /\ \A i \in DOMAIN NewRun(plan) : NewRun(plan)[i] = "pending"
BY DEF ActiveOf, Unsuccessful, NewRun

\* A reply that leaves the tasks of the lane.
LEMMA SameIsTidy ==
    ASSUME NEW l, NEW m, m.proposal = l.proposal, m.tasks = l.tasks,
           m.state \in Flying => l.state \in Flying, m.state = "complete" => l.state = "complete",
           m.state = "uncertain" => l.state = "uncertain", NEW do, do # "start"
    PROVE  TidyCall(l, Reply(m, do))
BY DEF TidyCall, Tidy, Claims, Reply

\* A lane is tidy if one is that has its plan and its tasks.
LEMMA TidyAlike ==
    ASSUME NEW l, NEW f, f.proposal = l.proposal, f.tasks = l.tasks, f.holds = l.holds,
           f.state = l.state, NEW r, TidyCall(f, r)
    PROVE  TidyCall(l, r)
BY DEF TidyCall, Tidy, Claims, Left

\* The successor takes over.
LEMMA SwitchIsTidy ==
    ASSUME NEW l, TypedLane(l), l.state # "uncertain", "restarted" \notin l.holds
    PROVE  TidyCall(l, Switch(l))
<1> DEFINE m == Switch(l).lane
<1>1. /\ m.proposal = l.successor.plan /\ m.tasks = NewRun(l.successor.plan)
      /\ m.state \in {"running", l.state} /\ Switch(l).effect.do = "start"
      /\ Switch(l).effect.order.todo = DOMAIN m.tasks
  BY LaneFields DEF TypedLane, Switch, StartReply, Order
<1>2. \A i \in DOMAIN NewRun(l.successor.plan) : NewRun(l.successor.plan)[i] # "completed"
  BY NothingBegan
<1> HIDE DEF m
<1>3. Claims(l, m) BY <1>1, <1>2 DEF Claims
<1> QED BY <1>1, <1>3 DEF TidyCall, Tidy, m

\* A successor that is admitted waits, or takes over.
LEMMA AdmitSuccessorIsTidy ==
    ASSUME NEW l, Fine(l), l.state # "uncertain", "restarted" \notin l.holds,
           {"plan", "admitted", "basis", "approval"} \subseteq DOMAIN l.successor,
           l.successor.plan \in AnyPlan, NEW approval, NEW basis
    PROVE  TidyCall(l, AdmitSuccessor(l, approval, basis))
<1> DEFINE m == Admitted(l, approval, basis)
<1>1. /\ Fine(m) /\ m.state = l.state /\ m.holds = l.holds /\ m.proposal = l.proposal
  BY AdmittedIsFine
<1>2. m.tasks = l.tasks BY LaneFields DEF Fine, TypedLane, Admitted
<1>3. AdmitSuccessor(l, approval, basis) \in {Switch(m), Reply(m, "none")}
  BY DEF AdmitSuccessor
<1> HIDE DEF m
<1>4. TidyCall(m, Switch(m)) BY <1>1, SwitchIsTidy DEF Fine
<1>5. TidyCall(l, Switch(m)) BY <1>1, <1>2, <1>4, TidyAlike
<1>6. TidyCall(l, Reply(m, "none")) BY <1>1, <1>2, SameIsTidy
<1> QED BY <1>3, <1>5, <1>6

\* A checkpoint applies the successor, drops its admission, or does nothing.
LEMMA CheckpointIsTidy ==
    ASSUME NEW l, Fine(l), ApprovedLane(l), l.state # "uncertain", NEW complete, NEW t
    PROVE  TidyCall(l, AtCheckpoint(l, complete, t))
<1>1. CASE l.successor = NoSuccessor \/ ~l.successor.admitted
  <2>1. AtCheckpoint(l, complete, t) = Reply(l, "none") BY <1>1 DEF AtCheckpoint
  <2> QED BY <2>1, SameIsTidy
<1>2. CASE l.successor # NoSuccessor /\ l.successor.admitted
  <2> DEFINE lapsed == [l EXCEPT !.successor.admitted = FALSE, !.successor.basis = "drafted",
                                 !.successor.approval = NoApproval]
  <2>1. "restarted" \notin l.holds BY <1>2 DEF Fine, Rests
  <2>2. TidyCall(l, Switch(l)) BY <2>1, SwitchIsTidy DEF Fine
  <2>3. /\ lapsed.state = l.state /\ lapsed.proposal = l.proposal /\ lapsed.tasks = l.tasks
    BY LaneFields DEF Fine, TypedLane
  <2>4. AtCheckpoint(l, complete, t) =
           IF ~StillAdmitted(l, t) THEN Reply(lapsed, "none")
           ELSE IF complete \/ ~IsTask(l, "line") \/ FlownLines(l) > l.successor.flown
                THEN Switch(l) ELSE Reply(l, "none")
    BY <1>2, Zenon DEF AtCheckpoint
  <2>5. AtCheckpoint(l, complete, t) \in {Reply(lapsed, "none"), Switch(l), Reply(l, "none")}
    BY <2>4, Zenon
  <2> HIDE DEF lapsed
  <2>6. TidyCall(l, Reply(lapsed, "none")) /\ TidyCall(l, Reply(l, "none")) BY <2>3, SameIsTidy
  <2> QED BY <2>2, <2>5, <2>6
<1> QED BY <1>1, <1>2

\* A lane that nothing holds any more resumes its run, or starts what is left of
\* it: l is the lane with some of its holds lifted, from before.
LEMMA ResumingIsTidy ==
    ASSUME NEW before, NEW l, Fine(l), l.state = before.state, l.proposal = before.proposal,
           l.tasks = before.tasks, l.restarted = before.restarted, Steady(before)
    PROVE  TidyCall(before, ResumeWhenFree(l))
<1> DEFINE freed == [l EXCEPT !.state = "running", !.restarted = FALSE]
           order == Order(l.proposal, Left(l), FALSE)
<1>1. CASE l.holds # {} \/ ~Holding(l)
  <2>1. ResumeWhenFree(l) = Reply(l, "none") BY <1>1 DEF ResumeWhenFree
  <2> QED BY <2>1, SameIsTidy
<1>2. CASE l.holds = {} /\ Holding(l)
  <2>1. /\ l.restarted => ResumeWhenFree(l) = StartReply(freed, order)
        /\ ~l.restarted => ResumeWhenFree(l) = Reply(freed, "resume")
    BY <1>2 DEF ResumeWhenFree
  <2>2. freed.state = "running" /\ freed.proposal = l.proposal /\ freed.tasks = l.tasks
    BY LaneFields DEF Fine, TypedLane
  <2>3. order.todo = Left(before) BY DEF Order, Left
  <2>4. before.state \in Flying /\ Live(before) BY <1>2 DEF Holding, Flying, Live
  <2> HIDE DEF freed, order
  <2>5. CASE ~l.restarted
    <3>1. TidyCall(before, Reply(freed, "resume")) BY <2>2, <2>4, SameIsTidy
    <3> QED BY <2>1, <2>5, <3>1
  <2>6. CASE l.restarted
    <3>1. "restarted" \in before.holds BY <2>4, <2>6 DEF Steady
    <3>2. Claims(before, freed) BY <2>2 DEF Claims
    <3> QED BY <2>1, <2>2, <2>3, <2>6, <3>1, <3>2 DEF TidyCall, Tidy, StartReply
  <2> QED BY <2>5, <2>6
<1> QED BY <1>1, <1>2

\* A new plan has nothing to it yet.
LEMMA ProposeIsTidy ==
    ASSUME NEW l, Fine(l), NEW plan
    PROVE  TidyCall(l, Propose(l, plan))
<1> DEFINE m == Propose(l, plan).lane
<1>1. m.state = "proposed" /\ m.tasks = <<>> /\ Propose(l, plan).effect.do = "none"
  BY LaneFields DEF Fine, TypedLane, Propose, Reply
<1>2. DOMAIN <<>> = {} OBVIOUS
<1> HIDE DEF m
<1>3. Claims(l, m) BY <1>1, <1>2 DEF Claims
<1> QED BY <1>1, <1>3 DEF TidyCall, Tidy, Flying, m

\* An approval admits a plan or a successor, or lifts the hold on expiry.
LEMMA ApproveIsTidy ==
    ASSUME NEW l, Fine(l), ApprovedLane(l), Steady(l), NEW p \in Approvable(l), NEW approval,
           approval.digest = p.digest
    PROVE  TidyCall(l, Approve(l, approval))
<1>1. CASE l.state = "proposed"
  <2> DEFINE m == [l EXCEPT !.approval = approval, !.state = "admitted"]
  <2>1. Approve(l, approval) = Reply(m, "none") BY <1>1 DEF Approve, IsFlying, Live
  <2>2. m.state = "admitted" /\ m.proposal = l.proposal /\ m.tasks = l.tasks
    BY LaneFields DEF Fine, TypedLane
  <2> HIDE DEF m
  <2> QED BY <2>1, <2>2, SameIsTidy DEF Flying
<1>2. CASE l.state # "proposed" /\ IsFlying(l) /\ approval.digest = l.proposal.digest
  <2> DEFINE m == [l EXCEPT !.approval = approval, !.expired = FALSE,
                            !.holds = @ \ {"approvalExpired"}]
  <2>1. Approve(l, approval) = ResumeWhenFree(m) BY <1>2 DEF Approve, Renew
  <2>2. /\ DOMAIN m = DOMAIN l /\ m.state = l.state /\ m.holds = l.holds \ {"approvalExpired"}
        /\ m.proposal = l.proposal /\ m.tasks = l.tasks /\ m.successor = l.successor
        /\ m.restarted = l.restarted
    BY LaneFields DEF Fine, TypedLane
  <2> HIDE DEF m
  <2>3. Fine(m) BY <1>2, <2>2 DEF Fine, TypedLane, TypedRecord, Rests
  <2> QED BY <2>1, <2>2, <2>3, ResumingIsTidy
<1>3. CASE l.state # "proposed" /\ ~(IsFlying(l) /\ approval.digest = l.proposal.digest)
  <2>1. IsFlying(l) /\ l.successor # NoSuccessor BY <1>3 DEF Approvable
  <2>2. l.successor.plan \in AnyPlan /\ "restarted" \notin l.holds /\ l.state # "uncertain"
        /\ {"plan", "admitted", "basis", "approval"} \subseteq DOMAIN l.successor
    BY <2>1 DEF Fine, TypedLane, Rests, ApprovedLane, AdmittedByOwn, Steady
  <2>3. Approve(l, approval) = AdmitSuccessor(l, approval, "approved") BY <1>3 DEF Approve
  <2> QED BY <2>2, <2>3, AdmitSuccessorIsTidy
<1> QED BY <1>1, <1>2, <1>3

\* A lane that starts has all of its plan to do.
LEMMA StartIsTidy ==
    ASSUME NEW l, Fine(l), l.state = "admitted"
    PROVE  TidyCall(l, Start(l))
<1> DEFINE m == Start(l).lane
<1>1. /\ m.state = "running" /\ m.proposal = l.proposal /\ m.tasks = NewRun(l.proposal)
      /\ Start(l).effect.do = "start" /\ "restarted" \notin l.holds
      /\ Start(l).effect.order.todo = DOMAIN m.tasks
  BY LaneFields DEF Fine, TypedLane, Start, StartReply, Rests, Order
<1>2. \A i \in DOMAIN NewRun(l.proposal) : NewRun(l.proposal)[i] # "completed" BY NothingBegan
<1> HIDE DEF m
<1>3. Claims(l, m) BY <1>1, <1>2 DEF Claims
<1> QED BY <1>1, <1>3 DEF TidyCall, Tidy, m

\* A hold leaves the tasks.
LEMMA HoldIsTidy ==
    ASSUME NEW l, Fine(l), Live(l)
    PROVE  TidyCall(l, Hold(l))
<1> DEFINE m == WithHold(l, "operator")
           held == [m EXCEPT !.state = "holdRequested"]
<1>1. Hold(l) = IF l.state = "running" THEN Reply(held, "hold") ELSE Reply(m, "none")
  BY DEF Hold
<1>2. /\ m.state = l.state /\ m.proposal = l.proposal /\ m.tasks = l.tasks
      /\ held.state = "holdRequested" /\ held.proposal = l.proposal /\ held.tasks = l.tasks
  BY LaneFields DEF Fine, TypedLane, WithHold
<1>3. l.state \in Flying BY DEF Live, Flying
<1> HIDE DEF m, held
<1> QED BY <1>1, <1>2, <1>3, SameIsTidy

\* A resume goes on with the tasks as they are.
LEMMA ResumeIsTidy ==
    ASSUME NEW l, Fine(l), Steady(l)
    PROVE  TidyCall(l, Resume(l))
<1> DEFINE m == [l EXCEPT !.holds = @ \ {"operator", "restarted"}]
<1>1. /\ DOMAIN m = DOMAIN l /\ m.state = l.state /\ m.holds = l.holds \ {"operator", "restarted"}
      /\ m.proposal = l.proposal /\ m.tasks = l.tasks /\ m.successor = l.successor
      /\ m.restarted = l.restarted
  BY LaneFields DEF Fine, TypedLane
<1>2. Resume(l) = ResumeWhenFree(m) BY DEF Resume
<1> HIDE DEF m
<1>3. Fine(m) BY <1>1 DEF Fine, TypedLane, TypedRecord, Rests
<1> QED BY <1>1, <1>2, <1>3, ResumingIsTidy

\* An abort completes nothing.
LEMMA AbortIsTidy ==
    ASSUME NEW l, Fine(l)
    PROVE  TidyCall(l, Abort(l))
<1> DEFINE m == Abort(l).lane
<1>1. /\ m.state = "aborted" /\ m.proposal = l.proposal /\ Abort(l).effect.do = "abort"
      /\ m.tasks = [i \in DOMAIN l.tasks |->
                      IF Flies(l.proposal) /\ l.tasks[i] = "active" THEN "cancelled" ELSE l.tasks[i]]
  BY LaneFields DEF Fine, TypedLane, Abort, Reply
<1> HIDE DEF m
<1>2. Claims(l, m) BY <1>1 DEF Claims
<1> QED BY <1>1, <1>2 DEF TidyCall, Tidy, Flying, m

\* A revision takes over now, or waits.
LEMMA ReviseIsTidy ==
    ASSUME NEW l, Fine(l), CanRevise(l), NEW plan \in AnyPlan, NEW within, NEW t
    PROVE  TidyCall(l, Revise(l, plan, within, t))
<1> DEFINE drafted == Draft(l, plan)
<1>1. "restarted" \notin l.holds /\ l.state # "uncertain" BY DEF CanRevise, Fine, Rests, Live
<1>2. /\ Fine(drafted) /\ drafted.state = l.state /\ drafted.holds = l.holds
      /\ drafted.proposal = l.proposal
      /\ {"plan", "admitted", "basis", "approval"} \subseteq DOMAIN drafted.successor
      /\ drafted.successor.plan = plan
  BY <1>1, DraftIsFine
<1>3. drafted.tasks = l.tasks BY LaneFields DEF Fine, TypedLane, Draft
<1> HIDE DEF drafted
<1>4. TidyCall(l, Reply(drafted, "none")) BY <1>2, <1>3, SameIsTidy
<1> DEFINE reply == AdmitSuccessor(drafted, Bind(l.approval, plan), "withinEnvelope")
<1>5. TidyCall(drafted, reply) BY <1>1, <1>2, AdmitSuccessorIsTidy
<1> HIDE DEF reply
<1>6. TidyCall(l, reply) BY <1>2, <1>3, <1>5, TidyAlike
<1> QED BY <1>4, <1>6 DEF Revise, drafted, reply

\* An answer completes nothing yet.
LEMMA AnswerIsTidy ==
    ASSUME NEW l, Fine(l)
    PROVE  TidyCall(l, Answer(l))
<1> DEFINE m == [l EXCEPT !.answered = TRUE]
<1>1. m.state = l.state /\ m.proposal = l.proposal /\ m.tasks = l.tasks
  BY LaneFields DEF Fine, TypedLane
<1> HIDE DEF m
<1>2. TidyCall(l, Reply(m, "answer")) BY <1>1, SameIsTidy
<1> QED BY <1>2 DEF Answer, m

\* An expiry is answered by a way home, by a hold, or by one more reason to hold.
LEMMA OnClockIsTidy ==
    ASSUME NEW l, Fine(l), NEW home \in AnyPlan, NEW t, ExpiredNow(l, t)
    PROVE  TidyCall(l, OnClock(l, home, t))
<1> DEFINE late == [l EXCEPT !.expired = TRUE]
           m == WithHold(late, "approvalExpired")
           held == [m EXCEPT !.state = "holdRequested"]
<1>1. Live(l) /\ l.state \in Flying /\ l.state # "uncertain" BY DEF ExpiredNow, Live, Flying
<1>2. /\ DOMAIN late = DOMAIN l /\ late.state = l.state /\ late.holds = l.holds
      /\ late.proposal = l.proposal /\ late.tasks = l.tasks /\ late.successor = l.successor
  BY LaneFields DEF Fine, TypedLane
<1>3. Fine(late) BY <1>2, Alike
<1>4. CASE l.approval.onExpiry = "home" /\ Flies(l.proposal)
  <2> DEFINE drafted == Draft(late, home)
  <2>1. "restarted" \notin late.holds BY <1>2, <1>4 DEF Fine, Rests
  <2> HIDE DEF late
  <2>2. /\ Fine(drafted) /\ drafted.state = late.state /\ drafted.holds = late.holds
        /\ drafted.proposal = late.proposal
        /\ {"plan", "admitted", "basis", "approval"} \subseteq DOMAIN drafted.successor
        /\ drafted.successor.plan = home
    BY <1>3, <2>1, DraftIsFine
  <2>3. drafted.tasks = late.tasks BY <1>3, LaneFields DEF Fine, TypedLane, Draft
  <2>4. OnClock(l, home, t) = AdmitSuccessor(drafted, Bind(l.approval, home), "expiryRecovery")
    BY <1>4 DEF OnClock, late
  <2> HIDE DEF drafted
  <2> DEFINE reply == OnClock(l, home, t)
  <2>5. TidyCall(drafted, reply) BY <1>1, <1>2, <2>1, <2>2, <2>4, AdmitSuccessorIsTidy
  <2> HIDE DEF reply
  <2>6. TidyCall(l, reply) BY <1>2, <2>2, <2>3, <2>5, TidyAlike
  <2> QED BY <2>6 DEF reply
<1>5. CASE ~(l.approval.onExpiry = "home" /\ Flies(l.proposal))
  <2>1. OnClock(l, home, t) = IF l.state = "running" THEN Reply(held, "hold") ELSE Reply(m, "none")
    BY <1>5 DEF OnClock
  <2>2. /\ m.state = l.state /\ m.proposal = l.proposal /\ m.tasks = l.tasks
        /\ held.state = "holdRequested" /\ held.proposal = l.proposal /\ held.tasks = l.tasks
    BY LaneFields DEF Fine, TypedLane, WithHold
  <2> HIDE DEF m, held
  <2> QED BY <1>1, <2>1, <2>2, SameIsTidy
<1> QED BY <1>4, <1>5

\* A recovery takes over at once.
LEMMA RecoveryIsTidy ==
    ASSUME NEW l, Fine(l), Live(l), Flies(l.proposal), NEW home \in AnyPlan
    PROVE  TidyCall(l, RecoverFromLostControl(l, home))
<1> DEFINE drafted == Draft(l, home)
           m == Admitted(drafted, Bind(l.approval, home), "controlLossRecovery")
<1>1. "restarted" \notin l.holds /\ l.state # "uncertain" BY DEF Fine, Rests, Live
<1>2. /\ Fine(drafted) /\ drafted.state = l.state /\ drafted.holds = l.holds
      /\ drafted.proposal = l.proposal
      /\ {"plan", "admitted", "basis", "approval"} \subseteq DOMAIN drafted.successor
      /\ drafted.successor.plan = home
  BY <1>1, DraftIsFine
<1>3. drafted.tasks = l.tasks BY LaneFields DEF Fine, TypedLane, Draft
<1> HIDE DEF drafted
<1>4. /\ Fine(m) /\ m.state = drafted.state /\ m.holds = drafted.holds
      /\ m.proposal = drafted.proposal
  BY <1>1, <1>2, AdmittedIsFine
<1>5. m.tasks = drafted.tasks BY <1>2, LaneFields DEF Fine, TypedLane, Admitted
<1> HIDE DEF m
<1>6. TidyCall(m, Switch(m)) BY <1>1, <1>2, <1>4, SwitchIsTidy DEF Fine
<1>7. TidyCall(l, Switch(m)) BY <1>2, <1>3, <1>4, <1>5, <1>6, TidyAlike
<1> QED BY <1>7 DEF RecoverFromLostControl, drafted, m

\* The end of the taker's lease starts a recovery or nothing.
LEMMA OnExecutionIsTidy ==
    ASSUME NEW l, Fine(l), NEW execution, NEW home \in AnyPlan, NEW t
    PROVE  TidyCall(l, OnExecution(l, execution, home, t))
<1> DEFINE m == [l EXCEPT !.execution = execution]
<1>1. /\ DOMAIN m = DOMAIN l /\ m.state = l.state /\ m.holds = l.holds
      /\ m.proposal = l.proposal /\ m.tasks = l.tasks /\ m.successor = l.successor
  BY LaneFields DEF Fine, TypedLane
<1>2. OnExecution(l, execution, home, t) =
         IF l.execution # "freed" /\ RecoversFromLostControl(m, t)
         THEN RecoverFromLostControl(m, home) ELSE Reply(m, "none")
  BY DEF OnExecution
<1> HIDE DEF m
<1>3. Fine(m) BY <1>1, Alike
<1>4. TidyCall(l, Reply(m, "none")) BY <1>1, SameIsTidy
<1>5. ASSUME RecoversFromLostControl(m, t) PROVE TidyCall(l, RecoverFromLostControl(m, home))
  <2>1. TidyCall(m, RecoverFromLostControl(m, home))
    BY <1>3, <1>5, RecoveryIsTidy DEF RecoversFromLostControl
  <2> QED BY <1>1, <2>1, TidyAlike
<1> QED BY <1>2, <1>4, <1>5

\* A lane that is over completed what its run left active, if that completed.
LEMMA CloseIsTidy ==
    ASSUME NEW f, Fine(f), NEW outcome, NEW state \in {"complete", "failed"}
    PROVE  LET m == Close(f, outcome, state)
           IN  /\ Tidy(f, Reply(m, "none")) /\ m.state = state /\ m.proposal = f.proposal
               /\ DOMAIN m.tasks = DOMAIN f.tasks
               /\ \A i \in DOMAIN m.tasks : f.tasks[i] = "completed" => m.tasks[i] = "completed"
               /\ ~Flies(f.proposal) =>
                     \A i \in DOMAIN m.tasks : m.tasks[i] = "completed" =>
                        \/ f.tasks[i] = "completed"
                        \/ outcome = "completed" /\ f.tasks[i] = "active"
<1> DEFINE m == Close(f, outcome, state)
<1>1. /\ m.state = state /\ m.proposal = f.proposal
      /\ m.tasks = [i \in DOMAIN f.tasks |->
            IF f.tasks[i] = "active" /\ (Flies(f.proposal) \/ outcome = "completed")
            THEN outcome ELSE f.tasks[i]]
  BY LaneFields DEF Fine, TypedLane, Close
<1> HIDE DEF m
<1>2. Tidy(f, Reply(m, "none")) BY <1>1 DEF Tidy, Reply, Flying
<1>3. ~Flies(f.proposal) =>
         \A i \in DOMAIN m.tasks : m.tasks[i] = "completed" =>
            f.tasks[i] = "completed" \/ (outcome = "completed" /\ f.tasks[i] = "active")
  BY <1>1
<1>4. \A i \in DOMAIN m.tasks : f.tasks[i] = "completed" => m.tasks[i] = "completed" BY <1>1
<1> QED BY <1>1, <1>2, <1>3, <1>4 DEF m

\* Progress leaves the tasks it folded in, of a run that goes on, and completes
\* what is active when the run is complete.
LEMMA OnProgressIsTidy ==
    ASSUME NEW l, Fine(l), ApprovedLane(l), "restarted" \notin l.holds, l.state # "uncertain",
           NEW progress, NEW home, NEW t, home \in AnyPlan \/ progress.execution # "freed"
    PROVE  LET f == Fold(l, progress)
               r == OnProgress(l, progress, home, t)
               m == r.lane
           IN  /\ Tidy(f, r)
               /\ r.effect.do # "start" /\ m.state \in Flying =>
                     ~progress.complete /\ ~progress.ended
               /\ m.state = "complete" =>
                     \/ l.state = "complete"
                     \/ /\ progress.complete /\ IsFlying(l) /\ DOMAIN m.tasks = DOMAIN f.tasks
                        /\ \A i \in DOMAIN m.tasks : f.tasks[i] = "completed" => m.tasks[i] = "completed"
               /\ ~Flies(m.proposal) =>
                     \A i \in DOMAIN m.tasks : m.tasks[i] = "completed" =>
                        /\ m.proposal = l.proposal /\ i \in DOMAIN f.tasks
                        /\ \/ f.tasks[i] = "completed"
                           \/ progress.complete /\ IsFlying(l) /\ f.tasks[i] = "active"
<1> DEFINE f == Fold(l, progress)
           r == OnProgress(l, progress, home, t)
           checked == IF IsFlying(l) THEN AtCheckpoint(f, progress.complete, t)
                                     ELSE Reply(f, "none")
           told == [l EXCEPT !.execution = progress.execution]
           closed(outcome, state) == Reply(Close(checked.lane, outcome, state), "none")
           recovers == /\ l.tasks # <<>> /\ l.execution # "freed"
                       /\ RecoversFromLostControl(f, t)
           Goal(q) ==
               /\ Tidy(f, q)
               /\ q.effect.do # "start" /\ q.lane.state \in Flying =>
                     ~progress.complete /\ ~progress.ended
               /\ q.lane.state = "complete" =>
                     \/ l.state = "complete"
                     \/ /\ progress.complete /\ IsFlying(l) /\ DOMAIN q.lane.tasks = DOMAIN f.tasks
                        /\ \A i \in DOMAIN q.lane.tasks :
                              f.tasks[i] = "completed" => q.lane.tasks[i] = "completed"
               /\ ~Flies(q.lane.proposal) =>
                     \A i \in DOMAIN q.lane.tasks : q.lane.tasks[i] = "completed" =>
                        /\ q.lane.proposal = l.proposal /\ i \in DOMAIN f.tasks
                        /\ \/ f.tasks[i] = "completed"
                           \/ progress.complete /\ IsFlying(l) /\ f.tasks[i] = "active"
<1>1. /\ Fine(f) /\ f.holds = l.holds /\ f.proposal = l.proposal
      /\ f.successor = l.successor
      /\ f.state = l.state \/ (l.state = "holdRequested" /\ f.state = "held")
  BY FoldIsFine
<1>2. f.execution = progress.execution /\ ApprovedLane(f)
  <2>1. /\ f.proposal = l.proposal /\ f.approval = l.approval
        /\ f.holds = l.holds /\ f.expired = l.expired
        /\ f.successor = l.successor /\ f.execution = progress.execution
        /\ f.state = l.state \/ (l.state = "holdRequested" /\ f.state = "held")
        /\ DOMAIN f = DOMAIN l
    BY DEF ApprovedLane, Backed, Fold
  <2> HIDE DEF f
  <2> QED BY <2>1 DEF ApprovedLane, Backed, IsFlying, Live, Flyable
<1>3. IsFlying(l) <=> f.state \in Flying BY <1>1 DEF IsFlying, Live, Flying
<1>4. f.state # "uncertain" BY <1>1
<1> HIDE DEF f
<1>5. ASSUME NEW q, TidyCall(f, q), q.effect.do = "start" PROVE Goal(q)
  BY <1>1, <1>5 DEF TidyCall, Claims
<1>6. CASE l.tasks = <<>>
  <2>1. r = Reply(told, "none") BY <1>6 DEF OnProgress
  <2>2. told.state = l.state /\ told.proposal = l.proposal /\ told.tasks = <<>>
    BY <1>6, LaneFields DEF Fine, TypedLane
  <2>3. l.state \notin Flying
    <3>1. DOMAIN l.tasks = {} BY <1>6
    <3> QED BY <3>1, NumbersAreNaturals DEF Fine, TypedLane, TypedRecord
  <2> HIDE DEF told
  <2>4. DOMAIN <<>> = {} OBVIOUS
  <2>5. Goal(Reply(told, "none")) BY <2>2, <2>3, <2>4 DEF Tidy, Reply
  <2> QED BY <2>1, <2>5 DEF f
<1>7. CASE recovers
  <2>1. r = RecoverFromLostControl(f, home) BY <1>7 DEF OnProgress, f
  <2>2. home \in AnyPlan /\ Live(f) /\ Flies(f.proposal)
    BY <1>2, <1>7 DEF RecoversFromLostControl
  <2>3. TidyCall(f, RecoverFromLostControl(f, home)) BY <1>1, <2>2, RecoveryIsTidy
  <2>4. RecoverFromLostControl(f, home).effect.do = "start"
    BY DEF RecoverFromLostControl, Switch, StartReply
  <2> QED BY <1>5, <2>1, <2>3, <2>4 DEF f
<1>8. CASE l.tasks # <<>> /\ ~recovers
  <2>1. r =
           IF checked.effect.do # "none" THEN checked
           ELSE CASE progress.complete /\ IsFlying(l) -> closed("completed", "complete")
                  [] ~progress.complete /\ progress.ended /\ IsFlying(l) -> closed("failed", "failed")
                  [] OTHER -> Reply(checked.lane, "none")
    BY <1>8 DEF OnProgress, f
  <2>2. TidyCall(f, checked)
    <3>1. TidyCall(f, AtCheckpoint(f, progress.complete, t))
      BY <1>1, <1>2, <1>4, CheckpointIsTidy
    <3>2. TidyCall(f, Reply(f, "none")) BY SameIsTidy
    <3> QED BY <3>1, <3>2
  <2>3. checked.effect.do = "start" \/
           (checked.effect.do = "none" /\ Fine(checked.lane) /\ checked.lane.proposal = f.proposal
             /\ checked.lane.tasks = f.tasks /\ checked.lane.state = f.state)
    <3>1. LET c == AtCheckpoint(f, progress.complete, t)
          IN  c.effect.do = "start" \/
                (c.effect.do = "none" /\ c.lane.proposal = f.proposal
                  /\ c.lane.tasks = f.tasks /\ c.lane.state = f.state)
      BY LaneFields, <1>1 DEF AtCheckpoint, Reply, Switch, StartReply, Fine, TypedLane
    <3>2. f.state # "idle" => Fine(AtCheckpoint(f, progress.complete, t).lane)
      BY <1>1, <1>2, CheckpointSteers DEF Steered
    <3>3. f.state \in Flying => f.state # "idle" BY DEF Flying
    <3> QED BY <1>1, <1>3, <3>1, <3>2, <3>3 DEF Reply
  <2>4. CASE checked.effect.do = "start" BY <1>5, <2>1, <2>2, <2>4 DEF f
  <2>5. CASE checked.effect.do = "none"
    <3> DEFINE c == checked.lane
    <3>1. Fine(c) /\ c.proposal = f.proposal /\ c.tasks = f.tasks /\ c.state = f.state
      BY <2>3, <2>5
    <3>2. r = CASE progress.complete /\ IsFlying(l) -> Reply(Close(c, "completed", "complete"), "none")
                [] ~progress.complete /\ progress.ended /\ IsFlying(l) ->
                      Reply(Close(c, "failed", "failed"), "none")
                [] OTHER -> Reply(c, "none")
      BY <2>1, <2>5
    <3> HIDE DEF c
    <3>3. ASSUME progress.complete, IsFlying(l)
          PROVE  Goal(Reply(Close(c, "completed", "complete"), "none"))
      <4> DEFINE m == Close(c, "completed", "complete")
      <4>1. /\ m.state = "complete" /\ m.proposal = c.proposal /\ DOMAIN m.tasks = DOMAIN c.tasks
            /\ \A i \in DOMAIN m.tasks : c.tasks[i] = "completed" => m.tasks[i] = "completed"
            /\ ~Flies(c.proposal) =>
                 \A i \in DOMAIN m.tasks : m.tasks[i] = "completed" =>
                    c.tasks[i] = "completed" \/ c.tasks[i] = "active"
        BY <3>1, CloseIsTidy
      <4> HIDE DEF m
      <4>2. Goal(Reply(m, "none")) BY <1>1, <3>1, <3>3, <4>1 DEF Tidy, Reply, Flying
      <4> QED BY <4>2 DEF m
    <3>4. ASSUME IsFlying(l)
          PROVE  Goal(Reply(Close(c, "failed", "failed"), "none"))
      <4> DEFINE m == Close(c, "failed", "failed")
      <4>1. /\ m.state = "failed" /\ m.proposal = c.proposal /\ DOMAIN m.tasks = DOMAIN c.tasks
            /\ ~Flies(c.proposal) =>
                 \A i \in DOMAIN m.tasks : m.tasks[i] = "completed" => c.tasks[i] = "completed"
        BY <3>1, CloseIsTidy
      <4> HIDE DEF m
      <4>2. Goal(Reply(m, "none")) BY <1>1, <3>1, <4>1 DEF Tidy, Reply, Flying
      <4> QED BY <4>2 DEF m
    <3>5. ASSUME ~(progress.complete /\ IsFlying(l)),
                 ~(~progress.complete /\ progress.ended /\ IsFlying(l))
          PROVE  Goal(Reply(c, "none"))
      BY <1>1, <1>3, <1>4, <3>1, <3>5 DEF Tidy, Reply
    <3> HIDE DEF Goal, r
    <3>6. Goal(r) BY <3>2, <3>3, <3>4, <3>5
    <3> QED BY <3>6 DEF Goal, r, f
  <2> QED BY <2>3, <2>4, <2>5
<1> QED BY <1>6, <1>7, <1>8

-----------------------------------------------------------------------------
(* What was reported, and what the orders and the run still have to do.    *)

\* Orders that are dropped or put elsewhere.
LEMMA TiedMoves ==
    ASSUME NEW l, NEW n, NEW u, NEW a, NEW s, NEW r, NEW w, Tied(l, n, u, a, s, r, w)
    PROVE  /\ Tied(l, n, s, a, NoOrder, r, w) /\ Tied(l, n, u, s, NoOrder, r, w)
           /\ Tied(l, n, u, NoOrder, a, r, w) /\ Tied(l, n, NoOrder, a, u, r, w)
           /\ Tied(l, n, NoOrder, NoOrder, s, r, w) /\ Tied(l, n, u, a, s, NoRun, w)
           /\ Tied(l, n, a, NoOrder, NoOrder, NoRun, w)
           /\ Tied(l, n, u, NoOrder, NoOrder, NoRun, w)
<1>1. FreshOrder(NoOrder, l, w) /\ FreshRun(NoRun, l, w) BY DEF FreshOrder, FreshRun
<1>2. Apart(u, a, s, r) /\ Quiet(l, u, a, s, r) BY DEF Tied
<1>3. /\ Apart(s, a, NoOrder, r) /\ Apart(u, s, NoOrder, r)
      /\ Apart(u, NoOrder, a, r) /\ Apart(NoOrder, a, u, r)
      /\ Apart(NoOrder, NoOrder, s, r) /\ Apart(u, a, s, NoRun)
      /\ Apart(a, NoOrder, NoOrder, NoRun) /\ Apart(u, NoOrder, NoOrder, NoRun)
  BY <1>2 DEF Apart
<1>4. /\ Quiet(l, s, a, NoOrder, r) /\ Quiet(l, u, s, NoOrder, r)
      /\ Quiet(l, u, NoOrder, a, r) /\ Quiet(l, NoOrder, a, u, r)
      /\ Quiet(l, NoOrder, NoOrder, s, r) /\ Quiet(l, u, a, s, NoRun)
      /\ Quiet(l, a, NoOrder, NoOrder, NoRun) /\ Quiet(l, u, NoOrder, NoOrder, NoRun)
  BY <1>2 DEF Quiet
<1> QED BY <1>1, <1>3, <1>4 DEF Tied

\* A run begins with what its order leaves it.
LEMMA SpawnIsTied ==
    ASSUME NEW l, NEW n, NEW u, NEW a, NEW o, NEW r, NEW w, Tied(l, n, u, a, o, r, w),
           o # NoOrder
    PROVE  Tied(l, n, u, a, NoOrder, NewRunOf(o), w)
<1> DEFINE new == NewRunOf(o)
<1>1. /\ new.plan = o.plan /\ new.todo = o.todo /\ new.finished = {} /\ new.active = 0
      /\ new.complete = FALSE /\ new.cancelled = {} /\ new.failed = {}
  BY DEF NewRunOf
<1> HIDE DEF new
<1>2. FreshOrder(o, l, w) /\ Apart(u, a, o, r) /\ Quiet(l, u, a, o, r) BY DEF Tied
<1>3. FreshRun(new, l, w) BY <1>1, <1>2 DEF FreshRun, FreshOrder
<1>4. FreshOrder(NoOrder, l, w) /\ Apart(u, a, NoOrder, new) /\ Quiet(l, u, a, NoOrder, new)
  BY <1>1, <1>2 DEF FreshOrder, Apart, Quiet
<1> QED BY <1>3, <1>4 DEF Tied, new

\* A plan that was not given to a run has no reports.
LEMMA NothingReported ==
    ASSUME NEW l, NEW n, NEW w, Accounted(l, n, w), NEW plan \in AnyPlan, ~Flies(plan),
           \A p : Used(p, l, n) => p # plan
    PROVE  Reported(plan, w) = {}
<1> SUFFICES ASSUME NEW i \in DOMAIN Operations, <<plan.digest, i>> \in w PROVE FALSE
  BY DEF Reported
<1> DEFINE p == [digest |-> plan.digest, kind |-> "operations"]
<1>1. Used(p, l, n) BY DEF Accounted
<1>2. p = plan BY DEF AnyPlan, Flies
<1> QED BY <1>1, <1>2

\* What was used stays used, and what a call starts was not, unless a restart
\* left it.
LEMMA UsedAdvances ==
    ASSUME NEW l, Fine(l), NEW reply, LET m == reply.lane IN Fine(m), Steady(l),
           NEW n \in Nat, NEW k \in Nat, n <= k, Dated(l, n),
           NEW done, NEW fresh, Advances(l, reply, done, fresh),
           \A p \in fresh : p.digest > n
    PROVE  /\ \A p : Used(p, l, n) => Used(p, reply.lane, k)
           /\ reply.effect.do = "start" =>
                 \/ "restarted" \in l.holds
                 \/ \A p : Used(p, l, n) => p # reply.lane.proposal
<1> DEFINE m == reply.lane
<1>1. /\ l.state # "idle" => l.proposal \in AnyPlan
      /\ l.successor # NoSuccessor => l.successor.plan \in AnyPlan
      /\ m.successor # NoSuccessor => m.successor.plan \in AnyPlan
      /\ m.state # "idle" => m.proposal \in AnyPlan
      /\ l.state \in States /\ m.state \in States
  BY DEF Fine, TypedLane, TypedRecord
<1>2. \A p \in AnyPlan : p.digest \in Nat BY DEF AnyPlan
<1>3. CASE reply.effect.do # "start" /\ Onward(l, m, done, fresh)
  <2> SUFFICES ASSUME NEW p, Used(p, l, n) PROVE Used(p, m, k) BY <1>3
  <2>1. p.digest \in Nat /\ p.digest <= n /\ p.digest <= k BY <1>2 DEF Used
  <2>2. m.successor # NoSuccessor => p.digest < m.successor.plan.digest
    BY <1>1, <1>2, <1>3, <2>1 DEF Used, Onward
  <2>3. m.state \in {"proposed", "admitted"} => p.digest < m.proposal.digest
    <3>1. m.state \in {"proposed", "admitted"} => l.state \in {"proposed", "admitted"}
      BY <1>1, <1>3 DEF Onward, Begun, States
    <3> QED BY <1>3, <3>1 DEF Used, Onward
  <2> QED BY <2>1, <2>2, <2>3 DEF Used
<1>4. CASE Orders(reply) /\ (Begins(l, reply) \/ TakesOver(l, reply, fresh))
  <2>1. m.state \in Begun /\ m.successor = NoSuccessor /\ m.proposal \in AnyPlan
    BY <1>1, <1>4 DEF Orders, Begun
  <2>2. \A p : Used(p, l, n) => Used(p, m, k)
    <3> SUFFICES ASSUME NEW p, Used(p, l, n) PROVE Used(p, m, k) OBVIOUS
    <3>1. p.digest \in Nat /\ p.digest <= n BY <1>2 DEF Used
    <3> QED BY <2>1, <3>1 DEF Used, Begun
  <2> SUFFICES ASSUME "restarted" \notin l.holds, NEW p, Used(p, l, n) PROVE p # m.proposal
    BY <2>2
  <2>3. p.digest \in Nat /\ p.digest <= n /\ m.proposal.digest \in Nat BY <1>2, <2>1 DEF Used
  <2>4. p.digest < m.proposal.digest
    <3>1. CASE Begins(l, reply) BY <3>1 DEF Begins, Used
    <3>2. CASE TakesOver(l, reply, fresh) BY <2>3, <3>2 DEF TakesOver, Used
    <3> QED BY <1>4, <3>1, <3>2
  <2> QED BY <2>3, <2>4
<1> QED BY <1>3, <1>4 DEF Advances, Begins, TakesOver

\* A call: what it orders was not reported.  f is the lane with the progress
\* it was told folded in.
LEMMA AdvanceTies ==
    ASSUME NEW l, Fine(l), NEW reply, LET m == reply.lane IN Fine(m),
           NEW n \in Nat, NEW k \in Nat, n <= k,
           NEW u, NEW a, NEW r, NEW j, Led(l, n, u, a, NoOrder, r, j),
           NEW done, NEW fresh, Advances(l, reply, done, fresh),
           \A p \in fresh : p.digest > n, Steers(l, reply),
           "restarted" \in l.holds => r = NoRun /\ u = NoOrder /\ a = NoOrder,
           NEW f, Fine(f), f.proposal = l.proposal, f.holds = l.holds, Live(f) <=> Live(l),
           NEW w, Accounted(l, n, w), Tied(f, n, u, a, NoOrder, r, w), Tidy(f, reply)
    PROVE  /\ reply.effect.do # "start" => Tied(reply.lane, k, u, a, NoOrder, r, w)
           /\ reply.effect.do = "start" => Tied(reply.lane, k, u, a, reply.effect.order, r, w)
<1> DEFINE m == reply.lane
           o == reply.effect.order
<1>1. /\ \A p : Used(p, l, n) => Used(p, m, k)
      /\ reply.effect.do = "start" =>
            "restarted" \in l.holds \/ \A p : Used(p, l, n) => p # m.proposal
  BY UsedAdvances DEF Led
<1>2. Accounted(m, k, w) BY <1>1 DEF Accounted
<1>3. AtRest(m, w)
  <2> SUFFICES ASSUME "restarted" \in m.holds
               PROVE  /\ Left(m) \cap Reported(m.proposal, w) = {}
                      /\ Unended(m.tasks) \subseteq Left(m)
    BY DEF AtRest
  <2>1. "restarted" \in l.holds /\ reply.effect.do # "start" BY DEF Steers
  <2>2. m.state \in Flying /\ ~Flies(m.proposal) BY DEF Fine, Rests, Flying
  <2>3. m.proposal = f.proposal /\ m.tasks = f.tasks BY <2>1, <2>2 DEF Tidy
  <2> QED BY <2>1, <2>3 DEF Tied, AtRest, Left
<1>4. Live(m) /\ reply.effect.do # "start" => Live(f)
  BY DEF Advances, Onward, Begins, TakesOver, Orders
<1>5. /\ FreshOrder(u, f, w) /\ FreshOrder(a, f, w) /\ FreshRun(r, f, w) /\ InOrder(f, w)
      /\ AtRest(f, w) /\ Apart(u, a, NoOrder, r) /\ Quiet(f, u, a, NoOrder, r)
  BY DEF Tied
<1>6. CASE reply.effect.do # "start"
  <2>1. m.state \in Flying =>
          /\ f.state \in Flying /\ m.proposal = f.proposal
          /\ m.state = "uncertain" => f.state = "uncertain"
          /\ m.tasks = f.tasks
    BY <1>6 DEF Tidy
  <2>2. Live(m) => m.state \in Flying BY DEF Live, Flying
  <2> HIDE DEF m
  <2>3. InOrder(m, w) BY <1>5, <2>1 DEF InOrder
  <2>4. FreshOrder(u, m, w) /\ FreshOrder(a, m, w) /\ FreshRun(r, m, w)
    BY <1>4, <1>5, <1>6, <2>1, <2>2 DEF FreshOrder, FreshRun
  <2>5. Quiet(m, u, a, NoOrder, r) BY <1>5, <2>1 DEF Quiet, Flying
  <2>6. FreshOrder(NoOrder, m, w) BY DEF FreshOrder
  <2> QED BY <1>2, <1>3, <1>5, <1>6, <2>3, <2>4, <2>5, <2>6 DEF Tied, m
<1>7. CASE reply.effect.do = "start"
  <2>1. o.plan = m.proposal /\ m.state \in Begun /\ m.proposal \in AnyPlan /\ m.state # "uncertain"
    BY <1>7 DEF Advances, Begins, TakesOver, Orders, Begun, Fine, TypedLane, TypedRecord, Tidy
  <2>2. Apart(u, a, o, r)
    <3>1. CASE "restarted" \in l.holds BY <3>1 DEF Apart
    <3>2. CASE \A p : Used(p, l, n) => p # m.proposal
      <4>1. /\ u # NoOrder => Used(u.plan, l, n)
            /\ a # NoOrder => Used(a.plan, l, n)
            /\ r # NoRun => Used(r.plan, l, n)
        BY DEF Led, Given, RunLed
      <4> HIDE DEF m, o
      <4> QED BY <1>5, <2>1, <3>2, <4>1 DEF Apart
    <3> QED BY <1>1, <1>7, <3>1, <3>2
  <2>3. Quiet(m, u, a, o, r) BY <2>1 DEF Quiet
  <2>4. CASE /\ "restarted" \notin l.holds /\ m.tasks = NewRun(m.proposal)
             /\ o.todo = DOMAIN m.tasks
    <3>1. ~Flies(m.proposal) => Reported(m.proposal, w) = {}
      BY <1>1, <1>7, <2>1, <2>4, NothingReported
    <3>2. ActiveOf(m.tasks) = {} /\ Unsuccessful(m.tasks) = {} BY <2>4, NothingBegan
    <3> HIDE DEF m, o
    <3>3. InOrder(m, w) BY <3>1, <3>2 DEF InOrder
    <3>4. FreshOrder(u, m, w) /\ FreshOrder(a, m, w) /\ FreshRun(r, m, w) /\ FreshOrder(o, m, w)
      <4>1. FreshOrder(o, m, w) BY <2>1, <2>4, <3>1 DEF FreshOrder, Unended
      <4>2. FreshOrder(u, m, w) /\ FreshOrder(a, m, w) /\ FreshRun(r, m, w)
        <5>1. /\ u # NoOrder => Used(u.plan, l, n)
              /\ a # NoOrder => Used(a.plan, l, n)
              /\ r # NoRun => Used(r.plan, l, n)
          BY DEF Led, Given, RunLed
        <5>2. /\ u # NoOrder => u.plan # m.proposal
              /\ a # NoOrder => a.plan # m.proposal
              /\ r # NoRun => r.plan # m.proposal
          BY <1>1, <1>7, <2>4, <5>1
        <5> QED BY <1>5, <5>2 DEF FreshOrder, FreshRun
      <4> QED BY <4>1, <4>2
    <3> QED BY <1>2, <1>3, <1>7, <2>2, <2>3, <3>3, <3>4 DEF Tied, m, o
  <2>5. CASE /\ "restarted" \in l.holds /\ m.proposal = f.proposal
             /\ m.tasks = f.tasks /\ o.todo = Left(f)
    <3>1. f.state \in Flying /\ r = NoRun /\ u = NoOrder /\ a = NoOrder
      BY <2>5 DEF Fine, Rests, Flying
    <3>2. Left(f) \cap Reported(f.proposal, w) = {} /\ Unended(f.tasks) \subseteq Left(f)
      BY <1>5, <2>5 DEF AtRest
    <3> HIDE DEF m, o
    <3>3. InOrder(m, w) BY <1>5, <2>5, <3>1 DEF InOrder
    <3>4. FreshOrder(u, m, w) /\ FreshOrder(a, m, w) /\ FreshRun(r, m, w) /\ FreshOrder(o, m, w)
      BY <2>1, <2>5, <3>1, <3>2 DEF FreshOrder, FreshRun
    <3> QED BY <1>2, <1>3, <1>7, <2>2, <2>3, <3>3, <3>4 DEF Tied, m, o
  <2> QED BY <1>7, <2>4, <2>5 DEF Tidy
<1> QED BY <1>6, <1>7

-----------------------------------------------------------------------------
(* The journal, the host and its run.                                      *)

\* The record of the lane may take the place of the one before.
LEMMA RecordIsKept ==
    ASSUME NEW l, Fine(l), ApprovedLane(l), NEW n \in Nat,
           NEW u, NEW a, NEW s, NEW r, NEW j, Led(l, n, u, a, s, r, j),
           NEW w, Tied(l, n, u, a, s, r, w)
    PROVE  Kept(l, s, r, Record(l), w)
<1>1. Record(l) # NoRecord =>
         /\ Record(l).proposal = l.proposal /\ Record(l).tasks = l.tasks
         /\ Record(l).state = l.state
  BY DEF Record
<1>2. Record(l) # NoRecord => InOrder(Record(l), w) BY <1>1 DEF Tied, InOrder
<1>3. RunRecorded(r, Record(l))
  <2> SUFFICES ASSUME r # NoRun, ~Flies(r.plan), ~r.gone, Record(l) # NoRecord,
                      l.proposal = r.plan, l.state \in Flying
               PROVE  /\ EndedOf(l.tasks) \subseteq (Numbers(r.plan) \ r.todo) \cup r.finished
                      /\ 1 .. r.active - 1 \subseteq EndedOf(l.tasks)
    BY <1>1 DEF RunRecorded
  <2>1. Live(l) BY DEF Tied, Quiet, Flying, Live
  <2>2. /\ j # NoRecord /\ j.proposal = r.plan
        /\ EndedOf(l.tasks) \subseteq (Numbers(r.plan) \ r.todo) \cup r.finished
        /\ 1 .. r.active - 1 \subseteq EndedOf(j.tasks)
    BY <2>1 DEF Led, RunLed
  <2>3. EndedOf(j.tasks) \subseteq EndedOf(l.tasks) BY <2>2 DEF Led, JournalOk
  <2> QED BY <2>2, <2>3
<1> QED BY <1>2, <1>3 DEF Kept

\* So may that of the lane as it is next.
LEMMA RecordedIsKept ==
    ASSUME SteerInv', ApprovedInv', HostLed', journal' = Record(lane'),
           Tied(lane', plans', unrecorded', afterHandBack', starting', run', reports')
    PROVE  HostTied'
<1> DEFINE l == lane'
<1>1. Fine(l) /\ ApprovedLane(l) /\ plans' \in Nat BY DEF SteerInv, ApprovedInv
<1>2. Led(l, plans', unrecorded', afterHandBack', starting', run', journal') BY DEF HostLed
<1>3. Tied(l, plans', unrecorded', afterHandBack', starting', run', reports') OBVIOUS
<1> HIDE DEF l
<1>4. Kept(l, starting', run', Record(l), reports') BY <1>1, <1>2, <1>3, RecordIsKept
<1> QED BY <1>3, <1>4 DEF HostTied, l

\* The journal stays as it is, and nothing waits to start.
LEMMA KeptStays ==
    ASSUME NEW l, NEW s, NEW r, NEW j, NEW w, Kept(l, s, r, j, w), NEW m
    PROVE  Kept(m, NoOrder, r, j, w) /\ Kept(m, NoOrder, NoRun, j, w)
BY DEF Kept, RunRecorded

\* An order that is given waits, or its run begins.
LEMMA StartRunTies ==
    ASSUME starting = NoOrder, NEW l, Fine(l), ApprovedLane(l), lane' = l, plans' \in Nat,
           NEW order, order # NoOrder, NEW left, NEW waiting,
           Tied(l, plans', left, waiting, order, run, reports),
           Kept(lane, starting, run, journal, reports),
           StartRun(order, l, left, waiting), reports' = reports,
           SteerInv', ApprovedInv', HostLed'
    PROVE  HostTied'
<1>1. CASE /\ Write(l, FALSE) /\ unrecorded' = order /\ afterHandBack' = waiting
           /\ UNCHANGED <<run, controls, starting>>
  <2>1. Tied(l, plans', order, waiting, NoOrder, run, reports) BY TiedMoves
  <2>2. journal' = journal /\ run' = run /\ starting' = NoOrder BY <1>1 DEF Write
  <2>3. Kept(l, NoOrder, run, journal, reports) BY KeptStays
  <2> QED BY <1>1, <2>1, <2>2, <2>3 DEF HostTied
<1>2. CASE /\ Write(l, TRUE) /\ unrecorded' = left /\ afterHandBack' = order
           /\ UNCHANGED <<run, starting>>
  <2>1. Tied(l, plans', left, order, NoOrder, run, reports) BY TiedMoves
  <2>2. journal' = Record(lane') /\ run' = run /\ starting' = NoOrder BY <1>2 DEF Write
  <2> QED BY <1>2, <2>1, <2>2, RecordedIsKept
<1>3. CASE /\ Write(l, TRUE) /\ starting' = order /\ unrecorded' = left
           /\ afterHandBack' = waiting /\ UNCHANGED run
  <2>1. journal' = Record(lane') /\ run' = run BY <1>3 DEF Write
  <2> QED BY <1>3, <2>1, RecordedIsKept
<1>4. CASE /\ Write(l, TRUE) /\ Spawn(order, l) /\ unrecorded' = left
           /\ afterHandBack' = waiting /\ UNCHANGED starting
  <2>1. Tied(l, plans', left, waiting, NoOrder, NewRunOf(order), reports) BY SpawnIsTied
  <2>2. journal' = Record(lane') /\ run' = NewRunOf(order) /\ starting' = NoOrder
    BY <1>4 DEF Write, Spawn
  <2> QED BY <1>4, <2>1, <2>2, RecordedIsKept
<1> QED BY <1>1, <1>2, <1>3, <1>4 DEF StartRun

\* A call of the lane, and what it does to the host.  f is the lane with what
\* the run made of it folded in.
LEMMA PerformTies ==
    ASSUME ApprovedInv, SteerInv, HostLed, HostTied, starting = NoOrder,
           ApprovedInv', SteerInv', HostLed',
           NEW r, lane' = r.lane, plans <= plans', NEW done, NEW fresh,
           Advances(lane, r, done, fresh), Steered(lane, r),
           \A p \in fresh : p.digest > plans,
           NEW f, Fine(f), f.proposal = lane.proposal, f.holds = lane.holds,
           Live(f) <=> Live(lane), Tidy(f, r), reports' = reports,
           Tied(f, plans, unrecorded, afterHandBack, NoOrder, run, reports)
    PROVE  /\ r.effect.do # "start" =>
                 Tied(lane', plans', unrecorded, afterHandBack, NoOrder, run, reports)
           /\ r.effect.do = "start" =>
                 Tied(lane', plans', unrecorded, afterHandBack, r.effect.order, run, reports)
           /\ Perform(r.effect, r.lane) => HostTied'
<1>1. Fine(lane) /\ Fine(lane') /\ ApprovedLane(lane') /\ plans \in Nat /\ plans' \in Nat
  BY DEF SteerInv, ApprovedInv
<1>2. /\ Led(lane, plans, unrecorded, afterHandBack, NoOrder, run, journal)
      /\ Accounted(lane, plans, reports) /\ Kept(lane, starting, run, journal, reports)
  BY DEF HostLed, HostTied, Tied
<1>3. "restarted" \in lane.holds => run = NoRun /\ unrecorded = NoOrder /\ afterHandBack = NoOrder
  BY DEF SteerInv, Restful, NoOrders
<1> DEFINE m == r.lane
<1>4. /\ r.effect.do # "start" =>
            Tied(m, plans', unrecorded, afterHandBack, NoOrder, run, reports)
      /\ r.effect.do = "start" =>
            Tied(m, plans', unrecorded, afterHandBack, r.effect.order, run, reports)
  <2>1. Fine(m) /\ Steers(lane, r) BY DEF Steered
  <2> HIDE DEF m
  <2> QED BY <1>1, <1>2, <1>3, <2>1, AdvanceTies DEF m
<1>5. r.effect.do = "start" => r.effect.order # NoOrder BY OrderIsOne DEF Steered, Steers
<1>6. ASSUME Perform(r.effect, r.lane) PROVE HostTied'
  <2>1. CASE r.effect.do = "start"
    <3>1. StartRun(r.effect.order, r.lane, unrecorded, afterHandBack) BY <1>6, <2>1 DEF Perform
    <3> QED BY <1>1, <1>2, <1>4, <1>5, <2>1, <3>1, StartRunTies
  <2>2. CASE r.effect.do # "start"
    <3>1. /\ UNCHANGED <<run, starting, journal>>
          /\ \/ unrecorded' = unrecorded /\ afterHandBack' = afterHandBack
             \/ unrecorded' = NoOrder /\ afterHandBack' = NoOrder
      BY <1>6, <2>2 DEF Perform, orders, Steered, Steers, Effects
    <3>2. Tied(m, plans', unrecorded', afterHandBack', NoOrder, run, reports)
      BY <1>4, <2>2, <3>1, TiedMoves
    <3>3. Kept(m, NoOrder, run, journal, reports) BY <1>2, KeptStays
    <3> HIDE DEF m
    <3> QED BY <3>1, <3>2, <3>3 DEF HostTied, m
  <2> QED BY <2>1, <2>2
<1> QED BY <1>4, <1>5, <1>6

\* A new plan has no reports, and nothing goes on under it.
LEMMA ProposeTies ==
    ASSUME ApprovedInv, SteerInv, HostTied, starting = NoOrder, NEW kind,
           Plan(kind) \in AnyPlan, Take(Propose(lane, Plan(kind))), plans' = plans + 1
    PROVE  HostTied'
<1> DEFINE m == Propose(lane, Plan(kind)).lane
<1>1. /\ m.state = "proposed" /\ m.proposal.digest = plans + 1
      /\ m.successor = NoSuccessor /\ m.holds = {}
      /\ Propose(lane, Plan(kind)).effect.do = "none"
  BY LaneFields DEF SteerInv, Fine, TypedLane, Propose, Reply, Plan
<1>2. lane' = m /\ UNCHANGED <<run, orders, journal, reports>> BY <1>1 DEF Take, Perform
<1> HIDE DEF m
<1>3. plans \in Nat BY DEF ApprovedInv
<1>4. ASSUME NEW p, Used(p, lane, plans) PROVE Used(p, m, plans + 1)
  BY <1>1, <1>3, <1>4 DEF Used, AnyPlan
<1>5. Accounted(m, plans + 1, reports) BY <1>4 DEF HostTied, Tied, Accounted
<1>6. m.state \notin Flying /\ ~Live(m) BY <1>1 DEF Flying, Live
<1>7. InOrder(m, reports) /\ AtRest(m, reports) /\ Quiet(m, unrecorded, afterHandBack, starting, run)
  BY <1>1, <1>6 DEF InOrder, AtRest, Quiet
<1>8. /\ \A o : FreshOrder(o, lane, reports) => FreshOrder(o, m, reports)
      /\ FreshRun(run, lane, reports) => FreshRun(run, m, reports)
  BY <1>6 DEF FreshOrder, FreshRun
<1>9. Tied(m, plans + 1, unrecorded, afterHandBack, starting, run, reports)
  BY <1>5, <1>7, <1>8 DEF HostTied, Tied
<1>10. Kept(m, starting, run, journal, reports) BY KeptStays DEF HostTied
<1> QED BY <1>2, <1>9, <1>10 DEF HostTied, orders

\* Intents.
LEMMA IntentTies ==
    ASSUME ApprovedInv, SteerInv, LeadInv, ReplayInv, ApprovedInv', SteerInv', LeadInv', Intent
    PROVE  ReplayInv'
<1> Fine(lane) /\ ApprovedLane(lane) /\ Steady(lane) /\ plans \in Nat
  BY DEF SteerInv, ApprovedInv, LeadInv, HostLed, Led
<1>1. ASSUME NEW r, Take(r), HostTied' PROVE ReplayInv' BY <1>1 DEF Take, Closes, ReplayInv
<1>2. ASSUME NEW r, Take(r), Steered(lane, r), NEW fresh, Advances(lane, r, {}, fresh),
             \A p \in fresh : p.digest > plans, plans <= plans', TidyCall(lane, r)
      PROVE  ReplayInv'
  <2>1. starting = NoOrder /\ lane' = r.lane /\ Perform(r.effect, r.lane) /\ reports' = reports
    BY <1>2 DEF Take
  <2>2. Tied(lane, plans, unrecorded, afterHandBack, NoOrder, run, reports)
    BY <2>1 DEF ReplayInv, HostTied
  <2> DEFINE l == lane
  <2>3. Fine(l) /\ l.proposal = lane.proposal /\ l.holds = lane.holds /\ (Live(l) <=> Live(lane))
    OBVIOUS
  <2>4. Tidy(l, r) /\ Tied(l, plans, unrecorded, afterHandBack, NoOrder, run, reports)
    BY <1>2, <2>2 DEF TidyCall
  <2> HIDE DEF l
  <2>5. HostTied' BY <1>2, <2>1, <2>3, <2>4, PerformTies DEF LeadInv, ReplayInv
  <2> QED BY <1>1, <1>2, <2>5
<1>3. ASSUME NEW kind \in Kinds \cup {"survey"}
      PROVE  Plan(kind) \in AnyPlan /\ Plan(kind).digest = plans + 1
  BY LaneHostAssumption DEF Plan, AnyPlan
<1>4. ASSUME ProposeIntent PROVE ReplayInv'
  <2>1. PICK kind \in Kinds : Take(Propose(lane, Plan(kind))) /\ plans' = plans + 1
    BY <1>4 DEF ProposeIntent
  <2>2. starting = NoOrder BY <2>1 DEF Take
  <2>3. HostTied' BY <1>3, <2>1, <2>2, ProposeTies DEF ReplayInv
  <2> QED BY <1>1, <2>1, <2>3
<1>5. ASSUME ApproveIntent PROVE ReplayInv'
  <2>1. PICK p \in Approvable(lane) : \E approval \in Approvals(p) :
                 Take(Approve(lane, approval)) /\ UNCHANGED plans
    BY <1>5 DEF ApproveIntent
  <2>2. PICK approval \in Approvals(p) : Take(Approve(lane, approval)) /\ UNCHANGED plans
    BY <2>1
  <2>3. approval.digest = p.digest BY DEF Approvals
  <2>4. /\ TidyCall(lane, Approve(lane, approval))
        /\ Steered(lane, Approve(lane, approval)) /\ Advances(lane, Approve(lane, approval), {}, {})
    BY <2>3, ApproveIsTidy, ApproveSteers, ApproveAdvances
  <2> QED BY <1>2, <2>2, <2>4
<1>6. ASSUME StartIntent PROVE ReplayInv'
  BY <1>2, <1>6, StartSteers, StartAdvances, StartIsTidy DEF StartIntent, CanStart
<1>7. ASSUME HoldIntent PROVE ReplayInv'
  BY <1>2, <1>7, HoldSteers, HoldAdvances, HoldIsTidy DEF HoldIntent
<1>8. ASSUME ResumeIntent PROVE ReplayInv'
  BY <1>2, <1>8, ResumeSteers, ResumeAdvances, ResumeIsTidy DEF ResumeIntent
<1>9. ASSUME AbortIntent PROVE ReplayInv'
  BY <1>2, <1>9, AbortSteers, AbortAdvances, AbortIsTidy DEF AbortIntent
<1>10. ASSUME ReviseIntent PROVE ReplayInv'
  <2> DEFINE plan == Plan("survey")
  <2>1. PICK within \in BOOLEAN :
          CanRevise(lane) /\ Take(Revise(lane, plan, within, now)) /\ plans' = plans + 1
    BY <1>10 DEF ReviseIntent
  <2>2. plan \in AnyPlan /\ plan.digest = plans + 1 BY <1>3
  <2> HIDE DEF plan
  <2>3. /\ Steered(lane, Revise(lane, plan, within, now))
        /\ Advances(lane, Revise(lane, plan, within, now), {}, {plan})
        /\ TidyCall(lane, Revise(lane, plan, within, now))
    BY <2>1, <2>2, ReviseSteers, ReviseAdvances, ReviseIsTidy
  <2> QED BY <1>2, <2>1, <2>2, <2>3
<1>11. ASSUME AnswerIntent PROVE ReplayInv'
  BY <1>2, <1>11, AnswerSteers, AnswerAdvances, AnswerIsTidy DEF AnswerIntent
<1> QED BY <1>4, <1>5, <1>6, <1>7, <1>8, <1>9, <1>10, <1>11 DEF Intent

\* The clock.
LEMMA ClockTies ==
    ASSUME ApprovedInv, SteerInv, LeadInv, ReplayInv, ApprovedInv', SteerInv', LeadInv', Clock
    PROVE  ReplayInv'
<1> DEFINE home == Plan("home")
           r == OnClock(lane, home, now)
           l == lane
<1>1. Fine(lane) /\ Steady(lane) /\ plans \in Nat
  BY DEF SteerInv, ApprovedInv, LeadInv, HostLed, Led
<1>2. home \in AnyPlan /\ home.digest = plans + 1 BY <1>1 DEF Plan, AnyPlan
<1>3. /\ starting = NoOrder /\ lane' = r.lane /\ Perform(r.effect, r.lane)
      /\ plans' = Compiled(r.lane) /\ turn' = "status" /\ ExpiredNow(lane, now)
      /\ reports' = reports
  BY DEF Clock
<1> HIDE DEF home
<1>4. Steered(lane, r) /\ Advances(lane, r, {}, {home}) /\ TidyCall(lane, r)
  BY <1>1, <1>2, <1>3, OnClockSteers, OnClockAdvances, OnClockIsTidy
<1> HIDE DEF r
<1>5. plans <= plans' BY <1>1, <1>3 DEF Compiled
<1>6. /\ Fine(l) /\ l.proposal = lane.proposal /\ l.holds = lane.holds /\ (Live(l) <=> Live(lane))
      /\ Tidy(l, r) /\ Tied(l, plans, unrecorded, afterHandBack, NoOrder, run, reports)
  BY <1>1, <1>3, <1>4 DEF TidyCall, ReplayInv, HostTied
<1> HIDE DEF l
<1>7. HostTied' BY <1>1, <1>2, <1>3, <1>4, <1>5, <1>6, PerformTies DEF LeadInv, ReplayInv
<1> QED BY <1>3, <1>7 DEF ReplayInv

\* A lane that differs in nothing that matters here.
LEMMA TiedAlike ==
    ASSUME NEW l, NEW n, NEW u, NEW a, NEW s, NEW r, NEW w, Tied(l, n, u, a, s, r, w),
           NEW f, f.proposal = l.proposal, f.successor = l.successor, f.holds = l.holds,
           f.state = l.state \/ (l.state = "holdRequested" /\ f.state = "held"),
           "restarted" \notin l.holds, l.state \in Flying => f.tasks = l.tasks
    PROVE  Tied(f, n, u, a, s, r, w)
<1>1. /\ f.state \in Flying <=> l.state \in Flying
      /\ Live(f) <=> Live(l)
      /\ Live(l) => l.state \in Flying
      /\ f.state = "uncertain" => l.state = "uncertain"
  BY DEF Flying, Live
<1>2. \A p : Used(p, l, n) => Used(p, f, n) BY DEF Used
<1>3. InOrder(f, w) /\ AtRest(f, w) /\ Accounted(f, n, w) /\ Quiet(f, u, a, s, r)
  BY <1>1, <1>2 DEF Tied, InOrder, AtRest, Accounted, Quiet
<1>4. \A o : FreshOrder(o, l, w) => FreshOrder(o, f, w) BY <1>1 DEF FreshOrder
<1>5. FreshRun(r, f, w) BY <1>1 DEF Tied, FreshRun
<1> QED BY <1>3, <1>4, <1>5 DEF Tied

\* A run that differs in nothing that matters here.
LEMMA RunAlike ==
    ASSUME NEW r, NEW q, r # NoRun, q.plan = r.plan, q.todo = r.todo, q.finished = r.finished,
           q.active = r.active, q.gone = r.gone, q.complete = r.complete,
           q.cancelled = r.cancelled, q.failed = r.failed
    PROVE  /\ \A l, n, u, a, s, w : Tied(l, n, u, a, s, r, w) => Tied(l, n, u, a, s, q, w)
           /\ \A l, s, j, w : Kept(l, s, r, j, w) => Kept(l, s, q, j, w)
<1>1. ASSUME NEW l, NEW n, NEW u, NEW a, NEW s, NEW w, Tied(l, n, u, a, s, r, w)
      PROVE  Tied(l, n, u, a, s, q, w)
  <2>1. FreshRun(q, l, w) BY <1>1 DEF Tied, FreshRun
  <2>2. Apart(u, a, s, q) /\ Quiet(l, u, a, s, q) BY <1>1 DEF Tied, Apart, Quiet
  <2> QED BY <1>1, <2>1, <2>2 DEF Tied
<1>2. \A l, s, j, w : Kept(l, s, r, j, w) => Kept(l, s, q, j, w) BY DEF Kept, RunRecorded
<1> QED BY <1>1, <1>2

\* The run that lost control is over.
LEMMA ReplacedRunEndedTies ==
    ASSUME ApprovedInv, SteerInv, LeadInv, HostTied, ApprovedInv', SteerInv', HostLed',
           run # NoRun, afterHandBack # NoOrder, starting = NoOrder, ReplacedRunEnded,
           reports' = reports
    PROVE  HostTied'
<1>1. /\ Fine(lane) /\ ApprovedLane(lane) /\ plans \in Nat
      /\ Tied(lane, plans, unrecorded, afterHandBack, NoOrder, run, reports)
      /\ Kept(lane, starting, run, journal, reports) /\ Steady(lane)
  BY DEF SteerInv, ApprovedInv, HostTied, LeadInv, HostLed, Led
<1>2. afterHandBack' = NoOrder /\ plans' = plans BY DEF ReplacedRunEnded
<1>3. CASE afterHandBack.recovery
  <2>1. /\ lane' = lane /\ starting' = NoOrder
        /\ \/ Write(lane, TRUE) /\ Spawn(afterHandBack, lane) /\ UNCHANGED unrecorded
           \/ /\ Write(lane, FALSE) /\ run' = NoRun /\ controls' = <<>>
              /\ unrecorded' = afterHandBack
    BY <1>3 DEF ReplacedRunEnded
  <2>2. CASE Write(lane, TRUE) /\ Spawn(afterHandBack, lane) /\ UNCHANGED unrecorded
    <3>1. journal' = Record(lane') /\ run' = NewRunOf(afterHandBack) /\ unrecorded' = unrecorded
      BY <2>1, <2>2 DEF Write, Spawn
    <3>2. Tied(lane, plans, unrecorded, NoOrder, afterHandBack, run, reports)
      BY <1>1, TiedMoves
    <3>3. Tied(lane, plans, unrecorded, NoOrder, NoOrder, NewRunOf(afterHandBack), reports)
      BY <3>2, SpawnIsTied
    <3> QED BY <1>2, <2>1, <3>1, <3>3, RecordedIsKept
  <2>3. CASE /\ Write(lane, FALSE) /\ run' = NoRun /\ controls' = <<>>
             /\ unrecorded' = afterHandBack
    <3>1. journal' = journal BY <2>3 DEF Write
    <3>2. Tied(lane, plans, afterHandBack, NoOrder, NoOrder, NoRun, reports) BY <1>1, TiedMoves
    <3>3. Kept(lane, NoOrder, NoRun, journal, reports) BY <1>1, KeptStays
    <3> QED BY <1>2, <2>1, <2>3, <3>1, <3>2, <3>3 DEF HostTied
  <2> QED BY <2>1, <2>2, <2>3
<1>4. CASE ~afterHandBack.recovery
  <2> DEFINE progress == [Progress(seen, TRUE, FALSE) EXCEPT
                            !.plan = NoPlan, !.complete = FALSE, !.execution = "other"]
             r == OnProgress(lane, progress, NoPlan, now)
             f == Fold(lane, progress)
  <2>1. /\ lane' = r.lane /\ run' = NoRun
        /\ UNCHANGED <<unrecorded, starting, journal>>
    BY <1>4 DEF ReplacedRunEnded
  <2>2. progress.execution = "other" /\ progress.plan = NoPlan BY DEF Progress
  <2> HIDE DEF progress
  <2>3. "restarted" \notin lane.holds /\ lane.state # "uncertain"
    BY <1>1 DEF SteerInv, Restful, Tied, Quiet
  <2>4. Steered(lane, r) /\ Advances(lane, r, DoneBy(lane, progress), {})
    BY <1>1, <2>2, <2>3, OnProgressSteers, OnProgressAdvances
  <2>5. Tidy(f, r) BY <1>1, <2>2, <2>3, OnProgressIsTidy
  <2>6. /\ Fine(f) /\ f.proposal = lane.proposal /\ f.holds = lane.holds
        /\ f.successor = lane.successor
        /\ f.state = lane.state \/ (lane.state = "holdRequested" /\ f.state = "held")
    BY <1>1, FoldIsFine
  <2>7. lane.state \in Flying => f.tasks = lane.tasks
    <3>1. lane.state \in Flying => lane.proposal # NoPlan
      BY <1>1, RecordAssumption DEF Fine, TypedLane, TypedRecord, Flying
    <3>2. f.tasks = IF progress.plan = lane.proposal THEN f.tasks ELSE lane.tasks
      BY <1>1, LaneFields DEF Fold, Fine, TypedLane
    <3> QED BY <2>2, <3>1, <3>2
  <2>8. Live(f) <=> Live(lane) BY <2>6 DEF Live
  <2> HIDE DEF f, r
  <2>9. Tied(f, plans, unrecorded, afterHandBack, NoOrder, run, reports)
    BY <1>1, <2>3, <2>6, <2>7, TiedAlike
  <2>10. /\ r.effect.do # "start" =>
              Tied(lane', plans', unrecorded, afterHandBack, NoOrder, run, reports)
         /\ r.effect.do = "start" =>
              Tied(lane', plans', unrecorded, afterHandBack, r.effect.order, run, reports)
    BY <1>1, <1>2, <2>1, <2>4, <2>5, <2>6, <2>8, <2>9, PerformTies DEF LeadInv
  <2>11. Tied(lane', plans', unrecorded, NoOrder, NoOrder, NoRun, reports) BY <2>10, TiedMoves
  <2>12. Kept(lane', NoOrder, NoRun, journal, reports) BY <1>1, KeptStays
  <2> QED BY <1>2, <2>1, <2>11, <2>12 DEF HostTied
<1> QED BY <1>3, <1>4

\* The run that lost control is there yet.
LEMMA ReplacedRunWaitsTies ==
    ASSUME ApprovedInv, SteerInv, LeadInv, HostTied, ApprovedInv', SteerInv', HostLed',
           run # NoRun, afterHandBack # NoOrder, starting = NoOrder, ReplacedRunWaits,
           reports' = reports
    PROVE  HostTied'
<1> DEFINE home == Plan("home")
           r == OnExecution(lane, seen.execution, home, now)
           fresh == IF r.effect.do = "start" THEN {home} ELSE {}
           order == IF r.effect.do = "start" THEN r.effect.order ELSE afterHandBack
           l == lane
<1>1. /\ Fine(lane) /\ Steady(lane) /\ plans \in Nat
      /\ Tied(lane, plans, unrecorded, afterHandBack, NoOrder, run, reports)
      /\ Kept(lane, starting, run, journal, reports)
  BY DEF SteerInv, ApprovedInv, LeadInv, HostLed, Led, HostTied
<1>2. home \in AnyPlan /\ home.digest = plans + 1 BY <1>1 DEF Plan, AnyPlan
<1>3. /\ lane' = r.lane /\ plans' = IF r.effect.do = "start" THEN plans + 1 ELSE plans
      /\ \/ StartRun(order, r.lane, unrecorded, NoOrder)
         \/ r.effect.do # "start" /\ UNCHANGED <<run, controls, orders, journal, troubles>>
  BY DEF ReplacedRunWaits
<1>4. Fine(lane') /\ ApprovedLane(lane') /\ plans' \in Nat BY DEF SteerInv, ApprovedInv
<1> HIDE DEF home
<1>5. Steered(lane, r) /\ Advances(lane, r, {}, fresh) /\ TidyCall(lane, r)
  BY <1>1, <1>2, OnExecutionSteers, OnExecutionAdvances, OnExecutionIsTidy
<1> HIDE DEF r
<1>6. plans <= plans' /\ \A p \in fresh : p.digest > plans BY <1>1, <1>2, <1>3
<1> HIDE DEF fresh
<1>7. /\ Fine(l) /\ l.proposal = lane.proposal /\ l.holds = lane.holds /\ (Live(l) <=> Live(lane))
      /\ Tidy(l, r) /\ Tied(l, plans, unrecorded, afterHandBack, NoOrder, run, reports)
  BY <1>1, <1>5 DEF TidyCall
<1> HIDE DEF l
<1>8. /\ r.effect.do # "start" =>
            Tied(lane', plans', unrecorded, afterHandBack, NoOrder, run, reports)
      /\ r.effect.do = "start" =>
            Tied(lane', plans', unrecorded, afterHandBack, r.effect.order, run, reports)
  BY <1>3, <1>5, <1>6, <1>7, PerformTies DEF LeadInv
<1>9. Tied(lane', plans', unrecorded, NoOrder, order, run, reports)
  <2>1. CASE r.effect.do = "start"
    <3>1. Tied(lane', plans', unrecorded, r.effect.order, NoOrder, run, reports)
      BY <1>8, <2>1, TiedMoves
    <3>2. Tied(lane', plans', unrecorded, NoOrder, r.effect.order, run, reports)
      BY <3>1, TiedMoves
    <3> QED BY <2>1, <3>2
  <2>2. CASE r.effect.do # "start"
    <3>1. Tied(lane', plans', unrecorded, NoOrder, afterHandBack, run, reports)
      BY <1>8, <2>2, TiedMoves
    <3> QED BY <2>2, <3>1
  <2> QED BY <2>1, <2>2
<1>10. order # NoOrder BY <1>5, OrderIsOne DEF Steered, Steers
<1> HIDE DEF order
<1>11. CASE StartRun(order, r.lane, unrecorded, NoOrder)
  <2> DEFINE m == r.lane
  <2>1. /\ Fine(m) /\ ApprovedLane(m) /\ lane' = m
        /\ Tied(m, plans', unrecorded, NoOrder, order, run, reports)
    BY <1>3, <1>4, <1>9
  <2>2. StartRun(order, m, unrecorded, NoOrder) BY <1>11
  <2> HIDE DEF m
  <2> QED BY <1>1, <1>4, <1>10, <2>1, <2>2, StartRunTies
<1>12. CASE r.effect.do # "start" /\ UNCHANGED <<run, controls, orders, journal, troubles>>
  <2>1. Tied(lane', plans', unrecorded, afterHandBack, NoOrder, run, reports) BY <1>8, <1>12
  <2>2. Kept(lane', NoOrder, run, journal, reports) BY <1>1, KeptStays
  <2> QED BY <1>12, <2>1, <2>2 DEF HostTied, orders
<1> QED BY <1>3, <1>11, <1>12

\* What the run of the lane finished, while it goes on, is in order.
LEMMA FoldTies ==
    ASSUME NEW l, Fine(l), ApprovedLane(l), NEW n \in Nat, NEW u, NEW a, NEW s, NEW r, NEW j,
           Led(l, n, u, a, s, r, j), NEW w, Tied(l, n, u, a, s, r, w),
           r # NoRun, ~r.gone, "restarted" \notin l.holds,
           NEW progress, SeenOk(progress, r), SeenTrue(progress, r, l, j)
    PROVE  Tied(Fold(l, progress), n, u, a, s, r, w)
<1> DEFINE f == Fold(l, progress)
           Of(i) == TaskOf(l, progress, i)
<1> USE DEF TaskOf
<1>1. /\ f.proposal = l.proposal /\ f.holds = l.holds /\ f.successor = l.successor
      /\ f.state = l.state \/ (l.state = "holdRequested" /\ f.state = "held")
  BY FoldIsFine
<1>2. f.tasks = IF progress.plan = l.proposal THEN [i \in DOMAIN l.tasks |-> Of(i)] ELSE l.tasks
  BY LaneFields DEF Fold, Fine, TypedLane
<1>3. l.state \in Flying => Live(l) BY DEF Tied, Quiet, Flying, Live
<1> HIDE DEF f
<1>4. CASE ~(Live(l) /\ progress.plan = l.proposal) BY <1>1, <1>2, <1>3, <1>4, TiedAlike DEF f
<1>5. CASE Live(l) /\ progress.plan = l.proposal
  <2>1. r.plan = l.proposal /\ progress.cancelled = {} /\ progress.failed = {}
    BY <1>5 DEF SeenOk, SeenTrue
  <2>2. ~Flies(l.proposal) =>
          1 .. progress.active - 1 \subseteq EndedOf(l.tasks) /\ progress.active \in {0} \cup r.todo
    <3> SUFFICES ASSUME ~Flies(l.proposal)
                 PROVE  /\ 1 .. progress.active - 1 \subseteq EndedOf(l.tasks)
                        /\ progress.active \in {0} \cup r.todo
      OBVIOUS
    <3>1. 1 .. progress.active - 1 \subseteq EndedOf(j.tasks) /\ progress.active \in {0} \cup r.todo
      BY <1>5, <2>1 DEF SeenTrue
    <3>2. j # NoRecord /\ j.proposal = l.proposal BY <1>5, <2>1 DEF Led, RunLed
    <3>3. EndedOf(j.tasks) \subseteq EndedOf(l.tasks) BY <3>2 DEF Led, JournalOk
    <3> QED BY <3>1, <3>3
  <2>3. l.state \in Flying /\ 0 \notin DOMAIN l.tasks
    <3>1. l.state \in Flying BY <1>5 DEF Live, Flying
    <3>2. DOMAIN l.tasks = Numbers(l.proposal) /\ l.proposal \in AnyPlan
      BY <3>1 DEF Fine, TypedLane, TypedRecord
    <3> QED BY <3>1, <3>2, NumbersAreNaturals
  <2>4. DOMAIN f.tasks = DOMAIN l.tasks /\ \A i \in DOMAIN l.tasks : f.tasks[i] = Of(i)
    BY <1>2, <1>5
  <2>5. InOrder(l, w) /\ Unsuccessful(l.tasks) = {} BY <1>5, <2>3 DEF Tied, InOrder
  <2>6. \A i \in DOMAIN l.tasks :
           /\ l.tasks[i] \notin Open => Of(i) = l.tasks[i]
           /\ Of(i) \in {"completed", "active"} \/ Of(i) = l.tasks[i]
           /\ Of(i) = "active" => l.tasks[i] = "active" \/ i = progress.active
    BY <2>1
  <2> HIDE DEF Of, TaskOf
  <2>7. EndedOf(l.tasks) \subseteq EndedOf(f.tasks) BY <2>4, <2>6 DEF EndedOf, Open, Ended
  <2>8. Unsuccessful(f.tasks) = {} BY <2>4, <2>5, <2>6 DEF Unsuccessful
  <2>9. ActiveOf(f.tasks) \subseteq ActiveOf(l.tasks) \cup ({progress.active} \ {0})
    BY <2>3, <2>4, <2>6 DEF ActiveOf
  <2>10. InOrder(f, w)
    <3> SUFFICES ASSUME ~Flies(l.proposal), NEW i \in Reported(l.proposal, w) \cup ActiveOf(f.tasks)
                 PROVE  1 .. i - 1 \subseteq EndedOf(f.tasks)
      BY <1>1, <2>8 DEF InOrder
    <3>1. 1 .. i - 1 \subseteq EndedOf(l.tasks) BY <2>2, <2>3, <2>5, <2>9 DEF InOrder
    <3> QED BY <2>7, <3>1
  <2>11. Live(f) <=> Live(l) BY <1>1 DEF Live
  <2>12. /\ u # NoOrder => u.plan # l.proposal
         /\ a # NoOrder => a.plan # l.proposal
         /\ s # NoOrder => s.plan # l.proposal
    BY <2>1 DEF Tied, Apart
  <2>13. FreshOrder(u, f, w) /\ FreshOrder(a, f, w) /\ FreshOrder(s, f, w)
    BY <1>1, <2>12 DEF Tied, FreshOrder
  <2>14. FreshRun(r, f, w)
    <3>1. FreshRun(r, l, w) BY DEF Tied
    <3>2. Unended(f.tasks) \subseteq Unended(l.tasks) BY <2>4, <2>7 DEF Unended
    <3> QED BY <1>1, <2>11, <3>1, <3>2 DEF FreshRun
  <2>15. \A p : Used(p, l, n) => Used(p, f, n) BY <1>1 DEF Used
  <2>16. AtRest(f, w) /\ Accounted(f, n, w) /\ Quiet(f, u, a, s, r)
    BY <1>1, <2>15 DEF Tied, AtRest, Accounted, Quiet
  <2> QED BY <2>10, <2>13, <2>14, <2>16 DEF Tied, f
<1> QED BY <1>4, <1>5

\* The run of the lane.
LEMMA OwnRunProgressTies ==
    ASSUME ApprovedInv, SteerInv, LeadInv, ReplayInv, ApprovedInv', SteerInv', HostLed',
           run # NoRun, turn = "progress", OwnRunProgress, reports' = reports
    PROVE  HostTied'
<1>1. PICK still \in {FALSE} \cup (IF lane.state = "holdRequested" THEN {seen.hold} ELSE {}) :
        LET reply == OnProgress(lane, Progress(seen, run.gone, still), Plan("home"), now)
        IN  /\ lane' = reply.lane
            /\ plans' = IF lane.tasks = <<>> THEN plans ELSE Compiled(reply.lane)
            /\ IF reply.effect.do # "none" THEN Perform(reply.effect, reply.lane)
                                           ELSE Watched(reply.lane)
  BY DEF OwnRunProgress
<1> DEFINE home == Plan("home")
           progress == Progress(seen, run.gone, still)
           r == OnProgress(lane, progress, home, now)
           fresh == IF lane.tasks = <<>> THEN {} ELSE {home}
           done == DoneBy(lane, progress)
           folded == Fold(lane, progress)
           l == lane
<1>2. /\ lane' = r.lane
      /\ plans' = IF lane.tasks = <<>> THEN plans ELSE Compiled(r.lane)
      /\ Perform(r.effect, r.lane) \/ (r.effect.do = "none" /\ Watched(r.lane))
  BY <1>1
<1>3. /\ Fine(lane) /\ ApprovedLane(lane) /\ Steady(lane) /\ plans \in Nat
      /\ starting = NoOrder /\ SeenOk(seen, run) /\ SeenTrue(seen, run, lane, journal)
      /\ "restarted" \notin lane.holds /\ lane.state # "uncertain"
      /\ Led(lane, plans, unrecorded, afterHandBack, NoOrder, run, journal)
      /\ Tied(lane, plans, unrecorded, afterHandBack, NoOrder, run, reports)
      /\ Kept(lane, starting, run, journal, reports)
  BY DEF SteerInv, Restful, ApprovedInv, LeadInv, HostLed, Led, ReplayInv, HostTied, Tied, Quiet
<1>4. home \in AnyPlan /\ home.digest = plans + 1 BY <1>3 DEF Plan, AnyPlan
<1>5. /\ progress.plan = seen.plan /\ progress.finished = seen.finished
      /\ progress.cancelled = seen.cancelled /\ progress.failed = seen.failed
      /\ progress.active = seen.active /\ progress.complete = seen.complete
      /\ progress.ended = (seen.ended \/ run.gone)
  BY DEF Progress
<1> HIDE DEF home, progress
<1>6. Steered(lane, r) /\ Advances(lane, r, done, fresh)
  BY <1>3, <1>4, OnProgressSteers, OnProgressAdvances
<1>7. /\ Tidy(folded, r)
      /\ r.effect.do # "start" /\ r.lane.state \in Flying => ~progress.ended
  BY <1>3, <1>4, OnProgressIsTidy
<1>8. /\ Fine(folded) /\ folded.proposal = lane.proposal /\ folded.holds = lane.holds
      /\ folded.state = lane.state \/ (lane.state = "holdRequested" /\ folded.state = "held")
  BY <1>3, FoldIsFine
<1>9. Live(folded) <=> Live(lane) BY <1>8 DEF Live
<1>10. plans <= plans' /\ \A p \in fresh : p.digest > plans BY <1>2, <1>3, <1>4 DEF Compiled
<1>11. ~run.gone => Tied(folded, plans, unrecorded, afterHandBack, NoOrder, run, reports)
  <2>1. SeenOk(progress, run) /\ SeenTrue(progress, run, lane, journal)
    BY <1>3, <1>5 DEF SeenOk, SeenTrue
  <2> QED BY <1>3, <2>1, FoldTies
<1> HIDE DEF r, done, fresh, folded
<1>12. /\ r.effect.do # "start" =>
            Tied(lane', plans', unrecorded, afterHandBack, NoOrder, run, reports)
       /\ Perform(r.effect, r.lane) => HostTied'
  <2>1. CASE r.effect.do # "start" /\ r.lane.state \in Flying
    <3>1. Tied(folded, plans, unrecorded, afterHandBack, NoOrder, run, reports)
      BY <1>5, <1>7, <1>11, <2>1
    <3> QED BY <1>2, <1>3, <1>6, <1>7, <1>8, <1>9, <1>10, <3>1, PerformTies DEF LeadInv, ReplayInv
  <2>2. CASE r.effect.do = "start" \/ r.lane.state \notin Flying
    <3>1. /\ Fine(l) /\ l.proposal = lane.proposal /\ l.holds = lane.holds
          /\ (Live(l) <=> Live(lane))
          /\ Tied(l, plans, unrecorded, afterHandBack, NoOrder, run, reports)
      BY <1>3
    <3>2. Tidy(l, r) BY <1>3, <1>7, <1>8, <2>2 DEF Tidy
    <3> HIDE DEF l
    <3> QED BY <1>2, <1>3, <1>6, <1>10, <3>1, <3>2, PerformTies DEF LeadInv, ReplayInv
  <2> QED BY <2>1, <2>2
<1>13. CASE r.effect.do = "none" /\ Watched(r.lane)
  <2>1. /\ Tied(lane', plans', unrecorded, afterHandBack, NoOrder, run, reports)
        /\ Kept(lane', NoOrder, run, journal, reports)
        /\ Kept(lane', NoOrder, NoRun, journal, reports)
    BY <1>3, <1>12, <1>13, KeptStays
  <2>2. /\ UNCHANGED <<orders, journal>>
        /\ \/ UNCHANGED run
           \/ run' = NoRun
           \/ run' = [run EXCEPT !.told = TRUE]
    BY <1>13 DEF Watched
  <2>3. /\ Tied(lane', plans', unrecorded, afterHandBack, NoOrder, run', reports)
        /\ Kept(lane', NoOrder, run', journal, reports)
    <3>1. CASE run' = NoRun BY <2>1, <3>1, TiedMoves
    <3>2. CASE run' = [run EXCEPT !.told = TRUE]
      <4> DEFINE q == [run EXCEPT !.told = TRUE]
      <4>1. RunFields \subseteq DOMAIN run BY DEF SteerInv, TypedHost
      <4>2. /\ q.plan = run.plan /\ q.todo = run.todo /\ q.finished = run.finished
            /\ q.active = run.active /\ q.gone = run.gone /\ q.complete = run.complete
            /\ q.cancelled = run.cancelled /\ q.failed = run.failed
        BY <4>1 DEF RunFields
      <4> HIDE DEF q
      <4>3. /\ Tied(lane', plans', unrecorded, afterHandBack, NoOrder, q, reports)
            /\ Kept(lane', NoOrder, q, journal, reports)
        BY <2>1, <4>2, RunAlike
      <4> QED BY <3>2, <4>3 DEF q
    <3>3. CASE UNCHANGED run BY <2>1, <3>3
    <3> QED BY <2>2, <3>1, <3>2, <3>3
  <2> QED BY <1>3, <2>2, <2>3 DEF HostTied, orders
<1> QED BY <1>2, <1>12, <1>13

\* The lane's own task.
LEMMA HostTies ==
    ASSUME ApprovedInv, SteerInv, LeadInv, ReplayInv, ApprovedInv', SteerInv', LeadInv', HostStep
    PROVE  ReplayInv'
<1>0. HostTied /\ HostLed' BY DEF ReplayInv, LeadInv
<1>1. CASE Clock BY <1>1, ClockTies
<1>2. CASE ReadStatus
  <2>1. /\ UNCHANGED <<lane, run, orders, journal, plans, reports>>
        /\ seen' = IF run = NoRun THEN NoRun ELSE Status(run)
    BY <1>2 DEF ReadStatus
  <2>2. SeenTrue(seen', run, lane, journal)
    <3> SUFFICES ASSUME run # NoRun PROVE SeenTrue(seen', run, lane, journal) BY DEF SeenTrue
    <3>1. /\ seen'.cancelled = run.cancelled /\ seen'.failed = run.failed
          /\ seen'.plan = run.plan /\ seen'.finished = run.finished
          /\ seen'.active = run.active /\ seen'.complete = run.complete
      BY <2>1 DEF Status
    <3>2. FreshRun(run, lane, reports) /\ RunOk(run) /\ RunLed(run, lane, journal, plans)
      BY DEF ReplayInv, HostTied, Tied, LeadInv, HostLed, Led
    <3>3. /\ run.complete => /\ run.active = 0 /\ run.todo \subseteq run.finished
                              /\ run.cancelled = {} /\ run.failed = {}
          /\ Flies(run.plan) => run.cancelled = {} /\ run.failed = {}
      BY <3>2 DEF FreshRun
    <3>4. ~run.gone /\ ~Flies(run.plan) =>
             /\ run.active \in {0} \cup run.todo
             /\ run.plan = lane.proposal /\ Live(lane) =>
                   1 .. run.active - 1 \subseteq EndedOf(journal.tasks)
      BY <3>2 DEF RunOk, RunLed
    <3> QED BY <3>1, <3>3, <3>4 DEF SeenTrue
  <2> QED BY <1>0, <2>1, <2>2 DEF ReplayInv, HostTied, orders
<1>3. CASE ProgressTick
  <2>1. starting = NoOrder /\ turn = "progress" /\ turn' # "progress" /\ reports' = reports
    BY <1>3 DEF ProgressTick, Closes
  <2>2. CASE run = NoRun
    <3>1. UNCHANGED <<lane, plans, run, orders, journal>> BY <1>3, <2>2 DEF ProgressTick
    <3> QED BY <2>1, <3>1 DEF ReplayInv, HostTied, orders
  <2>3. CASE run # NoRun /\ afterHandBack # NoOrder
    <3>1. ReplacedRunEnded \/ ReplacedRunWaits BY <1>3, <2>3 DEF ProgressTick
    <3>2. HostTied' BY <1>0, <2>1, <2>3, <3>1, ReplacedRunEndedTies, ReplacedRunWaitsTies
    <3> QED BY <2>1, <3>2 DEF ReplayInv
  <2>4. CASE run # NoRun /\ afterHandBack = NoOrder
    <3>1. OwnRunProgress BY <1>3, <2>4 DEF ProgressTick
    <3>2. HostTied' BY <1>0, <2>1, <2>4, <3>1, OwnRunProgressTies
    <3> QED BY <2>1, <3>2 DEF ReplayInv
  <2> QED BY <2>2, <2>3, <2>4
<1>4. CASE RecordTurn
  <2>1. /\ starting = NoOrder /\ lane' = lane /\ plans' = plans /\ turn' # "progress"
        /\ reports' = reports
    BY <1>4 DEF RecordTurn
  <2>2. /\ Fine(lane) /\ ApprovedLane(lane) /\ plans \in Nat
        /\ Led(lane, plans, unrecorded, afterHandBack, NoOrder, run, journal)
        /\ Tied(lane, plans, unrecorded, afterHandBack, NoOrder, run, reports)
        /\ Kept(lane, starting, run, journal, reports)
    BY <2>1 DEF SteerInv, ApprovedInv, LeadInv, HostLed, ReplayInv, HostTied
  <2>3. CASE unrecorded # NoOrder /\ StartRun(unrecorded, lane, NoOrder, afterHandBack)
    <3>1. Tied(lane, plans', NoOrder, afterHandBack, unrecorded, run, reports)
      BY <2>1, <2>2, TiedMoves
    <3>2. HostTied' BY <1>0, <2>1, <2>2, <2>3, <3>1, StartRunTies
    <3> QED BY <2>1, <3>2 DEF ReplayInv
  <2>4. CASE (\E kept \in BOOLEAN : Write(lane, kept)) /\ UNCHANGED <<run, controls, orders>>
    <3>1. journal' \in {journal, Record(lane)} BY <2>4 DEF Write
    <3>2. Kept(lane, NoOrder, run, Record(lane), reports) BY <2>2, RecordIsKept
    <3>3. Kept(lane, NoOrder, run, journal, reports) BY <2>1, <2>2
    <3>4. Kept(lane, NoOrder, run, journal', reports) BY <3>1, <3>2, <3>3
    <3> QED BY <2>1, <2>2, <2>4, <3>4 DEF ReplayInv, HostTied, orders
  <2> QED BY <1>4, <2>3, <2>4 DEF RecordTurn
<1>5. CASE Replaced
  <2>1. /\ starting # NoOrder /\ run' = NewRunOf(starting) /\ starting' = NoOrder
        /\ UNCHANGED <<lane, turn, unrecorded, afterHandBack, journal, plans, reports>>
    BY <1>5 DEF Replaced, Spawn
  <2>2. Tied(lane, plans, unrecorded, afterHandBack, NoOrder, NewRunOf(starting), reports)
    BY <2>1, SpawnIsTied DEF ReplayInv, HostTied
  <2>3. journal' = Record(lane') BY <2>1 DEF ReplayInv, HostTied, Kept
  <2>4. HostTied' BY <1>0, <2>1, <2>2, <2>3, RecordedIsKept
  <2>5. turn' # "progress" BY <2>1 DEF LeadInv
  <2> QED BY <2>4, <2>5 DEF ReplayInv
<1> QED BY <1>1, <1>2, <1>3, <1>4, <1>5 DEF HostStep

\* A step of the run that takes nothing back.
LEMMA RunStepTies ==
    ASSUME ReplayInv, UNCHANGED <<lane, turn, seen, orders, journal, plans, reports>>,
           run # NoRun, ~run.gone, run'.plan = run.plan, run'.todo = run.todo,
           run.finished \subseteq run'.finished,
           FreshRun(run', lane, reports), RunRecorded(run', journal)
    PROVE  ReplayInv'
<1>1. Apart(unrecorded, afterHandBack, starting, run) /\ Quiet(lane, unrecorded, afterHandBack, starting, run)
  BY DEF ReplayInv, HostTied, Tied
<1>2. Apart(unrecorded, afterHandBack, starting, run') /\ Quiet(lane, unrecorded, afterHandBack, starting, run')
  BY <1>1 DEF Apart, Quiet
<1>3. Tied(lane, plans, unrecorded, afterHandBack, starting, run', reports)
  BY <1>2 DEF ReplayInv, HostTied, Tied
<1>4. Kept(lane, starting, run', journal, reports) BY DEF ReplayInv, HostTied, Kept
<1>5. SeenTrue(seen, run, lane, journal) => SeenTrue(seen, run', lane, journal) BY DEF SeenTrue
<1> QED BY <1>3, <1>4, <1>5 DEF ReplayInv, HostTied, orders

\* A flight is complete only with all it was given.
LEMMA FlightCompletes ==
    ASSUME SteerInv, FlightStep \/ People, run.complete => run.active = 0,
           run.complete => run.todo \subseteq run.finished, run.cancelled = {}, run.failed = {}
    PROVE  /\ run'.cancelled = run.cancelled /\ run'.failed = run.failed
           /\ run'.complete => run'.active = 0 /\ run'.todo \subseteq run'.finished
<1>1. RunFields \subseteq DOMAIN run BY FlightGoesOn
<1> DEFINE Same(r) == /\ r.cancelled = run.cancelled /\ r.failed = run.failed
                      /\ r.complete = run.complete /\ r.active = run.active
                      /\ r.todo = run.todo /\ r.finished = run.finished
<1>2. CASE FlightControl
  <2> DEFINE held == [run EXCEPT !.hold = TRUE, !.paused = TRUE]
             freed == [run EXCEPT !.hold = FALSE, !.paused = FALSE]
             stopped == [run EXCEPT !.hold = TRUE, !.paused = TRUE, !.stopping = TRUE]
  <2>1. run' \in {held, freed, stopped, run} BY <1>2 DEF FlightControl
  <2>2. Same(held) /\ Same(freed) /\ Same(stopped) BY <1>1 DEF RunFields
  <2> HIDE DEF held, freed, stopped
  <2> QED BY <2>1, <2>2
<1>3. CASE LeaseAnswered \/ LeaseHandedOver
  <2>1. Same(run') BY <1>1, <1>3 DEF LeaseAnswered, LeaseHandedOver, RunFields
  <2> QED BY <2>1
<1>4. CASE ControlIsLost \/ ControlIsFreed
  <2>1. Same(run') BY <1>1, <1>4 DEF ControlIsLost, ControlIsFreed, RunFields
  <2> QED BY <2>1
<1>5. CASE LeftFlight \/ Fence
  <2>1. Same(run') BY <1>1, <1>5 DEF LeftFlight, Fence, RunFields
  <2> QED BY <2>1
<1>6. CASE FlightExits \/ Released
  <2>1. Same(run') BY <1>1, <1>6 DEF FlightExits, Released, RunFields
  <2> QED BY <2>1
<1>7. CASE TaskStarted
  <2>1. ~run.complete BY <1>7 DEF TaskStarted, Undone
  <2>2. run'.cancelled = run.cancelled /\ run'.failed = run.failed /\ run'.complete = run.complete
    BY <1>1, <1>7 DEF TaskStarted, RunFields
  <2> QED BY <2>1, <2>2
<1>8. CASE TaskFinished
  <2>1. /\ run'.cancelled = run.cancelled /\ run'.failed = run.failed
        /\ run'.complete = (Undone = {run.active}) /\ run'.active = 0
        /\ run'.todo = run.todo /\ run'.finished = run.finished \cup {run.active}
    BY <1>1, <1>8 DEF TaskFinished, RunFields
  <2> QED BY <2>1 DEF Undone
<1> QED BY <1>2, <1>3, <1>4, <1>5, <1>6, <1>7, <1>8 DEF FlightStep, People

\* A flight.
LEMMA FlightTies ==
    ASSUME SteerInv, ReplayInv, FlightStep \/ People
    PROVE  ReplayInv'
<1>1. /\ run # NoRun /\ ~run.gone /\ Flies(run.plan)
      /\ UNCHANGED <<lane, turn, seen, orders, journal, plans, reports>>
      /\ run'.plan = run.plan /\ run'.todo = run.todo /\ run.finished \subseteq run'.finished
  BY FlightGoesOn
<1>2. FreshRun(run, lane, reports) BY DEF ReplayInv, HostTied, Tied
<1>3. /\ run'.cancelled = run.cancelled /\ run'.failed = run.failed
      /\ run'.complete => \/ run.complete /\ run'.active = run.active
                          \/ run'.active = 0 /\ run'.todo \subseteq run'.finished
  BY <1>1, <1>2, FlightCompletes DEF FreshRun
<1>4. FreshRun(run', lane, reports) /\ RunRecorded(run', journal)
  BY <1>1, <1>2, <1>3 DEF FreshRun, RunRecorded
<1> QED BY <1>1, <1>4, RunStepTies

\* A report is in place: everything before it ended, and nobody else is to write it.
LEMMA ReportTies ==
    ASSUME SteerInv, LeadInv, ReplayInv, ReportStands
    PROVE  ReplayInv'
<1> DEFINE w == reports \cup {<<run.plan.digest, run.active>>}
<1>1. /\ run # NoRun /\ ~run.gone /\ ~Flies(run.plan) /\ run.active # 0
      /\ Operations[run.active] = "write" /\ reports' = w
      /\ UNCHANGED <<lane, turn, run, controls, seen, orders, journal, now, plans, troubles>>
  BY DEF ReportStands, At, Operating, Hears
<1>2. /\ run.todo \subseteq Numbers(run.plan) /\ run.active \in run.todo
      /\ Led(lane, plans, unrecorded, afterHandBack, starting, run, journal)
      /\ Fine(lane)
  BY <1>1 DEF LeadInv, HostLed, RunOk, SteerInv
<1>3. Used(run.plan, lane, plans) /\ run.plan \in AnyPlan BY <1>1, <1>2 DEF Led, RunLed, Used
<1>4. /\ Tied(lane, plans, unrecorded, afterHandBack, starting, run, reports)
      /\ Kept(lane, starting, run, journal, reports)
  BY DEF ReplayInv, HostTied
<1> HIDE DEF w
<1>5. ASSUME NEW plan, ~Flies(plan), plan \in AnyPlan
      PROVE  /\ plan # run.plan => Reported(plan, w) = Reported(plan, reports)
             /\ Reported(plan, w) \subseteq Reported(plan, reports) \cup {run.active}
             /\ Reported(plan, reports) \subseteq Reported(plan, w)
  <2>1. plan # run.plan => plan.digest # run.plan.digest BY <1>1, <1>3, <1>5 DEF AnyPlan, Flies
  <2> QED BY <2>1 DEF Reported, w
<1>6. InOrder(lane, w)
  <2> InOrder(lane, reports) BY <1>4 DEF Tied
  <2> SUFFICES ASSUME lane.state \in Flying, ~Flies(lane.proposal) PROVE InOrder(lane, w)
    BY DEF InOrder
  <2>1. lane.proposal \in AnyPlan /\ Live(lane)
    BY <1>1, <1>2, <1>4 DEF Fine, TypedLane, TypedRecord, Tied, Quiet, Flying, Live
  <2>2. lane.proposal = run.plan => 1 .. run.active - 1 \subseteq EndedOf(lane.tasks)
    BY <1>1, <1>2, <2>1 DEF Led, RunLed, JournalOk
  <2>3. lane.proposal # run.plan => Reported(lane.proposal, w) = Reported(lane.proposal, reports)
    BY <1>5, <2>1
  <2>4. Reported(lane.proposal, w) \subseteq Reported(lane.proposal, reports) \cup {run.active}
    BY <1>5, <2>1
  <2> QED BY <2>2, <2>3, <2>4 DEF InOrder
<1>7. journal # NoRecord => InOrder(journal, w)
  <2> SUFFICES ASSUME journal # NoRecord, journal.state \in Flying, ~Flies(journal.proposal)
               PROVE  InOrder(journal, w)
    BY <1>4 DEF InOrder, Kept
  <2>1. journal.proposal \in AnyPlan BY <1>2 DEF Led, JournalOk, Used
  <2>2. journal.proposal = run.plan => 1 .. run.active - 1 \subseteq EndedOf(journal.tasks)
    BY <1>1, <1>4 DEF Kept, RunRecorded
  <2>3. journal.proposal # run.plan => Reported(journal.proposal, w) = Reported(journal.proposal, reports)
    BY <1>5, <2>1
  <2>4. Reported(journal.proposal, w) \subseteq Reported(journal.proposal, reports) \cup {run.active}
    BY <1>5, <2>1
  <2>5. InOrder(journal, reports) BY <1>4 DEF Kept
  <2> QED BY <2>2, <2>3, <2>4, <2>5 DEF InOrder
<1>8. AtRest(lane, w) BY <1>1 DEF SteerInv, Restful, AtRest
<1>9. Accounted(lane, plans, w)
  <2>1. [digest |-> run.plan.digest, kind |-> "operations"] = run.plan
    BY <1>1, <1>3 DEF AnyPlan, Flies
  <2>2. run.active \in DOMAIN Operations BY <1>1, <1>2 DEF Numbers, TasksOf, Flies
  <2>3. Accounted(lane, plans, reports) BY <1>4 DEF Tied
  <2> DEFINE x == <<run.plan.digest, run.active>>
  <2>4. /\ x[2] \in DOMAIN Operations /\ Operations[x[2]] = "write"
        /\ Used([digest |-> x[1], kind |-> "operations"], lane, plans)
    BY <1>1, <1>3, <2>1, <2>2
  <2>5. w = reports \cup {x} BY DEF w
  <2> HIDE DEF x
  <2> QED BY <2>3, <2>4, <2>5 DEF Accounted
<1>10. ASSUME NEW o, FreshOrder(o, lane, reports), o # NoOrder => o.plan # run.plan,
              Given(o, lane, plans)
       PROVE  FreshOrder(o, lane, w)
  <2>1. o # NoOrder => o.plan \in AnyPlan BY <1>10 DEF Given, Used
  <2> QED BY <1>5, <1>10, <2>1 DEF FreshOrder
<1>11. FreshOrder(unrecorded, lane, w) /\ FreshOrder(afterHandBack, lane, w) /\ FreshOrder(starting, lane, w)
  <2>1. /\ unrecorded # NoOrder => unrecorded.plan # run.plan
        /\ afterHandBack # NoOrder => afterHandBack.plan # run.plan
        /\ starting # NoOrder => starting.plan # run.plan
    BY <1>1, <1>4 DEF Tied, Apart
  <2>2. Given(unrecorded, lane, plans) /\ Given(afterHandBack, lane, plans) /\ Given(starting, lane, plans)
    BY <1>2 DEF Led
  <2>3. /\ FreshOrder(unrecorded, lane, reports) /\ FreshOrder(afterHandBack, lane, reports)
        /\ FreshOrder(starting, lane, reports)
    BY <1>4 DEF Tied
  <2> QED BY <1>10, <2>1, <2>2, <2>3
<1>12. FreshRun(run, lane, w)
  <2>1. FreshRun(run, lane, reports) BY <1>4 DEF Tied
  <2>2. /\ Reported(run.plan, w) \subseteq Reported(run.plan, reports) \cup {run.active}
        /\ Reported(run.plan, reports) \subseteq Reported(run.plan, w)
    BY <1>1, <1>3, <1>5
  <2> QED BY <2>1, <2>2 DEF FreshRun
<1>13. Tied(lane, plans, unrecorded, afterHandBack, starting, run, w)
  BY <1>4, <1>6, <1>8, <1>9, <1>11, <1>12 DEF Tied
<1>14. Kept(lane, starting, run, journal, w) BY <1>4, <1>7 DEF Kept
<1> QED BY <1>1, <1>13, <1>14 DEF ReplayInv, HostTied, orders

\* The next operation is the first that is left, and no run at work is complete.
LEMMA NextIsFirst ==
    ASSUME SteerInv, LeadInv, ReplayInv, OperationBegins
    PROVE  /\ NextTask \in run.todo \ run.finished /\ NextTask \notin Reported(run.plan, reports)
           /\ \A j \in run.todo \ run.finished : NextTask <= j
           /\ ~run.complete /\ NextTask # 0
<1>1. /\ run # NoRun /\ ~run.gone /\ ~Flies(run.plan) /\ run.active = 0 /\ Undone # {}
      /\ RunFields \subseteq DOMAIN run
  BY DEF SteerInv, TypedHost, OperationBegins, Between, Operating, Hears
<1>2. /\ run.todo \subseteq Numbers(run.plan) /\ run.finished \subseteq run.todo
      /\ run.cancelled = {} /\ run.failed = {} /\ FreshRun(run, lane, reports)
  BY <1>1 DEF LeadInv, HostLed, RunOk, ReplayInv, HostTied, Tied
<1>3. Undone = run.todo \ run.finished BY <1>2 DEF Undone
<1>4. NextTask \in run.todo \ run.finished /\ \A j \in run.todo \ run.finished : NextTask <= j
  <2>1. \E i \in Undone : \A j \in Undone : i <= j BY <1>1, <1>2, <1>3, LeastIsFirst
  <2>2. NextTask \in Undone /\ \A j \in Undone : NextTask <= j BY <2>1 DEF NextTask
  <2> QED BY <1>3, <2>2
<1>5. NextTask # 0 BY <1>1, <1>2, <1>4, OperationsAre
<1> QED BY <1>1, <1>2, <1>3, <1>4, <1>5 DEF FreshRun

\* A run of operations, which begins what was not reported and ends what was.
LEMMA OperationTies ==
    ASSUME SteerInv, LeadInv, ReplayInv, OperationStep
    PROVE  ReplayInv'
<1> USE DEF RunOnly, Goes
<1>1. Operating
  BY DEF OperationStep, OperationControl, OperationBegins, ReadEnds, ReportStands, WriteEnds,
         OperationsEnd, Between, At
<1>2. run # NoRun /\ ~run.gone /\ ~Flies(run.plan) /\ RunFields \subseteq DOMAIN run
  BY <1>1 DEF SteerInv, TypedHost, Operating, Hears
<1>3. /\ run.todo \subseteq Numbers(run.plan) /\ run.finished \subseteq run.todo
      /\ run.cancelled = {} /\ run.failed = {}
      /\ run.active \in {0} \cup (run.todo \ run.finished)
      /\ FreshRun(run, lane, reports) /\ RunRecorded(run, journal)
  BY <1>2 DEF LeadInv, HostLed, RunOk, ReplayInv, HostTied, Tied, Kept
<1>4. 1 .. 0 - 1 = {} OBVIOUS
<1>5. ASSUME NEW r, RunFields \subseteq DOMAIN r
      PROVE  /\ Over(r).plan = r.plan /\ Over(r).todo = r.todo /\ Over(r).active = r.active
             /\ Over(r).finished = r.finished /\ Over(r).gone = TRUE
             /\ Over(r).complete = r.complete
             /\ Over(r).cancelled = r.cancelled /\ Over(r).failed = r.failed
             /\ RunFields \subseteq DOMAIN Done(r)
             /\ Done(r).plan = r.plan /\ Done(r).todo = r.todo
             /\ Done(r).finished = r.finished \cup {r.active} /\ Done(r).active = 0
             /\ Done(r).complete = r.complete /\ Done(r).gone = r.gone
  BY <1>5 DEF Over, Done, RunFields
<1>6. ASSUME NEW r, RunFields \subseteq DOMAIN r, NEW s
      PROVE  /\ WithControls(r, s).plan = r.plan /\ WithControls(r, s).todo = r.todo
             /\ WithControls(r, s).finished = r.finished /\ WithControls(r, s).active = r.active
             /\ WithControls(r, s).complete = r.complete /\ WithControls(r, s).gone = r.gone
  BY <1>6 DEF WithControls, RunFields
<1>7. /\ (run.todo \ (run.finished \cup {run.active})) \cap Reported(run.plan, reports) = {}
      /\ run.plan = lane.proposal /\ Live(lane) => Unended(lane.tasks) \subseteq run.todo
      /\ \A i \in run.finished : Operations[i] = "write" => i \in Reported(run.plan, reports)
      /\ ~run.complete
  BY <1>2, <1>3 DEF FreshRun
<1>8. ASSUME NEW r, RunFields \subseteq DOMAIN r, r.plan = run.plan, r.todo = run.todo,
             r.finished = run.finished
             \/ (r.finished = run.finished \cup {run.active} /\ Operations[run.active] # "write"),
             r.complete => /\ r.active = 0 /\ r.todo \subseteq r.finished
                           /\ r.cancelled = {} /\ r.failed = {},
             run' = Over(r),
             UNCHANGED <<lane, turn, seen, orders, journal, plans, reports>>
      PROVE  ReplayInv'
  <2>1. /\ run'.plan = run.plan /\ run'.todo = run.todo /\ run.finished \subseteq run'.finished
        /\ run'.gone = TRUE /\ run'.finished = r.finished /\ run'.active = r.active
        /\ run'.complete = r.complete
        /\ run'.cancelled = r.cancelled /\ run'.failed = r.failed
    BY <1>5, <1>8
  <2>2. FreshRun(run', lane, reports) /\ RunRecorded(run', journal)
    BY <1>2, <1>7, <1>8, <2>1 DEF FreshRun, RunRecorded
  <2> QED BY <1>2, <1>8, <2>1, <2>2, RunStepTies
<1>9. ASSUME run'.plan = run.plan, run'.todo = run.todo, run'.gone = run.gone,
             run'.complete = run.complete,
             \/ run'.finished = run.finished /\ run'.active = run.active
             \/ /\ run.active # 0 /\ run'.active = 0
                /\ run'.finished = run.finished \cup {run.active}
                /\ Operations[run.active] = "write" => run.active \in Reported(run.plan, reports),
             UNCHANGED <<lane, turn, seen, orders, journal, plans, reports>>
      PROVE  ReplayInv'
  <2>1. run.finished \subseteq run'.finished BY <1>9
  <2>2. FreshRun(run', lane, reports) BY <1>2, <1>7, <1>9 DEF FreshRun
  <2>3. RunRecorded(run', journal) BY <1>2, <1>3, <1>4, <1>9 DEF RunRecorded
  <2> QED BY <1>2, <1>9, <2>1, <2>2, <2>3, RunStepTies
<1>10. CASE OperationControl
  <2> DEFINE cut == [run EXCEPT !.cancelled = @ \cup ({run.active} \ {0}), !.active = 0]
             refused == [Done(run) EXCEPT !.ended = TRUE]
             steered == WithControls(run, <<Head(controls)>>)
  <2>1. UNCHANGED <<lane, turn, seen, orders, journal, plans, reports>>
    BY <1>10 DEF OperationControl
  <2>2. /\ RunFields \subseteq DOMAIN cut /\ cut.plan = run.plan /\ cut.todo = run.todo
        /\ cut.finished = run.finished /\ cut.active = 0 /\ cut.complete = run.complete
    BY <1>2 DEF RunFields
  <2>3. /\ RunFields \subseteq DOMAIN refused /\ refused.plan = run.plan
        /\ refused.todo = run.todo /\ refused.finished = run.finished \cup {run.active}
        /\ refused.active = 0 /\ refused.complete = run.complete
    <3> DEFINE done == Done(run)
    <3>1. /\ RunFields \subseteq DOMAIN done /\ done.plan = run.plan /\ done.todo = run.todo
          /\ done.finished = run.finished \cup {run.active} /\ done.active = 0
          /\ done.complete = run.complete
      BY <1>2, <1>5
    <3> HIDE DEF done
    <3>2. LET q == [done EXCEPT !.ended = TRUE]
          IN  /\ RunFields \subseteq DOMAIN q /\ q.plan = done.plan /\ q.todo = done.todo
              /\ q.finished = done.finished /\ q.active = done.active
              /\ q.complete = done.complete
      BY <3>1 DEF RunFields
    <3> QED BY <3>1, <3>2 DEF done
  <2>4. \/ run' = Over(cut)
        \/ At("ask") /\ run' = Over(refused)
        \/ run' = steered
        \/ At("ask") /\ run' = Done(run)
    BY <1>10 DEF OperationControl
  <2> HIDE DEF cut, refused
  <2>5. CASE run' = Over(cut) BY <1>7, <1>8, <2>1, <2>2, <2>5
  <2>6. CASE At("ask") /\ run' = Over(refused)
    <3>1. Operations[run.active] # "write" BY <2>6 DEF At
    <3>2. ~refused.complete BY <1>7, <2>3
    <3> QED BY <1>8, <2>1, <2>6, <2>3, <3>1, <3>2
  <2>7. CASE run' = steered
    <3>1. /\ run'.plan = run.plan /\ run'.todo = run.todo /\ run'.gone = run.gone
          /\ run'.complete = run.complete
          /\ run'.finished = run.finished /\ run'.active = run.active
      BY <1>2, <1>6, <2>7
    <3> QED BY <1>9, <2>1, <3>1
  <2>8. CASE At("ask") /\ run' = Done(run)
    <3>1. run.active # 0 /\ Operations[run.active] # "write" BY <2>8 DEF At
    <3>2. /\ run'.plan = run.plan /\ run'.todo = run.todo /\ run'.gone = run.gone
          /\ run'.complete = run.complete /\ run'.active = 0
          /\ run'.finished = run.finished \cup {run.active}
      BY <1>2, <1>5, <2>8
    <3> QED BY <1>9, <2>1, <3>1, <3>2
  <2> QED BY <2>4, <2>5, <2>6, <2>7, <2>8
<1>11. CASE OperationBegins
  <2>1. /\ RecordedAll /\ run' = [run EXCEPT !.active = NextTask] /\ run.active = 0
        /\ UNCHANGED <<lane, turn, seen, orders, journal, plans, reports>>
    BY <1>11 DEF OperationBegins, Between
  <2>2. /\ run'.plan = run.plan /\ run'.todo = run.todo /\ run'.finished = run.finished
        /\ run'.active = NextTask /\ run'.gone = run.gone /\ run'.complete = run.complete
    BY <1>2, <2>1 DEF RunFields
  <2>3. /\ NextTask \in run.todo \ run.finished /\ \A j \in run.todo \ run.finished : NextTask <= j
        /\ ~run.complete
    BY <1>11, NextIsFirst
  <2>4. 0 \notin run.todo BY <1>2, <1>3, OperationsAre
  <2>5. FreshRun(run', lane, reports) BY <1>2, <1>7, <2>1, <2>2, <2>3, <2>4 DEF FreshRun
  <2>6. RunRecorded(run', journal)
    <3> SUFFICES ASSUME journal # NoRecord, journal.proposal = run.plan, journal.state \in Flying
                 PROVE  /\ EndedOf(journal.tasks) \subseteq (Numbers(run.plan) \ run.todo) \cup run.finished
                        /\ 1 .. NextTask - 1 \subseteq EndedOf(journal.tasks)
      BY <2>2 DEF RunRecorded
    <3>1. EndedInJournal = Cardinality(EndedOf(journal.tasks)) BY DEF EndedInJournal, EndedOf
    <3>2. DOMAIN Operations = Numbers(run.plan) BY <1>2 DEF Numbers, TasksOf, Flies
    <3>3. Cardinality(EndedOf(journal.tasks)) >=
             Cardinality(Numbers(run.plan) \ run.todo) + Cardinality(run.finished)
      BY <2>1, <3>1, <3>2 DEF RecordedAll
    <3>4. EndedOf(journal.tasks) \subseteq (Numbers(run.plan) \ run.todo) \cup run.finished
      BY <1>2, <1>3 DEF RunRecorded
    <3> DEFINE plan == run.plan
               todo == run.todo
               finished == run.finished
               ended == EndedOf(journal.tasks)
               next == NextTask
    <3>5. ~Flies(plan) /\ todo \subseteq Numbers(plan) /\ finished \subseteq todo BY <1>2, <1>3
    <3>6. next \in todo \ finished /\ \A j \in todo \ finished : next <= j BY <2>3
    <3>7. /\ ended \subseteq (Numbers(plan) \ todo) \cup finished
          /\ Cardinality(ended) >= Cardinality(Numbers(plan) \ todo) + Cardinality(finished)
      BY <3>3, <3>4
    <3> HIDE DEF plan, todo, finished, ended, next
    <3>8. 1 .. next - 1 \subseteq ended BY <3>5, <3>6, <3>7, NextIsLed
    <3> QED BY <3>4, <3>8 DEF next, ended
  <2>7. run.finished \subseteq run'.finished BY <2>2
  <2> QED BY <1>2, <2>1, <2>2, <2>5, <2>6, <2>7, RunStepTies
<1>12. CASE ReadEnds
  <2>1. /\ run' = Done(run) /\ run.active # 0 /\ Operations[run.active] # "write"
        /\ UNCHANGED <<lane, turn, seen, orders, journal, plans, reports>>
    BY <1>12 DEF ReadEnds, At
  <2>2. /\ run'.plan = run.plan /\ run'.todo = run.todo /\ run'.gone = run.gone
        /\ run'.complete = run.complete /\ run'.active = 0
        /\ run'.finished = run.finished \cup {run.active}
    BY <1>2, <1>5, <2>1
  <2> QED BY <1>9, <2>1, <2>2
<1>13. CASE ReportStands BY <1>13, ReportTies
<1>14. CASE WriteEnds
  <2> DEFINE stopped == [run EXCEPT !.failed = @ \cup {run.active}, !.ended = TRUE]
             done == Done(run)
  <2>1. UNCHANGED <<lane, turn, seen, orders, journal, plans, reports>> /\ run.active # 0
    BY <1>14 DEF WriteEnds, At
  <2>2. /\ RunFields \subseteq DOMAIN stopped /\ stopped.plan = run.plan
        /\ stopped.todo = run.todo /\ stopped.finished = run.finished
        /\ stopped.active = run.active /\ stopped.complete = run.complete
    BY <1>2 DEF RunFields
  <2>3. \/ /\ <<run.plan.digest, run.active>> \in reports
           /\ run' = WithControls(Done(run), controls)
        \/ run' = Over(stopped)
    BY <1>14 DEF WriteEnds
  <2> HIDE DEF stopped
  <2>4. CASE run' = Over(stopped) BY <1>7, <1>8, <2>1, <2>2, <2>4
  <2>5. CASE <<run.plan.digest, run.active>> \in reports /\ run' = WithControls(done, controls)
    <3>1. /\ RunFields \subseteq DOMAIN done /\ done.plan = run.plan /\ done.todo = run.todo
          /\ done.finished = run.finished \cup {run.active} /\ done.active = 0
          /\ done.complete = run.complete /\ done.gone = run.gone
      BY <1>2, <1>5
    <3> HIDE DEF done
    <3>2. /\ run'.plan = run.plan /\ run'.todo = run.todo /\ run'.active = 0
          /\ run'.finished = run.finished \cup {run.active}
          /\ run'.complete = run.complete /\ run'.gone = run.gone
      BY <1>6, <2>5, <3>1
    <3>3. run.active \in Reported(run.plan, reports)
      <4>1. run.active \in DOMAIN Operations BY <1>2, <1>3, <2>1 DEF Numbers, TasksOf, Flies
      <4> QED BY <2>5, <4>1 DEF Reported
    <3> QED BY <1>9, <2>1, <3>2, <3>3
  <2> QED BY <2>3, <2>4, <2>5
<1>15. CASE OperationsEnd
  <2> DEFINE whole == [run EXCEPT !.complete = TRUE]
  <2>1. /\ UNCHANGED <<lane, turn, seen, orders, journal, plans, reports>> /\ run.active = 0
        /\ run' = Over(run) \/ (Undone = {} /\ run' = Over(whole))
    BY <1>15 DEF OperationsEnd, Between
  <2>2. /\ RunFields \subseteq DOMAIN whole /\ whole.plan = run.plan /\ whole.active = run.active
        /\ whole.todo = run.todo /\ whole.finished = run.finished
        /\ whole.cancelled = {} /\ whole.failed = {}
    BY <1>2, <1>3 DEF RunFields
  <2> HIDE DEF whole
  <2>3. CASE run' = Over(run) BY <1>2, <1>7, <1>8, <2>1, <2>3
  <2>4. CASE Undone = {} /\ run' = Over(whole)
    <3>1. run.todo \subseteq run.finished BY <1>3, <2>4 DEF Undone
    <3> QED BY <1>8, <2>1, <2>2, <2>4, <3>1
  <2> QED BY <2>1, <2>3, <2>4
<1> QED BY <1>10, <1>11, <1>12, <1>13, <1>14, <1>15 DEF OperationStep

-----------------------------------------------------------------------------
(* A restart.                                                              *)

Uncertain(tasks) == {i \in DOMAIN tasks : tasks[i] = "uncertain"}
\* A lane that a restart left at work: nothing of its operations is active,
\* nothing that was reported is left of them, and all of them are in order.
Settled(l, w) ==
    /\ l.state \in Flying =>
          /\ Unsuccessful(l.tasks) = {}
          /\ ~Flies(l.proposal) =>
                /\ ActiveOf(l.tasks) = {}
                /\ Left(l) \cap Reported(l.proposal, w) = {}
                /\ \A i \in Reported(l.proposal, w) : 1 .. i - 1 \subseteq EndedOf(l.tasks)
    /\ "restarted" \in l.holds => Uncertain(l.tasks) = {}

\* Nothing is completed by settling what a record says of the operations.
LEMMA SettlingClaims ==
    ASSUME NEW l, Fine(l)
    PROVE  LET m == SettleOperations(l)
           IN  /\ DOMAIN m.tasks = DOMAIN l.tasks
               /\ \A i \in DOMAIN m.tasks : m.tasks[i] = "completed" => l.tasks[i] = "completed"
<1> DEFINE undone == {i \in DOMAIN l.tasks : l.tasks[i] # "completed"}
           first == CHOOSE i \in undone : \A j \in undone : i <= j
<1>1. PICK v \in {"pending", "uncertain"} :
          SettleOperations(l) \in {l, [l EXCEPT !.tasks[first] = v]}
  <2>1. \E v \in {"pending", "uncertain"} :
          SettleOperations(l) \in {l, [l EXCEPT !.tasks[first] = v]}
    BY DEF SettleOperations
  <2> QED BY <2>1
<1> HIDE DEF first
<1>2. LET m == [l EXCEPT !.tasks[first] = v] IN m.tasks = [l.tasks EXCEPT ![first] = v]
  BY LaneFields DEF Fine, TypedLane
<1> QED BY <1>1, <1>2

\* Only the first operation that did not complete may have begun: it is asked
\* about, or begins again.
LEMMA OperationsSettle ==
    ASSUME NEW l, Fine(l), l.holds = {}, NEW w, InOrder(l, w),
           ~Flies(l.proposal) => \A i \in Reported(l.proposal, w) : Operations[i] = "write"
    PROVE  Settled(SettleOperations(l), w)
<1> DEFINE undone == {i \in DOMAIN l.tasks : l.tasks[i] # "completed"}
           first == CHOOSE i \in undone : \A j \in undone : i <= j
           stopped == \E i \in DOMAIN l.tasks : l.tasks[i] \in {"cancelled", "failed"}
           redone == TasksOf(l.proposal)[first] \notin StatusQuery /\ IsFlying(l)
           m == SettleOperations(l)
<1>1. m.state = l.state /\ m.proposal = l.proposal /\ m.holds = {} BY SettlingIsFine
<1>0. Flies(l.proposal) => m = l BY DEF SettleOperations
<1> SUFFICES ASSUME l.state \in Flying, ~Flies(l.proposal) PROVE Settled(m, w)
  BY <1>0, <1>1 DEF Settled, InOrder
<1>2. l.tasks \in [Numbers(l.proposal) -> Statuses] /\ IsFlying(l)
  BY DEF Fine, TypedLane, TypedRecord, Flying, IsFlying, Live
<1>3. /\ Unsuccessful(l.tasks) = {}
      /\ \A i \in Reported(l.proposal, w) \cup ActiveOf(l.tasks) :
            1 .. i - 1 \subseteq EndedOf(l.tasks)
  BY DEF InOrder
<1>4. Numbers(l.proposal) = 1 .. Len(Operations) /\ Len(Operations) \in Nat
      /\ TasksOf(l.proposal) = Operations
  BY OperationsAre DEF TasksOf, Flies
<1>5. m = IF /\ ~Flies(l.proposal) /\ undone # {}
             /\ IsFlying(l) \/ (l.state = "aborted" /\ ~stopped)
             /\ l.tasks[first] \in {"pending", "active"}
          THEN [l EXCEPT !.tasks[first] = IF redone THEN "pending" ELSE "uncertain"]
          ELSE l
  BY DEF SettleOperations
<1>6. undone # {} => first \in undone /\ \A j \in undone : first <= j
  <2>1. undone \subseteq Numbers(l.proposal) BY <1>2
  <2>2. undone # {} => \E i \in undone : \A j \in undone : i <= j BY <2>1, LeastIsFirst
  <2> QED BY <2>2
<1> HIDE DEF first, m
<1>7. \A i \in DOMAIN l.tasks : l.tasks[i] \in {"pending", "active", "uncertain", "completed"}
  <2> SUFFICES ASSUME NEW i \in DOMAIN l.tasks
               PROVE  l.tasks[i] \in {"pending", "active", "uncertain", "completed"}
    OBVIOUS
  <2>1. l.tasks[i] \in Statuses BY <1>2
  <2>2. l.tasks[i] \notin {"cancelled", "failed"} BY <1>3 DEF Unsuccessful
  <2> QED BY <2>1, <2>2 DEF Statuses
<1>8. ASSUME NEW i \in Reported(l.proposal, w) \cup ActiveOf(l.tasks), i \in undone PROVE i = first
  <2>1. first \in undone /\ first <= i /\ first \in 1 .. Len(Operations) /\ i \in 1 .. Len(Operations)
    BY <1>2, <1>4, <1>6, <1>8
  <2>2. first \notin EndedOf(l.tasks) BY <1>7, <2>1 DEF EndedOf, Ended
  <2>3. first \notin 1 .. i - 1 BY <1>3, <2>2
  <2> QED BY <1>4, <2>1, <2>3
<1>9. CASE undone = {}
  <2>1. m = l BY <1>5, <1>9
  <2>2. \A i \in DOMAIN l.tasks : l.tasks[i] = "completed" BY <1>9
  <2>3. ActiveOf(l.tasks) = {} /\ Left(l) = {} BY <2>2 DEF ActiveOf, Left
  <2> QED BY <1>1, <1>3, <2>1, <2>3 DEF Settled
<1>10. CASE undone # {} /\ l.tasks[first] \notin {"pending", "active"}
  <2>1. m = l BY <1>5, <1>10
  <2>2. ActiveOf(l.tasks) = {} BY <1>8, <1>10 DEF ActiveOf
  <2>3. Left(l) \cap Reported(l.proposal, w) = {} BY <1>8, <1>10 DEF Left
  <2> QED BY <1>1, <1>3, <2>1, <2>2, <2>3 DEF Settled
<1>11. CASE undone # {} /\ l.tasks[first] \in {"pending", "active"}
  <2>1. m = [l EXCEPT !.tasks[first] = IF redone THEN "pending" ELSE "uncertain"]
    BY <1>2, <1>5, <1>11
  <2>2. m.tasks = [l.tasks EXCEPT ![first] = IF redone THEN "pending" ELSE "uncertain"]
    BY <2>1, LaneFields DEF Fine, TypedLane
  <2>3. /\ DOMAIN m.tasks = DOMAIN l.tasks /\ first \in DOMAIN l.tasks
        /\ \A i \in DOMAIN l.tasks : i # first => m.tasks[i] = l.tasks[i]
        /\ m.tasks[first] \in {"pending", "uncertain"}
        /\ m.tasks[first] = "pending" => Operations[first] \notin StatusQuery
    BY <1>2, <1>4, <1>6, <1>11, <2>2
  <2>4. Unsuccessful(m.tasks) = {} BY <1>7, <2>3 DEF Unsuccessful
  <2>5. ActiveOf(m.tasks) = {}
    <3> SUFFICES ASSUME NEW i \in DOMAIN l.tasks, m.tasks[i] = "active" PROVE FALSE
      BY <2>3 DEF ActiveOf
    <3>1. i # first /\ l.tasks[i] = "active" BY <2>3
    <3> QED BY <1>8, <3>1 DEF ActiveOf
  <2>6. Left(m) \cap Reported(m.proposal, w) = {}
    <3> SUFFICES ASSUME NEW i \in DOMAIN l.tasks, m.tasks[i] = "pending",
                        i \in Reported(l.proposal, w)
                 PROVE  FALSE
      BY <1>1, <2>3 DEF Left
    <3>1. CASE i = first
      <4>1. Operations[i] \in StatusQuery BY DEF StatusQuery
      <4> QED BY <2>3, <3>1, <4>1
    <3>2. CASE i # first
      <4>1. l.tasks[i] = "pending" BY <2>3, <3>2
      <4> QED BY <1>8, <3>2, <4>1
    <3> QED BY <3>1, <3>2
  <2>7. EndedOf(l.tasks) \subseteq EndedOf(m.tasks) BY <1>11, <2>3 DEF EndedOf, Ended
  <2>8. \A i \in Reported(m.proposal, w) : 1 .. i - 1 \subseteq EndedOf(m.tasks)
    BY <1>1, <1>3, <2>7
  <2> QED BY <1>1, <2>4, <2>5, <2>6, <2>8 DEF Settled
<1> QED BY <1>9, <1>10, <1>11

\* Settling a restart leaves the tasks, and puts no lane to work that was not.
LEMMA RestartSettles ==
    ASSUME NEW l, Fine(l), l.successor = NoSuccessor
    PROVE  LET m == SettleRestart(l)
           IN  /\ m.tasks = l.tasks /\ m.proposal = l.proposal /\ m.queried = l.queried
               /\ m.state \in Flying => l.state \in Flying
               /\ m.state = "complete" =>
                     l.state = "complete" \/ \A i \in DOMAIN m.tasks : m.tasks[i] = "completed"
               /\ \A w : Settled(l, w) => Settled(m, w)
<1> DEFINE free == [l EXCEPT !.restarted = FALSE]
           over == [l EXCEPT !.restarted = FALSE, !.state = "complete"]
           held == [WithHold(l, "restarted") EXCEPT !.state = "held"]
           Same(m) == /\ m.tasks = l.tasks /\ m.proposal = l.proposal /\ m.queried = l.queried
                      /\ m.state \in Flying => l.state \in Flying
                      /\ m.holds = l.holds \/ Uncertain(l.tasks) = {}
                      /\ m.state = "complete" =>
                            \/ l.state = "complete"
                            \/ \A i \in DOMAIN m.tasks : m.tasks[i] = "completed"
<1>1. /\ free.state = l.state /\ free.proposal = l.proposal /\ free.tasks = l.tasks
      /\ free.queried = l.queried /\ free.holds = l.holds /\ over.holds = l.holds
      /\ over.state = "complete" /\ over.proposal = l.proposal /\ over.tasks = l.tasks
      /\ over.queried = l.queried
      /\ held.state = "held" /\ held.proposal = l.proposal /\ held.tasks = l.tasks
      /\ held.queried = l.queried
  BY LaneFields DEF Fine, TypedLane, WithHold
<1>2. \/ SettleRestart(l) \in {l, free}
      \/ SettleRestart(l) = over /\ \A i \in DOMAIN l.tasks : l.tasks[i] = "completed"
      \/ l.state = "uncertain" /\ SettleRestart(l) = held /\ Uncertain(l.tasks) = {}
  BY DEF SettleRestart, Uncertain
<1> HIDE DEF free, over, held
<1>3. Same(SettleRestart(l)) BY <1>1, <1>2 DEF Flying
<1>4. \A m, w : Same(m) /\ Settled(l, w) => Settled(m, w) BY DEF Settled, Left
<1> QED BY <1>3, <1>4

\* A restored lane, and what the host asks about.
LEMMA RestoredSettles ==
    ASSUME NEW record, TypedRecord(record)
    PROVE  LET l == Restore(record)
           IN  /\ l.proposal = record.proposal /\ DOMAIN l.tasks = DOMAIN record.tasks
               /\ \A i \in DOMAIN l.tasks : l.tasks[i] = "completed" => record.tasks[i] = "completed"
               /\ \A i \in l.queried : i \in DOMAIN l.tasks /\ l.tasks[i] = "uncertain"
               /\ l.state = "complete" =>
                     \/ record.state = "complete"
                     \/ \A i \in DOMAIN l.tasks : l.tasks[i] = "completed"
               /\ \A w : (/\ InOrder(record, w)
                          /\ ~Flies(record.proposal) =>
                                \A i \in Reported(record.proposal, w) : Operations[i] = "write")
                         => Settled(l, w)
<1> DEFINE recorded == [NewLane EXCEPT !.state = record.state, !.proposal = record.proposal,
                                       !.approval = record.approval, !.tasks = record.tasks]
           left == SettleOperations(recorded)
           queried == {i \in DOMAIN left.tasks :
                         /\ left.tasks[i] = "uncertain"
                         /\ TasksOf(left.proposal)[i] \in StatusQuery}
           restored == [left EXCEPT !.restarted = IsFlying(left) \/ queried # {},
                                    !.queried = queried,
                                    !.state = IF IsFlying(left) THEN "uncertain" ELSE @]
<1>1. /\ DOMAIN recorded = DOMAIN NewLane /\ recorded.state = record.state
      /\ recorded.proposal = record.proposal /\ recorded.tasks = record.tasks
      /\ recorded.successor = NoSuccessor /\ recorded.holds = {}
  BY DEF NewLane
<1> HIDE DEF recorded
<1>2. Fine(recorded) BY <1>1, LaneFields DEF Fine, TypedLane, TypedRecord, Rests
<1>3. /\ Fine(left) /\ left.successor = NoSuccessor /\ left.holds = {}
      /\ left.state = record.state /\ left.proposal = record.proposal
      /\ DOMAIN left.tasks = DOMAIN record.tasks
      /\ \A i \in DOMAIN left.tasks : left.tasks[i] = "completed" => record.tasks[i] = "completed"
  BY <1>1, <1>2, SettlingIsFine, SettlingClaims
<1>4. ASSUME NEW w, InOrder(record, w),
             ~Flies(record.proposal) =>
                \A i \in Reported(record.proposal, w) : Operations[i] = "write"
      PROVE  Settled(left, w)
  <2>1. InOrder(recorded, w) BY <1>1, <1>4 DEF InOrder
  <2> QED BY <1>1, <1>2, <1>4, <2>1, OperationsSettle
<1>5. Restore(record) = SettleRestart(restored) BY DEF Restore, recorded
<1>6. \A i \in queried : i \in DOMAIN left.tasks /\ left.tasks[i] = "uncertain" OBVIOUS
<1> HIDE DEF left, queried
<1>7. /\ DOMAIN restored = DOMAIN left /\ restored.proposal = left.proposal
      /\ restored.tasks = left.tasks /\ restored.successor = left.successor
      /\ restored.holds = left.holds /\ restored.queried = queried
      /\ restored.state = IF IsFlying(left) THEN "uncertain" ELSE left.state
  BY <1>3, LaneFields DEF Fine, TypedLane
<1> HIDE DEF restored
<1>8. Fine(restored)
  BY <1>3, <1>7, LaneFields
     DEF Fine, TypedLane, TypedRecord, Rests, States, Flying, IsFlying, Live
<1>9. \A w : Settled(left, w) => Settled(restored, w)
  BY <1>7 DEF Settled, Left, Flying, IsFlying, Live
<1> DEFINE l == SettleRestart(restored)
<1>10. /\ l.tasks = restored.tasks /\ l.proposal = restored.proposal
       /\ l.queried = restored.queried /\ \A w : Settled(restored, w) => Settled(l, w)
       /\ l.state = "complete" =>
             restored.state = "complete" \/ \A i \in DOMAIN l.tasks : l.tasks[i] = "completed"
  BY <1>3, <1>7, <1>8, RestartSettles
<1> HIDE DEF l
<1> QED BY <1>3, <1>4, <1>5, <1>6, <1>7, <1>9, <1>10 DEF l

\* What the host found out: a write is pending again only if it left no report.
LEMMA ReconciledSettles ==
    ASSUME NEW l, Fine(l), l.successor = NoSuccessor, NEW happened, NEW didNot,
           \A i \in didNot : i \in DOMAIN l.tasks /\ l.tasks[i] = "uncertain"
    PROVE  LET m == Reconcile(l, happened, didNot)
           IN  /\ m.proposal = l.proposal /\ DOMAIN m.tasks = DOMAIN l.tasks
               /\ \A i \in DOMAIN m.tasks : m.tasks[i] = "completed" =>
                     l.tasks[i] = "completed" \/ i \in happened
               /\ \A i \in DOMAIN m.tasks : l.tasks[i] = "completed" => m.tasks[i] = "completed"
               /\ m.state = "complete" =>
                     l.state = "complete" \/ \A i \in DOMAIN m.tasks : m.tasks[i] = "completed"
               /\ \A w : (/\ Settled(l, w)
                          /\ ~Flies(l.proposal) => didNot \cap Reported(l.proposal, w) = {})
                         => Settled(m, w)
<1> DEFINE Found(i) == CASE i \in happened -> "completed"
                         [] i \in didNot -> "pending"
                         [] OTHER -> l.tasks[i]
           m == [l EXCEPT !.queried = @ \ (happened \cup didNot),
                          !.tasks = [i \in DOMAIN @ |-> CASE i \in happened -> "completed"
                                                          [] i \in didNot -> "pending"
                                                          [] OTHER -> @[i]]]
<1>1. /\ DOMAIN m = DOMAIN l /\ m.state = l.state /\ m.holds = l.holds
      /\ m.proposal = l.proposal /\ m.successor = l.successor
      /\ m.tasks = [i \in DOMAIN l.tasks |-> Found(i)]
  BY LaneFields DEF Fine, TypedLane
<1>2. \A i \in DOMAIN l.tasks :
         /\ l.tasks[i] \in Statuses => Found(i) \in Statuses
         /\ Found(i) = "completed" => l.tasks[i] = "completed" \/ i \in happened
         /\ l.tasks[i] = "completed" => Found(i) = "completed"
         /\ Found(i) = "pending" => l.tasks[i] = "pending" \/ i \in didNot
         /\ Found(i) \in {"completed", "pending"} \/ Found(i) = l.tasks[i]
         /\ l.tasks[i] \in Ended => Found(i) \in Ended
  <2> SUFFICES ASSUME NEW i \in DOMAIN l.tasks
               PROVE  /\ l.tasks[i] \in Statuses => Found(i) \in Statuses
                      /\ Found(i) = "completed" => l.tasks[i] = "completed" \/ i \in happened
                      /\ l.tasks[i] = "completed" => Found(i) = "completed"
                      /\ Found(i) = "pending" => l.tasks[i] = "pending" \/ i \in didNot
                      /\ Found(i) \in {"completed", "pending"} \/ Found(i) = l.tasks[i]
                      /\ l.tasks[i] \in Ended => Found(i) \in Ended
    OBVIOUS
  <2>1. i \in didNot => l.tasks[i] \notin Ended BY DEF Ended
  <2> QED BY <2>1 DEF Statuses, Ended
<1>3. Reconcile(l, happened, didNot) \in {l, SettleRestart(m)} BY DEF Reconcile
<1> HIDE DEF m, Found
<1>4. \A S : l.tasks \in [S -> Statuses] => m.tasks \in [S -> Statuses] BY <1>1, <1>2
<1>5. Fine(m) BY <1>1, <1>4, LaneFields DEF Fine, TypedLane, TypedRecord, Rests
<1>6. ASSUME NEW w, Settled(l, w),
             ~Flies(l.proposal) => didNot \cap Reported(l.proposal, w) = {}
      PROVE  Settled(m, w)
  <2>5. l.state \in Flying => Unsuccessful(m.tasks) = {}
    BY <1>1, <1>2, <1>6 DEF Settled, Unsuccessful
  <2>6. "restarted" \in m.holds => Uncertain(m.tasks) = {}
    BY <1>1, <1>2, <1>6 DEF Settled, Uncertain
  <2> SUFFICES ASSUME l.state \in Flying, ~Flies(l.proposal) PROVE Settled(m, w)
    BY <1>1, <2>5, <2>6 DEF Settled
  <2>1. /\ ActiveOf(l.tasks) = {}
        /\ Left(l) \cap Reported(l.proposal, w) = {}
        /\ \A i \in Reported(l.proposal, w) : 1 .. i - 1 \subseteq EndedOf(l.tasks)
    BY <1>6 DEF Settled
  <2>2. ActiveOf(m.tasks) = {} BY <1>1, <1>2, <2>1 DEF ActiveOf
  <2>3. Left(m) \subseteq Left(l) \cup didNot BY <1>1, <1>2 DEF Left
  <2>4. EndedOf(l.tasks) \subseteq EndedOf(m.tasks) BY <1>1, <1>2 DEF EndedOf
  <2> QED BY <1>1, <1>6, <2>1, <2>2, <2>3, <2>4, <2>5, <2>6 DEF Settled
<1> DEFINE s == SettleRestart(m)
<1>7. /\ s.tasks = m.tasks /\ s.proposal = m.proposal
      /\ \A w : Settled(m, w) => Settled(s, w)
      /\ s.state = "complete" =>
            m.state = "complete" \/ \A i \in DOMAIN s.tasks : s.tasks[i] = "completed"
  BY <1>1, <1>5, RestartSettles
<1> HIDE DEF s
<1>8. \A i \in DOMAIN m.tasks :
         /\ m.tasks[i] = "completed" => l.tasks[i] = "completed" \/ i \in happened
         /\ l.tasks[i] = "completed" => m.tasks[i] = "completed"
  BY <1>1, <1>2
<1> QED BY <1>1, <1>3, <1>6, <1>7, <1>8 DEF s

\* What a restarted lane that waits has not ended is left to do.
LEMMA AtRestOnceSettled ==
    ASSUME NEW l, Fine(l), NEW w, Settled(l, w)
    PROVE  AtRest(l, w)
<1> SUFFICES ASSUME "restarted" \in l.holds
             PROVE  /\ Left(l) \cap Reported(l.proposal, w) = {}
                    /\ Unended(l.tasks) \subseteq Left(l)
  BY DEF AtRest
<1>1. l.state \in Flying /\ ~Flies(l.proposal) BY DEF Fine, Rests, Flying
<1>2. /\ Unsuccessful(l.tasks) = {} /\ ActiveOf(l.tasks) = {} /\ Uncertain(l.tasks) = {}
      /\ Left(l) \cap Reported(l.proposal, w) = {}
  BY <1>1 DEF Settled
<1>3. l.tasks \in [Numbers(l.proposal) -> Statuses] BY <1>1 DEF Fine, TypedLane, TypedRecord
<1>4. ASSUME NEW i \in Unended(l.tasks) PROVE i \in Left(l)
  <2>1. i \in DOMAIN l.tasks /\ l.tasks[i] \in Statuses /\ l.tasks[i] # "completed"
    BY <1>3 DEF Unended, EndedOf, Ended
  <2>2. l.tasks[i] \notin {"cancelled", "failed", "active", "uncertain"}
    BY <1>2, <2>1 DEF Unsuccessful, ActiveOf, Uncertain
  <2> QED BY <2>1, <2>2 DEF Statuses, Left
<1> QED BY <1>2, <1>4

\* A restart: what was asked about and left a report is completed, and all that
\* is left did not leave one.
LEMMA CrashTies ==
    ASSUME ApprovedInv, SteerInv, LeadInv, ReplayInv, Crash
    PROVE  /\ ReplayInv'
           /\ \A i \in DOMAIN lane'.tasks : lane'.tasks[i] = "completed" =>
                 \/ /\ journal # NoRecord /\ journal.proposal = lane'.proposal
                    /\ i \in DOMAIN journal.tasks /\ journal.tasks[i] = "completed"
                 \/ <<lane'.proposal.digest, i>> \in reports
           /\ lane'.state = "complete" =>
                 \/ /\ journal # NoRecord /\ journal.proposal = lane'.proposal
                    /\ journal.state = "complete"
                 \/ \A i \in DOMAIN lane'.tasks : lane'.tasks[i] = "completed"
<1> DEFINE restored == IF journal = NoRecord THEN NewLane ELSE Restore(journal)
           written == {i \in restored.queried :
                          Operations[i] = "write" /\ <<restored.proposal.digest, i>> \in reports}
<1>1. PICK told \in SUBSET restored.queried :
        LET found == Reconcile(restored, told \cap written, told \ written)
        IN  lane' = found /\ journal' = IF journal = NoRecord THEN journal ELSE Record(found)
  BY DEF Crash
<1>2. /\ run' = NoRun /\ unrecorded' = NoOrder /\ afterHandBack' = NoOrder
      /\ starting' = NoOrder /\ turn' = "idle" /\ plans' = plans /\ reports' = reports
  BY DEF Crash
<1>3. /\ plans \in Nat /\ Accounted(lane, plans, reports)
      /\ journal # NoRecord => InOrder(journal, reports) /\ TypedRecord(journal)
      /\ JournalOk(journal, lane, plans)
  BY DEF ApprovedInv, SteerInv, TypedHost, LeadInv, HostLed, Led, ReplayInv, HostTied, Tied, Kept
<1>4. ASSUME NEW l, lane' = l, Settled(l, reports), AtRest(l, reports),
             l.state \notin {"proposed", "admitted"}, l.successor = NoSuccessor,
             journal' = NoRecord \/ journal' = Record(l)
      PROVE  ReplayInv'
  <2>1. \A p : Used(p, lane, plans) => Used(p, l, plans) BY <1>4 DEF Used
  <2>2. Accounted(l, plans, reports) BY <1>3, <2>1 DEF Accounted
  <2>3. InOrder(l, reports) BY <1>4 DEF Settled, InOrder
  <2>4. Tied(l, plans, NoOrder, NoOrder, NoOrder, NoRun, reports)
    BY <1>4, <2>2, <2>3 DEF Tied, FreshOrder, FreshRun, Apart, Quiet
  <2>5. Record(l) # NoRecord =>
         /\ Record(l).proposal = l.proposal /\ Record(l).tasks = l.tasks
         /\ Record(l).state = l.state
    BY DEF Record
  <2>6. journal' # NoRecord => InOrder(journal', reports) BY <1>4, <2>3, <2>5 DEF InOrder
  <2>7. Kept(l, NoOrder, NoRun, journal', reports) BY <2>6 DEF Kept, RunRecorded
  <2> QED BY <1>2, <1>4, <2>4, <2>7 DEF ReplayInv, HostTied
<1>5. CASE journal = NoRecord
  <2>1. restored = NewLane /\ NewLane.queried = {} BY <1>5 DEF NewLane
  <2>2. told = {} BY <1>1, <2>1
  <2>3. lane' = NewLane /\ journal' = NoRecord BY <1>1, <1>5, <2>1, <2>2 DEF Reconcile
  <2>4. /\ NewLane.state = "idle" /\ NewLane.successor = NoSuccessor /\ NewLane.holds = {}
        /\ DOMAIN NewLane.tasks = {}
    BY DEF NewLane
  <2>5. Settled(NewLane, reports) /\ AtRest(NewLane, reports)
    BY <2>4 DEF Settled, AtRest, Flying
  <2> QED BY <1>4, <2>3, <2>4, <2>5
<1>6. CASE journal # NoRecord
  <2> DEFINE happened == told \cap written
             didNot == told \ written
             found == Reconcile(restored, happened, didNot)
  <2>1. restored = Restore(journal) /\ TypedRecord(journal) /\ journal.state \in Begun
        /\ journal.proposal \in AnyPlan
    BY <1>3, <1>6 DEF JournalOk, Used
  <2>2. \A i \in Reported(journal.proposal, reports) : ~Flies(journal.proposal) =>
           Operations[i] = "write"
    <3> SUFFICES ASSUME NEW i \in Reported(journal.proposal, reports)
                 PROVE  Operations[i] = "write"
      OBVIOUS
    <3> DEFINE x == <<journal.proposal.digest, i>>
    <3>1. x \in reports BY DEF Reported
    <3>2. Operations[x[2]] = "write" BY <1>3, <3>1 DEF Accounted
    <3> QED BY <3>2
  <2>3. /\ Fine(restored) /\ Steady(restored) /\ restored.state \in Begun
        /\ restored.successor = NoSuccessor /\ restored.proposal = journal.proposal
    BY <2>1, RestoredIsFine, RestoredIsSteady
  <2>4. /\ DOMAIN restored.tasks = DOMAIN journal.tasks
        /\ restored.state = "complete" =>
              \/ journal.state = "complete"
              \/ \A i \in DOMAIN restored.tasks : restored.tasks[i] = "completed"
        /\ \A i \in DOMAIN restored.tasks :
              restored.tasks[i] = "completed" => journal.tasks[i] = "completed"
        /\ \A i \in restored.queried : i \in DOMAIN restored.tasks /\ restored.tasks[i] = "uncertain"
    BY <2>1, RestoredSettles
  <2>5. Settled(restored, reports)
    <3>1. InOrder(journal, reports) BY <1>3, <1>6
    <3>2. ~Flies(journal.proposal) =>
             \A i \in Reported(journal.proposal, reports) : Operations[i] = "write"
      BY <2>2
    <3> QED BY <2>1, <3>1, <3>2, RestoredSettles
  <2>6. lane' = found /\ journal' = Record(found) BY <1>1, <1>6
  <2>7. /\ \A i \in didNot : i \in DOMAIN restored.tasks /\ restored.tasks[i] = "uncertain"
        /\ ~Flies(restored.proposal) => didNot \cap Reported(restored.proposal, reports) = {}
        /\ \A i \in happened : <<restored.proposal.digest, i>> \in reports
    <3>1. ~Flies(restored.proposal) =>
             \A i \in Reported(restored.proposal, reports) : Operations[i] = "write"
      BY <2>2, <2>3
    <3> QED BY <1>1, <2>4, <3>1 DEF Reported
  <2> HIDE DEF restored, happened, didNot
  <2>8. /\ Fine(found) /\ found.state \in Begun
        /\ found.proposal = restored.proposal /\ found.successor = NoSuccessor
    BY <2>3, ReconciledIsFine, ReconciledIsSteady
  <2>9. /\ DOMAIN found.tasks = DOMAIN restored.tasks
        /\ \A i \in DOMAIN found.tasks : found.tasks[i] = "completed" =>
              restored.tasks[i] = "completed" \/ i \in happened
        /\ \A i \in DOMAIN found.tasks :
              restored.tasks[i] = "completed" => found.tasks[i] = "completed"
        /\ found.state = "complete" =>
              \/ restored.state = "complete"
              \/ \A i \in DOMAIN found.tasks : found.tasks[i] = "completed"
        /\ (~Flies(restored.proposal) => didNot \cap Reported(restored.proposal, reports) = {})
              => Settled(found, reports)
    BY <2>3, <2>5, <2>7, ReconciledSettles
  <2> HIDE DEF found
  <2>10. Settled(found, reports) BY <2>7, <2>9
  <2>11. AtRest(found, reports) BY <2>8, <2>10, AtRestOnceSettled
  <2>12. ReplayInv' BY <1>4, <2>6, <2>8, <2>10, <2>11 DEF Begun
  <2>13. \A i \in DOMAIN found.tasks : found.tasks[i] = "completed" =>
            \/ /\ journal # NoRecord /\ journal.proposal = found.proposal
               /\ i \in DOMAIN journal.tasks /\ journal.tasks[i] = "completed"
            \/ <<found.proposal.digest, i>> \in reports
    BY <1>6, <2>3, <2>4, <2>7, <2>8, <2>9
  <2>14. found.state = "complete" =>
            \/ journal.proposal = found.proposal /\ journal.state = "complete"
            \/ \A i \in DOMAIN found.tasks : found.tasks[i] = "completed"
    BY <2>3, <2>4, <2>8, <2>9
  <2> QED BY <1>6, <2>6, <2>12, <2>13, <2>14
<1> QED BY <1>5, <1>6
\* The invariant is inductive.
LEMMA ReplayNext ==
    /\ ApprovedInv /\ SteerInv /\ LeadInv /\ ReplayInv /\ [Next]_vars
    /\ ApprovedInv' /\ SteerInv' /\ LeadInv'
    => ReplayInv'
<1> SUFFICES ASSUME ApprovedInv, SteerInv, LeadInv, ReplayInv, [Next]_vars,
                    ApprovedInv', SteerInv', LeadInv'
             PROVE  ReplayInv'
  OBVIOUS
<1>1. CASE TimePasses \/ UNCHANGED vars
  BY <1>1 DEF TimePasses, vars, ReplayInv, HostTied, orders
<1> QED BY <1>1, IntentTies, HostTies, FlightTies, OperationTies, CrashTies DEF Next

\* A lane that has nothing to fly yet.
LEMMA ReplayInit == Init => ApprovedInv /\ SteerInv /\ LeadInv /\ ReplayInv
<1> SUFFICES ASSUME Init PROVE ApprovedInv /\ SteerInv /\ LeadInv /\ ReplayInv OBVIOUS
<1>1. ApprovedInv /\ SteerInv /\ LeadInv BY LeadInit
<1>2. InOrder(NewLane, {}) /\ AtRest(NewLane, {}) /\ Accounted(NewLane, 0, {})
  BY DEF NewLane, InOrder, AtRest, Accounted, Flying
<1>3. Tied(NewLane, 0, NoOrder, NoOrder, NoOrder, NoRun, {})
  BY <1>2 DEF Tied, FreshOrder, FreshRun, Apart, Quiet
<1>4. Kept(NewLane, NoOrder, NoRun, NoRecord, {}) BY DEF Kept, RunRecorded
<1> QED BY <1>1, <1>3, <1>4 DEF Init, ReplayInv, HostTied

\* Between two operations only the beginning of the next makes one active.
LEMMA OnlyBegins ==
    ASSUME SteerInv, LeadInv, Next, ~OperationBegins, Between, run' # NoRun
    PROVE  run'.active = 0
<1> USE DEF RunOnly, Goes
<1>1. run # NoRun /\ ~Flies(run.plan) /\ run.active = 0 /\ RunFields \subseteq DOMAIN run
  BY DEF SteerInv, TypedHost, Between, Operating, Hears
<1>2. ASSUME run' = run PROVE run'.active = 0 BY <1>1, <1>2
<1>3. ASSUME NEW o, run' = NewRunOf(o) PROVE run'.active = 0 BY <1>3 DEF NewRunOf
<1>4. ASSUME NEW o, NEW l, NEW left, NEW waiting, StartRun(o, l, left, waiting)
      PROVE  run'.active = 0
  BY <1>2, <1>3, <1>4 DEF StartRun, Spawn
<1>5. ASSUME NEW effect, NEW l, Perform(effect, l) PROVE run'.active = 0
  BY <1>2, <1>4, <1>5 DEF Perform
<1>6. CASE Intent
  BY <1>5, <1>6 DEF Intent, ProposeIntent, ApproveIntent, StartIntent, HoldIntent, ResumeIntent,
        AbortIntent, ReviseIntent, AnswerIntent, Take
<1>7. CASE Clock BY <1>5, <1>7 DEF Clock
<1>8. CASE ReadStatus \/ TimePasses \/ ReportStands
  BY <1>2, <1>8 DEF ReadStatus, TimePasses, ReportStands
<1>9. CASE ProgressTick
  <2>1. CASE ReplacedRunEnded BY <1>3, <2>1 DEF ReplacedRunEnded, Spawn
  <2>2. CASE ReplacedRunWaits BY <1>2, <1>4, <2>2 DEF ReplacedRunWaits
  <2>3. CASE OwnRunProgress
    <3>1. ASSUME NEW l, Watched(l) PROVE run'.active = 0
      <4>1. run' \in {run, [run EXCEPT !.told = TRUE]} BY <3>1 DEF Watched
      <4> QED BY <1>1, <4>1 DEF RunFields
    <3> QED BY <1>5, <2>3, <3>1 DEF OwnRunProgress
  <2> QED BY <1>1, <1>9, <2>1, <2>2, <2>3 DEF ProgressTick
<1>10. CASE RecordTurn BY <1>2, <1>4, <1>10 DEF RecordTurn
<1>11. CASE Replaced BY <1>3, <1>11 DEF Replaced, Spawn
<1>12. CASE FlightStep \/ People BY <1>1, <1>12, FlightGoesOn
<1>13. CASE Crash BY <1>13 DEF Crash
<1>14. CASE ReadEnds \/ WriteEnds BY <1>1, <1>14 DEF ReadEnds, WriteEnds, At
<1>15. CASE OperationControl
  <2> DEFINE cut == [run EXCEPT !.cancelled = @ \cup ({run.active} \ {0}), !.active = 0]
  <2>1. cut.active = 0 /\ RunFields \subseteq DOMAIN cut BY <1>1 DEF RunFields
  <2> HIDE DEF cut
  <2>2. Over(cut).active = 0 BY <2>1 DEF Over, RunFields
  <2>3. \A s : WithControls(run, s).active = run.active BY <1>1 DEF WithControls, RunFields
  <2>4. \/ run' = Over(cut)
        \/ At("ask")
        \/ run' = WithControls(run, <<Head(controls)>>)
    BY <1>15 DEF OperationControl, cut
  <2> QED BY <1>1, <2>2, <2>3, <2>4 DEF At
<1>16. CASE OperationsEnd
  <2> DEFINE whole == [run EXCEPT !.complete = TRUE]
  <2>1. whole.active = 0 /\ RunFields \subseteq DOMAIN whole BY <1>1 DEF RunFields
  <2> HIDE DEF whole
  <2>2. Over(run).active = 0 /\ Over(whole).active = 0 BY <1>1, <2>1 DEF Over, RunFields
  <2> QED BY <1>16, <2>2 DEF OperationsEnd, whole
<1> QED
  BY <1>6, <1>7, <1>8, <1>9, <1>10, <1>11, <1>12, <1>13, <1>14, <1>15, <1>16
  DEF Next, HostStep, OperationStep

\* A run begins behind the record of its lane, of its own plan but for a stale
\* start; and an operation of the lane's run begins only once the journal holds
\* how the ones before it ended (journal.rs:6).
THEOREM JournalHolds == Spec => JournalLeads
<1> DEFINE
      Ordered ==
        (Between /\ run' # NoRun /\ run'.active # 0 /\ Live(lane) /\ lane.proposal = run.plan
           => \A i \in 1 .. run'.active - 1 : journal.tasks[i] \in Ended)
      Recording ==
        (RunBegins =>
           /\ journal' = Record(lane')
           /\ ~StaleStart => journal' # NoRecord /\ journal'.proposal = run'.plan)
<1>1. SteerInv /\ LeadInv /\ LeadInv' /\ [Next]_vars => [Ordered]_vars
  <2> SUFFICES ASSUME SteerInv, LeadInv, LeadInv', Next, Between, run' # NoRun, run'.active # 0,
                      Live(lane), lane.proposal = run.plan
               PROVE  \A i \in 1 .. run'.active - 1 : journal.tasks[i] \in Ended
    OBVIOUS
  <2>1. OperationBegins BY OnlyBegins
  <2>2. UNCHANGED <<lane, journal>> /\ run'.plan = run.plan /\ ~run'.gone /\ ~Flies(run.plan)
    BY <2>1 DEF OperationBegins, Goes, RunOnly, SteerInv, TypedHost, RunFields, Between, Operating,
                Hears
  <2> QED BY <2>2 DEF LeadInv, HostLed, Led, RunLed, EndedOf
<1>2. ApprovedInv' /\ SteerInv' /\ [Begin]_vars => [Recording]_vars
  BY RecordIsOne DEF ApprovedInv, SteerInv, Begin, StaleStart
<1>3. ApprovedInv /\ SteerInv /\ LeadInv /\ [Next]_vars => ApprovedInv' /\ SteerInv' /\ LeadInv'
  BY ApprovedNext, SteerNext, LeadNext
<1>4. Init => Recorded BY DEF Init, Recorded
<1>5. [Ordered]_vars /\ [Recording]_vars => [Recording /\ Ordered]_vars OBVIOUS
<1> QED BY <1>1, <1>2, <1>3, <1>4, <1>5, LeadInit, BeginNext, PTL DEF Spec, JournalLeads

\* A restart replays nothing: no operation that left its report begins again.
THEOREM ReplayHolds == Spec => NothingIsReplayed
<1> DEFINE Anew == Between /\ run' # NoRun /\ run'.active # 0
                     => <<run.plan.digest, run'.active>> \notin reports
<1>1. SteerInv /\ LeadInv /\ ReplayInv /\ [Next]_vars => [Anew]_vars
  <2> SUFFICES ASSUME SteerInv, LeadInv, ReplayInv, Next, Between, run' # NoRun, run'.active # 0
               PROVE  <<run.plan.digest, run'.active>> \notin reports
    OBVIOUS
  <2>1. OperationBegins BY OnlyBegins
  <2>2. /\ RunFields \subseteq DOMAIN run /\ ~Flies(run.plan) /\ run.todo \subseteq Numbers(run.plan)
    BY DEF SteerInv, TypedHost, LeadInv, HostLed, RunOk, Between, Operating, Hears
  <2>3. run'.active = NextTask BY <2>1, <2>2 DEF OperationBegins, Goes, RunFields
  <2>4. NextTask \in run.todo /\ NextTask \notin Reported(run.plan, reports)
    BY <2>1, NextIsFirst
  <2>5. NextTask \in DOMAIN Operations BY <2>2, <2>4 DEF Numbers, TasksOf, Flies
  <2> QED BY <2>3, <2>4, <2>5 DEF Reported
<1>2. ApprovedInv /\ SteerInv /\ LeadInv /\ ReplayInv /\ [Next]_vars
         => ApprovedInv' /\ SteerInv' /\ LeadInv' /\ ReplayInv'
  BY ApprovedNext, SteerNext, LeadNext, ReplayNext
<1> QED BY <1>1, <1>2, ReplayInit, PTL DEF Spec, NothingIsReplayed

\* What a lane comes to call completed left its report, or its journal has it so.
Truthful ==
    ~Flies(lane'.proposal) /\ lane'.proposal # NoPlan =>
        \A i \in DOMAIN lane'.tasks : lane'.tasks[i] = "completed" =>
            \/ /\ lane'.proposal = lane.proposal /\ i \in DOMAIN lane.tasks
               /\ lane.tasks[i] = "completed"
            \/ /\ journal # NoRecord /\ journal.proposal = lane'.proposal
               /\ i \in DOMAIN journal.tasks /\ journal.tasks[i] = "completed"
            \/ Operations[i] = "write" => <<lane'.proposal.digest, i>> \in reports'
\* A lane that comes to be complete completed its tasks, or its journal has it so.
Earned ==
    lane'.state = "complete" =>
        \/ lane.state = "complete"
        \/ /\ journal # NoRecord /\ journal.proposal = lane'.proposal
           /\ journal.state = "complete"
        \/ \A i \in DOMAIN lane'.tasks : lane'.tasks[i] = "completed"

\* What progress completes is what the run finished.
LEMMA FoldCompletes ==
    ASSUME NEW l, Fine(l), NEW progress
    PROVE  LET f == Fold(l, progress)
           IN  \A i \in DOMAIN f.tasks :
                  /\ i \in DOMAIN l.tasks
                  /\ f.tasks[i] = "completed" =>
                        \/ l.tasks[i] = "completed"
                        \/ progress.plan = l.proposal /\ i \in progress.finished
<1> DEFINE f == Fold(l, progress)
           Of(i) == TaskOf(l, progress, i)
<1> USE DEF TaskOf
<1>1. f.tasks = IF progress.plan = l.proposal THEN [i \in DOMAIN l.tasks |-> Of(i)] ELSE l.tasks
  BY LaneFields DEF Fold, Fine, TypedLane
<1> HIDE DEF f
<1>2. CASE progress.plan # l.proposal BY <1>1, <1>2 DEF f
<1>3. CASE progress.plan = l.proposal
  <2>1. DOMAIN f.tasks = DOMAIN l.tasks /\ \A i \in DOMAIN l.tasks : f.tasks[i] = Of(i)
    BY <1>1, <1>3
  <2>2. ASSUME NEW i
        PROVE  Of(i) = "completed" => l.tasks[i] = "completed" \/ i \in progress.finished
    BY DEF Open
  <2> HIDE DEF Of, TaskOf
  <2> QED BY <1>3, <2>1, <2>2 DEF f
<1> QED BY <1>2, <1>3

\* Progress of a lane's own run that ended all that was left completes its tasks.
LEMMA FoldEarns ==
    ASSUME NEW l, Fine(l), l.state \in Flying, Unsuccessful(l.tasks) = {},
           NEW progress, progress.plan = l.proposal, Unended(l.tasks) \subseteq progress.finished,
           progress.cancelled = {}, progress.failed = {}
    PROVE  LET f == Fold(l, progress) IN \A i \in DOMAIN f.tasks : f.tasks[i] = "completed"
<1> DEFINE f == Fold(l, progress)
           Of(i) == TaskOf(l, progress, i)
<1> USE DEF TaskOf
<1>1. f.tasks = [i \in DOMAIN l.tasks |-> Of(i)] BY LaneFields DEF Fold, Fine, TypedLane
<1>2. l.tasks \in [Numbers(l.proposal) -> Statuses] BY DEF Fine, TypedLane, TypedRecord
<1> HIDE DEF f, Of, TaskOf
<1>3. ASSUME NEW i \in DOMAIN l.tasks PROVE Of(i) = "completed"
  <2>1. CASE l.tasks[i] \in Ended
    <3>1. l.tasks[i] = "completed" BY <2>1 DEF Unsuccessful, Ended
    <3> QED BY <3>1 DEF Of, TaskOf, Open
  <2>2. CASE l.tasks[i] \notin Ended
    <3>1. i \in progress.finished BY <2>2 DEF Unended, EndedOf
    <3>2. l.tasks[i] \in Open BY <1>2, <2>2 DEF Statuses, Open, Ended
    <3> QED BY <3>1, <3>2 DEF Of, TaskOf
  <2> QED BY <2>1, <2>2
<1> QED BY <1>1, <1>3 DEF f

\* The run of the lane, and what it finished: the lane is complete once its run
\* ended all it was given.
LEMMA OwnRunIsTruthful ==
    ASSUME ApprovedInv, SteerInv, LeadInv, ReplayInv, run # NoRun, turn = "progress",
           seen.complete => run.plan = lane.proposal, OwnRunProgress, reports' = reports
    PROVE  Truthful /\ Earned
<1>1. PICK still \in {FALSE} \cup (IF lane.state = "holdRequested" THEN {seen.hold} ELSE {}) :
        lane' = OnProgress(lane, Progress(seen, run.gone, still), Plan("home"), now).lane
  BY DEF OwnRunProgress
<1> DEFINE home == Plan("home")
           progress == Progress(seen, run.gone, still)
           f == Fold(lane, progress)
           m == OnProgress(lane, progress, home, now).lane
<1>2. /\ Fine(lane) /\ ApprovedLane(lane) /\ plans \in Nat
      /\ SeenOk(seen, run) /\ SeenTrue(seen, run, lane, journal) /\ FreshRun(run, lane, reports)
      /\ InOrder(lane, reports) /\ "restarted" \notin lane.holds /\ lane.state # "uncertain"
  BY DEF SteerInv, Restful, ApprovedInv, LeadInv, ReplayInv, HostTied, Tied, Quiet
<1>3. home \in AnyPlan BY <1>2 DEF Plan, AnyPlan
<1>4. /\ progress.plan = seen.plan /\ progress.finished = seen.finished
      /\ progress.cancelled = seen.cancelled /\ progress.failed = seen.failed
      /\ progress.complete = seen.complete
  BY DEF Progress
<1> HIDE DEF home, progress
<1>5. /\ ~Flies(m.proposal) =>
            \A i \in DOMAIN m.tasks : m.tasks[i] = "completed" =>
               /\ m.proposal = lane.proposal /\ i \in DOMAIN f.tasks
               /\ \/ f.tasks[i] = "completed"
                  \/ progress.complete /\ IsFlying(lane) /\ f.tasks[i] = "active"
      /\ m.state = "complete" =>
            \/ lane.state = "complete"
            \/ /\ progress.complete /\ IsFlying(lane) /\ DOMAIN m.tasks = DOMAIN f.tasks
               /\ \A i \in DOMAIN m.tasks : f.tasks[i] = "completed" => m.tasks[i] = "completed"
  BY <1>2, <1>3, OnProgressIsTidy
<1>6. \A i \in DOMAIN f.tasks :
         /\ i \in DOMAIN lane.tasks
         /\ f.tasks[i] = "completed" =>
               \/ lane.tasks[i] = "completed"
               \/ progress.plan = lane.proposal /\ i \in progress.finished
  BY <1>2, FoldCompletes
<1>7. ASSUME progress.complete, IsFlying(lane)
      PROVE  \A i \in DOMAIN f.tasks : f.tasks[i] = "completed"
  <2>1. run.plan = lane.proposal /\ seen.plan = lane.proposal /\ Live(lane)
    BY <1>2, <1>4, <1>7 DEF SeenOk, IsFlying
  <2>2. /\ run.todo \subseteq seen.finished /\ Unended(lane.tasks) \subseteq run.todo
        /\ progress.cancelled = {} /\ progress.failed = {}
    BY <1>2, <1>4, <1>7, <2>1 DEF SeenTrue, FreshRun
  <2>3. lane.state \in Flying BY <2>1 DEF Live, Flying
  <2>4. Unsuccessful(lane.tasks) = {} BY <1>2, <2>3 DEF InOrder
  <2> QED BY <1>2, <1>4, <2>1, <2>2, <2>3, <2>4, FoldEarns
<1>8. lane' = m BY <1>1 DEF progress, home
<1> HIDE DEF m, f
<1>9. Earned BY <1>5, <1>7, <1>8 DEF Earned
<1> SUFFICES ASSUME ~Flies(m.proposal), m.proposal # NoPlan, NEW i \in DOMAIN m.tasks,
                    m.tasks[i] = "completed", lane.tasks[i] # "completed",
                    Operations[i] = "write"
             PROVE  <<m.proposal.digest, i>> \in reports
  BY <1>5, <1>6, <1>8, <1>9 DEF Truthful
<1>10. m.proposal = lane.proposal /\ i \in DOMAIN f.tasks /\ i \in DOMAIN lane.tasks
  BY <1>5, <1>6
<1>11. CASE f.tasks[i] = "completed"
  <2>1. run.plan = lane.proposal /\ i \in seen.finished
    BY <1>2, <1>4, <1>6, <1>10, <1>11 DEF SeenOk
  <2>2. i \in Reported(run.plan, reports) BY <1>2, <1>10, <2>1 DEF SeenTrue, FreshRun
  <2> QED BY <1>10, <2>1, <2>2 DEF Reported
<1> QED BY <1>5, <1>7, <1>10, <1>11

\* The run that lost control and is over finished nothing of the lane's.
LEMMA ReplacedRunIsTruthful ==
    ASSUME ApprovedInv, SteerInv, LeadInv, ReplayInv, run # NoRun, ReplacedRunEnded
    PROVE  Truthful /\ Earned
<1>1. CASE afterHandBack.recovery BY <1>1 DEF ReplacedRunEnded, Truthful, Earned
<1>2. CASE ~afterHandBack.recovery
  <2> DEFINE progress == [Progress(seen, TRUE, FALSE) EXCEPT
                            !.plan = NoPlan, !.complete = FALSE, !.execution = "other"]
             m == OnProgress(lane, progress, NoPlan, now).lane
             f == Fold(lane, progress)
  <2>1. lane' = m BY <1>2 DEF ReplacedRunEnded
  <2>2. progress.execution = "other" /\ progress.plan = NoPlan /\ progress.complete = FALSE
    BY DEF Progress
  <2> HIDE DEF progress
  <2>3. /\ Fine(lane) /\ ApprovedLane(lane)
        /\ "restarted" \notin lane.holds /\ lane.state # "uncertain"
    BY DEF SteerInv, ApprovedInv, Restful, ReplayInv, HostTied, Tied, Quiet
  <2>6. m.state = "complete" => lane.state = "complete" BY <2>2, <2>3, OnProgressIsTidy
  <2>4. ~Flies(m.proposal) =>
           \A i \in DOMAIN m.tasks : m.tasks[i] = "completed" =>
              /\ m.proposal = lane.proposal /\ i \in DOMAIN f.tasks
              /\ \/ f.tasks[i] = "completed"
                 \/ progress.complete /\ IsFlying(lane) /\ f.tasks[i] = "active"
    BY <2>2, <2>3, OnProgressIsTidy
  <2>5. \A i \in DOMAIN f.tasks :
           /\ i \in DOMAIN lane.tasks
           /\ f.tasks[i] = "completed" =>
                 \/ lane.tasks[i] = "completed"
                 \/ progress.plan = lane.proposal /\ i \in progress.finished
    BY <2>3, FoldCompletes
  <2> HIDE DEF m, f
  <2> QED BY <2>1, <2>2, <2>4, <2>5, <2>6 DEF Truthful, Earned
<1> QED BY <1>1, <1>2

\* Calls of the lane that no progress is behind.
LEMMA CallsAreTruthful ==
    ASSUME ApprovedInv, SteerInv, LeadInv, Intent \/ Clock \/ ReplacedRunWaits
    PROVE  Truthful /\ Earned
<1>1. Fine(lane) /\ ApprovedLane(lane) /\ Steady(lane) /\ plans \in Nat
  BY DEF SteerInv, ApprovedInv, LeadInv, HostLed, Led
<1>2. ASSUME NEW r, lane' = r.lane, TidyCall(lane, r) PROVE Truthful /\ Earned
  BY <1>2 DEF TidyCall, Claims, Truthful, Earned
<1>3. Plan("home") \in AnyPlan /\ Plan("survey") \in AnyPlan BY <1>1 DEF Plan, AnyPlan
<1>4. CASE ProposeIntent BY <1>1, <1>2, <1>4, ProposeIsTidy DEF ProposeIntent, Take
<1>5. CASE ApproveIntent
  <2>1. PICK p \in Approvable(lane) : \E approval \in Approvals(p) :
                 lane' = Approve(lane, approval).lane
    BY <1>5 DEF ApproveIntent, Take
  <2>2. PICK approval \in Approvals(p) : lane' = Approve(lane, approval).lane BY <2>1
  <2>3. approval.digest = p.digest BY DEF Approvals
  <2>4. TidyCall(lane, Approve(lane, approval)) BY <1>1, <2>3, ApproveIsTidy
  <2> QED BY <1>2, <2>2, <2>4
<1>6. CASE StartIntent BY <1>1, <1>2, <1>6, StartIsTidy DEF StartIntent, CanStart, Take
<1>7. CASE HoldIntent BY <1>1, <1>2, <1>7, HoldIsTidy DEF HoldIntent, Take
<1>8. CASE ResumeIntent BY <1>1, <1>2, <1>8, ResumeIsTidy DEF ResumeIntent, Take
<1>9. CASE AbortIntent BY <1>1, <1>2, <1>9, AbortIsTidy DEF AbortIntent, Take
<1>10. CASE ReviseIntent
  <2>1. PICK within \in BOOLEAN :
          CanRevise(lane) /\ lane' = Revise(lane, Plan("survey"), within, now).lane
    BY <1>10 DEF ReviseIntent, Take
  <2> QED BY <1>1, <1>2, <1>3, <2>1, ReviseIsTidy
<1>11. CASE AnswerIntent BY <1>1, <1>2, <1>11, AnswerIsTidy DEF AnswerIntent, Take
<1>12. CASE Clock BY <1>1, <1>2, <1>3, <1>12, OnClockIsTidy DEF Clock
<1>13. CASE ReplacedRunWaits BY <1>1, <1>2, <1>3, <1>13, OnExecutionIsTidy DEF ReplacedRunWaits
<1> QED BY <1>4, <1>5, <1>6, <1>7, <1>8, <1>9, <1>10, <1>11, <1>12, <1>13 DEF Intent

\* A write that a lane comes to call completed left its report, whatever runs,
\* restarts, replaced runs and failures of the journal came between; and a lane
\* comes to be complete only with every task of its plan completed.
THEOREM OutcomesHold == Spec => OutcomesAreTrue
<1> DEFINE plan == lane'.proposal
           known == Completed(lane, plan) \cup
                       (IF journal = NoRecord THEN {} ELSE Completed(journal, plan))
           So == ~ForeignCompletion =>
                    /\ plan # NoPlan /\ ~Flies(plan) =>
                          \A i \in Completed(lane', plan) \ known :
                             Operations[i] = "write" => <<plan.digest, i>> \in reports'
                    /\ Earned
<1>1. ApprovedInv /\ SteerInv /\ LeadInv /\ ReplayInv /\ [Next]_vars => [So]_vars
  <2> SUFFICES ASSUME ApprovedInv, SteerInv, LeadInv, ReplayInv, Next,
                      ~ForeignCompletion
               PROVE  Truthful /\ Earned
    BY DEF Truthful, Completed
  <2>1. CASE lane' = lane BY <2>1 DEF Truthful, Earned
  <2>2. CASE Intent \/ Clock BY <2>2, CallsAreTruthful
  <2>3. CASE ProgressTick
    <3>1. /\ turn = "progress" /\ reports' = reports
          /\ \/ run = NoRun /\ lane' = lane
             \/ run # NoRun /\ afterHandBack # NoOrder /\ (ReplacedRunEnded \/ ReplacedRunWaits)
             \/ run # NoRun /\ afterHandBack = NoOrder /\ OwnRunProgress
      BY <2>3 DEF ProgressTick
    <3>2. afterHandBack = NoOrder /\ run # NoRun /\ seen.complete => run.plan = lane.proposal
      BY <2>3 DEF ForeignCompletion
    <3> QED BY <2>1, <3>1, <3>2, OwnRunIsTruthful, ReplacedRunIsTruthful, CallsAreTruthful
  <2>4. CASE Crash
    <3>1. reports' = reports BY <2>4 DEF Crash
    <3> QED BY <2>4, <3>1, CrashTies DEF Truthful, Earned
  <2>5. CASE ReadStatus \/ RecordTurn \/ Replaced \/ TimePasses
    BY <2>1, <2>5 DEF ReadStatus, RecordTurn, Replaced, TimePasses
  <2>6. CASE FlightStep \/ People BY <2>1, <2>6, FlightGoesOn
  <2>7. CASE OperationStep
    BY <2>1, <2>7 DEF OperationStep, OperationControl, OperationBegins, ReadEnds, ReportStands,
       WriteEnds, OperationsEnd, RunOnly, Goes
  <2> QED BY <2>2, <2>3, <2>4, <2>5, <2>6, <2>7 DEF Next, HostStep
<1>2. ApprovedInv /\ SteerInv /\ LeadInv /\ ReplayInv /\ [Next]_vars
         => ApprovedInv' /\ SteerInv' /\ LeadInv' /\ ReplayInv'
  BY ApprovedNext, SteerNext, LeadNext, ReplayNext
<1> QED BY <1>1, <1>2, ReplayInit, PTL DEF Spec, OutcomesAreTrue, Earned
=============================================================================
