--------------------------- MODULE LaneInvariants ---------------------------
(***************************************************************************)
(* The invariants of LaneHost that LaneProofs proves inductive, each a     *)
(* conjunction of the parts before it, and what the calls of a lane keep   *)
(* of them.                                                                *)
(***************************************************************************)
EXTENDS LaneHost

-----------------------------------------------------------------------------
(* On the way home.                                                        *)

\* A recovery is a plan for the way home; a successor that is one keeps to it.
HomeSuccessor(s) ==
    /\ {"plan", "admitted", "basis", "approval"} \subseteq DOMAIN s
    /\ s.basis \in Recoveries => s.plan.kind = "home" /\ s.admitted
HomeLane(l) ==
    /\ {"successor", "execution"} \subseteq DOMAIN l
    /\ l.successor = NoSuccessor \/ HomeSuccessor(l.successor)
HomeOrder(o) == o.recovery => o.plan.kind = "home"
HomeOrders == \A o \in {unrecorded, afterHandBack, starting} : o = NoOrder \/ HomeOrder(o)
HomeInv == HomeLane(lane) /\ HomeOrders

-----------------------------------------------------------------------------
(* The approvals a lane works under.                                       *)

Binds(approval, plan) == approval \in Approval /\ approval.digest = plan.digest
Flyable == {"admitted", "running", "holdRequested", "held", "uncertain"}

\* A successor is admitted by an approval of its own plan; one that is applied
\* on expiry comes of an approval that says so.
AdmittedByOwn(s) ==
    /\ {"plan", "admitted", "basis", "approval"} \subseteq DOMAIN s
    /\ s.plan.digest \in Nat /\ s.admitted \in BOOLEAN
    /\ s.admitted => Binds(s.approval, s.plan)
    /\ ~s.admitted => s.approval = NoApproval
    /\ s.admitted /\ s.basis = "expiryRecovery" => s.approval.onExpiry = "home"

\* What a lane and a record of it have in common.
Backed(r) ==
    /\ {"state", "proposal", "approval", "tasks"} \subseteq DOMAIN r
    /\ r.state \in {"proposed"} \cup Flyable => r.proposal.digest \in Nat
    /\ r.state \in Flyable => Binds(r.approval, r.proposal)
ApprovedLane(l) ==
    /\ {"holds", "successor", "expired", "execution"} \subseteq DOMAIN l
    /\ Backed(l)
    /\ l.state \in {"proposed", "admitted", "running"} => l.holds = {}
    /\ IsFlying(l) /\ l.expired /\ l.approval.onExpiry = "hold" =>
          "approvalExpired" \in l.holds
    /\ l.successor = NoSuccessor \/ AdmittedByOwn(l.successor)
ApprovedInv ==
    /\ ApprovedLane(lane)
    /\ journal = NoRecord \/ Backed(journal)
    /\ plans \in Nat

-----------------------------------------------------------------------------
(* What lanes, records and orders are.                                     *)

States == {"idle", "proposed", "admitted", "running", "holdRequested", "held",
           "uncertain", "aborted", "complete", "failed"}
Statuses == {"pending", "active", "uncertain", "completed", "cancelled", "failed"}
Numbers(plan) == DOMAIN TasksOf(plan)
Flying == {"running", "holdRequested", "held", "uncertain"}

\* What a lane and a record of it have in common.
TypedRecord(r) ==
    /\ {"state", "proposal", "approval", "tasks"} \subseteq DOMAIN r
    /\ r.state \in States
    /\ r.state # "idle" => r.proposal \in AnyPlan
    /\ \/ r.tasks \in [{} -> Statuses] /\ r.state \notin Flying
       \/ r.tasks \in [Numbers(r.proposal) -> Statuses] /\ r.proposal \in AnyPlan
TypedLane(l) ==
    /\ DOMAIN l = DOMAIN NewLane
    /\ TypedRecord(l)
    /\ l.successor = NoSuccessor \/ l.successor.plan \in AnyPlan
TypedOrder(o) == o \in [plan : AnyPlan, todo : SUBSET Nat, recovery : BOOLEAN]

\* A lane that waits after a restart is one of operations, which nobody revises.
Rests(l) ==
    "restarted" \in l.holds =>
        l.state = "held" /\ ~Flies(l.proposal) /\ l.successor = NoSuccessor
Fine(l) == TypedLane(l) /\ Rests(l)

-----------------------------------------------------------------------------
(* A run holds just if its lane does.                                      *)

Told == {"hold", "resume", "abort", "answer"}
Steer == {"hold", "resume"}
LastSteer(s, i) ==
    i \in 1 .. Len(s) /\ s[i] \in Steer /\ \A j \in 1 .. Len(s) : s[j] \in Steer => j <= i
NoSteer(s) == \A i \in 1 .. Len(s) : s[i] \notin Steer
IsTold(s) == s \in Seq(Told) /\ (NoSteer(s) \/ \E i \in Nat : LastSteer(s, i))

\* A run that is at hold, and takes all of s, holds in the end just if g.
Leads(hold, s, g) ==
    /\ NoSteer(s) => (hold <=> g)
    /\ \A i \in Nat : LastSteer(s, i) => (s[i] = "hold" <=> g)
RunFields == {"plan", "todo", "finished", "cancelled", "failed", "active", "lease", "hold",
              "paused", "stopping", "complete", "ended", "fenced", "gone", "told"}
NoOrders == unrecorded = NoOrder /\ afterHandBack = NoOrder /\ starting = NoOrder
IsOrder(o) == o = NoOrder \/ TypedOrder(o)
TypedHost ==
    /\ journal = NoRecord \/ TypedRecord(journal)
    /\ IsOrder(unrecorded) /\ IsOrder(afterHandBack) /\ IsOrder(starting)
    /\ run = NoRun \/ RunFields \subseteq DOMAIN run
    /\ IsTold(controls)

\* A lane that waits after a restart has nothing going on.
Restful == "restarted" \in lane.holds => run = NoRun /\ NoOrders

\* A run that goes on holds, once it took what it was told, just if its lane does.
Steerable == Hears /\ ~run.stopping /\ \A i \in 1 .. Len(controls) : controls[i] # "abort"
Agreement == NoOrders /\ Steerable /\ Live(lane) => Leads(run.hold, controls, Holding(lane))
SteerInv == Fine(lane) /\ TypedHost /\ Restful /\ Agreement

\* A run that goes on holds, once it took what it was told.
Held == Steerable => Leads(run.hold, controls, TRUE)

\* While a start waits the journal holds the lane as it is.
Recorded == starting # NoOrder => journal = Record(lane)

-----------------------------------------------------------------------------
(* How far a lane has come, and what leads it.                             *)

\* The states of a lane that was started, and what may hold it.
Begun == {"running", "holdRequested", "held", "uncertain", "aborted", "complete", "failed"}
Reasons == {"operator", "approvalExpired", "restarted"}

\* A lane that waits after a restart is held for it, and one that was not
\* started, or not since, has nothing to go on to.
Steady(l) ==
    /\ l.holds \subseteq Reasons
    /\ l.state \notin Begun => l.tasks = <<>>
    /\ l.successor # NoSuccessor => l.state \in Begun \ {"uncertain"}
    /\ l.restarted /\ (Live(l) \/ l.state \notin Begun) => "restarted" \in l.holds

\* The tasks that ended, of a lane or of a record.
EndedOf(tasks) == {i \in DOMAIN tasks : tasks[i] \in Ended}
Unended(tasks) == DOMAIN tasks \ EndedOf(tasks)

\* A plan is newer than every plan before it.
Dated(l, n) ==
    /\ l.state # "idle" => l.proposal.digest <= n
    /\ l.successor # NoSuccessor =>
          l.proposal.digest < l.successor.plan.digest /\ l.successor.plan.digest <= n

\* A plan that was given to a run, or recorded, is not one that is yet to begin.
Used(p, l, n) ==
    /\ p \in AnyPlan /\ p.digest <= n
    /\ l.successor # NoSuccessor => p.digest < l.successor.plan.digest
    /\ l.state \in {"proposed", "admitted"} => p.digest < l.proposal.digest

\* An order leaves out what ended.
Given(o, l, n) ==
    o # NoOrder =>
       /\ Used(o.plan, l, n) /\ o.todo \subseteq Numbers(o.plan)
       /\ o.plan = l.proposal /\ Live(l) => EndedOf(l.tasks) \cap o.todo = {}

\* A run of operations works at what is left of its order, one at a time.
RunOk(r) ==
    r # NoRun =>
       /\ r.todo \subseteq Numbers(r.plan)
       /\ ~r.gone /\ ~Flies(r.plan) =>
             /\ r.finished \subseteq r.todo /\ r.cancelled = {} /\ r.failed = {}
             /\ r.active \in {0} \cup (r.todo \ r.finished)

\* The run of the lane is recorded, and the lane knows of no end it does not;
\* of an operation that began, the record holds how the ones before it ended.
RunLed(r, l, j, n) ==
    r # NoRun =>
       /\ Used(r.plan, l, n)
       /\ r.plan = l.proposal /\ Live(l) /\ ~r.gone =>
             /\ j # NoRecord /\ j.proposal = r.plan
             /\ ~Flies(r.plan) =>
                   /\ EndedOf(l.tasks) \subseteq (Numbers(r.plan) \ r.todo) \cup r.finished
                   /\ 1 .. r.active - 1 \subseteq EndedOf(j.tasks)

\* The record holds no end the lane does not know of.
JournalOk(j, l, n) ==
    j # NoRecord =>
       /\ Used(j.proposal, l, n) /\ j.state \in Begun
       /\ j.proposal = l.proposal => EndedOf(j.tasks) \subseteq EndedOf(l.tasks)

\* The plan of the lane is at one place at most: u, a and s are the orders.
Sole(l, u, a, s, r) ==
    LET U == u # NoOrder /\ u.plan = l.proposal
        A == a # NoOrder /\ a.plan = l.proposal
        S == s # NoOrder /\ s.plan = l.proposal
        R == r # NoRun /\ r.plan = l.proposal
    IN  Live(l) => ~(U /\ A) /\ ~(U /\ S) /\ ~(U /\ R) /\ ~(A /\ S) /\ ~(A /\ R) /\ ~(S /\ R)
Led(l, n, u, a, s, r, j) ==
    /\ Steady(l) /\ Dated(l, n)
    /\ Given(u, l, n) /\ Given(a, l, n) /\ Given(s, l, n)
    /\ RunLed(r, l, j, n) /\ JournalOk(j, l, n) /\ Sole(l, u, a, s, r)

\* A start finds its record.
StartingOk(o, l, j) ==
    o # NoOrder /\ o.plan = l.proposal /\ Live(l) => j # NoRecord /\ j.proposal = l.proposal

\* A status that was read tells of the run that is there, and of no end it
\* does not know of.
SeenOk(s, r) ==
    r # NoRun =>
       /\ s.plan = r.plan
       /\ ~r.gone /\ ~Flies(r.plan) =>
             s.finished \subseteq r.finished /\ s.cancelled = {} /\ s.failed = {}
HostLed ==
    /\ Led(lane, plans, unrecorded, afterHandBack, starting, run, journal)
    /\ RunOk(run) /\ StartingOk(starting, lane, journal)
LeadInv ==
    /\ HostLed
    /\ turn = "progress" => starting = NoOrder /\ SeenOk(seen, run)

-----------------------------------------------------------------------------
(* What was reported of its operations.                                    *)

ActiveOf(tasks) == {i \in DOMAIN tasks : tasks[i] = "active"}
Unsuccessful(tasks) == {i \in DOMAIN tasks : tasks[i] \in {"cancelled", "failed"}}

\* The operations of a plan whose reports are among w.
Reported(plan, w) == {i \in DOMAIN Operations : <<plan.digest, i>> \in w}

\* Of a lane, or a record, at work nothing came to grief; and what is reported
\* or active of its operations is behind nothing that did not end.
InOrder(r, w) ==
    r.state \in Flying =>
        /\ Unsuccessful(r.tasks) = {}
        /\ ~Flies(r.proposal) =>
              \A i \in Reported(r.proposal, w) \cup ActiveOf(r.tasks) :
                 1 .. i - 1 \subseteq EndedOf(r.tasks)

\* Of a lane that waits after a restart no task is active or in doubt, and
\* nothing that was reported is left.
AtRest(l, w) ==
    "restarted" \in l.holds =>
        Left(l) \cap Reported(l.proposal, w) = {} /\ Unended(l.tasks) \subseteq Left(l)

\* Writes leave reports, of plans that were given to a run.
Accounted(l, n, w) ==
    \A x \in w : /\ x[2] \in DOMAIN Operations /\ Operations[x[2]] = "write"
                 /\ Used([digest |-> x[1], kind |-> "operations"], l, n)

\* An order leaves out what was reported, and nothing else.
FreshOrder(o, l, w) ==
    o # NoOrder =>
        /\ ~Flies(o.plan) => o.todo \cap Reported(o.plan, w) = {}
        /\ o.plan = l.proposal /\ Live(l) => Unended(l.tasks) \subseteq o.todo

\* Nothing that a run is yet to begin was reported, and every write it ended was;
\* it is complete only with all it was given, which is all that is left.
FreshRun(r, l, w) ==
    r # NoRun =>
        /\ ~Flies(r.plan) =>
              /\ ~r.gone => (r.todo \ (r.finished \cup {r.active})) \cap Reported(r.plan, w) = {}
              /\ \A i \in r.finished : Operations[i] = "write" => i \in Reported(r.plan, w)
        /\ Flies(r.plan) => r.cancelled = {} /\ r.failed = {}
        /\ r.plan = l.proposal /\ Live(l) => Unended(l.tasks) \subseteq r.todo
        /\ r.complete => /\ r.active = 0 /\ r.todo \subseteq r.finished
                         /\ r.cancelled = {} /\ r.failed = {}
                         /\ Flies(r.plan) \/ r.gone

\* No plan is at two places.
Apart(u, a, s, r) ==
    LET U == u # NoOrder
        A == a # NoOrder
        S == s # NoOrder
        R == r # NoRun
    IN  /\ U /\ A => u.plan # a.plan
        /\ U /\ S => u.plan # s.plan
        /\ U /\ R => u.plan # r.plan
        /\ A /\ S => a.plan # s.plan
        /\ A /\ R => a.plan # r.plan
        /\ S /\ R => s.plan # r.plan

\* A lane that asks what happened has nothing going on.
Quiet(l, u, a, s, r) ==
    l.state = "uncertain" => r = NoRun /\ u = NoOrder /\ a = NoOrder /\ s = NoOrder
Tied(l, n, u, a, s, r, w) ==
    /\ InOrder(l, w) /\ AtRest(l, w) /\ Accounted(l, n, w)
    /\ FreshOrder(u, l, w) /\ FreshOrder(a, l, w) /\ FreshOrder(s, l, w)
    /\ FreshRun(r, l, w) /\ Apart(u, a, s, r) /\ Quiet(l, u, a, s, r)

\* A record of a run at work holds no end that the run did not come to, and
\* each that an operation in progress began behind.
RunRecorded(r, j) ==
    (/\ r # NoRun /\ ~Flies(r.plan) /\ ~r.gone
     /\ j # NoRecord /\ j.proposal = r.plan /\ j.state \in Flying)
    => /\ EndedOf(j.tasks) \subseteq (Numbers(r.plan) \ r.todo) \cup r.finished
       /\ 1 .. r.active - 1 \subseteq EndedOf(j.tasks)

\* While a start waits the journal holds the lane as it is.
Kept(l, s, r, j, w) ==
    /\ j # NoRecord => InOrder(j, w)
    /\ RunRecorded(r, j)
    /\ s # NoOrder => j = Record(l)

\* A status that was read tells of what the run finished, and is complete only
\* if that was all.
SeenTrue(s, r, l, j) ==
    r # NoRun =>
        /\ s.plan = r.plan
        /\ s.complete => /\ s.active = 0 /\ r.todo \subseteq s.finished
                         /\ s.cancelled = {} /\ s.failed = {}
        /\ Flies(r.plan) => s.cancelled = {} /\ s.failed = {}
        /\ ~Flies(r.plan) =>
              /\ s.finished \subseteq r.finished
              /\ ~r.gone =>
                    /\ s.active \in {0} \cup r.todo
                    /\ r.plan = l.proposal /\ Live(l) =>
                          1 .. s.active - 1 \subseteq EndedOf(j.tasks)
HostTied ==
    /\ Tied(lane, plans, unrecorded, afterHandBack, starting, run, reports)
    /\ Kept(lane, starting, run, journal, reports)
ReplayInv ==
    /\ HostTied
    /\ turn = "progress" => SeenTrue(seen, run, lane, journal)

-----------------------------------------------------------------------------
(* What a call of the lane, l, keeps of them with its reply r.             *)

\* A way home stays one.
HomeReply(r) ==
    /\ HomeLane(r.lane)
    /\ r.effect.do = "start" => HomeOrder(r.effect.order)

\* What a call tells the run of its lane: whatever it does not tell, the lane
\* did not change.
Effects == {"none", "answer", "hold", "resume", "abort", "start"}
Steers(l, r) ==
    /\ r.effect.do \in Effects
    /\ r.effect.do = "start" => TypedOrder(r.effect.order)
    /\ r.effect.do \in {"none", "answer"} /\ Live(r.lane) =>
          Live(l) /\ (Holding(r.lane) <=> Holding(l))
    /\ r.effect.do = "hold" => Holding(r.lane)
    /\ r.effect.do = "resume" => ~Holding(r.lane)
    /\ r.effect.do = "abort" => ~Live(r.lane)
    /\ "restarted" \in r.lane.holds =>
          "restarted" \in l.holds /\ r.effect.do \in {"none", "answer"}
Steered(l, r) == Fine(r.lane) /\ Steers(l, r)

\* The same plan, of which no more ended than was done, and after it what was
\* to come after it or a plan that is fresh.
Onward(l, m, done, fresh) ==
    /\ m.proposal = l.proposal
    /\ m.state \in Begun <=> l.state \in Begun
    /\ m.state = "idle" <=> l.state = "idle"
    /\ Live(m) => Live(l)
    /\ EndedOf(l.tasks) \subseteq EndedOf(m.tasks)
    /\ Live(m) => EndedOf(m.tasks) \subseteq EndedOf(l.tasks) \cup done
    /\ m.successor # NoSuccessor =>
          \/ m.successor.plan \in fresh
          \/ l.successor # NoSuccessor /\ m.successor.plan = l.successor.plan

\* An order for what did not end of the plan of the lane.
Orders(r) ==
    /\ r.effect.do = "start" /\ r.effect.order.plan = r.lane.proposal
    /\ r.effect.order.todo \subseteq Numbers(r.lane.proposal)
    /\ EndedOf(r.lane.tasks) \cap r.effect.order.todo = {}
    /\ r.lane.state \in Begun /\ r.lane.successor = NoSuccessor

\* A lane starts, or starts again after a restart.
Begins(l, r) ==
    /\ Orders(r)
    /\ r.lane.proposal = l.proposal /\ l.state # "idle"
    /\ l.state = "admitted" \/ "restarted" \in l.holds
    /\ EndedOf(l.tasks) \subseteq EndedOf(r.lane.tasks)

\* A successor takes the place of the plan, or a fresh plan does.
TakesOver(l, r, fresh) ==
    /\ Orders(r)
    /\ l.state \in Begun
    /\ \/ r.lane.proposal \in fresh
       \/ l.successor # NoSuccessor /\ r.lane.proposal = l.successor.plan

\* It comes no less far, or another plan begins.
Advances(l, r, done, fresh) ==
    /\ Steady(r.lane)
    /\ \/ r.effect.do # "start" /\ Onward(l, r.lane, done, fresh)
       \/ Begins(l, r)
       \/ TakesOver(l, r, fresh)

\* What a call leaves of a lane at work: its tasks, or what begins anew.
Tidy(l, r) ==
    LET m == r.lane
    IN  /\ r.effect.do # "start" /\ m.state \in Flying =>
              /\ l.state \in Flying /\ m.proposal = l.proposal
              /\ m.state = "uncertain" => l.state = "uncertain"
              /\ m.tasks = l.tasks
        /\ r.effect.do = "start" =>
              /\ m.state # "uncertain"
              /\ \/ /\ "restarted" \notin l.holds /\ m.tasks = NewRun(m.proposal)
                    /\ r.effect.order.todo = DOMAIN m.tasks
                 \/ /\ "restarted" \in l.holds /\ m.proposal = l.proposal
                    /\ m.tasks = l.tasks /\ r.effect.order.todo = Left(l)

\* No operation is called completed that was not, and no lane complete.
Claims(l, m) ==
    /\ m.state = "complete" => l.state = "complete"
    /\ ~Flies(m.proposal) =>
          \A i \in DOMAIN m.tasks : m.tasks[i] = "completed" =>
              m.proposal = l.proposal /\ i \in DOMAIN l.tasks /\ l.tasks[i] = "completed"
TidyCall(l, r) == Tidy(l, r) /\ Claims(l, r.lane)
=============================================================================
