# Pilotage: a TLA+ model of control, records and missions

Pilotage is a platform for controlling vehicles remotely. A session host runs
beside the vehicle, clients connect to it, and one of them at a time may send
control frames to each group of the vehicle's control scopes. The host also flies
missions of its own, keeps what must survive a restart, and a tuner drives
campaigns of trial flights. This directory holds specifications of those parts, the
TLC configurations that check them on small instances, and machine-checked proofs
about nine of them.

Contents:

1. [The system](#1-the-system): the inventory, and what makes each part correct
2. [Modules and code](#2-modules-and-code): how state and actions correspond
3. [Runs and bounds](#3-runs-and-bounds)
4. [Fairness](#4-fairness)
5. [Proofs](#5-proofs)
6. [Disagreements between code and documentation](#6-disagreements-between-code-and-documentation)
7. [What is not modelled](#7-what-is-not-modelled)
8. [Plan](#8-plan)
9. [Running it](#9-running-it)

`PROJECT.json` is the index: components, runs, a mutant of the code for every checked
property, the source lines each definition stands for, findings, hazards, theorems.

## 1. The system

The decision cores are sans-IO crates under `src/crates`: plain state machines that
take an input and the time, and return effects. Hosts, adapters and clients run them.
The rules they follow are in `src/docs/adr`, above all ADR-0006 (authority and
generations), 0008 (control frames), 0009 (time), 0010 (handover and link loss), 0025
and 0051 (mission principals) and 0028 (device authority loss).

### How the parts interact

    clients ---messages---> engine actor ---handle_client_message---> SessionEngine
       ^                       |   ^                                      |
       |                       |   +----- SessionActions, in order -------+ embeds
       +---replies, notices----+   |                                      v
                               v   | confirm_link_loss_cleared       AuthorityEngine
                          vehicle adapter
                          (step, set_link_loss_policy, apply)

    operators ---intents---> mission lane task ---RunControl---> run: a flight, which is
                                |     ^                          one more client of the
                                v     +------ its status ------- actor, or operations
                             journal (durable storage)

The engine actor is one task that owns both the session engine and the adapter. It
takes a client's message, a tick or an adapter report, calls the engine, enacts every
action of that call on the adapter or the network, then takes the next. So a call and
the enactment of its actions are one turn of the actor; messages queue up outside, and
what is concurrent is everything that happens between a client's or a device's decision
and its turn. Deadlines are data: nothing fires on its own, every call that handles a
client message or a tick judges the deadlines first.

The mission lane's task is another: it takes an intent or a tick at a time, and the run
it steers is a task of its own, told what to do through a channel of four and observed
through a status that may be older than it looks.

### The parts this project models

**Authority engine** (`crates/pilotage-authority`). State: for each scope its holder
(Unassigned, Held with an optional override class, Offered to somebody until a
deadline), its generation, its link state. Operations: eleven commands (register,
grant, request, offer, accept, the two confirmations, release, revoke, emergency
override, link change), `expire_due` and `verify_frame`. Hard: offers expire while an
accept is under way; a frame is judged by its generation alone. Correct when: no frame
passes for anyone but the holder; control passes only by consent, by override or
through nobody; each effect tells the observer exactly what happened.

**Session engine** (`crates/pilotage-session`). State: the embedded authority engine,
the client registry (principals, holders, held sets, leased members), the
holder-silence watchdog, the link-loss lifecycle (none, engaged, clear pending at a
generation), datagram sequences, the capability catalog and its command-only groups.
Operations: hello, lease, release, frames, action commands, profile activation, the
cooperative handover, disconnect, tick, catalog refresh, device authority loss,
confirmation of a clear. Hard: five maps keyed by the same pair have to move together;
a pending clear may meet any holder change; the catalog changes under held leases;
reports of the device and accepts of clients are late. Correct when: the maps agree
with the authority engine; every loss engages the link-loss policy exactly once; a
latched pair recovers by a neutral frame of its holder and by nothing else; a deadline
that has passed is final.

**Engine actor and adapter** (`hosts/session-host/src/runtime/engine_actor*`,
`adapters/reference-headless`). State: the adapter's latch, hold timer and stored
setpoint per scope, the notices sent. Operations: enact each kind of action, the tick,
the adapter's step, the reports. Hard: an action list may be enacted in part (the
adapter refuses, a frame's budget expires between two actions); a refused clear is
retried beside holder changes. Correct when: engine and adapter agree on what is
latched; an ack is told exactly when a latch was lifted; a vehicle nobody controls
comes to rest.

**The ingress path of a control frame** (`pilotage-client-session` window and commands,
`pilotage-session` freshness and frame ingress, the actor's admission budget). State:
the client's probes, control windows and lane; the host's smallest offset and issued
windows; the last sequence by generation. Operations: probe, pong, open a lane, send a
frame, judge it, apply it. Hard: two clocks without a common epoch, datagrams lost,
repeated, delayed and reordered, a sequence that wraps. Correct when: on a host that
needs control windows nothing is applied later than its bound after it was sampled;
waiting in the actor's queue counts as age; frames reach the adapter in order and once.

**Action log** (`engine_actor/action_dedup.rs`, `apply.rs`, the client's numbering, the
connection and its writer). State: the presses on their way, a result cache and a
watermark per client, a bounded outbound queue. Operations: press, send again, deliver,
answer, broadcast, drain, end and reconnect. Hard: ids wrap, results are evicted, a full
queue or an ended connection makes the actor forget the client while messages of it are
still under way. Correct when: a press is executed once, and its repeats get its answer.

**Durable storage** (`crates/pilotage-durable-storage`). State: files, temporaries,
links, the writer lease. Operations: open, compare-exchange, immutable publication,
repair, the temporary scan; every system call of them may fail, or work and say it
failed. Hard: a crash between any two system calls, an acknowledgement that is lost, a
process without the lease. Correct when: success is durable, a definite refusal never
takes effect, and what a crash leaves is whole or repairable.

**Tuning campaign** (`tools/flight-tune`). State: the journal's chain and its replay,
the attempt under way, the simulator session, the vehicle binding, the evidence.
Operations: open, train, freeze, promote, qualify, recover, reconcile, close. Hard: a
crash between any append and any adapter call; an append that moved the head and
reported an error; retries. Correct when: no run is flown twice, the chain states what
was flown, one session exists, every call returns.

**Mission core** (`crates/pilotage-mission-core`). State: the phase and its stage, the
outstanding directive, the cleanup owed, the terminal result. Operations: one tick,
with a receipt and conditions. Hard: several things come true in one tick; cleanup that
fails, is retried or never answered. Correct when: cleanup is complete and reported as
it went, completion is earned, work is in order, every mission ends.

**Operational missions** (`crates/pilotage-mission` lane, the session host's
`mission_lane`, `operations` and `automation/task`). State: the lane's record
(proposal, approval, run, successor, holds), the orders that wait (for the journal, for
a hand-back, for the run they replace), the journal, the run itself. Operations:
propose, approve, start, hold, resume, abort, revise, answer; the clock; the run's
progress; restart. Hard: a person takes the vehicle in the middle; approvals expire;
revisions wait for a checkpoint; the journal cannot be written; the host restarts in
the middle of an operation. Correct when: work goes on only under an approval for that
very plan; nothing begins before its record is kept; no operation is repeated or
invented; work never takes the place of a run that lost control before a hand-back.

### The parts it does not model yet

| part | state | operations | hard | correct when |
|---|---|---|---|---|
| session host: the rest of its transport (`runtime/{registry,network,media,coordinator}`, `engine_actor/{command,drops,mission,recorder}`) | connections, media tracks, recordings | admit, route, drop | slow consumers, reconnects | a slow client costs nobody else anything |
| the rest of the client session core | phase, stream table, a mirror of the authority, pending leases and takeovers, backoff | hello, replies, streams, reconnect, takeover | replies out of order with notices, the mirror lags the host | the client never believes longer than the host that it is in control |
| ingress admission (`pilotage-ingress`) | per source: incarnation, epoch, sequence, acquisition time, clock domain | accept or reject a sample | duplicates, reordering, restarts of the source | accepted samples are in order within an identity |
| coordination (`pilotage-coordination`) | team, delegations, handovers, revisions | decompose, delegate, renew, hand over, refly | messages between teams late or twice | each task has one executor |
| operator control runtime (`pilotage-control`, `-input`) | control mode, bindings, the last sample | map input to frames | stale input | a stale input is never sent as fresh |
| agent client, time model, wire protocol, MAVLink and MSP links, vehicle adapters, display and navigation data, trial scoring, tools and clients | | codecs, estimators, displays, tooling | mostly data: parsing, numerics, rendering | out of a model checker's reach, or external |

The hazards, each at the line where it bites and with the properties that would catch
it, are in `PROJECT.json` under `hazards`.

## 2. Modules and code

    FencedLease            what the authority engine promises
        ^ implemented by
    ScopeAuthority <- Authority <- MCAuthority, AuthorityProofs
        ^
    LeasePair <- Session <- MCSession
                    ^
                  Host <- MCHost, SessionProofs

    PersistentRegister     what compare-exchange promises
        ^ implemented by
    FileSystem <- DurableStore <- MCDurableStore, DurableStoreProofs

    Trials                 what a campaign promises of its experiments
        ^ implemented by
    Journal <- Campaign <- MCCampaign, CampaignProofs

    Ingress <- MCIngress, IngressProofs          ActionLog <- MCActionLog, ActionLogProofs
    Mission <- MCMission, MissionProofs          Lane <- LaneHost <- MCLane,
                                                     LaneInvariants <- LaneProofs

### Control

**`ScopeAuthority`** is one scope as pure operators: `Grant`, `Offer`, `Accept` and so on
map a scope's state to an `Outcome`, the next state with the one effect the handler
pushes (`engine/handlers.rs`). A handler that returns early gives `Unchanged` with a
note. `FrameAccepted` is `verify_frame`.

**`Authority`** is the engine: `scopes` is the `BTreeMap` of scopes (a partial function, so
unregistered scopes exist), `now` the host's clock, `effects` what the last call pushed,
`issued` a history of all leases ever announced. One action per command; `ExpireDue` is
the sweep. Generations are the code's `u64`, advanced by 1; the run's bound stops long
before they would wrap.

**`FencedLease`** is the abstract specification: an owner and a token per scope, which
change together. `Authority!LeaseSpec` states the refinement (owner is the effective
holder, token the generation); offers, links and override classes disappear in it.

**`LeasePair`** gathers everything the session engine keeps about one *pair* (a vehicle and
an exclusive-authority group) in a record, and the steps of its handlers on that record:
`FanOut` is `fan_out_authority` with the registry, watchdog and link-loss updates,
`ExpireOverdue` is `expire_overdue`, `AcceptFrame` the end of `frame_ingress.rs`. A
step takes and returns a *progress*: the pair and the actions emitted so far, in order.

| field of a pair | in the code |
|---|---|
| `auth` | the scope inside the embedded `AuthorityEngine` |
| `holder`, `generation`, `member` | `HolderRecord` of the registry |
| `heldBy` | the clients whose `held` set has the pair |
| `watch` | the `HeldSlot` of `HolderLiveness` |
| `loss` | `ScopeLinkLoss` of `LinkLossState` |
| `sequence` | the entry of `sequences`, by generation |

**`Session`** is the engine: one action per client message and per driver call. An action
is a whole call, with the deadlines judged first where the code does so
(`handle_client_message` and `handle_tick`), and not where it does not (device loss,
refresh, disconnect, confirmation). `acts` holds the `SessionAction`s of the last call
that concern the adapter and `reply` its lease reply.

**`Host`** composes `Session` with the actor and an adapter: `Message`, `OnTick`, `Report`
and `Time` are only taken when all actions of the last call are enacted; `Enact*` takes
the head of an action list. The adapter is the reference one with the freedom the
adapter contract gives: a policy change may be refused (an engagement latches all the
same), and `consume_admission_budget` may drop a frame. The per-scope maps of the
adapter are kept per pair, for one vehicle.

**`Ingress`** follows one client's frames through four places: the client's window and
lane (`Probe`, `ReceivePong`, `ControlFrame`, `OpenLane`), the network (a set of
datagrams that are never removed, so any of them may come late, again or never), the
session engine's checks (`OnPing`, `OnFrame` with `FloorAfter`, `Age`, `Budgets`,
`SequenceAdmits`) and the actor's queue (`Apply`). It refines the free choice that
`Session` makes between `Frame` and `Refuse`; the two are separate modules because the
ages need a finer clock than the leases.

**`ActionLog`** follows one operator's presses: the client numbers them, a stream carries
them and their repeats, the session engine refuses or passes, and the actor's log
replays, refuses or executes (`Deliver`). `SendTo` is the outbound queue; a full or closed
one takes the client from the actor's registry, with its log, while its messages go on
being handled. `given` counts the adapter's calls by press.

### Records

**`FileSystem`** is one directory of a POSIX file system: what a process sees (`dir`), the
directories a power loss may leave (`disk`: every subset of the changes since the last
directory sync), and which files' data is on the disk. **`DurableStore`** has one action
for each system call of `compare_exchange_file`, `put_immutable`, the repair of a
half-published object, the temporary scan, and the open with its writer lease; `o` is
how the call ends (`fault.rs`): acked, failed, or done with its acknowledgement lost.
Two processes meet in it: the holder of the lease, and one opener, which syncs the root
(`SyncRoot`, `writer.rs:57`) while the holder may still be at work, and only then tries the
lock (`TakeLease`, `writer.rs:58`). `opener` remembers whether the directory changed in
between with no sync of the holder's behind it.
**`PersistentRegister`** is the promise to the caller of compare-exchange.

**`Journal`** is the durable chain, represented by the campaign state its replay gives, and
an append with its three outcomes; it builds on the register's promise. **`Campaign`** has
an action for each append and each call into an adapter, of the open (and its rollback),
training, freezing, promotion, qualification, the attempt and its runs, the terminal
evidence, retries, recovery and reconciliation. **`Trials`** is the abstract
specification: one condition under trial at a time, a bounded number of executions, a
result that stands.

### Missions

**`Mission`** is the sequencing core: one action per branch of a tick, in the code's order
of precedence (deadline, phase deadline, abort, the stage's own branch).

**`Lane`** is the mission lane (`lane.rs` and `lane/`) as pure operators: each takes a lane
and returns the lane and the effect for the host. **`LaneHost`** is the host's task around
it and the runs it steers:

| in the module | in the code |
|---|---|
| `Take` and the `...Intent` actions | `LaneTask::on_intent` |
| `Clock`; `ReadStatus` then `ProgressTick`; `RecordTurn` | the parts of a tick, in their order |
| `StartRun`, `Replaced` | `LaneTask::start`: journal first, hand-back second, the end of the replaced run third |
| `unrecorded`, `afterHandBack`, `starting` | the orders that wait for one of these |
| `FlightControl` ... `Released` | `MissionTask` of a flight: controls, lease, loss of control, fencing, ticks |
| `OperationControl` ... `OperationsEnd` | `OperationRun` |
| `Crash` | the task's start from a restored lane, with what it could find out of operations in doubt |

A turn of the lane's task is split where another task may come between: between the
clock, the reading of a run's status, the reaction to it, and the record. The run takes
its controls at any time, and a status that was read (`seen`) may be old when it is used,
while whether the run is over is read at once.

The **`MC...`** modules give the instances, the **`...Proofs`** modules hold the proofs; the
invariants that `LaneProofs` proves are in **`LaneInvariants`**.

### Abstractions

Control:

- Time is a small integer. Only the order of instants matters to the code, except in
  `Ingress`, whose durations keep the relations the constants of the code have.
- Session and principal identities advance together in the code, so `nextPrincipal`
  stands for both. Identities are never reused.
- A control frame's payload is its posture: neutral or deflected. In `Session`, checks
  whose data is not modelled there (age, window, activation revision, envelope's
  session) either pass, in `Frame` and `ActionCommand`, or fail, in `Refuse`, which has the
  failing frame's only effect: the deadlines are judged.
- Sequences and ids wrap at a small number, with the code's half-range comparison.
- Broadcasts, logs, counters and message texts are left out: no state depends on them.
- `Ingress`: a lane sends at most one frame per `Period`; holder, gate, activation and
  legacy payloads are taken to pass; the completion budget is folded into the
  admission budget.
- `ActionLog`: an id is not sent again with other content; only typed reliable commands;
  what an old connection delivered is handled before the next one's messages.

Records:

- A rename is atomic with respect to a crash; reads are reliable; names of temporaries
  are a set of two; byte limits and identity checks are taken to pass. A process without
  the lease, of the same user, may write the slot only while a caller validates.
- Scores and comparisons of a campaign are nondeterministic; the quarantine classes are
  one, except for failed evidence; a refused call has no effect whatever its reason.

Missions:

- `Mission`: conditions are free booleans, a directive is its phase and cleanup index, and
  the two clocks of the code are the mission's wall clock and the phase's age.
- `Lane`: a plan is its digest and kind; an approval is a digest, an expiry and two
  recoveries, its envelope taken to cover the plan. Which lines remain after a revision
  is a matter of compilation, which is not modelled: a successor numbers its own tasks.
- `LaneHost`: the time the task reads is constant during a turn. A flight's engine is its
  list of tasks; velocity, telemetry and guidance are left out. Losses of control, failed
  writes of the journal, failed operations, fences, exits and restarts are *troubles*.

## 3. Runs and bounds

| run | instance | what it shows | distinct states |
|---|---|---|---|
| `authority` | 2 scopes, 2 principals, offers of 1 tick, generation <= 2, clock <= 2 | fencing, consent, the offer race, effects, the sweep, refinement of `FencedLease` | 84,000 |
| `session` | 2 clients, 1 group of two members (a stick whose contract changes, and a sibling with actions only), 2 ticks of silence, offers of 1, generation <= 3, clock <= 2 | registry, watchdog and link-loss lifecycle against the authority engine; frames, replies and refreshed contracts | 108,000 |
| `host` | 1 client that may come again under another principal, 1 group, an adapter that may refuse, frames that may expire, 1 tick of silence and of hold, generation <= 3, under fairness | engine and adapter agree; acks; late device reports; silent holders lose the pair, clears are retried, vehicles come to rest | 28,000 |
| `store` | 2 names, 2 temporaries, 7 files, 2 values, a holder and an opener, 2 mishaps, scans of 2 | durability and repair; refinement of `PersistentRegister` | 498,000 |
| `campaign` | 1 challenger, 1 suite, plans of 2 runs, 1 retry, 3 mishaps, under fairness | recovery; refinement of `Trials`; calls return | 810,000 |
| `ingress` | clocks 3 ticks apart, 5 datagrams, 4 frames, sequences modulo 3, 7 ticks | freshness, queueing, order | 3,234,000 |
| `action_log` | 8 presses, ids modulo 8, a log of 1, a queue of 2, 2 sessions | at most one execution, true answers | 5,903,000 |
| `mission` | 3 documents of three phases, a wall limit of 4, 1 retry | cleanup, completion, order, termination | 54,000 |
| `lane` | 2 plans of 1 line or 3 operations, 2 envelopes (one goes home at its expiry, one holds), 1 tick, 1 trouble, a channel of 1 | approvals, holds, the journal, outcomes, hand-backs | 1,417,000 |
| `lane_stale` | 1 survey that goes home at its expiry, 1 tick, 2 troubles | refutes a comment, see section 6 | |
| `lane_unstarted` | surveys only, 2 troubles | refutes a comment, see section 6 | |
| `lane_hang` | surveys only, no time, a channel of 2, under fairness | refutes a comment, see section 6 | |

### Properties

- *`authority`.* `Fenced`: a frame is judged by its generation only, yet whoever stamps
  it holds the scope. `PassesByConsent`: from one principal straight to another only by
  a living offer or an override. `NoGapAtTheDeadline`: accept and sweep come to the same
  at the deadline, so their order does not matter. `EffectsTellAll`: an observer of the
  effects knows each holder and generation. `SweepIsExact`: a sweep leaves no due offer
  behind and ends no other; no other step moves two scopes. `LeaseSpec`: the engine
  implements the fenced lease.
- *`session`.* `HoldersAreAccountedFor`: the copies agree with the authority engine, no
  lease outlives its connection, every holder of a stream is watched. `ActsAreLeased`:
  whatever is applied or cleared is the business of the lease in force; no clear crosses
  a change of holder. `RepliesAreTrue`: what a client is told of its lease is so.
  `LossesRunTheirCourse`: a passed deadline is final, a loss engages the policy exactly
  once, also when the same call leases the pair again, and only a neutral frame under
  the lease in force ends it. `ContractsAreFenced`: no lease survives a change of its
  member's descriptor.
- *`host`.* `LatchesAreKept`: between calls, engine and adapter agree on every latch, and
  nobody's command stays in force unlatched. `AnswersHitTheirLease`: a confirmation of the
  adapter and a late report of its device act on the lease they are about.
  `SilentHoldersAreReleased`, `RecoveryCompletes`, `LatchedComesToRest`: what must happen in
  the end.
- *`store`.* `SettledIsDurable`: a holder that was never told "ambiguous", and was not
  overtaken between its sync of the root and its lock, reads nothing a power loss can take
  back. `CrashesAreRepairable`: no torn object under a name, an
  acknowledged publication stands, and a file with two links is one publication that can
  be finished. `RegisterSpec`: compare-exchange is one exchange of a persistent register.
- *`campaign`.* `MemoryIsDurable`: a holder that is not poisoned remembers what a restart
  would replay. `FlownOnce`, `OneSession`. `ChainIsTheFact`: the chain states the flights
  that were flown, and after a call that succeeded the vehicle is as it states.
  `TrialsSpec`: no condition has two results or more executions than the limit.
  `CallsReturn`: the retry loop and the recovery end.
- *`ingress`.* `CommandsAreFresh`, `QueueingIsAge`, `FramesInOrder`, as in section 1.
- *`action_log`.* `OnceWhileRegistered`: while the actor knows the client, no press is
  executed twice. `AnswersAreTrue`: a repeat gets the result of that very press.
- *`mission`.* `NothingLeftBehind`, `CompletionIsEarned`, `WorkInOrder`, `MissionEnds`.
- *`lane`.* `UnderApproval`: a lane works only under an approval that binds its very plan;
  one whose approval expired is held, and so is every run that begins for it, or it goes
  home; and a run begins only for the plan approved. Two steps are excepted: a stale start
  (`StaleStart`, see section 6), and a person's revision, which may take the place of the
  way home. `HoldsAreInForce`: once a run took what it was told, it holds when its lane does;
  a restarted lane has no run before a person resumes it. `JournalLeads`: a run begins behind
  the record of its lane, and of its own plan but for a stale start; no operation begins before
  the journal has the ends of those before it. `OutcomesAreTrue`: a write the
  lane comes to call completed has left its report, and a lane, of a survey too, comes to be
  complete only with every task of its plan completed (or as its journal had it), unless it
  takes the completion of another run for its own (`ForeignCompletion`, see section 6).
  `NothingIsReplayed`: one that left its report never begins again. `HandBackComesFirst`: a run
  that awaits a hand-back is told to end for another only if that is a recovery and its taker
  let go; where another begins in its place, it flies home, or control was lost after the run
  was told to end; and a run an order waits for stays held, whoever resumes the lane.

### Why the bounds are enough

*Control.* Scopes do not influence each other except through the sweep (and the catalog
refresh), for which two suffice. Two principals make every pairing of self, holder,
recipient and stranger; with a third one the only new role is a stranger beside holder
and recipient, who is refused like the recipient of another offer. Generations are only
compared for equality and advanced by one; three cover a lease, its successor and a late
message about the first. A clear is pending at the earliest at generation 3 (a lease, its
loss, the next lease); in `session` and in `host` it meets losses only. `host` has no second
connection to contend with the first, only a second principal of it: two with liveness are
more than a run can check. What contention does to the engine is in `session`, and
`LatchesKept` and `AnswersHit` are proved for any number of connections. The handover that
crosses it leads to 4, and is covered by the theorem `ActsLeased`; so are command-only
groups and several streaming groups, by the theorems on `Session`. The clock reaches past each deadline while another one is pending.
Principals are handed out once, so two of them also allow for a client that disconnects
and comes back while the other is away. `SequenceSize = 3` leaves a half-range window of
one: in order, duplicate and old. One override class is enough for `authority`: a second
one only adds an override that is no repeat, which another principal's is already.

`ingress` keeps the relations of the code's constants: the frame period is shorter than
the staleness age and than a window, and the sequence does not turn by half within a
staleness age; probes and windows kept (2) are fewer than a behaviour makes. `action_log` lets
the id go round once, evicts from a log of one, fills a queue of two, and has a second
connection; the history covers more presses (`Remembered`) than can still be repeated.

*Records.* In `store` two mishaps give a fault, or the death of a holder in the middle of an
exchange, and a crash in its repair, with an opener that has synced before, between or
after; the theorems cover any number of them. In `campaign` a third is one more in the
repair of that. Two temporaries and a scan limit of two let a crash leave one behind, use up the
names, and reach the limit. Seven files are enough: in
every state of the run one is free to be created.
Two runs and one retry give an attempt a first, an inner and a last run and a
replacement.

*Missions.* The three documents have a chain, a phase listed before the one it depends on,
phases with and without a deadline, and phases with none, one and two cleanup actions.
In `lane`, two plans let one be revised or replaced by another, or a recovery replace a
first; the three operations have each executor once, ask, read, write; a survey has a line
and a way home, so that a checkpoint falls between; one tick separates an expired
envelope from one that is valid; one trouble is one loss of control, one failure or one
restart, at any step; a fault and a restart in one behaviour are out of this run's
reach. A channel of one fills with the
first control that is not taken; the code's holds four.

The bounds cut behaviours: calls beyond `MaxGeneration`, ticks beyond `MaxTime`, plans
beyond `MaxPlans` and so on do not happen. Deadlock is checked except in `ingress`,
`action_log`, `lane`, `lane_stale`, `lane_unstarted` and `lane_hang`, where the bounds let a behaviour
stop (no datagram, press or plan is left and time is over), and `Ingress` and `ActionLog` have no state that
waits for anything else. `PROJECT.json` names the constants' values through the
configurations.

Symmetry is used over scopes and principals (`Authority`), over clients (`Session`)
and over values and temporaries (`DurableStore`), which are model values no
definition tells apart; not in runs that check liveness, where it would be unsound.

## 4. Fairness

`Session`, `Authority`, `DurableStore`, `Ingress`, `ActionLog` and `LaneHost`'s `Spec` are checked for
safety only.

`FairHostSpec` assumes of the actor:

- `SF(Time)`, `SF(OnTick)`. `EngineActor::run` is a `tokio::select!` without `biased`, which
  polls its branches in random order, so a ticker that is ready again and again is taken,
  whatever load the command channel has. It is not weak fairness: each message disables
  the tick until its actions are enacted.
- `WF(Enact)`, `WF(AdapterStep)`: a turn of the actor goes on to its end.
- `SF(EnactClear)`: an adapter asked again and again to clear takes it some time. This
  is an assumption about the adapter; without it no retry could help.

Nothing is assumed of the clients: they may stop, leave, or send for ever.

`Campaign!FairSpec` is `WF(Step)`: a process inside a call goes on to its next step (calls
and crashes need not happen). `Mission!FairSpec` assumes that its host keeps ticking:
`WF` of the clock and of the two branches that a deadline enables. `LaneHost!FairSpec` is
`WF` of the lane's task, of the flight's and of the operations': three tokio tasks that
are polled when they can go on. People, failures and time need not act.

## 5. Proofs

Eight modules hold proofs. Each is for every value of the constants that satisfies the
named assumptions (`...Assumption`), which TLC evaluates in the runs.

| module | theorem | statement |
|---|---|---|
| `AuthorityProofs` | `TypeCorrect` | `Spec => []TypeOK` |
| | `FencingHolds` | `Spec => []Fenced` |
| | `EffectsAreComplete` | `Spec => EffectsTellAll` |
| | `ImplementsLease` | `Spec => LeaseSpec` |
| | `ConsentHolds` | `Spec => PassesByConsent` |
| | `DeadlineHasNoGap` | `Spec => []NoGapAtTheDeadline` |
| | `SweepsAreExact` | `Spec => SweepIsExact` |
| `SessionProofs` | `RegistryIsRight` | `Spec => [](RegistryAgrees /\ HoldersAreConnected)` |
| | `AccountedFor` | `NoStreamAppears => (Spec => []HoldersAreAccountedFor)` |
| | `ContractsHold` | `Spec => ContractsAreFenced` |
| | `ActsLeased` | `HolderSilence > 0 => (Spec => []ActsAreLeased)` |
| | `LossesRun` | `HolderSilence > 0 => (Spec => LossesRunTheirCourse)` |
| | `RepliesTrue` | `Spec => []RepliesAreTrue` |
| | `LatchesKept` | `HolderSilence > 0 => (HostSpec => []LatchesAreKept)` |
| | `AnswersHit` | `HolderSilence > 0 => (HostSpec => AnswersHitTheirLease)` |
| `CampaignProofs` | `MemoryHolds` | `Spec => []MemoryIsDurable` |
| | `SessionsAreSingle` | `Spec => []OneSession` |
| | `FlightsAreSingle` | `Spec => []FlownOnce` |
| | `ChainHolds` | `Spec => []ChainIsTheFact` |
| | `ChainImplementsTrials` | `Spec => TrialsSpec` |
| `DurableStoreProofs` | `RepairableHolds` | `Spec => []CrashesAreRepairable` |
| | `SettledHolds` | `Spec => []SettledIsDurable` |
| | `ImplementsRegister` | `Spec => RegisterSpec` |
| `IngressProofs` | `FreshnessHolds` | `Spec => []CommandsAreFresh` |
| | `QueueingCounts` | `Spec => []QueueingIsAge` |
| | `OrderHolds` | `Spec => FramesInOrder` |
| `ActionLogProofs` | `PressesExecuteOnce` | `Spec => OnceWhileRegistered` |
| | `AnswersHold` | `Spec => []AnswersAreTrue` |
| `MissionProofs` | `MissionHolds` | `Spec => []MissionInv` |
| | `CleanupIsComplete` | `Spec => []NothingLeftBehind` |
| | `CompletionHolds` | `Spec => []CompletionIsEarned` |
| | `OrderOfWork` | `Spec => WorkInOrder` |
| `LaneProofs` | `HandBacks` | `Spec => HandBackComesFirst` |
| | `Approved` | `Spec => UnderApproval` |
| | `HoldsHold` | `Spec => []HoldsAreInForce` |
| | `JournalHolds` | `Spec => JournalLeads` |
| | `ReplayHolds` | `Spec => NothingIsReplayed` |
| | `OutcomesHold` | `Spec => OutcomesAreTrue` |

*Authority.* Each handler's result is an *outcome* (`IsOutcome`): a well-typed state with
either a change effect, whose generation is the old one plus 1, or a note, with holder
and generation as they were. There is one lemma per handler, and `StepsAreCommands`
reduces `Next` to five cases: a command with an outcome, a registration, a refusal, the
sweep, the clock. Every theorem is proved over these five cases. A command's outcome is
also *entitled* (`Entitled`): a grant found the scope free, a commit has a living offer to
its acceptor, an expiry an offer that is due. Consent and the sweep follow from that, and
from a command moving at most one scope. `Fenced` is not inductive: it speaks of leases at
the generation in force, and a state where a lease was already announced for a *future*
generation satisfies it, until that generation comes. `LeaseInv` adds that every announced
generation is at most the scope's own.

*Session.* What a command's effect says of its scope (`Tells`) is enough to follow it through
the registry, the held sets and the watchdog (`FanAgrees`); deadlines, frames and revocations
keep a lease or end it (`Lasts`), which composes, so each handler is a chain of a few
lemmas on one pair. `RegistryInv` adds to what the theorem states that a lease is bound to a
member the catalog puts in its group, which every refresh must keep, and that principals
are older than the next one. The watchdog needs a hypothesis, `NoStreamAppears`: a refresh
revokes the groups whose members change, not a group that only grows (`catalog.rs:104`), so
a held command-only group that gains its first stream has a holder nobody watches. The
instance of `session` satisfies it. What the driver is told needs `ActsInv`: a clear that
waits belongs to the lease in force, which is for a member with a setpoint stream (so a
command-only group never has one, and a loss always takes it along), and every clear among
the actions of a call is that one, said once (so the adapter's confirmation leaves none
behind). Its hypothesis, `HolderSilence > 0`, is a choice of the configuration: with an empty
window a holder would be silent in the call that hears it.
A loss needs to know, for every handler, what became of the lease in the call (`Course`): it
goes on, ends with its policy engaged once, passes to a new holder, or there was none.
`SoundInv` is the part of the watchdog that needs no `NoStreamAppears`: whoever is watched
is the holder of a streaming group. The `session` run has one streaming group, the theorem
any number of them; the adapter's confirmation is excepted from the count of engagements,
for it comes while the driver enacts a call in which another pair may have one. Replies need
`RegistryInv` only: a call first sweeps what is due, so that from then on the registry answers
for the authority engine, and a member no catalog declares is bound to no pair.

*Host.* `HostInv` puts the adapter beside the session's invariants. While an engagement is
still to be enacted the pair is lost and the engagement is that of the loss; without one the
latch and the loss agree. Between calls this is `LatchIsKnown`; inside one, latch and loss
differ for as long as the actor works its way through the call's actions, so the property
alone is not inductive. A deflected setpoint in force on a pair that is not lost
(`Driven`) has a holder and a group with a setpoint stream: without the second part a refresh
that leaves a group command-only could revoke its holder and latch nothing, and it is the
refresh's own revocation that excludes it. Whoever was told of a recovery (`AcksOk`) had a
lease that is over, or one that lost nothing since: hence a clear that the adapter takes is
news, for the lease in force. Refusals, expired frames and the adapter's steps are among the
turns of `HostNext`.

*Campaign.* `MemoryHolds` rests on one lemma: every step keeps the journal, appends to it or
loads it (`StepsKeepTheJournal`). `SessionInv` adds to `OneSession` at which program counters
resources are held. `FlightInv` is an account of the attempt under way: what was flown is
below the chain's next trial, and the run that may be started next has not been. `ChainInv`
completes it for `ChainIsTheFact`: what each record of the pending attempt says against how
the run was flown, which records the process may have appended where it stands (`Placed`),
and what the call under way guarantees of the condition it prepares (`CallFits`). That the
settled candidate is on the vehicle is inductive once `Reconciled` says where in a call it
has been put there. For the refinement, every append is one `Event`, in which `Trials` sees a
condition begun, replaced or concluded, or nothing.

*Durable storage.* `StoreInv` says, of every system call an operation may stand at: that only
Object and one temporary may share a file, in every directory the disk may show
(`LinksFit`); that the file under construction has one name nobody else uses, and what is in
it (`WorkFits`); that Object is bound once, and durable when its publication was acknowledged
(`ObjectFits`); how far an exchange has come, so what the slot reads and whether its file is
on the disk (`SlotFits`); and where a holder in no doubt may rely on the disk's directories
agreeing with the one it sees (`SettledFits`). Beside it, `OpenerFits`: while nothing has
changed since an opener's sync (or the holder's own after it), the disk can show only what
processes see. `CrashesAreRepairable` and `SettledIsDurable`
are not inductive: a torn object under construction, or a slot whose rename is not synced, is
only harmless because of where the operation stands. For the register each system call is a
step of `PersistentRegister` or a stutter: the rename is the exchange's commit, a barrier or a
crash makes the values the disk may show fewer (`RegSettles`), the rest leaves them alone.

*Ingress.* Freshness rests on `WindowsAreLater` (a window the client holds was opened by the
host after the probe it answers, so a sample that names it is no older than the window)
and `BudgetEndsInTime` (what the actor's queue may still take ends before the bound).
Queueing needs the queue's stamp only (`QueueInv`). Order needs `LaneInOrder`, `FramesAreApart`
(two frames of a lane are a period apart for each step of their sequence) and
`LastIsKnown`; together with `StaleAge <= Period * (Wrap - Half)`, a frame young enough to
pass is less than half a turn behind, so the wrapped comparison is the true one.

*ActionLog.* `LogInv` relates the log's watermark and its cached results to the presses they
stand for; `OldIsBehind` shows that whatever may still be sent again is behind the
watermark in the wrapped order, by the assumption `MaxLag + 2 <= Half`. For the answers, a
result in the cache stands for one press, which is no further behind the newest than its
place in the cache allows (a press between two others is at most `Reach` ids away), so no two
presses that can still meet there have one id; and the history, which stands for the adapter's
memory of what it did, reaches back as far as a press that may still be delivered, by
`MaxLag + MaxStream <= Remembered`.

*Mission.* `MissionInv` is the account of what was sent, what succeeded and what is owed, in
each stage; all three properties follow from it and from the step it takes.

*Lane.* Each theorem has an invariant (`LaneInvariants`) on the lane, on the orders in flight
and on the journal, one lemma per operation of `Lane`, and one per action of `LaneHost`.
`HomeInv`: only a plan for the way home is ever admitted or ordered as a recovery, and a run
has the plan of the order it was started for. `ApprovedInv`: every plan that is current,
admitted or recorded is backed by an approval of that very digest, and a lane that works past
an approval that asks for a hold is held; since a restart loads the journal, the journal must
be backed as well. That a lane on its way home keeps to it is an action property
(`KeepsHome`), which each call of the lane but a revision has (`WayHomeNext`). `SteerInv`:
what a run was told and did not take yet leads it to hold exactly if its lane does; of a run
that an order waits for the same holds of a hold (`Held`, `HeldNext`), because its lane's
resumes are kept from it. `Recorded`: while a start awaits the end of the run it replaces, the
journal holds the lane as it is, so every run begins behind the record of its lane
(`BeginNext`); from `RecordIsOne` this is the record of its plan unless the start is stale. `LeadInv` is what the journal's lead needs of all the places a plan
may be at: every plan that was given to a run or recorded is older than one that is yet to
begin (`Used`), so the lane's plan is in one order or one run at most (`Sole`); an order
leaves out what ended (`Given`); of its own run the lane knows no end that is not one, and
the journal none that the lane does not know (`RunLed`, `JournalOk`). Hence, when a run
counts as many recorded ends as there were operations before the next, they are the ends of
those very operations (`NextIsLed`): the code compares the numbers only
(`operations/runner.rs:286`).

`ReplayInv` follows the reports of operations to wherever they could be ignored. Nothing that
left its report is among what an order (`FreshOrder`), a run that goes on (`FreshRun`) or a
lane that waits after a restart (`AtRest`) has still to do. To keep that across a restart,
the journal's record must let a reported operation be told from one that was never begun: in
a lane at work, and in its record, nothing failed or was cancelled, and every operation before
a reported or active one has ended (`InOrder`), so that at most the active one is in doubt, and for that one
the host asks (`operations/resume.rs`). The lane learns of ends from a status that was read
earlier (`SeenTrue`), from a run whose ends are newer than the record (`RunRecorded`), while up
to three orders and a run are on their way, all of different plans (`Apart`), and none when it
asks what happened (`Quiet`). Plans are not given twice (`Accounted`). For
`OutcomesAreTrue` the same invariant says of every plan, surveys included, that an order and a
run of the lane's plan leave out only what ended, and that a run is complete only when all it
was given is finished. Since nothing of a lane at work failed or was cancelled, its own run's
completion then finds every task completed (`FoldEarns`); and a restarted lane that waits for a
person has no task in doubt (`Settled`), so what it starts again is all that did not end.
The property is proved for each way in which a lane learns of an end: its own run's
progress, that of a run which it replaces, an intent or an expiry, and a restart.

`OutcomesAreTrue` was an invariant before (a write called done has left its report), which the
run of `lane` confirmed for its one trouble, and which is false with more of them: a start that
succeeds leaves an older order waiting for the journal, which later replaces the run of the
lane's plan in the middle of a write; when that older plan is over, its completion
closes the lane's tasks, the active write too, as completed. It is
the code's behaviour that `lane_unstarted` shows (section 6), not a further one, so the property
excepts that step, by name, and says of every other step where a completion comes from.

Model-checked only, as out of the prover's reach: liveness under fairness
(`SilentHoldersAreReleased`, `RecoveryCompletes`, `LatchedComesToRest`, `CallsReturn`,
`MissionEnds`), `ENABLED`, and induction over data. Every other property of a passing run is
stated by a theorem. What the three runs of section 6 refute is refuted at their bounds, which
is enough.

## 6. Disagreements between code and documentation

Three are shown by runs. `lane_hang`: `start.rs:34` says of the run a start replaces that it
"released the vehicle or is releasing it", and waits for its end. A run that is fenced
(its principal lost control for good, or one of its frames was rejected under a superseded
authority) returns early from every tick (`automation/task.rs:242`), before it would stop
and end. So the lane's task waits for ever, and takes no intent any more.

`lane_unstarted`: `lane.rs:430` says that a plan that completes ends the run. Which plan, the
lane does not ask. When the journal cannot be written, `start` keeps the order for later and
leaves the run it was to replace in place (`start.rs:14`), and the host goes on to hand that
run's status to the lane (`mission_lane.rs:345`), whose `on_progress` asks whether a plan
completed and not which one (`lane.rs:459`). The old run finishes, and the lane reports the
revision complete of which nothing was begun; the order is still started later, when the
journal can be written, on a lane that is over. This step is `ForeignCompletion` in
`LaneHost`, and the only one `OutcomesAreTrue` excepts: as the proof shows, no other step makes a lane complete
with a task that is not.

`lane_stale`: `journal.rs:6` says that the host starts no run before the journal holds it. A
start that cannot be recorded is left in `unrecorded` (`start.rs:14-19`), and a later start
that can does not clear it. In the run the approval expires, the way home is recorded and
started, and the same tick's `record` (`mission_lane.rs:195-201`) hands the old order to
`start`, which records the lane as it is, on its way home, ends that run, and flies the old
plan, under an approval that expired. `StaleStart` names the step in `LaneHost`; `UnderApproval` and
`JournalLeads` except it and no other start. Three more cases were found by the checker on
the way to these properties, and each is an exception that a property states:

- the same stale start without a failed write: a revision waits in `after_hand_back`
  (`start.rs:20-32`), control is handed back, and the approval expires at the tick before the
  lane's task sees that; the clock starts the way home and leaves the order in place, and the
  next status lets it take the place of the way home;
- `revise` sets the successor whatever is there (`successor.rs:103`): while a way home waits
  for the end of its line, a revision takes its place, and the lane then neither goes home nor
  holds, while `expiry.rs:1-5` and ADR-0052 (`docs/adr/0052-operator-issued-missions.md:72-75`)
  have it do one or the other (`~ReviseIntent` in `UnderApproval`);
- `start` awaits the end of the run it replaces (`start.rs:36-37`) and does not look again
  whether control was lost meanwhile, so work may begin after a takeover, which `start.rs:1-4`
  rules out (`starting # NoOrder` in `HandBackComesFirst`).

The others were met while the code was read for the models. No run shows them; where a
model would be violated by one, its property is worded around it as noted.

| says | does |
|---|---|
| a link is reset only for a new holder (`authority/state.rs`) | an offer's expiry resets it while the holder stays |
| an override repeated by its holder re-affirms without a new generation (`authority/command.rs`) | once the holder's own offer expired, its class is forgotten and the repeat fences its frames |
| an accept is fenced by the generation its sender believes in (`authority/command.rs`) | the session supplies its own generation (`transfer.rs:91`), so a late accept commits a later offer |
| a watchdog entry exists while a scope has a holder (`liveness.rs`) | a held command-only group that gains its first stream is not watched (`catalog.rs:104`) |
| a release never latches a group no frame could clear (`engine.rs:52`) | a held group that loses its last stream is latched as the group it was (`catalog.rs:76`) |
| retained values never drive a vehicle whose latch clears (`action.rs:141`, `link_loss.rs:14`) | when the neutral frame behind the clear expires (`apply.rs:78`), a setpoint still held is in force again |
| a retransmitted id executes once (`tests/reliable_actions.rs:1`, `action_dedup.rs:4`) | `send_to` (`engine_actor.rs:384`) forgets the log of a client whose queue is full or closed while its messages are still handled; hence "while registered" in `OnceWhileRegistered` |
| a training call ends with the settled candidate on the vehicle | one that finds nothing to evaluate reconciles nothing (`campaign.rs:80`); hence "not train" in `SettledAfterClosing` |
| a report being written is reported before the run stops (`operations.rs:12`) | the lane clones the status before it asks whether the run is over (`mission_lane.rs:319`): a run that ends in between is recorded as failed |
| every authority transition is a hold (`fencing.rs:7`) | a frame that was in flight at a takeover is rejected and fences the run for good |
| only an approver may lift an approver's hold (`steering.rs:8`) | any client's accepted hold overwrites whose hold it is (`steering.rs:144`), and a restart forgets it |

Read in the durable store, and not documented otherwise: an owner syncs the root before it
has the lock (`writer.rs:57`). If the holder before it renames in between and dies before its
own sync, the new owner reads a value that a power loss can take back, and is not told. Hence
`opener` in `DurableStore`, and the exception in `SettledIsDurable`. The journal of
`flight-tune` compares the root's objects before and after (`journal/storage/layout.rs:48-56`,
`280-288`) and refuses to open if they changed, so `Campaign` need not know of it; `lease_store.rs`
of `flight-tune-aviate`, its direct ledger and `pilotage-tuning-feedback` do not compare.

Read in the mission lane, and neither documented nor excluded: a resume while an order
waits for the journal resumes the superseded run.

## 7. What is not modelled

Section 1 lists the parts. Within the modelled ones:

- *session engine*: activation revisions, the simulation-only payloads, subscriptions,
  contents of broadcasts, the cap of 256 ordinary actions per call (no call of the
  instances comes near it);
- *session host*: telemetry, media, recorders, the coordinator's relay, encoding;
- *several vehicles*: pairs of different vehicles share no state but the client;
- *durable storage*: child directories, removal of private trees, checks of identity and
  mode;
- *tuning campaign*: the scenario runtime, evidence documents, the command line;
- *operational missions*: evidence, pictures and verdicts, steering by several clients,
  teams, past runs, compilation of plans, and the flight plan engine (which is the mission
  core's `Mission` for its sequencing);
- *numeric and rendering code, codecs, device adapters, tools*: most of the repository's
  lines. They hold no concurrent state of the kind a model checker reaches, and a model
  of them would restate arithmetic or parsing.

## 8. Plan

Done: control (`Authority`, `Session`, `Host`), its way in (`Ingress`, `ActionLog`), records
(`DurableStore`, `Campaign`), missions (`Mission`, `LaneHost`).

Next, in this order:

1. `ClientSession`: the client's phases and authority mirror, composed with `Session` over
   ordered streams and lossy datagrams, with reconnection; property: the mirror never
   claims a lease the host has ended for longer than a window.
2. Coordination: the team lane over several `Lane`s, with messages late or twice.
3. Source admission (`pilotage-ingress`) over restarts, epochs and clock domains.
4. Steering by several clients, and past runs, in `Lane`.

Proofs: of each new component, its safety.

## 9. Running it

    tlc -workers 2 -config Authority.cfg MCAuthority
    tlc -workers 2 -config Lane.cfg MCLane
    tlapm AuthorityProofs.tla

`PROJECT.json` names the module of each configuration. The longest runs (`session`, `store`,
`campaign`, `ingress`, `action_log`, `lane`) take one to three minutes each with two workers.
