-------------------------------- MODULE Host --------------------------------
(***************************************************************************)
(* The engine actor of hosts/session-host (runtime/engine_actor.rs): one   *)
(* task that owns the session engine and the vehicle adapter.  It makes a  *)
(* call of the engine, enacts the actions of that call on the adapter in   *)
(* order, and only then takes the next command or tick.  The adapter is    *)
(* the reference one (adapters/reference-headless), with its controls and  *)
(* latch kept per pair.  When MayRefuse says so its actuation may fail:    *)
(* set_link_loss_policy is fallible, and asymmetric.  A refused engagement *)
(* latches the scope all the same (crates/pilotage-adapter-api), but moves *)
(* nothing; a refused clear leaves it latched.                             *)
(*                                                                         *)
(* latch        the policy the adapter has engaged, if any                 *)
(* hold         ticks left before an engaged policy neutralizes: a         *)
(*              HoldBrief of HoldTicks, which is Neutralize when 0         *)
(* control      the last setpoint the adapter stored                       *)
(* refused      the engagement in force was refused: nothing neutralizes   *)
(* acked        history: the LinkLossCleared notices, as <<pair, g>>       *)
(* stepDue      handle_tick was called and the adapter is yet to step      *)
(***************************************************************************)
EXTENDS Session

CONSTANTS
    HoldTicks,   \* ticks an engaged policy holds the controls
    MayRefuse,   \* whether the adapter may refuse a policy change
    MayExpire    \* whether a frame's budget may run out before delivery

ASSUME HostAssumption ==
    HoldTicks \in Nat /\ MayRefuse \in BOOLEAN /\ MayExpire \in BOOLEAN

VARIABLES latch, hold, control, refused, acked, stepDue

adapter == <<latch, hold, control>>
hostVars == <<vars, adapter, refused, acked, stepDue>>

Neutral == [posture |-> "neutral", generation |-> 0]
Stored(act) == [posture |-> act.posture, generation |-> act.generation]

HostInit ==
    /\ Init
    /\ latch = [k \in Scopes |-> FALSE]
    /\ hold = [k \in Scopes |-> 0]
    /\ control = [k \in Scopes |-> Neutral]
    /\ refused = [k \in Scopes |-> FALSE]
    /\ acked = {}
    /\ stepDue = FALSE

-----------------------------------------------------------------------------
(* Engine calls.  The actor is idle between an enacted call and the next.  *)

Idle == /\ \A k \in Registered : acts[k] = <<>>
        /\ ~ stepDue

Message ==
    /\ Idle
    /\ \E c \in Clients : ClientCall(c)
    /\ UNCHANGED <<adapter, refused, acked, stepDue>>

\* on_tick calls the engine first and steps the adapter afterwards.
OnTick ==
    /\ Idle
    /\ HandleTick
    /\ stepDue' = TRUE
    /\ UNCHANGED <<adapter, refused, acked>>

\* After the step the actor takes what the adapter reports.
Report ==
    /\ Idle
    /\ \/ \E session \in Principals, m \in Members, g \in 0..MaxGeneration :
             DeviceAuthorityLoss(session, m, g)
       \/ \E next \in Catalogs : RefreshCapabilities(next)
    /\ UNCHANGED <<adapter, refused, acked, stepDue>>

Time ==
    /\ Idle
    /\ Tick
    /\ UNCHANGED <<adapter, refused, acked, stepDue>>

-----------------------------------------------------------------------------
(* Enacting the actions of a call, the oldest first.                       *)

Enacting(k, kind) == acts[k] # <<>> /\ Head(acts[k]).kind = kind

\* The session's state but for the actions left and the pairs.
Enacted(k) ==
    /\ acts' = [acts EXCEPT ![k] = Tail(@)]
    /\ UNCHANGED <<now, catalog, clients, nextPrincipal, reply, stepDue>>

\* The reference adapter has no pending commands to invalidate.
EnactInvalidate(k) ==
    /\ Enacting(k, "invalidate")
    /\ Enacted(k)
    /\ UNCHANGED <<pairs, adapter, refused, acked>>

EnactEngage(k) ==
    /\ Enacting(k, "engage")
    /\ latch' = [latch EXCEPT ![k] = TRUE]
    /\ hold' = [hold EXCEPT ![k] = HoldTicks]
    /\ refused' = [refused EXCEPT ![k] = FALSE]
    /\ Enacted(k)
    /\ UNCHANGED <<pairs, control, acked>>

\* A refused engagement is counted, and never tried again: the scope is
\* latched, and keeps executing its last command.
RefuseEngage(k) ==
    /\ Enacting(k, "engage")
    /\ MayRefuse
    /\ latch' = [latch EXCEPT ![k] = TRUE]
    /\ refused' = [refused EXCEPT ![k] = TRUE]
    /\ Enacted(k)
    /\ UNCHANGED <<pairs, hold, control, acked>>

\* The adapter takes the clear, and the actor tells the engine; the clients
\* are told only if the engine was still waiting for this clear.
EnactClear(k) ==
    LET g == Head(acts[k]).generation
    IN  /\ Enacting(k, "clear")
        /\ latch' = [latch EXCEPT ![k] = FALSE]
        /\ hold' = [hold EXCEPT ![k] = 0]
        /\ refused' = [refused EXCEPT ![k] = FALSE]
        /\ pairs' = [pairs EXCEPT ![k] = ConfirmCleared(@, g)]
        /\ acked' = IF pairs[k].loss = ClearPending(g) THEN acked \cup {<<k, g>>} ELSE acked
        /\ Enacted(k)
        /\ UNCHANGED control

\* Mutant: a refused clear is taken for done.
RefuseClearConfirmed(k) ==
    LET g == Head(acts[k]).generation
    IN  /\ Enacting(k, "clear")
        /\ MayRefuse
        /\ pairs' = [pairs EXCEPT ![k] = ConfirmCleared(@, g)]
        /\ acked' = acked \cup {<<k, g>>}
        /\ Enacted(k)
        /\ UNCHANGED <<adapter, refused>>

\* A refused clear stays pending in the engine, which asks again at its tick.
RefuseClear(k) ==
    /\ Enacting(k, "clear")
    /\ MayRefuse
    /\ Enacted(k)
    /\ UNCHANGED <<pairs, adapter, refused, acked>>

\* The adapter's control latch.
Admits(k) == ~ latch[k]

\* A frame reaches the adapter, whose latch may refuse it; an action carries
\* no setpoint.
EnactApply(k) ==
    LET act == Head(acts[k])
    IN  /\ Enacting(k, "apply")
        /\ control' = IF Admits(k) /\ act.posture # "action"
                      THEN [control EXCEPT ![k] = Stored(act)]
                      ELSE control
        /\ Enacted(k)
        /\ UNCHANGED <<pairs, latch, hold, refused, acked>>

\* consume_admission_budget: the frame's time ran out since it was admitted.
ExpireApply(k) ==
    /\ Enacting(k, "apply")
    /\ MayExpire
    /\ Enacted(k)
    /\ UNCHANGED <<pairs, adapter, refused, acked>>

Enact ==
    \E k \in Registered :
        \/ EnactInvalidate(k)
        \/ EnactEngage(k) \/ RefuseEngage(k)
        \/ EnactClear(k) \/ RefuseClear(k)
        \/ EnactApply(k) \/ ExpireApply(k)

\* Mutant: an expired hold drives on.
NeutralizesNever(k) == FALSE

\* An engaged policy neutralizes once its hold is over, at every tick.
Neutralizes(k) == latch[k] /\ hold[k] = 0 /\ ~ refused[k]

\* ControlState::tick_link_loss for every scope, by the adapter's step.
AdapterStep ==
    /\ stepDue
    /\ \A k \in Registered : acts[k] = <<>>
    /\ control' = [k \in Scopes |-> IF Neutralizes(k) THEN Neutral ELSE control[k]]
    /\ hold' = [k \in Scopes |-> IF hold[k] > 0 THEN hold[k] - 1 ELSE 0]
    /\ stepDue' = FALSE
    /\ UNCHANGED <<vars, latch, refused, acked>>

HostNext ==
    \/ Message
    \/ OnTick
    \/ Report
    \/ Time
    \/ Enact
    \/ AdapterStep

HostSpec == HostInit /\ [][HostNext]_hostVars

\* Time passes, and an actor in the middle of a call goes on.  The select! of
\* EngineActor::run picks at random among its ready branches, so a ticker that
\* is ready again and again fires, however many messages compete with it.  An
\* adapter that is asked again and again to clear takes the clear some time.
Fairness ==
    /\ SF_hostVars(Time)
    /\ SF_hostVars(OnTick)
    /\ WF_hostVars(Enact)
    /\ WF_hostVars(AdapterStep)
    /\ \A k \in Scopes : SF_hostVars(k \in Registered /\ EnactClear(k))

FairHostSpec == HostSpec /\ Fairness

-----------------------------------------------------------------------------
(* Properties.                                                             *)

\* Between calls the engine and the adapter agree: a scope is latched exactly
\* while the engine holds it lost, whatever the adapter refused in between, so
\* no latch is forgotten and none is lifted that the engine still counts on.
LatchIsKnown ==
    \A k \in Registered :
        acts[k] = <<>> => (latch[k] = (pairs[k].loss # NotLost))

\* Nobody in control means no command gets through: a deflected setpoint
\* stays in force on an unlatched scope only while somebody holds the pair.
NobodyDrivesAlone ==
    \A k \in Registered :
        acts[k] = <<>> /\ control[k].posture = "driving" =>
            EffectiveHolder(pairs[k].auth) # NoPrincipal \/ latch[k]

\* The two together: whatever the adapter refuses between a loss, its clear and
\* the next loss, the vehicle is at any time driven by somebody or latched, and
\* the engine knows which (EngineActor::enact_link_loss).
LatchesAreKept == LatchIsKnown /\ NobodyDrivesAlone

\* The clients are told that a pair recovered when its adapter unlatches and
\* only then, once for each lease, at the generation of the lease in force.
AcksAreTrue ==
    [][\A k \in Registered :
          LET new == {a \in acked' \ acked : a[1] = k}
              lease == <<k, pairs[k].auth.generation>>
          IN  /\ new # {} => new = {lease} /\ ~ latch'[k]
              /\ latch[k] /\ ~ latch'[k] => new = {lease}]_hostVars

\* Both together: an answer of the adapter and a report of its device act on
\* the lease they are about, and on no other, however late they come.
AnswersHitTheirLease == AcksAreTrue /\ LateReportsHarmless

\* The watchdog gets its man: a holder silent past its deadline loses the
\* pair, whatever the clients send.
SilentHoldersAreReleased ==
    \A k \in Scopes, g \in 1..MaxGeneration :
        /\ k \in Registered
        /\ pairs[k].auth.generation = g
        /\ IsSilent(pairs[k], now)
        ~> pairs[k].auth.generation # g

\* Recovery is not stranded on a refused clear: a demonstrated pair does not
\* wait for its adapter for ever, it ends up clear or engages again.
RecoveryCompletes ==
    \A k \in Scopes :
        k \in Registered /\ pairs[k].loss.phase = "pending"
        ~> pairs[k].loss.phase # "pending"

\* A latched vehicle comes to rest: an engaged policy neutralizes its
\* controls, unless it is cleared first, or its actuation was refused.
LatchedComesToRest ==
    \A k \in Scopes :
        latch[k] ~> control[k].posture = "neutral" \/ ~ latch[k] \/ refused[k]
=============================================================================
