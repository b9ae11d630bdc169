----------------------------- MODULE LeasePair -----------------------------
(***************************************************************************)
(* What the session engine of crates/pilotage-session keeps for ONE        *)
(* authority pair (a vehicle and an exclusive-authority group), and how an *)
(* effect of the embedded authority engine changes it.  The code spreads   *)
(* this state over maps keyed by the pair (the authority engine, the       *)
(* client registry, the silence watchdog, the link-loss lifecycle, the     *)
(* datagram sequences); here it is one record:                             *)
(*   auth                the scope in the AuthorityEngine                  *)
(*   holder, generation  HolderRecord of the registry                      *)
(*   heldBy              the principals whose `held` set names the pair    *)
(*   member              the concrete scope the lease was taken for        *)
(*   watch               the slot of HolderLiveness                        *)
(*   loss                ScopeLinkLoss                                     *)
(*   sequence            last accepted datagram sequence, by generation    *)
(* A handler turns a progress, the pair and the actions emitted for it so  *)
(* far, into the next one.  Broadcasts to clients, which touch no state of *)
(* the engine, are left out.                                               *)
(***************************************************************************)
EXTENDS ScopeAuthority, Sequences

CONSTANTS
    Members,       \* concrete scopes of the adapter's capabilities
    NoMember,      \* Option::None for a leased member
    SequenceSize   \* datagram sequences wrap at this size (2^32 in the code)

ASSUME NoMemberAssumption == NoMember \notin Members
ASSUME SequenceSizeAssumption == SequenceSize \in Nat /\ SequenceSize > 1

-----------------------------------------------------------------------------
(* State of one pair.                                                      *)

Watch(p, deadline) == [principal |-> p, deadline |-> deadline]
NoWatch == Watch(NoPrincipal, 0)
IsWatched(pair) == pair.watch.principal # NoPrincipal

NotLost == [phase |-> "none", generation |-> 0]
Engaged == [phase |-> "engaged", generation |-> 0]
ClearPending(g) == [phase |-> "pending", generation |-> g]

\* A frame is only accepted at a generation above 0, so generation 0 says
\* that no sequence was recorded.
Received(g, n) == [generation |-> g, last |-> n]
NoSequence == Received(0, 0)

NewPair ==
    [auth |-> NewScope, holder |-> NoPrincipal, generation |-> 0, heldBy |-> {},
     member |-> NoMember, watch |-> NoWatch, loss |-> NotLost,
     sequence |-> NoSequence]

-----------------------------------------------------------------------------
(* The SessionActions the driver enacts on the adapter.                    *)

Invalidate == [kind |-> "invalidate"]
Engage(g) == [kind |-> "engage", generation |-> g]
Clear(g, retry) == [kind |-> "clear", generation |-> g, retry |-> retry]
ApplyFrame(p, m, g, posture) ==
    [kind |-> "apply", principal |-> p, member |-> m, generation |-> g,
     posture |-> posture]

Progress(pair, acts) == [pair |-> pair, acts |-> acts]
Begin(pair) == Progress(pair, <<>>)
Emitting(r, act) == [r EXCEPT !.acts = Append(@, act)]

-----------------------------------------------------------------------------
(* fan_out_authority: the registry, the watchdog and the link-loss         *)
(* lifecycle follow one authority effect.                                  *)

RecordHold(pair, e) ==
    [pair EXCEPT !.holder = e.new, !.generation = e.generation,
                 !.heldBy = {e.new}, !.member = NoMember]

\* Mutant: the registry keeps the generation of the lease that ended.
ClearPairOldGeneration(pair, e) ==
    [pair EXCEPT !.holder = NoPrincipal, !.heldBy = {}, !.member = NoMember]

ClearPair(pair, e) ==
    [pair EXCEPT !.holder = NoPrincipal, !.generation = e.generation,
                 !.heldBy = {}, !.member = NoMember]

\* A holder change sends a pending clear back to Engaged.
InvalidatePending(loss) == IF loss.phase = "pending" THEN Engaged ELSE loss

\* The effect installs a holder: its silence deadline starts, and an engaged
\* policy stays engaged.  A command-only group is not watched.
Installed(pair, e, deadline, commandOnly) ==
    [RecordHold(pair, e) EXCEPT
        !.loss = InvalidatePending(@),
        !.watch = IF commandOnly THEN @ ELSE Watch(e.new, deadline)]

\* The effect takes the scope from its holder: nobody is watched, and unless
\* the group is command-only its policy engages.
Vacated(pair, e, commandOnly) ==
    [ClearPair(pair, e) EXCEPT
        !.watch = NoWatch,
        !.loss = IF commandOnly THEN @ ELSE Engaged]

LossActs(e, commandOnly) ==
    IF commandOnly THEN <<Invalidate>> ELSE <<Invalidate, Engage(e.generation)>>

FanOut(r, outcome, deadline, commandOnly) ==
    LET e == outcome.effect
        pair == [r.pair EXCEPT !.auth = outcome.state]
    IN  CASE e.kind = "granted" ->
               Progress(Installed(pair, e, deadline, commandOnly), r.acts)
          [] e.kind \in {"committed", "override"} ->
               Progress(Installed(pair, e, deadline, commandOnly),
                        Append(r.acts, Invalidate))
          [] e.kind \in {"revoked", "linkLost"} /\ e.old # NoPrincipal ->
               Progress(Vacated(pair, e, commandOnly),
                        r.acts \o LossActs(e, commandOnly))
          \* Revoking a scope nobody holds fences it and engages nothing.
          [] e.kind = "revoked" /\ e.old = NoPrincipal ->
               Progress(ClearPair(pair, e), Append(r.acts, Invalidate))
          [] OTHER -> Progress(pair, r.acts)

-----------------------------------------------------------------------------
(* expire_overdue: due offers go back to their offerers, then a holder     *)
(* whose silence deadline has passed is reported link-lost.                *)

ExpiredOffer(r, now) ==
    IF OfferIsDue(r.pair.auth, now)
    THEN [r EXCEPT !.pair.auth = ExpireOffer(@)]
    ELSE r

IsSilent(pair, now) == IsWatched(pair) /\ pair.watch.deadline <= now

\* Mutant: the watchdog only reports that the link got worse.
ExpiredHolderDegraded(r, k, now, commandOnly) ==
    IF IsSilent(r.pair, now)
    THEN LET p == r.pair.watch.principal
             unwatched == [r EXCEPT !.pair.watch = NoWatch]
         IN  FanOut(unwatched, HolderLinkChanged(r.pair.auth, k, p, "degraded"), now,
                    commandOnly)
    ELSE r

ExpiredHolder(r, k, now, commandOnly) ==
    IF IsSilent(r.pair, now)
    THEN LET p == r.pair.watch.principal
             unwatched == [r EXCEPT !.pair.watch = NoWatch]
         IN  FanOut(unwatched, HolderLinkChanged(r.pair.auth, k, p, "lost"), now,
                    commandOnly)
    ELSE r

ExpireOverdue(pair, k, now, commandOnly) ==
    ExpiredHolder(ExpiredOffer(Begin(pair), now), k, now, commandOnly)

-----------------------------------------------------------------------------
(* Acceptance of a control frame that passed every check.                  *)

\* sequence_admits: within a generation the sequence advances by less than
\* half the range; a new generation starts over.
SequenceAdmits(pair, g, n) ==
    pair.sequence.generation = g =>
        (n - pair.sequence.last) % SequenceSize \in 1..((SequenceSize - 1) \div 2)

\* Mutant: any frame of the new holder ends the link loss.
DemonstratesAlways(pair, posture) == pair.loss.phase = "engaged"

\* Only a neutral frame demonstrates recovery, and only on a scope that
\* awaits it.
Demonstrates(pair, posture) == pair.loss.phase = "engaged" /\ posture = "neutral"

\* The deadline moves only for the recorded holder; the clear is ordered
\* before the frame, so that the adapter unlatches first.
AcceptFrame(r, p, m, g, n, posture, deadline) ==
    LET heard == [r EXCEPT !.pair.sequence = Received(g, n),
                           !.pair.watch = IF @.principal = p THEN Watch(p, deadline)
                                                             ELSE @]
        cleared == IF Demonstrates(heard.pair, posture)
                   THEN Emitting([heard EXCEPT !.pair.loss = ClearPending(g)],
                                 Clear(g, FALSE))
                   ELSE heard
    IN  Emitting(cleared, ApplyFrame(p, m, g, posture))

\* Mutant: a refused clear is not asked for again.
RetryClearNever(r) == r

\* retry_pending_clears, at the generation that asked.
RetryClear(r) ==
    IF r.pair.loss.phase = "pending"
    THEN Emitting(r, Clear(r.pair.loss.generation, TRUE))
    ELSE r

\* confirm_link_loss_cleared.
ConfirmCleared(pair, g) ==
    [pair EXCEPT !.loss = IF @ = ClearPending(g) THEN NotLost ELSE @]
=============================================================================
