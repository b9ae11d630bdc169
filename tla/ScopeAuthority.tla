--------------------------- MODULE ScopeAuthority ---------------------------
(***************************************************************************)
(* The authority state machine of ONE (vehicle, scope) pair: ScopeState    *)
(* and the command handlers of crates/pilotage-authority, as operators     *)
(* from a scope state to an outcome, a record of the next scope state and  *)
(* the effect the engine returns.  The modules Authority and Session apply *)
(* them to their own maps of scopes.                                       *)
(*                                                                         *)
(* The code returns a vector of effects; every command has exactly one     *)
(* that matters to a state, and only HolderLinkChanged(Lost) precedes it   *)
(* with an audit echo (LinkStateChanged), which is left out here.          *)
(* Generations are natural numbers: the code's u64 would take 2^64 lease   *)
(* changes to wrap.                                                        *)
(***************************************************************************)
EXTENDS Naturals

CONSTANTS
    Scopes,        \* the (vehicle, scope) pairs
    Principals,    \* the principals that can hold, offer or ask for a scope
    NoPrincipal,   \* Option::None for a principal
    Classes,       \* AuthorityClass values an emergency override can carry
    NoClass        \* Option::None for override_class

ASSUME NoPrincipalAssumption == NoPrincipal \notin Principals
ASSUME NoClassAssumption == NoClass \notin Classes

-----------------------------------------------------------------------------
(* State of one scope.                                                     *)

LinkStates == {"nominal", "degraded", "lost"}

Unassigned == [phase |-> "unassigned"]
Held(p, class) == [phase |-> "held", principal |-> p, class |-> class]
Offered(p, q, deadline) ==
    [phase |-> "offered", from |-> p, to |-> q, expires |-> deadline]

HolderState ==
    {Unassigned}
    \cup [phase : {"held"}, principal : Principals, class : Classes \cup {NoClass}]
    \cup [phase : {"offered"}, from : Principals, to : Principals, expires : Nat]

ScopeState == [generation : Nat, holder : HolderState, link : LinkStates]

NewScope == [generation |-> 0, holder |-> Unassigned, link |-> "nominal"]

\* The offerer stays the effective holder while its offer is pending.
EffectiveHolder(s) ==
    CASE s.holder.phase = "unassigned" -> NoPrincipal
      [] s.holder.phase = "held"       -> s.holder.principal
      [] s.holder.phase = "offered"    -> s.holder.from

IsHeldBy(s, p) == s.holder.phase = "held" /\ s.holder.principal = p
IsOffered(s) == s.holder.phase = "offered"
IsOverrideOf(s, p, class) == IsHeldBy(s, p) /\ s.holder.class = class

-----------------------------------------------------------------------------
(* Effects.  A Change names the effective holder before and after the      *)
(* command and the generation the scope has after it; a Note is an effect  *)
(* that reports no change of holder or generation.                         *)

ChangeKinds == {"granted", "committed", "override", "revoked", "linkLost"}
NoteKinds == {"rejected", "registered", "requested", "offered", "expired",
              "linkState", "warning", "alreadyEffective"}

Effect ==
    [kind : ChangeKinds, scope : Scopes, old : Principals \cup {NoPrincipal},
     new : Principals \cup {NoPrincipal}, generation : Nat]
    \cup [kind : NoteKinds, scope : Scopes]

Note(kind, k) == [kind |-> kind, scope |-> k]
Change(kind, k, before, after) ==
    [kind |-> kind, scope |-> k, old |-> EffectiveHolder(before),
     new |-> EffectiveHolder(after), generation |-> after.generation]

Outcome(s, e) == [state |-> s, effect |-> e]

\* No change of state: a refusal, a warning or an echo.
Unchanged(s, k, kind) == Outcome(s, Note(kind, k))

-----------------------------------------------------------------------------
(* The state changes the handlers share.                                   *)

\* Mutant: a new holder at the old generation.
InstallNoAdvance(s, k, kind, holder) ==
    LET after == [generation |-> s.generation, holder |-> holder,
                  link |-> "nominal"]
    IN  Outcome(after, Change(kind, k, s, after))

\* Mutant: the effect is built before the generation advances.
InstallStaleEffect(s, k, kind, holder) ==
    LET after == [generation |-> s.generation + 1, holder |-> holder,
                  link |-> "nominal"]
    IN  Outcome(after, [Change(kind, k, s, after) EXCEPT !.generation = s.generation])

\* Every change of holder advances the generation and resets the link.
Install(s, k, kind, holder) ==
    LET after == [generation |-> s.generation + 1, holder |-> holder,
                  link |-> "nominal"]
    IN  Outcome(after, Change(kind, k, s, after))

\* Mutant: an expired offer goes to its recipient.
ExpireOfferToRecipient(s) ==
    [s EXCEPT !.holder = Held(s.holder.to, NoClass), !.link = "nominal"]

\* ScopeState::expire_offer: the offerer keeps the scope at its generation,
\* any override class it held is forgotten and the link is reset.
ExpireOffer(s) ==
    [s EXCEPT !.holder = Held(s.holder.from, NoClass), !.link = "nominal"]

-----------------------------------------------------------------------------
(* Command handlers.                                                       *)

Grant(s, k, p) ==
    IF EffectiveHolder(s) = NoPrincipal
    THEN Install(s, k, "granted", Held(p, NoClass))
    ELSE Unchanged(s, k, "rejected")

RequestTransfer(s, k, p) ==
    Unchanged(s, k, IF EffectiveHolder(s) \in {NoPrincipal, p} THEN "rejected"
                                                               ELSE "requested")

\* Only a holder without a pending offer may offer; the recipient is not
\* validated, and the generation and link stay as they are.
Offer(s, k, p, q, now, ttl) ==
    IF IsHeldBy(s, p)
    THEN Outcome([s EXCEPT !.holder = Offered(p, q, now + ttl)], Note("offered", k))
    ELSE Unchanged(s, k, "rejected")

\* Mutant: whoever accepts, gets the scope.
MayCommitAnyone(s, p, expected) == expected = s.generation

\* Only the recipient, naming the current generation, commits an offer.
MayCommit(s, p, expected) == s.holder.to = p /\ expected = s.generation

\* An accept at or past the deadline expires the offer, whoever sent it.
Accept(s, k, p, expected, now) ==
    CASE ~ IsOffered(s) -> Unchanged(s, k, "rejected")
      [] IsOffered(s) /\ now >= s.holder.expires ->
            Outcome(ExpireOffer(s), Note("expired", k))
      [] IsOffered(s) /\ now < s.holder.expires ->
            IF MayCommit(s, p, expected)
            THEN Install(s, k, "committed", Held(p, NoClass))
            ELSE Unchanged(s, k, "rejected")

ConfirmIHave(s, k, p) ==
    Unchanged(s, k, IF EffectiveHolder(s) = p THEN "linkState" ELSE "warning")

ConfirmYouHave(s, k, p) ==
    Unchanged(s, k, IF EffectiveHolder(s) = p THEN "warning" ELSE "linkState")

\* The effective holder may release even while its offer is pending.
Release(s, k, p) ==
    IF EffectiveHolder(s) = p
    THEN Install(s, k, "revoked", Unassigned)
    ELSE Unchanged(s, k, "rejected")

\* Administrative: empties the scope and fences whatever was issued for it,
\* also when nobody holds it.
Revoke(s, k) == Install(s, k, "revoked", Unassigned)

EmergencyOverride(s, k, p, class) ==
    IF IsOverrideOf(s, p, class)
    THEN Unchanged(s, k, "alreadyEffective")
    ELSE Install(s, k, "override", Held(p, class))

\* Only the effective holder's link governs the scope, and losing it empties
\* the scope.
HolderLinkChanged(s, k, p, link) ==
    CASE EffectiveHolder(s) # p -> Unchanged(s, k, "linkState")
      [] EffectiveHolder(s) = p /\ link = "lost" ->
            Install(s, k, "linkLost", Unassigned)
      [] EffectiveHolder(s) = p /\ link # "lost" ->
            Outcome([s EXCEPT !.link = link], Note("linkState", k))

-----------------------------------------------------------------------------
(* Queries.                                                                *)

\* Mutant: an offer outlives its deadline by one instant.
OfferIsDueStrict(s, now) == IsOffered(s) /\ s.holder.expires < now

OfferIsDue(s, now) == IsOffered(s) /\ s.holder.expires <= now

\* verify_frame for a registered scope: it looks at the generation alone,
\* never at the sender.
FrameAccepted(s, generation) ==
    EffectiveHolder(s) # NoPrincipal /\ generation = s.generation
=============================================================================
