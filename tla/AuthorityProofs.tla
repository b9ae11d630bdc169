-------------------------- MODULE AuthorityProofs --------------------------
(***************************************************************************)
(* Theorems about Authority, for any scopes, principals, classes, offer    *)
(* lifetimes and bounds.                                                   *)
(*                                                                         *)
(* Every command but registration is one Apply of a handler of             *)
(* ScopeAuthority, so the argument is made once about the outcomes of the  *)
(* handlers (IsOutcome below) and once about Apply.  How control passes    *)
(* and how offers end rest on the same reduction (StepsAreCommands) and on *)
(* what entitles a command to its outcome (Entitled).                      *)
(***************************************************************************)
EXTENDS Authority, FiniteSetTheorems, TLAPS

\* What every handler's outcome for scope k in state s is: well typed, and
\* either a Note that moves neither holder nor generation, or a Change that
\* advances the generation by one and says so.
IsOutcome(s, k, o) ==
    /\ o.state \in ScopeState
    /\ o.effect \in Effect
    /\ o.effect.scope = k
    /\ \/ /\ o.effect.kind \in NoteKinds
          /\ EffectiveHolder(o.state) = EffectiveHolder(s)
          /\ o.state.generation = s.generation
       \/ /\ o.effect.kind \in ChangeKinds
          /\ o.effect.old = EffectiveHolder(s)
          /\ o.effect.new = EffectiveHolder(o.state)
          /\ o.effect.generation = o.state.generation
          /\ o.state.generation = s.generation + 1
          /\ o.effect.kind \in {"granted", "committed", "override"}
                => o.effect.new \in Principals
          /\ o.effect.kind \in {"revoked", "linkLost"}
                => o.effect.new = NoPrincipal

\* The effective holder of a well-typed scope is a principal or nobody.
LEMMA HolderType ==
    ASSUME NEW s \in ScopeState
    PROVE  /\ EffectiveHolder(s) \in Principals \cup {NoPrincipal}
           /\ s.holder.phase \in {"unassigned", "held", "offered"}
<1>1. s.holder \in HolderState
  BY DEF ScopeState
<1>2. CASE s.holder = Unassigned
  BY <1>2 DEF EffectiveHolder, Unassigned
<1>3. CASE s.holder \in [phase : {"held"}, principal : Principals,
                         class : Classes \cup {NoClass}]
  BY <1>3 DEF EffectiveHolder
<1>4. CASE s.holder \in [phase : {"offered"}, from : Principals, to : Principals,
                         expires : Nat]
  BY <1>4 DEF EffectiveHolder
<1>5. QED
  BY <1>1, <1>2, <1>3, <1>4 DEF HolderState

\* Reporting a Note with a state of the same holder and generation is an
\* outcome.
LEMMA NoteOutcome ==
    ASSUME NEW k \in Scopes, NEW s \in ScopeState, NEW kind \in NoteKinds,
           NEW after \in ScopeState,
           EffectiveHolder(after) = EffectiveHolder(s),
           after.generation = s.generation
    PROVE  IsOutcome(s, k, Outcome(after, Note(kind, k)))
<1>1. Note(kind, k) \in [kind : NoteKinds, scope : Scopes]
  BY DEF Note
<1>2. Note(kind, k).kind = kind /\ Note(kind, k).scope = k
  BY DEF Note
<1>3. QED
  BY <1>1, <1>2 DEF IsOutcome, Outcome, Effect

\* A refused or merely noted command is an outcome.
LEMMA UnchangedOutcome ==
    ASSUME NEW k \in Scopes, NEW s \in ScopeState, NEW kind \in NoteKinds
    PROVE  IsOutcome(s, k, Unchanged(s, k, kind))
BY NoteOutcome DEF Unchanged

\* Installing a holder, or emptying the scope, is an outcome.
LEMMA InstallOutcome ==
    ASSUME NEW k \in Scopes, NEW s \in ScopeState, NEW kind \in ChangeKinds,
           NEW holder,
           \/ /\ kind \in {"granted", "committed", "override"}
              /\ \E p \in Principals, class \in Classes \cup {NoClass} :
                    holder = Held(p, class)
           \/ /\ kind \in {"revoked", "linkLost"}
              /\ holder = Unassigned
    PROVE  IsOutcome(s, k, Install(s, k, kind, holder))
<1> DEFINE after == [generation |-> s.generation + 1, holder |-> holder,
                     link |-> "nominal"]
<1>1. holder \in HolderState
  BY DEF HolderState, Held, Unassigned
<1>2. after \in ScopeState
  BY <1>1 DEF ScopeState, LinkStates
<1>3. /\ kind \in {"granted", "committed", "override"} => EffectiveHolder(after) \in Principals
      /\ kind \in {"revoked", "linkLost"} => EffectiveHolder(after) = NoPrincipal
  BY DEF EffectiveHolder, Held, Unassigned
<1>4. EffectiveHolder(s) \in Principals \cup {NoPrincipal}
  BY HolderType
<1>5. EffectiveHolder(after) \in Principals \cup {NoPrincipal}
  BY <1>2, HolderType
<1>6. Change(kind, k, s, after) \in Effect
  BY <1>2, <1>4, <1>5 DEF Change, Effect, ScopeState
<1>7. Install(s, k, kind, holder) = [state |-> after, effect |-> Change(kind, k, s, after)]
  BY DEF Install, Outcome
<1>8. QED
  BY <1>2, <1>3, <1>6, <1>7 DEF IsOutcome, Change

\* A pending offer that expires leaves a well-typed scope with the same
\* holder and generation.
LEMMA ExpireOfferKeepsHolder ==
    ASSUME NEW s \in ScopeState, IsOffered(s)
    PROVE  /\ ExpireOffer(s) \in ScopeState
           /\ EffectiveHolder(ExpireOffer(s)) = EffectiveHolder(s)
           /\ ExpireOffer(s).generation = s.generation
<1>1. s.holder \in [phase : {"offered"}, from : Principals, to : Principals,
                    expires : Nat]
  BY DEF IsOffered, ScopeState, HolderState, Unassigned
<1>2. Held(s.holder.from, NoClass) \in HolderState
  BY <1>1 DEF Held, HolderState
<1>3. ExpireOffer(s) \in ScopeState
  BY <1>2 DEF ExpireOffer, ScopeState, LinkStates
<1>4. EffectiveHolder(ExpireOffer(s)) = s.holder.from
  BY DEF ExpireOffer, EffectiveHolder, Held, ScopeState
<1>5. EffectiveHolder(s) = s.holder.from
  BY DEF EffectiveHolder, IsOffered
<1>6. QED
  BY <1>3, <1>4, <1>5 DEF ExpireOffer, ScopeState

\* Making an offer keeps the offerer as the effective holder.
LEMMA OfferOutcome ==
    ASSUME NEW k \in Scopes, NEW s \in ScopeState, NEW p \in Principals,
           NEW q \in Principals, NEW t \in Nat, NEW ttl \in Nat
    PROVE  IsOutcome(s, k, Offer(s, k, p, q, t, ttl))
<1>1. CASE IsHeldBy(s, p)
  <2> DEFINE after == [s EXCEPT !.holder = Offered(p, q, t + ttl)]
  <2>1. Offered(p, q, t + ttl) \in HolderState
    BY DEF Offered, HolderState
  <2>2. after \in ScopeState /\ after.generation = s.generation
    BY <2>1 DEF ScopeState
  <2>3. EffectiveHolder(after) = p
    BY DEF EffectiveHolder, Offered, ScopeState
  <2>4. EffectiveHolder(s) = p
    BY <1>1 DEF IsHeldBy, EffectiveHolder
  <2>5. IsOutcome(s, k, Outcome(after, Note("offered", k)))
    BY <2>2, <2>3, <2>4, NoteOutcome DEF NoteKinds
  <2>6. QED
    BY <1>1, <2>5 DEF Offer
<1>2. CASE ~ IsHeldBy(s, p)
  BY <1>2, UnchangedOutcome DEF Offer, NoteKinds
<1>3. QED
  BY <1>1, <1>2

\* An accept commits for the recipient, lets the offer expire, or is refused:
\* each is an outcome.
LEMMA AcceptOutcome ==
    ASSUME NEW k \in Scopes, NEW s \in ScopeState, NEW p \in Principals,
           NEW g \in Nat, NEW t \in Nat
    PROVE  IsOutcome(s, k, Accept(s, k, p, g, t))
<1>1. CASE ~ IsOffered(s)
  BY <1>1, UnchangedOutcome DEF Accept, NoteKinds
<1>2. CASE IsOffered(s) /\ t >= s.holder.expires
  <2>1. ~ (t < s.holder.expires)
    BY <1>2 DEF IsOffered, ScopeState, HolderState, Unassigned
  <2>2. IsOutcome(s, k, Outcome(ExpireOffer(s), Note("expired", k)))
    BY <1>2, NoteOutcome, ExpireOfferKeepsHolder DEF NoteKinds
  <2>3. QED
    BY <1>2, <2>1, <2>2 DEF Accept
<1>3. CASE IsOffered(s) /\ t < s.holder.expires
  <2>1. ~ (t >= s.holder.expires)
    BY <1>3 DEF IsOffered, ScopeState, HolderState, Unassigned
  <2>2. IsOutcome(s, k, Install(s, k, "committed", Held(p, NoClass)))
    BY InstallOutcome DEF ChangeKinds
  <2>3. IsOutcome(s, k, Unchanged(s, k, "rejected"))
    BY UnchangedOutcome DEF NoteKinds
  <2>4. QED
    BY <1>3, <2>1, <2>2, <2>3 DEF Accept
<1>4. QED
  <2>1. IsOffered(s) => s.holder.expires \in Nat
    BY DEF IsOffered, ScopeState, HolderState, Unassigned
  <2>2. QED
    BY <1>1, <1>2, <1>3, <2>1

\* An emergency override installs its principal, or is refused or a repeat.
LEMMA OverrideOutcome ==
    ASSUME NEW k \in Scopes, NEW s \in ScopeState, NEW p \in Principals,
           NEW class \in Classes
    PROVE  IsOutcome(s, k, EmergencyOverride(s, k, p, class))
<1>1. IsOutcome(s, k, Unchanged(s, k, "alreadyEffective"))
  BY UnchangedOutcome DEF NoteKinds
<1>2. IsOutcome(s, k, Install(s, k, "override", Held(p, class)))
  BY InstallOutcome DEF ChangeKinds
<1>3. QED
  BY <1>1, <1>2 DEF EmergencyOverride

\* A link report marks the link, or vacates the scope when it is lost.
LEMMA LinkOutcome ==
    ASSUME NEW k \in Scopes, NEW s \in ScopeState, NEW p \in Principals,
           NEW link \in LinkStates
    PROVE  IsOutcome(s, k, HolderLinkChanged(s, k, p, link))
<1>1. CASE EffectiveHolder(s) # p
  <2>1. HolderLinkChanged(s, k, p, link) = Unchanged(s, k, "linkState")
    BY <1>1 DEF HolderLinkChanged
  <2>2. QED
    BY <2>1, UnchangedOutcome DEF NoteKinds
<1>2. CASE EffectiveHolder(s) = p /\ link = "lost"
  <2>1. HolderLinkChanged(s, k, p, link) = Install(s, k, "linkLost", Unassigned)
    BY <1>2 DEF HolderLinkChanged
  <2>2. QED
    BY <2>1, InstallOutcome DEF ChangeKinds
<1>3. CASE EffectiveHolder(s) = p /\ link # "lost"
  <2> DEFINE after == [s EXCEPT !.link = link]
  <2>1. after \in ScopeState /\ after.generation = s.generation
    BY DEF ScopeState
  <2>2. EffectiveHolder(after) = EffectiveHolder(s)
    BY DEF EffectiveHolder, ScopeState
  <2>3. IsOutcome(s, k, Outcome(after, Note("linkState", k)))
    BY <2>1, <2>2, NoteOutcome DEF NoteKinds
  <2>4. QED
    BY <1>3, <2>3 DEF HolderLinkChanged
<1>4. QED
  BY <1>1, <1>2, <1>3

\* The remaining handlers either refuse or install.
LEMMA OtherOutcomes ==
    ASSUME NEW k \in Scopes, NEW s \in ScopeState, NEW p \in Principals
    PROVE  /\ IsOutcome(s, k, Grant(s, k, p))
           /\ IsOutcome(s, k, RequestTransfer(s, k, p))
           /\ IsOutcome(s, k, ConfirmIHave(s, k, p))
           /\ IsOutcome(s, k, ConfirmYouHave(s, k, p))
           /\ IsOutcome(s, k, Release(s, k, p))
           /\ IsOutcome(s, k, Revoke(s, k))
<1>1. \A kind \in {"rejected", "requested", "linkState", "warning"} :
         IsOutcome(s, k, Unchanged(s, k, kind))
  BY UnchangedOutcome DEF NoteKinds
<1>2. IsOutcome(s, k, Install(s, k, "granted", Held(p, NoClass)))
  BY InstallOutcome DEF ChangeKinds
<1>3. IsOutcome(s, k, Install(s, k, "revoked", Unassigned))
  BY InstallOutcome DEF ChangeKinds
<1>4. QED
  BY <1>1, <1>2, <1>3
     DEF Grant, RequestTransfer, ConfirmIHave, ConfirmYouHave, Release, Revoke

-----------------------------------------------------------------------------
(* Under which conditions a handler's outcome at time t hands the scope to *)
(* somebody else, or ends an offer.                                        *)

Entitled(s, o, t) ==
    /\ o.effect.kind = "granted" => EffectiveHolder(s) = NoPrincipal
    /\ o.effect.kind = "committed" =>
          /\ IsOffered(s) /\ t < s.holder.expires
          /\ EffectiveHolder(o.state) = s.holder.to
    /\ o.effect.kind = "expired" => OfferIsDue(s, t) /\ o.state = ExpireOffer(s)

\* A note other than an expiry, a withdrawal and an override need no entitlement.
LEMMA OtherKindsEntitled ==
    ASSUME NEW s, NEW k, NEW t,
           NEW kind \in {"rejected", "requested", "offered", "linkState", "warning",
                        "alreadyEffective", "override", "revoked", "linkLost"}
    PROVE  /\ \A after : Entitled(s, Outcome(after, Note(kind, k)), t)
           /\ Entitled(s, Unchanged(s, k, kind), t)
           /\ \A holder : Entitled(s, Install(s, k, kind, holder), t)
BY DEF Entitled, Outcome, Note, Unchanged, Install, Change

\* A grant takes only a scope nobody holds.
LEMMA GrantEntitled ==
    ASSUME NEW s, NEW k, NEW p, NEW t
    PROVE  Entitled(s, Grant(s, k, p), t)
<1>1. CASE EffectiveHolder(s) = NoPrincipal
  <2>1. Grant(s, k, p) = Install(s, k, "granted", Held(p, NoClass))
    BY <1>1 DEF Grant
  <2>2. Grant(s, k, p).effect.kind = "granted"
    BY <2>1 DEF Install, Change, Outcome
  <2>3. QED
    BY <1>1, <2>2 DEF Entitled
<1>2. CASE EffectiveHolder(s) # NoPrincipal
  BY <1>2, OtherKindsEntitled DEF Grant
<1>3. QED
  BY <1>1, <1>2

\* An accept commits a living offer for its recipient, or ends one that is due.
LEMMA AcceptEntitled ==
    ASSUME NEW k \in Scopes, NEW s \in ScopeState, NEW p \in Principals,
           NEW g \in Nat, NEW t \in Nat
    PROVE  Entitled(s, Accept(s, k, p, g, t), t)
<1>1. CASE ~ IsOffered(s)
  <2>1. Accept(s, k, p, g, t) = Unchanged(s, k, "rejected")
    BY <1>1 DEF Accept
  <2>2. QED
    BY <2>1, OtherKindsEntitled
<1>2. CASE IsOffered(s)
  <2>1. s.holder.expires \in Nat
    BY <1>2 DEF IsOffered, ScopeState, HolderState, Unassigned
  <2>2. CASE t >= s.holder.expires
    <3>1. Accept(s, k, p, g, t) = Outcome(ExpireOffer(s), Note("expired", k))
      BY <1>2, <2>1, <2>2 DEF Accept
    <3>2. OfferIsDue(s, t)
      BY <1>2, <2>1, <2>2 DEF OfferIsDue
    <3>3. QED
      BY <3>1, <3>2 DEF Entitled, Outcome, Note
  <2>3. CASE t < s.holder.expires /\ MayCommit(s, p, g)
    <3>1. Accept(s, k, p, g, t) = Install(s, k, "committed", Held(p, NoClass))
      BY <1>2, <2>1, <2>3 DEF Accept
    <3>2. Accept(s, k, p, g, t).state.holder = Held(p, NoClass)
      BY <3>1 DEF Install, Outcome
    <3>3. EffectiveHolder(Accept(s, k, p, g, t).state) = p
      BY <3>2 DEF EffectiveHolder, Held
    <3>4. Accept(s, k, p, g, t).effect.kind = "committed"
      BY <3>1 DEF Install, Change, Outcome
    <3>5. QED
      BY <1>2, <2>3, <3>3, <3>4 DEF Entitled, MayCommit
  <2>4. CASE t < s.holder.expires /\ ~ MayCommit(s, p, g)
    <3>1. Accept(s, k, p, g, t) = Unchanged(s, k, "rejected")
      BY <1>2, <2>1, <2>4 DEF Accept
    <3>2. QED
      BY <3>1, OtherKindsEntitled
  <2>5. QED
    BY <2>1, <2>2, <2>3, <2>4
<1>3. QED
  BY <1>1, <1>2

\* The remaining handlers.
LEMMA OthersEntitled ==
    ASSUME NEW s, NEW k, NEW p, NEW t
    PROVE  /\ Entitled(s, RequestTransfer(s, k, p), t)
           /\ Entitled(s, ConfirmIHave(s, k, p), t)
           /\ Entitled(s, ConfirmYouHave(s, k, p), t)
           /\ Entitled(s, Release(s, k, p), t)
           /\ Entitled(s, Revoke(s, k), t)
           /\ \A q, ttl : Entitled(s, Offer(s, k, p, q, t, ttl), t)
           /\ \A class : Entitled(s, EmergencyOverride(s, k, p, class), t)
           /\ \A link : Entitled(s, HolderLinkChanged(s, k, p, link), t)
<1>1. /\ Entitled(s, RequestTransfer(s, k, p), t)
      /\ Entitled(s, ConfirmIHave(s, k, p), t)
      /\ Entitled(s, ConfirmYouHave(s, k, p), t)
  BY OtherKindsEntitled DEF RequestTransfer, ConfirmIHave, ConfirmYouHave
<1>2. Entitled(s, Release(s, k, p), t) /\ Entitled(s, Revoke(s, k), t)
  BY OtherKindsEntitled DEF Release, Revoke
<1>3. \A q, ttl : Entitled(s, Offer(s, k, p, q, t, ttl), t)
  BY OtherKindsEntitled DEF Offer
<1>4. \A class : Entitled(s, EmergencyOverride(s, k, p, class), t)
  BY OtherKindsEntitled DEF EmergencyOverride
<1>5. \A link : Entitled(s, HolderLinkChanged(s, k, p, link), t)
  <2> TAKE link
  <2>1. CASE EffectiveHolder(s) # p
    BY <2>1, OtherKindsEntitled DEF HolderLinkChanged
  <2>2. CASE EffectiveHolder(s) = p /\ link = "lost"
    BY <2>2, OtherKindsEntitled DEF HolderLinkChanged
  <2>3. CASE EffectiveHolder(s) = p /\ link # "lost"
    BY <2>3, OtherKindsEntitled DEF HolderLinkChanged
  <2>4. QED
    BY <2>1, <2>2, <2>3
<1>6. QED
  BY <1>1, <1>2, <1>3, <1>4, <1>5

-----------------------------------------------------------------------------
(* The steps of the engine: every command about a registered scope is an   *)
(* Apply of an outcome that is entitled to what it does.                   *)

Command(k, o) ==
    IsOutcome(scopes[k], k, o) /\ Entitled(scopes[k], o, now) /\ Apply(k, o)

\* Every step is a command about a registered scope, a registration, a
\* refusal, the expiry sweep or the clock.
LEMMA StepsAreCommands ==
    ASSUME TypeOK, Next
    PROVE  \/ \E k \in Scopes : \E o : Command(k, o)
           \/ \E k \in Scopes : RegisterScope(k) \/ UnknownScope(k)
           \/ ExpireDue
           \/ Tick
<1>1. \A k \in Registered : k \in Scopes /\ scopes[k] \in ScopeState
  BY DEF TypeOK
<1>2. now \in Nat
  BY DEF TypeOK
<1>3. ASSUME NEW k \in Scopes, RevokeScope(k)
      PROVE  \E o : Command(k, o)
  <2>1. k \in Registered /\ Apply(k, Revoke(scopes[k], k))
    BY <1>3 DEF RevokeScope, Apply
  <2>2. IsOutcome(scopes[k], k, Revoke(scopes[k], k))
    BY <1>1, <2>1, InstallOutcome DEF Revoke, ChangeKinds
  <2>3. Entitled(scopes[k], Revoke(scopes[k], k), now)
    BY OthersEntitled
  <2>4. QED
    BY <2>1, <2>2, <2>3 DEF Command
<1>4. ASSUME NEW k \in Scopes, NEW p \in Principals,
             \/ GrantScope(k, p)
             \/ AskForScope(k, p)
             \/ SayIHave(k, p)
             \/ SayYouHave(k, p)
             \/ ReleaseScope(k, p)
      PROVE  \E o : Command(k, o)
  <2>1. k \in Registered
    BY <1>4 DEF GrantScope, AskForScope, SayIHave, SayYouHave, ReleaseScope, Apply
  <2>2. PICK o \in {Grant(scopes[k], k, p), RequestTransfer(scopes[k], k, p),
                    ConfirmIHave(scopes[k], k, p), ConfirmYouHave(scopes[k], k, p),
                    Release(scopes[k], k, p)} : Apply(k, o)
    BY <1>4 DEF GrantScope, AskForScope, SayIHave, SayYouHave, ReleaseScope
  <2>3. IsOutcome(scopes[k], k, o)
    BY <1>1, <2>1, OtherOutcomes
  <2>4. Entitled(scopes[k], o, now)
    BY OthersEntitled, GrantEntitled
  <2>5. QED
    BY <2>2, <2>3, <2>4 DEF Command
<1>5. ASSUME NEW k \in Scopes, NEW p \in Principals, NEW q \in Principals,
             NEW ttl \in Ttls, OfferScope(k, p, q, ttl)
      PROVE  \E o : Command(k, o)
  <2>1. k \in Registered /\ Apply(k, Offer(scopes[k], k, p, q, now, ttl))
    BY <1>5 DEF OfferScope, Apply
  <2>2. IsOutcome(scopes[k], k, Offer(scopes[k], k, p, q, now, ttl))
    BY <1>1, <1>2, <2>1, OfferOutcome, TtlsAssumption
  <2>3. Entitled(scopes[k], Offer(scopes[k], k, p, q, now, ttl), now)
    BY OthersEntitled
  <2>4. QED
    BY <2>1, <2>2, <2>3 DEF Command
<1>6. ASSUME NEW k \in Scopes, NEW p \in Principals, NEW g \in 0..MaxGeneration,
             AcceptScope(k, p, g)
      PROVE  \E o : Command(k, o)
  <2>1. k \in Registered /\ Apply(k, Accept(scopes[k], k, p, g, now))
    BY <1>6 DEF AcceptScope, Apply
  <2>2. g \in Nat
    BY BoundsAssumption
  <2>3. IsOutcome(scopes[k], k, Accept(scopes[k], k, p, g, now))
    BY <1>1, <1>2, <2>1, <2>2, AcceptOutcome
  <2>4. Entitled(scopes[k], Accept(scopes[k], k, p, g, now), now)
    BY <1>1, <1>2, <2>1, <2>2, AcceptEntitled
  <2>5. QED
    BY <2>1, <2>3, <2>4 DEF Command
<1>7. ASSUME NEW k \in Scopes, NEW p \in Principals, NEW class \in Classes,
             OverrideScope(k, p, class)
      PROVE  \E o : Command(k, o)
  <2>1. k \in Registered /\ Apply(k, EmergencyOverride(scopes[k], k, p, class))
    BY <1>7 DEF OverrideScope, Apply
  <2>2. IsOutcome(scopes[k], k, EmergencyOverride(scopes[k], k, p, class))
    BY <1>1, <2>1, OverrideOutcome
  <2>3. Entitled(scopes[k], EmergencyOverride(scopes[k], k, p, class), now)
    BY OthersEntitled
  <2>4. QED
    BY <2>1, <2>2, <2>3 DEF Command
<1>8. ASSUME NEW k \in Scopes, NEW p \in Principals, NEW link \in LinkStates,
             ReportLink(k, p, link)
      PROVE  \E o : Command(k, o)
  <2>1. k \in Registered /\ Apply(k, HolderLinkChanged(scopes[k], k, p, link))
    BY <1>8 DEF ReportLink, Apply
  <2>2. IsOutcome(scopes[k], k, HolderLinkChanged(scopes[k], k, p, link))
    BY <1>1, <2>1, LinkOutcome
  <2>3. Entitled(scopes[k], HolderLinkChanged(scopes[k], k, p, link), now)
    BY OthersEntitled
  <2>4. QED
    BY <2>1, <2>2, <2>3 DEF Command
<1>9. QED
  BY <1>3, <1>4, <1>5, <1>6, <1>7, <1>8 DEF Next

-----------------------------------------------------------------------------
(* Type correctness.                                                       *)

\* A single effect announces one lease, or none.
LEMMA LeasesOfOne ==
    ASSUME NEW e
    PROVE  Leases({e}) = IF e.kind \in {"granted", "committed", "override"}
                         THEN {<<e.scope, e.generation, e.new>>} ELSE {}
BY DEF Leases

\* The engine starts well typed.
LEMMA TypeInit == Init => TypeOK
BY DEF Init, TypeOK, Registered

\* Every step keeps the state well typed.
LEMMA TypeStep == TypeOK /\ [Next]_vars => TypeOK'
<1> SUFFICES ASSUME TypeOK, [Next]_vars
             PROVE  TypeOK'
  OBVIOUS
<1>1. ASSUME NEW k \in Scopes, NEW o, Command(k, o)
      PROVE  TypeOK'
  <2>1. k \in Registered /\ o.state \in ScopeState /\ o.effect \in Effect
    BY <1>1 DEF Command, IsOutcome, Apply
  <2>2. scopes' \in [Registered -> ScopeState]
    BY <1>1, <2>1 DEF Command, Apply, TypeOK
  <2>3. Leases({o.effect}) \subseteq Scopes \X Nat \X Principals
    <3>1. o.effect.scope = k /\ o.state.generation \in Nat
      BY <1>1, <2>1 DEF Command, IsOutcome, ScopeState
    <3>2. o.effect.kind \in {"granted", "committed", "override"} =>
             o.effect.generation = o.state.generation /\ o.effect.new \in Principals
      BY <1>1 DEF Command, IsOutcome, NoteKinds
    <3>3. QED
      <4>1. CASE o.effect.kind \in {"granted", "committed", "override"}
        <5>1. Leases({o.effect}) = {<<o.effect.scope, o.effect.generation, o.effect.new>>}
          BY <4>1, LeasesOfOne
        <5>2. QED
          BY <3>1, <3>2, <4>1, <5>1
      <4>2. CASE o.effect.kind \notin {"granted", "committed", "override"}
        BY <4>2, LeasesOfOne
      <4>3. QED
        BY <4>1, <4>2
  <2>4. QED
    BY <1>1, <2>1, <2>2, <2>3 DEF Command, Apply, Emit, TypeOK, Registered
<1>2. ASSUME NEW k \in Scopes, RegisterScope(k)
      PROVE  TypeOK'
  <2>1. NewScope \in ScopeState
    BY DEF NewScope, ScopeState, HolderState, LinkStates
  <2>2. \A kind \in NoteKinds : Note(kind, k) \in Effect /\ Leases({Note(kind, k)}) = {}
    BY DEF Note, Effect, Leases, NoteKinds
  <2>3. /\ Note("rejected", k) \in Effect /\ Leases({Note("rejected", k)}) = {}
        /\ Note("registered", k) \in Effect /\ Leases({Note("registered", k)}) = {}
    BY <2>2 DEF NoteKinds
  <2>4. CASE k \in Registered
    BY <1>2, <2>3, <2>4 DEF RegisterScope, Emit, TypeOK, Registered
  <2>5. CASE k \notin Registered
    <3>1. scopes' = [j \in Registered \cup {k} |-> IF j = k THEN NewScope ELSE scopes[j]]
      BY <1>2, <2>5 DEF RegisterScope
    <3>2. Registered' = Registered \cup {k} /\ scopes' \in [Registered' -> ScopeState]
      BY <2>1, <3>1 DEF TypeOK, Registered
    <3>3. effects' \in SUBSET Effect /\ issued' = issued /\ now' = now
      BY <1>2, <2>3, <2>5 DEF RegisterScope, Emit
    <3>4. QED
      BY <3>2, <3>3 DEF TypeOK
  <2>6. QED
    BY <2>4, <2>5
<1>3. ASSUME NEW k \in Scopes, UnknownScope(k)
      PROVE  TypeOK'
  <2>1. Note("rejected", k) \in Effect /\ Leases({Note("rejected", k)}) = {}
    BY DEF Note, Effect, Leases, NoteKinds
  <2>2. QED
    BY <1>3, <2>1 DEF UnknownScope, Emit, TypeOK, Registered
<1>4. CASE ExpireDue
  <2>1. Due \subseteq Scopes
    BY DEF Due, TypeOK
  <2>2. scopes' \in [Registered -> ScopeState]
    BY <1>4, ExpireOfferKeepsHolder DEF ExpireDue, TypeOK, Due, OfferIsDue
  <2>3. {Note("expired", k) : k \in Due} \subseteq Effect
    BY <2>1 DEF Note, Effect, NoteKinds
  <2>4. Leases({Note("expired", k) : k \in Due}) = {}
    BY DEF Leases, Note
  <2>5. QED
    BY <1>4, <2>2, <2>3, <2>4 DEF ExpireDue, Emit, TypeOK, Registered
<1>5. CASE Tick
  BY <1>5 DEF Tick, TypeOK, Registered
<1>6. CASE UNCHANGED vars
  BY <1>6 DEF vars, TypeOK, Registered
<1>7. QED
  BY <1>1, <1>2, <1>3, <1>4, <1>5, <1>6, StepsAreCommands

\* Every state of the engine is well typed.
THEOREM TypeCorrect == Spec => []TypeOK
BY TypeInit, TypeStep, PTL DEF Spec

-----------------------------------------------------------------------------
(* Fencing.  Fenced is not inductive: it says nothing of leases of earlier *)
(* generations, which a later step could bring back into force.  LeaseInv  *)
(* adds that no lease was announced for a generation yet to come.          *)

LeaseInv ==
    \A k \in Scopes, g \in Nat, p \in Principals :
        <<k, g, p>> \in issued =>
            /\ k \in Registered
            /\ g <= scopes[k].generation
            /\ g = scopes[k].generation => EffectiveHolder(scopes[k]) = p
            /\ \A q \in Principals : <<k, g, q>> \in issued => q = p

\* What a command does to holders, generations and leases: nothing, or the
\* next generation for the new holder.
LEMMA CommandSteps ==
    ASSUME TypeOK, NEW k \in Scopes, NEW o, Command(k, o)
    PROVE  /\ Registered' = Registered
           /\ k \in Registered
           /\ \A j \in Registered \ {k} : scopes'[j] = scopes[j]
           /\ \/ /\ EffectiveHolder(scopes'[k]) = EffectiveHolder(scopes[k])
                 /\ scopes'[k].generation = scopes[k].generation
                 /\ issued' = issued
              \/ /\ scopes'[k].generation = scopes[k].generation + 1
                 /\ EffectiveHolder(scopes'[k]) \in Principals
                 /\ issued' = issued \cup {<<k, scopes[k].generation + 1,
                                            EffectiveHolder(scopes'[k])>>}
              \/ /\ scopes'[k].generation = scopes[k].generation + 1
                 /\ EffectiveHolder(scopes'[k]) = NoPrincipal
                 /\ issued' = issued
<1>1. /\ k \in Registered
      /\ scopes' = [scopes EXCEPT ![k] = o.state]
      /\ issued' = issued \cup Leases({o.effect})
  BY DEF Command, Apply, Emit
<1>2. /\ scopes'[k] = o.state
      /\ Registered' = Registered
      /\ \A j \in Registered \ {k} : scopes'[j] = scopes[j]
  BY <1>1 DEF TypeOK, Registered
<1>3. CASE o.effect.kind \in NoteKinds
  <2>1. /\ EffectiveHolder(o.state) = EffectiveHolder(scopes[k])
        /\ o.state.generation = scopes[k].generation
    BY <1>3 DEF Command, IsOutcome, NoteKinds, ChangeKinds
  <2>2. Leases({o.effect}) = {}
    BY <1>3, LeasesOfOne DEF NoteKinds
  <2>3. QED
    BY <1>1, <1>2, <2>1, <2>2
<1>4. CASE o.effect.kind \in {"granted", "committed", "override"}
  <2>1. /\ o.state.generation = scopes[k].generation + 1
        /\ EffectiveHolder(o.state) \in Principals
        /\ <<o.effect.scope, o.effect.generation, o.effect.new>>
              = <<k, scopes[k].generation + 1, EffectiveHolder(o.state)>>
    BY <1>4 DEF Command, IsOutcome, NoteKinds
  <2>2. Leases({o.effect}) = {<<k, scopes[k].generation + 1, EffectiveHolder(o.state)>>}
    BY <1>4, <2>1, LeasesOfOne
  <2>3. QED
    BY <1>1, <1>2, <2>1, <2>2
<1>5. CASE o.effect.kind \in {"revoked", "linkLost"}
  <2>1. /\ o.state.generation = scopes[k].generation + 1
        /\ EffectiveHolder(o.state) = NoPrincipal
    BY <1>5 DEF Command, IsOutcome, NoteKinds
  <2>2. Leases({o.effect}) = {}
    BY <1>5, LeasesOfOne
  <2>3. QED
    BY <1>1, <1>2, <2>1, <2>2
<1>6. QED
  BY <1>3, <1>4, <1>5 DEF Command, IsOutcome, ChangeKinds

\* Registration empties nothing, and expiry and time move no holder.
LEMMA OtherSteps ==
    ASSUME TypeOK,
           \/ \E k \in Scopes : RegisterScope(k) \/ UnknownScope(k)
           \/ ExpireDue
           \/ Tick
           \/ UNCHANGED vars
    PROVE  /\ issued' = issued
           /\ Registered \subseteq Registered'
           /\ Registered' \subseteq Scopes
           /\ \A j \in Registered :
                 /\ EffectiveHolder(scopes'[j]) = EffectiveHolder(scopes[j])
                 /\ scopes'[j].generation = scopes[j].generation
           /\ \A j \in Registered' \ Registered : scopes'[j] = NewScope
<1>1. \A j \in Registered : scopes[j] \in ScopeState
  BY DEF TypeOK
<1>2. ASSUME NEW k \in Scopes, RegisterScope(k) \/ UnknownScope(k)
      PROVE  /\ issued' = issued
             /\ Registered \subseteq Registered'
             /\ Registered' \subseteq Scopes
             /\ \A j \in Registered : scopes'[j] = scopes[j]
             /\ \A j \in Registered' \ Registered : scopes'[j] = NewScope
  <2>1. /\ Leases({Note("rejected", k)}) = {}
        /\ Leases({Note("registered", k)}) = {}
    BY DEF Leases, Note
  <2>2. issued' = issued
    BY <1>2, <2>1 DEF RegisterScope, UnknownScope, Emit
  <2>3. CASE scopes' = scopes
    BY <2>2, <2>3 DEF TypeOK, Registered
  <2>4. CASE /\ k \notin Registered
             /\ scopes' = [j \in Registered \cup {k} |->
                              IF j = k THEN NewScope ELSE scopes[j]]
    <3>1. Registered' = Registered \cup {k}
      BY <2>4 DEF Registered
    <3>2. QED
      BY <2>2, <2>4, <3>1 DEF TypeOK
  <2>5. QED
    BY <1>2, <2>3, <2>4 DEF RegisterScope, UnknownScope
<1>3. CASE ExpireDue
  <2>1. Leases({Note("expired", k) : k \in Due}) = {}
    BY DEF Leases, Note
  <2>2. Registered' = Registered
    BY <1>3 DEF ExpireDue, Registered
  <2>3. \A j \in Registered :
           scopes'[j] = IF j \in Due THEN ExpireOffer(scopes[j]) ELSE scopes[j]
    BY <1>3 DEF ExpireDue
  <2>4. \A j \in Registered :
           /\ EffectiveHolder(scopes'[j]) = EffectiveHolder(scopes[j])
           /\ scopes'[j].generation = scopes[j].generation
    BY <1>1, <2>3, ExpireOfferKeepsHolder DEF Due, OfferIsDue
  <2>5. QED
    BY <1>3, <2>1, <2>2, <2>4 DEF ExpireDue, Emit, TypeOK
<1>4. CASE Tick \/ UNCHANGED vars
  BY <1>4 DEF Tick, vars, TypeOK, Registered
<1>5. QED
  BY <1>2, <1>3, <1>4

\* Every step keeps LeaseInv: a fresh lease is at the next generation, which no
\* earlier lease was announced for.
LEMMA LeaseInvStep == TypeOK /\ LeaseInv /\ [Next]_vars => LeaseInv'
<1> SUFFICES ASSUME TypeOK, LeaseInv, [Next]_vars
             PROVE  LeaseInv'
  OBVIOUS
<1>1. ASSUME NEW k \in Scopes, NEW o, Command(k, o)
      PROVE  LeaseInv'
  <2> SUFFICES ASSUME NEW j \in Scopes, NEW g \in Nat, NEW p \in Principals,
                      <<j, g, p>> \in issued'
               PROVE  /\ j \in Registered'
                      /\ g <= scopes'[j].generation
                      /\ g = scopes'[j].generation => EffectiveHolder(scopes'[j]) = p
                      /\ \A q \in Principals : <<j, g, q>> \in issued' => q = p
    BY DEF LeaseInv
  <2>1. scopes[k].generation \in Nat
    BY <1>1, CommandSteps DEF TypeOK, ScopeState
  <2>2. CASE j # k
    <3>1. \A q \in Principals : <<j, g, q>> \in issued' => <<j, g, q>> \in issued
      BY <1>1, <2>2, CommandSteps
    <3>2. j \in Registered /\ scopes'[j] = scopes[j]
      BY <1>1, <2>2, <3>1, CommandSteps DEF LeaseInv
    <3>3. QED
      BY <1>1, <3>1, <3>2, CommandSteps DEF LeaseInv
  <2>3. CASE j = k /\ <<j, g, p>> \in issued
    <3>1. j \in Registered /\ g <= scopes[k].generation
      BY <2>3 DEF LeaseInv
    <3>2. \A q \in Principals : <<j, g, q>> \in issued' => <<j, g, q>> \in issued
      BY <1>1, <2>1, <3>1, CommandSteps
    <3>3. QED
      BY <1>1, <2>1, <2>3, <3>1, <3>2, CommandSteps DEF LeaseInv
  <2>4. CASE j = k /\ <<j, g, p>> \notin issued
    <3>1. /\ g = scopes[k].generation + 1
          /\ p = EffectiveHolder(scopes'[k])
          /\ scopes'[k].generation = scopes[k].generation + 1
          /\ issued' = issued \cup {<<k, g, p>>}
      BY <1>1, <2>4, CommandSteps
    <3>2. \A q \in Principals : <<j, g, q>> \notin issued
      BY <2>1, <2>4, <3>1 DEF LeaseInv
    <3>3. QED
      BY <1>1, <2>1, <2>4, <3>1, <3>2, CommandSteps
  <2>5. QED
    BY <2>2, <2>3, <2>4
<1>2. ASSUME \/ \E k \in Scopes : RegisterScope(k) \/ UnknownScope(k)
             \/ ExpireDue
             \/ Tick
             \/ UNCHANGED vars
      PROVE  LeaseInv'
  <2>1. /\ issued' = issued
        /\ Registered \subseteq Registered'
        /\ \A j \in Registered :
              /\ EffectiveHolder(scopes'[j]) = EffectiveHolder(scopes[j])
              /\ scopes'[j].generation = scopes[j].generation
    BY <1>2, OtherSteps
  <2>2. QED
    BY <2>1 DEF LeaseInv
<1>3. QED
  BY <1>1, <1>2, StepsAreCommands

\* LeaseInv says of the leases announced what Fenced asks of frames.
LEMMA LeaseInvImpliesFenced == TypeOK /\ LeaseInv => Fenced
<1> SUFFICES ASSUME TypeOK, LeaseInv, NEW lease \in issued
             PROVE  LET k == lease[1]  g == lease[2]  p == lease[3]
                    IN  /\ k \in Registered
                        /\ FrameAccepted(scopes[k], g) => EffectiveHolder(scopes[k]) = p
                        /\ \A other \in issued :
                              other[1] = k /\ other[2] = g => other[3] = p
  BY DEF Fenced
<1>1. PICK k \in Scopes, g \in Nat, p \in Principals : lease = <<k, g, p>>
  BY DEF TypeOK
<1>2. \A other \in issued : other[1] = k /\ other[2] = g => other[3] = p
  <2> SUFFICES ASSUME NEW other \in issued, other[1] = k, other[2] = g
               PROVE  other[3] = p
    OBVIOUS
  <2>1. PICK q \in Principals : other = <<k, g, q>>
    BY DEF TypeOK
  <2>2. QED
    BY <1>1, <2>1 DEF LeaseInv
<1>3. QED
  BY <1>1, <1>2 DEF LeaseInv, FrameAccepted

\* The generation check alone keeps everyone but the current holder out, for
\* any number of principals, commands and scopes.
THEOREM FencingHolds == Spec => []Fenced
<1>1. Init => LeaseInv
  BY DEF Init, LeaseInv
<1>2. QED
  BY <1>1, TypeInit, TypeStep, LeaseInvStep, LeaseInvImpliesFenced, PTL DEF Spec

-----------------------------------------------------------------------------
(* Refinement.                                                             *)

owner == [k \in Scopes |-> IF k \in Registered THEN EffectiveHolder(scopes[k])
                                              ELSE NoPrincipal]
token == [k \in Scopes |-> IF k \in Registered THEN scopes[k].generation ELSE 0]

\* A command installs a holder, empties the scope, or is invisible.
LEMMA CommandRefines ==
    ASSUME TypeOK, NEW k \in Scopes, NEW o, Command(k, o)
    PROVE  \/ Lease!LeaseNext
           \/ UNCHANGED <<owner, token, issued>>
<1>1. /\ Registered' = Registered
      /\ k \in Registered
      /\ \A j \in Registered \ {k} : scopes'[j] = scopes[j]
  BY CommandSteps
<1>2. owner' = [owner EXCEPT ![k] = EffectiveHolder(scopes'[k])]
  BY <1>1 DEF owner
<1>3. token' = [token EXCEPT ![k] = scopes'[k].generation]
  BY <1>1 DEF token
<1>4. owner[k] = EffectiveHolder(scopes[k]) /\ token[k] = scopes[k].generation
  BY <1>1 DEF owner, token
<1>5. CASE /\ EffectiveHolder(scopes'[k]) = EffectiveHolder(scopes[k])
           /\ scopes'[k].generation = scopes[k].generation
           /\ issued' = issued
  <2>1. owner' = owner
    BY <1>2, <1>4, <1>5 DEF owner
  <2>2. token' = token
    BY <1>3, <1>4, <1>5 DEF token
  <2>3. QED
    BY <1>5, <2>1, <2>2
<1>6. CASE /\ scopes'[k].generation = scopes[k].generation + 1
           /\ EffectiveHolder(scopes'[k]) \in Principals
           /\ issued' = issued \cup {<<k, scopes[k].generation + 1,
                                      EffectiveHolder(scopes'[k])>>}
  <2>1. PICK p \in Principals : p = EffectiveHolder(scopes'[k])
    BY <1>6
  <2>2. Lease!Install(k, p)
    BY <1>2, <1>3, <1>4, <1>6, <2>1 DEF Lease!Install, owner, token
  <2>3. QED
    BY <2>2 DEF Lease!LeaseNext
<1>7. CASE /\ scopes'[k].generation = scopes[k].generation + 1
           /\ EffectiveHolder(scopes'[k]) = NoPrincipal
           /\ issued' = issued
  <2>1. Lease!Vacate(k)
    BY <1>2, <1>3, <1>4, <1>7 DEF Lease!Vacate, owner, token
  <2>2. QED
    BY <2>1 DEF Lease!LeaseNext
<1>8. QED
  BY <1>5, <1>6, <1>7, CommandSteps

\* The engine implements the fenced lease.
THEOREM ImplementsLease == Spec => LeaseSpec
<1>1. Init => Lease!LeaseInit
  BY DEF Init, Registered, Lease!LeaseInit
<1>2. TypeOK /\ [Next]_vars => [Lease!LeaseNext]_(Lease!leaseVars)
  <2> SUFFICES ASSUME TypeOK, [Next]_vars
               PROVE  Lease!LeaseNext \/ UNCHANGED <<owner, token, issued>>
    BY DEF Lease!leaseVars, owner, token
  <2>1. ASSUME \/ \E k \in Scopes : RegisterScope(k) \/ UnknownScope(k)
               \/ ExpireDue
               \/ Tick
               \/ UNCHANGED vars
        PROVE  UNCHANGED <<owner, token, issued>>
    <3>1. EffectiveHolder(NewScope) = NoPrincipal /\ NewScope.generation = 0
      BY DEF EffectiveHolder, NewScope, Unassigned
    <3>2. \A k \in Scopes :
             /\ (IF k \in Registered' THEN EffectiveHolder(scopes'[k]) ELSE NoPrincipal)
                 = (IF k \in Registered THEN EffectiveHolder(scopes[k]) ELSE NoPrincipal)
             /\ (IF k \in Registered' THEN scopes'[k].generation ELSE 0)
                 = (IF k \in Registered THEN scopes[k].generation ELSE 0)
      BY <2>1, <3>1, OtherSteps
    <3>3. owner' = owner
      BY <3>2 DEF owner
    <3>4. token' = token
      BY <3>2 DEF token
    <3>5. QED
      BY <2>1, <3>3, <3>4, OtherSteps
  <2>2. QED
    BY <2>1, CommandRefines, StepsAreCommands
<1>3. QED
  BY <1>1, <1>2, TypeCorrect, PTL DEF Spec, LeaseSpec, Lease!LeaseSpec

-----------------------------------------------------------------------------
(* What the effects say.                                                   *)

\* An observer that folds Change effects knows the holder and generation of
\* every scope.
THEOREM EffectsAreComplete == Spec => EffectsTellAll
<1> DEFINE changes == {e \in effects' : e.kind \in ChangeKinds}
           quiet(k) == /\ EffectiveHolder(scopes'[k]) = EffectiveHolder(scopes[k])
                       /\ scopes'[k].generation = scopes[k].generation
           told(e) == /\ e.scope \in Registered
                      /\ e.old = EffectiveHolder(scopes[e.scope])
                      /\ e.new = EffectiveHolder(scopes'[e.scope])
                      /\ e.generation = scopes'[e.scope].generation
                      /\ e.generation # scopes[e.scope].generation
           Tells == /\ \A e \in changes : told(e)
                    /\ \A k \in Registered :
                          (\A e \in changes : e.scope # k) => quiet(k)
<1>1. ASSUME TypeOK, Next
      PROVE  Tells
  <2>1. ASSUME NEW k \in Scopes, NEW o, Command(k, o)
        PROVE  Tells
    <3>1. /\ k \in Registered
          /\ effects' = {o.effect}
          /\ scopes'[k] = o.state
          /\ \A j \in Registered \ {k} : scopes'[j] = scopes[j]
          /\ o.effect.scope = k
      BY <1>1, <2>1 DEF Command, Apply, Emit, IsOutcome, TypeOK, Registered
    <3>2. CASE o.effect.kind \in NoteKinds
      <4>1. changes = {}
        BY <3>1, <3>2 DEF NoteKinds, ChangeKinds
      <4>2. quiet(k)
        BY <2>1, <3>1, <3>2 DEF Command, IsOutcome, NoteKinds, ChangeKinds
      <4>3. \A j \in Registered \ {k} : quiet(j)
        BY <3>1 DEF EffectiveHolder
      <4>4. QED
        BY <4>1, <4>2, <4>3
    <3>3. CASE o.effect.kind \in ChangeKinds
      <4>1. changes = {o.effect}
        BY <3>1, <3>3
      <4>2. scopes[k].generation \in Nat
        BY <1>1, <3>1 DEF TypeOK, ScopeState
      <4>3. told(o.effect)
        BY <2>1, <3>1, <3>3, <4>2 DEF Command, IsOutcome, NoteKinds, ChangeKinds
      <4>4. \A j \in Registered \ {k} : quiet(j)
        BY <3>1 DEF EffectiveHolder
      <4>5. QED
        BY <3>1, <4>1, <4>3, <4>4
    <3>4. QED
      BY <2>1, <3>2, <3>3 DEF Command, IsOutcome
  <2>2. ASSUME \/ \E k \in Scopes : RegisterScope(k) \/ UnknownScope(k)
               \/ ExpireDue
               \/ Tick
        PROVE  Tells
    <3>1. \A e \in effects' : e.kind \in {"rejected", "registered", "expired"}
      <4>1. CASE \E k \in Scopes : RegisterScope(k) \/ UnknownScope(k)
        BY <4>1 DEF RegisterScope, UnknownScope, Emit, Note
      <4>2. CASE ExpireDue
        BY <4>2 DEF ExpireDue, Emit, Note
      <4>3. CASE Tick
        BY <4>3 DEF Tick
      <4>4. QED
        BY <2>2, <4>1, <4>2, <4>3
    <3>2. changes = {}
      BY <3>1 DEF ChangeKinds
    <3>3. \A k \in Registered : quiet(k)
      BY <1>1, <2>2, OtherSteps
    <3>4. QED
      BY <3>2, <3>3
  <2>3. QED
    BY <1>1, <2>1, <2>2, StepsAreCommands
<1>2. TypeOK /\ [Next]_vars => [Tells]_vars
  BY <1>1
<1>3. QED
  BY <1>2, TypeCorrect, PTL DEF Spec, EffectsTellAll

-----------------------------------------------------------------------------
(* Consent.                                                                *)

Consented(k) ==
    LET before == EffectiveHolder(scopes[k])
        after == EffectiveHolder(scopes'[k])
    IN  {before, after} \subseteq Principals /\ before # after =>
           \/ \E e \in effects' : e.scope = k /\ e.kind = "override"
           \/ /\ IsOffered(scopes[k])
              /\ scopes[k].holder.to = after
              /\ now < scopes[k].holder.expires

\* What a command applies: the outcome's state to its scope alone, and the
\* outcome's effect.
LEMMA CommandApplies ==
    ASSUME TypeOK, NEW k \in Scopes, NEW o, Command(k, o)
    PROVE  /\ k \in Registered
           /\ scopes'[k] = o.state
           /\ effects' = {o.effect}
           /\ o.effect.scope = k
           /\ \A j \in Registered \ {k} : scopes'[j] = scopes[j]
           /\ scopes[k] \in ScopeState
           /\ IsOutcome(scopes[k], k, o)
           /\ Entitled(scopes[k], o, now)
BY DEF Command, Apply, Emit, IsOutcome, TypeOK, Registered

\* Between two principals a scope passes by override or by a living offer.
THEOREM ConsentHolds == Spec => PassesByConsent
<1>1. ASSUME TypeOK, Next
      PROVE  \A k \in Registered : Consented(k)
  <2>1. ASSUME NEW k \in Scopes, NEW o, Command(k, o)
        PROVE  \A j \in Registered : Consented(j)
    <3>1. ASSUME NEW j \in Registered \ {k}
          PROVE  Consented(j)
      <4>1. scopes'[j] = scopes[j]
        BY <1>1, <2>1, CommandApplies
      <4>2. EffectiveHolder(scopes'[j]) = EffectiveHolder(scopes[j])
        BY <4>1 DEF EffectiveHolder
      <4>3. QED
        BY <4>2 DEF Consented
    <3>2. ASSUME EffectiveHolder(scopes[k]) \in Principals,
                 EffectiveHolder(scopes'[k]) \in Principals,
                 EffectiveHolder(scopes[k]) # EffectiveHolder(scopes'[k])
          PROVE  \/ o.effect.kind = "override"
                 \/ /\ IsOffered(scopes[k])
                    /\ scopes[k].holder.to = EffectiveHolder(scopes'[k])
                    /\ now < scopes[k].holder.expires
      <4>1. o.effect.kind \in ChangeKinds /\ o.effect.new = EffectiveHolder(scopes'[k])
        BY <1>1, <2>1, <3>2, CommandApplies DEF IsOutcome
      <4>2. o.effect.kind \notin {"revoked", "linkLost"}
        BY <1>1, <2>1, <3>2, <4>1, CommandApplies, NoPrincipalAssumption DEF IsOutcome
      <4>3. o.effect.kind # "granted"
        BY <1>1, <2>1, <3>2, CommandApplies, NoPrincipalAssumption DEF Entitled
      <4>4. CASE o.effect.kind = "committed"
        BY <1>1, <2>1, <4>4, CommandApplies DEF Entitled
      <4>5. QED
        BY <4>1, <4>2, <4>3, <4>4 DEF ChangeKinds
    <3>3. Consented(k)
      BY <1>1, <2>1, <3>2, CommandApplies DEF Consented
    <3>4. QED
      BY <3>1, <3>3
  <2>2. ASSUME \/ \E k \in Scopes : RegisterScope(k) \/ UnknownScope(k)
               \/ ExpireDue
               \/ Tick
        PROVE  \A j \in Registered : Consented(j)
    BY <1>1, <2>2, OtherSteps DEF Consented
  <2>3. QED
    BY <1>1, <2>1, <2>2, StepsAreCommands
<1>2. TypeOK /\ [Next]_vars => [\A k \in Registered : Consented(k)]_vars
  BY <1>1
<1>3. QED
  BY <1>2, TypeCorrect, PTL DEF Spec, PassesByConsent, Consented

-----------------------------------------------------------------------------
(* The deadline of an offer.                                               *)

\* From its deadline on an accept does what the sweep does; until then the
\* recipient's accept commits.
THEOREM DeadlineHasNoGap == Spec => []NoGapAtTheDeadline
<1>1. ASSUME TypeOK, NEW k \in Registered, IsOffered(scopes[k])
      PROVE  LET s == scopes[k]
                 accept(p) == Accept(s, k, p, s.generation, now)
             IN  IF k \in Due
                 THEN \A p \in Principals :
                         accept(p) = Outcome(ExpireOffer(s), Note("expired", k))
                 ELSE accept(s.holder.to).effect.kind = "committed"
  <2> DEFINE s == scopes[k]
             accept(p) == Accept(s, k, p, s.generation, now)
  <2>1. now \in Nat /\ s \in ScopeState
    BY <1>1 DEF TypeOK
  <2>2. s.holder.expires \in Nat
    BY <1>1, <2>1 DEF IsOffered, ScopeState, HolderState, Unassigned
  <2>3. ASSUME k \in Due, NEW p \in Principals
        PROVE  accept(p) = Outcome(ExpireOffer(s), Note("expired", k))
    <3>1. now >= s.holder.expires /\ ~ (now < s.holder.expires)
      BY <2>1, <2>2, <2>3 DEF Due, OfferIsDue
    <3>2. QED
      BY <1>1, <3>1 DEF Accept
  <2>4. ASSUME k \notin Due
        PROVE  accept(s.holder.to).effect.kind = "committed"
    <3>1. now < s.holder.expires /\ ~ (now >= s.holder.expires)
      BY <1>1, <2>1, <2>2, <2>4 DEF Due, OfferIsDue
    <3>2. accept(s.holder.to) = Install(s, k, "committed", Held(s.holder.to, NoClass))
      BY <1>1, <3>1 DEF Accept, MayCommit
    <3>3. QED
      BY <3>2 DEF Install, Outcome, Change
  <2>5. QED
    BY <2>3, <2>4
<1>2. TypeOK => NoGapAtTheDeadline
  BY <1>1 DEF NoGapAtTheDeadline
<1>3. QED
  BY <1>2, TypeCorrect, PTL

-----------------------------------------------------------------------------
(* The sweep.                                                              *)

Moved == {k \in Registered : scopes'[k] # scopes[k]}

DueNow ==
    {k \in Registered : IsOffered(scopes[k]) /\ scopes[k].holder.expires <= now}

Told == {e.scope : e \in {x \in effects' : x.kind = "expired"}}

SweepStep ==
    /\ ExpireDue => Told = DueNow
    /\ Told \subseteq DueNow
    /\ Told # {} \/ Cardinality(Moved) > 1 => Moved = Told
    /\ \A k \in Told : scopes'[k] = ExpireOffer(scopes[k])

\* A step that moves one scope or none sweeps nothing by accident.
LEMMA FewMoved ==
    ASSUME NEW k, Moved \subseteq {k}
    PROVE  ~ (Cardinality(Moved) > 1)
<1>1. CASE Moved = {}
  BY <1>1, FS_EmptySet
<1>2. CASE Moved = {k}
  BY <1>2, FS_Singleton
<1>3. QED
  BY <1>1, <1>2

\* An offer that expires is gone: the scope is held, no longer offered.
LEMMA ExpiredIsMoved ==
    ASSUME NEW s \in ScopeState, IsOffered(s)
    PROVE  ExpireOffer(s) # s
<1>1. ExpireOffer(s).holder = Held(s.holder.from, NoClass)
  BY DEF ExpireOffer, ScopeState
<1>2. ExpireOffer(s).holder.phase = "held"
  BY <1>1 DEF Held
<1>3. QED
  BY <1>2 DEF IsOffered

\* What the sweep itself does: it tells of what is due and moves just that.
LEMMA SweepTakesDue ==
    ASSUME TypeOK, ExpireDue
    PROVE  SweepStep /\ Told = DueNow
<1>1. \A k \in Registered :
         scopes'[k] = IF k \in DueNow THEN ExpireOffer(scopes[k]) ELSE scopes[k]
  BY DEF ExpireDue, Due, OfferIsDue, DueNow, Registered
<1>2. \A k \in DueNow : ExpireOffer(scopes[k]) # scopes[k]
  BY ExpiredIsMoved DEF TypeOK, DueNow
<1>3. effects' = {Note("expired", k) : k \in DueNow}
  BY DEF ExpireDue, Emit, Due, OfferIsDue, DueNow
<1>4. Told = DueNow
  <2>1. \A k : Note("expired", k).kind = "expired" /\ Note("expired", k).scope = k
    BY DEF Note
  <2>2. {x \in effects' : x.kind = "expired"} = effects'
    BY <1>3, <2>1
  <2>3. ASSUME NEW k \in DueNow
        PROVE  k \in Told
    <3>1. Note("expired", k) \in effects'
      BY <1>3, <2>3
    <3>2. QED
      BY <2>1, <2>2, <3>1 DEF Told
  <2>4. ASSUME NEW k \in Told
        PROVE  k \in DueNow
    <3>1. PICK e \in effects' : k = e.scope
      BY <2>4 DEF Told
    <3>2. QED
      BY <1>3, <2>1, <3>1
  <2>5. QED
    BY <2>3, <2>4
<1>5. Moved = DueNow
  BY <1>1, <1>2 DEF Moved, DueNow
<1>6. QED
  BY <1>1, <1>4, <1>5 DEF SweepStep, DueNow

\* A sweep takes all that is due; an expiry is told of due offers only; no
\* other step moves more than one scope.
THEOREM SweepsAreExact == Spec => SweepIsExact
<1>1. ASSUME TypeOK, Next
      PROVE  SweepStep
  <2>1. ASSUME NEW k \in Scopes, NEW o, Command(k, o), ~ExpireDue
        PROVE  SweepStep
    <3>1. Moved \subseteq {k}
      BY <1>1, <2>1, CommandApplies DEF Moved
    <3>2. ~ (Cardinality(Moved) > 1)
      BY <3>1, FewMoved
    <3>3. k \in Registered /\ effects' = {o.effect} /\ o.effect.scope = k
      BY <1>1, <2>1, CommandApplies
    <3>4. CASE o.effect.kind = "expired"
      <4>1. Told = {k}
        BY <3>3, <3>4 DEF Told
      <4>2. k \in DueNow /\ scopes'[k] = ExpireOffer(scopes[k])
        BY <1>1, <2>1, <3>4, CommandApplies DEF Entitled, OfferIsDue, DueNow
      <4>3. scopes'[k] # scopes[k]
        BY <1>1, <4>2, ExpiredIsMoved DEF TypeOK, DueNow
      <4>4. Moved = {k}
        BY <3>1, <3>3, <4>3 DEF Moved
      <4>5. QED
        BY <2>1, <4>1, <4>2, <4>4 DEF SweepStep
    <3>5. CASE o.effect.kind # "expired"
      <4>1. Told = {}
        BY <3>3, <3>5 DEF Told
      <4>2. QED
        BY <2>1, <3>2, <4>1 DEF SweepStep
    <3>6. QED
      BY <3>4, <3>5
  <2>2. ASSUME \/ \E k \in Scopes : RegisterScope(k) \/ UnknownScope(k)
               \/ Tick,
               ~ExpireDue
        PROVE  SweepStep
    <3>1. Moved = {} /\ Told = {}
      <4>1. CASE \E k \in Scopes : RegisterScope(k)
        BY <4>1 DEF RegisterScope, Moved, Registered, Told, Emit, Note
      <4>2. CASE \E k \in Scopes : UnknownScope(k)
        BY <4>2 DEF UnknownScope, Moved, Told, Emit, Note
      <4>3. CASE Tick
        BY <4>3 DEF Tick, Moved, Told
      <4>4. QED
        BY <2>2, <4>1, <4>2, <4>3
    <3>2. QED
      BY <2>2, <3>1 DEF SweepStep
  <2>3. QED
    BY <1>1, <2>1, <2>2, SweepTakesDue, StepsAreCommands
<1>2. TypeOK /\ [Next]_vars => [SweepStep]_vars
  BY <1>1
<1>3. QED
  BY <1>2, TypeCorrect, PTL DEF Spec, SweepIsExact, SweepStep, Moved, DueNow, Told
=============================================================================
