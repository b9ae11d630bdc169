----------------------------- MODULE Authority -----------------------------
(***************************************************************************)
(* AuthorityEngine of crates/pilotage-authority: a map from registered     *)
(* scopes to their state machines, the eleven commands, offer expiry and   *)
(* frame verification.  Any principal may send any command at any time.    *)
(*                                                                         *)
(* now       the caller's monotonic clock, in abstract ticks               *)
(* scopes    the engine's BTreeMap<ScopeKey, ScopeState>                   *)
(* effects   what the last call returned                                   *)
(* issued    history: <<scope, generation, principal>> for every lease an  *)
(*           effect ever announced, that is, every generation a principal  *)
(*           may legitimately stamp on its control frames                  *)
(***************************************************************************)
EXTENDS ScopeAuthority, FiniteSets

CONSTANTS
    Ttls,            \* offer lifetimes
    MaxGeneration,   \* bound: generations a scope goes through
    MaxTime          \* bound: the clock

ASSUME TtlsAssumption == Ttls \subseteq Nat
ASSUME BoundsAssumption == MaxGeneration \in Nat /\ MaxTime \in Nat

VARIABLES now, scopes, effects, issued

vars == <<now, scopes, effects, issued>>

Registered == DOMAIN scopes

-----------------------------------------------------------------------------

\* The leases a set of effects announces.
Leases(es) ==
    {<<e.scope, e.generation, e.new>> :
        e \in {x \in es : x.kind \in {"granted", "committed", "override"}}}

Init ==
    /\ now = 0
    /\ scopes = [k \in {} |-> NewScope]
    /\ effects = {}
    /\ issued = {}

Emit(es) ==
    /\ effects' = es
    /\ issued' = issued \cup Leases(es)

\* Install the outcome of a handler for scope k.
Apply(k, outcome) ==
    /\ k \in Registered
    /\ outcome.state.generation <= MaxGeneration
    /\ scopes' = [scopes EXCEPT ![k] = outcome.state]
    /\ Emit({outcome.effect})
    /\ UNCHANGED now

RegisterScope(k) ==
    /\ IF k \in Registered
       THEN /\ Emit({Note("rejected", k)})
            /\ UNCHANGED scopes
       ELSE /\ Emit({Note("registered", k)})
            /\ scopes' = [j \in Registered \cup {k} |->
                             IF j = k THEN NewScope ELSE scopes[j]]
    /\ UNCHANGED now

\* Every other command about a scope that is not registered is refused.
UnknownScope(k) ==
    /\ k \notin Registered
    /\ Emit({Note("rejected", k)})
    /\ UNCHANGED <<now, scopes>>

GrantScope(k, p) == Apply(k, Grant(scopes[k], k, p))
AskForScope(k, p) == Apply(k, RequestTransfer(scopes[k], k, p))
OfferScope(k, p, q, ttl) == Apply(k, Offer(scopes[k], k, p, q, now, ttl))
AcceptScope(k, p, expected) == Apply(k, Accept(scopes[k], k, p, expected, now))
SayIHave(k, p) == Apply(k, ConfirmIHave(scopes[k], k, p))
SayYouHave(k, p) == Apply(k, ConfirmYouHave(scopes[k], k, p))
ReleaseScope(k, p) == Apply(k, Release(scopes[k], k, p))
RevokeScope(k) == Apply(k, Revoke(scopes[k], k))
OverrideScope(k, p, class) == Apply(k, EmergencyOverride(scopes[k], k, p, class))
ReportLink(k, p, link) == Apply(k, HolderLinkChanged(scopes[k], k, p, link))

\* Mutant: the sweep takes the earliest deadline only, and leaves a second offer
\* that is due as well to the next call.
DueEarliest ==
    {k \in Registered :
        /\ OfferIsDue(scopes[k], now)
        /\ \A j \in Registered :
              IsOffered(scopes[j]) => scopes[k].holder.expires <= scopes[j].holder.expires}

\* expire_due takes every offer whose deadline is at or before now.
Due == {k \in Registered : OfferIsDue(scopes[k], now)}

ExpireDue ==
    /\ scopes' = [k \in Registered |->
                    IF k \in Due THEN ExpireOffer(scopes[k]) ELSE scopes[k]]
    /\ Emit({Note("expired", k) : k \in Due})
    /\ UNCHANGED now

\* The clock is the host's.
Tick ==
    /\ now < MaxTime
    /\ now' = now + 1
    /\ effects' = {}
    /\ UNCHANGED <<scopes, issued>>

Next ==
    \/ \E k \in Scopes : RegisterScope(k) \/ UnknownScope(k) \/ RevokeScope(k)
    \/ \E k \in Scopes, p \in Principals :
          \/ GrantScope(k, p)
          \/ AskForScope(k, p)
          \/ SayIHave(k, p)
          \/ SayYouHave(k, p)
          \/ ReleaseScope(k, p)
          \/ \E q \in Principals, ttl \in Ttls : OfferScope(k, p, q, ttl)
          \/ \E g \in 0..MaxGeneration : AcceptScope(k, p, g)
          \/ \E class \in Classes : OverrideScope(k, p, class)
          \/ \E link \in LinkStates : ReportLink(k, p, link)
    \/ ExpireDue
    \/ Tick

Spec == Init /\ [][Next]_vars

-----------------------------------------------------------------------------
(* Properties.                                                             *)

\* Every variable has its type.
TypeOK ==
    /\ now \in Nat
    /\ Registered \subseteq Scopes
    /\ scopes \in [Registered -> ScopeState]
    /\ effects \in SUBSET Effect
    /\ issued \in SUBSET (Scopes \X Nat \X Principals)

\* Fencing (ADR-0006): verify_frame compares generations and never looks at
\* the sender, yet whichever lease a frame is stamped with, the frame passes
\* only if that lease is the one its principal holds now; and no generation
\* was ever announced to two principals.
Fenced ==
    \A lease \in issued :
        LET k == lease[1]  g == lease[2]  p == lease[3]
        IN  /\ k \in Registered
            /\ FrameAccepted(scopes[k], g) => EffectiveHolder(scopes[k]) = p
            /\ \A other \in issued :
                  other[1] = k /\ other[2] = g => other[3] = p

\* A scope passes from one principal straight to another only by emergency
\* override or by the former's own offer to the latter, still alive
\* (ADR-0010: the two-phase handover).
PassesByConsent ==
    [][\A k \in Registered :
          LET before == EffectiveHolder(scopes[k])
              after == EffectiveHolder(scopes'[k])
          IN  {before, after} \subseteq Principals /\ before # after =>
                 \/ \E e \in effects' : e.scope = k /\ e.kind = "override"
                 \/ /\ IsOffered(scopes[k])
                    /\ scopes[k].holder.to = after
                    /\ now < scopes[k].holder.expires]_vars

\* The offer-expiry-versus-accept race has one outcome whichever call the
\* host makes first: from its deadline on, and not before, an accept by any
\* principal does what expire_due does, and until then the recipient's
\* accept commits.
NoGapAtTheDeadline ==
    \A k \in Registered :
        IsOffered(scopes[k]) =>
            LET s == scopes[k]
                accept(p) == Accept(s, k, p, s.generation, now)
            IN  IF k \in Due
                THEN \A p \in Principals :
                        accept(p) = Outcome(ExpireOffer(s), Note("expired", k))
                ELSE accept(s.holder.to).effect.kind = "committed"

\* The effects tell an observer everything about holders and generations: a
\* scope whose holder or generation moved has exactly one Change effect,
\* naming the old and the new holder and the generation now in force, and no
\* other scope has one.  The session registry is such an observer.
EffectsTellAll ==
    [][LET changes == {e \in effects' : e.kind \in ChangeKinds}
       IN  /\ \A e \in changes :
                 /\ e.scope \in Registered
                 /\ e.old = EffectiveHolder(scopes[e.scope])
                 /\ e.new = EffectiveHolder(scopes'[e.scope])
                 /\ e.generation = scopes'[e.scope].generation
                 /\ e.generation # scopes[e.scope].generation
           /\ \A k \in Registered :
                 (\A e \in changes : e.scope # k) =>
                     /\ EffectiveHolder(scopes'[k]) = EffectiveHolder(scopes[k])
                     /\ scopes'[k].generation = scopes[k].generation]_vars

\* A sweep leaves nothing behind: it tells of every offer that is due, however
\* many scopes have one (expire_due goes through all of them).  Whatever step
\* tells of an expiry, a sweep or an accept that came late, tells only of offers
\* that were due, moves just the scopes it tells of, and takes each back to its
\* offerer.  No other step moves more than one scope.
SweepIsExact ==
    [][LET moved == {k \in Registered : scopes'[k] # scopes[k]}
           due == {k \in Registered :
                     IsOffered(scopes[k]) /\ scopes[k].holder.expires <= now}
           told == {e.scope : e \in {x \in effects' : x.kind = "expired"}}
       IN  /\ ExpireDue => told = due
           /\ told \subseteq due
           /\ told # {} \/ Cardinality(moved) > 1 => moved = told
           /\ \A k \in told : scopes'[k] = ExpireOffer(scopes[k])]_vars

\* The engine implements the fenced lease: what the eleven commands and
\* expiry do to holders and generations is what FencedLease allows.
Lease == INSTANCE FencedLease WITH
    owner <- [k \in Scopes |-> IF k \in Registered THEN EffectiveHolder(scopes[k])
                                                  ELSE NoPrincipal],
    token <- [k \in Scopes |-> IF k \in Registered THEN scopes[k].generation ELSE 0]

LeaseSpec == Lease!LeaseSpec
=============================================================================
