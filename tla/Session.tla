------------------------------ MODULE Session ------------------------------
(***************************************************************************)
(* SessionEngine of crates/pilotage-session: handshake, leases, control    *)
(* frames, action commands, cooperative handover, the holder-silence       *)
(* watchdog, link loss and recovery, device authority loss and capability  *)
(* refresh.  Each action is one call of the driver; it leaves the actions  *)
(* the driver has to enact in `acts` and the lease reply in `reply`.       *)
(*                                                                         *)
(* now            the host's monotonic clock, in abstract ticks            *)
(* catalog        the advertised members: a partial function to            *)
(*                descriptors [group, intents, actions]                    *)
(* clients        welcomed connections: a partial function to the          *)
(*                principal and whether it announced a control profile     *)
(* nextPrincipal  next identity; the code's session and principal counters *)
(*                advance together, so one number stands for both          *)
(* pairs          the registered authority pairs (LeasePair)               *)
(*                                                                         *)
(* Not modelled here: how the age of a sample is estimated and how control *)
(* windows and activation revisions advance (a frame passes those checks   *)
(* or it does not), the simulation-only legacy payloads, Ping, and what    *)
(* Broadcast and rejection messages say.                                   *)
(***************************************************************************)
EXTENDS LeasePair, FiniteSets

CONSTANTS
    Clients,         \* connections
    Catalogs,        \* capability catalogs the adapter may advertise
    HolderSilence,   \* the watchdog's window
    OfferTtl,        \* how long an offer stands
    MaxGeneration,   \* bound: no lease of a pair beyond this generation
    MaxTime          \* bound: the clock

ASSUME PrincipalsAssumption == Principals \subseteq Nat
ASSUME DurationsAssumption == HolderSilence \in Nat /\ OfferTtl \in Nat
ASSUME BoundsAssumption == MaxGeneration \in Nat /\ MaxTime \in Nat
ASSUME CatalogsAssumption ==
    \A c \in Catalogs :
        /\ DOMAIN c \subseteq Members
        /\ \A m \in DOMAIN c :
              c[m] \in [group : Scopes, intents : BOOLEAN, actions : BOOLEAN]

VARIABLES now, catalog, clients, nextPrincipal, pairs, acts, reply

vars == <<now, catalog, clients, nextPrincipal, pairs, acts, reply>>

-----------------------------------------------------------------------------
(* The catalog.                                                            *)

Groups(c) == {c[m].group : m \in DOMAIN c}
Registered == DOMAIN pairs
Declared(m) == m \in DOMAIN catalog

\* A declared member's exclusive-authority group; handlers that accept an
\* undeclared member take its own name for the pair.
PairOf(m) == IF Declared(m) THEN catalog[m].group ELSE m

\* No member of the group has a setpoint stream.
IsCommandOnly(c, k) ==
    k \in Groups(c) /\ \A m \in DOMAIN c : c[m].group = k => ~ c[m].intents

CommandOnly(k) == IsCommandOnly(catalog, k)

-----------------------------------------------------------------------------
(* Clients.                                                                *)

Welcomed(c) == c \in DOMAIN clients
Principal(c) == clients[c].principal

NoReply == [kind |-> "none"]
Answer(c, kind, m, g) == [client |-> c, kind |-> kind, member |-> m, generation |-> g]

\* The generation a reply names: 0 for a pair the registry does not know.
GenerationOf(ps, k) == IF k \in DOMAIN ps THEN ps[k].pair.generation ELSE 0

-----------------------------------------------------------------------------
(* What every call shares.                                                 *)

Silence == now + HolderSilence
Fan(r, k, outcome) == FanOut(r, outcome, Silence, CommandOnly(k))

\* Every client message is judged after the deadlines.
Overdue == [k \in Registered |-> ExpireOverdue(pairs[k], k, now, CommandOnly(k))]
Untouched == [k \in Registered |-> Begin(pairs[k])]

\* Bound: no lease beyond MaxGeneration.
Bounded(generation) == generation <= MaxGeneration

\* End of a call: install the pairs and hand their actions to the driver.
Finish(progress, answer) ==
    /\ pairs' = [k \in DOMAIN progress |-> progress[k].pair]
    /\ acts' = [k \in DOMAIN progress |-> progress[k].acts]
    /\ reply' = answer

Init ==
    /\ now = 0
    /\ catalog \in Catalogs
    /\ clients = [c \in {} |-> [principal |-> 0, announced |-> FALSE]]
    /\ nextPrincipal = 1
    /\ pairs = [k \in Groups(catalog) |-> NewPair]
    /\ acts = [k \in Groups(catalog) |-> <<>>]
    /\ reply = NoReply

-----------------------------------------------------------------------------
(* Handshake and disconnect.                                               *)

\* A second hello changes nothing: the client is asked to close.
Hello(c) ==
    /\ Welcomed(c) \/ nextPrincipal \in Principals
    /\ IF Welcomed(c)
       THEN UNCHANGED <<clients, nextPrincipal>>
       ELSE /\ clients' = [d \in DOMAIN clients \cup {c} |->
                              IF d = c THEN [principal |-> nextPrincipal,
                                             announced |-> FALSE]
                                       ELSE clients[d]]
            /\ nextPrincipal' = nextPrincipal + 1
    /\ Finish(Overdue, NoReply)
    /\ UNCHANGED <<now, catalog>>

\* Any other message before the handshake only closes the client, and so
\* does a hello with an old protocol version.
Premature(c) ==
    /\ ~ Welcomed(c)
    /\ Finish(Overdue, NoReply)
    /\ UNCHANGED <<now, catalog, clients, nextPrincipal>>

\* The registry forgets the client, then each pair it held is reported lost.
Disconnect(c) ==
    /\ Welcomed(c)
    /\ LET p == Principal(c)
           lost(k) ==
               LET r == [Overdue[k] EXCEPT !.pair.heldBy = @ \ {p}]
               IN  IF p \in Overdue[k].pair.heldBy
                   THEN Fan(r, k, HolderLinkChanged(r.pair.auth, k, p, "lost"))
                   ELSE r
       IN  Finish([k \in Registered |-> lost(k)], NoReply)
    /\ clients' = [d \in DOMAIN clients \ {c} |-> clients[d]]
    /\ UNCHANGED <<now, catalog, nextPrincipal>>

\* A client announces the control profile its frames are bound to.  Which
\* revision it is, and whether a later one is accepted, tells no state apart
\* here: a frame naming another revision than the announced one is refused.
ProfileActivation(c) ==
    /\ Welcomed(c)
    /\ clients' = [clients EXCEPT ![c].announced = TRUE]
    /\ Finish(Overdue, NoReply)
    /\ UNCHANGED <<now, catalog, nextPrincipal>>

-----------------------------------------------------------------------------
(* Leases and handover.                                                    *)

\* Mutant: the holder is granted any member of its group.
StandingGrantAnyMember(pair, p, m) == pair.holder = p

StandingGrant(pair, p, m) == pair.holder = p /\ pair.member = m

\* A held pair answers the standing grant to its holder for the same member
\* and refuses everybody else; a free one goes through the authority engine,
\* and the new lease is bound to the member it was asked for.
Lease(c, m) ==
    /\ Welcomed(c)
    /\ LET k == PairOf(m)
           p == Principal(c)
           r == Overdue[k]
           outcome == Grant(r.pair.auth, k, p)
           fanned == Fan(r, k, outcome)
           bound == [fanned EXCEPT !.pair.member = m]
       IN  CASE ~ Declared(m) ->
                  Finish(Overdue, Answer(c, "denied", m, 0))
             [] Declared(m) /\ r.pair.holder # NoPrincipal ->
                  Finish(Overdue,
                         Answer(c, IF StandingGrant(r.pair, p, m)
                                   THEN "granted" ELSE "denied",
                                m, r.pair.generation))
             [] Declared(m) /\ r.pair.holder = NoPrincipal ->
                  IF outcome.effect.kind = "rejected"
                  THEN Finish(Overdue, Answer(c, "denied", m, r.pair.generation))
                  ELSE /\ Bounded(bound.pair.generation)
                       /\ Finish([Overdue EXCEPT ![k] = bound],
                                 Answer(c, "granted", m, bound.pair.generation))
    /\ UNCHANGED <<now, catalog, clients, nextPrincipal>>

ReleaseLease(c, m) ==
    /\ Welcomed(c)
    /\ LET k == PairOf(m)
           outcome == Release(Overdue[k].pair.auth, k, Principal(c))
           after == [Overdue EXCEPT ![k] = Fan(@, k, outcome)]
       IN  IF k \in Registered /\ outcome.effect.kind = "revoked"
           THEN Finish(after, Answer(c, "released", m, GenerationOf(after, k)))
           ELSE Finish(Overdue, Answer(c, "notReleased", m, GenerationOf(Overdue, k)))
    /\ UNCHANGED <<now, catalog, clients, nextPrincipal>>

\* The ask is broadcast and changes nothing.
TransferRequest(c, m) ==
    /\ Welcomed(c)
    /\ Finish(Overdue, NoReply)
    /\ UNCHANGED <<now, catalog, clients, nextPrincipal>>

\* The recipient is any principal the client names.
TransferOffer(c, m, q) ==
    /\ Welcomed(c)
    /\ LET k == PairOf(m)
       IN  IF Declared(m)
           THEN Finish([Overdue EXCEPT ![k] =
                          Fan(@, k, Offer(@.pair.auth, k, Principal(c), q, now, OfferTtl))],
                       NoReply)
           ELSE Finish(Overdue, NoReply)
    /\ UNCHANGED <<now, catalog, clients, nextPrincipal>>

\* The message names no generation: the handler supplies the registry's.
TransferAccept(c, m) ==
    /\ Welcomed(c)
    /\ LET k == PairOf(m)
           r == Overdue[k]
           outcome == Accept(r.pair.auth, k, Principal(c), r.pair.generation, now)
           fanned == Fan(r, k, outcome)
       IN  IF Declared(m)
           THEN /\ Bounded(fanned.pair.generation)
                /\ Finish([Overdue EXCEPT ![k] =
                          IF outcome.effect.kind = "committed"
                          THEN [fanned EXCEPT !.pair.member = m]
                          ELSE fanned],
                       NoReply)
           ELSE Finish(Overdue, NoReply)
    /\ UNCHANGED <<now, catalog, clients, nextPrincipal>>

-----------------------------------------------------------------------------
(* Control.                                                                *)

\* Mutant: the registry's holder is not asked for the member it leased.
HoldsMemberAnySibling(pair, p, m) == pair.holder = p

HoldsMember(pair, p, m) == pair.holder = p /\ pair.member = m

\* Frames and commands are judged after the deadlines too.
Judged == Overdue

\* A datagram control frame that passes every check.
Frame(c, m, g, n, posture) ==
    LET k == PairOf(m)
        p == Principal(c)
        pair == Judged[k].pair
    IN  /\ Welcomed(c)
        /\ k \in Registered
        /\ HoldsMember(pair, p, m)
        /\ FrameAccepted(pair.auth, g)
        /\ clients[c].announced
        /\ Declared(m) /\ catalog[m].intents
        /\ SequenceAdmits(pair, g, n)
        /\ Finish([Judged EXCEPT ![k] = AcceptFrame(@, p, m, g, n, posture, Silence)],
                  NoReply)
        /\ UNCHANGED <<now, catalog, clients, nextPrincipal>>

\* A reliable action command that passes every check: bound to the registry's
\* own records, it neither refreshes the holder's deadline nor demonstrates
\* recovery.
ActionCommand(c, m, g) ==
    LET k == PairOf(m)
        p == Principal(c)
        pair == Judged[k].pair
    IN  /\ Welcomed(c)
        /\ Declared(m)
        /\ HoldsMember(pair, p, m)
        /\ pair.generation = g
        /\ clients[c].announced
        /\ catalog[m].actions
        /\ Finish([Judged EXCEPT ![k] = Emitting(@, ApplyFrame(p, m, g, "action"))],
                  NoReply)
        /\ UNCHANGED <<now, catalog, clients, nextPrincipal>>

\* A frame or command that fails a check (a foreign session, an old sample, an
\* expired control window, another revision than the announced one, or one of
\* the guards above) is rejected: nothing but the deadlines takes effect.
Refuse(c) ==
    /\ Welcomed(c)
    /\ Finish(Judged, NoReply)
    /\ UNCHANGED <<now, catalog, clients, nextPrincipal>>

-----------------------------------------------------------------------------
(* Calls by the driver.                                                    *)

\* handle_tick: deadlines, then every clear the adapter refused is asked for
\* again.
HandleTick ==
    /\ Finish([k \in Registered |-> RetryClear(Overdue[k])], NoReply)
    /\ UNCHANGED <<now, catalog, clients, nextPrincipal>>

\* Mutant: a report is about whatever the session holds now.
SessionHoldsAnyGeneration(session, pair, g) ==
    \E c \in DOMAIN clients : Principal(c) = session /\ pair.holder = session

\* Whether a welcomed client of this session holds the pair at generation g.
SessionHolds(session, pair, g) ==
    /\ pair.generation = g
    /\ \E c \in DOMAIN clients : Principal(c) = session /\ pair.holder = session

\* The device took control away from a lease.  The report may come late: it
\* only revokes the lease it names.
DeviceAuthorityLoss(session, m, g) ==
    /\ LET k == PairOf(m)
       IN  Finish(IF Declared(m) /\ SessionHolds(session, pairs[k], g)
                  THEN [Untouched EXCEPT ![k] = Fan(@, k, Revoke(@.pair.auth, k))]
                  ELSE Untouched,
                  NoReply)
    /\ UNCHANGED <<now, catalog, clients, nextPrincipal>>

\* Mutant: only a member that is gone changes its group.
DroppedGroups(next) ==
    {catalog[m].group : m \in {x \in DOMAIN catalog : x \notin DOMAIN next}}

\* The groups of the members whose descriptor the next catalog changes or
\* drops; a member that is only new changes none.
ChangedGroups(next) ==
    {catalog[m].group : m \in {x \in DOMAIN catalog :
                                 x \notin DOMAIN next \/ next[x] # catalog[x]}}

\* Changed groups lose their authority, judged by the old catalog; then the
\* new one is in force and its unknown groups are registered.  No pair is
\* ever unregistered.
RefreshCapabilities(next) ==
    /\ next # catalog
    /\ LET revoked(k) == IF k \in ChangedGroups(next)
                         THEN Fan(Untouched[k], k, Revoke(pairs[k].auth, k))
                         ELSE Untouched[k]
       IN  /\ \A k \in Registered : Bounded(pairs[k].generation)
           /\ Finish([k \in Registered \cup Groups(next) |->
                     IF k \in Registered THEN revoked(k) ELSE Begin(NewPair)],
                  NoReply)
    /\ catalog' = next
    /\ UNCHANGED <<now, clients, nextPrincipal>>

\* The driver enacts the actions of a call before it makes the next one.
\* When the adapter takes a clear it says so, once per clear.
Confirm(k) ==
    /\ \E i \in DOMAIN acts[k] :
          /\ acts[k][i].kind = "clear"
          /\ pairs' = [pairs EXCEPT ![k] = ConfirmCleared(@, acts[k][i].generation)]
          /\ acts' = [acts EXCEPT ![k] = SubSeq(@, i + 1, Len(@))]
    /\ reply' = NoReply
    /\ UNCHANGED <<now, catalog, clients, nextPrincipal>>

\* The host's clock.
Tick ==
    /\ now < MaxTime
    /\ now' = now + 1
    /\ acts' = [k \in Registered |-> <<>>]
    /\ reply' = NoReply
    /\ UNCHANGED <<catalog, clients, nextPrincipal, pairs>>

ClientCall(c) ==
    \/ Hello(c)
    \/ Premature(c)
    \/ Disconnect(c)
    \/ ProfileActivation(c)
    \/ Refuse(c)
    \/ \E m \in Members :
          \/ Lease(c, m)
          \/ ReleaseLease(c, m)
          \/ TransferRequest(c, m)
          \/ TransferAccept(c, m)
          \/ \E q \in Principals : TransferOffer(c, m, q)
          \/ \E g \in 0..MaxGeneration :
                \/ ActionCommand(c, m, g)
                \/ \E n \in 0..(SequenceSize - 1), posture \in {"neutral", "driving"} :
                      Frame(c, m, g, n, posture)

DriverCall ==
    \/ HandleTick
    \/ \E session \in Principals, m \in Members, g \in 0..MaxGeneration :
          DeviceAuthorityLoss(session, m, g)
    \/ \E next \in Catalogs : RefreshCapabilities(next)

Next ==
    \/ \E c \in Clients : ClientCall(c)
    \/ DriverCall
    \/ \E k \in Registered : Confirm(k)
    \/ Tick

Spec == Init /\ [][Next]_vars

-----------------------------------------------------------------------------
(* Properties.                                                             *)

\* The registry the session answers from is the authority engine's state: the
\* same holder, the same generation, in exactly the holder's held set, and a
\* member is bound while and only while somebody holds the pair.
RegistryAgrees ==
    \A k \in Registered :
        LET pair == pairs[k]
        IN  /\ pair.holder = EffectiveHolder(pair.auth)
            /\ pair.generation = pair.auth.generation
            /\ pair.heldBy = {pair.holder} \ {NoPrincipal}
            /\ (pair.member = NoMember) = (pair.holder = NoPrincipal)

\* No lease outlives its connection: whoever holds a pair, or could get it
\* back when its offer expires, is a connected client's principal, and no two
\* clients share a principal.
HoldersAreConnected ==
    /\ \A k \in Registered :
          LET p == EffectiveHolder(pairs[k].auth)
          IN  p # NoPrincipal => \E c \in DOMAIN clients : Principal(c) = p
    /\ \A c, d \in DOMAIN clients : Principal(c) = Principal(d) => c = d

\* A holder who goes silent is noticed: every holder of a group with a
\* setpoint stream is watched, nobody else is, and its deadline is never
\* further away than one silence window.
HoldersAreWatched ==
    \A k \in Registered :
        LET pair == pairs[k]
        IN  IF pair.holder # NoPrincipal /\ ~ CommandOnly(k)
            THEN pair.watch.principal = pair.holder /\ pair.watch.deadline <= Silence
            ELSE ~ IsWatched(pair)

\* The three together: the five maps keyed by a pair say the same, at every
\* step of every call (fan_out_authority, record_holder_change).
HoldersAreAccountedFor == RegistryAgrees /\ HoldersAreConnected /\ HoldersAreWatched

\* A clear that waits for the adapter was asked for by the holder of today, at
\* the generation of today, and the driver is never told to clear at another
\* one: no clear crosses a change of holder (ADR-0010).
ClearsAreCurrent ==
    \A k \in Registered :
        LET pair == pairs[k]
        IN  /\ pair.loss.phase = "pending" =>
                   /\ pair.loss.generation = pair.auth.generation
                   /\ EffectiveHolder(pair.auth) # NoPrincipal
            /\ \A i \in DOMAIN acts[k] :
                   acts[k][i].kind = "clear" => pair.loss = ClearPending(acts[k][i].generation)

ActsOf(as, kind) == {i \in DOMAIN as : as[i].kind = kind}

\* Only a lease drives a vehicle: whatever frame or command the driver is told
\* to apply comes from the pair's effective holder, for the member it leased,
\* at the generation in force, and before its silence deadline.
DrivenUnderLease ==
    \A k \in Registered : \A i \in ActsOf(acts[k], "apply") :
        LET act == acts[k][i]
        IN  /\ act.principal = EffectiveHolder(pairs[k].auth)
            /\ act.generation = pairs[k].auth.generation
            /\ act.member = pairs[k].member
            /\ ~ IsSilent(pairs[k], now)

\* Both together: whatever the driver is told to apply or to clear is the
\* business of the lease in force, and no later lease inherits it.
ActsAreLeased == ClearsAreCurrent /\ DrivenUnderLease

\* What a client is told of its lease is so.
RepliesAreTrue ==
    reply # NoReply =>
        LET k == PairOf(reply.member)
            holds == /\ k \in Registered
                     /\ pairs[k].auth.generation = reply.generation
                     /\ EffectiveHolder(pairs[k].auth) = Principal(reply.client)
                     /\ pairs[k].member = reply.member
        IN  (reply.kind = "granted") = holds

\* Neutralize after fence, exactly once: a call that takes a pair from its
\* holder, other than for the recipient of its offer, tells the driver to
\* engage the policy once, at a generation that fences the holder, and leaves
\* the pair latched, even if the same call leases it again.  No other call
\* engages anything, and a command-only group is never engaged.  (A
\* confirmation is no call: it comes while the driver enacts one, when other
\* pairs may still have theirs to engage.)
LossEngagesOnce ==
    [][\/ \E k \in Registered : Confirm(k)
       \/ \A k \in Registered :
             LET pair == pairs[k]
                 before == EffectiveHolder(pair.auth)
                 g == pair.auth.generation
                 handedOver == /\ pairs'[k].auth.generation = g + 1
                               /\ EffectiveHolder(pairs'[k].auth) # NoPrincipal
                 lost == /\ before # NoPrincipal
                         /\ pairs'[k].auth.generation # g
                         /\ ~ handedOver
                         /\ ~ CommandOnly(k)
                 engages == ActsOf(acts'[k], "engage")
             IN  /\ Cardinality(engages) = IF lost THEN 1 ELSE 0
                 /\ \A i \in engages : acts'[k][i].generation = g + 1
                 /\ lost => pairs'[k].loss = Engaged]_vars

\* A deadline that has passed has passed: whatever a silent holder still
\* sends, its deadline does not move and its lease applies nothing.
DeadlineIsFinal ==
    [][\A k \in Registered :
          IsSilent(pairs[k], now) =>
             LET g == pairs[k].auth.generation
             IN  /\ pairs'[k].auth.generation = g => pairs'[k].watch = pairs[k].watch
                 /\ \A i \in ActsOf(acts'[k], "apply") : acts'[k][i].generation # g]_vars

\* A latched pair comes back by demonstration only: it starts to clear with a
\* neutral frame of its effective holder, applied after the clear, and it is
\* clear when the adapter confirms at the generation of that very lease.
RecoveryIsDemonstrated ==
    [][\A k \in Registered :
          LET loss == pairs[k].loss
              after == pairs'[k]
              g == after.auth.generation
          IN  /\ loss # NotLost /\ after.loss = NotLost => loss = ClearPending(g)
              /\ after.loss.phase = "pending" /\ after.loss # loss =>
                    acts'[k] = <<Clear(g, FALSE),
                                 ApplyFrame(EffectiveHolder(after.auth), after.member,
                                            g, "neutral")>>]_vars

\* The three together, a link loss from its deadline to its recovery: a holder
\* that is overdue stays overdue, its loss engages the policy exactly once, and
\* only a demonstration under the lease in force ends it (link_loss.rs).
LossesRunTheirCourse == LossEngagesOnce /\ DeadlineIsFinal /\ RecoveryIsDemonstrated

\* A device's report that it took control from a lease ends that lease or
\* nothing, however late it comes.
LateReportsHarmless ==
    [][\A session \in Principals, m \in Members, g \in 0..MaxGeneration :
          DeviceAuthorityLoss(session, m, g) =>
             \A k \in Registered :
                pairs'[k] # pairs[k] =>
                   /\ EffectiveHolder(pairs[k].auth) = session
                   /\ pairs[k].auth.generation = g]_vars

\* No lease survives a change of its contract: a member whose descriptor
\* changes or disappears is held by nobody at the generation it was.
ContractsAreFenced ==
    [][\A k \in Registered :
          LET m == pairs[k].member
          IN  m # NoMember /\ pairs'[k].auth.generation = pairs[k].auth.generation =>
                 m \in DOMAIN catalog' /\ catalog'[m] = catalog[m]]_vars
=============================================================================
