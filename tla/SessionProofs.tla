--------------------------- MODULE SessionProofs ----------------------------
(***************************************************************************)
(* That the five maps of the session engine agree, that the driver is told *)
(* to apply and to clear only for the lease in force, that a link loss     *)
(* runs from its deadline to its recovery in order, and that every reply   *)
(* is true; and, with the engine actor, that engine and adapter agree on   *)
(* every latch, and on the lease that an answer is about: for every        *)
(* catalog, set of clients and members, duration and bound.                *)
(***************************************************************************)
EXTENDS Host, SequenceTheorems, FiniteSetTheorems, TLAPS

-----------------------------------------------------------------------------
(* One scope of the authority engine.                                      *)

IsScope(s) ==
    /\ {"generation", "holder", "link"} \subseteq DOMAIN s
    /\ s.generation \in Nat
    /\ \/ s.holder = Unassigned
       \/ \E p \in Principals : \E class : s.holder = Held(p, class)
       \/ \E p \in Principals : \E q : \E deadline \in Nat :
             s.holder = Offered(p, q, deadline)

\* The effect of a command tells what became of the holder.
Tells(s, o) ==
    /\ IsScope(o.state)
    /\ o.effect.kind \in NoteKinds \cup {"granted", "committed", "revoked", "linkLost"}
    /\ o.effect.kind \in NoteKinds =>
          /\ EffectiveHolder(o.state) = EffectiveHolder(s)
          /\ o.state.generation = s.generation
    /\ o.effect.kind \in ChangeKinds =>
          /\ o.effect.generation = o.state.generation
          /\ o.state.generation = s.generation + 1
          /\ o.effect.old = EffectiveHolder(s) /\ o.effect.new = EffectiveHolder(o.state)
    /\ o.effect.kind \in {"granted", "committed"} => EffectiveHolder(o.state) \in Principals
    /\ o.effect.kind \in {"revoked", "linkLost"} => EffectiveHolder(o.state) = NoPrincipal
    /\ o.effect.kind = "linkLost" => o.effect.old # NoPrincipal

\* A scope is free, held or offered.
LEMMA HolderOfScope ==
    ASSUME NEW s, IsScope(s)
    PROVE  /\ EffectiveHolder(s) \in Principals \cup {NoPrincipal}
           /\ s.holder = Unassigned <=> EffectiveHolder(s) = NoPrincipal
           /\ IsOffered(s) => /\ s.holder.from \in Principals
                              /\ EffectiveHolder(s) = s.holder.from
                              /\ s.holder.expires \in Nat
<1>1. CASE s.holder = Unassigned
  BY <1>1, NoPrincipalAssumption DEF Unassigned, EffectiveHolder, IsOffered
<1>2. CASE \E p \in Principals : \E class : s.holder = Held(p, class)
  BY <1>2, NoPrincipalAssumption DEF Held, Unassigned, EffectiveHolder, IsOffered
<1>3. CASE \E p \in Principals : \E q : \E deadline \in Nat :
             s.holder = Offered(p, q, deadline)
  BY <1>3, NoPrincipalAssumption DEF Offered, Unassigned, EffectiveHolder, IsOffered
<1> QED  BY <1>1, <1>2, <1>3 DEF IsScope

\* A command that changes nothing says so.
LEMMA UnchangedTells ==
    ASSUME NEW s, IsScope(s), NEW k, NEW kind \in NoteKinds
    PROVE  Tells(s, Unchanged(s, k, kind))
BY DEF Tells, Unchanged, Outcome, Note, NoteKinds, ChangeKinds

\* A new holder, or none.
LEMMA InstallTells ==
    ASSUME NEW s, IsScope(s), NEW k
    PROVE  /\ \A p \in Principals : \A kind \in {"granted", "committed"} :
                 /\ Tells(s, Install(s, k, kind, Held(p, NoClass)))
                 /\ EffectiveHolder(Install(s, k, kind, Held(p, NoClass)).state) = p
                 /\ Install(s, k, kind, Held(p, NoClass)).effect.kind = kind
           /\ Tells(s, Install(s, k, "revoked", Unassigned))
           /\ Install(s, k, "revoked", Unassigned).effect.kind = "revoked"
           /\ EffectiveHolder(s) # NoPrincipal =>
                 Tells(s, Install(s, k, "linkLost", Unassigned))
           /\ Install(s, k, "linkLost", Unassigned).effect.kind = "linkLost"
<1> DEFINE After(holder) == [generation |-> s.generation + 1, holder |-> holder,
                             link |-> "nominal"]
<1>1. ASSUME NEW holder
      PROVE  /\ After(holder).holder = holder /\ After(holder).generation \in Nat
             /\ After(holder).generation = s.generation + 1
             /\ DOMAIN After(holder) = {"generation", "holder", "link"}
  <2>1. s.generation + 1 \in Nat
    BY DEF IsScope
  <2> QED  BY <2>1
<1>3. ASSUME NEW kind, NEW holder
      PROVE  /\ Install(s, k, kind, holder).state = After(holder)
             /\ Install(s, k, kind, holder).effect.kind = kind
             /\ Install(s, k, kind, holder).effect.old = EffectiveHolder(s)
             /\ Install(s, k, kind, holder).effect.new = EffectiveHolder(After(holder))
             /\ Install(s, k, kind, holder).effect.generation = After(holder).generation
  BY DEF Install, Outcome, Change
<1> HIDE DEF After
<1>2. /\ IsScope(After(Unassigned)) /\ EffectiveHolder(After(Unassigned)) = NoPrincipal
      /\ \A p \in Principals :
            /\ IsScope(After(Held(p, NoClass)))
            /\ EffectiveHolder(After(Held(p, NoClass))) = p
  <2>1. IsScope(After(Unassigned)) /\ EffectiveHolder(After(Unassigned)) = NoPrincipal
    BY <1>1 DEF IsScope, EffectiveHolder, Unassigned
  <2>2. ASSUME NEW p \in Principals
        PROVE  IsScope(After(Held(p, NoClass)))
    <3>1. /\ After(Held(p, NoClass)).holder = Held(p, NoClass)
          /\ After(Held(p, NoClass)).generation \in Nat
          /\ DOMAIN After(Held(p, NoClass)) = {"generation", "holder", "link"}
      BY <1>1
    <3> QED  BY <3>1 DEF IsScope
  <2>3. ASSUME NEW p \in Principals
        PROVE  EffectiveHolder(After(Held(p, NoClass))) = p
    <3>1. After(Held(p, NoClass)).holder = Held(p, NoClass)
      BY <1>1
    <3> QED  BY <3>1 DEF EffectiveHolder, Held
  <2> QED  BY <2>1, <2>2, <2>3
<1>4. ASSUME NEW p \in Principals, NEW kind \in {"granted", "committed"}
      PROVE  /\ Tells(s, Install(s, k, kind, Held(p, NoClass)))
             /\ EffectiveHolder(Install(s, k, kind, Held(p, NoClass)).state) = p
             /\ Install(s, k, kind, Held(p, NoClass)).effect.kind = kind
  <2> DEFINE o == Install(s, k, kind, Held(p, NoClass))
  <2>1. /\ o.state = After(Held(p, NoClass)) /\ o.effect.kind = kind
        /\ o.effect.old = EffectiveHolder(s) /\ o.effect.new = EffectiveHolder(o.state)
        /\ o.effect.generation = o.state.generation
        /\ o.state.generation = s.generation + 1
    BY <1>1, <1>3
  <2>2. IsScope(o.state) /\ EffectiveHolder(o.state) = p
    BY <1>2, <2>1
  <2> HIDE DEF o
  <2>3. Tells(s, o)
    BY <2>1, <2>2 DEF Tells, NoteKinds, ChangeKinds
  <2> QED  BY <2>1, <2>2, <2>3 DEF o
<1>5. ASSUME NEW kind \in {"revoked", "linkLost"},
             kind = "linkLost" => EffectiveHolder(s) # NoPrincipal
      PROVE  Tells(s, Install(s, k, kind, Unassigned))
  <2> DEFINE o == Install(s, k, kind, Unassigned)
  <2>1. /\ o.state = After(Unassigned) /\ o.effect.kind = kind
        /\ o.effect.old = EffectiveHolder(s) /\ o.effect.new = EffectiveHolder(o.state)
        /\ o.effect.generation = o.state.generation
        /\ o.state.generation = s.generation + 1
    BY <1>1, <1>3
  <2>2. IsScope(o.state) /\ EffectiveHolder(o.state) = NoPrincipal
    BY <1>2, <2>1
  <2> HIDE DEF o
  <2>3. Tells(s, o)
    BY <1>5, <2>1, <2>2 DEF Tells, NoteKinds, ChangeKinds
  <2> QED  BY <2>3 DEF o
<1>6. /\ Install(s, k, "revoked", Unassigned).effect.kind = "revoked"
      /\ Install(s, k, "linkLost", Unassigned).effect.kind = "linkLost"
  BY <1>3
<1>7. /\ Tells(s, Install(s, k, "revoked", Unassigned))
      /\ EffectiveHolder(s) # NoPrincipal => Tells(s, Install(s, k, "linkLost", Unassigned))
  BY <1>5
<1> QED  BY <1>4, <1>6, <1>7

\* An expired offer stays with its offerer.
LEMMA ExpiryTells ==
    ASSUME NEW s, IsScope(s), IsOffered(s)
    PROVE  /\ IsScope(ExpireOffer(s))
           /\ EffectiveHolder(ExpireOffer(s)) = EffectiveHolder(s)
           /\ ExpireOffer(s).generation = s.generation
<1> DEFINE after == ExpireOffer(s)
<1>1. s.holder.from \in Principals /\ EffectiveHolder(s) = s.holder.from
  BY HolderOfScope
<1>2. /\ after.holder = Held(s.holder.from, NoClass) /\ after.generation = s.generation
      /\ DOMAIN after = DOMAIN s
  BY DEF ExpireOffer, IsScope
<1> HIDE DEF after
<1>3. IsScope(after)
  BY <1>1, <1>2 DEF IsScope
<1>4. EffectiveHolder(after) = s.holder.from
  BY <1>2 DEF EffectiveHolder, Held
<1> QED  BY <1>1, <1>2, <1>3, <1>4 DEF after

\* The link of the holder governs its scope, and no other.
LEMMA LinkTells ==
    ASSUME NEW s, IsScope(s), NEW k, NEW p, p # NoPrincipal
    PROVE  /\ Tells(s, HolderLinkChanged(s, k, p, "lost"))
           /\ HolderLinkChanged(s, k, p, "lost").effect.kind =
                 IF EffectiveHolder(s) = p THEN "linkLost" ELSE "linkState"
<1>1. HolderLinkChanged(s, k, p, "lost") = IF EffectiveHolder(s) = p
                                          THEN Install(s, k, "linkLost", Unassigned)
                                          ELSE Unchanged(s, k, "linkState")
  BY DEF HolderLinkChanged
<1>2. Unchanged(s, k, "linkState").effect.kind = "linkState"
  BY DEF Unchanged, Outcome, Note
<1> QED  BY <1>1, <1>2, InstallTells, UnchangedTells DEF NoteKinds

\* A note is about a scope as it was.
LEMMA NoteTells ==
    ASSUME NEW s, IsScope(s), NEW k, NEW kind \in NoteKinds
    PROVE  Tells(s, Unchanged(s, k, kind)) /\ Unchanged(s, k, kind).effect.kind = kind
BY UnchangedTells DEF Unchanged, Outcome, Note

\* A grant installs whom it is for, or nobody.
LEMMA GrantTells ==
    ASSUME NEW s, IsScope(s), NEW k, NEW p \in Principals
    PROVE  /\ Tells(s, Grant(s, k, p))
           /\ Grant(s, k, p).effect.kind \in {"granted", "rejected"}
           /\ Grant(s, k, p).effect.kind = "granted" => EffectiveHolder(Grant(s, k, p).state) = p
BY NoteTells, InstallTells, ZenonT(60) DEF Grant, NoteKinds

\* A release empties the scope of its holder, and no other.
LEMMA ReleaseTells ==
    ASSUME NEW s, IsScope(s), NEW k, NEW p
    PROVE  /\ Tells(s, Release(s, k, p))
           /\ Release(s, k, p).effect.kind \in {"revoked", "rejected"}
BY NoteTells, InstallTells DEF Release, NoteKinds

\* A revocation empties the scope, whoever holds it.
LEMMA RevokeTells ==
    ASSUME NEW s, IsScope(s), NEW k
    PROVE  Tells(s, Revoke(s, k)) /\ Revoke(s, k).effect.kind = "revoked"
BY InstallTells DEF Revoke

\* An offer leaves the scope with its holder.
LEMMA OfferTells ==
    ASSUME NEW s, IsScope(s), NEW k, NEW p \in Principals, NEW q,
           NEW t \in Nat, NEW ttl \in Nat
    PROVE  /\ Tells(s, Offer(s, k, p, q, t, ttl))
           /\ Offer(s, k, p, q, t, ttl).effect.kind \in NoteKinds
<1>1. CASE IsHeldBy(s, p)
  <2> DEFINE after == [s EXCEPT !.holder = Offered(p, q, t + ttl)]
  <2>1. /\ after.holder = Offered(p, q, t + ttl) /\ after.generation = s.generation
        /\ DOMAIN after = DOMAIN s
    BY DEF IsScope
  <2>2. Offer(s, k, p, q, t, ttl) = Outcome(after, Note("offered", k))
    BY <1>1 DEF Offer
  <2> HIDE DEF after
  <2>3. IsScope(after)
    <3>1. t + ttl \in Nat /\ p \in Principals
      OBVIOUS
    <3> QED  BY <2>1, <3>1 DEF IsScope
  <2>4. EffectiveHolder(after) = p /\ EffectiveHolder(s) = p
    BY <1>1, <2>1 DEF EffectiveHolder, Offered, IsHeldBy
  <2> QED
    BY <2>1, <2>2, <2>3, <2>4 DEF Tells, Outcome, Note, NoteKinds, ChangeKinds
<1>2. CASE ~ IsHeldBy(s, p)
  BY NoteTells, <1>2 DEF Offer, NoteKinds
<1> QED  BY <1>1, <1>2

\* An accept commits the offer to whom it is for, or changes no holder.
LEMMA AcceptTells ==
    ASSUME NEW s, IsScope(s), NEW k, NEW p \in Principals, NEW g, NEW t \in Nat
    PROVE  /\ Tells(s, Accept(s, k, p, g, t))
           /\ Accept(s, k, p, g, t).effect.kind \in {"committed"} \cup NoteKinds
           /\ Accept(s, k, p, g, t).effect.kind = "committed" =>
                 EffectiveHolder(Accept(s, k, p, g, t).state) = p
<1> DEFINE o == Accept(s, k, p, g, t)
           expired == Outcome(ExpireOffer(s), Note("expired", k))
           committed == Install(s, k, "committed", Held(p, NoClass))
           rejected == Unchanged(s, k, "rejected")
<1>1. o = rejected \/ o = committed \/ (IsOffered(s) /\ o = expired)
  <2>1. CASE ~ IsOffered(s)
    BY <2>1 DEF Accept
  <2>2. CASE IsOffered(s) /\ t >= s.holder.expires
    <3>1. ~ (t < s.holder.expires)
      BY <2>2, HolderOfScope
    <3> QED  BY <2>2, <3>1 DEF Accept
  <2>3. CASE IsOffered(s) /\ t < s.holder.expires
    <3>1. ~ (t >= s.holder.expires)
      BY <2>3, HolderOfScope
    <3> QED  BY <2>3, <3>1 DEF Accept
  <2> QED  BY <2>1, <2>2, <2>3, HolderOfScope
<1>2. IsOffered(s) => Tells(s, expired) /\ expired.effect.kind = "expired"
  BY ExpiryTells DEF Tells, Outcome, Note, NoteKinds, ChangeKinds
<1>3. Tells(s, rejected) /\ rejected.effect.kind = "rejected"
  BY NoteTells DEF NoteKinds
<1>4. /\ Tells(s, committed) /\ committed.effect.kind = "committed"
      /\ EffectiveHolder(committed.state) = p
  BY InstallTells, ZenonT(40)
<1> HIDE DEF o, expired, rejected, committed
<1> QED  BY <1>1, <1>2, <1>3, <1>4 DEF o, NoteKinds

-----------------------------------------------------------------------------
(* One pair.                                                               *)

\* The registry's record of a pair is that of its scope.
Agrees(pair) ==
    /\ {"auth", "holder", "generation", "heldBy", "member", "watch", "loss",
        "sequence"} \subseteq DOMAIN pair
    /\ IsScope(pair.auth)
    /\ pair.holder = EffectiveHolder(pair.auth)
    /\ pair.generation = pair.auth.generation
    /\ pair.heldBy = {pair.holder} \ {NoPrincipal}

\* Who holds a pair holds it for a member that the catalog puts in its group.
BoundTo(pair, k, c) ==
    /\ (pair.member = NoMember) = (pair.holder = NoPrincipal)
    /\ pair.member # NoMember => pair.member \in DOMAIN c /\ c[pair.member].group = k

Watched(pair, commandOnly, deadline) ==
    IF pair.holder # NoPrincipal /\ ~ commandOnly
    THEN /\ pair.watch.principal = pair.holder
         /\ pair.watch.deadline \in Nat /\ pair.watch.deadline <= deadline
    ELSE ~ IsWatched(pair)

\* The lease goes on, or it ends.
Lasts(before, after, commandOnly, deadline) ==
    /\ Agrees(after)
    /\ \/ after.holder = before.holder /\ after.member = before.member
       \/ after.holder = NoPrincipal /\ after.member = NoMember
    /\ Watched(before, commandOnly, deadline) => Watched(after, commandOnly, deadline)

\* The registry follows the effect of a command.
LEMMA FanAgrees ==
    ASSUME NEW r, Agrees(r.pair), NEW o, Tells(r.pair.auth, o), NEW deadline, NEW commandOnly
    PROVE  LET after == FanOut(r, o, deadline, commandOnly).pair
           IN  /\ Agrees(after) /\ after.holder = EffectiveHolder(o.state)
               /\ after.auth = o.state
               /\ o.effect.kind \in NoteKinds =>
                     after.member = r.pair.member /\ after.watch = r.pair.watch
               /\ o.effect.kind \in ChangeKinds => after.member = NoMember
               /\ o.effect.kind \in {"granted", "committed"} =>
                     after.watch = IF commandOnly THEN r.pair.watch
                                   ELSE Watch(after.holder, deadline)
               /\ o.effect.kind \in {"revoked", "linkLost"} =>
                     after.watch = IF r.pair.holder = NoPrincipal THEN r.pair.watch
                                   ELSE NoWatch
<1> DEFINE e == o.effect
           pair == [r.pair EXCEPT !.auth = o.state]
           after == FanOut(r, o, deadline, commandOnly).pair
<1>1. /\ pair.auth = o.state /\ pair.holder = r.pair.holder
      /\ pair.generation = r.pair.generation /\ pair.heldBy = r.pair.heldBy
      /\ pair.member = r.pair.member /\ pair.watch = r.pair.watch
      /\ DOMAIN pair = DOMAIN r.pair
  BY DEF Agrees
<1> HIDE DEF pair
<1>2. CASE e.kind \in NoteKinds
  <2>1. after = pair
    BY <1>2 DEF FanOut, Progress, NoteKinds, pair
  <2>2. Agrees(pair)
    BY <1>1, <1>2 DEF Agrees, Tells
  <2> QED  BY <1>1, <1>2, <2>1, <2>2 DEF Tells, Agrees, NoteKinds, ChangeKinds
<1>3. CASE e.kind \in {"granted", "committed"}
  <2>1. after = Installed(pair, e, deadline, commandOnly)
    BY <1>3 DEF FanOut, Progress, pair
  <2>2. /\ after.auth = o.state /\ after.holder = e.new /\ after.generation = e.generation
        /\ after.heldBy = {e.new} /\ after.member = NoMember
        /\ after.watch = IF commandOnly THEN r.pair.watch ELSE Watch(e.new, deadline)
        /\ DOMAIN after = DOMAIN r.pair
    BY <1>1, <2>1 DEF Installed, RecordHold, Agrees
  <2>3. /\ IsScope(o.state) /\ e.new = EffectiveHolder(o.state) /\ e.new \in Principals
        /\ e.generation = o.state.generation
    BY <1>3 DEF Tells, ChangeKinds
  <2> HIDE DEF after, e
  <2>4. Agrees(after)
    BY <2>2, <2>3, NoPrincipalAssumption DEF Agrees
  <2> QED  BY <1>3, <2>2, <2>3, <2>4 DEF after, e, NoteKinds, ChangeKinds
<1>4. CASE e.kind \in {"revoked", "linkLost"} /\ e.old # NoPrincipal
  <2>1. after = Vacated(pair, e, commandOnly)
    BY <1>4 DEF FanOut, Progress, pair
  <2>2. /\ after.auth = o.state /\ after.holder = NoPrincipal
        /\ after.generation = e.generation /\ after.heldBy = {} /\ after.member = NoMember
        /\ after.watch = NoWatch /\ DOMAIN after = DOMAIN r.pair
    BY <1>1, <2>1 DEF Vacated, ClearPair, Agrees
  <2>3. /\ IsScope(o.state) /\ EffectiveHolder(o.state) = NoPrincipal
        /\ e.generation = o.state.generation /\ e.old = r.pair.holder
    BY <1>4 DEF Tells, ChangeKinds, Agrees
  <2> HIDE DEF after, e
  <2>4. Agrees(after)
    BY <2>2, <2>3 DEF Agrees
  <2> QED  BY <1>4, <2>2, <2>3, <2>4 DEF after, e, NoteKinds, ChangeKinds
<1>5. CASE e.kind = "revoked" /\ e.old = NoPrincipal
  <2>1. after = ClearPair(pair, e)
    BY <1>5 DEF FanOut, Progress, pair
  <2>2. /\ after.auth = o.state /\ after.holder = NoPrincipal
        /\ after.generation = e.generation /\ after.heldBy = {} /\ after.member = NoMember
        /\ after.watch = r.pair.watch /\ DOMAIN after = DOMAIN r.pair
    BY <1>1, <2>1 DEF ClearPair, Agrees
  <2>3. /\ IsScope(o.state) /\ EffectiveHolder(o.state) = NoPrincipal
        /\ e.generation = o.state.generation /\ r.pair.holder = NoPrincipal
    BY <1>5 DEF Tells, ChangeKinds, Agrees
  <2> HIDE DEF after, e
  <2>4. Agrees(after)
    BY <2>2, <2>3 DEF Agrees
  <2> QED  BY <1>5, <2>2, <2>3, <2>4 DEF after, e, NoteKinds, ChangeKinds
<1> QED  BY <1>2, <1>3, <1>4, <1>5 DEF Tells

\* An effect that installs nobody leaves the lease, or ends it.
LEMMA FanLasts ==
    ASSUME NEW r, Agrees(r.pair), NEW o, Tells(r.pair.auth, o),
           o.effect.kind \in NoteKinds \cup {"revoked", "linkLost"},
           NEW d, NEW commandOnly, NEW deadline
    PROVE  Lasts(r.pair, FanOut(r, o, d, commandOnly).pair, commandOnly, deadline)
<1> DEFINE after == FanOut(r, o, d, commandOnly).pair
<1>1. /\ Agrees(after) /\ after.holder = EffectiveHolder(o.state)
      /\ o.effect.kind \in NoteKinds =>
            after.member = r.pair.member /\ after.watch = r.pair.watch
      /\ o.effect.kind \in ChangeKinds => after.member = NoMember
      /\ o.effect.kind \in {"revoked", "linkLost"} =>
            after.watch = IF r.pair.holder = NoPrincipal THEN r.pair.watch ELSE NoWatch
  BY FanAgrees
<1> HIDE DEF after
<1>2. CASE o.effect.kind \in NoteKinds
  <2>1. after.holder = r.pair.holder
    BY <1>1, <1>2 DEF Tells, Agrees
  <2> QED  BY <1>1, <1>2, <2>1 DEF Lasts, Watched, IsWatched, after
<1>3. CASE o.effect.kind \in {"revoked", "linkLost"}
  <2>1. after.holder = NoPrincipal /\ after.member = NoMember
    BY <1>1, <1>3 DEF Tells, ChangeKinds
  <2>2. Watched(r.pair, commandOnly, deadline) => ~ IsWatched(after)
    BY <1>1, <1>3 DEF Watched, IsWatched, NoWatch, Watch
  <2> QED  BY <1>1, <2>1, <2>2 DEF Lasts, Watched, after
<1> QED  BY <1>2, <1>3

\* A lease that lasts, lasts through the next step.
LEMMA LastsOn ==
    ASSUME NEW a, NEW b, NEW c, NEW commandOnly, NEW deadline,
           Lasts(a, b, commandOnly, deadline), Lasts(b, c, commandOnly, deadline)
    PROVE  Lasts(a, c, commandOnly, deadline)
BY DEF Lasts

\* Deadlines end a lease or leave it.
LEMMA OverdueLasts ==
    ASSUME NEW pair, Agrees(pair), NEW k, NEW t, NEW commandOnly, NEW deadline
    PROVE  Lasts(pair, ExpireOverdue(pair, k, t, commandOnly).pair, commandOnly, deadline)
<1> DEFINE r == ExpiredOffer(Begin(pair), t)
<1>1. Agrees(r.pair) /\ Lasts(pair, r.pair, commandOnly, deadline)
  <2>1. CASE OfferIsDue(pair.auth, t)
    <3> DEFINE after == [pair EXCEPT !.auth = ExpireOffer(pair.auth)]
    <3>1. r.pair = after
      BY <2>1 DEF ExpiredOffer, Begin, Progress
    <3>2. /\ after.auth = ExpireOffer(pair.auth) /\ after.holder = pair.holder
          /\ after.generation = pair.generation /\ after.heldBy = pair.heldBy
          /\ after.member = pair.member /\ after.watch = pair.watch
          /\ DOMAIN after = DOMAIN pair
      BY DEF Agrees
    <3> HIDE DEF after, r
    <3>3. Agrees(after)
      BY <2>1, <3>2, ExpiryTells DEF Agrees, OfferIsDue
    <3> QED  BY <3>1, <3>2, <3>3 DEF Lasts, Watched, IsWatched
  <2>2. CASE ~ OfferIsDue(pair.auth, t)
    BY <2>2 DEF ExpiredOffer, Begin, Progress, Lasts
  <2> QED  BY <2>1, <2>2
<1> HIDE DEF r
<1>2. CASE ~ IsSilent(r.pair, t)
  BY <1>1, <1>2 DEF ExpireOverdue, ExpiredHolder, r
<1>3. CASE IsSilent(r.pair, t)
  <2> DEFINE p == r.pair.watch.principal
             unwatched == [r EXCEPT !.pair.watch = NoWatch]
             o == HolderLinkChanged(r.pair.auth, k, p, "lost")
             after == FanOut(unwatched, o, t, commandOnly).pair
  <2>1. ExpireOverdue(pair, k, t, commandOnly).pair = after
    BY <1>3 DEF ExpireOverdue, ExpiredHolder, r
  <2>2. /\ unwatched.pair.auth = r.pair.auth /\ unwatched.pair.holder = r.pair.holder
        /\ unwatched.pair.generation = r.pair.generation
        /\ unwatched.pair.heldBy = r.pair.heldBy /\ unwatched.pair.member = r.pair.member
        /\ unwatched.pair.watch = NoWatch /\ DOMAIN unwatched.pair = DOMAIN r.pair
    <3>1. "pair" \in DOMAIN r
      BY DEF r, ExpiredOffer, Begin, Progress
    <3> QED  BY <1>1, <3>1 DEF Agrees
  <2>3. Agrees(unwatched.pair)
    BY <1>1, <2>2 DEF Agrees
  <2>4. p # NoPrincipal /\ IsScope(r.pair.auth)
    BY <1>1, <1>3 DEF IsSilent, IsWatched, Agrees
  <2>5. /\ Tells(unwatched.pair.auth, o)
        /\ o.effect.kind = IF EffectiveHolder(r.pair.auth) = p THEN "linkLost" ELSE "linkState"
    BY <2>2, <2>4, LinkTells
  <2> HIDE DEF unwatched, o, p
  <2>6. Lasts(unwatched.pair, after, commandOnly, deadline)
    BY <2>3, <2>5, FanLasts DEF NoteKinds
  <2>7. Watched(r.pair, commandOnly, deadline) => Watched(after, commandOnly, deadline)
    <3>1. SUFFICES ASSUME Watched(r.pair, commandOnly, deadline)
                   PROVE  Watched(after, commandOnly, deadline)
      OBVIOUS
    <3>2. EffectiveHolder(r.pair.auth) = p
      BY <1>1, <1>3, <3>1 DEF Watched, IsSilent, Agrees, p
    <3>3. o.effect.kind = "linkLost"
      BY <2>5, <3>2
    <3>4. after.holder = NoPrincipal
      BY <2>3, <2>5, <3>3, FanAgrees DEF Tells
    <3>5. ~ IsWatched(after)
      <4>1. after.watch = IF unwatched.pair.holder = NoPrincipal THEN unwatched.pair.watch
                          ELSE NoWatch
        BY <2>3, <2>5, <3>3, FanAgrees
      <4> QED  BY <2>2, <4>1 DEF IsWatched, NoWatch, Watch
    <3> QED  BY <3>4, <3>5 DEF Watched
  <2>8. Lasts(r.pair, after, commandOnly, deadline)
    BY <2>2, <2>6, <2>7 DEF Lasts
  <2> HIDE DEF after
  <2> QED  BY <1>1, <2>1, <2>8, LastsOn
<1> QED  BY <1>2, <1>3

\* A fan-out returns a progress.
LEMMA FanIsProgress ==
    ASSUME NEW r, NEW o, NEW s, Tells(s, o), NEW deadline, NEW commandOnly
    PROVE  DOMAIN FanOut(r, o, deadline, commandOnly) = {"pair", "acts"}
<1> DEFINE fan == FanOut(r, o, deadline, commandOnly)
<1>1. \A pair, l : DOMAIN Progress(pair, l) = {"pair", "acts"}
  BY DEF Progress
<1>2. \E pair, l : fan = Progress(pair, l)
  <2>1. CASE o.effect.kind \in NoteKinds
    BY <2>1 DEF FanOut, NoteKinds
  <2>2. CASE o.effect.kind = "granted"
    BY <2>2 DEF FanOut
  <2>3. CASE o.effect.kind = "committed"
    BY <2>3 DEF FanOut
  <2>4. CASE o.effect.kind \in {"revoked", "linkLost"} /\ o.effect.old # NoPrincipal
    BY <2>4 DEF FanOut
  <2>5. CASE o.effect.kind = "revoked" /\ o.effect.old = NoPrincipal
    BY <2>5 DEF FanOut
  <2> QED  BY <2>1, <2>2, <2>3, <2>4, <2>5 DEF Tells
<1> HIDE DEF fan
<1>3. DOMAIN fan = {"pair", "acts"}
  BY <1>1, <1>2
<1> QED  BY <1>3 DEF fan

\* So do the deadlines.
LEMMA OverdueIsProgress ==
    ASSUME NEW pair, Agrees(pair), NEW k, NEW t, NEW commandOnly
    PROVE  DOMAIN ExpireOverdue(pair, k, t, commandOnly) = {"pair", "acts"}
<1> DEFINE r == ExpiredOffer(Begin(pair), t)
<1>1. DOMAIN r = {"pair", "acts"}
  BY DEF ExpiredOffer, Begin, Progress
<1>2. IsScope(r.pair.auth)
  <2>1. CASE OfferIsDue(pair.auth, t)
    <3>1. r.pair.auth = ExpireOffer(pair.auth)
      BY <2>1 DEF ExpiredOffer, Begin, Progress, Agrees
    <3> QED  BY <2>1, <3>1, ExpiryTells DEF OfferIsDue, Agrees
  <2>2. CASE ~ OfferIsDue(pair.auth, t)
    BY <2>2 DEF ExpiredOffer, Begin, Progress, Agrees
  <2> QED  BY <2>1, <2>2
<1> HIDE DEF r
<1>3. CASE ~ IsSilent(r.pair, t)
  BY <1>1, <1>3 DEF ExpireOverdue, ExpiredHolder, r
<1>4. CASE IsSilent(r.pair, t)
  <2> DEFINE p == r.pair.watch.principal
             o == HolderLinkChanged(r.pair.auth, k, p, "lost")
  <2>1. ExpireOverdue(pair, k, t, commandOnly) =
           FanOut([r EXCEPT !.pair.watch = NoWatch], o, t, commandOnly)
    BY <1>4 DEF ExpireOverdue, ExpiredHolder, r
  <2>2. Tells(r.pair.auth, o)
    BY <1>2, <1>4, LinkTells DEF IsSilent, IsWatched
  <2> HIDE DEF o
  <2> QED  BY <2>1, <2>2, FanIsProgress
<1> QED  BY <1>3, <1>4

\* Who is taken off a pair leaves no trace in its records.
LEMMA VacatedAgrees ==
    ASSUME NEW pair, NEW e, NEW commandOnly,
           {"auth", "holder", "generation", "heldBy", "member", "watch", "loss",
            "sequence"} \subseteq DOMAIN pair,
           IsScope(pair.auth), EffectiveHolder(pair.auth) = NoPrincipal,
           e.generation = pair.auth.generation
    PROVE  LET after == Vacated(pair, e, commandOnly)
           IN  /\ Agrees(after) /\ after.holder = NoPrincipal
               /\ after.member = NoMember /\ after.watch = NoWatch
<1> DEFINE after == Vacated(pair, e, commandOnly)
<1>1. /\ after.auth = pair.auth /\ after.holder = NoPrincipal
      /\ after.generation = e.generation /\ after.heldBy = {} /\ after.member = NoMember
      /\ after.watch = NoWatch /\ DOMAIN after = DOMAIN pair
  BY DEF Vacated, ClearPair
<1> HIDE DEF after
<1>2. Agrees(after)
  BY <1>1 DEF Agrees
<1> QED  BY <1>1, <1>2 DEF after

\* A frame moves the deadline of the watched holder, and no other.
LEMMA FrameLasts ==
    ASSUME NEW r, DOMAIN r = {"pair", "acts"}, Agrees(r.pair),
           NEW p, p # NoPrincipal, NEW m, NEW g, NEW n, NEW posture,
           NEW commandOnly, NEW deadline \in Nat
    PROVE  Lasts(r.pair, AcceptFrame(r, p, m, g, n, posture, deadline).pair,
                 commandOnly, deadline)
<1> DEFINE watch == IF r.pair.watch.principal = p THEN Watch(p, deadline) ELSE r.pair.watch
           heard == [r EXCEPT !.pair.sequence = Received(g, n),
                              !.pair.watch = IF @.principal = p THEN Watch(p, deadline)
                                                                ELSE @]
           cleared == IF Demonstrates(heard.pair, posture)
                      THEN Emitting([heard EXCEPT !.pair.loss = ClearPending(g)],
                                    Clear(g, FALSE))
                      ELSE heard
           after == AcceptFrame(r, p, m, g, n, posture, deadline).pair
<1>1. /\ DOMAIN heard = {"pair", "acts"} /\ DOMAIN heard.pair = DOMAIN r.pair
      /\ heard.pair.auth = r.pair.auth /\ heard.pair.holder = r.pair.holder
      /\ heard.pair.generation = r.pair.generation /\ heard.pair.heldBy = r.pair.heldBy
      /\ heard.pair.member = r.pair.member /\ heard.pair.watch = watch
  BY DEF Agrees
<1>2. AcceptFrame(r, p, m, g, n, posture, deadline) =
         Emitting(cleared, ApplyFrame(p, m, g, posture))
  BY DEF AcceptFrame
<1> HIDE DEF heard, watch
<1>3. /\ DOMAIN cleared = {"pair", "acts"} /\ DOMAIN cleared.pair = DOMAIN r.pair
      /\ cleared.pair.auth = r.pair.auth /\ cleared.pair.holder = r.pair.holder
      /\ cleared.pair.generation = r.pair.generation /\ cleared.pair.heldBy = r.pair.heldBy
      /\ cleared.pair.member = r.pair.member /\ cleared.pair.watch = watch
  BY <1>1 DEF Emitting, Agrees
<1> HIDE DEF cleared
<1>4. after = cleared.pair
  BY <1>2, <1>3 DEF Emitting
<1> HIDE DEF after
<1>5. Agrees(after)
  BY <1>3, <1>4 DEF Agrees
<1>6. ASSUME Watched(r.pair, commandOnly, deadline)
      PROVE  Watched(after, commandOnly, deadline)
  <2>1. CASE r.pair.watch.principal = p
    <3>1. r.pair.holder = p /\ ~ commandOnly
      BY <1>6, <2>1 DEF Watched, IsWatched
    <3>2. after.watch = Watch(p, deadline) /\ after.holder = p
      BY <1>3, <1>4, <2>1, <3>1 DEF watch
    <3> QED  BY <3>1, <3>2 DEF Watched, Watch
  <2>2. CASE r.pair.watch.principal # p
    BY <1>3, <1>4, <1>6, <2>2 DEF Watched, IsWatched, watch
  <2> QED  BY <2>1, <2>2
<1> QED  BY <1>3, <1>4, <1>5, <1>6 DEF Lasts, after

-----------------------------------------------------------------------------
(* All pairs.                                                              *)

Connected == {Principal(c) : c \in DOMAIN clients}

\* A welcomed client has a principal of its own, older than the next one.
ClientsOk ==
    /\ nextPrincipal \in Nat
    /\ \A c \in DOMAIN clients :
          /\ "principal" \in DOMAIN clients[c]
          /\ Principal(c) \in Principals /\ Principal(c) < nextPrincipal
    /\ \A c, d \in DOMAIN clients : Principal(c) = Principal(d) => c = d

PairOk(pair, k, c, who) ==
    Agrees(pair) /\ BoundTo(pair, k, c) /\ pair.holder \in who \cup {NoPrincipal}

RegistryInv ==
    /\ ClientsOk
    /\ now \in Nat /\ catalog \in Catalogs /\ Groups(catalog) \subseteq Registered
    /\ \A k \in Registered : PairOk(pairs[k], k, catalog, Connected)

WatchInv == \A k \in Registered : Watched(pairs[k], CommandOnly(k), Silence)

\* A pair is in order after a call, and watched if it was.
Stays(before, after, k, who) ==
    /\ PairOk(after, k, catalog, who)
    /\ Watched(before, CommandOnly(k), Silence) => Watched(after, CommandOnly(k), Silence)

\* A lease that lasts stays in order.
LEMMA LastsStays ==
    ASSUME NEW k, NEW who, NEW before, PairOk(before, k, catalog, who),
           NEW after, Lasts(before, after, CommandOnly(k), Silence)
    PROVE  Stays(before, after, k, who)
BY DEF Stays, PairOk, Lasts, BoundTo

\* More clients, no harm.
LEMMA StaysWithMore ==
    ASSUME NEW k, NEW before, NEW after, NEW who, NEW more, who \subseteq more,
           Stays(before, after, k, who)
    PROVE  Stays(before, after, k, more)
BY DEF Stays, PairOk

\* Every call starts from pairs in order.
LEMMA OverdueStays ==
    ASSUME RegistryInv, NEW k \in Registered
    PROVE  /\ Stays(pairs[k], Overdue[k].pair, k, Connected)
           /\ Agrees(Overdue[k].pair)
           /\ DOMAIN Overdue[k] = {"pair", "acts"}
<1>1. Overdue[k] = ExpireOverdue(pairs[k], k, now, CommandOnly(k))
  BY DEF Overdue
<1>2. Agrees(pairs[k]) /\ PairOk(pairs[k], k, catalog, Connected)
  BY DEF RegistryInv, PairOk
<1>3. Lasts(pairs[k], Overdue[k].pair, CommandOnly(k), Silence)
  BY <1>1, <1>2, OverdueLasts
<1> QED  BY <1>1, <1>2, <1>3, LastsStays, OverdueIsProgress DEF Lasts

\* One more step of a call: the lease lasts through it.
LEMMA ThenLasts ==
    ASSUME NEW k, NEW who, NEW before, NEW between, Stays(before, between, k, who),
           NEW after, Lasts(between, after, CommandOnly(k), Silence)
    PROVE  Stays(before, after, k, who)
BY LastsStays DEF Stays

\* A fan-out that installs nobody, after the deadlines.
LEMMA FanStays ==
    ASSUME NEW k, NEW who, NEW before, NEW r, Stays(before, r.pair, k, who),
           NEW o, Tells(r.pair.auth, o),
           o.effect.kind \in NoteKinds \cup {"revoked", "linkLost"}
    PROVE  Stays(before, Fan(r, k, o).pair, k, who)
<1>1. Lasts(r.pair, Fan(r, k, o).pair, CommandOnly(k), Silence)
  BY FanLasts DEF Fan, Stays, PairOk
<1> QED  BY <1>1, ThenLasts

\* The pairs of a call are in order if each one is.
LEMMA PairsStay ==
    ASSUME RegistryInv, DOMAIN pairs' = DOMAIN pairs, UNCHANGED <<now, catalog>>,
           ClientsOk', \A k \in Registered : Stays(pairs[k], pairs'[k], k, Connected')
    PROVE  RegistryInv' /\ (WatchInv => WatchInv')
<1>1. RegistryInv'
  BY DEF RegistryInv, Registered, Groups, Stays
<1>2. \A k : CommandOnly(k)' = CommandOnly(k)
  BY DEF CommandOnly, IsCommandOnly, Groups
<1>3. Silence' = Silence
  BY DEF Silence
<1>4. ASSUME WatchInv  PROVE  WatchInv'
  BY <1>2, <1>3, <1>4 DEF WatchInv, Stays, Registered
<1> QED  BY <1>1, <1>4

\* A call that ends in these pairs, its clients as they were.
LEMMA FinishStays ==
    ASSUME RegistryInv, NEW progress, DOMAIN progress = Registered,
           NEW answer, Finish(progress, answer),
           UNCHANGED <<now, catalog, clients, nextPrincipal>>,
           \A k \in Registered : Stays(pairs[k], progress[k].pair, k, Connected)
    PROVE  RegistryInv' /\ (WatchInv => WatchInv')
<1>1. ClientsOk' /\ Connected' = Connected
  BY DEF RegistryInv, ClientsOk, Connected, Principal
<1>2. DOMAIN pairs' = DOMAIN pairs /\ \A k \in Registered : pairs'[k] = progress[k].pair
  BY DEF Finish, Registered
<1> QED  BY <1>1, <1>2, PairsStay

\* A call that changes one pair only.
LEMMA OneStays ==
    ASSUME RegistryInv, NEW k \in Registered, NEW r, NEW answer,
           Finish([Overdue EXCEPT ![k] = r], answer),
           UNCHANGED <<now, catalog, clients, nextPrincipal>>,
           Stays(pairs[k], r.pair, k, Connected)
    PROVE  RegistryInv' /\ (WatchInv => WatchInv')
<1> DEFINE progress == [Overdue EXCEPT ![k] = r]
<1>1. /\ DOMAIN progress = Registered /\ progress[k] = r
      /\ \A j \in Registered \ {k} : progress[j] = Overdue[j]
  BY DEF Overdue
<1>2. Finish(progress, answer)
  OBVIOUS
<1> HIDE DEF progress
<1>3. \A j \in Registered : Stays(pairs[j], progress[j].pair, j, Connected)
  BY <1>1, OverdueStays
<1> QED  BY <1>1, <1>2, <1>3, FinishStays

\* A call that does no more than the deadlines.
LEMMA OverdueFinishStays ==
    ASSUME RegistryInv, NEW answer, Finish(Overdue, answer),
           UNCHANGED <<now, catalog, clients, nextPrincipal>>
    PROVE  RegistryInv' /\ (WatchInv => WatchInv')
<1>1. DOMAIN Overdue = Registered
  BY DEF Overdue
<1>2. \A k \in Registered : Stays(pairs[k], Overdue[k].pair, k, Connected)
  BY OverdueStays
<1> QED  BY <1>1, <1>2, FinishStays

\* The pair of a declared member is registered.
LEMMA DeclaredIsRegistered ==
    ASSUME RegistryInv, NEW m, Declared(m)
    PROVE  PairOf(m) \in Registered /\ m \in DOMAIN catalog /\ catalog[m].group = PairOf(m)
BY DEF RegistryInv, Declared, PairOf, Groups

-----------------------------------------------------------------------------
(* Connections.                                                            *)

\* A new client gets a principal nobody had.
LEMMA HelloStays ==
    ASSUME RegistryInv, NEW c, Hello(c)
    PROVE  RegistryInv' /\ (WatchInv => WatchInv')
<1>1. CASE Welcomed(c)
  BY <1>1, OverdueFinishStays DEF Hello
<1>2. CASE ~ Welcomed(c)
  <2>1. /\ nextPrincipal \in Principals /\ nextPrincipal' = nextPrincipal + 1
        /\ DOMAIN clients' = DOMAIN clients \cup {c}
        /\ clients'[c] = [principal |-> nextPrincipal, announced |-> FALSE]
        /\ \A d \in DOMAIN clients : clients'[d] = clients[d]
    BY <1>2 DEF Hello, Welcomed
  <2>2. /\ Principal(c)' = nextPrincipal /\ "principal" \in DOMAIN clients'[c]
        /\ \A d \in DOMAIN clients : Principal(d)' = Principal(d) /\ d # c
    BY <1>2, <2>1 DEF Principal, Welcomed
  <2>3. ClientsOk'
    <3>1. \A d \in DOMAIN clients : Principal(d) # nextPrincipal
      BY PrincipalsAssumption DEF RegistryInv, ClientsOk
    <3>2. nextPrincipal' \in Nat
      BY <2>1 DEF RegistryInv, ClientsOk
    <3>3. \A d \in DOMAIN clients' :
             /\ "principal" \in DOMAIN clients'[d]
             /\ Principal(d)' \in Principals /\ Principal(d)' < nextPrincipal'
      <4>1. ASSUME NEW d \in DOMAIN clients
            PROVE  Principal(d) < nextPrincipal + 1
        <5>1. Principal(d) \in Nat /\ nextPrincipal \in Nat /\ Principal(d) < nextPrincipal
          BY PrincipalsAssumption DEF RegistryInv, ClientsOk
        <5> QED  BY <5>1
      <4>2. nextPrincipal < nextPrincipal + 1
        BY DEF RegistryInv, ClientsOk
      <4> QED  BY <2>1, <2>2, <4>1, <4>2 DEF RegistryInv, ClientsOk
    <3>4. \A d, f \in DOMAIN clients' : Principal(d)' = Principal(f)' => d = f
      BY <2>1, <2>2, <3>1 DEF RegistryInv, ClientsOk
    <3> QED  BY <3>2, <3>3, <3>4 DEF ClientsOk
  <2>4. Connected \subseteq Connected'
    BY <2>1, <2>2 DEF Connected
  <2>5. /\ DOMAIN pairs' = DOMAIN pairs /\ UNCHANGED <<now, catalog>>
        /\ \A k \in Registered : pairs'[k] = Overdue[k].pair
    BY DEF Hello, Finish, Overdue, Registered
  <2>6. \A k \in Registered : Stays(pairs[k], pairs'[k], k, Connected')
    BY <2>4, <2>5, OverdueStays, StaysWithMore
  <2> QED  BY <2>3, <2>5, <2>6, PairsStay
<1> QED  BY <1>1, <1>2

\* Announcing a profile is nothing to the pairs.
LEMMA ActivationStays ==
    ASSUME RegistryInv, NEW c, ProfileActivation(c)
    PROVE  RegistryInv' /\ (WatchInv => WatchInv')
<1>1. /\ DOMAIN clients' = DOMAIN clients /\ nextPrincipal' = nextPrincipal
      /\ \A d \in DOMAIN clients : /\ clients'[d].principal = clients[d].principal
                                   /\ DOMAIN clients'[d] = DOMAIN clients[d]
  BY DEF ProfileActivation, Welcomed, RegistryInv, ClientsOk
<1>2. \A d \in DOMAIN clients : Principal(d)' = Principal(d)
  BY <1>1 DEF Principal
<1>3. ClientsOk' /\ Connected' = Connected
  <2>1. ClientsOk'
    BY <1>1, <1>2 DEF RegistryInv, ClientsOk
  <2>2. Connected' = Connected
    BY <1>1, <1>2 DEF Connected
  <2> QED  BY <2>1, <2>2
<1>4. /\ DOMAIN pairs' = DOMAIN pairs /\ UNCHANGED <<now, catalog>>
      /\ \A k \in Registered : pairs'[k] = Overdue[k].pair
  BY DEF ProfileActivation, Finish, Overdue, Registered
<1>5. \A k \in Registered : Stays(pairs[k], pairs'[k], k, Connected')
  BY <1>3, <1>4, OverdueStays
<1> QED  BY <1>3, <1>4, <1>5, PairsStay

\* Whoever leaves holds nothing any more.
LEMMA DisconnectStays ==
    ASSUME RegistryInv, NEW c, Disconnect(c)
    PROVE  RegistryInv' /\ (WatchInv => WatchInv')
<1> DEFINE p == Principal(c)
<1>1. /\ DOMAIN clients' = DOMAIN clients \ {c} /\ nextPrincipal' = nextPrincipal
      /\ \A d \in DOMAIN clients \ {c} : clients'[d] = clients[d]
  BY DEF Disconnect
<1>2. \A d \in DOMAIN clients \ {c} : Principal(d)' = Principal(d)
  BY <1>1 DEF Principal
<1>3. c \in DOMAIN clients /\ p \in Principals /\ p # NoPrincipal
  BY NoPrincipalAssumption DEF Disconnect, Welcomed, RegistryInv, ClientsOk
<1>4. ClientsOk'
  BY <1>1, <1>2 DEF RegistryInv, ClientsOk
<1>5. Connected \ {p} \subseteq Connected'
  BY <1>1, <1>2 DEF Connected
<1>6. DOMAIN pairs' = DOMAIN pairs /\ UNCHANGED <<now, catalog>>
  BY DEF Disconnect, Finish, Registered
<1>7. ASSUME NEW k \in Registered
      PROVE  Stays(pairs[k], pairs'[k], k, Connected')
  <2> DEFINE r == [Overdue[k] EXCEPT !.pair.heldBy = @ \ {p}]
             o == HolderLinkChanged(r.pair.auth, k, p, "lost")
  <2>1. pairs'[k] = IF p \in Overdue[k].pair.heldBy THEN Fan(r, k, o).pair ELSE r.pair
    BY DEF Disconnect, Finish
  <2>2. /\ Stays(pairs[k], Overdue[k].pair, k, Connected)
        /\ Agrees(Overdue[k].pair) /\ DOMAIN Overdue[k] = {"pair", "acts"}
    BY OverdueStays
  <2>3. /\ r.pair.auth = Overdue[k].pair.auth /\ r.pair.holder = Overdue[k].pair.holder
        /\ r.pair.generation = Overdue[k].pair.generation
        /\ r.pair.heldBy = Overdue[k].pair.heldBy \ {p}
        /\ r.pair.member = Overdue[k].pair.member /\ r.pair.watch = Overdue[k].pair.watch
        /\ DOMAIN r.pair = DOMAIN Overdue[k].pair
    BY <2>2 DEF Agrees
  <2> HIDE DEF r
  <2>4. /\ Tells(r.pair.auth, o)
        /\ o.effect.kind = IF EffectiveHolder(r.pair.auth) = p THEN "linkLost" ELSE "linkState"
    BY <1>3, <2>2, <2>3, LinkTells DEF Agrees
  <2> HIDE DEF o, p
  <2>5. CASE p \in Overdue[k].pair.heldBy
    <3> DEFINE pair == [r.pair EXCEPT !.auth = o.state]
               after == Vacated(pair, o.effect, CommandOnly(k))
    <3>1. Overdue[k].pair.holder = p /\ EffectiveHolder(r.pair.auth) = p
      BY <2>2, <2>3, <2>5 DEF Agrees
    <3>2. /\ o.effect.kind = "linkLost" /\ o.effect.old = p
          /\ IsScope(o.state) /\ EffectiveHolder(o.state) = NoPrincipal
          /\ o.effect.generation = o.state.generation
      BY <2>4, <3>1 DEF Tells, ChangeKinds
    <3>3. pairs'[k] = after
      BY <1>3, <2>1, <2>5, <3>2 DEF Fan, FanOut, Progress
    <3>4. pair.auth = o.state /\ DOMAIN pair = DOMAIN Overdue[k].pair
      BY <2>2, <2>3 DEF Agrees
    <3> HIDE DEF pair
    <3>5. /\ Agrees(after) /\ after.holder = NoPrincipal
          /\ after.member = NoMember /\ after.watch = NoWatch
      BY <2>2, <3>2, <3>4, VacatedAgrees DEF Agrees
    <3> HIDE DEF after
    <3>6. PairOk(after, k, catalog, Connected')
      BY <3>5 DEF PairOk, BoundTo
    <3>7. Watched(after, CommandOnly(k), Silence)
      BY <3>5 DEF Watched, IsWatched, NoWatch, Watch
    <3> QED  BY <3>3, <3>6, <3>7 DEF Stays
  <2>6. CASE p \notin Overdue[k].pair.heldBy
    <3>1. pairs'[k] = r.pair /\ r.pair.holder # p
      BY <1>3, <2>1, <2>2, <2>3, <2>6 DEF Agrees
    <3>2. Agrees(r.pair)
      BY <2>2, <2>3, <2>6 DEF Agrees
    <3>3. PairOk(r.pair, k, catalog, Connected')
      BY <1>5, <2>2, <2>3, <3>1, <3>2 DEF Stays, PairOk, BoundTo
    <3>4. Watched(Overdue[k].pair, CommandOnly(k), Silence)
             => Watched(r.pair, CommandOnly(k), Silence)
      BY <2>3 DEF Watched, IsWatched
    <3> QED  BY <2>2, <3>1, <3>3, <3>4 DEF Stays
  <2> QED  BY <2>5, <2>6
<1> QED  BY <1>4, <1>6, <1>7, PairsStay

-----------------------------------------------------------------------------
(* Leases and control.                                                     *)

\* A pair that is bound to a member of a new holder.
LEMMA BoundStays ==
    ASSUME RegistryInv, NEW k \in Registered, NEW m \in Members,
           m \in DOMAIN catalog, catalog[m].group = k, NEW p \in Principals, p \in Connected,
           NEW before, NEW r, DOMAIN r = {"pair", "acts"}, Agrees(r.pair), r.pair.holder = p,
           Watched(before, CommandOnly(k), Silence) =>
              IF CommandOnly(k) THEN r.pair.watch.principal = NoPrincipal
                                ELSE r.pair.watch = Watch(p, Silence)
    PROVE  Stays(before, [r EXCEPT !.pair.member = m].pair, k, Connected)
<1> DEFINE after == [r EXCEPT !.pair.member = m].pair
<1>1. /\ after.auth = r.pair.auth /\ after.holder = r.pair.holder
      /\ after.generation = r.pair.generation /\ after.heldBy = r.pair.heldBy
      /\ after.member = m /\ after.watch = r.pair.watch /\ DOMAIN after = DOMAIN r.pair
  BY DEF Agrees
<1> HIDE DEF after
<1>2. Agrees(after)
  BY <1>1 DEF Agrees
<1>3. PairOk(after, k, catalog, Connected)
  <2>1. m # NoMember /\ p # NoPrincipal
    BY NoMemberAssumption, NoPrincipalAssumption
  <2> QED  BY <1>1, <1>2, <2>1 DEF PairOk, BoundTo
<1>4. Watched(before, CommandOnly(k), Silence) => Watched(after, CommandOnly(k), Silence)
  <2>1. Silence \in Nat /\ p # NoPrincipal
    BY DurationsAssumption, NoPrincipalAssumption DEF Silence, RegistryInv
  <2>2. Watch(p, Silence).principal = p /\ Watch(p, Silence).deadline = Silence
    BY DEF Watch
  <2>3. CASE CommandOnly(k)
    BY <1>1, <2>3 DEF Watched, IsWatched
  <2>4. CASE ~ CommandOnly(k)
    <3>1. SUFFICES ASSUME Watched(before, CommandOnly(k), Silence)
                   PROVE  Watched(after, CommandOnly(k), Silence)
      OBVIOUS
    <3>2. after.watch = Watch(p, Silence) /\ after.holder = p
      BY <1>1, <2>4, <3>1
    <3>3. Silence <= Silence
      BY <2>1
    <3> QED  BY <2>1, <2>2, <2>4, <3>2, <3>3 DEF Watched
  <2> QED  BY <2>3, <2>4
<1> QED  BY <1>3, <1>4 DEF Stays, after

\* A grant installs its client at a pair that is free.
LEMMA LeaseStays ==
    ASSUME RegistryInv, NEW c, NEW m \in Members, Lease(c, m)
    PROVE  RegistryInv' /\ (WatchInv => WatchInv')
<1> DEFINE k == PairOf(m)
           p == Principal(c)
           r == Overdue[k]
           o == Grant(r.pair.auth, k, p)
           fanned == Fan(r, k, o)
           bound == [fanned EXCEPT !.pair.member = m]
<1>1. p \in Principals /\ p \in Connected
  BY DEF Lease, Welcomed, RegistryInv, ClientsOk, Connected
<1>2. UNCHANGED <<now, catalog, clients, nextPrincipal>>
  BY DEF Lease
<1>3. CASE \E answer : Finish(Overdue, answer)
  BY <1>2, <1>3, OverdueFinishStays
<1>4. CASE /\ Declared(m) /\ r.pair.holder = NoPrincipal /\ o.effect.kind # "rejected"
           /\ \E answer : Finish([Overdue EXCEPT ![k] = bound], answer)
  <2>1. k \in Registered /\ m \in DOMAIN catalog /\ catalog[m].group = k
    BY <1>4, DeclaredIsRegistered
  <2>2. /\ Stays(pairs[k], r.pair, k, Connected)
        /\ Agrees(r.pair) /\ DOMAIN r = {"pair", "acts"}
    BY <2>1, OverdueStays
  <2>3. IsScope(r.pair.auth)
    BY <2>2 DEF Agrees
  <2>4. Tells(r.pair.auth, o) /\ o.effect.kind = "granted" /\ EffectiveHolder(o.state) = p
    BY <1>1, <1>4, <2>3, GrantTells
  <2> HIDE DEF o, r, k, p
  <2>5. /\ Agrees(fanned.pair) /\ fanned.pair.holder = p
        /\ fanned.pair.watch = IF CommandOnly(k) THEN r.pair.watch
                               ELSE Watch(fanned.pair.holder, Silence)
        /\ DOMAIN fanned = {"pair", "acts"}
    BY <2>2, <2>4, FanAgrees, FanIsProgress DEF Fan
  <2> HIDE DEF fanned
  <2>6. Watched(pairs[k], CommandOnly(k), Silence) =>
           IF CommandOnly(k) THEN fanned.pair.watch.principal = NoPrincipal
                             ELSE fanned.pair.watch = Watch(p, Silence)
    <3>1. Watched(pairs[k], CommandOnly(k), Silence) => r.pair.watch.principal = NoPrincipal
      BY <1>4, <2>2 DEF Stays, Watched, IsWatched
    <3> QED  BY <2>5, <3>1
  <2>7. Stays(pairs[k], bound.pair, k, Connected)
    BY <1>1, <2>1, <2>5, <2>6, BoundStays
  <2> HIDE DEF bound
  <2> QED  BY <1>2, <1>4, <2>1, <2>7, OneStays
<1> QED
  <2>1. \/ \E answer : Finish(Overdue, answer)
        \/ /\ Declared(m) /\ r.pair.holder = NoPrincipal /\ o.effect.kind # "rejected"
           /\ \E answer : Finish([Overdue EXCEPT ![k] = bound], answer)
    <3>1. CASE ~ Declared(m)
      BY <3>1 DEF Lease
    <3>2. CASE Declared(m) /\ r.pair.holder # NoPrincipal
      BY <3>2 DEF Lease
    <3>3. CASE Declared(m) /\ r.pair.holder = NoPrincipal
      BY <3>3 DEF Lease
    <3> QED  BY <3>1, <3>2, <3>3
  <2> QED  BY <1>3, <1>4, <2>1

\* A release ends the lease of its client.
LEMMA ReleaseStays ==
    ASSUME RegistryInv, NEW c, NEW m \in Members, ReleaseLease(c, m)
    PROVE  RegistryInv' /\ (WatchInv => WatchInv')
<1> DEFINE k == PairOf(m)
           o == Release(Overdue[k].pair.auth, k, Principal(c))
           r == Fan(Overdue[k], k, o)
<1>1. Principal(c) \in Principals
  BY DEF ReleaseLease, Welcomed, RegistryInv, ClientsOk
<1>2. UNCHANGED <<now, catalog, clients, nextPrincipal>>
  BY DEF ReleaseLease
<1>3. CASE \E answer : Finish(Overdue, answer)
  BY <1>2, <1>3, OverdueFinishStays
<1>4. CASE /\ k \in Registered
           /\ \E answer : Finish([Overdue EXCEPT ![k] = Fan(@, k, o)], answer)
  <2>1. /\ Stays(pairs[k], Overdue[k].pair, k, Connected) /\ IsScope(Overdue[k].pair.auth)
    BY <1>4, OverdueStays DEF Agrees
  <2>2. /\ Tells(Overdue[k].pair.auth, o)
        /\ o.effect.kind \in NoteKinds \cup {"revoked", "linkLost"}
    BY <2>1, ReleaseTells DEF NoteKinds
  <2> HIDE DEF o
  <2>3. Stays(pairs[k], r.pair, k, Connected)
    BY <2>1, <2>2, FanStays
  <2>4. [Overdue EXCEPT ![k] = Fan(@, k, o)] = [Overdue EXCEPT ![k] = r]
    BY <1>4 DEF Overdue
  <2> HIDE DEF r, k
  <2> QED  BY <1>2, <1>4, <2>3, <2>4, OneStays
<1> QED
  BY <1>3, <1>4 DEF ReleaseLease

\* An offer changes no holder.
LEMMA OfferStays ==
    ASSUME RegistryInv, NEW c, NEW m \in Members, NEW q, TransferOffer(c, m, q)
    PROVE  RegistryInv' /\ (WatchInv => WatchInv')
<1> DEFINE k == PairOf(m)
           o == Offer(Overdue[k].pair.auth, k, Principal(c), q, now, OfferTtl)
           r == Fan(Overdue[k], k, o)
<1>1. Principal(c) \in Principals /\ now \in Nat
  BY DEF TransferOffer, Welcomed, RegistryInv, ClientsOk
<1>2. UNCHANGED <<now, catalog, clients, nextPrincipal>>
  BY DEF TransferOffer
<1>3. CASE ~ Declared(m)
  BY <1>2, <1>3, OverdueFinishStays DEF TransferOffer
<1>4. CASE Declared(m)
  <2>1. k \in Registered
    BY <1>4, DeclaredIsRegistered
  <2>2. Stays(pairs[k], Overdue[k].pair, k, Connected) /\ IsScope(Overdue[k].pair.auth)
    BY <2>1, OverdueStays DEF Agrees
  <2>3. /\ Tells(Overdue[k].pair.auth, o)
        /\ o.effect.kind \in NoteKinds \cup {"revoked", "linkLost"}
    BY <1>1, <2>2, DurationsAssumption, OfferTells
  <2>4. Finish([Overdue EXCEPT ![k] = r], NoReply)
    BY <1>4 DEF TransferOffer
  <2> HIDE DEF o
  <2>5. Stays(pairs[k], r.pair, k, Connected)
    BY <2>2, <2>3, FanStays
  <2> HIDE DEF r, k
  <2> QED  BY <1>2, <2>1, <2>4, <2>5, OneStays
<1> QED  BY <1>3, <1>4

\* An accept installs its client, or does what the deadline does.
LEMMA AcceptStays ==
    ASSUME RegistryInv, NEW c, NEW m \in Members, TransferAccept(c, m)
    PROVE  RegistryInv' /\ (WatchInv => WatchInv')
<1> DEFINE k == PairOf(m)
           p == Principal(c)
           r == Overdue[k]
           o == Accept(r.pair.auth, k, p, r.pair.generation, now)
           fanned == Fan(r, k, o)
           bound == [fanned EXCEPT !.pair.member = m]
           last == IF o.effect.kind = "committed" THEN bound ELSE fanned
<1>1. p \in Principals /\ p \in Connected /\ now \in Nat
  BY DEF TransferAccept, Welcomed, RegistryInv, ClientsOk, Connected
<1>2. UNCHANGED <<now, catalog, clients, nextPrincipal>>
  BY DEF TransferAccept
<1>3. CASE ~ Declared(m)
  BY <1>2, <1>3, OverdueFinishStays DEF TransferAccept
<1>4. CASE Declared(m)
  <2>1. k \in Registered /\ m \in DOMAIN catalog /\ catalog[m].group = k
    BY <1>4, DeclaredIsRegistered
  <2>2. /\ Stays(pairs[k], r.pair, k, Connected)
        /\ Agrees(r.pair) /\ DOMAIN r = {"pair", "acts"}
    BY <2>1, OverdueStays
  <2>3. IsScope(r.pair.auth)
    BY <2>2 DEF Agrees
  <2>4. /\ Tells(r.pair.auth, o) /\ o.effect.kind \in {"committed"} \cup NoteKinds
        /\ o.effect.kind = "committed" => EffectiveHolder(o.state) = p
    BY <1>1, <2>3, AcceptTells, SMTT(30)
  <2>5. Finish([Overdue EXCEPT ![k] = last], NoReply)
    BY <1>4 DEF TransferAccept
  <2> HIDE DEF o, r, k, p
  <2>6. CASE o.effect.kind = "committed"
    <3>1. /\ Agrees(fanned.pair) /\ fanned.pair.holder = p
          /\ fanned.pair.watch = IF CommandOnly(k) THEN r.pair.watch
                                 ELSE Watch(fanned.pair.holder, Silence)
          /\ DOMAIN fanned = {"pair", "acts"}
      BY <2>2, <2>4, <2>6, FanAgrees, FanIsProgress DEF Fan
    <3> HIDE DEF fanned
    <3>2. Watched(pairs[k], CommandOnly(k), Silence) =>
             IF CommandOnly(k) THEN fanned.pair.watch.principal = NoPrincipal
                               ELSE fanned.pair.watch = Watch(p, Silence)
      BY <2>2, <3>1 DEF Stays, Watched, IsWatched
    <3>3. Stays(pairs[k], bound.pair, k, Connected)
      BY <1>1, <2>1, <3>1, <3>2, BoundStays
    <3>4. last = bound
      BY <2>6
    <3> HIDE DEF bound, last
    <3> QED  BY <1>2, <2>1, <2>5, <3>3, <3>4, OneStays
  <2>7. CASE o.effect.kind \in NoteKinds
    <3>1. Stays(pairs[k], fanned.pair, k, Connected)
      BY <2>2, <2>4, <2>7, FanStays
    <3>2. last = fanned
      BY <2>7 DEF NoteKinds
    <3> HIDE DEF fanned, last
    <3> QED  BY <1>2, <2>1, <2>5, <3>1, <3>2, OneStays
  <2> QED  BY <2>4, <2>6, <2>7
<1> QED  BY <1>3, <1>4

\* A frame keeps the lease it came under.
LEMMA FrameStays ==
    ASSUME RegistryInv, NEW c, NEW m, NEW g, NEW n, NEW posture, Frame(c, m, g, n, posture)
    PROVE  RegistryInv' /\ (WatchInv => WatchInv')
<1> DEFINE k == PairOf(m)
           p == Principal(c)
           r == AcceptFrame(Overdue[k], p, m, g, n, posture, Silence)
<1>1. /\ k \in Registered /\ p # NoPrincipal /\ Silence \in Nat
  BY DurationsAssumption, NoPrincipalAssumption
  DEF Frame, Welcomed, RegistryInv, ClientsOk, Silence
<1>2. /\ Stays(pairs[k], Overdue[k].pair, k, Connected)
      /\ Agrees(Overdue[k].pair) /\ DOMAIN Overdue[k] = {"pair", "acts"}
  BY <1>1, OverdueStays
<1>3. /\ UNCHANGED <<now, catalog, clients, nextPrincipal>>
      /\ Finish([Overdue EXCEPT ![k] = r], NoReply)
  BY DEF Frame, Judged
<1>4. Lasts(Overdue[k].pair, r.pair, CommandOnly(k), Silence)
  BY <1>1, <1>2, FrameLasts
<1> HIDE DEF r, k
<1>5. Stays(pairs[k], r.pair, k, Connected)
  BY <1>2, <1>4, ThenLasts
<1> QED  BY <1>1, <1>3, <1>5, OneStays

\* A command changes nothing of the pair.
LEMMA CommandStays ==
    ASSUME RegistryInv, NEW c, NEW m, NEW g, ActionCommand(c, m, g)
    PROVE  RegistryInv' /\ (WatchInv => WatchInv')
<1> DEFINE k == PairOf(m)
           r == Emitting(Overdue[k], ApplyFrame(Principal(c), m, g, "action"))
<1>1. k \in Registered
  BY DeclaredIsRegistered DEF ActionCommand
<1>2. /\ Stays(pairs[k], Overdue[k].pair, k, Connected)
      /\ DOMAIN Overdue[k] = {"pair", "acts"}
  BY <1>1, OverdueStays
<1>3. r.pair = Overdue[k].pair
  BY <1>2 DEF Emitting
<1>4. /\ UNCHANGED <<now, catalog, clients, nextPrincipal>>
      /\ Finish([Overdue EXCEPT ![k] = r], NoReply)
  BY DEF ActionCommand, Judged
<1> HIDE DEF r, k
<1> QED  BY <1>1, <1>2, <1>3, <1>4, OneStays

-----------------------------------------------------------------------------
(* Calls by the driver.                                                    *)

\* Clears that are asked for again change no pair.
LEMMA TickCallStays ==
    ASSUME RegistryInv, HandleTick
    PROVE  RegistryInv' /\ (WatchInv => WatchInv')
<1> DEFINE progress == [k \in Registered |-> RetryClear(Overdue[k])]
<1>1. /\ Finish(progress, NoReply) /\ DOMAIN progress = Registered
      /\ UNCHANGED <<now, catalog, clients, nextPrincipal>>
  BY DEF HandleTick
<1>2. ASSUME NEW k \in Registered
      PROVE  Stays(pairs[k], progress[k].pair, k, Connected)
  <2>1. DOMAIN Overdue[k] = {"pair", "acts"} /\ Stays(pairs[k], Overdue[k].pair, k, Connected)
    BY OverdueStays
  <2>2. progress[k] = RetryClear(Overdue[k])
    OBVIOUS
  <2> HIDE DEF progress
  <2>3. progress[k].pair = Overdue[k].pair
    BY <2>1, <2>2 DEF RetryClear, Emitting
  <2> QED  BY <2>1, <2>3
<1> HIDE DEF progress
<1> QED  BY <1>1, <1>2, FinishStays

\* A pair nothing is done to, and one that is revoked.
LEMMA UntouchedStays ==
    ASSUME RegistryInv, NEW k \in Registered
    PROVE  /\ Untouched[k].pair = pairs[k]
           /\ Stays(pairs[k], Untouched[k].pair, k, Connected)
           /\ Lasts(pairs[k], Fan(Untouched[k], k, Revoke(pairs[k].auth, k)).pair,
                    CommandOnly(k), Silence)
           /\ Fan(Untouched[k], k, Revoke(pairs[k].auth, k)).pair.holder = NoPrincipal
           /\ Fan(Untouched[k], k, Revoke(pairs[k].auth, k)).pair.auth.generation
                 # pairs[k].auth.generation
<1> DEFINE r == Untouched[k]
           o == Revoke(pairs[k].auth, k)
<1>1. r.pair = pairs[k]
  BY DEF Untouched, Begin, Progress
<1>2. PairOk(pairs[k], k, catalog, Connected) /\ Agrees(r.pair) /\ IsScope(pairs[k].auth)
  BY <1>1 DEF RegistryInv, PairOk, Agrees
<1>3. /\ Tells(r.pair.auth, o) /\ o.effect.kind = "revoked"
      /\ o.state.generation # pairs[k].auth.generation
  <2>1. o.state.generation = pairs[k].auth.generation + 1
    BY DEF Revoke, Install, Outcome
  <2> QED  BY <1>1, <1>2, <2>1, RevokeTells DEF IsScope
<1> HIDE DEF r, o
<1>4. /\ Lasts(r.pair, Fan(r, k, o).pair, CommandOnly(k), Silence)
      /\ Fan(r, k, o).pair.holder = NoPrincipal
      /\ Fan(r, k, o).pair.auth.generation # pairs[k].auth.generation
  <2>1. Lasts(r.pair, Fan(r, k, o).pair, CommandOnly(k), Silence)
    BY <1>2, <1>3, FanLasts DEF Fan
  <2>2. /\ Fan(r, k, o).pair.holder = EffectiveHolder(o.state)
        /\ Fan(r, k, o).pair.auth = o.state
    BY <1>2, <1>3, FanAgrees DEF Fan
  <2> QED  BY <1>3, <2>1, <2>2 DEF Tells
<1> QED  BY <1>1, <1>2, <1>4 DEF Stays, r, o

\* A device's report ends the lease it names, or nothing.
LEMMA DeviceStays ==
    ASSUME RegistryInv, NEW session, NEW m, NEW g, DeviceAuthorityLoss(session, m, g)
    PROVE  RegistryInv' /\ (WatchInv => WatchInv')
<1> DEFINE k == PairOf(m)
           r == Fan(Untouched[k], k, Revoke(Untouched[k].pair.auth, k))
           progress == IF Declared(m) /\ SessionHolds(session, pairs[k], g)
                       THEN [Untouched EXCEPT ![k] = r] ELSE Untouched
<1>1. /\ Finish(progress, NoReply) /\ DOMAIN progress = Registered
      /\ UNCHANGED <<now, catalog, clients, nextPrincipal>>
  BY DEF DeviceAuthorityLoss, Untouched
<1>2. ASSUME NEW j \in Registered
      PROVE  Stays(pairs[j], progress[j].pair, j, Connected)
  <2>1. Stays(pairs[j], Untouched[j].pair, j, Connected)
    BY UntouchedStays
  <2>2. CASE Declared(m) /\ SessionHolds(session, pairs[k], g) /\ j = k
    <3>1. progress[j] = r
      BY <2>2 DEF Untouched
    <3>2. Untouched[k].pair = pairs[k] /\ PairOk(pairs[k], k, catalog, Connected)
      BY <2>2, UntouchedStays DEF RegistryInv
    <3>3. Lasts(pairs[k], r.pair, CommandOnly(k), Silence)
      BY <2>2, <3>2, UntouchedStays
    <3> HIDE DEF r, k, progress
    <3> QED  BY <2>2, <3>1, <3>2, <3>3, LastsStays
  <2>3. CASE ~ (Declared(m) /\ SessionHolds(session, pairs[k], g) /\ j = k)
    <3>1. progress[j] = Untouched[j]
      BY <2>3 DEF Untouched
    <3> QED  BY <2>1, <3>1
  <2> QED  BY <2>2, <2>3
<1> HIDE DEF progress
<1> QED  BY <1>1, <1>2, FinishStays

\* The adapter's word ends a loss, and nothing else.
LEMMA ClearStays ==
    ASSUME RegistryInv, NEW k \in Registered, NEW g,
           pairs' = [pairs EXCEPT ![k] = ConfirmCleared(@, g)],
           UNCHANGED <<now, catalog, clients, nextPrincipal>>
    PROVE  RegistryInv' /\ (WatchInv => WatchInv')
<1>2. /\ UNCHANGED <<now, catalog, clients, nextPrincipal>> /\ DOMAIN pairs' = DOMAIN pairs
      /\ \A j \in Registered : pairs'[j] = IF j = k THEN ConfirmCleared(pairs[k], g)
                                                     ELSE pairs[j]
  BY DEF Registered
<1>3. ClientsOk' /\ Connected' = Connected
  BY <1>2 DEF RegistryInv, ClientsOk, Connected, Principal
<1>4. ASSUME NEW j \in Registered
      PROVE  Stays(pairs[j], pairs'[j], j, Connected')
  <2>1. PairOk(pairs[j], j, catalog, Connected)
    BY DEF RegistryInv
  <2> DEFINE after == ConfirmCleared(pairs[k], g)
  <2>2. CASE j = k
    <3>1. /\ after.auth = pairs[k].auth /\ after.holder = pairs[k].holder
          /\ after.generation = pairs[k].generation /\ after.heldBy = pairs[k].heldBy
          /\ after.member = pairs[k].member /\ after.watch = pairs[k].watch
          /\ DOMAIN after = DOMAIN pairs[k]
      BY <2>1, <2>2 DEF ConfirmCleared, PairOk, Agrees
    <3> HIDE DEF after
    <3>2. Agrees(after)
      BY <2>1, <2>2, <3>1 DEF PairOk, Agrees
    <3>3. Lasts(pairs[k], after, CommandOnly(k), Silence)
      BY <3>1, <3>2 DEF Lasts, Watched, IsWatched
    <3>4. pairs'[k] = after
      BY <1>2 DEF after
    <3> QED  BY <1>3, <2>1, <2>2, <3>3, <3>4, LastsStays
  <2>3. CASE j # k
    BY <1>2, <1>3, <2>1, <2>3 DEF Stays
  <2> QED  BY <2>2, <2>3
<1> QED  BY <1>2, <1>3, <1>4, PairsStay

\* So does a confirmation in general.
LEMMA ConfirmStays ==
    ASSUME RegistryInv, NEW k \in Registered, Confirm(k)
    PROVE  RegistryInv' /\ (WatchInv => WatchInv')
BY ClearStays DEF Confirm

\* Time brings a deadline closer, never further.
LEMMA ClockStays ==
    ASSUME RegistryInv, Tick
    PROVE  RegistryInv' /\ (WatchInv => WatchInv')
<1>1. /\ now \in Nat /\ now' = now + 1 /\ Silence \in Nat /\ Silence' = Silence + 1
      /\ UNCHANGED <<catalog, clients, nextPrincipal, pairs>>
  BY DurationsAssumption DEF Tick, RegistryInv, Silence
<1>2. RegistryInv'
  BY <1>1 DEF RegistryInv, ClientsOk, Connected, Principal, Registered
<1>3. ASSUME WatchInv  PROVE  WatchInv'
  <2>1. ASSUME NEW k \in Registered
        PROVE  Watched(pairs[k], CommandOnly(k), Silence + 1)
    <3>1. Watched(pairs[k], CommandOnly(k), Silence)
      BY <1>3 DEF WatchInv
    <3>2. ASSUME NEW d \in Nat, d <= Silence  PROVE  d <= Silence + 1
      BY <1>1, <3>2
    <3> QED  BY <3>1, <3>2 DEF Watched
  <2>2. \A k : CommandOnly(k)' = CommandOnly(k)
    BY <1>1 DEF CommandOnly, IsCommandOnly
  <2> QED  BY <1>1, <2>1, <2>2 DEF WatchInv, Registered
<1> QED  BY <1>2, <1>3

-----------------------------------------------------------------------------
(* A change of the catalog.                                                *)

\* A command-only group that keeps its members gains no setpoint stream.  The
\* engine revokes a group whose members change, not one that only grows
\* (catalog.rs:104): a holder of such a group would not be watched.
NoStreamAppears ==
    \A c, d \in Catalogs : \A k :
        /\ IsCommandOnly(c, k) /\ k \in Groups(d)
        /\ \A m \in DOMAIN c : c[m].group = k => m \in DOMAIN d /\ d[m] = c[m]
        => IsCommandOnly(d, k)

\* A pair nobody has asked for yet.
LEMMA NewPairIsOk ==
    ASSUME NEW k, NEW c, NEW who, NEW commandOnly, NEW deadline
    PROVE  PairOk(NewPair, k, c, who) /\ Watched(NewPair, commandOnly, deadline)
<1>1. /\ NewPair.auth = NewScope /\ NewPair.holder = NoPrincipal
      /\ NewPair.generation = 0 /\ NewPair.heldBy = {} /\ NewPair.member = NoMember
      /\ NewPair.watch = NoWatch
      /\ DOMAIN NewPair = {"auth", "holder", "generation", "heldBy", "member", "watch",
                           "loss", "sequence"}
  BY DEF NewPair
<1>2. NewScope.generation = 0 /\ IsScope(NewScope) /\ EffectiveHolder(NewScope) = NoPrincipal
  <2>1. /\ NewScope.generation = 0 /\ NewScope.holder = Unassigned
        /\ DOMAIN NewScope = {"generation", "holder", "link"}
    BY DEF NewScope
  <2> QED  BY <2>1 DEF IsScope, EffectiveHolder, Unassigned
<1>3. Agrees(NewPair)
  BY <1>1, <1>2 DEF Agrees
<1>4. ~ IsWatched(NewPair)
  BY <1>1 DEF IsWatched, NoWatch, Watch
<1> QED  BY <1>1, <1>3, <1>4 DEF PairOk, BoundTo, Watched

\* A refresh revokes the groups it changes; what it leaves, it leaves in order.
LEMMA RefreshStays ==
    ASSUME RegistryInv, NEW next \in Catalogs, RefreshCapabilities(next)
    PROVE  RegistryInv' /\ (NoStreamAppears /\ WatchInv => WatchInv')
<1> DEFINE Revoked(k) == Fan(Untouched[k], k, Revoke(pairs[k].auth, k)).pair
<1>1. /\ catalog' = next /\ UNCHANGED <<now, clients, nextPrincipal>>
      /\ DOMAIN pairs' = Registered \cup Groups(next)
      /\ \A k \in Registered \cup Groups(next) :
            pairs'[k] = IF k \in Registered
                        THEN IF k \in ChangedGroups(next) THEN Revoked(k)
                                                          ELSE Untouched[k].pair
                        ELSE NewPair
  BY DEF RefreshCapabilities, Finish, Begin, Progress
<1>2. ClientsOk' /\ Connected' = Connected /\ Silence' = Silence
  BY <1>1 DEF RegistryInv, ClientsOk, Connected, Principal, Silence
<1>3. ASSUME NEW k, k \in Registered, k \in ChangedGroups(next)
      PROVE  /\ pairs'[k].holder = NoPrincipal
             /\ PairOk(pairs'[k], k, next, Connected)
             /\ Watched(pairs[k], CommandOnly(k), Silence) => ~ IsWatched(pairs'[k])
  <2>1. pairs'[k] = Revoked(k)
    BY <1>1, <1>3
  <2>2. Lasts(pairs[k], Revoked(k), CommandOnly(k), Silence) /\ Revoked(k).holder = NoPrincipal
    BY <1>3, UntouchedStays
  <2>3. PairOk(pairs[k], k, catalog, Connected)
    BY <1>3 DEF RegistryInv
  <2> HIDE DEF Revoked
  <2>4. Revoked(k).member = NoMember
    BY <2>2, <2>3 DEF Lasts, PairOk, BoundTo
  <2> QED  BY <2>1, <2>2, <2>4 DEF Lasts, PairOk, BoundTo, Watched
<1>4. ASSUME NEW k, k \in Registered, k \notin ChangedGroups(next)
      PROVE  /\ pairs'[k] = pairs[k]
             /\ \A m \in DOMAIN catalog : catalog[m].group = k =>
                   m \in DOMAIN next /\ next[m] = catalog[m]
             /\ PairOk(pairs'[k], k, next, Connected)
  <2>1. pairs'[k] = pairs[k]
    BY <1>1, <1>4, UntouchedStays
  <2>2. \A m \in DOMAIN catalog : catalog[m].group = k =>
           m \in DOMAIN next /\ next[m] = catalog[m]
    BY <1>4 DEF ChangedGroups
  <2>3. PairOk(pairs[k], k, catalog, Connected)
    BY <1>4 DEF RegistryInv
  <2> QED  BY <2>1, <2>2, <2>3 DEF PairOk, BoundTo
<1>5. ASSUME NEW k \in Registered \cup Groups(next)
      PROVE  PairOk(pairs'[k], k, next, Connected)
  <2>1. CASE k \in Registered
    BY <1>3, <1>4, <2>1
  <2>2. CASE k \notin Registered
    BY <1>1, <2>2, NewPairIsOk
  <2> QED  BY <2>1, <2>2
<1>6. RegistryInv'
  BY <1>1, <1>2, <1>5 DEF RegistryInv, Registered
<1>7. ASSUME NoStreamAppears, WatchInv, NEW k \in Registered \cup Groups(next)
      PROVE  Watched(pairs'[k], IsCommandOnly(next, k), Silence)
  <2>1. CASE k \in Registered /\ k \in ChangedGroups(next)
    <3>1. ~ IsWatched(pairs'[k]) /\ pairs'[k].holder = NoPrincipal
      BY <1>3, <1>7, <2>1 DEF WatchInv
    <3> QED  BY <3>1 DEF Watched
  <2>2. CASE k \in Registered /\ k \notin ChangedGroups(next)
    <3>1. /\ Watched(pairs[k], CommandOnly(k), Silence) /\ pairs'[k] = pairs[k]
          /\ PairOk(pairs[k], k, catalog, Connected)
      BY <1>4, <1>7, <2>2 DEF WatchInv, RegistryInv
    <3>2. CASE pairs[k].holder = NoPrincipal
      BY <3>1, <3>2 DEF Watched
    <3>3. CASE pairs[k].holder # NoPrincipal
      <4>1. /\ pairs[k].member \in DOMAIN catalog /\ catalog[pairs[k].member].group = k
            /\ pairs[k].member \in DOMAIN next /\ next[pairs[k].member].group = k
        BY <1>4, <2>2, <3>1, <3>3 DEF PairOk, BoundTo
      <4>2. k \in Groups(catalog) /\ k \in Groups(next)
        BY <4>1 DEF Groups
      <4>3. CommandOnly(k) = IsCommandOnly(next, k)
        <5>1. CommandOnly(k) => IsCommandOnly(next, k)
          BY <1>4, <1>7, <2>2, <4>2 DEF NoStreamAppears, CommandOnly, RegistryInv
        <5>2. IsCommandOnly(next, k) => CommandOnly(k)
          BY <1>4, <2>2, <4>2 DEF CommandOnly, IsCommandOnly
        <5> QED  BY <5>1, <5>2 DEF CommandOnly, IsCommandOnly
      <4> QED  BY <3>1, <4>3
    <3> QED  BY <3>2, <3>3
  <2>3. CASE k \notin Registered
    BY <1>1, <2>3, NewPairIsOk
  <2> QED  BY <2>1, <2>2, <2>3
<1>8. ASSUME NoStreamAppears, WatchInv  PROVE  WatchInv'
  <2>1. \A k : CommandOnly(k)' = IsCommandOnly(next, k)
    BY <1>1 DEF CommandOnly
  <2> QED  BY <1>1, <1>2, <1>7, <1>8, <2>1 DEF WatchInv, Registered
<1> QED  BY <1>6, <1>8

-----------------------------------------------------------------------------
(* The theorems.                                                           *)

\* The invariants hold in the beginning.
LEMMA InitIsOk == Init => RegistryInv /\ WatchInv
<1> SUFFICES ASSUME Init  PROVE  RegistryInv /\ WatchInv
  OBVIOUS
<1>1. /\ now = 0 /\ catalog \in Catalogs /\ nextPrincipal = 1 /\ DOMAIN clients = {}
      /\ Registered = Groups(catalog) /\ \A k \in Registered : pairs[k] = NewPair
  BY DEF Init, Registered
<1>2. RegistryInv
  BY <1>1, NewPairIsOk DEF RegistryInv, ClientsOk
<1>3. WatchInv
  BY <1>1, NewPairIsOk DEF WatchInv
<1> QED  BY <1>2, <1>3

\* Every step keeps them; the second as far as no group gains a stream.
LEMMA NextStays ==
    ASSUME RegistryInv, [Next]_vars
    PROVE  RegistryInv' /\ (NoStreamAppears /\ WatchInv => WatchInv')
<1>1. CASE UNCHANGED vars
  BY <1>1 DEF vars, RegistryInv, WatchInv, ClientsOk, Connected, Principal, Registered,
            CommandOnly, Silence
<1>2. ASSUME NEW c \in Clients, ClientCall(c)
      PROVE  RegistryInv' /\ (WatchInv => WatchInv')
  <2>1. CASE Hello(c) \/ Disconnect(c) \/ ProfileActivation(c)
    BY <2>1, HelloStays, DisconnectStays, ActivationStays
  <2>2. CASE Premature(c)
    BY <2>2, OverdueFinishStays DEF Premature
  <2>3. CASE Refuse(c)
    BY <2>3, OverdueFinishStays DEF Refuse, Judged
  <2>4. CASE \E m \in Members : Lease(c, m) \/ ReleaseLease(c, m) \/ TransferAccept(c, m)
    BY <2>4, LeaseStays, ReleaseStays, AcceptStays
  <2>5. CASE \E m \in Members : TransferRequest(c, m)
    BY <2>5, OverdueFinishStays DEF TransferRequest
  <2>6. CASE \E m \in Members : \E q \in Principals : TransferOffer(c, m, q)
    BY <2>6, OfferStays
  <2>7. CASE \E m \in Members : \E g \in 0..MaxGeneration : ActionCommand(c, m, g)
    BY <2>7, CommandStays
  <2>8. CASE \E m \in Members : \E g \in 0..MaxGeneration :
                \E n \in 0..(SequenceSize - 1), posture \in {"neutral", "driving"} :
                   Frame(c, m, g, n, posture)
    BY <2>8, FrameStays
  <2> QED
    BY <1>2, <2>1, <2>2, <2>3, <2>4, <2>5, <2>6, <2>7, <2>8 DEF ClientCall
<1>3. CASE DriverCall
  BY <1>3, TickCallStays, DeviceStays, RefreshStays DEF DriverCall
<1>4. CASE \E k \in Registered : Confirm(k)
  BY <1>4, ConfirmStays
<1>5. CASE Tick
  BY <1>5, ClockStays
<1> QED  BY <1>1, <1>2, <1>3, <1>4, <1>5 DEF Next

\* The registry agrees with the authority engine, and no lease outlives the
\* connection of its holder, whatever the catalogs.
THEOREM RegistryIsRight == Spec => [](RegistryAgrees /\ HoldersAreConnected)
<1>1. RegistryInv => RegistryAgrees /\ HoldersAreConnected
  <2>1. SUFFICES ASSUME RegistryInv  PROVE  RegistryAgrees /\ HoldersAreConnected
    OBVIOUS
  <2>2. \A k \in Registered : PairOk(pairs[k], k, catalog, Connected)
    BY <2>1 DEF RegistryInv
  <2>3. RegistryAgrees
    BY <2>2 DEF RegistryAgrees, PairOk, Agrees, BoundTo
  <2>4. HoldersAreConnected
    BY <2>1, <2>2 DEF HoldersAreConnected, PairOk, Agrees, Connected, RegistryInv, ClientsOk
  <2> QED  BY <2>3, <2>4
<1>2. Init => RegistryInv
  BY InitIsOk
<1>3. RegistryInv /\ [Next]_vars => RegistryInv'
  BY NextStays
<1> QED  BY <1>1, <1>2, <1>3, PTL DEF Spec

\* Where no command-only group gains a setpoint stream under its holder, every
\* holder that can go silent is watched, within one silence window.
THEOREM AccountedFor == NoStreamAppears => (Spec => []HoldersAreAccountedFor)
<1> SUFFICES ASSUME NoStreamAppears  PROVE  Spec => []HoldersAreAccountedFor
  OBVIOUS
<1>1. RegistryInv /\ WatchInv => HoldersAreWatched
  BY DEF RegistryInv, WatchInv, HoldersAreWatched, Watched
<1>2. Init => RegistryInv /\ WatchInv
  BY InitIsOk
<1>3. RegistryInv /\ WatchInv /\ [Next]_vars => RegistryInv' /\ WatchInv'
  BY NextStays
<1>4. Spec => []HoldersAreWatched
  BY <1>1, <1>2, <1>3, PTL DEF Spec
<1>5. HoldersAreWatched /\ RegistryAgrees /\ HoldersAreConnected => HoldersAreAccountedFor
  BY DEF HoldersAreAccountedFor
<1> QED  BY <1>4, <1>5, RegistryIsRight, PTL

\* A refresh fences the leases whose contract it changes.
LEMMA RefreshFences ==
    ASSUME RegistryInv, NEW next \in Catalogs, RefreshCapabilities(next),
           NEW k \in Registered, pairs[k].member # NoMember,
           pairs'[k].auth.generation = pairs[k].auth.generation
    PROVE  /\ pairs[k].member \in DOMAIN catalog'
           /\ catalog'[pairs[k].member] = catalog[pairs[k].member]
<1>1. pairs[k].member \in DOMAIN catalog /\ catalog[pairs[k].member].group = k
  BY DEF RegistryInv, PairOk, BoundTo
<1>2. catalog' = next
  BY DEF RefreshCapabilities
<1>3. CASE k \in ChangedGroups(next)
  <2>1. pairs'[k] = Fan(Untouched[k], k, Revoke(pairs[k].auth, k)).pair
    BY <1>3 DEF RefreshCapabilities, Finish
  <2> QED  BY <2>1, UntouchedStays
<1>4. CASE k \notin ChangedGroups(next)
  BY <1>1, <1>2, <1>4 DEF ChangedGroups
<1> QED  BY <1>3, <1>4

\* No lease survives a change of its contract.
THEOREM ContractsHold == Spec => ContractsAreFenced
<1> DEFINE Fences == \A k \in Registered :
          LET m == pairs[k].member
          IN  m # NoMember /\ pairs'[k].auth.generation = pairs[k].auth.generation =>
                 m \in DOMAIN catalog' /\ catalog'[m] = catalog[m]
<1>1. ASSUME RegistryInv, [Next]_vars  PROVE  [Fences]_vars
  <2>1. CASE \E next \in Catalogs : RefreshCapabilities(next)
    BY <1>1, <2>1, RefreshFences
  <2>2. CASE catalog' = catalog
    <3>1. \A k \in Registered : pairs[k].member # NoMember => pairs[k].member \in DOMAIN catalog
      BY <1>1 DEF RegistryInv, PairOk, BoundTo
    <3> QED  BY <2>2, <3>1
  <2>3. catalog' = catalog \/ \E next \in Catalogs : RefreshCapabilities(next)
    <3>1. ASSUME NEW c, ClientCall(c)  PROVE  catalog' = catalog
      <4>1. CASE Hello(c) \/ Premature(c) \/ Disconnect(c) \/ ProfileActivation(c) \/ Refuse(c)
        BY <4>1 DEF Hello, Premature, Disconnect, ProfileActivation, Refuse
      <4>2. CASE \E m : \/ Lease(c, m) \/ ReleaseLease(c, m) \/ TransferRequest(c, m)
                        \/ TransferAccept(c, m) \/ \E q : TransferOffer(c, m, q)
        BY <4>2 DEF Lease, ReleaseLease, TransferRequest, TransferAccept, TransferOffer
      <4>3. CASE \E m, g : \/ ActionCommand(c, m, g)
                           \/ \E n, posture : Frame(c, m, g, n, posture)
        BY <4>3 DEF ActionCommand, Frame
      <4> QED  BY <3>1, <4>1, <4>2, <4>3 DEF ClientCall
    <3>2. CASE DriverCall
      BY <3>2 DEF DriverCall, HandleTick, DeviceAuthorityLoss
    <3>3. CASE Tick \/ UNCHANGED vars \/ \E k \in Registered : Confirm(k)
      BY <3>3 DEF Tick, Confirm, vars
    <3> QED  BY <1>1, <3>1, <3>2, <3>3 DEF Next
  <2> QED  BY <2>1, <2>2, <2>3
<1>2. Init => RegistryInv
  BY InitIsOk
<1>3. RegistryInv /\ [Next]_vars => RegistryInv'
  BY NextStays
<1> QED  BY <1>1, <1>2, <1>3, PTL DEF Spec, ContractsAreFenced

-----------------------------------------------------------------------------
(* What the driver is told.                                                *)

\* The actions of a call come in a sequence.
IsList(l) == \E S : l \in Seq(S)

\* One act more.
LEMMA AppendIsList ==
    ASSUME NEW l, IsList(l), NEW act
    PROVE  /\ IsList(Append(l, act)) /\ Len(l) \in Nat
           /\ DOMAIN l = 1..Len(l) /\ DOMAIN Append(l, act) = 1..(Len(l) + 1)
           /\ \A i \in 1..Len(l) : Append(l, act)[i] = l[i]
           /\ Append(l, act)[Len(l) + 1] = act
<1>1. PICK S : l \in Seq(S)
  BY DEF IsList
<1>2. PICK T : S \subseteq T /\ act \in T
  <2>1. S \subseteq S \cup {act} /\ act \in S \cup {act}
    OBVIOUS
  <2> QED  BY <2>1
<1>3. l \in Seq(T)
  BY <1>1, <1>2, SeqMonotonic
<1>4. /\ Append(l, act) \in Seq(T) /\ Len(Append(l, act)) = Len(l) + 1
      /\ \A i \in 1..Len(l) : Append(l, act)[i] = l[i]
      /\ Append(l, act)[Len(l) + 1] = act
  BY <1>2, <1>3, AppendProperties
<1>5. Len(l) \in Nat /\ DOMAIN l = 1..Len(l)
  BY <1>3, LenProperties
<1>6. DOMAIN Append(l, act) = 1..Len(Append(l, act))
  BY <1>4, LenProperties
<1> QED  BY <1>4, <1>5, <1>6 DEF IsList

\* What is left behind an act.
LEMMA RestIsList ==
    ASSUME NEW l, IsList(l), NEW i \in DOMAIN l
    PROVE  /\ IsList(SubSeq(l, i + 1, Len(l)))
           /\ \A j \in DOMAIN SubSeq(l, i + 1, Len(l)) :
                 i + j \in DOMAIN l /\ SubSeq(l, i + 1, Len(l))[j] = l[i + j]
<1>1. PICK S : l \in Seq(S)
  BY DEF IsList
<1>2. DOMAIN l = 1..Len(l) /\ Len(l) \in Nat
  BY <1>1, LenProperties
<1>3. i \in 1..Len(l) /\ i + 1 \in Int /\ Len(l) \in Int
  BY <1>2
<1>4. \A j \in (i + 1)..Len(l) : l[j] \in S
  <2>1. SUFFICES ASSUME NEW j \in (i + 1)..Len(l)  PROVE  l[j] \in S
    OBVIOUS
  <2>2. j \in 1..Len(l)
    BY <1>2, <1>3
  <2> QED  BY <1>1, <2>2, ElementOfSeq
<1> DEFINE rest == SubSeq(l, i + 1, Len(l))
<1>5. /\ rest \in Seq(S)
      /\ Len(rest) = IF i + 1 <= Len(l) THEN Len(l) - (i + 1) + 1 ELSE 0
      /\ \A j \in 1..(Len(l) - (i + 1) + 1) : rest[j] = l[i + 1 + j - 1]
  BY <1>3, <1>4, SubSeqProperties
<1> HIDE DEF rest
<1>6. DOMAIN rest = 1..Len(rest)
  BY <1>5, LenProperties
<1>7. ASSUME NEW j \in DOMAIN rest
      PROVE  i + j \in DOMAIN l /\ rest[j] = l[i + j]
  <2>1. j \in 1..(Len(l) - (i + 1) + 1) /\ i + 1 + j - 1 = i + j
    <3>1. j \in 1..Len(rest) /\ i \in Nat
      BY <1>3, <1>6
    <3>2. i + 1 <= Len(l) /\ Len(rest) = Len(l) - (i + 1) + 1
      BY <1>2, <1>3, <1>5, <3>1
    <3> QED  BY <1>2, <3>1, <3>2
  <2>2. rest[j] = l[i + j]
    BY <1>5, <2>1
  <2>3. i + j \in DOMAIN l
    BY <1>2, <1>3, <2>1
  <2> QED  BY <2>2, <2>3
<1> QED  BY <1>5, <1>7 DEF IsList, rest

\* Neither a clear nor a frame.
Quiet(l) == IsList(l) /\ \A i \in DOMAIN l : l[i].kind \notin {"clear", "apply"}

\* A clear that waits belongs to the lease in force, which is for a member
\* with a setpoint stream.
LossOk(pair, c) ==
    /\ pair.loss = NotLost \/ pair.loss = Engaged \/ \E g : pair.loss = ClearPending(g)
    /\ pair.loss.phase = "pending" =>
          /\ pair.loss.generation = pair.auth.generation
          /\ EffectiveHolder(pair.auth) # NoPrincipal
          /\ pair.member \in DOMAIN c /\ c[pair.member].intents

ActsOk(pair, l, t, c) ==
    /\ IsList(l)
    /\ \A i \in DOMAIN l : l[i].kind = "clear" => pair.loss = ClearPending(l[i].generation)
    /\ \A i, j \in DOMAIN l : l[i].kind = "clear" /\ l[j].kind = "clear" => i = j
    /\ \A i \in DOMAIN l : l[i].kind = "apply" =>
          /\ l[i].principal = EffectiveHolder(pair.auth)
          /\ l[i].generation = pair.auth.generation
          /\ l[i].member = pair.member /\ ~ IsSilent(pair, t)
          /\ l[i].posture # "action" => pair.member \in DOMAIN c /\ c[pair.member].intents

ActsInv ==
    /\ DOMAIN acts = Registered
    /\ \A k \in Registered : LossOk(pairs[k], catalog) /\ ActsOk(pairs[k], acts[k], now, catalog)

\* Nothing is said wrong where nothing is said.
LEMMA QuietIsOk ==
    ASSUME NEW pair, NEW l, Quiet(l), NEW t, NEW c
    PROVE  ActsOk(pair, l, t, c)
BY DEF Quiet, ActsOk

\* One more act that is right.
LEMMA SaysMore ==
    ASSUME NEW pair, NEW l, NEW t, NEW c, ActsOk(pair, l, t, c), NEW act,
           act.kind = "clear" => /\ \A i \in DOMAIN l : l[i].kind # "clear"
                                 /\ pair.loss = ClearPending(act.generation),
           act.kind = "apply" => /\ act.principal = EffectiveHolder(pair.auth)
                                 /\ act.generation = pair.auth.generation
                                 /\ act.member = pair.member /\ ~ IsSilent(pair, t)
                                 /\ act.posture # "action" =>
                                       pair.member \in DOMAIN c /\ c[pair.member].intents
    PROVE  ActsOk(pair, Append(l, act), t, c)
<1> DEFINE m == Append(l, act)
<1>1. /\ IsList(m) /\ Len(l) \in Nat /\ DOMAIN l = 1..Len(l) /\ DOMAIN m = 1..(Len(l) + 1)
      /\ \A i \in 1..Len(l) : m[i] = l[i]
      /\ m[Len(l) + 1] = act
  BY AppendIsList DEF ActsOk
<1> HIDE DEF m
<1>2. \A i \in DOMAIN m : (i = Len(l) + 1 /\ m[i] = act) \/ (i \in DOMAIN l /\ m[i] = l[i])
  BY <1>1
<1>3. \A i \in DOMAIN m : m[i].kind = "clear" => pair.loss = ClearPending(m[i].generation)
  BY <1>2 DEF ActsOk
<1>4. \A i, j \in DOMAIN m : m[i].kind = "clear" /\ m[j].kind = "clear" => i = j
  BY <1>2 DEF ActsOk
<1>5. \A i \in DOMAIN m : m[i].kind = "apply" =>
          /\ m[i].principal = EffectiveHolder(pair.auth)
          /\ m[i].generation = pair.auth.generation
          /\ m[i].member = pair.member /\ ~ IsSilent(pair, t)
          /\ m[i].posture # "action" => pair.member \in DOMAIN c /\ c[pair.member].intents
  <2>1. SUFFICES ASSUME NEW i \in DOMAIN m, m[i].kind = "apply"
                 PROVE  /\ m[i].principal = EffectiveHolder(pair.auth)
                        /\ m[i].generation = pair.auth.generation
                        /\ m[i].member = pair.member /\ ~ IsSilent(pair, t)
                        /\ m[i].posture # "action" =>
                              pair.member \in DOMAIN c /\ c[pair.member].intents
    OBVIOUS
  <2>2. CASE m[i] = act
    BY <2>1, <2>2
  <2>3. CASE i \in DOMAIN l /\ m[i] = l[i]
    BY <2>1, <2>3 DEF ActsOk
  <2> QED  BY <1>2, <2>2, <2>3
<1> QED  BY <1>1, <1>3, <1>4, <1>5 DEF ActsOk, m

\* Quiet acts, and then one more, or two.
LEMMA QuietMore ==
    ASSUME NEW l, Quiet(l), NEW act, act.kind \notin {"clear", "apply"}
    PROVE  Quiet(Append(l, act))
<1>1. /\ IsList(Append(l, act)) /\ Len(l) \in Nat /\ DOMAIN l = 1..Len(l)
      /\ DOMAIN Append(l, act) = 1..(Len(l) + 1)
      /\ \A i \in 1..Len(l) : Append(l, act)[i] = l[i]
      /\ Append(l, act)[Len(l) + 1] = act
  BY AppendIsList DEF Quiet
<1> QED  BY <1>1 DEF Quiet

\* So do the acts of a loss.
LEMMA QuietLoss ==
    ASSUME NEW l, Quiet(l), NEW e, NEW commandOnly
    PROVE  Quiet(l \o LossActs(e, commandOnly))
<1>1. PICK S : l \in Seq(S)
  BY DEF Quiet, IsList
<1> DEFINE T == S \cup {Invalidate, Engage(e.generation)}
           m == LossActs(e, commandOnly)
<1>2. l \in Seq(T)
  <2>1. S \subseteq T
    OBVIOUS
  <2> QED  BY <1>1, <2>1, SeqMonotonic
<1>3. m \in Seq(T) /\ \A i \in 1..Len(m) : m[i] \in {Invalidate, Engage(e.generation)}
  <2>1. CASE commandOnly
    BY <2>1 DEF LossActs
  <2>2. CASE ~ commandOnly
    BY <2>2 DEF LossActs
  <2> QED  BY <2>1, <2>2
<1> HIDE DEF T, m
<1>4. /\ l \o m \in Seq(T) /\ Len(l \o m) = Len(l) + Len(m)
      /\ \A i \in 1 .. Len(l) + Len(m) :
            (l \o m)[i] = IF i <= Len(l) THEN l[i] ELSE m[i - Len(l)]
  BY <1>2, <1>3, ConcatProperties
<1>5. /\ Len(l) \in Nat /\ Len(m) \in Nat /\ DOMAIN l = 1..Len(l)
      /\ DOMAIN (l \o m) = 1..(Len(l) + Len(m))
  BY <1>2, <1>3, <1>4, LenProperties
<1>6. ASSUME NEW i \in DOMAIN (l \o m)
      PROVE  (l \o m)[i].kind \notin {"clear", "apply"}
  <2>1. CASE i <= Len(l)
    <3>1. i \in DOMAIN l /\ (l \o m)[i] = l[i]
      BY <1>4, <1>5, <2>1
    <3> QED  BY <3>1 DEF Quiet
  <2>2. CASE ~ (i <= Len(l))
    <3>1. i - Len(l) \in 1..Len(m) /\ (l \o m)[i] = m[i - Len(l)]
      BY <1>4, <1>5, <2>2
    <3>2. (l \o m)[i] \in {Invalidate, Engage(e.generation)}
      BY <1>3, <3>1
    <3> QED  BY <3>2 DEF Invalidate, Engage
  <2> QED  BY <2>1, <2>2
<1> QED  BY <1>4, <1>6 DEF Quiet, IsList, m

\* A fan-out clears and applies nothing, and a clear that waits is forgotten
\* with its lease.
LEMMA FanIsQuiet ==
    ASSUME NEW r, {"auth", "holder", "generation", "heldBy", "member", "watch", "loss",
                   "sequence"} \subseteq DOMAIN r.pair,
           NEW c, LossOk(r.pair, c), Quiet(r.acts), NEW commandOnly,
           commandOnly => r.pair.loss.phase # "pending",
           NEW o, Tells(r.pair.auth, o), NEW deadline
    PROVE  LET after == FanOut(r, o, deadline, commandOnly)
           IN  /\ LossOk(after.pair, c) /\ Quiet(after.acts)
               /\ o.effect.kind \in {"granted", "committed"} =>
                     after.pair.loss.phase # "pending"
<1> DEFINE e == o.effect
           pair == [r.pair EXCEPT !.auth = o.state]
           after == FanOut(r, o, deadline, commandOnly)
<1>1. /\ pair.auth = o.state /\ pair.loss = r.pair.loss /\ pair.member = r.pair.member
      /\ DOMAIN pair = DOMAIN r.pair
  OBVIOUS
<1>2. /\ Engaged.phase = "engaged" /\ NotLost.phase = "none"
      /\ \A g : ClearPending(g).phase = "pending"
  BY DEF Engaged, NotLost, ClearPending
<1> HIDE DEF pair
<1>3. CASE e.kind \in NoteKinds
  <2>1. after.pair = pair /\ after.acts = r.acts
    BY <1>3 DEF FanOut, Progress, NoteKinds, pair
  <2>2. EffectiveHolder(o.state) = EffectiveHolder(r.pair.auth)
        /\ o.state.generation = r.pair.auth.generation
    BY <1>3 DEF Tells
  <2>3. LossOk(pair, c)
    BY <1>1, <2>2 DEF LossOk
  <2> QED  BY <1>3, <2>1, <2>3 DEF NoteKinds
<1>4. CASE e.kind \in {"granted", "committed"}
  <2>1. /\ after.pair = Installed(pair, e, deadline, commandOnly)
        /\ after.acts = r.acts \/ after.acts = Append(r.acts, Invalidate)
    BY <1>4 DEF FanOut, Progress, pair
  <2>2. after.pair.loss = InvalidatePending(r.pair.loss)
    BY <1>1, <2>1 DEF Installed, RecordHold
  <2>3. Quiet(after.acts)
    BY <2>1, QuietMore DEF Invalidate
  <2>4. after.pair.loss = NotLost \/ after.pair.loss = Engaged
    BY <1>2, <2>2 DEF InvalidatePending, LossOk
  <2> HIDE DEF after
  <2> QED  BY <1>2, <2>3, <2>4 DEF LossOk, after
<1>5. CASE e.kind \in {"revoked", "linkLost"} /\ e.old # NoPrincipal
  <2>1. /\ after.pair = Vacated(pair, e, commandOnly)
        /\ after.acts = r.acts \o LossActs(e, commandOnly)
    BY <1>5 DEF FanOut, Progress, pair
  <2>2. after.pair.loss = IF commandOnly THEN r.pair.loss ELSE Engaged
    BY <1>1, <2>1 DEF Vacated, ClearPair
  <2>3. Quiet(after.acts)
    BY <2>1, QuietLoss
  <2>4. after.pair.loss = NotLost \/ after.pair.loss = Engaged
    BY <1>2, <2>2 DEF LossOk
  <2> HIDE DEF after
  <2> QED  BY <1>2, <2>3, <2>4 DEF LossOk, after
<1>6. CASE e.kind = "revoked" /\ e.old = NoPrincipal
  <2>1. /\ after.pair = ClearPair(pair, e) /\ after.acts = Append(r.acts, Invalidate)
    BY <1>6 DEF FanOut, Progress, pair
  <2>2. after.pair.loss = r.pair.loss /\ r.pair.loss.phase # "pending"
    <3>1. EffectiveHolder(r.pair.auth) = NoPrincipal
      BY <1>6 DEF Tells, ChangeKinds
    <3> QED  BY <1>1, <2>1, <3>1 DEF ClearPair, LossOk
  <2>3. Quiet(after.acts)
    BY <2>1, QuietMore DEF Invalidate
  <2>4. after.pair.loss = NotLost \/ after.pair.loss = Engaged
    BY <1>2, <2>2 DEF LossOk
  <2> HIDE DEF after
  <2> QED  BY <1>2, <2>3, <2>4 DEF LossOk, after
<1> QED  BY <1>3, <1>4, <1>5, <1>6 DEF Tells

\* Deadlines clear and apply nothing, and leave nobody silent.
LEMMA OverdueIsQuiet ==
    ASSUME NEW pair, Agrees(pair), NEW c, LossOk(pair, c), NEW commandOnly,
           commandOnly => pair.loss.phase # "pending", NEW k, NEW t
    PROVE  LET after == ExpireOverdue(pair, k, t, commandOnly)
           IN  LossOk(after.pair, c) /\ Quiet(after.acts) /\ ~ IsSilent(after.pair, t)
<1> DEFINE r == ExpiredOffer(Begin(pair), t)
           after == ExpireOverdue(pair, k, t, commandOnly)
<1>1. /\ DOMAIN r = {"pair", "acts"} /\ r.acts = <<>> /\ Agrees(r.pair)
      /\ LossOk(r.pair, c) /\ r.pair.loss = pair.loss
  <2>1. CASE OfferIsDue(pair.auth, t)
    <3> DEFINE expired == [pair EXCEPT !.auth = ExpireOffer(pair.auth)]
    <3>1. DOMAIN r = {"pair", "acts"} /\ r.acts = <<>> /\ r.pair = expired
      BY <2>1 DEF ExpiredOffer, Begin, Progress
    <3>2. /\ expired.auth = ExpireOffer(pair.auth) /\ expired.holder = pair.holder
          /\ expired.generation = pair.generation /\ expired.heldBy = pair.heldBy
          /\ expired.loss = pair.loss /\ expired.member = pair.member
          /\ DOMAIN expired = DOMAIN pair
      BY DEF Agrees
    <3>3. /\ IsScope(ExpireOffer(pair.auth))
          /\ EffectiveHolder(ExpireOffer(pair.auth)) = EffectiveHolder(pair.auth)
          /\ ExpireOffer(pair.auth).generation = pair.auth.generation
      BY <2>1, ExpiryTells DEF Agrees, OfferIsDue
    <3> HIDE DEF expired, r
    <3>4. Agrees(expired) /\ LossOk(expired, c)
      BY <3>2, <3>3 DEF Agrees, LossOk
    <3> QED  BY <3>1, <3>2, <3>4
  <2>2. CASE ~ OfferIsDue(pair.auth, t)
    BY <2>2 DEF ExpiredOffer, Begin, Progress
  <2> QED  BY <2>1, <2>2
<1>2. Quiet(<<>>)
  <2>1. <<>> \in Seq({}) /\ DOMAIN <<>> = {}
    OBVIOUS
  <2> QED  BY <2>1 DEF Quiet, IsList
<1>3. CASE ~ IsSilent(r.pair, t)
  <2>1. after = r
    BY <1>3 DEF ExpireOverdue, ExpiredHolder
  <2> HIDE DEF r, after
  <2>2. Quiet(after.acts)
    BY <1>1, <1>2, <2>1
  <2> QED  BY <1>1, <1>3, <2>1, <2>2 DEF after
<1>4. CASE IsSilent(r.pair, t)
  <2> DEFINE p == r.pair.watch.principal
             unwatched == [r EXCEPT !.pair.watch = NoWatch]
             o == HolderLinkChanged(r.pair.auth, k, p, "lost")
  <2>1. after = FanOut(unwatched, o, t, commandOnly)
    BY <1>4 DEF ExpireOverdue, ExpiredHolder
  <2> HIDE DEF r, after
  <2>2. /\ unwatched.pair.auth = r.pair.auth /\ unwatched.pair.holder = r.pair.holder
        /\ unwatched.pair.generation = r.pair.generation
        /\ unwatched.pair.heldBy = r.pair.heldBy /\ unwatched.pair.member = r.pair.member
        /\ unwatched.pair.watch = NoWatch /\ unwatched.pair.loss = r.pair.loss
        /\ DOMAIN unwatched.pair = DOMAIN r.pair /\ unwatched.acts = r.acts
    BY <1>1 DEF Agrees
  <2>3. Tells(r.pair.auth, o) /\ o.effect.kind \in {"linkLost", "linkState"}
    BY <1>1, <1>4, LinkTells DEF IsSilent, IsWatched, Agrees
  <2> HIDE DEF unwatched, o
  <2>4. Agrees(unwatched.pair) /\ LossOk(unwatched.pair, c) /\ Quiet(unwatched.acts)
    BY <1>1, <1>2, <2>2 DEF Agrees, LossOk
  <2>5. Tells(unwatched.pair.auth, o)
    BY <2>2, <2>3
  <2>6. LossOk(after.pair, c) /\ Quiet(after.acts)
    BY <1>1, <2>1, <2>2, <2>4, <2>5, FanIsQuiet DEF Agrees
  <2>7. after.pair.watch = NoWatch
    BY <2>1, <2>2, <2>3, <2>4, <2>5, FanAgrees DEF NoteKinds
  <2>8. ~ IsSilent(after.pair, t)
    BY <2>7 DEF IsSilent, IsWatched, NoWatch, Watch
  <2> QED  BY <2>6, <2>8 DEF after
<1> QED  BY <1>3, <1>4

\* A clear waits for a group with a setpoint stream.
LEMMA PendingIsStream ==
    ASSUME NEW k, NEW who, NEW pair, PairOk(pair, k, catalog, who), LossOk(pair, catalog)
    PROVE  CommandOnly(k) => pair.loss.phase # "pending"
BY DEF PairOk, Agrees, BoundTo, LossOk, CommandOnly, IsCommandOnly

\* What every call starts from.
LEMMA OverdueSettles ==
    ASSUME RegistryInv, ActsInv, NEW k \in Registered
    PROVE  /\ PairOk(Overdue[k].pair, k, catalog, Connected)
           /\ DOMAIN Overdue[k] = {"pair", "acts"}
           /\ LossOk(Overdue[k].pair, catalog) /\ Quiet(Overdue[k].acts)
           /\ CommandOnly(k) => Overdue[k].pair.loss.phase # "pending"
           /\ ~ IsSilent(Overdue[k].pair, now)
<1>1. Overdue[k] = ExpireOverdue(pairs[k], k, now, CommandOnly(k))
  BY DEF Overdue
<1>2. PairOk(pairs[k], k, catalog, Connected) /\ LossOk(pairs[k], catalog)
  BY DEF RegistryInv, ActsInv
<1>3. CommandOnly(k) => pairs[k].loss.phase # "pending"
  BY <1>2, PendingIsStream
<1>4. /\ LossOk(Overdue[k].pair, catalog) /\ Quiet(Overdue[k].acts)
      /\ ~ IsSilent(Overdue[k].pair, now)
  BY <1>1, <1>2, <1>3, OverdueIsQuiet DEF PairOk
<1>5. PairOk(Overdue[k].pair, k, catalog, Connected) /\ DOMAIN Overdue[k] = {"pair", "acts"}
  BY OverdueStays DEF Stays
<1> QED  BY <1>4, <1>5, PendingIsStream

\* A call settles a pair: its loss and its acts are in order.
Settles(r) == LossOk(r.pair, catalog) /\ ActsOk(r.pair, r.acts, now, catalog)

\* A call settles its pairs, if each.
LEMMA FinishSettles ==
    ASSUME NEW progress, DOMAIN progress = Registered, NEW answer, Finish(progress, answer),
           UNCHANGED <<now, catalog>>, \A k \in Registered : Settles(progress[k])
    PROVE  ActsInv'
<1>1. /\ DOMAIN pairs' = Registered /\ DOMAIN acts' = Registered
      /\ \A k \in Registered : pairs'[k] = progress[k].pair /\ acts'[k] = progress[k].acts
  BY DEF Finish
<1> QED  BY <1>1 DEF ActsInv, Settles, Registered

\* The deadlines settle, and one more step of a quiet call.
LEMMA OneSettles ==
    ASSUME RegistryInv, ActsInv, NEW k \in Registered, NEW r, NEW answer,
           Finish([Overdue EXCEPT ![k] = r], answer), UNCHANGED <<now, catalog>>, Settles(r)
    PROVE  ActsInv'
<1> DEFINE progress == [Overdue EXCEPT ![k] = r]
<1>1. /\ DOMAIN progress = Registered /\ progress[k] = r
      /\ \A j \in Registered \ {k} : progress[j] = Overdue[j]
  BY DEF Overdue
<1>2. Finish(progress, answer)
  OBVIOUS
<1> HIDE DEF progress
<1>3. \A j \in Registered : Settles(progress[j])
  BY <1>1, OverdueSettles, QuietIsOk DEF Settles
<1> QED  BY <1>1, <1>2, <1>3, FinishSettles

\* A call that does no more than the deadlines.
LEMMA OverdueFinishSettles ==
    ASSUME RegistryInv, ActsInv, NEW answer, Finish(Overdue, answer),
           UNCHANGED <<now, catalog>>
    PROVE  ActsInv'
<1>1. DOMAIN Overdue = Registered
  BY DEF Overdue
<1>2. \A k \in Registered : Settles(Overdue[k])
  BY OverdueSettles, QuietIsOk DEF Settles
<1> QED  BY <1>1, <1>2, FinishSettles

\* A fan-out after the deadlines settles.
LEMMA FanSettles ==
    ASSUME RegistryInv, ActsInv, NEW k \in Registered, NEW o, Tells(Overdue[k].pair.auth, o)
    PROVE  /\ Settles(Fan(Overdue[k], k, o)) /\ Quiet(Fan(Overdue[k], k, o).acts)
           /\ o.effect.kind \in {"granted", "committed"} =>
                 Fan(Overdue[k], k, o).pair.loss.phase # "pending"
<1>1. /\ PairOk(Overdue[k].pair, k, catalog, Connected)
      /\ LossOk(Overdue[k].pair, catalog) /\ Quiet(Overdue[k].acts)
      /\ CommandOnly(k) => Overdue[k].pair.loss.phase # "pending"
  BY OverdueSettles
<1>2. /\ LossOk(Fan(Overdue[k], k, o).pair, catalog) /\ Quiet(Fan(Overdue[k], k, o).acts)
      /\ o.effect.kind \in {"granted", "committed"} =>
            Fan(Overdue[k], k, o).pair.loss.phase # "pending"
  BY <1>1, FanIsQuiet DEF Fan, PairOk, Agrees
<1> QED  BY <1>2, QuietIsOk DEF Settles

\* So does one whose pair is bound to a member.
LEMMA BoundSettles ==
    ASSUME NEW r, DOMAIN r = {"pair", "acts"}, Agrees(r.pair), Settles(r), Quiet(r.acts),
           r.pair.loss.phase # "pending", NEW m
    PROVE  Settles([r EXCEPT !.pair.member = m])
<1> DEFINE bound == [r EXCEPT !.pair.member = m]
<1>1. bound.pair.loss = r.pair.loss /\ bound.acts = r.acts
  BY DEF Agrees
<1> HIDE DEF bound
<1>2. LossOk(bound.pair, catalog)
  BY <1>1 DEF Settles, LossOk
<1> QED  BY <1>1, <1>2, QuietIsOk DEF Settles, bound

\* Whoever leaves leaves no clear behind.
LEMMA DisconnectSettles ==
    ASSUME RegistryInv, ActsInv, NEW c, Disconnect(c)
    PROVE  ActsInv'
<1> DEFINE p == Principal(c)
           r(k) == [Overdue[k] EXCEPT !.pair.heldBy = @ \ {p}]
           o(k) == HolderLinkChanged(r(k).pair.auth, k, p, "lost")
           lost(k) == IF p \in Overdue[k].pair.heldBy THEN Fan(r(k), k, o(k)) ELSE r(k)
           progress == [k \in Registered |-> lost(k)]
<1>1. /\ Finish(progress, NoReply) /\ DOMAIN progress = Registered
      /\ UNCHANGED <<now, catalog>> /\ \A k \in Registered : progress[k] = lost(k)
  BY DEF Disconnect
<1>2. p # NoPrincipal
  BY NoPrincipalAssumption DEF Disconnect, Welcomed, RegistryInv, ClientsOk
<1> HIDE DEF progress
<1>3. ASSUME NEW k \in Registered
      PROVE  Settles(progress[k])
  <2>1. /\ PairOk(Overdue[k].pair, k, catalog, Connected)
        /\ DOMAIN Overdue[k] = {"pair", "acts"}
        /\ LossOk(Overdue[k].pair, catalog) /\ Quiet(Overdue[k].acts)
        /\ CommandOnly(k) => Overdue[k].pair.loss.phase # "pending"
    BY OverdueSettles
  <2>2. /\ r(k).pair.auth = Overdue[k].pair.auth /\ r(k).pair.loss = Overdue[k].pair.loss
        /\ r(k).pair.member = Overdue[k].pair.member /\ r(k).acts = Overdue[k].acts
        /\ DOMAIN r(k).pair = DOMAIN Overdue[k].pair
    BY <2>1 DEF PairOk, Agrees
  <2>3. progress[k] = lost(k)
    BY <1>1
  <2> HIDE DEF r
  <2>4. Tells(r(k).pair.auth, o(k))
    BY <1>2, <2>1, <2>2, LinkTells DEF PairOk, Agrees
  <2> HIDE DEF o, p
  <2>5. LossOk(r(k).pair, catalog) /\ Quiet(r(k).acts)
    BY <2>1, <2>2 DEF LossOk
  <2>6. LossOk(Fan(r(k), k, o(k)).pair, catalog) /\ Quiet(Fan(r(k), k, o(k)).acts)
    BY <2>1, <2>2, <2>4, <2>5, FanIsQuiet DEF Fan, PairOk, Agrees
  <2> QED  BY <2>3, <2>5, <2>6, QuietIsOk DEF Settles
<1> HIDE DEF r, o, p, lost
<1> QED  BY <1>1, <1>3, FinishSettles

\* A grant clears and applies nothing.
LEMMA LeaseSettles ==
    ASSUME RegistryInv, ActsInv, NEW c, NEW m \in Members, Lease(c, m)
    PROVE  ActsInv'
<1> DEFINE k == PairOf(m)
           p == Principal(c)
           r == Overdue[k]
           o == Grant(r.pair.auth, k, p)
           fanned == Fan(r, k, o)
           bound == [fanned EXCEPT !.pair.member = m]
<1>1. p \in Principals /\ UNCHANGED <<now, catalog>>
  BY DEF Lease, Welcomed, RegistryInv, ClientsOk
<1>2. CASE \E answer : Finish(Overdue, answer)
  BY <1>1, <1>2, OverdueFinishSettles
<1>3. CASE /\ Declared(m) /\ o.effect.kind # "rejected"
           /\ \E answer : Finish([Overdue EXCEPT ![k] = bound], answer)
  <2>1. k \in Registered
    BY <1>3, DeclaredIsRegistered
  <2>2. Agrees(r.pair) /\ IsScope(r.pair.auth)
    BY <2>1, OverdueStays DEF Agrees
  <2>3. Tells(r.pair.auth, o) /\ o.effect.kind = "granted"
    BY <1>1, <1>3, <2>2, GrantTells
  <2> HIDE DEF o, k, p
  <2>4. Settles(fanned) /\ Quiet(fanned.acts) /\ fanned.pair.loss.phase # "pending"
    BY <2>1, <2>3, FanSettles
  <2>5. Agrees(fanned.pair) /\ DOMAIN fanned = {"pair", "acts"}
    BY <2>2, <2>3, FanAgrees, FanIsProgress DEF Fan
  <2> HIDE DEF fanned, r
  <2>6. Settles(bound)
    BY <2>4, <2>5, BoundSettles
  <2> HIDE DEF bound
  <2> QED  BY <1>1, <1>3, <2>1, <2>6, OneSettles
<1> QED
  <2>1. \/ \E answer : Finish(Overdue, answer)
        \/ /\ Declared(m) /\ o.effect.kind # "rejected"
           /\ \E answer : Finish([Overdue EXCEPT ![k] = bound], answer)
    <3>1. CASE ~ Declared(m)
      BY <3>1 DEF Lease
    <3>2. CASE Declared(m) /\ r.pair.holder # NoPrincipal
      BY <3>2 DEF Lease
    <3>3. CASE Declared(m) /\ r.pair.holder = NoPrincipal
      BY <3>3 DEF Lease
    <3> QED  BY <3>1, <3>2, <3>3
  <2> QED  BY <1>2, <1>3, <2>1

\* A release forgets the clear that waits.
LEMMA ReleaseSettles ==
    ASSUME RegistryInv, ActsInv, NEW c, NEW m \in Members, ReleaseLease(c, m)
    PROVE  ActsInv'
<1> DEFINE k == PairOf(m)
           o == Release(Overdue[k].pair.auth, k, Principal(c))
           r == Fan(Overdue[k], k, o)
<1>1. UNCHANGED <<now, catalog>>
  BY DEF ReleaseLease
<1>2. CASE \E answer : Finish(Overdue, answer)
  BY <1>1, <1>2, OverdueFinishSettles
<1>3. CASE /\ k \in Registered
           /\ \E answer : Finish([Overdue EXCEPT ![k] = Fan(@, k, o)], answer)
  <2>1. IsScope(Overdue[k].pair.auth)
    BY <1>3, OverdueStays DEF Agrees
  <2>2. Tells(Overdue[k].pair.auth, o)
    BY <2>1, ReleaseTells
  <2> HIDE DEF o
  <2>3. Settles(r)
    BY <1>3, <2>2, FanSettles
  <2>4. [Overdue EXCEPT ![k] = Fan(@, k, o)] = [Overdue EXCEPT ![k] = r]
    BY <1>3 DEF Overdue
  <2> HIDE DEF r, k
  <2> QED  BY <1>1, <1>3, <2>3, <2>4, OneSettles
<1> QED
  BY <1>2, <1>3 DEF ReleaseLease

\* An offer changes nothing that was said.
LEMMA OfferSettles ==
    ASSUME RegistryInv, ActsInv, NEW c, NEW m \in Members, NEW q, TransferOffer(c, m, q)
    PROVE  ActsInv'
<1> DEFINE k == PairOf(m)
           o == Offer(Overdue[k].pair.auth, k, Principal(c), q, now, OfferTtl)
           r == Fan(Overdue[k], k, o)
<1>1. Principal(c) \in Principals /\ now \in Nat /\ UNCHANGED <<now, catalog>>
  BY DEF TransferOffer, Welcomed, RegistryInv, ClientsOk
<1>2. CASE ~ Declared(m)
  BY <1>1, <1>2, OverdueFinishSettles DEF TransferOffer
<1>3. CASE Declared(m)
  <2>1. k \in Registered
    BY <1>3, DeclaredIsRegistered
  <2>2. IsScope(Overdue[k].pair.auth)
    BY <2>1, OverdueStays DEF Agrees
  <2>3. Tells(Overdue[k].pair.auth, o)
    BY <1>1, <2>2, DurationsAssumption, OfferTells
  <2>4. Finish([Overdue EXCEPT ![k] = r], NoReply)
    BY <1>3 DEF TransferOffer
  <2> HIDE DEF o
  <2>5. Settles(r)
    BY <2>1, <2>3, FanSettles
  <2> HIDE DEF r, k
  <2> QED  BY <1>1, <2>1, <2>4, <2>5, OneSettles
<1> QED  BY <1>2, <1>3

\* A commit forgets the clear of the one who hands over.
LEMMA AcceptSettles ==
    ASSUME RegistryInv, ActsInv, NEW c, NEW m \in Members, TransferAccept(c, m)
    PROVE  ActsInv'
<1> DEFINE k == PairOf(m)
           p == Principal(c)
           r == Overdue[k]
           o == Accept(r.pair.auth, k, p, r.pair.generation, now)
           fanned == Fan(r, k, o)
           bound == [fanned EXCEPT !.pair.member = m]
           last == IF o.effect.kind = "committed" THEN bound ELSE fanned
<1>1. p \in Principals /\ now \in Nat /\ UNCHANGED <<now, catalog>>
  BY DEF TransferAccept, Welcomed, RegistryInv, ClientsOk
<1>2. CASE ~ Declared(m)
  BY <1>1, <1>2, OverdueFinishSettles DEF TransferAccept
<1>3. CASE Declared(m)
  <2>1. k \in Registered
    BY <1>3, DeclaredIsRegistered
  <2>2. Agrees(r.pair) /\ IsScope(r.pair.auth)
    BY <2>1, OverdueStays DEF Agrees
  <2>3. Tells(r.pair.auth, o)
    BY <1>1, <2>2, AcceptTells, SMTT(30)
  <2>4. Finish([Overdue EXCEPT ![k] = last], NoReply)
    BY <1>3 DEF TransferAccept
  <2> HIDE DEF o, k, p
  <2>5. /\ Settles(fanned) /\ Quiet(fanned.acts)
        /\ o.effect.kind = "committed" => fanned.pair.loss.phase # "pending"
    BY <2>1, <2>3, FanSettles
  <2>6. Agrees(fanned.pair) /\ DOMAIN fanned = {"pair", "acts"}
    BY <2>2, <2>3, FanAgrees, FanIsProgress DEF Fan
  <2> HIDE DEF fanned, r
  <2>7. o.effect.kind = "committed" => Settles(bound)
    BY <2>5, <2>6, BoundSettles
  <2>8. Settles(last)
    BY <2>5, <2>7
  <2> HIDE DEF last
  <2> QED  BY <1>1, <2>1, <2>4, <2>8, OneSettles
<1> QED  BY <1>2, <1>3

\* A command is applied for the holder's member, under its lease.
LEMMA CommandSettles ==
    ASSUME RegistryInv, ActsInv, NEW c, NEW m, NEW g, ActionCommand(c, m, g)
    PROVE  ActsInv'
<1> DEFINE k == PairOf(m)
           p == Principal(c)
           act == ApplyFrame(p, m, g, "action")
           r == Emitting(Overdue[k], act)
<1>1. k \in Registered
  BY DeclaredIsRegistered DEF ActionCommand
<1>2. /\ PairOk(Overdue[k].pair, k, catalog, Connected) /\ DOMAIN Overdue[k] = {"pair", "acts"}
      /\ LossOk(Overdue[k].pair, catalog) /\ Quiet(Overdue[k].acts)
      /\ ~ IsSilent(Overdue[k].pair, now)
  BY <1>1, OverdueSettles
<1>3. /\ UNCHANGED <<now, catalog>> /\ Finish([Overdue EXCEPT ![k] = r], NoReply)
      /\ Overdue[k].pair.holder = p /\ Overdue[k].pair.member = m
      /\ Overdue[k].pair.generation = g
  BY DEF ActionCommand, Judged, HoldsMember
<1>4. r.pair = Overdue[k].pair /\ r.acts = Append(Overdue[k].acts, act)
  BY <1>2 DEF Emitting
<1>5. /\ act.kind = "apply" /\ act.principal = p /\ act.member = m /\ act.generation = g
      /\ act.posture = "action"
  BY DEF ApplyFrame
<1> HIDE DEF r, k, act, p
<1>6. ActsOk(Overdue[k].pair, Append(Overdue[k].acts, act), now, catalog)
  BY <1>2, <1>3, <1>5, QuietIsOk, SaysMore DEF PairOk, Agrees
<1>7. Settles(r)
  BY <1>2, <1>4, <1>6 DEF Settles
<1> QED  BY <1>1, <1>3, <1>7, OneSettles

\* A frame is applied under the lease it names, behind its clear.
LEMMA FrameSettles ==
    ASSUME RegistryInv, ActsInv, HolderSilence > 0,
           NEW c, NEW m, NEW g, NEW n, NEW posture, Frame(c, m, g, n, posture)
    PROVE  ActsInv'
<1> DEFINE k == PairOf(m)
           p == Principal(c)
           act == ApplyFrame(p, m, g, posture)
           before == Overdue[k]
           heard == [before EXCEPT !.pair.sequence = Received(g, n),
                                   !.pair.watch = IF @.principal = p THEN Watch(p, Silence)
                                                                     ELSE @]
           cleared == IF Demonstrates(heard.pair, posture)
                      THEN Emitting([heard EXCEPT !.pair.loss = ClearPending(g)],
                                    Clear(g, FALSE))
                      ELSE heard
           r == Emitting(cleared, act)
<1>1. k \in Registered
  BY DEF Frame
<1>2. /\ PairOk(before.pair, k, catalog, Connected) /\ DOMAIN before = {"pair", "acts"}
      /\ LossOk(before.pair, catalog) /\ Quiet(before.acts)
      /\ ~ IsSilent(before.pair, now)
  BY <1>1, OverdueSettles
<1>3. /\ UNCHANGED <<now, catalog>> /\ Finish([Overdue EXCEPT ![k] = r], NoReply)
      /\ before.pair.holder = p /\ before.pair.member = m
      /\ EffectiveHolder(before.pair.auth) # NoPrincipal /\ g = before.pair.auth.generation
      /\ m \in DOMAIN catalog /\ catalog[m].intents
  BY DEF Frame, Judged, HoldsMember, FrameAccepted, Declared, AcceptFrame
<1>4. EffectiveHolder(before.pair.auth) = p
  BY <1>2, <1>3 DEF PairOk, Agrees
<1>5. /\ act.kind = "apply" /\ act.principal = p /\ act.member = m /\ act.generation = g
      /\ Clear(g, FALSE).kind = "clear" /\ Clear(g, FALSE).generation = g
  BY DEF ApplyFrame, Clear
<1>6. /\ DOMAIN heard = {"pair", "acts"} /\ DOMAIN heard.pair = DOMAIN before.pair
      /\ heard.pair.auth = before.pair.auth /\ heard.pair.member = before.pair.member
      /\ heard.pair.loss = before.pair.loss /\ heard.acts = before.acts
      /\ heard.pair.watch = IF before.pair.watch.principal = p THEN Watch(p, Silence)
                                                               ELSE before.pair.watch
  BY <1>2 DEF PairOk, Agrees
<1> HIDE DEF heard, before, act, k, p
<1>7. /\ DOMAIN cleared = {"pair", "acts"}
      /\ cleared.pair.auth = before.pair.auth /\ cleared.pair.member = before.pair.member
      /\ cleared.pair.watch = heard.pair.watch
      /\ cleared.pair.loss = IF Demonstrates(heard.pair, posture) THEN ClearPending(g)
                                                                  ELSE before.pair.loss
      /\ cleared.acts = IF Demonstrates(heard.pair, posture)
                        THEN Append(before.acts, Clear(g, FALSE)) ELSE before.acts
  BY <1>2, <1>6 DEF Emitting, PairOk, Agrees
<1> HIDE DEF cleared
<1>8. r.pair = cleared.pair /\ r.acts = Append(cleared.acts, act)
  BY <1>7 DEF Emitting
<1>9. ~ IsSilent(cleared.pair, now)
  <2>1. CASE before.pair.watch.principal = p
    <3>1. cleared.pair.watch = Watch(p, Silence) /\ Watch(p, Silence).deadline = Silence
      BY <1>6, <1>7, <2>1 DEF Watch
    <3>2. ~ (Silence <= now)
      BY DurationsAssumption DEF RegistryInv, Silence
    <3> QED  BY <3>1, <3>2 DEF IsSilent
  <2>2. CASE before.pair.watch.principal # p
    BY <1>2, <1>6, <1>7, <2>2 DEF IsSilent, IsWatched
  <2> QED  BY <2>1, <2>2
<1>10. LossOk(cleared.pair, catalog)
  <2>1. CASE Demonstrates(heard.pair, posture)
    <3>1. cleared.pair.loss = ClearPending(g) /\ ClearPending(g).generation = g
      BY <1>7, <2>1 DEF ClearPending
    <3> QED  BY <1>3, <1>7, <3>1 DEF LossOk
  <2>2. CASE ~ Demonstrates(heard.pair, posture)
    BY <1>2, <1>7, <2>2 DEF LossOk
  <2> QED  BY <2>1, <2>2
<1>11. ActsOk(cleared.pair, cleared.acts, now, catalog)
  <2>1. CASE Demonstrates(heard.pair, posture)
    <3>1. /\ cleared.pair.loss = ClearPending(g)
          /\ cleared.acts = Append(before.acts, Clear(g, FALSE))
      BY <1>7, <2>1
    <3>2. ActsOk(cleared.pair, before.acts, now, catalog) /\ \A i \in DOMAIN before.acts :
                                                      before.acts[i].kind # "clear"
      BY <1>2, QuietIsOk DEF Quiet
    <3> QED  BY <1>5, <3>1, <3>2, SaysMore
  <2>2. CASE ~ Demonstrates(heard.pair, posture)
    BY <1>2, <1>7, <2>2, QuietIsOk
  <2> QED  BY <2>1, <2>2
<1>12. ActsOk(cleared.pair, Append(cleared.acts, act), now, catalog)
  BY <1>3, <1>4, <1>5, <1>7, <1>9, <1>11, SaysMore
<1> HIDE DEF r
<1>13. Settles(r)
  BY <1>8, <1>10, <1>12 DEF Settles
<1> QED  BY <1>1, <1>3, <1>13, OneSettles DEF before

\* A clear that the adapter refused is asked for again, at its own generation.
LEMMA RetrySettles ==
    ASSUME RegistryInv, ActsInv, HandleTick
    PROVE  ActsInv'
<1> DEFINE progress == [k \in Registered |-> RetryClear(Overdue[k])]
<1>1. /\ Finish(progress, NoReply) /\ DOMAIN progress = Registered
      /\ UNCHANGED <<now, catalog>>
      /\ \A k \in Registered : progress[k] = RetryClear(Overdue[k])
  BY DEF HandleTick
<1> HIDE DEF progress
<1>2. ASSUME NEW k \in Registered
      PROVE  Settles(progress[k])
  <2> DEFINE r == Overdue[k]
             act == Clear(r.pair.loss.generation, TRUE)
  <2>1. /\ LossOk(r.pair, catalog) /\ Quiet(r.acts) /\ DOMAIN r = {"pair", "acts"}
    BY OverdueSettles
  <2>2. progress[k] = RetryClear(r)
    BY <1>1
  <2>3. act.kind = "clear" /\ act.generation = r.pair.loss.generation
    BY DEF Clear
  <2> HIDE DEF r, act
  <2>4. CASE r.pair.loss.phase = "pending"
    <3>1. progress[k].pair = r.pair /\ progress[k].acts = Append(r.acts, act)
      BY <2>1, <2>2, <2>4 DEF RetryClear, Emitting, act
    <3>2. r.pair.loss = ClearPending(act.generation)
      BY <2>1, <2>3, <2>4 DEF LossOk, NotLost, Engaged, ClearPending
    <3>3. ActsOk(r.pair, Append(r.acts, act), now, catalog)
      BY <2>1, <2>3, <3>2, QuietIsOk, SaysMore DEF Quiet
    <3> QED  BY <2>1, <3>1, <3>3 DEF Settles
  <2>5. CASE r.pair.loss.phase # "pending"
    <3>1. progress[k] = r
      BY <2>2, <2>5 DEF RetryClear
    <3> QED  BY <2>1, <3>1, QuietIsOk DEF Settles
  <2> QED  BY <2>4, <2>5
<1> QED  BY <1>1, <1>2, FinishSettles

\* A revocation that comes before any deadline says nothing wrong, nor does a
\* call that leaves a pair alone.
LEMMA UntouchedSettles ==
    ASSUME RegistryInv, ActsInv, NEW k \in Registered
    PROVE  LET r == Fan(Untouched[k], k, Revoke(pairs[k].auth, k))
           IN  /\ LossOk(Untouched[k].pair, catalog) /\ Quiet(Untouched[k].acts)
               /\ LossOk(r.pair, catalog) /\ Quiet(r.acts)
<1> DEFINE before == Untouched[k]
           o == Revoke(pairs[k].auth, k)
           r == Fan(before, k, o)
<1>1. before.pair = pairs[k] /\ before.acts = <<>>
  BY DEF Untouched, Begin, Progress
<1>2. PairOk(pairs[k], k, catalog, Connected) /\ LossOk(pairs[k], catalog)
  BY DEF RegistryInv, ActsInv
<1>3. Quiet(<<>>)
  <2>1. <<>> \in Seq({}) /\ DOMAIN <<>> = {}
    OBVIOUS
  <2> QED  BY <2>1 DEF Quiet, IsList
<1>4. Tells(pairs[k].auth, o)
  BY <1>2, RevokeTells DEF PairOk, Agrees
<1>5. CommandOnly(k) => pairs[k].loss.phase # "pending"
  BY <1>2, PendingIsStream
<1> HIDE DEF before, o
<1>6. /\ {"auth", "holder", "generation", "heldBy", "member", "watch", "loss",
           "sequence"} \subseteq DOMAIN before.pair
      /\ LossOk(before.pair, catalog) /\ Quiet(before.acts)
  BY <1>1, <1>2, <1>3 DEF PairOk, Agrees
<1>7. LossOk(r.pair, catalog) /\ Quiet(r.acts)
  BY <1>1, <1>4, <1>5, <1>6, FanIsQuiet DEF Fan
<1> QED  BY <1>6, <1>7 DEF before, o

\* A device's report clears and applies nothing.
LEMMA DeviceSettles ==
    ASSUME RegistryInv, ActsInv, NEW session, NEW m, NEW g, DeviceAuthorityLoss(session, m, g)
    PROVE  ActsInv'
<1> DEFINE k == PairOf(m)
           r == Fan(Untouched[k], k, Revoke(Untouched[k].pair.auth, k))
           progress == IF Declared(m) /\ SessionHolds(session, pairs[k], g)
                       THEN [Untouched EXCEPT ![k] = r] ELSE Untouched
<1>1. /\ Finish(progress, NoReply) /\ DOMAIN progress = Registered
      /\ UNCHANGED <<now, catalog>>
  BY DEF DeviceAuthorityLoss, Untouched
<1>2. ASSUME NEW j \in Registered
      PROVE  Settles(progress[j])
  <2>1. progress[j] = Untouched[j] \/ (j = k /\ progress[j] = r)
    BY DEF Untouched
  <2>2. Untouched[j].pair = pairs[j]
    BY UntouchedStays
  <2> HIDE DEF progress
  <2>3. CASE progress[j] = Untouched[j]
    BY <2>3, UntouchedSettles, QuietIsOk DEF Settles
  <2>4. CASE j = k /\ progress[j] = r
    <3>1. progress[j] = Fan(Untouched[j], j, Revoke(pairs[j].auth, j))
      BY <2>2, <2>4
    <3> HIDE DEF r, k
    <3> QED  BY <3>1, UntouchedSettles, QuietIsOk DEF Settles
  <2> QED  BY <2>1, <2>3, <2>4
<1> HIDE DEF progress
<1> QED  BY <1>1, <1>2, FinishSettles

\* A clear waits through a refresh only where the refresh keeps the contract
\* of its member.
LEMMA RefreshSettles ==
    ASSUME RegistryInv, ActsInv, NEW next \in Catalogs, RefreshCapabilities(next)
    PROVE  ActsInv'
<1> DEFINE Revoked(k) == Fan(Untouched[k], k, Revoke(pairs[k].auth, k))
<1>1. /\ catalog' = next /\ now' = now
      /\ DOMAIN pairs' = Registered \cup Groups(next) /\ DOMAIN acts' = DOMAIN pairs'
      /\ \A k \in Registered \cup Groups(next) :
            LET r == IF k \in Registered
                     THEN IF k \in ChangedGroups(next) THEN Revoked(k) ELSE Untouched[k]
                     ELSE Begin(NewPair)
            IN  pairs'[k] = r.pair /\ acts'[k] = r.acts
  BY DEF RefreshCapabilities, Finish
<1>2. ASSUME NEW k, k \in Registered, k \in ChangedGroups(next)
      PROVE  LossOk(pairs'[k], next) /\ Quiet(acts'[k])
  <2>1. pairs'[k] = Revoked(k).pair /\ acts'[k] = Revoked(k).acts
    BY <1>1, <1>2
  <2>2. /\ LossOk(Revoked(k).pair, catalog) /\ Quiet(Revoked(k).acts)
        /\ Revoked(k).pair.holder = NoPrincipal /\ Agrees(Revoked(k).pair)
    BY <1>2, UntouchedSettles, UntouchedStays DEF Lasts
  <2> HIDE DEF Revoked
  <2> QED  BY <2>1, <2>2 DEF LossOk, Agrees
<1>3. ASSUME NEW k, k \in Registered, k \notin ChangedGroups(next)
      PROVE  LossOk(pairs'[k], next) /\ Quiet(acts'[k])
  <2>1. pairs'[k] = pairs[k] /\ acts'[k] = Untouched[k].acts
    BY <1>1, <1>3, UntouchedStays
  <2>2. /\ LossOk(pairs[k], catalog) /\ Quiet(acts'[k])
        /\ PairOk(pairs[k], k, catalog, Connected)
    BY <1>3, <2>1, UntouchedSettles DEF RegistryInv, ActsInv
  <2>3. \A m \in DOMAIN catalog : catalog[m].group = k =>
           m \in DOMAIN next /\ next[m] = catalog[m]
    BY <1>3 DEF ChangedGroups
  <2>4. LossOk(pairs[k], next)
    BY <2>2, <2>3 DEF LossOk, PairOk, Agrees, BoundTo
  <2> QED  BY <2>1, <2>2, <2>4
<1>4. ASSUME NEW k \in Groups(next), k \notin Registered
      PROVE  LossOk(pairs'[k], next) /\ Quiet(acts'[k])
  <2>1. pairs'[k] = NewPair /\ acts'[k] = <<>>
    BY <1>1, <1>4 DEF Begin, Progress
  <2>2. NewPair.loss = NotLost
    BY DEF NewPair
  <2>3. <<>> \in Seq({}) /\ DOMAIN <<>> = {}
    OBVIOUS
  <2> QED  BY <2>1, <2>2, <2>3 DEF LossOk, NotLost, Quiet, IsList
<1>5. \A k \in Registered' : LossOk(pairs'[k], catalog')
                             /\ ActsOk(pairs'[k], acts'[k], now', catalog')
  BY <1>1, <1>2, <1>3, <1>4, QuietIsOk DEF Registered
<1> QED  BY <1>1, <1>5 DEF ActsInv, Registered

\* Of the acts of a call, what comes behind the first ones.
Behind(rest, l, i) ==
    IsList(rest) /\ \A j \in DOMAIN rest : i + j \in DOMAIN l /\ rest[j] = l[i + j]

\* What comes behind right acts is right, but for a clear that is over.
LEMMA BehindIsOk ==
    ASSUME NEW pair, NEW l, NEW t, NEW c, ActsOk(pair, l, t, c),
           NEW i \in DOMAIN l, NEW rest, Behind(rest, l, i),
           NEW after, after.auth = pair.auth, after.member = pair.member,
           after.watch = pair.watch, after.loss = pair.loss \/ l[i].kind = "clear"
    PROVE  ActsOk(after, rest, t, c)
<1>1. /\ IsList(rest) /\ DOMAIN rest \subseteq Nat \ {0} /\ i \in Nat
      /\ \A j \in DOMAIN rest : i + j \in DOMAIN l /\ rest[j] = l[i + j] /\ i + j # i
  <2>1. DOMAIN rest = 1..Len(rest) /\ Len(rest) \in Nat
    BY AppendIsList DEF Behind
  <2>2. DOMAIN l = 1..Len(l) /\ Len(l) \in Nat
    BY AppendIsList DEF ActsOk
  <2> QED  BY <2>1, <2>2 DEF Behind
<1>2. ASSUME NEW j \in DOMAIN rest, rest[j].kind = "clear"
      PROVE  after.loss = ClearPending(rest[j].generation)
  BY <1>1, <1>2 DEF ActsOk
<1>3. ASSUME NEW j \in DOMAIN rest, NEW n \in DOMAIN rest,
             rest[j].kind = "clear", rest[n].kind = "clear"
      PROVE  j = n
  <2>1. i + j = i + n
    BY <1>1, <1>3 DEF ActsOk
  <2> QED  BY <1>1, <2>1
<1>4. IsSilent(after, t) = IsSilent(pair, t)
  BY DEF IsSilent, IsWatched
<1>5. ASSUME NEW j \in DOMAIN rest, rest[j].kind = "apply"
      PROVE  /\ rest[j].principal = EffectiveHolder(after.auth)
             /\ rest[j].generation = after.auth.generation
             /\ rest[j].member = after.member /\ ~ IsSilent(after, t)
             /\ rest[j].posture # "action" =>
                   after.member \in DOMAIN c /\ c[after.member].intents
  BY <1>1, <1>4, <1>5 DEF ActsOk
<1> QED  BY <1>1, <1>2, <1>3, <1>5 DEF ActsOk

\* Once the adapter has said that it took a clear, none is left to be said.
LEMMA ClearSettles ==
    ASSUME RegistryInv, ActsInv, NEW k \in Registered, UNCHANGED <<now, catalog>>,
           NEW i \in DOMAIN acts[k], acts[k][i].kind = "clear",
           pairs' = [pairs EXCEPT ![k] = ConfirmCleared(@, acts[k][i].generation)],
           NEW rest, Behind(rest, acts[k], i), acts' = [acts EXCEPT ![k] = rest]
    PROVE  ActsInv'
<1> DEFINE l == acts[k]
           after == ConfirmCleared(pairs[k], l[i].generation)
<1>1. /\ DOMAIN pairs' = Registered /\ DOMAIN acts' = Registered
      /\ pairs'[k] = after /\ acts'[k] = rest
      /\ \A j \in Registered \ {k} : pairs'[j] = pairs[j] /\ acts'[j] = acts[j]
  BY DEF Registered, ActsInv
<1>2. /\ PairOk(pairs[k], k, catalog, Connected)
      /\ LossOk(pairs[k], catalog) /\ ActsOk(pairs[k], l, now, catalog)
  BY DEF RegistryInv, ActsInv
<1>3. pairs[k].loss = ClearPending(l[i].generation)
  BY <1>2 DEF ActsOk
<1>4. /\ after.auth = pairs[k].auth /\ after.member = pairs[k].member
      /\ after.watch = pairs[k].watch /\ after.loss = NotLost
  BY <1>2, <1>3 DEF ConfirmCleared, PairOk, Agrees
<1> HIDE DEF after
<1>5. ActsOk(after, rest, now, catalog)
  BY <1>2, <1>4, BehindIsOk
<1>6. LossOk(after, catalog)
  BY <1>4 DEF LossOk, NotLost
<1>7. \A j \in Registered : LossOk(pairs'[j], catalog)
                            /\ ActsOk(pairs'[j], acts'[j], now, catalog)
  BY <1>1, <1>5, <1>6 DEF ActsInv
<1> QED  BY <1>1, <1>7 DEF ActsInv, Registered

\* So does a confirmation in general.
LEMMA ConfirmSettles ==
    ASSUME RegistryInv, ActsInv, NEW k \in Registered, Confirm(k)
    PROVE  ActsInv'
<1>1. PICK i \in DOMAIN acts[k] :
          /\ acts[k][i].kind = "clear"
          /\ pairs' = [pairs EXCEPT ![k] = ConfirmCleared(@, acts[k][i].generation)]
          /\ acts' = [acts EXCEPT ![k] = SubSeq(@, i + 1, Len(@))]
  BY DEF Confirm
<1>2. Behind(SubSeq(acts[k], i + 1, Len(acts[k])), acts[k], i)
  BY RestIsList DEF ActsInv, ActsOk, Behind
<1> QED  BY <1>1, <1>2, ClearSettles DEF Confirm

\* The clock says nothing.
LEMMA ClockSettles ==
    ASSUME ActsInv, Tick
    PROVE  ActsInv'
<1>1. /\ UNCHANGED <<catalog, pairs>> /\ DOMAIN acts' = Registered
      /\ \A k \in Registered : acts'[k] = <<>>
  BY DEF Tick
<1>2. Quiet(<<>>)
  <2>1. <<>> \in Seq({}) /\ DOMAIN <<>> = {}
    OBVIOUS
  <2> QED  BY <2>1 DEF Quiet, IsList
<1> QED  BY <1>1, <1>2, QuietIsOk DEF ActsInv, Registered

\* Nothing is said in the beginning.
LEMMA InitSettles == Init => ActsInv
<1> SUFFICES ASSUME Init  PROVE  ActsInv
  OBVIOUS
<1>1. /\ DOMAIN acts = Registered
      /\ \A k \in Registered : pairs[k] = NewPair /\ acts[k] = <<>>
  BY DEF Init, Registered
<1>2. NewPair.loss = NotLost
  BY DEF NewPair
<1>3. Quiet(<<>>)
  <2>1. <<>> \in Seq({}) /\ DOMAIN <<>> = {}
    OBVIOUS
  <2> QED  BY <2>1 DEF Quiet, IsList
<1> QED  BY <1>1, <1>2, <1>3, QuietIsOk DEF ActsInv, LossOk, NotLost

\* Every call settles.
LEMMA NextSettles ==
    ASSUME HolderSilence > 0, RegistryInv, ActsInv, [Next]_vars
    PROVE  ActsInv'
<1>1. CASE UNCHANGED vars
  BY <1>1 DEF vars, ActsInv, Registered
<1>2. ASSUME NEW c \in Clients, ClientCall(c)
      PROVE  ActsInv'
  <2>1. CASE Hello(c) \/ Premature(c) \/ ProfileActivation(c) \/ Refuse(c)
             \/ \E m \in Members : TransferRequest(c, m)
    <3>1. Finish(Overdue, NoReply) /\ UNCHANGED <<now, catalog>>
      BY <2>1 DEF Hello, Premature, ProfileActivation, Refuse, TransferRequest, Judged
    <3> QED  BY <3>1, OverdueFinishSettles
  <2>2. CASE Disconnect(c)
    BY <2>2, DisconnectSettles
  <2>3. CASE \E m \in Members : Lease(c, m) \/ ReleaseLease(c, m) \/ TransferAccept(c, m)
    BY <2>3, LeaseSettles, ReleaseSettles, AcceptSettles
  <2>4. CASE \E m \in Members : \E q \in Principals : TransferOffer(c, m, q)
    BY <2>4, OfferSettles
  <2>5. CASE \E m \in Members : \E g \in 0..MaxGeneration : ActionCommand(c, m, g)
    BY <2>5, CommandSettles
  <2>6. CASE \E m \in Members : \E g \in 0..MaxGeneration :
                \E n \in 0..(SequenceSize - 1), posture \in {"neutral", "driving"} :
                   Frame(c, m, g, n, posture)
    BY <2>6, FrameSettles
  <2> QED
    BY <1>2, <2>1, <2>2, <2>3, <2>4, <2>5, <2>6 DEF ClientCall
<1>3. CASE DriverCall
  BY <1>3, RetrySettles, DeviceSettles, RefreshSettles DEF DriverCall
<1>4. CASE \E k \in Registered : Confirm(k)
  BY <1>4, ConfirmSettles
<1>5. CASE Tick
  BY <1>5, ClockSettles
<1> QED  BY <1>1, <1>2, <1>3, <1>4, <1>5 DEF Next

\* Whatever the driver is told to apply or to clear belongs to the lease in
\* force, if the watchdog's window is not empty (a window of 0 would report a
\* holder as silent the moment it is heard).
THEOREM ActsLeased == HolderSilence > 0 => (Spec => []ActsAreLeased)
<1> SUFFICES ASSUME HolderSilence > 0  PROVE  Spec => []ActsAreLeased
  OBVIOUS
<1>1. ActsInv => ActsAreLeased
  <2>1. SUFFICES ASSUME ActsInv  PROVE  ActsAreLeased
    OBVIOUS
  <2>2. ClearsAreCurrent
    BY <2>1 DEF ActsInv, LossOk, ActsOk, ClearsAreCurrent
  <2>3. DrivenUnderLease
    BY <2>1 DEF ActsInv, ActsOk, DrivenUnderLease, ActsOf
  <2> QED  BY <2>2, <2>3 DEF ActsAreLeased
<1>2. Init => RegistryInv /\ ActsInv
  BY InitIsOk, InitSettles
<1>3. RegistryInv /\ ActsInv /\ [Next]_vars => RegistryInv' /\ ActsInv'
  BY NextStays, NextSettles
<1> QED  BY <1>1, <1>2, <1>3, PTL DEF Spec

-----------------------------------------------------------------------------
(* The course of a link loss.                                              *)

\* Whether the acts of a call engage the policy, and at which generation.
EngagesNone(l) == \A i \in DOMAIN l : l[i].kind # "engage"

EngagesOnce(l, g) ==
    \E i \in DOMAIN l :
        /\ l[i].kind = "engage" /\ l[i].generation = g
        /\ \A j \in DOMAIN l : l[j].kind = "engage" => j = i

\* One act more.
LEMMA EngagesMore ==
    ASSUME NEW l, IsList(l), NEW act, act.kind # "engage"
    PROVE  /\ IsList(Append(l, act))
           /\ EngagesNone(l) <=> EngagesNone(Append(l, act))
           /\ \A g : EngagesOnce(l, g) => EngagesOnce(Append(l, act), g)
<1> DEFINE m == Append(l, act)
<1>1. /\ IsList(m) /\ Len(l) \in Nat /\ DOMAIN l = 1..Len(l) /\ DOMAIN m = 1..(Len(l) + 1)
      /\ \A i \in 1..Len(l) : m[i] = l[i]
      /\ m[Len(l) + 1] = act
  BY AppendIsList
<1> HIDE DEF m
<1>2. \A i \in DOMAIN m : (i = Len(l) + 1 /\ m[i] = act) \/ (i \in DOMAIN l /\ m[i] = l[i])
  BY <1>1
<1>3. EngagesNone(l) <=> EngagesNone(m)
  BY <1>1, <1>2 DEF EngagesNone
<1>4. ASSUME NEW g, EngagesOnce(l, g)  PROVE  EngagesOnce(m, g)
  <2>1. PICK i \in DOMAIN l : /\ l[i].kind = "engage" /\ l[i].generation = g
                              /\ \A j \in DOMAIN l : l[j].kind = "engage" => j = i
    BY <1>4 DEF EngagesOnce
  <2>2. i \in DOMAIN m /\ m[i] = l[i]
    BY <1>1
  <2>3. \A j \in DOMAIN m : m[j].kind = "engage" => j = i
    BY <1>2, <2>1
  <2> QED  BY <2>1, <2>2, <2>3 DEF EngagesOnce
<1> QED  BY <1>1, <1>3, <1>4 DEF m

\* The acts of a loss engage the policy once, if the group has one.
LEMMA EngagesAtLoss ==
    ASSUME NEW l, IsList(l), EngagesNone(l), NEW e, NEW commandOnly
    PROVE  LET m == l \o LossActs(e, commandOnly)
           IN  /\ IsList(m)
               /\ commandOnly => EngagesNone(m)
               /\ ~ commandOnly => EngagesOnce(m, e.generation)
<1>1. PICK S : l \in Seq(S)
  BY DEF IsList
<1> DEFINE T == S \cup {Invalidate, Engage(e.generation)}
           d == LossActs(e, commandOnly)
           m == l \o d
<1>2. l \in Seq(T)
  <2>1. S \subseteq T
    OBVIOUS
  <2> QED  BY <1>1, <2>1, SeqMonotonic
<1>3. /\ d \in Seq(T) /\ d[1] = Invalidate
      /\ commandOnly => Len(d) = 1
      /\ ~ commandOnly => Len(d) = 2 /\ d[2] = Engage(e.generation)
  <2>1. CASE commandOnly
    BY <2>1 DEF LossActs
  <2>2. CASE ~ commandOnly
    BY <2>2 DEF LossActs
  <2> QED  BY <2>1, <2>2
<1> HIDE DEF T, d
<1>4. /\ m \in Seq(T) /\ Len(m) = Len(l) + Len(d)
      /\ \A i \in 1 .. Len(l) + Len(d) : m[i] = IF i <= Len(l) THEN l[i] ELSE d[i - Len(l)]
  BY <1>2, <1>3, ConcatProperties
<1>5. Len(l) \in Nat /\ DOMAIN l = 1..Len(l) /\ DOMAIN m = 1..Len(m)
  BY <1>2, <1>4, LenProperties
<1>6. Invalidate.kind = "invalidate" /\ Engage(e.generation).kind = "engage"
      /\ Engage(e.generation).generation = e.generation
  BY DEF Invalidate, Engage
<1> HIDE DEF m
<1>7. ASSUME NEW i \in DOMAIN m, i <= Len(l) + 1
      PROVE  m[i].kind # "engage"
  <2>1. CASE i <= Len(l)
    <3>1. i \in DOMAIN l /\ m[i] = l[i]
      BY <1>4, <1>5, <2>1
    <3> QED  BY <3>1 DEF EngagesNone
  <2>2. CASE ~ (i <= Len(l))
    <3>1. i - Len(l) = 1 /\ m[i] = d[i - Len(l)]
      BY <1>4, <1>5, <1>7, <2>2
    <3> QED  BY <1>3, <1>6, <3>1
  <2> QED  BY <2>1, <2>2
<1>8. CASE commandOnly
  <2>1. \A i \in DOMAIN m : i <= Len(l) + 1
    <3>1. Len(m) = Len(l) + 1
      BY <1>3, <1>4, <1>8
    <3> QED  BY <1>5, <3>1
  <2> QED  BY <1>4, <1>7, <1>8, <2>1 DEF EngagesNone, IsList, m, d
<1>9. CASE ~ commandOnly
  <2>1. DOMAIN m = 1..(Len(l) + 2) /\ Len(d) = 2
    BY <1>3, <1>4, <1>5, <1>9
  <2>2. Len(l) + 2 \in DOMAIN m /\ m[Len(l) + 2] = Engage(e.generation)
    <3>1. Len(l) + 2 \in 1 .. Len(l) + Len(d) /\ ~ (Len(l) + 2 <= Len(l))
          /\ Len(l) + 2 - Len(l) = 2
      BY <1>5, <2>1
    <3>2. m[Len(l) + 2] = d[2]
      BY <1>4, <3>1
    <3> QED  BY <1>3, <1>9, <2>1, <3>1, <3>2
  <2>3. \A j \in DOMAIN m : m[j].kind = "engage" => j = Len(l) + 2
    <3>1. \A j \in DOMAIN m : j <= Len(l) + 1 \/ j = Len(l) + 2
      BY <1>5, <2>1
    <3> QED  BY <1>7, <3>1
  <2> QED  BY <1>4, <1>6, <1>9, <2>2, <2>3 DEF EngagesOnce, IsList, m, d
<1> QED  BY <1>8, <1>9

\* Who is watched is the holder, of a group with a setpoint stream.
Sound(pair, commandOnly) ==
    IsWatched(pair) => pair.watch.principal = pair.holder /\ ~ commandOnly

SoundInv == \A k \in Registered : Sound(pairs[k], CommandOnly(k))

\* A loss stays, no clear of it is new, and none begins without an engagement.
LossKept(before, after, l) ==
    /\ after.loss = NotLost => before.loss = NotLost
    /\ after.loss.phase = "pending" => after.loss = before.loss
    /\ before.loss = NotLost /\ EngagesNone(l) => after.loss = NotLost

\* What becomes of a lease in a call that says `l`: it goes on; it ends, and
\* its policy is engaged at the generation that fences it; it passes to a new
\* holder, or from nobody to one; or there was none.
Kept(before, after, l) ==
    /\ after.auth.generation = before.auth.generation
    /\ EffectiveHolder(after.auth) = EffectiveHolder(before.auth)
    /\ EngagesNone(l)

Ended(before, after, l, commandOnly) ==
    /\ EffectiveHolder(before.auth) # NoPrincipal
    /\ after.auth.generation > before.auth.generation
    /\ after.auth.generation = before.auth.generation + 1 =>
          EffectiveHolder(after.auth) = NoPrincipal
    /\ commandOnly => EngagesNone(l)
    /\ ~ commandOnly => /\ EngagesOnce(l, before.auth.generation + 1)
                        /\ after.loss = Engaged

Passed(before, after, l) ==
    /\ after.auth.generation = before.auth.generation + 1
    /\ EffectiveHolder(after.auth) # NoPrincipal
    /\ EngagesNone(l)

Freed(before, after, l) ==
    /\ EffectiveHolder(before.auth) = NoPrincipal
    /\ after.auth.generation >= before.auth.generation
    /\ EngagesNone(l)

Course(before, after, l, commandOnly) ==
    /\ IsList(l) /\ Sound(after, commandOnly)
    /\ \/ Kept(before, after, l)
       \/ Ended(before, after, l, commandOnly)
       \/ Passed(before, after, l)
       \/ Freed(before, after, l)

\* Where a call may still change the lease: nothing happened to it, or it ended.
Open(before, after, l, commandOnly) ==
    /\ LossKept(before, after, l) /\ IsList(l) /\ Sound(after, commandOnly)
    /\ \/ Kept(before, after, l)
       \/ /\ Ended(before, after, l, commandOnly)
          /\ EffectiveHolder(after.auth) = NoPrincipal

\* The holder that the registry records is that of the scope.
Follows(pair) ==
    /\ {"auth", "holder", "generation", "heldBy", "member", "watch", "loss",
        "sequence"} \subseteq DOMAIN pair
    /\ IsScope(pair.auth)
    /\ pair.holder = EffectiveHolder(pair.auth)

\* A fan-out ends or passes the lease of today, or fences a free scope.
LEMMA FanCourse ==
    ASSUME NEW before, before.auth.generation \in Nat,
           NEW r, Follows(r.pair), NEW commandOnly, Open(before, r.pair, r.acts, commandOnly),
           NEW o, Tells(r.pair.auth, o), NEW deadline
    PROVE  LET after == FanOut(r, o, deadline, commandOnly)
           IN  /\ LossKept(before, after.pair, after.acts)
               /\ Course(before, after.pair, after.acts, commandOnly)
               /\ after.pair.auth = o.state
<1> DEFINE e == o.effect
           pair == [r.pair EXCEPT !.auth = o.state]
           after == FanOut(r, o, deadline, commandOnly)
<1>1. /\ pair.auth = o.state /\ pair.loss = r.pair.loss /\ pair.member = r.pair.member
      /\ pair.holder = r.pair.holder /\ pair.watch = r.pair.watch
      /\ DOMAIN pair = DOMAIN r.pair
  BY DEF Follows
<1>2. /\ Engaged.phase = "engaged" /\ NotLost.phase = "none" /\ NotLost # Engaged
      /\ Invalidate.kind = "invalidate"
  BY DEF Engaged, NotLost, Invalidate
<1>3. /\ r.pair.holder = EffectiveHolder(r.pair.auth) /\ r.pair.auth.generation \in Nat
      /\ IsList(r.acts)
  BY DEF Follows, IsScope, Open
<1> HIDE DEF pair
<1>4. CASE e.kind \in NoteKinds
  <2>1. after.pair = pair /\ after.acts = r.acts
    BY <1>4 DEF FanOut, Progress, NoteKinds, pair
  <2>2. EffectiveHolder(o.state) = EffectiveHolder(r.pair.auth)
        /\ o.state.generation = r.pair.auth.generation
    BY <1>4 DEF Tells
  <2>3. Sound(pair, commandOnly) /\ LossKept(before, pair, r.acts)
    BY <1>1 DEF Open, Sound, IsWatched, LossKept
  <2>4. Kept(before, r.pair, r.acts) => Kept(before, pair, r.acts)
    BY <1>1, <2>2 DEF Kept
  <2>5. Ended(before, r.pair, r.acts, commandOnly) => Ended(before, pair, r.acts, commandOnly)
    BY <1>1, <2>2 DEF Ended
  <2> QED  BY <1>1, <1>3, <2>1, <2>3, <2>4, <2>5 DEF Open, Course
<1>5. CASE e.kind \in {"granted", "committed"}
  <2>1. /\ after.pair = Installed(pair, e, deadline, commandOnly)
        /\ after.acts = r.acts \/ after.acts = Append(r.acts, Invalidate)
    BY <1>5 DEF FanOut, Progress, pair
  <2>2. /\ after.pair.auth = o.state /\ after.pair.holder = e.new
        /\ after.pair.loss = InvalidatePending(r.pair.loss)
        /\ after.pair.watch = IF commandOnly THEN r.pair.watch ELSE Watch(e.new, deadline)
    BY <1>1, <2>1 DEF Installed, RecordHold, Follows
  <2>3. /\ o.state.generation = r.pair.auth.generation + 1
        /\ EffectiveHolder(o.state) # NoPrincipal
    BY <1>5, NoPrincipalAssumption DEF Tells, ChangeKinds
  <2>4. /\ IsList(after.acts)
        /\ EngagesNone(r.acts) <=> EngagesNone(after.acts)
        /\ \A g : EngagesOnce(r.acts, g) => EngagesOnce(after.acts, g)
    BY <1>2, <1>3, <2>1, EngagesMore
  <2> HIDE DEF after
  <2>5. Sound(after.pair, commandOnly)
    <3>1. CASE commandOnly
      BY <2>2, <3>1 DEF Open, Sound, IsWatched
    <3>2. CASE ~ commandOnly
      BY <2>2, <3>2 DEF Sound, IsWatched, Watch
    <3> QED  BY <3>1, <3>2
  <2>6. LossKept(before, after.pair, after.acts)
    BY <1>2, <2>2, <2>4 DEF InvalidatePending, Open, LossKept
  <2>7. Kept(before, r.pair, r.acts) => Passed(before, after.pair, after.acts)
    BY <2>2, <2>3, <2>4 DEF Kept, Passed
  <2>8. ASSUME Ended(before, r.pair, r.acts, commandOnly)
        PROVE  Ended(before, after.pair, after.acts, commandOnly)
    <3>1. /\ after.pair.auth.generation > before.auth.generation
          /\ after.pair.auth.generation # before.auth.generation + 1
      BY <1>3, <2>2, <2>3, <2>8 DEF Ended
    <3>2. ~ commandOnly => after.pair.loss = Engaged
      BY <1>2, <2>2, <2>8 DEF Ended, InvalidatePending
    <3> QED  BY <2>4, <2>8, <3>1, <3>2 DEF Ended
  <2> QED  BY <2>2, <2>4, <2>5, <2>6, <2>7, <2>8 DEF Open, Course, after
<1>6. CASE e.kind \in {"revoked", "linkLost"} /\ e.old # NoPrincipal
  <2>1. /\ after.pair = Vacated(pair, e, commandOnly)
        /\ after.acts = r.acts \o LossActs(e, commandOnly)
    BY <1>6 DEF FanOut, Progress, pair
  <2>2. /\ after.pair.auth = o.state /\ after.pair.watch = NoWatch
        /\ after.pair.loss = IF commandOnly THEN r.pair.loss ELSE Engaged
    BY <1>1, <2>1 DEF Vacated, ClearPair, Follows
  <2>3. /\ o.state.generation = r.pair.auth.generation + 1
        /\ e.generation = o.state.generation
        /\ EffectiveHolder(o.state) = NoPrincipal
        /\ EffectiveHolder(r.pair.auth) # NoPrincipal
    BY <1>6 DEF Tells, ChangeKinds
  <2>4. Kept(before, r.pair, r.acts)
    BY <2>3 DEF Open
  <2>5. /\ IsList(after.acts)
        /\ commandOnly => EngagesNone(after.acts)
        /\ ~ commandOnly => EngagesOnce(after.acts, e.generation)
    BY <1>3, <2>1, <2>4, EngagesAtLoss DEF Kept
  <2> HIDE DEF after
  <2>6. Sound(after.pair, commandOnly)
    BY <2>2 DEF Sound, IsWatched, NoWatch, Watch
  <2>7. LossKept(before, after.pair, after.acts)
    BY <1>2, <2>2, <2>4, <2>5 DEF Open, LossKept, Kept, EngagesNone, EngagesOnce
  <2>8. Ended(before, after.pair, after.acts, commandOnly)
    BY <1>3, <2>2, <2>3, <2>4, <2>5 DEF Kept, Ended
  <2> QED  BY <2>2, <2>5, <2>6, <2>7, <2>8 DEF Course, after
<1>7. CASE e.kind = "revoked" /\ e.old = NoPrincipal
  <2>1. /\ after.pair = ClearPair(pair, e) /\ after.acts = Append(r.acts, Invalidate)
    BY <1>7 DEF FanOut, Progress, pair
  <2>2. /\ after.pair.auth = o.state /\ after.pair.watch = r.pair.watch
        /\ after.pair.loss = r.pair.loss
    BY <1>1, <2>1 DEF ClearPair, Follows
  <2>3. /\ o.state.generation = r.pair.auth.generation + 1
        /\ EffectiveHolder(o.state) = NoPrincipal
        /\ EffectiveHolder(r.pair.auth) = NoPrincipal
    BY <1>7 DEF Tells, ChangeKinds
  <2>4. /\ IsList(after.acts)
        /\ EngagesNone(r.acts) <=> EngagesNone(after.acts)
        /\ \A g : EngagesOnce(r.acts, g) => EngagesOnce(after.acts, g)
    BY <1>2, <1>3, <2>1, EngagesMore
  <2> HIDE DEF after
  <2>5. Sound(after.pair, commandOnly)
    BY <1>3, <2>2, <2>3 DEF Open, Sound, IsWatched
  <2>6. LossKept(before, after.pair, after.acts)
    BY <2>2, <2>4 DEF Open, LossKept
  <2>7. Kept(before, r.pair, r.acts) => Freed(before, after.pair, after.acts)
    BY <1>3, <2>2, <2>3, <2>4 DEF Kept, Freed
  <2>8. ASSUME Ended(before, r.pair, r.acts, commandOnly)
        PROVE  Ended(before, after.pair, after.acts, commandOnly)
    BY <1>3, <2>2, <2>3, <2>4, <2>8 DEF Ended
  <2> QED  BY <2>2, <2>4, <2>5, <2>6, <2>7, <2>8 DEF Open, Course, after
<1> QED  BY <1>4, <1>5, <1>6, <1>7 DEF Tells

\* What deadlines do to a pair: nothing, if they have not passed; otherwise
\* they end its lease.
Opens(before, after, l, commandOnly, t) ==
    /\ Open(before, after, l, commandOnly)
    /\ \/ Kept(before, after, l) /\ l = <<>> /\ ~ IsSilent(before, t)
       \/ after.auth.generation # before.auth.generation

\* Every call starts there.
LEMMA OverdueOpens ==
    ASSUME NEW pair, Agrees(pair), NEW c, LossOk(pair, c), NEW commandOnly,
           Sound(pair, commandOnly), NEW k, NEW t
    PROVE  LET after == ExpireOverdue(pair, k, t, commandOnly)
           IN  Opens(pair, after.pair, after.acts, commandOnly, t)
<1> DEFINE r == ExpiredOffer(Begin(pair), t)
           after == ExpireOverdue(pair, k, t, commandOnly)
<1>1. /\ DOMAIN r = {"pair", "acts"} /\ r.acts = <<>> /\ Agrees(r.pair)
      /\ r.pair.loss = pair.loss /\ r.pair.watch = pair.watch
      /\ r.pair.auth.generation = pair.auth.generation
      /\ EffectiveHolder(r.pair.auth) = EffectiveHolder(pair.auth)
  <2>1. CASE OfferIsDue(pair.auth, t)
    <3> DEFINE expired == [pair EXCEPT !.auth = ExpireOffer(pair.auth)]
    <3>1. DOMAIN r = {"pair", "acts"} /\ r.acts = <<>> /\ r.pair = expired
      BY <2>1 DEF ExpiredOffer, Begin, Progress
    <3>2. /\ expired.auth = ExpireOffer(pair.auth) /\ expired.holder = pair.holder
          /\ expired.generation = pair.generation /\ expired.heldBy = pair.heldBy
          /\ expired.loss = pair.loss /\ expired.watch = pair.watch
          /\ DOMAIN expired = DOMAIN pair
      BY DEF Agrees
    <3>3. /\ IsScope(ExpireOffer(pair.auth))
          /\ EffectiveHolder(ExpireOffer(pair.auth)) = EffectiveHolder(pair.auth)
          /\ ExpireOffer(pair.auth).generation = pair.auth.generation
      BY <2>1, ExpiryTells DEF Agrees, OfferIsDue
    <3> HIDE DEF expired, r
    <3>4. Agrees(expired)
      BY <3>2, <3>3 DEF Agrees
    <3> QED  BY <3>1, <3>2, <3>3, <3>4
  <2>2. CASE ~ OfferIsDue(pair.auth, t)
    BY <2>2 DEF ExpiredOffer, Begin, Progress
  <2> QED  BY <2>1, <2>2
<1>2. IsList(<<>>) /\ EngagesNone(<<>>)
  <2>1. <<>> \in Seq({}) /\ DOMAIN <<>> = {}
    OBVIOUS
  <2> QED  BY <2>1 DEF IsList, EngagesNone
<1> HIDE DEF r
<1>3. /\ Sound(r.pair, commandOnly) /\ LossKept(pair, r.pair, <<>>) /\ Kept(pair, r.pair, <<>>)
      /\ IsSilent(r.pair, t) = IsSilent(pair, t)
      /\ r.pair.holder = pair.holder
  BY <1>1, <1>2 DEF Agrees, Sound, IsWatched, IsSilent, LossKept, Kept
<1>4. CASE ~ IsSilent(r.pair, t)
  <2>1. after = r
    BY <1>4 DEF ExpireOverdue, ExpiredHolder, r
  <2> HIDE DEF after
  <2> QED  BY <1>1, <1>2, <1>3, <1>4, <2>1 DEF Opens, Open, after
<1>5. CASE IsSilent(r.pair, t)
  <2> DEFINE p == r.pair.watch.principal
             unwatched == [r EXCEPT !.pair.watch = NoWatch]
             o == HolderLinkChanged(r.pair.auth, k, p, "lost")
  <2>1. after = FanOut(unwatched, o, t, commandOnly)
    BY <1>5 DEF ExpireOverdue, ExpiredHolder, r
  <2> HIDE DEF after
  <2>2. /\ unwatched.pair.auth = r.pair.auth /\ unwatched.pair.holder = r.pair.holder
        /\ unwatched.pair.generation = r.pair.generation
        /\ unwatched.pair.heldBy = r.pair.heldBy /\ unwatched.pair.loss = r.pair.loss
        /\ unwatched.pair.watch = NoWatch
        /\ DOMAIN unwatched.pair = DOMAIN r.pair /\ unwatched.acts = <<>>
    BY <1>1 DEF Agrees
  <2>3. p # NoPrincipal /\ p = EffectiveHolder(r.pair.auth)
    BY <1>1, <1>3, <1>5 DEF IsSilent, IsWatched, Sound, Agrees
  <2>4. Tells(r.pair.auth, o) /\ o.effect.kind = "linkLost"
    BY <1>1, <2>3, LinkTells DEF Agrees
  <2> HIDE DEF unwatched, o, p
  <2>5. Follows(unwatched.pair)
    BY <1>1, <2>2 DEF Agrees, Follows
  <2>6. Open(pair, unwatched.pair, unwatched.acts, commandOnly)
    <3>1. Sound(unwatched.pair, commandOnly)
      BY <2>2 DEF Sound, IsWatched, NoWatch, Watch
    <3> QED  BY <1>2, <1>3, <2>2, <3>1 DEF Open, LossKept, Kept
  <2>7. pair.auth.generation \in Nat /\ Tells(unwatched.pair.auth, o)
    BY <2>2, <2>4 DEF Agrees, IsScope
  <2>8. /\ LossKept(pair, after.pair, after.acts)
        /\ Course(pair, after.pair, after.acts, commandOnly)
        /\ after.pair.auth = o.state
    BY <2>1, <2>5, <2>6, <2>7, FanCourse
  <2>9. /\ EffectiveHolder(after.pair.auth) = NoPrincipal
         /\ EffectiveHolder(pair.auth) # NoPrincipal
         /\ after.pair.auth.generation # pair.auth.generation
    <3>1. o.state.generation = r.pair.auth.generation + 1
      BY <2>4 DEF Tells, ChangeKinds
    <3>2. EffectiveHolder(o.state) = NoPrincipal
      BY <2>4 DEF Tells
    <3> QED  BY <1>1, <2>3, <2>7, <2>8, <3>1, <3>2
  <2>10. Ended(pair, after.pair, after.acts, commandOnly)
    BY <2>8, <2>9 DEF Course, Kept, Passed, Freed
  <2> QED  BY <2>8, <2>9, <2>10 DEF Opens, Open, Course, after
<1> QED  BY <1>4, <1>5

\* A call leaves a pair on its course: its lease as above; a loss that is over
\* only if there was none, or one that waits to be cleared, by a frame of the
\* holder; and a holder that was overdue without its lease, or unheard.
Demonstrated(pair, l) ==
    LET g == pair.auth.generation
    IN  l = <<Clear(g, FALSE), ApplyFrame(EffectiveHolder(pair.auth), pair.member, g, "neutral")>>

Runs(before, after, l, commandOnly, t) ==
    /\ Course(before, after, l, commandOnly)
    /\ after.loss = NotLost => before.loss = NotLost
    /\ before.loss = NotLost /\ EngagesNone(l) => after.loss = NotLost
    /\ after.loss.phase = "pending" /\ after.loss # before.loss => Demonstrated(after, l)
    /\ IsSilent(before, t) => \/ after.auth.generation # before.auth.generation
                              \/ after.watch = before.watch /\ Quiet(l)

PairsRun ==
    /\ DOMAIN acts' = DOMAIN pairs'
    /\ \A k \in Registered :
          k \in DOMAIN pairs' /\ Runs(pairs[k], pairs'[k], acts'[k], CommandOnly(k), now)

CallRuns == PairsRun /\ DOMAIN pairs' = Registered

\* So do all, if each.
LEMMA FinishRuns ==
    ASSUME NEW progress, DOMAIN progress = Registered, NEW answer, Finish(progress, answer),
           \A k \in Registered :
              Runs(pairs[k], progress[k].pair, progress[k].acts, CommandOnly(k), now)
    PROVE  CallRuns
<1>1. /\ DOMAIN pairs' = Registered /\ DOMAIN acts' = Registered
      /\ \A k \in Registered : pairs'[k] = progress[k].pair /\ acts'[k] = progress[k].acts
  BY DEF Finish
<1> QED  BY <1>1 DEF CallRuns, PairsRun

\* What deadlines leave is on its course.
LEMMA OpensRuns ==
    ASSUME NEW before, NEW after, NEW l, NEW commandOnly, NEW t,
           Opens(before, after, l, commandOnly, t)
    PROVE  Runs(before, after, l, commandOnly, t)
BY DEF Opens, Open, Runs, Course, LossKept

\* Where a call stands after its deadlines.
LEMMA OverdueStarts ==
    ASSUME RegistryInv, ActsInv, SoundInv, NEW k \in Registered
    PROVE  /\ Opens(pairs[k], Overdue[k].pair, Overdue[k].acts, CommandOnly(k), now)
           /\ Agrees(Overdue[k].pair) /\ pairs[k].auth.generation \in Nat
           /\ DOMAIN Overdue[k] = {"pair", "acts"}
<1>1. Overdue[k] = ExpireOverdue(pairs[k], k, now, CommandOnly(k))
  BY DEF Overdue
<1>2. /\ Agrees(pairs[k]) /\ LossOk(pairs[k], catalog) /\ Sound(pairs[k], CommandOnly(k))
  BY DEF RegistryInv, PairOk, ActsInv, SoundInv
<1>3. Opens(pairs[k], Overdue[k].pair, Overdue[k].acts, CommandOnly(k), now)
  BY <1>1, <1>2, OverdueOpens
<1>4. Agrees(Overdue[k].pair) /\ DOMAIN Overdue[k] = {"pair", "acts"}
  BY OverdueStays
<1>5. pairs[k].auth.generation \in Nat
  BY <1>2 DEF Agrees, IsScope
<1> QED  BY <1>3, <1>4, <1>5

\* A fan-out behind the deadlines, or without any.
LEMMA FanRuns ==
    ASSUME NEW before, before.auth.generation \in Nat, NEW commandOnly, NEW t,
           NEW r, Follows(r.pair), Opens(before, r.pair, r.acts, commandOnly, t),
           NEW o, Tells(r.pair.auth, o), NEW deadline
    PROVE  LET after == FanOut(r, o, deadline, commandOnly)
           IN  /\ LossKept(before, after.pair, after.acts)
               /\ Runs(before, after.pair, after.acts, commandOnly, t)
<1> DEFINE after == FanOut(r, o, deadline, commandOnly)
<1>1. /\ LossKept(before, after.pair, after.acts)
      /\ Course(before, after.pair, after.acts, commandOnly)
      /\ after.pair.auth = o.state
  BY FanCourse DEF Opens
<1>2. IsSilent(before, t) => after.pair.auth.generation # before.auth.generation
  <2>1. SUFFICES ASSUME IsSilent(before, t)
                 PROVE  after.pair.auth.generation # before.auth.generation
    OBVIOUS
  <2>2. r.pair.auth.generation # before.auth.generation
    BY <2>1 DEF Opens
  <2>3. Ended(before, r.pair, r.acts, commandOnly)
    BY <2>2 DEF Opens, Open, Kept
  <2>4. o.state.generation = r.pair.auth.generation
        \/ o.state.generation = r.pair.auth.generation + 1
    BY DEF Tells, ChangeKinds
  <2>5. r.pair.auth.generation \in Nat
    BY DEF Follows, IsScope
  <2> HIDE DEF after
  <2> QED  BY <1>1, <2>3, <2>4, <2>5 DEF Ended
<1> HIDE DEF after
<1> QED  BY <1>1, <1>2 DEF Runs, LossKept, after

\* A call that does no more than the deadlines.
LEMMA OverdueFinishRuns ==
    ASSUME RegistryInv, ActsInv, SoundInv, NEW answer, Finish(Overdue, answer)
    PROVE  CallRuns
<1>1. DOMAIN Overdue = Registered
  BY DEF Overdue
<1>2. ASSUME NEW k \in Registered
      PROVE  Runs(pairs[k], Overdue[k].pair, Overdue[k].acts, CommandOnly(k), now)
  BY OverdueStarts, OpensRuns
<1> QED  BY <1>1, <1>2, FinishRuns

\* One more step for one pair.
LEMMA OneRuns ==
    ASSUME RegistryInv, ActsInv, SoundInv, NEW k \in Registered, NEW r, NEW answer,
           Finish([Overdue EXCEPT ![k] = r], answer),
           Runs(pairs[k], r.pair, r.acts, CommandOnly(k), now)
    PROVE  CallRuns
<1> DEFINE progress == [Overdue EXCEPT ![k] = r]
<1>1. /\ DOMAIN progress = Registered /\ progress[k] = r
      /\ \A j \in Registered \ {k} : progress[j] = Overdue[j]
  BY DEF Overdue
<1>2. Finish(progress, answer)
  OBVIOUS
<1> HIDE DEF progress
<1>3. ASSUME NEW j \in Registered
      PROVE  Runs(pairs[j], progress[j].pair, progress[j].acts, CommandOnly(j), now)
  <2>1. CASE j = k
    BY <1>1, <2>1
  <2>2. CASE j # k
    <3>1. progress[j] = Overdue[j]
      BY <1>1, <2>2
    <3> QED  BY <3>1, OverdueStarts, OpensRuns
  <2> QED  BY <2>1, <2>2
<1> QED  BY <1>1, <1>2, <1>3, FinishRuns

\* A fan-out after the deadlines.
LEMMA FanOverdueRuns ==
    ASSUME RegistryInv, ActsInv, SoundInv, NEW k \in Registered, NEW o,
           Tells(Overdue[k].pair.auth, o)
    PROVE  LET r == Fan(Overdue[k], k, o)
           IN  /\ LossKept(pairs[k], r.pair, r.acts)
               /\ Runs(pairs[k], r.pair, r.acts, CommandOnly(k), now)
<1>1. Follows(Overdue[k].pair) /\ pairs[k].auth.generation \in Nat
      /\ Opens(pairs[k], Overdue[k].pair, Overdue[k].acts, CommandOnly(k), now)
  BY OverdueStarts DEF Agrees, Follows
<1> QED  BY <1>1, FanRuns DEF Fan

\* Which member a pair is bound to is no matter.
LEMMA BoundRuns ==
    ASSUME NEW before, NEW r, DOMAIN r = {"pair", "acts"}, Agrees(r.pair),
           NEW commandOnly, NEW t, LossKept(before, r.pair, r.acts),
           Runs(before, r.pair, r.acts, commandOnly, t), NEW m
    PROVE  LET bound == [r EXCEPT !.pair.member = m]
           IN  Runs(before, bound.pair, bound.acts, commandOnly, t)
<1> DEFINE bound == [r EXCEPT !.pair.member = m]
<1>1. /\ bound.pair.auth = r.pair.auth /\ bound.pair.loss = r.pair.loss
      /\ bound.pair.watch = r.pair.watch /\ bound.pair.holder = r.pair.holder
      /\ bound.acts = r.acts
  BY DEF Agrees
<1> HIDE DEF bound
<1>2. Course(before, bound.pair, bound.acts, commandOnly)
  BY <1>1 DEF Runs, Course, Sound, IsWatched, Kept, Ended, Passed, Freed
<1>3. bound.pair.loss.phase = "pending" => bound.pair.loss = before.loss
  BY <1>1 DEF LossKept
<1> QED  BY <1>1, <1>2, <1>3 DEF Runs, bound

\* Each pair of a client that leaves is lost on its course.
LEMMA DisconnectRuns ==
    ASSUME RegistryInv, ActsInv, SoundInv, NEW c, Disconnect(c)
    PROVE  CallRuns
<1> DEFINE p == Principal(c)
           r(k) == [Overdue[k] EXCEPT !.pair.heldBy = @ \ {p}]
           o(k) == HolderLinkChanged(r(k).pair.auth, k, p, "lost")
           lost(k) == IF p \in Overdue[k].pair.heldBy THEN Fan(r(k), k, o(k)) ELSE r(k)
           progress == [k \in Registered |-> lost(k)]
<1>1. /\ Finish(progress, NoReply) /\ DOMAIN progress = Registered
      /\ \A k \in Registered : progress[k] = lost(k)
  BY DEF Disconnect
<1>2. p # NoPrincipal
  BY NoPrincipalAssumption DEF Disconnect, Welcomed, RegistryInv, ClientsOk
<1> HIDE DEF progress
<1>3. ASSUME NEW k \in Registered
      PROVE  Runs(pairs[k], progress[k].pair, progress[k].acts, CommandOnly(k), now)
  <2>1. /\ Opens(pairs[k], Overdue[k].pair, Overdue[k].acts, CommandOnly(k), now)
        /\ Agrees(Overdue[k].pair) /\ pairs[k].auth.generation \in Nat
        /\ DOMAIN Overdue[k] = {"pair", "acts"}
    BY OverdueStarts
  <2>2. /\ r(k).pair.auth = Overdue[k].pair.auth /\ r(k).pair.loss = Overdue[k].pair.loss
        /\ r(k).pair.holder = Overdue[k].pair.holder
        /\ r(k).pair.watch = Overdue[k].pair.watch /\ r(k).acts = Overdue[k].acts
        /\ DOMAIN r(k).pair = DOMAIN Overdue[k].pair
    BY <2>1 DEF Agrees
  <2>3. progress[k] = lost(k)
    BY <1>1
  <2> HIDE DEF r
  <2>4. Tells(r(k).pair.auth, o(k)) /\ Follows(r(k).pair)
    BY <1>2, <2>1, <2>2, LinkTells DEF Agrees, Follows
  <2> HIDE DEF o, p
  <2>5. Opens(pairs[k], r(k).pair, r(k).acts, CommandOnly(k), now)
    BY <2>1, <2>2 DEF Opens, Open, LossKept, Sound, IsWatched, Kept, Ended
  <2>6. LET fanned == Fan(r(k), k, o(k))
        IN  Runs(pairs[k], fanned.pair, fanned.acts, CommandOnly(k), now)
    BY <2>1, <2>4, <2>5, FanRuns DEF Fan
  <2>7. Runs(pairs[k], r(k).pair, r(k).acts, CommandOnly(k), now)
    BY <2>5, OpensRuns
  <2> QED  BY <2>3, <2>6, <2>7
<1> HIDE DEF r, o, p, lost
<1> QED  BY <1>1, <1>3, FinishRuns

\* A pair may be leased again in the call that ended its lease.
LEMMA LeaseRuns ==
    ASSUME RegistryInv, ActsInv, SoundInv, NEW c, NEW m \in Members, Lease(c, m)
    PROVE  CallRuns
<1> DEFINE k == PairOf(m)
           p == Principal(c)
           r == Overdue[k]
           o == Grant(r.pair.auth, k, p)
           fanned == Fan(r, k, o)
           bound == [fanned EXCEPT !.pair.member = m]
<1>1. p \in Principals
  BY DEF Lease, Welcomed, RegistryInv, ClientsOk
<1>2. CASE \E answer : Finish(Overdue, answer)
  BY <1>2, OverdueFinishRuns
<1>3. CASE /\ Declared(m)
           /\ \E answer : Finish([Overdue EXCEPT ![k] = bound], answer)
  <2>1. k \in Registered
    BY <1>3, DeclaredIsRegistered
  <2>2. Agrees(r.pair) /\ IsScope(r.pair.auth)
    BY <2>1, OverdueStays DEF Agrees
  <2>3. Tells(r.pair.auth, o)
    BY <1>1, <2>2, GrantTells
  <2> HIDE DEF o, k, p
  <2>4. /\ LossKept(pairs[k], fanned.pair, fanned.acts)
        /\ Runs(pairs[k], fanned.pair, fanned.acts, CommandOnly(k), now)
    BY <2>1, <2>3, FanOverdueRuns
  <2>5. Agrees(fanned.pair) /\ DOMAIN fanned = {"pair", "acts"}
    BY <2>2, <2>3, FanAgrees, FanIsProgress DEF Fan
  <2> HIDE DEF fanned, r
  <2>6. Runs(pairs[k], bound.pair, bound.acts, CommandOnly(k), now)
    BY <2>4, <2>5, BoundRuns
  <2> HIDE DEF bound
  <2> QED  BY <1>3, <2>1, <2>6, OneRuns
<1> QED
  <2>1. \/ \E answer : Finish(Overdue, answer)
        \/ /\ Declared(m)
           /\ \E answer : Finish([Overdue EXCEPT ![k] = bound], answer)
    <3>1. CASE ~ Declared(m)
      BY <3>1 DEF Lease
    <3>2. CASE Declared(m) /\ r.pair.holder # NoPrincipal
      BY <3>2 DEF Lease
    <3>3. CASE Declared(m) /\ r.pair.holder = NoPrincipal
      BY <3>3 DEF Lease
    <3> QED  BY <3>1, <3>2, <3>3
  <2> QED  BY <1>2, <1>3, <2>1

\* A holder that lets go is lost as well.
LEMMA ReleaseRuns ==
    ASSUME RegistryInv, ActsInv, SoundInv, NEW c, NEW m \in Members, ReleaseLease(c, m)
    PROVE  CallRuns
<1> DEFINE k == PairOf(m)
           o == Release(Overdue[k].pair.auth, k, Principal(c))
           r == Fan(Overdue[k], k, o)
<1>1. CASE \E answer : Finish(Overdue, answer)
  BY <1>1, OverdueFinishRuns
<1>2. CASE /\ k \in Registered
           /\ \E answer : Finish([Overdue EXCEPT ![k] = Fan(@, k, o)], answer)
  <2>1. IsScope(Overdue[k].pair.auth)
    BY <1>2, OverdueStays DEF Agrees
  <2>2. Tells(Overdue[k].pair.auth, o)
    BY <2>1, ReleaseTells
  <2> HIDE DEF o
  <2>3. Runs(pairs[k], r.pair, r.acts, CommandOnly(k), now)
    BY <1>2, <2>2, FanOverdueRuns
  <2>4. [Overdue EXCEPT ![k] = Fan(@, k, o)] = [Overdue EXCEPT ![k] = r]
    BY <1>2 DEF Overdue
  <2> HIDE DEF r, k
  <2> QED  BY <1>2, <2>3, <2>4, OneRuns
<1> QED
  BY <1>1, <1>2 DEF ReleaseLease

\* An offer leaves the lease with its holder.
LEMMA OfferRuns ==
    ASSUME RegistryInv, ActsInv, SoundInv, NEW c, NEW m \in Members, NEW q,
           TransferOffer(c, m, q)
    PROVE  CallRuns
<1> DEFINE k == PairOf(m)
           o == Offer(Overdue[k].pair.auth, k, Principal(c), q, now, OfferTtl)
           r == Fan(Overdue[k], k, o)
<1>1. Principal(c) \in Principals /\ now \in Nat
  BY DEF TransferOffer, Welcomed, RegistryInv, ClientsOk
<1>2. CASE ~ Declared(m)
  BY <1>2, OverdueFinishRuns DEF TransferOffer
<1>3. CASE Declared(m)
  <2>1. k \in Registered
    BY <1>3, DeclaredIsRegistered
  <2>2. IsScope(Overdue[k].pair.auth)
    BY <2>1, OverdueStays DEF Agrees
  <2>3. Tells(Overdue[k].pair.auth, o)
    BY <1>1, <2>2, DurationsAssumption, OfferTells
  <2>4. Finish([Overdue EXCEPT ![k] = r], NoReply)
    BY <1>3 DEF TransferOffer
  <2> HIDE DEF o
  <2>5. Runs(pairs[k], r.pair, r.acts, CommandOnly(k), now)
    BY <2>1, <2>3, FanOverdueRuns
  <2> HIDE DEF r, k
  <2> QED  BY <2>1, <2>4, <2>5, OneRuns
<1> QED  BY <1>2, <1>3

\* A commit passes the lease on, and loses none.
LEMMA AcceptRuns ==
    ASSUME RegistryInv, ActsInv, SoundInv, NEW c, NEW m \in Members, TransferAccept(c, m)
    PROVE  CallRuns
<1> DEFINE k == PairOf(m)
           p == Principal(c)
           r == Overdue[k]
           o == Accept(r.pair.auth, k, p, r.pair.generation, now)
           fanned == Fan(r, k, o)
           bound == [fanned EXCEPT !.pair.member = m]
           last == IF o.effect.kind = "committed" THEN bound ELSE fanned
<1>1. p \in Principals /\ now \in Nat
  BY DEF TransferAccept, Welcomed, RegistryInv, ClientsOk
<1>2. CASE ~ Declared(m)
  BY <1>2, OverdueFinishRuns DEF TransferAccept
<1>3. CASE Declared(m)
  <2>1. k \in Registered
    BY <1>3, DeclaredIsRegistered
  <2>2. Agrees(r.pair) /\ IsScope(r.pair.auth)
    BY <2>1, OverdueStays DEF Agrees
  <2>3. Tells(r.pair.auth, o)
    BY <1>1, <2>2, AcceptTells, SMTT(30)
  <2>4. Finish([Overdue EXCEPT ![k] = last], NoReply)
    BY <1>3 DEF TransferAccept
  <2> HIDE DEF o, k, p
  <2>5. /\ LossKept(pairs[k], fanned.pair, fanned.acts)
        /\ Runs(pairs[k], fanned.pair, fanned.acts, CommandOnly(k), now)
    BY <2>1, <2>3, FanOverdueRuns
  <2>6. Agrees(fanned.pair) /\ DOMAIN fanned = {"pair", "acts"}
    BY <2>2, <2>3, FanAgrees, FanIsProgress DEF Fan
  <2> HIDE DEF fanned, r
  <2>7. Runs(pairs[k], bound.pair, bound.acts, CommandOnly(k), now)
    BY <2>5, <2>6, BoundRuns
  <2>8. Runs(pairs[k], last.pair, last.acts, CommandOnly(k), now)
    BY <2>5, <2>7
  <2> HIDE DEF last
  <2> QED  BY <2>1, <2>4, <2>8, OneRuns
<1> QED  BY <1>2, <1>3

\* One act more, behind the deadlines.
LEMMA SayRuns ==
    ASSUME NEW before, NEW after, NEW l, NEW commandOnly, NEW t,
           Opens(before, after, l, commandOnly, t), NEW act, act.kind # "engage"
    PROVE  Runs(before, after, Append(l, act), commandOnly, t)
<1> DEFINE m == Append(l, act)
<1>1. /\ IsList(m)
      /\ EngagesNone(l) <=> EngagesNone(m)
      /\ \A g : EngagesOnce(l, g) => EngagesOnce(m, g)
  BY EngagesMore DEF Opens, Open
<1> HIDE DEF m
<1>2. Kept(before, after, l) => Kept(before, after, m)
  BY <1>1 DEF Kept
<1>3. Ended(before, after, l, commandOnly) => Ended(before, after, m, commandOnly)
  BY <1>1 DEF Ended
<1>4. Course(before, after, m, commandOnly)
  BY <1>1, <1>2, <1>3 DEF Opens, Open, Course
<1> QED  BY <1>1, <1>4 DEF Opens, Open, LossKept, Runs, m

\* A command ends nothing and recovers nothing.
LEMMA CommandRuns ==
    ASSUME RegistryInv, ActsInv, SoundInv, NEW c, NEW m, NEW g, ActionCommand(c, m, g)
    PROVE  CallRuns
<1> DEFINE k == PairOf(m)
           act == ApplyFrame(Principal(c), m, g, "action")
           r == Emitting(Overdue[k], act)
<1>1. k \in Registered
  BY DeclaredIsRegistered DEF ActionCommand
<1>2. /\ Opens(pairs[k], Overdue[k].pair, Overdue[k].acts, CommandOnly(k), now)
      /\ DOMAIN Overdue[k] = {"pair", "acts"}
  BY <1>1, OverdueStarts
<1>3. Finish([Overdue EXCEPT ![k] = r], NoReply)
  BY DEF ActionCommand, Judged
<1>4. r.pair = Overdue[k].pair /\ r.acts = Append(Overdue[k].acts, act)
  BY <1>2 DEF Emitting
<1>5. act.kind = "apply"
  BY DEF ApplyFrame
<1> HIDE DEF r, k, act
<1>6. Runs(pairs[k], r.pair, r.acts, CommandOnly(k), now)
  BY <1>2, <1>4, <1>5, SayRuns
<1> QED  BY <1>1, <1>3, <1>6, OneRuns

\* A clear that is asked for again is the one that waits.
LEMMA RetryRuns ==
    ASSUME RegistryInv, ActsInv, SoundInv, HandleTick
    PROVE  CallRuns
<1> DEFINE progress == [k \in Registered |-> RetryClear(Overdue[k])]
<1>1. /\ Finish(progress, NoReply) /\ DOMAIN progress = Registered
      /\ \A k \in Registered : progress[k] = RetryClear(Overdue[k])
  BY DEF HandleTick
<1> HIDE DEF progress
<1>2. ASSUME NEW k \in Registered
      PROVE  Runs(pairs[k], progress[k].pair, progress[k].acts, CommandOnly(k), now)
  <2> DEFINE r == Overdue[k]
             act == Clear(r.pair.loss.generation, TRUE)
  <2>1. Opens(pairs[k], r.pair, r.acts, CommandOnly(k), now) /\ DOMAIN r = {"pair", "acts"}
    BY OverdueStarts
  <2>2. progress[k] = RetryClear(r) /\ act.kind # "engage"
    BY <1>1 DEF Clear
  <2> HIDE DEF r
  <2>3. CASE r.pair.loss.phase = "pending"
    <3>1. progress[k].pair = r.pair /\ progress[k].acts = Append(r.acts, act)
      BY <2>1, <2>2, <2>3 DEF RetryClear, Emitting
    <3> HIDE DEF act
    <3> QED  BY <2>1, <2>2, <3>1, SayRuns
  <2>4. CASE r.pair.loss.phase # "pending"
    <3>1. progress[k] = r
      BY <2>2, <2>4 DEF RetryClear
    <3> QED  BY <2>1, <3>1, OpensRuns
  <2> QED  BY <2>3, <2>4
<1> QED  BY <1>1, <1>2, FinishRuns

\* Two acts, one behind the other.
LEMMA TwoActs ==
    ASSUME NEW x, NEW y
    PROVE  Append(Append(<<>>, x), y) = <<x, y>>
<1> DEFINE S == {x, y}
<1>1. /\ Append(<<>>, x) \in Seq(S) /\ Len(Append(<<>>, x)) = 1
      /\ Append(<<>>, x)[1] = x
  <2>1. <<>> \in Seq(S) /\ Len(<<>>) = 0 /\ x \in S
    OBVIOUS
  <2> HIDE DEF S
  <2> QED  BY <2>1, AppendProperties
<1>2. y \in S
  OBVIOUS
<1>3. <<x, y>> \in Seq(S) /\ Len(<<x, y>>) = 2 /\ <<x, y>>[1] = x /\ <<x, y>>[2] = y
  OBVIOUS
<1> HIDE DEF S
<1> DEFINE l == Append(<<>>, x)
<1>4. /\ l \in Seq(S) /\ Len(l) = 1 /\ l[1] = x
  BY <1>1
<1> HIDE DEF l
<1>5. /\ Append(l, y) \in Seq(S) /\ Len(Append(l, y)) = 2
      /\ Append(l, y)[1] = x /\ Append(l, y)[2] = y
  <2>1. /\ Append(l, y) \in Seq(S) /\ Len(Append(l, y)) = Len(l) + 1
        /\ \A i \in 1..Len(l) : Append(l, y)[i] = l[i]
        /\ Append(l, y)[Len(l) + 1] = y
    <3>1. Append(l, y) \in Seq(S) /\ Len(Append(l, y)) = Len(l) + 1
      BY <1>2, <1>4, AppendProperties
    <3>2. IsList(l)
      BY <1>4 DEF IsList
    <3> QED  BY <3>1, <3>2, AppendIsList
  <2>2. 1 \in 1..Len(l) /\ Len(l) + 1 = 2
    BY <1>4
  <2> QED  BY <1>4, <2>1, <2>2
<1> DEFINE s == Append(l, y)
           t == <<x, y>>
<1>6. /\ s \in Seq(S) /\ t \in Seq(S) /\ Len(s) = Len(t)
      /\ \A i \in 1..Len(s) : s[i] = t[i]
  <2>1. \A i \in 1..2 : i = 1 \/ i = 2
    OBVIOUS
  <2>2. \A i \in 1..2 : s[i] = t[i]
    BY <1>3, <1>5, <2>1
  <2>3. s \in Seq(S) /\ t \in Seq(S) /\ Len(s) = 2 /\ Len(t) = 2
    BY <1>3, <1>5
  <2> HIDE DEF s, t
  <2> QED  BY <2>2, <2>3
<1> HIDE DEF s, t
<1>7. s = t
  BY <1>6, SeqEqual
<1> QED  BY <1>7 DEF l, s, t

\* A frame is heard from a holder in time, and a neutral one starts the
\* recovery of its own lease.
LEMMA FrameRuns ==
    ASSUME RegistryInv, ActsInv, SoundInv, NEW c, NEW m, NEW g, NEW n, NEW posture,
           Frame(c, m, g, n, posture)
    PROVE  CallRuns
<1> DEFINE k == PairOf(m)
           p == Principal(c)
           act == ApplyFrame(p, m, g, posture)
           before == Overdue[k]
           heard == [before EXCEPT !.pair.sequence = Received(g, n),
                                   !.pair.watch = IF @.principal = p THEN Watch(p, Silence)
                                                                     ELSE @]
           cleared == IF Demonstrates(heard.pair, posture)
                      THEN Emitting([heard EXCEPT !.pair.loss = ClearPending(g)],
                                    Clear(g, FALSE))
                      ELSE heard
           r == Emitting(cleared, act)
<1>1. k \in Registered
  BY DEF Frame
<1>2. /\ Opens(pairs[k], before.pair, before.acts, CommandOnly(k), now)
      /\ Agrees(before.pair) /\ DOMAIN before = {"pair", "acts"}
  BY <1>1, OverdueStarts
<1>3. /\ Finish([Overdue EXCEPT ![k] = r], NoReply)
      /\ before.pair.holder = p /\ before.pair.member = m
      /\ EffectiveHolder(before.pair.auth) # NoPrincipal /\ g = before.pair.auth.generation
  BY DEF Frame, Judged, HoldsMember, FrameAccepted, AcceptFrame
<1>4. EffectiveHolder(before.pair.auth) = p
  BY <1>2, <1>3 DEF Agrees
<1>5. /\ LossKept(pairs[k], before.pair, before.acts) /\ Sound(before.pair, CommandOnly(k))
      /\ Kept(pairs[k], before.pair, <<>>)
      /\ before.acts = <<>> /\ ~ IsSilent(pairs[k], now)
  BY <1>2, <1>3 DEF Opens, Open, Kept
<1>6. act.kind = "apply" /\ Clear(g, FALSE).kind = "clear"
  BY DEF ApplyFrame, Clear
<1>7. /\ DOMAIN heard = {"pair", "acts"} /\ DOMAIN heard.pair = DOMAIN before.pair
      /\ heard.pair.auth = before.pair.auth /\ heard.pair.member = before.pair.member
      /\ heard.pair.holder = before.pair.holder
      /\ heard.pair.loss = before.pair.loss /\ heard.acts = <<>>
      /\ heard.pair.watch = IF before.pair.watch.principal = p THEN Watch(p, Silence)
                                                               ELSE before.pair.watch
  BY <1>2, <1>5 DEF Agrees
<1> HIDE DEF heard, before, k, p
<1>8. /\ DOMAIN cleared = {"pair", "acts"}
      /\ cleared.pair.auth = before.pair.auth /\ cleared.pair.member = before.pair.member
      /\ cleared.pair.holder = before.pair.holder /\ cleared.pair.watch = heard.pair.watch
      /\ cleared.pair.loss = IF Demonstrates(heard.pair, posture) THEN ClearPending(g)
                                                                  ELSE before.pair.loss
      /\ cleared.acts = IF Demonstrates(heard.pair, posture)
                        THEN Append(<<>>, Clear(g, FALSE)) ELSE <<>>
  BY <1>2, <1>7 DEF Emitting, Agrees
<1> HIDE DEF cleared
<1>9. r.pair = cleared.pair /\ r.acts = Append(cleared.acts, act)
  BY <1>8 DEF Emitting
<1>10. IsList(<<>>) /\ EngagesNone(<<>>)
  <2>1. <<>> \in Seq({}) /\ DOMAIN <<>> = {}
    OBVIOUS
  <2> QED  BY <2>1 DEF IsList, EngagesNone
<1>11. IsList(cleared.acts) /\ EngagesNone(cleared.acts)
  BY <1>6, <1>8, <1>10, EngagesMore
<1>12. IsList(r.acts) /\ EngagesNone(r.acts)
  BY <1>6, <1>9, <1>11, EngagesMore
<1>13. Demonstrates(heard.pair, posture) => Demonstrated(r.pair, r.acts)
  <2>1. SUFFICES ASSUME Demonstrates(heard.pair, posture)
                 PROVE  Demonstrated(r.pair, r.acts)
    OBVIOUS
  <2>2. /\ r.acts = Append(Append(<<>>, Clear(g, FALSE)), ApplyFrame(p, m, g, "neutral"))
        /\ r.pair.auth = before.pair.auth /\ r.pair.member = m
    BY <1>3, <1>8, <1>9, <2>1 DEF Demonstrates
  <2>3. Append(Append(<<>>, Clear(g, FALSE)), ApplyFrame(p, m, g, "neutral"))
           = <<Clear(g, FALSE), ApplyFrame(p, m, g, "neutral")>>
    BY TwoActs
  <2> QED  BY <1>3, <1>4, <2>2, <2>3 DEF Demonstrated
<1>14. r.pair.loss = ClearPending(g) \/ r.pair.loss = before.pair.loss
  BY <1>8, <1>9
<1>15. r.pair.loss = NotLost => pairs[k].loss = NotLost
  BY <1>5, <1>14 DEF LossKept, NotLost, ClearPending
<1>20. pairs[k].loss = NotLost => r.pair.loss = NotLost
  BY <1>5, <1>7, <1>8, <1>9, <1>10 DEF LossKept, Demonstrates, NotLost
<1>16. r.pair.loss.phase = "pending" /\ r.pair.loss # pairs[k].loss => Demonstrated(r.pair, r.acts)
  BY <1>5, <1>8, <1>9, <1>13 DEF LossKept
<1>17. Sound(r.pair, CommandOnly(k))
  BY <1>3, <1>5, <1>7, <1>8, <1>9 DEF Sound, IsWatched, Watch
<1>18. Kept(pairs[k], r.pair, r.acts)
  BY <1>5, <1>8, <1>9, <1>12 DEF Kept
<1> HIDE DEF r
<1>19. Runs(pairs[k], r.pair, r.acts, CommandOnly(k), now)
  BY <1>5, <1>12, <1>15, <1>16, <1>17, <1>18, <1>20 DEF Runs, Course
<1> QED  BY <1>1, <1>3, <1>19, OneRuns DEF before

\* A pair that is left alone, and one that is revoked before any deadline.
LEMMA UntouchedRuns ==
    ASSUME RegistryInv, ActsInv, SoundInv, NEW k \in Registered
    PROVE  LET r == Fan(Untouched[k], k, Revoke(pairs[k].auth, k))
           IN  /\ Runs(pairs[k], Untouched[k].pair, Untouched[k].acts, CommandOnly(k), now)
               /\ Runs(pairs[k], r.pair, r.acts, CommandOnly(k), now)
<1> DEFINE before == Untouched[k]
           o == Revoke(pairs[k].auth, k)
           r == Fan(before, k, o)
<1>1. before.pair = pairs[k] /\ before.acts = <<>>
  BY DEF Untouched, Begin, Progress
<1>2. Agrees(pairs[k]) /\ Sound(pairs[k], CommandOnly(k))
  BY DEF RegistryInv, PairOk, SoundInv
<1>3. IsList(<<>>) /\ EngagesNone(<<>>) /\ Quiet(<<>>)
  <2>1. <<>> \in Seq({}) /\ DOMAIN <<>> = {}
    OBVIOUS
  <2> QED  BY <2>1 DEF IsList, EngagesNone, Quiet
<1>4. Tells(pairs[k].auth, o)
  BY <1>2, RevokeTells DEF Agrees
<1>5. r.pair.auth.generation # pairs[k].auth.generation
  BY UntouchedStays
<1> HIDE DEF before, o
<1>6. Open(pairs[k], before.pair, before.acts, CommandOnly(k))
  BY <1>1, <1>2, <1>3 DEF Open, LossKept, Kept
<1>7. Follows(before.pair) /\ pairs[k].auth.generation \in Nat
  BY <1>1, <1>2 DEF Agrees, Follows, IsScope
<1>8. LossKept(pairs[k], r.pair, r.acts) /\ Course(pairs[k], r.pair, r.acts, CommandOnly(k))
  BY <1>1, <1>4, <1>6, <1>7, FanCourse DEF Fan
<1>9. Runs(pairs[k], before.pair, before.acts, CommandOnly(k), now)
  BY <1>1, <1>3, <1>6 DEF Open, LossKept, Course, Runs
<1>10. Runs(pairs[k], r.pair, r.acts, CommandOnly(k), now)
  <2> HIDE DEF r
  <2> QED  BY <1>5, <1>8 DEF LossKept, Runs
<1> QED  BY <1>9, <1>10 DEF before, o

\* A device's report ends a lease as any loss does.
LEMMA DeviceRuns ==
    ASSUME RegistryInv, ActsInv, SoundInv, NEW session, NEW m, NEW g,
           DeviceAuthorityLoss(session, m, g)
    PROVE  CallRuns
<1> DEFINE k == PairOf(m)
           r == Fan(Untouched[k], k, Revoke(Untouched[k].pair.auth, k))
           progress == IF Declared(m) /\ SessionHolds(session, pairs[k], g)
                       THEN [Untouched EXCEPT ![k] = r] ELSE Untouched
<1>1. /\ Finish(progress, NoReply) /\ DOMAIN progress = Registered
  BY DEF DeviceAuthorityLoss, Untouched
<1>2. ASSUME NEW j \in Registered
      PROVE  Runs(pairs[j], progress[j].pair, progress[j].acts, CommandOnly(j), now)
  <2>1. progress[j] = Untouched[j] \/ (j = k /\ progress[j] = r)
    BY DEF Untouched
  <2>2. Untouched[j].pair = pairs[j]
    BY UntouchedStays
  <2> HIDE DEF progress
  <2>3. CASE progress[j] = Untouched[j]
    BY <2>3, UntouchedRuns
  <2>4. CASE j = k /\ progress[j] = r
    <3>1. progress[j] = Fan(Untouched[j], j, Revoke(pairs[j].auth, j))
      BY <2>2, <2>4
    <3> HIDE DEF r, k
    <3> QED  BY <3>1, UntouchedRuns
  <2> QED  BY <2>1, <2>3, <2>4
<1> HIDE DEF progress
<1> QED  BY <1>1, <1>2, FinishRuns

\* So does a refresh, which leaves nobody watched in a group that it changes.
LEMMA RefreshRuns ==
    ASSUME RegistryInv, ActsInv, SoundInv, NEW next \in Catalogs, RefreshCapabilities(next)
    PROVE  PairsRun /\ SoundInv'
<1> DEFINE Revoked(k) == Fan(Untouched[k], k, Revoke(pairs[k].auth, k))
<1>1. /\ catalog' = next
      /\ DOMAIN pairs' = Registered \cup Groups(next) /\ DOMAIN acts' = DOMAIN pairs'
      /\ \A k \in Registered \cup Groups(next) :
            LET r == IF k \in Registered
                     THEN IF k \in ChangedGroups(next) THEN Revoked(k) ELSE Untouched[k]
                     ELSE Begin(NewPair)
            IN  pairs'[k] = r.pair /\ acts'[k] = r.acts
  BY DEF RefreshCapabilities, Finish
<1>2. ASSUME NEW k, k \in Registered, k \in ChangedGroups(next)
      PROVE  /\ Runs(pairs[k], pairs'[k], acts'[k], CommandOnly(k), now)
             /\ ~ IsWatched(pairs'[k])
  <2>1. pairs'[k] = Revoked(k).pair /\ acts'[k] = Revoked(k).acts
    BY <1>1, <1>2
  <2>2. /\ Runs(pairs[k], Revoked(k).pair, Revoked(k).acts, CommandOnly(k), now)
        /\ Revoked(k).pair.holder = NoPrincipal
    BY <1>2, UntouchedRuns, UntouchedStays
  <2> HIDE DEF Revoked
  <2> QED  BY <2>1, <2>2 DEF Runs, Course, Sound, IsWatched
<1>3. ASSUME NEW k, k \in Registered, k \notin ChangedGroups(next)
      PROVE  /\ Runs(pairs[k], pairs'[k], acts'[k], CommandOnly(k), now)
             /\ Sound(pairs'[k], IsCommandOnly(next, k))
  <2>1. /\ pairs'[k] = Untouched[k].pair /\ acts'[k] = Untouched[k].acts
        /\ Untouched[k].pair = pairs[k]
    BY <1>1, <1>3, UntouchedStays
  <2>2. Runs(pairs[k], pairs'[k], acts'[k], CommandOnly(k), now)
    BY <1>3, <2>1, UntouchedRuns
  <2>3. /\ Sound(pairs[k], CommandOnly(k)) /\ PairOk(pairs[k], k, catalog, Connected)
    BY <1>3 DEF SoundInv, RegistryInv
  <2>4. ASSUME IsWatched(pairs[k])
        PROVE  pairs[k].watch.principal = pairs[k].holder /\ ~ IsCommandOnly(next, k)
    <3>1. /\ pairs[k].watch.principal = pairs[k].holder /\ ~ CommandOnly(k)
          /\ pairs[k].holder # NoPrincipal
      BY <2>3, <2>4 DEF Sound, IsWatched
    <3>2. pairs[k].member \in DOMAIN catalog /\ catalog[pairs[k].member].group = k
      BY <2>3, <3>1 DEF PairOk, BoundTo
    <3>3. PICK m \in DOMAIN catalog : catalog[m].group = k /\ catalog[m].intents
      BY <3>1, <3>2 DEF CommandOnly, IsCommandOnly, Groups
    <3>4. m \in DOMAIN next /\ next[m] = catalog[m]
      BY <1>3, <3>3 DEF ChangedGroups
    <3> QED  BY <3>1, <3>3, <3>4 DEF IsCommandOnly
  <2> QED  BY <2>1, <2>2, <2>4 DEF Sound
<1>4. ASSUME NEW k \in Groups(next), k \notin Registered
      PROVE  ~ IsWatched(pairs'[k])
  <2>1. pairs'[k] = NewPair
    BY <1>1, <1>4 DEF Begin, Progress
  <2>2. NewPair.watch = NoWatch
    BY DEF NewPair
  <2> QED  BY <2>1, <2>2 DEF IsWatched, NoWatch, Watch
<1>5. PairsRun
  BY <1>1, <1>2, <1>3 DEF PairsRun
<1>6. SoundInv'
  <2>1. \A k : CommandOnly(k)' = IsCommandOnly(next, k)
    BY <1>1 DEF CommandOnly
  <2>2. \A k \in Registered \cup Groups(next) : Sound(pairs'[k], IsCommandOnly(next, k))
    BY <1>2, <1>3, <1>4 DEF Sound
  <2> QED  BY <1>1, <2>1, <2>2 DEF SoundInv, Registered
<1> QED  BY <1>5, <1>6

\* The clock leaves every pair on its course.
LEMMA ClockRuns ==
    ASSUME RegistryInv, ActsInv, SoundInv, Tick
    PROVE  CallRuns
<1>1. /\ pairs' = pairs /\ DOMAIN acts' = Registered
      /\ \A k \in Registered : acts'[k] = <<>>
  BY DEF Tick
<1>2. IsList(<<>>) /\ EngagesNone(<<>>) /\ Quiet(<<>>)
  <2>1. <<>> \in Seq({}) /\ DOMAIN <<>> = {}
    OBVIOUS
  <2> QED  BY <2>1 DEF IsList, EngagesNone, Quiet
<1>3. ASSUME NEW k \in Registered
      PROVE  Runs(pairs[k], pairs[k], <<>>, CommandOnly(k), now)
  BY <1>2 DEF SoundInv, Runs, Course, Kept
<1> QED  BY <1>1, <1>3 DEF CallRuns, PairsRun, Registered

\* Pairs on their course are watched as they should be, and the catalog does
\* not tell otherwise.
LEMMA CallIsSound ==
    ASSUME CallRuns, UNCHANGED catalog
    PROVE  PairsRun /\ SoundInv'
<1>1. \A k : CommandOnly(k)' = CommandOnly(k)
  BY DEF CommandOnly, IsCommandOnly
<1>2. \A k \in Registered : Sound(pairs'[k], CommandOnly(k))
  BY DEF CallRuns, PairsRun, Runs, Course
<1>3. Registered' = Registered
  BY DEF CallRuns, Registered
<1> QED  BY <1>1, <1>2, <1>3 DEF CallRuns, SoundInv

\* Every call but a refresh leaves the pairs as they are registered, on their course.
LEMMA NextKeepsPairs ==
    ASSUME RegistryInv, ActsInv, SoundInv, Next, ~ \E k \in Registered : Confirm(k),
           ~ \E next \in Catalogs : RefreshCapabilities(next)
    PROVE  CallRuns /\ UNCHANGED catalog /\ Registered' = Registered
<1>1. ASSUME NEW c \in Clients, ClientCall(c)
      PROVE  CallRuns /\ UNCHANGED catalog
  <2>1. CASE Hello(c) \/ Premature(c) \/ ProfileActivation(c) \/ Refuse(c)
             \/ \E m \in Members : TransferRequest(c, m)
    <3>1. Finish(Overdue, NoReply) /\ UNCHANGED catalog
      BY <2>1 DEF Hello, Premature, ProfileActivation, Refuse, TransferRequest, Judged
    <3> QED  BY <3>1, OverdueFinishRuns
  <2>2. CASE Disconnect(c)
    BY <2>2, DisconnectRuns DEF Disconnect
  <2>3. CASE \E m \in Members : Lease(c, m)
    BY <2>3, LeaseRuns DEF Lease
  <2>4. CASE \E m \in Members : ReleaseLease(c, m)
    BY <2>4, ReleaseRuns DEF ReleaseLease
  <2>5. CASE \E m \in Members : TransferAccept(c, m)
    BY <2>5, AcceptRuns DEF TransferAccept
  <2>6. CASE \E m \in Members : \E q \in Principals : TransferOffer(c, m, q)
    BY <2>6, OfferRuns DEF TransferOffer
  <2>7. CASE \E m \in Members : \E g \in 0..MaxGeneration : ActionCommand(c, m, g)
    BY <2>7, CommandRuns DEF ActionCommand
  <2>8. CASE \E m \in Members : \E g \in 0..MaxGeneration :
                \E n \in 0..(SequenceSize - 1), posture \in {"neutral", "driving"} :
                   Frame(c, m, g, n, posture)
    BY <2>8, FrameRuns DEF Frame
  <2> QED
    BY <1>1, <2>1, <2>2, <2>3, <2>4, <2>5, <2>6, <2>7, <2>8 DEF ClientCall
<1>2. ASSUME HandleTick
      PROVE  CallRuns /\ UNCHANGED catalog
  BY <1>2, RetryRuns DEF HandleTick
<1>3. ASSUME NEW session \in Principals, NEW m \in Members, NEW g \in 0..MaxGeneration,
             DeviceAuthorityLoss(session, m, g)
      PROVE  CallRuns /\ UNCHANGED catalog
  BY <1>3, DeviceRuns DEF DeviceAuthorityLoss
<1>4. ASSUME Tick
      PROVE  CallRuns /\ UNCHANGED catalog
  BY <1>4, ClockRuns DEF Tick
<1>5. CallRuns /\ UNCHANGED catalog
  BY <1>1, <1>2, <1>3, <1>4 DEF Next, DriverCall
<1> QED  BY <1>5 DEF CallRuns, Registered

\* Every step but a confirmation leaves the pairs on their course.
LEMMA NextRuns ==
    ASSUME RegistryInv, ActsInv, SoundInv, Next, ~ \E k \in Registered : Confirm(k)
    PROVE  PairsRun /\ SoundInv'
BY RefreshRuns, NextKeepsPairs, CallIsSound

\* The steps that the three properties of a link loss speak of.
EngagesStep ==
    \/ \E k \in Registered : Confirm(k)
    \/ \A k \in Registered :
          LET pair == pairs[k]
              before == EffectiveHolder(pair.auth)
              g == pair.auth.generation
              handedOver == /\ pairs'[k].auth.generation = g + 1
                            /\ EffectiveHolder(pairs'[k].auth) # NoPrincipal
              lost == /\ before # NoPrincipal
                      /\ pairs'[k].auth.generation # g
                      /\ ~ handedOver
                      /\ ~ CommandOnly(k)
              engages == ActsOf(acts'[k], "engage")
          IN  /\ Cardinality(engages) = IF lost THEN 1 ELSE 0
              /\ \A i \in engages : acts'[k][i].generation = g + 1
              /\ lost => pairs'[k].loss = Engaged

DeadlineStep ==
    \A k \in Registered :
       IsSilent(pairs[k], now) =>
          LET g == pairs[k].auth.generation
          IN  /\ pairs'[k].auth.generation = g => pairs'[k].watch = pairs[k].watch
              /\ \A i \in ActsOf(acts'[k], "apply") : acts'[k][i].generation # g

RecoveryStep ==
    \A k \in Registered :
       LET loss == pairs[k].loss
           after == pairs'[k]
           g == after.auth.generation
       IN  /\ loss # NotLost /\ after.loss = NotLost => loss = ClearPending(g)
           /\ after.loss.phase = "pending" /\ after.loss # loss =>
                 acts'[k] = <<Clear(g, FALSE),
                              ApplyFrame(EffectiveHolder(after.auth), after.member,
                                         g, "neutral")>>

\* A pair on its course engages its policy if it loses its lease, once.
LEMMA CourseEngages ==
    ASSUME RegistryInv, PairsRun
    PROVE  EngagesStep
<1>1. SUFFICES ASSUME NEW k \in Registered
               PROVE  LET g == pairs[k].auth.generation
                          handedOver == /\ pairs'[k].auth.generation = g + 1
                                        /\ EffectiveHolder(pairs'[k].auth) # NoPrincipal
                          lost == /\ EffectiveHolder(pairs[k].auth) # NoPrincipal
                                  /\ pairs'[k].auth.generation # g
                                  /\ ~ handedOver
                                  /\ ~ CommandOnly(k)
                          engages == ActsOf(acts'[k], "engage")
                      IN  /\ Cardinality(engages) = IF lost THEN 1 ELSE 0
                          /\ \A i \in engages : acts'[k][i].generation = g + 1
                          /\ lost => pairs'[k].loss = Engaged
  BY DEF EngagesStep
<1> DEFINE l == acts'[k]
           after == pairs'[k]
           g == pairs[k].auth.generation
           handedOver == after.auth.generation = g + 1 /\ EffectiveHolder(after.auth) # NoPrincipal
           lost == /\ EffectiveHolder(pairs[k].auth) # NoPrincipal
                   /\ after.auth.generation # g
                   /\ ~ handedOver
                   /\ ~ CommandOnly(k)
           engages == ActsOf(l, "engage")
           Right == /\ Cardinality(engages) = IF lost THEN 1 ELSE 0
                    /\ \A i \in engages : l[i].generation = g + 1
                    /\ lost => after.loss = Engaged
<1>2. Course(pairs[k], after, l, CommandOnly(k))
  BY DEF PairsRun, Runs
<1> HIDE DEF after, l
<1>3. ASSUME EngagesNone(l), ~ lost  PROVE  Right
  <2>1. engages = {}
    BY <1>3 DEF EngagesNone, ActsOf
  <2>2. Cardinality({}) = 0
    BY FS_EmptySet
  <2> HIDE DEF lost
  <2> QED  BY <1>3, <2>1, <2>2
<1>4. ASSUME EngagesOnce(l, g + 1), lost, after.loss = Engaged  PROVE  Right
  <2>1. PICK i \in DOMAIN l : /\ l[i].kind = "engage" /\ l[i].generation = g + 1
                              /\ \A j \in DOMAIN l : l[j].kind = "engage" => j = i
    BY <1>4 DEF EngagesOnce
  <2>2. engages = {i}
    BY <2>1 DEF ActsOf
  <2>3. Cardinality({i}) = 1
    BY FS_Singleton
  <2> HIDE DEF lost, engages
  <2> QED  BY <1>4, <2>1, <2>2, <2>3
<1> HIDE DEF Right
<1>5. Right
  <2>1. CASE Kept(pairs[k], after, l)
    BY <1>3, <2>1 DEF Kept
  <2>2. CASE Passed(pairs[k], after, l)
    BY <1>3, <2>2 DEF Passed
  <2>3. CASE Freed(pairs[k], after, l)
    BY <1>3, <2>3 DEF Freed
  <2>4. CASE Ended(pairs[k], after, l, CommandOnly(k))
    <3>1. CASE CommandOnly(k)
      BY <1>3, <2>4, <3>1 DEF Ended
    <3>2. CASE ~ CommandOnly(k)
      <4>1. /\ EffectiveHolder(pairs[k].auth) # NoPrincipal /\ ~ handedOver
            /\ EngagesOnce(l, g + 1) /\ after.loss = Engaged
        BY <2>4, <3>2 DEF Ended
      <4>2. CASE after.auth.generation # g
        BY <1>4, <3>2, <4>1, <4>2
      <4>3. after.auth.generation # g
        <5>1. g \in Nat
          BY DEF RegistryInv, PairOk, Agrees, IsScope
        <5> QED  BY <2>4, <5>1 DEF Ended
      <4> QED  BY <4>2, <4>3
    <3> QED  BY <3>1, <3>2
  <2> QED  BY <1>2, <2>1, <2>2, <2>3, <2>4 DEF Course
<1> QED  BY <1>5 DEF Right, after, l

\* A pair on its course keeps its deadline, and its loss until it is cleared.
LEMMA CourseIsKept ==
    ASSUME PairsRun, ActsInv'
    PROVE  DeadlineStep /\ RecoveryStep
<1>1. ASSUME NEW k \in Registered
      PROVE  /\ Runs(pairs[k], pairs'[k], acts'[k], CommandOnly(k), now)
             /\ ActsOk(pairs'[k], acts'[k], now', catalog')
  BY DEF PairsRun, ActsInv, Registered
<1>2. DeadlineStep
  BY <1>1 DEF DeadlineStep, Runs, ActsOk, ActsOf, Quiet
<1>3. RecoveryStep
  BY <1>1 DEF RecoveryStep, Runs, Demonstrated
<1> QED  BY <1>2, <1>3

\* A confirmation ends the loss that the lease in force demonstrated.
LEMMA ConfirmRecovers ==
    ASSUME RegistryInv, ActsInv, SoundInv, NEW k \in Registered, Confirm(k), ActsInv'
    PROVE  SoundInv' /\ DeadlineStep /\ RecoveryStep
<1>1. PICK i \in DOMAIN acts[k] :
          /\ acts[k][i].kind = "clear"
          /\ pairs' = [pairs EXCEPT ![k] = ConfirmCleared(@, acts[k][i].generation)]
  BY DEF Confirm
<1> DEFINE after == ConfirmCleared(pairs[k], acts[k][i].generation)
<1>2. /\ UNCHANGED <<now, catalog>> /\ DOMAIN pairs' = Registered
      /\ pairs'[k] = after /\ \A j \in Registered \ {k} : pairs'[j] = pairs[j]
  BY <1>1 DEF Confirm, Registered
<1>3. /\ Agrees(pairs[k]) /\ LossOk(pairs[k], catalog) /\ ActsOk(pairs[k], acts[k], now, catalog)
  BY DEF RegistryInv, PairOk, ActsInv
<1>4. pairs[k].loss = ClearPending(acts[k][i].generation)
  BY <1>1, <1>3 DEF ActsOk
<1>5. /\ after.auth = pairs[k].auth /\ after.holder = pairs[k].holder
      /\ after.watch = pairs[k].watch /\ after.loss = NotLost
  BY <1>3, <1>4 DEF ConfirmCleared, Agrees
<1> HIDE DEF after
<1>6. \A j \in Registered : /\ pairs'[j].auth = pairs[j].auth
                            /\ pairs'[j].holder = pairs[j].holder
                            /\ pairs'[j].watch = pairs[j].watch
  BY <1>2, <1>5
<1>7. SoundInv'
  <2>1. \A j : CommandOnly(j)' = CommandOnly(j)
    BY <1>2 DEF CommandOnly, IsCommandOnly
  <2>2. Registered' = Registered
    BY <1>2 DEF Registered
  <2> QED  BY <1>6, <2>1, <2>2 DEF SoundInv, Sound, IsWatched
<1>8. DeadlineStep
  <2>1. ASSUME NEW j \in Registered, IsSilent(pairs[j], now), NEW n \in ActsOf(acts'[j], "apply")
        PROVE  FALSE
    <3>1. ActsOk(pairs'[j], acts'[j], now, catalog) /\ IsSilent(pairs'[j], now)
      BY <1>2, <1>6, <2>1 DEF ActsInv, Registered, IsSilent, IsWatched
    <3> QED  BY <2>1, <3>1 DEF ActsOk, ActsOf
  <2> QED  BY <1>6, <2>1 DEF DeadlineStep
<1>9. RecoveryStep
  <2>1. pairs[k].loss = ClearPending(pairs'[k].auth.generation)
    BY <1>2, <1>3, <1>4, <1>5 DEF LossOk, ClearPending
  <2>2. pairs'[k].loss = NotLost /\ NotLost.phase # "pending"
    BY <1>2, <1>5 DEF NotLost
  <2>3. \A j \in Registered \ {k} : pairs'[j].loss = pairs[j].loss
    BY <1>2
  <2> QED  BY <2>1, <2>2, <2>3 DEF RecoveryStep
<1> QED  BY <1>7, <1>8, <1>9

\* A link loss engages the policy once, a deadline that has passed has passed,
\* and only a demonstration under the lease in force ends a loss.
THEOREM LossesRun == HolderSilence > 0 => (Spec => LossesRunTheirCourse)
<1> SUFFICES ASSUME HolderSilence > 0  PROVE  Spec => LossesRunTheirCourse
  OBVIOUS
<1> DEFINE IInv == RegistryInv /\ ActsInv /\ SoundInv
<1>1. Init => IInv
  <2>1. SUFFICES ASSUME Init  PROVE  IInv
    OBVIOUS
  <2>2. \A k \in Registered : pairs[k] = NewPair
    BY <2>1 DEF Init, Registered
  <2>3. NewPair.watch = NoWatch
    BY DEF NewPair
  <2>4. SoundInv
    BY <2>2, <2>3 DEF SoundInv, Sound, IsWatched, NoWatch, Watch
  <2> QED  BY <2>1, <2>4, InitIsOk, InitSettles
<1>2. ASSUME IInv, [Next]_vars
      PROVE  IInv' /\ [EngagesStep]_vars /\ [DeadlineStep]_vars /\ [RecoveryStep]_vars
  <2>1. RegistryInv' /\ ActsInv'
    BY <1>2, NextStays, NextSettles
  <2>2. CASE UNCHANGED vars
    <3>1. SoundInv'
      BY <1>2, <2>2 DEF vars, SoundInv, Registered, CommandOnly
    <3> QED  BY <2>1, <2>2, <3>1
  <2>3. CASE \E k \in Registered : Confirm(k)
    <3>1. SoundInv' /\ DeadlineStep /\ RecoveryStep
      BY <1>2, <2>1, <2>3, ConfirmRecovers
    <3>2. EngagesStep
      BY <2>3 DEF EngagesStep
    <3> QED  BY <2>1, <3>1, <3>2
  <2>4. CASE Next /\ ~ \E k \in Registered : Confirm(k)
    <3>1. PairsRun /\ SoundInv'
      BY <1>2, <2>4, NextRuns
    <3> QED  BY <1>2, <2>1, <3>1, CourseEngages, CourseIsKept
  <2> QED  BY <1>2, <2>2, <2>3, <2>4
<1> HIDE DEF IInv
<1>3. Spec => [][EngagesStep]_vars
  BY <1>1, <1>2, PTL DEF Spec
<1>4. Spec => [][DeadlineStep]_vars
  BY <1>1, <1>2, PTL DEF Spec
<1>5. Spec => [][RecoveryStep]_vars
  BY <1>1, <1>2, PTL DEF Spec
<1> QED
  BY <1>3, <1>4, <1>5
  DEF LossesRunTheirCourse, LossEngagesOnce, DeadlineIsFinal, RecoveryIsDemonstrated,
      EngagesStep, DeadlineStep, RecoveryStep

-----------------------------------------------------------------------------
(* What a client is told.                                                  *)

\* The pair is leased to the client for the member, at the generation.
StandsAt(pair, c, m, g) ==
    /\ pair.auth.generation = g
    /\ EffectiveHolder(pair.auth) = Principal(c)
    /\ pair.member = m

\* An answer that says of the pairs it leaves what is so.
LEMMA AnswerIsTrue ==
    ASSUME NEW progress, NEW c, NEW kind, NEW m, NEW g,
           Finish(progress, Answer(c, kind, m, g)),
           UNCHANGED <<now, catalog, clients, nextPrincipal>>,
           kind = "granted" <=> /\ PairOf(m) \in DOMAIN progress
                                /\ StandsAt(progress[PairOf(m)].pair, c, m, g)
    PROVE  RepliesAreTrue'
<1>1. /\ reply' = Answer(c, kind, m, g)
      /\ DOMAIN pairs' = DOMAIN progress
      /\ \A k \in DOMAIN progress : pairs'[k] = progress[k].pair
  BY DEF Finish
<1>2. /\ reply'.client = c /\ reply'.kind = kind /\ reply'.member = m
      /\ reply'.generation = g
  BY <1>1 DEF Answer
<1>3. (kind = "granted") <=> /\ PairOf(m) \in DOMAIN pairs'
                             /\ pairs'[PairOf(m)].auth.generation = g
                             /\ EffectiveHolder(pairs'[PairOf(m)].auth) = clients[c].principal
                             /\ pairs'[PairOf(m)].member = m
  BY <1>1 DEF StandsAt, Principal
<1> QED  BY <1>2, <1>3 DEF RepliesAreTrue, Registered, PairOf, Declared, Principal

\* Nothing is said.
LEMMA SilenceIsTrue ==
    ASSUME reply' = NoReply
    PROVE  RepliesAreTrue'
BY DEF RepliesAreTrue

\* After the deadlines the registry still answers for the authority engine.
LEMMA OverdueStands ==
    ASSUME RegistryInv, NEW k \in Registered, NEW c, NEW m, NEW g
    PROVE  LET pair == Overdue[k].pair
           IN  /\ StandsAt(pair, c, m, pair.generation) <=> StandingGrant(pair, Principal(c), m)
               /\ StandsAt(pair, c, m, g) => StandingGrant(pair, Principal(c), m)
               /\ BoundTo(pair, k, catalog)
               /\ pair.holder = EffectiveHolder(pair.auth)
<1>1. Agrees(Overdue[k].pair) /\ BoundTo(Overdue[k].pair, k, catalog)
  BY OverdueStays DEF Stays, PairOk
<1> QED  BY <1>1 DEF Agrees, StandsAt, StandingGrant

\* A lease is granted or it is denied, and is what it is called.
LEMMA LeaseIsTold ==
    ASSUME RegistryInv, NEW c, NEW m \in Members, Lease(c, m)
    PROVE  RepliesAreTrue'
<1> DEFINE k == PairOf(m)
           p == Principal(c)
           r == Overdue[k]
           o == Grant(r.pair.auth, k, p)
           fanned == Fan(r, k, o)
           bound == [fanned EXCEPT !.pair.member = m]
<1>1. p \in Principals /\ p # NoPrincipal
  BY NoPrincipalAssumption DEF Lease, Welcomed, RegistryInv, ClientsOk
<1>2. UNCHANGED <<now, catalog, clients, nextPrincipal>>
  BY DEF Lease
<1>3. DOMAIN Overdue = Registered
  BY DEF Overdue
<1>4. CASE ~ Declared(m)
  <2>1. Finish(Overdue, Answer(c, "denied", m, 0))
    BY <1>4 DEF Lease
  <2>2. ASSUME k \in Registered, StandsAt(Overdue[k].pair, c, m, 0)  PROVE  FALSE
    <3>1. BoundTo(Overdue[k].pair, k, catalog) /\ Overdue[k].pair.member = m
      BY <2>2, OverdueStands DEF StandsAt
    <3> QED  BY <1>4, <3>1, NoMemberAssumption DEF BoundTo, Declared
  <2> QED  BY <1>2, <1>3, <2>1, <2>2, AnswerIsTrue
<1>5. CASE Declared(m) /\ r.pair.holder # NoPrincipal
  <2>1. Finish(Overdue, Answer(c, IF StandingGrant(r.pair, p, m) THEN "granted" ELSE "denied",
                               m, r.pair.generation))
    BY <1>5 DEF Lease
  <2>2. k \in Registered
    BY <1>5, DeclaredIsRegistered
  <2>3. StandsAt(r.pair, c, m, r.pair.generation) <=> StandingGrant(r.pair, p, m)
    BY <2>2, OverdueStands
  <2> QED  BY <1>2, <1>3, <2>1, <2>2, <2>3, AnswerIsTrue
<1>6. CASE Declared(m) /\ r.pair.holder = NoPrincipal
  <2>1. k \in Registered /\ m \in DOMAIN catalog /\ catalog[m].group = k
    BY <1>6, DeclaredIsRegistered
  <2>2. Agrees(r.pair) /\ DOMAIN r = {"pair", "acts"} /\ IsScope(r.pair.auth)
    BY <2>1, OverdueStays DEF Agrees
  <2>3. o.effect.kind = "granted"
    BY <1>6, <2>2 DEF Agrees, Grant, Install, Outcome, Change
  <2>4. Tells(r.pair.auth, o) /\ EffectiveHolder(o.state) = p
    BY <1>1, <2>2, <2>3, GrantTells
  <2>5. Finish([Overdue EXCEPT ![k] = bound], Answer(c, "granted", m, bound.pair.generation))
    BY <1>6, <2>3 DEF Lease
  <2> DEFINE progress == [Overdue EXCEPT ![k] = bound]
  <2>6. DOMAIN progress = Registered /\ progress[k] = bound
    BY <1>3, <2>1
  <2>7. Finish(progress, Answer(c, "granted", m, bound.pair.generation))
    BY <2>5
  <2> HIDE DEF o, r, progress
  <2>8. Agrees(fanned.pair) /\ fanned.pair.holder = p /\ DOMAIN fanned = {"pair", "acts"}
    BY <2>2, <2>4, FanAgrees, FanIsProgress DEF Fan
  <2> HIDE DEF fanned
  <2>9. StandsAt(bound.pair, c, m, bound.pair.generation)
    BY <2>8 DEF Agrees, StandsAt
  <2> HIDE DEF bound
  <2> QED  BY <1>2, <2>1, <2>6, <2>7, <2>9, AnswerIsTrue
<1> QED  BY <1>4, <1>5, <1>6

\* A release is told to its holder, and to nobody else.
LEMMA ReleaseIsTold ==
    ASSUME RegistryInv, NEW c, NEW m \in Members, ReleaseLease(c, m)
    PROVE  RepliesAreTrue'
<1> DEFINE k == PairOf(m)
           p == Principal(c)
           o == Release(Overdue[k].pair.auth, k, p)
           r == Fan(Overdue[k], k, o)
           after == [Overdue EXCEPT ![k] = Fan(@, k, o)]
<1>1. p \in Principals /\ p # NoPrincipal
  BY NoPrincipalAssumption DEF ReleaseLease, Welcomed, RegistryInv, ClientsOk
<1>2. UNCHANGED <<now, catalog, clients, nextPrincipal>>
  BY DEF ReleaseLease
<1>3. DOMAIN Overdue = Registered
  BY DEF Overdue
<1>4. CASE k \in Registered /\ o.effect.kind = "revoked"
  <2>1. Finish(after, Answer(c, "released", m, GenerationOf(after, k)))
    BY <1>4 DEF ReleaseLease
  <2>2. Agrees(Overdue[k].pair) /\ IsScope(Overdue[k].pair.auth)
    BY <1>4, OverdueStays DEF Agrees
  <2>3. Tells(Overdue[k].pair.auth, o)
    BY <2>2, ReleaseTells
  <2>4. DOMAIN after = Registered /\ after[k] = r
    BY <1>3, <1>4
  <2> HIDE DEF o, after
  <2>5. EffectiveHolder(r.pair.auth) = NoPrincipal
    BY <1>4, <2>2, <2>3, FanAgrees DEF Fan, Tells
  <2> HIDE DEF r
  <2>6. ~ StandsAt(after[k].pair, c, m, GenerationOf(after, k))
    BY <1>1, <2>4, <2>5 DEF StandsAt
  <2> QED  BY <1>2, <2>1, <2>6, AnswerIsTrue
<1>5. CASE ~ (k \in Registered /\ o.effect.kind = "revoked")
  <2>1. Finish(Overdue, Answer(c, "notReleased", m, GenerationOf(Overdue, k)))
    BY <1>5 DEF ReleaseLease
  <2>2. ASSUME k \in Registered, StandsAt(Overdue[k].pair, c, m, GenerationOf(Overdue, k))
        PROVE  FALSE
    <3>1. o.effect.kind = "revoked"
      BY <2>2 DEF StandsAt, Release, Install, Outcome, Change
    <3> QED  BY <1>5, <2>2, <3>1
  <2> QED  BY <1>2, <1>3, <2>1, <2>2, AnswerIsTrue
<1> QED  BY <1>4, <1>5

\* No other call says anything of a lease.
LEMMA NextIsTold ==
    ASSUME RegistryInv, RepliesAreTrue, [Next]_vars
    PROVE  RepliesAreTrue'
<1>1. CASE UNCHANGED vars
  BY <1>1 DEF vars, RepliesAreTrue, PairOf, Declared, Registered, Principal
<1>2. ASSUME NEW c \in Clients, ClientCall(c)  PROVE  RepliesAreTrue'
  <2>1. CASE Hello(c) \/ Premature(c) \/ Disconnect(c) \/ ProfileActivation(c) \/ Refuse(c)
    BY <2>1, SilenceIsTrue
       DEF Hello, Premature, Disconnect, ProfileActivation, Refuse, Finish
  <2>2. CASE \E m \in Members : Lease(c, m) \/ ReleaseLease(c, m)
    BY <2>2, LeaseIsTold, ReleaseIsTold, SMTT(30)
  <2>3. CASE \E m \in Members : \/ TransferRequest(c, m) \/ TransferAccept(c, m)
                                \/ \E q \in Principals : TransferOffer(c, m, q)
    BY <2>3, SilenceIsTrue DEF TransferRequest, TransferAccept, TransferOffer, Finish
  <2>4. CASE \E m \in Members : \E g \in 0..MaxGeneration :
                \/ ActionCommand(c, m, g)
                \/ \E n \in 0..(SequenceSize - 1), posture \in {"neutral", "driving"} :
                      Frame(c, m, g, n, posture)
    BY <2>4, SilenceIsTrue DEF ActionCommand, Frame, Finish
  <2> QED  BY <1>2, <2>1, <2>2, <2>3, <2>4 DEF ClientCall
<1>3. CASE DriverCall
  BY <1>3, SilenceIsTrue
     DEF DriverCall, HandleTick, DeviceAuthorityLoss, RefreshCapabilities, Finish
<1>4. CASE (\E k \in Registered : Confirm(k)) \/ Tick
  BY <1>4, SilenceIsTrue DEF Confirm, Tick
<1> QED  BY <1>1, <1>2, <1>3, <1>4 DEF Next

\* What a client is told of its lease is so, whatever deadlines passed with its
\* message.
THEOREM RepliesTrue == Spec => []RepliesAreTrue
<1>1. Init => RegistryInv /\ RepliesAreTrue
  BY InitIsOk DEF Init, RepliesAreTrue
<1>2. RegistryInv /\ RepliesAreTrue /\ [Next]_vars => RegistryInv' /\ RepliesAreTrue'
  BY NextStays, NextIsTold
<1> QED  BY <1>1, <1>2, PTL DEF Spec

-----------------------------------------------------------------------------
(* The actor and its adapter.                                              *)

\* Nobody's setpoint is in force on a pair that is not lost, least of all on a
\* command-only group, which no loss would latch.
Driven(pair, stored, commandOnly) ==
    stored.posture = "driving" =>
        pair.loss # NotLost \/ (EffectiveHolder(pair.auth) # NoPrincipal /\ ~ commandOnly)

\* An engagement that is still to be enacted is that of the loss, and without
\* one the adapter is latched exactly while the pair is lost.
Latched(pair, l, latched) ==
    IF EngagesNone(l) THEN latched = (pair.loss # NotLost) ELSE pair.loss = Engaged

\* Whoever was told that its pair is clear had a lease that is over, or one that
\* lost nothing since.
AcksOk(acks, k, pair) ==
    \A g : <<k, g>> \in acks =>
        /\ g \in Nat /\ g <= pair.auth.generation
        /\ pair.loss # NotLost => g < pair.auth.generation

PairHosted(k) ==
    /\ Driven(pairs[k], control[k], CommandOnly(k))
    /\ Latched(pairs[k], acts[k], latch[k])
    /\ AcksOk(acked, k, pairs[k])

HostInv ==
    /\ RegistryInv /\ ActsInv /\ SoundInv
    /\ Registered \subseteq Scopes
    /\ latch \in [Scopes -> BOOLEAN] /\ control = [k \in Scopes |-> control[k]]
    /\ \A k \in Registered : PairHosted(k)
    /\ \A k \in Scopes \ Registered :
          /\ ~ latch[k] /\ control[k] = Neutral
          /\ \A g : <<k, g>> \notin acked

\* The groups of a catalog are scopes.
LEMMA GroupsAreScopes ==
    ASSUME NEW c \in Catalogs
    PROVE  Groups(c) \subseteq Scopes
BY CatalogsAssumption DEF Groups

\* A call keeps a pair and its adapter in step.
LEMMA CallKeepsLatch ==
    ASSUME NEW before, NEW after, NEW l, NEW commandOnly, NEW t,
           Runs(before, after, l, commandOnly, t),
           NEW latched, Latched(before, <<>>, latched)
    PROVE  Latched(after, l, latched)
<1>1. EngagesNone(<<>>)
  <2>1. DOMAIN <<>> = {}
    OBVIOUS
  <2> QED  BY <2>1 DEF EngagesNone
<1>2. latched = (before.loss # NotLost)
  BY <1>1 DEF Latched
<1>3. CASE EngagesNone(l)
  <2>1. (before.loss = NotLost) <=> (after.loss = NotLost)
    BY <1>3 DEF Runs
  <2> QED  BY <1>2, <1>3, <2>1 DEF Latched
<1>4. CASE ~ EngagesNone(l)
  <2>1. Ended(before, after, l, commandOnly)
    BY <1>4 DEF Runs, Course, Kept, Passed, Freed
  <2> QED  BY <1>4, <2>1 DEF Ended, Latched
<1> QED  BY <1>3, <1>4

\* A call takes no pair from its driver without a loss.
LEMMA CallKeepsDriver ==
    ASSUME NEW before, NEW after, NEW l, NEW commandOnly, NEW t,
           Runs(before, after, l, commandOnly, t),
           NEW stored, Driven(before, stored, commandOnly)
    PROVE  Driven(after, stored, commandOnly)
<1>1. SUFFICES ASSUME stored.posture = "driving", after.loss = NotLost
               PROVE  EffectiveHolder(after.auth) # NoPrincipal /\ ~ commandOnly
  BY DEF Driven
<1>2. before.loss = NotLost
  BY <1>1 DEF Runs
<1>3. EffectiveHolder(before.auth) # NoPrincipal /\ ~ commandOnly
  BY <1>1, <1>2 DEF Driven
<1>4. ~ Ended(before, after, l, commandOnly)
  BY <1>1, <1>3 DEF Ended, Engaged, NotLost
<1> QED  BY <1>3, <1>4 DEF Runs, Course, Kept, Passed, Freed

\* A call takes no ack back.
LEMMA CallKeepsAcks ==
    ASSUME NEW before, before.auth.generation \in Nat,
           NEW after, after.auth.generation \in Nat, NEW l, NEW commandOnly, NEW t,
           Runs(before, after, l, commandOnly, t),
           NEW acks, NEW k, AcksOk(acks, k, before)
    PROVE  AcksOk(acks, k, after)
<1> SUFFICES ASSUME NEW g, <<k, g>> \in acks
             PROVE  /\ g \in Nat /\ g <= after.auth.generation
                    /\ after.loss # NotLost => g < after.auth.generation
  BY DEF AcksOk
<1>1. /\ g \in Nat /\ g <= before.auth.generation
      /\ before.loss # NotLost => g < before.auth.generation
  BY DEF AcksOk
<1>2. CASE Kept(before, after, l) \/ Freed(before, after, l)
  <2>1. after.auth.generation >= before.auth.generation /\ EngagesNone(l)
    BY <1>2 DEF Kept, Freed
  <2>2. before.loss = NotLost => after.loss = NotLost
    BY <2>1 DEF Runs
  <2> QED  BY <1>1, <2>1, <2>2
<1>3. CASE Ended(before, after, l, commandOnly) \/ Passed(before, after, l)
  <2>1. after.auth.generation > before.auth.generation
    BY <1>3 DEF Ended, Passed
  <2> QED  BY <1>1, <2>1
<1> QED  BY <1>2, <1>3 DEF Runs, Course

\* Between calls nothing is left to be said, so none of it is confirmed.
LEMMA IdleIsQuiet ==
    ASSUME Idle
    PROVE  /\ \A k \in Registered : acts[k] = <<>>
           /\ ~ \E k \in Registered : Confirm(k)
<1>1. DOMAIN <<>> = {}
  OBVIOUS
<1> QED  BY <1>1 DEF Idle, Confirm

\* A refresh that leaves a group command-only found its pair lost, or nobody's,
\* or made it so.
LEMMA RefreshKeepsDriver ==
    ASSUME RegistryInv, ActsInv, SoundInv, NEW next \in Catalogs, RefreshCapabilities(next),
           NEW k \in Registered, NEW stored, Driven(pairs[k], stored, CommandOnly(k))
    PROVE  Driven(pairs'[k], stored, CommandOnly(k)')
<1>1. Runs(pairs[k], pairs'[k], acts'[k], CommandOnly(k), now)
  BY RefreshRuns DEF PairsRun
<1>2. Driven(pairs'[k], stored, CommandOnly(k))
  BY <1>1, CallKeepsDriver
<1>3. SUFFICES ASSUME stored.posture = "driving", pairs'[k].loss = NotLost
               PROVE  ~ IsCommandOnly(next, k)
  <2>1. CommandOnly(k)' = IsCommandOnly(next, k)
    BY DEF CommandOnly, RefreshCapabilities
  <2> QED  BY <1>2, <1>3, <2>1 DEF Driven
<1>4. pairs[k].loss = NotLost
  BY <1>1, <1>3 DEF Runs
<1>5. EffectiveHolder(pairs[k].auth) # NoPrincipal /\ ~ CommandOnly(k)
  BY <1>3, <1>4 DEF Driven
<1>6. pairs[k].member \in DOMAIN catalog /\ catalog[pairs[k].member].group = k
  BY <1>5 DEF RegistryInv, PairOk, Agrees, BoundTo
<1>7. PICK m \in DOMAIN catalog : catalog[m].group = k /\ catalog[m].intents
  BY <1>5, <1>6 DEF CommandOnly, IsCommandOnly, Groups
<1>8. k \notin ChangedGroups(next)
  <2>1. SUFFICES ASSUME k \in ChangedGroups(next)  PROVE  FALSE
    OBVIOUS
  <2>2. pairs'[k] = Fan(Untouched[k], k, Revoke(pairs[k].auth, k)).pair
    BY <2>1 DEF RefreshCapabilities, Finish
  <2>3. /\ pairs'[k].holder = NoPrincipal /\ Agrees(pairs'[k])
        /\ pairs'[k].auth.generation # pairs[k].auth.generation
    BY <2>2, UntouchedStays DEF Lasts
  <2>4. EffectiveHolder(pairs'[k].auth) = NoPrincipal
    BY <2>3 DEF Agrees
  <2>5. Ended(pairs[k], pairs'[k], acts'[k], CommandOnly(k))
    BY <1>1, <1>5, <2>3, <2>4 DEF Runs, Course, Kept, Passed, Freed
  <2> QED  BY <1>3, <1>5, <2>5 DEF Ended, Engaged, NotLost
<1>9. m \in DOMAIN next /\ next[m] = catalog[m]
  BY <1>7, <1>8 DEF ChangedGroups
<1> QED  BY <1>7, <1>9 DEF IsCommandOnly

\* A call that the actor makes between two turns.
LEMMA CallIsHosted ==
    ASSUME HolderSilence > 0, HostInv, Idle, Next, UNCHANGED <<latch, control, acked>>
    PROVE  HostInv'
<1>1. ~ \E k \in Registered : Confirm(k)
  BY IdleIsQuiet
<1>2. RegistryInv' /\ ActsInv'
  BY NextStays, NextSettles DEF HostInv
<1>3. PairsRun /\ SoundInv'
  BY <1>1, NextRuns DEF HostInv
<1>4. Registered \subseteq Registered' /\ Registered' \subseteq Registered \cup Groups(catalog')
  <2>1. CASE \E next \in Catalogs : RefreshCapabilities(next)
    BY <2>1 DEF RefreshCapabilities, Finish, Registered
  <2>2. CASE ~ \E next \in Catalogs : RefreshCapabilities(next)
    BY <1>1, <2>2, NextKeepsPairs DEF HostInv
  <2> QED  BY <2>1, <2>2
<1>5. Registered' \subseteq Scopes
  BY <1>2, <1>4, GroupsAreScopes DEF HostInv, RegistryInv
<1>6. ASSUME NEW k \in Registered
      PROVE  PairHosted(k)'
  <2>1. /\ Runs(pairs[k], pairs'[k], acts'[k], CommandOnly(k), now)
        /\ acts[k] = <<>> /\ PairHosted(k)
    BY <1>3, IdleIsQuiet DEF PairsRun, HostInv
  <2>2. pairs[k].auth.generation \in Nat /\ pairs'[k].auth.generation \in Nat
    BY <1>2, <1>4 DEF HostInv, RegistryInv, PairOk, Agrees, IsScope
  <2>3. Latched(pairs'[k], acts'[k], latch[k])
    BY <2>1, CallKeepsLatch DEF PairHosted
  <2>4. AcksOk(acked, k, pairs'[k])
    BY <2>1, <2>2, CallKeepsAcks DEF PairHosted
  <2>5. Driven(pairs'[k], control[k], CommandOnly(k)')
    <3>1. CASE \E next \in Catalogs : RefreshCapabilities(next)
      BY <2>1, <3>1, RefreshKeepsDriver DEF HostInv, PairHosted
    <3>2. CASE ~ \E next \in Catalogs : RefreshCapabilities(next)
      <4>1. CommandOnly(k)' = CommandOnly(k)
        BY <1>1, <3>2, NextKeepsPairs DEF HostInv, CommandOnly, IsCommandOnly
      <4> QED  BY <2>1, <4>1, CallKeepsDriver DEF PairHosted
    <3> QED  BY <3>1, <3>2
  <2> QED  BY <2>3, <2>4, <2>5 DEF PairHosted
<1>7. ASSUME NEW k \in Registered' \ Registered
      PROVE  PairHosted(k)'
  <2>1. CASE \E next \in Catalogs : RefreshCapabilities(next)
    <3>1. PICK next \in Catalogs : RefreshCapabilities(next)
      BY <2>1
    <3>2. pairs'[k] = NewPair /\ acts'[k] = <<>>
      BY <1>4, <1>7, <3>1 DEF RefreshCapabilities, Finish, Begin, Progress, Registered
    <3>3. /\ k \in Scopes /\ ~ latch[k] /\ control[k] = Neutral
          /\ \A g : <<k, g>> \notin acked
      BY <1>5, <1>7 DEF HostInv
    <3>4. NewPair.loss = NotLost /\ Neutral.posture = "neutral" /\ EngagesNone(<<>>)
      <4>1. DOMAIN <<>> = {}
        OBVIOUS
      <4> QED  BY <4>1 DEF NewPair, Neutral, EngagesNone
    <3> QED  BY <3>2, <3>3, <3>4 DEF PairHosted, Driven, Latched, AcksOk, HostInv
  <2>2. CASE ~ \E next \in Catalogs : RefreshCapabilities(next)
    BY <1>1, <1>7, <2>2, NextKeepsPairs DEF HostInv
  <2> QED  BY <2>1, <2>2
<1>8. \A k \in Registered' : PairHosted(k)'
  BY <1>6, <1>7
<1> QED  BY <1>2, <1>3, <1>4, <1>5, <1>8 DEF HostInv

\* The first of some acts, and those behind it.
LEMMA FirstOfActs ==
    ASSUME NEW l, IsList(l), l # <<>>
    PROVE  1 \in DOMAIN l /\ Head(l) = l[1] /\ Behind(Tail(l), l, 1)
<1>1. PICK S : l \in Seq(S)
  BY DEF IsList
<1>2. DOMAIN l = 1..Len(l) /\ Len(l) \in Nat /\ Len(l) # 0
  BY <1>1, LenProperties, EmptySeq
<1>3. /\ Tail(l) \in Seq(S) /\ Len(Tail(l)) = Len(l) - 1
      /\ \A i \in 1..Len(Tail(l)) : Tail(l)[i] = l[i + 1]
  BY <1>1, HeadTailProperties
<1> DEFINE rest == Tail(l)
<1>4. DOMAIN rest = 1..Len(rest)
  BY <1>3, LenProperties
<1>5. Head(l) = l[1]
  BY <1>1
<1> HIDE DEF rest
<1>6. ASSUME NEW j \in DOMAIN rest
      PROVE  1 + j \in DOMAIN l /\ rest[j] = l[1 + j]
  BY <1>2, <1>3, <1>4, <1>6 DEF rest
<1> QED  BY <1>2, <1>3, <1>5, <1>6 DEF Behind, IsList, rest

\* What is left to engage behind the first act.
LEMMA BehindEngages ==
    ASSUME NEW l, IsList(l), l # <<>>
    PROVE  /\ EngagesNone(l) => EngagesNone(Tail(l))
           /\ EngagesNone(Tail(l)) /\ Head(l).kind # "engage" => EngagesNone(l)
<1>1. 1 \in DOMAIN l /\ Head(l) = l[1] /\ Behind(Tail(l), l, 1)
  BY FirstOfActs
<1>2. PICK S : l \in Seq(S)
  BY DEF IsList
<1>3. /\ DOMAIN l = 1..Len(l) /\ Len(l) \in Nat
      /\ Tail(l) \in Seq(S) /\ Len(Tail(l)) = Len(l) - 1
      /\ \A i \in 1..Len(Tail(l)) : Tail(l)[i] = l[i + 1]
  BY <1>2, LenProperties, HeadTailProperties
<1> DEFINE rest == Tail(l)
<1>4. DOMAIN rest = 1..Len(rest)
  BY <1>3, LenProperties
<1> HIDE DEF rest
<1>5. ASSUME NEW i \in DOMAIN l, i # 1
      PROVE  i - 1 \in DOMAIN rest /\ rest[i - 1] = l[i]
  BY <1>3, <1>4, <1>5 DEF rest
<1>6. EngagesNone(l) => EngagesNone(rest)
  BY <1>1 DEF EngagesNone, Behind, rest
<1>7. EngagesNone(rest) /\ Head(l).kind # "engage" => EngagesNone(l)
  BY <1>1, <1>5 DEF EngagesNone
<1> QED  BY <1>6, <1>7 DEF rest

\* The session's part of a turn that enacts the first act of a pair.
LEMMA EnactedIsSound ==
    ASSUME HostInv, NEW k \in Registered, acts[k] # <<>>, Enacted(k),
           \/ pairs' = pairs
           \/ /\ Head(acts[k]).kind = "clear"
              /\ pairs' = [pairs EXCEPT ![k] = ConfirmCleared(@, Head(acts[k]).generation)]
    PROVE  /\ RegistryInv' /\ ActsInv' /\ SoundInv' /\ Registered' = Registered
           /\ \A j : CommandOnly(j)' = CommandOnly(j)
           /\ acts'[k] = Tail(acts[k])
           /\ \A j \in Registered \ {k} : pairs'[j] = pairs[j] /\ acts'[j] = acts[j]
<1>1. /\ PairOk(pairs[k], k, catalog, Connected) /\ LossOk(pairs[k], catalog)
      /\ ActsOk(pairs[k], acts[k], now, catalog)
  BY DEF HostInv, RegistryInv, ActsInv
<1>2. 1 \in DOMAIN acts[k] /\ Head(acts[k]) = acts[k][1] /\ Behind(Tail(acts[k]), acts[k], 1)
  BY <1>1, FirstOfActs DEF ActsOk
<1>3. /\ UNCHANGED <<now, catalog, clients, nextPrincipal>>
      /\ acts' = [acts EXCEPT ![k] = Tail(acts[k])]
      /\ DOMAIN acts = Registered /\ Registered' = Registered
  BY DEF Enacted, HostInv, ActsInv, Registered
<1>4. /\ \A j : CommandOnly(j)' = CommandOnly(j)
      /\ acts'[k] = Tail(acts[k])
      /\ \A j \in Registered \ {k} : pairs'[j] = pairs[j] /\ acts'[j] = acts[j]
  BY <1>3 DEF CommandOnly, IsCommandOnly, Registered
<1>5. CASE pairs' = pairs
  <2>1. RegistryInv' /\ SoundInv'
    BY <1>3, <1>4, <1>5
       DEF HostInv, RegistryInv, ClientsOk, Connected, Principal, Registered, SoundInv
  <2>2. ActsOk(pairs[k], Tail(acts[k]), now, catalog)
    BY <1>1, <1>2, BehindIsOk
  <2>3. ActsInv'
    BY <1>3, <1>4, <1>5, <2>2 DEF HostInv, ActsInv, Registered
  <2> QED  BY <1>3, <1>4, <2>1, <2>3
<1>6. CASE /\ acts[k][1].kind = "clear"
           /\ pairs' = [pairs EXCEPT ![k] = ConfirmCleared(@, acts[k][1].generation)]
  <2>1. RegistryInv'
    BY <1>3, <1>6, ClearStays DEF HostInv
  <2>2. ActsInv'
    BY <1>2, <1>3, <1>6, ClearSettles DEF HostInv
  <2>3. \A j \in Registered : /\ pairs'[j].holder = pairs[j].holder
                              /\ pairs'[j].watch = pairs[j].watch
    <3>1. /\ ConfirmCleared(pairs[k], acts[k][1].generation).holder = pairs[k].holder
          /\ ConfirmCleared(pairs[k], acts[k][1].generation).watch = pairs[k].watch
      BY <1>1 DEF ConfirmCleared, PairOk, Agrees
    <3>2. pairs'[k] = ConfirmCleared(pairs[k], acts[k][1].generation)
      BY <1>6 DEF Registered
    <3> QED  BY <1>4, <3>1, <3>2
  <2>4. SoundInv'
    BY <1>3, <1>4, <2>3 DEF HostInv, SoundInv, Sound, IsWatched
  <2> QED  BY <1>3, <1>4, <2>1, <2>2, <2>4
<1> QED  BY <1>2, <1>5, <1>6

\* A turn that enacts one act of a pair leaves the others alone.
LEMMA OtherPairsHosted ==
    ASSUME HostInv, NEW k \in Registered, acts[k] # <<>>, Enacted(k),
           \/ pairs' = pairs
           \/ /\ Head(acts[k]).kind = "clear"
              /\ pairs' = [pairs EXCEPT ![k] = ConfirmCleared(@, Head(acts[k]).generation)],
           NEW x \in BOOLEAN, latch' = [latch EXCEPT ![k] = x],
           NEW y, control' = [control EXCEPT ![k] = y],
           acked' = acked \/ \E g : acked' = acked \cup {<<k, g>>},
           Driven(pairs'[k], y, CommandOnly(k)),
           Latched(pairs'[k], Tail(acts[k]), x),
           AcksOk(acked', k, pairs'[k])
    PROVE  HostInv'
<1>1. /\ RegistryInv' /\ ActsInv' /\ SoundInv' /\ Registered' = Registered
      /\ \A j : CommandOnly(j)' = CommandOnly(j)
      /\ acts'[k] = Tail(acts[k])
      /\ \A j \in Registered \ {k} : pairs'[j] = pairs[j] /\ acts'[j] = acts[j]
  BY EnactedIsSound
<1>2. /\ k \in Scopes /\ latch' \in [Scopes -> BOOLEAN] /\ control' = [j \in Scopes |-> control'[j]]
      /\ latch'[k] = x /\ control'[k] = y
      /\ \A j \in Scopes \ {k} : latch'[j] = latch[j] /\ control'[j] = control[j]
  BY DEF HostInv
<1>3. \A j, g : j # k => (<<j, g>> \in acked' <=> <<j, g>> \in acked)
  OBVIOUS
<1>4. ASSUME NEW j \in Registered, j # k
      PROVE  PairHosted(j)'
  <2>1. /\ PairHosted(j) /\ pairs'[j] = pairs[j] /\ acts'[j] = acts[j]
        /\ latch'[j] = latch[j] /\ control'[j] = control[j]
        /\ CommandOnly(j)' = CommandOnly(j)
    BY <1>1, <1>2, <1>4 DEF HostInv
  <2>2. AcksOk(acked', j, pairs[j])
    BY <1>3, <1>4, <2>1 DEF PairHosted, AcksOk
  <2> QED  BY <2>1, <2>2 DEF PairHosted
<1>5. PairHosted(k)'
  BY <1>1, <1>2 DEF PairHosted
<1>6. \A j \in Scopes \ Registered :
         /\ ~ latch'[j] /\ control'[j] = Neutral
         /\ \A g : <<j, g>> \notin acked'
  BY <1>2, <1>3 DEF HostInv
<1>7. \A j \in Registered' : PairHosted(j)'
  BY <1>1, <1>4, <1>5
<1> QED  BY <1>1, <1>2, <1>6, <1>7 DEF HostInv

\* What is known of the pair whose act is enacted.
LEMMA EnactStarts ==
    ASSUME HostInv, NEW k \in Registered, acts[k] # <<>>
    PROVE  /\ Head(acts[k]).kind = "clear" =>
                 /\ pairs[k].loss = ClearPending(Head(acts[k]).generation)
                 /\ Head(acts[k]).generation = pairs[k].auth.generation
                 /\ EffectiveHolder(pairs[k].auth) # NoPrincipal /\ ~ CommandOnly(k)
                 /\ EngagesNone(acts[k])
           /\ Head(acts[k]).kind = "apply" /\ Head(acts[k]).posture # "action" =>
                 EffectiveHolder(pairs[k].auth) # NoPrincipal /\ ~ CommandOnly(k)
           /\ Head(acts[k]).kind = "engage" => pairs[k].loss = Engaged
           /\ pairs[k].auth.generation \in Nat
<1>1. /\ PairOk(pairs[k], k, catalog, Connected) /\ LossOk(pairs[k], catalog)
      /\ ActsOk(pairs[k], acts[k], now, catalog) /\ PairHosted(k) /\ catalog \in Catalogs
  BY DEF HostInv, RegistryInv, ActsInv
<1>2. 1 \in DOMAIN acts[k] /\ Head(acts[k]) = acts[k][1]
  BY <1>1, FirstOfActs DEF ActsOk
<1>3. ASSUME pairs[k].member \in DOMAIN catalog, catalog[pairs[k].member].intents
      PROVE  EffectiveHolder(pairs[k].auth) # NoPrincipal /\ ~ CommandOnly(k)
  <2>1. pairs[k].member # NoMember
    BY <1>1, <1>3, CatalogsAssumption, NoMemberAssumption
  <2> QED  BY <1>1, <1>3, <2>1 DEF PairOk, Agrees, BoundTo, CommandOnly, IsCommandOnly
<1>4. ASSUME acts[k][1].kind = "clear"
      PROVE  /\ pairs[k].loss = ClearPending(acts[k][1].generation)
             /\ acts[k][1].generation = pairs[k].auth.generation
             /\ EffectiveHolder(pairs[k].auth) # NoPrincipal /\ ~ CommandOnly(k)
             /\ EngagesNone(acts[k])
  <2>1. pairs[k].loss = ClearPending(acts[k][1].generation)
    BY <1>1, <1>2, <1>4 DEF ActsOk
  <2>2. pairs[k].loss.phase = "pending" /\ pairs[k].loss.generation = acts[k][1].generation
    BY <2>1 DEF ClearPending
  <2>3. pairs[k].loss # Engaged
    BY <2>2 DEF Engaged
  <2> QED  BY <1>1, <1>3, <2>1, <2>2, <2>3 DEF LossOk, PairHosted, Latched
<1>5. acts[k][1].kind = "apply" /\ acts[k][1].posture # "action" =>
         pairs[k].member \in DOMAIN catalog /\ catalog[pairs[k].member].intents
  BY <1>1, <1>2 DEF ActsOk
<1>6. acts[k][1].kind = "engage" => pairs[k].loss = Engaged
  BY <1>1, <1>2 DEF PairHosted, Latched, EngagesNone
<1>7. pairs[k].auth.generation \in Nat
  BY <1>1 DEF PairOk, Agrees, IsScope
<1> QED  BY <1>2, <1>3, <1>4, <1>5, <1>6, <1>7

\* Every act that is enacted keeps engine and adapter in step.
LEMMA EnactIsHosted ==
    ASSUME HostInv, Enact
    PROVE  HostInv'
<1>1. PICK k \in Registered :
          \/ EnactInvalidate(k)
          \/ EnactEngage(k) \/ RefuseEngage(k)
          \/ EnactClear(k) \/ RefuseClear(k)
          \/ EnactApply(k) \/ ExpireApply(k)
  BY DEF Enact
<1> DEFINE l == acts[k]
           act == Head(l)
<1>2. l # <<>> /\ Enacted(k)
  BY <1>1 DEF EnactInvalidate, EnactEngage, RefuseEngage, EnactClear, RefuseClear,
              EnactApply, ExpireApply, Enacting
<1>3. /\ act.kind = "clear" =>
            /\ pairs[k].loss = ClearPending(act.generation)
            /\ act.generation = pairs[k].auth.generation
            /\ EffectiveHolder(pairs[k].auth) # NoPrincipal /\ ~ CommandOnly(k)
            /\ EngagesNone(l)
      /\ act.kind = "apply" /\ act.posture # "action" =>
            EffectiveHolder(pairs[k].auth) # NoPrincipal /\ ~ CommandOnly(k)
      /\ act.kind = "engage" => pairs[k].loss = Engaged
      /\ pairs[k].auth.generation \in Nat
  BY <1>2, EnactStarts
<1>4. /\ EngagesNone(l) => EngagesNone(Tail(l))
      /\ EngagesNone(Tail(l)) /\ act.kind # "engage" => EngagesNone(l)
  BY <1>2, BehindEngages DEF HostInv, ActsInv, ActsOk
<1>5. /\ Driven(pairs[k], control[k], CommandOnly(k))
      /\ Latched(pairs[k], l, latch[k]) /\ AcksOk(acked, k, pairs[k])
      /\ Agrees(pairs[k])
  BY DEF HostInv, PairHosted, RegistryInv, PairOk
<1>6. /\ k \in Scopes /\ latch \in [Scopes -> BOOLEAN] /\ control = [j \in Scopes |-> control[j]]
  BY DEF HostInv
<1>7. latch = [latch EXCEPT ![k] = latch[k]] /\ latch[k] \in BOOLEAN
  BY <1>6
<1>8. ASSUME control' = control
      PROVE  control' = [control EXCEPT ![k] = control[k]]
  BY <1>6, <1>8
<1> HIDE DEF l, act
<1>9. act.kind # "engage" => Latched(pairs[k], Tail(l), latch[k])
  BY <1>4, <1>5 DEF Latched
<1>10. CASE EnactInvalidate(k) \/ RefuseClear(k) \/ ExpireApply(k)
  <2>1. act.kind # "engage" /\ UNCHANGED <<pairs, latch, control, acked>>
    BY <1>10 DEF EnactInvalidate, RefuseClear, ExpireApply, Enacting, adapter, act, l
  <2> QED  BY <1>2, <1>5, <1>7, <1>8, <1>9, <2>1, OtherPairsHosted DEF l
<1>11. CASE EnactEngage(k) \/ RefuseEngage(k)
  <2>1. /\ act.kind = "engage" /\ UNCHANGED <<pairs, control, acked>>
        /\ latch' = [latch EXCEPT ![k] = TRUE]
    BY <1>11 DEF EnactEngage, RefuseEngage, Enacting, act, l
  <2>2. Latched(pairs[k], Tail(l), TRUE)
    BY <1>3, <2>1 DEF Latched, Engaged, NotLost
  <2> QED  BY <1>2, <1>5, <1>8, <2>1, <2>2, OtherPairsHosted DEF l
<1>12. CASE EnactClear(k)
  <2>1. /\ act.kind = "clear" /\ UNCHANGED control
        /\ latch' = [latch EXCEPT ![k] = FALSE]
        /\ pairs' = [pairs EXCEPT ![k] = ConfirmCleared(@, act.generation)]
        /\ acked' = acked \cup {<<k, act.generation>>}
    BY <1>3, <1>12 DEF EnactClear, Enacting, act, l
  <2>2. pairs'[k].auth = pairs[k].auth /\ pairs'[k].loss = NotLost
    <3>1. pairs'[k] = ConfirmCleared(pairs[k], act.generation)
      BY <2>1 DEF Registered
    <3> QED  BY <1>3, <1>5, <2>1, <3>1 DEF ConfirmCleared, Agrees
  <2>3. Latched(pairs'[k], Tail(l), FALSE)
    BY <1>3, <1>4, <2>1, <2>2 DEF Latched
  <2>4. Driven(pairs'[k], control[k], CommandOnly(k))
    BY <1>3, <2>1, <2>2 DEF Driven
  <2>5. AcksOk(acked', k, pairs'[k])
    BY <1>3, <1>5, <2>1, <2>2 DEF AcksOk
  <2> QED
    BY <1>2, <1>8, <2>1, <2>3, <2>4, <2>5, OtherPairsHosted DEF l, act
<1>13. CASE EnactApply(k)
  <2> DEFINE stored == IF Admits(k) /\ act.posture # "action" THEN Stored(act) ELSE control[k]
  <2>1. /\ act.kind = "apply" /\ UNCHANGED <<pairs, latch, acked>>
        /\ control' = [control EXCEPT ![k] = stored]
    <3>1. CASE Admits(k) /\ act.posture # "action"
      BY <1>13, <3>1 DEF EnactApply, Enacting, act, l
    <3>2. CASE ~ (Admits(k) /\ act.posture # "action")
      BY <1>8, <1>13, <3>2 DEF EnactApply, Enacting, act, l
    <3> QED  BY <3>1, <3>2
  <2>2. Driven(pairs[k], stored, CommandOnly(k))
    BY <1>3, <1>5, <2>1 DEF Driven
  <2> HIDE DEF stored
  <2> QED  BY <1>2, <1>5, <1>7, <1>9, <2>1, <2>2, OtherPairsHosted DEF l
<1> QED  BY <1>1, <1>10, <1>11, <1>12, <1>13

\* Every turn of the actor keeps engine and adapter in step.
LEMMA HostNextIsHosted ==
    ASSUME HolderSilence > 0, HostInv, [HostNext]_hostVars
    PROVE  HostInv'
<1>1. CASE UNCHANGED hostVars
  BY <1>1 DEF hostVars, vars, adapter, HostInv, RegistryInv, ClientsOk, Connected, Principal,
              Registered, ActsInv, SoundInv, PairHosted, CommandOnly
<1>2. CASE Message \/ OnTick \/ Report \/ Time
  <2>1. Idle /\ Next /\ UNCHANGED <<latch, control, acked>>
    BY <1>2 DEF Message, OnTick, Report, Time, Next, DriverCall, adapter
  <2> QED  BY <2>1, CallIsHosted
<1>3. CASE Enact
  BY <1>3, EnactIsHosted
<1>4. CASE AdapterStep
  <2>1. /\ UNCHANGED <<vars, latch, acked>> /\ control' = [j \in Scopes |-> control'[j]]
        /\ \A k \in Scopes : control'[k] = Neutral \/ control'[k] = control[k]
    BY <1>4 DEF AdapterStep
  <2>2. RegistryInv' /\ ActsInv' /\ SoundInv' /\ Registered' = Registered
        /\ \A k : CommandOnly(k)' = CommandOnly(k)
    BY <2>1 DEF vars, HostInv, RegistryInv, ClientsOk, Connected, Principal, Registered,
                ActsInv, SoundInv, CommandOnly
  <2>3. ASSUME NEW k \in Registered
        PROVE  PairHosted(k)'
    <3>1. PairHosted(k) /\ (control'[k] = Neutral \/ control'[k] = control[k])
      BY <2>1 DEF HostInv
    <3> QED  BY <2>1, <2>2, <3>1 DEF vars, PairHosted, Driven, Neutral
  <2>4. \A k \in Scopes \ Registered :
           /\ ~ latch'[k] /\ control'[k] = Neutral
           /\ \A g : <<k, g>> \notin acked'
    BY <2>1 DEF HostInv
  <2> QED  BY <2>1, <2>2, <2>3, <2>4 DEF HostInv
<1> QED  BY <1>1, <1>2, <1>3, <1>4 DEF HostNext

\* In the beginning nothing is latched, driven or acknowledged.
LEMMA HostInitIsHosted == HostInit => HostInv
<1> SUFFICES ASSUME HostInit  PROVE  HostInv
  OBVIOUS
<1>1. /\ RegistryInv /\ ActsInv
      /\ latch = [k \in Scopes |-> FALSE] /\ control = [k \in Scopes |-> Neutral] /\ acked = {}
      /\ Registered = Groups(catalog)
      /\ \A k \in Registered : pairs[k] = NewPair /\ acts[k] = <<>>
  BY InitIsOk, InitSettles DEF HostInit, Init, Registered
<1>2. NewPair.watch = NoWatch /\ NewPair.loss = NotLost /\ Neutral.posture = "neutral"
      /\ EngagesNone(<<>>)
  <2>1. DOMAIN <<>> = {}
    OBVIOUS
  <2> QED  BY <2>1 DEF NewPair, Neutral, EngagesNone
<1>3. SoundInv
  BY <1>1, <1>2 DEF SoundInv, Sound, IsWatched, NoWatch, Watch
<1>4. Registered \subseteq Scopes
  BY <1>1, GroupsAreScopes DEF RegistryInv
<1>5. ASSUME NEW k \in Registered
      PROVE  PairHosted(k)
  BY <1>1, <1>2, <1>4 DEF PairHosted, Driven, Latched, AcksOk
<1> QED  BY <1>1, <1>3, <1>4, <1>5 DEF HostInv

\* Whatever the adapter refuses, whatever frames expire and however late a device
\* reports: between calls the engine knows which pairs are latched, and one that
\* is not is driven by its holder or by nobody.
THEOREM LatchesKept == HolderSilence > 0 => (HostSpec => []LatchesAreKept)
<1> SUFFICES ASSUME HolderSilence > 0  PROVE  HostSpec => []LatchesAreKept
  OBVIOUS
<1>1. HostInv => LatchesAreKept
  <2>1. SUFFICES ASSUME HostInv, NEW k \in Registered, acts[k] = <<>>
                 PROVE  /\ latch[k] = (pairs[k].loss # NotLost)
                        /\ control[k].posture = "driving" =>
                              EffectiveHolder(pairs[k].auth) # NoPrincipal \/ latch[k]
    BY DEF LatchesAreKept, LatchIsKnown, NobodyDrivesAlone
  <2>2. EngagesNone(<<>>)
    <3>1. DOMAIN <<>> = {}
      OBVIOUS
    <3> QED  BY <3>1 DEF EngagesNone
  <2>3. latch[k] = (pairs[k].loss # NotLost)
    BY <2>1, <2>2 DEF HostInv, PairHosted, Latched
  <2>4. Driven(pairs[k], control[k], CommandOnly(k))
    BY <2>1 DEF HostInv, PairHosted
  <2> QED  BY <2>3, <2>4 DEF Driven
<1>2. HostInit => HostInv
  BY HostInitIsHosted
<1>3. HostInv /\ [HostNext]_hostVars => HostInv'
  BY HostNextIsHosted
<1> QED  BY <1>1, <1>2, <1>3, PTL DEF HostSpec

-----------------------------------------------------------------------------
(* The answers of the adapter and the reports of its device.               *)

\* What a turn may tell of a pair, and what it tells when it lifts a latch.
AcksStep ==
    \A k \in Registered :
        LET new == {a \in acked' \ acked : a[1] = k}
            lease == <<k, pairs[k].auth.generation>>
        IN  /\ new # {} => new = {lease} /\ ~ latch'[k]
            /\ latch[k] /\ ~ latch'[k] => new = {lease}

\* What a device's report may change.
ReportsStep ==
    \A session \in Principals, m \in Members, g \in 0..MaxGeneration :
        DeviceAuthorityLoss(session, m, g) =>
            \A k \in Registered :
                pairs'[k] # pairs[k] =>
                    /\ EffectiveHolder(pairs[k].auth) = session
                    /\ pairs[k].auth.generation = g

\* A step that tells nothing lifts no latch.
LEMMA SilenceAcksNothing ==
    ASSUME UNCHANGED acked, \A k \in Registered : latch'[k] = latch[k] \/ latch'[k] = TRUE
    PROVE  AcksStep
<1>1. acked' \ acked = {}
  OBVIOUS
<1> QED  BY <1>1 DEF AcksStep

\* A clear that the adapter takes is of the lease in force, and it is news: the
\* pair was still lost, so that nobody was told of this lease.
LEMMA ClearAcksItsLease ==
    ASSUME HostInv, NEW k \in Registered, EnactClear(k)
    PROVE  AcksStep
<1> DEFINE g == pairs[k].auth.generation
<1>1. /\ acts[k] # <<>> /\ Head(acts[k]).kind = "clear"
      /\ latch' = [latch EXCEPT ![k] = FALSE]
      /\ acked' = IF pairs[k].loss = ClearPending(Head(acts[k]).generation)
                  THEN acked \cup {<<k, Head(acts[k]).generation>>} ELSE acked
  BY DEF EnactClear, Enacting
<1>2. pairs[k].loss = ClearPending(g) /\ Head(acts[k]).generation = g
  BY <1>1, EnactStarts
<1>3. acked' = acked \cup {<<k, g>>}
  BY <1>1, <1>2
<1>4. <<k, g>> \notin acked
  <2>1. pairs[k].loss # NotLost
    <3>1. ClearPending(g).phase = "pending" /\ NotLost.phase # "pending"
      BY DEF ClearPending, NotLost
    <3> QED  BY <1>2, <3>1
  <2>2. AcksOk(acked, k, pairs[k]) /\ g \in Nat
    BY DEF HostInv, PairHosted, RegistryInv, PairOk, Agrees, IsScope
  <2> QED  BY <2>1, <2>2 DEF AcksOk
<1>5. latch'[k] = FALSE /\ \A j \in Registered \ {k} : latch'[j] = latch[j]
  BY <1>1 DEF HostInv
<1> HIDE DEF g
<1>6. acked' \ acked = {<<k, g>>}
  BY <1>3, <1>4
<1>7. ASSUME NEW j \in Registered
      PROVE  LET new == {a \in acked' \ acked : a[1] = j}
             IN  /\ j = k => new = {<<k, g>>} /\ ~ latch'[j]
                 /\ j # k => new = {} /\ latch'[j] = latch[j]
  BY <1>5, <1>6
<1> QED  BY <1>7 DEF AcksStep, g

\* A report revokes the lease that it names, or nothing.
LEMMA ReportHitsItsLease ==
    ASSUME RegistryInv
    PROVE  ReportsStep
<1> SUFFICES ASSUME NEW session \in Principals, NEW m \in Members, NEW g \in 0..MaxGeneration,
                    DeviceAuthorityLoss(session, m, g),
                    NEW k \in Registered, pairs'[k] # pairs[k]
             PROVE  EffectiveHolder(pairs[k].auth) = session /\ pairs[k].auth.generation = g
  BY DEF ReportsStep
<1>1. Declared(m) /\ SessionHolds(session, pairs[PairOf(m)], g) /\ k = PairOf(m)
  <2> DEFINE told == Declared(m) /\ SessionHolds(session, pairs[PairOf(m)], g)
             r == Fan(Untouched[PairOf(m)], PairOf(m),
                      Revoke(Untouched[PairOf(m)].pair.auth, PairOf(m)))
             progress == IF told THEN [Untouched EXCEPT ![PairOf(m)] = r] ELSE Untouched
  <2>1. pairs' = [j \in DOMAIN progress |-> progress[j].pair]
    BY DEF DeviceAuthorityLoss, Finish
  <2>2. DOMAIN progress = Registered
    BY DEF Untouched
  <2>3. ~ (told /\ k = PairOf(m)) => progress[k] = Untouched[k]
    BY DEF Untouched
  <2> HIDE DEF progress, told
  <2>4. told /\ k = PairOf(m)
    BY <2>1, <2>2, <2>3, UntouchedStays
  <2> QED  BY <2>4 DEF told
<1>2. pairs[k].generation = g /\ pairs[k].holder = session
  BY <1>1 DEF SessionHolds
<1>3. Agrees(pairs[k])
  BY DEF RegistryInv, PairOk
<1> QED  BY <1>2, <1>3 DEF Agrees

\* An answer of the adapter and a report of its device act on the lease that
\* they are about and on no other, however late they come: the clients hear of a
\* recovery once for each lease, when its pair is unlatched and never otherwise.
THEOREM AnswersHit == HolderSilence > 0 => (HostSpec => AnswersHitTheirLease)
<1> SUFFICES ASSUME HolderSilence > 0  PROVE  HostSpec => AnswersHitTheirLease
  OBVIOUS
<1>1. HostInit => HostInv
  BY HostInitIsHosted
<1>2. ASSUME HostInv, [HostNext]_hostVars
      PROVE  HostInv' /\ [AcksStep]_hostVars /\ [ReportsStep]_vars
  <2>1. HostInv'
    BY <1>2, HostNextIsHosted
  <2>2. ReportsStep
    BY <1>2, ReportHitsItsLease DEF HostInv
  <2>3. CASE UNCHANGED hostVars
    BY <2>1, <2>2, <2>3
  <2>4. CASE Message \/ OnTick \/ Report \/ Time \/ AdapterStep
    <3>1. UNCHANGED <<latch, acked>>
      BY <2>4 DEF Message, OnTick, Report, Time, AdapterStep, adapter
    <3> QED  BY <2>1, <2>2, <3>1, SilenceAcksNothing
  <2>5. CASE Enact
    <3>1. PICK k \in Registered :
             \/ EnactInvalidate(k)
             \/ EnactEngage(k) \/ RefuseEngage(k)
             \/ EnactClear(k) \/ RefuseClear(k)
             \/ EnactApply(k) \/ ExpireApply(k)
      BY <2>5 DEF Enact
    <3>2. CASE EnactClear(k)
      BY <1>2, <2>1, <2>2, <3>2, ClearAcksItsLease
    <3>3. CASE EnactEngage(k) \/ RefuseEngage(k)
      <4>1. UNCHANGED acked /\ latch' = [latch EXCEPT ![k] = TRUE]
        BY <3>3 DEF EnactEngage, RefuseEngage
      <4>2. \A j \in Registered : latch'[j] = latch[j] \/ latch'[j] = TRUE
        BY <1>2, <4>1 DEF HostInv
      <4> QED  BY <2>1, <2>2, <4>1, <4>2, SilenceAcksNothing
    <3>4. CASE EnactInvalidate(k) \/ RefuseClear(k) \/ EnactApply(k) \/ ExpireApply(k)
      <4>1. UNCHANGED <<latch, acked>>
        BY <3>4 DEF EnactInvalidate, RefuseClear, EnactApply, ExpireApply, adapter
      <4> QED  BY <2>1, <2>2, <4>1, SilenceAcksNothing
    <3> QED  BY <3>1, <3>2, <3>3, <3>4
  <2> QED  BY <1>2, <2>3, <2>4, <2>5 DEF HostNext
<1>3. HostSpec => [][AcksStep]_hostVars
  BY <1>1, <1>2, PTL DEF HostSpec
<1>4. HostSpec => [][ReportsStep]_vars
  BY <1>1, <1>2, PTL DEF HostSpec
<1>5. HostSpec => AcksAreTrue
  BY <1>3, PTL DEF AcksAreTrue, AcksStep
<1>6. HostSpec => LateReportsHarmless
  BY <1>4 DEF LateReportsHarmless, ReportsStep
<1> QED
  BY <1>5, <1>6 DEF AnswersHitTheirLease
=============================================================================
