-------------------------- MODULE ActionLogProofs --------------------------
(***************************************************************************)
(* Proofs about ActionLog: no press is executed twice for a client the     *)
(* actor has in its registry, and what the log answers is true of that     *)
(* very press; for every width of the ids and every size of the log and    *)
(* the queue.                                                              *)
(***************************************************************************)
EXTENDS ActionLog, TLAPS

-----------------------------------------------------------------------------
(* Ids.                                                                    *)

\* What is known of the constants, in the form the arithmetic below needs.
LEMMA Sizes ==
    /\ IdMod \in Nat \ {0} /\ MaxLag \in Nat /\ Half \in Nat
    /\ MaxLag + 2 <= Half /\ 2 * Half <= IdMod - 1
    /\ IdMod - 1 \in Nat \ {0}
    /\ None \notin Int
<1>1. /\ IdMod \in Nat \ {0} /\ MaxLag \in Nat /\ MaxLag + 2 <= Half /\ None \notin Int
  BY ActionLogAssumption
<1>2. (IdMod - 1) \div 2 \in Nat /\ 2 * ((IdMod - 1) \div 2) <= IdMod - 1
  BY <1>1
<1> QED BY <1>1, <1>2 DEF Half

\* Ids run from 1 to IdMod - 1 and repeat after that many presses.
LEMMA IdOf ==
    ASSUME NEW p \in Nat \ {0}
    PROVE  /\ Id(p) \in 1 .. IdMod - 1
           /\ \E q \in Int : Id(p) = p + (IdMod - 1) * q
<1> DEFINE m == IdMod - 1
<1>1. m \in Nat \ {0} BY Sizes
<1>2. p - 1 \in Int OBVIOUS
<1> HIDE DEF m
<1>3. (p - 1) % m \in 0 .. m - 1 BY <1>1, <1>2
<1>4. p - 1 = m * ((p - 1) \div m) + ((p - 1) % m) BY <1>1, <1>2
<1>5. (p - 1) \div m \in Int BY <1>1, <1>2
<1>6. -((p - 1) \div m) \in Int
      /\ m * (-((p - 1) \div m)) = -(m * ((p - 1) \div m))
      /\ m * ((p - 1) \div m) \in Int
  BY <1>1, <1>5
<1>7. 1 + ((p - 1) % m) = p + m * (-((p - 1) \div m)) BY <1>3, <1>4, <1>6
<1> QED BY <1>1, <1>3, <1>6, <1>7 DEF Id, m

\* The distance from the id of a press to the id of an earlier one.
LEMMA IdDistance ==
    ASSUME NEW n \in Nat \ {0}, NEW p \in Nat \ {0}, p <= n, n - p <= MaxLag
    PROVE  \/ Id(p) - Id(n) = p - n
           \/ p < n /\ Id(p) - Id(n) = IdMod - 1 - (n - p)
<1> DEFINE m == IdMod - 1
<1>1. PICK a \in Int : Id(p) = p + m * a BY IdOf
<1>2. PICK b \in Int : Id(n) = n + m * b BY IdOf
<1>3. m \in Nat \ {0} /\ MaxLag < m BY Sizes
<1>4. Id(p) \in 1 .. m /\ Id(n) \in 1 .. m BY IdOf
<1> DEFINE d == a - b
<1>5. d \in Int /\ m * a - m * b = m * d /\ m * a \in Int /\ m * b \in Int BY <1>3
<1> HIDE DEF m, d
<1>6. Id(p) - Id(n) = p - n + m * d /\ m * d \in Int BY <1>1, <1>2, <1>3, <1>5
<1>7. -m < m * d /\ m * d < 2 * m
  BY <1>3, <1>4, <1>6, Sizes
<1>8. ~(d <= -1)
  <2> SUFFICES ASSUME d <= -1 PROVE FALSE OBVIOUS
  <2>1. m * d <= m * (-1) BY <1>3, <1>5
  <2> QED BY <1>3, <1>6, <1>7, <2>1
<1>9. ~(d >= 2)
  <2> SUFFICES ASSUME d >= 2 PROVE FALSE OBVIOUS
  <2>1. m * d >= m * 2 BY <1>3, <1>5
  <2> QED BY <1>3, <1>6, <1>7, <2>1
<1>10. d = 0 \/ d = 1 BY <1>5, <1>8, <1>9
<1>11. CASE d = 0 BY <1>3, <1>6, <1>11
<1>12. CASE d = 1
  <2>1. Id(p) - Id(n) = p - n + m BY <1>3, <1>6, <1>12
  <2>2. p # n BY <1>3, <1>4, <2>1
  <2> QED BY <1>3, <2>1, <2>2 DEF m
<1> QED BY <1>10, <1>11, <1>12

\* The remainder of a number a little below a multiple, or within the range.
LEMMA SmallRemainder ==
    ASSUME NEW b \in Nat \ {0}, NEW x \in Int, -b < x, x < b
    PROVE  x % b = IF x < 0 THEN x + b ELSE x
<1> DEFINE d == x \div b
<1>1. x = b * d + (x % b) /\ x % b \in 0 .. b - 1 /\ d \in Int OBVIOUS
<1> HIDE DEF d
<1>2. b * d \in Int BY <1>1
<1>3. ~(d >= 1)
  <2> SUFFICES ASSUME d >= 1 PROVE FALSE OBVIOUS
  <2>1. b * d >= b * 1 BY <1>1
  <2> QED BY <1>1, <1>2, <2>1
<1>4. ~(d <= -2)
  <2> SUFFICES ASSUME d <= -2 PROVE FALSE OBVIOUS
  <2>1. b * d <= b * (-2) BY <1>1
  <2> QED BY <1>1, <1>2, <2>1
<1>5. d = 0 \/ d = -1 BY <1>1, <1>3, <1>4
<1>6. CASE d = 0 BY <1>1, <1>6
<1>7. CASE d = -1 BY <1>1, <1>7
<1> QED BY <1>5, <1>6, <1>7

\* The newest press and those before it, as far as a sender goes back, do not
\* advance.
LEMMA OldIsBehind ==
    ASSUME NEW n \in Nat \ {0}, NEW p \in Nat \ {0}, p <= n, n - p <= MaxLag
    PROVE  ~Advances(Id(n), Id(p))
<1> DEFINE x == Id(p) - Id(n)
<1>1. /\ IdMod \in Nat \ {0} /\ MaxLag \in Nat /\ Half \in Nat
      /\ MaxLag + 2 <= Half /\ 2 * Half <= IdMod - 1
  BY Sizes
<1>2. x = p - n \/ (p < n /\ x = IdMod - 1 - (n - p)) BY IdDistance
<1>3. x \in Int /\ -IdMod < x /\ x < IdMod BY <1>1, <1>2
<1> HIDE DEF x
<1>4. x % IdMod = IF x < 0 THEN x + IdMod ELSE x BY <1>1, <1>3, SmallRemainder
<1>5. x % IdMod = 0 \/ x % IdMod > Half BY <1>1, <1>2, <1>4
<1>6. x % IdMod \in Int BY <1>1, <1>3, <1>4
<1> QED BY <1>1, <1>5, <1>6 DEF Advances, x
-----------------------------------------------------------------------------
(* The inductive invariant.                                                *)

Typed ==
    /\ pressed \in Nat /\ start \in Nat \ {0} /\ start <= pressed + 1
    /\ registered \in BOOLEAN
    /\ stream \in Seq(Nat \ {0})
    /\ DOMAIN given \subseteq 1 .. pressed
    /\ \A q \in DOMAIN given : given[q] \in Nat
    /\ newest # None => newest \in Nat \ {0} /\ newest <= pressed
    /\ log.latest = IF newest = None THEN None ELSE Id(newest)

\* The stream is in order but for presses sent again, which are MaxLag old.
InOrder ==
    /\ \A i \in 1 .. Len(stream) : stream[i] <= pressed
    /\ \A i, j \in 1 .. Len(stream) : i < j => stream[i] <= stream[j] + MaxLag
    /\ newest # None => \A i \in 1 .. Len(stream) : newest <= stream[i] + MaxLag
    /\ link = "down" => stream = <<>> /\ newest = None

\* The watermark covers what this session has executed.
Covered ==
    registered => \A q \in DOMAIN given :
        given[q] > 0 /\ start <= q => newest # None /\ q <= newest

LogInv == Typed /\ InOrder /\ Covered

\* A repeated press is answered by the log.
LEMMA CoveredIsSuperseded ==
    ASSUME Typed, newest # None, NEW p \in Nat \ {0}, p <= newest, newest <= p + MaxLag
    PROVE  Superseded(log, Id(p))
<1>1. newest \in Nat \ {0} BY DEF Typed
<1>2. newest - p <= MaxLag BY <1>1, Sizes
<1>3. ~Advances(Id(newest), Id(p)) BY <1>1, <1>2, OldIsBehind
<1>4. log.latest = Id(newest) BY DEF Typed
<1>5. Id(newest) \in Int BY <1>1, IdOf, Sizes
<1>6. Id(newest) # None BY <1>5, Sizes
<1> QED BY <1>3, <1>4, <1>6 DEF Superseded

\* After messages to the client: the log stands, or the client is closed.
LEMMA SendToCase ==
    ASSUME NEW l, NEW press, NEW count, SendTo(l, press, count)
    PROVE  \/ newest' = press /\ log' = l /\ registered' = registered
           \/ newest' = None /\ log' = EmptyLog /\ registered' = FALSE
BY DEF SendTo

Kept ==
    newest' = newest /\ log'.latest = log.latest /\ registered' = registered

Forgotten ==
    newest' = None /\ log'.latest = None /\ registered' = FALSE

Taken(p) ==
    /\ start <= p /\ ~Superseded(log, Id(p))
    /\ newest' = p /\ log'.latest = Id(p) /\ registered' \in {registered, FALSE}

\* The press may be given to the adapter.
Called(p) ==
    /\ start <= p /\ ~Superseded(log, Id(p))
    /\ \E new : given' = [given EXCEPT ![p] = new] /\ (p \in DOMAIN given => new \in Nat)

\* What is read and what is left of the stream.
LEMMA HeadOfStream ==
    ASSUME NEW s \in Seq(Nat \ {0}), s # <<>>
    PROVE  /\ Len(s) \in Nat /\ Len(s) >= 1
           /\ Head(s) = s[1] /\ Head(s) \in Nat \ {0}
           /\ Tail(s) \in Seq(Nat \ {0}) /\ Len(Tail(s)) = Len(s) - 1
           /\ \A i \in 1 .. Len(Tail(s)) : Tail(s)[i] = s[i + 1]
<1>1. Len(s) \in Nat /\ Len(s) >= 1 OBVIOUS
<1>2. Head(s) = s[1] BY <1>1
<1>3. s[1] \in Nat \ {0} BY <1>1
<1>4. Tail(s) \in Seq(Nat \ {0}) /\ Len(Tail(s)) = Len(s) - 1 OBVIOUS
<1>5. \A i \in 1 .. Len(Tail(s)) : Tail(s)[i] = s[i + 1] OBVIOUS
<1> QED BY <1>1, <1>2, <1>3, <1>4, <1>5

\* What a delivery does to the calls of the adapter, the newest press and the
\* watermark.
LEMMA DeliverCase ==
    ASSUME Typed, NEW p \in Nat \ {0},
           \/ RefuseForeign(p) \/ RefuseBinding(p) \/ Replay(p)
           \/ RefuseSuperseded(p) \/ Execute(p)
    PROVE  \/ given' = given /\ Kept
           \/ given' = given /\ Forgotten
           \/ Called(p) /\ Forgotten
           \/ Called(p) /\ Taken(p)
<1>1. EmptyLog.latest = None BY DEF EmptyLog
<1>2. start \in Nat BY DEF Typed
<1>3. CASE RefuseForeign(p)
  <2>1. given' = given /\ newest' = None /\ log' = EmptyLog /\ registered' = FALSE
    BY <1>3 DEF RefuseForeign
  <2> QED BY <1>1, <2>1 DEF Forgotten
<1>4. CASE RefuseBinding(p) \/ Replay(p) \/ RefuseSuperseded(p)
  <2>1. SendTo(log, newest, 1) /\ given' = given
    BY <1>4 DEF RefuseBinding, Replay, RefuseSuperseded
  <2>2. \/ newest' = newest /\ log' = log /\ registered' = registered
        \/ newest' = None /\ log' = EmptyLog /\ registered' = FALSE
    BY <2>1, SendToCase
  <2> QED BY <1>1, <2>1, <2>2 DEF Kept, Forgotten
<1>5. CASE Execute(p)
  <2>1. start <= p /\ ~Superseded(log, Id(p)) BY <1>2, <1>5 DEF Execute
  <2>2. PICK called \in BOOLEAN, accepted \in BOOLEAN :
          /\ given' = [given EXCEPT ![p] = IF called /\ @ < 2 THEN @ + 1 ELSE @]
          /\ \/ \E count \in {1, 2} : SendTo(Recorded(log, Id(p), accepted), p, count)
             \/ /\ registered' = FALSE /\ newest' = p
                /\ log' = Recorded(EmptyLog, Id(p), FALSE)
    BY <1>5 DEF Execute
  <2> DEFINE entry == Recorded(log, Id(p), accepted)
             other == Recorded(EmptyLog, Id(p), FALSE)
  <2>3. entry.latest = Id(p) BY <2>1 DEF Recorded
  <2>4. ~Superseded(EmptyLog, Id(p)) BY <1>1 DEF Superseded
  <2>5. other.latest = Id(p) BY <2>4 DEF Recorded
  <2> HIDE DEF entry, other
  <2>6. ASSUME \E count \in {1, 2} : SendTo(entry, p, count)
        PROVE  Forgotten \/ Taken(p)
    <3>1. \/ newest' = p /\ log' = entry /\ registered' = registered
          \/ newest' = None /\ log' = EmptyLog /\ registered' = FALSE
      BY <2>6, SendToCase
    <3> QED BY <1>1, <2>1, <2>3, <3>1 DEF Forgotten, Taken
  <2>7. ASSUME registered' = FALSE, newest' = p, log' = other
        PROVE  Taken(p)
    BY <2>1, <2>5, <2>7 DEF Taken
  <2>8. Forgotten \/ Taken(p)
    <3>1. \/ \E count \in {1, 2} : SendTo(entry, p, count)
          \/ registered' = FALSE /\ newest' = p /\ log' = other
      BY <2>2 DEF entry, other
    <3> QED BY <2>6, <2>7, <3>1
  <2> DEFINE new == IF called /\ given[p] < 2 THEN given[p] + 1 ELSE given[p]
  <2>9. given' = [given EXCEPT ![p] = new] BY <2>2
  <2>10. p \in DOMAIN given => new \in Nat BY DEF Typed
  <2> HIDE DEF new
  <2>11. Called(p) BY <2>1, <2>9, <2>10 DEF Called
  <2> QED BY <2>8, <2>11
<1> QED BY <1>3, <1>4, <1>5

\* A delivery reads the head of the stream.
LEMMA DeliverReads ==
    ASSUME Typed, Deliver
    PROVE  /\ stream # <<>> /\ stream' = Tail(stream) /\ Head(stream) \in Nat \ {0}
           /\ pressed' = pressed /\ start' = start /\ link' = link
           /\ \/ RefuseForeign(Head(stream)) \/ RefuseBinding(Head(stream))
              \/ Replay(Head(stream)) \/ RefuseSuperseded(Head(stream))
              \/ Execute(Head(stream))
<1>1. stream # <<>> BY DEF Deliver
<1>2. stream \in Seq(Nat \ {0}) BY DEF Typed
<1>3. Head(stream) \in Nat \ {0} BY <1>1, <1>2, HeadOfStream
<1> QED BY <1>1, <1>3 DEF Deliver, linkVars

\* Deliveries keep the invariant.
LEMMA DeliverStep == LogInv /\ Deliver => LogInv'
<1> SUFFICES ASSUME LogInv, Deliver PROVE LogInv' OBVIOUS
<1> DEFINE p == Head(stream)
<1>t. Typed /\ InOrder /\ Covered BY DEF LogInv
<1>1. /\ stream # <<>> /\ stream' = Tail(stream) /\ p \in Nat \ {0}
      /\ pressed' = pressed /\ start' = start /\ link' = link
  BY <1>t, DeliverReads
<1>2. \/ given' = given /\ Kept
      \/ given' = given /\ Forgotten
      \/ Called(p) /\ Forgotten
      \/ Called(p) /\ Taken(p)
  BY <1>t, DeliverReads, DeliverCase
<1>3. stream \in Seq(Nat \ {0}) BY <1>t DEF Typed
<1>4. /\ Len(stream) \in Nat /\ Len(stream) >= 1 /\ p = stream[1]
      /\ Len(stream') = Len(stream) - 1
      /\ \A i \in 1 .. Len(stream') : stream'[i] = stream[i + 1]
      /\ stream' \in Seq(Nat \ {0})
  BY <1>1, <1>3, HeadOfStream
<1>5. /\ pressed \in Nat /\ start \in Nat /\ MaxLag \in Nat
      /\ newest # None => newest \in Nat \ {0} /\ newest <= pressed
  BY <1>t, Sizes DEF Typed
<1> HIDE DEF p
<1>6. link # "down" BY <1>1, <1>t DEF InOrder
<1>7. 1 \in 1 .. Len(stream)
      /\ \A i \in 1 .. Len(stream') : i + 1 \in 1 .. Len(stream) /\ 1 < i + 1
  BY <1>4
<1>8. /\ p <= pressed
      /\ \A i \in 1 .. Len(stream') : stream'[i] <= pressed
      /\ \A i, j \in 1 .. Len(stream') : i < j => stream'[i] <= stream'[j] + MaxLag
  <2>1. p <= pressed BY <1>4, <1>7, <1>t DEF InOrder
  <2>2. ASSUME NEW i \in 1 .. Len(stream') PROVE stream'[i] <= pressed
    <3>1. stream'[i] = stream[i + 1] /\ i + 1 \in 1 .. Len(stream) BY <1>4, <1>7
    <3> QED BY <1>t, <3>1 DEF InOrder
  <2>3. ASSUME NEW i \in 1 .. Len(stream'), NEW j \in 1 .. Len(stream'), i < j
        PROVE  stream'[i] <= stream'[j] + MaxLag
    <3>1. /\ stream'[i] = stream[i + 1] /\ stream'[j] = stream[j + 1]
          /\ i + 1 \in 1 .. Len(stream) /\ j + 1 \in 1 .. Len(stream) /\ i + 1 < j + 1
      BY <1>4, <1>7, <2>3
    <3>2. stream[i + 1] <= stream[j + 1] + MaxLag BY <1>t, <3>1 DEF InOrder
    <3> QED BY <3>1, <3>2
  <2> QED BY <2>1, <2>2, <2>3
<1>9. ASSUME NEW i \in 1 .. Len(stream')
      PROVE  /\ p <= stream'[i] + MaxLag
             /\ newest # None => newest <= stream'[i] + MaxLag
  <2>1. stream'[i] = stream[i + 1] /\ i + 1 \in 1 .. Len(stream) /\ 1 < i + 1
    BY <1>4, <1>7
  <2>2. stream[1] <= stream[i + 1] + MaxLag BY <1>7, <1>t, <2>1 DEF InOrder
  <2>3. newest # None => newest <= stream[i + 1] + MaxLag BY <1>t, <2>1 DEF InOrder
  <2> QED BY <1>4, <2>1, <2>2, <2>3
<1>10. newest # None => newest <= p + MaxLag BY <1>4, <1>7, <1>t DEF InOrder
<1>11. /\ DOMAIN given' = DOMAIN given
       /\ \A q \in DOMAIN given' : given'[q] \in Nat
       /\ \A q \in DOMAIN given' : q # p => given'[q] = given[q]
  <2>1. CASE given' = given BY <1>t, <2>1 DEF Typed
  <2>2. ASSUME NEW new, given' = [given EXCEPT ![p] = new],
               p \in DOMAIN given => new \in Nat
        PROVE  /\ DOMAIN given' = DOMAIN given
               /\ \A q \in DOMAIN given' : given'[q] \in Nat
               /\ \A q \in DOMAIN given' : q # p => given'[q] = given[q]
    BY <1>t, <2>2 DEF Typed
  <2>3. CASE Called(p) BY <2>2, <2>3 DEF Called
  <2> QED BY <1>2, <2>1, <2>3
<1>12. CASE Kept /\ given' = given
  <2>1. given' = given /\ newest' = newest /\ log'.latest = log.latest
        /\ registered' = registered
    BY <1>12 DEF Kept
  <2>2. Typed' BY <1>1, <1>4, <1>t, <2>1 DEF Typed
  <2>3. InOrder' BY <1>1, <1>6, <1>8, <1>9, <2>1 DEF InOrder
  <2>4. Covered' BY <1>1, <1>t, <2>1 DEF Covered
  <2> QED BY <2>2, <2>3, <2>4 DEF LogInv
<1>13. CASE Forgotten
  <2>1. newest' = None /\ log'.latest = None /\ registered' = FALSE
    BY <1>13 DEF Forgotten
  <2>2. Typed' BY <1>1, <1>4, <1>11, <1>t, <2>1 DEF Typed
  <2>3. InOrder' BY <1>1, <1>6, <1>8, <2>1 DEF InOrder
  <2>4. Covered' BY <2>1 DEF Covered
  <2> QED BY <2>2, <2>3, <2>4 DEF LogInv
<1>14. CASE Taken(p)
  <2>1. /\ start <= p /\ ~Superseded(log, Id(p))
        /\ newest' = p /\ log'.latest = Id(p) /\ registered' \in {registered, FALSE}
    BY <1>14 DEF Taken
  <2>2. p # None BY <1>1, Sizes
  <2>3. newest # None => newest < p
    BY <1>1, <1>5, <1>10, <1>t, <2>1, CoveredIsSuperseded
  <2>4. Typed' BY <1>1, <1>4, <1>8, <1>11, <1>t, <2>1, <2>2 DEF Typed
  <2>5. InOrder' BY <1>1, <1>6, <1>8, <1>9, <2>1 DEF InOrder
  <2>6. Covered'
    <3> SUFFICES ASSUME registered, NEW q \in DOMAIN given, given'[q] > 0, start <= q
                 PROVE  q <= p
      BY <1>1, <1>11, <2>1, <2>2 DEF Covered
    <3>1. q \in Nat BY <1>t DEF Typed
    <3>2. CASE q = p BY <1>1, <3>2
    <3>3. CASE q # p
      <4>1. given[q] > 0 BY <1>11, <3>3
      <4>2. newest # None /\ q <= newest BY <1>t, <4>1 DEF Covered
      <4> QED BY <1>1, <1>5, <2>3, <3>1, <4>2
    <3> QED BY <3>2, <3>3
  <2> QED BY <2>4, <2>5, <2>6 DEF LogInv
<1> QED BY <1>2, <1>12, <1>13, <1>14

\* Every step keeps the invariant.
LEMMA LogInvStep == LogInv /\ [Next]_vars => LogInv'
<1> SUFFICES ASSUME LogInv, [Next]_vars PROVE LogInv' OBVIOUS
<1>t. Typed /\ InOrder /\ Covered BY DEF LogInv
<1>c. /\ pressed \in Nat /\ start \in Nat \ {0} /\ start <= pressed + 1 /\ MaxLag \in Nat
      /\ Len(stream) \in Nat /\ stream \in Seq(Nat \ {0})
      /\ \A i \in 1 .. Len(stream) : stream[i] \in Nat \ {0}
      /\ newest # None => newest \in Nat \ {0} /\ newest <= pressed
  BY <1>t, Sizes DEF Typed
<1>1. CASE Press
  <2>1. /\ link = "up" /\ pressed' = pressed + 1 /\ stream' = Append(stream, pressed + 1)
        /\ given' = Aged(given, pressed + 1, 0)
        /\ UNCHANGED <<start, sessions, link, registered, queued, log, newest>>
    BY <1>1 DEF Press, linkVars
  <2>2. /\ DOMAIN given' \subseteq DOMAIN given \cup {pressed + 1}
        /\ \A q \in DOMAIN given' : given'[q] = IF q = pressed + 1 THEN 0 ELSE given[q]
    BY <2>1 DEF Aged
  <2>3. /\ stream' \in Seq(Nat \ {0}) /\ Len(stream') = Len(stream) + 1
        /\ \A i \in 1 .. Len(stream) : stream'[i] = stream[i]
        /\ stream'[Len(stream) + 1] = pressed + 1
    BY <1>c, <2>1
  <2>4. Typed' BY <1>c, <1>t, <2>1, <2>2, <2>3 DEF Typed
  <2>5. InOrder'
    <3>1. ASSUME NEW i \in 1 .. Len(stream') PROVE stream'[i] <= pressed'
      <4>1. CASE i \in 1 .. Len(stream)
        <5>1. stream[i] <= pressed BY <1>t, <4>1 DEF InOrder
        <5> QED BY <1>c, <2>1, <2>3, <4>1, <5>1
      <4>2. CASE i = Len(stream) + 1 BY <1>c, <2>1, <2>3, <4>2
      <4> QED BY <1>c, <2>3, <4>1, <4>2
    <3>2. ASSUME NEW i \in 1 .. Len(stream'), NEW j \in 1 .. Len(stream'), i < j
          PROVE  stream'[i] <= stream'[j] + MaxLag
      <4>1. CASE j \in 1 .. Len(stream)
        <5>1. i \in 1 .. Len(stream) BY <1>c, <3>2, <4>1
        <5>2. stream[i] <= stream[j] + MaxLag BY <1>t, <3>2, <4>1, <5>1 DEF InOrder
        <5> QED BY <2>3, <4>1, <5>1, <5>2
      <4>2. CASE j = Len(stream) + 1
        BY <1>c, <2>1, <2>3, <3>1, <3>2, <4>2
      <4> QED BY <1>c, <2>3, <4>1, <4>2
    <3>3. ASSUME newest # None, NEW i \in 1 .. Len(stream')
          PROVE  newest <= stream'[i] + MaxLag
      <4>1. CASE i \in 1 .. Len(stream)
        <5>1. newest <= stream[i] + MaxLag BY <1>t, <3>3, <4>1 DEF InOrder
        <5> QED BY <2>3, <4>1, <5>1
      <4>2. CASE i = Len(stream) + 1
        BY <1>c, <2>3, <3>3, <4>2
      <4> QED BY <1>c, <2>3, <4>1, <4>2
    <3> QED BY <2>1, <3>1, <3>2, <3>3 DEF InOrder
  <2>6. Covered' BY <1>c, <1>t, <2>1, <2>2 DEF Covered, Typed
  <2> QED BY <2>4, <2>5, <2>6 DEF LogInv
<1>2. CASE Resend
  <2>1. PICK p \in 1 .. pressed : pressed - p <= MaxLag /\ stream' = Append(stream, p)
    BY <1>2 DEF Resend
  <2>2. link = "up" /\ UNCHANGED <<pressed, start, link, registered, queued, log, newest, given>>
    BY <1>2 DEF Resend, linkVars, historyVars
  <2>3. /\ stream' \in Seq(Nat \ {0}) /\ Len(stream') = Len(stream) + 1
        /\ \A i \in 1 .. Len(stream) : stream'[i] = stream[i]
        /\ stream'[Len(stream) + 1] = p /\ p \in Nat
    BY <1>c, <2>1
  <2>4. Typed' BY <1>t, <2>2, <2>3 DEF Typed
  <2>5. InOrder'
    <3>1. \A i \in 1 .. Len(stream) : stream[i] <= pressed
      BY <1>t DEF InOrder
    <3>2. ASSUME NEW i \in 1 .. Len(stream'), NEW j \in 1 .. Len(stream'), i < j
          PROVE  stream'[i] <= stream'[j] + MaxLag
      <4>1. CASE j \in 1 .. Len(stream)
        <5>1. i \in 1 .. Len(stream) BY <1>c, <3>2, <4>1
        <5>2. stream[i] <= stream[j] + MaxLag BY <1>t, <3>2, <4>1, <5>1 DEF InOrder
        <5> QED BY <2>3, <4>1, <5>1, <5>2
      <4>2. CASE j = Len(stream) + 1
        <5>1. i \in 1 .. Len(stream) BY <1>c, <3>2, <4>2
        <5>2. stream'[i] <= pressed BY <2>3, <3>1, <5>1
        <5> QED BY <1>c, <2>1, <2>3, <4>2, <5>1, <5>2
      <4> QED BY <1>c, <2>3, <4>1, <4>2
    <3>3. ASSUME newest # None, NEW i \in 1 .. Len(stream')
          PROVE  newest <= stream'[i] + MaxLag
      <4>1. CASE i \in 1 .. Len(stream)
        <5>1. newest <= stream[i] + MaxLag BY <1>t, <3>3, <4>1 DEF InOrder
        <5> QED BY <2>3, <4>1, <5>1
      <4>2. CASE i = Len(stream) + 1
        BY <1>c, <2>1, <2>3, <3>3, <4>2
      <4> QED BY <1>c, <2>3, <4>1, <4>2
    <3>4. \A i \in 1 .. Len(stream') : stream'[i] <= pressed'
      BY <1>c, <2>1, <2>2, <2>3, <3>1
    <3> QED BY <2>2, <3>2, <3>3, <3>4 DEF InOrder
  <2>6. Covered' BY <1>t, <2>2 DEF Covered
  <2> QED BY <2>4, <2>5, <2>6 DEF LogInv
<1>3. CASE Disconnect
  <2>1. /\ registered' = FALSE /\ stream = <<>> /\ newest' = None
        /\ log'.latest = None /\ UNCHANGED <<pressed, start, given, stream>>
    BY <1>3 DEF Disconnect, EmptyLog, clientVars
  <2>2. Typed' BY <1>t, <2>1 DEF Typed
  <2>3. InOrder' BY <1>t, <2>1 DEF InOrder
  <2>4. Covered' BY <2>1 DEF Covered
  <2> QED BY <2>2, <2>3, <2>4 DEF LogInv
<1>4. CASE Connect
  <2>1. /\ link = "down" /\ start' = pressed + 1 /\ link' = "up" /\ registered' = TRUE
        /\ UNCHANGED <<pressed, stream, log, newest, given>>
    BY <1>4 DEF Connect, clientVars, historyVars
  <2>2. stream = <<>> /\ newest = None BY <1>t, <2>1 DEF InOrder
  <2>3. Covered' BY <1>c, <1>t, <2>1 DEF Covered, Typed
  <2>4. Typed' BY <1>c, <1>t, <2>1 DEF Typed
  <2>5. InOrder' BY <1>t, <2>1, <2>2 DEF InOrder
  <2> QED BY <2>3, <2>4, <2>5 DEF LogInv
<1>5. CASE Deliver BY <1>5, DeliverStep
<1>6. CASE End
  <2>1. PICK passed \in 0 .. Len(stream) : stream' = [i \in 1 .. passed |-> stream[i]]
    BY <1>6 DEF End
  <2>2. link' = "ended" /\ UNCHANGED <<pressed, start, registered, log, newest, given>>
    BY <1>6 DEF End, historyVars
  <2>3. /\ stream' \in Seq(Nat \ {0}) /\ Len(stream') = passed
        /\ \A i \in 1 .. Len(stream') : i \in 1 .. Len(stream) /\ stream'[i] = stream[i]
    <3>1. passed \in Nat /\ passed <= Len(stream) BY <1>c, <2>1
    <3>2. \A i \in 1 .. passed : i \in 1 .. Len(stream) BY <1>c, <3>1
    <3>3. stream' \in [1 .. passed -> Nat \ {0}] BY <1>c, <2>1, <3>2
    <3>4. stream' \in Seq(Nat \ {0}) /\ Len(stream') = passed BY <3>1, <3>3
    <3> QED BY <2>1, <3>2, <3>4
  <2>4. Typed' BY <1>t, <2>2, <2>3 DEF Typed
  <2>5. InOrder' BY <1>t, <2>2, <2>3 DEF InOrder
  <2>6. Covered' BY <1>t, <2>2 DEF Covered
  <2> QED BY <2>4, <2>5, <2>6 DEF LogInv
<1>7. CASE Broadcast
  <2>1. SendTo(log, newest, 1) /\ UNCHANGED <<pressed, stream, start, link, given>>
    BY <1>7 DEF Broadcast, clientVars, linkVars
  <2>2. CASE newest' = newest /\ log' = log /\ registered' = registered
    BY <1>t, <2>1, <2>2 DEF LogInv, Typed, InOrder, Covered
  <2>3. CASE newest' = None /\ log' = EmptyLog /\ registered' = FALSE
    <3>1. log'.latest = None BY <2>3 DEF EmptyLog
    <3>2. Typed' BY <1>t, <2>1, <2>3, <3>1 DEF Typed
    <3>3. InOrder' BY <1>t, <2>1, <2>3 DEF InOrder
    <3>4. Covered' BY <2>3 DEF Covered
    <3> QED BY <3>2, <3>3, <3>4 DEF LogInv
  <2> QED BY <2>1, <2>2, <2>3, SendToCase
<1>8. CASE Drain \/ UNCHANGED vars
  <2>1. UNCHANGED <<pressed, stream, start, link, registered, log, newest, given>>
    BY <1>8 DEF Drain, vars, clientVars, linkVars, historyVars
  <2> QED BY <1>t, <2>1 DEF LogInv, Typed, InOrder, Covered
<1> QED BY <1>1, <1>2, <1>3, <1>4, <1>5, <1>6, <1>7, <1>8 DEF Next

\* A step gives a press to the adapter again only for a client that was closed.
LEMMA NotTwice ==
    LogInv /\ [Next]_vars =>
        \A p \in DOMAIN given \cap DOMAIN given' :
            given'[p] # given[p] => given[p] = 0 \/ ~registered
<1> SUFFICES ASSUME LogInv, [Next]_vars, NEW p \in DOMAIN given, p \in DOMAIN given',
                    given'[p] # given[p], registered
             PROVE  given[p] = 0
  OBVIOUS
<1>t. Typed /\ InOrder /\ Covered BY DEF LogInv
<1>1. CASE Deliver
  <2>0. Head(stream) \in Nat \ {0} /\ Called(Head(stream))
    BY <1>1, <1>t, DeliverReads, DeliverCase
  <2>1. /\ start <= Head(stream) /\ ~Superseded(log, Id(Head(stream)))
        /\ \E new : given' = [given EXCEPT ![Head(stream)] = new]
    BY <2>0 DEF Called
  <2>2. p = Head(stream) BY <2>1
  <2>3. stream # <<>> /\ Head(stream) = stream[1] /\ 1 \in 1 .. Len(stream)
    BY <1>1, <1>t, DeliverReads, HeadOfStream DEF Typed
  <2>4. newest # None => newest <= p + MaxLag BY <1>t, <2>2, <2>3 DEF InOrder
  <2>5. ~(newest # None /\ p <= newest)
    BY <1>t, <2>0, <2>1, <2>2, <2>4, CoveredIsSuperseded
  <2>6. given[p] \in Nat BY <1>t DEF Typed
  <2> QED BY <1>t, <2>1, <2>2, <2>5, <2>6 DEF Covered
<1>2. CASE Press
  <2>1. given' = Aged(given, pressed + 1, 0) BY <1>2 DEF Press
  <2>2. p # pressed + 1 BY <1>t DEF Typed
  <2> QED BY <2>1, <2>2 DEF Aged
<1>3. CASE UNCHANGED given BY <1>3
<1> QED
  BY <1>1, <1>2, <1>3 DEF Next, Resend, Drain, End, Disconnect, Connect, Broadcast, vars, historyVars

\* While the actor has the client in its registry no press is executed twice,
\* however often the sender repeats it, whatever the log has evicted, and
\* wherever the ids wrap (action_dedup.rs, strip_answered and record).
THEOREM PressesExecuteOnce == Spec => OnceWhileRegistered
<1>1. Init => LogInv
  BY Sizes DEF Init, LogInv, Typed, InOrder, Covered, EmptyLog
<1>2. LogInv /\ [Next]_vars => LogInv' BY LogInvStep
<1>3. LogInv /\ [Next]_vars =>
         [\A p \in DOMAIN given \cap DOMAIN given' :
             given'[p] # given[p] => given[p] = 0 \/ ~registered]_vars
  BY NotTwice
<1> QED BY <1>1, <1>2, <1>3, PTL DEF Spec, OnceWhileRegistered

-----------------------------------------------------------------------------
(* What the log answers.                                                   *)

\* Between the newest press and the next one that may execute lie at most so
\* many, less one.
Reach == IF MaxGap > MaxLag THEN MaxGap ELSE MaxLag + 1

\* The sizes again, as far as the answers need them.
LEMMA ReachIs ==
    /\ Reach \in Nat \ {0} /\ MaxGap \in Nat /\ MaxGap <= Reach
    /\ \A n \in Int : n <= MaxLag \/ n < MaxGap => n < Reach
    /\ Reach + 1 <= Half
    /\ Cached \in Nat \ {0} /\ Cached * Reach \in Nat /\ Cached * Reach < IdMod - 1
    /\ {MaxStream, Remembered} \subseteq Nat /\ MaxLag + MaxStream <= Remembered
<1>1. /\ MaxGap \in Nat /\ MaxGap < Half /\ MaxLag \in Nat /\ MaxLag + 2 <= Half /\ Half \in Nat
      /\ Cached \in Nat \ {0} /\ {MaxStream, Remembered} \subseteq Nat
      /\ MaxLag + MaxStream <= Remembered /\ IdMod \in Nat
      /\ Cached * (MaxGap + MaxLag + 1) + MaxLag < IdMod - 1
  BY ActionLogAssumption, Sizes
<1>2. /\ Reach \in Nat \ {0} /\ MaxGap <= Reach /\ Reach + 1 <= Half
      /\ \A n \in Int : n <= MaxLag \/ n < MaxGap => n < Reach
      /\ Reach <= MaxGap + MaxLag + 1
  BY <1>1 DEF Reach
<1>3. \A a, b, c \in Nat : b <= c => a * b \in Nat /\ a * c \in Nat /\ a * b <= a * c
  OBVIOUS
<1>4. Cached * Reach \in Nat /\ Cached * (MaxGap + MaxLag + 1) \in Nat
      /\ Cached * Reach <= Cached * (MaxGap + MaxLag + 1)
  BY <1>1, <1>2, <1>3
<1> QED BY <1>1, <1>2, <1>4

\* Presses of one id are a turn of the ids apart.
LEMMA IdsApart ==
    ASSUME NEW p \in Nat \ {0}, NEW q \in Nat \ {0}, Id(p) = Id(q),
           p - q < IdMod - 1, q - p < IdMod - 1
    PROVE  p = q
<1> DEFINE m == IdMod - 1
<1>1. PICK a \in Int : Id(p) = p + m * a BY IdOf
<1>2. PICK b \in Int : Id(q) = q + m * b BY IdOf
<1>3. m \in Nat \ {0} BY Sizes
<1> DEFINE d == b - a
<1>4. d \in Int /\ m * b - m * a = m * d /\ m * a \in Int /\ m * b \in Int BY <1>3
<1>5. p - q < m /\ q - p < m OBVIOUS
<1> HIDE DEF m, d
<1>6. p - q = m * d /\ m * d \in Int
  <2>1. p + m * a = q + m * b BY <1>1, <1>2
  <2>2. m * d \in Int BY <1>3, <1>4
  <2> QED BY <1>4, <2>1, <2>2
<1>7. ~(d >= 1)
  <2> SUFFICES ASSUME d >= 1 PROVE FALSE OBVIOUS
  <2>1. m * d >= m * 1 BY <1>3, <1>4
  <2> QED BY <1>3, <1>5, <1>6, <2>1
<1>8. ~(d <= -1)
  <2> SUFFICES ASSUME d <= -1 PROVE FALSE OBVIOUS
  <2>1. m * d <= m * (-1) BY <1>3, <1>4
  <2> QED BY <1>3, <1>5, <1>6, <2>1
<1>9. d = 0 BY <1>4, <1>7, <1>8
<1> QED BY <1>3, <1>6, <1>9

\* A press within reach of the newest one advances.
LEMMA NewIsAhead ==
    ASSUME NEW n \in Nat \ {0}, NEW p \in Nat \ {0}, n < p, p <= n + Reach
    PROVE  Advances(Id(n), Id(p))
<1> DEFINE m == IdMod - 1
           x == Id(p) - Id(n)
<1>1. /\ IdMod \in Nat \ {0} /\ Half \in Nat /\ 2 * Half <= m /\ m \in Nat \ {0}
      /\ Reach \in Nat /\ Reach + 1 <= Half
  BY Sizes, ReachIs
<1>2. PICK a \in Int : Id(p) = p + m * a BY IdOf
<1>3. PICK b \in Int : Id(n) = n + m * b BY IdOf
<1>4. Id(p) \in 1 .. m /\ Id(n) \in 1 .. m BY IdOf
<1> DEFINE d == a - b
<1>5. d \in Int /\ m * a - m * b = m * d /\ m * a \in Int /\ m * b \in Int BY <1>1
<1>m. IdMod = m + 1 BY <1>1
<1> HIDE DEF m, d
<1>6. x = p - n + m * d /\ m * d \in Int BY <1>1, <1>2, <1>3, <1>5
<1>7. -2 * m < m * d /\ m * d < m BY <1>1, <1>4, <1>6
<1>8. ~(d >= 1)
  <2> SUFFICES ASSUME d >= 1 PROVE FALSE OBVIOUS
  <2>1. m * d >= m * 1 BY <1>1, <1>5
  <2> QED BY <1>1, <1>6, <1>7, <2>1
<1>9. ~(d <= -2)
  <2> SUFFICES ASSUME d <= -2 PROVE FALSE OBVIOUS
  <2>1. m * d <= m * (-2) BY <1>1, <1>5
  <2> QED BY <1>1, <1>6, <1>7, <2>1
<1>10. x = p - n \/ x = p - n - m
  <2>1. d = 0 \/ d = -1 BY <1>5, <1>8, <1>9
  <2>2. CASE d = 0 BY <1>1, <1>6, <2>2
  <2>3. CASE d = -1 BY <1>1, <1>6, <2>3
  <2> QED BY <2>1, <2>2, <2>3
<1>11. x \in Int /\ -IdMod < x /\ x < IdMod BY <1>1, <1>10, <1>m
<1> HIDE DEF x
<1>12. x % IdMod = IF x < 0 THEN x + IdMod ELSE x BY <1>1, <1>11, SmallRemainder
<1>13. x % IdMod # 0 /\ x % IdMod <= Half BY <1>1, <1>10, <1>12, <1>m
<1> QED BY <1>13 DEF Advances, x

\* The history is of the newest presses.
HistoryInv ==
    /\ DOMAIN given = {q \in 1 .. pressed : q + Remembered > pressed}
    /\ DOMAIN outcome = DOMAIN given

\* The presses up to d were delivered, and those after it are still to come, each
\* behind the one before.
Delivered(d) ==
    /\ d <= pressed
    /\ newest # None => newest <= d /\ d < newest + Reach
    /\ link = "up" => \A x \in d + 1 .. pressed : \E i \in 1 .. Len(stream) : stream[i] = x
    /\ \A i \in 1 .. Len(stream) :
          /\ stream[i] > d + 1 => \E j \in 1 .. i - 1 : stream[j] = stream[i] - 1
          /\ d <= stream[i] + MaxLag

DeliveredInv == \E d \in Nat : Delivered(d)

\* What may still be delivered is young.
Recent ==
    /\ Len(stream) <= MaxStream
    /\ \A i \in 1 .. Len(stream) :
          /\ stream[i] + MaxLag + MaxStream > pressed
          /\ link = "up" => stream[i] + MaxLag + (Len(stream) - i) >= pressed

\* The i-th of the cached results is that of the press q.
Stands(i, q) ==
    /\ log.order[i] = Id(q)
    /\ q <= newest /\ newest <= q + (Len(log.order) - i) * Reach
    /\ q \in DOMAIN outcome =>
          /\ log.results[Id(q)] = outcome[q]
          /\ log.results[Id(q)] => given[q] > 0

CacheInv ==
    /\ log.order \in Seq(Int) /\ Len(log.order) <= Cached
    /\ DOMAIN log.results = {log.order[i] : i \in 1 .. Len(log.order)}
    /\ \A id \in DOMAIN log.results : log.results[id] \in BOOLEAN
    /\ newest = None => log.order = <<>>
    /\ newest # None => log.order # <<>> /\ log.order[Len(log.order)] = Id(newest)
    /\ \A i \in 1 .. Len(log.order) : \E q \in Nat \ {0} : Stands(i, q)

AnswerInv == HistoryInv /\ DeliveredInv /\ Recent /\ CacheInv

\* A press that is due now, with the id of a cached result, is that press.
LEMMA CachedIs ==
    ASSUME Typed, CacheInv, NEW p \in Nat \ {0}, newest <= p + MaxLag, p <= newest + Reach,
           NEW i \in 1 .. Len(log.order), NEW q \in Nat \ {0}, Stands(i, q), Id(p) = Id(q)
    PROVE  p = q
<1> DEFINE n == Len(log.order)
<1>1. n \in Nat /\ i \in Nat /\ 1 <= i /\ i <= n /\ n <= Cached BY DEF CacheInv
<1>2. newest # None BY <1>1 DEF CacheInv
<1>3. newest \in Nat BY <1>2 DEF Typed
<1>4. /\ Reach \in Nat \ {0} /\ Cached \in Nat \ {0} /\ Cached * Reach \in Nat
      /\ Cached * Reach < IdMod - 1 /\ MaxLag \in Nat /\ MaxLag < IdMod - 1 /\ IdMod \in Nat
  BY ReachIs, Sizes
<1>5. q <= newest /\ newest <= q + (n - i) * Reach BY DEF Stands
<1> HIDE DEF n
<1>6. \A a, b, c \in Nat : a + 1 <= b => a * c \in Nat /\ b * c \in Nat /\ a * c + c <= b * c
  <2> TAKE a \in Nat, b \in Nat, c \in Nat
  <2> HAVE a + 1 <= b
  <2>1. \A x, y, z \in Nat : x <= y => x * z \in Nat /\ y * z \in Nat /\ x * z <= y * z
    OBVIOUS
  <2>2. (a + 1) * c <= b * c /\ a * c \in Nat /\ b * c \in Nat BY <2>1
  <2>3. (a + 1) * c = a * c + c OBVIOUS
  <2> QED BY <2>2, <2>3
<1>7. n - i \in Nat /\ (n - i) + 1 <= Cached BY <1>1, <1>4
<1>8. (n - i) * Reach \in Nat /\ (n - i) * Reach + Reach <= Cached * Reach
  BY <1>4, <1>6, <1>7
<1>9. p - q < IdMod - 1 BY <1>3, <1>4, <1>5, <1>8
<1>10. q - p < IdMod - 1 BY <1>3, <1>4, <1>5
<1> QED BY <1>9, <1>10, IdsApart

\* What the next delivery is of, and what is delivered after it.
LEMMA NextDelivery ==
    ASSUME LogInv, AnswerInv, Deliver
    PROVE  /\ Head(stream) \in DOMAIN given
           /\ newest # None => newest <= Head(stream) + MaxLag /\ Head(stream) <= newest + Reach
           /\ Recent'
           /\ \E d \in Nat :
                 /\ newest # None => newest <= d /\ d < newest + Reach
                 /\ Head(stream) <= d \/ Head(stream) = d + 1
                 /\ d <= Head(stream) + MaxLag
                 /\ \A e \in {d, Head(stream)} :
                       /\ d <= e /\ Head(stream) <= e
                       /\ newest' # None => newest' <= e /\ e < newest' + Reach
                       => Delivered(e)'
<1> DEFINE p == Head(stream)
<1>t. /\ Typed /\ InOrder /\ HistoryInv /\ DeliveredInv /\ Recent
  BY DEF LogInv, AnswerInv
<1>1. /\ stream # <<>> /\ stream' = Tail(stream) /\ p \in Nat \ {0}
      /\ pressed' = pressed /\ link' = link
  BY <1>t, DeliverReads
<1>2. stream \in Seq(Nat \ {0}) /\ pressed \in Nat /\ (newest # None => newest \in Nat \ {0})
  BY <1>t DEF Typed
<1>3. /\ Len(stream) \in Nat /\ Len(stream) >= 1 /\ p = stream[1]
      /\ Len(stream') = Len(stream) - 1
      /\ \A i \in 1 .. Len(stream') : stream'[i] = stream[i + 1]
  BY <1>1, <1>2, HeadOfStream
<1>4. \A i \in 1 .. Len(stream) : stream[i] \in Nat \ {0} BY <1>2
<1>5. /\ MaxLag \in Nat /\ {MaxStream, Remembered} \subseteq Nat
      /\ MaxLag + MaxStream <= Remembered /\ Reach \in Nat \ {0}
  BY Sizes, ReachIs
<1>6. PICK d \in Nat : Delivered(d) BY <1>t DEF DeliveredInv
<1> HIDE DEF p
<1>7. 1 \in 1 .. Len(stream)
      /\ \A i \in 1 .. Len(stream') : i + 1 \in 1 .. Len(stream)
  BY <1>3
<1>8. p <= pressed /\ (newest # None => newest <= p + MaxLag)
  BY <1>3, <1>7, <1>t DEF InOrder
<1>9. p + Remembered > pressed
  <2>1. p + MaxLag + MaxStream > pressed BY <1>3, <1>7, <1>t DEF Recent
  <2> QED BY <1>1, <1>2, <1>5, <2>1
<1>10. p \in DOMAIN given BY <1>1, <1>2, <1>8, <1>9, <1>t DEF HistoryInv
<1>11. p <= d + 1
  <2> SUFFICES ASSUME ~(p <= d + 1) PROVE FALSE OBVIOUS
  <2>1. p > d + 1 BY <1>1
  <2>2. \E j \in 1 .. 1 - 1 : stream[j] = stream[1] - 1
    BY <1>3, <1>6, <1>7, <2>1 DEF Delivered
  <2> QED BY <2>2
<1>12. newest # None => newest <= d /\ d < newest + Reach BY <1>6 DEF Delivered
<1>13. newest # None => p <= newest + Reach BY <1>1, <1>2, <1>5, <1>11, <1>12
<1>14. Recent'
  <2>1. Len(stream') <= MaxStream BY <1>3, <1>5, <1>t DEF Recent
  <2>2. ASSUME NEW i \in 1 .. Len(stream')
        PROVE  /\ stream'[i] + MaxLag + MaxStream > pressed
               /\ link = "up" => stream'[i] + MaxLag + (Len(stream') - i) >= pressed
    <3>1. i + 1 \in 1 .. Len(stream) /\ stream'[i] = stream[i + 1] BY <1>3, <1>7
    <3>2. /\ stream[i + 1] + MaxLag + MaxStream > pressed
          /\ link = "up" => stream[i + 1] + MaxLag + (Len(stream) - (i + 1)) >= pressed
      BY <1>t, <3>1 DEF Recent
    <3>3. Len(stream') - i = Len(stream) - (i + 1) BY <1>3
    <3> QED BY <3>1, <3>2, <3>3
  <2> QED BY <1>1, <2>1, <2>2 DEF Recent
<1>15. ASSUME NEW e \in {d, p}, d <= e, p <= e,
              newest' # None => newest' <= e /\ e < newest' + Reach
       PROVE  Delivered(e)'
  <2>0. e \in Nat /\ e <= pressed BY <1>1, <1>6, <1>8 DEF Delivered
  <2>1. ASSUME link = "up", NEW x \in e + 1 .. pressed
        PROVE  \E i \in 1 .. Len(stream') : stream'[i] = x
    <3>1. x \in d + 1 .. pressed /\ x # p BY <1>1, <1>15, <2>0
    <3>2. PICK i \in 1 .. Len(stream) : stream[i] = x BY <1>6, <2>1, <3>1 DEF Delivered
    <3>3. i # 1 BY <1>3, <3>1, <3>2
    <3>4. i - 1 \in 1 .. Len(stream') /\ stream'[i - 1] = stream[(i - 1) + 1] /\ (i - 1) + 1 = i
      BY <1>3, <3>3
    <3> QED BY <3>2, <3>4
  <2>2. ASSUME NEW i \in 1 .. Len(stream'), stream'[i] > e + 1
        PROVE  \E j \in 1 .. i - 1 : stream'[j] = stream'[i] - 1
    <3>1. i + 1 \in 1 .. Len(stream) /\ stream'[i] = stream[i + 1] BY <1>3, <1>7
    <3>2. stream[i + 1] > d + 1 BY <1>4, <1>15, <2>0, <2>2, <3>1
    <3>3. PICK j \in 1 .. (i + 1) - 1 : stream[j] = stream[i + 1] - 1
      BY <1>6, <3>1, <3>2 DEF Delivered
    <3>4. j # 1 BY <1>1, <1>3, <1>4, <1>15, <2>0, <2>2, <3>1, <3>3
    <3>5. /\ j - 1 \in 1 .. i - 1 /\ j - 1 \in 1 .. Len(stream')
          /\ stream'[j - 1] = stream[(j - 1) + 1] /\ (j - 1) + 1 = j
      BY <1>3, <3>4
    <3> QED BY <3>1, <3>3, <3>5
  <2>3. ASSUME NEW i \in 1 .. Len(stream') PROVE e <= stream'[i] + MaxLag
    <3>1. i + 1 \in 1 .. Len(stream) /\ stream'[i] = stream[i + 1] /\ 1 < i + 1
      BY <1>3, <1>7
    <3>2. d <= stream[i + 1] + MaxLag BY <1>6, <3>1 DEF Delivered
    <3>3. stream[1] <= stream[i + 1] + MaxLag BY <1>7, <1>t, <3>1 DEF InOrder
    <3> QED BY <1>3, <3>1, <3>2, <3>3
  <2> QED BY <1>1, <1>15, <2>0, <2>1, <2>2, <2>3 DEF Delivered
<1>16. p <= d \/ p = d + 1 BY <1>1, <1>11
<1>18. d <= p + MaxLag BY <1>3, <1>6, <1>7 DEF Delivered
<1>17. \E f \in Nat :
                 /\ newest # None => newest <= f /\ f < newest + Reach
                 /\ p <= f \/ p = f + 1
                 /\ f <= p + MaxLag
                 /\ \A e \in {f, p} :
                       /\ f <= e /\ p <= e
                       /\ newest' # None => newest' <= e /\ e < newest' + Reach
                       => Delivered(e)'
  BY <1>12, <1>15, <1>16, <1>18
<1> QED BY <1>8, <1>10, <1>13, <1>14, <1>17 DEF p

\* r is l with one result more: it is written at the end, and pushes the oldest
\* out of a full log.
WithResult(l, id, accepted, r) ==
    LET n == Len(l.order)
    IN  /\ r.order \in Seq(Int) /\ r.order # <<>>
        /\ r.order[Len(r.order)] = id
        /\ DOMAIN r.results = {r.order[i] : i \in 1 .. Len(r.order)}
        /\ \A k \in DOMAIN r.results :
              r.results[k] = IF k = id THEN accepted ELSE l.results[k]
        /\ \A k \in DOMAIN r.results : k = id \/ k \in DOMAIN l.results
        /\ \E s \in {0, 1} :
              /\ Len(r.order) = n + 1 - s /\ Len(r.order) <= Cached
              /\ \A i \in 1 .. Len(r.order) - 1 :
                    /\ i + s \in 1 .. n /\ r.order[i] = l.order[i + s]

\* record writes a result that the log does not have.
LEMMA RecordedLog ==
    ASSUME NEW l, l.order \in Seq(Int), Len(l.order) <= Cached, NEW id \in Int,
           DOMAIN l.results = {l.order[i] : i \in 1 .. Len(l.order)}, id \notin DOMAIN l.results,
           NEW accepted \in BOOLEAN
    PROVE  WithResult(l, id, accepted, Recorded(l, id, accepted))
<1> DEFINE n == Len(l.order)
           all == Append(l.order, id)
           kept == IF Len(all) > Cached THEN Tail(all) ELSE all
           r == Recorded(l, id, accepted)
           s == IF Len(all) > Cached THEN 1 ELSE 0
<1>1. /\ n \in Nat /\ n <= Cached /\ Cached \in Nat \ {0}
      /\ all \in Seq(Int) /\ Len(all) = n + 1
      /\ all[n + 1] = id /\ \A i \in 1 .. n : all[i] = l.order[i]
  BY ReachIs
<1>2. /\ r.order = kept
      /\ r.results = [k \in {kept[j] : j \in 1 .. Len(kept)} |->
                         IF k = id THEN accepted ELSE l.results[k]]
  BY DEF Recorded
<1>3. /\ s \in {0, 1} /\ kept \in Seq(Int) /\ Len(kept) = n + 1 - s /\ Len(kept) >= 1
      /\ \A i \in 1 .. Len(kept) : kept[i] = all[i + s]
  <2>1. CASE Len(all) > Cached
    <3>1. Tail(all) \in Seq(Int) /\ Len(Tail(all)) = n BY <1>1
    <3>2. \A i \in 1 .. Len(Tail(all)) : Tail(all)[i] = all[i + 1] BY <1>1
    <3>3. kept = Tail(all) /\ s = 1 BY <2>1
    <3>4. n >= 1 BY <1>1, <2>1
    <3> HIDE DEF kept, s, all, n
    <3>5. n + 1 - s = n BY <1>1, <3>3
    <3> QED BY <1>1, <3>1, <3>2, <3>3, <3>4, <3>5
  <2>2. CASE ~(Len(all) > Cached) BY <1>1, <2>2
  <2> QED BY <2>1, <2>2
<1>n. DOMAIN l.results = {l.order[i] : i \in 1 .. n} OBVIOUS
<1>a. Len(all) > Cached <=> s = 1 BY <1>1
<1> HIDE DEF kept, all, s, n
<1>4. Len(kept) <= Cached BY <1>1, <1>3, <1>a
<1>5. Len(kept) \in Nat /\ Len(kept) >= 1 /\ kept[Len(kept)] = id
  <2>1. Len(kept) \in Nat /\ Len(kept) >= 1 /\ Len(kept) \in 1 .. Len(kept) BY <1>3
  <2>2. kept[Len(kept)] = all[Len(kept) + s] /\ Len(kept) + s = n + 1 BY <1>1, <1>3, <2>1
  <2> QED BY <1>1, <2>1, <2>2
<1>6. ASSUME NEW i \in 1 .. Len(kept) - 1
      PROVE  i + s \in 1 .. n /\ kept[i] = l.order[i + s]
  <2>1. i + s \in 1 .. n BY <1>1, <1>3
  <2>2. i \in 1 .. Len(kept) BY <1>3, <1>5
  <2> QED BY <1>1, <1>3, <2>1, <2>2
<1>7. ASSUME NEW k \in {kept[j] : j \in 1 .. Len(kept)}
      PROVE  k = id \/ k \in DOMAIN l.results
  <2>1. PICK j \in 1 .. Len(kept) : k = kept[j] BY <1>7
  <2>2. CASE j = Len(kept) BY <1>5, <2>1, <2>2
  <2>3. CASE j # Len(kept)
    <3>1. j \in 1 .. Len(kept) - 1 BY <1>5, <2>3
    <3> QED BY <1>6, <1>n, <2>1, <3>1
  <2> QED BY <2>2, <2>3
<1>8. kept # <<>> BY <1>5
<1>9. /\ r.order \in Seq(Int) /\ r.order # <<>> /\ r.order[Len(r.order)] = id
      /\ DOMAIN r.results = {r.order[i] : i \in 1 .. Len(r.order)}
      /\ \A k \in DOMAIN r.results :
            r.results[k] = IF k = id THEN accepted ELSE l.results[k]
      /\ \A k \in DOMAIN r.results : k = id \/ k \in DOMAIN l.results
  BY <1>2, <1>3, <1>5, <1>7, <1>8
<1>10. /\ s \in {0, 1} /\ Len(r.order) = n + 1 - s /\ Len(r.order) <= Cached
       /\ \A i \in 1 .. Len(r.order) - 1 : i + s \in 1 .. n /\ r.order[i] = l.order[i + s]
  BY <1>2, <1>3, <1>4, <1>6
<1>11. \E f \in {0, 1} :
          /\ Len(r.order) = n + 1 - f /\ Len(r.order) <= Cached
          /\ \A i \in 1 .. Len(r.order) - 1 : i + f \in 1 .. n /\ r.order[i] = l.order[i + f]
  BY <1>10
<1> QED BY <1>9, <1>11, Zenon DEF n, r, WithResult

\* An empty log stands for no press.
LEMMA EmptyCache ==
    ASSUME newest' = None, log' = EmptyLog
    PROVE  CacheInv'
<1>1. Cached \in Nat BY ReachIs
<1>2. /\ log'.order \in Seq(Int) /\ Len(log'.order) = 0 /\ log'.order = <<>>
      /\ DOMAIN log'.results = {}
  BY DEF EmptyLog
<1> QED BY <1>1, <1>2 DEF CacheInv

\* An untouched log stands for what it stood for.
LEMMA SameCache ==
    ASSUME CacheInv, newest' = newest, log' = log, given' = given, outcome' = outcome
    PROVE  CacheInv'
BY DEF CacheInv, Stands

\* The press is taken by the adapter or refused.
Takes(p, accepted) ==
    /\ outcome' = [outcome EXCEPT ![p] = accepted]
    /\ \E new : given' = [given EXCEPT ![p] = new] /\ (accepted => new > 0)

\* A result that is recorded is the one of the newest press.
LEMMA RecordedCache ==
    ASSUME Typed, CacheInv, HistoryInv, NEW p \in Nat \ {0}, NEW accepted \in BOOLEAN,
           p \in DOMAIN given, Id(p) \notin DOMAIN log.results, p # None,
           newest # None => newest < p /\ p <= newest + Reach,
           Takes(p, accepted), newest' = p,
           \/ log' = Recorded(log, Id(p), accepted)
           \/ ~accepted /\ log' = Recorded(EmptyLog, Id(p), FALSE)
    PROVE  CacheInv'
<1>1. Id(p) \in Int /\ Cached \in Nat \ {0} /\ Reach \in Nat \ {0} BY IdOf, Sizes, ReachIs
<1>2. newest # None => newest \in Nat BY DEF Typed
<1>3. /\ DOMAIN given' = DOMAIN given /\ DOMAIN outcome' = DOMAIN outcome
      /\ outcome'[p] = accepted /\ (accepted => given'[p] > 0)
      /\ \A q \in DOMAIN outcome : q # p => given'[q] = given[q] /\ outcome'[q] = outcome[q]
      /\ p \in DOMAIN outcome
  BY DEF Takes, HistoryInv
<1>4. PICK l : /\ log' = Recorded(l, Id(p), accepted)
               /\ l = log \/ l = EmptyLog
  BY Zenon
<1>5. /\ l.order \in Seq(Int) /\ Len(l.order) <= Cached /\ Id(p) \notin DOMAIN l.results
      /\ DOMAIN l.results = {l.order[i] : i \in 1 .. Len(l.order)}
      /\ \A id \in DOMAIN l.results : l.results[id] \in BOOLEAN
  <2>1. CASE l = log BY <2>1 DEF CacheInv
  <2>2. CASE l = EmptyLog
    <3>1. l.order = <<>> /\ l.results = <<>> BY <2>2 DEF EmptyLog
    <3> QED BY <1>1, <3>1
  <2> QED BY <1>4, <2>1, <2>2
<1>6. ASSUME NEW i \in 1 .. Len(l.order)
      PROVE  /\ newest # None
             /\ \E q \in Nat \ {0} :
                /\ l.order[i] = Id(q)
                /\ q <= newest /\ newest <= q + (Len(l.order) - i) * Reach
                /\ q \in DOMAIN outcome =>
                      l.results[Id(q)] = outcome[q] /\ (l.results[Id(q)] => given[q] > 0)
  <2>1. l = log
    <3>1. l = EmptyLog => Len(l.order) = 0 BY DEF EmptyLog
    <3> QED BY <1>4, <1>6, <3>1
  <2>2. newest # None BY <1>6, <2>1 DEF CacheInv
  <2>3. PICK q \in Nat \ {0} : Stands(i, q) BY <1>6, <2>1 DEF CacheInv
  <2> QED BY <2>1, <2>2, <2>3 DEF Stands
<1> DEFINE r == Recorded(l, Id(p), accepted)
           n == Len(l.order)
<1>7. /\ r.order \in Seq(Int) /\ r.order # <<>> /\ r.order[Len(r.order)] = Id(p)
      /\ DOMAIN r.results = {r.order[i] : i \in 1 .. Len(r.order)}
      /\ \A k \in DOMAIN r.results :
            r.results[k] = IF k = Id(p) THEN accepted ELSE l.results[k]
      /\ \A k \in DOMAIN r.results : k = Id(p) \/ k \in DOMAIN l.results
      /\ \E s \in {0, 1} :
            /\ Len(r.order) = n + 1 - s /\ Len(r.order) <= Cached
            /\ \A i \in 1 .. Len(r.order) - 1 : i + s \in 1 .. n /\ r.order[i] = l.order[i + s]
  <2>1. WithResult(l, Id(p), accepted, Recorded(l, Id(p), accepted))
    BY <1>1, <1>5, RecordedLog, ZenonT(40)
  <2> HIDE DEF r
  <2>2. WithResult(l, Id(p), accepted, r) BY <2>1, Zenon DEF r
  <2> QED BY <2>2, Zenon DEF WithResult
<1>8. n \in Nat BY <1>5
<1>9. log' = r BY <1>4
<1>13. /\ \A i \in 1 .. n :
            /\ newest # None
            /\ \E q \in Nat \ {0} :
                /\ l.order[i] = Id(q)
                /\ q <= newest /\ newest <= q + (n - i) * Reach
                /\ q \in DOMAIN outcome =>
                      l.results[Id(q)] = outcome[q] /\ (l.results[Id(q)] => given[q] > 0)
       /\ DOMAIN l.results = {l.order[i] : i \in 1 .. n}
  BY <1>5, <1>6
<1> HIDE DEF r, n
<1>10. PICK s \in {0, 1} :
            /\ Len(r.order) = n + 1 - s /\ Len(r.order) <= Cached
            /\ \A i \in 1 .. Len(r.order) - 1 : i + s \in 1 .. n /\ r.order[i] = l.order[i + s]
  BY <1>7
<1>11. \A id \in DOMAIN r.results : r.results[id] \in BOOLEAN BY <1>5, <1>7
<1>12. ASSUME NEW i \in 1 .. Len(r.order)
       PROVE  \E q \in Nat \ {0} : Stands(i, q)'
  <2>1. CASE i = Len(r.order)
    <3>1. r.order[i] = Id(p) /\ Id(p) \in DOMAIN r.results BY <1>7, <1>12, <2>1
    <3>2. r.results[Id(p)] = accepted BY <1>7, <3>1
    <3>3. (Len(r.order) - i) * Reach = 0 BY <1>1, <1>7, <1>12, <2>1
    <3>4. Stands(i, p)' BY <1>3, <1>9, <3>1, <3>2, <3>3 DEF Stands
    <3> QED BY <3>4
  <2>2. CASE i # Len(r.order)
    <3>1. /\ Len(r.order) \in Nat /\ i \in 1 .. Len(r.order) - 1
          /\ i + s \in 1 .. n /\ r.order[i] = l.order[i + s]
          /\ Len(r.order) - i = (n - (i + s)) + 1 /\ n - (i + s) \in Nat
      <4>1. Len(r.order) \in Nat BY <1>8, <1>10
      <4>2. i \in 1 .. Len(r.order) - 1 BY <1>12, <2>2, <4>1
      <4>3. i + s \in 1 .. n /\ r.order[i] = l.order[i + s] BY <1>10, <4>2
      <4>4. i \in Nat /\ s \in Nat /\ Len(r.order) = n + 1 - s BY <1>10, <4>2
      <4>5. Len(r.order) - i = (n - (i + s)) + 1 /\ n - (i + s) \in Nat
        BY <1>8, <4>3, <4>4, SMTT(30)
      <4> QED BY <4>1, <4>2, <4>3, <4>5
    <3>2. PICK q \in Nat \ {0} :
                /\ l.order[i + s] = Id(q)
                /\ q <= newest /\ newest <= q + (n - (i + s)) * Reach
                /\ q \in DOMAIN outcome =>
                      l.results[Id(q)] = outcome[q] /\ (l.results[Id(q)] => given[q] > 0)
      BY <1>13, <3>1
    <3>3. newest # None /\ newest \in Nat /\ newest < p /\ p <= newest + Reach
      BY <1>2, <1>13, <3>1
    <3>4. \A a, b \in Nat : (a + 1) * b = a * b + b /\ a * b \in Nat OBVIOUS
    <3>5. /\ (Len(r.order) - i) * Reach = (n - (i + s)) * Reach + Reach
          /\ (n - (i + s)) * Reach \in Nat
      BY <1>1, <3>1, <3>4
    <3>6. q <= p /\ p <= q + (Len(r.order) - i) * Reach
      BY <1>1, <3>2, <3>3, <3>5, SMTT(30)
    <3>7. Id(q) \in DOMAIN l.results /\ Id(q) # Id(p) BY <1>5, <1>13, <3>1, <3>2
    <3>8. Id(q) \in DOMAIN r.results
      <4>1. r.order[i] = Id(q) BY <3>1, <3>2
      <4> QED BY <1>7, <1>12, <4>1
    <3>9. r.results[Id(q)] = l.results[Id(q)] BY <1>7, <3>7, <3>8
    <3>10. q # p BY <3>7
    <3>11. Stands(i, q)' BY <1>3, <1>9, <3>1, <3>2, <3>6, <3>9, <3>10 DEF Stands
    <3> QED BY <3>11
  <2> QED BY <2>1, <2>2
<1>14. /\ r.order \in Seq(Int) /\ Len(r.order) <= Cached
       /\ DOMAIN r.results = {r.order[i] : i \in 1 .. Len(r.order)}
       /\ r.order # <<>> /\ r.order[Len(r.order)] = Id(p)
  BY <1>7, <1>10
<1>15. newest' # None OBVIOUS
<1> QED BY <1>9, <1>11, <1>12, <1>14, <1>15 DEF CacheInv

\* What a delivery makes of the newest press and the log, and what it answers.
Answering(p) ==
    /\ CacheInv' /\ HistoryInv' /\ AnswersAreTrue'
    /\ newest' # None => \/ newest' = newest /\ (p > newest => p - newest < MaxGap)
                         \/ newest' = p

\* A press that the log answers or refuses is known to it.
LEMMA LogKnows ==
    ASSUME Typed, CacheInv, NEW p \in Nat \ {0},
           newest # None => newest <= p + MaxLag /\ p <= newest + Reach
    PROVE  /\ Id(p) \in DOMAIN log.results =>
                 /\ newest # None /\ p <= newest
                 /\ p \in DOMAIN outcome =>
                       /\ log.results[Id(p)] = outcome[p]
                       /\ log.results[Id(p)] => given[p] > 0
           /\ Id(p) \notin DOMAIN log.results =>
                 /\ newest # None /\ Superseded(log, Id(p)) => p < newest
                 /\ newest # None /\ ~Superseded(log, Id(p)) => newest < p
<1>1. /\ newest # None => newest \in Nat \ {0}
      /\ log.latest = IF newest = None THEN None ELSE Id(newest)
  BY DEF Typed
<1>2. ASSUME Id(p) \in DOMAIN log.results
      PROVE  /\ newest # None /\ p <= newest
             /\ p \in DOMAIN outcome =>
                   /\ log.results[Id(p)] = outcome[p]
                   /\ log.results[Id(p)] => given[p] > 0
  <2>1. PICK i \in 1 .. Len(log.order) : log.order[i] = Id(p) BY <1>2 DEF CacheInv
  <2>2. PICK q \in Nat \ {0} : Stands(i, q) BY <2>1 DEF CacheInv
  <2>3. newest # None BY <2>1 DEF CacheInv
  <2>4. Id(p) = Id(q) BY <2>1, <2>2 DEF Stands
  <2>5. p = q BY <2>2, <2>3, <2>4, CachedIs
  <2> QED BY <2>2, <2>3, <2>5 DEF Stands
<1>3. ASSUME Id(p) \notin DOMAIN log.results, newest # None
      PROVE  /\ Superseded(log, Id(p)) => p < newest
             /\ ~Superseded(log, Id(p)) => newest < p
  <2>1. Len(log.order) \in Nat /\ Len(log.order) >= 1
    <3>1. log.order \in Seq(Int) /\ log.order # <<>> BY <1>3 DEF CacheInv
    <3> QED BY <3>1
  <2>2. Id(newest) \in DOMAIN log.results
    <3>1. Len(log.order) \in 1 .. Len(log.order) BY <2>1
    <3> QED BY <1>3, <3>1 DEF CacheInv
  <2>3. p # newest BY <1>3, <2>2
  <2>4. p > newest => ~Superseded(log, Id(p))
    <3>1. p > newest => Advances(Id(newest), Id(p)) BY <1>1, <1>3, NewIsAhead
    <3> QED BY <1>1, <1>3, <3>1 DEF Superseded
  <2>5. p <= newest => Superseded(log, Id(p)) BY <1>3, CoveredIsSuperseded
  <2> QED BY <1>1, <1>3, <2>3, <2>4, <2>5
<1> QED BY <1>2, <1>3

\* A refusal, or a cached result, is answered as it stands.
LEMMA RefusalAnswers ==
    ASSUME Typed, CacheInv, HistoryInv, pressed' = pressed, NEW p \in Nat \ {0},
           p \in DOMAIN given,
           newest # None => newest <= p + MaxLag /\ p <= newest + Reach,
           RefuseForeign(p) \/ RefuseBinding(p) \/ Replay(p) \/ RefuseSuperseded(p)
    PROVE  Answering(p)
<1>1. CASE RefuseForeign(p)
  <2>1. newest' = None /\ log' = EmptyLog /\ given' = given /\ outcome' = outcome /\ answer' = None
    BY <1>1 DEF RefuseForeign
  <2>2. CacheInv' BY <2>1, EmptyCache
  <2>3. HistoryInv' BY <2>1 DEF HistoryInv
  <2> QED BY <2>1, <2>2, <2>3 DEF Answering, AnswersAreTrue
<1>2. ASSUME SendTo(log, newest, 1), given' = given, outcome' = outcome,
             newest # None /\ p > newest => p - newest < MaxGap,
             AnswersAreTrue'
      PROVE  Answering(p)
  <2>1. \/ newest' = newest /\ log' = log
        \/ newest' = None /\ log' = EmptyLog
    BY <1>2, SendToCase
  <2>2. CacheInv' BY <1>2, <2>1, EmptyCache, SameCache
  <2>3. HistoryInv' BY <1>2 DEF HistoryInv
  <2> QED BY <1>2, <2>1, <2>2, <2>3 DEF Answering
<1>3. CASE RefuseBinding(p)
  <2>1. /\ SendTo(log, newest, 1) /\ given' = given /\ outcome' = outcome
        /\ newest # None => p - newest < MaxGap
        /\ answer' = [press |-> p, by |-> "engine", accepted |-> FALSE]
    BY <1>3 DEF RefuseBinding, Answered
  <2>2. AnswersAreTrue' BY <2>1 DEF AnswersAreTrue
  <2> QED BY <1>2, <2>1, <2>2
<1>4. CASE Replay(p)
  <2>1. /\ SendTo(log, newest, 1) /\ given' = given /\ outcome' = outcome
        /\ Id(p) \in DOMAIN log.results
        /\ answer' = [press |-> p, by |-> "log", accepted |-> log.results[Id(p)]]
    BY <1>4 DEF Replay, Answered
  <2>2. /\ newest # None /\ p <= newest
        /\ log.results[Id(p)] = outcome[p]
        /\ log.results[Id(p)] => given[p] > 0
    BY <2>1, LogKnows DEF HistoryInv
  <2>3. AnswersAreTrue' BY <2>1, <2>2 DEF AnswersAreTrue
  <2>4. newest \in Nat BY <2>2 DEF Typed
  <2>5. ~(p > newest) BY <2>2, <2>4
  <2> QED BY <1>2, <2>1, <2>3, <2>5
<1>5. CASE RefuseSuperseded(p)
  <2>1. /\ SendTo(log, newest, 1) /\ given' = given /\ outcome' = outcome
        /\ Id(p) \notin DOMAIN log.results /\ Superseded(log, Id(p))
        /\ answer' = [press |-> p, by |-> "watermark", accepted |-> FALSE]
    BY <1>5 DEF RefuseSuperseded, Answered
  <2>2. newest # None => p < newest /\ newest \in Nat BY <2>1, LogKnows DEF Typed
  <2>3. newest' # None => newest' = newest
    <3>1. newest' = newest \/ newest' = None BY <2>1, SendToCase
    <3> QED BY <3>1
  <2>4. AnswersAreTrue' BY <2>1, <2>2, <2>3 DEF AnswersAreTrue
  <2>5. newest # None => ~(p > newest) BY <2>2
  <2> QED BY <1>2, <2>1, <2>4, <2>5
<1> QED BY <1>1, <1>3, <1>4, <1>5

\* The adapter's answer is passed on and recorded.
LEMMA ExecutionAnswers ==
    ASSUME Typed, CacheInv, HistoryInv, pressed' = pressed, NEW p \in Nat \ {0},
           p \in DOMAIN given,
           newest # None => newest <= p + MaxLag /\ p <= newest + Reach,
           Execute(p)
    PROVE  Answering(p)
<1>1. Id(p) \notin DOMAIN log.results /\ ~Superseded(log, Id(p)) BY DEF Execute
<1>2. newest # None => newest < p BY <1>1, LogKnows
<1> DEFINE Does(called, accepted) ==
          /\ given' = [given EXCEPT ![p] = IF called /\ @ < 2 THEN @ + 1 ELSE @]
          /\ outcome' = [outcome EXCEPT ![p] = accepted]
          /\ Answered(p, "adapter", accepted)
          /\ \/ SendTo(Recorded(log, Id(p), accepted), p, 1)
             \/ ~accepted /\ SendTo(Recorded(log, Id(p), FALSE), p, 2)
             \/ /\ ~accepted /\ registered /\ (link = "up" => queued = Queue)
                /\ registered' = FALSE /\ newest' = p
                /\ log' = Recorded(EmptyLog, Id(p), FALSE) /\ UNCHANGED queued
<1>e. \E called \in BOOLEAN : \E accepted \in {called, FALSE} : Does(called, accepted)
  BY DEF Execute
<1> HIDE DEF Does
<1>c. PICK called \in BOOLEAN : \E accepted \in {called, FALSE} : Does(called, accepted)
  BY <1>e
<1>p. PICK accepted \in {called, FALSE} : Does(called, accepted)
  BY <1>c
<1>3. /\ given' = [given EXCEPT ![p] = IF called /\ @ < 2 THEN @ + 1 ELSE @]
      /\ outcome' = [outcome EXCEPT ![p] = accepted]
      /\ answer' = [press |-> p, by |-> "adapter", accepted |-> accepted]
      /\ \/ SendTo(Recorded(log, Id(p), accepted), p, 1)
         \/ ~accepted /\ SendTo(Recorded(log, Id(p), FALSE), p, 2)
         \/ ~accepted /\ newest' = p /\ log' = Recorded(EmptyLog, Id(p), FALSE)
  BY <1>p DEF Does, Answered
<1>4. accepted \in BOOLEAN /\ (accepted => called)
  <2>1. accepted = called \/ accepted = FALSE OBVIOUS
  <2>2. CASE accepted = called BY <2>2
  <2>3. CASE accepted = FALSE BY <2>3
  <2> QED BY <2>1, <2>2, <2>3
<1> DEFINE new == IF called /\ given[p] < 2 THEN given[p] + 1 ELSE given[p]
<1>5. given' = [given EXCEPT ![p] = new] BY <1>3
<1>6. accepted => new > 0
  <2>1. given[p] \in Nat BY DEF Typed
  <2> QED BY <1>4, <2>1
<1> HIDE DEF new
<1>7. Takes(p, accepted) BY <1>3, <1>5, <1>6 DEF Takes
<1>8. HistoryInv' BY <1>3, <1>5 DEF HistoryInv
<1>9. AnswersAreTrue'
  <2>1. accepted => given'[p] > 0 BY <1>5, <1>6
  <2> QED BY <1>3, <2>1 DEF AnswersAreTrue
<1>10. p # None BY Sizes
<1>11. \/ newest' = None /\ log' = EmptyLog
       \/ /\ newest' = p
          /\ \/ log' = Recorded(log, Id(p), accepted)
             \/ ~accepted /\ log' = Recorded(EmptyLog, Id(p), FALSE)
  <2>1. CASE SendTo(Recorded(log, Id(p), accepted), p, 1) BY <2>1, SendToCase
  <2>2. CASE ~accepted /\ SendTo(Recorded(log, Id(p), FALSE), p, 2)
    <3>1. accepted = FALSE BY <1>4, <2>2
    <3>2. SendTo(Recorded(log, Id(p), accepted), p, 2) BY <2>2, <3>1
    <3> QED BY <3>2, SendToCase
  <2> QED BY <1>3, <2>1, <2>2
<1>12. CASE newest' = None /\ log' = EmptyLog
  BY <1>8, <1>9, <1>12, EmptyCache DEF Answering
<1>13. CASE /\ newest' = p
            /\ \/ log' = Recorded(log, Id(p), accepted)
               \/ ~accepted /\ log' = Recorded(EmptyLog, Id(p), FALSE)
  <2>1. CacheInv' BY <1>1, <1>2, <1>4, <1>7, <1>10, <1>13, RecordedCache, Zenon
  <2> QED BY <1>8, <1>9, <1>13, <2>1 DEF Answering
<1> QED BY <1>11, <1>12, <1>13

\* Deliveries keep the account, and their answers are true.
LEMMA DeliverAnswers ==
    ASSUME LogInv, AnswerInv, Deliver
    PROVE  AnswerInv' /\ AnswersAreTrue'
<1> DEFINE p == Head(stream)
<1>1. Typed /\ CacheInv /\ HistoryInv BY DEF LogInv, AnswerInv
<1>2. /\ p \in Nat \ {0} /\ pressed' = pressed
      /\ \/ RefuseForeign(p) \/ RefuseBinding(p) \/ Replay(p) \/ RefuseSuperseded(p)
         \/ Execute(p)
  BY <1>1, DeliverReads
<1>3. /\ p \in DOMAIN given
      /\ newest # None => newest <= p + MaxLag /\ p <= newest + Reach
      /\ Recent'
  BY NextDelivery
<1>4. PICK d \in Nat :
          /\ newest # None => newest <= d /\ d < newest + Reach
          /\ p <= d \/ p = d + 1
          /\ d <= p + MaxLag
          /\ \A e \in {d, p} :
                /\ d <= e /\ p <= e
                /\ newest' # None => newest' <= e /\ e < newest' + Reach
                => Delivered(e)'
  BY NextDelivery
<1> HIDE DEF p
<1>5. Answering(p) BY <1>1, <1>2, <1>3, RefusalAnswers, ExecutionAnswers
<1>6. DeliveredInv'
  <2>1. /\ MaxLag \in Nat /\ Reach \in Nat \ {0} /\ MaxGap \in Nat /\ MaxGap <= Reach
        /\ \A n \in Int : n <= MaxLag \/ n < MaxGap => n < Reach
    BY Sizes, ReachIs
  <2>2. newest # None => newest \in Nat BY <1>1 DEF Typed
  <2>3. newest' # None => \/ newest' = newest /\ (p > newest => p - newest < MaxGap)
                          \/ newest' = p
    BY <1>5 DEF Answering
  <2>4. d - p < Reach
    <3>1. d - p \in Int /\ d - p <= MaxLag BY <1>2, <1>4, <2>1
    <3> QED BY <2>1, <3>1
  <2>5. CASE p <= d
    <3>1. newest' # None => newest' <= d /\ d < newest' + Reach
      BY <1>2, <1>4, <2>1, <2>2, <2>3, <2>4, <2>5
    <3>2. Delivered(d)' BY <1>4, <2>5, <3>1
    <3> QED BY <3>2 DEF DeliveredInv
  <2>6. CASE p = d + 1
    <3>1. newest' # None => newest' <= p /\ p < newest' + Reach
      <4>1. CASE newest' = p BY <1>2, <2>1, <4>1
      <4>2. CASE newest' = newest /\ newest # None
        <5>1. newest <= d /\ newest \in Nat BY <1>4, <2>2, <4>2
        <5>2. p > newest BY <2>6, <5>1
        <5>3. newest' = p \/ p - newest < MaxGap BY <2>3, <4>2, <5>2
        <5> QED BY <1>2, <2>1, <4>2, <5>1, <5>2, <5>3
      <4> QED BY <2>3, <4>1, <4>2
    <3>2. d <= p BY <2>6
    <3>3. PICK e \in {d, p} : e = p OBVIOUS
    <3>4. Delivered(e)' BY <1>2, <1>4, <3>1, <3>2, <3>3
    <3> QED BY <1>2, <3>3, <3>4 DEF DeliveredInv
  <2> QED BY <1>4, <2>5, <2>6
<1> QED BY <1>3, <1>5, <1>6 DEF AnswerInv, Answering

\* The history of a press begins as that of an old one ends.
LEMMA AgedDomain ==
    ASSUME NEW h, NEW p, NEW new
    PROVE  \A r : r \in DOMAIN Aged(h, p, new) <=>
                      (r \in DOMAIN h \/ r = p) /\ r > p - Remembered
BY DEF Aged

\* The client, the connection and the actor's other messages keep the account and
\* answer nothing.
LEMMA OtherStepsAnswerNothing ==
    ASSUME LogInv, AnswerInv, AnswersAreTrue, [Next]_vars, ~Deliver
    PROVE  AnswerInv' /\ AnswersAreTrue'
<1>t. /\ Typed /\ InOrder /\ HistoryInv /\ DeliveredInv /\ Recent /\ CacheInv
  BY DEF LogInv, AnswerInv
<1>c. /\ pressed \in Nat /\ {MaxLag, MaxStream, Remembered} \subseteq Nat
      /\ Len(stream) \in Nat /\ stream \in Seq(Nat \ {0})
      /\ \A i \in 1 .. Len(stream) : stream[i] \in Nat \ {0}
      /\ newest # None => newest \in Nat \ {0} /\ newest <= pressed
  BY <1>t, Sizes, ReachIs DEF Typed
<1>1. CASE UNCHANGED vars
  <2>1. UNCHANGED <<pressed, stream, start, link, registered, log, newest, given, outcome, answer>>
    BY <1>1 DEF vars, clientVars, linkVars, historyVars
  <2>2. AnswersAreTrue' BY <2>1 DEF AnswersAreTrue
  <2>3. HistoryInv' /\ Recent' BY <1>t, <2>1 DEF HistoryInv, Recent
  <2>4. CacheInv' BY <1>t, <2>1, SameCache
  <2>5. DeliveredInv' BY <1>t, <2>1 DEF DeliveredInv, Delivered
  <2> QED BY <2>2, <2>3, <2>4, <2>5 DEF AnswerInv
<1>2. ASSUME answer' = None PROVE AnswersAreTrue' BY <1>2 DEF AnswersAreTrue
<1>3. CASE Drain
  <2>1. UNCHANGED <<pressed, stream, link, log, newest, given, outcome>> /\ answer' = None
    BY <1>3 DEF Drain, clientVars, linkVars, historyVars
  <2>3. HistoryInv' /\ Recent' BY <1>t, <2>1 DEF HistoryInv, Recent
  <2>4. CacheInv' BY <1>t, <2>1, SameCache
  <2>5. DeliveredInv' BY <1>t, <2>1 DEF DeliveredInv, Delivered
  <2> QED BY <1>2, <2>1, <2>3, <2>4, <2>5 DEF AnswerInv
<1>4. CASE Broadcast
  <2>1. /\ SendTo(log, newest, 1) /\ answer' = None
        /\ UNCHANGED <<pressed, stream, link, given, outcome>>
    BY <1>4 DEF Broadcast, clientVars, linkVars
  <2>2. \/ newest' = newest /\ log' = log
        \/ newest' = None /\ log' = EmptyLog
    BY <2>1, SendToCase
  <2>3. HistoryInv' /\ Recent' BY <1>t, <2>1 DEF HistoryInv, Recent
  <2>4. CacheInv' BY <1>t, <2>1, <2>2, SameCache, EmptyCache
  <2>5. DeliveredInv' BY <1>t, <2>1, <2>2 DEF DeliveredInv, Delivered
  <2> QED BY <1>2, <2>1, <2>3, <2>4, <2>5 DEF AnswerInv
<1>5. CASE Disconnect
  <2>1. /\ newest' = None /\ log' = EmptyLog /\ link' = "down" /\ stream = <<>> /\ answer' = None
        /\ UNCHANGED <<pressed, stream, given, outcome>>
    BY <1>5 DEF Disconnect, clientVars
  <2>3. HistoryInv' /\ Recent' BY <1>t, <2>1 DEF HistoryInv, Recent
  <2>4. CacheInv' BY <2>1, EmptyCache
  <2>5. DeliveredInv' BY <1>t, <2>1 DEF DeliveredInv, Delivered
  <2> QED BY <1>2, <2>1, <2>3, <2>4, <2>5 DEF AnswerInv
<1>6. CASE Connect
  <2>1. /\ link = "down" /\ link' = "up" /\ answer' = None
        /\ UNCHANGED <<pressed, stream, log, newest, given, outcome>>
    BY <1>6 DEF Connect, clientVars, historyVars
  <2>2. stream = <<>> /\ newest = None BY <1>t, <2>1 DEF InOrder
  <2>3. HistoryInv' /\ Recent' BY <1>c, <1>t, <2>1, <2>2 DEF HistoryInv, Recent
  <2>4. CacheInv' BY <1>t, <2>1, SameCache
  <2>5. Delivered(pressed)' BY <1>c, <2>1, <2>2 DEF Delivered
  <2>6. DeliveredInv' BY <1>c, <2>1, <2>5 DEF DeliveredInv
  <2> QED BY <1>2, <2>1, <2>3, <2>4, <2>6 DEF AnswerInv
<1>7. CASE End
  <2>1. PICK passed \in 0 .. Len(stream) : stream' = [i \in 1 .. passed |-> stream[i]]
    BY <1>7 DEF End
  <2>2. /\ link' = "ended" /\ answer' = None
        /\ UNCHANGED <<pressed, log, newest, given, outcome>>
    BY <1>7 DEF End, historyVars
  <2>3. /\ Len(stream') = passed /\ passed \in Nat /\ passed <= Len(stream)
        /\ \A i \in 1 .. Len(stream') : i \in 1 .. Len(stream) /\ stream'[i] = stream[i]
    <3>1. passed \in Nat /\ passed <= Len(stream) BY <1>c, <2>1
    <3>2. \A i \in 1 .. passed : i \in 1 .. Len(stream) BY <1>c, <3>1
    <3>3. stream' \in [1 .. passed -> Nat \ {0}] BY <1>c, <2>1, <3>2
    <3>4. stream' \in Seq(Nat \ {0}) /\ Len(stream') = passed BY <3>1, <3>3
    <3> QED BY <2>1, <3>1, <3>2, <3>4
  <2>4. HistoryInv' BY <1>t, <2>2 DEF HistoryInv
  <2>5. Recent'
    <3>1. Len(stream') <= MaxStream BY <1>c, <1>t, <2>1, <2>3 DEF Recent
    <3>2. \A i \in 1 .. Len(stream') : stream'[i] + MaxLag + MaxStream > pressed
      BY <1>t, <2>3 DEF Recent
    <3> QED BY <2>2, <3>1, <3>2 DEF Recent
  <2>6. CacheInv' BY <1>t, <2>2, SameCache
  <2>7. PICK d \in Nat : Delivered(d) BY <1>t DEF DeliveredInv
  <2>8. ASSUME NEW i \in 1 .. Len(stream')
        PROVE  /\ stream'[i] > d + 1 => \E j \in 1 .. i - 1 : stream'[j] = stream'[i] - 1
               /\ d <= stream'[i] + MaxLag
    <3>1. i \in 1 .. Len(stream) /\ stream'[i] = stream[i] BY <2>3
    <3>2. \A j \in 1 .. i - 1 : stream'[j] = stream[j]
      <4>1. \A j \in 1 .. i - 1 : j \in 1 .. Len(stream') BY <2>3
      <4> QED BY <2>3, <4>1
    <3> QED BY <2>7, <3>1, <3>2 DEF Delivered
  <2>9. Delivered(d)' BY <2>2, <2>7, <2>8 DEF Delivered
  <2> QED BY <1>2, <2>2, <2>4, <2>5, <2>6, <2>9 DEF AnswerInv, DeliveredInv
<1> DEFINE Grows(x) ==
        /\ link = "up" /\ link' = "up" /\ answer' = None /\ x \in Nat \ {0}
        /\ stream' = Append(stream, x) /\ Len(stream) < MaxStream
        /\ pressed' \in Nat /\ x <= pressed' /\ pressed' <= x + MaxLag /\ pressed <= pressed'
        /\ x = pressed' \/ pressed' = pressed
        /\ pressed' <= pressed + 1
        /\ log' = log /\ newest' = newest
<1>8. ASSUME NEW x, Grows(x) PROVE Recent' /\ DeliveredInv'
  <2>1. /\ Len(stream') = Len(stream) + 1
        /\ \A i \in 1 .. Len(stream) : stream'[i] = stream[i]
        /\ stream'[Len(stream) + 1] = x
    BY <1>c, <1>8
  <2>2. ASSUME NEW i \in 1 .. Len(stream')
        PROVE  stream'[i] + MaxLag + (Len(stream') - i) >= pressed'
    <3>1. CASE i = Len(stream) + 1 BY <1>8, <1>c, <2>1, <3>1
    <3>2. CASE i \in 1 .. Len(stream)
      <4>1. stream[i] + MaxLag + (Len(stream) - i) >= pressed BY <1>8, <1>t, <3>2 DEF Recent
      <4>2. stream[i] \in Nat /\ i \in Nat /\ stream'[i] = stream[i] BY <1>c, <2>1, <3>2
      <4>3. pressed' \in Nat /\ pressed' <= pressed + 1 BY <1>8
      <4>4. Len(stream') = Len(stream) + 1 BY <2>1
      <4> HIDE DEF Grows
      <4> QED BY <1>c, <4>1, <4>2, <4>3, <4>4, SMTT(30)
    <3> QED BY <1>c, <2>1, <3>1, <3>2
  <2>3. ASSUME NEW i \in 1 .. Len(stream')
        PROVE  stream'[i] + MaxLag + MaxStream > pressed'
    <3>1. stream'[i] + MaxLag + (Len(stream') - i) >= pressed' BY <2>2
    <3>2. Len(stream') <= MaxStream /\ Len(stream') \in Nat BY <1>8, <1>c, <2>1
    <3>3. stream'[i] \in Nat BY <1>8, <1>c, <2>1, SMTT(30)
    <3> QED BY <1>8, <1>c, <3>1, <3>2, <3>3, SMTT(30)
  <2>4. Recent' BY <1>8, <1>c, <2>1, <2>2, <2>3 DEF Recent
  <2>5. PICK d \in Nat : Delivered(d) BY <1>t DEF DeliveredInv
  <2>6. d <= pressed' BY <1>8, <1>c, <2>5 DEF Delivered
  <2>7. ASSUME NEW y \in d + 1 .. pressed'
        PROVE  \E i \in 1 .. Len(stream') : stream'[i] = y
    <3>1. CASE y \in d + 1 .. pressed
      <4>1. PICK i \in 1 .. Len(stream) : stream[i] = y BY <1>8, <2>5, <3>1 DEF Delivered
      <4>2. i \in 1 .. Len(stream') BY <1>c, <2>1
      <4> QED BY <2>1, <4>1, <4>2
    <3>2. CASE y = x
      <4>1. Len(stream) + 1 \in 1 .. Len(stream') BY <1>c, <2>1
      <4> QED BY <2>1, <3>2, <4>1
    <3> QED BY <1>8, <1>c, <3>1, <3>2, SMTT(30)
  <2>8. ASSUME NEW i \in 1 .. Len(stream')
        PROVE  /\ stream'[i] > d + 1 => \E j \in 1 .. i - 1 : stream'[j] = stream'[i] - 1
               /\ d <= stream'[i] + MaxLag
    <3>1. CASE i \in 1 .. Len(stream)
      <4>1. \A j \in 1 .. i - 1 : stream'[j] = stream[j]
        <5>1. \A j \in 1 .. i - 1 : j \in 1 .. Len(stream) BY <1>c, <3>1
        <5> QED BY <2>1, <5>1
      <4> QED BY <2>1, <2>5, <3>1, <4>1 DEF Delivered
    <3>2. CASE i = Len(stream) + 1
      <4>1. stream'[i] = x /\ d <= x + MaxLag BY <1>8, <1>c, <2>1, <2>6, <3>2
      <4>2. ASSUME x > d + 1 PROVE \E j \in 1 .. i - 1 : stream'[j] = x - 1
        <5>1. x - 1 \in d + 1 .. pressed BY <1>8, <1>c, <4>2
        <5>2. PICK j \in 1 .. Len(stream) : stream[j] = x - 1
          BY <1>8, <2>5, <5>1 DEF Delivered
        <5>3. j \in 1 .. i - 1 BY <1>c, <3>2
        <5> QED BY <2>1, <5>2, <5>3
      <4> QED BY <4>1, <4>2
    <3> QED BY <1>c, <2>1, <3>1, <3>2
  <2>9. Delivered(d)' BY <1>8, <2>5, <2>6, <2>7, <2>8 DEF Delivered
  <2> QED BY <2>4, <2>9 DEF DeliveredInv
<1>9. CASE Press
  <2>1. /\ link = "up" /\ pressed' = pressed + 1 /\ stream' = Append(stream, pressed + 1)
        /\ Len(stream) < MaxStream
        /\ given' = Aged(given, pressed + 1, 0) /\ outcome' = Aged(outcome, pressed + 1, None)
        /\ answer' = None /\ UNCHANGED <<link, log, newest>>
    BY <1>9 DEF Press, linkVars
  <2>2. Grows(pressed + 1) BY <1>c, <2>1
  <2>3. HistoryInv'
    <3>1. \A r : /\ r \in DOMAIN given' <=>
                        (r \in DOMAIN given \/ r = pressed + 1) /\ r > (pressed + 1) - Remembered
                 /\ r \in DOMAIN outcome' <=>
                        (r \in DOMAIN outcome \/ r = pressed + 1) /\ r > (pressed + 1) - Remembered
      BY <2>1, AgedDomain, Zenon
    <3>2. DOMAIN given' = {r \in 1 .. pressed + 1 : r + Remembered > pressed + 1}
      <4>1. ASSUME NEW r
            PROVE  r \in DOMAIN given' <=> r \in 1 .. pressed + 1 /\ r + Remembered > pressed + 1
        <5>1. r \in DOMAIN given <=> r \in 1 .. pressed /\ r + Remembered > pressed
          BY <1>t DEF HistoryInv
        <5>2. r \in DOMAIN given' <=>
                /\ r \in DOMAIN given \/ r = pressed + 1
                /\ r > (pressed + 1) - Remembered
          BY <3>1
        <5>3. r \in 1 .. pressed + 1 <=> r \in 1 .. pressed \/ r = pressed + 1 BY <1>c
        <5>4. CASE r \notin 1 .. pressed + 1 BY <5>1, <5>2, <5>3, <5>4
        <5>5. CASE r \in 1 .. pressed + 1
          <6>1. r \in Nat BY <5>5
          <6>2. r > (pressed + 1) - Remembered <=> r + Remembered > pressed + 1 BY <1>c, <6>1
          <6>3. r + Remembered > pressed + 1 => r + Remembered > pressed BY <1>c, <6>1
          <6> QED BY <5>1, <5>2, <5>3, <5>5, <6>2, <6>3
        <5> QED BY <5>4, <5>5
      <4> QED BY <4>1
    <3>3. DOMAIN outcome' = DOMAIN given' BY <1>t, <3>1 DEF HistoryInv
    <3> QED BY <2>1, <3>2, <3>3 DEF HistoryInv
  <2>4. CacheInv'
    <3>1. ASSUME NEW q \in Nat \ {0}, q <= newest, newest # None
          PROVE  /\ q \in DOMAIN outcome' => q \in DOMAIN outcome
                 /\ q \in DOMAIN outcome' => outcome'[q] = outcome[q] /\ given'[q] = given[q]
      <4>1. q # pressed + 1 BY <1>c, <3>1
      <4>2. DOMAIN given = DOMAIN outcome BY <1>t DEF HistoryInv
      <4> QED BY <2>1, <4>1, <4>2 DEF Aged
    <3>2. ASSUME NEW i \in 1 .. Len(log.order) PROVE \E q \in Nat \ {0} : Stands(i, q)'
      <4>1. PICK q \in Nat \ {0} : Stands(i, q) BY <1>t DEF CacheInv
      <4>2. newest # None BY <1>t DEF CacheInv
      <4>3. Stands(i, q)' BY <2>1, <3>1, <4>1, <4>2 DEF Stands
      <4> QED BY <4>3
    <3> QED BY <1>t, <2>1, <3>2 DEF CacheInv
  <2> HIDE DEF Grows
  <2>5. Recent' /\ DeliveredInv' BY <1>8, <2>2
  <2> QED BY <1>2, <2>1, <2>3, <2>4, <2>5 DEF AnswerInv
<1>10. CASE Resend
  <2>1. PICK p \in 1 .. pressed : pressed - p <= MaxLag /\ stream' = Append(stream, p)
    BY <1>10 DEF Resend
  <2>2. /\ link = "up" /\ Len(stream) < MaxStream /\ answer' = None
        /\ UNCHANGED <<pressed, link, log, newest, given, outcome>>
    BY <1>10 DEF Resend, linkVars, historyVars
  <2>3. Grows(p) BY <1>c, <2>1, <2>2
  <2>4. HistoryInv' BY <1>t, <2>2 DEF HistoryInv
  <2>5. CacheInv' BY <1>t, <2>2, SameCache
  <2> HIDE DEF Grows
  <2>6. Recent' /\ DeliveredInv' BY <1>8, <2>3
  <2> QED BY <1>2, <2>2, <2>4, <2>5, <2>6 DEF AnswerInv
<1> QED BY <1>1, <1>3, <1>4, <1>5, <1>6, <1>7, <1>9, <1>10 DEF Next

\* What a press is answered is true of that very press: a cached result is its own
\* although ids wrap, the watermark refuses it only behind a later press, and none
\* is reported accepted that the adapter did not take (action_dedup.rs).
THEOREM AnswersHold == Spec => []AnswersAreTrue
<1> DEFINE Inv == LogInv /\ AnswerInv /\ AnswersAreTrue
<1>1. Init => Inv
  <2> SUFFICES ASSUME Init PROVE Inv OBVIOUS
  <2>1. /\ pressed = 0 /\ stream = <<>> /\ newest = None /\ given = <<>> /\ outcome = <<>>
        /\ log = EmptyLog /\ answer = None
    BY DEF Init
  <2>2. LogInv BY Sizes DEF Init, LogInv, Typed, InOrder, Covered, EmptyLog
  <2>3. {MaxLag, MaxStream, Remembered, Cached} \subseteq Nat BY Sizes, ReachIs
  <2>4. HistoryInv
    <3>1. {q \in 1 .. 0 : q + Remembered > 0} = {} OBVIOUS
    <3>2. DOMAIN given = {} /\ DOMAIN outcome = {} BY <2>1
    <3> QED BY <2>1, <3>1, <3>2 DEF HistoryInv
  <2>5. Delivered(0) BY <2>1 DEF Delivered
  <2>6. Recent BY <2>1, <2>3 DEF Recent
  <2>7. CacheInv
    <3>1. log.order = <<>> /\ log.results = <<>> BY <2>1 DEF EmptyLog
    <3>2. log.order \in Seq(Int) /\ Len(log.order) = 0 /\ DOMAIN log.results = {} BY <3>1
    <3> QED BY <2>1, <2>3, <3>1, <3>2 DEF CacheInv
  <2>8. AnswersAreTrue BY <2>1 DEF AnswersAreTrue
  <2> QED BY <2>2, <2>4, <2>5, <2>6, <2>7, <2>8 DEF AnswerInv, DeliveredInv
<1>2. Inv /\ [Next]_vars => Inv'
  BY LogInvStep, DeliverAnswers, OtherStepsAnswerNothing
<1>3. Inv => AnswersAreTrue OBVIOUS
<1> QED BY <1>1, <1>2, <1>3, PTL DEF Spec
=============================================================================
