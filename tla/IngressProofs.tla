--------------------------- MODULE IngressProofs ---------------------------
(***************************************************************************)
(* Proofs about Ingress: what reaches the adapter is fresh and in order,   *)
(* for every clock offset, every cadence, window and policy, and every     *)
(* size of the sequence counter.                                           *)
(***************************************************************************)
EXTENDS Ingress, TLAPS

-----------------------------------------------------------------------------
(* Arithmetic.                                                             *)

\* A millisecond stamp is at most the time and less than a bucket older.
LEMMA MillisBounds ==
    ASSUME NEW t \in Int
    PROVE  Millis(t) \in Int /\ Millis(t) <= t /\ t < Millis(t) + Bucket
<1>1. Bucket \in Nat \ {0} BY IngressAssumption
<1>2. t % Bucket \in 0 .. Bucket - 1 BY <1>1
<1> QED BY <1>1, <1>2 DEF Millis

\* A remainder differs from the number by a multiple of the modulus.
LEMMA Remainder ==
    ASSUME NEW t \in Int, NEW b \in Nat \ {0}
    PROVE  t % b \in Int /\ \E q \in Int : t % b = t + q * b
<1>1. t % b \in 0 .. b - 1 OBVIOUS
<1>2. t = b * (t \div b) + (t % b) OBVIOUS
<1>3. -(t \div b) \in Int OBVIOUS
<1>4. t % b = t + (-(t \div b)) * b BY <1>2
<1> QED BY <1>1, <1>3, <1>4

\* What lies k before a multiple of the modulus has the remainder b - k.
LEMMA Behind ==
    ASSUME NEW x \in Int, NEW k \in Int, NEW q \in Int, NEW b \in Nat \ {0},
           x = q * b - k, 0 < k, k < b
    PROVE  x % b = b - k
<1> DEFINE d == q - (x \div b)
<1>1. /\ x = b * (x \div b) + (x % b)
      /\ x % b \in 0 .. b - 1
      /\ d \in Int
  OBVIOUS
<1>2. b * d = k + (x % b) BY <1>1
<1> HIDE DEF d
<1>3. ~(d <= 0)
  <2> SUFFICES ASSUME d <= 0 PROVE FALSE OBVIOUS
  <2>1. b * d <= 0 BY <1>1
  <2> QED BY <2>1, <1>1, <1>2
<1>4. ~(d >= 2)
  <2> SUFFICES ASSUME d >= 2 PROVE FALSE OBVIOUS
  <2>1. b * d >= b * 2 BY <1>1
  <2> QED BY <2>1, <1>1, <1>2
<1>5. d = 1 BY <1>1, <1>3, <1>4
<1> QED BY <1>1, <1>2, <1>5

\* A multiple of the modulus has no remainder.
LEMMA Multiple ==
    ASSUME NEW x \in Int, NEW q \in Int, NEW b \in Nat \ {0}, x = q * b
    PROVE  x % b = 0
OBVIOUS

\* Multiplication by a natural number is monotonic.
LEMMA Scaled ==
    ASSUME NEW p \in Nat, NEW a \in Int, NEW b \in Int, a <= b
    PROVE  p * a <= p * b
OBVIOUS

\* Half of the counter's range is a natural number below the whole.
LEMMA HalfOfWrap == Half \in Nat /\ Half < Wrap /\ Wrap - Half \in Nat
<1>1. Wrap \in Nat \ {0} BY IngressAssumption
<1>2. (Wrap - 1) \div 2 \in Nat /\ 2 * ((Wrap - 1) \div 2) <= Wrap - 1 BY <1>1
<1> QED BY <1>1, <1>2 DEF Half
-----------------------------------------------------------------------------
(* The inductive invariant, in parts.                                      *)

FrameIsTyped(f) ==
    /\ f.number \in Nat /\ f.generation \in Nat /\ f.sequence \in Int
    /\ f.sampled \in Int /\ f.window \in Nat /\ f.sent \in Nat

\* What the arithmetic of the other parts needs to know of the state.
Typed ==
    /\ now \in Nat /\ embodied \in BOOLEAN
    /\ lane.generation \in Nat /\ lane.sequence \in Int
    /\ lane.sampled \in Int \cup {None}
    /\ lane = [generation |-> lane.generation, sequence |-> lane.sequence,
               sampled |-> lane.sampled]
    /\ framed \in Nat /\ nextWindow \in Nat /\ generation \in Nat
    /\ \A sent \in pings : sent \in Int
    /\ \A pong \in pongs : pong.id \in Nat /\ pong.sent \in Int
    /\ \A w \in windows : w.id \in Nat /\ w.from \in Int /\ w.until \in Int
    /\ \A f \in frames : FrameIsTyped(f) /\ f.sent <= now
    /\ \A w \in issued : w.id \in Nat /\ w.at \in Nat /\ w.notBefore \in Int
    /\ floor \in Int \cup {None}
    /\ job # None => /\ job.frame \in frames /\ job.admitted \in Nat
                     /\ job.remaining \in Int
    /\ last # None => last.generation \in Nat /\ last.sequence \in Int
    /\ applied # None => applied.number \in Nat

\* A window is known to the client, and named by a frame, only after the host
\* issued it, and it covers later samples only.
WindowsAreLater ==
    /\ \A w \in issued : 1 <= w.id /\ w.id <= nextWindow /\ w.at <= now
    /\ \A pong \in pongs : 1 <= pong.id /\ pong.id <= nextWindow
    /\ \A w \in windows :
          /\ 1 <= w.id /\ w.id <= nextWindow
          /\ \A v \in issued : v.id = w.id => v.at + Offset <= w.from
    /\ \A f \in frames :
          /\ f.window <= nextWindow
          /\ \A v \in issued : v.id = f.window => v.at + Offset <= f.sampled

\* The budget of an admitted frame ends max_delay after its sample, or sooner.
BudgetEndsInTime ==
    embodied /\ job # None =>
        job.admitted + job.remaining <= job.frame.sampled - Offset + MaxDelay

FreshInv == Typed /\ WindowsAreLater /\ BudgetEndsInTime /\ CommandsAreFresh

\* The initial state is typed.
LEMMA TypedInit == Init => Typed
<1>1. None \notin Int BY IngressAssumption
<1> QED BY <1>1 DEF Init, Typed

\* Both ends only forget windows.
LEMMA NewestIsPart == \A S : Newest(S) \subseteq S
BY DEF Newest

\* A frame the client just made.
LEMMA ControlFrameCase ==
    ASSUME Typed, ControlFrame
    PROVE  \E t \in Int, id \in Nat :
              /\ Offset <= t /\ t <= Clock
              /\ lane.sampled # None => t >= lane.sampled + Period
              /\ lane' = [generation |-> lane.generation,
                          sequence |-> (lane.sequence + 1) % Wrap, sampled |-> t]
              /\ framed' = framed + 1
              /\ id = 0 \/ \E w \in windows : id = w.id /\ w.from <= t
              /\ frames' = frames \cup
                    {[number |-> framed + 1, generation |-> lane.generation,
                      sequence |-> (lane.sequence + 1) % Wrap,
                      sampled |-> t, window |-> id, sent |-> now]}
<1>1. Offset \in Int /\ MaxLag \in Nat /\ now \in Nat /\ Clock \in Int
  BY IngressAssumption DEF Typed, Clock
<1>2. PICK t \in Clock - MaxLag .. Clock :
          /\ t >= Offset
          /\ lane.sampled # None => t >= lane.sampled + Period
          /\ lane' = [lane EXCEPT !.sequence = (@ + 1) % Wrap, !.sampled = t]
          /\ framed' = framed + 1
          /\ \E id \in IdsAt(t) :
                frames' = frames \cup
                   {[number |-> framed + 1, generation |-> lane.generation,
                     sequence |-> (lane.sequence + 1) % Wrap,
                     sampled |-> t, window |-> id, sent |-> now]}
  BY DEF ControlFrame
<1>3. PICK id \in IdsAt(t) :
          frames' = frames \cup
             {[number |-> framed + 1, generation |-> lane.generation,
               sequence |-> (lane.sequence + 1) % Wrap,
               sampled |-> t, window |-> id, sent |-> now]}
  BY <1>2
<1>4. id = 0 \/ \E w \in windows : id = w.id /\ w.from <= t
  BY DEF IdsAt
<1>5. id \in Nat BY <1>4 DEF Typed
<1>6. t \in Int /\ t <= Clock BY <1>1
<1>7. lane' = [generation |-> lane.generation, sequence |-> (lane.sequence + 1) % Wrap,
               sampled |-> t]
  BY <1>2 DEF Typed
<1> QED BY <1>2, <1>3, <1>4, <1>5, <1>6, <1>7

\* A frame the host judged: refused, or admitted with a budget.
LEMMA OnFrameCase ==
    ASSUME Typed, OnFrame
    PROVE  \E f \in frames, received \in Int :
              /\ job = None /\ received <= now
              /\ floor' = FloorAfter(f, received)
              /\ floor' \in Int /\ floor' <= received - f.sampled
              /\ floor # None => floor' <= floor
              /\ \/ last' = last /\ job' = job
                 \/ /\ Admits(f, floor')
                    /\ last' = [generation |-> f.generation, sequence |-> f.sequence]
                    /\ \E left \in Budgets(f, floor') :
                          job' = [frame |-> f, admitted |-> now, remaining |-> left,
                                  waited |-> now - received >= StaleAge]
<1>1. PICK f \in frames : \E received \in f.sent .. now :
          LET base == FloorAfter(f, received)
              lefts == {left \in Budgets(f, base) : left > 0}
          IN  /\ floor' = base
              /\ IF Admits(f, base) /\ lefts # {}
                 THEN \E left \in lefts :
                         /\ last' = [generation |-> f.generation, sequence |-> f.sequence]
                         /\ job' = [frame |-> f, admitted |-> now, remaining |-> left,
                                    waited |-> now - received >= StaleAge]
                 ELSE UNCHANGED <<last, job>>
  BY DEF OnFrame
<1>2. PICK received \in f.sent .. now :
          /\ floor' = FloorAfter(f, received)
          /\ \/ last' = last /\ job' = job
             \/ /\ Admits(f, floor')
                /\ last' = [generation |-> f.generation, sequence |-> f.sequence]
                /\ \E left \in Budgets(f, floor') :
                      job' = [frame |-> f, admitted |-> now, remaining |-> left,
                              waited |-> now - received >= StaleAge]
  BY <1>1
<1>3. received \in Int /\ received <= now /\ f.sampled \in Int
  BY DEF Typed, FrameIsTyped
<1>4. None \notin Int BY IngressAssumption
<1>5. /\ floor' \in Int /\ floor' <= received - f.sampled
      /\ floor # None => floor' <= floor
  BY <1>2, <1>3, <1>4 DEF FloorAfter, Smaller, Typed
<1>6. job = None BY DEF OnFrame
<1> QED BY <1>2, <1>3, <1>5, <1>6

\* The budget on an embodied host: some issued window that the frame names.
LEMMA BudgetCase ==
    ASSUME Typed, NEW f \in frames, NEW base \in Int, NEW left \in Budgets(f, base)
    PROVE  /\ left \in Int
           /\ embodied => \E w \in issued :
                 /\ w.id = f.window
                 /\ now + left <= MaxDelay + w.at
<1>1. MaxDelay \in Int /\ now \in Int /\ f.sampled \in Int
  BY IngressAssumption DEF Typed, FrameIsTyped
<1>2. CASE ~embodied BY <1>1, <1>2 DEF Budgets
<1>3. CASE embodied
  <2>1. PICK w \in issued : /\ w.id = f.window
                            /\ left = MaxDelay - Larger(Age(f, base), now - w.at)
    BY <1>3 DEF Budgets
  <2>2. w.at \in Int BY DEF Typed
  <2>3. Age(f, base) \in Int BY <1>1 DEF Age
  <2> QED BY <1>1, <2>1, <2>2, <2>3 DEF Larger
<1> QED BY <1>2, <1>3

\* Each step keeps the types.
LEMMA TypedStep == Typed /\ [Next]_vars => Typed'
<1> SUFFICES ASSUME Typed, [Next]_vars PROVE Typed' OBVIOUS
<1> USE IngressAssumption
<1>c. Clock \in Int /\ Millis(Clock) \in Int /\ Millis(Clock) + Bucket \in Int
  <2>1. Clock \in Int BY DEF Typed, Clock
  <2> QED BY <2>1, MillisBounds
<1>1. CASE Tick
  BY <1>1 DEF Tick, Typed, clientVars, netVars, hostVars, FrameIsTyped
<1>2. CASE MaintainControlWindow
  <2>1. \A sent \in pings' : sent \in Int
    BY <1>2, <1>c DEF MaintainControlWindow, Probe, Typed
  <2> QED BY <1>2, <2>1 DEF MaintainControlWindow, Typed, hostVars, FrameIsTyped
<1>3. CASE ReceivePong
  <2>1. \A w \in windows' : w.id \in Nat /\ w.from \in Int /\ w.until \in Int
    <3>1. PICK pong \in pongs : windows' = Newest(windows \cup {OpenWindow(pong)})
      BY <1>3 DEF ReceivePong
    <3>2. pong.id \in Nat /\ pong.sent \in Int BY DEF Typed
    <3>3. windows' \subseteq windows \cup {OpenWindow(pong)} BY <3>1, NewestIsPart
    <3> QED BY <3>2, <3>3, <1>c DEF OpenWindow, Typed
  <2> QED BY <1>3, <2>1 DEF ReceivePong, Typed, hostVars, netVars, FrameIsTyped
<1>4. CASE ControlFrame
  <2>1. PICK t \in Int, id \in Nat :
              /\ lane' = [generation |-> lane.generation,
                          sequence |-> (lane.sequence + 1) % Wrap, sampled |-> t]
              /\ framed' = framed + 1
              /\ frames' = frames \cup
                    {[number |-> framed + 1, generation |-> lane.generation,
                      sequence |-> (lane.sequence + 1) % Wrap,
                      sampled |-> t, window |-> id, sent |-> now]}
    BY <1>4, ControlFrameCase
  <2>2. (lane.sequence + 1) % Wrap \in Int
    <3>1. lane.sequence + 1 \in Int /\ Wrap \in Nat \ {0} BY DEF Typed
    <3> QED BY <3>1, Remainder
  <2>3. \A sent \in pings' : sent \in Int
    <3>1. PICK u \in Clock - MaxLag .. Clock : Probe(u) BY <1>4 DEF ControlFrame
    <3>2. u \in Int BY <1>c
    <3> QED BY <3>1, <3>2, MillisBounds DEF Probe, Typed
  <2>4. \A f \in frames' : FrameIsTyped(f) /\ f.sent <= now
    BY <2>1, <2>2 DEF Typed, FrameIsTyped
  <2>5. /\ lane'.generation \in Nat /\ lane'.sequence \in Int
        /\ lane'.sampled \in Int \cup {None}
        /\ lane' = [generation |-> lane'.generation, sequence |-> lane'.sequence,
                    sampled |-> lane'.sampled]
    BY <2>1, <2>2 DEF Typed
  <2>6. UNCHANGED <<now, embodied, windows, pongs, hostVars>> BY <1>4 DEF ControlFrame
  <2>7. framed' \in Nat /\ frames \subseteq frames' BY <2>1 DEF Typed
  <2> QED BY <2>3, <2>4, <2>5, <2>6, <2>7 DEF Typed, hostVars, FrameIsTyped
<1>5. CASE OpenLane
  BY <1>5 DEF OpenLane, Typed, hostVars, netVars, FrameIsTyped
<1>6. CASE Regrant
  BY <1>6 DEF Regrant, Typed, clientVars, netVars, FrameIsTyped
<1>7. CASE OnPing
  <2>1. PICK sent \in pings :
          /\ issued' = Newest(issued \cup
                          {[id |-> nextWindow + 1, at |-> now, notBefore |-> sent]})
          /\ pongs' = pongs \cup {[id |-> nextWindow + 1, sent |-> sent]}
    BY <1>7 DEF OnPing
  <2>2. \A w \in issued' : w.id \in Nat /\ w.at \in Nat /\ w.notBefore \in Int
    BY <2>1, NewestIsPart DEF Typed
  <2>3. \A pong \in pongs' : pong.id \in Nat /\ pong.sent \in Int
    BY <2>1 DEF Typed
  <2>4. nextWindow' \in Nat BY <1>7 DEF OnPing, Typed
  <2>5. UNCHANGED <<now, embodied, clientVars, pings, frames, generation, floor, last,
                    job, applied>>
    BY <1>7 DEF OnPing
  <2> QED BY <2>2, <2>3, <2>4, <2>5 DEF Typed, clientVars, FrameIsTyped
<1>8. CASE OnFrame
  <2>1. PICK f \in frames, received \in Int :
              /\ floor' \in Int
              /\ \/ last' = last /\ job' = job
                 \/ /\ last' = [generation |-> f.generation, sequence |-> f.sequence]
                    /\ \E left \in Budgets(f, floor') :
                          job' = [frame |-> f, admitted |-> now, remaining |-> left,
                                  waited |-> now - received >= StaleAge]
    BY <1>8, OnFrameCase
  <2>2. job' # None => /\ job'.frame \in frames /\ job'.admitted \in Nat
                       /\ job'.remaining \in Int
    BY <2>1, BudgetCase DEF Typed
  <2>3. last' # None => last'.generation \in Nat /\ last'.sequence \in Int
    BY <2>1 DEF Typed, FrameIsTyped
  <2>4. UNCHANGED <<now, embodied, clientVars, netVars, generation, issued, nextWindow,
                    applied>>
    BY <1>8 DEF OnFrame
  <2> QED BY <2>1, <2>2, <2>3, <2>4 DEF Typed, clientVars, netVars, FrameIsTyped
<1>9. CASE Apply
  <2>1. applied' # None => applied'.number \in Nat
    BY <1>9 DEF Apply, Given, Typed, FrameIsTyped
  <2>2. /\ job' = None
        /\ UNCHANGED <<now, embodied, clientVars, netVars, generation, issued,
                       nextWindow, floor, last>>
    BY <1>9 DEF Apply
  <2> QED BY <2>1, <2>2 DEF Typed, clientVars, netVars, FrameIsTyped
<1>10. CASE UNCHANGED vars
  BY <1>10 DEF Typed, vars, clientVars, netVars, hostVars, FrameIsTyped
<1> QED
  BY <1>1, <1>2, <1>3, <1>4, <1>5, <1>6, <1>7, <1>8, <1>9, <1>10 DEF Next
-----------------------------------------------------------------------------
(* Fresh commands.                                                         *)

\* A window is issued before any input it is named with, in true time.
LEMMA WindowsStep == Typed /\ WindowsAreLater /\ [Next]_vars => WindowsAreLater'
<1> SUFFICES ASSUME Typed, WindowsAreLater, [Next]_vars PROVE WindowsAreLater' OBVIOUS
<1>c. Offset \in Int /\ now \in Nat /\ nextWindow \in Nat
  BY IngressAssumption DEF Typed
<1>1. CASE Tick
  BY <1>1, <1>c DEF Tick, Typed, WindowsAreLater, clientVars, netVars, hostVars
<1>2. CASE MaintainControlWindow
  BY <1>2 DEF MaintainControlWindow, WindowsAreLater, hostVars
<1>3. CASE ReceivePong
  <2>1. PICK pong \in pongs : windows' = Newest(windows \cup {OpenWindow(pong)})
    BY <1>3 DEF ReceivePong
  <2>2. UNCHANGED <<now, netVars, hostVars>> BY <1>3 DEF ReceivePong
  <2>3. \A v \in issued : v.at + Offset <= OpenWindow(pong).from
    <3>1. Clock \in Int /\ Clock < Millis(Clock) + Bucket
      BY <1>c, MillisBounds DEF Clock
    <3>2. Millis(Clock) \in Int /\ Bucket \in Int
      BY <3>1, MillisBounds, IngressAssumption
    <3>3. \A v \in issued : v.at \in Nat /\ v.at <= now BY DEF Typed, WindowsAreLater
    <3> QED BY <1>c, <3>1, <3>2, <3>3 DEF OpenWindow, Clock
  <2>4. 1 <= OpenWindow(pong).id /\ OpenWindow(pong).id <= nextWindow
    BY DEF OpenWindow, WindowsAreLater
  <2>5. windows' \subseteq windows \cup {OpenWindow(pong)} BY <2>1, NewestIsPart
  <2> QED BY <2>2, <2>3, <2>4, <2>5 DEF WindowsAreLater, netVars, hostVars
<1>4. CASE ControlFrame
  <2>1. PICK t \in Int, id \in Nat :
              /\ Offset <= t /\ t <= Clock
              /\ id = 0 \/ \E w \in windows : id = w.id /\ w.from <= t
              /\ frames' = frames \cup
                    {[number |-> framed + 1, generation |-> lane.generation,
                      sequence |-> (lane.sequence + 1) % Wrap,
                      sampled |-> t, window |-> id, sent |-> now]}
    BY <1>4, ControlFrameCase
  <2>2. UNCHANGED <<now, windows, pongs, hostVars>> BY <1>4 DEF ControlFrame
  <2>3. id <= nextWindow BY <2>1, <1>c DEF WindowsAreLater
  <2>4. \A v \in issued : v.id = id => v.at + Offset <= t
    <3> SUFFICES ASSUME NEW v \in issued, v.id = id PROVE v.at + Offset <= t OBVIOUS
    <3>1. v.id # 0 BY DEF WindowsAreLater, Typed
    <3>2. PICK w \in windows : id = w.id /\ w.from <= t BY <2>1, <3>1
    <3>3. v.at + Offset <= w.from BY <3>2 DEF WindowsAreLater
    <3>4. v.at \in Int /\ w.from \in Int BY DEF Typed
    <3> QED BY <1>c, <3>2, <3>3, <3>4
  <2> QED BY <2>1, <2>2, <2>3, <2>4 DEF WindowsAreLater, hostVars
<1>5. CASE OpenLane
  BY <1>5 DEF OpenLane, WindowsAreLater, hostVars, netVars
<1>6. CASE Regrant
  BY <1>6 DEF Regrant, WindowsAreLater, clientVars, netVars
<1>7. CASE OnPing
  <2>1. PICK sent \in pings :
          /\ nextWindow' = nextWindow + 1
          /\ issued' = Newest(issued \cup
                          {[id |-> nextWindow + 1, at |-> now, notBefore |-> sent]})
          /\ pongs' = pongs \cup {[id |-> nextWindow + 1, sent |-> sent]}
    BY <1>7 DEF OnPing
  <2>2. UNCHANGED <<now, clientVars, frames>> BY <1>7 DEF OnPing
  <2>3. \A v \in issued' :
           v \in issued \/ v = [id |-> nextWindow + 1, at |-> now, notBefore |-> sent]
    BY <2>1, NewestIsPart
  <2>4. \A w \in issued' : 1 <= w.id /\ w.id <= nextWindow' /\ w.at <= now'
    <3> SUFFICES ASSUME NEW w \in issued'
                 PROVE  1 <= w.id /\ w.id <= nextWindow' /\ w.at <= now'
      OBVIOUS
    <3>1. CASE w \in issued BY <1>c, <2>1, <2>2, <3>1 DEF Typed, WindowsAreLater
    <3>2. CASE w = [id |-> nextWindow + 1, at |-> now, notBefore |-> sent]
      BY <1>c, <2>1, <2>2, <3>2
    <3> QED BY <2>3, <3>1, <3>2
  <2>5. \A pong \in pongs' : 1 <= pong.id /\ pong.id <= nextWindow'
    BY <1>c, <2>1 DEF Typed, WindowsAreLater
  <2>6. ASSUME NEW w \in windows
        PROVE  /\ 1 <= w.id /\ w.id <= nextWindow'
               /\ \A v \in issued' : v.id = w.id => v.at + Offset <= w.from
    <3>1. w.id \in Nat /\ 1 <= w.id /\ w.id <= nextWindow
      BY DEF Typed, WindowsAreLater
    <3>2. \A v \in issued' : v.id = w.id => v \in issued BY <1>c, <2>3, <3>1
    <3>3. \A v \in issued : v.id = w.id => v.at + Offset <= w.from
      BY DEF WindowsAreLater
    <3>4. w.id <= nextWindow' BY <1>c, <2>1, <3>1
    <3> QED BY <3>1, <3>2, <3>3, <3>4
  <2>7. ASSUME NEW f \in frames
        PROVE  /\ f.window <= nextWindow'
               /\ \A v \in issued' : v.id = f.window => v.at + Offset <= f.sampled
    <3>1. f.window \in Nat /\ f.window <= nextWindow
      BY DEF Typed, FrameIsTyped, WindowsAreLater
    <3>2. \A v \in issued' : v.id = f.window => v \in issued BY <1>c, <2>3, <3>1
    <3>3. \A v \in issued : v.id = f.window => v.at + Offset <= f.sampled
      BY DEF WindowsAreLater
    <3> QED BY <1>c, <2>1, <3>1, <3>2, <3>3
  <2> QED BY <2>2, <2>4, <2>5, <2>6, <2>7 DEF WindowsAreLater, clientVars
<1>8. CASE OnFrame
  BY <1>8 DEF OnFrame, WindowsAreLater, clientVars, netVars
<1>9. CASE Apply
  BY <1>9 DEF Apply, WindowsAreLater, clientVars, netVars
<1>10. CASE UNCHANGED vars
  BY <1>10 DEF WindowsAreLater, vars, clientVars, netVars, hostVars
<1> QED
  BY <1>1, <1>2, <1>3, <1>4, <1>5, <1>6, <1>7, <1>8, <1>9, <1>10 DEF Next

\* Only OnFrame gives a budget and only Apply gives a frame to the adapter.
LEMMA OtherSteps ==
    [Next]_vars => OnFrame \/ Apply \/ UNCHANGED <<job, applied, last, floor>>
BY DEF Next, Tick, MaintainControlWindow, ReceivePong, ControlFrame, OpenLane, Regrant,
       OnPing, vars, hostVars

\* No step changes what kind of host this is.
LEMMA EmbodiedStays == [Next]_vars => embodied' = embodied
BY DEF Next, Tick, MaintainControlWindow, ReceivePong, ControlFrame, OpenLane, Regrant,
       OnPing, OnFrame, Apply, vars

\* The budget is counted from the window, which is older than the sample.
LEMMA BudgetStep ==
    Typed /\ WindowsAreLater /\ BudgetEndsInTime /\ [Next]_vars => BudgetEndsInTime'
<1> SUFFICES ASSUME Typed, WindowsAreLater, BudgetEndsInTime, [Next]_vars
             PROVE  BudgetEndsInTime'
  OBVIOUS
<1>1. CASE OnFrame
  <2>1. PICK f \in frames, received \in Int :
              /\ job = None
              /\ floor' \in Int
              /\ \/ job' = job
                 \/ \E left \in Budgets(f, floor') :
                       job' = [frame |-> f, admitted |-> now, remaining |-> left,
                               waited |-> now - received >= StaleAge]
    BY <1>1, OnFrameCase
  <2>2. CASE job' = job BY <2>1, <2>2 DEF BudgetEndsInTime
  <2>3. ASSUME NEW left \in Budgets(f, floor'), embodied,
               job' = [frame |-> f, admitted |-> now, remaining |-> left,
                       waited |-> now - received >= StaleAge]
        PROVE  job'.admitted + job'.remaining <= job'.frame.sampled - Offset + MaxDelay
    <3>1. PICK w \in issued : w.id = f.window /\ now + left <= MaxDelay + w.at
      BY <2>1, <2>3, BudgetCase
    <3>2. w.at + Offset <= f.sampled BY <3>1 DEF WindowsAreLater
    <3>3. left \in Int BY <2>1, BudgetCase
    <3>4. /\ w.at \in Int /\ f.sampled \in Int /\ now \in Int
          /\ Offset \in Int /\ MaxDelay \in Int
      BY IngressAssumption DEF Typed, FrameIsTyped
    <3> QED BY <2>3, <3>1, <3>2, <3>3, <3>4
  <2> QED BY <2>1, <2>2, <2>3, EmbodiedStays DEF BudgetEndsInTime
<1>2. CASE Apply BY <1>2 DEF Apply, BudgetEndsInTime
<1>3. CASE UNCHANGED <<job, applied, last, floor>>
  BY <1>3, EmbodiedStays DEF BudgetEndsInTime
<1> QED BY <1>1, <1>2, <1>3, OtherSteps

\* What is applied within its budget is not late.
LEMMA FreshStep ==
    Typed /\ BudgetEndsInTime /\ CommandsAreFresh /\ [Next]_vars => CommandsAreFresh'
<1> SUFFICES ASSUME Typed, BudgetEndsInTime, CommandsAreFresh, [Next]_vars
             PROVE  CommandsAreFresh'
  OBVIOUS
<1>1. CASE Apply
  <2>1. job # None BY <1>1 DEF Apply
  <2>2. CASE embodied /\ now - job.admitted < job.remaining
    <3>1. /\ now \in Int /\ Offset \in Int /\ MaxDelay \in Int
          /\ job.admitted \in Int /\ job.remaining \in Int /\ job.frame.sampled \in Int
      BY <2>1, IngressAssumption DEF Typed, FrameIsTyped
    <3>2. job.admitted + job.remaining <= job.frame.sampled - Offset + MaxDelay
      BY <2>1, <2>2 DEF BudgetEndsInTime
    <3>3. ~(Clock - job.frame.sampled >= MaxDelay)
      BY <2>2, <3>1, <3>2 DEF Clock
    <3>4. applied' = Given \/ applied' = applied BY <1>1 DEF Apply
    <3>5. Given.late = (Clock - job.frame.sampled >= MaxDelay) BY DEF Given
    <3>6. applied' = applied \/ ~applied'.late BY <3>3, <3>4, <3>5
    <3> QED BY <3>6, EmbodiedStays DEF CommandsAreFresh
  <2>3. CASE embodied /\ ~(now - job.admitted < job.remaining)
    <3>1. /\ now \in Int /\ job.admitted \in Int /\ job.remaining \in Int
      BY <2>1 DEF Typed
    <3>2. applied' = applied BY <1>1, <2>3, <3>1 DEF Apply
    <3> QED BY <3>2, EmbodiedStays DEF CommandsAreFresh
  <2>4. CASE ~embodied BY <2>4, EmbodiedStays DEF CommandsAreFresh
  <2> QED BY <2>2, <2>3, <2>4
<1>2. CASE OnFrame BY <1>2, EmbodiedStays DEF OnFrame, CommandsAreFresh
<1>3. CASE UNCHANGED <<job, applied, last, floor>>
  BY <1>3, EmbodiedStays DEF CommandsAreFresh
<1> QED BY <1>1, <1>2, <1>3, OtherSteps

\* On an embodied host no frame is given to the adapter max_delay or more after
\* its input was sampled, whatever the clocks and the datagrams do
\* (freshness.rs, admit_timing; apply.rs, consume_admission_budget).
THEOREM FreshnessHolds == Spec => []CommandsAreFresh
<1>1. Init => FreshInv
  <2> SUFFICES ASSUME Init PROVE FreshInv OBVIOUS
  <2>1. Typed BY TypedInit
  <2>2. WindowsAreLater /\ BudgetEndsInTime /\ CommandsAreFresh
    BY DEF Init, WindowsAreLater, BudgetEndsInTime, CommandsAreFresh
  <2> QED BY <2>1, <2>2 DEF FreshInv
<1>2. FreshInv /\ [Next]_vars => FreshInv'
  BY TypedStep, WindowsStep, BudgetStep, FreshStep DEF FreshInv
<1>3. FreshInv => CommandsAreFresh BY DEF FreshInv
<1> QED BY <1>1, <1>2, <1>3, PTL DEF Spec
-----------------------------------------------------------------------------
(* Waiting counts as age.                                                  *)

\* The wait in the queue is part of the age of a frame that passes.
QueueInv ==
    /\ Typed
    /\ job # None => ~job.waited
    /\ QueueingIsAge

\* On no host is a frame applied that waited for the actor StaleAge or longer:
\* the floor is learnt from the time of receipt (clients.rs, observe_timing).
THEOREM QueueingCounts == Spec => []QueueingIsAge
<1>1. Init => QueueInv
  BY TypedInit DEF Init, QueueInv, QueueingIsAge
<1>2. QueueInv /\ [Next]_vars => QueueInv'
  <2> SUFFICES ASSUME QueueInv, [Next]_vars PROVE QueueInv' OBVIOUS
  <2>1. Typed' BY TypedStep DEF QueueInv
  <2>2. CASE OnFrame
    <3>1. Typed BY DEF QueueInv
    <3>2. PICK f \in frames, received \in Int :
              /\ job = None /\ received <= now
              /\ floor' \in Int /\ floor' <= received - f.sampled
              /\ \/ job' = job
                 \/ /\ Admits(f, floor')
                    /\ \E left \in Budgets(f, floor') :
                          job' = [frame |-> f, admitted |-> now, remaining |-> left,
                                  waited |-> now - received >= StaleAge]
      BY <2>2, <3>1, OnFrameCase
    <3>3. Admits(f, floor') => ~(now - received >= StaleAge)
      <4>1. f.sampled \in Int /\ now \in Int /\ StaleAge \in Int
        BY <3>1, IngressAssumption DEF Typed, FrameIsTyped
      <4> QED BY <3>2, <4>1 DEF Admits, Age
    <3>4. ASSUME job' = job PROVE job' = None BY <3>2, <3>4
    <3>5. ASSUME Admits(f, floor'), NEW left,
                 job' = [frame |-> f, admitted |-> now, remaining |-> left,
                         waited |-> now - received >= StaleAge]
          PROVE  ~job'.waited
      <4>1. (now - received >= StaleAge) = FALSE BY <3>3, <3>5
      <4>2. job'.waited = (now - received >= StaleAge) BY <3>5
      <4> QED BY <4>1, <4>2
    <3>6. job' # None => ~job'.waited BY <3>2, <3>4, <3>5
    <3> QED BY <2>1, <2>2, <3>6 DEF QueueInv, QueueingIsAge, OnFrame
  <2>3. CASE Apply BY <2>1, <2>3 DEF Apply, Given, QueueInv, QueueingIsAge
  <2>4. CASE UNCHANGED <<job, applied, last, floor>>
    BY <2>1, <2>4 DEF QueueInv, QueueingIsAge
  <2> QED BY <2>2, <2>3, <2>4, OtherSteps
<1>3. QueueInv => QueueingIsAge BY DEF QueueInv
<1> QED BY <1>1, <1>2, <1>3, PTL DEF Spec
-----------------------------------------------------------------------------
(* Order.                                                                  *)

\* Two numbers of frames apart, their sequences are as far apart, but for the
\* wrap, and their samples at least as many periods.
Apart(n, sequence, m, other) ==
    \E q \in Int : other - sequence = m - n + q * Wrap

\* What the lane keeps of the frames sent on it, and on the lanes before it.
LaneInOrder ==
    /\ lane.generation <= generation
    /\ \A f \in frames :
          /\ f.number <= framed
          /\ f.generation <= lane.generation
          /\ lane.sampled # None
          /\ lane.sampled >= f.sampled + Period * (framed - f.number)
          /\ f.generation = lane.generation =>
                Apart(f.number, f.sequence, framed, lane.sequence)

FramesAreApart ==
    \A f \in frames, g \in frames :
        /\ f.generation < g.generation => f.number < g.number
        /\ f.generation = g.generation =>
              Apart(f.number, f.sequence, g.number, g.sequence)
        /\ f.number <= g.number =>
              g.sampled >= f.sampled + Period * (g.number - f.number)

\* Frame f is the one the host admitted last.
IsLast(f) ==
    /\ last.generation = f.generation /\ last.sequence = f.sequence
    /\ floor \in Int /\ floor <= now - f.sampled
    /\ job # None => job.frame.number = f.number
    /\ applied # None => /\ applied.number <= f.number
                         /\ job # None => applied.number < f.number

LastIsKnown ==
    /\ last # None => \E f \in frames : IsLast(f)
    /\ last = None => job = None /\ applied = None

OrderInv == Typed /\ LaneInOrder /\ FramesAreApart /\ LastIsKnown

\* A step further on a lane is a step further in its sequence.
LEMMA ApartStep ==
    ASSUME NEW n \in Int, NEW s \in Int, NEW m \in Int, NEW r \in Int,
           Apart(n, s, m, r)
    PROVE  Apart(n, s, m + 1, (r + 1) % Wrap)
<1>1. PICK q \in Int : r - s = m - n + q * Wrap BY DEF Apart
<1>2. Wrap \in Nat \ {0} BY IngressAssumption
<1>3. PICK p \in Int : (r + 1) % Wrap = r + 1 + p * Wrap
  <2>1. r + 1 \in Int OBVIOUS
  <2> QED BY <1>2, <2>1, Remainder
<1>4. q + p \in Int /\ (q + p) * Wrap = q * Wrap + p * Wrap BY <1>2
<1>5. q * Wrap \in Int /\ p * Wrap \in Int BY <1>2
<1>6. ((r + 1) % Wrap) - s = m + 1 - n + (q + p) * Wrap BY <1>1, <1>3, <1>4, <1>5
<1> QED BY <1>4, <1>6 DEF Apart

\* The distance of two frames, taken the other way round.
LEMMA ApartBack ==
    ASSUME NEW n \in Int, NEW s \in Int, NEW m \in Int, NEW r \in Int,
           Apart(n, s, m, r)
    PROVE  Apart(m, r, n, s)
<1>1. PICK q \in Int : r - s = m - n + q * Wrap BY DEF Apart
<1>2. Wrap \in Int BY IngressAssumption
<1>3. -q \in Int /\ (-q) * Wrap = -(q * Wrap) /\ q * Wrap \in Int BY <1>2
<1>4. s - r = n - m + (-q) * Wrap BY <1>1, <1>3
<1> QED BY <1>3, <1>4 DEF Apart

\* The client's frames of a lane go up by one in sequence and by a period in time.
LEMMA LaneStep ==
    Typed /\ LaneInOrder /\ FramesAreApart /\ [Next]_vars
        => LaneInOrder' /\ FramesAreApart'
<1> SUFFICES ASSUME Typed, LaneInOrder, FramesAreApart, [Next]_vars
             PROVE  LaneInOrder' /\ FramesAreApart'
  OBVIOUS
<1>c. /\ None \notin Int /\ Period \in Nat /\ Wrap \in Nat \ {0}
      /\ framed \in Nat /\ lane.generation \in Nat /\ lane.sequence \in Int
      /\ generation \in Nat
  BY IngressAssumption DEF Typed
<1>1. CASE ControlFrame
  <2>1. PICK t \in Int, id \in Nat :
              /\ lane.sampled # None => t >= lane.sampled + Period
              /\ lane' = [generation |-> lane.generation,
                          sequence |-> (lane.sequence + 1) % Wrap, sampled |-> t]
              /\ framed' = framed + 1
              /\ frames' = frames \cup
                    {[number |-> framed + 1, generation |-> lane.generation,
                      sequence |-> (lane.sequence + 1) % Wrap,
                      sampled |-> t, window |-> id, sent |-> now]}
    BY <1>1, ControlFrameCase
  <2> DEFINE new == [number |-> framed + 1, generation |-> lane.generation,
                     sequence |-> (lane.sequence + 1) % Wrap,
                     sampled |-> t, window |-> id, sent |-> now]
  <2>2. generation' = generation BY <1>1 DEF ControlFrame, hostVars
  <2>3. /\ new.number = framed + 1 /\ new.generation = lane.generation
        /\ new.sequence = (lane.sequence + 1) % Wrap /\ new.sampled = t
        /\ frames' = frames \cup {new}
        /\ lane'.generation = lane.generation /\ lane'.sequence = new.sequence
        /\ lane'.sampled = t
    BY <2>1
  <2> HIDE DEF new
  <2>4. new.sequence \in Int
    <3>1. lane.sequence + 1 \in Int BY <1>c
    <3> QED BY <1>c, <2>3, <3>1, Remainder
  <2>5. ASSUME NEW f \in frames
        PROVE  /\ f.number \in Nat /\ f.number <= framed /\ f.number < new.number
               /\ f.generation \in Nat /\ f.generation <= lane.generation
               /\ f.sequence \in Int /\ f.sampled \in Int
               /\ t >= f.sampled + Period * (new.number - f.number)
               /\ f.generation = lane.generation =>
                     Apart(f.number, f.sequence, new.number, new.sequence)
    <3>1. /\ f.number \in Nat /\ f.generation \in Nat /\ f.sequence \in Int
          /\ f.sampled \in Int
      BY DEF Typed, FrameIsTyped
    <3>2. /\ f.number <= framed /\ f.generation <= lane.generation
          /\ lane.sampled # None
          /\ lane.sampled >= f.sampled + Period * (framed - f.number)
          /\ f.generation = lane.generation =>
                Apart(f.number, f.sequence, framed, lane.sequence)
      BY DEF LaneInOrder
    <3>3. lane.sampled \in Int BY <3>2 DEF Typed
    <3>4. Period * (framed + 1 - f.number) = Period * (framed - f.number) + Period
      BY <1>c, <3>1
    <3>5. Period * (framed - f.number) \in Int BY <1>c, <3>1
    <3>6. t >= f.sampled + Period * (new.number - f.number)
      BY <1>c, <2>1, <2>3, <3>1, <3>2, <3>3, <3>4, <3>5
    <3>7. f.number < new.number BY <1>c, <2>3, <3>1, <3>2
    <3>8. ASSUME f.generation = lane.generation
          PROVE  Apart(f.number, f.sequence, new.number, new.sequence)
      <4>1. Apart(f.number, f.sequence, framed, lane.sequence) BY <3>2, <3>8
      <4> QED BY <1>c, <2>3, <3>1, <4>1, ApartStep
    <3> QED BY <3>1, <3>2, <3>6, <3>7, <3>8
  <2>6. /\ new.number \in Nat /\ new.generation \in Nat /\ new.sampled \in Int
        /\ Apart(new.number, new.sequence, new.number, new.sequence)
        /\ t >= new.sampled + Period * (new.number - new.number)
    <3>1. new.number \in Nat /\ new.generation \in Nat /\ new.sampled \in Int
      BY <1>c, <2>3
    <3>2. /\ 0 \in Int
          /\ new.sequence - new.sequence = new.number - new.number + 0 * Wrap
      BY <1>c, <2>4, <3>1
    <3>3. Period * (new.number - new.number) = 0 BY <1>c, <3>1
    <3> QED BY <2>3, <3>1, <3>2, <3>3 DEF Apart
  <2>7. LaneInOrder'
    <3>1. lane'.generation <= generation' BY <2>2, <2>3 DEF LaneInOrder
    <3>2. framed' = new.number /\ t # None BY <1>c, <2>1, <2>3
    <3>3. \A f \in frames' :
            /\ f.number <= framed'
            /\ f.generation <= lane'.generation
            /\ lane'.sampled # None
            /\ lane'.sampled >= f.sampled + Period * (framed' - f.number)
            /\ f.generation = lane'.generation =>
                  Apart(f.number, f.sequence, framed', lane'.sequence)
      <4> SUFFICES ASSUME NEW f \in frames'
                   PROVE  /\ f.number <= framed'
                          /\ f.generation <= lane'.generation
                          /\ lane'.sampled # None
                          /\ lane'.sampled >= f.sampled + Period * (framed' - f.number)
                          /\ f.generation = lane'.generation =>
                                Apart(f.number, f.sequence, framed', lane'.sequence)
        OBVIOUS
      <4>1. CASE f \in frames BY <2>3, <2>5, <2>6, <3>2, <4>1
      <4>2. CASE f = new BY <2>3, <2>6, <3>2, <4>2
      <4> QED BY <2>3, <4>1, <4>2
    <3> QED BY <3>1, <3>3 DEF LaneInOrder, Apart
  <2>8. FramesAreApart'
    <3> SUFFICES ASSUME NEW f \in frames', NEW g \in frames'
                 PROVE  /\ f.generation < g.generation => f.number < g.number
                        /\ f.generation = g.generation =>
                              Apart(f.number, f.sequence, g.number, g.sequence)
                        /\ f.number <= g.number =>
                              g.sampled >= f.sampled + Period * (g.number - f.number)
      BY DEF FramesAreApart, Apart
    <3>1. CASE f \in frames /\ g \in frames BY <3>1 DEF FramesAreApart
    <3>2. CASE f \in frames /\ g = new BY <2>3, <2>5, <3>2
    <3>3. CASE f = new /\ g \in frames
      <4>1. ~(f.number <= g.number) /\ ~(f.generation < g.generation)
        BY <2>3, <2>5, <2>6, <3>3
      <4>2. f.generation = g.generation =>
              Apart(f.number, f.sequence, g.number, g.sequence)
        BY <2>3, <2>4, <2>5, <2>6, <3>3, ApartBack
      <4> QED BY <4>1, <4>2
    <3>4. CASE f = new /\ g = new BY <2>3, <2>6, <3>4
    <3> QED BY <2>3, <3>1, <3>2, <3>3, <3>4
  <2> QED BY <2>7, <2>8
<1>2. CASE OpenLane
  <2>1. /\ lane' = [generation |-> generation, sequence |-> 0, sampled |-> lane.sampled]
        /\ lane.generation < generation
        /\ UNCHANGED <<framed, frames, generation>>
    BY <1>2 DEF OpenLane, netVars, hostVars
  <2>2. FramesAreApart' BY <2>1 DEF FramesAreApart, Apart
  <2>3. \A f \in frames : f.generation < generation
    BY <1>c, <2>1 DEF Typed, FrameIsTyped, LaneInOrder
  <2>4. \A f \in frames : f.generation \in Nat BY DEF Typed, FrameIsTyped
  <2> QED BY <1>c, <2>1, <2>2, <2>3, <2>4 DEF LaneInOrder, Apart
<1>3. CASE Regrant
  <2>1. generation' = generation + 1 /\ UNCHANGED <<lane, framed, frames>>
    BY <1>3 DEF Regrant, clientVars, netVars
  <2> QED BY <1>c, <2>1 DEF LaneInOrder, FramesAreApart, Apart
<1>4. CASE UNCHANGED <<lane, framed, frames, generation>>
  BY <1>4 DEF LaneInOrder, FramesAreApart, Apart
<1>5. ControlFrame \/ OpenLane \/ Regrant \/ UNCHANGED <<lane, framed, frames, generation>>
  BY DEF Next, Tick, MaintainControlWindow, ReceivePong, OnPing, OnFrame, Apply, vars,
         clientVars, netVars, hostVars
<1> QED BY <1>1, <1>2, <1>3, <1>4, <1>5

\* An admitted frame was sent after the one admitted last: one sent before it
\* would be within StaleAge of it, so at most Wrap - Half sequences behind, which
\* the cyclic comparison refuses.
LEMMA AdmittedIsAhead ==
    ASSUME OrderInv, NEW f \in frames, NEW g \in frames, last # None, IsLast(g),
           NEW base \in Int, base <= floor, Admits(f, base)
    PROVE  g.number < f.number
<1>1. /\ f.number \in Nat /\ f.generation \in Nat /\ f.sequence \in Int
      /\ f.sampled \in Int
      /\ g.number \in Nat /\ g.generation \in Nat /\ g.sequence \in Int
      /\ g.sampled \in Int
      /\ now \in Int /\ floor \in Int
  BY DEF OrderInv, Typed, FrameIsTyped, IsLast
<1>2. /\ Period \in Nat /\ Wrap \in Nat \ {0} /\ StaleAge \in Nat
      /\ StaleAge <= Period * (Wrap - Half)
      /\ Half \in Nat /\ Half < Wrap
  BY IngressAssumption, HalfOfWrap
<1>3. g.generation <= f.generation
  <2>1. g.generation <= lane.generation /\ lane.generation <= generation
    BY DEF OrderInv, LaneInOrder
  <2>2. f.generation = generation BY DEF Admits
  <2>3. lane.generation \in Nat BY DEF OrderInv, Typed
  <2> QED BY <1>1, <2>1, <2>2, <2>3
<1>4. CASE g.generation < f.generation BY <1>4 DEF OrderInv, FramesAreApart
<1>5. CASE g.generation = f.generation
  <2> SUFFICES ASSUME f.number <= g.number PROVE FALSE BY <1>1
  <2> DEFINE k == g.number - f.number
  <2>1. k \in Nat BY <1>1
  <2>2. g.sampled - f.sampled < StaleAge
    <3>1. now - f.sampled - base < StaleAge BY DEF Admits, Age
    <3>2. floor <= now - g.sampled BY DEF IsLast
    <3> QED BY <1>1, <1>2, <3>1, <3>2
  <2>3. g.sampled >= f.sampled + Period * k BY DEF OrderInv, FramesAreApart
  <2>4. k < Wrap - Half
    <3> SUFFICES ASSUME Wrap - Half <= k PROVE FALSE BY <1>2, <2>1
    <3>1. Period * (Wrap - Half) <= Period * k BY <1>2, <2>1, Scaled
    <3>2. Period * k \in Int /\ Period * (Wrap - Half) \in Int BY <1>2, <2>1
    <3> HIDE DEF k
    <3> QED BY <1>1, <1>2, <2>2, <2>3, <3>1, <3>2
  <2>5. /\ (f.sequence - g.sequence) % Wrap # 0
        /\ (f.sequence - g.sequence) % Wrap <= Half
    <3>1. last.generation = f.generation /\ last.sequence = g.sequence
      BY <1>5 DEF IsLast
    <3> QED BY <3>1 DEF Admits, SequenceAdmits
  <2>6. PICK q \in Int : f.sequence - g.sequence = q * Wrap - k
    <3>1. PICK q \in Int : f.sequence - g.sequence = f.number - g.number + q * Wrap
      BY <1>5 DEF OrderInv, FramesAreApart, Apart
    <3>2. q * Wrap \in Int BY <1>2
    <3>3. f.sequence - g.sequence = q * Wrap - k BY <1>1, <3>1, <3>2
    <3> QED BY <3>3
  <2>7. f.sequence - g.sequence \in Int BY <1>1
  <2> HIDE DEF k
  <2>8. CASE k = 0
    <3>1. f.sequence - g.sequence = q * Wrap BY <1>2, <2>6, <2>8
    <3>2. (f.sequence - g.sequence) % Wrap = 0 BY <1>2, <2>7, <3>1, Multiple
    <3> QED BY <2>5, <3>2
  <2>9. CASE k > 0
    <3>1. k < Wrap BY <1>2, <2>1, <2>4
    <3>2. (f.sequence - g.sequence) % Wrap = Wrap - k
      BY <1>2, <2>1, <2>6, <2>7, <2>9, <3>1, Behind
    <3>3. Wrap - k > Half BY <1>2, <2>1, <2>4
    <3>4. Wrap - k \in Int BY <1>2, <2>1
    <3> QED BY <1>2, <2>5, <3>2, <3>3, <3>4
  <2> QED BY <2>1, <2>8, <2>9
<1> QED BY <1>1, <1>3, <1>4, <1>5

\* The host's memory of the last frame goes on with each step.
LEMMA LastStep == OrderInv /\ [Next]_vars => LastIsKnown'
<1> SUFFICES ASSUME OrderInv, [Next]_vars PROVE LastIsKnown' OBVIOUS
<1>t. Typed /\ LastIsKnown BY DEF OrderInv
<1>n. /\ now \in Nat
      /\ \A f \in frames : f.sampled \in Int /\ f.number \in Nat
      /\ applied # None => applied.number \in Nat
  BY <1>t DEF Typed, FrameIsTyped
<1>1. CASE OnFrame
  <2>1. PICK f \in frames, received \in Int :
              /\ job = None /\ received <= now
              /\ floor' \in Int /\ floor' <= received - f.sampled
              /\ floor # None => floor' <= floor
              /\ \/ last' = last /\ job' = job
                 \/ /\ Admits(f, floor')
                    /\ last' = [generation |-> f.generation, sequence |-> f.sequence]
                    /\ \E left \in Budgets(f, floor') :
                          job' = [frame |-> f, admitted |-> now, remaining |-> left,
                                  waited |-> now - received >= StaleAge]
    BY <1>1, <1>t, OnFrameCase
  <2>2. UNCHANGED <<now, frames, applied>> BY <1>1 DEF OnFrame, netVars
  <2>3. CASE last' = last /\ job' = job
    <3>1. \A g \in frames : last # None /\ IsLast(g) => IsLast(g)'
      <4> SUFFICES ASSUME NEW g \in frames, IsLast(g) PROVE IsLast(g)' OBVIOUS
      <4>1. floor \in Int /\ floor # None /\ floor <= now - g.sampled
        BY IngressAssumption DEF IsLast
      <4>2. floor' <= now - g.sampled BY <1>n, <2>1, <4>1
      <4> QED BY <2>1, <2>2, <2>3, <4>2 DEF IsLast
    <3> QED BY <1>t, <2>2, <2>3, <3>1 DEF LastIsKnown
  <2>4. ASSUME Admits(f, floor'), NEW left,
               last' = [generation |-> f.generation, sequence |-> f.sequence],
               job' = [frame |-> f, admitted |-> now, remaining |-> left,
                       waited |-> now - received >= StaleAge]
        PROVE  LastIsKnown'
    <3>1. applied # None => applied.number < f.number
      <4> SUFFICES ASSUME applied # None PROVE applied.number < f.number OBVIOUS
      <4>1. last # None BY <1>t DEF LastIsKnown
      <4>2. PICK g \in frames : IsLast(g) BY <1>t, <4>1 DEF LastIsKnown
      <4>3. floor' <= floor BY <2>1, <4>2, IngressAssumption DEF IsLast
      <4>4. g.number < f.number BY <2>1, <2>4, <4>1, <4>2, <4>3, AdmittedIsAhead
      <4>5. applied.number <= g.number BY <4>2 DEF IsLast
      <4> QED BY <1>n, <4>4, <4>5
    <3>2. floor' <= now - f.sampled BY <1>n, <2>1
    <3>3. last'.generation = f.generation /\ last'.sequence = f.sequence BY <2>4
    <3>4. job'.frame = f BY <2>4
    <3>5. IsLast(f)' BY <1>n, <2>1, <2>2, <3>1, <3>2, <3>3, <3>4 DEF IsLast
    <3>6. last' # None
      <4>1. last' \in [generation : Nat, sequence : Int]
        BY <1>t, <2>4 DEF Typed, FrameIsTyped
      <4> QED BY <4>1, IngressAssumption
    <3> QED BY <2>2, <3>5, <3>6 DEF LastIsKnown
  <2> QED BY <2>1, <2>3, <2>4
<1>2. CASE Apply
  <2>1. /\ job # None /\ job' = None
        /\ UNCHANGED <<now, frames, floor, last>>
        /\ applied' = applied \/ applied' = Given
    BY <1>2 DEF Apply, netVars
  <2>2. last # None BY <1>t, <2>1 DEF LastIsKnown
  <2>3. PICK g \in frames : IsLast(g) BY <1>t, <2>2 DEF LastIsKnown
  <2>4. applied' # None => applied'.number <= g.number
    BY <1>n, <2>1, <2>3 DEF IsLast, Given
  <2>5. IsLast(g)' BY <2>1, <2>3, <2>4 DEF IsLast
  <2> QED BY <2>1, <2>2, <2>5 DEF LastIsKnown
<1>3. CASE UNCHANGED <<job, applied, last, floor>>
  <2>1. frames \subseteq frames' /\ (now' = now \/ now' = now + 1)
    BY DEF Next, Tick, MaintainControlWindow, ReceivePong, ControlFrame, OpenLane,
           Regrant, OnPing, OnFrame, Apply, vars, netVars
  <2>2. \A g \in frames : IsLast(g) => IsLast(g)'
    <3> SUFFICES ASSUME NEW g \in frames, IsLast(g) PROVE IsLast(g)' OBVIOUS
    <3>1. floor \in Int /\ floor <= now' - g.sampled BY <1>n, <2>1 DEF IsLast
    <3> QED BY <1>3, <3>1 DEF IsLast
  <2> QED BY <1>3, <1>t, <2>1, <2>2 DEF LastIsKnown
<1> QED BY <1>1, <1>2, <1>3, OtherSteps

\* What is applied next was sent after what was applied last.
LEMMA AppliedIsAhead ==
    OrderInv /\ [Next]_vars =>
        (applied' # applied => applied = None \/ applied'.number > applied.number)
<1> SUFFICES ASSUME OrderInv, [Next]_vars, applied' # applied, applied # None
             PROVE  applied'.number > applied.number
  OBVIOUS
<1>1. Apply BY OtherSteps DEF OnFrame
<1>2. job # None /\ applied' = Given BY <1>1 DEF Apply
<1>3. last # None BY <1>2 DEF OrderInv, LastIsKnown
<1>4. PICK g \in frames : IsLast(g) BY <1>3 DEF OrderInv, LastIsKnown
<1>5. applied'.number = g.number /\ applied.number < g.number
  BY <1>2, <1>4 DEF IsLast, Given
<1>6. applied.number \in Nat /\ g.number \in Nat
  BY DEF OrderInv, Typed, FrameIsTyped
<1> QED BY <1>5, <1>6

\* The adapter is given frames in the order they were sent, and none twice,
\* whatever the network repeats or reorders and wherever the sequence wraps
\* (frame_ingress.rs, sequence_admits; control.rs on the host's staleness window).
THEOREM OrderHolds == Spec => FramesInOrder
<1>1. Init => OrderInv
  <2> SUFFICES ASSUME Init PROVE OrderInv OBVIOUS
  <2>1. Typed BY TypedInit
  <2>2. LaneInOrder /\ FramesAreApart /\ LastIsKnown
    BY DEF Init, LaneInOrder, FramesAreApart, LastIsKnown
  <2> QED BY <2>1, <2>2 DEF OrderInv
<1>2. OrderInv /\ [Next]_vars => OrderInv'
  BY TypedStep, LaneStep, LastStep DEF OrderInv
<1>3. OrderInv /\ [Next]_vars =>
         [applied' # applied => applied = None \/ applied'.number > applied.number]_vars
  BY AppliedIsAhead
<1> QED BY <1>1, <1>2, <1>3, PTL DEF Spec, FramesInOrder
=============================================================================
