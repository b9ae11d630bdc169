------------------------------ MODULE Ingress ------------------------------
(***************************************************************************)
(* The way of a control frame from one client to the adapter:              *)
(*   client   pilotage-client-session, engine/window.rs, engine/commands.rs*)
(*   network  datagrams: lost, duplicated, delayed, reordered              *)
(*   session  pilotage-session, engine/freshness.rs, engine/frame_ingress  *)
(*   actor    session-host, engine_actor/apply.rs                          *)
(* A frame is stamped by the client's clock, which shares no epoch with    *)
(* the host's.  On a physically embodied host it must name a window that   *)
(* the host issued in a pong; any other host judges it by its age relative *)
(* to the most prompt sample the client ever delivered.                    *)
(***************************************************************************)
EXTENDS Integers, Sequences, FiniteSets

CONSTANTS Offset,      \* client clock minus host clock
          Bucket,      \* ticks in the millisecond that stamps transport events
          Cadence,     \* ticks between probes
          Period,      \* ticks between the frames of a lane
          Window,      \* validity of a control window
          MaxDelay,    \* max_delay of a command
          StaleAge,    \* staleness policy of the host
          Wrap,        \* 2^32
          Probes, Kept,\* probes and windows remembered
          None,
          MaxTime, MaxDatagrams, MaxFrames, MaxGeneration, MaxLag   \* bounds

\* u32::MAX / 2
Half == (Wrap - 1) \div 2

\* The last conjunct is control.rs's "the host's staleness window, not the
\* counter range, is the real bound": within StaleAge no lane sends so many
\* frames that an old one looks new.
ASSUME IngressAssumption ==
    /\ Offset \in Int
    /\ {Bucket, Cadence, Period, Window, MaxDelay, StaleAge, Wrap, Probes, Kept}
           \subseteq Nat \ {0}
    /\ {MaxTime, MaxDatagrams, MaxFrames, MaxGeneration, MaxLag} \subseteq Nat
    /\ None \notin Int /\ None \notin [generation : Nat, sequence : Int]
    /\ StaleAge <= Period * (Wrap - Half)

VARIABLES now,        \* the host's clock
          embodied,   \* capability of this host: control needs a window
          \* client
          lane,       \* generation, sequence and last sample of the open lane
          probes, lastProbe, windows, pinged, framed,
          \* network
          pings, pongs, frames,
          \* host
          generation, issued, nextWindow, floor, last, job,
          applied     \* the last frame the adapter was given

clientVars == <<lane, probes, lastProbe, windows, pinged, framed>>
netVars == <<pings, pongs, frames>>
hostVars == <<generation, issued, nextWindow, floor, last, job, applied>>
vars == <<now, embodied, clientVars, netVars, hostVars>>

Clock == now + Offset
Millis(t) == t - (t % Bucket)
Larger(a, b) == IF a < b THEN b ELSE a
Smaller(a, b) == IF a < b THEN a ELSE b
datagrams == pinged + nextWindow + framed

Init ==
    /\ now = 0 /\ embodied \in BOOLEAN
    /\ lane = [generation |-> 0, sequence |-> 0, sampled |-> None]
    /\ probes = <<>> /\ lastProbe = None /\ windows = {} /\ pinged = 0 /\ framed = 0
    /\ pings = {} /\ pongs = {} /\ frames = {}
    /\ generation = 0 /\ issued = {} /\ nextWindow = 0
    /\ floor = None /\ last = None /\ job = None /\ applied = None

Tick ==
    /\ now < MaxTime /\ now' = now + 1
    /\ UNCHANGED <<embodied, clientVars, netVars, hostVars>>

\* Both sides remember the Kept newest windows.
Newest(S) == {w \in S : Cardinality({v \in S : v.id > w.id}) < Kept}
-----------------------------------------------------------------------------
(* The client.                                                             *)

\* A rate-limited ping, stamped with the millisecond of t.
Probe(t) ==
    IF embodied /\ datagrams < MaxDatagrams /\ (lastProbe = None \/ t - lastProbe >= Cadence)
    THEN /\ lastProbe' = t /\ pinged' = pinged + 1
         /\ probes' = LET all == Append(probes, Millis(t))
                      IN  IF Len(all) > Probes THEN Tail(all) ELSE all
         /\ pings' = pings \cup {Millis(t)}
    ELSE UNCHANGED <<lastProbe, pinged, probes, pings>>

MaintainControlWindow ==
    /\ embodied /\ Probe(Clock) /\ pinged' # pinged
    /\ UNCHANGED <<now, embodied, lane, windows, framed, pongs, frames, hostVars>>

\* Mutant: a window counts from the millisecond its pong came in.
OpenWindowAtOnce(pong) ==
    [id |-> pong.id, from |-> Millis(Clock), until |-> pong.sent + Window]

\* A window is for the inputs after its pong.  Its end counts from the probe,
\* so that no delay on the way prolongs it.
OpenWindow(pong) ==
    [id |-> pong.id, from |-> Millis(Clock) + Bucket, until |-> pong.sent + Window]

\* Only the reply to an outstanding probe counts, and only once.
ReceivePong ==
    /\ \E pong \in pongs :
          /\ \E i \in 1 .. Len(probes) : probes[i] = pong.sent
          /\ \A w \in windows : w.id < pong.id
          /\ pong.sent <= Millis(Clock) /\ Millis(Clock) < pong.sent + Window
          /\ probes' = SelectSeq(probes, LAMBDA sent : sent # pong.sent)
          /\ windows' = Newest(windows \cup {OpenWindow(pong)})
    /\ UNCHANGED <<now, embodied, lane, lastProbe, pinged, framed, netVars, hostVars>>

\* id_at: the newest window that an input sampled at t falls into, or 0.
IdsAt(t) ==
    LET fits == {w \in windows : w.from <= t /\ t < w.until}
    IN  IF fits = {} THEN {0}
        ELSE {w.id : w \in {v \in fits : \A u \in fits : u.id <= v.id}}

\* control_frame: the shell passes an input with the time it was sampled.
ControlFrame ==
    /\ framed < MaxFrames /\ datagrams < MaxDatagrams
    /\ \E t \in Clock - MaxLag .. Clock :
          /\ t >= Offset
          /\ lane.sampled # None => t >= lane.sampled + Period
          /\ Probe(t)
          /\ lane' = [lane EXCEPT !.sequence = (@ + 1) % Wrap, !.sampled = t]
          /\ framed' = framed + 1
          /\ \E id \in IdsAt(t) :
                frames' = frames \cup
                   {[number |-> framed + 1, generation |-> lane.generation,
                     sequence |-> (lane.sequence + 1) % Wrap,
                     sampled |-> t, window |-> id, sent |-> now]}
    /\ UNCHANGED <<now, embodied, windows, pongs, hostVars>>

\* The scope was released and granted again: the host fences the old lane, and
\* the client opens a new one when the reply reaches it.
Regrant ==
    /\ generation < MaxGeneration /\ job = None
    /\ generation' = generation + 1
    /\ UNCHANGED <<now, embodied, clientVars, netVars, issued, nextWindow, floor, last,
                   job, applied>>

OpenLane ==
    /\ lane.generation < generation
    /\ lane' = [generation |-> generation, sequence |-> 0, sampled |-> lane.sampled]
    /\ UNCHANGED <<now, embodied, probes, lastProbe, windows, pinged, framed, netVars,
                   hostVars>>
-----------------------------------------------------------------------------
(* The host.                                                               *)

OnPing ==
    /\ job = None /\ datagrams < MaxDatagrams
    /\ \E sent \in pings :
          /\ nextWindow' = nextWindow + 1
          /\ issued' = Newest(issued \cup
                          {[id |-> nextWindow + 1, at |-> now, notBefore |-> sent]})
          /\ pongs' = pongs \cup {[id |-> nextWindow + 1, sent |-> sent]}
    /\ UNCHANGED <<now, embodied, clientVars, pings, frames, generation, floor, last, job,
                   applied>>

\* Mutant: the floor is learnt when the message is handled.
FloorWhenHandled(f, received) ==
    IF floor = None THEN now - f.sampled ELSE Smaller(floor, now - f.sampled)

\* The smallest host time minus client stamp of this client so far.  The time
\* of receipt counts, not the time spent in the actor's queue.
FloorAfter(f, received) ==
    IF floor = None THEN received - f.sampled ELSE Smaller(floor, received - f.sampled)

\* correlated_age
Age(f, base) == now - f.sampled - base

\* admit_timing: what is left of max_delay to a frame whose window is known,
\* is not too old and was asked for before the sample.
Budgets(f, base) ==
    IF embodied
    THEN {MaxDelay - Larger(Age(f, base), now - w.at) :
             w \in {v \in issued : /\ v.id = f.window /\ f.sampled >= v.notBefore
                                   /\ now - v.at < Window}}
    ELSE {MaxDelay}

\* Mutant: anything but a repetition advances.
AdmitsAnyOther(f) ==
    last = None \/ last.generation # f.generation \/ f.sequence # last.sequence

\* sequence_admits
SequenceAdmits(f) ==
    \/ last = None \/ last.generation # f.generation
    \/ LET distance == (f.sequence - last.sequence) % Wrap
       IN  distance # 0 /\ distance <= Half

Admits(f, base) ==
    /\ Age(f, base) < StaleAge
    /\ f.generation = generation
    /\ SequenceAdmits(f)

\* on_received_message and on_frame: the floor is kept even of a refused frame.
OnFrame ==
    /\ job = None
    /\ \E f \in frames : \E received \in f.sent .. now :
          LET base == FloorAfter(f, received)
              lefts == {left \in Budgets(f, base) : left > 0}
          IN  /\ floor' = base
              /\ IF Admits(f, base) /\ lefts # {}
                 THEN \E left \in lefts :
                         /\ last' = [generation |-> f.generation, sequence |-> f.sequence]
                         /\ job' = [frame |-> f, admitted |-> now, remaining |-> left,
                                    waited |-> now - received >= StaleAge]
                 ELSE UNCHANGED <<last, job>>
    /\ UNCHANGED <<now, embodied, clientVars, netVars, generation, issued, nextWindow,
                   applied>>

\* What the adapter is given: the frame's number, whether its input is max_delay
\* old, and whether it waited StaleAge in the actor's queue.
Given == [number |-> job.frame.number, late |-> Clock - job.frame.sampled >= MaxDelay,
          waited |-> job.waited]

\* apply_to_adapter: consume_admission_budget may refuse what was admitted.
Apply ==
    /\ job # None /\ job' = None
    /\ applied' = IF embodied /\ now - job.admitted >= job.remaining THEN applied ELSE Given
    /\ UNCHANGED <<now, embodied, clientVars, netVars, generation, issued, nextWindow,
                   floor, last>>

Next ==
    \/ Tick \/ MaintainControlWindow \/ ReceivePong \/ ControlFrame \/ OpenLane
    \/ Regrant \/ OnPing \/ OnFrame \/ Apply

Spec == Init /\ [][Next]_vars
-----------------------------------------------------------------------------
(* Properties.                                                             *)

\* On an embodied host no frame reaches the adapter max_delay or more after its
\* input was sampled, in true time, however clocks and datagrams behave.
CommandsAreFresh == embodied /\ applied # None => ~applied.late

\* A frame's wait in the actor's queue counts as age on every host
\* (freshness.rs: it cannot establish a fresh clock floor).
QueueingIsAge == applied # None => ~applied.waited

\* The adapter is given the frames of a session in the order they were sent, no
\* frame twice, across regrants and across the wrap of the sequence.
FramesInOrder ==
    [][applied' # applied =>
          applied = None \/ applied'.number > applied.number]_vars
=============================================================================
