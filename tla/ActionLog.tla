----------------------------- MODULE ActionLog -----------------------------
(***************************************************************************)
(* The discrete actions (presses: arm, land, ...) of one operator:         *)
(*   client   pilotage-client-session, engine/commands.rs: numbers them    *)
(*   stream   reliable and ordered; the sender may send a press again      *)
(*   session  pilotage-session, engine/action_command.rs: refuses or passes*)
(*   actor    session-host, engine_actor/action_dedup.rs and apply.rs: the *)
(*            log that answers a repeated press instead of executing it    *)
(* Presses are numbered from 1; the wire carries an id that wraps.  A      *)
(* connection ends, what it has delivered is still handled, and the next   *)
(* one is a new client with a new session.                                 *)
(***************************************************************************)
EXTENDS Integers, Sequences

CONSTANTS IdMod,        \* 2^32
          Cached,       \* RESULTS_PER_CLIENT
          Queue,        \* outbound messages a connection holds
          None,
          MaxLag,       \* presses a sender has made after one it sends again
          MaxGap,       \* presses refused in a row by the session engine
          MaxStream, MaxPresses, MaxSessions, Remembered   \* bounds

\* u32::MAX / 2
Half == (IdMod - 1) \div 2

\* The ids are many: no gap, no retransmission and no cached result spans half of
\* them (action_dedup.rs: "a handful" of presses is in flight).  The history goes
\* back as far as a press that may still be delivered.
ASSUME ActionLogAssumption ==
    /\ {IdMod, Cached, Queue} \subseteq Nat \ {0}
    /\ {MaxLag, MaxGap, MaxStream, MaxPresses, MaxSessions, Remembered} \subseteq Nat
    /\ MaxLag + 2 <= Half /\ MaxGap < Half
    /\ MaxLag + MaxStream <= Remembered
    /\ Cached * (MaxGap + MaxLag + 1) + MaxLag < IdMod - 1
    /\ None \notin Int

VARIABLES pressed, stream,     \* the client's presses, and those on their way
          start, sessions,     \* first press of this session; sessions so far
          link,                \* the connection: up, ended, or its end handled
          registered,          \* the actor has the client in its registry
          queued,              \* the actor's queue to the connection
          log,                 \* ClientActions of this client
          newest,              \* history: the press log.latest stands for
          given, outcome,      \* history: calls of the adapter, result recorded
          answer               \* what the last delivery was answered

clientVars == <<pressed, stream>>
linkVars == <<start, sessions, link>>
historyVars == <<newest, given, outcome>>
vars == <<clientVars, linkVars, registered, queued, log, historyVars, answer>>

EmptyLog == [results |-> <<>>, order |-> <<>>, latest |-> None]

\* next_action_id.wrapping_add(1).max(1), p times: 0 is never minted.
Id(p) == 1 + ((p - 1) % (IdMod - 1))

Init ==
    /\ pressed = 0 /\ stream = <<>>
    /\ start = 1 /\ sessions = 1 /\ link = "up" /\ registered = TRUE
    /\ queued = 0 /\ log = EmptyLog
    /\ newest = None /\ given = <<>> /\ outcome = <<>> /\ answer = None
-----------------------------------------------------------------------------
(* The client and the connection.                                          *)

\* History is kept of the Remembered newest presses.
Aged(h, p, new) ==
    [q \in {r \in DOMAIN h \cup {p} : r > p - Remembered} |-> IF q = p THEN new ELSE h[q]]

Press ==
    /\ link = "up" /\ pressed < MaxPresses /\ Len(stream) < MaxStream
    /\ pressed' = pressed + 1
    /\ stream' = Append(stream, pressed + 1)
    /\ given' = Aged(given, pressed + 1, 0)
    /\ outcome' = Aged(outcome, pressed + 1, None)
    /\ answer' = None
    /\ UNCHANGED <<linkVars, registered, queued, log, newest>>

\* The same bytes again, also those made for an earlier session.
Resend ==
    /\ link = "up" /\ Len(stream) < MaxStream
    /\ \E p \in 1 .. pressed : pressed - p <= MaxLag /\ stream' = Append(stream, p)
    /\ answer' = None
    /\ UNCHANGED <<pressed, linkVars, registered, queued, log, historyVars>>

\* The connection's writer.
Drain ==
    /\ queued > 0 /\ queued' = queued - 1 /\ answer' = None
    /\ UNCHANGED <<clientVars, linkVars, registered, log, historyVars>>

\* run_connection: reader and writer are dropped.  What the reader had not passed
\* on is lost.
End ==
    /\ link = "up" /\ link' = "ended" /\ queued' = 0 /\ answer' = None
    /\ \E passed \in 0 .. Len(stream) : stream' = [i \in 1 .. passed |-> stream[i]]
    /\ UNCHANGED <<pressed, start, sessions, registered, log, historyVars>>

\* Its last message comes after all that were passed on.
Disconnect ==
    /\ link = "ended" /\ stream = <<>> /\ link' = "down"
    /\ registered' = FALSE /\ log' = EmptyLog /\ newest' = None /\ answer' = None
    /\ UNCHANGED <<clientVars, start, sessions, queued, given, outcome>>

Connect ==
    /\ link = "down" /\ sessions < MaxSessions
    /\ link' = "up" /\ registered' = TRUE /\ sessions' = sessions + 1
    /\ start' = pressed + 1 /\ answer' = None
    /\ UNCHANGED <<clientVars, queued, log, historyVars>>
-----------------------------------------------------------------------------
(* The log.                                                                *)

\* Mutant: whatever is not the newest id is fresh.
AdvancesByDifference(latest, id) == (id - latest) % IdMod # 0

\* advances
Advances(latest, id) ==
    LET distance == (id - latest) % IdMod IN distance # 0 /\ distance <= Half

Superseded(l, id) == l.latest # None /\ ~Advances(l.latest, id)

\* Mutant: an evicted id keeps its result.
RecordedForGood(l, id, accepted) ==
    LET all == IF id \in DOMAIN l.results THEN l.order ELSE Append(l.order, id)
    IN  [results |-> [i \in DOMAIN l.results \cup {id} |->
                        IF i = id THEN accepted ELSE l.results[i]],
         order |-> IF Len(all) > Cached THEN Tail(all) ELSE all,
         latest |-> IF Superseded(l, id) THEN l.latest ELSE id]

\* record
Recorded(l, id, accepted) ==
    LET all == IF id \in DOMAIN l.results THEN l.order ELSE Append(l.order, id)
        kept == IF Len(all) > Cached THEN Tail(all) ELSE all
    IN  [results |-> [i \in {kept[k] : k \in 1 .. Len(kept)} |->
                        IF i = id THEN accepted ELSE l.results[i]],
         order |-> kept,
         latest |-> IF Superseded(l, id) THEN l.latest ELSE id]
-----------------------------------------------------------------------------
(* The actor handles the next command.                                     *)

\* send_to: count messages, the log being l.  A client whose queue is full, or
\* whose connection ended, is forgotten with its log and sent nothing more; its
\* messages still come.
SendTo(l, press, count) ==
    \/ ~registered /\ log' = l /\ newest' = press /\ UNCHANGED <<registered, queued>>
    \/ registered /\ link = "up" /\ queued + count <= Queue
       /\ queued' = queued + count /\ log' = l /\ newest' = press /\ UNCHANGED registered
    \/ registered /\ (link = "up" => queued + count > Queue)
       /\ registered' = FALSE /\ log' = EmptyLog /\ newest' = None /\ UNCHANGED queued

Answered(p, by, accepted) ==
    answer' = [press |-> p, by |-> by, accepted |-> accepted]

\* on_action_command: a command of another session closes the client.
RefuseForeign(p) ==
    /\ p < start
    /\ registered' = FALSE /\ log' = EmptyLog /\ newest' = None /\ answer' = None
    /\ UNCHANGED <<queued, given, outcome>>

\* action_command_binding, admit_timing: the lease, the activation or the time
\* is not right.  Nothing is recorded of a refusal.
RefuseBinding(p) ==
    /\ p >= start
    /\ newest # None => p - newest < MaxGap
    /\ SendTo(log, newest, 1) /\ Answered(p, "engine", FALSE)
    /\ UNCHANGED <<given, outcome>>

\* strip_answered
Replay(p) ==
    /\ p >= start /\ Id(p) \in DOMAIN log.results
    /\ SendTo(log, newest, 1) /\ Answered(p, "log", log.results[Id(p)])
    /\ UNCHANGED <<given, outcome>>

RefuseSuperseded(p) ==
    /\ p >= start /\ Id(p) \notin DOMAIN log.results /\ Superseded(log, Id(p))
    /\ SendTo(log, newest, 1) /\ Answered(p, "watermark", FALSE)
    /\ UNCHANGED <<given, outcome>>

\* apply_to_adapter: the adapter takes the press or refuses it, or is not called,
\* because the budget ran out.  A refusal may come with a notice; then the result
\* is recorded and sent.  If the notice is what closes the client, the result
\* starts a new log.
Execute(p) ==
    /\ p >= start /\ Id(p) \notin DOMAIN log.results /\ ~Superseded(log, Id(p))
    /\ \E called \in BOOLEAN : \E accepted \in {called, FALSE} :
          /\ given' = [given EXCEPT ![p] = IF called /\ @ < 2 THEN @ + 1 ELSE @]
          /\ outcome' = [outcome EXCEPT ![p] = accepted]
          /\ Answered(p, "adapter", accepted)
          /\ \/ SendTo(Recorded(log, Id(p), accepted), p, 1)
             \/ ~accepted /\ SendTo(Recorded(log, Id(p), FALSE), p, 2)
             \/ /\ ~accepted /\ registered /\ (link = "up" => queued = Queue)
                /\ registered' = FALSE /\ newest' = p
                /\ log' = Recorded(EmptyLog, Id(p), FALSE) /\ UNCHANGED queued

Deliver ==
    /\ stream # <<>> /\ stream' = Tail(stream)
    /\ LET p == Head(stream)
       IN  \/ RefuseForeign(p) \/ RefuseBinding(p) \/ Replay(p)
           \/ RefuseSuperseded(p) \/ Execute(p)
    /\ UNCHANGED <<pressed, linkVars>>

\* Everything else the actor sends to the client (a datagram that finds the queue
\* full is dropped and changes nothing).
Broadcast ==
    /\ registered /\ SendTo(log, newest, 1) /\ answer' = None
    /\ UNCHANGED <<clientVars, linkVars, given, outcome>>

Next == Press \/ Resend \/ Drain \/ End \/ Disconnect \/ Connect \/ Deliver \/ Broadcast

Spec == Init /\ [][Next]_vars
-----------------------------------------------------------------------------
(* Properties.                                                             *)

\* While the actor has the client in its registry no press is given to the
\* adapter a second time, however often it is sent again, from before or after
\* its result was evicted, over a wrap of the ids or a reconnection.
OnceWhileRegistered ==
    [][\A p \in DOMAIN given \cap DOMAIN given' :
           given'[p] # given[p] => given[p] = 0 \/ ~registered]_vars

\* The log answers a press with the result of that very press, refuses only what
\* a later press superseded, and only what the adapter took is answered so.
AnswersAreTrue ==
    answer # None =>
        /\ answer.accepted => given[answer.press] > 0
        /\ answer.by = "log" => outcome[answer.press] = answer.accepted
        /\ answer.by = "watermark" /\ newest # None => answer.press < newest
=============================================================================
