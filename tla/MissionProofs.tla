--------------------------- MODULE MissionProofs ----------------------------
(***************************************************************************)
(* What a mission owes and what it claims, for every set of documents and  *)
(* every limit.                                                            *)
(***************************************************************************)
EXTENDS Mission, TLAPS

\* The phases flown so far are those that were entered, each of them once.
Flown ==
    /\ \A p \in Phases(document) : <<p, 0>> \in sent <=> p \in Entered(entered)
    /\ \A i, j \in DOMAIN entered : entered[i] = entered[j] => i = j

\* A running mission has nothing to clean up, and its earlier phases succeeded.
Orderly ==
    Running =>
        /\ cause = "none" /\ failures = {} /\ sent \subseteq Phases(document) \X {0}
        /\ stage = "entry" =>
              phase \notin Entered(entered) /\ document.dependsOn[phase] \subseteq Entered(entered)
        /\ stage = "receipt" => phase \in Entered(entered)
        /\ \A p \in Entered(entered) :
              (stage = "receipt" /\ p = phase) \/ <<p, 0>> \in succeeded

\* Each cleanup step that is owed is to be issued, under way, or settled one
\* way or the other.
Accounted ==
    /\ todo \subseteq Owed
    /\ stage = "cleanup" => step \in Owed \ todo
    /\ stage = "terminal" => todo = {}
    /\ \A s \in Owed :
          /\ s \in todo => Of(s) \notin sent \cup failures
          /\ stage = "cleanup" /\ s = step =>
                Of(s) \in sent /\ Of(s) \notin failures \cup succeeded
          /\ s \notin todo /\ ~(stage = "cleanup" /\ s = step) =>
                Of(s) \in sent /\ (Of(s) \in failures <=> Of(s) \notin succeeded)

MissionInv ==
    /\ TypeOK /\ Flown /\ Orderly
    /\ cause = "complete" => stage = "terminal" /\ CompletionIsEarned
    /\ ~Running /\ cause # "complete" => Accounted
-----------------------------------------------------------------------------
\* The shape of an admitted document.
LEMMA DocumentShape ==
    ASSUME document \in Documents
    PROVE  /\ Phases(document) \subseteq Nat \ {0}
           /\ \A p \in Phases(document) :
                 /\ document.cleanups[p] \in Nat
                 /\ document.dependsOn[p] \subseteq Phases(document)
           /\ Acyclic(document)
<1> DEFINE n == Len(document.dependsOn)
<1>1. /\ document.dependsOn \in Seq(SUBSET (1 .. n)) /\ document.cleanups \in [1 .. n -> Nat]
      /\ Acyclic(document)
  BY MissionAssumption
<1>2. Phases(document) = 1 .. n
  BY <1>1 DEF Phases
<1>3. QED
  BY <1>1, <1>2

\* Steps that are owed, and the directives they stand for.
LEMMA OwedSteps ==
    ASSUME TypeOK, Flown
    PROVE  /\ \A s \in Owed :
                 /\ s[1] \in DOMAIN entered /\ s[2] \in 1 .. document.cleanups[entered[s[1]]]
                 /\ s = <<s[1], s[2]>> /\ s[1] \in Nat /\ s[2] \in Nat \ {0}
                 /\ Of(s) \in Phases(document) \X (Nat \ {0})
           /\ \A i \in DOMAIN entered : \A k \in 1 .. document.cleanups[entered[i]] :
                 <<i, k>> \in Owed
           /\ \A s, t \in Owed : Of(s) = Of(t) => s = t
<1>1. /\ document \in Documents /\ entered \in Seq(Phases(document))
      /\ \A i \in DOMAIN entered : i \in Nat /\ entered[i] \in Phases(document)
  BY DEF TypeOK
<1>2. \A i \in DOMAIN entered : document.cleanups[entered[i]] \in Nat
  BY <1>1, DocumentShape
<1>3. ASSUME NEW s \in Owed
      PROVE  /\ s[1] \in DOMAIN entered /\ s[2] \in 1 .. document.cleanups[entered[s[1]]]
             /\ s = <<s[1], s[2]>> /\ s[1] \in Nat /\ s[2] \in Nat \ {0}
             /\ Of(s) \in Phases(document) \X (Nat \ {0})
  <2>1. PICK i \in DOMAIN entered : s \in {i} \X (1 .. document.cleanups[entered[i]])
    BY DEF Owed
  <2>2. s = <<s[1], s[2]>> /\ s[1] = i /\ s[2] \in 1 .. document.cleanups[entered[i]]
    BY <2>1
  <2>3. QED
    BY <1>1, <1>2, <2>2 DEF Of
<1>4. \A i \in DOMAIN entered : \A k \in 1 .. document.cleanups[entered[i]] : <<i, k>> \in Owed
  BY DEF Owed
<1>5. ASSUME NEW s \in Owed, NEW t \in Owed, Of(s) = Of(t)
      PROVE  s = t
  BY <1>3, <1>5 DEF Of, Flown
<1>6. QED
  BY <1>3, <1>4, <1>5

\* A step of the cleanup, given the steps that are left: those are untouched so
\* far, and all others settled.
LEMMA IssuingKeepsAccount ==
    ASSUME TypeOK, Flown, NEW rest \in SUBSET Owed, IssueOrFinish(rest),
           UNCHANGED <<document, entered>>,
           \A s \in rest : Of(s) \notin sent \cup failures' \cup succeeded',
           \A s \in Owed \ rest : Of(s) \in sent /\ (Of(s) \in failures' <=> Of(s) \notin succeeded')
    PROVE  Accounted' /\ Flown' /\ stage' \in {"cleanup", "terminal"}
<1>1. Owed' = Owed /\ Entered(entered)' = Entered(entered) /\ Phases(document)' = Phases(document)
  BY DEF Owed, Entered, Phases
<1>2. \A s \in Owed : Of(s)' = <<entered[s[1]], s[2]>> /\ Of(s) = <<entered[s[1]], s[2]>>
  BY DEF Of
<1>3. CASE rest = {} /\ stage' = "terminal" /\ todo' = {} /\ sent' = sent
  <2>1. Accounted'
    BY <1>1, <1>2, <1>3 DEF Accounted, Of
  <2>2. Flown'
    BY <1>1, <1>3 DEF Flown
  <2>3. QED
    BY <1>3, <2>1, <2>2
<1>4. CASE \E s \in rest :
              /\ stage' = "cleanup" /\ step' = s /\ todo' = rest \ {s}
              /\ sent' = sent \cup {Of(s)}
  <2>1. PICK s \in rest : /\ stage' = "cleanup" /\ step' = s /\ todo' = rest \ {s}
                          /\ sent' = sent \cup {Of(s)}
    BY <1>4
  <2>2. Of(s)[2] # 0 /\ \A t \in Owed : Of(t) = Of(s) => t = s
    BY OwedSteps
  <2>3. Accounted'
    BY <1>1, <1>2, <2>1, <2>2 DEF Accounted, Of
  <2>4. Flown'
    BY <1>1, <2>1, <2>2 DEF Flown
  <2>5. QED
    BY <2>1, <2>3, <2>4
<1>5. QED
  BY <1>3, <1>4 DEF IssueOrFinish

\* What a step of the cleanup leaves well typed.
LEMMA IssuingKeepsTypes ==
    ASSUME TypeOK, Flown, NEW rest \in SUBSET Owed, IssueOrFinish(rest)
    PROVE  /\ stage' \in {"cleanup", "terminal"}
           /\ todo' \subseteq (DOMAIN entered) \X Nat /\ step' \in Nat \X Nat
           /\ retries' \in 0 .. RetryLimit /\ waited' \in 0 .. ReceiptTimeout
           /\ sent' \subseteq Phases(document) \X Nat /\ sent \subseteq sent'
<1>1. \A s \in Owed : s \in (DOMAIN entered) \X Nat /\ s \in Nat \X Nat
                      /\ Of(s) \in Phases(document) \X Nat
  BY OwedSteps
<1>2. 0 \in 0 .. RetryLimit /\ 0 \in 0 .. ReceiptTimeout
  BY MissionAssumption
<1>3. CASE rest = {}
  BY <1>1, <1>2, <1>3 DEF IssueOrFinish, TypeOK
<1>4. CASE rest # {}
  BY <1>1, <1>2, <1>4 DEF IssueOrFinish, TypeOK
<1>5. QED
  BY <1>3, <1>4

\* The mission stops and cleans up what it has entered.
LEMMA StoppingKeepsInv ==
    ASSUME MissionInv, Running,
           NEW why \in {"aborted", "refused", "deadline", "timeout"}, StartCleanup(why),
           UNCHANGED <<document, entered, failures>>,
           succeeded \subseteq succeeded', succeeded' \subseteq succeeded \cup {<<phase, 0>>},
           phase' \in Phases(document), wall' = wall, age' \in 0 .. WallLimit,
           <<phase, 0>> \in succeeded' => <<phase, 0>> \in sent
    PROVE  MissionInv'
<1>1. /\ TypeOK /\ Flown /\ failures = {} /\ sent \subseteq Phases(document) \X {0}
      /\ IssueOrFinish(Owed) /\ cause' = why
  BY DEF MissionInv, Orderly, StartCleanup
<1>2. succeeded' \subseteq Phases(document) \X {0} /\ succeeded' \subseteq sent
  BY <1>1 DEF TypeOK
<1>3. \A s \in Owed : Of(s) \notin sent \cup failures' \cup succeeded'
  BY <1>1, <1>2, OwedSteps
<1>4. Accounted' /\ Flown' /\ stage' \in {"cleanup", "terminal"}
  BY <1>1, <1>3, IssuingKeepsAccount, Zenon
<1>5. /\ todo' \subseteq (DOMAIN entered) \X Nat /\ step' \in Nat \X Nat
      /\ retries' \in 0 .. RetryLimit /\ waited' \in 0 .. ReceiptTimeout
      /\ sent' \subseteq Phases(document) \X Nat /\ sent \subseteq sent'
  BY <1>1, IssuingKeepsTypes, Zenon
<1>6. Phases(document)' = Phases(document)
  BY DEF Phases
<1>7. TypeOK'
  BY <1>1, <1>2, <1>4, <1>5, <1>6 DEF TypeOK
<1>8. Orderly' /\ (~Running /\ cause # "complete" => Accounted)'
      /\ (cause = "complete" => stage = "terminal" /\ CompletionIsEarned)'
  BY <1>1, <1>4 DEF Orderly, Running
<1>9. QED
  BY <1>4, <1>7, <1>8 DEF MissionInv

\* The cleanup goes on with the steps that are left.
LEMMA CleaningKeepsInv ==
    ASSUME MissionInv, stage = "cleanup", IssueOrFinish(todo),
           UNCHANGED <<document, phase, entered, cause, wall, age>>,
           \/ succeeded' = succeeded \cup {Of(step)} /\ failures' = failures
           \/ failures' = failures \cup {Of(step)} /\ succeeded' = succeeded
    PROVE  MissionInv'
<1>1. /\ TypeOK /\ Flown /\ Accounted /\ cause # "complete"
      /\ todo \subseteq Owed /\ step \in Owed \ todo
  BY DEF MissionInv, Running, Accounted
<1>2. Of(step) \in sent /\ Of(step) \notin failures \cup succeeded
  BY <1>1 DEF Accounted
<1>3. \A s \in Owed : Of(s) = Of(step) => s = step
  BY <1>1, OwedSteps
<1>4. \A s \in todo : Of(s) \notin sent \cup failures' \cup succeeded'
  BY <1>1, <1>2, <1>3 DEF Accounted, TypeOK
<1>5. \A s \in Owed \ todo : Of(s) \in sent /\ (Of(s) \in failures' <=> Of(s) \notin succeeded')
  BY <1>1, <1>2, <1>3 DEF Accounted
<1>6. Accounted' /\ Flown' /\ stage' \in {"cleanup", "terminal"}
  BY <1>1, <1>4, <1>5, IssuingKeepsAccount, Zenon
<1>7. /\ todo' \subseteq (DOMAIN entered) \X Nat /\ step' \in Nat \X Nat
      /\ retries' \in 0 .. RetryLimit /\ waited' \in 0 .. ReceiptTimeout
      /\ sent' \subseteq Phases(document) \X Nat /\ sent \subseteq sent'
  BY <1>1, IssuingKeepsTypes, Zenon
<1>8. Phases(document)' = Phases(document)
  BY DEF Phases
<1>9. Of(step) \in Phases(document) \X Nat
  BY <1>1, OwedSteps
<1>10. TypeOK'
  BY <1>1, <1>2, <1>6, <1>7, <1>8, <1>9 DEF TypeOK
<1>11. Orderly' /\ (~Running /\ cause # "complete" => Accounted)'
       /\ (cause = "complete" => stage = "terminal" /\ CompletionIsEarned)'
  BY <1>1, <1>6 DEF Orderly, Running
<1>12. QED
  BY <1>6, <1>10, <1>11 DEF MissionInv

\* A phase is entered whose turn it is.
LEMMA EnteringKeepsInv ==
    ASSUME MissionInv, Running, NEW p \in Phases(document), EnterPhase(p), phase' = p,
           p \notin Entered(entered), document.dependsOn[p] \subseteq Entered(entered),
           UNCHANGED <<document, todo, step, cause, failures>>,
           succeeded \subseteq succeeded', succeeded' \subseteq sent,
           \A q \in Entered(entered) : <<q, 0>> \in succeeded',
           wall' = wall, age' \in 0 .. WallLimit
    PROVE  MissionInv'
<1>1. /\ TypeOK /\ Flown /\ cause = "none" /\ failures = {}
      /\ sent \subseteq Phases(document) \X {0}
  BY DEF MissionInv, Orderly
<1>2. /\ entered' = Append(entered, p) /\ entered \in Seq(Phases(document))
      /\ stage' = "receipt" /\ sent' = sent \cup {<<p, 0>>}
  BY <1>1 DEF EnterPhase, TypeOK
<1>3. /\ DOMAIN entered' = DOMAIN entered \cup {Len(entered) + 1}
      /\ \A i \in DOMAIN entered : entered'[i] = entered[i]
      /\ entered'[Len(entered) + 1] = p /\ Len(entered) + 1 \notin DOMAIN entered
      /\ entered' \in Seq(Phases(document))
  BY <1>2
<1>4. Entered(entered') = Entered(entered) \cup {p} /\ Phases(document)' = Phases(document)
  BY <1>3 DEF Entered, Phases
<1>5. Flown'
  <2>1. \A q \in Phases(document) : <<q, 0>> \in sent' <=> q \in Entered(entered')
    BY <1>1, <1>2, <1>4 DEF Flown
  <2>2. \A i, j \in DOMAIN entered' : entered'[i] = entered'[j] => i = j
    BY <1>1, <1>3 DEF Flown, Entered
  <2>3. QED
    BY <1>4, <2>1, <2>2 DEF Flown
<1>6. TypeOK'
  <2>1. todo' \subseteq (DOMAIN entered') \X Nat
    BY <1>1, <1>3 DEF TypeOK
  <2>2. retries' \in 0 .. RetryLimit /\ waited' \in 0 .. ReceiptTimeout
    BY MissionAssumption DEF EnterPhase
  <2>3. QED
    BY <1>1, <1>2, <1>3, <1>4, <2>1, <2>2 DEF TypeOK
<1>7. Orderly'
  BY <1>1, <1>2, <1>4 DEF Orderly, Running
<1>8. QED
  BY <1>1, <1>2, <1>5, <1>6, <1>7 DEF MissionInv, Running

\* A phase has succeeded, and is left.
LEMMA LeavingKeepsInv ==
    ASSUME MissionInv, Running, Leave, UNCHANGED <<document, wall>>,
           succeeded \subseteq succeeded', succeeded' \subseteq succeeded \cup {<<phase, 0>>},
           <<phase, 0>> \in succeeded' => <<phase, 0>> \in sent,
           \A q \in Entered(entered) : <<q, 0>> \in succeeded'
    PROVE  MissionInv'
<1>1. /\ TypeOK /\ Flown /\ cause = "none" /\ failures = {}
      /\ sent \subseteq Phases(document) \X {0} /\ succeeded' \subseteq sent
  BY DEF MissionInv, Orderly, TypeOK
<1>2. Phases(document)' = Phases(document)
  BY DEF Phases
<1>3. CASE /\ Ready(Entered(entered)) = {}
           /\ stage' = "terminal" /\ cause' = "complete"
           /\ UNCHANGED <<work, failures, age, waited, sent>>
  <2>1. Entered(entered) = Phases(document)
    <3>1. Entered(entered) \subseteq Phases(document)
      BY <1>1 DEF TypeOK, Entered
    <3>2. Acyclic(document)
      BY <1>1, DocumentShape DEF TypeOK
    <3>3. QED
      BY <1>3, <3>1, <3>2 DEF Ready, Acyclic
  <2>2. CompletionIsEarned'
    BY <1>1, <1>2, <1>3, <2>1 DEF CompletionIsEarned
  <2>3. Flown'
    BY <1>1, <1>2, <1>3 DEF Flown, Entered, work
  <2>4. TypeOK'
    BY <1>1, <1>2, <1>3 DEF TypeOK, work
  <2>5. QED
    BY <1>3, <2>2, <2>3, <2>4 DEF MissionInv, Orderly, Running
<1>4. CASE \E next \in Ready(Entered(entered)) :
              /\ phase' = next /\ age' = 0
              /\ \/ StartCleanup("aborted") /\ UNCHANGED <<entered, failures>>
                 \/ EnterPhase(next) /\ UNCHANGED <<todo, step, result>>
                 \/ /\ stage' = "entry"
                    /\ UNCHANGED <<entered, todo, step, retries, result, waited, sent>>
  <2>1. PICK next \in Ready(Entered(entered)) :
              /\ phase' = next /\ age' = 0
              /\ \/ StartCleanup("aborted") /\ UNCHANGED <<entered, failures>>
                 \/ EnterPhase(next) /\ UNCHANGED <<todo, step, result>>
                 \/ /\ stage' = "entry"
                    /\ UNCHANGED <<entered, todo, step, retries, result, waited, sent>>
    BY <1>4
  <2>2. /\ next \in Phases(document) /\ next \notin Entered(entered)
        /\ document.dependsOn[next] \subseteq Entered(entered)
    BY DEF Ready
  <2>3. age' \in 0 .. WallLimit
    BY <2>1, MissionAssumption
  <2>4. CASE StartCleanup("aborted") /\ UNCHANGED <<entered, failures>>
    BY <2>1, <2>2, <2>3, <2>4, StoppingKeepsInv
  <2>5. CASE EnterPhase(next) /\ UNCHANGED <<todo, step, result>>
    BY <1>1, <2>1, <2>2, <2>3, <2>5, EnteringKeepsInv DEF result
  <2>6. CASE /\ stage' = "entry"
             /\ UNCHANGED <<entered, todo, step, retries, result, waited, sent>>
    <3>1. TypeOK'
      BY <1>1, <1>2, <2>1, <2>2, <2>3, <2>6 DEF TypeOK, result
    <3>2. Flown' /\ Entered(entered)' = Entered(entered)
      BY <1>1, <1>2, <2>6 DEF Flown, Entered
    <3>3. Orderly'
      BY <1>1, <1>2, <2>1, <2>2, <2>6, <3>2 DEF Orderly, result
    <3>4. QED
      BY <1>1, <2>6, <3>1, <3>2, <3>3 DEF MissionInv, Running, result
  <2>7. QED
    BY <2>1, <2>4, <2>5, <2>6
<1>5. QED
  BY <1>3, <1>4 DEF Leave

\* A step that only counts: clocks and retries.
LEMMA CountingKeepsInv ==
    ASSUME MissionInv,
           UNCHANGED <<document, stage, phase, entered, todo, step, cause, failures, sent,
                       succeeded>>,
           retries' \in 0 .. RetryLimit,
           wall' \in 0 .. WallLimit, age' \in 0 .. WallLimit, waited' \in 0 .. ReceiptTimeout
    PROVE  MissionInv'
<1>1. Phases(document)' = Phases(document) /\ Owed' = Owed /\ Entered(entered)' = Entered(entered)
  BY DEF Phases, Owed, Entered
<1>2. TypeOK'
  BY <1>1 DEF MissionInv, TypeOK
<1>3. Flown' /\ Orderly' /\ (CompletionIsEarned => CompletionIsEarned')
  BY <1>1 DEF MissionInv, Flown, Orderly, Running, CompletionIsEarned
<1>4. Accounted => Accounted'
  BY <1>1 DEF Accounted, Of
<1>5. QED
  BY <1>2, <1>3, <1>4 DEF MissionInv, Running
-----------------------------------------------------------------------------
\* A mission starts in its first ready phase with nothing sent.
LEMMA InitialMission == Init => MissionInv
<1> SUFFICES ASSUME Init PROVE MissionInv
  OBVIOUS
<1>1. TypeOK
  BY MissionAssumption DEF Init, TypeOK
<1>2. Entered(entered) = {} /\ Flown
  BY DEF Init, Entered, Flown
<1>3. Orderly
  BY <1>2 DEF Init, Orderly, Running, IsFirst, Ready
<1>4. QED
  BY <1>1, <1>2, <1>3 DEF Init, MissionInv, Running

\* Every tick keeps the invariant.
LEMMA TicksKeepInv == MissionInv /\ [Next]_vars => MissionInv'
<1> SUFFICES ASSUME MissionInv, [Next]_vars PROVE MissionInv'
  OBVIOUS
<1>0. /\ TypeOK /\ Orderly /\ Flown
      /\ retries \in 0 .. RetryLimit /\ wall \in 0 .. WallLimit /\ age \in 0 .. WallLimit
      /\ waited \in 0 .. ReceiptTimeout /\ phase \in Phases(document) /\ succeeded \subseteq sent
      /\ RetryLimit \in Nat /\ WallLimit \in Nat /\ ReceiptTimeout \in Nat
  BY MissionAssumption DEF MissionInv, TypeOK
<1>1. CASE Clock
  BY <1>0, <1>1, CountingKeepsInv DEF Clock, Upto, work, result, history
<1>2. CASE MissionDeadline
  BY <1>0, <1>2, StoppingKeepsInv DEF MissionDeadline
<1>3. CASE PhaseDeadline
  BY <1>0, <1>3, StoppingKeepsInv DEF PhaseDeadline
<1>4. CASE Abort
  BY <1>0, <1>4, StoppingKeepsInv DEF Abort, OnTime
<1>5. CASE Enter
  <2>1. /\ phase \notin Entered(entered) /\ document.dependsOn[phase] \subseteq Entered(entered)
        /\ \A q \in Entered(entered) : <<q, 0>> \in succeeded
    BY <1>0, <1>5 DEF Enter, OnTime, Orderly, Running
  <2>2. QED
    BY <1>0, <1>5, <2>1, EnteringKeepsInv DEF Enter, OnTime, result
<1>6. CASE ReceiptSucceeded
  <2>1. Running /\ phase \in Entered(entered) /\ <<phase, 0>> \in sent
        /\ succeeded' = succeeded \cup {<<phase, 0>>} /\ UNCHANGED <<document, wall>>
    BY <1>0, <1>6 DEF ReceiptSucceeded, OnTime, Orderly, Flown
  <2>2. \A q \in Entered(entered) : <<q, 0>> \in succeeded'
    BY <1>0, <2>1 DEF Orderly
  <2>3. CASE Leave
    BY <2>1, <2>2, <2>3, LeavingKeepsInv
  <2>4. CASE stage' = "completion" /\ UNCHANGED <<work, result, age, waited, sent>>
    <3>1. Phases(document)' = Phases(document) /\ Entered(entered)' = Entered(entered)
      BY <2>1, <2>4 DEF Phases, Entered, work
    <3>2. TypeOK'
      BY <1>0, <2>1, <2>4, <3>1 DEF TypeOK, work, result
    <3>3. Flown' /\ Orderly' /\ cause' = "none"
      BY <1>0, <2>1, <2>2, <2>4, <3>1 DEF Flown, Orderly, work, result
    <3>4. QED
      BY <2>4, <3>2, <3>3 DEF MissionInv, Running
  <2>5. QED
    BY <1>6, <2>3, <2>4 DEF ReceiptSucceeded
<1>7. CASE ReceiptRefused
  BY <1>0, <1>7, StoppingKeepsInv DEF ReceiptRefused, OnTime
<1>8. CASE Retry
  BY <1>0, <1>8, CountingKeepsInv DEF Retry, result, history
<1>9. CASE ReceiptTimedOut
  BY <1>0, <1>9, StoppingKeepsInv DEF ReceiptTimedOut, OnTime
<1>10. CASE Complete
  <2>1. Running /\ \A q \in Entered(entered) : <<q, 0>> \in succeeded
    BY <1>0, <1>10 DEF Complete, OnTime, Orderly
  <2>2. QED
    BY <1>0, <1>10, <2>1, LeavingKeepsInv DEF Complete
<1>11. CASE CleanupReceipt
  BY <1>11, CleaningKeepsInv DEF CleanupReceipt
<1>12. CASE CleanupRetry
  BY <1>0, <1>12, CountingKeepsInv DEF CleanupRetry, result, history
<1>13. CASE CleanupTimeout
  BY <1>13, CleaningKeepsInv DEF CleanupTimeout
<1>14. CASE UNCHANGED vars
  BY <1>0, <1>14, CountingKeepsInv DEF vars, work, result, clocks, history
<1>15. QED
  BY <1>1, <1>2, <1>3, <1>4, <1>5, <1>6, <1>7, <1>8, <1>9, <1>10, <1>11, <1>12, <1>13,
     <1>14 DEF Next, Ended

\* The invariant holds throughout.
THEOREM MissionHolds == Spec => []MissionInv
BY InitialMission, TicksKeepInv, PTL DEF Spec

\* A mission that ends other than complete has attempted every cleanup action of
\* every phase it began, and reports exactly those that were not acknowledged.
THEOREM CleanupIsComplete == Spec => []NothingLeftBehind
<1>1. MissionInv => NothingLeftBehind
  <2> SUFFICES ASSUME MissionInv, stage = "terminal", cause # "complete",
                      NEW p \in Phases(document), <<p, 0>> \in sent,
                      NEW k \in 1 .. document.cleanups[p]
               PROVE  /\ <<p, k>> \in sent
                      /\ <<p, k>> \in failures <=> <<p, k>> \notin succeeded
    BY DEF NothingLeftBehind
  <2>1. TypeOK /\ Flown /\ Accounted
    BY DEF MissionInv, Running
  <2>2. PICK i \in DOMAIN entered : entered[i] = p
    BY <2>1 DEF Flown, Entered
  <2>3. <<i, k>> \in Owed /\ <<i, k>> \notin todo /\ Of(<<i, k>>) = <<p, k>>
    BY <2>1, <2>2, OwedSteps DEF Accounted, Of
  <2>4. QED
    BY <2>1, <2>3 DEF Accounted
<1>2. QED
  BY <1>1, MissionHolds, PTL

\* A mission is called complete only when every action succeeded.
THEOREM CompletionHolds == Spec => []CompletionIsEarned
<1>1. MissionInv => CompletionIsEarned
  BY DEF MissionInv, CompletionIsEarned
<1>2. QED
  BY <1>1, MissionHolds, PTL
-----------------------------------------------------------------------------
\* The cleanup step that is issued comes after all that were entered later.
LEMMA IssuingIsInOrder ==
    ASSUME TypeOK, Flown, NEW rest \in SUBSET Owed, IssueOrFinish(rest),
           UNCHANGED entered,
           \A s \in Owed \ rest : Of(s) \in failures' \cup succeeded'
    PROVE  \A d \in sent' \ sent : InOrder(d)
<1> SUFFICES ASSUME NEW d \in sent' \ sent PROVE InOrder(d)
  OBVIOUS
<1>1. PICK s \in rest : d = Of(s) /\ \A t \in rest \ {s} : Before(s, t)
  BY DEF IssueOrFinish
<1>2. d[1] = entered[s[1]] /\ d[2] # 0 /\ s[1] \in DOMAIN entered /\ s[1] \in Nat
  BY <1>1, OwedSteps DEF Of
<1>3. ASSUME NEW i \in DOMAIN entered, NEW j \in DOMAIN entered,
             NEW k \in 1 .. document.cleanups[entered[j]], i < j, entered[i] = d[1]
      PROVE  Settled(<<entered[j], k>>)
  <2>1. i = s[1] /\ i \in Nat /\ j \in Nat
    BY <1>2, <1>3 DEF Flown, TypeOK
  <2>2. <<j, k>> \in Owed /\ <<j, k>>[1] = j
    BY OwedSteps
  <2>3. <<j, k>> \notin rest
    BY <1>1, <1>3, <2>1, <2>2 DEF Before
  <2>4. Of(<<j, k>>) = <<entered[j], k>>
    BY DEF Of
  <2>5. QED
    BY <2>2, <2>3, <2>4 DEF Settled
<1>4. QED
  BY <1>2, <1>3 DEF InOrder

\* Nothing was owed before the mission stopped, and all of it is then.
LEMMA StoppingIsInOrder ==
    ASSUME MissionInv, NEW why, StartCleanup(why), UNCHANGED entered
    PROVE  \A d \in sent' \ sent : InOrder(d)
BY IssuingIsInOrder DEF MissionInv, StartCleanup

\* An action goes out after those it depends on.
LEMMA EnteringIsInOrder ==
    ASSUME MissionInv, Running, NEW p, EnterPhase(p),
           document.dependsOn[p] \subseteq Entered(entered),
           \A q \in Entered(entered) : <<q, 0>> \in succeeded'
    PROVE  \A d \in sent' \ sent : InOrder(d)
<1>1. \A e \in sent : e[2] = 0 /\ e \in succeeded'
  <2> SUFFICES ASSUME NEW e \in sent PROVE e[2] = 0 /\ e \in succeeded'
    OBVIOUS
  <2>1. e = <<e[1], 0>> /\ e[1] \in Phases(document)
    BY DEF MissionInv, Orderly
  <2>2. e[1] \in Entered(entered)
    BY <2>1 DEF MissionInv, Flown
  <2>3. QED
    BY <2>1, <2>2
<1>2. \A d \in sent' \ sent : d[1] = p /\ d[2] = 0
  BY DEF EnterPhase
<1>3. QED
  BY <1>1, <1>2 DEF InOrder

\* A phase that is left is followed in order.
LEMMA LeavingIsInOrder ==
    ASSUME MissionInv, Running, Leave, \A q \in Entered(entered) : <<q, 0>> \in succeeded'
    PROVE  \A d \in sent' \ sent : InOrder(d)
<1>1. CASE sent' = sent
  BY <1>1
<1>2. CASE StartCleanup("aborted") /\ UNCHANGED entered
  BY <1>2, StoppingIsInOrder
<1>3. CASE \E next \in Ready(Entered(entered)) : EnterPhase(next)
  <2>1. PICK next \in Ready(Entered(entered)) : EnterPhase(next)
    BY <1>3
  <2>2. document.dependsOn[next] \subseteq Entered(entered)
    BY DEF Ready
  <2>3. QED
    BY <2>1, <2>2, EnteringIsInOrder
<1>4. QED
  BY <1>1, <1>2, <1>3 DEF Leave

\* Actions go out in the order of their dependencies and one at a time, cleanup
\* in the reverse order of the phases.
THEOREM OrderOfWork == Spec => WorkInOrder
<1>1. MissionInv /\ [Next]_vars => [\A d \in sent' \ sent : InOrder(d)]_vars
  <2> SUFFICES ASSUME MissionInv, Next PROVE \A d \in sent' \ sent : InOrder(d)
    OBVIOUS
  <2>0. TypeOK /\ Orderly /\ Flown
    BY DEF MissionInv
  <2>1. CASE UNCHANGED sent
    BY <2>1
  <2>2. CASE MissionDeadline \/ PhaseDeadline \/ Abort \/ ReceiptRefused \/ ReceiptTimedOut
    BY <2>2, StoppingIsInOrder
       DEF MissionDeadline, PhaseDeadline, Abort, ReceiptRefused, ReceiptTimedOut
  <2>3. CASE Enter
    <3>1. /\ Running /\ document.dependsOn[phase] \subseteq Entered(entered)
          /\ \A q \in Entered(entered) : <<q, 0>> \in succeeded
      BY <2>0, <2>3 DEF Enter, OnTime, Orderly, Running
    <3>2. QED
      BY <2>3, <3>1, EnteringIsInOrder DEF Enter
  <2>4. CASE ReceiptSucceeded
    <3>1. Running /\ succeeded' = succeeded \cup {<<phase, 0>>}
      BY <2>4 DEF ReceiptSucceeded, OnTime
    <3>2. \A q \in Entered(entered) : <<q, 0>> \in succeeded'
      BY <2>0, <3>1 DEF Orderly
    <3>3. CASE Leave
      BY <3>1, <3>2, <3>3, LeavingIsInOrder
    <3>4. CASE UNCHANGED sent
      BY <3>4
    <3>5. QED
      BY <2>4, <3>3, <3>4 DEF ReceiptSucceeded
  <2>5. CASE Complete
    <3>1. Running /\ \A q \in Entered(entered) : <<q, 0>> \in succeeded'
      BY <2>0, <2>5 DEF Complete, OnTime, Orderly
    <3>2. QED
      BY <2>5, <3>1, LeavingIsInOrder DEF Complete
  <2>6. CASE CleanupReceipt \/ CleanupTimeout
    <3>1. /\ stage = "cleanup" /\ IssueOrFinish(todo) /\ UNCHANGED entered
          /\ failures \subseteq failures' /\ succeeded \subseteq succeeded'
          /\ Of(step) \in failures' \cup succeeded'
      BY <2>6 DEF CleanupReceipt, CleanupTimeout
    <3>2. Accounted
      BY <3>1 DEF MissionInv, Running
    <3>3. \A s \in Owed \ todo : Of(s) \in failures' \cup succeeded'
      BY <3>1, <3>2 DEF Accounted
    <3>4. QED
      BY <2>0, <3>1, <3>2, <3>3, IssuingIsInOrder DEF Accounted
  <2>7. QED
    BY <2>1, <2>2, <2>3, <2>4, <2>5, <2>6
       DEF Next, Clock, Retry, CleanupRetry, Ended, vars, history
<1>2. QED
  BY <1>1, MissionHolds, PTL DEF Spec, WorkInOrder
=============================================================================
