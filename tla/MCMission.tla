----------------------------- MODULE MCMission ------------------------------
(* Documents TLC explores: a line of phases, a branch that waits for both   *)
(* others, and a list out of order.                                         *)
EXTENDS Mission

Doc(dependsOn, deadline, cleanups) ==
    [dependsOn |-> dependsOn, deadline |-> deadline, cleanups |-> cleanups]

MCDocuments ==
    {Doc(<<{}, {}, {}>>, <<2, NoDeadline, 1>>, <<1, 2, 1>>),
     Doc(<<{2, 3}, {}, {2}>>, <<NoDeadline, 1, 3>>, <<1, 0, 2>>),
     Doc(<<{}, {3}, {}>>, <<1, 2, NoDeadline>>, <<2, 1, 1>>)}
=============================================================================
