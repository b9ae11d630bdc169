----------------------------- MODULE MCSession -----------------------------
(***************************************************************************)
(* Session on small instances: the catalogs a run advertises.              *)
(***************************************************************************)
EXTENDS Session, TLC

CONSTANTS flight, dock, motion

Descriptor(k, intents, actions) == [group |-> k, intents |-> intents, actions |-> actions]
Stick == Descriptor(motion, TRUE, FALSE)
ArmedStick == Descriptor(motion, TRUE, TRUE)
DockOfMotion == Descriptor(motion, FALSE, TRUE)

\* One group of two members, the stick and a sibling that takes only actions,
\* under a catalog in which the stick's own contract changes.
OneGroup ==
    {flight :> Stick @@ dock :> DockOfMotion,
     flight :> ArmedStick @@ dock :> DockOfMotion}

Symmetry == Permutations(Clients)
=============================================================================
