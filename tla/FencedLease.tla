---------------------------- MODULE FencedLease ----------------------------
(***************************************************************************)
(* What the authority engine promises the rest of the system (ADR-0006):   *)
(* each scope is a lease with one owner and a token.  The owner changes    *)
(* only together with a fresh token, so that a token names at most one     *)
(* owner, ever, and a gate that compares tokens alone admits nobody but    *)
(* the owner.  Offers, deadlines, links and override classes are invisible *)
(* at this level.                                                          *)
(***************************************************************************)
EXTENDS Naturals

CONSTANTS Scopes, Principals, NoPrincipal

VARIABLES
    owner,   \* the owner of each scope, or NoPrincipal
    token,   \* the token of each scope
    issued   \* history: every <<scope, token, principal>> handed out

leaseVars == <<owner, token, issued>>

LeaseInit ==
    /\ owner = [k \in Scopes |-> NoPrincipal]
    /\ token = [k \in Scopes |-> 0]
    /\ issued = {}

\* Scope k passes to p, or is issued to p anew, with a fresh token.
Install(k, p) ==
    /\ owner' = [owner EXCEPT ![k] = p]
    /\ token' = [token EXCEPT ![k] = token[k] + 1]
    /\ issued' = issued \cup {<<k, token[k] + 1, p>>}

\* Scope k is emptied; its last token is dead.
Vacate(k) ==
    /\ owner' = [owner EXCEPT ![k] = NoPrincipal]
    /\ token' = [token EXCEPT ![k] = token[k] + 1]
    /\ UNCHANGED issued

LeaseNext == \E k \in Scopes : Vacate(k) \/ \E p \in Principals : Install(k, p)

LeaseSpec == LeaseInit /\ [][LeaseNext]_leaseVars
=============================================================================
