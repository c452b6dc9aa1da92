--------------------------- MODULE AccessControl ---------------------------
(***************************************************************************)
(* control_auth.py: bearer tokens stand for principals until they expire   *)
(* or are revoked, and a principal may call some methods on some threads.  *)
(* A token is rotated in two steps, the new one registered and then the    *)
(* old one revoked, while the servers' threads use the same authorizer.    *)
(***************************************************************************)
EXTENDS Naturals

CONSTANTS
    Principals,
    Threads,
    Methods,
    MethodsOf,  \* allowed_methods of a principal
    ScopeOf,    \* thread_ids of a principal
    Everything, \* the scope of one that may use all threads
    BearerTokens,
    Managed,    \* the tokens that are rotated and revoked
    MaxTime,    \* bound on the clock
    None

Credential == [who : Principals, expires : 0..MaxTime \cup {None}, revoked : BOOLEAN]

ASSUME AccessAssumption ==
    /\ MethodsOf \in [Principals -> SUBSET Methods]
    /\ ScopeOf \in [Principals -> SUBSET Threads \cup {Everything}]
    /\ MaxTime \in Nat
    /\ None \notin Credential

VARIABLES
    now,
    creds,    \* the credential of a token, None when it is not registered
    rotating  \* the rotation under way: the old token, to be revoked

accessVars == <<now, creds, rotating>>

AccessTypeOK ==
    /\ now \in 0..MaxTime
    /\ creds \in [BearerTokens -> Credential \cup {None}]
    /\ rotating # None => rotating \in BearerTokens /\ creds[rotating] # None

Active(t) ==
    /\ creds[t] # None /\ ~creds[t].revoked
    /\ creds[t].expires # None => now < creds[t].expires

\* authorize: a scoped principal must name the threads it is after.
MayCall(p, method, named) ==
    /\ method \in MethodsOf[p]
    /\ ScopeOf[p] # Everything => named # {} /\ named \subseteq ScopeOf[p]

\* authenticate, then authorize, as every request begins.
Admitted(t, method, named) == Active(t) /\ MayCall(creds[t].who, method, named)

Expiries == {None} \cup now + 1..MaxTime

Revoke(t) ==
    /\ creds[t] # None /\ ~creds[t].revoked
    /\ creds' = [creds EXCEPT ![t].revoked = TRUE]
    /\ UNCHANGED <<now, rotating>>

\* rotate: authenticate the old token and register the new one for its principal,
RotateIn(old, new, expires) ==
    /\ rotating = None /\ Active(old)
    /\ creds[new] = None /\ expires \in Expiries
    /\ creds' = [creds EXCEPT ![new] = [who |-> creds[old].who, expires |-> expires, revoked |-> FALSE]]
    /\ rotating' = old
    /\ UNCHANGED now

\* then revoke the old one.
RotateOut ==
    /\ rotating # None
    /\ creds' = [creds EXCEPT ![rotating].revoked = TRUE]
    /\ rotating' = None
    /\ UNCHANGED now

Tick ==
    /\ now < MaxTime
    /\ now' = now + 1
    /\ UNCHANGED <<creds, rotating>>

Administer ==
    \/ \E t \in Managed : Revoke(t)
    \/ \E old, new \in Managed : \E e \in Expiries : RotateIn(old, new, e)
    \/ RotateOut \/ Tick
=============================================================================
