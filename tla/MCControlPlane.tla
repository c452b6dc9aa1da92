--------------------------- MODULE MCControlPlane ---------------------------
(* An instance of ControlPlane for TLC: an operator who may end threads, and  *)
(* two users who may each steer and follow a thread of their own.            *)
EXTENDS ControlPlane, TLC

CONSTANTS operator, alice, bob, th1, th2, t1, t2, t3, t4, r1, w1, w2, w3, local, http

MethodsMC == {"thread/steer", "thread/cancel", "event/poll"}
MethodsOfMC ==
    (operator :> {"thread/cancel", "event/poll"})
    @@ (alice :> {"thread/steer", "event/poll"})
    @@ (bob :> {"thread/steer", "event/poll"})
ScopeOfMC == (operator :> {th1}) @@ (alice :> {th1}) @@ (bob :> {th2})
AskedMC == [steer |-> {"thread/steer"} \X {th1}, cancel |-> {<<"thread/cancel", th1>>, <<"thread/steer", th2>>},
            stream |-> {}]
CastMC == [steer |-> {local, http, w1, w2}, cancel |-> {local, http, w1}, stream |-> {w3}]
MaxFeedMC == [steer |-> 2, cancel |-> 2, stream |-> 3]
WorkMC == (w1 :> {th1}) @@ (w2 :> {th1}) @@ (w3 :> {th1, th2})
FilterMC == r1 :> th1
TokensMC == r1 :> {t2, t4}

Lasting(p) == [who |-> p, expires |-> None, revoked |-> FALSE]
FirstMC == (t1 :> Lasting(operator)) @@ (t2 :> Lasting(alice)) @@ (t3 :> Lasting(bob)) @@ (t4 :> None)
=============================================================================
