---------------------------- MODULE MCLifecycle ----------------------------
(***************************************************************************)
(* From the first request to the last reference: how a connection is set   *)
(* up, how long it is held, and what becomes of its sockets.  A behaviour  *)
(* belongs to one of the three.                                            *)
(***************************************************************************)
EXTENDS Sockets, Handshake, KeepAlive

VARIABLE part   \* what a behaviour is about

lifeVars == <<part, socketVars, hsVars, keepVars>>

LifeInit == /\ part \in {"sockets", "handshake", "keepalive"}
            /\ SocketsInit
            /\ HandshakeInit
            /\ KeepInit
            /\ part # "handshake" => \A c \in Clients : cli[c].mode = "blocking"
            /\ part # "keepalive" => sendsData = "none" /\ ~lossy

LifeNext ==
  /\ \/ part = "sockets" /\ SocketsNext /\ UNCHANGED <<hsVars, keepVars>>
     \/ part = "handshake" /\ HandshakeNext /\ UNCHANGED <<socketVars, keepVars>>
     \/ part = "keepalive" /\ KeepNext /\ UNCHANGED <<socketVars, hsVars>>
  /\ UNCHANGED part

\* KeepFairness, for the behaviours that are about it: elsewhere no time passes.
Held(A) == part = "keepalive" /\ A /\ UNCHANGED <<part, socketVars, hsVars>>

LifeSpec == /\ LifeInit /\ [][LifeNext]_lifeVars
            /\ SocketsFairness
            /\ HandshakeFairness
            /\ WF_lifeVars(Held(Pass))
            /\ \A e \in Ends : WF_lifeVars(Held(Expire(e))) /\ WF_lifeVars(Held(Deliver(e)))
=============================================================================
