----------------------------- MODULE MCOwnerUse -----------------------------
(* A small instance of OwnerUse: two tabs of one tenant and two transports. *)
EXTENDS OwnerUse, TLC

CONSTANTS i1, i2, u1, u2, u3

MCInstanceOf == (u1 :> i1) @@ (u2 :> i1) @@ (u3 :> i2)
MCOwnerOf == [u \in Use |-> "o"]
MCTransportsOf == (u1 :> <<"k1">>) @@ (u2 :> <<"k2", "k1">>) @@ (u3 :> <<"k1">>)
MCHolder == UNION {{<<u, MCTransportsOf[u][n]>> : n \in DOMAIN MCTransportsOf[u]} : u \in Use}
MCKeyOf == [h \in MCHolder |-> h[2]]
=============================================================================
