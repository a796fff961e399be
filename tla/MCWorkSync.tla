----------------------------- MODULE MCWorkSync -----------------------------
(***************************************************************************)
(* Two queues; the first needs a resource and has an executor of its own.   *)
(* The resource s is defined by itself; m by itself, by the provider p, that *)
(* asks again and again and may also provide o, or by the provider b.  The  *)
(* strategies of o and of u, that is defined by itself, are unknown.        *)
(***************************************************************************)
EXTENDS WorkSync, TLC

CONSTANTS q1, q2, e1, e2, s, m, o, u, p, b, t

MCExecutorOf == q1 :> e1 @@ q2 :> e2
MCNeeds == q1 :> {t} @@ q2 :> {}
MCTypeOf == s :> t @@ m :> t @@ o :> t @@ u :> t @@ p :> t @@ b :> t
MCOffers == p :> {m, o} @@ b :> {m}
MCDefinitions == {{}, {s, p}, {s, m}, {b, p}, {u}}
=============================================================================
