---- MODULE MCResources ----
(* Two clients that need both types and one that needs the first only; two   *)
(* resources of each type.                                                    *)
EXTENDS Resources

CONSTANTS c1, c2, c3, o1, o2, o3, o4

MCClient == {c1, c2, c3}
MCType == {1, 2}
MCObj == {o1, o2, o3, o4}
MCNeeds == (c1 :> {1, 2}) @@ (c2 :> {1, 2}) @@ (c3 :> {1})
MCTypeOf == (o1 :> 1) @@ (o2 :> 2) @@ (o3 :> 2) @@ (o4 :> 1)
MCNameOf == (o1 :> "a") @@ (o2 :> "b") @@ (o3 :> "c") @@ (o4 :> "d")
\* o1 has a delay, o2 a rate limit; the limits of o3 cannot be read, and the
\* strategy of o4 is unknown
MCDefaultDelay == (o1 :> 1) @@ (o2 :> 0) @@ (o3 :> 0) @@ (o4 :> 0)
MCResets == (o1 :> {}) @@ (o2 :> {1}) @@ (o3 :> {}) @@ (o4 :> {})
MCBadLimits == {o3}
MCBadStrategy == {o4}
====
