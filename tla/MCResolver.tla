---------------------------- MODULE MCResolver -----------------------------
(* Finite instances of Resolver for TLC. *)
EXTENDS Resolver

CONSTANTS app, org, ns, a1, a2, a3

ZonesMC == [h \in Hosts |-> IF h = app THEN <<app, org>> ELSE <<org>>]

Is(addrs, aliases) == [addrs |-> addrs, aliases |-> aliases]

\* app has an address or an alias, which loops; servers do not agree
AMixed == [n \in Names |->
             CASE n = app -> {Is({}, {}), Is({a1}, {}), Is({a2}, {org}), Is({}, {org, ns})}
               [] n = org -> {Is({a1}, {}), Is({}, {app, org})}
               [] n = ns  -> {Is({a2}, {}), Is({}, {})}]
NSMixed == [n \in Names |-> IF n = app THEN {{}, {org}} ELSE {{ns}, {ns, org}}]

\* every server knows the one address of app, and the name server of org
APlain  == [n \in Names |-> IF n = ns THEN {Is({a3}, {})} ELSE {Is({a2}, {})}]
NSPlain == [n \in Names |-> IF n = org THEN {{ns}} ELSE {{}}]
=============================================================================
