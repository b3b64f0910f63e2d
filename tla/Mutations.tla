------------------------------ MODULE Mutations ------------------------------
(* What both pages of the web client need for the requests they send            *)
(* (apps/web/src/lib/api.ts): objects spread into each other.                   *)

\* { ...g, ...f }
Spread(f, g) == [x \in DOMAIN f \cup DOMAIN g |-> IF x \in DOMAIN f THEN f[x] ELSE g[x]]
==============================================================================
