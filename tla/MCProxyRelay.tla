---------------------------- MODULE MCProxyRelay ----------------------------
(* A small instance of ProxyRelay for TLC. *)
EXTENDS ProxyRelay

(* All runs are from one address, or the second one is not. *)
SomeOrigins == {f \in [Runs -> Ips] : \A r \in Runs : f[r] = "wan" => r = 3}
=============================================================================
