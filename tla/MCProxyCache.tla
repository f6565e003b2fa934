---------------------------- MODULE MCProxyCache ----------------------------
(* Instances of the proxy cache for model checking.                         *)
EXTENDS ProxyCache

\* Three objects that do not fit into the cache together, and one too large to keep.
MixedSizes == [u \in Uris |-> CASE u = "huge" -> 3 [] u = "small" -> 1 [] OTHER -> 2]

\* The first two are asked for again.
MixedRequests == [u \in Uris |-> IF u \in {"large", "medium"} THEN 2 ELSE 1]

\* Every object has size one.
UnitSizes == [u \in Uris |-> 1]

Twice  == [u \in Uris |-> 2]
Thrice == [u \in Uris |-> 3]
=============================================================================
