----------------------------- MODULE MCPipeline -----------------------------
(* Small instances of Pipeline for TLC. *)
EXTENDS Pipeline

Orders(sets) == UNION {SetToSeqs(s) : s \in sets}

(* Every order of every choice of up to three middlewares, and of the four *)
(* that share a writer or its headers.                                     *)
Writers == {"cors", "logger", "compress", "cache"}
SomeStacks == Orders({s \in SUBSET (Writers \cup {"jwt", "key"}) : Cardinality(s) <= 3}
                       \cup {Writers})

AnyPolicy == {"any", "credentials", "listed"}
ListedOrigins == {"a"}

(* With and without credentials, gzip and an origin, and a preflight. *)
SomeRequests ==
  {[preflight |-> FALSE, gzip |-> g, known |-> k, origin |-> IF k THEN "a" ELSE "b"] :
     g, k \in BOOLEAN}
  \cup {[preflight |-> TRUE, gzip |-> TRUE, known |-> FALSE, origin |-> "a"],
        [preflight |-> FALSE, gzip |-> FALSE, known |-> TRUE, origin |-> ""]}

Codes == {201, 204, 404}
=============================================================================
