---------------------------- MODULE MCHttpServer ----------------------------
(* HttpServer on small instances. *)
EXTENDS HttpServer, TLC

\* Descriptors, connections and workers are interchangeable.
Symmetry == Permutations(Fds) \cup Permutations(Conns) \cup Permutations(Workers)

=============================================================================
