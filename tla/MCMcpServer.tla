---------------------------- MODULE MCMcpServer ----------------------------
(* Instances of McpServer for TLC. *)
EXTENDS McpServer, TLC

CONSTANTS c1, c2, c3, i1, i2

Asks(ids, kinds, overwrites) == [id : ids, kind : kinds, overwrite : overwrites]

\* Two calls write the same path, and the second and the third may take an id of another.
TwoWriters ==
  (c1 :> Asks({i1}, {"create"}, {FALSE})) @@
  (c2 :> Asks({i1, i2}, {"create"}, {TRUE}) \union Asks({i1, i2}, {"export"}, {FALSE})) @@
  (c3 :> Asks({i2}, {"pure"}, {FALSE}))
=============================================================================
