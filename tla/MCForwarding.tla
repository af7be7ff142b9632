----------------------------- MODULE MCForwarding -----------------------------
(* Where the backend hangs.                                                 *)
EXTENDS Forwarding

\* Every wait that has a time limit.
LimitedWaits ==
  {<<k, "headers">> : k \in Kinds} \cup {<<"json", "errorbody">>} \cup
  {<<k, "body">> : k \in {"json", "audio"}} \cup
  {<<k, "stream">> : k \in {"sse", "audio"}}

\* The body of an error.
ErrorBodies == {<<k, "errorbody">> : k \in Kinds}

Nowhere == {}
===============================================================================
