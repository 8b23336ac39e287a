--------------------------- MODULE MCRemoteWorker ---------------------------
(***************************************************************************)
(* A small instance of RemoteWorker: the credentials of two principals and *)
(* a changed request under the same task ID.  A client that gives up and   *)
(* tries again occupies several sessions at once.                          *)
(***************************************************************************)
EXTENDS RemoteWorker, TLC

CONSTANTS t1, plain, changed, s1, s2, p1, p2, v1, c1, good, other

MCPrincipals == {p1, p2}
MCTaskIds == {t1}
MCPayloads == {plain, changed}
MCSessions == {s1, s2}
MCClients == {c1}
MCCredentials == {good, other}

MCVerify == good :> p1 @@ other :> p2
MCRequests == {[id |-> t1, payload |-> x, deps |-> {}, valid |-> TRUE] : x \in MCPayloads}
\* p1 may send both requests, p2 only the first.
MCAuthorize == {<<p1, r>> : r \in MCRequests} \cup {<<p2, r>> : r \in {q \in MCRequests : q.payload = plain}}

MCOneOutput == {v1}
=============================================================================
