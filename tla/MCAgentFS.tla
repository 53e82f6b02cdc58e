----------------------------- MODULE MCAgentFS -----------------------------
(* AgentFS on a small instance: two names, chunks of two bytes.            *)
EXTENDS AgentFS

MCNames == {"a", "b"}
MCPaths == {<<"a">>, <<"a", "b">>}
MCPlans == { <<[path |-> <<"a">>, kind |-> "dir", write |-> FALSE, bytes |-> <<>>],
               [path |-> <<"a", "b">>, kind |-> "file", write |-> TRUE, bytes |-> <<3, 3, 3>>]>>,
             <<[path |-> <<"a">>, kind |-> "file", write |-> TRUE, bytes |-> <<3, 3, 3>>]>> }
MCOffsets == {0, 3}
MCPayloads == {<<3, 3, 3>>}
MCSizes == {1, 4}

\* States past a torn window are not explored: what they promise is nothing.
Untorn == Sound
=============================================================================
