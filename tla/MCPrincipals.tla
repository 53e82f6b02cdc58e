---------------------------- MODULE MCPrincipals ----------------------------
EXTENDS Principals

MCRequest(kinds, whos, attaches, flags) ==
    [kind : kinds, who : whos, attach : attaches, flag : flags]

\* One principal and two agents.
MCLeaseRequests ==
    MCRequest({"create"}, {"p"}, {"a"}, {FALSE})
    \union MCRequest({"attach"}, {"p"}, {"a", "b"}, BOOLEAN)
    \union MCRequest({"update"}, {"p"}, {"a", "b"}, BOOLEAN)
    \union MCRequest({"detach"}, {"p"}, {"a"}, {FALSE})
    \union MCRequest({"delete"}, {"p"}, {"a"}, BOOLEAN)

\* One principal is created, leased and deleted, beside one that was there before;
\* their private apps, and a public app.
MCAppRequests ==
    MCRequest({"register", "unregister"}, {"x"}, {"a"}, {FALSE})
    \union MCRequest({"create", "delete", "attach"}, {"p"}, {"a"}, {FALSE})
    \union MCRequest({"delete"}, {"q"}, {"a"}, {FALSE})
=============================================================================
