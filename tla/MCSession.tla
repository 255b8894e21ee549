------------------------------ MODULE MCSession ------------------------------
(* Session for TLC: what the route handlers of the instances may do.          *)
EXTENDS Session

\* a handler that answers; one that pushes and closes
MCHandlers == {<<"respond">>, <<"push", "close">>}

\* a handler that answers, one that pushes, one that closes
MCOneCall == {<<op>> : op \in ResponderCall}
==============================================================================
