----------------------------- MODULE MCEventLoop -----------------------------
(* Instances of EventLoop.                                                    *)
EXTENDS EventLoop, TLC

CONSTANTS
    fuse, thread,   \* clients
    a, b            \* servers

\* A client that fills one server from the other and restores a file the other
\* way, and the reconnect thread of another storage on one of them.
Mirrors == {<<fuse, a, "restoreall", b>>, <<fuse, b, "restore", a>>, <<thread, b, "plain", b>>}

\* Two clients of one server.
Two == {<<fuse, a, "plain", a>>, <<thread, a, "plain", a>>}

=============================================================================
