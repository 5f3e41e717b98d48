--------------------------- MODULE MCObjectAdapter ---------------------------
(* ObjectAdapter with few threads, connections and requests.               *)
EXTENDS ObjectAdapter, TLC

CONSTANTS main, admin, stop, c1, c2, r1, u1

\* main() of the server after it has activated the adapter, a thread that
\* activates and holds the adapter and calls its servants directly, and one that
\* stops it.
MCMay ==
    [t \in Threads |->
        CASE t = main  -> {"waitForShutdown", "destroy"}
          [] t = admin -> {"activate", "hold", "waitForHold", "direct"}
          [] t = stop  -> {"deactivate", "waitForDeactivate", "shutdown", "destroy"}]

\* Two threads activate the adapter, and one stops it.
MCMayActivate ==
    [t \in Threads |->
        CASE t \in {main, admin} -> {"activate"}
          [] t = stop            -> {"deactivate"}]
=============================================================================
