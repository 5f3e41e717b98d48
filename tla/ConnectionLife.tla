---------------------------- MODULE ConnectionLife ----------------------------
(***************************************************************************)
(* What an incoming Ice::ConnectionI promises to those who use it: the     *)
(* factory that accepts, holds, activates and destroys it and the adapter  *)
(* that waits for it (ConnectionI.h: "State"; ConnectionI.cpp).  The pool, *)
(* the locks, the transceiver and the peer are left out.                   *)
(*                                                                         *)
(* ConnectionI implements this specification, for one connection.          *)
(* ObjectAdapter builds on it, for all connections of a factory.           *)
(***************************************************************************)
EXTENDS Naturals

CONSTANTS Conns, Reqs

VARIABLE life   \* of each connection: its state, the requests that are being
                \* dispatched, and whether its transceiver has been closed

NotValidated == 0
Active       == 1
Holding      == 2
Closing      == 3
Closed       == 4

New == [state |-> NotValidated, pending |-> {}, finished |-> FALSE]

Init == life = [c \in Conns |-> New]
-----------------------------------------------------------------------------
(* What the operations make of a connection.                               *)

Validated(l) == [l EXCEPT !.state = Holding]

Activated(l) == IF l.state = Holding THEN [l EXCEPT !.state = Active] ELSE l

Held(l) == IF l.state = Active THEN [l EXCEPT !.state = Holding] ELSE l

\* Closed at once: a connection that is not validated has nothing to finish.
Aborted(l) ==
    IF l.state = Closed THEN l
    ELSE [l EXCEPT !.state = Closed, !.finished = (l.state = NotValidated)]

\* Graceful closing starts with the CloseConnection message, which is sent on
\* validated connections only.
Destroyed(l) ==
    IF l.state = NotValidated THEN Aborted(l)
    ELSE IF l.state \in {Active, Holding} THEN [l EXCEPT !.state = Closing]
    ELSE l

\* What waitUntilFinished() waits for, and isFinished() tells.
IsFinished(l) == l.finished /\ l.pending = {}
-----------------------------------------------------------------------------
Becomes(c, l) == life' = [life EXCEPT ![c] = l]

Validate(c) == life[c].state = NotValidated /\ Becomes(c, Validated(life[c]))
Activate(c) == life[c].state = Holding /\ Becomes(c, Activated(life[c]))
Hold(c)     == life[c].state = Active /\ Becomes(c, Held(life[c]))
Destroy(c)  == life[c].state < Closing /\ Becomes(c, Destroyed(life[c]))
Abort(c)    == life[c].state < Closed /\ Becomes(c, Aborted(life[c]))

\* A request may still come while the connection is held, never once it is
\* closing: the client will send it again.
Accept(c, r) ==
    /\ life[c].state \in {Active, Holding} /\ r \notin life[c].pending
    /\ Becomes(c, [life[c] EXCEPT !.pending = @ \cup {r}])

Answer(c, r) ==
    /\ r \in life[c].pending
    /\ Becomes(c, [life[c] EXCEPT !.pending = @ \ {r}])

Finish(c) ==
    /\ life[c].state = Closed /\ ~life[c].finished
    /\ Becomes(c, [life[c] EXCEPT !.finished = TRUE])

Next ==
    \E c \in Conns :
        \/ Validate(c) \/ Activate(c) \/ Hold(c) \/ Destroy(c) \/ Abort(c) \/ Finish(c)
        \/ \E r \in Reqs : Accept(c, r) \/ Answer(c, r)

Safe == Init /\ [][Next]_life

\* Servants return, and a closed connection is finished without anyone's help.
Fairness ==
    \A c \in Conns :
        /\ WF_life(Finish(c))
        /\ \A r \in Reqs : WF_life(Answer(c, r))

Spec == Safe /\ Fairness
=============================================================================
