------------------------------ MODULE EventClock ------------------------------
(***************************************************************************)
(* What the main loop of the executive promises (exec.cpp, "Main system    *)
(* loop"): a clock that goes to the earliest time anybody asked for since  *)
(* the loop body was last entered, or to the end of a deltamode run, and   *)
(* nowhere else.  It goes forward, and comes to an end, unless it is asked *)
(* for a time that has gone by.                                            *)
(***************************************************************************)
EXTENDS Integers

CONSTANTS
    Time,   \* the seconds of the simulation, all before Never
    Never   \* the time of an event that does not occur

VARIABLES
    now,    \* the global clock
    due,    \* the earliest time asked for in this iteration
    state   \* "running", "jumped" (deltamode has set what is due), "stopped"

vars == <<now, due, state>>

Init == now \in Time /\ due = now /\ state = "running"

\* Somebody asks to be called at t.
Declare(t) ==
    /\ state = "running"
    /\ due' = IF t < due THEN t ELSE due
    /\ UNCHANGED <<now, state>>

Behind == due < now

\* The next iteration is for the earliest request: a later time, or now again,
\* or a time that has gone by when somebody asked for one.
Advance ==
    /\ state # "stopped" /\ due # Never
    /\ now' = due /\ due' = Never
    /\ state' = "running"

\* A deltamode run has covered the seconds up to t, which ends the iteration; it
\* is not started over a request for a time that has gone by.
Jump(t) ==
    /\ state = "running" /\ t >= now /\ ~Behind
    /\ due' = t
    /\ state' = "jumped"
    /\ UNCHANGED now

\* The simulation ends; after a failure the clock means nothing (-1).
Stop ==
    /\ state # "stopped" /\ state' = "stopped"
    /\ now' \in {now, -1}
    /\ due' = Never

Next ==
    \/ \E t \in Time \cup {Never} : Declare(t)
    \/ Advance
    \/ \E t \in Time : Jump(t)
    \/ Stop

\* The simulation ends: nothing asks for the same second forever, if only the
\* requests for times that have gone by come to an end.
Spec == Init /\ [][Next]_vars /\ (<>[]~Behind => <>(state = "stopped"))
=============================================================================
