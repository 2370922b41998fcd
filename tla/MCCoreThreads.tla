---------------------------- MODULE MCCoreThreads ----------------------------
(* CoreThreads for TLC: short lists, so that each iterator has at most three
   threads, and service dates around the times committed. *)
EXTENDS CoreThreads

MCSizes == {<<0, 0>>, <<2, 0>>, <<1, 2>>, <<1, 1>>, <<3, 0>>}

\* Clients and commits, each in turn in full and the other small.
MCLoads == {<<<<0, 0>>, 2, TS_NEVER>>, <<<<0, 0>>, 1, 3>>, <<<<1, 1>>, 1, 3>>,
            <<<<2, 0>>, 1, TS_NEVER>>, <<<<1, 2>>, 0, TS_NEVER>>, <<<<3, 0>>, 0, TS_NEVER>>}

MCFirstPause == {3, TS_NEVER}

MCAnswer == {4, TS_INVALID}

MCService == << [in |-> 2, micro |-> FALSE, out |-> 9],
                [in |-> 2, micro |-> TRUE,  out |-> 2],
                [in |-> 3, micro |-> FALSE, out |-> 9] >>
=============================================================================
