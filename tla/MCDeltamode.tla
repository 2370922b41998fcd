---------------------------- MODULE MCDeltamode ----------------------------
\* Two objects of ranks against their order of creation, three modules, two of
\* which federate; five ticks to a second, of which the double-precision clock
\* knows two places, and steps of one to three ticks: six ticks are rounded to a
\* whole second.
EXTENDS Deltamode

MCRank == <<1, 0>>
MCRegistry == <<"powerflow", "mine", "connection">>
MCPreferred == <<"tape", "connection", "reliability", "residential", "powerflow">>
MCWindows == {<<-1, 9>>, <<1, 2>>}
=============================================================================
