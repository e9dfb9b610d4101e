------------------------------- MODULE MCTftp -------------------------------
(* Small instances of Tftp for TLC.                                         *)
EXTENDS Tftp

Sc(len, opt, faults, retry) == [len |-> len, opt |-> opt, faults |-> faults, retry |-> retry]

\* Packets doubled and late; lost ones, with a last try and for ever; errors of the server; a file
\* of more blocks than there are numbers on a network without faults; three large blocks, without
\* faults and with late timers.
MCScenarios == {Sc(2, o, {"dup", "late"}, 2) : o \in BOOLEAN}
                 \cup {Sc(2, TRUE, {"loss"}, 2), Sc(1, FALSE, {"loss"}, Forever)}
                 \cup {Sc(2, TRUE, {"error"}, 2), Sc(5, FALSE, {}, 1)}
                 \cup {Sc(4, TRUE, {}, 1), Sc(4, TRUE, {"late"}, 1)}

\* The file of more blocks than there are numbers, when packets get lost.
MCWrap == {Sc(5, FALSE, {"loss"}, 1)}
=============================================================================
