------------------------------ MODULE MCUbiWl ------------------------------
(* Small instances of UbiWl for TLC.                                        *)
EXTENDS UbiWl

Device(u, s, e, counters, avail, beb, f) ==
  [used |-> u, scrub |-> s, erase |-> e, ec |-> [p \in PEB |-> counters[p + 1]],
   avail |-> avail, beb |-> beb, faults |-> f]

\* One eraseblock to scrub and one to erase, with each kind of fault; all worn alike; no reserve
\* for bad eraseblocks; some that are available, and large differences.
MCScenarios ==
  {Device({0}, {1}, {2}, <<0, 1, 1, 3, 5>>, 0, 1, f) :
     f \in {{"bitflip"}, {"move"}, {"readback"}, {"readback", "nomem"}}}
  \cup {Device({0, 1, 2}, {}, {}, <<1, 1, 1, 1, 1>>, 0, 0, {"erase"}),
        Device({0}, {1}, {}, <<0, 0, 0, 3, 5>>, 1, 0, {"erase", "write"})}
=============================================================================
