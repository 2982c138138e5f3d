---------------------------- MODULE MCAllocationTick ----------------------------
(* One machine, two offers of one GPU type and a Modal endpoint; a group whose     *)
(* last frame is out of phase with its step, and one submitted for the machine.      *)
EXTENDS AllocationTick

MCEndpoints == <<"l4">>
MCGpu       == [v1 |-> "4090", v2 |-> "4090", l4 |-> "l4"]
MCCap       == [community |-> 10, vast |-> 1, modal |-> 2]
MCShare     == [vast |-> 30, modal |-> 70]

Scene(first, last, step, only, fits) ==
  [first |-> first, last |-> last, step |-> step, only |-> only, fits |-> fits,
   weight |-> [m1 |-> 1, v1 |-> 3, v2 |-> 2, l4 |-> 2],
   window |-> [m1 |-> 10, v1 |-> 1, v2 |-> 2, l4 |-> 10]]

MCGroups == [g1 |-> Scene(1, 4, 2, {}, {"v1", "v2", "l4"}),
             g2 |-> Scene(1, 1, 1, {"m1"}, {"m1", "l4"})]

MCRankings  == {<<"v1", "l4", "v2", "m1">>}

===============================================================================
