------------------------------- MODULE MCIopt -------------------------------
(* Configurations for model checking Iopt. *)
EXTENDS Iopt

Profile(avail_in, iopt_size, unlimited, max_lazy, max_back) ==
  [avail_in |-> avail_in, iopt_size |-> iopt_size, unlimited |-> unlimited,
   max_lazy |-> max_lazy, max_back |-> max_back, greedy |-> FALSE]

\* A buffer that grows; a buffer that is flushed in the middle of the window,
\* with lazy matching and with a long window that fills it with disjoint matches.
\* A fixed buffer has more slots than lazy matches can fill with instructions
\* that all overlap.
MCProfiles ==
  {Profile(12, 2, TRUE, 6, 3), Profile(12, 6, FALSE, 5, 1), Profile(20, 4, FALSE, 4, 1)}

\* Fewer slots than that.
TinyProfiles == {Profile(12, 4, FALSE, 5, 0)}

GreedyProfiles == {[Profile(12, 2, TRUE, 6, 3) EXCEPT !.greedy = TRUE]}
=============================================================================
