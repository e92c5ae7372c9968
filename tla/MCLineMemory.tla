---------------------------- MODULE MCLineMemory ----------------------------
(* Instances of LineMemory for TLC: each plan puts its bounds where one hazard is. *)
EXTENDS LineMemory

CONSTANTS j1, j2, s1, s2, c1, c2

TheJobs     == {j1, j2}
TheScanners == {s1, s2}
TheCouriers == {c1, c2}

Plan(jobs, scanners, couriers, erasures, faulty, off, horizon) ==
  [jobs |-> jobs, scanners |-> scanners, couriers |-> couriers, erasures |-> erasures,
   faults |-> faulty, off |-> off, horizon |-> horizon]

ThePlans == {
  \* one erasure and two scanners, which may stop or not hear an answer
  Plan({j1}, {s1, s2}, {}, 1, 2, FALSE, 2),
  \* one delivery and two couriers, beside an erasure and a policy that refuses
  Plan({j1}, {}, {c1, c2}, 1, 2, FALSE, 2),
  Plan({j1}, {}, {c1}, 1, 1, TRUE, 2),
  \* two erasures of one person, beside and after each other
  Plan({j1, j2}, {s1}, {}, 2, 0, FALSE, 3)}
=============================================================================
