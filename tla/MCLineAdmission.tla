-------------------------- MODULE MCLineAdmission --------------------------
(* Instances of LineAdmission for TLC: each plan puts its bounds where one    *)
(* hazard is, and between them the bodies hold an event of every kind.         *)
EXTENDS LineAdmission

CONSTANTS s1, s2

TwoSweeps == {s1, s2}

Plan(body, known, requests, take, retries, sweepers, stops, epochs) ==
  [body |-> body, known |-> known, requests |-> requests, take |-> take,
   retries |-> retries, sweepers |-> sweepers, crashes |-> stops, epochs |-> epochs]

AllPlans ==
  \* a body of two events, one of which may not be stored, and a crash anywhere:
  \* the second attaches to the conversation of the first, or comes too early for one
  {Plan(<<"ask", "attach">>, FALSE, 1, 2, 0, {s1}, 1, 1),
   Plan(<<"attach", "tell">>, FALSE, 1, 2, 0, {s1}, 0, 0),
   \* the body is redelivered beside the admission of its first delivery
   Plan(<<"ask">>, FALSE, 2, 1, 1, {s1}, 1, 1),
   \* two ticks overlap on one row
   Plan(<<"ask">>, FALSE, 1, 1, 1, {s1, s2}, 1, 1)} \cup
  \* one event that is no text, its conversation known or not
  {Plan(<<kind>>, known, 1, 1, 1, {s1}, 1, 1) :
     kind \in {"tell", "attach", "void", "refused"}, known \in BOOLEAN}
=============================================================================
