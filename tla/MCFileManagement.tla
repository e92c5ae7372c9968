-------------------------- MODULE MCFileManagement --------------------------
(* Instances of FileManagement for TLC.  Operations 1 and 2 created the files that *)
(* are there at the start; each plan puts its bounds where one hazard is.          *)
EXTENDS FileManagement

CONSTANTS r1, r2, r3

TwoAndOther == {r1, r2, r3}
Binding     == [r \in TwoAndOther |-> IF r = r3 THEN "moved" ELSE "first"]
FourIds     == 1..4

Upload(op, key, kind, onto, body) ==
  [op |-> op, key |-> key, kind |-> kind, file |-> onto, body |-> body]

New      == Upload(3, 30, "CREATE", 3, 3)
Another  == Upload(4, 30, "CREATE", 4, 4)  \* reuses the key of New
Stranger == Upload(3, 40, "CREATE", 3, 4)  \* reuses the operation of New
More     == Upload(3, 31, "APPEND", 1, 3)
Still    == Upload(4, 41, "APPEND", 1, 4)
Same     == Upload(4, 30, "APPEND", 1, 4)  \* the key of New, for another type
Uploads  == {New, Another, Stranger, More, Still, Same}

Plan(calls, replicas, files, faulty, ticks, withdraw, listing) ==
  [calls |-> calls, replicas |-> replicas, files |-> files, faults |-> faulty, ticks |-> ticks,
   withdraw |-> withdraw, listing |-> listing]

ThePlans == {
  \* one upload, repeated beside itself and after faults
  Plan({New}, {r1, r2}, {}, 3, 0, FALSE, FALSE),
  \* a key and an operation id are used for different requests
  Plan({New, Another}, {r1, r2}, {}, 1, 0, FALSE, FALSE),
  Plan({New, Stranger}, {r1, r2}, {}, 1, 0, FALSE, FALSE),
  Plan({New, Same}, {r1, r2}, {1}, 1, 0, FALSE, FALSE),
  \* the service moves to other storage while an upload is repeated
  Plan({New}, {r1, r3}, {}, 3, 0, FALSE, FALSE),
  \* two new versions of one file, which may be withdrawn
  Plan({More, Still}, {r1, r2}, {1}, 2, 0, TRUE, FALSE),
  \* a new version of one file and a new file while the files are listed
  Plan({More}, {r1}, {1, 2}, 0, 1, TRUE, TRUE),
  Plan({Still, New}, {r1, r2}, {1, 2}, 0, 1, FALSE, TRUE)}
=============================================================================
