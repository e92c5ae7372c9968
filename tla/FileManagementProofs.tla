------------------------ MODULE FileManagementProofs ------------------------
(***************************************************************************)
(* What an upload promises, for any number of callers, replicas, storage   *)
(* bindings, faults and late puts: a version has its bytes, a result that  *)
(* was heard is stored, the versions of a file are in order, a slot is     *)
(* held by a running upload, and the listing misses no file that stayed.   *)
(*                                                                         *)
(* The operation row is what ties it together.  It is written once under   *)
(* its id and its key, so an attempt that has passed it works for this     *)
(* row and no other, at the storage the row names; the store keeps the     *)
(* first object under that key; and a row is committed once.               *)
(***************************************************************************)
EXTENDS FileManagement, FiniteSetTheorems, SequenceTheorems, WellFoundedInduction, TLAPS

\* The attempt has passed the operation row in this pass.
Late == {"body", "head", "put", "recheck", "commit"}

\* Where the attempt's bytes go.
Place(a) == <<Bind[att[a].at], a[1].op>>

\* The row under the attempt's operation id is of its request and its storage.
Has(a) ==
  LET row == ops[a[1].op] IN
  /\ row.status # "NONE"
  /\ row.call.key = a[1].key /\ Digest(row.call) = Digest(a[1])
  /\ row.bind = Bind[att[a].at]

\* The object the attempt has found or put is the caller's.
Stored(a) ==
  /\ att[a].object \in DOMAIN objects[Place(a)]
  /\ objects[Place(a)][att[a].object] = a[1].body

AttSound(a) ==
  /\ att[a].pc \in Late => Has(a)
  /\ att[a].pc = "commit" => Stored(a)

\* An operation row, its version row and its result are one.
RowSound(o) ==
  LET row == ops[o] IN
  /\ row.status # "NONE" => row.call.op = o
  /\ row.status # "COMMITTED" => version[o] = NoVersion
  /\ row.status = "COMMITTED" =>
       /\ row.result \in Result /\ version[o] \in Version /\ o \in outbox
       /\ row.result.number = version[o].number /\ row.result.object = version[o].object
       /\ row.result.file = row.call.file
       /\ version[o].bind = row.bind /\ version[o].body = row.call.body

KeysOnce ==
  \A o, p \in Ids :
    ops[o].status # "NONE" /\ ops[p].status # "NONE"
    /\ ops[o].call.kind = ops[p].call.kind /\ ops[o].call.key = ops[p].call.key => o = p

\* A listing in progress: what stayed as it was is there, and is listed already or
\* behind the cursor, and not both.
ListSound ==
  /\ list.pc \in {"page", "done"} => list.from \subseteq Ids
  /\ list.pc = "page" =>
       \A f \in list.from \ list.touched :
         f \in Visible /\ (f \in list.seen <=> ~Beyond(f)) /\ f \notin list.again
  /\ ListingIsWhole

\* The inductive invariant.
IInv ==
  /\ TypeOK
  /\ \A o \in Ids : RowSound(o)
  /\ KeysOnce
  /\ \A a \in Attempts : AttSound(a)
  /\ BytesStand /\ HeardIsStored /\ VersionsInOrder /\ SlotsBalance /\ ListSound
-----------------------------------------------------------------------------
\* The types at hand.
LEMMA Typed ==
  ASSUME TypeOK
  PROVE  /\ \A o \in Ids : /\ ops[o] \in OpRow \cup {NoOp} /\ version[o] \in Version \cup {NoVersion}
                           /\ ops[o].status \in {"NONE", "PENDING", "COMMITTED"}
                           /\ ops[o].status = "NONE" <=> ops[o] = NoOp
                           /\ ops[o].status # "NONE" => ops[o] \in OpRow /\ ops[o].call \in CallType
                           /\ version[o] # NoVersion => version[o] \in Version
         /\ \A f \in Ids : file[f] \in File
         /\ \A a \in Attempts : /\ att[a] \in Attempt /\ att[a].at \in Replicas /\ a[1] \in Calls
                                /\ a[1] \in CallType /\ a[1].op \in Ids /\ a[1].file \in Ids
                                /\ Bind[att[a].at] \in Bindings
         /\ \A k \in Keys : objects[k] \in Seq(Nat)
BY FileAssumption DEF TypeOK, OpRow, NoOp, Version, NoVersion, Attempts, Attempt, CallType, Bindings

\* An attempt that does not run is one.
LEMMA IdleType == Idle \in Attempt
<1>1. (CHOOSE r \in Replicas : TRUE) \in Replicas
  BY FileAssumption
<1> QED
  BY <1>1 DEF Idle, Attempt, Stages

\* An attempt that has passed the row finds this row under its key.
LEMMA OwnRow ==
  ASSUME IInv, NEW a \in Attempts, Has(a)
  PROVE  Known(a[1]) = {a[1].op} /\ Row(a) = a[1].op /\ Key(a) = Place(a)
<1>1. a[1].op \in Ids
  BY Typed DEF IInv
<1>2. Known(a[1]) = {a[1].op}
  BY <1>1, Typed DEF IInv, Known, KeysOnce, Has, Digest
<1> QED
  BY <1>2 DEF Row, Key, Place
-----------------------------------------------------------------------------
(* What a step may do. *)

\* Rows stay what they are, committed rows for good; an object stays under its key.
RowsGrow ==
  /\ \A o \in Ids :
       /\ ops[o].status # "NONE" =>
            ops'[o].status # "NONE" /\ ops'[o].call = ops[o].call /\ ops'[o].bind = ops[o].bind
       /\ ops[o].status = "COMMITTED" => ops'[o] = ops[o] /\ version'[o] = version[o]
  /\ outbox \subseteq outbox'

ObjectsGrow == \A k \in Keys : objects[k] # <<>> => objects'[k] = objects[k]

\* An operation row is opened for the request c at the replica r.
Opens(c, r) ==
  /\ c \in Calls /\ r \in Replicas /\ Known(c) = {} /\ ops[c.op] = NoOp
  /\ ops' = [ops EXCEPT ![c.op] = [status |-> "PENDING", call |-> c, bind |-> Bind[r],
                                   result |-> NoResult]]
  /\ UNCHANGED <<version, file, outbox, list>>

\* The transaction of an attempt that holds its object.
Writes(a) ==
  /\ a \in Attempts /\ Has(a) /\ Stored(a)
  /\ ops[a[1].op].status = "PENDING"
  /\ Write(a[1].op, att[a].object, att[a].stamp)
  /\ UNCHANGED objects

Withdraws(f) ==
  /\ f \in Ids /\ file' = [file EXCEPT ![f].state = "WITHDRAWN"] /\ Touch(f)
  /\ UNCHANGED <<ops, version, outbox>>

\* The four things that happen to the rows.
ServiceKinds ==
  \/ UNCHANGED service /\ (UNCHANGED list \/ StartList \/ Page)
  \/ \E c \in Calls, r \in Replicas : Opens(c, r)
  \/ \E a \in Attempts : Writes(a)
  \/ \E f \in Ids : Withdraws(f)

\* Every step does one of the four to the rows; whoever writes has its row and its object.
LEMMA StepService ==
  ASSUME IInv, [Next]_vars
  PROVE  ServiceKinds
<1>1. CASE UNCHANGED vars
  BY <1>1 DEF vars, service, ServiceKinds
<1>2. ASSUME NEW a \in Attempts, Handle(a) \/ \E r \in Replicas : Send(a, r)
      PROVE  ServiceKinds
  <2>1. CASE Begin(a)
    <3>1. (UNCHANGED ops \/ Opens(a[1], att[a].at)) /\ UNCHANGED <<version, file, outbox, list>>
      BY <2>1, Typed DEF Begin, Opens, IInv
    <3> QED
      BY <3>1, Typed DEF ServiceKinds, service, IInv
  <2>2. CASE Commit(a)
    <3>1. Has(a) /\ Stored(a) /\ Row(a) = a[1].op
      BY <2>2, OwnRow DEF Commit, IInv, AttSound, Late
    <3>2. UNCHANGED <<service, list>> \/ Writes(a)
      BY <2>2, <3>1 DEF Commit, Writes
    <3> QED
      BY <3>2 DEF ServiceKinds
  <2>3. CASE Target(a) \/ Body(a) \/ Probe(a) \/ Put(a) \/ Recheck(a) \/ \E r \in Replicas : Send(a, r)
    BY ZenonT(40), <2>3 DEF Target, Body, Probe, Put, Recheck, Send, ServiceKinds
  <2> QED
    BY <1>2, <2>1, <2>2, <2>3 DEF Handle
<1>3. ASSUME NEW p \in flight, LatePut(p) PROVE ServiceKinds
  BY <1>3 DEF LatePut, ServiceKinds
<1>4. CASE StartList \/ Page \/ Tick
  BY <1>4 DEF StartList, Page, Tick, ServiceKinds
<1>5. ASSUME NEW f \in Ids, Withdraw(f) PROVE ServiceKinds
  BY ZenonT(40), <1>5 DEF Withdraw, Withdraws, ServiceKinds
<1>6. ASSUME NEW r \in Replicas, Crash(r) PROVE ServiceKinds
  BY <1>6 DEF Crash, ServiceKinds
<1> QED
  BY <1>1, <1>2, <1>3, <1>4, <1>5, <1>6 DEF Next

\* The store only fills an empty key, with one object.
LEMMA StepObjects ==
  ASSUME IInv, [Next]_vars
  PROVE  \/ UNCHANGED objects
         \/ \E k \in Keys, body \in Nat :
              objects[k] = <<>> /\ objects' = [objects EXCEPT ![k] = <<body>>]
<1> DEFINE Goal == \/ UNCHANGED objects
                   \/ \E k \in Keys, body \in Nat :
                        objects[k] = <<>> /\ objects' = [objects EXCEPT ![k] = <<body>>]
<1>1. ASSUME NEW k \in Keys, NEW body \in Nat, Puts(k, body) PROVE Goal
  <2>1. CASE Accepts(k)
    <3>1. objects' = [objects EXCEPT ![k] = Append(objects[k], body)] /\ objects[k] = <<>>
      BY <1>1, <2>1 DEF Puts, Accepts
    <3>2. Append(objects[k], body) = <<body>>
      BY <3>1
    <3> QED
      BY ZenonT(40), <3>1, <3>2
  <2> QED
    BY ZenonT(40), <1>1, <2>1 DEF Puts
<1>2. ASSUME NEW a \in Attempts, Put(a) PROVE Goal
  <2>1. Key(a) = Place(a) /\ Place(a) \in Keys /\ a[1].body \in Nat
    BY SMTT(40), <1>2, OwnRow, Typed DEF Put, IInv, AttSound, Late, Place, Keys, CallType
  <2>2. Puts(Key(a), a[1].body) \/ UNCHANGED objects
    BY <1>2 DEF Put
  <2> QED
    BY ZenonT(40), <1>1, <2>1, <2>2
<1>3. ASSUME NEW p \in flight, LatePut(p) PROVE Goal
  BY SMTT(40), <1>1, <1>3 DEF LatePut, IInv, TypeOK
<1>4. ASSUME NEW a \in Attempts, Handle(a) \/ \E r \in Replicas : Send(a, r), ~Put(a) PROVE UNCHANGED objects
  BY ZenonT(40), <1>4 DEF Handle, Target, Begin, Body, Probe, Recheck, Commit, Send
<1> QED
  BY <1>2, <1>3, <1>4 DEF Next, vars, StartList, Page, Tick, Withdraw, Crash
-----------------------------------------------------------------------------
(* The rows. *)

\* The next version of a file is one more than it has.
LEMMA NextNumberIs ==
  ASSUME IInv, NEW f \in Ids
  PROVE  /\ IsFiniteSet(VersionsOf(f)) /\ Cardinality(VersionsOf(f)) \in Nat
         /\ NextNumber(f) = Cardinality(VersionsOf(f)) + 1
<1>1. IsFiniteSet(VersionsOf(f)) /\ Cardinality(VersionsOf(f)) \in Nat
  <2>1. VersionsOf(f) \in SUBSET Ids
    BY DEF VersionsOf
  <2> QED
    BY <2>1, FileAssumption, FS_Subset, FS_CardinalityType
<1>x. PICK n \in Nat : n = Cardinality(VersionsOf(f))
  BY <1>1
<1>2. {version[o].number : o \in VersionsOf(f)} = 1..n
  BY <1>x DEF IInv, VersionsInOrder
<1>3. {0} \cup 1..n = 0..n
  OBVIOUS
<1>4. n \in 0..n /\ \A y \in 0..n : n >= y
  OBVIOUS
<1>5. \A x \in 0..n : (\A y \in 0..n : x >= y) => x = n
  OBVIOUS
<1>6. Max(0..n) = n
  BY SMTT(40), <1>4, <1>5 DEF Max
<1> QED
  BY ZenonT(40), <1>1, <1>x, <1>2, <1>3, <1>6 DEF NextNumber

\* What the commit writes.
LEMMA WriteIs ==
  ASSUME IInv, NEW a \in Attempts, Writes(a)
  PROVE  LET o == a[1].op
             f == a[1].file
             n == NextNumber(f) IN
         /\ o \in Ids /\ f \in Ids /\ n \in Nat \ {0} /\ att[a].object \in Nat \ {0}
         /\ ops[o] \in OpRow /\ ops[o].status = "PENDING" /\ ops[o].call.file = f
         /\ ops[o].call.body = a[1].body /\ ops[o].bind = Bind[att[a].at]
         /\ ops' = [ops EXCEPT ![o] = [ops[o] EXCEPT !.status = "COMMITTED",
                      !.result = [file |-> f, number |-> n, object |-> att[a].object]]]
         /\ version' = [version EXCEPT ![o] =
              [number |-> n, body |-> a[1].body, bind |-> ops[o].bind, object |-> att[a].object]]
         /\ file' = [file EXCEPT ![f] =
              [state |-> "ACTIVE", updated |-> att[a].stamp, current |-> o]]
         /\ outbox' = outbox \cup {o}
         /\ Touch(f) /\ UNCHANGED objects
<1>x. PICK o \in Ids, f \in Ids : o = a[1].op /\ f = a[1].file
  BY Typed DEF IInv
<1>1. /\ ops[o].status = "PENDING" /\ ops[o].call.file = f /\ ops[o].call.body = a[1].body
      /\ ops[o].bind = Bind[att[a].at] /\ ops[o] \in OpRow
  BY <1>x, Typed DEF IInv, Writes, Has, Digest
<1>2. NextNumber(f) \in Nat \ {0}
  BY NextNumberIs
<1>3. att[a].object \in Nat \ {0}
  <2>1. att[a].object \in DOMAIN objects[Place(a)] /\ Place(a) \in Keys
    BY Typed DEF Writes, Stored, Place, Keys, IInv
  <2> QED
    BY <2>1, Typed DEF IInv
<1>4. ops' = [ops EXCEPT ![o].status = "COMMITTED",
                ![o].result = [file |-> f, number |-> NextNumber(f), object |-> att[a].object]]
  BY <1>x, <1>1 DEF Writes, Write
<1>5. ops' = [ops EXCEPT ![o] = [ops[o] EXCEPT !.status = "COMMITTED",
                !.result = [file |-> f, number |-> NextNumber(f), object |-> att[a].object]]]
  BY ZenonT(40), <1>4 DEF IInv, TypeOK
<1> QED
  BY ZenonT(40), <1>x, <1>1, <1>2, <1>3, <1>5 DEF Writes, Write, Current

\* The rows the commit leaves, field by field.
LEMMA WriteSets ==
  ASSUME IInv, NEW a \in Attempts, Writes(a)
  PROVE  LET o == a[1].op IN
         /\ ops'[o].status = "COMMITTED" /\ ops'[o].call = ops[o].call /\ ops'[o].bind = ops[o].bind
         /\ version'[o] = [number |-> NextNumber(a[1].file), body |-> a[1].body,
                           bind |-> ops[o].bind, object |-> att[a].object]
         /\ \A p \in Ids \ {o} : ops'[p] = ops[p] /\ version'[p] = version[p]
<1>x. PICK o \in Ids, f \in Ids, n \in Nat \ {0} :
         o = a[1].op /\ f = a[1].file /\ n = NextNumber(a[1].file)
  BY ZenonT(40), WriteIs
<1>1. PICK res : ops' = [ops EXCEPT ![o] = [ops[o] EXCEPT !.status = "COMMITTED", !.result = res]]
  BY ZenonT(40), <1>x, WriteIs
<1>2. version' = [version EXCEPT ![o] = [number |-> n, body |-> a[1].body, bind |-> ops[o].bind,
                                         object |-> att[a].object]]
  BY ZenonT(40), <1>x, WriteIs
<1>3. ops[o] \in OpRow
  BY ZenonT(40), <1>x, WriteIs
<1> QED
  BY <1>x, <1>1, <1>2, <1>3 DEF IInv, TypeOK, OpRow

\* Every step keeps the rows that are there.
LEMMA RowsDoGrow ==
  ASSUME IInv, [Next]_vars
  PROVE  RowsGrow
<1>1. ServiceKinds
  BY StepService
<1>2. CASE \E c \in Calls, r \in Replicas : Opens(c, r)
  <2>1. PICK c \in Calls, r \in Replicas : Opens(c, r)
    BY <1>2
  <2>2. c.op \in Ids /\ ops[c.op].status = "NONE"
    BY <2>1, FileAssumption DEF Opens, NoOp, CallType
  <2> QED
    BY <2>1, <2>2 DEF Opens, RowsGrow, IInv, TypeOK
<1>3. CASE \E a \in Attempts : Writes(a)
  <2>1. PICK a \in Attempts : Writes(a)
    BY <1>3
  <2>x. PICK o \in Ids : o = a[1].op
    BY Typed DEF IInv
  <2>2. /\ ops[o].status = "PENDING" /\ outbox' = outbox \cup {o}
    BY ZenonT(40), <2>1, <2>x, WriteIs
  <2> QED
    BY ZenonT(40), <2>1, <2>x, <2>2, WriteSets DEF RowsGrow
<1>4. CASE UNCHANGED <<ops, version, outbox>>
  BY <1>4 DEF RowsGrow
<1> QED
  BY <1>1, <1>2, <1>3, <1>4 DEF ServiceKinds, service, Withdraws

\* Every step keeps the objects that are there.
LEMMA ObjectsDoGrow ==
  ASSUME IInv, [Next]_vars
  PROVE  ObjectsGrow
BY StepObjects DEF ObjectsGrow, IInv, TypeOK

\* The rows stay sound, each with its own id and its own key.
LEMMA RowsKeep ==
  ASSUME IInv, [Next]_vars
  PROVE  /\ ops' \in [Ids -> OpRow \cup {NoOp}] /\ version' \in [Ids -> Version \cup {NoVersion}]
         /\ file' \in [Ids -> File] /\ outbox' \subseteq Ids
         /\ \A o \in Ids : RowSound(o)'
         /\ KeysOnce'
<1>t. /\ ops \in [Ids -> OpRow \cup {NoOp}] /\ version \in [Ids -> Version \cup {NoVersion}]
      /\ file \in [Ids -> File] /\ outbox \subseteq Ids
      /\ \A o \in Ids : RowSound(o)
      /\ KeysOnce
  BY DEF IInv, TypeOK
<1>1. CASE \E c \in Calls, r \in Replicas : Opens(c, r)
  <2>1. PICK c \in Calls, r \in Replicas : Opens(c, r)
    BY <1>1
  <2>x. PICK o \in Ids : o = c.op
    BY FileAssumption DEF CallType
  <2>2. /\ c \in CallType /\ Bind[r] \in Bindings /\ ops[o].status = "NONE"
        /\ ops'[o].status = "PENDING" /\ ops'[o].call = c /\ ops'[o] \in OpRow
        /\ \A p \in Ids \ {o} : ops'[p] = ops[p]
        /\ ops' \in [Ids -> OpRow \cup {NoOp}]
        /\ UNCHANGED <<version, file, outbox>>
    BY <1>t, <2>1, <2>x, FileAssumption DEF Opens, OpRow, NoOp, Bindings
  <2>3. \A p \in Ids : ops[p].status # "NONE" =>
         ops[p].call.key # c.key \/ ops[p].call.kind # c.kind
    BY <2>1, Typed DEF Opens, Known, IInv
  <2>4. \A p \in Ids : RowSound(p)'
    BY <1>t, <2>x, <2>2 DEF RowSound
  <2>5. KeysOnce'
    BY <1>t, <2>2, <2>3 DEF KeysOnce
  <2> QED
    BY <1>t, <2>2, <2>4, <2>5
<1>2. CASE \E a \in Attempts : Writes(a)
  <2>1. PICK a \in Attempts : Writes(a)
    BY <1>2
  <2>x. PICK o \in Ids, f \in Ids, n \in Nat \ {0} :
           o = a[1].op /\ f = a[1].file /\ n = NextNumber(a[1].file)
    BY ZenonT(40), <2>1, WriteIs
  <2>2. /\ ops[o] \in OpRow /\ ops[o].call.file = f /\ ops[o].call.body = a[1].body
        /\ att[a].object \in Nat \ {0} /\ a[1].body \in Nat /\ ops[o].bind \in Bindings
        /\ ops' = [ops EXCEPT ![o] = [ops[o] EXCEPT !.status = "COMMITTED",
                     !.result = [file |-> f, number |-> n, object |-> att[a].object]]]
        /\ version' = [version EXCEPT ![o] =
             [number |-> n, body |-> a[1].body, bind |-> ops[o].bind, object |-> att[a].object]]
        /\ file' = [file EXCEPT ![f] =
             [state |-> "ACTIVE", updated |-> att[a].stamp, current |-> o]]
        /\ outbox' = outbox \cup {o} /\ att[a].stamp \in Nat
    BY ZenonT(40), <2>1, <2>x, WriteIs, Typed DEF IInv, OpRow, CallType, Attempt
  <2>3. /\ ops'[o] \in OpRow /\ ops'[o].status = "COMMITTED" /\ ops'[o].call = ops[o].call
        /\ ops'[o].bind = ops[o].bind
        /\ ops'[o].result = [file |-> f, number |-> n, object |-> att[a].object]
        /\ \A p \in Ids \ {o} : ops'[p] = ops[p] /\ version'[p] = version[p]
        /\ ops' \in [Ids -> OpRow \cup {NoOp}]
    BY ZenonT(40), <1>t, <2>2 DEF OpRow, Result
  <2>4. /\ version'[o] = [number |-> n, body |-> a[1].body, bind |-> ops[o].bind,
                          object |-> att[a].object]
        /\ version'[o] \in Version /\ version' \in [Ids -> Version \cup {NoVersion}]
        /\ file' \in [Ids -> File]
    BY <1>t, <2>2 DEF Version, File
  <2>5. RowSound(o)'
    <3>1. PICK done : done = ops'[o]
      OBVIOUS
    <3>2. /\ done.status = "COMMITTED" /\ done.call = ops[o].call /\ done.bind = ops[o].bind
          /\ done.result.file = f /\ done.result.number = n /\ done.result.object = att[a].object
          /\ done.result \in Result
      BY <3>1, <2>2, <2>3 DEF Result
    <3>3. /\ version'[o].number = n /\ version'[o].body = a[1].body
          /\ version'[o].bind = ops[o].bind /\ version'[o].object = att[a].object
      BY <2>4
    <3>4. ops[o].call.op = o /\ o \in outbox'
      BY <1>t, <2>1, <2>x, <2>2, Typed DEF RowSound, Writes
    <3>5. QED BY <3>1, <3>2, <3>3, <3>4, <2>2, <2>4 DEF RowSound
  <2>6. \A p \in Ids \ {o} : RowSound(p)'
    BY <1>t, <2>2, <2>3 DEF RowSound
  <2>7. ops[o].status # "NONE"
    BY <2>1, <2>x DEF Writes
  <2>8. KeysOnce'
    BY <1>t, <2>3, <2>7 DEF KeysOnce
  <2> QED
    BY <1>t, <2>2, <2>3, <2>4, <2>5, <2>6, <2>8
<1>3. CASE UNCHANGED <<ops, version, outbox>> /\ (UNCHANGED file \/ \E f \in Ids : Withdraws(f))
  <2>1. file' \in [Ids -> File]
    BY <1>t, <1>3 DEF Withdraws, File
  <2>2. (\A o \in Ids : RowSound(o)') /\ KeysOnce'
    BY <1>t, <1>3 DEF RowSound, KeysOnce
  <2> QED
    BY <1>t, <1>3, <2>1, <2>2
<1> QED
  BY <1>1, <1>2, <1>3, StepService DEF ServiceKinds, service, Withdraws
-----------------------------------------------------------------------------
(* The objects, the bytes and the results. *)

\* A key holds one object at most.
LEMMA ObjectsKeep ==
  ASSUME IInv, [Next]_vars
  PROVE  objects' \in [Keys -> Seq(Nat)] /\ \A k \in Keys : Len(objects'[k]) <= 1
<1>1. objects \in [Keys -> Seq(Nat)] /\ \A k \in Keys : Len(objects[k]) <= 1
  BY DEF IInv, TypeOK, BytesStand
<1>2. CASE UNCHANGED objects
  BY <1>1, <1>2
<1>3. ASSUME NEW k \in Keys, NEW body \in Nat, objects' = [objects EXCEPT ![k] = <<body>>]
      PROVE  objects' \in [Keys -> Seq(Nat)] /\ \A q \in Keys : Len(objects'[q]) <= 1
  <2>1. <<body>> \in Seq(Nat) /\ Len(<<body>>) = 1
    OBVIOUS
  <2> QED
    BY <1>1, <1>3, <2>1
<1> QED
  BY <1>2, <1>3, StepObjects

\* A new version row is of the object its attempt holds; the others keep theirs.
LEMMA BytesKeep ==
  ASSUME IInv, [Next]_vars
  PROVE  BytesStand'
<1>1. \A k \in Keys : Len(objects'[k]) <= 1
  BY ObjectsKeep
<1>2. ASSUME NEW o \in Ids, version'[o] # NoVersion
      PROVE  /\ version'[o].object \in DOMAIN objects'[<<version'[o].bind, o>>]
             /\ objects'[<<version'[o].bind, o>>][version'[o].object] = version'[o].body
             /\ version'[o].body = ops'[o].call.body
  <2>1. CASE version[o] # NoVersion
    <3>1. /\ version[o] \in Version /\ <<version[o].bind, o>> \in Keys
          /\ ops[o].status = "COMMITTED"
          /\ version[o].object \in DOMAIN objects[<<version[o].bind, o>>]
          /\ objects[<<version[o].bind, o>>][version[o].object] = version[o].body
          /\ version[o].body = ops[o].call.body
      BY ZenonT(40), <2>1, Typed DEF IInv, BytesStand, RowSound, Version, Keys
    <3>2. version'[o] = version[o] /\ ops'[o] = ops[o]
      BY <3>1, RowsDoGrow DEF RowsGrow
    <3>3. objects[<<version[o].bind, o>>] # <<>>
      BY <3>1
    <3>4. objects'[<<version[o].bind, o>>] = objects[<<version[o].bind, o>>]
      BY <3>1, <3>3, ObjectsDoGrow DEF ObjectsGrow
    <3> QED
      BY <3>1, <3>2, <3>4
  <2>2. CASE version[o] = NoVersion
    <3>1. PICK a \in Attempts : Writes(a)
      BY ZenonT(40), <1>2, <2>2, StepService DEF ServiceKinds, service, Opens, Withdraws
    <3>2. o = a[1].op
      BY ZenonT(40), <1>2, <2>2, <3>1, WriteIs DEF IInv, TypeOK
    <3>3. /\ version'[o].bind = Bind[att[a].at] /\ version'[o].object = att[a].object
          /\ version'[o].body = a[1].body /\ UNCHANGED objects
      <4>1. version'[o] = [number |-> NextNumber(a[1].file), body |-> a[1].body,
                           bind |-> ops[o].bind, object |-> att[a].object]
        BY <3>1, <3>2, WriteSets
      <4>2. ops[o].bind = Bind[att[a].at] /\ UNCHANGED objects
        BY ZenonT(40), <3>1, <3>2, WriteIs
      <4> QED
        BY <4>1, <4>2
    <3>4. ops[o].status # "NONE" /\ ops[o].call.body = a[1].body
      BY ZenonT(40), <3>1, <3>2, WriteIs
    <3>5. ops'[o].call = ops[o].call
      BY SMTT(40), <3>4, RowsDoGrow DEF RowsGrow
    <3> QED
      BY <3>1, <3>2, <3>3, <3>4, <3>5 DEF Writes, Stored, Place
  <2> QED
    BY <2>1, <2>2
<1> QED
  BY <1>1, <1>2 DEF BytesStand

\* What a caller may be told: the stored result of its own request.
Told(c) ==
  IF ops'[c.op].status = "COMMITTED" /\ Digest(ops'[c.op].call) = Digest(c)
  THEN {ops'[c.op].result} ELSE {}

\* A caller hears no more than the stored result of its own request.
LEMMA StepHeard ==
  ASSUME IInv, [Next]_vars
  PROVE  /\ heard' \in [Calls -> SUBSET Result]
         /\ \A c \in Calls : heard'[c] \subseteq heard[c] \cup Told(c)
<1>t. heard \in [Calls -> SUBSET Result]
  BY DEF IInv, TypeOK
<1>1. ASSUME NEW a \in Attempts, NEW result, Answer(a, result), result \in Result,
             result \in Told(a[1])
      PROVE  /\ heard' \in [Calls -> SUBSET Result]
             /\ \A c \in Calls : heard'[c] \subseteq heard[c] \cup Told(c)
  <2>1. a[1] \in Calls
    BY Typed DEF IInv
  <2> QED
    BY <1>t, <1>1, <2>1 DEF Answer
<1>2. ASSUME NEW a \in Attempts, Begin(a)
      PROVE  /\ heard' \in [Calls -> SUBSET Result]
             /\ \A c \in Calls : heard'[c] \subseteq heard[c] \cup Told(c)
  <2>1. CASE UNCHANGED heard
    BY <1>t, <2>1
  <2>2. ASSUME NEW o \in Known(a[1]), SameRequest(a[1], ops[o]), ops[o].status = "COMMITTED",
               Answer(a, ops[o].result), UNCHANGED ops
        PROVE  /\ heard' \in [Calls -> SUBSET Result]
               /\ \A c \in Calls : heard'[c] \subseteq heard[c] \cup Told(c)
    <3>1. o \in Ids /\ ops[o].call.op = o /\ ops[o].result \in Result
      BY <2>2, Typed DEF IInv, RowSound, Known
    <3>2. o = a[1].op
      BY <2>2, <3>1 DEF SameRequest, Digest
    <3> QED
      BY <1>1, <2>2, <3>1, <3>2 DEF SameRequest, Told
  <2> QED
    BY <1>2, <2>1, <2>2 DEF Begin
<1>3. ASSUME NEW a \in Attempts, Commit(a)
      PROVE  /\ heard' \in [Calls -> SUBSET Result]
             /\ \A c \in Calls : heard'[c] \subseteq heard[c] \cup Told(c)
  <2>x. PICK o \in Ids : o = a[1].op
    BY Typed DEF IInv
  <2>1. Has(a) /\ Stored(a) /\ Row(a) = o
    BY <1>3, <2>x, OwnRow DEF Commit, IInv, AttSound, Late
  <2>2. CASE UNCHANGED heard
    BY <1>t, <2>2
  <2>3. CASE ops[o].status = "COMMITTED" /\ Answer(a, ops[o].result) /\ UNCHANGED ops
    <3>1. ops[o].result \in Result /\ ops[o].result \in Told(a[1])
      BY SMTT(40), <2>x, <2>1, <2>3 DEF IInv, RowSound, Told, Has
    <3> QED
      BY SMTT(40), <1>1, <2>3, <3>1
  <2>4. CASE Writes(a) /\ Answer(a, ops'[o].result)
    <3>1. ops'[o].status = "COMMITTED"
      BY ZenonT(40), <2>x, <2>4, WriteSets
    <3>2. ops'[o].result \in Result
      BY <3>1, RowsKeep DEF RowSound
    <3>3. ops'[o].call = ops[o].call
      BY <2>x, <2>1, RowsDoGrow DEF RowsGrow, Has
    <3> QED
      BY <1>1, <2>x, <2>1, <2>4, <3>1, <3>2, <3>3 DEF Told, Has, Digest
  <2>5. \/ UNCHANGED heard
        \/ ops[o].status = "COMMITTED" /\ Answer(a, ops[o].result) /\ UNCHANGED ops
        \/ Writes(a) /\ Answer(a, ops'[o].result)
    BY <1>3, <2>x, <2>1 DEF Commit, Uncertain, Writes, service
  <2> QED
    BY <2>2, <2>3, <2>4, <2>5
<1>4. CASE UNCHANGED heard
  BY <1>t, <1>4
<1> QED
  BY ZenonT(40), <1>2, <1>3, <1>4 DEF Next, Handle, Target, Body, Probe, Put, Recheck, Send, LatePut, StartList,
     Page, Tick, Withdraw, Crash, vars

\* A result that was heard stays stored.
LEMMA HeardKeeps ==
  ASSUME IInv, [Next]_vars
  PROVE  HeardIsStored'
<1>1. ASSUME NEW c \in Calls, NEW result \in heard'[c]
      PROVE  /\ ops'[c.op].status = "COMMITTED" /\ ops'[c.op].result = result /\ c.op \in outbox'
             /\ version'[c.op].number = result.number /\ version'[c.op].object = result.object
             /\ version'[c.op].body = c.body /\ result.file = c.file
  <2>x. PICK o \in Ids : o = c.op
    BY ZenonT(40), FileAssumption DEF CallType
  <2>1. CASE result \in heard[c]
    <3>1. /\ ops[o].status = "COMMITTED" /\ ops[o].result = result /\ o \in outbox
          /\ version[o].number = result.number /\ version[o].object = result.object
          /\ version[o].body = c.body /\ result.file = c.file
      BY <2>x, <2>1 DEF IInv, HeardIsStored
    <3> QED
      BY <2>x, <3>1, RowsDoGrow DEF RowsGrow
  <2>2. CASE result \in Told(c)
    <3>1. /\ ops'[o].status = "COMMITTED" /\ ops'[o].result = result
          /\ Digest(ops'[o].call) = Digest(c) /\ RowSound(o)'
      BY <2>x, <2>2, RowsKeep DEF Told
    <3> QED
      BY <2>x, <3>1 DEF RowSound, Digest
  <2> QED
    BY <1>1, <2>1, <2>2, StepHeard
<1> QED
  BY <1>1 DEF HeardIsStored
-----------------------------------------------------------------------------
(* The order of the versions. *)

\* Where no version is written, no file's versions change.
LEMMA SameVersions ==
  ASSUME IInv, [Next]_vars, UNCHANGED version, NEW f \in Ids
  PROVE  VersionsOf(f)' = VersionsOf(f)
<1>1. ASSUME NEW o \in Ids, version[o] # NoVersion PROVE ops'[o].call = ops[o].call
  <2>1. ops[o].status # "NONE"
    BY <1>1 DEF IInv, RowSound
  <2> QED
    BY <2>1, RowsDoGrow DEF RowsGrow
<1> QED
  BY <1>1 DEF VersionsOf

\* A commit adds its own version to its own file.
LEMMA OneMore ==
  ASSUME IInv, [Next]_vars, NEW a \in Attempts, Writes(a), NEW f \in Ids
  PROVE  VersionsOf(f)' = IF f = a[1].file THEN VersionsOf(f) \cup {a[1].op} ELSE VersionsOf(f)
<1>x. PICK o \in Ids, g \in Ids, n \in Nat \ {0} :
         o = a[1].op /\ g = a[1].file /\ n = NextNumber(a[1].file)
  BY ZenonT(40), WriteIs
<1>w. /\ version'[o] = [number |-> n, body |-> a[1].body, bind |-> ops[o].bind,
                        object |-> att[a].object]
      /\ ops'[o].call = ops[o].call
      /\ \A p \in Ids \ {o} : ops'[p] = ops[p] /\ version'[p] = version[p]
  BY SMTT(40), <1>x, WriteSets
<1>v. ops[o].status = "PENDING" /\ ops[o].call.file = g
  BY ZenonT(40), <1>x, WriteIs
<1>1. version[o] = NoVersion /\ version'[o] # NoVersion /\ ops'[o].call.file = g
  <2>1. version[o] = NoVersion
    BY <1>v DEF IInv, RowSound
  <2>2. version'[o].number = n
    BY <1>w
  <2> QED
    BY <1>w, <1>v, <2>1, <2>2 DEF NoVersion
<1>3. ASSUME NEW p \in Ids
      PROVE  (version'[p] # NoVersion /\ ops'[p].call.file = f) <=>
               ((version[p] # NoVersion /\ ops[p].call.file = f) \/ (p = o /\ f = g))
  BY <1>1, <1>w
<1> QED
  BY <1>x, <1>3 DEF VersionsOf

\* A commit takes the next number and the pointer; nothing else touches them.
LEMMA VersionsKeep ==
  ASSUME IInv, [Next]_vars
  PROVE  VersionsInOrder'
<1>1. ASSUME UNCHANGED version, NEW f \in Ids, file'[f].current = file[f].current
      PROVE  LET all == VersionsOf(f)' IN
             /\ {version'[o].number : o \in all} = 1..Cardinality(all)
             /\ all # {} => /\ file'[f].current \in all
                            /\ version'[file'[f].current].number = Cardinality(all)
  <2>1. VersionsOf(f)' = VersionsOf(f)
    BY <1>1, SameVersions
  <2> QED
    BY <1>1, <2>1 DEF IInv, VersionsInOrder
<1>2. CASE UNCHANGED version /\ \A f \in Ids : file'[f].current = file[f].current
  BY <1>1, <1>2 DEF VersionsInOrder
<1>3. ASSUME NEW a \in Attempts, Writes(a) PROVE VersionsInOrder'
  <2>y. PICK o \in Ids, g \in Ids : o = a[1].op /\ g = a[1].file
    BY ZenonT(40), <1>3, WriteIs
  <2>x. PICK all \in SUBSET Ids, n \in Nat :
           o = a[1].op /\ g = a[1].file /\ all = VersionsOf(g) /\ n = Cardinality(all)
    BY ZenonT(40), <2>y, NextNumberIs DEF VersionsOf
  <2>w. /\ version'[o] = [number |-> NextNumber(g), body |-> a[1].body, bind |-> ops[o].bind,
                          object |-> att[a].object]
        /\ \A p \in Ids \ {o} : version'[p] = version[p]
    BY <1>3, <2>x, WriteSets
  <2>f. /\ file' = [file EXCEPT ![g] = [state |-> "ACTIVE", updated |-> att[a].stamp, current |-> o]]
        /\ ops[o].status = "PENDING"
    BY ZenonT(40), <1>3, <2>x, WriteIs
  <2>v. version[o] = NoVersion
    BY <2>f DEF IInv, RowSound
  <2>c. file'[g].current = o /\ \A f \in Ids \ {g} : file'[f] = file[f]
    BY <2>f DEF IInv, TypeOK
  <2>n. NextNumber(g) = n + 1 /\ IsFiniteSet(all)
    BY <2>x, NextNumberIs
  <2>o. \A f \in Ids : VersionsOf(f)' = IF f = g THEN VersionsOf(f) \cup {o} ELSE VersionsOf(f)
    BY <1>3, <2>x, OneMore
  <2>1. /\ version'[o].number = n + 1 /\ o \notin all /\ VersionsOf(g)' = all \cup {o}
        /\ file'[g].current = o /\ IsFiniteSet(all)
        /\ \A p \in all : version'[p] = version[p]
        /\ {version[p].number : p \in all} = 1..n
    <3>1. o \notin all
      BY <2>x, <2>v DEF VersionsOf
    <3>2. \A p \in all : version'[p] = version[p]
      BY <2>w, <3>1
    <3>3. {version[p].number : p \in all} = 1..n
      BY <2>x DEF IInv, VersionsInOrder
    <3>4. version'[o].number = n + 1
      BY <2>w, <2>n
    <3>5. VersionsOf(g)' = all \cup {o}
      BY <2>x, <2>o
    <3> QED
      BY <2>c, <2>n, <3>1, <3>2, <3>3, <3>4, <3>5
  <2>2. Cardinality(all \cup {o}) = n + 1
    BY ZenonT(40), <2>x, <2>1, FS_AddElement
  <2>3. {version'[p].number : p \in all \cup {o}} = 1..(n + 1)
    <3>1. {version'[p].number : p \in all \cup {o}} = {version[p].number : p \in all} \cup {n + 1}
      BY <2>1
    <3> QED
      BY <2>1, <3>1
  <2>4. ASSUME NEW f \in Ids \ {g}
        PROVE  LET of == VersionsOf(f)' IN
               /\ {version'[p].number : p \in of} = 1..Cardinality(of)
               /\ of # {} => /\ file'[f].current \in of
                             /\ version'[file'[f].current].number = Cardinality(of)
    <3>1. VersionsOf(f)' = VersionsOf(f)
      BY <2>o
    <3>2. file'[f] = file[f]
      BY <2>c
    <3>3. \A p \in VersionsOf(f) : version'[p] = version[p]
      BY <2>w, <2>v DEF VersionsOf
    <3>4. {version'[p].number : p \in VersionsOf(f)} = {version[p].number : p \in VersionsOf(f)}
      BY <3>3
    <3> QED
      BY <3>1, <3>2, <3>3, <3>4 DEF IInv, VersionsInOrder
  <2> QED
    BY ZenonT(40), <2>1, <2>2, <2>3, <2>4 DEF VersionsInOrder
<1>4. ASSUME NEW f \in Ids, Withdraws(f)
      PROVE  UNCHANGED version /\ \A g \in Ids : file'[g].current = file[g].current
  BY <1>4 DEF Withdraws, IInv, TypeOK, File
<1> QED
  BY ZenonT(40), <1>2, <1>3, <1>4, StepService DEF ServiceKinds, service, Opens
-----------------------------------------------------------------------------
(* The attempts. *)

\* An attempt that stays late keeps its row and its object.
LEMMA HoldsOn ==
  ASSUME IInv, [Next]_vars, NEW a \in Attempts, Has(a), att'[a].at = att[a].at
  PROVE  /\ Has(a)'
         /\ Stored(a) /\ att'[a].object = att[a].object => Stored(a)'
<1>x. PICK o \in Ids, k \in Keys : o = a[1].op /\ k = Place(a)
  BY ZenonT(40), Typed DEF IInv, Place, Keys
<1>1. Has(a)'
  BY <1>x, RowsDoGrow DEF Has, RowsGrow
<1>2. ASSUME Stored(a), att'[a].object = att[a].object PROVE Stored(a)'
  <2>1. objects[k] # <<>>
    BY <1>x, <1>2 DEF Stored
  <2>2. objects'[k] = objects[k] /\ Place(a)' = k
    BY <1>x, <2>1, ObjectsDoGrow DEF ObjectsGrow, Place
  <2> QED
    BY <1>x, <1>2, <2>2 DEF Stored
<1> QED
  BY <1>1, <1>2

\* How the attempts and the slots move: one attempt begins, goes on or ends, or a
\* replica stops.
Begins(a, r) ==
  /\ att[a].pc = "idle" /\ r \in Replicas
  /\ att' = [att EXCEPT ![a] = [Idle EXCEPT !.pc = "target", !.at = r]]
  /\ active' = [active EXCEPT ![r] = @ + 1]

GoesOn(a) ==
  /\ att[a].pc # "idle" /\ UNCHANGED active
  /\ \E new \in Attempt :
       /\ att' = [att EXCEPT ![a] = new]
       /\ new.pc # "idle" /\ new.at = att[a].at
       /\ new.pc \in Late => Has(a)'
       /\ new.pc = "commit" => Stored(a)'

Stops(a) == att[a].pc # "idle" /\ Ends(a)

AttemptKinds ==
  \/ UNCHANGED <<att, active>>
  \/ \E a \in Attempts : GoesOn(a) \/ Stops(a) \/ \E r \in Replicas : Begins(a, r)
  \/ \E r \in Replicas : Crash(r)

\* An attempt that has passed the row works under its own key.
LEMMA LateFound ==
  ASSUME IInv, NEW a \in Attempts, att[a].pc \in Late
  PROVE  Has(a) /\ Row(a) = a[1].op /\ Key(a) = Place(a)
BY OwnRow DEF IInv, AttSound

\* An attempt that finds its object goes on with it.
LEMMA FoundGoesOn ==
  ASSUME IInv, NEW a \in Attempts, att[a].pc \in Late, Found(a), UNCHANGED <<ops, active>>,
         NEW k \in Keys, k = Place(a), NEW s \in Seq(Nat), s = objects'[k],
         s # <<>>, s[Len(s)] = a[1].body
  PROVE  GoesOn(a)
<1>x. PICK old \in Attempt : old = att[a]
  BY Typed DEF IInv
<1>1. Has(a) /\ Key(a) = k
  BY LateFound
<1>2. PICK i \in Nat : i = Len(s) /\ i \in DOMAIN s
  OBVIOUS
<1>3. clock \in Nat
  BY DEF IInv, TypeOK
<1>m. [old EXCEPT !.pc = "commit", !.stamp = clock, !.object = i] \in Attempt
  BY ZenonT(40), <1>2, <1>3 DEF Attempt, Stages
<1>4. PICK new \in Attempt :
         /\ new = [old EXCEPT !.pc = "commit", !.stamp = clock, !.object = i]
         /\ new.pc = "commit" /\ new.at = old.at /\ new.object = i
  BY ZenonT(40), <1>m DEF Attempt
<1>5. att' = [att EXCEPT ![a] = new]
  BY ZenonT(40), <1>x, <1>1, <1>2, <1>4 DEF Found, IInv, TypeOK
<1>6. att'[a] = new
  BY <1>5 DEF IInv, TypeOK
<1>7. Has(a)'
  BY <1>x, <1>1, <1>4, <1>6 DEF Has
<1>8. Place(a)' = k
  BY <1>x, <1>4, <1>6 DEF Place
<1>9. Stored(a)'
  BY <1>2, <1>4, <1>6, <1>8 DEF Stored
<1> QED
  BY ZenonT(40), <1>x, <1>4, <1>5, <1>7, <1>9 DEF GoesOn, Late

\* An attempt that only changes its place in the handler.
LEMMA MovesOn ==
  ASSUME IInv, [Next]_vars, NEW a \in Attempts, UNCHANGED active, att[a].pc # "idle",
         NEW pc \in Stages \ {"idle", "commit"}, NEW round \in {1, 2},
         att' = [att EXCEPT ![a].pc = pc, ![a].round = round],
         pc \in Late => Has(a)'
  PROVE  GoesOn(a)
<1>x. PICK old \in Attempt : old = att[a]
  BY Typed DEF IInv
<1>m. [old EXCEPT !.pc = pc, !.round = round] \in Attempt
  BY ZenonT(40) DEF Attempt
<1>1. PICK new \in Attempt : /\ new = [old EXCEPT !.pc = pc, !.round = round]
                             /\ new.pc = pc /\ new.at = old.at
  BY ZenonT(40), <1>m DEF Attempt
<1>2. att' = [att EXCEPT ![a] = new]
  BY ZenonT(40), <1>x, <1>1 DEF IInv, TypeOK
<1> QED
  BY ZenonT(40), <1>x, <1>1, <1>2 DEF GoesOn

\* The same for a change of place alone.
LEMMA GoesGoesOn ==
  ASSUME IInv, [Next]_vars, NEW a \in Attempts, UNCHANGED active, att[a].pc # "idle",
         NEW pc \in Stages \ {"idle", "commit"}, Goes(a, pc), pc \in Late => Has(a)'
  PROVE  GoesOn(a)
<1>x. PICK old \in Attempt : old = att[a]
  BY Typed DEF IInv
<1>1. PICK round \in {1, 2} : round = old.round
  BY DEF Attempt
<1>2. [old EXCEPT !.pc = pc, !.round = round] = [old EXCEPT !.pc = pc]
  BY ZenonT(40), <1>1 DEF Attempt
<1>3. att' = [att EXCEPT ![a].pc = pc, ![a].round = round]
  BY ZenonT(40), <1>x, <1>2 DEF Goes, IInv, TypeOK
<1> QED
  BY ZenonT(40), <1>3, MovesOn

\* In passing: the attempt keeps its replica.
LEMMA GoesAt ==
  ASSUME IInv, NEW a \in Attempts, NEW pc, Goes(a, pc)
  PROVE  att'[a].at = att[a].at
<1>x. PICK old \in Attempt : old = att[a]
  BY Typed DEF IInv
<1>1. [old EXCEPT !.pc = pc].at = old.at
  BY DEF Attempt
<1> QED
  BY <1>x, <1>1 DEF Goes, IInv, TypeOK

\* Reading the key, before or after a put.
LEMMA ReuseGoesOn ==
  ASSUME IInv, [Next]_vars, NEW a \in Attempts, att[a].pc \in Late, Reuse(a),
         UNCHANGED <<ops, objects>>
  PROVE  GoesOn(a) \/ Stops(a)
<1>1. CASE Refuse(a)
  BY <1>1 DEF Refuse, Stops, Late
<1>2. CASE Confirmed(a) /\ Found(a) /\ UNCHANGED active
  <2>x. PICK k \in Keys : k = Place(a)
    BY ZenonT(40), Typed DEF IInv, Place, Keys
  <2>1. Key(a) = k
    BY <2>x, LateFound
  <2>2. PICK s \in Seq(Nat) : s = objects'[k] /\ s = objects[k]
    BY Typed DEF IInv
  <2>3. s # <<>> /\ s[Len(s)] = a[1].body
    BY <1>2, <2>1, <2>2 DEF Reuse, Confirmed
  <2> QED
    BY <1>2, <2>x, <2>2, <2>3, FoundGoesOn
<1> QED
  BY <1>1, <1>2 DEF Reuse

\* An attempt that passes the operation row has it.
LEMMA BeginGoesOn ==
  ASSUME IInv, [Next]_vars, NEW a \in Attempts, Begin(a)
  PROVE  GoesOn(a) \/ Stops(a)
<1>x. PICK o \in Ids : o = a[1].op
  BY Typed DEF IInv
<1>1. CASE Ends(a)
  BY <1>1 DEF Begin, Stops
<1>2. CASE Onwards(a)
  <2>1. PICK pc \in {"body", "head"} : Goes(a, pc) /\ UNCHANGED active
    BY <1>2 DEF Onwards
  <2>2. att'[a].at = att[a].at
    BY <2>1, GoesAt
  <2>3. ASSUME ops[o] = NoOp,
               ops' = [ops EXCEPT ![o] = [status |-> "PENDING", call |-> a[1],
                         bind |-> Bind[att[a].at], result |-> NoResult]]
        PROVE  Has(a)'
    <3>1. ops'[o] = [status |-> "PENDING", call |-> a[1], bind |-> Bind[att[a].at],
                     result |-> NoResult]
      BY <2>3 DEF IInv, TypeOK
    <3> QED
      BY <1>x, <2>2, <3>1 DEF Has
  <2>4. ASSUME NEW p \in Known(a[1]), SameRequest(a[1], ops[p]), ops[p].bind = Bind[att[a].at],
               UNCHANGED ops
        PROVE  Has(a)'
    <3>1. p \in Ids /\ ops[p].status # "NONE" /\ ops[p].call.op = p
      BY <2>4, Typed DEF IInv, RowSound, Known
    <3>2. p = o
      BY <1>x, <2>4, <3>1 DEF SameRequest, Digest
    <3>3. Has(a)
      BY <1>x, <2>4, <3>1, <3>2 DEF Has, SameRequest, Known
    <3> QED
      BY <2>2, <3>3, HoldsOn
  <2>5. CASE Has(a)'
    BY <2>1, <2>5, GoesGoesOn DEF Begin, Stages
  <2>6. \/ ops[o] = NoOp /\ ops' = [ops EXCEPT ![o] = [status |-> "PENDING", call |-> a[1],
                                      bind |-> Bind[att[a].at], result |-> NoResult]]
        \/ \E p \in Known(a[1]) : SameRequest(a[1], ops[p]) /\ ops[p].bind = Bind[att[a].at] /\ UNCHANGED ops
        \/ Ends(a)
    BY <1>x DEF Begin, Refuse, Fault
  <2> QED
    BY <1>1, <2>3, <2>4, <2>5, <2>6
<1> QED
  BY <1>1, <1>2 DEF Begin, Refuse, Fault, Answer

\* A put ends with the object under the key, or with a second look at it.
LEMMA PutGoesOn ==
  ASSUME IInv, [Next]_vars, NEW a \in Attempts, Put(a)
  PROVE  GoesOn(a)
<1>x. PICK k \in Keys : k = Place(a)
  BY ZenonT(40), Typed DEF IInv, Place, Keys
<1>1. Has(a) /\ Key(a) = k /\ att[a].pc \in Late
  BY <1>x, LateFound DEF Put, Late
<1>2. CASE Goes(a, "recheck")
  <2>1. Has(a)'
    BY <1>1, <1>2, GoesAt, HoldsOn
  <2> QED
    BY <1>2, <2>1, GoesGoesOn DEF Put, Stages
<1>3. CASE Accepts(k) /\ Puts(k, a[1].body) /\ Found(a) /\ UNCHANGED ops
  <2>1. objects[k] = <<>> /\ a[1].body \in Nat
    BY <1>3, Typed DEF Accepts, IInv, CallType
  <2>2. objects'[k] = Append(objects[k], a[1].body)
    BY <1>3 DEF Puts, IInv, TypeOK
  <2>a. <<a[1].body>> \in Seq(Nat) /\ Append(objects[k], a[1].body) = <<a[1].body>>
    BY <2>1
  <2>3. PICK s \in Seq(Nat) : s = objects'[k] /\ s = <<a[1].body>>
    BY ZenonT(40), <2>2, <2>a
  <2>4. s # <<>> /\ s[Len(s)] = a[1].body
    BY <2>3
  <2> QED
    BY ZenonT(40), <1>x, <1>1, <1>3, <2>3, <2>4, FoundGoesOn DEF Put
<1> QED
  BY <1>1, <1>2, <1>3 DEF Put, service

\* Every step moves the attempts and the slots in one of these ways.
LEMMA StepAttempts ==
  ASSUME IInv, [Next]_vars
  PROVE  AttemptKinds
<1>1. ASSUME NEW a \in Attempts, Handle(a) PROVE GoesOn(a) \/ Stops(a)
  <2>1. CASE Target(a)
    BY <2>1, GoesGoesOn DEF Target, Refuse, Stops, Late, Stages
  <2>2. CASE Begin(a)
    BY <2>2, BeginGoesOn
  <2>3. CASE Body(a)
    <3>1. CASE Fault(a)
      BY <2>3, <3>1 DEF Body, Fault, Stops
    <3>2. CASE att' = [att EXCEPT ![a].pc = "target", ![a].round = 2] /\ UNCHANGED active
      <4>1. "target" \in Stages \ {"idle", "commit"} /\ "target" \notin Late /\ 2 \in {1, 2}
        BY DEF Stages, Late
      <4>2. att[a].pc # "idle"
        BY <2>3 DEF Body
      <4> QED
        BY ZenonT(40), <3>2, <4>1, <4>2, MovesOn
    <3> QED
      BY <2>3, <3>1, <3>2 DEF Body
  <2>4. CASE Probe(a)
    <3>1. CASE Goes(a, "put") /\ UNCHANGED active
      <4>1. Has(a)
        BY <2>4, LateFound DEF Probe, Late
      <4>2. Has(a)'
        BY <3>1, <4>1, GoesAt, HoldsOn
      <4> QED
        BY <2>4, <3>1, <4>2, GoesGoesOn DEF Probe, Stages
    <3>2. CASE Reuse(a)
      BY <2>4, <3>2, ReuseGoesOn DEF Probe, Late, service
    <3> QED
      BY <2>4, <3>1, <3>2 DEF Probe, Fault, Stops
  <2>5. CASE Put(a)
    BY <2>5, PutGoesOn
  <2>6. CASE Recheck(a)
    <3>1. CASE Reuse(a)
      BY <2>6, <3>1, ReuseGoesOn DEF Recheck, Late, service
    <3> QED
      BY <2>6, <3>1 DEF Recheck, Fault, Stops
  <2>7. CASE Commit(a)
    BY <2>7 DEF Commit, Answer, Uncertain, Fault, Stops
  <2> QED
    BY <1>1, <2>1, <2>2, <2>3, <2>4, <2>5, <2>6, <2>7 DEF Handle
<1>2. ASSUME NEW a \in Attempts, NEW r \in Replicas, Send(a, r) PROVE Begins(a, r)
  BY <1>2 DEF Send, Begins
<1>3. ASSUME NEW p \in flight, LatePut(p) PROVE UNCHANGED <<att, active>>
  BY <1>3 DEF LatePut
<1>4. CASE StartList \/ Page \/ Tick \/ (\E f \in Ids : Withdraw(f)) \/ UNCHANGED vars
  BY <1>4 DEF StartList, Page, Tick, Withdraw, vars, AttemptKinds
<1> QED
  BY <1>1, <1>2, <1>3, <1>4 DEF Next, AttemptKinds

\* Every attempt stands on its row and its object.
LEMMA AttKeep ==
  ASSUME IInv, [Next]_vars
  PROVE  att' \in [Attempts -> Attempt] /\ \A a \in Attempts : AttSound(a)'
<1>t. att \in [Attempts -> Attempt] /\ Idle \in Attempt
  BY IdleType DEF IInv, TypeOK
<1>1. ASSUME NEW a \in Attempts, att'[a] = att[a] PROVE AttSound(a)'
  <2>1. att[a].pc \in Late => Has(a)'
    BY <1>1, HoldsOn DEF IInv, AttSound
  <2>2. att[a].pc = "commit" => Stored(a)'
    BY <1>1, HoldsOn DEF IInv, AttSound, Late
  <2> QED
    BY <1>1, <2>1, <2>2 DEF AttSound
<1>2. ASSUME NEW a \in Attempts, att'[a] \in Attempt, att'[a].pc \in {"idle", "target"}
      PROVE  AttSound(a)'
  BY <1>2 DEF AttSound, Late
<1>3. ASSUME NEW a \in Attempts, GoesOn(a) \/ Stops(a) \/ \E r \in Replicas : Begins(a, r)
      PROVE  att' \in [Attempts -> Attempt] /\ \A b \in Attempts : AttSound(b)'
  <2>1. CASE GoesOn(a)
    <3>1. PICK new \in Attempt : /\ att' = [att EXCEPT ![a] = new]
                                 /\ new.pc \in Late => Has(a)'
                                 /\ new.pc = "commit" => Stored(a)'
      BY ZenonT(40), <2>1 DEF GoesOn
    <3>2. att' \in [Attempts -> Attempt] /\ att'[a] = new /\ \A b \in Attempts \ {a} : att'[b] = att[b]
      BY <1>t, <3>1
    <3>3. AttSound(a)'
      BY <3>1, <3>2 DEF AttSound
    <3> QED
      BY <1>1, <3>2, <3>3
  <2>2. CASE Stops(a)
    <3>1. att' \in [Attempts -> Attempt] /\ att'[a] = Idle /\ \A b \in Attempts \ {a} : att'[b] = att[b]
      BY <1>t, <2>2 DEF Stops, Ends
    <3>2. AttSound(a)'
      BY <1>2, <1>t, <3>1 DEF Idle
    <3> QED
      BY <1>1, <3>1, <3>2
  <2>3. ASSUME NEW r \in Replicas, Begins(a, r)
        PROVE  att' \in [Attempts -> Attempt] /\ \A b \in Attempts : AttSound(b)'
    <3>1. [Idle EXCEPT !.pc = "target", !.at = r] \in Attempt
      BY ZenonT(40), <1>t DEF Attempt, Stages
    <3>2. PICK new \in Attempt : new = [Idle EXCEPT !.pc = "target", !.at = r] /\ new.pc = "target"
      BY ZenonT(40), <1>t, <3>1 DEF Attempt
    <3>3. att' = [att EXCEPT ![a] = new]
      BY <2>3, <3>2 DEF Begins
    <3>4. att' \in [Attempts -> Attempt] /\ att'[a] = new /\ \A b \in Attempts \ {a} : att'[b] = att[b]
      BY <1>t, <3>3
    <3>5. AttSound(a)'
      BY ZenonT(40), <1>2, <3>2, <3>4
    <3> QED
      BY <1>1, <3>4, <3>5
  <2> QED
    BY <1>3, <2>1, <2>2, <2>3
<1>4. ASSUME NEW r \in Replicas, Crash(r)
      PROVE  att' \in [Attempts -> Attempt] /\ \A a \in Attempts : AttSound(a)'
  <2>1. att' \in [Attempts -> Attempt] /\ \A a \in Attempts : att'[a] = att[a] \/ att'[a] = Idle
    BY <1>t, <1>4 DEF Crash
  <2> QED
    BY <1>1, <1>2, <1>t, <2>1 DEF Idle
<1>5. CASE UNCHANGED att
  BY <1>t, <1>1, <1>5
<1> QED
  BY <1>3, <1>4, <1>5, StepAttempts DEF AttemptKinds
-----------------------------------------------------------------------------
(* The slots. *)

\* The attempts that run at a replica.
Running(r) == {a \in Attempts : att[a].pc # "idle" /\ att[a].at = r}

\* The slots of a replica count its attempts.
LEMMA RunningFinite ==
  ASSUME IInv, NEW r \in Replicas
  PROVE  /\ IsFiniteSet(Running(r)) /\ Cardinality(Running(r)) \in Nat
         /\ active[r] = Cardinality(Running(r))
<1>1. IsFiniteSet({1, 2})
  <2>1. IsFiniteSet({1})
    BY ZenonT(40), FS_Singleton
  <2>2. IsFiniteSet({1} \cup {2}) /\ {1} \cup {2} = {1, 2}
    BY <2>1, FS_AddElement
  <2> QED
    BY <2>2
<1>2. IsFiniteSet(Attempts)
  BY <1>1, FileAssumption, FS_Product DEF Attempts
<1>3. Running(r) \in SUBSET Attempts
  BY DEF Running
<1>4. IsFiniteSet(Running(r)) /\ Cardinality(Running(r)) \in Nat
  BY <1>2, <1>3, FS_Subset, FS_CardinalityType
<1> QED
  BY ZenonT(40), <1>4 DEF IInv, SlotsBalance, Running

\* A slot is taken with an attempt and given back with it.
LEMMA SlotsKeep ==
  ASSUME IInv, [Next]_vars
  PROVE  active' \in [Replicas -> Nat] /\ SlotsBalance'
<1>t. active \in [Replicas -> Nat] /\ att \in [Attempts -> Attempt] /\ att' \in [Attempts -> Attempt]
  BY AttKeep DEF IInv, TypeOK
<1> DEFINE Goal == /\ active' \in [Replicas -> Nat]
                   /\ \A r \in Replicas : active'[r] = Cardinality(Running(r)')
<1>1. ASSUME NEW a \in Attempts, GoesOn(a) PROVE Goal
  <2>1. PICK new \in Attempt : /\ att' = [att EXCEPT ![a] = new] /\ new.pc # "idle"
                               /\ new.at = att[a].at /\ att[a].pc # "idle" /\ UNCHANGED active
    BY ZenonT(40), <1>1 DEF GoesOn
  <2>2. \A r \in Replicas : Running(r)' = Running(r)
    BY <1>t, <2>1 DEF Running
  <2> QED
    BY <1>t, <2>1, <2>2, RunningFinite
<1>2. ASSUME NEW a \in Attempts, Stops(a) PROVE Goal
  <2>x. PICK q \in Replicas : q = att[a].at
    BY Typed DEF IInv
  <2>1. att' = [att EXCEPT ![a] = Idle] /\ active' = [active EXCEPT ![q] = @ - 1] /\ att[a].pc # "idle"
    BY <1>2, <2>x DEF Stops, Ends, Release
  <2>2. a \in Running(q) /\ Running(q)' = Running(q) \ {a}
    BY <1>t, <2>x, <2>1 DEF Running, Idle
  <2>3. \A r \in Replicas \ {q} : Running(r)' = Running(r)
    BY <1>t, <2>x, <2>1 DEF Running, Idle
  <2>4. Cardinality(Running(q)') = active[q] - 1 /\ active[q] - 1 \in Nat
    <3>1. IsFiniteSet(Running(q)) /\ Cardinality(Running(q)) = active[q] /\ active[q] \in Nat
      BY RunningFinite
    <3>2. Cardinality(Running(q) \ {a}) = Cardinality(Running(q)) - 1
      BY ZenonT(40), <2>2, <3>1, FS_RemoveElement
    <3>3. IsFiniteSet(Running(q) \ {a}) /\ Cardinality(Running(q) \ {a}) \in Nat
      BY <3>1, FS_RemoveElement, FS_CardinalityType
    <3> QED
      BY <2>2, <3>1, <3>2, <3>3
  <2> QED
    BY <1>t, <2>1, <2>3, <2>4, RunningFinite
<1>3. ASSUME NEW a \in Attempts, NEW q \in Replicas, Begins(a, q) PROVE Goal
  <2>1. att' = [att EXCEPT ![a] = [Idle EXCEPT !.pc = "target", !.at = q]] /\ att[a].pc = "idle"
        /\ active' = [active EXCEPT ![q] = @ + 1]
    BY <1>3 DEF Begins
  <2>2. att'[a].pc = "target" /\ att'[a].at = q
    BY <1>t, <2>1 DEF Idle
  <2>3. \A b \in Attempts \ {a} : att'[b] = att[b]
    BY <1>t, <2>1
  <2>4. a \notin Running(q) /\ Running(q)' = Running(q) \cup {a}
    BY <2>1, <2>2, <2>3 DEF Running
  <2>5. \A r \in Replicas \ {q} : Running(r)' = Running(r)
    BY <2>1, <2>2, <2>3 DEF Running
  <2>6. Cardinality(Running(q)') = active[q] + 1
    <3>1. IsFiniteSet(Running(q)) /\ Cardinality(Running(q)) = active[q]
      BY RunningFinite
    <3> QED
      BY ZenonT(40), <2>4, <3>1, FS_AddElement
  <2> QED
    BY <1>t, <2>1, <2>5, <2>6, RunningFinite
<1>4. ASSUME NEW q \in Replicas, Crash(q) PROVE Goal
  <2>0. \A a \in Attempts : att'[a] = IF att[a].at = q THEN Idle ELSE att[a]
    BY <1>4 DEF Crash
  <2>1. \A a \in Attempts : /\ att[a].at = q => att'[a].pc = "idle"
                            /\ att[a].at # q => att'[a] = att[a]
    <3>1. Idle.pc = "idle"
      BY DEF Idle
    <3> QED
      BY <2>0, <3>1
  <2>2. Running(q)' = {}
    BY <2>1 DEF Running
  <2>3. \A r \in Replicas \ {q} : Running(r)' = Running(r)
    BY <2>1 DEF Running
  <2>4. active' = [active EXCEPT ![q] = 0]
    BY <1>4 DEF Crash
  <2> QED
    BY ZenonT(40), <1>t, <2>2, <2>3, <2>4, RunningFinite, FS_EmptySet
<1>5. ASSUME UNCHANGED <<att, active>> PROVE Goal
  <2>1. \A r \in Replicas : Running(r)' = Running(r)
    BY <1>5 DEF Running
  <2> QED
    BY <1>t, <1>5, <2>1, RunningFinite
<1>6. Goal
  BY <1>1, <1>2, <1>3, <1>4, <1>5, StepAttempts DEF AttemptKinds
<1> QED
  BY <1>6 DEF SlotsBalance, Running
-----------------------------------------------------------------------------
(* The listing. *)

\* A strict order on a finite set has a minimal element.
LEMMA Minimal ==
  ASSUME NEW S, IsFiniteSet(S), S # {}, NEW R,
         \A f \in S : <<f, f>> \notin R,
         \A f, g, h \in S : <<f, g>> \in R /\ <<g, h>> \in R => <<f, h>> \in R
  PROVE  \E f \in S : \A g \in S : <<g, f>> \notin R
<1> DEFINE Below(f) == {g \in S : <<g, f>> \in R}
           Sizes    == {Cardinality(Below(f)) : f \in S}
<1>1. ASSUME NEW f \in S PROVE IsFiniteSet(Below(f)) /\ Cardinality(Below(f)) \in Nat
  <2>1. Below(f) \in SUBSET S
    OBVIOUS
  <2> QED
    BY ZenonT(40), <2>1, FS_Subset, FS_CardinalityType
<1>2. ASSUME NEW f \in S, NEW g \in Below(f) PROVE Cardinality(Below(g)) < Cardinality(Below(f))
  <2>1. g \in S /\ Below(g) \in SUBSET (Below(f) \ {g})
    OBVIOUS
  <2>c. Cardinality(Below(g)) \in Nat /\ Cardinality(Below(f)) \in Nat
    BY ZenonT(40), <1>1, <2>1
  <2>2. IsFiniteSet(Below(f) \ {g}) /\ Cardinality(Below(f) \ {g}) = Cardinality(Below(f)) - 1
    BY ZenonT(40), <1>1, FS_RemoveElement
  <2>3. Cardinality(Below(g)) <= Cardinality(Below(f) \ {g})
    BY ZenonT(40), <2>1, <2>2, FS_Subset
  <2> HIDE DEF Below
  <2> QED
    BY <2>c, <2>2, <2>3
<1>3. Sizes \subseteq Nat /\ Sizes # {}
  <2>1. PICK f : f \in S
    OBVIOUS
  <2>2. Cardinality(Below(f)) \in Sizes
    BY ZenonT(40), <2>1
  <2> HIDE DEF Below
  <2>3. Sizes \subseteq Nat
    BY <1>1
  <2> QED
    BY <2>2, <2>3
<1>4. PICK n \in Sizes : \A m \in Sizes : <<m, n>> \notin OpToRel(<, Nat)
  BY ZenonT(40), <1>3, WFMin, NatLessThanWellFounded
<1>5. PICK f \in S : n = Cardinality(Below(f))
  OBVIOUS
<1>6. ASSUME NEW g \in Below(f) PROVE FALSE
  <2>1. g \in S /\ Cardinality(Below(g)) \in Nat /\ Cardinality(Below(f)) \in Nat
    BY ZenonT(40), <1>1
  <2>3. Cardinality(Below(g)) \in Sizes
    BY ZenonT(40), <2>1
  <2>4. PICK m \in Nat : m = Cardinality(Below(g)) /\ m < n /\ n \in Nat
    <3> HIDE DEF Below, Sizes
    <3> QED BY <1>2, <1>5, <2>1
  <2>2. <<Cardinality(Below(g)), n>> \in OpToRel(<, Nat)
    <3>1. <<m, n>> \in OpToRel(<, Nat)
      BY ZenonT(40), <2>4 DEF OpToRel
    <3> QED BY ZenonT(40), <2>4, <3>1
  <2> HIDE DEF Sizes
  <2> QED
    BY ZenonT(40), <1>4, <2>2, <2>3
<1> QED
  BY <1>6

\* What a page is taken from, the page, and the file its cursor stands at.
Rest == {f \in Visible : Beyond(f)}
Above(f) == {g \in Rest : Newer(g, f)}
Taken == {f \in Rest : Cardinality(Above(f)) < PageSize}
IsLast(f) == f \in Taken /\ \A g \in Taken : g = f \/ Newer(g, f)

\* The order of the listing is strict and total.
LEMMA Order ==
  ASSUME IInv
  PROVE  /\ \A f \in Ids : f \in Nat \ {0} /\ file[f].updated \in Nat /\ ~Newer(f, f)
         /\ \A f, g \in Ids : f = g \/ Newer(f, g) \/ Newer(g, f)
         /\ \A f, g \in Ids : Newer(f, g) => ~Newer(g, f)
         /\ \A f, g, h \in Ids : Newer(f, g) /\ Newer(g, h) => Newer(f, h)
<1>1. \A f \in Ids : f \in Nat \ {0} /\ file[f].updated \in Nat
  BY FileAssumption, Typed DEF IInv, File
<1> QED
  BY <1>1 DEF Newer

\* A page that leaves something has a last file.
LEMMA LastIs ==
  ASSUME IInv, Rest # Taken
  PROVE  \E f \in Ids : IsLast(f)
<1>1. IsFiniteSet(Rest) /\ Rest \subseteq Ids /\ Taken \subseteq Rest /\ IsFiniteSet(Taken)
  <2>1. Rest \in SUBSET Ids /\ Taken \in SUBSET Ids /\ Taken \subseteq Rest
    BY DEF Rest, Visible, Taken
  <2> QED
    BY ZenonT(40), <2>1, FileAssumption, FS_Subset
<1>2. Taken # {}
  <2>1. PICK R : R = {p \in Ids \X Ids : Newer(p[1], p[2])}
    OBVIOUS
  <2>2. PICK f \in Rest : \A g \in Rest : <<g, f>> \notin R
    <3>1. \A f \in Rest : <<f, f>> \notin R
      BY <1>1, <2>1, Order
    <3>2. \A f, g, h \in Rest : <<f, g>> \in R /\ <<g, h>> \in R => <<f, h>> \in R
      BY <1>1, <2>1, Order
    <3>3. Rest # {}
      BY <1>1
    <3> QED
      BY <1>1, <3>1, <3>2, <3>3, Minimal
  <2>3. Above(f) = {}
    BY ZenonT(40), <1>1, <2>1, <2>2 DEF Above
  <2>4. Cardinality(Above(f)) < PageSize
    BY <2>3, FS_EmptySet, FileAssumption
  <2> QED
    BY <2>4 DEF Taken
<1>3. PICK R : R = {p \in Ids \X Ids : Newer(p[2], p[1])}
  OBVIOUS
<1>4. PICK f \in Taken : \A g \in Taken : <<g, f>> \notin R
  <2>1. \A f \in Taken : <<f, f>> \notin R
    BY <1>1, <1>3, Order
  <2>2. \A f, g, h \in Taken : <<f, g>> \in R /\ <<g, h>> \in R => <<f, h>> \in R
    BY <1>1, <1>3, Order
  <2> QED
    BY <1>1, <1>2, <2>1, <2>2, Minimal
<1> QED
  BY ZenonT(40), <1>1, <1>3, <1>4, Order DEF IsLast

\* What a page does to the cursor.
LEMMA PageIs ==
  ASSUME IInv, Page
  PROVE  \/ /\ Rest = Taken
            /\ list' = [list EXCEPT !.seen = list.seen \cup Taken,
                          !.again = list.again \cup (list.seen \cap Taken), !.pc = "done"]
         \/ \E f \in Ids :
              /\ IsLast(f)
              /\ list' = [list EXCEPT !.seen = list.seen \cup Taken,
                            !.again = list.again \cup (list.seen \cap Taken),
                            !.time = file[f].updated, !.id = f]
<1>t. list \in Listing /\ list.pc = "page"
  BY DEF IInv, TypeOK, Page
<1> DEFINE last == CHOOSE f \in Taken : \A g \in Taken : g = f \/ Newer(g, f)
<1>1. list' = [list EXCEPT !.seen = list.seen \cup Taken,
                 !.again = list.again \cup (list.seen \cap Taken),
                 !.pc = IF Rest = Taken THEN "done" ELSE "page",
                 !.time = IF Rest = Taken THEN list.time ELSE file[last].updated,
                 !.id = IF Rest = Taken THEN list.id ELSE last]
  BY SMTT(40), <1>t DEF Page, Rest, Taken, Above, Listing
<1>2. CASE Rest = Taken
  BY ZenonT(40), <1>t, <1>1, <1>2 DEF Listing
<1>3. CASE Rest # Taken
  <2>1. PICK f \in Ids : IsLast(f)
    BY <1>3, LastIs
  <2>2. last \in Taken /\ \A g \in Taken : g = last \/ Newer(g, last)
    BY <2>1 DEF IsLast
  <2>3. last \in Ids /\ IsLast(last)
    BY ZenonT(40), <2>2 DEF IsLast, Taken, Rest, Visible
  <2>4. PICK l \in Ids : l = last
    BY <2>3
  <2>5. list' = [list EXCEPT !.seen = list.seen \cup Taken,
                   !.again = list.again \cup (list.seen \cap Taken), !.pc = "page",
                   !.time = file[l].updated, !.id = l]
    BY <1>1, <1>3, <2>4
  <2>6. list' = [list EXCEPT !.seen = list.seen \cup Taken,
                   !.again = list.again \cup (list.seen \cap Taken),
                   !.time = file[l].updated, !.id = l]
    BY ZenonT(40), <1>t, <2>5 DEF Listing
  <2> QED
    BY ZenonT(40), <2>3, <2>4, <2>6
<1> QED
  BY ZenonT(40), <1>2, <1>3

\* A file behind the cursor that is not taken comes after the last one taken.
LEMMA AfterLast ==
  ASSUME IInv, NEW l \in Ids, IsLast(l), NEW f \in Rest
  PROVE  f \in Taken <=> ~Newer(l, f)
<1>1. l \in Taken /\ l \in Rest /\ f \in Ids /\ Rest \subseteq Ids
  BY DEF IsLast, Taken, Rest, Visible
<1>2. ASSUME f \in Taken PROVE ~Newer(l, f)
  BY <1>1, <1>2, Order DEF IsLast
<1>3. ASSUME ~Newer(l, f) PROVE f \in Taken
  <2>1. f = l \/ Newer(f, l)
    BY <1>1, <1>3, Order
  <2>2. CASE Newer(f, l)
    <3>1. Above(f) \in SUBSET Above(l) /\ Above(l) \in SUBSET Ids
      BY <1>1, <2>2, Order DEF Above
    <3>2. IsFiniteSet(Above(l)) /\ Cardinality(Above(l)) \in Nat
      BY <3>1, FileAssumption, FS_Subset, FS_CardinalityType
    <3>3. Cardinality(Above(f)) <= Cardinality(Above(l)) /\ Cardinality(Above(f)) \in Nat
      BY <3>1, <3>2, FS_Subset, FS_CardinalityType
    <3>4. Cardinality(Above(l)) < PageSize
      BY <1>1 DEF Taken
    <3>5. Cardinality(Above(f)) < PageSize
      BY <3>2, <3>3, <3>4, FileAssumption
    <3> QED
      BY <3>5 DEF Taken
  <2> QED
    BY <1>1, <2>1, <2>2
<1> QED
  BY <1>2, <1>3

\* A page lists what it passes: nothing twice, nothing left out.
LEMMA PageKeeps ==
  ASSUME IInv, Page
  PROVE  list' \in Listing /\ ListSound'
<1>t. list \in Listing /\ list.pc = "page" /\ UNCHANGED file /\ Taken \subseteq Rest /\ Rest \subseteq Ids
  BY DEF IInv, TypeOK, Page, service, Taken, Rest, Visible
<1>s. \A f \in list.from \ list.touched :
        f \in Visible /\ (f \in list.seen <=> ~Beyond(f)) /\ f \notin list.again
  BY <1>t DEF IInv, ListSound
<1>r. \A f \in list.from \ list.touched : f \in Ids /\ (f \in Rest <=> Beyond(f))
  BY <1>s DEF Rest, Visible
<1>1. CASE Rest = Taken /\ list' = [list EXCEPT !.seen = list.seen \cup Taken,
                                      !.again = list.again \cup (list.seen \cap Taken), !.pc = "done"]
  <2>1. list' \in Listing /\ list'.pc = "done" /\ list'.from = list.from
        /\ list'.touched = list.touched /\ list'.seen = list.seen \cup Taken
        /\ list'.again = list.again \cup (list.seen \cap Taken)
    BY ZenonT(40), <1>t, <1>1 DEF Listing
  <2>2. \A f \in list.from \ list.touched : f \in list'.seen /\ f \notin list'.again
    BY <1>s, <1>r, <1>1, <2>1
  <2>3. list.from \subseteq Ids
    BY <1>t DEF Listing
  <2> QED
    BY <2>1, <2>2, <2>3 DEF ListSound, ListingIsWhole
<1>2. ASSUME NEW l \in Ids, IsLast(l),
             list' = [list EXCEPT !.seen = list.seen \cup Taken,
                        !.again = list.again \cup (list.seen \cap Taken),
                        !.time = file[l].updated, !.id = l]
      PROVE  list' \in Listing /\ ListSound'
  <2>1. list' \in Listing /\ list'.pc = "page" /\ list'.from = list.from
        /\ list'.touched = list.touched /\ list'.seen = list.seen \cup Taken
        /\ list'.again = list.again \cup (list.seen \cap Taken)
        /\ list'.time = file[l].updated /\ list'.id = l
    <3>1. l \in Nat /\ file[l].updated \in Nat
      BY Order
    <3> QED
      BY ZenonT(40), <1>t, <1>2, <3>1 DEF Listing
  <2>2. \A f \in Ids : Beyond(f)' <=> Newer(l, f)
    BY <1>t, <2>1, Order DEF Beyond, Newer
  <2>3. ASSUME NEW f \in list.from \ list.touched
        PROVE  f \in Visible' /\ (f \in list'.seen <=> ~Beyond(f)') /\ f \notin list'.again
    <3>1. f \in Visible' /\ f \in Ids
      BY <1>t, <1>s, <1>r DEF Visible
    <3>2. CASE Beyond(f)
      <4>1. f \in Rest /\ f \notin list.seen /\ f \notin list.again
        BY <1>s, <1>r, <3>2
      <4>2. f \in Taken <=> ~Newer(l, f)
        BY <1>2, <4>1, AfterLast
      <4> QED
        BY <2>1, <2>2, <3>1, <4>1, <4>2
    <3>3. CASE ~Beyond(f)
      <4>1. f \in list.seen /\ f \notin Taken /\ f \notin list.again
        BY <1>t, <1>s, <1>r, <3>3
      <4>2. Beyond(l)
        BY <1>2 DEF IsLast, Taken, Rest
      <4>3. list.id \in Nat /\ list.time \in Nat /\ file[l].updated \in Nat /\ l \in Nat
            /\ file[f].updated \in Nat /\ f \in Nat
        BY <1>t, <3>1, Order DEF Listing
      <4>4. ~Newer(l, f)
        BY <3>3, <4>2, <4>3 DEF Beyond, Newer
      <4> QED
        BY <2>1, <2>2, <3>1, <4>1, <4>4
    <3> QED
      BY <3>2, <3>3
  <2>4. list.from \subseteq Ids
    BY <1>t DEF Listing
  <2> QED
    BY <2>1, <2>3, <2>4 DEF ListSound, ListingIsWhole
<1> QED
  BY ZenonT(40), <1>1, <1>2, PageIs

\* A change to a file that the listing is told of.
LEMMA TouchKeeps ==
  ASSUME IInv, NEW f \in Ids, Touch(f), \A g \in Ids \ {f} : file'[g] = file[g]
  PROVE  list' \in Listing /\ ListSound'
<1>t. list \in Listing
  BY DEF IInv, TypeOK
<1>1. CASE list.pc = "page"
  <2>1. list' = [list EXCEPT !.touched = list.touched \cup {f}]
    BY <1>1 DEF Touch
  <2>t. list.touched \cup {f} \in SUBSET Ids
    BY <1>t DEF Listing
  <2>l. list' \in Listing
    BY <1>t, <2>t, <2>1 DEF Listing
  <2>2. list' \in Listing /\ list'.pc = "page" /\ list'.from = list.from
        /\ list'.touched = list.touched \cup {f} /\ list'.seen = list.seen
        /\ list'.again = list.again /\ list'.time = list.time /\ list'.id = list.id
    BY <1>1, <1>t, <2>l, <2>1 DEF Listing
  <2>3. ASSUME NEW g \in list.from \ (list.touched \cup {f})
        PROVE  g \in Visible' /\ (g \in list'.seen <=> ~Beyond(g)') /\ g \notin list'.again
    <3>1. g \in Visible /\ (g \in list.seen <=> ~Beyond(g)) /\ g \notin list.again
      BY <1>1 DEF IInv, ListSound
    <3>2. g \in Ids \ {f} /\ file'[g] = file[g]
      BY <3>1 DEF Visible
    <3> QED
      BY <2>2, <3>1, <3>2 DEF Visible, Beyond
  <2>4. list.from \subseteq Ids
    BY <1>t DEF Listing
  <2> QED
    BY <2>2, <2>3, <2>4 DEF ListSound, ListingIsWhole
<1>2. CASE list.pc # "page"
  BY <1>t, <1>2 DEF Touch, IInv, ListSound, ListingIsWhole
<1> QED
  BY <1>1, <1>2

\* Every step keeps the listing sound.
LEMMA ListKeep ==
  ASSUME IInv, [Next]_vars
  PROVE  list' \in Listing /\ ListSound'
<1>t. list \in Listing /\ ListSound /\ file \in [Ids -> File]
  BY DEF IInv, TypeOK
<1>1. CASE UNCHANGED <<file, list>>
  BY <1>t, <1>1 DEF ListSound, ListingIsWhole, Visible, Beyond
<1>2. CASE StartList
  <2>1. /\ list'.pc = "page" /\ list'.from = Visible /\ list'.touched = {} /\ list'.seen = {}
        /\ list'.again = {} /\ list'.id = 0 /\ list'.time = 0 /\ UNCHANGED file
        /\ list' = [NoList EXCEPT !.pc = "page", !.from = Visible]
    BY <1>2 DEF StartList, NoList, service
  <2>2. Visible \subseteq Ids
    BY DEF Visible
  <2>3. list' \in Listing
    <3>1. list' = [pc |-> "page", time |-> 0, id |-> 0, seen |-> {}, again |-> {},
                   from |-> Visible, touched |-> {}]
      BY ZenonT(40), <2>1 DEF NoList
    <3> QED
      BY <2>2, <3>1 DEF Listing
  <2>4. Visible' = Visible /\ \A f \in Visible : Beyond(f)'
    BY <2>1 DEF Visible, Beyond
  <2> QED
    BY <2>1, <2>2, <2>3, <2>4 DEF ListSound, ListingIsWhole
<1>3. CASE Page
  BY <1>3, PageKeeps
<1>4. ASSUME NEW a \in Attempts, Writes(a) PROVE list' \in Listing /\ ListSound'
  <2>x. PICK g \in Ids : g = a[1].file
    BY ZenonT(40), <1>4, WriteIs
  <2>1. /\ Touch(g)
        /\ file' = [file EXCEPT ![g] = [state |-> "ACTIVE", updated |-> att[a].stamp, current |-> a[1].op]]
    BY ZenonT(40), <1>4, <2>x, WriteIs
  <2>2. \A f \in Ids \ {g} : file'[f] = file[f]
    BY <1>t, <2>1
  <2> QED
    BY <2>1, <2>2, TouchKeeps
<1>5. ASSUME NEW f \in Ids, Withdraws(f) PROVE list' \in Listing /\ ListSound'
  <2>1. \A g \in Ids \ {f} : file'[g] = file[g]
    BY <1>t, <1>5 DEF Withdraws
  <2> QED
    BY <1>5, <2>1, TouchKeeps DEF Withdraws
<1> QED
  BY ZenonT(40), <1>1, <1>2, <1>3, <1>4, <1>5, StepService DEF ServiceKinds, service, Opens
-----------------------------------------------------------------------------
(* The invariant. *)

\* The remaining types.
LEMMA RestKeeps ==
  ASSUME IInv, [Next]_vars
  PROVE  /\ plan' \in Plans /\ clock' \in Nat \ {0} /\ faults' \in 0..plan'.faults
         /\ flight' \subseteq [key : Keys, body : Nat] /\ refused' \subseteq Calls
<1>t. /\ plan \in Plans /\ clock \in Nat \ {0} /\ faults \in 0..plan.faults
      /\ flight \subseteq [key : Keys, body : Nat] /\ refused \subseteq Calls
      /\ plan.faults \in Nat
  BY FileAssumption DEF IInv, TypeOK, PlanType
<1>1. UNCHANGED plan
  BY ZenonT(40) DEF Next, vars, Handle, Target, Begin, Body, Probe, Put, Recheck, Commit, Send, LatePut,
     StartList, Page, Tick, Withdraw, Crash
<1>2. UNCHANGED faults \/ (faults < plan.faults /\ faults' = faults + 1)
  BY ZenonT(40) DEF Next, vars, Handle, Target, Begin, Body, Probe, Put, Recheck, Commit, Send, LatePut,
     StartList, Page, Tick, Withdraw, Crash, Fault, Answer, Uncertain
<1>3. UNCHANGED clock \/ clock' = clock + 1
  BY ZenonT(40) DEF Next, vars, Handle, Target, Begin, Body, Probe, Put, Recheck, Commit, Send, LatePut,
     StartList, Page, Tick, Withdraw, Crash
<1>4. refused' \subseteq Calls
  <2>1. UNCHANGED refused \/ \E a \in Attempts : refused' = refused \cup {a[1]}
    BY ZenonT(40) DEF Next, vars, Handle, Target, Begin, Body, Probe, Put, Recheck, Commit, Send, LatePut,
       StartList, Page, Tick, Withdraw, Crash, Refuse, Reuse
  <2> QED
    BY <1>t, <2>1, Typed DEF IInv
<1>5. flight' \subseteq [key : Keys, body : Nat]
  <2>1. ASSUME NEW a \in Attempts, Put(a) PROVE flight' \subseteq [key : Keys, body : Nat]
    <3>1. Key(a) \in Keys /\ a[1].body \in Nat
      BY <2>1, LateFound, Typed DEF Put, Late, Place, Keys, IInv, CallType
    <3> QED
      BY <1>t, <2>1, <3>1 DEF Put
  <2>2. CASE flight' \subseteq flight
    BY <1>t, <2>2
  <2> QED
    BY ZenonT(40), <2>1, <2>2 DEF Next, vars, Handle, Target, Begin, Body, Probe, Recheck, Commit, Send, LatePut,
       StartList, Page, Tick, Withdraw, Crash
<1> QED
  BY <1>t, <1>1, <1>2, <1>3, <1>4, <1>5

\* The invariant is inductive.
LEMMA StepKeeps == IInv /\ [Next]_vars => IInv'
<1> SUFFICES ASSUME IInv, [Next]_vars PROVE IInv'
  OBVIOUS
<1>1. TypeOK'
  BY RestKeeps, RowsKeep, ObjectsKeep, StepHeard, AttKeep, SlotsKeep, ListKeep DEF TypeOK
<1> QED
  BY <1>1, RowsKeep, BytesKeep, HeardKeeps, VersionsKeep, AttKeep, SlotsKeep, ListKeep DEF IInv

\* The initial states satisfy the invariant.
LEMMA InitHolds == Init => IInv
<1> SUFFICES ASSUME Init PROVE IInv
  OBVIOUS
<1>h. (CHOOSE r \in Replicas : TRUE) \in Replicas
  BY FileAssumption
<1>p. plan \in Plans /\ plan.files \in SUBSET Ids /\ plan.faults \in Nat /\ Home \in Bindings
  BY ZenonT(40), <1>h, FileAssumption DEF Init, PlanType, Home, Bindings
<1>x. PICK old \in SUBSET Ids : old = plan.files
  BY <1>p
<1>n. \A o \in Ids : o \in Nat \ {0} /\ Past(o) \in CallType /\ Past(o).op = o /\ Past(o).key = o
                     /\ Past(o).file = o /\ Past(o).body = o
  BY FileAssumption DEF Past, CallType
<1>r. \A o \in old : [file |-> o, number |-> 1, object |-> 1] \in Result
  BY FileAssumption DEF Result
<1>1. ASSUME NEW o \in old
      PROVE  /\ ops[o] = [status |-> "COMMITTED", call |-> Past(o), bind |-> Home,
                          result |-> [file |-> o, number |-> 1, object |-> 1]]
             /\ version[o] = [number |-> 1, body |-> o, bind |-> Home, object |-> 1]
             /\ file[o] = [state |-> "ACTIVE", current |-> o, updated |-> 1]
             /\ objects[<<Home, o>>] = <<o>>
  BY <1>p, <1>x DEF Init, Keys
<1>2. ASSUME NEW o \in Ids \ old
      PROVE  ops[o] = NoOp /\ version[o] = NoVersion /\ file[o] = NoFile
  BY <1>x, <1>2 DEF Init
<1>f. ASSUME NEW o \in old
      PROVE  /\ ops[o].status = "COMMITTED" /\ ops[o].bind = Home
             /\ ops[o].call.op = o /\ ops[o].call.key = o /\ ops[o].call.file = o
             /\ ops[o].call.body = o
             /\ ops[o].result.number = 1 /\ ops[o].result.object = 1 /\ ops[o].result.file = o
  <2>1. PICK call, result : call = Past(o) /\ result = [file |-> o, number |-> 1, object |-> 1]
    OBVIOUS
  <2>2. ops[o] = [status |-> "COMMITTED", call |-> call, bind |-> Home, result |-> result]
    BY ZenonT(40), <1>1, <2>1
  <2>3. ops[o].status = "COMMITTED" /\ ops[o].call = call /\ ops[o].bind = Home
        /\ ops[o].result = result
    BY <2>2
  <2>4. call.op = o /\ call.key = o /\ call.file = o /\ call.body = o
    BY <1>n, <1>x, <2>1
  <2>5. result.number = 1 /\ result.object = 1 /\ result.file = o
    BY <2>1
  <2> QED
    BY <2>3, <2>4, <2>5
<1>g. ASSUME NEW o \in old
      PROVE  /\ version[o].number = 1 /\ version[o].body = o /\ version[o].bind = Home
             /\ version[o].object = 1 /\ version[o] # NoVersion /\ file[o].current = o
  <2>1. version[o] = [number |-> 1, body |-> o, bind |-> Home, object |-> 1]
    BY ZenonT(40), <1>1
  <2>2. version[o].number = 1 /\ version[o].body = o /\ version[o].bind = Home
        /\ version[o].object = 1
    BY <2>1
  <2>3. file[o] = [state |-> "ACTIVE", current |-> o, updated |-> 1]
    BY ZenonT(40), <1>1
  <2>4. file[o].current = o
    BY <2>3
  <2> QED
    BY <2>2, <2>4 DEF NoVersion
<1>3. ASSUME NEW k \in Keys
      PROVE  objects[k] \in Seq(Nat) /\ Len(objects[k]) <= 1
  <2>1. objects[k] = <<>> \/ (k[2] \in Nat /\ objects[k] = <<k[2]>>)
    BY ZenonT(40), <1>p, FileAssumption DEF Init, Keys
  <2>2. CASE objects[k] = <<>>
    <3>1. <<>> \in Seq(Nat) /\ Len(<<>>) = 0
      OBVIOUS
    <3> QED
      BY <2>2, <3>1
  <2>3. ASSUME NEW n \in Nat, objects[k] = <<n>>
        PROVE  objects[k] \in Seq(Nat) /\ Len(objects[k]) <= 1
    BY <2>3
  <2> QED
    BY <2>1, <2>2, <2>3
<1>4. TypeOK
  <2>1. ops \in [Ids -> OpRow \cup {NoOp}]
    <3>1. \A o \in old : [status |-> "COMMITTED", call |-> Past(o), bind |-> Home,
                          result |-> [file |-> o, number |-> 1, object |-> 1]] \in OpRow
      BY ZenonT(40), <1>p, <1>n, <1>r DEF OpRow
    <3>2. ops = [o \in Ids |-> IF o \notin old THEN NoOp ELSE
                  [status |-> "COMMITTED", call |-> Past(o), bind |-> Home,
                   result |-> [file |-> o, number |-> 1, object |-> 1]]]
      BY <1>x DEF Init
    <3> QED
      BY <3>1, <3>2
  <2>2. version \in [Ids -> Version \cup {NoVersion}]
    <3>1. \A o \in old : [number |-> 1, body |-> o, bind |-> Home, object |-> 1] \in Version
      BY <1>p, <1>n DEF Version
    <3> QED
      BY <1>x, <3>1 DEF Init
  <2>3. file \in [Ids -> File]
    <3>1. NoFile \in File /\ \A f \in old : [state |-> "ACTIVE", current |-> f, updated |-> 1] \in File
      BY DEF NoFile, File
    <3> QED
      BY <1>x, <3>1 DEF Init
  <2>4. objects \in [Keys -> Seq(Nat)]
    <3>1. DOMAIN objects = Keys /\ objects = [k \in Keys |-> objects[k]]
      BY DEF Init
    <3>2. \A k \in Keys : objects[k] \in Seq(Nat)
      BY <1>3
    <3> QED
      BY <3>1, <3>2
  <2>5. att \in [Attempts -> Attempt]
    BY IdleType DEF Init
  <2>6. list \in Listing
    BY DEF Init, NoList, Listing
  <2>7. /\ clock \in Nat \ {0} /\ faults \in 0..plan.faults /\ outbox \subseteq Ids
        /\ flight \subseteq [key : Keys, body : Nat] /\ active \in [Replicas -> Nat]
        /\ heard \in [Calls -> SUBSET Result] /\ refused \subseteq Calls
    BY <1>p DEF Init
  <2> QED
    BY <1>p, <2>1, <2>2, <2>3, <2>4, <2>5, <2>6, <2>7 DEF TypeOK
<1>5. ASSUME NEW o \in Ids PROVE RowSound(o)
  <2>1. CASE o \in old
    <3>1. version[o] \in Version /\ ops[o].result \in Result /\ o \in outbox
      BY <1>4, <1>1, <1>r, <1>x, <2>1 DEF TypeOK, NoVersion, Version, Init
    <3> QED
      BY <1>f, <1>g, <2>1, <3>1 DEF RowSound
  <2>2. CASE o \notin old
    BY <1>2, <2>2 DEF RowSound, NoOp
  <2> QED
    BY <2>1, <2>2
<1>6. KeysOnce
  <2>1. \A o \in Ids : ops[o].status # "NONE" => o \in old
    BY <1>2 DEF NoOp
  <2>2. \A o \in old : ops[o].call.key = o
    BY <1>f
  <2> QED
    BY <2>1, <2>2 DEF KeysOnce
<1>7. \A a \in Attempts : AttSound(a)
  <2>1. \A a \in Attempts : att[a].pc = "idle"
    BY DEF Init, Idle
  <2> QED
    BY <2>1 DEF AttSound, Late
<1>8. BytesStand
  <2>1. \A k \in Keys : Len(objects[k]) <= 1
    BY <1>3
  <2>2. ASSUME NEW o \in Ids, version[o] # NoVersion
        PROVE  /\ version[o].object \in DOMAIN objects[<<version[o].bind, o>>]
               /\ objects[<<version[o].bind, o>>][version[o].object] = version[o].body
               /\ version[o].body = ops[o].call.body
    <3>1. o \in old
      BY <1>2, <2>2
    <3>2. version[o].object = 1 /\ version[o].bind = Home /\ version[o].body = o
          /\ objects[<<Home, o>>] = <<o>> /\ ops[o].call.body = o
      BY ZenonT(40), <1>1, <1>f, <1>g, <3>1
    <3> QED
      BY <3>2
  <2> QED
    BY <2>1, <2>2 DEF BytesStand
<1>9. HeardIsStored
  BY DEF Init, HeardIsStored
<1>10. ASSUME NEW f \in Ids
       PROVE  LET all == VersionsOf(f) IN
              /\ {version[o].number : o \in all} = 1..Cardinality(all)
              /\ all # {} => file[f].current \in all /\ version[file[f].current].number = Cardinality(all)
  <2>1. \A o \in Ids : version[o] # NoVersion => o \in old
    BY <1>2
  <2>2. \A o \in old : ops[o].call.file = o /\ version[o].number = 1 /\ version[o] # NoVersion
                       /\ file[o].current = o
    BY <1>f, <1>g
  <2>3. CASE f \in old
    <3>1. VersionsOf(f) = {f}
      BY <2>1, <2>2, <2>3 DEF VersionsOf
    <3>2. Cardinality({f}) = 1
      BY FS_Singleton
    <3>3. {version[o].number : o \in {f}} = {1} /\ 1..1 = {1}
      BY <2>2, <2>3
    <3> QED
      BY <2>2, <2>3, <3>1, <3>2, <3>3
  <2>4. CASE f \notin old
    <3>1. VersionsOf(f) = {}
      BY <2>1, <2>2, <2>4 DEF VersionsOf
    <3>2. Cardinality({}) = 0 /\ 1..0 = {}
      BY FS_EmptySet
    <3> QED
      BY <3>1, <3>2
  <2> QED
    BY <2>3, <2>4
<1>11. SlotsBalance
  <2>1. \A a \in Attempts : att[a].pc = "idle"
    BY DEF Init, Idle
  <2>2. \A r \in Replicas : {a \in Attempts : att[a].pc # "idle" /\ att[a].at = r} = {}
    BY <2>1
  <2> QED
    BY ZenonT(40), <2>2, FS_EmptySet DEF SlotsBalance, Init
<1>12. ListSound
  BY DEF Init, NoList, ListSound, ListingIsWhole
<1> QED
  BY <1>4, <1>5, <1>6, <1>7, <1>8, <1>9, <1>10, <1>11, <1>12 DEF IInv, VersionsInOrder

\* The invariant holds in every reachable state.
LEMMA Invariance == Spec => []IInv
BY InitHolds, StepKeeps, PTL DEF Spec
-----------------------------------------------------------------------------
(* The theorems. *)

\* The model keeps its types: no step of a handler, of the store or of the listing
\* writes a row or a cursor that is not one.
THEOREM FilesTypeCorrect == Spec => []TypeOK
<1>1. IInv => TypeOK
  BY DEF IInv
<1> QED
  BY <1>1, Invariance, PTL

\* Whatever calls, replicas and bindings there are and however often puts fail, arrive
\* late or meet, a version row names an object with the bytes its operation declared,
\* and the store holds one object under a key.
THEOREM BytesAlwaysStand == Spec => []BytesStand
<1>1. IInv => BytesStand
  BY DEF IInv
<1> QED
  BY <1>1, Invariance, PTL

\* A result that a caller was given is committed, with its version and its outbox row,
\* and is the only result of the operation.
THEOREM HeardIsAlwaysStored == Spec => []HeardIsStored
<1>1. IInv => HeardIsStored
  BY DEF IInv
<1> QED
  BY <1>1, Invariance, PTL

\* However appends to a file overlap, its versions are numbered from one without gap or
\* repetition and its current version is the last.
THEOREM VersionsStayInOrder == Spec => []VersionsInOrder
<1>1. IInv => VersionsInOrder
  BY DEF IInv
<1> QED
  BY <1>1, Invariance, PTL

\* A replica counts an upload slot for each upload it runs: no way to end an upload
\* keeps its slot or gives it back twice.
THEOREM SlotsStayBalanced == Spec => []SlotsBalance
<1>1. IInv => SlotsBalance
  BY DEF IInv
<1> QED
  BY <1>1, Invariance, PTL

\* Whatever page size and however many files change meanwhile, a listing that has ended
\* shows every file that was there and did not change, once.
THEOREM ListingsAreWhole == Spec => []ListingIsWhole
<1>1. IInv => ListingIsWhole
  BY DEF IInv, ListSound
<1> QED
  BY <1>1, Invariance, PTL
=============================================================================
