--------------------------- MODULE FileManagement ---------------------------
(***************************************************************************)
(* The file-management service: uploads of new files and of new versions,  *)
(* and the listing.  An upload records its operation, then receives the    *)
(* body, puts the bytes into a versioned object store under the            *)
(* operation's own key, and commits version, current pointer, audit and    *)
(* outbox rows with the operation's result in one transaction.             *)
(*                                                                         *)
(* The caller repeats an uncertain upload under the same identity, also    *)
(* beside an attempt that is still running at another replica.  A created  *)
(* file's id and a version's id are fixed by the operation row, so both    *)
(* are named by the operation here.                                        *)
(***************************************************************************)
EXTENDS Naturals, Sequences, FiniteSets, FiniteSetsExt

CONSTANTS
  Calls,     \* uploads callers may make
  Ids,       \* operation ids, which also name files and versions
  Replicas,  \* service processes
  Bind,      \* the storage binding each replica is configured with
  Slots,     \* uploads a replica takes at a time
  PageSize,  \* files on a page of the listing
  Plans      \* the bounds of a behaviour: each starts with one of these

Bindings == {Bind[r] : r \in Replicas}

CallType == [op : Ids, key : Nat, kind : {"CREATE", "APPEND"}, file : Ids, body : Nat]

\* Uploads made, replicas up, files there at the start, faults, clock ticks, and
\* whether an operator withdraws files and somebody lists them.
PlanType == [calls : SUBSET Calls, replicas : SUBSET Replicas, files : SUBSET Ids,
             faults : Nat, ticks : Nat, withdraw : BOOLEAN, listing : BOOLEAN]

ASSUME FileAssumption ==
  /\ Ids \subseteq Nat \ {0} /\ Calls \subseteq CallType /\ IsFiniteSet(Ids) /\ IsFiniteSet(Calls)
  /\ \A c \in Calls : c.kind = "CREATE" => c.file = c.op
  /\ Replicas # {} /\ DOMAIN Bind = Replicas
  /\ Slots \in Nat \ {0} /\ PageSize \in Nat \ {0} /\ Plans \subseteq PlanType

VARIABLES
  plan,     \* the bounds chosen at the start
  clock,
  ops,      \* operation rows
  version,  \* version rows, one per operation at most
  file,     \* file rows
  outbox,   \* operations with their audit and outbox rows
  objects,  \* what the store holds under each key, oldest first
  flight,   \* puts the store may still execute, although nobody waits for them
  att,      \* the attempts of each caller
  active,   \* uploads each replica counts
  heard,    \* results callers were given
  refused,  \* callers told that their request can never succeed
  list,     \* a listing in progress
  faults

service == <<ops, version, file, outbox>>
vars == <<plan, clock, service, objects, flight, att, active, heard, refused, list, faults>>
-----------------------------------------------------------------------------
Attempts == Calls \X {1, 2}
Keys     == Bindings \X Ids
NoOp     == [status |-> "NONE"]
Result   == [file : Ids, number : Nat \ {0}, object : Nat \ {0}]
NoResult == [number |-> 0]
OpRow    == [status : {"PENDING", "COMMITTED"}, call : CallType, bind : Bindings,
             result : Result \cup {NoResult}]
Version  == [number : Nat \ {0}, body : Nat, bind : Bindings, object : Nat \ {0}]
NoVersion == [number |-> 0]
File     == [state : {"none", "ACTIVE", "WITHDRAWN"}, current : Ids \cup {0}, updated : Nat]
NoFile   == [state |-> "none", current |-> 0, updated |-> 0]
Stages   == {"idle", "target", "begin", "body", "head", "put", "recheck", "commit"}
Attempt  == [pc : Stages, at : Replicas, round : {1, 2}, object : Nat, stamp : Nat]
Idle     == [pc |-> "idle", at |-> CHOOSE r \in Replicas : TRUE, round |-> 1, object |-> 0, stamp |-> 0]
Listing  == [pc : {"idle", "page", "done"}, time : Nat, id : Nat, seen : SUBSET Ids,
             again : SUBSET Ids, from : SUBSET Ids, touched : SUBSET Ids]
NoList   == [pc |-> "idle", time |-> 0, id |-> 0, seen |-> {}, again |-> {}, from |-> {},
             touched |-> {}]

\* A file that was there before: created by the operation it is named after.
Past(f) == [op |-> f, key |-> f, kind |-> "CREATE", file |-> f, body |-> f]
Home    == Bind[CHOOSE r \in Replicas : TRUE]

Init ==
  /\ plan \in Plans
  /\ clock = 1
  /\ ops = [o \in Ids |-> IF o \notin plan.files THEN NoOp ELSE
             [status |-> "COMMITTED", call |-> Past(o), bind |-> Home,
              result |-> [file |-> o, number |-> 1, object |-> 1]]]
  /\ version = [o \in Ids |-> IF o \notin plan.files THEN NoVersion ELSE
                 [number |-> 1, body |-> o, bind |-> Home, object |-> 1]]
  /\ file = [f \in Ids |-> IF f \notin plan.files THEN NoFile ELSE
              [state |-> "ACTIVE", current |-> f, updated |-> 1]]
  /\ outbox = plan.files
  /\ objects = [k \in Keys |-> IF k[1] = Home /\ k[2] \in plan.files THEN <<k[2]>> ELSE <<>>]
  /\ flight = {}
  /\ att = [a \in Attempts |-> Idle]
  /\ active = [r \in Replicas |-> 0]
  /\ heard = [c \in Calls |-> {}]
  /\ refused = {}
  /\ list = NoList
  /\ faults = 0
-----------------------------------------------------------------------------
(* An upload: the HTTP handler with its two passes through prepareOperation. *)

Goes(a, pc) == att' = [att EXCEPT ![a].pc = pc]

\* Mutant: the slot is given back by uploads that received their body.
Release_Late(a) == active' = IF att[a].round = 2 THEN [active EXCEPT ![att[a].at] = @ - 1] ELSE active

Release(a) == active' = [active EXCEPT ![att[a].at] = @ - 1]

Ends(a) == att' = [att EXCEPT ![a] = Idle] /\ Release(a)

\* Something that may go wrong does; the caller hears that it may try again.
Fault(a) ==
  /\ faults < plan.faults /\ faults' = faults + 1
  /\ Ends(a)

\* The upload is refused for good.
Refuse(a) == Ends(a) /\ refused' = refused \cup {a[1]}

\* A result is sent; the caller may not hear it.
Answer(a, result) ==
  /\ Ends(a)
  /\ \/ heard' = [heard EXCEPT ![a[1]] = @ \cup {result}] /\ UNCHANGED faults
     \/ faults < plan.faults /\ faults' = faults + 1 /\ UNCHANGED heard

\* A caller that has no result sends the request, at a replica with a free slot.
Send(a, r) ==
  /\ a[1] \in plan.calls /\ heard[a[1]] = {} /\ a[1] \notin refused
  /\ r \in plan.replicas /\ att[a].pc = "idle" /\ active[r] < Slots
  /\ active' = [active EXCEPT ![r] = @ + 1]
  /\ att' = [att EXCEPT ![a] = [Idle EXCEPT !.pc = "target", !.at = r]]
  /\ UNCHANGED <<plan, clock, service, objects, flight, heard, refused, list, faults>>

\* A new version needs a file that is there.
Target(a) ==
  /\ att[a].pc = "target"
  /\ IF a[1].kind = "CREATE" \/ file[a[1].file].state = "ACTIVE"
     THEN Goes(a, "begin") /\ UNCHANGED <<active, refused>>
     ELSE Refuse(a)
  /\ UNCHANGED <<plan, clock, service, objects, flight, heard, list, faults>>

Digest(c) == <<c.op, c.kind, c.file, c.body>>

\* The row under the caller's idempotency key, which counts for one type of operation.
Known(c) == {o \in Ids : ops[o] # NoOp /\ ops[o].call.kind = c.kind /\ ops[o].call.key = c.key}

\* Mutant: whoever repeats the key is taken to repeat the request.
SameRequest_Any(c, row) == TRUE

SameRequest(c, row) == Digest(row.call) = Digest(c)

\* The first pass is followed by the body, the second by the store.
Onwards(a) == Goes(a, IF att[a].round = 1 THEN "body" ELSE "head") /\ UNCHANGED active

\* beginOperation and what prepareOperation makes of the row.  Another request
\* under this operation id violates the primary key.
Begin(a) ==
  LET c == a[1] IN
  /\ att[a].pc = "begin"
  /\ \/ /\ Known(c) = {} /\ ops[c.op] = NoOp
        /\ ops' = [ops EXCEPT ![c.op] = [status |-> "PENDING", call |-> c,
                     bind |-> Bind[att[a].at], result |-> NoResult]]
        /\ Onwards(a) /\ UNCHANGED <<heard, refused, faults>>
     \/ /\ Known(c) = {} /\ ops[c.op] # NoOp
        /\ Ends(a) /\ UNCHANGED <<ops, heard, refused, faults>>
     \/ \E o \in Known(c) :
          /\ UNCHANGED ops
          /\ \/ ~SameRequest(c, ops[o]) /\ Refuse(a) /\ UNCHANGED <<heard, faults>>
             \/ /\ SameRequest(c, ops[o]) /\ ops[o].bind # Bind[att[a].at]
                /\ Ends(a) /\ UNCHANGED <<heard, refused, faults>>
             \/ /\ SameRequest(c, ops[o]) /\ ops[o].bind = Bind[att[a].at]
                /\ IF ops[o].status = "COMMITTED" /\ att[a].round = 2
                   THEN Answer(a, ops[o].result)
                   ELSE Onwards(a) /\ UNCHANGED <<heard, faults>>
                /\ UNCHANGED refused
     \/ Fault(a) /\ UNCHANGED <<ops, heard, refused>>
  /\ UNCHANGED <<plan, clock, version, file, outbox, objects, flight, list>>

\* The body arrives as declared, or not in time.
Body(a) ==
  /\ att[a].pc = "body"
  /\ \/ att' = [att EXCEPT ![a].pc = "target", ![a].round = 2] /\ UNCHANGED <<active, faults>>
     \/ Fault(a)
  /\ UNCHANGED <<plan, clock, service, objects, flight, heard, refused, list>>
-----------------------------------------------------------------------------
(* putImmutable. *)

\* The operation row this attempt works for: the one under its key.
Row(a) == CHOOSE o \in Known(a[1]) : TRUE
Key(a) == <<Bind[att[a].at], Row(a)>>

\* Mutant: a key that is taken is a conflict.
Confirmed_Never(a) == FALSE

\* The stored object is the operation's and is what the caller sent.
Confirmed(a) == objects[Key(a)][Len(objects[Key(a)])] = a[1].body

Found(a) == att' = [att EXCEPT ![a].pc = "commit", ![a].stamp = clock,
                               ![a].object = Len(objects'[Key(a)])]

\* The key holds something: this upload's bytes, or a conflict.
Reuse(a) ==
  /\ objects[Key(a)] # <<>>
  /\ IF Confirmed(a) THEN Found(a) /\ UNCHANGED <<active, refused>> ELSE Refuse(a)

Probe(a) ==
  /\ att[a].pc = "head"
  /\ UNCHANGED objects
  /\ \/ objects[Key(a)] = <<>> /\ Goes(a, "put") /\ UNCHANGED <<active, refused, faults>>
     \/ Reuse(a) /\ UNCHANGED faults
     \/ Fault(a) /\ UNCHANGED refused
  /\ UNCHANGED <<plan, clock, service, flight, heard, list>>

\* Mutant: the put does not say If-None-Match.
Accepts_Always(k) == TRUE

\* The store takes the first object under a key only.
Accepts(k) == objects[k] = <<>>

Puts(k, body) == objects' = IF Accepts(k) THEN [objects EXCEPT ![k] = Append(@, body)] ELSE objects

\* The put is answered, or its answer is lost while the store may still execute it.
Put(a) ==
  LET k == Key(a) IN
  /\ att[a].pc = "put"
  /\ \/ /\ Puts(k, a[1].body)
        /\ IF Accepts(k) THEN Found(a) ELSE Goes(a, "recheck")
        /\ UNCHANGED <<flight, faults>>
     \/ /\ faults < plan.faults /\ faults' = faults + 1
        /\ flight' = flight \cup {[key |-> k, body |-> a[1].body]}
        /\ Goes(a, "recheck") /\ UNCHANGED objects
  /\ UNCHANGED <<plan, clock, service, active, heard, refused, list>>

LatePut(p) ==
  /\ p \in flight /\ flight' = flight \ {p}
  /\ Puts(p.key, p.body)
  /\ UNCHANGED <<plan, clock, service, att, active, heard, refused, list, faults>>

\* After a put that failed the key is read again; nothing there is an uncertain write.
Recheck(a) ==
  /\ att[a].pc = "recheck"
  /\ UNCHANGED objects
  /\ \/ objects[Key(a)] = <<>> /\ Ends(a) /\ UNCHANGED <<refused, faults>>
     \/ Reuse(a) /\ UNCHANGED faults
     \/ Fault(a) /\ UNCHANGED refused
  /\ UNCHANGED <<plan, clock, service, flight, heard, list>>
-----------------------------------------------------------------------------
(* commitOperation: one transaction, which locks the operation and the file. *)

VersionsOf(f) == {o \in Ids : version[o] # NoVersion /\ ops[o].call.file = f}

\* Mutant: the first version has number zero.
NextNumber_Zero(f) == Max({0} \cup {version[o].number : o \in VersionsOf(f)})

NextNumber(f) == Max({0} \cup {version[o].number : o \in VersionsOf(f)}) + 1

\* Mutant: the current pointer is set when the file is created.
Current_First(f, o) == IF file[f].current = 0 THEN o ELSE file[f].current

Current(f, o) == o

Touch(f) == list' = IF list.pc = "page" THEN [list EXCEPT !.touched = @ \cup {f}] ELSE list

Write(o, object, stamp) ==
  LET c == ops[o].call
      result == [file |-> c.file, number |-> NextNumber(c.file), object |-> object] IN
  /\ version' = [version EXCEPT ![o] = [number |-> result.number, body |-> c.body,
                                        bind |-> ops[o].bind, object |-> object]]
  /\ file' = [file EXCEPT ![c.file] = [state |-> "ACTIVE", updated |-> stamp,
                                       current |-> Current(c.file, o)]]
  /\ outbox' = outbox \cup {o}
  /\ ops' = [ops EXCEPT ![o].status = "COMMITTED", ![o].result = result]
  /\ Touch(c.file)

\* Mutant: the result is sent although the transaction was rolled back.
Uncertain_Told(a) ==
  /\ faults < plan.faults /\ faults' = faults + 1 /\ Ends(a)
  /\ heard' = [heard EXCEPT ![a[1]] = @ \cup
                {[file |-> a[1].file, number |-> NextNumber(a[1].file), object |-> att[a].object]}]

Uncertain(a) == Fault(a) /\ UNCHANGED heard

Commit(a) ==
  LET o == Row(a)
      f == ops[o].call.file IN
  /\ att[a].pc = "commit"
  /\ \/ /\ ops[o].status = "COMMITTED"
        /\ Answer(a, ops[o].result) /\ UNCHANGED <<service, list>>
     \/ /\ ops[o].status = "PENDING"
        /\ \/ ops[o].call.kind = "CREATE" /\ file[f] = NoFile
           \/ file[f].state = "ACTIVE"
        /\ Write(o, att[a].object, att[a].stamp) /\ Answer(a, ops'[o].result)
     \/ /\ ops[o].status = "PENDING" /\ file[f].state = "WITHDRAWN"
        /\ Ends(a) /\ UNCHANGED <<service, list, heard, faults>>
     \/ Uncertain(a) /\ UNCHANGED <<service, list>>
  /\ UNCHANGED <<plan, clock, objects, flight, refused>>
-----------------------------------------------------------------------------
(* The listing, newest first, page by page. *)

Visible == {f \in Ids : file[f].state = "ACTIVE" /\ file[f].current # 0}

Newer(f, g) == \/ file[f].updated > file[g].updated
               \/ file[f].updated = file[g].updated /\ f > g

\* Mutant: files of the cursor's own time are taken to have been listed.
Beyond_TimeOnly(f) == list.id = 0 \/ file[f].updated < list.time

\* Behind the cursor.
Beyond(f) == \/ list.id = 0 \/ file[f].updated < list.time
             \/ file[f].updated = list.time /\ f < list.id

StartList ==
  /\ plan.listing /\ list.pc = "idle"
  /\ list' = [NoList EXCEPT !.pc = "page", !.from = Visible]
  /\ UNCHANGED <<plan, clock, service, objects, flight, att, active, heard, refused, faults>>

Page ==
  LET rest == {f \in Visible : Beyond(f)}
      page == {f \in rest : Cardinality({g \in rest : Newer(g, f)}) < PageSize}
      last == CHOOSE f \in page : \A g \in page : g = f \/ Newer(g, f) IN
  /\ list.pc = "page"
  /\ list' = [list EXCEPT !.seen = @ \cup page, !.again = @ \cup (list.seen \cap page),
                          !.pc = IF rest = page THEN "done" ELSE "page",
                          !.time = IF rest = page THEN @ ELSE file[last].updated,
                          !.id = IF rest = page THEN @ ELSE last]
  /\ UNCHANGED <<plan, clock, service, objects, flight, att, active, heard, refused, faults>>
-----------------------------------------------------------------------------
(* An operator withdraws a file, time passes, a replica stops. *)

Withdraw(f) ==
  /\ plan.withdraw /\ file[f].state = "ACTIVE"
  /\ file' = [file EXCEPT ![f].state = "WITHDRAWN"]
  /\ Touch(f)
  /\ UNCHANGED <<plan, clock, ops, version, outbox, objects, flight, att, active, heard, refused, faults>>

Tick ==
  /\ clock <= plan.ticks /\ clock' = clock + 1
  /\ UNCHANGED <<plan, service, objects, flight, att, active, heard, refused, list, faults>>

Crash(r) ==
  /\ faults < plan.faults /\ faults' = faults + 1
  /\ att' = [a \in Attempts |-> IF att[a].at = r THEN Idle ELSE att[a]]
  /\ active' = [active EXCEPT ![r] = 0]
  /\ UNCHANGED <<plan, clock, service, objects, flight, heard, refused, list>>

Handle(a) == Target(a) \/ Begin(a) \/ Body(a) \/ Probe(a) \/ Put(a) \/ Recheck(a) \/ Commit(a)

Next ==
  \/ \E a \in Attempts : Handle(a) \/ \E r \in Replicas : Send(a, r)
  \/ \E p \in flight : LatePut(p)
  \/ StartList \/ Page \/ Tick
  \/ \E f \in Ids : Withdraw(f)
  \/ \E r \in Replicas : Crash(r)

\* A handler goes on to its end: every call it makes is answered or fails.  A caller
\* without a result repeats its request.
Fairness ==
  /\ \A a \in Attempts : WF_vars(Handle(a))
  /\ \A c \in Calls : WF_vars(\E i \in {1, 2}, r \in Replicas : Send(<<c, i>>, r))

Spec == Init /\ [][Next]_vars
LiveSpec == Spec /\ Fairness
-----------------------------------------------------------------------------
(* Properties. *)

\* Types.
TypeOK ==
  /\ plan \in Plans /\ clock \in Nat \ {0} /\ faults \in 0..plan.faults
  /\ ops \in [Ids -> OpRow \cup {NoOp}] /\ version \in [Ids -> Version \cup {NoVersion}]
  /\ file \in [Ids -> File] /\ outbox \subseteq Ids
  /\ objects \in [Keys -> Seq(Nat)] /\ flight \subseteq [key : Keys, body : Nat]
  /\ att \in [Attempts -> Attempt] /\ active \in [Replicas -> Nat]
  /\ heard \in [Calls -> SUBSET Result] /\ refused \subseteq Calls
  /\ list \in Listing

\* A version row names an object that its binding holds, with the bytes its
\* operation declared: never metadata without its original, nor another's bytes.
\* Nor does a retry silently create a second version: the store holds one object
\* under an operation's key, whatever put arrives late or beside another.
BytesStand ==
  /\ \A k \in Keys : Len(objects[k]) <= 1
  /\ \A o \in Ids : version[o] # NoVersion =>
       LET held == objects[<<version[o].bind, o>>] IN
       /\ version[o].object \in DOMAIN held
       /\ held[version[o].object] = version[o].body /\ version[o].body = ops[o].call.body

\* A caller that was given a result has its version, announced in the outbox, and
\* all results for one operation agree.
HeardIsStored ==
  \A c \in Calls : \A result \in heard[c] :
    /\ ops[c.op].status = "COMMITTED" /\ ops[c.op].result = result /\ c.op \in outbox
    /\ version[c.op].number = result.number /\ version[c.op].object = result.object
    /\ version[c.op].body = c.body /\ result.file = c.file

\* The versions of a file are numbered without gap or repetition and the current
\* one is the last, however appends overlap.
VersionsInOrder ==
  \A f \in Ids :
    LET all == VersionsOf(f) IN
    /\ {version[o].number : o \in all} = 1..Cardinality(all)
    /\ all # {} => file[f].current \in all /\ version[file[f].current].number = Cardinality(all)

\* An upload slot is held by a running upload, on every way an upload can end.
SlotsBalance ==
  \A r \in Replicas :
    active[r] = Cardinality({a \in Attempts : att[a].pc # "idle" /\ att[a].at = r})

\* Somebody who pages through the listing while versions are added sees every file
\* that was there and did not change, and sees it once.
ListingIsWhole ==
  list.pc = "done" => LET calm == list.from \ list.touched IN
                      calm \subseteq list.seen /\ calm \cap list.again = {}

\* Every request that is its key's and its operation's own has its result in the
\* end once the faults have stopped, unless its file is withdrawn, as long as all
\* replicas use the storage the operation began with.
Settled(c) ==
  \/ heard[c] # {}
  \/ \E d \in plan.calls \ {c} : d.key = c.key \/ d.op = c.op
  \/ c.kind = "APPEND" /\ file[c.file].state # "ACTIVE"
  \/ Cardinality({Bind[r] : r \in plan.replicas}) > 1

RetrySettles == <>(\A c \in plan.calls : Settled(c))
=============================================================================
