----------------------------- MODULE SlotDatabase -----------------------------
(***************************************************************************)
(* One slot of a shard of the record server                                *)
(* (src/server/recordserver/src/RecordProcess.cpp): the main thread queues *)
(* requests in wlist, the slot's thread executes them against MySQL and    *)
(* queues the responses in rlist.  The thread keeps a cache of entities    *)
(* and a description of the tables, and changes the tables' columns to fit *)
(* what it is given.                                                       *)
(*                                                                         *)
(* Every statement sent to MySQL is a step of its own, so the process can  *)
(* die between two of them.  The key column `id' is left implicit: the     *)
(* clients' data carry the object's id, as Entity::SerializeToString       *)
(* writes it.                                                              *)
(***************************************************************************)
EXTENDS Integers, Sequences, Functions

CONSTANTS
  Tables, Objects, Fields,
  Data,         \* values of fields
  FromJson,     \* what an entity holds of a value in a request
  v2m,          \* the column type a value asks for
  Stored,       \* what a column of a type gives back of a value
  Unquotable,   \* strings that hold a quote
  Zero,         \* what an existing row gets in a new column of a type
  Requests,     \* the requests clients make
  DbFails,      \* whether a statement may fail, executed or not
  MaxRequests,  \* bound: requests made
  MaxQueue,     \* bound: requests waiting
  MaxCrashes    \* bound: deaths of the process

FieldTypes == {"TINY", "LONG", "LONGLONG", "FLOAT", "VAR_STRING", "BLOB", "LONG_BLOB"}

(* Functions on a subset of S.                                             *)
Partial(S, T) == UNION {[D -> T] : D \in SUBSET S}
Empty == [x \in {} |-> x]
Without(f, x) == Restrict(f, DOMAIN f \ {x})

(* f, and g where f is not defined (TLC's @@, which the prover does not    *)
(* know); f with y for x.                                                  *)
Over(f, g) == [x \in DOMAIN f \cup DOMAIN g |-> IF x \in DOMAIN f THEN f[x] ELSE g[x]]
Put(f, x, y) == [z \in DOMAIN f \cup {x} |-> IF z = x THEN y ELSE f[z]]

(* A payload that is not legal JSON may be merged in part before the error *)
(* is met.                                                                 *)
Request ==
  [kind : {"serialize"}, table : Tables, object : Objects, legal : BOOLEAN, values : Partial(Fields, Data)]
  \cup [kind : {"unserialize", "delete", "select"}, table : Tables, object : Objects]
  \cup [kind : {"alter"}, table : Tables, object : Objects, legal : BOOLEAN, field : Fields,
        option : {"ADD_KEY", "DROP_KEY", "DROP_FIELD", "other"}]

ASSUME SlotAssumption ==
  /\ v2m \in [Data -> FieldTypes]
  /\ FromJson \in [Data -> Data]
  /\ Stored \in [FieldTypes -> [Data -> Data]]
  /\ Zero \in [FieldTypes -> Data]
  /\ Requests \subseteq Request
  /\ DbFails \in BOOLEAN
  /\ {MaxRequests, MaxQueue, MaxCrashes} \subseteq Nat

VARIABLES
  wlist, rlist,  \* requests and responses
  entities,      \* the cache: the values of an object
  tables,        \* the description of the tables: the types of their fields
  db,            \* the database: the columns and rows of the existing tables
  pc,            \* "idle", "create", "fields", "insert" or "exit"
  cur,           \* the request being executed, Head of the queue before
  todo,          \* fields of the entity the loop has yet to visit
  isstop, last,  \* the main thread stops the slot; the thread's last round
  requests, crashes,
  acked,         \* what clients were last told is stored
  dropped        \* columns that DROP_FIELD removed since the process started

vars == <<wlist, rlist, entities, tables, db, pc, cur, todo, isstop, last, requests, crashes, acked, dropped>>

OK == 0
ILLEGAL_JSON_STRING == 100
NOT_FOUND_OBJECT == 101
SERIALIZE_ERROR == 103
DELETE_ERROR == 104

None == [number |-> -1]
Numbered == [number : Nat, request : Requests]

Answers == [number : Nat, kind : {"serialize", "unserialize", "delete", "alter"},
            retval : {OK, ILLEGAL_JSON_STRING, NOT_FOUND_OBJECT, SERIALIZE_ERROR, DELETE_ERROR}]

Table ==
  {t \in [columns : Partial(Fields, FieldTypes), rows : Partial(Objects, Partial(Fields, Data))] :
     \A o \in DOMAIN t.rows : DOMAIN t.rows[o] = DOMAIN t.columns}

(* The queues and where the thread is; the data it works on.               *)
QueuesOK ==
  /\ wlist \in Seq(Numbered)
  /\ rlist \in Seq(Answers)
  /\ pc \in {"idle", "create", "fields", "insert", "exit"}
  /\ cur \in Numbered \cup {None}
  /\ pc \in {"idle", "exit"} <=> cur = None
  /\ requests \in Nat

DataOK ==
  /\ entities \in Partial(Objects, Partial(Fields, Data))
  /\ tables \in Partial(Tables, Partial(Fields, FieldTypes))
  /\ db \in Partial(Tables, Table)
  /\ acked \in [Tables \X Objects -> Partial(Fields, Data)]
  /\ dropped \subseteq Tables \X Fields

TypeOK == QueuesOK /\ DataOK /\ todo \subseteq Fields

Init ==
  /\ wlist = <<>> /\ rlist = <<>>
  /\ entities = Empty /\ tables = Empty /\ db = Empty
  /\ pc = "idle" /\ cur = None /\ todo = {}
  /\ isstop = FALSE /\ last = FALSE
  /\ requests = 0 /\ crashes = 0
  /\ acked = [k \in Tables \X Objects |-> Empty]
  /\ dropped = {}
-----------------------------------------------------------------------------
(* The main thread.                                                        *)

(* Fault: the newest request is executed first.                            *)
requestInFront(r) ==
  /\ ~isstop
  /\ requests < MaxRequests
  /\ Len(wlist) < MaxQueue
  /\ wlist' = <<[number |-> requests, request |-> r]>> \o wlist
  /\ requests' = requests + 1
  /\ UNCHANGED <<rlist, entities, tables, db, pc, cur, todo, isstop, last, crashes, acked, dropped>>

request(r) ==
  /\ ~isstop
  /\ requests < MaxRequests
  /\ Len(wlist) < MaxQueue
  /\ wlist' = Append(wlist, [number |-> requests, request |-> r])
  /\ requests' = requests + 1
  /\ UNCHANGED <<rlist, entities, tables, db, pc, cur, todo, isstop, last, crashes, acked, dropped>>

(* update(slot) hands a response to the connection that asked.             *)
update ==
  /\ ~isstop
  /\ rlist # <<>>
  /\ rlist' = Tail(rlist)
  /\ UNCHANGED <<wlist, entities, tables, db, pc, cur, todo, isstop, last, requests, crashes, acked, dropped>>

stop ==
  /\ ~isstop
  /\ isstop' = TRUE
  /\ UNCHANGED <<wlist, rlist, entities, tables, db, pc, cur, todo, last, requests, crashes, acked, dropped>>
-----------------------------------------------------------------------------
(* The slot's thread.                                                      *)

Response(retval) ==
  [number |-> IF pc = "idle" THEN Head(wlist).number ELSE cur.number,
   kind   |-> IF pc = "idle" THEN Head(wlist).request.kind ELSE cur.request.kind,
   retval |-> retval]

Respond(retval) ==
  /\ rlist' = Append(rlist, Response(retval))
  /\ pc' = "idle" /\ cur' = None /\ todo' = {}

(* How a statement that MySQL could execute may end: executed or not, and  *)
(* reported as such or as failed.                                          *)
Outcomes ==
  {[done |-> TRUE, rc |-> TRUE]}
    \cup (IF DbFails THEN {[done |-> FALSE, rc |-> FALSE], [done |-> TRUE, rc |-> FALSE]} ELSE {})
Refused == {[done |-> FALSE, rc |-> FALSE]}

(* loadField adds what it finds to the description and removes nothing.    *)
(* A failure here is an assertion: the process dies (Restart).             *)
loadField(base, t) == [x \in DOMAIN tables \cup {t} |->
  IF x = t THEN Over(base[t].columns, IF t \in DOMAIN tables THEN tables[t] ELSE Empty) ELSE tables[x]]

(* operator[] of the map of tables.                                        *)
TouchTable(t) == IF t \in DOMAIN tables THEN tables ELSE Put(tables, t, Empty)

releaseEntity(o) == Without(entities, o)

(* A number of 64 bits without a sign becomes one with a sign, a double a  *)
(* float: FromJson.                                                        *)
ParseFromString(o, values) ==
  Put(entities, o, Over([f \in DOMAIN values |-> FromJson[values[f]]],
                        IF o \in DOMAIN entities THEN entities[o] ELSE Empty))

(* Fault: an entity that could not be parsed stays in the cache.           *)
ParseFailsKeeps(r) ==
  /\ entities' = ParseFromString(r.object, r.values)
  /\ Respond(ILLEGAL_JSON_STRING)

ParseFails(r) ==
  /\ entities' = releaseEntity(r.object)
  /\ Respond(ILLEGAL_JSON_STRING)

(* The loop over the values of an entity, or the INSERT after it.          *)
Loop(fields) == IF fields = {} THEN "insert" ELSE "fields"

TakeSerialize ==
  LET r == Head(wlist).request
      parsed == ParseFromString(r.object, r.values)
  IN
  /\ pc = "idle" /\ wlist # <<>> /\ r.kind = "serialize"
  /\ wlist' = Tail(wlist)
  /\ \/ /\ r.legal
        /\ entities' = parsed
        /\ cur' = Head(wlist)
        /\ todo' = DOMAIN parsed[r.object]
        /\ pc' = IF r.table \in DOMAIN tables THEN Loop(DOMAIN parsed[r.object]) ELSE "create"
        /\ UNCHANGED rlist
     \/ ~r.legal /\ ParseFails(r)
  /\ UNCHANGED <<tables, db, isstop, last, requests, crashes, acked, dropped>>

(* Fault: the entity that could not be written stays in the cache.         *)
SerializeFailsKeeps ==
  /\ Respond(SERIALIZE_ERROR)
  /\ UNCHANGED entities

(* serialize returned false.                                               *)
SerializeFails ==
  /\ entities' = releaseEntity(cur.request.object)
  /\ Respond(SERIALIZE_ERROR)

(* A table of the database replaced; a field in every row.                 *)
WithTable(t, columns, rows) == [db EXCEPT ![t] = [columns |-> columns, rows |-> rows]]
PutAll(rows, f, new) == [o \in DOMAIN rows |-> Put(rows[o], f, new[o])]

createTable(t, e) ==
  Put(db, t, [columns |-> [f \in DOMAIN e |-> v2m[e[f]]], rows |-> Empty])

CreateStep ==
  LET t == cur.request.table
      created == createTable(t, entities[cur.request.object])
  IN
  /\ pc = "create"
  /\ \E out \in IF t \in DOMAIN db THEN Refused ELSE Outcomes :
       /\ db' = IF out.done THEN created ELSE db
       /\ \/ /\ out.rc
             /\ tables' = loadField(created, t)
             /\ pc' = Loop(todo)
             /\ UNCHANGED <<rlist, entities, cur, todo>>
          \/ ~out.rc /\ SerializeFails /\ UNCHANGED tables
  /\ UNCHANGED <<wlist, isstop, last, requests, crashes, acked, dropped>>

Family(type) ==
  CASE type \in {"TINY", "LONG", "LONGLONG"} -> "integer"
    [] type = "FLOAT" -> "float"
    [] OTHER -> "string"

Rank == [TINY |-> 1, LONG |-> 2, LONGLONG |-> 3, FLOAT |-> 1, VAR_STRING |-> 1, BLOB |-> 2, LONG_BLOB |-> 3]

(* Fault: a column may also be made narrower.                               *)
m2mNarrows(from, to) == from # to

(* Whether a column is changed for a value that asks for another type:     *)
(* within a family only to a wider one.                                    *)
m2m(from, to) == IF Family(from) = Family(to) THEN Rank[from] < Rank[to] ELSE TRUE

(* A round of serialize's loop over the values of the entity (in the       *)
(* unspecified order of an unordered_map) adds or changes the column.      *)
Visited(f) ==
  /\ todo' = todo \ {f}
  /\ pc' = Loop(todo \ {f})
  /\ UNCHANGED <<rlist, entities, cur>>

addField(t, f, type) ==
  WithTable(t, Put(db[t].columns, f, type), PutAll(db[t].rows, f, [o \in DOMAIN db[t].rows |-> Zero[type]]))

AddStep(f) ==
  LET t == cur.request.table
      type == v2m[entities[cur.request.object][f]]
      valid == t \in DOMAIN db /\ f \notin DOMAIN db[t].columns
  IN
  /\ pc = "fields" /\ f \in todo /\ f \notin DOMAIN tables[t]
  /\ \E out \in IF valid THEN Outcomes ELSE Refused :
       /\ db' = IF out.done THEN addField(t, f, type) ELSE db
       /\ \/ out.rc /\ tables' = loadField(addField(t, f, type), t) /\ Visited(f)
          \/ ~out.rc /\ SerializeFails /\ UNCHANGED tables
  /\ UNCHANGED <<wlist, isstop, last, requests, crashes, acked, dropped>>

(* Within a family the column's values are stored again, and a boolean     *)
(* becomes a number.  What MySQL makes of them when the family changes is  *)
(* not known: anything of the new type.                                    *)
Converted(t, f, type) ==
  IF Family(db[t].columns[f]) = Family(type)
  THEN {[o \in DOMAIN db[t].rows |-> Stored[type][db[t].rows[o][f]]]}
  ELSE [DOMAIN db[t].rows -> {d \in Data : Family(v2m[d]) = Family(type)}]

alterField(t, f, type, new) ==
  WithTable(t, Put(db[t].columns, f, type), PutAll(db[t].rows, f, new))

AlterStep(f) ==
  LET t == cur.request.table
      type == v2m[entities[cur.request.object][f]]
      valid == t \in DOMAIN db /\ f \in DOMAIN db[t].columns
  IN
  /\ pc = "fields" /\ f \in todo /\ f \in DOMAIN tables[t]
  /\ m2m(tables[t][f], type)
  /\ \E out \in IF valid THEN Outcomes ELSE Refused :
     \E new \in IF valid THEN Converted(t, f, type) ELSE {Empty} :
       /\ db' = IF out.done THEN alterField(t, f, type, new) ELSE db
       /\ \/ out.rc /\ tables' = loadField(alterField(t, f, type, new), t) /\ Visited(f)
          \/ ~out.rc /\ SerializeFails /\ UNCHANGED tables
  /\ UNCHANGED <<wlist, isstop, last, requests, crashes, acked, dropped>>

KeepStep(f) ==
  LET t == cur.request.table IN
  /\ pc = "fields" /\ f \in todo /\ f \in DOMAIN tables[t]
  /\ ~m2m(tables[t][f], v2m[entities[cur.request.object][f]])
  /\ Visited(f)
  /\ UNCHANGED <<wlist, tables, db, isstop, last, requests, crashes, acked, dropped>>

(* The row INSERT ... ON DUPLICATE KEY UPDATE leaves.  The values are      *)
(* printed into the statement, a float with six digits, and stored in      *)
(* their columns.  A strict database refuses the statement when a column   *)
(* has no value, one of the failures of Outcomes.                          *)
Row(t, o) ==
  LET old == IF o \in DOMAIN db[t].rows THEN db[t].rows[o]
             ELSE [f \in DOMAIN db[t].columns |-> Zero[db[t].columns[f]]]
  IN Over([f \in DOMAIN entities[o] |-> Stored[db[t].columns[f]][entities[o][f]]], old)

insertRow(t, o) == WithTable(t, db[t].columns, Put(db[t].rows, o, Row(t, o)))

(* Strings are not escaped: one with a quote in it makes a statement that  *)
(* is not SQL.                                                             *)
Writable(t, e) ==
  /\ t \in DOMAIN db
  /\ DOMAIN e \subseteq DOMAIN db[t].columns
  /\ \A f \in DOMAIN e : e[f] \notin Unquotable

(* The row is written with all values of the cached entity.  Of a write    *)
(* that failed the client knows nothing.                                   *)
Insert ==
  LET t == cur.request.table
      o == cur.request.object
  IN
  /\ pc = "insert"
  /\ \E out \in IF Writable(t, entities[o]) THEN Outcomes ELSE Refused :
       /\ db' = IF out.done THEN insertRow(t, o) ELSE db
       /\ acked' = [acked EXCEPT ![<<t, o>>] =
            IF out.rc THEN Over(cur.request.values, @)
            ELSE IF out.done THEN Restrict(@, DOMAIN @ \ DOMAIN cur.request.values) ELSE @]
       /\ \/ out.rc /\ Respond(OK) /\ UNCHANGED entities
          \/ ~out.rc /\ SerializeFails
  /\ UNCHANGED <<wlist, tables, isstop, last, requests, crashes, dropped>>

(* The columns of a row that the description knows.                        *)
unserialize(t, o) ==
  LET known == TouchTable(t)[t] IN
  Restrict(db[t].rows[o], DOMAIN db[t].columns \cap DOMAIN known)

(* From the cache, or from the database; a query that fails finds nothing. *)
Unserialize ==
  LET r == Head(wlist).request
      found == r.table \in DOMAIN db /\ r.object \in DOMAIN db[r.table].rows
  IN
  /\ pc = "idle" /\ wlist # <<>> /\ r.kind = "unserialize"
  /\ wlist' = Tail(wlist)
  /\ \/ /\ r.object \in DOMAIN entities
        /\ Respond(OK)
        /\ UNCHANGED <<entities, tables>>
     \/ /\ r.object \notin DOMAIN entities /\ found
        /\ tables' = TouchTable(r.table)
        /\ entities' = Put(entities, r.object, unserialize(r.table, r.object))
        /\ Respond(OK)
     \/ /\ r.object \notin DOMAIN entities /\ (~found \/ DbFails)
        /\ tables' = TouchTable(r.table)
        /\ Respond(NOT_FOUND_OBJECT)
        /\ UNCHANGED entities
  /\ UNCHANGED <<db, isstop, last, requests, crashes, acked, dropped>>

(* The statement is not SQL ("DELETE FROM TABLE"): MySQL refuses it.       *)
removeEntity ==
  LET r == Head(wlist).request IN
  /\ pc = "idle" /\ wlist # <<>> /\ r.kind = "delete"
  /\ wlist' = Tail(wlist)
  /\ entities' = Without(entities, r.object)
  /\ Respond(DELETE_ERROR)
  /\ UNCHANGED <<tables, db, isstop, last, requests, crashes, acked, dropped>>

removeField(t, f) ==
  WithTable(t, Without(db[t].columns, f), [o \in DOMAIN db[t].rows |-> Without(db[t].rows[o], f)])

(* Only DROP_FIELD changes what is modelled, and the description and the   *)
(* cache keep the field.  Whether the statement succeeds is not looked at. *)
alterTable ==
  LET r == Head(wlist).request
      t == r.table
  IN
  /\ pc = "idle" /\ wlist # <<>> /\ r.kind = "alter"
  /\ wlist' = Tail(wlist)
  /\ tables' = IF r.legal THEN TouchTable(t) ELSE tables
  /\ \/ /\ ~(r.legal /\ r.field \in DOMAIN TouchTable(t)[t] /\ r.option # "other")
        /\ Respond(DELETE_ERROR)
        /\ UNCHANGED <<db, acked, dropped>>
     \/ /\ r.legal /\ r.field \in DOMAIN TouchTable(t)[t] /\ r.option # "other"
        /\ \/ /\ r.option = "DROP_FIELD" /\ t \in DOMAIN db
              /\ db' = removeField(t, r.field)
              /\ acked' = [k \in DOMAIN acked |-> IF k[1] = t THEN Without(acked[k], r.field) ELSE acked[k]]
              /\ dropped' = dropped \cup {<<t, r.field>>}
           \/ /\ r.option # "DROP_FIELD" \/ t \notin DOMAIN db \/ DbFails
              /\ UNCHANGED <<db, acked, dropped>>
        /\ Respond(OK)
  /\ UNCHANGED <<entities, isstop, last, requests, crashes>>

(* A select is dropped without a response.                                 *)
select ==
  /\ pc = "idle" /\ wlist # <<>> /\ Head(wlist).request.kind = "select"
  /\ wlist' = Tail(wlist)
  /\ UNCHANGED <<rlist, entities, tables, db, pc, cur, todo, isstop, last, requests, crashes, acked, dropped>>

(* Fault: the thread ends when it sees isstop.                             *)
RoundNoDrain ==
  /\ pc = "idle"
  /\ pc' = IF isstop THEN "exit" ELSE "idle"
  /\ last' = last
  /\ UNCHANGED <<wlist, rlist, entities, tables, db, cur, todo, isstop, requests, crashes, acked, dropped>>

(* synchronous() returns when the queue is empty, or when the main thread  *)
(* holds its lock; the thread looks at isstop, and makes one more round.   *)
Round ==
  /\ pc = "idle"
  /\ \/ ~last /\ isstop /\ last' = TRUE /\ UNCHANGED pc
     \/ last /\ wlist = <<>> /\ pc' = "exit" /\ UNCHANGED last
  /\ UNCHANGED <<wlist, rlist, entities, tables, db, cur, todo, isstop, requests, crashes, acked, dropped>>

synchronous ==
  \/ TakeSerialize
  \/ CreateStep
  \/ \E f \in todo : AddStep(f) \/ AlterStep(f) \/ KeepStep(f)
  \/ Insert
  \/ Unserialize
  \/ removeEntity
  \/ alterTable
  \/ select
  \/ Round

(* The process dies and is started again: init reads the tables.           *)
Restart ==
  /\ crashes < MaxCrashes
  /\ crashes' = crashes + 1
  /\ wlist' = <<>> /\ rlist' = <<>>
  /\ entities' = Empty
  /\ tables' = [t \in DOMAIN db |-> db[t].columns]
  /\ pc' = "idle" /\ cur' = None /\ todo' = {}
  /\ isstop' = FALSE /\ last' = FALSE
  /\ dropped' = {}
  /\ UNCHANGED <<db, requests, acked>>

Next ==
  \/ \E r \in Requests : request(r)
  \/ update
  \/ stop
  \/ synchronous
  \/ Restart

Spec == Init /\ [][Next]_vars

(* The thread is scheduled, and MySQL answers.                             *)
FairSpec == Spec /\ WF_vars(synchronous)
-----------------------------------------------------------------------------
(* Properties.                                                             *)

(* What the clients' data must be like for the next three: the values of a *)
(* field are of one family (MySQL converts a column that changes its       *)
(* family), and the default value of a type is of its family, fits it, is  *)
(* not of the widest type and is stored as it is.                          *)
Writes == {r \in Requests : r.kind = "serialize" /\ r.legal}

OneFamily ==
  \A r, s \in Writes : \A f \in DOMAIN r.values \cap DOMAIN s.values :
    Family(v2m[FromJson[r.values[f]]]) = Family(v2m[FromJson[s.values[f]]])

Fits(d, type) == Family(v2m[d]) = Family(type) /\ Rank[v2m[d]] <= Rank[type]

ZeroFits ==
  \A type \in FieldTypes :
    /\ Fits(Zero[type], type)
    /\ Rank[v2m[Zero[type]]] <= 2
    /\ Stored[type][Zero[type]] = Zero[type]

(* What a column gives back of a value that fits fits too, is of the       *)
(* widest type only with the value, and is stored as the value would be.   *)
(* So it is of numbers, booleans, floats and strings, but for a string     *)
(* with backslashes: MySQL takes some away each time it is written.        *)
StoredOnce ==
  \A d \in Data : \A type \in FieldTypes :
    Fits(d, type) =>
      /\ Fits(Stored[type][d], type)
      /\ \/ Rank[v2m[Stored[type][d]]] = Rank[v2m[d]]
         \/ Rank[v2m[Stored[type][d]]] <= 2 /\ Rank[v2m[d]] <= 2
      /\ \A other \in FieldTypes : Fits(d, other) => Stored[other][Stored[type][d]] = Stored[other][d]

(* An object's id is used with one table: the cache is keyed by the id.    *)
OneTable == \A r, s \in Requests : r.object = s.object => r.table = s.table

(* Between two requests, the row of a cached object holds what its columns *)
(* store of the values in the cache, and a cached field that the row does  *)
(* not have is one that DROP_FIELD took from it: serialize may merge new   *)
(* values into a cached entity and write all of it, and unserialize may    *)
(* answer from the cache.                                                  *)
CacheIsFresh ==
  pc = "idle" =>
    \A o \in DOMAIN entities :
      \E t \in DOMAIN db :
        /\ o \in DOMAIN db[t].rows
        /\ \A f \in DOMAIN entities[o] :
             IF f \in DOMAIN db[t].columns
             THEN db[t].rows[o][f] = Stored[db[t].columns[f]][entities[o][f]]
             ELSE <<t, f>> \in dropped

(* Of a value a client was told is stored the database holds what its      *)
(* column stores of it, until a later write of the field or a DROP_FIELD,  *)
(* through failed statements, failed writes of other fields, changes of    *)
(* the columns and restarts.                                               *)
AcknowledgedIsStored ==
  \A k \in DOMAIN acked :
    \A f \in DOMAIN acked[k] :
      /\ k[1] \in DOMAIN db
      /\ k[2] \in DOMAIN db[k[1]].rows
      /\ f \in DOMAIN db[k[1]].columns
      /\ db[k[1]].rows[k[2]][f] = Stored[db[k[1]].columns[f]][FromJson[acked[k][f]]]

(* A stored value fits its column, although values of several widths are   *)
(* written to it in any order.                                             *)
ColumnsFit ==
  \A t \in DOMAIN db : \A o \in DOMAIN db[t].rows : \A f \in DOMAIN db[t].columns :
    Rank[v2m[db[t].rows[o][f]]] <= Rank[db[t].columns[f]]

(* Every accepted request is executed, also when the slot is stopped while *)
(* requests wait: the thread makes a last round after it has seen isstop.  *)
Queued(n) == \E i \in 1 .. Len(wlist) : wlist[i].number = n
RequestsExecuted == \A n \in 0 .. MaxRequests - 1 : Queued(n) ~> ~Queued(n)

(* Responses are given in the order of the requests, one for each.         *)
Abstract == INSTANCE SlotQueue WITH
  pending <- (IF cur = None THEN <<>> ELSE <<cur>>) \o wlist,
  answers <- rlist,
  number <- requests
AnswersInOrder == Abstract!Spec

(* Serialize creates what it needs: a legal write of an object succeeds as *)
(* long as the database executes what it is sent.                          *)
SerializeCreates ==
  \A i \in 1 .. Len(rlist) : rlist[i].kind = "serialize" => rlist[i].retval # SERIALIZE_ERROR
=============================================================================
