-------------------------- MODULE SlotDatabaseProofs --------------------------
(***************************************************************************)
(* Proofs about one slot of the record server: it implements the queue     *)
(* that SlotQueue describes, and for clients whose fields keep one family  *)
(* of types, and whose values a second writing would not change, the rows  *)
(* hold what the cache has and what was acknowledged, as their columns     *)
(* store it, and a stored value fits its column.                           *)
(***************************************************************************)
EXTENDS SlotDatabase, TLAPS

-----------------------------------------------------------------------------
(* Partial functions.                                                      *)

(* What it means to be a function on a subset of S.                        *)
LEMMA PartialFacts ==
  ASSUME NEW S, NEW T, NEW g, g \in Partial(S, T)
  PROVE  DOMAIN g \subseteq S /\ (\A x \in DOMAIN g : g[x] \in T) /\ g \in [DOMAIN g -> T]
BY DEF Partial

(* A function on a subset of S.                                            *)
LEMMA PartialMade ==
  ASSUME NEW S, NEW T, NEW D, D \subseteq S, NEW g \in [D -> T]
  PROVE  g \in Partial(S, T)
BY DEF Partial

(* The empty function is one.                                              *)
LEMMA EmptyPartial ==
  ASSUME NEW S, NEW T
  PROVE  Empty \in Partial(S, T) /\ DOMAIN Empty = {}
<1>1. Empty \in [{} -> T] /\ DOMAIN Empty = {}
  BY DEF Empty
<1> QED
  BY <1>1, PartialMade

(* Over keeps the type.                                                    *)
LEMMA OverType ==
  ASSUME NEW S, NEW T, NEW f \in Partial(S, T), NEW g \in Partial(S, T)
  PROVE  Over(f, g) \in Partial(S, T)
<1>1. f \in [DOMAIN f -> T] /\ g \in [DOMAIN g -> T] /\ DOMAIN f \subseteq S /\ DOMAIN g \subseteq S
  BY PartialFacts
<1>2. Over(f, g) \in [DOMAIN f \cup DOMAIN g -> T]
  BY <1>1 DEF Over
<1> QED
  BY <1>1, <1>2, PartialMade

(* Put keeps the type.                                                     *)
LEMMA PutType ==
  ASSUME NEW S, NEW T, NEW f \in Partial(S, T), NEW x \in S, NEW y \in T
  PROVE  Put(f, x, y) \in Partial(S, T)
<1>1. f \in [DOMAIN f -> T] /\ DOMAIN f \subseteq S
  BY PartialFacts
<1>2. Put(f, x, y) \in [DOMAIN f \cup {x} -> T]
  BY <1>1 DEF Put
<1> QED
  BY <1>1, <1>2, PartialMade

(* A restriction keeps the type.                                           *)
LEMMA RestrictType ==
  ASSUME NEW S, NEW T, NEW f \in Partial(S, T), NEW D, D \subseteq DOMAIN f
  PROVE  Restrict(f, D) \in Partial(S, T)
<1>1. f \in [DOMAIN f -> T] /\ DOMAIN f \subseteq S
  BY PartialFacts
<1>2. Restrict(f, D) \in [D -> T]
  BY <1>1 DEF Restrict
<1> QED
  BY <1>1, <1>2, PartialMade

(* So does leaving out an argument.                                        *)
LEMMA WithoutType ==
  ASSUME NEW S, NEW T, NEW f \in Partial(S, T), NEW x
  PROVE  Without(f, x) \in Partial(S, T)
<1>1. DOMAIN f \ {x} \subseteq DOMAIN f
  OBVIOUS
<1> QED
  BY <1>1, RestrictType DEF Without
-----------------------------------------------------------------------------
(* Requests.                                                               *)

(* The parts of a request.                                                 *)
LEMMA RequestFacts ==
  ASSUME NEW r \in Requests
  PROVE  /\ r.table \in Tables /\ r.object \in Objects
         /\ r.kind \in {"serialize", "unserialize", "delete", "select", "alter"}
         /\ r.kind = "serialize" => r.values \in Partial(Fields, Data) /\ r.legal \in BOOLEAN
         /\ r.kind = "alter" => r.field \in Fields /\ r.legal \in BOOLEAN
<1>1. r \in Request
  BY SlotAssumption
<1>2. CASE r \in [kind : {"serialize"}, table : Tables, object : Objects, legal : BOOLEAN, values : Partial(Fields, Data)]
  BY <1>2
<1>3. CASE r \in [kind : {"unserialize", "delete", "select"}, table : Tables, object : Objects]
  BY <1>3
<1>4. CASE r \in [kind : {"alter"}, table : Tables, object : Objects, legal : BOOLEAN, field : Fields,
                  option : {"ADD_KEY", "DROP_KEY", "DROP_FIELD", "other"}]
  BY <1>4
<1> QED
  BY <1>1, <1>2, <1>3, <1>4 DEF Request

LEMMA NumberedFacts ==
  ASSUME NEW q \in Numbered
  PROVE  q # None /\ q.number \in Nat /\ q.request \in Requests
<1>1. q.number \in Nat /\ q.request \in Requests
  BY DEF Numbered
<1>2. None.number = -1
  BY DEF None
<1> QED
  BY <1>1, <1>2

(* A queue that is not empty has a head and a tail.                        *)
LEMMA HeadTail ==
  ASSUME NEW S, NEW q \in Seq(S), q # <<>>
  PROVE  Head(q) \in S /\ Tail(q) \in Seq(S) /\ q = <<Head(q)>> \o Tail(q)
OBVIOUS
-----------------------------------------------------------------------------
(* The database after a statement: its type, and what has changed.         *)

Databases == Partial(Tables, Table)

(* A table of the database.                                                *)
LEMMA TableFacts ==
  ASSUME NEW D \in Databases, NEW t \in DOMAIN D
  PROVE  /\ t \in Tables
         /\ D[t] \in Table
         /\ D[t].columns \in Partial(Fields, FieldTypes)
         /\ D[t].rows \in Partial(Objects, Partial(Fields, Data))
         /\ DOMAIN D[t].columns \subseteq Fields
         /\ \A f \in DOMAIN D[t].columns : D[t].columns[f] \in FieldTypes
         /\ DOMAIN D[t].rows \subseteq Objects
         /\ \A o \in DOMAIN D[t].rows :
              /\ D[t].rows[o] \in Partial(Fields, Data)
              /\ DOMAIN D[t].rows[o] = DOMAIN D[t].columns
              /\ \A f \in DOMAIN D[t].columns : D[t].rows[o][f] \in Data
<1>1. t \in Tables /\ D[t] \in Table
  BY PartialFacts DEF Databases
<1>2. /\ D[t].columns \in Partial(Fields, FieldTypes)
      /\ D[t].rows \in Partial(Objects, Partial(Fields, Data))
      /\ \A o \in DOMAIN D[t].rows : DOMAIN D[t].rows[o] = DOMAIN D[t].columns
  BY <1>1 DEF Table
<1>3. DOMAIN D[t].columns \subseteq Fields /\ \A f \in DOMAIN D[t].columns : D[t].columns[f] \in FieldTypes
  BY <1>2, PartialFacts
<1>4. DOMAIN D[t].rows \subseteq Objects /\ \A o \in DOMAIN D[t].rows : D[t].rows[o] \in Partial(Fields, Data)
  BY <1>2, PartialFacts
<1>5. \A o \in DOMAIN D[t].rows : \A f \in DOMAIN D[t].columns : D[t].rows[o][f] \in Data
  BY <1>2, <1>4, PartialFacts
<1> QED
  BY <1>1, <1>2, <1>3, <1>4, <1>5

(* Replacing a table keeps the type.                                       *)
LEMMA Replaced ==
  ASSUME DataOK, NEW t \in DOMAIN db,
         NEW c \in Partial(Fields, FieldTypes), NEW w \in Partial(Objects, Partial(Fields, Data)),
         \A o \in DOMAIN w : DOMAIN w[o] = DOMAIN c
  PROVE  /\ WithTable(t, c, w) \in Databases
         /\ DOMAIN WithTable(t, c, w) = DOMAIN db
<1>1. db \in [DOMAIN db -> Table] /\ DOMAIN db \subseteq Tables
  BY PartialFacts DEF DataOK
<1>2. [columns |-> c, rows |-> w] \in Table
  BY DEF Table
<1>3. WithTable(t, c, w) \in [DOMAIN db -> Table]
  BY <1>1, <1>2 DEF WithTable
<1> QED
  BY <1>1, <1>3, PartialMade DEF Databases

(* What it leaves.                                                         *)
LEMMA ReplacedAt ==
  ASSUME DataOK, NEW t \in DOMAIN db, NEW c, NEW w
  PROVE  /\ WithTable(t, c, w)[t].columns = c
         /\ WithTable(t, c, w)[t].rows = w
         /\ \A x \in DOMAIN db : x # t => WithTable(t, c, w)[x] = db[x]
<1>1. db \in [DOMAIN db -> Table]
  BY PartialFacts DEF DataOK
<1>2. WithTable(t, c, w)[t] = [columns |-> c, rows |-> w] /\ \A x \in DOMAIN db : x # t => WithTable(t, c, w)[x] = db[x]
  BY <1>1 DEF WithTable
<1> QED
  BY <1>2

(* D is the database with a new table t for the entity e.                  *)
IsCreated(D, t, e) ==
  /\ D \in Databases
  /\ DOMAIN D = DOMAIN db \cup {t}
  /\ \A x \in DOMAIN db : x # t => D[x] = db[x]
  /\ DOMAIN D[t].rows = {}
  /\ DOMAIN D[t].columns = DOMAIN e
  /\ \A f \in DOMAIN e : D[t].columns[f] = v2m[e[f]]

(* A new table.                                                            *)
LEMMA Created ==
  ASSUME DataOK, NEW t \in Tables, NEW e \in Partial(Fields, Data), NEW D, D = createTable(t, e)
  PROVE  IsCreated(D, t, e)
<1> DEFINE c == [f \in DOMAIN e |-> v2m[e[f]]]
<1>1. DOMAIN e \subseteq Fields /\ \A f \in DOMAIN e : e[f] \in Data
  BY PartialFacts
<1>2. c \in [DOMAIN e -> FieldTypes] /\ DOMAIN c = DOMAIN e /\ \A f \in DOMAIN e : c[f] = v2m[e[f]]
  BY <1>1, SlotAssumption
<1>3. D = Put(db, t, [columns |-> c, rows |-> Empty])
  BY DEF createTable
<1> HIDE DEF c
<1>4. c \in Partial(Fields, FieldTypes)
  BY <1>1, <1>2, PartialMade
<1>5. Empty \in Partial(Objects, Partial(Fields, Data)) /\ DOMAIN Empty = {}
  BY EmptyPartial
<1>6. [columns |-> c, rows |-> Empty] \in Table
  BY <1>4, <1>5 DEF Table
<1>7. db \in Partial(Tables, Table)
  BY DEF DataOK
<1>8. D \in Databases /\ DOMAIN D = DOMAIN db \cup {t}
  BY <1>3, <1>6, <1>7, PutType DEF Databases, Put
<1>9. D[t] = [columns |-> c, rows |-> Empty] /\ \A x \in DOMAIN db : x # t => D[x] = db[x]
  BY <1>3 DEF Put
<1> QED
  BY <1>2, <1>5, <1>8, <1>9 DEF IsCreated

(* A field in every row of a table.                                        *)
LEMMA PutAllFacts ==
  ASSUME NEW w \in Partial(Objects, Partial(Fields, Data)), NEW f \in Fields,
         NEW new, \A o \in DOMAIN w : new[o] \in Data
  PROVE  /\ PutAll(w, f, new) \in Partial(Objects, Partial(Fields, Data))
         /\ DOMAIN PutAll(w, f, new) = DOMAIN w
         /\ \A o \in DOMAIN w : DOMAIN PutAll(w, f, new)[o] = DOMAIN w[o] \cup {f}
<1>1. DOMAIN w \subseteq Objects /\ \A o \in DOMAIN w : w[o] \in Partial(Fields, Data)
  BY PartialFacts
<1>2. \A o \in DOMAIN w : Put(w[o], f, new[o]) \in Partial(Fields, Data) /\ DOMAIN Put(w[o], f, new[o]) = DOMAIN w[o] \cup {f}
  BY <1>1, PutType DEF Put
<1>3. PutAll(w, f, new) \in [DOMAIN w -> Partial(Fields, Data)]
  BY <1>2 DEF PutAll
<1>4. \A o \in DOMAIN w : PutAll(w, f, new)[o] = Put(w[o], f, new[o])
  BY DEF PutAll
<1> QED
  BY <1>1, <1>2, <1>3, <1>4, PartialMade

(* A column with values of its own in every row: addField and alterField.  *)
LEMMA PutColumn ==
  ASSUME DataOK, NEW t \in DOMAIN db, NEW f \in Fields, NEW type \in FieldTypes,
         NEW new, \A o \in DOMAIN db[t].rows : new[o] \in Data,
         NEW D, D = WithTable(t, Put(db[t].columns, f, type), PutAll(db[t].rows, f, new))
  PROVE  /\ D \in Databases
         /\ DOMAIN D = DOMAIN db
         /\ \A x \in DOMAIN db : x # t => D[x] = db[x]
         /\ DOMAIN D[t].columns = DOMAIN db[t].columns \cup {f}
         /\ D[t].columns[f] = type
         /\ \A g \in DOMAIN db[t].columns : g # f => D[t].columns[g] = db[t].columns[g]
         /\ DOMAIN D[t].rows = DOMAIN db[t].rows
         /\ \A o \in DOMAIN db[t].rows :
              /\ D[t].rows[o][f] = new[o]
              /\ \A g \in DOMAIN db[t].columns : g # f => D[t].rows[o][g] = db[t].rows[o][g]
<1>1. PICK c, w : c = Put(db[t].columns, f, type) /\ w = PutAll(db[t].rows, f, new)
  OBVIOUS
<1>2. /\ db[t].columns \in Partial(Fields, FieldTypes)
      /\ db[t].rows \in Partial(Objects, Partial(Fields, Data))
      /\ \A o \in DOMAIN db[t].rows : DOMAIN db[t].rows[o] = DOMAIN db[t].columns
  BY TableFacts DEF DataOK, Databases
<1>3. c \in Partial(Fields, FieldTypes) /\ DOMAIN c = DOMAIN db[t].columns \cup {f}
  BY <1>1, <1>2, PutType DEF Put
<1>4. c[f] = type /\ \A g \in DOMAIN db[t].columns : g # f => c[g] = db[t].columns[g]
  BY <1>1 DEF Put
<1>5. /\ w \in Partial(Objects, Partial(Fields, Data))
      /\ DOMAIN w = DOMAIN db[t].rows
      /\ \A o \in DOMAIN db[t].rows : DOMAIN w[o] = DOMAIN db[t].columns \cup {f}
  BY <1>1, <1>2, PutAllFacts
<1>6. \A o \in DOMAIN db[t].rows : w[o] = Put(db[t].rows[o], f, new[o])
  BY <1>1 DEF PutAll
<1>7. \A o \in DOMAIN db[t].rows : /\ w[o][f] = new[o]
                                   /\ \A g \in DOMAIN db[t].columns : g # f => w[o][g] = db[t].rows[o][g]
  BY <1>2, <1>6 DEF Put
<1>8. D = WithTable(t, c, w)
  BY <1>1
<1>9. \A o \in DOMAIN w : DOMAIN w[o] = DOMAIN c
  BY <1>3, <1>5
<1>10. D \in Databases /\ DOMAIN D = DOMAIN db
  BY <1>3, <1>5, <1>8, <1>9, Replaced
<1>11. D[t].columns = c /\ D[t].rows = w /\ \A x \in DOMAIN db : x # t => D[x] = db[x]
  BY <1>8, ReplacedAt
<1> QED
  BY <1>3, <1>4, <1>5, <1>7, <1>10, <1>11

(* D is the database with a new column f.                                  *)
IsAdded(D, t, f, type) ==
  /\ D \in Databases
  /\ DOMAIN D = DOMAIN db
  /\ \A x \in DOMAIN db : x # t => D[x] = db[x]
  /\ DOMAIN D[t].columns = DOMAIN db[t].columns \cup {f}
  /\ D[t].columns[f] = type
  /\ \A g \in DOMAIN db[t].columns : g # f => D[t].columns[g] = db[t].columns[g]
  /\ DOMAIN D[t].rows = DOMAIN db[t].rows
  /\ \A o \in DOMAIN db[t].rows :
       /\ D[t].rows[o][f] = Zero[type]
       /\ \A g \in DOMAIN db[t].columns : g # f => D[t].rows[o][g] = db[t].rows[o][g]

(* addField adds it.                                                       *)
LEMMA Added ==
  ASSUME DataOK, NEW t \in DOMAIN db, NEW f \in Fields, NEW type \in FieldTypes, NEW D, D = addField(t, f, type)
  PROVE  IsAdded(D, t, f, type)
<1>1. PICK new : new = [o \in DOMAIN db[t].rows |-> Zero[type]]
  OBVIOUS
<1>2. \A o \in DOMAIN db[t].rows : new[o] \in Data /\ new[o] = Zero[type]
  BY <1>1, SlotAssumption
<1>3. D = WithTable(t, Put(db[t].columns, f, type), PutAll(db[t].rows, f, new))
  BY <1>1 DEF addField
<1>4. /\ D \in Databases
      /\ DOMAIN D = DOMAIN db
      /\ \A x \in DOMAIN db : x # t => D[x] = db[x]
      /\ DOMAIN D[t].columns = DOMAIN db[t].columns \cup {f}
      /\ D[t].columns[f] = type
      /\ \A g \in DOMAIN db[t].columns : g # f => D[t].columns[g] = db[t].columns[g]
      /\ DOMAIN D[t].rows = DOMAIN db[t].rows
      /\ \A o \in DOMAIN db[t].rows :
           /\ D[t].rows[o][f] = new[o]
           /\ \A g \in DOMAIN db[t].columns : g # f => D[t].rows[o][g] = db[t].rows[o][g]
  BY ONLY <1>2, <1>3, DataOK, t \in DOMAIN db, f \in Fields, type \in FieldTypes, PutColumn
<1> QED
  BY <1>2, <1>4 DEF IsAdded

(* D is the database after column f of t has got another type.             *)
IsAltered(D, t, f, type) ==
  /\ D \in Databases
  /\ DOMAIN D = DOMAIN db
  /\ \A x \in DOMAIN db : x # t => D[x] = db[x]
  /\ DOMAIN D[t].columns = DOMAIN db[t].columns
  /\ D[t].columns[f] = type
  /\ \A g \in DOMAIN db[t].columns : g # f => D[t].columns[g] = db[t].columns[g]
  /\ DOMAIN D[t].rows = DOMAIN db[t].rows
  /\ \A o \in DOMAIN db[t].rows :
       /\ \A g \in DOMAIN db[t].columns : g # f => D[t].rows[o][g] = db[t].rows[o][g]
       /\ Family(db[t].columns[f]) = Family(type) => D[t].rows[o][f] = Stored[type][db[t].rows[o][f]]

(* alterField changes it.                                                  *)
LEMMA Altered ==
  ASSUME DataOK, NEW t \in DOMAIN db, NEW f \in DOMAIN db[t].columns, NEW type \in FieldTypes,
         NEW new \in Converted(t, f, type), NEW D, D = alterField(t, f, type, new)
  PROVE  IsAltered(D, t, f, type)
<1>1. /\ f \in Fields
      /\ \A o \in DOMAIN db[t].rows : db[t].rows[o][f] \in Data
  BY TableFacts DEF DataOK, Databases
<1>2. \A o \in DOMAIN db[t].rows : new[o] \in Data
  <2>1. CASE Family(db[t].columns[f]) = Family(type)
    BY <1>1, <2>1, SlotAssumption DEF Converted
  <2>2. CASE Family(db[t].columns[f]) # Family(type)
    BY <2>2 DEF Converted
  <2> QED
    BY <2>1, <2>2
<1>3. Family(db[t].columns[f]) = Family(type) => \A o \in DOMAIN db[t].rows : new[o] = Stored[type][db[t].rows[o][f]]
  BY DEF Converted
<1>4. D = WithTable(t, Put(db[t].columns, f, type), PutAll(db[t].rows, f, new))
  BY DEF alterField
<1>5. /\ D \in Databases
      /\ DOMAIN D = DOMAIN db
      /\ \A x \in DOMAIN db : x # t => D[x] = db[x]
      /\ DOMAIN D[t].columns = DOMAIN db[t].columns \cup {f}
      /\ D[t].columns[f] = type
      /\ \A g \in DOMAIN db[t].columns : g # f => D[t].columns[g] = db[t].columns[g]
      /\ DOMAIN D[t].rows = DOMAIN db[t].rows
      /\ \A o \in DOMAIN db[t].rows :
           /\ D[t].rows[o][f] = new[o]
           /\ \A g \in DOMAIN db[t].columns : g # f => D[t].rows[o][g] = db[t].rows[o][g]
  BY <1>1, <1>2, <1>4, PutColumn
<1>6. DOMAIN db[t].columns \cup {f} = DOMAIN db[t].columns
  OBVIOUS
<1> QED
  BY <1>3, <1>5, <1>6 DEF IsAltered

(* D is the database without column f of t.                                *)
IsRemoved(D, t, f) ==
  /\ D \in Databases
  /\ DOMAIN D = DOMAIN db
  /\ \A x \in DOMAIN db : x # t => D[x] = db[x]
  /\ DOMAIN D[t].columns = DOMAIN db[t].columns \ {f}
  /\ \A g \in DOMAIN D[t].columns : D[t].columns[g] = db[t].columns[g]
  /\ DOMAIN D[t].rows = DOMAIN db[t].rows
  /\ \A o \in DOMAIN db[t].rows : \A g \in DOMAIN D[t].columns : D[t].rows[o][g] = db[t].rows[o][g]

(* removeField drops it.                                                   *)
LEMMA Removed ==
  ASSUME DataOK, NEW t \in DOMAIN db, NEW f, NEW D, D = removeField(t, f)
  PROVE  IsRemoved(D, t, f)
<1>1. PICK c, w : c = Without(db[t].columns, f) /\ w = [o \in DOMAIN db[t].rows |-> Without(db[t].rows[o], f)]
  OBVIOUS
<1>2. /\ db[t].columns \in Partial(Fields, FieldTypes)
      /\ DOMAIN db[t].rows \subseteq Objects
      /\ \A o \in DOMAIN db[t].rows : db[t].rows[o] \in Partial(Fields, Data)
      /\ \A o \in DOMAIN db[t].rows : DOMAIN db[t].rows[o] = DOMAIN db[t].columns
  BY TableFacts DEF DataOK, Databases
<1>3. c \in Partial(Fields, FieldTypes) /\ DOMAIN c = DOMAIN db[t].columns \ {f}
  BY <1>1, <1>2, WithoutType DEF Without, Restrict
<1>4. \A g \in DOMAIN c : c[g] = db[t].columns[g]
  BY <1>1, <1>3 DEF Without, Restrict
<1>5. \A o \in DOMAIN db[t].rows : /\ Without(db[t].rows[o], f) \in Partial(Fields, Data)
                                   /\ DOMAIN Without(db[t].rows[o], f) = DOMAIN db[t].columns \ {f}
  BY <1>2, WithoutType DEF Without, Restrict
<1>6. DOMAIN w = DOMAIN db[t].rows /\ \A o \in DOMAIN db[t].rows : w[o] = Without(db[t].rows[o], f)
  BY <1>1
<1>7. w \in [DOMAIN db[t].rows -> Partial(Fields, Data)]
  BY <1>1, <1>5
<1>8. w \in Partial(Objects, Partial(Fields, Data))
  BY <1>2, <1>7, PartialMade
<1>9. \A o \in DOMAIN db[t].rows : \A g \in DOMAIN c : w[o][g] = db[t].rows[o][g]
  BY <1>2, <1>3, <1>6 DEF Without, Restrict
<1>10. D = WithTable(t, c, w)
  BY <1>1 DEF removeField
<1>11. \A o \in DOMAIN w : DOMAIN w[o] = DOMAIN c
  BY <1>3, <1>5, <1>6
<1>12. D \in Databases /\ DOMAIN D = DOMAIN db
  BY <1>3, <1>8, <1>10, <1>11, Replaced
<1>13. D[t].columns = c /\ D[t].rows = w /\ \A x \in DOMAIN db : x # t => D[x] = db[x]
  BY <1>10, ReplacedAt
<1> QED
  BY <1>3, <1>4, <1>6, <1>9, <1>12, <1>13 DEF IsRemoved

(* D is the database after the row of o has been written.                  *)
IsInserted(D, t, o) ==
  /\ D \in Databases
  /\ DOMAIN D = DOMAIN db
  /\ \A x \in DOMAIN db : x # t => D[x] = db[x]
  /\ D[t].columns = db[t].columns
  /\ DOMAIN D[t].rows = DOMAIN db[t].rows \cup {o}
  /\ \A p \in DOMAIN db[t].rows : p # o => D[t].rows[p] = db[t].rows[p]
  /\ \A g \in DOMAIN entities[o] : D[t].rows[o][g] = Stored[db[t].columns[g]][entities[o][g]]
  /\ \A g \in DOMAIN db[t].columns :
       g \notin DOMAIN entities[o] =>
         D[t].rows[o][g] = IF o \in DOMAIN db[t].rows THEN db[t].rows[o][g] ELSE Zero[db[t].columns[g]]

(* The row of an entity: its values, and the old ones or defaults.         *)
LEMMA Inserted ==
  ASSUME DataOK, NEW t \in DOMAIN db, NEW o \in DOMAIN entities,
         DOMAIN entities[o] \subseteq DOMAIN db[t].columns, NEW D, D = insertRow(t, o)
  PROVE  IsInserted(D, t, o)
<1>1. PICK new, old, row, w :
        /\ new = [f \in DOMAIN entities[o] |-> Stored[db[t].columns[f]][entities[o][f]]]
        /\ old = IF o \in DOMAIN db[t].rows THEN db[t].rows[o]
                 ELSE [f \in DOMAIN db[t].columns |-> Zero[db[t].columns[f]]]
        /\ row = Over(new, old)
        /\ w = Put(db[t].rows, o, row)
  OBVIOUS
<1>2. /\ db[t].columns \in Partial(Fields, FieldTypes)
      /\ DOMAIN db[t].columns \subseteq Fields
      /\ \A f \in DOMAIN db[t].columns : db[t].columns[f] \in FieldTypes
      /\ db[t].rows \in Partial(Objects, Partial(Fields, Data))
      /\ \A p \in DOMAIN db[t].rows : db[t].rows[p] \in Partial(Fields, Data) /\ DOMAIN db[t].rows[p] = DOMAIN db[t].columns
  BY TableFacts DEF DataOK, Databases
<1>3. o \in Objects /\ entities[o] \in Partial(Fields, Data)
  BY PartialFacts DEF DataOK
<1>4. old \in Partial(Fields, Data) /\ DOMAIN old = DOMAIN db[t].columns
  <2>1. CASE o \in DOMAIN db[t].rows
    BY <1>1, <1>2, <2>1
  <2>2. CASE o \notin DOMAIN db[t].rows
    <3>1. old = [f \in DOMAIN db[t].columns |-> Zero[db[t].columns[f]]]
      BY <1>1, <2>2
    <3>2. old \in [DOMAIN db[t].columns -> Data]
      BY <1>2, <3>1, SlotAssumption
    <3> QED
      BY <1>2, <3>2, PartialMade
  <2> QED
    BY <2>1, <2>2
<1>5. \A g \in DOMAIN db[t].columns :
        old[g] = IF o \in DOMAIN db[t].rows THEN db[t].rows[o][g] ELSE Zero[db[t].columns[g]]
  BY <1>1
<1>14. new \in Partial(Fields, Data) /\ DOMAIN new = DOMAIN entities[o]
  <2>1. \A f \in DOMAIN entities[o] : db[t].columns[f] \in FieldTypes /\ entities[o][f] \in Data
    BY <1>2, <1>3, PartialFacts
  <2>2. new \in [DOMAIN entities[o] -> Data]
    BY <1>1, <2>1, SlotAssumption
  <2>3. DOMAIN entities[o] \subseteq Fields
    BY <1>3, PartialFacts
  <2> QED
    BY <2>2, <2>3, PartialMade
<1>6. row \in Partial(Fields, Data) /\ DOMAIN row = DOMAIN db[t].columns
  BY <1>1, <1>4, <1>14, OverType DEF Over
<1>7. /\ \A g \in DOMAIN entities[o] : row[g] = Stored[db[t].columns[g]][entities[o][g]]
      /\ \A g \in DOMAIN db[t].columns : g \notin DOMAIN entities[o] => row[g] = old[g]
  BY <1>1, <1>4, <1>14 DEF Over
<1>8. w \in Partial(Objects, Partial(Fields, Data)) /\ DOMAIN w = DOMAIN db[t].rows \cup {o}
  BY <1>1, <1>2, <1>3, <1>6, PutType DEF Put
<1>9. w[o] = row /\ \A p \in DOMAIN db[t].rows : p # o => w[p] = db[t].rows[p]
  BY <1>1 DEF Put
<1>10. D = WithTable(t, db[t].columns, w)
  BY <1>1 DEF insertRow, Row
<1>11. \A p \in DOMAIN w : DOMAIN w[p] = DOMAIN db[t].columns
  BY <1>2, <1>6, <1>8, <1>9
<1>12. D \in Databases /\ DOMAIN D = DOMAIN db
  BY <1>2, <1>8, <1>10, <1>11, Replaced
<1>13. D[t].columns = db[t].columns /\ D[t].rows = w /\ \A x \in DOMAIN db : x # t => D[x] = db[x]
  BY <1>10, ReplacedAt
<1> QED
  BY <1>5, <1>7, <1>8, <1>9, <1>12, <1>13 DEF IsInserted

(* T is the description after the columns of t in D were read.             *)
IsLoaded(T, D, t) ==
  /\ T \in Partial(Tables, Partial(Fields, FieldTypes))
  /\ DOMAIN T = DOMAIN tables \cup {t}
  /\ \A x \in DOMAIN tables : x # t => T[x] = tables[x]
  /\ \A f \in DOMAIN D[t].columns : f \in DOMAIN T[t] /\ T[t][f] = D[t].columns[f]
  /\ t \in DOMAIN tables => /\ DOMAIN T[t] = DOMAIN D[t].columns \cup DOMAIN tables[t]
                            /\ \A f \in DOMAIN tables[t] :
                                 f \notin DOMAIN D[t].columns => T[t][f] = tables[t][f]
  /\ t \notin DOMAIN tables => DOMAIN T[t] = DOMAIN D[t].columns

(* The description after loadField, which reads the columns of a database. *)
LEMMA Loaded ==
  ASSUME DataOK, NEW D \in Databases, NEW t \in DOMAIN D, NEW T, T = loadField(D, t)
  PROVE  IsLoaded(T, D, t)
<1>1. PICK old, c : /\ old = IF t \in DOMAIN tables THEN tables[t] ELSE Empty
                    /\ c = Over(D[t].columns, old)
  OBVIOUS
<1>2. /\ DOMAIN tables \subseteq Tables
      /\ \A x \in DOMAIN tables : tables[x] \in Partial(Fields, FieldTypes)
  BY PartialFacts DEF DataOK
<1>3. t \in Tables /\ D[t].columns \in Partial(Fields, FieldTypes)
  BY TableFacts
<1>4. old \in Partial(Fields, FieldTypes)
  BY <1>1, <1>2, EmptyPartial
<1>5. t \notin DOMAIN tables => DOMAIN old = {}
  BY <1>1, EmptyPartial
<1>6. t \in DOMAIN tables => old = tables[t]
  BY <1>1
<1>7. T = [x \in DOMAIN tables \cup {t} |-> IF x = t THEN c ELSE tables[x]]
  BY <1>1 DEF loadField
<1>8. c \in Partial(Fields, FieldTypes) /\ DOMAIN c = DOMAIN D[t].columns \cup DOMAIN old
  BY <1>1, <1>3, <1>4, OverType DEF Over
<1>9. /\ \A f \in DOMAIN D[t].columns : c[f] = D[t].columns[f]
      /\ \A f \in DOMAIN old : f \notin DOMAIN D[t].columns => c[f] = old[f]
  BY <1>1 DEF Over
<1>10. T \in [DOMAIN tables \cup {t} -> Partial(Fields, FieldTypes)]
  BY <1>2, <1>7, <1>8
<1>11. T \in Partial(Tables, Partial(Fields, FieldTypes))
  BY <1>2, <1>3, <1>10, PartialMade
<1>12. T[t] = c /\ \A x \in DOMAIN tables : x # t => T[x] = tables[x]
  BY <1>7
<1> QED
  BY <1>5, <1>6, <1>8, <1>9, <1>10, <1>11, <1>12 DEF IsLoaded

(* T is the description with an entry for t.                               *)
IsTouched(T, t) ==
  /\ T \in Partial(Tables, Partial(Fields, FieldTypes))
  /\ DOMAIN T = DOMAIN tables \cup {t}
  /\ \A x \in DOMAIN tables : T[x] = tables[x]
  /\ t \notin DOMAIN tables => DOMAIN T[t] = {}

(* The description with an entry for a table.                              *)
LEMMA Touched ==
  ASSUME DataOK, NEW t \in Tables, NEW T, T = TouchTable(t)
  PROVE  IsTouched(T, t)
<1>1. tables \in Partial(Tables, Partial(Fields, FieldTypes))
  BY DEF DataOK
<1>2. Empty \in Partial(Fields, FieldTypes) /\ DOMAIN Empty = {}
  BY EmptyPartial
<1>3. CASE t \in DOMAIN tables
  BY <1>1, <1>3 DEF TouchTable, IsTouched
<1>4. CASE t \notin DOMAIN tables
  <2>1. T = Put(tables, t, Empty)
    BY <1>4 DEF TouchTable
  <2>2. T \in Partial(Tables, Partial(Fields, FieldTypes)) /\ DOMAIN T = DOMAIN tables \cup {t}
    BY <1>1, <1>2, <2>1, PutType DEF Put
  <2>3. T[t] = Empty /\ \A x \in DOMAIN tables : x # t => T[x] = tables[x]
    BY <2>1 DEF Put
  <2> QED
    BY <1>2, <1>4, <2>2, <2>3 DEF IsTouched
<1> QED
  BY <1>3, <1>4
-----------------------------------------------------------------------------
(* Types, and where the thread is in serialize.                            *)

Busy == {"create", "fields", "insert"}

(* While a request is executed it is a legal write, its entity is cached,  *)
(* the fields to visit are the entity's, and the table is described once   *)
(* it has been created.                                                    *)
Working ==
  pc \in Busy =>
    /\ cur.request \in Writes
    /\ cur.request.object \in DOMAIN entities
    /\ todo \subseteq DOMAIN entities[cur.request.object]
    /\ pc = "create" <=> cur.request.table \notin DOMAIN tables
    /\ pc = "insert" => todo = {}

SlotTypes == TypeOK /\ Working

Codes == {OK, ILLEGAL_JSON_STRING, NOT_FOUND_OBJECT, SERIALIZE_ERROR, DELETE_ERROR}

(* The request at the head of the queue.                                   *)
LEMMA FirstRequest ==
  ASSUME SlotTypes, wlist # <<>>
  PROVE  /\ Head(wlist) \in Numbered /\ Tail(wlist) \in Seq(Numbered)
         /\ Head(wlist).request \in Requests /\ Head(wlist).number \in Nat /\ Head(wlist) # None
<1>1. Head(wlist) \in Numbered /\ Tail(wlist) \in Seq(Numbered)
  BY HeadTail DEF SlotTypes, TypeOK, QueuesOK
<1> QED
  BY <1>1, NumberedFacts

(* The request being executed and its entity.                              *)
LEMMA CurrentRequest ==
  ASSUME SlotTypes, pc \in Busy
  PROVE  /\ cur \in Numbered /\ cur # None /\ cur.number \in Nat
         /\ cur.request \in Requests /\ cur.request.kind = "serialize"
         /\ cur.request.table \in Tables /\ cur.request.object \in Objects
         /\ cur.request.values \in Partial(Fields, Data)
         /\ cur.request.object \in DOMAIN entities
         /\ entities[cur.request.object] \in Partial(Fields, Data)
         /\ DOMAIN entities[cur.request.object] \subseteq Fields
         /\ \A f \in DOMAIN entities[cur.request.object] :
              /\ entities[cur.request.object][f] \in Data
              /\ v2m[entities[cur.request.object][f]] \in FieldTypes
         /\ todo \subseteq DOMAIN entities[cur.request.object]
<1>1. cur \in Numbered /\ cur # None
  BY DEF SlotTypes, TypeOK, QueuesOK, Busy
<1>2. cur.number \in Nat /\ cur.request \in Requests
  BY <1>1, NumberedFacts
<1>3. /\ cur.request.kind = "serialize"
      /\ cur.request.object \in DOMAIN entities
      /\ todo \subseteq DOMAIN entities[cur.request.object]
  BY DEF SlotTypes, Working, Writes
<1>4. /\ cur.request.table \in Tables /\ cur.request.object \in Objects
      /\ cur.request.values \in Partial(Fields, Data)
  BY <1>2, <1>3, RequestFacts
<1>5. entities[cur.request.object] \in Partial(Fields, Data)
  BY <1>3, PartialFacts DEF SlotTypes, TypeOK, DataOK
<1>6. /\ DOMAIN entities[cur.request.object] \subseteq Fields
      /\ \A f \in DOMAIN entities[cur.request.object] : entities[cur.request.object][f] \in Data
  BY <1>5, PartialFacts
<1>7. \A f \in DOMAIN entities[cur.request.object] : v2m[entities[cur.request.object][f]] \in FieldTypes
  BY <1>6, SlotAssumption
<1> QED
  BY <1>1, <1>2, <1>3, <1>4, <1>5, <1>6, <1>7

(* A response: the thread is idle again.                                   *)
LEMMA Responded ==
  ASSUME SlotTypes, NEW retval \in Codes, Respond(retval),
         \/ pc = "idle" /\ wlist # <<>> /\ Head(wlist).request.kind # "select"
         \/ pc \in Busy
  PROVE  rlist' \in Seq(Answers) /\ pc' = "idle" /\ cur' = None /\ todo' = {} /\ Working'
<1>1. Response(retval) \in Answers
  <2>1. CASE pc = "idle"
    <3>1. Head(wlist).request \in Requests /\ Head(wlist).number \in Nat
      BY <2>1, FirstRequest DEF Busy
    <3>2. Head(wlist).request.kind \in {"serialize", "unserialize", "delete", "alter"}
      BY <2>1, <3>1, RequestFacts DEF Busy
    <3>3. Response(retval) = [number |-> Head(wlist).number, kind |-> Head(wlist).request.kind, retval |-> retval]
      BY <2>1 DEF Response
    <3> QED
      BY <3>1, <3>2, <3>3 DEF Answers, Codes
  <2>2. CASE pc \in Busy
    <3>1. cur.number \in Nat /\ cur.request.kind = "serialize"
      BY <2>2, CurrentRequest
    <3>2. Response(retval) = [number |-> cur.number, kind |-> cur.request.kind, retval |-> retval]
      BY <2>2 DEF Response, Busy
    <3> QED
      BY <3>1, <3>2 DEF Answers, Codes
  <2> QED
    BY <2>1, <2>2
<1>2. rlist \in Seq(Answers)
  BY DEF SlotTypes, TypeOK, QueuesOK
<1>3. rlist' \in Seq(Answers)
  BY <1>1, <1>2 DEF Respond
<1> QED
  BY <1>3 DEF Respond, Working, Busy

(* A write that failed.                                                    *)
LEMMA SerializeFailsTypes ==
  ASSUME SlotTypes, pc \in Busy, SerializeFails
  PROVE  /\ rlist' \in Seq(Answers) /\ pc' = "idle" /\ cur' = None /\ todo' = {} /\ Working'
         /\ entities' \in Partial(Objects, Partial(Fields, Data))
<1>1. rlist' \in Seq(Answers) /\ pc' = "idle" /\ cur' = None /\ todo' = {} /\ Working'
  BY Responded DEF SerializeFails, Codes
<1>2. entities' \in Partial(Objects, Partial(Fields, Data))
  BY WithoutType DEF SerializeFails, releaseEntity, SlotTypes, TypeOK, DataOK
<1> QED
  BY <1>1, <1>2

(* E is the cache after values were merged into the entity of o.           *)
IsParsed(E, o, values) ==
  /\ E \in Partial(Objects, Partial(Fields, Data))
  /\ DOMAIN E = DOMAIN entities \cup {o}
  /\ \A p \in DOMAIN entities : p # o => E[p] = entities[p]
  /\ \A f \in DOMAIN values : f \in DOMAIN E[o] /\ E[o][f] = FromJson[values[f]]
  /\ \A f \in DOMAIN E[o] : f \notin DOMAIN values =>
       o \in DOMAIN entities /\ f \in DOMAIN entities[o] /\ E[o][f] = entities[o][f]

(* A value merged into the cache.                                          *)
LEMMA Parsed ==
  ASSUME DataOK, NEW o \in Objects, NEW values \in Partial(Fields, Data), NEW E, E = ParseFromString(o, values)
  PROVE  IsParsed(E, o, values)
<1>1. PICK read, old, e : /\ read = [f \in DOMAIN values |-> FromJson[values[f]]]
                          /\ old = IF o \in DOMAIN entities THEN entities[o] ELSE Empty
                          /\ e = Over(read, old)
  OBVIOUS
<1>2. /\ entities \in Partial(Objects, Partial(Fields, Data))
      /\ \A p \in DOMAIN entities : entities[p] \in Partial(Fields, Data)
  BY PartialFacts DEF DataOK
<1>3. Empty \in Partial(Fields, Data) /\ DOMAIN Empty = {}
  BY EmptyPartial
<1>4. old \in Partial(Fields, Data) /\ (o \notin DOMAIN entities => DOMAIN old = {}) /\ (o \in DOMAIN entities => old = entities[o])
  BY <1>1, <1>2, <1>3
<1>10. read \in Partial(Fields, Data) /\ DOMAIN read = DOMAIN values
  <2>1. DOMAIN values \subseteq Fields /\ \A f \in DOMAIN values : values[f] \in Data
    BY PartialFacts
  <2>2. read \in [DOMAIN values -> Data]
    BY <1>1, <2>1, SlotAssumption
  <2> QED
    BY <2>1, <2>2, PartialMade
<1>5. e \in Partial(Fields, Data) /\ DOMAIN e = DOMAIN values \cup DOMAIN old
  BY <1>1, <1>4, <1>10, OverType DEF Over
<1>6. /\ \A f \in DOMAIN values : e[f] = FromJson[values[f]]
      /\ \A f \in DOMAIN old : f \notin DOMAIN values => e[f] = old[f]
  BY <1>1, <1>10 DEF Over
<1>7. E = Put(entities, o, e)
  BY <1>1 DEF ParseFromString
<1>8. E \in Partial(Objects, Partial(Fields, Data)) /\ DOMAIN E = DOMAIN entities \cup {o}
  BY <1>2, <1>5, <1>7, PutType DEF Put
<1>9. E[o] = e /\ \A p \in DOMAIN entities : p # o => E[p] = entities[p]
  BY <1>7 DEF Put
<1> QED
  BY <1>4, <1>5, <1>6, <1>8, <1>9 DEF IsParsed

(* A statement that is reported as executed was executed; one that MySQL   *)
(* refuses was not, and is reported so.                                    *)
LEMMA OutcomeFacts ==
  ASSUME NEW valid \in BOOLEAN, NEW out \in IF valid THEN Outcomes ELSE Refused
  PROVE  /\ out.done \in BOOLEAN /\ out.rc \in BOOLEAN
         /\ out.rc => out.done
         /\ out.done => valid
<1>1. \/ out = [done |-> FALSE, rc |-> FALSE]
      \/ valid /\ out = [done |-> TRUE, rc |-> FALSE]
      \/ valid /\ out = [done |-> TRUE, rc |-> TRUE]
  BY Zenon DEF Outcomes, Refused
<1>2. CASE out = [done |-> FALSE, rc |-> FALSE]
  BY <1>2
<1>3. CASE valid /\ out = [done |-> TRUE, rc |-> FALSE]
  BY <1>3
<1>4. CASE valid /\ out = [done |-> TRUE, rc |-> TRUE]
  BY <1>4
<1> QED
  BY <1>1, <1>2, <1>3, <1>4

LEMMA LoopFacts ==
  ASSUME NEW fields
  PROVE  Loop(fields) \in {"fields", "insert"} /\ (Loop(fields) = "insert" => fields = {})
BY DEF Loop

(* The main thread's steps and the thread's end keep the types.            *)
LEMMA QuietTypes ==
  ASSUME SlotTypes, UNCHANGED <<entities, tables, db, cur, todo, acked, dropped>>
  PROVE  /\ DataOK' /\ todo' \subseteq Fields /\ cur' \in Numbered \cup {None}
         /\ pc' = pc => Working'
BY DEF SlotTypes, TypeOK, QueuesOK, DataOK, Working

LEMMA MainThreadTypes ==
  ASSUME SlotTypes, (\E r \in Requests : request(r)) \/ update \/ stop \/ Round
  PROVE  SlotTypes'
<1>1. ASSUME NEW r \in Requests, request(r) PROVE SlotTypes'
  <2>1. [number |-> requests, request |-> r] \in Numbered
    BY DEF SlotTypes, TypeOK, QueuesOK, Numbered
  <2>2. wlist' \in Seq(Numbered) /\ requests' \in Nat
    BY <1>1, <2>1 DEF request, SlotTypes, TypeOK, QueuesOK
  <2> QED
    BY <1>1, <2>2, QuietTypes DEF request, SlotTypes, TypeOK, QueuesOK
<1>2. ASSUME update PROVE SlotTypes'
  <2>1. rlist' \in Seq(Answers)
    BY <1>2, HeadTail DEF update, SlotTypes, TypeOK, QueuesOK
  <2> QED
    BY <1>2, <2>1, QuietTypes DEF update, SlotTypes, TypeOK, QueuesOK
<1>3. ASSUME stop PROVE SlotTypes'
  BY <1>3, QuietTypes DEF stop, SlotTypes, TypeOK, QueuesOK
<1>4. ASSUME Round PROVE SlotTypes'
  <2>1. pc' \in {"idle", "exit"} /\ cur = None
    BY <1>4 DEF Round, SlotTypes, TypeOK, QueuesOK
  <2>2. Working'
    BY <2>1 DEF Working, Busy
  <2> QED
    BY <1>4, <2>1, <2>2, QuietTypes DEF Round, SlotTypes, TypeOK, QueuesOK
<1> QED
  BY <1>1, <1>2, <1>3, <1>4

(* A write is taken off the queue.                                         *)
LEMMA TakeSerializeTypes ==
  ASSUME SlotTypes, TakeSerialize
  PROVE  SlotTypes'
<1>1. PICK r : r = Head(wlist).request
  OBVIOUS
<1>2. /\ pc = "idle" /\ wlist # <<>> /\ r.kind = "serialize" /\ wlist' = Tail(wlist)
      /\ UNCHANGED <<tables, db, isstop, last, requests, crashes, acked, dropped>>
  BY <1>1 DEF TakeSerialize
<1>3. /\ Head(wlist) \in Numbered /\ wlist' \in Seq(Numbered) /\ Head(wlist) # None
      /\ r \in Requests
  BY <1>1, <1>2, FirstRequest
<1>4. r.object \in Objects /\ r.values \in Partial(Fields, Data) /\ r.legal \in BOOLEAN
  BY <1>2, <1>3, RequestFacts
<1>5. CASE r.legal
  <2>1. PICK E : E = ParseFromString(r.object, r.values)
    OBVIOUS
  <2>2. /\ entities' = E
        /\ cur' = Head(wlist)
        /\ todo' = DOMAIN E[r.object]
        /\ pc' = IF r.table \in DOMAIN tables THEN Loop(DOMAIN E[r.object]) ELSE "create"
        /\ rlist' = rlist
    BY <1>1, <1>5, <2>1 DEF TakeSerialize
  <2>3. IsParsed(E, r.object, r.values)
    BY <1>4, <2>1, Parsed DEF SlotTypes, TypeOK
  <2>4. E \in Partial(Objects, Partial(Fields, Data)) /\ r.object \in DOMAIN E
    BY <2>3 DEF IsParsed
  <2>5. todo' \subseteq Fields
    BY <2>2, <2>4, PartialFacts
  <2>6. Loop(DOMAIN E[r.object]) \in {"fields", "insert"} /\ (Loop(DOMAIN E[r.object]) = "insert" => todo' = {})
    BY <2>2, LoopFacts
  <2>7. cur'.request = r /\ cur' # None /\ cur' \in Numbered
    BY <1>1, <1>3, <2>2
  <2>8. QueuesOK'
    BY <1>2, <1>3, <2>2, <2>6, <2>7 DEF SlotTypes, TypeOK, QueuesOK
  <2>9. DataOK'
    BY <1>2, <2>2, <2>4 DEF SlotTypes, TypeOK, DataOK
  <2>10. Working'
    <3>1. r \in Writes
      BY <1>2, <1>3, <1>5 DEF Writes
    <3>2. pc' = "create" <=> r.table \notin DOMAIN tables
      BY <2>2, <2>6
    <3>3. pc' = "insert" => todo' = {}
      BY <2>2, <2>6
    <3> QED
      BY <1>2, <2>2, <2>4, <2>7, <3>1, <3>2, <3>3 DEF Working
  <2> QED
    BY <2>5, <2>8, <2>9, <2>10 DEF SlotTypes, TypeOK
<1>6. CASE ~r.legal
  <2>1. entities' = Without(entities, r.object) /\ Respond(ILLEGAL_JSON_STRING)
    BY <1>1, <1>6 DEF TakeSerialize, ParseFails, releaseEntity
  <2>2. rlist' \in Seq(Answers) /\ pc' = "idle" /\ cur' = None /\ todo' = {} /\ Working'
    BY <1>1, <1>2, <2>1, Responded DEF Codes
  <2>3. entities' \in Partial(Objects, Partial(Fields, Data))
    BY <2>1, WithoutType DEF SlotTypes, TypeOK, DataOK
  <2> QED
    BY <1>2, <1>3, <2>2, <2>3 DEF SlotTypes, TypeOK, QueuesOK, DataOK
<1> QED
  BY <1>4, <1>5, <1>6

(* The table is created, and described, or the write fails.                *)
LEMMA CreateTypes ==
  ASSUME SlotTypes, CreateStep
  PROVE  SlotTypes'
<1>1. PICK t, D : t = cur.request.table /\ D = createTable(t, entities[cur.request.object])
  OBVIOUS
<1>2. pc = "create" /\ UNCHANGED <<wlist, isstop, last, requests, crashes, acked, dropped>>
  BY DEF CreateStep
<1>3. PICK out \in IF t \notin DOMAIN db THEN Outcomes ELSE Refused :
        /\ db' = IF out.done THEN D ELSE db
        /\ \/ /\ out.rc
              /\ tables' = loadField(D, t)
              /\ pc' = Loop(todo)
              /\ UNCHANGED <<rlist, entities, cur, todo>>
           \/ ~out.rc /\ SerializeFails /\ UNCHANGED tables
  BY <1>1 DEF CreateStep
<1>4. out.done \in BOOLEAN /\ out.rc \in BOOLEAN /\ (out.rc => out.done)
  BY <1>3, OutcomeFacts
<1>5. pc \in Busy
  BY <1>2 DEF Busy
<1>6. t \in Tables /\ entities[cur.request.object] \in Partial(Fields, Data)
  BY <1>1, <1>5, CurrentRequest
<1>7. D \in Databases /\ t \in DOMAIN D
  <2>1. IsCreated(D, t, entities[cur.request.object])
    BY <1>1, <1>6, Created DEF SlotTypes, TypeOK
  <2> QED
    BY <2>1 DEF IsCreated
<1>8. db' \in Databases
  BY <1>3, <1>4, <1>7 DEF SlotTypes, TypeOK, DataOK, Databases
<1>9. CASE out.rc
  <2>1. tables' \in Partial(Tables, Partial(Fields, FieldTypes)) /\ t \in DOMAIN tables'
    <3>1. IsLoaded(tables', D, t)
      BY <1>3, <1>7, <1>9, Loaded DEF SlotTypes, TypeOK
    <3> QED
      BY <3>1 DEF IsLoaded
  <2>2. pc' \in {"fields", "insert"} /\ (pc' = "insert" => todo' = {}) /\ UNCHANGED <<rlist, entities, cur, todo>>
    BY <1>3, <1>9, LoopFacts
  <2>3. QueuesOK'
    BY <1>2, <2>2 DEF SlotTypes, TypeOK, QueuesOK
  <2>4. DataOK'
    BY <1>2, <1>8, <2>1, <2>2 DEF SlotTypes, TypeOK, DataOK, Databases
  <2>5. Working'
    BY <1>1, <1>5, <2>1, <2>2 DEF SlotTypes, Working
  <2> QED
    BY <2>2, <2>3, <2>4, <2>5 DEF SlotTypes, TypeOK
<1>10. CASE ~out.rc
  <2>1. SerializeFails /\ UNCHANGED tables
    BY <1>3, <1>10
  <2> QED
    BY <1>2, <1>5, <1>8, <2>1, SerializeFailsTypes DEF SlotTypes, TypeOK, QueuesOK, DataOK, Databases
<1> QED
  BY <1>4, <1>9, <1>10

(* A round of the loop over the fields.                                    *)
LEMMA VisitedTypes ==
  ASSUME SlotTypes, NEW f, pc = "fields", Visited(f), UNCHANGED <<wlist, requests, acked, dropped>>,
         db' \in Databases,
         tables' \in Partial(Tables, Partial(Fields, FieldTypes)), DOMAIN tables' = DOMAIN tables
  PROVE  SlotTypes'
<1>1. pc' \in {"fields", "insert"} /\ (pc' = "insert" => todo' = {})
  BY LoopFacts DEF Visited
<1>2. todo' \subseteq todo /\ UNCHANGED <<rlist, entities, cur>>
  BY DEF Visited
<1>3. QueuesOK'
  BY <1>1, <1>2 DEF SlotTypes, TypeOK, QueuesOK
<1>4. DataOK'
  BY <1>2 DEF SlotTypes, TypeOK, DataOK, Databases
<1>5. Working'
  BY <1>1, <1>2 DEF SlotTypes, Working, Busy
<1> QED
  BY <1>2, <1>3, <1>4, <1>5 DEF SlotTypes, TypeOK

(* A write that fails after a statement that may have been executed.       *)
LEMMA FailureTypes ==
  ASSUME SlotTypes, pc \in Busy, SerializeFails, UNCHANGED <<wlist, requests, tables, dropped>>,
         db' \in Databases, acked' \in [Tables \X Objects -> Partial(Fields, Data)]
  PROVE  SlotTypes'
BY SerializeFailsTypes DEF SlotTypes, TypeOK, QueuesOK, DataOK, Databases

(* What a visited field is about.                                          *)
LEMMA FieldFacts ==
  ASSUME SlotTypes, pc = "fields", NEW f \in todo
  PROVE  /\ f \in Fields /\ cur.request.table \in DOMAIN tables
         /\ f \in DOMAIN entities[cur.request.object]
         /\ v2m[entities[cur.request.object][f]] \in FieldTypes
<1>1. pc \in Busy
  BY DEF Busy
<1>2. cur.request.table \in DOMAIN tables
  BY <1>1 DEF SlotTypes, Working
<1> QED
  BY <1>1, <1>2, CurrentRequest

(* How AddStep ends: a new column, described, or a failure after a         *)
(* statement that was executed or not.                                     *)
LEMMA AddCases ==
  ASSUME SlotTypes, NEW f \in todo, AddStep(f), NEW t, t = cur.request.table
  PROVE  /\ pc = "fields" /\ f \notin DOMAIN tables[t]
         /\ UNCHANGED <<wlist, isstop, last, requests, crashes, acked, dropped>>
         /\ \/ db' = db
            \/ /\ t \in DOMAIN db /\ f \notin DOMAIN db[t].columns
               /\ IsAdded(db', t, f, v2m[entities[cur.request.object][f]])
         /\ \/ SerializeFails /\ UNCHANGED tables
            \/ /\ Visited(f)
               /\ t \in DOMAIN db /\ f \notin DOMAIN db[t].columns
               /\ IsAdded(db', t, f, v2m[entities[cur.request.object][f]])
               /\ IsLoaded(tables', db', t)
<1>1. PICK type, D : type = v2m[entities[cur.request.object][f]] /\ D = addField(t, f, type)
  OBVIOUS
<1>2. PICK valid \in BOOLEAN : valid = (t \in DOMAIN db /\ f \notin DOMAIN db[t].columns)
  OBVIOUS
<1>3. pc = "fields" /\ f \notin DOMAIN tables[t] /\ UNCHANGED <<wlist, isstop, last, requests, crashes, acked, dropped>>
  BY DEF AddStep
<1>4. PICK out \in IF valid THEN Outcomes ELSE Refused :
        /\ db' = IF out.done THEN D ELSE db
        /\ \/ out.rc /\ tables' = loadField(D, t) /\ Visited(f)
           \/ ~out.rc /\ SerializeFails /\ UNCHANGED tables
  BY <1>1, <1>2 DEF AddStep
<1>5. out.done \in BOOLEAN /\ out.rc \in BOOLEAN /\ (out.rc => out.done) /\ (out.done => valid)
  BY <1>4, OutcomeFacts
<1>6. f \in Fields /\ type \in FieldTypes
  BY <1>1, <1>3, FieldFacts
<1>7. out.done => IsAdded(D, t, f, type)
  BY <1>1, <1>2, <1>5, <1>6, Added DEF SlotTypes, TypeOK
<1>8. out.done => D \in Databases /\ t \in DOMAIN D
  BY <1>2, <1>5, <1>7 DEF IsAdded
<1>9. out.rc => IsLoaded(loadField(D, t), D, t)
  BY <1>5, <1>8, Loaded DEF SlotTypes, TypeOK
<1> QED
  BY <1>1, <1>2, <1>3, <1>4, <1>5, <1>7, <1>9

LEMMA AddTypes ==
  ASSUME SlotTypes, NEW f \in todo, AddStep(f)
  PROVE  SlotTypes'
<1>1. PICK t, type : t = cur.request.table /\ type = v2m[entities[cur.request.object][f]]
  OBVIOUS
<1>2. /\ pc = "fields" /\ UNCHANGED <<wlist, requests, acked, dropped>>
      /\ db' = db \/ IsAdded(db', t, f, type)
      /\ \/ SerializeFails /\ UNCHANGED tables
         \/ Visited(f) /\ t \in DOMAIN db /\ IsAdded(db', t, f, type) /\ IsLoaded(tables', db', t)
  BY <1>1, AddCases
<1>3. db' \in Databases
  BY <1>2 DEF IsAdded, SlotTypes, TypeOK, DataOK, Databases
<1>4. t \in DOMAIN tables
  BY <1>1, <1>2, FieldFacts
<1>5. CASE SerializeFails /\ UNCHANGED tables
  BY <1>2, <1>3, <1>5, FailureTypes DEF Busy, SlotTypes, TypeOK, DataOK
<1>6. CASE Visited(f) /\ IsLoaded(tables', db', t)
  <2>1. tables' \in Partial(Tables, Partial(Fields, FieldTypes)) /\ DOMAIN tables' = DOMAIN tables
    BY <1>4, <1>6 DEF IsLoaded
  <2> QED
    BY <1>2, <1>3, <1>6, <2>1, VisitedTypes
<1> QED
  BY <1>2, <1>5, <1>6

(* How AlterStep ends: another type for the column, described, or a        *)
(* failure after a statement that was executed or not.                     *)
LEMMA AlterCases ==
  ASSUME SlotTypes, NEW f \in todo, AlterStep(f), NEW t, t = cur.request.table
  PROVE  /\ pc = "fields" /\ f \in DOMAIN tables[t]
         /\ m2m(tables[t][f], v2m[entities[cur.request.object][f]])
         /\ UNCHANGED <<wlist, isstop, last, requests, crashes, acked, dropped>>
         /\ \/ db' = db
            \/ /\ t \in DOMAIN db /\ f \in DOMAIN db[t].columns
               /\ IsAltered(db', t, f, v2m[entities[cur.request.object][f]])
         /\ \/ SerializeFails /\ UNCHANGED tables
            \/ /\ Visited(f)
               /\ t \in DOMAIN db /\ f \in DOMAIN db[t].columns
               /\ IsAltered(db', t, f, v2m[entities[cur.request.object][f]])
               /\ IsLoaded(tables', db', t)
<1>1. PICK type : type = v2m[entities[cur.request.object][f]]
  OBVIOUS
<1>2. PICK valid \in BOOLEAN : valid = (t \in DOMAIN db /\ f \in DOMAIN db[t].columns)
  OBVIOUS
<1>3. /\ pc = "fields" /\ f \in DOMAIN tables[t] /\ m2m(tables[t][f], type)
      /\ UNCHANGED <<wlist, isstop, last, requests, crashes, acked, dropped>>
  BY <1>1 DEF AlterStep
<1>4. PICK out \in IF valid THEN Outcomes ELSE Refused, new \in IF valid THEN Converted(t, f, type) ELSE {Empty} :
        /\ db' = IF out.done THEN alterField(t, f, type, new) ELSE db
        /\ \/ out.rc /\ tables' = loadField(alterField(t, f, type, new), t) /\ Visited(f)
           \/ ~out.rc /\ SerializeFails /\ UNCHANGED tables
  BY <1>1, <1>2 DEF AlterStep
<1>5. PICK D : D = alterField(t, f, type, new)
  OBVIOUS
<1>6. out.done \in BOOLEAN /\ out.rc \in BOOLEAN /\ (out.rc => out.done) /\ (out.done => valid)
  BY <1>4, OutcomeFacts
<1>7. type \in FieldTypes
  BY <1>1, <1>3, FieldFacts
<1>8. out.done => IsAltered(D, t, f, type)
  BY <1>2, <1>4, <1>5, <1>6, <1>7, Altered DEF SlotTypes, TypeOK
<1>9. out.done => D \in Databases /\ t \in DOMAIN D
  BY <1>2, <1>6, <1>8 DEF IsAltered
<1>10. out.rc => IsLoaded(loadField(D, t), D, t)
  BY <1>6, <1>9, Loaded DEF SlotTypes, TypeOK
<1> QED
  BY <1>1, <1>2, <1>3, <1>4, <1>5, <1>6, <1>8, <1>10

LEMMA AlterTypes ==
  ASSUME SlotTypes, NEW f \in todo, AlterStep(f)
  PROVE  SlotTypes'
<1>1. PICK t, type : t = cur.request.table /\ type = v2m[entities[cur.request.object][f]]
  OBVIOUS
<1>2. /\ pc = "fields" /\ UNCHANGED <<wlist, requests, acked, dropped>>
      /\ db' = db \/ IsAltered(db', t, f, type)
      /\ \/ SerializeFails /\ UNCHANGED tables
         \/ Visited(f) /\ t \in DOMAIN db /\ IsAltered(db', t, f, type) /\ IsLoaded(tables', db', t)
  BY <1>1, AlterCases
<1>3. db' \in Databases
  BY <1>2 DEF IsAltered, SlotTypes, TypeOK, DataOK, Databases
<1>4. t \in DOMAIN tables
  BY <1>1, <1>2, FieldFacts
<1>5. CASE SerializeFails /\ UNCHANGED tables
  BY <1>2, <1>3, <1>5, FailureTypes DEF Busy, SlotTypes, TypeOK, DataOK
<1>6. CASE Visited(f) /\ IsLoaded(tables', db', t)
  <2>1. tables' \in Partial(Tables, Partial(Fields, FieldTypes)) /\ DOMAIN tables' = DOMAIN tables
    BY <1>4, <1>6 DEF IsLoaded
  <2> QED
    BY <1>2, <1>3, <1>6, <2>1, VisitedTypes
<1> QED
  BY <1>2, <1>5, <1>6

LEMMA KeepTypes ==
  ASSUME SlotTypes, NEW f \in todo, KeepStep(f)
  PROVE  SlotTypes'
BY VisitedTypes DEF KeepStep, SlotTypes, TypeOK, DataOK, Databases

(* How Insert ends: refused or not executed; executed and reported as      *)
(* failed; executed.                                                       *)
LEMMA InsertCases ==
  ASSUME SlotTypes, Insert, NEW t, t = cur.request.table, NEW o, o = cur.request.object
  PROVE  /\ pc = "insert"
         /\ UNCHANGED <<wlist, tables, isstop, last, requests, crashes, dropped>>
         /\ \/ UNCHANGED <<db, acked>> /\ SerializeFails
            \/ /\ t \in DOMAIN db /\ DOMAIN entities[o] \subseteq DOMAIN db[t].columns
               /\ IsInserted(db', t, o)
               /\ \/ /\ SerializeFails
                     /\ acked' = [acked EXCEPT ![<<t, o>>] = Restrict(@, DOMAIN @ \ DOMAIN cur.request.values)]
                  \/ /\ Respond(OK) /\ UNCHANGED entities
                     /\ acked' = [acked EXCEPT ![<<t, o>>] = Over(cur.request.values, @)]
<1>1. PICK valid \in BOOLEAN : valid = Writable(t, entities[o])
  BY DEF Writable
<1>2. pc = "insert" /\ UNCHANGED <<wlist, tables, isstop, last, requests, crashes, dropped>>
  BY DEF Insert
<1>3. PICK out \in IF valid THEN Outcomes ELSE Refused :
        /\ db' = IF out.done THEN insertRow(t, o) ELSE db
        /\ acked' = [acked EXCEPT ![<<t, o>>] =
             IF out.rc THEN Over(cur.request.values, @)
             ELSE IF out.done THEN Restrict(@, DOMAIN @ \ DOMAIN cur.request.values) ELSE @]
        /\ \/ out.rc /\ Respond(OK) /\ UNCHANGED entities
           \/ ~out.rc /\ SerializeFails
  BY <1>1 DEF Insert
<1>4. out.done \in BOOLEAN /\ out.rc \in BOOLEAN /\ (out.rc => out.done) /\ (out.done => valid)
  BY <1>3, OutcomeFacts
<1>5. o \in DOMAIN entities
  BY <1>2, CurrentRequest DEF Busy
<1>6. out.done => IsInserted(db', t, o)
  BY <1>1, <1>3, <1>4, <1>5, Inserted DEF SlotTypes, TypeOK, Writable
<1>7. CASE out.rc
  <2>1. acked' = [acked EXCEPT ![<<t, o>>] = Over(cur.request.values, @)]
    BY <1>3, <1>7
  <2> QED
    BY <1>1, <1>2, <1>3, <1>4, <1>6, <1>7, <2>1 DEF Writable
<1>8. CASE ~out.rc /\ out.done
  <2>1. acked' = [acked EXCEPT ![<<t, o>>] = Restrict(@, DOMAIN @ \ DOMAIN cur.request.values)]
    BY <1>3, <1>8
  <2> QED
    BY <1>1, <1>2, <1>3, <1>4, <1>6, <1>8, <2>1 DEF Writable
<1>9. CASE ~out.rc /\ ~out.done
  <2>1. acked' = [acked EXCEPT ![<<t, o>>] = @]
    BY <1>3, <1>9
  <2>2. acked' = acked
    BY <2>1 DEF SlotTypes, TypeOK, DataOK
  <2> QED
    BY <1>2, <1>3, <1>9, <2>2
<1> QED
  BY <1>4, <1>7, <1>8, <1>9

LEMMA InsertTypes ==
  ASSUME SlotTypes, Insert
  PROVE  SlotTypes'
<1>1. PICK t, o : t = cur.request.table /\ o = cur.request.object
  OBVIOUS
<1>2. /\ pc = "insert"
      /\ UNCHANGED <<wlist, tables, isstop, last, requests, crashes, dropped>>
      /\ \/ UNCHANGED <<db, acked>> /\ SerializeFails
         \/ /\ IsInserted(db', t, o)
            /\ \/ /\ SerializeFails
                  /\ acked' = [acked EXCEPT ![<<t, o>>] = Restrict(@, DOMAIN @ \ DOMAIN cur.request.values)]
               \/ /\ Respond(OK) /\ UNCHANGED entities
                  /\ acked' = [acked EXCEPT ![<<t, o>>] = Over(cur.request.values, @)]
  BY <1>1, InsertCases
<1>3. pc \in Busy
  BY <1>2 DEF Busy
<1>4. <<t, o>> \in Tables \X Objects /\ cur.request.values \in Partial(Fields, Data)
  BY <1>1, <1>3, CurrentRequest
<1>5. acked \in [Tables \X Objects -> Partial(Fields, Data)]
  BY DEF SlotTypes, TypeOK, DataOK
<1>6. acked[<<t, o>>] \in Partial(Fields, Data)
  BY <1>4, <1>5
<1>7. Over(cur.request.values, acked[<<t, o>>]) \in Partial(Fields, Data)
  BY <1>4, <1>6, OverType
<1>8. Restrict(acked[<<t, o>>], DOMAIN acked[<<t, o>>] \ DOMAIN cur.request.values) \in Partial(Fields, Data)
  <2>1. DOMAIN acked[<<t, o>>] \ DOMAIN cur.request.values \subseteq DOMAIN acked[<<t, o>>]
    OBVIOUS
  <2> QED
    BY <1>6, <2>1, RestrictType
<1>9. acked' \in [Tables \X Objects -> Partial(Fields, Data)]
  BY <1>2, <1>5, <1>7, <1>8
<1>10. db' \in Databases
  BY <1>2 DEF IsInserted, SlotTypes, TypeOK, DataOK, Databases
<1>11. CASE SerializeFails
  BY <1>2, <1>3, <1>9, <1>10, <1>11, FailureTypes
<1>12. CASE Respond(OK) /\ UNCHANGED entities
  <2>1. rlist' \in Seq(Answers) /\ pc' = "idle" /\ cur' = None /\ todo' = {} /\ Working'
    BY <1>3, <1>12, Responded DEF Codes
  <2> QED
    BY <1>2, <1>9, <1>10, <1>12, <2>1 DEF SlotTypes, TypeOK, QueuesOK, DataOK, Databases
<1> QED
  BY <1>2, <1>11, <1>12

(* E is the cache after the row of o in t has been read.                   *)
IsRead(E, t, o) ==
  /\ E \in Partial(Objects, Partial(Fields, Data))
  /\ DOMAIN E = DOMAIN entities \cup {o}
  /\ \A p \in DOMAIN entities : p # o => E[p] = entities[p]
  /\ DOMAIN E[o] = DOMAIN db[t].columns \cap DOMAIN TouchTable(t)[t]
  /\ \A f \in DOMAIN E[o] : E[o][f] = db[t].rows[o][f]

LEMMA Read ==
  ASSUME DataOK, NEW t \in DOMAIN db, NEW o \in DOMAIN db[t].rows, NEW E, E = Put(entities, o, unserialize(t, o))
  PROVE  IsRead(E, t, o)
<1>1. PICK D, e : D = DOMAIN db[t].columns \cap DOMAIN TouchTable(t)[t] /\ e = Restrict(db[t].rows[o], D)
  OBVIOUS
<1>2. o \in Objects /\ db[t].rows[o] \in Partial(Fields, Data) /\ DOMAIN db[t].rows[o] = DOMAIN db[t].columns
  BY TableFacts DEF DataOK, Databases
<1>3. D \subseteq DOMAIN db[t].rows[o]
  BY <1>1, <1>2
<1>4. e \in Partial(Fields, Data) /\ DOMAIN e = D /\ \A f \in D : e[f] = db[t].rows[o][f]
  <2>1. e \in Partial(Fields, Data)
    BY <1>1, <1>2, <1>3, RestrictType
  <2> QED
    BY <1>1, <2>1 DEF Restrict
<1>5. E = Put(entities, o, e)
  BY <1>1 DEF unserialize
<1>6. entities \in Partial(Objects, Partial(Fields, Data))
  BY DEF DataOK
<1>7. E \in Partial(Objects, Partial(Fields, Data)) /\ DOMAIN E = DOMAIN entities \cup {o}
  BY <1>2, <1>4, <1>5, <1>6, PutType DEF Put
<1>8. E[o] = e /\ \A p \in DOMAIN entities : p # o => E[p] = entities[p]
  BY <1>5 DEF Put
<1> QED
  BY <1>1, <1>4, <1>7, <1>8 DEF IsRead

(* How a read ends: from the cache, from the database, or with nothing.    *)
LEMMA UnserializeCases ==
  ASSUME SlotTypes, Unserialize, NEW t, t = Head(wlist).request.table, NEW o, o = Head(wlist).request.object
  PROVE  /\ pc = "idle" /\ wlist # <<>> /\ wlist' = Tail(wlist)
         /\ Head(wlist).request \in Requests /\ Head(wlist).request.kind = "unserialize"
         /\ UNCHANGED <<db, isstop, last, requests, crashes, acked, dropped>>
         /\ Respond(OK) \/ Respond(NOT_FOUND_OBJECT)
         /\ \/ UNCHANGED <<entities, tables>>
            \/ /\ t \in DOMAIN db /\ o \in DOMAIN db[t].rows /\ o \notin DOMAIN entities
               /\ tables' = TouchTable(t) /\ IsTouched(tables', t)
               /\ IsRead(entities', t, o)
            \/ IsTouched(tables', t) /\ UNCHANGED entities
<1>1. PICK r : r = Head(wlist).request
  OBVIOUS
<1>2. /\ pc = "idle" /\ wlist # <<>> /\ wlist' = Tail(wlist) /\ r.kind = "unserialize"
      /\ UNCHANGED <<db, isstop, last, requests, crashes, acked, dropped>>
      /\ r.table = t /\ r.object = o
  BY <1>1 DEF Unserialize
<1>3. r \in Requests
  BY <1>1, <1>2, FirstRequest
<1>4. t \in Tables
  BY <1>2, <1>3, RequestFacts
<1>5. IsTouched(TouchTable(t), t)
  BY <1>4, Touched DEF SlotTypes, TypeOK
<1>6. \/ Respond(OK) /\ UNCHANGED <<entities, tables>>
      \/ /\ o \notin DOMAIN entities /\ t \in DOMAIN db /\ o \in DOMAIN db[t].rows
         /\ tables' = TouchTable(t)
         /\ entities' = Put(entities, o, unserialize(t, o))
         /\ Respond(OK)
      \/ tables' = TouchTable(t) /\ Respond(NOT_FOUND_OBJECT) /\ UNCHANGED entities
  BY <1>1, <1>2 DEF Unserialize
<1>7. CASE /\ o \notin DOMAIN entities /\ t \in DOMAIN db /\ o \in DOMAIN db[t].rows
           /\ tables' = TouchTable(t)
           /\ entities' = Put(entities, o, unserialize(t, o))
           /\ Respond(OK)
  <2>1. IsRead(entities', t, o)
    BY <1>7, Read DEF SlotTypes, TypeOK
  <2> QED
    BY <1>1, <1>2, <1>3, <1>5, <1>7, <2>1
<1> QED
  BY <1>1, <1>2, <1>3, <1>5, <1>6, <1>7

LEMMA UnserializeTypes ==
  ASSUME SlotTypes, Unserialize
  PROVE  SlotTypes'
<1>1. PICK t, o : t = Head(wlist).request.table /\ o = Head(wlist).request.object
  OBVIOUS
<1>2. /\ pc = "idle" /\ wlist # <<>> /\ wlist' = Tail(wlist)
      /\ Head(wlist).request.kind = "unserialize"
      /\ UNCHANGED <<db, isstop, last, requests, crashes, acked, dropped>>
      /\ Respond(OK) \/ Respond(NOT_FOUND_OBJECT)
      /\ \/ UNCHANGED <<entities, tables>>
         \/ IsTouched(tables', t) /\ IsRead(entities', t, o)
         \/ IsTouched(tables', t) /\ UNCHANGED entities
  BY <1>1, UnserializeCases
<1>3. rlist' \in Seq(Answers) /\ pc' = "idle" /\ cur' = None /\ todo' = {} /\ Working'
  BY <1>2, Responded DEF Codes
<1>4. wlist' \in Seq(Numbered)
  BY <1>2, FirstRequest
<1>5. /\ tables' \in Partial(Tables, Partial(Fields, FieldTypes))
      /\ entities' \in Partial(Objects, Partial(Fields, Data))
  BY <1>2 DEF IsTouched, IsRead, SlotTypes, TypeOK, DataOK
<1> QED
  BY <1>2, <1>3, <1>4, <1>5 DEF SlotTypes, TypeOK, QueuesOK, DataOK

LEMMA RemoveTypes ==
  ASSUME SlotTypes, removeEntity
  PROVE  SlotTypes'
<1>1. /\ pc = "idle" /\ wlist # <<>> /\ wlist' = Tail(wlist)
      /\ Head(wlist).request.kind = "delete"
      /\ entities' = Without(entities, Head(wlist).request.object)
      /\ Respond(DELETE_ERROR)
      /\ UNCHANGED <<tables, db, isstop, last, requests, crashes, acked, dropped>>
  BY DEF removeEntity
<1>2. rlist' \in Seq(Answers) /\ pc' = "idle" /\ cur' = None /\ todo' = {} /\ Working'
  BY <1>1, Responded DEF Codes
<1>3. wlist' \in Seq(Numbered)
  BY <1>1, FirstRequest
<1>4. entities' \in Partial(Objects, Partial(Fields, Data))
  BY <1>1, WithoutType DEF SlotTypes, TypeOK, DataOK
<1> QED
  BY <1>1, <1>2, <1>3, <1>4 DEF SlotTypes, TypeOK, QueuesOK, DataOK

(* How alterTable ends: with or without an entry for the table, and with   *)
(* or without the column.                                                  *)
LEMMA AlterTableCases ==
  ASSUME SlotTypes, alterTable, NEW t, t = Head(wlist).request.table, NEW f, f = Head(wlist).request.field
  PROVE  /\ pc = "idle" /\ wlist # <<>> /\ wlist' = Tail(wlist)
         /\ Head(wlist).request \in Requests /\ Head(wlist).request.kind = "alter"
         /\ UNCHANGED <<entities, isstop, last, requests, crashes>>
         /\ Respond(OK) \/ Respond(DELETE_ERROR)
         /\ tables' = tables \/ IsTouched(tables', t)
         /\ \/ UNCHANGED <<db, acked, dropped>>
            \/ /\ t \in DOMAIN db
               /\ IsRemoved(db', t, f)
               /\ acked' = [k \in DOMAIN acked |-> IF k[1] = t THEN Without(acked[k], f) ELSE acked[k]]
               /\ dropped' = dropped \cup {<<t, f>>}
<1>1. PICK r : r = Head(wlist).request
  OBVIOUS
<1>2. /\ pc = "idle" /\ wlist # <<>> /\ wlist' = Tail(wlist) /\ r.kind = "alter"
      /\ UNCHANGED <<entities, isstop, last, requests, crashes>>
      /\ r.table = t /\ r.field = f
  BY <1>1 DEF alterTable
<1>3. r \in Requests
  BY <1>1, <1>2, FirstRequest
<1>4. t \in Tables /\ r.legal \in BOOLEAN
  BY <1>2, <1>3, RequestFacts
<1>5. IsTouched(TouchTable(t), t)
  BY <1>4, Touched DEF SlotTypes, TypeOK
<1>6. tables' = tables \/ IsTouched(tables', t)
  <2>1. tables' = IF r.legal THEN TouchTable(t) ELSE tables
    BY <1>1, <1>2 DEF alterTable
  <2> QED
    BY <1>4, <1>5, <2>1
<1>7. /\ Respond(OK) \/ Respond(DELETE_ERROR)
      /\ \/ UNCHANGED <<db, acked, dropped>>
         \/ /\ t \in DOMAIN db
            /\ db' = removeField(t, f)
            /\ acked' = [k \in DOMAIN acked |-> IF k[1] = t THEN Without(acked[k], f) ELSE acked[k]]
            /\ dropped' = dropped \cup {<<t, f>>}
  BY <1>1, <1>2 DEF alterTable
<1>8. t \in DOMAIN db /\ db' = removeField(t, f) => IsRemoved(db', t, f)
  BY Removed DEF SlotTypes, TypeOK
<1> QED
  BY <1>1, <1>2, <1>3, <1>6, <1>7, <1>8

LEMMA AlterTableTypes ==
  ASSUME SlotTypes, alterTable
  PROVE  SlotTypes'
<1>1. PICK t, f : t = Head(wlist).request.table /\ f = Head(wlist).request.field
  OBVIOUS
<1>2. /\ pc = "idle" /\ wlist # <<>> /\ wlist' = Tail(wlist)
      /\ Head(wlist).request.kind = "alter"
      /\ UNCHANGED <<entities, isstop, last, requests, crashes>>
      /\ Respond(OK) \/ Respond(DELETE_ERROR)
      /\ tables' = tables \/ IsTouched(tables', t)
      /\ \/ UNCHANGED <<db, acked, dropped>>
         \/ /\ IsRemoved(db', t, f)
            /\ acked' = [k \in DOMAIN acked |-> IF k[1] = t THEN Without(acked[k], f) ELSE acked[k]]
            /\ dropped' = dropped \cup {<<t, f>>}
  BY <1>1, AlterTableCases
<1>3. rlist' \in Seq(Answers) /\ pc' = "idle" /\ cur' = None /\ todo' = {} /\ Working'
  BY <1>2, Responded DEF Codes
<1>4. wlist' \in Seq(Numbered)
  BY <1>2, FirstRequest
<1>5. tables' \in Partial(Tables, Partial(Fields, FieldTypes))
  BY <1>2 DEF IsTouched, SlotTypes, TypeOK, DataOK
<1>6. db' \in Databases
  BY <1>2 DEF IsRemoved, SlotTypes, TypeOK, DataOK, Databases
<1>7. acked' \in [Tables \X Objects -> Partial(Fields, Data)]
  <2>1. acked \in [Tables \X Objects -> Partial(Fields, Data)]
    BY DEF SlotTypes, TypeOK, DataOK
  <2>2. \A k \in Tables \X Objects : Without(acked[k], f) \in Partial(Fields, Data)
    BY <2>1, WithoutType
  <2>3. CASE acked' = [k \in DOMAIN acked |-> IF k[1] = t THEN Without(acked[k], f) ELSE acked[k]]
    BY <2>1, <2>2, <2>3
  <2> QED
    BY <1>2, <2>1, <2>3
<1>8. dropped' \subseteq Tables \X Fields
  <2>1. t \in Tables /\ f \in Fields
    BY <1>1, <1>2, FirstRequest, RequestFacts
  <2> QED
    BY <1>2, <2>1 DEF SlotTypes, TypeOK, DataOK
<1> QED
  BY <1>2, <1>3, <1>4, <1>5, <1>6, <1>7, <1>8 DEF SlotTypes, TypeOK, QueuesOK, DataOK, Databases

LEMMA SelectTypes ==
  ASSUME SlotTypes, select
  PROVE  SlotTypes'
<1>1. wlist' \in Seq(Numbered)
  BY FirstRequest DEF select
<1> QED
  BY <1>1, QuietTypes DEF select, SlotTypes, TypeOK, QueuesOK

LEMMA RestartTypes ==
  ASSUME SlotTypes, Restart
  PROVE  SlotTypes'
<1>1. /\ wlist' \in Seq(Numbered) /\ rlist' \in Seq(Answers)
      /\ pc' = "idle" /\ cur' = None /\ todo' = {}
      /\ UNCHANGED <<db, requests, acked>> /\ dropped' = {}
  BY DEF Restart
<1>2. entities' \in Partial(Objects, Partial(Fields, Data))
  BY EmptyPartial DEF Restart
<1>3. DOMAIN db \subseteq Tables /\ \A t \in DOMAIN db : db[t].columns \in Partial(Fields, FieldTypes)
  <2>1. db \in Databases
    BY DEF SlotTypes, TypeOK, DataOK, Databases
  <2> QED
    BY <2>1, TableFacts
<1>4. tables' \in [DOMAIN db -> Partial(Fields, FieldTypes)]
  BY <1>3 DEF Restart
<1>5. tables' \in Partial(Tables, Partial(Fields, FieldTypes))
  BY <1>3, <1>4, PartialMade
<1>6. Working'
  BY <1>1 DEF Working, Busy
<1> QED
  BY <1>1, <1>2, <1>5, <1>6 DEF SlotTypes, TypeOK, QueuesOK, DataOK

LEMMA InitTypes == Init => SlotTypes
<1> SUFFICES ASSUME Init PROVE SlotTypes
  OBVIOUS
<1>1. /\ Empty \in Partial(Objects, Partial(Fields, Data)) /\ Empty \in Partial(Tables, Partial(Fields, FieldTypes))
      /\ Empty \in Partial(Tables, Table) /\ Empty \in Partial(Fields, Data)
  BY EmptyPartial
<1>2. acked \in [Tables \X Objects -> Partial(Fields, Data)]
  BY <1>1 DEF Init
<1>3. DataOK
  BY <1>1, <1>2 DEF Init, DataOK
<1>4. QueuesOK /\ todo \subseteq Fields
  BY DEF Init, QueuesOK
<1>5. Working
  BY DEF Init, Working, Busy
<1> QED
  BY <1>3, <1>4, <1>5 DEF SlotTypes, TypeOK

(* Every step keeps the types and the thread's place.                      *)
LEMMA NextTypes == SlotTypes /\ [Next]_vars => SlotTypes'
<1> SUFFICES ASSUME SlotTypes, [Next]_vars PROVE SlotTypes'
  OBVIOUS
<1>1. CASE UNCHANGED vars
  BY <1>1 DEF vars, SlotTypes, TypeOK, QueuesOK, DataOK, Working
<1>2. CASE (\E r \in Requests : request(r)) \/ update \/ stop \/ Round
  BY <1>2, MainThreadTypes
<1>3. CASE TakeSerialize
  BY <1>3, TakeSerializeTypes
<1>4. CASE CreateStep
  BY <1>4, CreateTypes
<1>5. CASE \E f \in todo : AddStep(f) \/ AlterStep(f) \/ KeepStep(f)
  BY <1>5, AddTypes, AlterTypes, KeepTypes
<1>6. CASE Insert
  BY <1>6, InsertTypes
<1>7. CASE Unserialize
  BY <1>7, UnserializeTypes
<1>8. CASE removeEntity
  BY <1>8, RemoveTypes
<1>9. CASE alterTable
  BY <1>9, AlterTableTypes
<1>10. CASE select
  BY <1>10, SelectTypes
<1>11. CASE Restart
  BY <1>11, RestartTypes
<1> QED
  BY <1>1, <1>2, <1>3, <1>4, <1>5, <1>6, <1>7, <1>8, <1>9, <1>10, <1>11 DEF Next, synchronous

(* The types hold, and while a write is executed its entity is cached and  *)
(* its table is described once the first statement has succeeded           *)
(* (RecordProcess::SlotDatabase::serialize).                               *)
THEOREM SlotTypesInvariant == Spec => []SlotTypes
<1> QED
  BY InitTypes, NextTypes, PTL DEF Spec

(* The type invariant, for any requests, faults and deaths: rows have the  *)
(* columns of their table, and a request is being executed exactly while   *)
(* the thread works (RecordProcess.h, the members of SlotDatabase).        *)
THEOREM SlotTypeOK == Spec => []TypeOK
<1>1. SlotTypes => TypeOK
  BY DEF SlotTypes
<1> QED
  BY <1>1, SlotTypesInvariant, PTL
-----------------------------------------------------------------------------
(* A slot implements SlotQueue.                                            *)

(* The requests not answered yet: the one being executed, then the queue.  *)
Pending == (IF cur = None THEN <<>> ELSE <<cur>>) \o wlist

LEMMA PendingFacts ==
  ASSUME SlotTypes
  PROVE  /\ cur = None => Pending = wlist
         /\ cur # None => /\ Pending = <<cur>> \o wlist /\ Pending # <<>>
                          /\ Head(Pending) = cur /\ Tail(Pending) = wlist
<1>1. wlist \in Seq(Numbered) /\ cur \in Numbered \cup {None}
  BY DEF SlotTypes, TypeOK, QueuesOK
<1>2. CASE cur = None
  BY <1>1, <1>2 DEF Pending
<1>3. CASE cur # None
  <2>1. Pending = <<cur>> \o wlist
    BY <1>3 DEF Pending
  <2> QED
    BY <1>1, <1>3, <2>1
<1> QED
  BY <1>2, <1>3

(* A response answers the oldest request that is pending.                  *)
LEMMA RespondAnswers ==
  ASSUME SlotTypes, SlotTypes', NEW retval \in Codes, Respond(retval), requests' = requests,
         \/ pc = "idle" /\ wlist # <<>> /\ Head(wlist).request.kind # "select" /\ wlist' = Tail(wlist)
         \/ pc \in Busy /\ wlist' = wlist
  PROVE  Abstract!Answer
<1>1. cur' = None /\ rlist' = Append(rlist, Response(retval))
  BY DEF Respond
<1>2. Pending' = wlist'
  BY <1>1, PendingFacts DEF Pending, SlotTypes, TypeOK, QueuesOK
<1>3. /\ Pending # <<>>
      /\ Head(Pending).request.kind # "select"
      /\ Pending' = Tail(Pending)
      /\ Response(retval) = [number |-> Head(Pending).number, kind |-> Head(Pending).request.kind, retval |-> retval]
  <2>1. CASE pc = "idle"
    <3>1. Pending = wlist
      BY <2>1, PendingFacts DEF SlotTypes, TypeOK, QueuesOK
    <3>2. wlist # <<>> /\ Head(wlist).request.kind # "select" /\ wlist' = Tail(wlist)
      BY <2>1 DEF Busy
    <3> QED
      BY <1>2, <2>1, <3>1, <3>2 DEF Response
  <2>2. CASE pc \in Busy
    <3>1. cur # None /\ cur.request.kind = "serialize"
      BY <2>2, CurrentRequest
    <3>2. Pending # <<>> /\ Head(Pending) = cur /\ Tail(Pending) = wlist
      BY <3>1, PendingFacts
    <3>3. Response(retval) = [number |-> cur.number, kind |-> cur.request.kind, retval |-> retval]
      BY <2>2 DEF Response, Busy
    <3>4. wlist' = wlist
      BY <2>2 DEF Busy
    <3> QED
      BY <1>2, <3>1, <3>2, <3>3, <3>4
  <2> QED
    BY <2>1, <2>2
<1>4. retval \in {0, 100, 101, 103, 104}
  BY DEF Codes, OK, ILLEGAL_JSON_STRING, NOT_FOUND_OBJECT, SERIALIZE_ERROR, DELETE_ERROR
<1> QED
  BY <1>1, <1>3, <1>4 DEF Abstract!Answer, Pending

(* What leaves the queue as it is.                                         *)
LEMMA QueueStutters ==
  ASSUME UNCHANGED <<Pending, rlist, requests>>
  PROVE  UNCHANGED <<(IF cur = None THEN <<>> ELSE <<cur>>) \o wlist, rlist, requests>>
BY DEF Pending

(* Every step of a slot is a step of the queue, or none.                   *)
LEMMA StepOfQueue ==
  ASSUME SlotTypes, SlotTypes', [Next]_vars
  PROVE  \/ Abstract!Next
         \/ UNCHANGED <<Pending, rlist, requests>>
<1>1. CASE UNCHANGED vars
  BY <1>1 DEF vars, Pending
<1>2. ASSUME NEW r \in Requests, request(r) PROVE Abstract!Queue
  <2>1. PICK x : x = [number |-> requests, request |-> r]
    OBVIOUS
  <2>2. wlist' = Append(wlist, x) /\ requests' = requests + 1 /\ UNCHANGED <<rlist, cur>>
    BY <1>2, <2>1 DEF request
  <2>3. wlist \in Seq(Numbered) /\ x \in Numbered
    BY <2>1 DEF SlotTypes, TypeOK, QueuesOK, Numbered
  <2>4. Pending' = Append(Pending, x)
    <3>1. CASE cur = None
      BY <2>2, <2>3, <3>1 DEF Pending
    <3>2. CASE cur # None
      <4>1. cur \in Numbered
        BY <3>2 DEF SlotTypes, TypeOK, QueuesOK
      <4>2. Pending = <<cur>> \o wlist /\ Pending' = <<cur>> \o Append(wlist, x)
        BY <2>2, <3>2 DEF Pending
      <4> QED
        BY <2>3, <4>1, <4>2
    <3> QED
      BY <3>1, <3>2
  <2> QED
    BY <2>1, <2>2, <2>4 DEF Abstract!Queue, Pending
<1>3. CASE update
  BY <1>3 DEF update, Abstract!Next, Abstract!Forward, Pending
<1>4. CASE stop
  BY <1>4 DEF stop, Pending
<1>5. CASE Round
  BY <1>5 DEF Round, Pending
<1>6. CASE TakeSerialize
  <2>1. PICK r : r = Head(wlist).request
    OBVIOUS
  <2>2. pc = "idle" /\ wlist # <<>> /\ r.kind = "serialize" /\ wlist' = Tail(wlist) /\ requests' = requests
    BY <1>6, <2>1 DEF TakeSerialize
  <2>3. CASE cur' = Head(wlist) /\ rlist' = rlist
    <3>1. Head(wlist) # None
      BY <2>2, FirstRequest
    <3>2. Pending = wlist
      BY <2>2, PendingFacts DEF SlotTypes, TypeOK, QueuesOK
    <3>3. Pending' = <<Head(wlist)>> \o Tail(wlist)
      BY <2>2, <2>3, <3>1 DEF Pending
    <3>4. Pending' = Pending
      BY <2>2, <3>2, <3>3, HeadTail DEF SlotTypes, TypeOK, QueuesOK
    <3> QED
      BY <2>2, <2>3, <3>4
  <2>4. CASE Respond(ILLEGAL_JSON_STRING)
    BY <2>1, <2>2, <2>4, RespondAnswers DEF Codes, Abstract!Next
  <2> QED
    BY <1>6, <2>1, <2>3, <2>4 DEF TakeSerialize, ParseFails
<1>7. ASSUME SerializeFails, pc \in Busy, UNCHANGED <<wlist, requests>> PROVE Abstract!Next
  BY <1>7, RespondAnswers DEF SerializeFails, Codes, Abstract!Next
<1>8. CASE CreateStep
  <2>1. pc \in Busy /\ UNCHANGED <<wlist, requests>> /\ (SerializeFails \/ UNCHANGED <<rlist, cur>>)
    BY <1>8 DEF CreateStep, Busy
  <2> QED
    BY <1>7, <2>1 DEF Pending
<1>9. ASSUME NEW f \in todo, AddStep(f) \/ AlterStep(f) \/ KeepStep(f)
      PROVE Abstract!Next \/ UNCHANGED <<Pending, rlist, requests>>
  <2>1. pc \in Busy /\ UNCHANGED <<wlist, requests>>
    BY <1>9 DEF AddStep, AlterStep, KeepStep, Busy
  <2>2. SerializeFails \/ Visited(f)
    BY <1>9 DEF AddStep, AlterStep, KeepStep
  <2> QED
    BY <1>7, <2>1, <2>2 DEF Visited, Pending
<1>10. CASE Insert
  <2>1. pc \in Busy /\ UNCHANGED <<wlist, requests>> /\ (SerializeFails \/ Respond(OK))
    BY <1>10 DEF Insert, Busy
  <2>2. CASE Respond(OK)
    BY <2>1, <2>2, RespondAnswers DEF Codes, Abstract!Next
  <2> QED
    BY <1>7, <2>1, <2>2
<1>11. CASE Unserialize
  <2>1. /\ pc = "idle" /\ wlist # <<>> /\ wlist' = Tail(wlist) /\ Head(wlist).request.kind = "unserialize"
        /\ requests' = requests
        /\ Respond(OK) \/ Respond(NOT_FOUND_OBJECT)
    BY <1>11 DEF Unserialize
  <2> QED
    BY <2>1, RespondAnswers DEF Codes, Abstract!Next
<1>12. CASE removeEntity
  BY <1>12, RespondAnswers DEF removeEntity, Codes, Abstract!Next
<1>13. CASE alterTable
  <2>1. /\ pc = "idle" /\ wlist # <<>> /\ wlist' = Tail(wlist) /\ Head(wlist).request.kind = "alter"
        /\ requests' = requests
        /\ Respond(OK) \/ Respond(DELETE_ERROR)
    BY <1>13 DEF alterTable
  <2> QED
    BY <2>1, RespondAnswers DEF Codes, Abstract!Next
<1>14. CASE select
  <2>1. /\ pc = "idle" /\ wlist # <<>> /\ wlist' = Tail(wlist) /\ Head(wlist).request.kind = "select"
        /\ UNCHANGED <<rlist, cur, requests>>
    BY <1>14 DEF select
  <2>2. cur = None
    BY <2>1 DEF SlotTypes, TypeOK, QueuesOK
  <2>3. Pending = wlist /\ Pending' = wlist'
    BY <2>1, <2>2 DEF Pending, SlotTypes, TypeOK, QueuesOK
  <2> QED
    BY <2>1, <2>3 DEF Abstract!Next, Abstract!Ignore, Pending
<1>15. CASE Restart
  BY <1>15 DEF Restart, Abstract!Next, Abstract!Restart
<1>16. CASE \E r \in Requests : request(r)
  BY <1>2, <1>16 DEF Abstract!Next
<1>17. CASE \E f \in todo : AddStep(f) \/ AlterStep(f) \/ KeepStep(f)
  BY <1>9, <1>17
<1> QED
  BY <1>1, <1>3, <1>4, <1>5, <1>6, <1>8, <1>10, <1>11, <1>12, <1>13, <1>14, <1>15, <1>16, <1>17 DEF Next, synchronous

(* Responses are given in the order of the requests, one for each and none *)
(* for a select, for every sequence of requests, every failure of a        *)
(* statement and every restart: a slot implements SlotQueue                *)
(* (RecordProcess::SlotDatabase::synchronous).                             *)
THEOREM SlotAnswersInOrder == Spec => AnswersInOrder
<1>1. Init => Abstract!Init
  BY DEF Init, Abstract!Init
<1>2. SlotTypes /\ SlotTypes' /\ [Next]_vars
        => [Abstract!Next]_<<(IF cur = None THEN <<>> ELSE <<cur>>) \o wlist, rlist, requests>>
  BY StepOfQueue, QueueStutters
<1> QED
  BY <1>1, <1>2, SlotTypesInvariant, PTL DEF Spec, AnswersInOrder, Abstract!Spec
-----------------------------------------------------------------------------
(* What the thread keeps of its data, for clients with OneFamily, ZeroFits *)
(* and StoredOnce.  The parts are stated of any cache E, description T and *)
(* database D, so that a step that changes one of them is a lemma about    *)
(* that one.                                                               *)

(* The family of the values that clients give a field.                     *)
FamilyOf(f) ==
  CHOOSE c \in {"integer", "float", "string"} :
    \E r \in Writes : f \in DOMAIN r.values /\ c = Family(v2m[FromJson[r.values[f]]])

Suits(f, type) == Family(type) = FamilyOf(f)
Width(d) == Rank[v2m[d]]

(* Every type and value of a field is of the field's family.               *)
GoodEntities(E) == \A o \in DOMAIN E : \A f \in DOMAIN E[o] : Suits(f, v2m[E[o][f]])
GoodTables(T) == \A t \in DOMAIN T : \A f \in DOMAIN T[t] : Suits(f, T[t][f])
GoodDb(D) ==
  \A t \in DOMAIN D : \A f \in DOMAIN D[t].columns :
    /\ Suits(f, D[t].columns[f])
    /\ \A o \in DOMAIN D[t].rows : Suits(f, v2m[D[t].rows[o][f]])

(* The row of o in t holds what its column stores of a value d of field f, *)
(* and d fits the column.                                                  *)
Holds(D, t, o, f, d) ==
  /\ d \in Data
  /\ f \in DOMAIN D[t].columns
  /\ Fits(d, D[t].columns[f])
  /\ D[t].rows[o][f] = Stored[D[t].columns[f]][d]

(* Stored values fit their columns, and would be stored as they are.       *)
FitsIn(D) ==
  \A t \in DOMAIN D : \A f \in DOMAIN D[t].columns : \A o \in DOMAIN D[t].rows :
    Holds(D, t, o, f, D[t].rows[o][f])

(* The description may lag behind the database when a reply was lost: a    *)
(* column can be wider than its description says, and is then made         *)
(* narrower by the next change.  What is stored fits, because it fits the  *)
(* description, or is a default value.                                     *)
DescribedIn(T, D) ==
  \A t \in DOMAIN D \cap DOMAIN T : \A f \in DOMAIN D[t].columns \cap DOMAIN T[t] :
    /\ Rank[T[t][f]] <= Rank[D[t].columns[f]]
    /\ \A o \in DOMAIN D[t].rows : Width(D[t].rows[o][f]) <= Rank[T[t][f]] \/ Width(D[t].rows[o][f]) <= 2

(* The fields of the entity that the loop has visited are described, as    *)
(* wide as their values.                                                   *)
VisitedFit ==
  pc \in {"fields", "insert"} =>
    \A f \in DOMAIN entities[cur.request.object] \ todo :
      /\ f \in DOMAIN tables[cur.request.table]
      /\ Width(entities[cur.request.object][f]) <= Rank[tables[cur.request.table][f]]

(* The entity being written has the values of the request.                 *)
Merged ==
  pc \in Busy =>
    \A f \in DOMAIN cur.request.values :
      /\ f \in DOMAIN entities[cur.request.object]
      /\ entities[cur.request.object][f] = FromJson[cur.request.values[f]]

(* The row in t holds the values of the fields F of a cached entity, as    *)
(* far as the columns still exist, and the description has these fields.   *)
Fresh(E, T, D, o, t, F) ==
  /\ t \in DOMAIN D /\ t \in DOMAIN T /\ o \in DOMAIN D[t].rows
  /\ \E r \in Requests : r.object = o /\ r.table = t
  /\ F \subseteq DOMAIN T[t]
  /\ \A f \in F \cap DOMAIN D[t].columns : Holds(D, t, o, f, E[o][f])

(* Cached entities are fresh, the one being written except for the values  *)
(* of the request.                                                         *)
Unwritten(o) ==
  \/ DOMAIN entities[o] \subseteq DOMAIN cur.request.values
  \/ \E t \in Tables : Fresh(entities, tables, db, o, t, DOMAIN entities[o] \ DOMAIN cur.request.values)

Cached ==
  \A o \in DOMAIN entities :
    IF pc \in Busy /\ o = cur.request.object
    THEN Unwritten(o)
    ELSE \E t \in Tables : Fresh(entities, tables, db, o, t, DOMAIN entities[o])

Sound(T, D) == GoodTables(T) /\ GoodDb(D) /\ FitsIn(D) /\ DescribedIn(T, D)

DataInv == GoodEntities(entities) /\ Sound(tables, db) /\ VisitedFit /\ Merged /\ Cached

(* Families and widths of types.                                           *)
LEMMA RankFacts ==
  ASSUME NEW type \in FieldTypes
  PROVE  Rank[type] \in 1 .. 3
BY DEF Rank, FieldTypes

LEMMA FamilyFacts ==
  ASSUME NEW type
  PROVE  Family(type) \in {"integer", "float", "string"}
BY DEF Family

LEMMA WidthFacts ==
  ASSUME NEW d \in Data
  PROVE  v2m[d] \in FieldTypes /\ Width(d) \in 1 .. 3
<1>1. v2m[d] \in FieldTypes
  BY SlotAssumption
<1> QED
  BY <1>1, RankFacts DEF Width

(* What a client writes suits its field.                                   *)
LEMMA WriteSuits ==
  ASSUME OneFamily, NEW r \in Writes, NEW f \in DOMAIN r.values
  PROVE  Suits(f, v2m[FromJson[r.values[f]]])
<1>1. \E c \in {"integer", "float", "string"} : \E s \in Writes : f \in DOMAIN s.values /\ c = Family(v2m[FromJson[s.values[f]]])
  BY FamilyFacts
<1>2. PICK s \in Writes : f \in DOMAIN s.values /\ FamilyOf(f) = Family(v2m[FromJson[s.values[f]]])
  BY <1>1 DEF FamilyOf
<1>3. Family(v2m[FromJson[r.values[f]]]) = Family(v2m[FromJson[s.values[f]]])
  BY <1>2 DEF OneFamily
<1> QED
  BY <1>2, <1>3 DEF Suits

(* A default value suits the field, fits the column and is not of the      *)
(* widest type.                                                            *)
LEMMA ZeroSuits ==
  ASSUME ZeroFits, NEW type \in FieldTypes, NEW f, Suits(f, type)
  PROVE  /\ Zero[type] \in Data
         /\ Suits(f, v2m[Zero[type]])
         /\ Width(Zero[type]) <= Rank[type] /\ Width(Zero[type]) <= 2
         /\ Fits(Zero[type], type) /\ Stored[type][Zero[type]] = Zero[type]
BY SlotAssumption DEF ZeroFits, Fits, Suits, Width

(* What a column gives back of a value that fits it.                       *)
LEMMA StoredFacts ==
  ASSUME StoredOnce, NEW d \in Data, NEW type \in FieldTypes, Fits(d, type)
  PROVE  /\ Stored[type][d] \in Data
         /\ Fits(Stored[type][d], type)
         /\ Width(Stored[type][d]) = Width(d) \/ (Width(Stored[type][d]) <= 2 /\ Width(d) <= 2)
         /\ Stored[type][Stored[type][d]] = Stored[type][d]
<1>1. Stored[type][d] \in Data
  BY SlotAssumption
<1> QED
  BY <1>1 DEF StoredOnce, Width

(* Within a field's family a column is only made wider.                    *)
LEMMA OnlyWider ==
  ASSUME NEW f, NEW from, NEW to, Suits(f, from), Suits(f, to)
  PROVE  m2m(from, to) <=> Rank[from] < Rank[to]
BY DEF Suits, m2m

-----------------------------------------------------------------------------
(* The database changes, the description does not.                         *)

(* Freshness is kept from one database to another, and what rows hold in   *)
(* the columns that remain.                                                *)
KeepsFresh(D) ==
  \A o, t, F : Fresh(entities, tables, db, o, t, F) => Fresh(entities, tables, D, o, t, F)

KeepsHeld(D) ==
  /\ DOMAIN db \subseteq DOMAIN D
  /\ \A t \in DOMAIN db : \A o \in DOMAIN db[t].rows :
       /\ o \in DOMAIN D[t].rows
       /\ \A f \in DOMAIN D[t].columns : \A d : Holds(db, t, o, f, d) => Holds(D, t, o, f, d)

(* The second gives the first where described fields have no new columns.  *)
LEMMA HeldFresh ==
  ASSUME NEW D, KeepsHeld(D),
         \A t \in DOMAIN db \cap DOMAIN tables : DOMAIN tables[t] \cap DOMAIN D[t].columns \subseteq DOMAIN db[t].columns
  PROVE  KeepsFresh(D)
BY DEF KeepsHeld, KeepsFresh, Fresh

LEMMA CreatedSound ==
  ASSUME SlotTypes, Sound(tables, db), GoodEntities(entities), NEW o \in DOMAIN entities,
         NEW t \in Tables, t \notin DOMAIN db, t \notin DOMAIN tables,
         NEW D, IsCreated(D, t, entities[o])
  PROVE  Sound(tables, D) /\ KeepsFresh(D) /\ KeepsHeld(D)
<1>1. /\ DOMAIN D = DOMAIN db \cup {t}
      /\ \A x \in DOMAIN db : D[x] = db[x]
      /\ DOMAIN D[t].rows = {}
      /\ DOMAIN D[t].columns = DOMAIN entities[o]
      /\ \A f \in DOMAIN entities[o] : D[t].columns[f] = v2m[entities[o][f]]
  BY DEF IsCreated
<1>2. GoodDb(D)
  BY <1>1 DEF GoodDb, GoodEntities, Sound
<1>3. FitsIn(D)
  BY <1>1 DEF FitsIn, Sound, Holds
<1>4. DescribedIn(tables, D)
  BY <1>1 DEF DescribedIn, Sound
<1>5. KeepsHeld(D)
  BY <1>1 DEF KeepsHeld, Holds
<1>6. KeepsFresh(D)
  BY <1>1, <1>5, HeldFresh
<1> QED
  BY <1>2, <1>3, <1>4, <1>5, <1>6 DEF Sound

LEMMA AddedSound ==
  ASSUME SlotTypes, ZeroFits, Sound(tables, db),
         NEW t \in DOMAIN db \cap DOMAIN tables, NEW f \in Fields, f \notin DOMAIN tables[t], f \notin DOMAIN db[t].columns,
         NEW type \in FieldTypes, Suits(f, type), NEW D, IsAdded(D, t, f, type)
  PROVE  Sound(tables, D) /\ KeepsFresh(D) /\ KeepsHeld(D)
<1>1. /\ DOMAIN D = DOMAIN db
      /\ \A x \in DOMAIN db : x # t => D[x] = db[x]
      /\ DOMAIN D[t].columns = DOMAIN db[t].columns \cup {f}
      /\ D[t].columns[f] = type
      /\ \A g \in DOMAIN db[t].columns : D[t].columns[g] = db[t].columns[g]
      /\ DOMAIN D[t].rows = DOMAIN db[t].rows
      /\ \A o \in DOMAIN db[t].rows :
           /\ D[t].rows[o][f] = Zero[type]
           /\ \A g \in DOMAIN db[t].columns : D[t].rows[o][g] = db[t].rows[o][g]
  BY DEF IsAdded
<1>2. /\ Zero[type] \in Data
      /\ Suits(f, v2m[Zero[type]]) /\ Fits(Zero[type], type) /\ Stored[type][Zero[type]] = Zero[type]
  BY ZeroSuits
<1>3. GoodDb(D)
  BY <1>1, <1>2 DEF GoodDb, Sound
<1>4. FitsIn(D)
  BY <1>1, <1>2 DEF FitsIn, Sound, Holds
<1>5. DescribedIn(tables, D)
  BY <1>1 DEF DescribedIn, Sound
<1>6. KeepsHeld(D)
  BY <1>1 DEF KeepsHeld, Holds
<1>7. KeepsFresh(D)
  BY <1>1, <1>6, HeldFresh
<1> QED
  BY <1>3, <1>4, <1>5, <1>6, <1>7 DEF Sound

(* A column is changed to a type wider than its description, which may be  *)
(* narrower than the column was.                                           *)
LEMMA AlteredSound ==
  ASSUME SlotTypes, StoredOnce, Sound(tables, db),
         NEW t \in DOMAIN db \cap DOMAIN tables, NEW f \in DOMAIN tables[t] \cap DOMAIN db[t].columns,
         NEW type \in FieldTypes, Suits(f, type), Rank[tables[t][f]] < Rank[type], NEW D, IsAltered(D, t, f, type)
  PROVE  Sound(tables, D) /\ KeepsFresh(D) /\ KeepsHeld(D)
<1>1. Family(db[t].columns[f]) = Family(type)
  BY DEF Sound, GoodDb, Suits
<1>2. /\ DOMAIN D = DOMAIN db
      /\ \A x \in DOMAIN db : x # t => D[x] = db[x]
      /\ DOMAIN D[t].columns = DOMAIN db[t].columns
      /\ D[t].columns[f] = type
      /\ \A g \in DOMAIN db[t].columns : g # f => D[t].columns[g] = db[t].columns[g]
      /\ DOMAIN D[t].rows = DOMAIN db[t].rows
      /\ \A o \in DOMAIN db[t].rows :
           /\ \A g \in DOMAIN db[t].columns : g # f => D[t].rows[o][g] = db[t].rows[o][g]
           /\ D[t].rows[o][f] = Stored[type][db[t].rows[o][f]]
  BY <1>1 DEF IsAltered
<1>3. Rank[tables[t][f]] \in 1 .. 3 /\ Rank[type] \in 1 .. 3
  <2>1. tables[t] \in Partial(Fields, FieldTypes)
    BY PartialFacts DEF SlotTypes, TypeOK, DataOK
  <2>2. tables[t][f] \in FieldTypes
    BY <2>1, PartialFacts
  <2> QED
    BY <2>2, RankFacts
<1>4. db[t].columns[f] \in FieldTypes
  BY TableFacts DEF SlotTypes, TypeOK, DataOK, Databases
(* A stored value fits the new type, and so does what is stored anew.      *)
<1>5. ASSUME NEW o \in DOMAIN db[t].rows
      PROVE  /\ Width(db[t].rows[o][f]) \in 1 .. 3 /\ Width(db[t].rows[o][f]) <= Rank[type]
             /\ Holds(D, t, o, f, D[t].rows[o][f])
             /\ Suits(f, v2m[D[t].rows[o][f]])
             /\ Width(D[t].rows[o][f]) <= Rank[tables[t][f]] \/ Width(D[t].rows[o][f]) <= 2
  <2>1. PICK r, n : r = db[t].rows[o][f] /\ n = D[t].rows[o][f]
    OBVIOUS
  <2>2. r \in Data /\ Fits(r, db[t].columns[f])
    BY <2>1 DEF Sound, FitsIn, Holds
  <2>3. Width(r) \in 1 .. 3 /\ (Width(r) <= Rank[tables[t][f]] \/ Width(r) <= 2)
    BY <2>1, <2>2, WidthFacts DEF Sound, DescribedIn
  <2>4. Width(r) <= Rank[type]
    BY <1>3, <2>3
  <2>5. Fits(r, type)
    BY <1>1, <2>2, <2>4 DEF Fits, Width
  <2>6. n = Stored[type][r]
    BY <1>2, <2>1
  <2>7. /\ n \in Data /\ Fits(n, type) /\ Stored[type][n] = n
        /\ Width(n) = Width(r) \/ (Width(n) <= 2 /\ Width(r) <= 2)
    BY <2>2, <2>5, <2>6, StoredFacts
  <2>8. Holds(D, t, o, f, n)
    BY <1>2, <2>1, <2>7 DEF Holds
  <2>9. Suits(f, v2m[n])
    BY <2>7 DEF Suits, Fits
  <2>10. Width(n) <= Rank[tables[t][f]] \/ Width(n) <= 2
    BY <2>3, <2>7
  <2> QED
    BY <2>1, <2>3, <2>4, <2>8, <2>9, <2>10
<1>6. GoodDb(D)
  BY <1>2, <1>5 DEF GoodDb, Sound
<1>7. FitsIn(D)
  <2> SUFFICES ASSUME NEW x \in DOMAIN D, NEW g \in DOMAIN D[x].columns, NEW o \in DOMAIN D[x].rows
               PROVE  Holds(D, x, o, g, D[x].rows[o][g])
    BY DEF FitsIn
  <2>1. x \in DOMAIN db /\ g \in DOMAIN db[x].columns /\ o \in DOMAIN db[x].rows
    BY <1>2
  <2>2. CASE x = t /\ g = f
    BY <1>5, <2>1, <2>2
  <2>3. CASE x # t \/ g # f
    <3>1. Holds(db, x, o, g, db[x].rows[o][g])
      BY <2>1 DEF Sound, FitsIn
    <3>2. D[x].columns[g] = db[x].columns[g] /\ D[x].rows[o][g] = db[x].rows[o][g]
      BY <1>2, <2>1, <2>3
    <3> QED
      BY <3>1, <3>2 DEF Holds
  <2> QED
    BY <2>2, <2>3
<1>8. Rank[tables[t][f]] <= Rank[type]
  BY <1>3
<1>9. DescribedIn(tables, D)
  BY <1>2, <1>5, <1>8 DEF DescribedIn, Sound
<1>10. KeepsHeld(D)
  <2> SUFFICES ASSUME NEW x \in DOMAIN db, NEW o \in DOMAIN db[x].rows,
                      NEW g \in DOMAIN D[x].columns, NEW d, Holds(db, x, o, g, d)
               PROVE  Holds(D, x, o, g, d)
    BY <1>2 DEF KeepsHeld
  <2>1. CASE x # t \/ g # f
    <3>1. D[x].columns[g] = db[x].columns[g] /\ D[x].rows[o][g] = db[x].rows[o][g]
      BY <1>2, <2>1 DEF Holds
    <3> QED
      BY <3>1 DEF Holds
  <2>2. CASE x = t /\ g = f
    <3>1. d \in Data /\ Fits(d, db[t].columns[f]) /\ db[t].rows[o][f] = Stored[db[t].columns[f]][d]
      BY <2>2 DEF Holds
    <3>2. PICK r : r = db[t].rows[o][f]
      OBVIOUS
    <3>3. Width(r) = Width(d) \/ (Width(r) <= 2 /\ Width(d) <= 2)
      BY <1>4, <3>1, <3>2, StoredFacts
    <3>4. Width(d) \in 1 .. 3 /\ Width(r) \in 1 .. 3 /\ Width(r) <= Rank[type]
      BY <1>5, <2>2, <3>1, <3>2, WidthFacts
    <3>5. Width(d) <= Rank[type]
      BY <1>3, <3>3, <3>4
    <3>6. Fits(d, type)
      BY <1>1, <3>1, <3>5 DEF Fits, Width
    <3>7. Stored[type][Stored[db[t].columns[f]][d]] = Stored[type][d]
      BY <1>4, <3>1, <3>6 DEF StoredOnce
    <3>8. D[t].rows[o][f] = Stored[type][d]
      BY <1>2, <2>2, <3>1, <3>7
    <3> QED
      BY <1>2, <2>2, <3>1, <3>6, <3>8 DEF Holds
  <2> QED
    BY <2>1, <2>2
<1>11. KeepsFresh(D)
  BY <1>2, <1>10, HeldFresh
<1> QED
  BY <1>6, <1>7, <1>9, <1>10, <1>11 DEF Sound

LEMMA RemovedSound ==
  ASSUME SlotTypes, Sound(tables, db), NEW t \in DOMAIN db, NEW f, NEW D, IsRemoved(D, t, f)
  PROVE  Sound(tables, D) /\ KeepsFresh(D) /\ KeepsHeld(D)
<1>1. /\ DOMAIN D = DOMAIN db
      /\ \A x \in DOMAIN db : x # t => D[x] = db[x]
      /\ DOMAIN D[t].columns \subseteq DOMAIN db[t].columns
      /\ \A g \in DOMAIN D[t].columns : D[t].columns[g] = db[t].columns[g]
      /\ DOMAIN D[t].rows = DOMAIN db[t].rows
      /\ \A o \in DOMAIN db[t].rows : \A g \in DOMAIN D[t].columns : D[t].rows[o][g] = db[t].rows[o][g]
  BY DEF IsRemoved
<1>2. GoodDb(D)
  BY <1>1 DEF GoodDb, Sound
<1>3. FitsIn(D)
  BY <1>1 DEF FitsIn, Sound, Holds
<1>4. DescribedIn(tables, D)
  BY <1>1 DEF DescribedIn, Sound
<1>5. KeepsHeld(D)
  BY <1>1 DEF KeepsHeld, Holds
<1>6. KeepsFresh(D)
  BY <1>1, <1>5, HeldFresh
<1> QED
  BY <1>2, <1>3, <1>4, <1>5, <1>6 DEF Sound

(* A row is written whose values have all been visited: it is fresh, and   *)
(* the other objects' rows are what they were.                             *)
LEMMA InsertedSound ==
  ASSUME SlotTypes, ZeroFits, StoredOnce, Sound(tables, db), GoodEntities(entities),
         NEW t \in DOMAIN db \cap DOMAIN tables, NEW o \in DOMAIN entities,
         DOMAIN entities[o] \subseteq DOMAIN db[t].columns,
         \A f \in DOMAIN entities[o] : f \in DOMAIN tables[t] /\ Width(entities[o][f]) <= Rank[tables[t][f]],
         NEW D, IsInserted(D, t, o)
  PROVE  /\ Sound(tables, D)
         /\ \A p, x, F : p # o /\ Fresh(entities, tables, db, p, x, F) => Fresh(entities, tables, D, p, x, F)
         /\ (\E r \in Requests : r.object = o /\ r.table = t) => Fresh(entities, tables, D, o, t, DOMAIN entities[o])
<1>1. /\ DOMAIN D = DOMAIN db
      /\ \A x \in DOMAIN db : x # t => D[x] = db[x]
      /\ D[t].columns = db[t].columns
      /\ DOMAIN D[t].rows = DOMAIN db[t].rows \cup {o}
      /\ \A p \in DOMAIN db[t].rows : p # o => D[t].rows[p] = db[t].rows[p]
      /\ \A g \in DOMAIN entities[o] : D[t].rows[o][g] = Stored[db[t].columns[g]][entities[o][g]]
      /\ \A g \in DOMAIN db[t].columns :
           g \notin DOMAIN entities[o] =>
             D[t].rows[o][g] = IF o \in DOMAIN db[t].rows THEN db[t].rows[o][g] ELSE Zero[db[t].columns[g]]
  BY DEF IsInserted
<1>2. \A g \in DOMAIN db[t].columns : db[t].columns[g] \in FieldTypes /\ Rank[db[t].columns[g]] \in 1 .. 3
  BY TableFacts, RankFacts DEF SlotTypes, TypeOK, DataOK, Databases
<1>3. \A g \in DOMAIN db[t].columns : Suits(g, db[t].columns[g])
  BY DEF Sound, GoodDb
<1>4. \A g \in DOMAIN db[t].columns :
        /\ Zero[db[t].columns[g]] \in Data
        /\ Suits(g, v2m[Zero[db[t].columns[g]]])
        /\ Fits(Zero[db[t].columns[g]], db[t].columns[g])
        /\ Stored[db[t].columns[g]][Zero[db[t].columns[g]]] = Zero[db[t].columns[g]]
        /\ Width(Zero[db[t].columns[g]]) <= 2
  BY <1>2, <1>3, ZeroSuits
<1>5. ASSUME NEW g \in DOMAIN db[t].columns
      PROVE  /\ Suits(g, v2m[D[t].rows[o][g]])
             /\ Holds(D, t, o, g, D[t].rows[o][g])
             /\ g \in DOMAIN entities[o] => Holds(D, t, o, g, entities[o][g])
             /\ g \in DOMAIN tables[t] =>
                  Width(D[t].rows[o][g]) <= Rank[tables[t][g]] \/ Width(D[t].rows[o][g]) <= 2
  <2>1. CASE g \in DOMAIN entities[o]
    <3>1. PICK e, n : e = entities[o][g] /\ n = D[t].rows[o][g]
      OBVIOUS
    <3>2. n = Stored[db[t].columns[g]][e] /\ g \in DOMAIN tables[t] /\ Width(e) <= Rank[tables[t][g]]
      BY <1>1, <2>1, <3>1
    <3>3. Rank[tables[t][g]] <= Rank[db[t].columns[g]]
      BY <3>2 DEF Sound, DescribedIn
    <3>4. e \in Data /\ tables[t][g] \in FieldTypes
      <4>1. entities[o] \in Partial(Fields, Data) /\ tables[t] \in Partial(Fields, FieldTypes)
        BY PartialFacts DEF SlotTypes, TypeOK, DataOK
      <4> QED
        BY <2>1, <3>1, <3>2, <4>1, PartialFacts
    <3>5. Width(e) \in 1 .. 3 /\ Rank[tables[t][g]] \in 1 .. 3
      BY <3>4, WidthFacts, RankFacts
    <3>6. Width(e) <= Rank[db[t].columns[g]]
      BY <1>2, <3>2, <3>3, <3>5
    <3>7. Suits(g, v2m[e])
      BY <2>1, <3>1 DEF GoodEntities
    <3>8. Fits(e, db[t].columns[g])
      BY <1>3, <3>6, <3>7 DEF Fits, Width, Suits
    <3>9. /\ n \in Data /\ Fits(n, db[t].columns[g]) /\ Stored[db[t].columns[g]][n] = n
          /\ Width(n) = Width(e) \/ (Width(n) <= 2 /\ Width(e) <= 2)
      BY <1>2, <3>2, <3>4, <3>8, StoredFacts
    <3>10. Suits(g, v2m[n])
      BY <1>3, <3>9 DEF Fits, Suits
    <3>11. Holds(D, t, o, g, n) /\ Holds(D, t, o, g, e)
      BY <1>1, <3>1, <3>2, <3>4, <3>8, <3>9 DEF Holds
    <3>12. Width(n) <= Rank[tables[t][g]] \/ Width(n) <= 2
      BY <3>2, <3>9
    <3> QED
      BY <3>1, <3>10, <3>11, <3>12
  <2>2. CASE g \notin DOMAIN entities[o] /\ o \in DOMAIN db[t].rows
    <3>1. D[t].rows[o][g] = db[t].rows[o][g]
      BY <1>1, <2>2
    <3>2. Holds(D, t, o, g, D[t].rows[o][g])
      BY <1>1, <2>2, <3>1 DEF Sound, FitsIn, Holds
    <3> QED
      BY <2>2, <3>1, <3>2 DEF Sound, GoodDb, DescribedIn
  <2>3. CASE g \notin DOMAIN entities[o] /\ o \notin DOMAIN db[t].rows
    <3>1. D[t].rows[o][g] = Zero[db[t].columns[g]]
      BY <1>1, <2>3
    <3>2. Holds(D, t, o, g, D[t].rows[o][g])
      BY <1>1, <1>4, <3>1 DEF Holds
    <3> QED
      BY <1>4, <2>3, <3>1, <3>2
  <2> QED
    BY <2>1, <2>2, <2>3
<1>6. GoodDb(D)
  BY <1>1, <1>3, <1>5 DEF GoodDb, Sound
<1>7. FitsIn(D)
  <2> SUFFICES ASSUME NEW x \in DOMAIN D, NEW g \in DOMAIN D[x].columns, NEW p \in DOMAIN D[x].rows
               PROVE  Holds(D, x, p, g, D[x].rows[p][g])
    BY DEF FitsIn
  <2>1. CASE x = t /\ p = o
    BY <1>1, <1>5, <2>1
  <2>2. CASE x # t \/ p # o
    BY <1>1, <2>2 DEF Sound, FitsIn, Holds
  <2> QED
    BY <2>1, <2>2
<1>8. DescribedIn(tables, D)
  BY <1>1, <1>5 DEF DescribedIn, Sound
<1>9. \A p, x, F : p # o /\ Fresh(entities, tables, db, p, x, F) => Fresh(entities, tables, D, p, x, F)
  BY <1>1 DEF Fresh, Holds
<1>10. ASSUME \E r \in Requests : r.object = o /\ r.table = t
       PROVE  Fresh(entities, tables, D, o, t, DOMAIN entities[o])
  BY <1>1, <1>5, <1>10 DEF Fresh
<1> QED
  BY <1>6, <1>7, <1>8, <1>9, <1>10 DEF Sound
-----------------------------------------------------------------------------
(* The description changes, the database does not.                         *)

(* The description T has all that `tables' has, as wide or wider.          *)
Grows(T) ==
  /\ DOMAIN tables \subseteq DOMAIN T
  /\ \A x \in DOMAIN tables : \A f \in DOMAIN tables[x] : f \in DOMAIN T[x] /\ Rank[tables[x][f]] <= Rank[T[x][f]]

LEMMA DescriptionFacts ==
  ASSUME SlotTypes, NEW x \in DOMAIN tables, NEW f \in DOMAIN tables[x]
  PROVE  tables[x][f] \in FieldTypes /\ Rank[tables[x][f]] \in 1 .. 3
<1>1. tables[x] \in Partial(Fields, FieldTypes)
  BY PartialFacts DEF SlotTypes, TypeOK, DataOK
<1>2. tables[x][f] \in FieldTypes
  BY <1>1, PartialFacts
<1> QED
  BY <1>2, RankFacts

LEMMA GrownFresh ==
  ASSUME NEW T, Grows(T), NEW E, NEW D, NEW o, NEW t, NEW F, Fresh(E, tables, D, o, t, F)
  PROVE  Fresh(E, T, D, o, t, F)
BY DEF Grows, Fresh

LEMMA LoadedSound ==
  ASSUME SlotTypes, NEW D \in Databases, Sound(tables, D), NEW t \in DOMAIN D, NEW T, IsLoaded(T, D, t)
  PROVE  Sound(T, D) /\ Grows(T)
<1>1. /\ DOMAIN T = DOMAIN tables \cup {t}
      /\ \A x \in DOMAIN tables : x # t => T[x] = tables[x]
      /\ \A f \in DOMAIN D[t].columns : f \in DOMAIN T[t] /\ T[t][f] = D[t].columns[f]
      /\ t \in DOMAIN tables => /\ DOMAIN T[t] = DOMAIN D[t].columns \cup DOMAIN tables[t]
                                /\ \A f \in DOMAIN tables[t] : f \notin DOMAIN D[t].columns => T[t][f] = tables[t][f]
      /\ t \notin DOMAIN tables => DOMAIN T[t] = DOMAIN D[t].columns
  BY DEF IsLoaded
<1>2. GoodTables(T)
  <2> SUFFICES ASSUME NEW x \in DOMAIN T, NEW f \in DOMAIN T[x]
               PROVE  Suits(f, T[x][f])
    BY DEF GoodTables
  <2>1. CASE x # t
    BY <1>1, <2>1 DEF Sound, GoodTables
  <2>2. CASE x = t /\ f \in DOMAIN D[t].columns
    BY <1>1, <2>2 DEF Sound, GoodDb
  <2>3. CASE x = t /\ f \notin DOMAIN D[t].columns
    BY <1>1, <2>3 DEF Sound, GoodTables
  <2> QED
    BY <2>1, <2>2, <2>3
<1>3. \A f \in DOMAIN D[t].columns : Rank[D[t].columns[f]] \in 1 .. 3
  BY TableFacts, RankFacts
<1>4. DescribedIn(T, D)
  <2> SUFFICES ASSUME NEW x \in DOMAIN D \cap DOMAIN T, NEW f \in DOMAIN D[x].columns \cap DOMAIN T[x]
               PROVE  /\ Rank[T[x][f]] <= Rank[D[x].columns[f]]
                      /\ \A o \in DOMAIN D[x].rows :
                           Width(D[x].rows[o][f]) <= Rank[T[x][f]] \/ Width(D[x].rows[o][f]) <= 2
    BY DEF DescribedIn
  <2>1. CASE x # t
    BY <1>1, <2>1 DEF Sound, DescribedIn
  <2>2. CASE x = t
    BY <1>1, <1>3, <2>2 DEF Sound, FitsIn, Holds, Fits, Width
  <2> QED
    BY <2>1, <2>2
<1>5. Grows(T)
  <2> SUFFICES ASSUME NEW x \in DOMAIN tables, NEW f \in DOMAIN tables[x]
               PROVE  f \in DOMAIN T[x] /\ Rank[tables[x][f]] <= Rank[T[x][f]]
    BY <1>1 DEF Grows
  <2>1. Rank[tables[x][f]] <= Rank[tables[x][f]]
    BY DescriptionFacts
  <2>2. CASE x # t
    BY <1>1, <2>1, <2>2
  <2>3. CASE x = t /\ f \in DOMAIN D[t].columns
    BY <1>1, <2>3 DEF Sound, DescribedIn
  <2>4. CASE x = t /\ f \notin DOMAIN D[t].columns
    BY <1>1, <2>1, <2>4
  <2> QED
    BY <2>2, <2>3, <2>4
<1> QED
  BY <1>2, <1>4, <1>5 DEF Sound

LEMMA TouchedSound ==
  ASSUME SlotTypes, NEW D, Sound(tables, D), NEW t, NEW T, IsTouched(T, t)
  PROVE  Sound(T, D) /\ Grows(T)
<1>1. /\ DOMAIN T = DOMAIN tables \cup {t}
      /\ \A x \in DOMAIN tables : T[x] = tables[x]
      /\ t \notin DOMAIN tables => DOMAIN T[t] = {}
  BY DEF IsTouched
<1>2. GoodTables(T)
  BY <1>1 DEF Sound, GoodTables
<1>3. DescribedIn(T, D)
  BY <1>1 DEF Sound, DescribedIn
<1>4. \A x \in DOMAIN tables : \A f \in DOMAIN tables[x] : Rank[tables[x][f]] <= Rank[tables[x][f]]
  BY DescriptionFacts
<1>5. Grows(T)
  BY <1>1, <1>4 DEF Grows
<1> QED
  BY <1>2, <1>3, <1>5 DEF Sound
-----------------------------------------------------------------------------
(* The steps.                                                              *)

(* Freshness looks at one entity only.                                     *)
LEMMA SameFresh ==
  ASSUME NEW E, NEW T, NEW D, NEW o, NEW t, NEW F, NEW G, E[o] = G[o], Fresh(E, T, D, o, t, F)
  PROVE  Fresh(G, T, D, o, t, F)
BY DEF Fresh

LEMMA QuietData ==
  ASSUME DataInv, UNCHANGED <<entities, tables, db, cur, todo>>,
         pc' = pc \/ (pc \notin Busy /\ pc' \notin Busy)
  PROVE  DataInv'
<1>1. CASE pc' = pc
  BY <1>1 DEF DataInv, VisitedFit, Merged, Cached, Unwritten
<1>2. CASE pc \notin Busy /\ pc' \notin Busy
  <2>1. VisitedFit' /\ Merged'
    BY <1>2 DEF VisitedFit, Merged, Busy
  <2>2. Cached'
    BY <1>2 DEF DataInv, Cached
  <2> QED
    BY <2>1, <2>2 DEF DataInv
<1> QED
  BY <1>1, <1>2

(* The thread is idle again with some of the entities, all of them fresh.  *)
LEMMA IdleData ==
  ASSUME pc' = "idle", GoodEntities(entities'), Sound(tables', db'),
         \A o \in DOMAIN entities' : \E t \in Tables : Fresh(entities', tables', db', o, t, DOMAIN entities'[o])
  PROVE  DataInv'
<1>1. VisitedFit' /\ Merged'
  BY DEF VisitedFit, Merged, Busy
<1>2. Cached'
  BY DEF Cached, Busy
<1> QED
  BY <1>1, <1>2 DEF DataInv

(* A write that failed leaves the entity out of the cache.                 *)
LEMMA FailureData ==
  ASSUME SlotTypes, DataInv, pc \in Busy, SerializeFails, tables' = tables, Sound(tables, db'),
         \A p, x, F : p # cur.request.object /\ Fresh(entities, tables, db, p, x, F)
                        => Fresh(entities, tables, db', p, x, F)
  PROVE  DataInv'
<1>1. pc' = "idle" /\ entities' = Without(entities, cur.request.object)
  BY DEF SerializeFails, Respond, releaseEntity
<1>2. /\ DOMAIN entities' = DOMAIN entities \ {cur.request.object}
      /\ \A p \in DOMAIN entities' : entities'[p] = entities[p]
  BY <1>1 DEF Without, Restrict
<1>3. GoodEntities(entities')
  BY <1>2 DEF DataInv, GoodEntities
<1>4. ASSUME NEW p \in DOMAIN entities'
      PROVE  \E t \in Tables : Fresh(entities', tables', db', p, t, DOMAIN entities'[p])
  <2>1. p \in DOMAIN entities /\ p # cur.request.object /\ entities'[p] = entities[p]
    BY <1>2
  <2>2. PICK t \in Tables : Fresh(entities, tables, db, p, t, DOMAIN entities[p])
    BY <2>1 DEF DataInv, Cached
  <2>3. Fresh(entities, tables, db', p, t, DOMAIN entities[p])
    BY <2>1, <2>2
  <2>4. Fresh(entities', tables, db', p, t, DOMAIN entities[p])
    BY <2>1, <2>3, SameFresh
  <2> QED
    BY <2>1, <2>4
<1> QED
  BY <1>1, <1>3, <1>4, IdleData

(* A field of the entity has been visited.                                 *)
LEMMA VisitedData ==
  ASSUME SlotTypes, SlotTypes', DataInv, NEW f, pc = "fields", Visited(f),
         Sound(tables', db'), Grows(tables'),
         \A p, x, F : Fresh(entities, tables, db, p, x, F) => Fresh(entities, tables', db', p, x, F),
         f \in DOMAIN tables'[cur.request.table],
         Width(entities[cur.request.object][f]) <= Rank[tables'[cur.request.table][f]]
  PROVE  DataInv'
<1>1. PICK o, t : o = cur.request.object /\ t = cur.request.table
  OBVIOUS
<1>2. /\ pc' \in {"fields", "insert"} /\ todo' = todo \ {f} /\ UNCHANGED <<entities, cur>>
      /\ pc \in Busy /\ pc' \in Busy
  BY LoopFacts DEF Visited, Busy
<1>3. t \in DOMAIN tables
  BY <1>1, <1>2 DEF SlotTypes, Working
<1>4. \A g \in DOMAIN entities[o] : Width(entities[o][g]) \in 1 .. 3
  BY <1>1, <1>2, CurrentRequest, WidthFacts
<1>5. VisitedFit'
  <2> SUFFICES ASSUME NEW g \in DOMAIN entities[o], g \notin todo'
               PROVE  g \in DOMAIN tables'[t] /\ Width(entities[o][g]) <= Rank[tables'[t][g]]
    BY <1>1, <1>2 DEF VisitedFit
  <2>1. CASE g = f
    BY <1>1, <2>1
  <2>2. CASE g # f
    <3>1. g \in DOMAIN tables[t] /\ Width(entities[o][g]) <= Rank[tables[t][g]]
      BY <1>1, <1>2, <2>2 DEF DataInv, VisitedFit
    <3>2. g \in DOMAIN tables'[t] /\ Rank[tables[t][g]] <= Rank[tables'[t][g]]
      BY <1>3, <3>1 DEF Grows
    <3>3. Rank[tables[t][g]] \in 1 .. 3
      BY <1>3, <3>1, DescriptionFacts
    <3>4. tables'[t] \in Partial(Fields, FieldTypes)
      BY <1>3, PartialFacts DEF Grows, SlotTypes, TypeOK, DataOK
    <3>5. Rank[tables'[t][g]] \in 1 .. 3
      BY <3>2, <3>4, PartialFacts, RankFacts
    <3> QED
      BY <1>4, <3>1, <3>2, <3>3, <3>5
  <2> QED
    BY <2>1, <2>2
<1>6. Merged'
  BY <1>2 DEF DataInv, Merged
<1>7. Cached'
  BY <1>2 DEF DataInv, Cached, Unwritten
<1> QED
  BY <1>2, <1>5, <1>6, <1>7 DEF DataInv

(* A write is taken: the cached entity was fresh, and gets the values of   *)
(* the request.                                                            *)
LEMMA TakeSerializeData ==
  ASSUME SlotTypes, SlotTypes', OneFamily, DataInv, TakeSerialize
  PROVE  DataInv'
<1>1. PICK r, o : r = Head(wlist).request /\ o = r.object
  OBVIOUS
<1>2. pc = "idle" /\ wlist # <<>> /\ r.kind = "serialize" /\ UNCHANGED <<tables, db>>
  BY <1>1 DEF TakeSerialize
<1>3. r \in Requests
  BY <1>1, <1>2, FirstRequest
<1>4. o \in Objects /\ r.values \in Partial(Fields, Data) /\ r.legal \in BOOLEAN
  BY <1>1, <1>2, <1>3, RequestFacts
<1>5. \A p \in DOMAIN entities : \E t \in Tables : Fresh(entities, tables, db, p, t, DOMAIN entities[p])
  BY <1>2 DEF DataInv, Cached, Busy
<1>6. CASE r.legal
  <2>1. IsParsed(entities', o, r.values)
    <3>1. entities' = ParseFromString(o, r.values)
      BY <1>1, <1>6 DEF TakeSerialize
    <3> QED
      BY <1>4, <3>1, Parsed DEF SlotTypes, TypeOK
  <2>2. /\ cur'.request = r
        /\ todo' = DOMAIN entities'[o]
    BY <1>1, <1>6 DEF TakeSerialize
  <2>3. /\ DOMAIN entities' = DOMAIN entities \cup {o}
        /\ \A p \in DOMAIN entities : p # o => entities'[p] = entities[p]
        /\ \A f \in DOMAIN r.values : f \in DOMAIN entities'[o] /\ entities'[o][f] = FromJson[r.values[f]]
        /\ \A f \in DOMAIN entities'[o] : f \notin DOMAIN r.values =>
             o \in DOMAIN entities /\ f \in DOMAIN entities[o] /\ entities'[o][f] = entities[o][f]
    BY <2>1 DEF IsParsed
  <2>4. r \in Writes
    BY <1>2, <1>3, <1>6 DEF Writes
  <2>5. GoodEntities(entities')
    <3> SUFFICES ASSUME NEW p \in DOMAIN entities', NEW f \in DOMAIN entities'[p]
                 PROVE  Suits(f, v2m[entities'[p][f]])
      BY DEF GoodEntities
    <3>1. CASE p # o
      BY <2>3, <3>1 DEF DataInv, GoodEntities
    <3>2. CASE p = o /\ f \in DOMAIN r.values
      BY <2>3, <2>4, <3>2, WriteSuits
    <3>3. CASE p = o /\ f \notin DOMAIN r.values
      BY <2>3, <3>3 DEF DataInv, GoodEntities
    <3> QED
      BY <3>1, <3>2, <3>3
  <2>6. VisitedFit'
    BY <1>1, <2>2 DEF VisitedFit
  <2>7. Merged'
    BY <1>1, <2>2, <2>3 DEF Merged
  <2>8. Cached'
    <3>1. ASSUME NEW p \in DOMAIN entities', p # o
          PROVE  \E t \in Tables : Fresh(entities', tables', db', p, t, DOMAIN entities'[p])
      <4>1. p \in DOMAIN entities /\ entities'[p] = entities[p]
        BY <2>3, <3>1
      <4>2. PICK t \in Tables : Fresh(entities, tables, db, p, t, DOMAIN entities[p])
        BY <1>5, <4>1
      <4>3. Fresh(entities', tables, db, p, t, DOMAIN entities[p])
        BY <4>1, <4>2, SameFresh
      <4> QED
        BY <1>2, <4>1, <4>3
    <3>2. Unwritten(o)'
      <4>1. CASE DOMAIN entities'[o] \subseteq DOMAIN r.values
        BY <2>2, <4>1 DEF Unwritten
      <4>2. CASE ~(DOMAIN entities'[o] \subseteq DOMAIN r.values)
        <5>1. o \in DOMAIN entities
          BY <2>3, <4>2
        <5>2. PICK t \in Tables : Fresh(entities, tables, db, o, t, DOMAIN entities[o])
          BY <1>5, <5>1
        <5>3. Fresh(entities', tables, db, o, t, DOMAIN entities'[o] \ DOMAIN r.values)
          BY <2>3, <5>2 DEF Fresh, Holds
        <5> QED
          BY <1>2, <2>2, <5>3 DEF Unwritten
      <4> QED
        BY <4>1, <4>2
    <3>3. pc' \in Busy
      BY <1>1, <1>6, LoopFacts DEF TakeSerialize, Busy
    <3> QED
      BY <1>1, <2>2, <3>1, <3>2, <3>3 DEF Cached
  <2> QED
    BY <1>2, <2>5, <2>6, <2>7, <2>8 DEF DataInv
<1>7. CASE ~r.legal
  <2>1. pc' = "idle" /\ entities' = Without(entities, o)
    BY <1>1, <1>7 DEF TakeSerialize, ParseFails, releaseEntity, Respond
  <2>2. DOMAIN entities' = DOMAIN entities \ {o} /\ \A p \in DOMAIN entities' : entities'[p] = entities[p]
    BY <2>1 DEF Without, Restrict
  <2>3. GoodEntities(entities')
    BY <2>2 DEF DataInv, GoodEntities
  <2>4. ASSUME NEW p \in DOMAIN entities'
        PROVE  \E t \in Tables : Fresh(entities', tables', db', p, t, DOMAIN entities'[p])
    <3>1. p \in DOMAIN entities /\ entities'[p] = entities[p]
      BY <2>2
    <3>2. PICK t \in Tables : Fresh(entities, tables, db, p, t, DOMAIN entities[p])
      BY <1>5, <3>1
    <3>3. Fresh(entities', tables, db, p, t, DOMAIN entities[p])
      BY <3>1, <3>2, SameFresh
    <3> QED
      BY <1>2, <3>1, <3>3
  <2> QED
    BY <1>2, <2>1, <2>3, <2>4, IdleData DEF DataInv
<1> QED
  BY <1>4, <1>6, <1>7

(* The table is created for the entity, or the write fails.                *)
LEMMA CreateData ==
  ASSUME SlotTypes, SlotTypes', DataInv, CreateStep
  PROVE  DataInv'
<1>1. PICK t, o, D : t = cur.request.table /\ o = cur.request.object /\ D = createTable(t, entities[o])
  OBVIOUS
<1>2. pc = "create" /\ pc \in Busy
  BY DEF CreateStep, Busy
<1>3. PICK out \in IF t \notin DOMAIN db THEN Outcomes ELSE Refused :
        /\ db' = IF out.done THEN D ELSE db
        /\ \/ /\ out.rc
              /\ tables' = loadField(D, t)
              /\ pc' = Loop(todo)
              /\ UNCHANGED <<rlist, entities, cur, todo>>
           \/ ~out.rc /\ SerializeFails /\ UNCHANGED tables
  BY <1>1 DEF CreateStep
<1>4. out.done \in BOOLEAN /\ out.rc \in BOOLEAN /\ (out.rc => out.done) /\ (out.done => t \notin DOMAIN db)
  BY <1>3, OutcomeFacts
<1>5. t \in Tables /\ o \in DOMAIN entities /\ entities[o] \in Partial(Fields, Data)
  BY <1>1, <1>2, CurrentRequest
<1>6. t \notin DOMAIN tables
  BY <1>1, <1>2 DEF SlotTypes, Working
<1>7. out.done => IsCreated(D, t, entities[o])
  BY <1>1, <1>5, Created DEF SlotTypes, TypeOK
<1>8. Sound(tables, db') /\ KeepsFresh(db')
  <2>1. CASE out.done
    BY <1>3, <1>4, <1>5, <1>6, <1>7, <2>1, CreatedSound DEF DataInv
  <2>2. CASE ~out.done
    BY <1>3, <2>2 DEF DataInv, KeepsFresh
  <2> QED
    BY <1>4, <2>1, <2>2
<1>9. CASE out.rc
  <2>1. D \in Databases /\ t \in DOMAIN D /\ db' = D
    BY <1>3, <1>4, <1>7, <1>9 DEF IsCreated
  <2>2. IsLoaded(tables', D, t)
    BY <1>3, <1>9, <2>1, Loaded DEF SlotTypes, TypeOK
  <2>3. Sound(tables', db') /\ Grows(tables')
    BY <1>8, <2>1, <2>2, LoadedSound
  <2>4. UNCHANGED <<entities, cur, todo>> /\ pc' \in {"fields", "insert"} /\ pc' \in Busy /\ (pc' = "insert" => todo = {})
    BY <1>3, <1>9, LoopFacts DEF Busy
  <2>5. \A p, x, F : Fresh(entities, tables, db, p, x, F) => Fresh(entities, tables', db', p, x, F)
    BY <1>8, <2>3, GrownFresh DEF KeepsFresh
  <2>6. VisitedFit'
    <3> SUFFICES ASSUME NEW g \in DOMAIN entities[o], g \notin todo
                 PROVE  g \in DOMAIN tables'[t] /\ Width(entities[o][g]) <= Rank[tables'[t][g]]
      BY <1>1, <2>4 DEF VisitedFit
    <3>1. g \in DOMAIN D[t].columns /\ D[t].columns[g] = v2m[entities[o][g]]
      BY <1>4, <1>7, <1>9 DEF IsCreated
    <3>2. g \in DOMAIN tables'[t] /\ tables'[t][g] = v2m[entities[o][g]]
      BY <2>2, <3>1 DEF IsLoaded
    <3>3. Width(entities[o][g]) \in 1 .. 3
      BY <1>1, <1>2, CurrentRequest, WidthFacts
    <3> QED
      BY <3>2, <3>3 DEF Width
  <2>7. Merged'
    BY <1>2, <2>4 DEF DataInv, Merged
  <2>8. Cached'
    BY <1>2, <2>4, <2>5 DEF DataInv, Cached, Unwritten
  <2> QED
    BY <2>3, <2>4, <2>6, <2>7, <2>8 DEF DataInv
<1>10. CASE ~out.rc
  BY <1>2, <1>3, <1>8, <1>10, FailureData DEF KeepsFresh
<1> QED
  BY <1>4, <1>9, <1>10

LEMMA AddData ==
  ASSUME SlotTypes, SlotTypes', ZeroFits, DataInv, NEW f \in todo, AddStep(f)
  PROVE  DataInv'
<1>1. PICK t, o, type : t = cur.request.table /\ o = cur.request.object /\ type = v2m[entities[o][f]]
  OBVIOUS
<1>2. /\ pc = "fields" /\ f \notin DOMAIN tables[t]
      /\ \/ db' = db
         \/ t \in DOMAIN db /\ f \notin DOMAIN db[t].columns /\ IsAdded(db', t, f, type)
      /\ \/ SerializeFails /\ UNCHANGED tables
         \/ /\ Visited(f)
            /\ t \in DOMAIN db /\ f \notin DOMAIN db[t].columns /\ IsAdded(db', t, f, type)
            /\ IsLoaded(tables', db', t)
  BY <1>1, AddCases
<1>3. pc \in Busy /\ f \in Fields /\ t \in DOMAIN tables /\ type \in FieldTypes /\ f \in DOMAIN entities[o] /\ o \in DOMAIN entities
  BY <1>1, <1>2, FieldFacts, CurrentRequest DEF Busy
<1>4. Suits(f, type)
  BY <1>1, <1>3 DEF DataInv, GoodEntities
<1>5. Sound(tables, db') /\ KeepsFresh(db')
  <2>1. CASE db' = db
    BY <2>1 DEF DataInv, KeepsFresh
  <2>2. CASE t \in DOMAIN db /\ f \notin DOMAIN db[t].columns /\ IsAdded(db', t, f, type)
    BY <1>2, <1>3, <1>4, <2>2, AddedSound DEF DataInv
  <2> QED
    BY <1>2, <2>1, <2>2
<1>6. CASE SerializeFails /\ UNCHANGED tables
  BY <1>3, <1>5, <1>6, FailureData DEF KeepsFresh
<1>7. CASE /\ Visited(f)
           /\ t \in DOMAIN db /\ f \notin DOMAIN db[t].columns /\ IsAdded(db', t, f, type)
           /\ IsLoaded(tables', db', t)
  <2>1. db' \in Databases /\ t \in DOMAIN db' /\ f \in DOMAIN db'[t].columns /\ db'[t].columns[f] = type
    BY <1>7 DEF IsAdded
  <2>2. Sound(tables', db') /\ Grows(tables')
    BY <1>5, <1>7, <2>1, LoadedSound
  <2>3. f \in DOMAIN tables'[t] /\ tables'[t][f] = type
    BY <1>7, <2>1 DEF IsLoaded
  <2>4. Width(entities[o][f]) <= Rank[tables'[t][f]]
    BY <1>1, <1>3, <2>3, RankFacts DEF Width
  <2>5. \A p, x, F : Fresh(entities, tables, db, p, x, F) => Fresh(entities, tables', db', p, x, F)
    BY <1>5, <2>2, GrownFresh DEF KeepsFresh
  <2> QED
    BY <1>1, <1>2, <1>7, <2>2, <2>3, <2>4, <2>5, VisitedData
<1> QED
  BY <1>2, <1>6, <1>7

LEMMA AlterData ==
  ASSUME SlotTypes, SlotTypes', StoredOnce, DataInv, NEW f \in todo, AlterStep(f)
  PROVE  DataInv'
<1>1. PICK t, o, type : t = cur.request.table /\ o = cur.request.object /\ type = v2m[entities[o][f]]
  OBVIOUS
<1>2. /\ pc = "fields" /\ f \in DOMAIN tables[t] /\ m2m(tables[t][f], type)
      /\ \/ db' = db
         \/ t \in DOMAIN db /\ f \in DOMAIN db[t].columns /\ IsAltered(db', t, f, type)
      /\ \/ SerializeFails /\ UNCHANGED tables
         \/ /\ Visited(f)
            /\ t \in DOMAIN db /\ f \in DOMAIN db[t].columns /\ IsAltered(db', t, f, type)
            /\ IsLoaded(tables', db', t)
  BY <1>1, AlterCases
<1>3. pc \in Busy /\ t \in DOMAIN tables /\ type \in FieldTypes /\ f \in DOMAIN entities[o] /\ o \in DOMAIN entities
  BY <1>1, <1>2, FieldFacts, CurrentRequest DEF Busy
<1>4. Suits(f, type) /\ Suits(f, tables[t][f])
  BY <1>1, <1>2, <1>3 DEF DataInv, GoodEntities, Sound, GoodTables
<1>5. Rank[tables[t][f]] < Rank[type]
  BY <1>2, <1>4, OnlyWider
<1>6. Sound(tables, db') /\ KeepsFresh(db')
  <2>1. CASE db' = db
    BY <2>1 DEF DataInv, KeepsFresh
  <2>2. CASE t \in DOMAIN db /\ f \in DOMAIN db[t].columns /\ IsAltered(db', t, f, type)
    BY <1>2, <1>3, <1>4, <1>5, <2>2, AlteredSound DEF DataInv
  <2> QED
    BY <1>2, <2>1, <2>2
<1>7. CASE SerializeFails /\ UNCHANGED tables
  BY <1>3, <1>6, <1>7, FailureData DEF KeepsFresh
<1>8. CASE /\ Visited(f)
           /\ t \in DOMAIN db /\ f \in DOMAIN db[t].columns /\ IsAltered(db', t, f, type)
           /\ IsLoaded(tables', db', t)
  <2>1. db' \in Databases /\ t \in DOMAIN db' /\ f \in DOMAIN db'[t].columns /\ db'[t].columns[f] = type
    BY <1>8 DEF IsAltered
  <2>2. Sound(tables', db') /\ Grows(tables')
    BY <1>6, <1>8, <2>1, LoadedSound
  <2>3. f \in DOMAIN tables'[t] /\ tables'[t][f] = type
    BY <1>8, <2>1 DEF IsLoaded
  <2>4. Width(entities[o][f]) <= Rank[tables'[t][f]]
    BY <1>1, <1>3, <2>3, RankFacts DEF Width
  <2>5. \A p, x, F : Fresh(entities, tables, db, p, x, F) => Fresh(entities, tables', db', p, x, F)
    BY <1>6, <2>2, GrownFresh DEF KeepsFresh
  <2> QED
    BY <1>1, <1>2, <1>8, <2>2, <2>3, <2>4, <2>5, VisitedData
<1> QED
  BY <1>2, <1>7, <1>8

LEMMA KeepData ==
  ASSUME SlotTypes, SlotTypes', DataInv, NEW f \in todo, KeepStep(f)
  PROVE  DataInv'
<1>1. PICK t, o, type : t = cur.request.table /\ o = cur.request.object /\ type = v2m[entities[o][f]]
  OBVIOUS
<1>2. /\ pc = "fields" /\ f \in DOMAIN tables[t] /\ ~m2m(tables[t][f], type)
      /\ Visited(f) /\ UNCHANGED <<tables, db>>
  BY <1>1 DEF KeepStep
<1>3. t \in DOMAIN tables /\ type \in FieldTypes /\ f \in DOMAIN entities[o] /\ o \in DOMAIN entities
  BY <1>1, <1>2, FieldFacts, CurrentRequest DEF Busy
<1>4. Suits(f, type) /\ Suits(f, tables[t][f])
  BY <1>1, <1>2, <1>3 DEF DataInv, GoodEntities, Sound, GoodTables
<1>5. Rank[type] \in 1 .. 3 /\ Rank[tables[t][f]] \in 1 .. 3
  BY <1>2, <1>3, RankFacts, DescriptionFacts
<1>6. ~(Rank[tables[t][f]] < Rank[type])
  BY <1>2, <1>4, OnlyWider
<1>7. Width(entities[o][f]) <= Rank[tables[t][f]]
  BY <1>1, <1>5, <1>6 DEF Width
<1>8. Grows(tables')
  BY <1>2, DescriptionFacts DEF Grows
<1> QED
  BY <1>1, <1>2, <1>7, <1>8, VisitedData DEF DataInv

(* All fields have been visited when the row is written.                   *)
LEMMA AllVisited ==
  ASSUME SlotTypes, DataInv, pc = "insert", NEW t, t = cur.request.table, NEW o, o = cur.request.object
  PROVE  /\ pc \in Busy /\ t \in DOMAIN tables /\ o \in DOMAIN entities
         /\ \E r \in Requests : r.object = o /\ r.table = t
         /\ \A f \in DOMAIN entities[o] : f \in DOMAIN tables[t] /\ Width(entities[o][f]) <= Rank[tables[t][f]]
<1>1. pc \in Busy /\ todo = {} /\ t \in DOMAIN tables
  BY DEF Busy, SlotTypes, Working
<1>2. o \in DOMAIN entities /\ cur.request \in Requests
  BY <1>1, CurrentRequest
<1> QED
  BY <1>1, <1>2 DEF DataInv, VisitedFit

LEMMA InsertData ==
  ASSUME SlotTypes, SlotTypes', ZeroFits, StoredOnce, DataInv, Insert
  PROVE  DataInv'
<1>1. PICK t, o : t = cur.request.table /\ o = cur.request.object
  OBVIOUS
<1>2. /\ pc = "insert" /\ tables' = tables
      /\ \/ db' = db /\ SerializeFails
         \/ /\ t \in DOMAIN db /\ DOMAIN entities[o] \subseteq DOMAIN db[t].columns
            /\ IsInserted(db', t, o)
            /\ SerializeFails \/ (Respond(OK) /\ UNCHANGED entities)
  BY <1>1, InsertCases
<1>3. /\ pc \in Busy /\ t \in DOMAIN tables /\ o \in DOMAIN entities
      /\ \E r \in Requests : r.object = o /\ r.table = t
      /\ \A f \in DOMAIN entities[o] : f \in DOMAIN tables[t] /\ Width(entities[o][f]) <= Rank[tables[t][f]]
  BY <1>1, <1>2, AllVisited
<1>4. CASE db' = db /\ SerializeFails
  BY <1>2, <1>3, <1>4, FailureData DEF DataInv
<1>5. CASE t \in DOMAIN db /\ DOMAIN entities[o] \subseteq DOMAIN db[t].columns /\ IsInserted(db', t, o)
  <2>1. /\ Sound(tables, db')
        /\ \A p, x, F : p # o /\ Fresh(entities, tables, db, p, x, F) => Fresh(entities, tables, db', p, x, F)
        /\ Fresh(entities, tables, db', o, t, DOMAIN entities[o])
    BY <1>3, <1>5, InsertedSound DEF DataInv
  <2>2. CASE SerializeFails
    BY <1>1, <1>2, <1>3, <2>1, <2>2, FailureData
  <2>3. CASE Respond(OK) /\ UNCHANGED entities
    <3>1. pc' = "idle"
      BY <2>3 DEF Respond
    <3>2. t \in Tables
      BY <1>1, <1>3, CurrentRequest
    <3>3. \A p \in DOMAIN entities : \E x \in Tables : Fresh(entities, tables, db', p, x, DOMAIN entities[p])
      BY <1>1, <2>1, <3>2 DEF DataInv, Cached
    <3> QED
      BY <1>2, <2>1, <2>3, <3>1, <3>3, IdleData DEF DataInv
  <2> QED
    BY <1>2, <1>3, <1>4, <2>2, <2>3
<1> QED
  BY <1>2, <1>4, <1>5

LEMMA UnserializeData ==
  ASSUME SlotTypes, SlotTypes', DataInv, Unserialize
  PROVE  DataInv'
<1>1. PICK t, o : t = Head(wlist).request.table /\ o = Head(wlist).request.object
  OBVIOUS
<1>2. /\ pc = "idle" /\ Head(wlist).request \in Requests /\ db' = db
      /\ Respond(OK) \/ Respond(NOT_FOUND_OBJECT)
      /\ \/ UNCHANGED <<entities, tables>>
         \/ /\ t \in DOMAIN db /\ o \in DOMAIN db[t].rows /\ o \notin DOMAIN entities
            /\ tables' = TouchTable(t) /\ IsTouched(tables', t)
            /\ IsRead(entities', t, o)
         \/ IsTouched(tables', t) /\ UNCHANGED entities
  BY <1>1, UnserializeCases
<1>3. pc' = "idle"
  BY <1>2 DEF Respond
<1>4. \A p \in DOMAIN entities : \E x \in Tables : Fresh(entities, tables, db, p, x, DOMAIN entities[p])
  BY <1>2 DEF DataInv, Cached, Busy
<1>5. Sound(tables', db') /\ (tables' = tables \/ Grows(tables'))
  <2>1. IsTouched(tables', t) => Sound(tables', db) /\ Grows(tables')
    BY TouchedSound DEF DataInv
  <2> QED
    BY <1>2, <2>1 DEF DataInv
<1>6. \A p, x, F : Fresh(entities, tables, db, p, x, F) => Fresh(entities, tables', db', p, x, F)
  BY <1>2, <1>5, GrownFresh
<1>7. CASE UNCHANGED entities
  <2>1. \A p \in DOMAIN entities : \E x \in Tables : Fresh(entities, tables', db', p, x, DOMAIN entities[p])
    BY <1>4, <1>6
  <2> QED
    BY <1>3, <1>5, <1>7, <2>1, IdleData DEF DataInv
<1>8. CASE /\ t \in DOMAIN db /\ o \in DOMAIN db[t].rows /\ o \notin DOMAIN entities
           /\ tables' = TouchTable(t) /\ IsTouched(tables', t)
           /\ IsRead(entities', t, o)
  <2>1. /\ DOMAIN entities' = DOMAIN entities \cup {o}
        /\ \A p \in DOMAIN entities : entities'[p] = entities[p]
        /\ DOMAIN entities'[o] = DOMAIN db[t].columns \cap DOMAIN tables'[t]
        /\ \A f \in DOMAIN entities'[o] : entities'[o][f] = db[t].rows[o][f]
    BY <1>8 DEF IsRead
  <2>2. GoodEntities(entities')
    <3> SUFFICES ASSUME NEW p \in DOMAIN entities', NEW f \in DOMAIN entities'[p]
                 PROVE  Suits(f, v2m[entities'[p][f]])
      BY DEF GoodEntities
    <3>1. CASE p # o
      BY <2>1, <3>1 DEF DataInv, GoodEntities
    <3>2. CASE p = o
      BY <1>8, <2>1, <3>2 DEF DataInv, Sound, GoodDb
    <3> QED
      BY <3>1, <3>2
  <2>3. t \in Tables /\ t \in DOMAIN tables'
    BY <1>1, <1>2, <1>8, RequestFacts DEF IsTouched
  <2>4. Fresh(entities', tables', db', o, t, DOMAIN entities'[o])
    BY <1>1, <1>2, <1>8, <2>1, <2>3 DEF Fresh, DataInv, Sound, FitsIn
  <2>5. ASSUME NEW p \in DOMAIN entities', p # o
        PROVE  \E x \in Tables : Fresh(entities', tables', db', p, x, DOMAIN entities'[p])
    <3>1. p \in DOMAIN entities /\ entities'[p] = entities[p]
      BY <2>1, <2>5
    <3>2. PICK x \in Tables : Fresh(entities, tables', db', p, x, DOMAIN entities[p])
      BY <1>4, <1>6, <3>1
    <3>3. Fresh(entities', tables', db', p, x, DOMAIN entities[p])
      BY <3>1, <3>2, SameFresh
    <3> QED
      BY <3>1, <3>3
  <2> QED
    BY <1>3, <1>5, <2>2, <2>3, <2>4, <2>5, IdleData
<1> QED
  BY <1>2, <1>7, <1>8

LEMMA RemoveData ==
  ASSUME SlotTypes, DataInv, removeEntity
  PROVE  DataInv'
<1>1. PICK o : o = Head(wlist).request.object
  OBVIOUS
<1>2. pc = "idle" /\ pc' = "idle" /\ entities' = Without(entities, o) /\ UNCHANGED <<tables, db>>
  BY <1>1 DEF removeEntity, Respond
<1>3. DOMAIN entities' = DOMAIN entities \ {o} /\ \A p \in DOMAIN entities' : entities'[p] = entities[p]
  BY <1>2 DEF Without, Restrict
<1>4. GoodEntities(entities')
  BY <1>3 DEF DataInv, GoodEntities
<1>5. ASSUME NEW p \in DOMAIN entities'
      PROVE  \E t \in Tables : Fresh(entities', tables', db', p, t, DOMAIN entities'[p])
  <2>1. p \in DOMAIN entities /\ entities'[p] = entities[p]
    BY <1>3
  <2>2. PICK t \in Tables : Fresh(entities, tables, db, p, t, DOMAIN entities[p])
    BY <1>2, <2>1 DEF DataInv, Cached, Busy
  <2>3. Fresh(entities', tables, db, p, t, DOMAIN entities[p])
    BY <2>1, <2>2, SameFresh
  <2> QED
    BY <1>2, <2>1, <2>3
<1> QED
  BY <1>2, <1>4, <1>5, IdleData DEF DataInv

LEMMA AlterTableData ==
  ASSUME SlotTypes, SlotTypes', DataInv, alterTable
  PROVE  DataInv'
<1>1. PICK t, f : t = Head(wlist).request.table /\ f = Head(wlist).request.field
  OBVIOUS
<1>2. /\ pc = "idle" /\ UNCHANGED entities
      /\ Respond(OK) \/ Respond(DELETE_ERROR)
      /\ tables' = tables \/ IsTouched(tables', t)
      /\ \/ db' = db
         \/ t \in DOMAIN db /\ IsRemoved(db', t, f)
  BY <1>1, AlterTableCases
<1>3. pc' = "idle"
  BY <1>2 DEF Respond
<1>4. Sound(tables, db') /\ KeepsFresh(db')
  <2>1. CASE db' = db
    BY <2>1 DEF DataInv, KeepsFresh
  <2>2. CASE t \in DOMAIN db /\ IsRemoved(db', t, f)
    BY <2>2, RemovedSound DEF DataInv
  <2> QED
    BY <1>2, <2>1, <2>2
<1>5. Sound(tables', db') /\ (tables' = tables \/ Grows(tables'))
  <2>1. IsTouched(tables', t) => Sound(tables', db') /\ Grows(tables')
    BY <1>4, TouchedSound
  <2> QED
    BY <1>2, <1>4, <2>1
<1>6. \A p \in DOMAIN entities : \E x \in Tables : Fresh(entities, tables', db', p, x, DOMAIN entities[p])
  <2> SUFFICES ASSUME NEW p \in DOMAIN entities
               PROVE  \E x \in Tables : Fresh(entities, tables', db', p, x, DOMAIN entities[p])
    OBVIOUS
  <2>1. PICK x \in Tables : Fresh(entities, tables, db, p, x, DOMAIN entities[p])
    BY <1>2 DEF DataInv, Cached, Busy
  <2>2. Fresh(entities, tables, db', p, x, DOMAIN entities[p])
    BY <1>4, <2>1 DEF KeepsFresh
  <2> QED
    BY <1>5, <2>2, GrownFresh
<1> QED
  BY <1>2, <1>3, <1>5, <1>6, IdleData DEF DataInv

LEMMA RestartData ==
  ASSUME SlotTypes, DataInv, Restart
  PROVE  DataInv'
<1>1. pc' = "idle" /\ entities' = Empty /\ db' = db /\ tables' = [t \in DOMAIN db |-> db[t].columns]
  BY DEF Restart
<1>2. DOMAIN entities' = {}
  BY <1>1, EmptyPartial
<1>3. DOMAIN tables' = DOMAIN db /\ \A t \in DOMAIN db : tables'[t] = db[t].columns
  BY <1>1
<1>4. GoodTables(tables')
  BY <1>3 DEF GoodTables, DataInv, Sound, GoodDb
<1>5. \A t \in DOMAIN db : \A f \in DOMAIN db[t].columns : Rank[db[t].columns[f]] \in 1 .. 3
  BY TableFacts, RankFacts DEF SlotTypes, TypeOK, DataOK, Databases
<1>6. DescribedIn(tables', db)
  BY <1>3, <1>5 DEF DescribedIn, DataInv, Sound, FitsIn, Holds, Fits, Width
<1>7. Sound(tables', db')
  BY <1>1, <1>4, <1>6 DEF DataInv, Sound
<1> QED
  BY <1>1, <1>2, <1>7, IdleData DEF GoodEntities

LEMMA InitData == Init => DataInv
<1> SUFFICES ASSUME Init PROVE DataInv
  OBVIOUS
<1>1. DOMAIN entities = {} /\ DOMAIN tables = {} /\ DOMAIN db = {} /\ pc = "idle"
  BY EmptyPartial DEF Init
<1> QED
  BY <1>1 DEF DataInv, GoodEntities, Sound, GoodTables, GoodDb, FitsIn, DescribedIn, VisitedFit, Merged, Cached, Busy

LEMMA NextData ==
  ASSUME OneFamily, ZeroFits, StoredOnce, SlotTypes, SlotTypes', DataInv, [Next]_vars
  PROVE  DataInv'
<1>1. CASE UNCHANGED vars
  BY <1>1, QuietData DEF vars
<1>2. CASE (\E r \in Requests : request(r)) \/ update \/ stop \/ select
  BY <1>2, QuietData DEF request, update, stop, select
<1>3. CASE Round
  BY <1>3, QuietData DEF Round, Busy
<1>4. CASE TakeSerialize
  BY <1>4, TakeSerializeData
<1>5. CASE CreateStep
  BY <1>5, CreateData
<1>6. CASE \E f \in todo : AddStep(f) \/ AlterStep(f) \/ KeepStep(f)
  BY <1>6, AddData, AlterData, KeepData
<1>7. CASE Insert
  BY <1>7, InsertData
<1>8. CASE Unserialize
  BY <1>8, UnserializeData
<1>9. CASE removeEntity
  BY <1>9, RemoveData
<1>10. CASE alterTable
  BY <1>10, AlterTableData
<1>11. CASE Restart
  BY <1>11, RestartData
<1> QED
  BY <1>1, <1>2, <1>3, <1>4, <1>5, <1>6, <1>7, <1>8, <1>9, <1>10, <1>11 DEF Next, synchronous

(* The inductive invariant of the slot's data: what serialize, unserialize *)
(* and synchronous keep between any two statements (RecordProcess.cpp).    *)
THEOREM SlotInvariant ==
  ASSUME OneFamily, ZeroFits, StoredOnce
  PROVE  Spec => [](SlotTypes /\ DataInv)
<1>1. SlotTypes /\ SlotTypes' /\ DataInv /\ [Next]_vars => DataInv'
  BY NextData
<1> QED
  BY <1>1, InitData, SlotTypesInvariant, PTL DEF Spec

-----------------------------------------------------------------------------
(* Columns that are gone.                                                  *)

(* A described field of an existing table has its column, or is in G.      *)
Missing(T, D, G) ==
  \A t \in DOMAIN D \cap DOMAIN T : \A f \in DOMAIN T[t] : f \in DOMAIN D[t].columns \/ <<t, f>> \in G

LEMMA LoadedMissing ==
  ASSUME NEW D, NEW G, Missing(tables, D, G), NEW t \in DOMAIN D, NEW T, IsLoaded(T, D, t)
  PROVE  Missing(T, D, G)
<1>1. /\ DOMAIN T = DOMAIN tables \cup {t}
      /\ \A x \in DOMAIN tables : x # t => T[x] = tables[x]
      /\ t \in DOMAIN tables => DOMAIN T[t] = DOMAIN D[t].columns \cup DOMAIN tables[t]
      /\ t \notin DOMAIN tables => DOMAIN T[t] = DOMAIN D[t].columns
  BY DEF IsLoaded
<1> SUFFICES ASSUME NEW x \in DOMAIN D \cap DOMAIN T, NEW f \in DOMAIN T[x]
             PROVE  f \in DOMAIN D[x].columns \/ <<x, f>> \in G
  BY DEF Missing
<1>2. CASE x # t
  BY <1>1, <1>2 DEF Missing
<1>3. CASE x = t
  BY <1>1, <1>3 DEF Missing
<1> QED
  BY <1>2, <1>3

LEMMA TouchedMissing ==
  ASSUME NEW D, NEW G, Missing(tables, D, G), NEW t, NEW T, IsTouched(T, t)
  PROVE  Missing(T, D, G)
BY DEF Missing, IsTouched

LEMMA CreateMissing ==
  ASSUME SlotTypes, Missing(tables, db, dropped), CreateStep
  PROVE  Missing(tables', db', dropped')
<1>1. PICK t, e, D : t = cur.request.table /\ e = entities[cur.request.object] /\ D = createTable(t, e)
  OBVIOUS
<1>2. pc = "create" /\ pc \in Busy /\ dropped' = dropped
  BY DEF CreateStep, Busy
<1>3. PICK out \in IF t \notin DOMAIN db THEN Outcomes ELSE Refused :
        /\ db' = IF out.done THEN D ELSE db
        /\ \/ /\ out.rc
              /\ tables' = loadField(D, t)
              /\ pc' = Loop(todo)
              /\ UNCHANGED <<rlist, entities, cur, todo>>
           \/ ~out.rc /\ SerializeFails /\ UNCHANGED tables
  BY <1>1 DEF CreateStep
<1>4. out.done \in BOOLEAN /\ out.rc \in BOOLEAN /\ (out.rc => out.done)
  BY <1>3, OutcomeFacts
<1>5. t \in Tables /\ e \in Partial(Fields, Data) /\ t \notin DOMAIN tables
  BY <1>1, <1>2, CurrentRequest DEF SlotTypes, Working
<1>6. IsCreated(D, t, e)
  BY <1>1, <1>5, Created DEF SlotTypes, TypeOK
<1>7. D \in Databases /\ t \in DOMAIN D /\ Missing(tables, D, dropped)
  BY <1>5, <1>6 DEF IsCreated, Missing
<1>8. CASE out.rc
  BY <1>2, <1>3, <1>4, <1>7, <1>8, Loaded, LoadedMissing DEF SlotTypes, TypeOK
<1>9. CASE ~out.rc
  BY <1>2, <1>3, <1>4, <1>7, <1>9
<1> QED
  BY <1>4, <1>8, <1>9

LEMMA FieldMissing ==
  ASSUME SlotTypes, Missing(tables, db, dropped), NEW f \in todo, AddStep(f) \/ AlterStep(f)
  PROVE  Missing(tables', db', dropped')
<1>1. PICK t, type : t = cur.request.table /\ type = v2m[entities[cur.request.object][f]]
  OBVIOUS
<1>2. /\ dropped' = dropped
      /\ db' = db \/ (t \in DOMAIN db /\ (IsAdded(db', t, f, type) \/ IsAltered(db', t, f, type)))
      /\ UNCHANGED tables \/ (t \in DOMAIN db /\ IsLoaded(tables', db', t))
  <2>1. CASE AddStep(f)
    BY <1>1, <2>1, AddCases
  <2>2. CASE AlterStep(f)
    BY <1>1, <2>2, AlterCases
  <2> QED
    BY <2>1, <2>2
<1>3. Missing(tables, db', dropped) /\ DOMAIN db' = DOMAIN db
  BY <1>2 DEF Missing, IsAdded, IsAltered
<1> QED
  BY <1>2, <1>3, LoadedMissing

LEMMA NextMissing ==
  ASSUME SlotTypes, Missing(tables, db, dropped), [Next]_vars
  PROVE  Missing(tables', db', dropped')
<1>1. CASE UNCHANGED <<tables, db, dropped>>
  BY <1>1
<1>2. CASE (\E r \in Requests : request(r)) \/ update \/ stop \/ select \/ Round \/ removeEntity
  BY <1>1, <1>2 DEF request, update, stop, select, Round, removeEntity
<1>3. CASE TakeSerialize \/ \E f \in todo : KeepStep(f)
  BY <1>1, <1>3 DEF TakeSerialize, KeepStep
<1>4. CASE CreateStep
  BY <1>4, CreateMissing
<1>5. CASE \E f \in todo : AddStep(f) \/ AlterStep(f)
  BY <1>5, FieldMissing
<1>6. CASE Insert
  <2>1. PICK t, o : t = cur.request.table /\ o = cur.request.object
    OBVIOUS
  <2>2. tables' = tables /\ dropped' = dropped /\ (db' = db \/ (t \in DOMAIN db /\ IsInserted(db', t, o)))
    BY <1>6, <2>1, InsertCases
  <2> QED
    BY <2>2 DEF Missing, IsInserted
<1>7. CASE Unserialize
  <2>1. PICK t : t = Head(wlist).request.table
    OBVIOUS
  <2>2. UNCHANGED <<db, dropped>> /\ (tables' = tables \/ IsTouched(tables', t))
    BY <1>7, <2>1, UnserializeCases
  <2> QED
    BY <2>2, TouchedMissing
<1>8. CASE alterTable
  <2>1. PICK t, f : t = Head(wlist).request.table /\ f = Head(wlist).request.field
    OBVIOUS
  <2>2. /\ tables' = tables \/ IsTouched(tables', t)
        /\ \/ UNCHANGED <<db, dropped>>
           \/ t \in DOMAIN db /\ IsRemoved(db', t, f) /\ dropped' = dropped \cup {<<t, f>>}
    BY <1>8, <2>1, AlterTableCases
  <2>3. Missing(tables, db', dropped')
    BY <2>2 DEF Missing, IsRemoved
  <2> QED
    BY <2>2, <2>3, TouchedMissing
<1>9. CASE Restart
  <2>1. db' = db /\ tables' = [t \in DOMAIN db |-> db[t].columns]
    BY <1>9 DEF Restart
  <2> QED
    BY <2>1 DEF Missing
<1>10. CASE UNCHANGED vars
  BY <1>1, <1>10 DEF vars
<1> QED
  BY <1>2, <1>3, <1>4, <1>5, <1>6, <1>7, <1>8, <1>9, <1>10 DEF Next, synchronous

(* Between two requests the rows hold what the cache has, as far as the    *)
(* text of a statement keeps it, through lost replies, failed statements,  *)
(* columns that are added and changed and restarts: an entity is left out  *)
(* of the cache whenever its write fails.  Only the values of columns that *)
(* DROP_FIELD removed outlive them in the cache (RecordProcess.cpp,        *)
(* synchronous, serialize and alterTable).                                 *)
THEOREM SlotCacheIsFresh ==
  ASSUME OneFamily, ZeroFits, StoredOnce
  PROVE  Spec => []CacheIsFresh
<1>1. Init => Missing(tables, db, dropped)
  BY EmptyPartial DEF Init, Missing
<1>2. SlotTypes /\ DataInv /\ Missing(tables, db, dropped) /\ [Next]_vars => Missing(tables, db, dropped)'
  BY NextMissing
<1>3. ASSUME SlotTypes, DataInv, Missing(tables, db, dropped) PROVE CacheIsFresh
  <2> SUFFICES ASSUME pc = "idle", NEW o \in DOMAIN entities
               PROVE  \E t \in DOMAIN db :
                        /\ o \in DOMAIN db[t].rows
                        /\ \A f \in DOMAIN entities[o] :
                             IF f \in DOMAIN db[t].columns
                             THEN db[t].rows[o][f] = Stored[db[t].columns[f]][entities[o][f]]
                             ELSE <<t, f>> \in dropped
    BY DEF CacheIsFresh
  <2>1. PICK t \in Tables : Fresh(entities, tables, db, o, t, DOMAIN entities[o])
    BY <1>3 DEF DataInv, Cached, Busy
  <2>2. /\ t \in DOMAIN db /\ t \in DOMAIN tables /\ o \in DOMAIN db[t].rows
        /\ DOMAIN entities[o] \subseteq DOMAIN tables[t]
        /\ \A f \in DOMAIN entities[o] \cap DOMAIN db[t].columns : Holds(db, t, o, f, entities[o][f])
    BY <2>1 DEF Fresh
  <2>3. ASSUME NEW f \in DOMAIN entities[o], f \notin DOMAIN db[t].columns PROVE <<t, f>> \in dropped
    BY <1>3, <2>2, <2>3 DEF Missing
  <2> QED
    BY <2>2, <2>3 DEF Holds
<1> QED
  BY <1>1, <1>2, <1>3, SlotInvariant, PTL DEF Spec

(* A stored value fits its column, also where a lost reply has left the    *)
(* description narrower than the column and a later change makes the       *)
(* column narrower again (RecordProcess.cpp, m2m and serialize).           *)
THEOREM SlotColumnsFit ==
  ASSUME OneFamily, ZeroFits, StoredOnce
  PROVE  Spec => []ColumnsFit
<1>1. ASSUME DataInv PROVE ColumnsFit
  BY <1>1 DEF DataInv, Sound, FitsIn, Holds, Fits, ColumnsFit
<1> QED
  BY <1>1, SlotInvariant, PTL
-----------------------------------------------------------------------------
(* What clients were told is stored.                                       *)

(* The rows of the database D hold the acknowledged values A.              *)
StoredIn(A, D) ==
  \A k \in Tables \X Objects : \A f \in DOMAIN A[k] :
    /\ k[1] \in DOMAIN D
    /\ k[2] \in DOMAIN D[k[1]].rows
    /\ Holds(D, k[1], k[2], f, FromJson[A[k][f]])

LEMMA StoredSame ==
  ASSUME SlotTypes, StoredIn(acked, db)
  PROVE  AcknowledgedIsStored
BY DEF SlotTypes, TypeOK, DataOK, AcknowledgedIsStored, StoredIn, Holds

(* They are kept while no column of theirs goes.                           *)
LEMMA HeldStored ==
  ASSUME StoredIn(acked, db), NEW D, KeepsHeld(D),
         \A t \in DOMAIN db : DOMAIN db[t].columns \subseteq DOMAIN D[t].columns
  PROVE  StoredIn(acked, D)
<1> SUFFICES ASSUME NEW k \in Tables \X Objects, NEW f \in DOMAIN acked[k]
             PROVE  /\ k[1] \in DOMAIN D
                    /\ k[2] \in DOMAIN D[k[1]].rows
                    /\ Holds(D, k[1], k[2], f, FromJson[acked[k][f]])
  BY DEF StoredIn
<1>1. PICK t, o, d : t = k[1] /\ o = k[2] /\ d = FromJson[acked[k][f]]
  OBVIOUS
<1>2. t \in DOMAIN db /\ o \in DOMAIN db[t].rows /\ Holds(db, t, o, f, d)
  BY <1>1 DEF StoredIn
<1>3. f \in DOMAIN D[t].columns
  BY <1>2 DEF Holds
<1>4. t \in DOMAIN D /\ o \in DOMAIN D[t].rows /\ Holds(D, t, o, f, d)
  BY <1>2, <1>3 DEF KeepsHeld
<1> QED
  BY <1>1, <1>4

(* A dropped column takes its acknowledgements with it.                    *)
LEMMA RemovedStored ==
  ASSUME SlotTypes, StoredIn(acked, db), NEW t \in DOMAIN db, NEW f, NEW D, IsRemoved(D, t, f),
         NEW A, A = [k \in DOMAIN acked |-> IF k[1] = t THEN Without(acked[k], f) ELSE acked[k]]
  PROVE  StoredIn(A, D)
<1> SUFFICES ASSUME NEW k \in Tables \X Objects, NEW g \in DOMAIN A[k]
             PROVE  /\ k[1] \in DOMAIN D
                    /\ k[2] \in DOMAIN D[k[1]].rows
                    /\ Holds(D, k[1], k[2], g, FromJson[A[k][g]])
  BY DEF StoredIn
<1>1. k \in DOMAIN acked
  BY DEF SlotTypes, TypeOK, DataOK
<1>2. g \in DOMAIN acked[k] /\ A[k][g] = acked[k][g] /\ (k[1] = t => g # f)
  <2>1. CASE k[1] = t
    <3>1. A[k] = Without(acked[k], f)
      BY <1>1, <2>1
    <3> QED
      BY <3>1 DEF Without, Restrict
  <2>2. CASE k[1] # t
    BY <1>1, <2>2
  <2> QED
    BY <2>1, <2>2
<1>3. /\ k[1] \in DOMAIN db
      /\ k[2] \in DOMAIN db[k[1]].rows
      /\ Holds(db, k[1], k[2], g, FromJson[acked[k][g]])
  BY <1>2 DEF StoredIn
<1>4. CASE k[1] = t
  <2>1. g \in DOMAIN D[t].columns
    BY <1>2, <1>3, <1>4 DEF IsRemoved, Holds
  <2> QED
    BY <1>2, <1>3, <1>4, <2>1 DEF IsRemoved, Holds
<1>5. CASE k[1] # t
  BY <1>2, <1>3, <1>5 DEF IsRemoved, Holds
<1> QED
  BY <1>4, <1>5

(* A holds the acknowledgements after o was written to t with values: what *)
(* it says of the object is one of the values or was acknowledged before   *)
(* for a field that was not written.                                       *)
IsAcked(A, t, o, values) ==
  /\ \A k \in Tables \X Objects : k # <<t, o>> => A[k] = acked[k]
  /\ \A f \in DOMAIN A[<<t, o>>] :
       \/ f \in DOMAIN values /\ A[<<t, o>>][f] = values[f]
       \/ f \notin DOMAIN values /\ f \in DOMAIN acked[<<t, o>>] /\ A[<<t, o>>][f] = acked[<<t, o>>][f]

LEMMA Acked ==
  ASSUME SlotTypes, NEW t \in Tables, NEW o \in Objects, NEW values, NEW A,
         \/ A = [acked EXCEPT ![<<t, o>>] = Restrict(@, DOMAIN @ \ DOMAIN values)]
         \/ A = [acked EXCEPT ![<<t, o>>] = Over(values, @)]
  PROVE  IsAcked(A, t, o, values)
<1>1. <<t, o>> \in DOMAIN acked /\ DOMAIN acked = Tables \X Objects
  BY DEF SlotTypes, TypeOK, DataOK
<1>2. PICK a : a = acked[<<t, o>>]
  OBVIOUS
<1>3. \A k \in Tables \X Objects : k # <<t, o>> => A[k] = acked[k]
  BY <1>1
<1>4. CASE A = [acked EXCEPT ![<<t, o>>] = Restrict(@, DOMAIN @ \ DOMAIN values)]
  <2>1. A[<<t, o>>] = Restrict(a, DOMAIN a \ DOMAIN values)
    BY <1>1, <1>2, <1>4
  <2>2. \A f \in DOMAIN A[<<t, o>>] : f \notin DOMAIN values /\ f \in DOMAIN a /\ A[<<t, o>>][f] = a[f]
    BY <2>1 DEF Restrict
  <2> QED
    BY <1>2, <1>3, <2>2 DEF IsAcked
<1>5. CASE A = [acked EXCEPT ![<<t, o>>] = Over(values, @)]
  <2>1. A[<<t, o>>] = Over(values, a)
    BY <1>1, <1>2, <1>5
  <2>2. \A f \in DOMAIN A[<<t, o>>] :
          \/ f \in DOMAIN values /\ A[<<t, o>>][f] = values[f]
          \/ f \notin DOMAIN values /\ f \in DOMAIN a /\ A[<<t, o>>][f] = a[f]
    BY <2>1 DEF Over
  <2> QED
    BY <1>2, <1>3, <2>2 DEF IsAcked
<1> QED
  BY <1>4, <1>5

(* The row of an object is written with the values of the request, with    *)
(* what the cache has of it, which is what was stored, and with what was   *)
(* stored.                                                                 *)
LEMMA InsertedStored ==
  ASSUME SlotTypes, ZeroFits, StoredOnce, OneTable, DataInv, StoredIn(acked, db), pc = "insert",
         NEW t, t = cur.request.table, NEW o, o = cur.request.object,
         t \in DOMAIN db, DOMAIN entities[o] \subseteq DOMAIN db[t].columns,
         NEW D, IsInserted(D, t, o), NEW A, IsAcked(A, t, o, cur.request.values)
  PROVE  StoredIn(A, D)
<1> SUFFICES ASSUME NEW k \in Tables \X Objects, NEW f \in DOMAIN A[k]
             PROVE  /\ k[1] \in DOMAIN D
                    /\ k[2] \in DOMAIN D[k[1]].rows
                    /\ Holds(D, k[1], k[2], f, FromJson[A[k][f]])
  BY DEF StoredIn
<1>1. pc \in Busy
  BY DEF Busy
<1>2. t \in Tables /\ o \in Objects /\ o \in DOMAIN entities /\ cur.request \in Requests
  BY <1>1, CurrentRequest
<1>3. CASE k # <<t, o>>
  <2>1. A[k] = acked[k]
    BY <1>3 DEF IsAcked
  <2>2. /\ k[1] \in DOMAIN db
        /\ k[2] \in DOMAIN db[k[1]].rows
        /\ Holds(db, k[1], k[2], f, FromJson[acked[k][f]])
    BY <2>1 DEF StoredIn
  <2>3. CASE k[1] # t
    BY <2>1, <2>2, <2>3 DEF IsInserted, Holds
  <2>4. CASE k[1] = t
    <3>1. k[2] # o
      BY <1>3, <2>4
    <3>2. k[2] \in DOMAIN D[t].rows /\ D[t].rows[k[2]] = db[t].rows[k[2]] /\ D[t].columns = db[t].columns /\ t \in DOMAIN D
      BY <2>2, <2>4, <3>1 DEF IsInserted
    <3> QED
      BY <2>1, <2>2, <2>4, <3>2 DEF Holds
  <2> QED
    BY <2>3, <2>4
<1>4. CASE k = <<t, o>>
  <2>1. k[1] = t /\ k[2] = o /\ t \in DOMAIN D /\ o \in DOMAIN D[t].rows /\ D[t].columns = db[t].columns
    BY <1>4 DEF IsInserted
  <2>2. Fresh(entities, tables, D, o, t, DOMAIN entities[o])
    BY <1>2, AllVisited, InsertedSound DEF DataInv
  <2>3. CASE f \in DOMAIN cur.request.values /\ A[k][f] = cur.request.values[f]
    <3>1. f \in DOMAIN entities[o] /\ entities[o][f] = FromJson[cur.request.values[f]]
      BY <1>1, <2>3 DEF DataInv, Merged
    <3>2. Holds(D, t, o, f, entities[o][f])
      BY <2>1, <2>2, <3>1 DEF Fresh
    <3> QED
      BY <2>1, <2>3, <3>1, <3>2
  <2>4. CASE f \notin DOMAIN cur.request.values /\ f \in DOMAIN acked[k] /\ A[k][f] = acked[k][f]
    <3>1. PICK d : d = FromJson[acked[k][f]]
      OBVIOUS
    <3>2. o \in DOMAIN db[t].rows /\ Holds(db, t, o, f, d)
      BY <2>1, <2>4, <3>1 DEF StoredIn
    <3>3. f \in DOMAIN db[t].columns /\ db[t].rows[o][f] = Stored[db[t].columns[f]][d]
      BY <3>2 DEF Holds
    <3>4. CASE f \notin DOMAIN entities[o]
      <4>1. D[t].rows[o][f] = db[t].rows[o][f]
        BY <3>2, <3>3, <3>4 DEF IsInserted
      <4> QED
        BY <2>1, <2>4, <3>1, <3>2, <4>1 DEF Holds
    <3>5. CASE f \in DOMAIN entities[o]
      <4>1. D[t].rows[o][f] = Stored[db[t].columns[f]][entities[o][f]]
        BY <3>5 DEF IsInserted
      <4>2. Unwritten(o)
        BY <1>1, <1>2 DEF DataInv, Cached
      <4>3. PICK x \in Tables : Fresh(entities, tables, db, o, x, DOMAIN entities[o] \ DOMAIN cur.request.values)
        BY <2>4, <3>5, <4>2 DEF Unwritten
      <4>4. x = t
        BY <1>2, <4>3 DEF Fresh, OneTable
      <4>5. Holds(db, t, o, f, entities[o][f])
        BY <2>4, <3>3, <3>5, <4>3, <4>4 DEF Fresh
      <4>6. D[t].rows[o][f] = db[t].rows[o][f]
        BY <4>1, <4>5 DEF Holds
      <4> QED
        BY <2>1, <2>4, <3>1, <3>2, <4>6 DEF Holds
    <3> QED
      BY <3>4, <3>5
  <2> QED
    BY <1>4, <2>3, <2>4 DEF IsAcked
<1> QED
  BY <1>3, <1>4

LEMMA CreateStored ==
  ASSUME SlotTypes, DataInv, StoredIn(acked, db), CreateStep
  PROVE  StoredIn(acked', db')
<1>1. PICK t, e, D : t = cur.request.table /\ e = entities[cur.request.object] /\ D = createTable(t, e)
  OBVIOUS
<1>2. pc \in Busy /\ acked' = acked
  BY DEF CreateStep, Busy
<1>3. PICK out \in IF t \notin DOMAIN db THEN Outcomes ELSE Refused : db' = IF out.done THEN D ELSE db
  BY <1>1 DEF CreateStep
<1>4. out.done \in BOOLEAN /\ (out.done => t \notin DOMAIN db)
  BY <1>3, OutcomeFacts
<1>5. /\ t \in Tables /\ e \in Partial(Fields, Data)
      /\ t \notin DOMAIN tables /\ cur.request.object \in DOMAIN entities
  BY <1>1, <1>2, CurrentRequest DEF SlotTypes, Working, CreateStep
<1>6. IsCreated(D, t, e)
  BY <1>1, <1>5, Created DEF SlotTypes, TypeOK
<1>7. CASE out.done
  <2>1. KeepsHeld(D)
    BY <1>1, <1>4, <1>5, <1>6, <1>7, CreatedSound DEF DataInv
  <2>2. \A x \in DOMAIN db : DOMAIN db[x].columns \subseteq DOMAIN D[x].columns
    BY <1>4, <1>6, <1>7 DEF IsCreated
  <2> QED
    BY <1>2, <1>3, <1>7, <2>1, <2>2, HeldStored
<1>8. CASE ~out.done
  BY <1>2, <1>3, <1>8
<1> QED
  BY <1>4, <1>7, <1>8

LEMMA AddStored ==
  ASSUME SlotTypes, ZeroFits, DataInv, StoredIn(acked, db), NEW f \in todo, AddStep(f)
  PROVE  StoredIn(acked', db')
<1>1. PICK t, o, type : t = cur.request.table /\ o = cur.request.object /\ type = v2m[entities[o][f]]
  OBVIOUS
<1>2. /\ pc = "fields" /\ f \notin DOMAIN tables[t] /\ acked' = acked
      /\ db' = db \/ (t \in DOMAIN db /\ f \notin DOMAIN db[t].columns /\ IsAdded(db', t, f, type))
  BY <1>1, AddCases
<1>3. /\ f \in Fields /\ t \in DOMAIN tables /\ type \in FieldTypes
      /\ o \in DOMAIN entities /\ f \in DOMAIN entities[o]
  BY <1>1, <1>2, FieldFacts, CurrentRequest DEF Busy
<1>4. Suits(f, type)
  BY <1>1, <1>3 DEF DataInv, GoodEntities
<1>5. CASE t \in DOMAIN db /\ f \notin DOMAIN db[t].columns /\ IsAdded(db', t, f, type)
  <2>1. KeepsHeld(db')
    BY <1>2, <1>3, <1>4, <1>5, AddedSound DEF DataInv
  <2>2. \A x \in DOMAIN db : DOMAIN db[x].columns \subseteq DOMAIN db'[x].columns
    BY <1>5 DEF IsAdded
  <2> QED
    BY <1>2, <2>1, <2>2, HeldStored
<1> QED
  BY <1>2, <1>5

LEMMA AlterStored ==
  ASSUME SlotTypes, StoredOnce, DataInv, StoredIn(acked, db), NEW f \in todo, AlterStep(f)
  PROVE  StoredIn(acked', db')
<1>1. PICK t, o, type : t = cur.request.table /\ o = cur.request.object /\ type = v2m[entities[o][f]]
  OBVIOUS
<1>2. /\ pc = "fields" /\ f \in DOMAIN tables[t] /\ m2m(tables[t][f], type) /\ acked' = acked
      /\ db' = db \/ (t \in DOMAIN db /\ f \in DOMAIN db[t].columns /\ IsAltered(db', t, f, type))
  BY <1>1, AlterCases
<1>3. t \in DOMAIN tables /\ type \in FieldTypes /\ o \in DOMAIN entities /\ f \in DOMAIN entities[o]
  BY <1>1, <1>2, FieldFacts, CurrentRequest DEF Busy
<1>4. Suits(f, type) /\ Suits(f, tables[t][f])
  BY <1>1, <1>2, <1>3 DEF DataInv, GoodEntities, Sound, GoodTables
<1>5. Rank[tables[t][f]] < Rank[type]
  BY <1>2, <1>4, OnlyWider
<1>6. CASE t \in DOMAIN db /\ f \in DOMAIN db[t].columns /\ IsAltered(db', t, f, type)
  <2>1. KeepsHeld(db')
    BY <1>2, <1>3, <1>4, <1>5, <1>6, AlteredSound DEF DataInv
  <2>2. \A x \in DOMAIN db : DOMAIN db[x].columns \subseteq DOMAIN db'[x].columns
    BY <1>6 DEF IsAltered
  <2> QED
    BY <1>2, <2>1, <2>2, HeldStored
<1> QED
  BY <1>2, <1>6

LEMMA InsertStored ==
  ASSUME SlotTypes, ZeroFits, StoredOnce, OneTable, DataInv, StoredIn(acked, db), Insert
  PROVE  StoredIn(acked', db')
<1>1. PICK t, o, values : t = cur.request.table /\ o = cur.request.object /\ values = cur.request.values
  OBVIOUS
<1>2. /\ pc = "insert"
      /\ \/ UNCHANGED <<db, acked>>
         \/ /\ t \in DOMAIN db /\ DOMAIN entities[o] \subseteq DOMAIN db[t].columns
            /\ IsInserted(db', t, o)
            /\ \/ acked' = [acked EXCEPT ![<<t, o>>] = Restrict(@, DOMAIN @ \ DOMAIN values)]
               \/ acked' = [acked EXCEPT ![<<t, o>>] = Over(values, @)]
  BY <1>1, InsertCases
<1>3. t \in Tables /\ o \in Objects
  BY <1>1, <1>2, CurrentRequest DEF Busy
<1>4. CASE UNCHANGED <<db, acked>>
  BY <1>4
<1>5. CASE /\ t \in DOMAIN db /\ DOMAIN entities[o] \subseteq DOMAIN db[t].columns
           /\ IsInserted(db', t, o)
           /\ \/ acked' = [acked EXCEPT ![<<t, o>>] = Restrict(@, DOMAIN @ \ DOMAIN values)]
              \/ acked' = [acked EXCEPT ![<<t, o>>] = Over(values, @)]
  <2>1. IsAcked(acked', t, o, values)
    BY <1>3, <1>5, Acked
  <2> QED
    BY <1>1, <1>2, <1>5, <2>1, InsertedStored
<1> QED
  BY <1>2, <1>4, <1>5

LEMMA AlterTableStored ==
  ASSUME SlotTypes, StoredIn(acked, db), alterTable
  PROVE  StoredIn(acked', db')
<1>1. PICK t, f : t = Head(wlist).request.table /\ f = Head(wlist).request.field
  OBVIOUS
<1>2. \/ UNCHANGED <<db, acked>>
      \/ /\ t \in DOMAIN db
         /\ IsRemoved(db', t, f)
         /\ acked' = [k \in DOMAIN acked |-> IF k[1] = t THEN Without(acked[k], f) ELSE acked[k]]
  BY <1>1, AlterTableCases
<1> QED
  BY <1>2, RemovedStored

LEMMA NextStored ==
  ASSUME ZeroFits, StoredOnce, OneTable, SlotTypes, DataInv, StoredIn(acked, db), [Next]_vars
  PROVE  StoredIn(acked', db')
<1>1. CASE UNCHANGED <<db, acked>>
  BY <1>1
<1>2. CASE (\E r \in Requests : request(r)) \/ update \/ stop \/ select \/ Round \/ removeEntity
  BY <1>1, <1>2 DEF request, update, stop, select, Round, removeEntity
<1>3. CASE TakeSerialize \/ Unserialize \/ Restart \/ \E f \in todo : KeepStep(f)
  BY <1>1, <1>3 DEF TakeSerialize, Unserialize, Restart, KeepStep
<1>4. CASE CreateStep
  BY <1>4, CreateStored
<1>5. CASE \E f \in todo : AddStep(f) \/ AlterStep(f)
  BY <1>5, AddStored, AlterStored
<1>6. CASE Insert
  BY <1>6, InsertStored
<1>7. CASE alterTable
  BY <1>7, AlterTableStored
<1>8. CASE UNCHANGED vars
  BY <1>1, <1>8 DEF vars
<1> QED
  BY <1>2, <1>3, <1>4, <1>5, <1>6, <1>7, <1>8 DEF Next, synchronous

(* What a column stores of a value whose client was told it is stored      *)
(* stays in the database until the field is written again or dropped,      *)
(* through failed statements, lost replies, writes of other fields and     *)
(* restarts: a later write writes all of the cached entity, of which the   *)
(* row has just that (RecordProcess.cpp, serialize; Entity.cpp,            *)
(* ParseFromString).                                                       *)
THEOREM SlotAcknowledgedIsStored ==
  ASSUME OneFamily, ZeroFits, StoredOnce, OneTable
  PROVE  Spec => []AcknowledgedIsStored
<1>1. Init => StoredIn(acked, db)
  BY EmptyPartial DEF Init, StoredIn
<1>2. SlotTypes /\ DataInv /\ StoredIn(acked, db) /\ [Next]_vars => StoredIn(acked, db)'
  BY NextStored
<1>3. SlotTypes /\ StoredIn(acked, db) => AcknowledgedIsStored
  BY StoredSame
<1> QED
  BY <1>1, <1>2, <1>3, SlotInvariant, PTL DEF Spec
=============================================================================
