---------------------------- MODULE ProtoMessages ----------------------------
(***************************************************************************)
(* The generated protocol classes (src/protocol/recordserver/record.pb.cc, *)
(* src/protocol/common/entity.pb.cc and their headers).  A class is the    *)
(* sequence of its fields' kinds, at their field numbers; its operations   *)
(* are the same code over those kinds, so they are written once.           *)
(*                                                                         *)
(* A message is the sequence of its field values.  An encoded message is a *)
(* sequence of fields [num, wire, len, val]; strings are members of Text,  *)
(* and numbers (and bools) are 0 or 1, so that a number takes one byte.    *)
(***************************************************************************)
EXTENDS Integers, Sequences, FiniteSets, SequencesExt

CONSTANTS
  Utf8, NotUtf8,  \* non-empty strings of one byte
  MapKeys,        \* keys of Entity.values, members of Utf8 \cup NotUtf8
  MaxOps          \* bound: operations on the two objects

Text == Utf8 \cup NotUtf8 \cup {""}

ASSUME ProtoAssumption == MapKeys \subseteq Utf8 \cup NotUtf8 /\ Utf8 \cap NotUtf8 = {} /\ MaxOps \in Nat

(* The classes of entity.proto and record.proto.                           *)
Value == <<"enum", "sint32", "uint32", "sint32", "uint32", "sint64", "uint64", "bool",
           "float", "double", "string", "bytes", "string">>
Entity == <<"uint64", "map">>
EntityCreateRequest == <<"uint32", "string", "Entity">>
EntityCreateResponse == <<"uint32", "string", "uint64">>
EntityRetrieveRequest == <<"uint32", "string", "uint64">>
EntityRetrieveResponse == <<"uint32", "string", "Entity">>
EntityUpdateRequest == <<"uint32", "string", "Entity">>
EntityUpdateResponse == <<"uint32", "string", "bool">>
EntityDeleteRequest == <<"uint32", "string", "uint64">>
EntityDeleteResponse == <<"uint32", "string", "bool">>
EntitySelectRequest == <<"uint32", "string", "string">>
EntitySelectResponse == <<"uint32", "string", "Entity">>

Classes == {EntityCreateRequest, EntityCreateResponse, EntityRetrieveRequest, EntityRetrieveResponse,
            EntityUpdateRequest, EntityUpdateResponse, EntityDeleteRequest, EntityDeleteResponse,
            EntitySelectRequest, EntitySelectResponse}

Texts == {"string", "bytes"}
Wire(kind) == CASE kind \in Texts \cup {"map", "Entity"} -> "LEN"
                [] kind = "float" -> "I32" [] kind = "double" -> "I64"
                [] OTHER -> "VARINT"

NoFields == [fields |-> <<>>, cached |-> 0]   \* entity_ == NULL

Default(kind) == CASE kind \in Texts -> ""
                   [] kind = "map" -> [k \in {} |-> <<>>]
                   [] kind = "Entity" -> NoFields
                   [] OTHER -> 0

(* SharedCtor, Clear.                                                      *)
Clear(class) == [n \in DOMAIN class |-> Default(class[n])]

mutable_entity(e) == IF e = NoFields THEN [fields |-> Clear(Entity), cached |-> 0] ELSE e

-----------------------------------------------------------------------------
(* ByteSizeLong: default values take nothing, others a byte for the tag.   *)
ScalarSize(kind, v) ==
  IF v = Default(kind) THEN 0
  ELSE CASE Wire(kind) = "LEN" -> 3 [] Wire(kind) = "I32" -> 5 [] Wire(kind) = "I64" -> 9 [] OTHER -> 2

FieldSum(class, size(_)) ==
  LET upto[n \in 0..Len(class)] == IF n = 0 THEN 0 ELSE upto[n - 1] + size(n) IN upto[Len(class)]

ValueSize(v) == FieldSum(Value, LAMBDA n : ScalarSize(Value[n], v[n]))

(* Two framing bytes for an entry, three for its key, two for its value.   *)
MapSize(values) == FoldSet(LAMBDA k, sum : sum + 7 + ValueSize(values[k]), 0, DOMAIN values)

EntitySize(fields) == ScalarSize("uint64", fields[1]) + MapSize(fields[2])

(* Fault: a size that is known is not computed again.                      *)
ByteSizeLongOnce(class, m) ==
  [n \in DOMAIN class |->
     IF class[n] = "Entity" /\ m[n] # NoFields /\ m[n].cached = 0
     THEN [m[n] EXCEPT !.cached = EntitySize(m[n].fields)] ELSE m[n]]

(* What ByteSizeLong leaves in the message: the size of the nested one.    *)
ByteSizeLong(class, m) ==
  [n \in DOMAIN class |->
     IF class[n] = "Entity" /\ m[n] # NoFields
     THEN [m[n] EXCEPT !.cached = EntitySize(m[n].fields)] ELSE m[n]]

-----------------------------------------------------------------------------
(* SerializeWithCachedSizes: the fields that are not default, in order;    *)
(* UTF-8 is verified but a bad string only logged.                         *)
Field(n, kind, len, v) == <<[num |-> n, wire |-> Wire(kind), len |-> len, val |-> v]>>

ScalarBytes(n, kind, v) == IF v = Default(kind) THEN <<>> ELSE Field(n, kind, 1, v)

FieldBytes(class, bytes(_)) == FlattenSeq([n \in DOMAIN class |-> bytes(n)])

ValueBytes(v) == FieldBytes(Value, LAMBDA n : ScalarBytes(n, Value[n], v[n]))

(* The entries of the map are framed by their own sizes.                   *)
EntityBytes(fields) ==
  ScalarBytes(1, "uint64", fields[1])
    \o FlattenSeq([i \in DOMAIN SetToSeq(DOMAIN fields[2]) |->
         LET k == SetToSeq(DOMAIN fields[2])[i]
         IN Field(2, "map", 5 + ValueSize(fields[2][k]), [key |-> k, value |-> ValueBytes(fields[2][k])])])

SerializeWithCachedSizes(class, m) ==
  FieldBytes(class, LAMBDA n :
    CASE class[n] # "Entity" -> ScalarBytes(n, class[n], m[n])
      [] m[n] = NoFields -> <<>>
      [] OTHER -> Field(n, "Entity", m[n].cached, EntityBytes(m[n].fields)))

SerializeAsString(class, m) == SerializeWithCachedSizes(class, ByteSizeLong(class, m))

-----------------------------------------------------------------------------
(* MergePartialFromCodedStream: a field of another number or wire type is  *)
(* skipped; a string is stored and then verified, and a bad one ends it.   *)

(* Fault: the string is taken as it is.                                    *)
ReadScalarUnverified(kind, v) == [ok |-> TRUE, val |-> v]

ReadScalar(kind, v) == [ok |-> kind = "string" => v \notin NotUtf8, val |-> v]

(* handle_unusual, SkipField.                                              *)
Usual(class, s) == SelectSeq(s, LAMBDA e : e.num \in DOMAIN class /\ e.wire = Wire(class[e.num]))

ParseWith(class, m, s, read(_, _, _)) ==
  FoldLeft(LAMBDA p, e :
             IF ~p.ok THEN p
             ELSE LET r == read(class[e.num], p.m[e.num], e.val)
                  IN [ok |-> r.ok, m |-> [p.m EXCEPT ![e.num] = r.val]],
           [ok |-> TRUE, m |-> m], Usual(class, s))

ParseValue(s) == ParseWith(Value, Clear(Value), s, LAMBDA kind, old, v : ReadScalar(kind, v))

(* An entry of the map replaces the value its key had.                     *)
ReadEntry(old, entry) ==
  LET p == ParseValue(entry.value)
  IN [ok |-> p.ok /\ entry.key \notin NotUtf8,
      val |-> [k \in DOMAIN old \cup {entry.key} |-> IF k = entry.key THEN p.m ELSE old[k]]]

ParseEntity(e, s) ==
  LET p == ParseWith(Entity, mutable_entity(e).fields, s,
                     LAMBDA kind, old, v : IF kind = "map" THEN ReadEntry(old, v) ELSE ReadScalar(kind, v))
  IN [ok |-> p.ok, val |-> [fields |-> p.m, cached |-> e.cached]]

MergePartialFromCodedStream(class, m, s) ==
  ParseWith(class, m, s,
            LAMBDA kind, old, v : IF kind = "Entity" THEN ParseEntity(old, v) ELSE ReadScalar(kind, v))

-----------------------------------------------------------------------------
(* MergeFrom: what is set replaces, a nested message is merged.            *)
MergeScalar(kind, to, from) ==
  CASE kind = "map" -> [k \in DOMAIN to \cup DOMAIN from |-> IF k \in DOMAIN from THEN from[k] ELSE to[k]]
    [] from = Default(kind) -> to
    [] OTHER -> from

(* Fault: the nested message is replaced.                                  *)
MergeEntityReplaces(to, from) == IF from = NoFields THEN to ELSE from

MergeEntity(to, from) ==
  IF from = NoFields THEN to
  ELSE [fields |-> [n \in DOMAIN Entity |-> MergeScalar(Entity[n], mutable_entity(to).fields[n], from.fields[n])],
        cached |-> to.cached]

Merged(class, to, from) ==
  [n \in DOMAIN class |-> IF class[n] = "Entity" THEN MergeEntity(to[n], from[n])
                          ELSE MergeScalar(class[n], to[n], from[n])]

-----------------------------------------------------------------------------
(* A program with two objects of one class and a string.                   *)
VARIABLES mclass, obj, encoded, ops

protoVars == <<mclass, obj, encoded, ops>>

Objects == {"a", "b"}
Other(o) == IF o = "a" THEN "b" ELSE "a"

ProtoInit ==
  /\ mclass \in Classes
  /\ obj = [o \in Objects |-> Clear(mclass)]
  /\ encoded = <<>> /\ ops = 0

Op == ops < MaxOps /\ ops' = ops + 1 /\ UNCHANGED mclass
Assign(o, m) == obj' = [obj EXCEPT ![o] = m]

(* A Value that is a double, a string or bytes: its type and its field.    *)
Values(k) ==
  {[Clear(Value) EXCEPT ![1] = n - 2,
                        ![n] = IF Value[n] \in Texts THEN k ELSE 1]
   : n \in {10, 11, 12}}

(* The accessors set_shard, set_table, set_entityid, set_result and        *)
(* set_where, and set_id and mutable_values of mutable_entity().           *)
set(o) ==
  /\ Op /\ UNCHANGED encoded
  /\ \E n \in DOMAIN mclass :
       \/ Wire(mclass[n]) = "VARINT" /\ Assign(o, [obj[o] EXCEPT ![n] = 1])
       \/ mclass[n] = "string" /\ \E v \in Text \ {""} : Assign(o, [obj[o] EXCEPT ![n] = v])
       \/ mclass[n] = "Entity" /\ Assign(o, [obj[o] EXCEPT ![n] = [mutable_entity(@) EXCEPT !.fields[1] = 1]])
       \/ mclass[n] = "Entity" /\ \E k \in MapKeys : \E v \in Values(k) :
            Assign(o, [obj[o] EXCEPT ![n] =
              [mutable_entity(@) EXCEPT !.fields[2] = MergeScalar("map", @, [x \in {k} |-> v])]])

ClearObject(o) == Op /\ Assign(o, Clear(mclass)) /\ UNCHANGED encoded

MergeFrom(o) == Op /\ Assign(o, Merged(mclass, obj[o], obj[Other(o)])) /\ UNCHANGED encoded

CopyFrom(o) == Op /\ Assign(o, Merged(mclass, Clear(mclass), obj[Other(o)])) /\ UNCHANGED encoded

Swap == Op /\ obj' = [o \in Objects |-> obj[Other(o)]] /\ UNCHANGED encoded

(* a->set_allocated_entity(b->release_entity())                            *)
MoveEntity(o) ==
  /\ Op /\ UNCHANGED encoded
  /\ mclass[3] = "Entity"
  /\ obj' = [obj EXCEPT ![o][3] = obj[Other(o)][3], ![Other(o)][3] = NoFields]

SerializeToString(o) ==
  /\ Op
  /\ Assign(o, ByteSizeLong(mclass, obj[o]))
  /\ encoded' = SerializeAsString(mclass, obj[o])

ParseFromString(o) ==
  /\ Op /\ UNCHANGED encoded
  /\ Assign(o, MergePartialFromCodedStream(mclass, Clear(mclass), encoded).m)

ProtoNext ==
  \/ \E o \in Objects : \/ set(o) \/ ClearObject(o) \/ MergeFrom(o) \/ CopyFrom(o) \/ MoveEntity(o)
                        \/ SerializeToString(o) \/ ParseFromString(o)
  \/ Swap

-----------------------------------------------------------------------------
(* The content of a message, without the sizes it caches.                  *)
Contents(m) == [n \in DOMAIN m |-> IF mclass[n] = "Entity" THEN m[n].fields ELSE m[n]]

TextOf(v) == {v[n] : n \in {i \in DOMAIN Value : Value[i] = "string"}}
Strings(m) ==
  {m[2]} \cup (IF mclass[3] = "string" THEN {m[3]} ELSE {})
    \cup (IF mclass[3] = "Entity" /\ m[3] # NoFields
          THEN UNION {{k} \cup TextOf(m[3].fields[2][k]) : k \in DOMAIN m[3].fields[2]} ELSE {})

(* A message that was written is read back as it was, exactly when its     *)
(* strings are UTF-8: writing only logs a string that reading refuses.     *)
ParsesBack ==
  \A o \in Objects :
    LET p == MergePartialFromCodedStream(mclass, Clear(mclass), SerializeAsString(mclass, obj[o]))
    IN /\ p.ok <=> Strings(obj[o]) \cap NotUtf8 = {}
       /\ p.ok => Contents(p.m) = Contents(obj[o])

(* Reading two messages written one after the other is MergeFrom; and a    *)
(* class whose third field is of another wire type, reading the same       *)
(* bytes, skips that field and still gets the shard and table.             *)
ConcatenationMerges ==
  LET both == Merged(mclass, obj["a"], obj["b"])
      bytes == SerializeAsString(mclass, obj["a"]) \o SerializeAsString(mclass, obj["b"])
      read(c) == MergePartialFromCodedStream(c, Clear(c), bytes)
      same == read(mclass)
  IN /\ same.ok => Contents(same.m) = Contents(both)
     /\ \A c \in {x \in Classes : Wire(x[3]) # Wire(mclass[3])} :
          LET other == read(c) IN other.ok => other.m = <<both[1], both[2], Default(c[3])>>

(* The length written before a nested message is the length of its bytes,  *)
(* although it is a cached one.                                            *)
BytesOf(s) ==
  FoldLeft(LAMBDA sum, e :
             sum + (CASE e.wire = "VARINT" -> 2 [] e.wire = "I32" -> 5 [] e.wire = "I64" -> 9 [] OTHER -> 2 + e.len),
           0, s)
PrefixIsLength ==
  \A i \in DOMAIN encoded :
    encoded[i].num = 3 /\ mclass[3] = "Entity" =>
      /\ encoded[i].len = BytesOf(encoded[i].val)
      /\ \A j \in DOMAIN encoded[i].val :
           encoded[i].val[j].num = 2 => encoded[i].val[j].len = 5 + BytesOf(encoded[i].val[j].val.value)
=============================================================================
