---------------------------- MODULE MCSlotDatabase ----------------------------
EXTENDS SlotDatabase

(* The values: the numbers 0 and 1, and 2 for one of 64 bits; false (3),   *)
(* 0.0 (4) and the empty string (5); true (6); a third (7) and its six     *)
(* digits (8); a number of 64 bits that a sign makes 2 (9); a string with  *)
(* a quote in it (10).                                                     *)
Values == 0 .. 10
ValueType == [d \in Values |->
  CASE d \in {0, 1} -> "LONG" [] d \in {3, 6} -> "TINY" [] d \in {4, 7, 8} -> "FLOAT"
    [] d \in {5, 10} -> "VAR_STRING" [] OTHER -> "LONGLONG"]
Signed == [d \in Values |-> IF d = 9 THEN 2 ELSE d]
ReadBack == [t \in FieldTypes |-> [d \in Values |->
  CASE d = 7 -> 8
    [] t \in {"LONG", "LONGLONG"} /\ d = 3 -> 0
    [] t \in {"LONG", "LONGLONG"} /\ d = 6 -> 1
    [] t = "TINY" /\ d = 0 -> 3
    [] t = "TINY" /\ d = 1 -> 6
    [] OTHER -> d]]
NoValue == [t \in FieldTypes |->
  CASE t = "TINY" -> 3 [] t = "FLOAT" -> 4 [] Family(t) = "string" -> 5 [] OTHER -> 0]

ASSUME DataAssumption == OneFamily /\ ZeroFits /\ StoredOnce /\ OneTable

Named(kind) == [kind : {kind}, table : Tables, object : Objects]
First == CHOOSE o \in Objects : \A p \in Objects : o <= p
Write(legal, values) == [kind : {"serialize"}, table : Tables, object : Objects, legal : {legal}, values : values]

(* Writes of one field, legal or not, and every other request.             *)
AllRequests ==
  Write(TRUE, [{"a"} -> {6, 9}] \cup [{"b"} -> {7}])
    \cup Write(FALSE, [{"a"} -> {6}])
    \cup {[kind |-> "serialize", table |-> t, object |-> First, legal |-> TRUE, values |-> [f \in {"c"} |-> 10]] : t \in Tables}
    \cup UNION {Named(kind) : kind \in {"unserialize", "delete"}}
    \cup [kind : {"select"}, table : Tables, object : {First}]
    \cup [kind : {"alter"}, table : Tables, object : {First}, legal : {TRUE}, field : {"a"},
           option : {"ADD_KEY", "DROP_FIELD"}]

(* A client that reads an object before it writes it.                      *)
ReadAndWrite == Write(TRUE, [{"a"} -> {1}]) \cup Named("unserialize")
=============================================================================
