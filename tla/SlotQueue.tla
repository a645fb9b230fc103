------------------------------ MODULE SlotQueue ------------------------------
(***************************************************************************)
(* What a slot of a shard promises the record server's main thread:        *)
(* requests are answered in the order in which they were queued, each at   *)
(* most once, a select never; a restart forgets what is queued.            *)
(***************************************************************************)
EXTENDS Sequences, Naturals

CONSTANT Requests  \* the requests clients make

VARIABLES
  pending,   \* requests not answered yet, with their numbers
  answers,   \* answers on their way to the main thread
  number     \* requests queued so far

Init ==
  /\ pending = <<>>
  /\ answers = <<>>
  /\ number = 0

Queue ==
  /\ \E r \in Requests : pending' = Append(pending, [number |-> number, request |-> r])
  /\ number' = number + 1
  /\ UNCHANGED answers

(* The oldest request is answered.                                         *)
Answer ==
  /\ pending # <<>>
  /\ Head(pending).request.kind # "select"
  /\ \E retval \in {0, 100, 101, 103, 104} :
       answers' = Append(answers, [number |-> Head(pending).number,
                                   kind   |-> Head(pending).request.kind,
                                   retval |-> retval])
  /\ pending' = Tail(pending)
  /\ UNCHANGED number

Ignore ==
  /\ pending # <<>>
  /\ Head(pending).request.kind = "select"
  /\ pending' = Tail(pending)
  /\ UNCHANGED <<answers, number>>

Forward ==
  /\ answers # <<>>
  /\ answers' = Tail(answers)
  /\ UNCHANGED <<pending, number>>

Restart ==
  /\ pending' = <<>>
  /\ answers' = <<>>
  /\ UNCHANGED number

Next == Queue \/ Answer \/ Ignore \/ Forward \/ Restart

Spec == Init /\ [][Next]_<<pending, answers, number>>
=============================================================================
