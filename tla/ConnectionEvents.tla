-------------------------- MODULE ConnectionEvents --------------------------
(***************************************************************************)
(* What receiveMessage promises the application: the events of each        *)
(* descriptor number form a sequence of well-formed sessions, one per      *)
(* connection, although numbers are reused and several threads produce the *)
(* events.  Nothing here mentions threads, queues or epoll.                *)
(***************************************************************************)
EXTENDS Naturals, Sequences

CONSTANTS Fds, Sessions, None

VARIABLES
  view,    \* view[s]: the connection s stands for in the application's eyes
  status,  \* status[c]: "new", "open" (established) or "ended" (closed)
  heard    \* heard[c]: what was attributed to c: pairs <<origin, number>>

eventVars == <<view, status, heard>>

EventsInit ==
  /\ view = [s \in Fds |-> None]
  /\ status = [c \in Sessions \cup {None} |-> "new"]
  /\ heard = [c \in Sessions \cup {None} |-> <<>>]

(* A connection is announced once, on a number that stands for nothing.    *)
Establish(s, c) ==
  /\ view[s] = None
  /\ status[c] = "new"
  /\ view' = [view EXCEPT ![s] = c]
  /\ status' = [status EXCEPT ![c] = "open"]
  /\ UNCHANGED heard

(* A message is attributed to the connection that sent it, in the order in *)
(* which it was sent, none missing and none twice.                         *)
Deliver(s) ==
  LET c == view[s] IN
  /\ c # None
  /\ heard' = [heard EXCEPT ![c] = Append(@, <<c, Len(@) + 1>>)]
  /\ UNCHANGED <<view, status>>

(* A close ends the connection its number stands for.                      *)
Lose(s) ==
  LET c == view[s] IN
  /\ c # None
  /\ view' = [view EXCEPT ![s] = None]
  /\ status' = [status EXCEPT ![c] = "ended"]
  /\ UNCHANGED heard

EventsNext ==
  \E s \in Fds :
    \/ \E c \in Sessions : Establish(s, c)
    \/ Deliver(s)
    \/ Lose(s)

EventsSpec == EventsInit /\ [][EventsNext]_eventVars
=============================================================================
