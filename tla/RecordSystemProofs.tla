-------------------------- MODULE RecordSystemProofs --------------------------
(***************************************************************************)
(* AnswersKeepOrder, MisroutedOnlyIfLost, CallbackGetsItsAnswer and        *)
(* ReleasedOnce of RecordSystem, for any clients, descriptors, shards,     *)
(* slots and programs.                                                     *)
(*                                                                         *)
(* A request waits for the worker of its client's socket, and then goes    *)
(* through five stages: the server's queue, the slot's wlist and rlist,    *)
(* what its client has to read, what the client has read.  What waits is   *)
(* younger than all its client has sent; each stage is first in, first out *)
(* and hands over its first, so among the requests of one client to one    *)
(* slot the later stages have the older ones; that no request is in two    *)
(* places follows.  A request whose client                                 *)
(* has not lost a connection carries the descriptor that client has now,   *)
(* which is why its answer cannot go astray; and then the callbacks that   *)
(* wait are those of the requests that are under way.                      *)
(***************************************************************************)
EXTENDS RecordSystem, WellFoundedInduction, TLAPS

Up == [op : {"establish", "close"}, s : Sockets] \cup [op : {"message"}, s : Sockets, msg : Call]
Down == {CLOSE} \cup [op : {"message"}, msg : Call]
Entry == [s : Sockets, req : Call]
Handled == [callback : Call, response : Call]

RecTypes ==
  /\ link \in [Clients -> Sockets \cup {NoSocket}]
  /\ state \in [Clients -> {"new", "up", "lost", "retry", "stopped"}]
  /\ up \in [Clients -> Seq(Call)]
  /\ down \in [Clients -> Seq(Down)] /\ unsent \in [Clients -> Nat]
  /\ callbacks \in [Clients -> [CallbackKinds -> Seq(Call)]]
  /\ calls \in Programs /\ asked \subseteq calls
  /\ handled \in [Clients -> Seq(Handled)]
  /\ inq \in Seq(Up) /\ tasks \subseteq Sockets
  /\ slotw \in [Slots -> Seq(Entry)] /\ slotr \in [Slots -> Seq(Entry)]
  /\ slotpc \in [Slots -> {"run", "final", "exit"}]
  /\ main \in {"run", "service", "manager", "end"}
  /\ released \in Seq(Call) /\ dropped \in [Clients -> Nat]

-----------------------------------------------------------------------------
(* The requests in a queue, by their places in it.                         *)
Msgs(q) == [i \in {j \in DOMAIN q : q[j].op = "message"} |-> q[i].msg]
Reqs(q) == [i \in DOMAIN q |-> q[i].req]
Resps(q) == [i \in DOMAIN q |-> q[i].response]
Vals(f) == {f[i] : i \in DOMAIN f}

(* Requests of one client to one slot.                                     *)
Alike(a, b) == a.client = b.client /\ SlotOf(a) = SlotOf(b)

Rising(f) == \A i, j \in DOMAIN f : i < j /\ Alike(f[i], f[j]) => f[i].number < f[j].number
Ahead(f, g) == \A i \in DOMAIN f : \A j \in DOMAIN g : Alike(f[i], g[j]) => f[i].number < g[j].number
Apart(f, g) == \A i \in DOMAIN f : \A j \in DOMAIN g : f[i] # g[j]

(* The stages between client c and slot k, the last one first.             *)
Stage == 1 .. 5
Stages(c, k) == <<Resps(handled[c]), Msgs(down[c]), Reqs(slotr[k]), Reqs(slotw[k]), Msgs(inq)>>

Chain(F) ==
  /\ \A m \in Stage : Vals(F[m]) \subseteq Call
  /\ \A m \in Stage : Rising(F[m])
  /\ \A m, n \in Stage : m < n => Ahead(F[m], F[n])

Chains == \A c \in Clients : \A k \in Slots : Chain(Stages(c, k))

(* No answer is with two clients.                                          *)
Cross ==
  \A c, d \in Clients :
    c # d => /\ Apart(Msgs(down[c]), Msgs(down[d]))
             /\ Apart(Resps(handled[c]), Msgs(down[d]))
             /\ Apart(Resps(handled[c]), Resps(handled[d]))

(* The requests that do not wait for their client's worker.                *)
Sent == {r \in asked : r \notin Vals(up[r.client])}

(* What waits there is younger than those, and in order.                   *)
Queued ==
  \A c \in Clients :
    /\ up[c] # <<>> => link[c] # NoSocket
    /\ \A i \in DOMAIN up[c] : up[c][i] \in asked /\ up[c][i].client = c
    /\ \A i, j \in DOMAIN up[c] : i < j => up[c][i].number < up[c][j].number
    /\ \A q \in Sent : q.client = c => \A i \in DOMAIN up[c] : q.number < up[c][i].number

(* What a request was asked as, and where it belongs.                      *)
Served == {r \in Sent : SlotOf(r) \in Slots}
InAsked ==
  /\ Vals(Msgs(inq)) \subseteq Sent
  /\ \A k \in Slots : \A r \in Vals(Reqs(slotw[k])) \cup Vals(Reqs(slotr[k])) : r \in Sent /\ SlotOf(r) = k
  /\ \A c \in Clients : Vals(Msgs(down[c])) \cup Vals(Resps(handled[c])) \subseteq Served

(* A program asks in the order of its numbers.                             *)
AskedInOrder == \A r \in asked : \A q \in calls : q.client = r.client /\ q.number < r.number => q \in asked

(* A released message is neither on its way nor with a slot.               *)
Pending(r) == r \in Vals(Msgs(inq)) \/ \E k \in Slots : r \in Vals(Reqs(slotw[k]))
ReleasedApart ==
  /\ \A i, j \in DOMAIN released : released[i] = released[j] => i = j
  /\ \A i \in DOMAIN released : released[i] \in Sent /\ ~Pending(released[i])

SlotsEnd ==
  /\ \A k \in Slots : slotpc[k] # "run" => main \in {"manager", "end"}
  /\ \A k \in Slots : slotpc[k] = "exit" => slotw[k] = <<>>
  /\ main = "end" => \A k \in Slots : slotpc[k] = "exit"

Flow == Chains /\ Cross /\ InAsked /\ AskedInOrder /\ Rising(Msgs(inq))
-----------------------------------------------------------------------------
(* The connections.                                                        *)
Links ==
  /\ \A c, d \in Clients : link[c] # NoSocket /\ link[c] = link[d] => c = d
  /\ \A c \in Clients : state[c] = "new" => link[c] = NoSocket
  /\ \A c \in Clients : state[c] \in {"lost", "retry"} => dropped[c] > 0
  /\ \A c \in Clients : state[c] # "new" /\ link[c] = NoSocket => dropped[c] > 0
  /\ \A c \in Clients : \A i \in DOMAIN down[c] : down[c][i].op = "close" => dropped[c] > 0

(* A request carries its client's descriptor, as long as there is one.     *)
Route(s, r, links, drops) == drops[r.client] = 0 => links[r.client] = s
Routed ==
  /\ \A i \in DOMAIN inq : inq[i].op = "message" => Route(inq[i].s, inq[i].msg, link, dropped)
  /\ \A k \in Slots : \A i \in DOMAIN slotw[k] : Route(slotw[k][i].s, slotw[k][i].req, link, dropped)
  /\ \A k \in Slots : \A i \in DOMAIN slotr[k] : Route(slotr[k][i].s, slotr[k][i].req, link, dropped)

(* A client has the answer of another only if that one lost a connection.  *)
Foreign ==
  \A c \in Clients :
    \A r \in Vals(Msgs(down[c])) \cup Vals(Resps(handled[c])) : r.client # c => dropped[r.client] > 0

(* As long as nobody has, every request with a slot has its task.          *)
Tasked ==
  NoneDropped =>
    /\ \A i \in DOMAIN inq : inq[i].op # "close"
    /\ \A k \in Slots : \A i \in DOMAIN slotw[k] : slotw[k][i].s \in tasks
    /\ \A k \in Slots : \A i \in DOMAIN slotr[k] : slotr[k][i].s \in tasks

Conn == Links /\ Routed /\ Foreign /\ Tasked

(* Nor is there a message the main thread reads before its connection.     *)
Established(q, T, s, n) == s \in T \/ \E j \in DOMAIN q : j < n /\ q[j].op = "establish" /\ q[j].s = s
Introduced ==
  NoneDropped =>
    /\ \A i \in DOMAIN inq : inq[i].op = "message" => Established(inq, tasks, inq[i].s, i)
    /\ \A c \in Clients : link[c] # NoSocket => Established(inq, tasks, link[c], Len(inq) + 1)
-----------------------------------------------------------------------------
(* The callbacks.                                                          *)
Waiting ==
  \A c \in Clients : \A u \in CallbackKinds :
    /\ \A i \in DOMAIN callbacks[c][u] :
         callbacks[c][u][i] \in asked /\ callbacks[c][u][i].client = c /\ callbacks[c][u][i].kind = u
    /\ \A i, j \in DOMAIN callbacks[c][u] : i < j => callbacks[c][u][i].number < callbacks[c][u][j].number

(* The requests of c and kind u go to one slot.                            *)
OneSlot(c, u) == \A r, q \in asked : r.client = c /\ q.client = c /\ r.kind = u /\ q.kind = u => SlotOf(r) = SlotOf(q)

UnderWay(r) ==
  \/ r \in Vals(up[r.client])
  \/ r \in Vals(Msgs(inq)) \/ r \in Vals(Msgs(down[r.client]))
  \/ \E k \in Slots : r \in Vals(Reqs(slotw[k])) \/ r \in Vals(Reqs(slotr[k]))

Awaited ==
  NoneDropped =>
    \A c \in Clients : \A u \in CallbackKinds :
      OneSlot(c, u) =>
        \A r \in asked : r.client = c /\ r.kind = u => (UnderWay(r) <=> r \in Vals(callbacks[c][u]))

RecInv ==
  /\ RecTypes /\ Flow /\ Queued /\ ReleasedApart /\ SlotsEnd /\ Conn /\ Introduced
  /\ Waiting /\ Awaited /\ CallbackGetsItsAnswer
-----------------------------------------------------------------------------
(* Keep: the elements at some places, in order.                            *)

LEMMA LeastNat ==
  ASSUME NEW T, T \subseteq Nat, T # {}
  PROVE  \E m \in T : \A n \in T : m <= n
<1>1. PICK m \in T : \A n \in T : ~(<<n, m>> \in OpToRel(<, Nat))
  BY NatLessThanWellFounded, WFMin, Zenon
<1>2. m \in Nat /\ \A n \in T : n \in Nat /\ ~(n < m)
  BY <1>1, Zenon DEF OpToRel
<1>3. QED
  BY <1>2

(* The function kept of Keep, up to n.                                     *)
KeptTo(q, K, n, g) ==
  g = [i \in 0 .. n |-> IF i = 0 THEN <<>> ELSE IF i \in K THEN Append(g[i - 1], q[i]) ELSE g[i - 1]]

LEMMA KeptExists ==
  ASSUME NEW q, NEW K, NEW n \in Nat
  PROVE  \E g : KeptTo(q, K, n, g)
<1> DEFINE T == {m \in Nat : \A g : ~KeptTo(q, K, m, g)}
<1>1. SUFFICES ASSUME T # {} PROVE FALSE
  OBVIOUS
<1>2. PICK m \in T : \A k \in T : m <= k
  BY <1>1, LeastNat
<1>3. CASE m = 0
  <2>1. KeptTo(q, K, 0, [i \in 0 .. 0 |-> <<>>])
    BY DEF KeptTo
  <2>2. QED
    BY <1>2, <1>3, <2>1
<1>4. CASE m # 0
  <2>1. m - 1 \in Nat /\ m - 1 \notin T
    BY <1>2, <1>4
  <2>2. PICK g : KeptTo(q, K, m - 1, g)
    BY <2>1
  <2> DEFINE h == [i \in 0 .. m |-> IF i = m THEN (IF i \in K THEN Append(g[m - 1], q[m]) ELSE g[m - 1]) ELSE g[i]]
  <2>3. /\ \A i \in 0 .. m - 1 : h[i] = g[i]
        /\ h[m] = IF m \in K THEN Append(g[m - 1], q[m]) ELSE g[m - 1]
        /\ h = [i \in 0 .. m |-> h[i]]
    BY <2>1
  <2> HIDE DEF h
  <2>4. ASSUME NEW i \in 0 .. m
        PROVE  h[i] = IF i = 0 THEN <<>> ELSE IF i \in K THEN Append(h[i - 1], q[i]) ELSE h[i - 1]
    <3>1. CASE i = m
      BY <1>4, <2>1, <2>3, <3>1
    <3>2. CASE i = 0
      <4>1. g[0] = <<>> /\ 0 \in 0 .. m - 1
        BY <2>1, <2>2 DEF KeptTo
      <4>2. QED
        BY <2>3, <3>2, <4>1
    <3>3. CASE i # m /\ i # 0
      <4>1. i \in 0 .. m - 1 /\ i - 1 \in 0 .. m - 1
        BY <2>1, <3>3
      <4>2. g[i] = IF i \in K THEN Append(g[i - 1], q[i]) ELSE g[i - 1]
        BY <2>2, <3>3, <4>1 DEF KeptTo
      <4>3. QED
        BY <2>3, <3>3, <4>1, <4>2
    <3>4. QED
      BY <3>1, <3>2, <3>3
  <2>5. KeptTo(q, K, m, h)
    BY <2>3, <2>4 DEF KeptTo
  <2>6. QED
    BY <1>2, <2>5
<1>5. QED
  BY <1>3, <1>4

(* The places of p are places of q in K, in the same order.                *)
From(p, q, K) ==
  \A i, j \in DOMAIN p :
    \E a, b \in DOMAIN q : a \in K /\ b \in K /\ q[a] = p[i] /\ q[b] = p[j] /\ (i < j => a < b)

LEMMA KeepFrom ==
  ASSUME NEW S, NEW q \in Seq(S), NEW K
  PROVE  Keep(q, K) \in Seq(S) /\ From(Keep(q, K), q, K)
<1>1. Len(q) \in Nat /\ DOMAIN q = 1 .. Len(q) /\ \A i \in 1 .. Len(q) : q[i] \in S
  OBVIOUS
<1>2. PICK g : KeptTo(q, K, Len(q), g) /\ Keep(q, K) = g[Len(q)]
  <2> DEFINE f == CHOOSE h : KeptTo(q, K, Len(q), h)
  <2>1. KeptTo(q, K, Len(q), f)
    BY <1>1, KeptExists
  <2>2. Keep(q, K) = f[Len(q)]
    BY DEF Keep, KeptTo
  <2>3. QED
    BY <2>1, <2>2
<1> DEFINE Good(n) ==
             /\ g[n] \in Seq(S)
             /\ \A i \in DOMAIN g[n] : \E a \in 1 .. n : a \in K /\ q[a] = g[n][i]
             /\ \A i, j \in DOMAIN g[n] :
                  i < j => \E a, b \in 1 .. n : a \in K /\ b \in K /\ q[a] = g[n][i] /\ q[b] = g[n][j] /\ a < b
           T == {n \in 0 .. Len(q) : ~Good(n)}
<1>3. Good(0)
  <2>1. g[0] = <<>>
    BY <1>1, <1>2 DEF KeptTo
  <2>2. QED
    BY <2>1
<1>4. ASSUME NEW n \in 0 .. Len(q), n # 0, Good(n - 1) PROVE Good(n)
  <2>1. n - 1 \in 0 .. Len(q) /\ n \in 1 .. Len(q) /\ n \in Nat
    BY <1>1, <1>4
  <2>2. g[n] = IF n \in K THEN Append(g[n - 1], q[n]) ELSE g[n - 1]
    BY <1>2, <1>4, <2>1 DEF KeptTo
  <2> DEFINE p == g[n - 1]
  <2>3. /\ p \in Seq(S)
        /\ \A i \in DOMAIN p : \E a \in 1 .. n - 1 : a \in K /\ q[a] = p[i]
        /\ \A i, j \in DOMAIN p :
             i < j => \E a, b \in 1 .. n - 1 : a \in K /\ b \in K /\ q[a] = p[i] /\ q[b] = p[j] /\ a < b
    BY <1>4
  <2> HIDE DEF p
  <2>4. CASE n \notin K
    <3>1. g[n] = p
      BY <2>2, <2>4 DEF p
    <3>2. \A a \in 1 .. n - 1 : a \in 1 .. n
      BY <2>1
    <3>3. QED
      BY <2>3, <3>1, <3>2
  <2>5. CASE n \in K
    <3>1. g[n] = Append(p, q[n]) /\ q[n] \in S
      BY <1>1, <2>1, <2>2, <2>5 DEF p
    <3>2. /\ g[n] \in Seq(S) /\ Len(p) \in Nat
          /\ DOMAIN p = 1 .. Len(p) /\ DOMAIN g[n] = 1 .. Len(p) + 1
          /\ g[n][Len(p) + 1] = q[n] /\ \A i \in 1 .. Len(p) : g[n][i] = p[i]
      BY <2>3, <3>1
    <3>3. \A a \in 1 .. n - 1 : a \in 1 .. n /\ a < n
      BY <2>1
    <3>4. ASSUME NEW i \in DOMAIN g[n] PROVE \E a \in 1 .. n : a \in K /\ q[a] = g[n][i]
      <4>1. CASE i = Len(p) + 1
        BY <2>1, <2>5, <3>2, <4>1
      <4>2. CASE i \in DOMAIN p
        BY <2>3, <3>2, <3>3, <4>2
      <4>3. QED
        BY <3>2, <4>1, <4>2
    <3>5. ASSUME NEW i \in DOMAIN g[n], NEW j \in DOMAIN g[n], i < j
          PROVE  \E a, b \in 1 .. n : a \in K /\ b \in K /\ q[a] = g[n][i] /\ q[b] = g[n][j] /\ a < b
      <4>1. i \in DOMAIN p /\ g[n][i] = p[i]
        BY <3>2, <3>5
      <4>2. CASE j = Len(p) + 1
        <5>1. PICK a \in 1 .. n - 1 : a \in K /\ q[a] = p[i]
          BY <2>3, <4>1
        <5>2. a \in 1 .. n /\ n \in 1 .. n /\ a < n /\ q[n] = g[n][j]
          BY <2>1, <3>2, <3>3, <4>2
        <5>3. QED
          BY <2>5, <4>1, <5>1, <5>2
      <4>3. CASE j \in DOMAIN p
        <5>1. g[n][j] = p[j]
          BY <3>2, <4>3
        <5>2. PICK a, b \in 1 .. n - 1 : a \in K /\ b \in K /\ q[a] = p[i] /\ q[b] = p[j] /\ a < b
          BY <2>3, <3>5, <4>1, <4>3
        <5>3. QED
          BY <3>3, <4>1, <5>1, <5>2
      <4>4. QED
        BY <3>2, <4>2, <4>3
    <3>6. QED
      BY <3>2, <3>4, <3>5
  <2>6. QED
    BY <2>4, <2>5
<1> HIDE DEF Good
<1>5. T = {}
  <2>1. SUFFICES ASSUME T # {} PROVE FALSE
    OBVIOUS
  <2>2. PICK n \in T : \A k \in T : n <= k
    <3>1. T \subseteq Nat
      BY <1>1
    <3>2. QED
      BY <2>1, <3>1, LeastNat
  <2>3. n # 0 /\ n - 1 \in 0 .. Len(q) /\ n - 1 \notin T
    BY <1>1, <1>3, <2>2
  <2>4. QED
    BY <1>4, <2>2, <2>3
<1>6. Good(Len(q))
  BY <1>1, <1>5
<1>7. From(Keep(q, K), q, K)
  <2> DEFINE p == g[Len(q)]
  <2>1. /\ p = Keep(q, K) /\ p \in Seq(S)
        /\ \A i \in DOMAIN p : \E a \in DOMAIN q : a \in K /\ q[a] = p[i]
        /\ \A i, j \in DOMAIN p :
             i < j => \E a, b \in DOMAIN q : a \in K /\ b \in K /\ q[a] = p[i] /\ q[b] = p[j] /\ a < b
    BY <1>1, <1>2, <1>6 DEF Good
  <2> HIDE DEF p
  <2>2. QED
    BY <2>1 DEF From
<1>8. QED
  BY <1>2, <1>6, <1>7 DEF Good
-----------------------------------------------------------------------------
(* What queues do to the requests in them.                                 *)

(* The requests of g are requests of f, in the same order; or they are and *)
(* x is the last.                                                          *)
Sub(g, f) == \A i, j \in DOMAIN g : \E a, b \in DOMAIN f : f[a] = g[i] /\ f[b] = g[j] /\ (i < j => a < b)
Grown(g, f, x) ==
  /\ \A i \in DOMAIN g : g[i] = x \/ \E a \in DOMAIN f : f[a] = g[i]
  /\ \A i, j \in DOMAIN g :
       i < j => \E a \in DOMAIN f : f[a] = g[i] /\ (g[j] = x \/ \E b \in DOMAIN f : f[b] = g[j] /\ a < b)

(* x comes before the requests of g, or after those of f.                  *)
Precedes(x, g) == \A j \in DOMAIN g : Alike(x, g[j]) => x.number < g[j].number
Follows(f, x) == \A i \in DOMAIN f : Alike(f[i], x) => f[i].number < x.number

LEMMA SubSame == ASSUME NEW f PROVE Sub(f, f)
BY DEF Sub

LEMMA SubVals ==
  ASSUME NEW f, NEW g
  PROVE  /\ Sub(g, f) => Vals(g) \subseteq Vals(f)
         /\ \A x : Grown(g, f, x) => Vals(g) \subseteq Vals(f) \cup {x}
BY DEF Sub, Grown, Vals

LEMMA SubTrans ==
  ASSUME NEW f, NEW g, NEW h, Sub(h, g), Sub(g, f)
  PROVE  Sub(h, f)
<1>1. SUFFICES ASSUME NEW i \in DOMAIN h, NEW j \in DOMAIN h
               PROVE  \E a, b \in DOMAIN f : f[a] = h[i] /\ f[b] = h[j] /\ (i < j => a < b)
  BY DEF Sub
<1>2. PICK a, b \in DOMAIN g : g[a] = h[i] /\ g[b] = h[j] /\ (i < j => a < b)
  BY DEF Sub
<1>3. PICK x, y \in DOMAIN f : f[x] = g[a] /\ f[y] = g[b] /\ (a < b => x < y)
  BY DEF Sub
<1>4. QED
  BY <1>2, <1>3

LEMMA ApartSub ==
  ASSUME NEW f, NEW f2, NEW g, NEW g2, Apart(f, g), Vals(f2) \subseteq Vals(f), Vals(g2) \subseteq Vals(g)
  PROVE  Apart(f2, g2)
BY DEF Apart, Vals

LEMMA ApartGrown ==
  ASSUME NEW f, NEW g, NEW g2, NEW x, Apart(f, g), Vals(g2) \subseteq Vals(g) \cup {x}, x \notin Vals(f)
  PROVE  Apart(f, g2) /\ Apart(g2, f)
BY DEF Apart, Vals

LEMMA AheadApart ==
  ASSUME NEW f, NEW g, Ahead(f, g), Vals(f) \subseteq Call
  PROVE  Apart(f, g)
<1>1. \A i \in DOMAIN f : f[i].number \in Nat
  BY DEF Vals, Call
<1>2. QED
  BY <1>1 DEF Ahead, Apart, Alike

LEMMA RisingOnce ==
  ASSUME NEW f, Rising(f), Vals(f) \subseteq Call, DOMAIN f \subseteq Nat
  PROVE  \A i, j \in DOMAIN f : f[i] = f[j] => i = j
<1>1. \A i \in DOMAIN f : f[i].number \in Nat /\ i \in Nat
  BY DEF Vals, Call
<1>2. \A i, j \in DOMAIN f : i < j => f[i] # f[j]
  BY <1>1 DEF Rising, Alike
<1>3. QED
  BY <1>1, <1>2

LEMMA RisingSub ==
  ASSUME NEW f, NEW g, Rising(f), Sub(g, f)
  PROVE  Rising(g)
BY DEF Rising, Sub

LEMMA RisingGrown ==
  ASSUME NEW f, NEW g, NEW x, Rising(f), Grown(g, f, x), Follows(f, x)
  PROVE  Rising(g)
BY DEF Rising, Grown, Follows

(* A stage that only loses requests.                                       *)
LEMMA ChainShrinks ==
  ASSUME NEW F, NEW G, Chain(F), \A m \in Stage : Sub(G[m], F[m])
  PROVE  Chain(G)
<1>1. \A m \in Stage : Vals(G[m]) \subseteq Call
  BY SubVals DEF Chain
<1>2. ASSUME NEW m \in Stage PROVE Rising(G[m])
  BY DEF Chain, Rising, Sub
<1>3. ASSUME NEW m \in Stage, NEW n \in Stage, m < n PROVE Ahead(G[m], G[n])
  <2>1. Ahead(F[m], F[n]) /\ Sub(G[m], F[m]) /\ Sub(G[n], F[n])
    BY <1>3 DEF Chain
  <2>2. QED
    BY <2>1 DEF Ahead, Sub
<1>4. QED
  BY <1>1, <1>2, <1>3 DEF Chain

(* Stage m gets x, which follows what is in it and in later stages and     *)
(* precedes what is left in the earlier ones.                              *)
LEMMA ChainGrows ==
  ASSUME NEW F, NEW G, Chain(F), NEW m \in Stage, NEW x \in Call,
         Grown(G[m], F[m], x), \A n \in Stage : n # m => Sub(G[n], F[n]),
         \A n \in Stage : n <= m => Follows(F[n], x),
         \A n \in Stage : n > m => Precedes(x, G[n])
  PROVE  Chain(G)
<1>1. ASSUME NEW n \in Stage PROVE Vals(G[n]) \subseteq Call
  <2>1. Vals(F[n]) \subseteq Call
    BY DEF Chain
  <2>2. CASE n # m
    BY <2>1, <2>2, SubVals
  <2>3. CASE n = m
    BY <2>1, <2>3, SubVals
  <2>4. QED
    BY <2>2, <2>3
<1>2. ASSUME NEW n \in Stage PROVE Rising(G[n])
  <2>1. CASE n # m
    BY <2>1 DEF Chain, Rising, Sub
  <2>2. CASE n = m
    <3>1. Rising(F[m]) /\ Follows(F[m], x)
      BY DEF Chain, Stage
    <3>2. QED
      BY <2>2, <3>1 DEF Rising, Follows, Grown
  <2>3. QED
    BY <2>1, <2>2
<1>3. ASSUME NEW l \in Stage, NEW n \in Stage, l < n PROVE Ahead(G[l], G[n])
  <2>1. Ahead(F[l], F[n])
    BY <1>3 DEF Chain
  <2>2. CASE l # m /\ n # m
    <3>1. Sub(G[l], F[l]) /\ Sub(G[n], F[n])
      BY <2>2
    <3>2. QED
      BY <2>1, <3>1 DEF Ahead, Sub
  <2>3. CASE l = m
    <3>1. Precedes(x, G[n]) /\ Sub(G[n], F[n]) /\ Grown(G[l], F[l], x)
      BY <1>3, <2>3 DEF Stage
    <3>2. QED
      BY <2>1, <3>1 DEF Ahead, Sub, Grown, Precedes
  <2>4. CASE n = m
    <3>1. Follows(F[l], x) /\ Sub(G[l], F[l]) /\ Grown(G[n], F[n], x)
      BY <1>3, <2>4 DEF Stage
    <3>2. QED
      BY <2>1, <3>1 DEF Ahead, Sub, Grown, Follows
  <2>5. QED
    BY <2>2, <2>3, <2>4
<1>4. QED
  BY <1>1, <1>2, <1>3 DEF Chain

(* The first of stage m + 1 goes to the end of stage m.                    *)
LEMMA ChainMoves ==
  ASSUME NEW F, NEW G, Chain(F), NEW m \in 1 .. 4, NEW x \in Vals(F[m + 1]),
         Grown(G[m], F[m], x), \A n \in Stage : n # m => Sub(G[n], F[n]),
         Precedes(x, G[m + 1])
  PROVE  Chain(G)
<1>1. m \in Stage /\ m + 1 \in Stage /\ m < m + 1
  BY DEF Stage
<1>2. x \in Call
  BY <1>1 DEF Chain
<1>3. PICK a \in DOMAIN F[m + 1] : x = F[m + 1][a]
  BY DEF Vals
<1>4. ASSUME NEW n \in Stage, n <= m PROVE Follows(F[n], x)
  <2>1. Ahead(F[n], F[m + 1])
    BY <1>1, <1>4 DEF Chain, Stage
  <2>2. QED
    BY <1>3, <2>1 DEF Ahead, Follows
<1>5. ASSUME NEW n \in Stage, n > m PROVE Precedes(x, G[n])
  <2>1. CASE n = m + 1
    BY <2>1
  <2>2. CASE n # m + 1
    <3>1. m + 1 < n /\ n # m
      BY <1>5, <2>2 DEF Stage
    <3>2. Ahead(F[m + 1], F[n]) /\ Sub(G[n], F[n])
      BY <1>1, <3>1 DEF Chain
    <3>3. QED
      BY <1>3, <3>2 DEF Ahead, Precedes, Sub
  <2>3. QED
    BY <2>1, <2>2
<1>6. QED
  BY <1>1, <1>2, <1>4, <1>5, ChainGrows
-----------------------------------------------------------------------------
(* The queues of the system.                                               *)

LEMMA QueueTail ==
  ASSUME NEW S, NEW q \in Seq(S), q # <<>>
  PROVE  /\ Tail(q) \in Seq(S) /\ Head(q) \in S /\ 1 \in DOMAIN q /\ Head(q) = q[1]
         /\ DOMAIN q \subseteq Nat
         /\ \A i \in DOMAIN Tail(q) : i \in Nat /\ i + 1 \in DOMAIN q /\ 1 < i + 1 /\ Tail(q)[i] = q[i + 1]
<1>1. /\ Tail(q) \in Seq(S) /\ Head(q) \in S /\ Head(q) = q[1]
      /\ Len(q) \in Nat \ {0} /\ DOMAIN q = 1 .. Len(q) /\ DOMAIN Tail(q) = 1 .. Len(q) - 1
      /\ \A i \in 1 .. Len(q) - 1 : Tail(q)[i] = q[i + 1]
  OBVIOUS
<1>2. QED
  BY <1>1

LEMMA QueueAppend ==
  ASSUME NEW S, NEW q \in Seq(S), NEW e \in S
  PROVE  /\ Append(q, e) \in Seq(S) /\ DOMAIN q \subseteq DOMAIN Append(q, e)
         /\ \A i \in DOMAIN q : Append(q, e)[i] = q[i]
         /\ Len(q) + 1 \in DOMAIN Append(q, e) /\ Append(q, e)[Len(q) + 1] = e
         /\ \A i \in DOMAIN Append(q, e) : (i \in DOMAIN q) \/ (i = Len(q) + 1 /\ Append(q, e)[i] = e)
         /\ \A i, j \in DOMAIN Append(q, e) : i < j => i \in DOMAIN q
<1>1. /\ Append(q, e) \in Seq(S) /\ Len(q) \in Nat
      /\ DOMAIN q = 1 .. Len(q) /\ DOMAIN Append(q, e) = 1 .. Len(q) + 1
      /\ \A i \in 1 .. Len(q) : Append(q, e)[i] = q[i]
      /\ Append(q, e)[Len(q) + 1] = e
  OBVIOUS
<1>2. QED
  BY <1>1

LEMMA QueuePrefix ==
  ASSUME NEW S, NEW q \in Seq(S), NEW n \in Int, n <= Len(q)
  PROVE  /\ SubSeq(q, 1, n) \in Seq(S) /\ DOMAIN SubSeq(q, 1, n) \subseteq DOMAIN q
         /\ \A i \in DOMAIN SubSeq(q, 1, n) : SubSeq(q, 1, n)[i] = q[i]
OBVIOUS

(* The head leaves.                                                        *)
LEMMA MsgsTail ==
  ASSUME NEW S, NEW q \in Seq(S), q # <<>>
  PROVE  /\ Sub(Msgs(Tail(q)), Msgs(q))
         /\ Head(q).op = "message" =>
              /\ Head(q).msg \in Vals(Msgs(q))
              /\ Rising(Msgs(q)) => Precedes(Head(q).msg, Msgs(Tail(q)))
<1>1. /\ 1 \in DOMAIN q /\ Head(q) = q[1] /\ DOMAIN q \subseteq Nat
      /\ \A i \in DOMAIN Tail(q) : i \in Nat /\ i + 1 \in DOMAIN q /\ 1 < i + 1 /\ Tail(q)[i] = q[i + 1]
  BY QueueTail
<1>2. \A i \in DOMAIN Msgs(Tail(q)) :
        i \in Nat /\ i + 1 \in DOMAIN Msgs(q) /\ 1 < i + 1 /\ Msgs(Tail(q))[i] = Msgs(q)[i + 1]
  BY <1>1 DEF Msgs
<1>3. \A i, j \in DOMAIN Msgs(Tail(q)) : i < j => i + 1 < j + 1
  BY <1>2
<1>4. Head(q).op = "message" => 1 \in DOMAIN Msgs(q) /\ Msgs(q)[1] = Head(q).msg
  BY <1>1 DEF Msgs
<1>5. Sub(Msgs(Tail(q)), Msgs(q))
  BY <1>2, <1>3 DEF Sub
<1>6. Head(q).op = "message" => Head(q).msg \in Vals(Msgs(q))
  BY <1>4 DEF Vals
<1>7. Head(q).op = "message" /\ Rising(Msgs(q)) => Precedes(Head(q).msg, Msgs(Tail(q)))
  BY <1>2, <1>4 DEF Rising, Precedes
<1>8. QED
  BY <1>5, <1>6, <1>7

LEMMA ReqsTail ==
  ASSUME NEW S, NEW q \in Seq(S), q # <<>>
  PROVE  /\ Sub(Reqs(Tail(q)), Reqs(q)) /\ Head(q).req \in Vals(Reqs(q))
         /\ Rising(Reqs(q)) => Precedes(Head(q).req, Reqs(Tail(q)))
<1>1. /\ 1 \in DOMAIN q /\ Head(q) = q[1] /\ DOMAIN q \subseteq Nat
      /\ \A i \in DOMAIN Tail(q) : i \in Nat /\ i + 1 \in DOMAIN q /\ 1 < i + 1 /\ Tail(q)[i] = q[i + 1]
  BY QueueTail
<1>2. \A i \in DOMAIN Reqs(Tail(q)) :
        i \in Nat /\ i + 1 \in DOMAIN Reqs(q) /\ 1 < i + 1 /\ Reqs(Tail(q))[i] = Reqs(q)[i + 1]
  BY <1>1 DEF Reqs
<1>3. \A i, j \in DOMAIN Reqs(Tail(q)) : i < j => i + 1 < j + 1
  BY <1>2
<1>4. 1 \in DOMAIN Reqs(q) /\ Reqs(q)[1] = Head(q).req
  BY <1>1 DEF Reqs
<1>5. Sub(Reqs(Tail(q)), Reqs(q))
  BY <1>2, <1>3 DEF Sub
<1>6. Head(q).req \in Vals(Reqs(q))
  BY <1>4 DEF Vals
<1>7. Rising(Reqs(q)) => Precedes(Head(q).req, Reqs(Tail(q)))
  BY <1>2, <1>4 DEF Rising, Precedes
<1>8. QED
  BY <1>5, <1>6, <1>7

(* An element comes to the end.                                            *)
LEMMA MsgsAppend ==
  ASSUME NEW S, NEW q \in Seq(S), NEW e \in S
  PROVE  /\ e.op # "message" => Sub(Msgs(Append(q, e)), Msgs(q))
         /\ e.op = "message" => Grown(Msgs(Append(q, e)), Msgs(q), e.msg) /\ e.msg \in Vals(Msgs(Append(q, e)))
         /\ Vals(Msgs(q)) \subseteq Vals(Msgs(Append(q, e)))
<1>1. /\ DOMAIN q \subseteq DOMAIN Append(q, e)
      /\ \A i \in DOMAIN q : Append(q, e)[i] = q[i]
      /\ Len(q) + 1 \in DOMAIN Append(q, e) /\ Append(q, e)[Len(q) + 1] = e
      /\ \A i \in DOMAIN Append(q, e) : (i \in DOMAIN q) \/ (i = Len(q) + 1 /\ Append(q, e)[i] = e)
      /\ \A i, j \in DOMAIN Append(q, e) : i < j => i \in DOMAIN q
  BY QueueAppend
<1> DEFINE f == Msgs(q)
           g == Msgs(Append(q, e))
<1>2. \A i \in DOMAIN f : i \in DOMAIN g /\ g[i] = f[i]
  BY <1>1 DEF Msgs
<1>3. \A i \in DOMAIN g : (i \in DOMAIN f /\ g[i] = f[i]) \/ (e.op = "message" /\ g[i] = e.msg)
  BY <1>1 DEF Msgs
<1>4. \A i, j \in DOMAIN g : i < j => i \in DOMAIN f /\ g[i] = f[i]
  BY <1>1 DEF Msgs
<1>5. e.op = "message" => Len(q) + 1 \in DOMAIN g /\ g[Len(q) + 1] = e.msg
  BY <1>1 DEF Msgs
<1> HIDE DEF f, g
<1>6. e.op # "message" => Sub(g, f)
  BY <1>3 DEF Sub
<1>7. Grown(g, f, e.msg) \/ e.op # "message"
  BY <1>3, <1>4 DEF Grown
<1>8. (e.op = "message" => e.msg \in Vals(g)) /\ Vals(f) \subseteq Vals(g)
  BY <1>2, <1>5 DEF Vals
<1>9. QED
  BY <1>6, <1>7, <1>8 DEF f, g

LEMMA ReqsAppend ==
  ASSUME NEW S, NEW q \in Seq(S), NEW e \in S
  PROVE  /\ Grown(Reqs(Append(q, e)), Reqs(q), e.req) /\ e.req \in Vals(Reqs(Append(q, e)))
         /\ Vals(Reqs(q)) \subseteq Vals(Reqs(Append(q, e)))
<1>1. /\ DOMAIN q \subseteq DOMAIN Append(q, e)
      /\ \A i \in DOMAIN q : Append(q, e)[i] = q[i]
      /\ Len(q) + 1 \in DOMAIN Append(q, e) /\ Append(q, e)[Len(q) + 1] = e
      /\ \A i \in DOMAIN Append(q, e) : (i \in DOMAIN q) \/ (i = Len(q) + 1 /\ Append(q, e)[i] = e)
      /\ \A i, j \in DOMAIN Append(q, e) : i < j => i \in DOMAIN q
  BY QueueAppend
<1> DEFINE f == Reqs(q)
           g == Reqs(Append(q, e))
<1>2. \A i \in DOMAIN f : i \in DOMAIN g /\ g[i] = f[i]
  BY <1>1 DEF Reqs
<1>3. \A i \in DOMAIN g : (i \in DOMAIN f /\ g[i] = f[i]) \/ g[i] = e.req
  BY <1>1 DEF Reqs
<1>4. \A i, j \in DOMAIN g : i < j => i \in DOMAIN f /\ g[i] = f[i]
  BY <1>1 DEF Reqs
<1>5. Len(q) + 1 \in DOMAIN g /\ g[Len(q) + 1] = e.req
  BY <1>1 DEF Reqs
<1> HIDE DEF f, g
<1>6. Grown(g, f, e.req)
  BY <1>3, <1>4 DEF Grown
<1>7. e.req \in Vals(g) /\ Vals(f) \subseteq Vals(g)
  BY <1>2, <1>5 DEF Vals
<1>8. QED
  BY <1>6, <1>7 DEF f, g

LEMMA ReqsGrown ==
  ASSUME NEW S, NEW q \in Seq(S), NEW e \in S
  PROVE  Vals(Reqs(Append(q, e))) = Vals(Reqs(q)) \cup {e.req}
<1>1. /\ Grown(Reqs(Append(q, e)), Reqs(q), e.req) /\ e.req \in Vals(Reqs(Append(q, e)))
      /\ Vals(Reqs(q)) \subseteq Vals(Reqs(Append(q, e)))
  BY ReqsAppend
<1>2. QED
  BY <1>1, SubVals

LEMMA RespsAppend ==
  ASSUME NEW S, NEW q \in Seq(S), NEW e \in S
  PROVE  Grown(Resps(Append(q, e)), Resps(q), e.response)
<1>1. /\ \A i \in DOMAIN q : Append(q, e)[i] = q[i]
      /\ \A i \in DOMAIN Append(q, e) : (i \in DOMAIN q) \/ (i = Len(q) + 1 /\ Append(q, e)[i] = e)
      /\ \A i, j \in DOMAIN Append(q, e) : i < j => i \in DOMAIN q
  BY QueueAppend
<1> DEFINE f == Resps(q)
           g == Resps(Append(q, e))
<1>2. \A i \in DOMAIN g : (i \in DOMAIN f /\ g[i] = f[i]) \/ g[i] = e.response
  BY <1>1 DEF Resps
<1>3. \A i, j \in DOMAIN g : i < j => i \in DOMAIN f /\ g[i] = f[i]
  BY <1>1 DEF Resps
<1> HIDE DEF f, g
<1>4. Grown(g, f, e.response)
  BY <1>2, <1>3 DEF Grown
<1>5. QED
  BY <1>4 DEF f, g
-----------------------------------------------------------------------------
(* How the stages of the system move.                                      *)

LEMMA AskedCalls ==
  ASSUME RecTypes
  PROVE  asked \subseteq Call /\ Sent \subseteq asked
BY RecordSystemAssumption DEF RecTypes, Sent

LEMMA SentKept ==
  ASSUME UNCHANGED <<asked, up>>
  PROVE  Sent' = Sent
BY DEF Sent, Vals

LEMMA NotIn ==
  ASSUME NEW x \in Call, NEW g
  PROVE  (Precedes(x, g) => x \notin Vals(g)) /\ (Follows(g, x) => x \notin Vals(g))
<1>1. x.number \in Nat
  BY DEF Call
<1>2. QED
  BY <1>1 DEF Precedes, Follows, Vals, Alike

LEMMA StagesAre ==
  ASSUME NEW c, NEW k
  PROVE  /\ Stage = {1, 2, 3, 4, 5}
         /\ Stages(c, k)[1] = Resps(handled[c]) /\ Stages(c, k)[2] = Msgs(down[c])
         /\ Stages(c, k)[3] = Reqs(slotr[k]) /\ Stages(c, k)[4] = Reqs(slotw[k])
         /\ Stages(c, k)[5] = Msgs(inq)
BY DEF Stage, Stages

LEMMA StagesAreNext ==
  ASSUME NEW c, NEW k
  PROVE  /\ Stages(c, k)'[1] = Resps(handled'[c]) /\ Stages(c, k)'[2] = Msgs(down'[c])
         /\ Stages(c, k)'[3] = Reqs(slotr'[k]) /\ Stages(c, k)'[4] = Reqs(slotw'[k])
         /\ Stages(c, k)'[5] = Msgs(inq')
BY DEF Stage, Stages, Msgs, Reqs, Resps

LEMMA InAskedNext ==
  ASSUME Vals(Msgs(inq')) \subseteq Sent',
         \A k \in Slots : \A r \in Vals(Reqs(slotw'[k])) \cup Vals(Reqs(slotr'[k])) : r \in Sent' /\ SlotOf(r) = k,
         \A c \in Clients : \A r \in Vals(Msgs(down'[c])) \cup Vals(Resps(handled'[c])) :
                              r \in Sent' /\ SlotOf(r) \in Slots
  PROVE  InAsked'
BY DEF InAsked, Served

LEMMA CrossNext ==
  ASSUME \A c, d \in Clients :
           c # d => /\ Apart(Msgs(down'[c]), Msgs(down'[d]))
                    /\ Apart(Resps(handled'[c]), Msgs(down'[d]))
                    /\ Apart(Resps(handled'[c]), Resps(handled'[d]))
  PROVE  Cross'
BY DEF Cross

(* What is known of the places of one client and one slot.                 *)
LEMMA ChainFacts ==
  ASSUME Flow, NEW c \in Clients, NEW k \in Slots
  PROVE  /\ Rising(Msgs(down[c])) /\ Rising(Resps(handled[c])) /\ Rising(Msgs(inq))
         /\ Rising(Reqs(slotw[k])) /\ Rising(Reqs(slotr[k]))
         /\ Ahead(Reqs(slotw[k]), Msgs(inq))
         /\ Ahead(Reqs(slotr[k]), Msgs(inq)) /\ Ahead(Reqs(slotr[k]), Reqs(slotw[k]))
         /\ Ahead(Msgs(down[c]), Msgs(inq)) /\ Ahead(Msgs(down[c]), Reqs(slotw[k]))
         /\ Ahead(Msgs(down[c]), Reqs(slotr[k]))
         /\ Ahead(Resps(handled[c]), Msgs(inq)) /\ Ahead(Resps(handled[c]), Reqs(slotw[k]))
         /\ Ahead(Resps(handled[c]), Reqs(slotr[k])) /\ Ahead(Resps(handled[c]), Msgs(down[c]))
<1>1. Chain(Stages(c, k))
  BY DEF Flow, Chains
<1>2. QED
  BY <1>1, StagesAre DEF Chain

(* Places only become empty.                                               *)
LEMMA FlowShrinks ==
  ASSUME Flow, AskedInOrder', Sent \subseteq Sent',
         \A c \in Clients : Sub(Msgs(down'[c]), Msgs(down[c])) /\ Sub(Resps(handled'[c]), Resps(handled[c])),
         \A k \in Slots : Sub(Reqs(slotw'[k]), Reqs(slotw[k])) /\ Sub(Reqs(slotr'[k]), Reqs(slotr[k])),
         Sub(Msgs(inq'), Msgs(inq))
  PROVE  Flow'
<1>1. ASSUME NEW c \in Clients, NEW k \in Slots PROVE Chain(Stages(c, k)')
  <2>1. \A m \in Stage : Sub(Stages(c, k)'[m], Stages(c, k)[m])
    BY StagesAre, StagesAreNext
  <2>2. QED
    BY <2>1, ChainShrinks DEF Flow, Chains
<1>2. /\ \A c \in Clients : /\ Vals(Msgs(down'[c])) \subseteq Vals(Msgs(down[c]))
                            /\ Vals(Resps(handled'[c])) \subseteq Vals(Resps(handled[c]))
      /\ \A k \in Slots : /\ Vals(Reqs(slotw'[k])) \subseteq Vals(Reqs(slotw[k]))
                          /\ Vals(Reqs(slotr'[k])) \subseteq Vals(Reqs(slotr[k]))
      /\ Vals(Msgs(inq')) \subseteq Vals(Msgs(inq))
  BY SubVals
<1>3. Cross'
  <2>1. SUFFICES ASSUME NEW c \in Clients, NEW d \in Clients, c # d
                 PROVE  /\ Apart(Msgs(down'[c]), Msgs(down'[d]))
                        /\ Apart(Resps(handled'[c]), Msgs(down'[d]))
                        /\ Apart(Resps(handled'[c]), Resps(handled'[d]))
    BY CrossNext
  <2>2. QED
    BY <1>2, <2>1, ApartSub DEF Flow, Cross
<1>4. InAsked'
  <2>1. InAsked
    BY DEF Flow
  <2>2. QED
    BY <1>2, <2>1, InAskedNext DEF InAsked, Served
<1>5. Rising(Msgs(inq'))
  BY RisingSub DEF Flow
<1>6. QED
  BY <1>1, <1>3, <1>4, <1>5 DEF Flow, Chains

(* A request is sent that waited.                                          *)
LEMMA FlowAsks ==
  ASSUME Flow, AskedInOrder', NEW x \in Call, Sent \subseteq Sent', x \in Sent', Grown(Msgs(inq'), Msgs(inq), x),
         \A q \in Sent : q.client = x.client => q.number < x.number,
         UNCHANGED <<down, handled, slotw, slotr>>
  PROVE  Flow'
<1>1. InAsked
  BY DEF Flow
<1>2. ASSUME NEW c \in Clients, NEW k \in Slots PROVE Chain(Stages(c, k)')
  <2>1. \A m \in Stage : m # 5 => Sub(Stages(c, k)'[m], Stages(c, k)[m])
    BY StagesAre, StagesAreNext, SubSame
  <2>2. Grown(Stages(c, k)'[5], Stages(c, k)[5], x)
    BY StagesAre, StagesAreNext
  <2>3. ASSUME NEW m \in Stage PROVE Follows(Stages(c, k)[m], x)
    <3>1. Vals(Stages(c, k)[m]) \subseteq Sent
      BY <1>1, StagesAre DEF InAsked, Served
    <3>2. QED
      BY <3>1 DEF Follows, Vals, Alike
  <2>4. 5 \in Stage /\ \A m \in Stage : ~(m > 5)
    BY DEF Stage
  <2>5. Chain(Stages(c, k))
    BY DEF Flow, Chains
  <2>6. QED
    BY <2>1, <2>2, <2>3, <2>4, <2>5, ChainGrows
<1>3. Cross'
  BY DEF Flow, Cross
<1>4. InAsked'
  <2>1. Vals(Msgs(inq')) \subseteq Sent'
    <3>1. Vals(Msgs(inq')) \subseteq Vals(Msgs(inq)) \cup {x}
      BY SubVals
    <3>2. QED
      BY <1>1, <3>1 DEF InAsked
  <2>2. QED
    BY <1>1, <2>1, InAskedNext DEF InAsked, Served
<1>5. Rising(Msgs(inq'))
  <2>1. Follows(Msgs(inq), x)
    BY <1>1 DEF InAsked, Follows, Alike, Vals
  <2>2. QED
    BY <2>1, RisingGrown DEF Flow
<1>6. QED
  BY <1>2, <1>3, <1>4, <1>5 DEF Flow, Chains

(* A request goes to its slot.                                             *)
LEMMA FlowAccepts ==
  ASSUME Flow, AskedInOrder', NEW k \in Slots, NEW x \in Vals(Msgs(inq)), SlotOf(x) = k, Sent \subseteq Sent',
         Sub(Msgs(inq'), Msgs(inq)), Precedes(x, Msgs(inq')), Grown(Reqs(slotw'[k]), Reqs(slotw[k]), x),
         \A l \in Slots : l # k => slotw'[l] = slotw[l],
         UNCHANGED <<down, handled, slotr>>
  PROVE  Flow'
<1>1. InAsked
  BY DEF Flow
<1>2. ASSUME NEW c \in Clients, NEW l \in Slots PROVE Chain(Stages(c, l)')
  <2>1. Chain(Stages(c, l))
    BY DEF Flow, Chains
  <2>2. CASE l # k
    <3>1. \A m \in Stage : Sub(Stages(c, l)'[m], Stages(c, l)[m])
      BY <2>2, StagesAre, StagesAreNext, SubSame
    <3>2. QED
      BY <2>1, <3>1, ChainShrinks
  <2>3. CASE l = k
    <3>1. \A m \in Stage : m # 4 => Sub(Stages(c, k)'[m], Stages(c, k)[m])
      BY StagesAre, StagesAreNext, SubSame
    <3>2. /\ Grown(Stages(c, k)'[4], Stages(c, k)[4], x)
          /\ x \in Vals(Stages(c, k)[4 + 1]) /\ Precedes(x, Stages(c, k)'[4 + 1])
      BY StagesAre, StagesAreNext
    <3>3. QED
      BY <2>1, <2>3, <3>1, <3>2, ChainMoves
  <2>4. QED
    BY <2>2, <2>3
<1>3. Cross'
  BY DEF Flow, Cross
<1>4. InAsked'
  <2>1. /\ Vals(Msgs(inq')) \subseteq Vals(Msgs(inq))
        /\ Vals(Reqs(slotw'[k])) \subseteq Vals(Reqs(slotw[k])) \cup {x} /\ x \in Sent
    BY <1>1, SubVals DEF InAsked, Served
  <2>2. \A l \in Slots : \A r \in Vals(Reqs(slotw'[l])) : r \in Sent /\ SlotOf(r) = l
    BY <1>1, <2>1 DEF InAsked, Served
  <2>3. QED
    BY <1>1, <2>1, <2>2, InAskedNext DEF InAsked, Served
<1>5. Rising(Msgs(inq'))
  BY RisingSub DEF Flow
<1>6. QED
  BY <1>2, <1>3, <1>4, <1>5 DEF Flow, Chains

(* A slot executes its first request.                                      *)
LEMMA FlowExecutes ==
  ASSUME Flow, AskedInOrder', NEW k \in Slots, NEW x \in Vals(Reqs(slotw[k])), Sent \subseteq Sent',
         Sub(Reqs(slotw'[k]), Reqs(slotw[k])), Precedes(x, Reqs(slotw'[k])),
         Grown(Reqs(slotr'[k]), Reqs(slotr[k]), x),
         \A l \in Slots : l # k => slotw'[l] = slotw[l] /\ slotr'[l] = slotr[l],
         UNCHANGED <<down, handled, inq>>
  PROVE  Flow'
<1>1. InAsked
  BY DEF Flow
<1>2. ASSUME NEW c \in Clients, NEW l \in Slots PROVE Chain(Stages(c, l)')
  <2>1. Chain(Stages(c, l))
    BY DEF Flow, Chains
  <2>2. CASE l # k
    <3>1. \A m \in Stage : Sub(Stages(c, l)'[m], Stages(c, l)[m])
      BY <2>2, StagesAre, StagesAreNext, SubSame
    <3>2. QED
      BY <2>1, <3>1, ChainShrinks
  <2>3. CASE l = k
    <3>1. \A m \in Stage : m # 3 => Sub(Stages(c, k)'[m], Stages(c, k)[m])
      BY StagesAre, StagesAreNext, SubSame
    <3>2. /\ Grown(Stages(c, k)'[3], Stages(c, k)[3], x)
          /\ x \in Vals(Stages(c, k)[3 + 1]) /\ Precedes(x, Stages(c, k)'[3 + 1])
      BY StagesAre, StagesAreNext
    <3>3. QED
      BY <2>1, <2>3, <3>1, <3>2, ChainMoves
  <2>4. QED
    BY <2>2, <2>3
<1>3. Cross'
  BY DEF Flow, Cross
<1>4. InAsked'
  <2>1. /\ Vals(Reqs(slotw'[k])) \subseteq Vals(Reqs(slotw[k]))
        /\ Vals(Reqs(slotr'[k])) \subseteq Vals(Reqs(slotr[k])) \cup {x}
        /\ x \in Sent /\ SlotOf(x) = k
    BY <1>1, SubVals DEF InAsked, Served
  <2>2. \A l \in Slots : \A r \in Vals(Reqs(slotw'[l])) \cup Vals(Reqs(slotr'[l])) : r \in Sent /\ SlotOf(r) = l
    BY <1>1, <2>1 DEF InAsked, Served
  <2>3. QED
    BY <1>1, <2>2, InAskedNext DEF InAsked, Served
<1>5. Rising(Msgs(inq'))
  BY DEF Flow
<1>6. QED
  BY <1>2, <1>3, <1>4, <1>5 DEF Flow, Chains

(* The first answer of a slot goes to client d.                            *)
LEMMA FlowAnswers ==
  ASSUME Flow, RecTypes, AskedInOrder', NEW k \in Slots, NEW x \in Vals(Reqs(slotr[k])), Sent \subseteq Sent',
         Sub(Reqs(slotr'[k]), Reqs(slotr[k])), Precedes(x, Reqs(slotr'[k])),
         \A l \in Slots : l # k => slotr'[l] = slotr[l],
         NEW d \in Clients, Grown(Msgs(down'[d]), Msgs(down[d]), x),
         \A c \in Clients : c # d => down'[c] = down[c],
         UNCHANGED <<slotw, handled, inq>>
  PROVE  Flow'
<1>1. InAsked
  BY DEF Flow
<1>2. x \in Sent /\ x \in Call /\ SlotOf(x) = k
  BY <1>1, AskedCalls DEF InAsked, Served
<1>3. PICK a \in DOMAIN Reqs(slotr[k]) : x = Reqs(slotr[k])[a]
  BY DEF Vals
<1>4. \A c \in Clients : Follows(Msgs(down[c]), x) /\ Follows(Resps(handled[c]), x)
  BY <1>3, ChainFacts DEF Ahead, Follows
<1>5. Precedes(x, Msgs(inq)) /\ Precedes(x, Reqs(slotw[k]))
  BY <1>3, ChainFacts DEF Ahead, Precedes
<1>6. ASSUME NEW c \in Clients, NEW l \in Slots PROVE Chain(Stages(c, l)')
  <2>1. Chain(Stages(c, l))
    BY DEF Flow, Chains
  <2>2. CASE c # d
    <3>1. \A m \in Stage : Sub(Stages(c, l)'[m], Stages(c, l)[m])
      BY <2>2, StagesAre, StagesAreNext, SubSame
    <3>2. QED
      BY <2>1, <3>1, ChainShrinks
  <2>3. CASE c = d
    <3>1. \A m \in Stage : m # 2 => Sub(Stages(c, l)'[m], Stages(c, l)[m])
      BY StagesAre, StagesAreNext, SubSame
    <3>2. Grown(Stages(c, l)'[2], Stages(c, l)[2], x)
      BY <2>3, StagesAre, StagesAreNext
    <3>3. \A m \in Stage : m <= 2 => Follows(Stages(c, l)[m], x)
      BY <1>4, StagesAre
    <3>4. ASSUME NEW m \in Stage, m > 2 PROVE Precedes(x, Stages(c, l)'[m])
      <4>1. Precedes(x, Stages(c, l)'[5])
        BY <1>5, StagesAreNext
      <4>2. CASE l = k
        <5>1. Precedes(x, Stages(c, l)'[3]) /\ Precedes(x, Stages(c, l)'[4])
          BY <1>5, <4>2, StagesAreNext
        <5>2. QED
          BY <3>4, <4>1, <5>1, StagesAre
      <4>3. CASE l # k
        <5>1. \A r \in Vals(Reqs(slotw[l])) \cup Vals(Reqs(slotr[l])) : SlotOf(r) # SlotOf(x)
          BY <1>1, <1>2, <4>3 DEF InAsked, Served
        <5>2. Precedes(x, Reqs(slotr[l])) /\ Precedes(x, Reqs(slotw[l]))
          BY <5>1 DEF Precedes, Vals, Alike
        <5>3. Precedes(x, Stages(c, l)'[3]) /\ Precedes(x, Stages(c, l)'[4])
          BY <4>3, <5>2, StagesAreNext
        <5>4. QED
          BY <3>4, <4>1, <5>3, StagesAre
      <4>4. QED
        BY <4>2, <4>3
    <3>5. 2 \in Stage
      BY DEF Stage
    <3>6. QED
      BY <1>2, <2>1, <3>1, <3>2, <3>3, <3>4, <3>5, ChainGrows
  <2>4. QED
    BY <2>2, <2>3
<1>7. Cross'
  <2>1. SUFFICES ASSUME NEW c \in Clients, NEW e \in Clients, c # e
                 PROVE  /\ Apart(Msgs(down'[c]), Msgs(down'[e]))
                        /\ Apart(Resps(handled[c]), Msgs(down'[e]))
                        /\ Apart(Resps(handled[c]), Resps(handled[e]))
    BY CrossNext
  <2>2. Cross
    BY DEF Flow
  <2>3. \A b \in Clients : x \notin Vals(Msgs(down[b])) /\ x \notin Vals(Resps(handled[b]))
    BY <1>2, <1>4, NotIn
  <2>4. Vals(Msgs(down'[d])) \subseteq Vals(Msgs(down[d])) \cup {x}
    BY SubVals
  <2>5. Apart(Resps(handled[c]), Resps(handled[e]))
    BY <2>1, <2>2 DEF Cross
  <2>6. Apart(Msgs(down'[c]), Msgs(down'[e]))
    <3>1. Apart(Msgs(down[c]), Msgs(down[e])) /\ Apart(Msgs(down[e]), Msgs(down[c]))
      BY <2>1, <2>2 DEF Cross
    <3>2. CASE c = d
      BY <2>1, <2>3, <2>4, <3>1, <3>2, ApartGrown
    <3>3. CASE e = d
      BY <2>1, <2>3, <2>4, <3>1, <3>3, ApartGrown
    <3>4. CASE c # d /\ e # d
      BY <3>1, <3>4
    <3>5. QED
      BY <3>2, <3>3, <3>4
  <2>7. Apart(Resps(handled[c]), Msgs(down'[e]))
    <3>1. Apart(Resps(handled[c]), Msgs(down[e]))
      BY <2>1, <2>2 DEF Cross
    <3>2. CASE e = d
      BY <2>3, <2>4, <3>1, <3>2, ApartGrown
    <3>3. CASE e # d
      BY <3>1, <3>3
    <3>4. QED
      BY <3>2, <3>3
  <2>8. QED
    BY <2>5, <2>6, <2>7
<1>8. InAsked'
  <2>1. Vals(Reqs(slotr'[k])) \subseteq Vals(Reqs(slotr[k])) /\ Vals(Msgs(down'[d])) \subseteq Vals(Msgs(down[d])) \cup {x}
    BY SubVals
  <2>2. /\ \A l \in Slots : \A r \in Vals(Reqs(slotr'[l])) : r \in Sent /\ SlotOf(r) = l
        /\ \A c \in Clients : \A r \in Vals(Msgs(down'[c])) : r \in Sent /\ SlotOf(r) \in Slots
    BY <1>1, <1>2, <2>1 DEF InAsked, Served
  <2>3. QED
    BY <1>1, <2>2, InAskedNext DEF InAsked, Served
<1>9. Rising(Msgs(inq'))
  BY DEF Flow
<1>10. QED
  BY <1>6, <1>7, <1>8, <1>9 DEF Flow, Chains

(* Client d reads its first message.                                       *)
LEMMA FlowReads ==
  ASSUME Flow, RecTypes, AskedInOrder', NEW d \in Clients, NEW x \in Vals(Msgs(down[d])), Sent \subseteq Sent',
         Sub(Msgs(down'[d]), Msgs(down[d])), Precedes(x, Msgs(down'[d])),
         Grown(Resps(handled'[d]), Resps(handled[d]), x),
         \A c \in Clients : c # d => down'[c] = down[c] /\ handled'[c] = handled[c],
         UNCHANGED <<slotw, slotr, inq>>
  PROVE  Flow'
<1>1. InAsked
  BY DEF Flow
<1>2. ASSUME NEW c \in Clients, NEW l \in Slots PROVE Chain(Stages(c, l)')
  <2>1. Chain(Stages(c, l))
    BY DEF Flow, Chains
  <2>2. CASE c # d
    <3>1. \A m \in Stage : Sub(Stages(c, l)'[m], Stages(c, l)[m])
      BY <2>2, StagesAre, StagesAreNext, SubSame
    <3>2. QED
      BY <2>1, <3>1, ChainShrinks
  <2>3. CASE c = d
    <3>1. \A m \in Stage : m # 1 => Sub(Stages(d, l)'[m], Stages(d, l)[m])
      BY StagesAre, StagesAreNext, SubSame
    <3>2. /\ Grown(Stages(d, l)'[1], Stages(d, l)[1], x)
          /\ x \in Vals(Stages(d, l)[1 + 1]) /\ Precedes(x, Stages(d, l)'[1 + 1])
      BY StagesAre, StagesAreNext
    <3>3. QED
      BY <2>1, <2>3, <3>1, <3>2, ChainMoves
  <2>4. QED
    BY <2>2, <2>3
<1>3. /\ Vals(Msgs(down'[d])) \subseteq Vals(Msgs(down[d]))
      /\ Vals(Resps(handled'[d])) \subseteq Vals(Resps(handled[d])) \cup {x}
  BY SubVals
<1>4. x \in Call
  BY <1>1, AskedCalls DEF InAsked, Served
<1>5. Cross'
  <2>1. SUFFICES ASSUME NEW c \in Clients, NEW e \in Clients, c # e
                 PROVE  /\ Apart(Msgs(down'[c]), Msgs(down'[e]))
                        /\ Apart(Resps(handled'[c]), Msgs(down'[e]))
                        /\ Apart(Resps(handled'[c]), Resps(handled'[e]))
    BY CrossNext
  <2>2. /\ Apart(Msgs(down[c]), Msgs(down[e])) /\ Apart(Msgs(down[e]), Msgs(down[c]))
        /\ Apart(Resps(handled[c]), Msgs(down[e])) /\ Apart(Resps(handled[e]), Msgs(down[c]))
        /\ Apart(Resps(handled[c]), Resps(handled[e]))
    BY <2>1 DEF Flow, Cross
  <2>3. Apart(Msgs(down'[c]), Msgs(down'[e]))
    BY <1>3, <2>1, <2>2 DEF Apart, Vals
  <2>4. Apart(Resps(handled'[c]), Msgs(down'[e]))
    <3>1. CASE c = d
      BY <1>3, <2>1, <2>2, <3>1 DEF Apart, Vals
    <3>2. CASE c # d
      BY <1>3, <2>1, <2>2, <3>2 DEF Apart, Vals
    <3>3. QED
      BY <3>1, <3>2
  <2>5. Apart(Resps(handled'[c]), Resps(handled'[e]))
    BY <1>3, <2>1, <2>2 DEF Apart, Vals
  <2>6. QED
    BY <2>3, <2>4, <2>5
<1>6. InAsked'
  <2>1. \A c \in Clients : \A r \in Vals(Msgs(down'[c])) \cup Vals(Resps(handled'[c])) : r \in Sent /\ SlotOf(r) \in Slots
    BY <1>1, <1>3 DEF InAsked, Served
  <2>2. QED
    BY <1>1, <2>1, InAskedNext DEF InAsked, Served
<1>7. Rising(Msgs(inq'))
  BY DEF Flow
<1>8. QED
  BY <1>2, <1>5, <1>6, <1>7 DEF Flow, Chains
-----------------------------------------------------------------------------
(* The requests that are left when the head of a queue has gone.           *)
LEMMA TailVals ==
  ASSUME NEW S, NEW q \in Seq(S), q # <<>>
  PROVE  /\ Vals(Msgs(Tail(q))) \subseteq Vals(Msgs(q))
         /\ Head(q).op = "message" => Vals(Msgs(q)) \subseteq Vals(Msgs(Tail(q))) \cup {Head(q).msg}
         /\ Head(q).op # "message" => Vals(Msgs(q)) \subseteq Vals(Msgs(Tail(q)))
         /\ Vals(Reqs(Tail(q))) \subseteq Vals(Reqs(q))
         /\ Vals(Reqs(q)) \subseteq Vals(Reqs(Tail(q))) \cup {Head(q).req}
<1>1. /\ Len(q) \in Nat \ {0} /\ DOMAIN q = 1 .. Len(q) /\ DOMAIN Tail(q) = 1 .. Len(q) - 1
      /\ Head(q) = q[1]
      /\ \A i \in 1 .. Len(q) - 1 : Tail(q)[i] = q[i + 1]
  OBVIOUS
<1>2. \A i \in DOMAIN q : i = 1 \/ (i - 1 \in DOMAIN Tail(q) /\ Tail(q)[i - 1] = q[i])
  BY <1>1
<1>3. \A i \in DOMAIN Msgs(q) :
        (i = 1 /\ Head(q).op = "message") \/ (i - 1 \in DOMAIN Msgs(Tail(q)) /\ Msgs(Tail(q))[i - 1] = Msgs(q)[i])
  BY <1>1, <1>2 DEF Msgs
<1>4. \A i \in DOMAIN Reqs(q) :
        i = 1 \/ (i - 1 \in DOMAIN Reqs(Tail(q)) /\ Reqs(Tail(q))[i - 1] = Reqs(q)[i])
  BY <1>2 DEF Reqs
<1>5. /\ 1 \in DOMAIN Msgs(q) => Msgs(q)[1] = Head(q).msg
      /\ Reqs(q)[1] = Head(q).req
  BY <1>1 DEF Msgs, Reqs
<1>6. /\ Head(q).op = "message" => Vals(Msgs(q)) \subseteq Vals(Msgs(Tail(q))) \cup {Head(q).msg}
      /\ Head(q).op # "message" => Vals(Msgs(q)) \subseteq Vals(Msgs(Tail(q)))
  BY <1>3, <1>5 DEF Vals
<1>7. Vals(Reqs(q)) \subseteq Vals(Reqs(Tail(q))) \cup {Head(q).req}
  BY <1>4, <1>5 DEF Vals
<1>8. QED
  BY <1>6, <1>7, MsgsTail, ReqsTail, SubVals

LEMMA PendingNext ==
  ASSUME NEW r
  PROVE  Pending(r)' <=> r \in Vals(Msgs(inq')) \/ \E k \in Slots : r \in Vals(Reqs(slotw'[k]))
BY DEF Pending

LEMMA UnderWayNext ==
  ASSUME NEW r
  PROVE  UnderWay(r)' <=> \/ r \in Vals(up'[r.client])
                          \/ r \in Vals(Msgs(inq')) \/ r \in Vals(Msgs(down'[r.client]))
                          \/ \E k \in Slots : r \in Vals(Reqs(slotw'[k])) \/ r \in Vals(Reqs(slotr'[k]))
BY DEF UnderWay, Vals

(* Nothing is released, and what is pending was or is new.                 *)
LEMMA ReleasesNothing ==
  ASSUME ReleasedApart, released' = released, Sent \subseteq Sent',
         \A r \in Sent : Pending(r)' => Pending(r)
  PROVE  ReleasedApart'
BY DEF ReleasedApart

(* One message is released that was pending.                               *)
LEMMA ReleasesOne ==
  ASSUME RecTypes, ReleasedApart, NEW x \in Call, released' = Append(released, x), Sent \subseteq Sent',
         x \in Sent, Pending(x), ~Pending(x)', \A r \in Sent : Pending(r)' => Pending(r)
  PROVE  ReleasedApart'
<1>1. released \in Seq(Call)
  BY DEF RecTypes
<1>2. /\ \A i \in DOMAIN released : Append(released, x)[i] = released[i]
      /\ \A i \in DOMAIN Append(released, x) :
           (i \in DOMAIN released) \/ (i = Len(released) + 1 /\ Append(released, x)[i] = x)
  BY <1>1, QueueAppend
<1>3. \A i \in DOMAIN released : released[i] # x
  BY DEF ReleasedApart
<1>4. \A i, j \in DOMAIN released' : released'[i] = released'[j] => i = j
  BY <1>2, <1>3 DEF ReleasedApart
<1>5. ASSUME NEW i \in DOMAIN released', NEW y, y = released'[i] PROVE y \in Sent' /\ ~Pending(y)'
  BY <1>2, <1>5 DEF ReleasedApart
<1>6. QED
  BY <1>4, <1>5 DEF ReleasedApart

(* The clients' workers have what they had.                                *)
LEMMA QueuedKept ==
  ASSUME Queued, UNCHANGED <<asked, up>>, \A c \in Clients : link[c] # NoSocket => link'[c] # NoSocket
  PROVE  Queued' /\ Sent' = Sent
<1>1. Sent' = Sent
  BY SentKept
<1>2. QED
  BY <1>1 DEF Queued

(* What the programs and their callbacks have does not change.             *)
LEMMA ProgramsWait ==
  ASSUME RecInv, UNCHANGED clientVars,
         NoneDropped' => /\ NoneDropped
                         /\ \A r \in asked : r.kind \in CallbackKinds => (UnderWay(r)' <=> UnderWay(r))
  PROVE  AskedInOrder' /\ Waiting' /\ Awaited' /\ CallbackGetsItsAnswer'
<1> USE DEF RecInv, clientVars
<1>1. AskedInOrder'
  BY DEF Flow, AskedInOrder
<1>2. Waiting'
  BY DEF Waiting
<1>3. CallbackGetsItsAnswer'
  BY DEF CallbackGetsItsAnswer
<1>4. Awaited'
  <2>1. SUFFICES ASSUME NoneDropped', NEW c \in Clients, NEW u \in CallbackKinds, OneSlot(c, u)',
                        NEW r \in asked, r.client = c, r.kind = u
                 PROVE  UnderWay(r)' <=> r \in Vals(callbacks[c][u])
    BY DEF Awaited
  <2>2. OneSlot(c, u)
    BY <2>1 DEF OneSlot
  <2>3. QED
    BY <2>1, <2>2 DEF Awaited
<1>5. QED
  BY <1>1, <1>2, <1>3, <1>4

(* The messages of p are messages of q.                                    *)
Taken(p, q) == \A i \in DOMAIN p : p[i].op = "message" => \E a \in DOMAIN q : q[a] = p[i]

LEMMA RoutedNext ==
  ASSUME \A i \in DOMAIN inq' : inq'[i].op = "message" => Route(inq'[i].s, inq'[i].msg, link', dropped'),
         \A k \in Slots : \A i \in DOMAIN slotw'[k] : Route(slotw'[k][i].s, slotw'[k][i].req, link', dropped'),
         \A k \in Slots : \A i \in DOMAIN slotr'[k] : Route(slotr'[k][i].s, slotr'[k][i].req, link', dropped')
  PROVE  Routed'
BY DEF Routed

(* The slots keep what they have and every address stays good.             *)
LEMMA RoutedKept ==
  ASSUME RecTypes, Routed, Taken(inq', inq), UNCHANGED <<slotw, slotr>>,
         \A s \in Sockets : \A r \in Call : Route(s, r, link, dropped) => Route(s, r, link', dropped')
  PROVE  Routed'
<1>1. ASSUME NEW i \in DOMAIN inq', inq'[i].op = "message"
      PROVE  Route(inq'[i].s, inq'[i].msg, link', dropped')
  <2>1. PICK a \in DOMAIN inq : inq[a] = inq'[i]
    BY <1>1 DEF Taken
  <2>2. inq[a] \in Up /\ inq[a].op = "message"
    BY <1>1, <2>1 DEF RecTypes
  <2>3. inq[a].s \in Sockets /\ inq[a].msg \in Call /\ Route(inq[a].s, inq[a].msg, link, dropped)
    BY <2>2 DEF Up, Routed
  <2>4. QED
    BY <2>1, <2>3
<1>2. ASSUME NEW q \in Seq(Entry), NEW i \in DOMAIN q, Route(q[i].s, q[i].req, link, dropped)
      PROVE  Route(q[i].s, q[i].req, link', dropped')
  <2>1. q[i] \in Entry
    OBVIOUS
  <2>2. q[i].s \in Sockets /\ q[i].req \in Call
    BY <2>1 DEF Entry
  <2>3. QED
    BY <1>2, <2>2
<1>3. \A k \in Slots : slotw[k] \in Seq(Entry) /\ slotr[k] \in Seq(Entry)
  BY DEF RecTypes
<1>4. QED
  BY <1>1, <1>2, <1>3, RoutedNext DEF Routed

(* The connection of c is as it was, or it ends.                           *)
Ended(c) ==
  \/ /\ link'[c] = link[c] /\ state'[c] = state[c] /\ dropped'[c] = dropped[c] /\ down'[c] = down[c]
     /\ up'[c] = up[c]
  \/ /\ up'[c] = <<>> /\ link'[c] = NoSocket /\ dropped'[c] > 0 /\ state'[c] \in {"lost", "stopped"}
     /\ Vals(Msgs(down'[c])) \subseteq Vals(Msgs(down[c]))

(* Some connections end.                                                   *)
LEMMA ConnectionsEnd ==
  ASSUME RecTypes, Flow, Conn, Taken(inq', inq), UNCHANGED <<slotw, slotr, handled>>,
         dropped' \in [Clients -> Nat],
         \A c \in Clients : Ended(c),
         \A c \in Clients : dropped[c] > 0 => dropped'[c] > 0,
         NEW d \in Clients, dropped'[d] > 0
  PROVE  Conn'
<1>1. Links'
  <2>1. ASSUME NEW c \in Clients, NEW i \in DOMAIN down'[c], down'[c][i].op = "close" PROVE dropped'[c] > 0
    BY <2>1 DEF Ended, Conn, Links
  <2>2. QED
    BY <2>1 DEF Ended, Conn, Links
<1>2. ~NoneDropped'
  BY DEF NoneDropped
<1>3. ASSUME NEW s, NEW r \in Call, Route(s, r, link, dropped)
      PROVE  Route(s, r, link', dropped')
  <2>1. r.client \in Clients /\ dropped'[r.client] \in Nat
    BY DEF Call
  <2>2. QED
    BY <1>3, <2>1 DEF Route, RecTypes, Ended
<1>4. Routed'
  BY <1>3, RoutedKept DEF Conn
<1>5. Foreign'
  <2>1. \A c \in Clients : Vals(Msgs(down'[c])) \subseteq Vals(Msgs(down[c])) /\ handled'[c] = handled[c]
    BY DEF Ended
  <2>2. SUFFICES ASSUME NEW c \in Clients, NEW r \in Vals(Msgs(down'[c])) \cup Vals(Resps(handled'[c])),
                        r.client # c
                 PROVE  dropped'[r.client] > 0
    BY DEF Foreign
  <2>3. r \in Vals(Msgs(down[c])) \cup Vals(Resps(handled[c]))
    BY <2>1
  <2>4. dropped[r.client] > 0
    BY <2>2, <2>3 DEF Conn, Foreign
  <2>5. r \in Call
    BY <2>3, AskedCalls DEF Flow, InAsked, Served
  <2>6. r.client \in Clients
    BY <2>5 DEF Call
  <2>7. QED
    BY <2>4, <2>6
<1>6. Tasked'
  BY <1>2 DEF Tasked
<1>7. QED
  BY <1>1, <1>4, <1>5, <1>6 DEF Conn

LEMMA QueuedEnds ==
  ASSUME RecTypes, Queued, asked' = asked, \A c \in Clients : Ended(c)
  PROVE  Queued' /\ Sent \subseteq Sent'
<1>1. ASSUME NEW c \in Clients
      PROVE  (up'[c] = up[c] /\ link'[c] = link[c]) \/ (up'[c] = <<>> /\ Vals(up'[c]) = {})
  BY DEF Ended, Vals
<1>2. \A r \in asked : r.client \in Clients
  BY AskedCalls DEF Call
<1>3. \A r : r \in Sent' <=> r \in asked /\ r \notin Vals(up'[r.client])
  BY DEF Sent, Vals
<1>4. Sent \subseteq Sent'
  BY <1>1, <1>2, <1>3 DEF Sent
<1>5. ASSUME NEW c \in Clients, up'[c] = up[c], NEW q \in Sent', q.client = c PROVE q \in Sent
  BY <1>3, <1>5 DEF Sent
<1>6. Queued'
  <2>1. SUFFICES ASSUME NEW c \in Clients
                 PROVE  /\ up'[c] # <<>> => link'[c] # NoSocket
                        /\ \A i \in DOMAIN up'[c] : up'[c][i] \in asked' /\ up'[c][i].client = c
                        /\ \A i, j \in DOMAIN up'[c] : i < j => up'[c][i].number < up'[c][j].number
                        /\ \A q \in Sent' : q.client = c => \A i \in DOMAIN up'[c] : q.number < up'[c][i].number
    BY DEF Queued
  <2>2. CASE up'[c] = up[c] /\ link'[c] = link[c]
    BY <1>5, <2>2 DEF Queued
  <2>3. CASE up'[c] = <<>>
    BY <2>3
  <2>4. QED
    BY <1>1, <2>2, <2>3
<1>7. QED
  BY <1>4, <1>6

(* What the main thread reads begins with the connections.                 *)
LEMMA IntroducedKept ==
  ASSUME Introduced, UNCHANGED <<inq, link, tasks, dropped>>
  PROVE  Introduced'
BY DEF Introduced, NoneDropped

LEMMA IntroducedVoid ==
  ASSUME NEW c \in Clients, dropped'[c] > 0
  PROVE  Introduced'
BY DEF Introduced, NoneDropped

LEMMA IntroducedAppend ==
  ASSUME RecTypes, Introduced, NEW e \in Up, inq' = Append(inq, e), UNCHANGED <<tasks, dropped>>,
         e.op = "message" => \E c \in Clients : link[c] = e.s /\ link[c] # NoSocket,
         \A c \in Clients : link'[c] = link[c] \/ (e.op = "establish" /\ e.s = link'[c])
  PROVE  Introduced'
<1>1. SUFFICES ASSUME NoneDropped'
               PROVE  /\ \A i \in DOMAIN inq' : inq'[i].op = "message" => Established(inq', tasks', inq'[i].s, i)
                      /\ \A c \in Clients : link'[c] # NoSocket => Established(inq', tasks', link'[c], Len(inq') + 1)
  BY DEF Introduced
<1>2. /\ inq \in Seq(Up) /\ Len(inq) \in Nat /\ DOMAIN inq = 1 .. Len(inq)
      /\ DOMAIN inq' = 1 .. Len(inq) + 1 /\ Len(inq') = Len(inq) + 1
      /\ inq'[Len(inq) + 1] = e /\ \A i \in 1 .. Len(inq) : inq'[i] = inq[i]
  BY DEF RecTypes
<1>3. NoneDropped
  BY <1>1 DEF NoneDropped
<1>4. /\ \A i \in DOMAIN inq : inq[i].op = "message" => Established(inq, tasks, inq[i].s, i)
      /\ \A c \in Clients : link[c] # NoSocket => Established(inq, tasks, link[c], Len(inq) + 1)
  BY <1>3 DEF Introduced
<1>5. ASSUME NEW s, NEW n \in 1 .. Len(inq) + 1, NEW m \in 1 .. Len(inq) + 2, n <= m, Established(inq, tasks, s, n)
      PROVE  Established(inq', tasks', s, m)
  BY <1>2, <1>5 DEF Established
<1>6. ASSUME NEW i \in DOMAIN inq', inq'[i].op = "message" PROVE Established(inq', tasks', inq'[i].s, i)
  <2>1. CASE i \in 1 .. Len(inq)
    BY <1>2, <1>4, <1>5, <1>6, <2>1
  <2>2. CASE i = Len(inq) + 1
    <3>1. Established(inq, tasks, e.s, Len(inq) + 1)
      BY <1>2, <1>4, <1>6, <2>2
    <3>2. QED
      BY <1>2, <1>5, <2>2, <3>1
  <2>3. QED
    BY <1>2, <2>1, <2>2
<1>7. ASSUME NEW c \in Clients, link'[c] # NoSocket PROVE Established(inq', tasks', link'[c], Len(inq') + 1)
  <2>1. CASE link'[c] = link[c]
    <3>1. Established(inq, tasks, link[c], Len(inq) + 1)
      BY <1>4, <1>7, <2>1
    <3>2. QED
      BY <1>2, <1>5, <2>1, <3>1
  <2>2. CASE e.op = "establish" /\ e.s = link'[c]
    <3>1. Len(inq) + 1 \in DOMAIN inq' /\ Len(inq) + 1 < Len(inq') + 1
      BY <1>2
    <3>2. QED
      BY <1>2, <2>2, <3>1 DEF Established
  <2>3. QED
    BY <2>1, <2>2
<1>8. QED
  BY <1>6, <1>7

LEMMA IntroducedTail ==
  ASSUME RecTypes, Introduced, inq # <<>>, inq' = Tail(inq), UNCHANGED <<link, dropped>>,
         NoneDropped => tasks \subseteq tasks' /\ (Head(inq).op = "establish" => Head(inq).s \in tasks')
  PROVE  Introduced'
<1>1. SUFFICES ASSUME NoneDropped'
               PROVE  /\ \A i \in DOMAIN inq' : inq'[i].op = "message" => Established(inq', tasks', inq'[i].s, i)
                      /\ \A c \in Clients : link'[c] # NoSocket => Established(inq', tasks', link'[c], Len(inq') + 1)
  BY DEF Introduced
<1>2. /\ inq \in Seq(Up) /\ Len(inq) \in Nat \ {0} /\ DOMAIN inq = 1 .. Len(inq) /\ Head(inq) = inq[1]
      /\ DOMAIN inq' = 1 .. Len(inq) - 1 /\ Len(inq') = Len(inq) - 1
      /\ \A i \in 1 .. Len(inq) - 1 : inq'[i] = inq[i + 1]
  BY DEF RecTypes
<1>3. NoneDropped
  BY <1>1 DEF NoneDropped
<1>4. /\ \A i \in DOMAIN inq : inq[i].op = "message" => Established(inq, tasks, inq[i].s, i)
      /\ \A c \in Clients : link[c] # NoSocket => Established(inq, tasks, link[c], Len(inq) + 1)
  BY <1>3 DEF Introduced
<1>5. ASSUME NEW s, NEW n \in 1 .. Len(inq), Established(inq, tasks, s, n + 1)
      PROVE  Established(inq', tasks', s, n)
  <2>1. CASE s \in tasks
    BY <1>3, <2>1 DEF Established
  <2>2. ASSUME NEW j \in DOMAIN inq, j < n + 1, inq[j].op = "establish", inq[j].s = s PROVE Established(inq', tasks', s, n)
    <3>1. CASE j = 1
      BY <1>2, <1>3, <2>2, <3>1 DEF Established
    <3>2. CASE j # 1
      <4>1. j - 1 \in DOMAIN inq' /\ inq'[j - 1] = inq[j] /\ j - 1 < n
        BY <1>2, <2>2, <3>2
      <4>2. QED
        BY <2>2, <4>1 DEF Established
    <3>3. QED
      BY <3>1, <3>2
  <2>3. QED
    BY <1>5, <2>1, <2>2 DEF Established
<1>6. ASSUME NEW i \in DOMAIN inq', inq'[i].op = "message" PROVE Established(inq', tasks', inq'[i].s, i)
  BY <1>2, <1>4, <1>5, <1>6
<1>7. ASSUME NEW c \in Clients, link'[c] # NoSocket PROVE Established(inq', tasks', link'[c], Len(inq') + 1)
  BY <1>2, <1>4, <1>5, <1>7
<1>8. QED
  BY <1>6, <1>7

LEMMA TakenKeep ==
  ASSUME NEW q \in Seq(Up), NEW K, NEW e \in Up, e.op # "message"
  PROVE  /\ Append(Keep(q, K), e) \in Seq(Up)
         /\ Sub(Msgs(Append(Keep(q, K), e)), Msgs(q)) /\ Taken(Append(Keep(q, K), e), q)
<1> DEFINE p == Keep(q, K)
<1>1. p \in Seq(Up) /\ From(p, q, K)
  BY KeepFrom
<1> HIDE DEF p
<1>2. /\ Append(p, e) \in Seq(Up)
      /\ \A i \in DOMAIN p : Append(p, e)[i] = p[i]
      /\ \A i \in DOMAIN Append(p, e) : (i \in DOMAIN p) \/ Append(p, e)[i] = e
  BY <1>1, QueueAppend
<1>3. \A i \in DOMAIN Msgs(Append(p, e)) : i \in DOMAIN p /\ p[i].op = "message" /\ Msgs(Append(p, e))[i] = p[i].msg
  BY <1>2 DEF Msgs
<1>4. Taken(Append(p, e), q)
  BY <1>1, <1>2 DEF Taken, From
<1>5. ASSUME NEW i \in DOMAIN Msgs(Append(p, e)), NEW j \in DOMAIN Msgs(Append(p, e))
      PROVE  \E a, b \in DOMAIN Msgs(q) : /\ Msgs(q)[a] = Msgs(Append(p, e))[i]
                                         /\ Msgs(q)[b] = Msgs(Append(p, e))[j] /\ (i < j => a < b)
  <2>1. PICK a, b \in DOMAIN q : q[a] = p[i] /\ q[b] = p[j] /\ (i < j => a < b)
    BY <1>1, <1>3 DEF From
  <2>2. a \in DOMAIN Msgs(q) /\ b \in DOMAIN Msgs(q) /\ Msgs(q)[a] = p[i].msg /\ Msgs(q)[b] = p[j].msg
    BY <1>3, <2>1 DEF Msgs
  <2>3. QED
    BY <1>3, <2>1, <2>2
<1>6. QED
  BY <1>2, <1>4, <1>5 DEF Sub, p

(* What Break does.                                                        *)
LEMMA BreakEnds ==
  ASSUME RecTypes, Links, NEW s \in Sockets, NEW q \in Seq(Up), Break(s, q)
  PROVE  /\ up' \in [Clients -> Seq(Call)] /\ unsent' \in [Clients -> Nat]
         /\ link' \in [Clients -> Sockets \cup {NoSocket}]
         /\ state' \in [Clients -> {"new", "up", "lost", "retry", "stopped"}]
         /\ down' \in [Clients -> Seq(Down)] /\ inq' \in Seq(Up) /\ dropped' \in [Clients -> Nat]
         /\ Sub(Msgs(inq'), Msgs(q)) /\ Taken(inq', q)
         /\ \A c \in Clients : /\ Ended(c) /\ (link[c] = s => dropped'[c] > 0)
                              /\ (dropped[c] > 0 => dropped'[c] > 0)
                              /\ Sub(Msgs(down'[c]), Msgs(down[c]))
<1>1. CASE Owner(s) = {}
  <2>1. UNCHANGED <<link, state, up, down, unsent, dropped>> /\ inq' = q
    BY <1>1 DEF Break, queueVars
  <2>2. \A c \in Clients : link[c] # s
    BY <1>1 DEF Owner
  <2>3. QED
    BY <2>1, <2>2, SubSame DEF RecTypes, Ended, Taken
<1>2. CASE Owner(s) # {}
  <2> DEFINE d == CHOOSE x \in Clients : x \in Owner(s)
  <2>1. d \in Clients /\ link[d] = s
    BY <1>2 DEF Owner
  <2>2. PICK n \in 0 .. Len(down[d]) - unsent[d] : down' = [down EXCEPT ![d] = Append(SubSeq(@, 1, n), CLOSE)]
    BY <1>2 DEF Break
  <2>3. PICK m \in 0 .. Len(q) : inq' = Append(Received(q, s, m), [op |-> "close", s |-> s])
    BY <1>2 DEF Break
  <2>4. /\ link' = [link EXCEPT ![d] = NoSocket] /\ state' = [state EXCEPT ![d] = "lost"]
        /\ dropped' = [dropped EXCEPT ![d] = @ + 1]
        /\ up' = [up EXCEPT ![d] = <<>>] /\ unsent' = [unsent EXCEPT ![d] = 0]
    BY <1>2 DEF Break
  <2> HIDE DEF d
  <2>16. n \in Int /\ n <= Len(down[d])
    <3>1. unsent[d] \in Nat /\ Len(down[d]) \in Nat
      BY <2>1 DEF RecTypes
    <3>2. QED
      BY <2>2, <3>1
  <2>5. down[d] \in Seq(Down) /\ SubSeq(down[d], 1, n) \in Seq(Down) /\ CLOSE \in Down /\ CLOSE.op # "message"
    BY <2>1, <2>16, QueuePrefix DEF RecTypes, Down, CLOSE
  <2>6. /\ Append(SubSeq(down[d], 1, n), CLOSE) \in Seq(Down)
        /\ Sub(Msgs(Append(SubSeq(down[d], 1, n), CLOSE)), Msgs(SubSeq(down[d], 1, n)))
    BY <2>5, QueueAppend, MsgsAppend
  <2>7. Sub(Msgs(SubSeq(down[d], 1, n)), Msgs(down[d]))
    <3> DEFINE p == SubSeq(down[d], 1, n)
    <3>1. DOMAIN p \subseteq DOMAIN down[d] /\ \A i \in DOMAIN p : p[i] = down[d][i]
      BY <2>5, <2>16, QueuePrefix
    <3> HIDE DEF p
    <3>2. \A i \in DOMAIN Msgs(p) : i \in DOMAIN Msgs(down[d]) /\ Msgs(down[d])[i] = Msgs(p)[i]
      BY <3>1 DEF Msgs
    <3>3. Sub(Msgs(p), Msgs(down[d]))
      BY <3>2 DEF Sub
    <3>4. QED
      BY <3>3 DEF p
  <2>8. Sub(Msgs(down'[d]), Msgs(down[d])) /\ down' \in [Clients -> Seq(Down)]
    <3>1. down'[d] = Append(SubSeq(down[d], 1, n), CLOSE)
      BY <2>1, <2>2 DEF RecTypes
    <3>2. Sub(Msgs(down'[d]), Msgs(down[d]))
      BY <2>6, <2>7, <3>1, SubTrans
    <3>3. QED
      BY <2>1, <2>2, <2>6, <3>2 DEF RecTypes
  <2>9. inq' \in Seq(Up) /\ Sub(Msgs(inq'), Msgs(q)) /\ Taken(inq', q)
    <3>1. [op |-> "close", s |-> s] \in Up /\ [op |-> "close", s |-> s].op # "message"
      BY DEF Up
    <3>2. QED
      BY <2>3, <3>1, TakenKeep DEF Received
  <2>10. \A c \in Clients : \/ c = d
                            \/ /\ link'[c] = link[c] /\ state'[c] = state[c] /\ dropped'[c] = dropped[c]
                               /\ down'[c] = down[c] /\ up'[c] = up[c]
    BY <2>1, <2>2, <2>4 DEF RecTypes
  <2>11. up'[d] = <<>> /\ link'[d] = NoSocket /\ state'[d] = "lost" /\ dropped'[d] = dropped[d] + 1 /\ dropped[d] \in Nat
    BY <2>1, <2>4 DEF RecTypes
  <2>12. \A c \in Clients : link[c] = s => c = d
    <3>1. s # NoSocket
      BY RecordSystemAssumption DEF NoSocket
    <3>2. QED
      BY <2>1, <3>1 DEF Links
  <2>13. \A c \in Clients : Ended(c) /\ Sub(Msgs(down'[c]), Msgs(down[c]))
    BY <2>8, <2>10, <2>11, SubSame, SubVals DEF Ended
  <2>14. /\ up' \in [Clients -> Seq(Call)] /\ unsent' \in [Clients -> Nat]
         /\ link' \in [Clients -> Sockets \cup {NoSocket}] /\ dropped' \in [Clients -> Nat]
         /\ state' \in [Clients -> {"new", "up", "lost", "retry", "stopped"}]
    BY <2>1, <2>4, <2>11 DEF RecTypes
  <2>17. \A c \in Clients : (link[c] = s => dropped'[c] > 0) /\ (dropped[c] > 0 => dropped'[c] > 0)
    BY <2>10, <2>11, <2>12
  <2>15. QED
    BY <2>8, <2>9, <2>13, <2>14, <2>17
<1>3. QED
  BY <1>1, <1>2
-----------------------------------------------------------------------------
(* The steps.                                                              *)

LEMMA RecInit ==
  ASSUME RecordSystemInit
  PROVE  RecInv
<1> USE DEF RecordSystemInit
<1>1. RecTypes
  BY DEF RecTypes
<1>2. /\ \A c \in Clients : DOMAIN Msgs(down[c]) = {} /\ DOMAIN Resps(handled[c]) = {}
      /\ \A k \in Slots : DOMAIN Reqs(slotw[k]) = {} /\ DOMAIN Reqs(slotr[k]) = {}
      /\ DOMAIN Msgs(inq) = {} /\ \A c \in Clients : DOMAIN up[c] = {} /\ up[c] = <<>>
  BY DEF Msgs, Reqs, Resps
<1>3. Chains
  <2>1. SUFFICES ASSUME NEW c \in Clients, NEW k \in Slots PROVE Chain(Stages(c, k))
    BY DEF Chains
  <2>2. \A m \in Stage : DOMAIN Stages(c, k)[m] = {}
    BY <1>2, StagesAre
  <2>3. QED
    BY <2>2 DEF Chain, Vals, Rising, Ahead
<1>4. Flow
  BY <1>2, <1>3 DEF Flow, Cross, InAsked, AskedInOrder, Apart, Vals, Rising
<1>5. ReleasedApart /\ SlotsEnd
  BY DEF ReleasedApart, SlotsEnd
<1>6. Conn
  BY <1>2 DEF Conn, Links, Routed, Foreign, Tasked, Vals
<1>7. Waiting /\ Awaited /\ CallbackGetsItsAnswer
  BY DEF Waiting, Awaited, CallbackGetsItsAnswer
<1>8. Queued /\ Introduced
  BY <1>2 DEF Queued, Introduced
<1>9. QED
  BY <1>1, <1>4, <1>5, <1>6, <1>7, <1>8 DEF RecInv

(* Where no request moves.                                                 *)
LEMMA NothingMoves ==
  ASSUME UNCHANGED <<up, down, slotw, slotr>>, Vals(Msgs(inq')) = Vals(Msgs(inq))
  PROVE  \A r : (UnderWay(r)' <=> UnderWay(r)) /\ (Pending(r)' <=> Pending(r))
BY UnderWayNext, PendingNext DEF UnderWay, Pending

LEMMA RecConnect ==
  ASSUME RecInv, NEW c \in Clients, connect(c)
  PROVE  RecInv'
<1> USE DEF RecInv
<1> DEFINE s == CHOOSE x \in FreeSockets : \A y \in FreeSockets : x <= y
           e == [op |-> "establish", s |-> s]
<1>1. s \in Sockets /\ s # NoSocket /\ \A d \in Clients : link[d] # s
  <2>1. FreeSockets # {} /\ FreeSockets \subseteq Nat
    BY RecordSystemAssumption DEF connect, FreeSockets
  <2>2. s \in FreeSockets
    BY <2>1, LeastNat
  <2>3. QED
    BY <2>1, <2>2 DEF FreeSockets, NoSocket
<1>2. /\ state[c] \in {"new", "retry"}
      /\ link' = [link EXCEPT ![c] = s] /\ inq' = Append(inq, e) /\ state' = [state EXCEPT ![c] = "up"]
      /\ UNCHANGED <<up, down, unsent, callbacks, calls, asked, handled, tasks, slotw, slotr, slotpc, main, released, dropped>>
  BY DEF connect, clientVars, queueVars
<1> HIDE DEF s
<1>3. inq \in Seq(Up) /\ e \in Up /\ e.op = "establish"
  BY <1>1 DEF RecTypes, Up
<1> HIDE DEF e
<1>4. /\ inq' \in Seq(Up) /\ Sub(Msgs(inq'), Msgs(inq)) /\ Vals(Msgs(inq')) = Vals(Msgs(inq))
      /\ Taken(inq', inq) /\ \A i \in DOMAIN inq' : inq'[i] = e \/ (i \in DOMAIN inq /\ inq'[i] = inq[i])
  <2>1. Sub(Msgs(inq'), Msgs(inq)) /\ Vals(Msgs(inq)) \subseteq Vals(Msgs(inq'))
    BY <1>2, <1>3, MsgsAppend
  <2>2. inq' \in Seq(Up) /\ \A i \in DOMAIN inq' : inq'[i] = e \/ (i \in DOMAIN inq /\ inq'[i] = inq[i])
    BY <1>2, <1>3, QueueAppend
  <2>3. QED
    BY <1>3, <2>1, <2>2, SubVals DEF Taken
<1>5. RecTypes'
  BY <1>1, <1>2, <1>4 DEF RecTypes
<1>6. \A r : (UnderWay(r)' <=> UnderWay(r)) /\ (Pending(r)' <=> Pending(r))
  BY <1>2, <1>4, NothingMoves
<1>7. AskedInOrder' /\ Waiting' /\ Awaited' /\ CallbackGetsItsAnswer'
  BY <1>2, <1>6, ProgramsWait DEF clientVars, NoneDropped
<1>15. Queued' /\ Sent' = Sent
  BY <1>1, <1>2, QueuedKept DEF RecTypes
<1>16. Introduced'
  BY <1>2, <1>3, IntroducedAppend DEF RecTypes, e
<1>8. Flow'
  BY <1>2, <1>4, <1>7, <1>15, FlowShrinks, SubSame
<1>9. ReleasedApart' /\ SlotsEnd'
  BY <1>2, <1>6, <1>15, ReleasesNothing DEF SlotsEnd
<1>10. Links'
  BY <1>1, <1>2 DEF Conn, Links, RecTypes
<1>11. Routed'
  <2>1. ASSUME NEW x \in Sockets, NEW r \in Call, Route(x, r, link, dropped) PROVE Route(x, r, link', dropped')
    <3>1. r.client \in Clients /\ x # NoSocket
      BY RecordSystemAssumption DEF Call, NoSocket
    <3>2. CASE r.client = c
      BY <1>2, <2>1, <3>1, <3>2 DEF Conn, Links, Route, RecTypes
    <3>3. CASE r.client # c
      BY <1>2, <2>1, <3>1, <3>3 DEF Route, RecTypes
    <3>4. QED
      BY <3>2, <3>3
  <2>2. QED
    BY <1>2, <1>4, <2>1, RoutedKept DEF Conn
<1>12. Foreign'
  BY <1>2 DEF Conn, Foreign
<1>13. Tasked'
  BY <1>2, <1>3, <1>4 DEF Conn, Tasked, NoneDropped
<1>14. QED
  BY <1>5, <1>7, <1>8, <1>9, <1>10, <1>11, <1>12, <1>13, <1>15, <1>16 DEF Conn

LEMMA RecDrop ==
  ASSUME RecInv, NEW c \in Clients, Drop(c)
  PROVE  RecInv'
<1> USE DEF RecInv
<1>1. link[c] \in Sockets /\ Break(link[c], inq) /\ inq \in Seq(Up)
  BY DEF Drop, RecTypes
<1>2. UNCHANGED <<callbacks, calls, asked, handled, tasks, slotw, slotr, slotpc, main, released>>
  BY DEF Drop, clientVars
<1>3. /\ up' \in [Clients -> Seq(Call)] /\ unsent' \in [Clients -> Nat]
      /\ link' \in [Clients -> Sockets \cup {NoSocket}]
      /\ state' \in [Clients -> {"new", "up", "lost", "retry", "stopped"}]
      /\ down' \in [Clients -> Seq(Down)] /\ inq' \in Seq(Up) /\ dropped' \in [Clients -> Nat]
      /\ Sub(Msgs(inq'), Msgs(inq)) /\ Taken(inq', inq)
      /\ \A d \in Clients : /\ Ended(d) /\ (dropped[d] > 0 => dropped'[d] > 0)
                           /\ Sub(Msgs(down'[d]), Msgs(down[d]))
      /\ dropped'[c] > 0
  BY <1>1, BreakEnds DEF Conn
<1>4. RecTypes'
  BY <1>2, <1>3 DEF RecTypes
<1>5. AskedInOrder' /\ Waiting' /\ Awaited' /\ CallbackGetsItsAnswer'
  BY <1>2, <1>3, ProgramsWait DEF clientVars, NoneDropped
<1>11. Queued' /\ Sent \subseteq Sent' /\ Introduced'
  BY <1>2, <1>3, QueuedEnds, IntroducedVoid
<1>6. Flow'
  BY <1>2, <1>3, <1>5, <1>11, FlowShrinks, SubSame
<1>7. \A r : Pending(r)' => Pending(r)
  BY <1>2, <1>3, SubVals, PendingNext DEF Pending
<1>8. ReleasedApart' /\ SlotsEnd'
  BY <1>2, <1>7, <1>11, ReleasesNothing DEF SlotsEnd
<1>9. Conn'
  BY <1>2, <1>3, ConnectionsEnd
<1>10. QED
  BY <1>4, <1>5, <1>6, <1>8, <1>9, <1>11

(* The callback of r is put last.                                          *)
LEMMA Remembered ==
  ASSUME RecTypes, NEW r \in Call, Remember(r)
  PROVE  /\ callbacks' \in [Clients -> [CallbackKinds -> Seq(Call)]]
         /\ \A c \in Clients : \A u \in CallbackKinds :
              IF r.client = c /\ r.kind = u THEN callbacks'[c][u] = Append(callbacks[c][u], r)
              ELSE callbacks'[c][u] = callbacks[c][u]
<1>1. r.client \in Clients
  BY DEF Call
<1>2. CASE r.kind \in CallbackKinds
  <2>1. callbacks' = [callbacks EXCEPT ![r.client][r.kind] = Append(callbacks[r.client][r.kind], r)]
    BY <1>2 DEF Remember
  <2>2. callbacks[r.client][r.kind] \in Seq(Call)
    BY <1>1, <1>2 DEF RecTypes
  <2>3. Append(callbacks[r.client][r.kind], r) \in Seq(Call)
    BY <2>2
  <2>4. QED
    BY <1>1, <1>2, <2>1, <2>3 DEF RecTypes
<1>3. CASE r.kind \notin CallbackKinds
  BY <1>3 DEF Remember, RecTypes
<1>4. QED
  BY <1>2, <1>3

(* serialize, the callbacks: whether a request is under way changes only   *)
(* for the new one.                                                        *)
LEMMA RecRemember ==
  ASSUME RecInv, NEW r \in Call, r \notin asked, asked' = asked \cup {r}, Remember(r),
         \A q \in asked : q.client = r.client => q.number < r.number,
         UNCHANGED <<handled, dropped>>,
         NoneDropped => UnderWay(r)' /\ \A q \in asked : UnderWay(q)' <=> UnderWay(q)
  PROVE  Waiting' /\ Awaited' /\ CallbackGetsItsAnswer'
<1> USE DEF RecInv
<1>1. /\ callbacks' \in [Clients -> [CallbackKinds -> Seq(Call)]]
      /\ \A c \in Clients : \A u \in CallbackKinds :
           IF r.client = c /\ r.kind = u THEN callbacks'[c][u] = Append(callbacks[c][u], r)
           ELSE callbacks'[c][u] = callbacks[c][u]
  BY Remembered
<1>2. ASSUME NEW c \in Clients, NEW u \in CallbackKinds, r.client = c, r.kind = u
      PROVE  /\ \A i \in DOMAIN callbacks[c][u] : callbacks'[c][u][i] = callbacks[c][u][i]
             /\ \A i \in DOMAIN callbacks'[c][u] :
                  (i \in DOMAIN callbacks[c][u]) \/ callbacks'[c][u][i] = r
             /\ \A i, j \in DOMAIN callbacks'[c][u] : i < j => i \in DOMAIN callbacks[c][u]
             /\ Vals(callbacks'[c][u]) = Vals(callbacks[c][u]) \cup {r}
  <2>1. callbacks[c][u] \in Seq(Call) /\ callbacks'[c][u] = Append(callbacks[c][u], r)
    BY <1>1, <1>2 DEF RecTypes
  <2> DEFINE q == callbacks[c][u]
             p == callbacks'[c][u]
  <2>2. /\ DOMAIN q \subseteq DOMAIN p /\ \A i \in DOMAIN q : p[i] = q[i]
        /\ Len(q) + 1 \in DOMAIN p /\ p[Len(q) + 1] = r
        /\ \A i \in DOMAIN p : (i \in DOMAIN q) \/ p[i] = r
        /\ \A i, j \in DOMAIN p : i < j => i \in DOMAIN q
    BY <2>1, QueueAppend
  <2> HIDE DEF q, p
  <2>3. Vals(p) = Vals(q) \cup {r}
    BY <2>2 DEF Vals
  <2>4. QED
    BY <2>2, <2>3 DEF p, q
<1>3. Waiting'
  <2>1. SUFFICES ASSUME NEW c \in Clients, NEW u \in CallbackKinds
                 PROVE  /\ \A i \in DOMAIN callbacks'[c][u] :
                             /\ callbacks'[c][u][i] \in asked' /\ callbacks'[c][u][i].client = c
                             /\ callbacks'[c][u][i].kind = u
                        /\ \A i, j \in DOMAIN callbacks'[c][u] :
                             i < j => callbacks'[c][u][i].number < callbacks'[c][u][j].number
    BY DEF Waiting
  <2>2. /\ \A i \in DOMAIN callbacks[c][u] :
             callbacks[c][u][i] \in asked /\ callbacks[c][u][i].client = c /\ callbacks[c][u][i].kind = u
        /\ \A i, j \in DOMAIN callbacks[c][u] : i < j => callbacks[c][u][i].number < callbacks[c][u][j].number
    BY DEF Waiting
  <2>3. CASE r.client = c /\ r.kind = u
    BY <1>2, <2>2, <2>3
  <2>4. CASE ~(r.client = c /\ r.kind = u)
    BY <1>1, <2>2, <2>4
  <2>5. QED
    BY <2>3, <2>4
<1>4. Awaited'
  <2>1. SUFFICES ASSUME NoneDropped', NEW c \in Clients, NEW u \in CallbackKinds, OneSlot(c, u)',
                        NEW q \in asked', q.client = c, q.kind = u
                 PROVE  UnderWay(q)' <=> q \in Vals(callbacks'[c][u])
    BY DEF Awaited, Vals
  <2>2. OneSlot(c, u) /\ NoneDropped
    BY <2>1 DEF OneSlot, NoneDropped
  <2>3. CASE q = r
    BY <1>2, <2>1, <2>2, <2>3
  <2>4. CASE q # r
    <3>1. q \in asked
      BY <2>4
    <3>2. UnderWay(q)' <=> q \in Vals(callbacks[c][u])
      BY <2>1, <2>2, <3>1 DEF Awaited
    <3>3. q \in Vals(callbacks[c][u]) <=> q \in Vals(callbacks'[c][u])
      <4>1. CASE r.client = c /\ r.kind = u
        BY <1>2, <2>4, <4>1
      <4>2. CASE ~(r.client = c /\ r.kind = u)
        BY <1>1, <4>2
      <4>3. QED
        BY <4>1, <4>2
    <3>4. QED
      BY <3>2, <3>3
  <2>5. QED
    BY <2>3, <2>4
<1>5. CallbackGetsItsAnswer'
  BY DEF CallbackGetsItsAnswer, NoneDropped
<1>6. QED
  BY <1>3, <1>4, <1>5

LEMMA RecSerialize ==
  ASSUME RecInv, NEW r \in calls, serialize(r)
  PROVE  RecInv'
<1> USE DEF RecInv
<1>1. /\ r \in Call /\ r.client \in Clients /\ r.number \in Nat
      /\ \A q \in calls : q \in Call /\ q.number \in Nat /\ (q.client = r.client /\ q.number = r.number => q = r)
  BY RecordSystemAssumption DEF RecTypes, Call
<1>2. /\ r \notin asked /\ state[r.client] # "new" /\ asked' = asked \cup {r} /\ Remember(r)
      /\ \A q \in calls : q.client = r.client /\ q.number < r.number => q \in asked
      /\ up' = IF link[r.client] = NoSocket THEN up ELSE [up EXCEPT ![r.client] = Append(@, r)]
      /\ UNCHANGED <<link, state, down, unsent, calls, handled, inq, tasks, slotw, slotr, slotpc, main, released, dropped>>
  BY DEF serialize
<1>3. /\ up' \in [Clients -> Seq(Call)] /\ \A c \in Clients : c # r.client => up'[c] = up[c]
      /\ link[r.client] = NoSocket => up'[r.client] = up[r.client] /\ up[r.client] = <<>>
      /\ link[r.client] # NoSocket => up'[r.client] = Append(up[r.client], r)
  <2>1. up[r.client] \in Seq(Call)
    BY <1>1 DEF RecTypes
  <2>2. Append(up[r.client], r) \in Seq(Call)
    BY <1>1, <2>1
  <2>3. link[r.client] = NoSocket => up[r.client] = <<>>
    BY <1>1 DEF Queued
  <2>4. QED
    BY <1>1, <1>2, <2>2, <2>3 DEF RecTypes
<1>4. /\ DOMAIN up[r.client] \subseteq DOMAIN up'[r.client]
      /\ \A i \in DOMAIN up[r.client] : up'[r.client][i] = up[r.client][i]
      /\ link[r.client] # NoSocket => r \in Vals(up'[r.client])
      /\ \A i \in DOMAIN up'[r.client] : i \in DOMAIN up[r.client] \/ up'[r.client][i] = r
      /\ \A i, j \in DOMAIN up'[r.client] : i < j => i \in DOMAIN up[r.client]
  <2>1. CASE link[r.client] = NoSocket
    BY <1>3, <2>1
  <2>2. CASE link[r.client] # NoSocket
    <3> DEFINE q == up[r.client]
               p == up'[r.client]
    <3>1. q \in Seq(Call) /\ p = Append(q, r)
      BY <1>1, <1>3, <2>2 DEF RecTypes
    <3>2. /\ DOMAIN q \subseteq DOMAIN p /\ \A i \in DOMAIN q : p[i] = q[i]
          /\ Len(q) + 1 \in DOMAIN p /\ p[Len(q) + 1] = r
          /\ \A i \in DOMAIN p : (i \in DOMAIN q) \/ p[i] = r
          /\ \A i, j \in DOMAIN p : i < j => i \in DOMAIN q
      BY <1>1, <3>1, QueueAppend
    <3> HIDE DEF q, p
    <3>3. r \in Vals(p)
      BY <3>2 DEF Vals
    <3>4. QED
      BY <3>2, <3>3 DEF q, p
  <2>3. QED
    BY <2>1, <2>2
<1>5. RecTypes'
  <2>1. callbacks' \in [Clients -> [CallbackKinds -> Seq(Call)]]
    BY <1>1, <1>2, Remembered
  <2>2. QED
    BY <1>1, <1>2, <1>3, <2>1 DEF RecTypes
<1>6. asked \subseteq calls /\ AskedInOrder
  BY DEF RecTypes, Flow
<1>7. \A q \in asked : q.client = r.client => q.number < r.number
  BY <1>1, <1>2, <1>6 DEF AskedInOrder
<1>8. AskedInOrder'
  BY <1>2, <1>6 DEF AskedInOrder
<1>9. /\ \A q \in asked : q \in Vals(up'[q.client]) <=> q \in Vals(up[q.client])
      /\ \A q : q \in Sent' <=> q \in asked' /\ q \notin Vals(up'[q.client])
  <2>1. ASSUME NEW q \in asked PROVE q \in Vals(up'[q.client]) <=> q \in Vals(up[q.client])
    <3>1. q.client \in Clients /\ q # r
      BY <1>2, AskedCalls DEF Call
    <3>2. CASE q.client = r.client
      BY <1>4, <3>1, <3>2 DEF Vals
    <3>3. CASE q.client # r.client
      BY <1>3, <3>1, <3>3 DEF Vals
    <3>4. QED
      BY <3>2, <3>3
  <2>2. QED
    BY <2>1 DEF Sent, Vals
<1>10. Sent \subseteq Sent' /\ \A q \in Sent' : q \in Sent \/ (q = r /\ link[r.client] = NoSocket)
  BY <1>2, <1>4, <1>9 DEF Sent
<1>11. Flow'
  BY <1>2, <1>8, <1>10, FlowShrinks, SubSame
<1>12. Queued'
  <2>1. SUFFICES ASSUME NEW c \in Clients
                 PROVE  /\ up'[c] # <<>> => link[c] # NoSocket
                        /\ \A i \in DOMAIN up'[c] : up'[c][i] \in asked' /\ up'[c][i].client = c
                        /\ \A i, j \in DOMAIN up'[c] : i < j => up'[c][i].number < up'[c][j].number
                        /\ \A q \in Sent' : q.client = c => \A i \in DOMAIN up'[c] : q.number < up'[c][i].number
    BY <1>2 DEF Queued
  <2>2. /\ up[c] # <<>> => link[c] # NoSocket
        /\ \A i \in DOMAIN up[c] : up[c][i] \in asked /\ up[c][i].client = c
        /\ \A i, j \in DOMAIN up[c] : i < j => up[c][i].number < up[c][j].number
        /\ \A q \in Sent : q.client = c => \A i \in DOMAIN up[c] : q.number < up[c][i].number
    BY DEF Queued
  <2>3. CASE c # r.client
    BY <1>2, <1>3, <1>10, <2>2, <2>3
  <2>4. CASE c = r.client /\ link[c] = NoSocket
    BY <1>3, <2>4
  <2>5. CASE c = r.client /\ link[c] # NoSocket
    <3>1. Sent \subseteq asked
      BY AskedCalls
    <3>2. \A i \in DOMAIN up'[c] : up'[c][i] \in asked' /\ up'[c][i].client = c
      BY <1>2, <1>4, <2>2, <2>5
    <3>3. ASSUME NEW i \in DOMAIN up'[c], NEW j \in DOMAIN up'[c], i < j PROVE up'[c][i].number < up'[c][j].number
      <4>1. i \in DOMAIN up[c] /\ up'[c][i] = up[c][i] /\ up[c][i] \in asked /\ up[c][i].client = c
        BY <1>4, <2>2, <2>5, <3>3
      <4>2. CASE up'[c][j] = r
        BY <1>7, <2>5, <4>1, <4>2
      <4>3. CASE j \in DOMAIN up[c]
        BY <1>4, <2>2, <2>5, <3>3, <4>1, <4>3
      <4>4. QED
        BY <1>4, <2>5, <4>2, <4>3
    <3>4. ASSUME NEW q \in Sent', q.client = c, NEW i \in DOMAIN up'[c] PROVE q.number < up'[c][i].number
      <4>1. q \in Sent /\ q \in asked
        BY <1>10, <2>5, <3>1
      <4>2. CASE up'[c][i] = r
        BY <1>7, <2>5, <3>4, <4>1, <4>2
      <4>3. CASE i \in DOMAIN up[c]
        BY <1>4, <2>2, <2>5, <3>4, <4>1, <4>3
      <4>4. QED
        BY <1>4, <2>5, <4>2, <4>3
    <3>5. QED
      BY <2>5, <3>2, <3>3, <3>4
  <2>6. QED
    BY <2>3, <2>4, <2>5
<1>13. ReleasedApart' /\ SlotsEnd'
  <2>1. \A q : Pending(q)' => Pending(q)
    BY <1>2, PendingNext DEF Pending
  <2>2. QED
    BY <1>2, <1>10, <2>1, ReleasesNothing DEF SlotsEnd
<1>14. Conn' /\ Introduced'
  <2>1. Conn'
    BY <1>2 DEF Conn, Links, Foreign, Routed, Tasked, NoneDropped
  <2>2. QED
    BY <1>2, <2>1, IntroducedKept
<1>15. Waiting' /\ Awaited' /\ CallbackGetsItsAnswer'
  <2>1. ASSUME NoneDropped PROVE UnderWay(r)' /\ \A q \in asked : UnderWay(q)' <=> UnderWay(q)
    <3>1. link[r.client] # NoSocket
      BY <1>1, <1>2, <2>1 DEF NoneDropped, Conn, Links
    <3>2. UnderWay(r)'
      BY <1>4, <3>1, UnderWayNext
    <3>3. ASSUME NEW q \in asked PROVE UnderWay(q)' <=> UnderWay(q)
      BY <1>2, <1>9, UnderWayNext DEF UnderWay
    <3>4. QED
      BY <3>2, <3>3
  <2>2. QED
    BY <1>1, <1>2, <1>7, <2>1, RecRemember
<1>16. QED
  BY <1>5, <1>11, <1>12, <1>13, <1>14, <1>15

(* update(c), the end of the connection is read.                           *)
LEMMA RecCloseRead ==
  ASSUME RecInv, NEW c \in Clients, down[c] # <<>>, Head(down[c]).op = "close",
         state' = [state EXCEPT ![c] = "retry"], down' = [down EXCEPT ![c] = Tail(@)],
         UNCHANGED <<link, up, unsent, callbacks, calls, asked, handled, inq, tasks, slotw, slotr, slotpc, main, released, dropped>>
  PROVE  RecInv'
<1> USE DEF RecInv
<1>1. /\ down[c] \in Seq(Down) /\ down'[c] = Tail(down[c]) /\ Tail(down[c]) \in Seq(Down)
      /\ \A d \in Clients : d # c => down'[d] = down[d]
  BY QueueTail DEF RecTypes
<1>2. dropped[c] > 0 /\ \A d \in Clients : dropped[d] \in Nat
  <2>1. 1 \in DOMAIN down[c] /\ down[c][1].op = "close"
    BY <1>1, QueueTail
  <2>2. QED
    BY <2>1 DEF Conn, Links, RecTypes
<1>3. RecTypes'
  BY <1>1 DEF RecTypes
<1>4. \A d \in Clients : Sub(Msgs(down'[d]), Msgs(down[d]))
  BY <1>1, MsgsTail, SubSame
<1>5. AskedInOrder' /\ Waiting' /\ Awaited' /\ CallbackGetsItsAnswer'
  BY <1>2, ProgramsWait DEF clientVars, NoneDropped
<1>12. Queued' /\ Sent' = Sent /\ Introduced'
  BY QueuedKept, IntroducedKept
<1>6. Flow'
  BY <1>4, <1>5, <1>12, FlowShrinks, SubSame
<1>7. ReleasedApart' /\ SlotsEnd'
  <2>1. \A r : Pending(r)' => Pending(r)
    BY PendingNext DEF Pending
  <2>2. QED
    BY <1>12, <2>1, ReleasesNothing DEF SlotsEnd
<1>8. Links'
  <2>1. \A d \in Clients : (d = c /\ state'[d] = "retry") \/ (d # c /\ state'[d] = state[d])
    BY DEF RecTypes
  <2>2. QED
    BY <1>1, <1>2, <2>1 DEF Conn, Links
<1>9. Routed' /\ Tasked'
  BY <1>2 DEF Conn, Routed, Tasked, NoneDropped
<1>10. Foreign'
  <2>1. \A d \in Clients : Vals(Msgs(down'[d])) \subseteq Vals(Msgs(down[d]))
    BY <1>4, SubVals
  <2>2. QED
    BY <2>1 DEF Conn, Foreign
<1>11. QED
  BY <1>3, <1>5, <1>6, <1>7, <1>8, <1>9, <1>10, <1>12 DEF Conn

(* update(c), a response that the client cannot parse.                     *)
LEMMA RecStops ==
  ASSUME RecInv, NEW c \in Clients, ClientStops(c),
         UNCHANGED <<callbacks, calls, asked, handled, tasks, slotw, slotr, slotpc, main, released>>
  PROVE  RecInv'
<1> USE DEF RecInv
<1>1. /\ link' = [link EXCEPT ![c] = NoSocket] /\ state' = [state EXCEPT ![c] = "stopped"]
      /\ up' = [up EXCEPT ![c] = <<>>] /\ unsent' = [unsent EXCEPT ![c] = 0]
      /\ down' = [down EXCEPT ![c] = <<>>] /\ dropped' = [dropped EXCEPT ![c] = @ + 1]
  BY DEF ClientStops
<1>2. /\ inq' \in Seq(Up) /\ Sub(Msgs(inq'), Msgs(inq)) /\ Taken(inq', inq)
  <2>1. inq \in Seq(Up) /\ link[c] \in Sockets \cup {NoSocket}
    BY DEF RecTypes
  <2>2. CASE link[c] = NoSocket
    BY <2>1, <2>2, SubSame DEF ClientStops, Taken
  <2>3. CASE link[c] # NoSocket
    <3> DEFINE e == [op |-> "close", s |-> link[c]]
    <3>1. e \in Up /\ e.op = "close" /\ inq' = Append(inq, e)
      BY <2>1, <2>3 DEF ClientStops, Up
    <3> HIDE DEF e
    <3>2. Sub(Msgs(inq'), Msgs(inq))
      BY <2>1, <3>1, MsgsAppend
    <3>3. inq' \in Seq(Up) /\ \A i \in DOMAIN inq' : inq'[i] = e \/ (i \in DOMAIN inq /\ inq'[i] = inq[i])
      BY <2>1, <3>1, QueueAppend
    <3>4. QED
      BY <3>1, <3>2, <3>3 DEF Taken
  <2>4. QED
    BY <2>2, <2>3
<1>3. /\ up'[c] = <<>> /\ down'[c] = <<>> /\ link'[c] = NoSocket /\ state'[c] = "stopped" /\ dropped'[c] > 0
      /\ \A d \in Clients : dropped'[d] \in Nat /\ (dropped[d] > 0 => dropped'[d] > 0)
      /\ \A d \in Clients : d # c => /\ down'[d] = down[d] /\ link'[d] = link[d] /\ state'[d] = state[d]
                                    /\ dropped'[d] = dropped[d] /\ up'[d] = up[d]
  <2>1. dropped[c] \in Nat
    BY DEF RecTypes
  <2>2. QED
    BY <1>1, <2>1 DEF RecTypes
<1>4. DOMAIN Msgs(down'[c]) = {}
  BY <1>3 DEF Msgs
<1>5. RecTypes'
  BY <1>1, <1>2, <1>3 DEF RecTypes
<1>6. \A d \in Clients : Sub(Msgs(down'[d]), Msgs(down[d]))
  BY <1>3, <1>4, SubSame DEF Sub
<1>7. AskedInOrder' /\ Waiting' /\ Awaited' /\ CallbackGetsItsAnswer'
  BY <1>3, ProgramsWait DEF clientVars, NoneDropped
<1>12. \A d \in Clients : Ended(d)
  BY <1>3, <1>6, SubVals DEF Ended
<1>13. Queued' /\ Sent \subseteq Sent' /\ Introduced'
  BY <1>3, <1>12, QueuedEnds, IntroducedVoid
<1>8. Flow'
  BY <1>2, <1>6, <1>7, <1>13, FlowShrinks, SubSame
<1>9. ReleasedApart' /\ SlotsEnd'
  <2>1. \A r : Pending(r)' => Pending(r)
    BY <1>2, SubVals, PendingNext DEF Pending
  <2>2. QED
    BY <1>13, <2>1, ReleasesNothing DEF SlotsEnd
<1>10. Conn'
  <2>2. dropped' \in [Clients -> Nat]
    BY <1>5 DEF RecTypes
  <2>3. QED
    BY <1>2, <1>3, <1>12, <2>2, ConnectionsEnd
<1>11. QED
  BY <1>5, <1>7, <1>8, <1>9, <1>10, <1>13

(* The answer x that client c has to read first.                           *)
First(c, x) ==
  /\ down[c] # <<>> /\ Head(down[c]).op = "message" /\ Head(down[c]).msg = x
  /\ x.kind \in CallbackKinds

LEMMA FirstFacts ==
  ASSUME RecInv, NEW c \in Clients, NEW x, First(c, x)
  PROVE  /\ x \in asked /\ x \in Sent /\ x \in Call /\ x \in Vals(Msgs(down[c])) /\ SlotOf(x) \in Slots
         /\ Sub(Msgs(Tail(down[c])), Msgs(down[c])) /\ Precedes(x, Msgs(Tail(down[c])))
         /\ Vals(Msgs(down[c])) = Vals(Msgs(Tail(down[c]))) \cup {x}
         /\ \A k \in Slots : Precedes(x, Reqs(slotw[k])) /\ Precedes(x, Reqs(slotr[k]))
         /\ Precedes(x, Msgs(inq))
<1> USE DEF RecInv
<1>1. down[c] \in Seq(Down) /\ down[c] # <<>>
  BY DEF RecTypes, First
<1>2. /\ Sub(Msgs(Tail(down[c])), Msgs(down[c])) /\ x \in Vals(Msgs(down[c]))
      /\ Rising(Msgs(down[c])) => Precedes(x, Msgs(Tail(down[c])))
  BY <1>1, MsgsTail DEF First
<1>3. Vals(Msgs(down[c])) = Vals(Msgs(Tail(down[c]))) \cup {x}
  BY <1>1, <1>2, TailVals DEF First
<1>4. x \in asked /\ x \in Sent /\ x \in Call /\ SlotOf(x) \in Slots
  BY <1>2, AskedCalls DEF Flow, InAsked, Served
<1>5. ASSUME NEW k \in Slots
      PROVE  /\ Rising(Msgs(down[c])) /\ Precedes(x, Reqs(slotw[k])) /\ Precedes(x, Reqs(slotr[k]))
             /\ Precedes(x, Msgs(inq))
  <2>1. /\ Rising(Msgs(down[c])) /\ Ahead(Msgs(down[c]), Reqs(slotw[k]))
        /\ Ahead(Msgs(down[c]), Reqs(slotr[k])) /\ Ahead(Msgs(down[c]), Msgs(inq))
    BY ChainFacts
  <2>2. PICK i \in DOMAIN Msgs(down[c]) : x = Msgs(down[c])[i]
    BY <1>2 DEF Vals
  <2>3. QED
    BY <2>1, <2>2 DEF Ahead, Precedes
<1>6. QED
  BY <1>2, <1>3, <1>4, <1>5

(* As long as no connection broke and the requests of its kind go to one   *)
(* slot, it is the answer of the callback that waits first.                *)
LEMMA FirstWaits ==
  ASSUME RecInv, NEW c \in Clients, NEW x, First(c, x), NoneDropped, OneSlot(c, x.kind)
  PROVE  callbacks[c][x.kind] # <<>> /\ Head(callbacks[c][x.kind]) = x
<1> USE DEF RecInv
<1>1. /\ x \in asked /\ x \in Sent /\ x \in Call /\ x \in Vals(Msgs(down[c])) /\ x.kind \in CallbackKinds
      /\ Precedes(x, Msgs(Tail(down[c]))) /\ Vals(Msgs(down[c])) = Vals(Msgs(Tail(down[c]))) \cup {x}
      /\ \A k \in Slots : Precedes(x, Reqs(slotw[k])) /\ Precedes(x, Reqs(slotr[k]))
      /\ Precedes(x, Msgs(inq))
  BY FirstFacts DEF First
<1>2. x.client = c /\ x.number \in Nat
  <2>1. x.client \in Clients /\ x.number \in Nat
    BY <1>1 DEF Call
  <2>2. QED
    BY <1>1, <2>1 DEF NoneDropped, Conn, Foreign
<1>3. UnderWay(x)
  BY <1>1, <1>2 DEF UnderWay
<1> DEFINE u == x.kind
           q == callbacks[c][u]
<1>4. x \in Vals(q)
  BY <1>1, <1>2, <1>3 DEF Awaited
<1>5. q \in Seq(Call) /\ q # <<>>
  BY <1>1, <1>4 DEF RecTypes, Vals
<1>6. 1 \in DOMAIN q /\ Head(q) = q[1] /\ \A i \in DOMAIN q : i = 1 \/ 1 < i
  BY <1>5
<1> DEFINE y == Head(q)
<1>7. y \in asked /\ y.client = c /\ y.kind = u /\ (y = x \/ y.number < x.number)
  <2>1. /\ \A i \in DOMAIN q : q[i] \in asked /\ q[i].client = c /\ q[i].kind = u
        /\ \A i, j \in DOMAIN q : i < j => q[i].number < q[j].number
    BY <1>1 DEF Waiting
  <2>2. PICK i \in DOMAIN q : q[i] = x
    BY <1>4 DEF Vals
  <2>3. QED
    BY <1>6, <2>1, <2>2
<1>8. UnderWay(y)
  <2>1. y \in Vals(q)
    BY <1>6 DEF Vals
  <2>2. QED
    BY <1>1, <1>7, <2>1 DEF Awaited
<1> HIDE DEF y, q
<1>9. Alike(x, y) /\ y.number \in Nat
  <2>1. SlotOf(x) = SlotOf(y)
    BY <1>1, <1>2, <1>7 DEF OneSlot
  <2>2. y \in Call
    BY <1>7, AskedCalls
  <2>3. QED
    BY <1>2, <1>7, <2>1, <2>2 DEF Alike, Call
<1>10. ASSUME NEW g, Precedes(x, g), y \in Vals(g) PROVE x.number < y.number
  BY <1>9, <1>10 DEF Precedes, Vals
<1>14. y \in Vals(up[c]) => x.number < y.number
  BY <1>1, <1>2 DEF Queued, Vals
<1>11. y = x \/ x.number < y.number
  BY <1>1, <1>7, <1>8, <1>10, <1>14 DEF UnderWay
<1>12. y = x
  BY <1>2, <1>7, <1>9, <1>11
<1>13. QED
  BY <1>5, <1>12 DEF y, q

(* msgParser of the client: x is given to the callback that waits first.   *)
CalledBack(c, x) ==
  IF callbacks[c][x.kind] = <<>> THEN UNCHANGED <<callbacks, handled>>
  ELSE /\ callbacks' = [callbacks EXCEPT ![c][x.kind] = Tail(@)]
       /\ handled' = [handled EXCEPT ![c] = Append(@, [callback |-> Head(callbacks[c][x.kind]), response |-> x])]

LEMMA CalledBackFacts ==
  ASSUME RecInv, NEW c \in Clients, NEW x, First(c, x), CalledBack(c, x)
  PROVE  /\ callbacks' \in [Clients -> [CallbackKinds -> Seq(Call)]] /\ handled' \in [Clients -> Seq(Handled)]
         /\ \A d \in Clients : \A v \in CallbackKinds :
              \/ callbacks'[d][v] = callbacks[d][v] /\ (d = c /\ v = x.kind => callbacks[d][v] = <<>>)
              \/ d = c /\ v = x.kind /\ callbacks[d][v] # <<>> /\ callbacks'[d][v] = Tail(callbacks[d][v])
         /\ \A d \in Clients : d # c => handled'[d] = handled[d]
         /\ \/ callbacks[c][x.kind] = <<>> /\ handled'[c] = handled[c]
            \/ /\ callbacks[c][x.kind] # <<>> /\ Grown(Resps(handled'[c]), Resps(handled[c]), x)
               /\ \A i \in DOMAIN handled'[c] :
                    \/ i \in DOMAIN handled[c] /\ handled'[c][i] = handled[c][i]
                    \/ handled'[c][i].response = x /\ handled'[c][i].callback = Head(callbacks[c][x.kind])
<1> USE DEF RecInv
<1>1. x \in Call /\ x.kind \in CallbackKinds
  BY FirstFacts DEF First
<1> DEFINE q == callbacks[c][x.kind]
<1>2. q \in Seq(Call) /\ handled[c] \in Seq(Handled)
  BY <1>1 DEF RecTypes
<1>3. CASE q = <<>>
  BY <1>1, <1>3 DEF CalledBack, RecTypes
<1>4. CASE q # <<>>
  <2> DEFINE h == [callback |-> Head(q), response |-> x]
  <2>1. callbacks' = [callbacks EXCEPT ![c][x.kind] = Tail(q)] /\ handled' = [handled EXCEPT ![c] = Append(@, h)]
    BY <1>4 DEF CalledBack
  <2>2. Head(q) \in Call /\ Tail(q) \in Seq(Call)
    BY <1>2, <1>4, QueueTail
  <2>3. h \in Handled /\ h.response = x /\ h.callback = Head(q)
    BY <1>1, <2>2 DEF Handled
  <2> HIDE DEF h
  <2>4. handled'[c] = Append(handled[c], h) /\ \A d \in Clients : d # c => handled'[d] = handled[d]
    BY <2>1 DEF RecTypes
  <2>5. /\ Append(handled[c], h) \in Seq(Handled)
        /\ \A i \in DOMAIN handled'[c] : (i \in DOMAIN handled[c] /\ handled'[c][i] = handled[c][i]) \/ handled'[c][i] = h
    BY <1>2, <2>3, <2>4, QueueAppend
  <2>6. Grown(Resps(handled'[c]), Resps(handled[c]), x)
    BY <1>2, <2>3, <2>4, RespsAppend
  <2>7. handled' \in [Clients -> Seq(Handled)]
    BY <2>1, <2>5 DEF RecTypes
  <2>8. callbacks' \in [Clients -> [CallbackKinds -> Seq(Call)]]
    BY <1>1, <2>1, <2>2 DEF RecTypes
  <2>9. \A d \in Clients : \A v \in CallbackKinds :
          IF d = c /\ v = x.kind THEN callbacks'[d][v] = Tail(q) ELSE callbacks'[d][v] = callbacks[d][v]
    BY <1>1, <2>1 DEF RecTypes
  <2>10. QED
    BY <1>4, <2>3, <2>4, <2>5, <2>6, <2>7, <2>8, <2>9
<1>5. QED
  BY <1>3, <1>4

(* A list of callbacks without its first.                                  *)
LEMMA CallbacksTail ==
  ASSUME NEW q \in Seq(Call), q # <<>>, \A i, j \in DOMAIN q : i < j => q[i].number < q[j].number
  PROVE  /\ \A i \in DOMAIN Tail(q) : i + 1 \in DOMAIN q /\ Tail(q)[i] = q[i + 1]
         /\ \A i, j \in DOMAIN Tail(q) : i < j => Tail(q)[i].number < Tail(q)[j].number
         /\ \A r : r # Head(q) => (r \in Vals(Tail(q)) <=> r \in Vals(q))
         /\ Head(q) \notin Vals(Tail(q))
<1>1. /\ Len(q) \in Nat \ {0} /\ DOMAIN q = 1 .. Len(q) /\ DOMAIN Tail(q) = 1 .. Len(q) - 1
      /\ \A i \in 1 .. Len(q) - 1 : Tail(q)[i] = q[i + 1]
      /\ Head(q) = q[1] /\ q[1] \in Call
  OBVIOUS
<1>2. \A i \in DOMAIN Tail(q) : i + 1 \in DOMAIN q /\ 1 < i + 1 /\ Tail(q)[i] = q[i + 1]
  BY <1>1
<1>3. \A i, j \in DOMAIN Tail(q) : i < j => i + 1 < j + 1
  BY <1>1
<1>4. \A i \in DOMAIN q : i # 1 => i - 1 \in DOMAIN Tail(q) /\ Tail(q)[i - 1] = q[i]
  BY <1>1
<1>5. q[1].number \in Nat /\ 1 \in DOMAIN q
  BY <1>1 DEF Call
<1>6. \A i, j \in DOMAIN Tail(q) : i < j => Tail(q)[i].number < Tail(q)[j].number
  BY <1>2, <1>3
<1>7. \A i \in DOMAIN Tail(q) : q[1].number < Tail(q)[i].number
  BY <1>2, <1>5
<1>8. Head(q) \notin Vals(Tail(q))
  BY <1>1, <1>5, <1>7 DEF Vals
<1>9. \A r : r # Head(q) => (r \in Vals(Tail(q)) <=> r \in Vals(q))
  BY <1>1, <1>2, <1>4 DEF Vals
<1>10. QED
  BY <1>2, <1>6, <1>8, <1>9

(* The worker of c's socket sends the first of what waits.                 *)
LEMMA RecClientWorker ==
  ASSUME RecInv, NEW c \in Clients, ClientWorker(c)
  PROVE  RecInv'
<1> USE DEF RecInv
<1> PICK q, x : q = up[c] /\ x = Head(q)
  OBVIOUS
<1> DEFINE e == [op |-> "message", s |-> link[c], msg |-> x]
<1>1. /\ q # <<>> /\ up' = [up EXCEPT ![c] = Tail(q)] /\ inq' = Append(inq, e)
      /\ UNCHANGED <<link, state, down, unsent, callbacks, calls, asked, handled, tasks, slotw, slotr, slotpc, main,
                     released, dropped>>
  BY DEF ClientWorker, clientVars
<1>2. /\ q \in Seq(Call) /\ link[c] \in Sockets /\ link[c] # NoSocket
      /\ \A i \in DOMAIN q : q[i] \in asked /\ q[i].client = c
      /\ \A i, j \in DOMAIN q : i < j => q[i].number < q[j].number
      /\ \A r \in Sent : r.client = c => \A i \in DOMAIN q : r.number < q[i].number
  BY <1>1 DEF RecTypes, Queued
<1>3. /\ Tail(q) \in Seq(Call) /\ x \in Call /\ 1 \in DOMAIN q /\ x = q[1] /\ DOMAIN q \subseteq Nat
      /\ \A i \in DOMAIN Tail(q) : i \in Nat /\ i + 1 \in DOMAIN q /\ 1 < i + 1 /\ Tail(q)[i] = q[i + 1]
  BY <1>1, <1>2, QueueTail
<1>4. x \in asked /\ x.client = c /\ \A r \in Sent : r.client = c => r.number < x.number
  BY <1>2, <1>3
<1>5. /\ \A i, j \in DOMAIN Tail(q) : i < j => Tail(q)[i].number < Tail(q)[j].number
      /\ \A r : r # x => (r \in Vals(Tail(q)) <=> r \in Vals(q))
      /\ x \notin Vals(Tail(q)) /\ x \in Vals(q)
  <2>1. x \in Vals(q)
    BY <1>3 DEF Vals
  <2>2. QED
    BY <1>1, <1>2, <2>1, CallbacksTail
<1>6. up'[c] = Tail(q) /\ \A d \in Clients : d # c => up'[d] = up[d]
  BY <1>1 DEF RecTypes
<1>7. e \in Up /\ e.op = "message" /\ e.s = link[c] /\ e.msg = x /\ inq \in Seq(Up)
  BY <1>2, <1>3 DEF Up, RecTypes
<1> HIDE DEF e
<1>8. /\ Grown(Msgs(inq'), Msgs(inq), x) /\ Vals(Msgs(inq')) = Vals(Msgs(inq)) \cup {x} /\ inq' \in Seq(Up)
      /\ \A i \in DOMAIN inq' : inq'[i] = e \/ (i \in DOMAIN inq /\ inq'[i] = inq[i])
  <2>1. /\ Grown(Msgs(inq'), Msgs(inq), x) /\ x \in Vals(Msgs(inq'))
        /\ Vals(Msgs(inq)) \subseteq Vals(Msgs(inq'))
    BY <1>1, <1>7, MsgsAppend
  <2>2. Vals(Msgs(inq')) \subseteq Vals(Msgs(inq)) \cup {x}
    BY <2>1, SubVals
  <2>3. QED
    BY <1>1, <1>7, <2>1, <2>2, QueueAppend
<1>9. ASSUME NEW r \in asked PROVE r \in Vals(up'[r.client]) <=> r # x /\ r \in Vals(up[r.client])
  <2>1. r.client \in Clients
    BY AskedCalls DEF Call
  <2>2. CASE r.client = c
    BY <1>5, <1>6, <2>2
  <2>3. CASE r.client # c
    BY <1>4, <1>6, <2>1, <2>3
  <2>4. QED
    BY <2>2, <2>3
<1>10. x \notin Sent /\ Sent' = Sent \cup {x}
  <2>1. \A r : r \in Sent' <=> r \in asked /\ r \notin Vals(up'[r.client])
    BY <1>1 DEF Sent, Vals
  <2>2. QED
    BY <1>4, <1>5, <1>9, <2>1 DEF Sent
<1>11. RecTypes'
  <2>1. up' \in [Clients -> Seq(Call)]
    BY <1>1, <1>3 DEF RecTypes
  <2>2. QED
    BY <1>1, <1>8, <2>1 DEF RecTypes
<1>12. AskedInOrder' /\ Waiting' /\ Awaited' /\ CallbackGetsItsAnswer'
  <2>1. ASSUME NEW r \in asked PROVE UnderWay(r)' <=> UnderWay(r)
    <3>1. CASE r = x
      BY <1>4, <1>5, <1>8, <3>1, UnderWayNext DEF UnderWay
    <3>2. CASE r # x
      BY <1>1, <1>8, <1>9, <3>2, UnderWayNext DEF UnderWay
    <3>3. QED
      BY <3>1, <3>2
  <2>2. QED
    BY <1>1, <2>1, ProgramsWait DEF clientVars, NoneDropped
<1>13. Flow'
  BY <1>1, <1>3, <1>4, <1>8, <1>10, <1>12, FlowAsks
<1>14. Queued'
  <2>1. SUFFICES ASSUME NEW d \in Clients
                 PROVE  /\ up'[d] # <<>> => link[d] # NoSocket
                        /\ \A i \in DOMAIN up'[d] : up'[d][i] \in asked /\ up'[d][i].client = d
                        /\ \A i, j \in DOMAIN up'[d] : i < j => up'[d][i].number < up'[d][j].number
                        /\ \A r \in Sent' : r.client = d => \A i \in DOMAIN up'[d] : r.number < up'[d][i].number
    BY <1>1 DEF Queued
  <2>2. CASE d # c
    BY <1>4, <1>6, <1>10, <2>2 DEF Queued
  <2>3. CASE d = c
    <3>1. \A i \in DOMAIN Tail(q) : Tail(q)[i] \in asked /\ Tail(q)[i].client = c /\ x.number < Tail(q)[i].number
      BY <1>2, <1>3
    <3>2. \A r \in Sent : r.client = c => \A i \in DOMAIN Tail(q) : r.number < Tail(q)[i].number
      BY <1>2, <1>3
    <3>3. QED
      BY <1>2, <1>5, <1>6, <1>10, <2>3, <3>1, <3>2
  <2>4. QED
    BY <2>2, <2>3
<1>15. ReleasedApart' /\ SlotsEnd'
  <2>1. \A r \in Sent : Pending(r)' => Pending(r)
    BY <1>1, <1>8, <1>10, PendingNext DEF Pending
  <2>2. QED
    BY <1>1, <1>10, <2>1, ReleasesNothing DEF SlotsEnd
<1>16. Conn'
  <2>1. Links' /\ Foreign'
    BY <1>1 DEF Conn, Links, Foreign
  <2>2. Routed'
    BY <1>1, <1>4, <1>7, <1>8, RoutedNext DEF Conn, Routed, Route
  <2>3. Tasked'
    BY <1>1, <1>7, <1>8 DEF Conn, Tasked, NoneDropped
  <2>4. QED
    BY <2>1, <2>2, <2>3 DEF Conn
<1>17. Introduced'
  BY <1>1, <1>2, <1>7, IntroducedAppend
<1>18. QED
  BY <1>11, <1>12, <1>13, <1>14, <1>15, <1>16, <1>17

(* update(c), a response is read.                                          *)
LEMMA RecReads ==
  ASSUME RecInv, NEW c \in Clients, NEW x, First(c, x), CalledBack(c, x), down' = [down EXCEPT ![c] = Tail(@)],
         UNCHANGED <<link, state, up, unsent, calls, asked, inq, tasks, slotw, slotr, slotpc, main, released, dropped>>
  PROVE  RecInv'
<1> USE DEF RecInv
<1>1. /\ x \in asked /\ x \in Sent /\ x \in Call /\ x \in Vals(Msgs(down[c])) /\ x.kind \in CallbackKinds
      /\ Sub(Msgs(Tail(down[c])), Msgs(down[c])) /\ Precedes(x, Msgs(Tail(down[c])))
      /\ Vals(Msgs(down[c])) = Vals(Msgs(Tail(down[c]))) \cup {x}
      /\ \A k \in Slots : Precedes(x, Reqs(slotw[k])) /\ Precedes(x, Reqs(slotr[k]))
      /\ Precedes(x, Msgs(inq))
  BY FirstFacts DEF First
<1>2. /\ callbacks' \in [Clients -> [CallbackKinds -> Seq(Call)]] /\ handled' \in [Clients -> Seq(Handled)]
      /\ \A d \in Clients : \A v \in CallbackKinds :
           \/ callbacks'[d][v] = callbacks[d][v] /\ (d = c /\ v = x.kind => callbacks[d][v] = <<>>)
           \/ d = c /\ v = x.kind /\ callbacks[d][v] # <<>> /\ callbacks'[d][v] = Tail(callbacks[d][v])
      /\ \A d \in Clients : d # c => handled'[d] = handled[d]
      /\ \/ callbacks[c][x.kind] = <<>> /\ handled'[c] = handled[c]
         \/ /\ callbacks[c][x.kind] # <<>> /\ Grown(Resps(handled'[c]), Resps(handled[c]), x)
            /\ \A i \in DOMAIN handled'[c] :
                 \/ i \in DOMAIN handled[c] /\ handled'[c][i] = handled[c][i]
                 \/ handled'[c][i].response = x /\ handled'[c][i].callback = Head(callbacks[c][x.kind])
  BY CalledBackFacts
<1>3. /\ down[c] \in Seq(Down) /\ down[c] # <<>> /\ down'[c] = Tail(down[c]) /\ Tail(down[c]) \in Seq(Down)
      /\ \A d \in Clients : d # c => down'[d] = down[d]
  BY QueueTail DEF RecTypes, First
<1>4. RecTypes'
  BY <1>2, <1>3 DEF RecTypes
<1>5. AskedInOrder'
  BY DEF Flow, AskedInOrder
<1>18. Queued' /\ Sent' = Sent /\ Introduced'
  BY QueuedKept, IntroducedKept
<1>6. Flow'
  <2>1. CASE handled'[c] = handled[c]
    <3>1. \A d \in Clients : Sub(Msgs(down'[d]), Msgs(down[d])) /\ Sub(Resps(handled'[d]), Resps(handled[d]))
      BY <1>1, <1>2, <1>3, <2>1, SubSame
    <3>2. QED
      BY <1>5, <1>18, <3>1, FlowShrinks, SubSame
  <2>2. CASE Grown(Resps(handled'[c]), Resps(handled[c]), x)
    BY <1>1, <1>2, <1>3, <1>5, <1>18, <2>2, FlowReads
  <2>3. QED
    BY <1>2, <2>1, <2>2
<1>7. ReleasedApart' /\ SlotsEnd'
  <2>1. \A r : Pending(r)' => Pending(r)
    BY PendingNext DEF Pending
  <2>2. QED
    BY <1>18, <2>1, ReleasesNothing DEF SlotsEnd
<1>8. Links'
  <2>1. \A i \in DOMAIN Tail(down[c]) : i + 1 \in DOMAIN down[c] /\ Tail(down[c])[i] = down[c][i + 1]
    BY <1>3, QueueTail
  <2>2. \A d \in Clients : \A i \in DOMAIN down'[d] : down'[d][i].op = "close" => dropped[d] > 0
    BY <1>3, <2>1 DEF Conn, Links
  <2>3. QED
    BY <2>2 DEF Conn, Links
<1>9. Routed' /\ Tasked'
  BY DEF Conn, Routed, Tasked, NoneDropped
<1>10. Foreign'
  <2>1. Vals(Resps(handled'[c])) \subseteq Vals(Resps(handled[c])) \cup {x}
    BY <1>2, SubVals
  <2>2. ASSUME NEW d \in Clients, NEW r \in Vals(Msgs(down'[d])) \cup Vals(Resps(handled'[d]))
        PROVE  r \in Vals(Msgs(down[d])) \cup Vals(Resps(handled[d]))
    BY <1>1, <1>2, <1>3, <2>1
  <2>3. QED
    BY <2>2 DEF Conn, Foreign
<1>11. Waiting'
  <2>1. SUFFICES ASSUME NEW d \in Clients, NEW v \in CallbackKinds
                 PROVE  /\ \A i \in DOMAIN callbacks'[d][v] :
                             /\ callbacks'[d][v][i] \in asked /\ callbacks'[d][v][i].client = d
                             /\ callbacks'[d][v][i].kind = v
                        /\ \A i, j \in DOMAIN callbacks'[d][v] :
                             i < j => callbacks'[d][v][i].number < callbacks'[d][v][j].number
    BY DEF Waiting
  <2> DEFINE q == callbacks[d][v]
  <2>2. /\ q \in Seq(Call)
        /\ \A i \in DOMAIN q : q[i] \in asked /\ q[i].client = d /\ q[i].kind = v
        /\ \A i, j \in DOMAIN q : i < j => q[i].number < q[j].number
    BY DEF Waiting, RecTypes
  <2>3. CASE callbacks'[d][v] = q
    BY <2>2, <2>3
  <2>4. CASE q # <<>> /\ callbacks'[d][v] = Tail(q)
    <3>1. /\ \A i \in DOMAIN Tail(q) : i + 1 \in DOMAIN q /\ Tail(q)[i] = q[i + 1]
          /\ \A i, j \in DOMAIN Tail(q) : i < j => Tail(q)[i].number < Tail(q)[j].number
      BY <2>2, <2>4, CallbacksTail
    <3>2. QED
      BY <2>2, <2>4, <3>1
  <2>5. QED
    BY <1>2, <2>3, <2>4
<1>12. \A r : r # x => (UnderWay(r)' <=> UnderWay(r))
  <2>1. SUFFICES ASSUME NEW r, r # x PROVE r \in Vals(Msgs(down'[r.client])) <=> r \in Vals(Msgs(down[r.client]))
    BY UnderWayNext DEF UnderWay
  <2>2. CASE r.client = c
    BY <1>1, <1>3, <2>1, <2>2
  <2>3. CASE r.client # c
    BY <2>3 DEF RecTypes
  <2>4. QED
    BY <2>2, <2>3
<1>13. x.client = c => ~UnderWay(x)'
  <2>1. /\ x \notin Vals(Msgs(Tail(down[c]))) /\ x \notin Vals(Msgs(inq))
        /\ \A k \in Slots : x \notin Vals(Reqs(slotw[k])) /\ x \notin Vals(Reqs(slotr[k]))
    BY <1>1, NotIn
  <2>2. x.client = c => x \notin Vals(up[x.client])
    BY <1>1 DEF Sent
  <2>3. QED
    BY <1>3, <2>1, <2>2, UnderWayNext
<1>14. NoneDropped => x.client = c
  <2>1. x.client \in Clients
    BY <1>1 DEF Call
  <2>2. QED
    BY <1>1, <2>1 DEF NoneDropped, Conn, Foreign
<1>15. Awaited'
  <2>1. SUFFICES ASSUME NoneDropped', NEW d \in Clients, NEW v \in CallbackKinds, OneSlot(d, v)',
                        NEW r \in asked, r.client = d, r.kind = v
                 PROVE  UnderWay(r)' <=> r \in Vals(callbacks'[d][v])
    BY DEF Awaited, Vals
  <2>2. OneSlot(d, v) /\ NoneDropped
    BY <2>1 DEF OneSlot, NoneDropped
  <2>3. UnderWay(r) <=> r \in Vals(callbacks[d][v])
    BY <2>1, <2>2 DEF Awaited
  <2>4. CASE d = c /\ v = x.kind
    <3>1. callbacks[c][v] # <<>> /\ Head(callbacks[c][v]) = x
      BY <2>2, <2>4, FirstWaits
    <3>2. callbacks'[c][v] = Tail(callbacks[c][v])
      BY <1>2, <2>4, <3>1
    <3>3. /\ r # x => (r \in Vals(Tail(callbacks[c][v])) <=> r \in Vals(callbacks[c][v]))
          /\ x \notin Vals(Tail(callbacks[c][v]))
      <4>1. callbacks[c][v] \in Seq(Call)
        BY DEF RecTypes
      <4>2. \A i, j \in DOMAIN callbacks[c][v] : i < j => callbacks[c][v][i].number < callbacks[c][v][j].number
        BY DEF Waiting
      <4>3. QED
        BY <3>1, <4>1, <4>2, CallbacksTail
    <3>4. QED
      BY <1>12, <1>13, <1>14, <2>2, <2>3, <2>4, <3>2, <3>3
  <2>5. CASE ~(d = c /\ v = x.kind)
    <3>1. callbacks'[d][v] = callbacks[d][v] /\ r # x
      BY <1>2, <1>14, <2>1, <2>2, <2>5
    <3>2. QED
      BY <1>12, <2>3, <3>1
  <2>6. QED
    BY <2>4, <2>5
<1>16. CallbackGetsItsAnswer'
  <2>1. SUFFICES ASSUME NoneDropped, NEW d \in Clients, NEW i \in DOMAIN handled'[d]
                 PROVE  \/ handled'[d][i].callback = handled'[d][i].response
                        \/ \E r \in asked : /\ r.client = d /\ r.kind = handled'[d][i].response.kind
                                            /\ SlotOf(r) # SlotOf(handled'[d][i].response)
    BY DEF CallbackGetsItsAnswer, NoneDropped
  <2>2. CASE i \in DOMAIN handled[d] /\ handled'[d][i] = handled[d][i]
    BY <2>1, <2>2 DEF CallbackGetsItsAnswer
  <2>3. CASE d = c /\ handled'[d][i].response = x /\ handled'[d][i].callback = Head(callbacks[c][x.kind])
    <3>1. CASE OneSlot(c, x.kind)
      BY <2>1, <2>3, <3>1, FirstWaits
    <3>2. CASE ~OneSlot(c, x.kind)
      <4>1. PICK r, q \in asked : /\ r.client = c /\ q.client = c /\ r.kind = x.kind /\ q.kind = x.kind
                                 /\ SlotOf(r) # SlotOf(q)
        BY <3>2 DEF OneSlot
      <4>2. SlotOf(r) # SlotOf(x) \/ SlotOf(q) # SlotOf(x)
        BY <4>1
      <4>3. QED
        BY <2>3, <4>1, <4>2
    <3>3. QED
      BY <3>1, <3>2
  <2>4. QED
    BY <1>2, <2>2, <2>3
<1>17. QED
  BY <1>4, <1>6, <1>7, <1>8, <1>9, <1>10, <1>11, <1>15, <1>16, <1>18 DEF Conn

(* The main thread takes the first of what it has to read.                 *)
LEMMA InqTail ==
  ASSUME RecInv, inq # <<>>
  PROVE  /\ inq \in Seq(Up) /\ Tail(inq) \in Seq(Up) /\ Head(inq) \in Up /\ Taken(Tail(inq), inq)
         /\ Head(inq).s \in Sockets
         /\ Sub(Msgs(Tail(inq)), Msgs(inq))
         /\ \A i \in DOMAIN Tail(inq) : \E j \in DOMAIN inq : Tail(inq)[i] = inq[j]
         /\ 1 \in DOMAIN inq /\ Head(inq) = inq[1]
         /\ Head(inq).op # "message" => Vals(Msgs(Tail(inq))) = Vals(Msgs(inq))
<1>1. inq \in Seq(Up)
  BY DEF RecInv, RecTypes
<1>2. /\ Tail(inq) \in Seq(Up) /\ Head(inq) \in Up /\ 1 \in DOMAIN inq /\ Head(inq) = inq[1]
      /\ \A i \in DOMAIN Tail(inq) : i + 1 \in DOMAIN inq /\ Tail(inq)[i] = inq[i + 1]
  BY <1>1, QueueTail
<1>3. Taken(Tail(inq), inq) /\ \A i \in DOMAIN Tail(inq) : \E j \in DOMAIN inq : Tail(inq)[i] = inq[j]
  BY <1>2 DEF Taken
<1>4. Head(inq).s \in Sockets
  BY <1>2 DEF Up
<1>5. Sub(Msgs(Tail(inq)), Msgs(inq))
  BY <1>1, MsgsTail
<1>6. Head(inq).op # "message" => Vals(Msgs(Tail(inq))) = Vals(Msgs(inq))
  <2>1. Vals(Msgs(Tail(inq))) \subseteq Vals(Msgs(inq))
    BY <1>5, SubVals
  <2>2. Head(inq).op # "message" => Vals(Msgs(inq)) \subseteq Vals(Msgs(Tail(inq)))
    BY <1>1, TailVals
  <2>3. QED
    BY <2>1, <2>2
<1>7. QED
  BY <1>1, <1>2, <1>3, <1>4, <1>5, <1>6

LEMMA InqHead ==
  ASSUME RecInv, inq # <<>>, Head(inq).op = "message", NEW x, x = Head(inq).msg
  PROVE  /\ x \in asked /\ x \in Sent /\ x \in Call /\ x.client \in Clients /\ x \in Vals(Msgs(inq))
         /\ Precedes(x, Msgs(Tail(inq))) /\ x \notin Vals(Msgs(Tail(inq)))
         /\ Vals(Msgs(inq)) = Vals(Msgs(Tail(inq))) \cup {x}
         /\ Route(Head(inq).s, x, link, dropped)
         /\ \A k \in Slots : x \notin Vals(Reqs(slotw[k]))
<1> USE DEF RecInv
<1>1. inq \in Seq(Up) /\ 1 \in DOMAIN inq /\ Head(inq) = inq[1]
  BY InqTail
<1>2. x \in Vals(Msgs(inq)) /\ Precedes(x, Msgs(Tail(inq)))
  BY <1>1, MsgsTail DEF Flow
<1>3. Vals(Msgs(inq)) = Vals(Msgs(Tail(inq))) \cup {x}
  BY <1>1, <1>2, TailVals
<1>4. x \in asked /\ x \in Sent /\ x \in Call
  BY <1>2, AskedCalls DEF Flow, InAsked
<1>5. x.client \in Clients /\ x \notin Vals(Msgs(Tail(inq)))
  BY <1>2, <1>4, NotIn DEF Call
<1>6. Route(Head(inq).s, x, link, dropped)
  BY <1>1 DEF Conn, Routed
<1>7. ASSUME NEW k \in Slots PROVE x \notin Vals(Reqs(slotw[k]))
  <2>1. Ahead(Reqs(slotw[k]), Msgs(inq))
    BY <1>5, ChainFacts
  <2>2. Vals(Reqs(slotw[k])) \subseteq Call
    BY AskedCalls DEF Flow, InAsked
  <2>3. Apart(Reqs(slotw[k]), Msgs(inq))
    BY <2>1, <2>2, AheadApart
  <2>4. QED
    BY <1>2, <2>3 DEF Apart, Vals
<1>8. QED
  BY <1>2, <1>3, <1>4, <1>5, <1>6, <1>7

(* ServiceUpdate, a connection is announced or its end.                    *)
LEMMA RecAnnounce ==
  ASSUME RecInv, inq # <<>>, Head(inq).op \in {"establish", "close"}, inq' = Tail(inq),
         IF Head(inq).op = "establish" THEN spawnConnection(Head(inq).s) ELSE closeConnection(Head(inq).s),
         UNCHANGED <<link, state, up, down, unsent, callbacks, calls, asked, handled, slotw, slotr, slotpc, main, released, dropped>>
  PROVE  RecInv'
<1> USE DEF RecInv
<1>1. /\ inq' \in Seq(Up) /\ Taken(inq', inq) /\ Head(inq).s \in Sockets
      /\ Sub(Msgs(inq'), Msgs(inq)) /\ Vals(Msgs(inq')) = Vals(Msgs(inq))
      /\ \A i \in DOMAIN inq' : \E j \in DOMAIN inq : inq'[i] = inq[j]
      /\ 1 \in DOMAIN inq /\ Head(inq) = inq[1]
  BY InqTail
<1>2. tasks' \subseteq Sockets /\ (Head(inq).op # "close" => tasks \subseteq tasks')
  BY <1>1 DEF spawnConnection, closeConnection, RecTypes
<1>3. RecTypes'
  BY <1>1, <1>2 DEF RecTypes
<1>4. \A r : (UnderWay(r)' <=> UnderWay(r)) /\ (Pending(r)' <=> Pending(r))
  BY <1>1, NothingMoves
<1>5. AskedInOrder' /\ Waiting' /\ Awaited' /\ CallbackGetsItsAnswer'
  BY <1>4, ProgramsWait DEF clientVars, NoneDropped
<1>12. Queued' /\ Sent' = Sent
  BY QueuedKept
<1>13. Introduced'
  <2>1. NoneDropped => Head(inq).op # "close"
    BY <1>1 DEF Conn, Tasked
  <2>2. Head(inq).op = "establish" => Head(inq).s \in tasks'
    BY DEF spawnConnection
  <2>3. QED
    BY <1>2, <2>1, <2>2, IntroducedTail
<1>6. Flow'
  BY <1>1, <1>5, <1>12, FlowShrinks, SubSame
<1>7. ReleasedApart' /\ SlotsEnd'
  BY <1>4, <1>12, ReleasesNothing DEF SlotsEnd
<1>8. Links' /\ Foreign'
  BY DEF Conn, Links, Foreign
<1>9. Routed'
  BY <1>1, RoutedKept DEF Conn
<1>10. Tasked'
  BY <1>1, <1>2 DEF Conn, Tasked, NoneDropped
<1>11. QED
  BY <1>3, <1>5, <1>6, <1>7, <1>8, <1>9, <1>10, <1>12, <1>13 DEF Conn

(* ServiceUpdate, a request is refused.                                    *)
LEMMA RecRefuse ==
  ASSUME RecInv, inq # <<>>, Head(inq).op = "message", NEW x, x = Head(inq).msg,
         Break(Head(inq).s, Tail(inq)), released' = Append(released, x),
         UNCHANGED <<callbacks, calls, asked, handled, tasks, slotw, slotr, slotpc, main>>
  PROVE  RecInv'
<1> USE DEF RecInv
<1>1. /\ Tail(inq) \in Seq(Up) /\ Taken(Tail(inq), inq) /\ Head(inq).s \in Sockets
      /\ Sub(Msgs(Tail(inq)), Msgs(inq))
  BY InqTail
<1>2. /\ x \in asked /\ x \in Sent /\ x \in Call /\ x.client \in Clients /\ x \in Vals(Msgs(inq))
      /\ x \notin Vals(Msgs(Tail(inq))) /\ Route(Head(inq).s, x, link, dropped)
      /\ \A k \in Slots : x \notin Vals(Reqs(slotw[k]))
  BY InqHead
<1>3. /\ up' \in [Clients -> Seq(Call)] /\ unsent' \in [Clients -> Nat]
      /\ link' \in [Clients -> Sockets \cup {NoSocket}]
      /\ state' \in [Clients -> {"new", "up", "lost", "retry", "stopped"}]
      /\ down' \in [Clients -> Seq(Down)] /\ inq' \in Seq(Up) /\ dropped' \in [Clients -> Nat]
      /\ Sub(Msgs(inq'), Msgs(Tail(inq))) /\ Taken(inq', Tail(inq))
      /\ \A d \in Clients : /\ Ended(d) /\ (link[d] = Head(inq).s => dropped'[d] > 0)
                           /\ (dropped[d] > 0 => dropped'[d] > 0)
                           /\ Sub(Msgs(down'[d]), Msgs(down[d]))
  BY <1>1, BreakEnds DEF Conn
<1>4. dropped'[x.client] > 0
  <2>1. dropped[x.client] \in Nat
    BY <1>2 DEF RecTypes
  <2>2. QED
    BY <1>2, <1>3, <2>1 DEF Route
<1>5. Sub(Msgs(inq'), Msgs(inq))
  BY <1>1, <1>3, SubTrans
<1>6. Taken(inq', inq)
  BY <1>1, <1>3 DEF Taken
<1>7. RecTypes'
  <2>1. released' \in Seq(Call)
    BY <1>2 DEF RecTypes
  <2>2. QED
    BY <1>3, <2>1 DEF RecTypes
<1>8. AskedInOrder' /\ Waiting' /\ Awaited' /\ CallbackGetsItsAnswer'
  BY <1>2, <1>4, ProgramsWait DEF clientVars, NoneDropped
<1>14. Queued' /\ Sent \subseteq Sent' /\ Introduced'
  BY <1>2, <1>3, <1>4, QueuedEnds, IntroducedVoid
<1>9. Flow'
  BY <1>3, <1>5, <1>8, <1>14, FlowShrinks, SubSame
<1>10. ReleasedApart'
  <2>1. Vals(Msgs(inq')) \subseteq Vals(Msgs(Tail(inq))) /\ Vals(Msgs(inq')) \subseteq Vals(Msgs(inq))
    BY <1>3, <1>5, SubVals
  <2>2. Pending(x) /\ ~Pending(x)' /\ \A r \in Sent : Pending(r)' => Pending(r)
    BY <1>2, <2>1, PendingNext DEF Pending
  <2>3. QED
    BY <1>2, <1>14, <2>2, ReleasesOne
<1>11. SlotsEnd'
  BY DEF SlotsEnd
<1>12. Conn'
  BY <1>2, <1>3, <1>4, <1>6, ConnectionsEnd
<1>13. QED
  BY <1>7, <1>8, <1>9, <1>10, <1>11, <1>12, <1>14

(* ServiceUpdate, a request has no task: a connection has broken.          *)
LEMMA RecRelease ==
  ASSUME RecInv, inq # <<>>, Head(inq).op = "message", NEW x, x = Head(inq).msg, Head(inq).s \notin tasks,
         inq' = Tail(inq), released' = Append(released, x),
         UNCHANGED <<link, state, up, down, unsent, callbacks, calls, asked, handled, tasks, slotw, slotr, slotpc, main,
                     dropped>>
  PROVE  RecInv'
<1> USE DEF RecInv
<1>1. /\ inq' \in Seq(Up) /\ Taken(inq', inq) /\ Sub(Msgs(inq'), Msgs(inq)) /\ 1 \in DOMAIN inq /\ Head(inq) = inq[1]
  BY InqTail
<1>2. /\ x \in Sent /\ x \in Call /\ x \in Vals(Msgs(inq)) /\ x \notin Vals(Msgs(inq'))
      /\ \A k \in Slots : x \notin Vals(Reqs(slotw[k]))
  BY InqHead
<1>3. ~NoneDropped /\ ~NoneDropped'
  <2>1. ~Established(inq, tasks, inq[1].s, 1)
    <3>1. \A j \in DOMAIN inq : ~(j < 1)
      BY DEF RecTypes
    <3>2. QED
      BY <1>1, <3>1 DEF Established
  <2>2. ~NoneDropped
    BY <1>1, <2>1 DEF Introduced
  <2>3. QED
    BY <2>2 DEF NoneDropped
<1>4. RecTypes'
  <2>1. released' \in Seq(Call)
    BY <1>2 DEF RecTypes
  <2>2. QED
    BY <1>1, <2>1 DEF RecTypes
<1>5. AskedInOrder' /\ Waiting' /\ Awaited' /\ CallbackGetsItsAnswer'
  BY <1>3, ProgramsWait DEF clientVars
<1>6. Queued' /\ Sent' = Sent /\ Introduced'
  BY <1>3, QueuedKept DEF Introduced
<1>7. Flow'
  BY <1>1, <1>5, <1>6, FlowShrinks, SubSame
<1>8. ReleasedApart' /\ SlotsEnd'
  <2>1. Vals(Msgs(inq')) \subseteq Vals(Msgs(inq))
    BY <1>1, SubVals
  <2>2. Pending(x) /\ ~Pending(x)' /\ \A r \in Sent : Pending(r)' => Pending(r)
    BY <1>2, <2>1, PendingNext DEF Pending
  <2>3. QED
    BY <1>2, <1>6, <2>2, ReleasesOne DEF SlotsEnd
<1>9. Conn'
  <2>1. Routed'
    BY <1>1, RoutedKept DEF Conn
  <2>2. Links' /\ Foreign' /\ Tasked'
    BY <1>3 DEF Conn, Links, Foreign, Tasked
  <2>3. QED
    BY <2>1, <2>2 DEF Conn
<1>10. QED
  BY <1>4, <1>5, <1>6, <1>7, <1>8, <1>9

(* ServiceUpdate, a request is given to its slot.                          *)
LEMMA RecAccept ==
  ASSUME RecInv, main = "run", inq # <<>>, Head(inq).op = "message", NEW x, x = Head(inq).msg,
         Head(inq).s \in tasks, Accepted(x), inq' = Tail(inq),
         slotw' = [slotw EXCEPT ![SlotOf(x)] = Append(@, [s |-> Head(inq).s, req |-> x])],
         UNCHANGED <<link, state, up, down, unsent, callbacks, calls, asked, handled, tasks, slotr, slotpc, main, released, dropped>>
  PROVE  RecInv'
<1> USE DEF RecInv
<1>1. /\ inq' \in Seq(Up) /\ Head(inq).s \in Sockets /\ Sub(Msgs(inq'), Msgs(inq))
      /\ \A i \in DOMAIN inq' : \E j \in DOMAIN inq : inq'[i] = inq[j]
  BY InqTail
<1>2. /\ x \in asked /\ x \in Call /\ x.client \in Clients /\ x \in Vals(Msgs(inq))
      /\ Precedes(x, Msgs(inq')) /\ Route(Head(inq).s, x, link, dropped)
      /\ Vals(Msgs(inq)) = Vals(Msgs(inq')) \cup {x}
  BY InqHead
<1>3. PICK k \in Slots : SlotOf(x) = k
  <2>1. x.objectid % SLOT_HASH_VALUE \in 0 .. SLOT_HASH_VALUE - 1
    BY <1>2, RecordSystemAssumption DEF Call
  <2>2. x.shard \in Shards
    BY DEF Accepted
  <2>3. SlotOf(x) \in Slots
    BY <2>1, <2>2 DEF Slots, SlotOf
  <2>4. QED
    BY <2>3
<1> DEFINE e == [s |-> Head(inq).s, req |-> x]
<1>4. /\ e \in Entry /\ e.req = x /\ e.s = Head(inq).s
      /\ slotw[k] \in Seq(Entry) /\ slotw'[k] = Append(slotw[k], e)
      /\ \A l \in Slots : l # k => slotw'[l] = slotw[l]
  BY <1>1, <1>2, <1>3 DEF Entry, RecTypes
<1>5. /\ slotw'[k] \in Seq(Entry)
      /\ \A i \in DOMAIN slotw'[k] : (i \in DOMAIN slotw[k] /\ slotw'[k][i] = slotw[k][i]) \/ slotw'[k][i] = e
      /\ Grown(Reqs(slotw'[k]), Reqs(slotw[k]), x)
      /\ Vals(Reqs(slotw'[k])) = Vals(Reqs(slotw[k])) \cup {x}
  <2> HIDE DEF e
  <2>1. /\ slotw'[k] \in Seq(Entry)
        /\ \A i \in DOMAIN slotw'[k] : (i \in DOMAIN slotw[k] /\ slotw'[k][i] = slotw[k][i]) \/ slotw'[k][i] = e
    BY <1>4, QueueAppend
  <2>2. /\ Grown(Reqs(slotw'[k]), Reqs(slotw[k]), x)
        /\ x \in Vals(Reqs(slotw'[k])) /\ Vals(Reqs(slotw[k])) \subseteq Vals(Reqs(slotw'[k]))
    BY <1>4, ReqsAppend
  <2>3. Vals(Reqs(slotw'[k])) = Vals(Reqs(slotw[k])) \cup {x}
    BY <1>4, ReqsGrown
  <2>4. QED
    BY <2>1, <2>2, <2>3
<1> HIDE DEF e
<1>7. RecTypes'
  <2>1. slotw' \in [Slots -> Seq(Entry)]
    BY <1>4, <1>5, <1>3 DEF RecTypes
  <2>2. QED
    BY <1>1, <2>1 DEF RecTypes
<1>8. \A r : (UnderWay(r)' <=> UnderWay(r)) /\ (Pending(r)' <=> Pending(r))
  <2>1. ASSUME NEW r
        PROVE  /\ r \in Vals(Msgs(inq')) \/ (\E l \in Slots : r \in Vals(Reqs(slotw'[l])))
                  <=> r \in Vals(Msgs(inq)) \/ (\E l \in Slots : r \in Vals(Reqs(slotw[l])))
    BY <1>2, <1>3, <1>4, <1>5
  <2>2. QED
    BY <2>1, UnderWayNext, PendingNext DEF UnderWay, Pending
<1>9. AskedInOrder' /\ Waiting' /\ Awaited' /\ CallbackGetsItsAnswer'
  BY <1>8, ProgramsWait DEF clientVars, NoneDropped
<1>17. Queued' /\ Sent' = Sent
  BY QueuedKept
<1>18. Introduced'
  BY IntroducedTail
<1>10. Flow'
  BY <1>1, <1>2, <1>3, <1>4, <1>5, <1>9, <1>17, FlowAccepts
<1>11. ReleasedApart'
  BY <1>8, <1>17, ReleasesNothing
<1>12. SlotsEnd'
  BY DEF SlotsEnd, RecTypes
<1>13. Links' /\ Foreign'
  BY DEF Conn, Links, Foreign
<1>14. Routed'
  <2>1. \A i \in DOMAIN inq' : inq'[i].op = "message" => Route(inq'[i].s, inq'[i].msg, link, dropped)
    BY <1>1 DEF Conn, Routed
  <2>2. \A l \in Slots : \A i \in DOMAIN slotw'[l] : Route(slotw'[l][i].s, slotw'[l][i].req, link, dropped)
    BY <1>2, <1>4, <1>5 DEF Conn, Routed
  <2>3. QED
    BY <2>1, <2>2, RoutedNext DEF Conn, Routed
<1>15. Tasked'
  <2>1. SUFFICES ASSUME NoneDropped
                 PROVE  /\ \A i \in DOMAIN inq' : inq'[i].op # "close"
                        /\ \A l \in Slots : \A i \in DOMAIN slotw'[l] : slotw'[l][i].s \in tasks
                        /\ \A l \in Slots : \A i \in DOMAIN slotr[l] : slotr[l][i].s \in tasks
    BY DEF Tasked, NoneDropped
  <2>2. QED
    BY <1>1, <1>4, <1>5, <2>1 DEF Conn, Tasked
<1>16. QED
  BY <1>7, <1>9, <1>10, <1>11, <1>12, <1>13, <1>14, <1>15, <1>17, <1>18 DEF Conn

(* A slot's list without its first.                                        *)
LEMMA EntriesTail ==
  ASSUME NEW q \in Seq(Entry), q # <<>>
  PROVE  /\ Tail(q) \in Seq(Entry) /\ Head(q) \in Entry /\ Head(q).s \in Sockets /\ Head(q).req \in Call
         /\ 1 \in DOMAIN q /\ Head(q) = q[1]
         /\ \A i \in DOMAIN Tail(q) : \E j \in DOMAIN q : Tail(q)[i] = q[j]
         /\ Sub(Reqs(Tail(q)), Reqs(q)) /\ Head(q).req \in Vals(Reqs(q))
         /\ Rising(Reqs(q)) => Precedes(Head(q).req, Reqs(Tail(q)))
         /\ Vals(Reqs(q)) = Vals(Reqs(Tail(q))) \cup {Head(q).req}
<1>1. /\ Tail(q) \in Seq(Entry) /\ Head(q) \in Entry /\ 1 \in DOMAIN q /\ Head(q) = q[1]
      /\ \A i \in DOMAIN Tail(q) : i + 1 \in DOMAIN q /\ Tail(q)[i] = q[i + 1]
  BY QueueTail
<1>2. Head(q).s \in Sockets /\ Head(q).req \in Call
  BY <1>1 DEF Entry
<1>3. /\ Sub(Reqs(Tail(q)), Reqs(q)) /\ Head(q).req \in Vals(Reqs(q))
      /\ Rising(Reqs(q)) => Precedes(Head(q).req, Reqs(Tail(q)))
  BY ReqsTail
<1>4. Vals(Reqs(q)) = Vals(Reqs(Tail(q))) \cup {Head(q).req}
  BY <1>3, TailVals
<1>5. QED
  BY <1>1, <1>2, <1>3, <1>4

LEMMA RecExecute ==
  ASSUME RecInv, NEW k \in Slots, Execute(k)
  PROVE  RecInv'
<1> USE DEF RecInv
<1> PICK e, x : e = Head(slotw[k]) /\ x = e.req
  OBVIOUS
<1>1. /\ slotpc[k] # "exit" /\ slotw[k] # <<>> /\ slotw' = [slotw EXCEPT ![k] = Tail(@)]
      /\ slotr' = IF x.kind = "select" THEN slotr ELSE [slotr EXCEPT ![k] = Append(@, e)]
      /\ released' = Append(released, x)
      /\ UNCHANGED <<link, state, up, down, unsent, callbacks, calls, asked, handled, inq, tasks, slotpc, main, dropped>>
  BY DEF Execute, clientVars, queueVars
<1>2. slotw[k] \in Seq(Entry) /\ slotr[k] \in Seq(Entry)
  BY DEF RecTypes
<1>3. /\ Tail(slotw[k]) \in Seq(Entry) /\ e \in Entry /\ e.s \in Sockets /\ x \in Call
      /\ 1 \in DOMAIN slotw[k] /\ e = slotw[k][1]
      /\ \A i \in DOMAIN Tail(slotw[k]) : \E j \in DOMAIN slotw[k] : Tail(slotw[k])[i] = slotw[k][j]
      /\ Sub(Reqs(Tail(slotw[k])), Reqs(slotw[k])) /\ x \in Vals(Reqs(slotw[k]))
      /\ Rising(Reqs(slotw[k])) => Precedes(x, Reqs(Tail(slotw[k])))
      /\ Vals(Reqs(slotw[k])) = Vals(Reqs(Tail(slotw[k]))) \cup {x}
  BY <1>1, <1>2, EntriesTail
<1>4. x \in Sent /\ SlotOf(x) = k /\ x.client \in Clients /\ x = e.req
  BY <1>3 DEF Flow, InAsked, Call
<1>5. Precedes(x, Reqs(Tail(slotw[k]))) /\ Ahead(Reqs(slotw[k]), Msgs(inq))
  BY <1>3, <1>4, ChainFacts
<1>6. /\ slotw'[k] = Tail(slotw[k]) /\ \A l \in Slots : l # k => slotw'[l] = slotw[l] /\ slotr'[l] = slotr[l]
      /\ slotr'[k] = IF x.kind = "select" THEN slotr[k] ELSE Append(slotr[k], e)
  BY <1>1 DEF RecTypes
<1>7. /\ slotr'[k] \in Seq(Entry)
      /\ \A i \in DOMAIN slotr'[k] : (i \in DOMAIN slotr[k] /\ slotr'[k][i] = slotr[k][i]) \/ slotr'[k][i] = e
      /\ Grown(Reqs(slotr'[k]), Reqs(slotr[k]), x)
      /\ Vals(Reqs(slotr'[k])) \subseteq Vals(Reqs(slotr[k])) \cup {x}
      /\ Vals(Reqs(slotr[k])) \subseteq Vals(Reqs(slotr'[k]))
      /\ x.kind # "select" => x \in Vals(Reqs(slotr'[k]))
  <2>1. CASE x.kind = "select"
    <3>1. Grown(Reqs(slotr[k]), Reqs(slotr[k]), x)
      BY DEF Grown
    <3>2. QED
      BY <1>2, <1>6, <2>1, <3>1
  <2>2. CASE x.kind # "select"
    <3>1. slotr'[k] = Append(slotr[k], e)
      BY <1>6, <2>2
    <3>2. /\ slotr'[k] \in Seq(Entry)
          /\ \A i \in DOMAIN slotr'[k] : (i \in DOMAIN slotr[k] /\ slotr'[k][i] = slotr[k][i]) \/ slotr'[k][i] = e
      BY <1>2, <1>3, <3>1, QueueAppend
    <3>3. /\ Grown(Reqs(slotr'[k]), Reqs(slotr[k]), x)
          /\ x \in Vals(Reqs(slotr'[k])) /\ Vals(Reqs(slotr[k])) \subseteq Vals(Reqs(slotr'[k]))
      BY <1>2, <1>3, <1>4, <3>1, ReqsAppend
    <3>4. Vals(Reqs(slotr'[k])) \subseteq Vals(Reqs(slotr[k])) \cup {x}
      BY <3>3, SubVals
    <3>5. QED
      BY <3>2, <3>3, <3>4
  <2>3. QED
    BY <2>1, <2>2
<1>8. RecTypes'
  <2>1. slotw' \in [Slots -> Seq(Entry)] /\ released' \in Seq(Call)
    BY <1>1, <1>3 DEF RecTypes
  <2>2. slotr' \in [Slots -> Seq(Entry)]
    <3>1. slotr' = slotr \/ slotr' = [slotr EXCEPT ![k] = slotr'[k]]
      BY <1>1, <1>6 DEF RecTypes
    <3>2. QED
      BY <1>7, <3>1 DEF RecTypes
  <2>3. QED
    BY <1>1, <2>1, <2>2 DEF RecTypes
<1>9. AskedInOrder'
  BY <1>1 DEF Flow, AskedInOrder
<1>10. ASSUME NEW l \in Slots, NEW i \in DOMAIN slotw'[l] PROVE \E j \in DOMAIN slotw[l] : slotw'[l][i] = slotw[l][j]
  <2>1. CASE l = k
    BY <1>3, <1>6, <2>1
  <2>2. CASE l # k
    BY <1>6, <2>2
  <2>3. QED
    BY <2>1, <2>2
<1>20. Queued' /\ Sent' = Sent /\ Introduced'
  BY <1>1, QueuedKept, IntroducedKept
<1>11. Flow'
  BY <1>1, <1>3, <1>5, <1>6, <1>7, <1>9, <1>20, FlowExecutes
<1>12. ReleasedApart'
  <2>1. x \notin Vals(Msgs(inq))
    <3>1. Vals(Reqs(slotw[k])) \subseteq Call
      BY AskedCalls DEF Flow, InAsked
    <3>2. Apart(Reqs(slotw[k]), Msgs(inq))
      BY <1>5, <3>1, AheadApart
    <3>3. QED
      BY <1>3, <3>2 DEF Apart, Vals
  <2>2. \A l \in Slots : x \notin Vals(Reqs(slotw'[l]))
    <3>1. x \notin Vals(Reqs(slotw'[k]))
      BY <1>3, <1>5, <1>6, NotIn
    <3>2. QED
      BY <1>4, <1>6, <3>1 DEF Flow, InAsked
  <2>3. ~Pending(x)' /\ Pending(x)
    BY <1>1, <1>3, <2>1, <2>2, PendingNext DEF Pending
  <2>4. \A r \in Sent : Pending(r)' => Pending(r)
    BY <1>1, <1>3, <1>6, PendingNext DEF Pending
  <2>5. QED
    BY <1>1, <1>3, <1>4, <1>20, <2>3, <2>4, ReleasesOne
<1>13. \A r \in asked : r.kind \in CallbackKinds => (UnderWay(r)' <=> UnderWay(r))
  <2>1. ASSUME NEW r \in asked, r.kind \in CallbackKinds
        PROVE  (\E l \in Slots : r \in Vals(Reqs(slotw'[l])) \/ r \in Vals(Reqs(slotr'[l])))
                 <=> \E l \in Slots : r \in Vals(Reqs(slotw[l])) \/ r \in Vals(Reqs(slotr[l]))
    <3>1. r = x => x \in Vals(Reqs(slotr'[k]))
      BY <1>7, <2>1 DEF CallbackKinds
    <3>2. QED
      BY <1>3, <1>6, <1>7, <3>1
  <2>2. QED
    BY <1>1, <2>1, UnderWayNext DEF UnderWay
<1>14. Waiting' /\ Awaited' /\ CallbackGetsItsAnswer'
  BY <1>1, <1>13, ProgramsWait DEF clientVars, NoneDropped
<1>15. SlotsEnd'
  BY <1>1, <1>6 DEF SlotsEnd
<1>16. Links' /\ Foreign'
  BY <1>1 DEF Conn, Links, Foreign
<1>17. Routed'
  <2>1. ASSUME NEW l \in Slots, NEW i \in DOMAIN slotw'[l] PROVE Route(slotw'[l][i].s, slotw'[l][i].req, link, dropped)
    <3>1. PICK j \in DOMAIN slotw[l] : slotw'[l][i] = slotw[l][j]
      BY <1>10
    <3>2. QED
      BY <3>1 DEF Conn, Routed
  <2>2. ASSUME NEW l \in Slots, NEW i \in DOMAIN slotr'[l] PROVE Route(slotr'[l][i].s, slotr'[l][i].req, link, dropped)
    <3>1. Route(e.s, e.req, link, dropped)
      BY <1>3 DEF Conn, Routed
    <3>2. (i \in DOMAIN slotr[l] /\ slotr'[l][i] = slotr[l][i]) \/ slotr'[l][i] = e
      BY <1>6, <1>7
    <3>3. QED
      BY <3>1, <3>2 DEF Conn, Routed
  <2>3. QED
    BY <1>1, <2>1, <2>2, RoutedNext DEF Conn, Routed
<1>18. Tasked'
  <2>1. SUFFICES ASSUME NoneDropped
                 PROVE  /\ \A i \in DOMAIN inq : inq[i].op # "close"
                        /\ \A l \in Slots : \A i \in DOMAIN slotw'[l] : slotw'[l][i].s \in tasks
                        /\ \A l \in Slots : \A i \in DOMAIN slotr'[l] : slotr'[l][i].s \in tasks
    BY <1>1 DEF Tasked, NoneDropped
  <2>2. QED
    <3>1. /\ \A i \in DOMAIN inq : inq[i].op # "close"
          /\ \A l \in Slots : \A i \in DOMAIN slotw[l] : slotw[l][i].s \in tasks
          /\ \A l \in Slots : \A i \in DOMAIN slotr[l] : slotr[l][i].s \in tasks
      BY <2>1 DEF Conn, Tasked
    <3>2. ASSUME NEW l \in Slots, NEW i \in DOMAIN slotw'[l] PROVE slotw'[l][i].s \in tasks
      <4>1. PICK j \in DOMAIN slotw[l] : slotw'[l][i] = slotw[l][j]
        BY <1>10
      <4>2. QED
        BY <3>1, <4>1
    <3>3. ASSUME NEW l \in Slots, NEW i \in DOMAIN slotr'[l] PROVE slotr'[l][i].s \in tasks
      <4>1. (i \in DOMAIN slotr[l] /\ slotr'[l][i] = slotr[l][i]) \/ slotr'[l][i] = e
        BY <1>6, <1>7
      <4>2. QED
        BY <1>3, <3>1, <4>1
    <3>4. QED
      BY <3>1, <3>2, <3>3
<1>19. QED
  BY <1>8, <1>11, <1>12, <1>14, <1>15, <1>16, <1>17, <1>18, <1>20 DEF Conn

LEMMA RecManagerUpdate ==
  ASSUME RecInv, NEW k \in Slots, ManagerUpdate(k)
  PROVE  RecInv'
<1> USE DEF RecInv
<1> PICK e, x : e = Head(slotr[k]) /\ x = e.req
  OBVIOUS
<1>1. /\ slotr[k] # <<>> /\ slotr' = [slotr EXCEPT ![k] = Tail(@)]
      /\ down' = [c \in Clients |-> IF e.s \in tasks /\ link[c] = e.s
                                    THEN Append(down[c], [op |-> "message", msg |-> x]) ELSE down[c]]
      /\ unsent' = [c \in Clients |-> IF e.s \in tasks /\ link[c] = e.s THEN unsent[c] + 1 ELSE unsent[c]]
      /\ UNCHANGED <<link, state, up, callbacks, calls, asked, handled, inq, tasks, slotw, slotpc, main, released, dropped>>
  BY DEF ManagerUpdate, Answer, clientVars
<1>2. slotr[k] \in Seq(Entry)
  BY DEF RecTypes
<1>3. /\ Tail(slotr[k]) \in Seq(Entry) /\ e.s \in Sockets /\ x \in Call
      /\ 1 \in DOMAIN slotr[k] /\ e = slotr[k][1]
      /\ \A i \in DOMAIN Tail(slotr[k]) : \E j \in DOMAIN slotr[k] : Tail(slotr[k])[i] = slotr[k][j]
      /\ Sub(Reqs(Tail(slotr[k])), Reqs(slotr[k])) /\ x \in Vals(Reqs(slotr[k]))
      /\ Rising(Reqs(slotr[k])) => Precedes(x, Reqs(Tail(slotr[k])))
      /\ Vals(Reqs(slotr[k])) = Vals(Reqs(Tail(slotr[k]))) \cup {x}
  BY <1>1, <1>2, EntriesTail
<1>4. x \in Sent /\ x.client \in Clients /\ dropped[x.client] \in Nat /\ e.s # NoSocket
  <2>1. x \in Sent /\ x.client \in Clients
    BY <1>3 DEF Flow, InAsked, Call
  <2>2. QED
    BY <1>3, <2>1, RecordSystemAssumption DEF RecTypes, NoSocket
<1>5. Precedes(x, Reqs(Tail(slotr[k])))
  BY <1>3, <1>4, ChainFacts
<1>6. slotr'[k] = Tail(slotr[k]) /\ \A l \in Slots : l # k => slotr'[l] = slotr[l]
  BY <1>1 DEF RecTypes
<1>7. dropped[x.client] = 0 => link[x.client] = e.s
  BY <1>3 DEF Conn, Routed, Route
<1>8. NoneDropped => e.s \in tasks /\ link[x.client] = e.s
  BY <1>3, <1>4, <1>7 DEF Conn, Tasked, NoneDropped
<1> DEFINE m == [op |-> "message", msg |-> x]
<1>9. m \in Down /\ m.op = "message" /\ m.msg = x
  BY <1>3 DEF Down
<1> HIDE DEF m
<1>10. ASSUME NEW c \in Clients
       PROVE  \/ down'[c] = down[c] /\ ~(e.s \in tasks /\ link[c] = e.s)
              \/ /\ link[c] = e.s /\ e.s \in tasks
                 /\ down'[c] \in Seq(Down) /\ Grown(Msgs(down'[c]), Msgs(down[c]), x)
                 /\ \A i \in DOMAIN down'[c] :
                      (i \in DOMAIN down[c] /\ down'[c][i] = down[c][i]) \/ down'[c][i] = m
                 /\ Vals(Msgs(down'[c])) = Vals(Msgs(down[c])) \cup {x}
  <2>1. CASE ~(e.s \in tasks /\ link[c] = e.s)
    BY <1>1, <2>1
  <2>2. CASE e.s \in tasks /\ link[c] = e.s
    <3>1. down[c] \in Seq(Down) /\ down'[c] = Append(down[c], m)
      BY <1>1, <2>2 DEF RecTypes, m
    <3>2. /\ down'[c] \in Seq(Down)
          /\ \A i \in DOMAIN down'[c] : (i \in DOMAIN down[c] /\ down'[c][i] = down[c][i]) \/ down'[c][i] = m
      BY <1>9, <3>1, QueueAppend
    <3>3. /\ Grown(Msgs(down'[c]), Msgs(down[c]), x) /\ x \in Vals(Msgs(down'[c]))
          /\ Vals(Msgs(down[c])) \subseteq Vals(Msgs(down'[c]))
      BY <1>9, <3>1, MsgsAppend
    <3>4. Vals(Msgs(down'[c])) \subseteq Vals(Msgs(down[c])) \cup {x}
      BY <3>3, SubVals
    <3>5. QED
      BY <2>2, <3>2, <3>3, <3>4
  <2>3. QED
    BY <2>1, <2>2
<1>11. RecTypes'
  <2>1. slotr' \in [Slots -> Seq(Entry)]
    BY <1>1, <1>3 DEF RecTypes
  <2>2. \A c \in Clients : down'[c] \in Seq(Down)
    BY <1>10 DEF RecTypes
  <2>3. down' \in [Clients -> Seq(Down)] /\ unsent' \in [Clients -> Nat]
    BY <1>1, <2>2 DEF RecTypes
  <2>4. QED
    BY <1>1, <2>1, <2>3 DEF RecTypes
<1>12. AskedInOrder'
  BY <1>1 DEF Flow, AskedInOrder
<1>13. \A c, d \in Clients : link[c] = e.s /\ link[d] = e.s => c = d
  BY <1>4 DEF Conn, Links
<1>23. Queued' /\ Sent' = Sent /\ Introduced'
  BY <1>1, QueuedKept, IntroducedKept
<1>14. Flow'
  <2>1. CASE \A c \in Clients : down'[c] = down[c]
    <3>1. \A l \in Slots : Sub(Reqs(slotw'[l]), Reqs(slotw[l])) /\ Sub(Reqs(slotr'[l]), Reqs(slotr[l]))
      BY <1>1, <1>3, <1>6, SubSame
    <3>2. QED
      BY <1>1, <1>12, <1>23, <2>1, <3>1, FlowShrinks, SubSame
  <2>2. CASE ~(\A c \in Clients : down'[c] = down[c])
    <3>1. PICK d \in Clients : down'[d] # down[d]
      BY <2>2
    <3>2. Grown(Msgs(down'[d]), Msgs(down[d]), x) /\ \A c \in Clients : c # d => down'[c] = down[c]
      BY <1>10, <1>13, <3>1
    <3>3. QED
      BY <1>1, <1>3, <1>5, <1>6, <1>12, <1>23, <3>2, FlowAnswers
  <2>3. QED
    BY <2>1, <2>2
<1>15. ReleasedApart' /\ SlotsEnd'
  <2>1. \A r : Pending(r)' => Pending(r)
    BY <1>1, PendingNext DEF Pending
  <2>2. QED
    BY <1>1, <1>23, <2>1, ReleasesNothing DEF SlotsEnd
<1>16. Waiting' /\ Awaited' /\ CallbackGetsItsAnswer'
  <2>1. ASSUME NoneDropped, NEW r \in asked PROVE UnderWay(r)' <=> UnderWay(r)
    <3>1. r.client \in Clients
      BY AskedCalls DEF Call
    <3>2. CASE r = x
      <4>1. x \in Vals(Msgs(down'[x.client]))
        BY <1>4, <1>8, <1>10, <2>1
      <4>2. QED
        BY <1>3, <3>2, <4>1, UnderWayNext DEF UnderWay
    <3>3. CASE r # x
      <4>1. r \in Vals(Msgs(down'[r.client])) <=> r \in Vals(Msgs(down[r.client]))
        BY <1>10, <3>1, <3>3
      <4>2. \A l \in Slots : r \in Vals(Reqs(slotr'[l])) <=> r \in Vals(Reqs(slotr[l]))
        BY <1>3, <1>6, <3>3
      <4>3. QED
        BY <1>1, <4>1, <4>2, UnderWayNext DEF UnderWay
    <3>4. QED
      BY <3>2, <3>3
  <2>2. QED
    BY <1>1, <2>1, ProgramsWait DEF clientVars, NoneDropped
<1>17. Links'
  <2>1. \A c \in Clients : \A i \in DOMAIN down'[c] : down'[c][i].op = "close" => dropped[c] > 0
    BY <1>9, <1>10 DEF Conn, Links
  <2>2. QED
    BY <1>1, <2>1 DEF Conn, Links
<1>18. Foreign'
  <2>1. SUFFICES ASSUME NEW c \in Clients, NEW r \in Vals(Msgs(down'[c])) \cup Vals(Resps(handled[c])), r.client # c
                 PROVE  dropped[r.client] > 0
    BY <1>1 DEF Foreign
  <2>2. CASE r \in Vals(Msgs(down[c])) \cup Vals(Resps(handled[c]))
    BY <2>1, <2>2 DEF Conn, Foreign
  <2>3. CASE r = x /\ link[c] = e.s
    BY <1>4, <1>7, <1>13, <2>1, <2>3
  <2>4. QED
    BY <1>10, <2>2, <2>3
<1>19. ASSUME NEW l \in Slots, NEW i \in DOMAIN slotr'[l] PROVE \E j \in DOMAIN slotr[l] : slotr'[l][i] = slotr[l][j]
  <2>1. CASE l = k
    BY <1>3, <1>6, <2>1
  <2>2. CASE l # k
    BY <1>6, <2>2
  <2>3. QED
    BY <2>1, <2>2
<1>20. Routed'
  <2>1. ASSUME NEW l \in Slots, NEW i \in DOMAIN slotr'[l] PROVE Route(slotr'[l][i].s, slotr'[l][i].req, link, dropped)
    <3>1. PICK j \in DOMAIN slotr[l] : slotr'[l][i] = slotr[l][j]
      BY <1>19
    <3>2. QED
      BY <3>1 DEF Conn, Routed
  <2>2. QED
    BY <1>1, <2>1, RoutedNext DEF Conn, Routed
<1>21. Tasked'
  <2>1. SUFFICES ASSUME NoneDropped
                 PROVE  /\ \A i \in DOMAIN inq : inq[i].op # "close"
                        /\ \A l \in Slots : \A i \in DOMAIN slotw[l] : slotw[l][i].s \in tasks
                        /\ \A l \in Slots : \A i \in DOMAIN slotr'[l] : slotr'[l][i].s \in tasks
    BY <1>1 DEF Tasked, NoneDropped
  <2>2. /\ \A i \in DOMAIN inq : inq[i].op # "close"
        /\ \A l \in Slots : \A i \in DOMAIN slotw[l] : slotw[l][i].s \in tasks
        /\ \A l \in Slots : \A i \in DOMAIN slotr[l] : slotr[l][i].s \in tasks
    BY <2>1 DEF Conn, Tasked
  <2>3. ASSUME NEW l \in Slots, NEW i \in DOMAIN slotr'[l] PROVE slotr'[l][i].s \in tasks
    <3>1. PICK j \in DOMAIN slotr[l] : slotr'[l][i] = slotr[l][j]
      BY <1>19
    <3>2. QED
      BY <2>2, <3>1
  <2>4. QED
    BY <2>2, <2>3
<1>22. QED
  BY <1>11, <1>14, <1>15, <1>16, <1>17, <1>18, <1>20, <1>21, <1>23 DEF Conn

(* What RecordService::stop releases: every request not looked at, once.   *)
LEMMA StopReleases ==
  ASSUME RecInv, NEW g, g = [i \in DOMAIN InqRequests |-> InqRequests[i].msg]
  PROVE  /\ g \in Seq(Call) /\ \A i \in DOMAIN g : g[i] \in Vals(Msgs(inq))
         /\ \A i, j \in DOMAIN g : g[i] = g[j] => i = j
<1> USE DEF RecInv
<1> DEFINE K == {i \in DOMAIN inq : inq[i].op = "message"}
<1>1. inq \in Seq(Up) /\ DOMAIN inq \subseteq Nat
  BY DEF RecTypes
<1>2. PICK p : p = InqRequests
  OBVIOUS
<1>3. p \in Seq(Up) /\ From(p, inq, K)
  BY <1>1, <1>2, KeepFrom DEF InqRequests
<1>4. g = [i \in DOMAIN p |-> p[i].msg] /\ DOMAIN g = DOMAIN p
  BY <1>2
<1>5. Rising(Msgs(inq)) /\ Vals(Msgs(inq)) \subseteq Call /\ Vals(Msgs(inq)) \subseteq asked
  BY AskedCalls DEF Flow, InAsked
<1>6. DOMAIN Msgs(inq) = K /\ \A i \in K : Msgs(inq)[i] = inq[i].msg
  BY DEF Msgs
<1> HIDE DEF K
<1>7. ASSUME NEW i \in DOMAIN g, NEW j \in DOMAIN g
      PROVE  \E b, d \in DOMAIN Msgs(inq) : Msgs(inq)[b] = g[i] /\ Msgs(inq)[d] = g[j] /\ (i < j => b < d)
  <2>1. PICK b, d \in DOMAIN inq : b \in K /\ d \in K /\ inq[b] = p[i] /\ inq[d] = p[j] /\ (i < j => b < d)
    BY <1>3, <1>4 DEF From
  <2>2. Msgs(inq)[b] = g[i] /\ Msgs(inq)[d] = g[j]
    BY <1>4, <1>6, <2>1
  <2>3. QED
    BY <1>6, <2>1, <2>2
<1>8. \A i \in DOMAIN g : g[i] \in Vals(Msgs(inq))
  BY <1>7 DEF Vals
<1>9. g \in Seq(Call)
  <2>1. \A i \in DOMAIN g : g[i] \in Call
    BY <1>5, <1>8
  <2>2. Len(p) \in Nat /\ DOMAIN p = 1 .. Len(p)
    BY <1>3
  <2>3. QED
    BY <1>4, <2>1, <2>2
<1>10. \A b, d \in DOMAIN Msgs(inq) : Msgs(inq)[b] = Msgs(inq)[d] => b = d
  <2>1. DOMAIN Msgs(inq) \subseteq Nat
    BY <1>1 DEF Msgs
  <2>2. QED
    BY <1>5, <2>1, RisingOnce
<1>11. \A i, j \in DOMAIN g : i < j => g[i] # g[j]
  <2>1. SUFFICES ASSUME NEW i \in DOMAIN g, NEW j \in DOMAIN g, i < j, g[i] = g[j] PROVE FALSE
    OBVIOUS
  <2>2. PICK b, d \in DOMAIN Msgs(inq) : Msgs(inq)[b] = g[i] /\ Msgs(inq)[d] = g[j] /\ b < d
    BY <1>7, <2>1
  <2>3. b = d /\ b \in Nat
    BY <1>1, <1>10, <2>1, <2>2 DEF Msgs
  <2>4. QED
    BY <2>2, <2>3
<1>12. \A i, j \in DOMAIN g : i < j \/ j < i \/ i = j
  BY <1>9
<1>13. QED
  BY <1>8, <1>9, <1>11, <1>12

LEMMA RecServiceStop ==
  ASSUME RecInv, ServiceStop
  PROVE  RecInv'
<1> USE DEF RecInv
<1> PICK g : g = [i \in DOMAIN InqRequests |-> InqRequests[i].msg]
  OBVIOUS
<1>1. /\ main = "service" /\ main' = "manager" /\ tasks' = {} /\ inq' = <<>> /\ released' = released \o g
      /\ link' = [c \in Clients |-> NoSocket]
      /\ state' = [c \in Clients |-> IF link[c] = NoSocket THEN state[c] ELSE "lost"]
      /\ up' = [c \in Clients |-> <<>>] /\ unsent' = [c \in Clients |-> 0]
      /\ down' = [c \in Clients |-> IF link[c] = NoSocket THEN down[c]
                                    ELSE Append(SubSeq(down[c], 1, Len(down[c]) - unsent[c]), CLOSE)]
      /\ dropped' = [c \in Clients |-> IF link[c] = NoSocket THEN dropped[c] ELSE dropped[c] + 1]
      /\ UNCHANGED <<callbacks, calls, asked, handled, slotw, slotr, slotpc>>
  BY DEF ServiceStop, clientVars
<1>2. /\ g \in Seq(Call) /\ \A i \in DOMAIN g : g[i] \in Vals(Msgs(inq))
      /\ \A i, j \in DOMAIN g : g[i] = g[j] => i = j
  BY StopReleases
<1>3. DOMAIN Msgs(inq') = {} /\ Vals(Msgs(inq')) = {} /\ Taken(inq', inq) /\ Sub(Msgs(inq'), Msgs(inq))
  BY <1>1 DEF Msgs, Vals, Taken, Sub
<1>4. ASSUME NEW c \in Clients
      PROVE  /\ Ended(c) /\ Sub(Msgs(down'[c]), Msgs(down[c])) /\ down'[c] \in Seq(Down) /\ dropped'[c] \in Nat
             /\ link'[c] = NoSocket /\ (dropped[c] > 0 => dropped'[c] > 0)
             /\ link[c] # NoSocket => dropped'[c] > 0
             /\ link[c] = NoSocket => /\ down'[c] = down[c] /\ state'[c] = state[c] /\ dropped'[c] = dropped[c]
                                      /\ up'[c] = up[c]
  <2>1. dropped[c] \in Nat /\ down[c] \in Seq(Down) /\ CLOSE \in Down /\ CLOSE.op # "message"
    BY DEF RecTypes, Down, CLOSE
  <2> DEFINE p == SubSeq(down[c], 1, Len(down[c]) - unsent[c])
  <2>2. Append(p, CLOSE) \in Seq(Down) /\ Sub(Msgs(Append(p, CLOSE)), Msgs(down[c]))
    <3>1. Len(down[c]) - unsent[c] \in Int /\ Len(down[c]) - unsent[c] <= Len(down[c])
      BY <2>1 DEF RecTypes
    <3>2. p \in Seq(Down) /\ DOMAIN p \subseteq DOMAIN down[c] /\ \A i \in DOMAIN p : p[i] = down[c][i]
      BY <2>1, <3>1, QueuePrefix
    <3> HIDE DEF p
    <3>3. \A i \in DOMAIN Msgs(p) : i \in DOMAIN Msgs(down[c]) /\ Msgs(down[c])[i] = Msgs(p)[i]
      BY <3>2 DEF Msgs
    <3>4. Sub(Msgs(p), Msgs(down[c]))
      BY <3>3 DEF Sub
    <3>5. Append(p, CLOSE) \in Seq(Down) /\ Sub(Msgs(Append(p, CLOSE)), Msgs(p))
      BY <2>1, <3>2, MsgsAppend
    <3>6. QED
      BY <3>4, <3>5, SubTrans
  <2>6. link[c] = NoSocket => up[c] = <<>>
    BY DEF Queued
  <2>3. CASE link[c] = NoSocket
    BY <1>1, <2>1, <2>3, <2>6, SubSame DEF Ended
  <2>4. CASE link[c] # NoSocket
    BY <1>1, <2>1, <2>2, <2>4, SubVals DEF Ended
  <2>5. QED
    BY <2>3, <2>4
<1>5. RecTypes'
  <2>1. released' \in Seq(Call)
    BY <1>1, <1>2 DEF RecTypes
  <2>2. /\ down' \in [Clients -> Seq(Down)] /\ dropped' \in [Clients -> Nat]
        /\ up' \in [Clients -> Seq(Call)] /\ unsent' \in [Clients -> Nat]
    BY <1>1, <1>4
  <2>3. /\ link' \in [Clients -> Sockets \cup {NoSocket}]
        /\ state' \in [Clients -> {"new", "up", "lost", "retry", "stopped"}]
    BY <1>1 DEF RecTypes
  <2>4. QED
    BY <1>1, <2>1, <2>2, <2>3 DEF RecTypes
<1>6. ASSUME NoneDropped'
      PROVE  /\ NoneDropped /\ Vals(Msgs(inq)) = {} /\ \A c \in Clients : link[c] = NoSocket
             /\ \A k \in Slots : DOMAIN slotw[k] = {} /\ DOMAIN slotr[k] = {}
  <2>1. NoneDropped /\ \A c \in Clients : link[c] = NoSocket
    BY <1>4, <1>6 DEF NoneDropped
  <2>2. \A s \in Sockets : \A r \in Call : ~Route(s, r, link, dropped)
    <3>1. \A s \in Sockets : s # NoSocket
      BY RecordSystemAssumption DEF NoSocket
    <3>2. \A r \in Call : r.client \in Clients
      BY DEF Call
    <3>3. QED
      BY <2>1, <3>1, <3>2 DEF NoneDropped, Route
  <2>3. ASSUME NEW i \in DOMAIN inq PROVE inq[i].op # "message"
    <3>1. inq[i] \in Up
      BY DEF RecTypes
    <3>2. inq[i].op = "message" => inq[i].s \in Sockets /\ inq[i].msg \in Call
      BY <3>1 DEF Up
    <3>3. QED
      BY <2>2, <3>2 DEF Conn, Routed
  <2>4. ASSUME NEW q \in Seq(Entry), NEW i \in DOMAIN q PROVE q[i].s \in Sockets /\ q[i].req \in Call
    <3>1. q[i] \in Entry
      OBVIOUS
    <3>2. QED
      BY <3>1 DEF Entry
  <2>5. ASSUME NEW k \in Slots PROVE DOMAIN slotw[k] = {} /\ DOMAIN slotr[k] = {}
    <3>1. slotw[k] \in Seq(Entry) /\ slotr[k] \in Seq(Entry)
      BY DEF RecTypes
    <3>2. QED
      BY <2>2, <2>4, <3>1 DEF Conn, Routed
  <2>6. QED
    BY <2>1, <2>3, <2>5 DEF Vals, Msgs
<1>7. AskedInOrder' /\ Waiting' /\ Awaited' /\ CallbackGetsItsAnswer'
  <2>1. ASSUME NoneDropped', NEW r \in asked PROVE UnderWay(r)' <=> UnderWay(r)
    <3>1. r.client \in Clients
      BY AskedCalls DEF Call
    <3>2. down'[r.client] = down[r.client] /\ up'[r.client] = up[r.client] /\ Vals(Msgs(inq)) = {}
      BY <1>4, <1>6, <2>1, <3>1
    <3>3. QED
      BY <1>1, <1>3, <3>2, UnderWayNext DEF UnderWay
  <2>2. QED
    BY <1>1, <1>6, <2>1, ProgramsWait DEF clientVars
<1>13. Queued' /\ Sent \subseteq Sent'
  BY <1>1, <1>4, QueuedEnds
<1>14. Introduced'
  BY <1>1, <1>4 DEF Introduced
<1>8. Flow'
  BY <1>1, <1>3, <1>4, <1>7, <1>13, FlowShrinks, SubSame
<1>9. ReleasedApart'
  <2>1. released \in Seq(Call)
    BY DEF RecTypes
  <2>2. ASSUME NEW i \in DOMAIN released'
        PROVE  \/ i \in DOMAIN released /\ released'[i] = released[i]
               \/ i - Len(released) \in DOMAIN g /\ released'[i] = g[i - Len(released)] /\ i \in Nat
    BY <1>1, <1>2, <2>1
  <2>3. \A i \in DOMAIN g : g[i] \in Sent /\ Pending(g[i]) /\ \A k \in Slots : g[i] \notin Vals(Reqs(slotw[k]))
    <3>1. ASSUME NEW r \in Vals(Msgs(inq)), NEW k \in Slots PROVE r \notin Vals(Reqs(slotw[k]))
      <4>1. r \in Call /\ Vals(Reqs(slotw[k])) \subseteq Call
        BY AskedCalls DEF Flow, InAsked
      <4>2. r.client \in Clients
        BY <4>1 DEF Call
      <4>3. Apart(Reqs(slotw[k]), Msgs(inq))
        BY <4>1, <4>2, ChainFacts, AheadApart
      <4>4. QED
        BY <4>3 DEF Apart, Vals
    <3>2. QED
      BY <1>2, <3>1 DEF Flow, InAsked, Pending
  <2>4. \A r : Pending(r)' <=> \E k \in Slots : r \in Vals(Reqs(slotw[k]))
    BY <1>1, <1>3, PendingNext
  <2>5. \A i \in DOMAIN released : \A j \in DOMAIN g : released[i] # g[j]
    BY <2>3 DEF ReleasedApart
  <2>6. \A i, j \in DOMAIN released' : released'[i] = released'[j] => i = j
    <3>1. Len(released) \in Nat
      BY <2>1
    <3>2. SUFFICES ASSUME NEW i \in DOMAIN released', NEW j \in DOMAIN released', released'[i] = released'[j]
                   PROVE  i = j
      OBVIOUS
    <3>3. CASE i \in DOMAIN released /\ released'[i] = released[i]
      BY <2>2, <2>5, <3>2, <3>3 DEF ReleasedApart
    <3>4. CASE i - Len(released) \in DOMAIN g /\ released'[i] = g[i - Len(released)] /\ i \in Nat
      <4>1. ~(j \in DOMAIN released /\ released'[j] = released[j])
        BY <2>5, <3>2, <3>4
      <4>2. j - Len(released) \in DOMAIN g /\ released'[j] = g[j - Len(released)] /\ j \in Nat
        BY <2>2, <4>1
      <4>3. i - Len(released) = j - Len(released)
        BY <1>2, <3>2, <3>4, <4>2
      <4>4. QED
        BY <3>1, <3>4, <4>2, <4>3
    <3>5. QED
      BY <2>2, <3>3, <3>4
  <2>7. ASSUME NEW i \in DOMAIN released', NEW y, y = released'[i] PROVE y \in Sent' /\ ~Pending(y)'
    <3>1. CASE i \in DOMAIN released /\ released'[i] = released[i]
      BY <1>1, <1>13, <2>4, <2>7, <3>1 DEF ReleasedApart, Pending
    <3>2. CASE i - Len(released) \in DOMAIN g /\ released'[i] = g[i - Len(released)]
      BY <1>1, <1>13, <2>3, <2>4, <2>7, <3>2
    <3>3. QED
      BY <2>2, <3>1, <3>2
  <2>8. QED
    BY <2>6, <2>7 DEF ReleasedApart
<1>10. SlotsEnd'
  BY <1>1 DEF SlotsEnd, RecTypes
<1>11. Conn'
  <2>1. CASE NoneDropped'
    <3>1. /\ Vals(Msgs(inq)) = {} /\ \A c \in Clients : link[c] = NoSocket
          /\ \A k \in Slots : DOMAIN slotw[k] = {} /\ DOMAIN slotr[k] = {}
      BY <1>6, <2>1
    <3>2. \A c \in Clients : link'[c] = link[c] /\ state'[c] = state[c] /\ down'[c] = down[c] /\ dropped'[c] = dropped[c]
      BY <1>4, <3>1
    <3>3. Links'
      BY <3>2 DEF Conn, Links
    <3>4. Foreign'
      <4>1. link' = link /\ dropped' = dropped /\ down' = down
        BY <1>5, <3>2 DEF RecTypes
      <4>2. QED
        BY <1>1, <4>1 DEF Conn, Foreign
    <3>5. Routed' /\ Tasked'
      BY <1>1, <3>1 DEF Routed, Tasked
    <3>6. QED
      BY <3>3, <3>4, <3>5 DEF Conn
  <2>2. CASE ~NoneDropped'
    <3>1. dropped' \in [Clients -> Nat]
      BY <1>5 DEF RecTypes
    <3>2. PICK d \in Clients : dropped'[d] # 0
      BY <2>2 DEF NoneDropped
    <3>3. dropped'[d] > 0
      BY <3>1, <3>2
    <3>4. QED
      BY <1>1, <1>3, <1>4, <3>1, <3>3, ConnectionsEnd
  <2>3. QED
    BY <2>1, <2>2
<1>12. QED
  BY <1>5, <1>7, <1>8, <1>9, <1>10, <1>11, <1>13, <1>14

(* Only main(), a slot's thread or a worker of the server goes on.         *)
LEMMA RecGoesOn ==
  ASSUME RecInv, RecTypes', SlotsEnd', UNCHANGED clientVars,
         UNCHANGED <<link, state, up, down, inq, tasks, slotw, slotr, released, dropped>>
  PROVE  RecInv'
<1> USE DEF RecInv
<1>1. \A r : (UnderWay(r)' <=> UnderWay(r)) /\ (Pending(r)' <=> Pending(r))
  BY NothingMoves
<1>2. AskedInOrder' /\ Waiting' /\ Awaited' /\ CallbackGetsItsAnswer'
  BY <1>1, ProgramsWait DEF NoneDropped
<1>7. Queued' /\ Sent' = Sent /\ Introduced'
  BY QueuedKept, IntroducedKept DEF clientVars
<1>3. Flow'
  BY <1>2, <1>7, FlowShrinks, SubSame DEF clientVars
<1>4. ReleasedApart'
  BY <1>1, <1>7, ReleasesNothing DEF clientVars
<1>5. Conn'
  BY DEF Conn, Links, Routed, Foreign, Tasked, NoneDropped, clientVars
<1>6. QED
  BY <1>2, <1>3, <1>4, <1>5, <1>7

LEMMA RecStopping ==
  ASSUME RecInv, Halt \/ ManagerStop \/ (\E k \in Slots : SlotStops(k)) \/ \E c \in Clients : ServerWorker(c)
  PROVE  RecInv'
<1> USE DEF RecInv
<1>1. CASE Halt
  <2>1. RecTypes' /\ SlotsEnd'
    BY <1>1 DEF Halt, RecTypes, SlotsEnd, clientVars, queueVars
  <2>2. QED
    BY <1>1, <2>1, RecGoesOn DEF Halt, queueVars
<1>2. CASE ManagerStop
  <2>1. RecTypes' /\ SlotsEnd'
    BY <1>2 DEF ManagerStop, RecTypes, SlotsEnd, clientVars, queueVars
  <2>2. QED
    BY <1>2, <2>1, RecGoesOn DEF ManagerStop, queueVars
<1>3. ASSUME NEW k \in Slots, SlotStops(k) PROVE RecInv'
  <2>1. RecTypes' /\ SlotsEnd'
    BY <1>3 DEF SlotStops, RecTypes, SlotsEnd, clientVars, queueVars
  <2>2. QED
    BY <1>3, <2>1, RecGoesOn DEF SlotStops, queueVars
<1>4. ASSUME NEW c \in Clients, ServerWorker(c) PROVE RecInv'
  <2>1. unsent' \in [Clients -> Nat]
    <3>1. unsent[c] \in Nat /\ unsent[c] > 0
      BY <1>4 DEF ServerWorker, RecTypes
    <3>2. unsent[c] - 1 \in Nat
      BY <3>1
    <3>3. QED
      BY <1>4, <3>2 DEF ServerWorker, RecTypes
  <2>2. RecTypes' /\ SlotsEnd'
    BY <1>4, <2>1 DEF ServerWorker, RecTypes, SlotsEnd, clientVars
  <2>3. QED
    BY <1>4, <2>2, RecGoesOn DEF ServerWorker
<1>5. QED
  BY <1>1, <1>2, <1>3, <1>4

LEMMA RecUpdate ==
  ASSUME RecInv, NEW c \in Clients, update(c)
  PROVE  RecInv'
<1>1. down[c] # <<>> /\ UNCHANGED <<calls, asked, tasks, slotw, slotr, slotpc, main, executed, released>>
  <2>1. unsent[c] \in Nat /\ Len(down[c]) > unsent[c] /\ down[c] \in Seq(Down)
    BY DEF update, RecInv, RecTypes
  <2>2. QED
    BY <2>1 DEF update
<1>2. CASE /\ Head(down[c]).op = "close"
           /\ state' = [state EXCEPT ![c] = "retry"] /\ down' = [down EXCEPT ![c] = Tail(@)]
           /\ UNCHANGED <<link, up, unsent, callbacks, handled, inq, dropped>>
  BY <1>1, <1>2, RecCloseRead
<1>3. CASE ClientStops(c) /\ UNCHANGED <<callbacks, handled>>
  BY <1>1, <1>3, RecStops
<1>4. CASE /\ Head(down[c]).op = "message" /\ Head(down[c]).msg.kind \in CallbackKinds
           /\ CalledBack(c, Head(down[c]).msg) /\ down' = [down EXCEPT ![c] = Tail(@)]
           /\ UNCHANGED <<link, state, up, unsent, inq, dropped>>
  <2>1. PICK x : x = Head(down[c]).msg
    OBVIOUS
  <2>2. First(c, x) /\ CalledBack(c, x)
    BY <1>1, <1>4, <2>1 DEF First
  <2>3. QED
    BY <1>1, <1>4, <2>2, RecReads
<1>5. QED
  BY <1>2, <1>3, <1>4 DEF update, CalledBack

LEMMA RecServiceUpdate ==
  ASSUME RecInv, ServiceUpdate
  PROVE  RecInv'
<1>1. /\ main = "run" /\ inq # <<>>
      /\ UNCHANGED <<callbacks, calls, asked, handled, slotr, slotpc, main>>
  BY DEF ServiceUpdate, clientVars
<1>2. CASE /\ Head(inq).op \in {"establish", "close"}
           /\ IF Head(inq).op = "establish" THEN spawnConnection(Head(inq).s) ELSE closeConnection(Head(inq).s)
           /\ inq' = Tail(inq) /\ UNCHANGED <<link, state, queueVars, dropped, slotw, released>>
  BY <1>1, <1>2, RecAnnounce DEF queueVars
<1>3. CASE /\ Head(inq).op = "message" /\ Head(inq).s \in tasks
           /\ msgParser(Head(inq).s, Head(inq).msg) /\ UNCHANGED tasks
  <2>1. PICK x : x = Head(inq).msg
    OBVIOUS
  <2>2. CASE Accepted(x)
    BY <1>1, <1>3, <2>1, <2>2, RecAccept DEF msgParser, queueVars
  <2>3. CASE ~Accepted(x)
    BY <1>1, <1>3, <2>1, <2>3, RecRefuse DEF msgParser
  <2>4. QED
    BY <2>2, <2>3
<1>4. CASE /\ Head(inq).op = "message" /\ Head(inq).s \notin tasks /\ UNCHANGED tasks
           /\ inq' = Tail(inq) /\ released' = Append(released, Head(inq).msg)
           /\ UNCHANGED <<link, state, queueVars, dropped, slotw>>
  BY <1>1, <1>4, RecRelease DEF queueVars
<1>5. QED
  BY <1>2, <1>3, <1>4 DEF ServiceUpdate

LEMMA RecNext ==
  ASSUME RecInv, [RecordSystemNext]_recordVars
  PROVE  RecInv'
<1>1. CASE UNCHANGED recordVars
  <2>1. RecTypes' /\ SlotsEnd'
    BY <1>1 DEF recordVars, RecInv, RecTypes, SlotsEnd
  <2>2. QED
    BY <1>1, <2>1, RecGoesOn DEF recordVars, clientVars
<1>2. CASE RecordSystemNext
  BY <1>2, RecSerialize, RecDrop, RecConnect, RecUpdate, RecServiceUpdate, RecManagerUpdate, RecServiceStop,
     RecExecute, RecStopping, RecClientWorker
     DEF RecordSystemNext, ClientStep, WorkerStep, MainLoop, Slot
<1>3. QED
  BY <1>1, <1>2
-----------------------------------------------------------------------------
(* The invariant of the record service holds: the places of a request are  *)
(* in the order it goes through them, it is in one of them, it carries its *)
(* client's descriptor, and the callbacks that wait are its clients'.      *)
THEOREM RecordInvariant == RecordSystemSpec => []RecInv
<1>1. RecordSystemInit => RecInv
  BY RecInit
<1>2. RecInv /\ [RecordSystemNext]_recordVars => RecInv'
  BY RecNext
<1>3. QED
  BY <1>1, <1>2, PTL DEF RecordSystemSpec

LEMMA InOrder ==
  ASSUME RecInv
  PROVE  AnswersKeepOrder
<1> USE DEF RecInv
<1>1. SUFFICES ASSUME NEW c \in Clients, NEW i \in DOMAIN handled[c], NEW j \in DOMAIN handled[c], i < j,
                      handled[c][i].response.client = c, handled[c][j].response.client = c,
                      SlotOf(handled[c][i].response) = SlotOf(handled[c][j].response)
               PROVE  handled[c][i].response.number < handled[c][j].response.number
  BY DEF AnswersKeepOrder
<1>2. /\ DOMAIN Resps(handled[c]) = DOMAIN handled[c]
      /\ \A n \in DOMAIN handled[c] : Resps(handled[c])[n] = handled[c][n].response
  BY DEF Resps
<1>3. SlotOf(handled[c][i].response) \in Slots
  BY <1>2 DEF Flow, InAsked, Served, Vals
<1>4. Rising(Resps(handled[c]))
  BY <1>3, ChainFacts
<1>5. QED
  BY <1>1, <1>2, <1>4 DEF Rising, Alike

(* The answers a client reads to its requests to one slot come in the      *)
(* order of the requests, across any number of broken connections: every   *)
(* queue between msgParser of the server and msgParser of the client is    *)
(* first in, first out.                                                    *)
THEOREM RecordAnswersKeepOrder == RecordSystemSpec => []AnswersKeepOrder
<1>1. RecInv => AnswersKeepOrder
  BY InOrder
<1>2. QED
  BY <1>1, RecordInvariant, PTL

LEMMA Misrouted ==
  ASSUME RecInv
  PROVE  MisroutedOnlyIfLost
<1> USE DEF RecInv
<1>1. SUFFICES ASSUME NEW c \in Clients, NEW i \in DOMAIN handled[c], NEW a, a = handled[c][i].response
               PROVE  /\ a.client # c => dropped[a.client] > 0
                      /\ \A d \in Clients : \A j \in DOMAIN handled[d] :
                           handled[d][j].response = a => <<c, i>> = <<d, j>>
  BY DEF MisroutedOnlyIfLost
<1>2. \A d \in Clients : /\ DOMAIN Resps(handled[d]) = DOMAIN handled[d]
                         /\ \A n \in DOMAIN handled[d] : Resps(handled[d])[n] = handled[d][n].response
  BY DEF Resps
<1>3. a \in Vals(Resps(handled[c]))
  BY <1>1, <1>2 DEF Vals
<1>4. a.client # c => dropped[a.client] > 0
  BY <1>3 DEF Conn, Foreign
<1>5. ASSUME NEW d \in Clients, NEW j \in DOMAIN handled[d], handled[d][j].response = a
      PROVE  c = d /\ i = j
  <2>1. c = d
    BY <1>1, <1>2, <1>5 DEF Flow, Cross, Apart
  <2>2. i = j
    <3>1. SlotOf(a) \in Slots /\ Vals(Resps(handled[c])) \subseteq Call
      BY <1>3, AskedCalls DEF Flow, InAsked, Served
    <3>2. Rising(Resps(handled[c]))
      BY <3>1, ChainFacts
    <3>3. DOMAIN Resps(handled[c]) \subseteq Nat
      <4>1. handled[c] \in Seq(Handled)
        BY DEF RecTypes
      <4>2. QED
        BY <1>2, <4>1
    <3>4. QED
      BY <1>1, <1>2, <1>5, <2>1, <3>1, <3>2, <3>3, RisingOnce
  <2>3. QED
    BY <2>1, <2>2
<1>6. QED
  BY <1>4, <1>5

(* An answer is addressed by a descriptor number, which is reused: it      *)
(* reaches another client only after the one that asked has lost a         *)
(* connection, and no answer is read twice, by one client or by two.       *)
THEOREM RecordMisroutedOnlyIfLost == RecordSystemSpec => []MisroutedOnlyIfLost
<1>1. RecInv => MisroutedOnlyIfLost
  BY Misrouted
<1>2. QED
  BY <1>1, RecordInvariant, PTL

(* Callbacks wait in a list per kind: as long as no connection breaks and  *)
(* the requests of the kind go to one slot, each gets its own answer.      *)
THEOREM RecordCallbackGetsItsAnswer == RecordSystemSpec => []CallbackGetsItsAnswer
<1>1. RecInv => CallbackGetsItsAnswer
  BY DEF RecInv
<1>2. QED
  BY <1>1, RecordInvariant, PTL

LEMMA Released ==
  ASSUME RecInv
  PROVE  ReleasedOnce
<1> USE DEF RecInv
<1>1. \A i, j \in DOMAIN released : released[i] = released[j] => i = j
  BY DEF ReleasedApart
<1>2. ASSUME NEW k \in Slots, NEW i \in DOMAIN slotw[k] PROVE slotw[k][i].req \notin ToSet(released)
  <2>1. slotw[k][i].req \in Vals(Reqs(slotw[k]))
    BY DEF Vals, Reqs
  <2>2. \A j \in DOMAIN released : released[j] # slotw[k][i].req
    BY <2>1 DEF ReleasedApart, Pending
  <2>3. QED
    BY <2>2 DEF ToSet
<1>3. main = "end" => \A k \in Slots : slotw[k] = <<>>
  BY DEF SlotsEnd
<1>4. QED
  BY <1>1, <1>2, <1>3 DEF ReleasedOnce

(* A message buffer is released at most once, by whoever of update(), the  *)
(* slot's thread and stop() has it last; none that a slot still has is     *)
(* released, and a server that has ended has none left.                    *)
THEOREM RecordReleasedOnce == RecordSystemSpec => []ReleasedOnce
<1>1. RecInv => ReleasedOnce
  BY Released
<1>2. QED
  BY <1>1, RecordInvariant, PTL
=============================================================================
