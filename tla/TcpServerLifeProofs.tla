------------------------ MODULE TcpServerLifeProofs -------------------------
(***************************************************************************)
(* The life of every connection of TcpServer, for any number of threads    *)
(* and clients: what is queued for it, in which order, and who still holds *)
(* it.                                                                     *)
(***************************************************************************)
EXTENDS TcpServerProofs

Established(c) == <<"connectEstablished", c>>
Removal(c) == <<"removeConnectionInLoop", c>>
Destruction(c) == <<"connectDestroyed", c>>

-----------------------------------------------------------------------------
(***************************************************************************)
(* Lists w of n functors.                                                  *)
(***************************************************************************)
Has(n, w, f) == \E i \in 1 .. n : w[i] = f

\* Nothing is queued twice, and nothing is established behind its destruction.
Orderly(n, w) ==
    \A i, j \in 1 .. n :
        i < j => /\ w[i] # w[j]
                 /\ \A c : w[i] = Destruction(c) => w[j] # Established(c)

\* What may be put behind what is there.
MayFollow(n, w, f) == ~Has(n, w, f) /\ \A c : f = Established(c) => ~Has(n, w, Destruction(c))

IsPush(n, w, m, v, f) ==
    n \in Nat /\ m = n + 1 /\ v[m] = f /\ \A i \in 1 .. n : v[i] = w[i]
IsPop(n, w, m, v) ==
    n \in Nat /\ n > 0 /\ m = n - 1 /\ \A i \in 1 .. m : v[i] = w[i + 1]

\* A push at the end of something that is not there yet.
LEMMA ListPush ==
  ASSUME NEW n, NEW w, NEW m, NEW v, NEW f,
         IsPush(n, w, m, v, f), Orderly(n, w), MayFollow(n, w, f)
  PROVE  Orderly(m, v) /\ \A g : Has(m, v, g) <=> Has(n, w, g) \/ g = f
<1> USE DEF IsPush
<1>1. \A i \in 1 .. m : (i \in 1 .. n /\ v[i] = w[i]) \/ (i = m /\ v[i] = f)
  <2> SUFFICES ASSUME NEW i \in 1 .. m, i # m PROVE i \in 1 .. n /\ v[i] = w[i]
    OBVIOUS
  <2>1. i \in 1 .. n
    OBVIOUS
  <2> QED BY <2>1
<1>2. 1 .. n \subseteq 1 .. m /\ m \in 1 .. m
  OBVIOUS
<1>3. ASSUME NEW i \in 1 .. m, NEW j \in 1 .. m, i < j
      PROVE  v[i] # v[j] /\ \A c : v[i] = Destruction(c) => v[j] # Established(c)
  <2>1. i \in 1 .. n /\ v[i] = w[i]
    BY <1>1, <1>3
  <2>2. CASE j \in 1 .. n /\ v[j] = w[j]
    BY <1>3, <2>1, <2>2 DEF Orderly
  <2>3. CASE j = m /\ v[j] = f
    BY <2>1, <2>3 DEF Has, MayFollow
  <2> QED BY <1>1, <2>2, <2>3
<1>4. ASSUME NEW g PROVE Has(m, v, g) <=> Has(n, w, g) \/ g = f
  BY <1>1, <1>2 DEF Has
<1> QED BY <1>3, <1>4 DEF Orderly

\* The head goes: nothing else does, and if it destroys a connection nothing
\* that is left establishes it.
LEMMA ListPop ==
  ASSUME NEW n, NEW w, NEW m, NEW v, IsPop(n, w, m, v), Orderly(n, w)
  PROVE  /\ Orderly(m, v)
         /\ \A g : Has(m, v, g) <=> Has(n, w, g) /\ g # w[1]
         /\ Has(n, w, w[1])
         /\ \A c : w[1] = Destruction(c) => ~Has(n, w, Established(c))
<1> USE DEF IsPop
<1>1. \A i \in 1 .. m : i + 1 \in 1 .. n /\ 1 < i + 1 /\ v[i] = w[i + 1]
  OBVIOUS
<1>2. \A i \in 1 .. n : i = 1 \/ (i - 1 \in 1 .. m /\ v[i - 1] = w[i] /\ 1 < i)
  <2> SUFFICES ASSUME NEW i \in 1 .. n, i # 1
               PROVE  i - 1 \in 1 .. m /\ v[i - 1] = w[i] /\ 1 < i
    OBVIOUS
  <2>1. i - 1 \in 1 .. m /\ 1 < i /\ (i - 1) + 1 = i
    OBVIOUS
  <2> QED BY <1>1, <2>1
<1>3. 1 \in 1 .. n
  OBVIOUS
<1>4. Orderly(m, v)
  <2> SUFFICES ASSUME NEW i \in 1 .. m, NEW j \in 1 .. m, i < j
               PROVE  v[i] # v[j] /\ \A c : v[i] = Destruction(c) => v[j] # Established(c)
    BY DEF Orderly
  <2>1. i + 1 < j + 1 /\ i + 1 \in 1 .. n /\ j + 1 \in 1 .. n /\ v[i] = w[i + 1] /\ v[j] = w[j + 1]
    BY <1>1
  <2> QED BY <2>1 DEF Orderly
<1>5. ASSUME NEW g PROVE Has(m, v, g) <=> Has(n, w, g) /\ g # w[1]
  <2>1. ASSUME Has(m, v, g) PROVE Has(n, w, g) /\ g # w[1]
    <3>1. PICK i \in 1 .. m : v[i] = g
      BY <2>1 DEF Has
    <3>2. w[i + 1] = g /\ i + 1 \in 1 .. n /\ 1 < i + 1
      BY <1>1, <3>1
    <3> QED BY <1>3, <3>2 DEF Has, Orderly
  <2>2. ASSUME Has(n, w, g), g # w[1] PROVE Has(m, v, g)
    BY <1>2, <2>2 DEF Has
  <2> QED BY <2>1, <2>2
<1>6. ASSUME NEW c, w[1] = Destruction(c) PROVE ~Has(n, w, Established(c))
  <2> SUFFICES ASSUME NEW i \in 1 .. n, w[i] = Established(c) PROVE FALSE
    BY DEF Has
  <2>1. CASE i = 1
    BY <1>6, <2>1 DEF Established, Destruction
  <2>2. CASE 1 < i
    BY <1>3, <1>6, <2>2 DEF Orderly
  <2> QED BY <1>2, <2>1, <2>2
<1> QED BY <1>3, <1>4, <1>5, <1>6 DEF Has

-----------------------------------------------------------------------------
(***************************************************************************)
(* What a loop still has to call, as such a list: the rest of the batch b  *)
(* after k calls, and then the pending functors p.                         *)
(***************************************************************************)
SizeOf(b, k, p) == (Len(b) - k) + Len(p)
WorkOf(b, k, p) ==
    [i \in 1 .. SizeOf(b, k, p) |-> IF i <= Len(b) - k THEN b[k + i] ELSE p[i - (Len(b) - k)]]

LEMMA WorkPush ==
  ASSUME NEW b \in Seq(Functor), NEW p \in Seq(Functor), NEW k \in Nat, k <= Len(b), NEW f \in Functor
  PROVE  IsPush(SizeOf(b, k, p), WorkOf(b, k, p),
                SizeOf(b, k, Append(p, f)), WorkOf(b, k, Append(p, f)), f)
<1> DEFINE n == SizeOf(b, k, p)
           w == WorkOf(b, k, p)
           q == Append(p, f)
           v == WorkOf(b, k, q)
           r == Len(b) - k
<1>1. r \in Nat /\ Len(p) \in Nat /\ n = r + Len(p) /\ n \in Nat
  BY DEF SizeOf
<1>2. Len(q) = Len(p) + 1 /\ q[Len(p) + 1] = f /\ \A i \in 1 .. Len(p) : q[i] = p[i]
  OBVIOUS
<1>3. SizeOf(b, k, q) = n + 1
  BY <1>1, <1>2 DEF SizeOf
<1>4. ASSUME NEW i \in 1 .. n PROVE v[i] = w[i]
  <2>1. i \in 1 .. n + 1
    BY <1>1
  <2>2. CASE i <= r
    BY <1>3, <2>1, <2>2 DEF WorkOf
  <2>3. CASE ~(i <= r)
    <3>1. i - r \in 1 .. Len(p)
      BY <1>1, <2>3
    <3>2. w[i] = p[i - r]
      BY <2>3 DEF WorkOf
    <3>3. v[i] = q[i - r]
      BY <1>3, <2>1, <2>3 DEF WorkOf
    <3> QED BY <1>2, <3>1, <3>2, <3>3
  <2> QED BY <2>2, <2>3
<1>5. v[n + 1] = f
  <2>1. n + 1 \in 1 .. n + 1 /\ ~(n + 1 <= r) /\ (n + 1) - r = Len(p) + 1
    BY <1>1
  <2>2. v[n + 1] = q[(n + 1) - r]
    BY <1>3, <2>1 DEF WorkOf
  <2> QED BY <1>2, <2>1, <2>2
<1> QED BY <1>1, <1>3, <1>4, <1>5 DEF IsPush

LEMMA WorkPop ==
  ASSUME NEW b \in Seq(Functor), NEW p \in Seq(Functor), NEW k \in Nat, k < Len(b)
  PROVE  /\ IsPop(SizeOf(b, k, p), WorkOf(b, k, p), SizeOf(b, k + 1, p), WorkOf(b, k + 1, p))
         /\ WorkOf(b, k, p)[1] = b[k + 1]
<1> DEFINE n == SizeOf(b, k, p)
           w == WorkOf(b, k, p)
           v == WorkOf(b, k + 1, p)
           r == Len(b) - k
<1>1. r \in Nat /\ r > 0 /\ Len(p) \in Nat /\ n = r + Len(p) /\ n \in Nat /\ n > 0
  BY DEF SizeOf
<1>2. SizeOf(b, k + 1, p) = n - 1 /\ Len(b) - (k + 1) = r - 1
  BY <1>1 DEF SizeOf
<1>3. ASSUME NEW i \in 1 .. n - 1 PROVE v[i] = w[i + 1]
  <2>1. i + 1 \in 1 .. n
    BY <1>1
  <2>2. v[i] = IF i <= r - 1 THEN b[(k + 1) + i] ELSE p[i - (r - 1)]
    BY <1>2 DEF WorkOf
  <2>3. w[i + 1] = IF i + 1 <= r THEN b[k + (i + 1)] ELSE p[(i + 1) - r]
    BY <2>1 DEF WorkOf
  <2>4. (k + 1) + i = k + (i + 1) /\ i - (r - 1) = (i + 1) - r /\ (i <= r - 1 <=> i + 1 <= r)
    BY <1>1
  <2> QED BY <2>2, <2>3, <2>4
<1>4. w[1] = b[k + 1]
  <2>1. 1 \in 1 .. n /\ 1 <= r
    BY <1>1
  <2> QED BY <2>1 DEF WorkOf
<1> QED BY <1>1, <1>2, <1>3, <1>4 DEF IsPop

\* The two ways to move a boundary: the batch takes the pending functors, and
\* a batch that has been called is dropped.
LEMMA WorkSame ==
  ASSUME NEW b \in Seq(Functor), NEW p \in Seq(Functor)
  PROVE  /\ SizeOf(p, 0, <<>>) = SizeOf(<<>>, 0, p) /\ WorkOf(p, 0, <<>>) = WorkOf(<<>>, 0, p)
         /\ SizeOf(b, Len(b), p) = SizeOf(<<>>, 0, p) /\ WorkOf(b, Len(b), p) = WorkOf(<<>>, 0, p)
         /\ SizeOf(<<>>, 0, <<>>) = 0
<1>1. Len(b) \in Nat /\ Len(p) \in Nat /\ Len(<<>>) = 0
  OBVIOUS
<1>2. /\ SizeOf(p, 0, <<>>) = Len(p) /\ SizeOf(<<>>, 0, p) = Len(p) /\ SizeOf(b, Len(b), p) = Len(p)
      /\ SizeOf(<<>>, 0, <<>>) = 0
  BY <1>1 DEF SizeOf
<1>3. WorkOf(<<>>, 0, p) = [i \in 1 .. Len(p) |-> p[i]]
  BY <1>1, <1>2 DEF WorkOf
<1>4. WorkOf(p, 0, <<>>) = [i \in 1 .. Len(p) |-> p[i]]
  BY <1>1, <1>2 DEF WorkOf
<1>5. WorkOf(b, Len(b), p) = [i \in 1 .. Len(p) |-> p[i]]
  BY <1>1, <1>2 DEF WorkOf
<1> QED BY <1>2, <1>3, <1>4, <1>5

-----------------------------------------------------------------------------
Todo(l, f) ==
    Has(SizeOf(batch[l], calls[l], pending[l]), WorkOf(batch[l], calls[l], pending[l]), f)
InOrder(l) ==
    Orderly(SizeOf(batch[l], calls[l], pending[l]), WorkOf(batch[l], calls[l], pending[l]))

LEMMA TodoSame ==
  ASSUME NEW l \in Loop, InOrder(l),
         batch'[l] = batch[l], calls'[l] = calls[l], pending'[l] = pending[l]
  PROVE  InOrder(l)' /\ \A f : Todo(l, f)' <=> Todo(l, f)
BY DEF InOrder, Todo

\* queueInLoop (EventLoop.cpp:157-172).
LEMMA TodoQueued ==
  ASSUME ServerTypeOK, NEW l \in Loop, InOrder(l), NEW f \in Functor,
         batch'[l] = batch[l], calls'[l] = calls[l], pending'[l] = Append(pending[l], f),
         ~Todo(l, f), \A c : f = Established(c) => ~Todo(l, Destruction(c))
  PROVE  InOrder(l)' /\ \A g : Todo(l, g)' <=> Todo(l, g) \/ g = f
<1>1. /\ batch[l] \in Seq(Functor) /\ pending[l] \in Seq(Functor)
      /\ calls[l] \in Nat /\ calls[l] <= Len(batch[l])
  BY DEF ServerTypeOK
<1> DEFINE n == SizeOf(batch[l], calls[l], pending[l])
           w == WorkOf(batch[l], calls[l], pending[l])
           m == SizeOf(batch[l], calls[l], Append(pending[l], f))
           v == WorkOf(batch[l], calls[l], Append(pending[l], f))
<1>2. IsPush(n, w, m, v, f)
  BY <1>1, WorkPush
<1>3. Orderly(n, w) /\ MayFollow(n, w, f)
  BY DEF InOrder, Todo, MayFollow
<1>4. Orderly(m, v) /\ \A g : Has(m, v, g) <=> Has(n, w, g) \/ g = f
  BY <1>2, <1>3, ListPush
<1> QED BY <1>4 DEF InOrder, Todo

\* doPendingFunctors calls the next functor (EventLoop.cpp:223-226).
LEMMA TodoCalled ==
  ASSUME ServerTypeOK, NEW l \in Loop, InOrder(l), calls[l] < Len(batch[l]),
         NEW f, f = batch[l][calls[l] + 1],
         batch'[l] = batch[l], calls'[l] = calls[l] + 1, pending'[l] = pending[l]
  PROVE  /\ InOrder(l)' /\ \A g : Todo(l, g)' <=> Todo(l, g) /\ g # f
         /\ Todo(l, f)
         /\ \A c : f = Destruction(c) => ~Todo(l, Established(c))
<1>1. /\ batch[l] \in Seq(Functor) /\ pending[l] \in Seq(Functor) /\ calls[l] \in Nat
  BY DEF ServerTypeOK
<1> DEFINE n == SizeOf(batch[l], calls[l], pending[l])
           w == WorkOf(batch[l], calls[l], pending[l])
           m == SizeOf(batch[l], calls[l] + 1, pending[l])
           v == WorkOf(batch[l], calls[l] + 1, pending[l])
<1>2. IsPop(n, w, m, v) /\ w[1] = f
  BY <1>1, WorkPop
<1>3. Orderly(n, w)
  BY DEF InOrder
<1>4. /\ Orderly(m, v) /\ \A g : Has(m, v, g) <=> Has(n, w, g) /\ g # w[1]
      /\ Has(n, w, w[1])
      /\ \A c : w[1] = Destruction(c) => ~Has(n, w, Established(c))
  BY <1>2, <1>3, ListPop
<1> QED BY <1>2, <1>4 DEF InOrder, Todo

\* The swap, and the end of the batch (EventLoop.cpp:213-228).
LEMMA TodoMoved ==
  ASSUME ServerTypeOK, NEW l \in Loop, InOrder(l),
         \/ batch[l] = <<>> /\ calls[l] = 0 /\ batch'[l] = pending[l] /\ calls'[l] = 0 /\ pending'[l] = <<>>
         \/ calls[l] = Len(batch[l]) /\ batch'[l] = <<>> /\ calls'[l] = 0 /\ pending'[l] = pending[l]
  PROVE  InOrder(l)' /\ \A f : Todo(l, f)' <=> Todo(l, f)
<1>1. batch[l] \in Seq(Functor) /\ pending[l] \in Seq(Functor)
  BY DEF ServerTypeOK
<1>2. /\ SizeOf(batch'[l], calls'[l], pending'[l]) = SizeOf(batch[l], calls[l], pending[l])
      /\ WorkOf(batch'[l], calls'[l], pending'[l]) = WorkOf(batch[l], calls[l], pending[l])
  BY <1>1, WorkSame
<1> QED BY <1>2 DEF InOrder, Todo

\* The functors go with the loop (EventLoop.h:87-88).
LEMMA TodoDropped ==
  ASSUME NEW l \in Loop, batch'[l] = <<>>, calls'[l] = 0, pending'[l] = <<>>
  PROVE  InOrder(l)' /\ \A f : ~Todo(l, f)'
<1>1. SizeOf(batch'[l], calls'[l], pending'[l]) = 0
  BY DEF SizeOf
<1>2. ASSUME NEW w PROVE Orderly(0, w) /\ \A f : ~Has(0, w, f)
  BY DEF Orderly, Has
<1> QED BY <1>1, <1>2 DEF InOrder, Todo

\* What is to be called was queued where it belongs.
LEMMA TodoPlaced ==
  ASSUME ServerTypeOK, PlaceInv, NEW l \in Loop, NEW f, Todo(l, f)
  PROVE  Placed(l, f) /\ f \in Functor
<1> DEFINE r == Len(batch[l]) - calls[l]
<1>1. /\ batch[l] \in Seq(Functor) /\ pending[l] \in Seq(Functor)
      /\ calls[l] \in Nat /\ calls[l] <= Len(batch[l])
      /\ Len(batch[l]) \in Nat /\ Len(pending[l]) \in Nat
  BY DEF ServerTypeOK
<1>2. PICK i \in 1 .. r + Len(pending[l]) :
        f = IF i <= r THEN batch[l][calls[l] + i] ELSE pending[l][i - r]
  BY DEF Todo, Has, WorkOf, SizeOf
<1>3. CASE i <= r
  <2>1. calls[l] + i \in 1 .. Len(batch[l])
    BY <1>1, <1>3
  <2> QED BY <1>1, <1>2, <1>3, <2>1 DEF PlaceInv, BatchPlaced
<1>4. CASE ~(i <= r)
  <2>1. i - r \in 1 .. Len(pending[l])
    BY <1>1, <1>4
  <2> QED BY <1>1, <1>2, <1>4, <2>1 DEF PlaceInv, PendingPlaced
<1> QED BY <1>3, <1>4

\* Whatever is to be called holds its connection.
LEMMA TodoHolds ==
  ASSUME ServerTypeOK, NEW l \in Loop, NEW f, Todo(l, f)
  PROVE  Held(f[2])
<1> DEFINE r == Len(batch[l]) - calls[l]
<1>1. /\ batch[l] \in Seq(Functor) /\ pending[l] \in Seq(Functor)
      /\ calls[l] \in Nat /\ calls[l] <= Len(batch[l])
      /\ Len(batch[l]) \in Nat /\ Len(pending[l]) \in Nat
  BY DEF ServerTypeOK
<1>2. PICK i \in 1 .. r + Len(pending[l]) :
        f = IF i <= r THEN batch[l][calls[l] + i] ELSE pending[l][i - r]
  BY DEF Todo, Has, WorkOf, SizeOf
<1>3. f \in Range(pending[l]) \cup Range(batch[l])
  <2>1. CASE i <= r
    <3>1. calls[l] + i \in DOMAIN batch[l]
      BY <1>1, <2>1
    <3> QED BY <1>2, <2>1, <3>1 DEF Range
  <2>2. CASE ~(i <= r)
    <3>1. i - r \in DOMAIN pending[l]
      BY <1>1, <2>2
    <3> QED BY <1>2, <2>2, <3>1 DEF Range
  <2> QED BY <2>1, <2>2
<1> QED BY <1>3 DEF Held

-----------------------------------------------------------------------------
(***************************************************************************)
(* The same, as the set of functors each loop still has to call.           *)
(***************************************************************************)
Todos == [l \in Loop |-> {f \in Functor : Todo(l, f)}]
Ordered == \A l \in Loop : InOrder(l)

\* What may be queued on a loop.
New(l, f) == f \notin Todos[l] /\ \A c : f = Established(c) => Destruction(c) \notin Todos[l]

LEMMA WorkSameAt ==
  ASSUME ServerTypeOK, Ordered, NEW l \in Loop,
         \/ batch'[l] = batch[l] /\ calls'[l] = calls[l] /\ pending'[l] = pending[l]
         \/ batch[l] = <<>> /\ calls[l] = 0 /\ batch'[l] = pending[l] /\ calls'[l] = 0 /\ pending'[l] = <<>>
         \/ calls[l] = Len(batch[l]) /\ batch'[l] = <<>> /\ calls'[l] = 0 /\ pending'[l] = pending[l]
  PROVE  InOrder(l)' /\ Todos'[l] = Todos[l]
<1>1. InOrder(l)' /\ \A f : Todo(l, f)' <=> Todo(l, f)
  BY TodoSame, TodoMoved DEF Ordered
<1>2. Todos'[l] = {f \in Functor : Todo(l, f)'}
  BY DEF Todos
<1> QED BY <1>1, <1>2 DEF Todos

LEMMA WorkQueuedAt ==
  ASSUME ServerTypeOK, Ordered, NEW l \in Loop, NEW f \in Functor, New(l, f),
         batch'[l] = batch[l], calls'[l] = calls[l], pending'[l] = Append(pending[l], f)
  PROVE  InOrder(l)' /\ Todos'[l] = Todos[l] \cup {f}
<1>1. ~Todo(l, f) /\ \A c : f = Established(c) => ~Todo(l, Destruction(c))
  <2>1. \A c : f = Established(c) => Destruction(c) \in Functor
    BY DEF Established, Destruction, Functor
  <2> QED BY <2>1 DEF New, Todos
<1>2. InOrder(l)' /\ \A g : Todo(l, g)' <=> Todo(l, g) \/ g = f
  BY <1>1, TodoQueued DEF Ordered
<1>3. Todos'[l] = {g \in Functor : Todo(l, g)'}
  BY DEF Todos
<1> QED BY <1>2, <1>3 DEF Todos

LEMMA WorkCalledAt ==
  ASSUME ServerTypeOK, Ordered, NEW l \in Loop, calls[l] < Len(batch[l]),
         NEW f \in Functor, f = batch[l][calls[l] + 1],
         batch'[l] = batch[l], calls'[l] = calls[l] + 1, pending'[l] = pending[l]
  PROVE  /\ InOrder(l)' /\ Todos'[l] = Todos[l] \ {f} /\ f \in Todos[l]
         /\ \A c : f = Destruction(c) => Established(c) \notin Todos[l]
<1>1. /\ InOrder(l)' /\ \A g : Todo(l, g)' <=> Todo(l, g) /\ g # f
      /\ Todo(l, f) /\ \A c : f = Destruction(c) => ~Todo(l, Established(c))
  BY TodoCalled DEF Ordered
<1>2. Todos'[l] = {g \in Functor : Todo(l, g)'}
  BY DEF Todos
<1> QED BY <1>1, <1>2 DEF Todos

LEMMA WorkDroppedAt ==
  ASSUME NEW l \in Loop, batch'[l] = <<>>, calls'[l] = 0, pending'[l] = <<>>
  PROVE  InOrder(l)' /\ Todos'[l] = {}
<1>1. InOrder(l)' /\ \A f : ~Todo(l, f)'
  BY TodoDropped
<1>2. Todos'[l] = {g \in Functor : Todo(l, g)'}
  BY DEF Todos
<1> QED BY <1>1, <1>2

LEMMA WorkPlaced ==
  ASSUME ServerTypeOK, PlaceInv, NEW l \in Loop, NEW f \in Todos[l]
  PROVE  Placed(l, f) /\ f \in Functor
BY TodoPlaced DEF Todos

-----------------------------------------------------------------------------
(***************************************************************************)
(* How far a connection is, and what is queued for it.                     *)
(***************************************************************************)
LifeOf(c) ==
    LET t == Todos[loopOf[c]] IN
    /\ destroys[c] <= 1
    /\ ~Accepted(c) \/ c \in connections => destroys[c] = 0
    /\ c \in connections \/ destroys[c] = 1 => Destruction(c) \notin t
    /\ Established(c) \in t => state[c] = "connecting"
    /\ state[c] = "connecting" => loopOf[c] # 0 /\ (at[loopOf[c]] = "done" \/ Established(c) \in t)
    /\ state[c] \in {"connecting", "connected"} /\ c \notin connections =>
           /\ loopOf[c] # 0 /\ at[0] \in {"left", "done"}
           /\ at[loopOf[c]] = "done" \/ Destruction(c) \in t
    /\ Accepted(c) /\ c \notin connections /\ destroys[c] = 0 =>
           at[loopOf[c]] = "done" \/ Destruction(c) \in t
    /\ Removal(c) \in Todos[0] =>
           state[c] = "disconnected" /\ (at[0] \in InLoop => c \in connections)
    /\ at[0] = "published" => ~Accepted(c)

\* What a poll has reported is up until it is handled.
ActiveUp ==
    \A l \in Loop :
        /\ active[l] # {} => at[l] = "dispatch"
        /\ \A c \in active[l] \cap Conn : state[c] = "connected"

LifeInv == Ordered /\ ActiveUp /\ \A c \in Conn : LifeOf(c)

LEMMA FunctorsDiffer ==
  ASSUME NEW c \in Conn
  PROVE  /\ {Established(c), Removal(c), Destruction(c)} \subseteq Functor
         /\ \A d : /\ Established(c) # Removal(d) /\ Established(c) # Destruction(d)
                   /\ Removal(c) # Destruction(d) /\ Destruction(c) # Removal(d)
                   /\ Destruction(c) # Established(d) /\ Removal(c) # Established(d)
                   /\ Established(c) = Established(d) => c = d
                   /\ Removal(c) = Removal(d) => c = d
                   /\ Destruction(c) = Destruction(d) => c = d
BY DEF Established, Removal, Destruction, Functor

\* Ended loops stay ended, and the base loop runs only once.
AtStep ==
    /\ \A l \in Loop : at[l] = "done" => at'[l] = "done"
    /\ at[0] \in {"left", "done"} => at'[0] \in {"left", "done"}
    /\ at'[0] \in InLoop => at[0] \in InLoop \cup {"published"}
    /\ at'[0] = "published" => at[0] = "published"

LEMMA AtMoves ==
  ASSUME TypesInv, [ServerNext]_vars
  PROVE  AtStep
<1>1. at \in [Loop -> ThreadLocation] /\ 0 \in Loop /\ \A i \in Thread : i \in Loop /\ i # 0
  BY PoolAssumption DEF TypesInv, ServerTypeOK, TypeOK, Loop, Thread
<1>2. CASE UNCHANGED at
  BY <1>2 DEF AtStep
<1>3. CASE PoolStep
  BY <1>1, <1>3, PoolStepMoves DEF TypesInv, AtStep, InLoop
<1>4. CASE BaseEnds
  BY <1>1, <1>4 DEF BaseEnds, BaseDies, GoTo, AtStep, InLoop
<1>5. ASSUME NEW i \in Thread, ThreadEnds(i) PROVE AtStep
  BY <1>1, <1>5 DEF ThreadEnds, Die, GoTo, AtStep
<1>6. ASSUME NEW l \in Loop, PollReady(l) \/ Swap(l) \/ EndBatch(l) PROVE AtStep
  BY <1>1, <1>6 DEF PollReady, Poll, Swap, TakePending, EndBatch, FunctorsDone, GoTo, AtStep, InLoop
<1>7. ASSUME NEW l \in Loop, RunFunctor(l) \/ \E c \in Conn : HandleClose(l, c) PROVE AtStep
  BY <1>2, <1>7 DEF RunFunctor, HandleClose, poolVars
<1>8. CASE Listen \/ Accept \/ DestroyPool \/ CloseAcceptor
           \/ \E c \in Conn : DestroyConnection(c) \/ Connect(c) \/ Close(c)
  BY <1>2, <1>8 DEF Listen, StartReturns, Accept, DestroyPool, Destroy, CloseAcceptor, Destroyed,
     DestroyConnection, Connect, Close, poolVars
<1>9. CASE UNCHANGED vars
  BY <1>2, <1>9 DEF vars, poolVars
<1> QED
  BY <1>3, <1>4, <1>5, <1>6, <1>7, <1>8, <1>9 DEF ServerNext, ServerStep, RoundStep

\* A step that is not about a connection.
LEMMA LifeOfOther ==
  ASSUME AtStep, NEW c \in Conn, LifeOf(c),
         state'[c] = state[c], loopOf'[c] = loopOf[c], loopOf[c] \in Loop, destroys'[c] = destroys[c],
         c \in connections' <=> c \in connections,
         Established(c) \in Todos'[loopOf[c]] <=> Established(c) \in Todos[loopOf[c]],
         Destruction(c) \in Todos'[loopOf[c]] <=> Destruction(c) \in Todos[loopOf[c]],
         Removal(c) \in Todos'[0] <=> Removal(c) \in Todos[0]
  PROVE  LifeOf(c)'
BY DEF LifeOf, AtStep, Accepted, InLoop
LEMMA ActiveKept ==
  ASSUME TypesInv, PlaceInv, ActiveUp, ServerNext
  PROVE  ActiveUp'
<1>1. /\ at \in [Loop -> ThreadLocation] /\ active \in [Loop -> SUBSET (Conn \cup {Acceptor})]
      /\ state \in [Conn -> {"absent", "backlog", "connecting", "connected", "disconnected"}]
      /\ 0 \in Loop /\ \A i \in Thread : i \in Loop
  BY PoolAssumption DEF TypesInv, ServerTypeOK, TypeOK, Loop, Thread
<1>2. \A l \in Loop : \A c \in active[l] \cap Conn : loopOf[c] = l
  BY DEF PlaceInv, ActivePlaced
<1>3. ASSUME \A l \in Loop : active'[l] \subseteq active[l],
             \A l \in Loop : at[l] = "dispatch" => at'[l] = "dispatch" \/ active'[l] = {},
             \A l \in Loop : \A c \in active'[l] \cap Conn : state'[c] = state[c]
      PROVE  ActiveUp'
  BY <1>3 DEF ActiveUp
<1>4. CASE PoolStep
  <2>1. UNCHANGED <<active, state>> /\ \A l \in Loop : at[l] = "dispatch" => at'[l] = "dispatch"
    BY <1>4, PoolStepMoves DEF TypesInv, queueVars, connVars
  <2> QED BY <1>3, <2>1
<1>5. CASE Accept
  <2>1. UNCHANGED at /\ \A l \in Loop : active'[l] \subseteq active[l]
    BY <1>1, <1>5 DEF Accept, poolVars
  <2>2. ASSUME NEW c \in Conn, state[c] = "backlog", NewConnection(c)
        PROVE  ActiveUp'
    <3>1. \A l \in Loop : c \notin active[l]
      BY <2>2 DEF ActiveUp
    <3>2. PICK s : state' = [state EXCEPT ![c] = s]
      BY <2>2 DEF NewConnection
    <3> QED BY <1>1, <1>3, <2>1, <3>1, <3>2
  <2> QED BY <1>3, <1>5, <2>1, <2>2 DEF Accept
<1>6. ASSUME NEW c \in Conn, DestroyConnection(c)
      PROVE  ActiveUp'
  <2>1. UNCHANGED <<at, active>> /\ at[0] = "left"
    BY <1>6 DEF DestroyConnection, poolVars
  <2>2. CASE loopOf[c] = 0
    <3>1. \A l \in Loop : c \notin active[l]
      BY <1>2, <2>1, <2>2 DEF ActiveUp
    <3>2. \A d \in Conn : d # c => state'[d] = state[d]
      BY <1>1, <1>6, <2>2 DEF DestroyConnection, ConnectDestroyed
    <3> QED BY <1>3, <2>1, <3>1, <3>2
  <2>3. CASE loopOf[c] # 0
    BY <1>3, <1>6, <2>1, <2>3 DEF DestroyConnection
  <2> QED BY <2>2, <2>3
<1>7. CASE BaseEnds
  <2>1. /\ UNCHANGED <<active, state>> /\ at[0] # "dispatch"
        /\ \A l \in Loop : l # 0 => at'[l] = at[l]
    BY <1>1, <1>7 DEF BaseEnds, BaseDies, DropFunctors, GoTo, connVars, TypesInv, PoolInv, BaseInv, InLoop
  <2> QED BY <1>3, <2>1
<1>8. ASSUME NEW i \in Thread, ThreadEnds(i)
      PROVE  ActiveUp'
  <2>1. /\ UNCHANGED <<active, state>> /\ at[i] # "dispatch"
        /\ \A l \in Loop : l # i => at'[l] = at[l]
    BY <1>1, <1>8 DEF ThreadEnds, Die, DropFunctors, GoTo, connVars
  <2> QED BY <1>3, <2>1
<1>9. ASSUME NEW l \in Loop, PollReady(l)
      PROVE  ActiveUp'
  <2>1. /\ \A k \in Loop : at'[k] = IF k = l THEN "dispatch" ELSE at[k]
        /\ \A k \in Loop : active'[k] = IF k = l THEN Ready(l) ELSE active[k]
        /\ UNCHANGED state
    BY <1>1, <1>9 DEF PollReady, Poll, GoTo, connVars
  <2>2. \A c \in Ready(l) \cap Conn : state[c] = "connected"
    BY ServerAssumption DEF Ready
  <2> QED BY <2>1, <2>2 DEF ActiveUp
<1>10. ASSUME NEW l \in Loop, NEW c \in Conn, HandleClose(l, c)
       PROVE  ActiveUp'
  <2>1. /\ UNCHANGED at /\ c \in active[l]
        /\ \A k \in Loop : active'[k] = IF k = l THEN active[k] \ {c} ELSE active[k]
        /\ \A d \in Conn : d # c => state'[d] = state[d]
    BY <1>1, <1>10 DEF HandleClose, poolVars
  <2>2. loopOf[c] = l
    BY <1>2, <2>1
  <2>3. ASSUME NEW k \in Loop PROVE c \notin active'[k]
    <3>1. CASE k = l
      BY <2>1, <3>1
    <3>2. CASE k # l
      <4>1. c \notin active[k]
        BY <1>2, <2>2, <3>2
      <4> QED BY <2>1, <3>2, <4>1
    <3> QED BY <3>1, <3>2
  <2> QED BY <1>3, <2>1, <2>3
<1>11. ASSUME NEW l \in Loop, Swap(l) \/ EndBatch(l)
       PROVE  ActiveUp'
  <2>1. /\ UNCHANGED <<active, state>> /\ active[l] = {}
        /\ \A k \in Loop : k # l => at'[k] = at[k]
    BY <1>1, <1>11 DEF Swap, TakePending, EndBatch, FunctorsDone, GoTo, connVars, ActiveUp
  <2> QED BY <1>3, <2>1
<1>12. ASSUME NEW l \in Loop, RunFunctor(l)
       PROVE  ActiveUp'
  <2>1. calls[l] + 1 \in 1 .. Len(batch[l]) /\ at[l] = "functors" /\ UNCHANGED <<at, active>>
    BY <1>12, NextFunctor DEF RunFunctor, TypesInv, poolVars
  <2>2. PICK f \in Functor : f = batch[l][calls[l] + 1]
    BY <1>12, NextFunctor DEF RunFunctor, TypesInv
  <2>3. Placed(l, f) /\ f[2] \in Conn
    BY <2>1, <2>2 DEF PlaceInv, BatchPlaced, Functor
  <2>4. CASE f[1] = "removeConnectionInLoop" /\ UNCHANGED state
    BY <1>3, <2>1, <2>4
  <2>5. CASE f[1] # "removeConnectionInLoop" /\ \A d \in Conn : d # f[2] => state'[d] = state[d]
    <3>1. \A k \in Loop : f[2] \notin active[k]
      BY <1>2, <2>1, <2>3, <2>5 DEF ActiveUp, Placed
    <3> QED BY <1>3, <2>1, <2>5, <3>1
  <2> QED BY <1>1, <1>12, <2>2, <2>3, <2>4, <2>5 DEF RunFunctor, ConnectDestroyed
<1>13. CASE Listen \/ DestroyPool \/ CloseAcceptor
  <2>1. UNCHANGED <<at, active, state>>
    BY <1>13 DEF Listen, StartReturns, DestroyPool, Destroy, CloseAcceptor, Destroyed, queueVars, connVars
  <2> QED BY <1>3, <2>1
<1>14. ASSUME NEW c \in Conn, Connect(c) \/ Close(c)
       PROVE  ActiveUp'
  <2>1. UNCHANGED <<at, active>> /\ \A d \in Conn : state[d] = "connected" => state'[d] = state[d]
    BY <1>1, <1>14 DEF Connect, Close, poolVars, queueVars
  <2> QED BY <1>3, <2>1 DEF ActiveUp
<1> QED
  BY <1>4, <1>5, <1>6, <1>7, <1>8, <1>9, <1>10, <1>11, <1>12, <1>13, <1>14
     DEF ServerNext, ServerStep, RoundStep
-----------------------------------------------------------------------------
(***************************************************************************)
(* Each operation keeps the life of every connection in order.             *)
(***************************************************************************)
AllInv == TypesInv /\ PlaceInv /\ LifeInv
LivesKept == Ordered' /\ \A d \in Conn : LifeOf(d)'

LEMMA Shapes ==
  ASSUME AllInv
  PROVE  /\ ServerTypeOK /\ Ordered /\ \A d \in Conn : LifeOf(d)
         /\ 0 \in Loop /\ loopOf \in [Conn -> Loop] /\ connections \subseteq Conn
         /\ state \in [Conn -> {"absent", "backlog", "connecting", "connected", "disconnected"}]
         /\ destroys \in [Conn -> Nat] /\ at \in [Loop -> ThreadLocation]
         /\ pending \in [Loop -> Seq(Functor)] /\ batch \in [Loop -> Seq(Functor)]
         /\ calls \in [Loop -> Nat]
<1>1. ServerTypeOK /\ Ordered /\ \A d \in Conn : LifeOf(d)
  BY DEF AllInv, LifeInv, TypesInv
<1>2. 0 \in Loop
  BY PoolAssumption DEF Loop
<1> QED BY <1>1, <1>2 DEF ServerTypeOK, TypeOK

\* Polls, swaps, and the steps of the pool (EventLoop.cpp:67-90,211-228).
LEMMA QuietKeeps ==
  ASSUME AllInv, AtStep, UNCHANGED <<state, loopOf, connections, destroys>>,
         \A l \in Loop :
            \/ batch'[l] = batch[l] /\ calls'[l] = calls[l] /\ pending'[l] = pending[l]
            \/ batch[l] = <<>> /\ calls[l] = 0 /\ batch'[l] = pending[l] /\ calls'[l] = 0 /\ pending'[l] = <<>>
            \/ calls[l] = Len(batch[l]) /\ batch'[l] = <<>> /\ calls'[l] = 0 /\ pending'[l] = pending[l]
  PROVE  LivesKept
<1>1. /\ ServerTypeOK /\ Ordered /\ \A d \in Conn : LifeOf(d) /\ loopOf[d] \in Loop
      /\ 0 \in Loop
  BY Shapes
<1>2. \A l \in Loop : InOrder(l)' /\ Todos'[l] = Todos[l]
  BY <1>1, WorkSameAt
<1>3. ASSUME NEW d \in Conn PROVE LifeOf(d)'
  BY <1>1, <1>2, LifeOfOther
<1> QED BY <1>2, <1>3 DEF LivesKept, Ordered

\* The functors of a loop that ends are dropped (EventLoop.cpp:57-65).
LEMMA DropKeeps ==
  ASSUME AllInv, AtStep, NEW l \in Loop, at[l] # "functors", at'[l] = "done", DropFunctors(l)
  PROVE  LivesKept
<1>1. /\ ServerTypeOK /\ Ordered /\ \A d \in Conn : LifeOf(d) /\ loopOf[d] \in Loop
      /\ 0 \in Loop /\ pending \in [Loop -> Seq(Functor)]
  BY Shapes
<1>2. UNCHANGED <<state, loopOf, connections, destroys, batch, calls>>
      /\ batch[l] = <<>> /\ calls[l] = 0
  BY DEF DropFunctors, connVars, AllInv, TypesInv, BatchInv
<1>3. \A k \in Loop : pending'[k] = IF k = l THEN <<>> ELSE pending[k]
  BY <1>1 DEF DropFunctors
<1>4. InOrder(l)' /\ Todos'[l] = {}
  BY <1>2, <1>3, WorkDroppedAt
<1>5. \A k \in Loop : k # l => InOrder(k)' /\ Todos'[k] = Todos[k]
  BY <1>1, <1>2, <1>3, WorkSameAt
<1>6. ASSUME NEW d \in Conn PROVE LifeOf(d)'
  <2>1. \A k \in Loop : k = l \/ Todos'[k] = Todos[k]
    BY <1>5
  <2>2. CASE loopOf[d] = l
    BY <1>1, <1>2, <1>4, <2>1, <2>2 DEF LifeOf, AtStep, Accepted, InLoop
  <2>3. CASE loopOf[d] # l
    BY <1>1, <1>2, <1>4, <2>1, <2>3 DEF LifeOf, AtStep, Accepted, InLoop
  <2> QED BY <2>2, <2>3
<1>7. Ordered'
  BY <1>4, <1>5 DEF Ordered
<1> QED BY <1>6, <1>7 DEF LivesKept

LEMMA ClientKeeps ==
  ASSUME AllInv, AtStep, NEW c \in Conn, Connect(c) \/ Close(c)
  PROVE  LivesKept
<1>1. /\ ServerTypeOK /\ Ordered /\ \A d \in Conn : LifeOf(d) /\ loopOf[d] \in Loop
      /\ 0 \in Loop /\ state \in [Conn -> {"absent", "backlog", "connecting", "connected", "disconnected"}]
  BY Shapes
<1>2. UNCHANGED <<loopOf, connections, destroys, batch, calls, pending, at>>
  BY DEF Connect, Close, queueVars, poolVars
<1>3. \A l \in Loop : InOrder(l)' /\ Todos'[l] = Todos[l]
  BY <1>1, <1>2, WorkSameAt
<1>4. ASSUME NEW d \in Conn PROVE LifeOf(d)'
  <2>1. \/ state'[d] = state[d]
        \/ state[d] = "absent" /\ state'[d] = "backlog"
    BY <1>1 DEF Connect, Close
  <2> QED BY <1>1, <1>2, <1>3, <2>1 DEF LifeOf, Accepted
<1> QED BY <1>3, <1>4 DEF LivesKept, Ordered

\* newConnection (TcpServer.cpp:74-117).
LEMMA AcceptKeeps ==
  ASSUME AllInv, AtStep, Accept
  PROVE  LivesKept
<1>1. /\ ServerTypeOK /\ Ordered /\ \A d \in Conn : LifeOf(d) /\ loopOf[d] \in Loop
      /\ 0 \in Loop /\ loopOf \in [Conn -> Loop] /\ connections \subseteq Conn
      /\ state \in [Conn -> {"absent", "backlog", "connecting", "connected", "disconnected"}]
      /\ pending \in [Loop -> Seq(Functor)]
  BY Shapes
<1>2. UNCHANGED <<at, batch, calls, destroys>> /\ at[0] = "dispatch"
  BY DEF Accept, poolVars
<1>3. CASE UNCHANGED <<state, loopOf, next, connections, pending>>
  BY <1>2, <1>3, QuietKeeps
<1>4. ASSUME NEW c \in Conn, state[c] = "backlog", NewConnection(c)
      PROVE  LivesKept
  <2>1. PICK l \in Loop : loopOf' = [loopOf EXCEPT ![c] = l] /\ l = IF size = 0 THEN 0 ELSE next + 1
    <3>1. loopOf' = [loopOf EXCEPT ![c] = IF size = 0 THEN 0 ELSE next + 1]
      BY <1>4 DEF NewConnection
    <3>2. loopOf'[c] \in Loop
      BY <1>1, <1>4, NewConnectionTyped
    <3> QED BY <1>1, <3>1, <3>2
  <2>2. connections' = connections \cup {c}
    BY <1>4 DEF NewConnection
  <2>3. ~Accepted(c) /\ destroys[c] = 0
    BY <1>1, <1>4 DEF LifeOf, Accepted
  <2>4. \A k \in Loop : {Established(c), Removal(c), Destruction(c)} \cap Todos[k] = {}
    <3>1. ASSUME NEW k \in Loop, NEW f \in Todos[k], f[2] = c PROVE FALSE
      BY <1>1, <2>3, <3>1, WorkPlaced DEF AllInv, Placed
    <3>2. Established(c)[2] = c /\ Removal(c)[2] = c /\ Destruction(c)[2] = c
      BY DEF Established, Removal, Destruction
    <3> QED BY <3>1, <3>2
  <2>5. \A d \in Conn : d # c => state'[d] = state[d] /\ loopOf'[d] = loopOf[d]
                                 /\ (d \in connections' <=> d \in connections)
    BY <1>1, <1>4, <2>1, <2>2 DEF NewConnection
  <2>6. CASE l = 0
    <3>1. state' = [state EXCEPT ![c] = "connected"] /\ UNCHANGED pending
      BY <1>4, <2>1, <2>6 DEF NewConnection
    <3>2. \A k \in Loop : InOrder(k)' /\ Todos'[k] = Todos[k]
      BY <1>1, <1>2, <3>1, WorkSameAt
    <3>3. ASSUME NEW d \in Conn, d # c PROVE LifeOf(d)'
      BY <1>1, <1>2, <2>5, <3>2, <3>3, LifeOfOther
    <3>4. LifeOf(c)'
      <4>1. loopOf'[c] = 0 /\ state'[c] = "connected" /\ destroys'[c] = 0 /\ c \in connections'
        BY <1>1, <1>2, <2>1, <2>2, <2>3, <2>6, <3>1
      <4>2. {Established(c), Removal(c), Destruction(c)} \cap Todos'[0] = {}
        BY <1>1, <2>4, <3>2
      <4> QED BY <1>2, <4>1, <4>2 DEF LifeOf
    <3> QED BY <3>2, <3>3, <3>4 DEF LivesKept, Ordered
  <2>7. CASE l # 0
    <3>1. state' = [state EXCEPT ![c] = "connecting"]
          /\ pending' = [pending EXCEPT ![l] = Append(@, Established(c))]
      BY <1>4, <2>1, <2>7 DEF NewConnection, Queue, Established
    <3>2. New(l, Established(c)) /\ Established(c) \in Functor
      BY <2>4, FunctorsDiffer DEF New, Established, Destruction
    <3>3. InOrder(l)' /\ Todos'[l] = Todos[l] \cup {Established(c)}
      BY <1>1, <1>2, <3>1, <3>2, WorkQueuedAt
    <3>4. \A k \in Loop : k # l => InOrder(k)' /\ Todos'[k] = Todos[k]
      BY <1>1, <1>2, <3>1, WorkSameAt
    <3>5. ASSUME NEW d \in Conn, d # c PROVE LifeOf(d)'
      <4>1. Established(d) # Established(c) /\ Destruction(d) # Established(c)
        BY <3>5, FunctorsDiffer
      <4> QED BY <1>1, <1>2, <2>5, <2>7, <3>3, <3>4, <3>5, <4>1, LifeOfOther
    <3>6. LifeOf(c)'
      <4>1. loopOf'[c] = l /\ state'[c] = "connecting" /\ destroys'[c] = 0 /\ c \in connections'
        BY <1>1, <1>2, <2>1, <2>2, <2>3, <3>1
      <4>2. Removal(c) \notin Todos'[0] /\ Established(c) \in Todos'[l] /\ Destruction(c) \notin Todos'[l]
        BY <1>1, <2>4, <2>7, <3>3, <3>4, FunctorsDiffer
      <4> QED BY <1>2, <2>7, <4>1, <4>2 DEF LifeOf
    <3> QED BY <3>3, <3>4, <3>5, <3>6 DEF LivesKept, Ordered
  <2> QED BY <2>6, <2>7
<1> QED BY <1>3, <1>4 DEF Accept

\* handleClose, removeConnection (TcpConnection.cpp:250-260, TcpServer.cpp:120-135).
LEMMA CloseKeeps ==
  ASSUME AllInv, AtStep, NEW l \in Loop, NEW c \in Conn, HandleClose(l, c)
  PROVE  LivesKept
<1>1. /\ ServerTypeOK /\ Ordered /\ \A d \in Conn : LifeOf(d) /\ loopOf[d] \in Loop
      /\ 0 \in Loop /\ connections \subseteq Conn
      /\ state \in [Conn -> {"absent", "backlog", "connecting", "connected", "disconnected"}]
      /\ pending \in [Loop -> Seq(Functor)]
  BY Shapes
<1>2. /\ UNCHANGED <<at, batch, calls, loopOf, destroys>> /\ at[l] = "dispatch"
      /\ state' = [state EXCEPT ![c] = "disconnected"]
  BY DEF HandleClose, poolVars
<1>3. state[c] = "connected" /\ loopOf[c] = l
  BY DEF HandleClose, AllInv, LifeInv, ActiveUp, PlaceInv, ActivePlaced
<1>4. \A d \in Conn : d # c => state'[d] = state[d]
  BY <1>1, <1>2
<1>5. /\ state'[c] = "disconnected" /\ Established(c) \notin Todos[l] /\ Removal(c) \notin Todos[0]
      /\ destroys[c] <= 1 /\ at[0] # "published"
      /\ c \in connections => destroys[c] = 0 /\ Destruction(c) \notin Todos[l]
      /\ destroys[c] = 1 => Destruction(c) \notin Todos[l]
      /\ c \notin connections => at[0] \in {"left", "done"}
  BY <1>1, <1>2, <1>3 DEF LifeOf, Accepted
<1>6. CASE l = 0
  <2>1. /\ c \in connections
    BY <1>2, <1>5, <1>6
  <2>2. /\ pending' = [pending EXCEPT ![l] = Append(@, Destruction(c))]
        /\ connections' = connections \ {c}
    BY <1>3, <1>6 DEF HandleClose, RemoveConnection, Queue, Destruction
  <2>3. New(l, Destruction(c)) /\ Destruction(c) \in Functor
    BY <1>5, <2>1, FunctorsDiffer DEF New
  <2>4. InOrder(l)' /\ Todos'[l] = Todos[l] \cup {Destruction(c)}
    BY <1>1, <1>2, <2>2, <2>3, WorkQueuedAt
  <2>5. \A k \in Loop : k # l => InOrder(k)' /\ Todos'[k] = Todos[k]
    BY <1>1, <1>2, <2>2, WorkSameAt
  <2>6. ASSUME NEW d \in Conn, d # c PROVE LifeOf(d)'
    <3>1. Established(d) # Destruction(c) /\ Destruction(d) # Destruction(c)
          /\ Removal(d) # Destruction(c)
      BY <2>6, FunctorsDiffer
    <3>2. d \in connections' <=> d \in connections
      BY <2>2, <2>6
    <3> QED BY <1>1, <1>2, <1>4, <1>6, <2>4, <2>5, <2>6, <3>1, <3>2, LifeOfOther
  <2>7. LifeOf(c)'
    <3>1. Established(c) \notin Todos'[l] /\ Removal(c) \notin Todos'[0]
      BY <1>5, <1>6, <2>4, FunctorsDiffer
    <3>2. loopOf'[c] = l /\ destroys'[c] = 0 /\ c \notin connections'
      BY <1>2, <1>3, <1>5, <2>1, <2>2
    <3>3. Destruction(c) \in Todos'[l]
      BY <2>4
    <3> QED BY <1>2, <1>5, <3>1, <3>2, <3>3 DEF LifeOf
  <2> QED BY <2>4, <2>5, <2>6, <2>7 DEF LivesKept, Ordered
<1>7. CASE l # 0
  <2>1. /\ pending' = [pending EXCEPT ![0] = Append(@, Removal(c))]
        /\ connections' = connections
    BY <1>7 DEF HandleClose, Queue, Removal
  <2>2. New(0, Removal(c)) /\ Removal(c) \in Functor
    BY <1>5, FunctorsDiffer DEF New
  <2>3. InOrder(0)' /\ Todos'[0] = Todos[0] \cup {Removal(c)}
    BY <1>1, <1>2, <2>1, <2>2, WorkQueuedAt
  <2>4. \A k \in Loop : k # 0 => InOrder(k)' /\ Todos'[k] = Todos[k]
    BY <1>1, <1>2, <2>1, WorkSameAt
  <2>5. ASSUME NEW d \in Conn, d # c PROVE LifeOf(d)'
    <3>1. Established(d) # Removal(c) /\ Destruction(d) # Removal(c) /\ Removal(d) # Removal(c)
      BY <2>5, FunctorsDiffer
    <3>2. \A k \in Loop : \A f \in {Established(d), Destruction(d), Removal(d)} :
             f \in Todos'[k] <=> f \in Todos[k]
      BY <1>1, <2>3, <2>4, <3>1
    <3> QED BY <1>1, <1>2, <1>4, <2>1, <2>5, <3>2, LifeOfOther
  <2>6. LifeOf(c)'
    <3>1. Todos'[l] = Todos[l] /\ loopOf'[c] = l /\ destroys' = destroys
      BY <1>2, <1>3, <1>7, <2>4
    <3>2. at[0] \in InLoop => c \in connections
      BY <1>5 DEF InLoop
    <3>3. c \notin connections /\ destroys[c] = 0 => Destruction(c) \in Todos[l]
      BY <1>1, <1>2, <1>3 DEF LifeOf, Accepted
    <3> QED BY <1>2, <1>5, <2>1, <3>1, <3>2, <3>3 DEF LifeOf, Accepted
  <2> QED BY <2>3, <2>4, <2>5, <2>6 DEF LivesKept, Ordered
<1> QED BY <1>6, <1>7

\* The functors of the server and of its connections (EventLoop.cpp:223-226).
LEMMA FunctorKeeps ==
  ASSUME AllInv, AtStep, NEW l \in Loop, RunFunctor(l)
  PROVE  LivesKept
<1>1. /\ ServerTypeOK /\ Ordered /\ \A d \in Conn : LifeOf(d) /\ loopOf[d] \in Loop
      /\ 0 \in Loop /\ connections \subseteq Conn
      /\ state \in [Conn -> {"absent", "backlog", "connecting", "connected", "disconnected"}]
      /\ destroys \in [Conn -> Nat] /\ pending \in [Loop -> Seq(Functor)] /\ calls \in [Loop -> Nat]
  BY Shapes
<1>2. /\ UNCHANGED <<at, batch, loopOf>> /\ at[l] = "functors" /\ calls[l] < Len(batch[l])
      /\ \A k \in Loop : calls'[k] = IF k = l THEN calls[k] + 1 ELSE calls[k]
  BY <1>1 DEF RunFunctor, poolVars
<1>3. PICK f \in Functor : f = batch[l][calls[l] + 1]
  BY <1>1, <1>2, NextFunctor
<1>4. PICK c \in Conn : c = f[2]
  BY DEF Functor
<1>5. Placed(l, f)
  <2>1. calls[l] + 1 \in 1 .. Len(batch[l])
    BY <1>1, <1>2, NextFunctor
  <2> QED BY <1>3, <2>1 DEF AllInv, PlaceInv, BatchPlaced
<1>6. ASSUME UNCHANGED pending
      PROVE  /\ InOrder(l)' /\ Todos'[l] = Todos[l] \ {f} /\ f \in Todos[l]
             /\ \A d : f = Destruction(d) => Established(d) \notin Todos[l]
             /\ \A k \in Loop : k # l => InOrder(k)' /\ Todos'[k] = Todos[k]
  <2>1. /\ InOrder(l)' /\ Todos'[l] = Todos[l] \ {f} /\ f \in Todos[l]
        /\ \A d : f = Destruction(d) => Established(d) \notin Todos[l]
    BY <1>1, <1>2, <1>3, <1>6, WorkCalledAt
  <2>2. \A k \in Loop : k # l => InOrder(k)' /\ Todos'[k] = Todos[k]
    BY <1>1, <1>2, <1>6, WorkSameAt
  <2> QED BY <2>1, <2>2
<1>7. CASE f[1] = "connectEstablished" /\ state' = [state EXCEPT ![c] = "connected"]
           /\ UNCHANGED <<connections, pending, destroys>>
  <2>1. f = Established(c) /\ l = loopOf[c]
    BY <1>4, <1>5, <1>7 DEF Established, Functor, Placed
  <2>2. ASSUME NEW d \in Conn, d # c PROVE LifeOf(d)'
    <3>1. Established(d) # f /\ Destruction(d) # f /\ Removal(d) # f
      BY <2>1, <2>2, FunctorsDiffer
    <3>2. \A k \in Loop : \A g \in {Established(d), Destruction(d), Removal(d)} :
             g \in Todos'[k] <=> g \in Todos[k]
      BY <1>6, <1>7, <3>1
    <3>3. state'[d] = state[d]
      BY <1>1, <1>7, <2>2
    <3> QED BY <1>1, <1>2, <1>7, <3>2, <3>3, LifeOfOther
  <2>3. LifeOf(c)'
    <3>1. state'[c] = "connected" /\ state[c] = "connecting"
      BY <1>1, <1>6, <1>7, <2>1 DEF LifeOf
    <3>2. Established(c) \notin Todos'[l] /\ Removal(c) \notin Todos'[0]
          /\ (Destruction(c) \in Todos'[l] <=> Destruction(c) \in Todos[l])
      <4>1. Removal(c) \notin Todos[0]
        BY <1>1, <3>1 DEF LifeOf
      <4>2. Established(c) # Destruction(c)
        BY FunctorsDiffer
      <4> QED BY <1>1, <1>6, <1>7, <2>1, <4>1, <4>2
    <3> QED BY <1>1, <1>2, <1>7, <2>1, <3>1, <3>2 DEF LifeOf, Accepted
  <2> QED BY <1>6, <1>7, <2>2, <2>3 DEF LivesKept, Ordered
<1>8. CASE f[1] = "removeConnectionInLoop" /\ RemoveConnection(c) /\ UNCHANGED <<state, destroys>>
  <2>1. f = Removal(c) /\ l = 0 /\ loopOf[c] # 0
    BY <1>4, <1>5, <1>8 DEF Removal, Functor, Placed
  <2>2. PICK k \in Loop : k = loopOf[c] /\ k # l
    BY <1>1, <2>1
  <2>3. /\ pending' = [pending EXCEPT ![k] = Append(@, Destruction(c))]
        /\ connections' = connections \ {c}
    BY <1>8, <2>2 DEF RemoveConnection, Queue, Destruction
  <2>4. InOrder(l)' /\ Todos'[l] = Todos[l] \ {f} /\ f \in Todos[l]
    <3>1. pending'[l] = pending[l]
      BY <1>1, <2>2, <2>3
    <3> QED BY <1>1, <1>2, <1>3, <3>1, WorkCalledAt
  <2>5. state[c] = "disconnected" /\ c \in connections
    BY <1>1, <1>2, <2>1, <2>4 DEF LifeOf, InLoop
  <2>6. New(k, Destruction(c)) /\ Destruction(c) \in Functor
    BY <1>1, <2>2, <2>5, FunctorsDiffer DEF New, LifeOf
  <2>7. InOrder(k)' /\ Todos'[k] = Todos[k] \cup {Destruction(c)}
    <3>1. batch'[k] = batch[k] /\ calls'[k] = calls[k] /\ pending'[k] = Append(pending[k], Destruction(c))
      BY <1>1, <1>2, <2>2, <2>3
    <3> QED BY <1>1, <2>6, <3>1, WorkQueuedAt
  <2>8. \A j \in Loop : j # l /\ j # k => InOrder(j)' /\ Todos'[j] = Todos[j]
    BY <1>1, <1>2, <2>3, WorkSameAt
  <2>9. ASSUME NEW d \in Conn, d # c PROVE LifeOf(d)'
    <3>1. /\ Established(d) # f /\ Destruction(d) # f /\ Removal(d) # f
          /\ Established(d) # Destruction(c) /\ Destruction(d) # Destruction(c)
          /\ Removal(d) # Destruction(c)
      BY <2>1, <2>9, FunctorsDiffer
    <3>2. \A j \in Loop : \A g \in {Established(d), Destruction(d), Removal(d)} :
             g \in Todos'[j] <=> g \in Todos[j]
      BY <2>4, <2>7, <2>8, <3>1
    <3>3. d \in connections' <=> d \in connections
      BY <2>3, <2>9
    <3> QED BY <1>1, <1>2, <1>8, <3>2, <3>3, LifeOfOther
  <2>10. LifeOf(c)'
    <3>1. c \notin connections' /\ state'[c] = "disconnected" /\ destroys'[c] = 0 /\ loopOf'[c] = k
      BY <1>1, <1>2, <1>8, <2>2, <2>3, <2>5 DEF LifeOf
    <3>2. Removal(c) \notin Todos'[0]
      BY <2>1, <2>4
    <3>3. Established(c) \notin Todos'[k]
      <4>1. Established(c) \notin Todos[k]
        BY <1>1, <2>2, <2>5 DEF LifeOf
      <4>2. Established(c) # Destruction(c)
        BY FunctorsDiffer
      <4> QED BY <2>7, <4>1, <4>2
    <3>4. Destruction(c) \in Todos'[k]
      BY <2>7
    <3> QED BY <1>2, <2>1, <3>1, <3>2, <3>3, <3>4 DEF LifeOf
  <2> QED BY <2>4, <2>7, <2>8, <2>9, <2>10 DEF LivesKept, Ordered
<1>9. CASE f[1] = "connectDestroyed" /\ ConnectDestroyed(c) /\ UNCHANGED <<connections, pending>>
  <2>1. f = Destruction(c) /\ l = loopOf[c]
    BY <1>4, <1>5, <1>9 DEF Destruction, Functor, Placed
  <2>2. /\ destroys'[c] = destroys[c] + 1 /\ state'[c] = IF state[c] = "connected" THEN "disconnected" ELSE state[c]
        /\ \A d \in Conn : d # c => state'[d] = state[d] /\ destroys'[d] = destroys[d]
    BY <1>1, <1>9 DEF ConnectDestroyed
  <2>3. ASSUME NEW d \in Conn, d # c PROVE LifeOf(d)'
    <3>1. Established(d) # f /\ Destruction(d) # f /\ Removal(d) # f
      BY <2>1, <2>3, FunctorsDiffer
    <3>2. \A k \in Loop : \A g \in {Established(d), Destruction(d), Removal(d)} :
             g \in Todos'[k] <=> g \in Todos[k]
      BY <1>6, <1>9, <3>1
    <3> QED BY <1>1, <1>2, <1>9, <2>2, <2>3, <3>2, LifeOfOther
  <2>4. LifeOf(c)'
    <3>1. c \notin connections /\ destroys[c] = 0 /\ state[c] # "connecting"
      BY <1>1, <1>2, <1>6, <1>9, <2>1 DEF LifeOf
    <3>2. Established(c) \notin Todos'[l] /\ Destruction(c) \notin Todos'[l]
          /\ (Removal(c) \in Todos'[0] => Removal(c) \in Todos[0])
      BY <1>1, <1>6, <1>9, <2>1
    <3>3. Accepted(c)' /\ destroys'[c] = 1
      BY <1>4, <1>5, <2>2, <3>1 DEF Placed, Accepted
    <3>4. state'[c] \notin {"connecting", "connected"} /\ (state[c] = "disconnected" => state'[c] = "disconnected")
      BY <2>2, <3>1
    <3>5. Accepted(c)
      BY <1>4, <1>5 DEF Placed
    <3> QED BY <1>1, <1>2, <1>9, <2>1, <3>1, <3>2, <3>3, <3>4, <3>5 DEF LifeOf
  <2> QED BY <1>6, <1>9, <2>3, <2>4 DEF LivesKept, Ordered
<1> QED BY <1>3, <1>4, <1>7, <1>8, <1>9 DEF RunFunctor

\* ~TcpServer (TcpServer.cpp:37-52).
LEMMA DestroyKeeps ==
  ASSUME AllInv, AtStep, NEW c \in Conn, DestroyConnection(c)
  PROVE  LivesKept
<1>1. /\ ServerTypeOK /\ Ordered /\ \A d \in Conn : LifeOf(d) /\ loopOf[d] \in Loop
      /\ 0 \in Loop /\ connections \subseteq Conn
      /\ state \in [Conn -> {"absent", "backlog", "connecting", "connected", "disconnected"}]
      /\ destroys \in [Conn -> Nat] /\ pending \in [Loop -> Seq(Functor)]
  BY Shapes
<1>2. /\ UNCHANGED <<at, batch, calls, loopOf>> /\ at[0] = "left"
      /\ c \in connections /\ connections' = connections \ {c}
  BY DEF DestroyConnection, poolVars
<1>3. Accepted(c) /\ destroys[c] = 0 /\ Destruction(c) \notin Todos[loopOf[c]]
  BY <1>1, <1>2 DEF LifeOf, AllInv, PlaceInv, MapInv
<1>4. CASE loopOf[c] = 0 /\ ConnectDestroyed(c) /\ UNCHANGED pending
  <2>1. \A k \in Loop : InOrder(k)' /\ Todos'[k] = Todos[k]
    BY <1>1, <1>2, <1>4, WorkSameAt
  <2>2. /\ destroys'[c] = 1 /\ state'[c] = IF state[c] = "connected" THEN "disconnected" ELSE state[c]
        /\ \A d \in Conn : d # c => state'[d] = state[d] /\ destroys'[d] = destroys[d]
    BY <1>1, <1>3, <1>4 DEF ConnectDestroyed
  <2>3. ASSUME NEW d \in Conn, d # c PROVE LifeOf(d)'
    BY <1>1, <1>2, <2>1, <2>2, <2>3, LifeOfOther
  <2>4. LifeOf(c)'
    <3>1. state[c] # "connecting" /\ Accepted(c)'
      BY <1>1, <1>3, <1>4, <2>2 DEF LifeOf, Accepted
    <3> QED BY <1>1, <1>2, <1>3, <1>4, <2>1, <2>2, <3>1 DEF LifeOf, InLoop
  <2> QED BY <2>1, <2>3, <2>4 DEF LivesKept, Ordered
<1>5. CASE loopOf[c] # 0 /\ Queue(loopOf[c], "connectDestroyed", c) /\ UNCHANGED <<state, destroys>>
  <2>1. PICK l \in Loop : l = loopOf[c]
    BY <1>1
  <2>2. pending' = [pending EXCEPT ![l] = Append(@, Destruction(c))]
    BY <1>5, <2>1 DEF Queue, Destruction
  <2>3. New(l, Destruction(c)) /\ Destruction(c) \in Functor
    BY <1>3, <2>1, FunctorsDiffer DEF New
  <2>4. InOrder(l)' /\ Todos'[l] = Todos[l] \cup {Destruction(c)}
    BY <1>1, <1>2, <2>2, <2>3, WorkQueuedAt
  <2>5. \A k \in Loop : k # l => InOrder(k)' /\ Todos'[k] = Todos[k]
    BY <1>1, <1>2, <2>2, WorkSameAt
  <2>6. ASSUME NEW d \in Conn, d # c PROVE LifeOf(d)'
    <3>1. Established(d) # Destruction(c) /\ Destruction(d) # Destruction(c)
          /\ Removal(d) # Destruction(c)
      BY <2>6, FunctorsDiffer
    <3>2. \A k \in Loop : \A g \in {Established(d), Destruction(d), Removal(d)} :
             g \in Todos'[k] <=> g \in Todos[k]
      BY <2>4, <2>5, <3>1
    <3>3. d \in connections' <=> d \in connections
      BY <1>2, <2>6
    <3> QED BY <1>1, <1>2, <1>5, <3>2, <3>3, LifeOfOther
  <2>7. LifeOf(c)'
    <3>1. Established(c) \in Todos'[l] <=> Established(c) \in Todos[l]
      BY <2>4, FunctorsDiffer
    <3>2. Removal(c) \in Todos'[0] => Removal(c) \in Todos[0]
      BY <1>1, <2>4, <2>5, FunctorsDiffer
    <3>3. c \notin connections' /\ destroys'[c] = 0 /\ loopOf'[c] = l /\ Destruction(c) \in Todos'[l]
      BY <1>2, <1>3, <1>5, <2>1, <2>4
    <3> QED BY <1>1, <1>2, <1>5, <2>1, <3>1, <3>2, <3>3 DEF LifeOf, Accepted, InLoop
  <2> QED BY <2>4, <2>5, <2>6, <2>7 DEF LivesKept, Ordered
<1> QED BY <1>4, <1>5 DEF DestroyConnection

THEOREM ServerLives == ServerSafeSpec => []AllInv
<1>1. Init => LifeInv
  <2> SUFFICES ASSUME Init PROVE LifeInv
    OBVIOUS
  <2>1. /\ \A l \in Loop : pending[l] = <<>> /\ batch[l] = <<>> /\ calls[l] = 0 /\ active[l] = {}
        /\ 0 \in Loop
        /\ \A c \in Conn : /\ state[c] = "absent" /\ loopOf[c] = 0 /\ destroys[c] = 0
                          /\ c \notin connections
    BY PoolAssumption DEF Init, Loop
  <2>2. SizeOf(<<>>, 0, <<>>) = 0
    BY DEF SizeOf
  <2>3. \A w : Orderly(0, w) /\ \A f : ~Has(0, w, f)
    BY DEF Orderly, Has
  <2>4. \A l \in Loop : InOrder(l) /\ Todos[l] = {}
    BY <2>1, <2>2, <2>3 DEF InOrder, Todos, Todo
  <2> QED BY <2>1, <2>4 DEF LifeInv, Ordered, ActiveUp, LifeOf, Accepted
<1>2. AllInv /\ [ServerNext]_vars => LifeInv'
  <2> SUFFICES ASSUME AllInv, [ServerNext]_vars PROVE LifeInv'
    OBVIOUS
  <2>1. AtStep
    BY AtMoves DEF AllInv
  <2>2. ServerNext => ActiveUp'
    BY ActiveKept DEF AllInv, LifeInv
  <2>3. CASE UNCHANGED vars
    <3>1. LivesKept
      BY <2>1, <2>3, QuietKeeps DEF vars, connVars, queueVars
    <3>2. ActiveUp'
      BY <2>3 DEF AllInv, LifeInv, ActiveUp, vars, poolVars, connVars, queueVars
    <3> QED BY <3>1, <3>2 DEF LivesKept, LifeInv
  <2>4. ASSUME PoolStep \/ Listen \/ DestroyPool \/ CloseAcceptor
        PROVE  LivesKept
    <3>1. UNCHANGED <<state, loopOf, connections, destroys, batch, calls, pending>>
      BY <2>4 DEF PoolStep, Listen, DestroyPool, CloseAcceptor, connVars, queueVars
    <3> QED BY <2>1, <3>1, QuietKeeps
  <2>5. ASSUME NEW l \in Loop, PollReady(l) \/ Swap(l) \/ EndBatch(l)
        PROVE  LivesKept
    <3>1. UNCHANGED <<state, loopOf, connections, destroys>>
      BY <2>5 DEF PollReady, Swap, EndBatch, connVars
    <3>2. /\ pending \in [Loop -> Seq(Functor)] /\ batch \in [Loop -> Seq(Functor)]
          /\ calls \in [Loop -> Nat]
      BY Shapes
    <3>3. ASSUME NEW k \in Loop
          PROVE  \/ batch'[k] = batch[k] /\ calls'[k] = calls[k] /\ pending'[k] = pending[k]
                 \/ batch[k] = <<>> /\ calls[k] = 0 /\ batch'[k] = pending[k] /\ calls'[k] = 0 /\ pending'[k] = <<>>
                 \/ calls[k] = Len(batch[k]) /\ batch'[k] = <<>> /\ calls'[k] = 0 /\ pending'[k] = pending[k]
      <4>1. CASE PollReady(l)
        BY <4>1 DEF PollReady
      <4>2. CASE Swap(l)
        <5>1. batch[l] = <<>> /\ calls[l] = 0
          BY <4>2 DEF Swap, TakePending, AllInv, TypesInv, BatchInv
        <5> QED BY <3>2, <4>2, <5>1 DEF Swap
      <4>3. CASE EndBatch(l)
        BY <3>2, <4>3 DEF EndBatch
      <4> QED BY <2>5, <4>1, <4>2, <4>3
    <3> QED BY <2>1, <3>1, <3>3, QuietKeeps
  <2>6. ASSUME BaseEnds PROVE LivesKept
    <3>1. 0 \in Loop /\ at[0] # "functors" /\ at'[0] = "done" /\ DropFunctors(0)
      BY <2>6, Shapes DEF BaseEnds, BaseDies, GoTo, AllInv, TypesInv, PoolInv, BaseInv, InLoop
    <3> QED BY <2>1, <3>1, DropKeeps
  <2>7. ASSUME NEW i \in Thread, ThreadEnds(i)
        PROVE  LivesKept
    <3>1. i \in Loop /\ at[i] # "functors" /\ at'[i] = "done" /\ DropFunctors(i)
      BY <2>7, Shapes, PoolAssumption DEF ThreadEnds, Die, GoTo, Thread, Loop
    <3> QED BY <2>1, <3>1, DropKeeps
  <2>8. ServerNext => LivesKept
    BY <2>1, <2>4, <2>5, <2>6, <2>7, AcceptKeeps, CloseKeeps, FunctorKeeps, DestroyKeeps, ClientKeeps
       DEF ServerNext, ServerStep, RoundStep
  <2> QED BY <2>2, <2>3, <2>8 DEF LivesKept, LifeInv
<1> QED BY <1>1, <1>2, ServerPlaces, PTL DEF ServerSafeSpec, AllInv

\* connectDestroyed is called at most once for every connection, whoever asks for
\* it first (TcpConnection.cpp:166, TcpServer.cpp:37-52,126-135).
THEOREM DestroysOnce == ServerSafeSpec => []DestroyedAtMostOnce
<1>1. AllInv => DestroyedAtMostOnce
  BY DEF AllInv, LifeInv, LifeOf, DestroyedAtMostOnce
<1> QED BY <1>1, ServerLives, PTL

\* Whatever the poller of a loop that may still poll knows of, somebody holds
\* (EPollPoller.cpp:166, TcpServer.cpp:105,120-135).
THEOREM PolledIsHeld == ServerSafeSpec => []PollerHoldsLive
<1>1. AllInv => PollerHoldsLive
  <2> SUFFICES ASSUME AllInv, NEW c \in Conn, state[c] = "connected", at[loopOf[c]] \in Alive
               PROVE  Held(c)
    BY DEF PollerHoldsLive
  <2>1. LifeOf(c) /\ ServerTypeOK /\ loopOf[c] \in Loop
    BY Shapes
  <2>2. CASE c \in connections
    BY <2>2 DEF Held
  <2>3. CASE c \notin connections
    <3>1. Destruction(c) \in Todos[loopOf[c]]
      BY <2>1, <2>3 DEF LifeOf, Alive, InLoop
    <3>2. Todo(loopOf[c], Destruction(c)) /\ Destruction(c)[2] = c
      BY <2>1, <3>1 DEF Todos, Destruction
    <3> QED BY <2>1, <3>2, TodoHolds
  <2> QED BY <2>2, <2>3
<1> QED BY <1>1, ServerLives, PTL

\* While the loop of a connection is there, the connection is not freed before its
\* connectDestroyed has run: the functor that is owed holds it (TcpServer.cpp:36,133-134).
THEOREM OwedIsPaid == ServerSafeSpec => []OnlyLoopEndSkipsDestroy
<1>1. AllInv => OnlyLoopEndSkipsDestroy
  <2> SUFFICES ASSUME AllInv, NEW c \in Conn, Accepted(c), ~Held(c), destroys[c] = 0
               PROVE  at[loopOf[c]] = "done"
    BY DEF OnlyLoopEndSkipsDestroy, Freed
  <2>1. LifeOf(c) /\ ServerTypeOK /\ loopOf[c] \in Loop
    BY Shapes
  <2>2. c \notin connections
    BY DEF Held
  <2>3. Destruction(c) \notin Todos[loopOf[c]]
    <3>1. Destruction(c)[2] = c
      BY DEF Destruction
    <3>2. ~Todo(loopOf[c], Destruction(c))
      BY <2>1, <3>1, TodoHolds
    <3> QED BY <2>1, <3>2 DEF Todos
  <2> QED BY <2>1, <2>2, <2>3 DEF LifeOf
<1> QED BY <1>1, ServerLives, PTL

\* Both together: exactly once before it is freed, unless its I/O loop ends first
\* (TcpConnection.cpp:166, TcpServer.cpp:36-52,126-135, EventLoop.cpp:57-65).
THEOREM DestroysExactlyOnce == ServerSafeSpec => []ConnectDestroyedOnce
<1>1. DestroyedAtMostOnce /\ OnlyLoopEndSkipsDestroy => ConnectDestroyedOnce
  BY DEF ConnectDestroyedOnce
<1> QED BY <1>1, DestroysOnce, OwedIsPaid, PTL

=============================================================================
