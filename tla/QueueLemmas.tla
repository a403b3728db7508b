----------------------------- MODULE QueueLemmas -------------------------------
(***************************************************************************)
(* Lemmas about first-in first-out queues: channels, and the queues of     *)
(* ready workers, in which a worker is at most once.                       *)
(***************************************************************************)
EXTENDS Naturals, Sequences, SequencesExt, TLAPS

\* What a handler finds when it takes the head of a queue.
LEMMA TakeFacts ==
    ASSUME NEW S, NEW s \in Seq(S), s # <<>>
    PROVE  /\ Head(s) \in S
           /\ Head(s) = s[1]
           /\ Len(s) \in Nat /\ Len(s) >= 1
           /\ DOMAIN s = 1 .. Len(s)
           /\ Tail(s) \in Seq(S)
           /\ Len(Tail(s)) = Len(s) - 1
           /\ DOMAIN Tail(s) = 1 .. (Len(s) - 1)
           /\ \A i \in 1 .. (Len(s) - 1) : Tail(s)[i] = s[i + 1]
  OBVIOUS

\* What a handler leaves when it puts a value at the end of a queue.
LEMMA PutFacts ==
    ASSUME NEW S, NEW s \in Seq(S), NEW e \in S
    PROVE  /\ Append(s, e) \in Seq(S)
           /\ Len(s) \in Nat
           /\ DOMAIN s = 1 .. Len(s)
           /\ Len(Append(s, e)) = Len(s) + 1
           /\ DOMAIN Append(s, e) = 1 .. (Len(s) + 1)
           /\ Append(s, e)[Len(s) + 1] = e
           /\ \A i \in 1 .. Len(s) : Append(s, e)[i] = s[i]
  OBVIOUS

\* One sequence after another.
LEMMA JoinFacts ==
    ASSUME NEW S, NEW a \in Seq(S), NEW b \in Seq(S)
    PROVE  /\ a \o b \in Seq(S)
           /\ Len(a \o b) = Len(a) + Len(b)
           /\ \A i \in 1 .. Len(a) : (a \o b)[i] = a[i]
           /\ \A i \in 1 .. Len(b) : (a \o b)[Len(a) + i] = b[i]
  OBVIOUS

LEMMA PutNonempty ==
    ASSUME NEW S, NEW s \in Seq(S), NEW e \in S
    PROVE  Append(s, e) # <<>>
  <1>1. 1 \in DOMAIN Append(s, e)
    BY PutFacts
  <1>2. DOMAIN <<>> = {}
    OBVIOUS
  <1> QED
    BY <1>1, <1>2

\* Taking the head of a queue without repetitions, and adding a newcomer.
EachOnce(q) == \A i, j \in DOMAIN q : q[i] = q[j] => i = j
InQueue(q, w) == \E i \in DOMAIN q : q[i] = w

LEMMA TakeOnce ==
    ASSUME NEW S, NEW q \in Seq(S), q # <<>>, EachOnce(q)
    PROVE  /\ EachOnce(Tail(q))
           /\ \A w : InQueue(Tail(q), w) <=> InQueue(q, w) /\ w # Head(q)
  <1>1. /\ Head(q) = q[1] /\ Len(q) \in Nat /\ Len(q) >= 1 /\ DOMAIN q = 1 .. Len(q)
        /\ DOMAIN Tail(q) = 1 .. (Len(q) - 1)
        /\ \A i \in 1 .. (Len(q) - 1) : Tail(q)[i] = q[i + 1]
    BY TakeFacts
  <1>2. ASSUME NEW i \in DOMAIN Tail(q), NEW j \in DOMAIN Tail(q), Tail(q)[i] = Tail(q)[j]
        PROVE  i = j
    BY <1>1, <1>2 DEF EachOnce
  <1>3. ASSUME NEW w, NEW i \in DOMAIN Tail(q), Tail(q)[i] = w
        PROVE  (\E k \in DOMAIN q : q[k] = w) /\ w # Head(q)
    <2>1. i + 1 \in DOMAIN q /\ q[i + 1] = w /\ i + 1 # 1 /\ 1 \in DOMAIN q
      BY <1>1, <1>3
    <2> QED
      BY <1>1, <2>1 DEF EachOnce
  <1>4. ASSUME NEW w, NEW i \in DOMAIN q, q[i] = w, w # Head(q)
        PROVE  \E k \in DOMAIN Tail(q) : Tail(q)[k] = w
    <2>1. i # 1
      BY <1>1, <1>4
    <2>2. i - 1 \in DOMAIN Tail(q) /\ Tail(q)[i - 1] = w
      BY <1>1, <1>4, <2>1
    <2> QED
      BY <2>2
  <1> QED
    BY <1>2, <1>3, <1>4 DEF EachOnce, InQueue

LEMMA PutOnce ==
    ASSUME NEW S, NEW q \in Seq(S), NEW x \in S, EachOnce(q), ~InQueue(q, x)
    PROVE  /\ EachOnce(Append(q, x))
           /\ \A w : InQueue(Append(q, x), w) <=> InQueue(q, w) \/ w = x
  <1>1. /\ Len(q) \in Nat /\ DOMAIN q = 1 .. Len(q)
        /\ DOMAIN Append(q, x) = 1 .. (Len(q) + 1)
        /\ Append(q, x)[Len(q) + 1] = x
        /\ \A i \in 1 .. Len(q) : Append(q, x)[i] = q[i]
    BY PutFacts
  <1>2. \A i, j \in DOMAIN Append(q, x) : Append(q, x)[i] = Append(q, x)[j] => i = j
    <2> TAKE i, j \in DOMAIN Append(q, x)
    <2>1. (i \in DOMAIN q \/ i = Len(q) + 1) /\ (j \in DOMAIN q \/ j = Len(q) + 1)
      BY <1>1
    <2> QED
      BY <1>1, <2>1 DEF EachOnce, InQueue
  <1>3. \A w : InQueue(Append(q, x), w) <=> InQueue(q, w) \/ w = x
    <2>1. \A i \in DOMAIN Append(q, x) : i \in DOMAIN q \/ i = Len(q) + 1
      BY <1>1
    <2>2. \A i \in DOMAIN q : i \in DOMAIN Append(q, x)
      BY <1>1
    <2>3. Len(q) + 1 \in DOMAIN Append(q, x)
      BY <1>1
    <2> QED
      BY <1>1, <2>1, <2>2, <2>3 DEF InQueue
  <1> QED
    BY <1>2, <1>3 DEF EachOnce

\* The turns of the workers: one joins at some place, the first goes to the end.
LEMMA RotationJoins ==
    ASSUME NEW S, NEW q \in Seq(S), IsInjective(q), NEW w \in S, w \notin ToSet(q),
           NEW i \in 1 .. Len(q) + 1
    PROVE  InsertAt(q, i, w) \in Seq(S) /\ IsInjective(InsertAt(q, i, w))
  <1> DEFINE r == InsertAt(q, i, w)
             a == SubSeq(q, 1, i - 1)
             b == SubSeq(q, i, Len(q))
  <1>1. /\ Len(q) \in Nat /\ DOMAIN q = 1 .. Len(q) /\ \A j \in 1 .. Len(q) : q[j] \in S
        /\ i \in Nat /\ i >= 1 /\ i <= Len(q) + 1
    OBVIOUS
  <1>2. a \in Seq(S) /\ Len(a) = i - 1 /\ \A j \in 1 .. (i - 1) : a[j] = q[j]
    BY <1>1
  <1>3. b \in Seq(S) /\ Len(b) = Len(q) + 1 - i /\ \A j \in 1 .. (Len(q) + 1 - i) : b[j] = q[j + i - 1]
    <2>1. b = [j \in 1 .. (Len(q) + 1 - i) |-> q[j + i - 1]]
      BY <1>1
    <2>2. \A j \in 1 .. (Len(q) + 1 - i) : q[j + i - 1] \in S
      BY <1>1
    <2>3. Len(q) + 1 - i \in Nat
      BY <1>1
    <2> QED
      BY <2>1, <2>2, <2>3
  <1>4. r = a \o <<w>> \o b
    BY DEF InsertAt
  <1> HIDE DEF a, b, r
  <1>5. /\ r \in Seq(S) /\ Len(r) = Len(q) + 1
        /\ \A j \in 1 .. (i - 1) : r[j] = q[j]
        /\ r[i] = w
        /\ \A j \in (i + 1) .. (Len(q) + 1) : r[j] = q[j - 1]
    <2> DEFINE c == a \o <<w>>
    <2>1. /\ c \in Seq(S) /\ Len(c) = i /\ c[i] = w /\ \A j \in 1 .. (i - 1) : c[j] = q[j]
      <3>1. /\ <<w>> \in Seq(S) /\ Len(<<w>>) = 1 /\ <<w>>[1] = w
        OBVIOUS
      <3>2. a \in Seq(S) /\ Len(a) = i - 1
        BY <1>2
      <3>3. /\ c \in Seq(S) /\ Len(c) = Len(a) + 1 /\ c[Len(a) + 1] = w
            /\ \A j \in 1 .. Len(a) : c[j] = a[j]
        BY <3>1, <3>2, JoinFacts
      <3> QED
        BY <1>1, <1>2, <3>2, <3>3
    <2>2. r = c \o b
      BY <1>4
    <2> HIDE DEF c
    <2>3. r \in Seq(S) /\ Len(r) = Len(q) + 1
      <3>1. c \o b \in Seq(S) /\ Len(c \o b) = Len(c) + Len(b)
        BY <1>3, <2>1, JoinFacts
      <3> QED
        BY <1>1, <1>3, <2>1, <2>2, <3>1
    <2>4. \A j \in 1 .. i : r[j] = c[j]
      BY <1>3, <2>1, <2>2, JoinFacts
    <2>5. \A j \in (i + 1) .. (Len(q) + 1) : r[j] = q[j - 1]
      <3> TAKE j \in (i + 1) .. (Len(q) + 1)
      <3>1. /\ j - i \in 1 .. (Len(q) + 1 - i)
            /\ i + (j - i) = j /\ (j - i) + i - 1 = j - 1
        BY <1>1
      <3>2. (c \o b)[Len(c) + (j - i)] = b[j - i]
        BY <1>3, <2>1, <3>1, JoinFacts
      <3> QED
        BY <1>3, <2>1, <2>2, <3>1, <3>2
    <2>6. \A j \in 1 .. (i - 1) : r[j] = q[j]
      <3> TAKE j \in 1 .. (i - 1)
      <3>1. j \in 1 .. i
        BY <1>1
      <3> QED
        BY <2>1, <2>4, <3>1
    <2>7. r[i] = w
      <3>1. i \in 1 .. i
        BY <1>1
      <3> QED
        BY <2>1, <2>4, <3>1
    <2> QED
      BY <2>3, <2>5, <2>6, <2>7
  <1>6. \A j \in DOMAIN q : q[j] # w
    BY DEF ToSet
  \* Where a worker of the new rotation was before.
  <1> DEFINE old(j) == IF j < i THEN j ELSE j - 1
  <1>7. ASSUME NEW j \in DOMAIN r, j # i
        PROVE  old(j) \in DOMAIN q /\ r[j] = q[old(j)] /\ r[j] # w
    <2>1. j \in 1 .. (Len(q) + 1)
      BY <1>1, <1>5
    <2>2. old(j) \in DOMAIN q /\ r[j] = q[old(j)]
      BY <1>1, <1>5, <1>7, <2>1
    <2> QED
      BY <1>6, <2>2
  <1>8. ASSUME NEW j \in DOMAIN r, NEW k \in DOMAIN r, r[j] = r[k] PROVE j = k
    <2>1. j \in Nat /\ k \in Nat
      BY <1>1, <1>5
    <2>2. CASE j = i
      BY <1>5, <1>7, <1>8, <2>2
    <2>3. CASE k = i
      BY <1>5, <1>7, <1>8, <2>3
    <2>4. CASE j # i /\ k # i
      <3>1. old(j) = old(k)
        <4> HIDE DEF old
        <4> QED
          BY <1>7, <1>8, <2>4 DEF IsInjective
      <3> QED
        BY <1>1, <2>1, <2>4, <3>1
    <2> QED
      BY <2>2, <2>3, <2>4
  <1> QED
    BY <1>5, <1>8 DEF IsInjective, r

LEMMA RotationTurns ==
    ASSUME NEW S, NEW q \in Seq(S), IsInjective(q), q # <<>>
    PROVE  LET r == Append(Tail(q), Head(q)) IN r \in Seq(S) /\ IsInjective(r)
  <1> DEFINE a == Tail(q)
             h == Head(q)
  <1>1. h \in S /\ a \in Seq(S)
    BY TakeFacts
  <1>2. EachOnce(a) /\ \A w : InQueue(a, w) <=> InQueue(q, w) /\ w # h
    <2>1. EachOnce(q)
      BY DEF IsInjective, EachOnce
    <2> QED
      BY <2>1, TakeOnce
  <1> HIDE DEF a, h
  <1>3. ~InQueue(a, h)
    BY <1>2
  <1>4. Append(a, h) \in Seq(S)
    BY <1>1, PutFacts
  <1>5. EachOnce(Append(a, h))
    BY <1>1, <1>2, <1>3, PutOnce
  <1> QED
    BY <1>4, <1>5 DEF IsInjective, EachOnce, a, h

--------------------------------------------------------------------------------
(***************************************************************************)
(* One message among many queues.  f gives the queue of each channel in C, *)
(* and M is a set of pairs of a channel and a message: those that concern  *)
(* somebody.  Either exactly one message in f is such, or none is; taking  *)
(* the head of a queue and putting a message in one have these effects.    *)
(***************************************************************************)
OnlyOne(C, f, M, c, i) ==
    /\ <<c, f[c][i]>> \in M
    /\ \A b \in C : \A j \in DOMAIN f[b] : <<b, f[b][j]>> \in M => b = c /\ j = i

HasOne(C, f, M, c, m) ==
    c \in C /\ \E i \in DOMAIN f[c] : f[c][i] = m /\ OnlyOne(C, f, M, c, i)

HasNone(C, f, M) == \A b \in C : \A j \in DOMAIN f[b] : <<b, f[b][j]>> \notin M

LEMMA OneIsUnique ==
    ASSUME NEW C, NEW f, NEW M, NEW c, NEW m, HasOne(C, f, M, c, m)
    PROVE  /\ ~HasNone(C, f, M)
           /\ <<c, m>> \in M
           /\ \A b, n : HasOne(C, f, M, b, n) => b = c /\ n = m
  BY DEF HasOne, OnlyOne, HasNone

\* The head of c is taken; it concerns somebody else, or it is the one message.
LEMMA TakeOne ==
    ASSUME NEW C, NEW S, NEW f \in [C -> Seq(S)], NEW c \in C, f[c] # <<>>, NEW M,
           NEW g, g[c] = Tail(f[c]), \A b \in C \ {c} : g[b] = f[b]
    PROVE  /\ <<c, Head(f[c])>> \notin M =>
                /\ \A b, m : HasOne(C, f, M, b, m) => HasOne(C, g, M, b, m)
                /\ HasNone(C, f, M) => HasNone(C, g, M)
           /\ <<c, Head(f[c])>> \in M =>
                /\ ~HasNone(C, f, M)
                /\ \A b, m : HasOne(C, f, M, b, m)
                      => b = c /\ m = Head(f[c]) /\ HasNone(C, g, M)
  <1>1. /\ Head(f[c]) = f[c][1] /\ Len(f[c]) \in Nat /\ 1 \in DOMAIN f[c]
        /\ DOMAIN f[c] = 1 .. Len(f[c])
        /\ DOMAIN g[c] = 1 .. (Len(f[c]) - 1)
        /\ \A i \in 1 .. (Len(f[c]) - 1) : g[c][i] = f[c][i + 1]
    BY TakeFacts
  \* Each message in g is one of f, at the same place or one place further.
  <1>2. ASSUME NEW b \in C, NEW j \in DOMAIN g[b]
        PROVE  LET i == IF b = c THEN j + 1 ELSE j
               IN  i \in DOMAIN f[b] /\ g[b][j] = f[b][i] /\ (b = c => i # 1 /\ j \in Nat)
    <2>1. CASE b # c
      BY <2>1
    <2>2. CASE b = c
      <3>1. j \in 1 .. (Len(f[c]) - 1)
        BY <1>1, <2>2
      <3> QED
        BY <1>1, <2>2, <3>1
    <2> QED
      BY <2>1, <2>2
  <1>3. ASSUME <<c, Head(f[c])>> \notin M, HasNone(C, f, M)
        PROVE  HasNone(C, g, M)
    BY <1>2, <1>3 DEF HasNone
  <1>4. ASSUME <<c, Head(f[c])>> \notin M, NEW b, NEW m, HasOne(C, f, M, b, m)
        PROVE  HasOne(C, g, M, b, m)
    <2> PICK i \in DOMAIN f[b] : f[b][i] = m /\ OnlyOne(C, f, M, b, i)
      BY <1>4 DEF HasOne
    <2>1. b \in C /\ <<b, m>> \in M
      BY <1>4 DEF HasOne, OnlyOne
    <2> DEFINE k == IF b = c THEN i - 1 ELSE i
    <2>2. k \in DOMAIN g[b] /\ g[b][k] = m
      <3>1. CASE b # c
        BY <2>1, <3>1
      <3>2. CASE b = c
        <4>1. i # 1
          BY <1>1, <1>4, <2>1, <3>2
        <4>2. i - 1 \in 1 .. (Len(f[c]) - 1) /\ (i - 1) + 1 = i
          BY <1>1, <3>2, <4>1
        <4> QED
          BY <1>1, <3>2, <4>2
      <3> QED
        BY <3>1, <3>2
    <2>3. ASSUME NEW a \in C, NEW j \in DOMAIN g[a], <<a, g[a][j]>> \in M
          PROVE  a = b /\ j = k
      <3> DEFINE n == IF a = c THEN j + 1 ELSE j
      <3>1. n \in DOMAIN f[a] /\ <<a, f[a][n]>> \in M /\ (a = c => j \in Nat)
        BY <1>2, <2>3
      <3>2. a = b /\ n = i
        BY <3>1 DEF OnlyOne
      <3> QED
        BY <3>1, <3>2
    <2> QED
      BY <2>1, <2>2, <2>3 DEF HasOne, OnlyOne
  <1>5. ASSUME <<c, Head(f[c])>> \in M
        PROVE  ~HasNone(C, f, M)
    BY <1>1, <1>5 DEF HasNone
  <1>6. ASSUME <<c, Head(f[c])>> \in M, NEW b, NEW m, HasOne(C, f, M, b, m)
        PROVE  b = c /\ m = Head(f[c]) /\ HasNone(C, g, M)
    <2> PICK i \in DOMAIN f[b] : f[b][i] = m /\ OnlyOne(C, f, M, b, i)
      BY <1>6 DEF HasOne
    <2>1. b = c /\ i = 1
      BY <1>1, <1>6 DEF OnlyOne
    <2>2. ASSUME NEW a \in C, NEW j \in DOMAIN g[a], <<a, g[a][j]>> \in M
          PROVE  FALSE
      <3> DEFINE n == IF a = c THEN j + 1 ELSE j
      <3>1. n \in DOMAIN f[a] /\ <<a, f[a][n]>> \in M /\ (a = c => n # 1)
        BY <1>2, <2>2
      <3>2. a = c /\ n = 1
        BY <2>1, <3>1 DEF OnlyOne
      <3> QED
        BY <3>1, <3>2
    <2> QED
      BY <1>1, <2>1, <2>2 DEF HasNone
  <1> QED
    BY <1>3, <1>4, <1>5, <1>6

\* Message e is put in c; it concerns somebody else, or it is the one message.
LEMMA PutOne ==
    ASSUME NEW C, NEW S, NEW f \in [C -> Seq(S)], NEW c \in C, NEW e \in S, NEW M,
           NEW g, g[c] = Append(f[c], e), \A b \in C \ {c} : g[b] = f[b]
    PROVE  /\ <<c, e>> \notin M =>
                /\ \A b, m : HasOne(C, f, M, b, m) => HasOne(C, g, M, b, m)
                /\ HasNone(C, f, M) => HasNone(C, g, M)
           /\ <<c, e>> \in M /\ HasNone(C, f, M) => HasOne(C, g, M, c, e)
  <1> DEFINE k == Len(f[c]) + 1
  <1>1. /\ Len(f[c]) \in Nat /\ DOMAIN f[c] = 1 .. Len(f[c])
        /\ DOMAIN g[c] = 1 .. k /\ g[c][k] = e
        /\ \A i \in 1 .. Len(f[c]) : g[c][i] = f[c][i]
    BY PutFacts
  <1>2. ASSUME NEW b \in C, NEW j \in DOMAIN g[b]
        PROVE  (j \in DOMAIN f[b] /\ g[b][j] = f[b][j]) \/ (b = c /\ j = k)
    <2>1. CASE b # c
      BY <2>1
    <2>2. CASE b = c
      BY <1>1, <2>2
    <2> QED
      BY <2>1, <2>2
  <1>3. ASSUME NEW b \in C, NEW j \in DOMAIN f[b]
        PROVE  j \in DOMAIN g[b] /\ g[b][j] = f[b][j]
    <2>1. CASE b # c
      BY <2>1
    <2>2. CASE b = c
      BY <1>1, <2>2
    <2> QED
      BY <2>1, <2>2
  <1>4. k \in DOMAIN g[c] /\ g[c][k] = e
    BY <1>1
  <1> HIDE DEF k
  <1>5. ASSUME <<c, e>> \notin M, NEW b, NEW m, HasOne(C, f, M, b, m)
        PROVE  HasOne(C, g, M, b, m)
    <2> PICK i \in DOMAIN f[b] : f[b][i] = m /\ OnlyOne(C, f, M, b, i)
      BY <1>5 DEF HasOne
    <2>1. b \in C /\ i \in DOMAIN g[b] /\ g[b][i] = m
      BY <1>3, <1>5 DEF HasOne
    <2>2. OnlyOne(C, g, M, b, i)
      BY <1>2, <1>4, <1>5, <2>1 DEF OnlyOne
    <2> QED
      BY <2>1, <2>2 DEF HasOne
  <1>6. ASSUME <<c, e>> \notin M, HasNone(C, f, M)
        PROVE  HasNone(C, g, M)
    BY <1>2, <1>4, <1>6 DEF HasNone
  <1>7. ASSUME <<c, e>> \in M, HasNone(C, f, M)
        PROVE  HasOne(C, g, M, c, e)
    BY <1>2, <1>4, <1>7 DEF HasNone, HasOne, OnlyOne
  <1> QED
    BY <1>5, <1>6, <1>7


(***************************************************************************)
(* The same for handlers, which take a message, put one, or pass one on    *)
(* from one queue to another, perhaps in another form.                     *)
(***************************************************************************)
Taking(C, S, f, c, g) ==
    /\ f \in [C -> Seq(S)] /\ c \in C /\ f[c] # <<>>
    /\ g[c] = Tail(f[c]) /\ \A b \in C \ {c} : g[b] = f[b]

Putting(C, S, f, d, e, g) ==
    /\ f \in [C -> Seq(S)] /\ d \in C /\ e \in S
    /\ g[d] = Append(f[d], e) /\ \A b \in C \ {d} : g[b] = f[b]

Passing(C, S, f, c, d, e, g) ==
    /\ f \in [C -> Seq(S)] /\ c \in C /\ f[c] # <<>> /\ d \in C \ {c} /\ e \in S
    /\ g[c] = Tail(f[c]) /\ g[d] = Append(f[d], e) /\ \A b \in C \ {c, d} : g[b] = f[b]

Kept(C, f, g, M) ==
    /\ \A b, m : HasOne(C, f, M, b, m) => HasOne(C, g, M, b, m)
    /\ HasNone(C, f, M) => HasNone(C, g, M)

\* The one message, m in queue c, is gone, or is e in queue d now.
Gone(C, f, c, m, g, M) ==
    /\ ~HasNone(C, f, M)
    /\ \A b, n : HasOne(C, f, M, b, n) => b = c /\ n = m /\ HasNone(C, g, M)

Moved(C, f, c, m, d, e, g, M) ==
    /\ ~HasNone(C, f, M)
    /\ \A b, n : HasOne(C, f, M, b, n) => b = c /\ n = m /\ HasOne(C, g, M, d, e)

LEMMA TakeOther ==
    ASSUME NEW C, NEW S, NEW f, NEW c, NEW g, Taking(C, S, f, c, g),
           NEW M, <<c, Head(f[c])>> \notin M
    PROVE  Kept(C, f, g, M)
  BY TakeOne DEF Taking, Kept

LEMMA TakeMine ==
    ASSUME NEW C, NEW S, NEW f, NEW c, NEW g, Taking(C, S, f, c, g),
           NEW M, <<c, Head(f[c])>> \in M
    PROVE  Gone(C, f, c, Head(f[c]), g, M)
  BY TakeOne DEF Taking, Gone

LEMMA PutOther ==
    ASSUME NEW C, NEW S, NEW f, NEW d, NEW e, NEW g, Putting(C, S, f, d, e, g),
           NEW M, <<d, e>> \notin M
    PROVE  Kept(C, f, g, M)
  BY PutOne DEF Putting, Kept

LEMMA PutMine ==
    ASSUME NEW C, NEW S, NEW f, NEW d, NEW e, NEW g, Putting(C, S, f, d, e, g),
           NEW M, <<d, e>> \in M, HasNone(C, f, M)
    PROVE  HasOne(C, g, M, d, e)
  BY PutOne DEF Putting

\* Passing is taking and then putting.
LEMMA PassInTwo ==
    ASSUME NEW C, NEW S, NEW f, NEW c, NEW d, NEW e, NEW g, Passing(C, S, f, c, d, e, g)
    PROVE  \E h : Taking(C, S, f, c, h) /\ Putting(C, S, h, d, e, g)
  <1> DEFINE h == [f EXCEPT ![c] = Tail(f[c])]
  <1>1. f \in [C -> Seq(S)] /\ c \in C /\ f[c] # <<>>
    BY DEF Passing
  <1>2. Tail(f[c]) \in Seq(S)
    BY <1>1, TakeFacts
  <1>3. h \in [C -> Seq(S)] /\ h[c] = Tail(f[c]) /\ \A b \in C \ {c} : h[b] = f[b]
    BY <1>1, <1>2
  <1> HIDE DEF h
  <1>4. g[d] = Append(h[d], e) /\ \A b \in C \ {d} : g[b] = h[b]
    BY <1>3 DEF Passing
  <1> QED
    BY <1>3, <1>4 DEF Passing, Taking, Putting

LEMMA PassOther ==
    ASSUME NEW C, NEW S, NEW f, NEW c, NEW d, NEW e, NEW g, Passing(C, S, f, c, d, e, g),
           NEW M, <<c, Head(f[c])>> \notin M, <<d, e>> \notin M
    PROVE  Kept(C, f, g, M)
  <1> PICK h : Taking(C, S, f, c, h) /\ Putting(C, S, h, d, e, g)
    BY PassInTwo
  <1>1. Kept(C, f, h, M) /\ Kept(C, h, g, M)
    BY TakeOther, PutOther
  <1> QED
    BY <1>1 DEF Kept

LEMMA PassMine ==
    ASSUME NEW C, NEW S, NEW f, NEW c, NEW d, NEW e, NEW g, Passing(C, S, f, c, d, e, g),
           NEW M, <<c, Head(f[c])>> \in M, <<d, e>> \in M
    PROVE  Moved(C, f, c, Head(f[c]), d, e, g, M)
  <1> PICK h : Taking(C, S, f, c, h) /\ Putting(C, S, h, d, e, g)
    BY PassInTwo
  <1>1. Gone(C, f, c, Head(f[c]), h, M)
    BY TakeMine
  <1>2. HasNone(C, h, M) => HasOne(C, g, M, d, e)
    BY PutMine
  <1> QED
    BY <1>1, <1>2 DEF Gone, Moved

================================================================================
