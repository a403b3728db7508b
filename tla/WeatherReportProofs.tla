-------------------------- MODULE WeatherReportProofs ---------------------------
(***************************************************************************)
(* Names that end, for every set of subscribers and number of reports: the *)
(* filter lets only reports on the topic through, though it compares bytes *)
(* of a buffer, and their terminator is within mCityNameLength.            *)
(***************************************************************************)
EXTENDS WeatherReport, QueueLemmas

\* What message m is when it is on its way to a subscriber of city c.
FitsCity(m, c) ==
    /\ StartsWith(m.name, c)
    /\ m.length = Size[c] + 1
    /\ m.name[Size[c] + 1] = <<"NUL">>

Message ==
    [name : [Places -> Byte], length : {Size[c] + 1 : c \in Cities}, report : 0 .. CONST_100 - 1]

WireFits ==
    /\ wire \in [Subers -> Seq(Message)]
    /\ \A s \in Subers : \A n \in DOMAIN wire[s] : FitsCity(wire[s][n], topicOf[s])

NameInv ==
    /\ i \in 0 .. CONST_100
    /\ mCityName \in [Places -> Byte]
    /\ WireFits

LEMMA SizeFacts ==
    /\ Cities = {"BeiJing", "ShangHai"}
    /\ Size["BeiJing"] = 7
    /\ Size["ShangHai"] = 8
    /\ Places = 0 .. 9
  BY DEF Cities, Size, Places

LEMMA CityOfIsCity == \A n \in Nat : CityOf(n) \in Cities
  BY SizeFacts DEF CityOf

LEMMA AppendFits ==
    ASSUME NEW S, NEW q \in Seq(S), NEW x \in S
    PROVE  Append(q, x) \in Seq(S)
  OBVIOUS

\* The buffer keeps its type, and has a terminator where the length says.
LEMMA FillFits ==
    ASSUME NEW b \in [Places -> Byte], NEW c \in Cities
    PROVE  /\ Fill(b, c) \in [Places -> Byte]
           /\ Fill(b, c)[0] = <<c, 0>>
           /\ Fill(b, c)[Size[c] + 1] = <<"NUL">>
  <1>1. Size[c] \in {7, 8} /\ Places = 0 .. 9
    BY SizeFacts
  <1>2. \A k \in Places : <<c, k>> \in Byte
    BY DEF Byte
  <1>3. <<"NUL">> \in Byte
    BY DEF Byte
  <1> QED
    BY <1>1, <1>2, <1>3 DEF Fill

\* The first byte of a buffer decides which topic it matches.
LEMMA FirstByteDecides ==
    ASSUME NEW name, NEW c \in Cities, NEW d \in Cities,
           name[0] = <<c, 0>>, StartsWith(name, d)
    PROVE  c = d
  <1>1. 0 \in 0 .. Size[d] - 1
    BY SizeFacts
  <1> QED
    BY <1>1 DEF StartsWith

--------------------------------------------------------------------------------
LEMMA NameInit == Init => NameInv
  <1> SUFFICES ASSUME Init PROVE NameInv
    OBVIOUS
  <1>1. mCityName \in [Places -> Byte]
    BY DEF Init, Byte
  <1> QED
    BY <1>1, ReportsAssumption DEF Init, NameInv, WireFits

\* A message that goes out to s is about the topic of s.
LEMMA PublishFits ==
    ASSUME NameInv, Publish
    PROVE  NameInv'
  <1> DEFINE info == [name |-> mCityName', length |-> Size[CityOf(i)] + 1, report |-> i]
  <1>1. CityOf(i) \in Cities /\ i \in 0 .. CONST_100 - 1
    BY CityOfIsCity, ReportsAssumption DEF NameInv, Publish, Publishing
  <1>2. /\ mCityName' \in [Places -> Byte]
        /\ mCityName'[0] = <<CityOf(i), 0>>
        /\ mCityName'[Size[CityOf(i)] + 1] = <<"NUL">>
    BY <1>1, FillFits DEF NameInv, Publish
  <1>3. info \in Message
    BY <1>1, <1>2 DEF Message
  <1>4. wire' = [s \in Subers |-> IF s \in joined /\ Matches(s, info.name)
                                   THEN Append(wire[s], info) ELSE wire[s]]
    BY DEF Publish
  <1>5. ASSUME NEW s \in Subers, Matches(s, info.name)
        PROVE  FitsCity(info, topicOf[s])
    <2>1. topicOf[s] \in Cities
      BY SubersAssumption
    <2>2. StartsWith(mCityName', topicOf[s])
      BY <1>5 DEF Matches
    <2>3. topicOf[s] = CityOf(i)
      BY <1>1, <1>2, <2>1, <2>2, FirstByteDecides
    <2> QED
      BY <1>2, <2>2, <2>3 DEF FitsCity
  <1> HIDE DEF info
  <1>6. WireFits'
    <2>1. wire' \in [Subers -> Seq(Message)]
      <3>1. \A s \in Subers : wire[s] \in Seq(Message) /\ Append(wire[s], info) \in Seq(Message)
        <4> TAKE s \in Subers
        <4>1. wire[s] \in Seq(Message)
          BY DEF NameInv, WireFits
        <4> QED
          BY <1>3, <4>1, AppendFits
      <3> QED
        BY <1>4, <3>1
    <2>2. ASSUME NEW s \in Subers, NEW n \in DOMAIN wire'[s]
          PROVE  FitsCity(wire'[s][n], topicOf[s])
      <3>1. CASE wire'[s] = wire[s]
        BY <2>2, <3>1 DEF NameInv, WireFits
      <3>2. CASE Matches(s, info.name) /\ wire'[s] = Append(wire[s], info)
        <4>1. wire[s] \in Seq(Message)
          BY DEF NameInv, WireFits
        <4>2. wire'[s][n] = info \/ (n \in DOMAIN wire[s] /\ wire'[s][n] = wire[s][n])
          BY <2>2, <3>2, <4>1
        <4> QED
          BY <1>5, <3>2, <4>2 DEF NameInv, WireFits
      <3> QED
        BY <1>4, <3>1, <3>2
    <2> QED
      BY <2>1, <2>2 DEF WireFits
  <1> QED
    BY <1>1, <1>2, <1>6, ReportsAssumption DEF NameInv, Publish

LEMMA SubscribeFits ==
    ASSUME NameInv, NEW s \in Subers, Subscribe(s)
    PROVE  NameInv'
  <1>1. wire[s] \in Seq(Message) /\ wire[s] # <<>> /\ wire' = [wire EXCEPT ![s] = Tail(@)]
    BY DEF NameInv, WireFits, Subscribe
  <1>2. ASSUME NEW n \in DOMAIN Tail(wire[s])
        PROVE  n + 1 \in DOMAIN wire[s] /\ Tail(wire[s])[n] = wire[s][n + 1]
    BY <1>1, <1>2
  <1>3. Tail(wire[s]) \in Seq(Message)
    BY <1>1
  <1>4. wire' \in [Subers -> Seq(Message)]
    BY <1>1, <1>3 DEF NameInv, WireFits
  <1>5. ASSUME NEW r \in Subers, NEW n \in DOMAIN wire'[r]
        PROVE  FitsCity(wire'[r][n], topicOf[r])
    <2>1. CASE r = s
      BY <1>1, <1>2, <1>5, <2>1 DEF NameInv, WireFits
    <2>2. CASE r # s
      BY <1>1, <1>5, <2>2 DEF NameInv, WireFits
    <2> QED
      BY <2>1, <2>2
  <1> QED
    BY <1>4, <1>5 DEF NameInv, WireFits, Subscribe

LEMMA LeaveFits ==
    ASSUME NameInv, NEW s \in Subers, Leave(s)
    PROVE  NameInv'
  <1>1. wire' = [wire EXCEPT ![s] = <<>>] /\ wire \in [Subers -> Seq(Message)]
    BY DEF NameInv, WireFits, Leave
  <1>2. wire' \in [Subers -> Seq(Message)]
    BY <1>1
  <1>3. ASSUME NEW r \in Subers, NEW n \in DOMAIN wire'[r]
        PROVE  FitsCity(wire'[r][n], topicOf[r])
    <2>1. CASE r = s
      BY <1>1, <1>3, <2>1
    <2>2. CASE r # s
      BY <1>1, <1>3, <2>2 DEF NameInv, WireFits
    <2> QED
      BY <2>1, <2>2
  <1> QED
    BY <1>2, <1>3 DEF NameInv, WireFits, Leave

LEMMA NameStep == NameInv /\ [Next]_vars => NameInv'
  <1> SUFFICES ASSUME NameInv, [Next]_vars PROVE NameInv'
    OBVIOUS
  <1>1. CASE Publish
    BY <1>1, PublishFits
  <1>2. ASSUME NEW s \in Subers, Join(s) PROVE NameInv'
    BY <1>2 DEF NameInv, WireFits, Join
  <1>3. ASSUME NEW s \in Subers, Subscribe(s) PROVE NameInv'
    BY <1>3, SubscribeFits
  <1>4. ASSUME NEW s \in Subers, Leave(s) PROVE NameInv'
    BY <1>4, LeaveFits
  <1>5. CASE UNCHANGED vars
    BY <1>5 DEF NameInv, WireFits, vars
  <1> QED
    BY <1>1, <1>2, <1>3, <1>4, <1>5 DEF Next

(***************************************************************************)
(* What a subscriber prints ends: it starts with its city and its first    *)
(* NUL is at most one byte behind it (main of weather_pub.cpp, lines 25    *)
(* to 33), whatever the buffer held.                                       *)
(***************************************************************************)
THEOREM NamesCorrect == Spec => []NameEnds
  <1>1. NameInv => NameEnds
    <2> SUFFICES ASSUME NameInv, NEW s \in Subers, NEW n \in DOMAIN wire[s]
                 PROVE  LET m == wire[s][n]
                        IN  /\ StartsWith(m.name, topicOf[s])
                            /\ \E k \in Size[topicOf[s]] .. m.length : m.name[k] = <<"NUL">>
      BY DEF NameEnds
    <2>1. FitsCity(wire[s][n], topicOf[s])
      BY DEF NameInv, WireFits
    <2>2. Size[topicOf[s]] \in Nat
      BY SubersAssumption, SizeFacts
    <2>3. Size[topicOf[s]] + 1 \in Size[topicOf[s]] .. Size[topicOf[s]] + 1
      BY <2>2
    <2> QED
      BY <2>1, <2>3 DEF FitsCity
  <1> QED
    BY <1>1, NameInit, NameStep, PTL DEF Spec

--------------------------------------------------------------------------------
\* The numbers of the reports in a queue, and the queues that hold exactly the
\* reports on city c from first up to, not including, next.
Numbers(w) == [n \in DOMAIN w |-> w[n].report]

Exactly(q, c, first, next) ==
    /\ \A m, n \in DOMAIN q : m < n => q[m] < q[n]
    /\ {q[n] : n \in DOMAIN q} = {r \in first .. next - 1 : CityOf(r) = c}

ReportNumber == 0 .. CONST_100 - 1

\* A subscriber that is not subscribed has nothing and nothing comes to it.
ReportInv ==
    /\ NameInv
    /\ joined \subseteq Subers
    /\ received \in [Subers -> Seq(ReportNumber)]
    /\ since \in [Subers -> 0 .. CONST_100]
    /\ \A s \in Subers : since[s] <= i
    /\ \A s \in Subers \ joined : wire[s] = <<>> /\ received[s] = <<>>
    /\ \A s \in joined : Exactly(Reports(s), topicOf[s], since[s], i)

LEMMA SameSequence ==
    ASSUME NEW S, NEW q \in Seq(S), NEW r \in Seq(S), Len(q) = Len(r),
           \A n \in 1 .. Len(q) : q[n] = r[n]
    PROVE  q = r
  OBVIOUS

LEMMA NumbersAreNumbers ==
    ASSUME NEW w \in Seq(Message)
    PROVE  /\ Numbers(w) \in Seq(ReportNumber)
           /\ Len(Numbers(w)) = Len(w)
           /\ \A n \in 1 .. Len(w) : Numbers(w)[n] = w[n].report
  <1>1. ASSUME NEW n \in 1 .. Len(w)
        PROVE  w[n].report \in ReportNumber
    <2>1. w[n] \in Message
      OBVIOUS
    <2> QED
      BY <2>1 DEF Message, ReportNumber
  <1>2. Numbers(w) = [n \in 1 .. Len(w) |-> w[n].report] /\ Len(w) \in Nat
    BY DEF Numbers
  <1> QED
    BY <1>1, <1>2

\* A report that is sent is the last of what a subscriber got and will get.
LEMMA SendingAppends ==
    ASSUME NEW r \in Seq(ReportNumber), NEW w \in Seq(Message), NEW m \in Message
    PROVE  r \o Numbers(Append(w, m)) = Append(r \o Numbers(w), m.report)
  <1>1. m.report \in ReportNumber
    BY DEF Message, ReportNumber
  <1>2. Append(w, m) \in Seq(Message)
    OBVIOUS
  <1>3. /\ Numbers(w) \in Seq(ReportNumber)
        /\ Numbers(Append(w, m)) \in Seq(ReportNumber)
    BY <1>2, NumbersAreNumbers
  <1>4. Numbers(Append(w, m)) = Append(Numbers(w), m.report)
    <2>1. /\ Len(Append(w, m)) = Len(w) + 1
          /\ Len(w) \in Nat
          /\ \A n \in 1 .. Len(w) : Append(w, m)[n] = w[n]
          /\ Append(w, m)[Len(w) + 1] = m
      OBVIOUS
    <2>2. /\ Len(Numbers(Append(w, m))) = Len(w) + 1
          /\ Len(Numbers(w)) = Len(w)
          /\ \A n \in 1 .. Len(w) : Numbers(w)[n] = w[n].report
          /\ \A n \in 1 .. Len(w) + 1 : Numbers(Append(w, m))[n] = Append(w, m)[n].report
      <3> DEFINE v == Append(w, m)
      <3>1. v \in Seq(Message) /\ Len(v) = Len(w) + 1
        BY <1>2, <2>1
      <3> HIDE DEF v
      <3>2. /\ Len(Numbers(v)) = Len(v)
            /\ \A n \in 1 .. Len(v) : Numbers(v)[n] = v[n].report
        BY <3>1, NumbersAreNumbers
      <3>3. /\ Len(Numbers(w)) = Len(w)
            /\ \A n \in 1 .. Len(w) : Numbers(w)[n] = w[n].report
        BY NumbersAreNumbers
      <3> QED
        BY <3>1, <3>2, <3>3 DEF v
    <2>3. \A n \in 1 .. Len(w) + 1 :
              Numbers(Append(w, m))[n] = Append(Numbers(w), m.report)[n]
      <3> TAKE n \in 1 .. Len(w) + 1
      <3>1. /\ Append(Numbers(w), m.report)[Len(w) + 1] = m.report
            /\ \A j \in 1 .. Len(w) : Append(Numbers(w), m.report)[j] = Numbers(w)[j]
        BY <1>1, <1>3, <2>2, PutFacts
      <3>2. CASE n \in 1 .. Len(w)
        BY <2>1, <2>2, <3>1, <3>2
      <3>3. CASE n = Len(w) + 1
        BY <2>1, <2>2, <3>1, <3>3
      <3>4. n \in 1 .. Len(w) \/ n = Len(w) + 1
        BY <2>1
      <3> QED
        BY ONLY <3>2, <3>3, <3>4
    <2> QED
      BY <2>1, <2>2, <2>3, <1>3, <1>1
  <1> QED
    BY <1>1, <1>3, <1>4

\* The first of a sequence goes to the end of the one before it.
LEMMA MoveOne ==
    ASSUME NEW S, NEW r \in Seq(S), NEW u \in Seq(S), u # <<>>,
           NEW a \in Seq(S), a = Append(r, Head(u)),
           NEW t \in Seq(S), t = Tail(u)
    PROVE  a \o t = r \o u
  <1>1. /\ Head(u) \in S /\ Head(u) = u[1]
        /\ Tail(u) \in Seq(S)
        /\ Len(u) \in Nat \ {0} /\ Len(Tail(u)) = Len(u) - 1
        /\ \A n \in 1 .. Len(u) - 1 : Tail(u)[n] = u[n + 1]
    OBVIOUS
  <1>2. /\ a \in Seq(S) /\ Len(a) = Len(r) + 1 /\ Len(r) \in Nat
        /\ \A n \in 1 .. Len(r) : a[n] = r[n]
        /\ a[Len(r) + 1] = u[1]
    BY <1>1
  <1>3. /\ t \in Seq(S) /\ Len(t) = Len(u) - 1
        /\ \A n \in 1 .. Len(u) - 1 : t[n] = u[n + 1]
    BY <1>1
  <1>4. /\ a \o t \in Seq(S) /\ r \o u \in Seq(S)
        /\ Len(a \o t) = Len(r) + Len(u) /\ Len(r \o u) = Len(r) + Len(u)
    <2>1. a \o t \in Seq(S) /\ Len(a \o t) = Len(a) + Len(t)
      BY <1>2, <1>3
    <2>2. r \o u \in Seq(S) /\ Len(r \o u) = Len(r) + Len(u)
      OBVIOUS
    <2> QED
      BY <1>1, <1>2, <1>3, <2>1, <2>2
  <1>5. ASSUME NEW n \in 1 .. Len(r) + Len(u)
        PROVE  (a \o t)[n] = (r \o u)[n]
    <2>0. n \in Int /\ Len(r) \in Int
      BY <1>1, <1>2
    <2>1. (a \o t)[n] = IF n <= Len(a) THEN a[n] ELSE t[n - Len(a)]
      BY <1>1, <1>2, <1>3
    <2>2. (r \o u)[n] = IF n <= Len(r) THEN r[n] ELSE u[n - Len(r)]
      BY <1>1, <1>2, <1>3
    <2>3. CASE n <= Len(r)
      BY <1>2, <2>1, <2>2, <2>3
    <2>4. CASE n = Len(r) + 1
      BY <1>2, <2>1, <2>2, <2>4
    <2>5. CASE n > Len(r) + 1
      <3>1. n - Len(a) \in 1 .. Len(u) - 1 /\ n - Len(a) + 1 = n - Len(r)
        BY <1>1, <1>2, <2>5
      <3>2. t[n - Len(a)] = u[n - Len(r)]
        BY <1>3, <3>1
      <3> QED
        BY <1>2, <2>1, <2>2, <2>5, <3>2
    <2> QED
      <3>1. n <= Len(r) \/ n = Len(r) + 1 \/ n > Len(r) + 1
        BY <2>0
      <3> QED
        BY <3>1, <2>3, <2>4, <2>5
  <1> QED
    BY <1>4, <1>5

\* A report that is printed was the first of those under way.
LEMMA PrintingKeeps ==
    ASSUME NEW r \in Seq(ReportNumber), NEW w \in Seq(Message), w # <<>>
    PROVE  /\ Head(w).report \in ReportNumber
           /\ Append(r, Head(w).report) \o Numbers(Tail(w)) = r \o Numbers(w)
  <1>1. /\ Head(w) \in Message /\ Head(w) = w[1]
        /\ Tail(w) \in Seq(Message)
        /\ Len(w) \in Nat \ {0} /\ Len(Tail(w)) = Len(w) - 1
        /\ \A n \in 1 .. Len(w) - 1 : Tail(w)[n] = w[n + 1]
    OBVIOUS
  <1>2. Head(w).report \in ReportNumber
    BY <1>1 DEF Message, ReportNumber
  <1>3. /\ Numbers(w) \in Seq(ReportNumber)
        /\ Numbers(Tail(w)) \in Seq(ReportNumber)
        /\ Len(Numbers(w)) = Len(w)
        /\ Len(Numbers(Tail(w))) = Len(w) - 1
        /\ \A n \in 1 .. Len(w) : Numbers(w)[n] = w[n].report
        /\ \A n \in 1 .. Len(w) - 1 : Numbers(Tail(w))[n] = Tail(w)[n].report
    BY <1>1, NumbersAreNumbers
  <1>4. /\ Numbers(w) # <<>>
        /\ Head(Numbers(w)) = Head(w).report
        /\ Tail(Numbers(w)) \in Seq(ReportNumber)
        /\ Len(Tail(Numbers(w))) = Len(w) - 1
        /\ \A n \in 1 .. Len(w) - 1 : Tail(Numbers(w))[n] = Numbers(w)[n + 1]
    BY <1>1, <1>3
  <1>5. \A n \in 1 .. Len(w) - 1 : Tail(Numbers(w))[n] = Numbers(Tail(w))[n]
    BY <1>1, <1>3, <1>4
  <1>6. Tail(Numbers(w)) = Numbers(Tail(w))
    BY <1>3, <1>4, <1>5, SameSequence
  <1>7. Append(r, Head(Numbers(w))) \in Seq(ReportNumber)
    BY <1>2, <1>4
  <1>8. Append(r, Head(Numbers(w))) \o Tail(Numbers(w)) = r \o Numbers(w)
    BY <1>3, <1>4, <1>7, MoveOne
  <1> QED
    BY <1>2, <1>4, <1>6, <1>8

LEMMA ExactlyNone ==
    ASSUME NEW c, NEW n \in Nat
    PROVE  Exactly(<<>>, c, n, n)
  BY DEF Exactly

LEMMA ExactlyOneMore ==
    ASSUME NEW q \in Seq(ReportNumber), NEW c, NEW first \in Nat, NEW next \in Nat,
           first <= next, CityOf(next) = c, Exactly(q, c, first, next)
    PROVE  Exactly(Append(q, next), c, first, next + 1)
  <1> DEFINE p == Append(q, next)
  <1>1. /\ DOMAIN p = 1 .. Len(q) + 1
        /\ DOMAIN q = 1 .. Len(q)
        /\ Len(q) \in Nat
        /\ p[Len(q) + 1] = next
        /\ \A n \in 1 .. Len(q) : p[n] = q[n]
    BY DEF ReportNumber
  <1> HIDE DEF p
  <1>2. \A n \in DOMAIN q : q[n] \in first .. next - 1
    BY DEF Exactly
  <1>3. \A m, n \in DOMAIN p : m < n => p[m] < p[n]
    BY <1>1, <1>2 DEF Exactly
  <1>4. {p[n] : n \in DOMAIN p} = {q[n] : n \in DOMAIN q} \cup {next}
    BY <1>1
  <1>5. {r \in first .. next : CityOf(r) = c} =
            {r \in first .. next - 1 : CityOf(r) = c} \cup {next}
    OBVIOUS
  <1>6. next + 1 - 1 = next
    OBVIOUS
  <1>7. {p[n] : n \in DOMAIN p} = {r \in first .. next + 1 - 1 : CityOf(r) = c}
    BY <1>4, <1>5, <1>6 DEF Exactly
  <1>8. Exactly(p, c, first, next + 1)
    BY <1>3, <1>7 DEF Exactly
  <1> QED
    BY <1>8 DEF p

LEMMA ExactlyNoMore ==
    ASSUME NEW q, NEW c, NEW first \in Nat, NEW next \in Nat,
           CityOf(next) # c, Exactly(q, c, first, next)
    PROVE  Exactly(q, c, first, next + 1)
  <1>1. {r \in first .. next + 1 - 1 : CityOf(r) = c} =
            {r \in first .. next - 1 : CityOf(r) = c}
    OBVIOUS
  <1> QED
    BY <1>1 DEF Exactly

\* The first letters of a filled buffer are its city's, and no other topic fits.
LEMMA MatchesOwnCity ==
    ASSUME NEW b \in [Places -> Byte], NEW c \in Cities, NEW s \in Subers
    PROVE  Matches(s, Fill(b, c)) <=> topicOf[s] = c
  <1>1. topicOf[s] \in Cities /\ Fill(b, c)[0] = <<c, 0>>
    BY SubersAssumption, FillFits
  <1>2. StartsWith(Fill(b, c), c)
    <2>1. \A k \in 0 .. Size[c] - 1 : k \in Places /\ k < Size[c]
      BY SizeFacts
    <2> QED
      BY <2>1 DEF StartsWith, Fill
  <1> QED
    BY <1>1, <1>2, FirstByteDecides DEF Matches

--------------------------------------------------------------------------------
LEMMA ReportsAre == \A s \in Subers : Reports(s) = received[s] \o Numbers(wire[s])
  BY DEF Reports, Numbers

LEMMA ReportsAreNumbers ==
    ASSUME ReportInv, NEW s \in Subers
    PROVE  Reports(s) \in Seq(ReportNumber)
  <1>1. received[s] \in Seq(ReportNumber) /\ wire[s] \in Seq(Message)
    BY DEF ReportInv, NameInv, WireFits
  <1>2. Numbers(wire[s]) \in Seq(ReportNumber)
    BY <1>1, NumbersAreNumbers
  <1>3. Reports(s) = received[s] \o Numbers(wire[s])
    BY ReportsAre
  <1>4. received[s] \o Numbers(wire[s]) \in Seq(ReportNumber)
    BY <1>1, <1>2
  <1> QED
    BY <1>3, <1>4

LEMMA ReportInit == Init => ReportInv
  <1> SUFFICES ASSUME Init PROVE ReportInv
    OBVIOUS
  <1> QED
    BY NameInit, ReportsAssumption DEF Init, ReportInv

LEMMA PublishReports ==
    ASSUME ReportInv, Publish
    PROVE  ReportInv'
  <1> DEFINE info == [name |-> mCityName', length |-> Size[CityOf(i)] + 1, report |-> i]
  <1>1. NameInv'
    BY PublishFits DEF ReportInv
  <1>2. CityOf(i) \in Cities /\ i \in Nat /\ i \in ReportNumber /\ i' = i + 1
    BY CityOfIsCity, ReportsAssumption DEF ReportInv, NameInv, Publish, Publishing, ReportNumber
  <1>3. /\ mCityName' = Fill(mCityName, CityOf(i))
        /\ mCityName' \in [Places -> Byte]
        /\ joined' = joined /\ received' = received /\ since' = since
    BY <1>2, FillFits DEF ReportInv, NameInv, Publish
  <1>4. info \in Message
    BY <1>2, <1>3 DEF Message, ReportNumber
  <1>5. info.report = i /\ \A s \in Subers : Matches(s, info.name) <=> topicOf[s] = CityOf(i)
    BY <1>2, <1>3, MatchesOwnCity DEF ReportInv, NameInv
  <1>6. wire' = [s \in Subers |-> IF s \in joined /\ Matches(s, info.name)
                                   THEN Append(wire[s], info) ELSE wire[s]]
    BY DEF Publish
  <1> HIDE DEF info
  <1>7. ASSUME NEW s \in joined
        PROVE  Exactly(Reports(s), topicOf[s], since[s], i)'
    <2>1. /\ s \in Subers /\ since[s] \in Nat /\ since[s] <= i
          /\ received[s] \in Seq(ReportNumber) /\ wire[s] \in Seq(Message)
          /\ Exactly(Reports(s), topicOf[s], since[s], i)
      BY DEF ReportInv, NameInv, WireFits
    <2>2. Reports(s) = received[s] \o Numbers(wire[s]) /\ Reports(s) \in Seq(ReportNumber)
      BY <2>1, ReportsAre, ReportsAreNumbers
    <2>3. Reports(s)' = received[s] \o Numbers(wire'[s])
      BY <1>3, <2>1 DEF Reports, Numbers
    <2>4. CASE topicOf[s] = CityOf(i)
      <3>1. wire'[s] = Append(wire[s], info)
        BY <1>5, <1>6, <2>1, <2>4
      <3>2. Reports(s)' = Append(Reports(s), i)
        BY <1>4, <1>5, <2>1, <2>2, <2>3, <3>1, SendingAppends
      <3>3. Exactly(Append(Reports(s), i), topicOf[s], since[s], i + 1)
        BY <1>2, <2>1, <2>2, <2>4, ExactlyOneMore
      <3> QED
        BY <1>2, <1>3, <3>2, <3>3 DEF Exactly
    <2>5. CASE topicOf[s] # CityOf(i)
      <3>1. wire'[s] = wire[s]
        BY <1>5, <1>6, <2>1, <2>5
      <3>2. Reports(s)' = Reports(s)
        BY <2>2, <2>3, <3>1
      <3>3. Exactly(Reports(s), topicOf[s], since[s], i + 1)
        BY <1>2, <2>1, <2>2, <2>5, ExactlyNoMore
      <3> QED
        BY <1>2, <1>3, <3>2, <3>3 DEF Exactly
    <2> QED
      BY <2>4, <2>5
  <1>8. \A s \in Subers : since'[s] <= i'
    BY <1>2, <1>3 DEF ReportInv
  <1>9. \A s \in Subers \ joined' : wire'[s] = <<>> /\ received'[s] = <<>>
    BY <1>3, <1>6 DEF ReportInv
  <1> QED
    BY <1>1, <1>3, <1>7, <1>8, <1>9 DEF ReportInv

\* A new subscription starts with the next report.
LEMMA JoinReports ==
    ASSUME ReportInv, NEW s \in Subers, Join(s)
    PROVE  ReportInv'
  <1>1. /\ s \notin joined /\ joined' = joined \cup {s}
        /\ since' = [since EXCEPT ![s] = i] /\ since \in [Subers -> 0 .. CONST_100]
        /\ i' = i /\ wire' = wire /\ received' = received
        /\ i \in 0 .. CONST_100 /\ i \in Nat /\ joined \subseteq Subers
    BY ReportsAssumption DEF ReportInv, NameInv, Join
  <1>2. NameInv'
    BY DEF ReportInv, NameInv, WireFits, Join
  <1>3. since' \in [Subers -> 0 .. CONST_100] /\ \A r \in Subers : since'[r] <= i'
    BY <1>1 DEF ReportInv
  <1>4. ASSUME NEW r \in joined'
        PROVE  Exactly(Reports(r), topicOf[r], since[r], i)'
    <2>1. Reports(r)' = Reports(r)
      BY <1>1 DEF Reports
    <2>2. CASE r = s
      <3>1. wire[s] = <<>> /\ received[s] = <<>>
        BY <1>1 DEF ReportInv
      <3>2. Reports(s) = <<>>
        <4>1. wire[s] \in Seq(Message) /\ Len(wire[s]) = 0
          BY <3>1
        <4>2. Numbers(wire[s]) \in Seq(ReportNumber) /\ Len(Numbers(wire[s])) = 0
          BY <4>1, NumbersAreNumbers
        <4>3. Numbers(wire[s]) = <<>>
          BY <4>2
        <4>4. Reports(s) = received[s] \o Numbers(wire[s])
          BY ReportsAre
        <4>5. <<>> \o <<>> = <<>>
          OBVIOUS
        <4> QED
          BY <3>1, <4>3, <4>4, <4>5
      <3>3. Exactly(<<>>, topicOf[s], i, i)
        BY <1>1, ExactlyNone
      <3> QED
        BY <1>1, <2>1, <2>2, <3>2, <3>3 DEF Exactly
    <2>3. CASE r # s
      <3>1. r \in joined /\ since'[r] = since[r]
        BY <1>1, <2>3
      <3>2. Exactly(Reports(r), topicOf[r], since[r], i)
        BY <3>1 DEF ReportInv
      <3> QED
        BY <1>1, <2>1, <3>1, <3>2 DEF Exactly
    <2> QED
      BY <2>2, <2>3
  <1>5. \A r \in Subers \ joined' : wire'[r] = <<>> /\ received'[r] = <<>>
    BY <1>1 DEF ReportInv
  <1> QED
    BY <1>1, <1>2, <1>3, <1>4, <1>5 DEF ReportInv

LEMMA SubscribeReports ==
    ASSUME ReportInv, NEW s \in Subers, Subscribe(s)
    PROVE  ReportInv'
  <1>1. /\ wire[s] # <<>> /\ wire[s] \in Seq(Message) /\ received[s] \in Seq(ReportNumber)
        /\ wire \in [Subers -> Seq(Message)] /\ received \in [Subers -> Seq(ReportNumber)]
        /\ received' = [received EXCEPT ![s] = Append(@, Head(wire[s]).report)]
        /\ wire' = [wire EXCEPT ![s] = Tail(@)]
        /\ i' = i /\ joined' = joined /\ since' = since
    BY DEF ReportInv, NameInv, WireFits, Subscribe
  <1>2. NameInv'
    BY SubscribeFits DEF ReportInv
  <1>3. /\ Head(wire[s]).report \in ReportNumber
        /\ Append(received[s], Head(wire[s]).report) \o Numbers(Tail(wire[s]))
               = received[s] \o Numbers(wire[s])
    BY <1>1, PrintingKeeps
  <1>4. Append(received[s], Head(wire[s]).report) \in Seq(ReportNumber)
    BY <1>1, <1>3
  <1>5. received' \in [Subers -> Seq(ReportNumber)]
    BY <1>1, <1>4
  <1>6. s \in joined
    BY <1>1 DEF ReportInv
  <1>7. \A r \in Subers \ joined' : wire'[r] = <<>> /\ received'[r] = <<>>
    BY <1>1, <1>6 DEF ReportInv
  <1>8. ASSUME NEW r \in joined
        PROVE  Exactly(Reports(r), topicOf[r], since[r], i)'
    <2>1. r \in Subers /\ Exactly(Reports(r), topicOf[r], since[r], i)
      BY DEF ReportInv
    <2>2. Reports(r) = received[r] \o Numbers(wire[r])
      BY <2>1, ReportsAre
    <2>3. Reports(r)' = received'[r] \o Numbers(wire'[r])
      BY DEF Reports, Numbers
    <2>4. Reports(r)' = Reports(r)
      <3>1. CASE r = s
        <4>1. received'[s] = Append(received[s], Head(wire[s]).report)
              /\ wire'[s] = Tail(wire[s])
          BY <1>1
        <4> QED
          BY <1>3, <2>2, <2>3, <3>1, <4>1
      <3>2. CASE r # s
        <4>1. received'[r] = received[r] /\ wire'[r] = wire[r]
          BY <1>1, <2>1, <3>2
        <4> QED
          BY <2>2, <2>3, <4>1
      <3> QED
        BY <3>1, <3>2
    <2> QED
      BY <1>1, <2>1, <2>4 DEF Exactly
  <1> QED
    BY <1>1, <1>2, <1>5, <1>7, <1>8 DEF ReportInv

LEMMA LeaveReports ==
    ASSUME ReportInv, NEW s \in Subers, Leave(s)
    PROVE  ReportInv'
  <1>1. /\ joined' = joined \ {s} /\ joined \subseteq Subers
        /\ wire' = [wire EXCEPT ![s] = <<>>] /\ wire \in [Subers -> Seq(Message)]
        /\ received' = [received EXCEPT ![s] = <<>>]
        /\ received \in [Subers -> Seq(ReportNumber)]
        /\ i' = i /\ since' = since
    BY DEF ReportInv, NameInv, WireFits, Leave
  <1>2. NameInv'
    BY LeaveFits DEF ReportInv
  <1>3. received' \in [Subers -> Seq(ReportNumber)]
    BY <1>1
  <1>4. \A r \in Subers \ joined' : wire'[r] = <<>> /\ received'[r] = <<>>
    BY <1>1 DEF ReportInv
  <1>5. ASSUME NEW r \in joined'
        PROVE  Exactly(Reports(r), topicOf[r], since[r], i)'
    <2>1. /\ r \in joined /\ r # s /\ r \in Subers
          /\ Exactly(Reports(r), topicOf[r], since[r], i)
      BY <1>1 DEF ReportInv
    <2>2. received'[r] = received[r] /\ wire'[r] = wire[r]
      BY <1>1, <2>1
    <2>3. Reports(r)' = Reports(r)
      BY <2>2 DEF Reports
    <2> QED
      BY <1>1, <2>1, <2>3 DEF Exactly
  <1> QED
    BY <1>1, <1>2, <1>3, <1>4, <1>5 DEF ReportInv

LEMMA ReportStep == ReportInv /\ [Next]_vars => ReportInv'
  <1> SUFFICES ASSUME ReportInv, [Next]_vars PROVE ReportInv'
    OBVIOUS
  <1>1. CASE Publish
    BY <1>1, PublishReports
  <1>2. ASSUME NEW s \in Subers, Join(s) PROVE ReportInv'
    BY <1>2, JoinReports
  <1>3. ASSUME NEW s \in Subers, Subscribe(s) PROVE ReportInv'
    BY <1>3, SubscribeReports
  <1>4. ASSUME NEW s \in Subers, Leave(s) PROVE ReportInv'
    BY <1>4, LeaveReports
  <1>5. CASE UNCHANGED vars
    <2>1. /\ i' = i /\ mCityName' = mCityName /\ joined' = joined
          /\ wire' = wire /\ received' = received /\ since' = since
      BY <1>5 DEF vars
    <2>2. NameInv'
      BY <2>1 DEF ReportInv, NameInv, WireFits
    <2>3. \A s \in joined : Exactly(Reports(s), topicOf[s], since[s], i)'
      <3> TAKE s \in joined
      <3>1. Exactly(Reports(s), topicOf[s], since[s], i)
        BY DEF ReportInv
      <3>2. Reports(s)' = Reports(s)
        BY <2>1 DEF Reports
      <3> QED
        BY <2>1, <3>1, <3>2 DEF Exactly
    <2> QED
      BY <2>1, <2>2, <2>3 DEF ReportInv
  <1> QED
    BY <1>1, <1>2, <1>3, <1>4, <1>5 DEF Next

(***************************************************************************)
(* What a subscriber printed and what is on its way to it are all reports  *)
(* on its city since it joined, each once and in order (loop of            *)
(* weather_pub.cpp and WeatherSuber::subscribe): because the first bytes   *)
(* of the reused buffer always tell one topic from the other.              *)
(***************************************************************************)
THEOREM SubscriptionsCorrect == Spec => []NoGaps
  <1>1. ReportInv => NoGaps
    BY DEF ReportInv, NoGaps, Exactly
  <1> QED
    BY <1>1, ReportInit, ReportStep, PTL DEF Spec

(***************************************************************************)
(* The publisher makes as many reports as its loop says, and what is sent  *)
(* and printed are whole reports with one of the two lengths.              *)
(***************************************************************************)
THEOREM WeatherTypes == Spec => []TypeOK
  <1>1. ReportInv => TypeOK
    <2> SUFFICES ASSUME ReportInv PROVE TypeOK
      OBVIOUS
    <2>1. ASSUME NEW s \in Subers, NEW n \in DOMAIN wire[s]
          PROVE  wire[s][n] \in Message
      BY <2>1 DEF ReportInv, NameInv, WireFits
    <2>2. \A s \in Subers : \A n \in DOMAIN wire[s] :
              LET m == wire[s][n]
              IN  /\ DOMAIN m.name = Places /\ \A k \in Places : m.name[k] \in Byte
                  /\ m.length \in {Size[c] + 1 : c \in Cities}
                  /\ m.report \in 0 .. CONST_100 - 1
      BY <2>1 DEF Message
    <2> QED
      BY <2>2 DEF ReportInv, NameInv, TypeOK, ReportNumber
  <1> QED
    BY <1>1, ReportInit, ReportStep, PTL DEF Spec

================================================================================
