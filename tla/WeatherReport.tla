----------------------------- MODULE WeatherReport -----------------------------
(***************************************************************************)
(* simple_pubsub_weather_report: a publisher that reports on two cities in *)
(* turn and ends, and subscribers that follow one city each, for ever.     *)
(* The subscribers come and go, and nothing tells the publisher or them    *)
(* what they missed.                                                       *)
(*                                                                         *)
(* The publisher has one WeatherInfo and writes each report over the last. *)
(* A topic is matched against the first bytes of a message, that is of the *)
(* buffer mCityName.  A byte is a letter <<city, k>>, the terminator, or   *)
(* what the memory held: a name that is printed ends at the first NUL.     *)
(***************************************************************************)
EXTENDS Integers, Sequences

CONSTANTS
    Subers,        \* the subscriber processes
    topicOf,       \* topicOf[s]: the city that s subscribes to
    CONST_100      \* reports the publisher makes

Size == [BeiJing |-> 7, ShangHai |-> 8]
Cities == DOMAIN Size

ASSUME SubersAssumption == topicOf \in [Subers -> Cities]
ASSUME ReportsAssumption == CONST_100 \in Nat

\* The bytes of mCityName that anybody writes, and what they hold.
Places == 0 .. Size["ShangHai"] + 1
Byte == {<<c, k>> : c \in Cities, k \in Places} \cup {<<"NUL">>, <<"junk">>}

VARIABLES
    i,            \* the loop counter of the publisher: the next report
    mCityName,    \* the buffer of the publisher
    joined,       \* the subscribers whose subscription the publisher has
    wire,         \* wire[s]: the messages on their way to s
    received,     \* history: received[s]: the reports s printed, by number
    since         \* history: since[s]: the first report after s joined

vars == <<i, mCityName, joined, wire, received, since>>

\* The buffer is not initialised.
Init ==
    /\ i = 0
    /\ mCityName \in [Places -> {<<"NUL">>, <<"junk">>}]
    /\ joined = {}
    /\ wire = [s \in Subers |-> <<>>]
    /\ received = [s \in Subers |-> <<>>]
    /\ since = [s \in Subers |-> 0]

--------------------------------------------------------------------------------
CityOf(n) == IF n % 2 = 1 THEN "BeiJing" ELSE "ShangHai"

\* The letters of the city are copied and a terminator is set, one place behind
\* the one after the last letter.  FillUnended, a mistake, leaves it out.
FillUnended(buffer, c) ==
    [k \in Places |-> IF k < Size[c] THEN <<c, k>> ELSE buffer[k]]

Fill(buffer, c) ==
    [k \in Places |-> IF k < Size[c] THEN <<c, k>>
                      ELSE IF k = Size[c] + 1 THEN <<"NUL">> ELSE buffer[k]]

\* What the subscription of s lets through.  MatchesEnded, a mistake, subscribes
\* with the terminator of the string.
StartsWith(name, c) == \A k \in 0 .. Size[c] - 1 : name[k] = <<c, k>>
MatchesEnded(s, name) == StartsWith(name, topicOf[s]) /\ name[Size[topicOf[s]]] = <<"NUL">>
Matches(s, name) == StartsWith(name, topicOf[s])

\* The loop of the publisher, and the mistake of one round too many.
PublishingTooLong == i <= CONST_100
Publishing == i < CONST_100

\* One round: the report is filled in and published to whoever is subscribed.
Publish ==
    /\ Publishing
    /\ mCityName' = Fill(mCityName, CityOf(i))
    /\ LET info == [name |-> mCityName', length |-> Size[CityOf(i)] + 1, report |-> i]
       IN  wire' = [s \in Subers |->
                        IF s \in joined /\ Matches(s, info.name)
                        THEN Append(wire[s], info) ELSE wire[s]]
    /\ i' = i + 1
    /\ UNCHANGED <<joined, received, since>>

\* WeatherSuber::WeatherSuber and setSubTopic: the subscription reaches the publisher
\* at some time, or after its last report.
Join(s) ==
    /\ s \notin joined
    /\ joined' = joined \cup {s}
    /\ since' = [since EXCEPT ![s] = i]
    /\ UNCHANGED <<i, mCityName, wire, received>>

\* WeatherSuber::subscribe.
Subscribe(s) ==
    /\ wire[s] # <<>>
    /\ received' = [received EXCEPT ![s] = Append(@, Head(wire[s]).report)]
    /\ wire' = [wire EXCEPT ![s] = Tail(@)]
    /\ UNCHANGED <<i, mCityName, joined, since>>

\* A subscriber is killed; it may be started again as a new one.
Leave(s) ==
    /\ s \in joined
    /\ joined' = joined \ {s}
    /\ wire' = [wire EXCEPT ![s] = <<>>]
    /\ received' = [received EXCEPT ![s] = <<>>]
    /\ UNCHANGED <<i, mCityName, since>>

Next == Publish \/ \E s \in Subers : Join(s) \/ Subscribe(s) \/ Leave(s)

Spec == Init /\ [][Next]_vars

\* The loops go on.  Nobody has to join, or to leave.
FairSpec == Spec /\ WF_vars(Publish) /\ \A s \in Subers : WF_vars(Subscribe(s))

--------------------------------------------------------------------------------
\* The type of each variable; the publisher makes as many reports as it should.
TypeOK ==
    /\ i \in 0 .. CONST_100
    /\ mCityName \in [Places -> Byte]
    /\ joined \subseteq Subers
    /\ \A s \in Subers : \A n \in DOMAIN wire[s] :
        LET m == wire[s][n]
        IN  /\ DOMAIN m.name = Places /\ \A k \in Places : m.name[k] \in Byte
            /\ m.length \in {Size[c] + 1 : c \in Cities}
            /\ m.report \in 0 .. CONST_100 - 1
    /\ received \in [Subers -> Seq(0 .. CONST_100 - 1)]
    /\ since \in [Subers -> 0 .. CONST_100]

(***************************************************************************)
(* A subscription has no gaps: what a subscriber got, and what is on its   *)
(* way, are all the reports on its city since its subscription took        *)
(* effect, in order, each once, and no others - though the filter reads a  *)
(* buffer that still holds the rest of the name before it.                 *)
(***************************************************************************)
Reports(s) == received[s] \o [n \in DOMAIN wire[s] |-> wire[s][n].report]

NoGaps ==
    \A s \in joined :
        LET q == Reports(s)
        IN  /\ \A m, n \in DOMAIN q : m < n => q[m] < q[n]
            /\ {q[n] : n \in DOMAIN q} = {r \in since[s] .. i - 1 : CityOf(r) = topicOf[s]}

(***************************************************************************)
(* What is printed ends: a name is its city and at most one byte more, and *)
(* never longer than mCityNameLength, whatever the buffer held before.     *)
(***************************************************************************)
NameEnds ==
    \A s \in Subers : \A n \in DOMAIN wire[s] :
        LET m == wire[s][n]
        IN  /\ StartsWith(m.name, topicOf[s])
            /\ \E k \in Size[topicOf[s]] .. m.length : m.name[k] = <<"NUL">>

\* Under FairSpec: a subscriber that was there before a report on its city is made
\* comes to print it, unless it leaves.
JoinedGetReports ==
    \A s \in Subers : \A r \in 0 .. CONST_100 - 1 :
        (s \in joined /\ i = r /\ CityOf(r) = topicOf[s]) ~>
            (s \notin joined \/ \E n \in DOMAIN received[s] : received[s][n] = r)

================================================================================
