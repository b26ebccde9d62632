----------------------------- MODULE WebUiProofs -----------------------------
(***************************************************************************)
(* Theorems about WebUi, for any entries and any number of requests,       *)
(* events and failures: what the page shows when everything is quiet.      *)
(***************************************************************************)
EXTENDS WebUi, FiniteSetTheorems, TLAPS

UnderWay == {flight[i] : i \in DOMAIN flight}

\* What bounds the counter: each command still counting accounts for one change that the
\* counter will not exceed, also when another one overwrites it with an older value.
Bounded ==
  /\ version + (IF changing THEN 1 ELSE 0) <= events
  /\ IsFiniteSet(counting)
  /\ counter + Cardinality(counting) <= version
  /\ \A c \in counting : c.ver <= version
  /\ \A c \in counting : c.at = "store" => c.seen + Cardinality(counting) <= version
  /\ \A r \in UnderWay : r.seen <= MaxEvents /\ r.ver <= version

TypeInv == TypeOK /\ Bounded

\* While the counter has not gone back, nothing the page has or will get is ahead of it.
Behind ==
  "backwards" \notin blind =>
    /\ page.pcc <= counter
    /\ \A r \in UnderWay : r.seen <= counter

\* Only an answer is a mixture.
MixedAtEnd == \A r \in UnderWay : r.at # "answered" => r.whole

\* The last change: the page shows it (or a mixture that the change under way explains),
\* the counter gives it away, its command will raise the counter above what the page
\* knows, or a list that contains it is on the way.
IsLast(ver, whole) == ver = version /\ (whole \/ changing)
ShowsLast == IsLast(page.ver, page.whole)
WillCount == \E c \in counting : c.ver = version /\ (c.at = "load" \/ c.seen >= page.pcc)
OnTheWay == \E r \in UnderWay :
  /\ r.kind = "get"
  /\ r.at = "sent" \/ IsLast(r.ver, r.whole)
Noticed == blind = {} =>
  ShowsLast \/ page.pcc # counter \/ WillCount \/ OnTheWay

PageInv == TypeInv /\ Behind /\ MixedAtEnd /\ Noticed

-----------------------------------------------------------------------------
(***************************************************************************)
(* The requests under way, as a set.                                       *)
(***************************************************************************)
LEMMA Members ==
  ASSUME flight \in Seq(Request)
  PROVE  /\ UnderWay \subseteq Request
         /\ \A i \in DOMAIN flight : flight[i] \in UnderWay
BY DEF UnderWay

LEMMA Sending ==
  ASSUME flight \in Seq(Request), NEW r \in Request, Send(r)
  PROVE  flight' \in Seq(Request) /\ UnderWay' = UnderWay \cup {r}
<1>1. /\ flight' \in Seq(Request) /\ Len(flight') = Len(flight) + 1
      /\ \A i \in 1..Len(flight) : flight'[i] = flight[i]
      /\ flight'[Len(flight) + 1] = r
  BY DEF Send
<1>2. DOMAIN flight = 1..Len(flight) /\ DOMAIN flight' = 1..(Len(flight) + 1)
  BY <1>1
<1>3. ASSUME NEW x \in UnderWay' PROVE x \in UnderWay \cup {r}
  <2>1. PICK i \in DOMAIN flight' : x = flight'[i]
    BY DEF UnderWay
  <2>. QED  BY <1>1, <1>2, <2>1 DEF UnderWay
<1>4. ASSUME NEW x \in UnderWay \cup {r} PROVE x \in UnderWay'
  <2>1. CASE x = r
    <3>1. Len(flight) + 1 \in DOMAIN flight'
      BY <1>2
    <3>. QED  BY <1>1, <2>1, <3>1 DEF UnderWay
  <2>2. CASE x \in UnderWay
    <3>1. PICK i \in DOMAIN flight : x = flight[i]
      BY <2>2 DEF UnderWay
    <3>2. i \in DOMAIN flight' /\ flight'[i] = x
      BY <1>1, <1>2, <3>1
    <3>. QED  BY <3>2 DEF UnderWay
  <2>. QED  BY <2>1, <2>2
<1>. QED  BY <1>1, <1>3, <1>4

LEMMA Becoming ==
  ASSUME flight \in Seq(Request), NEW i \in DOMAIN flight, NEW r \in Request, Becomes(i, r)
  PROVE  /\ flight' \in Seq(Request)
         /\ UnderWay' \subseteq UnderWay \cup {r}
         /\ UnderWay \ {flight[i]} \subseteq UnderWay'
         /\ r \in UnderWay'
<1>1. /\ flight' \in Seq(Request) /\ DOMAIN flight' = DOMAIN flight
      /\ flight'[i] = r /\ \A j \in DOMAIN flight : j # i => flight'[j] = flight[j]
  BY DEF Becomes
<1>. QED  BY <1>1 DEF UnderWay

LEMMA Dropping ==
  ASSUME flight \in Seq(Request), NEW i \in DOMAIN flight
  PROVE  /\ Drop(i) \in Seq(Request)
         /\ \A k \in DOMAIN Drop(i) : Drop(i)[k] \in UnderWay
         /\ \A r \in UnderWay \ {flight[i]} : \E k \in DOMAIN Drop(i) : Drop(i)[k] = r
<1>. DEFINE n == Len(flight)
            d == Drop(i)
<1>1. n \in Nat /\ i \in 1..n /\ DOMAIN flight = 1..n /\ \A j \in 1..n : flight[j] \in Request
  OBVIOUS
<1>2. /\ SubSeq(flight, 1, i - 1) \in Seq(Request) /\ Len(SubSeq(flight, 1, i - 1)) = i - 1
      /\ \A k \in 1..(i - 1) : SubSeq(flight, 1, i - 1)[k] = flight[k]
  BY <1>1
<1>3. /\ SubSeq(flight, i + 1, n) \in Seq(Request) /\ Len(SubSeq(flight, i + 1, n)) = n - i
      /\ \A k \in 1..(n - i) : SubSeq(flight, i + 1, n)[k] = flight[k + i]
  BY <1>1, SMTT(30)
<1>4. /\ d \in Seq(Request) /\ Len(d) = n - 1
      /\ \A k \in 1..(n - 1) : d[k] = IF k < i THEN flight[k] ELSE flight[k + 1]
  <2>. DEFINE a == SubSeq(flight, 1, i - 1)
              b == SubSeq(flight, i + 1, n)
  <2>1. d = a \o b
    BY DEF Drop
  <2>. HIDE DEF d, a, b
  <2>2. /\ a \in Seq(Request) /\ Len(a) = i - 1 /\ \A k \in 1..(i - 1) : a[k] = flight[k]
        /\ b \in Seq(Request) /\ Len(b) = n - i /\ \A k \in 1..(n - i) : b[k] = flight[k + i]
    BY <1>2, <1>3 DEF a, b
  <2>3. d \in Seq(Request) /\ Len(d) = n - 1
    <3>1. d \in Seq(Request) /\ Len(d) = Len(a) + Len(b)
      BY <2>1, <2>2
    <3>. QED  BY <1>1, <2>2, <3>1
  <2>4. ASSUME NEW k \in 1..(n - 1), k < i PROVE d[k] = flight[k]
    <3>1. k \in 1..(i - 1)
      BY <1>1, <2>4
    <3>. QED  BY <1>1, <2>1, <2>2, <3>1
  <2>5. ASSUME NEW k \in 1..(n - 1), ~ (k < i) PROVE d[k] = flight[k + 1]
    <3>1. k - (i - 1) \in 1..(n - i) /\ k - (i - 1) + i = k + 1
      BY <1>1, <2>5
    <3>2. d[k] = b[k - (i - 1)]
      BY <1>1, <2>1, <2>2, <2>5, SMTT(30)
    <3>. QED  BY <2>2, <3>1, <3>2
  <2>. QED  BY <2>3, <2>4, <2>5
<1>. HIDE DEF d
<1>5. DOMAIN d = 1..(n - 1)
  BY <1>1, <1>4
<1>6. ASSUME NEW k \in DOMAIN d PROVE d[k] \in UnderWay
  BY <1>1, <1>4, <1>5 DEF UnderWay
<1>7. ASSUME NEW r \in UnderWay \ {flight[i]} PROVE \E k \in DOMAIN d : d[k] = r
  <2>1. PICK j \in 1..n : flight[j] = r
    BY <1>1 DEF UnderWay
  <2>2. CASE j < i
    BY <1>1, <1>4, <1>5, <2>1, <2>2
  <2>3. CASE j > i
    <3>1. j - 1 \in 1..(n - 1) /\ ~ (j - 1 < i) /\ (j - 1) + 1 = j
      BY <1>1, <2>3
    <3>. QED  BY <1>4, <1>5, <2>1, <3>1
  <2>. QED  BY <1>1, <2>1, <2>2, <2>3
<1>. QED  BY <1>4, <1>6, <1>7 DEF d

LEMMA DroppingOnly ==
  ASSUME flight \in Seq(Request), NEW i \in DOMAIN flight, flight' = Drop(i)
  PROVE  /\ flight' \in Seq(Request)
         /\ UnderWay' \subseteq UnderWay
         /\ UnderWay \ {flight[i]} \subseteq UnderWay'
BY Dropping DEF UnderWay

LEMMA GetTyped == Get \in Request
BY DEF Get, Request

LEMMA DroppingAsks ==
  ASSUME flight \in Seq(Request), NEW i \in DOMAIN flight, flight' = Append(Drop(i), Get)
  PROVE  /\ flight' \in Seq(Request)
         /\ UnderWay' \subseteq UnderWay \cup {Get}
         /\ UnderWay \ {flight[i]} \subseteq UnderWay'
         /\ Get \in UnderWay'
<1>. DEFINE d == Drop(i)
<1>1. d \in Seq(Request) /\ Get \in Request
  BY Dropping, GetTyped
<1>2. /\ flight' \in Seq(Request) /\ DOMAIN flight' = 1..(Len(d) + 1) /\ DOMAIN d = 1..Len(d)
      /\ \A k \in 1..Len(d) : flight'[k] = d[k]
      /\ flight'[Len(d) + 1] = Get /\ Len(d) \in Nat
  <2>. HIDE DEF d
  <2>1. flight' = Append(d, Get)
    BY DEF d
  <2>. QED  BY <1>1, <2>1
<1>3. /\ \A k \in DOMAIN d : d[k] \in UnderWay
      /\ \A r \in UnderWay \ {flight[i]} : \E k \in DOMAIN d : d[k] = r
  BY Dropping
<1>. HIDE DEF d
<1>4. UnderWay' \subseteq UnderWay \cup {Get}
  <2>1. SUFFICES ASSUME NEW x \in UnderWay' PROVE x \in UnderWay \cup {Get}
    OBVIOUS
  <2>2. PICK k \in DOMAIN flight' : x = flight'[k]
    BY DEF UnderWay
  <2>. QED  BY <1>2, <1>3, <2>2
<1>5. ASSUME NEW r \in UnderWay \ {flight[i]} PROVE r \in UnderWay'
  <2>1. PICK k \in DOMAIN d : d[k] = r
    BY <1>3
  <2>2. k \in DOMAIN flight' /\ flight'[k] = r
    BY <1>2, <2>1
  <2>. QED  BY <2>2 DEF UnderWay
<1>6. Get \in UnderWay'
  <2>1. Len(d) + 1 \in DOMAIN flight'
    BY <1>2
  <2>. QED  BY <1>2, <2>1 DEF UnderWay
<1>. QED  BY <1>2, <1>4, <1>5, <1>6

-----------------------------------------------------------------------------
(***************************************************************************)
(* Every step keeps the invariant.                                         *)
(***************************************************************************)
\* What the invariant says of each variable, unfolded once.
LEMMA Typed ==
  ASSUME TypeInv
  PROVE  /\ version \in Nat /\ counter \in Nat /\ events \in Nat /\ failures \in Nat
         /\ events <= MaxEvents /\ counter <= version /\ version <= MaxEvents
         /\ flight \in Seq(Request) /\ UnderWay \subseteq Request
         /\ \A c \in counting : c \in Count /\ c.ver \in Nat /\ c.seen \in Nat
         /\ IsFiniteSet(counting) /\ Cardinality(counting) \in Nat
         /\ page.pcc \in Nat /\ page.ver \in Int /\ page.whole \in BOOLEAN
         /\ MaxEvents \in Nat /\ MaxInFlight \in Nat /\ MaxFailures \in Nat
<1>1. IsFiniteSet(counting) /\ Cardinality(counting) \in Nat
  BY FS_CardinalityType DEF TypeInv, Bounded
<1>2. version \in Nat /\ counter \in Nat /\ events \in Nat /\ failures \in Nat /\ MaxEvents \in Nat
  BY WebUiConstantsOK DEF TypeInv, TypeOK
<1>3. version <= MaxEvents /\ counter <= version
  BY <1>1, <1>2 DEF TypeInv, TypeOK, Bounded
<1>4. UnderWay \subseteq Request
  BY Members DEF TypeInv, TypeOK
<1>. QED  BY <1>1, <1>2, <1>3, <1>4, WebUiConstantsOK DEF TypeInv, TypeOK, Count

\* A command that leaves those that count, or goes on to its store.
LEMMA CountingFalls ==
  ASSUME NEW S, IsFiniteSet(S), NEW c \in S, NEW x
  PROVE  /\ IsFiniteSet(S \ {c}) /\ Cardinality(S \ {c}) = Cardinality(S) - 1
         /\ IsFiniteSet((S \ {c}) \cup {x})
         /\ Cardinality((S \ {c}) \cup {x}) \in Nat
         /\ Cardinality((S \ {c}) \cup {x}) <= Cardinality(S)
         /\ Cardinality(S) \in Nat
<1>1. IsFiniteSet(S \ {c}) /\ Cardinality(S \ {c}) = Cardinality(S) - 1 /\ Cardinality(S) \in Nat
  BY FS_RemoveElement, FS_CardinalityType
<1>2. /\ IsFiniteSet((S \ {c}) \cup {x})
      /\ \/ Cardinality((S \ {c}) \cup {x}) = Cardinality(S \ {c})
         \/ Cardinality((S \ {c}) \cup {x}) = Cardinality(S \ {c}) + 1
  <2>1. CASE x \in S \ {c}
    <3>1. (S \ {c}) \cup {x} = S \ {c}
      BY <2>1
    <3>. QED  BY <1>1, <3>1
  <2>2. CASE x \notin S \ {c}
    BY <1>1, <2>2, FS_AddElement
  <2>. QED  BY <2>1, <2>2
<1>3. Cardinality(S \ {c}) \in Nat
  BY <1>1, FS_CardinalityType
<1>. QED  BY <1>1, <1>2, <1>3

LEMMA StartChangeStep ==
  ASSUME PageInv, StartChange
  PROVE  PageInv'
<1>1. TypeInv'
  BY Typed DEF PageInv, TypeInv, TypeOK, Bounded, UnderWay, StartChange, Event
<1>2. Behind' /\ MixedAtEnd'
  BY DEF PageInv, Behind, MixedAtEnd, UnderWay, StartChange
<1>3. Noticed'
  BY DEF PageInv, Noticed, ShowsLast, IsLast, WillCount, OnTheWay, UnderWay, StartChange
<1>. QED  BY <1>1, <1>2, <1>3 DEF PageInv

LEMMA ChangeStep ==
  ASSUME PageInv, Change
  PROVE  PageInv'
<1>. DEFINE new == [ver |-> version', at |-> "load", seen |-> 0]
<1>0. /\ changing /\ changing' = FALSE /\ version' = version + 1
      /\ counting' = counting \cup {new}
      /\ UNCHANGED <<counter, current, flight, page, blind, events, failures>>
  BY DEF Change, Free
<1>1. TypeInv'
  <2>1. new \in Count /\ new \notin counting
    BY <1>0, Typed DEF PageInv, TypeInv, Bounded, Count
  <2>2. IsFiniteSet(counting') /\ Cardinality(counting') = Cardinality(counting) + 1
    BY <1>0, <2>1, Typed, FS_AddElement DEF PageInv
  <2>3. version' + (IF changing' THEN 1 ELSE 0) <= events' /\ version' <= events'
    BY <1>0, Typed DEF PageInv, TypeInv, Bounded
  <2>4. TypeOK'
    <3>1. version' \in 0..MaxEvents
      BY <1>0, <2>3, Typed DEF PageInv
    <3>2. page' \in [ver : -1..version', whole : BOOLEAN, cur : Entries \cup {NoEntry},
                     pcc : 0..MaxEvents]
      <4>1. -1..version \subseteq -1..version'
        BY <1>0, Typed DEF PageInv
      <4>. QED  BY <1>0, <4>1 DEF PageInv, TypeInv, TypeOK
    <3>. QED  BY <1>0, <2>1, <3>1, <3>2 DEF PageInv, TypeInv, TypeOK
  <2>5. Bounded'
    <3>1. UnderWay' = UnderWay
      BY <1>0 DEF UnderWay
    <3>2. \A r \in UnderWay' : r.seen <= MaxEvents /\ r.ver <= version'
      <4>1. \A r \in UnderWay : r.ver \in Nat
        BY Typed DEF PageInv, Request
      <4>. QED  BY <1>0, <3>1, <4>1, Typed DEF PageInv, TypeInv, Bounded
    <3>3. \A c \in counting' : c.ver <= version'
      BY <1>0, Typed DEF PageInv, TypeInv, Bounded
    <3>4. ASSUME NEW c \in counting', c.at = "store"
          PROVE  c.seen + Cardinality(counting') <= version'
      <4>1. new.at = "load"
        OBVIOUS
      <4>2. c \in counting
        BY <1>0, <3>4, <4>1
      <4>3. c.seen + Cardinality(counting) <= version /\ c.seen \in Int
        BY <3>4, <4>2, Typed DEF PageInv, TypeInv, Bounded
      <4>4. version \in Int /\ Cardinality(counting) \in Int
        BY <1>0, Typed, FS_CardinalityType DEF PageInv
      <4>. QED  BY <1>0, <2>2, <4>3, <4>4
    <3>5. counter' + Cardinality(counting') <= version'
      BY <1>0, <2>2, Typed DEF PageInv, TypeInv, Bounded
    <3>. QED  BY <1>0, <2>2, <2>3, <3>2, <3>3, <3>4, <3>5 DEF Bounded
  <2>. QED  BY <2>4, <2>5 DEF TypeInv
<1>2. Behind' /\ MixedAtEnd'
  BY <1>0 DEF PageInv, Behind, MixedAtEnd, UnderWay
<1>3. Noticed'
  <2>1. new \in counting' /\ new.ver = version' /\ new.at = "load"
    BY <1>0
  <2>. HIDE DEF new
  <2>. QED  BY <2>1 DEF Noticed, WillCount
<1>. QED  BY <1>1, <1>2, <1>3 DEF PageInv

LEMMA ChangeFailsStep ==
  ASSUME PageInv, ChangeFails
  PROVE  PageInv'
<1>0. /\ changing /\ changing' = FALSE /\ version' = version + 1
      /\ blind' = blind \cup {"missed"}
      /\ failures' \in 0..MaxFailures
      /\ UNCHANGED <<counter, counting, current, flight, page, events>>
  <2>1. failures' \in 0..MaxFailures
    BY WebUiConstantsOK DEF PageInv, TypeInv, TypeOK, ChangeFails, Failure
  <2>. QED  BY <2>1 DEF ChangeFails, Failure
<1>1. TypeInv'
  <2>3. version' + (IF changing' THEN 1 ELSE 0) <= events' /\ version' <= events'
    BY <1>0, Typed DEF PageInv, TypeInv, Bounded
  <2>4. TypeOK'
    <3>1. version' \in 0..MaxEvents
      BY <1>0, <2>3, Typed DEF PageInv
    <3>2. page' \in [ver : -1..version', whole : BOOLEAN, cur : Entries \cup {NoEntry},
                     pcc : 0..MaxEvents]
      <4>1. -1..version \subseteq -1..version'
        BY <1>0, Typed DEF PageInv
      <4>. QED  BY <1>0, <4>1 DEF PageInv, TypeInv, TypeOK
    <3>. QED  BY <1>0, <3>1, <3>2 DEF PageInv, TypeInv, TypeOK
  <2>5. Bounded'
    <3>1. UnderWay' = UnderWay
      BY <1>0 DEF UnderWay
    <3>2. \A r \in UnderWay' : r.seen <= MaxEvents /\ r.ver <= version'
      <4>1. \A r \in UnderWay : r.ver \in Nat
        BY Typed DEF PageInv, Request
      <4>. QED  BY SMTT(20), <1>0, <3>1, <4>1, Typed DEF PageInv, TypeInv, Bounded
    <3>3. \A c \in counting' : c.ver <= version'
      BY SMTT(20), <1>0, Typed DEF PageInv, TypeInv, Bounded
    <3>4. \A c \in counting' : c.at = "store" => c.seen + Cardinality(counting') <= version'
      BY <1>0, Typed, SMTT(30) DEF PageInv, TypeInv, Bounded
    <3>5. counter' + Cardinality(counting') <= version'
      BY <1>0, Typed DEF PageInv, TypeInv, Bounded
    <3>. QED  BY <1>0, <2>3, <3>2, <3>3, <3>4, <3>5 DEF PageInv, TypeInv, Bounded
  <2>. QED  BY <2>4, <2>5 DEF TypeInv
<1>2. Behind' /\ MixedAtEnd'
  BY <1>0 DEF PageInv, Behind, MixedAtEnd, UnderWay
<1>3. Noticed'
  BY <1>0 DEF Noticed
<1>. QED  BY <1>1, <1>2, <1>3 DEF PageInv

LEMMA LoadCounterStep ==
  ASSUME PageInv, NEW c \in counting, LoadCounter(c)
  PROVE  PageInv'
<1>. DEFINE new == [c EXCEPT !.at = "store", !.seen = counter]
<1>0. /\ c.at = "load"
      /\ counting' = (counting \ {c}) \cup {new}
      /\ UNCHANGED <<version, counter, current, changing, flight, page, blind, events, failures>>
  BY DEF LoadCounter, Free
<1>1. new \in Count /\ new.ver = c.ver /\ new.at = "store" /\ new.seen = counter
  BY Typed DEF PageInv, Count
<1>. HIDE DEF new
<1>2. TypeOK'
  BY <1>0, <1>1 DEF PageInv, TypeInv, TypeOK
<1>3. Bounded'
  <2>1. /\ IsFiniteSet(counting') /\ Cardinality(counting') \in Nat
        /\ Cardinality(counting') <= Cardinality(counting)
    BY <1>0, Typed, CountingFalls DEF PageInv
  <2>2. UnderWay' = UnderWay
    BY <1>0 DEF UnderWay
  <2>3. counter' + Cardinality(counting') <= version'
    BY <1>0, <2>1, Typed DEF PageInv, TypeInv, Bounded
  <2>4. ASSUME NEW d \in counting' 
        PROVE d.ver <= version' /\ (d.at = "store" => d.seen + Cardinality(counting') <= version')
    <3>1. CASE d = new
      BY <1>0, <1>1, <2>3, <3>1 DEF PageInv, TypeInv, Bounded
    <3>2. CASE d \in counting
      <4>1. d.ver <= version /\ (d.at = "store" => d.seen + Cardinality(counting) <= version)
        BY <3>2 DEF PageInv, TypeInv, Bounded
      <4>2. d.seen \in Nat /\ Cardinality(counting) \in Nat /\ version \in Nat
        BY <3>2, Typed DEF PageInv
      <4>. QED  BY <1>0, <2>1, <4>1, <4>2
    <3>. QED  BY <1>0, <3>1, <3>2
  <2>. QED  BY <1>0, <2>1, <2>2, <2>3, <2>4 DEF PageInv, TypeInv, Bounded
<1>4. Behind' /\ MixedAtEnd'
  BY <1>0 DEF PageInv, Behind, MixedAtEnd, UnderWay
<1>5. Noticed'
  <2>1. SUFFICES ASSUME blind = {}, page.pcc = counter, WillCount PROVE WillCount'
    BY <1>0 DEF PageInv, Noticed, ShowsLast, IsLast, OnTheWay, UnderWay
  <2>2. PICK d \in counting : d.ver = version /\ (d.at = "load" \/ d.seen >= page.pcc)
    BY <2>1 DEF WillCount
  <2>3. CASE d = c
    <3>1. new \in counting' /\ new.ver = version' /\ new.seen >= page'.pcc
      BY <1>0, <1>1, <2>1, <2>2, <2>3, Typed DEF PageInv
    <3>. QED  BY <3>1 DEF WillCount
  <2>4. CASE d # c
    <3>1. d \in counting'
      BY <1>0, <2>4
    <3>. QED  BY <1>0, <2>2, <3>1 DEF WillCount
  <2>. QED  BY <2>3, <2>4
<1>. QED  BY <1>2, <1>3, <1>4, <1>5 DEF PageInv, TypeInv

LEMMA StoreCounterStep ==
  ASSUME PageInv, NEW c \in counting, StoreCounter(c)
  PROVE  PageInv'
<1>0. /\ c.at = "store"
      /\ counting' = counting \ {c}
      /\ counter' = c.seen + 1
      /\ blind' = IF counter' < counter THEN blind \cup {"backwards"} ELSE blind
      /\ UNCHANGED <<version, current, changing, page, events, failures>>
  BY DEF StoreCounter, Free
<1>1. c.seen \in Nat /\ counter' \in Nat
  BY SMTT(20), <1>0, Typed DEF PageInv
<1>2. /\ flight' \in Seq(Request)
      /\ UnderWay' \subseteq UnderWay \cup {Get}
      /\ UnderWay \subseteq UnderWay'
  <2>1. CASE UNCHANGED flight
    BY <2>1, Typed DEF PageInv, UnderWay
  <2>2. CASE Send(Get)
    BY <2>2, Typed, GetTyped, Sending DEF PageInv
  <2>. QED  BY <2>1, <2>2 DEF StoreCounter, MaybeAsk
<1>3. Get.whole /\ Get.seen = 0 /\ Get.ver = 0
  BY DEF Get
<1>4. /\ IsFiniteSet(counting') /\ Cardinality(counting') = Cardinality(counting) - 1
      /\ Cardinality(counting') \in Nat
  BY <1>0, CountingFalls, FS_CardinalityType, Typed DEF PageInv
<1>5. counter' + Cardinality(counting') <= version
  <2>1. c.seen + Cardinality(counting) <= version
    BY <1>0 DEF PageInv, TypeInv, Bounded
  <2>2. Cardinality(counting) \in Nat /\ version \in Nat
    BY Typed DEF PageInv
  <2>. QED  BY <1>0, <1>1, <1>4, <2>1, <2>2
<1>6. TypeOK'
  <2>1. counter' \in 0..MaxEvents
    BY <1>1, <1>4, <1>5, Typed DEF PageInv
  <2>. QED  BY <1>0, <1>2, <2>1 DEF PageInv, TypeInv, TypeOK
<1>7. Bounded'
  <2>1. \A d \in counting' : d.at = "store" => d.seen + Cardinality(counting') <= version'
    <3>1. SUFFICES ASSUME NEW d \in counting', d.at = "store"
                   PROVE  d.seen + Cardinality(counting') <= version'
      OBVIOUS
    <3>2. d.seen + Cardinality(counting) <= version /\ d.seen \in Nat
      BY <1>0, <3>1, Typed DEF PageInv, TypeInv, Bounded
    <3>. QED  BY <1>0, <1>4, <3>2, Typed, SMTT(30) DEF PageInv
  <2>2. \A r \in UnderWay' : r.seen <= MaxEvents /\ r.ver <= version'
    <3>1. 0 <= MaxEvents /\ 0 <= version
      BY Typed DEF PageInv
    <3>. QED  BY <1>0, <1>2, <1>3, <3>1 DEF PageInv, TypeInv, Bounded
  <2>. QED  BY <1>0, <1>4, <1>5, <2>1, <2>2 DEF PageInv, TypeInv, Bounded
<1>8. Behind'
  <2>1. SUFFICES ASSUME "backwards" \notin blind' PROVE Behind'
    BY DEF Behind
  <2>2. counter <= counter' /\ "backwards" \notin blind
    BY <1>0, <1>1, <2>1, Typed DEF PageInv
  <2>3. page'.pcc <= counter'
    BY <1>0, <1>1, <2>2, Typed DEF PageInv, Behind
  <2>4. ASSUME NEW r \in UnderWay' PROVE r.seen <= counter'
    <3>1. CASE r = Get
      BY <1>1, <1>3, <3>1
    <3>2. CASE r \in UnderWay
      <4>1. r.seen <= counter /\ r.seen \in Nat
        BY <2>2, <3>2, Typed DEF PageInv, Behind, Request
      <4>. QED  BY <1>1, <2>2, <4>1, Typed DEF PageInv
    <3>. QED  BY <1>2, <3>1, <3>2
  <2>. QED  BY <2>3, <2>4 DEF Behind
<1>9. MixedAtEnd'
  BY <1>2, <1>3 DEF PageInv, MixedAtEnd
<1>10. Noticed'
  <2>1. SUFFICES ASSUME blind' = {}, ~ ShowsLast, ~ OnTheWay
                 PROVE  page.pcc # counter' \/ WillCount'
    BY <1>0, <1>2 DEF PageInv, Noticed, ShowsLast, IsLast, OnTheWay
  <2>2. counter <= counter' /\ blind = {}
    <3>1. blind' # blind \cup {"backwards"}
      BY <2>1
    <3>2. ~ (counter' < counter) /\ counter \in Nat
      BY <1>0, <3>1, Typed DEF PageInv
    <3>. QED  BY <1>0, <1>1, <2>1, <3>2
  <2>3. page.pcc <= counter
    BY <2>2 DEF PageInv, Behind
  <2>4. CASE page.pcc # counter
    BY <1>1, <2>2, <2>3, <2>4, Typed DEF PageInv
  <2>5. CASE WillCount
    <3>1. PICK d \in counting : d.ver = version /\ (d.at = "load" \/ d.seen >= page.pcc)
      BY <2>5 DEF WillCount
    <3>2. CASE d = c
      BY <1>0, <1>1, <3>1, <3>2, Typed, SMTT(30) DEF PageInv
    <3>3. CASE d # c
      BY <1>0, <3>1, <3>3 DEF WillCount
    <3>. QED  BY <3>2, <3>3
  <2>. QED  BY <2>1, <2>2, <2>4, <2>5 DEF PageInv, Noticed
<1>. QED  BY <1>6, <1>7, <1>8, <1>9, <1>10 DEF PageInv, TypeInv

\* A request more changes nothing but what is under way.
LEMMA MoreRequests ==
  ASSUME PageInv, UNCHANGED <<version, counter, changing, counting, page, blind>>,
         events' \in 0..MaxEvents, events <= events', UNCHANGED failures, current' \in Entries,
         flight' \in Seq(Request), UnderWay \subseteq UnderWay',
         \A r \in UnderWay' \ UnderWay :
           r.seen <= MaxEvents /\ r.seen <= counter /\ r.ver <= version /\ r.whole
  PROVE  PageInv'
<1>1. TypeInv'
  <2>1. TypeOK'
    BY DEF PageInv, TypeInv, TypeOK
  <2>2. version' + (IF changing' THEN 1 ELSE 0) <= events'
    BY Typed DEF PageInv, TypeInv, Bounded
  <2>. QED  BY <2>1, <2>2 DEF PageInv, TypeInv, Bounded
<1>2. Behind' /\ MixedAtEnd'
  BY DEF PageInv, Behind, MixedAtEnd
<1>3. Noticed'
  BY DEF PageInv, Noticed, ShowsLast, IsLast, WillCount, OnTheWay
<1>. QED  BY <1>1, <1>2, <1>3 DEF PageInv

LEMMA PlayerMovesStep ==
  ASSUME PageInv, PlayerMoves
  PROVE  PageInv'
<1>1. Get.whole /\ Get.seen = 0 /\ Get.ver = 0
  BY DEF Get
<1>2. flight' \in Seq(Request) /\ UnderWay \subseteq UnderWay' /\ UnderWay' \subseteq UnderWay \cup {Get}
  <2>1. CASE UNCHANGED flight
    BY <2>1, Typed DEF PageInv, UnderWay
  <2>2. CASE Send(Get)
    BY <2>2, Typed, GetTyped, Sending DEF PageInv
  <2>. QED  BY <2>1, <2>2 DEF PlayerMoves, MaybeAsk
<1>3. events' \in 0..MaxEvents /\ events <= events' /\ UNCHANGED failures
  BY Typed DEF PageInv, PlayerMoves, Event
<1>4. 0 <= MaxEvents /\ 0 <= counter /\ 0 <= version
  BY Typed DEF PageInv
<1>. QED  BY <1>1, <1>2, <1>3, <1>4, MoreRequests DEF PlayerMoves, Stands

LEMMA TickStep ==
  ASSUME PageInv, Tick
  PROVE  PageInv'
<1>. DEFINE r == [Get EXCEPT !.kind = "summary", !.at = "begun", !.seen = counter]
<1>1. r \in Request /\ r.whole /\ r.seen = counter /\ r.ver = 0
  BY Typed DEF PageInv, Get, Request
<1>2. Send(r)
  BY DEF Tick
<1>. HIDE DEF r
<1>3. flight' \in Seq(Request) /\ UnderWay' = UnderWay \cup {r}
  BY <1>1, <1>2, Typed, Sending DEF PageInv
<1>4. counter <= MaxEvents /\ counter <= counter /\ 0 <= version /\ events <= events
  BY Typed DEF PageInv
<1>. QED  BY <1>1, <1>3, <1>4, MoreRequests DEF Tick, Reads, Stands, Free, PageInv, TypeInv, TypeOK

LEMMA EndSummaryStep ==
  ASSUME PageInv, NEW i \in DOMAIN flight, EndSummary(i)
  PROVE  PageInv'
<1>. DEFINE r == [Goes(i, "answered") EXCEPT !.cur = current]
<1>1. flight[i] \in Request /\ flight[i] \in UnderWay /\ flight[i].kind = "summary"
      /\ flight[i].at = "begun"
  BY Typed, Members DEF PageInv, EndSummary, At
<1>2. /\ r \in Request /\ r.kind = "summary" /\ r.whole = flight[i].whole
      /\ r.seen = flight[i].seen /\ r.ver = flight[i].ver
  BY <1>1 DEF Goes, Request, PageInv, TypeInv, TypeOK
<1>3. Becomes(i, r)
  BY DEF EndSummary
<1>. HIDE DEF r
<1>4. /\ flight' \in Seq(Request) /\ UnderWay' \subseteq UnderWay \cup {r}
      /\ UnderWay \ {flight[i]} \subseteq UnderWay'
  BY <1>2, <1>3, Becoming, Typed DEF PageInv
<1>5. UNCHANGED <<version, counter, changing, counting, current, page, blind, events, failures>>
  BY DEF EndSummary, Reads, Stands, Free
<1>6. r.seen <= MaxEvents /\ r.ver <= version /\ ("backwards" \notin blind => r.seen <= counter)
  BY <1>1, <1>2 DEF PageInv, TypeInv, Bounded, Behind
<1>7. TypeInv'
  BY <1>4, <1>5, <1>6 DEF PageInv, TypeInv, TypeOK, Bounded
<1>8. Behind'
  BY <1>4, <1>5, <1>6 DEF PageInv, Behind
<1>9. MixedAtEnd'
  BY <1>1, <1>2, <1>4 DEF PageInv, MixedAtEnd
<1>10. Noticed'
  BY <1>1, <1>4, <1>5 DEF PageInv, Noticed, ShowsLast, IsLast, WillCount, OnTheWay
<1>. QED  BY <1>7, <1>8, <1>9, <1>10 DEF PageInv

LEMMA BeginGetStep ==
  ASSUME PageInv, NEW i \in DOMAIN flight, BeginGet(i)
  PROVE  PageInv'
<1>. DEFINE r == [Goes(i, "begun") EXCEPT !.cur = current, !.ver = version]
<1>1. flight[i] \in Request /\ flight[i] \in UnderWay /\ flight[i].at = "sent"
  BY Typed, Members DEF PageInv, BeginGet, At
<1>2. /\ r \in Request /\ r.kind = flight[i].kind /\ r.whole = flight[i].whole
      /\ r.seen = flight[i].seen /\ r.ver = version
  BY <1>1, Typed DEF Goes, Request, PageInv, TypeInv, TypeOK
<1>3. Becomes(i, r)
  BY DEF BeginGet
<1>. HIDE DEF r
<1>4. /\ flight' \in Seq(Request) /\ UnderWay' \subseteq UnderWay \cup {r}
      /\ UnderWay \ {flight[i]} \subseteq UnderWay' /\ r \in UnderWay'
  BY <1>2, <1>3, Becoming, Typed DEF PageInv
<1>5. UNCHANGED <<version, counter, changing, counting, current, page, blind, events, failures>>
  BY DEF BeginGet, Reads, Stands, Free
<1>6. r.seen <= MaxEvents /\ r.ver <= version /\ ("backwards" \notin blind => r.seen <= counter)
  BY <1>1, <1>2, Typed DEF PageInv, TypeInv, Bounded, Behind
<1>7. r.whole
  BY <1>1, <1>2 DEF PageInv, MixedAtEnd
<1>8. TypeInv'
  BY <1>4, <1>5, <1>6 DEF PageInv, TypeInv, TypeOK, Bounded
<1>9. Behind' /\ MixedAtEnd'
  BY <1>4, <1>5, <1>6, <1>7 DEF PageInv, Behind, MixedAtEnd
<1>10. Noticed'
  <2>1. CASE OnTheWay
    <3>1. OnTheWay'
      BY <1>2, <1>4, <1>5, <1>7, <2>1 DEF OnTheWay, IsLast
    <3>. QED  BY <3>1 DEF Noticed
  <2>2. CASE ~ OnTheWay
    BY <1>5, <2>2 DEF PageInv, Noticed, ShowsLast, IsLast, WillCount
  <2>. QED  BY <2>1, <2>2
<1>. QED  BY <1>8, <1>9, <1>10 DEF PageInv

LEMMA EndGetStep ==
  ASSUME PageInv, NEW i \in DOMAIN flight, EndGet(i)
  PROVE  PageInv'
<1>1. flight[i] \in Request /\ flight[i] \in UnderWay /\ flight[i].at = "begun"
      /\ flight[i].kind = "get"
  BY Typed, Members DEF PageInv, EndGet, At
<1>2. flight[i].ver \in Nat /\ flight[i].ver <= version /\ flight[i].whole
  BY <1>1 DEF PageInv, TypeInv, Bounded, MixedAtEnd, Request
<1>3. PICK r \in Request :
        /\ Becomes(i, r)
        /\ r.kind = "get" /\ r.at = "answered" /\ r.seen = flight[i].seen
        /\ r.ver \in flight[i].ver..version
        /\ r.whole \/ changing \/ r.ver < version
  <2>1. CASE \E v \in flight[i].ver..version : Becomes(i, [Goes(i, "answered") EXCEPT !.ver = v])
    <3>1. PICK v \in flight[i].ver..version : Becomes(i, [Goes(i, "answered") EXCEPT !.ver = v])
      BY <2>1
    <3>. DEFINE r == [Goes(i, "answered") EXCEPT !.ver = v]
    <3>2. v \in Nat
      BY <1>2, Typed DEF PageInv
    <3>3. /\ r \in Request /\ r.kind = "get" /\ r.at = "answered" /\ r.seen = flight[i].seen
          /\ r.ver = v /\ r.whole
      BY <1>1, <1>2, <3>2 DEF Goes, Request
    <3>. QED  BY <3>1, <3>3
  <2>2. CASE /\ changing \/ flight[i].ver < version
             /\ Becomes(i, [Goes(i, "answered") EXCEPT !.whole = FALSE])
    <3>. DEFINE r == [Goes(i, "answered") EXCEPT !.whole = FALSE]
    <3>1. /\ r \in Request /\ r.kind = "get" /\ r.at = "answered" /\ r.seen = flight[i].seen
          /\ r.ver = flight[i].ver
      BY <1>1, <1>2 DEF Goes, Request
    <3>2. r.ver \in flight[i].ver..version
      BY <1>2, <3>1, Typed DEF PageInv
    <3>. QED  BY <2>2, <3>1, <3>2
  <2>. QED  BY <2>1, <2>2 DEF EndGet
<1>4. /\ flight' \in Seq(Request) /\ UnderWay' \subseteq UnderWay \cup {r}
      /\ UnderWay \ {flight[i]} \subseteq UnderWay' /\ r \in UnderWay'
  BY <1>3, Becoming, Typed DEF PageInv
<1>5. UNCHANGED <<version, counter, changing, counting, current, page, blind, events, failures>>
  BY DEF EndGet, Reads, Stands, Free
<1>6. r.seen <= MaxEvents /\ r.ver <= version /\ ("backwards" \notin blind => r.seen <= counter)
  BY <1>1, <1>2, <1>3, Typed DEF PageInv, TypeInv, Bounded, Behind
<1>8. TypeInv'
  BY <1>4, <1>5, <1>6 DEF PageInv, TypeInv, TypeOK, Bounded
<1>9. Behind' /\ MixedAtEnd'
  BY <1>3, <1>4, <1>5, <1>6 DEF PageInv, Behind, MixedAtEnd
<1>10. Noticed'
  <2>1. ASSUME OnTheWay PROVE OnTheWay'
    <3>1. PICK s \in UnderWay : s.kind = "get" /\ (s.at = "sent" \/ IsLast(s.ver, s.whole))
      BY <2>1 DEF OnTheWay
    <3>2. CASE s = flight[i]
      <4>1. s.ver = version
        BY <1>1, <3>1, <3>2 DEF IsLast
      <4>2. r.ver = version
        BY <1>2, <1>3, <3>2, <4>1, Typed DEF PageInv
      <4>3. r.whole \/ changing
        BY <1>3, <4>2, Typed DEF PageInv
      <4>. QED  BY <1>3, <1>4, <1>5, <4>2, <4>3 DEF OnTheWay, IsLast
    <3>3. CASE s # flight[i]
      BY <1>4, <1>5, <3>1, <3>3 DEF OnTheWay, IsLast
    <3>. QED  BY <3>2, <3>3
  <2>. QED  BY <1>5, <2>1 DEF PageInv, Noticed, ShowsLast, IsLast, WillCount
<1>. QED  BY <1>8, <1>9, <1>10 DEF PageInv

\* A summary that differs from what the page knows has the list asked for; one that does
\* not leaves what the page knows.
LEMMA SummaryStep ==
  ASSUME PageInv, NEW i \in DOMAIN flight, Summary(i)
  PROVE  PageInv'
<1>1. flight[i] \in Request /\ flight[i] \in UnderWay /\ flight[i].kind = "summary"
  BY Typed, Members DEF PageInv, Summary, At
<1>2. /\ page' = [page EXCEPT !.pcc = flight[i].seen]
      /\ UNCHANGED <<version, counter, changing, counting, current, blind, events, failures>>
  BY DEF Summary, Stands, Free
<1>3. /\ page'.pcc = flight[i].seen /\ page'.ver = page.ver /\ page'.whole = page.whole
      /\ page' \in [ver : -1..version, whole : BOOLEAN, cur : Entries \cup {NoEntry},
                    pcc : 0..MaxEvents]
  <2>1. flight[i].seen \in 0..MaxEvents
    BY <1>1, Typed DEF PageInv, TypeInv, Bounded, Request
  <2>. QED  BY <1>2, <2>1 DEF PageInv, TypeInv, TypeOK
<1>4. /\ flight' \in Seq(Request) /\ UnderWay' \subseteq UnderWay \cup {Get}
      /\ UnderWay \ {flight[i]} \subseteq UnderWay'
      /\ Get \in UnderWay' \/ page'.pcc = page.pcc
  <2>1. CASE flight' = Append(Drop(i), Get)
    BY <2>1, DroppingAsks, Typed DEF PageInv
  <2>2. CASE flight' = Drop(i) /\ flight[i].seen = page.pcc
    BY <1>3, <2>2, DroppingOnly, Typed DEF PageInv
  <2>. QED  BY <2>1, <2>2 DEF Summary
<1>5. /\ Get.whole /\ Get.seen <= MaxEvents /\ Get.seen <= counter /\ Get.ver <= version
      /\ Get.kind = "get" /\ Get.at = "sent"
  BY Typed DEF PageInv, Get
<1>6. TypeInv'
  BY <1>2, <1>3, <1>4, <1>5 DEF PageInv, TypeInv, TypeOK, Bounded
<1>7. Behind' /\ MixedAtEnd'
  BY <1>1, <1>2, <1>3, <1>4, <1>5 DEF PageInv, Behind, MixedAtEnd
<1>8. Noticed'
  <2>1. CASE Get \in UnderWay'
    BY <1>5, <2>1 DEF Noticed, OnTheWay
  <2>2. CASE page'.pcc = page.pcc
    BY <1>1, <1>2, <1>3, <1>4, <2>2 DEF PageInv, Noticed, ShowsLast, IsLast, WillCount, OnTheWay
  <2>. QED  BY <1>4, <2>1, <2>2
<1>. QED  BY <1>6, <1>7, <1>8 DEF PageInv

\* A list that takes the last one's place is an older one, which the history notes.
LEMMA PlaylistStep ==
  ASSUME PageInv, NEW i \in DOMAIN flight, Playlist(i)
  PROVE  PageInv'
<1>. DEFINE got == flight[i]
            newest == got.ver = version /\ got.whole
            older == got.ver < page.ver \/ (got.ver = page.ver /\ page.whole /\ ~ got.whole)
<1>1. got \in Request /\ got \in UnderWay /\ got.kind = "get"
  BY Typed, Members DEF PageInv, Playlist, At
<1>2. /\ page' = [page EXCEPT !.ver = got.ver, !.whole = got.whole, !.cur = got.cur]
      /\ blind' = IF newest THEN blind \cap {"backwards"}
                  ELSE IF older THEN blind \cup {"missed"} ELSE blind
      /\ UNCHANGED <<version, counter, changing, counting, current, events, failures>>
  BY DEF Playlist, Stands, Free
<1>3. got.ver \in Nat /\ got.ver <= version /\ got.whole \in BOOLEAN
      /\ got.cur \in Entries \cup {NoEntry}
  BY <1>1 DEF PageInv, TypeInv, Bounded, Request
<1>4. /\ page'.pcc = page.pcc /\ page'.ver = got.ver /\ page'.whole = got.whole
      /\ page' \in [ver : -1..version, whole : BOOLEAN, cur : Entries \cup {NoEntry},
                    pcc : 0..MaxEvents]
  <2>1. got.ver \in -1..version
    BY <1>3, Typed DEF PageInv
  <2>. HIDE DEF got
  <2>. QED  BY <1>2, <1>3, <2>1 DEF PageInv, TypeInv, TypeOK
<1>5. /\ flight' \in Seq(Request) /\ UnderWay' \subseteq UnderWay
      /\ UnderWay \ {got} \subseteq UnderWay'
  BY DroppingOnly, Typed DEF PageInv, Playlist
<1>6. blind' \subseteq {"missed", "backwards"} /\ ("backwards" \in blind => "backwards" \in blind')
  BY <1>2 DEF PageInv, TypeInv, TypeOK
<1>7. TypeInv'
  BY <1>2, <1>4, <1>5, <1>6 DEF PageInv, TypeInv, TypeOK, Bounded
<1>8. Behind' /\ MixedAtEnd'
  BY <1>2, <1>4, <1>5, <1>6 DEF PageInv, Behind, MixedAtEnd
<1>9. Noticed'
  <2>1. CASE newest
    <3>1. ShowsLast'
      BY <1>2, <1>4, <2>1 DEF ShowsLast, IsLast
    <3>. QED  BY <3>1 DEF Noticed
  <2>2. CASE ~ newest
    <3>1. SUFFICES ASSUME blind' = {} PROVE Noticed'
      BY DEF Noticed
    <3>2. blind = {} /\ ~ older
      BY <1>2, <2>2, <3>1
    <3>3. CASE ShowsLast
      <4>1. got.ver = version
        BY <1>3, <3>2, <3>3, Typed DEF PageInv, ShowsLast, IsLast
      <4>2. got.whole \/ changing
        BY <3>2, <3>3, <4>1 DEF ShowsLast, IsLast
      <4>3. ShowsLast'
        BY <1>2, <1>4, <4>1, <4>2 DEF ShowsLast, IsLast
      <4>. QED  BY <4>3 DEF Noticed
    <3>4. CASE page.pcc # counter \/ WillCount
      BY <1>2, <1>4, <3>4 DEF Noticed, WillCount
    <3>5. CASE OnTheWay
      <4>1. PICK s \in UnderWay : s.kind = "get" /\ (s.at = "sent" \/ IsLast(s.ver, s.whole))
        BY <3>5 DEF OnTheWay
      <4>2. CASE s = got
        <5>1. got.at = "answered"
          BY DEF Playlist, At
        <5>2. ShowsLast'
          BY <1>2, <1>4, <4>1, <4>2, <5>1 DEF ShowsLast, IsLast
        <5>. QED  BY <5>2 DEF Noticed
      <4>3. CASE s # got
        BY <1>2, <1>5, <4>1, <4>3 DEF Noticed, OnTheWay, ShowsLast, IsLast
      <4>. QED  BY <4>2, <4>3
    <3>. QED  BY <3>2, <3>3, <3>4, <3>5 DEF PageInv, Noticed
  <2>. QED  BY <2>1, <2>2
<1>. QED  BY <1>7, <1>8, <1>9 DEF PageInv

LEMMA LostGetStep ==
  ASSUME PageInv, NEW i \in DOMAIN flight, LostGet(i)
  PROVE  PageInv'
<1>1. /\ flight' \in Seq(Request) /\ UnderWay' \subseteq UnderWay
      /\ UNCHANGED <<version, counter, changing, counting, current, page, events>>
      /\ blind' = blind \cup {"missed"}
  BY DroppingOnly, Typed DEF PageInv, LostGet, Stands, Failure
<1>2. failures' \in 0..MaxFailures
  BY WebUiConstantsOK DEF PageInv, TypeInv, TypeOK, LostGet, Failure
<1>3. TypeInv'
  BY <1>1, <1>2 DEF PageInv, TypeInv, TypeOK, Bounded
<1>4. Behind' /\ MixedAtEnd' /\ Noticed'
  BY <1>1 DEF PageInv, Behind, MixedAtEnd, Noticed
<1>. QED  BY <1>3, <1>4 DEF PageInv

LEMMA GetFailsStep ==
  ASSUME PageInv, NEW i \in DOMAIN flight, GetFails(i)
  PROVE  PageInv'
<1>. DEFINE r == [Goes(i, "answered") EXCEPT !.whole = FALSE]
<1>1. flight[i] \in Request /\ flight[i] \in UnderWay
  BY Typed, Members DEF PageInv
<1>2. r \in Request /\ r.at = "answered" /\ r.seen = flight[i].seen /\ r.ver = flight[i].ver
  BY <1>1 DEF Goes, Request
<1>3. /\ Becomes(i, r) \/ flight' = Drop(i)
      /\ UNCHANGED <<version, counter, changing, counting, current, page, events>>
      /\ blind' = blind \cup {"missed"}
  BY DEF GetFails, Stands, Failure
<1>. HIDE DEF r
<1>4. flight' \in Seq(Request) /\ UnderWay' \subseteq UnderWay \cup {r}
  BY <1>2, <1>3, Becoming, DroppingOnly, Typed DEF PageInv
<1>5. failures' \in 0..MaxFailures
  BY WebUiConstantsOK DEF PageInv, TypeInv, TypeOK, GetFails, Failure
<1>6. r.seen <= MaxEvents /\ r.ver <= version /\ ("backwards" \notin blind => r.seen <= counter)
  BY <1>1, <1>2 DEF PageInv, TypeInv, Bounded, Behind
<1>7. TypeInv'
  BY <1>3, <1>4, <1>5, <1>6 DEF PageInv, TypeInv, TypeOK, Bounded
<1>8. Behind' /\ MixedAtEnd' /\ Noticed'
  BY <1>2, <1>3, <1>4, <1>6 DEF PageInv, Behind, MixedAtEnd, Noticed
<1>. QED  BY <1>7, <1>8 DEF PageInv

LEMMA PageStarts == Init => PageInv
<1>1. SUFFICES ASSUME Init PROVE PageInv
  OBVIOUS
<1>2. flight \in Seq(Request) /\ UnderWay = {Get}
  BY <1>1, GetTyped DEF Init, UnderWay
<1>3. Get.whole /\ Get.seen = 0 /\ Get.ver = 0 /\ Get.kind = "get" /\ Get.at = "sent"
  BY DEF Get
<1>4. TypeOK
  <2>1. page \in [ver : -1..0, whole : BOOLEAN, cur : Entries \cup {NoEntry}, pcc : 0..MaxEvents]
    BY <1>1, WebUiConstantsOK DEF Init
  <2>2. version \in 0..MaxEvents /\ counter \in 0..MaxEvents /\ events \in 0..MaxEvents
        /\ failures \in 0..MaxFailures
    BY <1>1, WebUiConstantsOK DEF Init
  <2>3. current \in Entries /\ changing \in BOOLEAN /\ counting \subseteq Count /\ blind = {}
    BY <1>1, WebUiConstantsOK DEF Init
  <2>4. version = 0
    BY <1>1 DEF Init
  <2>. QED  BY <1>2, <2>1, <2>2, <2>3, <2>4 DEF TypeOK
<1>5. Bounded
  <2>1. IsFiniteSet(counting) /\ Cardinality(counting) = 0
    BY <1>1, FS_EmptySet DEF Init
  <2>. QED  BY <1>1, <1>2, <1>3, <2>1, WebUiConstantsOK DEF Init, Bounded
<1>6. Behind /\ MixedAtEnd /\ Noticed
  <2>1. page.pcc = 0 /\ counter = 0
    BY <1>1 DEF Init
  <2>. QED  BY <1>2, <1>3, <2>1 DEF Behind, MixedAtEnd, Noticed, OnTheWay
<1>. QED  BY <1>4, <1>5, <1>6 DEF PageInv, TypeInv

LEMMA PageSteps ==
  ASSUME PageInv, [Next]_vars
  PROVE  PageInv'
<1>1. CASE UNCHANGED vars
  BY <1>1 DEF vars, PageInv, TypeInv, TypeOK, Bounded, Behind, MixedAtEnd, Noticed, ShowsLast, IsLast,
              WillCount, OnTheWay, UnderWay
<1>2. CASE StartChange \/ ChangeFails \/ PlayerMoves \/ Tick
  BY <1>2, StartChangeStep, ChangeFailsStep, PlayerMovesStep, TickStep
<1>3. CASE ChangeGoesOn
  BY <1>3, ChangeStep, LoadCounterStep, StoreCounterStep DEF ChangeGoesOn
<1>4. CASE \E i \in DOMAIN flight : Serve(i) \/ Deliver(i) \/ GetFails(i) \/ LostGet(i)
  BY <1>4, EndSummaryStep, BeginGetStep, EndGetStep, SummaryStep, PlaylistStep, GetFailsStep,
     LostGetStep DEF Serve, Deliver
<1>. QED  BY <1>1, <1>2, <1>3, <1>4 DEF Next

LEMMA PageAlways == Spec => []PageInv
BY PageStarts, PageSteps, PTL DEF Spec

\* Every variable keeps its type; the counter never exceeds the number of changes, also when
\* commands that count at once overwrite each other's increments.
THEOREM PageTypeCorrect == Spec => []TypeOK
<1>1. PageInv => TypeOK
  BY DEF PageInv, TypeInv
<1>. QED  BY <1>1, PageAlways, PTL

\* When nothing is under way and the page has the counter's value, it shows the playlist, in
\* whatever order requests were answered and whatever queries failed - but while the last list
\* it got, or should have got, was lost, broken off by a failed query or overtaken, a change
\* was not counted or the counter went back (blind).
THEOREM LatestIsShown == Spec => []ShowsLatest
<1>1. PageInv => ShowsLatest
  <2>1. SUFFICES ASSUME PageInv, Quiet, page.pcc = counter, blind = {} PROVE ShowsList
    BY DEF ShowsLatest
  <2>2. ~ WillCount
    BY <2>1 DEF Quiet, WillCount
  <2>3. ~ OnTheWay
    BY <2>1 DEF Quiet, OnTheWay, UnderWay
  <2>. QED  BY <2>1, <2>2, <2>3 DEF PageInv, Noticed, ShowsLast, IsLast, ShowsList, Quiet
<1>. QED  BY <1>1, PageAlways, PTL
=============================================================================
