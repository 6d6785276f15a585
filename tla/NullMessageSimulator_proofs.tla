---------------------- MODULE NullMessageSimulator_proofs ----------------------
(* Theorems about the ranks that synchronise with null messages: one null event   *)
(* per neighbour, and, with one device between two ranks, that every guarantee is *)
(* kept and that nothing reaches a rank from its past, for any topology, delays,  *)
(* handlers, and any delay of the messages between two ranks.                     *)
EXTENDS NullMessageSimulator, SequenceTheorems, FiniteSetTheorems, WellFoundedInduction, TLAPS

\* One device of a rank leads to a neighbour. With two, a guarantee given along with a
\* packet on one does not allow for a packet on the other.
OneDevicePerNeighbour ==
  \A d, e \in Devices : RankOf[d] = RankOf[e] /\ RemoteOf[d] = RemoteOf[e] => d = e

Kinds == {"app", "stop", "null", "cancelled", "txComplete"}
EventType == [ts : Nat, kind : Kinds, of : Ranks \cup Devices]
MessageType == [rxTime : Nat, guarantee : Nat]

Types ==
  /\ pc \in [Ranks -> {"loop", "handler", "polling", "returned"}]
  /\ events \in [Ranks -> Seq(EventType)]
  /\ stop \in [Ranks -> BOOLEAN]
  /\ currentTs \in [Ranks -> Nat] /\ safeTime \in [Ranks -> Nat]
  /\ DOMAIN guaranteeTime = Ranks /\ DOMAIN channel = Ranks
  /\ \A r \in Ranks : /\ guaranteeTime[r] \in [Neighbours(r) -> Nat]
                      /\ channel[r] \in [Neighbours(r) -> Seq(MessageType)]

IsNull(e, s) == e.kind = "null" /\ e.of = s
IsEnd(e, d) == e.kind = "txComplete" /\ e.of = d
HasStop(list) == \E i \in DOMAIN list : list[i].kind = "stop"
OneNullIn(list, s) == \E i \in DOMAIN list : \A j \in DOMAIN list : IsNull(list[j], s) <=> j = i

\* The list of a rank that goes on is not empty, and has one null event per neighbour.
HasEvents(list, r, stopped) ==
  /\ list \in Seq(EventType)
  /\ ~stopped => HasStop(list)
  /\ \A i \in DOMAIN list : list[i].kind = "null" => list[i].of \in Neighbours(r)
  /\ \A s \in Neighbours(r) : OneNullIn(list, s)

Lists == \A r \in Ranks : HasEvents(events[r], r, stop[r])

Ordered(list) == \A i, j \in DOMAIN list : i < j => list[i].ts <= list[j].ts

\* A list is ordered, does not reach behind the time now, and a null event in it is never
\* further away than when it was scheduled.
IsAhead(list, r, now) ==
  /\ Ordered(list)
  /\ \A i \in DOMAIN list :
       /\ now <= list[i].ts
       /\ \A s \in Neighbours(r) : IsNull(list[i], s) => list[i].ts <= now + NullDelay(r, s)

\* The clock of a rank is behind its list, its safe time and its neighbours' guarantees.
Clocks ==
  \A r \in Ranks :
    /\ IsAhead(events[r], r, currentTs[r])
    /\ currentTs[r] <= safeTime[r]
    /\ \A s \in Neighbours(r) : safeTime[r] <= guaranteeTime[r][s]

\* The guarantees of a channel with the messages ms, when the last received was g.
GuaranteesOf(g, ms) == {g} \cup {ms[i].guarantee : i \in DOMAIN ms}
Given(s, r) == GuaranteesOf(guaranteeTime[r][s], channel[s][r])

\* The guarantees of a channel do not decrease, and packets keep their own.
IsRising(g, ms) ==
  \A i \in DOMAIN ms :
    /\ g <= ms[i].guarantee
    /\ \A j \in 1..i : ms[j].guarantee <= ms[i].guarantee
    /\ ms[i].rxTime > 0 => ms[i].guarantee <= ms[i].rxTime

Rising == \A r \in Ranks : \A s \in Neighbours(r) : IsRising(guaranteeTime[r][s], channel[s][r])

\* Why a rank keeps a guarantee g that it gave to r, to which it sends packets on device d
\* that need at least the given delay: its clock has reached the time g was computed from;
\* or d is transmitting until then, and the next null message is not sent before; or the
\* rank is between two events and has none before then but the null event for r.
IsKept(g, r, d, delay, list, now, safe, isHandling) ==
  \/ g <= now + delay
  \/ /\ \E i \in DOMAIN list : IsEnd(list[i], d)
     /\ \A i \in DOMAIN list : IsEnd(list[i], d) \/ IsNull(list[i], r) => g <= list[i].ts + delay
  \/ /\ ~isHandling /\ g <= safe + delay
     /\ \A i \in DOMAIN list : ~IsNull(list[i], r) => g <= list[i].ts + delay

Keeps(g, d) ==
  LET s == RankOf[d] IN
  IsKept(g, RemoteOf[d], d, BundleDelay(s, RemoteOf[d]), events[s], currentTs[s], safeTime[s],
         pc[s] = "handler")

Promises == \A d \in Devices : \A g \in Given(RankOf[d], RemoteOf[d]) : Keeps(g, d)

--------------------------------------------------------------------------------
(* Delays *)

\* A set of natural numbers has a least element.
LEMMA LeastNatural ==
  ASSUME NEW S \in SUBSET Nat, S # {}
  PROVE  Min(S) \in S /\ \A y \in S : Min(S) <= y
<1> DEFINE R == {p \in Nat \X Nat : p[1] < p[2]}
<1>1. IsWellFoundedOn(R, Nat)
  BY NatLessThanWellFounded DEF OpToRel
<1>2. PICK x \in S : \A y \in S : ~(<<y, x>> \in R)
  BY <1>1, WFMin
<1>3. ASSUME NEW y \in S PROVE x <= y
  <2>1. <<y, x>> \in Nat \X Nat /\ <<y, x>> \notin R
    BY <1>2
  <2>2. ~(<<y, x>>[1] < <<y, x>>[2])
    BY <2>1
  <2>3. QED
    BY <2>2
<1>4. QED
  BY <1>3 DEF Min

LEMMA LeastOfTwo ==
  ASSUME NEW a \in Nat, NEW b \in Nat
  PROVE  Min({a, b}) \in {a, b} /\ Min({a, b}) <= a /\ Min({a, b}) <= b
  BY LeastNatural

\* The delay of a bundle is that of one of its devices, and of none of them a larger one.
LEMMA Delayed ==
  ASSUME NEW r \in Ranks, NEW s \in Neighbours(r)
  PROVE  /\ BundleDelay(r, s) \in Nat /\ NullDelay(r, s) \in Nat
         /\ \A d \in DevicesOf(r) : RemoteOf[d] = s => BundleDelay(r, s) <= DelayOf[d]
<1> DEFINE D == {d \in DevicesOf(r) : RemoteOf[d] = s}
           S == {DelayOf[d] : d \in D}
<1>1. S \in SUBSET Nat /\ S # {}
  BY DevicesAssumption DEF Neighbours, DevicesOf
<1>2. BundleDelay(r, s) = Min(S)
  BY DEF BundleDelay
<1>3. BundleDelay(r, s) \in Nat /\ \A d \in D : BundleDelay(r, s) <= DelayOf[d]
  BY <1>1, <1>2, LeastNatural
<1>4. SchedulerTune * BundleDelay(r, s) \in Nat
  BY <1>3, SchedulerTuneAssumption
<1>5. NullDelay(r, s) \in Nat
  BY <1>4 DEF NullDelay
<1>6. QED
  BY <1>3, <1>5

--------------------------------------------------------------------------------
(* The list of events *)

\* Where a new event goes.
Place(list, e) == Cardinality({i \in DOMAIN list : list[i].ts <= e.ts}) + 1

LEMMA PlaceType ==
  ASSUME NEW list \in Seq(EventType), NEW e \in EventType
  PROVE  Place(list, e) \in 1..Len(list) + 1
<1> DEFINE S == {i \in DOMAIN list : list[i].ts <= e.ts}
<1>1. DOMAIN list = 1..Len(list) /\ Len(list) \in Nat
  BY LenProperties
<1>2. IsFiniteSet(1..Len(list)) /\ Cardinality(1..Len(list)) = Len(list)
  BY <1>1, FS_Interval
<1>3. S \in SUBSET (1..Len(list))
  BY <1>1
<1>4. IsFiniteSet(S) /\ Cardinality(S) <= Len(list)
  BY <1>2, <1>3, FS_Subset
<1>5. Cardinality(S) \in Nat
  BY <1>4, FS_CardinalityType
<1>6. QED
  BY <1>1, <1>4, <1>5 DEF Place

\* What InsertAt returns.
LEMMA Inserted ==
  ASSUME NEW list \in Seq(EventType), NEW e \in EventType, NEW p \in 1..Len(list) + 1
  PROVE  /\ InsertAt(list, p, e) \in Seq(EventType)
         /\ Len(InsertAt(list, p, e)) = Len(list) + 1
         /\ \A i \in 1..p - 1 : InsertAt(list, p, e)[i] = list[i]
         /\ InsertAt(list, p, e)[p] = e
         /\ \A i \in p + 1..Len(list) + 1 : InsertAt(list, p, e)[i] = list[i - 1]
<1> DEFINE a == SubSeq(list, 1, p - 1)
           b == SubSeq(list, p, Len(list))
           n == Len(list)
<1>1. n \in Nat /\ p \in Nat /\ p >= 1 /\ p <= n + 1 /\ \A i \in 1..n : list[i] \in EventType
  BY LenProperties, ElementOfSeq
<1>2. /\ a \in Seq(EventType) /\ Len(a) = p - 1
      /\ \A i \in 1..p - 1 : a[i] = list[i]
  <2>1. \A i \in 1..p - 1 : list[i] \in EventType
    BY <1>1
  <2>2. a \in Seq(EventType) /\ Len(a) = (IF 1 <= p - 1 THEN p - 1 - 1 + 1 ELSE 0)
        /\ \A i \in 1..p - 1 - 1 + 1 : a[i] = list[1 + i - 1]
    BY <1>1, <2>1, SubSeqProperties
  <2>3. QED
    BY <1>1, <2>2
<1>3. /\ b \in Seq(EventType) /\ Len(b) = n - p + 1
      /\ \A i \in 1..n - p + 1 : b[i] = list[p + i - 1]
  <2>1. \A i \in p..n : list[i] \in EventType
    BY <1>1
  <2>2. b \in Seq(EventType) /\ Len(b) = (IF p <= n THEN n - p + 1 ELSE 0)
        /\ \A i \in 1..n - p + 1 : b[i] = list[p + i - 1]
    BY <1>1, <2>1, SubSeqProperties
  <2>3. QED
    BY <1>1, <2>2
<1>4. <<e>> \in Seq(EventType) /\ Len(<<e>>) = 1 /\ <<e>>[1] = e
  OBVIOUS
<1> HIDE DEF a, b, n
<1>5. /\ a \o <<e>> \in Seq(EventType) /\ Len(a \o <<e>>) = p
      /\ \A i \in 1..p : (a \o <<e>>)[i] = IF i <= p - 1 THEN list[i] ELSE e
  <2>1. /\ a \o <<e>> \in Seq(EventType) /\ Len(a \o <<e>>) = Len(a) + Len(<<e>>)
        /\ \A i \in 1..Len(a) + Len(<<e>>) :
             (a \o <<e>>)[i] = IF i <= Len(a) THEN a[i] ELSE <<e>>[i - Len(a)]
    BY <1>2, <1>4, ConcatProperties
  <2>2. QED
    BY <1>1, <1>2, <1>4, <2>1
<1> DEFINE c == a \o <<e>>
           l == InsertAt(list, p, e)
<1>6. l = c \o b
  BY DEF InsertAt, a, b, n
<1>7. c \in Seq(EventType) /\ Len(c) = p /\ \A i \in 1..p : c[i] = IF i <= p - 1 THEN list[i] ELSE e
  BY <1>5
<1> HIDE DEF c, l
<1>8. /\ l \in Seq(EventType) /\ Len(l) = n + 1
      /\ \A i \in 1..n + 1 : l[i] = IF i <= p THEN c[i] ELSE b[i - p]
  <2>1. /\ c \o b \in Seq(EventType) /\ Len(c \o b) = Len(c) + Len(b)
        /\ \A i \in 1..Len(c) + Len(b) : (c \o b)[i] = IF i <= Len(c) THEN c[i] ELSE b[i - Len(c)]
    BY <1>3, <1>7, ConcatProperties
  <2>2. Len(c) = p /\ Len(b) = n - p + 1 /\ Len(c) + Len(b) = n + 1
    BY <1>1, <1>3, <1>7
  <2>3. QED
    BY <1>6, <2>1, <2>2
<1>9. \A i \in 1..p - 1 : l[i] = list[i]
  BY <1>1, <1>8, <1>7
<1>10. l[p] = e
  BY <1>1, <1>8, <1>7
<1>11. ASSUME NEW i \in p + 1..n + 1 PROVE l[i] = list[i - 1]
  <2>1. i \in 1..n + 1 /\ ~(i <= p) /\ i - p \in 1..n - p + 1 /\ p + (i - p) - 1 = i - 1
    BY <1>1
  <2>2. l[i] = b[i - p] /\ b[i - p] = list[p + (i - p) - 1]
    BY <1>3, <1>8, <2>1
  <2>3. QED
    BY <2>1, <2>2
<1>12. QED
  BY <1>8, <1>9, <1>10, <1>11 DEF l, n

\* new is list with e before the event that was at place p.
IsInsertion(new, list, e, p) ==
  /\ new \in Seq(EventType) /\ Len(new) = Len(list) + 1
  /\ \A i \in 1..p - 1 : new[i] = list[i]
  /\ new[p] = e
  /\ \A i \in p + 1..Len(list) + 1 : new[i] = list[i - 1]

LEMMA InsertPlaces ==
  ASSUME NEW list \in Seq(EventType), NEW e \in EventType
  PROVE  /\ Place(list, e) \in 1..Len(list) + 1
         /\ IsInsertion(Insert(list, e), list, e, Place(list, e))
<1>1. PICK p : p = Place(list, e)
  OBVIOUS
<1>2. p \in 1..Len(list) + 1
  BY <1>1, PlaceType
<1>3. IsInsertion(InsertAt(list, p, e), list, e, p)
  BY <1>2, Inserted DEF IsInsertion
<1>4. Insert(list, e) = InsertAt(list, p, e)
  BY <1>1 DEF Insert, Place
<1>5. QED
  BY <1>1, <1>2, <1>3, <1>4

\* An insertion adds an event and keeps the others.
LEMMA InsertElements ==
  ASSUME NEW list \in Seq(EventType), NEW e \in EventType
  PROVE  /\ Insert(list, e) \in Seq(EventType)
         /\ \A i \in DOMAIN Insert(list, e) :
              Insert(list, e)[i] = e \/ \E j \in DOMAIN list : Insert(list, e)[i] = list[j]
         /\ \E i \in DOMAIN Insert(list, e) : Insert(list, e)[i] = e
         /\ \A j \in DOMAIN list : \E i \in DOMAIN Insert(list, e) : Insert(list, e)[i] = list[j]
<1> DEFINE new == Insert(list, e)
           n == Len(list)
           p == Place(list, e)
<1>1. p \in 1..n + 1 /\ IsInsertion(new, list, e, p)
  BY InsertPlaces
<1>2. n \in Nat /\ DOMAIN list = 1..n /\ DOMAIN new = 1..n + 1
  BY <1>1, LenProperties DEF IsInsertion
<1> HIDE DEF new, n, p
<1>3. ASSUME NEW i \in DOMAIN new PROVE new[i] = e \/ \E j \in DOMAIN list : new[i] = list[j]
  <2>1. CASE i < p
    <3>1. i \in 1..p - 1 /\ i \in DOMAIN list
      BY <1>1, <1>2, <2>1
    <3>2. QED
      BY <1>1, <3>1 DEF IsInsertion, n
  <2>2. CASE i > p
    <3>1. i \in p + 1..n + 1 /\ i - 1 \in DOMAIN list
      BY <1>1, <1>2, <2>2
    <3>2. QED
      BY <1>1, <3>1 DEF IsInsertion, n
  <2>3. CASE i = p
    BY <1>1, <2>3 DEF IsInsertion
  <2>4. QED
    BY <1>1, <1>2, <2>1, <2>2, <2>3
<1>4. p \in DOMAIN new /\ new[p] = e
  BY <1>1, <1>2 DEF IsInsertion
<1>5. ASSUME NEW j \in DOMAIN list PROVE \E i \in DOMAIN new : new[i] = list[j]
  <2>1. CASE j < p
    <3>1. j \in 1..p - 1 /\ j \in DOMAIN new
      BY <1>1, <1>2, <2>1
    <3>2. QED
      BY <1>1, <3>1 DEF IsInsertion
  <2>2. CASE j >= p
    <3>1. j + 1 \in p + 1..n + 1 /\ j + 1 \in DOMAIN new /\ (j + 1) - 1 = j
      BY <1>1, <1>2, <2>2
    <3>2. new[j + 1] = list[(j + 1) - 1]
      BY <1>1, <3>1 DEF IsInsertion, n
    <3>3. QED
      BY <3>1, <3>2
  <2>3. QED
    BY <1>1, <1>2, <2>1, <2>2
<1>6. new \in Seq(EventType)
  BY <1>1 DEF IsInsertion
<1>7. QED
  BY <1>3, <1>4, <1>5, <1>6 DEF new

\* In an ordered list the events up to a time are those before a place.
LEMMA PlaceSeparates ==
  ASSUME NEW list \in Seq(EventType), NEW e \in EventType, Ordered(list), NEW i \in DOMAIN list
  PROVE  list[i].ts <= e.ts <=> i < Place(list, e)
<1> DEFINE S == {k \in DOMAIN list : list[k].ts <= e.ts}
           c == Cardinality(S)
<1>1. DOMAIN list = 1..Len(list) /\ Len(list) \in Nat
  BY LenProperties
<1>2. \A k \in DOMAIN list : list[k].ts \in Nat
  <2>1. \A k \in DOMAIN list : list[k] \in EventType
    BY <1>1, ElementOfSeq
  <2>2. QED
    BY <2>1 DEF EventType
<1>3. e.ts \in Nat
  BY DEF EventType
<1>4. IsFiniteSet(S) /\ c \in Nat
  <2>1. IsFiniteSet(1..Len(list)) /\ S \in SUBSET (1..Len(list))
    BY <1>1, FS_Interval
  <2>2. QED
    BY <2>1, FS_Subset, FS_CardinalityType
<1>5. ASSUME NEW k \in S PROVE 1..k \subseteq S /\ k <= c
  <2>1. \A m \in 1..k : m \in DOMAIN list /\ list[m].ts <= list[k].ts
    <3>1. ASSUME NEW m \in 1..k PROVE m \in DOMAIN list /\ list[m].ts <= list[k].ts
      <4>1. m \in DOMAIN list /\ k \in DOMAIN list /\ (m < k \/ m = k)
        BY <1>1
      <4>2. QED
        BY <1>2, <4>1 DEF Ordered
    <3>2. QED
      BY <3>1
  <2>2. 1..k \subseteq S
    <3>1. ASSUME NEW m \in 1..k PROVE m \in S
      <4>1. m \in DOMAIN list /\ list[m].ts <= list[k].ts /\ list[k].ts <= e.ts
            /\ k \in DOMAIN list
        BY <2>1
      <4>2. QED
        BY <1>2, <1>3, <4>1
    <3>2. QED
      BY <3>1
  <2>3. k \in Nat /\ Cardinality(1..k) = k
    BY <1>1, FS_Interval
  <2>4. Cardinality(1..k) <= c
    BY <1>4, <2>2, FS_Subset
  <2>5. QED
    BY <2>2, <2>3, <2>4
<1>6. S = 1..c
  <2>1. S \in SUBSET (1..c)
    BY <1>1, <1>5
  <2>2. IsFiniteSet(1..c) /\ Cardinality(1..c) = c
    BY <1>4, FS_Interval
  <2>3. QED
    BY <2>1, <2>2, FS_Subset
<1>7. Place(list, e) = c + 1
  BY DEF Place
<1>8. i \in S <=> i < Place(list, e)
  <2> HIDE DEF c, S
  <2>1. QED
    BY <1>1, <1>4, <1>6, <1>7
<1>9. QED
  BY <1>8

LEMMA ListTimes ==
  ASSUME NEW list \in Seq(EventType)
  PROVE  /\ Len(list) \in Nat /\ DOMAIN list = 1..Len(list)
         /\ \A i \in DOMAIN list : list[i] \in EventType /\ list[i].ts \in Nat
<1>1. Len(list) \in Nat /\ DOMAIN list = 1..Len(list) /\ \A i \in DOMAIN list : list[i] \in EventType
  BY LenProperties, ElementOfSeq
<1>2. QED
  BY <1>1 DEF EventType

LEMMA InsertOrdered ==
  ASSUME NEW list \in Seq(EventType), NEW e \in EventType, Ordered(list)
  PROVE  Ordered(Insert(list, e))
<1> DEFINE new == Insert(list, e)
           n == Len(list)
           p == Place(list, e)
<1>1. p \in 1..n + 1 /\ IsInsertion(new, list, e, p)
  BY InsertPlaces
<1>2. n \in Nat /\ DOMAIN list = 1..n /\ DOMAIN new = 1..n + 1
  BY <1>1, LenProperties DEF IsInsertion
<1>3. \A i \in 1..n : list[i].ts \in Nat /\ (list[i].ts <= e.ts <=> i < p)
  BY <1>2, ListTimes, PlaceSeparates
<1>4. e.ts \in Nat
  BY DEF EventType
<1> HIDE DEF new, n, p
<1>5. \A i \in 1..n + 1 : new[i] = IF i < p THEN list[i] ELSE IF i = p THEN e ELSE list[i - 1]
  BY <1>1, <1>2 DEF IsInsertion, n
<1>6. ASSUME NEW i \in 1..n + 1, NEW j \in 1..n + 1, i < j PROVE new[i].ts <= new[j].ts
  <2>1. CASE j < p
    <3>1. i \in DOMAIN list /\ j \in DOMAIN list /\ new[i] = list[i] /\ new[j] = list[j]
      BY <1>1, <1>2, <1>5, <1>6, <2>1
    <3>2. QED
      BY <1>6, <3>1 DEF Ordered
  <2>2. CASE j = p
    <3>1. i \in 1..n /\ i < p /\ new[i] = list[i] /\ new[j] = e
      BY <1>1, <1>2, <1>5, <1>6, <2>2
    <3>2. QED
      BY <1>3, <3>1
  <2>3. CASE j > p /\ i < p
    <3>1. i \in 1..n /\ j - 1 \in 1..n /\ i < p /\ ~(j - 1 < p) /\ new[i] = list[i] /\ new[j] = list[j - 1]
      BY <1>1, <1>2, <1>5, <2>3
    <3>2. list[i].ts <= e.ts /\ ~(list[j - 1].ts <= e.ts) /\ list[i].ts \in Nat /\ list[j - 1].ts \in Nat
      BY <1>3, <3>1
    <3>3. QED
      BY <1>4, <3>1, <3>2
  <2>4. CASE j > p /\ i = p
    <3>1. j - 1 \in 1..n /\ ~(j - 1 < p) /\ new[i] = e /\ new[j] = list[j - 1]
      BY <1>1, <1>2, <1>5, <2>4
    <3>2. ~(list[j - 1].ts <= e.ts) /\ list[j - 1].ts \in Nat
      BY <1>3, <3>1
    <3>3. QED
      BY <1>4, <3>1, <3>2
  <2>5. CASE j > p /\ i > p
    <3>1. i - 1 \in DOMAIN list /\ j - 1 \in DOMAIN list /\ i - 1 < j - 1
          /\ new[i] = list[i - 1] /\ new[j] = list[j - 1]
      BY <1>1, <1>2, <1>5, <1>6, <2>5
    <3>2. QED
      BY <3>1 DEF Ordered
  <2>6. QED
    BY <1>1, <1>2, <1>6, <2>1, <2>2, <2>3, <2>4, <2>5
<1>7. QED
  BY <1>2, <1>6 DEF Ordered, new

NoNullIn(list, s) == \A i \in DOMAIN list : ~IsNull(list[i], s)

\* An insertion of another event keeps the one null event for s; one of a null event for s
\* makes the only one of a list that has none.
LEMMA InsertNulls ==
  ASSUME NEW list \in Seq(EventType), NEW e \in EventType, NEW s
  PROVE  /\ OneNullIn(list, s) /\ ~IsNull(e, s) => OneNullIn(Insert(list, e), s)
         /\ NoNullIn(list, s) /\ IsNull(e, s) => OneNullIn(Insert(list, e), s)
         /\ NoNullIn(list, s) /\ ~IsNull(e, s) => NoNullIn(Insert(list, e), s)
<1> DEFINE new == Insert(list, e)
           n == Len(list)
           p == Place(list, e)
<1>1. p \in 1..n + 1 /\ IsInsertion(new, list, e, p)
  BY InsertPlaces
<1>2. n \in Nat /\ DOMAIN list = 1..n /\ DOMAIN new = 1..n + 1
  BY <1>1, LenProperties DEF IsInsertion
<1> HIDE DEF new, n, p
<1>3. \A i \in 1..n + 1 : new[i] = IF i < p THEN list[i] ELSE IF i = p THEN e ELSE list[i - 1]
  BY <1>1, <1>2 DEF IsInsertion, n
<1>4. \A i \in 1..n + 1 : i # p => \E j \in 1..n : new[i] = list[j]
  BY <1>1, <1>2, <1>3
<1>5. ASSUME OneNullIn(list, s), ~IsNull(e, s) PROVE OneNullIn(new, s)
  <2>1. PICK i \in DOMAIN list : \A j \in DOMAIN list : IsNull(list[j], s) <=> j = i
    BY <1>5 DEF OneNullIn
  <2>2. PICK k \in DOMAIN new : k = IF i < p THEN i ELSE i + 1
    BY <1>1, <1>2
  <2>3. ASSUME NEW j \in DOMAIN new PROVE IsNull(new[j], s) <=> j = k
    <3>1. CASE j < p
      <4>1. j \in DOMAIN list /\ new[j] = list[j] /\ (j = k <=> j = i)
        BY <1>1, <1>2, <1>3, <2>2, <3>1
      <4>2. QED
        BY <2>1, <4>1
    <3>2. CASE j = p
      <4>1. new[j] = e /\ j # k
        BY <1>1, <1>2, <1>3, <2>2, <3>2
      <4>2. QED
        BY <1>5, <4>1
    <3>3. CASE j > p
      <4>1. j - 1 \in DOMAIN list /\ new[j] = list[j - 1] /\ (j = k <=> j - 1 = i)
        BY <1>1, <1>2, <1>3, <2>2, <3>3
      <4>2. QED
        BY <2>1, <4>1
    <3>4. QED
      BY <1>1, <1>2, <3>1, <3>2, <3>3
  <2>4. QED
    BY <2>3 DEF OneNullIn
<1>6. ASSUME NoNullIn(list, s), IsNull(e, s) PROVE OneNullIn(new, s)
  <2>1. p \in DOMAIN new /\ new[p] = e
    BY <1>1, <1>2 DEF IsInsertion
  <2>2. \A j \in DOMAIN new : IsNull(new[j], s) <=> j = p
    BY <1>2, <1>4, <1>6, <2>1 DEF NoNullIn
  <2>3. QED
    BY <2>1, <2>2 DEF OneNullIn
<1>7. ASSUME NoNullIn(list, s), ~IsNull(e, s) PROVE NoNullIn(new, s)
  <2>1. new[p] = e
    BY <1>1 DEF IsInsertion
  <2>2. QED
    BY <1>2, <1>4, <1>7, <2>1 DEF NoNullIn
<1>8. QED
  BY <1>5, <1>6, <1>7 DEF new

\* What is left when the event at the head is taken.
LEMMA Tails ==
  ASSUME NEW list \in Seq(EventType), list # <<>>
  PROVE  /\ Tail(list) \in Seq(EventType) /\ Head(list) \in EventType
         /\ 1 \in DOMAIN list /\ Head(list) = list[1]
         /\ DOMAIN Tail(list) = 1..Len(list) - 1
         /\ \A i \in DOMAIN Tail(list) : i + 1 \in DOMAIN list /\ Tail(list)[i] = list[i + 1]
<1>1. /\ Head(list) \in EventType /\ Tail(list) \in Seq(EventType) /\ Len(Tail(list)) = Len(list) - 1
      /\ \A i \in 1..Len(Tail(list)) : Tail(list)[i] = list[i + 1]
  BY HeadTailProperties
<1>2. Len(list) \in Nat \ {0} /\ DOMAIN list = 1..Len(list)
  BY EmptySeq, LenProperties
<1>3. DOMAIN Tail(list) = 1..Len(list) - 1
  BY <1>1, LenProperties
<1>4. 1 \in DOMAIN list /\ Head(list) = list[1]
  BY <1>2
<1>5. QED
  BY <1>1, <1>2, <1>3, <1>4

LEMMA TailElements ==
  ASSUME NEW list \in Seq(EventType), list # <<>>
  PROVE  /\ \A i \in DOMAIN Tail(list) : \E j \in DOMAIN list : Tail(list)[i] = list[j]
         /\ \A j \in DOMAIN list : list[j] = Head(list) \/ \E i \in DOMAIN Tail(list) : list[j] = Tail(list)[i]
<1>1. \A i \in DOMAIN Tail(list) : i + 1 \in DOMAIN list /\ Tail(list)[i] = list[i + 1]
  BY Tails
<1>2. ASSUME NEW j \in DOMAIN list, j # 1 PROVE \E i \in DOMAIN Tail(list) : list[j] = Tail(list)[i]
  <2>1. j - 1 \in DOMAIN Tail(list) /\ (j - 1) + 1 = j
    BY <1>2, Tails, LenProperties
  <2>2. QED
    BY <1>1, <2>1
<1>3. QED
  BY <1>1, <1>2, Tails

LEMMA TailOrdered ==
  ASSUME NEW list \in Seq(EventType), list # <<>>, Ordered(list)
  PROVE  Ordered(Tail(list)) /\ \A i \in DOMAIN list : Head(list).ts <= list[i].ts
<1>1. ASSUME NEW i \in DOMAIN Tail(list), NEW j \in DOMAIN Tail(list), i < j
      PROVE Tail(list)[i].ts <= Tail(list)[j].ts
  <2>1. i + 1 \in DOMAIN list /\ j + 1 \in DOMAIN list /\ i + 1 < j + 1
        /\ Tail(list)[i] = list[i + 1] /\ Tail(list)[j] = list[j + 1]
    BY <1>1, Tails, ListTimes
  <2>2. QED
    BY <2>1 DEF Ordered
<1>2. ASSUME NEW i \in DOMAIN list PROVE Head(list).ts <= list[i].ts
  <2>1. 1 \in DOMAIN list /\ Head(list) = list[1] /\ (i = 1 \/ 1 < i) /\ list[i].ts \in Nat
    BY Tails, ListTimes
  <2>2. QED
    BY <2>1 DEF Ordered
<1>3. QED
  BY <1>1, <1>2 DEF Ordered

LEMMA TailNulls ==
  ASSUME NEW list \in Seq(EventType), list # <<>>, NEW s, OneNullIn(list, s)
  PROVE  IF IsNull(Head(list), s) THEN NoNullIn(Tail(list), s) ELSE OneNullIn(Tail(list), s)
<1>1. PICK i \in DOMAIN list : \A j \in DOMAIN list : IsNull(list[j], s) <=> j = i
  BY DEF OneNullIn
<1>2. \A k \in DOMAIN Tail(list) : k + 1 \in DOMAIN list /\ Tail(list)[k] = list[k + 1] /\ k \in Nat
                                   /\ k >= 1
  BY Tails
<1>3. 1 \in DOMAIN list /\ Head(list) = list[1]
  BY Tails
<1>4. CASE i = 1
  BY <1>1, <1>2, <1>3, <1>4 DEF NoNullIn
<1>5. CASE i # 1
  <2>1. i - 1 \in DOMAIN Tail(list) /\ i \in Nat
    BY <1>5, Tails, ListTimes
  <2>2. \A k \in DOMAIN Tail(list) : IsNull(Tail(list)[k], s) <=> k = i - 1
    BY <1>1, <1>2, <2>1
  <2>3. ~IsNull(Head(list), s)
    BY <1>1, <1>3, <1>5
  <2>4. QED
    BY <2>1, <2>2, <2>3 DEF OneNullIn
<1>6. QED
  BY <1>4, <1>5

LEMMA Cancels ==
  ASSUME NEW list \in Seq(EventType), NEW s
  PROVE  LET new == CancelNullEvent(list, s) IN
         /\ new \in Seq(EventType) /\ DOMAIN new = DOMAIN list
         /\ \A i \in DOMAIN list :
              IF IsNull(list[i], s) THEN new[i].ts = list[i].ts /\ new[i].kind = "cancelled"
              ELSE new[i] = list[i]
<1> DEFINE new == CancelNullEvent(list, s)
           e(i) == IF list[i].kind = "null" /\ list[i].of = s
                   THEN [list[i] EXCEPT !.kind = "cancelled"] ELSE list[i]
<1>1. Len(list) \in Nat /\ DOMAIN list = 1..Len(list) /\ \A i \in 1..Len(list) : list[i] \in EventType
  BY ListTimes
<1>2. new = [i \in 1..Len(list) |-> e(i)]
  BY <1>1 DEF CancelNullEvent
<1>3. \A i \in 1..Len(list) : e(i) \in EventType
  BY <1>1 DEF EventType, Kinds
<1>4. new \in Seq(EventType)
  BY <1>1, <1>2, <1>3
<1>5. \A i \in DOMAIN list :
        IF IsNull(list[i], s) THEN new[i].ts = list[i].ts /\ new[i].kind = "cancelled"
        ELSE new[i] = list[i]
  BY <1>1, <1>2 DEF IsNull, EventType
<1>6. QED
  BY <1>1, <1>2, <1>4, <1>5

LEMMA CancelOrdered ==
  ASSUME NEW list \in Seq(EventType), NEW s, Ordered(list)
  PROVE  Ordered(CancelNullEvent(list, s))
<1>1. \A i \in DOMAIN list : CancelNullEvent(list, s)[i].ts = list[i].ts
  BY Cancels
<1>2. QED
  BY <1>1, Cancels DEF Ordered

\* Cancelling the null event for s leaves none for s and those for others.
LEMMA CancelNulls ==
  ASSUME NEW list \in Seq(EventType), NEW s, NEW t
  PROVE  /\ NoNullIn(CancelNullEvent(list, s), s)
         /\ t # s /\ OneNullIn(list, t) => OneNullIn(CancelNullEvent(list, s), t)
<1> DEFINE new == CancelNullEvent(list, s)
<1>1. DOMAIN new = DOMAIN list /\ \A i \in DOMAIN list :
        IF IsNull(list[i], s) THEN new[i].kind = "cancelled" ELSE new[i] = list[i]
  BY Cancels
<1> HIDE DEF new
<1>2. NoNullIn(new, s)
  BY <1>1 DEF NoNullIn, IsNull
<1>3. ASSUME t # s PROVE \A i \in DOMAIN list : IsNull(new[i], t) <=> IsNull(list[i], t)
  BY <1>1, <1>3 DEF IsNull
<1>4. t # s /\ OneNullIn(list, t) => OneNullIn(new, t)
  BY <1>1, <1>3 DEF OneNullIn
<1>5. QED
  BY <1>2, <1>4 DEF new

--------------------------------------------------------------------------------
(* The initial lists *)

LEMMA NeighboursAreRanks ==
  ASSUME NEW r \in Ranks, NEW s \in Neighbours(r) PROVE s \in Ranks /\ r \in Neighbours(s)
  BY DevicesAssumption DEF Neighbours, DevicesOf

LEMMA ScheduledFinite ==
  ASSUME NEW r \in Ranks
  PROVE  /\ IsFiniteSet(Scheduled(r)) /\ Cardinality(Scheduled(r)) \in Nat
         /\ Scheduled(r) \subseteq EventType
<1> DEFINE A == {Event(t, "app", r) : t \in Starts[r]}
           B == {Event(StopTime[r], "stop", r)}
           C == {NullEvent(NullDelay(r, s), s) : s \in Neighbours(r)}
<1>1. IsFiniteSet(A)
  <2> DEFINE f == [t \in Starts[r] |-> Event(t, "app", r)]
  <2>1. f \in Surjection(Starts[r], A)
    BY DEF Surjection
  <2>2. QED
    BY <2>1, TimesAssumption, FS_Surjection
<1>2. IsFiniteSet(C)
  <2> DEFINE f == [s \in Neighbours(r) |-> NullEvent(NullDelay(r, s), s)]
  <2>1. f \in Surjection(Neighbours(r), C)
    BY DEF Surjection
  <2>2. QED
    BY <2>1, TimesAssumption, FS_Surjection
<1>3. IsFiniteSet(B)
  BY FS_Singleton
<1>4. Scheduled(r) = (A \cup B) \cup C
  BY DEF Scheduled
<1>5. A \cup B \cup C \subseteq EventType
  <2>1. A \subseteq EventType
    BY TimesAssumption DEF Event, EventType, Kinds
  <2>2. B \subseteq EventType
    BY TimesAssumption DEF Event, EventType, Kinds
  <2>3. C \subseteq EventType
    BY Delayed, NeighboursAreRanks DEF NullEvent, Event, EventType, Kinds
  <2>4. QED
    BY <2>1, <2>2, <2>3
<1> HIDE DEF A, B, C
<1>6. IsFiniteSet(Scheduled(r))
  BY <1>1, <1>2, <1>3, <1>4, FS_Union
<1>7. QED
  BY <1>4, <1>5, <1>6, FS_CardinalityType

LEMMA AgendaIsList ==
  ASSUME NEW r \in Ranks, NEW list \in Agendas(r)
  PROVE  HasEvents(list, r, FALSE) /\ IsAhead(list, r, 0)
<1> DEFINE S == Scheduled(r)
           n == Cardinality(S)
<1>1. IsFiniteSet(S) /\ n \in Nat /\ S \subseteq EventType
  BY ScheduledFinite
<1>2. list \in [1..n -> S] /\ \A i, j \in 1..n : i < j => list[i] # list[j] /\ Precedes(list[i], list[j])
  BY DEF Agendas
<1>3. list \in Seq(EventType) /\ DOMAIN list = 1..n
  BY <1>1, <1>2
<1>4. \A i, j \in 1..n : list[i] = list[j] => i = j
  <2>1. ASSUME NEW i \in 1..n, NEW j \in 1..n, list[i] = list[j], i # j PROVE FALSE
    <3>1. i < j \/ j < i
      BY <1>1, <2>1
    <3>2. QED
      BY <1>2, <2>1, <3>1
  <2>2. QED
    BY <2>1
<1>5. \A e \in S : \E i \in 1..n : list[i] = e
  <2>1. list \in Injection(1..n, S)
    BY <1>2, <1>4 DEF Injection, IsInjective
  <2>2. Cardinality(1..n) = n
    BY <1>1, FS_Interval
  <2>3. list \in Surjection(1..n, S)
    BY <1>1, <2>1, <2>2, FS_Injection
  <2>4. QED
    BY <2>3 DEF Surjection
<1>6. HasStop(list)
  <2>1. Event(StopTime[r], "stop", r) \in S /\ Event(StopTime[r], "stop", r).kind = "stop"
    BY DEF Scheduled, Event
  <2>2. QED
    BY <1>3, <1>5, <2>1 DEF HasStop
<1>7. \A e \in S : e.kind = "null" => e.of \in Neighbours(r) /\ e = NullEvent(NullDelay(r, e.of), e.of)
  BY DEF Scheduled, Event, NullEvent
<1>8. ASSUME NEW s \in Neighbours(r) PROVE OneNullIn(list, s)
  <2>1. NullEvent(NullDelay(r, s), s) \in S
    BY DEF Scheduled
  <2>2. PICK i \in 1..n : list[i] = NullEvent(NullDelay(r, s), s)
    BY <1>5, <2>1
  <2>3. \A j \in 1..n : IsNull(list[j], s) => list[j] = NullEvent(NullDelay(r, s), s)
    BY <1>2, <1>7 DEF IsNull
  <2>4. IsNull(list[i], s)
    BY <2>2 DEF IsNull, NullEvent, Event
  <2>5. \A j \in 1..n : IsNull(list[j], s) <=> j = i
    BY <1>4, <2>2, <2>3, <2>4
  <2>6. QED
    BY <1>3, <2>5 DEF OneNullIn
<1>9. HasEvents(list, r, FALSE)
  BY <1>2, <1>3, <1>6, <1>7, <1>8 DEF HasEvents
<1>10. \A i \in 1..n : list[i].ts \in Nat
  BY <1>1, <1>2 DEF EventType
<1>11. Ordered(list)
  BY <1>2, <1>3, <1>10 DEF Ordered, Precedes
<1>12. ASSUME NEW i \in DOMAIN list, NEW s \in Neighbours(r), IsNull(list[i], s)
       PROVE list[i].ts <= 0 + NullDelay(r, s)
  <2>1. list[i] = NullEvent(NullDelay(r, s), s)
    BY <1>2, <1>3, <1>7, <1>12 DEF IsNull
  <2>2. list[i].ts = NullDelay(r, s) /\ NullDelay(r, s) \in Nat
    BY <2>1, Delayed DEF NullEvent, Event
  <2>3. QED
    BY <2>2
<1>13. \A i \in DOMAIN list : 0 <= list[i].ts
  BY <1>3, <1>10
<1>14. IsAhead(list, r, 0)
  BY <1>11, <1>12, <1>13 DEF IsAhead
<1>15. QED
  BY <1>9, <1>14

--------------------------------------------------------------------------------
(* What the operations on a list preserve *)

LEMMA InsertHasEvents ==
  ASSUME NEW r, NEW stopped \in BOOLEAN, NEW list, HasEvents(list, r, stopped),
         NEW e \in EventType, e.kind # "null"
  PROVE  HasEvents(Insert(list, e), r, stopped)
<1> DEFINE new == Insert(list, e)
<1>1. list \in Seq(EventType)
  BY DEF HasEvents
<1>2. /\ new \in Seq(EventType)
      /\ \A i \in DOMAIN new : new[i] = e \/ \E j \in DOMAIN list : new[i] = list[j]
      /\ \A j \in DOMAIN list : \E i \in DOMAIN new : new[i] = list[j]
  BY <1>1, InsertElements
<1>3. \A s \in Neighbours(r) : OneNullIn(new, s)
  BY <1>1, InsertNulls DEF HasEvents, IsNull
<1> HIDE DEF new
<1>4. ~stopped => HasStop(new)
  BY <1>2 DEF HasEvents, HasStop
<1>5. \A i \in DOMAIN new : new[i].kind = "null" => new[i].of \in Neighbours(r)
  BY <1>2 DEF HasEvents
<1>6. QED
  BY <1>2, <1>3, <1>4, <1>5 DEF HasEvents, new

\* An event that is no null event is taken.
LEMMA TailHasEvents ==
  ASSUME NEW r, NEW stopped \in BOOLEAN, NEW list, HasEvents(list, r, stopped), list # <<>>,
         Head(list).kind # "null"
  PROVE  HasEvents(Tail(list), r, stopped \/ Head(list).kind = "stop")
<1>1. list \in Seq(EventType)
  BY DEF HasEvents
<1>2. Tail(list) \in Seq(EventType)
  BY <1>1, Tails
<1>3. ASSUME ~(stopped \/ Head(list).kind = "stop") PROVE HasStop(Tail(list))
  <2>1. PICK j \in DOMAIN list : list[j].kind = "stop"
    BY <1>3 DEF HasEvents, HasStop
  <2>2. PICK i \in DOMAIN Tail(list) : list[j] = Tail(list)[i]
    BY <1>1, <1>3, <2>1, TailElements
  <2>3. QED
    BY <2>1, <2>2 DEF HasStop
<1>4. \A i \in DOMAIN Tail(list) : Tail(list)[i].kind = "null" => Tail(list)[i].of \in Neighbours(r)
  BY <1>1, TailElements DEF HasEvents
<1>5. ASSUME NEW s \in Neighbours(r) PROVE OneNullIn(Tail(list), s)
  <2>1. OneNullIn(list, s) /\ ~IsNull(Head(list), s)
    BY DEF HasEvents, IsNull
  <2>2. QED
    BY <1>1, <2>1, TailNulls
<1>6. QED
  BY <1>2, <1>3, <1>4, <1>5 DEF HasEvents

\* A null event is taken and scheduled again.
LEMMA NullHasEvents ==
  ASSUME NEW r, NEW list, HasEvents(list, r, FALSE), list # <<>>, Head(list).kind = "null",
         NEW e \in EventType, IsNull(e, Head(list).of)
  PROVE  /\ Head(list).of \in Neighbours(r)
         /\ Tail(list) \in Seq(EventType) /\ Tail(list) # <<>> /\ NoNullIn(Tail(list), Head(list).of)
         /\ HasEvents(Insert(Tail(list), e), r, FALSE)
<1> DEFINE left == Tail(list)
           new == Insert(left, e)
           h == Head(list)
<1>1. list \in Seq(EventType)
  BY DEF HasEvents
<1>2. left \in Seq(EventType) /\ 1 \in DOMAIN list /\ h = list[1]
  BY <1>1, Tails
<1>3. PICK k \in DOMAIN left : left[k].kind = "stop"
  <2>1. PICK j \in DOMAIN list : list[j].kind = "stop"
    BY DEF HasEvents, HasStop
  <2>2. PICK i \in DOMAIN left : list[j] = left[i]
    BY <1>1, <2>1, TailElements
  <2>3. QED
    BY <2>1, <2>2
<1>4. left # <<>>
  BY <1>2, <1>3, LenProperties, EmptySeq
<1>5. h.of \in Neighbours(r)
  BY <1>2 DEF HasEvents
<1>6. /\ \A i \in DOMAIN left : \E j \in DOMAIN list : left[i] = list[j]
  BY <1>1, TailElements
<1>7. NoNullIn(left, h.of)
  BY <1>1, <1>5, TailNulls DEF HasEvents, IsNull
<1>8. ASSUME NEW s \in Neighbours(r), s # h.of PROVE OneNullIn(left, s)
  BY <1>1, <1>8, TailNulls DEF HasEvents, IsNull
<1> HIDE DEF left, h
<1>9. /\ new \in Seq(EventType)
      /\ \A i \in DOMAIN new : new[i] = e \/ \E j \in DOMAIN left : new[i] = left[j]
      /\ \A j \in DOMAIN left : \E i \in DOMAIN new : new[i] = left[j]
  BY <1>2, InsertElements
<1>10. ASSUME NEW s \in Neighbours(r) PROVE OneNullIn(new, s)
  <2>1. CASE s = h.of
    BY <1>2, <1>7, <2>1, InsertNulls DEF h
  <2>2. CASE s # h.of
    <3>1. ~IsNull(e, s)
      BY <2>2 DEF IsNull, h
    <3>2. QED
      BY <1>2, <1>8, <2>2, <3>1, InsertNulls
  <2>3. QED
    BY <2>1, <2>2
<1> HIDE DEF new
<1>11. HasStop(new)
  BY <1>3, <1>9 DEF HasStop
<1>12. \A i \in DOMAIN new : new[i].kind = "null" => new[i].of \in Neighbours(r)
  <2>1. e.of \in Neighbours(r)
    BY <1>5 DEF IsNull, h
  <2>2. QED
    BY <1>6, <1>9, <2>1 DEF HasEvents
<1>13. HasEvents(new, r, FALSE)
  BY <1>9, <1>10, <1>11, <1>12 DEF HasEvents
<1>14. QED
  BY <1>2, <1>4, <1>5, <1>7, <1>13 DEF left, new, h

\* A null event is cancelled and scheduled again.
LEMMA CancelHasEvents ==
  ASSUME NEW r, NEW stopped \in BOOLEAN, NEW list, HasEvents(list, r, stopped),
         NEW s \in Neighbours(r), NEW e \in EventType, IsNull(e, s)
  PROVE  HasEvents(Insert(CancelNullEvent(list, s), e), r, stopped)
<1> DEFINE left == CancelNullEvent(list, s)
           new == Insert(left, e)
<1>1. list \in Seq(EventType)
  BY DEF HasEvents
<1>2. /\ left \in Seq(EventType) /\ DOMAIN left = DOMAIN list
      /\ \A i \in DOMAIN list : IF IsNull(list[i], s) THEN left[i].kind = "cancelled"
                                ELSE left[i] = list[i]
  BY <1>1, Cancels
<1>3. NoNullIn(left, s) /\ \A t \in Neighbours(r) : t # s => OneNullIn(left, t)
  BY <1>1, CancelNulls DEF HasEvents
<1> HIDE DEF left
<1>4. /\ new \in Seq(EventType)
      /\ \A i \in DOMAIN new : new[i] = e \/ \E j \in DOMAIN left : new[i] = left[j]
      /\ \A j \in DOMAIN left : \E i \in DOMAIN new : new[i] = left[j]
  BY <1>2, InsertElements
<1>5. ASSUME NEW t \in Neighbours(r) PROVE OneNullIn(new, t)
  <2>1. CASE t = s
    BY <1>2, <1>3, <2>1, InsertNulls
  <2>2. CASE t # s
    <3>1. ~IsNull(e, t)
      BY <2>2 DEF IsNull
    <3>2. QED
      BY <1>2, <1>3, <2>2, <3>1, InsertNulls
  <2>3. QED
    BY <2>1, <2>2
<1> HIDE DEF new
<1>6. ASSUME ~stopped PROVE HasStop(new)
  <2>1. PICK j \in DOMAIN list : list[j].kind = "stop"
    BY <1>6 DEF HasEvents, HasStop
  <2>2. left[j].kind = "stop" /\ j \in DOMAIN left
    BY <1>2, <2>1 DEF IsNull
  <2>3. QED
    BY <1>4, <2>2 DEF HasStop
<1>7. \A j \in DOMAIN left : left[j].kind = "null" => left[j].of \in Neighbours(r)
  BY <1>2 DEF HasEvents
<1>8. \A i \in DOMAIN new : new[i].kind = "null" => new[i].of \in Neighbours(r)
  BY <1>4, <1>7 DEF IsNull
<1>9. HasEvents(new, r, stopped)
  BY <1>4, <1>5, <1>6, <1>8 DEF HasEvents
<1>10. QED
  BY <1>9 DEF new, left

--------------------------------------------------------------------------------
(* Types, and one null event for each neighbour *)

LEMMA GuaranteeIsLeast ==
  ASSUME NEW list \in Seq(EventType), list # <<>>, NEW safe \in Nat, NEW delay \in Nat
  PROVE  /\ Guarantee(list, safe, delay) \in Nat
         /\ Guarantee(list, safe, delay) <= Head(list).ts + delay
         /\ Guarantee(list, safe, delay) <= safe + delay
         /\ Guarantee(list, safe, delay) \in {Head(list).ts + delay, safe + delay}
<1>1. Head(list).ts \in Nat
  BY Tails DEF EventType
<1>2. PICK m \in Nat : m = Min({Head(list).ts, safe}) /\ m \in {Head(list).ts, safe}
                       /\ m <= Head(list).ts /\ m <= safe
  BY <1>1, LeastOfTwo
<1>3. Guarantee(list, safe, delay) = m + delay
  BY <1>2 DEF Guarantee, NextTs
<1>4. QED
  BY <1>1, <1>2, <1>3

LEMMA SafeTimeIsLeast ==
  ASSUME NEW r \in Ranks, NEW g \in [Neighbours(r) -> Nat]
  PROVE  /\ SafeTime(g) \in Nat
         /\ \E s \in Neighbours(r) : SafeTime(g) = g[s]
         /\ \A s \in Neighbours(r) : SafeTime(g) <= g[s]
<1>1. Neighbours(r) # {}
  BY DevicesAssumption
<1>2. /\ Range(g) \in SUBSET Nat /\ Range(g) # {}
      /\ \A s \in Neighbours(r) : g[s] \in Range(g)
      /\ \A x \in Range(g) : \E s \in Neighbours(r) : x = g[s]
  BY <1>1 DEF Range
<1>3. Min(Range(g)) \in Range(g) /\ \A y \in Range(g) : Min(Range(g)) <= y
  BY <1>2, LeastNatural
<1>4. SafeTime(g) = Min(Range(g))
  BY DEF SafeTime
<1>5. SafeTime(g) \in Range(g) /\ \A y \in Range(g) : SafeTime(g) <= y
  BY <1>3, <1>4
<1>6. SafeTime(g) \in Nat
  BY <1>2, <1>5
<1>7. \E s \in Neighbours(r) : SafeTime(g) = g[s]
  BY <1>2, <1>5
<1>8. \A s \in Neighbours(r) : SafeTime(g) <= g[s]
  BY <1>2, <1>5
<1>9. QED
  BY <1>6, <1>7, <1>8

\* A list is replaced by one that is as it should be.
LEMMA ListsChange ==
  ASSUME Types, Lists, NEW r \in Ranks, NEW L, events' = [events EXCEPT ![r] = L],
         HasEvents(L, r, stop'[r]), \A q \in Ranks \ {r} : stop'[q] = stop[q]
  PROVE  Lists' /\ events' \in [Ranks -> Seq(EventType)]
<1>1. L \in Seq(EventType)
  BY DEF HasEvents
<1>2. events \in [Ranks -> Seq(EventType)]
  BY DEF Types
<1>3. events' \in [Ranks -> Seq(EventType)] /\ events'[r] = L
      /\ \A q \in Ranks \ {r} : events'[q] = events[q]
  BY <1>1, <1>2
<1>4. ASSUME NEW q \in Ranks PROVE HasEvents(events'[q], q, stop'[q])
  <2>1. CASE q = r
    BY <1>3, <2>1
  <2>2. CASE q # r
    <3>1. events'[q] = events[q] /\ stop'[q] = stop[q] /\ HasEvents(events[q], q, stop[q])
      BY <1>3, <2>2 DEF Lists
    <3>2. QED
      BY <3>1
  <2>3. QED
    BY <2>1, <2>2
<1>5. QED
  BY <1>3, <1>4 DEF Lists

\* A channel is replaced, from s to r.
LEMMA ChannelChange ==
  ASSUME Types, NEW s \in Ranks, NEW r \in Neighbours(s), NEW c \in Seq(MessageType),
         channel' = [channel EXCEPT ![s][r] = c]
  PROVE  /\ DOMAIN channel' = Ranks
         /\ \A a \in Ranks : channel'[a] \in [Neighbours(a) -> Seq(MessageType)]
         /\ channel'[s][r] = c
         /\ \A a \in Ranks : \A b \in Neighbours(a) :
              <<a, b>> # <<s, r>> => channel'[a][b] = channel[a][b]
<1>1. DOMAIN channel = Ranks /\ \A a \in Ranks : channel[a] \in [Neighbours(a) -> Seq(MessageType)]
  BY DEF Types
<1>2. channel' = [channel EXCEPT ![s] = [channel[s] EXCEPT ![r] = c]]
  BY <1>1
<1>3. [channel[s] EXCEPT ![r] = c] \in [Neighbours(s) -> Seq(MessageType)]
  BY <1>1
<1>4. /\ DOMAIN channel' = Ranks /\ channel'[s] = [channel[s] EXCEPT ![r] = c]
      /\ \A a \in Ranks \ {s} : channel'[a] = channel[a]
  BY <1>1, <1>2
<1>5. QED
  BY <1>1, <1>3, <1>4

LEMMA GuaranteeChange ==
  ASSUME Types, NEW r \in Ranks, NEW s \in Neighbours(r), NEW g \in Nat,
         guaranteeTime' = [guaranteeTime EXCEPT ![r][s] = g]
  PROVE  /\ DOMAIN guaranteeTime' = Ranks
         /\ \A a \in Ranks : guaranteeTime'[a] \in [Neighbours(a) -> Nat]
         /\ guaranteeTime'[r][s] = g
         /\ \A a \in Ranks : \A b \in Neighbours(a) :
              <<a, b>> # <<r, s>> => guaranteeTime'[a][b] = guaranteeTime[a][b]
<1>1. DOMAIN guaranteeTime = Ranks /\ \A a \in Ranks : guaranteeTime[a] \in [Neighbours(a) -> Nat]
  BY DEF Types
<1>2. guaranteeTime' = [guaranteeTime EXCEPT ![r] = [guaranteeTime[r] EXCEPT ![s] = g]]
  BY <1>1
<1>3. [guaranteeTime[r] EXCEPT ![s] = g] \in [Neighbours(r) -> Nat]
  BY <1>1
<1>4. /\ DOMAIN guaranteeTime' = Ranks /\ guaranteeTime'[r] = [guaranteeTime[r] EXCEPT ![s] = g]
      /\ \A a \in Ranks \ {r} : guaranteeTime'[a] = guaranteeTime[a]
  BY <1>1, <1>2
<1>5. QED
  BY <1>1, <1>3, <1>4

\* What holds when the event at the head of a list is taken.
LEMMA HeadTaken ==
  ASSUME Types, Lists, NEW r \in Ranks, NEW K, Runs(r, K)
  PROVE  /\ events[r] \in Seq(EventType) /\ events[r] # <<>> /\ stop[r] = FALSE
         /\ Head(events[r]) \in EventType /\ Head(events[r]).kind \in K
         /\ HasEvents(events[r], r, FALSE)
         /\ Head(events[r]).ts \in Nat /\ Head(events[r]).ts <= safeTime[r]
         /\ currentTs' \in [Ranks -> Nat] /\ currentTs'[r] = Head(events[r]).ts
         /\ \A q \in Ranks \ {r} : currentTs'[q] = currentTs[q]
<1>1. events[r] \in Seq(EventType) /\ events[r] # <<>> /\ stop[r] = FALSE
      /\ Head(events[r]).kind \in K /\ Head(events[r]).ts <= safeTime[r]
  BY DEF Types, Runs, IsFinished, NextTs
<1>2. HasEvents(events[r], r, FALSE)
  BY <1>1 DEF Lists
<1>3. Head(events[r]) \in EventType
  BY <1>1, Tails
<1>4. Head(events[r]).ts \in Nat
  BY <1>3 DEF EventType
<1>5. currentTs' = [currentTs EXCEPT ![r] = Head(events[r]).ts] /\ currentTs \in [Ranks -> Nat]
  BY DEF Types, Runs, NextTs
<1>6. QED
  BY <1>1, <1>2, <1>3, <1>4, <1>5

LEMMA EventTyped ==
  ASSUME NEW t \in Nat, NEW k \in Kinds, NEW x \in Ranks \cup Devices
  PROVE  /\ Event(t, k, x) \in EventType /\ Event(t, k, x).kind = k /\ Event(t, k, x).ts = t
         /\ Event(t, k, x).of = x
  BY DEF Event, EventType

LEMMA NullTyped ==
  ASSUME NEW t \in Nat, NEW r \in Ranks, NEW s \in Neighbours(r)
  PROVE  /\ NullEvent(t, s) \in EventType /\ IsNull(NullEvent(t, s), s) /\ NullEvent(t, s).ts = t
<1>1. s \in Ranks \cup Devices /\ "null" \in Kinds
  BY NeighboursAreRanks DEF Kinds
<1>2. QED
  BY <1>1, EventTyped DEF NullEvent, IsNull

LEMMA MessageTyped ==
  ASSUME NEW t \in Nat, NEW g \in Nat
  PROVE  Message(t, g) \in MessageType /\ Message(t, g).rxTime = t /\ Message(t, g).guarantee = g
  BY DEF Message, MessageType

TypeInv == Types /\ Lists

LEMMA TypesInit == Init => TypeInv
<1> SUFFICES ASSUME Init PROVE TypeInv
  OBVIOUS
<1>1. \A r \in Ranks : HasEvents(events[r], r, FALSE)
  BY AgendaIsList DEF Init
<1>2. events \in [Ranks -> Seq(EventType)]
  BY <1>1 DEF Init, HasEvents
<1>3. stop = [r \in Ranks |-> FALSE]
  BY DEF Init
<1>4. Lists
  BY <1>1, <1>3 DEF Lists
<1>5. ASSUME NEW r \in Ranks
      PROVE  /\ guaranteeTime[r] \in [Neighbours(r) -> Nat]
             /\ channel[r] \in [Neighbours(r) -> Seq(MessageType)]
  <2>1. guaranteeTime[r] = [s \in Neighbours(r) |-> 0]
        /\ channel[r] = [s \in Neighbours(r) |-> <<Message(0, BundleDelay(r, s))>>]
    BY DEF Init
  <2>2. \A s \in Neighbours(r) : <<Message(0, BundleDelay(r, s))>> \in Seq(MessageType)
    <3>1. \A s \in Neighbours(r) : Message(0, BundleDelay(r, s)) \in MessageType
      BY Delayed, MessageTyped
    <3>2. QED
      BY <3>1
  <2>3. QED
    BY <2>1, <2>2
<1>6. QED
  BY <1>2, <1>3, <1>4, <1>5 DEF Init, Types, TypeInv

\* The channel to a neighbour gets a message.
LEMMA SendTyped ==
  ASSUME Types, NEW r \in Ranks, NEW s \in Neighbours(r), NEW m \in MessageType,
         SendsMessage(r, s, m)
  PROVE  /\ DOMAIN channel' = Ranks
         /\ \A a \in Ranks : channel'[a] \in [Neighbours(a) -> Seq(MessageType)]
         /\ channel'[r][s] = Append(channel[r][s], m)
         /\ \A a \in Ranks : \A b \in Neighbours(a) :
              <<a, b>> # <<r, s>> => channel'[a][b] = channel[a][b]
<1>1. channel[r][s] \in Seq(MessageType)
  BY DEF Types
<1>2. Append(channel[r][s], m) \in Seq(MessageType)
  BY <1>1
<1>3. PICK c : c = Append(channel[r][s], m)
  OBVIOUS
<1>4. c \in Seq(MessageType) /\ channel' = [channel EXCEPT ![r][s] = c]
  BY <1>2, <1>3 DEF SendsMessage
<1>5. /\ DOMAIN channel' = Ranks
      /\ \A a \in Ranks : channel'[a] \in [Neighbours(a) -> Seq(MessageType)]
      /\ channel'[r][s] = c
      /\ \A a \in Ranks : \A b \in Neighbours(a) :
           <<a, b>> # <<r, s>> => channel'[a][b] = channel[a][b]
  BY <1>4, ChannelChange, ZenonT(90)
<1>6. QED
  BY <1>3, <1>5

\* What a null event sends and leaves behind.
LEMMA NullMessageSent ==
  ASSUME TypeInv, NEW r \in Ranks, NullMessageEventHandler(r)
  PROVE  LET s == Head(events[r]).of
             left == Tail(events[r])
             g == Guarantee(left, safeTime[r], BundleDelay(r, s))
             e == NullEvent(Head(events[r]).ts + NullDelay(r, s), s)
         IN
         /\ s \in Neighbours(r) /\ IsNull(Head(events[r]), s)
         /\ left \in Seq(EventType) /\ left # <<>> /\ NoNullIn(left, s)
         /\ g \in Nat /\ e \in EventType /\ IsNull(e, s)
         /\ e.ts = Head(events[r]).ts + NullDelay(r, s)
         /\ SendsMessage(r, s, Message(0, g))
         /\ events' = [events EXCEPT ![r] = Insert(left, e)]
         /\ HasEvents(Insert(left, e), r, FALSE)
<1> DEFINE h == Head(events[r])
           s == h.of
           left == Tail(events[r])
           g == Guarantee(left, safeTime[r], BundleDelay(r, s))
           e == NullEvent(h.ts + NullDelay(r, s), s)
<1>1. Runs(r, {"null"})
  BY DEF NullMessageEventHandler
<1>2. /\ events[r] \in Seq(EventType) /\ events[r] # <<>> /\ h \in EventType /\ h.kind = "null"
      /\ HasEvents(events[r], r, FALSE) /\ h.ts \in Nat /\ currentTs'[r] = h.ts
  <2>1. Types /\ Lists
    BY DEF TypeInv
  <2>2. h.kind \in {"null"}
    BY <1>1, <2>1, HeadTaken
  <2>3. QED
    BY <1>1, <2>1, <2>2, HeadTaken
<1>3. 1 \in DOMAIN events[r] /\ h = events[r][1]
  BY <1>2, Tails
<1>4. s \in Neighbours(r)
  BY <1>2, <1>3 DEF HasEvents
<1>5. NullDelay(r, s) \in Nat /\ BundleDelay(r, s) \in Nat
  BY <1>4, Delayed
<1>6. e \in EventType /\ IsNull(e, s) /\ e.ts = h.ts + NullDelay(r, s)
  <2>1. h.ts + NullDelay(r, s) \in Nat
    BY <1>2, <1>5
  <2>2. QED
    BY <1>4, <2>1, NullTyped
<1>7. /\ left \in Seq(EventType) /\ left # <<>> /\ NoNullIn(left, s)
      /\ HasEvents(Insert(left, e), r, FALSE)
  BY <1>2, <1>6, NullHasEvents
<1>8. g \in Nat
  <2>1. safeTime[r] \in Nat
    BY DEF TypeInv, Types
  <2>2. QED
    BY <1>5, <1>7, <2>1, GuaranteeIsLeast
<1>9. SendsMessage(r, s, Message(0, g))
  BY DEF NullMessageEventHandler
<1>10. events' = [events EXCEPT ![r] = Insert(left, e)]
  BY <1>2 DEF NullMessageEventHandler, ScheduleNullMessageEvent
<1>11. IsNull(h, s)
  BY <1>2 DEF IsNull
<1>12. QED
  BY <1>4, <1>6, <1>7, <1>8, <1>9, <1>10, <1>11

\* What SendPacket sends and schedules.
LEMMA PacketSent ==
  ASSUME TypeInv, NEW r \in Ranks, NEW d \in DevicesOf(r), SendPacket(r, d)
  PROVE  LET s == RemoteOf[d]
             c == Event(currentTs[r] + TxTimeOf[d], "txComplete", d)
             list == Insert(events[r], c)
             g == Guarantee(list, safeTime[r], BundleDelay(r, s))
             e == NullEvent(currentTs[r] + NullDelay(r, s), s)
         IN
         /\ s \in Neighbours(r)
         /\ c \in EventType /\ c.kind = "txComplete" /\ c.of = d
         /\ c.ts = currentTs[r] + TxTimeOf[d] /\ c.ts \in Nat
         /\ list \in Seq(EventType) /\ list # <<>> /\ HasEvents(list, r, stop[r])
         /\ g \in Nat /\ e \in EventType /\ IsNull(e, s) /\ e.ts = currentTs[r] + NullDelay(r, s)
         /\ c.ts + DelayOf[d] \in Nat
         /\ SendsMessage(r, s, Message(c.ts + DelayOf[d], g))
         /\ events' = [events EXCEPT ![r] = Insert(CancelNullEvent(list, s), e)]
         /\ HasEvents(Insert(CancelNullEvent(list, s), e), r, stop[r])
<1> DEFINE s == RemoteOf[d]
           t == currentTs[r] + TxTimeOf[d]
           c == Event(t, "txComplete", d)
           list == Insert(events[r], c)
           g == Guarantee(list, safeTime[r], BundleDelay(r, s))
           e == NullEvent(currentTs[r] + NullDelay(r, s), s)
<1>1. d \in Devices /\ s \in Neighbours(r)
  BY DEF DevicesOf, Neighbours
<1>2. /\ currentTs[r] \in Nat /\ safeTime[r] \in Nat /\ events[r] \in Seq(EventType)
      /\ HasEvents(events[r], r, stop[r]) /\ stop[r] \in BOOLEAN
  BY DEF TypeInv, Types, Lists
<1>3. t \in Nat /\ DelayOf[d] \in Nat /\ t + DelayOf[d] \in Nat
  <2>1. TxTimeOf[d] \in Nat /\ DelayOf[d] \in Nat
    BY <1>1, DevicesAssumption
  <2>2. QED
    BY <1>2, <2>1
<1>4. NullDelay(r, s) \in Nat /\ BundleDelay(r, s) \in Nat
  BY <1>1, Delayed
<1>5. c \in EventType /\ c.kind = "txComplete" /\ c.of = d /\ c.ts = t
  BY <1>1, <1>3, EventTyped DEF Kinds
<1>6. e \in EventType /\ IsNull(e, s) /\ e.ts = currentTs[r] + NullDelay(r, s)
  <2>1. currentTs[r] + NullDelay(r, s) \in Nat
    BY <1>2, <1>4
  <2>2. QED
    BY <1>1, <2>1, NullTyped
<1> HIDE DEF c, e
<1>7. HasEvents(list, r, stop[r])
  BY <1>2, <1>5, InsertHasEvents
<1>8. list \in Seq(EventType) /\ list # <<>>
  <2>1. list \in Seq(EventType) /\ \E i \in DOMAIN list : list[i] = c
    BY <1>2, <1>5, InsertElements
  <2>2. QED
    BY <2>1, LenProperties, EmptySeq
<1>9. g \in Nat
  BY <1>2, <1>4, <1>8, GuaranteeIsLeast
<1>10. HasEvents(Insert(CancelNullEvent(list, s), e), r, stop[r])
  BY <1>1, <1>2, <1>6, <1>7, CancelHasEvents
<1>11. SendsMessage(r, s, Message(c.ts + DelayOf[d], g))
  BY <1>5 DEF SendPacket, c
<1>12. events' = [events EXCEPT ![r] = Insert(CancelNullEvent(list, s), e)]
  BY DEF SendPacket, ScheduleNullMessageEvent, c, e
<1>13. QED
  BY <1>1, <1>3, <1>5, <1>6, <1>7, <1>8, <1>9, <1>10, <1>11, <1>12 DEF c, e

\* What the reception of a message changes.
LEMMA MessageReceived ==
  ASSUME TypeInv, NEW r \in Ranks, NEW s \in Neighbours(r), Receives(r, s)
  PROVE  LET m == Head(channel[s][r])
             e == Event(m.rxTime, "app", r)
             L == IF m.rxTime > 0 THEN Insert(events[r], e) ELSE events[r]
         IN
         /\ s \in Ranks /\ r \in Neighbours(s)
         /\ channel[s][r] \in Seq(MessageType) /\ channel[s][r] # <<>> /\ m \in MessageType
         /\ m.rxTime \in Nat /\ m.guarantee \in Nat
         /\ e \in EventType /\ e.ts = m.rxTime /\ e.kind = "app"
         /\ events' = [events EXCEPT ![r] = L] /\ HasEvents(L, r, stop[r])
         /\ DOMAIN channel' = Ranks
         /\ \A a \in Ranks : channel'[a] \in [Neighbours(a) -> Seq(MessageType)]
         /\ channel'[s][r] = Tail(channel[s][r])
         /\ \A a \in Ranks : \A b \in Neighbours(a) :
              <<a, b>> # <<s, r>> => channel'[a][b] = channel[a][b]
         /\ DOMAIN guaranteeTime' = Ranks
         /\ \A a \in Ranks : guaranteeTime'[a] \in [Neighbours(a) -> Nat]
         /\ guaranteeTime'[r][s] = m.guarantee
         /\ \A a \in Ranks : \A b \in Neighbours(a) :
              <<a, b>> # <<r, s>> => guaranteeTime'[a][b] = guaranteeTime[a][b]
<1> DEFINE m == Head(channel[s][r])
           e == Event(m.rxTime, "app", r)
           L == IF m.rxTime > 0 THEN Insert(events[r], e) ELSE events[r]
<1>1. s \in Ranks /\ r \in Neighbours(s)
  BY NeighboursAreRanks
<1>2. channel[s][r] \in Seq(MessageType) /\ channel[s][r] # <<>>
  BY <1>1 DEF TypeInv, Types, Receives
<1>3. m \in MessageType /\ Tail(channel[s][r]) \in Seq(MessageType)
  BY <1>2, HeadTailProperties
<1>4. m.rxTime \in Nat /\ m.guarantee \in Nat
  BY <1>3 DEF MessageType
<1>5. e \in EventType /\ e.ts = m.rxTime /\ e.kind = "app"
  BY <1>4, EventTyped DEF Kinds
<1>6. HasEvents(events[r], r, stop[r]) /\ stop[r] \in BOOLEAN
  BY DEF TypeInv, Types, Lists
<1>7. HasEvents(L, r, stop[r])
  BY <1>5, <1>6, InsertHasEvents
<1>8. events' = [events EXCEPT ![r] = L]
  <2>1. CASE m.rxTime > 0
    BY <2>1 DEF Receives
  <2>2. CASE ~(m.rxTime > 0)
    <3>1. events' = events
      BY <2>2 DEF Receives
    <3>2. events \in [Ranks -> Seq(EventType)]
      BY DEF TypeInv, Types
    <3>3. QED
      BY <2>2, <3>1, <3>2
  <2>3. QED
    BY <2>1, <2>2
<1>9. channel' = [channel EXCEPT ![s][r] = Tail(channel[s][r])]
      /\ guaranteeTime' = [guaranteeTime EXCEPT ![r][s] = m.guarantee]
  BY DEF Receives
<1>10. /\ DOMAIN channel' = Ranks
       /\ \A a \in Ranks : channel'[a] \in [Neighbours(a) -> Seq(MessageType)]
       /\ channel'[s][r] = Tail(channel[s][r])
       /\ \A a \in Ranks : \A b \in Neighbours(a) :
            <<a, b>> # <<s, r>> => channel'[a][b] = channel[a][b]
  <2>1. PICK c : c = Tail(channel[s][r])
    OBVIOUS
  <2>2. Types /\ c \in Seq(MessageType) /\ channel' = [channel EXCEPT ![s][r] = c]
    BY <1>3, <1>9, <2>1 DEF TypeInv
  <2>3. /\ DOMAIN channel' = Ranks
        /\ \A a \in Ranks : channel'[a] \in [Neighbours(a) -> Seq(MessageType)]
        /\ channel'[s][r] = c
        /\ \A a \in Ranks : \A b \in Neighbours(a) :
             <<a, b>> # <<s, r>> => channel'[a][b] = channel[a][b]
    BY <1>1, <2>2, ChannelChange, ZenonT(90)
  <2>4. QED
    BY <2>1, <2>3
<1>11. /\ DOMAIN guaranteeTime' = Ranks
       /\ \A a \in Ranks : guaranteeTime'[a] \in [Neighbours(a) -> Nat]
       /\ guaranteeTime'[r][s] = m.guarantee
       /\ \A a \in Ranks : \A b \in Neighbours(a) :
            <<a, b>> # <<r, s>> => guaranteeTime'[a][b] = guaranteeTime[a][b]
  <2>1. PICK g : g = m.guarantee
    OBVIOUS
  <2>2. Types /\ g \in Nat /\ guaranteeTime' = [guaranteeTime EXCEPT ![r][s] = g]
    BY <1>4, <1>9, <2>1 DEF TypeInv
  <2>3. /\ DOMAIN guaranteeTime' = Ranks
        /\ \A a \in Ranks : guaranteeTime'[a] \in [Neighbours(a) -> Nat]
        /\ guaranteeTime'[r][s] = g
        /\ \A a \in Ranks : \A b \in Neighbours(a) :
             <<a, b>> # <<r, s>> => guaranteeTime'[a][b] = guaranteeTime[a][b]
    BY <2>2, GuaranteeChange, ZenonT(90)
  <2>4. QED
    BY <2>1, <2>3
<1>12. QED
  BY <1>1, <1>2, <1>3, <1>4, <1>5, <1>7, <1>8, <1>10, <1>11

\* Nothing but the clock and the list of a rank, and what it is doing, changes.
LEMMA TakeTyped ==
  ASSUME TypeInv, NEW r \in Ranks, Runs(r, {"app", "txComplete", "cancelled", "stop"}),
         stop' = [stop EXCEPT ![r] = @ \/ Head(events[r]).kind = "stop"],
         events' = [events EXCEPT ![r] = Tail(@)],
         \E k \in {"handler", "polling"} : pc' = [pc EXCEPT ![r] = k],
         UNCHANGED <<safeTime, guaranteeTime, channel>>
  PROVE  TypeInv'
<1>1. Types /\ Lists
  BY DEF TypeInv
<1>2. /\ events[r] \in Seq(EventType) /\ events[r] # <<>> /\ stop[r] = FALSE
      /\ Head(events[r]).kind \in {"app", "txComplete", "cancelled", "stop"}
      /\ HasEvents(events[r], r, FALSE) /\ currentTs' \in [Ranks -> Nat]
  BY <1>1, HeadTaken
<1>3. /\ stop' \in [Ranks -> BOOLEAN] /\ stop'[r] = (stop[r] \/ Head(events[r]).kind = "stop")
      /\ \A q \in Ranks \ {r} : stop'[q] = stop[q]
  BY <1>1 DEF Types
<1>4. HasEvents(Tail(events[r]), r, stop'[r])
  <2>1. HasEvents(Tail(events[r]), r, FALSE \/ Head(events[r]).kind = "stop")
    <3>1. Head(events[r]).kind # "null"
      BY <1>2
    <3>2. QED
      BY <1>2, <3>1, TailHasEvents
  <2>2. QED
    BY <1>2, <1>3, <2>1
<1>5. Lists' /\ events' \in [Ranks -> Seq(EventType)]
  BY <1>1, <1>3, <1>4, ListsChange
<1>6. pc' \in [Ranks -> {"loop", "handler", "polling", "returned"}]
  BY <1>1 DEF Types
<1>7. Types'
  BY <1>1, <1>2, <1>3, <1>5, <1>6 DEF Types
<1>8. QED
  BY <1>5, <1>7 DEF TypeInv

LEMMA TypesPreserved == TypeInv /\ [Next]_vars => TypeInv'
<1> SUFFICES ASSUME TypeInv, [Next]_vars PROVE TypeInv'
  OBVIOUS
<1>0. Types /\ Lists
  BY DEF TypeInv
<1>1. ASSUME NEW r \in Ranks, RunStop(r) PROVE TypeInv'
  <2>1. Runs(r, {"stop"})
    BY <1>1 DEF RunStop
  <2>2. Head(events[r]).kind \in {"stop"} /\ stop[r] = FALSE
    BY <1>0, <2>1, HeadTaken
  <2>3. stop' = [stop EXCEPT ![r] = @ \/ Head(events[r]).kind = "stop"]
    BY <1>1, <2>2 DEF RunStop
  <2>4. Runs(r, {"app", "txComplete", "cancelled", "stop"})
    BY <2>1 DEF Runs
  <2>5. QED
    BY <1>1, <2>3, <2>4, TakeTyped DEF RunStop
<1>2. ASSUME NEW r \in Ranks, RunCancelled(r) \/ RunHandler(r) PROVE TypeInv'
  <2>1. Runs(r, {"app", "txComplete", "cancelled"})
    BY <1>2 DEF RunCancelled, RunHandler, Runs
  <2>2. Head(events[r]).kind \in {"app", "txComplete", "cancelled"} /\ stop[r] = FALSE
    BY <1>0, <2>1, HeadTaken
  <2>3. stop' = [stop EXCEPT ![r] = @ \/ Head(events[r]).kind = "stop"]
    BY <1>0, <1>2, <2>2 DEF RunCancelled, RunHandler, Types
  <2>4. Runs(r, {"app", "txComplete", "cancelled", "stop"})
    BY <2>1 DEF Runs
  <2>5. QED
    BY <1>2, <2>3, <2>4, TakeTyped DEF RunCancelled, RunHandler
<1>3. ASSUME NEW r \in Ranks, NullMessageEventHandler(r) PROVE TypeInv'
  <2> DEFINE s == Head(events[r]).of
             g == Guarantee(Tail(events[r]), safeTime[r], BundleDelay(r, s))
             L == Insert(Tail(events[r]), NullEvent(Head(events[r]).ts + NullDelay(r, s), s))
  <2>1. /\ s \in Neighbours(r) /\ g \in Nat /\ SendsMessage(r, s, Message(0, g))
        /\ events' = [events EXCEPT ![r] = L] /\ HasEvents(L, r, FALSE)
    BY <1>3, NullMessageSent
  <2>2. Message(0, g) \in MessageType
    BY <2>1, MessageTyped
  <2>3. Runs(r, {"null"}) /\ UNCHANGED <<stop, safeTime, guaranteeTime>>
        /\ pc' = [pc EXCEPT ![r] = "polling"]
    BY <1>3 DEF NullMessageEventHandler
  <2>4. stop[r] = FALSE /\ currentTs' \in [Ranks -> Nat]
    BY <1>0, <2>3, HeadTaken
  <2> HIDE DEF s, g, L
  <2>5. Lists' /\ events' \in [Ranks -> Seq(EventType)]
    BY <1>0, <2>1, <2>3, <2>4, ListsChange
  <2>6. DOMAIN channel' = Ranks /\ \A a \in Ranks : channel'[a] \in [Neighbours(a) -> Seq(MessageType)]
    BY <1>0, <2>1, <2>2, SendTyped
  <2>7. Types'
    BY <1>0, <2>3, <2>4, <2>5, <2>6 DEF Types
  <2>8. QED
    BY <2>5, <2>7 DEF TypeInv
<1>4. ASSUME NEW r \in Ranks, Schedule(r) PROVE TypeInv'
  <2>1. PICK delay \in Delays : events' = [events EXCEPT ![r] = Insert(@, Event(currentTs[r] + delay, "app", r))]
    BY <1>4 DEF Schedule
  <2>2. currentTs[r] + delay \in Nat
    BY <1>0, TimesAssumption DEF Types
  <2> DEFINE e == Event(currentTs[r] + delay, "app", r)
  <2>3. e \in EventType /\ e.kind = "app"
    BY <2>2, EventTyped DEF Kinds
  <2> HIDE DEF e
  <2>4. HasEvents(Insert(events[r], e), r, stop[r])
    BY <1>0, <2>3, InsertHasEvents DEF Types, Lists
  <2>5. UNCHANGED <<pc, currentTs, stop, safeTime, guaranteeTime, channel>>
    BY <1>4 DEF Schedule
  <2>6. events' = [events EXCEPT ![r] = Insert(events[r], e)]
    BY <2>1 DEF e
  <2>7. Lists' /\ events' \in [Ranks -> Seq(EventType)]
    BY <1>0, <2>4, <2>5, <2>6, ListsChange
  <2>8. Types'
    BY <1>0, <2>5, <2>7 DEF Types
  <2>9. QED
    BY <2>7, <2>8 DEF TypeInv
<1>5. ASSUME NEW r \in Ranks, NEW d \in DevicesOf(r), SendPacket(r, d) PROVE TypeInv'
  <2> DEFINE s == RemoteOf[d]
             c == Event(currentTs[r] + TxTimeOf[d], "txComplete", d)
             list == Insert(events[r], c)
             g == Guarantee(list, safeTime[r], BundleDelay(r, s))
             m == Message(c.ts + DelayOf[d], g)
             L == Insert(CancelNullEvent(list, s), NullEvent(currentTs[r] + NullDelay(r, s), s))
  <2>1. /\ s \in Neighbours(r) /\ g \in Nat /\ c.ts + DelayOf[d] \in Nat
        /\ SendsMessage(r, s, m)
        /\ events' = [events EXCEPT ![r] = L] /\ HasEvents(L, r, stop[r])
    BY <1>5, PacketSent
  <2>2. m \in MessageType
    BY <2>1, MessageTyped
  <2>3. UNCHANGED <<pc, currentTs, stop, safeTime, guaranteeTime>>
    BY <1>5 DEF SendPacket
  <2> HIDE DEF s, c, list, g, m, L
  <2>4. Lists' /\ events' \in [Ranks -> Seq(EventType)]
    BY <1>0, <2>1, <2>3, ListsChange
  <2>5. DOMAIN channel' = Ranks /\ \A a \in Ranks : channel'[a] \in [Neighbours(a) -> Seq(MessageType)]
    BY <1>0, <2>1, <2>2, SendTyped
  <2>6. Types'
    BY <1>0, <2>3, <2>4, <2>5 DEF Types
  <2>7. QED
    BY <2>4, <2>6 DEF TypeInv
<1>6. ASSUME NEW r \in Ranks, NEW s \in Neighbours(r),
             ReceiveMessagesNonBlocking(r, s) \/ ReceiveMessagesBlocking(r, s)
      PROVE TypeInv'
  <2> DEFINE m == Head(channel[s][r])
             L == IF m.rxTime > 0 THEN Insert(events[r], Event(m.rxTime, "app", r)) ELSE events[r]
  <2>1. Receives(r, s)
    BY <1>6 DEF ReceiveMessagesNonBlocking, ReceiveMessagesBlocking
  <2>2. /\ events' = [events EXCEPT ![r] = L] /\ HasEvents(L, r, stop[r])
        /\ DOMAIN channel' = Ranks
        /\ \A a \in Ranks : channel'[a] \in [Neighbours(a) -> Seq(MessageType)]
        /\ DOMAIN guaranteeTime' = Ranks
        /\ \A a \in Ranks : guaranteeTime'[a] \in [Neighbours(a) -> Nat]
    BY <2>1, MessageReceived
  <2>3. UNCHANGED <<pc, currentTs, stop>>
    BY <1>6, <2>1 DEF ReceiveMessagesNonBlocking, ReceiveMessagesBlocking, Receives
  <2>4. safeTime' \in [Ranks -> Nat]
    <3>1. SafeTime(guaranteeTime'[r]) \in Nat
      BY <2>2, SafeTimeIsLeast
    <3>2. safeTime' = safeTime \/ safeTime' = [safeTime EXCEPT ![r] = SafeTime(guaranteeTime'[r])]
      BY <1>6 DEF ReceiveMessagesNonBlocking, ReceiveMessagesBlocking
    <3>3. QED
      BY <1>0, <3>1, <3>2 DEF Types
  <2> HIDE DEF m, L
  <2>5. Lists' /\ events' \in [Ranks -> Seq(EventType)]
    BY <1>0, <2>2, <2>3, ListsChange
  <2>6. Types'
    BY <1>0, <2>2, <2>3, <2>4, <2>5 DEF Types
  <2>7. QED
    BY <2>5, <2>6 DEF TypeInv
<1>7. ASSUME NEW r \in Ranks, EndPolling(r) PROVE TypeInv'
  <2>1. SafeTime(guaranteeTime[r]) \in Nat
    BY <1>0, SafeTimeIsLeast DEF Types
  <2>2. QED
    BY <1>0, <1>7, <2>1 DEF EndPolling, TypeInv, Types, Lists
<1>8. ASSUME NEW r \in Ranks, HandlerReturns(r) \/ RunReturns(r) PROVE TypeInv'
  BY <1>0, <1>8 DEF HandlerReturns, RunReturns, TypeInv, Types, Lists
<1>9. CASE UNCHANGED vars
  BY <1>0, <1>9 DEF vars, TypeInv, Types, Lists
<1>10. QED
  BY <1>1, <1>2, <1>3, <1>4, <1>5, <1>6, <1>7, <1>8, <1>9 DEF Next, RunStep

LEMMA TypeInvariant == Spec => []TypeInv
  BY TypesInit, TypesPreserved, PTL DEF Spec

\* For any number of devices between two ranks: packets and null events that cancel, replace
\* and reschedule each other leave one null event per neighbour, in or out of a handler.
THEOREM OneNullEventHolds == Spec => []OneNullEvent
<1>1. TypeInv => OneNullEvent
  <2> SUFFICES ASSUME TypeInv, NEW r \in Ranks, NEW s \in Neighbours(r)
               PROVE  Cardinality({i \in DOMAIN events[r] :
                                     events[r][i].kind = "null" /\ events[r][i].of = s}) = 1
    BY DEF OneNullEvent
  <2> DEFINE S == {i \in DOMAIN events[r] : events[r][i].kind = "null" /\ events[r][i].of = s}
  <2>1. OneNullIn(events[r], s)
    BY DEF TypeInv, Lists, HasEvents
  <2>2. PICK i \in DOMAIN events[r] : \A j \in DOMAIN events[r] : IsNull(events[r][j], s) <=> j = i
    BY <2>1 DEF OneNullIn
  <2>3. S = {i}
    BY <2>2 DEF IsNull
  <2>4. QED
    BY <2>3, FS_Singleton
<1>2. QED
  BY TypeInvariant, <1>1, PTL

--------------------------------------------------------------------------------
(* Guarantees of one channel *)

LEMMA RisingAppend ==
  ASSUME NEW ms \in Seq(MessageType), NEW g \in Nat, IsRising(g, ms), NEW m \in MessageType,
         \A x \in GuaranteesOf(g, ms) : x <= m.guarantee,
         m.rxTime > 0 => m.guarantee <= m.rxTime
  PROVE  /\ IsRising(g, Append(ms, m))
         /\ GuaranteesOf(g, Append(ms, m)) = GuaranteesOf(g, ms) \cup {m.guarantee}
<1> DEFINE new == Append(ms, m)
           n == Len(ms)
<1>1. n \in Nat /\ DOMAIN ms = 1..n /\ DOMAIN new = 1..n + 1 /\ new[n + 1] = m
      /\ \A i \in 1..n : new[i] = ms[i] /\ ms[i] \in MessageType
  BY LenProperties, ElementOfSeq
<1>2. \A i \in 1..n + 1 : i \in 1..n \/ i = n + 1
  BY <1>1
<1> HIDE DEF new, n
<1>3. m.guarantee \in Nat /\ \A i \in 1..n : ms[i].guarantee \in Nat
  BY <1>1 DEF MessageType
<1>4. g <= m.guarantee /\ \A i \in 1..n : ms[i].guarantee <= m.guarantee
  BY <1>1 DEF GuaranteesOf
<1>5. ASSUME NEW i \in 1..n + 1
      PROVE  /\ g <= new[i].guarantee
             /\ \A j \in 1..i : new[j].guarantee <= new[i].guarantee
             /\ new[i].rxTime > 0 => new[i].guarantee <= new[i].rxTime
  <2>1. CASE i \in 1..n
    <3>1. new[i] = ms[i] /\ \A j \in 1..i : j \in 1..n /\ new[j] = ms[j]
      BY <1>1, <2>1
    <3>2. /\ g <= ms[i].guarantee
          /\ \A j \in 1..i : ms[j].guarantee <= ms[i].guarantee
          /\ ms[i].rxTime > 0 => ms[i].guarantee <= ms[i].rxTime
      BY <1>1, <2>1 DEF IsRising
    <3>3. QED
      BY <3>1, <3>2
  <2>2. CASE i = n + 1
    <3>1. \A j \in 1..i : new[j].guarantee <= m.guarantee
      BY <1>1, <1>2, <1>3, <1>4, <2>2
    <3>2. QED
      BY <1>1, <1>4, <2>2, <3>1
  <2>3. QED
    BY <1>2, <2>1, <2>2
<1>6. IsRising(g, new)
  BY <1>1, <1>5 DEF IsRising
<1>7. GuaranteesOf(g, new) = GuaranteesOf(g, ms) \cup {m.guarantee}
  BY <1>1, <1>2 DEF GuaranteesOf
<1>8. QED
  BY <1>6, <1>7 DEF new

LEMMA RisingTail ==
  ASSUME NEW ms \in Seq(MessageType), NEW g \in Nat, IsRising(g, ms), ms # <<>>
  PROVE  /\ IsRising(Head(ms).guarantee, Tail(ms))
         /\ GuaranteesOf(Head(ms).guarantee, Tail(ms)) \subseteq GuaranteesOf(g, ms)
         /\ g <= Head(ms).guarantee
         /\ Head(ms).rxTime > 0 => Head(ms).guarantee <= Head(ms).rxTime
<1> DEFINE new == Tail(ms)
           n == Len(ms)
<1>1. n \in Nat \ {0} /\ DOMAIN ms = 1..n /\ DOMAIN new = 1..n - 1 /\ Head(ms) = ms[1]
      /\ \A i \in 1..n - 1 : new[i] = ms[i + 1] /\ i + 1 \in 1..n
  <2>1. n \in Nat \ {0} /\ DOMAIN ms = 1..n
    BY EmptySeq, LenProperties
  <2>2. new \in Seq(MessageType) /\ Len(new) = n - 1 /\ \A i \in 1..n - 1 : new[i] = ms[i + 1]
    BY HeadTailProperties
  <2>3. DOMAIN new = 1..n - 1
    BY <2>2, LenProperties
  <2>4. Head(ms) = ms[1]
    OBVIOUS
  <2>5. QED
    BY <2>1, <2>2, <2>3, <2>4
<1> HIDE DEF new, n
<1>2. \A i \in 1..n : /\ g <= ms[i].guarantee
                      /\ \A j \in 1..i : ms[j].guarantee <= ms[i].guarantee
                      /\ ms[i].rxTime > 0 => ms[i].guarantee <= ms[i].rxTime
  BY <1>1 DEF IsRising
<1>3. 1 \in 1..n
  BY <1>1
<1>4. g <= Head(ms).guarantee /\ (Head(ms).rxTime > 0 => Head(ms).guarantee <= Head(ms).rxTime)
  BY <1>1, <1>2, <1>3
<1>5. ASSUME NEW i \in 1..n - 1
      PROVE  /\ Head(ms).guarantee <= new[i].guarantee
             /\ \A j \in 1..i : new[j].guarantee <= new[i].guarantee
             /\ new[i].rxTime > 0 => new[i].guarantee <= new[i].rxTime
  <2>1. new[i] = ms[i + 1] /\ i + 1 \in 1..n /\ 1 \in 1..i + 1
    BY <1>1
  <2>2. \A j \in 1..i : new[j] = ms[j + 1] /\ j + 1 \in 1..i + 1
    BY <1>1
  <2>3. QED
    BY <1>1, <1>2, <2>1, <2>2
<1>6. IsRising(Head(ms).guarantee, new)
  BY <1>1, <1>5 DEF IsRising
<1>7. GuaranteesOf(Head(ms).guarantee, new) \subseteq GuaranteesOf(g, ms)
  BY <1>1, <1>3 DEF GuaranteesOf
<1>8. QED
  BY <1>4, <1>6, <1>7 DEF new

--------------------------------------------------------------------------------
(* Times of one list *)

LEMMA InsertIsAhead ==
  ASSUME NEW list \in Seq(EventType), NEW r \in Ranks, NEW now \in Nat, IsAhead(list, r, now),
         NEW e \in EventType, now <= e.ts,
         \A s \in Neighbours(r) : IsNull(e, s) => e.ts <= now + NullDelay(r, s)
  PROVE  IsAhead(Insert(list, e), r, now)
<1> DEFINE new == Insert(list, e)
<1>1. \A i \in DOMAIN new : new[i] = e \/ \E j \in DOMAIN list : new[i] = list[j]
  BY InsertElements
<1>2. Ordered(new)
  BY InsertOrdered DEF IsAhead
<1> HIDE DEF new
<1>3. ASSUME NEW i \in DOMAIN new
      PROVE  /\ now <= new[i].ts
             /\ \A s \in Neighbours(r) : IsNull(new[i], s) => new[i].ts <= now + NullDelay(r, s)
  <2>1. CASE new[i] = e
    BY <2>1
  <2>2. CASE \E j \in DOMAIN list : new[i] = list[j]
    BY <2>2 DEF IsAhead
  <2>3. QED
    BY <1>1, <2>1, <2>2
<1>4. QED
  BY <1>2, <1>3 DEF IsAhead, new

LEMMA TailIsAhead ==
  ASSUME NEW list \in Seq(EventType), list # <<>>, NEW r \in Ranks, NEW now \in Nat,
         IsAhead(list, r, now)
  PROVE  /\ now <= Head(list).ts
         /\ IsAhead(Tail(list), r, Head(list).ts)
<1>1. Head(list).ts \in Nat /\ 1 \in DOMAIN list /\ Head(list) = list[1]
  BY Tails, ListTimes
<1>2. now <= Head(list).ts
  BY <1>1 DEF IsAhead
<1>3. Ordered(Tail(list)) /\ \A i \in DOMAIN list : Head(list).ts <= list[i].ts
  BY TailOrdered DEF IsAhead
<1>4. ASSUME NEW i \in DOMAIN Tail(list)
      PROVE  /\ Head(list).ts <= Tail(list)[i].ts
             /\ \A s \in Neighbours(r) :
                  IsNull(Tail(list)[i], s) => Tail(list)[i].ts <= Head(list).ts + NullDelay(r, s)
  <2>1. PICK j \in DOMAIN list : Tail(list)[i] = list[j]
    BY TailElements
  <2>2. ASSUME NEW s \in Neighbours(r), IsNull(list[j], s)
        PROVE list[j].ts <= Head(list).ts + NullDelay(r, s)
    <3>1. list[j].ts <= now + NullDelay(r, s) /\ NullDelay(r, s) \in Nat /\ list[j].ts \in Nat
      BY <2>2, Delayed, ListTimes DEF IsAhead
    <3>2. QED
      BY <1>1, <1>2, <3>1
  <2>3. QED
    BY <1>3, <2>1, <2>2
<1>5. QED
  BY <1>2, <1>3, <1>4 DEF IsAhead

LEMMA CancelIsAhead ==
  ASSUME NEW list \in Seq(EventType), NEW r \in Ranks, NEW now \in Nat, IsAhead(list, r, now), NEW s
  PROVE  IsAhead(CancelNullEvent(list, s), r, now)
<1> DEFINE new == CancelNullEvent(list, s)
<1>1. DOMAIN new = DOMAIN list /\ \A i \in DOMAIN list :
        IF IsNull(list[i], s) THEN new[i].ts = list[i].ts /\ new[i].kind = "cancelled"
        ELSE new[i] = list[i]
  BY Cancels
<1>2. Ordered(new)
  BY CancelOrdered DEF IsAhead
<1> HIDE DEF new
<1>3. ASSUME NEW i \in DOMAIN new
      PROVE  /\ now <= new[i].ts
             /\ \A t \in Neighbours(r) : IsNull(new[i], t) => new[i].ts <= now + NullDelay(r, t)
  <2>1. CASE IsNull(list[i], s)
    BY <1>1, <2>1 DEF IsAhead, IsNull
  <2>2. CASE ~IsNull(list[i], s)
    BY <1>1, <2>2 DEF IsAhead
  <2>3. QED
    BY <2>1, <2>2
<1>4. QED
  BY <1>2, <1>3 DEF IsAhead, new

--------------------------------------------------------------------------------
(* How one guarantee is kept *)

\* The event at the head is taken; an event that is added is a null event.
LEMMA KeptByTaking ==
  ASSUME NEW g \in Nat, NEW r, NEW d, NEW delay \in Nat, NEW list \in Seq(EventType), list # <<>>,
         NEW now \in Nat, now <= Head(list).ts, NEW safe \in Nat,
         NEW before \in BOOLEAN, NEW after \in BOOLEAN,
         IsKept(g, r, d, delay, list, now, safe, before),
         NEW new,
         \A j \in DOMAIN Tail(list) : \E i \in DOMAIN new : new[i] = Tail(list)[j],
         \A i \in DOMAIN new :
           \/ \E j \in DOMAIN Tail(list) : new[i] = Tail(list)[j]
           \/ new[i].kind = "null" /\ (IsNull(new[i], r) <=> IsNull(Head(list), r)),
         IsNull(Head(list), r) => ~after
  PROVE  IsKept(g, r, d, delay, new, Head(list).ts, safe, after)
<1> DEFINE h == Head(list)
<1>1. h.ts \in Nat /\ 1 \in DOMAIN list /\ h = list[1]
  BY Tails, ListTimes
<1>2. \A j \in DOMAIN list : list[j] = h \/ \E i \in DOMAIN new : new[i] = list[j]
  BY TailElements
<1>3. \A i \in DOMAIN new :
        \/ \E j \in DOMAIN list : new[i] = list[j]
        \/ new[i].kind = "null" /\ (IsNull(new[i], r) <=> IsNull(h, r))
  BY TailElements
<1> HIDE DEF h
<1>4. CASE g <= now + delay
  <2>1. g <= h.ts + delay
    BY <1>1, <1>4 DEF h
  <2>2. QED
    BY <2>1 DEF IsKept, h
<1>5. CASE /\ \E i \in DOMAIN list : IsEnd(list[i], d)
           /\ \A i \in DOMAIN list : IsEnd(list[i], d) \/ IsNull(list[i], r) => g <= list[i].ts + delay
  <2>1. CASE IsEnd(h, d) \/ IsNull(h, r)
    <3>1. g <= h.ts + delay
      BY <1>1, <1>5, <2>1
    <3>2. QED
      BY <3>1 DEF IsKept, h
  <2>2. CASE ~(IsEnd(h, d) \/ IsNull(h, r))
    <3>1. \E i \in DOMAIN new : IsEnd(new[i], d)
      <4>1. PICK j \in DOMAIN list : IsEnd(list[j], d)
        BY <1>5
      <4>2. PICK i \in DOMAIN new : new[i] = list[j]
        BY <1>2, <2>2, <4>1
      <4>3. QED
        BY <4>1, <4>2
    <3>2. ASSUME NEW i \in DOMAIN new, IsEnd(new[i], d) \/ IsNull(new[i], r)
          PROVE g <= new[i].ts + delay
      <4>1. \E j \in DOMAIN list : new[i] = list[j]
        BY <1>3, <2>2, <3>2 DEF IsEnd
      <4>2. QED
        BY <1>5, <3>2, <4>1
    <3>3. QED
      BY <3>1, <3>2 DEF IsKept
  <2>3. QED
    BY <2>1, <2>2
<1>6. CASE /\ ~before /\ g <= safe + delay
           /\ \A i \in DOMAIN list : ~IsNull(list[i], r) => g <= list[i].ts + delay
  <2>1. CASE ~IsNull(h, r)
    <3>1. g <= h.ts + delay
      BY <1>1, <1>6, <2>1
    <3>2. QED
      BY <3>1 DEF IsKept, h
  <2>2. CASE IsNull(h, r)
    <3>1. ~after
      BY <2>2 DEF h
    <3>2. ASSUME NEW i \in DOMAIN new, ~IsNull(new[i], r) PROVE g <= new[i].ts + delay
      BY <1>3, <1>6, <2>2, <3>2
    <3>3. QED
      BY <1>6, <3>1, <3>2 DEF IsKept
  <2>3. QED
    BY <2>1, <2>2
<1>7. QED
  BY <1>4, <1>5, <1>6 DEF IsKept

\* A handler, or the reception of a packet, adds an event that is not before the safe time
\* unless the rank is in the handler.
LEMMA KeptByInserting ==
  ASSUME NEW g \in Nat, NEW r, NEW d, NEW delay \in Nat, NEW list \in Seq(EventType),
         NEW now \in Nat, NEW safe \in Nat, NEW handling \in BOOLEAN,
         IsKept(g, r, d, delay, list, now, safe, handling),
         NEW e \in EventType, e.kind = "app", handling \/ safe <= e.ts
  PROVE  IsKept(g, r, d, delay, Insert(list, e), now, safe, handling)
<1> DEFINE new == Insert(list, e)
<1>1. /\ \A i \in DOMAIN new : new[i] = e \/ \E j \in DOMAIN list : new[i] = list[j]
      /\ \A j \in DOMAIN list : \E i \in DOMAIN new : new[i] = list[j]
  BY InsertElements
<1>2. e.ts \in Nat
  BY DEF EventType
<1> HIDE DEF new
<1>3. CASE g <= now + delay
  BY <1>3 DEF IsKept, new
<1>4. CASE /\ \E i \in DOMAIN list : IsEnd(list[i], d)
           /\ \A i \in DOMAIN list : IsEnd(list[i], d) \/ IsNull(list[i], r) => g <= list[i].ts + delay
  <2>1. \E i \in DOMAIN new : IsEnd(new[i], d)
    BY <1>1, <1>4
  <2>2. ~IsEnd(e, d) /\ ~IsNull(e, r)
    BY DEF IsEnd, IsNull
  <2>3. \A i \in DOMAIN new : IsEnd(new[i], d) \/ IsNull(new[i], r) => g <= new[i].ts + delay
    BY <1>1, <1>4, <2>2
  <2>4. QED
    BY <2>1, <2>3 DEF IsKept, new
<1>5. CASE /\ ~handling /\ g <= safe + delay
           /\ \A i \in DOMAIN list : ~IsNull(list[i], r) => g <= list[i].ts + delay
  <2>1. g <= e.ts + delay
    BY <1>2, <1>5
  <2>2. \A i \in DOMAIN new : ~IsNull(new[i], r) => g <= new[i].ts + delay
    BY <1>1, <1>5, <2>1
  <2>3. QED
    BY <1>5, <2>2 DEF IsKept, new
<1>6. QED
  BY <1>3, <1>4, <1>5 DEF IsKept

\* A handler returns, or the safe time grows.
LEMMA KeptLater ==
  ASSUME NEW g \in Nat, NEW r, NEW d, NEW delay \in Nat, NEW list, NEW now,
         NEW safe \in Nat, NEW handling, IsKept(g, r, d, delay, list, now, safe, handling),
         NEW safe2 \in Nat, safe <= safe2, NEW handling2, handling2 => handling
  PROVE  IsKept(g, r, d, delay, list, now, safe2, handling2)
<1>1. g <= safe + delay => g <= safe2 + delay
  OBVIOUS
<1>2. QED
  BY <1>1 DEF IsKept

\* A packet is sent on another device, to another rank.
LEMMA KeptBySendingElsewhere ==
  ASSUME NEW g \in Nat, NEW r, NEW d, NEW delay \in Nat, NEW list \in Seq(EventType),
         NEW now \in Nat, NEW safe \in Nat, IsKept(g, r, d, delay, list, now, safe, TRUE),
         NEW s, s # r, NEW c \in EventType, c.kind = "txComplete", c.of # d,
         NEW e \in EventType, IsNull(e, s)
  PROVE  IsKept(g, r, d, delay, Insert(CancelNullEvent(Insert(list, c), s), e), now, safe, TRUE)
<1> DEFINE mid == Insert(list, c)
           left == CancelNullEvent(mid, s)
           new == Insert(left, e)
<1>1. /\ mid \in Seq(EventType)
      /\ \A i \in DOMAIN mid : mid[i] = c \/ \E j \in DOMAIN list : mid[i] = list[j]
      /\ \A j \in DOMAIN list : \E i \in DOMAIN mid : mid[i] = list[j]
  BY InsertElements
<1> HIDE DEF mid
<1>2. /\ left \in Seq(EventType) /\ DOMAIN left = DOMAIN mid
      /\ \A i \in DOMAIN mid : IF IsNull(mid[i], s) THEN left[i].kind = "cancelled"
                               ELSE left[i] = mid[i]
  BY <1>1, Cancels
<1> HIDE DEF left
<1>3. /\ \A i \in DOMAIN new : new[i] = e \/ \E j \in DOMAIN left : new[i] = left[j]
      /\ \A j \in DOMAIN left : \E i \in DOMAIN new : new[i] = left[j]
  BY <1>2, InsertElements
<1> HIDE DEF new
<1>4. CASE g <= now + delay
  BY <1>4 DEF IsKept, new, left, mid
<1>5. CASE /\ \E i \in DOMAIN list : IsEnd(list[i], d)
           /\ \A i \in DOMAIN list : IsEnd(list[i], d) \/ IsNull(list[i], r) => g <= list[i].ts + delay
  <2>1. \E i \in DOMAIN new : IsEnd(new[i], d)
    <3>1. PICK j \in DOMAIN list : IsEnd(list[j], d)
      BY <1>5
    <3>2. PICK i \in DOMAIN mid : mid[i] = list[j]
      BY <1>1
    <3>3. left[i] = list[j] /\ i \in DOMAIN left
      BY <1>2, <3>1, <3>2 DEF IsEnd, IsNull
    <3>4. QED
      BY <1>3, <3>1, <3>3
  <2>2. ASSUME NEW i \in DOMAIN new, IsEnd(new[i], d) \/ IsNull(new[i], r)
        PROVE g <= new[i].ts + delay
    <3>1. new[i] # e
      BY <2>2 DEF IsEnd, IsNull
    <3>2. PICK j \in DOMAIN left : new[i] = left[j]
      BY <1>3, <3>1
    <3>3. j \in DOMAIN mid /\ left[j] = mid[j]
      BY <1>2, <2>2, <3>2 DEF IsEnd, IsNull
    <3>4. mid[j] # c
      BY <2>2, <3>2, <3>3 DEF IsEnd, IsNull
    <3>5. PICK k \in DOMAIN list : mid[j] = list[k]
      BY <1>1, <3>3, <3>4
    <3>6. QED
      BY <1>5, <2>2, <3>2, <3>3, <3>5
  <2>3. QED
    BY <2>1, <2>2 DEF IsKept, new, left, mid
<1>6. QED
  BY <1>4, <1>5 DEF IsKept

\* The guarantee sent along with a packet on d: the end of the transmission and the null
\* event that is scheduled again are not before what the guarantee was computed from.
LEMMA KeptByPacket ==
  ASSUME NEW r \in Ranks, NEW s \in Neighbours(r), NEW d, NEW delay \in Nat,
         NEW list, HasEvents(list, r, FALSE) \/ HasEvents(list, r, TRUE),
         NEW now \in Nat, IsAhead(list, r, now), NEW safe \in Nat, NEW handling,
         list # <<>>, NEW k \in DOMAIN list, IsEnd(list[k], d),
         NEW e \in EventType, IsNull(e, s), e.ts = now + NullDelay(r, s)
  PROVE  IsKept(Guarantee(list, safe, delay), s, d, delay,
                Insert(CancelNullEvent(list, s), e), now, safe, handling)
<1> DEFINE g == Guarantee(list, safe, delay)
           left == CancelNullEvent(list, s)
           new == Insert(left, e)
<1>1. list \in Seq(EventType) /\ OneNullIn(list, s)
  BY DEF HasEvents
<1>2. /\ g \in Nat /\ g <= Head(list).ts + delay /\ Head(list).ts \in Nat
      /\ \A i \in DOMAIN list : Head(list).ts <= list[i].ts /\ list[i].ts \in Nat
  BY <1>1, GuaranteeIsLeast, TailOrdered, ListTimes, Tails DEF IsAhead
<1>3. \A i \in DOMAIN list : g <= list[i].ts + delay
  BY <1>2
<1>4. g <= e.ts + delay
  <2>1. PICK i \in DOMAIN list : IsNull(list[i], s)
    BY <1>1 DEF OneNullIn
  <2>2. list[i].ts <= now + NullDelay(r, s) /\ NullDelay(r, s) \in Nat
    BY <2>1, Delayed DEF IsAhead
  <2>3. QED
    BY <1>2, <1>3, <2>2
<1>5. /\ left \in Seq(EventType) /\ DOMAIN left = DOMAIN list
      /\ \A i \in DOMAIN list :
           IF IsNull(list[i], s) THEN left[i].ts = list[i].ts /\ left[i].kind = "cancelled"
           ELSE left[i] = list[i]
  BY <1>1, Cancels
<1> HIDE DEF left, g
<1>6. /\ \A i \in DOMAIN new : new[i] = e \/ \E j \in DOMAIN left : new[i] = left[j]
      /\ \A j \in DOMAIN left : \E i \in DOMAIN new : new[i] = left[j]
  BY <1>5, InsertElements
<1> HIDE DEF new
<1>7. \A j \in DOMAIN left : g <= left[j].ts + delay
  BY <1>3, <1>5
<1>8. \A i \in DOMAIN new : g <= new[i].ts + delay
  BY <1>4, <1>6, <1>7
<1>9. \E i \in DOMAIN new : IsEnd(new[i], d)
  <2>1. k \in DOMAIN left /\ left[k] = list[k]
    BY <1>5 DEF IsEnd, IsNull
  <2>2. QED
    BY <1>6, <2>1
<1>10. QED
  BY <1>8, <1>9 DEF IsKept, new, left, g

\* The guarantee sent by a null event holds as long as the rank is between two events.
LEMMA KeptByNullMessage ==
  ASSUME NEW s, NEW d, NEW delay \in Nat, NEW left \in Seq(EventType), left # <<>>, Ordered(left),
         NEW now, NEW safe \in Nat, NEW e \in EventType, IsNull(e, s)
  PROVE  IsKept(Guarantee(left, safe, delay), s, d, delay, Insert(left, e), now, safe, FALSE)
<1> DEFINE g == Guarantee(left, safe, delay)
           new == Insert(left, e)
<1>1. /\ g \in Nat /\ g <= Head(left).ts + delay /\ g <= safe + delay /\ Head(left).ts \in Nat
      /\ \A i \in DOMAIN left : Head(left).ts <= left[i].ts /\ left[i].ts \in Nat
  BY GuaranteeIsLeast, TailOrdered, ListTimes, Tails
<1>2. \A i \in DOMAIN left : g <= left[i].ts + delay
  BY <1>1
<1>3. \A i \in DOMAIN new : new[i] = e \/ \E j \in DOMAIN left : new[i] = left[j]
  BY InsertElements
<1> HIDE DEF g, new
<1>4. \A i \in DOMAIN new : ~IsNull(new[i], s) => g <= new[i].ts + delay
  BY <1>2, <1>3
<1>5. QED
  BY <1>1, <1>4 DEF IsKept, g, new

\* A null event for s gives no smaller guarantee than the ones before.
LEMMA NullMessageGrows ==
  ASSUME NEW g \in Nat, NEW r \in Ranks, NEW s, NEW d, NEW delay \in Nat,
         NEW list \in Seq(EventType), list # <<>>,
         NEW now \in Nat, IsAhead(list, r, now), NEW safe \in Nat, now <= safe,
         Head(list).ts <= safe, IsNull(Head(list), s),
         Tail(list) # <<>>, NoNullIn(Tail(list), s),
         IsKept(g, s, d, delay, list, now, safe, FALSE)
  PROVE  g <= Guarantee(Tail(list), safe, delay)
<1> DEFINE left == Tail(list)
           h == Head(list)
<1>1. left \in Seq(EventType) /\ h \in EventType /\ h.ts \in Nat /\ 1 \in DOMAIN list /\ h = list[1]
  BY Tails, ListTimes
<1>2. 1 \in DOMAIN left /\ Head(left) = left[1] /\ Head(left).ts \in Nat
  BY <1>1, Tails, ListTimes
<1>3. PICK k \in DOMAIN list : Head(left) = list[k]
  BY <1>2, TailElements
<1>4. h.ts <= Head(left).ts
  BY <1>3, TailOrdered DEF IsAhead
<1>5. ~IsNull(list[k], s)
  BY <1>2, <1>3 DEF NoNullIn
<1>6. now <= h.ts
  BY TailIsAhead
<1>7. Guarantee(left, safe, delay) \in {Head(left).ts + delay, safe + delay}
  BY <1>1, GuaranteeIsLeast
<1> HIDE DEF left, h
<1>8. CASE g <= h.ts + delay
  BY <1>1, <1>2, <1>4, <1>7, <1>8 DEF left, h
<1>9. CASE g <= now + delay
  <2>1. g <= h.ts + delay
    BY <1>1, <1>6, <1>9
  <2>2. QED
    BY <1>8, <2>1
<1>10. CASE \A i \in DOMAIN list : IsEnd(list[i], d) \/ IsNull(list[i], s) => g <= list[i].ts + delay
  <2>1. g <= h.ts + delay
    BY <1>1, <1>10 DEF h
  <2>2. QED
    BY <1>8, <2>1
<1>11. CASE /\ g <= safe + delay
            /\ \A i \in DOMAIN list : ~IsNull(list[i], s) => g <= list[i].ts + delay
  <2>1. g <= Head(left).ts + delay
    BY <1>3, <1>5, <1>11
  <2>2. QED
    BY <1>7, <1>11, <2>1 DEF left
<1>12. QED
  BY <1>9, <1>10, <1>11 DEF IsKept

\* So does a packet on an idle device.
LEMMA PacketGrows ==
  ASSUME NEW g \in Nat, NEW r, NEW d, NEW s, NEW delay \in Nat,
         NEW before, \A i \in DOMAIN before : ~IsEnd(before[i], d),
         NEW list \in Seq(EventType), list # <<>>, NEW now \in Nat, IsAhead(list, r, now),
         NEW safe \in Nat, now <= safe, IsKept(g, s, d, delay, before, now, safe, TRUE)
  PROVE  g <= now + delay /\ g <= Guarantee(list, safe, delay)
<1>1. g <= now + delay
  BY DEF IsKept
<1>2. Head(list).ts \in Nat /\ 1 \in DOMAIN list /\ Head(list) = list[1]
  BY Tails, ListTimes
<1>3. now <= Head(list).ts
  BY <1>2 DEF IsAhead
<1>4. Guarantee(list, safe, delay) \in {Head(list).ts + delay, safe + delay}
  BY GuaranteeIsLeast
<1>5. QED
  BY <1>1, <1>2, <1>3, <1>4

--------------------------------------------------------------------------------
(* Clocks, guarantees and promises of all ranks *)

OrderInv == TypeInv /\ Clocks /\ Rising /\ Promises

\* A step of r leaves the state of the other ranks as it is.
OthersStay(r) ==
  \A q \in Ranks \ {r} :
    /\ events'[q] = events[q] /\ currentTs'[q] = currentTs[q]
    /\ safeTime'[q] = safeTime[q] /\ pc'[q] = pc[q]
    /\ \A s \in Neighbours(q) : guaranteeTime'[q][s] = guaranteeTime[q][s]

LEMMA ClocksChange ==
  ASSUME Clocks, NEW r \in Ranks, OthersStay(r),
         IsAhead(events'[r], r, currentTs'[r]), currentTs'[r] <= safeTime'[r],
         \A s \in Neighbours(r) : safeTime'[r] <= guaranteeTime'[r][s]
  PROVE  Clocks'
<1>1. ASSUME NEW q \in Ranks
      PROVE  /\ IsAhead(events'[q], q, currentTs'[q]) /\ currentTs'[q] <= safeTime'[q]
             /\ \A s \in Neighbours(q) : safeTime'[q] <= guaranteeTime'[q][s]
  <2>1. CASE q = r
    BY <2>1
  <2>2. CASE q # r
    <3>1. /\ events'[q] = events[q] /\ currentTs'[q] = currentTs[q] /\ safeTime'[q] = safeTime[q]
          /\ \A s \in Neighbours(q) : guaranteeTime'[q][s] = guaranteeTime[q][s]
      BY <2>2 DEF OthersStay
    <3>2. /\ IsAhead(events[q], q, currentTs[q]) /\ currentTs[q] <= safeTime[q]
          /\ \A s \in Neighbours(q) : safeTime[q] <= guaranteeTime[q][s]
      BY DEF Clocks
    <3>3. QED
      BY <3>1, <3>2
  <2>3. QED
    BY <2>1, <2>2
<1>2. QED
  BY <1>1 DEF Clocks

LEMMA PromisesChange ==
  ASSUME Promises, NEW r \in Ranks, OthersStay(r),
         \A d \in Devices \ DevicesOf(r) :
           Given(RankOf[d], RemoteOf[d])' \subseteq Given(RankOf[d], RemoteOf[d]),
         \A d \in DevicesOf(r) : \A g \in Given(r, RemoteOf[d])' : Keeps(g, d)'
  PROVE  Promises'
<1>1. ASSUME NEW d \in Devices, NEW g \in Given(RankOf[d], RemoteOf[d])' PROVE Keeps(g, d)'
  <2>1. CASE RankOf[d] = r
    BY <2>1 DEF DevicesOf
  <2>2. CASE RankOf[d] # r
    <3>1. RankOf[d] \in Ranks \ {r} /\ d \in Devices \ DevicesOf(r)
      BY <2>2, DevicesAssumption DEF DevicesOf
    <3>2. Keeps(g, d)
      BY <1>1, <3>1 DEF Promises
    <3>3. /\ events'[RankOf[d]] = events[RankOf[d]] /\ currentTs'[RankOf[d]] = currentTs[RankOf[d]]
          /\ safeTime'[RankOf[d]] = safeTime[RankOf[d]] /\ pc'[RankOf[d]] = pc[RankOf[d]]
      BY <3>1 DEF OthersStay
    <3>4. QED
      BY <3>2, <3>3 DEF Keeps
  <2>3. QED
    BY <2>1, <2>2
<1>2. QED
  BY <1>1 DEF Promises

\* What is known of a rank, its neighbours and the guarantees between them.
LEMMA RankTypes ==
  ASSUME OrderInv, NEW r \in Ranks
  PROVE  /\ events[r] \in Seq(EventType) /\ HasEvents(events[r], r, stop[r]) /\ stop[r] \in BOOLEAN
         /\ currentTs[r] \in Nat /\ safeTime[r] \in Nat /\ currentTs[r] <= safeTime[r]
         /\ IsAhead(events[r], r, currentTs[r])
         /\ guaranteeTime[r] \in [Neighbours(r) -> Nat]
         /\ \A s \in Neighbours(r) :
              /\ s \in Ranks /\ r \in Neighbours(s) /\ s # r
              /\ guaranteeTime[r][s] \in Nat /\ safeTime[r] <= guaranteeTime[r][s]
              /\ channel[s][r] \in Seq(MessageType) /\ IsRising(guaranteeTime[r][s], channel[s][r])
              /\ channel[r][s] \in Seq(MessageType) /\ IsRising(guaranteeTime[s][r], channel[r][s])
              /\ Given(r, s) \in SUBSET Nat
<1>1. TypeInv /\ Types /\ Lists /\ Clocks /\ Rising
  BY DEF OrderInv, TypeInv
<1>2. \A s \in Neighbours(r) : s \in Ranks /\ r \in Neighbours(s) /\ s # r
  <2>1. \A s \in Neighbours(r) : s # r
    BY DevicesAssumption DEF Neighbours, DevicesOf
  <2>2. QED
    BY <2>1, NeighboursAreRanks
<1>3. ASSUME NEW s \in Neighbours(r) PROVE Given(r, s) \in SUBSET Nat
  <2>1. guaranteeTime[s][r] \in Nat /\ channel[r][s] \in Seq(MessageType)
    BY <1>1, <1>2 DEF Types
  <2>2. \A i \in DOMAIN channel[r][s] : channel[r][s][i] \in MessageType
    BY <2>1, LenProperties, ElementOfSeq
  <2>3. QED
    BY <2>1, <2>2 DEF Given, GuaranteesOf, MessageType
<1>4. QED
  BY <1>1, <1>2, <1>3 DEF Types, Lists, Clocks, Rising

\* A step that sends and receives nothing.
LEMMA LocalStep ==
  ASSUME OrderInv, TypeInv', NEW r \in Ranks, OthersStay(r), UNCHANGED <<guaranteeTime, channel>>,
         IsAhead(events'[r], r, currentTs'[r]), currentTs'[r] <= safeTime'[r],
         \A s \in Neighbours(r) : safeTime'[r] <= guaranteeTime[r][s],
         \A d \in DevicesOf(r) : \A g \in Given(r, RemoteOf[d]) : Keeps(g, d) => Keeps(g, d)'
  PROVE  OrderInv'
<1>1. Clocks /\ Rising /\ Promises
  BY DEF OrderInv
<1>2. Clocks'
  BY <1>1, ClocksChange
<1>3. Rising'
  BY <1>1 DEF Rising
<1>4. \A s, t : Given(s, t)' = Given(s, t)
  BY DEF Given
<1>5. \A d \in DevicesOf(r) : \A g \in Given(r, RemoteOf[d])' : Keeps(g, d)'
  <2>1. ASSUME NEW d \in DevicesOf(r), NEW g \in Given(r, RemoteOf[d])' PROVE Keeps(g, d)'
    <3>1. d \in Devices /\ RankOf[d] = r /\ g \in Given(r, RemoteOf[d])
      BY <1>4 DEF DevicesOf
    <3>2. Keeps(g, d)
      BY <1>1, <3>1 DEF Promises
    <3>3. QED
      BY <3>1, <3>2
  <2>2. QED
    BY <2>1
<1>6. Promises'
  BY <1>1, <1>4, <1>5, PromisesChange
<1>7. QED
  BY <1>2, <1>3, <1>6 DEF OrderInv

\* The devices of a rank, and what it promised to send on one.
LEMMA DeviceTypes ==
  ASSUME OrderInv, NEW r \in Ranks, NEW d \in DevicesOf(r)
  PROVE  /\ d \in Devices /\ RankOf[d] = r /\ RemoteOf[d] \in Neighbours(r)
         /\ BundleDelay(r, RemoteOf[d]) \in Nat
         /\ \A g \in Given(r, RemoteOf[d]) : g \in Nat /\ Keeps(g, d)
<1>1. d \in Devices /\ RankOf[d] = r /\ RemoteOf[d] \in Neighbours(r)
  BY DEF DevicesOf, Neighbours
<1>2. \A g \in Given(r, RemoteOf[d]) : Keeps(g, d)
  BY <1>1 DEF OrderInv, Promises
<1>3. QED
  BY <1>1, <1>2, RankTypes, Delayed

\* An event that sends nothing is taken.
LEMMA TakeKeeps ==
  ASSUME OrderInv, TypeInv', NEW r \in Ranks, NEW K, "null" \notin K, Runs(r, K),
         events' = [events EXCEPT ![r] = Tail(@)],
         \E k \in {"handler", "polling"} : pc' = [pc EXCEPT ![r] = k],
         UNCHANGED <<safeTime, guaranteeTime, channel>>
  PROVE  OrderInv'
<1> DEFINE list == events[r]
           h == Head(list)
<1>1. Types /\ Lists
  BY DEF OrderInv, TypeInv
<1>2. /\ list \in Seq(EventType) /\ list # <<>> /\ h.kind # "null" /\ h.ts \in Nat
      /\ h.ts <= safeTime[r] /\ currentTs'[r] = h.ts
      /\ \A q \in Ranks \ {r} : currentTs'[q] = currentTs[q]
  <2>1. /\ list \in Seq(EventType) /\ list # <<>> /\ h.kind \in K /\ h.ts \in Nat
        /\ h.ts <= safeTime[r] /\ currentTs'[r] = h.ts
        /\ \A q \in Ranks \ {r} : currentTs'[q] = currentTs[q]
    BY <1>1, HeadTaken
  <2>2. h.kind # "null"
    BY <2>1
  <2>3. QED
    BY <2>1, <2>2
<1>3. /\ IsAhead(list, r, currentTs[r]) /\ currentTs[r] \in Nat /\ safeTime[r] \in Nat
      /\ \A s \in Neighbours(r) : safeTime[r] <= guaranteeTime[r][s]
  BY RankTypes
<1>4. currentTs[r] <= h.ts /\ IsAhead(Tail(list), r, h.ts)
  BY <1>2, <1>3, TailIsAhead
<1>5. /\ events'[r] = Tail(list) /\ \A q \in Ranks \ {r} : events'[q] = events[q]
      /\ pc[r] = "loop" /\ pc'[r] \in {"handler", "polling"}
      /\ \A q \in Ranks \ {r} : pc'[q] = pc[q]
  BY <1>1 DEF Types, Runs
<1>6. OthersStay(r)
  BY <1>2, <1>5 DEF OthersStay
<1>7. ASSUME NEW d \in DevicesOf(r), NEW g \in Given(r, RemoteOf[d]), Keeps(g, d) PROVE Keeps(g, d)'
  <2> DEFINE s == RemoteOf[d]
             delay == BundleDelay(r, s)
  <2>1. g \in Nat /\ delay \in Nat /\ RankOf[d] = r
    BY DeviceTypes
  <2>2. IsKept(g, s, d, delay, list, currentTs[r], safeTime[r], FALSE)
    BY <1>5, <1>7, <2>1 DEF Keeps
  <2>3. ~IsNull(h, s)
    BY <1>2 DEF IsNull
  <2> HIDE DEF s, delay, h, list
  <2>4. IsKept(g, s, d, delay, Tail(list), h.ts, safeTime[r], pc'[r] = "handler")
    BY <1>2, <1>3, <1>4, <2>1, <2>2, <2>3, KeptByTaking DEF h
  <2>5. QED
    BY <1>2, <1>5, <2>1, <2>4 DEF Keeps, s, delay
<1>8. QED
  BY <1>2, <1>3, <1>4, <1>5, <1>6, <1>7, LocalStep

\* A message that guarantees no less than those before it.
LEMMA MessageRises ==
  ASSUME OrderInv, NEW r \in Ranks, NEW s \in Neighbours(r), NEW m \in MessageType,
         SendsMessage(r, s, m), guaranteeTime' = guaranteeTime,
         \A x \in Given(r, s) : x <= m.guarantee, m.rxTime > 0 => m.guarantee <= m.rxTime
  PROVE  /\ Rising' /\ Given(r, s)' = Given(r, s) \cup {m.guarantee}
         /\ \A d \in Devices : RankOf[d] # r \/ RemoteOf[d] # s =>
              Given(RankOf[d], RemoteOf[d])' = Given(RankOf[d], RemoteOf[d])
<1> DEFINE ms == channel[r][s]
<1>1. Types /\ Rising
  BY DEF OrderInv, TypeInv
<1>2. /\ s \in Ranks /\ r \in Neighbours(s) /\ ms \in Seq(MessageType)
      /\ guaranteeTime[s][r] \in Nat /\ IsRising(guaranteeTime[s][r], ms)
  BY RankTypes, <1>1, NeighboursAreRanks DEF Types
<1>3. /\ channel'[r][s] = Append(ms, m)
      /\ \A a \in Ranks : \A b \in Neighbours(a) : <<a, b>> # <<r, s>> => channel'[a][b] = channel[a][b]
  BY <1>1, SendTyped
<1>4. IsRising(guaranteeTime[s][r], channel'[r][s]) /\ Given(r, s)' = Given(r, s) \cup {m.guarantee}
  <2>1. \A x \in GuaranteesOf(guaranteeTime[s][r], ms) : x <= m.guarantee
    BY DEF Given
  <2>2. IsRising(guaranteeTime[s][r], Append(ms, m))
        /\ GuaranteesOf(guaranteeTime[s][r], Append(ms, m))
             = GuaranteesOf(guaranteeTime[s][r], ms) \cup {m.guarantee}
    BY <1>2, <2>1, RisingAppend
  <2>3. QED
    BY <1>3, <2>2 DEF Given
<1>5. Rising'
  <2>1. ASSUME NEW a \in Ranks, NEW b \in Neighbours(a)
        PROVE IsRising(guaranteeTime'[a][b], channel'[b][a])
    <3>1. b \in Ranks /\ a \in Neighbours(b) /\ guaranteeTime'[a][b] = guaranteeTime[a][b]
          /\ IsRising(guaranteeTime[a][b], channel[b][a])
      BY <1>1, NeighboursAreRanks DEF Rising
    <3>2. CASE <<b, a>> = <<r, s>>
      BY <1>4, <3>1, <3>2
    <3>3. CASE <<b, a>> # <<r, s>>
      BY <1>3, <3>1, <3>3
    <3>4. QED
      BY <3>2, <3>3
  <2>2. QED
    BY <2>1 DEF Rising
<1>6. ASSUME NEW d \in Devices, RankOf[d] # r \/ RemoteOf[d] # s
      PROVE Given(RankOf[d], RemoteOf[d])' = Given(RankOf[d], RemoteOf[d])
  <2>1. RankOf[d] \in Ranks /\ RemoteOf[d] \in Neighbours(RankOf[d])
    BY DevicesAssumption DEF Neighbours, DevicesOf
  <2>2. channel'[RankOf[d]][RemoteOf[d]] = channel[RankOf[d]][RemoteOf[d]]
    BY <1>3, <1>6, <2>1
  <2>3. QED
    BY <2>2 DEF Given
<1>7. QED
  BY <1>4, <1>5, <1>6

LEMMA NullKeeps ==
  ASSUME OrderInv, TypeInv', NEW r \in Ranks, NullMessageEventHandler(r)
  PROVE  OrderInv'
<1> DEFINE list == events[r]
           h == Head(list)
           left == Tail(list)
<1>1. TypeInv /\ Types /\ Lists /\ Clocks /\ Rising /\ Promises /\ Runs(r, {"null"})
  BY DEF OrderInv, TypeInv, NullMessageEventHandler
<1>2. /\ list \in Seq(EventType) /\ list # <<>> /\ h.ts \in Nat
      /\ h.ts <= safeTime[r] /\ currentTs'[r] = h.ts
      /\ \A q \in Ranks \ {r} : currentTs'[q] = currentTs[q]
  BY <1>1, HeadTaken
<1>2a. PICK s \in Neighbours(r) : s = h.of
  BY <1>1, NullMessageSent
<1> DEFINE delay == BundleDelay(r, s)
           g == Guarantee(left, safeTime[r], delay)
           e == NullEvent(h.ts + NullDelay(r, s), s)
           new == Insert(left, e)
           ms == channel[r][s]
<1>3. /\ s \in Neighbours(r) /\ IsNull(h, s)
      /\ left \in Seq(EventType) /\ left # <<>> /\ NoNullIn(left, s)
      /\ g \in Nat /\ e \in EventType /\ IsNull(e, s) /\ e.ts = h.ts + NullDelay(r, s)
      /\ SendsMessage(r, s, Message(0, g)) /\ events' = [events EXCEPT ![r] = new]
  BY <1>1, <1>2a, NullMessageSent
<1>4. /\ IsAhead(list, r, currentTs[r]) /\ currentTs[r] \in Nat /\ safeTime[r] \in Nat
      /\ currentTs[r] <= safeTime[r] /\ \A t \in Neighbours(r) : safeTime[r] <= guaranteeTime[r][t]
  BY RankTypes
<1>5. /\ events'[r] = new /\ \A q \in Ranks \ {r} : events'[q] = events[q]
      /\ pc[r] = "loop" /\ pc'[r] = "polling" /\ \A q \in Ranks \ {r} : pc'[q] = pc[q]
      /\ UNCHANGED <<safeTime, guaranteeTime>>
  BY <1>1, <1>3 DEF Types, Runs, NullMessageEventHandler
<1>6. OthersStay(r)
  BY <1>2, <1>5 DEF OthersStay
<1>7. /\ s \in Ranks /\ r \in Neighbours(s) /\ s # r /\ ms \in Seq(MessageType)
      /\ guaranteeTime[s][r] \in Nat /\ IsRising(guaranteeTime[s][r], ms) /\ Given(r, s) \in SUBSET Nat
  BY <1>3, RankTypes
<1>8. delay \in Nat /\ NullDelay(r, s) \in Nat
  BY <1>3, Delayed
<1>9. currentTs[r] <= h.ts /\ IsAhead(left, r, h.ts)
  BY <1>2, <1>4, TailIsAhead
<1>10. Message(0, g) \in MessageType /\ Message(0, g).rxTime = 0 /\ Message(0, g).guarantee = g
  BY <1>3, MessageTyped
<1>11. /\ channel'[r][s] = Append(ms, Message(0, g))
       /\ \A a \in Ranks : \A b \in Neighbours(a) : <<a, b>> # <<r, s>> => channel'[a][b] = channel[a][b]
  BY <1>1, <1>3, <1>10, SendTyped
<1>12. PICK d0 \in DevicesOf(r) : RemoteOf[d0] = s
  BY <1>3 DEF Neighbours
<1> HIDE DEF list, h, left, delay, g, e, new, ms
<1>13. ASSUME NEW x \in Given(r, s) PROVE x <= g
  <2>1. x \in Nat /\ Keeps(x, d0) /\ RankOf[d0] = r
    BY <1>12, DeviceTypes
  <2>2. IsKept(x, s, d0, delay, list, currentTs[r], safeTime[r], FALSE)
    BY <1>5, <1>12, <2>1 DEF Keeps, delay, list
  <2>3. QED
    BY <1>2, <1>3, <1>4, <1>8, <2>1, <2>2, NullMessageGrows DEF g, left, h
<1>14. IsAhead(new, r, h.ts)
  <2>1. ASSUME NEW t \in Neighbours(r), IsNull(e, t) PROVE e.ts <= h.ts + NullDelay(r, t)
    <3>1. t = s
      BY <1>3, <2>1 DEF IsNull
    <3>2. QED
      BY <1>2, <1>3, <1>8, <3>1
  <2>2. h.ts <= e.ts
    BY <1>2, <1>3, <1>8
  <2>3. QED
    BY <1>2, <1>3, <1>9, <2>1, <2>2, InsertIsAhead DEF new
<1>15. Clocks'
  BY <1>1, <1>2, <1>4, <1>5, <1>6, <1>14, ClocksChange
<1>16. /\ Rising' /\ Given(r, s)' = Given(r, s) \cup {g}
       /\ \A d \in Devices : RankOf[d] # r \/ RemoteOf[d] # s =>
            Given(RankOf[d], RemoteOf[d])' = Given(RankOf[d], RemoteOf[d])
  BY <1>3, <1>5, <1>10, <1>13, MessageRises
<1>19. ASSUME NEW d \in DevicesOf(r), NEW x \in Given(r, RemoteOf[d])
       PROVE Keeps(x, d)'
  <2> DEFINE t == RemoteOf[d]
             D == BundleDelay(r, t)
  <2>1. x \in Nat /\ D \in Nat /\ RankOf[d] = r /\ t \in Neighbours(r) /\ Keeps(x, d)
    BY <1>19, DeviceTypes
  <2>2. IsKept(x, t, d, D, list, currentTs[r], safeTime[r], FALSE)
    BY <1>5, <2>1 DEF Keeps, list
  <2>3. /\ \A j \in DOMAIN left : \E i \in DOMAIN new : new[i] = left[j]
        /\ \A i \in DOMAIN new : new[i] = e \/ \E j \in DOMAIN left : new[i] = left[j]
    BY <1>3, InsertElements DEF new
  <2>4. e.kind = "null" /\ (IsNull(e, t) <=> IsNull(h, t))
    BY <1>3 DEF IsNull
  <2>5. \A i \in DOMAIN new :
          \/ \E j \in DOMAIN left : new[i] = left[j]
          \/ new[i].kind = "null" /\ (IsNull(new[i], t) <=> IsNull(h, t))
    BY <2>3, <2>4
  <2> HIDE DEF t, D
  <2>6. IsKept(x, t, d, D, new, h.ts, safeTime[r], FALSE)
    BY <1>2, <1>4, <1>9, <2>1, <2>2, <2>3, <2>5, KeptByTaking DEF h, left
  <2>7. QED
    BY <1>2, <1>5, <2>1, <2>6 DEF Keeps, D, t
<1>20. ASSUME NEW d \in DevicesOf(r), NEW x \in Given(r, RemoteOf[d])' PROVE Keeps(x, d)'
  <2>1. d \in Devices /\ RankOf[d] = r
    BY DeviceTypes
  <2>2. CASE x \in Given(r, RemoteOf[d])
    BY <1>19, <2>2
  <2>3. CASE x \notin Given(r, RemoteOf[d])
    <3>1. RemoteOf[d] = s /\ x = g
      BY <1>16, <1>20, <2>1, <2>3
    <3>2. Ordered(left)
      BY <1>9 DEF IsAhead
    <3>3. IsKept(g, s, d, delay, new, h.ts, safeTime[r], FALSE)
      BY <1>3, <1>4, <1>8, <3>2, KeptByNullMessage DEF g, new
    <3>4. QED
      BY <1>2, <1>5, <2>1, <3>1, <3>3 DEF Keeps, delay
  <2>4. QED
    BY <2>2, <2>3
<1>21. Promises'
  <2>1. \A d \in Devices \ DevicesOf(r) :
          Given(RankOf[d], RemoteOf[d])' \subseteq Given(RankOf[d], RemoteOf[d])
    BY <1>16 DEF DevicesOf
  <2>2. QED
    BY <1>1, <1>6, <1>20, <2>1, PromisesChange
<1>22. QED
  BY <1>15, <1>16, <1>21 DEF OrderInv

LEMMA PacketKeeps ==
  ASSUME OrderInv, TypeInv', OneDevicePerNeighbour, NEW r \in Ranks, NEW d0 \in DevicesOf(r),
         SendPacket(r, d0)
  PROVE  OrderInv'
<1>1. PICK s \in Neighbours(r) : s = RemoteOf[d0]
  BY DEF DevicesOf, Neighbours
<1> DEFINE now == currentTs[r]
           delay == BundleDelay(r, s)
           c == Event(now + TxTimeOf[d0], "txComplete", d0)
           list == Insert(events[r], c)
           g == Guarantee(list, safeTime[r], delay)
           m == Message(c.ts + DelayOf[d0], g)
           e == NullEvent(now + NullDelay(r, s), s)
           new == Insert(CancelNullEvent(list, s), e)
<1>2. TypeInv /\ Types /\ Clocks /\ Promises
  BY DEF OrderInv, TypeInv
<1>3. /\ c \in EventType /\ c.kind = "txComplete" /\ c.of = d0 /\ c.ts \in Nat
      /\ c.ts = now + TxTimeOf[d0]
      /\ list \in Seq(EventType) /\ list # <<>> /\ HasEvents(list, r, stop[r])
      /\ g \in Nat /\ e \in EventType /\ IsNull(e, s) /\ e.ts = now + NullDelay(r, s)
      /\ c.ts + DelayOf[d0] \in Nat
      /\ SendsMessage(r, s, m) /\ events' = [events EXCEPT ![r] = new]
  BY <1>1, <1>2, PacketSent
<1>4. /\ events[r] \in Seq(EventType) /\ IsAhead(events[r], r, now) /\ now \in Nat
      /\ safeTime[r] \in Nat /\ stop[r] \in BOOLEAN
      /\ now <= safeTime[r] /\ \A t \in Neighbours(r) : safeTime[r] <= guaranteeTime[r][t]
  BY RankTypes
<1>5. /\ events'[r] = new /\ \A q \in Ranks \ {r} : events'[q] = events[q]
      /\ pc[r] = "handler" /\ UNCHANGED <<pc, currentTs, safeTime, guaranteeTime>>
      /\ \A i \in DOMAIN events[r] : ~IsEnd(events[r][i], d0)
  <2>1. events'[r] = new /\ \A q \in Ranks \ {r} : events'[q] = events[q]
    BY <1>2, <1>3 DEF Types
  <2>2. pc[r] = "handler" /\ UNCHANGED <<pc, currentTs, safeTime, guaranteeTime>> /\ IsReady(r, d0)
    BY DEF SendPacket
  <2>3. ASSUME NEW i \in DOMAIN events[r], IsEnd(events[r][i], d0) PROVE FALSE
    <3>1. events[r][i] \in EventType
      BY <1>4, ListTimes
    <3>2. events[r][i] = Event(events[r][i].ts, "txComplete", d0)
      BY <2>3, <3>1 DEF IsEnd, Event, EventType
    <3>3. QED
      BY <2>2, <3>2 DEF IsReady
  <2>4. QED
    BY <2>1, <2>2, <2>3
<1>6. OthersStay(r)
  BY <1>5 DEF OthersStay
<1>7. /\ d0 \in Devices /\ RankOf[d0] = r /\ delay \in Nat /\ NullDelay(r, s) \in Nat
      /\ delay <= DelayOf[d0] /\ DelayOf[d0] \in Nat /\ TxTimeOf[d0] \in Nat
  BY <1>1, DeviceTypes, Delayed, DevicesAssumption
<1>8. m \in MessageType /\ m.rxTime = c.ts + DelayOf[d0] /\ m.guarantee = g
  BY <1>3, MessageTyped
<1> HIDE DEF now, delay, c, list, g, m, e, new
<1>9. IsAhead(list, r, now)
  <2>1. now <= c.ts /\ \A t \in Neighbours(r) : ~IsNull(c, t)
    BY <1>3, <1>4, <1>7 DEF IsNull
  <2>2. QED
    BY <1>3, <1>4, <2>1, InsertIsAhead DEF list
<1>10. IsAhead(new, r, now)
  <2>1. ASSUME NEW t \in Neighbours(r), IsNull(e, t) PROVE e.ts <= now + NullDelay(r, t)
    <3>1. t = s
      BY <1>3, <2>1 DEF IsNull
    <3>2. QED
      BY <1>3, <1>4, <1>7, <3>1
  <2>2. now <= e.ts
    BY <1>3, <1>4, <1>7
  <2>3. IsAhead(CancelNullEvent(list, s), r, now) /\ CancelNullEvent(list, s) \in Seq(EventType)
    BY <1>3, <1>4, <1>9, CancelIsAhead, Cancels
  <2>4. QED
    BY <1>3, <1>4, <2>1, <2>2, <2>3, InsertIsAhead DEF new
<1>11. Clocks'
  BY <1>2, <1>4, <1>5, <1>6, <1>10, ClocksChange DEF now
<1>12. ASSUME NEW x \in Given(r, s) PROVE x \in Nat /\ x <= now + delay /\ x <= g
  <2>1. x \in Nat /\ Keeps(x, d0)
    BY <1>1, <1>12, DeviceTypes
  <2>2. IsKept(x, s, d0, delay, events[r], now, safeTime[r], TRUE)
    BY <1>1, <1>5, <1>7, <2>1 DEF Keeps, delay, now
  <2>3. QED
    BY <1>3, <1>4, <1>5, <1>7, <1>9, <2>1, <2>2, PacketGrows DEF g
<1>13. PICK k \in DOMAIN list : list[k] = c
  <2>1. c \in EventType /\ events[r] \in Seq(EventType)
    BY <1>3, <1>4
  <2>2. \E k \in DOMAIN Insert(events[r], c) : Insert(events[r], c)[k] = c
    BY <2>1, InsertElements
  <2>3. QED
    BY <2>2 DEF list
<1>14. g <= m.rxTime
  <2>1. g <= Head(list).ts + delay /\ Head(list).ts <= c.ts /\ Head(list).ts \in Nat
    BY <1>3, <1>4, <1>7, <1>9, <1>13, GuaranteeIsLeast, TailOrdered, ListTimes, Tails DEF g, IsAhead
  <2>2. QED
    BY <1>3, <1>7, <1>8, <2>1
<1>15. /\ Rising' /\ Given(r, s)' = Given(r, s) \cup {g}
       /\ \A d \in Devices : RankOf[d] # r \/ RemoteOf[d] # s =>
            Given(RankOf[d], RemoteOf[d])' = Given(RankOf[d], RemoteOf[d])
  BY <1>3, <1>5, <1>8, <1>12, <1>14, MessageRises
<1>16. ASSUME NEW x \in Given(r, s)' PROVE Keeps(x, d0)'
  <2>1. CASE x \in Given(r, s)
    <3>1. IsKept(x, s, d0, delay, new, now, safeTime[r], TRUE)
      BY <1>12, <2>1 DEF IsKept
    <3>2. QED
      BY <1>1, <1>5, <1>7, <3>1 DEF Keeps, delay, now
  <2>2. CASE x = g
    <3>1. IsEnd(list[k], d0)
      BY <1>3, <1>13 DEF IsEnd
    <3>2. HasEvents(list, r, FALSE) \/ HasEvents(list, r, TRUE)
      BY <1>3, <1>4
    <3>3. IsKept(g, s, d0, delay, new, now, safeTime[r], TRUE)
      BY <1>3, <1>4, <1>7, <1>9, <3>1, <3>2, KeptByPacket DEF g, new
    <3>4. QED
      BY <1>1, <1>5, <1>7, <2>2, <3>3 DEF Keeps, delay, now
  <2>3. QED
    BY <1>15, <1>16, <2>1, <2>2
<1>17. ASSUME NEW d \in DevicesOf(r), d # d0, NEW x \in Given(r, RemoteOf[d])' PROVE Keeps(x, d)'
  <2> DEFINE t == RemoteOf[d]
             D == BundleDelay(r, t)
  <2>1. d \in Devices /\ RankOf[d] = r /\ D \in Nat
    BY DeviceTypes
  <2>2. s # t
    BY <1>1, <1>7, <1>17, <2>1 DEF OneDevicePerNeighbour
  <2>3. x \in Given(r, t)
    BY <1>15, <1>17, <2>1, <2>2
  <2>4. x \in Nat /\ Keeps(x, d)
    BY <2>3, DeviceTypes
  <2>5. IsKept(x, t, d, D, events[r], now, safeTime[r], TRUE)
    BY <1>5, <2>1, <2>4 DEF Keeps, now
  <2> HIDE DEF t, D
  <2>6. IsKept(x, t, d, D, new, now, safeTime[r], TRUE)
    BY <1>3, <1>4, <1>17, <2>1, <2>2, <2>4, <2>5, KeptBySendingElsewhere DEF list, new
  <2>7. QED
    BY <1>5, <2>1, <2>6 DEF Keeps, D, t, now
<1>18. \A d \in DevicesOf(r) : \A x \in Given(r, RemoteOf[d])' : Keeps(x, d)'
  BY <1>1, <1>16, <1>17
<1>19. \A d \in Devices \ DevicesOf(r) :
         Given(RankOf[d], RemoteOf[d])' \subseteq Given(RankOf[d], RemoteOf[d])
  BY <1>15 DEF DevicesOf
<1>20. Promises'
  BY <1>2, <1>6, <1>18, <1>19, PromisesChange
<1>21. QED
  BY <1>11, <1>15, <1>20 DEF OrderInv

\* The message at the head of a channel is received: the guarantee grows, and the event of a
\* packet is not before the safe time.
LEMMA ReceiveKeeps ==
  ASSUME OrderInv, TypeInv', NEW r \in Ranks, NEW s \in Neighbours(r), Receives(r, s),
         pc[r] # "handler", pc' = pc,
         safeTime' = safeTime \/ safeTime' = [safeTime EXCEPT ![r] = SafeTime(guaranteeTime'[r])]
  PROVE  OrderInv'
<1> DEFINE ms == channel[s][r]
           m == Head(ms)
           e == Event(m.rxTime, "app", r)
           new == IF m.rxTime > 0 THEN Insert(events[r], e) ELSE events[r]
<1>1. TypeInv /\ Types /\ Rising /\ Clocks /\ Promises
  BY DEF OrderInv, TypeInv
<1>2. /\ s \in Ranks /\ r \in Neighbours(s)
      /\ ms \in Seq(MessageType) /\ ms # <<>> /\ m \in MessageType
      /\ m.rxTime \in Nat /\ m.guarantee \in Nat
      /\ e \in EventType /\ e.ts = m.rxTime /\ e.kind = "app"
      /\ events' = [events EXCEPT ![r] = new]
      /\ channel'[s][r] = Tail(ms)
      /\ \A a \in Ranks : \A b \in Neighbours(a) : <<a, b>> # <<s, r>> => channel'[a][b] = channel[a][b]
      /\ guaranteeTime'[r] \in [Neighbours(r) -> Nat]
      /\ guaranteeTime'[r][s] = m.guarantee
      /\ \A a \in Ranks : \A b \in Neighbours(a) :
           <<a, b>> # <<r, s>> => guaranteeTime'[a][b] = guaranteeTime[a][b]
  BY <1>1, MessageReceived
<1>3. /\ events[r] \in Seq(EventType) /\ IsAhead(events[r], r, currentTs[r]) /\ currentTs[r] \in Nat
      /\ safeTime[r] \in Nat /\ currentTs[r] <= safeTime[r] /\ s # r
      /\ \A t \in Neighbours(r) : guaranteeTime[r][t] \in Nat /\ safeTime[r] <= guaranteeTime[r][t]
      /\ guaranteeTime[r][s] \in Nat /\ IsRising(guaranteeTime[r][s], ms)
  BY RankTypes
<1>4. UNCHANGED currentTs
  BY DEF Receives
<1> HIDE DEF ms, m, e, new
<1>5. /\ IsRising(m.guarantee, Tail(ms))
      /\ GuaranteesOf(m.guarantee, Tail(ms)) \subseteq GuaranteesOf(guaranteeTime[r][s], ms)
      /\ guaranteeTime[r][s] <= m.guarantee
      /\ m.rxTime > 0 => m.guarantee <= m.rxTime
  BY <1>2, <1>3, RisingTail DEF m
<1>6. m.rxTime > 0 => safeTime[r] <= e.ts
  BY <1>2, <1>3, <1>5
<1>7. \A t \in Neighbours(r) : safeTime[r] <= guaranteeTime'[r][t]
  <2>1. ASSUME NEW t \in Neighbours(r) PROVE safeTime[r] <= guaranteeTime'[r][t]
    <3>1. CASE t = s
      BY <1>2, <1>3, <1>5, <3>1
    <3>2. CASE t # s
      BY <1>2, <1>3, <3>2
    <3>3. QED
      BY <3>1, <3>2
  <2>2. QED
    BY <2>1
<1>8. /\ safeTime'[r] \in Nat /\ safeTime[r] <= safeTime'[r]
      /\ \A t \in Neighbours(r) : safeTime'[r] <= guaranteeTime'[r][t]
      /\ \A q \in Ranks \ {r} : safeTime'[q] = safeTime[q]
  <2>1. CASE safeTime' = safeTime
    BY <1>3, <1>7, <2>1
  <2>2. CASE safeTime' = [safeTime EXCEPT ![r] = SafeTime(guaranteeTime'[r])]
    <3>1. /\ SafeTime(guaranteeTime'[r]) \in Nat
          /\ \E t \in Neighbours(r) : SafeTime(guaranteeTime'[r]) = guaranteeTime'[r][t]
          /\ \A t \in Neighbours(r) : SafeTime(guaranteeTime'[r]) <= guaranteeTime'[r][t]
      BY <1>2, SafeTimeIsLeast
    <3>2. safeTime'[r] = SafeTime(guaranteeTime'[r]) /\ \A q \in Ranks \ {r} : safeTime'[q] = safeTime[q]
      BY <1>1, <2>2 DEF Types
    <3>3. QED
      BY <1>7, <3>1, <3>2
  <2>3. QED
    BY <2>1, <2>2
<1>9. events'[r] = new /\ \A q \in Ranks \ {r} : events'[q] = events[q]
  BY <1>1, <1>2 DEF Types
<1>10. OthersStay(r)
  <2>1. \A q \in Ranks \ {r} : \A t \in Neighbours(q) : guaranteeTime'[q][t] = guaranteeTime[q][t]
    BY <1>2
  <2>2. QED
    BY <1>4, <1>8, <1>9, <2>1 DEF OthersStay
<1>11. IsAhead(new, r, currentTs[r])
  <2>1. CASE m.rxTime > 0
    <3>1. currentTs[r] <= e.ts /\ \A t \in Neighbours(r) : ~IsNull(e, t)
      BY <1>2, <1>3, <1>6, <2>1 DEF IsNull
    <3>2. QED
      BY <1>2, <1>3, <2>1, <3>1, InsertIsAhead DEF new
  <2>2. CASE ~(m.rxTime > 0)
    BY <1>3, <2>2 DEF new
  <2>3. QED
    BY <2>1, <2>2
<1>12. Clocks'
  <2>1. currentTs'[r] <= safeTime'[r]
    BY <1>3, <1>4, <1>8
  <2>2. QED
    BY <1>1, <1>4, <1>8, <1>9, <1>10, <1>11, <2>1, ClocksChange
<1>13. Rising'
  <2>1. ASSUME NEW a \in Ranks, NEW b \in Neighbours(a)
        PROVE IsRising(guaranteeTime'[a][b], channel'[b][a])
    <3>1. b \in Ranks /\ a \in Neighbours(b) /\ IsRising(guaranteeTime[a][b], channel[b][a])
      BY <1>1, NeighboursAreRanks DEF Rising
    <3>2. CASE a = r /\ b = s
      BY <1>2, <1>5, <3>2
    <3>3. CASE ~(a = r /\ b = s)
      BY <1>2, <3>1, <3>3
    <3>4. QED
      BY <3>2, <3>3
  <2>2. QED
    BY <2>1 DEF Rising
<1>14. ASSUME NEW d \in Devices
       PROVE Given(RankOf[d], RemoteOf[d])' \subseteq Given(RankOf[d], RemoteOf[d])
  <2>1. RankOf[d] \in Ranks /\ RemoteOf[d] \in Neighbours(RankOf[d])
        /\ RemoteOf[d] \in Ranks /\ RankOf[d] \in Neighbours(RemoteOf[d])
    BY DevicesAssumption DEF Neighbours, DevicesOf
  <2>2. CASE RankOf[d] = s /\ RemoteOf[d] = r
    BY <1>2, <1>5, <2>2 DEF Given, ms
  <2>3. CASE ~(RankOf[d] = s /\ RemoteOf[d] = r)
    <3>1. channel'[RankOf[d]][RemoteOf[d]] = channel[RankOf[d]][RemoteOf[d]]
          /\ guaranteeTime'[RemoteOf[d]][RankOf[d]] = guaranteeTime[RemoteOf[d]][RankOf[d]]
      BY <1>2, <2>1, <2>3
    <3>2. QED
      BY <3>1 DEF Given
  <2>4. QED
    BY <2>2, <2>3
<1>15. ASSUME NEW d \in DevicesOf(r), NEW x \in Given(r, RemoteOf[d])' PROVE Keeps(x, d)'
  <2> DEFINE t == RemoteOf[d]
             D == BundleDelay(r, t)
  <2>1. d \in Devices /\ RankOf[d] = r /\ D \in Nat
    BY DeviceTypes
  <2>2. x \in Given(r, t)
    BY <1>14, <1>15, <2>1
  <2>3. x \in Nat /\ Keeps(x, d)
    BY <2>2, DeviceTypes
  <2>4. IsKept(x, t, d, D, events[r], currentTs[r], safeTime[r], FALSE)
    BY <2>1, <2>3 DEF Keeps
  <2> HIDE DEF t, D
  <2>5. IsKept(x, t, d, D, new, currentTs[r], safeTime[r], FALSE)
    <3>1. CASE m.rxTime > 0
      BY <1>2, <1>3, <1>6, <2>1, <2>3, <2>4, <3>1, KeptByInserting DEF new
    <3>2. CASE ~(m.rxTime > 0)
      BY <2>4, <3>2 DEF new
    <3>3. QED
      BY <3>1, <3>2
  <2>6. IsKept(x, t, d, D, new, currentTs[r], safeTime'[r], FALSE)
    BY <1>3, <1>8, <2>1, <2>3, <2>5, KeptLater
  <2>7. QED
    BY <1>4, <1>9, <2>1, <2>6 DEF Keeps, D, t
<1>16. Promises'
  BY <1>1, <1>10, <1>14, <1>15, PromisesChange
<1>17. QED
  BY <1>12, <1>13, <1>16 DEF OrderInv

\* The program schedules an event, only from a handler.
LEMMA ScheduleKeeps ==
  ASSUME OrderInv, TypeInv', NEW r \in Ranks, Schedule(r)
  PROVE  OrderInv'
<1>1. PICK delay \in Delays : events' = [events EXCEPT ![r] = Insert(@, Event(currentTs[r] + delay, "app", r))]
  BY DEF Schedule
<1> DEFINE e == Event(currentTs[r] + delay, "app", r)
           new == Insert(events[r], e)
<1>2. /\ events[r] \in Seq(EventType) /\ IsAhead(events[r], r, currentTs[r]) /\ currentTs[r] \in Nat
      /\ safeTime[r] \in Nat /\ currentTs[r] <= safeTime[r]
      /\ \A s \in Neighbours(r) : safeTime[r] <= guaranteeTime[r][s]
  BY RankTypes
<1>3. delay \in Nat /\ currentTs[r] + delay \in Nat
  BY <1>2, TimesAssumption
<1>4. e \in EventType /\ e.kind = "app" /\ e.ts = currentTs[r] + delay
  BY <1>3, EventTyped DEF Kinds
<1>5. /\ events'[r] = new /\ \A q \in Ranks \ {r} : events'[q] = events[q]
      /\ pc[r] = "handler" /\ UNCHANGED <<pc, currentTs, safeTime, guaranteeTime, channel>>
  BY <1>1 DEF OrderInv, TypeInv, Types, Schedule
<1>6. OthersStay(r)
  BY <1>5 DEF OthersStay
<1> HIDE DEF e, new
<1>7. IsAhead(new, r, currentTs[r])
  <2>1. currentTs[r] <= e.ts /\ \A s \in Neighbours(r) : ~IsNull(e, s)
    BY <1>2, <1>3, <1>4 DEF IsNull
  <2>2. QED
    BY <1>2, <1>4, <2>1, InsertIsAhead DEF new
<1>8. ASSUME NEW d \in DevicesOf(r), NEW g \in Given(r, RemoteOf[d]), Keeps(g, d) PROVE Keeps(g, d)'
  <2> DEFINE t == RemoteOf[d]
             D == BundleDelay(r, t)
  <2>1. g \in Nat /\ D \in Nat /\ RankOf[d] = r
    BY DeviceTypes
  <2>2. IsKept(g, t, d, D, events[r], currentTs[r], safeTime[r], TRUE)
    BY <1>5, <1>8, <2>1 DEF Keeps
  <2> HIDE DEF t, D
  <2>3. IsKept(g, t, d, D, new, currentTs[r], safeTime[r], TRUE)
    BY <1>2, <1>4, <2>1, <2>2, KeptByInserting DEF new
  <2>4. QED
    BY <1>5, <2>1, <2>3 DEF Keeps, D, t
<1>9. IsAhead(events'[r], r, currentTs'[r]) /\ currentTs'[r] <= safeTime'[r]
      /\ \A s \in Neighbours(r) : safeTime'[r] <= guaranteeTime[r][s]
  BY <1>2, <1>5, <1>7
<1>10. QED
  BY <1>5, <1>6, <1>8, <1>9, LocalStep

\* A handler returns, Run returns, or polling ends with a safe time that is not smaller.
LEMMA WaitKeeps ==
  ASSUME OrderInv, TypeInv', NEW r \in Ranks, HandlerReturns(r) \/ RunReturns(r) \/ EndPolling(r)
  PROVE  OrderInv'
<1>1. /\ UNCHANGED <<events, currentTs, guaranteeTime, channel>>
      /\ pc'[r] # "handler" /\ \A q \in Ranks \ {r} : pc'[q] = pc[q]
  BY DEF OrderInv, TypeInv, Types, HandlerReturns, RunReturns, EndPolling
<1>2. /\ IsAhead(events[r], r, currentTs[r]) /\ currentTs[r] \in Nat
      /\ safeTime[r] \in Nat /\ currentTs[r] <= safeTime[r]
      /\ guaranteeTime[r] \in [Neighbours(r) -> Nat]
      /\ \A s \in Neighbours(r) : safeTime[r] <= guaranteeTime[r][s]
  BY RankTypes
<1>3. /\ safeTime'[r] \in Nat /\ safeTime[r] <= safeTime'[r]
      /\ \A s \in Neighbours(r) : safeTime'[r] <= guaranteeTime[r][s]
      /\ \A q \in Ranks \ {r} : safeTime'[q] = safeTime[q]
  <2>1. CASE safeTime' = safeTime
    BY <1>2, <2>1
  <2>2. CASE safeTime' = [safeTime EXCEPT ![r] = SafeTime(guaranteeTime[r])]
    <3>1. /\ SafeTime(guaranteeTime[r]) \in Nat
          /\ \E s \in Neighbours(r) : SafeTime(guaranteeTime[r]) = guaranteeTime[r][s]
          /\ \A s \in Neighbours(r) : SafeTime(guaranteeTime[r]) <= guaranteeTime[r][s]
      BY <1>2, SafeTimeIsLeast
    <3>2. safeTime'[r] = SafeTime(guaranteeTime[r]) /\ \A q \in Ranks \ {r} : safeTime'[q] = safeTime[q]
      BY <2>2 DEF OrderInv, TypeInv, Types
    <3>3. QED
      BY <1>2, <3>1, <3>2
  <2>3. QED
    BY <2>1, <2>2 DEF HandlerReturns, RunReturns, EndPolling
<1>4. OthersStay(r)
  BY <1>1, <1>3 DEF OthersStay
<1>5. ASSUME NEW d \in DevicesOf(r), NEW g \in Given(r, RemoteOf[d]), Keeps(g, d) PROVE Keeps(g, d)'
  <2> DEFINE t == RemoteOf[d]
             D == BundleDelay(r, t)
  <2>1. g \in Nat /\ D \in Nat /\ RankOf[d] = r
    BY DeviceTypes
  <2>2. IsKept(g, t, d, D, events[r], currentTs[r], safeTime[r], pc[r] = "handler")
    BY <1>5, <2>1 DEF Keeps
  <2> HIDE DEF t, D
  <2>3. IsKept(g, t, d, D, events[r], currentTs[r], safeTime'[r], pc'[r] = "handler")
    BY <1>1, <1>2, <1>3, <2>1, <2>2, KeptLater
  <2>4. QED
    BY <1>1, <2>1, <2>3 DEF Keeps, D, t
<1>6. currentTs'[r] <= safeTime'[r]
  BY <1>1, <1>2, <1>3
<1>7. QED
  BY <1>1, <1>2, <1>3, <1>4, <1>5, <1>6, LocalStep

LEMMA OrderInit == Init => OrderInv
<1> SUFFICES ASSUME Init PROVE OrderInv
  OBVIOUS
<1>1. TypeInv
  BY TypesInit
<1>2. ASSUME NEW r \in Ranks
      PROVE  /\ events[r] \in Agendas(r) /\ currentTs[r] = 0 /\ safeTime[r] = 0
             /\ \A s \in Neighbours(r) :
                  /\ guaranteeTime[r][s] = 0 /\ BundleDelay(r, s) \in Nat
                  /\ channel[r][s] = <<Message(0, BundleDelay(r, s))>>
  BY Delayed DEF Init
<1>3. Clocks
  <2>1. ASSUME NEW r \in Ranks
        PROVE  /\ IsAhead(events[r], r, currentTs[r]) /\ currentTs[r] <= safeTime[r]
               /\ \A s \in Neighbours(r) : safeTime[r] <= guaranteeTime[r][s]
    <3>1. events[r] \in Agendas(r) /\ currentTs[r] = 0 /\ safeTime[r] = 0
          /\ \A s \in Neighbours(r) : guaranteeTime[r][s] = 0
      BY <1>2
    <3>2. IsAhead(events[r], r, 0)
      BY <3>1, AgendaIsList
    <3>3. QED
      BY <3>1, <3>2
  <2>2. QED
    BY <2>1 DEF Clocks
<1>4. ASSUME NEW s \in Ranks, NEW r \in Neighbours(s)
      PROVE  /\ IsRising(guaranteeTime[r][s], channel[s][r])
             /\ Given(s, r) = {0, BundleDelay(s, r)}
  <2> DEFINE D == BundleDelay(s, r)
             ms == channel[s][r]
  <2>1. r \in Ranks /\ s \in Neighbours(r)
    BY NeighboursAreRanks
  <2>2. /\ D \in Nat /\ guaranteeTime[r][s] = 0 /\ ms = <<Message(0, D)>>
        /\ Message(0, D).rxTime = 0 /\ Message(0, D).guarantee = D
    BY <1>2, <2>1, MessageTyped
  <2>3. DOMAIN ms = {1} /\ ms[1] = Message(0, D)
    BY <2>2
  <2> HIDE DEF D, ms
  <2>4. IsRising(0, ms)
    BY <2>2, <2>3 DEF IsRising
  <2>5. GuaranteesOf(0, ms) = {0, D}
    BY <2>2, <2>3 DEF GuaranteesOf
  <2>6. QED
    BY <2>2, <2>4, <2>5 DEF Given, ms, D
<1>5. Rising
  BY <1>4, NeighboursAreRanks DEF Rising
<1>6. ASSUME NEW d \in Devices, NEW g \in Given(RankOf[d], RemoteOf[d]) PROVE Keeps(g, d)
  <2>1. RankOf[d] \in Ranks /\ RemoteOf[d] \in Neighbours(RankOf[d])
    BY DevicesAssumption DEF Neighbours, DevicesOf
  <2>2. currentTs[RankOf[d]] = 0 /\ BundleDelay(RankOf[d], RemoteOf[d]) \in Nat
    BY <1>2, <2>1
  <2>3. g <= 0 + BundleDelay(RankOf[d], RemoteOf[d])
    BY <1>4, <1>6, <2>1, <2>2
  <2>4. QED
    BY <2>2, <2>3 DEF Keeps, IsKept
<1>7. QED
  BY <1>1, <1>3, <1>5, <1>6 DEF OrderInv, Promises

LEMMA OrderPreserved ==
  ASSUME OneDevicePerNeighbour
  PROVE  OrderInv /\ [Next]_vars => OrderInv'
<1> SUFFICES ASSUME OrderInv, [Next]_vars PROVE OrderInv'
  OBVIOUS
<1>1. TypeInv /\ TypeInv'
  BY TypesPreserved DEF OrderInv
<1>2. ASSUME NEW r \in Ranks, RunStop(r) \/ RunCancelled(r) \/ RunHandler(r) PROVE OrderInv'
  <2>1. PICK K \in {{"stop"}, {"cancelled"}, {"app", "txComplete"}} : Runs(r, K)
    BY <1>2 DEF RunStop, RunCancelled, RunHandler
  <2>2. "null" \notin K
    BY <2>1
  <2>3. QED
    BY <1>1, <1>2, <2>1, <2>2, TakeKeeps DEF RunStop, RunCancelled, RunHandler
<1>3. ASSUME NEW r \in Ranks, NEW s \in Neighbours(r),
             ReceiveMessagesNonBlocking(r, s) \/ ReceiveMessagesBlocking(r, s)
      PROVE OrderInv'
  BY <1>1, <1>3, ReceiveKeeps DEF ReceiveMessagesNonBlocking, ReceiveMessagesBlocking
<1>4. CASE UNCHANGED vars
  <2>1. Clocks' /\ Rising'
    BY <1>4 DEF vars, OrderInv, Clocks, Rising
  <2>2. Promises'
    BY <1>4 DEF vars, OrderInv, Promises, Given, Keeps
  <2>3. QED
    BY <1>1, <2>1, <2>2 DEF OrderInv
<1>5. QED
  BY <1>1, <1>2, <1>3, <1>4, NullKeeps, PacketKeeps, ScheduleKeeps, WaitKeeps DEF Next, RunStep

LEMMA OrderInvariant == OneDevicePerNeighbour => (Spec => []OrderInv)
<1> SUFFICES ASSUME OneDevicePerNeighbour PROVE Spec => []OrderInv
  OBVIOUS
<1>1. QED
  BY OrderInit, OrderPreserved, PTL DEF Spec

\* One device to a neighbour is enough for what remote-channel-bundle.h says of a guarantee,
\* with any number of ranks: a rank gives one only for the least of its next event and its
\* safe time, and while it transmits it has none to break.
THEOREM GuaranteeKeptHolds == OneDevicePerNeighbour => (Spec => []GuaranteeKept)
<1>1. OrderInv => GuaranteeKept
  <2> SUFFICES ASSUME OrderInv, NEW r \in Ranks, NEW s \in Neighbours(r),
                      NEW i \in DOMAIN channel[s][r], channel[s][r][i].rxTime > 0
               PROVE  /\ channel[s][r][i].rxTime >= guaranteeTime[r][s]
                      /\ \A j \in 1..i : channel[s][r][i].rxTime >= channel[s][r][j].guarantee
    BY DEF GuaranteeKept
  <2> DEFINE ms == channel[s][r]
  <2>1. ms \in Seq(MessageType) /\ IsRising(guaranteeTime[r][s], ms) /\ guaranteeTime[r][s] \in Nat
    BY RankTypes
  <2> HIDE DEF ms
  <2>2. DOMAIN ms = 1..Len(ms) /\ Len(ms) \in Nat /\ \A j \in 1..Len(ms) : ms[j] \in MessageType
    BY <2>1, LenProperties, ElementOfSeq
  <2>3. i \in 1..Len(ms) /\ \A j \in 1..i : j \in 1..Len(ms)
    BY <2>2 DEF ms
  <2>4. /\ ms[i].rxTime \in Nat /\ ms[i].guarantee \in Nat
        /\ \A j \in 1..i : ms[j].guarantee \in Nat
    BY <2>2, <2>3 DEF MessageType
  <2>5. /\ guaranteeTime[r][s] <= ms[i].guarantee /\ ms[i].guarantee <= ms[i].rxTime
        /\ \A j \in 1..i : ms[j].guarantee <= ms[i].guarantee
    BY <2>1, <2>2, <2>3 DEF IsRising, ms
  <2>6. QED
    BY <2>1, <2>4, <2>5 DEF ms
<1> SUFFICES ASSUME OneDevicePerNeighbour PROVE Spec => []GuaranteeKept
  OBVIOUS
<1>2. QED
  BY OrderInvariant, <1>1, PTL

\* And nothing reaches a rank from its past: no event in its list, no message on its way to
\* it, however the messages of different neighbours are delayed against each other.
THEOREM NoneInThePastHolds == OneDevicePerNeighbour => (Spec => []NoneInThePast)
<1>1. OrderInv => NoneInThePast
  <2> SUFFICES ASSUME OrderInv, NEW r \in Ranks
               PROVE  /\ \A i \in DOMAIN events[r] : events[r][i].ts >= currentTs[r]
                      /\ safeTime[r] >= currentTs[r]
                      /\ \A s \in Neighbours(r) : \A i \in DOMAIN channel[s][r] :
                           LET m == channel[s][r][i] IN
                           m.guarantee >= currentTs[r] /\ (m.rxTime > 0 => m.rxTime >= currentTs[r])
    BY DEF NoneInThePast
  <2>1. /\ events[r] \in Seq(EventType) /\ IsAhead(events[r], r, currentTs[r]) /\ currentTs[r] \in Nat
        /\ safeTime[r] \in Nat /\ currentTs[r] <= safeTime[r]
    BY RankTypes
  <2>2. \A i \in DOMAIN events[r] : events[r][i].ts >= currentTs[r]
    BY <2>1, ListTimes DEF IsAhead
  <2>3. ASSUME NEW s \in Neighbours(r), NEW i \in DOMAIN channel[s][r]
        PROVE  /\ channel[s][r][i].guarantee >= currentTs[r]
               /\ channel[s][r][i].rxTime > 0 => channel[s][r][i].rxTime >= currentTs[r]
    <3> DEFINE ms == channel[s][r]
    <3>1. /\ ms \in Seq(MessageType) /\ IsRising(guaranteeTime[r][s], ms)
          /\ guaranteeTime[r][s] \in Nat /\ safeTime[r] <= guaranteeTime[r][s]
      BY RankTypes
    <3> HIDE DEF ms
    <3>2. i \in DOMAIN ms /\ ms[i] \in MessageType
      BY <2>3, <3>1, LenProperties, ElementOfSeq DEF ms
    <3>3. /\ guaranteeTime[r][s] <= ms[i].guarantee
          /\ ms[i].rxTime > 0 => ms[i].guarantee <= ms[i].rxTime
      BY <3>1, <3>2 DEF IsRising
    <3>4. ms[i].rxTime \in Nat /\ ms[i].guarantee \in Nat
      BY <3>2 DEF MessageType
    <3>5. QED
      BY <2>1, <3>1, <3>3, <3>4 DEF ms
  <2>4. QED
    BY <2>1, <2>2, <2>3
<1> SUFFICES ASSUME OneDevicePerNeighbour PROVE Spec => []NoneInThePast
  OBVIOUS
<1>2. QED
  BY OrderInvariant, <1>1, PTL
================================================================================
