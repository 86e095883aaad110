-------------------------- MODULE StatsWindowProofs --------------------------
(***************************************************************************)
(* Theorems about StatsWindow, for windows of any length, trades of any    *)
(* time in any order, and any number of failures: what the ring holds,     *)
(* what a seed may double, how the long windows join the short ones, and   *)
(* when a row is fresh.                                                    *)
(***************************************************************************)
EXTENDS StatsWindow, TLAPS, FiniteSetTheorems, SequenceTheorems, WellFoundedInduction

(* Every variable has its type.                                            *)
LogType ==
  /\ trades \in Seq([ts : Times, price : Prices])
  /\ Len(trades) <= MaxTrades /\ projected \in 0..Len(trades)

StatsType ==
  /\ now \in Nat /\ LogType
  /\ queue \in Seq(Published) /\ Len(queue) <= Buffer
  /\ feed \in {"down", "up", "evicted"}
  /\ window # None => window \in Windows /\ window.last \in Times
  /\ sweep # None => sweep \in Sweeps
  /\ swept \in BOOLEAN
  /\ faults \in 0..MaxFaults /\ restarts \in 0..MaxRestarts
  /\ given \in Counts /\ overrun \in SUBSET Published

(* A sweep is over before a second one is due.                             *)
TimeInv ==
  sweep # None =>
    /\ feed # "down" /\ window # None
    /\ sweep.at <= now /\ now <= sweep.at + 1 /\ (swept => sweep.at = now)

(* Only a seed gives a trade that comes, or came, over the feed as well.   *)
GivenTo(w, g) ==
  /\ w.seededAt <= projected
  /\ \A i \in Ids : /\ g[i] <= 2 /\ (g[i] > 0 => i \in Published)
                    /\ g[i] = 2 => w.seeded /\ i <= w.seededAt
  /\ \A k \in 1..Len(queue) : g[queue[k]] > 0 =>
       g[queue[k]] = 1 /\ w.seeded /\ queue[k] <= w.seededAt

GivenInv ==
  /\ \A j, k \in 1..Len(queue) : j < k => queue[j] < queue[k]
  /\ IF window = None THEN \A i \in Ids : given[i] = 0 ELSE GivenTo(window, given)

(* Buckets hold trades of their own second, none more often than given.    *)
SlotsOwn(w, g) ==
  \A k \in 0..(W - 1) :
    /\ w.ring[k].start % W = k \/ w.ring[k].start = 0
    /\ \A i \in Ids : w.ring[k].count[i] > 0 =>
         i \in Published /\ w.ring[k].start = trades[i].ts /\ w.ring[k].count[i] <= g[i]

Holds(w, i, n) ==
  LET b == w.ring[trades[i].ts % W] IN b.start = trades[i].ts /\ b.count[i] = n

(* Trades that are younger than 5m are in the ring as often as they were   *)
(* given, and were not ahead of the clock then, but for those of o.        *)
Young(i) == trades[i].ts > now - W

RingOf(w, g, o) ==
  /\ SlotsOwn(w, g)
  /\ \A i \in Published : g[i] > 0 /\ Young(i) /\ i \notin o =>
       trades[i].ts <= now /\ Holds(w, i, g[i])

RingInv == window # None => RingOf(window, given, overrun)

(* What the minute view gave to a record at time `at`.                     *)
InView(i, at) ==
  /\ trades[i].price # "null"
  /\ MinuteOf(trades[i].ts) >= at - L /\ MinuteOf(trades[i].ts) < at - W

LongOf(long, loaded, at) ==
  \A i \in Ids :
    /\ long[i] \in {0, 1}
    /\ long[i] = 1 => i \in Published /\ InView(i, at)
    /\ i <= loaded /\ InView(i, at) => long[i] = 1

SweepInv ==
  sweep # None => sweep.loaded <= projected /\ LongOf(sweep.long, sweep.loaded, sweep.at)

(* What a record shows of each trade, by the trade's age.                  *)
RowOf(r) ==
  \A i \in Ids :
    /\ r.m1[i] <= r.m5[i] /\ r.h24[i] \in {r.m5[i], r.m5[i] + 1}
    /\ i \notin Published => r.h24[i] = 0
    /\ i \in Published =>
         LET age == r.at - trades[i].ts IN
         /\ r.m5[i] > 0 => 0 <= age /\ age < W
         /\ age <= W - M \/ trades[i].price = "null" => r.h24[i] = r.m5[i]
         /\ age > W /\ age <= L - M /\ i <= r.loaded /\ trades[i].price # "null"
              => r.h24[i] = 1
         /\ age > L => r.h24[i] = 0

RowInv ==
  row # None => row \in Records /\ row.at <= now /\ row.loaded <= projected /\ RowOf(row)

AllPriced == \A i \in Published : Priced(i) /\ trades[i].ts > 0

(* A tracked window has written the row in the minute it remembers.        *)
TrackInv ==
  window # None /\ faults = 0 /\ AllPriced =>
    /\ HasRecord(window)
    /\ window.minute > 0 =>
         /\ row # None /\ MinuteOf(row.at) = window.minute
         /\ swept /\ sweep = None => window.minute = MinuteOf(now)

StatsInv ==
  StatsType /\ TimeInv /\ GivenInv /\ RingInv /\ SweepInv /\ RowInv /\ TrackInv

-----------------------------------------------------------------------------
(* Seconds and slots.  A number is a multiple of the divisor and its       *)
(* remainder.                                                              *)
LEMMA ModParts ==
  ASSUME NEW n \in Nat \ {0}, NEW a \in Int
  PROVE  \E q \in Int, r \in 0..(n - 1) : a = q * n + r /\ a % n = r /\ a \div n = q
<1>1. a \div n \in Int /\ a = (a \div n) * n + (a % n) /\ a % n \in Int /\ 0 <= a % n /\ a % n < n
  BY SMT
<1> QED
  BY <1>1

(* Seconds of one slot differ by a multiple of W.                          *)
LEMMA SlotApart ==
  ASSUME NEW n \in Nat \ {0}, NEW a \in Int, NEW b \in Int, a % n = b % n
  PROVE  \E q \in Int : a - b = q * n
<1>1. PICK q1 \in Int, r1 \in 0..(n - 1) : a = q1 * n + r1 /\ a % n = r1
  BY ModParts
<1>2. PICK q2 \in Int, r2 \in 0..(n - 1) : b = q2 * n + r2 /\ b % n = r2
  BY ModParts
<1>3. r1 = r2
  BY <1>1, <1>2
<1>4. a - b = (q1 - q2) * n
  <2> HIDE <1>1, <1>2
  <2>1. a = q1 * n + r1 /\ b = q2 * n + r1
    BY <1>1, <1>2, <1>3
  <2>2. r1 \in Int
    OBVIOUS
  <2> QED
    BY <2>1, <2>2
<1> QED
  BY <1>4

(* So two that are less than W apart are the same.                         *)
LEMMA SlotOne ==
  ASSUME NEW n \in Nat \ {0}, NEW a \in Int, NEW b \in Int, a % n = b % n,
         a - b < n, b - a < n
  PROVE  a = b
<1>1. PICK q \in Int : a - b = q * n
  BY SlotApart
<1>2. q * n < n /\ q * n > 0 - n
  BY <1>1
<1>3. q = 0
  BY <1>2
<1> QED
  BY <1>1, <1>3

(* The minute of a second began less than a minute before it.              *)
LEMMA MinuteBegan ==
  ASSUME NEW t \in Int
  PROVE  /\ MinuteOf(t) \in Int /\ MinuteOf(t) <= t /\ t < MinuteOf(t) + M
         /\ t >= 0 => MinuteOf(t) \in Nat
<1>1. M \in Nat \ {0}
  BY WindowAssumption
<1>2. PICK q \in Int, r \in 0..(M - 1) : t = q * M + r /\ t \div M = q
  BY <1>1, ModParts
<1>3. q * M \in Int /\ MinuteOf(t) = q * M
  BY <1>1, <1>2 DEF MinuteOf
<1>4. ASSUME t >= 0 PROVE q * M >= 0
  <2>1. CASE q <= -1
    <3>1. q * M <= -M
      BY <1>1, <2>1
    <3> QED
      BY <1>1, <1>2, <1>3, <1>4, <3>1
  <2>2. CASE q >= 0
    BY <1>1, <2>2
  <2> QED
    BY <2>1, <2>2
<1> QED
  BY <1>1, <1>2, <1>3, <1>4

-----------------------------------------------------------------------------
(* One trade in the ring.  What the log and the lengths are.               *)
LEMMA Lengths ==
  /\ W \in Nat /\ M \in Nat /\ L \in Nat /\ Buffer \in Nat
  /\ W > 1 /\ M > 0 /\ M <= W /\ W <= L /\ Buffer > 0
  /\ Start \in Nat /\ Times \subseteq Int
  /\ MaxTrades \in Nat /\ MaxNow \in Nat /\ MaxFaults \in Nat /\ MaxRestarts \in Nat
BY WindowAssumption

LEMMA TradeIs ==
  ASSUME LogType, NEW i \in Published
  PROVE  /\ i \in Ids /\ trades[i].ts \in Times /\ trades[i].ts \in Int
         /\ trades[i].price \in Prices /\ Priced(i) \in BOOLEAN
         /\ trades[i].ts % W \in 0..(W - 1)
<1>1. i \in Ids /\ trades[i] \in [ts : Times, price : Prices]
  <2>1. Len(trades) \in Nat /\ i \in 1..Len(trades) /\ Len(trades) <= MaxTrades
    BY DEF LogType, Published
  <2>2. trades[i] \in [ts : Times, price : Prices]
    BY <2>1, ElementOfSeq, Zenon DEF LogType
  <2> QED
    BY <2>1, <2>2, Lengths DEF Ids
<1>2. /\ trades[i].ts \in Times /\ trades[i].ts \in Int
      /\ trades[i].price \in Prices /\ Priced(i) \in BOOLEAN
  BY <1>1, Lengths DEF Priced
<1>3. trades[i].ts % W \in 0..(W - 1)
  BY <1>2, Lengths
<1> QED
  BY <1>1, <1>2, <1>3

(* BucketFor gives the slot to second t: its counts are kept if they are   *)
(* those of t, and begin at zero otherwise.                                *)
LEMMA BucketIs ==
  ASSUME NEW b \in Buckets, NEW t \in Int
  PROVE  /\ BucketFor(b, t) \in Buckets /\ BucketFor(b, t).start = t
         /\ \A j \in Ids : BucketFor(b, t).count[j] = IF b.start = t THEN b.count[j] ELSE 0
<1>1. CASE b.start = t
  BY <1>1 DEF BucketFor
<1>2. CASE b.start # t
  <2>1. Nothing \in Counts /\ \A j \in Ids : Nothing[j] = 0
    BY DEF Nothing, Counts
  <2>2. BucketFor(b, t) = [start |-> t, priced |-> b.priced, count |-> Nothing]
    BY <1>2 DEF BucketFor, Buckets
  <2> QED
    BY <1>2, <2>1, <2>2 DEF Buckets
<1> QED
  BY <1>1, <1>2

LEMMA CountIs ==
  ASSUME NEW b \in Buckets, NEW i \in Ids, Priced(i) \in BOOLEAN
  PROVE  /\ CountTrade(b, i) \in Buckets /\ CountTrade(b, i).start = b.start
         /\ \A j \in Ids : CountTrade(b, i).count[j] = b.count[j] + (IF j = i THEN 1 ELSE 0)
<1>1. b \in [start : Int, priced : BOOLEAN, count : [Ids -> Nat]]
  BY DEF Buckets, Counts
<1> DEFINE c == OneMore(b.count, i)
           p == Priced(i)
           d == [b EXCEPT !.priced = p, !.count = c]
<1>2. c \in [Ids -> Nat] /\ \A j \in Ids : c[j] = b.count[j] + (IF j = i THEN 1 ELSE 0)
  BY <1>1 DEF OneMore
<1>3. CountTrade(b, i) = d /\ p \in BOOLEAN
  BY DEF CountTrade
<1> HIDE DEF c, p
<1>4. /\ d.start = b.start /\ d.count = c
      /\ d \in [start : Int, priced : BOOLEAN, count : [Ids -> Nat]]
  BY <1>1, <1>2, <1>3
<1> HIDE DEF d
<1> QED
  BY <1>1, <1>2, <1>3, <1>4 DEF Buckets, Counts

(* AppendSecondBucket changes one slot, which becomes that of the trade's  *)
(* second, and there counts the trade.                                     *)
LEMMA AppendIs ==
  ASSUME LogType, NEW w \in Windows, NEW i \in Published
  PROVE  LET w1 == AppendSecondBucket(w, i)
             t == trades[i].ts
             k == t % W
         IN  /\ w1 \in Windows
             /\ w1.seeded = w.seeded /\ w1.seededAt = w.seededAt /\ w1.minute = w.minute
             /\ w1.last = t /\ w1.priced = Priced(i)
             /\ \A m \in 0..(W - 1) : m # k => w1.ring[m] = w.ring[m]
             /\ w1.ring[k].start = t
             /\ \A j \in Ids : w1.ring[k].count[j] =
                  (IF w.ring[k].start = t THEN w.ring[k].count[j] ELSE 0)
                  + (IF j = i THEN 1 ELSE 0)
<1> DEFINE t == trades[i].ts
           k == t % W
           b == BucketFor(w.ring[k], t)
           b1 == CountTrade(b, i)
           w1 == AppendSecondBucket(w, i)
<1>1. /\ i \in Ids /\ t \in Int /\ Priced(i) \in BOOLEAN /\ k \in 0..(W - 1)
  BY TradeIs
<1>2. w.ring \in [0..(W - 1) -> Buckets] /\ w.ring[k] \in Buckets
  BY <1>1 DEF Windows
<1>3. /\ b \in Buckets /\ b.start = t
      /\ \A j \in Ids : b.count[j] = IF w.ring[k].start = t THEN w.ring[k].count[j] ELSE 0
  <2> DEFINE c == w.ring[k]
  <2>1. t \in Int /\ c \in Buckets
    BY <1>1, <1>2
  <2> HIDE DEF t, k, c
  <2>2. /\ BucketFor(c, t) \in Buckets /\ BucketFor(c, t).start = t
        /\ \A j \in Ids : BucketFor(c, t).count[j] = IF c.start = t THEN c.count[j] ELSE 0
    BY <2>1, BucketIs
  <2> QED
    BY <2>2 DEF c
<1>4. w1 = [w EXCEPT !.last = t, !.priced = Priced(i), !.ring[k] = b1]
  BY DEF AppendSecondBucket
<1> HIDE DEF t, k, b, w1
<1>6. /\ b1 \in Buckets /\ b1.start = t
      /\ \A j \in Ids : b1.count[j] = b.count[j] + (IF j = i THEN 1 ELSE 0)
  BY <1>1, <1>3, CountIs
<1> HIDE DEF b1
<1>7. w \in [seeded : BOOLEAN, seededAt : Nat, last : Int, priced : BOOLEAN, minute : Nat,
             ring : [0..(W - 1) -> Buckets]]
  BY DEF Windows
<1>8. /\ w1.seeded = w.seeded /\ w1.seededAt = w.seededAt /\ w1.minute = w.minute
      /\ w1.last = t /\ w1.priced = Priced(i)
      /\ w1.ring = [w.ring EXCEPT ![k] = b1]
  BY <1>4, <1>7
<1>9. w1 \in Windows
  BY <1>1, <1>4, <1>6, <1>7 DEF Windows
<1>10. /\ \A m \in 0..(W - 1) : m # k => w1.ring[m] = w.ring[m]
       /\ w1.ring[k] = b1
  BY <1>1, <1>2, <1>8
<1> QED
  BY <1>3, <1>6, <1>8, <1>9, <1>10 DEF t, k, w1

(* The slot's new bucket holds trades of its own second alone.             *)
LEMMA AppendOwns ==
  ASSUME LogType, NEW w \in Windows, NEW i \in Published, NEW g \in Counts, SlotsOwn(w, g)
  PROVE  /\ OneMore(g, i) \in Counts
         /\ SlotsOwn(AppendSecondBucket(w, i), OneMore(g, i))
<1> DEFINE w1 == AppendSecondBucket(w, i)
           g1 == OneMore(g, i)
           t == trades[i].ts
           k == t % W
<1>1. /\ w1 \in Windows
      /\ \A m \in 0..(W - 1) : m # k => w1.ring[m] = w.ring[m]
      /\ w1.ring[k].start = t
      /\ \A j \in Ids : w1.ring[k].count[j] =
           (IF w.ring[k].start = t THEN w.ring[k].count[j] ELSE 0) + (IF j = i THEN 1 ELSE 0)
  BY AppendIs
<1>2. i \in Ids /\ t \in Int /\ k \in 0..(W - 1)
  BY TradeIs
<1>3. /\ g1 \in Counts
      /\ \A j \in Ids : g1[j] = g[j] + (IF j = i THEN 1 ELSE 0)
  BY <1>2 DEF OneMore, Counts
<1>4. \A j \in Ids : g[j] \in Nat
  BY DEF Counts
<1>5. \A m \in 0..(W - 1), j \in Ids : w.ring[m].count[j] \in Nat
  BY DEF Windows, Buckets, Counts
<1>6. \A m \in 0..(W - 1) :
        /\ w.ring[m].start % W = m \/ w.ring[m].start = 0
        /\ \A j \in Ids : w.ring[m].count[j] > 0 =>
             j \in Published /\ w.ring[m].start = trades[j].ts /\ w.ring[m].count[j] <= g[j]
  BY DEF SlotsOwn
<1>7. t % W = k
  OBVIOUS
<1>8. t = trades[i].ts
  OBVIOUS
<1> HIDE DEF w1, g1, t, k
<1>9. ASSUME NEW m \in 0..(W - 1)
      PROVE  /\ w1.ring[m].start % W = m \/ w1.ring[m].start = 0
             /\ \A j \in Ids : w1.ring[m].count[j] > 0 =>
                  j \in Published /\ w1.ring[m].start = trades[j].ts /\ w1.ring[m].count[j] <= g1[j]
  <2>1. CASE m # k
    <3>1. w1.ring[m] = w.ring[m]
      BY <1>1, <2>1
    <3>2. \A j \in Ids : g[j] <= g1[j] /\ g1[j] \in Nat
      BY <1>3, <1>4
    <3> QED
      BY <1>4, <1>5, <1>6, <3>1, <3>2
  <2>2. CASE m = k
    <3>1. w1.ring[m].start % W = m
      BY <1>1, <1>7, <2>2
    <3>2. ASSUME NEW j \in Ids, w1.ring[k].count[j] > 0
          PROVE  j \in Published /\ t = trades[j].ts /\ w1.ring[k].count[j] <= g1[j]
      <4>1. CASE j = i
        <5>1. w.ring[k].start = t => w.ring[k].count[j] <= g[j]
          BY <1>2, <1>4, <1>5, <1>6
        <5> QED
          BY <1>1, <1>2, <1>3, <1>4, <1>5, <1>8, <4>1, <5>1
      <4>2. CASE j # i
        <5>1. w1.ring[k].count[j] = IF w.ring[k].start = t THEN w.ring[k].count[j] ELSE 0
          BY <1>1, <1>2, <1>5, <4>2
        <5>2. w.ring[k].start = t /\ w.ring[k].count[j] > 0
              /\ w1.ring[k].count[j] = w.ring[k].count[j]
          BY <3>2, <5>1
        <5>3. g1[j] = g[j]
          BY <1>3, <1>4, <4>2
        <5> QED
          BY <1>2, <1>6, <5>2, <5>3
      <4> QED
        BY <4>1, <4>2
    <3> QED
      BY <1>1, <2>2, <3>1, <3>2
  <2> QED
    BY <2>1, <2>2
<1>10. SlotsOwn(w1, g1)
  BY <1>9 DEF SlotsOwn
<1> QED
  BY <1>3, <1>10 DEF w1, g1

(* The ring still holds the trades it held, but for those of o, if o has   *)
(* the young ones that an out-of-time trade takes the slot from.           *)
LEMMA AppendRing ==
  ASSUME LogType, now \in Nat, NEW w \in Windows, NEW g \in Counts, NEW o, RingOf(w, g, o),
         NEW i \in Published, \A j \in Overrun(g, {i}) : Young(j) => j \in o
  PROVE  OneMore(g, i) \in Counts /\ RingOf(AppendSecondBucket(w, i), OneMore(g, i), o)
<1> DEFINE w1 == AppendSecondBucket(w, i)
           g1 == OneMore(g, i)
           t == trades[i].ts
           k == t % W
<1>1. g1 \in Counts /\ SlotsOwn(w1, g1) /\ SlotsOwn(w, g)
  BY AppendOwns DEF RingOf
<1>2. /\ w1 \in Windows
      /\ \A m \in 0..(W - 1) : m # k => w1.ring[m] = w.ring[m]
      /\ w1.ring[k].start = t
      /\ \A j \in Ids : w1.ring[k].count[j] =
           (IF w.ring[k].start = t THEN w.ring[k].count[j] ELSE 0) + (IF j = i THEN 1 ELSE 0)
  BY AppendIs
<1>3. i \in Ids /\ t \in Int /\ k \in 0..(W - 1) /\ W \in Nat \ {0}
  BY TradeIs, Lengths
<1>4. \A j \in Ids : g[j] \in Nat /\ g1[j] = g[j] + (IF j = i THEN 1 ELSE 0)
  BY <1>3 DEF OneMore, Counts
<1>5. \A j \in Ids : w.ring[k].count[j] \in Nat
  BY <1>3 DEF Windows, Buckets, Counts
<1>6. ASSUME NEW j \in Published, g1[j] > 0, Young(j), j \notin o
      PROVE  trades[j].ts <= now /\ Holds(w1, j, g1[j])
  <2>1. j \in Ids /\ trades[j].ts \in Int /\ trades[j].ts % W \in 0..(W - 1)
    BY TradeIs
  <2>2. g[j] > 0 => trades[j].ts <= now /\ Holds(w, j, g[j])
    BY <1>6 DEF RingOf
  <2>3. CASE j = i
    <3>1. t <= now
      <4>1. SUFFICES ASSUME t > now PROVE FALSE
        BY <1>3
      <4>2. i \in Overrun(g, {i})
        BY <4>1 DEF Overrun, OutOfTime
      <4> QED
        BY <1>6, <2>3, <4>2
    <3>2. w1.ring[k].count[i] = g[i] + 1
      <4>1. CASE g[i] > 0
        BY <1>2, <1>3, <1>4, <2>2, <2>3, <4>1 DEF Holds
      <4>2. CASE g[i] = 0
        <5>1. w.ring[k].start = t => w.ring[k].count[i] = 0
          BY <1>1, <1>3, <1>5, <4>2 DEF SlotsOwn
        <5> QED
          BY <1>2, <1>3, <4>2, <5>1
      <4> QED
        BY <1>3, <1>4, <4>1, <4>2
    <3> QED
      BY <1>2, <1>3, <1>4, <2>3, <3>1, <3>2 DEF Holds
  <2>4. CASE j # i
    <3>1. g1[j] = g[j] /\ g[j] > 0 /\ trades[j].ts <= now /\ Holds(w, j, g[j])
      BY <1>4, <1>6, <2>1, <2>2, <2>4
    <3>2. CASE trades[j].ts % W # k
      BY <1>2, <2>1, <3>1, <3>2 DEF Holds
    <3>3. CASE trades[j].ts % W = k
      <4>1. ~OutOfTime(i)
        <5>1. SUFFICES ASSUME OutOfTime(i) PROVE FALSE
          OBVIOUS
        <5>2. j \in Overrun(g, {i})
          BY <3>1, <3>3, <5>1 DEF Overrun
        <5> QED
          BY <1>6, <5>2
      <4>2. trades[j].ts = t
        <5> DEFINE a == trades[j].ts
        <5>1. a > now - W /\ a <= now /\ t > now - W /\ t <= now
          BY <1>3, <1>6, <2>1, <3>1, <4>1 DEF Young, OutOfTime
        <5>2. a \in Int /\ a % W = t % W
          BY <2>1, <3>3
        <5> HIDE DEF a, t, k
        <5>3. a - t < W /\ t - a < W
          BY <1>3, <5>1, <5>2
        <5>4. a = t
          BY <1>3, <5>2, <5>3, SlotOne
        <5> QED
          BY <5>4 DEF a
      <4> QED
        BY <1>2, <1>5, <2>1, <2>4, <3>1, <3>3, <4>2 DEF Holds
    <3> QED
      BY <3>2, <3>3
  <2> QED
    BY <2>3, <2>4
<1> QED
  BY <1>1, <1>6 DEF RingOf

-----------------------------------------------------------------------------
(* The order in which the seed's query returns trades.                     *)
LEMMA EarlierOrders ==
  ASSUME LogType, NEW i \in Published, NEW j \in Published
  PROVE  /\ ~Earlier(i, i)
         /\ i # j => Earlier(i, j) \/ Earlier(j, i)
         /\ Earlier(i, j) => ~Earlier(j, i) /\ trades[i].ts <= trades[j].ts
         /\ \A h \in Published : Earlier(i, j) /\ Earlier(j, h) => Earlier(i, h)
<1>1. \A h \in Published : h \in Nat /\ trades[h].ts \in Int
  BY TradeIs, Lengths DEF Ids
<1> QED
  BY <1>1 DEF Earlier

(* The trades up to i, and how many they are: the place of i in S.         *)
UpTo(S, i) == {j \in S : ~Earlier(i, j)}
Place(S, i) == Cardinality(UpTo(S, i))

LEMMA PlaceType ==
  ASSUME LogType, NEW S \in SUBSET Published
  PROVE  /\ IsFiniteSet(S) /\ Cardinality(S) \in Nat
         /\ \A i \in S : Place(S, i) \in 1..Cardinality(S)
<1>1. IsFiniteSet(S) /\ Cardinality(S) \in Nat
  <2>1. IsFiniteSet(Published)
    <3>1. Len(trades) \in Nat
      BY DEF LogType
    <3> QED
      BY <3>1, FS_Interval DEF Published
  <2> QED
    BY <2>1, FS_Subset, FS_CardinalityType
<1>2. ASSUME NEW i \in S PROVE Place(S, i) \in 1..Cardinality(S)
  <2>1. UpTo(S, i) \in SUBSET S /\ i \in UpTo(S, i)
    BY EarlierOrders DEF UpTo
  <2>2. IsFiniteSet(UpTo(S, i)) /\ Place(S, i) <= Cardinality(S) /\ Place(S, i) \in Nat
    BY <1>1, <2>1, FS_Subset, FS_CardinalityType DEF Place
  <2>3. Place(S, i) # 0
    BY <2>1, <2>2, FS_EmptySet DEF Place
  <2> QED
    BY <1>1, <2>2, <2>3
<1> QED
  BY <1>1, <1>2

LEMMA PlaceGrows ==
  ASSUME LogType, NEW S \in SUBSET Published, NEW i \in S, NEW j \in S, Earlier(i, j)
  PROVE  Place(S, i) < Place(S, j)
<1>1. UpTo(S, i) \in SUBSET UpTo(S, j) /\ j \in UpTo(S, j) /\ j \notin UpTo(S, i)
  <2>1. ASSUME NEW h \in S, ~Earlier(i, h) PROVE ~Earlier(j, h)
    BY <2>1, EarlierOrders
  <2>2. ~Earlier(j, j)
    BY EarlierOrders
  <2> QED
    BY <2>1, <2>2 DEF UpTo
<1>2. IsFiniteSet(UpTo(S, j))
  <2>1. UpTo(S, j) \in SUBSET S
    BY DEF UpTo
  <2> QED
    BY <2>1, PlaceType, FS_Subset
<1>3. Place(S, i) <= Place(S, j) /\ Place(S, i) # Place(S, j)
  BY <1>1, <1>2, FS_Subset DEF Place
<1>4. Place(S, i) \in Nat /\ Place(S, j) \in Nat
  BY PlaceType
<1> QED
  BY <1>3, <1>4

LEMMA PlaceOne ==
  ASSUME LogType, NEW S \in SUBSET Published, NEW i \in S, NEW j \in S,
         Place(S, i) = Place(S, j)
  PROVE  i = j
<1>1. Place(S, i) \in Nat /\ Place(S, j) \in Nat
  BY PlaceType
<1>2. ~(Place(S, i) < Place(S, j)) /\ ~(Place(S, j) < Place(S, i))
  <2> DEFINE a == Place(S, i)
             b == Place(S, j)
  <2>1. a = b /\ a \in Nat
    BY <1>1
  <2> HIDE DEF a, b
  <2>2. ~(a < b) /\ ~(b < a)
    BY <2>1
  <2> QED
    BY <2>2 DEF a, b
<1>3. ~Earlier(i, j) /\ ~Earlier(j, i)
  BY <1>2, PlaceGrows
<1> QED
  BY <1>3, EarlierOrders

LEMMA PlaceOnto ==
  ASSUME LogType, NEW S \in SUBSET Published, NEW k \in 1..Cardinality(S)
  PROVE  \E i \in S : Place(S, i) = k
<1> DEFINE f == [i \in S |-> Place(S, i)]
           T == 1..Cardinality(S)
<1>1. f \in Injection(S, T)
  <2>1. f \in [S -> T]
    BY PlaceType
  <2>2. \A i, j \in S : f[i] = f[j] => i = j
    BY PlaceOne
  <2> HIDE DEF f, T
  <2> QED
    BY <2>1, <2>2 DEF Injection, IsInjective
<1>2. IsFiniteSet(T) /\ Cardinality(T) = Cardinality(S)
  <2>1. Cardinality(S) \in Nat
    BY PlaceType
  <2> QED
    BY <2>1, FS_Interval
<1>3. f \in Surjection(S, T)
  <2> HIDE DEF f, T
  <2> QED
    BY <1>1, <1>2, FS_Injection
<1>4. \E i \in S : f[i] = k
  <2>1. k \in T
    OBVIOUS
  <2> HIDE DEF f, T
  <2> QED
    BY <1>3, <2>1 DEF Surjection
<1> QED
  BY <1>4

(* InTimeOrder lists each trade of S once, in the order of Earlier.        *)
LEMMA InTimeOrderIs ==
  ASSUME LogType, NEW S \in SUBSET Published
  PROVE  LET s == InTimeOrder(S)
         IN  /\ Len(s) \in Nat
             /\ \A k \in 1..Len(s) : s[k] \in S
             /\ \A i \in S : \E k \in 1..Len(s) : s[k] = i
             /\ \A k, m \in 1..Len(s) : k < m => Earlier(s[k], s[m])
<1> DEFINE Nth(k) == CHOOSE i \in S : Place(S, i) = k
           s == InTimeOrder(S)
           N == Cardinality(S)
<1>1. N \in Nat /\ \A i \in S : Place(S, i) \in 1..N
  BY PlaceType
<1>2. s = [k \in 1..N |-> Nth(k)]
  BY DEF InTimeOrder, Place, UpTo
<1>3. \A k \in 1..N : Nth(k) \in S /\ Place(S, Nth(k)) = k
  BY PlaceOnto
<1> HIDE DEF Nth, s, N
<1>4. Len(s) = N /\ \A k \in 1..N : s[k] \in S /\ Place(S, s[k]) = k
  BY <1>1, <1>2, <1>3
<1>5. ASSUME NEW i \in S PROVE \E k \in 1..N : s[k] = i
  <2>1. Place(S, i) \in 1..N /\ s[Place(S, i)] \in S /\ Place(S, s[Place(S, i)]) = Place(S, i)
    BY <1>1, <1>4
  <2> QED
    BY <2>1, PlaceOne
<1>6. ASSUME NEW k \in 1..N, NEW m \in 1..N, k < m PROVE Earlier(s[k], s[m])
  <2>1. s[k] \in S /\ s[m] \in S /\ Place(S, s[k]) = k /\ Place(S, s[m]) = m
    BY <1>4
  <2>2. k \in Nat /\ m \in Nat /\ k # m /\ ~(m < k)
    BY <1>1, <1>6
  <2>3. s[k] # s[m]
    BY <2>1, <2>2
  <2>4. ~Earlier(s[m], s[k])
    <3>1. Earlier(s[m], s[k]) => Place(S, s[m]) < Place(S, s[k])
      BY <2>1, PlaceGrows
    <3> QED
      BY <2>1, <2>2, <3>1
  <2> QED
    BY <2>1, <2>3, <2>4, EarlierOrders
<1> QED
  BY <1>1, <1>4, <1>5, <1>6 DEF s

-----------------------------------------------------------------------------
(* A set of numbers has a least member, and what holds of 0 and passes on  *)
(* to the next number holds of all.                                        *)
LEMMA HasMinimum ==
  ASSUME NEW T \in SUBSET Nat, T # {}
  PROVE \E m \in T : \A n \in T : m <= n
<1>1. \E x \in T : \A y \in T : ~(<<y, x>> \in OpToRel(<, Nat))
  BY NatLessThanWellFounded, WFMin
<1>2. PICK m \in T : \A y \in T : ~(<<y, m>> \in OpToRel(<, Nat))
  BY <1>1
<1>3. \A y \in T : ~(y < m)
  BY <1>2 DEF OpToRel
<1> QED
  BY <1>3

LEMMA SetInduction ==
  ASSUME NEW G, 0 \in G, \A n \in Nat : n \in G => n + 1 \in G
  PROVE  Nat \subseteq G
<1> DEFINE T == Nat \ G
<1>1. SUFFICES ASSUME T # {} PROVE FALSE
  OBVIOUS
<1>2. PICK k \in T : \A n \in T : k <= n
  BY <1>1, HasMinimum
<1>3. k - 1 \in Nat /\ k - 1 \in G
  BY <1>2
<1> QED
  BY <1>2, <1>3

(* The equation of the recursive function of AppendAll has a solution up   *)
(* to every N.                                                             *)
AppendBody(f, w, ids, n) == IF n = 0 THEN w ELSE AppendSecondBucket(f[n - 1], ids[n])

LEMMA AppendExists ==
  ASSUME NEW w, NEW ids, NEW N \in Nat
  PROVE  \E f : f = [n \in 0..N |-> AppendBody(f, w, ids, n)]
<1> DEFINE F(k, f) == f = [n \in 0..k |-> AppendBody(f, w, ids, n)]
           G == {k \in Nat : \E f : F(k, f)}
<1>1. 0 \in G
  <2>1. F(0, [n \in 0..0 |-> w])
    BY DEF AppendBody
  <2> QED
    BY <2>1
<1>2. ASSUME NEW k \in Nat, k \in G PROVE k + 1 \in G
  <2>1. PICK g : F(k, g)
    BY <1>2
  <2> DEFINE h == [n \in 0..(k + 1) |-> IF n = k + 1 THEN AppendBody(g, w, ids, k + 1) ELSE g[n]]
  <2>2. ASSUME NEW n \in 0..(k + 1) PROVE h[n] = AppendBody(h, w, ids, n)
    <3>1. CASE n = k + 1
      <4>1. h[n - 1] = g[n - 1] /\ n # 0
        BY <3>1
      <4>2. h[n] = AppendBody(g, w, ids, n)
        BY <3>1
      <4> HIDE DEF h
      <4> QED
        BY <4>1, <4>2 DEF AppendBody
    <3>2. CASE n # k + 1
      <4>1. h[n] = g[n] /\ n \in 0..k /\ g[n] = AppendBody(g, w, ids, n)
        BY <2>1, <3>2
      <4>2. n # 0 => h[n - 1] = g[n - 1]
        BY <4>1
      <4> HIDE DEF h
      <4> QED
        BY <4>1, <4>2 DEF AppendBody
    <3> QED
      BY <3>1, <3>2
  <2>3. h = [n \in 0..(k + 1) |-> h[n]]
    OBVIOUS
  <2>4. F(k + 1, h)
    <3> HIDE DEF h
    <3> QED
      BY <2>2, <2>3
  <2> HIDE DEF h, F
  <2> QED
    BY <2>4
<1>3. Nat \subseteq G
  <2> HIDE DEF G
  <2> QED
    BY <1>1, <1>2, SetInduction
<1> QED
  BY <1>3

(* AppendAll appends one trade after the other.                            *)
LEMMA AppendAllSteps ==
  ASSUME NEW w, NEW ids, Len(ids) \in Nat
  PROVE  \E f : /\ AppendAll(w, ids) = f[Len(ids)]
                /\ f[0] = w
                /\ \A n \in 1..Len(ids) : f[n] = AppendSecondBucket(f[n - 1], ids[n])
<1> DEFINE N == Len(ids)
           C == CHOOSE f : f = [n \in 0..N |-> AppendBody(f, w, ids, n)]
<1>1. AppendAll(w, ids) = C[N]
  BY DEF AppendAll, AppendBody
<1>2. C = [n \in 0..N |-> AppendBody(C, w, ids, n)]
  <2>1. N \in Nat
    OBVIOUS
  <2> HIDE DEF N
  <2>2. \E f : f = [n \in 0..N |-> AppendBody(f, w, ids, n)]
    BY <2>1, AppendExists
  <2> QED
    BY <2>2
<1> HIDE DEF C
<1>3. \A n \in 0..N : C[n] = AppendBody(C, w, ids, n)
  BY <1>2
<1>4. C[0] = w /\ \A n \in 1..N : C[n] = AppendSecondBucket(C[n - 1], ids[n])
  BY <1>3 DEF AppendBody
<1> QED
  BY <1>1, <1>4

(* The trades that the seed has appended after n steps.                    *)
DoneBy(ids, n) == {ids[k] : k \in 1..n}

(* The last trade of w1 is that of w or another of the log.                *)
LastOf(w1, w) ==
  \/ w1.last = w.last /\ w1.priced = w.priced
  \/ \E i \in Published : w1.last = trades[i].ts /\ w1.priced = Priced(i)

(* The seed's loop keeps what the ring holds but for the trades that an    *)
(* out-of-time one of the seed overruns: those given before, and with one  *)
(* ahead of the clock those of the seed.  A late one comes before the      *)
(* young ones of the seed, and takes the slot from none of them.           *)
LEMMA SeedTradesRing ==
  ASSUME LogType, now \in Nat, NEW w \in Windows, NEW g \in Counts, NEW o, NEW since,
         RingOf(w, g, o)
  PROVE  LET w1 == SeedTrades(w, since)
             g1 == Given(g, Recent(since))
         IN  /\ w1 \in Windows /\ g1 \in Counts
             /\ RingOf(w1, g1, o \union Overrun(g, Recent(since)))
             /\ w1.seeded = w.seeded /\ w1.seededAt = w.seededAt /\ w1.minute = w.minute
             /\ LastOf(w1, w)
<1> DEFINE R == Recent(since)
           s == InTimeOrder(R)
           N == Len(s)
           o1 == o \union Overrun(g, R)
<1>1. R \in SUBSET Published
  BY DEF Recent, Published, LogType
<1>2. /\ N \in Nat
      /\ \A k \in 1..N : s[k] \in R
      /\ \A i \in R : \E k \in 1..N : s[k] = i
      /\ \A k, m \in 1..N : k < m => Earlier(s[k], s[m])
  <2> HIDE DEF R
  <2> QED
    BY <1>1, InTimeOrderIs
<1>3. SeedTrades(w, since) = AppendAll(w, s)
  BY DEF SeedTrades
<1> HIDE DEF R, s
<1>4. PICK f : /\ AppendAll(w, s) = f[N] /\ f[0] = w
               /\ \A n \in 1..N : f[n] = AppendSecondBucket(f[n - 1], s[n])
  BY <1>2, AppendAllSteps
<1> DEFINE P(n) ==
             LET h == Given(g, DoneBy(s, n))
             IN  /\ f[n] \in Windows /\ h \in Counts
                 /\ RingOf(f[n], h, o1)
                 /\ f[n].seeded = w.seeded /\ f[n].seededAt = w.seededAt
                 /\ f[n].minute = w.minute
                 /\ LastOf(f[n], w)
           G == {n \in Nat : n <= N => P(n)}
<1>5. 0 \in G
  <2>1. DoneBy(s, 0) = {}
    BY DEF DoneBy
  <2>2. Given(g, {}) = g
    BY DEF Given, Counts
  <2>3. RingOf(w, g, o1)
    BY DEF RingOf
  <2> HIDE DEF o1
  <2>4. P(0)
    BY <1>4, <2>1, <2>2, <2>3 DEF LastOf
  <2> QED
    BY <2>4
<1>6. ASSUME NEW n \in Nat, n \in G PROVE n + 1 \in G
  <2>1. SUFFICES ASSUME n + 1 <= N PROVE P(n + 1)
    OBVIOUS
  <2>2. P(n) /\ n + 1 \in 1..N
    BY <1>2, <1>6, <2>1
  <2> DEFINE i == s[n + 1]
             h == Given(g, DoneBy(s, n))
             w1 == f[n + 1]
  <2>3. i \in R /\ i \in Published /\ i \in Ids
    BY <1>1, <1>2, <2>2, TradeIs
  <2>4. w1 = AppendSecondBucket(f[n], i)
    <3>1. (n + 1) - 1 = n
      OBVIOUS
    <3> QED
      BY <1>4, <2>2, <3>1
  <2>5. \A j \in DoneBy(s, n) : j \in R /\ j \in Published /\ Earlier(j, i)
    <3>1. ASSUME NEW k \in 1..n PROVE s[k] \in R /\ s[k] \in Published /\ Earlier(s[k], i)
      BY <1>1, <1>2, <2>2
    <3> QED
      BY <3>1 DEF DoneBy
  <2>6. i \notin DoneBy(s, n)
    BY <2>3, <2>5, EarlierOrders
  <2>7. DoneBy(s, n + 1) = DoneBy(s, n) \union {i}
    <3>1. 1..(n + 1) = (1..n) \union {n + 1}
      BY <2>2
    <3> QED
      BY <3>1 DEF DoneBy
  <2>8. Given(g, DoneBy(s, n + 1)) = OneMore(h, i)
    <3>1. h = Given(g, DoneBy(s, n)) /\ \A j \in Ids : g[j] \in Nat
      BY DEF Counts
    <3> HIDE DEF i, h
    <3> QED
      BY <2>3, <2>6, <2>7, <3>1 DEF Given, OneMore
  <2>9. /\ f[n] \in Windows /\ h \in Counts /\ RingOf(f[n], h, o1)
        /\ f[n].seeded = w.seeded /\ f[n].seededAt = w.seededAt /\ f[n].minute = w.minute
    BY <2>2
  <2>10. ASSUME NEW j \in Overrun(h, {i}), Young(j)
         PROVE  j \in Overrun(g, R)
    <3>1. /\ j \in Published /\ OutOfTime(i) /\ trades[i].ts % W = trades[j].ts % W
          /\ h[j] > 0 \/ (trades[i].ts > now /\ j = i)
      BY <2>10 DEF Overrun
    <3>2. j \in Ids /\ trades[j].ts \in Int /\ trades[i].ts \in Int /\ W \in Nat
      BY <2>3, <3>1, TradeIs, Lengths
    <3>3. h[j] = g[j] + (IF j \in DoneBy(s, n) THEN 1 ELSE 0) /\ g[j] \in Nat
      BY <3>2 DEF Given, Counts
    <3> HIDE DEF i, h
    <3>4. g[j] > 0 \/ (trades[i].ts > now /\ j \in R)
      <4>1. CASE j = i /\ trades[i].ts > now
        BY <2>3, <4>1
      <4>2. CASE h[j] > 0 /\ ~(g[j] > 0)
        <5>1. j \in R /\ Earlier(j, i)
          BY <2>5, <3>3, <4>2
        <5>2. trades[j].ts <= trades[i].ts
          BY <2>3, <3>1, <5>1, EarlierOrders
        <5>3. trades[i].ts > now
          BY <2>10, <3>1, <3>2, <5>2 DEF OutOfTime, Young
        <5> QED
          BY <5>1, <5>3
      <4> QED
        BY <3>1, <4>1, <4>2
    <3> QED
      BY <2>3, <3>1, <3>4 DEF Overrun
  <2> HIDE DEF i, h
  <2>11. OneMore(h, i) \in Counts /\ RingOf(w1, OneMore(h, i), o1)
    <3>1. \A j \in Overrun(h, {i}) : Young(j) => j \in o1
      BY <2>10
    <3> HIDE DEF o1, w1
    <3> QED
      BY <2>3, <2>4, <2>9, <3>1, AppendRing DEF w1
  <2>12. /\ w1 \in Windows
         /\ w1.seeded = w.seeded /\ w1.seededAt = w.seededAt /\ w1.minute = w.minute
         /\ w1.last = trades[i].ts /\ w1.priced = Priced(i)
    BY <2>3, <2>4, <2>9, AppendIs
  <2> HIDE DEF o1
  <2> QED
    BY <2>3, <2>8, <2>11, <2>12 DEF LastOf
<1>7. P(N)
  <2>1. Nat \subseteq G
    <3> HIDE DEF G
    <3> QED
      BY <1>5, <1>6, SetInduction
  <2> HIDE DEF P
  <2> QED
    BY <1>2, <2>1
<1>8. DoneBy(s, N) = R
  BY <1>2 DEF DoneBy
<1> QED
  BY <1>3, <1>4, <1>7, <1>8 DEF R, o1

(* A seed that cannot be read changes nothing; any other reads what the    *)
(* view holds and marks the window.                                        *)
LEMMA SeedRing ==
  ASSUME LogType, now \in Nat, NEW w \in Windows, NEW g \in Counts, NEW o, NEW since,
         RingOf(w, g, o)
  PROVE  LET w1 == Seed(w, since)
             g1 == Given(g, SeedIds(since))
         IN  /\ w1 \in Windows /\ g1 \in Counts
             /\ RingOf(w1, g1, o \union Overrun(g, SeedIds(since)))
             /\ w1.minute = w.minute /\ LastOf(w1, w)
             /\ \/ SeedIds(since) = {} /\ g1 = g /\ w1 = w
                \/ w1.seeded /\ w1.seededAt = projected
<1> DEFINE R == Recent(since)
           w0 == SeedTrades(w, since)
           w1 == Seed(w, since)
<1>1. CASE ReadsNull(since)
  <2>1. SeedIds(since) = {} /\ w1 = w
    BY <1>1 DEF SeedIds, Seed
  <2>2. Given(g, {}) = g
    BY DEF Given, Counts
  <2>3. Overrun(g, {}) = {}
    BY DEF Overrun
  <2>4. o \union {} = o
    OBVIOUS
  <2> HIDE DEF w1
  <2> QED
    BY <2>1, <2>2, <2>3, <2>4 DEF LastOf, w1
<1>2. CASE ~ReadsNull(since)
  <2>1. SeedIds(since) = R
    BY <1>2 DEF SeedIds
  <2> DEFINE g1 == Given(g, R)
             o1 == o \union Overrun(g, R)
  <2>2. /\ w0 \in Windows /\ g1 \in Counts /\ RingOf(w0, g1, o1)
        /\ w0.minute = w.minute /\ LastOf(w0, w)
    BY SeedTradesRing
  <2>3. w1 = [w0 EXCEPT !.seeded = TRUE, !.seededAt = projected]
    BY <1>2 DEF Seed
  <2>4. projected \in Nat
    BY DEF LogType
  <2> HIDE DEF w0, w1, g1, o1, R
  <2>5. /\ w1 \in Windows /\ w1.seeded /\ w1.seededAt = projected
        /\ w1.minute = w0.minute /\ w1.last = w0.last /\ w1.priced = w0.priced
        /\ w1.ring = w0.ring
    BY <2>2, <2>3, <2>4 DEF Windows
  <2>6. RingOf(w1, g1, o1)
    BY <2>2, <2>5 DEF RingOf, SlotsOwn, Holds
  <2>7. LastOf(w1, w)
    BY <2>2, <2>5 DEF LastOf
  <2> QED
    BY <2>1, <2>2, <2>5, <2>6, <2>7 DEF w1, g1, o1
<1> QED
  BY <1>1, <1>2

(* A fresh window has an empty ring.                                       *)
LEMMA NewWindowIs ==
  ASSUME LogType, NEW o
  PROVE  /\ NewWindow \in Windows /\ NewWindow.seeded = FALSE /\ NewWindow.seededAt = 0
         /\ NewWindow.minute = 0
         /\ Nothing \in Counts /\ \A i \in Ids : Nothing[i] = 0
         /\ RingOf(NewWindow, Nothing, o)
<1>1. Nothing \in Counts /\ \A i \in Ids : Nothing[i] = 0
  BY DEF Nothing, Counts
<1> DEFINE b == [start |-> 0, priced |-> FALSE, count |-> Nothing]
           ring == [k \in 0..(W - 1) |-> b]
<1>2. b \in Buckets /\ b.start = 0 /\ b.count = Nothing
  BY <1>1 DEF Buckets
<1>3. ring \in [0..(W - 1) -> Buckets] /\ \A k \in 0..(W - 1) : ring[k] = b
  BY <1>2
<1>4. NewWindow = [seeded |-> FALSE, seededAt |-> 0, last |-> 0, priced |-> FALSE, minute |-> 0,
                   ring |-> ring]
  BY DEF NewWindow
<1> HIDE DEF b, ring
<1>5. NewWindow \in Windows /\ NewWindow.ring = ring
  BY <1>3, <1>4 DEF Windows
<1>6. SlotsOwn(NewWindow, Nothing)
  BY <1>1, <1>2, <1>3, <1>5 DEF SlotsOwn
<1>7. \A i \in Published : ~(Nothing[i] > 0)
  BY <1>1, TradeIs
<1>8. RingOf(NewWindow, Nothing, o)
  BY <1>6, <1>7 DEF RingOf
<1> QED
  BY <1>1, <1>4, <1>5, <1>8

-----------------------------------------------------------------------------
(* What a record shows.  Summarize counts a bucket's trades only while its *)
(* second is within the window.                                            *)
LEMMA SummarizeIs ==
  ASSUME LogType, NEW w \in Windows, NEW at \in Nat, NEW seconds \in Nat
  PROVE  LET sums == Summarize(w, at, seconds)
         IN  /\ sums \in Counts
             /\ \A i \in Ids : i \notin Published => sums[i] = 0
             /\ \A i \in Published :
                  LET b == w.ring[trades[i].ts % W]
                  IN  /\ b.start \in Int /\ b.priced \in BOOLEAN /\ b.count[i] \in Nat
                      /\ sums[i] = IF b.start > at - seconds /\ b.start <= at /\ b.priced
                                   THEN b.count[i] ELSE 0
<1> DEFINE b(i) == w.ring[trades[i].ts % W]
           sums == Summarize(w, at, seconds)
<1>1. \A i \in Published : i \in Ids /\ trades[i].ts % W \in 0..(W - 1)
  BY TradeIs
<1>2. \A i \in Published : b(i).start \in Int /\ b(i).priced \in BOOLEAN /\ b(i).count[i] \in Nat
  BY <1>1 DEF Windows, Buckets, Counts
<1>3. sums = [i \in Ids |->
                IF i \notin Published THEN 0
                ELSE IF b(i).start > at - seconds /\ b(i).start <= at /\ b(i).priced
                     THEN b(i).count[i] ELSE 0]
  BY DEF Summarize
<1> HIDE DEF b, sums
<1>4. sums \in [Ids -> Nat]
  BY <1>2, <1>3
<1> QED
  BY <1>1, <1>2, <1>3, <1>4 DEF Counts, b, sums

(* The minute view gives each trade once, within its bounds.               *)
LEMMA LongMetricsIs ==
  ASSUME LogType, NEW at \in Nat
  PROVE  /\ LongMetrics(at) \in Counts /\ LongOf(LongMetrics(at), projected, at)
         /\ Nothing \in Counts /\ LongOf(Nothing, 0, at)
<1>1. /\ LongMetrics(at) \in [Ids -> {0, 1}]
      /\ \A i \in Ids : LongMetrics(at)[i] = IF i <= projected /\ InView(i, at) THEN 1 ELSE 0
  BY DEF LongMetrics, InView
<1>2. \A i \in Ids : i <= projected => i \in Published
  BY Lengths DEF LogType, Published, Ids
<1>3. \A i \in Ids : i \in Nat /\ ~(i <= 0)
  BY Lengths DEF Ids
<1>4. /\ Nothing \in [Ids -> {0, 1}] /\ \A i \in Ids : Nothing[i] = 0
  BY DEF Nothing
<1> QED
  BY <1>1, <1>2, <1>3, <1>4 DEF LongOf, Counts

(* buildCurrentRecord: the long windows join the short one in one minute.  *)
LEMMA RecordIs ==
  ASSUME LogType, NEW w \in Windows, NEW g \in Counts, SlotsOwn(w, g),
         NEW at \in Nat, NEW long \in Counts, NEW loaded \in Nat, LongOf(long, loaded, at)
  PROVE  LET r == BuildCurrentRecord(w, long, loaded, at)
         IN  r \in Records /\ r.at = at /\ r.loaded = loaded /\ RowOf(r)
<1> DEFINE m1 == Summarize(w, at, M)
           m5 == Summarize(w, at, W)
           h24 == [i \in Ids |-> long[i] + m5[i]]
           r == BuildCurrentRecord(w, long, loaded, at)
<1>1. /\ W \in Nat /\ M \in Nat /\ L \in Nat /\ 0 < M /\ M <= W /\ W <= L
  BY Lengths
<1>2. m1 \in Counts /\ m5 \in Counts
  BY <1>1, SummarizeIs
<1>3. \A i \in Ids : i \notin Published => m1[i] = 0 /\ m5[i] = 0
  BY <1>1, SummarizeIs
<1>4. ASSUME NEW i \in Published
      PROVE  /\ m1[i] \in Nat /\ m5[i] \in Nat /\ m1[i] <= m5[i]
             /\ m5[i] > 0 => 0 <= at - trades[i].ts /\ at - trades[i].ts < W
  <2> DEFINE k == trades[i].ts % W
             b == w.ring[k]
  <2> DEFINE sums(n) == Summarize(w, at, n)
  <2>0. ASSUME NEW n \in Nat
        PROVE  /\ b.start \in Int /\ b.priced \in BOOLEAN /\ b.count[i] \in Nat
               /\ sums(n)[i] = IF b.start > at - n /\ b.start <= at /\ b.priced
                               THEN b.count[i] ELSE 0
    BY SummarizeIs
  <2>1. /\ b.start \in Int /\ b.priced \in BOOLEAN /\ b.count[i] \in Nat
        /\ m1[i] = IF b.start > at - M /\ b.start <= at /\ b.priced THEN b.count[i] ELSE 0
        /\ m5[i] = IF b.start > at - W /\ b.start <= at /\ b.priced THEN b.count[i] ELSE 0
    <3> HIDE DEF b
    <3> QED
      BY <1>1, <2>0
  <2>2. k \in 0..(W - 1) /\ i \in Ids /\ trades[i].ts \in Int
    BY TradeIs
  <2>3. b.count[i] > 0 => b.start = trades[i].ts
    BY <2>2 DEF SlotsOwn
  <2> HIDE DEF k, b, m1, m5
  <2> QED
    BY <1>1, <2>1, <2>2, <2>3
<1>5. r = [at |-> at, latest |-> w.last, m1 |-> m1, m5 |-> m5, h24 |-> h24, loaded |-> loaded]
  BY DEF BuildCurrentRecord
<1>6. w.last \in Int
  BY DEF Windows
<1> HIDE DEF m1, m5, r
<1>7. h24 \in Counts /\ \A i \in Ids : h24[i] = long[i] + m5[i]
  BY <1>2 DEF Counts
<1> HIDE DEF h24
<1>8. r \in Records /\ r.at = at /\ r.loaded = loaded
      /\ r.m1 = m1 /\ r.m5 = m5 /\ r.h24 = h24
  BY <1>2, <1>5, <1>6, <1>7 DEF Records
<1>9. \A i \in Ids : long[i] \in {0, 1} /\ m1[i] \in Nat /\ m5[i] \in Nat
  BY <1>2 DEF LongOf, Counts
<1>10. ASSUME NEW i \in Ids, i \notin Published
       PROVE  m1[i] <= m5[i] /\ h24[i] = 0 /\ h24[i] \in {m5[i], m5[i] + 1}
  <2>1. long[i] = 0
    BY <1>10, <1>9 DEF LongOf
  <2> QED
    BY <1>3, <1>7, <1>10, <2>1
<1>11. ASSUME NEW i \in Ids, i \in Published
       PROVE  LET age == at - trades[i].ts
              IN  /\ age <= W - M \/ trades[i].price = "null" => h24[i] = m5[i]
                  /\ age > W /\ age <= L - M /\ i <= loaded /\ trades[i].price # "null"
                       => h24[i] = 1
                  /\ age > L => h24[i] = 0
  <2> DEFINE t == trades[i].ts
             min == MinuteOf(t)
             null == trades[i].price = "null"
  <2>1. t \in Int /\ min \in Int /\ min <= t /\ t < min + M /\ null \in BOOLEAN
    BY <1>11, TradeIs, MinuteBegan
  <2>2. /\ long[i] = 1 => ~null /\ min >= at - L /\ min < at - W
        /\ i <= loaded /\ ~null /\ min >= at - L /\ min < at - W => long[i] = 1
    BY DEF LongOf, InView
  <2>3. m5[i] > 0 => at - t < W
    BY <1>4, <1>11
  <2> HIDE DEF t, min, null
  <2>4. /\ at - t <= W - M => long[i] = 0
        /\ null => long[i] = 0
        /\ at - t > W /\ at - t <= L - M /\ i <= loaded /\ ~null => long[i] = 1 /\ m5[i] = 0
        /\ at - t > L => long[i] = 0 /\ m5[i] = 0
    BY <1>1, <1>9, <2>1, <2>2, <2>3
  <2> QED
    BY <1>7, <1>9, <2>4 DEF t, null
<1>12. RowOf(r)
  <2>1. ASSUME NEW i \in Ids
        PROVE  /\ m1[i] <= m5[i] /\ h24[i] \in {m5[i], m5[i] + 1}
               /\ i \notin Published => h24[i] = 0
               /\ i \in Published =>
                    LET age == at - trades[i].ts
                    IN  /\ m5[i] > 0 => 0 <= age /\ age < W
                        /\ age <= W - M \/ trades[i].price = "null" => h24[i] = m5[i]
                        /\ age > W /\ age <= L - M /\ i <= loaded /\ trades[i].price # "null"
                             => h24[i] = 1
                        /\ age > L => h24[i] = 0
    <3>1. CASE i \notin Published
      BY <1>10, <3>1
    <3>2. CASE i \in Published
      <4>1. m1[i] <= m5[i] /\ (m5[i] > 0 => 0 <= at - trades[i].ts /\ at - trades[i].ts < W)
        BY <1>4, <3>2
      <4>2. h24[i] \in {m5[i], m5[i] + 1}
        BY <1>7, <1>9
      <4> QED
        BY <1>11, <3>2, <4>1, <4>2
    <3> QED
      BY <3>1, <3>2
  <2> QED
    BY <1>8, <2>1 DEF RowOf
<1> QED
  BY <1>8, <1>12 DEF r

-----------------------------------------------------------------------------
(* Each action.  First the initial state and the log.                      *)
LEMMA InitInv ==
  ASSUME Init
  PROVE  StatsInv
<1>1. Start \in Nat /\ MaxNow \in Nat /\ MaxTrades \in Nat /\ Buffer \in Nat
      /\ MaxFaults \in Nat /\ MaxRestarts \in Nat
  BY Lengths
<1>2. Nothing \in Counts /\ \A i \in Ids : Nothing[i] = 0
  BY DEF Nothing, Counts
<1>3. StatsType
  <2>1. /\ trades = <<>> /\ queue = <<>> /\ projected = 0 /\ now = Start /\ feed = "down"
        /\ window = None /\ sweep = None /\ swept = FALSE /\ faults = 0 /\ restarts = 0
        /\ given = Nothing /\ overrun = {}
    BY DEF Init
  <2>2. LogType
    BY <1>1, <2>1 DEF LogType
  <2>3. queue \in Seq(Published) /\ Len(queue) <= Buffer
    BY <1>1, <2>1
  <2>4. now \in Nat /\ faults \in 0..MaxFaults /\ restarts \in 0..MaxRestarts
    BY <1>1, <2>1
  <2> QED
    BY <1>2, <2>1, <2>2, <2>3, <2>4, Zenon DEF StatsType
<1>4. Published = {} /\ Len(queue) = 0
  BY DEF Init, Published
<1>5. TimeInv /\ GivenInv
  BY <1>2, <1>4 DEF Init, TimeInv, GivenInv, GivenTo
<1>6. RingInv /\ SweepInv /\ RowInv /\ TrackInv
  BY DEF Init, RingInv, SweepInv, RowInv, TrackInv
<1> QED
  BY <1>3, <1>5, <1>6 DEF StatsInv

(* A trade is published: those before it stay as they are.                 *)
LEMMA LogGrows ==
  ASSUME LogType, NEW ts, NEW price, Trade(ts, price), ts \in Times, price \in Prices
  PROVE  LET n == Len(trades) + 1
         IN  /\ LogType' /\ Published' = Published \union {n} /\ n \notin Published
             /\ n \in Ids /\ projected < n
             /\ \A i \in Published : trades'[i] = trades[i] /\ i < n
             /\ trades'[n].ts = ts /\ trades'[n].price = price
<1> DEFINE e == [ts |-> ts, price |-> price]
           n == Len(trades) + 1
           E == [ts : Times, price : Prices]
<1>1. trades' = Append(trades, e) /\ projected' = projected /\ Len(trades) < MaxTrades
  BY DEF Trade
<1>2. e \in E /\ trades \in Seq(E) /\ Len(trades) \in Nat /\ projected \in 0..Len(trades)
  BY DEF LogType
<1>3. e.ts = ts /\ e.price = price
  OBVIOUS
<1> HIDE DEF e, E
<1>4. /\ trades' \in Seq(E) /\ Len(trades') = n
      /\ \A i \in 1..Len(trades) : trades'[i] = trades[i]
      /\ trades'[n] = e
  BY <1>1, <1>2, AppendProperties
<1>5. MaxTrades \in Nat
  BY Lengths
<1>6. Published' = Published \union {n} /\ n \notin Published /\ \A i \in Published : i < n
  BY <1>2, <1>4 DEF Published
<1>7. LogType'
  BY <1>1, <1>2, <1>4, <1>5 DEF LogType, E
<1>8. n \in Ids /\ projected < n
  BY <1>1, <1>2, <1>5 DEF Ids
<1> QED
  BY <1>3, <1>4, <1>6, <1>7, <1>8 DEF Published

LEMMA TradeInv ==
  ASSUME StatsInv, NEW ts \in Times, NEW price \in Prices, Trade(ts, price)
  PROVE  StatsInv'
<1> DEFINE n == Len(trades) + 1
<1>1. StatsType /\ TimeInv /\ GivenInv /\ RingInv /\ SweepInv /\ RowInv /\ TrackInv /\ LogType
  BY DEF StatsInv, StatsType
<1>2. /\ LogType' /\ Published' = Published \union {n} /\ n \notin Published
      /\ n \in Ids /\ projected < n
      /\ \A i \in Published : trades'[i] = trades[i] /\ i < n
      /\ trades'[n].ts = ts /\ trades'[n].price = price
  BY <1>1, LogGrows
<1>3. /\ now' = now /\ projected' = projected /\ window' = window /\ sweep' = sweep
      /\ swept' = swept /\ row' = row /\ faults' = faults /\ restarts' = restarts
      /\ given' = given /\ overrun' = overrun
  BY DEF Trade, history
<1>4. /\ W \in Nat /\ M \in Nat /\ L \in Nat /\ Buffer \in Nat /\ MaxTrades \in Nat
      /\ MaxNow \in Nat /\ M <= W /\ W <= L /\ M > 0
  BY Lengths
<1>5. /\ now \in Nat /\ queue \in Seq(Published) /\ Len(queue) \in Nat /\ Len(queue) <= Buffer
      /\ feed \in {"down", "up", "evicted"} /\ Len(trades) \in Nat /\ projected \in Nat
      /\ given \in Counts
  BY <1>1 DEF StatsType, LogType
<1>6. \A k \in 1..Len(queue) : queue[k] \in Published /\ queue[k] \in Nat
  <2>1. \A k \in 1..Len(queue) : queue[k] \in Published
    BY <1>5, ElementOfSeq
  <2> QED
    BY <2>1 DEF Published
<1>7. \/ queue' = queue /\ feed' \in {"down", "up", "evicted"} /\ (feed # "down" <=> feed' # "down")
      \/ /\ queue' = Append(queue, n) /\ Len(queue) < Buffer /\ feed' = feed
  <2>1. Len(trades') = n
    BY <1>5, AppendProperties DEF Trade, LogType
  <2> QED
    BY <1>5, <2>1 DEF Trade, HasRoom
<1>8. /\ queue' \in Seq(Published') /\ Len(queue') <= Buffer /\ Len(queue') \in Nat
      /\ \A k \in 1..Len(queue') : \/ k \in 1..Len(queue) /\ queue'[k] = queue[k]
                                   \/ k = Len(queue) + 1 /\ queue'[k] = n
  <2>1. queue \in Seq(Published')
    BY <1>2, <1>5
  <2>2. CASE queue' = queue
    <3>1. queue' \in Seq(Published')
      BY <2>1, <2>2, Zenon
    <3> HIDE DEF n
    <3>2. Len(queue') = Len(queue) /\ \A k \in 1..Len(queue') : queue'[k] = queue[k]
      BY <2>2
    <3> QED
      BY <1>5, <3>1, <3>2
  <2>3. CASE queue' = Append(queue, n) /\ Len(queue) < Buffer
    <3>1. n \in Published'
      BY <1>2
    <3>2. /\ queue' \in Seq(Published') /\ Len(queue') = Len(queue) + 1
          /\ \A k \in 1..Len(queue) : queue'[k] = queue[k]
          /\ queue'[Len(queue) + 1] = n
      <4> HIDE DEF n
      <4> QED
        BY <2>1, <2>3, <3>1, AppendProperties
    <3> HIDE DEF n
    <3>3. Len(queue') \in Nat /\ Len(queue') <= Buffer
      BY <1>4, <1>5, <2>3, <3>2
    <3>4. \A k \in 1..Len(queue') : \/ k \in 1..Len(queue)
                                     \/ k = Len(queue) + 1
      BY <1>5, <3>2
    <3> QED
      BY <3>2, <3>3, <3>4
  <2> QED
    BY <1>7, <2>2, <2>3
<1> HIDE DEF n
<1>9. \A i \in Published : /\ i \in Ids /\ i \in Nat /\ trades[i].ts \in Int
                           /\ trades[i].ts % W \in 0..(W - 1)
  BY <1>1, <1>4, TradeIs DEF Ids
<1>10. n \in Nat
  BY <1>2, <1>3, <1>4, <1>5 DEF Ids
<1>11. StatsType'
  BY <1>1, <1>2, <1>3, <1>7, <1>8 DEF StatsType
<1>12. TimeInv'
  BY <1>1, <1>3, <1>7 DEF TimeInv
<1>13. GivenInv'
  <2>1. ~(given[n] > 0)
    BY <1>1, <1>2 DEF GivenInv, GivenTo
  <2>2. ASSUME NEW j \in 1..Len(queue'), NEW k \in 1..Len(queue'), j < k
        PROVE  queue'[j] < queue'[k]
    <3>1. j \in 1..Len(queue) /\ queue'[j] = queue[j]
      BY <1>5, <1>8, <2>2
    <3>2. CASE k \in 1..Len(queue) /\ queue'[k] = queue[k]
      BY <1>1, <2>2, <3>1, <3>2 DEF GivenInv, GivenTo
    <3>3. CASE queue'[k] = n
      BY <1>2, <1>6, <3>1, <3>3
    <3> QED
      BY <1>8, <3>2, <3>3
  <2>3. ASSUME NEW k \in 1..Len(queue'), given[queue'[k]] > 0
        PROVE  given[queue'[k]] = 1 /\ window.seeded /\ queue'[k] <= window.seededAt
    <3>1. k \in 1..Len(queue) /\ queue'[k] = queue[k]
      BY <1>8, <2>1, <2>3
    <3> QED
      BY <1>1, <1>6, <1>9, <2>3, <3>1 DEF GivenInv, GivenTo
  <2>4. \A i \in Ids : given[i] > 0 => i \in Published'
    BY <1>1, <1>2 DEF GivenInv, GivenTo
  <2> QED
    BY <1>1, <1>3, <2>2, <2>3, <2>4 DEF GivenInv, GivenTo
<1>14. RingInv'
  <2>1. ASSUME window # None PROVE RingOf(window, given, overrun)'
    <3>1. SlotsOwn(window, given)'
      BY <1>1, <1>2, <1>3, <2>1 DEF RingInv, RingOf, SlotsOwn
    <3>2. ~(given[n] > 0)
      BY <1>1, <1>2 DEF GivenInv, GivenTo
    <3>3. ASSUME NEW i \in Published', given[i] > 0, trades'[i].ts > now - W, i \notin overrun
          PROVE  trades'[i].ts <= now /\ Holds(window, i, given[i])'
      <4>1. i \in Published /\ trades'[i] = trades[i]
        BY <1>2, <3>2, <3>3
      <4>2. trades[i].ts <= now /\ Holds(window, i, given[i])
        BY <1>1, <2>1, <3>3, <4>1 DEF RingInv, RingOf, Young
      <4>3. Holds(window, i, given[i]) => Holds(window, i, given[i])'
        BY <1>3, <4>1 DEF Holds
      <4> QED
        BY <4>1, <4>2, <4>3
    <3> QED
      BY <1>3, <3>1, <3>3 DEF RingOf, Young
  <2> QED
    BY <1>3, <2>1 DEF RingInv
<1>15. SweepInv'
  <2>1. ASSUME sweep # None
        PROVE  sweep.loaded <= projected /\ LongOf(sweep.long, sweep.loaded, sweep.at)'
    <3>1. sweep.loaded <= projected /\ LongOf(sweep.long, sweep.loaded, sweep.at)
          /\ sweep.loaded \in Nat
      BY <1>1, <2>1 DEF SweepInv, StatsType, Sweeps
    <3>2. ~(n <= sweep.loaded)
      BY <1>2, <1>5, <1>10, <3>1
    <3>3. \A i \in Published : InView(i, sweep.at)' <=> InView(i, sweep.at)
      BY <1>2, <1>3 DEF InView
    <3>4. ASSUME NEW i \in Ids
          PROVE  /\ sweep.long[i] \in {0, 1}
                 /\ sweep.long[i] = 1 => i \in Published' /\ InView(i, sweep.at)'
                 /\ i <= sweep.loaded /\ InView(i, sweep.at)' => sweep.long[i] = 1
      <4>1. i <= sweep.loaded => i \in Published
        BY <1>1, <1>4, <1>5, <3>1 DEF Published, Ids, LogType
      <4> QED
        BY <1>2, <3>1, <3>3, <4>1 DEF LongOf
    <3> QED
      BY <1>3, <3>1, <3>4 DEF LongOf
  <2> QED
    BY <1>3, <2>1 DEF SweepInv
<1>16. RowInv'
  <2>1. ASSUME row # None PROVE RowOf(row)'
    <3>1. row \in Records /\ row.loaded <= projected /\ RowOf(row)
      BY <1>1, <2>1 DEF RowInv
    <3>2. \A i \in Ids : row.m5[i] \in Nat /\ row.m1[i] \in Nat
      BY <3>1 DEF Records, Counts
    <3>3. row.loaded \in Nat /\ ~(n <= row.loaded)
      BY <1>2, <1>5, <1>10, <3>1 DEF Records
    <3>4. row.h24[n] = 0 /\ row.m5[n] = 0
      BY <1>2, <3>1, <3>2 DEF RowOf
    <3>5. ASSUME NEW i \in Ids
          PROVE  /\ row.m1[i] <= row.m5[i] /\ row.h24[i] \in {row.m5[i], row.m5[i] + 1}
                 /\ i \notin Published' => row.h24[i] = 0
                 /\ i \in Published' =>
                      LET age == row.at - trades'[i].ts
                      IN  /\ row.m5[i] > 0 => 0 <= age /\ age < W
                          /\ age <= W - M \/ trades'[i].price = "null"
                               => row.h24[i] = row.m5[i]
                          /\ age > W /\ age <= L - M /\ i <= row.loaded
                               /\ trades'[i].price # "null" => row.h24[i] = 1
                          /\ age > L => row.h24[i] = 0
      <4>1. CASE i = n
        BY <1>2, <3>1, <3>3, <3>4, <4>1 DEF RowOf
      <4>2. CASE i # n
        BY <1>2, <3>1, <4>2 DEF RowOf
      <4> QED
        BY <4>1, <4>2
    <3> QED
      BY <1>3, <3>5 DEF RowOf
  <2> QED
    BY <1>1, <1>3, <2>1 DEF RowInv
<1>17. TrackInv'
  <2>1. AllPriced' => AllPriced
    BY <1>2 DEF AllPriced, Priced
  <2> QED
    BY <1>1, <1>3, <2>1 DEF TrackInv, HasRecord, MinuteOf
<1> QED
  BY <1>11, <1>12, <1>13, <1>14, <1>15, <1>16, <1>17 DEF StatsInv

(* The other actions leave the log as it is.  Then a ring, and a row, that *)
(* were right before the step are right after it.                          *)
LEMMA RingSame ==
  ASSUME LogType, trades' = trades, now \in Nat, now' \in Nat, now <= now',
         RingOf(window', given', overrun')
  PROVE  RingOf(window, given, overrun)'
<1>1. Published' = Published /\ W \in Nat
  BY Lengths DEF Published
<1>2. SlotsOwn(window, given)'
  BY <1>1 DEF RingOf, SlotsOwn
<1>3. ASSUME NEW i \in Published, given'[i] > 0, trades[i].ts > now' - W, i \notin overrun'
      PROVE  trades[i].ts <= now' /\ Holds(window, i, given[i])'
  <2>1. trades[i].ts \in Int
    BY TradeIs
  <2>2. trades[i].ts > now - W
    BY <1>1, <1>3, <2>1
  <2>3. trades[i].ts <= now /\ Holds(window', i, given'[i])
    BY <1>3, <2>2 DEF RingOf, Young
  <2>4. Holds(window', i, given'[i]) => Holds(window, i, given[i])'
    BY DEF Holds
  <2> QED
    BY <2>1, <2>3, <2>4
<1> QED
  BY <1>1, <1>2, <1>3 DEF RingOf, Young

LEMMA RowSame ==
  ASSUME trades' = trades, RowOf(row')
  PROVE  RowOf(row)'
<1>1. Published' = Published
  BY DEF Published
<1> QED
  BY <1>1 DEF RowOf

(* ProjectTrade and Tick, which leave window, sweep and row alone.         *)
LEMMA ProjectInv ==
  ASSUME StatsInv, ProjectTrade
  PROVE  StatsInv'
<1>1. StatsType /\ TimeInv /\ GivenInv /\ RingInv /\ SweepInv /\ RowInv /\ TrackInv /\ LogType
  BY DEF StatsInv, StatsType
<1>2. /\ projected < Len(trades) /\ projected' = projected + 1
      /\ now' = now /\ trades' = trades /\ queue' = queue /\ feed' = feed /\ window' = window
      /\ sweep' = sweep /\ swept' = swept /\ row' = row /\ faults' = faults
      /\ restarts' = restarts /\ given' = given /\ overrun' = overrun
  BY DEF ProjectTrade, history
<1>3. Published' = Published
  BY <1>2 DEF Published
<1>4. /\ projected \in Nat /\ projected' \in Nat /\ Len(trades) \in Nat
      /\ now \in Nat /\ faults \in Nat
  BY <1>1, <1>2, Lengths DEF StatsType, LogType
<1>5. LogType'
  BY <1>1, <1>2, <1>4 DEF LogType
<1>6. StatsType'
  BY <1>1, <1>2, <1>3, <1>5 DEF StatsType
<1>7. TimeInv'
  BY <1>1, <1>2, <1>3 DEF TimeInv
<1>8. GivenInv'
  <2>1. window # None => window.seededAt <= projected'
    BY <1>1, <1>2, <1>4 DEF GivenInv, GivenTo, StatsType, Windows
  <2> QED
    BY <1>1, <1>2, <1>3, <2>1 DEF GivenInv, GivenTo
<1>9. RingInv'
  BY <1>1, <1>2, <1>4, RingSame DEF RingInv
<1>10. SweepInv'
  <2>1. sweep # None => sweep.loaded <= projected'
    BY <1>1, <1>2, <1>4 DEF SweepInv, StatsType, Sweeps
  <2> QED
    BY <1>1, <1>2, <1>3, <2>1 DEF SweepInv, LongOf, InView
<1>11. RowInv'
  <2>1. row # None => row.loaded <= projected'
    BY <1>1, <1>2, <1>4 DEF RowInv, Records
  <2>2. row # None => RowOf(row)'
    BY <1>1, <1>2, RowSame DEF RowInv
  <2> QED
    BY <1>1, <1>2, <2>1, <2>2 DEF RowInv
<1>12. TrackInv'
  BY <1>1, <1>2, <1>3 DEF TrackInv, AllPriced, Priced, HasRecord, MinuteOf
<1> QED
  BY <1>6, <1>7, <1>8, <1>9, <1>10, <1>11, <1>12 DEF StatsInv

LEMMA TickInv ==
  ASSUME StatsInv, Tick
  PROVE  StatsInv'
<1>1. StatsType /\ TimeInv /\ GivenInv /\ RingInv /\ SweepInv /\ RowInv /\ TrackInv /\ LogType
  BY DEF StatsInv, StatsType
<1>2. /\ feed # "down" => swept
      /\ now' = now + 1 /\ swept' = FALSE
      /\ projected' = projected /\ trades' = trades /\ queue' = queue /\ feed' = feed
      /\ window' = window /\ sweep' = sweep /\ row' = row /\ faults' = faults
      /\ restarts' = restarts /\ given' = given /\ overrun' = overrun
  BY DEF Tick, history
<1>3. Published' = Published
  BY <1>2 DEF Published
<1>4. now \in Nat /\ now' \in Nat /\ now <= now' /\ faults \in Nat
  BY <1>1, <1>2, Lengths DEF StatsType
<1>5. StatsType'
  BY <1>1, <1>2, <1>3, <1>4 DEF StatsType, LogType
<1>6. TimeInv'
  <2>1. sweep # None => sweep.at \in Nat
    BY <1>1 DEF StatsType, Sweeps
  <2>2. sweep # None => feed # "down" /\ window # None /\ (swept => sweep.at = now)
    BY <1>1 DEF TimeInv
  <2>3. sweep # None => sweep.at = now
    BY <1>2, <2>2
  <2>4. sweep # None => sweep.at <= now' /\ now' <= sweep.at + 1
    BY <1>2, <1>4, <2>1, <2>3
  <2> QED
    BY <1>2, <2>2, <2>4 DEF TimeInv
<1>7. GivenInv'
  BY <1>1, <1>2, <1>3 DEF GivenInv, GivenTo
<1>8. RingInv'
  BY <1>1, <1>2, <1>4, RingSame DEF RingInv
<1>9. SweepInv'
  BY <1>1, <1>2, <1>3 DEF SweepInv, LongOf, InView
<1>10. RowInv'
  <2>1. row # None => row.at \in Nat /\ row.at <= now'
    BY <1>1, <1>2, <1>4 DEF RowInv, Records
  <2>2. row # None => RowOf(row)'
    BY <1>1, <1>2, RowSame DEF RowInv
  <2> QED
    BY <1>1, <1>2, <2>1, <2>2 DEF RowInv
<1>11. TrackInv'
  BY <1>1, <1>2, <1>3 DEF TrackInv, AllPriced, Priced, HasRecord, MinuteOf
<1> QED
  BY <1>5, <1>6, <1>7, <1>8, <1>9, <1>10, <1>11 DEF StatsInv

(* Sweep reads the view, or evicts the window, or has nothing to do.       *)
LEMMA SweepTargetsInv ==
  ASSUME StatsInv, SweepTargets
  PROVE  StatsInv'
<1>1. StatsType /\ TimeInv /\ GivenInv /\ RingInv /\ SweepInv /\ RowInv /\ TrackInv /\ LogType
  BY DEF StatsInv, StatsType
<1>2. /\ feed # "down" /\ sweep = None /\ ~swept /\ swept' = TRUE
      /\ now' = now /\ trades' = trades /\ projected' = projected /\ queue' = queue
      /\ feed' = feed /\ row' = row /\ restarts' = restarts
  BY DEF SweepTargets
<1>3. Published' = Published
  BY <1>2 DEF Published
<1>4. /\ now \in Nat /\ projected \in Nat /\ faults \in Nat /\ MaxFaults \in Nat
      /\ faults \in 0..MaxFaults
  BY <1>1, Lengths DEF StatsType, LogType
<1>5. Nothing \in Counts /\ \A i \in Ids : Nothing[i] = 0
  BY DEF Nothing, Counts
<1>6. /\ \/ /\ window' = window /\ given' = given /\ overrun' = overrun
            /\ sweep' = sweep \/ (window # None /\ sweep' \in Sweeps)
         \/ /\ window' = None /\ given' = Nothing /\ overrun' = {} /\ sweep' = sweep
      /\ faults' \in 0..MaxFaults /\ faults <= faults'
      /\ sweep' # sweep =>
           /\ sweep'.at = now /\ sweep'.loaded <= projected
           /\ LongOf(sweep'.long, sweep'.loaded, now)
      /\ sweep' = sweep /\ window' # None => window.minute = MinuteOf(now)
  <2>1. CASE window = None /\ UNCHANGED <<window, sweep, faults, history>>
    BY <1>4, <2>1 DEF history
  <2>2. CASE window # None
    <3>1. PICK subscribed \in BOOLEAN :
             LET evicts == ~subscribed /\ window.last > 0 /\ now - window.last > L IN
             \/ /\ evicts
                /\ window' = None /\ given' = Nothing /\ overrun' = {}
                /\ UNCHANGED <<sweep, faults>>
             \/ /\ ~evicts /\ ~NeedsRefresh(window, subscribed)
                /\ UNCHANGED <<window, sweep, faults, history>>
             \/ /\ sweep' = [at |-> now, subscribed |-> subscribed,
                             long |-> LongMetrics(now), loaded |-> projected]
                /\ UNCHANGED <<window, faults, history>>
             \/ /\ Fail
                /\ sweep' = [at |-> now, subscribed |-> subscribed,
                             long |-> Nothing, loaded |-> 0]
                /\ UNCHANGED <<window, history>>
      BY <2>2 DEF SweepTargets
    <3>2. CASE window' = None /\ given' = Nothing /\ overrun' = {} /\ UNCHANGED <<sweep, faults>>
      BY <1>4, <3>2
    <3>3. CASE ~NeedsRefresh(window, subscribed) /\ UNCHANGED <<window, sweep, faults, history>>
      BY <1>4, <3>3 DEF NeedsRefresh, history
    <3>4. ASSUME NEW long \in Counts, NEW loaded \in Nat, loaded <= projected,
                 LongOf(long, loaded, now),
                 sweep' = [at |-> now, subscribed |-> subscribed, long |-> long, loaded |-> loaded]
          PROVE  /\ sweep' \in Sweeps /\ sweep' # sweep
                 /\ sweep'.at = now /\ sweep'.loaded <= projected
                 /\ LongOf(sweep'.long, sweep'.loaded, now)
      <4>1. sweep' \in Sweeps
        BY <1>4, <3>4 DEF Sweeps
      <4>2. sweep' # None
        BY <4>1, NoneAssumption
      <4> QED
        BY <1>2, <3>4, <4>1, <4>2
    <3>5. CASE /\ sweep' = [at |-> now, subscribed |-> subscribed,
                            long |-> LongMetrics(now), loaded |-> projected]
               /\ UNCHANGED <<window, faults, history>>
      <4>1. LongMetrics(now) \in Counts /\ LongOf(LongMetrics(now), projected, now)
        BY <1>1, <1>4, LongMetricsIs
      <4> QED
        BY <1>4, <2>2, <3>4, <3>5, <4>1 DEF history
    <3>6. CASE /\ Fail
               /\ sweep' = [at |-> now, subscribed |-> subscribed, long |-> Nothing, loaded |-> 0]
               /\ UNCHANGED <<window, history>>
      <4>1. LongOf(Nothing, 0, now)
        BY <1>1, <1>4, LongMetricsIs
      <4>2. faults' \in 0..MaxFaults /\ faults <= faults'
        BY <1>4, <3>6 DEF Fail
      <4> QED
        BY <1>4, <1>5, <2>2, <3>4, <3>6, <4>1, <4>2 DEF history
    <3> QED
      BY <3>1, <3>2, <3>3, <3>5, <3>6
  <2> QED
    BY <2>1, <2>2 DEF SweepTargets
<1>7. sweep' # None => sweep' \in Sweeps /\ sweep' # sweep /\ window' = window /\ window # None
  BY <1>2, <1>6
<1>8. /\ given' \in Counts /\ overrun' \in SUBSET Published
      /\ window' # None => window' = window /\ given' = given /\ overrun' = overrun
  BY <1>1, <1>5, <1>6 DEF StatsType
<1>9. StatsType'
  BY <1>1, <1>2, <1>3, <1>6, <1>7, <1>8 DEF StatsType, LogType
<1>10. TimeInv'
  <2>1. sweep' # None => sweep'.at = now /\ now <= now + 1 /\ now <= now
    BY <1>4, <1>6, <1>7
  <2>2. sweep' # None => feed' # "down" /\ window' # None
    BY <1>2, <1>7
  <2>3. sweep' # None => sweep'.at <= now' /\ now' <= sweep'.at + 1 /\ sweep'.at = now'
    BY <1>2, <2>1
  <2> QED
    BY <2>2, <2>3 DEF TimeInv
<1>11. GivenInv'
  <2>1. CASE window' = window /\ given' = given
    BY <1>1, <1>2, <1>3, <1>4, <1>6, <2>1 DEF GivenInv, GivenTo
  <2>2. CASE window' = None /\ given' = Nothing
    <3>1. \A k \in 1..Len(queue) : queue[k] \in Ids
      <4>1. \A k \in 1..Len(queue) : queue[k] \in Published
        BY <1>1, ElementOfSeq DEF StatsType
      <4> QED
        BY <1>1, <4>1, TradeIs
    <3> QED
      BY <1>1, <1>2, <1>5, <2>2, <3>1 DEF GivenInv, GivenTo
  <2> QED
    BY <1>6, <2>1, <2>2
<1>12. RingInv'
  <2>1. window' # None => RingOf(window', given', overrun')
    BY <1>1, <1>8 DEF RingInv
  <2>2. faults' \in Nat /\ now' \in Nat /\ now <= now'
    BY <1>2, <1>4, <1>6
  <2> QED
    BY <1>1, <1>2, <1>4, <1>6, <2>1, <2>2, RingSame DEF RingInv
<1>13. SweepInv'
  <2>1. sweep' # None => /\ sweep'.loaded <= projected /\ sweep'.at = now
                         /\ LongOf(sweep'.long, sweep'.loaded, now)
    BY <1>6, <1>7
  <2>2. sweep' # None => LongOf(sweep.long, sweep.loaded, sweep.at)'
    BY <1>2, <1>3, <2>1 DEF LongOf, InView
  <2> QED
    BY <1>2, <2>1, <2>2 DEF SweepInv
<1>14. RowInv'
  <2>1. row # None => RowOf(row)'
    BY <1>1, <1>2, RowSame DEF RowInv
  <2> QED
    BY <1>1, <1>2, <2>1 DEF RowInv
<1>15. TrackInv'
  <2>1. ASSUME window' # None, faults' = 0, AllPriced'
        PROVE  /\ HasRecord(window)'
               /\ window'.minute > 0 =>
                    /\ row' # None /\ MinuteOf(row'.at) = window'.minute
                    /\ swept' /\ sweep' = None => window'.minute = MinuteOf(now')
    <3>1. window' = window /\ faults = 0 /\ AllPriced
      BY <1>2, <1>3, <1>4, <1>6, <1>8, <2>1 DEF AllPriced, Priced
    <3>2. HasRecord(window)'
      BY <1>1, <2>1, <3>1 DEF TrackInv, HasRecord
    <3>3. window.minute > 0 => row # None /\ MinuteOf(row.at) = window.minute
      BY <1>1, <2>1, <3>1 DEF TrackInv
    <3>4. sweep' = None => window'.minute = MinuteOf(now)
      BY <1>2, <1>6, <2>1, <3>1
    <3> QED
      BY <1>2, <3>1, <3>2, <3>3, <3>4
  <2> QED
    BY <2>1 DEF TrackInv, MinuteOf
<1> QED
  BY <1>9, <1>10, <1>11, <1>12, <1>13, <1>14, <1>15 DEF StatsInv

(* The feed is subscribed to again, or the process starts again.           *)
LEMMA SubscribeInv ==
  ASSUME StatsInv, Subscribe
  PROVE  StatsInv'
<1>1. StatsType /\ TimeInv /\ GivenInv /\ RingInv /\ SweepInv /\ RowInv /\ TrackInv /\ LogType
  BY DEF StatsInv, StatsType
<1>2. /\ sweep = None /\ feed' = "up" /\ queue' = <<>>
      /\ now' = now /\ trades' = trades /\ projected' = projected /\ window' = window
      /\ sweep' = sweep /\ swept' = swept /\ restarts' = restarts
      /\ given' = given /\ overrun' = overrun
  BY DEF Subscribe, history
<1>3. Published' = Published
  BY <1>2 DEF Published
<1>4. /\ now \in Nat /\ projected \in Nat /\ faults \in Nat /\ MaxFaults \in Nat
      /\ faults \in 0..MaxFaults /\ W \in Nat /\ W > 1 /\ Buffer \in Nat
  BY <1>1, Lengths DEF StatsType, LogType
<1>5. /\ faults' \in 0..MaxFaults /\ faults <= faults'
      /\ \/ row' = row
         \/ /\ row = None
            /\ row' = BuildCurrentRecord(BackfillWindow, LongMetrics(now), projected, now)
  BY <1>4 DEF Subscribe, Fail, BackfillCurrentMetrics, BackfillCandidate
<1>6. row = None \/ row' = row
  BY <1>5
<1>7. ASSUME projected > 0
      PROVE  LET r == BuildCurrentRecord(BackfillWindow, LongMetrics(now), projected, now)
             IN  r \in Records /\ r.at = now /\ r.loaded = projected /\ RowOf(r)
  <2> DEFINE w == Seed(NewWindow, now - W)
             g == Given(Nothing, SeedIds(now - W))
  <2>1. w \in Windows /\ g \in Counts /\ SlotsOwn(w, g)
    <3>1. NewWindow \in Windows /\ Nothing \in Counts /\ RingOf(NewWindow, Nothing, {})
      BY <1>1, NewWindowIs
    <3>2. RingOf(w, g, {} \union Overrun(Nothing, SeedIds(now - W)))
          /\ w \in Windows /\ g \in Counts
      <4> HIDE DEF w, g
      <4> QED
        BY <1>1, <1>4, <3>1, SeedRing DEF w, g
    <3> QED
      BY <3>2 DEF RingOf
  <2> HIDE DEF w, g
  <2>2. Latest \in Published
    <3>1. ASSUME NEW i \in 1..projected PROVE i \in Published
      BY <1>1, <3>1 DEF LogType, Published
    <3> DEFINE R == 1..projected
    <3>2. R \in SUBSET Published /\ 1 \in R
      BY <1>4, <1>7, <3>1
    <3> HIDE DEF R
    <3>3. \E k \in 1..Cardinality(R) : \A m \in 1..Cardinality(R) : m <= k
      <4>1. Place(R, 1) \in 1..Cardinality(R) /\ Cardinality(R) \in Nat
        BY <1>1, <3>2, PlaceType
      <4>2. Cardinality(R) \in 1..Cardinality(R)
        BY <4>1
      <4> QED
        BY <4>1, <4>2
    <3>4. PICK i \in R : \A j \in R : Place(R, j) <= Place(R, i)
      <4>1. PICK k \in 1..Cardinality(R) : \A m \in 1..Cardinality(R) : m <= k
        BY <3>3
      <4>2. PICK i \in R : Place(R, i) = k
        BY <1>1, <3>2, PlaceOnto
      <4> QED
        BY <1>1, <3>2, <4>1, <4>2, PlaceType
    <3>5. ASSUME NEW j \in R
          PROVE  \/ trades[j].ts < trades[i].ts
                 \/ trades[j].ts = trades[i].ts /\ j <= i
      <4>1. ~Earlier(i, j)
        <5>1. Place(R, i) \in Nat /\ Place(R, j) \in Nat /\ Place(R, j) <= Place(R, i)
          BY <1>1, <3>2, <3>4, PlaceType
        <5>2. ~(Place(R, i) < Place(R, j))
          BY <5>1
        <5> QED
          BY <1>1, <3>2, <5>2, PlaceGrows
      <4>2. i \in Nat /\ j \in Nat /\ trades[i].ts \in Int /\ trades[j].ts \in Int
        BY <1>1, <3>2, TradeIs, Lengths DEF Ids
      <4> QED
        BY <4>1, <4>2 DEF Earlier
    <3> QED
      BY <3>2, <3>4, <3>5 DEF Latest, R
  <2>3. trades[Latest].ts \in Int /\ Priced(Latest) \in BOOLEAN
    BY <1>1, <2>2, TradeIs
  <2>4. BackfillWindow = [w EXCEPT !.last = trades[Latest].ts, !.priced = Priced(Latest)]
    BY DEF BackfillWindow, w
  <2>5. BackfillWindow \in Windows /\ BackfillWindow.ring = w.ring
    BY <2>1, <2>3, <2>4 DEF Windows
  <2>6. SlotsOwn(BackfillWindow, g)
    BY <2>1, <2>5 DEF SlotsOwn
  <2>7. LongMetrics(now) \in Counts /\ LongOf(LongMetrics(now), projected, now)
    BY <1>1, <1>4, LongMetricsIs
  <2> QED
    BY <1>1, <1>4, <2>1, <2>5, <2>6, <2>7, RecordIs
<1>8. row' = row \/ (row' \in Records /\ row'.at = now /\ row'.loaded = projected /\ RowOf(row'))
  BY <1>5, <1>7 DEF Subscribe, BackfillCurrentMetrics, BackfillCandidate
<1>9. StatsType'
  <2>1. queue' \in Seq(Published') /\ Len(queue') <= Buffer
    BY <1>2, <1>4
  <2> QED
    BY <1>1, <1>2, <1>3, <1>5, <2>1 DEF StatsType, LogType
<1>10. TimeInv'
  BY <1>2 DEF TimeInv
<1>11. GivenInv'
  <2>1. \A k \in 1..Len(queue') : FALSE
    BY <1>2
  <2> QED
    BY <1>1, <1>2, <1>3, <1>4, <1>5, <2>1 DEF GivenInv, GivenTo
<1>12. RingInv'
  <2>1. faults' \in Nat /\ now' \in Nat /\ now <= now'
    BY <1>2, <1>4, <1>5
  <2> QED
    BY <1>1, <1>2, <1>4, <1>5, <2>1, RingSame DEF RingInv
<1>13. SweepInv'
  BY <1>2 DEF SweepInv
<1>14. RowInv'
  <2>1. row' # None => /\ row' \in Records /\ row'.at <= now /\ row'.loaded <= projected
                       /\ RowOf(row')
    BY <1>1, <1>4, <1>8 DEF RowInv
  <2>2. row' # None => RowOf(row)'
    BY <1>2, <2>1, RowSame
  <2> QED
    BY <1>2, <2>1, <2>2 DEF RowInv
<1>15. TrackInv'
  <2>1. faults' = 0 => faults = 0
    BY <1>4, <1>5
  <2> QED
    BY <1>1, <1>2, <1>3, <1>6, <2>1 DEF TrackInv, AllPriced, Priced, HasRecord, MinuteOf
<1> QED
  BY <1>9, <1>10, <1>11, <1>12, <1>13, <1>14, <1>15 DEF StatsInv

LEMMA RestartInv ==
  ASSUME StatsInv, Restart
  PROVE  StatsInv'
<1>1. StatsType /\ TimeInv /\ GivenInv /\ RowInv /\ LogType
  BY DEF StatsInv, StatsType
<1>2. /\ restarts < MaxRestarts /\ restarts' = restarts + 1
      /\ feed' = "down" /\ queue' = <<>> /\ window' = None /\ sweep' = None /\ swept' = FALSE
      /\ given' = Nothing /\ overrun' = {}
      /\ now' = now /\ trades' = trades /\ projected' = projected /\ row' = row /\ faults' = faults
  BY DEF Restart
<1>3. Published' = Published
  BY <1>2 DEF Published
<1>4. Nothing \in Counts /\ \A i \in Ids : Nothing[i] = 0
  BY DEF Nothing, Counts
<1>5. \A k \in 1..Len(queue') : FALSE
  BY <1>2
<1>6. StatsType'
  <2>1. restarts' \in 0..MaxRestarts
    BY <1>1, <1>2, Lengths DEF StatsType
  <2>2. queue' \in Seq(Published') /\ Len(queue') <= Buffer
    BY <1>2, Lengths
  <2> QED
    BY <1>1, <1>2, <1>3, <1>4, <2>1, <2>2 DEF StatsType, LogType
<1>7. TimeInv'
  BY <1>2 DEF TimeInv
<1>8. GivenInv'
  BY <1>2, <1>4, <1>5 DEF GivenInv, GivenTo
<1>9. RowInv'
  <2>1. row # None => RowOf(row)'
    BY <1>1, <1>2, RowSame DEF RowInv
  <2> QED
    BY <1>1, <1>2, <2>1 DEF RowInv
<1>10. RingInv' /\ SweepInv' /\ TrackInv'
  BY <1>2 DEF RingInv, SweepInv, TrackInv
<1> QED
  BY <1>6, <1>7, <1>8, <1>9, <1>10 DEF StatsInv

(* The window that handleTrade starts from, and what a seed makes of a     *)
(* window not seeded yet.                                                  *)
LEMMA WindowOf ==
  ASSUME StatsInv, NEW w, w = IF window = None THEN NewWindow ELSE window
  PROVE  /\ w \in Windows /\ RingOf(w, given, overrun) /\ GivenTo(w, given)
         /\ window # None => w.last \in Times
         /\ window = None => w.minute = 0
<1>1. StatsType /\ TimeInv /\ GivenInv /\ RingInv /\ LogType
  BY DEF StatsInv, StatsType
<1>2. given \in Counts /\ projected \in Nat
  BY <1>1, Lengths DEF StatsType, LogType
<1>3. CASE window # None
  BY <1>1, <1>3 DEF StatsType, RingInv, GivenInv
<1>4. CASE window = None
  <2>1. \A i \in Ids : given[i] = 0
    BY <1>1, <1>4 DEF GivenInv
  <2>2. given = Nothing
    BY <1>2, <2>1 DEF Counts, Nothing
  <2>3. /\ NewWindow \in Windows /\ NewWindow.seeded = FALSE /\ NewWindow.seededAt = 0
        /\ NewWindow.minute = 0 /\ RingOf(NewWindow, Nothing, overrun)
    BY <1>1, <1>2, NewWindowIs
  <2>4. w = NewWindow
    BY <1>4
  <2>5. \A k \in 1..Len(queue) : queue[k] \in Ids
    <3>1. \A k \in 1..Len(queue) : queue[k] \in Published
      BY <1>1, ElementOfSeq DEF StatsType
    <3> QED
      BY <1>1, <3>1, TradeIs
  <2> HIDE DEF NewWindow
  <2>6. GivenTo(w, given)
    BY <1>2, <2>1, <2>3, <2>4, <2>5 DEF GivenTo
  <2> QED
    BY <1>4, <2>2, <2>3, <2>4, <2>6
<1> QED
  BY <1>3, <1>4

(* What a window is given with no trades at all.                           *)
LEMMA GivenNone ==
  ASSUME NEW g \in Counts
  PROVE  Given(g, {}) = g /\ Overrun(g, {}) = {}
BY DEF Given, Overrun, Counts

LEMMA SeedGives ==
  ASSUME StatsInv, NEW w \in Windows, RingOf(w, given, overrun), GivenTo(w, given),
         ~w.seeded, NEW since
  PROVE  LET w1 == Seed(w, since)
             g1 == Given(given, SeedIds(since))
         IN  /\ w1 \in Windows /\ g1 \in Counts
             /\ RingOf(w1, g1, overrun \union Overrun(given, SeedIds(since)))
             /\ GivenTo(w1, g1) /\ w1.minute = w.minute
             /\ LastOf(w1, w)
<1> DEFINE R == SeedIds(since)
           w1 == Seed(w, since)
           g1 == Given(given, R)
           o1 == overrun \union Overrun(given, R)
<1>1. StatsType /\ TimeInv /\ LogType /\ given \in Counts /\ now \in Nat /\ projected \in Nat
  BY Lengths DEF StatsInv, StatsType, LogType
<1>2. /\ w1 \in Windows /\ g1 \in Counts /\ RingOf(w1, g1, o1)
      /\ w1.minute = w.minute /\ LastOf(w1, w)
      /\ (R = {} /\ g1 = given /\ w1 = w) \/ (w1.seeded /\ w1.seededAt = projected)
  BY <1>1, SeedRing
<1>3. \A i \in R : i \in Published /\ i <= projected
  BY <1>1 DEF SeedIds, Recent, Published, LogType
<1>4. \A k \in 1..Len(queue) : queue[k] \in Published /\ queue[k] \in Ids
  <2>1. \A k \in 1..Len(queue) : queue[k] \in Published
    BY <1>1, ElementOfSeq DEF StatsType
  <2> QED
    BY <1>1, <2>1, TradeIs
<1>5. \A i \in Ids : given[i] \in Nat /\ g1[i] = given[i] + (IF i \in R THEN 1 ELSE 0)
  BY <1>1 DEF Given, Counts
<1>6. \A i \in Ids : given[i] \in {0, 1} /\ (given[i] > 0 => i \in Published)
  BY <1>5 DEF GivenTo
<1>7. \A k \in 1..Len(queue) : given[queue[k]] = 0
  BY <1>4, <1>6 DEF GivenTo
<1> HIDE DEF R, g1, w1, o1
<1>8. GivenTo(w1, g1)
  <2>1. CASE g1 = given /\ w1 = w
    BY <2>1
  <2>2. CASE w1.seeded /\ w1.seededAt = projected
    <3>1. \A i \in Ids : /\ g1[i] <= 2 /\ (g1[i] > 0 => i \in Published)
                         /\ g1[i] = 2 => w1.seeded /\ i <= w1.seededAt
      BY <2>2, <1>3, <1>5, <1>6
    <3>2. \A k \in 1..Len(queue) : g1[queue[k]] > 0 =>
            g1[queue[k]] = 1 /\ w1.seeded /\ queue[k] <= w1.seededAt
      BY <2>2, <1>3, <1>4, <1>5, <1>7
    <3> QED
      BY <1>1, <2>2, <3>1, <3>2 DEF GivenTo
  <2> QED
    BY <1>2, <2>1, <2>2
<1> QED
  BY <1>2, <1>8 DEF w1, g1, o1, R

(* handleTrade: with or without a seed, the trade is then appended.        *)
LEMMA HandleTradeInv ==
  ASSUME StatsInv, HandleTrade
  PROVE  StatsInv'
<1> DEFINE i == Head(queue)
           since == trades[i].ts - W
           w == IF window = None THEN NewWindow ELSE window
<1>1. StatsType /\ TimeInv /\ GivenInv /\ RingInv /\ SweepInv /\ RowInv /\ TrackInv /\ LogType
  BY DEF StatsInv, StatsType
<1>2. /\ feed # "down" /\ sweep = None /\ queue # <<>> /\ queue' = Tail(queue)
      /\ now' = now /\ trades' = trades /\ projected' = projected /\ feed' = feed
      /\ sweep' = sweep /\ swept' = swept /\ row' = row /\ restarts' = restarts
  BY DEF HandleTrade
<1>3. Published' = Published
  BY <1>2 DEF Published
<1>4. /\ now \in Nat /\ projected \in Nat /\ faults \in Nat /\ MaxFaults \in Nat
      /\ faults \in 0..MaxFaults /\ W \in Nat /\ W > 1 /\ Buffer \in Nat /\ MaxNow \in Nat
  BY <1>1, Lengths DEF StatsType, LogType
<1>5. /\ Len(queue) \in Nat /\ Len(queue) > 0 /\ Len(queue) <= Buffer
      /\ queue \in Seq(Published) /\ i \in Published /\ i = queue[1]
      /\ queue' \in Seq(Published) /\ Len(queue') = Len(queue) - 1
      /\ \A k \in 1..Len(queue') : queue'[k] = queue[k + 1]
  <2>1. queue \in Seq(Published) /\ Len(queue) <= Buffer
    BY <1>1 DEF StatsType
  <2>2. /\ Head(queue) \in Published
        /\ queue' \in Seq(Published) /\ Len(queue') = Len(queue) - 1
        /\ \A k \in 1..Len(queue') : queue'[k] = queue[k + 1]
    BY <1>2, <2>1, HeadTailProperties, Zenon
  <2>3. Len(queue) \in Nat /\ Len(queue) # 0 /\ Head(queue) = queue[1]
    BY <1>2, <2>1, EmptySeq, LenProperties
  <2> QED
    BY <2>1, <2>2, <2>3
<1>6. /\ i \in Ids /\ trades[i].ts \in Times /\ trades[i].ts \in Int /\ Priced(i) \in BOOLEAN
  BY <1>1, <1>5, TradeIs
<1>7. /\ w \in Windows /\ RingOf(w, given, overrun) /\ GivenTo(w, given)
      /\ window # None => w = window
      /\ window = None => w.minute = 0
  BY WindowOf
<1>8. given \in Counts /\ overrun \in SUBSET Published
  BY <1>1 DEF StatsType
<1> DEFINE Before(w1, g1, o1) ==
             /\ window' = AppendSecondBucket(w1, i) /\ given' = OneMore(g1, i)
             /\ overrun' = o1 \union Overrun(g1, {i})
             /\ RingOf(w1, g1, o1) /\ GivenTo(w1, g1) /\ w1.minute = w.minute
<1>9. /\ \E w1 \in Windows, g1 \in Counts, o1 \in SUBSET Published : Before(w1, g1, o1)
      /\ faults' \in 0..MaxFaults /\ faults <= faults'
  <2>1. \/ RecordTrade(w, {}, i) /\ faults' = faults
        \/ /\ ~w.seeded /\ faults' = faults
           /\ RecordTrade(Seed(w, since), SeedIds(since), i)
        \/ faults < MaxFaults /\ faults' = faults + 1 /\ RecordTrade(w, {}, i)
    BY DEF HandleTrade, Fail
  <2> HIDE DEF w, i, since
  <2>2. faults' \in 0..MaxFaults /\ faults <= faults'
    BY <1>4, <2>1
  <2>3. CASE RecordTrade(w, {}, i)
    <3>1. Given(given, {}) = given /\ Overrun(given, {}) = {}
      BY <1>8, GivenNone
    <3>2. Before(w, given, overrun)
      BY <1>7, <2>3, <3>1 DEF RecordTrade
    <3> HIDE DEF Before
    <3> QED
      BY <1>7, <1>8, <2>2, <3>2
  <2>4. CASE ~w.seeded /\ RecordTrade(Seed(w, since), SeedIds(since), i)
    <3> DEFINE w1 == Seed(w, since)
               g1 == Given(given, SeedIds(since))
               o1 == overrun \union Overrun(given, SeedIds(since))
    <3>1. /\ w1 \in Windows /\ g1 \in Counts /\ RingOf(w1, g1, o1)
          /\ GivenTo(w1, g1) /\ w1.minute = w.minute
      BY <1>7, <2>4, SeedGives
    <3>2. o1 \in SUBSET Published
      BY <1>8 DEF Overrun
    <3>3. /\ window' = AppendSecondBucket(w1, i) /\ given' = OneMore(g1, i)
          /\ overrun' = o1 \union Overrun(g1, {i})
      BY <2>4 DEF RecordTrade
    <3> HIDE DEF w1, g1, o1
    <3>4. Before(w1, g1, o1)
      BY <3>1, <3>3
    <3> HIDE DEF Before
    <3> QED
      BY <2>2, <3>1, <3>2, <3>4
  <2> HIDE DEF Before
  <2> QED
    BY <2>1, <2>3, <2>4
<1> HIDE DEF Before
<1>10. PICK w1 \in Windows, g1 \in Counts, o1 \in SUBSET Published : Before(w1, g1, o1)
  BY <1>9
<1>11. /\ window' = AppendSecondBucket(w1, i) /\ given' = OneMore(g1, i)
       /\ overrun' = o1 \union Overrun(g1, {i})
       /\ RingOf(w1, g1, o1) /\ GivenTo(w1, g1) /\ w1.minute = w.minute
       /\ faults' \in 0..MaxFaults /\ faults <= faults'
  BY <1>9, <1>10 DEF Before
<1> HIDE DEF w, i, since
<1>12. /\ window' \in Windows /\ window' # None
       /\ window'.seeded = w1.seeded /\ window'.seededAt = w1.seededAt
       /\ window'.minute = w1.minute
       /\ window'.last = trades[i].ts /\ window'.priced = Priced(i)
  <2>1. /\ window' \in Windows
        /\ window'.seeded = w1.seeded /\ window'.seededAt = w1.seededAt
        /\ window'.minute = w1.minute
        /\ window'.last = trades[i].ts /\ window'.priced = Priced(i)
    BY <1>1, <1>5, <1>11, AppendIs
  <2> QED
    BY <2>1, NoneAssumption
<1>13. /\ given' \in Counts /\ RingOf(window', given', overrun')
       /\ overrun' \in SUBSET Published
  <2>1. RingOf(w1, g1, overrun')
    BY <1>11 DEF RingOf
  <2>2. \A j \in Overrun(g1, {i}) : Young(j) => j \in overrun'
    BY <1>11
  <2>3. given' \in Counts /\ RingOf(window', given', overrun')
    BY <1>1, <1>4, <1>5, <1>11, <2>1, <2>2, AppendRing
  <2>4. overrun' \in SUBSET Published
    BY <1>11 DEF Overrun
  <2> QED
    BY <2>3, <2>4
<1>14. \A j \in Ids : g1[j] \in Nat /\ given'[j] = g1[j] + (IF j = i THEN 1 ELSE 0)
  BY <1>6, <1>11 DEF OneMore, Counts
<1>15. StatsType'
  <2>1. queue' \in Seq(Published') /\ Len(queue') <= Buffer
    BY <1>3, <1>4, <1>5
  <2> QED
    BY <1>1, <1>2, <1>3, <1>6, <1>11, <1>12, <1>13, <2>1 DEF StatsType, LogType
<1>16. \A k \in 1..Len(queue') : k + 1 \in 1..Len(queue) /\ queue'[k] = queue[k + 1]
  BY <1>5
<1>17. TimeInv'
  BY <1>2 DEF TimeInv
<1>18. GivenInv'
  <2>1. \A j, k \in 1..Len(queue) : j < k => queue[j] < queue[k]
    BY <1>1 DEF GivenInv
  <2>2. ASSUME NEW j \in 1..Len(queue'), NEW k \in 1..Len(queue'), j < k
        PROVE  queue'[j] < queue'[k]
    <3>1. j + 1 < k + 1
      BY <1>5, <2>2
    <3> QED
      BY <1>16, <2>1, <3>1
  <2>3. \A k \in 1..Len(queue') : queue'[k] \in Ids /\ queue'[k] # i
    <3>1. ASSUME NEW k \in 1..Len(queue') PROVE queue'[k] \in Ids /\ queue'[k] # i
      <4>1. queue'[k] \in Published
        BY <1>5, ElementOfSeq
      <4>2. 1 \in 1..Len(queue) /\ k + 1 \in 1..Len(queue) /\ 1 < k + 1
        BY <1>5
      <4>3. i < queue'[k]
        BY <1>5, <1>16, <2>1, <4>2
      <4>4. queue'[k] \in Ids /\ \A j \in Ids : j \in Nat
        BY <1>1, <4>1, TradeIs, Lengths DEF Ids
      <4> QED
        BY <1>6, <4>3, <4>4
    <3> QED
      BY <3>1
  <2>4. /\ window'.seededAt <= projected
        /\ \A j \in Ids : /\ given'[j] <= 2 /\ (given'[j] > 0 => j \in Published)
                          /\ given'[j] = 2 => window'.seeded /\ j <= window'.seededAt
    <3>1. 1 \in 1..Len(queue)
      BY <1>5
    <3>2. g1[i] > 0 => g1[i] = 1 /\ w1.seeded /\ i <= w1.seededAt
      BY <1>5, <1>11, <3>1 DEF GivenTo
    <3>3. \A j \in Ids : /\ g1[j] <= 2 /\ (g1[j] > 0 => j \in Published)
                         /\ g1[j] = 2 => w1.seeded /\ j <= w1.seededAt
      BY <1>11 DEF GivenTo
    <3>4. w1.seededAt <= projected
      BY <1>11 DEF GivenTo
    <3> QED
      BY <1>5, <1>6, <1>12, <1>14, <3>2, <3>3, <3>4
  <2>5. \A k \in 1..Len(queue') : given'[queue'[k]] > 0 =>
          given'[queue'[k]] = 1 /\ window'.seeded /\ queue'[k] <= window'.seededAt
    <3>1. \A k \in 1..Len(queue) : g1[queue[k]] > 0 =>
            g1[queue[k]] = 1 /\ w1.seeded /\ queue[k] <= w1.seededAt
      BY <1>11 DEF GivenTo
    <3>2. \A k \in 1..Len(queue') : given'[queue'[k]] = g1[queue'[k]]
      BY <1>14, <2>3
    <3> QED
      BY <1>12, <1>16, <3>1, <3>2
  <2> QED
    BY <1>2, <1>3, <1>12, <2>2, <2>4, <2>5 DEF GivenInv, GivenTo
<1>19. RingInv'
  BY <1>1, <1>2, <1>4, <1>13, RingSame DEF RingInv
<1>20. SweepInv'
  BY <1>2 DEF SweepInv
<1>21. RowInv'
  <2>1. row # None => RowOf(row)'
    BY <1>1, <1>2, RowSame DEF RowInv
  <2> QED
    BY <1>1, <1>2, <2>1 DEF RowInv
<1>22. TrackInv'
  <2>1. ASSUME faults' = 0, AllPriced'
        PROVE  /\ HasRecord(window)'
               /\ window'.minute > 0 =>
                    /\ row' # None /\ MinuteOf(row'.at) = window'.minute
                    /\ swept' /\ sweep' = None => window'.minute = MinuteOf(now')
    <3>1. faults = 0 /\ AllPriced
      BY <1>2, <1>3, <1>4, <1>11, <2>1 DEF AllPriced, Priced
    <3>2. HasRecord(window)'
      BY <1>5, <1>6, <1>12, <3>1 DEF AllPriced, HasRecord
    <3>3. window'.minute > 0 => window # None /\ window'.minute = window.minute
      BY <1>7, <1>11, <1>12
    <3> QED
      BY <1>1, <1>2, <3>1, <3>2, <3>3 DEF TrackInv
  <2> QED
    BY <2>1 DEF TrackInv, MinuteOf
<1> QED
  BY <1>15, <1>17, <1>18, <1>19, <1>20, <1>21, <1>22 DEF StatsInv

(* Sweep's second loop builds the record from the window, seeded or not,   *)
(* and the long windows that the sweep began with.                         *)
LEMMA SweepPersistInv ==
  ASSUME StatsInv, SweepPersist
  PROVE  StatsInv'
<1> DEFINE since == sweep.at - W
<1>1. StatsType /\ TimeInv /\ GivenInv /\ RingInv /\ SweepInv /\ RowInv /\ TrackInv /\ LogType
  BY DEF StatsInv, StatsType
<1>2. /\ sweep # None /\ sweep' = None
      /\ now' = now /\ trades' = trades /\ projected' = projected /\ queue' = queue
      /\ feed' = feed /\ swept' = swept /\ restarts' = restarts
  BY DEF SweepPersist
<1>3. Published' = Published
  BY <1>2 DEF Published
<1>4. /\ now \in Nat /\ projected \in Nat /\ faults \in Nat /\ MaxFaults \in Nat
      /\ faults \in 0..MaxFaults /\ W \in Nat /\ W > 1 /\ M \in Nat /\ MaxNow \in Nat
  BY <1>1, Lengths DEF StatsType, LogType
<1>5. /\ sweep \in Sweeps /\ window # None
      /\ sweep.at \in Nat /\ sweep.at <= now /\ now <= sweep.at + 1
      /\ swept => sweep.at = now
      /\ sweep.long \in Counts /\ sweep.loaded \in Nat /\ sweep.loaded <= projected
      /\ LongOf(sweep.long, sweep.loaded, sweep.at)
  BY <1>1, <1>2 DEF StatsType, TimeInv, SweepInv, Sweeps
<1>6. /\ window \in Windows /\ RingOf(window, given, overrun) /\ GivenTo(window, given)
      /\ window.last \in Times /\ given \in Counts /\ overrun \in SUBSET Published
  BY <1>1, <1>5, WindowOf DEF StatsType
<1> DEFINE Before(w1, g1, o1, f1) ==
             /\ PersistRecord(w1, f1) /\ given' = g1 /\ overrun' = o1 /\ faults <= f1
             /\ RingOf(w1, g1, o1) /\ GivenTo(w1, g1)
             /\ w1.last \in Times
             /\ AllPriced /\ HasRecord(window) => HasRecord(w1)
<1>7. \E w1 \in Windows, g1 \in Counts, o1 \in SUBSET Published, f1 \in 0..MaxFaults :
        Before(w1, g1, o1, f1)
  <2>1. \/ PersistRecord(window, faults) /\ given' = given /\ overrun' = overrun
        \/ /\ ~window.seeded
           /\ PersistRecord(Seed(window, since), faults)
           /\ given' = Given(given, SeedIds(since))
           /\ overrun' = overrun \union Overrun(given, SeedIds(since))
        \/ /\ faults < MaxFaults /\ PersistRecord(window, faults + 1)
           /\ given' = given /\ overrun' = overrun
    BY DEF SweepPersist, history
  <2> HIDE DEF since
  <2>2. CASE PersistRecord(window, faults) /\ given' = given /\ overrun' = overrun
    <3>1. Before(window, given, overrun, faults)
      BY <1>4, <1>6, <2>2
    <3> HIDE DEF Before
    <3> QED
      BY <1>4, <1>6, <3>1
  <2>3. CASE /\ ~window.seeded
             /\ PersistRecord(Seed(window, since), faults)
             /\ given' = Given(given, SeedIds(since))
             /\ overrun' = overrun \union Overrun(given, SeedIds(since))
    <3> DEFINE w1 == Seed(window, since)
               g1 == Given(given, SeedIds(since))
               o1 == overrun \union Overrun(given, SeedIds(since))
    <3>1. /\ w1 \in Windows /\ g1 \in Counts /\ RingOf(w1, g1, o1)
          /\ GivenTo(w1, g1)
          /\ LastOf(w1, window)
      BY <1>6, <2>3, SeedGives
    <3>2. o1 \in SUBSET Published
      BY <1>6 DEF Overrun
    <3>3. PersistRecord(w1, faults) /\ given' = g1 /\ overrun' = o1
      BY <2>3
    <3> HIDE DEF w1, g1, o1
    <3>4. w1.last \in Times /\ (AllPriced /\ HasRecord(window) => HasRecord(w1))
      <4>1. CASE w1.last = window.last /\ w1.priced = window.priced
        BY <1>6, <4>1 DEF HasRecord
      <4>2. CASE \E i \in Published : w1.last = trades[i].ts /\ w1.priced = Priced(i)
        <5>1. PICK i \in Published : w1.last = trades[i].ts /\ w1.priced = Priced(i)
          BY <4>2
        <5>2. trades[i].ts \in Times
          BY <1>1, TradeIs
        <5> QED
          BY <5>1, <5>2 DEF AllPriced, HasRecord
      <4> QED
        BY <3>1, <4>1, <4>2 DEF LastOf
    <3>5. Before(w1, g1, o1, faults)
      BY <1>4, <3>1, <3>3, <3>4
    <3> HIDE DEF Before
    <3> QED
      BY <1>4, <3>1, <3>2, <3>5
  <2>4. CASE /\ faults < MaxFaults /\ PersistRecord(window, faults + 1)
             /\ given' = given /\ overrun' = overrun
    <3>1. faults + 1 \in 0..MaxFaults /\ faults <= faults + 1
      BY <1>4, <2>4
    <3>2. Before(window, given, overrun, faults + 1)
      BY <1>6, <2>4, <3>1
    <3> HIDE DEF Before
    <3> QED
      BY <1>6, <3>1, <3>2
  <2> HIDE DEF Before
  <2> QED
    BY <2>1, <2>2, <2>3, <2>4
<1>8. PICK w1 \in Windows, g1 \in Counts, o1 \in SUBSET Published, f1 \in 0..MaxFaults :
        Before(w1, g1, o1, f1)
  <2> HIDE DEF Before
  <2> QED
    BY <1>7
<1>9. /\ PersistRecord(w1, f1) /\ given' = g1 /\ overrun' = o1 /\ faults <= f1
      /\ RingOf(w1, g1, o1) /\ GivenTo(w1, g1)
      /\ w1.last \in Times
      /\ AllPriced /\ HasRecord(window) => HasRecord(w1)
  BY <1>8
<1> HIDE DEF Before
<1>10. /\ window' = [w1 EXCEPT !.minute = MinuteOf(sweep.at)]
       /\ faults' \in 0..MaxFaults /\ f1 <= faults'
       /\ \/ row' = BuildCurrentRecord(w1, sweep.long, sweep.loaded, sweep.at)
          \/ row' = row /\ (faults' > 0 \/ ~HasRecord(w1))
  BY <1>4, <1>9 DEF PersistRecord
<1>11. MinuteOf(sweep.at) \in Nat
  BY <1>5, MinuteBegan
<1>12. /\ window' \in Windows /\ window' # None
       /\ window'.seeded = w1.seeded /\ window'.seededAt = w1.seededAt
       /\ window'.last = w1.last /\ window'.priced = w1.priced
       /\ window'.minute = MinuteOf(sweep.at) /\ window'.ring = w1.ring
  <2>1. /\ window' \in Windows
        /\ window'.seeded = w1.seeded /\ window'.seededAt = w1.seededAt
        /\ window'.last = w1.last /\ window'.priced = w1.priced
        /\ window'.minute = MinuteOf(sweep.at) /\ window'.ring = w1.ring
    BY <1>9, <1>10, <1>11 DEF Windows
  <2> QED
    BY <2>1, NoneAssumption
<1>13. LET r == BuildCurrentRecord(w1, sweep.long, sweep.loaded, sweep.at)
       IN  r \in Records /\ r.at = sweep.at /\ r.loaded = sweep.loaded /\ RowOf(r)
  <2>1. SlotsOwn(w1, g1)
    BY <1>9 DEF RingOf
  <2> QED
    BY <1>1, <1>5, <1>9, <2>1, RecordIs
<1>14. \/ /\ row' \in Records /\ row' # None /\ row'.at = sweep.at
          /\ row'.loaded = sweep.loaded /\ RowOf(row')
       \/ row' = row /\ (faults' > 0 \/ ~HasRecord(w1))
  BY <1>10, <1>13, NoneAssumption
<1> HIDE DEF since
<1>15. StatsType'
  BY <1>1, <1>2, <1>3, <1>9, <1>10, <1>12 DEF StatsType, LogType
<1>16. TimeInv'
  BY <1>2 DEF TimeInv
<1>17. GivenInv'
  <2>1. \A j, k \in 1..Len(queue') : j < k => queue'[j] < queue'[k]
    BY <1>1, <1>2 DEF GivenInv
  <2>2. GivenTo(window, given)'
    BY <1>2, <1>3, <1>9, <1>12 DEF GivenTo
  <2> QED
    BY <1>12, <2>1, <2>2 DEF GivenInv
<1>18. RingInv'
  <2>1. now' \in Nat /\ now <= now'
    BY <1>2, <1>4
  <2>2. RingOf(window', given', overrun')
    BY <1>9, <1>12 DEF RingOf, SlotsOwn, Holds
  <2> QED
    BY <1>1, <1>2, <1>4, <2>1, <2>2, RingSame DEF RingInv
<1>19. SweepInv'
  BY <1>2 DEF SweepInv
<1>20. RowInv'
  <2>1. row' # None => /\ row' \in Records /\ row'.at <= now /\ row'.loaded <= projected
                       /\ RowOf(row')
    BY <1>1, <1>5, <1>14 DEF RowInv
  <2>2. row' # None => RowOf(row)'
    BY <1>2, <2>1, RowSame
  <2> QED
    BY <1>2, <2>1, <2>2 DEF RowInv
<1>21. TrackInv'
  <2>1. ASSUME faults' = 0, AllPriced'
        PROVE  /\ HasRecord(window)'
               /\ row' # None /\ MinuteOf(row'.at) = window'.minute
               /\ swept' /\ sweep' = None => window'.minute = MinuteOf(now')
    <3>1. faults = 0 /\ AllPriced
      BY <1>2, <1>3, <1>4, <1>9, <1>10, <2>1 DEF AllPriced, Priced
    <3>2. HasRecord(window)
      BY <1>1, <1>5, <3>1 DEF TrackInv
    <3>3. HasRecord(w1)
      BY <1>9, <3>1, <3>2
    <3>4. HasRecord(window)'
      BY <1>12, <3>3 DEF HasRecord
    <3>5. row' # None /\ row'.at = sweep.at
      BY <1>14, <2>1, <3>3
    <3> QED
      BY <1>2, <1>5, <1>12, <3>4, <3>5
  <2> QED
    BY <2>1 DEF TrackInv, MinuteOf
<1> QED
  BY <1>15, <1>16, <1>17, <1>18, <1>19, <1>20, <1>21 DEF StatsInv

-----------------------------------------------------------------------------
LEMMA NextInv ==
  ASSUME StatsInv, [Next]_vars
  PROVE  StatsInv'
<1>1. CASE Next
  BY <1>1, TradeInv, ProjectInv, TickInv, HandleTradeInv, SweepTargetsInv, SweepPersistInv,
     SubscribeInv, RestartInv DEF Next
<1>2. CASE UNCHANGED vars
  BY <1>2 DEF vars, StatsInv, StatsType, LogType, TimeInv, GivenInv, GivenTo, RingInv, RingOf,
     SlotsOwn, Holds, Young, SweepInv, LongOf, InView, RowInv, RowOf, TrackInv, AllPriced,
     Priced, HasRecord, MinuteOf, Published
<1> QED
  BY <1>1, <1>2

(* The invariant from which the theorems about the statistics follow, for  *)
(* trades of any time that come in any order.                              *)
THEOREM StatsInvariant == Spec => []StatsInv
<1> QED
  BY InitInv, NextInv, PTL DEF Spec

(* Every variable keeps its type, the feed's queue its capacity, and every *)
(* bucket lies in the slot of its second (getWindow, appendSecondBucket).  *)
THEOREM StatsTypes == Spec => []TypeOK
<1>1. StatsInv => TypeOK
  <2> SUFFICES ASSUME StatsInv PROVE TypeOK
    OBVIOUS
  <2>1. StatsType /\ GivenInv /\ RingInv /\ LogType
    BY DEF StatsInv, StatsType
  <2>2. given \in [Ids -> 0..2]
    <3>1. given \in [Ids -> Nat] /\ \A i \in Ids : given[i] <= 2
      BY <2>1 DEF StatsType, Counts, GivenInv, GivenTo
    <3> QED
      BY <3>1
  <2>3. window # None => WindowOK
    <3> SUFFICES ASSUME window # None PROVE WindowOK
      OBVIOUS
    <3>1. window \in Windows /\ window.last \in Times /\ SlotsOwn(window, given)
      BY <2>1 DEF StatsType, RingInv, RingOf
    <3>2. window.seeded \in BOOLEAN /\ window.ring \in [0..(W - 1) -> Buckets]
      BY <3>1 DEF Windows
    <3>3. \A k \in 0..(W - 1), i \in Ids : window.ring[k].count[i] \in 0..2
      <4>1. \A k \in 0..(W - 1), i \in Ids : window.ring[k].count[i] \in Nat
        BY <3>2 DEF Buckets, Counts
      <4>2. \A i \in Ids : given[i] \in 0..2
        BY <2>2
      <4> QED
        BY <3>1, <4>1, <4>2 DEF SlotsOwn
    <3> QED
      BY <3>1, <3>2, <3>3 DEF WindowOK, SlotsOwn
  <2> QED
    BY <2>1, <2>2, <2>3 DEF TypeOK, StatsType, LogType
<1> QED
  BY <1>1, StatsInvariant, PTL

(* Trades of the last 5m are in the ring as often as the window was given  *)
(* them, in whatever order and however late trades come: the only ones     *)
(* missing had their slot taken by an out-of-time trade, or were ahead of  *)
(* the clock themselves (ensureWindowSeeded, recordTrade).                 *)
THEOREM RingKeepsYoungTrades == Spec => []RingHolds
<1>1. StatsInv => RingHolds
  <2> SUFFICES ASSUME StatsInv, window # None PROVE RingHolds
    BY DEF RingHolds
  <2>1. RingOf(window, given, overrun) /\ LogType /\ now \in Nat
    BY DEF StatsInv, RingInv, StatsType
  <2>2. \A i \in Published : i \in Ids /\ trades[i].ts \in Int
    BY <2>1, TradeIs
  <2>3. \A i \in Published : ~OutOfTime(i) => Young(i)
    BY <2>1, <2>2, Lengths DEF OutOfTime, Young
  <2> QED
    BY <2>1, <2>2, <2>3 DEF RingHolds, RingOf, SlotsOwn, Holds
<1> QED
  BY <1>1, StatsInvariant, PTL

(* No trade is counted more than twice, and none twice that the view did   *)
(* not hold when the window was seeded.                                    *)
THEOREM OnlySeedDoubles == Spec => []SeedDoublesAtMost
<1>1. StatsInv => SeedDoublesAtMost
  BY DEF StatsInv, GivenInv, GivenTo, SeedDoublesAtMost
<1> QED
  BY <1>1, StatsInvariant, PTL

(* 5m counts trades of the last 5m alone, and the long windows of a row    *)
(* join it in one minute, but for trades that the view leaves out          *)
(* (summarizeSecondBuckets, buildCurrentRecord).                           *)
THEOREM LongJoinsShort == Spec => []LongIsShortPlusOlder
<1>1. StatsInv => LongIsShortPlusOlder
  <2> SUFFICES ASSUME StatsInv, row # None PROVE LongIsShortPlusOlder
    BY DEF LongIsShortPlusOlder
  <2>1. RowOf(row) /\ LogType
    BY DEF StatsInv, RowInv, StatsType
  <2>2. \A i \in Published : i \in Ids /\ trades[i].ts \in Int
    BY <2>1, TradeIs
  <2>3. row.at \in Nat /\ W \in Nat
    BY Lengths DEF StatsInv, RowInv, Records
  <2>4. \A i \in Published : LET age == row.at - trades[i].ts
                             IN  0 <= age /\ age < W => age \in 0..(W - 1)
    BY <2>2, <2>3
  <2> QED
    BY <2>1, <2>2, <2>4 DEF LongIsShortPlusOlder, RowOf
<1> QED
  BY <1>1, StatsInvariant, PTL

(* While nothing fails, the row of a swept window shows in 5m no trade     *)
(* that left it a minute ago (needsRefresh, Sweep).                        *)
THEOREM SweptRowIsFresh == Spec => []RowFreshWhileTracked
<1>1. StatsInv => RowFreshWhileTracked
  <2> SUFFICES ASSUME StatsInv, window # None, window.minute > 0, faults = 0, AllPriced,
                      swept, sweep = None, row # None,
                      NEW i \in Published, row.m5[i] > 0
               PROVE  now < trades[i].ts + W + M
    BY DEF RowFreshWhileTracked, RowFresh, AllPriced
  <2>1. /\ StatsType /\ LogType /\ RowOf(row) /\ row \in Records /\ TrackInv
    BY DEF StatsInv, RowInv, StatsType
  <2>2. MinuteOf(row.at) = MinuteOf(now)
    BY <2>1 DEF TrackInv
  <2>3. now \in Nat /\ row.at \in Nat /\ i \in Ids /\ trades[i].ts \in Int
    BY <2>1, TradeIs DEF StatsType, Records
  <2>4. MinuteOf(row.at) \in Nat /\ MinuteOf(row.at) <= row.at /\ now < MinuteOf(now) + M
    BY <2>3, MinuteBegan
  <2>5. row.at - trades[i].ts < W
    BY <2>1, <2>3 DEF RowOf
  <2>6. W \in Nat /\ M \in Nat
    BY Lengths
  <2> QED
    BY <2>2, <2>3, <2>4, <2>5, <2>6
<1> QED
  BY <1>1, StatsInvariant, PTL
=============================================================================
