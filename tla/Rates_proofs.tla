---------------------------- MODULE Rates_proofs ----------------------------
(***************************************************************************)
(* Proofs about the limiters of Accounts: for every table size, limit,     *)
(* window length and timing of requests, and any number of addresses, no   *)
(* limiter lets more through than RatesBounded says.                       *)
(***************************************************************************)
EXTENDS Accounts, TLAPS

\* The last units of work are among those a window counted, everything before
\* them happened when it started at the latest, and what is a whole limit further
\* back happened a whole window earlier.
Explains(w, n, length, times) ==
    /\ w.count <= n
    /\ \A j \in DOMAIN times : j + w.count <= Len(times) =>
         /\ times[j] <= w.start
         /\ j + n + w.count <= Len(times) => times[j] + length <= w.start

\* A new window may start at t: all but the last limit of work is a window old.
Settled(times, n, length, t) == \A j \in DOMAIN times :
    j + n <= Len(times) => times[j] + length <= t

\* A window that starts later than now is from before the clock was set back, and
\* nothing was let through since.
Reached(w, times, t) == w.start <= t \/ times = << >>

Window == [start : Nat, count : Nat]
Slot == [ip : Clients \cup {None}, start : Nat, count : Nat]

WindowOK(w, n, length, times, t) ==
    /\ w \in Window /\ Reached(w, times, t)
    /\ IF w.start = 0 THEN Settled(times, n, length, t) ELSE Explains(w, n, length, times)
    /\ AtMost(2 * n, times, length)

\* The window of one second: what it did not count is of an earlier second.
BurstOK(w, n, times, t) ==
    /\ w \in Window /\ Reached(w, times, t)
    /\ w.start = 0 => times = << >>
    /\ w.count <= n
    /\ \A j \in DOMAIN times :
         /\ times[j] <= w.start
         /\ j + w.count <= Len(times) => times[j] < w.start
    /\ AtMost(n, times, 1)

TableOK(table, n, length, logs, t) ==
    /\ table \in [1..ThrottleSlots -> Slot]
    /\ \A i \in 1..ThrottleSlots : table[i].ip # None =>
         /\ table[i].start # 0 /\ Reached(table[i], logs[table[i].ip], t)
         /\ Explains(table[i], n, length, logs[table[i].ip])
         /\ \A j \in 1..ThrottleSlots : table[j].ip = table[i].ip => j = i
    /\ \A a \in Clients :
         /\ (\A i \in 1..ThrottleSlots : table[i].ip # a) => Settled(logs[a], n, length, t)
         /\ AtMost(2 * n, logs[a], length)

RegOK(table, logs, t) ==
    config.regLimit # 0 => TableOK(table, config.regLimit, RegWindow, logs, t)
MailOK(limit, logs, t) ==
    /\ config.mailPerIp # 0 => TableOK(limit.table, config.mailPerIp, MailWindow, logs, t)
    /\ WindowOK(limit.global, config.mailGlobal, Minute, logs[None], t)
AuthOK(limit, logs, t) ==
    /\ config.perIp # 0 => TableOK(limit.table, config.perIp, ArgonWindow, logs, t)
    /\ config.global # 0 => WindowOK(limit.global, config.global, Minute, logs[None], t)
    /\ config.burst # 0 => BurstOK(limit.burst, config.burst, logs[None], t)

RatesInv ==
    /\ config \in Configs
    /\ now \in Nat \ {0}
    /\ work \in [Kinds -> [Clients \cup {None} -> Seq(1..now)]]
    /\ RegOK(regTable, work["register"], now)
    /\ MailOK(mailLimit, work["mail"], now)
    /\ AuthOK(argon, work["argon2"], now)
-----------------------------------------------------------------------------
(* Windows                                                                 *)

LEMMA Appended ==
    ASSUME NEW S, NEW times \in Seq(S), NEW t \in S
    PROVE  /\ Append(times, t) \in Seq(S)
           /\ Len(times) \in Nat /\ DOMAIN times = 1..Len(times)
           /\ \A j \in DOMAIN times : times[j] \in S
           /\ Len(Append(times, t)) = Len(times) + 1
           /\ DOMAIN Append(times, t) = 1..(Len(times) + 1)
           /\ \A j \in DOMAIN times : Append(times, t)[j] = times[j]
           /\ Append(times, t)[Len(times) + 1] = t
OBVIOUS

LEMMA EmptyLog ==
    ASSUME NEW n, NEW length, NEW t
    PROVE  Settled(<< >>, n, length, t) /\ AtMost(n, << >>, length)
BY DEF Settled, AtMost

\* A window that is over leaves work that a new one may follow.
LEMMA OverIsSettled ==
    ASSUME NEW t \in Nat, NEW times \in Seq(1..t), NEW n \in Nat, NEW length \in Nat,
           NEW w, w.start \in Nat, w.count \in Nat,
           Explains(w, n, length, times), w.start + length <= t
    PROVE  Settled(times, n, length, t)
<1>1. PICK m \in Nat : m = Len(times) /\ DOMAIN times = 1..m
  OBVIOUS
<1>2. \A j \in 1..m : times[j] \in 1..t
  BY <1>1, SMTT(30)
<1>3. /\ w.count <= n
      /\ \A j \in 1..m : j + w.count <= m => times[j] <= w.start
  BY <1>1, Zenon DEF Explains
<1>4. PICK k \in Nat, st \in Nat : k = w.count /\ st = w.start
  OBVIOUS
<1>5. ASSUME NEW j \in 1..m, j + n <= m PROVE times[j] + length <= t
  <2>1. j + k <= m
    BY <1>3, <1>4, <1>5, SMTT(30)
  <2>2. times[j] <= st
    BY <1>3, <1>4, <2>1
  <2>3. times[j] \in Nat /\ st + length <= t
    BY <1>2, <1>4
  <2>4. QED  BY <2>2, <2>3
<1>6. QED  BY <1>1, <1>5 DEF Settled

LEMMA SettledStarts ==
    ASSUME NEW t \in Nat, NEW times \in Seq(1..t), NEW n \in Nat, NEW length \in Nat,
           Settled(times, n, length, t),
           NEW w, w.start = t, w.count = 0
    PROVE  Explains(w, n, length, times)
<1>1. Len(times) \in Nat /\ DOMAIN times = 1..Len(times) /\ \A j \in DOMAIN times : times[j] \in 1..t
  OBVIOUS
<1>2. QED  BY <1>1 DEF Settled, Explains

\* Time passes, or the log gets longer under another address.
LEMMA SettledStays ==
    ASSUME NEW t \in Nat, NEW times \in Seq(1..t), NEW n \in Nat, NEW length \in Nat,
           Settled(times, n, length, t), NEW u \in Nat, t <= u
    PROVE  Settled(times, n, length, u)
<1>1. \A j \in DOMAIN times : times[j] \in Nat
  OBVIOUS
<1>2. QED  BY <1>1 DEF Settled

LEMMA NotTheLast ==
    ASSUME NEW m \in Nat, NEW x \in 1..(m + 1), x # m + 1
    PROVE  x \in 1..m
OBVIOUS

LEMMA FarBack ==
    ASSUME NEW j \in Nat, NEW n \in Nat, NEW k \in Nat, NEW m \in Nat, k < n, j + 2 * n = m + 1
    PROVE  j + n + k <= m /\ j + k <= m
OBVIOUS

LEMMA CountUp ==
    ASSUME NEW w \in Window
    PROVE  LET v == [w EXCEPT !.count = @ + 1]
           IN v \in Window /\ v.start = w.start /\ v.count = w.count + 1
BY DEF Window

\* What Explains and AtMost say of the times of work, by index.
Behind(times, m, n, k, st, length) == \A j \in 1..m : j + k <= m =>
    times[j] <= st /\ (j + n + k <= m => times[j] + length <= st)
Apart(times, m, n, length) == \A j \in 1..m :
    j + n \in 1..m => times[j] + length <= times[j + n]
Before(times, m, k, t) == \A j \in 1..m : j + k <= m => times[j] < t

LEMMA OneMore ==
    ASSUME NEW t \in Nat \ {0}, NEW times \in Seq(1..t), NEW n \in Nat, NEW length \in Nat,
           NEW st \in Nat, st <= t, NEW k \in Nat, k < n,
           Behind(times, Len(times), n, k, st, length), Apart(times, Len(times), 2 * n, length)
    PROVE  /\ Behind(Append(times, t), Len(times) + 1, n, k + 1, st, length)
           /\ Apart(Append(times, t), Len(times) + 1, 2 * n, length)
<1> PICK m \in Nat : m = Len(times)
  OBVIOUS
<1> PICK more : more = Append(times, t)
  BY Zenon
<1>1. /\ \A j \in 1..m : more[j] = times[j] /\ times[j] \in 1..t
      /\ more[m + 1] = t
  BY Appended, SMTT(30)
<1>2. ASSUME NEW j \in 1..(m + 1), j + (k + 1) <= m + 1
      PROVE  more[j] <= st /\ (j + n + (k + 1) <= m + 1 => more[j] + length <= st)
  <2>1. j \in 1..m /\ j + k <= m
    BY <1>2, SMTT(30)
  <2>2. QED  BY <1>1, <2>1 DEF Behind
<1>3. ASSUME NEW j \in 1..(m + 1), j + 2 * n \in 1..(m + 1)
      PROVE  more[j] + length <= more[j + 2 * n]
  <2>1. j \in 1..m
    BY <1>3
  <2>2. CASE j + 2 * n = m + 1
    <3>0. j \in Nat
      BY <2>1
    <3>1. j + n + k <= m /\ j + k <= m
      BY <2>2, <3>0, FarBack, Zenon
    <3>2. times[j] + length <= st
      BY <2>1, <3>1 DEF Behind
    <3>3. times[j] \in Nat /\ more[j] = times[j] /\ more[j + 2 * n] = t
      BY <1>1, <2>1, <2>2, SMT, SMTT(30)
    <3>4. QED  BY <3>2, <3>3, SMT, SMTT(30)
  <2>3. CASE j + 2 * n # m + 1
    <3>1. j + 2 * n \in 1..m
      BY <1>3, <2>3, NotTheLast, Zenon
    <3>2. QED  BY <1>1, <2>1, <3>1 DEF Apart
  <2>4. QED  BY <2>2, <2>3, Zenon
<1>4. QED  BY <1>1, <1>2, <1>3, Zenon DEF Behind, Apart

LEMMA OneMoreNow ==
    ASSUME NEW t \in Nat \ {0}, NEW times \in Seq(1..t), NEW n \in Nat, NEW k \in Nat, k < n,
           Before(times, Len(times), k, t), Apart(times, Len(times), n, 1)
    PROVE  /\ Before(Append(times, t), Len(times) + 1, k + 1, t)
           /\ Apart(Append(times, t), Len(times) + 1, n, 1)
<1> PICK m \in Nat : m = Len(times)
  OBVIOUS
<1> PICK more : more = Append(times, t)
  BY Zenon
<1>1. /\ \A j \in 1..m : more[j] = times[j] /\ times[j] \in 1..t
      /\ more[m + 1] = t
  BY Appended
<1>2. ASSUME NEW j \in 1..(m + 1), j + (k + 1) <= m + 1
      PROVE  more[j] < t
  <2>1. j \in 1..m /\ j + k <= m
    BY <1>2
  <2>2. QED  BY <1>1, <2>1 DEF Before
<1>3. ASSUME NEW j \in 1..(m + 1), j + n \in 1..(m + 1)
      PROVE  more[j] + 1 <= more[j + n]
  <2>1. j \in 1..m
    BY <1>3
  <2>2. CASE j + n = m + 1
    <3>1. j + k <= m
      BY <2>1, <2>2
    <3>2. times[j] \in Nat /\ more[j] = times[j] /\ more[j + n] = t
      BY <1>1, <2>1, <2>2
    <3>3. times[j] < t
      BY <2>1, <3>1 DEF Before
    <3>4. QED  BY <3>2, <3>3
  <2>3. CASE j + n # m + 1
    <3>1. j + n \in 1..m
      BY <1>3, <2>3, NotTheLast, Zenon
    <3>2. QED  BY <1>1, <2>1, <3>1 DEF Apart
  <2>4. QED  BY <2>2, <2>3, Zenon
<1>4. QED  BY <1>1, <1>2, <1>3, Zenon DEF Before, Apart

\* A window that is not full counts one more unit of work.
LEMMA WindowCounts ==
    ASSUME NEW t \in Nat \ {0}, NEW times \in Seq(1..t), NEW n \in Nat, NEW length \in Nat,
           NEW w, w.start \in Nat, w.start <= t, w.count \in Nat, w.count < n,
           Explains(w, n, length, times), AtMost(2 * n, times, length),
           NEW v, v.start = w.start, v.count = w.count + 1
    PROVE  /\ Explains(v, n, length, Append(times, t))
           /\ AtMost(2 * n, Append(times, t), length)
<1>1. PICK m \in Nat : m = Len(times) /\ DOMAIN times = 1..m
  OBVIOUS
<1>2. PICK k \in Nat : k = w.count /\ v.count = k + 1
  OBVIOUS
<1>3. PICK st \in Nat : st = w.start /\ v.start = st
  OBVIOUS
<1>4. PICK more : more = Append(times, t)
  BY Zenon
<1>5. Behind(times, m, n, k, st, length)
  BY <1>1, <1>2, <1>3, Zenon DEF Explains, Behind
<1>6. Apart(times, m, 2 * n, length)
  BY <1>1, Zenon DEF AtMost, Apart
<1>7. Behind(more, m + 1, n, k + 1, st, length) /\ Apart(more, m + 1, 2 * n, length)
  <2>1. k < n /\ st <= t
    BY <1>2, <1>3
  <2>2. QED  BY <1>1, <1>4, <1>5, <1>6, <2>1, OneMore
<1>8. k + 1 <= n
  BY <1>2, SMT, SMTT(30)
<1>9. Explains(v, n, length, more)
  <2>1. Len(more) = m + 1 /\ DOMAIN more = 1..(m + 1)
    BY <1>1, <1>4, Appended
  <2>2. QED  BY <1>2, <1>3, <1>7, <1>8, <2>1, Zenon DEF Explains, Behind
<1>10. AtMost(2 * n, more, length)
  <2>1. DOMAIN more = 1..(m + 1)
    BY <1>1, <1>4, Appended
  <2>2. QED  BY <1>7, <2>1 DEF AtMost, Apart
<1>11. QED  BY <1>4, <1>9, <1>10

\* A server-wide window rolls over when it is over, and stays good.
LEMMA WindowRolls ==
    ASSUME NEW t \in Nat \ {0}, NEW times \in Seq(1..t), NEW n \in Nat,
           NEW length \in Nat, NEW w, WindowOK(w, n, length, times, t)
    PROVE  IF Over(w, t, length) THEN WindowOK([start |-> t, count |-> 0], n, length, times, t)
                                 ELSE w.start # 0 /\ w.start <= t
<1>1. w \in Window /\ w.start \in Nat /\ w.count \in Nat /\ Reached(w, times, t)
  BY DEF WindowOK, Window
<1>2. CASE Over(w, t, length)
  <2>1. Settled(times, n, length, t)
    <3>1. CASE times = << >>
      BY <3>1, EmptyLog, Zenon
    <3>2. CASE w.start <= t
      BY <1>1, <1>2, <3>2, OverIsSettled DEF WindowOK, Over
    <3>3. QED  BY <1>1, <3>1, <3>2, Zenon DEF Reached
  <2>2. PICK v : v = [start |-> t, count |-> 0]
    BY Zenon
  <2>3. v \in Window /\ v.start = t /\ v.count = 0
    BY <2>2 DEF Window
  <2>4. QED  BY <1>2, <2>1, <2>2, <2>3, SettledStarts DEF WindowOK, Reached
<1>3. CASE ~Over(w, t, length)
  BY <1>1, <1>3 DEF Over
<1>4. QED  BY <1>2, <1>3

LEMMA WindowCharges ==
    ASSUME NEW t \in Nat \ {0}, NEW times \in Seq(1..t), NEW n \in Nat,
           NEW length \in Nat, NEW w, WindowOK(w, n, length, times, t),
           w.start # 0, w.start <= t, w.count < n
    PROVE  WindowOK([w EXCEPT !.count = @ + 1], n, length, Append(times, t), t)
<1>1. w \in Window /\ w.start \in Nat /\ w.count \in Nat
  BY DEF WindowOK, Window
<1>2. PICK v : v = [w EXCEPT !.count = @ + 1]
  BY Zenon
<1>3. v \in Window /\ v.start = w.start /\ v.count = w.count + 1
  BY <1>1, <1>2, CountUp
<1>4. Explains(w, n, length, times) /\ AtMost(2 * n, times, length)
  BY DEF WindowOK
<1>5. Explains(v, n, length, Append(times, t)) /\ AtMost(2 * n, Append(times, t), length)
  BY <1>1, <1>3, <1>4, WindowCounts
<1>6. QED  BY <1>1, <1>2, <1>3, <1>5 DEF WindowOK, Reached

LEMMA BurstRolls ==
    ASSUME NEW t \in Nat \ {0}, NEW times \in Seq(1..t), NEW n \in Nat,
           NEW w, BurstOK(w, n, times, t)
    PROVE  IF Over(w, t, 1) THEN BurstOK([start |-> t, count |-> 0], n, times, t)
                            ELSE w.start = t
<1>1. /\ w.start \in Nat /\ w.count \in Nat /\ Reached(w, times, t) /\ AtMost(n, times, 1)
  BY DEF BurstOK, Window
<1>2. /\ Len(times) \in Nat /\ DOMAIN times = 1..Len(times)
      /\ \A j \in DOMAIN times : times[j] \in 1..t /\ times[j] <= w.start
      /\ w.start = 0 => times = << >>
  BY DEF BurstOK
<1>3. CASE Over(w, t, 1)
  <2>1. \A j \in DOMAIN times : times[j] < t
    <3>1. CASE times = << >>
      BY <3>1
    <3>2. CASE w.start <= t
      BY <1>1, <1>2, <1>3, <3>2 DEF Over
    <3>3. QED  BY <1>1, <3>1, <3>2, Zenon DEF Reached
  <2>2. PICK v : v = [start |-> t, count |-> 0]
    BY Zenon
  <2>3. v \in Window /\ v.start = t /\ v.count = 0
    BY <2>2 DEF Window
  <2>4. BurstOK(v, n, times, t)
    BY <1>1, <1>2, <2>1, <2>3 DEF BurstOK, Reached
  <2>5. QED  BY <1>3, <2>2, <2>4
<1>4. CASE ~Over(w, t, 1)
  BY <1>1, <1>4 DEF Over
<1>5. QED  BY <1>3, <1>4

LEMMA BurstCharges ==
    ASSUME NEW t \in Nat \ {0}, NEW times \in Seq(1..t), NEW n \in Nat,
           NEW w, BurstOK(w, n, times, t), w.start = t, w.count < n
    PROVE  BurstOK([w EXCEPT !.count = @ + 1], n, Append(times, t), t)
<1>1. w \in Window /\ w.start \in Nat /\ w.count \in Nat /\ AtMost(n, times, 1)
  BY DEF BurstOK, Window
<1>2. PICK v : v = [w EXCEPT !.count = @ + 1]
  BY Zenon
<1>3. v \in Window /\ v.start = t /\ v.count = w.count + 1
  BY <1>1, <1>2, CountUp
<1>4. PICK m \in Nat : m = Len(times) /\ DOMAIN times = 1..m
  OBVIOUS
<1>5. PICK k \in Nat : k = w.count /\ v.count = k + 1
  BY <1>1, <1>3
<1>6. PICK more : more = Append(times, t)
  BY Zenon
<1>7. Before(times, m, k, t)
  BY <1>4, <1>5, Zenon DEF BurstOK, Before
<1>8. Apart(times, m, n, 1)
  BY <1>1, <1>4, Zenon DEF AtMost, Apart
<1>9. Before(more, m + 1, k + 1, t) /\ Apart(more, m + 1, n, 1)
  <2>1. k < n
    BY <1>5
  <2>2. QED  BY <1>4, <1>6, <1>7, <1>8, <2>1, OneMoreNow
<1>10. /\ more \in Seq(1..t) /\ Len(more) = m + 1 /\ DOMAIN more = 1..(m + 1)
       /\ k + 1 <= n
  <2>1. more \in Seq(1..t) /\ Len(more) = m + 1 /\ DOMAIN more = 1..(m + 1)
    BY <1>4, <1>6, Appended
  <2>2. k + 1 <= n
    BY <1>5
  <2>3. QED  BY <2>1, <2>2, Zenon
<1>11. \A j \in DOMAIN more : more[j] <= t /\ (j + (k + 1) <= m + 1 => more[j] < t)
  <2>1. \A j \in 1..(m + 1) : more[j] \in 1..t
    BY <1>10
  <2>2. QED  BY <1>9, <1>10, <2>1, SMTT(30) DEF Before
<1>12. AtMost(n, more, 1)
  BY <1>9, <1>10, Zenon DEF AtMost, Apart
<1>13. BurstOK(v, n, more, t)
  BY <1>3, <1>5, <1>10, <1>11, <1>12 DEF BurstOK, Reached
<1>14. QED  BY <1>2, <1>6, <1>13, Zenon

-----------------------------------------------------------------------------
(* Tables of slots                                                         *)

INSTANCE WellFoundedInduction

\* Slots are numbered, so a set of them that is not empty has a first.
LEMMA FirstIsIn ==
    ASSUME NEW S \in SUBSET Nat, S # {}
    PROVE  FirstOf(S) \in S
<1>1. IsWellFoundedOn(OpToRel(<, Nat), Nat)
  BY NatLessThanWellFounded, Zenon
<1>2. PICK x \in S : \A y \in S : ~(<<y, x>> \in OpToRel(<, Nat))
  BY <1>1, WFMin, Zenon
<1>3. ASSUME NEW y \in S, y < x PROVE FALSE
  <2>1. <<y, x>> \in Nat \X Nat /\ <<y, x>>[1] < <<y, x>>[2]
    BY <1>3
  <2>2. <<y, x>> \in OpToRel(<, Nat)
    BY <2>1, Zenon DEF OpToRel
  <2>3. QED  BY <1>2, <2>2, Zenon
<1>4. \A y \in S : x <= y
  BY <1>3
<1>5. QED  BY <1>4, Zenon DEF FirstOf

\* The slot found for an address is its own, or a free one when it has none.
Found(table, a, t, length, i) ==
    /\ i \in 1..ThrottleSlots
    /\ \/ table[i].ip = a
       \/ /\ \A j \in 1..ThrottleSlots : table[j].ip # a
          /\ table[i].ip = None \/ Over(table[i], t, length)

LEMMA SlotFound ==
    ASSUME NEW table \in [1..ThrottleSlots -> Slot], NEW a \in Clients, NEW t, NEW length,
           throttle_slot(table, a, t, length) # 0
    PROVE  Found(table, a, t, length, throttle_slot(table, a, t, length))
<1> PICK i : i = throttle_slot(table, a, t, length)
  OBVIOUS
<1> DEFINE own  == {j \in 1..ThrottleSlots : table[j].ip = a}
           free == {j \in 1..ThrottleSlots : table[j].ip = None \/ Over(table[j], t, length)}
<1>1. DOMAIN table = 1..ThrottleSlots /\ ThrottleSlots \in Nat
  BY ThrottleConstants
<1>2. i = CASE own # {} -> FirstOf(own) [] own = {} /\ free # {} -> FirstOf(free) [] OTHER -> 0
  BY <1>1 DEF throttle_slot
<1>3. own \in SUBSET Nat /\ free \in SUBSET Nat
  BY <1>1
<1>4. (own # {} => FirstOf(own) \in own) /\ (free # {} => FirstOf(free) \in free)
  BY <1>3, FirstIsIn, Zenon
<1>5. CASE own # {}
  <2>1. i \in own
    BY <1>2, <1>4, <1>5
  <2>2. QED  BY <2>1 DEF Found
<1>6. CASE own = {}
  <2>1. i \in free
    BY <1>2, <1>4, <1>6
  <2>2. QED  BY <1>6, <2>1 DEF Found
<1>7. QED  BY <1>5, <1>6

LEMMA NoSlotFound ==
    ASSUME NEW table \in [1..ThrottleSlots -> Slot], NEW a \in Clients, NEW t, NEW length,
           throttle_slot(table, a, t, length) = 0
    PROVE  \A j \in 1..ThrottleSlots : table[j].ip # a
<1> DEFINE own == {j \in 1..ThrottleSlots : table[j].ip = a}
<1>1. DOMAIN table = 1..ThrottleSlots /\ ThrottleSlots \in Nat
  BY ThrottleConstants
<1>2. own # {} => throttle_slot(table, a, t, length) = FirstOf(own)
  BY <1>1 DEF throttle_slot
<1>3. own \in SUBSET Nat /\ 0 \notin own
  BY <1>1
<1>4. own # {} => FirstOf(own) \in own
  BY <1>3, FirstIsIn, Zenon
<1>5. own = {}
  BY <1>2, <1>3, <1>4, Zenon
<1>6. QED  BY <1>5

Logs(t) == [Clients \cup {None} -> Seq(1..t)]

LEMMA NoneIsNoClient == None \notin Clients
BY AccountConstants

\* A slot that is over has nothing to say about its address any more.
LEMMA FreeIsSettled ==
    ASSUME NEW t \in Nat \ {0}, NEW logs \in Logs(t), NEW n \in Nat, NEW length \in Nat,
           NEW table, TableOK(table, n, length, logs, t),
           NEW i \in 1..ThrottleSlots, table[i].ip # None, Over(table[i], t, length)
    PROVE  Settled(logs[table[i].ip], n, length, t)
<1>1. table[i] \in Slot /\ table[i].ip \in Clients
  BY DEF TableOK, Slot
<1>2. table[i].start \in Nat /\ table[i].count \in Nat
  BY <1>1 DEF Slot
<1>3. /\ table[i].start # 0 /\ Reached(table[i], logs[table[i].ip], t)
      /\ Explains(table[i], n, length, logs[table[i].ip])
  BY DEF TableOK
<1>4. logs[table[i].ip] \in Seq(1..t)
  BY <1>1 DEF Logs
<1>5. CASE logs[table[i].ip] = << >>
  BY <1>5, EmptyLog, Zenon
<1>6. CASE table[i].start <= t
  <2>1. PICK s \in Nat : s = table[i].start
    BY <1>2
  <2>2. s <= t /\ s # 0 /\ (s = 0 \/ t < s \/ t - s >= length)
    BY <1>3, <1>6, <2>1, Zenon DEF Over
  <2>3. s + length <= t
    BY <2>2
  <2>4. QED  BY <1>2, <1>3, <1>4, <2>1, <2>3, OverIsSettled, SMT, SMTT(30)
<1>7. QED  BY <1>3, <1>5, <1>6, Zenon DEF Reached

\* No slot of the address starts later than now.
Current(table, a, t) == \A j \in 1..ThrottleSlots : table[j].ip = a => table[j].start <= t

\* Claiming a slot for an address forgets nothing that a limit depends on.
LEMMA ClaimKeeps ==
    ASSUME NEW t \in Nat \ {0}, NEW logs \in Logs(t), NEW n \in Nat, NEW length \in Nat,
           NEW table, TableOK(table, n, length, logs, t), NEW a \in Clients
    PROVE  /\ TableOK(Claimed(table, a, t, length), n, length, logs, t)
           /\ Current(Claimed(table, a, t, length), a, t)
<1>0. table \in [1..ThrottleSlots -> Slot] /\ a # None
  BY NoneIsNoClient DEF TableOK
<1>1. PICK i : i = throttle_slot(table, a, t, length)
  OBVIOUS
<1>2. CASE i = 0 \/ (table[i].ip = a /\ ~Over(table[i], t, length))
  <2>1. Claimed(table, a, t, length) = table
    BY <1>1, <1>2 DEF Claimed
  <2>2. CASE i = 0
    <3>1. \A j \in 1..ThrottleSlots : table[j].ip # a
      BY <1>0, <1>1, <2>2, NoSlotFound, Zenon
    <3>2. QED  BY <2>1, <3>1, Zenon DEF Current
  <2>3. CASE i # 0
    <3>1. Found(table, a, t, length, i)
      BY <1>0, <1>1, <2>3, SlotFound
    <3>2. i \in 1..ThrottleSlots /\ table[i].ip = a /\ ~Over(table[i], t, length)
      BY <1>2, <2>3, <3>1, Zenon DEF Found
    <3>3. table[i].start \in Nat /\ ~(t < table[i].start)
      BY <1>0, <3>2 DEF Over, Slot
    <3>4. table[i].start <= t
      BY <3>3
    <3>5. \A j \in 1..ThrottleSlots : table[j].ip = a => j = i
      BY <1>0, <3>2, Zenon DEF TableOK
    <3>6. QED  BY <2>1, <3>4, <3>5, Zenon DEF Current
  <2>4. QED  BY <2>2, <2>3
<1>3. CASE i # 0 /\ (table[i].ip # a \/ Over(table[i], t, length))
  <2> DEFINE slot == [ip |-> a, start |-> t, count |-> 0]
             new  == [table EXCEPT ![i] = slot]
  <2>1. Claimed(table, a, t, length) = new
    BY <1>1, <1>3 DEF Claimed
  <2>2. /\ i \in 1..ThrottleSlots
        /\ \/ table[i].ip = a
           \/ /\ \A j \in 1..ThrottleSlots : table[j].ip # a
              /\ table[i].ip = None \/ Over(table[i], t, length)
    <3>1. Found(table, a, t, length, i)
      BY <1>0, <1>1, <1>3, SlotFound
    <3>2. QED  BY <3>1 DEF Found
  <2>3. /\ slot \in Slot /\ slot.ip = a /\ slot.start = t /\ slot.count = 0
        /\ new \in [1..ThrottleSlots -> Slot] /\ new[i] = slot
        /\ \A j \in 1..ThrottleSlots : j # i => new[j] = table[j]
    BY <1>0, <2>2, Zenon DEF Slot
  <2> HIDE DEF slot, new
  <2>4. \A j \in 1..ThrottleSlots : table[j].ip = a => j = i
    BY <1>0, <2>2, SMT, SMTT(30) DEF TableOK
  <2>5. Settled(logs[a], n, length, t)
    <3>1. CASE table[i].ip = a
      <4>1. Over(table[i], t, length) /\ table[i].ip # None
        BY <1>0, <1>3, <3>1
      <4>2. Settled(logs[table[i].ip], n, length, t)
        BY <2>2, <4>1, FreeIsSettled, SMT, SMTT(30)
      <4>3. QED  BY <3>1, <4>2
    <3>2. CASE table[i].ip # a
      BY <2>2, <3>2 DEF TableOK
    <3>3. QED  BY <3>1, <3>2
  <2>6. logs[a] \in Seq(1..t) /\ t \in Nat
    BY DEF Logs
  <2>7. Explains(slot, n, length, logs[a])
    BY <2>3, <2>5, <2>6, SettledStarts, Zenon
  <2>8. ASSUME NEW j \in 1..ThrottleSlots, new[j].ip # None
        PROVE  /\ new[j].start # 0 /\ Reached(new[j], logs[new[j].ip], t)
               /\ Explains(new[j], n, length, logs[new[j].ip])
               /\ \A k \in 1..ThrottleSlots : new[k].ip = new[j].ip => k = j
    <3>1. CASE j = i
      <4>1. \A k \in 1..ThrottleSlots : new[k].ip = new[j].ip => k = j
        BY <2>3, <2>4, <3>1
      <4>2. t # 0 /\ t <= t
        OBVIOUS
      <4>3. QED  BY <2>3, <2>7, <3>1, <4>1, <4>2, Zenon DEF Reached
    <3>2. CASE j # i
      <4>1. new[j] = table[j] /\ table[j].ip # a
        BY <2>3, <2>4, <3>2, Zenon
      <4>2. \A k \in 1..ThrottleSlots : new[k].ip = new[j].ip => k = j
        BY <2>3, <2>8, <4>1 DEF TableOK
      <4>3. QED  BY <2>8, <4>1, <4>2 DEF TableOK
    <3>3. QED  BY <3>1, <3>2
  <2>9. ASSUME NEW b \in Clients, \A j \in 1..ThrottleSlots : new[j].ip # b
        PROVE  Settled(logs[b], n, length, t)
    <3>1. b # a /\ \A j \in 1..ThrottleSlots : table[j].ip = b => j = i
      BY <2>2, <2>3, <2>9
    <3>2. CASE table[i].ip = b
      BY <2>2, <3>1, <3>2, FreeIsSettled, NoneIsNoClient, Zenon
    <3>3. CASE table[i].ip # b
      BY <3>1, <3>3 DEF TableOK
    <3>4. QED  BY <3>2, <3>3
  <2>10. \A b \in Clients : AtMost(2 * n, logs[b], length)
    BY Zenon DEF TableOK
  <2>11. TableOK(new, n, length, logs, t)
    BY <2>3, <2>8, <2>9, <2>10 DEF TableOK
  <2>12. Current(new, a, t)
    <3>1. t <= t
      OBVIOUS
    <3>2. \A j \in 1..ThrottleSlots : new[j].ip = a => j = i
      BY <2>3, <2>4, Zenon
    <3>3. QED  BY <2>3, <3>1, <3>2, Zenon DEF Current
  <2>13. QED  BY <2>1, <2>11, <2>12
<1>4. QED  BY <1>2, <1>3

LEMMA SlotUp ==
    ASSUME NEW w \in Slot
    PROVE  LET v == [w EXCEPT !.count = @ + 1]
           IN /\ w.start \in Nat /\ w.count \in Nat
              /\ v \in Slot /\ v.ip = w.ip /\ v.start = w.start /\ v.count = w.count + 1
BY DEF Slot

\* Work that the slot of an address admits is charged to it.
LEMMA ChargeKeeps ==
    ASSUME NEW t \in Nat \ {0}, NEW logs \in Logs(t), NEW n \in Nat, NEW length \in Nat,
           NEW table, TableOK(table, n, length, logs, t), NEW a \in Clients,
           Current(table, a, t), Admits(table, a, n),
           NEW more, more[a] = Append(logs[a], t),
           \A b \in Clients : b # a => more[b] = logs[b]
    PROVE  TableOK(Charged(table, a), n, length, more, t)
<1>0. table \in [1..ThrottleSlots -> Slot] /\ a # None
  BY NoneIsNoClient, Zenon DEF TableOK
<1>1. PICK i \in 1..ThrottleSlots : table[i].ip = a /\ table[i].count < n
  BY <1>0, Zenon DEF Admits
<1>2. \A j \in 1..ThrottleSlots : table[j].ip = a => j = i
  BY <1>0, <1>1 DEF TableOK
<1> DEFINE slot == [table[i] EXCEPT !.count = @ + 1]
           new  == Charged(table, a)
<1>3. /\ table[i] \in Slot /\ table[i].start \in Nat /\ table[i].count \in Nat
      /\ slot \in Slot /\ slot.ip = a /\ slot.start = table[i].start
      /\ slot.count = table[i].count + 1
  BY <1>0, <1>1, SlotUp
<1>4. new = [j \in 1..ThrottleSlots |->
                IF table[j].ip = a THEN [table[j] EXCEPT !.count = @ + 1] ELSE table[j]]
  BY <1>0 DEF Charged
<1>5. new[i] = slot /\ \A j \in 1..ThrottleSlots : j # i => new[j] = table[j]
  BY <1>1, <1>2, <1>4
<1>6. new \in [1..ThrottleSlots -> Slot]
  <2>1. \A j \in 1..ThrottleSlots : new[j] \in Slot
    BY <1>0, <1>3, <1>5, Zenon
  <2>2. QED  BY <1>4, <2>1, Zenon
<1> HIDE DEF slot, new
<1>7. /\ logs[a] \in Seq(1..t) /\ table[i].start # 0 /\ table[i].start <= t
      /\ Explains(table[i], n, length, logs[a]) /\ AtMost(2 * n, logs[a], length)
  BY <1>0, <1>1, ZenonT(40) DEF TableOK, Logs, Current
<1>8. Explains(slot, n, length, more[a]) /\ AtMost(2 * n, more[a], length)
  BY <1>1, <1>3, <1>7, WindowCounts, SMT, SMTT(30)
<1>9. ASSUME NEW j \in 1..ThrottleSlots, new[j].ip # None
      PROVE  /\ new[j].start # 0 /\ Reached(new[j], more[new[j].ip], t)
             /\ Explains(new[j], n, length, more[new[j].ip])
             /\ \A k \in 1..ThrottleSlots : new[k].ip = new[j].ip => k = j
  <2>1. CASE j = i
    <3>1. \A k \in 1..ThrottleSlots : new[k].ip = new[j].ip => k = j
      BY <1>2, <1>3, <1>5, <2>1, Zenon
    <3>2. QED  BY <1>3, <1>5, <1>7, <1>8, <2>1, <3>1, Zenon DEF Reached
  <2>2. CASE j # i
    <3>1. new[j] = table[j] /\ table[j].ip # a /\ table[j].ip \in Clients
      BY <1>0, <1>2, <1>5, <1>9, <2>2 DEF Slot
    <3>2. \A k \in 1..ThrottleSlots : new[k].ip = new[j].ip => k = j
      BY <1>3, <1>5, <1>9, <3>1, Zenon DEF TableOK
    <3>3. QED  BY <1>9, <3>1, <3>2, Zenon DEF TableOK
  <2>3. QED  BY <2>1, <2>2
<1>10. ASSUME NEW b \in Clients
       PROVE  /\ (\A j \in 1..ThrottleSlots : new[j].ip # b) => Settled(more[b], n, length, t)
              /\ AtMost(2 * n, more[b], length)
  <2>1. CASE b = a
    BY <1>3, <1>5, <1>8, <2>1, Zenon
  <2>2. CASE b # a
    <3>1. \A j \in 1..ThrottleSlots : table[j].ip = b => new[j].ip = b
      BY <1>1, <1>5, <2>2, Zenon
    <3>2. QED  BY <2>2, <3>1, Zenon DEF TableOK
  <2>3. QED  BY <2>1, <2>2
<1>11. TableOK(new, n, length, more, t)
  BY <1>6, <1>9, <1>10 DEF TableOK
<1>12. QED  BY <1>11, Zenon DEF new
\* Time alone spoils nothing.
LEMMA LogsGrow ==
    ASSUME NEW t \in Nat, NEW u \in Nat, t <= u, NEW times \in Seq(1..t)
    PROVE  times \in Seq(1..u)
<1>1. 1..t \subseteq 1..u
  OBVIOUS
<1>2. QED  BY <1>1

LEMMA TableAges ==
    ASSUME NEW t \in Nat \ {0}, NEW logs \in Logs(t), NEW n \in Nat, NEW length \in Nat,
           NEW table, TableOK(table, n, length, logs, t), NEW u \in Nat, t <= u
    PROVE  TableOK(table, n, length, logs, u)
<1>1. \A a \in Clients : logs[a] \in Seq(1..t)
  BY DEF Logs
<1>2. \A a \in Clients : Settled(logs[a], n, length, t) => Settled(logs[a], n, length, u)
  BY <1>1, SettledStays
<1>3. ASSUME NEW i \in 1..ThrottleSlots, table[i].ip # None
      PROVE  Reached(table[i], logs[table[i].ip], u)
  <2>1. table[i].start \in Nat /\ Reached(table[i], logs[table[i].ip], t)
    BY <1>3 DEF TableOK, Slot
  <2>2. QED  BY <2>1 DEF Reached
<1>4. QED  BY <1>2, <1>3, Zenon DEF TableOK

LEMMA WindowAges ==
    ASSUME NEW t \in Nat \ {0}, NEW times \in Seq(1..t), NEW n \in Nat, NEW length \in Nat,
           NEW w, WindowOK(w, n, length, times, t), NEW u \in Nat, t <= u
    PROVE  WindowOK(w, n, length, times, u)
<1>1. w.start \in Nat /\ Reached(w, times, u)
  BY DEF WindowOK, Window, Reached
<1>2. Settled(times, n, length, t) => Settled(times, n, length, u)
  BY SettledStays
<1>3. QED  BY <1>1, <1>2 DEF WindowOK

LEMMA BurstAges ==
    ASSUME NEW t \in Nat \ {0}, NEW times \in Seq(1..t), NEW n \in Nat,
           NEW w, BurstOK(w, n, times, t), NEW u \in Nat, t <= u
    PROVE  BurstOK(w, n, times, u)
<1>1. w.start \in Nat /\ Reached(w, times, u)
  BY DEF BurstOK, Window, Reached
<1>2. QED  BY <1>1 DEF BurstOK

\* A clock that is set back spoils nothing either: the windows stay as they are,
\* and what is let through is counted from there.
LEMMA TableSetBack ==
    ASSUME NEW n, NEW length, NEW logs, NEW t, NEW table, TableOK(table, n, length, logs, t),
           NEW u, NEW none, \A a \in Clients : none[a] = << >>
    PROVE  TableOK(table, n, length, none, u)
<1>1. \A a \in Clients : Settled(none[a], n, length, u) /\ AtMost(2 * n, none[a], length)
  BY EmptyLog, Zenon
<1>2. ASSUME NEW i \in 1..ThrottleSlots, table[i].ip # None
      PROVE  /\ Reached(table[i], none[table[i].ip], u)
             /\ Explains(table[i], n, length, none[table[i].ip])
  <2>1. none[table[i].ip] = << >> /\ table[i].count <= n
    BY <1>2 DEF TableOK, Slot, Explains
  <2>2. DOMAIN << >> = {}
    OBVIOUS
  <2>3. QED  BY <2>1, <2>2, Zenon DEF Reached, Explains
<1>3. QED  BY <1>1, <1>2, Zenon DEF TableOK

LEMMA WindowSetBack ==
    ASSUME NEW n, NEW length, NEW times, NEW t, NEW w, WindowOK(w, n, length, times, t), NEW u
    PROVE  WindowOK(w, n, length, << >>, u)
<1>1. DOMAIN << >> = {}
  OBVIOUS
<1>2. w.start # 0 => Explains(w, n, length, << >>)
  BY <1>1, Zenon DEF WindowOK, Explains
<1>3. QED  BY <1>2, EmptyLog, Zenon DEF WindowOK, Reached

LEMMA BurstSetBack ==
    ASSUME NEW n, NEW times, NEW t, NEW w, BurstOK(w, n, times, t), NEW u
    PROVE  BurstOK(w, n, << >>, u)
<1>1. DOMAIN << >> = {}
  OBVIOUS
<1>2. QED  BY <1>1, EmptyLog, Zenon DEF BurstOK, Reached

-----------------------------------------------------------------------------
(* The three limiters                                                      *)

\* The logs once a client had one more unit of work done.
Noted(logs, c) == [i \in Clients \cup {None} |->
    IF i \in {IpOf[c], None} THEN Append(logs[i], now) ELSE logs[i]]

LEMMA LimitsAreNat ==
    ASSUME config \in Configs
    PROVE  /\ config.regLimit \in Nat /\ config.mailPerIp \in Nat /\ config.mailGlobal \in Nat
           /\ config.burst \in Nat /\ config.global \in Nat /\ config.perIp \in Nat
           /\ RegWindow \in Nat /\ MailWindow \in Nat /\ ArgonWindow \in Nat /\ Minute \in Nat
BY AccountConstants

LEMMA NotedLogs ==
    ASSUME now \in Nat \ {0}, NEW logs \in Logs(now), NEW c \in Clients
    PROVE  /\ IpOf[c] \in Clients
           /\ Noted(logs, c) \in Logs(now)
           /\ Noted(logs, c)[None] = Append(logs[None], now)
           /\ Noted(logs, c)[IpOf[c]] = Append(logs[IpOf[c]], now)
           /\ \A b \in Clients : b # IpOf[c] => Noted(logs, c)[b] = logs[b]
<1>1. IpOf[c] \in Clients /\ None \notin Clients
  BY AccountConstants
<1>2. \A i \in Clients \cup {None} : logs[i] \in Seq(1..now) /\ Append(logs[i], now) \in Seq(1..now)
  BY Appended DEF Logs
<1>3. QED  BY <1>1, <1>2, Zenon DEF Noted, Logs

LEMMA NotedCharge ==
    ASSUME now \in Nat \ {0}, NEW logs \in Logs(now), NEW c \in Clients,
           NEW n \in Nat, NEW length \in Nat, NEW table,
           TableOK(table, n, length, logs, now), Current(table, IpOf[c], now),
           Admits(table, IpOf[c], n)
    PROVE  TableOK(Charged(table, IpOf[c]), n, length, Noted(logs, c), now)
<1>1. PICK a \in Clients : a = IpOf[c]
  BY NotedLogs
<1>2. PICK more : more = Noted(logs, c)
  BY Zenon
<1>3. more[a] = Append(logs[a], now) /\ \A b \in Clients : b # a => more[b] = logs[b]
  BY <1>1, <1>2, NotedLogs, SMTT(30)
<1>4. TableOK(Charged(table, a), n, length, more, now)
  BY <1>1, <1>3, ChargeKeeps, Zenon
<1>5. QED  BY <1>1, <1>2, <1>4, Zenon

LEMMA DidNotes ==
    ASSUME now \in Nat \ {0}, work \in [Kinds -> Logs(now)], NEW c \in Clients,
           NEW kinds \in SUBSET Kinds
    PROVE  /\ Did(kinds, c) \in [Kinds -> Logs(now)]
           /\ \A k \in Kinds : Did(kinds, c)[k] = IF k \in kinds THEN Noted(work[k], c) ELSE work[k]
<1>1. ASSUME NEW k \in Kinds
      PROVE  Did(kinds, c)[k] = IF k \in kinds THEN Noted(work[k], c) ELSE work[k]
  <2>1. work[k] = [i \in Clients \cup {None} |-> work[k][i]]
    BY Zenon DEF Logs
  <2>2. QED  BY <2>1, Zenon DEF Did, Noted
<1>2. \A k \in Kinds : Did(kinds, c)[k] \in Logs(now)
  BY <1>1, NotedLogs
<1>3. QED  BY <1>1, <1>2, Zenon DEF Did

\* A check claims a slot, and work that is let through is charged to it.
LEMMA RegKeeps ==
    ASSUME now \in Nat \ {0}, config \in Configs, NEW logs \in Logs(now),
           RegOK(regTable, logs, now), NEW c \in Clients
    PROVE  /\ RegOK(RegTable(c), logs, now)
           /\ RegAllowed(c) => RegOK(RegCharged(c), Noted(logs, c), now)
<1> SUFFICES ASSUME config.regLimit # 0
             PROVE  /\ TableOK(RegTable(c), config.regLimit, RegWindow, logs, now)
                    /\ RegAllowed(c) =>
                         TableOK(RegCharged(c), config.regLimit, RegWindow, Noted(logs, c), now)
  BY DEF RegOK
<1>1. /\ RegTable(c) = Claimed(regTable, IpOf[c], now, RegWindow)
      /\ RegCharged(c) = Charged(RegTable(c), IpOf[c])
      /\ RegAllowed(c) => Admits(RegTable(c), IpOf[c], config.regLimit)
  BY DEF RegTable, RegCharged, RegAllowed
<1>2. TableOK(regTable, config.regLimit, RegWindow, logs, now)
  BY Zenon DEF RegOK
<1>3. /\ TableOK(RegTable(c), config.regLimit, RegWindow, logs, now)
      /\ Current(RegTable(c), IpOf[c], now)
  <2>1. IpOf[c] \in Clients
    BY NotedLogs, Zenon
  <2>2. QED  BY <1>1, <1>2, <2>1, ClaimKeeps, LimitsAreNat, ZenonT(40)
<1>4. ASSUME RegAllowed(c)
      PROVE  TableOK(RegCharged(c), config.regLimit, RegWindow, Noted(logs, c), now)
  BY <1>1, <1>3, <1>4, NotedCharge, LimitsAreNat
<1>5. QED  BY <1>3, <1>4

LEMMA MailKeeps ==
    ASSUME now \in Nat \ {0}, config \in Configs, NEW logs \in Logs(now),
           MailOK(mailLimit, logs, now), NEW c \in Clients, MailCounted(c)
    PROVE  MailOK(mailLimit', IF MailAllowed(c) THEN Noted(logs, c) ELSE logs, now)
<1>1. /\ logs[None] \in Seq(1..now) /\ IpOf[c] \in Clients
      /\ Noted(logs, c)[None] = Append(logs[None], now)
  BY NotedLogs, Zenon DEF Logs
<1>2. /\ WindowOK(MailGlobal, config.mailGlobal, Minute, logs[None], now)
      /\ MailGlobal.start # 0 /\ MailGlobal.start <= now
  <2>1. WindowOK(mailLimit.global, config.mailGlobal, Minute, logs[None], now)
    BY DEF MailOK
  <2>2. IF Over(mailLimit.global, now, Minute)
        THEN WindowOK([start |-> now, count |-> 0], config.mailGlobal, Minute, logs[None], now)
        ELSE mailLimit.global.start # 0 /\ mailLimit.global.start <= now
    BY <1>1, <2>1, WindowRolls, LimitsAreNat, Zenon
  <2>3. QED  BY <2>1, <2>2 DEF MailGlobal
<1>3. ASSUME config.mailPerIp # 0
      PROVE  /\ TableOK(MailTable(c), config.mailPerIp, MailWindow, logs, now)
             /\ MailGlobal.count < config.mailGlobal => Current(MailTable(c), IpOf[c], now)
  <2>1. TableOK(mailLimit.table, config.mailPerIp, MailWindow, logs, now)
    BY <1>3 DEF MailOK
  <2>2. /\ TableOK(Claimed(mailLimit.table, IpOf[c], now, MailWindow), config.mailPerIp, MailWindow,
                   logs, now)
        /\ Current(Claimed(mailLimit.table, IpOf[c], now, MailWindow), IpOf[c], now)
    BY <1>1, <2>1, ClaimKeeps, LimitsAreNat, ZenonT(40)
  <2>3. MailGlobal.count < config.mailGlobal => ~(MailGlobal.count >= config.mailGlobal)
    <3>1. MailGlobal.count \in Nat
      BY <1>2, SMT, SMTT(30) DEF WindowOK, Window
    <3>2. QED  BY <3>1, LimitsAreNat
  <2>4. QED  BY <1>3, <2>1, <2>2, <2>3, Zenon DEF MailTable
<1>4. CASE ~MailAllowed(c)
  <2>1. mailLimit'.global = MailGlobal /\ mailLimit'.table = MailTable(c)
    BY <1>4, Zenon DEF MailCounted
  <2>2. QED  BY <1>2, <1>3, <1>4, <2>1 DEF MailOK
<1>5. CASE MailAllowed(c)
  <2>1. /\ mailLimit'.global = [MailGlobal EXCEPT !.count = @ + 1]
        /\ config.mailPerIp # 0 => mailLimit'.table = Charged(MailTable(c), IpOf[c])
    BY <1>5 DEF MailCounted
  <2>2. /\ MailGlobal.count < config.mailGlobal
        /\ config.mailPerIp # 0 => Admits(MailTable(c), IpOf[c], config.mailPerIp)
    BY <1>5 DEF MailAllowed
  <2>3. WindowOK(mailLimit'.global, config.mailGlobal, Minute, Noted(logs, c)[None], now)
    BY <1>1, <1>2, <2>1, <2>2, WindowCharges, LimitsAreNat, SMT, SMTT(30)
  <2>4. ASSUME config.mailPerIp # 0
        PROVE  TableOK(mailLimit'.table, config.mailPerIp, MailWindow, Noted(logs, c), now)
    BY <1>3, <2>1, <2>2, <2>4, NotedCharge, LimitsAreNat, SMT, SMTT(30)
  <2>5. QED  BY <1>5, <2>3, <2>4 DEF MailOK
<1>6. QED  BY <1>4, <1>5

\* What auth_limit_consume() finds once windows that are over rolled.
LEMMA AuthFinds ==
    ASSUME now \in Nat \ {0}, config \in Configs, NEW logs \in Logs(now),
           AuthOK(argon, logs, now), NEW c \in Clients
    PROVE  /\ config.burst # 0 =>
                BurstOK(AuthBurst, config.burst, logs[None], now) /\ AuthBurst.start = now
           /\ config.global # 0 =>
                /\ WindowOK(AuthGlobal, config.global, Minute, logs[None], now)
                /\ ~Full(AuthBurst, config.burst) => AuthGlobal.start # 0 /\ AuthGlobal.start <= now
           /\ config.perIp # 0 =>
                /\ TableOK(AuthTable(c), config.perIp, ArgonWindow, logs, now)
                /\ ~Full(AuthBurst, config.burst) /\ ~Full(AuthGlobal, config.global)
                     => Current(AuthTable(c), IpOf[c], now)
<1>1. logs[None] \in Seq(1..now) /\ IpOf[c] \in Clients
  BY NotedLogs, Zenon DEF Logs
<1>2. ASSUME config.burst # 0
      PROVE  BurstOK(AuthBurst, config.burst, logs[None], now) /\ AuthBurst.start = now
  <2>1. BurstOK(argon.burst, config.burst, logs[None], now)
    BY <1>2 DEF AuthOK
  <2>2. IF Over(argon.burst, now, 1)
        THEN BurstOK([start |-> now, count |-> 0], config.burst, logs[None], now)
        ELSE argon.burst.start = now
    BY <1>1, <2>1, BurstRolls, LimitsAreNat, ZenonT(40)
  <2>3. QED  BY <1>2, <2>1, <2>2 DEF AuthBurst, Rolled
<1>3. ASSUME config.global # 0
      PROVE  /\ WindowOK(AuthGlobal, config.global, Minute, logs[None], now)
             /\ ~Full(AuthBurst, config.burst) => AuthGlobal.start # 0 /\ AuthGlobal.start <= now
  <2>1. WindowOK(argon.global, config.global, Minute, logs[None], now)
    BY <1>3, Zenon DEF AuthOK
  <2>2. IF Over(argon.global, now, Minute)
        THEN WindowOK([start |-> now, count |-> 0], config.global, Minute, logs[None], now)
        ELSE argon.global.start # 0 /\ argon.global.start <= now
    BY <1>1, <2>1, WindowRolls, LimitsAreNat, ZenonT(40)
  <2>3. QED  BY <1>3, <2>1, <2>2 DEF AuthGlobal, Rolled
<1>4. ASSUME config.perIp # 0
      PROVE  /\ TableOK(AuthTable(c), config.perIp, ArgonWindow, logs, now)
             /\ ~Full(AuthBurst, config.burst) /\ ~Full(AuthGlobal, config.global)
                  => Current(AuthTable(c), IpOf[c], now)
  <2>1. TableOK(argon.table, config.perIp, ArgonWindow, logs, now)
    BY <1>4 DEF AuthOK
  <2>2. /\ TableOK(Claimed(argon.table, IpOf[c], now, ArgonWindow), config.perIp, ArgonWindow, logs,
                   now)
        /\ Current(Claimed(argon.table, IpOf[c], now, ArgonWindow), IpOf[c], now)
    BY <1>1, <2>1, ClaimKeeps, LimitsAreNat, Zenon
  <2>3. QED  BY <1>4, <2>1, <2>2, Zenon DEF AuthTable
<1>5. QED  BY <1>2, <1>3, <1>4

\* None of the three is charged unless all allow, and then all are.
LEMMA AuthKeeps ==
    ASSUME now \in Nat \ {0}, config \in Configs, NEW logs \in Logs(now),
           AuthOK(argon, logs, now), NEW c \in Clients, auth_limit_consume(c)
    PROVE  AuthOK(argon', IF AuthAllowed(c) THEN Noted(logs, c) ELSE logs, now)
<1>1. /\ logs[None] \in Seq(1..now)
      /\ Noted(logs, c)[None] = Append(logs[None], now)
  BY NotedLogs, Zenon DEF Logs
<1>2. ASSUME config.burst # 0
      PROVE  BurstOK(AuthBurst, config.burst, logs[None], now) /\ AuthBurst.start = now
  BY <1>2, AuthFinds
<1>3. ASSUME config.global # 0
      PROVE  /\ WindowOK(AuthGlobal, config.global, Minute, logs[None], now)
             /\ ~Full(AuthBurst, config.burst) => AuthGlobal.start # 0 /\ AuthGlobal.start <= now
  BY <1>3, AuthFinds
<1>4. ASSUME config.perIp # 0
      PROVE  /\ TableOK(AuthTable(c), config.perIp, ArgonWindow, logs, now)
             /\ ~Full(AuthBurst, config.burst) /\ ~Full(AuthGlobal, config.global)
                  => Current(AuthTable(c), IpOf[c], now)
  BY <1>4, AuthFinds, Zenon
<1>5. CASE ~AuthAllowed(c)
  <2>1. argon'.burst = AuthBurst /\ argon'.global = AuthGlobal /\ argon'.table = AuthTable(c)
    BY <1>5 DEF auth_limit_consume
  <2>2. QED  BY <1>2, <1>3, <1>4, <1>5, <2>1, Zenon DEF AuthOK
<1>6. CASE AuthAllowed(c)
  <2>1. /\ argon'.burst = Counted(AuthBurst, config.burst)
        /\ argon'.global = Counted(AuthGlobal, config.global)
        /\ config.perIp # 0 => argon'.table = Charged(AuthTable(c), IpOf[c])
    BY <1>6, Zenon DEF auth_limit_consume
  <2>2. /\ ~Full(AuthBurst, config.burst) /\ ~Full(AuthGlobal, config.global)
        /\ config.perIp # 0 => Admits(AuthTable(c), IpOf[c], config.perIp)
    BY <1>6 DEF AuthAllowed
  <2>3. ASSUME config.burst # 0
        PROVE  BurstOK(argon'.burst, config.burst, Noted(logs, c)[None], now)
    <3>1. argon'.burst = [AuthBurst EXCEPT !.count = @ + 1]
      BY <2>1, <2>3 DEF Counted
    <3>2. AuthBurst.count \in Nat
      BY <1>2, <2>3 DEF BurstOK, Window
    <3>3. AuthBurst.count < config.burst
      BY <2>2, <2>3, <3>2, LimitsAreNat DEF Full
    <3>4. QED  BY <1>1, <1>2, <2>3, <3>1, <3>3, BurstCharges, LimitsAreNat, SMT, SMTT(30)
  <2>4. ASSUME config.global # 0
        PROVE  WindowOK(argon'.global, config.global, Minute, Noted(logs, c)[None], now)
    <3>1. argon'.global = [AuthGlobal EXCEPT !.count = @ + 1]
      BY <2>1, <2>4 DEF Counted
    <3>2. AuthGlobal.count \in Nat
      BY <1>3, <2>4 DEF WindowOK, Window
    <3>3. AuthGlobal.count < config.global
      BY <2>2, <2>4, <3>2, LimitsAreNat, SMT, SMTT(30) DEF Full
    <3>4. QED  BY <1>1, <1>3, <2>2, <2>4, <3>1, <3>3, WindowCharges, LimitsAreNat, SMTT(30)
  <2>5. ASSUME config.perIp # 0
        PROVE  TableOK(argon'.table, config.perIp, ArgonWindow, Noted(logs, c), now)
    BY <1>4, <2>1, <2>2, <2>5, NotedCharge, LimitsAreNat, Zenon
  <2>6. QED  BY <1>6, <2>3, <2>4, <2>5, ZenonT(40) DEF AuthOK
<1>7. QED  BY <1>5, <1>6
-----------------------------------------------------------------------------
(* The steps, by the limiter they meet                                     *)

Untouched == UNCHANGED <<config, now, regTable, mailLimit, argon, work>>
AuthUse(c) ==
    /\ auth_limit_consume(c)
    /\ work' = IF AuthAllowed(c) THEN Did(AuthWork, c) ELSE work
    /\ UNCHANGED <<config, now, regTable, mailLimit>>
MailUse(c) == MailCounted(c) /\ UNCHANGED <<config, now, regTable, argon>>

LEMMA LimiterSteps ==
    ASSUME Next
    PROVE  \/ Untouched \/ Tick \/ ClockSetBack \/ Restart
           \/ \E c \in Clients : AuthUse(c) \/ MailUse(c)
                                \/ \E exempt \in BOOLEAN : command_register(c, exempt)
<1>1. ASSUME NEW c \in Clients, NEW n \in Names, Connect(c, n) PROVE Untouched
  BY <1>1 DEF Connect, Untouched
<1>2. ASSUME NEW c \in Clients, Welcome(c) \/ server_disconnect(c) PROVE Untouched
  BY <1>2 DEF Welcome, server_disconnect, Untouched
<1>3. ASSUME NEW c \in Clients, NickServCommand(c)
      PROVE  \/ Untouched \/ AuthUse(c) \/ MailUse(c)
             \/ \E exempt \in BOOLEAN : command_register(c, exempt)
  <2>1. ASSUME NEW a \in Names, NEW right \in BOOLEAN, handle_identify_alias(c, a, right)
        PROVE  AuthUse(c)
    BY <2>1 DEF handle_identify_alias, AuthUse
  <2>2. ASSUME handle_logout_alias(c) PROVE Untouched
    BY <2>2 DEF handle_logout_alias, Untouched
  <2>3. ASSUME command_set_password(c) PROVE AuthUse(c)
    BY <2>3, Zenon DEF command_set_password, AuthUse
  <2>4. ASSUME NEW e \in Addresses, NEW arrives \in mail_send_async, NEW exempt \in NetAdmin(c),
               command_set_email(c, e, arrives, exempt)
        PROVE  Untouched \/ MailUse(c)
    BY <2>4, Zenon DEF command_set_email, mail_request, MailUse, Untouched
  <2>5. ASSUME NEW t \in Tokens, command_verify(c, t) PROVE Untouched
    BY <2>5 DEF command_verify, Untouched
  <2>6. ASSUME NEW a \in Names, NEW arrives \in mail_send_async, NEW exempt \in NetAdmin(c),
               command_reset_request(c, a, arrives, exempt)
        PROVE  Untouched \/ MailUse(c)
    BY <2>6, Zenon DEF command_reset_request, mail_request, MailUse, Untouched
  <2>7. ASSUME NEW a \in Names, NEW t \in Tokens, command_reset_use(c, a, t) PROVE AuthUse(c)
    BY <2>7 DEF command_reset_use, AuthUse
  <2>8. ASSUME NEW kill \in BOOLEAN, command_recover(c, kill) PROVE Untouched
    BY <2>8 DEF command_recover, Untouched
  <2>9. ASSUME NEW exempt \in NetAdmin(c), command_register(c, exempt)
        PROVE  \E x \in BOOLEAN : command_register(c, x)
    BY <2>9, Zenon DEF NetAdmin
  <2>10. QED
    BY <1>3, <2>1, <2>2, <2>3, <2>4, <2>5, <2>6, <2>7, <2>8, <2>9, ZenonT(40) DEF NickServCommand
<1>4. ASSUME NEW c \in Clients, command_authenticate(c) PROVE Untouched \/ AuthUse(c)
  <2>1. ASSUME sasl_fail(c) \/ sasl_start(c) \/ sasl_append_frame(c) PROVE Untouched
    BY <2>1 DEF sasl_fail, sasl_start, sasl_append_frame, Untouched
  <2>2. ASSUME NEW a \in Names, NEW right \in BOOLEAN, sasl_finish_plain(c, a, right)
        PROVE  AuthUse(c)
    BY <2>2 DEF sasl_finish_plain, AuthUse
  <2>3. QED  BY <1>4, <2>1, <2>2, ZenonT(40) DEF command_authenticate
<1>5. ASSUME NEW c \in Clients, MemoServCommand(c) PROVE Untouched
  <2>1. UNCHANGED accountVars
    BY <1>5 DEF MemoServCommand, command_send, command_reply, command_forward, list_records,
                command_read, command_delete, command_delete_sent
  <2>2. QED  BY <2>1, Zenon DEF accountVars, Untouched
<1>6. ASSUME NEW a \in Names, AdminCommand(a) PROVE Untouched
  BY <1>6, Zenon DEF AdminCommand, NssetPassword, NssetEmail, NssetEnabled, command_nsdrop, MsPurge,
              accountVars, Untouched
<1>7. QED  BY <1>1, <1>2, <1>3, <1>4, <1>5, <1>6 DEF Next

LEMMA AuthUseKeeps ==
    ASSUME RatesInv, NEW c \in Clients, AuthUse(c)
    PROVE  RatesInv'
<1>1. /\ config \in Configs /\ now \in Nat \ {0} /\ work \in [Kinds -> Logs(now)]
      /\ config' = config /\ now' = now /\ regTable' = regTable /\ mailLimit' = mailLimit
      /\ auth_limit_consume(c)
  BY Zenon DEF RatesInv, AuthUse, Logs
<1>2. {"register", "mail", "argon2"} = Kinds /\ AuthWork \in SUBSET Kinds
  BY DEF Kinds, AuthWork
<1>3. AuthOK(argon', IF AuthAllowed(c) THEN Noted(work["argon2"], c) ELSE work["argon2"], now)
  BY <1>1, <1>2, AuthKeeps, Zenon DEF RatesInv
<1>4. /\ work' \in [Kinds -> Logs(now)]
      /\ work'["register"] = work["register"] /\ work'["mail"] = work["mail"]
      /\ work'["argon2"] = IF AuthAllowed(c) /\ AuthLimits THEN Noted(work["argon2"], c)
                           ELSE work["argon2"]
  BY <1>1, <1>2, DidNotes DEF AuthUse, AuthWork
<1>5. AuthOK(argon', work'["argon2"], now)
  <2>1. CASE AuthLimits
    BY <1>3, <1>4, <2>1
  <2>2. CASE ~AuthLimits
    BY <2>2, ZenonT(40) DEF AuthLimits, AuthOK
  <2>3. QED  BY <2>1, <2>2
<1>6. AuthOK(argon, work["argon2"], now)' /\ RegOK(regTable, work["register"], now)'
      /\ MailOK(mailLimit, work["mail"], now)'
  BY <1>1, <1>4, <1>5, Zenon DEF RatesInv, AuthOK, RegOK, MailOK
<1>7. QED  BY <1>1, <1>4, <1>6, Zenon DEF RatesInv, Logs

LEMMA MailUseKeeps ==
    ASSUME RatesInv, NEW c \in Clients, MailUse(c)
    PROVE  RatesInv'
<1>1. /\ config \in Configs /\ now \in Nat \ {0} /\ work \in [Kinds -> Logs(now)]
      /\ config' = config /\ now' = now /\ regTable' = regTable /\ argon' = argon
      /\ MailCounted(c)
  BY Zenon DEF RatesInv, MailUse, Logs
<1>2. {"register", "mail", "argon2"} = Kinds /\ {"mail"} \in SUBSET Kinds
  BY DEF Kinds
<1>3. MailOK(mailLimit', IF MailAllowed(c) THEN Noted(work["mail"], c) ELSE work["mail"], now)
  BY <1>1, <1>2, MailKeeps DEF RatesInv
<1>4. /\ work' \in [Kinds -> Logs(now)]
      /\ work'["register"] = work["register"] /\ work'["argon2"] = work["argon2"]
      /\ work'["mail"] = IF MailAllowed(c) THEN Noted(work["mail"], c) ELSE work["mail"]
  <2>1. work' = IF MailAllowed(c) THEN Did({"mail"}, c) ELSE work
    BY <1>1, Zenon DEF MailCounted
  <2>2. CASE MailAllowed(c)
    BY <1>1, <1>2, <2>1, <2>2, DidNotes
  <2>3. CASE ~MailAllowed(c)
    BY <1>1, <2>1, <2>3, Zenon
  <2>4. QED  BY <2>2, <2>3
<1>5. AuthOK(argon, work["argon2"], now)' /\ RegOK(regTable, work["register"], now)'
      /\ MailOK(mailLimit, work["mail"], now)'
  BY <1>1, <1>3, <1>4, Zenon DEF RatesInv, AuthOK, RegOK, MailOK
<1>6. QED  BY <1>1, <1>4, <1>5, Zenon DEF RatesInv, Logs

\* REGISTER meets two limiters: the check of the first claims a slot, the
\* second is charged for the hash, and the first only if the account was added.
\* A network administrator passes by the first.
LEMMA RegisterKeeps ==
    ASSUME RatesInv, NEW c \in Clients, NEW exempt \in BOOLEAN, command_register(c, exempt)
    PROVE  RatesInv'
<1> DEFINE tries == (exempt \/ RegAllowed(c)) /\ ~Exists(session[c].nick)
           adds  == tries /\ AuthAllowed(c)
                    /\ Cardinality({a \in Names : Exists(a)}) < MaxAccounts
           kinds == AuthWork \cup (IF adds /\ ~exempt THEN RegWork ELSE {})
<1>1. /\ config \in Configs /\ now \in Nat \ {0} /\ work \in [Kinds -> Logs(now)]
      /\ config' = config /\ now' = now /\ mailLimit' = mailLimit
  BY Zenon DEF RatesInv, command_register, Logs
<1>2. /\ IF tries THEN auth_limit_consume(c) ELSE argon' = argon
      /\ exempt => regTable' = regTable
      /\ ~exempt => regTable' = IF adds THEN RegCharged(c) ELSE RegTable(c)
      /\ work' = IF tries /\ AuthAllowed(c) THEN Did(kinds, c) ELSE work
  BY Zenon DEF command_register
<1>3. /\ adds => tries /\ AuthAllowed(c)
      /\ adds /\ ~exempt => RegAllowed(c)
  BY Zenon
<1>4. /\ {"register", "mail", "argon2"} = Kinds /\ kinds \in SUBSET Kinds /\ "mail" \notin kinds
      /\ "argon2" \in kinds <=> AuthLimits
      /\ "register" \in kinds <=> adds /\ ~exempt /\ config.regLimit # 0
  BY DEF Kinds, AuthWork, RegWork
<1> HIDE DEF tries, adds, kinds
<1>5. /\ work' \in [Kinds -> Logs(now)] /\ work'["mail"] = work["mail"]
      /\ work'["argon2"] = IF tries /\ AuthAllowed(c) /\ AuthLimits
                           THEN Noted(work["argon2"], c) ELSE work["argon2"]
      /\ work'["register"] = IF adds /\ ~exempt /\ config.regLimit # 0
                             THEN Noted(work["register"], c) ELSE work["register"]
  <2>1. CASE tries /\ AuthAllowed(c)
    BY <1>1, <1>2, <1>4, <2>1, DidNotes, Zenon
  <2>2. CASE ~(tries /\ AuthAllowed(c))
    BY <1>1, <1>2, <1>3, <2>2
  <2>3. QED  BY <2>1, <2>2, Zenon
<1>6. AuthOK(argon', work'["argon2"], now)
  <2>1. AuthOK(argon, work["argon2"], now) /\ work["argon2"] \in Logs(now)
    BY <1>1, <1>4 DEF RatesInv
  <2>2. CASE tries /\ AuthLimits
    <3>1. AuthOK(argon', IF AuthAllowed(c) THEN Noted(work["argon2"], c) ELSE work["argon2"], now)
      BY <1>1, <1>2, <2>1, <2>2, AuthKeeps, Zenon
    <3>2. QED  BY <1>5, <2>2, <3>1, Zenon
  <2>3. CASE ~tries
    BY <1>2, <1>5, <2>1, <2>3
  <2>4. CASE ~AuthLimits
    BY <2>4 DEF AuthLimits, AuthOK
  <2>5. QED  BY <2>2, <2>3, <2>4
<1>7. RegOK(regTable', work'["register"], now)
  <2>1. RegOK(regTable, work["register"], now) /\ work["register"] \in Logs(now)
    BY <1>1, <1>4 DEF RatesInv
  <2>2. /\ RegOK(RegTable(c), work["register"], now)
        /\ RegAllowed(c) => RegOK(RegCharged(c), Noted(work["register"], c), now)
    BY <1>1, <2>1, RegKeeps
  <2>3. CASE config.regLimit = 0
    BY <2>3 DEF RegOK
  <2>4. CASE config.regLimit # 0 /\ adds /\ ~exempt
    BY <1>2, <1>3, <1>5, <2>2, <2>4
  <2>5. CASE ~adds /\ ~exempt
    BY <1>2, <1>5, <2>2, <2>5, ZenonT(40)
  <2>6. CASE exempt
    BY <1>2, <1>5, <2>1, <2>6, ZenonT(40)
  <2>7. QED  BY <2>3, <2>4, <2>5, <2>6, Zenon
<1>8. AuthOK(argon, work["argon2"], now)' /\ RegOK(regTable, work["register"], now)'
      /\ MailOK(mailLimit, work["mail"], now)'
  BY <1>1, <1>5, <1>6, <1>7, Zenon DEF RatesInv, AuthOK, RegOK, MailOK
<1>9. QED  BY <1>1, <1>5, <1>8, Zenon DEF RatesInv, Logs

LEMMA TickKeeps ==
    ASSUME RatesInv, Tick
    PROVE  RatesInv'
<1>0. /\ now' = now + 1 /\ config' = config /\ regTable' = regTable
      /\ mailLimit' = mailLimit /\ argon' = argon /\ work' = work
  BY DEF Tick
<1>1. /\ config \in Configs /\ now \in Nat \ {0} /\ work \in [Kinds -> Logs(now)]
      /\ now' \in Nat \ {0} /\ now <= now'
  <2>1. config \in Configs /\ now \in Nat \ {0} /\ work \in [Kinds -> Logs(now)]
    BY Zenon DEF RatesInv, Logs
  <2>2. now + 1 \in Nat \ {0} /\ now <= now + 1
    BY <2>1
  <2>3. QED  BY <1>0, <2>1, <2>2
<1>2. \A k \in {"register", "mail", "argon2"} :
         work[k] \in Logs(now) /\ work[k][None] \in Seq(1..now)
  BY <1>1 DEF Kinds, Logs
<1>3. RegOK(regTable, work["register"], now')
  BY <1>1, <1>2, TableAges, LimitsAreNat, Zenon DEF RatesInv, RegOK
<1>4. MailOK(mailLimit, work["mail"], now')
  BY <1>1, <1>2, TableAges, WindowAges, LimitsAreNat, Zenon DEF RatesInv, MailOK
<1>5. AuthOK(argon, work["argon2"], now')
  BY <1>1, <1>2, TableAges, WindowAges, BurstAges, LimitsAreNat, ZenonT(40) DEF RatesInv, AuthOK
<1>6. AuthOK(argon, work["argon2"], now)' /\ RegOK(regTable, work["register"], now)'
      /\ MailOK(mailLimit, work["mail"], now)'
  BY <1>0, <1>1, <1>3, <1>4, <1>5, Zenon DEF AuthOK, RegOK, MailOK
<1>7. work' \in [Kinds -> [Clients \cup {None} -> Seq(1..now')]]
  <2>1. \A k \in Kinds : \A i \in Clients \cup {None} : work[k][i] \in Seq(1..now')
    BY <1>1, LogsGrow DEF Logs
  <2>2. QED  BY <1>0, <1>1, <2>1, Zenon DEF Logs
<1>8. QED  BY <1>0, <1>1, <1>6, <1>7, Zenon DEF RatesInv

LEMMA SetBackKeeps ==
    ASSUME RatesInv, ClockSetBack
    PROVE  RatesInv'
<1>0. /\ config' = config /\ regTable' = regTable /\ mailLimit' = mailLimit /\ argon' = argon
      /\ work' = NoWork /\ now' \in 1..(now - 1)
  BY Zenon DEF ClockSetBack
<1>1. config \in Configs /\ now' \in Nat \ {0}
  <2>1. now \in Nat \ {0} /\ config \in Configs
    BY Zenon DEF RatesInv
  <2>2. QED  BY <1>0, <2>1
<1>2. \A k \in {"register", "mail", "argon2"} : \A i \in Clients \cup {None} :
         NoWork[k][i] = << >>
  BY ZenonT(40) DEF NoWork, Kinds
<1>3. RegOK(regTable, NoWork["register"], now')
  BY <1>2, TableSetBack, Zenon DEF RatesInv, RegOK
<1>4. MailOK(mailLimit, NoWork["mail"], now')
  BY <1>2, TableSetBack, WindowSetBack, ZenonT(40) DEF RatesInv, MailOK
<1>5. AuthOK(argon, NoWork["argon2"], now')
  BY <1>2, TableSetBack, WindowSetBack, BurstSetBack, ZenonT(40) DEF RatesInv, AuthOK
<1>6. AuthOK(argon, work["argon2"], now)' /\ RegOK(regTable, work["register"], now)'
      /\ MailOK(mailLimit, work["mail"], now)'
  BY <1>0, <1>3, <1>4, <1>5, Zenon DEF AuthOK, RegOK, MailOK
<1>7. work' \in [Kinds -> [Clients \cup {None} -> Seq(1..now')]]
  BY <1>0 DEF NoWork
<1>8. QED  BY <1>0, <1>1, <1>6, <1>7, Zenon DEF RatesInv

\* A limiter that has counted nothing, and no work.
LEMMA FreshLimiters ==
    ASSUME NEW t \in Nat, config \in Configs
    PROVE  /\ NoWork \in [Kinds -> Logs(t)]
           /\ RegOK(NoSlots, NoWork["register"], t)
           /\ MailOK([global |-> NoWindow, table |-> NoSlots], NoWork["mail"], t)
           /\ AuthOK([burst |-> NoWindow, global |-> NoWindow, table |-> NoSlots],
                     NoWork["argon2"], t)
<1>1. NoWork \in [Kinds -> Logs(t)]
  BY DEF NoWork, Logs
<1>2. \A k \in {"register", "mail", "argon2"} : \A i \in Clients \cup {None} :
         NoWork[k][i] = << >>
  BY ZenonT(40) DEF NoWork, Kinds
<1>3. ASSUME NEW n, NEW length, NEW k \in {"register", "mail", "argon2"}
      PROVE  TableOK(NoSlots, n, length, NoWork[k], t)
  <2>1. NoSlots \in [1..ThrottleSlots -> Slot]
        /\ \A i \in 1..ThrottleSlots : NoSlots[i].ip = None
    BY DEF NoSlots, Slot
  <2>2. \A a \in Clients : Settled(NoWork[k][a], n, length, t)
                           /\ AtMost(2 * n, NoWork[k][a], length)
    BY <1>2 DEF Settled, AtMost
  <2>3. QED  BY <2>1, <2>2 DEF TableOK
<1>4. ASSUME NEW n, NEW length
      PROVE  WindowOK(NoWindow, n, length, << >>, t)
  BY EmptyLog DEF WindowOK, Reached, NoWindow, Window
<1>5. BurstOK(NoWindow, config.burst, << >>, t)
  BY LimitsAreNat, EmptyLog DEF BurstOK, Reached, NoWindow, Window
<1>6. RegOK(NoSlots, NoWork["register"], t)
  BY <1>3, Zenon DEF RegOK
<1>7. MailOK([global |-> NoWindow, table |-> NoSlots], NoWork["mail"], t)
  BY <1>2, <1>3, <1>4, ZenonT(40) DEF MailOK
<1>8. AuthOK([burst |-> NoWindow, global |-> NoWindow, table |-> NoSlots], NoWork["argon2"], t)
  BY <1>2, <1>3, <1>4, <1>5 DEF AuthOK
<1>9. QED  BY <1>1, <1>6, <1>7, <1>8

LEMMA RatesInit == Init => RatesInv
<1> SUFFICES ASSUME Init PROVE RatesInv
  BY Zenon
<1>1. config \in Configs /\ now = 1 /\ work = NoWork /\ regTable = NoSlots
      /\ mailLimit = [global |-> NoWindow, table |-> NoSlots]
      /\ argon = [burst |-> NoWindow, global |-> NoWindow, table |-> NoSlots]
  BY Zenon DEF Init
<1>2. /\ work \in [Kinds -> Logs(now)] /\ RegOK(regTable, work["register"], now)
      /\ MailOK(mailLimit, work["mail"], now) /\ AuthOK(argon, work["argon2"], now)
  BY <1>1, FreshLimiters
<1>3. now \in Nat \ {0}
  BY <1>1
<1>4. QED  BY <1>1, <1>2, <1>3, Zenon DEF RatesInv, Logs

LEMMA RestartKeeps ==
    ASSUME RatesInv, Restart
    PROVE  RatesInv'
<1>1. /\ config \in Configs /\ now \in Nat \ {0} /\ config' = config /\ now' = now
      /\ work' = NoWork /\ regTable' = NoSlots
      /\ mailLimit' = [global |-> NoWindow, table |-> NoSlots]
      /\ argon' = [burst |-> NoWindow, global |-> NoWindow, table |-> NoSlots]
  BY DEF RatesInv, Restart, RuntimeReset
<1>2. /\ work' \in [Kinds -> Logs(now)]
      /\ RegOK(regTable', work'["register"], now)
      /\ MailOK(mailLimit', work'["mail"], now)
      /\ AuthOK(argon', work'["argon2"], now)
  BY <1>1, FreshLimiters, ZenonT(40)
<1>3. AuthOK(argon, work["argon2"], now)' /\ RegOK(regTable, work["register"], now)'
      /\ MailOK(mailLimit, work["mail"], now)'
  BY <1>1, <1>2 DEF AuthOK, RegOK, MailOK
<1>4. QED  BY <1>1, <1>2, <1>3, ZenonT(40) DEF RatesInv, Logs

LEMMA UntouchedKeeps ==
    ASSUME RatesInv, Untouched
    PROVE  RatesInv'
BY Zenon DEF Untouched, RatesInv, RegOK, MailOK, AuthOK

\* Every limiter accounts for the work it let through since the server started and
\* its clock was last set back, whatever the size of its table, its limits and its
\* windows, however requests are timed, and with windows left over from before the
\* clock was set back, that seem to start in the future.  What network
\* administrators register and have mailed passes by the limiters and is no part
\* of that work.
THEOREM RatesInvariance == Spec => []RatesInv
<1>1. RatesInv /\ [Next]_vars => RatesInv'
  <2> SUFFICES ASSUME RatesInv, [Next]_vars PROVE RatesInv'
    OBVIOUS
  <2>1. CASE vars' = vars
    BY <2>1, UntouchedKeeps DEF vars, accountVars, Untouched
  <2>2. CASE Next
    BY <2>2, LimiterSteps, UntouchedKeeps, TickKeeps, SetBackKeeps, RestartKeeps, AuthUseKeeps,
       MailUseKeeps, RegisterKeeps, ZenonT(40)
  <2>3. QED  BY <2>1, <2>2
<1>2. QED  BY <1>1, RatesInit, PTL DEF Spec

LEMMA RatesFollow == RatesInv => RatesBounded
<1> SUFFICES ASSUME RatesInv PROVE RatesBounded
  OBVIOUS
<1>1. ASSUME config.regLimit # 0
      PROVE  \A i \in Clients : AtMost(2 * config.regLimit, work["register"][i], RegWindow)
  BY <1>1, Zenon DEF RatesInv, RegOK, TableOK
<1>2. ASSUME config.mailPerIp # 0
      PROVE  \A i \in Clients : AtMost(2 * config.mailPerIp, work["mail"][i], MailWindow)
  BY <1>2, Zenon DEF RatesInv, MailOK, TableOK
<1>3. ASSUME config.perIp # 0
      PROVE  \A i \in Clients : AtMost(2 * config.perIp, work["argon2"][i], ArgonWindow)
  BY <1>3, Zenon DEF RatesInv, AuthOK, TableOK
<1>4. AtMost(2 * config.mailGlobal, work["mail"][None], Minute)
  BY Zenon DEF RatesInv, MailOK, WindowOK
<1>5. ASSUME config.global # 0
      PROVE  AtMost(2 * config.global, work["argon2"][None], Minute)
  BY <1>5, ZenonT(40) DEF RatesInv, AuthOK, WindowOK
<1>6. ASSUME config.burst # 0
      PROVE  AtMost(config.burst, work["argon2"][None], 1)
  BY <1>6 DEF RatesInv, AuthOK, BurstOK
<1>7. /\ RateOf("register") = <<config.regLimit, RegWindow>>
      /\ RateOf("mail") = <<config.mailPerIp, MailWindow>>
      /\ RateOf("argon2") = <<config.perIp, ArgonWindow>>
      /\ ServerRate("register") = 0 /\ ServerRate("mail") = config.mailGlobal
      /\ ServerRate("argon2") = config.global
  BY DEF RateOf, ServerRate
<1>8. QED  BY <1>1, <1>2, <1>3, <1>4, <1>5, <1>6, <1>7 DEF RatesBounded, Kinds

\* No limiter lets more through in a window than twice its limit, or in a second
\* than the burst limit, for any number of addresses and slots: in one run of the
\* server, while its clock is not set back, and apart from what the code exempts,
\* the registrations and mails of network administrators.
THEOREM RatesAreBounded == Spec => []RatesBounded
BY RatesInvariance, RatesFollow, PTL
=============================================================================
