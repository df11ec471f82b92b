-------------------------- MODULE EventLoop_proofs --------------------------
(***************************************************************************)
(* Proofs that no output is lost, doubled or reordered, and that a PONG    *)
(* that is there in time is heard before maintenance looks for it, for any *)
(* number of clients, any send queue, budget, socket window and TLS record.*)
(***************************************************************************)
EXTENDS EventLoop, TLAPS

-----------------------------------------------------------------------------
(* Sequences of consecutive units *)

\* s counts on from n.
Run(s, n) == s \in Seq(Nat) /\ \A i \in 1 .. Len(s) : s[i] = n + i

LEMMA RunEmpty ==
    ASSUME NEW n \in Nat
    PROVE  Run(<<>>, n) /\ Len(<<>>) = 0
BY DEF Run

LEMMA EmptyLen ==
    ASSUME NEW s, NEW n, Run(s, n)
    PROVE  Len(s) \in Nat /\ (s = <<>> <=> Len(s) = 0)
BY DEF Run

LEMMA RunFirst ==
    ASSUME NEW s, NEW n \in Nat, Run(s, n), NEW m \in 0 .. Len(s)
    PROVE  Run(First(s, m), n) /\ Len(First(s, m)) = m
BY DEF Run, First

LEMMA RunRest ==
    ASSUME NEW s, NEW n \in Nat, Run(s, n), NEW m \in 0 .. Len(s)
    PROVE  Run(Rest(s, m), n + m) /\ Len(Rest(s, m)) = Len(s) - m
BY DEF Run, Rest

LEMMA RunConcat ==
    ASSUME NEW s, NEW n \in Nat, Run(s, n), NEW t, Run(t, n + Len(s))
    PROVE  Run(s \o t, n) /\ Len(s \o t) = Len(s) + Len(t)
BY DEF Run

LEMMA FunctionIsSeq ==
    ASSUME NEW S, NEW T, S \subseteq T, NEW n \in Nat, NEW s \in [1 .. n -> S]
    PROVE  s \in Seq(T)
OBVIOUS

LEMMA SameEntries ==
    ASSUME NEW S, NEW s \in Seq(S), NEW t \in Seq(S), Len(s) = Len(t),
           \A i \in 1 .. Len(s) : s[i] = t[i]
    PROVE  s = t
OBVIOUS

LEMMA RunPrefix ==
    ASSUME NEW s, NEW n \in Nat, Run(s, n), NEW t, Run(t, n), Len(s) <= Len(t)
    PROVE  Begins(s, t) /\ (Len(s) = Len(t) => s = t)
<1>1. s \in Seq(Nat) /\ t \in Seq(Nat) /\ \A i \in 1 .. Len(s) : s[i] = t[i]
  BY DEF Run
<1>2. s = [i \in 1 .. Len(s) |-> s[i]]
  BY <1>1
<1>3. SubSeq(t, 1, Len(s)) = [i \in 1 .. Len(s) |-> s[i]]
  BY <1>1
<1>4. Len(s) = Len(t) => s = t
  BY <1>1, SameEntries
<1>5. QED  BY <1>2, <1>3, <1>4 DEF Begins, First

LEMMA RunWhole ==
    ASSUME NEW n \in Nat
    PROVE  Run([i \in 1 .. n |-> i], 0) /\ Len([i \in 1 .. n |-> i]) = n
BY DEF Run

LEMMA LeastFacts ==
    ASSUME NEW m \in Nat, NEW n \in Int
    PROVE  /\ Least(m, n) \in Int /\ Least(m, n) <= m /\ Least(m, n) <= n
           /\ n >= 0 => Least(m, n) >= 0
BY DEF Least

-----------------------------------------------------------------------------
(* Connections *)

Fields == {"tls", "in", "out", "over", "retry", "wantRead", "inRetry", "wantWrite", "wire",
           "held", "room", "rec", "pushed", "hs", "broken", "said", "rcvd"}

\* A connection is a record with these fields, of which the output matters here.
Shape(k) ==
    /\ k = [f \in Fields |-> k[f]]
    /\ k.retry \in Nat /\ k.room \in Nat /\ k.pushed \in Nat /\ k.said \in Nat
    /\ k.over \in BOOLEAN /\ k.broken \in BOOLEAN

\* What was sent counts from one, and an unfinished record goes on from there; it
\* belongs to a TLS session that is open, and to a write that is to be repeated.
Sending(k) ==
    /\ Shape(k)
    /\ Run(k.rcvd, 0) /\ Run(k.rec, Len(k.rcvd))
    /\ Len(k.rec) <= k.retry
    /\ k.tls # "established" => k.rec = <<>>

\* A reset connection whose every write fails.
Stuck(k) == k.broken /\ k.tls # "handshake" /\ ~(k.tls = "established" /\ k.inRetry)

\* The queue goes on from what was sent to what was said, and covers the write
\* to be repeated.
Intact(k) ==
    /\ Sending(k)
    /\ Run(k.out, Len(k.rcvd))
    /\ Len(k.rcvd) + Len(k.out) <= k.said
    /\ Len(k.rcvd) + Len(k.out) = k.said \/ k.over \/ (Stuck(k) /\ k.out = <<>>)
    /\ k.over \/ k.retry <= Len(k.out)

\* Nothing but the units handed to the transport changes.
SameQueue(j, k) ==
    /\ j.out = k.out /\ j.said = k.said
    /\ j.over = k.over /\ j.broken = k.broken /\ j.tls = k.tls /\ j.inRetry = k.inRetry

\* What transport_write does with the units d that come next.
Wrote(k, d, w) ==
    /\ Sending(w.k) /\ SameQueue(w.k, k)
    /\ w.n \in 0 .. Len(d)
    /\ Len(w.k.rcvd) = Len(k.rcvd) + w.n
    /\ w.k.retry + w.n <= Len(d)
    /\ w.rc = "failed" => Stuck(k) /\ w.k.retry <= k.retry
    /\ w = Returns(w.rc, w.n, w.k)

LEMMA ReturnsFields ==
    ASSUME NEW rc, NEW n, NEW k
    PROVE  Returns(rc, n, k).rc = rc /\ Returns(rc, n, k).n = n /\ Returns(rc, n, k).k = k
BY DEF Returns

LEMMA WroteThis ==
    ASSUME NEW k, NEW d, NEW rc, NEW n \in 0 .. Len(d), NEW j, Sending(j), SameQueue(j, k),
           Len(j.rcvd) = Len(k.rcvd) + n, j.retry + n <= Len(d),
           rc = "failed" => Stuck(k) /\ j.retry <= k.retry
    PROVE  Wrote(k, d, Returns(rc, n, j))
<1> DEFINE w == Returns(rc, n, j)
<1>1. w.rc = rc /\ w.n = n /\ w.k = j /\ w = Returns(rc, n, j)
  BY ReturnsFields
<1> HIDE DEF w
<1>2. Wrote(k, d, w)  BY <1>1 DEF Wrote
<1>3. QED  BY <1>2 DEF w

LEMMA PlainWrites ==
    ASSUME NEW k, Sending(k), k.tls \notin {"handshake", "established"},
           NEW d, Run(d, Len(k.rcvd))
    PROVE  Wrote(k, d, Plain_write(k, d))
<1> DEFINE n == Least(k.room, Len(d))
           quiet == [k EXCEPT !.retry = 0]
<1>1. Len(d) \in Nat /\ Len(k.rcvd) \in Nat
  BY EmptyLen DEF Sending
<1>2. n \in 0 .. Len(d) /\ n <= k.room
  BY <1>1, LeastFacts DEF Sending, Shape
<1>3. Sending(quiet) /\ SameQueue(quiet, k) /\ quiet.rcvd = k.rcvd /\ quiet.retry = 0
      /\ quiet.room = k.room
  <2>1. Shape(quiet) /\ SameQueue(quiet, k) /\ quiet.rcvd = k.rcvd /\ quiet.retry = 0
        /\ quiet.room = k.room /\ quiet.rec = k.rec
    BY Zenon DEF Sending, Shape, Fields, SameQueue
  <2>2. Len(k.rec) = 0
    BY EmptyLen, <1>1 DEF Sending
  <2>3. QED  BY <2>1, <2>2 DEF Sending, SameQueue
<1> HIDE DEF quiet, n
<1>4. CASE k.broken \/ n = 0
  <2>1. PICK rc : Plain_write(k, d) = Returns(rc, 0, quiet) /\ (rc = "failed" => k.broken)
    BY <1>4 DEF Plain_write, n, quiet
  <2>2. k.retry \in Nat /\ (k.broken => Stuck(k))  BY DEF Sending, Shape, Stuck
  <2>3. 0 \in 0 .. Len(d) /\ Len(quiet.rcvd) = Len(k.rcvd) + 0 /\ quiet.retry + 0 <= Len(d)
        /\ quiet.retry <= k.retry
    BY <1>1, <1>3, <2>2
  <2>4. QED  BY <1>3, <2>1, <2>2, <2>3, WroteThis
<1>5. CASE ~k.broken /\ n # 0
  <2> DEFINE j == [quiet EXCEPT !.room = @ - n, !.rcvd = @ \o First(d, n)]
  <2>1. Plain_write(k, d) = Returns("written", n, j)
    BY <1>5 DEF Plain_write, n, quiet
  <2>2. Run(First(d, n), Len(k.rcvd)) /\ Len(First(d, n)) = n
    BY <1>1, <1>2, RunFirst
  <2>3. Run(k.rcvd \o First(d, n), 0) /\ Len(k.rcvd \o First(d, n)) = Len(k.rcvd) + n
    BY <1>1, <2>2, RunConcat DEF Sending
  <2>4. k.room - n \in Nat
    BY <1>2 DEF Sending, Shape
  <2>5. /\ Shape(j) /\ SameQueue(j, quiet) /\ j.retry = quiet.retry
        /\ j.rcvd = quiet.rcvd \o First(d, n) /\ j.rec = quiet.rec
    BY <1>3, <2>4, Zenon DEF Sending, Shape, Fields, SameQueue
  <2>6. quiet.rec = <<>>
    BY <1>3 DEF Sending, SameQueue
  <2> HIDE DEF j
  <2>7. Sending(j) /\ SameQueue(j, k) /\ Len(j.rcvd) = Len(k.rcvd) + n /\ j.retry = 0
    BY <1>1, <1>2, <1>3, <2>3, <2>5, <2>6, RunEmpty DEF Sending, SameQueue
  <2>8. j.retry + n <= Len(d)  BY <1>1, <1>2, <2>7
  <2>9. QED  BY <1>2, <2>1, <2>7, <2>8, WroteThis
<1>6. QED  BY <1>4, <1>5 DEF Sending, Shape

LEMMA PushFits ==
    ASSUME NEW room \in Nat, NEW pushed \in Nat, NEW length \in Nat
    PROVE  /\ room - Least(room, length - pushed) \in Nat
           /\ pushed + Least(room, length - pushed) \in Nat
BY DEF Least

\* The record of an unfinished write is what a repeated one sends.
LEMMA TlsWrites ==
    ASSUME NEW k, Sending(k), k.tls = "established", ~k.inRetry,
           NEW d, Run(d, Len(k.rcvd)), Len(k.rec) <= Len(d), k.retry <= Len(d)
    PROVE  Wrote(k, d, SSL_write(k, d))
<1> DEFINE rec == IF k.rec = <<>> THEN d ELSE k.rec
           push == Least(k.room, Len(rec) - k.pushed)
           wants(read) == [k EXCEPT !.retry = Len(d), !.wantRead = read]
           pushed == [k EXCEPT !.hs = "none", !.room = @ - push, !.pushed = @ + push, !.rec = rec]
           again == [pushed EXCEPT !.retry = Len(d), !.wantRead = FALSE]
           done == [pushed EXCEPT !.rec = <<>>, !.pushed = 0, !.retry = 0,
                                  !.wantRead = FALSE, !.rcvd = @ \o rec]
<1>1. Len(d) \in Nat /\ Len(k.rcvd) \in Nat /\ Len(k.rec) \in Nat
  BY EmptyLen DEF Sending
<1>2. Run(rec, Len(k.rcvd)) /\ Len(rec) \in Nat /\ Len(rec) <= Len(d)
  BY <1>1 DEF Sending
<1>3. k.room - push \in Nat /\ k.pushed + push \in Nat
  <2>1. k.room \in Nat /\ k.pushed \in Nat /\ Len(rec) - k.pushed \in Int
    BY <1>2 DEF Sending, Shape
  <2> HIDE DEF rec
  <2>2. QED  BY <1>2, <2>1, PushFits, Zenon DEF push
<1> HIDE DEF rec, push
<1>4. \/ SSL_write(k, d) = Returns("failed", 0, k) /\ k.broken
      \/ \E read \in BOOLEAN : SSL_write(k, d) = Returns("again", 0, wants(read))
      \/ SSL_write(k, d) = Returns("again", 0, again)
      \/ SSL_write(k, d) = Returns("written", Len(rec), done)
  <2>1. ~(Len(d) < Len(k.rec))
    BY <1>1
  <2>2. k.room \in Nat /\ k.broken \in BOOLEAN  BY DEF Sending, Shape
  <2>3. ASSUME k.broken
        PROVE  SSL_write(k, d) = Returns("failed", 0, k)
    BY <2>3 DEF SSL_write
  <2>4. ASSUME ~k.broken, k.hs = "wait"
        PROVE  SSL_write(k, d) = Returns("again", 0, wants(TRUE))
    <3>1. ~Answerable(k) /\ k.hs # "here"  BY <2>4 DEF Answerable
    <3>2. QED  BY <2>1, <2>4, <3>1 DEF SSL_write
  <2>5. ASSUME ~k.broken, k.hs = "here", k.room = 0
        PROVE  SSL_write(k, d) = Returns("again", 0, wants(FALSE))
    <3>1. ~Answerable(k) /\ k.hs # "wait"  BY <2>5 DEF Answerable
    <3>2. QED  BY <2>1, <2>5, <3>1 DEF SSL_write
  <2>6. ASSUME ~k.broken, Answerable(k), pushed.pushed < Len(rec)
        PROVE  SSL_write(k, d) = Returns("again", 0, again)
    <3>1. k.hs # "wait" /\ ~(k.hs = "here" /\ k.room = 0)
      BY <2>2, <2>6 DEF Answerable
    <3>2. QED  BY <2>1, <2>6, <3>1 DEF SSL_write, rec, push
  <2>7. ASSUME ~k.broken, k.hs # "wait", ~(k.hs = "here" /\ k.room = 0),
               ~(Answerable(k) /\ pushed.pushed < Len(rec))
        PROVE  SSL_write(k, d) = Returns("written", Len(rec), done)
    BY <2>1, <2>7 DEF SSL_write, rec, push
  <2> HIDE DEF pushed, again, done, wants
  <2>8. QED  BY <2>2, <2>3, <2>4, <2>5, <2>6, <2>7, Zenon
<1>5. CASE SSL_write(k, d) = Returns("failed", 0, k) /\ k.broken
  <2>1. SameQueue(k, k) /\ k.retry \in Nat /\ Stuck(k)
    BY <1>5 DEF SameQueue, Sending, Shape, Stuck
  <2>2. QED  BY <1>1, <1>5, <2>1, WroteThis
<1>6. ASSUME NEW read \in BOOLEAN, SSL_write(k, d) = Returns("again", 0, wants(read))
      PROVE  Wrote(k, d, SSL_write(k, d))
  <2> DEFINE j == wants(read)
  <2>1. /\ Shape(j) /\ SameQueue(j, k) /\ j.rcvd = k.rcvd /\ j.rec = k.rec /\ j.retry = Len(d)
    BY <1>1, Zenon DEF Sending, Shape, Fields, SameQueue
  <2> HIDE DEF j
  <2>2. Sending(j)
    BY <1>1, <2>1 DEF Sending, SameQueue
  <2>3. Wrote(k, d, Returns("again", 0, j))
    <3>1. 0 \in 0 .. Len(d) /\ Len(j.rcvd) = Len(k.rcvd) + 0 /\ j.retry + 0 <= Len(d)
      BY <1>1, <2>1
    <3>2. QED  BY <2>1, <2>2, <3>1, WroteThis
  <2>4. QED  BY <1>6, <2>3 DEF j
<1>7. CASE SSL_write(k, d) = Returns("again", 0, again)
  <2>1. /\ Shape(again) /\ SameQueue(again, k) /\ again.rcvd = k.rcvd /\ again.rec = rec
        /\ again.retry = Len(d)
    BY <1>1, <1>3, Zenon DEF Sending, Shape, Fields, SameQueue
  <2> HIDE DEF again
  <2>2. Sending(again)
    BY <1>1, <1>2, <2>1 DEF Sending, SameQueue
  <2>3. QED  BY <1>1, <1>7, <2>1, <2>2, WroteThis
<1>8. CASE SSL_write(k, d) = Returns("written", Len(rec), done)
  <2>1. /\ Shape(done) /\ SameQueue(done, k) /\ done.rcvd = k.rcvd \o rec /\ done.rec = <<>>
        /\ done.retry = 0
    BY <1>1, <1>3, ZenonT(40) DEF Sending, Shape, Fields, SameQueue
  <2>2. Run(k.rcvd \o rec, 0) /\ Len(k.rcvd \o rec) = Len(k.rcvd) + Len(rec)
    BY <1>1, <1>2, RunConcat DEF Sending
  <2> HIDE DEF done
  <2>3. Sending(done)
    BY <1>1, <1>2, <2>1, <2>2, RunEmpty DEF Sending, SameQueue
  <2>4. /\ Len(rec) \in 0 .. Len(d) /\ Len(done.rcvd) = Len(k.rcvd) + Len(rec)
        /\ done.retry + Len(rec) <= Len(d)
    BY <1>1, <1>2, <2>1, <2>2
  <2>5. QED  BY <1>8, <2>1, <2>3, <2>4, WroteThis, Zenon
<1>9. QED  BY <1>4, <1>5, <1>6, <1>7, <1>8, Zenon

\* A write offers at least what an earlier one left to be repeated.
LEMMA TransportWrites ==
    ASSUME NEW k, Sending(k), NEW d, Run(d, Len(k.rcvd)), k.retry <= Len(d)
    PROVE  Wrote(k, d, transport_write(k, d))
<1> DEFINE w == transport_write(k, d)
<1>1. Len(d) \in Nat /\ Len(k.rcvd) \in Nat /\ Len(k.rec) \in Nat /\ k.retry \in Nat
      /\ Len(k.rec) <= k.retry
  BY EmptyLen DEF Sending, Shape
<1>2. CASE k.tls = "handshake"
  <2> DEFINE j == [k EXCEPT !.retry = 0, !.wantRead = FALSE]
  <2>1. w = Returns("again", 0, j)
    BY <1>2 DEF transport_write
  <2>2. Shape(j) /\ SameQueue(j, k) /\ j.rcvd = k.rcvd /\ j.rec = k.rec /\ j.retry = 0
    BY Zenon DEF Sending, Shape, Fields, SameQueue
  <2>3. k.rec = <<>>  BY <1>2 DEF Sending
  <2> HIDE DEF j
  <2>4. Sending(j)
    BY <1>1, <2>2, <2>3, RunEmpty DEF Sending, SameQueue
  <2>5. QED  BY <1>1, <2>1, <2>2, <2>4, WroteThis
<1>3. CASE k.tls = "established" /\ k.inRetry
  <2>1. w = Returns("again", 0, k)
    BY <1>3 DEF transport_write
  <2>2. SameQueue(k, k)  BY DEF SameQueue
  <2>3. QED  BY <1>1, <2>1, <2>2, WroteThis
<1>4. CASE k.tls = "established" /\ ~k.inRetry
  <2> DEFINE part == IF k.retry = 0 THEN d ELSE First(d, k.retry)
  <2>1. w = SSL_write(k, part)
    BY <1>1, <1>4 DEF transport_write
  <2>2. /\ Run(part, Len(k.rcvd)) /\ Len(k.rec) <= Len(part)
        /\ Len(part) \in Nat /\ Len(part) <= Len(d) /\ k.retry <= Len(part)
    BY <1>1, RunFirst
  <2> HIDE DEF part
  <2>3. Wrote(k, part, w)  BY <1>4, <2>1, <2>2, TlsWrites
  <2>4. w.k.retry \in Nat  BY <2>3 DEF Wrote, Sending, Shape
  <2> HIDE DEF w
  <2>5. QED  BY <1>1, <2>2, <2>3, <2>4 DEF Wrote, w
<1>5. CASE k.tls \notin {"handshake", "established"}
  <2>1. w = Plain_write(k, d)
    BY <1>5 DEF transport_write
  <2>2. QED  BY <1>5, <2>1, PlainWrites
<1>6. QED  BY <1>2, <1>3, <1>4, <1>5

LEMMA StuckFails ==
    ASSUME NEW k, Sending(k), Stuck(k), k.retry = 0, NEW d, d \in Seq(Nat)
    PROVE  /\ transport_write(k, d).rc = "failed"
           /\ transport_write(k, d).k = k
<1>1. CASE k.tls = "established"
  <2>1. transport_write(k, d) = SSL_write(k, d)
    BY <1>1 DEF transport_write, Stuck
  <2>2. SSL_write(k, d) = Returns("failed", 0, k)
    BY DEF SSL_write, Stuck
  <2>3. QED  BY <2>1, <2>2, ReturnsFields
<1>2. CASE k.tls # "established"
  <2>1. transport_write(k, d) = Plain_write(k, d)
    BY <1>2 DEF transport_write, Stuck
  <2>2. Plain_write(k, d) = Returns("failed", 0, [k EXCEPT !.retry = 0])
    BY DEF Plain_write, Stuck
  <2>3. [k EXCEPT !.retry = 0] = k
    BY DEF Sending, Shape, Fields
  <2>4. QED  BY <2>1, <2>2, <2>3, ReturnsFields
<1>3. QED  BY <1>1, <1>2

-----------------------------------------------------------------------------
(* Sending a message *)

LEMMA IntactFacts ==
    ASSUME NEW k, Intact(k)
    PROVE  /\ Shape(k) /\ Sending(k) /\ Run(k.rec, Len(k.rcvd)) /\ Run(k.out, Len(k.rcvd))
           /\ k.said \in Nat /\ k.retry \in Nat /\ k.over \in BOOLEAN
           /\ Len(k.rcvd) \in Nat /\ Len(k.out) \in Nat /\ Len(k.rec) \in Nat
           /\ k.out = <<>> <=> Len(k.out) = 0
           /\ k.rec = <<>> <=> Len(k.rec) = 0
BY EmptyLen DEF Intact, Sending, Shape

LEMMA MessageRun ==
    ASSUME NEW k, k.said \in Nat
    PROVE  Run(Message(k), k.said) /\ Len(Message(k)) = 2
BY DEF Message, Run

\* k with its queue and its count of units said replaced.
LEMMA Requeued ==
    ASSUME NEW k, Sending(k), NEW q, NEW n \in Nat, NEW o \in BOOLEAN,
           Run(q, Len(k.rcvd)),
           Len(k.rcvd) + Len(q) <= n,
           Len(k.rcvd) + Len(q) = n \/ o \/ (Stuck(k) /\ q = <<>>),
           o \/ k.retry <= Len(q),
           NEW j, j = [k EXCEPT !.out = q, !.said = n, !.over = o]
    PROVE  Intact(j)
<1>1. /\ Shape(j) /\ j.out = q /\ j.said = n /\ j.over = o
      /\ j.rcvd = k.rcvd /\ j.rec = k.rec /\ j.retry = k.retry /\ j.tls = k.tls
      /\ j.broken = k.broken /\ j.inRetry = k.inRetry
  BY Zenon DEF Sending, Shape, Fields
<1>2. Sending(j)  BY <1>1 DEF Sending
<1>3. Stuck(k) => Stuck(j)  BY <1>1 DEF Stuck
<1>4. QED  BY <1>1, <1>2, <1>3 DEF Intact

(* What a short write of two units leaves to queue.                        *)
LEMMA StillCovered ==
    ASSUME NEW x \in Nat, NEW y \in Nat, NEW z \in Nat, x <= y
    PROVE  x <= y + z
OBVIOUS

LEMMA SumOfThree ==
    ASSUME NEW a \in Nat, NEW b \in Nat, NEW c \in Nat
    PROVE  /\ a + b <= a + b + c /\ a <= a + b
           /\ a + (b + c) = a + b + c /\ b + c \in Nat /\ a + b + c \in Nat
OBVIOUS

\* The same, for an empty queue.
LEMMA RequeuedEmpty ==
    ASSUME NEW k, Sending(k), NEW n \in Nat,
           Len(k.rcvd) <= n, Len(k.rcvd) = n \/ Stuck(k), k.retry <= 0,
           NEW j, j = [k EXCEPT !.out = <<>>, !.said = n, !.over = FALSE]
    PROVE  Intact(j)
<1>1. Len(k.rcvd) \in Nat  BY EmptyLen DEF Sending
<1>2. PICK q : q = <<>>  OBVIOUS
<1>3. Run(q, Len(k.rcvd)) /\ Len(q) = 0  BY <1>1, <1>2, RunEmpty
<1>4. Len(k.rcvd) + Len(q) = Len(k.rcvd)  BY <1>1, <1>3
<1>5. j = [k EXCEPT !.out = q, !.said = n, !.over = FALSE]  BY <1>2
<1>6. k.retry <= Len(q)  BY <1>3
<1>7. Len(k.rcvd) + Len(q) <= n /\ (Len(k.rcvd) + Len(q) = n \/ (Stuck(k) /\ q = <<>>))
  BY <1>2, <1>4
<1>8. QED  BY <1>3, <1>5, <1>6, <1>7, Requeued, Zenon

\* Units that come next are queued, or the queue overflows.
LEMMA QueueAppends ==
    ASSUME NEW k, Sending(k), Run(k.out, Len(k.rcvd)), ~k.over,
           NEW d, Run(d, Len(k.rcvd) + Len(k.out)), k.retry <= Len(k.out) + Len(d),
           NEW n, n = Len(k.rcvd) + Len(k.out) + Len(d)
    PROVE  Intact([queue_append(k, d) EXCEPT !.said = n])
<1> DEFINE j == [queue_append(k, d) EXCEPT !.said = n]
           q == k.out \o d
<1>1. Len(k.rcvd) \in Nat /\ Len(k.out) \in Nat /\ Len(d) \in Nat
  BY EmptyLen DEF Sending
<1>2. k.over = FALSE  BY DEF Sending, Shape
<1>3. Len(k.rcvd) + Len(k.out) <= n /\ Len(k.rcvd) + (Len(k.out) + Len(d)) = n /\ n \in Nat
  BY <1>1, SumOfThree, ZenonT(40)
<1>4. n <= n  BY <1>3
<1>5. CASE Len(d) > SendQ - Len(k.out)
  <2>1. j = [k EXCEPT !.out = k.out, !.said = n, !.over = TRUE]
    BY <1>5, Zenon DEF queue_append, Sending, Shape, Fields
  <2> HIDE DEF j
  <2>2. Intact(j)  BY <1>3, <2>1, Requeued, Zenon
  <2>3. QED  BY <2>2 DEF j
<1>6. CASE ~(Len(d) > SendQ - Len(k.out))
  <2>1. j = [k EXCEPT !.out = q, !.said = n, !.over = FALSE]
    BY <1>2, <1>6, Zenon DEF queue_append, Sending, Shape, Fields
  <2>2. Run(q, Len(k.rcvd)) /\ Len(q) = Len(k.out) + Len(d)
    BY <1>1, RunConcat, Zenon
  <2> HIDE DEF j, q
  <2>3. Len(k.rcvd) + Len(q) = n /\ Len(k.rcvd) + Len(q) <= n /\ k.retry <= Len(q)
    BY <1>3, <1>4, <2>2, Zenon
  <2>4. Intact(j)  BY <1>3, <2>1, <2>2, <2>3, Requeued, Zenon
  <2>5. QED  BY <2>4 DEF j
<1>7. QED  BY <1>5, <1>6

\* A message is sent, queued behind what is waiting, or cut off.
LEMMA SendKeeps ==
    ASSUME NEW k, Intact(k)
    PROVE  Intact(Sends(k))
<1> DEFINE m == Message(k)
           n == k.said + 2
<1>1. Run(m, k.said) /\ Len(m) = 2
  BY IntactFacts, MessageRun
<1>2. k.said \in Nat /\ Len(k.rcvd) \in Nat /\ Len(k.out) \in Nat /\ k.retry \in Nat
  BY IntactFacts
<1> PICK s \in Nat, a \in Nat, b \in Nat :
        s = k.said /\ a = Len(k.rcvd) /\ b = Len(k.out)
  BY <1>2
<1>3. n \in Nat /\ n = s + 2
  OBVIOUS
<1>4. /\ ~k.over => k.retry <= b
      /\ a + b = s \/ k.over \/ (Stuck(k) /\ k.out = <<>>)
      /\ a + b <= s
  BY Zenon DEF Intact
<1>5. CASE k.over
  BY <1>5 DEF Sends
<1>6. ASSUME ~k.over
      PROVE  Sends(k) = [client_send_raw(k, m) EXCEPT !.said = @ + 2]
  BY <1>6 DEF Sends
<1> HIDE DEF m, n
<1>7. CASE ~k.over /\ k.out # <<>>
  <2>1. client_send_raw(k, m) = queue_append(k, m)
    BY <1>7 DEF client_send_raw
  <2>2. queue_append(k, m).said = k.said
    BY IntactFacts DEF queue_append, Shape, Fields
  <2>3. Sends(k) = [queue_append(k, m) EXCEPT !.said = n]
    BY <1>6, <1>7, <2>1, <2>2 DEF n
  <2>4. a + b = s /\ k.retry <= b
    BY <1>7, <1>4, Zenon
  <2>5. k.retry <= b + 2
    BY <1>2, <2>4, StillCovered
  <2>6. a + b = s /\ n = a + b + 2 /\ k.retry <= b + 2
    BY <1>3, <2>4, <2>5, Zenon
  <2>7. n = Len(k.rcvd) + Len(k.out) + Len(m) /\ k.retry <= Len(k.out) + Len(m)
        /\ Run(m, Len(k.rcvd) + Len(k.out))
    BY <1>1, <2>6, Zenon
  <2>8. Sending(k) /\ Run(k.out, Len(k.rcvd))  BY IntactFacts
  <2>9. Intact([queue_append(k, m) EXCEPT !.said = n])
    BY <1>7, <2>7, <2>8, QueueAppends, Zenon
  <2>10. QED  BY <2>3, <2>9
<1>8. CASE ~k.over /\ k.out = <<>> /\ Len(k.rcvd) + Len(k.out) = k.said
  <2> DEFINE w == transport_write(k, m)
  <2>1. b = 0 /\ k.retry = 0 /\ s = a /\ k.over = FALSE
    BY <1>8, <1>2, <1>4, IntactFacts
  <2>2. Wrote(k, m, w)
    BY <1>1, <2>1, IntactFacts, TransportWrites
  <2>3. client_send_raw(k, m) = IF w.rc = "failed" \/ w.n = Len(m) THEN w.k
                                ELSE queue_append(w.k, Rest(m, w.n))
    BY <1>8 DEF client_send_raw, SentDirectly
  <2> HIDE DEF w
  <2>4. /\ Sending(w.k) /\ w.k.out = <<>> /\ w.k.said = k.said /\ w.k.over = FALSE
        /\ w.n \in 0 .. 2 /\ Len(w.k.rcvd) = a + w.n
        /\ w.k.retry \in Nat /\ w.k.retry + w.n <= 2
    BY <1>1, <1>8, <2>1, <2>2 DEF Wrote, SameQueue, Sending, Shape
  <2>5. Len(w.k.rcvd) \in Nat /\ Run(<<>>, Len(w.k.rcvd)) /\ Len(<<>>) = 0
    BY <2>1, <2>4, RunEmpty
  <2>6. CASE w.rc = "failed" \/ w.n = Len(m)
    <3>1. Sends(k) = [w.k EXCEPT !.out = <<>>, !.said = n, !.over = FALSE]
      BY <1>6, <1>8, <2>3, <2>4, <2>6, ZenonT(40) DEF Sending, Shape, Fields, n
    <3>2. w.rc = "failed" => Stuck(w.k) /\ w.k.retry <= 0
      BY <2>1, <2>2 DEF Wrote, Stuck, SameQueue
    <3>3. Len(w.k.rcvd) <= n /\ (Len(w.k.rcvd) = n \/ Stuck(w.k)) /\ w.k.retry <= 0
      BY <1>1, <1>3, <2>1, <2>4, <2>6, <3>2
    <3> DEFINE j == Sends(k)
    <3> HIDE DEF j
    <3>4. j = [w.k EXCEPT !.out = <<>>, !.said = n, !.over = FALSE]  BY <3>1 DEF j
    <3>5. Intact(j)  BY <1>3, <2>4, <3>3, <3>4, RequeuedEmpty, Zenon
    <3>6. QED  BY <3>5 DEF j
  <2>7. CASE w.rc # "failed" /\ w.n # Len(m)
    <3> DEFINE r == Rest(m, w.n)
    <3>1. Run(r, Len(w.k.rcvd)) /\ Len(r) = 2 - w.n
      <4>1. Run(r, s + w.n) /\ Len(r) = Len(m) - w.n
        BY <1>1, <2>4, RunRest, Zenon
      <4>2. QED  BY <1>1, <2>1, <2>4, <4>1
    <3> HIDE DEF r
    <3>2. client_send_raw(k, m) = queue_append(w.k, r)
      BY <2>3, <2>7 DEF r
    <3>3. queue_append(w.k, r).said = k.said
      BY <2>4 DEF queue_append, Sending, Shape, Fields
    <3>4. Sends(k) = [queue_append(w.k, r) EXCEPT !.said = n]
      BY <1>6, <1>8, <3>2, <3>3 DEF n
    <3>5. /\ Run(w.k.out, Len(w.k.rcvd)) /\ ~w.k.over /\ Len(w.k.out) = 0
          /\ Run(r, Len(w.k.rcvd) + Len(w.k.out))
          /\ w.k.retry <= Len(w.k.out) + Len(r)
          /\ n = Len(w.k.rcvd) + Len(w.k.out) + Len(r)
      <4>1. Run(w.k.out, Len(w.k.rcvd)) /\ ~w.k.over /\ Len(w.k.out) = 0
        BY <2>4, <2>5
      <4> PICK v \in Nat, x \in 0 .. 2, y \in Nat :
             v = Len(w.k.rcvd) /\ x = w.n /\ y = w.k.retry
        BY <2>4, <2>5
      <4>2. v = a + x /\ Len(r) = 2 - x /\ y <= 2 - x /\ n = a + 2
        <5>1. v = a + x /\ y + x <= 2  BY <2>4
        <5>2. Len(r) = 2 - x  BY <3>1
        <5>3. n = a + 2  BY <1>3, <2>1
        <5>4. y <= 2 - x  BY <5>1
        <5>5. QED  BY <5>1, <5>2, <5>3, <5>4
      <4>3. v + 0 = v /\ n = v + 0 + (2 - x) /\ y <= 0 + (2 - x)
        <5>1. PICK p : p = n  OBVIOUS
        <5>2. v = a + x /\ p = a + 2 /\ y <= 2 - x  BY <4>2, <5>1
        <5>3. v + 0 = v /\ p = v + 0 + (2 - x) /\ y <= 0 + (2 - x)
          <6>1. v + 0 = v  OBVIOUS
          <6>2. a + 2 = a + x + (2 - x)  OBVIOUS
          <6>3. 0 + (2 - x) = 2 - x  OBVIOUS
          <6>4. QED  BY <5>2, <6>1, <6>2, <6>3
        <5>4. QED  BY <5>1, <5>3
      <4>4. QED  BY <3>1, <4>1, <4>2, <4>3
    <3>6. Intact([queue_append(w.k, r) EXCEPT !.said = n])
      BY <2>4, <3>5, QueueAppends, Zenon
    <3>7. QED  BY <3>4, <3>6
  <2>8. QED  BY <2>6, <2>7
<1>9. CASE ~k.over /\ k.out = <<>> /\ Stuck(k)
  <2>1. b = 0 /\ k.retry = 0 /\ k.over = FALSE /\ a <= s
    BY <1>9, <1>2, <1>4, IntactFacts
  <2>2. transport_write(k, m).rc = "failed" /\ transport_write(k, m).k = k
    BY <1>1, <1>9, <2>1, IntactFacts, StuckFails DEF Run
  <2>3. client_send_raw(k, m) = k
    BY <1>9, <2>2 DEF client_send_raw, SentDirectly
  <2>4. Sends(k) = [k EXCEPT !.out = <<>>, !.said = n, !.over = FALSE]
    BY <1>6, <1>9, <2>1, <2>3, IntactFacts, Zenon DEF Shape, Fields, n
  <2>5. Len(k.rcvd) <= n /\ k.retry <= 0
    BY <1>3, <2>1
  <2> DEFINE j == Sends(k)
  <2> HIDE DEF j
  <2>6. j = [k EXCEPT !.out = <<>>, !.said = n, !.over = FALSE]  BY <2>4 DEF j
  <2>7. Intact(j)  BY <1>3, <1>9, <2>5, <2>6, IntactFacts, RequeuedEmpty, Zenon
  <2>8. QED  BY <2>7 DEF j
<1>10. QED  BY <1>5, <1>7, <1>8, <1>9, <1>4, Zenon

-----------------------------------------------------------------------------
(* Flushing the queue *)

LEMMA SumShift ==
    ASSUME NEW a \in Nat, NEW b \in Nat, NEW n \in 0 .. b
    PROVE  (a + n) + (b - n) = a + b /\ b - n \in Nat
OBVIOUS

LEMMA RoomShift ==
    ASSUME NEW x \in Nat, NEW n \in Nat, NEW l \in Nat, NEW b \in Nat, x + n <= l, l <= b
    PROVE  x <= b - n /\ n <= b
OBVIOUS

\* One pass of the loop takes what was written off the queue, and no more.
LEMMA PassKeeps ==
    ASSUME NEW k, Intact(k), ~k.over, NEW budget \in Nat
    PROVE  /\ Intact(FlushPass(k, budget).k) /\ ~FlushPass(k, budget).k.over
           /\ FlushPass(k, budget).n \in Nat
           /\ FlushPass(k, budget) = Returns(FlushPass(k, budget).rc, FlushPass(k, budget).n,
                                             FlushPass(k, budget).k)
<1> DEFINE least == Least(Len(k.out), budget)
           attempt == IF k.retry > least THEN k.retry ELSE least
           d == First(k.out, attempt)
           w == transport_write(k, d)
           q == Rest(k.out, w.n)
           j == [w.k EXCEPT !.out = q]
<1>1. k.retry \in Nat /\ Len(k.out) \in Nat /\ Len(k.rcvd) \in Nat /\ k.said \in Nat
      /\ k.over = FALSE
  BY IntactFacts
<1>2. k.retry <= Len(k.out)  BY DEF Intact
<1>3. attempt \in 0 .. Len(k.out) /\ k.retry <= attempt
  BY <1>1, <1>2 DEF Least
<1> HIDE DEF attempt
<1>4. Run(d, Len(k.rcvd)) /\ Len(d) = attempt
  BY <1>1, <1>3, IntactFacts, RunFirst
<1> HIDE DEF d
<1>5. Wrote(k, d, w)
  BY <1>3, <1>4, IntactFacts, TransportWrites
<1>6. FlushPass(k, budget) = [w EXCEPT !.k.out = Rest(@, w.n)]
  BY DEF FlushPass, attempt, d
<1> HIDE DEF w
<1>7. /\ Sending(w.k) /\ SameQueue(w.k, k) /\ w.n \in 0 .. Len(d) /\ w.n \in Nat
      /\ Len(w.k.rcvd) = Len(k.rcvd) + w.n /\ w.k.retry + w.n <= Len(d)
      /\ w = Returns(w.rc, w.n, w.k) /\ w.k.retry \in Nat
  BY <1>3, <1>4, <1>5 DEF Wrote, Sending, Shape
<1>8. FlushPass(k, budget) = Returns(w.rc, w.n, j)
  BY <1>6, <1>7, Zenon DEF Returns, SameQueue
<1>9. w.k.retry <= Len(k.out) - w.n /\ w.n <= Len(k.out)
  BY <1>1, <1>3, <1>4, <1>7, RoomShift, SMTT(20)
<1>10. w.n \in 0 .. Len(k.out)  BY <1>1, <1>7, <1>9
<1>11. Run(q, Len(w.k.rcvd)) /\ Len(q) = Len(k.out) - w.n
  BY <1>1, <1>7, <1>10, IntactFacts, RunRest, SMT, SMTT(30)
<1>12. (Len(k.rcvd) + w.n) + (Len(k.out) - w.n) = Len(k.rcvd) + Len(k.out)
       /\ Len(k.out) - w.n \in Nat
  BY <1>1, <1>10, SumShift, Zenon
<1>13. Len(w.k.rcvd) + Len(q) = Len(k.rcvd) + Len(k.out)
  BY <1>7, <1>11, <1>12, Zenon
<1>14. Stuck(k) /\ k.out = <<>> => Stuck(w.k) /\ q = <<>>
  <2>1. SUFFICES ASSUME Stuck(k), k.out = <<>> PROVE Stuck(w.k) /\ q = <<>>  OBVIOUS
  <2>2. Stuck(w.k)  BY <1>7, <2>1 DEF Stuck, SameQueue
  <2>3. Len(k.out) = 0  BY <2>1, IntactFacts
  <2>4. Len(q) = 0  BY <1>7, <1>10, <1>11, <2>3
  <2>5. QED  BY <1>11, <2>2, <2>4, EmptyLen
<1> HIDE DEF q
<1>15. Intact(j)
  <2>1. /\ Shape(j) /\ j.out = q /\ j.said = k.said /\ j.over = FALSE
        /\ j.rcvd = w.k.rcvd /\ j.rec = w.k.rec /\ j.retry = w.k.retry /\ j.tls = w.k.tls
        /\ j.broken = w.k.broken /\ j.inRetry = w.k.inRetry
    BY <1>1, <1>7, Zenon DEF Sending, Shape, Fields, SameQueue
  <2> HIDE DEF j
  <2>2. Sending(j)  BY <1>7, <2>1 DEF Sending
  <2>3. Stuck(w.k) => Stuck(j)  BY <2>1 DEF Stuck
  <2>4. Len(k.rcvd) + Len(k.out) <= k.said
        /\ (Len(k.rcvd) + Len(k.out) = k.said \/ (Stuck(k) /\ k.out = <<>>))
    BY Zenon DEF Intact
  <2>5. j.retry <= Len(j.out)  BY <1>9, <1>11, <2>1
  <2>6. Len(j.rcvd) + Len(j.out) = Len(k.rcvd) + Len(k.out)  BY <1>13, <2>1, Zenon
  <2>7. QED  BY <1>11, <1>14, <2>1, <2>2, <2>3, <2>4, <2>5, <2>6, Zenon DEF Intact
<1>16. ~j.over  BY <1>1, <1>7, Zenon DEF Sending, Shape, Fields, SameQueue
<1> HIDE DEF j
<1>17. QED  BY <1>7, <1>8, <1>15, <1>16, ReturnsFields

\* So does the whole loop, and an empty queue has nothing left to repeat.
LEMMA FlushKeeps ==
    ASSUME NEW k, Intact(k), ~k.over
    PROVE  Intact(client_flush_output(k).k) /\ ~client_flush_output(k).k.over
<1> DEFINE once == FlushPass(k, FlushBudget)
           more == once.rc = "written" /\ once.n < FlushBudget /\ once.k.out # <<>>
           twice == IF more THEN FlushPass(once.k, FlushBudget - once.n) ELSE once
           j == [twice.k EXCEPT !.retry = 0, !.wantRead = FALSE]
<1>1. FlushBudget \in Nat  BY IOConstants
<1>2. Intact(once.k) /\ ~once.k.over /\ once.n \in Nat
      /\ once = Returns(once.rc, once.n, once.k)
  BY <1>1, PassKeeps
<1>3. client_flush_output(k) = IF twice.rc = "failed" \/ twice.k.out # <<>> THEN twice
                               ELSE [twice EXCEPT !.k.retry = 0, !.k.wantRead = FALSE]
  BY ZenonT(40) DEF client_flush_output
<1> HIDE DEF once
<1>4. Intact(twice.k) /\ ~twice.k.over /\ twice = Returns(twice.rc, twice.n, twice.k)
  <2>1. CASE more
    <3>1. FlushBudget - once.n \in Nat  BY <1>1, <1>2, <2>1
    <3>2. QED  BY <1>2, <2>1, <3>1, PassKeeps
  <2>2. CASE ~more
    BY <1>2, <2>2
  <2>3. QED  BY <2>1, <2>2
<1> HIDE DEF twice
<1>5. CASE twice.rc = "failed" \/ twice.k.out # <<>>
  BY <1>3, <1>4, <1>5
<1>6. CASE ~(twice.rc = "failed" \/ twice.k.out # <<>>)
  <2>1. client_flush_output(k).k = j
    BY <1>3, <1>4, <1>6 DEF Returns
  <2>2. /\ Shape(j) /\ j.out = twice.k.out /\ j.said = twice.k.said /\ j.over = twice.k.over
        /\ j.rcvd = twice.k.rcvd /\ j.rec = twice.k.rec /\ j.retry = 0 /\ j.tls = twice.k.tls
        /\ j.broken = twice.k.broken /\ j.inRetry = twice.k.inRetry
    <3>1. Shape(twice.k)
      BY <1>4, IntactFacts, Zenon
    <3>2. /\ j.out = twice.k.out /\ j.said = twice.k.said /\ j.over = twice.k.over
          /\ j.rcvd = twice.k.rcvd /\ j.rec = twice.k.rec /\ j.retry = 0 /\ j.tls = twice.k.tls
          /\ j.broken = twice.k.broken /\ j.inRetry = twice.k.inRetry
      BY <3>1, ZenonT(40) DEF Shape, Fields
    <3>3. Shape(j)
      BY <3>1, ZenonT(40) DEF Shape, Fields
    <3>4. QED  BY <3>2, <3>3, Zenon
  <2> HIDE DEF j
  <2>3. Len(twice.k.out) = 0 /\ twice.k.retry <= Len(twice.k.out)
    BY <1>4, <1>6, IntactFacts DEF Intact
  <2>4. Len(twice.k.rec) <= twice.k.retry  BY <1>4 DEF Intact, Sending
  <2>5. Len(twice.k.rec) \in Nat /\ twice.k.retry \in Nat  BY <1>4, IntactFacts
  <2>6. Len(twice.k.rec) <= 0  BY <2>3, <2>4, <2>5
  <2>7. Sending(j)  BY <1>4, <2>2, <2>6 DEF Intact, Sending
  <2>8. Stuck(twice.k) => Stuck(j)  BY <2>2 DEF Stuck
  <2>9. j.retry <= Len(j.out)  BY <2>2, <2>3
  <2>10. Intact(j)  BY <1>4, <2>2, <2>7, <2>8, <2>9, Zenon DEF Intact
  <2>11. QED  BY <1>4, <2>1, <2>2, <2>10
<1>7. QED  BY <1>5, <1>6

-----------------------------------------------------------------------------
(* Reading, and serving a connection *)

\* j differs from k at most in its input.
SameOutput(j, k) ==
    /\ j = [f \in Fields |-> j[f]]
    /\ j.out = k.out /\ j.said = k.said /\ j.over = k.over /\ j.broken = k.broken
    /\ j.tls = k.tls /\ j.retry = k.retry /\ j.rec = k.rec /\ j.rcvd = k.rcvd
    /\ j.room \in Nat /\ j.pushed = k.pushed

LEMMA InputOnly ==
    ASSUME NEW k, Intact(k), NEW j, SameOutput(j, k), ~k.broken \/ j.inRetry = k.inRetry
    PROVE  Intact(j)
<1>1. Sending(j)  BY DEF Intact, Sending, Shape, SameOutput
<1>2. Stuck(k) => Stuck(j)  BY Zenon DEF SameOutput, Stuck
<1>3. QED  BY <1>1, <1>2, Zenon DEF Intact, SameOutput

\* A read that does not fail, on a connection that was not reset, takes input.
LEMMA ReadKeeps ==
    ASSUME NEW k, Intact(k), read_client(k).rc # "failed"
    PROVE  Intact(read_client(k).k) /\ (read_client(k).k.over <=> k.over)
<1>1. Shape(k)  BY IntactFacts
<1>2. SameOutput(k, k)  BY <1>1 DEF Shape, SameOutput
<1>3. ASSUME NEW available, Plain_read(k, available).rc # "failed"
      PROVE  ~k.broken /\ SameOutput(Plain_read(k, available).k, k)
  BY <1>1, <1>2, <1>3, Zenon DEF Plain_read, Returns, Shape, Fields, SameOutput
<1>4. ASSUME NEW available, SSL_read(k, available).rc # "failed"
      PROVE  ~k.broken /\ SameOutput(SSL_read(k, available).k, k)
  <2>1. ~k.broken
    BY <1>1, <1>4 DEF SSL_read, Returns, Shape
  <2> DEFINE record == IF k.held # <<>> THEN k.held
                       ELSE First(k.wire, Least(RecordMax, Len(k.wire)))
             n == Least(available, Len(record))
             wants(write) == [k EXCEPT !.inRetry = TRUE, !.wantWrite = write]
             none == [k EXCEPT !.hs = "none", !.inRetry = TRUE, !.wantWrite = FALSE]
             some == [k EXCEPT !.hs = "none", !.inRetry = FALSE, !.wantWrite = FALSE,
                               !.in = @ \o First(record, n), !.held = Rest(record, n),
                               !.wire = IF k.held # <<>> THEN @ ELSE Rest(@, Len(record))]
  <2> HIDE DEF record, n
  <2>2. SSL_read(k, available).k \in {wants(FALSE), wants(TRUE), none, some}
    BY <2>1 DEF SSL_read, Returns, record, n
  <2>3. SameOutput(wants(FALSE), k) /\ SameOutput(wants(TRUE), k)
    BY <1>1, Zenon DEF Shape, Fields, SameOutput
  <2>4. SameOutput(none, k)
    BY <1>1, Zenon DEF Shape, Fields, SameOutput
  <2>5. SameOutput(some, k)
    BY <1>1, Zenon DEF Shape, Fields, SameOutput
  <2> HIDE DEF wants, none, some
  <2>6. QED  BY <2>1, <2>2, <2>3, <2>4, <2>5, Zenon
<1>5. ~k.broken /\ SameOutput(read_client(k).k, k)
  BY <1>3, <1>4 DEF read_client, Returns
<1>6. QED  BY <1>5, InputOnly DEF SameOutput

\* j is k after a step of its handshake.
Opened(j, k) ==
    /\ Shape(j)
    /\ j.out = k.out /\ j.said = k.said /\ j.over = k.over /\ j.broken = k.broken
    /\ j.retry = k.retry /\ j.rec = k.rec /\ j.rcvd = k.rcvd

LEMMA OpenedIntact ==
    ASSUME NEW k, Intact(k), k.rec = <<>>, ~k.broken, NEW j, Opened(j, k)
    PROVE  Intact(j)
<1>1. Sending(j)  BY DEF Intact, Sending, Opened
<1>2. ~Stuck(k)  BY DEF Stuck
<1>3. QED  BY <1>1, <1>2, Zenon DEF Intact, Opened

LEMMA HandshakeKeeps ==
    ASSUME NEW k, Intact(k), k.tls = "handshake", NEW done \in BOOLEAN,
           advance_tls_handshake(k, done).rc # "failed"
    PROVE  Intact(advance_tls_handshake(k, done).k)
<1> DEFINE r == advance_tls_handshake(k, done)
<1>1. Shape(k) /\ k.rec = <<>> /\ ~k.broken
  BY IntactFacts DEF Intact, Sending, Shape, advance_tls_handshake, Returns
<1>2. CASE k.hs = "here" /\ k.room > 0 /\ done
  <2> DEFINE j == [k EXCEPT !.tls = "established", !.wantWrite = FALSE, !.hs = "none"]
  <2>1. r.k = j  BY <1>1, <1>2 DEF advance_tls_handshake, Returns
  <2>2. Opened(j, k)  BY <1>1, Zenon DEF Shape, Fields, Opened
  <2>3. QED  BY <1>1, <2>1, <2>2, OpenedIntact
<1>3. CASE ~(k.hs = "here" /\ k.room > 0 /\ done)
  <2> DEFINE j == [k EXCEPT !.wantWrite = (k.hs = "here" /\ k.room = 0),
                            !.hs = IF k.hs = "here" /\ k.room = 0 THEN "here" ELSE "wait"]
  <2>1. r.k = j  BY <1>1, <1>3 DEF advance_tls_handshake, Returns
  <2>2. Opened(j, k)  BY <1>1, Zenon DEF Shape, Fields, Opened
  <2>3. QED  BY <1>1, <2>1, <2>2, OpenedIntact
<1>4. QED  BY <1>2, <1>3

\* A connection that is kept after it was served is intact.
LEMMA ServedKeeps ==
    ASSUME NEW k, Intact(k), ~k.over, NEW events, Served(k, events).rc # "failed"
    PROVE  Intact(Served(k, events).k)
<1> DEFINE flushed == IF client_output_pending(k)
                         /\ ("out" \in events \/ (k.wantRead /\ "in" \in events))
                      THEN client_flush_output(k) ELSE Returns("idle", 0, k)
<1>1. Intact(client_flush_output(k).k)  BY FlushKeeps
<1>2. Intact(flushed.k)  BY <1>1, ReturnsFields
<1>3. Intact(Returns("idle", 0, k).k)  BY ReturnsFields
<1> HIDE DEF flushed
<1>4. \/ Served(k, events) = read_client(k)
      \/ Served(k, events) = read_client(flushed.k)
      \/ Served(k, events) = client_flush_output(k)
      \/ Served(k, events) = flushed
      \/ Served(k, events) = Returns("idle", 0, k)
  <2>1. CASE k.tls = "established" /\ k.inRetry
    BY <2>1 DEF Served
  <2>2. CASE k.tls = "established" /\ ~k.inRetry /\ k.retry # 0
    BY <2>2 DEF Served
  <2>3. CASE ~(k.tls = "established" /\ k.inRetry)
             /\ ~(k.tls = "established" /\ ~k.inRetry /\ k.retry # 0)
    BY <2>3 DEF Served, flushed
  <2>4. QED  BY <2>1, <2>2, <2>3
<1>5. QED  BY <1>1, <1>2, <1>3, <1>4, ReadKeeps

-----------------------------------------------------------------------------
(* The steps of the loop, of the peers and of the clock *)

LinksOK == link = [c \in Clients |-> link[c]] /\ \A c \in Clients : Intact(link[c])

LoopInv == config.slow \subseteq Clients /\ "slow" \in DOMAIN config /\ LinksOK

LEMMA NewIntact ==
    ASSUME NEW tls
    PROVE  Intact(NewConnection(tls))
<1> DEFINE k == NewConnection(tls)
<1>1. Window \in Nat  BY IOConstants
<1>2. k = [f \in Fields |-> k[f]] /\ k.out = <<>> /\ k.rec = <<>> /\ k.rcvd = <<>>
      /\ k.retry = 0 /\ k.room = Window /\ k.pushed = 0 /\ k.said = 0 /\ k.over = FALSE
      /\ k.broken = FALSE
  BY DEF NewConnection, Fields
<1> HIDE DEF k
<1>3. Run(<<>>, 0) /\ Len(<<>>) = 0  BY RunEmpty
<1>4. Shape(k)
  <2>1. k.over \in BOOLEAN /\ k.broken \in BOOLEAN  BY <1>2, Zenon
  <2>2. k.retry \in Nat /\ k.room \in Nat /\ k.pushed \in Nat /\ k.said \in Nat  BY <1>1, <1>2
  <2>3. QED  BY <1>2, <2>1, <2>2, Zenon DEF Shape
<1>5. Len(k.rcvd) = 0 /\ Len(k.rec) = 0 /\ Len(k.out) = 0  BY <1>2, <1>3
<1>6. Run(k.rcvd, 0) /\ Run(k.rec, 0) /\ Run(k.out, 0)  BY <1>2, <1>3
<1>7. Sending(k)  BY <1>2, <1>4, <1>5, <1>6 DEF Sending
<1>8. Intact(k)
  <2> PICK a, b, s, t : a = Len(k.rcvd) /\ b = Len(k.out) /\ s = k.said /\ t = k.retry
    BY Zenon
  <2>1. a = 0 /\ b = 0 /\ s = 0 /\ t = 0  BY <1>2, <1>5, Zenon
  <2>2. a + b = s /\ a + b <= s /\ t <= b  BY <2>1
  <2>3. Len(k.rcvd) + Len(k.out) = k.said /\ Len(k.rcvd) + Len(k.out) <= k.said
        /\ k.retry <= Len(k.out)
    BY <2>2, Zenon
  <2>4. Run(k.out, Len(k.rcvd))  BY <1>5, <1>6
  <2>5. QED  BY <1>7, <2>3, <2>4, Zenon DEF Intact
<1>9. QED  BY <1>8 DEF k

LEMMA FreedKeeps ==
    ASSUME LinksOK, NEW x
    PROVE  /\ Freed(x) = [c \in Clients |-> Freed(x)[c]]
           /\ \A c \in Clients : Intact(Freed(x)[c])
           /\ \A c \in Clients \ {x} : Freed(x)[c] = link[c]
<1>1. Intact(NewConnection(FALSE))  BY NewIntact, Zenon
<1>2. QED  BY <1>1, Zenon DEF Freed, LinksOK

\* One connection is replaced by an intact one.
LEMMA ReplacedKeeps ==
    ASSUME LinksOK, NEW x, NEW j, x \in Clients => Intact(j), link' = [link EXCEPT ![x] = j]
    PROVE  LinksOK'
BY DEF LinksOK

LEMMA TakenIntact ==
    ASSUME NEW k, Intact(k), NEW v
    PROVE  Intact([k EXCEPT !.in = v])
<1>1. SameOutput([k EXCEPT !.in = v], k) /\ [k EXCEPT !.in = v].inRetry = k.inRetry
  BY IntactFacts DEF Shape, Fields, SameOutput
<1>2. QED  BY <1>1, InputOnly, Zenon

LEMMA DispatchKeeps ==
    ASSUME LinksOK, DispatchLine
    PROVE  LinksOK'
<1> DEFINE v == Tail(link[turn.who].in)
<1>1. \A c \in Clients : Consumed[c] \in {link[c], [link[c] EXCEPT !.in = v]}
  BY Zenon DEF Consumed, LinksOK
<1> HIDE DEF v
<1>2. ASSUME NEW c \in Clients PROVE Intact(Consumed[c])
  <2>1. Intact(link[c])  BY DEF LinksOK
  <2>2. Intact([link[c] EXCEPT !.in = v])  BY <2>1, TakenIntact
  <2>3. QED  BY <1>1, <2>1, <2>2
<1>3. /\ link' = [c \in Clients |-> link'[c]]
      /\ \A c \in Clients : link'[c] \in {Sends(Consumed[c]), Consumed[c]}
  BY DEF DispatchLine
<1>4. QED  BY <1>2, <1>3, SendKeeps DEF LinksOK

LEMMA KillKeeps ==
    ASSUME LinksOK, DispatchKill
    PROVE  LinksOK'
<1>1. PICK victim \in Range(clients) \ {turn.who} :
          link' = [Freed(victim) EXCEPT ![turn.who].in = Tail(@)]
  BY Zenon DEF DispatchKill
<1> DEFINE F == Freed(victim)
           v == Tail(F[turn.who].in)
<1>2. F = [c \in Clients |-> F[c]] /\ \A c \in Clients : Intact(F[c])
  BY FreedKeeps
<1> HIDE DEF F
<1>3. link' = [F EXCEPT ![turn.who].in = v]
  BY <1>1 DEF F
<1> HIDE DEF v
<1>4. \A c \in Clients : link'[c] \in {F[c], [F[c] EXCEPT !.in = v]}
  BY <1>2, <1>3
<1>5. link' = [c \in Clients |-> link'[c]]
  BY <1>2, <1>3, Zenon
<1>6. ASSUME NEW c \in Clients PROVE Intact(link'[c])
  <2>1. Intact(F[c])  BY <1>2
  <2>2. Intact([F[c] EXCEPT !.in = v])  BY <2>1, TakenIntact
  <2>3. QED  BY <1>4, <2>1, <2>2
<1>7. QED  BY <1>5, <1>6 DEF LinksOK

LEMMA CutKeeps ==
    ASSUME LinksOK, NEW x, link' = Freed(x)
    PROVE  LinksOK'
BY FreedKeeps DEF LinksOK

LEMMA ServeKeeps ==
    ASSUME LinksOK, ServeHandshake \/ ServeOpen
    PROVE  LinksOK'
<1>1. ASSUME NEW r, ServedAs(r),
             Entry \in Clients /\ r.rc # "failed" => Intact(r.k)
      PROVE  LinksOK'
  <2>1. CASE link' = Freed(Entry)  BY <2>1, CutKeeps
  <2>2. CASE r.rc # "failed" /\ link' = [link EXCEPT ![Entry] = r.k]
    BY <1>1, <2>2, ReplacedKeeps, Zenon
  <2>3. QED  BY <1>1, <2>1, <2>2 DEF ServedAs
<1>2. CASE ServeHandshake
  <2>1. CASE UNCHANGED link  BY <2>1 DEF LinksOK
  <2>2. CASE \E r \in {advance_tls_handshake(link[Entry], done) : done \in BOOLEAN} : ServedAs(r)
    <3>1. PICK done \in BOOLEAN : ServedAs(advance_tls_handshake(link[Entry], done))
      BY <2>2
    <3>2. link[Entry].tls = "handshake"  BY <1>2 DEF ServeHandshake
    <3>3. Entry \in Clients => Intact(link[Entry])  BY DEF LinksOK
    <3>4. QED  BY <1>1, <3>1, <3>2, <3>3, HandshakeKeeps
  <2>3. QED  BY <1>2, <2>1, <2>2 DEF ServeHandshake
<1>3. CASE ServeOpen
  <2>1. ServedAs(Served(link[Entry], turn.events[Place])) /\ ~link[Entry].over
    BY <1>3 DEF ServeOpen, Ready
  <2>2. Entry \in Clients => Intact(link[Entry])  BY DEF LinksOK
  <2>3. QED  BY <1>1, <2>1, <2>2, ServedKeeps, Zenon
<1>4. QED  BY <1>2, <1>3

LEMMA LeaveKeeps ==
    ASSUME LinksOK, DispatchLeave \/ EndVisit \/ ServeCut \/ PingTimesOut
    PROVE  LinksOK'
<1>1. UNCHANGED link \/ \E x : link' = Freed(x)
  BY DEF DispatchLeave, EndVisit, ServeCut, PingTimesOut, DrainCut
<1>2. CASE UNCHANGED link  BY <1>2 DEF LinksOK
<1>3. QED  BY <1>1, <1>2, CutKeeps

\* A peer that vanishes leaves behind what was queued for it.
LEMMA VanishIntact ==
    ASSUME NEW k, Intact(k), ~k.broken
    PROVE  Intact([k EXCEPT !.broken = TRUE])
<1> DEFINE j == [k EXCEPT !.broken = TRUE]
<1>1. Shape(j) /\ j.out = k.out /\ j.said = k.said /\ j.over = k.over /\ j.tls = k.tls
      /\ j.retry = k.retry /\ j.rec = k.rec /\ j.rcvd = k.rcvd
  BY IntactFacts, ZenonT(40) DEF Shape, Fields
<1> HIDE DEF j
<1>2. Sending(j)  BY <1>1 DEF Intact, Sending
<1>3. ~Stuck(k)  BY DEF Stuck
<1>4. Intact(j)  BY <1>1, <1>2, <1>3, Zenon DEF Intact
<1>5. QED  BY <1>4 DEF j

LEMMA PeerKeeps ==
    ASSUME LinksOK, NEW c \in Clients,
           PeerSends(c) \/ PeerReads(c) \/ PeerAnswers(c) \/ PeerRehandshakes(c) \/ PeerVanishes(c)
    PROVE  LinksOK'
<1> DEFINE k == link[c]
<1>1. Intact(k) /\ Shape(k)  BY IntactFacts DEF LinksOK
<1>2. CASE PeerVanishes(c)
  <2>1. ~k.broken /\ link' = [link EXCEPT ![c] = [k EXCEPT !.broken = TRUE]]
    BY <1>2 DEF PeerVanishes
  <2>2. QED  BY <1>1, <2>1, VanishIntact, ReplacedKeeps, Zenon
<1>3. ASSUME NEW j, SameOutput(j, k), j.inRetry = k.inRetry, link' = [link EXCEPT ![c] = j]
      PROVE  LinksOK'
  <2>1. Intact(j)  BY <1>1, <1>3, InputOnly
  <2>2. QED  BY <1>3, <2>1, ReplacedKeeps, Zenon
<1>4. CASE PeerSends(c)
  <2>1. PICK line : link' = [link EXCEPT ![c] = [k EXCEPT !.wire = Append(@, line)]]
    BY <1>4, Zenon DEF PeerSends
  <2> DEFINE j == [k EXCEPT !.wire = Append(@, line)]
  <2>2. SameOutput(j, k) /\ j.inRetry = k.inRetry
    BY <1>1, Zenon DEF Shape, Fields, SameOutput
  <2>3. QED  BY <1>3, <2>1, <2>2, Zenon
<1>5. CASE PeerReads(c)
  <2> DEFINE j == [k EXCEPT !.room = Window]
  <2>1. link' = [link EXCEPT ![c] = j]
    BY <1>5 DEF PeerReads
  <2>2. SameOutput(j, k) /\ j.inRetry = k.inRetry
    BY <1>1, IOConstants DEF Shape, Fields, SameOutput
  <2>3. QED  BY <1>3, <2>1, <2>2, Zenon
<1>6. CASE PeerAnswers(c) \/ PeerRehandshakes(c)
  <2>1. PICK hs \in {"here", "wait"} : link' = [link EXCEPT ![c] = [k EXCEPT !.hs = hs]]
    BY <1>6 DEF PeerAnswers, PeerRehandshakes
  <2> DEFINE j == [k EXCEPT !.hs = hs]
  <2>2. SameOutput(j, k) /\ j.inRetry = k.inRetry
    BY <1>1 DEF Shape, Fields, SameOutput
  <2>3. QED  BY <1>3, <2>1, <2>2, Zenon
<1>7. QED  BY <1>2, <1>4, <1>5, <1>6

LEMMA PingKeeps ==
    ASSUME LinksOK, MaintainClient
    PROVE  LinksOK'
<1>1. PICK x : link' = PingQueued(x)  BY Zenon DEF MaintainClient
<1>2. link' = link \/ link' = [link EXCEPT ![x] = Sends(link[x])]
  BY <1>1, Zenon DEF PingQueued
<1>3. CASE link' = link  BY <1>3 DEF LinksOK
<1>4. CASE link' = [link EXCEPT ![x] = Sends(link[x])]
  <2>1. x \in Clients => Intact(Sends(link[x]))  BY SendKeeps, Zenon DEF LinksOK
  <2>2. QED  BY <1>4, <2>1, ReplacedKeeps, Zenon
<1>5. QED  BY <1>2, <1>3, <1>4

LEMMA OthersKeep ==
    ASSUME LinksOK,
           \/ StartTurn \/ DrainVisit \/ EndDrain \/ Poll \/ ServeNone \/ EndServing
           \/ EndTurn \/ Tick \/ UNCHANGED vars
    PROVE  LinksOK'
<1>1. UNCHANGED link
  BY Zenon DEF StartTurn, DrainVisit, EndDrain, Poll, ServeNone, EndServing, EndTurn, Tick, vars
<1>2. QED  BY <1>1 DEF LinksOK

LEMMA ConfigKeeps ==
    ASSUME config.slow \subseteq Clients, "slow" \in DOMAIN config, [Next]_vars
    PROVE  config'.slow \subseteq Clients /\ "slow" \in DOMAIN config'
<1>1. UNCHANGED config \/ \E l : config' = [config EXCEPT !.later = l]
  BY Zenon DEF Next, Loop, StartTurn, DrainVisit, DispatchLine, DispatchKill, DispatchLeave, EndVisit,
         EndDrain, Poll, ServeNone, ServeCut, ServeHandshake, ServeOpen, EndServing,
         MaintainClient, PingTimesOut, EndTurn, PeerSends, PeerReads, PeerAnswers,
         PeerRehandshakes, PeerVanishes, Tick, peerVars, vars
<1>2. QED  BY <1>1, Zenon

LEMMA LoopInit == Init => LoopInv
<1> SUFFICES ASSUME Init PROVE LoopInv  OBVIOUS
<1>1. config.slow \subseteq Clients /\ "slow" \in DOMAIN config
  BY LoopConstants DEF Init
<1>2. \A c \in Clients : Intact(NewConnection(c \in config.tls))
  BY NewIntact, Zenon
<1>3. LinksOK  BY <1>2 DEF Init, LinksOK
<1>4. QED  BY <1>1, <1>3 DEF LoopInv

-----------------------------------------------------------------------------
(* The theorems *)

\* Every connection of the server is intact, in every state of the loop.
THEOREM LoopInvariance == Spec => []LoopInv
<1>1. LoopInv /\ [Next]_vars => LoopInv'
  <2> SUFFICES ASSUME LoopInv, [Next]_vars PROVE LoopInv'  OBVIOUS
  <2>1. LinksOK'
    BY DispatchKeeps, KillKeeps, ServeKeeps, LeaveKeeps, PeerKeeps, PingKeeps, OthersKeep
    DEF LoopInv, Next, Loop
  <2>2. config'.slow \subseteq Clients /\ "slow" \in DOMAIN config'
    BY ConfigKeeps DEF LoopInv
  <2>3. QED  BY <2>1, <2>2 DEF LoopInv
<1>2. QED  BY LoopInit, <1>1, PTL DEF Spec

LEMMA IntactBegins ==
    ASSUME NEW k, Intact(k), NEW whole, whole = [i \in 1 .. k.said |-> i]
    PROVE  /\ Begins(k.rcvd \o k.out, whole)
           /\ k.rcvd \o k.out = whole \/ k.over \/ k.broken
           /\ k.over \/ (Len(k.out) >= k.retry /\ Begins(k.rec, k.out))
<1> DEFINE sent == k.rcvd \o k.out
<1>1. Run(whole, 0) /\ Len(whole) = k.said
  BY IntactFacts, RunWhole
<1>2. Len(k.rcvd) \in Nat /\ 0 + Len(k.rcvd) = Len(k.rcvd)
  BY IntactFacts
<1>3. Run(sent, 0) /\ Len(sent) = Len(k.rcvd) + Len(k.out)
  BY <1>2, IntactFacts, RunConcat DEF Intact, Sending
<1> HIDE DEF sent
<1>4. Len(sent) <= Len(whole) /\ (Len(sent) = Len(whole) \/ k.over \/ k.broken)
  BY <1>1, <1>3, Zenon DEF Intact, Stuck
<1>5. Begins(sent, whole) /\ (sent = whole \/ k.over \/ k.broken)
  BY <1>1, <1>3, <1>4, RunPrefix, Zenon
<1>6. ASSUME ~k.over
      PROVE  Len(k.out) >= k.retry /\ Begins(k.rec, k.out)
  <2>1. k.retry <= Len(k.out) /\ Len(k.rec) <= k.retry
    BY <1>6 DEF Intact, Sending
  <2>2. Len(k.rec) <= Len(k.out)  BY <2>1, IntactFacts
  <2>3. QED  BY <1>2, <2>1, <2>2, IntactFacts, RunPrefix
<1>7. QED  BY <1>5, <1>6, Zenon DEF sent

\* What a peer was sent, followed by what is queued for it, is what the server
\* said, in order, with nothing lost or doubled, for every send queue, budget,
\* window and record size, over plain TCP and TLS, with connections reset.
THEOREM OutputStaysIntact == Spec => []OutputIntact
<1>1. LoopInv => OutputIntact
  BY IntactBegins, Zenon DEF LoopInv, LinksOK, OutputIntact
<1>2. QED  BY <1>1, LoopInvariance, PTL

-----------------------------------------------------------------------------
(* The drain after the reads comes to every connection before maintenance  *)

TurnFields == {"pc", "phase", "budget", "index", "visited", "initial", "who", "handled",
               "snapshot", "events", "start", "shakes", "served", "spent", "removed"}

\* Nothing follows an overlong partial line.
OverLast(s) == \A i \in 1 .. Len(s) - 1 : s[i] # "over"

\* What a peer sent is lines, in the buffer, in the TLS session or on the wire.
Readable(k) ==
    /\ k.in \in Seq(Lines) /\ k.held \in Seq(Lines) /\ k.wire \in Seq(Lines)
    /\ OverLast(k.in \o k.held \o k.wire)
    /\ k.tls = "plain" => k.held = <<>>

\* The index j visits before i, of n.
Behind(i, n, j) == IF j <= i THEN i - j ELSE i + n - j

\* The drain of turn t owes client c of the connections l nothing.
Heard(t, l, c) == "pong" \notin Range(l[c].in) \/ c \in t.spent \/ l[c].tls = "handshake"

\* The drain has come to v of the clients s, all those behind it.
HeardBehind(t, l, s, v) ==
    /\ v \in 0 .. Len(s) /\ t.initial = Len(s)
    /\ Len(s) > 0 => t.index < Len(s)
    /\ t.budget = 0 \/ \A j \in 1 .. v : Heard(t, l, s[Behind(t.index, Len(s), j) + 1])

TurnShape(t) == t = [f \in TurnFields |-> t[f]] /\ t.budget \in Nat /\ t.index \in Nat

\* Who is being drained is there, at the drain's index as long as nobody left.
Visiting(t, s) ==
    /\ t.who \in Range(s) /\ t.handled \in 0 .. PerClient
    /\ t.removed \/ (t.index < Len(s) /\ t.who = s[t.index + 1] /\ t.visited \in 1 .. Len(s))

\* Whoever the turn has come to is heard, and at its end everybody, unless the
\* budget is used up or a client left during the drain.
Drained(t, l, s) ==
    /\ t.pc = "drain" => t.removed \/ HeardBehind(t, l, s, t.visited)
    /\ t.pc = "lines" => Visiting(t, s) /\ (t.removed \/ HeardBehind(t, l, s, t.visited - 1))
    /\ t.pc = "maintain" => t.budget = 0 \/ t.removed \/ \A c \in Range(s) : Heard(t, l, c)

TurnOK(t, l, s) == s \in Seq(Clients) /\ TurnShape(t) /\ Drained(t, l, s)

InputOK == \A c \in Clients : Readable(link[c])

ConfigOK ==
    config \in [first : SUBSET Clients, later : SUBSET Clients, tls : SUBSET Clients,
                slow : SUBSET Clients, lines : [Clients -> SUBSET Lines], wire : Nat \ {0},
                rehandshakes : BOOLEAN, breaks : BOOLEAN, clock : BOOLEAN, global : Nat \ {0}]

DrainInv ==
    LoopInv /\ ConfigOK /\ InputOK /\ cursor \in Nat /\ TurnOK(turn, link, clients)

-----------------------------------------------------------------------------
(* Arithmetic and sequences *)

LEMMA ModFacts ==
    ASSUME NEW i \in Nat, NEW n \in Nat, n > 0
    PROVE  /\ i % n \in Nat /\ i % n < n
           /\ i < n => (i + 1) % n = IF i + 1 = n THEN 0 ELSE i + 1
OBVIOUS

\* After a visit the client visited is the one just behind, and the others are
\* one further.
Further(i, i2, n, v, j) ==
    /\ j = 1 => Behind(i2, n, j) = i
    /\ j # 1 => j - 1 \in 1 .. v - 1 /\ Behind(i2, n, j) = Behind(i, n, j - 1)

LEMMA BehindNext ==
    ASSUME NEW n \in Nat, NEW i \in Nat, i < n, NEW i2, i2 = (i + 1) % n, NEW v \in 0 .. n,
           NEW j \in 1 .. v
    PROVE  Further(i, i2, n, v, j)
<1>1. i2 = IF i + 1 = n THEN 0 ELSE i + 1  BY ModFacts
<1>2. QED  BY <1>1 DEF Behind, Further

LEMMA BehindRange ==
    ASSUME NEW n \in Nat, NEW i \in Nat, i < n, NEW j \in 1 .. n
    PROVE  Behind(i, n, j) \in Nat /\ Behind(i, n, j) < n
BY DEF Behind

\* Every index is behind, once all have been visited.
LEMMA BehindAll ==
    ASSUME NEW n \in Nat, NEW i \in Nat, i < n, NEW p \in Nat, p < n
    PROVE  \E j \in 1 .. n : Behind(i, n, j) = p
<1>1. CASE p < i
  <2>1. i - p \in 1 .. n /\ Behind(i, n, i - p) = p  BY <1>1 DEF Behind
  <2>2. QED  BY <2>1
<1>2. CASE ~(p < i)
  <2>1. i + n - p \in 1 .. n /\ Behind(i, n, i + n - p) = p  BY <1>2 DEF Behind
  <2>2. QED  BY <2>1
<1>3. QED  BY <1>1, <1>2

LEMMA Joined ==
    ASSUME NEW S, NEW s \in Seq(S), NEW t \in Seq(S)
    PROVE  /\ s \o t \in Seq(S) /\ Len(s \o t) = Len(s) + Len(t)
           /\ \A i \in 1 .. Len(s) + Len(t) :
                  (s \o t)[i] = IF i <= Len(s) THEN s[i] ELSE t[i - Len(s)]
OBVIOUS

LEMMA JoinedToNothing ==
    ASSUME NEW S, NEW s \in Seq(S)
    PROVE  s \o <<>> = s /\ <<>> \o s = s
<1>1. s \o <<>> = s
  <2>1. \A i \in 1 .. Len(s) : (s \o <<>>)[i] = s[i]  BY Joined
  <2>2. <<>> \in Seq(S) /\ Len(<<>>) = 0 OBVIOUS
  <2>3. s \o <<>> \in Seq(S) /\ Len(s \o <<>>) = Len(s)  BY <2>2, Joined
  <2>4. QED  BY <2>1, <2>3, SameEntries
<1>2. <<>> \o s = s
  <2>1. \A i \in 1 .. Len(s) : (<<>> \o s)[i] = s[i]  OBVIOUS
  <2>2. <<>> \in Seq(S) /\ Len(<<>>) = 0 OBVIOUS
  <2>3. <<>> \o s \in Seq(S) /\ Len(<<>> \o s) = Len(s)  BY <2>2, Joined
  <2>4. QED  BY <2>1, <2>3, SameEntries
<1>3. QED  BY <1>1, <1>2

LEMMA Associates ==
    ASSUME NEW S, NEW s \in Seq(S), NEW t \in Seq(S), NEW u \in Seq(S)
    PROVE  (s \o t) \o u = s \o (t \o u)
<1>1. /\ (s \o t) \o u \in Seq(S) /\ s \o (t \o u) \in Seq(S)
      /\ Len((s \o t) \o u) = Len(s \o (t \o u))
  OBVIOUS
<1>2. \A i \in 1 .. Len((s \o t) \o u) : ((s \o t) \o u)[i] = (s \o (t \o u))[i]
  OBVIOUS
<1>3. QED  BY <1>1, <1>2, SameEntries, Zenon

LEMMA AppendFacts ==
    ASSUME NEW S, NEW s \in Seq(S), NEW e \in S
    PROVE  /\ Append(s, e) = s \o <<e>> /\ Len(Append(s, e)) = Len(s) + 1
           /\ \A i \in 1 .. Len(s) : Append(s, e)[i] = s[i]
<1>1. /\ Append(s, e) \in Seq(S) /\ Len(Append(s, e)) = Len(s) + 1
      /\ \A i \in 1 .. Len(s) : Append(s, e)[i] = s[i]
      /\ Append(s, e)[Len(s) + 1] = e
  OBVIOUS
<1>2. <<e>> \in Seq(S) /\ Len(<<e>>) = 1 /\ <<e>>[1] = e  OBVIOUS
<1>3. s \o <<e>> \in Seq(S) /\ Len(s \o <<e>>) = Len(s) + 1  BY <1>2, Joined
<1>4. \A i \in 1 .. Len(s) + 1 : (s \o <<e>>)[i] = Append(s, e)[i]  BY <1>1, <1>2
<1>5. QED  BY <1>1, <1>3, <1>4, SameEntries

LEMMA RangeIs ==
    ASSUME NEW S, NEW s \in Seq(S), NEW x
    PROVE  x \in Range(s) <=> \E i \in 1 .. Len(s) : s[i] = x
BY DEF Range

LEMMA TailFacts ==
    ASSUME NEW S, NEW s \in Seq(S), s # <<>>
    PROVE  /\ Tail(s) \in Seq(S) /\ Range(Tail(s)) \subseteq Range(s)
           /\ Len(Tail(s)) = Len(s) - 1 /\ \A i \in 1 .. Len(s) - 1 : Tail(s)[i] = s[i + 1]
<1>1. /\ Tail(s) \in Seq(S) /\ Len(Tail(s)) = Len(s) - 1
      /\ \A i \in 1 .. Len(s) - 1 : Tail(s)[i] = s[i + 1]
  OBVIOUS
<1>2. ASSUME NEW x \in Range(Tail(s)) PROVE x \in Range(s)
  <2>1. PICK i \in 1 .. Len(Tail(s)) : Tail(s)[i] = x  BY <1>1, RangeIs, Zenon
  <2>2. i + 1 \in 1 .. Len(s) /\ s[i + 1] = x  BY <1>1, <2>1
  <2>3. QED  BY <2>2, RangeIs
<1>3. QED  BY <1>1, <1>2

LEMMA MoreThanOne ==
    ASSUME NEW m \in Nat, NEW n \in Nat, m > 0, m # 1
    PROVE  1 \in 1 .. (m + n) - 1
OBVIOUS

LEMMA OneLess ==
    ASSUME NEW n \in Nat, NEW l, l = (IF n = 0 THEN 0 ELSE n - 1), NEW p
    PROVE  /\ p \in 1 .. l <=> p \in 1 .. n - 1
           /\ p \in 1 .. n - 1 => p \in 1 .. n /\ n \in 1 .. n
OBVIOUS

LEMMA WithoutFacts ==
    ASSUME NEW S, NEW s \in Seq(S), NEW x
    PROVE  /\ Without(s, x) \in Seq(S)
           /\ Range(Without(s, x)) \subseteq Range(s)
           /\ x \in Range(s) => \A y \in Range(s) \ {x} : y \in Range(Without(s, x))
<1> DEFINE i == CHOOSE j \in DOMAIN s : s[j] = x
           n == Len(s)
           e == [s EXCEPT ![i] = s[n]]
           w == SubSeq(e, 1, n - 1)
<1>1. Without(s, x) = w  BY DEF Without
<1>2. n \in Nat /\ DOMAIN s = 1 .. n  OBVIOUS
<1>3. x \in Range(s) => i \in 1 .. n /\ s[i] = x  BY <1>2 DEF Range
<1> HIDE DEF i
<1>4. e \in Seq(S) /\ Len(e) = n /\ \A p \in 1 .. n : e[p] = IF p = i THEN s[n] ELSE s[p]
  <2>1. e = [p \in 1 .. n |-> IF p = i THEN s[n] ELSE s[p]]  BY <1>2, Zenon
  <2>2. \A p \in 1 .. n : s[p] \in S /\ s[n] \in S
    <3>1. ASSUME NEW p \in 1 .. n PROVE n \in 1 .. n  BY <1>2
    <3>2. QED  BY <3>1
  <2> HIDE DEF e
  <2>3. \A p \in 1 .. n : e[p] = (IF p = i THEN s[n] ELSE s[p]) /\ e[p] \in S
    BY <2>1, <2>2
  <2>4. DOMAIN e = 1 .. n /\ e = [p \in 1 .. n |-> e[p]]  BY <2>1
  <2>5. e \in [1 .. n -> S]  BY <2>3, <2>4
  <2>6. e \in Seq(S) /\ Len(e) = n  BY <1>2, <2>5
  <2>7. QED  BY <2>3, <2>6
<1> HIDE DEF e
<1>5. w \in Seq(S) /\ \A p \in 1 .. n - 1 : w[p] = e[p]
  BY <1>2, <1>4
<1>6. Len(w) = (IF n = 0 THEN 0 ELSE n - 1) /\ n = Len(s)  BY <1>2, <1>4
<1> HIDE DEF w, n
<1>7. ASSUME NEW y \in Range(w) PROVE y \in Range(s)
  <2>1. PICK p \in 1 .. Len(w) : w[p] = y  BY <1>5, RangeIs, Zenon
  <2>2. p \in 1 .. n - 1 /\ p \in 1 .. n /\ n \in 1 .. n
    BY <1>2, <1>6, <2>1, OneLess, Zenon
  <2>3. y = s[n] \/ y = s[p]
    <3>1. y = e[p]  BY <1>5, <2>1, <2>2
    <3>2. QED  BY <1>4, <2>2, <3>1
  <2>4. QED  BY <1>6, <2>2, <2>3, RangeIs
<1>8. ASSUME x \in Range(s), NEW y \in Range(s) \ {x} PROVE y \in Range(w)
  <2>1. PICK p \in 1 .. n : s[p] = y  BY <1>6, RangeIs
  <2>2. p # i  BY <1>3, <1>8, <2>1
  <2>3. CASE p = n
    <3>0. i \in 1 .. n  BY <1>3, <1>8
    <3>1. i \in 1 .. n - 1 /\ e[i] = y
      <4>1. e[i] = s[n]  BY <1>4, <3>0
      <4>2. i \in 1 .. n - 1  BY <1>2, <2>2, <2>3, <3>0
      <4>3. QED  BY <2>1, <2>3, <4>1, <4>2
    <3>2. i \in 1 .. Len(w) /\ w[i] = y
      <4>1. w[i] = y  BY <1>5, <3>1, Zenon
      <4>2. i \in 1 .. Len(w)  BY <1>2, <1>6, <3>1, OneLess, Zenon
      <4>3. QED  BY <4>1, <4>2
    <3>3. QED  BY <1>5, <3>2, RangeIs
  <2>4. CASE p # n
    <3>1. p \in 1 .. n - 1 /\ e[p] = y
      <4>1. e[p] = s[p]  BY <1>4, <2>2
      <4>2. p \in 1 .. n - 1  BY <1>2, <2>4, SMTT(20)
      <4>3. QED  BY <2>1, <4>1, <4>2
    <3>2. p \in 1 .. Len(w) /\ w[p] = y  BY <1>2, <1>5, <1>6, <3>1, Zenon
    <3>3. QED  BY <1>5, <3>2, RangeIs
  <2>5. QED  BY <2>3, <2>4
<1>9. QED  BY <1>1, <1>5, <1>7, <1>8

-----------------------------------------------------------------------------
(* What writing leaves alone *)

Whole(k) == k = [f \in Fields |-> k[f]]

SameInput(j, k) ==
    Whole(j) /\ j.in = k.in /\ j.held = k.held /\ j.wire = k.wire /\ j.tls = k.tls

\* A call that returns the connection with its input as it was.
LeavesInput(r, k) == r = Returns(r.rc, r.n, r.k) /\ SameInput(r.k, k)

LEMMA Leaves ==
    ASSUME NEW rc, NEW n, NEW j, NEW k, SameInput(j, k)
    PROVE  LeavesInput(Returns(rc, n, j), k)
<1> DEFINE r == Returns(rc, n, j)
<1>1. r.rc = rc /\ r.n = n /\ r.k = j  BY ReturnsFields
<1>2. r = Returns(r.rc, r.n, r.k)  BY <1>1
<1> HIDE DEF r
<1>3. LeavesInput(r, k)  BY <1>1, <1>2 DEF LeavesInput
<1>4. QED  BY <1>3 DEF r

LEMMA SslWriteInput ==
    ASSUME NEW k, Whole(k), NEW d
    PROVE  LeavesInput(SSL_write(k, d), k)
<1> DEFINE rec == IF k.rec = <<>> THEN d ELSE k.rec
           push == Least(k.room, Len(rec) - k.pushed)
           wants(read) == [k EXCEPT !.retry = Len(d), !.wantRead = read]
           pushed == [k EXCEPT !.hs = "none", !.room = @ - push, !.pushed = @ + push, !.rec = rec]
           again == [pushed EXCEPT !.retry = Len(d), !.wantRead = FALSE]
           done == [pushed EXCEPT !.rec = <<>>, !.pushed = 0, !.retry = 0,
                                  !.wantRead = FALSE, !.rcvd = @ \o rec]
<1>1. \/ SSL_write(k, d) = Returns("failed", 0, k)
      \/ SSL_write(k, d) = Returns("again", 0, wants(TRUE))
      \/ SSL_write(k, d) = Returns("again", 0, wants(FALSE))
      \/ SSL_write(k, d) = Returns("again", 0, again)
      \/ SSL_write(k, d) = Returns("written", Len(rec), done)
  BY DEF SSL_write
<1> HIDE DEF rec, push
<1>2. SameInput(k, k)  BY DEF SameInput
<1>3. ASSUME NEW read PROVE SameInput(wants(read), k)  BY Zenon DEF Whole, Fields, SameInput
<1>4. SameInput(pushed, k)  BY ZenonT(40) DEF Whole, Fields, SameInput
<1> HIDE DEF pushed
<1>5. SameInput(again, k) /\ SameInput(done, k)  BY <1>4, ZenonT(40) DEF Whole, Fields, SameInput
<1> HIDE DEF wants, again, done
<1>6. QED  BY <1>1, <1>2, <1>3, <1>5, Leaves, Zenon

LEMMA WriteInput ==
    ASSUME NEW k, Whole(k), NEW d
    PROVE  LeavesInput(transport_write(k, d), k)
<1> DEFINE n == Least(k.room, Len(d))
           quiet == [k EXCEPT !.retry = 0]
           sent == [quiet EXCEPT !.room = @ - n, !.rcvd = @ \o First(d, n)]
           idle == [k EXCEPT !.retry = 0, !.wantRead = FALSE]
<1>1. SameInput(k, k)  BY DEF SameInput
<1> HIDE DEF n
<1>2. SameInput(quiet, k) /\ SameInput(idle, k)  BY Zenon DEF Whole, Fields, SameInput
<1> HIDE DEF quiet, idle
<1>3. SameInput(sent, k)  BY <1>2, Zenon DEF Whole, Fields, SameInput
<1> HIDE DEF sent
<1>4. LeavesInput(Plain_write(k, d), k)
  <2>1. \/ Plain_write(k, d) = Returns("failed", 0, quiet)
        \/ Plain_write(k, d) = Returns("again", 0, quiet)
        \/ Plain_write(k, d) = Returns("written", n, sent)
    BY DEF Plain_write, n, quiet, sent
  <2>2. QED  BY <1>2, <1>3, <2>1, Leaves
<1>5. \/ transport_write(k, d) = Returns("again", 0, idle)
      \/ transport_write(k, d) = Returns("again", 0, k)
      \/ transport_write(k, d) = Returns("failed", 0, k)
      \/ \E e : transport_write(k, d) = SSL_write(k, e)
      \/ transport_write(k, d) = Plain_write(k, d)
  BY DEF transport_write, idle
<1>6. QED  BY <1>1, <1>2, <1>4, <1>5, Leaves, SslWriteInput

LEMMA SendInput ==
    ASSUME NEW k, Whole(k)
    PROVE  SameInput(Sends(k), k)
<1> DEFINE m == Message(k)
           w == transport_write(k, m)
           s == client_send_raw(k, m)
<1>1. ASSUME NEW j, SameInput(j, k), NEW d PROVE SameInput(queue_append(j, d), k)
  BY <1>1, ZenonT(40) DEF queue_append, SameInput, Whole, Fields
<1>2. SameInput(k, k)  BY DEF SameInput
<1> HIDE DEF m
<1>3. SameInput(w.k, k)  BY WriteInput, Zenon DEF LeavesInput
<1>4. s = k \/ (\E d : s = queue_append(k, d)) \/ s = w.k \/ (\E d : s = queue_append(w.k, d))
  BY DEF client_send_raw, SentDirectly
<1> HIDE DEF w
<1>5. SameInput(s, k)  BY <1>1, <1>2, <1>3, <1>4
<1> HIDE DEF s
<1>6. Sends(k) = k \/ Sends(k) = [s EXCEPT !.said = @ + 2]
  BY DEF Sends, s, m
<1>7. SameInput([s EXCEPT !.said = @ + 2], k)  BY <1>5 DEF SameInput, Whole, Fields
<1>8. QED  BY <1>2, <1>6, <1>7

LEMMA PassInput ==
    ASSUME NEW k, Whole(k), NEW budget
    PROVE  LeavesInput(FlushPass(k, budget), k)
<1> DEFINE least == Least(Len(k.out), budget)
           attempt == IF k.retry > least THEN k.retry ELSE least
           w == transport_write(k, First(k.out, attempt))
           j == [w.k EXCEPT !.out = Rest(@, w.n)]
<1>1. LeavesInput(w, k)  BY WriteInput
<1>2. FlushPass(k, budget) = [w EXCEPT !.k.out = Rest(@, w.n)]
  BY DEF FlushPass
<1> HIDE DEF w
<1>3. [w EXCEPT !.k.out = Rest(@, w.n)] = Returns(w.rc, w.n, j)
  BY <1>1 DEF LeavesInput, Returns
<1>4. SameInput(j, k)  BY <1>1 DEF LeavesInput, SameInput, Whole, Fields
<1> HIDE DEF j
<1>5. QED  BY <1>2, <1>3, <1>4, Leaves

LEMMA FlushInput ==
    ASSUME NEW k, Whole(k)
    PROVE  SameInput(client_flush_output(k).k, k)
<1> DEFINE once == FlushPass(k, FlushBudget)
           more == once.rc = "written" /\ once.n < FlushBudget /\ once.k.out # <<>>
           again == FlushPass(once.k, FlushBudget - once.n)
           twice == IF more THEN again ELSE once
           quiet == [twice EXCEPT !.k.retry = 0, !.k.wantRead = FALSE]
<1>1. LeavesInput(once, k)  BY PassInput, Zenon
<1>2. LeavesInput(again, once.k)  BY <1>1, PassInput, ZenonT(40) DEF LeavesInput, SameInput
<1> HIDE DEF once, again
<1>3. LeavesInput(again, k)  BY <1>1, <1>2, Zenon DEF LeavesInput, SameInput
<1>4. LeavesInput(twice, k)  BY <1>1, <1>3
<1>5. client_flush_output(k) = twice \/ client_flush_output(k) = quiet
  BY DEF client_flush_output, once, again
<1> HIDE DEF twice
<1>6. quiet.k = [twice.k EXCEPT !.retry = 0, !.wantRead = FALSE]
  BY <1>4 DEF LeavesInput, Returns
<1> HIDE DEF quiet
<1>7. SameInput(quiet.k, k)
  <2>1. SameInput(twice.k, k)  BY <1>4 DEF LeavesInput
  <2> PICK i : i = twice.k  OBVIOUS
  <2>2. SameInput([i EXCEPT !.retry = 0, !.wantRead = FALSE], k)
    BY <2>1, Zenon DEF SameInput, Whole, Fields
  <2>3. QED  BY <1>6, <2>2
<1>8. QED  BY <1>4, <1>5, <1>7 DEF LeavesInput

-----------------------------------------------------------------------------
(* Reading keeps the order of what a peer sent *)

LEMMA CutAndJoined ==
    ASSUME NEW S, NEW s \in Seq(S), NEW n \in 0 .. Len(s)
    PROVE  First(s, n) \in Seq(S) /\ Rest(s, n) \in Seq(S) /\ First(s, n) \o Rest(s, n) = s
<1>1. First(s, n) \in Seq(S) /\ Rest(s, n) \in Seq(S)  BY DEF First, Rest
<1>2. Len(First(s, n)) = n /\ Len(Rest(s, n)) = Len(s) - n
  BY DEF First, Rest
<1>3. /\ \A i \in 1 .. n : First(s, n)[i] = s[i]
      /\ \A i \in 1 .. Len(s) - n : Rest(s, n)[i] = s[n + i]
  BY DEF First, Rest
<1> DEFINE j == First(s, n) \o Rest(s, n)
<1>4. /\ j \in Seq(S) /\ Len(j) = n + (Len(s) - n)
      /\ \A i \in 1 .. n + (Len(s) - n) : j[i] = IF i <= n THEN First(s, n)[i] ELSE Rest(s, n)[i - n]
  BY <1>1, <1>2, Joined
<1> HIDE DEF j
<1>5. Len(j) = Len(s)  BY <1>4
<1>6. ASSUME NEW i \in 1 .. Len(s) PROVE j[i] = s[i]
  <2>1. CASE i <= n  BY <1>3, <1>4, <2>1
  <2>2. CASE ~(i <= n)
    <3>1. i - n \in 1 .. Len(s) - n /\ n + (i - n) = i /\ i \in 1 .. n + (Len(s) - n)
      BY <2>2
    <3>2. QED  BY <1>3, <1>4, <2>2, <3>1
  <2>3. QED  BY <2>1, <2>2
<1>7. j = s  BY <1>4, <1>5, <1>6, SameEntries
<1>8. QED  BY <1>1, <1>7 DEF j

LEMMA LinesAssociate ==
    ASSUME NEW s \in Seq(Lines), NEW t \in Seq(Lines), NEW u \in Seq(Lines)
    PROVE  (s \o t) \o u = s \o (t \o u)
BY Associates, SMT, SMTT(30)

LEMMA LineAssociates ==
    ASSUME NEW s \in Seq(Lines), NEW t \in Seq(Lines), NEW line \in Lines
    PROVE  (s \o t) \o <<line>> = s \o (t \o <<line>>)
<1>1. <<line>> \in Seq(Lines)  OBVIOUS
<1>2. PICK one : one = <<line>>  BY Zenon
<1>3. one \in Seq(Lines)  BY <1>1, <1>2, Zenon
<1>4. (s \o t) \o one = s \o (t \o one)  BY <1>3, LinesAssociate, Zenon
<1>5. QED  BY <1>2, <1>4, Zenon

LEMMA LeastWithin ==
    ASSUME NEW m \in Nat, NEW n \in Nat
    PROVE  Least(m, n) \in 0 .. n
BY DEF Least

\* What j has read, and has still to read, is what k had.
Reread(j, k) ==
    /\ j.in \in Seq(Lines) /\ j.held \in Seq(Lines) /\ j.wire \in Seq(Lines)
    /\ j.in \o j.held \o j.wire = k.in \o k.held \o k.wire
    /\ j.tls = k.tls /\ (j.tls = "plain" => j.held = <<>>)

LEMMA PlainReadInput ==
    ASSUME NEW k, Whole(k), Readable(k), k.tls = "plain", NEW a \in Nat
    PROVE  Reread(Plain_read(k, a).k, k)
<1> DEFINE n == Least(a, Len(k.wire))
           j == [k EXCEPT !.in = @ \o First(k.wire, n), !.wire = Rest(@, n)]
<1>1. k.in \in Seq(Lines) /\ k.held = <<>> /\ k.wire \in Seq(Lines) /\ k.held \in Seq(Lines)
  BY DEF Readable
<1>2. n \in 0 .. Len(k.wire)
  <2>1. Len(k.wire) \in Nat  BY <1>1
  <2>2. QED  BY <2>1, LeastWithin, Zenon
<1>3. \/ Plain_read(k, a).k = k
      \/ Plain_read(k, a).k = j
  BY ReturnsFields DEF Plain_read
<1> HIDE DEF n
<1>4. j.in = k.in \o First(k.wire, n) /\ j.wire = Rest(k.wire, n) /\ j.held = k.held /\ j.tls = k.tls
  BY DEF Whole, Fields
<1> HIDE DEF j
<1>5. /\ First(k.wire, n) \in Seq(Lines) /\ Rest(k.wire, n) \in Seq(Lines)
      /\ First(k.wire, n) \o Rest(k.wire, n) = k.wire
  BY <1>1, <1>2, CutAndJoined, ZenonT(40)
<1>6. j.in \in Seq(Lines) /\ j.wire \in Seq(Lines)  BY <1>1, <1>4, <1>5
<1>7. j.in \o j.held = j.in /\ k.in \o k.held = k.in  BY <1>1, <1>4, <1>6, JoinedToNothing,
                                                         ZenonT(40)
<1>8. j.in \o j.wire = k.in \o k.wire
  <2>1. (k.in \o First(k.wire, n)) \o Rest(k.wire, n) = k.in \o (First(k.wire, n) \o Rest(k.wire, n))
    BY <1>1, <1>5, LinesAssociate, ZenonT(40)
  <2>2. QED  BY <1>4, <1>5, <2>1
<1>9. Reread(j, k)  BY <1>1, <1>4, <1>6, <1>7, <1>8, Zenon DEF Reread
<1>10. Reread(k, k)  BY DEF Reread, Readable
<1>11. QED  BY <1>3, <1>9, <1>10

LEMMA SslReadInput ==
    ASSUME NEW k, Whole(k), Readable(k), k.tls # "plain", NEW a \in Nat
    PROVE  Reread(SSL_read(k, a).k, k)
<1> DEFINE first == Least(RecordMax, Len(k.wire))
           record == IF k.held # <<>> THEN k.held ELSE First(k.wire, first)
           rest == IF k.held # <<>> THEN k.wire ELSE Rest(k.wire, Len(record))
           n == Least(a, Len(record))
           j == [k EXCEPT !.hs = "none", !.inRetry = FALSE, !.wantWrite = FALSE,
                          !.in = @ \o First(record, n), !.held = Rest(record, n), !.wire = rest]
           wants(write) == [k EXCEPT !.inRetry = TRUE, !.wantWrite = write]
           none == [k EXCEPT !.hs = "none", !.inRetry = TRUE, !.wantWrite = FALSE]
<1>1. k.in \in Seq(Lines) /\ k.wire \in Seq(Lines) /\ k.held \in Seq(Lines)
  BY DEF Readable
<1>2. SSL_read(k, a).k \in {wants(TRUE), wants(FALSE), k, none, j}
  <2>1. \/ SSL_read(k, a) = Returns("failed", 0, k)
        \/ SSL_read(k, a) = Returns("again", 0, wants(FALSE))
        \/ SSL_read(k, a) = Returns("again", 0, wants(TRUE))
        \/ SSL_read(k, a) = Returns("again", 0, none)
        \/ SSL_read(k, a) = Returns("read", n, j)
    BY DEF SSL_read
  <2> HIDE DEF wants, none, j, n
  <2>2. /\ Returns("failed", 0, k).k = k /\ Returns("again", 0, none).k = none
        /\ Returns("again", 0, wants(FALSE)).k = wants(FALSE)
        /\ Returns("again", 0, wants(TRUE)).k = wants(TRUE) /\ Returns("read", n, j).k = j
    <3>1. ASSUME NEW result, NEW m, NEW y PROVE Returns(result, m, y).k = y  BY ReturnsFields
    <3>2. QED  BY <3>1, Zenon
  <2>3. QED  BY <2>1, <2>2, Zenon
<1>3. first \in 0 .. Len(k.wire)
  <2>1. Len(k.wire) \in Nat /\ RecordMax \in Nat  BY <1>1, IOConstants
  <2>2. QED  BY <2>1, LeastWithin, Zenon
<1>4. record \in Seq(Lines) /\ rest \in Seq(Lines) /\ record \o rest = k.held \o k.wire
  <2>1. CASE k.held # <<>>  BY <1>1, <2>1, Zenon
  <2>2. CASE k.held = <<>>
    <3>1. /\ First(k.wire, first) \in Seq(Lines) /\ Rest(k.wire, first) \in Seq(Lines)
          /\ First(k.wire, first) \o Rest(k.wire, first) = k.wire
      BY <1>1, <1>3, CutAndJoined, Zenon
    <3>2. Len(First(k.wire, first)) = first  BY <1>1, <1>3 DEF First
    <3> HIDE DEF first
    <3>3. record = First(k.wire, first) /\ rest = Rest(k.wire, first)  BY <2>2, <3>2
    <3>4. k.held \o k.wire = k.wire  BY <1>1, <2>2, JoinedToNothing
    <3>5. QED  BY <3>1, <3>3, <3>4, Zenon
  <2>3. QED  BY <2>1, <2>2, Zenon
<1> HIDE DEF first, record, rest
<1>5. n \in 0 .. Len(record)
  <2>1. Len(record) \in Nat  BY <1>4
  <2>2. QED  BY <2>1, LeastWithin, Zenon
<1> HIDE DEF n
<1>6. /\ First(record, n) \in Seq(Lines) /\ Rest(record, n) \in Seq(Lines)
      /\ First(record, n) \o Rest(record, n) = record
  BY <1>4, <1>5, CutAndJoined
<1>7. j.in = k.in \o First(record, n) /\ j.wire = rest /\ j.held = Rest(record, n) /\ j.tls = k.tls
  BY DEF Whole, Fields
<1> HIDE DEF j
<1>8. j.in \in Seq(Lines)  BY <1>1, <1>6, <1>7, SMT, SMTT(30)
<1>9. j.in \o j.held \o j.wire = k.in \o k.held \o k.wire
  <2>0. (k.in \o First(record, n)) \o Rest(record, n) = k.in \o (First(record, n) \o Rest(record, n))
    BY <1>1, <1>6, LinesAssociate, ZenonT(40)
  <2>1. j.in \o j.held = k.in \o record  BY <1>6, <1>7, <2>0
  <2>2. (k.in \o record) \o rest = k.in \o (record \o rest)  BY <1>1, <1>4, LinesAssociate, ZenonT(40)
  <2>3. (k.in \o k.held) \o k.wire = k.in \o (k.held \o k.wire)  BY <1>1, LinesAssociate, Zenon
  <2>4. QED  BY <1>4, <1>7, <2>1, <2>2, <2>3
<1>10. Reread(j, k)  BY <1>4, <1>6, <1>7, <1>8, <1>9, Zenon DEF Reread
<1>11. ASSUME NEW i, i.in = k.in, i.held = k.held, i.wire = k.wire, i.tls = k.tls
       PROVE  Reread(i, k)
  BY <1>1, <1>11 DEF Reread
<1>12. ASSUME NEW write PROVE Reread(wants(write), k)
  <2>1. wants(write).in = k.in /\ wants(write).held = k.held /\ wants(write).wire = k.wire
        /\ wants(write).tls = k.tls
    BY DEF Whole, Fields
  <2> HIDE DEF wants
  <2>2. QED  BY <1>11, <2>1
<1>13. Reread(none, k) /\ Reread(k, k)
  <2>1. none.in = k.in /\ none.held = k.held /\ none.wire = k.wire /\ none.tls = k.tls
    BY DEF Whole, Fields
  <2> HIDE DEF none
  <2>2. QED  BY <1>11, <2>1
<1> HIDE DEF wants, none
<1>14. QED  BY <1>2, <1>10, <1>12, <1>13, Zenon

LEMMA ReadInput ==
    ASSUME NEW k, Whole(k), Readable(k)
    PROVE  Readable(read_client(k).k)
<1>1. Reread(k, k)  BY DEF Reread, Readable
<1>2. Len(k.in) \in Nat /\ InputMax \in Nat  BY IOConstants DEF Readable
<1>3. CASE Len(k.in) >= InputMax
  <2>1. read_client(k).k = k  BY <1>3, ReturnsFields, SMT, SMTT(30) DEF read_client
  <2>2. QED  BY <2>1
<1>4. CASE ~(Len(k.in) >= InputMax)
  <2>1. InputMax - Len(k.in) \in Nat  BY <1>2, <1>4
  <2>2. read_client(k) = IF k.tls = "plain" THEN Plain_read(k, InputMax - Len(k.in))
                         ELSE SSL_read(k, InputMax - Len(k.in))
    BY <1>4 DEF read_client
  <2>3. Reread(read_client(k).k, k)  BY <2>1, <2>2, PlainReadInput, SslReadInput
  <2>4. QED  BY <2>3, Zenon DEF Reread, Readable
<1>5. QED  BY <1>3, <1>4

LEMMA ServedInput ==
    ASSUME NEW k, Whole(k), Readable(k), NEW events
    PROVE  Readable(Served(k, events).k)
<1> DEFINE flushed == IF client_output_pending(k)
                         /\ ("out" \in events \/ (k.wantRead /\ "in" \in events))
                      THEN client_flush_output(k) ELSE Returns("idle", 0, k)
<1>1. ASSUME NEW j, SameInput(j, k)
      PROVE  Whole(j) /\ Readable(j)
  BY <1>1 DEF SameInput, Readable
<1>2. Whole(client_flush_output(k).k) /\ Readable(client_flush_output(k).k)
  BY <1>1, FlushInput
<1>3. Readable(Returns("idle", 0, k).k) /\ Returns("idle", 0, k).k = k  BY ReturnsFields
<1>4. Whole(flushed.k) /\ Readable(flushed.k)  BY <1>2, <1>3, Zenon
<1> HIDE DEF flushed
<1>5. \/ Served(k, events) = read_client(k)
      \/ Served(k, events) = read_client(flushed.k)
      \/ Served(k, events) = client_flush_output(k)
      \/ Served(k, events) = flushed
      \/ Served(k, events) = Returns("idle", 0, k)
  <2>1. CASE k.tls = "established" /\ k.inRetry
    BY <2>1 DEF Served
  <2>2. CASE k.tls = "established" /\ ~k.inRetry /\ k.retry # 0
    BY <2>2 DEF Served
  <2>3. CASE ~(k.tls = "established" /\ k.inRetry)
             /\ ~(k.tls = "established" /\ ~k.inRetry /\ k.retry # 0)
    BY <2>3, Zenon DEF Served, flushed
  <2>4. QED  BY <2>1, <2>2, <2>3
<1>6. Readable(read_client(k).k) /\ Readable(read_client(flushed.k).k)
  BY <1>4, ReadInput
<1>7. QED  BY <1>2, <1>3, <1>4, <1>5, <1>6, Zenon

LEMMA HandshakeInput ==
    ASSUME NEW k, Whole(k), Readable(k), k.tls = "handshake", NEW done
    PROVE  Readable(advance_tls_handshake(k, done).k)
<1> DEFINE j == [k EXCEPT !.tls = "established", !.wantWrite = FALSE, !.hs = "none"]
           i == [k EXCEPT !.wantWrite = (k.hs = "here" /\ k.room = 0),
                          !.hs = IF k.hs = "here" /\ k.room = 0 THEN "here" ELSE "wait"]
<1>1. advance_tls_handshake(k, done).k \in {k, j, i}
  <2>1. \/ advance_tls_handshake(k, done) = Returns("failed", 0, k)
        \/ advance_tls_handshake(k, done) = Returns("done", 0, j)
        \/ advance_tls_handshake(k, done) = Returns("again", 0, i)
    BY DEF advance_tls_handshake
  <2> HIDE DEF i, j
  <2>2. /\ Returns("failed", 0, k).k = k /\ Returns("done", 0, j).k = j
        /\ Returns("again", 0, i).k = i
    BY ReturnsFields
  <2>3. QED  BY <2>1, <2>2
<1>2. /\ j.in = k.in /\ j.held = k.held /\ j.wire = k.wire /\ j.tls = "established"
      /\ i.in = k.in /\ i.held = k.held /\ i.wire = k.wire /\ i.tls = "handshake"
  BY DEF Whole, Fields
<1> HIDE DEF i, j
<1>3. Readable(i) /\ Readable(j)  BY <1>2 DEF Readable
<1>4. QED  BY <1>1, <1>3

LEMMA TailReads ==
    ASSUME NEW s \in Seq(Lines), s # <<>>, NEW t \in Seq(Lines), OverLast(s \o t)
    PROVE  Tail(s) \in Seq(Lines) /\ OverLast(Tail(s) \o t)
<1>1. /\ Tail(s) \in Seq(Lines) /\ Len(Tail(s)) = Len(s) - 1
      /\ \A i \in 1 .. Len(s) - 1 : Tail(s)[i] = s[i + 1]
  BY TailFacts
<1>2. Len(s) \in Nat /\ Len(t) \in Nat /\ Len(s) # 0  OBVIOUS
<1> PICK m, n : m = Len(s) /\ n = Len(t)  BY Zenon
<1>3. m \in Nat /\ n \in Nat /\ m # 0  BY <1>2
<1>4. /\ Len(s \o t) = m + n
      /\ \A i \in 1 .. m + n : (s \o t)[i] = IF i <= m THEN s[i] ELSE t[i - m]
  BY Joined
<1>5. /\ Len(Tail(s) \o t) = (m - 1) + n
      /\ \A i \in 1 .. (m - 1) + n :
             (Tail(s) \o t)[i] = IF i <= m - 1 THEN Tail(s)[i] ELSE t[i - (m - 1)]
  BY <1>1, Joined
<1>6. ASSUME NEW i \in 1 .. ((m - 1) + n) - 1 PROVE (Tail(s) \o t)[i] # "over"
  <2>1. i \in 1 .. (m - 1) + n /\ i + 1 \in 1 .. m + n /\ i + 1 \in 1 .. (m + n) - 1
    BY <1>3
  <2>2. (s \o t)[i + 1] # "over"  BY <1>4, <2>1 DEF OverLast
  <2>3. (s \o t)[i + 1] = IF i + 1 <= m THEN s[i + 1] ELSE t[(i + 1) - m]  BY <1>4, <2>1
  <2>4. (Tail(s) \o t)[i] = IF i <= m - 1 THEN Tail(s)[i] ELSE t[i - (m - 1)]  BY <1>5, <2>1
  <2>5. CASE i <= m - 1
    <3>1. i \in 1 .. m - 1 /\ i + 1 <= m  BY <1>3, <2>5
    <3>2. QED  BY <1>1, <2>2, <2>3, <2>4, <2>5, <3>1, SMT, SMTT(30)
  <2>6. CASE ~(i <= m - 1)
    <3>1. ~(i + 1 <= m) /\ (i + 1) - m = i - (m - 1)  BY <1>3, <2>6
    <3>2. QED  BY <2>2, <2>3, <2>4, <2>6, <3>1
  <2>7. QED  BY <2>5, <2>6
<1>7. QED  BY <1>1, <1>5, <1>6 DEF OverLast

\* A line is taken out of the buffer.
LEMMA TakenReadable ==
    ASSUME NEW k, Whole(k), Readable(k), k.in # <<>>
    PROVE  Readable([k EXCEPT !.in = Tail(k.in)])
<1> DEFINE j == [k EXCEPT !.in = Tail(k.in)]
<1>1. k.in \in Seq(Lines) /\ k.held \in Seq(Lines) /\ k.wire \in Seq(Lines)  BY DEF Readable
<1>2. k.held \o k.wire \in Seq(Lines)  BY <1>1
<1>3. k.in \o k.held \o k.wire = k.in \o (k.held \o k.wire)  BY <1>1, LinesAssociate, Zenon
<1>4. Tail(k.in) \in Seq(Lines) /\ OverLast(Tail(k.in) \o (k.held \o k.wire))
  BY <1>1, <1>2, <1>3, TailReads, Zenon DEF Readable
<1>5. Tail(k.in) \o k.held \o k.wire = Tail(k.in) \o (k.held \o k.wire)
  BY <1>1, <1>4, LinesAssociate, ZenonT(40)
<1>6. j.in = Tail(k.in) /\ j.held = k.held /\ j.wire = k.wire /\ j.tls = k.tls
  BY DEF Whole, Fields
<1> HIDE DEF j
<1>7. Readable(j)  BY <1>1, <1>4, <1>5, <1>6, Zenon DEF Readable
<1>8. QED  BY <1>7 DEF j

\* A line joins those on their way.
LEMMA SentReadable ==
    ASSUME NEW k, Whole(k), Readable(k), NEW line \in Lines,
           "over" \notin Range(k.in \o k.held \o k.wire)
    PROVE  Readable([k EXCEPT !.wire = Append(k.wire, line)])
<1> DEFINE j == [k EXCEPT !.wire = Append(k.wire, line)]
           x == k.in \o k.held
           a == x \o k.wire
<1>1. k.in \in Seq(Lines) /\ k.held \in Seq(Lines) /\ k.wire \in Seq(Lines)  BY DEF Readable
<1>2. x \in Seq(Lines) /\ a \in Seq(Lines)  BY <1>1
<1>3. <<line>> \in Seq(Lines) /\ Append(k.wire, line) \in Seq(Lines)  BY <1>1
<1>4. Append(k.wire, line) = k.wire \o <<line>> /\ Append(a, line) = a \o <<line>>
  BY <1>1, <1>2, AppendFacts, Zenon
<1> HIDE DEF x
<1>5. x \o (k.wire \o <<line>>) = a \o <<line>>
  <2>1. (x \o k.wire) \o <<line>> = x \o (k.wire \o <<line>>)
    BY <1>1, <1>2, LineAssociates, Zenon
  <2>2. QED  BY <2>1, Zenon
<1>6. "over" \notin Range(a)  BY DEF x
<1> HIDE DEF a
<1>7. OverLast(Append(a, line))
  <2>1. /\ Len(Append(a, line)) = Len(a) + 1
        /\ \A i \in 1 .. Len(a) : Append(a, line)[i] = a[i]
    BY <1>2, AppendFacts
  <2>2. \A i \in 1 .. Len(a) : a[i] # "over"  BY <1>2, <1>6, RangeIs
  <2>3. Len(a) \in Nat  BY <1>2
  <2>4. (Len(a) + 1) - 1 = Len(a)  BY <2>3
  <2>5. QED  BY <2>1, <2>2, <2>4 DEF OverLast
<1>8. j.in = k.in /\ j.held = k.held /\ j.wire = Append(k.wire, line) /\ j.tls = k.tls
  BY DEF Whole, Fields
<1> HIDE DEF j
<1>9. j.in \o j.held \o j.wire = Append(a, line)  BY <1>4, <1>5, <1>8, ZenonT(40) DEF x
<1>10. Readable(j)  BY <1>1, <1>3, <1>7, <1>8, <1>9 DEF Readable
<1>11. QED  BY <1>10 DEF j

LEMMA NewReadable ==
    ASSUME NEW tls
    PROVE  Readable(NewConnection(tls)) /\ NewConnection(tls).in = <<>>
<1> DEFINE k == NewConnection(tls)
<1>1. k.in = <<>> /\ k.held = <<>> /\ k.wire = <<>>  BY DEF NewConnection
<1> HIDE DEF k
<1>2. <<>> \in Seq(Lines) /\ <<>> \o <<>> = <<>> /\ Len(<<>>) = 0  BY JoinedToNothing
<1>3. OverLast(<<>>)  BY <1>2 DEF OverLast
<1>4. Readable(k)  BY <1>1, <1>2, <1>3 DEF Readable
<1>5. QED  BY <1>1, <1>4, Zenon DEF k

-----------------------------------------------------------------------------
(* The input of every connection, step by step *)

LEMMA LinkWhole ==
    ASSUME LoopInv
    PROVE  /\ link = [c \in Clients |-> link[c]]
           /\ \A c \in Clients : Whole(link[c])
BY IntactFacts DEF LoopInv, LinksOK, Shape, Whole

\* What a dispatched line or a peer does to a connection, apart from its output.
Taken(j, k) ==
    /\ j.held = k.held /\ j.wire = k.wire /\ j.tls = k.tls
    /\ j.in = k.in \/ (k.in # <<>> /\ j.in = Tail(k.in))

LEMMA TakenInput ==
    ASSUME NEW j, NEW k, Whole(k), Readable(k), Taken(j, k)
    PROVE  Readable(j) /\ Range(j.in) \subseteq Range(k.in) /\ j.tls = k.tls
<1>1. CASE j.in = k.in  BY <1>1 DEF Taken, Readable
<1>2. CASE k.in # <<>> /\ j.in = Tail(k.in)
  <2>1. Readable([k EXCEPT !.in = Tail(k.in)])  BY <1>2, TakenReadable
  <2>2. /\ [k EXCEPT !.in = Tail(k.in)].in = Tail(k.in)
        /\ [k EXCEPT !.in = Tail(k.in)].held = k.held
        /\ [k EXCEPT !.in = Tail(k.in)].wire = k.wire
        /\ [k EXCEPT !.in = Tail(k.in)].tls = k.tls
    BY DEF Whole, Fields
  <2>3. Readable(j)  BY <1>2, <2>1, <2>2 DEF Readable, Taken
  <2>4. k.in \in Seq(Lines)  BY DEF Readable
  <2>5. Range(j.in) \subseteq Range(k.in)  BY <1>2, <2>4, TailFacts, ZenonT(40)
  <2>6. QED  BY <2>3, <2>5 DEF Taken
<1>3. QED  BY <1>1, <1>2, SMT, SMTT(30) DEF Taken

LEMMA LineTaken ==
    ASSUME LoopInv, DispatchLine, NEW c \in Clients
    PROVE  Taken(link'[c], link[c])
<1>1. Whole(link[c]) /\ link = [d \in Clients |-> link[d]]  BY LinkWhole
<1>2. Whole(Consumed[c]) /\ Taken(Consumed[c], link[c])
  <2>1. CASE c = turn.who
    <3>1. Consumed[c] = [link[c] EXCEPT !.in = Tail(@)]  BY <1>1, <2>1, Zenon DEF Consumed
    <3>2. link[c].in # <<>>  BY <2>1 DEF DispatchLine, LineLeft
    <3>3. QED  BY <1>1, <3>1, <3>2, Zenon DEF Whole, Fields, Taken
  <2>2. CASE c # turn.who
    <3>1. Consumed[c] = link[c]  BY <1>1, <2>2, ZenonT(40) DEF Consumed
    <3>2. QED  BY <1>1, <3>1 DEF Taken
  <2>3. QED  BY <2>1, <2>2
<1>3. link'[c] = Sends(Consumed[c]) \/ link'[c] = Consumed[c]
  BY DEF DispatchLine
<1> PICK k : k = Consumed[c]  OBVIOUS
<1>4. SameInput(Sends(k), k)  BY <1>2, SendInput, SMT, SMTT(30)
<1>5. QED  BY <1>2, <1>3, <1>4 DEF SameInput, Taken

LEMMA PingTaken ==
    ASSUME LoopInv, MaintainClient, NEW c \in Clients
    PROVE  Taken(link'[c], link[c])
<1>1. Whole(link[c]) /\ link = [d \in Clients |-> link[d]]  BY LinkWhole
<1>2. PICK x : link' = PingQueued(x)  BY Zenon DEF MaintainClient
<1>3. link'[c] = link[c] \/ link'[c] = Sends(link[c])
  BY <1>1, <1>2, Zenon DEF PingQueued
<1> PICK k : k = link[c]  OBVIOUS
<1>4. SameInput(Sends(k), k)  BY <1>1, SendInput
<1>5. QED  BY <1>3, <1>4 DEF SameInput, Taken

LEMMA FreedInput ==
    ASSUME LoopInv, NEW x, NEW c \in Clients
    PROVE  Freed(x)[c] = link[c] \/ Freed(x)[c] = NewConnection(FALSE)
BY LinkWhole, Zenon DEF Freed

LEMMA KillInput ==
    ASSUME LoopInv, InputOK, DispatchKill
    PROVE  InputOK'
<1>1. PICK victim \in Range(clients) \ {turn.who} :
          link' = [Freed(victim) EXCEPT ![turn.who].in = Tail(@)]
  BY Zenon DEF DispatchKill
<1> DEFINE F == Freed(victim)
<1>2. F = [c \in Clients |-> F[c]]  BY LinkWhole, Zenon DEF Freed
<1>3. turn.who \in Clients => F[turn.who] = link[turn.who]
  BY LinkWhole, Zenon DEF Freed
<1>4. link' = [F EXCEPT ![turn.who].in = Tail(@)]  BY <1>1
<1>5. \A c \in Clients : F[c] = link[c] \/ F[c] = NewConnection(FALSE)  BY FreedInput, Zenon
<1> HIDE DEF F
<1>6. ASSUME NEW c \in Clients PROVE Readable(link'[c])
  <2>1. CASE c = turn.who
    <3>1. link'[c] = [link[c] EXCEPT !.in = Tail(link[c].in)]  BY <1>2, <1>3, <1>4, <2>1, Zenon
    <3>2. link[c].in # <<>>  BY <2>1 DEF DispatchKill, LineLeft
    <3>3. Whole(link[c]) /\ Readable(link[c])  BY LinkWhole DEF InputOK
    <3>4. QED  BY <3>1, <3>2, <3>3, TakenReadable
  <2>2. CASE c # turn.who
    <3>1. link'[c] = F[c]  BY <1>2, <1>4, <2>2
    <3>2. QED  BY <1>5, <3>1, NewReadable, Zenon DEF InputOK
  <2>3. QED  BY <2>1, <2>2
<1>7. QED  BY <1>6 DEF InputOK

LEMMA CutInput ==
    ASSUME LoopInv, InputOK, NEW x, link' = Freed(x)
    PROVE  InputOK'
BY FreedInput, NewReadable, Zenon DEF InputOK

LEMMA ReplacedInput ==
    ASSUME LoopInv, InputOK, NEW x, NEW j, x \in Clients => Readable(j),
           link' = [link EXCEPT ![x] = j]
    PROVE  InputOK'
BY LinkWhole DEF InputOK

LEMMA ServeInput ==
    ASSUME LoopInv, InputOK, ServeHandshake \/ ServeOpen
    PROVE  InputOK'
<1>1. ASSUME NEW r, ServedAs(r), Entry \in Clients => Readable(r.k)
      PROVE  InputOK'
  <2>1. CASE link' = Freed(Entry)  BY <2>1, CutInput
  <2>2. CASE link' = [link EXCEPT ![Entry] = r.k]
    BY <1>1, <2>2, ReplacedInput, Zenon
  <2>3. QED  BY <1>1, <2>1, <2>2 DEF ServedAs
<1>2. Entry \in Clients => Whole(link[Entry]) /\ Readable(link[Entry])
  BY LinkWhole DEF InputOK
<1>3. CASE ServeHandshake
  <2>1. CASE UNCHANGED link  BY <2>1 DEF InputOK
  <2>2. CASE \E r \in {advance_tls_handshake(link[Entry], done) : done \in BOOLEAN} : ServedAs(r)
    <3>1. PICK done \in BOOLEAN : ServedAs(advance_tls_handshake(link[Entry], done))
      BY <2>2
    <3>2. link[Entry].tls = "handshake"  BY <1>3 DEF ServeHandshake
    <3>3. Entry \in Clients => Readable(advance_tls_handshake(link[Entry], done).k)
      BY <1>2, <3>2, HandshakeInput
    <3>4. QED  BY <1>1, <3>1, <3>3, SMT, SMTT(30)
  <2>3. QED  BY <1>3, <2>1, <2>2 DEF ServeHandshake
<1>4. CASE ServeOpen
  <2>1. ServedAs(Served(link[Entry], turn.events[Place]))
    BY <1>4 DEF ServeOpen
  <2>2. Entry \in Clients => Readable(Served(link[Entry], turn.events[Place]).k)
    BY <1>2, ServedInput, SMT, SMTT(30)
  <2>3. QED  BY <1>1, <2>1, <2>2, ZenonT(40)
<1>5. QED  BY <1>3, <1>4

\* Peers change nothing the server has read, and send lines.
LEMMA PeerInput ==
    ASSUME LoopInv, ConfigOK, InputOK, NEW c \in Clients,
           PeerSends(c) \/ PeerReads(c) \/ PeerAnswers(c) \/ PeerRehandshakes(c) \/ PeerVanishes(c)
    PROVE  /\ InputOK'
           /\ \A d \in Clients : link'[d].in = link[d].in /\ link'[d].tls = link[d].tls
<1> DEFINE k == link[c]
<1>1. Whole(k) /\ Readable(k) /\ link = [d \in Clients |-> link[d]]
  BY LinkWhole DEF InputOK
<1>2. ASSUME NEW j, Readable(j), j.in = k.in, j.tls = k.tls, link' = [link EXCEPT ![c] = j]
      PROVE  /\ InputOK'
             /\ \A d \in Clients : link'[d].in = link[d].in /\ link'[d].tls = link[d].tls
  <2>1. InputOK'  BY <1>2, ReplacedInput, Zenon
  <2>2. link'[c] = j /\ \A d \in Clients \ {c} : link'[d] = link[d]  BY <1>1, <1>2
  <2>3. QED  BY <1>2, <2>1, <2>2, SMT, SMTT(30)
<1>3. CASE PeerSends(c)
  <2>1. PICK line \in config.lines[c] : link' = [link EXCEPT ![c].wire = Append(@, line)]
    BY <1>3, Zenon DEF PeerSends
  <2> DEFINE j == [k EXCEPT !.wire = Append(k.wire, line)]
  <2>2. link' = [link EXCEPT ![c] = j]  BY <2>1
  <2>3. line \in Lines  BY <2>1, SMT, SMTT(30) DEF ConfigOK
  <2>4. "over" \notin Range(k.in \o k.held \o k.wire)  BY <1>3 DEF PeerSends, OnItsWay
  <2>5. Readable(j)  BY <1>1, <2>3, <2>4, SentReadable
  <2>6. j.in = k.in /\ j.tls = k.tls  BY <1>1 DEF Whole, Fields
  <2> HIDE DEF j
  <2>7. QED  BY <1>2, <2>2, <2>5, <2>6, Zenon
<1>4. CASE PeerReads(c) \/ PeerAnswers(c) \/ PeerRehandshakes(c) \/ PeerVanishes(c)
  <2>1. \E f \in {"room", "hs", "broken"} : \E v : link' = [link EXCEPT ![c] = [k EXCEPT ![f] = v]]
    BY <1>4 DEF PeerReads, PeerAnswers, PeerRehandshakes, PeerVanishes
  <2>2. PICK f \in {"room", "hs", "broken"} : \E v : link' = [link EXCEPT ![c] = [k EXCEPT ![f] = v]]
    BY <2>1, Zenon
  <2>3. PICK v : link' = [link EXCEPT ![c] = [k EXCEPT ![f] = v]]
    BY <2>2, Zenon
  <2> DEFINE j == [k EXCEPT ![f] = v]
  <2>4. j.in = k.in /\ j.tls = k.tls /\ j.held = k.held /\ j.wire = k.wire
    BY <1>1 DEF Whole, Fields
  <2>5. link' = [link EXCEPT ![c] = j]  BY <2>3
  <2> HIDE DEF j
  <2>6. Readable(j)  BY <1>1, <2>4, Zenon DEF Readable
  <2>7. QED  BY <1>2, <2>4, <2>5, <2>6, Zenon
<1>5. QED  BY <1>3, <1>4

LEMMA InputStep ==
    ASSUME LoopInv, ConfigOK, InputOK, [Next]_vars
    PROVE  InputOK'
<1>1. CASE DispatchLine \/ MaintainClient
  <2>1. \A c \in Clients : Whole(link[c]) /\ Readable(link[c]) /\ Taken(link'[c], link[c])
    BY <1>1, LinkWhole, LineTaken, PingTaken DEF InputOK
  <2>2. QED  BY <2>1, TakenInput DEF InputOK
<1>2. CASE DispatchLeave \/ EndVisit \/ ServeCut \/ PingTimesOut
  <2>1. UNCHANGED link \/ \E x : link' = Freed(x)
    BY <1>2 DEF DispatchLeave, EndVisit, ServeCut, PingTimesOut, DrainCut
  <2>2. CASE UNCHANGED link  BY <2>2 DEF InputOK
  <2>3. QED  BY <2>1, <2>2, CutInput
<1>3. CASE \/ StartTurn \/ DrainVisit \/ EndDrain \/ Poll \/ ServeNone \/ EndServing
           \/ EndTurn \/ Tick \/ UNCHANGED vars
  <2>1. UNCHANGED link
    BY <1>3, Zenon DEF StartTurn, DrainVisit, EndDrain, Poll, ServeNone, EndServing, EndTurn, Tick,
                vars
  <2>2. QED  BY <2>1, Zenon DEF InputOK
<1>4. QED  BY <1>1, <1>2, <1>3, KillInput, ServeInput, PeerInput, Zenon DEF Next, Loop

-----------------------------------------------------------------------------
(* The drain, step by step *)

LEMMA HeardStays ==
    ASSUME NEW t, NEW l, NEW t2, NEW l2, NEW c, Heard(t, l, c),
           Range(l2[c].in) \subseteq Range(l[c].in), l2[c].tls = l[c].tls, t.spent \subseteq t2.spent
    PROVE  Heard(t2, l2, c)
BY DEF Heard

LEMMA InClients ==
    ASSUME NEW s, s \in Seq(Clients), NEW i \in Nat, i < Len(s)
    PROVE  s[i + 1] \in Range(s) /\ s[i + 1] \in Clients
<1>1. i + 1 \in 1 .. Len(s)  OBVIOUS
<1>2. QED  BY <1>1, RangeIs

LEMMA RangeInClients ==
    ASSUME NEW s, s \in Seq(Clients)
    PROVE  /\ Range(s) \subseteq Clients
           /\ \A c \in Range(s) : \E i \in Nat : i < Len(s) /\ s[i + 1] = c
<1>1. Range(s) \subseteq Clients  BY RangeIs
<1>2. ASSUME NEW c \in Range(s) PROVE \E i \in Nat : i < Len(s) /\ s[i + 1] = c
  <2>1. PICK j \in 1 .. Len(s) : s[j] = c  BY RangeIs
  <2>2. j - 1 \in Nat /\ j - 1 < Len(s) /\ (j - 1) + 1 = j  OBVIOUS
  <2>3. QED  BY <2>1, <2>2
<1>3. QED  BY <1>1, <1>2

\* t2 is t with the drain where it was and no more budget, and no client of l2 has
\* a PONG it did not have in l.
Rests(t2, l2, t, l) ==
    /\ t2.initial = t.initial /\ t2.index = t.index /\ (t.budget = 0 => t2.budget = 0)
    /\ \A c \in Clients : Heard(t, l, c) => Heard(t2, l2, c)

LEMMA BehindStays ==
    ASSUME NEW s, s \in Seq(Clients), NEW t, NEW l, t.index \in Nat, NEW v,
           HeardBehind(t, l, s, v), NEW t2, NEW l2, Rests(t2, l2, t, l)
    PROVE  HeardBehind(t2, l2, s, v)
<1>1. ASSUME NEW j \in 1 .. v, Heard(t, l, s[Behind(t.index, Len(s), j) + 1])
      PROVE  Heard(t2, l2, s[Behind(t2.index, Len(s), j) + 1])
  <2>1. Len(s) \in Nat /\ j \in 1 .. Len(s) /\ t.index < Len(s) /\ t2.index = t.index
    BY DEF HeardBehind, Rests
  <2>2. Behind(t.index, Len(s), j) \in Nat /\ Behind(t.index, Len(s), j) < Len(s)
    BY <2>1, BehindRange, Zenon
  <2>3. s[Behind(t.index, Len(s), j) + 1] \in Clients  BY <2>2, InClients
  <2>4. QED  BY <1>1, <2>1, <2>3 DEF Rests
<1>2. QED  BY <1>1 DEF HeardBehind, Rests

\* Nothing happens to the turn, and no PONG is read.
LEMMA TurnRests ==
    ASSUME NEW t, NEW l, NEW l2, NEW s, TurnOK(t, l, s), Rests(t, l2, t, l)
    PROVE  TurnOK(t, l2, s)
<1>1. s \in Seq(Clients) /\ TurnShape(t) /\ t.index \in Nat  BY DEF TurnOK, TurnShape
<1>2. \A v : HeardBehind(t, l, s, v) => HeardBehind(t, l2, s, v)  BY <1>1, BehindStays
<1>3. (\A c \in Range(s) : Heard(t, l, c)) => \A c \in Range(s) : Heard(t, l2, c)
  BY <1>1, RangeInClients, Zenon DEF Rests
<1>4. Drained(t, l2, s)  BY <1>2, <1>3 DEF TurnOK, Drained
<1>5. QED  BY <1>1, <1>4 DEF TurnOK

\* A drain begins.
LEMMA DrainBegins ==
    ASSUME NEW t, TurnShape(t), clients \in Seq(Clients), cursor \in Nat, NEW phase
    PROVE  TurnOK(DrainFrom(t, phase), link, clients)
<1> DEFINE d == DrainFrom(t, phase)
           i == IF clients = <<>> THEN 0 ELSE cursor % Count
<1>1. Len(clients) \in Nat /\ (clients # <<>> => Len(clients) > 0)  OBVIOUS
<1>2. i \in Nat /\ (Len(clients) > 0 => i < Len(clients))
  <2>1. CASE clients = <<>>  BY <2>1
  <2>2. CASE clients # <<>>  BY <1>1, <2>2, ModFacts DEF Count
  <2>3. QED  BY <2>1, <2>2
<1> HIDE DEF i
<1>3. /\ d = [f \in TurnFields |-> d[f]] /\ d.budget = t.budget /\ d.index = i
      /\ d.pc = "drain" /\ d.visited = 0 /\ d.initial = Len(clients)
  BY Zenon DEF DrainFrom, TurnShape, TurnFields, Count, i
<1> HIDE DEF d
<1>4. TurnShape(d)  BY <1>2, <1>3 DEF TurnShape
<1>5. HeardBehind(d, link, clients, 0)  BY <1>1, <1>2, <1>3 DEF HeardBehind
<1>6. Drained(d, link, clients)  BY <1>3, <1>5 DEF Drained
<1>7. TurnOK(d, link, clients)  BY <1>4, <1>6 DEF TurnOK
<1>8. QED  BY <1>7 DEF d

LEMMA NewTurnShape ==
    ASSUME ConfigOK
    PROVE  TurnShape(NewTurn) /\ NewTurn.pc = "top"
<1>1. config.global \in Nat  BY DEF ConfigOK
<1>2. /\ NewTurn = [f \in TurnFields |-> NewTurn[f]] /\ NewTurn.budget = config.global
      /\ NewTurn.index = 0 /\ NewTurn.pc = "top"
  BY Zenon DEF NewTurn, TurnFields
<1>3. QED  BY <1>1, <1>2 DEF TurnShape

\* A turn that is not draining, and not about to be maintained, owes nothing.
LEMMA TurnElsewhere ==
    ASSUME NEW t, TurnShape(t), t.pc \notin {"drain", "lines", "maintain"},
           NEW l, NEW s, s \in Seq(Clients)
    PROVE  TurnOK(t, l, s)
BY DEF TurnOK, Drained

LEMMA StartStep ==
    ASSUME DrainInv, StartTurn
    PROVE  TurnOK(turn', link', clients')
<1>1. turn' = DrainFrom(NewTurn, 1) /\ link' = link /\ clients' = clients
  BY DEF StartTurn
<1>2. TurnShape(NewTurn) /\ clients \in Seq(Clients) /\ cursor \in Nat
  BY NewTurnShape, Zenon DEF DrainInv, TurnOK
<1>3. QED  BY <1>1, <1>2, DrainBegins

\* Everything behind the drain after it has come to one more client.
LEMMA OneMoreHeard ==
    ASSUME NEW s, s \in Seq(Clients), NEW t, NEW l, t.index \in Nat, NEW v \in Nat, v < Len(s),
           HeardBehind(t, l, s, v), t.budget = 0 \/ Heard(t, l, s[t.index + 1]),
           NEW t2, t2.initial = t.initial, t2.budget = t.budget, t.spent \subseteq t2.spent,
           t2.index = (t.index + 1) % Len(s)
    PROVE  HeardBehind(t2, l, s, v + 1)
<1> PICK n : n = Len(s)  BY Zenon
<1>1. n \in Nat /\ n > 0 /\ t.index < n /\ v + 1 \in 0 .. n /\ t2.initial = n
  BY DEF HeardBehind
<1>2. t2.index \in Nat /\ t2.index < n  BY <1>1, ModFacts
<1>3. ASSUME t.budget # 0, NEW j \in 1 .. v + 1
      PROVE  Heard(t2, l, s[Behind(t2.index, n, j) + 1])
  <2>1. /\ j = 1 => Behind(t2.index, n, j) = t.index
        /\ j # 1 => j - 1 \in 1 .. (v + 1) - 1 /\ Behind(t2.index, n, j) = Behind(t.index, n, j - 1)
    <3>1. PICK i \in Nat : i = t.index  OBVIOUS
    <3>2. PICK i2 : i2 = t2.index  OBVIOUS
    <3>3. PICK m \in 0 .. n : m = v + 1  BY <1>1, Zenon
    <3>4. i < n /\ i2 = (i + 1) % n /\ j \in 1 .. m  BY <1>1, <3>1, <3>2, <3>3, Zenon
    <3>5. Further(i, i2, n, m, j)  BY <1>1, <3>4, BehindNext, Zenon
    <3>6. QED  BY <3>1, <3>2, <3>3, <3>5, Zenon DEF Further
  <2>2. (v + 1) - 1 = v  OBVIOUS
  <2>3. Heard(t, l, s[Behind(t2.index, n, j) + 1])
    <3>1. CASE j = 1  BY <1>3, <2>1, <3>1, Zenon
    <3>2. CASE j # 1
      <4>1. j - 1 \in 1 .. v  BY <2>1, <2>2, <3>2, Zenon
      <4>2. Heard(t, l, s[Behind(t.index, n, j - 1) + 1])  BY <1>3, <4>1, Zenon DEF HeardBehind
      <4>3. QED  BY <2>1, <3>2, <4>2, Zenon
    <3>3. QED  BY <3>1, <3>2, Zenon
  <2>4. QED  BY <2>3, HeardStays, Zenon
<1>4. QED  BY <1>1, <1>2, <1>3, Zenon DEF HeardBehind

LEMMA VisitStep ==
    ASSUME DrainInv, DrainVisit
    PROVE  TurnOK(turn', link', clients')
<1> PICK n : n = Len(clients)  BY Zenon
<1> DEFINE c == At(Index)
           skip == link[c].tls = "handshake" \/ link[c].in = <<>>
           past == [turn EXCEPT !.visited = @ + 1, !.index = (Index + 1) % Count]
           into == [turn EXCEPT !.visited = @ + 1, !.index = Index, !.pc = "lines",
                                !.who = c, !.handled = 0]
<1>1. /\ clients \in Seq(Clients) /\ TurnShape(turn) /\ turn.index \in Nat
      /\ turn.pc = "drain" /\ Drained(turn, link, clients)
  BY DEF DrainInv, TurnOK, TurnShape, DrainVisit, Draining
<1>2. n \in Nat /\ n > 0 /\ Count = n  BY <1>1 DEF DrainVisit, Draining, Count
<1>3. Index \in Nat /\ Index < n  BY <1>1, <1>2 DEF Index
<1>4. link' = link /\ clients' = clients /\ turn' = IF skip THEN past ELSE into
  BY DEF DrainVisit
<1>5. c = clients[Index + 1] /\ c \in Range(clients) /\ c \in Clients
  BY <1>1, <1>3, InClients, Zenon DEF At
<1>6. ASSUME ~turn.removed
      PROVE  /\ HeardBehind(turn, link, clients, turn.visited) /\ turn.visited \in Nat
             /\ turn.visited < n /\ Index = turn.index /\ turn.index < n
  <2>1. HeardBehind(turn, link, clients, turn.visited)  BY <1>1, <1>6, Zenon DEF Drained
  <2>2. turn.visited \in Nat /\ turn.index < n /\ turn.initial = n
    BY <1>2, <2>1 DEF HeardBehind
  <2>3. turn.visited < turn.initial  BY DEF DrainVisit, Draining
  <2>4. Index = turn.index  BY <1>1, <1>2, <2>2 DEF Index
  <2>5. QED  BY <2>1, <2>2, <2>3, <2>4, Zenon
<1> HIDE DEF c
<1>7. CASE skip
  <2>1. (Index + 1) % Count \in Nat  BY <1>2, <1>3, ModFacts
  <2> PICK i : i = (Index + 1) % Count  OBVIOUS
  <2>2. /\ past = [f \in TurnFields |-> past[f]] /\ past.budget = turn.budget /\ past.index = i
        /\ past.pc = turn.pc /\ past.visited = turn.visited + 1 /\ past.initial = turn.initial
        /\ past.spent = turn.spent /\ past.removed = turn.removed
    BY <1>1, Zenon DEF TurnShape, TurnFields
  <2> HIDE DEF past
  <2>3. TurnShape(past)  BY <1>1, <2>1, <2>2, Zenon DEF TurnShape
  <2>4. Heard(turn, link, c)
    <3>1. Range(<<>>) = {}  BY DEF Range
    <3>2. QED  BY <1>7, <3>1 DEF Heard
  <2>5. ASSUME ~turn.removed
        PROVE  HeardBehind(past, link, clients, turn.visited + 1)
    <3>1. past.index = (turn.index + 1) % Len(clients)  BY <1>2, <1>6, <2>2, <2>5, Zenon
    <3>2. Heard(turn, link, clients[turn.index + 1])  BY <1>5, <1>6, <2>4, <2>5, Zenon
    <3>3. /\ HeardBehind(turn, link, clients, turn.visited) /\ turn.visited \in Nat
          /\ turn.visited < Len(clients)
      BY <1>6, <2>5
    <3>4. past.initial = turn.initial /\ past.budget = turn.budget /\ turn.spent \subseteq past.spent
      BY <2>2, Zenon
    <3>5. QED  BY <1>1, <3>1, <3>2, <3>3, <3>4, OneMoreHeard, Zenon
  <2>6. Drained(past, link, clients)  BY <1>1, <2>2, <2>5 DEF Drained
  <2>7. QED  BY <1>1, <1>4, <1>7, <2>3, <2>6, Zenon DEF TurnOK
<1>8. CASE ~skip
  <2>1. /\ into = [f \in TurnFields |-> into[f]] /\ into.budget = turn.budget /\ into.index = Index
        /\ into.pc = "lines" /\ into.visited = turn.visited + 1 /\ into.initial = turn.initial
        /\ into.spent = turn.spent /\ into.removed = turn.removed /\ into.who = c
        /\ into.handled = 0
    BY <1>1, ZenonT(40) DEF TurnShape, TurnFields
  <2> HIDE DEF into
  <2>2. TurnShape(into)  BY <1>1, <1>3, <2>1, Zenon DEF TurnShape
  <2>3. Visiting(into, clients)
    <3>1. 0 \in 0 .. PerClient  BY LoopConstants
    <3>2. turn.removed \/ into.visited \in 1 .. Len(clients)  BY <1>2, <1>6, <2>1
    <3>3. QED  BY <1>3, <1>5, <2>1, <3>1, <3>2, Zenon DEF Visiting
  <2>4. ASSUME ~turn.removed
        PROVE  HeardBehind(into, link, clients, into.visited - 1)
    <3>1. into.visited - 1 = turn.visited  BY <1>6, <2>1, <2>4
    <3>2. Rests(into, link, turn, link)
      BY <1>6, <2>1, <2>4, Zenon DEF Rests, Heard
    <3>3. QED  BY <1>1, <1>6, <2>4, <3>1, <3>2, BehindStays, Zenon
  <2>5. Drained(into, link, clients)  BY <2>1, <2>3, <2>4 DEF Drained
  <2>6. QED  BY <1>1, <1>4, <1>8, <2>2, <2>5, Zenon DEF TurnOK
<1>9. QED  BY <1>7, <1>8

LEMMA HandledShape ==
    ASSUME TurnShape(turn), LineLeft
    PROVE  /\ TurnShape(Handled) /\ Handled.budget <= turn.budget
           /\ Handled.handled = turn.handled + 1
           /\ \A f \in TurnFields \ {"handled", "budget", "served"} : Handled[f] = turn[f]
<1>1. turn.budget \in Nat /\ turn.budget > 0  BY Zenon DEF TurnShape, LineLeft
<1>2. /\ Handled = [f \in TurnFields |-> Handled[f]] /\ Handled.budget = turn.budget - 1
      /\ Handled.handled = turn.handled + 1
      /\ \A f \in TurnFields \ {"handled", "budget", "served"} : Handled[f] = turn[f]
  BY Zenon DEF TurnShape, TurnFields, Handled
<1>3. Handled.index = turn.index  BY <1>2 DEF TurnFields
<1>4. QED  BY <1>1, <1>2, <1>3 DEF TurnShape

LEMMA HandledFields ==
    ASSUME TurnShape(turn), LineLeft
    PROVE  /\ Handled.pc = turn.pc /\ Handled.index = turn.index /\ Handled.visited = turn.visited
           /\ Handled.initial = turn.initial /\ Handled.who = turn.who
           /\ Handled.spent = turn.spent /\ Handled.removed = turn.removed
BY HandledShape DEF TurnFields

\* A line of the client being drained is handled, and everybody stays.
LEMMA LineStep ==
    ASSUME DrainInv, DispatchLine
    PROVE  TurnOK(turn', link', clients')
<1>1. /\ turn' = Handled /\ clients' = clients /\ LineLeft /\ turn.pc = "lines"
      /\ turn.handled < PerClient
  BY DEF DispatchLine, LineLeft
<1>2. /\ clients \in Seq(Clients) /\ TurnShape(turn) /\ turn.index \in Nat /\ turn.budget \in Nat
      /\ Visiting(turn, clients)
      /\ turn.removed \/ HeardBehind(turn, link, clients, turn.visited - 1)
  BY <1>1 DEF DrainInv, TurnOK, TurnShape, Drained
<1>3. /\ TurnShape(Handled) /\ Handled.handled = turn.handled + 1 /\ Handled.budget <= turn.budget
      /\ Handled.budget \in Nat
      /\ Handled.pc = "lines" /\ Handled.index = turn.index /\ Handled.visited = turn.visited
      /\ Handled.initial = turn.initial /\ Handled.who = turn.who
      /\ Handled.spent = turn.spent /\ Handled.removed = turn.removed
  BY <1>1, <1>2, HandledShape, HandledFields, ZenonT(40) DEF TurnShape
<1>4. \A c \in Clients : Range(link'[c].in) \subseteq Range(link[c].in) /\ link'[c].tls = link[c].tls
  <2>1. ASSUME NEW c \in Clients
        PROVE  Whole(link[c]) /\ Readable(link[c]) /\ Taken(link'[c], link[c])
    BY LinkWhole, LineTaken DEF DrainInv, InputOK
  <2>2. QED  BY <2>1, TakenInput
<1>5. Rests(Handled, link', turn, link)
  <2>1. \A c \in Clients : Heard(turn, link, c) => Heard(Handled, link', c)
    BY <1>3, <1>4, HeardStays, Zenon
  <2>2. turn.budget = 0 => Handled.budget = 0  BY <1>2, <1>3
  <2>3. QED  BY <1>3, <2>1, <2>2, ZenonT(40) DEF Rests
<1>6. Visiting(Handled, clients)
  <2>1. PerClient \in Nat  BY LoopConstants, ZenonT(40)
  <2>2. turn.handled + 1 \in 0 .. PerClient  BY <1>1, <1>2, <2>1 DEF Visiting
  <2>3. QED  BY <1>2, <1>3, <2>2, Zenon DEF Visiting
<1>7. turn.removed \/ HeardBehind(Handled, link', clients, turn.visited - 1)
  BY <1>2, <1>5, BehindStays, Zenon
<1>8. Drained(Handled, link', clients)  BY <1>3, <1>6, <1>7, Zenon DEF Drained
<1>9. QED  BY <1>1, <1>2, <1>3, <1>8, Zenon DEF TurnOK

LEMMA KillStep ==
    ASSUME DrainInv, DispatchKill
    PROVE  TurnOK(turn', link', clients')
<1>1. /\ LineLeft /\ turn.pc = "lines" /\ turn.handled < PerClient
      /\ turn' = [Handled EXCEPT !.removed = TRUE]
  BY DEF DispatchKill, LineLeft
<1>2. PICK victim \in Range(clients) \ {turn.who} : clients' = Without(clients, victim)
  BY DEF DispatchKill
<1>3. clients \in Seq(Clients) /\ TurnShape(turn) /\ Visiting(turn, clients)
  BY <1>1, Zenon DEF DrainInv, TurnOK, Drained
<1>4. clients' \in Seq(Clients) /\ turn.who \in Range(clients')
  BY <1>2, <1>3, WithoutFacts DEF Visiting
<1>5. /\ TurnShape(Handled) /\ Handled.pc = "lines" /\ Handled.who = turn.who
      /\ Handled.handled = turn.handled + 1
  BY <1>1, <1>3, HandledShape, HandledFields, Zenon
<1> PICK h : h = Handled  OBVIOUS
<1> DEFINE t == [h EXCEPT !.removed = TRUE]
<1>6. /\ t = [f \in TurnFields |-> t[f]] /\ t.pc = h.pc /\ t.who = h.who /\ t.handled = h.handled
      /\ t.budget = h.budget /\ t.index = h.index /\ t.removed = TRUE
  BY <1>5, Zenon DEF TurnShape, TurnFields
<1>7. turn' = t  BY <1>1
<1> HIDE DEF t
<1>8. TurnShape(t)  BY <1>5, <1>6 DEF TurnShape
<1>9. Visiting(t, clients')
  <2>1. PerClient \in Nat  BY LoopConstants
  <2>2. turn.handled + 1 \in 0 .. PerClient  BY <1>1, <1>3, <2>1 DEF Visiting
  <2>3. QED  BY <1>4, <1>5, <1>6, <2>2, ZenonT(40) DEF Visiting
<1>10. Drained(t, link', clients')  BY <1>5, <1>6, <1>9, Zenon DEF Drained
<1>11. QED  BY <1>4, <1>7, <1>8, <1>10, Zenon DEF TurnOK

\* A client leaves, and the drain has lost its place.
LEMMA DrainCutStep ==
    ASSUME clients \in Seq(Clients), NEW t, TurnShape(t), NEW c, DrainCut(c, t)
    PROVE  TurnOK(turn', link', clients')
<1> DEFINE i == IF t.index >= Count - 1 THEN 0 ELSE t.index
           d == [t EXCEPT !.pc = "drain", !.removed = TRUE, !.index = i]
<1>1. turn' = d /\ clients' = Without(clients, c)  BY DEF DrainCut
<1>2. i \in Nat  BY DEF TurnShape
<1> HIDE DEF i
<1>3. /\ d = [f \in TurnFields |-> d[f]] /\ d.pc = "drain" /\ d.removed = TRUE /\ d.index = i
      /\ d.budget = t.budget
  BY Zenon DEF TurnShape, TurnFields
<1> HIDE DEF d
<1>4. TurnShape(d)  BY <1>2, <1>3, Zenon DEF TurnShape
<1>5. Drained(d, link', clients')  BY <1>3, Zenon DEF Drained
<1>6. clients' \in Seq(Clients)  BY <1>1, WithoutFacts, Zenon
<1>7. QED  BY <1>1, <1>4, <1>5, <1>6, Zenon DEF TurnOK

LEMMA LeaveStep ==
    ASSUME DrainInv, DispatchLeave
    PROVE  TurnOK(turn', link', clients')
<1>1. clients \in Seq(Clients) /\ TurnShape(turn)  BY DEF DrainInv, TurnOK
<1>2. TurnShape(Handled)  BY <1>1, HandledShape DEF DispatchLeave
<1>3. DrainCut(turn.who, Handled) \/ DrainCut(turn.who, turn)  BY DEF DispatchLeave
<1>4. QED  BY <1>1, <1>2, <1>3, DrainCutStep, Zenon

\* What is left of a client's lines once its visit ends.
LEMMA VisitHeard ==
    ASSUME DrainInv, turn.pc = "lines", ~LineLeft, link[turn.who].in # <<"over">>,
           turn.budget # 0, turn.handled # PerClient
    PROVE  Heard(turn, link, turn.who)
<1> DEFINE k == link[turn.who]
           x == k.held \o k.wire
<1>1. clients \in Seq(Clients) /\ TurnShape(turn) /\ Visiting(turn, clients)
  BY Zenon DEF DrainInv, TurnOK, Drained
<1>2. turn.who \in Clients /\ turn.handled \in 0 .. PerClient /\ PerClient \in Nat
  BY <1>1, RangeInClients, LoopConstants, Zenon DEF Visiting
<1>3. turn.handled < PerClient /\ turn.budget > 0  BY <1>1, <1>2, SMT, SMTT(30) DEF TurnShape
<1>4. Readable(k)  BY <1>2 DEF DrainInv, InputOK
<1>5. k.in = <<>> \/ Head(k.in) = "over"  BY <1>3 DEF LineLeft
<1>6. CASE k.in = <<>>
  <2>1. Range(<<>>) = {}  BY DEF Range
  <2>2. QED  BY <1>6, <2>1 DEF Heard
<1>7. CASE k.in # <<>> /\ Head(k.in) = "over"
  <2>1. k.in \in Seq(Lines) /\ k.held \in Seq(Lines) /\ k.wire \in Seq(Lines)  BY <1>4, ZenonT(40) DEF Readable
  <2> HIDE DEF k
  <2>2. x \in Seq(Lines) /\ k.in \o k.held \o k.wire = k.in \o x
    <3>1. (k.in \o k.held) \o k.wire = k.in \o (k.held \o k.wire)  BY <2>1, LinesAssociate, ZenonT(40)
    <3>2. QED  BY <2>1, <3>1
  <2> HIDE DEF x
  <2>3. OverLast(k.in \o x)  BY <1>4, <2>2, Zenon DEF Readable
  <2>4. k.in[1] = "over" /\ Len(k.in) \in Nat /\ Len(k.in) > 0 /\ Len(x) \in Nat
    BY <1>7, <2>1, <2>2
  <2>5. /\ Len(k.in \o x) = Len(k.in) + Len(x)
        /\ \A i \in 1 .. Len(k.in) + Len(x) : (k.in \o x)[i] = IF i <= Len(k.in) THEN k.in[i] ELSE x[i - Len(k.in)]
    BY <2>1, <2>2, Joined, ZenonT(40)
  <2>6. (k.in \o x)[1] = "over"
    <3>1. 1 \in 1 .. Len(k.in) + Len(x) /\ 1 <= Len(k.in)  BY <2>4
    <3>2. QED  BY <2>4, <2>5, <3>1, Zenon
  <2>7. Len(k.in) = 1
    <3>1. SUFFICES ASSUME Len(k.in) # 1 PROVE FALSE  OBVIOUS
    <3>2. 1 \in 1 .. (Len(k.in) + Len(x)) - 1  BY <2>4, <3>1, MoreThanOne, Zenon
    <3>3. QED  BY <2>3, <2>5, <2>6, <3>2, Zenon DEF OverLast
  <2>8. k.in = <<"over">>  BY <2>1, <2>4, <2>7, SMT, SMTT(30)
  <2>9. QED  BY <2>8, Zenon DEF k
<1>8. QED  BY <1>5, <1>6, <1>7, Zenon

LEMMA EndVisitStep ==
    ASSUME DrainInv, EndVisit
    PROVE  TurnOK(turn', link', clients')
<1> DEFINE c == turn.who
           i == (turn.index + 1) % Count
           more == IF turn.handled = PerClient THEN turn.spent \cup {c} ELSE turn.spent
           t == [turn EXCEPT !.pc = "drain", !.index = i, !.spent = more]
<1>1. /\ clients \in Seq(Clients) /\ TurnShape(turn) /\ turn.index \in Nat
      /\ turn.pc = "lines" /\ ~LineLeft /\ Visiting(turn, clients)
      /\ turn.removed \/ HeardBehind(turn, link, clients, turn.visited - 1)
  BY DEF DrainInv, TurnOK, TurnShape, EndVisit, Drained
<1>2. CASE link[c].in = <<"over">> \/ link[c].over
  <2>1. DrainCut(c, turn)  BY <1>2 DEF EndVisit
  <2>2. QED  BY <1>1, <2>1, DrainCutStep
<1>3. CASE ~(link[c].in = <<"over">> \/ link[c].over)
  <2>1. turn' = t /\ clients' = clients /\ link' = link  BY <1>3 DEF EndVisit
  <2>2. Len(clients) \in Nat /\ Len(clients) > 0 /\ Count = Len(clients)
    <3>1. c \in Range(clients)  BY <1>1, Zenon DEF Visiting
    <3>2. PICK p \in Nat : p < Len(clients)  BY <1>1, <3>1, RangeInClients, Zenon
    <3>3. QED  BY <1>1, <3>2 DEF Count
  <2>3. i \in Nat  BY <1>1, <2>2, ModFacts
  <2> HIDE DEF i, more
  <2>4. /\ t = [f \in TurnFields |-> t[f]] /\ t.pc = "drain" /\ t.index = i /\ t.spent = more
        /\ t.budget = turn.budget /\ t.visited = turn.visited /\ t.initial = turn.initial
        /\ t.removed = turn.removed
    BY <1>1, Zenon DEF TurnShape, TurnFields
  <2> HIDE DEF t
  <2>5. TurnShape(t)  BY <1>1, <2>3, <2>4, Zenon DEF TurnShape
  <2>6. ASSUME ~turn.removed
        PROVE  HeardBehind(t, link, clients, turn.visited)
    <3> DEFINE u == [turn EXCEPT !.spent = more]
    <3>1. u.spent = more /\ u.index = turn.index /\ u.initial = turn.initial /\ u.budget = turn.budget
      BY <1>1 DEF TurnShape, TurnFields
    <3> HIDE DEF u
    <3>2. turn.spent \subseteq more /\ (turn.handled = PerClient => c \in more)  BY DEF more
    <3>3. HeardBehind(turn, link, clients, turn.visited - 1)  BY <1>1, <2>6, Zenon
    <3>4. Rests(u, link, turn, link)  BY <3>1, <3>2 DEF Rests, Heard
    <3>5. HeardBehind(u, link, clients, turn.visited - 1)  BY <1>1, <3>3, <3>4, BehindStays, ZenonT(40)
    <3>6. c = clients[turn.index + 1] /\ turn.index < Len(clients)  BY <1>1, <2>6 DEF Visiting
    <3>7. turn.budget = 0 \/ Heard(u, link, c)
      <4>1. CASE turn.budget # 0 /\ turn.handled # PerClient
        BY <1>1, <1>3, <3>1, <3>2, <4>1, VisitHeard, ZenonT(40) DEF Heard
      <4>2. CASE turn.handled = PerClient  BY <3>1, <3>2, <4>2 DEF Heard
      <4>3. QED  BY <4>1, <4>2, Zenon
    <3>8. turn.visited - 1 \in Nat /\ turn.visited - 1 < Len(clients)
          /\ (turn.visited - 1) + 1 = turn.visited
      <4>1. turn.visited \in 1 .. Len(clients)  BY <1>1, <2>6, Zenon DEF Visiting
      <4>2. QED  BY <2>2, <4>1
    <3>9. t.index = (u.index + 1) % Len(clients) /\ t.initial = u.initial /\ t.budget = u.budget
          /\ u.spent \subseteq t.spent
      BY <2>2, <2>4, <3>1, Zenon DEF i
    <3>10. u.budget = 0 \/ Heard(u, link, clients[u.index + 1])  BY <3>1, <3>6, <3>7, Zenon
    <3>11. HeardBehind(t, link, clients, (turn.visited - 1) + 1)
      BY <1>1, <3>1, <3>5, <3>8, <3>9, <3>10, OneMoreHeard, ZenonT(40)
    <3>12. QED  BY <3>8, <3>11
  <2>7. Drained(t, link, clients)  BY <2>4, <2>6, Zenon DEF Drained
  <2>8. QED  BY <1>1, <2>1, <2>5, <2>7 DEF TurnOK
<1>4. QED  BY <1>2, <1>3

\* A full round of the drain has come to everybody.
LEMMA EndDrainStep ==
    ASSUME DrainInv, EndDrain
    PROVE  TurnOK(turn', link', clients')
<1> DEFINE t == [turn EXCEPT !.pc = IF turn.phase = 1 THEN "poll" ELSE "maintain",
                            !.index = 0, !.visited = 0, !.initial = 0, !.who = 0, !.handled = 0]
<1>1. /\ clients \in Seq(Clients) /\ TurnShape(turn) /\ turn.index \in Nat /\ turn.budget \in Nat
      /\ turn.pc = "drain" /\ ~Draining /\ Drained(turn, link, clients)
  BY DEF DrainInv, TurnOK, TurnShape, EndDrain
<1>2. turn' = t /\ clients' = clients /\ link' = link  BY DEF EndDrain
<1>3. /\ t = [f \in TurnFields |-> t[f]] /\ t.pc \in {"poll", "maintain"} /\ t.index = 0
      /\ t.spent = turn.spent /\ t.budget = turn.budget /\ t.removed = turn.removed
  BY <1>1, ZenonT(40) DEF TurnShape, TurnFields
<1> HIDE DEF t
<1>4. TurnShape(t)  BY <1>1, <1>3 DEF TurnShape
<1>5. ASSUME turn.budget # 0, ~turn.removed, NEW c \in Range(clients)
      PROVE  Heard(t, link, c)
  <2>1. HeardBehind(turn, link, clients, turn.visited)  BY <1>1, <1>5 DEF Drained
  <2> PICK n : n = Len(clients)  BY Zenon
  <2>2. PICK p \in Nat : p < n /\ clients[p + 1] = c  BY <1>1, <1>5, RangeInClients, SMT, SMTT(30)
  <2>3. n \in Nat /\ n > 0 /\ clients # <<>> /\ turn.budget > 0  BY <1>1, <1>5, <2>2
  <2>4. turn.visited = n /\ turn.index < n
    <3>1. ~(turn.visited < turn.initial)  BY <1>1, <2>3 DEF Draining
    <3>2. QED  BY <2>1, <2>3, <3>1, SMT, SMTT(30) DEF HeardBehind
  <2> PICK i : i = turn.index  OBVIOUS
  <2>5. PICK j \in 1 .. n : Behind(i, n, j) = p
    <3>1. i \in Nat /\ i < n  BY <1>1, <2>4
    <3>2. QED  BY <2>2, <2>3, <3>1, BehindAll, ZenonT(40)
  <2>6. Heard(turn, link, clients[Behind(turn.index, n, j) + 1])
    BY <1>5, <2>1, <2>4 DEF HeardBehind
  <2>7. QED  BY <1>3, <2>2, <2>5, <2>6, ZenonT(40) DEF Heard
<1>6. Drained(t, link, clients)  BY <1>3, <1>5 DEF Drained
<1>7. QED  BY <1>1, <1>2, <1>4, <1>6, Zenon DEF TurnOK

LEMMA PollStep ==
    ASSUME DrainInv, Poll
    PROVE  TurnOK(turn', link', clients')
<1>1. clients \in Seq(Clients) /\ TurnShape(turn) /\ config.later \subseteq Clients
  BY SMT, SMTT(30) DEF DrainInv, TurnOK, ConfigOK
<1>2. clients' \in Seq(Clients)
  <2>1. PICK new \in {<<>>} \cup {<<c>> : c \in config.later} : clients' = clients \o new
    BY SMT, SMTT(30) DEF Poll
  <2>2. new \in Seq(Clients)
    <3>1. CASE new = <<>>  BY <3>1
    <3>2. CASE new # <<>>
      <4>1. PICK c \in config.later : new = <<c>>  BY <2>1, <3>2, Zenon
      <4>2. c \in Clients  BY <1>1, <4>1
      <4>3. QED  BY <4>1, <4>2
    <3>3. QED  BY <3>1, <3>2
  <2>3. QED  BY <1>1, <2>1, <2>2
<1>3. \E e, b, v : turn' = [turn EXCEPT !.pc = "serve", !.snapshot = clients, !.events = e,
                                        !.start = b, !.visited = v]
  <2>1. PICK ready \in BOOLEAN :
          turn' = [turn EXCEPT
                      !.pc = "serve", !.snapshot = clients,
                      !.events = [i \in 1..Count |-> Events(link[clients[i]])],
                      !.start = IF Count = 0 THEN 0 ELSE tlsCursor % Count,
                      !.visited = IF ready THEN 0 ELSE Count]
    BY Zenon DEF Poll
  <2> DEFINE e == [i \in 1..Count |-> Events(link[clients[i]])]
             b == IF Count = 0 THEN 0 ELSE tlsCursor % Count
             v == IF ready THEN 0 ELSE Count
  <2>2. turn' = [turn EXCEPT !.pc = "serve", !.snapshot = clients, !.events = e,
                             !.start = b, !.visited = v]
    BY <2>1, Zenon
  <2> HIDE DEF e, b, v
  <2>3. QED  BY <2>2, Zenon
<1>4. PICK e, b, v : turn' = [turn EXCEPT !.pc = "serve", !.snapshot = clients, !.events = e,
                                          !.start = b, !.visited = v]
  BY <1>3, Zenon
<1>5. /\ turn' = [f \in TurnFields |-> turn'[f]] /\ turn'.pc = "serve"
      /\ turn'.budget = turn.budget /\ turn'.index = turn.index
  BY <1>1, <1>4, Zenon DEF TurnShape, TurnFields
<1>6. TurnShape(turn')  BY <1>1, <1>5, Zenon DEF TurnShape
<1>7. QED  BY <1>2, <1>5, <1>6, TurnElsewhere, ZenonT(40)

LEMMA ServeStep ==
    ASSUME DrainInv, ServeNone \/ ServeCut \/ ServeHandshake \/ ServeOpen
    PROVE  TurnOK(turn', link', clients')
<1>1. clients \in Seq(Clients) /\ TurnShape(turn) /\ turn.pc = "serve"
  BY DEF DrainInv, TurnOK, ServeNone, ServeCut, ServeHandshake, ServeOpen, Ready, Serving
<1>2. clients' = clients \/ clients' = Without(clients, Entry)
  BY DEF ServeNone, ServeCut, ServeHandshake, ServeOpen, ServedAs
<1>3. clients' \in Seq(Clients)  BY <1>1, <1>2, WithoutFacts, Zenon
<1>4. \/ turn' = Onward
      \/ turn' = [Onward EXCEPT !.shakes = @ + 1, !.served = @ \cup {Entry}]
  BY DEF ServeNone, ServeCut, ServeHandshake, ServeOpen
<1>5. /\ turn' = [f \in TurnFields |-> turn'[f]] /\ turn'.pc = "serve"
      /\ turn'.budget = turn.budget /\ turn'.index = turn.index
  <2>1. /\ Onward = [f \in TurnFields |-> Onward[f]] /\ Onward.pc = "serve"
        /\ Onward.budget = turn.budget /\ Onward.index = turn.index
    BY <1>1, Zenon DEF Onward, TurnShape, TurnFields
  <2> PICK o : o = Onward  OBVIOUS
  <2> PICK e : e = Entry  OBVIOUS
  <2> DEFINE t == [o EXCEPT !.shakes = @ + 1, !.served = @ \cup {e}]
  <2>2. /\ t = [f \in TurnFields |-> t[f]] /\ t.pc = "serve"
        /\ t.budget = turn.budget /\ t.index = turn.index
    BY <2>1, Zenon DEF TurnFields
  <2>3. turn' = o \/ turn' = t  BY <1>4
  <2> HIDE DEF t
  <2>4. QED  BY <2>1, <2>2, <2>3
<1>6. TurnShape(turn')  BY <1>1, <1>5 DEF TurnShape
<1>7. QED  BY <1>3, <1>5, <1>6, TurnElsewhere, ZenonT(40)

LEMMA EndServingStep ==
    ASSUME DrainInv, EndServing
    PROVE  TurnOK(turn', link', clients')
<1> DEFINE t == [turn EXCEPT !.snapshot = <<>>, !.events = <<>>, !.start = 0,
                             !.visited = 0, !.shakes = 0]
           m == [t EXCEPT !.pc = "maintain", !.index = 0]
<1>1. clients \in Seq(Clients) /\ TurnShape(turn) /\ cursor \in Nat  BY DEF DrainInv, TurnOK
<1>2. turn' = AfterServing(t) /\ link' = link /\ clients' = clients  BY DEF EndServing
<1>3. t = [f \in TurnFields |-> t[f]] /\ t.budget = turn.budget /\ t.index = turn.index
  BY <1>1, Zenon DEF TurnShape, TurnFields
<1> HIDE DEF t
<1>4. TurnShape(t)  BY <1>1, <1>3 DEF TurnShape
<1>5. CASE t.budget > 0
  <2>1. turn' = DrainFrom(t, 2)  BY <1>2, <1>5 DEF AfterServing
  <2>2. QED  BY <1>1, <1>2, <1>4, <2>1, DrainBegins, SMT, SMTT(30)
<1>6. CASE ~(t.budget > 0)
  <2>1. turn' = m /\ t.budget = 0  BY <1>2, <1>4, <1>6 DEF AfterServing, TurnShape
  <2>2. m = [f \in TurnFields |-> m[f]] /\ m.budget = t.budget /\ m.index = 0 /\ m.pc = "maintain"
    BY <1>4, Zenon DEF TurnShape, TurnFields
  <2> HIDE DEF m
  <2>3. TurnShape(m)  BY <1>4, <2>2 DEF TurnShape
  <2>4. Drained(m, link, clients)  BY <2>1, <2>2 DEF Drained
  <2>5. QED  BY <1>1, <1>2, <2>1, <2>3, <2>4, SMT, SMTT(30) DEF TurnOK
<1>7. QED  BY <1>5, <1>6

LEMMA MaintainStep ==
    ASSUME DrainInv, MaintainClient
    PROVE  TurnOK(turn', link', clients')
<1>1. clients \in Seq(Clients) /\ TurnShape(turn) /\ Drained(turn, link, clients)
      /\ turn.pc = "maintain"
  BY DEF DrainInv, TurnOK, MaintainClient, Maintaining
<1>2. turn' = [turn EXCEPT !.index = @ + 1] /\ clients' = clients
  BY DEF MaintainClient
<1>3. /\ turn' = [f \in TurnFields |-> turn'[f]] /\ turn'.pc = "maintain"
      /\ turn'.budget = turn.budget /\ turn'.index = turn.index + 1
      /\ turn'.spent = turn.spent /\ turn'.removed = turn.removed
  BY <1>1, <1>2 DEF TurnShape, TurnFields
<1>4. TurnShape(turn')  BY <1>1, <1>3 DEF TurnShape
<1> PICK t : t = turn'  OBVIOUS
<1>5. ASSUME NEW c \in Range(clients), Heard(turn, link, c) PROVE Heard(t, link', c)
  <2>1. c \in Clients  BY <1>1, <1>5, RangeInClients
  <2>2. Whole(link[c]) /\ Readable(link[c]) /\ Taken(link'[c], link[c])
    BY <2>1, LinkWhole, PingTaken, SMT, SMTT(30) DEF DrainInv, InputOK
  <2>3. Range(link'[c].in) \subseteq Range(link[c].in) /\ link'[c].tls = link[c].tls
    BY <2>2, TakenInput
  <2>4. QED  BY <1>3, <1>5, <2>3, Zenon DEF Heard
<1>6. Drained(t, link', clients)  BY <1>1, <1>3, <1>5, Zenon DEF Drained
<1>7. QED  BY <1>1, <1>2, <1>4, <1>6 DEF TurnOK

LEMMA TimeoutStep ==
    ASSUME DrainInv, PingTimesOut
    PROVE  TurnOK(turn', link', clients')
<1>1. clients \in Seq(Clients) /\ TurnShape(turn) /\ Drained(turn, link, clients)
      /\ turn.pc = "maintain" /\ LoopInv
  BY DEF DrainInv, TurnOK, PingTimesOut, Maintaining
<1>2. turn' = turn /\ link' = Freed(At(turn.index)) /\ clients' = Without(clients, At(turn.index))
  BY DEF PingTimesOut
<1>3. clients' \in Seq(Clients) /\ Range(clients') \subseteq Range(clients)
  BY <1>1, <1>2, WithoutFacts
<1>4. ASSUME NEW c \in Range(clients), Heard(turn, link, c)
      PROVE  Heard(turn, link', c)
  <2>1. c \in Clients  BY <1>1, <1>4, RangeInClients
  <2>2. link'[c] = link[c] \/ link'[c] = NewConnection(FALSE)  BY <1>1, <1>2, <2>1, FreedInput,
                                                                  ZenonT(40)
  <2>3. NewConnection(FALSE).in = <<>>  BY DEF NewConnection
  <2>4. Range(<<>>) = {}  BY DEF Range
  <2>5. QED  BY <1>4, <2>2, <2>3, <2>4, Zenon DEF Heard
<1>5. Drained(turn, link', clients')  BY <1>1, <1>3, <1>4 DEF Drained
<1>6. QED  BY <1>1, <1>2, <1>3, <1>5, Zenon DEF TurnOK

LEMMA EndTurnStep ==
    ASSUME DrainInv, EndTurn
    PROVE  TurnOK(turn', link', clients')
<1>1. clients \in Seq(Clients) /\ TurnShape(turn)  BY DEF DrainInv, TurnOK
<1>2. turn' = [turn EXCEPT !.pc = "top"] /\ clients' = clients  BY DEF EndTurn
<1>3. /\ turn' = [f \in TurnFields |-> turn'[f]] /\ turn'.pc = "top"
      /\ turn'.budget = turn.budget /\ turn'.index = turn.index
  BY <1>1, <1>2, Zenon DEF TurnShape, TurnFields
<1>4. TurnShape(turn')  BY <1>1, <1>3, Zenon DEF TurnShape
<1>5. QED  BY <1>1, <1>2, <1>3, <1>4, TurnElsewhere, Zenon

LEMMA PeerStep ==
    ASSUME DrainInv, NEW c \in Clients,
           PeerSends(c) \/ PeerReads(c) \/ PeerAnswers(c) \/ PeerRehandshakes(c) \/ PeerVanishes(c)
    PROVE  TurnOK(turn', link', clients')
<1>1. turn' = turn /\ clients' = clients
  BY Zenon DEF PeerSends, PeerReads, PeerAnswers, PeerRehandshakes, PeerVanishes, peerVars
<1>2. \A d \in Clients : link'[d].in = link[d].in /\ link'[d].tls = link[d].tls
  BY PeerInput, ZenonT(40) DEF DrainInv
<1>3. Rests(turn, link', turn, link)  BY <1>2 DEF Rests, Heard
<1>4. TurnOK(turn, link, clients)  BY DEF DrainInv
<1>5. QED  BY <1>1, <1>3, <1>4, TurnRests, Zenon

LEMMA TurnStep ==
    ASSUME DrainInv, [Next]_vars
    PROVE  TurnOK(turn', link', clients')
<1>1. CASE Tick \/ UNCHANGED vars
  <2>1. turn' = turn /\ link' = link /\ clients' = clients  BY <1>1, Zenon DEF Tick, vars
  <2>2. QED  BY <2>1, Zenon DEF DrainInv
<1>2. QED
  BY <1>1, StartStep, VisitStep, LineStep, KillStep, LeaveStep, EndVisitStep, EndDrainStep,
     PollStep, ServeStep, EndServingStep, MaintainStep, TimeoutStep, EndTurnStep, PeerStep,
     ZenonT(40)
  DEF Next, Loop

LEMMA CursorStep ==
    ASSUME DrainInv, [Next]_vars
    PROVE  cursor' \in Nat
<1>1. CASE EndDrain
  <2>1. turn.index \in Nat /\ clients \in Seq(Clients)  BY DEF DrainInv, TurnOK, TurnShape
  <2>2. cursor' = IF clients = <<>> THEN 0 ELSE turn.index % Count
    BY <1>1 DEF EndDrain, CursorAfter
  <2>3. clients # <<>> => Count \in Nat /\ Count > 0  BY <2>1 DEF Count
  <2>4. QED  BY <2>1, <2>2, <2>3, ModFacts
<1>2. CASE ~EndDrain
  <2>1. UNCHANGED cursor
    BY <1>2, Zenon DEF Next, Loop, StartTurn, DrainVisit, DispatchLine, DispatchKill, DispatchLeave,
       EndVisit, Poll, ServeNone, ServeCut, ServeHandshake, ServeOpen, EndServing, MaintainClient,
       PingTimesOut, EndTurn, PeerSends, PeerReads, PeerAnswers, PeerRehandshakes, PeerVanishes,
       Tick, peerVars, vars
  <2>2. QED  BY <2>1, Zenon DEF DrainInv
<1>3. QED  BY <1>1, <1>2

LEMMA ConfigStep ==
    ASSUME ConfigOK, [Next]_vars
    PROVE  ConfigOK'
<1>1. CASE Poll
  <2>1. PICK new : config' = [config EXCEPT !.later = @ \ Range(new)]  BY <1>1, Zenon DEF Poll
  <2>2. config.later \ Range(new) \in SUBSET Clients  BY DEF ConfigOK
  <2>3. QED  BY <2>1, <2>2 DEF ConfigOK
<1>2. CASE ~Poll
  <2>1. UNCHANGED config
    BY <1>2, ZenonT(40) DEF Next, Loop, StartTurn, DrainVisit, DispatchLine, DispatchKill, DispatchLeave,
       EndVisit, EndDrain, ServeNone, ServeCut, ServeHandshake, ServeOpen, EndServing,
       MaintainClient, PingTimesOut, EndTurn, PeerSends, PeerReads, PeerAnswers,
       PeerRehandshakes, PeerVanishes, Tick, peerVars, vars
  <2>2. QED  BY <2>1 DEF ConfigOK
<1>3. QED  BY <1>1, <1>2

INSTANCE FiniteSetTheorems

LEMMA DrainInit == Init => DrainInv
<1> SUFFICES ASSUME Init PROVE DrainInv  OBVIOUS
<1>1. LoopInv  BY LoopInit, Zenon
<1>2. ConfigOK  BY LoopConstants, Zenon DEF Init, ConfigOK
<1>3. InputOK
  <2>1. ASSUME NEW c \in Clients PROVE link[c] = NewConnection(c \in config.tls)  BY DEF Init
  <2>2. ASSUME NEW c \in Clients PROVE Readable(NewConnection(c \in config.tls))
    BY NewReadable, Zenon
  <2>3. QED  BY <2>1, <2>2, ZenonT(40) DEF InputOK
<1>4. cursor \in Nat  BY DEF Init
<1>5. clients \in Seq(Clients)
  <2> DEFINE n == Cardinality(config.first)
  <2>1. IsFiniteSet(config.first) /\ config.first \subseteq Clients
    BY LoopConstants, Zenon DEF Init
  <2>2. n \in Nat /\ ExistsBijection(1 .. n, config.first)
    BY <2>1, FS_CardinalityType, Zenon
  <2>3. \E f \in [1 .. n -> config.first] : IsInjective(f)
    BY <2>2, Zenon DEF ExistsBijection, Bijection, Injection
  <2>4. clients \in [1 .. n -> config.first]
    BY <2>3, Zenon DEF Init
  <2> HIDE DEF n
  <2>5. QED  BY <2>1, <2>2, <2>4, FunctionIsSeq, Zenon
<1>6. TurnOK(turn, link, clients)
  BY <1>2, <1>5, NewTurnShape, TurnElsewhere, ZenonT(40) DEF Init
<1>7. QED  BY <1>1, <1>2, <1>3, <1>4, <1>6, ZenonT(40) DEF DrainInv

\* The drain owes nothing to whoever it has come to, in every state of the loop.
THEOREM DrainInvariance == Spec => []DrainInv
<1>1. DrainInv /\ [Next]_vars /\ LoopInv' => DrainInv'
  <2> SUFFICES ASSUME DrainInv, [Next]_vars, LoopInv' PROVE DrainInv'  OBVIOUS
  <2>1. ConfigOK' /\ InputOK'  BY ConfigStep, InputStep, Zenon DEF DrainInv
  <2>2. cursor' \in Nat /\ TurnOK(turn', link', clients')  BY CursorStep, TurnStep, ZenonT(40)
  <2>3. QED  BY <2>1, <2>2, ZenonT(40) DEF DrainInv
<1>2. QED  BY DrainInit, LoopInvariance, <1>1, PTL DEF Spec

\* A client's PING does not time out while its PONG is in the input buffer, for
\* any number of clients and lines, unless the line budget of the turn or the
\* client's share of it ran out first, or a client left during the drain.
THEOREM PongIsHeard == Spec => PongHeard
<1>1. DrainInv /\ [Next]_vars =>
        [\A c \in Clients :
            PingTimesOut /\ c = At(turn.index) /\ "pong" \in Range(link[c].in)
                => turn.budget = 0 \/ c \in turn.spent \/ turn.removed]_vars
  <2> SUFFICES ASSUME DrainInv, NEW c \in Clients, PingTimesOut, c = At(turn.index),
                      "pong" \in Range(link[c].in)
               PROVE  turn.budget = 0 \/ c \in turn.spent \/ turn.removed
    BY Zenon
  <2>1. /\ clients \in Seq(Clients) /\ turn.index \in Nat /\ turn.index < Len(clients)
        /\ turn.pc = "maintain" /\ Drained(turn, link, clients)
    BY Zenon DEF DrainInv, TurnOK, TurnShape, PingTimesOut, Maintaining, Count
  <2>2. c \in Range(clients)  BY <2>1, InClients, ZenonT(40) DEF At
  <2>3. link[c].tls # "handshake"  BY DEF PingTimesOut, TimedOut, Registered
  <2>4. QED  BY <2>1, <2>2, <2>3, ZenonT(40) DEF Drained, Heard
<1>2. QED  BY <1>1, DrainInvariance, PTL DEF Spec, PongHeard

=============================================================================
