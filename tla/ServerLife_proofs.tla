------------------------- MODULE ServerLife_proofs --------------------------
(***************************************************************************)
(* Proofs about the channel log, for every number of channels, every       *)
(* batch, flush and queue limit, and any number of failures and crashes;   *)
(* and about the life of the process, for any number of lookup workers and *)
(* pipes: no signal is lost, no worker outlives its server, and the log    *)
(* that main() starts, drives and stops keeps every promise it makes.      *)
(***************************************************************************)
EXTENDS ServerLife, TLAPS

(* The rows of the batch in hand whose line has been appended.             *)
Done == IF job.phase \in {"write", "delete"} THEN job.batch \ job.left ELSE {}

(* Ids are never reused: neither a row nor a line has one yet to be given. *)
IdsFresh ==
    /\ \A r \in rows : r.id < nextId
    /\ \A i \in Ids : lines[i] > 0 => i < nextId
    /\ \A r, s \in rows : r.id = s.id => r = s

(* What each kind of flush covers, and that its batch is a first part of   *)
(* the rows it may take.                                                   *)
BatchFirst ==
    /\ job.kind = "none" => job.phase = "fetch"
    /\ job.kind = "off" => job.cutoff = MaxTime
    /\ job.kind \in {"maintain", "shutdown"} => job.chans = Channels
    /\ job.phase \in {"write", "delete"} =>
          /\ job.left \subseteq job.batch /\ job.batch \subseteq Pool
          /\ \A r \in job.batch : \A s \in Pool \ job.batch : InOrder(job.kind, r, s)
    /\ job.phase = "delete" => job.left = {}

(* A row's line has been appended when the flush has passed the row, and a *)
(* row it has not passed was appended at most once for every fault.        *)
LinesCounted ==
    /\ \A r \in Done : lines[r.id] > 0
    /\ \A r \in rows \ Done : lines[r.id] <= faults
    /\ RepeatsNeedFaults

(* The inductive invariant behind durability.                              *)
LogInv ==
    /\ LogTypeOK
    /\ IdsFresh
    /\ BatchFirst
    /\ LinesCounted
    /\ IsFiniteSet(rows) /\ CountExact

-----------------------------------------------------------------------------
(* Types                                                                   *)

(* Facts of arithmetic, stated once for terms the solver handles slowly.   *)
LEMMA LessThenLessOrEqual ==
  ASSUME NEW a \in Int, NEW b \in Int, NEW c \in Int, a < b, b <= c
  PROVE  a < c
  OBVIOUS

LEMMA RoomForOne ==
  ASSUME NEW k \in Nat, NEW limit \in Nat, k < limit
  PROVE  k + 1 <= limit
  OBVIOUS

LEMMA TakenAway ==
  ASSUME NEW k \in Nat, NEW n \in Nat, NEW limit \in Nat, k - n \in Nat
  PROVE  /\ (IF k >= n THEN k - n ELSE 0) = k - n
         /\ k <= limit => k - n <= limit
  OBVIOUS

LEMMA OneMoreIsPositive ==
  ASSUME NEW k \in Nat
  PROVE  k + 1 > 0
  OBVIOUS

LEMMA IdInRange ==
  ASSUME NEW i \in Nat \ {0}, i <= MaxId
  PROVE  i \in Ids
  BY LogConstants DEF Ids

LEMMA LessWhenDifferent ==
  ASSUME NEW a \in Int, NEW b \in Int, a <= b, a # b
  PROVE  a < b
  OBVIOUS

LEMMA NotGreaterThanItself ==
  ASSUME NEW a \in Int
  PROVE  ~(a > a) /\ ~(a < a)
  OBVIOUS

LEMMA NoDayIsFirst ==
  ASSUME NEW a \in Nat
  PROVE  NoDay <= a
  BY DEF NoDay

(* A later time is in the same day or a later one.                         *)
LEMMA DivMonotone ==
  ASSUME NEW a \in Nat, NEW b \in Nat, NEW D \in Nat \ {0}, a <= b
  PROVE  a \div D \in Nat /\ a \div D <= b \div D
<1> DEFINE p == a \div D
<1> DEFINE q == b \div D
<1>1. p \in Int /\ q \in Int /\ D * p <= a /\ b < D * q + D
  OBVIOUS
<1>2. 0 <= p
  OBVIOUS
<1>3. ASSUME q < p PROVE FALSE
  <2> HIDE DEF p, q
  <2>1. p - q >= 1
    BY <1>1, <1>3
  <2>2. D * (p - q) >= D
    BY <1>1, <2>1
  <2>3. D * (p - q) = D * p - D * q
    BY <1>1
  <2>4. D * p \in Int /\ D * q \in Int
    BY <1>1
  <2> QED BY <1>1, <2>2, <2>3, <2>4
<1> QED BY <1>1, <1>2, <1>3

LEMMA DayMonotone ==
  ASSUME NEW a \in Times, NEW b \in Times, a <= b
  PROVE  Day(a) <= Day(b)
  BY DivMonotone, LogConstants DEF Day, Times

LEMMA DayType ==
  ASSUME NEW t \in Times
  PROVE  Day(t) \in Days /\ Day(t) \in Nat
<1>1. Day(t) \in Nat /\ Day(t) <= Day(MaxTime) /\ Day(MaxTime) \in Nat
  BY DivMonotone, LogConstants DEF Day, Times
<1> QED BY <1>1 DEF Days

LEMMA StateShape ==
  ASSUME NEW s \in StateRecord, NEW d \in Days \cup {NoDay}
  PROVE  /\ Created(s) \in StateRecord /\ Created(s).suffix = s.suffix
         /\ OnDay(s, d) \in StateRecord /\ OnDay(s, d).suffix = d
         /\ NoState \in StateRecord
         /\ [exists |-> TRUE, known |-> TRUE, enabled |-> TRUE, suffix |-> d] \in StateRecord
         /\ [s EXCEPT !.known = TRUE, !.enabled = FALSE] \in StateRecord
         /\ [s EXCEPT !.known = TRUE, !.enabled = FALSE].suffix = s.suffix
  BY ZenonT(40) DEF StateRecord, Created, OnDay, NoState

LEMMA CachedShape ==
  ASSUME LogTypeOK, NEW c \in Channels
  PROVE  Cached(c) \in StateRecord /\ (Cached(c).suffix \in {NoDay, state[c].suffix})
  BY DEF LogTypeOK, StateRecord, Cached

LEMMA FilesShape ==
  ASSUME LogTypeOK, NEW c \in Channels, NEW t \in Times
  PROVE  Left(c, Day(t)) \subseteq Files /\ Bounded(c, t) \subseteq Files
         /\ Ending(c) \subseteq Files
<1>1. state[c].suffix \in Days \cup {NoDay}
  BY DEF LogTypeOK, StateRecord
<1>2. Day(t) \in Days
  BY DayType
<1> QED BY <1>1, <1>2 DEF Left, Bounded, Ending, Files

LEMMA JobShape ==
  ASSUME NEW k \in JobKind, NEW C \in SUBSET Channels, NEW n \in Int
  PROVE  NewJob(k, C, n) \in Job
  BY DEF NewJob, Job, Phase

LEMMA EmptyJob == NoJob \in Job /\ NoJob.kind = "none" /\ NoJob.phase = "fetch"
                  /\ NoJob.batch = {} /\ NoJob.left = {}
  BY DEF NoJob, NewJob, Job, JobKind, Phase

LEMMA RequestTypes ==
  ASSUME LogTypeOK, LogRequest \/ StartShutdownFlush
  PROVE  LogTypeOK'
<1> USE DEF dbVars
<1>0. job \in Job /\ state \in [Channels -> StateRecord] /\ now \in Times /\ now \in Int
  BY DEF LogTypeOK, Times
<1>1. ASSUME NEW c \in Channels, EventQueued(c)
      PROVE  LogTypeOK'
  <2>1. nextId \in Ids /\ nextId' \in Nat \ {0} /\ count' \in Nat
    BY <1>1, LogConstants DEF EventQueued, Ids, LogTypeOK
  <2>2. rows' \subseteq Row
    BY <1>0, <1>1, <2>1 DEF EventQueued, Row, LogTypeOK
  <2>3. state' \in [Channels -> StateRecord]
    BY <1>0, <1>1, CachedShape DEF EventQueued
  <2> QED BY <1>1, <2>1, <2>2, <2>3 DEF EventQueued, LogTypeOK
<1>2. ASSUME NEW c \in Channels, EventIgnored(c) \/ EventRefused(c) \/ EventFails(c)
      PROVE  LogTypeOK'
  <2>1. state' \in [Channels -> StateRecord]
    BY <1>0, <1>2, CachedShape DEF EventIgnored, EventRefused, EventFails, logVars
  <2>2. faults' \in 0 .. MaxFaults
    BY <1>2, LogConstants DEF EventIgnored, EventRefused, EventFails, logVars, Fault, LogTypeOK
  <2> QED BY <1>2, <2>1, <2>2 DEF EventIgnored, EventRefused, EventFails, logVars, LogTypeOK
<1>3. ASSUME NEW c \in Channels, SetLoggingOn(c)
      PROVE  LogTypeOK'
  <2>1. state' \in [Channels -> StateRecord]
    BY <1>0, <1>3, StateShape, DayType, Zenon DEF SetLoggingOn
  <2>2. files' \subseteq Files /\ closed' \subseteq Files
    BY <1>0, <1>3, FilesShape DEF SetLoggingOn, LogTypeOK
  <2> QED BY <1>3, <2>1, <2>2 DEF SetLoggingOn, LogTypeOK
<1>4. ASSUME NEW c \in Channels, SetLoggingOnFails(c)
      PROVE  LogTypeOK'
  <2>0. state[c] \in StateRecord /\ state[c].suffix \in Days \cup {NoDay}
    BY <1>0 DEF StateRecord
  <2> DEFINE on == [exists |-> TRUE, known |-> TRUE, enabled |-> TRUE, suffix |-> state[c].suffix]
  <2>4. on \in StateRecord /\ Created(state[c]) \in StateRecord
    BY <2>0, StateShape, Zenon
  <2>5. \/ state' = [state EXCEPT ![c] = Created(state[c])]
        \/ state' = [state EXCEPT ![c] = on]
    BY <1>4, Zenon DEF SetLoggingOnFails
  <2> HIDE DEF on
  <2>1. state' \in [Channels -> StateRecord]
    BY <1>0, <2>4, <2>5, Zenon
  <2>2. faults' \in 0 .. MaxFaults
    BY <1>4, LogConstants DEF SetLoggingOnFails, Fault, LogTypeOK
  <2>3. logging' \subseteq Channels
    BY <1>4, Zenon DEF SetLoggingOnFails, LogTypeOK
  <2> QED BY <1>4, <2>1, <2>2, <2>3, Zenon DEF SetLoggingOnFails, LogTypeOK
<1>5. ASSUME NEW c \in Channels, SetLoggingOff(c)
      PROVE  LogTypeOK'
  <2>1. state' \in [Channels -> StateRecord]
    BY <1>0, <1>5, StateShape, Zenon DEF SetLoggingOff
  <2>2. job' \in Job
    BY <1>5, JobShape, LogConstants DEF SetLoggingOff, JobKind
  <2> QED BY <1>5, <2>1, <2>2, Zenon DEF SetLoggingOff, LogTypeOK
<1>6. ASSUME NEW c \in Channels, Register(c) \/ Unregister(c)
      PROVE  LogTypeOK'
  BY <1>6 DEF Register, Unregister, LogTypeOK
<1>7. CASE StartMaintenance \/ StartShutdownFlush
  <2>1. job' \in Job
    BY <1>0, <1>7, JobShape, LogConstants DEF StartMaintenance, StartShutdownFlush, JobKind
  <2> QED BY <1>7, <2>1 DEF StartMaintenance, StartShutdownFlush, LogTypeOK
<1> QED BY <1>1, <1>2, <1>3, <1>4, <1>5, <1>6, <1>7 DEF LogRequest

-----------------------------------------------------------------------------
(* Durability, step by step                                                *)

(* The four actions that touch the table or the appended lines.            *)
LEMMA TableFootprint ==
  ASSUME LogNext
  PROVE  \/ UNCHANGED <<rows, nextId, lines>>
         \/ \E c \in Channels : EventQueued(c)
         \/ \E r \in job.left : WriteRow(r) \/ WriteFails(r)
         \/ DeleteBatch
<1>1. CASE LogStep
  BY <1>1, Zenon DEF LogStep, Fetch, FlushFails, FinishMaintenance, FinishShutdownFlush,
              FinishSetLoggingOff, SetLoggingOffFails
<1>2. CASE LogRequest
  BY <1>2, Zenon DEF LogRequest, EventIgnored, EventRefused, EventFails, SetLoggingOn,
              SetLoggingOnFails, SetLoggingOff, Register, Unregister, StartMaintenance, logVars
<1>3. CASE StartShutdownFlush \/ Tick \/ ClockBack \/ LogInit \/ LogExit \/ LogCrash
  BY <1>3 DEF StartShutdownFlush, Tick, ClockBack, LogInit, LogExit, LogCrash, ProcessGone
<1> QED BY <1>1, <1>2, <1>3 DEF LogNext

(* What a flush has left to write is in the table.                         *)
LEMMA LeftQueued ==
  ASSUME LogTypeOK, BatchFirst, NEW r \in job.left, NextRow(r)
  PROVE  /\ r \in rows /\ r \in job.batch /\ r \notin Done
         /\ r.id \in Ids /\ r.chan \in Channels /\ r.time \in Times
         /\ job.phase = "write" /\ job.kind # "none"
<1>1. job.phase = "write" /\ job.kind # "none"
  BY DEF NextRow
<1>2. r \in rows /\ r \in job.batch
  BY <1>1 DEF BatchFirst, Pool
<1>3. r \in Row
  BY <1>2 DEF LogTypeOK
<1> QED BY <1>1, <1>2, <1>3 DEF Row, Done

LEMMA IdsStep ==
  ASSUME LogInv, LogNext
  PROVE  IdsFresh'
<1> USE DEF LogInv
<1>1. CASE UNCHANGED <<rows, nextId, lines>>
  BY <1>1 DEF IdsFresh
<1>2. ASSUME NEW c \in Channels, EventQueued(c)
      PROVE  IdsFresh'
  <2>1. rows \subseteq Row /\ nextId \in Nat
    BY DEF LogTypeOK
  <2>2. \A r \in rows : r.id \in Nat /\ r.id < nextId
    BY <2>1, LogConstants DEF Row, Ids, IdsFresh
  <2>3. rows' = rows \cup {[id |-> nextId, chan |-> c, time |-> now]}
        /\ nextId' = nextId + 1 /\ lines' = lines
    BY <1>2 DEF EventQueued
  <2>4. \A r \in rows' : r.id < nextId'
    BY <2>1, <2>2, <2>3
  <2>5. \A i \in Ids : lines'[i] > 0 => i < nextId'
    BY <2>1, <2>3, LogConstants DEF IdsFresh, Ids
  <2>6. \A r, s \in rows' : r.id = s.id => r = s
    BY <2>1, <2>2, <2>3 DEF IdsFresh
  <2> QED BY <2>4, <2>5, <2>6 DEF IdsFresh
<1>3. ASSUME NEW r \in job.left, WriteRow(r) \/ WriteFails(r)
      PROVE  IdsFresh'
  <2>1. NextRow(r) /\ rows' = rows /\ nextId' = nextId
        /\ (lines' = lines \/ lines' = [lines EXCEPT ![r.id] = @ + 1])
    BY <1>3 DEF WriteRow, WriteFails
  <2>2. r \in rows
    BY <2>1, LeftQueued
  <2>3. \A i \in Ids : lines'[i] > 0 => i < nextId'
    BY <2>1, <2>2 DEF IdsFresh, LogTypeOK
  <2> QED BY <2>1, <2>3 DEF IdsFresh
<1>4. CASE DeleteBatch
  BY <1>4 DEF DeleteBatch, IdsFresh
<1> QED BY <1>1, <1>2, <1>3, <1>4, TableFootprint

(* The steps that leave the flush in progress and the table alone, and the *)
(* ones that start or end a flush.                                         *)
LEMMA JobFootprint ==
  ASSUME LogNext
  PROVE  \/ UNCHANGED <<rows, job>>
         \/ \E c \in Channels : EventQueued(c)
         \/ Fetch \/ DeleteBatch \/ FlushFails
         \/ \E r \in job.left : WriteRow(r) \/ WriteFails(r)
         \/ rows' = rows /\ job' = NoJob /\ (job.phase = "after" \/ Idle \/ Fault)
         \/ \E k \in {"maintain", "shutdown"}, n \in {now, now - Batch} :
               Idle /\ rows' = rows /\ job' = NewJob(k, Channels, n)
         \/ \E c \in Channels : Idle /\ rows' = rows /\ job' = NewJob("off", {c}, MaxTime)
<1>1. CASE LogStep
  BY <1>1, Zenon DEF LogStep, FinishMaintenance, FinishShutdownFlush, FinishSetLoggingOff,
              SetLoggingOffFails
<1>2. ASSUME NEW c \in Channels,
             \/ EventIgnored(c) \/ EventRefused(c) \/ EventFails(c) \/ SetLoggingOn(c)
             \/ SetLoggingOnFails(c) \/ Register(c) \/ Unregister(c)
      PROVE  UNCHANGED <<rows, job>>
  BY <1>2 DEF EventIgnored, EventRefused, EventFails, SetLoggingOn, SetLoggingOnFails,
              Register, Unregister, logVars
<1>3. ASSUME NEW c \in Channels, SetLoggingOff(c)
      PROVE  Idle /\ rows' = rows /\ job' = NewJob("off", {c}, MaxTime)
  BY <1>3, Zenon DEF SetLoggingOff
<1>4. CASE StartMaintenance \/ StartShutdownFlush
  BY <1>4, ZenonT(40) DEF StartMaintenance, StartShutdownFlush
<1>5. CASE Tick \/ ClockBack \/ LogInit \/ LogExit \/ LogCrash
  BY <1>5 DEF Tick, ClockBack, LogInit, LogExit, LogCrash, ProcessGone
<1>6. CASE LogRequest
  BY <1>2, <1>3, <1>4, <1>6, Zenon DEF LogRequest
<1> QED BY <1>1, <1>4, <1>5, <1>6, Zenon DEF LogNext

LEMMA BatchStep ==
  ASSUME LogInv, LogNext
  PROVE  BatchFirst'
<1> USE DEF LogInv
<1>0. job \in Job
  BY Zenon DEF LogTypeOK
<1>1. CASE UNCHANGED <<rows, job>>
  BY <1>1 DEF BatchFirst, Pool
<1>2. ASSUME NEW c \in Channels, EventQueued(c)
      PROVE  BatchFirst'
  <2>1. job' = job /\ job.kind = "none" /\ job.phase = "fetch"
    BY <1>2, Zenon DEF EventQueued, Idle, BatchFirst
  <2> QED BY <2>1 DEF BatchFirst
<1>3. CASE Fetch
  <2>1. CASE job' = [job EXCEPT !.phase = "after"]
    BY <1>0, <1>3, <2>1, ZenonT(40) DEF Fetch, BatchFirst, Job
  <2>2. ASSUME NEW B \in SUBSET Pool, IsFirst(B, Pool, Capacity, job.kind),
               job' = [job EXCEPT !.batch = B, !.left = B, !.phase = "write"]
        PROVE  BatchFirst'
    <3>1. /\ job'.kind = job.kind /\ job'.cutoff = job.cutoff /\ job'.chans = job.chans
          /\ job'.batch = B /\ job'.left = B /\ job'.phase = "write"
      BY <1>0, <2>2, Zenon DEF Job
    <3>2. Pool' = Pool
      BY <1>3, <3>1, Zenon DEF Fetch, Pool
    <3>3. \A r \in B : \A s \in Pool \ B : InOrder(job.kind, r, s)
      BY <2>2 DEF IsFirst
    <3> QED BY <1>3, <3>1, <3>2, <3>3, Zenon DEF Fetch, BatchFirst
  <2> QED BY <1>3, <2>1, <2>2, ZenonT(40) DEF Fetch
<1>4. CASE DeleteBatch
  <2>1. /\ job'.kind = job.kind /\ job'.cutoff = job.cutoff /\ job'.chans = job.chans
        /\ job'.phase = "fetch"
    BY <1>0, <1>4 DEF DeleteBatch, Job
  <2> QED BY <1>4, <2>1 DEF DeleteBatch, BatchFirst
<1>5. ASSUME job.kind # "none", job' = [job EXCEPT !.phase = "after"]
      PROVE  BatchFirst'
  <2>1. /\ job'.kind = job.kind /\ job'.cutoff = job.cutoff /\ job'.chans = job.chans
        /\ job'.phase = "after"
    BY <1>0, <1>5 DEF Job
  <2> QED BY <1>5, <2>1 DEF BatchFirst
<1>6. CASE FlushFails
  BY <1>5, <1>6 DEF FlushFails
<1>7. ASSUME NEW r \in job.left, WriteFails(r)
      PROVE  BatchFirst'
  BY <1>5, <1>7 DEF WriteFails, NextRow
<1>8. ASSUME NEW r \in job.left, WriteRow(r)
      PROVE  BatchFirst'
  <2>1. job.phase = "write" /\ job.kind # "none" /\ rows' = rows
    BY <1>8 DEF WriteRow, NextRow
  <2>2. /\ job'.kind = job.kind /\ job'.cutoff = job.cutoff /\ job'.chans = job.chans
        /\ job'.batch = job.batch /\ job'.left = job.left \ {r}
        /\ job'.phase \in {"write", "delete"}
        /\ job'.phase = "delete" => job'.left = {}
    BY <1>0, <1>8 DEF WriteRow, Job
  <2>3. Pool' = Pool
    BY <2>1, <2>2 DEF Pool
  <2> QED BY <2>1, <2>2, <2>3 DEF BatchFirst
<1>9. CASE job' = NoJob
  BY <1>9, EmptyJob DEF BatchFirst
<1>10. ASSUME NEW k \in {"maintain", "shutdown"}, NEW n, job' = NewJob(k, Channels, n)
       PROVE  BatchFirst'
  BY <1>10 DEF NewJob, BatchFirst
<1>11. ASSUME NEW c \in Channels, job' = NewJob("off", {c}, MaxTime)
       PROVE  BatchFirst'
  BY <1>11 DEF NewJob, BatchFirst
<1> QED BY <1>1, <1>2, <1>3, <1>4, <1>6, <1>7, <1>8, <1>9, <1>10, <1>11, JobFootprint, Zenon

(* Faults are only ever added to.                                          *)
LEMMA FaultsGrow ==
  ASSUME LogTypeOK, LogNext
  PROVE  faults \in Nat /\ faults' \in {faults, faults + 1}
<1>0. faults \in Nat
  BY LogConstants, SMTT(20) DEF LogTypeOK
<1>1. CASE LogStep
  BY <1>0, <1>1, Zenon DEF LogStep, Fetch, DeleteBatch, FlushFails, WriteRow, WriteFails, FinishMaintenance,
              FinishShutdownFlush, FinishSetLoggingOff, SetLoggingOffFails, Fault
<1>2. CASE LogRequest
  BY <1>0, <1>2, Zenon DEF LogRequest, EventIgnored, EventQueued, EventRefused, EventFails, SetLoggingOn,
              SetLoggingOnFails, SetLoggingOff, Register, Unregister, StartMaintenance, logVars,
              Fault
<1>3. CASE StartShutdownFlush \/ Tick \/ ClockBack \/ LogInit \/ LogExit \/ LogCrash
  BY <1>0, <1>3 DEF StartShutdownFlush, Tick, ClockBack, LogInit, LogExit, LogCrash, ProcessGone, Fault
<1> QED BY <1>0, <1>1, <1>2, <1>3 DEF LogNext

(* When the table and the lines stay, and either no row is in hand or a    *)
(* fault is counted, the flush may forget what it has done.                *)
LEMMA ForgetDone ==
  ASSUME LogInv, LogNext, UNCHANGED <<rows, lines>>, Done' = {}, Done = {} \/ Fault
  PROVE  LinesCounted'
<1>1. faults \in Nat /\ faults' \in {faults, faults + 1}
  BY FaultsGrow DEF LogInv
<1>2. \A i \in Ids : lines[i] \in Nat /\ lines[i] <= 1 + faults
  BY DEF LogInv, LogTypeOK, LinesCounted, RepeatsNeedFaults
<1>3. RepeatsNeedFaults'
  BY <1>1, <1>2 DEF RepeatsNeedFaults
<1>4. \A r \in rows : r.id \in Ids
  BY DEF LogInv, LogTypeOK, Row
<1>5. \A r \in rows : lines[r.id] <= faults'
  <2>1. CASE Done = {}
    BY <1>1, <1>2, <1>4, <2>1 DEF LogInv, LinesCounted
  <2>2. CASE Fault
    BY <1>1, <1>2, <1>4, <2>2 DEF Fault
  <2> QED BY <2>1, <2>2
<1> QED BY <1>3, <1>5 DEF LinesCounted

LEMMA LinesStep ==
  ASSUME LogInv, LogNext
  PROVE  LinesCounted'
<1>1. faults \in Nat /\ faults' \in {faults, faults + 1}
  BY FaultsGrow DEF LogInv
<1>2. \A i \in Ids : lines[i] \in Nat /\ lines[i] <= 1 + faults
  BY DEF LogInv, LogTypeOK, LinesCounted, RepeatsNeedFaults
<1>3. /\ \A r \in rows : r.id \in Ids
      /\ job \in Job /\ rows \subseteq Row
  BY DEF LogInv, LogTypeOK, Row
<1>4. CASE UNCHANGED <<rows, lines, job>>
  <2>1. Done' = Done
    BY <1>4 DEF Done
  <2>2. \A r \in rows \ Done : lines[r.id] <= faults'
    BY <1>1, <1>2, <1>3 DEF LogInv, LinesCounted
  <2>3. RepeatsNeedFaults'
    BY <1>1, <1>2, <1>4 DEF RepeatsNeedFaults
  <2> QED BY <1>4, <2>1, <2>2, <2>3 DEF LogInv, LinesCounted
<1>5. ASSUME NEW c \in Channels, EventQueued(c)
      PROVE  LinesCounted'
  <2>1. /\ rows' = rows \cup {[id |-> nextId, chan |-> c, time |-> now]}
        /\ lines' = lines /\ job' = job /\ faults' = faults /\ nextId \in Ids
    BY <1>5, LogConstants, SMT, SMTT(30) DEF EventQueued, Ids, LogInv, LogTypeOK
  <2>2. Done = {} /\ Done' = {}
    BY <1>5, <2>1 DEF EventQueued, Idle, Done, LogInv, BatchFirst
  <2>3. lines[nextId] = 0
    BY <1>2, <2>1 DEF LogInv, IdsFresh, Ids
  <2>4. \A r \in rows' : lines'[r.id] <= faults'
    BY <1>1, <2>1, <2>2, <2>3 DEF LogInv, LinesCounted
  <2>5. RepeatsNeedFaults'
    BY <1>2, <2>1 DEF RepeatsNeedFaults
  <2> QED BY <2>2, <2>4, <2>5 DEF LinesCounted
<1>6. CASE Fetch
  <2>1. Done = {} /\ rows' = rows /\ lines' = lines
    BY <1>6, ZenonT(40) DEF Fetch, Done
  <2>2. Done' = {}
    BY <1>3, <1>6, Zenon DEF Fetch, Done, Job
  <2> QED BY <2>1, <2>2, ForgetDone, Zenon
<1>7. CASE DeleteBatch
  <2>1. Done = job.batch /\ rows' \subseteq rows /\ lines' = lines /\ faults' = faults
    BY <1>7 DEF DeleteBatch, Done, LogInv, BatchFirst
  <2>2. Done' = {}
    BY <1>3, <1>7 DEF DeleteBatch, Done, Job
  <2>3. \A r \in job.batch : Covered(r)
    <3> TAKE r \in job.batch
    <3>1. r \in rows /\ r \in Row /\ r.chan \in job.chans
      BY <1>3, <1>7 DEF LogInv, BatchFirst, DeleteBatch, Pool
    <3>2. r.id \in Int /\ r.time \in Int
      BY <3>1, LogConstants DEF Row, Ids, Times
    <3> QED BY <3>1, <3>2 DEF Covered, Before
  <2>4. \A r \in rows' : r \in rows \ Done
    BY <1>7, <2>1, <2>3 DEF DeleteBatch
  <2>5. \A r \in rows' : lines'[r.id] <= faults'
    BY <2>1, <2>4 DEF LogInv, LinesCounted
  <2> QED BY <2>1, <2>2, <2>5 DEF LogInv, LinesCounted, RepeatsNeedFaults
<1>8. CASE FlushFails
  <2>1. Fault /\ rows' = rows /\ lines' = lines
    BY <1>8 DEF FlushFails
  <2>2. Done' = {}
    BY <1>3, <1>8 DEF FlushFails, Done, Job
  <2> QED BY <2>1, <2>2, ForgetDone
<1>9. ASSUME NEW r \in job.left, WriteRow(r)
      PROVE  LinesCounted'
  <2>1. r \in rows /\ r \in job.batch /\ r \notin Done /\ r.id \in Ids /\ job.phase = "write"
    BY <1>9, LeftQueued DEF WriteRow, LogInv
  <2>2. rows' = rows /\ faults' = faults /\ lines' = [lines EXCEPT ![r.id] = @ + 1]
    BY <1>9 DEF WriteRow
  <2>3. job'.batch = job.batch /\ job'.left = job.left \ {r} /\ job'.phase \in {"write", "delete"}
    BY <1>3, <1>9 DEF WriteRow, Job
  <2>4. Done' = Done \cup {r}
    BY <1>9, <2>1, <2>3 DEF Done
  <2>5. lines[r.id] <= faults
    BY <2>1 DEF LogInv, LinesCounted
  <2>6. \A i \in Ids : lines'[i] = IF i = r.id THEN lines[i] + 1 ELSE lines[i]
    BY <2>2 DEF LogInv, LogTypeOK
  <2>7. RepeatsNeedFaults'
    BY <1>1, <1>2, <2>1, <2>2, <2>5, <2>6, SMT, SMTT(30) DEF RepeatsNeedFaults
  <2>8. Done \subseteq rows
    BY <2>1 DEF Done, LogInv, BatchFirst, Pool
  <2>9. \A s \in Done' : lines'[s.id] > 0
    BY <1>2, <1>3, <2>1, <2>4, <2>6, <2>8 DEF LogInv, LinesCounted
  <2>10. \A s \in rows \ Done' : lines'[s.id] <= faults
    <3> TAKE s \in rows \ Done'
    <3>1. s.id # r.id /\ s.id \in Ids /\ lines[s.id] <= faults
      BY <1>3, <2>1, <2>4 DEF LogInv, IdsFresh, LinesCounted
    <3> QED BY <2>6, <3>1
  <2> QED BY <2>2, <2>7, <2>9, <2>10 DEF LinesCounted
<1>10. ASSUME NEW r \in job.left, WriteFails(r)
       PROVE  LinesCounted'
  <2>1. r \in rows /\ r \notin Done /\ r.id \in Ids
    BY <1>10, LeftQueued DEF WriteFails, LogInv
  <2>2. rows' = rows /\ faults' = faults + 1
        /\ (lines' = lines \/ lines' = [lines EXCEPT ![r.id] = @ + 1])
    BY <1>10 DEF WriteFails, Fault
  <2>3. Done' = {}
    BY <1>3, <1>10 DEF WriteFails, Done, Job
  <2>4. lines[r.id] <= faults
    BY <2>1 DEF LogInv, LinesCounted
  <2>5. \A i \in Ids : lines'[i] \in {lines[i], IF i = r.id THEN lines[i] + 1 ELSE lines[i]}
    BY <2>2 DEF LogInv, LogTypeOK
  <2>6. \A i \in Ids : lines'[i] <= faults'
    BY <1>1, <1>2, <2>1, <2>2, <2>4, <2>5
  <2>7. faults' \in Nat
    BY <1>1, <2>2
  <2>8. RepeatsNeedFaults'
    <3>1. \A i \in Ids : lines'[i] \in Nat
      BY <1>2, <2>5
    <3> QED BY <2>6, <2>7, <3>1 DEF RepeatsNeedFaults
  <2> QED BY <1>3, <2>2, <2>3, <2>6, <2>8 DEF LinesCounted
<1>11. ASSUME UNCHANGED <<rows, lines>>, job' = NoJob,
              job.phase = "after" \/ Idle \/ Fault
       PROVE  LinesCounted'
  <2>1. Done = {} \/ Fault
    BY <1>11 DEF Idle, Done, LogInv, BatchFirst
  <2>2. Done' = {}
    BY <1>11, EmptyJob DEF Done
  <2> QED BY <1>11, <2>1, <2>2, ForgetDone, SMT, SMTT(30)
<1>12. ASSUME UNCHANGED <<rows, lines>>, Idle, NEW k, NEW C, NEW n, job' = NewJob(k, C, n)
       PROVE  LinesCounted'
  <2>1. Done = {}
    BY <1>12 DEF Idle, Done, LogInv, BatchFirst
  <2>2. Done' = {}
    BY <1>12 DEF Done, NewJob
  <2> QED BY <1>12, <2>1, <2>2, ForgetDone
<1>13. CASE UNCHANGED <<rows, nextId, lines>>
  BY <1>4, <1>5, <1>6, <1>7, <1>8, <1>9, <1>10, <1>11, <1>12, <1>13, JobFootprint, Zenon
<1> QED BY <1>5, <1>7, <1>9, <1>10, <1>13, TableFootprint

(* What the delete statement removes is the batch that was written: no     *)
(* row outside the batch is at or before a row of the batch.               *)
LEMMA CoveredIsBatch ==
  ASSUME LogTypeOK, IdsFresh, BatchFirst, job.kind # "none", job.phase \in {"write", "delete"}
  PROVE  {r \in rows : Covered(r)} = job.batch
<1>1. /\ job.batch \subseteq Pool /\ Pool \subseteq rows /\ rows \subseteq Row
      /\ job.kind \in {"maintain", "shutdown", "off"} /\ job.cutoff \in Int
  BY DEF LogTypeOK, BatchFirst, Pool, Job, JobKind
<1>2. \A r \in rows : r.id \in Int /\ r.time \in Int /\ r.time <= MaxTime /\ r.chan \in Channels
  BY <1>1, LogConstants DEF Row, Ids, Times
<1>3. ASSUME NEW r \in rows, Covered(r)
      PROVE  r \in job.batch
  <2>1. PICK s \in job.batch :
           IF job.kind = "off" THEN r.chan \in job.chans /\ r.id <= s.id ELSE Before(r, s)
    BY <1>3 DEF Covered
  <2>2. s \in rows /\ s.time <= job.cutoff
    BY <1>1 DEF Pool
  <2>3. r \in Pool
    <3>1. CASE job.kind = "off"
      BY <1>2, <2>1, <3>1 DEF Pool, BatchFirst
    <3>2. CASE job.kind # "off"
      <4>1. job.chans = Channels
        BY <1>1, <3>2 DEF BatchFirst
      <4>2. r.time <= s.time
        BY <1>2, <2>1, <2>2, <3>2 DEF Before
      <4> QED BY <1>1, <1>2, <2>2, <4>1, <4>2, SMT, SMTT(30) DEF Pool
    <3> QED BY <3>1, <3>2, Zenon
  <2>4. ASSUME r \notin job.batch PROVE FALSE
    <3>1. InOrder(job.kind, s, r)
      BY <2>3, <2>4 DEF BatchFirst
    <3>2. r.id = s.id
      <4>1. r.id \in Int /\ s.id \in Int /\ r.time \in Int /\ s.time \in Int
        BY <1>2, <2>2
      <4> QED BY <2>1, <3>1, <4>1 DEF InOrder, Before
    <3>3. r = s
      BY <2>2, <3>2 DEF IdsFresh
    <3> QED BY <2>4, <3>3
  <2> QED BY <2>4
<1>4. ASSUME NEW r \in job.batch
      PROVE  r \in rows /\ Covered(r)
  <2>1. r \in rows /\ r.chan \in job.chans
    BY <1>1 DEF Pool
  <2> QED BY <1>2, <2>1 DEF Covered, Before
<1> QED BY <1>3, <1>4

(* The three actions besides insertion and deletion that touch the count.  *)
LEMMA CountFootprint ==
  ASSUME LogNext
  PROVE  \/ UNCHANGED <<rows, count, running>>
         \/ \E c \in Channels : EventQueued(c)
         \/ DeleteBatch \/ LogInit \/ LogExit \/ LogCrash
<1>1. CASE LogStep
  BY <1>1, Zenon DEF LogStep, Fetch, FlushFails, WriteRow, WriteFails, FinishMaintenance,
              FinishShutdownFlush, FinishSetLoggingOff, SetLoggingOffFails
<1>2. CASE LogRequest
  BY <1>2, Zenon DEF LogRequest, EventIgnored, EventRefused, EventFails, SetLoggingOn,
              SetLoggingOnFails, SetLoggingOff, Register, Unregister, StartMaintenance, logVars
<1>3. CASE StartShutdownFlush \/ Tick \/ ClockBack
  BY <1>3 DEF StartShutdownFlush, Tick, ClockBack
<1> QED BY <1>1, <1>2, <1>3, Zenon DEF LogNext

-----------------------------------------------------------------------------
(* Lines and the end of a day                                              *)

(* The queue of an undisturbed channel is in day order: rows that are yet  *)
(* to be written lie in the open day or later, after every closed day.     *)
InDayOrder(c) ==
    /\ state[c].suffix <= Day(now)
    /\ \A d \in Days : <<c, d>> \in closed => d < Day(now)
    /\ \A r \in Queued(c) : r.time <= now
    /\ \A r \in Queued(c) \ Done : state[c].suffix <= Day(r.time)
    /\ \A r \in Queued(c) \ Done : \A d \in Days : <<c, d>> \in closed => d < Day(r.time)
    /\ \A r, s \in Queued(c) : r.id <= s.id => r.time <= s.time

OrderInv == \A c \in Channels \ disturbed : InDayOrder(c)

LEMMA DayFacts ==
  ASSUME LogTypeOK
  PROVE  /\ now \in Times /\ Day(now) \in Nat /\ Day(now) \in Days
         /\ \A r \in rows : /\ r.time \in Times /\ r.time \in Nat /\ Day(r.time) \in Nat
                            /\ Day(r.time) \in Days /\ r.id \in Nat
         /\ \A c \in Channels : state[c].suffix \in Int /\ state[c].suffix \in Days \cup {NoDay}
         /\ \A d \in Days : d \in Nat
<1>1. Day(MaxTime) \in Nat
  BY DayType, LogConstants DEF Times
<1>2. \A d \in Days : d \in Nat
  BY <1>1 DEF Days
<1>3. now \in Times /\ Day(now) \in Nat /\ Day(now) \in Days
  BY DayType DEF LogTypeOK
<1>4. \A r \in rows : r.time \in Times /\ r.id \in Nat /\ r.time \in Nat
  BY LogConstants DEF LogTypeOK, Row, Ids, Times
<1>5. \A c \in Channels : state[c].suffix \in Days \cup {NoDay}
  BY DEF LogTypeOK, StateRecord
<1>6. \A c \in Channels : state[c].suffix \in Int
  BY <1>2, <1>5, SMT, SMTT(30) DEF NoDay
<1> QED BY <1>2, <1>3, <1>4, <1>5, <1>6, DayType

(* A step that writes no line, opens no day and takes no event.            *)
Quiet ==
    /\ UNCHANGED <<now, rows, disturbed>>
    /\ closed' \subseteq closed
    /\ Done' = Done
    /\ \A c \in Channels : state'[c].suffix \in {state[c].suffix, NoDay}

LEMMA OrderFootprint ==
  ASSUME LogInv, LogNext
  PROVE  \/ disturbed' = Channels
         \/ Quiet
         \/ \E c \in Channels : EventQueued(c) \/ SetLoggingOn(c)
         \/ \E r \in job.left : WriteRow(r)
         \/ DeleteBatch \/ FinishMaintenance \/ Tick
<1>0. job \in Job /\ state \in [Channels -> StateRecord]
  BY DEF LogInv, LogTypeOK
<1>1. CASE FlushFails \/ ClockBack \/ LogCrash \/ \E r \in job.left : WriteFails(r)
  BY <1>1 DEF FlushFails, ClockBack, LogCrash, WriteFails
<1>2. ASSUME NEW c \in Channels,
             EventIgnored(c) \/ EventRefused(c) \/ EventFails(c) \/ Register(c) \/ Unregister(c)
             \/ SetLoggingOnFails(c)
      PROVE  Quiet
  <2>1. UNCHANGED <<now, rows, disturbed, closed, job>>
    BY <1>2, ZenonT(40) DEF EventIgnored, EventRefused, EventFails, Register, Unregister,
                SetLoggingOnFails, logVars
  <2> DEFINE on == [exists |-> TRUE, known |-> TRUE, enabled |-> TRUE, suffix |-> state[c].suffix]
  <2>2. \/ state' = state
        \/ state' = [state EXCEPT ![c] = Cached(c)]
        \/ state' = [state EXCEPT ![c] = Created(state[c])]
        \/ state' = [state EXCEPT ![c] = on]
    BY <1>2, ZenonT(40) DEF EventIgnored, EventRefused, EventFails, Register, Unregister,
                SetLoggingOnFails, logVars, on
  <2>3. Cached(c).suffix \in {NoDay, state[c].suffix}
    BY CachedShape, Zenon DEF LogInv
  <2>4. Created(state[c]).suffix = state[c].suffix /\ on.suffix = state[c].suffix
    BY <1>0, StateShape, Zenon
  <2> HIDE DEF on
  <2>5. \A x \in Channels : state'[x].suffix \in {state[x].suffix, NoDay}
    BY <1>0, <2>2, <2>3, <2>4, ZenonT(40)
  <2> QED BY <2>1, <2>5, Zenon DEF Quiet, Done
<1>3. ASSUME NEW c \in Channels, SetLoggingOff(c)
      PROVE  Quiet
  <2>1. UNCHANGED <<now, rows, disturbed, closed>> /\ Idle
        /\ state' = [state EXCEPT ![c] = Created(state[c])]
    BY <1>3, Zenon DEF SetLoggingOff
  <2>2. Created(state[c]).suffix = state[c].suffix
    BY <1>0, StateShape, Zenon
  <2>3. \A x \in Channels : state'[x].suffix \in {state[x].suffix, NoDay}
    BY <1>0, <2>1, <2>2, ZenonT(40)
  <2>4. Done = {}
    BY <2>1, ZenonT(40) DEF Done, Idle, LogInv, BatchFirst
  <2>5. job'.phase = "fetch"
    BY <1>3, Zenon DEF SetLoggingOff, NewJob
  <2> QED BY <2>1, <2>3, <2>4, <2>5, ZenonT(40) DEF Quiet, Done
<1>4. CASE StartMaintenance \/ StartShutdownFlush
  <2>1. UNCHANGED <<now, rows, disturbed, closed, state>> /\ Idle
    BY <1>4 DEF StartMaintenance, StartShutdownFlush
  <2>2. Done = {}
    BY <2>1 DEF Done, Idle, LogInv, BatchFirst
  <2>3. job'.phase = "fetch"
    <3>1. CASE StartMaintenance
      BY <3>1 DEF StartMaintenance, NewJob
    <3>2. CASE StartShutdownFlush
      BY <3>2, Zenon DEF StartShutdownFlush, NewJob
    <3> QED BY <1>4, <3>1, <3>2
  <2> QED BY <2>1, <2>2, <2>3 DEF Quiet, Done
<1>5. CASE Fetch
  <2>1. UNCHANGED <<now, rows, disturbed, closed, state>>
    BY <1>5, ZenonT(40) DEF Fetch
  <2>2. Done = {} /\ Done' = {}
    BY <1>0, <1>5, Zenon DEF Fetch, Done, Job
  <2> QED BY <2>1, <2>2, Zenon DEF Quiet
<1>6. CASE FinishShutdownFlush \/ SetLoggingOffFails
  <2>1. UNCHANGED <<now, rows, disturbed, closed, state>>
    BY <1>6, Zenon DEF FinishShutdownFlush, SetLoggingOffFails
  <2>2. Done = {} /\ Done' = {}
    BY <1>6, EmptyJob DEF FinishShutdownFlush, SetLoggingOffFails, Done
  <2> QED BY <2>1, <2>2 DEF Quiet
<1>7. ASSUME NEW c \in Channels, FinishSetLoggingOff(c)
      PROVE  Quiet
  <2>1. UNCHANGED <<now, rows, disturbed, closed>>
    BY <1>7 DEF FinishSetLoggingOff
  <2>2. Done = {} /\ Done' = {}
    BY <1>7, EmptyJob DEF FinishSetLoggingOff, Done
  <2>3. \A x \in Channels : state'[x].suffix = state[x].suffix
    <3> TAKE x \in Channels
    <3>1. state[x] \in StateRecord /\ state' = [state EXCEPT ![c].known = TRUE, ![c].enabled = FALSE]
      BY <1>0, <1>7 DEF FinishSetLoggingOff
    <3>2. state'[x] = IF x = c THEN [state[x] EXCEPT !.known = TRUE, !.enabled = FALSE] ELSE state[x]
      BY <1>0, <3>1, Zenon
    <3>3. [state[x] EXCEPT !.known = TRUE, !.enabled = FALSE].suffix = state[x].suffix
      BY <3>1, StateShape, Zenon
    <3> QED BY <3>2, <3>3
  <2> QED BY <2>1, <2>2, <2>3 DEF Quiet
<1>8. CASE LogInit \/ LogExit
  <2>1. UNCHANGED <<now, rows, disturbed, closed>> /\ state' = [c \in Channels |-> NoState]
    BY <1>8, ZenonT(40) DEF LogInit, LogExit, ProcessGone
  <2>2. Done = {} /\ Done' = {}
    BY <1>8, EmptyJob DEF LogInit, LogExit, ProcessGone, Idle, Done, LogInv, BatchFirst
  <2>3. \A c \in Channels : state'[c].suffix = NoDay
    BY <2>1, Zenon DEF NoState
  <2> QED BY <2>1, <2>2, <2>3 DEF Quiet
<1>9. CASE LogStep
  BY <1>1, <1>5, <1>6, <1>7, <1>9, ZenonT(40) DEF LogStep
<1>10. CASE LogRequest
  BY <1>2, <1>3, <1>4, <1>10 DEF LogRequest
<1> QED BY <1>1, <1>4, <1>8, <1>9, <1>10 DEF LogNext

(* The row a flush writes next is not later than any other pending row of  *)
(* its channel.                                                            *)
LEMMA NextIsEarliest ==
  ASSUME LogInv, NEW r \in job.left, NextRow(r), InDayOrder(r.chan),
         NEW q \in Queued(r.chan) \ Done
  PROVE  r.time <= q.time
<1>1. /\ r \in rows /\ r \in job.batch /\ r \in Pool /\ job.phase = "write"
      /\ q \in rows /\ q.chan = r.chan
  BY LeftQueued, Zenon DEF LogInv, BatchFirst, NextRow, Queued
<1>2. r.time \in Nat /\ q.time \in Nat /\ r.id \in Nat /\ q.id \in Nat
  BY <1>1, DayFacts DEF LogInv
<1>3. ASSUME InOrder(job.kind, r, q)
      PROVE  r.time <= q.time
  <2>1. CASE job.kind = "off"
    <3>1. r.id <= q.id
      BY <1>3, <2>1 DEF InOrder
    <3> QED BY <1>1, <3>1 DEF InDayOrder, Queued
  <2>2. CASE job.kind # "off"
    BY <1>2, <1>3, <2>2, SMT, SMTT(30) DEF InOrder, Before
  <2> QED BY <2>1, <2>2, Zenon
<1>4. CASE q \in job.batch
  <2>1. q \in job.left
    BY <1>1, <1>4, ZenonT(40) DEF Done
  <2> QED BY <1>3, <2>1 DEF NextRow
<1>5. CASE q \in Pool \ job.batch
  BY <1>1, <1>3, <1>5 DEF LogInv, BatchFirst
<1>6. CASE q \notin Pool
  <2>1. r.time <= job.cutoff /\ ~(q.time <= job.cutoff) /\ job.cutoff \in Int
    BY <1>1, <1>6 DEF Pool, LogInv, LogTypeOK, Job
  <2> QED BY <1>2, <2>1
<1> QED BY <1>4, <1>5, <1>6, ZenonT(40)

(* Writing the earliest pending row closes only days before the rows left. *)
LEMMA WriteKeepsOrder ==
  ASSUME LogInv, OrderInv, NEW r \in job.left, WriteRow(r), NEW c \in Channels \ disturbed
  PROVE  InDayOrder(c)'
<1>0. /\ state \in [Channels -> StateRecord] /\ job \in Job /\ LogTypeOK /\ InDayOrder(c)
  BY DEF LogInv, LogTypeOK, OrderInv
<1>1. r \in rows /\ r \in job.batch /\ r \notin Done /\ job.phase = "write" /\ r.chan \in Channels
  BY <1>0, LeftQueued DEF WriteRow, LogInv
<1>2. UNCHANGED <<now, rows>> /\ NextRow(r)
      /\ closed' = closed \cup Left(r.chan, Day(r.time))
      /\ state' = [state EXCEPT ![r.chan] = OnDay(state[r.chan], Day(r.time))]
  BY <1>1 DEF WriteRow
<1>3. Done' = Done \cup {r}
  <2>1. job'.batch = job.batch /\ job'.left = job.left \ {r} /\ job'.phase \in {"write", "delete"}
    BY <1>0, Zenon DEF WriteRow, Job
  <2> QED BY <1>1, <2>1 DEF Done
<1>4. Queued(c)' = Queued(c)
  BY <1>2 DEF Queued
<1>5. CASE c # r.chan
  <2>1. state'[c] = state[c]
    BY <1>0, <1>2, <1>5, Zenon
  <2>2. \A d \in Days : <<c, d>> \in closed' => <<c, d>> \in closed
    BY <1>2, <1>5, ZenonT(40) DEF Left
  <2> QED BY <1>0, <1>2, <1>3, <1>4, <2>1, <2>2, Zenon DEF InDayOrder
<1>6. CASE c = r.chan
  <2>1. state'[c].suffix = Day(r.time)
    <3>1. Day(r.time) \in Days /\ state[c] \in StateRecord
      BY <1>0, <1>1, DayFacts, Zenon
    <3>2. OnDay(state[c], Day(r.time)).suffix = Day(r.time)
      BY <3>1, StateShape, ZenonT(40)
    <3>3. state'[c] = OnDay(state[c], Day(r.time))
      BY <1>0, <1>2, <1>6, ZenonT(40)
    <3> QED BY <3>2, <3>3, Zenon
  <2>2. r \in Queued(c) \ Done /\ Day(r.time) \in Nat /\ Day(now) \in Nat
        /\ state[c].suffix \in Int /\ state[c].suffix \in Days \cup {NoDay}
    BY <1>0, <1>1, <1>6, DayFacts, ZenonT(40) DEF Queued
  <2>3. Day(r.time) <= Day(now) /\ state[c].suffix <= Day(r.time)
    BY <1>0, <1>1, <2>2, DayFacts, DayMonotone, Zenon DEF InDayOrder
  <2>4. ASSUME NEW q \in Queued(c) \ Done
        PROVE  Day(r.time) <= Day(q.time) /\ Day(q.time) \in Int
    <3>1. r.time <= q.time
      BY <1>0, <1>2, <1>6, NextIsEarliest, Zenon
    <3>2. q \in rows
      BY Zenon DEF Queued
    <3> QED BY <1>0, <1>1, <3>1, <3>2, DayFacts, DayMonotone, SMT, SMTT(30)
  <2>5. ASSUME NEW d \in Days, <<c, d>> \in closed'
        PROVE  <<c, d>> \in closed \/ (d = state[c].suffix /\ d < Day(r.time))
    <3>1. CASE <<c, d>> \in Left(r.chan, Day(r.time))
      <4>1. d = state[c].suffix /\ state[c].suffix # Day(r.time)
        BY <1>6, <3>1, Zenon DEF Left
      <4>2. Day(r.time) \in Int
        BY <2>2
      <4>3. state[c].suffix < Day(r.time)
        BY <2>2, <2>3, <4>1, <4>2, LessWhenDifferent, Zenon
      <4> QED BY <4>1, <4>3, Zenon
    <3> QED BY <1>2, <2>5, <3>1
  <2>6. \A d \in Days : d \in Nat
    BY <1>0, DayFacts, Zenon
  <2>7. \A d \in Days : <<c, d>> \in closed' => d < Day(now)
    <3> TAKE d \in Days
    <3>1. CASE <<c, d>> \in closed
      BY <1>0, <3>1 DEF InDayOrder
    <3>2. CASE d < Day(r.time)
      <4>1. d \in Int /\ Day(r.time) \in Int /\ Day(now) \in Int
        BY <2>2, <2>6, SMT, SMTT(30)
      <4> QED BY <2>3, <3>2, <4>1, LessThenLessOrEqual, Zenon
    <3> QED BY <2>5, <3>1, <3>2, Zenon
  <2>8. \A q \in Queued(c) \ Done' : Day(r.time) <= Day(q.time)
    BY <1>3, <2>4, Zenon
  <2>9. ASSUME NEW q \in Queued(c) \ Done', NEW d \in Days, <<c, d>> \in closed'
        PROVE  d < Day(q.time)
    <3>1. q \in Queued(c) \ Done
      BY <1>3, ZenonT(40)
    <3>2. CASE <<c, d>> \in closed
      BY <1>0, <3>1, <3>2 DEF InDayOrder
    <3>3. CASE d < Day(r.time)
      <4>1. Day(r.time) <= Day(q.time) /\ Day(q.time) \in Int
        BY <2>4, <3>1, ZenonT(40)
      <4>2. d \in Int /\ Day(r.time) \in Int
        BY <2>2, <2>6
      <4> QED BY <3>3, <4>1, <4>2, LessThenLessOrEqual, Zenon
    <3> QED BY <2>5, <2>9, <3>2, <3>3, Zenon
  <2> QED BY <1>0, <1>2, <1>4, <2>1, <2>3, <2>7, <2>8, <2>9, Zenon DEF InDayOrder
<1> QED BY <1>5, <1>6, ZenonT(40)

LEMMA QueueKeepsOrder ==
  ASSUME LogInv, OrderInv, NEW e \in Channels, EventQueued(e), NEW c \in Channels \ disturbed
  PROVE  InDayOrder(c)'
<1> DEFINE new == [id |-> nextId, chan |-> e, time |-> now]
<1>0. /\ state \in [Channels -> StateRecord] /\ LogTypeOK /\ InDayOrder(c) /\ new.id = nextId
      /\ new.chan = e /\ new.time = now /\ nextId \in Nat
  BY DEF LogInv, LogTypeOK, OrderInv
<1>1. /\ UNCHANGED <<now, closed, job>> /\ Idle
      /\ rows' = rows \cup {new}
      /\ state' = [state EXCEPT ![e] = Cached(e)]
  BY Zenon DEF EventQueued
<1> HIDE DEF new
<1>2. Done = {} /\ Done' = {}
  BY <1>1, Zenon DEF Done, Idle, LogInv, BatchFirst
<1>3. Day(now) \in Nat /\ now \in Nat /\ state[c].suffix \in Int
  BY <1>0, DayFacts, LogConstants DEF Times
<1>4. state'[c].suffix \in {state[c].suffix, NoDay}
  BY <1>0, <1>1, CachedShape
<1>5. \A r \in Queued(c)' : r \in Queued(c) \/ r = new
  BY <1>1, Zenon DEF Queued
<1>6. \A r \in Queued(c) : r.id < nextId /\ r.id \in Nat /\ Day(r.time) \in Nat /\ r.time \in Nat
  BY <1>0, DayFacts, Zenon DEF Queued, LogInv, IdsFresh
<1>7. state'[c].suffix <= Day(now)
  <2>1. state[c].suffix <= Day(now) /\ NoDay <= Day(now)
    BY <1>0, <1>3, NoDayIsFirst DEF InDayOrder
  <2> QED BY <1>4, <2>1
<1>8. \A r \in Queued(c)' : r.time <= now
  BY <1>0, <1>3, <1>5, SMT, SMTT(30) DEF InDayOrder
<1>9. \A r \in Queued(c)' : state'[c].suffix <= Day(r.time)
  <2> TAKE r \in Queued(c)'
  <2>1. CASE r = new
    BY <1>0, <1>7, <2>1, Zenon
  <2>2. CASE r \in Queued(c)
    <3>1. state[c].suffix <= Day(r.time) /\ NoDay <= Day(r.time)
      BY <1>0, <1>2, <1>6, <2>2, NoDayIsFirst, Zenon DEF InDayOrder
    <3> QED BY <1>4, <3>1
  <2> QED BY <1>5, <2>1, <2>2, Zenon
<1>10. \A r \in Queued(c)' : \A d \in Days : <<c, d>> \in closed => d < Day(r.time)
  BY <1>0, <1>2, <1>5 DEF InDayOrder
<1>11. \A r, s \in Queued(c)' : r.id <= s.id => r.time <= s.time
  <2> TAKE r, s \in Queued(c)'
  <2>1. CASE r \in Queued(c) /\ s \in Queued(c)
    BY <1>0, <2>1 DEF InDayOrder
  <2>2. CASE s = new
    BY <1>0, <1>8, <2>2
  <2>3. CASE r = new /\ s \in Queued(c)
    BY <1>0, <1>6, <2>3
  <2> QED BY <1>5, <2>1, <2>2, <2>3
<1>12. \A d \in Days : <<c, d>> \in closed => d < Day(now)
  BY <1>0, Zenon DEF InDayOrder
<1> QED BY <1>1, <1>7, <1>8, <1>9, <1>10, <1>11, <1>12, Zenon DEF InDayOrder

(* Moving a channel without queued rows to today closes an earlier day.    *)
LEMMA MoveKeepsOrder ==
  ASSUME LogTypeOK, NEW c \in Channels, InDayOrder(c), Queued(c) = {}, UNCHANGED <<now, rows>>,
         state'[c].suffix = Day(now),
         \A d \in Days : <<c, d>> \in closed' => <<c, d>> \in closed \cup Left(c, Day(now))
  PROVE  InDayOrder(c)'
<1>1. Queued(c)' = {}
  BY ZenonT(40) DEF Queued
<1>2. Day(now) \in Nat /\ state[c].suffix \in Int /\ state[c].suffix <= Day(now)
  BY DayFacts DEF InDayOrder
<1>3. \A d \in Days : <<c, d>> \in Left(c, Day(now)) => d < Day(now)
  <2> SUFFICES ASSUME NEW d \in Days, <<c, d>> \in Left(c, Day(now))
               PROVE  d < Day(now)
    BY Zenon
  <2>1. d = state[c].suffix /\ state[c].suffix # Day(now)
    BY Zenon DEF Left
  <2>2. Day(now) \in Int
    BY <1>2
  <2>3. state[c].suffix < Day(now)
    BY <1>2, <2>1, <2>2, LessWhenDifferent, Zenon
  <2> QED BY <2>1, <2>3, ZenonT(40)
<1>4. \A d \in Days : <<c, d>> \in closed' => d < Day(now)
  BY <1>3 DEF InDayOrder
<1>5. state'[c].suffix <= Day(now)
  <2>1. Day(now) <= Day(now)
    BY <1>2, SMT, SMTT(30)
  <2> QED BY <2>1, ZenonT(40)
<1> QED BY <1>1, <1>4, <1>5, Zenon DEF InDayOrder

LEMMA OrderStep ==
  ASSUME LogInv, OrderInv, LogNext
  PROVE  OrderInv'
<1>0. LogTypeOK /\ job \in Job /\ state \in [Channels -> StateRecord]
  BY DEF LogInv, LogTypeOK
<1>1. CASE disturbed' = Channels
  BY <1>1, ZenonT(40) DEF OrderInv
<1>2. ASSUME Quiet, NEW c \in Channels \ disturbed'
      PROVE  InDayOrder(c)'
  <2>1. InDayOrder(c) /\ Queued(c)' = Queued(c) /\ Queued(c) \subseteq rows
    BY <1>2 DEF Quiet, OrderInv, Queued
  <2>2. Day(now) \in Nat /\ state[c].suffix \in Int /\ \A r \in rows : Day(r.time) \in Nat
    BY <1>0, DayFacts, Zenon
  <2>3. state'[c].suffix <= Day(now) /\ \A r \in Queued(c) \ Done : state'[c].suffix <= Day(r.time)
    <3>1. state[c].suffix <= Day(now) /\ NoDay <= Day(now)
      BY <2>1, <2>2, NoDayIsFirst, Zenon DEF InDayOrder
    <3>2. \A r \in Queued(c) \ Done : state[c].suffix <= Day(r.time) /\ NoDay <= Day(r.time)
      BY <2>1, <2>2, NoDayIsFirst DEF InDayOrder
    <3>3. state'[c].suffix \in {state[c].suffix, NoDay}
      BY <1>2 DEF Quiet
    <3> QED BY <3>1, <3>2, <3>3, Zenon
  <2> QED BY <1>2, <2>1, <2>3 DEF Quiet, InDayOrder
<1>3. ASSUME NEW e \in Channels, EventQueued(e)
      PROVE  OrderInv'
  BY <1>3, QueueKeepsOrder, Zenon DEF OrderInv, EventQueued
<1>4. ASSUME NEW e \in Channels, SetLoggingOn(e), NEW c \in Channels \ disturbed'
      PROVE  InDayOrder(c)'
  <2>1. /\ UNCHANGED <<now, rows, job>> /\ closed' = closed \cup Left(e, Day(now))
        /\ state' = [state EXCEPT ![e] =
             [exists |-> TRUE, known |-> TRUE, enabled |-> TRUE, suffix |-> Day(now)]]
        /\ c \notin disturbed /\ (c = e => Queued(c) = {})
    BY <1>4 DEF SetLoggingOn
  <2>2. InDayOrder(c)
    BY <2>1, Zenon DEF OrderInv
  <2>3. CASE c = e
    <3>1. state'[c].suffix = Day(now)
      BY <1>0, <2>1, <2>3, Zenon
    <3> QED BY <1>0, <2>1, <2>2, <2>3, <3>1, MoveKeepsOrder, Zenon
  <2>4. CASE c # e
    <3>1. state'[c] = state[c] /\ Done' = Done /\ Queued(c)' = Queued(c)
      BY <1>0, <2>1, <2>4, Zenon DEF Done, Queued
    <3>2. \A d \in Days : <<c, d>> \in closed' => <<c, d>> \in closed
      BY <2>1, <2>4, Zenon DEF Left
    <3> QED BY <2>1, <2>2, <3>1, <3>2, Zenon DEF InDayOrder
  <2> QED BY <2>3, <2>4, Zenon
<1>5. ASSUME NEW r \in job.left, WriteRow(r)
      PROVE  OrderInv'
  BY <1>5, WriteKeepsOrder, ZenonT(40) DEF OrderInv, WriteRow
<1>6. ASSUME DeleteBatch, NEW c \in Channels \ disturbed'
      PROVE  InDayOrder(c)'
  <2>1. /\ UNCHANGED <<now, state, closed, disturbed>> /\ job.kind # "none" /\ job.phase = "delete"
        /\ rows' = {r \in rows : ~Covered(r)}
    BY <1>6 DEF DeleteBatch
  <2>2. Done = job.batch /\ Done' = {}
    BY <1>0, <1>6, Zenon DEF DeleteBatch, Done, Job, LogInv, BatchFirst
  <2>3. rows' = rows \ Done
    BY <2>1, <2>2, CoveredIsBatch, Zenon DEF LogInv
  <2>4. Queued(c)' = Queued(c) \ Done /\ InDayOrder(c)
    BY <2>1, <2>3 DEF Queued, OrderInv
  <2> QED BY <2>1, <2>2, <2>4 DEF InDayOrder
<1>7. ASSUME FinishMaintenance, NEW c \in Channels \ disturbed'
      PROVE  InDayOrder(c)'
  <2>1. PICK gone \in SUBSET Expired, seen \in SUBSET Channels :
          LET turn == {x \in seen : RotationDue(x)}
          IN /\ closed' = (closed \ gone) \cup UNION {Left(x, Day(now)) : x \in turn}
             /\ state' = [x \in Channels |->
                            IF x \in turn THEN OnDay(state[x], Day(now)) ELSE state[x]]
    BY <1>7, ZenonT(40) DEF FinishMaintenance
  <2> DEFINE turn == {x \in seen : RotationDue(x)}
  <2>2. UNCHANGED <<now, rows>> /\ Done = {} /\ Done' = {} /\ InDayOrder(c)
    BY <1>7, EmptyJob, Zenon DEF FinishMaintenance, Done, OrderInv
  <2>3. \A d \in Days : <<c, d>> \in closed' =>
           <<c, d>> \in closed \/ (c \in turn /\ <<c, d>> \in Left(c, Day(now)))
    <3> SUFFICES ASSUME NEW d \in Days, <<c, d>> \in closed', <<c, d>> \notin closed
                 PROVE  c \in turn /\ <<c, d>> \in Left(c, Day(now))
      BY Zenon
    <3>1. PICK x \in turn : <<c, d>> \in Left(x, Day(now))
      BY <2>1
    <3>2. x = c
      BY <3>1, Zenon DEF Left
    <3> QED BY <3>1, <3>2
  <2>4. CASE c \in turn
    <3>1. state'[c] = OnDay(state[c], Day(now)) /\ Queued(c) = {}
      BY <2>1, <2>4, Zenon DEF RotationDue
    <3>2. state'[c].suffix = Day(now)
      <4>1. Day(now) \in Days /\ state[c] \in StateRecord
        BY <1>0, DayFacts, Zenon
      <4>2. OnDay(state[c], Day(now)).suffix = Day(now)
        BY <4>1, StateShape, Zenon
      <4> QED BY <3>1, <4>2
    <3> QED BY <1>0, <2>2, <2>3, <3>1, <3>2, MoveKeepsOrder, Zenon
  <2>5. CASE c \notin turn
    <3>1. state'[c] = state[c] /\ Queued(c)' = Queued(c)
      BY <2>1, <2>2, <2>5, Zenon DEF Queued
    <3> QED BY <2>2, <2>3, <2>5, <3>1, ZenonT(40) DEF InDayOrder
  <2> QED BY <2>4, <2>5
<1>8. ASSUME Tick, NEW c \in Channels \ disturbed'
      PROVE  InDayOrder(c)'
  <2>1. UNCHANGED <<rows, job, state, closed, disturbed>> /\ now' = now + 1 /\ now < MaxTime
    BY <1>8, Zenon DEF Tick
  <2>2. now' \in Times /\ now <= now' /\ now \in Times /\ now \in Nat
    BY <1>0, <2>1, LogConstants DEF Times, LogTypeOK
  <2>3. Day(now) <= Day(now') /\ Day(now) \in Nat /\ Day(now') \in Nat
    BY <2>2, DayMonotone, DayType
  <2>4. InDayOrder(c) /\ Done' = Done /\ Queued(c)' = Queued(c) /\ Queued(c) \subseteq rows
    BY <2>1, Zenon DEF Done, Queued, OrderInv
  <2>5. state[c].suffix <= Day(now')
    BY <1>0, <2>3, <2>4, DayFacts, SMT, SMTT(30) DEF InDayOrder
  <2>6. \A d \in Days : <<c, d>> \in closed => d < Day(now')
    BY <1>0, <2>3, <2>4, DayFacts, SMT, SMTT(30) DEF InDayOrder
  <2>7. \A r \in Queued(c) : r.time <= now'
    BY <1>0, <2>2, <2>1, <2>4, DayFacts DEF InDayOrder
  <2>8. Day(now)' = Day(now')
    BY DEF Day
  <2> QED BY <2>1, <2>4, <2>5, <2>6, <2>7, <2>8, Zenon DEF InDayOrder
<1> QED BY <1>1, <1>2, <1>3, <1>4, <1>5, <1>6, <1>7, <1>8, OrderFootprint, SMT, SMTT(30) DEF OrderInv

LEMMA OrderInit ==
  ASSUME LogInitState
  PROVE  OrderInv
<1>1. /\ rows = {} /\ closed = {} /\ now = 0 /\ state = [c \in Channels |-> NoState]
      /\ now \in Times
  BY LogConstants DEF LogInitState, Times
<1>2. Day(now) \in Nat
  BY <1>1, DayType
<1>3. \A c \in Channels : state[c].suffix = NoDay
  BY <1>1, Zenon DEF NoState
<1> QED BY <1>1, <1>2, <1>3 DEF OrderInv, InDayOrder, Queued, NoDay

-----------------------------------------------------------------------------
(* The process drives the log only through the log's own steps             *)

LEMMA TurnsAreLogSteps ==
    LogTurn \/ DestroyLogs => LogNext
BY DEF LogTurn, DestroyLogs, LogNext, LogRequest

LEMMA ExitIsLogStep == Exit => LogNext \/ UNCHANGED logVars
BY DEF Exit, LogNext

LEMMA MainIsLogStep == Main => LogNext \/ UNCHANGED logVars
<1>1. Load \/ EnsureDatabases \/ Unwound \/ Final => LogNext \/ UNCHANGED logVars
  BY ExitIsLogStep DEF Load, EnsureDatabases, Unwound, Final, restVars
<1>2. ServerInit => LogNext \/ UNCHANGED logVars
  BY ExitIsLogStep, ZenonT(40) DEF ServerInit, LogNext
<1>3. Activate \/ CheckPending \/ QuietTurn \/ LookupTurn \/ RestartCommand \/ DieCommand
      \/ RunFails \/ LeaveLoop \/ SkipMaintenance \/ Deactivate \/ Outcome
        => UNCHANGED logVars
  BY DEF Activate, CheckPending, QuietTurn, LookupTurn, RestartCommand, DieCommand, RunFails,
         LeaveLoop, SkipMaintenance, Deactivate, Outcome, restVars
<1>4. JobStep \/ Maintain \/ ShutdownFlush => LogNext
  BY DEF JobStep, Maintain, ShutdownFlush, LogNext, LogRequest
<1>5. (\E r \in Resolvers : DestroyResolver(r)) => UNCHANGED logVars
  BY DEF DestroyResolver
<1>6. QED  BY <1>1, <1>2, <1>3, <1>4, <1>5, TurnsAreLogSteps DEF Main

LEMMA StepIsLogStep == Next => LogNext \/ UNCHANGED logVars
<1>1. SignalOnMain \/ HandlerStep \/ (\E r \in Resolvers : SignalOnWorker(r) \/ WorkerStep(r))
        => UNCHANGED logVars
  BY DEF SignalOnMain, HandlerStep, SignalOnWorker, WorkerStep, restVars
<1>2. Crash => LogNext
  BY DEF Crash, LogNext
<1>3. Boot => UNCHANGED logVars
  BY DEF Boot, restVars
<1>4. Clock => LogNext
  BY DEF Clock, LogNext
<1>5. QED  BY <1>1, <1>2, <1>3, <1>4, MainIsLogStep DEF Next

\* Whatever signals, restarts, turns and crashes do around it, the channel log
\* inside the process behaves as the channel log specification.
THEOREM ProcessRunsTheLog == Spec => LogSpec
<1>1. ServerLifeInit => LogInitState
  BY DEF ServerLifeInit
<1>2. [Next]_vars => [LogNext]_logVars
  BY StepIsLogStep DEF vars
<1>3. QED  BY <1>1, <1>2, PTL DEF Spec, LogSpec

-----------------------------------------------------------------------------
(* The workers, the handler and the flags                                  *)

ThreadStates == {"none", "waiting", "taken", "resolving", "ended"}

HandlerSteps == {"active", "shutdown", "restart"}

WithoutWorkers == {"load", "databases", "init", "flushing", "final", "exited"}

Flags == pending \in BOOLEAN /\ active \in BOOLEAN
         /\ shutdownReq \in BOOLEAN /\ restartReq \in BOOLEAN

WorkersOK ==
    /\ thread \in [Resolvers -> ThreadStates]
    /\ requests \in [Resolvers -> Nat] /\ results \in [Resolvers -> Nat]
    /\ \A r \in Resolvers : thread[r] = "none" => requests[r] = 0 /\ results[r] = 0
    /\ pc \in WithoutWorkers => \A r \in Resolvers : thread[r] = "none"

\* A handler that has not finished holds up a worker that has not ended.
HandlerOK ==
    \/ handler = NoHandler
    \/ /\ handler \in [on : Resolvers, step : HandlerSteps]
       /\ thread[handler.on] \notin {"none", "ended"}
       /\ handler.step = "restart" => shutdownReq

FlagsOK ==
    /\ Flags
    /\ pc \in {"check", "turn", "maintain"} => active
    /\ SignalReachesServer

LifeInv == WorkersOK /\ HandlerOK /\ FlagsOK

LEMMA LifeInit == ServerLifeInit => LifeInv
<1> SUFFICES ASSUME ServerLifeInit PROVE LifeInv  OBVIOUS
<1>1. WorkersOK
  BY DEF ServerLifeInit, ResolverInit, WorkersOK, ThreadStates
<1>2. HandlerOK
  BY DEF ServerLifeInit, HandlerOK
<1>3. FlagsOK
  BY Zenon DEF ServerLifeInit, FlagsOK, Flags, SignalReachesServer
<1>4. QED  BY <1>1, <1>2, <1>3 DEF LifeInv

LEMMA GoneHolds == Gone => LifeInv'
<1> SUFFICES ASSUME Gone PROVE LifeInv'  OBVIOUS
<1>1. WorkersOK'
  BY Zenon DEF Gone, ResolversGone, WorkersOK, ThreadStates
<1>2. HandlerOK'
  BY DEF Gone, HandlerOK, NoHandler
<1>3. FlagsOK'
  BY Zenon DEF Gone, FlagsOK, Flags, SignalReachesServer
<1>4. QED  BY <1>1, <1>2, <1>3 DEF LifeInv

\* A step that leaves the workers alone keeps what is said of them, as long as
\* main() moves to a place without workers only when there are none.
LEMMA WorkersKept ==
    ASSUME WorkersOK, UNCHANGED resolverVars,
           pc' \in WithoutWorkers =>
               pc \in WithoutWorkers \/ \A r \in Resolvers : thread[r] = "none"
    PROVE  WorkersOK'
BY Zenon DEF WorkersOK, resolverVars

LEMMA HandlerKept ==
    ASSUME HandlerOK, UNCHANGED <<handler, thread>>, shutdownReq => shutdownReq'
    PROVE  HandlerOK'
BY DEF HandlerOK, NoHandler

-----------------------------------------------------------------------------
(* The steps of main() preserve the invariant                              *)

LEMMA ExitHolds == Exit => LifeInv'
BY GoneHolds DEF Exit

\* Server start: before server_init no worker is left, so no handler is either.
LEMMA StartHolds ==
    ASSUME LifeInv, Load \/ EnsureDatabases \/ ServerInit \/ Activate \/ CheckPending
    PROVE  LifeInv'
<1> USE DEF LifeInv
<1>1. CASE Load \/ EnsureDatabases
  <2>1. SUFFICES ASSUME UNCHANGED <<flagVars, restVars>>, pc \in {"load", "databases"},
                        pc' \in {"databases", "init"}
                 PROVE  LifeInv'
    BY <1>1, ExitHolds DEF Load, EnsureDatabases
  <2>2. WorkersOK'  BY <2>1, WorkersKept DEF WithoutWorkers, restVars
  <2>3. HandlerOK'  BY <2>1, HandlerKept DEF flagVars, restVars, resolverVars
  <2>4. FlagsOK'  BY <2>1 DEF FlagsOK, Flags, SignalReachesServer, flagVars
  <2>5. QED  BY <2>2, <2>3, <2>4
<1>2. CASE ServerInit
  <2>1. SUFFICES ASSUME pc = "init", pc' \in {"activate", "unwind"},
                        UNCHANGED <<pending, active, handler>>,
                        shutdownReq' = FALSE, restartReq' = FALSE,
                        NEW S, InitResolvers(S)
                 PROVE  LifeInv'
    BY <1>2, ExitHolds, Zenon DEF ServerInit, Goto
  <2>2. WorkersOK'
    BY <2>1 DEF WorkersOK, InitResolvers, WithoutWorkers, ThreadStates
  <2>3. handler = NoHandler
    BY <2>1, Zenon DEF HandlerOK, WorkersOK, WithoutWorkers
  <2>4. HandlerOK'  BY <2>1, <2>3 DEF HandlerOK, NoHandler
  <2>5. FlagsOK'  BY <2>1, Zenon DEF FlagsOK, Flags, SignalReachesServer
  <2>6. QED  BY <2>2, <2>4, <2>5
<1>3. CASE Activate \/ CheckPending
  <2>1. WorkersOK'
    BY <1>3, WorkersKept DEF Activate, CheckPending, Goto, restVars, WithoutWorkers
  <2>2. HandlerOK'
    <3>1. shutdownReq => shutdownReq'
      BY <1>3, Zenon DEF Activate, CheckPending
    <3>2. UNCHANGED <<handler, thread>>
      BY <1>3 DEF Activate, CheckPending, restVars, resolverVars
    <3>3. QED  BY <3>1, <3>2, HandlerKept
  <2>3. FlagsOK'
    <3>1. CASE Activate
      BY <3>1 DEF Activate, Goto, FlagsOK, Flags, SignalReachesServer
    <3>2. CASE CheckPending
      <4>1. Flags' /\ (active => active')
        BY <3>2 DEF CheckPending, FlagsOK, Flags
      <4>2. SignalReachesServer'
        BY <3>2, Zenon DEF CheckPending, SignalReachesServer
      <4>3. pc = "check" /\ pc' = "turn"
        BY <3>2 DEF CheckPending, Goto
      <4>4. QED  BY <4>1, <4>2, <4>3, Zenon DEF FlagsOK
    <3>3. QED  BY <1>3, <3>1, <3>2, Zenon
  <2>4. QED  BY <2>1, <2>2, <2>3
<1>4. QED  BY <1>1, <1>2, <1>3

\* A turn that drains the answers and maybe submits a lookup.
LEMMA TurnHolds ==
    ASSUME LifeInv, QuietTurn \/ LogTurn \/ LookupTurn
    PROVE  LifeInv'
<1> USE DEF LifeInv
<1>1. /\ pc = "turn" /\ pc' = "maintain" /\ DrainResults
      /\ UNCHANGED flagVars /\ UNCHANGED thread
      /\ UNCHANGED requests \/ \E r \in Resolvers : Submit(r)
  BY Zenon DEF QuietTurn, LogTurn, LookupTurn, Goto, Submit
<1>2. WorkersOK'
  <2>1. CASE UNCHANGED requests
    BY <1>1, <2>1, Zenon DEF WorkersOK, DrainResults, WithoutWorkers
  <2>2. CASE \E r \in Resolvers : Submit(r)
    BY <1>1, <2>2 DEF WorkersOK, DrainResults, WithoutWorkers, Submit
  <2>3. QED  BY <1>1, <2>1, <2>2, Zenon
<1>3. HandlerOK'  BY <1>1, HandlerKept DEF flagVars
<1>4. FlagsOK'  BY <1>1 DEF FlagsOK, Flags, SignalReachesServer, flagVars
<1>5. QED  BY <1>2, <1>3, <1>4, Zenon

LEMMA LoopHolds ==
    ASSUME LifeInv,
           RestartCommand \/ DieCommand \/ RunFails \/ LeaveLoop \/ Maintain \/ SkipMaintenance
    PROVE  LifeInv'
<1> USE DEF LifeInv
<1>1. /\ pc \in {"turn", "maintain"} /\ pc' \in {"turn", "maintain", "deactivate"}
      /\ UNCHANGED <<pending, active, handler, resolverVars>>
  BY ZenonT(40) DEF RestartCommand, DieCommand, RunFails, LeaveLoop, Maintain, SkipMaintenance, Goto,
         flagVars, restVars
<1>2. /\ shutdownReq' = shutdownReq \/ shutdownReq' = TRUE
      /\ restartReq' = restartReq \/ restartReq' = TRUE
  BY DEF RestartCommand, DieCommand, RunFails, LeaveLoop, Maintain, SkipMaintenance, flagVars
<1>3. WorkersOK'  BY <1>1, WorkersKept DEF WithoutWorkers
<1>4. (shutdownReq => shutdownReq') /\ (restartReq => restartReq')
  BY <1>2
<1>5. HandlerOK'  BY <1>1, <1>4, HandlerKept DEF resolverVars
<1>6. Flags'  BY <1>1, <1>2, Zenon DEF FlagsOK, Flags
<1>7. SignalReachesServer'
  BY <1>1, <1>4 DEF FlagsOK, SignalReachesServer
<1>8. FlagsOK'  BY <1>1, <1>6, <1>7 DEF FlagsOK
<1>9. QED  BY <1>3, <1>5, <1>8, Zenon

LEMMA TearDownHolds ==
    ASSUME LifeInv, Deactivate \/ Outcome \/ DestroyLogs \/ ShutdownFlush \/ JobStep
    PROVE  LifeInv'
<1> USE DEF LifeInv
<1>1. UNCHANGED <<pending, shutdownReq, restartReq, handler, resolverVars>>
  BY ZenonT(40) DEF Deactivate, Outcome, DestroyLogs, ShutdownFlush, JobStep, flagVars, restVars, mainVars
<1>2. \/ /\ pc' \in {"outcome", "destroy", "flushing", "final"}
         /\ active' \in BOOLEAN
         /\ pc' \in WithoutWorkers =>
               pc \in WithoutWorkers \/ \A r \in Resolvers : thread[r] = "none"
      \/ UNCHANGED <<pc, active>>
  BY Zenon DEF Deactivate, Outcome, DestroyLogs, ShutdownFlush, JobStep, Goto, flagVars, mainVars,
         WithoutWorkers, FlagsOK, Flags
<1>3. WorkersOK'  BY <1>1, <1>2, WorkersKept
<1>4. HandlerOK'  BY <1>1, HandlerKept, Zenon DEF resolverVars
<1>5. FlagsOK'  BY <1>1, <1>2, Zenon DEF FlagsOK, Flags, SignalReachesServer
<1>6. QED  BY <1>3, <1>4, <1>5, ZenonT(40)

\* Only a worker that has ended is joined, and no handler runs on that one.
LEMMA DestroyHolds ==
    ASSUME LifeInv, NEW r \in Resolvers, DestroyResolver(r)
    PROVE  LifeInv'
<1> USE DEF LifeInv
<1>1. pc \in {"destroy", "unwind"} /\ UNCHANGED mainVars
  BY Zenon DEF DestroyResolver
<1>2. CASE Stop(r)
  BY <1>1, <1>2, Zenon DEF Stop, mainVars, WorkersOK, HandlerOK, NoHandler, FlagsOK, Flags,
                    SignalReachesServer
<1>3. CASE Join(r)
  <2>1. WorkersOK'
    BY <1>1, <1>3, Zenon DEF Join, WorkerMoves, mainVars, WorkersOK, ThreadStates, WithoutWorkers
  <2>2. HandlerOK'
    BY <1>1, <1>3, Zenon DEF Join, WorkerMoves, mainVars, WorkersOK, HandlerOK, NoHandler
  <2>3. FlagsOK'
    BY <1>1, Zenon DEF mainVars, FlagsOK, Flags, SignalReachesServer
  <2>4. QED  BY <2>1, <2>2, <2>3, Zenon
<1>4. QED  BY <1>2, <1>3 DEF DestroyResolver

LEMMA FinalHolds ==
    ASSUME LifeInv, Unwound \/ Final \/ Boot
    PROVE  LifeInv'
<1> USE DEF LifeInv
<1>1. SUFFICES ASSUME pc \in {"final", "exited"}, pc' = "load",
                      UNCHANGED <<pending, active, shutdownReq, restartReq, handler,
                                  resolverVars>>
               PROVE  LifeInv'
  BY ExitHolds DEF Unwound, Final, Boot, flagVars, restVars
<1>2. WorkersOK'  BY <1>1, WorkersKept DEF WithoutWorkers
<1>3. HandlerOK'  BY <1>1, HandlerKept DEF resolverVars
<1>4. FlagsOK'  BY <1>1 DEF FlagsOK, Flags, SignalReachesServer
<1>5. QED  BY <1>2, <1>3, <1>4, SMT, SMTT(30)

LEMMA MainHolds ==
    ASSUME LifeInv, Main
    PROVE  LifeInv'
BY StartHolds, TurnHolds, LoopHolds, TearDownHolds, DestroyHolds, FinalHolds DEF Main

-----------------------------------------------------------------------------
(* So do the signal handler, the workers and the rest of the process       *)

LEMMA SignalHolds ==
    ASSUME LifeInv, SignalOnMain \/ \E r \in Resolvers : SignalOnWorker(r)
    PROVE  LifeInv'
<1> USE DEF LifeInv
<1>1. WorkersOK'
  BY WorkersKept DEF SignalOnMain, SignalOnWorker, restVars
<1>2. CASE SignalOnMain
  <2>1. UNCHANGED <<pc, active, handler, thread>> /\ pending' = TRUE
    BY <1>2 DEF SignalOnMain, restVars, resolverVars
  <2>2. /\ shutdownReq' \in BOOLEAN /\ restartReq' \in BOOLEAN
        /\ shutdownReq => shutdownReq'
        /\ active => shutdownReq' /\ restartReq'
    BY <1>2 DEF SignalOnMain, FlagsOK, Flags
  <2>3. HandlerOK'  BY <2>1, <2>2, HandlerKept
  <2>4. Flags'  BY <2>1, <2>2 DEF FlagsOK, Flags
  <2>5. SignalReachesServer'  BY <2>1, <2>2 DEF FlagsOK, SignalReachesServer
  <2>6. FlagsOK'  BY <2>1, <2>4, <2>5 DEF FlagsOK
  <2>7. QED  BY <1>1, <2>3, <2>6, Zenon
<1>3. CASE \E r \in Resolvers : SignalOnWorker(r)
  <2>1. PICK r \in Resolvers : SignalOnWorker(r)  BY <1>3, Zenon
  <2>2. HandlerOK'
    BY <2>1, Zenon DEF SignalOnWorker, HandlerOK, HandlerSteps, restVars, resolverVars
  <2>3. FlagsOK'
    <3>1. handler' # NoHandler
      BY <2>1 DEF SignalOnWorker, NoHandler
    <3>2. QED  BY <2>1, <3>1, ZenonT(40) DEF SignalOnWorker, FlagsOK, Flags, SignalReachesServer
  <2>4. QED  BY <1>1, <2>2, <2>3
<1>4. QED  BY <1>2, <1>3, Zenon

\* A handler that finishes has set both flags of a server that is active.
LEMMA HandlerHolds ==
    ASSUME LifeInv, HandlerStep
    PROVE  LifeInv'
<1> USE DEF LifeInv
<1>1. WorkersOK'
  BY WorkersKept DEF HandlerStep, restVars
<1>2. UNCHANGED <<pc, pending, active, thread>>
  BY DEF HandlerStep, restVars, resolverVars
<1>3. handler \in [on : Resolvers, step : HandlerSteps]
  BY DEF HandlerOK, NoHandler, HandlerStep
<1>4. thread[handler.on] \notin {"none", "ended"} /\ (handler.step = "restart" => shutdownReq)
  <2>1. handler # NoHandler  BY DEF HandlerStep, NoHandler
  <2>2. QED  BY <2>1 DEF HandlerOK
<1>5. CASE handler.step = "active"
  <2>1. UNCHANGED <<shutdownReq, restartReq>>
    BY <1>5 DEF HandlerStep
  <2>2. CASE active
    <3>1. handler' = [handler EXCEPT !.step = "shutdown"]
      BY <1>5, <2>2 DEF HandlerStep
    <3>2. handler' \in [on : Resolvers, step : HandlerSteps] /\ handler'.on = handler.on
          /\ handler'.step = "shutdown"
      BY <1>3, <3>1, Zenon DEF HandlerSteps
    <3>3. HandlerOK'  BY <1>2, <1>4, <3>2, Zenon DEF HandlerOK
    <3>4. handler' # NoHandler  BY <3>2 DEF NoHandler
    <3>5. FlagsOK'  BY <1>2, <2>1, <3>4 DEF FlagsOK, Flags, SignalReachesServer
    <3>6. QED  BY <1>1, <3>3, <3>5
  <2>3. CASE ~active
    <3>1. handler' = NoHandler
      BY <1>5, <2>3, Zenon DEF HandlerStep
    <3>2. HandlerOK'  BY <3>1, Zenon DEF HandlerOK, NoHandler
    <3>3. FlagsOK'  BY <1>2, <2>1, <2>3 DEF FlagsOK, Flags, SignalReachesServer
    <3>4. QED  BY <1>1, <3>2, <3>3
  <2>4. QED  BY <2>2, <2>3
<1>6. CASE handler.step = "shutdown"
  <2>1. shutdownReq' = TRUE /\ handler' = [handler EXCEPT !.step = "restart"]
        /\ UNCHANGED restartReq
    BY <1>6 DEF HandlerStep
  <2>2. handler' \in [on : Resolvers, step : HandlerSteps] /\ handler'.on = handler.on
        /\ handler'.step = "restart"
    BY <1>3, <2>1 DEF HandlerSteps
  <2>3. HandlerOK'  BY <1>2, <1>4, <2>1, <2>2, Zenon DEF HandlerOK
  <2>4. handler' # NoHandler  BY <2>2 DEF NoHandler
  <2>5. FlagsOK'  BY <1>2, <2>1, <2>4 DEF FlagsOK, Flags, SignalReachesServer
  <2>6. QED  BY <1>1, <2>3, <2>5
<1>7. CASE handler.step = "restart"
  <2>1. restartReq' = TRUE /\ handler' = NoHandler /\ UNCHANGED shutdownReq
    BY <1>7, Zenon DEF HandlerStep
  <2>2. HandlerOK'  BY <2>1, Zenon DEF HandlerOK, NoHandler
  <2>3. FlagsOK'  BY <1>2, <1>4, <1>7, <2>1 DEF FlagsOK, Flags, SignalReachesServer
  <2>4. QED  BY <1>1, <2>2, <2>3
<1>8. QED  BY <1>5, <1>6, <1>7 DEF HandlerStep

\* The worker a handler runs on does not move, so it cannot end under it.
LEMMA WorkerHolds ==
    ASSUME LifeInv, NEW r \in Resolvers, WorkerStep(r)
    PROVE  LifeInv'
<1> USE DEF LifeInv
<1>1. UNCHANGED mainVars /\ handler.on # r /\ Worker(r)
  BY Zenon DEF WorkerStep
<1>2. /\ thread[r] # "none"
      /\ \E to \in ThreadStates \ {"none"} : thread' = [thread EXCEPT ![r] = to]
      /\ requests' \in [Resolvers -> Nat] /\ results' \in [Resolvers -> Nat]
      /\ \A q \in Resolvers \ {r} : requests'[q] = requests[q] /\ results'[q] = results[q]
  <2>1. CASE TakeRequest(r)
    <3>1. requests[r] - 1 \in Nat
      BY <2>1 DEF TakeRequest, WorkersOK
    <3>2. requests' = [requests EXCEPT ![r] = requests[r] - 1] /\ results' = results
      BY <2>1 DEF TakeRequest
    <3>3. requests' \in [Resolvers -> Nat] /\ results' \in [Resolvers -> Nat]
          /\ \A q \in Resolvers \ {r} : requests'[q] = requests[q] /\ results'[q] = results[q]
      BY <3>1, <3>2, Zenon DEF WorkersOK
    <3>4. QED  BY <2>1, <3>3, Zenon DEF TakeRequest, WorkerMoves, ThreadStates
  <2>2. CASE EndOfRequests(r) \/ PollStopping(r)
    BY <2>2, Zenon DEF EndOfRequests, PollStopping, WorkerMoves, WorkersOK, ThreadStates
  <2>3. CASE Resolve(r)
    <3>1. results[r] \in Nat /\ results[r] + 1 \in Nat
      BY DEF WorkersOK
    <3>2. PICK n \in Nat : results' = [results EXCEPT ![r] = n]
      BY <2>3, <3>1, Zenon DEF Resolve
    <3>3. requests' \in [Resolvers -> Nat] /\ results' \in [Resolvers -> Nat]
          /\ \A q \in Resolvers \ {r} : requests'[q] = requests[q] /\ results'[q] = results[q]
      BY <2>3, <3>2 DEF Resolve, WorkersOK
    <3>4. QED  BY <2>3, <3>3, Zenon DEF Resolve, WorkerMoves, ThreadStates
  <2>4. QED  BY <1>1, <2>1, <2>2, <2>3, Zenon DEF Worker
<1>3. WorkersOK'
  BY <1>1, <1>2, Zenon DEF WorkersOK, mainVars
<1>4. HandlerOK'
  <2>1. CASE handler = NoHandler
    BY <1>1, <2>1, Zenon DEF mainVars, HandlerOK, NoHandler
  <2>2. CASE handler # NoHandler
    BY <1>1, <1>2, <2>2, Zenon DEF mainVars, HandlerOK, WorkersOK
  <2>3. QED  BY <2>1, <2>2, Zenon
<1>5. FlagsOK'
  BY <1>1 DEF mainVars, FlagsOK, Flags, SignalReachesServer
<1>6. QED  BY <1>3, <1>4, <1>5

LEMMA ClockHolds ==
    ASSUME LifeInv, Clock
    PROVE  LifeInv'
<1> USE DEF LifeInv
<1>1. UNCHANGED ClockVars  BY DEF Clock
<1>2. WorkersOK'  BY <1>1, WorkersKept DEF ClockVars
<1>3. HandlerOK'  BY <1>1, HandlerKept, Zenon DEF ClockVars, resolverVars
<1>4. FlagsOK'  BY <1>1 DEF ClockVars, FlagsOK, Flags, SignalReachesServer
<1>5. QED  BY <1>2, <1>3, <1>4

LEMMA StutterHolds ==
    ASSUME LifeInv, UNCHANGED vars
    PROVE  LifeInv'
<1> USE DEF LifeInv
<1>1. UNCHANGED <<mainVars, resolverVars>>  BY DEF vars
<1>2. WorkersOK'  BY <1>1, WorkersKept DEF mainVars
<1>3. HandlerOK'  BY <1>1, HandlerKept DEF mainVars, resolverVars
<1>4. FlagsOK'  BY <1>1, Zenon DEF mainVars, FlagsOK, Flags, SignalReachesServer
<1>5. QED  BY <1>2, <1>3, <1>4

-----------------------------------------------------------------------------
(* The rows of the log are counted: finite sets from here on               *)

INSTANCE FiniteSetTheorems

(* The batch in hand is a finite part of the table.                        *)
LEMMA BatchFinite ==
  ASSUME BatchFirst, IsFiniteSet(rows), job.phase \in {"write", "delete"}
  PROVE  job.batch \subseteq rows /\ IsFiniteSet(job.batch) /\ Cardinality(job.batch) \in Nat
<1>1. job.batch \subseteq rows
  BY Zenon DEF BatchFirst, Pool
<1>2. IsFiniteSet(job.batch)
  BY <1>1, FS_Subset, Zenon
<1> QED BY <1>1, <1>2, FS_CardinalityType, Zenon

(* The steps of the flush keep every variable's type.                      *)
LEMMA StepTypes ==
  ASSUME LogTypeOK, BatchFirst, IsFiniteSet(rows), LogStep
  PROVE  LogTypeOK'
<1> USE DEF dbVars
<1>0. job \in Job /\ state \in [Channels -> StateRecord] /\ now \in Times
  BY DEF LogTypeOK
<1>1. CASE Fetch
  <2>1. job' \in Job
    <3>1. Pool \subseteq Row
      BY DEF Pool, LogTypeOK
    <3>2. [job EXCEPT !.phase = "after"] \in Job
      BY <1>0 DEF Job, Phase
    <3>3. \A B \in SUBSET Pool :
             [job EXCEPT !.batch = B, !.left = B, !.phase = "write"] \in Job
      BY <1>0, <3>1, Zenon DEF Job, Phase
    <3> QED BY <1>1, <3>2, <3>3, ZenonT(40) DEF Fetch
  <2> QED BY <1>1, <2>1, Zenon DEF Fetch, LogTypeOK
<1>2. CASE DeleteBatch
  <2>1. Cardinality(job.batch) \in Nat
    BY <1>2, BatchFinite DEF DeleteBatch
  <2>2. job' \in Job
    <3>1. job.total + Cardinality(job.batch) \in Nat
      BY <1>0, <2>1 DEF Job
    <3>2. \A n \in Nat :
             [job EXCEPT !.batch = {}, !.phase = "fetch", !.total = n] \in Job
      BY <1>0, Zenon DEF Job, Phase
    <3> QED BY <1>2, <3>1, <3>2, Zenon DEF DeleteBatch
  <2>3. count' \in Nat
    BY <1>2, <2>1 DEF DeleteBatch, LogTypeOK
  <2> QED BY <1>2, <2>2, <2>3, Zenon DEF DeleteBatch, LogTypeOK
<1>3. CASE FlushFails
  <2>1. job' \in Job
    BY <1>0, <1>3 DEF FlushFails, Job, Phase
  <2>2. faults' \in 0 .. MaxFaults
    BY <1>3, LogConstants DEF FlushFails, Fault, LogTypeOK
  <2> QED BY <1>3, <2>1, <2>2, Zenon DEF FlushFails, LogTypeOK
<1>4. ASSUME NEW r \in job.left, WriteRow(r)
      PROVE  LogTypeOK'
  <2>1. r \in Row
    BY <1>0, Zenon DEF Job
  <2>2. r.chan \in Channels /\ r.time \in Times /\ r.id \in Ids
    BY <2>1 DEF Row
  <2>3. job' \in Job
    BY <1>0, <1>4, ZenonT(40) DEF WriteRow, Job, Phase
  <2>4. state' \in [Channels -> StateRecord]
    BY <1>0, <1>4, <2>2, StateShape, DayType, Zenon DEF WriteRow
  <2>5. files' \subseteq Files /\ closed' \subseteq Files
    BY <1>4, <2>2, FilesShape, Zenon DEF WriteRow, LogTypeOK
  <2>6. lines' \in [Ids -> Nat]
    BY <1>4, <2>2 DEF WriteRow, LogTypeOK
  <2> QED BY <1>4, <2>3, <2>4, <2>5, <2>6, ZenonT(40) DEF WriteRow, LogTypeOK
<1>5. ASSUME NEW r \in job.left, WriteFails(r)
      PROVE  LogTypeOK'
  <2>1. r \in Row
    BY <1>0 DEF Job
  <2>2. r.chan \in Channels /\ r.time \in Times /\ r.id \in Ids
    BY <2>1 DEF Row
  <2>3. job' \in Job
    BY <1>0, <1>5, Zenon DEF WriteFails, Job, Phase
  <2>4. state' \in [Channels -> StateRecord]
    <3>1. \/ state' = [state EXCEPT ![r.chan] = Created(state[r.chan])]
          \/ state' = [state EXCEPT ![r.chan] = OnDay(state[r.chan], Day(r.time))]
      BY <1>5, Zenon DEF WriteFails
    <3>2. Created(state[r.chan]) \in StateRecord
      BY <1>0, <2>2, StateShape, ZenonT(40)
    <3>3. OnDay(state[r.chan], Day(r.time)) \in StateRecord
      BY <1>0, <2>2, StateShape, DayType, Zenon
    <3> QED BY <1>0, <2>2, <3>1, <3>2, <3>3, Zenon
  <2>5. files' \subseteq Files /\ closed' \subseteq Files
    BY <1>5, <2>2, FilesShape, Zenon DEF WriteFails, LogTypeOK
  <2>6. lines' \in [Ids -> Nat]
    BY <1>5, <2>2 DEF WriteFails, LogTypeOK
  <2>7. faults' \in 0 .. MaxFaults
    BY <1>5, LogConstants, SMT, SMTT(30) DEF WriteFails, Fault, LogTypeOK
  <2> QED BY <1>5, <2>3, <2>4, <2>5, <2>6, <2>7, ZenonT(40) DEF WriteFails, LogTypeOK
<1>6. CASE FinishMaintenance
  <2>1. PICK gone \in SUBSET Expired, seen \in SUBSET Channels :
          LET turn == {c \in seen : RotationDue(c)}
          IN /\ files' = (files \ gone) \cup UNION {Bounded(c, now) : c \in turn}
             /\ closed' = (closed \ gone) \cup UNION {Left(c, Day(now)) : c \in turn}
             /\ state' = [c \in Channels |->
                            IF c \in turn THEN OnDay(state[c], Day(now)) ELSE state[c]]
    BY <1>6, Zenon DEF FinishMaintenance
  <2>2. state' \in [Channels -> StateRecord]
    BY <1>0, <2>1, StateShape, DayType, ZenonT(40)
  <2>3. files' \subseteq Files /\ closed' \subseteq Files
    BY <1>0, <2>1, FilesShape, SMT, SMTT(30) DEF LogTypeOK
  <2>4. job' \in Job
    BY <1>6, EmptyJob, ZenonT(40) DEF FinishMaintenance
  <2> QED BY <1>6, <2>2, <2>3, <2>4, Zenon DEF FinishMaintenance, LogTypeOK
<1>7. CASE FinishShutdownFlush
  BY <1>7, EmptyJob, Zenon DEF FinishShutdownFlush, LogTypeOK
<1>8. ASSUME NEW c \in Channels, FinishSetLoggingOff(c)
      PROVE  LogTypeOK'
  <2>1. files' \subseteq Files
    BY <1>0, <1>8, FilesShape DEF FinishSetLoggingOff, LogTypeOK
  <2>2. state' \in [Channels -> StateRecord]
    BY <1>0, <1>8, ZenonT(40) DEF FinishSetLoggingOff, StateRecord
  <2> QED BY <1>8, <2>1, <2>2, EmptyJob, Zenon DEF FinishSetLoggingOff, LogTypeOK
<1>9. CASE SetLoggingOffFails
  <2>1. faults' \in 0 .. MaxFaults
    BY <1>9, LogConstants DEF SetLoggingOffFails, Fault, LogTypeOK
  <2> QED BY <1>9, <2>1, EmptyJob, ZenonT(40) DEF SetLoggingOffFails, LogTypeOK
<1> QED BY <1>1, <1>2, <1>3, <1>4, <1>5, <1>6, <1>7, <1>8, <1>9, ZenonT(40) DEF LogStep

LEMMA OtherTypes ==
  ASSUME LogTypeOK, IsFiniteSet(rows), Tick \/ ClockBack \/ LogInit \/ LogExit \/ LogCrash
  PROVE  LogTypeOK'
<1> USE DEF dbVars
<1>1. CASE Tick \/ ClockBack
  <2>1. now' \in Times /\ faults' \in 0 .. MaxFaults
    BY <1>1, LogConstants DEF Tick, ClockBack, Fault, Times, LogTypeOK
  <2> QED BY <1>1, <2>1, ZenonT(40) DEF Tick, ClockBack, LogTypeOK
<1>2. [c \in Channels |-> NoState] \in [Channels -> StateRecord]
  BY Zenon DEF NoState, StateRecord
<1>3. CASE LogInit
  <2>1. Cardinality(rows) \in Nat
    BY FS_CardinalityType
  <2> QED BY <1>2, <1>3, <2>1, Zenon DEF LogInit, LogTypeOK
<1>4. CASE LogExit \/ LogCrash
  <2>1. faults' \in 0 .. MaxFaults
    BY <1>4, LogConstants, SMT, SMTT(30) DEF LogExit, LogCrash, Fault, LogTypeOK
  <2>2. job' \in Job /\ state' \in [Channels -> StateRecord] /\ running' = FALSE /\ count' = 0
    BY <1>2, <1>4, EmptyJob, Zenon DEF LogExit, LogCrash, ProcessGone
  <2>3. disturbed' \subseteq Channels
    BY <1>4, Zenon DEF LogExit, LogCrash, LogTypeOK
  <2>4. UNCHANGED <<now, registered, logging, rows, nextId, lines, files, closed>>
    BY <1>4, Zenon DEF LogExit, LogCrash, ProcessGone
  <2> QED BY <2>1, <2>2, <2>3, <2>4, ZenonT(40) DEF LogTypeOK
<1> QED BY <1>1, <1>3, <1>4, Zenon

LEMMA CountStep ==
  ASSUME LogInv, LogNext
  PROVE  IsFiniteSet(rows)' /\ CountExact'
<1>0. /\ IsFiniteSet(rows) /\ Cardinality(rows) \in Nat /\ count \in Nat /\ QueueMax \in Nat
      /\ running => count = Cardinality(rows)
      /\ Cardinality(rows) <= QueueMax
  BY FS_CardinalityType, LogConstants, Zenon DEF LogInv, CountExact, LogTypeOK
<1>1. CASE UNCHANGED <<rows, count, running>>
  BY <1>0, <1>1, ZenonT(40) DEF CountExact
<1>2. ASSUME NEW c \in Channels, EventQueued(c)
      PROVE  IsFiniteSet(rows)' /\ CountExact'
  <2> DEFINE r == [id |-> nextId, chan |-> c, time |-> now]
  <2>1. r \notin rows
    <3>1. \A s \in rows : s.id < nextId /\ s.id \in Int
      BY LogConstants, SMT, SMTT(30) DEF LogInv, IdsFresh, LogTypeOK, Row, Ids
    <3> QED BY <3>1, SMT, SMTT(30) DEF LogInv, LogTypeOK
  <2>2. /\ rows' = rows \cup {r} /\ count' = count + 1 /\ running' = running
        /\ running /\ count < QueueMax
    BY <1>2, Zenon DEF EventQueued, Idle
  <2>3. IsFiniteSet(rows') /\ Cardinality(rows') = Cardinality(rows) + 1
    BY <1>0, <2>1, <2>2, FS_AddElement, ZenonT(40)
  <2>4. Cardinality(rows) + 1 <= QueueMax
    BY <1>0, <2>2, RoomForOne, Zenon
  <2> QED BY <1>0, <2>2, <2>3, <2>4, Zenon DEF CountExact
<1>3. CASE DeleteBatch
  <2> DEFINE n == Cardinality(job.batch)
  <2>1. job.kind # "none" /\ job.phase = "delete"
    BY <1>3, ZenonT(40) DEF DeleteBatch
  <2>2. job.batch \subseteq rows /\ n \in Nat
    BY <1>0, <2>1, BatchFinite DEF LogInv
  <2>3. rows' = rows \ job.batch
    BY <1>3, <2>1, CoveredIsBatch, Zenon DEF DeleteBatch, LogInv
  <2>4. rows \cap job.batch = job.batch
    BY <2>2, ZenonT(40)
  <2>5. IsFiniteSet(rows') /\ Cardinality(rows') = Cardinality(rows) - n
    <3>1. /\ IsFiniteSet(rows \ job.batch)
          /\ Cardinality(rows \ job.batch) = Cardinality(rows) - Cardinality(rows \cap job.batch)
      BY <1>0, FS_Difference, Zenon
    <3> QED BY <2>3, <2>4, <3>1
  <2>6. Cardinality(rows') \in Nat
    BY <2>5, FS_CardinalityType
  <2>7. count' = (IF count >= n THEN count - n ELSE 0) /\ running' = running
    BY <1>3, ZenonT(40) DEF DeleteBatch
  <2> HIDE DEF n
  <2>8. running' => count' = Cardinality(rows')
    BY <1>0, <2>2, <2>5, <2>6, <2>7, TakenAway, ZenonT(40)
  <2>9. Cardinality(rows') <= QueueMax
    BY <1>0, <2>2, <2>5, <2>6, TakenAway, ZenonT(40)
  <2> QED BY <2>5, <2>8, <2>9, Zenon DEF CountExact
<1>4. CASE LogInit
  BY <1>0, <1>4, Zenon DEF LogInit, CountExact
<1>5. CASE LogExit \/ LogCrash
  BY <1>0, <1>5, ZenonT(40) DEF LogExit, LogCrash, ProcessGone, CountExact
<1> QED BY <1>1, <1>2, <1>3, <1>4, <1>5, CountFootprint, Zenon

-----------------------------------------------------------------------------
(* Theorems about the log                                                  *)

LEMMA LogInvInit ==
  ASSUME LogInitState
  PROVE  LogInv
<1> USE DEF LogInitState
<1>1. LogTypeOK
  <2>1. state \in [Channels -> StateRecord]
    BY DEF NoState, StateRecord
  <2>2. now \in Times /\ lines \in [Ids -> Nat] /\ faults \in 0 .. MaxFaults
    BY LogConstants, SMT, SMTT(30) DEF Times
  <2>3. job \in Job
    BY EmptyJob
  <2>4. registered \subseteq Channels /\ logging \subseteq Channels
    OBVIOUS
  <2>5. rows \subseteq Row /\ nextId \in Nat \ {0} /\ count \in Nat
    OBVIOUS
  <2>6. files \subseteq Files /\ closed \subseteq Files /\ disturbed \subseteq Channels
    OBVIOUS
  <2>7. running \in BOOLEAN
    BY Zenon
  <2> HIDE DEF LogInitState
  <2> QED BY <2>1, <2>2, <2>3, <2>4, <2>5, <2>6, <2>7, ZenonT(40) DEF LogTypeOK
<1>2. job.kind = "none" /\ job.phase = "fetch"
  BY EmptyJob, ZenonT(40)
<1>3. IdsFresh /\ BatchFirst
  <2>1. rows = {} /\ \A i \in Ids : ~(lines[i] > 0)
    OBVIOUS
  <2>2. IdsFresh
    BY <2>1, Zenon DEF IdsFresh
  <2> QED BY <1>2, <2>2, Zenon DEF BatchFirst
<1>4. LinesCounted
  BY <1>2, SMT, SMTT(30) DEF LinesCounted, Done, RepeatsNeedFaults
<1>5. IsFiniteSet(rows) /\ Cardinality(rows) = 0
  BY FS_EmptySet
<1> QED BY <1>1, <1>3, <1>4, <1>5, LogConstants DEF LogInv, CountExact

LEMMA LogInvStep ==
  ASSUME LogInv, [LogNext]_logVars
  PROVE  LogInv'
<1>1. CASE LogNext
  <2>1. LogTypeOK'
    BY <1>1, StepTypes, RequestTypes, OtherTypes, Zenon DEF LogNext, LogInv
  <2> QED BY <1>1, <2>1, IdsStep, BatchStep, LinesStep, CountStep, ZenonT(40) DEF LogInv
<1>2. CASE UNCHANGED logVars
  BY <1>2, Zenon DEF logVars, LogInv, LogTypeOK, IdsFresh, BatchFirst, LinesCounted, CountExact,
              RepeatsNeedFaults, Done, Pool
<1> QED BY <1>1, <1>2, Zenon

(* The inductive invariant holds in every reachable state.                 *)
THEOREM LogInvariance == LogSpec => []LogInv
<1>1. LogInitState => LogInv
  BY LogInvInit
<1>2. LogInv /\ [LogNext]_logVars => LogInv'
  BY LogInvStep
<1> QED BY <1>1, <1>2, PTL DEF LogSpec

(* The cached row count is the number of queued rows, and the configured   *)
(* ceiling bounds the table, for every ceiling, batch size and sequence of *)
(* failures.                                                               *)
THEOREM QueueCountIsExact == LogSpec => []CountExact
  BY LogInvariance, PTL DEF LogInv

(* A line is appended at most once more than there were faults.            *)
THEOREM OnlyFaultsRepeat == LogSpec => []RepeatsNeedFaults
<1>1. LogInv => RepeatsNeedFaults
  BY Zenon DEF LogInv, LinesCounted
<1> QED BY <1>1, LogInvariance, PTL

-----------------------------------------------------------------------------
(* ChannelLog implements DurableLog                                        *)

LEMMA DurableInit ==
  ASSUME LogInitState
  PROVE  Durable!Init
  BY DEF LogInitState, Durable!Init

LEMMA DurableStep ==
  ASSUME LogInv, [LogNext]_logVars
  PROVE  [Durable!Next]_(Durable!durableVars)
<1> DEFINE Queue == {r.id : r \in rows}
<1> DEFINE Logged == {i \in Ids : lines[i] > 0}
<1>0. /\ rows \subseteq Row /\ \A r \in rows : r.id \in Ids
      /\ lines \in [Ids -> Nat] /\ job \in Job
  BY Zenon DEF LogInv, LogTypeOK, Row
<1>1. CASE UNCHANGED <<rows, lines>>
  BY <1>1, Zenon DEF Durable!durableVars
<1>2. ASSUME NEW c \in Channels, EventQueued(c)
      PROVE  Durable!Next
  <2>1. nextId \in Ids
    BY <1>2, IdInRange, Zenon DEF EventQueued, LogInv, LogTypeOK
  <2>2. nextId \notin Queue /\ nextId \notin Logged
    BY <1>0, <2>1, SMT, SMTT(30) DEF LogInv, IdsFresh, Ids
  <2>3. rows' = rows \cup {[id |-> nextId, chan |-> c, time |-> now]} /\ lines' = lines
    BY <1>2, Zenon DEF EventQueued
  <2>4. {r.id : r \in rows'} = Queue \cup {nextId}
    <3> DEFINE new == [id |-> nextId, chan |-> c, time |-> now]
    <3>1. new.id = nextId /\ rows' = rows \cup {new}
      BY <2>3
    <3> HIDE DEF new
    <3> QED BY <3>1, Zenon
  <2>5. PICK e \in Ids : e = nextId
    BY <2>1, Zenon
  <2>6. Durable!Accept(e)
    BY <2>2, <2>3, <2>4, <2>5, Zenon DEF Durable!Accept
  <2> QED BY <2>6, ZenonT(40) DEF Durable!Next
<1>3. ASSUME NEW r \in job.left, WriteRow(r) \/ WriteFails(r)
      PROVE  Durable!Next \/ UNCHANGED <<rows, lines>>
  <2>1. r \in rows /\ r.id \in Ids
    BY <1>3, LeftQueued, Zenon DEF WriteRow, WriteFails, LogInv
  <2>2. rows' = rows /\ (lines' = lines \/ lines' = [lines EXCEPT ![r.id] = @ + 1])
    BY <1>3, Zenon DEF WriteRow, WriteFails
  <2>3. ASSUME lines' = [lines EXCEPT ![r.id] = @ + 1]
        PROVE  Durable!Next
    <3>1. \A i \in Ids : lines'[i] = IF i = r.id THEN lines[i] + 1 ELSE lines[i]
      BY <1>0, <2>3, ZenonT(40)
    <3>2. {i \in Ids : lines'[i] > 0} = Logged \cup {r.id}
      <4>1. lines[r.id] + 1 > 0
        BY <1>0, <2>1, OneMoreIsPositive, Zenon
      <4> QED BY <2>1, <3>1, <4>1, Zenon
    <3>3. Durable!Append(r.id)
      BY <2>1, <2>2, <3>2, ZenonT(40) DEF Durable!Append
    <3> QED BY <2>1, <3>3, ZenonT(40) DEF Durable!Next
  <2> QED BY <2>2, <2>3, Zenon
<1>4. CASE DeleteBatch
  <2>0. PICK S : S = {r.id : r \in job.batch}
    BY Zenon
  <2>1. job.kind # "none" /\ job.phase = "delete" /\ lines' = lines
    BY <1>4 DEF DeleteBatch
  <2>2. rows' = rows \ job.batch
    BY <1>4, <2>1, CoveredIsBatch, Zenon DEF DeleteBatch, LogInv
  <2>3. job.batch \subseteq rows
    BY <2>1, BatchFinite, Zenon DEF LogInv
  <2>4. job.batch = Done
    BY <2>1, ZenonT(40) DEF Done, LogInv, BatchFirst
  <2>5. S \subseteq Logged /\ S \subseteq Queue
    BY <1>0, <2>0, <2>3, <2>4, Zenon DEF LogInv, LinesCounted
  <2>6. {r.id : r \in rows'} = Queue \ S
    BY <2>0, <2>2, <2>3, Zenon DEF LogInv, IdsFresh
  <2>7. Durable!Retire(S)
    BY <2>1, <2>5, <2>6, ZenonT(40) DEF Durable!Retire
  <2> QED BY <2>5, <2>7 DEF Durable!Next
<1>5. CASE UNCHANGED logVars
  BY <1>1, <1>5 DEF logVars
<1> QED BY <1>1, <1>2, <1>3, <1>4, <1>5, TableFootprint, ZenonT(40)

(* Under any sequence of batches, failures, restarts and crashes an        *)
(* accepted event leaves the queue only after its line has been appended.  *)
THEOREM LogIsDurable == LogSpec => ImplementsDurableLog
<1>1. LogInitState => Durable!Init
  BY DurableInit
<1>2. LogInv /\ [LogNext]_logVars => [Durable!Next]_(Durable!durableVars)
  BY DurableStep
<1> QED BY <1>1, <1>2, LogInvariance, PTL DEF LogSpec, ImplementsDurableLog, Durable!Spec

(* No line is appended behind the boundary that closes its day, unless a   *)
(* fault or LOGGING ON with rows queued has disturbed the channel's order. *)
THEOREM ClosedDaysStayClosed == LogSpec => NoLineAfterClosing
<1> DEFINE Kept == \A r \in rows :
                     lines'[r.id] > lines[r.id] /\ <<r.chan, Day(r.time)>> \in closed
                        => r.chan \in disturbed
<1>1. ASSUME LogInv, OrderInv, LogNext
      PROVE  Kept
  <2> SUFFICES ASSUME NEW r \in rows, lines'[r.id] > lines[r.id],
                      <<r.chan, Day(r.time)>> \in closed, r.chan \notin disturbed
               PROVE  FALSE
    BY Zenon
  <2>1. /\ LogTypeOK /\ lines \in [Ids -> Nat] /\ r.id \in Ids /\ r.chan \in Channels
        /\ Day(r.time) \in Days /\ Day(r.time) \in Nat
    BY <1>1, DayFacts, ZenonT(40) DEF LogInv, LogTypeOK, Row
  <2>2. lines[r.id] \in Nat
    BY <2>1, ZenonT(40)
  <2>3. ~(lines' = lines)
    BY <2>2, NotGreaterThanItself
  <2>4. PICK w \in job.left : WriteRow(w) \/ WriteFails(w)
    BY <1>1, <2>3, TableFootprint, Zenon DEF EventQueued, DeleteBatch
  <2>5. NextRow(w) /\ lines' = [lines EXCEPT ![w.id] = @ + 1]
    BY <2>3, <2>4, Zenon DEF WriteRow, WriteFails
  <2>6. w \in rows /\ w \notin Done
    BY <1>1, <2>5, LeftQueued, ZenonT(40) DEF LogInv
  <2>7. r.id = w.id
    BY <2>1, <2>2, <2>5, SMT, SMTT(30)
  <2>8. r \in Queued(r.chan) \ Done
    <3>1. r = w
      BY <1>1, <2>6, <2>7, ZenonT(40) DEF LogInv, IdsFresh
    <3> QED BY <2>6, <3>1, Zenon DEF Queued
  <2>9. InDayOrder(r.chan)
    BY <1>1, <2>1 DEF OrderInv
  <2>10. Day(r.time) < Day(r.time)
    BY <2>1, <2>8, <2>9, ZenonT(40) DEF InDayOrder
  <2> QED BY <2>1, <2>10, SMT, SMTT(30)
<1>2. OrderInv /\ UNCHANGED logVars => OrderInv'
  BY ZenonT(40) DEF logVars, OrderInv, InDayOrder, Queued, Done
<1>3. LogInv /\ OrderInv /\ [LogNext]_logVars => OrderInv'
  BY <1>2, OrderStep, Zenon
<1>4. LogInv /\ OrderInv /\ [LogNext]_logVars => [Kept]_logVars
  BY <1>1
<1>5. LogInitState => OrderInv
  BY OrderInit
<1> QED BY <1>3, <1>4, <1>5, LogInvariance, PTL DEF LogSpec, NoLineAfterClosing

\* So the process as a whole is a durable log: an accepted channel event leaves
\* the queue only after its line has been appended.
THEOREM ProcessIsDurable == Spec => ImplementsDurableLog
BY ProcessRunsTheLog, LogIsDurable, PTL

-----------------------------------------------------------------------------
(* Theorems about the process                                              *)

\* The workers, the handler and the flags agree in every state of the process.
THEOREM LifeInvariance == Spec => []LifeInv
<1>1. LifeInv /\ [Next]_vars => LifeInv'
  BY MainHolds, SignalHolds, HandlerHolds, WorkerHolds, ClockHolds, StutterHolds, FinalHolds,
     GoneHolds, ZenonT(40) DEF Next, Crash
<1>2. QED  BY LifeInit, <1>1, PTL DEF Spec

\* A signal is never lost between initialisation and the event loop, on
\* whichever thread and at whichever step of main() it is handled.
THEOREM NoSignalIsLost == Spec => []SignalReachesServer
<1>1. LifeInv => SignalReachesServer  BY Zenon DEF LifeInv, FlagsOK
<1>2. QED  BY <1>1, LifeInvariance, PTL

\* No worker thread, and nothing in its pipes, is left when a server is started
\* or the log is flushed for the last time.
THEOREM WorkersEndWithServer == Spec => []NoWorkerOutlivesServer
<1>1. LifeInv => NoWorkerOutlivesServer
  BY DEF LifeInv, WorkersOK, WithoutWorkers, NoWorkerOutlivesServer
<1>2. QED  BY <1>1, LifeInvariance, PTL
=============================================================================
