----------------------------- MODULE ChannelLog -----------------------------
(***************************************************************************)
(* Durable, batched channel logging: channel_log.c over the queue table of *)
(* chanserv_db_logging.c.                                                  *)
(*                                                                         *)
(* A channel event is inserted into an SQLite queue; a maintenance pass    *)
(* (channel_log_rotate_all) appends the due rows to one text file per      *)
(* channel and day and then deletes them.  The queue, the files and the    *)
(* channel registrations survive the process; the per-channel states, the  *)
(* cached row count and the flush in progress do not.  The process is      *)
(* single-threaded: while a flush (job) is in progress nothing else of     *)
(* this module runs, but every step of it can fail, and the process can    *)
(* die between any two of them.                                            *)
(*                                                                         *)
(* A row is [id, chan, time]; its text is abstracted.  A file is the pair  *)
(* <<channel, day>>; of its contents the model keeps the closing midnight  *)
(* boundary and, per row id, how often the line was appended.              *)
(***************************************************************************)
EXTENDS Integers, FiniteSets

CONSTANTS Channels,    \* channel names
          QueueMax,    \* channel_log_queue_max_rows
          FetchRows,   \* CHANNEL_LOG_FLUSH_FETCH_ROWS
          FlushRows,   \* CHANNEL_LOG_FLUSH_DUE_MAX_ROWS
          RotateStates,\* CHANNEL_LOG_ROTATION_SCAN_STATES
          Batch,       \* IRCD_CHANNEL_LOG_BATCH_SECONDS
          DayLength,   \* clock units per local day
          MaxTime,     \* bound: the last clock value
          MaxId,       \* bound: rows ever accepted
          MaxFaults    \* bound: crashes and failed writes, deletes, updates

ASSUME LogConstants ==
    /\ QueueMax \in Nat
    /\ FetchRows \in Nat \ {0} /\ FlushRows \in Nat \ {0}
    /\ RotateStates \in Nat \ {0}
    /\ Batch \in Nat /\ DayLength \in Nat \ {0}
    /\ MaxTime \in Nat /\ MaxId \in Nat /\ MaxFaults \in Nat

VARIABLES now,        \* the wall clock
          registered, \* channels with an enabled ChanServ registration
          logging,    \* channels whose row has logging_enabled = 1
          rows,       \* channel_log_queue
          nextId,     \* its AUTOINCREMENT counter
          lines,      \* row id -> number of times its line was appended
          files,      \* the text files that exist, none of them empty
          closed,     \* files that end a day with the midnight boundary
          state,      \* ChannelLogState per channel
          count,      \* log_queue_count
          job,        \* the flush in progress, or NoJob
          running,    \* channel_log_init has succeeded in this process
          faults,     \* crashes and failed steps so far
          disturbed   \* channels whose rows may now be out of day order

dbVars == <<registered, logging>>
logVars == <<now, registered, logging, rows, nextId, lines, files, closed,
             state, count, job, running, faults, disturbed>>

Times == 0 .. MaxTime
Ids == 1 .. MaxId
Day(t) == t \div DayLength
Days == 0 .. Day(MaxTime)
Files == Channels \X Days
Row == [id : Ids, chan : Channels, time : Times]

NoDay == -1

\* A channel without a state, and the state calloc gives a new one.
NoState == [exists |-> FALSE, known |-> FALSE, enabled |-> FALSE, suffix |-> NoDay]
Created(s) == [s EXCEPT !.exists = TRUE]

\* The flush in progress: a due flush takes rows up to its cutoff of every
\* channel, LOGGING OFF takes the rows of its one channel.
JobKind == {"none", "maintain", "shutdown", "off"}
Phase == {"fetch", "write", "delete", "after"}
NewJob(kind, chans, cutoff) ==
    [kind |-> kind, chans |-> chans, cutoff |-> cutoff, phase |-> "fetch",
     batch |-> {}, left |-> {}, total |-> 0]
NoJob == NewJob("none", {}, 0)
Idle == running /\ job.kind = "none"

Fault == faults < MaxFaults /\ faults' = faults + 1

LogInitState ==
    /\ now = 0
    /\ registered \in SUBSET Channels
    /\ logging \in SUBSET registered
    /\ rows = {} /\ nextId = 1
    /\ lines = [i \in Ids |-> 0]
    /\ files = {}
    /\ closed = {}
    /\ state = [c \in Channels |-> NoState]
    /\ count = 0
    /\ job = NoJob
    /\ running = FALSE
    /\ faults = 0
    /\ disturbed = {}

-----------------------------------------------------------------------------
(* state_for, state_enabled and ensure_file *)

Queued(c) == {r \in rows : r.chan = c}

\* A cached state decides; only without one is the table asked.
StateEnabled(c) ==
    IF state[c].exists THEN state[c].enabled ELSE c \in registered \cap logging

\* state_enabled creates the state of a channel it finds enabled.
Cached(c) ==
    IF state[c].exists THEN state[c]
    ELSE [exists |-> TRUE, known |-> TRUE, enabled |-> TRUE, suffix |-> NoDay]

\* The file ensure_file closes when it moves channel c to day d.
Left(c, d) == IF state[c].suffix \in {NoDay, d} THEN {} ELSE {<<c, state[c].suffix>>}

\* The files that exist after ensure_file(c, t): it appends a boundary to the
\* one it leaves, and to the new one unless that already has contents.
Bounded(c, t) ==
    Left(c, Day(t)) \cup {<<c, Day(t)>>}

-----------------------------------------------------------------------------
(* channel_log_join, _part, _quit and _message: enqueue *)

EventIgnored(c) ==
    /\ Idle
    /\ ~StateEnabled(c)
    /\ UNCHANGED logVars

EventQueued(c) ==
    /\ Idle
    /\ StateEnabled(c)
    /\ count < QueueMax
    /\ nextId <= MaxId /\ now + Batch <= MaxTime
    /\ rows' = rows \cup {[id |-> nextId, chan |-> c, time |-> now]}
    /\ nextId' = nextId + 1
    /\ count' = count + 1
    /\ state' = [state EXCEPT ![c] = Cached(c)]
    /\ UNCHANGED <<now, dbVars, lines, files, closed, job, running, faults,
                   disturbed>>

\* At the configured ceiling a new event is refused, never old backlog.
EventRefused(c) ==
    /\ Idle
    /\ StateEnabled(c)
    /\ count >= QueueMax
    /\ state' = [state EXCEPT ![c] = Cached(c)]
    /\ UNCHANGED <<now, dbVars, rows, nextId, lines, files, closed, count, job,
                   running, faults, disturbed>>

\* SQLite cannot insert the row.
EventFails(c) ==
    /\ Idle
    /\ StateEnabled(c)
    /\ count < QueueMax
    /\ Fault
    /\ state' = [state EXCEPT ![c] = Cached(c)]
    /\ UNCHANGED <<now, dbVars, rows, nextId, lines, files, closed, count, job,
                   running, disturbed>>

-----------------------------------------------------------------------------
(* flush_queued and flush_channel: fetch a batch, append it, delete it *)

\* ORDER BY event_time,id of the due fetch, ORDER BY id of the channel fetch.
Before(r, s) == r.time < s.time \/ (r.time = s.time /\ r.id <= s.id)
InOrder(kind, r, s) == IF kind = "off" THEN r.id <= s.id ELSE Before(r, s)

Pool == {r \in rows : r.chan \in job.chans /\ r.time <= job.cutoff}

\* The LIMIT n first rows of a pool.
IsFirst(B, P, n, kind) ==
    /\ B \subseteq P
    /\ Cardinality(B) = (IF Cardinality(P) <= n THEN Cardinality(P) ELSE n)
    /\ \A r \in B : \A s \in P \ B : InOrder(kind, r, s)

Capacity == IF FlushRows - job.total < FetchRows THEN FlushRows - job.total ELSE FetchRows

Fetch ==
    /\ job.kind # "none" /\ job.phase = "fetch"
    /\ \/ /\ Capacity = 0 \/ Pool = {}
          /\ job' = [job EXCEPT !.phase = "after"]
       \/ /\ Capacity # 0 /\ Pool # {}
          /\ \E B \in SUBSET Pool :
                /\ IsFirst(B, Pool, Capacity, job.kind)
                /\ job' = [job EXCEPT !.batch = B, !.left = B, !.phase = "write"]
    /\ UNCHANGED <<now, dbVars, rows, nextId, lines, files, closed, state, count,
                   running, faults, disturbed>>

NextRow(r) ==
    /\ job.kind # "none" /\ job.phase = "write"
    /\ r \in job.left
    /\ \A s \in job.left : InOrder(job.kind, r, s)

\* write_queue_record: ensure_file for the row's own day, then the line.
OnDay(s, d) == [Created(s) EXCEPT !.suffix = d]

WriteRow(r) ==
    /\ NextRow(r)
    /\ lines' = [lines EXCEPT ![r.id] = @ + 1]
    /\ files' = files \cup Bounded(r.chan, r.time)
    /\ closed' = closed \cup Left(r.chan, Day(r.time))
    /\ state' = [state EXCEPT ![r.chan] = OnDay(state[r.chan], Day(r.time))]
    /\ job' = [job EXCEPT !.left = job.left \ {r},
                          !.phase = IF job.left = {r} THEN "delete" ELSE "write"]
    /\ UNCHANGED <<now, dbVars, rows, nextId, count, running, faults, disturbed>>

\* The line, or already the logs directory or a boundary, cannot be written.
\* The flush gives up; whether the row's line reached the file is not known.
WriteFails(r) ==
    /\ NextRow(r)
    /\ Fault
    /\ \/ /\ state' = [state EXCEPT ![r.chan] = Created(state[r.chan])]
          /\ UNCHANGED <<lines, files, closed>>
       \/ /\ lines' \in {lines, [lines EXCEPT ![r.id] = @ + 1]}
          /\ files' = files \cup Bounded(r.chan, r.time)
          /\ closed' = closed \cup Left(r.chan, Day(r.time))
          /\ state' = [state EXCEPT ![r.chan] = OnDay(state[r.chan], Day(r.time))]
    /\ job' = [job EXCEPT !.phase = "after"]
    /\ disturbed' = Channels
    /\ UNCHANGED <<now, dbVars, rows, nextId, count, running>>

Mut_delete_short(r) ==
    r \in rows /\ \E s \in job.batch : Before(r, s) /\ r # s
Mut_delete_by_id(r) ==
    r \in rows /\ \E s \in job.batch : r.chan \in job.chans /\ r.id <= s.id

\* delete_ordered_through the last row written, or delete_through its id.
Covered(r) ==
    /\ r \in rows
    /\ \E s \in job.batch :
         IF job.kind = "off" THEN r.chan \in job.chans /\ r.id <= s.id ELSE Before(r, s)

DeleteBatch ==
    /\ job.kind # "none" /\ job.phase = "delete"
    /\ rows' = {r \in rows : ~Covered(r)}
    /\ count' = IF count >= Cardinality(job.batch) THEN count - Cardinality(job.batch) ELSE 0
    /\ job' = [job EXCEPT !.batch = {}, !.phase = "fetch",
                          !.total = job.total + Cardinality(job.batch)]
    /\ UNCHANGED <<now, dbVars, nextId, lines, files, closed, state, running,
                   faults, disturbed>>

\* SQLite cannot fetch or delete: the flush ends and its rows stay queued.
FlushFails ==
    /\ job.kind # "none" /\ job.phase \in {"fetch", "delete"}
    /\ Fault
    /\ job' = [job EXCEPT !.phase = "after"]
    /\ disturbed' = Channels
    /\ UNCHANGED <<now, dbVars, rows, nextId, lines, files, closed, state, count,
                   running>>

-----------------------------------------------------------------------------
(* channel_log_rotate_all, run once per second by the event loop *)

StartMaintenance ==
    /\ Idle
    /\ job' = NewJob("maintain", Channels, now - Batch)
    /\ UNCHANGED <<now, dbVars, rows, nextId, lines, files, closed, state, count,
                   running, faults, disturbed>>

Mut_rotate_with_backlog(c) ==
    /\ state[c].exists /\ state[c].known /\ state[c].enabled
    /\ state[c].suffix \notin {NoDay, Day(now)}

\* Rotation leaves a channel alone while it has queued rows.
RotationDue(c) ==
    /\ state[c].exists /\ state[c].known /\ state[c].enabled
    /\ state[c].suffix \notin {NoDay, Day(now)}
    /\ Queued(c) = {}

\* prune_old_log_files removes what was last written 90 days ago: never a file
\* of today, and of the older ones the model leaves open which.
Expired == {f \in files : f[2] < Day(now)}

\* After the flush: one bounded step of the retention scan, then one of the
\* rotation scan.  Both resume where the last pass stopped, so a pass visits
\* some of the expired files and some of the states.
FinishMaintenance ==
    /\ job.kind = "maintain" /\ job.phase = "after"
    /\ \E gone \in SUBSET Expired, seen \in SUBSET Channels :
         LET turn == {c \in seen : RotationDue(c)}
         IN /\ Cardinality(seen) <= RotateStates
            /\ files' = (files \ gone) \cup UNION {Bounded(c, now) : c \in turn}
            /\ closed' = (closed \ gone) \cup UNION {Left(c, Day(now)) : c \in turn}
            /\ state' = [c \in Channels |->
                            IF c \in turn THEN OnDay(state[c], Day(now)) ELSE state[c]]
    /\ job' = NoJob
    /\ UNCHANGED <<now, dbVars, rows, nextId, lines, count, running, faults,
                   disturbed>>

\* main()'s one best-effort pass after server_destroy: everything is due.
StartShutdownFlush ==
    /\ Idle
    /\ job' = NewJob("shutdown", Channels, now)
    /\ UNCHANGED <<now, dbVars, rows, nextId, lines, files, closed, state, count,
                   running, faults, disturbed>>

FinishShutdownFlush ==
    /\ job.kind = "shutdown" /\ job.phase = "after"
    /\ job' = NoJob
    /\ UNCHANGED <<now, dbVars, rows, nextId, lines, files, closed, state, count,
                   running, faults, disturbed>>

-----------------------------------------------------------------------------
(* channel_log_handle_chanserv: SET <channel> LOGGING ON|OFF by an operator *)

SetLoggingOn(c) ==
    /\ Idle
    /\ c \in registered
    /\ logging' = logging \cup {c}
    /\ state' = [state EXCEPT ![c] =
          [exists |-> TRUE, known |-> TRUE, enabled |-> TRUE, suffix |-> Day(now)]]
    /\ files' = files \cup Bounded(c, now)
    /\ closed' = closed \cup Left(c, Day(now))
    /\ disturbed' = IF Queued(c) = {} THEN disturbed ELSE disturbed \cup {c}
    /\ UNCHANGED <<now, registered, rows, nextId, lines, count, job, running,
                   faults>>

\* The UPDATE fails: the handler returns, but its state_for stays.  Or there is
\* no logs directory: ensure_file gives up and logging is on all the same.
SetLoggingOnFails(c) ==
    /\ Idle
    /\ c \in registered
    /\ Fault
    /\ \/ /\ state' = [state EXCEPT ![c] = Created(state[c])]
          /\ UNCHANGED logging
       \/ /\ state' = [state EXCEPT ![c] = [exists |-> TRUE, known |-> TRUE,
                                          enabled |-> TRUE, suffix |-> state[c].suffix]]
          /\ logging' = logging \cup {c}
    /\ UNCHANGED <<now, registered, rows, nextId, lines, files, closed, count, job,
                   running, disturbed>>

\* OFF first drains the channel's queue, within the bound of one flush.
SetLoggingOff(c) ==
    /\ Idle
    /\ c \in registered
    /\ state' = [state EXCEPT ![c] = Created(state[c])]
    /\ job' = NewJob("off", {c}, MaxTime)
    /\ UNCHANGED <<now, dbVars, rows, nextId, lines, files, closed, count,
                   running, faults, disturbed>>

\* The file gets its last boundary only when nothing is queued for it.
Ending(c) ==
    IF state[c].enabled /\ state[c].suffix # NoDay /\ Queued(c) = {}
    THEN {<<c, state[c].suffix>>} ELSE {}

FinishSetLoggingOff(c) ==
    /\ job.kind = "off" /\ job.phase = "after" /\ c \in job.chans
    /\ logging' = logging \ {c}
    /\ files' = files \cup Ending(c)
    /\ state' = [state EXCEPT ![c].known = TRUE, ![c].enabled = FALSE]
    /\ job' = NoJob
    /\ UNCHANGED <<now, registered, rows, nextId, lines, closed, count, running,
                   faults, disturbed>>

SetLoggingOffFails ==
    /\ job.kind = "off" /\ job.phase = "after"
    /\ Fault
    /\ job' = NoJob
    /\ UNCHANGED <<now, dbVars, rows, nextId, lines, files, closed, state, count,
                   running, disturbed>>

-----------------------------------------------------------------------------
(* The environment: ChanServ, the clock, and the life of the process *)

\* A channel is registered, or a disabled registration is enabled again.
Register(c) ==
    /\ Idle
    /\ c \notin registered
    /\ registered' = registered \cup {c}
    /\ UNCHANGED <<now, logging, rows, nextId, lines, files, closed, state, count,
                   job, running, faults, disturbed>>

\* DROP deletes the row; disabling keeps its logging_enabled.  Neither tells
\* channel_log.c.
Unregister(c) ==
    /\ Idle
    /\ c \in registered
    /\ registered' = registered \ {c}
    /\ logging' \in {logging, logging \ {c}}
    /\ UNCHANGED <<now, rows, nextId, lines, files, closed, state, count, job,
                   running, faults, disturbed>>

\* channel_log_rotate_all is passed the time once and nothing else of a pass
\* reads the clock, so that it may as well stand still until the pass is over.
Tick ==
    /\ job.kind # "maintain"
    /\ now < MaxTime
    /\ now' = now + 1
    /\ UNCHANGED <<dbVars, rows, nextId, lines, files, closed, state, count, job,
                   running, faults, disturbed>>

ClockBack ==
    /\ job.kind # "maintain"
    /\ Fault
    /\ now' \in {t \in Times : t < now}
    /\ disturbed' = Channels
    /\ UNCHANGED <<dbVars, rows, nextId, lines, files, closed, state, count, job,
                   running>>

Mut_count_not_loaded ==
    /\ job.kind = "none"
    /\ running' = TRUE
    /\ state' = [c \in Channels |-> NoState]
    /\ count' = 0
    /\ UNCHANGED <<now, dbVars, rows, nextId, lines, files, closed, job, faults,
                   disturbed>>

\* channel_log_init: forget every state and count the rows that survived.
LogInit ==
    /\ job.kind = "none"
    /\ running' = TRUE
    /\ state' = [c \in Channels |-> NoState]
    /\ count' = Cardinality(rows)
    /\ UNCHANGED <<now, dbVars, rows, nextId, lines, files, closed, job, faults,
                   disturbed>>

\* The process ends in an orderly way, or dies at any point: its memory goes.
ProcessGone ==
    /\ running' = FALSE
    /\ state' = [c \in Channels |-> NoState]
    /\ count' = 0
    /\ job' = NoJob
    /\ UNCHANGED <<now, dbVars, rows, nextId, lines, files, closed>>

LogExit == Idle /\ ProcessGone /\ UNCHANGED <<faults, disturbed>>
LogCrash == running /\ Fault /\ ProcessGone /\ disturbed' = Channels

LogStep ==
    \/ Fetch \/ DeleteBatch \/ FlushFails
    \/ \E r \in job.left : WriteRow(r) \/ WriteFails(r)
    \/ FinishMaintenance \/ FinishShutdownFlush
    \/ \E c \in Channels : FinishSetLoggingOff(c)
    \/ SetLoggingOffFails

LogRequest ==
    \/ \E c \in Channels : EventIgnored(c) \/ EventQueued(c) \/ EventRefused(c) \/ EventFails(c)
    \/ \E c \in Channels : SetLoggingOn(c) \/ SetLoggingOnFails(c) \/ SetLoggingOff(c)
    \/ \E c \in Channels : Register(c) \/ Unregister(c)
    \/ StartMaintenance

LogNext ==
    \/ LogStep \/ LogRequest \/ StartShutdownFlush
    \/ Tick \/ ClockBack
    \/ LogInit \/ LogExit \/ LogCrash

LogSpec == LogInitState /\ [][LogNext]_logVars

-----------------------------------------------------------------------------
(* Correctness *)

StateRecord ==
    [exists : BOOLEAN, known : BOOLEAN, enabled : BOOLEAN, suffix : Days \cup {NoDay}]
Job ==
    [kind : JobKind, chans : SUBSET Channels, cutoff : Int, phase : Phase,
     batch : SUBSET Row, left : SUBSET Row, total : Nat]

\* Every variable keeps its type.
LogTypeOK ==
    /\ now \in Times
    /\ registered \subseteq Channels /\ logging \subseteq Channels
    /\ rows \subseteq Row /\ nextId \in Nat \ {0}
    /\ lines \in [Ids -> Nat]
    /\ files \subseteq Files
    /\ closed \subseteq Files
    /\ state \in [Channels -> StateRecord]
    /\ count \in Nat
    /\ job \in Job
    /\ running \in BOOLEAN /\ faults \in 0 .. MaxFaults
    /\ disturbed \subseteq Channels

\* The cached row count of channel_log.c is the number of rows in the table at
\* every point between two steps, through failed deletes, restarts and
\* crashes, so the configured ceiling bounds the table itself.
CountExact ==
    /\ running => count = Cardinality(rows)
    /\ Cardinality(rows) <= QueueMax

\* A line is repeated only because something went wrong: a row is appended at
\* most once more than there were crashes and failed steps.
RepeatsNeedFaults == \A i \in Ids : lines[i] <= 1 + faults

\* No line is appended to a day's file after the boundary that closes that
\* day, unless a failure, a clock step back, or LOGGING ON while rows were
\* queued has put the channel's rows out of day order.
NoLineAfterClosing ==
    [][\A r \in rows :
         lines'[r.id] > lines[r.id] /\ <<r.chan, Day(r.time)>> \in closed
            => r.chan \in disturbed]_logVars

\* Whatever batching, failures, restarts and crashes do inside, the queue and
\* the files behave as the durable log: an accepted event leaves the queue
\* only after its line has been appended.
Durable == INSTANCE DurableLog
             WITH Event <- Ids,
                  queued <- {r.id : r \in rows},
                  logged <- {i \in Ids : lines[i] > 0}
ImplementsDurableLog == Durable!Spec
=============================================================================
