----------------------------- MODULE ServerLife -----------------------------
(***************************************************************************)
(* The life of the process: main()'s start, serve, tear down and restart   *)
(* loop, the SIGTERM/SIGINT handler, the RESTART and DIE commands, and the *)
(* components main() starts and stops: the two lookup workers (Resolver)   *)
(* and the durable channel log (ChannelLog).                               *)
(*                                                                         *)
(* A signal may be handled on the event-loop thread, where it is atomic to *)
(* main(), or on a worker thread, where its steps interleave with main()'s *)
(* and hold up that worker.  The process may also die at any point; the    *)
(* SQLite queue and the text files survive it.                             *)
(***************************************************************************)
EXTENDS ChannelLog, Resolver

CONSTANT MaxRequests   \* bound: requests of clients that reach a component

ASSUME LifeConstants == MaxRequests \in Nat

VARIABLES pc,          \* where main() is
          pending,     \* shutdown_signal_pending
          active,      \* server_active
          shutdownReq, \* server.shutdown_requested
          restartReq,  \* server.restart_requested
          restart,     \* main()'s decision when server_run returned
          maintained,  \* server_run's maintenance_second is the current second
          handler,     \* the worker a signal handler runs on, and its step
          served       \* requests of clients so far

mainVars == <<pc, pending, active, shutdownReq, restartReq, restart, maintained, handler,
              served>>
\* What most steps of main() leave alone.
flagVars == <<pending, active, shutdownReq, restartReq, restart, maintained, handler>>
restVars == <<logVars, resolverVars, served>>
vars == <<logVars, resolverVars, mainVars>>

NoHandler == [on |-> 0, step |-> "none"]

ServerLifeInit ==
    /\ LogInitState
    /\ ResolverInit
    /\ pc = "load"
    /\ pending = FALSE /\ active = FALSE
    /\ shutdownReq = FALSE /\ restartReq = FALSE
    /\ restart = FALSE
    /\ maintained = FALSE
    /\ handler = NoHandler
    /\ served = 0

\* main() goes on to the next step of its loop; a flush in progress holds it.
Goto(from, to) == pc = from /\ job.kind = "none" /\ pc' = to

-----------------------------------------------------------------------------
(* The signal handler *)

SignalOnMain ==
    /\ pc # "exited"
    /\ pending' = TRUE
    /\ shutdownReq' = (shutdownReq \/ active)
    /\ restartReq' = (restartReq \/ active)
    /\ UNCHANGED <<pc, active, restart, maintained, handler, restVars>>

\* Only the first signal of a process is delivered to a worker: repeated ones
\* go to the event-loop thread, so that no worker is interrupted for ever.
SignalOnWorker(r) ==
    /\ ~pending
    /\ thread[r] \notin {"none", "ended"}
    /\ pending' = TRUE
    /\ handler' = [on |-> r, step |-> "active"]
    /\ UNCHANGED <<pc, active, shutdownReq, restartReq, restart, maintained, restVars>>

HandlerStep ==
    /\ \/ /\ handler.step = "active"
          /\ handler' = IF active THEN [handler EXCEPT !.step = "shutdown"] ELSE NoHandler
          /\ UNCHANGED <<shutdownReq, restartReq>>
       \/ /\ handler.step = "shutdown"
          /\ shutdownReq' = TRUE
          /\ handler' = [handler EXCEPT !.step = "restart"]
          /\ UNCHANGED restartReq
       \/ /\ handler.step = "restart"
          /\ restartReq' = TRUE
          /\ handler' = NoHandler
          /\ UNCHANGED shutdownReq
    /\ UNCHANGED <<pc, pending, active, restart, maintained, restVars>>

WorkerStep(r) ==
    /\ handler.on # r
    /\ Worker(r)
    /\ UNCHANGED <<mainVars, logVars>>

-----------------------------------------------------------------------------
(* main(): starting a server *)

\* The process is over and its memory, threads and pipes are gone.
Gone ==
    /\ pc # "exited" /\ pc' = "exited"
    /\ active' = FALSE /\ pending' = FALSE
    /\ shutdownReq' = FALSE /\ restartReq' = FALSE
    /\ restart' = FALSE /\ maintained' = FALSE /\ handler' = NoHandler
    /\ ResolversGone
    /\ UNCHANGED served

\* Return from main().
Exit == Gone /\ IF running THEN LogExit ELSE UNCHANGED logVars

\* The signal check, then the configuration, which may fail to load.
Load ==
    /\ pc = "load"
    /\ \/ Exit
       \/ /\ ~pending
          /\ pc' = "databases"
          /\ UNCHANGED <<flagVars, restVars>>

\* The signal check, then ensure_databases, which may fail.
EnsureDatabases ==
    /\ pc = "databases"
    /\ \/ Exit
       \/ /\ ~pending
          /\ pc' = "init"
          /\ UNCHANGED <<flagVars, restVars>>

Mut_flags_not_cleared ==
    /\ pc = "init"
    /\ \/ Exit
       \/ /\ ~pending
          /\ LogInit
          /\ \/ Goto("init", "activate") /\ InitResolvers(Resolvers)
             \/ \E n \in Resolvers \cup {0} :
                  Goto("init", "unwind") /\ InitResolvers({r \in Resolvers : r <= n})
          /\ UNCHANGED <<flagVars, served>>

\* The signal check, then server_init: the Server is cleared, the channel log
\* and the resolvers start in order, and a failure unwinds what has started
\* (at once, before the channel log has).
ServerInit ==
    /\ pc = "init"
    /\ \/ Exit
       \/ /\ ~pending
          /\ shutdownReq' = FALSE /\ restartReq' = FALSE
          /\ LogInit
          /\ \/ Goto("init", "activate") /\ InitResolvers(Resolvers)
             \/ \E n \in Resolvers \cup {0} :
                  Goto("init", "unwind") /\ InitResolvers({r \in Resolvers : r <= n})
          /\ UNCHANGED <<pending, active, restart, maintained, handler, served>>

Activate ==
    /\ Goto("activate", "check")
    /\ active' = TRUE
    /\ UNCHANGED <<pending, shutdownReq, restartReq, restart, maintained, handler, restVars>>

Mut_pending_not_consulted ==
    /\ Goto("check", "turn")
    /\ UNCHANGED <<flagVars, restVars>>

CheckPending ==
    /\ Goto("check", "turn")
    /\ shutdownReq' = (shutdownReq \/ pending)
    /\ restartReq' = (restartReq \/ pending)
    /\ UNCHANGED <<pending, active, restart, maintained, handler, restVars>>

-----------------------------------------------------------------------------
(* server_run: turns of the event loop, each followed by maintenance *)

Serving == pc = "turn" /\ ~restartReq

\* A turn in which no client asks for anything that is modelled here.
QuietTurn ==
    /\ Serving
    /\ Goto("turn", "maintain")
    /\ DrainResults
    /\ UNCHANGED <<flagVars, logVars, thread, requests, stopping, feeding, served>>

\* A channel event or SET LOGGING, or ChanServ changing a registration.
LogTurn ==
    /\ Serving
    /\ Goto("turn", "maintain")
    /\ \E c \in Channels :
         \/ EventIgnored(c) \/ EventQueued(c) \/ EventRefused(c) \/ EventFails(c)
         \/ SetLoggingOn(c) \/ SetLoggingOnFails(c) \/ SetLoggingOff(c)
         \/ Register(c) \/ Unregister(c)
    /\ served < MaxRequests /\ served' = served + 1
    /\ DrainResults
    /\ UNCHANGED <<flagVars, thread, requests, stopping, feeding>>

\* A connection asks for a lookup.
LookupTurn ==
    /\ Serving
    /\ Goto("turn", "maintain")
    /\ \E r \in Resolvers : Submit(r)
    /\ served < MaxRequests /\ served' = served + 1
    /\ DrainResults
    /\ UNCHANGED <<flagVars, logVars>>

\* RESTART and DIE are dispatched before the poll, where the loop is left at
\* once, or after it, where the turn's maintenance still runs.
RestartCommand ==
    /\ Serving
    /\ Goto("turn", "turn") \/ Goto("turn", "maintain")
    /\ restartReq' = TRUE
    /\ UNCHANGED <<pending, active, shutdownReq, restart, maintained, handler, restVars>>

DieCommand ==
    /\ Serving
    /\ Goto("turn", "turn") \/ Goto("turn", "maintain")
    /\ shutdownReq' = TRUE /\ restartReq' = TRUE
    /\ UNCHANGED <<pending, active, restart, maintained, handler, restVars>>

\* poll fails, or memory runs out: server_run returns with no flag set.
RunFails ==
    /\ Serving
    /\ Goto("turn", "deactivate")
    /\ UNCHANGED <<flagVars, restVars>>

LeaveLoop ==
    /\ restartReq
    /\ Goto("turn", "deactivate")
    /\ UNCHANGED <<flagVars, restVars>>

\* A step of the flush that is in progress, wherever main() started it.
JobStep ==
    /\ LogStep
    /\ pc' = IF pc = "flushing" /\ job'.kind = "none" THEN "final" ELSE pc
    /\ UNCHANGED <<flagVars, resolverVars, served>>

\* Maintenance runs once per clock second; the last clock value of the model
\* stands for every later second.
Maintain ==
    /\ Goto("maintain", "turn")
    /\ ~maintained
    /\ StartMaintenance
    /\ maintained' = (now # MaxTime)
    /\ UNCHANGED <<pending, active, shutdownReq, restartReq, restart, handler,
                   resolverVars, served>>

SkipMaintenance ==
    /\ Goto("maintain", "turn")
    /\ maintained
    /\ UNCHANGED <<flagVars, restVars>>

-----------------------------------------------------------------------------
(* main(): tearing a server down, and the decision to start another *)

Deactivate ==
    /\ Goto("deactivate", "outcome")
    /\ active' = FALSE
    /\ maintained' = FALSE
    /\ UNCHANGED <<pending, shutdownReq, restartReq, restart, handler, restVars>>

\* A failure of the event loop, with neither flag set, ends the process too.
Outcome ==
    /\ Goto("outcome", "destroy")
    /\ restart' = (restartReq /\ ~shutdownReq)
    /\ UNCHANGED <<pending, active, shutdownReq, restartReq, maintained, handler, restVars>>

\* server_destroy first logs the QUIT of every channel membership.
DestroyLogs ==
    /\ pc = "destroy"
    /\ \A r \in Resolvers : feeding[r]
    /\ \E c \in Channels :
         EventIgnored(c) \/ EventQueued(c) \/ EventRefused(c) \/ EventFails(c)
    /\ UNCHANGED <<mainVars, resolverVars>>

\* dnsbl_resolver_destroy completes before dns_resolver_destroy begins.
DestroyResolver(r) ==
    /\ pc \in {"destroy", "unwind"}
    /\ \A q \in Resolvers : q > r => thread[q] = "none"
    /\ Stop(r) \/ Join(r)
    /\ UNCHANGED <<mainVars, logVars>>

Mut_flush_without_join ==
    /\ Goto("destroy", "flushing")
    /\ \A r \in Resolvers : ~feeding[r]
    /\ StartShutdownFlush
    /\ UNCHANGED <<flagVars, resolverVars, served>>

ShutdownFlush ==
    /\ Goto("destroy", "flushing")
    /\ \A r \in Resolvers : thread[r] = "none"
    /\ StartShutdownFlush
    /\ UNCHANGED <<flagVars, resolverVars, served>>

\* A failed server_init ends the process without a flush.
Unwound ==
    /\ pc = "unwind"
    /\ \A r \in Resolvers : thread[r] = "none"
    /\ Exit

\* A signal received meanwhile overrides RESTART.
Final ==
    /\ pc = "final"
    /\ IF pending \/ ~restart
       THEN Exit
       ELSE /\ pc' = "load"
            /\ restart' = FALSE
            /\ UNCHANGED <<pending, active, shutdownReq, restartReq, maintained, handler,
                           restVars>>

-----------------------------------------------------------------------------
(* The process as a whole *)

\* The process is killed, or the machine stops.
Crash == Gone /\ LogCrash

\* It is started again.
Boot ==
    /\ pc = "exited" /\ pc' = "load"
    /\ UNCHANGED <<flagVars, restVars>>

ClockVars == <<pc, pending, active, shutdownReq, restartReq, restart, handler, served,
               resolverVars>>

Mut_maintained_once == (Tick \/ ClockBack) /\ UNCHANGED <<maintained, ClockVars>>

\* The clock advances, or is set back: another second in either case.
Clock == (Tick \/ ClockBack) /\ maintained' = FALSE /\ UNCHANGED ClockVars

Main ==
    \/ Load \/ EnsureDatabases \/ ServerInit \/ Activate \/ CheckPending
    \/ QuietTurn \/ LogTurn \/ LookupTurn \/ RestartCommand \/ DieCommand
    \/ RunFails \/ LeaveLoop \/ JobStep \/ Maintain \/ SkipMaintenance
    \/ Deactivate \/ Outcome \/ DestroyLogs
    \/ \E r \in Resolvers : DestroyResolver(r)
    \/ ShutdownFlush \/ Unwound \/ Final

Next ==
    \/ Main
    \/ SignalOnMain \/ HandlerStep
    \/ \E r \in Resolvers : SignalOnWorker(r) \/ WorkerStep(r)
    \/ Crash \/ Boot \/ Clock

\* main() is never blocked for good by its own thread, the workers and the
\* handler are scheduled, a lookup returns, and the clock advances.
Fairness ==
    /\ WF_vars(Main)
    /\ WF_vars(HandlerStep)
    /\ \A r \in Resolvers : WF_vars(WorkerStep(r))
    /\ WF_vars(Tick /\ Clock)

Spec == ServerLifeInit /\ [][Next]_vars /\ Fairness

-----------------------------------------------------------------------------
(* Correctness *)

\* A signal taken in by a complete handler run is never lost between
\* initialisation and the event loop: whenever the loop is about to serve,
\* the pending signal is also a shutdown request on the server it serves.
SignalReachesServer ==
    pc \in {"turn", "maintain"} /\ pending /\ handler = NoHandler
        => shutdownReq /\ restartReq

\* A server is started, and the process ends or flushes its log, only when no
\* worker thread of an earlier server is left.
NoWorkerOutlivesServer ==
    pc \in {"load", "databases", "init", "flushing", "final", "exited"}
        => \A r \in Resolvers : thread[r] = "none" /\ requests[r] = 0 /\ results[r] = 0

\* A shutdown signal ends the process: no lookup in flight, full pipe, flush
\* or RESTART keeps it alive.
SignalEndsProcess == pending ~> (pc = "exited")

\* An accepted restart brings up a server that serves again, or the process
\* ends.
RestartServesAgain ==
    (pc = "turn" /\ restartReq) ~> (pc = "exited" \/ (pc = "turn" /\ ~restartReq))

\* Every queued row is appended to its text log, unless the process ends first.
QueuedIsLogged ==
    \A i \in Ids : (i \in {r.id : r \in rows}) ~> (lines[i] > 0 \/ pc = "exited")
=============================================================================
