------------------------------ MODULE Resolver ------------------------------
(***************************************************************************)
(* The two lookup workers, dns.c and dnsbl.c: one thread each, fed through *)
(* a request pipe and answering through a result pipe.  Both files have    *)
(* the same control; resolver 1 is dns, resolver 2 is dnsbl.  Requests and *)
(* answers are counted; what they say is in the registration model.        *)
(*                                                                         *)
(* Everything is done by the event-loop thread except the steps of Worker. *)
(***************************************************************************)
EXTENDS Naturals

CONSTANTS Resolvers,   \* 1 .. n, initialised upwards and destroyed downwards
          PipeMax      \* bound: records a pipe holds

VARIABLES thread,      \* what the worker thread is doing
          requests,    \* records in the request pipe
          results,     \* records in the result pipe
          stopping,    \* the stopping flag the worker polls
          feeding      \* the request pipe's write end is open

resolverVars == <<thread, requests, results, stopping, feeding>>

ResolverInit ==
    /\ thread = [r \in Resolvers |-> "none"]
    /\ requests = [r \in Resolvers |-> 0]
    /\ results = [r \in Resolvers |-> 0]
    /\ stopping = [r \in Resolvers |-> FALSE]
    /\ feeding = [r \in Resolvers |-> FALSE]

\* dns_resolver_init and dnsbl_resolver_init, for every resolver of S.
InitResolvers(S) ==
    /\ thread' = [r \in Resolvers |-> IF r \in S THEN "waiting" ELSE thread[r]]
    /\ feeding' = [r \in Resolvers |-> IF r \in S THEN TRUE ELSE feeding[r]]
    /\ stopping' = [r \in Resolvers |-> IF r \in S THEN FALSE ELSE stopping[r]]
    /\ requests' = [r \in Resolvers |-> IF r \in S THEN 0 ELSE requests[r]]
    /\ results' = [r \in Resolvers |-> IF r \in S THEN 0 ELSE results[r]]

\* resolver_submit: refused when the pipe is full or the resolver is stopping.
Submit(r) ==
    /\ thread[r] # "none" /\ ~stopping[r]
    /\ requests[r] < PipeMax
    /\ requests' = [requests EXCEPT ![r] = @ + 1]
    /\ UNCHANGED <<thread, stopping, feeding>>

\* drain_dns_results and drain_dnsbl_results: every turn of the event loop
\* reads a budget of answers, at least what the pipe holds here.
DrainResults == results' = [r \in Resolvers |-> 0]

-----------------------------------------------------------------------------
(* resolver_main *)

WorkerMoves(r, from, to) ==
    /\ thread[r] = from
    /\ thread' = [thread EXCEPT ![r] = to]

TakeRequest(r) ==
    /\ WorkerMoves(r, "waiting", "taken")
    /\ requests[r] > 0
    /\ requests' = [requests EXCEPT ![r] = @ - 1]
    /\ UNCHANGED <<results, stopping, feeding>>

EndOfRequests(r) ==
    /\ WorkerMoves(r, "waiting", "ended")
    /\ requests[r] = 0 /\ ~feeding[r]
    /\ UNCHANGED <<requests, results, stopping, feeding>>

\* The rest of the backlog is discarded once the resolver is stopping.
PollStopping(r) ==
    /\ WorkerMoves(r, "taken", IF stopping[r] THEN "ended" ELSE "resolving")
    /\ UNCHANGED <<requests, results, stopping, feeding>>

Mut_publish_blocks(r) ==
    /\ WorkerMoves(r, "resolving", "waiting")
    /\ results[r] < PipeMax
    /\ results' = [results EXCEPT ![r] = @ + 1]
    /\ UNCHANGED <<requests, stopping, feeding>>

\* getnameinfo and getaddrinfo may block, but return.  The result pipe does
\* not block: an answer that does not fit is dropped.
Resolve(r) ==
    /\ WorkerMoves(r, "resolving", "waiting")
    /\ results' = [results EXCEPT ![r] = IF @ < PipeMax THEN @ + 1 ELSE @]
    /\ UNCHANGED <<requests, stopping, feeding>>

Worker(r) ==
    TakeRequest(r) \/ EndOfRequests(r) \/ PollStopping(r) \/ Resolve(r)

-----------------------------------------------------------------------------
(* resolver_destroy: stop and close, join, close the rest *)

Stop(r) ==
    /\ feeding[r]
    /\ stopping' = [stopping EXCEPT ![r] = TRUE]
    /\ feeding' = [feeding EXCEPT ![r] = FALSE]
    /\ UNCHANGED <<thread, requests, results>>

Join(r) ==
    /\ ~feeding[r]
    /\ WorkerMoves(r, "ended", "none")
    /\ requests' = [requests EXCEPT ![r] = 0]
    /\ results' = [results EXCEPT ![r] = 0]
    /\ UNCHANGED <<stopping, feeding>>

\* The process dies and takes its threads and pipes along.
ResolversGone == 
    /\ thread' = [r \in Resolvers |-> "none"]
    /\ requests' = [r \in Resolvers |-> 0]
    /\ results' = [r \in Resolvers |-> 0]
    /\ stopping' = [r \in Resolvers |-> FALSE]
    /\ feeding' = [r \in Resolvers |-> FALSE]
=============================================================================
