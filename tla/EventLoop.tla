----------------------------- MODULE EventLoop -----------------------------
(***************************************************************************)
(* server_run: the loop that serves every connection.  A turn drains the   *)
(* buffered lines, polls, serves the connections that are ready, drains    *)
(* the lines just read, and once a second looks after PINGs.  Line budgets *)
(* bound what a turn dispatches, a handshake budget what it computes.      *)
(*                                                                         *)
(* Peers send, read, answer handshakes and vanish, and time passes,        *)
(* between the steps of the loop.  Connections are those Registration let  *)
(* in; what a command does beyond the loop's own state is its line's kind: *)
(*   cmd   a command that keeps the client, or a tagged line refused as    *)
(*         too long                                                        *)
(*   msg   a command that sends a message to the slow readers              *)
(*   quit  a command that makes its sender leave                           *)
(*   kill  a command that disconnects another client                       *)
(*   pong  the answer to the outstanding PING                              *)
(*   bad   malformed framing;  over  a partial line that is too long       *)
(***************************************************************************)
EXTENDS ClientIO, FiniteSets, Functions

CONSTANTS Clients,       \* connections, by their ids
          PerClient,     \* SERVER_INPUT_LINE_BUDGET_PER_CLIENT
          Handshakes,    \* SERVER_TLS_HANDSHAKE_BUDGET
          PingInterval,  \* ping_interval_seconds
          PingTimeout,   \* ping_timeout_seconds
          MaxSaid,       \* bound: units sent to a slow reader
          Configs        \* who connects and over what; the lines each peer sends, and
                         \* how many are on their way at most; what else the peers do;
                         \* and SERVER_INPUT_LINE_BUDGET_GLOBAL

Lines == {"cmd", "msg", "quit", "kill", "pong", "bad", "over"}

ASSUME LoopConstants ==
    /\ {PerClient, Handshakes, PingInterval, PingTimeout} \subseteq Nat \ {0}
    /\ MaxSaid \in Nat
    /\ Configs \subseteq
         [first : SUBSET Clients, later : SUBSET Clients, tls : SUBSET Clients,
          slow : SUBSET Clients, lines : [Clients -> SUBSET Lines], wire : Nat \ {0},
          rehandshakes : BOOLEAN, breaks : BOOLEAN, clock : BOOLEAN, global : Nat \ {0}]
    /\ \A setting \in Configs : IsFiniteSet(setting.first)

VARIABLES config,      \* the configuration of this behaviour
          clients,     \* server.clients, in its order
          link,        \* the connection of each client
          ping,        \* liveness: since the last activity, and the outstanding PING
          cursor,      \* input_dispatch_cursor
          tlsCursor,   \* tls_handshake_cursor
          maintained,  \* maintenance ran this second
          turn         \* server_run's and the drain's local variables

vars == <<config, clients, link, ping, cursor, tlsCursor, maintained, turn>>
peerVars == <<config, clients, ping, cursor, tlsCursor, maintained, turn>>

NoPing == [age |-> 0, pending |-> FALSE, left |-> 0]

\* pc is the step of the turn; phase 1 drains before poll() and 2 after it;
\* served tells whom this turn has served, spent who used up the share of the
\* current drain, and removed whether a client left during it.
NewTurn == [pc |-> "top", phase |-> 1, budget |-> config.global, index |-> 0, visited |-> 0,
            initial |-> 0, who |-> 0, handled |-> 0, snapshot |-> <<>>, events |-> <<>>,
            start |-> 0, shakes |-> 0, served |-> {}, spent |-> {}, removed |-> FALSE]

Init ==
    /\ config \in Configs
    /\ clients = CHOOSE s \in [1 .. Cardinality(config.first) -> config.first] : IsInjective(s)
    /\ link = [c \in Clients |-> NewConnection(c \in config.tls)]
    /\ ping = [c \in Clients |-> NoPing]
    /\ cursor = 0 /\ tlsCursor = 0
    /\ maintained = FALSE
    /\ turn = NewTurn

Connected(c) == c \in Range(clients)
Count == Len(clients)
At(index) == clients[index + 1]

\* server_disconnect: the last client takes the place of the one removed.
Without(seq, c) ==
    LET i == CHOOSE j \in DOMAIN seq : seq[j] = c
        n == Len(seq)
    IN  SubSeq([seq EXCEPT ![i] = seq[n]], 1, n - 1)
Freed(c) == [link EXCEPT ![c] = NewConnection(FALSE)]

-----------------------------------------------------------------------------
(* drain_buffered_client_input *)

\* The drain begins where the last one stopped.
DrainFrom(t, phase) ==
    [t EXCEPT !.pc = "drain", !.phase = phase, !.visited = 0, !.initial = Count,
              !.spent = {}, !.removed = FALSE,
              !.index = IF clients = <<>> THEN 0 ELSE cursor % Count]

StartTurn ==
    /\ turn.pc = "top"
    /\ turn' = DrainFrom(NewTurn, 1)
    /\ UNCHANGED <<config, clients, link, ping, cursor, tlsCursor, maintained>>

Draining == turn.pc = "drain" /\ turn.visited < turn.initial /\ clients # <<>> /\ turn.budget > 0
Index == IF turn.index >= Count THEN 0 ELSE turn.index

\* The client the drain has come to: nothing buffered, or its lines are taken.
DrainVisit ==
    /\ Draining
    /\ LET c == At(Index)
       IN  turn' = IF link[c].tls = "handshake" \/ link[c].in = <<>>
                   THEN [turn EXCEPT !.visited = @ + 1, !.index = (Index + 1) % Count]
                   ELSE [turn EXCEPT !.visited = @ + 1, !.index = Index, !.pc = "lines",
                                     !.who = c, !.handled = 0]
    /\ UNCHANGED <<config, clients, link, ping, cursor, tlsCursor, maintained>>

\* The connection leaves the server, and the drain goes on at the same index.
DrainCut(c, t) ==
    /\ clients' = Without(clients, c)
    /\ link' = Freed(c)
    /\ turn' = [t EXCEPT !.pc = "drain", !.removed = TRUE,
                         !.index = IF t.index >= Count - 1 THEN 0 ELSE t.index]

LineLeft == /\ turn.pc = "lines"
            /\ turn.handled < PerClient /\ turn.budget > 0
            /\ link[turn.who].in # <<>> /\ Head(link[turn.who].in) # "over"

Handled == [turn EXCEPT !.handled = @ + 1, !.budget = @ - 1, !.served = @ \cup {turn.who}]
Consumed == [link EXCEPT ![turn.who].in = Tail(@)]

\* A command counts as activity unless a PING is outstanding; only its PONG
\* settles that.
Active(line) ==
    IF ping[turn.who].pending /\ line # "pong" THEN ping
    ELSE [ping EXCEPT ![turn.who] = NoPing]

DispatchLine ==
    /\ LineLeft
    /\ LET line == Head(link[turn.who].in)
       IN  /\ line \in {"cmd", "pong", "msg"} \/ (line = "kill" /\ Count = 1)
           /\ link' = [c \in Clients |->
                          IF line = "msg" /\ c \in config.slow /\ Connected(c)
                             /\ link[c].said < MaxSaid
                          THEN Sends(Consumed[c]) ELSE Consumed[c]]
           /\ ping' = Active(line)
    /\ turn' = Handled
    /\ UNCHANGED <<config, clients, cursor, tlsCursor, maintained>>

\* KILL and its like: another client is gone before this one's lines are done.
DispatchKill ==
    /\ LineLeft /\ Head(link[turn.who].in) = "kill"
    /\ ping' = Active("kill")
    /\ \E victim \in Range(clients) \ {turn.who} :
           /\ clients' = Without(clients, victim)
           /\ link' = [Freed(victim) EXCEPT ![turn.who].in = Tail(@)]
    /\ turn' = [Handled EXCEPT !.removed = TRUE]
    /\ UNCHANGED <<config, cursor, tlsCursor, maintained>>

DispatchLeave ==
    /\ LineLeft
    /\ LET line == Head(link[turn.who].in)
       IN  \/ line = "quit" /\ DrainCut(turn.who, Handled)
           \/ line = "bad" /\ DrainCut(turn.who, turn)
    /\ UNCHANGED <<config, ping, cursor, tlsCursor, maintained>>

EndVisit ==
    /\ turn.pc = "lines" /\ ~LineLeft
    /\ LET c == turn.who
       IN  IF link[c].in = <<"over">> \/ link[c].over THEN DrainCut(c, turn)
           ELSE /\ turn' = [turn EXCEPT !.pc = "drain", !.index = (turn.index + 1) % Count,
                                        !.spent = IF turn.handled = PerClient THEN @ \cup {c} ELSE @]
                /\ UNCHANGED <<clients, link>>
    /\ UNCHANGED <<config, ping, cursor, tlsCursor, maintained>>

Mut_keep_cursor == cursor

CursorAfter == IF clients = <<>> THEN 0 ELSE turn.index % Count

EndDrain ==
    /\ turn.pc = "drain" /\ ~Draining
    /\ cursor' = CursorAfter
    /\ turn' = [turn EXCEPT !.pc = IF turn.phase = 1 THEN "poll" ELSE "maintain",
                            !.index = 0, !.visited = 0, !.initial = 0, !.who = 0, !.handled = 0]
    /\ UNCHANGED <<config, clients, link, ping, tlsCursor, maintained>>

-----------------------------------------------------------------------------
(* poll() and the connections that are ready *)

\* poll() also returns for the resolvers, a new connection, or a timeout.  A
\* connection accepted now is served from the next turn on.
Poll ==
    /\ turn.pc = "poll"
    /\ \E new \in {<<>>} \cup {<<c>> : c \in config.later} :
           /\ clients' = clients \o new
           /\ config' = [config EXCEPT !.later = @ \ Range(new)]
    /\ \E ready \in BOOLEAN :
           /\ (\E c \in Range(clients) : Events(link[c]) # {}) => ready
           /\ turn' = [turn EXCEPT
                          !.pc = "serve", !.snapshot = clients,
                          !.events = [i \in 1..Count |-> Events(link[clients[i]])],
                          !.start = IF Count = 0 THEN 0 ELSE tlsCursor % Count,
                          !.visited = IF ready THEN 0 ELSE Count]
    /\ UNCHANGED <<link, ping, cursor, tlsCursor, maintained>>

Serving == turn.pc = "serve" /\ turn.visited < Len(turn.snapshot)
Place == ((turn.start + turn.visited) % Len(turn.snapshot)) + 1
Entry == turn.snapshot[Place]
Onward == [turn EXCEPT !.visited = @ + 1]

\* Clients that left since the snapshot, and those with no event, are passed by.
ServeNone ==
    /\ Serving
    /\ ~Connected(Entry) \/ (~link[Entry].over /\ turn.events[Place] = {})
    /\ turn' = Onward
    /\ UNCHANGED <<config, clients, link, ping, cursor, tlsCursor, maintained>>

\* The send queue overflowed, or poll() reported an error.
ServeCut ==
    /\ Serving /\ Connected(Entry)
    /\ link[Entry].over \/ "err" \in turn.events[Place]
    /\ clients' = Without(clients, Entry)
    /\ link' = Freed(Entry)
    /\ turn' = Onward
    /\ UNCHANGED <<config, ping, cursor, tlsCursor, maintained>>

Ready == /\ Serving /\ Connected(Entry) /\ ~link[Entry].over
         /\ turn.events[Place] # {} /\ "err" \notin turn.events[Place]

\* A failed read, write or handshake, or an overflow on the way, disconnects.
ServedAs(r) ==
    IF r.rc = "failed" \/ r.k.over THEN clients' = Without(clients, Entry) /\ link' = Freed(Entry)
    ELSE link' = [link EXCEPT ![Entry] = r.k] /\ UNCHANGED clients

ServeHandshake ==
    /\ Ready /\ link[Entry].tls = "handshake"
    /\ IF turn.shakes < Handshakes
       THEN /\ \E r \in {advance_tls_handshake(link[Entry], done) : done \in BOOLEAN} : ServedAs(r)
            /\ turn' = [Onward EXCEPT !.shakes = @ + 1, !.served = @ \cup {Entry}]
       ELSE turn' = Onward /\ UNCHANGED <<clients, link>>
    /\ UNCHANGED <<config, ping, cursor, tlsCursor, maintained>>

ServeOpen ==
    /\ Ready /\ link[Entry].tls # "handshake"
    /\ \E r \in {Served(link[Entry], turn.events[Place])} : ServedAs(r)
    /\ turn' = Onward
    /\ UNCHANGED <<config, ping, cursor, tlsCursor, maintained>>

Mut_maintain_first(t) == [t EXCEPT !.pc = "maintain", !.index = 0]

\* The lines just read are dispatched before any deadline is enforced, if this
\* turn's budget has some left.
AfterServing(t) ==
    IF t.budget > 0 THEN DrainFrom(t, 2)
    ELSE [t EXCEPT !.pc = "maintain", !.index = 0]

EndServing ==
    /\ turn.pc = "serve" /\ ~Serving
    /\ tlsCursor' = IF turn.snapshot = <<>> THEN 0
                    ELSE (turn.start + Handshakes) % Len(turn.snapshot)
    /\ turn' = AfterServing([turn EXCEPT !.snapshot = <<>>, !.events = <<>>, !.start = 0,
                                         !.visited = 0, !.shakes = 0])
    /\ UNCHANGED <<config, clients, link, ping, cursor, maintained>>

-----------------------------------------------------------------------------
(* maintain_client_liveness, once a second *)

Maintaining == turn.pc = "maintain" /\ ~maintained /\ turn.index < Count
Registered(c) == link[c].tls # "handshake"
TimedOut(c) == Registered(c) /\ ping[c].pending /\ ping[c].left = 0

PingDue(c) == Registered(c) /\ ~ping[c].pending /\ ping[c].age >= PingInterval

\* A PING is outstanding once it was sent or queued; one that could be neither is
\* tried again a second later.
PingSent(c) ==
    IF PingDue(c) /\ ~SendFails(link[c], Message(link[c]))
    THEN [ping EXCEPT ![c].pending = TRUE, ![c].left = PingTimeout] ELSE ping

\* A slow reader's PING joins its output; the others read theirs at once.
PingQueued(c) ==
    IF PingDue(c) /\ c \in config.slow /\ link[c].said < MaxSaid
    THEN [link EXCEPT ![c] = Sends(@)] ELSE link

MaintainClient ==
    /\ Maintaining
    /\ LET c == At(turn.index)
       IN  /\ ~TimedOut(c)
           /\ ping' = PingSent(c)
           /\ link' = PingQueued(c)
    /\ turn' = [turn EXCEPT !.index = @ + 1]
    /\ UNCHANGED <<config, clients, cursor, tlsCursor, maintained>>

PingTimesOut ==
    /\ Maintaining
    /\ TimedOut(At(turn.index))
    /\ clients' = Without(clients, At(turn.index))
    /\ link' = Freed(At(turn.index))
    /\ UNCHANGED <<config, ping, cursor, tlsCursor, maintained, turn>>

EndTurn ==
    /\ turn.pc = "maintain" /\ ~Maintaining
    /\ maintained' = TRUE
    /\ turn' = [turn EXCEPT !.pc = "top"]
    /\ UNCHANGED <<config, clients, link, ping, cursor, tlsCursor>>

-----------------------------------------------------------------------------
(* The peers, the network and the clock *)

OnItsWay(c) == Range(link[c].in \o link[c].held \o link[c].wire)

\* Only poll() and the reads after it look at what peers send, so it may as well
\* arrive then.
PeerSends(c) ==
    /\ turn.pc \in {"poll", "serve"}
    /\ Connected(c) /\ ~link[c].broken /\ Registered(c)
    /\ Len(link[c].wire) < config.wire /\ "over" \notin OnItsWay(c)
    /\ \E line \in config.lines[c] :
           /\ line = "pong" => ping[c].pending /\ "pong" \notin OnItsWay(c)
           /\ link' = [link EXCEPT ![c].wire = Append(@, line)]
    /\ UNCHANGED peerVars

PeerReads(c) ==
    /\ Connected(c) /\ ~link[c].broken
    /\ link[c].room < Window
    /\ link' = [link EXCEPT ![c].room = Window]
    /\ UNCHANGED peerVars

\* The handshake message the session waits for arrives.
PeerAnswers(c) ==
    /\ Connected(c) /\ ~link[c].broken
    /\ link[c].hs = "wait"
    /\ link' = [link EXCEPT ![c].hs = "here"]
    /\ UNCHANGED peerVars

\* A new handshake on an established session.
PeerRehandshakes(c) ==
    /\ Connected(c) /\ ~link[c].broken /\ config.rehandshakes
    /\ link[c].tls = "established" /\ link[c].hs = "none"
    /\ link' = [link EXCEPT ![c].hs = "wait"]
    /\ UNCHANGED peerVars

PeerVanishes(c) ==
    /\ config.breaks
    /\ Connected(c) /\ ~link[c].broken
    /\ link' = [link EXCEPT ![c].broken = TRUE]
    /\ UNCHANGED peerVars

\* A second passes, before the first drain, before poll(), or before maintenance;
\* ages and deadlines are counted relative to now.
Tick ==
    /\ config.clock /\ turn.pc \in {"top", "poll", "maintain"}
    /\ ping' = [c \in Clients |-> [ping[c] EXCEPT !.age = Least(@ + 1, PingInterval),
                                                  !.left = IF @ = 0 THEN 0 ELSE @ - 1]]
    /\ maintained' = FALSE
    /\ UNCHANGED <<config, clients, link, cursor, tlsCursor, turn>>

-----------------------------------------------------------------------------

Loop == \/ StartTurn \/ DrainVisit \/ DispatchLine \/ DispatchKill \/ DispatchLeave
        \/ EndVisit \/ EndDrain \/ Poll \/ ServeNone \/ ServeCut \/ ServeHandshake
        \/ ServeOpen \/ EndServing \/ MaintainClient \/ PingTimesOut \/ EndTurn

Next == \/ Loop
        \/ \E c \in Clients : \/ PeerSends(c) \/ PeerReads(c) \/ PeerAnswers(c)
                              \/ PeerRehandshakes(c) \/ PeerVanishes(c)
        \/ Tick

\* The loop runs on: poll() returns after a second at the latest.  The loop
\* always has a step to take, its steps are those that change turn or clients,
\* and so this is weak fairness of Loop.
LoopRuns == []<><<TRUE>>_<<turn, clients>>

\* A peer that stays connected reads what it is sent and completes the
\* handshakes it starts.  Each of these steps leaves nothing of its kind to do,
\* and so this is weak fairness of PeerReads and PeerAnswers.
Fairness == /\ LoopRuns
            /\ \A c \in Clients : []<>~ENABLED PeerReads(c) /\ []<>~ENABLED PeerAnswers(c)

Spec == Init /\ [][Next]_vars /\ Fairness

-----------------------------------------------------------------------------
(* Properties *)

Begins(part, whole) == Len(part) <= Len(whole) /\ part = First(whole, Len(part))

\* OutputIntact: what a peer was sent, followed by what is queued for it, is
\* what the server said, in order, with nothing lost or doubled, through partial
\* writes, queueing behind a blocked write and repeated TLS writes; only an
\* overflow or a reset, which disconnect it, cut it short.  An SSL_write to be
\* repeated is covered by the queue and repeats the same units
\* (client_send_raw, client_flush_output, transport_write).
OutputIntact ==
    \A c \in config.slow :
        LET k == link[c]
            whole == [i \in 1..k.said |-> i]
        IN  /\ Begins(k.rcvd \o k.out, whole)
            /\ k.rcvd \o k.out = whole \/ k.over \/ k.broken
            /\ k.over \/ (Len(k.out) >= k.retry /\ Begins(k.rec, k.out))

\* PongHeard: a client is not disconnected by a PING timeout while its PONG is
\* in the input buffer, unless the turn's line budget was used up, the client
\* used up its own share before the PONG, or the drain lost its place because a
\* client left (server_run drains what it read before maintain_client_liveness).
PongHeard ==
    [][\A c \in Clients :
          PingTimesOut /\ c = At(turn.index) /\ "pong" \in Range(link[c].in)
              => turn.budget = 0 \/ c \in turn.spent \/ turn.removed]_vars

Waiting(c) == \/ link[c].in # <<>>
              \/ link[c].tls = "handshake" /\ link[c].hs = "here"

\* EveryoneServed: whatever the other clients send, a client with a buffered line
\* gets one dispatched, and a handshake whose peer answered is advanced, unless
\* the client leaves (the budgets of a turn with the cursors that rotate them).
EveryoneServed ==
    \A c \in Clients : Connected(c) /\ Waiting(c) ~> ~Connected(c) \/ c \in turn.served

\* OutputFlushed: output queued for a peer that goes on reading leaves the queue,
\* or the client leaves, or an SSL_read that wants more from the peer is
\* outstanding, which holds up every write (the events server_run polls for).
OutputFlushed ==
    \A c \in UNION {setting.slow : setting \in Configs} :
        client_output_pending(link[c]) /\ Connected(c) /\ Registered(c)
            ~> \/ ~client_output_pending(link[c]) \/ ~Connected(c)
               \/ (link[c].inRetry /\ ~link[c].wantWrite)
=============================================================================
