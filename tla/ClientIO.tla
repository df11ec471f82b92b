------------------------------ MODULE ClientIO ------------------------------
(***************************************************************************)
(* One connection's input and output, as operators on a record: the input  *)
(* buffer, the bounded send queue, and what a read or a write over plain   *)
(* TCP or TLS does to them.                                                *)
(*                                                                         *)
(* Input is a sequence of lines, output a sequence of numbered units, two  *)
(* to a message.  The fields of a connection:                              *)
(*   tls       "plain", "handshake" or "established" (tls_state)           *)
(*   in        complete lines in inbuf; "over" is an overlong partial line *)
(*   out       the units in outbuf                                         *)
(*   over      output_overflowed                                           *)
(*   retry     output_retry_length, 0 when no write is to be repeated      *)
(*   wantRead  output_want_read                                            *)
(*   inRetry   input_retry_pending                                         *)
(*   wantWrite input_want_write, tls_want_write during the handshake       *)
(* and of its socket, its TLS session and its peer, which are external:    *)
(*   wire      lines the peer sent that were not read                      *)
(*   held      lines decrypted but not yet handed out by SSL_read          *)
(*   room      units the socket takes before the peer reads                *)
(*   rec, pushed  the record an unfinished SSL_write left, and how much of *)
(*             it has been sent                                            *)
(*   hs        a TLS handshake message the session waits for, or has got   *)
(*   broken    the connection was reset                                    *)
(*   said      units the server meant to send                              *)
(*   rcvd      units the peer was sent                                     *)
(***************************************************************************)
EXTENDS Naturals, Sequences

CONSTANTS InputMax,     \* lines IRC_INPUT_BUFFER_SIZE holds
          SendQ,        \* client_output_limit, in units
          FlushBudget,  \* CLIENT_OUTPUT_FLUSH_BUDGET_BYTES, in units
          Window,       \* units a socket takes while the peer does not read
          RecordMax     \* lines of one TLS record

ASSUME IOConstants ==
    /\ {InputMax, SendQ, FlushBudget, Window, RecordMax} \subseteq Nat \ {0}

NewConnection(tls) ==
    [tls |-> IF tls THEN "handshake" ELSE "plain", in |-> <<>>, out |-> <<>>, over |-> FALSE,
     retry |-> 0, wantRead |-> FALSE, inRetry |-> FALSE, wantWrite |-> FALSE,
     wire |-> <<>>, held |-> <<>>, room |-> Window, rec |-> <<>>, pushed |-> 0,
     hs |-> IF tls THEN "wait" ELSE "none", broken |-> FALSE, said |-> 0, rcvd |-> <<>>]

Least(m, n) == IF m < n THEN m ELSE n
First(s, n) == SubSeq(s, 1, n)
Rest(s, n) == SubSeq(s, n + 1, Len(s))

\* What a call returns: its code, the units written, the connection after it.
Returns(rc, n, k) == [rc |-> rc, n |-> n, k |-> k]

-----------------------------------------------------------------------------
(* The transport *)

\* A handshake message that arrived is answered, if the socket takes the answer.
Answerable(k) == k.hs = "none" \/ (k.hs = "here" /\ k.room > 0)

\* SSL_write without partial writes.  The record of the first attempt is what a
\* repeated call goes on sending, whatever it is passed.
SSL_write(k, data) ==
    LET rec == IF k.rec = <<>> THEN data ELSE k.rec
        push == Least(k.room, Len(rec) - k.pushed)
        wants(read) == [k EXCEPT !.retry = Len(data), !.wantRead = read]
        pushed == [k EXCEPT !.hs = "none", !.room = @ - push, !.pushed = @ + push, !.rec = rec]
    IN  CASE k.broken \/ Len(data) < Len(k.rec) -> Returns("failed", 0, k)
          [] ~k.broken /\ k.hs = "wait" -> Returns("again", 0, wants(TRUE))
          [] ~k.broken /\ k.hs = "here" /\ k.room = 0 -> Returns("again", 0, wants(FALSE))
          [] ~k.broken /\ Answerable(k) /\ pushed.pushed < Len(rec) ->
                Returns("again", 0, [pushed EXCEPT !.retry = Len(data), !.wantRead = FALSE])
          [] OTHER ->
                Returns("written", Len(rec),
                        [pushed EXCEPT !.rec = <<>>, !.pushed = 0, !.retry = 0,
                                       !.wantRead = FALSE, !.rcvd = @ \o rec])

\* send() takes what the socket has room for.
Plain_write(k, data) ==
    LET n == Least(k.room, Len(data))
        quiet == [k EXCEPT !.retry = 0]
    IN  IF k.broken THEN Returns("failed", 0, quiet)
        ELSE IF n = 0 THEN Returns("again", 0, quiet)
        ELSE Returns("written", n,
                     [quiet EXCEPT !.room = @ - n, !.rcvd = @ \o First(data, n)])

transport_write(k, data) ==
    CASE k.tls = "handshake" ->
            Returns("again", 0, [k EXCEPT !.retry = 0, !.wantRead = FALSE])
      [] k.tls = "established" /\ k.inRetry -> Returns("again", 0, k)
      [] k.tls = "established" /\ ~k.inRetry /\ k.retry > Len(data) -> Returns("failed", 0, k)
      [] k.tls = "established" /\ ~k.inRetry /\ k.retry <= Len(data) ->
            SSL_write(k, IF k.retry = 0 THEN data ELSE First(data, k.retry))
      [] OTHER -> Plain_write(k, data)

-----------------------------------------------------------------------------
(* The send queue *)

client_output_pending(k) == k.out # <<>>

queue_append(k, data) ==
    IF Len(data) > SendQ - Len(k.out) THEN [k EXCEPT !.over = TRUE]
    ELSE [k EXCEPT !.out = @ \o data]

\* What is left of data after the writes that succeeded joins the queue.
SentDirectly(k, data) ==
    LET w == transport_write(k, data)
    IN  IF w.rc = "failed" \/ w.n = Len(data) THEN w.k ELSE queue_append(w.k, Rest(data, w.n))

Mut_send_past_queue(k, data) == IF k.over THEN k ELSE SentDirectly(k, data)

client_send_raw(k, data) ==
    IF k.over THEN k
    ELSE IF k.out # <<>> THEN queue_append(k, data)
    ELSE SentDirectly(k, data)

\* client_send_raw returns an error: the transport failed, or the queue is full.
SendFails(k, data) ==
    \/ client_send_raw(k, data).over
    \/ k.out = <<>> /\ transport_write(k, data).rc = "failed"

\* A message of two units for this client.
Message(k) == <<k.said + 1, k.said + 2>>
Sends(k) == LET sent == client_send_raw(k, Message(k))
            IN  IF k.over THEN k ELSE [sent EXCEPT !.said = @ + 2]

\* One pass of client_flush_output's loop, with budget units left to flush.
FlushPass(k, budget) ==
    LET least == Least(Len(k.out), budget)
        attempt == IF k.retry > least THEN k.retry ELSE least
        w == transport_write(k, First(k.out, attempt))
    IN  [w EXCEPT !.k.out = Rest(@, w.n)]

\* A repeated TLS write may be shorter than the budget; one more pass then uses
\* the rest of it.  Every other write ends the loop.
client_flush_output(k) ==
    LET once == FlushPass(k, FlushBudget)
        more == once.rc = "written" /\ once.n < FlushBudget /\ once.k.out # <<>>
        twice == IF more THEN FlushPass(once.k, FlushBudget - once.n) ELSE once
    IN  IF twice.rc = "failed" \/ twice.k.out # <<>> THEN twice
        ELSE [twice EXCEPT !.k.retry = 0, !.k.wantRead = FALSE]

-----------------------------------------------------------------------------
(* Reading *)

\* SSL_read hands out what is left of a record, or the next one.
SSL_read(k, available) ==
    LET record == IF k.held # <<>> THEN k.held ELSE First(k.wire, Least(RecordMax, Len(k.wire)))
        n == Least(available, Len(record))
        wants(write) == Returns("again", 0, [k EXCEPT !.inRetry = TRUE, !.wantWrite = write])
    IN  CASE k.broken -> Returns("failed", 0, k)
          [] ~k.broken /\ k.hs = "wait" -> wants(FALSE)
          [] ~k.broken /\ k.hs = "here" /\ k.room = 0 -> wants(TRUE)
          [] ~k.broken /\ Answerable(k) /\ record = <<>> ->
                Returns("again", 0, [k EXCEPT !.hs = "none", !.inRetry = TRUE, !.wantWrite = FALSE])
          [] OTHER ->
                Returns("read", n,
                    [k EXCEPT !.hs = "none", !.inRetry = FALSE, !.wantWrite = FALSE,
                              !.in = @ \o First(record, n), !.held = Rest(record, n),
                              !.wire = IF k.held # <<>> THEN @ ELSE Rest(@, Len(record))])

Plain_read(k, available) ==
    LET n == Least(available, Len(k.wire))
    IN  IF k.broken THEN Returns("failed", 0, k)
        ELSE IF n = 0 THEN Returns("again", 0, k)
        ELSE Returns("read", n, [k EXCEPT !.in = @ \o First(k.wire, n), !.wire = Rest(@, n)])

\* A full buffer is a failed read.
read_client(k) ==
    IF Len(k.in) >= InputMax THEN Returns("failed", 0, k)
    ELSE IF k.tls = "plain" THEN Plain_read(k, InputMax - Len(k.in))
    ELSE SSL_read(k, InputMax - Len(k.in))

\* SSL_accept: the handshake is done, or waits for more from the peer or the
\* socket.
advance_tls_handshake(k, done) ==
    CASE k.broken -> Returns("failed", 0, k)
      [] ~k.broken /\ k.hs = "here" /\ k.room > 0 /\ done ->
            Returns("done", 0, [k EXCEPT !.tls = "established", !.wantWrite = FALSE, !.hs = "none"])
      [] OTHER ->
            Returns("again", 0,
                [k EXCEPT !.wantWrite = (k.hs = "here" /\ k.room = 0),
                          !.hs = IF k.hs = "here" /\ k.room = 0 THEN "here" ELSE "wait"])

-----------------------------------------------------------------------------
(* Polling *)

Mut_poll_input_only(k) ==
    IF k.wantWrite \/ (k.retry # 0 /\ ~k.wantRead) THEN {"out"} ELSE {"in"}

\* The events server_run asks poll() for.
Wants(k) ==
    CASE k.tls = "handshake" -> IF k.wantWrite THEN {"in", "out"} ELSE {"in"}
      [] k.tls = "established" /\ k.inRetry -> IF k.wantWrite THEN {"out"} ELSE {"in"}
      [] k.tls = "established" /\ ~k.inRetry /\ k.retry # 0 ->
            IF k.wantRead THEN {"in"} ELSE {"out"}
      [] OTHER -> IF client_output_pending(k) /\ ~k.wantRead THEN {"in", "out"} ELSE {"in"}

\* The events poll() reports: bytes in the socket (not in the TLS session), room
\* in it, and errors.
Events(k) ==
    (Wants(k) \cap ((IF k.wire # <<>> \/ k.hs = "here" THEN {"in"} ELSE {})
                    \cup (IF k.room > 0 THEN {"out"} ELSE {})))
        \cup (IF k.broken THEN {"err"} ELSE {})

\* What server_run does with a connection's events, outside the handshake.
Served(k, events) ==
    LET writable == IF k.wantRead THEN "in" \in events ELSE "out" \in events
        flushed == IF client_output_pending(k) /\ ("out" \in events \/ (k.wantRead /\ "in" \in events))
                   THEN client_flush_output(k) ELSE Returns("idle", 0, k)
    IN  CASE k.tls = "established" /\ k.inRetry ->
                IF (IF k.wantWrite THEN "out" ELSE "in") \in events THEN read_client(k)
                ELSE Returns("idle", 0, k)
          [] k.tls = "established" /\ ~k.inRetry /\ k.retry # 0 ->
                IF writable THEN client_flush_output(k) ELSE Returns("idle", 0, k)
          [] OTHER ->
                IF flushed.rc # "failed" /\ flushed.k.retry = 0 /\ "in" \in events
                THEN read_client(flushed.k) ELSE flushed
=============================================================================
