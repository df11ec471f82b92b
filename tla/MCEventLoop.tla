---------------------------- MODULE MCEventLoop ----------------------------
(* EventLoop on small instances, for TLC: one configuration per subject.    *)
EXTENDS EventLoop

Silent == [c \in Clients |-> {}]
All(lines) == [c \in Clients |-> lines]

Base == [first |-> {1, 2}, later |-> {}, tls |-> {}, slow |-> {}, lines |-> All({"cmd"}),
         wire |-> 1, rehandshakes |-> FALSE, breaks |-> FALSE, clock |-> FALSE, global |-> 2]

\* Three clients that send more lines than a turn handles.
DispatchConfig == [Base EXCEPT !.first = {1, 2, 3}]
\* One of them arrives late, and they disconnect each other.
KillConfig == [Base EXCEPT !.later = {3}, !.lines = [All({"cmd", "kill"}) EXCEPT ![2] = {}]]
LeaveConfig == [Base EXCEPT !.lines = All({"cmd", "quit", "bad", "over"}), !.breaks = TRUE]

\* PINGs and their answers, when lines stay buffered; and PINGs of a client that
\* reads slowly or vanishes.
PingConfig == [Base EXCEPT !.clock = TRUE, !.wire = 2,
    !.lines = [Silent EXCEPT ![1] = {"cmd", "pong"}, ![2] = {"pong"}]]
PingOutput == [Base EXCEPT !.clock = TRUE, !.slow = {2}, !.breaks = TRUE,
    !.lines = [Silent EXCEPT ![2] = {"pong"}]]

HandshakeConfig == [Base EXCEPT !.first = {1, 2, 3}, !.tls = {1, 2, 3}, !.lines = Silent]
HandshakeLoss == [HandshakeConfig EXCEPT !.first = {1, 2}, !.breaks = TRUE]

\* Client 1 sends messages to client 2, which reads slowly.
PlainOutput == [Base EXCEPT !.slow = {2}, !.lines = [Silent EXCEPT ![1] = {"msg"}],
                            !.breaks = TRUE]
TlsOutput == [Base EXCEPT !.slow = {2}, !.tls = {2}, !.lines = All({"msg"}),
                          !.rehandshakes = TRUE]

AllConfigs == {DispatchConfig, KillConfig, LeaveConfig, PingConfig, PingOutput,
               HandshakeConfig, HandshakeLoss, PlainOutput, TlsOutput}
=============================================================================
