----------------------------- MODULE MCAccounts -----------------------------
(* Accounts on small instances, for TLC: one configuration per subject.     *)
EXTENDS Accounts

CONSTANTS c1, c2, n1, n2, e1, e2

Base == [accounts |-> {n1}, email |-> None, mail |-> FALSE, memos |-> FALSE, sends |-> {},
         regLimit |-> 0, mailPerIp |-> 0, mailGlobal |-> 1, burst |-> 0, global |-> 0,
         perIp |-> 0, clients |-> {c1, c2}, nicks |-> {n1, n2}, time |-> 3, restarts |-> 0,
         regs |-> 1, tokens |-> 2, admins |-> {}, clockBack |-> FALSE]

\* One client, and the tokens of whoever asked for them.
VerifyConfig == [Base EXCEPT !.clients = {c1}, !.nicks = {n1}, !.mail = TRUE, !.mailGlobal = 9,
    !.sends = {"IDENTIFY", "SET EMAIL", "VERIFY", "NSSET EMAIL", "NSDROP", "REGISTER"}]
ResetConfig == [Base EXCEPT !.clients = {c1}, !.nicks = {n1}, !.email = e1, !.mail = TRUE,
    !.mailGlobal = 9, !.sends = {"IDENTIFY", "SET PASSWORD", "RESET", "NSSET PASSWORD",
                                 "NSSET ENABLED"}]

SessionConfig == [Base EXCEPT !.time = 1, !.sends =
    {"IDENTIFY", "REGISTER", "LOGOUT", "AUTHENTICATE", "RECOVER", "QUIT", "NSSET ENABLED",
     "NSDROP"}]

MemoConfig == [Base EXCEPT !.accounts = {n1, n2}, !.memos = TRUE, !.clockBack = TRUE, !.sends =
    {"IDENTIFY", "SEND", "REPLY", "FORWARD", "LIST", "READ", "DEL", "DELSENT", "MSPURGE"}]

DropConfig == [Base EXCEPT !.accounts = {n1, n2}, !.memos = TRUE, !.time = 1, !.sends =
    {"IDENTIFY", "REGISTER", "SEND", "DEL", "DELSENT", "NSDROP"}]

\* The limiters, with an administrator some of them let pass and a clock that is
\* set back.
RegisterLimits == [Base EXCEPT !.accounts = {}, !.regLimit = 1, !.global = 2, !.time = 4,
    !.regs = 3, !.admins = {c1}, !.clockBack = TRUE,
    !.sends = {"REGISTER", "LOGOUT", "NSDROP"}]
MailLimits == [Base EXCEPT !.email = e1, !.mail = TRUE, !.mailPerIp = 1, !.mailGlobal = 2,
    !.time = 4, !.admins = {c1}, !.clockBack = TRUE, !.sends = {"RESET"}]
HashLimits == [Base EXCEPT !.perIp = 1, !.global = 5, !.burst = 2, !.time = 4, !.restarts = 1,
    !.clockBack = TRUE, !.sends = {"IDENTIFY", "SET PASSWORD"}]

AllConfigs == {VerifyConfig, ResetConfig, SessionConfig, MemoConfig, DropConfig,
               RegisterLimits, MailLimits, HashLimits}
OwnIp == [c \in Clients |-> c]
=============================================================================
