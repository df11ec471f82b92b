------------------------------ MODULE Accounts ------------------------------
(***************************************************************************)
(* NickServ accounts and what hangs on them: the sessions identified to    *)
(* them (by IDENTIFY, REGISTER or SASL), the e-mail verification and       *)
(* password reset tokens, the limiters in front of all of it, and the      *)
(* memos of MemoServ.  The accounts and the memos are SQLite databases     *)
(* that survive a restart; sessions and limiters do not.                   *)
(*                                                                         *)
(* A nickname doubles as the name of the account registered under it.  A   *)
(* password is the number of times the account's password was changed, so  *)
(* a client that identifies either gives the current one or does not.      *)
(* Tokens are numbered in the order they are made; a mail may be lost, and *)
(* the token it carries may be presented any time later, by anyone who is  *)
(* let try.                                                                *)
(***************************************************************************)
EXTENDS Throttle, MemoStore, Sequences

CONSTANTS Clients,      \* connections that may be open
          Names,        \* nicknames and account names
          Addresses,    \* e-mail addresses
          Configs,      \* the configurations the server is started with, and what
                        \* it then meets: clients, nicknames, commands, whether the
                        \* clock is set back, and bounds on seconds, restarts,
                        \* registrations and tokens
          IpOf,         \* the address of each client
          VerifyLife,   \* nickserv_verify_seconds
          ResetLife,    \* nickserv_reset_seconds
          RegWindow,    \* nickserv_registration_window_seconds
          MailWindow,   \* nickserv_mail_window_seconds
          ArgonWindow,  \* argon2_window_seconds
          Minute,       \* the 60 seconds of the server-wide windows
          MaxAccounts,  \* IRCD_NICKSERV_ACCOUNT_HARD_MAX
          SaslFrames,   \* full frames that fit IRCD_SASL_ENCODED_MAX
          MaxTime, MaxPasswords \* bounds

ASSUME AccountConstants ==
    /\ {VerifyLife, ResetLife, MaxTime, MaxPasswords,
        MaxAccounts, SaslFrames} \subseteq Nat
    /\ {RegWindow, MailWindow, ArgonWindow, Minute} \subseteq Nat \ {0}
    /\ IpOf \in [Clients -> Clients]
    /\ \A k \in Configs :
         /\ k.time \in 1..MaxTime /\ k.clients \subseteq Clients
         /\ k.admins \subseteq Clients /\ k.clockBack \in BOOLEAN
         /\ k.nicks \subseteq Names /\ k.accounts \subseteq Names
         /\ {k.regLimit, k.mailPerIp, k.mailGlobal, k.burst, k.global, k.perIp} \subseteq Nat
         /\ k.email \in Addresses \cup {None}
    /\ None \notin Clients \cup Names \cup Addresses

VARIABLES config,   \* the configuration this server runs with
          now,      \* the wall clock
          db,       \* the account row of each name, or None
          session,  \* what the server holds for each connection
          mails,    \* every token made: whom it was mailed to, how often accepted
          regs,     \* registrations ever made, which tells registrations apart
          regTable, mailLimit, argon, \* the limiters
          work,     \* when each limiter let work through, for each address and, under
                    \* None, for the server as a whole, in this run of the server and
                    \* since the clock was last set back
          orphaned, \* names whose memos an NSDROP failed to remove
          restarts

accountVars == <<config, now, db, session, mails, regs, regTable, mailLimit, argon, work,
                 orphaned, restarts>>
vars == <<accountVars, memoVars>>

Kinds == {"register", "mail", "argon2"}
Off == [on |-> "off", nick |-> None, account |-> None, reg |-> 0, sasl |-> "none", frames |-> 0]
NoAccount == None
Tokens == DOMAIN mails
NoWork == [k \in Kinds |-> [i \in Clients \cup {None} |-> << >>]]

\* A row of the account table.  A token is 0 when none is stored.
AccountRow ==
    [enabled : BOOLEAN, password : Nat, reg : Nat, email : Addresses \cup {None},
     verified : BOOLEAN, pending : Addresses \cup {None}, verifyToken : Nat,
     verifyExpires : Nat, resetToken : Nat, resetExpires : Nat]

ASSUME NoneIsNoRow == None \notin AccountRow

NewAccount(e, r) ==
    [enabled |-> TRUE, password |-> 0, reg |-> r, email |-> e, verified |-> e # None,
     pending |-> None, verifyToken |-> 0, verifyExpires |-> 0, resetToken |-> 0,
     resetExpires |-> 0]

RuntimeReset ==
    /\ regTable' = NoSlots
    /\ mailLimit' = [global |-> NoWindow, table |-> NoSlots]
    /\ argon' = [burst |-> NoWindow, global |-> NoWindow, table |-> NoSlots]
    /\ work' = NoWork

\* A first start: the accounts a configuration says the database holds, each
\* with an address an administrator entered, and no memo.
Init ==
    /\ config \in Configs
    /\ now = 1
    /\ db = [a \in Names |-> IF a \in config.accounts THEN NewAccount(config.email, 0)
                             ELSE NoAccount]
    /\ session = [c \in Clients |-> Off]
    /\ mails = << >>
    /\ regs = 0
    /\ regTable = NoSlots
    /\ mailLimit = [global |-> NoWindow, table |-> NoSlots]
    /\ argon = [burst |-> NoWindow, global |-> NoWindow, table |-> NoSlots]
    /\ work = NoWork
    /\ orphaned = {}
    /\ restarts = 0
    /\ MemoInit

Exists(a) == db[a] # NoAccount
Enabled(a) == Exists(a) /\ db[a].enabled
Holders(n) == {c \in Clients : session[c].nick = n}

\* A registered connection sends a command its configuration allows for.
Says(c, command) == session[c].on = "in" /\ command \in config.sends
Admin(command) == command \in config.sends

\* Whether a client is a network administrator at the moment: one that can be
\* becomes it by OPER and gives it up at any time.
NetAdmin(c) == IF c \in config.admins THEN BOOLEAN ELSE {FALSE}

-----------------------------------------------------------------------------
(* The limiters *)

\* One more unit of each kind of work for the address of a client.
Did(kinds, c) == [k \in Kinds |-> [i \in Clients \cup {None} |->
    IF k \in kinds /\ i \in {IpOf[c], None} THEN Append(work[k][i], now) ELSE work[k][i]]]

\* server_nickserv_registration_allowed(): the check claims the slot, the
\* registration that succeeds is charged to it.
RegTable(c) == IF config.regLimit = 0 THEN regTable ELSE Claimed(regTable, IpOf[c], now, RegWindow)
RegAllowed(c) == config.regLimit = 0 \/ Admits(RegTable(c), IpOf[c], config.regLimit)
RegCharged(c) == IF config.regLimit = 0 THEN regTable ELSE Charged(RegTable(c), IpOf[c])

\* nickserv_mail_request_allowed(), which a network administrator never meets.
MailGlobal == IF Over(mailLimit.global, now, Minute) THEN [start |-> now, count |-> 0]
              ELSE mailLimit.global
MailTable(c) == IF config.mailPerIp = 0 \/ MailGlobal.count >= config.mailGlobal
                THEN mailLimit.table
                ELSE Claimed(mailLimit.table, IpOf[c], now, MailWindow)
MailAllowed(c) ==
    /\ MailGlobal.count < config.mailGlobal
    /\ config.mailPerIp = 0 \/ Admits(MailTable(c), IpOf[c], config.mailPerIp)
MailCounted(c) ==
    /\ mailLimit' = IF MailAllowed(c)
         THEN [global |-> [MailGlobal EXCEPT !.count = @ + 1],
               table |-> IF config.mailPerIp = 0 THEN MailTable(c)
                         ELSE Charged(MailTable(c), IpOf[c])]
         ELSE [global |-> MailGlobal, table |-> MailTable(c)]
    /\ work' = IF MailAllowed(c) THEN Did({"mail"}, c) ELSE work
mail_request(c, exempt) == IF exempt THEN UNCHANGED <<mailLimit, work>> ELSE MailCounted(c)

\* auth_limit_consume(): three limits, none charged unless all allow.
AuthLimits == config.burst # 0 \/ config.global # 0 \/ config.perIp # 0
AuthBurst == Rolled(argon.burst, config.burst, now, 1)
AuthGlobal == IF Full(AuthBurst, config.burst) THEN argon.global
              ELSE Rolled(argon.global, config.global, now, Minute)
AuthTable(c) ==
    IF config.perIp = 0 \/ Full(AuthBurst, config.burst) \/ Full(AuthGlobal, config.global)
    THEN argon.table
    ELSE Claimed(argon.table, IpOf[c], now, ArgonWindow)
AuthAllowed(c) ==
    /\ ~Full(AuthBurst, config.burst)
    /\ ~Full(AuthGlobal, config.global)
    /\ config.perIp = 0 \/ Admits(AuthTable(c), IpOf[c], config.perIp)
auth_limit_consume(c) ==
    /\ argon' = IF AuthAllowed(c)
         THEN [burst |-> Counted(AuthBurst, config.burst),
               global |-> Counted(AuthGlobal, config.global),
               table |-> IF config.perIp = 0 THEN argon.table
                         ELSE Charged(AuthTable(c), IpOf[c])]
         ELSE [burst |-> AuthBurst, global |-> AuthGlobal, table |-> AuthTable(c)]
\* Only work under a limit is recorded.  Hashing has no exemption.
AuthWork == IF AuthLimits THEN {"argon2"} ELSE {}
RegWork == IF config.regLimit # 0 THEN {"register"} ELSE {}

-----------------------------------------------------------------------------
(* Connections *)

\* A connection takes a free nickname (NICK and USER; Registration models the
\* handshake) and may authenticate with SASL before it is welcomed.
Connect(c, n) ==
    /\ c \in config.clients /\ n \in config.nicks
    /\ session[c].on = "off"
    /\ Holders(n) = {}
    /\ session' = [session EXCEPT ![c] = [Off EXCEPT !.on = "new", !.nick = n]]
    /\ UNCHANGED <<config, now, db, mails, regs, regTable, mailLimit, argon, work, orphaned,
                   restarts, memoVars>>

Welcome(c) ==
    /\ session[c].on = "new"
    /\ session' = [session EXCEPT ![c].on = "in"]
    /\ UNCHANGED <<config, now, db, mails, regs, regTable, mailLimit, argon, work, orphaned,
                   restarts, memoVars>>

server_disconnect(c) ==
    /\ "QUIT" \in config.sends
    /\ session[c].on # "off"
    /\ session' = [session EXCEPT ![c] = Off]
    /\ UNCHANGED <<config, now, db, mails, regs, regTable, mailLimit, argon, work, orphaned,
                   restarts, memoVars>>

-----------------------------------------------------------------------------
(* Identifying *)

Identified(c) == session[c].account # None
Applied(c, a) == [session EXCEPT ![c].account = a, ![c].reg = db[a].reg]

\* nickserv_identify() gets as far as the limiter, and past the password.
Attempts(c, a) == session[c].account \in {None, a} /\ Enabled(a)
Accepted(c, right) == AuthAllowed(c) /\ right

\* Counting the unread memos of a client that identified purges expired ones.
memoserv_notify_unread == IF config.memos THEN purge_expired(now) ELSE UNCHANGED memoVars

\* IDENTIFY, NICKSERV IDENTIFY and PRIVMSG NickServ :IDENTIFY.
handle_identify_alias(c, a, right) ==
    /\ Says(c, "IDENTIFY")
    /\ Attempts(c, a)
    /\ auth_limit_consume(c)
    /\ work' = IF AuthAllowed(c) THEN Did(AuthWork, c) ELSE work
    /\ session' = IF Accepted(c, right) THEN Applied(c, a) ELSE session
    /\ IF Accepted(c, right) /\ ~Identified(c) THEN memoserv_notify_unread ELSE UNCHANGED memoVars
    /\ UNCHANGED <<config, now, db, mails, regs, regTable, mailLimit, orphaned, restarts>>

\* NICKSERV REGISTER, of the nickname in use.  The check of the per-address
\* limit comes first and the charge last, when the account was added; a network
\* administrator is spared both.
command_register(c, exempt) ==
    LET n     == session[c].nick
        tries == (exempt \/ RegAllowed(c)) /\ ~Exists(n)
        adds  == tries /\ AuthAllowed(c)
                 /\ Cardinality({a \in Names : Exists(a)}) < MaxAccounts
    IN /\ Says(c, "REGISTER")
       /\ ~Identified(c)
       /\ n \in Names
       /\ regs < config.regs
       /\ IF tries THEN auth_limit_consume(c) ELSE UNCHANGED argon
       /\ regTable' = CASE exempt -> regTable
                       [] ~exempt /\ adds -> RegCharged(c)
                       [] OTHER -> RegTable(c)
       /\ work' = IF tries /\ AuthAllowed(c)
                  THEN Did(AuthWork \cup (IF adds /\ ~exempt THEN RegWork ELSE {}), c)
                  ELSE work
       /\ IF adds
          THEN /\ regs' = regs + 1
               /\ db' = [db EXCEPT ![n] = NewAccount(None, regs + 1)]
               /\ session' = [session EXCEPT ![c].account = n, ![c].reg = regs + 1]
               /\ memoserv_notify_unread
          ELSE UNCHANGED <<regs, db, session, memoVars>>
       /\ UNCHANGED <<config, now, mails, mailLimit, orphaned, restarts>>

LoggedOut(s) == [s EXCEPT !.account = None, !.reg = 0, !.sasl = "none"]

handle_logout_alias(c) ==
    /\ Says(c, "LOGOUT")
    /\ Identified(c)
    /\ session' = [session EXCEPT ![c] = LoggedOut(@)]
    /\ UNCHANGED <<config, now, db, mails, regs, regTable, mailLimit, argon, work, orphaned,
                   restarts, memoVars>>

-----------------------------------------------------------------------------
(* SASL PLAIN, before or after the connection is welcomed *)

Saslable(c) == session[c].on # "off" /\ "AUTHENTICATE" \in config.sends
Sasl(c, state, n) == [session EXCEPT ![c].sasl = state, ![c].frames = n]

\* No capability, an abort, another mechanism, a frame or a payload that is not
\* PLAIN, or an account that cannot be identified to.
sasl_fail(c) ==
    /\ Saslable(c)
    /\ session[c].sasl # "complete"
    /\ session' = Sasl(c, "failed", 0)
    /\ UNCHANGED <<config, now, db, mails, regs, regTable, mailLimit, argon, work, orphaned,
                   restarts, memoVars>>

sasl_start(c) ==
    /\ Saslable(c)
    /\ session[c].sasl \in {"none", "failed"}
    /\ session' = Sasl(c, "wait", 0)
    /\ UNCHANGED <<config, now, db, mails, regs, regTable, mailLimit, argon, work, orphaned,
                   restarts, memoVars>>

\* A full frame: more is to come, up to the aggregate limit.
sasl_append_frame(c) ==
    /\ Saslable(c)
    /\ session[c].sasl = "wait"
    /\ session' = IF session[c].frames < SaslFrames
                  THEN Sasl(c, "wait", session[c].frames + 1)
                  ELSE Sasl(c, "failed", 0)
    /\ UNCHANGED <<config, now, db, mails, regs, regTable, mailLimit, argon, work, orphaned,
                   restarts, memoVars>>

sasl_finish_plain(c, a, right) ==
    /\ Saslable(c)
    /\ session[c].sasl = "wait"
    /\ Attempts(c, a)
    /\ auth_limit_consume(c)
    /\ work' = IF AuthAllowed(c) THEN Did(AuthWork, c) ELSE work
    /\ session' = IF Accepted(c, right)
         THEN [Applied(c, a) EXCEPT ![c].sasl = "complete", ![c].frames = 0]
         ELSE Sasl(c, "failed", 0)
    /\ IF Accepted(c, right) THEN memoserv_notify_unread ELSE UNCHANGED memoVars
    /\ UNCHANGED <<config, now, db, mails, regs, regTable, mailLimit, orphaned, restarts>>

-----------------------------------------------------------------------------
(* Passwords, e-mail addresses and tokens *)

Fresh == Len(mails) + 1
Mail(k, a, to, arrives) ==
    Append(mails, [kind |-> k, account |-> a, reg |-> db[a].reg, to |-> to,
                   password |-> db[a].password, made |-> now, arrives |-> arrives, uses |-> 0])
\* The detached sender process delivers the mail, or it cannot be started or fails.
mail_send_async == BOOLEAN
Used(t) == [mails EXCEPT ![t].uses = @ + 1]

Mut_keep_reset_token(row) == [row EXCEPT !.password = @ + 1]

\* nickserv_db_set_password(): a new password voids the reset token.
nickserv_db_set_password(row) ==
    [row EXCEPT !.password = @ + 1, !.resetToken = 0, !.resetExpires = 0]

\* nickserv_db_set_email_challenge(): an earlier challenge is overwritten.
nickserv_db_set_email_challenge(row, e) ==
    [row EXCEPT !.pending = e, !.verifyToken = Fresh, !.verifyExpires = now + VerifyLife]

nickserv_db_set_reset_token(row) ==
    [row EXCEPT !.resetToken = Fresh, !.resetExpires = now + ResetLife]

\* nickserv_db_consume_reset_token(), one UPDATE: whether it matches the row.
Redeems(row, t) == row.enabled /\ row.resetToken = t /\ row.resetExpires >= now
nickserv_db_consume_reset_token(row, t) ==
    IF Redeems(row, t) THEN nickserv_db_set_password(row) ELSE row

\* nickserv_db_admin_set_email(): the administrator's word is taken for the
\* address, and voids a challenge.
nickserv_db_admin_set_email(row, e) ==
    [row EXCEPT !.email = e, !.verified = (e # None), !.pending = None, !.verifyToken = 0,
                !.verifyExpires = 0]

command_set_password(c) ==
    LET a == session[c].account
    IN /\ Says(c, "SET PASSWORD")
       /\ Identified(c)
       /\ db[a].password < MaxPasswords
       /\ auth_limit_consume(c)
       /\ work' = IF AuthAllowed(c) THEN Did(AuthWork, c) ELSE work
       /\ db' = IF AuthAllowed(c) THEN [db EXCEPT ![a] = nickserv_db_set_password(@)] ELSE db
       /\ UNCHANGED <<config, now, session, mails, regs, regTable, mailLimit, orphaned, restarts,
                      memoVars>>

\* SET EMAIL: the new challenge replaces an earlier one, whether or not its mail
\* can be queued.
command_set_email(c, e, arrives, exempt) ==
    LET a == session[c].account
        stores == (exempt \/ MailAllowed(c)) /\ Identified(c)
    IN /\ Says(c, "SET EMAIL")
       /\ config.mail
       /\ Len(mails) < config.tokens
       /\ mail_request(c, exempt)
       /\ db' = IF stores
                THEN [db EXCEPT ![a] = nickserv_db_set_email_challenge(@, e)]
                ELSE db
       /\ mails' = IF stores THEN Mail("verify", a, e, arrives) ELSE mails
       /\ UNCHANGED <<config, now, session, regs, regTable, argon, orphaned, restarts, memoVars>>

Mut_verify_any_pending(row, t) ==
    IF row.verifyToken # 0 /\ row.verifyExpires >= now
    THEN [row EXCEPT !.email = row.pending, !.verified = TRUE, !.pending = None,
                     !.verifyToken = 0, !.verifyExpires = 0]
    ELSE row

nickserv_db_verify_email(row, t) ==
    IF row.verifyToken = t /\ row.verifyExpires >= now /\ row.pending # None
    THEN [row EXCEPT !.email = row.pending, !.verified = TRUE, !.pending = None,
                     !.verifyToken = 0, !.verifyExpires = 0]
    ELSE row

\* VERIFY, for the account the client is identified to.
command_verify(c, t) ==
    LET a == session[c].account
        row == nickserv_db_verify_email(db[a], t)
    IN /\ Says(c, "VERIFY")
       /\ Identified(c)
       /\ row # db[a]
       /\ db' = [db EXCEPT ![a] = row]
       /\ mails' = Used(t)
       /\ UNCHANGED <<config, now, session, regs, regTable, mailLimit, argon, work, orphaned,
                      restarts, memoVars>>

\* RESET <nick>, from any client.
command_reset_request(c, a, arrives, exempt) ==
    LET stores == /\ exempt \/ MailAllowed(c)
                  /\ Enabled(a) /\ db[a].verified /\ db[a].email # None
    IN /\ Says(c, "RESET")
       /\ config.mail
       /\ Len(mails) < config.tokens
       /\ mail_request(c, exempt)
       /\ db' = IF stores
                THEN [db EXCEPT ![a] = nickserv_db_set_reset_token(@)]
                ELSE db
       /\ mails' = IF stores THEN Mail("reset", a, db[a].email, arrives) ELSE mails
       /\ UNCHANGED <<config, now, session, regs, regTable, argon, orphaned, restarts, memoVars>>

\* RESET <nick> <token> <new-password>, from any client.
command_reset_use(c, a, t) ==
    LET resets == AuthAllowed(c) /\ Exists(a) /\ Redeems(db[a], t)
    IN /\ Says(c, "RESET")
       /\ resets => db[a].password < MaxPasswords
       /\ auth_limit_consume(c)
       /\ work' = IF AuthAllowed(c) THEN Did(AuthWork, c) ELSE work
       /\ db' = IF resets THEN [db EXCEPT ![a] = nickserv_db_consume_reset_token(@, t)] ELSE db
       /\ mails' = IF resets THEN Used(t) ELSE mails
       /\ UNCHANGED <<config, now, session, regs, regTable, mailLimit, orphaned, restarts,
                      memoVars>>

\* RECOVER <nick> renames the client that holds the nickname of the account to
\* Guest<id>, which stands here as the client itself; RECOVER <nick> KILL and
\* GHOST disconnect it.
command_recover(c, kill) ==
    LET n == session[c].account
    IN /\ Says(c, "RECOVER")
       /\ Identified(c) /\ Enabled(n)
       /\ \E d \in Holders(n) \ {c} :
            /\ kill \/ Holders(d) = {}
            /\ session' = [session EXCEPT ![d] = IF kill THEN Off ELSE [@ EXCEPT !.nick = d]]
       /\ UNCHANGED <<config, now, db, mails, regs, regTable, mailLimit, argon, work, orphaned,
                      restarts, memoVars>>

-----------------------------------------------------------------------------
(* Network administrators *)

NssetPassword(a) ==
    /\ Admin("NSSET PASSWORD")
    /\ Exists(a)
    /\ db[a].password < MaxPasswords
    /\ db' = [db EXCEPT ![a] = nickserv_db_set_password(@)]
    /\ UNCHANGED <<config, now, session, mails, regs, regTable, mailLimit, argon, work, orphaned,
                   restarts, memoVars>>

NssetEmail(a, e) ==
    /\ Admin("NSSET EMAIL")
    /\ Exists(a)
    /\ db' = [db EXCEPT ![a] = nickserv_db_admin_set_email(@, e)]
    /\ UNCHANGED <<config, now, session, mails, regs, regTable, mailLimit, argon, work, orphaned,
                   restarts, memoVars>>

Mut_clear_welcomed(a) ==
    [c \in Clients |-> IF session[c].account = a /\ session[c].on = "in"
                       THEN LoggedOut(session[c]) ELSE session[c]]

clear_live_account(a) ==
    [c \in Clients |-> IF session[c].account = a THEN LoggedOut(session[c]) ELSE session[c]]

NssetEnabled(a, value) ==
    /\ Admin("NSSET ENABLED")
    /\ Exists(a)
    /\ db' = [db EXCEPT ![a].enabled = value]
    /\ session' = IF db[a].enabled /\ ~value THEN clear_live_account(a) ELSE session
    /\ UNCHANGED <<config, now, mails, regs, regTable, mailLimit, argon, work, orphaned,
                   restarts, memoVars>>

\* NSDROP.  The account row goes first; if the memo database then cannot be
\* opened or written, its rows stay and nobody is told.  What happens to the
\* channels of the account is in ChannelAuthority.
command_nsdrop(a, cleans) ==
    /\ Admin("NSDROP")
    /\ Exists(a)
    /\ db' = [db EXCEPT ![a] = NoAccount]
    /\ session' = clear_live_account(a)
    /\ memos' = IF cleans THEN memoserv_db_delete_account(memos, a) ELSE memos
    /\ orphaned' = IF ~cleans /\ (\E m \in memos : a \in {m.from, m.to})
                   THEN orphaned \cup {a} ELSE orphaned \ {a}
    /\ UNCHANGED <<config, now, mails, regs, regTable, mailLimit, argon, work, restarts,
                   nextMemo, lastPurge>>

MsPurge(rows) ==
    /\ Admin("MSPURGE")
    /\ Retention # 0
    /\ memos' = (memos \ rows) \cup memoserv_db_purge_before(rows, now)
    /\ UNCHANGED <<accountVars, nextMemo, lastPurge>>

-----------------------------------------------------------------------------
(* MemoServ *)

MemoSays(c, command) == Says(c, command) /\ config.memos /\ Identified(c)

\* command_memoserv_message() checks the sender's quota before SEND, REPLY and
\* FORWARD, and before anything expired is purged.
SenderMay(c) ==
    SenderQuota = 0 \/ Cardinality(Outstanding(session[c].account, now)) < SenderQuota

store_memo(c, a) ==
    LET rows == Purged(now)
        sends == Enabled(a) /\ Cardinality(Inbox(rows, a)) < Quota
        me == session[c].account
    IN /\ nextMemo <= MaxMemos
       /\ memos' = IF sends
            THEN rows \cup {[id |-> nextMemo, from |-> me, fromReg |-> session[c].reg, to |-> a,
                             toReg |-> db[a].reg, at |-> now, read |-> FALSE,
                             senderDeleted |-> FALSE, recipientDeleted |-> FALSE]}
            ELSE rows
       /\ nextMemo' = IF sends THEN nextMemo + 1 ELSE nextMemo
       /\ lastPurge' = PurgedAt(now)

\* An account that does not exist stops SEND before the database is touched.
command_send(c, a) ==
    /\ MemoSays(c, "SEND")
    /\ SenderMay(c)
    /\ Enabled(a)
    /\ store_memo(c, a)
    /\ UNCHANGED accountVars

\* REPLY and FORWARD read a memo of the client's own inbox first.
command_reply(c, m) ==
    /\ MemoSays(c, "REPLY")
    /\ SenderMay(c)
    /\ m \in Inbox(Purged(now), session[c].account)
    /\ store_memo(c, m.from)
    /\ UNCHANGED accountVars

command_forward(c, m, a) ==
    /\ MemoSays(c, "FORWARD")
    /\ SenderMay(c)
    /\ m \in Inbox(Purged(now), session[c].account)
    /\ store_memo(c, a)
    /\ UNCHANGED accountVars

\* LIST, SENT and STATUS only purge.
list_records(c) ==
    /\ MemoSays(c, "LIST")
    /\ purge_expired(now)
    /\ UNCHANGED accountVars

command_read(c, m) ==
    /\ MemoSays(c, "READ")
    /\ m \in Inbox(Purged(now), session[c].account)
    /\ memos' = memoserv_db_mark_read(Purged(now), m.id)
    /\ lastPurge' = PurgedAt(now)
    /\ UNCHANGED <<accountVars, nextMemo>>

\* DEL and DELSENT, of some rows of the client's own or of ALL of them.
command_delete(c, ids) ==
    /\ MemoSays(c, "DEL")
    /\ ids \subseteq Ids(Inbox(memos, session[c].account))
    /\ memos' = memoserv_db_delete(memos, ids)
    /\ UNCHANGED <<accountVars, nextMemo, lastPurge>>

command_delete_sent(c, ids) ==
    /\ MemoSays(c, "DELSENT")
    /\ ids \subseteq Ids(Sent(memos, session[c].account))
    /\ memos' = memoserv_db_delete_sent(memos, ids)
    /\ UNCHANGED <<accountVars, nextMemo, lastPurge>>

-----------------------------------------------------------------------------
(* Time and restarts *)

Tick ==
    /\ now < config.time
    /\ now' = now + 1
    /\ UNCHANGED <<config, db, session, mails, regs, regTable, mailLimit, argon, work, orphaned,
                   restarts, memoVars>>

\* time(NULL) is the wall clock, which may be set back at any time.
ClockSetBack ==
    /\ config.clockBack
    /\ now' \in 1..(now - 1)
    /\ work' = NoWork
    /\ UNCHANGED <<config, db, session, mails, regs, regTable, mailLimit, argon, orphaned,
                   restarts, memoVars>>

\* The process ends, by RESTART or not, and serves again: what was in memory is
\* gone, both databases are there.
Restart ==
    /\ restarts < config.restarts
    /\ restarts' = restarts + 1
    /\ session' = [c \in Clients |-> Off]
    /\ RuntimeReset
    /\ lastPurge' = 0
    /\ UNCHANGED <<config, now, db, mails, regs, orphaned, memos, nextMemo>>

-----------------------------------------------------------------------------
Some(rows) == {{m} : m \in rows} \cup {rows}

NickServCommand(c) ==
    \/ \E a \in Names, right \in BOOLEAN : handle_identify_alias(c, a, right)
    \/ \E exempt \in NetAdmin(c) : command_register(c, exempt)
    \/ handle_logout_alias(c)
    \/ command_set_password(c)
    \/ \E e \in Addresses, arrives \in mail_send_async, exempt \in NetAdmin(c) :
         command_set_email(c, e, arrives, exempt)
    \/ \E t \in Tokens : mails[t].arrives /\ command_verify(c, t)
    \/ \E a \in Names, arrives \in mail_send_async, exempt \in NetAdmin(c) :
         command_reset_request(c, a, arrives, exempt)
    \/ \E a \in Names, t \in Tokens : mails[t].arrives /\ command_reset_use(c, a, t)
    \/ \E kill \in BOOLEAN : command_recover(c, kill)

command_authenticate(c) ==
    \/ sasl_fail(c)
    \/ sasl_start(c)
    \/ sasl_append_frame(c)
    \/ \E a \in Names, right \in BOOLEAN : sasl_finish_plain(c, a, right)

MemoServCommand(c) ==
    \/ \E a \in Names : command_send(c, a)
    \/ \E m \in memos : command_reply(c, m)
    \/ \E m \in memos, a \in Names : command_forward(c, m, a)
    \/ list_records(c)
    \/ \E m \in memos : command_read(c, m)
    \/ \E rows \in Some(Inbox(memos, session[c].account)) : command_delete(c, Ids(rows))
    \/ \E rows \in Some(Sent(memos, session[c].account)) : command_delete_sent(c, Ids(rows))

AdminCommand(a) ==
    \/ NssetPassword(a)
    \/ \E e \in Addresses \cup {None} : NssetEmail(a, e)
    \/ \E value \in BOOLEAN : NssetEnabled(a, value)
    \/ \E cleans \in BOOLEAN : command_nsdrop(a, cleans)
    \/ \E rows \in {memos, {m \in memos : m.to = a}} : MsPurge(rows)

Next ==
    \/ \E c \in Clients :
         \/ \E n \in Names : Connect(c, n)
         \/ Welcome(c)
         \/ server_disconnect(c)
         \/ NickServCommand(c)
         \/ command_authenticate(c)
         \/ MemoServCommand(c)
    \/ \E a \in Names : AdminCommand(a)
    \/ Tick
    \/ ClockSetBack
    \/ Restart

Spec == Init /\ [][Next]_vars

-----------------------------------------------------------------------------
(* Properties *)

\* A session is identified only to an account that exists, is enabled and is
\* the registration it identified to, not a later one under the same name; a
\* client whose SASL exchange is complete, and is refused another, is
\* identified.  NSDROP, NSSET ENABLED and LOGOUT have to undo all of it, also for
\* connections that are not welcomed yet.
SessionsCurrent == \A c \in Clients :
    /\ Identified(c) => Enabled(session[c].account)
                        /\ db[session[c].account].reg = session[c].reg
    /\ session[c].sasl = "complete" => Identified(c)

Life(kind) == IF kind = "verify" THEN VerifyLife ELSE ResetLife
Latest(t) == \A u \in Tokens :
    mails[u].kind = mails[t].kind /\ mails[u].account = mails[t].account => u <= t

\* A mailed token is accepted at most once, while it lives, only if no later one
\* of its kind was made for the account, and only by the registration it was made
\* for.  A verification token verifies the address it was mailed to.  A reset
\* token is void once the password was changed in any other way.
TokensHonoured ==
    [][\A t \in Tokens : mails'[t].uses # mails[t].uses =>
        LET m == mails[t]
        IN /\ m.uses = 0
           /\ Latest(t)
           /\ now <= m.made + Life(m.kind)
           /\ db[m.account].reg = m.reg
           /\ m.kind = "verify" => db'[m.account].email = m.to
           /\ m.kind = "reset" => db[m.account].password = m.password]_vars

Dropped(a) == Exists(a) /\ db'[a] = NoAccount
HiddenBy(a) == \E c \in Clients : session[c].account = a
    /\ \/ \E rows \in Some(Inbox(memos, a)) : command_delete(c, Ids(rows))
       \/ \E rows \in Some(Sent(memos, a)) : command_delete_sent(c, Ids(rows))

\* A memo leaves an inbox or a list of sent memos only because the owner of that
\* list hid it there, it outlived the retention time, or an account at either
\* end was dropped: what the other side does with its copy never shows.
MemosKept ==
    [][\A a \in Names :
        \A m \in Inbox(memos, a) \cup Sent(memos, a) :
            \/ /\ m \in Inbox(memos, a) => m.id \in Ids(Inbox(memos', a))
               /\ m \in Sent(memos, a) => m.id \in Ids(Sent(memos', a))
            \/ HiddenBy(a)
            \/ Old(m, now)
            \/ Dropped(m.from) \/ Dropped(m.to)]_vars

\* No memo outlives the registration that sent it or the one it was sent to, so
\* whoever registers the name of a dropped account finds none of its memos,
\* unless NSDROP failed to clean up.
MemosOfThisRegistration == \A m \in memos :
    /\ m.to \notin orphaned => Exists(m.to) /\ db[m.to].reg = m.toReg
    /\ m.from \notin orphaned => Exists(m.from) /\ db[m.from].reg = m.fromReg

\* Of any n + 1 units of work in a row, the first and the last are at least a
\* length apart: no stretch of that length holds more than n.
AtMost(n, times, length) == \A j \in DOMAIN times :
    j + n \in DOMAIN times => times[j] + length <= times[j + n]
RateOf(k) == CASE k = "register" -> <<config.regLimit, RegWindow>>
               [] k = "mail"     -> <<config.mailPerIp, MailWindow>>
               [] k = "argon2"   -> <<config.perIp, ArgonWindow>>
ServerRate(k) == CASE k = "register" -> 0
                   [] k = "mail"     -> config.mailGlobal
                   [] k = "argon2"   -> config.global

\* However requests are timed, in any stretch as long as its window an address
\* registers, has mails sent or has passwords hashed at most twice as often as
\* its limit says, the server as a whole at most twice its limit per minute, and
\* passwords are hashed no more often in a second than the burst limit.  Two
\* things the code does not promise are left out.  A restart forgets what was
\* counted, and a window that seems to start in the future is begun anew, so this
\* is about one run of the server and a stretch in which its clock is not set
\* back.  And what network administrators register and have mailed is not
\* counted, though the passwords they have hashed are.
RatesBounded ==
    /\ \A k \in Kinds :
         /\ RateOf(k)[1] # 0 => \A i \in Clients :
              AtMost(2 * RateOf(k)[1], work[k][i], RateOf(k)[2])
         /\ ServerRate(k) # 0 => AtMost(2 * ServerRate(k), work[k][None], Minute)
    /\ config.burst # 0 => AtMost(config.burst, work["argon2"][None], 1)
=============================================================================
