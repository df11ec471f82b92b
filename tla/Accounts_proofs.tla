-------------------------- MODULE Accounts_proofs ---------------------------
(***************************************************************************)
(* Proofs about Accounts for every number of clients, names, addresses,    *)
(* tokens and memos and every configuration: sessions stay current, tokens *)
(* are honoured as they should be, and memos stay with their owners and    *)
(* with their registrations.                                               *)
(***************************************************************************)
EXTENDS Accounts, TLAPS

SessionRecord ==
    [on : {"off", "new", "in"}, nick : Names \cup Clients \cup {None},
     account : Names \cup {None}, reg : Nat,
     sasl : {"none", "wait", "failed", "complete"}, frames : Nat]
Token ==
    [kind : {"verify", "reset"}, account : Names, reg : Nat, to : Addresses \cup {None},
     password : Nat, made : Nat, arrives : BOOLEAN, uses : Nat]
Memo ==
    [id : Nat, from : Names, fromReg : Nat, to : Names, toReg : Nat, at : Nat,
     read : BOOLEAN, senderDeleted : BOOLEAN, recipientDeleted : BOOLEAN]

TablesOK ==
    /\ now \in Nat /\ regs \in Nat /\ nextMemo \in Nat
    /\ db \in [Names -> AccountRow \cup {None}]
    /\ session \in [Clients -> SessionRecord]
    /\ mails \in Seq(Token)
    /\ memos \subseteq Memo

-----------------------------------------------------------------------------
(* The steps, by what they touch                                           *)

\* Sessions come and go, time passes, the clock is set back, the server restarts.
SessionStep ==
    \/ \E c \in Clients :
         \/ \E n \in Names : Connect(c, n)
         \/ Welcome(c) \/ server_disconnect(c) \/ handle_logout_alias(c)
         \/ sasl_fail(c) \/ sasl_start(c) \/ sasl_append_frame(c)
         \/ \E kill \in BOOLEAN : command_recover(c, kill)
    \/ Tick
    \/ ClockSetBack
    \/ Restart

\* A client identifies to an account.
IdentifyStep ==
    \E c \in Clients, a \in Names, right \in BOOLEAN :
        handle_identify_alias(c, a, right) \/ sasl_finish_plain(c, a, right)

\* A password, an address or a token of an account changes.
TokenStep ==
    \/ \E c \in Clients :
         \/ command_set_password(c)
         \/ \E e \in Addresses, arrives \in mail_send_async, exempt \in NetAdmin(c) :
              command_set_email(c, e, arrives, exempt)
         \/ \E t \in Tokens : command_verify(c, t)
         \/ \E a \in Names, arrives \in mail_send_async, exempt \in NetAdmin(c) :
              command_reset_request(c, a, arrives, exempt)
         \/ \E a \in Names, t \in Tokens : command_reset_use(c, a, t)
    \/ \E a \in Names :
         \/ NssetPassword(a)
         \/ \E e \in Addresses \cup {None} : NssetEmail(a, e)

\* An account appears, is enabled or disabled, or goes.
AccountStep ==
    \/ \E c \in Clients : \E exempt \in NetAdmin(c) : command_register(c, exempt)
    \/ \E a \in Names :
         \/ \E value \in BOOLEAN : NssetEnabled(a, value)
         \/ \E cleans \in BOOLEAN : command_nsdrop(a, cleans)

MemoStep ==
    \/ \E c \in Clients : MemoServCommand(c)
    \/ \E a \in Names : \E rows \in {memos, {m \in memos : m.to = a}} : MsPurge(rows)

LEMMA StepKinds ==
    Next => SessionStep \/ IdentifyStep \/ TokenStep \/ AccountStep \/ MemoStep
BY Zenon DEF Next, SessionStep, IdentifyStep, TokenStep, AccountStep, MemoStep,
       NickServCommand, command_authenticate, AdminCommand

LEMMA SessionFootprint ==
    SessionStep => UNCHANGED <<db, mails, regs, orphaned, memos, nextMemo>>
BY ZenonT(40) DEF SessionStep, Connect, Welcome, server_disconnect, handle_logout_alias, sasl_fail,
       sasl_start, sasl_append_frame, command_recover, Tick, ClockSetBack, Restart,
       memoVars

LEMMA IdentifyFootprint ==
    IdentifyStep => /\ UNCHANGED <<now, db, mails, regs, orphaned, nextMemo>>
                    /\ memos' \in {memos, Purged(now)}
BY DEF IdentifyStep, handle_identify_alias, sasl_finish_plain, memoserv_notify_unread,
       purge_expired, memoVars

LEMMA TokenFootprint ==
    TokenStep => UNCHANGED <<now, session, regs, orphaned, memos, nextMemo>>
BY ZenonT(40) DEF TokenStep, command_set_password, command_set_email, command_verify,
       command_reset_request, command_reset_use, NssetPassword, NssetEmail, memoVars

LEMMA AccountFootprint ==
    AccountStep => UNCHANGED <<now, mails, nextMemo>>
BY Zenon DEF AccountStep, command_register, NssetEnabled, command_nsdrop, memoVars,
       memoserv_notify_unread, purge_expired

LEMMA MemoFootprint ==
    MemoStep => UNCHANGED <<now, db, session, mails, regs, orphaned>>
BY DEF MemoStep, MemoServCommand, command_send, command_reply, command_forward,
       list_records, command_read, command_delete, command_delete_sent, MsPurge, accountVars

-----------------------------------------------------------------------------
(* What a token step does to the row of its account                        *)

PasswordChange(a) ==
    /\ db' = [db EXCEPT ![a] = nickserv_db_set_password(db[a])]
    /\ mails' = mails
Challenge(a) ==
    \E e \in Addresses, arrives \in BOOLEAN :
        /\ db' = [db EXCEPT ![a] = nickserv_db_set_email_challenge(db[a], e)]
        /\ mails' = Mail("verify", a, e, arrives)
Verification(a) ==
    \E t \in Tokens :
        /\ nickserv_db_verify_email(db[a], t) # db[a]
        /\ db' = [db EXCEPT ![a] = nickserv_db_verify_email(db[a], t)]
        /\ mails' = Used(t)
ResetAsked(a) ==
    \E arrives \in BOOLEAN :
        /\ db[a].email # None
        /\ db' = [db EXCEPT ![a] = nickserv_db_set_reset_token(db[a])]
        /\ mails' = Mail("reset", a, db[a].email, arrives)
ResetUsed(a) ==
    \E t \in Tokens :
        /\ Redeems(db[a], t)
        /\ db' = [db EXCEPT ![a] = nickserv_db_set_password(db[a])]
        /\ mails' = Used(t)
AddressEntered(a) ==
    \E e \in Addresses \cup {None} :
        /\ db' = [db EXCEPT ![a] = nickserv_db_admin_set_email(db[a], e)]
        /\ mails' = mails
TokenChange(a) ==
    \/ PasswordChange(a) \/ Challenge(a) \/ Verification(a)
    \/ ResetAsked(a) \/ ResetUsed(a) \/ AddressEntered(a)

LEMMA TokenShape ==
    ASSUME TablesOK, SessionsCurrent, TokenStep
    PROVE  UNCHANGED <<db, mails>> \/ \E a \in Names : Exists(a) /\ TokenChange(a)
<1>1. ASSUME NEW c \in Clients, Identified(c)
      PROVE  session[c].account \in Names /\ Exists(session[c].account)
  BY <1>1 DEF TablesOK, SessionsCurrent, SessionRecord, Identified, Enabled
<1>2. ASSUME NEW c \in Clients, command_set_password(c)
      PROVE  UNCHANGED <<db, mails>> \/ \E a \in Names : Exists(a) /\ TokenChange(a)
  BY <1>1, <1>2, Zenon DEF command_set_password, TokenChange, PasswordChange
<1>3. ASSUME NEW c \in Clients, NEW e \in Addresses, NEW arrives \in mail_send_async,
             NEW exempt \in NetAdmin(c), command_set_email(c, e, arrives, exempt)
      PROVE  UNCHANGED <<db, mails>> \/ \E a \in Names : Exists(a) /\ TokenChange(a)
  <2>1. CASE (exempt \/ MailAllowed(c)) /\ Identified(c)
    <3>1. Challenge(session[c].account)
      BY <1>3, <2>1, Zenon DEF command_set_email, Challenge, mail_send_async
    <3>2. QED  BY <1>1, <2>1, <3>1 DEF TokenChange
  <2>2. CASE ~((exempt \/ MailAllowed(c)) /\ Identified(c))
    BY <1>3, <2>2, Zenon DEF command_set_email
  <2>3. QED  BY <2>1, <2>2
<1>4. ASSUME NEW c \in Clients, NEW t \in Tokens, command_verify(c, t)
      PROVE  UNCHANGED <<db, mails>> \/ \E a \in Names : Exists(a) /\ TokenChange(a)
  <2>1. Verification(session[c].account)
    BY <1>4, Zenon DEF command_verify, Verification
  <2>2. QED  BY <1>1, <1>4, <2>1 DEF TokenChange, command_verify
<1>5. ASSUME NEW c \in Clients, NEW a \in Names, NEW arrives \in mail_send_async,
             NEW exempt \in NetAdmin(c), command_reset_request(c, a, arrives, exempt)
      PROVE  UNCHANGED <<db, mails>> \/ \E b \in Names : Exists(b) /\ TokenChange(b)
  <2>1. CASE (exempt \/ MailAllowed(c)) /\ Enabled(a) /\ db[a].verified /\ db[a].email # None
    <3>1. ResetAsked(a)
      BY <1>5, <2>1 DEF command_reset_request, ResetAsked, mail_send_async
    <3>2. QED  BY <2>1, <3>1 DEF TokenChange, Enabled
  <2>2. CASE ~((exempt \/ MailAllowed(c)) /\ Enabled(a) /\ db[a].verified /\ db[a].email # None)
    BY <1>5, <2>2 DEF command_reset_request
  <2>3. QED  BY <2>1, <2>2
<1>6. ASSUME NEW c \in Clients, NEW a \in Names, NEW t \in Tokens, command_reset_use(c, a, t)
      PROVE  UNCHANGED <<db, mails>> \/ \E b \in Names : Exists(b) /\ TokenChange(b)
  <2>1. CASE AuthAllowed(c) /\ Exists(a) /\ Redeems(db[a], t)
    <3>1. ResetUsed(a)
      BY <1>6, <2>1 DEF command_reset_use, ResetUsed, nickserv_db_consume_reset_token
    <3>2. QED  BY <2>1, <3>1 DEF TokenChange
  <2>2. CASE ~(AuthAllowed(c) /\ Exists(a) /\ Redeems(db[a], t))
    BY <1>6, <2>2 DEF command_reset_use
  <2>3. QED  BY <2>1, <2>2
<1>7. ASSUME NEW a \in Names, NssetPassword(a)
      PROVE  \E b \in Names : Exists(b) /\ TokenChange(b)
  BY <1>7, Zenon DEF NssetPassword, TokenChange, PasswordChange
<1>8. ASSUME NEW a \in Names, NEW e \in Addresses \cup {None}, NssetEmail(a, e)
      PROVE  \E b \in Names : Exists(b) /\ TokenChange(b)
  BY <1>8, Zenon DEF NssetEmail, TokenChange, AddressEntered
<1>9. QED  BY <1>2, <1>3, <1>4, <1>5, <1>6, <1>7, <1>8 DEF TokenStep

-----------------------------------------------------------------------------
(* Types                                                                   *)

LEMMA RowsTyped ==
    ASSUME NEW row \in AccountRow, TablesOK, NEW e \in Addresses \cup {None}, NEW t
    PROVE  /\ nickserv_db_set_password(row) \in AccountRow
           /\ nickserv_db_set_email_challenge(row, e) \in AccountRow
           /\ nickserv_db_set_reset_token(row) \in AccountRow
           /\ nickserv_db_admin_set_email(row, e) \in AccountRow
           /\ nickserv_db_verify_email(row, t) \in AccountRow
<1>0. /\ VerifyLife \in Nat /\ ResetLife \in Nat
  BY AccountConstants
<1>7. /\ Fresh \in Nat /\ now + VerifyLife \in Nat /\ now + ResetLife \in Nat
      /\ (e # None) \in BOOLEAN
  BY <1>0 DEF Fresh, TablesOK
<1> USE <1>7 DEF AccountRow
<1>1. nickserv_db_set_password(row) \in AccountRow
  <2>1. row.password \in Nat
    OBVIOUS
  <2>2. row.password + 1 \in Nat
    BY <2>1
  <2>3. QED  BY <2>2, Zenon DEF nickserv_db_set_password
<1>2. nickserv_db_set_email_challenge(row, e) \in AccountRow
  BY Zenon DEF nickserv_db_set_email_challenge
<1>3. nickserv_db_set_reset_token(row) \in AccountRow
  BY Zenon DEF nickserv_db_set_reset_token
<1>4. nickserv_db_admin_set_email(row, e) \in AccountRow
  BY Zenon DEF nickserv_db_admin_set_email
<1>5. nickserv_db_verify_email(row, t) \in AccountRow
  BY Zenon DEF nickserv_db_verify_email
<1>6. QED  BY <1>1, <1>2, <1>3, <1>4, <1>5

\* Only tokens, passwords and addresses differ after a token change.
LEMMA TokenChangeKeepsAccounts ==
    ASSUME TablesOK, NEW a \in Names, Exists(a), TokenChange(a)
    PROVE  \E row \in AccountRow :
              /\ db' = [db EXCEPT ![a] = row]
              /\ row.enabled = db[a].enabled /\ row.reg = db[a].reg
<1>0. db[a] \in AccountRow
  BY DEF TablesOK, Exists, NoAccount
<1>1. CASE PasswordChange(a) \/ ResetUsed(a)
  <2>1. nickserv_db_set_password(db[a]) \in AccountRow
    BY <1>0, RowsTyped
  <2>2. /\ nickserv_db_set_password(db[a]).enabled = db[a].enabled
        /\ nickserv_db_set_password(db[a]).reg = db[a].reg
    BY <1>0 DEF nickserv_db_set_password, AccountRow
  <2>3. QED  BY <1>1, <2>1, <2>2 DEF PasswordChange, ResetUsed
<1>2. CASE Challenge(a)
  <2>1. PICK e \in Addresses :
           db' = [db EXCEPT ![a] = nickserv_db_set_email_challenge(db[a], e)]
    BY <1>2, Zenon DEF Challenge
  <2>2. nickserv_db_set_email_challenge(db[a], e) \in AccountRow
    BY <1>0, RowsTyped, Zenon
  <2>3. /\ nickserv_db_set_email_challenge(db[a], e).enabled = db[a].enabled
        /\ nickserv_db_set_email_challenge(db[a], e).reg = db[a].reg
    BY <1>0 DEF nickserv_db_set_email_challenge, AccountRow
  <2>4. QED  BY <2>1, <2>2, <2>3, Zenon
<1>3. CASE Verification(a)
  <2>1. PICK t \in Tokens : db' = [db EXCEPT ![a] = nickserv_db_verify_email(db[a], t)]
    BY <1>3, Zenon DEF Verification
  <2>2. nickserv_db_verify_email(db[a], t) \in AccountRow
    BY <1>0, RowsTyped
  <2>3. /\ nickserv_db_verify_email(db[a], t).enabled = db[a].enabled
        /\ nickserv_db_verify_email(db[a], t).reg = db[a].reg
    BY <1>0 DEF nickserv_db_verify_email, AccountRow
  <2>4. QED  BY <2>1, <2>2, <2>3, Zenon
<1>4. CASE ResetAsked(a)
  <2>1. nickserv_db_set_reset_token(db[a]) \in AccountRow
    BY <1>0, RowsTyped
  <2>2. /\ nickserv_db_set_reset_token(db[a]).enabled = db[a].enabled
        /\ nickserv_db_set_reset_token(db[a]).reg = db[a].reg
    BY <1>0 DEF nickserv_db_set_reset_token, AccountRow
  <2>3. QED  BY <1>4, <2>1, <2>2, Zenon DEF ResetAsked
<1>5. CASE AddressEntered(a)
  <2>1. PICK e \in Addresses \cup {None} :
           db' = [db EXCEPT ![a] = nickserv_db_admin_set_email(db[a], e)]
    BY <1>5, Zenon DEF AddressEntered
  <2>2. nickserv_db_admin_set_email(db[a], e) \in AccountRow
    BY <1>0, RowsTyped, Zenon
  <2>3. /\ nickserv_db_admin_set_email(db[a], e).enabled = db[a].enabled
        /\ nickserv_db_admin_set_email(db[a], e).reg = db[a].reg
    BY <1>0 DEF nickserv_db_admin_set_email, AccountRow
  <2>4. QED  BY <2>1, <2>2, <2>3, Zenon
<1>6. QED  BY <1>1, <1>2, <1>3, <1>4, <1>5 DEF TokenChange

-----------------------------------------------------------------------------
(* Sessions                                                                *)

\* SessionsCurrent for one session and an account table D.
SessionFor(s, D) ==
    /\ s \in SessionRecord
    /\ s.account # None =>
          /\ D[s.account] # None /\ D[s.account].enabled
          /\ D[s.account].reg = s.reg
    /\ s.sasl = "complete" => s.account # None

LEMMA SessionsAreFor ==
    ASSUME TablesOK
    PROVE  SessionsCurrent <=> \A c \in Clients : SessionFor(session[c], db)
BY DEF TablesOK, SessionsCurrent, SessionFor, Identified, Enabled, Exists, NoAccount

LEMMA OffIsFor == ASSUME NEW D PROVE SessionFor(Off, D)
BY DEF SessionFor, Off, SessionRecord

LEMMA LoggedOutIsFor ==
    ASSUME NEW D, NEW s \in SessionRecord PROVE SessionFor(LoggedOut(s), D)
BY Zenon DEF SessionFor, LoggedOut, SessionRecord

LEMMA NickAndPhaseAreFree ==
    ASSUME NEW D, NEW s, SessionFor(s, D),
           NEW n \in Names \cup Clients \cup {None}, NEW o \in {"off", "new", "in"}
    PROVE  SessionFor([s EXCEPT !.nick = n], D) /\ SessionFor([s EXCEPT !.on = o], D)
BY DEF SessionFor, SessionRecord

LEMMA SaslIsFree ==
    ASSUME NEW D, NEW s, SessionFor(s, D), NEW x \in {"none", "wait", "failed"}, NEW n \in Nat
    PROVE  SessionFor([s EXCEPT !.sasl = x, !.frames = n], D)
BY Zenon DEF SessionFor, SessionRecord

LEMMA AppliedIsFor ==
    ASSUME NEW D, NEW s \in SessionRecord, NEW a \in Names, D[a] \in AccountRow, D[a].enabled
    PROVE  /\ SessionFor([s EXCEPT !.account = a, !.reg = D[a].reg], D)
           /\ SessionFor([s EXCEPT !.account = a, !.reg = D[a].reg,
                                   !.sasl = "complete", !.frames = 0], D)
<1>1. D[a].reg \in Nat /\ D[a] # None /\ a # None
  BY NoneIsNoRow, AccountConstants DEF AccountRow
<1>2. QED  BY <1>1, Zenon DEF SessionFor, SessionRecord

\* A session that is for an account table is for any that keeps its account.
LEMMA TableIsFree ==
    ASSUME NEW D, NEW E, NEW s, SessionFor(s, D),
           s.account # None => /\ E[s.account] # None
                               /\ E[s.account].enabled = D[s.account].enabled
                               /\ E[s.account].reg = D[s.account].reg
    PROVE  SessionFor(s, E)
BY DEF SessionFor

SessionsFit == session' \in [Clients -> SessionRecord]
               /\ \A c \in Clients : SessionFor(session'[c], db')

\* One session changes and the accounts do not.
LEMMA OneSession ==
    ASSUME TablesOK, SessionsCurrent, NEW c \in Clients, NEW s, SessionFor(s, db),
           session' = [session EXCEPT ![c] = s], db' = db
    PROVE  SessionsFit
BY SessionsAreFor DEF SessionsFit, TablesOK, SessionFor

LEMMA SessionStepFits ==
    ASSUME TablesOK, SessionsCurrent, SessionStep
    PROVE  SessionsFit
<1>0. db' = db /\ (\A c \in Clients : SessionFor(session[c], db) /\ session[c] \in SessionRecord)
  BY SessionFootprint, SessionsAreFor DEF TablesOK
<1>1. ASSUME NEW c \in Clients, NEW n \in Names, Connect(c, n) PROVE SessionsFit
  <2>1. SessionFor([Off EXCEPT !.on = "new", !.nick = n], db)
    BY Zenon DEF SessionFor, SessionRecord, Off
  <2>2. QED  BY <1>0, <1>1, <2>1, OneSession, Zenon DEF Connect
<1>2. ASSUME NEW c \in Clients, Welcome(c) PROVE SessionsFit
  <2>1. SessionFor([session[c] EXCEPT !.on = "in"], db)
    BY <1>0, NickAndPhaseAreFree, Zenon
  <2>2. session' = [session EXCEPT ![c] = [session[c] EXCEPT !.on = "in"]]
    BY <1>2 DEF Welcome
  <2>3. QED  BY <1>0, <2>1, <2>2, OneSession, Zenon
<1>3. ASSUME NEW c \in Clients, server_disconnect(c) PROVE SessionsFit
  BY <1>0, <1>3, OffIsFor, OneSession, Zenon DEF server_disconnect
<1>4. ASSUME NEW c \in Clients, handle_logout_alias(c) PROVE SessionsFit
  <2>1. SessionFor(LoggedOut(session[c]), db)
    BY <1>0, LoggedOutIsFor
  <2>2. session' = [session EXCEPT ![c] = LoggedOut(session[c])]
    BY <1>4 DEF handle_logout_alias
  <2>3. QED  BY <1>0, <2>1, <2>2, OneSession, Zenon
<1>5. ASSUME NEW c \in Clients, NEW x \in {"none", "wait", "failed"}, NEW n \in Nat,
             session' = Sasl(c, x, n)
      PROVE  SessionsFit
  <2>1. SessionFor([session[c] EXCEPT !.sasl = x, !.frames = n], db)
    BY <1>0, SaslIsFree, Zenon
  <2>2. session' = [session EXCEPT ![c] = [session[c] EXCEPT !.sasl = x, !.frames = n]]
    BY <1>0, <1>5, Zenon DEF Sasl, TablesOK, SessionRecord
  <2>3. QED  BY <1>0, <2>1, <2>2, OneSession, Zenon
<1>6. ASSUME NEW c \in Clients, sasl_fail(c) \/ sasl_start(c) PROVE SessionsFit
  BY <1>5, <1>6 DEF sasl_fail, sasl_start
<1>7. ASSUME NEW c \in Clients, sasl_append_frame(c) PROVE SessionsFit
  <2>1. session[c].frames + 1 \in Nat
    BY <1>0 DEF SessionRecord
  <2>2. QED  BY <1>5, <1>7, <2>1 DEF sasl_append_frame
<1>8. ASSUME NEW c \in Clients, NEW kill \in BOOLEAN, command_recover(c, kill) PROVE SessionsFit
  <2>1. PICK d \in Clients :
           session' = [session EXCEPT ![d] = IF kill THEN Off ELSE [session[d] EXCEPT !.nick = d]]
    BY <1>8, Zenon DEF command_recover, Holders
  <2>2. SessionFor(IF kill THEN Off ELSE [session[d] EXCEPT !.nick = d], db)
    BY <1>0, OffIsFor, NickAndPhaseAreFree, Zenon
  <2>3. QED  BY <1>0, <2>1, <2>2, OneSession, Zenon
<1>9. CASE Tick
  BY <1>0, <1>9 DEF Tick, SessionsFit, TablesOK
<1>10. CASE ClockSetBack
  BY <1>0, <1>10 DEF ClockSetBack, SessionsFit, TablesOK
<1>11. CASE Restart
  <2>1. SessionFor(Off, db) /\ Off \in SessionRecord
    BY OffIsFor DEF SessionFor
  <2>2. QED  BY <1>0, <1>11, <2>1 DEF Restart, SessionsFit
<1>12. QED
  BY <1>1, <1>2, <1>3, <1>4, <1>6, <1>7, <1>8, <1>9, <1>10, <1>11 DEF SessionStep

LEMMA IdentifyStepFits ==
    ASSUME TablesOK, SessionsCurrent, IdentifyStep
    PROVE  SessionsFit
<1>0. db' = db /\ (\A c \in Clients : SessionFor(session[c], db) /\ session[c] \in SessionRecord)
  BY IdentifyFootprint, SessionsAreFor DEF TablesOK
<1>1. PICK c \in Clients, a \in Names, right \in BOOLEAN :
         handle_identify_alias(c, a, right) \/ sasl_finish_plain(c, a, right)
  BY DEF IdentifyStep
<1>2. db[a] \in AccountRow /\ db[a].enabled
  BY <1>1 DEF handle_identify_alias, sasl_finish_plain, Attempts, Enabled, Exists, NoAccount,
              TablesOK
<1>3. session' \in {session, Applied(c, a), Sasl(c, "failed", 0),
                    [Applied(c, a) EXCEPT ![c].sasl = "complete", ![c].frames = 0]}
  BY <1>1 DEF handle_identify_alias, sasl_finish_plain
<1>4. CASE session' = session
  BY <1>0, <1>4 DEF SessionsFit, TablesOK
<1>5. CASE session' = Applied(c, a)
  <2>1. session' = [session EXCEPT ![c] = [session[c] EXCEPT !.account = a, !.reg = db[a].reg]]
    BY <1>5, Zenon DEF Applied, TablesOK, SessionRecord
  <2>2. SessionFor([session[c] EXCEPT !.account = a, !.reg = db[a].reg], db)
    BY <1>0, <1>2, AppliedIsFor, Zenon
  <2>3. QED  BY <1>0, <2>1, <2>2, OneSession, Zenon
<1>6. CASE session' = Sasl(c, "failed", 0)
  <2>1. session' = [session EXCEPT ![c] = [session[c] EXCEPT !.sasl = "failed", !.frames = 0]]
    BY <1>6, Zenon DEF Sasl, TablesOK, SessionRecord
  <2>2. SessionFor([session[c] EXCEPT !.sasl = "failed", !.frames = 0], db)
    BY <1>0, SaslIsFree, Zenon
  <2>3. QED  BY <1>0, <2>1, <2>2, OneSession, Zenon
<1>7. CASE session' = [Applied(c, a) EXCEPT ![c].sasl = "complete", ![c].frames = 0]
  <2>1. session' = [session EXCEPT ![c] = [session[c] EXCEPT
            !.account = a, !.reg = db[a].reg, !.sasl = "complete", !.frames = 0]]
    BY <1>7, Zenon DEF Applied, TablesOK, SessionRecord
  <2>2. SessionFor([session[c] EXCEPT
            !.account = a, !.reg = db[a].reg, !.sasl = "complete", !.frames = 0], db)
    BY <1>0, <1>2, AppliedIsFor, Zenon
  <2>3. QED  BY <1>0, <2>1, <2>2, OneSession, Zenon
<1>8. QED  BY <1>3, <1>4, <1>5, <1>6, <1>7

LEMMA TokenStepFits ==
    ASSUME TablesOK, SessionsCurrent, TokenStep
    PROVE  SessionsFit
<1>0. session' = session
      /\ (\A c \in Clients : SessionFor(session[c], db) /\ session[c] \in SessionRecord)
  BY TokenFootprint, SessionsAreFor DEF TablesOK
<1>1. CASE UNCHANGED <<db, mails>>
  BY <1>0, <1>1 DEF SessionsFit, TablesOK
<1>2. ASSUME NEW a \in Names, Exists(a), TokenChange(a) PROVE SessionsFit
  <2>1. PICK row \in AccountRow :
           /\ db' = [db EXCEPT ![a] = row]
           /\ row.enabled = db[a].enabled /\ row.reg = db[a].reg
    BY <1>2, TokenChangeKeepsAccounts
  <2>2. row # None
    BY NoneIsNoRow
  <2>3. ASSUME NEW c \in Clients PROVE SessionFor(session[c], db')
    <3>1. session[c].account \in Names \cup {None}
      BY <1>0 DEF SessionRecord
    <3>2. session[c].account # None =>
             /\ db'[session[c].account] # None
             /\ db'[session[c].account].enabled = db[session[c].account].enabled
             /\ db'[session[c].account].reg = db[session[c].account].reg
      BY <1>0, <2>1, <2>2, <3>1, ZenonT(40) DEF SessionFor, TablesOK
    <3>3. QED  BY <1>0, <3>2, TableIsFree
  <2>4. QED  BY <1>0, <2>3 DEF SessionsFit, TablesOK
<1>3. QED  BY <1>1, <1>2, TokenShape

LEMMA ClearedFits ==
    ASSUME TablesOK, SessionsCurrent, NEW a \in Names, NEW x,
           db' = [db EXCEPT ![a] = x], session' = clear_live_account(a)
    PROVE  SessionsFit
<1>0. \A c \in Clients : SessionFor(session[c], db) /\ session[c] \in SessionRecord
  BY SessionsAreFor DEF TablesOK
<1>1. ASSUME NEW c \in Clients PROVE SessionFor(session'[c], db')
  <2>1. CASE session[c].account = a
    BY <1>0, <2>1, LoggedOutIsFor, Zenon DEF clear_live_account
  <2>2. CASE session[c].account # a
    <3>1. session[c].account \in Names \cup {None} /\ session'[c] = session[c]
      BY <1>0, <2>2 DEF SessionRecord, clear_live_account
    <3>2. session[c].account # None => db'[session[c].account] = db[session[c].account]
      BY <2>2, <3>1 DEF TablesOK
    <3>3. QED  BY <1>0, <3>1, <3>2, TableIsFree DEF SessionFor
  <2>3. QED  BY <2>1, <2>2
<1>2. QED  BY <1>1 DEF SessionsFit, clear_live_account, SessionFor

LEMMA AccountStepFits ==
    ASSUME TablesOK, SessionsCurrent, AccountStep
    PROVE  SessionsFit
<1>0. \A c \in Clients : SessionFor(session[c], db) /\ session[c] \in SessionRecord
  BY SessionsAreFor DEF TablesOK
<1>1. ASSUME NEW c \in Clients, NEW exempt \in NetAdmin(c), command_register(c, exempt)
      PROVE  SessionsFit
  <2>1. CASE UNCHANGED <<db, session>>
    BY <1>0, <2>1 DEF SessionsFit, TablesOK
  <2>2. CASE ~UNCHANGED <<db, session>>
    <3> DEFINE n == session[c].nick
               row == NewAccount(None, regs + 1)
    <3>1. /\ n \in Names /\ ~Exists(n) /\ session[c].account = None
          /\ db' = [db EXCEPT ![n] = row]
          /\ session' = [session EXCEPT ![c].account = n, ![c].reg = regs + 1]
      BY <1>1, <2>2, Zenon DEF command_register, Identified
    <3>2. row \in AccountRow /\ row.enabled /\ row.reg = regs + 1 /\ regs + 1 \in Nat
      BY DEF NewAccount, AccountRow, TablesOK
    <3>3. db'[n] = row
      BY <3>1 DEF TablesOK
    <3>4. session' = [session EXCEPT ![c] = [session[c] EXCEPT !.account = n, !.reg = row.reg]]
      BY <3>1, <3>2, Zenon DEF TablesOK, SessionRecord
    <3>5. SessionFor([session[c] EXCEPT !.account = n, !.reg = db'[n].reg], db')
      <4>1. db'[n] \in AccountRow /\ db'[n].enabled
        BY <3>2, <3>3
      <4>2. session[c] \in SessionRecord /\ n \in Names
        BY <1>0, <3>1, Zenon
      <4> HIDE DEF n, row
      <4>3. QED  BY <4>1, <4>2, AppliedIsFor, Zenon
    <3>6. ASSUME NEW d \in Clients, d # c PROVE SessionFor(session[d], db')
      <4>1. session[d].account # None => session[d].account \in Names /\ session[d].account # n
        BY <1>0, <3>1 DEF SessionFor, SessionRecord, Exists, NoAccount
      <4>2. session[d].account # None => db'[session[d].account] = db[session[d].account]
        BY <3>1, <4>1 DEF TablesOK
      <4>3. QED  BY <1>0, <4>2, TableIsFree DEF SessionFor
    <3>7. QED
      BY <1>0, <3>3, <3>4, <3>5, <3>6 DEF SessionsFit, TablesOK, SessionFor
  <2>3. QED  BY <2>1, <2>2
<1>2. ASSUME NEW a \in Names, NEW value \in BOOLEAN, NssetEnabled(a, value) PROVE SessionsFit
  <2>1. db' = [db EXCEPT ![a] = [db[a] EXCEPT !.enabled = value]] /\ db[a] \in AccountRow
    BY <1>2, Zenon DEF NssetEnabled, TablesOK, Exists, NoAccount
  <2>2. CASE db[a].enabled /\ ~value
    BY <1>2, <2>1, <2>2, ClearedFits, Zenon DEF NssetEnabled
  <2>3. CASE ~(db[a].enabled /\ ~value)
    <3>1. session' = session
      BY <1>2, <2>3, Zenon DEF NssetEnabled
    <3>2. db'[a] # None /\ db'[a].reg = db[a].reg /\ db'[a].enabled = value
      BY <2>1, NoneIsNoRow, ZenonT(40) DEF TablesOK, AccountRow
    <3>3. ASSUME NEW c \in Clients PROVE SessionFor(session[c], db')
      <4>1. session[c].account \in Names \cup {None}
        BY <1>0 DEF SessionRecord
      <4>2. CASE session[c].account = a
        BY <1>0, <2>3, <3>2, <4>2, TableIsFree, Zenon DEF SessionFor, TablesOK
      <4>3. CASE session[c].account # a
        <5>1. session[c].account # None => db'[session[c].account] = db[session[c].account]
          BY <2>1, <4>1, <4>3 DEF TablesOK
        <5>2. QED  BY <1>0, <5>1, TableIsFree DEF SessionFor
      <4>4. QED  BY <4>2, <4>3
    <3>4. QED  BY <3>1, <3>3 DEF SessionsFit, TablesOK
  <2>4. QED  BY <2>2, <2>3
<1>3. ASSUME NEW a \in Names, NEW cleans \in BOOLEAN, command_nsdrop(a, cleans)
      PROVE  SessionsFit
  BY <1>3, ClearedFits, Zenon DEF command_nsdrop
<1>4. QED  BY <1>1, <1>2, <1>3 DEF AccountStep

LEMMA MemoStepFits ==
    ASSUME TablesOK, SessionsCurrent, MemoStep
    PROVE  SessionsFit
BY MemoFootprint, SessionsAreFor DEF SessionsFit, TablesOK

-----------------------------------------------------------------------------
(* What the steps do to the memos                                          *)

\* The rows a purge may leave: what goes is old.
Purging(R) == R \subseteq memos /\ \A m \in memos \ R : Old(m, now)

NewMemo(c, a) ==
    [id |-> nextMemo, from |-> session[c].account, fromReg |-> session[c].reg, to |-> a,
     toReg |-> db[a].reg, at |-> now, read |-> FALSE,
     senderDeleted |-> FALSE, recipientDeleted |-> FALSE]

Stored(R) ==
    \E c \in Clients, a \in Names :
        /\ Identified(c) /\ Enabled(a)
        /\ memos' = R \cup {NewMemo(c, a)} /\ nextMemo' = nextMemo + 1
Kept(R) == memos' = R /\ nextMemo' = nextMemo
MarkedRead(R) == \E id : memos' = memoserv_db_mark_read(R, id) /\ nextMemo' = nextMemo
Hidden(c) ==
    /\ Identified(c)
    /\ \/ \E rows \in Some(Inbox(memos, session[c].account)) : command_delete(c, Ids(rows))
       \/ \E rows \in Some(Sent(memos, session[c].account)) : command_delete_sent(c, Ids(rows))

LEMMA PurgedIsPurging == Purging(memos) /\ Purging(Purged(now))
BY Zenon DEF Purging, Purged, memoserv_db_purge_before

LEMMA StoreShape ==
    ASSUME TablesOK, NEW c \in Clients, Identified(c), NEW a \in Names, store_memo(c, a)
    PROVE  Kept(Purged(now)) \/ Stored(Purged(now))
BY DEF store_memo, Kept, Stored, NewMemo

LEMMA MemoShape ==
    ASSUME TablesOK, MemoStep
    PROVE  \/ \E R \in SUBSET memos : Purging(R) /\ (Kept(R) \/ Stored(R) \/ MarkedRead(R))
           \/ \E c \in Clients : Hidden(c)
<1> DEFINE Shape ==
        \/ \E R \in SUBSET memos : Purging(R) /\ (Kept(R) \/ Stored(R) \/ MarkedRead(R))
        \/ \E c \in Clients : Hidden(c)
<1>0. Purged(now) \in SUBSET memos /\ Purging(Purged(now))
  BY PurgedIsPurging DEF Purging
<1>1. ASSUME NEW c \in Clients, NEW a \in Names, command_send(c, a) PROVE Shape
  BY <1>0, <1>1, StoreShape DEF command_send, MemoSays
<1>2. ASSUME NEW c \in Clients, NEW m \in memos, command_reply(c, m) PROVE Shape
  <2>1. m.from \in Names
    BY DEF TablesOK, Memo
  <2>2. QED  BY <1>0, <1>2, <2>1, StoreShape DEF command_reply, MemoSays
<1>3. ASSUME NEW c \in Clients, NEW m \in memos, NEW a \in Names, command_forward(c, m, a)
      PROVE  Shape
  BY <1>0, <1>3, StoreShape DEF command_forward, MemoSays
<1>4. ASSUME NEW c \in Clients, list_records(c) PROVE Shape
  BY <1>0, <1>4 DEF list_records, purge_expired, Kept
<1>5. ASSUME NEW c \in Clients, NEW m \in memos, command_read(c, m) PROVE Shape
  BY <1>0, <1>5 DEF command_read, MarkedRead
<1>6. ASSUME NEW c \in Clients,
             \/ \E rows \in Some(Inbox(memos, session[c].account)) : command_delete(c, Ids(rows))
             \/ \E rows \in Some(Sent(memos, session[c].account)) :
                    command_delete_sent(c, Ids(rows))
      PROVE  Shape
  <2>1. Identified(c)
    BY <1>6 DEF command_delete, command_delete_sent, MemoSays
  <2>2. QED  BY <1>6, <2>1 DEF Hidden
<1>7. ASSUME NEW rows \in SUBSET memos, MsPurge(rows) PROVE Shape
  <2> DEFINE R == (memos \ rows) \cup memoserv_db_purge_before(rows, now)
  <2>1. R \in SUBSET memos /\ Purging(R)
    BY DEF Purging, memoserv_db_purge_before
  <2>2. Kept(R)
    BY <1>7 DEF MsPurge, Kept
  <2>3. QED  BY <2>1, <2>2
<1>8. QED
  BY <1>1, <1>2, <1>3, <1>4, <1>5, <1>6, <1>7, Zenon DEF MemoStep, MemoServCommand

\* k is the memo m with other marks.
SameMemo(m, k) ==
    /\ k \in Memo
    /\ k.id = m.id /\ k.from = m.from /\ k.fromReg = m.fromReg
    /\ k.to = m.to /\ k.toReg = m.toReg /\ k.at = m.at

\* Every row is one of the rows before, apart from its marks.
Inherited == \A k \in memos' : \E m \in memos : SameMemo(m, k)

MemoIds ==
    /\ \A m \in memos : m.id < nextMemo
    /\ \A m, k \in memos : m.id = k.id => m = k

LEMMA SubsetInherits ==
    ASSUME TablesOK, MemoIds, memos' \subseteq memos, nextMemo' = nextMemo
    PROVE  Inherited /\ MemoIds'
<1>1. Inherited
  BY DEF Inherited, SameMemo, TablesOK
<1>2. MemoIds'
  BY DEF MemoIds
<1>3. QED  BY <1>1, <1>2

\* Marking rows keeps each of them.
LEMMA MarksInherit ==
    ASSUME TablesOK, MemoIds, nextMemo' = nextMemo, NEW f,
           \A m \in memos : SameMemo(m, f[m]),
           \A k \in memos' : \E m \in memos : k = f[m]
    PROVE  Inherited /\ MemoIds'
<1>1. Inherited
  BY DEF Inherited
<1>2. ASSUME NEW k \in memos' PROVE k.id < nextMemo
  BY DEF MemoIds, SameMemo
<1>3. ASSUME NEW k \in memos', NEW l \in memos', k.id = l.id PROVE k = l
  <2>1. PICK m \in memos : k = f[m]
    OBVIOUS
  <2>2. PICK n \in memos : l = f[n]
    OBVIOUS
  <2>3. m = n
    BY <1>3, <2>1, <2>2 DEF MemoIds, SameMemo
  <2>4. QED  BY <2>1, <2>2, <2>3
<1>4. QED  BY <1>1, <1>2, <1>3 DEF MemoIds

MarkRead(m) == [m EXCEPT !.read = TRUE]
MarkReceived(m) == [m EXCEPT !.recipientDeleted = TRUE]
MarkSent(m) == [m EXCEPT !.senderDeleted = TRUE]

LEMMA MarksKeep ==
    ASSUME NEW m \in Memo
    PROVE  SameMemo(m, MarkRead(m)) /\ SameMemo(m, MarkReceived(m)) /\ SameMemo(m, MarkSent(m))
           /\ SameMemo(m, m)
BY Zenon DEF SameMemo, Memo, MarkRead, MarkReceived, MarkSent

LEMMA MarkedInherits ==
    ASSUME TablesOK, MemoIds, NEW R \in SUBSET memos, MarkedRead(R)
    PROVE  Inherited /\ MemoIds'
<1>1. PICK id : memos' = memoserv_db_mark_read(R, id) /\ nextMemo' = nextMemo
  BY DEF MarkedRead
<1> DEFINE f == [m \in memos |-> IF m.id = id THEN MarkRead(m) ELSE m]
<1>2. \A m \in memos : SameMemo(m, f[m])
  BY MarksKeep DEF TablesOK
<1>3. \A k \in memos' : \E m \in memos : k = f[m]
  BY <1>1 DEF memoserv_db_mark_read, MarkRead
<1> HIDE DEF f
<1>4. QED  BY <1>1, <1>2, <1>3, MarksInherit

LEMMA HiddenInherits ==
    ASSUME TablesOK, MemoIds, NEW c \in Clients, Hidden(c)
    PROVE  Inherited /\ MemoIds'
<1>1. ASSUME NEW ids, command_delete(c, ids) PROVE Inherited /\ MemoIds'
  <2> DEFINE f == [m \in memos |-> IF m.id \in ids THEN MarkReceived(m) ELSE m]
  <2>1. \A m \in memos : SameMemo(m, f[m])
    BY MarksKeep DEF TablesOK
  <2>2. \A k \in memos' : \E m \in memos : k = f[m]
    BY <1>1 DEF command_delete, memoserv_db_delete, purge_fully_deleted_memos, MarkReceived
  <2>3. nextMemo' = nextMemo
    BY <1>1 DEF command_delete
  <2> HIDE DEF f
  <2>4. QED  BY <2>1, <2>2, <2>3, MarksInherit
<1>2. ASSUME NEW ids, command_delete_sent(c, ids) PROVE Inherited /\ MemoIds'
  <2> DEFINE f == [m \in memos |-> IF m.id \in ids THEN MarkSent(m) ELSE m]
  <2>1. \A m \in memos : SameMemo(m, f[m])
    BY MarksKeep DEF TablesOK
  <2>2. \A k \in memos' : \E m \in memos : k = f[m]
    BY <1>2 DEF command_delete_sent, memoserv_db_delete_sent, purge_fully_deleted_memos, MarkSent
  <2>3. nextMemo' = nextMemo
    BY <1>2 DEF command_delete_sent
  <2> HIDE DEF f
  <2>4. QED  BY <2>1, <2>2, <2>3, MarksInherit
<1>3. QED  BY <1>1, <1>2 DEF Hidden

LEMMA StoredInherits ==
    ASSUME TablesOK, SessionsCurrent, MemoIds, NEW R \in SUBSET memos, Stored(R)
    PROVE  MemoIds' /\ nextMemo' \in Nat /\ memos' \subseteq Memo
<1>1. PICK c \in Clients, a \in Names :
         /\ Identified(c) /\ Enabled(a)
         /\ memos' = R \cup {NewMemo(c, a)} /\ nextMemo' = nextMemo + 1
  BY Zenon DEF Stored
<1>2. NewMemo(c, a) \in Memo /\ NewMemo(c, a).id = nextMemo
  <2>1. session[c].account \in Names /\ session[c].reg \in Nat
    BY <1>1, Zenon DEF TablesOK, SessionRecord, Identified
  <2>2. db[a].reg \in Nat
    BY <1>1 DEF TablesOK, Enabled, Exists, NoAccount, AccountRow
  <2>3. QED  BY <2>1, <2>2 DEF TablesOK, NewMemo, Memo
<1>3. \A m \in memos : m.id \in Nat
  BY DEF TablesOK, Memo
<1>4. MemoIds'
  <2>1. \A k \in memos' : k.id < nextMemo'
    BY <1>1, <1>2, <1>3 DEF MemoIds, TablesOK
  <2>2. \A k, l \in memos' : k.id = l.id => k = l
    BY <1>1, <1>2, <1>3 DEF MemoIds, TablesOK
  <2>3. QED  BY <2>1, <2>2 DEF MemoIds
<1>5. QED  BY <1>1, <1>2, <1>4 DEF TablesOK

MemoTablesFit == MemoIds' /\ nextMemo' \in Nat /\ memos' \subseteq Memo

LEMMA InheritedIsTyped ==
    ASSUME Inherited PROVE memos' \subseteq Memo
BY DEF Inherited, SameMemo

LEMMA MemoStepShape ==
    ASSUME TablesOK, SessionsCurrent, MemoIds, MemoStep
    PROVE  MemoTablesFit /\ (Inherited \/ \E R \in SUBSET memos : Stored(R))
<1>1. ASSUME NEW R \in SUBSET memos, Kept(R) PROVE MemoTablesFit /\ Inherited
  BY <1>1, SubsetInherits, InheritedIsTyped, Zenon DEF Kept, MemoTablesFit, TablesOK
<1>2. ASSUME NEW R \in SUBSET memos, MarkedRead(R) PROVE MemoTablesFit /\ Inherited
  BY <1>2, MarkedInherits, InheritedIsTyped DEF MarkedRead, MemoTablesFit, TablesOK
<1>3. ASSUME NEW R \in SUBSET memos, Stored(R) PROVE MemoTablesFit
  BY <1>3, StoredInherits DEF MemoTablesFit
<1>4. ASSUME NEW c \in Clients, Hidden(c) PROVE MemoTablesFit /\ Inherited
  <2>1. nextMemo' = nextMemo
    BY <1>4 DEF Hidden, command_delete, command_delete_sent
  <2>2. QED  BY <1>4, <2>1, HiddenInherits, InheritedIsTyped, Zenon DEF MemoTablesFit, TablesOK
<1>5. QED  BY <1>1, <1>2, <1>3, <1>4, MemoShape, Zenon

\* Every other step keeps the rows or removes some.
LEMMA OtherStepsShrink ==
    ASSUME SessionStep \/ IdentifyStep \/ TokenStep \/ AccountStep
    PROVE  memos' \subseteq memos /\ nextMemo' = nextMemo
<1>1. Purged(now) \subseteq memos
  BY PurgedIsPurging, Zenon DEF Purging
<1>2. CASE AccountStep
  BY <1>1, <1>2, AccountFootprint, Zenon
     DEF AccountStep, command_register, NssetEnabled, command_nsdrop, memoVars,
         memoserv_notify_unread, purge_expired, memoserv_db_delete_account
<1>3. QED
  BY <1>1, <1>2, SessionFootprint, IdentifyFootprint, TokenFootprint

LEMMA MemoTablesStep ==
    ASSUME TablesOK, SessionsCurrent, MemoIds, Next
    PROVE  MemoTablesFit
<1>1. CASE MemoStep
  BY <1>1, MemoStepShape
<1>2. CASE SessionStep \/ IdentifyStep \/ TokenStep \/ AccountStep
  BY <1>2, OtherStepsShrink, SubsetInherits, InheritedIsTyped, Zenon DEF MemoTablesFit, TablesOK
<1>3. QED  BY <1>1, <1>2, StepKinds

-----------------------------------------------------------------------------
(* Memos and registrations                                                 *)

\* MemosOfThisRegistration for one memo, an account table D and names O.
MemoFor(m, D, O) ==
    /\ m.to \notin O => D[m.to] # None /\ D[m.to].reg = m.toReg
    /\ m.from \notin O => D[m.from] # None /\ D[m.from].reg = m.fromReg

LEMMA MemosAreFor ==
    MemosOfThisRegistration <=> \A m \in memos : MemoFor(m, db, orphaned)
BY Zenon DEF MemosOfThisRegistration, MemoFor, Exists, NoAccount

\* Accounts keep their registrations, so inherited memos keep theirs.
LEMMA InheritedIsFor ==
    ASSUME TablesOK, MemosOfThisRegistration, Inherited, orphaned' = orphaned,
           \A a \in Names : db[a] # None => db'[a] # None /\ db'[a].reg = db[a].reg
    PROVE  MemosOfThisRegistration'
<1>1. ASSUME NEW k \in memos' PROVE MemoFor(k, db', orphaned')
  <2>1. PICK m \in memos : SameMemo(m, k)
    BY DEF Inherited
  <2>2. MemoFor(m, db, orphaned) /\ m.to \in Names /\ m.from \in Names
    BY MemosAreFor, Zenon DEF TablesOK, Memo
  <2>3. QED  BY <2>1, <2>2 DEF MemoFor, SameMemo
<1>2. QED  BY <1>1, Zenon DEF MemosOfThisRegistration, MemoFor, Exists, NoAccount

LEMMA StoredIsFor ==
    ASSUME TablesOK, SessionsCurrent, MemosOfThisRegistration,
           NEW R \in SUBSET memos, Stored(R), db' = db, orphaned' = orphaned
    PROVE  MemosOfThisRegistration'
<1>1. PICK c \in Clients, a \in Names :
         Identified(c) /\ Enabled(a) /\ memos' = R \cup {NewMemo(c, a)}
  BY Zenon DEF Stored
<1>2. MemoFor(NewMemo(c, a), db, orphaned)
  BY <1>1, ZenonT(40) DEF MemoFor, NewMemo, SessionsCurrent, Enabled, Exists, NoAccount
<1>3. QED
  BY <1>1, <1>2, MemosAreFor, Zenon DEF MemosOfThisRegistration, MemoFor, Exists, NoAccount

LEMMA DropIsFor ==
    ASSUME TablesOK, MemosOfThisRegistration, NEW a \in Names, NEW cleans \in BOOLEAN,
           command_nsdrop(a, cleans)
    PROVE  MemosOfThisRegistration'
<1>1. ASSUME NEW m \in memos' PROVE MemoFor(m, db', orphaned')
  <2>1. m \in memos /\ m.to \in Names /\ m.from \in Names /\ MemoFor(m, db, orphaned)
    BY MemosAreFor DEF command_nsdrop, memoserv_db_delete_account, TablesOK, Memo
  <2>2. \A b \in Names : b # a => db'[b] = db[b]
    BY ZenonT(40) DEF command_nsdrop, TablesOK
  <2>3. a \in {m.from, m.to} => a \in orphaned'
    BY <2>1, Zenon DEF command_nsdrop, memoserv_db_delete_account
  <2>4. \A b \in Names : b # a /\ b \notin orphaned' => b \notin orphaned
    BY DEF command_nsdrop
  <2>5. QED  BY <2>1, <2>2, <2>3, <2>4, Zenon DEF MemoFor
<1>2. QED  BY <1>1, Zenon DEF MemosOfThisRegistration, MemoFor, Exists, NoAccount

LEMMA RegistrationsStep ==
    ASSUME TablesOK, SessionsCurrent, MemoIds, MemosOfThisRegistration, Next
    PROVE  MemosOfThisRegistration'
<1>0. SessionStep \/ IdentifyStep \/ TokenStep \/ AccountStep => Inherited
  BY OtherStepsShrink, SubsetInherits
<1>1. CASE SessionStep
  BY <1>0, <1>1, SessionFootprint, InheritedIsFor
<1>2. CASE IdentifyStep
  BY <1>0, <1>2, IdentifyFootprint, InheritedIsFor
<1>3. CASE TokenStep
  <2>1. orphaned' = orphaned
    BY <1>3, TokenFootprint
  <2>2. CASE UNCHANGED <<db, mails>>
    BY <1>0, <1>3, <2>1, <2>2, InheritedIsFor, Zenon
  <2>3. ASSUME NEW a \in Names, Exists(a), TokenChange(a) PROVE MemosOfThisRegistration'
    <3>1. PICK row \in AccountRow : db' = [db EXCEPT ![a] = row] /\ row.reg = db[a].reg
      BY <2>3, TokenChangeKeepsAccounts
    <3>2. \A b \in Names : db[b] # None => db'[b] # None /\ db'[b].reg = db[b].reg
      BY <3>1, NoneIsNoRow, Zenon DEF TablesOK
    <3>3. QED  BY <1>0, <1>3, <2>1, <3>2, InheritedIsFor
  <2>4. QED  BY <1>3, <2>2, <2>3, TokenShape
<1>4. ASSUME NEW c \in Clients, NEW exempt \in NetAdmin(c), command_register(c, exempt)
      PROVE  MemosOfThisRegistration'
  <2>1. orphaned' = orphaned /\ AccountStep
    BY <1>4, Zenon DEF command_register, AccountStep
  <2>2. \A b \in Names : db[b] # None => db'[b] # None /\ db'[b].reg = db[b].reg
    BY <1>4 DEF command_register, Exists, NoAccount, TablesOK
  <2>3. QED  BY <1>0, <2>1, <2>2, InheritedIsFor
<1>5. ASSUME NEW a \in Names, NEW value \in BOOLEAN, NssetEnabled(a, value)
      PROVE  MemosOfThisRegistration'
  <2>1. orphaned' = orphaned /\ AccountStep
    BY <1>5, Zenon DEF NssetEnabled, AccountStep
  <2>2. db' = [db EXCEPT ![a] = [db[a] EXCEPT !.enabled = value]] /\ db[a] \in AccountRow
    BY <1>5, Zenon DEF NssetEnabled, TablesOK, Exists, NoAccount
  <2>3. [db[a] EXCEPT !.enabled = value] \in AccountRow
        /\ [db[a] EXCEPT !.enabled = value].reg = db[a].reg
    BY <2>2 DEF AccountRow
  <2>4. \A b \in Names : db[b] # None => db'[b] # None /\ db'[b].reg = db[b].reg
    BY <2>2, <2>3, NoneIsNoRow DEF TablesOK
  <2>5. QED  BY <1>0, <2>1, <2>4, InheritedIsFor
<1>6. ASSUME NEW a \in Names, NEW cleans \in BOOLEAN, command_nsdrop(a, cleans)
      PROVE  MemosOfThisRegistration'
  BY <1>6, DropIsFor
<1>7. CASE MemoStep
  <2>1. db' = db /\ orphaned' = orphaned
    BY <1>7, MemoFootprint, Zenon
  <2>2. QED  BY <1>7, <2>1, MemoStepShape, InheritedIsFor, StoredIsFor
<1>8. QED  BY <1>1, <1>2, <1>3, <1>4, <1>5, <1>6, <1>7, StepKinds DEF AccountStep

-----------------------------------------------------------------------------
(* Tokens                                                                  *)

\* Token t of the mails M is the latest of its kind for account a and unused.
Good(M, t, k, a, r) ==
    /\ t \in DOMAIN M
    /\ M[t].kind = k /\ M[t].account = a /\ M[t].reg = r /\ M[t].uses = 0
    /\ \A u \in DOMAIN M : M[u].kind = k /\ M[u].account = a => u <= t

\* The tokens a row stores are good, and what else it stores about them fits.
ResetFor(row, M, a) ==
    row.resetToken # 0 =>
        /\ Good(M, row.resetToken, "reset", a, row.reg)
        /\ row.resetExpires = M[row.resetToken].made + ResetLife
        /\ row.password = M[row.resetToken].password
VerifyFor(row, M, a) ==
    row.verifyToken # 0 =>
        /\ Good(M, row.verifyToken, "verify", a, row.reg)
        /\ row.verifyExpires = M[row.verifyToken].made + VerifyLife
        /\ row.pending = M[row.verifyToken].to
TokensFor(row, M, a) == ResetFor(row, M, a) /\ VerifyFor(row, M, a)

TokenInv == \A a \in Names : db[a] # None => TokensFor(db[a], mails, a)

\* A mail about something else leaves a good token good, and is good itself.
LEMMA MailKeepsGood ==
    ASSUME NEW M \in Seq(Token), NEW tok \in Token, NEW t, NEW k, NEW a, NEW r,
           Good(M, t, k, a, r), tok.kind # k \/ tok.account # a
    PROVE  Good(Append(M, tok), t, k, a, r) /\ Append(M, tok)[t] = M[t]
<1>1. /\ DOMAIN Append(M, tok) = 1 .. Len(M) + 1 /\ DOMAIN M = 1 .. Len(M) /\ Len(M) \in Nat
      /\ \A u \in 1 .. Len(M) : Append(M, tok)[u] = M[u]
      /\ Append(M, tok)[Len(M) + 1] = tok
  OBVIOUS
<1> HIDE DEF Token
<1> DEFINE N == Append(M, tok)
<1>2. \A u \in DOMAIN N : u \in DOMAIN M \/ u = Len(M) + 1
  BY <1>1
<1>3. t \in DOMAIN N /\ N[t] = M[t]
  BY <1>1 DEF Good
<1>4. \A u \in DOMAIN N : N[u].kind = k /\ N[u].account = a => u <= t
  BY <1>1, <1>2, Zenon DEF Good
<1>5. QED  BY <1>3, <1>4 DEF Good

LEMMA MailIsGood ==
    ASSUME NEW M \in Seq(Token), NEW tok \in Token, tok.uses = 0
    PROVE  /\ Good(Append(M, tok), Len(M) + 1, tok.kind, tok.account, tok.reg)
           /\ Append(M, tok)[Len(M) + 1] = tok
<1>1. /\ DOMAIN Append(M, tok) = 1 .. Len(M) + 1 /\ Len(M) \in Nat
      /\ Append(M, tok)[Len(M) + 1] = tok
  OBVIOUS
<1>2. \A u \in 1 .. Len(M) + 1 : u <= Len(M) + 1
  BY <1>1
<1>3. Len(M) + 1 \in 1 .. Len(M) + 1
  BY <1>1
<1>4. QED  BY <1>1, <1>2, <1>3 DEF Good

\* So does using another token.
LEMMA UseKeepsGood ==
    ASSUME NEW M \in Seq(Token), NEW t \in DOMAIN M, NEW s, NEW k, NEW a, NEW r,
           Good(M, s, k, a, r), s # t
    PROVE  /\ Good([M EXCEPT ![t].uses = @ + 1], s, k, a, r)
           /\ [M EXCEPT ![t].uses = @ + 1][s] = M[s]
<1> DEFINE N == [M EXCEPT ![t].uses = @ + 1]
<1>1. DOMAIN N = DOMAIN M /\ (\A u \in DOMAIN M : u # t => N[u] = M[u])
  OBVIOUS
<1>2. M[t] \in Token /\ N[t] = [M[t] EXCEPT !.uses = @ + 1]
  OBVIOUS
<1>3. N[t].kind = M[t].kind /\ N[t].account = M[t].account
  BY <1>2, Zenon DEF Token
<1> HIDE DEF N
<1>4. \A u \in DOMAIN N : N[u].kind = M[u].kind /\ N[u].account = M[u].account
  BY <1>1, <1>3, Zenon
<1>5. Good(N, s, k, a, r) /\ N[s] = M[s]
  BY <1>1, <1>4, Zenon DEF Good
<1>6. QED  BY <1>5 DEF N

\* The other accounts' tokens stay what they are.
LEMMA OthersKeepTokens ==
    ASSUME TablesOK, TokenInv, NEW a \in Names, NEW x, db' = [db EXCEPT ![a] = x],
           \A b \in Names \ {a} : \A k, t : Good(mails, t, k, b, db[b].reg) =>
              Good(mails', t, k, b, db[b].reg) /\ mails'[t] = mails[t],
           x # None => TokensFor(x, mails', a)
    PROVE  TokenInv'
<1>1. ASSUME NEW b \in Names, b # a, db[b] # None PROVE TokensFor(db[b], mails', b)
  <2>1. ResetFor(db[b], mails, b) /\ VerifyFor(db[b], mails, b)
    BY <1>1 DEF TokenInv, TokensFor
  <2>2. ResetFor(db[b], mails', b)
    BY <1>1, <2>1, ZenonT(40) DEF ResetFor
  <2>3. VerifyFor(db[b], mails', b)
    BY <1>1, <2>1, Zenon DEF VerifyFor
  <2>4. QED  BY <2>2, <2>3, Zenon DEF TokensFor
<1>2. \A b \in Names : db'[b] = IF b = a THEN x ELSE db[b]
  BY DEF TablesOK
<1>3. QED  BY <1>1, <1>2, Zenon DEF TokenInv

\* A row whose account keeps its registration, and a mail of another kind.
LEMMA MailedOthers ==
    ASSUME TablesOK, NEW a \in Names, NEW tok \in Token, tok.account = a,
           mails' = Append(mails, tok)
    PROVE  \A b \in Names \ {a} : \A k, t : Good(mails, t, k, b, db[b].reg) =>
              Good(mails', t, k, b, db[b].reg) /\ mails'[t] = mails[t]
BY MailKeepsGood, Zenon DEF TablesOK

LEMMA UsedOthers ==
    ASSUME TablesOK, NEW a \in Names, NEW t \in DOMAIN mails, mails[t].account = a,
           mails' = Used(t)
    PROVE  \A b \in Names \ {a} : \A k, s : Good(mails, s, k, b, db[b].reg) =>
              Good(mails', s, k, b, db[b].reg) /\ mails'[s] = mails[s]
<1>1. ASSUME NEW b \in Names \ {a}, NEW k, NEW s, Good(mails, s, k, b, db[b].reg)
      PROVE  Good(mails', s, k, b, db[b].reg) /\ mails'[s] = mails[s]
  <2>1. s # t
    BY <1>1, Zenon DEF Good
  <2>2. QED  BY <1>1, <2>1, UseKeepsGood, Zenon DEF TablesOK, Used
<1>2. QED  BY <1>1

\* Nothing changed for the tokens of one kind.
LEMMA ResetKept ==
    ASSUME NEW row, NEW new, NEW M, NEW N, NEW a, ResetFor(row, M, a),
           /\ new.resetToken = row.resetToken /\ new.resetExpires = row.resetExpires
           /\ new.password = row.password /\ new.reg = row.reg,
           row.resetToken # 0 => /\ Good(N, row.resetToken, "reset", a, row.reg)
                                 /\ N[row.resetToken] = M[row.resetToken]
    PROVE  ResetFor(new, N, a)
BY Zenon DEF ResetFor

LEMMA VerifyKept ==
    ASSUME NEW row, NEW new, NEW M, NEW N, NEW a, VerifyFor(row, M, a),
           /\ new.verifyToken = row.verifyToken /\ new.verifyExpires = row.verifyExpires
           /\ new.pending = row.pending /\ new.reg = row.reg,
           row.verifyToken # 0 => /\ Good(N, row.verifyToken, "verify", a, row.reg)
                                  /\ N[row.verifyToken] = M[row.verifyToken]
    PROVE  VerifyFor(new, N, a)
BY DEF VerifyFor

\* A token that was mailed for an account and the row that stores it.
LEMMA MailTyped ==
    ASSUME TablesOK, NEW a \in Names, db[a] \in AccountRow, NEW k \in {"verify", "reset"},
           NEW to \in Addresses \cup {None}, NEW arrives \in BOOLEAN
    PROVE  \E tok \in Token :
              /\ Mail(k, a, to, arrives) = Append(mails, tok)
              /\ tok.kind = k /\ tok.account = a /\ tok.reg = db[a].reg /\ tok.to = to
              /\ tok.password = db[a].password /\ tok.made = now /\ tok.uses = 0
<1> DEFINE tok == [kind |-> k, account |-> a, reg |-> db[a].reg, to |-> to,
                   password |-> db[a].password, made |-> now, arrives |-> arrives, uses |-> 0]
<1>1. tok \in Token
  BY DEF TablesOK, AccountRow, Token
<1>2. QED  BY <1>1, Zenon DEF Mail

LEMMA TokensStepPassword ==
    ASSUME TablesOK, TokenInv, NEW a \in Names, Exists(a), PasswordChange(a)
    PROVE  TokenInv'
<1> DEFINE row == db[a]
           new == nickserv_db_set_password(row)
<1>1. row \in AccountRow /\ TokensFor(row, mails, a)
  BY DEF TablesOK, TokenInv, Exists, NoAccount
<1>2. /\ new.resetToken = 0 /\ new.verifyToken = row.verifyToken
      /\ new.verifyExpires = row.verifyExpires
      /\ new.pending = row.pending /\ new.reg = row.reg
  BY <1>1 DEF nickserv_db_set_password, AccountRow
<1>3. db' = [db EXCEPT ![a] = new] /\ mails' = mails
  BY Zenon DEF PasswordChange
<1> HIDE DEF row, new
<1>4. VerifyFor(new, mails, a)
  BY <1>1, <1>2, VerifyKept, ZenonT(40) DEF TokensFor, VerifyFor
<1>5. ResetFor(new, mails, a)
  BY <1>2 DEF ResetFor
<1>6. QED  BY <1>3, <1>4, <1>5, OthersKeepTokens, Zenon DEF TokensFor

LEMMA TokensStepAddress ==
    ASSUME TablesOK, TokenInv, NEW a \in Names, Exists(a), AddressEntered(a)
    PROVE  TokenInv'
<1>0. PICK e \in Addresses \cup {None} :
         db' = [db EXCEPT ![a] = nickserv_db_admin_set_email(db[a], e)] /\ mails' = mails
  BY Zenon DEF AddressEntered
<1> DEFINE row == db[a]
           new == nickserv_db_admin_set_email(row, e)
<1>1. row \in AccountRow /\ TokensFor(row, mails, a)
  BY DEF TablesOK, TokenInv, Exists, NoAccount
<1>2. /\ new.verifyToken = 0 /\ new.resetToken = row.resetToken
      /\ new.resetExpires = row.resetExpires
      /\ new.password = row.password /\ new.reg = row.reg
  BY <1>1 DEF nickserv_db_admin_set_email, AccountRow
<1>3. db' = [db EXCEPT ![a] = new] /\ mails' = mails
  BY <1>0, ZenonT(40)
<1> HIDE DEF row, new
<1>4. ResetFor(new, mails, a)
  BY <1>1, <1>2, ResetKept DEF TokensFor, ResetFor
<1>5. VerifyFor(new, mails, a)
  BY <1>2, Zenon DEF VerifyFor
<1>6. QED  BY <1>3, <1>4, <1>5, OthersKeepTokens, Zenon DEF TokensFor

LEMMA TokensStepChallenge ==
    ASSUME TablesOK, TokenInv, NEW a \in Names, Exists(a), Challenge(a)
    PROVE  TokenInv'
<1>0. PICK e \in Addresses, arrives \in BOOLEAN :
         /\ db' = [db EXCEPT ![a] = nickserv_db_set_email_challenge(db[a], e)]
         /\ mails' = Mail("verify", a, e, arrives)
  BY Zenon DEF Challenge
<1> DEFINE row == db[a]
           new == nickserv_db_set_email_challenge(row, e)
<1>1. row \in AccountRow /\ TokensFor(row, mails, a)
  BY DEF TablesOK, TokenInv, Exists, NoAccount
<1>2. /\ new.verifyToken = Fresh /\ new.verifyExpires = now + VerifyLife /\ new.pending = e
      /\ new.resetToken = row.resetToken /\ new.resetExpires = row.resetExpires
      /\ new.password = row.password /\ new.reg = row.reg
  BY <1>1 DEF nickserv_db_set_email_challenge, AccountRow
<1>3. db' = [db EXCEPT ![a] = new]
  BY <1>0, Zenon
<1>4. PICK tok \in Token :
         /\ mails' = Append(mails, tok)
         /\ tok.kind = "verify" /\ tok.account = a /\ tok.reg = row.reg /\ tok.to = e
         /\ tok.made = now /\ tok.uses = 0
  BY <1>0, <1>1, MailTyped
<1> HIDE DEF row, new
<1>5. mails \in Seq(Token)
  BY Zenon DEF TablesOK
<1>6. VerifyFor(new, mails', a)
  BY <1>2, <1>4, <1>5, MailIsGood DEF VerifyFor, Fresh
<1>7. ResetFor(new, mails', a)
  <2>1. row.resetToken # 0 => /\ Good(mails', row.resetToken, "reset", a, row.reg)
                              /\ mails'[row.resetToken] = mails[row.resetToken]
    BY <1>1, <1>4, <1>5, MailKeepsGood, Zenon DEF TokensFor, ResetFor
  <2>2. QED  BY <1>1, <1>2, <2>1, ResetKept, Zenon DEF TokensFor
<1>8. QED  BY <1>3, <1>4, <1>6, <1>7, MailedOthers, OthersKeepTokens, Zenon DEF TokensFor

LEMMA TokensStepAsked ==
    ASSUME TablesOK, TokenInv, NEW a \in Names, Exists(a), ResetAsked(a)
    PROVE  TokenInv'
<1>0. PICK arrives \in BOOLEAN :
         /\ db' = [db EXCEPT ![a] = nickserv_db_set_reset_token(db[a])]
         /\ mails' = Mail("reset", a, db[a].email, arrives)
  BY DEF ResetAsked
<1> DEFINE row == db[a]
           new == nickserv_db_set_reset_token(row)
<1>1. row \in AccountRow /\ TokensFor(row, mails, a)
  BY DEF TablesOK, TokenInv, Exists, NoAccount
<1>2. /\ new.resetToken = Fresh /\ new.resetExpires = now + ResetLife
      /\ new.password = row.password /\ new.reg = row.reg
      /\ new.verifyToken = row.verifyToken /\ new.verifyExpires = row.verifyExpires
      /\ new.pending = row.pending
  BY <1>1 DEF nickserv_db_set_reset_token, AccountRow
<1>3. db' = [db EXCEPT ![a] = new]
  BY <1>0, Zenon
<1>4. PICK tok \in Token :
         /\ mails' = Append(mails, tok)
         /\ tok.kind = "reset" /\ tok.account = a /\ tok.reg = row.reg
         /\ tok.password = row.password /\ tok.made = now /\ tok.uses = 0
  <2>1. PICK to \in Addresses \cup {None} : to = db[a].email
    BY <1>1 DEF AccountRow
  <2>2. mails' = Mail("reset", a, to, arrives) /\ db[a] \in AccountRow
    BY <1>0, <1>1, <2>1
  <2>3. QED  BY <2>2, MailTyped, SMT, SMTT(30)
<1> HIDE DEF row, new
<1>5. mails \in Seq(Token)
  BY ZenonT(40) DEF TablesOK
<1>6. ResetFor(new, mails', a)
  BY <1>2, <1>4, <1>5, MailIsGood DEF ResetFor, Fresh
<1>7. VerifyFor(new, mails', a)
  <2>1. row.verifyToken # 0 => /\ Good(mails', row.verifyToken, "verify", a, row.reg)
                               /\ mails'[row.verifyToken] = mails[row.verifyToken]
    BY <1>1, <1>4, <1>5, MailKeepsGood, Zenon DEF TokensFor, VerifyFor
  <2>2. QED  BY <1>1, <1>2, <2>1, VerifyKept, Zenon DEF TokensFor
<1>8. QED  BY <1>3, <1>4, <1>6, <1>7, MailedOthers, OthersKeepTokens, Zenon DEF TokensFor

\* A token that is redeemed is good and of the right kind.
LEMMA TokensStepReset ==
    ASSUME TablesOK, TokenInv, NEW a \in Names, Exists(a), ResetUsed(a)
    PROVE  TokenInv'
<1>0. PICK t \in Tokens :
         /\ Redeems(db[a], t)
         /\ db' = [db EXCEPT ![a] = nickserv_db_set_password(db[a])]
         /\ mails' = Used(t)
  BY DEF ResetUsed
<1> DEFINE row == db[a]
           new == nickserv_db_set_password(row)
<1>1. row \in AccountRow /\ TokensFor(row, mails, a)
  BY DEF TablesOK, TokenInv, Exists, NoAccount
<1>2. /\ new.resetToken = 0 /\ new.verifyToken = row.verifyToken
      /\ new.verifyExpires = row.verifyExpires
      /\ new.pending = row.pending /\ new.reg = row.reg
  BY <1>1 DEF nickserv_db_set_password, AccountRow
<1>3. db' = [db EXCEPT ![a] = new] /\ row.resetToken = t
  BY <1>0 DEF Redeems
<1>4. mails \in Seq(Token) /\ t \in DOMAIN mails /\ t # 0
  BY DEF TablesOK, Tokens
<1> HIDE DEF row, new
<1>5. Good(mails, t, "reset", a, row.reg)
  BY <1>1, <1>3, <1>4, Zenon DEF TokensFor, ResetFor
<1>6. VerifyFor(new, mails', a)
  <2>1. row.verifyToken # 0 => /\ Good(mails', row.verifyToken, "verify", a, row.reg)
                               /\ mails'[row.verifyToken] = mails[row.verifyToken]
    <3>1. SUFFICES ASSUME row.verifyToken # 0
                   PROVE  /\ Good(mails', row.verifyToken, "verify", a, row.reg)
                          /\ mails'[row.verifyToken] = mails[row.verifyToken]
      BY Zenon
    <3>2. Good(mails, row.verifyToken, "verify", a, row.reg)
      BY <1>1, <3>1, Zenon DEF TokensFor, VerifyFor
    <3>3. row.verifyToken # t
      BY <1>5, <3>2, Zenon DEF Good
    <3>4. QED  BY <1>0, <1>4, <3>2, <3>3, UseKeepsGood, ZenonT(40) DEF Used
  <2>2. QED  BY <1>1, <1>2, <2>1, VerifyKept DEF TokensFor
<1>7. ResetFor(new, mails', a)
  BY <1>2, Zenon DEF ResetFor
<1>8. mails[t].account = a
  BY <1>5 DEF Good
<1>9. QED  BY <1>0, <1>3, <1>4, <1>6, <1>7, <1>8, UsedOthers, OthersKeepTokens, Zenon DEF TokensFor

LEMMA VerifiedRow ==
    ASSUME NEW row \in AccountRow, NEW t, nickserv_db_verify_email(row, t) # row
    PROVE  LET new == nickserv_db_verify_email(row, t)
           IN  /\ row.verifyToken = t /\ row.verifyExpires >= now
               /\ new.verifyToken = 0 /\ new.email = row.pending
               /\ new.resetToken = row.resetToken /\ new.resetExpires = row.resetExpires
               /\ new.password = row.password /\ new.reg = row.reg
BY DEF nickserv_db_verify_email, AccountRow

LEMMA TokensStepVerify ==
    ASSUME TablesOK, TokenInv, NEW a \in Names, Exists(a), Verification(a)
    PROVE  TokenInv'
<1>0. PICK t \in Tokens :
         /\ nickserv_db_verify_email(db[a], t) # db[a]
         /\ db' = [db EXCEPT ![a] = nickserv_db_verify_email(db[a], t)]
         /\ mails' = Used(t)
  BY ZenonT(40) DEF Verification
<1> DEFINE row == db[a]
           new == nickserv_db_verify_email(row, t)
<1>1. row \in AccountRow /\ TokensFor(row, mails, a)
  BY DEF TablesOK, TokenInv, Exists, NoAccount
<1>2. /\ new.verifyToken = 0 /\ row.verifyToken = t
      /\ new.resetToken = row.resetToken /\ new.resetExpires = row.resetExpires
      /\ new.password = row.password /\ new.reg = row.reg
  BY <1>0, <1>1, VerifiedRow
<1>3. db' = [db EXCEPT ![a] = new]
  BY <1>0, Zenon
<1>4. mails \in Seq(Token) /\ t \in DOMAIN mails /\ t # 0
  BY DEF TablesOK, Tokens
<1> HIDE DEF row, new
<1>5. Good(mails, t, "verify", a, row.reg)
  BY <1>1, <1>2, <1>4, Zenon DEF TokensFor, VerifyFor
<1>6. ResetFor(new, mails', a)
  <2>1. row.resetToken # 0 => /\ Good(mails', row.resetToken, "reset", a, row.reg)
                              /\ mails'[row.resetToken] = mails[row.resetToken]
    <3>1. SUFFICES ASSUME row.resetToken # 0
                   PROVE  /\ Good(mails', row.resetToken, "reset", a, row.reg)
                          /\ mails'[row.resetToken] = mails[row.resetToken]
      OBVIOUS
    <3>2. Good(mails, row.resetToken, "reset", a, row.reg)
      BY <1>1, <3>1 DEF TokensFor, ResetFor
    <3>3. row.resetToken # t
      BY <1>5, <3>2 DEF Good
    <3>4. QED  BY <1>0, <1>4, <3>2, <3>3, UseKeepsGood, ZenonT(40) DEF Used
  <2>2. QED  BY <1>1, <1>2, <2>1, ResetKept DEF TokensFor
<1>7. VerifyFor(new, mails', a)
  BY <1>2, Zenon DEF VerifyFor
<1>8. mails[t].account = a
  BY <1>5 DEF Good
<1>9. QED  BY <1>0, <1>3, <1>4, <1>6, <1>7, <1>8, UsedOthers, OthersKeepTokens, Zenon DEF TokensFor

LEMMA TokensStep ==
    ASSUME TablesOK, SessionsCurrent, TokenInv, Next
    PROVE  TokenInv'
<1>1. CASE UNCHANGED <<db, mails>>
  BY <1>1 DEF TokenInv
<1>2. CASE TokenStep
  <2>1. ASSUME NEW a \in Names, Exists(a), TokenChange(a) PROVE TokenInv'
    BY <2>1, TokensStepPassword, TokensStepChallenge, TokensStepVerify, TokensStepAsked,
       TokensStepReset, TokensStepAddress, Zenon DEF TokenChange
  <2>2. QED  BY <1>1, <1>2, <2>1, TokenShape
<1>3. CASE AccountStep
  <2>0. mails' = mails
    BY <1>3, AccountFootprint
  <2>1. ASSUME NEW c \in Clients, NEW exempt \in NetAdmin(c), command_register(c, exempt), db' # db
        PROVE  TokenInv'
    <3>1. PICK n \in Names : n = session[c].nick
      BY <2>1 DEF command_register
    <3>2. db' = [db EXCEPT ![n] = NewAccount(None, regs + 1)]
      BY <2>1, <3>1, Zenon DEF command_register
    <3>3. TokensFor(NewAccount(None, regs + 1), mails', n)
      BY Zenon DEF NewAccount, TokensFor, ResetFor, VerifyFor
    <3>4. QED  BY <2>0, <3>2, <3>3, OthersKeepTokens, ZenonT(40)
  <2>2. ASSUME NEW a \in Names, NEW value \in BOOLEAN, NssetEnabled(a, value) PROVE TokenInv'
    <3> DEFINE row == db[a]
               new == [row EXCEPT !.enabled = value]
    <3>1. row \in AccountRow /\ TokensFor(row, mails, a) /\ db' = [db EXCEPT ![a] = new]
      BY <2>2, Zenon DEF NssetEnabled, TablesOK, TokenInv, Exists, NoAccount
    <3>2. /\ new.verifyToken = row.verifyToken /\ new.verifyExpires = row.verifyExpires
          /\ new.pending = row.pending /\ new.reg = row.reg
          /\ new.resetToken = row.resetToken /\ new.resetExpires = row.resetExpires
          /\ new.password = row.password
      BY <3>1, Zenon DEF AccountRow
    <3> HIDE DEF row, new
    <3>3. VerifyFor(new, mails, a)
      BY <3>1, <3>2, VerifyKept, ZenonT(40) DEF TokensFor, VerifyFor
    <3>4. ResetFor(new, mails, a)
      BY <3>1, <3>2, ResetKept DEF TokensFor, ResetFor
    <3>5. QED  BY <2>0, <3>1, <3>3, <3>4, OthersKeepTokens, Zenon DEF TokensFor
  <2>3. ASSUME NEW a \in Names, NEW cleans \in BOOLEAN, command_nsdrop(a, cleans)
        PROVE  TokenInv'
    <3>1. db' = [db EXCEPT ![a] = None]
      BY <2>3, Zenon DEF command_nsdrop, NoAccount
    <3>2. QED  BY <2>0, <3>1, OthersKeepTokens, ZenonT(40)
  <2>4. QED  BY <1>1, <1>3, <2>0, <2>1, <2>2, <2>3 DEF AccountStep
<1>4. QED
  BY <1>1, <1>2, <1>3, StepKinds, SessionFootprint, IdentifyFootprint, MemoFootprint, SMT, SMTT(30)

-----------------------------------------------------------------------------
(* The inductive invariant                                                 *)

AccountInv ==
    /\ TablesOK
    /\ SessionsCurrent
    /\ TokenInv
    /\ MemoIds
    /\ MemosOfThisRegistration

LEMMA SessionsStep ==
    ASSUME TablesOK, SessionsCurrent, Next
    PROVE  SessionsFit
BY StepKinds, SessionStepFits, IdentifyStepFits, TokenStepFits, AccountStepFits, MemoStepFits, Zenon

LEMMA RowsStep ==
    ASSUME TablesOK, SessionsCurrent, Next
    PROVE  db' \in [Names -> AccountRow \cup {None}]
<1>1. CASE db' = db
  BY <1>1 DEF TablesOK
<1>2. CASE TokenStep
  <2>1. ASSUME NEW a \in Names, Exists(a), TokenChange(a)
        PROVE  db' \in [Names -> AccountRow \cup {None}]
    <3>1. PICK row \in AccountRow : db' = [db EXCEPT ![a] = row]
      BY <2>1, TokenChangeKeepsAccounts
    <3>2. QED  BY <3>1 DEF TablesOK
  <2>2. QED  BY <1>1, <1>2, <2>1, TokenShape
<1>3. ASSUME NEW c \in Clients, NEW exempt \in NetAdmin(c), command_register(c, exempt)
      PROVE  db' \in [Names -> AccountRow \cup {None}]
  <2>1. NewAccount(None, regs + 1) \in AccountRow
    BY DEF NewAccount, AccountRow, TablesOK
  <2>2. QED  BY <1>1, <1>3, <2>1, ZenonT(40) DEF command_register, TablesOK
<1>4. ASSUME NEW a \in Names, NEW value \in BOOLEAN, NssetEnabled(a, value)
      PROVE  db' \in [Names -> AccountRow \cup {None}]
  <2>1. db' = [db EXCEPT ![a] = [db[a] EXCEPT !.enabled = value]] /\ db[a] \in AccountRow
    BY <1>4, Zenon DEF NssetEnabled, TablesOK, Exists, NoAccount
  <2>2. [db[a] EXCEPT !.enabled = value] \in AccountRow
    BY <2>1, ZenonT(40) DEF AccountRow
  <2>3. QED  BY <2>1, <2>2 DEF TablesOK
<1>5. ASSUME NEW a \in Names, NEW cleans \in BOOLEAN, command_nsdrop(a, cleans)
      PROVE  db' \in [Names -> AccountRow \cup {None}]
  BY <1>5 DEF command_nsdrop, TablesOK, NoAccount
<1>6. QED
  BY <1>1, <1>2, <1>3, <1>4, <1>5, StepKinds, SessionFootprint, IdentifyFootprint,
     MemoFootprint, Zenon DEF AccountStep

LEMMA MailsStep ==
    ASSUME TablesOK, SessionsCurrent, Next
    PROVE  mails' \in Seq(Token)
<1>1. CASE mails' = mails
  BY <1>1 DEF TablesOK
<1>2. ASSUME NEW t \in Tokens, mails' = Used(t) PROVE mails' \in Seq(Token)
  <2>1. mails \in Seq(Token) /\ t \in DOMAIN mails /\ mails[t] \in Token
    BY DEF TablesOK, Tokens
  <2>2. mails[t].uses + 1 \in Nat
    BY <2>1, SMTT(20) DEF Token
  <2>3. [mails[t] EXCEPT !.uses = mails[t].uses + 1] \in Token
    BY <2>1, <2>2, Zenon DEF Token
  <2>4. mails' = [mails EXCEPT ![t] = [mails[t] EXCEPT !.uses = mails[t].uses + 1]]
    BY <1>2 DEF Used
  <2>5. QED  BY <2>1, <2>3, <2>4
<1>3. ASSUME NEW a \in Names, Exists(a), NEW k \in {"verify", "reset"},
             NEW to \in Addresses \cup {None}, NEW arrives \in BOOLEAN,
             mails' = Mail(k, a, to, arrives)
      PROVE  mails' \in Seq(Token)
  <2>1. db[a] \in AccountRow
    BY <1>3, Zenon DEF TablesOK, Exists, NoAccount
  <2>2. PICK tok \in Token : mails' = Append(mails, tok)
    BY <1>3, <2>1, MailTyped
  <2>3. QED  BY <2>2 DEF TablesOK
<1>4. ASSUME NEW a \in Names, Exists(a), TokenChange(a) PROVE mails' \in Seq(Token)
  <2>1. CASE ResetAsked(a)
    <3>1. PICK to \in Addresses \cup {None} : to = db[a].email
      BY <1>4 DEF TablesOK, Exists, NoAccount, AccountRow
    <3>2. QED  BY <1>3, <1>4, <2>1, <3>1, Zenon DEF ResetAsked
  <2>2. CASE Challenge(a)
    BY <1>3, <1>4, <2>2 DEF Challenge
  <2>3. CASE Verification(a) \/ ResetUsed(a)
    BY <1>2, <2>3 DEF Verification, ResetUsed
  <2>4. CASE PasswordChange(a) \/ AddressEntered(a)
    BY <1>1, <2>4 DEF PasswordChange, AddressEntered
  <2>5. QED  BY <1>4, <2>1, <2>2, <2>3, <2>4, Zenon DEF TokenChange
<1>5. QED
  BY <1>1, <1>4, StepKinds, SessionFootprint, IdentifyFootprint, AccountFootprint,
     MemoFootprint, TokenShape, Zenon

LEMMA CountersStep ==
    ASSUME TablesOK, Next
    PROVE  now' \in Nat /\ regs' \in Nat
<1>1. now' \in {now, now + 1} \/ now' \in 1..(now - 1)
  <2>1. CASE SessionStep
    BY <2>1, Zenon DEF SessionStep, Connect, Welcome, server_disconnect, handle_logout_alias,
                sasl_fail, sasl_start, sasl_append_frame, command_recover, Tick, Restart,
                ClockSetBack
  <2>2. QED
    BY <2>1, StepKinds, IdentifyFootprint, TokenFootprint, AccountFootprint, MemoFootprint, Zenon
<1>2. regs' \in {regs, regs + 1}
  <2>1. CASE AccountStep
    BY <2>1, Zenon DEF AccountStep, command_register, NssetEnabled, command_nsdrop
  <2>2. QED
    BY <2>1, StepKinds, SessionFootprint, IdentifyFootprint, TokenFootprint, MemoFootprint, Zenon
<1>3. QED  BY <1>1, <1>2 DEF TablesOK

LEMMA InitHolds == Init => AccountInv
<1> SUFFICES ASSUME Init PROVE AccountInv
  BY Zenon
<1>1. config.email \in Addresses \cup {None}
  BY AccountConstants, ZenonT(40) DEF Init
<1>2. NewAccount(config.email, 0) \in AccountRow
  BY <1>1, Zenon DEF NewAccount, AccountRow
<1>3. Off \in SessionRecord /\ Off.account = None /\ Off.sasl = "none"
  BY DEF Off, SessionRecord
<1>4. TablesOK
  <2>1. now \in Nat /\ regs \in Nat /\ nextMemo \in Nat
    BY Zenon DEF Init, MemoInit
  <2>2. db \in [Names -> AccountRow \cup {None}]
    <3>1. \A name \in Names : db[name] \in {NewAccount(config.email, 0), NoAccount}
      BY ZenonT(40) DEF Init
    <3>2. db = [name \in Names |-> db[name]]
      BY DEF Init
    <3>3. QED  BY <1>2, <3>1, <3>2, Zenon DEF NoAccount
  <2>3. session \in [Clients -> SessionRecord]
    BY <1>3, ZenonT(40) DEF Init
  <2>4. mails \in Seq(Token) /\ memos \subseteq Memo
    BY DEF Init, MemoInit
  <2>5. QED  BY <2>1, <2>2, <2>3, <2>4, ZenonT(40) DEF TablesOK
<1>5. SessionsCurrent
  BY <1>3, Zenon DEF Init, SessionsCurrent, Identified
<1>6. TokenInv
  BY ZenonT(40) DEF Init, TokenInv, TokensFor, ResetFor, VerifyFor, NewAccount, NoAccount
<1>7. MemoIds /\ MemosOfThisRegistration
  BY DEF Init, MemoInit, MemoIds, MemosOfThisRegistration
<1>8. QED  BY <1>4, <1>5, <1>6, <1>7 DEF AccountInv

LEMMA StutterHolds == AccountInv /\ UNCHANGED vars => AccountInv'
<1> SUFFICES ASSUME AccountInv, UNCHANGED vars PROVE AccountInv'
  OBVIOUS
<1>1. UNCHANGED <<now, db, session, mails, regs, orphaned, memos, nextMemo>>
  BY DEF vars, accountVars, memoVars
<1>2. TablesOK' /\ TokenInv' /\ MemoIds'
  BY <1>1, ZenonT(40) DEF AccountInv, TablesOK, TokenInv, MemoIds
<1>3. SessionsCurrent' /\ MemosOfThisRegistration'
  BY <1>1 DEF AccountInv, SessionsCurrent, MemosOfThisRegistration, Identified, Enabled, Exists,
              NoAccount
<1>4. QED  BY <1>2, <1>3 DEF AccountInv

LEMMA StepHolds == AccountInv /\ Next => AccountInv'
<1> SUFFICES ASSUME AccountInv, Next PROVE AccountInv'
  OBVIOUS
<1>0. TablesOK /\ SessionsCurrent /\ TokenInv /\ MemoIds /\ MemosOfThisRegistration
  BY Zenon DEF AccountInv
<1>1. TablesOK'
  BY <1>0, SessionsStep, RowsStep, MailsStep, CountersStep, MemoTablesStep, ZenonT(40)
     DEF TablesOK, SessionsFit, MemoTablesFit
<1>2. SessionsCurrent'
  <2>1. \A c \in Clients : SessionFor(session'[c], db')
    BY <1>0, SessionsStep DEF SessionsFit
  <2>2. QED
    BY <2>1 DEF SessionsCurrent, SessionFor, Identified, Enabled, Exists, NoAccount
<1>3. TokenInv'
  BY <1>0, TokensStep
<1>4. MemoIds' /\ MemosOfThisRegistration'
  BY <1>0, MemoTablesStep, RegistrationsStep DEF MemoTablesFit
<1>5. QED  BY <1>1, <1>2, <1>3, <1>4 DEF AccountInv

\* The tables keep their types, sessions are current, every token a row stores
\* is the latest of its kind, unused and of this registration, memo ids are
\* unique, and memos belong to this registration: no command, administrator,
\* restart or passing of time breaks it.
THEOREM AccountInvariance == Spec => []AccountInv
<1>1. Init => AccountInv
  BY InitHolds
<1>2. AccountInv /\ [Next]_vars => AccountInv'
  BY StepHolds, StutterHolds
<1>3. QED  BY <1>1, <1>2, PTL DEF Spec

\* Sessions are identified only to enabled accounts of the registration they
\* identified to, for any number of connections, welcomed or not.
THEOREM SessionsAreCurrent == Spec => []SessionsCurrent
<1>1. AccountInv => SessionsCurrent
  BY DEF AccountInv
<1>2. QED  BY <1>1, AccountInvariance, PTL

\* Whoever registers the name of a dropped account finds none of its memos,
\* unless NSDROP failed to clean up.
THEOREM MemosAreOfThisRegistration == Spec => []MemosOfThisRegistration
<1>1. AccountInv => MemosOfThisRegistration
  BY Zenon DEF AccountInv
<1>2. QED  BY <1>1, AccountInvariance, PTL

-----------------------------------------------------------------------------
(* What a step may do                                                      *)

Honoured(t) ==
    LET m == mails[t]
    IN /\ m.uses = 0
       /\ Latest(t)
       /\ now <= m.made + Life(m.kind)
       /\ db[m.account].reg = m.reg
       /\ m.kind = "verify" => db'[m.account].email = m.to
       /\ m.kind = "reset" => db[m.account].password = m.password

LEMMA GoodIsHonoured ==
    ASSUME TablesOK, NEW a \in Names, NEW t \in DOMAIN mails, NEW k,
           Good(mails, t, k, a, db[a].reg),
           now <= mails[t].made + Life(k),
           k = "verify" => db'[a].email = mails[t].to,
           k = "reset" => db[a].password = mails[t].password
    PROVE  Honoured(t)
<1>1. mails[t].kind = k /\ mails[t].account = a /\ mails[t].uses = 0
      /\ mails[t].reg = db[a].reg /\ Latest(t)
  BY Zenon DEF Good, Latest, Tokens
<1>2. QED  BY <1>1, Zenon DEF Honoured

LEMMA HonouredStep ==
    ASSUME AccountInv, Next, NEW t \in Tokens, mails'[t].uses # mails[t].uses
    PROVE  Honoured(t)
<1>0. /\ TablesOK /\ SessionsCurrent /\ TokenInv
      /\ mails \in Seq(Token) /\ t \in DOMAIN mails /\ t # 0 /\ now \in Nat
      /\ DOMAIN mails = 1 .. Len(mails)
  BY DEF AccountInv, TablesOK, Tokens
<1>1. mails' # mails
  OBVIOUS
<1>2. PICK a \in Names : Exists(a) /\ TokenChange(a)
  BY <1>0, <1>1, StepKinds, SessionFootprint, IdentifyFootprint, AccountFootprint,
     MemoFootprint, TokenShape, ZenonT(40)
<1>3. db[a] \in AccountRow /\ TokensFor(db[a], mails, a)
  BY <1>0, <1>2 DEF TablesOK, TokenInv, Exists, NoAccount
<1>4. ASSUME NEW s \in Tokens, mails' = Used(s) PROVE s = t
  BY <1>0, <1>4 DEF Used
<1>5. ASSUME NEW tok, mails' = Append(mails, tok) PROVE FALSE
  <2>1. Append(mails, tok)[t] = mails[t]
    BY <1>0
  <2>2. QED  BY <1>5, <2>1
<1>6. CASE Verification(a)
  <2>1. /\ nickserv_db_verify_email(db[a], t) # db[a]
        /\ db' = [db EXCEPT ![a] = nickserv_db_verify_email(db[a], t)]
    BY <1>4, <1>6, ZenonT(40) DEF Verification
  <2>2. /\ db[a].verifyToken = t /\ db[a].verifyExpires >= now
        /\ nickserv_db_verify_email(db[a], t).email = db[a].pending
    BY <1>3, <2>1, VerifiedRow, ZenonT(40)
  <2>3. /\ Good(mails, t, "verify", a, db[a].reg)
        /\ db[a].verifyExpires = mails[t].made + VerifyLife
        /\ db[a].pending = mails[t].to
    BY <1>0, <1>3, <2>2 DEF TokensFor, VerifyFor
  <2>4. db'[a].email = mails[t].to
    BY <1>0, <2>1, <2>2, <2>3, Zenon DEF TablesOK
  <2>5. db[a].verifyExpires \in Nat
    BY <1>3, Zenon DEF AccountRow
  <2>6. now <= mails[t].made + Life("verify")
    BY <1>0, <2>2, <2>3, <2>5, Zenon DEF Life
  <2>7. QED  BY <1>0, <2>3, <2>4, <2>6, GoodIsHonoured, Zenon
<1>7. CASE ResetUsed(a)
  <2>1. Redeems(db[a], t)
    BY <1>4, <1>7 DEF ResetUsed
  <2>2. db[a].resetToken = t /\ db[a].resetExpires >= now
    BY <2>1, ZenonT(40) DEF Redeems
  <2>3. /\ Good(mails, t, "reset", a, db[a].reg)
        /\ db[a].resetExpires = mails[t].made + ResetLife
        /\ db[a].password = mails[t].password
    BY <1>0, <1>3, <2>2 DEF TokensFor, ResetFor
  <2>4. db[a].resetExpires \in Nat
    BY <1>3, Zenon DEF AccountRow
  <2>5. now <= mails[t].made + Life("reset")
    BY <1>0, <2>2, <2>3, <2>4, Zenon DEF Life
  <2>6. QED  BY <1>0, <2>3, <2>5, GoodIsHonoured, ZenonT(40)
<1>8. CASE Challenge(a) \/ ResetAsked(a)
  BY <1>5, <1>8, ZenonT(40) DEF Challenge, ResetAsked, Mail
<1>9. CASE PasswordChange(a) \/ AddressEntered(a)
  BY <1>1, <1>9 DEF PasswordChange, AddressEntered
<1>10. QED  BY <1>2, <1>6, <1>7, <1>8, <1>9, ZenonT(40) DEF TokenChange

\* A mailed token is accepted once, while it lives, if it is the latest of its
\* kind and of this registration, and a reset token only if the password is
\* still the one it was made for, for any number of accounts and tokens.
THEOREM TokensAreHonoured == Spec => TokensHonoured
<1>1. AccountInv /\ [Next]_vars =>
        [\A t \in Tokens : mails'[t].uses # mails[t].uses => Honoured(t)]_vars
  BY HonouredStep, Zenon
<1>2. QED  BY <1>1, AccountInvariance, PTL DEF Spec, TokensHonoured, Honoured

StaysFor(m, a) ==
    /\ m \in Inbox(memos, a) => m.id \in Ids(Inbox(memos', a))
    /\ m \in Sent(memos, a) => m.id \in Ids(Sent(memos', a))

KeptFor(m, a) ==
    StaysFor(m, a) \/ HiddenBy(a) \/ Old(m, now) \/ Dropped(m.from) \/ Dropped(m.to)

\* A row that is there with the same owners and the same marks of deletion is
\* still in the lists it was in.
LEMMA RowStays ==
    ASSUME NEW m \in memos, NEW k \in memos', k.id = m.id, k.from = m.from, k.to = m.to,
           NEW a,
           m.to = a /\ ~m.recipientDeleted => ~k.recipientDeleted,
           m.from = a /\ ~m.senderDeleted => ~k.senderDeleted
    PROVE  StaysFor(m, a)
BY DEF StaysFor, Inbox, Sent, Ids

LEMMA HiddenKeeps ==
    ASSUME AccountInv, NEW c \in Clients, Hidden(c), NEW a \in Names,
           NEW m \in Inbox(memos, a) \cup Sent(memos, a)
    PROVE  KeptFor(m, a)
<1>0. m \in memos /\ m \in Memo /\ MemoIds
  BY Zenon DEF Inbox, Sent, AccountInv, TablesOK
<1>1. CASE session[c].account = a
  BY <1>1, ZenonT(40) DEF Hidden, HiddenBy, KeptFor
<1>2. CASE session[c].account # a
  <2>1. ASSUME NEW rows \in Some(Inbox(memos, session[c].account)),
               command_delete(c, Ids(rows))
        PROVE  StaysFor(m, a)
    <3>1. rows \subseteq Inbox(memos, session[c].account)
      BY DEF Some
    <3>2. memos' = {k \in {IF n.id \in Ids(rows) THEN MarkReceived(n) ELSE n : n \in memos} :
                       ~(k.senderDeleted /\ k.recipientDeleted)}
      BY <2>1, Zenon DEF command_delete, memoserv_db_delete, purge_fully_deleted_memos, MarkReceived
    <3>3. CASE m.id \in Ids(rows)
      <4>1. m.to # a
        BY <1>0, <1>2, <3>1, <3>3, Zenon DEF Ids, Inbox, MemoIds
      <4>2. ~m.senderDeleted /\ m.from = a
        BY <4>1 DEF Inbox, Sent
      <4>3. /\ MarkReceived(m).id = m.id /\ MarkReceived(m).from = m.from
            /\ MarkReceived(m).to = m.to /\ MarkReceived(m).senderDeleted = m.senderDeleted
        BY <1>0 DEF MarkReceived, Memo
      <4>4. MarkReceived(m) \in memos'
        BY <1>0, <3>2, <3>3, <4>2, <4>3, Zenon
      <4>5. QED  BY <1>0, <4>1, <4>2, <4>3, <4>4, RowStays, Zenon
    <3>4. CASE m.id \notin Ids(rows)
      <4>1. m \in memos'
        BY <1>0, <3>2, <3>4 DEF Inbox, Sent
      <4>2. QED  BY <1>0, <4>1, RowStays, Zenon
    <3>5. QED  BY <3>3, <3>4, Zenon
  <2>2. ASSUME NEW rows \in Some(Sent(memos, session[c].account)),
               command_delete_sent(c, Ids(rows))
        PROVE  StaysFor(m, a)
    <3>1. rows \subseteq Sent(memos, session[c].account)
      BY DEF Some
    <3>2. memos' = {k \in {IF n.id \in Ids(rows) THEN MarkSent(n) ELSE n : n \in memos} :
                       ~(k.senderDeleted /\ k.recipientDeleted)}
      BY <2>2, Zenon DEF command_delete_sent, memoserv_db_delete_sent, purge_fully_deleted_memos,
                  MarkSent
    <3>3. CASE m.id \in Ids(rows)
      <4>1. m.from # a
        BY <1>0, <1>2, <3>1, <3>3, Zenon DEF Ids, Sent, MemoIds
      <4>2. ~m.recipientDeleted /\ m.to = a
        BY <4>1 DEF Inbox, Sent
      <4>3. /\ MarkSent(m).id = m.id /\ MarkSent(m).from = m.from
            /\ MarkSent(m).to = m.to /\ MarkSent(m).recipientDeleted = m.recipientDeleted
        BY <1>0 DEF MarkSent, Memo
      <4>4. MarkSent(m) \in memos'
        BY <1>0, <3>2, <3>3, <4>2, <4>3, ZenonT(40)
      <4>5. QED  BY <1>0, <4>1, <4>2, <4>3, <4>4, RowStays, ZenonT(40)
    <3>4. CASE m.id \notin Ids(rows)
      <4>1. m \in memos'
        BY <1>0, <3>2, <3>4, Zenon DEF Inbox, Sent
      <4>2. QED  BY <1>0, <4>1, RowStays, Zenon
    <3>5. QED  BY <3>3, <3>4
  <2>3. QED  BY <2>1, <2>2, Zenon DEF Hidden, KeptFor
<1>3. QED  BY <1>1, <1>2, Zenon

LEMMA KeptStep ==
    ASSUME AccountInv, Next, NEW a \in Names, NEW m \in Inbox(memos, a) \cup Sent(memos, a)
    PROVE  KeptFor(m, a)
<1>0. m \in memos /\ m \in Memo /\ TablesOK
  BY Zenon DEF Inbox, Sent, AccountInv, TablesOK
<1>1. ASSUME m \in memos' PROVE KeptFor(m, a)
  BY <1>0, <1>1, RowStays, Zenon DEF KeptFor
<1>2. ASSUME NEW R \in SUBSET memos, Purging(R), R \subseteq memos' PROVE KeptFor(m, a)
  BY <1>0, <1>1, <1>2, Zenon DEF Purging, KeptFor
<1>3. CASE MemoStep
  <2>1. ASSUME NEW R \in SUBSET memos, Purging(R), MarkedRead(R) PROVE KeptFor(m, a)
    <3>1. CASE m \in R
      <4>1. PICK id : memos' = memoserv_db_mark_read(R, id)
        BY <2>1 DEF MarkedRead
      <4>2. m \in memos' \/ MarkRead(m) \in memos'
        BY <3>1, <4>1, Zenon DEF memoserv_db_mark_read, MarkRead
      <4>3. /\ MarkRead(m).id = m.id /\ MarkRead(m).from = m.from /\ MarkRead(m).to = m.to
            /\ MarkRead(m).senderDeleted = m.senderDeleted
            /\ MarkRead(m).recipientDeleted = m.recipientDeleted
        BY <1>0, Zenon DEF MarkRead, Memo
      <4>4. QED  BY <1>0, <1>1, <4>2, <4>3, RowStays, Zenon DEF KeptFor
    <3>2. CASE m \notin R
      BY <1>0, <2>1, <3>2, Zenon DEF Purging, KeptFor
    <3>3. QED  BY <3>1, <3>2, ZenonT(40)
  <2>2. ASSUME NEW R \in SUBSET memos, Purging(R), Kept(R) \/ Stored(R) PROVE KeptFor(m, a)
    BY <1>2, <2>2 DEF Kept, Stored
  <2>3. QED  BY <1>0, <1>3, <2>1, <2>2, MemoShape, HiddenKeeps
<1>4. CASE SessionStep \/ TokenStep
  BY <1>0, <1>1, <1>4, SessionFootprint, TokenFootprint, Zenon
<1>5. CASE IdentifyStep
  BY <1>0, <1>1, <1>2, <1>5, IdentifyFootprint, PurgedIsPurging, Zenon DEF Purging
<1>6. ASSUME NEW c \in Clients, NEW exempt \in NetAdmin(c), command_register(c, exempt)
      PROVE  KeptFor(m, a)
  <2>1. memos' \in {memos, Purged(now)}
    BY <1>6 DEF command_register, memoserv_notify_unread, purge_expired, memoVars
  <2>2. QED  BY <1>0, <1>1, <1>2, <2>1, PurgedIsPurging DEF Purging
<1>7. ASSUME NEW b \in Names, NEW value \in BOOLEAN, NssetEnabled(b, value)
      PROVE  KeptFor(m, a)
  BY <1>0, <1>1, <1>7, Zenon DEF NssetEnabled, memoVars
<1>8. ASSUME NEW b \in Names, NEW cleans \in BOOLEAN, command_nsdrop(b, cleans)
      PROVE  KeptFor(m, a)
  <2>1. m \in memos' \/ b = m.from \/ b = m.to
    BY <1>0, <1>8, ZenonT(40) DEF command_nsdrop, memoserv_db_delete_account
  <2>2. Dropped(b)
    BY <1>0, <1>8, Zenon DEF command_nsdrop, Dropped, TablesOK
  <2>3. QED  BY <1>1, <2>1, <2>2, Zenon DEF KeptFor
<1>9. QED  BY <1>3, <1>4, <1>5, <1>6, <1>7, <1>8, StepKinds, Zenon DEF AccountStep

\* A memo leaves a list only because the owner of the list hid it, it is old, or
\* an account at either end was dropped, for any number of accounts and memos.
THEOREM MemosAreKept == Spec => MemosKept
<1>1. AccountInv /\ [Next]_vars =>
        [\A a \in Names :
            \A m \in Inbox(memos, a) \cup Sent(memos, a) :
                \/ /\ m \in Inbox(memos, a) => m.id \in Ids(Inbox(memos', a))
                   /\ m \in Sent(memos, a) => m.id \in Ids(Sent(memos', a))
                \/ HiddenBy(a)
                \/ Old(m, now)
                \/ Dropped(m.from) \/ Dropped(m.to)]_vars
  BY KeptStep, Zenon DEF KeptFor, StaysFor
<1>2. QED  BY <1>1, AccountInvariance, PTL DEF Spec, MemosKept
=============================================================================
