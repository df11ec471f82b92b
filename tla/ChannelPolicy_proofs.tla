------------------------ MODULE ChannelPolicy_proofs ------------------------
(***************************************************************************)
(* Proofs that a live channel follows its registration: whatever order the *)
(* commands, logins and administrators' changes come in, the cached policy *)
(* and the service privileges are those the tables grant, and a JOIN is    *)
(* decided by them.                                                        *)
(***************************************************************************)
EXTENDS ChannelRecord_proofs

(* Facts about limits.                                                     *)
LEMMA RoomForOne ==
    ASSUME NEW k \in Nat, NEW limit \in Nat, ~(k >= limit)
    PROVE  k + 1 <= limit
  OBVIOUS

LEMMA LimitIsNat ==
    ASSUME NEW r \in Runtime
    PROVE  r.user_limit \in Nat
  BY Bounds DEF Runtime

-----------------------------------------------------------------------------
(* The services' handlers leave every live channel following its rows.     *)

(* REGISTER: nobody but the founder holds a service privilege.             *)
LEMMA RegisterFollows ==
    ASSUME PolicyInv, NEW x \in Clients, NEW c \in Channels, NEW e, Tame(e), command_register(x, c, e)
    PROVE  PolicyStep
<1> DEFINE ch == channel[c]
           reg == [founder |-> account[x], enabled |-> TRUE, mode_lock |-> {}, secure_ops |-> FALSE,
                   successor |-> None]
           m == [ch EXCEPT !.loaded = TRUE, !.valid = TRUE, !.founder = account[x],
                           !.mode_lock = {}, !.modes = @ \cup {"r"}]
           n == channel_set_service_privileges(m, x, Ownership)
           st == chanserv_persist_channel(n, stored[c], e)
           regs == [registration EXCEPT ![c] = reg]
<1>1. ch \in Channel /\ ch # None
  BY ChannelsNow DEF PolicyInv, command_register
<1>2. Follows(ch, registration[c], access[c], stored[c], account) /\ registration[c] = None
  BY <1>1, SMT, SMTT(30) DEF PolicyInv, Following, command_register
<1>3. /\ n.loaded = TRUE /\ n.valid = TRUE /\ n.founder = account[x] /\ n.mode_lock = {}
      /\ n.modes = ch.modes \cup {"r"} /\ n.secure_ops = ch.secure_ops /\ n.members = ch.members
      /\ n.manual = [ch.manual EXCEPT ![x] = ch.manual[x]]
      /\ n.service = [ch.service EXCEPT ![x] = Ownership] /\ n.runtime = ch.runtime
  BY <1>1 DEF channel_set_service_privileges, SetPrivileges, Channel
<1>4. /\ reg.founder = account[x] /\ reg.enabled = TRUE /\ reg.mode_lock = {} /\ reg.secure_ops = FALSE
      /\ reg \in RegistrationRow /\ account[x] # None /\ reg # None
  <2>1. account[x] \in Accounts /\ account[x] # None
    BY NoneIsNothing DEF PolicyInv, IInv, TablesOK, command_register
  <2>2. reg \in RegistrationRow
    BY <2>1 DEF RegistrationRow
  <2> QED BY <2>1, <2>2, NoneIsNoRecord, ZenonT(40)
<1>5. /\ channel' = [channel EXCEPT ![c] = n] /\ stored' = [stored EXCEPT ![c] = st]
      /\ registration' = regs /\ UNCHANGED <<account, access>>
  BY DEF command_register
<1>6. /\ regs \in [Channels -> RegistrationRow \cup {None}] /\ regs[c] = reg
      /\ \A d \in Channels \ {c} : regs[d] = registration[d]
  BY <1>4, SMT, SMTT(30) DEF PolicyInv, IInv, TablesOK
<1> HIDE DEF reg, n
<1>7. ch.secure_ops = FALSE /\ \A y \in ch.members : ch.service[y] = {}
  BY <1>1, <1>2 DEF Follows, Policy, Cached, Holds, GrantedBy, Enabled, Channel
<1>8. Enabled(reg) /\ GrantedBy(reg, access[c], account[x]) = Ownership
  BY <1>4 DEF Enabled, GrantedBy
<1>9. Cached(n, reg) /\ n.mode_lock \subseteq n.modes /\ ~n.secure_ops
  BY <1>3, <1>4, <1>7, <1>8, ZenonT(40) DEF Cached
<1>10. StorageWorks => st = n.runtime
  BY <1>3 DEF chanserv_persist_channel, Tame
<1>11. \A y \in n.members : Holds(n, y, reg, access[c], account[y])
  <2>1. ch.members \subseteq Clients /\ ch.service \in [Clients -> SUBSET Privileges]
    BY <1>1, SMT, SMTT(30) DEF Channel
  <2> SUFFICES ASSUME NEW y \in ch.members PROVE n.service[y] \subseteq GrantedBy(reg, access[c], account[y])
    BY <1>3, <1>9 DEF Holds
  <2>2. CASE y = x
    BY <1>3, <1>8, <2>1, <2>2, ZenonT(40)
  <2>3. CASE y # x
    BY <1>3, <1>7, <2>1, <2>3, ZenonT(40)
  <2> QED BY <2>2, <2>3, SMT, SMTT(30)
<1>12. Follows(n, regs[c], access[c], st, account)
  BY <1>6, <1>9, <1>10, <1>11, ZenonT(40) DEF Follows, Policy
<1> HIDE DEF st, regs
<1> QED BY <1>5, <1>6, <1>12, SavingFollows, ZenonT(40)


-----------------------------------------------------------------------------
(* Logins and logouts reach the members they are about.                    *)

LEMMA SyncClientsFollow ==
    ASSUME PolicyInv, NEW who, NEW set \in SUBSET Clients, \A y \in Clients \ set : who[y] = account[y],
           NEW e, Tame(e)
    PROVE  Following(SyncClients(channel, who, set, e), registration, access, stored, who)
<1> DEFINE chs == SyncClients(channel, who, set, e)
<1>1. SUFFICES ASSUME NEW c \in Channels, chs[c] # None
               PROVE  Follows(chs[c], registration[c], access[c], stored[c], who)
  BY DEF Following
<1> DEFINE ch == channel[c]
           own == {x \in set : c \in joined[x]}
<1>2. chs[c] = IF \E x \in set : c \in joined[x]
               THEN SyncMembers(ch, registration[c], access[c], who, own, e)
               ELSE ch
  BY DEF SyncClients
<1>3. \A x \in Clients : c \in joined[x] <=> ch # None /\ x \in ch.members
  BY DEF PolicyInv, IInv, Sound, World
<1>4. ch # None
  BY <1>1, <1>2, <1>3, ZenonT(40)
<1>5. ch \in Channel /\ ch.members \subseteq Clients
  BY <1>4, ChannelsNow DEF PolicyInv, Channel
<1>6. Follows(ch, registration[c], access[c], stored[c], account)
  BY <1>4 DEF PolicyInv, Following
<1>7. \A y \in ch.members \ own : who[y] = account[y]
  BY <1>3, <1>4, <1>5, Zenon
<1> HIDE DEF ch, chs
<1>8. CASE \E x \in set : c \in joined[x]
  <2>1. \A y \in ch.members \ own : Holds(ch, y, registration[c], access[c], who[y])
    BY <1>6, <1>7 DEF Follows
  <2>2. Policy(ch, registration[c], stored[c]) /\ "open" \notin e
    BY <1>6 DEF Follows, Tame
  <2> HIDE DEF own
  <2>3. Follows(SyncMembers(ch, registration[c], access[c], who, own, e), registration[c], access[c], stored[c], who)
    BY <1>5, <2>1, <2>2, SyncFollows, Zenon
  <2> QED BY <1>2, <1>8, <2>3, ZenonT(40)
<1>9. CASE ~ \E x \in set : c \in joined[x]
  <2>1. \A y \in ch.members : who[y] = account[y]
    BY <1>7, <1>9, Zenon
  <2> QED BY <1>2, <1>6, <1>9, <2>1, AccountMoves, Zenon
<1> QED BY <1>8, <1>9

LEMMA LoginFollows ==
    ASSUME PolicyInv, NEW x \in Clients, NEW a, NEW e, Tame(e),
           account' = [account EXCEPT ![x] = a],
           channel' = SyncClients(channel, [account EXCEPT ![x] = a], {x}, e),
           UNCHANGED <<registration, access, stored>>
    PROVE  PolicyStep
<1> DEFINE who == [account EXCEPT ![x] = a]
<1>1. \A y \in Clients \ {x} : who[y] = account[y]
  BY DEF PolicyInv, IInv, TablesOK
<1> HIDE DEF who
<1>2. Following(SyncClients(channel, who, {x}, e), registration, access, stored, who)
  BY <1>1, SyncClientsFollow
<1> QED BY <1>2 DEF PolicyStep, who

-----------------------------------------------------------------------------
(* The founder's commands.                                                 *)

(* A founder's command on an enabled registration: the record and the rows *)
(* of a live channel change together.                                      *)
LEMMA RowFollows ==
    ASSUME PolicyInv, NEW c \in Channels, NEW reg, NEW acc, NEW n,
           channel[c] = None => n = None,
           channel[c] # None => Follows(n, reg, acc, stored[c], account),
           registration' = [registration EXCEPT ![c] = reg], access' = [access EXCEPT ![c] = acc],
           channel' = [channel EXCEPT ![c] = n], UNCHANGED <<account, stored>>
    PROVE  PolicyStep
<1>1. /\ channel \in [Channels -> Channel \cup {None}]
      /\ registration \in [Channels -> RegistrationRow \cup {None}]
      /\ access \in [Channels -> [Accounts -> Levels \cup {None}]]
  BY ChannelsNow DEF PolicyInv, IInv, TablesOK, ChannelsOK
<1>2. channel'[c] = n /\ registration'[c] = reg /\ access'[c] = acc
  BY <1>1
<1>3. \A d \in Channels \ {c} : channel'[d] = channel[d] /\ registration'[d] = registration[d]
                                /\ access'[d] = access[d]
  BY <1>1
<1> QED BY <1>2, <1>3, OneFollows, ZenonT(40) DEF PolicyStep, PolicyInv

LEMMA RowsNow ==
    ASSUME PolicyInv, NEW c \in Channels
    PROVE  /\ registration = [registration EXCEPT ![c] = registration[c]]
           /\ access = [access EXCEPT ![c] = access[c]]
           /\ channel = [channel EXCEPT ![c] = channel[c]]
           /\ registration[c] # None => registration[c] \in RegistrationRow
           /\ access[c] \in [Accounts -> Levels \cup {None}]
           /\ channel[c] # None => /\ RightBut(channel[c], {}) /\ channel[c] \in Channel
                                   /\ Follows(channel[c], registration[c], access[c], stored[c], account)
<1>1. /\ channel \in [Channels -> Channel \cup {None}]
      /\ registration \in [Channels -> RegistrationRow \cup {None}]
      /\ access \in [Channels -> [Accounts -> Levels \cup {None}]]
  BY ChannelsNow DEF PolicyInv, IInv, TablesOK, ChannelsOK
<1> QED BY <1>1, ChannelsNow, ZenonT(40) DEF PolicyInv, Following

LEMMA AccessFollows ==
    ASSUME PolicyInv, NEW x, NEW c \in Channels, NEW a \in Accounts, NEW level, NEW e, Tame(e),
           command_access(x, c, a, level, e)
    PROVE  PolicyStep
<1> DEFINE ch == channel[c]
           reg == registration[c]
           acc == [access[c] EXCEPT ![a] = level]
           holders == {y \in Clients : account[y] = a}
           n == IF ch = None THEN None ELSE SyncMembers(ch, reg, acc, account, holders, e)
<1>1. ch # None => Follows(n, reg, acc, stored[c], account)
  <2> SUFFICES ASSUME ch # None PROVE Follows(SyncMembers(ch, reg, acc, account, holders, e), reg, acc, stored[c], account)
    OBVIOUS
  <2>1. ch \in Channel /\ ch.members \subseteq Clients /\ Follows(ch, reg, access[c], stored[c], account)
    BY RowsNow, Zenon DEF Channel
  <2>2. \A y \in ch.members \ holders : GrantedBy(reg, acc, account[y]) = GrantedBy(reg, access[c], account[y])
    <3>1. access[c] \in [Accounts -> Levels \cup {None}] /\ account \in [Clients -> Accounts \cup {None}]
      BY RowsNow, Zenon DEF PolicyInv, IInv, TablesOK
    <3>2. \A y \in ch.members \ holders : account[y] # None => acc[account[y]] = access[c][account[y]]
      BY <2>1, <3>1, Zenon
    <3> HIDE DEF acc
    <3> QED BY <3>2, Zenon DEF GrantedBy
  <2>3. \A y \in ch.members \ holders : Holds(ch, y, reg, acc, account[y])
    BY <2>1, <2>2, Zenon DEF Follows, Holds
  <2>4. Policy(ch, reg, stored[c]) /\ "open" \notin e
    BY <2>1 DEF Follows, Tame
  <2> HIDE DEF ch, reg, acc, holders
  <2> QED BY <2>1, <2>3, <2>4, SyncFollows, ZenonT(40)
<1>2. /\ registration' = [registration EXCEPT ![c] = reg] /\ access' = [access EXCEPT ![c] = acc]
      /\ channel' = [channel EXCEPT ![c] = n] /\ UNCHANGED <<account, stored>>
  BY RowsNow, SMT, SMTT(30) DEF command_access
<1>3. ch = None => n = None
  OBVIOUS
<1> HIDE DEF n, acc, reg
<1> QED BY <1>1, <1>2, <1>3, RowFollows, ZenonT(40)

(* What a row with another successor or mode lock grants.                  *)
LEMMA SameGranted ==
    ASSUME NEW reg, NEW row, Enabled(reg) <=> Enabled(row), reg.founder = row.founder, NEW acc, NEW a
    PROVE  GrantedBy(row, acc, a) = GrantedBy(reg, acc, a)
  BY DEF GrantedBy

(* SET MLOCK and SET TOPICLOCK: the lock of the row and of the cache, and  *)
(* the modes, change together.                                             *)
LEMMA LockFollows ==
    ASSUME NEW ch, NEW reg, NEW acc, NEW st, NEW who, Follows(ch, reg, acc, st, who), Enabled(reg),
           NEW row, Enabled(row), row.founder = reg.founder, row.secure_ops = reg.secure_ops,
           NEW n, SameGrants(n, ch), n.loaded, n.valid, n.founder = ch.founder, n.secure_ops = ch.secure_ops,
           n.runtime = ch.runtime, n.mode_lock = row.mode_lock, "r" \in n.modes,
           LocksChecked => n.mode_lock \subseteq n.modes
    PROVE  Follows(n, row, acc, st, who)
<1>1. Policy(n, row, st)
  BY DEF Follows, Policy, Cached
<1>2. \A a : GrantedBy(row, acc, a) = GrantedBy(reg, acc, a)
  BY SameGranted
<1> QED BY <1>1, <1>2, ZenonT(40) DEF Follows, Holds, SameGrants

LEMMA MlockFollows ==
    ASSUME PolicyInv, NEW x, NEW c \in Channels, NEW lock \in Locks, SetMlock(x, c, lock)
    PROVE  PolicyStep
<1> DEFINE ch == channel[c]
           reg == registration[c]
           row == [reg EXCEPT !.mode_lock = lock]
           n == IF ch = None THEN None ELSE Locked(ch, lock)
<1>1. reg \in RegistrationRow /\ Enabled(reg)
  BY RowsNow DEF SetMlock, load_founder_channel, Enabled
<1>2. row.founder = reg.founder /\ row.secure_ops = reg.secure_ops /\ row.mode_lock = lock /\ Enabled(row)
  <2>1. /\ row.founder = reg.founder /\ row.secure_ops = reg.secure_ops /\ row.mode_lock = lock
        /\ row.enabled = reg.enabled
    BY <1>1 DEF RegistrationRow
  <2>2. row \in RegistrationRow
    BY <1>1, Inputs, Zenon DEF RegistrationRow
  <2> QED BY <1>1, <2>1, <2>2, NoneIsNoRecord, ZenonT(40) DEF Enabled
<1>3. ch # None => Follows(n, row, access[c], stored[c], account)
  <2> SUFFICES ASSUME ch # None PROVE Follows(Locked(ch, lock), row, access[c], stored[c], account)
    OBVIOUS
  <2> DEFINE m == Locked(ch, lock)
  <2>1. ch \in Channel /\ Follows(ch, reg, access[c], stored[c], account)
    BY RowsNow
  <2>2. /\ m.loaded = TRUE /\ m.valid = TRUE /\ m.founder = ch.founder /\ m.secure_ops = ch.secure_ops
        /\ m.runtime = ch.runtime /\ m.mode_lock = lock
        /\ m.modes = (ch.modes \ persistent_mode_mask) \cup lock \cup {"r"} /\ SameGrants(m, ch)
    BY <2>1, SMT, SMTT(30) DEF Locked, Channel, SameGrants
  <2>3. "r" \in m.modes /\ m.mode_lock \subseteq m.modes
    BY <2>2
  <2> HIDE DEF m, row, ch, reg
  <2> QED BY <1>1, <1>2, <2>1, <2>2, <2>3, LockFollows, ZenonT(40) DEF m
<1>4. /\ registration' = [registration EXCEPT ![c] = row] /\ access' = [access EXCEPT ![c] = access[c]]
      /\ channel' = [channel EXCEPT ![c] = n] /\ UNCHANGED <<account, stored>>
  BY RowsNow DEF SetMlock
<1>5. ch = None => n = None
  OBVIOUS
<1> HIDE DEF n, row
<1> QED BY <1>3, <1>4, <1>5, RowFollows, ZenonT(40)

LEMMA TopicLockFollows ==
    ASSUME PolicyInv, NEW x, NEW c \in Channels, NEW on \in BOOLEAN, SetTopicLock(x, c, on)
    PROVE  PolicyStep
<1> DEFINE ch == channel[c]
           reg == registration[c]
           with(modes) == IF on THEN modes \cup {"t"} ELSE modes \ {"t"}
           lock == with(reg.mode_lock)
           row == [reg EXCEPT !.mode_lock = lock]
           locked == [ch EXCEPT !.mode_lock = lock, !.modes = with(ch.modes)]
           n == IF ch = None THEN None ELSE locked
<1>1. reg \in RegistrationRow /\ Enabled(reg)
  BY RowsNow DEF SetTopicLock, load_founder_channel, Enabled
<1>2. row.founder = reg.founder /\ row.secure_ops = reg.secure_ops /\ row.mode_lock = lock /\ Enabled(row)
  <2>1. /\ row.founder = reg.founder /\ row.secure_ops = reg.secure_ops /\ row.mode_lock = lock
        /\ row.enabled = reg.enabled
    BY <1>1 DEF RegistrationRow
  <2>2. lock \in SUBSET BooleanModes
    BY <1>1 DEF RegistrationRow, BooleanModes
  <2> HIDE DEF lock
  <2>3. row \in RegistrationRow
    BY <1>1, <2>2 DEF RegistrationRow
  <2> QED BY <1>1, <2>1, <2>3, NoneIsNoRecord, ZenonT(40) DEF Enabled
<1>3. ch # None => Follows(n, row, access[c], stored[c], account)
  <2> SUFFICES ASSUME ch # None PROVE Follows(locked, row, access[c], stored[c], account)
    OBVIOUS
  <2>1. ch \in Channel /\ Follows(ch, reg, access[c], stored[c], account)
    BY RowsNow, Zenon
  <2>2. /\ ch.loaded /\ ch.valid /\ "r" \in ch.modes /\ ch.mode_lock = reg.mode_lock
        /\ LocksChecked => ch.mode_lock \subseteq ch.modes
    BY <1>1, <2>1, Zenon DEF Follows, Policy, Cached
  <2>3. "r" \in with(ch.modes) /\ (LocksChecked => lock \subseteq with(ch.modes))
    BY <2>2
  <2> HIDE DEF lock, with
  <2>4. /\ locked.loaded = ch.loaded /\ locked.valid = ch.valid /\ locked.founder = ch.founder
        /\ locked.secure_ops = ch.secure_ops /\ locked.runtime = ch.runtime /\ locked.mode_lock = lock
        /\ locked.modes = with(ch.modes) /\ SameGrants(locked, ch)
    BY <2>1, Zenon DEF Channel, SameGrants
  <2> HIDE DEF locked, row, ch, reg
  <2> QED BY <1>1, <1>2, <2>1, <2>2, <2>3, <2>4, LockFollows, ZenonT(40)
<1>4. /\ registration' = [registration EXCEPT ![c] = row] /\ access' = [access EXCEPT ![c] = access[c]]
      /\ channel' = [channel EXCEPT ![c] = n] /\ UNCHANGED <<account, stored>>
  BY RowsNow DEF SetTopicLock
<1>5. ch = None => n = None
  OBVIOUS
<1> HIDE DEF n, row
<1> QED BY <1>3, <1>4, <1>5, RowFollows, ZenonT(40)


LEMMA SuccessorFollows ==
    ASSUME PolicyInv, NEW x, NEW c \in Channels, NEW a \in Accounts \cup {None}, SetSuccessor(x, c, a)
    PROVE  PolicyStep
<1> DEFINE ch == channel[c]
           reg == registration[c]
           row == [reg EXCEPT !.successor = a]
<1>1. reg \in RegistrationRow /\ Enabled(reg)
  BY RowsNow DEF SetSuccessor, load_founder_channel, Enabled
<1>2. row.founder = reg.founder /\ row.secure_ops = reg.secure_ops /\ row.mode_lock = reg.mode_lock /\ Enabled(row)
  <2>1. /\ row.founder = reg.founder /\ row.secure_ops = reg.secure_ops /\ row.mode_lock = reg.mode_lock
        /\ row.enabled = reg.enabled /\ row \in RegistrationRow
    BY <1>1, Zenon DEF RegistrationRow
  <2> QED BY <1>1, <2>1, NoneIsNoRecord, ZenonT(40) DEF Enabled
<1>3. ch # None => Follows(ch, row, access[c], stored[c], account)
  <2> SUFFICES ASSUME ch # None PROVE Follows(ch, row, access[c], stored[c], account)
    OBVIOUS
  <2>1. Follows(ch, reg, access[c], stored[c], account)
    BY RowsNow
  <2>2. /\ ch.loaded /\ ch.valid /\ "r" \in ch.modes /\ ch.mode_lock = row.mode_lock
        /\ LocksChecked => ch.mode_lock \subseteq ch.modes
    BY <1>1, <1>2, <2>1, ZenonT(40) DEF Follows, Policy, Cached
  <2>3. SameGrants(ch, ch)
    BY DEF SameGrants
  <2> HIDE DEF row, ch, reg
  <2> QED BY <1>1, <1>2, <2>1, <2>2, <2>3, LockFollows, ZenonT(40)
<1>4. /\ registration' = [registration EXCEPT ![c] = row] /\ access' = [access EXCEPT ![c] = access[c]]
      /\ channel' = [channel EXCEPT ![c] = ch] /\ UNCHANGED <<account, stored>>
  BY RowsNow DEF SetSuccessor, live_vars
<1> HIDE DEF row
<1> QED BY <1>3, <1>4, RowFollows, ZenonT(40)

LEMMA SecureOpsFollows ==
    ASSUME PolicyInv, NEW x, NEW c \in Channels, NEW on \in BOOLEAN, NEW e, Tame(e), SetSecureOps(x, c, on, e)
    PROVE  PolicyStep
<1> DEFINE ch == channel[c]
           reg == registration[c]
           row == [reg EXCEPT !.secure_ops = on]
           m == [ch EXCEPT !.secure_ops = on]
           n == IF ch = None THEN None ELSE SyncMembers(m, row, access[c], account, Clients, e)
<1>1. reg \in RegistrationRow /\ Enabled(reg)
  BY RowsNow DEF SetSecureOps, load_founder_channel, Enabled
<1>2. row.founder = reg.founder /\ row.secure_ops = on /\ row.mode_lock = reg.mode_lock /\ Enabled(row)
  <2>1. /\ row.founder = reg.founder /\ row.secure_ops = on /\ row.mode_lock = reg.mode_lock
        /\ row.enabled = reg.enabled /\ row \in RegistrationRow
    BY <1>1, Zenon DEF RegistrationRow
  <2> QED BY <1>1, <2>1, NoneIsNoRecord, Zenon DEF Enabled
<1>3. ch # None => Follows(n, row, access[c], stored[c], account)
  <2> SUFFICES ASSUME ch # None
               PROVE  Follows(SyncMembers(m, row, access[c], account, Clients, e), row, access[c], stored[c], account)
    OBVIOUS
  <2>1. ch \in Channel /\ Follows(ch, reg, access[c], stored[c], account)
    BY RowsNow
  <2>2. /\ m \in Channel /\ m.loaded = ch.loaded /\ m.valid = ch.valid /\ m.founder = ch.founder
        /\ m.secure_ops = on /\ m.runtime = ch.runtime /\ m.mode_lock = ch.mode_lock /\ m.modes = ch.modes
    BY <2>1, Zenon DEF Channel
  <2> HIDE DEF m, row
  <2>3. Policy(m, row, stored[c])
    BY <1>1, <1>2, <2>1, <2>2, ZenonT(40) DEF Follows, Policy, Cached
  <2>4. m.members \ Clients = {} /\ "open" \notin e
    BY <2>2 DEF Channel, Tame
  <2> HIDE DEF ch, reg
  <2> QED BY <2>2, <2>3, <2>4, SyncFollows, ZenonT(40)
<1>4. /\ registration' = [registration EXCEPT ![c] = row] /\ access' = [access EXCEPT ![c] = access[c]]
      /\ channel' = [channel EXCEPT ![c] = n] /\ UNCHANGED <<account, stored>>
  BY RowsNow DEF SetSecureOps
<1>5. ch = None => n = None
  OBVIOUS
<1> HIDE DEF n, row
<1> QED BY <1>3, <1>4, <1>5, RowFollows, ZenonT(40)

-----------------------------------------------------------------------------
(* The administrators' commands refresh what they change.                  *)

LEMMA CssetFollows ==
    ASSUME PolicyInv, NEW c \in Channels, NEW e, Tame(e),
           \/ \E on \in BOOLEAN : CssetEnabled(c, on, e)
           \/ \E a \in Accounts : CssetFounder(c, a, e)
    PROVE  PolicyStep
<1>1. /\ registration[c] # None
      /\ \E row \in RegistrationRow :
            /\ registration' = [registration EXCEPT ![c] = row]
            /\ channel' = [channel EXCEPT ![c] = Refresh(channel[c], row, access[c], stored[c], account, e)]
      /\ UNCHANGED <<account, access, stored>>
  <2>1. CASE \E on \in BOOLEAN : CssetEnabled(c, on, e)
    <3>1. PICK on \in BOOLEAN : CssetEnabled(c, on, e)
      BY <2>1, Zenon
    <3>2. registration[c] \in RegistrationRow
      BY <3>1, RowsNow, Zenon DEF CssetEnabled
    <3>3. [registration[c] EXCEPT !.enabled = on] \in RegistrationRow
      BY <3>2 DEF RegistrationRow
    <3> QED BY <3>1, <3>3, ZenonT(40) DEF CssetEnabled
  <2>2. CASE \E a \in Accounts : CssetFounder(c, a, e)
    <3>1. PICK a \in Accounts : CssetFounder(c, a, e)
      BY <2>2
    <3>2. registration[c] \in RegistrationRow
      BY <3>1, RowsNow, ZenonT(40) DEF CssetFounder
    <3> DEFINE next == IF registration[c].successor = a THEN None ELSE registration[c].successor
               row == [registration[c] EXCEPT !.founder = a, !.successor = next]
    <3>3. next \in Accounts \cup {None}
      BY <3>2, Zenon DEF RegistrationRow
    <3>4. /\ registration[c] # None /\ registration' = [registration EXCEPT ![c] = row]
          /\ channel' = [channel EXCEPT ![c] = Refresh(channel[c], row, access[c], stored[c], account, e)]
          /\ UNCHANGED <<account, access, stored>>
      BY <3>1, Zenon DEF CssetFounder, Tame
    <3> HIDE DEF next
    <3>5. row \in RegistrationRow
      BY <3>2, <3>3, ZenonT(40) DEF RegistrationRow
    <3> QED BY <3>4, <3>5, ZenonT(40)
  <2> QED BY <2>1, <2>2
<1>2. PICK row \in RegistrationRow :
        /\ registration' = [registration EXCEPT ![c] = row]
        /\ channel' = [channel EXCEPT ![c] = Refresh(channel[c], row, access[c], stored[c], account, e)]
  BY <1>1, ZenonT(40)
<1> DEFINE n == Refresh(channel[c], row, access[c], stored[c], account, e)
<1>3. stored[c] \in Runtime /\ access' = [access EXCEPT ![c] = access[c]]
  BY <1>1, RowsNow, ZenonT(40) DEF PolicyInv, IInv, TablesOK
<1>4. channel[c] # None => Follows(n, row, access[c], stored[c], account)
  BY <1>3, RowsNow, RefreshFollows, ZenonT(40)
<1>5. channel[c] = None => n = None
  BY DEF Refresh
<1> HIDE DEF n
<1> QED BY <1>1, <1>2, <1>3, <1>4, <1>5, RowFollows, ZenonT(40) DEF n

LEMMA CsdropFollows ==
    ASSUME PolicyInv, NEW c \in Channels, NEW e, Tame(e), command_csdrop(c, e)
    PROVE  PolicyStep
<1> DEFINE n == Refresh(channel[c], None, NoAccess, EmptyRuntime, account, e)
<1>1. /\ channel' = [channel EXCEPT ![c] = n] /\ registration' = [registration EXCEPT ![c] = None]
      /\ access' = [access EXCEPT ![c] = NoAccess] /\ stored' = [stored EXCEPT ![c] = EmptyRuntime]
      /\ account' = account
  BY DEF command_csdrop
<1>2. /\ channel \in [Channels -> Channel \cup {None}]
      /\ registration \in [Channels -> RegistrationRow \cup {None}]
      /\ access \in [Channels -> [Accounts -> Levels \cup {None}]] /\ stored \in [Channels -> Runtime]
  BY ChannelsNow DEF PolicyInv, IInv, TablesOK, ChannelsOK
<1>3. channel[c] # None => Follows(n, None, NoAccess, EmptyRuntime, account)
  BY RowsNow, RefreshFollows, RuntimeTypes, ZenonT(40)
<1>4. channel[c] = None => n = None
  BY DEF Refresh
<1> HIDE DEF n
<1>5. /\ channel'[c] = n /\ registration'[c] = None /\ access'[c] = NoAccess /\ stored'[c] = EmptyRuntime
      /\ \A d \in Channels \ {c} : /\ channel'[d] = channel[d] /\ registration'[d] = registration[d]
                                   /\ access'[d] = access[d] /\ stored'[d] = stored[d]
  BY <1>1, <1>2, Zenon
<1>6. channel'[c] # None => Follows(channel'[c], registration'[c], access'[c], stored'[c], account)
  BY <1>3, <1>4, <1>5, Zenon
<1> QED BY <1>1, <1>5, <1>6, OneFollows, ZenonT(40) DEF PolicyStep, PolicyInv

(* A refresh of some channels, on rows that change for no other channel.   *)
LEMMA RefreshAllFollows ==
    ASSUME PolicyInv, NEW chs, ChannelsOK(chs), NEW who, NEW regs, NEW accs,
           Following(chs, regs, accs, stored, who),
           NEW set, NEW rows \in [Channels -> RegistrationRow \cup {None}], NEW table,
           \A c \in Channels \ set : rows[c] = regs[c] /\ table[c] = accs[c], NEW e, Tame(e)
    PROVE  Following(RefreshAll(chs, set, rows, table, who, e), rows, table, stored, who)
<1> DEFINE new == RefreshAll(chs, set, rows, table, who, e)
<1>1. SUFFICES ASSUME NEW c \in Channels, new[c] # None
               PROVE  Follows(new[c], rows[c], table[c], stored[c], who)
  BY Zenon DEF Following
<1>2. new[c] = IF c \in set THEN Refresh(chs[c], rows[c], table[c], stored[c], who, e) ELSE chs[c]
  BY DEF RefreshAll
<1>3. chs[c] # None => RightBut(chs[c], {})
  BY Zenon DEF ChannelsOK
<1> HIDE DEF new
<1>4. CASE c \in set
  <2>1. chs[c] # None
    BY <1>1, <1>2, <1>4, ZenonT(40) DEF Refresh
  <2>2. rows[c] \in RegistrationRow \cup {None} /\ stored[c] \in Runtime
    BY DEF PolicyInv, IInv, TablesOK
  <2>3. Follows(Refresh(chs[c], rows[c], table[c], stored[c], who, e), rows[c], table[c], stored[c], who)
    BY <1>3, <2>1, <2>2, RefreshFollows, ZenonT(40)
  <2> QED BY <1>2, <1>4, <2>3, Zenon
<1>5. CASE c \notin set
  BY <1>1, <1>2, <1>5, Zenon DEF Following
<1> QED BY <1>4, <1>5, Zenon


(* An account that goes is logged out everywhere, and the channels it      *)
(* founded are handed on or disabled.                                      *)
LEMMA RemovedFollows ==
    ASSUME PolicyInv, NEW a \in Accounts, NEW accts, NEW e, Tame(e)
    PROVE  Following(AccountRemoved(a, accts, e), Orphaned(a, accts, e), access, stored, LoggedOut(a))
<1> DEFINE who == LoggedOut(a)
           holders == {x \in Clients : account[x] = a}
           synced == SyncClients(channel, who, holders, e)
           rows == Orphaned(a, accts, e)
<1>1. who \in [Clients -> Accounts \cup {None}] /\ \A y \in Clients \ holders : who[y] = account[y]
  BY DEF LoggedOut, PolicyInv, IInv, TablesOK
<1>2. rows \in [Channels -> RegistrationRow \cup {None}]
  BY OrphanedType, Zenon DEF PolicyInv
<1>3. \A c \in Channels \ Rewritten(a, accts, e) : rows[c] = registration[c] /\ access[c] = access[c]
  BY DEF Orphaned, Rewritten, Tame
<1>4. holders \in SUBSET Clients
  OBVIOUS
<1> HIDE DEF who, holders, rows
<1>5. ChannelsOK(synced)
  BY <1>1, <1>4, SyncClientsOK, Zenon DEF PolicyInv
<1>6. Following(synced, registration, access, stored, who)
  BY <1>1, <1>4, SyncClientsFollow, Zenon
<1> HIDE DEF synced
<1>7. Following(RefreshAll(synced, Rewritten(a, accts, e), rows, access, who, e), rows, access, stored, who)
  BY <1>2, <1>3, <1>5, <1>6, RefreshAllFollows, ZenonT(40)
<1> QED BY <1>7, Zenon DEF AccountRemoved, synced, who, holders, rows

LEMMA NssetFollows ==
    ASSUME PolicyInv, NEW a \in Accounts, NEW e, Tame(e), NssetDisable(a, e)
    PROVE  PolicyStep
<1> DEFINE accts == [accounts EXCEPT ![a] = "disabled"]
<1>1. /\ account' = LoggedOut(a) /\ registration' = Orphaned(a, accts, e)
      /\ channel' = AccountRemoved(a, accts, e) /\ UNCHANGED <<access, stored>>
  BY DEF NssetDisable
<1> HIDE DEF accts
<1>2. Following(AccountRemoved(a, accts, e), Orphaned(a, accts, e), access, stored, LoggedOut(a))
  BY RemovedFollows, Zenon
<1> QED BY <1>1, <1>2, Zenon DEF PolicyStep

LEMMA NsdropFollows ==
    ASSUME PolicyInv, NEW a \in Accounts, NEW e, Tame(e), command_nsdrop(a, e)
    PROVE  PolicyStep
<1> DEFINE accts == [accounts EXCEPT ![a] = "absent"]
           rows == Orphaned(a, accts, e)
           refs == {c \in Channels : "open" \notin e /\ rows[c] # None /\ (rows[c].successor = a \/ access[c][a] # None)}
           rows2 == [c \in Channels |-> IF c \in refs /\ rows[c].successor = a
                                        THEN [rows[c] EXCEPT !.successor = None] ELSE rows[c]]
           levels2 == [c \in Channels |-> IF c \in refs THEN [access[c] EXCEPT ![a] = None] ELSE access[c]]
           who == LoggedOut(a)
           removed == AccountRemoved(a, accts, e)
<1>1. /\ account' = who /\ registration' = rows2 /\ access' = levels2
      /\ channel' = RefreshAll(removed, refs, rows2, levels2, who, e) /\ stored' = stored
  BY DEF command_nsdrop
<1> HIDE DEF accts
<1>2. Following(removed, rows, access, stored, who) /\ ChannelsOK(removed)
  BY RemovedFollows, RemovedOK, Zenon DEF PolicyInv
<1>3. rows \in [Channels -> RegistrationRow \cup {None}]
  BY OrphanedType, Zenon DEF PolicyInv
<1> HIDE DEF rows
<1>4. \A c \in Channels : c \in refs => rows[c] \in RegistrationRow
  BY <1>3, Zenon
<1>5. \A row \in RegistrationRow : [row EXCEPT !.successor = None] \in RegistrationRow
  BY DEF RegistrationRow
<1> HIDE DEF refs
<1>6. rows2 \in [Channels -> RegistrationRow \cup {None}]
  BY <1>3, <1>4, <1>5, Zenon
<1>7. \A c \in Channels \ refs : rows2[c] = rows[c] /\ levels2[c] = access[c]
  BY Zenon
<1> HIDE DEF rows2, levels2, who, removed
<1>8. Following(RefreshAll(removed, refs, rows2, levels2, who, e), rows2, levels2, stored, who)
  BY <1>2, <1>6, <1>7, RefreshAllFollows, SMT, SMTT(30)
<1> QED BY <1>1, <1>8, ZenonT(40) DEF PolicyStep

-----------------------------------------------------------------------------
(* Every step.                                                             *)

LEMMA SessionFollows ==
    ASSUME PolicyInv, NEW x \in Clients, NEW e, Tame(e),
           \/ \E a \in Accounts : nickserv_identify(x, a, e) \/ nickserv_register(x, a, e)
           \/ command_logout(x, e)
    PROVE  PolicyStep
<1>1. ASSUME NEW a \in Accounts, nickserv_identify(x, a, e) PROVE PolicyStep
  BY <1>1, LoginFollows, ZenonT(40) DEF nickserv_identify, db_vars
<1>2. ASSUME NEW a \in Accounts, nickserv_register(x, a, e) PROVE PolicyStep
  BY <1>2, LoginFollows, ZenonT(40) DEF nickserv_register
<1>3. ASSUME command_logout(x, e) PROVE PolicyStep
  BY <1>3, LoginFollows, ZenonT(40) DEF command_logout, db_vars
<1> QED BY <1>1, <1>2, <1>3, ZenonT(40)

LEMMA EveryStepFollows ==
    ASSUME PolicyIsLoaded, PolicyInv, [Next]_vars
    PROVE  PolicyStep
<1>1. CASE UNCHANGED vars
  BY <1>1, Zenon DEF vars, PolicyInv, PolicyStep
<1>2. ASSUME NEW x \in Clients, PlainClientStep(x) PROVE PolicyStep
  BY <1>2, ConnectFollows, DisconnectFollows, ZenonT(40) DEF PlainClientStep
<1>3. ASSUME NEW a \in Accounts, NssetEnable(a) PROVE PolicyStep
  BY <1>3, Zenon DEF NssetEnable, live_vars, PolicyInv, PolicyStep
<1>4. CASE Restart
  BY <1>4, Zenon DEF Restart, PolicyStep, Following
<1>5. ASSUME NEW x \in Clients, NEW c \in Channels, PlainChannelStep(x, c) PROVE PolicyStep
  BY <1>5, LeavingFollows, InviteFollows, MlockFollows, TopicLockFollows, SuccessorFollows,
     ZenonT(40) DEF PlainChannelStep
<1>6. ASSUME NEW x \in Clients, NEW c \in Channels, NEW e \in SUBSET (Faults \ {"save"}), JoinStep(x, c, e)
      PROVE  PolicyStep
  <2>1. Tame(e)
    BY FaultsAreTame, Zenon
  <2>2. \E key \in Keys \cup {None} : command_join(x, c, key, e)
    BY <1>6, Zenon DEF JoinStep, command_sajoin, PolicyIsLoaded
  <2> QED BY <2>1, <2>2, JoinFollows, ZenonT(40)
<1>7. ASSUME NEW x \in Clients, NEW c \in Channels, NEW e \in SUBSET (Faults \cap {"alloc", "open", "save"}),
             SavingStep(x, c, e)
      PROVE  PolicyStep
  <2>1. Tame(e)
    BY FaultsAreTame, Zenon
  <2> QED BY <1>7, <2>1, ModeFollows, SamodeFollows, RegisterFollows, ZenonT(40) DEF SavingStep
<1>8. ASSUME NEW x \in Clients, NEW c \in Channels, NEW e \in SUBSET (Faults \cap {"open"}), SyncStep(x, c, e)
      PROVE  PolicyStep
  <2>1. Tame(e)
    BY FaultsAreTame, Zenon
  <2> QED BY <1>8, <2>1, SessionFollows, AccessFollows, SecureOpsFollows, ZenonT(40) DEF SyncStep
<1>9. ASSUME NEW c \in Channels, NEW e \in SUBSET (Faults \cap {"open", "ready", "restore", "successor"}),
             AdminStep(c, e)
      PROVE  PolicyStep
  <2>1. Tame(e)
    BY FaultsAreTame
  <2> QED BY <1>9, <2>1, CssetFollows, CsdropFollows, NssetFollows, NsdropFollows, ZenonT(40) DEF AdminStep
<1> QED BY <1>1, <1>2, <1>3, <1>4, <1>5, <1>6, <1>7, <1>8, <1>9, ZenonT(40) DEF Next

(* Who is still to connect never is a registered client.                   *)
LEMMA FreshStep ==
    ASSUME IInv, fresh \cap connected = {}, [Next]_vars
    PROVE  (fresh \cap connected = {})'
<1>1. CASE UNCHANGED vars
  BY <1>1, Zenon DEF vars
<1>2. ASSUME NEW x \in Clients, PlainClientStep(x) PROVE (fresh \cap connected = {})'
  BY <1>2, Zenon DEF PlainClientStep, Connect, server_disconnect
<1>3. ASSUME NEW a \in Accounts, NssetEnable(a) PROVE UNCHANGED <<fresh, connected>>
  BY <1>3, Zenon DEF NssetEnable, live_vars
<1>4. CASE Restart
  BY <1>4, Zenon DEF Restart
<1>5. ASSUME NEW x \in Clients, NEW c \in Channels, PlainChannelStep(x, c) PROVE UNCHANGED <<fresh, connected>>
  BY <1>5, ZenonT(40) DEF PlainChannelStep, command_part, command_kick, command_invite, command_sapart, SetMlock,
              SetTopicLock, SetSuccessor, live_vars
<1>6. ASSUME NEW x \in Clients, NEW c \in Channels, NEW e, JoinStep(x, c, e) PROVE UNCHANGED <<fresh, connected>>
  BY <1>6, ZenonT(40) DEF JoinStep, command_join, command_sajoin
<1>7. ASSUME NEW x \in Clients, NEW c \in Channels, NEW e, SavingStep(x, c, e) PROVE UNCHANGED <<fresh, connected>>
  BY <1>7 DEF SavingStep, command_mode, command_samode, command_register
<1>8. ASSUME NEW x \in Clients, NEW c \in Channels, NEW e, SyncStep(x, c, e) PROVE UNCHANGED <<fresh, connected>>
  BY <1>8, Zenon DEF SyncStep, nickserv_identify, nickserv_register, command_logout, command_access, SetSecureOps
<1>9. ASSUME NEW c \in Channels, NEW e, AdminStep(c, e) PROVE UNCHANGED <<fresh, connected>>
  BY <1>9, ZenonT(40) DEF AdminStep, CssetEnabled, CssetFounder, command_csdrop, NssetDisable, command_nsdrop
<1> QED BY <1>1, <1>2, <1>3, <1>4, <1>5, <1>6, <1>7, <1>8, <1>9, ZenonT(40) DEF Next


-----------------------------------------------------------------------------
(* The step in which a client enters a channel.                            *)

(* x enters c in a step that is a JOIN of its own, which admitted it.      *)
EnteredBy(v, w, c, x, e) ==
    /\ v.channel = channel' /\ v.joined = joined'
    /\ x \in connected
    /\ Admission(v, w, c, x, connected, e)

LEMMA JoinEnters ==
    ASSUME IInv, NEW y \in Clients, NEW d \in Channels, NEW key, NEW e, command_join(y, d, key, e),
           NEW c \in Channels, NEW x \in Clients, Enters(c, x)
    PROVE  \E v, w : EnteredBy(v, w, c, x, e)
<1> DEFINE v == JoinChain(d, y, key, e)
<1>1. TablesOK /\ Sound(World, connected) /\ y \in connected /\ joined \in [Clients -> SUBSET Channels]
  BY ChannelsNow DEF IInv, command_join
<1>2. channel' = v.channel /\ joined' = v.joined
  BY DEF command_join, SetWorld
<1>3. \/ Before(v, connected, e)
      \/ \E w : \E b \in Channels : Admission(v, w, b, y, connected, e)
  BY <1>1, ChainReaches, Zenon
<1> HIDE DEF v
<1>4. PICK w : \E b \in Channels : Admission(v, w, b, y, connected, e)
  BY <1>2, <1>3, ZenonT(40) DEF Before, Enters
<1>5. PICK b \in Channels : Admission(v, w, b, y, connected, e)
  BY <1>4, Zenon
<1>6. v.joined = [joined EXCEPT ![y] = @ \cup {b}]
  <2> DEFINE ready == Ready(w, b, e)
  <2>1. Before(ready, connected, e) /\ Admitted(v, ready, b, y)
    <3>1. AsAdmitted(v, w, b, y, connected, e)
      BY <1>1, <1>5, AdmissionShape, ZenonT(40)
    <3> QED BY <3>1, Zenon DEF AsAdmitted
  <2> HIDE DEF ready
  <2>2. ready.joined = joined
    BY <2>1, Zenon DEF Before
  <2> QED BY <2>1, <2>2, ZenonT(40) DEF Admitted
<1>7. x = y /\ c = b
  BY <1>1, <1>2, <1>6, ZenonT(40) DEF Enters
<1> QED BY <1>1, <1>2, <1>5, <1>7, ZenonT(40) DEF EnteredBy

(* Without SAJOIN there is no other way in.                                *)
LEMMA OnlyJoinEnters ==
    ASSUME "SAJOIN" \notin Commands, IInv, [Next]_vars, NEW c \in Channels, NEW x \in Clients, Enters(c, x)
    PROVE  \E e \in SUBSET Faults : \E v, w : EnteredBy(v, w, c, x, e)
<1>1. joined \in [Clients -> SUBSET Channels] /\ Sound(World, connected) /\ World.channel = channel
      /\ World.joined = joined
  BY ChannelsNow, Zenon DEF IInv, World
<1>2. CASE UNCHANGED vars
  BY <1>2, Zenon DEF vars, Enters
<1>3. ASSUME NEW y \in Clients, PlainClientStep(y) PROVE FALSE
  BY <1>1, <1>3, ZenonT(40) DEF PlainClientStep, Connect, server_disconnect, Enters
<1>4. ASSUME NEW a \in Accounts, NssetEnable(a) PROVE FALSE
  BY <1>4, Zenon DEF NssetEnable, live_vars, Enters
<1>5. CASE Restart
  BY <1>5, Zenon DEF Restart, Enters
<1>6. ASSUME NEW y \in Clients, NEW d \in Channels, PlainChannelStep(y, d) PROVE FALSE
  <2>1. ASSUME NEW z \in Clients, channel[d] # None, SetWorld(Leave(World, d, z)) PROVE FALSE
    <3>1. joined' = [joined EXCEPT ![z] = @ \ {d}]
      BY <1>1, <2>1, LeaveSound, ZenonT(40) DEF SetWorld
    <3> QED BY <1>1, <3>1, ZenonT(40) DEF Enters
  <2>2. joined' # joined
    BY Zenon DEF Enters
  <2> QED BY <1>6, <2>1, <2>2, ZenonT(40) DEF PlainChannelStep, command_part, command_kick, command_invite, command_sapart,
              SetMlock, SetTopicLock, SetSuccessor, live_vars
<1>7. ASSUME NEW y \in Clients, NEW d \in Channels, NEW e \in SUBSET (Faults \ {"save"}), JoinStep(y, d, e)
      PROVE  \E v, w : EnteredBy(v, w, c, x, e)
  BY <1>7, JoinEnters, ZenonT(40) DEF JoinStep, command_sajoin
<1>8. ASSUME NEW y \in Clients, NEW d \in Channels, NEW e, SavingStep(y, d, e) PROVE FALSE
  BY <1>8 DEF SavingStep, command_mode, command_samode, command_register, Enters
<1>9. ASSUME NEW y \in Clients, NEW d \in Channels, NEW e, SyncStep(y, d, e) PROVE FALSE
  BY <1>9, ZenonT(40) DEF SyncStep, nickserv_identify, nickserv_register, command_logout, command_access, SetSecureOps, Enters
<1>10. ASSUME NEW d \in Channels, NEW e, AdminStep(d, e) PROVE FALSE
  BY <1>10, Zenon DEF AdminStep, CssetEnabled, CssetFounder, command_csdrop, NssetDisable, command_nsdrop, Enters
<1> QED BY <1>2, <1>3, <1>4, <1>5, <1>6, <1>7, <1>8, <1>9, <1>10, ZenonT(40) DEF Next

(* The invitation the client entered with, if the channel needed one.      *)
LEMMA EntersInvited ==
    ASSUME IInv, NEW c \in Channels, NEW x \in Clients, NEW e, NEW v, NEW w, EnteredBy(v, w, c, x, e),
           "i" \in channel'[c].modes, ~channel_client_is_invex(channel'[c].runtime, x)
    PROVE  Live(c) /\ x \in channel[c].invites /\ x \notin channel'[c].invites
<1> DEFINE ready == Ready(w, c, e)
           ch == ready.channel[c]
<1>1. /\ Before(ready, connected, e) /\ ch # None /\ Admitted(v, ready, c, x) /\ channel' = v.channel
      /\ Passed(ch, c, x, e)
  <2>1. TablesOK /\ x \in connected /\ Admission(v, w, c, x, connected, e) /\ channel' = v.channel
    BY ZenonT(40) DEF EnteredBy, IInv
  <2>2. Before(ready, connected, e) /\ ch # None /\ Admitted(v, ready, c, x)
    <3>1. AsAdmitted(v, w, c, x, connected, e)
      BY <2>1, AdmissionShape, ZenonT(40)
    <3> QED BY <3>1 DEF AsAdmitted
  <2> QED BY <2>1, <2>2, ZenonT(40) DEF Admission
<1> HIDE DEF ready
<1>2. /\ channel'[c].modes = ch.modes /\ channel'[c].runtime = ch.runtime
      /\ channel'[c].invites = ch.invites \ {x}
  BY <1>1, Zenon DEF Admitted, SamePolicy, SameCache
<1>3. x \in ch.invites
  BY <1>1, <1>2, ZenonT(40) DEF Passed, ModesRefuse
<1>4. ch.invites = InvitesOf(channel, c)
  BY <1>1, ZenonT(40) DEF Before, InvitesOf
<1> QED BY <1>2, <1>3, <1>4, ZenonT(40) DEF InvitesOf, Live

(* The privileges the client entered with.                                 *)
LEMMA EntersByAccount ==
    ASSUME PolicyInv, NEW c \in Channels, NEW x \in Clients, NEW e, Tame(e), NEW v, NEW w,
           EnteredBy(v, w, c, x, e), Enabled(registration[c])
    PROVE  channel'[c].manual[x] = {} /\ channel'[c].service[x] = Granted(c, account[x])
<1>1. TablesOK /\ Following(channel, registration, access, stored, account)
  BY DEF PolicyInv, IInv
<1>2. x \in connected /\ Admission(v, w, c, x, connected, e) /\ channel' = v.channel
  BY ZenonT(40) DEF EnteredBy
<1>3. Arrived(v.channel[c], c, x)
  BY <1>1, <1>2, AdmissionFollows, ZenonT(40)
<1> QED BY <1>2, <1>3, ZenonT(40) DEF Arrived, Granted, GrantedBy

INSTANCE FiniteSetTheorems

(* The stored policy the client passed.                                    *)
LEMMA EntersByPolicy ==
    ASSUME PolicyInv, NEW c \in Channels, NEW x \in Clients, NEW e, Tame(e), NEW v, NEW w,
           EnteredBy(v, w, c, x, e), Enabled(registration[c])
    PROVE  /\ ~Banned(stored[c], x, Granted(c, account[x]))
           /\ stored[c].user_limit # 0 =>
                 Cardinality({y \in Clients : c \in joined'[y]}) <= stored[c].user_limit
           /\ LocksChecked /\ "i" \in registration[c].mode_lock =>
                 \/ Live(c) /\ x \in channel[c].invites
                 \/ channel_client_is_invex(stored[c], x)
<1> DEFINE ready == Ready(w, c, e)
           ch == ready.channel[c]
           service == chanserv_client_privileges(ch, registration[c], access[c], account[x], e)
<1>1. TablesOK /\ x \in connected /\ Admission(v, w, c, x, connected, e) /\ joined' = v.joined
      /\ Following(channel, registration, access, stored, account)
  BY ZenonT(40) DEF EnteredBy, PolicyInv, IInv
<1>2. /\ Sound(ready, connected) /\ Before(ready, connected, e) /\ ch # None /\ Admitted(v, ready, c, x)
      /\ Passed(ch, c, x, e)
  <2>1. AsAdmitted(v, w, c, x, connected, e)
    BY <1>1, AdmissionShape, ZenonT(40)
  <2> QED BY <1>1, <2>1, ZenonT(40) DEF AsAdmitted, Admission
<1>3. Sound(w, connected) /\ Following(w.channel, registration, access, stored, account)
  BY <1>1, ZenonT(40) DEF Admission, Before
<1>4. /\ Follows(ch, registration[c], access[c], stored[c], account)
      /\ ~RestoreFails(e) => ch.runtime = stored[c]
  BY <1>1, <1>3, ReadyFollows, ZenonT(40)
<1>5. ch \in Channel
  BY <1>2, WorldShape, ZenonT(40)
<1> HIDE DEF ready, ch
<1>6. Cached(ch, registration[c]) /\ "r" \in ch.modes /\ ch.mode_lock = registration[c].mode_lock
  BY <1>4, ZenonT(40) DEF Follows, Policy, Cached
<1>7. ch.runtime = stored[c]
  BY <1>2, <1>4, <1>6, ZenonT(40) DEF Passed
<1>8. ~Banned(stored[c], x, Granted(c, account[x]))
  <2>0. "open" \notin e
    BY ZenonT(40) DEF Tame
  <2>1. service = GrantedBy(registration[c], access[c], account[x])
    BY <1>6, <2>0, GrantsAgree, SMT, SMTT(30)
  <2>2. service = Granted(c, account[x])
    BY <2>1, ZenonT(40) DEF Granted, GrantedBy
  <2>3. ~Banned(ch.runtime, x, service)
    BY <1>2, ZenonT(40) DEF Passed
  <2> QED BY <1>7, <2>2, <2>3, ZenonT(40)
<1>9. stored[c].user_limit # 0 => Cardinality({y \in Clients : c \in joined'[y]}) <= stored[c].user_limit
  <2> SUFFICES ASSUME stored[c].user_limit # 0
               PROVE  Cardinality({y \in Clients : c \in joined'[y]}) <= stored[c].user_limit
    BY Zenon
  <2>1. joined' = [joined EXCEPT ![x] = @ \cup {c}] /\ joined \in [Clients -> SUBSET Channels]
    BY <1>1, <1>2, ChannelsNow, ZenonT(40) DEF Admitted, Before, PolicyInv
  <2>2. ch.members \subseteq Clients /\ \A y \in Clients : c \in joined[y] <=> y \in ch.members
    BY <1>2, <1>5, ZenonT(40) DEF Sound, Before, Channel, ch
  <2>3. {y \in Clients : c \in joined'[y]} = ch.members \cup {x}
    BY <2>1, <2>2, ZenonT(40)
  <2>4. IsFiniteSet(ch.members) /\ x \notin ch.members
    BY <1>2, <2>2, ClientSets, FS_Subset, ZenonT(40) DEF Passed
  <2>5. Cardinality(ch.members \cup {x}) = Cardinality(ch.members) + 1 /\ Cardinality(ch.members) \in Nat
    BY <2>4, FS_AddElement, FS_CardinalityType, ZenonT(40)
  <2>6. ~(Cardinality(ch.members) >= stored[c].user_limit)
    BY <1>2, <1>7, ZenonT(40) DEF Passed, Full
  <2>7. stored[c].user_limit \in Nat
    BY <1>1, LimitIsNat, Zenon DEF TablesOK
  <2>8. Cardinality(ch.members) + 1 <= stored[c].user_limit
    BY <2>5, <2>6, <2>7, RoomForOne, ZenonT(40)
  <2>9. Cardinality({y \in Clients : c \in joined'[y]}) = Cardinality(ch.members) + 1
    BY <2>3, <2>5, ZenonT(40)
  <2> QED BY <2>8, <2>9, ZenonT(40)
<1>10. LocksChecked /\ "i" \in registration[c].mode_lock =>
         (Live(c) /\ x \in channel[c].invites) \/ channel_client_is_invex(stored[c], x)
  <2> SUFFICES ASSUME LocksChecked, "i" \in registration[c].mode_lock
               PROVE  (Live(c) /\ x \in channel[c].invites) \/ channel_client_is_invex(stored[c], x)
    OBVIOUS
  <2>1. "i" \in ch.modes
    BY <1>4, <1>6, ZenonT(40) DEF Follows, Policy
  <2>2. x \in ch.invites \/ channel_client_is_invex(stored[c], x)
    BY <1>2, <1>7, <2>1, ZenonT(40) DEF Passed, ModesRefuse
  <2>3. ch.invites = InvitesOf(channel, c)
    BY <1>2, ZenonT(40) DEF Before, InvitesOf, ch
  <2> QED BY <2>2, <2>3, ZenonT(40) DEF InvitesOf, Live
<1> QED BY <1>8, <1>9, <1>10, ZenonT(40)


-----------------------------------------------------------------------------
(* Theorems.                                                               *)

(* As long as the policy of every live channel was loaded, each live       *)
(* channel follows its registration in every reachable state: its cache is *)
(* the row, its members hold no more than the tables grant them, and, as   *)
(* far as mode lines are checked and rows can be read and written, its     *)
(* modes keep the lock and its runtime is the stored one.  PolicyIsLoaded  *)
(* is assumed here and below: the database opens, a change of founder is   *)
(* written whole, nobody sends SAJOIN.                                     *)
THEOREM PolicyInvariance ==
    ASSUME PolicyIsLoaded
    PROVE  Spec => []PolicyInv
<1>1. Init => PolicyInv
  <2> SUFFICES ASSUME Init PROVE PolicyInv
    OBVIOUS
  <2>1. IInv
    BY InitHolds, ZenonT(40)
  <2>2. fresh \cap connected = {} /\ Following(channel, registration, access, stored, account)
    BY Zenon DEF Init, Following
  <2> QED BY <2>1, <2>2, ZenonT(40) DEF PolicyInv
<1>2. PolicyInv /\ [Next]_vars => PolicyInv'
  <2> SUFFICES ASSUME PolicyInv, [Next]_vars PROVE PolicyInv'
    BY Zenon
  <2>1. IInv' /\ (fresh \cap connected = {})'
    BY EveryStep, FreshStep, ZenonT(40) DEF PolicyInv
  <2>2. PolicyStep
    BY EveryStepFollows, Zenon
  <2> QED BY <2>1, <2>2, ZenonT(40) DEF PolicyInv, PolicyStep
<1> QED BY <1>1, <1>2, PTL DEF Spec

(* No member keeps a service privilege after the row, the access list or   *)
(* the login that granted it is gone, in whatever order access changes,    *)
(* logins, logouts, founder changes and drops of accounts and channels     *)
(* come, also when restores and saves of rows and allocations fail.  Under *)
(* PolicyIsLoaded: a founder written without the successor being cleared   *)
(* skips the refresh, and the old founder keeps what it has.               *)
THEOREM AuthorityIsGranted ==
    ASSUME PolicyIsLoaded
    PROVE  Spec => []NoStaleAuthority
<1>1. PolicyInv => NoStaleAuthority
  BY ZenonT(40) DEF PolicyInv, Following, Follows, Holds, NoStaleAuthority, Live, Granted, GrantedBy
<1> QED BY <1>1, PolicyInvariance, PTL

(* With SecureOps on nobody holds by hand what its account's access does   *)
(* not reach: the grant, the login, the logout, the access change, SET     *)
(* SECUREOPS itself and a founder change that is written whole each leave  *)
(* it so.                                                                  *)
THEOREM SecureOpsEnforced ==
    ASSUME PolicyIsLoaded
    PROVE  Spec => []SecureOpsHolds
<1>1. PolicyInv => SecureOpsHolds
  BY DEF PolicyInv, Following, Follows, Holds, SecureOpsHolds, Live, Granted, GrantedBy
<1> QED BY <1>1, PolicyInvariance, PTL

(* A registered live channel has every mode of its mode lock and caches    *)
(* the lock and founder of its row: check_mlock() lets no mode line past   *)
(* that would break it, and every refresh restores it.  That a change of   *)
(* founder reaches the refresh is part of PolicyIsLoaded.                  *)
THEOREM LockKept ==
    ASSUME PolicyIsLoaded, LocksChecked
    PROVE  Spec => []MlockHolds
<1>1. PolicyInv => MlockHolds
  BY ZenonT(40) DEF PolicyInv, Following, Follows, Policy, Cached, MlockHolds, Live
<1> QED BY <1>1, PolicyInvariance, PTL

(* What a registered live channel enforces is what its rows hold, so that  *)
(* a restart changes nothing: no mode line, SAMODE included, is applied    *)
(* without being saved, and no refresh loses one.                          *)
THEOREM RuntimeIsStored ==
    ASSUME PolicyIsLoaded, StorageWorks
    PROVE  Spec => []LiveIsStored
<1>1. PolicyInv => LiveIsStored
  BY DEF PolicyInv, Following, Follows, Policy, Cached, LiveIsStored, Live
<1> QED BY <1>1, PolicyInvariance, PTL

(* JOIN gives nobody authority by hand in a registered channel, and all    *)
(* that the tables grant its account: also to the first member of a        *)
(* channel that was not live, at the end of a chain of redirects, and when *)
(* a restore failed on the way.                                            *)
THEOREM OwnershipByAccount ==
    ASSUME PolicyIsLoaded
    PROVE  Spec => RegisteredOwnershipByAccount
<1>1. PolicyInv /\ [Next]_vars =>
        [\A c \in Channels, x \in Clients : (Enters(c, x) /\ Enabled(registration[c])) =>
            channel'[c].manual[x] = {} /\ channel'[c].service[x] = Granted(c, account[x])]_vars
  <2> SUFFICES ASSUME PolicyInv, [Next]_vars, NEW c \in Channels, NEW x \in Clients,
                      Enters(c, x), Enabled(registration[c])
               PROVE  channel'[c].manual[x] = {} /\ channel'[c].service[x] = Granted(c, account[x])
    BY Zenon
  <2>1. PICK e \in SUBSET Faults : \E v, w : EnteredBy(v, w, c, x, e)
    BY OnlyJoinEnters, ZenonT(40) DEF PolicyInv, PolicyIsLoaded
  <2>2. PICK v, w : EnteredBy(v, w, c, x, e)
    BY <2>1, ZenonT(40)
  <2>3. Tame(e)
    BY FaultsAreTame, ZenonT(40)
  <2> QED BY <2>2, <2>3, EntersByAccount, ZenonT(40)
<1> QED BY <1>1, PolicyInvariance, PTL DEF Spec, RegisteredOwnershipByAccount

(* Whoever enters a registered channel passed the policy in the rows: its  *)
(* bans, its limit with the newcomer counted, and +i if the lock has it.   *)
(* Neither a redirect, nor a channel that has to be opened first, nor a    *)
(* restore or a save that failed earlier lets anybody around it.           *)
THEOREM JoinIsDecidedByTheRows ==
    ASSUME PolicyIsLoaded, LocksChecked
    PROVE  Spec => JoinHonoursStoredPolicy
<1>1. PolicyInv /\ [Next]_vars =>
        [\A c \in Channels, x \in Clients : (Enters(c, x) /\ Enabled(registration[c])) =>
            /\ ~Banned(stored[c], x, Granted(c, account[x]))
            /\ stored[c].user_limit # 0 =>
                  Cardinality({y \in Clients : c \in joined'[y]}) <= stored[c].user_limit
            /\ "i" \in registration[c].mode_lock =>
                  \/ Live(c) /\ x \in channel[c].invites
                  \/ channel_client_is_invex(stored[c], x)]_vars
  <2> SUFFICES ASSUME PolicyInv, [Next]_vars, NEW c \in Channels, NEW x \in Clients,
                      Enters(c, x), Enabled(registration[c])
               PROVE  /\ ~Banned(stored[c], x, Granted(c, account[x]))
                      /\ stored[c].user_limit # 0 =>
                            Cardinality({y \in Clients : c \in joined'[y]}) <= stored[c].user_limit
                      /\ "i" \in registration[c].mode_lock =>
                            \/ Live(c) /\ x \in channel[c].invites
                            \/ channel_client_is_invex(stored[c], x)
    BY Zenon
  <2>1. PICK e \in SUBSET Faults : \E v, w : EnteredBy(v, w, c, x, e)
    BY OnlyJoinEnters, ZenonT(40) DEF PolicyInv, PolicyIsLoaded
  <2>2. PICK v, w : EnteredBy(v, w, c, x, e)
    BY <2>1, ZenonT(40)
  <2>3. Tame(e)
    BY FaultsAreTame, ZenonT(40)
  <2> QED BY <2>2, <2>3, EntersByPolicy, ZenonT(40)
<1> QED BY <1>1, PolicyInvariance, PTL DEF Spec, JoinHonoursStoredPolicy

(* An invitation admits once: whatever fails, whoever enters a +i channel  *)
(* without an exception was on its list and is taken off it in the same    *)
(* step.  SAJOIN alone needs no invitation.                                *)
THEOREM InvitationIsUsedUp ==
    ASSUME "SAJOIN" \notin Commands
    PROVE  Spec => InviteAdmitsOnce
<1>1. IInv /\ [Next]_vars =>
        [\A c \in Channels, x \in Clients :
            (Enters(c, x) /\ "i" \in channel'[c].modes /\ ~channel_client_is_invex(channel'[c].runtime, x)) =>
                /\ Live(c) /\ x \in channel[c].invites
                /\ x \notin channel'[c].invites]_vars
  <2> SUFFICES ASSUME IInv, [Next]_vars, NEW c \in Channels, NEW x \in Clients, Enters(c, x),
                      "i" \in channel'[c].modes, ~channel_client_is_invex(channel'[c].runtime, x)
               PROVE  Live(c) /\ x \in channel[c].invites /\ x \notin channel'[c].invites
    OBVIOUS
  <2>1. PICK e \in SUBSET Faults : \E v, w : EnteredBy(v, w, c, x, e)
    BY OnlyJoinEnters, ZenonT(40)
  <2>2. PICK v, w : EnteredBy(v, w, c, x, e)
    BY <2>1
  <2> QED BY <2>2, EntersInvited, ZenonT(40)
<1> QED BY <1>1, ChannelInvariance, PTL DEF Spec, InviteAdmitsOnce
=============================================================================
