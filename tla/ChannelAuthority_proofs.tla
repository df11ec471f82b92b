---------------------- MODULE ChannelAuthority_proofs ----------------------
(***************************************************************************)
(* Proofs about ChannelAuthority for every number of clients, channels and *)
(* accounts, every mode line, lock and access level, and every fault.      *)
(***************************************************************************)
EXTENDS ChannelAuthority, TLAPS

(* A channel record whose effective privileges are right for everybody but *)
(* the clients in X: while SAMODE lends its operator ownership, the        *)
(* operator is in X; between handlers nobody is.                           *)
RightBut(ch, X) ==
    /\ ch \in Channel
    /\ \A x \in Clients \ X : ch.privileges[x] = ch.manual[x] \cup ch.service[x]
    /\ \A x \in Clients \ X : x \notin ch.members => ch.privileges[x] = {}

(* What the two membership tables of w satisfy together.                   *)
Sound(w, conn) ==
    /\ w \in [channel : [Channels -> Channel \cup {None}], joined : [Clients -> SUBSET Channels]]
    /\ \A c \in Channels : w.channel[c] # None => RightBut(w.channel[c], {})
    /\ \A c \in Channels, x \in Clients :
          c \in w.joined[x] <=> w.channel[c] # None /\ x \in w.channel[c].members
    /\ \A x \in Clients : w.joined[x] # {} => x \in conn

(* The tables and the identities, which the membership tables do not need. *)
TablesOK ==
    /\ fresh \subseteq Clients
    /\ connected \subseteq Clients
    /\ account \in [Clients -> Accounts \cup {None}]
    /\ registration \in [Channels -> RegistrationRow \cup {None}]
    /\ access \in [Channels -> [Accounts -> Levels \cup {None}]]
    /\ stored \in [Channels -> Runtime]
    /\ accounts \in [Accounts -> {"enabled", "disabled", "absent"}]

IInv == Sound(World, connected) /\ TablesOK

-----------------------------------------------------------------------------
(* Channel records.                                                        *)

(* An update keeps the record type if the new field has its type.          *)
LEMMA PrivilegesUpdate ==
    ASSUME NEW X, NEW ch, RightBut(ch, X), NEW x \in Clients,
           NEW manual \in SUBSET Privileges, NEW service \in SUBSET Privileges,
           x \in ch.members \/ (manual = {} /\ service = {})
    PROVE  /\ RightBut(SetPrivileges(ch, x, manual, service), X)
           /\ SetPrivileges(ch, x, manual, service).members = ch.members
           /\ SetPrivileges(ch, x, manual, service).modes = ch.modes
<1> DEFINE n == SetPrivileges(ch, x, manual, service)
<1>1. ch \in Channel
  BY DEF RightBut
<1>2. n \in Channel
  BY <1>1, Zenon DEF Channel, SetPrivileges
<1>3. /\ n.members = ch.members /\ n.modes = ch.modes
      /\ n.manual = [ch.manual EXCEPT ![x] = manual]
      /\ n.service = [ch.service EXCEPT ![x] = service]
      /\ n.privileges = [ch.privileges EXCEPT ![x] = manual \cup service]
  BY <1>1 DEF Channel, SetPrivileges
<1> QED BY <1>1, <1>2, <1>3 DEF RightBut, Channel

LEMMA ServiceType ==
    ASSUME NEW ch \in Channel, NEW reg \in RegistrationRow \cup {None},
           NEW acc \in [Accounts -> Levels \cup {None}], NEW a \in Accounts \cup {None}, NEW e
    PROVE  /\ chanserv_client_privileges(ch, reg, acc, a, e) \in SUBSET Privileges
           /\ ServiceOf(ch, reg, acc, a, e) \in SUBSET Privileges
<1>1. \A level : LevelPrivileges(level) \in SUBSET Privileges
  BY DEF LevelPrivileges, Privileges, Ownership
<1>2. Ownership \in SUBSET Privileges /\ {} \in SUBSET Privileges
  BY DEF Ownership, Privileges
<1> QED BY <1>1, <1>2 DEF chanserv_client_privileges, ServiceOf

LEMMA SyncRight ==
    ASSUME NEW X, NEW ch, RightBut(ch, X), NEW reg \in RegistrationRow \cup {None},
           NEW acc \in [Accounts -> Levels \cup {None}],
           NEW who \in [Clients -> Accounts \cup {None}], NEW set, NEW e
    PROVE  /\ RightBut(SyncMembers(ch, reg, acc, who, set, e), X)
           /\ SyncMembers(ch, reg, acc, who, set, e).members = ch.members
<1> DEFINE n == SyncMembers(ch, reg, acc, who, set, e)
           desired(x) == ServiceOf(ch, reg, acc, who[x], e)
           kept(x) == IF ch.secure_ops THEN ch.manual[x] \cap Eligible(desired(x)) ELSE ch.manual[x]
           synced == ch.members \cap set
<1>1. ch \in Channel
  BY DEF RightBut
<1>2. \A x \in Clients : desired(x) \in SUBSET Privileges
  BY <1>1, ServiceType
<1>3. \A x \in Clients : kept(x) \in SUBSET Privileges
  BY <1>1 DEF Channel
<1>4. /\ n.members = ch.members
      /\ n.manual = [x \in Clients |-> IF x \in synced THEN kept(x) ELSE ch.manual[x]]
      /\ n.service = [x \in Clients |-> IF x \in synced THEN desired(x) ELSE ch.service[x]]
      /\ n.privileges = [x \in Clients |-> IF x \in synced THEN kept(x) \cup desired(x) ELSE ch.privileges[x]]
  BY <1>1 DEF Channel, SyncMembers
<1> HIDE DEF desired, kept
<1>5. /\ n.manual \in [Clients -> SUBSET Privileges]
      /\ n.service \in [Clients -> SUBSET Privileges]
      /\ n.privileges \in [Clients -> SUBSET Privileges]
  BY <1>1, <1>2, <1>3, <1>4 DEF Channel
<1>6. n = [ch EXCEPT !.manual = n.manual, !.service = n.service, !.privileges = n.privileges]
  BY <1>1, <1>4 DEF SyncMembers, Channel, desired, kept
<1> HIDE DEF n
<1>7. n \in Channel
  BY <1>1, <1>5, <1>6, Zenon DEF Channel
<1>8. RightBut(n, X)
  BY <1>1, <1>4, <1>7 DEF RightBut, Channel
<1> QED BY <1>4, <1>8 DEF n

(* Replacing fields that say nothing about members and privileges.         *)
LEMMA PolicyUpdate ==
    ASSUME NEW X, NEW ch, RightBut(ch, X), NEW n, n \in Channel,
           n.members = ch.members, n.manual = ch.manual, n.service = ch.service,
           n.privileges = ch.privileges
    PROVE  RightBut(n, X)
  BY DEF RightBut

LEMMA RuntimeTypes ==
    /\ EmptyRuntime \in Runtime
    /\ \A rt \in Runtime, st \in Runtime : \A e : chanserv_persist_restore(rt, st, e) \in Runtime
<1>1. EmptyRuntime \in Runtime
  BY Bounds DEF EmptyRuntime, Runtime
<1> QED BY <1>1 DEF chanserv_persist_restore

LEMMA RefreshRight ==
    ASSUME NEW ch, RightBut(ch, {}), NEW reg \in RegistrationRow \cup {None}, NEW st \in Runtime, NEW e
    PROVE  /\ RightBut(chanserv_refresh_channel(ch, reg, st, e), {})
           /\ chanserv_refresh_channel(ch, reg, st, e).members = ch.members
<1> DEFINE n == chanserv_refresh_channel(ch, reg, st, e)
<1>1. ch \in Channel
  BY DEF RightBut
<1>2. CASE "open" \in e
  BY <1>2 DEF chanserv_refresh_channel
<1>3. CASE "open" \notin e /\ Enabled(reg)
  <2> DEFINE rt == chanserv_persist_restore(ch.runtime, st, e)
  <2>1. reg \in RegistrationRow
    BY <1>3 DEF Enabled
  <2>2. rt \in Runtime
    BY <1>1, RuntimeTypes DEF Channel
  <2>3. n = [ch EXCEPT !.loaded = TRUE, !.valid = TRUE, !.founder = reg.founder,
                       !.mode_lock = reg.mode_lock, !.secure_ops = reg.secure_ops,
                       !.modes = reg.mode_lock \cup {"r"}, !.runtime = rt]
    BY <1>1, <1>3 DEF chanserv_refresh_channel, cache_policy, Channel
  <2> HIDE DEF n, rt
  <2>4. n \in Channel
    BY <1>1, <2>1, <2>2, <2>3, Zenon DEF Channel, RegistrationRow
  <2>5. /\ n.members = ch.members /\ n.manual = ch.manual /\ n.service = ch.service
        /\ n.privileges = ch.privileges
    BY <1>1, <2>3 DEF Channel
  <2> QED BY <2>4, <2>5, PolicyUpdate DEF n
<1>4. CASE "open" \notin e /\ ~Enabled(reg)
  <2> DEFINE all == [x \in Clients |-> ch.manual[x] \cup ch.service[x]]
  <2>1. n = [ch EXCEPT !.manual = all, !.service = NoPrivileges, !.privileges = all,
                       !.loaded = TRUE, !.valid = FALSE, !.founder = None, !.mode_lock = {},
                       !.secure_ops = FALSE, !.modes = ch.modes \ {"r"}]
    BY <1>1, <1>4 DEF chanserv_refresh_channel, clear_cached_policy, Channel
  <2>2. all \in [Clients -> SUBSET Privileges] /\ NoPrivileges \in [Clients -> SUBSET Privileges]
    BY <1>1 DEF Channel, NoPrivileges
  <2> HIDE DEF n
  <2>3. n \in Channel
    <3> HIDE DEF all
    <3> QED BY <1>1, <2>1, <2>2, Zenon DEF Channel
  <2>4. n.members = ch.members /\ n.manual = all /\ n.service = NoPrivileges /\ n.privileges = all
    BY <1>1, <2>1 DEF Channel
  <2>5. \A x \in Clients : x \notin ch.members => ch.manual[x] \cup ch.service[x] = {}
    BY DEF RightBut
  <2>6. \A x \in Clients : n.privileges[x] = n.manual[x] \cup n.service[x]
    BY <2>4 DEF NoPrivileges
  <2>7. \A x \in Clients : x \notin n.members => n.privileges[x] = {}
    BY <2>4, <2>5
  <2>8. RightBut(n, {})
    BY <2>3, <2>6, <2>7 DEF RightBut
  <2> QED BY <2>4, <2>8 DEF n
<1> QED BY <1>2, <1>3, <1>4

(* n is sound and has the members of ch.                                   *)
Keeps(n, ch) == RightBut(n, {}) /\ n.members = ch.members

LEMMA SyncKeeps ==
    ASSUME NEW ch, RightBut(ch, {}), NEW reg \in RegistrationRow \cup {None},
           NEW acc \in [Accounts -> Levels \cup {None}],
           NEW who \in [Clients -> Accounts \cup {None}], NEW set, NEW e
    PROVE  Keeps(SyncMembers(ch, reg, acc, who, set, e), ch)
  BY SyncRight DEF Keeps

(* A refreshed channel is the one it was, in its members.                  *)
LEMMA RefreshedRight ==
    ASSUME NEW ch, RightBut(ch, {}), NEW reg \in RegistrationRow \cup {None},
           NEW acc \in [Accounts -> Levels \cup {None}], NEW st \in Runtime,
           NEW who \in [Clients -> Accounts \cup {None}], NEW e
    PROVE  Keeps(Refresh(ch, reg, acc, st, who, e), ch)
<1> DEFINE r == chanserv_refresh_channel(ch, reg, st, e)
<1>1. RightBut(r, {}) /\ r.members = ch.members
  BY RefreshRight
<1> HIDE DEF r
<1>2. /\ RightBut(SyncMembers(r, reg, acc, who, Clients, e), {})
      /\ SyncMembers(r, reg, acc, who, Clients, e).members = r.members
  BY <1>1, SyncRight
<1>3. ch # None
  BY NoneIsNoRecord DEF RightBut
<1>4. Refresh(ch, reg, acc, st, who, e) = IF "r" \in r.modes THEN SyncMembers(r, reg, acc, who, Clients, e) ELSE r
  BY <1>3 DEF Refresh, r
<1> QED BY <1>1, <1>2, <1>4 DEF Keeps

-----------------------------------------------------------------------------
(* MODE lines.                                                             *)

LEMMA ChangeTypes ==
    ASSUME NEW d \in Change
    PROVE  /\ d.add \in BOOLEAN
           /\ d.letter \in BooleanModes \cup Privileges \cup {"k", "l", "j", "L", "B", "b", "e", "I"}
           /\ d.letter \in Privileges => d.arg \in Clients
           /\ d.letter = "k" => d.arg \in Keys
           /\ d.letter = "l" => d.arg \in 1..MaxLimit
           /\ d.letter \in {"L", "B"} => d.arg \in Channels
           /\ d.letter \in {"b", "e", "I"} => d.arg \in Masks
  BY DEF Change, BooleanModes, Privileges

LEMMA RuntimeUpdate ==
    ASSUME NEW X, NEW ch, RightBut(ch, X), NEW rt \in Runtime
    PROVE  /\ RightBut([ch EXCEPT !.runtime = rt], X)
           /\ [ch EXCEPT !.runtime = rt].members = ch.members
<1> DEFINE n == [ch EXCEPT !.runtime = rt]
<1>1. ch \in Channel
  BY DEF RightBut
<1>2. n \in Channel
  BY <1>1 DEF Channel
<1>3. /\ n.members = ch.members /\ n.manual = ch.manual /\ n.service = ch.service
      /\ n.privileges = ch.privileges
  BY <1>1 DEF Channel
<1> QED BY <1>2, <1>3, PolicyUpdate, Zenon

LEMMA BanListType ==
    ASSUME NEW list \in SUBSET [mask : Masks, authorized : BOOLEAN], NEW mask \in Masks,
           NEW authorized \in BOOLEAN
    PROVE  channel_mask_add_authorized(list, mask, authorized) \in SUBSET [mask : Masks, authorized : BOOLEAN]
<1>1. [mask |-> mask, authorized |-> authorized] \in [mask : Masks, authorized : BOOLEAN]
  OBVIOUS
<1>2. ASSUME NEW b \in list
      PROVE  [b EXCEPT !.authorized = b.authorized \/ authorized] \in [mask : Masks, authorized : BOOLEAN]
  <2>1. b \in [mask : Masks, authorized : BOOLEAN]
    OBVIOUS
  <2>2. (b.authorized \/ authorized) \in BOOLEAN
    OBVIOUS
  <2> QED BY <2>1, <2>2
<1> QED BY <1>1, <1>2 DEF channel_mask_add_authorized

LEMMA MaskRight ==
    ASSUME NEW X, NEW ch, RightBut(ch, X), NEW x, NEW d \in Change, d.letter \in {"b", "e", "I"}
    PROVE  RightBut(ModeMask(ch, x, d), X) /\ ModeMask(ch, x, d).members = ch.members
<1> DEFINE rt == ch.runtime
           authorized == may_manage_protected(ch, x)
<1>1. ch \in Channel /\ rt \in Runtime /\ d.arg \in Masks
  BY ChangeTypes DEF RightBut, Channel
<1>2. authorized \in BOOLEAN
  BY DEF may_manage_protected
<1>3. /\ rt.ban_list \in SUBSET [mask : Masks, authorized : BOOLEAN]
      /\ rt.exception_list \in SUBSET Masks /\ rt.invite_exception_list \in SUBSET Masks
  BY <1>1 DEF Runtime
<1>4. ASSUME NEW bans \in SUBSET [mask : Masks, authorized : BOOLEAN]
      PROVE  [rt EXCEPT !.ban_list = bans] \in Runtime
  BY <1>1 DEF Runtime
<1>5. ASSUME NEW masks \in SUBSET Masks
      PROVE  /\ [rt EXCEPT !.exception_list = masks] \in Runtime
             /\ [rt EXCEPT !.invite_exception_list = masks] \in Runtime
  BY <1>1 DEF Runtime
<1>6. ASSUME NEW masks \in SUBSET Masks
      PROVE  (IF d.add THEN channel_mask_add(masks, d.arg) ELSE masks \ {d.arg}) \in SUBSET Masks
  BY <1>1 DEF channel_mask_add
<1>7. channel_mask_add_authorized(rt.ban_list, d.arg, authorized) \in SUBSET [mask : Masks, authorized : BOOLEAN]
  <2> HIDE DEF authorized, rt
  <2> QED BY <1>1, <1>2, <1>3, BanListType
<1>8. {b \in rt.ban_list : b.mask # d.arg} \in SUBSET [mask : Masks, authorized : BOOLEAN]
  BY <1>3
<1>9. \/ ModeMask(ch, x, d) = ch
      \/ \E r \in Runtime : ModeMask(ch, x, d) = [ch EXCEPT !.runtime = r]
  <2>1. CASE d.letter = "b" /\ d.add
    BY <2>1, <1>4, <1>7, Zenon DEF ModeMask
  <2>2. CASE d.letter = "b" /\ ~d.add
    BY <2>2, <1>4, <1>8, Zenon DEF ModeMask
  <2>3. CASE d.letter = "e"
    BY <2>3, <1>3, <1>5, <1>6, Zenon DEF ModeMask
  <2>4. CASE d.letter = "I"
    BY <2>4, <1>3, <1>5, <1>6, Zenon DEF ModeMask
  <2> QED BY <2>1, <2>2, <2>3, <2>4
<1>10. CASE ModeMask(ch, x, d) = ch
  BY <1>10
<1>11. CASE \E r \in Runtime : ModeMask(ch, x, d) = [ch EXCEPT !.runtime = r]
  BY <1>11, RuntimeUpdate
<1> QED BY <1>9, <1>10, <1>11

LEMMA ParameterRight ==
    ASSUME NEW X, NEW ch, RightBut(ch, X), NEW d \in Change, d.letter \in {"k", "l", "j", "L", "B"}
    PROVE  RightBut(ModeParameter(ch, d), X) /\ ModeParameter(ch, d).members = ch.members
<1> DEFINE rt == ch.runtime
<1>1. ch \in Channel /\ rt \in Runtime
  BY DEF RightBut, Channel
<1>2. 0 \in 0..MaxLimit /\ (d.letter = "l" => d.arg \in 0..MaxLimit)
  BY ChangeTypes, Bounds
<1>3. \E r \in Runtime : ModeParameter(ch, d) = [ch EXCEPT !.runtime = r]
  <2>1. CASE d.letter = "k"
    <3>1. [rt EXCEPT !.key = IF d.add THEN d.arg ELSE None] \in Runtime
      BY <2>1, <1>1, ChangeTypes DEF Runtime
    <3> QED BY <2>1, <3>1 DEF ModeParameter
  <2>2. CASE d.letter = "l"
    <3>1. [rt EXCEPT !.user_limit = IF d.add THEN d.arg ELSE 0] \in Runtime
      BY <2>2, <1>1, <1>2 DEF Runtime
    <3> QED BY <2>2, <3>1 DEF ModeParameter
  <2>3. CASE d.letter = "j"
    <3>1. [rt EXCEPT !.join_throttle = d.add] \in Runtime
      BY <2>3, <1>1, ChangeTypes DEF Runtime
    <3> QED BY <2>3, <3>1 DEF ModeParameter
  <2>4. CASE d.letter = "L"
    <3>1. [rt EXCEPT !.limit_redirect = IF d.add THEN d.arg ELSE None] \in Runtime
      BY <2>4, <1>1, ChangeTypes DEF Runtime
    <3> QED BY <2>4, <3>1 DEF ModeParameter
  <2>5. CASE d.letter = "B"
    <3>1. [rt EXCEPT !.ban_redirect = IF d.add THEN d.arg ELSE None] \in Runtime
      BY <2>5, <1>1, ChangeTypes DEF Runtime
    <3> QED BY <2>5, <3>1 DEF ModeParameter
  <2> QED BY <2>1, <2>2, <2>3, <2>4, <2>5
<1> QED BY <1>3, RuntimeUpdate

LEMMA PrivilegeRight ==
    ASSUME NEW X, NEW ch, RightBut(ch, X), NEW c, NEW x, NEW d \in Change, d.letter \in Privileges, NEW e
    PROVE  RightBut(ModePrivilege(ch, c, x, d, e), X) /\ ModePrivilege(ch, c, x, d, e).members = ch.members
<1> DEFINE y == d.arg
           more == ch.manual[y] \cup {d.letter}
           less == ch.manual[y] \ {d.letter}
<1>1. y \in Clients /\ ch \in Channel
  BY ChangeTypes DEF RightBut
<1>2. more \in SUBSET Privileges /\ less \in SUBSET Privileges /\ ch.service[y] \in SUBSET Privileges
  BY <1>1, ZenonT(40) DEF Channel
<1>3. CASE y \in ch.members
  <2>1. /\ RightBut(SetPrivileges(ch, y, more, ch.service[y]), X)
        /\ SetPrivileges(ch, y, more, ch.service[y]).members = ch.members
    <3> HIDE DEF y, more
    <3> QED BY <1>1, <1>2, <1>3, PrivilegesUpdate
  <2>2. /\ RightBut(SetPrivileges(ch, y, less, ch.service[y]), X)
        /\ SetPrivileges(ch, y, less, ch.service[y]).members = ch.members
    <3> HIDE DEF y, less
    <3> QED BY <1>1, <1>2, <1>3, PrivilegesUpdate
  <2> QED BY <2>1, <2>2 DEF ModePrivilege, channel_add_privileges, channel_remove_manual_privileges
<1>4. CASE y \notin ch.members
  BY <1>4 DEF ModePrivilege
<1> QED BY <1>3, <1>4

LEMMA ChangeRight ==
    ASSUME NEW X, NEW ch, RightBut(ch, X), NEW c, NEW x, NEW d \in Change \cup {None}, NEW e
    PROVE  RightBut(ModeChange(ch, c, x, d, e), X) /\ ModeChange(ch, c, x, d, e).members = ch.members
<1>1. CASE d = None
  BY <1>1 DEF ModeChange
<1>2. CASE d \in Change /\ d.letter \in BooleanModes
  <2> DEFINE modes == IF d.add THEN ch.modes \cup {d.letter} ELSE ch.modes \ {d.letter}
             n == [ch EXCEPT !.modes = modes]
  <2>1. ch \in Channel
    BY DEF RightBut
  <2>2. modes \in SUBSET (BooleanModes \cup {"r"})
    BY <1>2, <2>1 DEF Channel
  <2>3. n \in Channel
    <3> HIDE DEF modes
    <3> QED BY <2>1, <2>2 DEF Channel
  <2>4. /\ n.members = ch.members /\ n.manual = ch.manual /\ n.service = ch.service
        /\ n.privileges = ch.privileges
    BY <2>1 DEF Channel
  <2>5. ModeChange(ch, c, x, d, e) = n
    BY <1>2, NoneIsNothing DEF ModeChange
  <2> HIDE DEF n
  <2> QED BY <2>3, <2>4, <2>5, PolicyUpdate
<1>3. CASE d \in Change /\ d.letter \in Privileges
  <2>1. ModeChange(ch, c, x, d, e) = ModePrivilege(ch, c, x, d, e)
    BY <1>3, NoneIsNothing DEF ModeChange, BooleanModes, Privileges
  <2> QED BY <1>3, <2>1, PrivilegeRight
<1>4. CASE d \in Change /\ d.letter \in {"b", "e", "I"}
  <2>1. ModeChange(ch, c, x, d, e) = ModeMask(ch, x, d)
    BY <1>4, NoneIsNothing DEF ModeChange, BooleanModes, Privileges
  <2> QED BY <1>4, <2>1, MaskRight
<1>5. CASE d \in Change /\ d.letter \in {"k", "l", "j", "L", "B"}
  <2>1. ModeChange(ch, c, x, d, e) = ModeParameter(ch, d)
    BY <1>5, NoneIsNothing DEF ModeChange, BooleanModes, Privileges
  <2> QED BY <1>5, <2>1, ParameterRight
<1> QED BY <1>1, <1>2, <1>3, <1>4, <1>5, ChangeTypes

LEMMA LineRight ==
    ASSUME NEW X, NEW ch, RightBut(ch, X), NEW c, NEW x, NEW line \in ModeLines, NEW e
    PROVE  RightBut(mode_channel(ch, c, x, line, e), X) /\ mode_channel(ch, c, x, line, e).members = ch.members
<1> DEFINE first == ModeChange(ch, c, x, line[1], e)
           second == ModeChange(first, c, x, line[2], e)
<1>1. line[1] \in Change \cup {None} /\ line[2] \in Change \cup {None}
  BY Inputs
<1>2. RightBut(first, X) /\ first.members = ch.members
  BY <1>1, ChangeRight
<1>3. RightBut(second, X) /\ second.members = first.members
  <2> HIDE DEF first
  <2> QED BY <1>1, <1>2, ChangeRight
<1> QED BY <1>2, <1>3 DEF mode_channel

LEMMA LineKeeps ==
    ASSUME NEW ch, RightBut(ch, {}), NEW c, NEW x, NEW line \in ModeLines, NEW e
    PROVE  Keeps(mode_channel(ch, c, x, line, e), ch)
  BY LineRight DEF Keeps

LEMMA EndOverrideRight ==
    ASSUME NEW ch, RightBut(ch, {}), NEW x \in Clients, NEW after, RightBut(after, {x}),
           after.members = ch.members \cup {x}
    PROVE  /\ RightBut(EndOverride(after, ch, x), {})
           /\ EndOverride(after, ch, x).members = ch.members
<1> DEFINE n == EndOverride(after, ch, x)
<1>1. ch \in Channel /\ after \in Channel
  BY DEF RightBut
<1>2. /\ ch.manual[x] \in SUBSET Privileges /\ ch.service[x] \in SUBSET Privileges
      /\ ch.privileges[x] \in SUBSET Privileges /\ ch.members \in SUBSET Clients
  BY <1>1 DEF Channel
<1>3. n \in Channel
  BY <1>1, <1>2, Zenon DEF EndOverride, Channel
<1>4. /\ n.members = ch.members
      /\ n.manual = [after.manual EXCEPT ![x] = ch.manual[x]]
      /\ n.service = [after.service EXCEPT ![x] = ch.service[x]]
      /\ n.privileges = [after.privileges EXCEPT ![x] = ch.privileges[x]]
  BY <1>1 DEF EndOverride, Channel
<1> HIDE DEF n
<1>5. RightBut(n, {})
  BY <1>1, <1>3, <1>4 DEF RightBut, Channel
<1> QED BY <1>4, <1>5 DEF n

(* SAMODE's operator is owner while the line runs, and afterwards what it  *)
(* was.                                                                    *)
LEMMA OverrideRight ==
    ASSUME NEW ch, RightBut(ch, {}), NEW c, NEW x \in Clients, NEW line \in ModeLines, NEW e
    PROVE  LET acting == [ch EXCEPT !.members = @ \cup {x}, !.privileges[x] = @ \cup Ownership]
               after == mode_channel(acting, c, x, line, e)
           IN /\ after \in Channel
              /\ RightBut(EndOverride(after, ch, x), {})
              /\ EndOverride(after, ch, x).members = ch.members
<1> DEFINE acting == [ch EXCEPT !.members = @ \cup {x}, !.privileges[x] = @ \cup Ownership]
           after == mode_channel(acting, c, x, line, e)
<1>1. ch \in Channel
  BY DEF RightBut
<1>2. ch.privileges[x] \cup Ownership \in SUBSET Privileges
  BY <1>1 DEF Channel, Ownership, Privileges
<1>3. acting \in Channel
  BY <1>1, <1>2, Zenon DEF Channel
<1>4. /\ acting.members = ch.members \cup {x} /\ acting.manual = ch.manual /\ acting.service = ch.service
      /\ acting.privileges = [ch.privileges EXCEPT ![x] = @ \cup Ownership]
  BY <1>1 DEF Channel
<1> HIDE DEF acting
<1>5. RightBut(acting, {x})
  BY <1>1, <1>3, <1>4 DEF RightBut, Channel
<1>6. RightBut(after, {x}) /\ after.members = acting.members
  BY <1>5, LineRight
<1> HIDE DEF after
<1>7. after \in Channel
  BY <1>6 DEF RightBut
<1>8. RightBut(EndOverride(after, ch, x), {}) /\ EndOverride(after, ch, x).members = ch.members
  BY <1>4, <1>6, EndOverrideRight, SMT, SMTT(30)
<1> QED BY <1>7, <1>8 DEF after, acting

-----------------------------------------------------------------------------
(* The two tables of memberships together.                                 *)

MembersOf(chs, c) == IF chs[c] = None THEN {} ELSE chs[c].members

(* Channel records may be rewritten, created and removed as long as the    *)
(* member lists stay what they are.                                        *)
LEMMA SameMembers ==
    ASSUME NEW w, NEW conn, Sound(w, conn), NEW chs \in [Channels -> Channel \cup {None}],
           \A c \in Channels : chs[c] # None => RightBut(chs[c], {}),
           \A c \in Channels : MembersOf(chs, c) = MembersOf(w.channel, c)
    PROVE  Sound([channel |-> chs, joined |-> w.joined], conn)
<1> DEFINE v == [channel |-> chs, joined |-> w.joined]
<1>1. v.channel = chs /\ v.joined = w.joined
  OBVIOUS
<1>2. v \in [channel : [Channels -> Channel \cup {None}], joined : [Clients -> SUBSET Channels]]
  BY DEF Sound
<1>3. \A c \in Channels, x \in Clients : c \in w.joined[x] <=> x \in MembersOf(w.channel, c)
  BY DEF Sound, MembersOf
<1>4. \A c \in Channels, x \in Clients : c \in w.joined[x] <=> chs[c] # None /\ x \in chs[c].members
  BY <1>3 DEF MembersOf
<1>5. \A x \in Clients : w.joined[x] # {} => x \in conn
  BY Zenon DEF Sound
<1> HIDE DEF v
<1> QED BY <1>1, <1>2, <1>4, <1>5 DEF Sound, v

LEMMA WorldShape ==
    ASSUME NEW w, NEW conn, Sound(w, conn)
    PROVE  /\ w = [channel |-> w.channel, joined |-> w.joined]
           /\ w.channel \in [Channels -> Channel \cup {None}]
           /\ w.joined \in [Clients -> SUBSET Channels]
           /\ \A c \in Channels : w.channel[c] # None => w.channel[c] \in Channel /\ RightBut(w.channel[c], {})
  BY DEF Sound, RightBut

(* One channel record is replaced by one with the same members.            *)
LEMMA Replace ==
    ASSUME NEW w, NEW conn, Sound(w, conn), NEW c \in Channels,
           NEW n, RightBut(n, {}), n.members = MembersOf(w.channel, c)
    PROVE  /\ Sound([channel |-> [w.channel EXCEPT ![c] = n], joined |-> w.joined], conn)
           /\ Sound([w EXCEPT !.channel[c] = n], conn)
<1> DEFINE chs == [w.channel EXCEPT ![c] = n]
<1>1. n \in Channel /\ n # None
  BY NoneIsNoRecord DEF RightBut
<1>2. chs \in [Channels -> Channel \cup {None}]
  BY <1>1, WorldShape
<1>3. \A d \in Channels : chs[d] # None => RightBut(chs[d], {})
  BY WorldShape
<1>4. \A d \in Channels : MembersOf(chs, d) = MembersOf(w.channel, d)
  BY <1>1, WorldShape, Zenon DEF MembersOf
<1>5. Sound([channel |-> chs, joined |-> w.joined], conn)
  <2> HIDE DEF chs
  <2> QED BY <1>2, <1>3, <1>4, SameMembers
<1>6. [w EXCEPT !.channel[c] = n] = [channel |-> chs, joined |-> w.joined]
  BY WorldShape, SMT, SMTT(30)
<1> QED BY <1>5, <1>6

LEMMA CreateRight == RightBut(channel_create, {}) /\ channel_create.members = {}
<1>1. channel_create \in Channel
  BY RuntimeTypes DEF channel_create, Channel, NoPrivileges
<1> QED BY <1>1, Zenon DEF RightBut, channel_create, NoPrivileges

LEMMA OpenSound ==
    ASSUME NEW w, NEW conn, Sound(w, conn), NEW c \in Channels
    PROVE  LET v == server_get_or_create_channel(w, c)
           IN /\ Sound(v, conn) /\ v.joined = w.joined
              /\ v.channel[c] # None /\ RightBut(v.channel[c], {})
<1>1. CASE w.channel[c] = None
  <2>1. Sound([w EXCEPT !.channel[c] = channel_create], conn)
    BY <1>1, CreateRight, Replace, Zenon DEF MembersOf
  <2>2. server_get_or_create_channel(w, c) = [w EXCEPT !.channel[c] = channel_create]
    BY <1>1 DEF server_get_or_create_channel
  <2>3. [w EXCEPT !.channel[c] = channel_create].channel[c] = channel_create
    BY WorldShape
  <2>4. [w EXCEPT !.channel[c] = channel_create].joined = w.joined
    BY WorldShape
  <2>5. channel_create # None
    BY CreateRight, NoneIsNoRecord DEF RightBut
  <2> QED BY <2>1, <2>2, <2>3, <2>4, <2>5, CreateRight
<1>2. CASE w.channel[c] # None
  BY <1>2, WorldShape, Zenon DEF server_get_or_create_channel
<1> QED BY <1>1, <1>2

LEMMA RemoveIfEmptySound ==
    ASSUME NEW w, NEW conn, Sound(w, conn), NEW c \in Channels, w.channel[c] # None
    PROVE  /\ Sound(server_remove_channel_if_empty(w, c), conn)
           /\ server_remove_channel_if_empty(w, c).joined = w.joined
<1>1. CASE w.channel[c].members = {}
  <2> DEFINE chs == [w.channel EXCEPT ![c] = None]
  <2>1. /\ chs \in [Channels -> Channel \cup {None}]
        /\ \A d \in Channels : chs[d] # None => RightBut(chs[d], {})
    BY WorldShape
  <2>2. \A d \in Channels : MembersOf(chs, d) = MembersOf(w.channel, d)
    BY <1>1, WorldShape, Zenon DEF MembersOf
  <2>3. Sound([channel |-> chs, joined |-> w.joined], conn)
    <3> HIDE DEF chs
    <3> QED BY <2>1, <2>2, SameMembers
  <2>4. [w EXCEPT !.channel[c] = None] = [channel |-> chs, joined |-> w.joined]
    BY WorldShape
  <2> QED BY <1>1, <2>3, <2>4 DEF server_remove_channel_if_empty
<1>2. CASE w.channel[c].members # {}
  BY <1>2 DEF server_remove_channel_if_empty
<1> QED BY <1>1, <1>2

LEMMA EnterRecord ==
    ASSUME NEW ch, RightBut(ch, {}), NEW x \in Clients
    PROVE  LET n == WithMembers(ch, ch.members \cup {x}, x)
           IN RightBut(n, {}) /\ n.members = ch.members \cup {x} /\ n.modes = ch.modes
<1> DEFINE m == [ch EXCEPT !.members = ch.members \cup {x}]
<1>1. ch \in Channel
  BY DEF RightBut
<1>2. m \in Channel
  BY <1>1 DEF Channel
<1>3. /\ m.members = ch.members \cup {x} /\ m.manual = ch.manual /\ m.service = ch.service
      /\ m.privileges = ch.privileges /\ m.modes = ch.modes
  BY <1>1 DEF Channel
<1> HIDE DEF m
<1>4. RightBut(m, {})
  BY <1>2, <1>3 DEF RightBut
<1>5. /\ RightBut(SetPrivileges(m, x, {}, {}), {})
      /\ SetPrivileges(m, x, {}, {}).members = m.members
      /\ SetPrivileges(m, x, {}, {}).modes = m.modes
  BY <1>4, PrivilegesUpdate
<1> QED BY <1>3, <1>5 DEF m, WithMembers

LEMMA LeaveRecord ==
    ASSUME NEW ch, RightBut(ch, {}), NEW x \in Clients
    PROVE  LET n == WithMembers(ch, ch.members \ {x}, x)
           IN RightBut(n, {}) /\ n.members = ch.members \ {x}
<1> DEFINE m == [ch EXCEPT !.members = ch.members \ {x}]
           n == SetPrivileges(m, x, {}, {})
<1>1. ch \in Channel
  BY DEF RightBut
<1>2. m \in Channel
  BY <1>1 DEF Channel
<1>3. /\ m.members = ch.members \ {x} /\ m.manual = ch.manual /\ m.service = ch.service
      /\ m.privileges = ch.privileges
  BY <1>1 DEF Channel
<1> HIDE DEF m
<1>4. n \in Channel
  BY <1>2, Zenon DEF SetPrivileges, Channel
<1>5. /\ n.members = m.members
      /\ n.manual = [m.manual EXCEPT ![x] = {}]
      /\ n.service = [m.service EXCEPT ![x] = {}]
      /\ n.privileges = [m.privileges EXCEPT ![x] = {}]
  BY <1>2 DEF SetPrivileges, Channel
<1> HIDE DEF n
<1>6. RightBut(n, {})
  <2>1. /\ ch.privileges \in [Clients -> SUBSET Privileges] /\ ch.manual \in [Clients -> SUBSET Privileges]
        /\ ch.service \in [Clients -> SUBSET Privileges]
    BY <1>1 DEF Channel
  <2>2. /\ n.privileges = [ch.privileges EXCEPT ![x] = {}] /\ n.manual = [ch.manual EXCEPT ![x] = {}]
        /\ n.service = [ch.service EXCEPT ![x] = {}] /\ n.members = ch.members \ {x}
    BY <1>3, <1>5
  <2>3. ASSUME NEW y \in Clients
        PROVE  /\ n.privileges[y] = n.manual[y] \cup n.service[y]
               /\ y \notin n.members => n.privileges[y] = {}
    <3>1. /\ ch.privileges[y] = ch.manual[y] \cup ch.service[y]
          /\ y \notin ch.members => ch.privileges[y] = {}
      BY DEF RightBut
    <3>2. CASE y = x
      BY <2>1, <2>2, <3>2
    <3>3. CASE y # x
      <4>1. /\ n.privileges[y] = ch.privileges[y] /\ n.manual[y] = ch.manual[y]
            /\ n.service[y] = ch.service[y] /\ (y \in n.members <=> y \in ch.members)
        BY <2>1, <2>2, <3>3
      <4> QED BY <3>1, <4>1
    <3> QED BY <3>2, <3>3
  <2> QED BY <1>4, <2>3 DEF RightBut
<1> QED BY <1>3, <1>5, <1>6 DEF n, m, WithMembers

LEMMA BothTables ==
    ASSUME NEW w \in [channel : [Channels -> Channel \cup {None}], joined : [Clients -> SUBSET Channels]],
           NEW c \in Channels, NEW x \in Clients, NEW n \in Channel \cup {None}, NEW j \in SUBSET Channels
    PROVE  LET v == [w EXCEPT !.channel[c] = n, !.joined[x] = j]
           IN /\ v.channel = [w.channel EXCEPT ![c] = n] /\ v.joined = [w.joined EXCEPT ![x] = j]
              /\ v \in [channel : [Channels -> Channel \cup {None}], joined : [Clients -> SUBSET Channels]]
  BY Zenon

(* A membership begins and ends on both sides at once.                     *)
LEMMA AddSound ==
    ASSUME NEW w, NEW conn, Sound(w, conn), NEW c \in Channels, NEW x \in Clients, x \in conn,
           w.channel[c] # None
    PROVE  LET v == channel_add_client(w, c, x)
           IN /\ Sound(v, conn)
              /\ v.channel[c] # None /\ RightBut(v.channel[c], {})
              /\ x \in v.channel[c].members
<1> DEFINE n == WithMembers(w.channel[c], w.channel[c].members \cup {x}, x)
           chs == [w.channel EXCEPT ![c] = n]
           jnd == [w.joined EXCEPT ![x] = @ \cup {c}]
           v == channel_add_client(w, c, x)
<1>1. RightBut(n, {}) /\ n.members = w.channel[c].members \cup {x}
  BY WorldShape, EnterRecord
<1>2. v = [w EXCEPT !.channel[c] = n, !.joined[x] = w.joined[x] \cup {c}]
  BY DEF channel_add_client
<1> HIDE DEF n, v
<1>3. n \in Channel /\ n # None
  BY <1>1, NoneIsNoRecord DEF RightBut
<1>4. chs[c] = n /\ \A d \in Channels \ {c} : chs[d] = w.channel[d]
  BY WorldShape
<1>5. jnd[x] = w.joined[x] \cup {c} /\ \A y \in Clients \ {x} : jnd[y] = w.joined[y]
  BY WorldShape
<1>6. w.joined[x] \cup {c} \in SUBSET Channels
  BY WorldShape
<1>7. w \in [channel : [Channels -> Channel \cup {None}], joined : [Clients -> SUBSET Channels]]
  BY DEF Sound
<1>8. /\ v.channel = chs /\ v.joined = jnd
      /\ v \in [channel : [Channels -> Channel \cup {None}], joined : [Clients -> SUBSET Channels]]
  BY <1>2, <1>3, <1>6, <1>7, BothTables, Zenon
<1> HIDE DEF chs, jnd
<1>9. \A d \in Channels : chs[d] # None => RightBut(chs[d], {})
  BY <1>1, <1>4, WorldShape, Zenon
<1>10. \A d \in Channels, y \in Clients : d \in jnd[y] <=> chs[d] # None /\ y \in chs[d].members
  BY <1>1, <1>3, <1>4, <1>5 DEF Sound
<1>11. \A y \in Clients : jnd[y] # {} => y \in conn
  BY <1>5, Zenon DEF Sound
<1>12. Sound(v, conn)
  BY <1>8, <1>9, <1>10, <1>11, Zenon DEF Sound
<1> QED BY <1>1, <1>3, <1>4, <1>8, <1>12 DEF v

LEMMA RemoveSound ==
    ASSUME NEW w, NEW conn, Sound(w, conn), NEW c \in Channels, NEW x \in Clients,
           w.channel[c] # None
    PROVE  LET v == channel_remove_client(w, c, x)
           IN Sound(v, conn) /\ v.channel[c] # None /\ v.joined = [w.joined EXCEPT ![x] = @ \ {c}]
<1> DEFINE n == WithMembers(w.channel[c], w.channel[c].members \ {x}, x)
           chs == [w.channel EXCEPT ![c] = n]
           jnd == [w.joined EXCEPT ![x] = @ \ {c}]
           v == channel_remove_client(w, c, x)
<1>1. RightBut(n, {}) /\ n.members = w.channel[c].members \ {x}
  BY WorldShape, LeaveRecord
<1>2. v = [w EXCEPT !.channel[c] = n, !.joined[x] = w.joined[x] \ {c}]
  BY DEF channel_remove_client
<1> HIDE DEF n, v
<1>3. n \in Channel /\ n # None
  BY <1>1, NoneIsNoRecord DEF RightBut
<1>4. chs[c] = n /\ \A d \in Channels \ {c} : chs[d] = w.channel[d]
  BY WorldShape
<1>5. jnd[x] = w.joined[x] \ {c} /\ \A y \in Clients \ {x} : jnd[y] = w.joined[y]
  BY WorldShape
<1>6. w.joined[x] \ {c} \in SUBSET Channels
  BY WorldShape
<1>7. w \in [channel : [Channels -> Channel \cup {None}], joined : [Clients -> SUBSET Channels]]
  BY Zenon DEF Sound
<1>8. /\ v.channel = chs /\ v.joined = jnd
      /\ v \in [channel : [Channels -> Channel \cup {None}], joined : [Clients -> SUBSET Channels]]
  BY <1>2, <1>3, <1>6, <1>7, BothTables, Zenon
<1> HIDE DEF chs, jnd
<1>9. \A d \in Channels : chs[d] # None => RightBut(chs[d], {})
  BY <1>1, <1>4, WorldShape, Zenon
<1>10. \A d \in Channels, y \in Clients : d \in jnd[y] <=> chs[d] # None /\ y \in chs[d].members
  BY <1>1, <1>3, <1>4, <1>5 DEF Sound
<1>11. \A y \in Clients : jnd[y] # {} => y \in conn
  BY <1>5, Zenon DEF Sound
<1>12. Sound(v, conn)
  BY <1>8, <1>9, <1>10, <1>11, Zenon DEF Sound
<1> QED BY <1>3, <1>4, <1>8, <1>12 DEF v, jnd

LEMMA LeaveSound ==
    ASSUME NEW w, NEW conn, Sound(w, conn), NEW c \in Channels, NEW x \in Clients,
           w.channel[c] # None
    PROVE  Sound(Leave(w, c, x), conn) /\ Leave(w, c, x).joined = [w.joined EXCEPT ![x] = @ \ {c}]
  BY RemoveSound, RemoveIfEmptySound, SMT, SMTT(30) DEF Leave

-----------------------------------------------------------------------------
(* JOIN and SAJOIN.                                                        *)

LEMMA RestoredRight ==
    ASSUME TablesOK, NEW c \in Channels, NEW ch, RightBut(ch, {}), NEW e
    PROVE  /\ RightBut(RestoredForJoin(ch, c, e), {})
           /\ RestoredForJoin(ch, c, e).members = ch.members
<1> DEFINE r == chanserv_restore_channel(ch, registration[c], stored[c], e)
           rt == chanserv_persist_restore(r.runtime, stored[c], e)
<1>1. registration[c] \in RegistrationRow \cup {None} /\ stored[c] \in Runtime
  BY DEF TablesOK
<1>2. RightBut(r, {}) /\ r.members = ch.members
  BY <1>1, RefreshRight DEF chanserv_restore_channel
<1> HIDE DEF r
<1>3. r.runtime \in Runtime
  BY <1>2 DEF RightBut, Channel
<1>4. rt \in Runtime
  BY <1>1, <1>3, RuntimeTypes
<1>5. RightBut([r EXCEPT !.runtime = rt], {}) /\ [r EXCEPT !.runtime = rt].members = r.members
  <2> HIDE DEF rt
  <2> QED BY <1>2, <1>4, RuntimeUpdate
<1>6. RestoredForJoin(ch, c, e) = IF "r" \in r.modes THEN [r EXCEPT !.runtime = rt] ELSE r
  BY DEF RestoredForJoin, r
<1> QED BY <1>2, <1>5, <1>6

LEMMA OwnershipRight ==
    ASSUME NEW ch, RightBut(ch, {}), NEW x \in Clients, x \in ch.members
    PROVE  /\ RightBut(channel_add_privileges(ch, x, Ownership), {})
           /\ channel_add_privileges(ch, x, Ownership).members = ch.members
<1>1. ch.manual[x] \cup Ownership \in SUBSET Privileges /\ ch.service[x] \in SUBSET Privileges
  BY DEF RightBut, Channel, Ownership, Privileges
<1> QED BY <1>1, PrivilegesUpdate DEF channel_add_privileges

LEMMA AdmitSound ==
    ASSUME TablesOK, NEW w, NEW conn, Sound(w, conn), NEW c \in Channels, NEW x \in Clients, x \in conn,
           w.channel[c] # None, NEW e
    PROVE  Sound(Admit(w, c, x, e), conn)
<1> DEFINE added == channel_add_client(w, c, x)
           old == added.channel[c]
           ch == channel_invite_consume(old, x)
           synced == SyncMembers(ch, registration[c], access[c], account, Clients, e)
           owned == channel_add_privileges(ch, x, Ownership)
<1>1. Sound(added, conn) /\ old # None /\ RightBut(old, {}) /\ x \in old.members
  BY AddSound
<1> HIDE DEF added
<1>2. ch \in Channel
  BY <1>1, Zenon DEF RightBut, Channel, channel_invite_consume
<1>3. /\ ch.members = old.members /\ ch.manual = old.manual /\ ch.service = old.service
      /\ ch.privileges = old.privileges
  BY <1>1 DEF RightBut, Channel, channel_invite_consume
<1> HIDE DEF ch, old
<1>4. RightBut(ch, {}) /\ x \in ch.members
  BY <1>1, <1>2, <1>3, PolicyUpdate, Zenon
<1>5. RightBut(synced, {}) /\ synced.members = ch.members
  <2>1. /\ registration[c] \in RegistrationRow \cup {None}
        /\ access[c] \in [Accounts -> Levels \cup {None}]
        /\ account \in [Clients -> Accounts \cup {None}]
    BY DEF TablesOK
  <2>2. Keeps(synced, ch)
    BY <1>4, <2>1, SyncKeeps, ZenonT(30)
  <2> QED BY <2>2 DEF Keeps
<1>6. RightBut(owned, {}) /\ owned.members = ch.members
  BY <1>4, OwnershipRight
<1> HIDE DEF synced, owned
<1>7. MembersOf(added.channel, c) = ch.members
  BY <1>1, <1>3 DEF MembersOf, old
<1>8. PICK n \in {synced, owned, ch} : Admit(w, c, x, e) = [added EXCEPT !.channel[c] = n]
  <2> DEFINE first == w.channel[c].members = {}
             entered == IF "r" \in ch.modes THEN synced ELSE IF first THEN owned ELSE ch
  <2>1. Admit(w, c, x, e) = [added EXCEPT !.channel[c] = entered]
    BY DEF Admit, added, old, ch, synced, owned
  <2>2. entered \in {synced, owned, ch}
    OBVIOUS
  <2> QED BY <2>1, <2>2
<1>9. RightBut(n, {}) /\ n.members = MembersOf(added.channel, c)
  BY <1>4, <1>5, <1>6, <1>7
<1>10. Sound([added EXCEPT !.channel[c] = n], conn)
  BY <1>1, <1>9, Replace, Zenon
<1> QED BY <1>8, <1>10, Zenon

LEMMA SajoinSound ==
    ASSUME TablesOK, NEW w, NEW conn, Sound(w, conn), NEW c \in Channels, NEW y \in Clients, y \in conn,
           w.channel[c] # None, NEW e
    PROVE  Sound(SajoinAdmit(w, c, y, e), conn)
<1> DEFINE added == channel_add_client(w, c, y)
           ch == added.channel[c]
           service == chanserv_client_privileges(ch, registration[c], access[c], account[y], e)
           granted == channel_set_service_privileges(ch, y, service)
           owned == channel_add_privileges(ch, y, Ownership)
<1>1. Sound(added, conn) /\ ch # None /\ RightBut(ch, {}) /\ y \in ch.members
  BY AddSound
<1> HIDE DEF added, ch
<1>2. ch \in Channel /\ ch.manual[y] \in SUBSET Privileges
  BY <1>1 DEF RightBut, Channel
<1>3. service \in SUBSET Privileges
  BY <1>2, ServiceType, Zenon DEF TablesOK
<1> HIDE DEF service
<1>4. RightBut(granted, {}) /\ granted.members = ch.members
  BY <1>1, <1>2, <1>3, PrivilegesUpdate DEF channel_set_service_privileges
<1>5. RightBut(owned, {}) /\ owned.members = ch.members
  BY <1>1, OwnershipRight
<1> HIDE DEF granted, owned
<1>6. MembersOf(added.channel, c) = ch.members
  BY <1>1 DEF MembersOf, ch
<1>7. PICK n \in {granted, owned, ch} : SajoinAdmit(w, c, y, e) = [added EXCEPT !.channel[c] = n]
  <2> DEFINE first == w.channel[c].members = {}
             entered == IF "r" \in ch.modes THEN granted ELSE IF first THEN owned ELSE ch
  <2>1. SajoinAdmit(w, c, y, e) = [added EXCEPT !.channel[c] = entered]
    BY DEF SajoinAdmit, added, ch, service, granted, owned
  <2>2. entered \in {granted, owned, ch}
    OBVIOUS
  <2> QED BY <2>1, <2>2
<1>8. RightBut(n, {}) /\ n.members = MembersOf(added.channel, c)
  BY <1>1, <1>4, <1>5, <1>6
<1>9. Sound([added EXCEPT !.channel[c] = n], conn)
  BY <1>1, <1>8, Replace, Zenon
<1> QED BY <1>7, <1>9, SMT, SMTT(30)

(* One level of a JOIN keeps both tables right, and sends the client to a  *)
(* channel or nowhere.                                                     *)
LEMMA JoinOneSound ==
    ASSUME TablesOK, NEW w, NEW conn, Sound(w, conn), NEW c \in Channels, NEW x \in Clients, x \in conn,
           NEW key, NEW e
    PROVE  /\ Sound(join_one(w, c, x, key, e).world, conn)
           /\ join_one(w, c, x, key, e).next \in Channels \cup {None}
<1> DEFINE opened == server_get_or_create_channel(w, c)
           ch == RestoredForJoin(opened.channel[c], c, e)
           ready == [opened EXCEPT !.channel[c] = ch]
<1>1. Sound(opened, conn) /\ opened.channel[c] # None /\ RightBut(opened.channel[c], {})
  BY OpenSound
<1> HIDE DEF opened
<1>2. RightBut(ch, {}) /\ ch.members = opened.channel[c].members
  BY <1>1, RestoredRight
<1> HIDE DEF ch
<1>3. Sound(ready, conn)
  BY <1>1, <1>2, Replace, Zenon DEF MembersOf
<1>4. ready.channel[c] = ch /\ ch # None
  BY <1>1, <1>2, WorldShape, NoneIsNoRecord DEF RightBut
<1> HIDE DEF ready
<1>5. Sound(server_remove_channel_if_empty(ready, c), conn)
  BY <1>3, <1>4, RemoveIfEmptySound
<1>6. Sound(Admit(ready, c, x, e), conn)
  BY <1>3, <1>4, AdmitSound, Zenon
<1>7. ch.runtime.ban_redirect \in Channels \cup {None} /\ ch.runtime.limit_redirect \in Channels \cup {None}
  BY <1>2 DEF RightBut, Channel, Runtime
<1>8. /\ join_one(w, c, x, key, e).world \in
             {w, ready, server_remove_channel_if_empty(ready, c), Admit(ready, c, x, e)}
      /\ join_one(w, c, x, key, e).next \in {None, ch.runtime.ban_redirect, ch.runtime.limit_redirect}
  BY DEF join_one, opened, ch, ready
<1> QED BY <1>3, <1>5, <1>6, <1>7, <1>8

LEMMA ChainSound ==
    ASSUME TablesOK, NEW conn, Sound(World, conn), NEW c \in Channels, NEW x \in Clients, x \in conn,
           NEW key, NEW e
    PROVE  Sound(JoinChain(c, x, key, e), conn)
<1> DEFINE OK(r) == Sound(r.world, conn) /\ r.next \in Channels \cup {None}
           r0 == join_one(World, c, x, key, e)
           r1 == FollowRedirect(r0, x, e)
           r2 == FollowRedirect(r1, x, e)
           r3 == FollowRedirect(r2, x, e)
           r4 == FollowRedirect(r3, x, e)
<1>1. ASSUME NEW r, OK(r) PROVE OK(FollowRedirect(r, x, e))
  BY <1>1, JoinOneSound DEF FollowRedirect
<1>2. OK(r0)
  BY JoinOneSound
<1> HIDE DEF OK, r0
<1>3. OK(r4)
  BY <1>1, <1>2
<1> QED BY <1>3, SMT, SMTT(30) DEF OK, JoinChain, r0

-----------------------------------------------------------------------------
(* Steps.                                                                  *)

LEMMA Primed ==
    ASSUME Sound([channel |-> channel', joined |-> joined'], connected'), TablesOK'
    PROVE  IInv'
  BY DEF IInv, World

(* Handlers that move memberships and write no table.                      *)
LEMMA WorldStep ==
    ASSUME IInv, NEW w, Sound(w, connected), SetWorld(w), UNCHANGED <<fresh, connected, account, db_vars>>
    PROVE  IInv'
<1>1. w = [channel |-> channel', joined |-> joined'] /\ connected' = connected
  BY WorldShape DEF SetWorld
<1>2. TablesOK'
  BY ZenonT(40) DEF IInv, TablesOK, db_vars
<1> QED BY <1>1, <1>2, Primed

(* Channel tables with the members the channels have now.                  *)
ChannelsOK(chs) ==
    /\ chs \in [Channels -> Channel \cup {None}]
    /\ \A c \in Channels : chs[c] # None => RightBut(chs[c], {})
    /\ \A c \in Channels : MembersOf(chs, c) = MembersOf(channel, c)

LEMMA ChannelsNow ==
    ASSUME IInv
    PROVE  /\ ChannelsOK(channel)
           /\ joined \in [Clients -> SUBSET Channels]
           /\ \A c \in Channels, x \in Clients : c \in joined[x] => channel[c] # None
           /\ \A c \in Channels : channel[c] # None => RightBut(channel[c], {})
           /\ \A c \in Channels : channel[c] # None => channel[c] \in Channel
<1>1. World.channel = channel /\ World.joined = joined
  BY DEF World
<1> QED BY <1>1 DEF IInv, Sound, ChannelsOK, RightBut

LEMMA ChannelsStep ==
    ASSUME IInv, ChannelsOK(channel'), joined' = joined, connected' = connected, TablesOK'
    PROVE  IInv'
<1>1. World.channel = channel /\ World.joined = joined
  BY DEF World
<1>2. Sound([channel |-> channel', joined |-> joined], connected)
  BY <1>1, SameMembers, Zenon DEF IInv, ChannelsOK
<1> QED BY <1>2, Primed

(* One live channel's record is rewritten.                                 *)
LEMMA OneChannel ==
    ASSUME IInv, NEW c \in Channels, NEW n,
           IF channel[c] = None THEN n = None ELSE RightBut(n, {}) /\ n.members = channel[c].members
    PROVE  ChannelsOK([channel EXCEPT ![c] = n])
<1>1. ChannelsOK(channel)
  BY ChannelsNow
<1>2. channel[c] # None => n \in Channel /\ n # None
  BY NoneIsNoRecord, Zenon DEF RightBut
<1> QED BY <1>1, <1>2, SMT, SMTT(30) DEF ChannelsOK, MembersOf

LEMMA SyncClientsOK ==
    ASSUME IInv, NEW who \in [Clients -> Accounts \cup {None}], NEW set \in SUBSET Clients, NEW e
    PROVE  ChannelsOK(SyncClients(channel, who, set, e))
<1> DEFINE chs == SyncClients(channel, who, set, e)
           S(c) == SyncMembers(channel[c], registration[c], access[c], who, {x \in set : c \in joined[x]}, e)
<1>1. \A c \in Channels : chs[c] = IF \E x \in set : c \in joined[x] THEN S(c) ELSE channel[c]
  BY DEF SyncClients
<1>2. chs = [c \in Channels |-> chs[c]]
  BY ZenonT(40) DEF SyncClients
<1>3. ASSUME NEW c \in Channels, channel[c] # None
      PROVE  RightBut(S(c), {}) /\ S(c).members = channel[c].members
  <2>1. /\ registration[c] \in RegistrationRow \cup {None}
        /\ access[c] \in [Accounts -> Levels \cup {None}]
    BY DEF IInv, TablesOK
  <2>2. RightBut(channel[c], {})
    BY <1>3, ChannelsNow
  <2>3. Keeps(S(c), channel[c])
    BY <2>1, <2>2, SyncKeeps, ZenonT(30)
  <2> QED BY <2>3 DEF Keeps
<1>4. \A c \in Channels : (\E x \in set : c \in joined[x]) => channel[c] # None
  BY ChannelsNow, Zenon
<1> HIDE DEF chs, S
<1>5. \A c \in Channels : IF channel[c] = None THEN chs[c] = None
                          ELSE /\ RightBut(chs[c], {}) /\ chs[c].members = channel[c].members
  BY <1>1, <1>3, <1>4, ChannelsNow, Zenon
<1>6. \A c \in Channels : channel[c] # None => chs[c] \in Channel /\ chs[c] # None
  BY <1>5, NoneIsNoRecord DEF RightBut
<1>7. chs \in [Channels -> Channel \cup {None}]
  BY <1>2, <1>5, <1>6
<1> QED BY <1>5, <1>6, <1>7, Zenon DEF ChannelsOK, MembersOf, chs

LEMMA RefreshEach ==
    ASSUME NEW chs, NEW c \in Channels, RightBut(chs[c], {}),
           NEW regs \in [Channels -> RegistrationRow \cup {None}],
           NEW accs \in [Channels -> [Accounts -> Levels \cup {None}]], NEW sts \in [Channels -> Runtime],
           NEW who \in [Clients -> Accounts \cup {None}], NEW e
    PROVE  Keeps(Refresh(chs[c], regs[c], accs[c], sts[c], who, e), chs[c])
<1>1. /\ regs[c] \in RegistrationRow \cup {None} /\ accs[c] \in [Accounts -> Levels \cup {None}]
      /\ sts[c] \in Runtime
  BY Zenon
<1> QED BY <1>1, RefreshedRight, Zenon

LEMMA RefreshAllOK ==
    ASSUME TablesOK, NEW chs, ChannelsOK(chs), NEW set, NEW regs \in [Channels -> RegistrationRow \cup {None}],
           NEW accs \in [Channels -> [Accounts -> Levels \cup {None}]],
           NEW who \in [Clients -> Accounts \cup {None}], NEW e
    PROVE  ChannelsOK(RefreshAll(chs, set, regs, accs, who, e))
<1> DEFINE new == RefreshAll(chs, set, regs, accs, who, e)
           R(c) == Refresh(chs[c], regs[c], accs[c], stored[c], who, e)
<1>1. \A c \in Channels : new[c] = IF c \in set THEN R(c) ELSE chs[c]
  BY Zenon DEF RefreshAll
<1>2. new = [c \in Channels |-> new[c]]
  BY ZenonT(40) DEF RefreshAll
<1>3. ASSUME NEW c \in Channels
      PROVE  IF chs[c] = None THEN R(c) = None
             ELSE RightBut(R(c), {}) /\ R(c).members = chs[c].members
  <2>1. stored \in [Channels -> Runtime]
    BY DEF TablesOK
  <2>2. chs[c] # None => RightBut(chs[c], {})
    BY Zenon DEF ChannelsOK
  <2>3. CASE chs[c] = None
    BY <2>3, ZenonT(40) DEF Refresh
  <2>4. CASE chs[c] # None
    <3>1. Keeps(R(c), chs[c])
      BY <2>1, <2>2, <2>4, RefreshEach, Zenon
    <3> QED BY <2>4, <3>1 DEF Keeps
  <2> QED BY <2>3, <2>4
<1> HIDE DEF new, R
<1>4. \A c \in Channels : IF chs[c] = None THEN new[c] = None
                          ELSE /\ RightBut(new[c], {}) /\ new[c].members = chs[c].members
  BY <1>1, <1>3, Zenon DEF ChannelsOK
<1>5. \A c \in Channels : chs[c] # None => new[c] \in Channel /\ new[c] # None
  <2> TAKE c \in Channels
  <2> HAVE chs[c] # None
  <2>1. RightBut(new[c], {})
    BY <1>4
  <2> QED BY <2>1, NoneIsNoRecord, Zenon DEF RightBut
<1>6. new \in [Channels -> Channel \cup {None}]
  BY <1>2, <1>4, <1>5, Zenon
<1>7. \A c \in Channels : MembersOf(new, c) = MembersOf(chs, c)
  BY <1>4, <1>5 DEF MembersOf
<1> QED BY <1>4, <1>6, <1>7, Zenon DEF ChannelsOK, new

LEMMA JoinKeeps ==
    ASSUME IInv, NEW x \in Clients, NEW c \in Channels, NEW key, NEW e, command_join(x, c, key, e)
    PROVE  IInv'
<1>1. TablesOK /\ Sound(World, connected) /\ x \in connected
  BY DEF IInv, command_join
<1>2. Sound(JoinChain(c, x, key, e), connected)
  BY <1>1, ChainSound
<1> QED BY <1>2, WorldStep DEF command_join

LEMMA LeavingKeeps ==
    ASSUME IInv, NEW x \in Clients, NEW y \in Clients, NEW c \in Channels,
           \/ command_part(x, c) /\ y = x
           \/ command_kick(x, c, y)
           \/ command_sapart(x, c, y)
    PROVE  IInv'
<1>1. Sound(World, connected) /\ World.channel = channel
  BY ZenonT(40) DEF IInv, World
<1>2. /\ channel[c] # None /\ SetWorld(Leave(World, c, y))
      /\ UNCHANGED <<fresh, connected, account, db_vars>>
  BY DEF command_part, command_kick, command_sapart
<1>3. Sound(Leave(World, c, y), connected)
  BY <1>1, <1>2, LeaveSound, Zenon
<1> QED BY <1>2, <1>3, WorldStep

LEMMA SajoinKeeps ==
    ASSUME IInv, NEW x \in Clients, NEW y \in Clients, NEW c \in Channels, NEW e, command_sajoin(x, c, y, e)
    PROVE  IInv'
<1> DEFINE opened == server_get_or_create_channel(World, c)
           w == IF "alloc" \in e THEN opened ELSE SajoinAdmit(opened, c, y, e)
<1>1. TablesOK /\ Sound(World, connected) /\ y \in connected
  BY DEF IInv, command_sajoin
<1>2. Sound(opened, connected) /\ opened.channel[c] # None
  BY <1>1, OpenSound
<1>3. Sound(SajoinAdmit(opened, c, y, e), connected)
  <2> HIDE DEF opened
  <2> QED BY <1>1, <1>2, SajoinSound
<1>4. Sound(w, connected)
  <2> HIDE DEF opened
  <2> QED BY <1>2, <1>3, Zenon
<1>5. SetWorld(w) /\ UNCHANGED <<fresh, connected, account, db_vars>>
  BY DEF command_sajoin
<1> HIDE DEF w
<1> QED BY <1>4, <1>5, WorldStep, ZenonT(40)

LEMMA InviteKeeps ==
    ASSUME IInv, NEW x \in Clients, NEW y \in Clients, NEW c \in Channels, command_invite(x, c, y)
    PROVE  IInv'
<1> DEFINE ch == channel[c]
           n == [ch EXCEPT !.invites = @ \cup {y}]
<1>1. ch # None /\ channel' = [channel EXCEPT ![c] = n]
  BY DEF command_invite
<1>2. ch \in Channel /\ RightBut(ch, {})
  BY <1>1, ChannelsNow
<1>3. n \in Channel
  BY <1>2 DEF Channel
<1>4. /\ n.members = ch.members /\ n.manual = ch.manual /\ n.service = ch.service
      /\ n.privileges = ch.privileges
  BY <1>2 DEF Channel
<1> HIDE DEF n
<1>5. RightBut(n, {})
  BY <1>2, <1>3, <1>4, PolicyUpdate
<1>6. ChannelsOK(channel')
  BY <1>1, <1>4, <1>5, OneChannel, Zenon
<1>7. TablesOK' /\ joined' = joined /\ connected' = connected
  BY DEF IInv, TablesOK, command_invite, db_vars
<1> QED BY <1>6, <1>7, ChannelsStep

LEMMA PersistType ==
    ASSUME NEW ch \in Channel, NEW st \in Runtime, NEW e
    PROVE  chanserv_persist_channel(ch, st, e) \in Runtime
  BY DEF chanserv_persist_channel, Channel

(* MODE and SAMODE write the channel and its row.                          *)
LEMMA SavedKeeps ==
    ASSUME IInv, NEW c \in Channels, NEW n, RightBut(n, {}), channel[c] # None, n.members = channel[c].members,
           NEW st \in Runtime, channel' = [channel EXCEPT ![c] = n], stored' = [stored EXCEPT ![c] = st],
           registration' \in [Channels -> RegistrationRow \cup {None}],
           UNCHANGED <<fresh, connected, account, joined, access, accounts>>
    PROVE  IInv'
<1>1. ChannelsOK(channel')
  BY OneChannel, Zenon
<1>2. TablesOK'
  BY Zenon DEF IInv, TablesOK
<1> QED BY <1>1, <1>2, ChannelsStep

LEMMA ModeKeeps ==
    ASSUME IInv, NEW x \in Clients, NEW c \in Channels, NEW line \in ModeLines, NEW e, command_mode(x, c, line, e)
    PROVE  IInv'
<1> DEFINE after == mode_channel(channel[c], c, x, line, e)
           st == chanserv_persist_channel(after, stored[c], e)
<1>1. channel[c] # None /\ RightBut(channel[c], {}) /\ stored[c] \in Runtime
  BY ChannelsNow, ZenonT(40) DEF command_mode, IInv, TablesOK
<1>2. RightBut(after, {}) /\ after.members = channel[c].members
  <2>1. Keeps(mode_channel(channel[c], c, x, line, e), channel[c])
    BY <1>1, LineKeeps, ZenonT(30)
  <2> QED BY <2>1 DEF Keeps
<1>3. /\ channel' = [channel EXCEPT ![c] = after] /\ stored' = [stored EXCEPT ![c] = st]
      /\ UNCHANGED <<fresh, connected, account, joined, registration, access, accounts>>
  BY Zenon DEF command_mode
<1> HIDE DEF after
<1>4. st \in Runtime
  BY <1>1, <1>2, PersistType, Zenon DEF RightBut
<1> HIDE DEF st
<1>5. registration' \in [Channels -> RegistrationRow \cup {None}]
  BY <1>3 DEF IInv, TablesOK
<1> QED BY <1>1, <1>2, <1>3, <1>4, <1>5, SavedKeeps, ZenonT(40)

LEMMA SamodeKeeps ==
    ASSUME IInv, NEW x \in Clients, NEW c \in Channels, NEW line \in ModeLines, NEW e, command_samode(x, c, line, e)
    PROVE  IInv'
<1> DEFINE ch == channel[c]
           acting == [ch EXCEPT !.members = @ \cup {x}, !.privileges[x] = @ \cup Ownership]
           after == mode_channel(acting, c, x, line, e)
           n == EndOverride(after, ch, x)
           st == chanserv_persist_channel(after, stored[c], e)
<1>1. ch # None /\ RightBut(ch, {}) /\ stored[c] \in Runtime
  BY ChannelsNow DEF command_samode, IInv, TablesOK
<1>2. after \in Channel /\ RightBut(n, {}) /\ n.members = ch.members
  <2> HIDE DEF ch
  <2> QED BY <1>1, OverrideRight, ZenonT(30)
<1>3. /\ channel' = [channel EXCEPT ![c] = n] /\ stored' = [stored EXCEPT ![c] = st]
      /\ UNCHANGED <<fresh, connected, account, joined, registration, access, accounts>>
  BY DEF command_samode
<1> HIDE DEF after, n
<1>4. st \in Runtime
  BY <1>1, <1>2, PersistType, Zenon
<1> HIDE DEF st
<1>5. registration' \in [Channels -> RegistrationRow \cup {None}]
  BY <1>3 DEF IInv, TablesOK
<1> QED BY <1>1, <1>2, <1>3, <1>4, <1>5, SavedKeeps, Zenon

LEMMA RegisterKeeps ==
    ASSUME IInv, NEW x \in Clients, NEW c \in Channels, NEW e, command_register(x, c, e)
    PROVE  IInv'
<1> DEFINE ch == channel[c]
           registered == [ch EXCEPT !.loaded = TRUE, !.valid = TRUE, !.founder = account[x],
                                    !.mode_lock = {}, !.modes = @ \cup {"r"}]
           after == channel_set_service_privileges(registered, x, Ownership)
           st == chanserv_persist_channel(after, stored[c], e)
           row == [founder |-> account[x], enabled |-> TRUE, mode_lock |-> {}, secure_ops |-> FALSE,
                   successor |-> None]
<1>1. ch # None /\ x \in ch.members /\ account[x] # None
  BY DEF command_register
<1>2. /\ channel' = [channel EXCEPT ![c] = after] /\ stored' = [stored EXCEPT ![c] = st]
      /\ registration' = [registration EXCEPT ![c] = row]
      /\ UNCHANGED <<fresh, connected, account, joined, access, accounts>>
  BY DEF command_register
<1>3. account[x] \in Accounts /\ stored[c] \in Runtime
  BY <1>1, Zenon DEF IInv, TablesOK
<1>4. ch \in Channel /\ RightBut(ch, {})
  BY <1>1, ChannelsNow
<1>5. registered \in Channel
  BY <1>3, <1>4, Zenon DEF Channel
<1>6. /\ registered.members = ch.members /\ registered.manual = ch.manual
      /\ registered.service = ch.service /\ registered.privileges = ch.privileges
  BY <1>4 DEF Channel
<1> HIDE DEF registered, ch
<1>7. RightBut(registered, {})
  BY <1>4, <1>5, <1>6, PolicyUpdate, Zenon
<1>8. RightBut(after, {}) /\ after.members = registered.members
  <2>1. registered.manual[x] \in SUBSET Privileges /\ Ownership \in SUBSET Privileges
    BY <1>5, Zenon DEF Channel, Ownership, Privileges
  <2> QED BY <1>1, <1>6, <1>7, <2>1, PrivilegesUpdate, ZenonT(40) DEF channel_set_service_privileges
<1> HIDE DEF after
<1>9. st \in Runtime
  BY <1>3, <1>8, PersistType, Zenon DEF RightBut
<1>10. row \in RegistrationRow
  BY <1>3 DEF RegistrationRow
<1> HIDE DEF st, row
<1>11. registration' \in [Channels -> RegistrationRow \cup {None}]
  BY <1>2, <1>10, Zenon DEF IInv, TablesOK
<1> QED BY <1>1, <1>2, <1>6, <1>8, <1>9, <1>11, SavedKeeps, Zenon DEF ch

(* Sessions.                                                               *)
LEMMA ConnectKeeps ==
    ASSUME IInv, NEW x \in Clients, NEW a \in Accounts \cup {None}, Connect(x, a)
    PROVE  IInv'
<1>1. Sound([channel |-> channel', joined |-> joined'], connected')
  BY Zenon DEF IInv, Connect, World, Sound
<1>2. TablesOK'
  BY DEF IInv, TablesOK, Connect, db_vars
<1> QED BY <1>1, <1>2, Primed, Zenon

LEMMA DisconnectKeeps ==
    ASSUME IInv, NEW x \in Clients, server_disconnect(x)
    PROVE  IInv'
<1> DEFINE v(c) == Leave(World, c, x)
           new == [channel |-> channel', joined |-> joined']
<1>1. Sound(World, connected) /\ World.channel = channel /\ World.joined = joined
  BY Zenon DEF IInv, World
<1>2. /\ channel \in [Channels -> Channel \cup {None}] /\ joined \in [Clients -> SUBSET Channels]
      /\ \A c \in Channels, y \in Clients : c \in joined[y] <=> channel[c] # None /\ y \in channel[c].members
      /\ \A y \in Clients : joined[y] # {} => y \in connected
      /\ \A c \in Channels : channel[c] # None => RightBut(channel[c], {})
  BY <1>1, Zenon DEF Sound
<1>3. ASSUME NEW c \in joined[x]
      PROVE  Sound(v(c), connected) /\ v(c).joined = [joined EXCEPT ![x] = @ \ {c}]
  <2>1. World.channel[c] # None
    BY <1>1, <1>2, <1>3, Zenon
  <2>2. c \in Channels
    BY <1>2, <1>3, ZenonT(40)
  <2>3. Sound(v(c), connected) /\ v(c).joined = [World.joined EXCEPT ![x] = @ \ {c}]
    BY <1>1, <2>1, <2>2, LeaveSound
  <2> QED BY <1>1, <2>3, Zenon
<1> HIDE DEF v
<1>4. ASSUME NEW c \in joined[x]
      PROVE  /\ v(c).channel[c] \in Channel \cup {None}
             /\ v(c).channel[c] # None => RightBut(v(c).channel[c], {})
             /\ \A y \in Clients : c \in v(c).joined[y] <=> v(c).channel[c] # None /\ y \in v(c).channel[c].members
  BY <1>2, <1>3, Zenon DEF Sound
<1>5. /\ channel' = [c \in Channels |-> IF c \in joined[x] THEN v(c).channel[c] ELSE channel[c]]
      /\ joined' = [joined EXCEPT ![x] = {}] /\ connected' = connected \ {x}
  BY Zenon DEF server_disconnect, v
<1>6. channel' \in [Channels -> Channel \cup {None}] /\ joined' \in [Clients -> SUBSET Channels]
  BY <1>2, <1>4, <1>5, ZenonT(40)
<1>7. \A c \in Channels : channel'[c] # None => RightBut(channel'[c], {})
  BY <1>2, <1>4, <1>5
<1>8. ASSUME NEW c \in Channels, NEW y \in Clients
      PROVE  c \in joined'[y] <=> channel'[c] # None /\ y \in channel'[c].members
  <2>1. CASE c \in joined[x]
    <3>1. c \in v(c).joined[y] <=> c \in joined'[y]
      <4>1. v(c).joined = [joined EXCEPT ![x] = @ \ {c}]
        BY <1>3, <2>1, Zenon
      <4>2. joined' = [joined EXCEPT ![x] = {}] /\ joined \in [Clients -> SUBSET Channels]
        BY <1>2, <1>5, Zenon
      <4> QED BY <4>1, <4>2, Zenon
    <3>2. channel'[c] = v(c).channel[c]
      BY <1>5, <2>1, Zenon
    <3> QED BY <1>4, <2>1, <3>1, <3>2, Zenon
  <2>2. CASE c \notin joined[x]
    <3>1. channel'[c] = channel[c] /\ (c \in joined'[y] <=> c \in joined[y])
      BY <1>2, <1>5, <2>2, ZenonT(40)
    <3> QED BY <1>2, <3>1, Zenon
  <2> QED BY <2>1, <2>2, Zenon
<1>9. \A y \in Clients : joined'[y] # {} => y \in connected'
  BY <1>2, <1>5
<1>10. new.channel = channel' /\ new.joined = joined'
  OBVIOUS
<1>11. new \in [channel : [Channels -> Channel \cup {None}], joined : [Clients -> SUBSET Channels]]
  BY <1>6, Zenon
<1> HIDE DEF new
<1>12. Sound(new, connected')
  BY <1>7, <1>8, <1>9, <1>10, <1>11, ZenonT(40) DEF Sound
<1>13. TablesOK'
  BY DEF IInv, TablesOK, server_disconnect, db_vars
<1> QED BY <1>12, <1>13, Primed DEF new

LEMMA LoginKeeps ==
    ASSUME IInv, NEW x \in Clients, NEW a \in Accounts \cup {None}, NEW e,
           account' = [account EXCEPT ![x] = a], channel' = SyncClients(channel, [account EXCEPT ![x] = a], {x}, e),
           accounts' \in [Accounts -> {"enabled", "disabled", "absent"}],
           UNCHANGED <<fresh, connected, joined, registration, access, stored>>
    PROVE  IInv'
<1>1. [account EXCEPT ![x] = a] \in [Clients -> Accounts \cup {None}]
  BY DEF IInv, TablesOK
<1>2. {x} \in SUBSET Clients
  OBVIOUS
<1>3. ChannelsOK(channel')
  BY <1>1, <1>2, SyncClientsOK, Zenon
<1>4. TablesOK'
  BY <1>1 DEF IInv, TablesOK
<1> QED BY <1>3, <1>4, ChannelsStep, Zenon

LEMMA SessionKeeps ==
    ASSUME IInv, NEW x \in Clients, NEW e,
           \/ \E a \in Accounts : nickserv_identify(x, a, e) \/ nickserv_register(x, a, e)
           \/ command_logout(x, e)
    PROVE  IInv'
<1>1. accounts \in [Accounts -> {"enabled", "disabled", "absent"}]
  BY DEF IInv, TablesOK
<1>2. ASSUME NEW a \in Accounts, nickserv_identify(x, a, e) PROVE IInv'
  BY <1>1, <1>2, LoginKeeps, Zenon DEF nickserv_identify, db_vars
<1>3. ASSUME NEW a \in Accounts, nickserv_register(x, a, e) PROVE IInv'
  <2>1. accounts' \in [Accounts -> {"enabled", "disabled", "absent"}]
    BY <1>1, <1>3 DEF nickserv_register
  <2> QED BY <1>3, <2>1, LoginKeeps, Zenon DEF nickserv_register
<1>4. ASSUME command_logout(x, e) PROVE IInv'
  BY <1>1, <1>4, LoginKeeps, Zenon DEF command_logout, db_vars
<1> QED BY <1>2, <1>3, <1>4

LEMMA RestartKeeps ==
    ASSUME IInv, Restart
    PROVE  IInv'
<1>1. /\ channel' = [c \in Channels |-> None] /\ joined' = [x \in Clients |-> {}]
  BY Zenon DEF Restart
<1>2. Sound([channel |-> channel', joined |-> joined'], connected')
  BY <1>1, Zenon DEF Sound
<1>3. TablesOK'
  BY DEF IInv, TablesOK, Restart, db_vars
<1> QED BY <1>2, <1>3, Primed

(* ChanServ's commands rewrite one channel's rows and its live record.     *)
LEMMA RowStep ==
    ASSUME IInv, NEW c \in Channels, NEW n,
           IF channel[c] = None THEN n = None ELSE RightBut(n, {}) /\ n.members = channel[c].members,
           channel' = [channel EXCEPT ![c] = n],
           registration' \in [Channels -> RegistrationRow \cup {None}],
           access' \in [Channels -> [Accounts -> Levels \cup {None}]],
           stored' \in [Channels -> Runtime],
           UNCHANGED <<fresh, connected, account, joined, accounts>>
    PROVE  IInv'
<1>1. ChannelsOK(channel')
  BY OneChannel, Zenon
<1>2. TablesOK'
  BY DEF IInv, TablesOK
<1> QED BY <1>1, <1>2, ChannelsStep

LEMMA RowTypes ==
    ASSUME IInv, NEW c \in Channels
    PROVE  /\ registration \in [Channels -> RegistrationRow \cup {None}]
           /\ access \in [Channels -> [Accounts -> Levels \cup {None}]]
           /\ stored \in [Channels -> Runtime]
           /\ account \in [Clients -> Accounts \cup {None}]
           /\ registration[c] \in RegistrationRow \cup {None}
           /\ access[c] \in [Accounts -> Levels \cup {None}]
           /\ stored[c] \in Runtime
           /\ registration[c] # None => registration[c] \in RegistrationRow
  BY DEF IInv, TablesOK

LEMMA AccessKeeps ==
    ASSUME IInv, NEW x \in Clients, NEW c \in Channels, NEW a \in Accounts,
           NEW level \in AccessLevels \cup {None}, NEW e, command_access(x, c, a, level, e)
    PROVE  IInv'
<1> DEFINE levels == [access[c] EXCEPT ![a] = level]
           holders == {y \in Clients : account[y] = a}
           n == IF channel[c] = None THEN None
                ELSE SyncMembers(channel[c], registration[c], levels, account, holders, e)
<1>1. levels \in [Accounts -> Levels \cup {None}]
  BY RowTypes, Inputs, Zenon
<1>2. /\ access' = [access EXCEPT ![c] = levels] /\ channel' = [channel EXCEPT ![c] = n]
      /\ UNCHANGED <<fresh, connected, account, joined, registration, stored, accounts>>
  BY Zenon DEF command_access
<1> HIDE DEF levels, holders
<1>3. channel[c] # None => RightBut(n, {}) /\ n.members = channel[c].members
  <2> SUFFICES ASSUME channel[c] # None
               PROVE  RightBut(n, {}) /\ n.members = channel[c].members
    BY ZenonT(40)
  <2>1. RightBut(channel[c], {})
    BY ChannelsNow, Zenon
  <2>2. registration[c] \in RegistrationRow \cup {None} /\ account \in [Clients -> Accounts \cup {None}]
    BY RowTypes
  <2>3. Keeps(SyncMembers(channel[c], registration[c], levels, account, holders, e), channel[c])
    BY <1>1, <2>1, <2>2, SyncKeeps, ZenonT(30)
  <2> QED BY <2>3, ZenonT(40) DEF Keeps
<1>4. channel[c] = None => n = None
  BY Zenon
<1> HIDE DEF n
<1>5. /\ access' \in [Channels -> [Accounts -> Levels \cup {None}]]
      /\ registration' \in [Channels -> RegistrationRow \cup {None}] /\ stored' \in [Channels -> Runtime]
  BY <1>1, <1>2, RowTypes
<1> QED BY <1>2, <1>3, <1>4, <1>5, RowStep, ZenonT(40)

LEMMA MlockKeeps ==
    ASSUME IInv, NEW x \in Clients, NEW c \in Channels, NEW lock \in Locks, SetMlock(x, c, lock)
    PROVE  IInv'
<1> DEFINE n == IF channel[c] = None THEN None ELSE Locked(channel[c], lock)
<1>1. lock \in SUBSET BooleanModes
  BY Inputs
<1>2. /\ registration' = [registration EXCEPT ![c].mode_lock = lock] /\ channel' = [channel EXCEPT ![c] = n]
      /\ UNCHANGED <<fresh, connected, account, joined, access, stored, accounts>>
      /\ registration[c] # None
  BY Zenon DEF SetMlock, load_founder_channel, Enabled
<1>3. channel[c] # None => RightBut(n, {}) /\ n.members = channel[c].members
  <2> SUFFICES ASSUME channel[c] # None
               PROVE  RightBut(n, {}) /\ n.members = channel[c].members
    OBVIOUS
  <2>1. channel[c] \in Channel /\ RightBut(channel[c], {}) /\ n = Locked(channel[c], lock)
    BY ChannelsNow
  <2>2. n \in Channel
    BY <1>1, <2>1, Zenon DEF Locked, Channel
  <2>3. /\ n.members = channel[c].members /\ n.manual = channel[c].manual
        /\ n.service = channel[c].service /\ n.privileges = channel[c].privileges
    BY <2>1 DEF Locked, Channel
  <2> HIDE DEF n
  <2> QED BY <2>1, <2>2, <2>3, PolicyUpdate, Zenon
<1>4. channel[c] = None => n = None
  OBVIOUS
<1> HIDE DEF n
<1>5. [registration[c] EXCEPT !.mode_lock = lock] \in RegistrationRow
  BY <1>1, <1>2, RowTypes, ZenonT(40) DEF RegistrationRow
<1>6. registration' \in [Channels -> RegistrationRow \cup {None}]
  BY <1>2, <1>5, RowTypes
<1>7. access' \in [Channels -> [Accounts -> Levels \cup {None}]] /\ stored' \in [Channels -> Runtime]
  BY <1>2, RowTypes
<1> QED BY <1>2, <1>3, <1>4, <1>6, <1>7, RowStep, Zenon

LEMMA TopicLockKeeps ==
    ASSUME IInv, NEW x \in Clients, NEW c \in Channels, NEW on \in BOOLEAN, SetTopicLock(x, c, on)
    PROVE  IInv'
<1> DEFINE with(modes) == IF on THEN modes \cup {"t"} ELSE modes \ {"t"}
           lock == with(registration[c].mode_lock)
           modes == with(channel[c].modes)
           n == IF channel[c] = None THEN None ELSE [channel[c] EXCEPT !.mode_lock = lock, !.modes = modes]
<1>1. /\ registration' = [registration EXCEPT ![c].mode_lock = lock] /\ channel' = [channel EXCEPT ![c] = n]
      /\ UNCHANGED <<fresh, connected, account, joined, access, stored, accounts>>
      /\ registration[c] # None
  BY DEF SetTopicLock, load_founder_channel, Enabled
<1>2. lock \in SUBSET BooleanModes
  BY <1>1, RowTypes, Zenon DEF RegistrationRow, BooleanModes
<1>3. channel[c] # None => RightBut(n, {}) /\ n.members = channel[c].members
  <2> SUFFICES ASSUME channel[c] # None
               PROVE  RightBut(n, {}) /\ n.members = channel[c].members
    OBVIOUS
  <2>1. channel[c] \in Channel /\ RightBut(channel[c], {})
    BY ChannelsNow, Zenon
  <2>2. modes \in SUBSET (BooleanModes \cup {"r"})
    BY <2>1 DEF Channel, BooleanModes
  <2> HIDE DEF lock, modes
  <2>3. n \in Channel
    BY <1>2, <2>1, <2>2, Zenon DEF Channel
  <2>4. /\ n.members = channel[c].members /\ n.manual = channel[c].manual
        /\ n.service = channel[c].service /\ n.privileges = channel[c].privileges
    BY <2>1 DEF Channel
  <2> HIDE DEF n
  <2> QED BY <2>1, <2>3, <2>4, PolicyUpdate
<1>4. channel[c] = None => n = None
  OBVIOUS
<1> HIDE DEF n, lock
<1>5. [registration[c] EXCEPT !.mode_lock = lock] \in RegistrationRow
  BY <1>1, <1>2, RowTypes, Zenon DEF RegistrationRow
<1>6. registration' \in [Channels -> RegistrationRow \cup {None}]
  BY <1>1, <1>5, RowTypes
<1>7. access' \in [Channels -> [Accounts -> Levels \cup {None}]] /\ stored' \in [Channels -> Runtime]
  BY <1>1, RowTypes
<1> QED BY <1>1, <1>3, <1>4, <1>6, <1>7, RowStep, Zenon

LEMMA SecureOpsKeeps ==
    ASSUME IInv, NEW x \in Clients, NEW c \in Channels, NEW on \in BOOLEAN, NEW e, SetSecureOps(x, c, on, e)
    PROVE  IInv'
<1> DEFINE row == [registration[c] EXCEPT !.secure_ops = on]
           flagged == [channel[c] EXCEPT !.secure_ops = on]
           n == IF channel[c] = None THEN None
                ELSE SyncMembers(flagged, row, access[c], account, Clients, e)
<1>1. /\ registration' = [registration EXCEPT ![c] = row] /\ channel' = [channel EXCEPT ![c] = n]
      /\ UNCHANGED <<fresh, connected, account, joined, access, stored, accounts>>
      /\ registration[c] # None
  BY DEF SetSecureOps, load_founder_channel, Enabled
<1>2. row \in RegistrationRow
  BY <1>1, RowTypes, ZenonT(40) DEF RegistrationRow
<1>3. channel[c] # None => RightBut(n, {}) /\ n.members = channel[c].members
  <2> SUFFICES ASSUME channel[c] # None
               PROVE  RightBut(n, {}) /\ n.members = channel[c].members
    OBVIOUS
  <2>1. channel[c] \in Channel /\ RightBut(channel[c], {})
    BY ChannelsNow
  <2>2. flagged \in Channel
    BY <2>1 DEF Channel
  <2>3. /\ flagged.members = channel[c].members /\ flagged.manual = channel[c].manual
        /\ flagged.service = channel[c].service /\ flagged.privileges = channel[c].privileges
    BY <2>1 DEF Channel
  <2> HIDE DEF flagged, row
  <2>4. RightBut(flagged, {})
    BY <2>1, <2>2, <2>3, PolicyUpdate, Zenon
  <2>5. /\ row \in RegistrationRow \cup {None} /\ access[c] \in [Accounts -> Levels \cup {None}]
        /\ account \in [Clients -> Accounts \cup {None}]
    BY <1>2, RowTypes
  <2>6. Keeps(SyncMembers(flagged, row, access[c], account, Clients, e), flagged)
    BY <2>4, <2>5, SyncKeeps, ZenonT(30)
  <2> QED BY <2>3, <2>6, Zenon DEF Keeps
<1>4. channel[c] = None => n = None
  BY Zenon
<1> HIDE DEF n, row
<1>5. /\ registration' \in [Channels -> RegistrationRow \cup {None}]
      /\ access' \in [Channels -> [Accounts -> Levels \cup {None}]] /\ stored' \in [Channels -> Runtime]
  BY <1>1, <1>2, RowTypes
<1> QED BY <1>1, <1>3, <1>4, <1>5, RowStep, Zenon

LEMMA SuccessorKeeps ==
    ASSUME IInv, NEW x \in Clients, NEW c \in Channels, NEW a \in Accounts \cup {None}, SetSuccessor(x, c, a)
    PROVE  IInv'
<1>1. /\ registration' = [registration EXCEPT ![c].successor = a] /\ registration[c] # None
      /\ UNCHANGED <<live_vars, access, stored, accounts>>
  BY DEF SetSuccessor, load_founder_channel, Enabled
<1>2. [registration[c] EXCEPT !.successor = a] \in RegistrationRow
  BY <1>1, RowTypes, ZenonT(40) DEF RegistrationRow
<1>3. registration' \in [Channels -> RegistrationRow \cup {None}]
  BY <1>1, <1>2, RowTypes
<1>4. ChannelsOK(channel') /\ joined' = joined /\ connected' = connected
  BY <1>1, ChannelsNow DEF live_vars
<1>5. TablesOK'
  BY <1>1, <1>3 DEF IInv, TablesOK, live_vars
<1> QED BY <1>4, <1>5, ChannelsStep

-----------------------------------------------------------------------------
(* The network administrators' commands.                                   *)

LEMMA RefreshedKeeps ==
    ASSUME IInv, NEW c \in Channels, NEW row \in RegistrationRow \cup {None},
           NEW levels \in [Accounts -> Levels \cup {None}], NEW saved \in Runtime, NEW e,
           channel' = [channel EXCEPT ![c] = Refresh(@, row, levels, saved, account, e)],
           registration' = [registration EXCEPT ![c] = row],
           access' \in [Channels -> [Accounts -> Levels \cup {None}]],
           stored' \in [Channels -> Runtime],
           UNCHANGED <<fresh, connected, account, joined, accounts>>
    PROVE  IInv'
<1> DEFINE n == Refresh(channel[c], row, levels, saved, account, e)
<1>1. channel' = [channel EXCEPT ![c] = n]
  BY ZenonT(40)
<1>2. channel[c] = None => n = None
  BY DEF Refresh
<1>3. channel[c] # None => Keeps(n, channel[c])
  <2>1. account \in [Clients -> Accounts \cup {None}]
    BY RowTypes, Zenon
  <2>2. channel[c] # None => RightBut(channel[c], {})
    BY ChannelsNow, Zenon
  <2> QED BY <2>1, <2>2, RefreshedRight, ZenonT(40)
<1> HIDE DEF n
<1>4. IF channel[c] = None THEN n = None ELSE RightBut(n, {}) /\ n.members = channel[c].members
  BY <1>2, <1>3, Zenon DEF Keeps
<1>5. registration' \in [Channels -> RegistrationRow \cup {None}]
  BY RowTypes, Zenon
<1> QED BY <1>1, <1>4, <1>5, RowStep, Zenon

LEMMA CssetKeeps ==
    ASSUME IInv, NEW c \in Channels, NEW e,
           \/ \E on \in BOOLEAN : CssetEnabled(c, on, e)
           \/ \E a \in Accounts : CssetFounder(c, a, e)
           \/ command_csdrop(c, e)
    PROVE  IInv'
<1>1. ASSUME NEW on \in BOOLEAN, CssetEnabled(c, on, e) PROVE IInv'
  <2> DEFINE row == [registration[c] EXCEPT !.enabled = on]
  <2>1. row \in RegistrationRow
    BY <1>1, RowTypes, Zenon DEF CssetEnabled, RegistrationRow
  <2>2. /\ registration' = [registration EXCEPT ![c] = row]
        /\ channel' = [channel EXCEPT ![c] = Refresh(@, row, access[c], stored[c], account, e)]
        /\ UNCHANGED <<fresh, connected, account, joined, access, stored, accounts>>
    BY <1>1 DEF CssetEnabled
  <2> HIDE DEF row
  <2> QED BY <2>1, <2>2, RowTypes, RefreshedKeeps, Zenon
<1>2. ASSUME NEW a \in Accounts, CssetFounder(c, a, e) PROVE IInv'
  <2> DEFINE half == registration[c].successor = a /\ "successor" \in e
             next == IF registration[c].successor = a /\ ~half THEN None ELSE registration[c].successor
             row == [registration[c] EXCEPT !.founder = a, !.successor = next]
  <2>1. registration[c] \in RegistrationRow
    BY <1>2, RowTypes, ZenonT(40) DEF CssetFounder
  <2>2. next \in Accounts \cup {None}
    BY <2>1, Zenon DEF RegistrationRow
  <2>3. /\ registration' = [registration EXCEPT ![c] = row]
        /\ channel' = [channel EXCEPT ![c] =
              IF half THEN @ ELSE Refresh(@, row, access[c], stored[c], account, e)]
        /\ UNCHANGED <<fresh, connected, account, joined, access, stored, accounts>>
    BY <1>2, Zenon DEF CssetFounder
  <2> HIDE DEF half, next
  <2>4. row \in RegistrationRow
    BY <2>1, <2>2, ZenonT(40) DEF RegistrationRow
  <2> HIDE DEF row
  <2>5. CASE half
    <3>1. channel' = [channel EXCEPT ![c] = channel[c]]
      BY <2>3, <2>5, Zenon
    <3>2. registration' \in [Channels -> RegistrationRow \cup {None}]
      BY <2>3, <2>4, RowTypes, Zenon
    <3>3. channel[c] # None => RightBut(channel[c], {})
      BY ChannelsNow, Zenon
    <3> QED BY <2>3, <3>1, <3>2, <3>3, RowTypes, RowStep, ZenonT(40)
  <2>6. CASE ~half
    <3>1. channel' = [channel EXCEPT ![c] = Refresh(@, row, access[c], stored[c], account, e)]
      BY <2>3, <2>6, Zenon
    <3> QED BY <2>3, <2>4, <3>1, RowTypes, RefreshedKeeps, Zenon
  <2> QED BY <2>5, <2>6, Zenon
<1>3. ASSUME command_csdrop(c, e) PROVE IInv'
  <2>1. NoAccess \in [Accounts -> Levels \cup {None}] /\ EmptyRuntime \in Runtime
    BY RuntimeTypes, Zenon DEF NoAccess
  <2>2. /\ registration' = [registration EXCEPT ![c] = None]
        /\ access' = [access EXCEPT ![c] = NoAccess] /\ stored' = [stored EXCEPT ![c] = EmptyRuntime]
        /\ channel' = [channel EXCEPT ![c] = Refresh(@, None, NoAccess, EmptyRuntime, account, e)]
        /\ UNCHANGED <<fresh, connected, account, joined, accounts>>
    BY <1>3, Zenon DEF command_csdrop
  <2>3. access' \in [Channels -> [Accounts -> Levels \cup {None}]] /\ stored' \in [Channels -> Runtime]
    BY <2>1, <2>2, RowTypes, Zenon
  <2> QED BY <2>1, <2>2, <2>3, RefreshedKeeps, Zenon
<1> QED BY <1>1, <1>2, <1>3

LEMMA OrphanedType ==
    ASSUME IInv, NEW a, NEW accts, NEW e
    PROVE  Orphaned(a, accts, e) \in [Channels -> RegistrationRow \cup {None}]
<1>1. ASSUME NEW row \in RegistrationRow PROVE PromoteOrDisable(row, a, accts, e) \in RegistrationRow
  <2>1. Promotes(row, a, accts) => row.successor \in Accounts
    BY Zenon DEF Promotes, RegistrationRow
  <2> DEFINE next == IF "successor" \in e THEN row.successor ELSE None
  <2>2. next \in Accounts \cup {None}
    BY Zenon DEF RegistrationRow
  <2>3. PromoteOrDisable(row, a, accts, e) =
           IF Promotes(row, a, accts) THEN [row EXCEPT !.founder = row.successor, !.successor = next]
           ELSE [row EXCEPT !.enabled = FALSE]
    BY Zenon DEF PromoteOrDisable
  <2> HIDE DEF next
  <2> QED BY <2>1, <2>2, <2>3, ZenonT(40) DEF RegistrationRow
<1>2. \A c \in Channels : c \in Founded(a, e) => registration[c] \in RegistrationRow
  BY Zenon DEF Founded, Enabled, IInv, TablesOK
<1> QED BY <1>1, <1>2 DEF Orphaned, IInv, TablesOK

LEMMA RemovedOK ==
    ASSUME IInv, NEW a \in Accounts, NEW accts, NEW e
    PROVE  /\ LoggedOut(a) \in [Clients -> Accounts \cup {None}]
           /\ ChannelsOK(AccountRemoved(a, accts, e))
<1> DEFINE who == LoggedOut(a)
           holders == {x \in Clients : account[x] = a}
           synced == SyncClients(channel, who, holders, e)
           rows == Orphaned(a, accts, e)
<1>1. TablesOK /\ access \in [Channels -> [Accounts -> Levels \cup {None}]]
  BY DEF IInv, TablesOK
<1>2. who \in [Clients -> Accounts \cup {None}]
  BY DEF LoggedOut, IInv, TablesOK
<1>3. rows \in [Channels -> RegistrationRow \cup {None}]
  BY OrphanedType
<1>4. holders \in SUBSET Clients
  OBVIOUS
<1> HIDE DEF who, holders, rows
<1>5. ChannelsOK(synced)
  BY <1>2, <1>4, SyncClientsOK, Zenon
<1> HIDE DEF synced
<1>6. ChannelsOK(RefreshAll(synced, Rewritten(a, accts, e), rows, access, who, e))
  BY <1>1, <1>2, <1>3, <1>5, RefreshAllOK
<1> QED BY <1>2, <1>6, Zenon DEF AccountRemoved, synced, who, holders, rows

LEMMA NssetKeeps ==
    ASSUME IInv, NEW a \in Accounts, NEW e, NssetDisable(a, e) \/ NssetEnable(a)
    PROVE  IInv'
<1>1. ASSUME NssetEnable(a) PROVE IInv'
  <2>1. ChannelsOK(channel') /\ joined' = joined /\ connected' = connected
    BY <1>1, ChannelsNow, Zenon DEF NssetEnable, live_vars
  <2>2. TablesOK'
    BY <1>1, Zenon DEF NssetEnable, live_vars, IInv, TablesOK
  <2> QED BY <2>1, <2>2, ChannelsStep, Zenon
<1>2. ASSUME NssetDisable(a, e) PROVE IInv'
  <2> DEFINE accts == [accounts EXCEPT ![a] = "disabled"]
  <2>1. /\ accounts' = accts /\ account' = LoggedOut(a) /\ registration' = Orphaned(a, accts, e)
        /\ channel' = AccountRemoved(a, accts, e)
        /\ UNCHANGED <<fresh, connected, joined, access, stored>>
    BY <1>2, Zenon DEF NssetDisable
  <2>2. accounts' \in [Accounts -> {"enabled", "disabled", "absent"}]
    BY <2>1, Zenon DEF IInv, TablesOK
  <2> HIDE DEF accts
  <2>3. ChannelsOK(channel') /\ account' \in [Clients -> Accounts \cup {None}]
    BY <2>1, RemovedOK
  <2>4. registration' \in [Channels -> RegistrationRow \cup {None}]
    BY <2>1, OrphanedType, Zenon
  <2>5. TablesOK'
    BY <2>1, <2>2, <2>3, <2>4, Zenon DEF IInv, TablesOK
  <2> QED BY <2>1, <2>3, <2>5, ChannelsStep, Zenon
<1> QED BY <1>1, <1>2

LEMMA NsdropKeeps ==
    ASSUME IInv, NEW a \in Accounts, NEW e, command_nsdrop(a, e)
    PROVE  IInv'
<1> DEFINE accts == [accounts EXCEPT ![a] = "absent"]
           rows == Orphaned(a, accts, e)
           refs == {c \in Channels : "open" \notin e /\ rows[c] # None /\ (rows[c].successor = a \/ access[c][a] # None)}
           rows2 == [c \in Channels |-> IF c \in refs /\ rows[c].successor = a
                                        THEN [rows[c] EXCEPT !.successor = None] ELSE rows[c]]
           levels2 == [c \in Channels |-> IF c \in refs THEN [access[c] EXCEPT ![a] = None] ELSE access[c]]
           who == LoggedOut(a)
           removed == AccountRemoved(a, accts, e)
<1>1. /\ accounts' = accts /\ account' = who /\ registration' = rows2 /\ access' = levels2
      /\ channel' = RefreshAll(removed, refs, rows2, levels2, who, e)
      /\ UNCHANGED <<fresh, connected, joined, stored>>
  BY DEF command_nsdrop
<1>2. accounts' \in [Accounts -> {"enabled", "disabled", "absent"}]
  BY <1>1 DEF IInv, TablesOK
<1> HIDE DEF accts
<1>3. rows \in [Channels -> RegistrationRow \cup {None}]
  BY OrphanedType
<1> HIDE DEF rows
<1>4. \A c \in Channels : c \in refs => rows[c] \in RegistrationRow
  BY <1>3
<1>5. \A row \in RegistrationRow : [row EXCEPT !.successor = None] \in RegistrationRow
  BY Zenon DEF RegistrationRow
<1>6. levels2 \in [Channels -> [Accounts -> Levels \cup {None}]]
  BY DEF IInv, TablesOK
<1> HIDE DEF refs
<1>7. rows2 \in [Channels -> RegistrationRow \cup {None}]
  BY <1>3, <1>4, <1>5, Zenon
<1>8. who \in [Clients -> Accounts \cup {None}] /\ ChannelsOK(removed)
  BY RemovedOK
<1> HIDE DEF rows2, levels2, who, removed
<1>9. TablesOK
  BY Zenon DEF IInv
<1>10. ChannelsOK(channel')
  BY <1>1, <1>6, <1>7, <1>8, <1>9, RefreshAllOK, Zenon
<1>11. TablesOK'
  BY <1>1, <1>2, <1>6, <1>7, <1>8, Zenon DEF IInv, TablesOK
<1> QED BY <1>1, <1>10, <1>11, ChannelsStep, Zenon

-----------------------------------------------------------------------------
(* Theorems.                                                               *)

LEMMA InitHolds ==
    ASSUME Init
    PROVE  IInv
<1>1. World = [channel |-> channel, joined |-> joined]
  BY DEF World
<1>2. /\ channel = [c \in Channels |-> None] /\ joined = [x \in Clients |-> {}]
  BY Zenon DEF Init
<1>3. Sound([channel |-> channel, joined |-> joined], connected)
  BY <1>2, Zenon DEF Sound
<1>4. TablesOK
  BY RuntimeTypes, Zenon DEF Init, TablesOK, NoAccess
<1> QED BY <1>1, <1>3, <1>4 DEF IInv

(* Every handler keeps the invariant.                                      *)
LEMMA EveryStep ==
    ASSUME IInv, [Next]_vars
    PROVE  IInv'
<1>1. CASE UNCHANGED vars
  BY <1>1 DEF vars, IInv, World, TablesOK
<1>2. ASSUME NEW x \in Clients, PlainClientStep(x) PROVE IInv'
  BY <1>2, ConnectKeeps, DisconnectKeeps DEF PlainClientStep
<1>3. ASSUME NEW a \in Accounts, NssetEnable(a) PROVE IInv'
  BY <1>3, NssetKeeps
<1>4. CASE Restart
  BY <1>4, RestartKeeps, Zenon
<1>5. ASSUME NEW x \in Clients, NEW c \in Channels, PlainChannelStep(x, c) PROVE IInv'
  BY <1>5, LeavingKeeps, InviteKeeps, MlockKeeps, TopicLockKeeps, SuccessorKeeps, Zenon DEF PlainChannelStep
<1>6. ASSUME NEW x \in Clients, NEW c \in Channels, NEW e, JoinStep(x, c, e) PROVE IInv'
  BY <1>6, JoinKeeps, SajoinKeeps, Zenon DEF JoinStep
<1>7. ASSUME NEW x \in Clients, NEW c \in Channels, NEW e, SavingStep(x, c, e) PROVE IInv'
  BY <1>7, ModeKeeps, SamodeKeeps, RegisterKeeps, Zenon DEF SavingStep
<1>8. ASSUME NEW x \in Clients, NEW c \in Channels, NEW e, SyncStep(x, c, e) PROVE IInv'
  BY <1>8, SessionKeeps, AccessKeeps, SecureOpsKeeps, Zenon DEF SyncStep
<1>9. ASSUME NEW c \in Channels, NEW e, AdminStep(c, e) PROVE IInv'
  BY <1>9, CssetKeeps, NssetKeeps, NsdropKeeps DEF AdminStep
<1> QED BY <1>1, <1>2, <1>3, <1>4, <1>5, <1>6, <1>7, <1>8, <1>9, ZenonT(40) DEF Next

(* Whatever the peers, the operators and the administrators send, and      *)
(* whatever fails inside a handler, the two membership tables, the         *)
(* privileges and the rows keep the inductive invariant.                   *)
THEOREM ChannelInvariance == Spec => []IInv
<1>1. Init => IInv
  BY InitHolds
<1>2. IInv /\ [Next]_vars => IInv'
  BY EveryStep
<1> QED BY <1>1, <1>2, PTL DEF Spec

(* The records of the live channels and the rows of the tables keep their  *)
(* types: no mode line, restore or promotion builds an ill-formed one.     *)
THEOREM ChannelTypeCorrect == Spec => []TypeOK
<1>1. IInv => TypeOK
  BY ZenonT(40) DEF IInv, Sound, World, TablesOK, TypeOK
<1> QED BY <1>1, ChannelInvariance, PTL

(* A channel lists a client exactly when the client lists the channel, in  *)
(* every reachable state, for any number of clients and channels.          *)
THEOREM MembershipsAgree == Spec => []MembershipTwoSided
<1>1. IInv => MembershipTwoSided
  BY Zenon DEF IInv, Sound, World, MembershipTwoSided, Live
<1> QED BY <1>1, ChannelInvariance, PTL

(* Between handlers effective privileges are the manual and the service    *)
(* ones together, and nobody outside a channel holds any: SAMODE's loan of *)
(* ownership never outlives the command.                                   *)
THEOREM PrivilegesAgree == Spec => []PrivilegesAreTheUnion
<1>1. IInv => PrivilegesAreTheUnion
  <2> SUFFICES ASSUME IInv, NEW c \in Channels, Live(c)
               PROVE  \A x \in Clients :
                        /\ channel[c].privileges[x] = channel[c].manual[x] \cup channel[c].service[x]
                        /\ x \notin channel[c].members => channel[c].privileges[x] = {}
    BY Zenon DEF PrivilegesAreTheUnion
  <2>1. RightBut(channel[c], {})
    BY ChannelsNow DEF Live
  <2> QED BY <2>1, Zenon DEF RightBut
<1> QED BY <1>1, ChannelInvariance, PTL
=============================================================================
