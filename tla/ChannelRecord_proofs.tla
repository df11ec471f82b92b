------------------------ MODULE ChannelRecord_proofs ------------------------
(***************************************************************************)
(* What it is for a live channel to follow its registration, and the       *)
(* lemmas that the operations on a channel's record, from a refresh to a   *)
(* JOIN along its redirects, keep it so.                                   *)
(***************************************************************************)
EXTENDS ChannelAuthority_proofs

(* The three ways a live channel can miss its registration: ChanServ's     *)
(* database cannot be opened; a new founder is written and clearing the    *)
(* successor then fails, which skips the refresh; and SAJOIN creates the   *)
(* channel without loading its policy.                                     *)
PolicyIsLoaded == Faults \cap {"open", "successor"} = {} /\ "SAJOIN" \notin Commands

(* SAMODE alone changes modes without consulting the mode lock.            *)
LocksChecked == "SAMODE" \notin Commands

(* The rows of a channel can be read and written.                          *)
StorageWorks == Faults \cap {"ready", "restore", "save"} = {}

(* What the rows grant an account.                                         *)
GrantedBy(reg, acc, a) ==
    IF a = None \/ ~Enabled(reg) THEN {}
    ELSE IF reg.founder = a THEN Ownership
    ELSE LevelPrivileges(acc[a])

(* The cached policy is the registration's; the cache of a channel that is *)
(* not registered says so.                                                 *)
Cached(ch, reg) ==
    /\ ch.loaded
    /\ Enabled(reg) => /\ "r" \in ch.modes /\ ch.valid /\ ch.founder = reg.founder
                       /\ ch.mode_lock = reg.mode_lock /\ ch.secure_ops = reg.secure_ops
    /\ ~Enabled(reg) => "r" \notin ch.modes /\ ~ch.valid /\ ~ch.secure_ops

Policy(ch, reg, st) ==
    /\ Cached(ch, reg)
    /\ LocksChecked /\ Enabled(reg) => ch.mode_lock \subseteq ch.modes
    /\ StorageWorks /\ Enabled(reg) => ch.runtime = st

(* What member x, identified to a, may hold.                               *)
Holds(ch, x, reg, acc, a) ==
    /\ ch.service[x] \subseteq GrantedBy(reg, acc, a)
    /\ ch.secure_ops => ch.manual[x] \subseteq Eligible(GrantedBy(reg, acc, a))

Follows(ch, reg, acc, st, who) ==
    /\ Policy(ch, reg, st)
    /\ \A x \in ch.members : Holds(ch, x, reg, acc, who[x])

(* The inductive invariant: every live channel follows its registration,   *)
(* and a client that is still to connect is in no channel, so that its     *)
(* login changes nobody's authority.                                       *)
Following(chs, regs, accs, sts, who) ==
    \A c \in Channels : chs[c] # None => Follows(chs[c], regs[c], accs[c], sts[c], who)

PolicyInv ==
    /\ IInv
    /\ fresh \cap connected = {}
    /\ Following(channel, registration, access, stored, account)

(* The faults a step may meet.                                             *)
Tame(e) ==
    /\ "open" \notin e /\ "successor" \notin e
    /\ StorageWorks => ~RestoreFails(e) /\ "save" \notin e

LEMMA FaultsAreTame ==
    ASSUME PolicyIsLoaded, NEW e \in SUBSET Faults
    PROVE  Tame(e)
  BY DEF PolicyIsLoaded, Tame, StorageWorks, RestoreFails

-----------------------------------------------------------------------------
(* Records that follow their rows.                                         *)

(* n has the cached policy, the whole policy, the grants of ch.            *)
SameCache(n, ch) ==
    /\ n.modes = ch.modes /\ n.loaded = ch.loaded /\ n.valid = ch.valid /\ n.founder = ch.founder
    /\ n.mode_lock = ch.mode_lock /\ n.secure_ops = ch.secure_ops

SamePolicy(n, ch) == SameCache(n, ch) /\ n.runtime = ch.runtime

SameGrants(n, ch) == n.members = ch.members /\ n.manual = ch.manual /\ n.service = ch.service

LEMMA SamePolicyHolds ==
    ASSUME NEW n, NEW ch, SamePolicy(n, ch), NEW reg, NEW st, Policy(ch, reg, st)
    PROVE  Policy(n, reg, st)
  BY DEF SamePolicy, SameCache, Policy, Cached

LEMMA SameGrantsFollow ==
    ASSUME NEW n, NEW ch, SameCache(n, ch), SameGrants(n, ch), NEW reg, NEW acc, NEW who,
           Follows(ch, reg, acc, ch.runtime, who)
    PROVE  Follows(n, reg, acc, n.runtime, who)
<1>1. Policy(n, reg, n.runtime)
  BY DEF Follows, SameCache, Policy, Cached
<1>2. \A x \in n.members : Holds(n, x, reg, acc, who[x])
  BY DEF Follows, SameCache, SameGrants, Holds
<1> QED BY <1>1, <1>2 DEF Follows

(* The cache answers what the rows grant.                                  *)
LEMMA GrantsAgree ==
    ASSUME NEW ch, NEW reg, NEW acc, Cached(ch, reg), NEW a, NEW e, "open" \notin e
    PROVE  /\ chanserv_client_privileges(ch, reg, acc, a, e) = GrantedBy(reg, acc, a)
           /\ ServiceOf(ch, reg, acc, a, e) = GrantedBy(reg, acc, a)
<1>1. CASE a = None
  BY <1>1 DEF chanserv_client_privileges, ServiceOf, GrantedBy
<1>2. CASE a # None /\ ~Enabled(reg)
  BY <1>2 DEF chanserv_client_privileges, ServiceOf, GrantedBy, Cached
<1>3. CASE a # None /\ Enabled(reg)
  BY <1>3 DEF chanserv_client_privileges, ServiceOf, GrantedBy, Cached
<1> QED BY <1>1, <1>2, <1>3

(* n is ch with the members in set synced to their accounts.               *)
Synced(n, ch, reg, acc, who, set) ==
    /\ SamePolicy(n, ch) /\ n.members = ch.members /\ n.invites = ch.invites
    /\ \A x \in ch.members \cap set :
          /\ n.service[x] = GrantedBy(reg, acc, who[x])
          /\ n.manual[x] \subseteq ch.manual[x]
          /\ ch.secure_ops => n.manual[x] \subseteq Eligible(GrantedBy(reg, acc, who[x]))
    /\ \A x \in ch.members \ set : n.service[x] = ch.service[x] /\ n.manual[x] = ch.manual[x]

LEMMA SyncSame ==
    ASSUME NEW ch \in Channel, NEW reg, NEW acc, NEW who, NEW set, NEW e
    PROVE  LET n == SyncMembers(ch, reg, acc, who, set, e)
           IN SamePolicy(n, ch) /\ n.members = ch.members /\ n.invites = ch.invites
  BY DEF Channel, SyncMembers, SamePolicy, SameCache

LEMMA SyncGrants ==
    ASSUME NEW ch \in Channel, NEW reg, NEW acc, Cached(ch, reg), NEW who, NEW set, NEW e, "open" \notin e
    PROVE  Synced(SyncMembers(ch, reg, acc, who, set, e), ch, reg, acc, who, set)
<1> DEFINE n == SyncMembers(ch, reg, acc, who, set, e)
           desired(x) == ServiceOf(ch, reg, acc, who[x], e)
           kept(x) == IF ch.secure_ops THEN ch.manual[x] \cap Eligible(desired(x)) ELSE ch.manual[x]
           synced == ch.members \cap set
<1>1. /\ n.manual = [x \in Clients |-> IF x \in synced THEN kept(x) ELSE ch.manual[x]]
      /\ n.service = [x \in Clients |-> IF x \in synced THEN desired(x) ELSE ch.service[x]]
  BY DEF Channel, SyncMembers
<1>2. SamePolicy(n, ch) /\ n.members = ch.members /\ n.invites = ch.invites
  BY SyncSame
<1>3. \A x \in Clients : desired(x) = GrantedBy(reg, acc, who[x])
  BY GrantsAgree
<1>4. \A x \in Clients : /\ kept(x) \subseteq ch.manual[x]
                         /\ ch.secure_ops => kept(x) \subseteq Eligible(desired(x))
  OBVIOUS
<1>5. ch.members \subseteq Clients
  BY DEF Channel
<1> HIDE DEF n, desired, kept
<1>6. \A x \in ch.members \cap set : n.service[x] = desired(x) /\ n.manual[x] = kept(x)
  BY <1>1, <1>5
<1>7. \A x \in ch.members \ set : n.service[x] = ch.service[x] /\ n.manual[x] = ch.manual[x]
  BY <1>1, <1>5
<1> QED BY <1>1, <1>2, <1>3, <1>4, <1>5, <1>6, <1>7, SMT, SMTT(30) DEF n, Synced

LEMMA SyncFollows ==
    ASSUME NEW ch \in Channel, NEW reg, NEW acc, NEW st, Policy(ch, reg, st), NEW who, NEW set,
           NEW e, "open" \notin e, \A x \in ch.members \ set : Holds(ch, x, reg, acc, who[x])
    PROVE  Follows(SyncMembers(ch, reg, acc, who, set, e), reg, acc, st, who)
<1> DEFINE n == SyncMembers(ch, reg, acc, who, set, e)
<1>1. Synced(n, ch, reg, acc, who, set)
  BY SyncGrants DEF Policy
<1> HIDE DEF n
<1>2. Policy(n, reg, st) /\ n.secure_ops = ch.secure_ops
  BY <1>1, SamePolicyHolds DEF SamePolicy, SameCache, Synced
<1>3. ASSUME NEW x \in ch.members PROVE Holds(n, x, reg, acc, who[x])
  BY <1>1, <1>2 DEF Holds, Synced
<1> QED BY <1>1, <1>2, <1>3 DEF Follows, Synced, n

(* A refresh makes any channel follow its registration.                    *)
LEMMA RefreshPolicy ==
    ASSUME NEW ch \in Channel, NEW reg, NEW st, NEW e, Tame(e)
    PROVE  /\ Policy(chanserv_refresh_channel(ch, reg, st, e), reg, st)
           /\ chanserv_refresh_channel(ch, reg, st, e).invites = ch.invites
           /\ ~Enabled(reg) => \A x \in Clients : chanserv_refresh_channel(ch, reg, st, e).service[x] = {}
<1> DEFINE n == chanserv_refresh_channel(ch, reg, st, e)
<1>1. CASE Enabled(reg)
  <2> DEFINE rt == chanserv_persist_restore(ch.runtime, st, e)
  <2>1. n = [ch EXCEPT !.loaded = TRUE, !.valid = TRUE, !.founder = reg.founder,
                       !.mode_lock = reg.mode_lock, !.secure_ops = reg.secure_ops,
                       !.modes = reg.mode_lock \cup {"r"}, !.runtime = rt]
    BY <1>1 DEF chanserv_refresh_channel, cache_policy, Channel, Tame
  <2>2. StorageWorks => rt = st
    BY DEF Tame, RestoreFails, chanserv_persist_restore
  <2> HIDE DEF n, rt
  <2>3. /\ n.loaded = TRUE /\ n.valid = TRUE /\ n.founder = reg.founder /\ n.mode_lock = reg.mode_lock
        /\ n.secure_ops = reg.secure_ops /\ n.modes = reg.mode_lock \cup {"r"} /\ n.runtime = rt
        /\ n.invites = ch.invites
    BY <2>1 DEF Channel
  <2> QED BY <1>1, <2>2, <2>3 DEF Policy, Cached, n
<1>2. CASE ~Enabled(reg)
  <2> DEFINE all == [x \in Clients |-> ch.manual[x] \cup ch.service[x]]
  <2>1. n = [ch EXCEPT !.manual = all, !.service = NoPrivileges, !.privileges = all,
                       !.loaded = TRUE, !.valid = FALSE, !.founder = None, !.mode_lock = {},
                       !.secure_ops = FALSE, !.modes = ch.modes \ {"r"}]
    BY <1>2 DEF chanserv_refresh_channel, clear_cached_policy, Channel, Tame
  <2> HIDE DEF n, all
  <2>2. /\ n.loaded = TRUE /\ n.valid = FALSE /\ n.secure_ops = FALSE /\ n.modes = ch.modes \ {"r"}
        /\ n.service = NoPrivileges /\ n.invites = ch.invites
    BY <2>1 DEF Channel
  <2> QED BY <1>2, <2>2 DEF Policy, Cached, NoPrivileges, n
<1> QED BY <1>1, <1>2

LEMMA UnregisteredFollows ==
    ASSUME NEW ch \in Channel, NEW reg, NEW acc, NEW st, NEW who, Policy(ch, reg, st), ~Enabled(reg),
           \A x \in Clients : ch.service[x] = {}
    PROVE  Follows(ch, reg, acc, st, who)
  BY DEF Follows, Policy, Cached, Holds, Channel

LEMMA RefreshFollows ==
    ASSUME NEW ch, RightBut(ch, {}), NEW reg \in RegistrationRow \cup {None}, NEW acc, NEW st \in Runtime,
           NEW who, NEW e, Tame(e)
    PROVE  Follows(Refresh(ch, reg, acc, st, who, e), reg, acc, st, who)
<1> DEFINE r == chanserv_refresh_channel(ch, reg, st, e)
<1>1. ch \in Channel /\ ch # None
  BY NoneIsNoRecord DEF RightBut
<1>2. Policy(r, reg, st) /\ (~Enabled(reg) => \A x \in Clients : r.service[x] = {})
  BY <1>1, RefreshPolicy
<1>3. r \in Channel
  BY RefreshRight DEF RightBut
<1> HIDE DEF r
<1>4. Refresh(ch, reg, acc, st, who, e) = IF "r" \in r.modes THEN SyncMembers(r, reg, acc, who, Clients, e) ELSE r
  BY <1>1 DEF Refresh, r
<1>5. CASE Enabled(reg)
  <2>1. "r" \in r.modes /\ r.members \ Clients = {}
    BY <1>2, <1>3, <1>5, SMT, SMTT(30) DEF Policy, Cached, Channel
  <2>2. Follows(SyncMembers(r, reg, acc, who, Clients, e), reg, acc, st, who)
    BY <1>2, <1>3, <2>1, SyncFollows DEF Tame
  <2> QED BY <1>4, <2>1, <2>2
<1>6. CASE ~Enabled(reg)
  <2>1. "r" \notin r.modes
    BY <1>2, <1>6 DEF Policy, Cached
  <2>2. Follows(r, reg, acc, st, who)
    BY <1>2, <1>3, <1>6, UnregisteredFollows
  <2> QED BY <1>4, <2>1, <2>2
<1> QED BY <1>5, <1>6

-----------------------------------------------------------------------------
(* MODE lines.  A line may change the runtime, which the save that follows *)
(* it writes; everything else keeps following the rows.                    *)

LEMMA RuntimeModes ==
    ASSUME NEW ch \in Channel, NEW x, NEW d
    PROVE  /\ SameCache(ModeMask(ch, x, d), ch) /\ SameGrants(ModeMask(ch, x, d), ch)
           /\ SameCache(ModeParameter(ch, d), ch) /\ SameGrants(ModeParameter(ch, d), ch)
<1>1. ASSUME NEW rt
      PROVE  LET n == [ch EXCEPT !.runtime = rt] IN SameCache(n, ch) /\ SameGrants(n, ch)
  BY DEF Channel, SameCache, SameGrants
<1>2. SameCache(ch, ch) /\ SameGrants(ch, ch)
  BY DEF SameCache, SameGrants
<1>3. SameCache(ModeMask(ch, x, d), ch) /\ SameGrants(ModeMask(ch, x, d), ch)
  <2> DEFINE rt == ch.runtime
             authorized == may_manage_protected(ch, x)
             list == IF d.add THEN channel_mask_add(rt.exception_list, d.arg) ELSE rt.exception_list \ {d.arg}
             invex == IF d.add THEN channel_mask_add(rt.invite_exception_list, d.arg)
                      ELSE rt.invite_exception_list \ {d.arg}
  <2>1. \/ ModeMask(ch, x, d) = ch
        \/ ModeMask(ch, x, d) = [ch EXCEPT !.runtime = [rt EXCEPT
              !.ban_list = channel_mask_add_authorized(rt.ban_list, d.arg, authorized)]]
        \/ ModeMask(ch, x, d) = [ch EXCEPT !.runtime = [rt EXCEPT
              !.ban_list = {b \in rt.ban_list : b.mask # d.arg}]]
        \/ ModeMask(ch, x, d) = [ch EXCEPT !.runtime = [rt EXCEPT !.exception_list = list]]
        \/ ModeMask(ch, x, d) = [ch EXCEPT !.runtime = [rt EXCEPT !.invite_exception_list = invex]]
    BY DEF ModeMask
  <2> QED BY <1>1, <1>2, <2>1
<1>4. SameCache(ModeParameter(ch, d), ch) /\ SameGrants(ModeParameter(ch, d), ch)
  <2> DEFINE rt == ch.runtime
             arg == IF d.add THEN d.arg ELSE None
             limit == IF d.add THEN d.arg ELSE 0
  <2>1. \/ ModeParameter(ch, d) = [ch EXCEPT !.runtime = [rt EXCEPT !.key = arg]]
        \/ ModeParameter(ch, d) = [ch EXCEPT !.runtime = [rt EXCEPT !.user_limit = limit]]
        \/ ModeParameter(ch, d) = [ch EXCEPT !.runtime = [rt EXCEPT !.join_throttle = d.add]]
        \/ ModeParameter(ch, d) = [ch EXCEPT !.runtime = [rt EXCEPT !.limit_redirect = arg]]
        \/ ModeParameter(ch, d) = [ch EXCEPT !.runtime = [rt EXCEPT !.ban_redirect = arg]]
    BY DEF ModeParameter
  <2> QED BY <1>1, <2>1
<1> QED BY <1>3, <1>4

(* A letter of the mode lock is only set, any other boolean letter may be  *)
(* set or taken.                                                           *)
LockAllows(reg, d) ==
    LocksChecked /\ Enabled(reg) /\ d # None /\ d.letter \in BooleanModes => (d.letter \in reg.mode_lock) = d.add

LEMMA BooleanFollows ==
    ASSUME NEW ch \in Channel, NEW reg, NEW acc, NEW who, Follows(ch, reg, acc, ch.runtime, who),
           NEW letter \in BooleanModes, NEW add \in BOOLEAN,
           LocksChecked /\ Enabled(reg) => (letter \in reg.mode_lock) = add
    PROVE  LET n == [ch EXCEPT !.modes = IF add THEN @ \cup {letter} ELSE @ \ {letter}]
           IN Follows(n, reg, acc, n.runtime, who)
<1> DEFINE modes == IF add THEN ch.modes \cup {letter} ELSE ch.modes \ {letter}
           n == [ch EXCEPT !.modes = modes]
<1>1. "r" \in modes <=> "r" \in ch.modes
  BY DEF BooleanModes
<1>2. LocksChecked /\ Enabled(reg) => ch.mode_lock \subseteq modes
  <2> SUFFICES ASSUME LocksChecked, Enabled(reg) PROVE ch.mode_lock \subseteq modes
    OBVIOUS
  <2>1. ch.mode_lock \subseteq ch.modes /\ ch.mode_lock = reg.mode_lock
    BY DEF Follows, Policy, Cached
  <2>2. ~add => letter \notin reg.mode_lock
    OBVIOUS
  <2> QED BY <2>1, <2>2
<1> HIDE DEF modes
<1>3. /\ n.modes = modes /\ n.loaded = ch.loaded /\ n.valid = ch.valid /\ n.founder = ch.founder
      /\ n.mode_lock = ch.mode_lock /\ n.secure_ops = ch.secure_ops /\ SameGrants(n, ch)
  BY DEF Channel, SameGrants
<1> HIDE DEF n
<1>4. Policy(n, reg, n.runtime)
  BY <1>1, <1>2, <1>3, Zenon DEF Follows, Policy, Cached
<1>5. \A x \in n.members : Holds(n, x, reg, acc, who[x])
  BY <1>3, Zenon DEF Follows, SameGrants, Holds
<1> QED BY <1>4, <1>5 DEF Follows, n, modes

(* Grants by hand: SecureOps bounds what they may reach.                   *)
LEMMA GrantFollows ==
    ASSUME NEW ch \in Channel, NEW reg, NEW acc, NEW who, Follows(ch, reg, acc, ch.runtime, who),
           NEW y \in Clients, NEW manual,
           y \in ch.members /\ ch.secure_ops => manual \subseteq Eligible(GrantedBy(reg, acc, who[y]))
    PROVE  LET n == SetPrivileges(ch, y, manual, ch.service[y])
           IN Follows(n, reg, acc, n.runtime, who)
<1> DEFINE n == SetPrivileges(ch, y, manual, ch.service[y])
<1>1. /\ SameCache(n, ch) /\ n.runtime = ch.runtime /\ n.members = ch.members
      /\ n.manual = [ch.manual EXCEPT ![y] = manual] /\ n.service = [ch.service EXCEPT ![y] = ch.service[y]]
  BY DEF SetPrivileges, Channel, SameCache
<1>2. ch.members \subseteq Clients /\ ch.manual \in [Clients -> SUBSET Privileges]
      /\ ch.service \in [Clients -> SUBSET Privileges]
  BY DEF Channel
<1> HIDE DEF n
<1>3. Policy(n, reg, n.runtime)
  BY <1>1, SamePolicyHolds, Zenon DEF SamePolicy, Follows
<1>4. ASSUME NEW x \in ch.members PROVE Holds(n, x, reg, acc, who[x])
  <2>1. Holds(ch, x, reg, acc, who[x]) /\ n.service[x] = ch.service[x] /\ n.secure_ops = ch.secure_ops
    BY <1>1, <1>2, Zenon DEF Follows, SameCache
  <2>2. CASE x = y
    BY <1>1, <1>2, <2>1, <2>2, SMT, SMTT(30) DEF Holds
  <2>3. CASE x # y
    BY <1>1, <1>2, <2>1, <2>3 DEF Holds
  <2> QED BY <2>2, <2>3
<1> QED BY <1>1, <1>3, <1>4 DEF Follows, n

LEMMA PrivilegeFollows ==
    ASSUME NEW ch \in Channel, NEW c, Follows(ch, registration[c], access[c], ch.runtime, account),
           NEW x, NEW d \in Change, d.letter \in Privileges, NEW e, "open" \notin e
    PROVE  LET n == ModePrivilege(ch, c, x, d, e)
           IN Follows(n, registration[c], access[c], n.runtime, account)
<1> DEFINE y == d.arg
           more == ch.manual[y] \cup {d.letter}
           less == ch.manual[y] \ {d.letter}
           granted == GrantedBy(registration[c], access[c], account[y])
<1>1. y \in Clients
  BY ChangeTypes
<1>2. secureops_allows(ch, c, y, d.letter, e) /\ ch.secure_ops => d.letter \in Eligible(granted)
  BY GrantsAgree DEF secureops_allows, Follows, Policy
<1>3. y \in ch.members /\ ch.secure_ops => ch.manual[y] \subseteq Eligible(granted)
  BY DEF Follows, Holds
<1>4. y \in ch.members /\ ch.secure_ops => less \subseteq Eligible(granted)
  BY <1>3
<1>5. secureops_allows(ch, c, y, d.letter, e) =>
        (y \in ch.members /\ ch.secure_ops => more \subseteq Eligible(granted))
  BY <1>2, <1>3, Zenon
<1>6. \/ ModePrivilege(ch, c, x, d, e) = ch
      \/ /\ secureops_allows(ch, c, y, d.letter, e)
         /\ ModePrivilege(ch, c, x, d, e) = SetPrivileges(ch, y, more, ch.service[y])
      \/ ModePrivilege(ch, c, x, d, e) = SetPrivileges(ch, y, less, ch.service[y])
  BY Zenon DEF ModePrivilege, channel_add_privileges, channel_remove_manual_privileges
<1> HIDE DEF y, more, less
<1> QED BY <1>1, <1>4, <1>5, <1>6, GrantFollows, ZenonT(40) DEF granted

LEMMA ChangeFollows ==
    ASSUME NEW ch \in Channel, NEW c, Follows(ch, registration[c], access[c], ch.runtime, account),
           NEW x, NEW d \in Change \cup {None}, LockAllows(registration[c], d), NEW e, "open" \notin e
    PROVE  LET n == ModeChange(ch, c, x, d, e)
           IN Follows(n, registration[c], access[c], n.runtime, account)
<1>1. CASE d = None
  BY <1>1 DEF ModeChange
<1>2. CASE d \in Change /\ d.letter \in BooleanModes
  <2>1. ModeChange(ch, c, x, d, e) = [ch EXCEPT !.modes = IF d.add THEN @ \cup {d.letter} ELSE @ \ {d.letter}]
    BY <1>2, NoneIsNothing, Zenon DEF ModeChange
  <2>2. d.add \in BOOLEAN /\ d # None
    BY <1>2, ChangeTypes, NoneIsNothing
  <2>3. LocksChecked /\ Enabled(registration[c]) => (d.letter \in registration[c].mode_lock) = d.add
    BY <1>2, <2>2, Zenon DEF LockAllows
  <2> QED BY <1>2, <2>1, <2>2, <2>3, BooleanFollows
<1>3. CASE d \in Change /\ d.letter \in Privileges
  <2>1. ModeChange(ch, c, x, d, e) = ModePrivilege(ch, c, x, d, e)
    BY <1>3, NoneIsNothing, Zenon DEF ModeChange, BooleanModes, Privileges
  <2> QED BY <1>3, <2>1, PrivilegeFollows
<1>4. CASE d \in Change /\ d.letter \in {"b", "e", "I", "k", "l", "j", "L", "B"}
  <2>1. ModeChange(ch, c, x, d, e) \in {ModeMask(ch, x, d), ModeParameter(ch, d)}
    BY <1>4, NoneIsNothing, Zenon DEF ModeChange, BooleanModes, Privileges
  <2>2. /\ SameCache(ModeChange(ch, c, x, d, e), ch)
        /\ SameGrants(ModeChange(ch, c, x, d, e), ch)
    BY <2>1, RuntimeModes, ZenonT(40)
  <2> QED BY <2>2, SameGrantsFollow
<1> QED BY <1>1, <1>2, <1>3, <1>4, ChangeTypes

LEMMA LineFollows ==
    ASSUME NEW X, NEW ch, RightBut(ch, X), NEW c, Follows(ch, registration[c], access[c], ch.runtime, account),
           NEW x, NEW line \in ModeLines, NEW e, "open" \notin e,
           LockAllows(registration[c], line[1]), LockAllows(registration[c], line[2])
    PROVE  LET n == mode_channel(ch, c, x, line, e)
           IN Follows(n, registration[c], access[c], n.runtime, account)
<1> DEFINE first == ModeChange(ch, c, x, line[1], e)
           second == ModeChange(first, c, x, line[2], e)
<1>1. line[1] \in Change \cup {None} /\ line[2] \in Change \cup {None} /\ ch \in Channel
  BY Inputs DEF RightBut
<1>2. first \in Channel
  BY <1>1, ChangeRight, Zenon DEF RightBut
<1>3. Follows(first, registration[c], access[c], first.runtime, account)
  BY <1>1, ChangeFollows, Zenon
<1>4. Follows(second, registration[c], access[c], second.runtime, account)
  <2> HIDE DEF first
  <2> QED BY <1>1, <1>2, <1>3, ChangeFollows, Zenon
<1> QED BY <1>4 DEF mode_channel

(* The save at the end of the line writes the runtime it left.             *)
LEMMA SaveFollows ==
    ASSUME NEW n, NEW after, SamePolicy(n, after), NEW reg, NEW acc, NEW who,
           Follows(n, reg, acc, n.runtime, who), NEW st, NEW e, Tame(e)
    PROVE  Follows(n, reg, acc, chanserv_persist_channel(after, st, e), who)
<1>1. StorageWorks /\ Enabled(reg) => chanserv_persist_channel(after, st, e) = n.runtime
  BY DEF Follows, Policy, Cached, SamePolicy, SameCache, Tame, chanserv_persist_channel
<1> QED BY <1>1 DEF Follows, Policy

(* The operator of a SAMODE is a member who holds nothing of its own.      *)
LEMMA ActingFollows ==
    ASSUME NEW ch, RightBut(ch, {}), NEW x \in Clients, NEW reg, NEW acc, NEW who,
           Follows(ch, reg, acc, ch.runtime, who)
    PROVE  LET acting == [ch EXCEPT !.members = @ \cup {x}, !.privileges[x] = @ \cup Ownership]
           IN /\ RightBut(acting, {x}) /\ acting.members = ch.members \cup {x}
              /\ Follows(acting, reg, acc, acting.runtime, who)
<1> DEFINE acting == [ch EXCEPT !.members = @ \cup {x}, !.privileges[x] = @ \cup Ownership]
<1>1. ch \in Channel
  BY DEF RightBut
<1>2. ch.privileges[x] \cup Ownership \in SUBSET Privileges
  BY <1>1 DEF Channel, Ownership, Privileges
<1>3. acting \in Channel
  BY <1>1, <1>2, Zenon DEF Channel
<1>4. /\ acting.members = ch.members \cup {x} /\ acting.manual = ch.manual /\ acting.service = ch.service
      /\ acting.privileges = [ch.privileges EXCEPT ![x] = @ \cup Ownership]
      /\ SamePolicy(acting, ch)
  BY <1>1, Zenon DEF Channel, SamePolicy, SameCache
<1> HIDE DEF acting
<1>5. RightBut(acting, {x})
  BY <1>1, <1>3, <1>4, ZenonT(40) DEF RightBut, Channel
<1>6. Policy(acting, reg, acting.runtime)
  BY <1>4, SamePolicyHolds, Zenon DEF Follows, SamePolicy
<1>7. x \notin ch.members => ch.manual[x] = {} /\ ch.service[x] = {}
  BY Zenon DEF RightBut
<1>8. \A y \in acting.members : Holds(acting, y, reg, acc, who[y])
  BY <1>4, <1>7, Zenon DEF Follows, Holds, SamePolicy, SameCache
<1> QED BY <1>4, <1>5, <1>6, <1>8, Zenon DEF Follows, acting

LEMMA EndOverrideFollows ==
    ASSUME NEW ch \in Channel, NEW x \in Clients, NEW reg, NEW acc, NEW who,
           Follows(ch, reg, acc, ch.runtime, who), NEW after \in Channel, after.members = ch.members \cup {x},
           Follows(after, reg, acc, after.runtime, who)
    PROVE  LET n == EndOverride(after, ch, x)
           IN SamePolicy(n, after) /\ Follows(n, reg, acc, n.runtime, who)
<1> DEFINE n == EndOverride(after, ch, x)
<1>1. /\ n.members = ch.members /\ SamePolicy(n, after)
      /\ n.manual = [after.manual EXCEPT ![x] = ch.manual[x]]
      /\ n.service = [after.service EXCEPT ![x] = ch.service[x]]
  BY DEF EndOverride, Channel, SamePolicy, SameCache
<1>2. /\ after.manual \in [Clients -> SUBSET Privileges] /\ after.service \in [Clients -> SUBSET Privileges]
      /\ ch.members \subseteq Clients
  BY DEF Channel
<1> HIDE DEF n
<1>3. Policy(n, reg, n.runtime)
  BY <1>1, SamePolicyHolds DEF Follows, SamePolicy
<1>4. n.secure_ops => ch.secure_ops
  BY <1>3, Zenon DEF Follows, Policy, Cached
<1>5. ASSUME NEW y \in ch.members PROVE Holds(n, y, reg, acc, who[y])
  <2>1. CASE y = x
    <3>1. n.manual[y] = ch.manual[y] /\ n.service[y] = ch.service[y] /\ Holds(ch, y, reg, acc, who[y])
      BY <1>1, <1>2, <2>1, Zenon DEF Follows
    <3> QED BY <1>4, <3>1, Zenon DEF Holds
  <2>2. CASE y # x
    <3>1. /\ n.manual[y] = after.manual[y] /\ n.service[y] = after.service[y]
          /\ Holds(after, y, reg, acc, who[y]) /\ n.secure_ops = after.secure_ops
      BY <1>1, <1>2, <2>2, Zenon DEF Follows, SamePolicy, SameCache
    <3> QED BY <3>1, Zenon DEF Holds
  <2> QED BY <2>1, <2>2, Zenon
<1> QED BY <1>1, <1>3, <1>5, Zenon DEF Follows, n

-----------------------------------------------------------------------------
(* Members come and go.                                                    *)

(* n is ch with other members, x holding nothing.                          *)
Moved(n, ch, members, x) ==
    /\ SamePolicy(n, ch) /\ n.members = members /\ n.invites = ch.invites
    /\ n.manual = [ch.manual EXCEPT ![x] = {}] /\ n.service = [ch.service EXCEPT ![x] = {}]
    /\ n.manual[x] = {} /\ n.service[x] = {}

LEMMA MembersShape ==
    ASSUME NEW ch \in Channel, NEW x \in Clients, NEW members
    PROVE  Moved(WithMembers(ch, members, x), ch, members, x)
<1> DEFINE n == WithMembers(ch, members, x)
<1>1. /\ SamePolicy(n, ch) /\ n.members = members /\ n.invites = ch.invites
      /\ n.manual = [ch.manual EXCEPT ![x] = {}] /\ n.service = [ch.service EXCEPT ![x] = {}]
  BY DEF WithMembers, SetPrivileges, Channel, SamePolicy, SameCache
<1>2. ch.manual \in [Clients -> SUBSET Privileges] /\ ch.service \in [Clients -> SUBSET Privileges]
  BY Zenon DEF Channel
<1> HIDE DEF n
<1> QED BY <1>1, <1>2 DEF n, Moved

LEMMA MembersFollow ==
    ASSUME NEW ch \in Channel, NEW x \in Clients, NEW members, members \subseteq ch.members \cup {x},
           NEW reg, NEW acc, NEW st, NEW who, Follows(ch, reg, acc, st, who)
    PROVE  Follows(WithMembers(ch, members, x), reg, acc, st, who)
<1> DEFINE n == WithMembers(ch, members, x)
<1>1. /\ SamePolicy(n, ch) /\ n.members = members
      /\ n.manual = [ch.manual EXCEPT ![x] = {}] /\ n.service = [ch.service EXCEPT ![x] = {}]
      /\ n.manual[x] = {} /\ n.service[x] = {}
  BY MembersShape DEF Moved
<1>2. /\ ch.manual \in [Clients -> SUBSET Privileges] /\ ch.service \in [Clients -> SUBSET Privileges]
      /\ ch.members \subseteq Clients
  BY DEF Channel
<1> HIDE DEF n
<1>3. Policy(n, reg, st)
  BY <1>1, SamePolicyHolds DEF Follows
<1>4. ASSUME NEW y \in members PROVE Holds(n, y, reg, acc, who[y])
  <2>1. CASE y = x
    BY <1>1, <2>1, Zenon DEF Holds
  <2>2. CASE y # x
    <3>1. /\ n.manual[y] = ch.manual[y] /\ n.service[y] = ch.service[y] /\ y \in ch.members
          /\ n.secure_ops = ch.secure_ops
      BY <1>1, <1>2, <2>2 DEF SamePolicy, SameCache
    <3> QED BY <3>1 DEF Holds, Follows
  <2> QED BY <2>1, <2>2, Zenon
<1> QED BY <1>1, <1>3, <1>4, ZenonT(40) DEF Follows, n

LEMMA LeaveShape ==
    ASSUME NEW w, NEW conn, Sound(w, conn), NEW c \in Channels, NEW x \in Clients, w.channel[c] # None
    PROVE  /\ \A d \in Channels \ {c} : Leave(w, c, x).channel[d] = w.channel[d]
           /\ \/ Leave(w, c, x).channel[c] = None
              \/ Leave(w, c, x).channel[c] = WithMembers(w.channel[c], w.channel[c].members \ {x}, x)
<1> DEFINE n == WithMembers(w.channel[c], w.channel[c].members \ {x}, x)
           v == channel_remove_client(w, c, x)
<1>1. RightBut(n, {})
  BY WorldShape, LeaveRecord
<1>2. v = [w EXCEPT !.channel[c] = n, !.joined[x] = w.joined[x] \ {c}]
  BY DEF channel_remove_client
<1> HIDE DEF n
<1>3. v.channel = [w.channel EXCEPT ![c] = n]
  BY <1>2, WorldShape
<1>4. v.channel[c] = n /\ \A d \in Channels \ {c} : v.channel[d] = w.channel[d]
  BY <1>3, WorldShape
<1>5. /\ \/ Leave(w, c, x) = v
         \/ Leave(w, c, x) = [v EXCEPT !.channel[c] = None]
      /\ v = [channel |-> v.channel, joined |-> v.joined] /\ v.channel \in [Channels -> Channel \cup {None}]
  <2>1. Sound(v, conn)
    BY RemoveSound, Zenon
  <2> HIDE DEF v
  <2> QED BY <2>1, WorldShape DEF Leave, server_remove_channel_if_empty, v
<1> HIDE DEF v
<1>6. CASE Leave(w, c, x) = v
  BY <1>4, <1>6 DEF n
<1>7. CASE Leave(w, c, x) = [v EXCEPT !.channel[c] = None]
  <2>1. Leave(w, c, x).channel = [v.channel EXCEPT ![c] = None]
    BY <1>5, <1>7, Zenon
  <2> QED BY <1>4, <1>5, <2>1
<1> QED BY <1>5, <1>6, <1>7, Zenon

LEMMA LeaveFollows ==
    ASSUME NEW w, NEW conn, Sound(w, conn), NEW c \in Channels, NEW x \in Clients, w.channel[c] # None,
           NEW reg, NEW acc, NEW st, NEW who, Follows(w.channel[c], reg, acc, st, who)
    PROVE  Leave(w, c, x).channel[c] # None => Follows(Leave(w, c, x).channel[c], reg, acc, st, who)
<1> DEFINE ch == w.channel[c]
           left == ch.members \ {x}
<1>1. ch \in Channel /\ left \in SUBSET Clients /\ left \subseteq ch.members \cup {x}
  BY WorldShape, Zenon DEF Channel
<1>2. Follows(WithMembers(ch, left, x), reg, acc, st, who)
  <2> HIDE DEF ch, left
  <2> QED BY <1>1, MembersFollow DEF ch
<1> QED BY <1>2, LeaveShape, Zenon

-----------------------------------------------------------------------------
(* JOIN.                                                                   *)

(* The channel as one level of join_one() decides about it.                *)
Ready(w, c, e) == [server_get_or_create_channel(w, c) EXCEPT !.channel[c] = RestoredForJoin(@, c, e)]

InvitesOf(chs, c) == IF chs[c] = None THEN {} ELSE chs[c].invites

(* A restore keeps the invitations, and makes the channel follow its rows. *)
LEMMA RestoredInvites ==
    ASSUME TablesOK, NEW c \in Channels, NEW ch, RightBut(ch, {}), NEW e
    PROVE  RestoredForJoin(ch, c, e).invites = ch.invites
<1> DEFINE r == chanserv_restore_channel(ch, registration[c], stored[c], e)
           rt == chanserv_persist_restore(r.runtime, stored[c], e)
<1>1. registration[c] \in RegistrationRow \cup {None} /\ stored[c] \in Runtime /\ ch \in Channel
  BY Zenon DEF TablesOK, RightBut
<1>2. r \in Channel
  BY <1>1, RefreshRight DEF chanserv_restore_channel, RightBut
<1>3. r.invites = ch.invites
  BY <1>1 DEF chanserv_restore_channel, chanserv_refresh_channel, cache_policy, clear_cached_policy, Channel
<1> HIDE DEF r
<1>4. RestoredForJoin(ch, c, e) = IF "r" \in r.modes THEN [r EXCEPT !.runtime = rt] ELSE r
  BY Zenon DEF RestoredForJoin, r
<1> QED BY <1>2, <1>3, <1>4, Zenon DEF Channel

LEMMA RestoredFollows ==
    ASSUME TablesOK, NEW c \in Channels, NEW ch, RightBut(ch, {}), NEW e, Tame(e),
           \/ ch = channel_create
           \/ Follows(ch, registration[c], access[c], stored[c], account)
    PROVE  LET n == RestoredForJoin(ch, c, e)
           IN /\ Follows(n, registration[c], access[c], stored[c], account)
              /\ Enabled(registration[c]) /\ ~RestoreFails(e) => n.runtime = stored[c]
<1> DEFINE reg == registration[c]
           acc == access[c]
           st == stored[c]
           r == chanserv_restore_channel(ch, reg, st, e)
           rt == chanserv_persist_restore(r.runtime, st, e)
           n == [r EXCEPT !.runtime = rt]
<1>1. reg \in RegistrationRow \cup {None} /\ st \in Runtime /\ ch \in Channel
  BY Zenon DEF TablesOK, RightBut
<1>2. r \in Channel
  BY <1>1, RefreshRight, Zenon DEF chanserv_restore_channel, RightBut
<1>3. Follows(r, reg, acc, st, account)
  <2>1. CASE ch = channel_create
    <3>1. r = chanserv_refresh_channel(ch, reg, st, e)
      BY <2>1, Zenon DEF chanserv_restore_channel, channel_create
    <3>2. r.members = {}
      BY <1>1, <2>1, <3>1, RefreshRight, CreateRight, SMT, SMTT(30)
    <3>3. Policy(r, reg, st)
      BY <1>1, <3>1, RefreshPolicy, SMT, SMTT(30)
    <3> QED BY <3>2, <3>3, Zenon DEF Follows
  <2>2. CASE Follows(ch, reg, acc, st, account)
    BY <2>2, Zenon DEF chanserv_restore_channel, Follows, Policy, Cached
  <2> QED BY <2>1, <2>2, Zenon
<1>4. RestoredForJoin(ch, c, e) = IF "r" \in r.modes THEN n ELSE r
  BY Zenon DEF RestoredForJoin
<1>5. /\ StorageWorks => rt = st
      /\ ~RestoreFails(e) => rt = st
  BY DEF Tame, RestoreFails, chanserv_persist_restore
<1> HIDE DEF r, rt
<1>6. SameCache(n, r) /\ SameGrants(n, r) /\ n.runtime = rt
  BY <1>2, Zenon DEF Channel, SameCache, SameGrants
<1>7. Follows(r, reg, acc, r.runtime, account)
  BY <1>3 DEF Follows, Policy
<1> HIDE DEF n, reg, acc, st
<1>8. Follows(n, reg, acc, n.runtime, account)
  BY <1>6, <1>7, SameGrantsFollow, Zenon
<1>9. Follows(n, reg, acc, st, account)
  BY <1>5, <1>6, <1>8, Zenon DEF Follows, Policy
<1>10. "r" \in r.modes <=> Enabled(reg)
  BY <1>3, ZenonT(40) DEF Follows, Policy, Cached
<1> QED BY <1>3, <1>4, <1>5, <1>6, <1>9, <1>10, Zenon DEF reg, acc, st

LEMMA ReadyShape ==
    ASSUME TablesOK, NEW w, NEW conn, Sound(w, conn), NEW c \in Channels, NEW e
    PROVE  LET v == Ready(w, c, e)
           IN /\ Sound(v, conn) /\ v.joined = w.joined
              /\ v.channel[c] # None /\ RightBut(v.channel[c], {})
              /\ \A d \in Channels \ {c} : v.channel[d] = w.channel[d]
              /\ v.channel[c].members = MembersOf(w.channel, c)
              /\ v.channel[c].invites = InvitesOf(w.channel, c)
<1> DEFINE opened == server_get_or_create_channel(w, c)
           old == opened.channel[c]
           n == RestoredForJoin(old, c, e)
           v == Ready(w, c, e)
<1>1. Sound(opened, conn) /\ opened.joined = w.joined /\ old # None /\ RightBut(old, {})
  BY OpenSound
<1>2. /\ old.members = MembersOf(w.channel, c) /\ old.invites = InvitesOf(w.channel, c)
      /\ \A d \in Channels \ {c} : opened.channel[d] = w.channel[d]
  <2>1. CASE w.channel[c] = None
    <3>1. opened = [w EXCEPT !.channel[c] = channel_create]
      BY <2>1 DEF server_get_or_create_channel
    <3>2. opened.channel = [w.channel EXCEPT ![c] = channel_create]
      BY <3>1, WorldShape
    <3>3. old = channel_create /\ \A d \in Channels \ {c} : opened.channel[d] = w.channel[d]
      BY <3>2, WorldShape
    <3> QED BY <2>1, <3>3 DEF channel_create, MembersOf, InvitesOf
  <2>2. CASE w.channel[c] # None
    BY <2>2 DEF server_get_or_create_channel, MembersOf, InvitesOf
  <2> QED BY <2>1, <2>2, ZenonT(40)
<1> HIDE DEF opened
<1>3. RightBut(n, {}) /\ n.members = old.members /\ n.invites = old.invites
  BY <1>1, RestoredRight, RestoredInvites
<1>4. v = [opened EXCEPT !.channel[c] = n]
  BY DEF Ready, opened
<1> HIDE DEF n, v
<1>5. v.channel = [opened.channel EXCEPT ![c] = n] /\ v.joined = opened.joined
  BY <1>1, <1>4, WorldShape
<1>6. v.channel[c] = n /\ \A d \in Channels \ {c} : v.channel[d] = opened.channel[d]
  BY <1>1, <1>5, WorldShape, ZenonT(40)
<1>7. n # None
  BY <1>3, NoneIsNoRecord, Zenon DEF RightBut
<1>8. n.members = MembersOf(opened.channel, c)
  BY <1>1, <1>3 DEF MembersOf
<1>9. Sound(v, conn)
  BY <1>1, <1>3, <1>4, <1>8, Replace, ZenonT(40)
<1> QED BY <1>1, <1>2, <1>3, <1>5, <1>6, <1>7, <1>9, ZenonT(40) DEF v

LEMMA ReadyFollows ==
    ASSUME TablesOK, NEW w, NEW conn, Sound(w, conn), NEW c \in Channels, NEW e, Tame(e),
           Following(w.channel, registration, access, stored, account)
    PROVE  LET v == Ready(w, c, e)
           IN /\ Following(v.channel, registration, access, stored, account)
              /\ Follows(v.channel[c], registration[c], access[c], stored[c], account)
              /\ Enabled(registration[c]) /\ ~RestoreFails(e) => v.channel[c].runtime = stored[c]
<1> DEFINE opened == server_get_or_create_channel(w, c)
           old == opened.channel[c]
           n == RestoredForJoin(old, c, e)
           v == Ready(w, c, e)
<1>1. Sound(opened, conn) /\ RightBut(old, {})
  BY OpenSound, Zenon
<1>2. old = channel_create \/ Follows(old, registration[c], access[c], stored[c], account)
  <2>1. CASE w.channel[c] = None
    BY <2>1, WorldShape DEF server_get_or_create_channel
  <2>2. CASE w.channel[c] # None
    BY <2>2, ZenonT(40) DEF server_get_or_create_channel, Following
  <2> QED BY <2>1, <2>2
<1> HIDE DEF opened
<1>3. /\ Follows(n, registration[c], access[c], stored[c], account)
      /\ Enabled(registration[c]) /\ ~RestoreFails(e) => n.runtime = stored[c]
  <2> HIDE DEF old
  <2> QED BY <1>1, <1>2, RestoredFollows
<1>4. v = [opened EXCEPT !.channel[c] = n]
  BY DEF Ready, opened
<1> HIDE DEF n
<1>5. v.channel[c] = n
  BY <1>1, <1>4, WorldShape, SMT, SMTT(30)
<1>6. \A d \in Channels \ {c} : v.channel[d] = w.channel[d]
  BY ReadyShape, SMT, SMTT(30)
<1> HIDE DEF v
<1>7. Following(v.channel, registration, access, stored, account)
  BY <1>3, <1>5, <1>6, ZenonT(40) DEF Following
<1> QED BY <1>3, <1>5, <1>7, Zenon DEF v

(* What admitting x to c does to the world, whatever fails.                *)
Admitted(v, w, c, x) ==
    /\ v.joined = [w.joined EXCEPT ![x] = @ \cup {c}]
    /\ \A d \in Channels \ {c} : v.channel[d] = w.channel[d]
    /\ v.channel[c] # None
    /\ SamePolicy(v.channel[c], w.channel[c])
    /\ v.channel[c].members = w.channel[c].members \cup {x}
    /\ v.channel[c].invites = w.channel[c].invites \ {x}

(* The record of the admitted, before anybody's privileges are decided.    *)
Entering(w, c, x) == channel_invite_consume(WithMembers(w.channel[c], w.channel[c].members \cup {x}, x), x)

EnteredAs(n, ch, x) ==
    /\ n \in Channel /\ SamePolicy(n, ch) /\ n.members = ch.members \cup {x}
    /\ n.invites = ch.invites \ {x} /\ n.manual[x] = {} /\ n.service[x] = {}

LEMMA EnteringShape ==
    ASSUME NEW w, NEW conn, Sound(w, conn), NEW c \in Channels, NEW x \in Clients, w.channel[c] # None
    PROVE  EnteredAs(Entering(w, c, x), w.channel[c], x)
<1> DEFINE ch == w.channel[c]
           m == WithMembers(ch, ch.members \cup {x}, x)
           n == channel_invite_consume(m, x)
<1>1. ch \in Channel /\ RightBut(ch, {})
  BY WorldShape, Zenon
<1>2. m \in Channel
  BY <1>1, EnterRecord, Zenon DEF RightBut
<1>3. /\ SamePolicy(m, ch) /\ m.members = ch.members \cup {x} /\ m.invites = ch.invites
      /\ m.manual[x] = {} /\ m.service[x] = {}
  <2>1. Moved(m, ch, ch.members \cup {x}, x)
    BY <1>1, MembersShape
  <2> QED BY <2>1, Zenon DEF Moved
<1> HIDE DEF m
<1>4. /\ n \in Channel /\ SamePolicy(n, m) /\ n.members = m.members /\ n.invites = m.invites \ {x}
      /\ n.manual = m.manual /\ n.service = m.service
  BY <1>2, Zenon DEF channel_invite_consume, Channel, SamePolicy, SameCache
<1> HIDE DEF n
<1>5. EnteredAs(n, ch, x)
  BY <1>3, <1>4, ZenonT(40) DEF SamePolicy, SameCache, EnteredAs
<1> QED BY <1>5 DEF n, m, Entering

LEMMA EnteringFollows ==
    ASSUME NEW w, NEW conn, Sound(w, conn), NEW c \in Channels, NEW x \in Clients, w.channel[c] # None,
           NEW reg, NEW acc, NEW st, NEW who, Follows(w.channel[c], reg, acc, st, who)
    PROVE  Follows(Entering(w, c, x), reg, acc, st, who)
<1> DEFINE ch == w.channel[c]
           m == WithMembers(ch, ch.members \cup {x}, x)
           n == channel_invite_consume(m, x)
<1>1. ch \in Channel /\ RightBut(ch, {})
  BY WorldShape, ZenonT(40)
<1>2. m \in Channel
  BY <1>1, EnterRecord, ZenonT(40) DEF RightBut
<1>3. Follows(m, reg, acc, st, who)
  BY <1>1, MembersFollow
<1> HIDE DEF m
<1>4. SamePolicy(n, m) /\ n.members = m.members /\ n.manual = m.manual /\ n.service = m.service
  BY <1>2 DEF channel_invite_consume, Channel, SamePolicy, SameCache
<1> HIDE DEF n
<1>5. Policy(n, reg, st)
  BY <1>3, <1>4, SamePolicyHolds, ZenonT(40) DEF Follows
<1>6. \A y \in n.members : Holds(n, y, reg, acc, who[y])
  BY <1>3, <1>4, ZenonT(40) DEF Follows, Holds, SamePolicy, SameCache
<1> QED BY <1>5, <1>6 DEF Follows, n, m, Entering

(* The record of the admitted once privileges are decided.                 *)
Settled(w, c, x, e) ==
    LET n == Entering(w, c, x)
    IN IF "r" \in n.modes THEN SyncMembers(n, registration[c], access[c], account, Clients, e)
       ELSE IF w.channel[c].members = {} THEN channel_add_privileges(n, x, Ownership)
       ELSE n

LEMMA AdmitIs ==
    ASSUME NEW w, NEW conn, Sound(w, conn), NEW c \in Channels, NEW x \in Clients, w.channel[c] # None, NEW e
    PROVE  /\ Admit(w, c, x, e).channel = [w.channel EXCEPT ![c] = Settled(w, c, x, e)]
           /\ Admit(w, c, x, e).joined = [w.joined EXCEPT ![x] = @ \cup {c}]
<1> DEFINE m == WithMembers(w.channel[c], w.channel[c].members \cup {x}, x)
           added == channel_add_client(w, c, x)
           s == Settled(w, c, x, e)
<1>1. added = [w EXCEPT !.channel[c] = m, !.joined[x] = w.joined[x] \cup {c}]
  BY Zenon DEF channel_add_client
<1> HIDE DEF m
<1>2. added.channel = [w.channel EXCEPT ![c] = m] /\ added.joined = [w.joined EXCEPT ![x] = @ \cup {c}]
      /\ added = [channel |-> added.channel, joined |-> added.joined]
  <2>1. /\ w = [channel |-> w.channel, joined |-> w.joined]
        /\ w.channel \in [Channels -> Channel \cup {None}] /\ w.joined \in [Clients -> SUBSET Channels]
    BY WorldShape
  <2> HIDE DEF added
  <2>2. added = [channel |-> [w.channel EXCEPT ![c] = m], joined |-> [w.joined EXCEPT ![x] = @ \cup {c}]]
    BY <1>1, <2>1, ZenonT(40)
  <2> QED BY <2>2
<1>3. added.channel[c] = m
  BY <1>2, WorldShape
<1>4. Admit(w, c, x, e) = [added EXCEPT !.channel[c] = s]
  <2> DEFINE y == channel_invite_consume(added.channel[c], x)
             entered == IF "r" \in y.modes THEN SyncMembers(y, registration[c], access[c], account, Clients, e)
                        ELSE IF w.channel[c].members = {} THEN channel_add_privileges(y, x, Ownership)
                        ELSE y
  <2>1. Admit(w, c, x, e) = [added EXCEPT !.channel[c] = entered]
    BY Zenon DEF Admit
  <2>2. y = Entering(w, c, x)
    BY <1>3, ZenonT(40) DEF Entering, m
  <2> HIDE DEF y
  <2>3. entered = s
    BY <2>2 DEF Settled
  <2> HIDE DEF entered, s, added
  <2> QED BY <2>1, <2>3
<1> HIDE DEF added, s
<1>5. /\ Admit(w, c, x, e).channel = [added.channel EXCEPT ![c] = s]
      /\ Admit(w, c, x, e).joined = added.joined
  BY <1>2, <1>4, Zenon
<1> QED BY <1>2, <1>5, WorldShape DEF s

LEMMA AdmitShape ==
    ASSUME TablesOK, NEW w, NEW conn, Sound(w, conn), NEW c \in Channels, NEW x \in Clients, x \in conn,
           w.channel[c] # None, NEW e
    PROVE  /\ Admitted(Admit(w, c, x, e), w, c, x)
           /\ Admit(w, c, x, e).channel[c] = Settled(w, c, x, e)
<1> DEFINE n == Entering(w, c, x)
           s == Settled(w, c, x, e)
           v == Admit(w, c, x, e)
<1>1. /\ n \in Channel /\ SamePolicy(n, w.channel[c]) /\ n.members = w.channel[c].members \cup {x}
      /\ n.invites = w.channel[c].invites \ {x}
  <2>1. EnteredAs(n, w.channel[c], x)
    BY EnteringShape, Zenon
  <2> HIDE DEF n
  <2> QED BY <2>1 DEF EnteredAs
<1>2. v.channel = [w.channel EXCEPT ![c] = s] /\ v.joined = [w.joined EXCEPT ![x] = @ \cup {c}]
  BY AdmitIs
<1> HIDE DEF n
<1>3. s \in {SyncMembers(n, registration[c], access[c], account, Clients, e),
             channel_add_privileges(n, x, Ownership), n}
  BY Zenon DEF Settled, n
<1>4. SamePolicy(s, n) /\ s.members = n.members /\ s.invites = n.invites
  <2>1. LET y == SyncMembers(n, registration[c], access[c], account, Clients, e)
        IN SamePolicy(y, n) /\ y.members = n.members /\ y.invites = n.invites
    BY <1>1, SyncSame
  <2>2. LET y == channel_add_privileges(n, x, Ownership)
        IN SamePolicy(y, n) /\ y.members = n.members /\ y.invites = n.invites
    BY <1>1 DEF channel_add_privileges, SetPrivileges, Channel, SamePolicy, SameCache
  <2>3. SamePolicy(n, n)
    BY DEF SamePolicy, SameCache
  <2> HIDE DEF s
  <2> QED BY <1>3, <2>1, <2>2, <2>3, ZenonT(40)
<1> HIDE DEF s, v
<1>5. v.channel[c] = s /\ \A d \in Channels \ {c} : v.channel[d] = w.channel[d]
  BY <1>2, WorldShape, ZenonT(40)
<1>6. SamePolicy(s, w.channel[c])
  BY <1>1, <1>4, Zenon DEF SamePolicy, SameCache
<1>7. s # None
  <2>1. Sound(v, conn)
    BY AdmitSound DEF v
  <2>2. c \in v.joined[x]
    BY <1>2, WorldShape
  <2> QED BY <1>5, <2>1, <2>2, Zenon DEF Sound
<1> QED BY <1>1, <1>2, <1>4, <1>5, <1>6, <1>7, ZenonT(40) DEF Admitted, v, s

SettledWell(w, c, x, e, st) ==
    /\ Follows(Settled(w, c, x, e), registration[c], access[c], st, account)
    /\ Enabled(registration[c]) =>
          /\ Settled(w, c, x, e).manual[x] = {}
          /\ Settled(w, c, x, e).service[x] = GrantedBy(registration[c], access[c], account[x])

LEMMA SettledFollows ==
    ASSUME NEW w, NEW conn, Sound(w, conn), NEW c \in Channels, NEW x \in Clients, w.channel[c] # None,
           NEW e, Tame(e), NEW st, Follows(w.channel[c], registration[c], access[c], st, account)
    PROVE  SettledWell(w, c, x, e, st)
<1> DEFINE n == Entering(w, c, x)
           reg == registration[c]
           acc == access[c]
<1>1. n \in Channel /\ x \in n.members /\ n.manual[x] = {}
  <2>1. EnteredAs(n, w.channel[c], x)
    BY EnteringShape
  <2> HIDE DEF n
  <2> QED BY <2>1, ZenonT(40) DEF EnteredAs
<1>2. Follows(n, reg, acc, st, account)
  BY EnteringFollows, ZenonT(40)
<1>3. "r" \in n.modes <=> Enabled(reg)
  BY <1>2, ZenonT(40) DEF Follows, Policy, Cached
<1> HIDE DEF n, reg, acc
<1>4. CASE Enabled(reg)
  <2> DEFINE s == SyncMembers(n, reg, acc, account, Clients, e)
  <2>1. Settled(w, c, x, e) = s
    BY <1>3, <1>4, Zenon DEF Settled, n, reg, acc
  <2>2. Policy(n, reg, st) /\ Cached(n, reg) /\ "open" \notin e /\ n.members \ Clients = {}
    BY <1>1, <1>2, Zenon DEF Follows, Policy, Tame, Channel
  <2>3. Follows(s, reg, acc, st, account)
    BY <1>1, <2>2, SyncFollows, Zenon
  <2>4. Synced(s, n, reg, acc, account, Clients)
    BY <1>1, <2>2, SyncGrants, Zenon
  <2> HIDE DEF s
  <2>5. s.manual[x] = {} /\ s.service[x] = GrantedBy(reg, acc, account[x])
    BY <1>1, <2>4, Zenon DEF Synced
  <2> QED BY <2>1, <2>3, <2>5, Zenon DEF reg, acc, SettledWell
<1>5. CASE ~Enabled(reg)
  <2> DEFINE manual == n.manual[x] \cup Ownership
             s == SetPrivileges(n, x, manual, n.service[x])
  <2>1. Settled(w, c, x, e) \in {n, s}
    BY <1>3, <1>5, Zenon DEF Settled, channel_add_privileges, n
  <2>2. ~n.secure_ops /\ Follows(n, reg, acc, n.runtime, account)
    BY <1>2, <1>5, Zenon DEF Follows, Policy, Cached
  <2> HIDE DEF manual
  <2>3. Follows(s, reg, acc, s.runtime, account)
    BY <1>1, <2>2, GrantFollows, ZenonT(40)
  <2> HIDE DEF s
  <2>4. Follows(s, reg, acc, st, account)
    BY <1>5, <2>3, Zenon DEF Follows, Policy
  <2> QED BY <1>2, <1>5, <2>1, <2>4, Zenon DEF reg, acc, SettledWell
<1> QED BY <1>4, <1>5, Zenon

(* x passed every check of join_one() for the channel as it then was.      *)
Passed(ch, c, x, e) ==
    /\ x \notin ch.members
    /\ "r" \in ch.modes => ~RestoreFails(e)
    /\ ~Banned(ch.runtime, x, chanserv_client_privileges(ch, registration[c], access[c], account[x], e))
    /\ ~Full(ch)
    /\ ~ModesRefuse(ch, x, e)

(* One level of a JOIN: the client is turned away or sent on, or admitted. *)
JoinCase(w, c, x, key, e) ==
    \/ join_one(w, c, x, key, e).world \in {w, Ready(w, c, e)}
    \/ /\ w.channel[c] = None
       /\ join_one(w, c, x, key, e).world = server_remove_channel_if_empty(Ready(w, c, e), c)
    \/ /\ join_one(w, c, x, key, e).world = Admit(Ready(w, c, e), c, x, e)
       /\ join_one(w, c, x, key, e).next = None
       /\ Passed(Ready(w, c, e).channel[c], c, x, e)

LEMMA JoinOneCases ==
    ASSUME TablesOK, NEW w, NEW conn, Sound(w, conn), NEW c \in Channels, NEW x \in Clients, NEW key, NEW e
    PROVE  JoinCase(w, c, x, key, e)
<1> DEFINE opened == server_get_or_create_channel(w, c)
           ch == RestoredForJoin(opened.channel[c], c, e)
           ready == Ready(w, c, e)
           service == chanserv_client_privileges(ch, registration[c], access[c], account[x], e)
<1>1. Sound(opened, conn) /\ RightBut(opened.channel[c], {})
  BY OpenSound
<1>2. ready = [opened EXCEPT !.channel[c] = ch]
  BY DEF Ready
<1>3. ready.channel[c] = ch /\ ch.members = opened.channel[c].members
  <2>1. ch.members = opened.channel[c].members
    <3> HIDE DEF opened
    <3> QED BY <1>1, RestoredRight, ZenonT(40)
  <2> HIDE DEF ready, ch, opened
  <2> QED BY <1>1, <1>2, <2>1, WorldShape
<1>4. \/ join_one(w, c, x, key, e).world \in {w, [opened EXCEPT !.channel[c] = ch]}
      \/ /\ w.channel[c] = None
         /\ join_one(w, c, x, key, e).world =
               server_remove_channel_if_empty([opened EXCEPT !.channel[c] = ch], c)
      \/ /\ join_one(w, c, x, key, e).world = Admit([opened EXCEPT !.channel[c] = ch], c, x, e)
         /\ join_one(w, c, x, key, e).next = None
         /\ x \notin opened.channel[c].members
         /\ "r" \in ch.modes => ~RestoreFails(e)
         /\ ~Banned(ch.runtime, x, service)
         /\ ~Full(ch)
         /\ ~ModesRefuse(ch, x, e)
  BY Zenon DEF join_one
<1> HIDE DEF opened, ch, ready
<1> QED BY <1>2, <1>3, <1>4, Zenon DEF Passed, JoinCase, ready

(* The worlds a JOIN passes through before it admits anybody: memberships  *)
(* and invitations are those the step began with.                          *)
Before(w, conn, e) ==
    /\ Sound(w, conn) /\ w.joined = joined
    /\ \A d \in Channels : InvitesOf(w.channel, d) = InvitesOf(channel, d)
    /\ Tame(e) /\ Following(channel, registration, access, stored, account) =>
          Following(w.channel, registration, access, stored, account)

(* x is admitted to c from such a world.                                   *)
Admission(v, w, c, x, conn, e) ==
    /\ Before(w, conn, e)
    /\ v = Admit(Ready(w, c, e), c, x, e)
    /\ Passed(Ready(w, c, e).channel[c], c, x, e)

Reached(r, x, conn, e) ==
    \/ Before(r.world, conn, e) /\ r.next \in Channels \cup {None}
    \/ r.next = None /\ \E w : \E c \in Channels : Admission(r.world, w, c, x, conn, e)

LEMMA BeforeReady ==
    ASSUME TablesOK, NEW w, NEW conn, NEW e, Before(w, conn, e), NEW c \in Channels
    PROVE  Before(Ready(w, c, e), conn, e)
<1> DEFINE v == Ready(w, c, e)
<1>1. Sound(w, conn)
  BY Zenon DEF Before
<1>2. /\ Sound(v, conn) /\ v.joined = w.joined /\ v.channel[c] # None
      /\ \A d \in Channels \ {c} : v.channel[d] = w.channel[d]
      /\ v.channel[c].invites = InvitesOf(w.channel, c)
  BY <1>1, ReadyShape, SMT, SMTT(30)
<1>3. Tame(e) /\ Following(w.channel, registration, access, stored, account) =>
        Following(v.channel, registration, access, stored, account)
  BY <1>1, ReadyFollows, ZenonT(40)
<1> HIDE DEF v
<1>4. \A d \in Channels : InvitesOf(v.channel, d) = InvitesOf(w.channel, d)
  BY <1>2 DEF InvitesOf
<1> QED BY <1>2, <1>3, <1>4, Zenon DEF Before, v

(* A channel created for a JOIN that is turned away at once goes again.    *)
LEMMA BeforeRemoved ==
    ASSUME NEW w, NEW conn, NEW e, Before(w, conn, e), NEW c \in Channels, w.channel[c] # None,
           InvitesOf(channel, c) = {}
    PROVE  Before(server_remove_channel_if_empty(w, c), conn, e)
<1> DEFINE v == server_remove_channel_if_empty(w, c)
<1>1. Sound(w, conn)
  BY Zenon DEF Before
<1>2. Sound(v, conn) /\ v.joined = w.joined
  BY <1>1, RemoveIfEmptySound, Zenon
<1>3. v = w \/ v = [w EXCEPT !.channel[c] = None]
  BY DEF server_remove_channel_if_empty
<1> HIDE DEF v
<1>4. CASE v = w
  BY <1>4, Zenon DEF v
<1>5. CASE v = [w EXCEPT !.channel[c] = None]
  <2>1. v.channel = [w.channel EXCEPT ![c] = None]
    BY <1>1, <1>5, WorldShape, SMT, SMTT(30)
  <2>2. v.channel[c] = None /\ \A d \in Channels \ {c} : v.channel[d] = w.channel[d]
    BY <1>1, <2>1, WorldShape, Zenon
  <2>3. \A d \in Channels : InvitesOf(v.channel, d) = InvitesOf(channel, d)
    BY <2>2, ZenonT(40) DEF InvitesOf, Before
  <2>4. Following(w.channel, registration, access, stored, account) =>
          Following(v.channel, registration, access, stored, account)
    BY <2>2, Zenon DEF Following
  <2> QED BY <1>2, <2>3, <2>4, Zenon DEF Before, v
<1> QED BY <1>3, <1>4, <1>5, Zenon

LEMMA JoinOneReaches ==
    ASSUME TablesOK, NEW w, NEW conn, NEW e, Before(w, conn, e), NEW c \in Channels,
           NEW x \in Clients, x \in conn, NEW key
    PROVE  Reached(join_one(w, c, x, key, e), x, conn, e)
<1> DEFINE ready == Ready(w, c, e)
           r == join_one(w, c, x, key, e)
<1>1. Sound(w, conn)
  BY DEF Before
<1>2. r.next \in Channels \cup {None}
  BY <1>1, JoinOneSound, ZenonT(40)
<1>3. Before(ready, conn, e) /\ ready.channel[c] # None
  BY <1>1, BeforeReady, ReadyShape, SMT, SMTT(30)
<1>4. \/ r.world \in {w, ready}
      \/ w.channel[c] = None /\ r.world = server_remove_channel_if_empty(ready, c)
      \/ r.world = Admit(ready, c, x, e) /\ r.next = None /\ Passed(ready.channel[c], c, x, e)
  <2>1. JoinCase(w, c, x, key, e)
    BY <1>1, JoinOneCases, ZenonT(40)
  <2> QED BY <2>1, Zenon DEF JoinCase
<1>5. w.channel[c] = None => InvitesOf(channel, c) = {}
  BY DEF Before, InvitesOf
<1> HIDE DEF r
<1>6. w.channel[c] = None => Before(server_remove_channel_if_empty(ready, c), conn, e)
  <2> HIDE DEF ready
  <2> QED BY <1>3, <1>5, BeforeRemoved, Zenon
<1>7. CASE r.world = Admit(ready, c, x, e) /\ r.next = None /\ Passed(ready.channel[c], c, x, e)
  BY <1>7, Zenon DEF Reached, Admission, r
<1> QED BY <1>2, <1>3, <1>4, <1>6, <1>7, ZenonT(40) DEF Reached, r

(* A JOIN, along its redirects, admits to one channel at most.             *)
LEMMA ChainReaches ==
    ASSUME TablesOK, Sound(World, connected), NEW c \in Channels, NEW x \in Clients, x \in connected,
           NEW key, NEW e
    PROVE  \/ Before(JoinChain(c, x, key, e), connected, e)
           \/ \E w : \E d \in Channels : Admission(JoinChain(c, x, key, e), w, d, x, connected, e)
<1> DEFINE OK(r) == Reached(r, x, connected, e)
           r0 == join_one(World, c, x, key, e)
           r1 == FollowRedirect(r0, x, e)
           r2 == FollowRedirect(r1, x, e)
           r3 == FollowRedirect(r2, x, e)
           r4 == FollowRedirect(r3, x, e)
<1>1. Before(World, connected, e)
  BY DEF Before, World
<1>2. ASSUME NEW r, OK(r) PROVE OK(FollowRedirect(r, x, e))
  <2>1. CASE r.next = None
    BY <1>2, <2>1, ZenonT(40) DEF FollowRedirect
  <2>2. CASE r.next # None
    <3>1. Before(r.world, connected, e) /\ r.next \in Channels
      BY <1>2, <2>2, Zenon DEF Reached
    <3> QED BY <2>2, <3>1, JoinOneReaches, Zenon DEF FollowRedirect
  <2> QED BY <2>1, <2>2
<1>3. OK(r0)
  BY <1>1, JoinOneReaches, Zenon
<1> HIDE DEF OK, r0
<1>4. OK(r4)
  BY <1>2, <1>3, Zenon
<1>5. JoinChain(c, x, key, e) = r4.world
  BY Zenon DEF JoinChain, r0
<1> HIDE DEF r4
<1> QED BY <1>4, <1>5, ZenonT(40) DEF OK, Reached

(* What an admission does, whatever fails, and that it keeps the policy.   *)
AsAdmitted(v, w, c, x, conn, e) ==
    /\ Sound(Ready(w, c, e), conn) /\ Ready(w, c, e).channel[c] # None
    /\ Before(Ready(w, c, e), conn, e)
    /\ Admitted(v, Ready(w, c, e), c, x) /\ v.channel[c] = Settled(Ready(w, c, e), c, x, e)

LEMMA AdmissionShape ==
    ASSUME TablesOK, NEW v, NEW w, NEW c \in Channels, NEW x \in Clients, NEW conn, x \in conn, NEW e,
           Admission(v, w, c, x, conn, e)
    PROVE  AsAdmitted(v, w, c, x, conn, e)
<1>1. Before(Ready(w, c, e), conn, e)
  BY BeforeReady, Zenon DEF Admission
<1>2. Sound(Ready(w, c, e), conn) /\ Ready(w, c, e).channel[c] # None
  BY ReadyShape, SMTT(20) DEF Admission, Before
<1>3. Admitted(v, Ready(w, c, e), c, x) /\ v.channel[c] = Settled(Ready(w, c, e), c, x, e)
  BY <1>1, <1>2, AdmitShape, Zenon DEF Admission
<1> QED BY <1>1, <1>2, <1>3, Zenon DEF AsAdmitted

(* In a registered channel x holds what its account is granted, and no     *)
(* more.                                                                   *)
Arrived(ch, c, x) ==
    Enabled(registration[c]) =>
        ch.manual[x] = {} /\ ch.service[x] = GrantedBy(registration[c], access[c], account[x])

LEMMA AdmissionFollows ==
    ASSUME TablesOK, NEW v, NEW w, NEW c \in Channels, NEW x \in Clients, NEW conn, x \in conn, NEW e, Tame(e),
           Following(channel, registration, access, stored, account), Admission(v, w, c, x, conn, e)
    PROVE  Following(v.channel, registration, access, stored, account) /\ Arrived(v.channel[c], c, x)
<1> DEFINE ready == Ready(w, c, e)
           s == Settled(ready, c, x, e)
<1>1. /\ Sound(ready, conn) /\ ready.channel[c] # None /\ Before(ready, conn, e)
      /\ Admitted(v, ready, c, x) /\ v.channel[c] = s
  <2>1. AsAdmitted(v, w, c, x, conn, e)
    BY AdmissionShape, Zenon
  <2> QED BY <2>1, Zenon DEF AsAdmitted
<1> HIDE DEF ready
<1>2. Following(ready.channel, registration, access, stored, account)
  BY <1>1, Zenon DEF Before
<1>3. Follows(ready.channel[c], registration[c], access[c], stored[c], account)
  BY <1>1, <1>2, Zenon DEF Following
<1>4. /\ Follows(s, registration[c], access[c], stored[c], account)
      /\ Enabled(registration[c]) =>
            /\ s.manual[x] = {}
            /\ s.service[x] = GrantedBy(registration[c], access[c], account[x])
  <2>1. SettledWell(ready, c, x, e, stored[c])
    BY <1>1, <1>3, SettledFollows, Zenon
  <2> QED BY <2>1, Zenon DEF SettledWell
<1> HIDE DEF s
<1>5. \A d \in Channels \ {c} : v.channel[d] = ready.channel[d]
  BY <1>1, Zenon DEF Admitted
<1>6. Following(v.channel, registration, access, stored, account)
  BY <1>1, <1>2, <1>4, <1>5, Zenon DEF Following
<1> QED BY <1>1, <1>4, <1>6, ZenonT(40) DEF Arrived

-----------------------------------------------------------------------------
(* Steps.  Each handler leaves every live channel following its rows.      *)

(* A step on one channel and its rows.                                     *)
LEMMA OneFollows ==
    ASSUME Following(channel, registration, access, stored, account), NEW c \in Channels,
           NEW chs, NEW regs, NEW accs, NEW sts,
           \A d \in Channels \ {c} : /\ chs[d] = channel[d] /\ regs[d] = registration[d]
                                     /\ accs[d] = access[d] /\ sts[d] = stored[d],
           chs[c] # None => Follows(chs[c], regs[c], accs[c], sts[c], account)
    PROVE  Following(chs, regs, accs, sts, account)
  BY ZenonT(40) DEF Following

(* A login that is no member's.                                            *)
LEMMA AccountMoves ==
    ASSUME NEW ch, NEW reg, NEW acc, NEW st, NEW who, Follows(ch, reg, acc, st, who),
           NEW now, \A y \in ch.members : now[y] = who[y]
    PROVE  Follows(ch, reg, acc, st, now)
  BY Zenon DEF Follows

PolicyStep == Following(channel', registration', access', stored', account')

LEMMA ConnectFollows ==
    ASSUME PolicyInv, NEW x \in Clients, NEW a, Connect(x, a)
    PROVE  PolicyStep
<1>1. x \notin connected /\ account \in [Clients -> Accounts \cup {None}]
  BY Zenon DEF Connect, PolicyInv, IInv, TablesOK
<1>2. ASSUME NEW c \in Channels, channel[c] # None
      PROVE  Follows(channel[c], registration[c], access[c], stored[c], account')
  <2>1. x \notin channel[c].members /\ channel[c].members \subseteq Clients
    <3>1. joined[x] = {}
      BY <1>1, Zenon DEF PolicyInv, IInv, Sound, World
    <3>2. c \in joined[x] <=> x \in channel[c].members
      BY <1>2, Zenon DEF PolicyInv, IInv, Sound, World
    <3> QED BY <1>2, <3>1, <3>2, ChannelsNow, ZenonT(40) DEF PolicyInv, Channel
  <2>2. \A y \in channel[c].members : account'[y] = account[y]
    BY <1>1, <2>1, ZenonT(40) DEF Connect
  <2>3. Follows(channel[c], registration[c], access[c], stored[c], account)
    BY <1>2 DEF PolicyInv, Following
  <2> QED BY <2>2, <2>3, AccountMoves, Zenon
<1> QED BY <1>2, Zenon DEF PolicyStep, Following, Connect, db_vars

LEMMA DisconnectFollows ==
    ASSUME PolicyInv, NEW x \in Clients, server_disconnect(x)
    PROVE  PolicyStep
<1>1. /\ Sound(World, connected) /\ World.channel = channel /\ World.joined = joined
      /\ account \in [Clients -> Accounts \cup {None}]
  BY Zenon DEF PolicyInv, IInv, TablesOK, World
<1>2. ASSUME NEW c \in Channels, channel'[c] # None
      PROVE  Follows(channel'[c], registration[c], access[c], stored[c], account')
  <2>1. channel'[c] = IF c \in joined[x] THEN Leave(World, c, x).channel[c] ELSE channel[c]
    BY Zenon DEF server_disconnect
  <2>2. c \in joined[x] <=> channel[c] # None /\ x \in channel[c].members
    BY <1>1, Zenon DEF Sound
  <2>3. channel[c] # None
    BY <1>2, <2>1, <2>2, ZenonT(40)
  <2>4. Follows(channel[c], registration[c], access[c], stored[c], account)
    BY <2>3, Zenon DEF PolicyInv, Following
  <2>5. channel[c] \in Channel /\ channel[c].members \subseteq Clients
    BY <2>3, ChannelsNow, Zenon DEF PolicyInv, Channel
  <2>6. Follows(channel'[c], registration[c], access[c], stored[c], account)
    <3>1. Leave(World, c, x).channel[c] # None =>
            Follows(Leave(World, c, x).channel[c], registration[c], access[c], stored[c], account)
      BY <1>1, <2>3, <2>4, LeaveFollows, ZenonT(40)
    <3> QED BY <1>2, <2>1, <2>4, <3>1, ZenonT(40)
  <2>7. x \notin channel'[c].members /\ channel'[c].members \subseteq Clients
    <3>1. CASE c \in joined[x]
      <4> DEFINE left == channel[c].members \ {x}
      <4>1. channel'[c] = WithMembers(channel[c], left, x)
        BY <1>1, <1>2, <2>1, <2>3, <3>1, LeaveShape, ZenonT(40)
      <4>2. Moved(WithMembers(channel[c], left, x), channel[c], left, x)
        BY <2>5, MembersShape, Zenon
      <4> QED BY <2>5, <4>1, <4>2, ZenonT(40) DEF Moved
    <3>2. CASE c \notin joined[x]
      BY <2>1, <2>2, <2>3, <2>5, <3>2, ZenonT(40)
    <3> QED BY <3>1, <3>2, Zenon
  <2>8. \A y \in channel'[c].members : account'[y] = account[y]
    BY <1>1, <2>7, Zenon DEF server_disconnect
  <2> QED BY <2>6, <2>8, AccountMoves, ZenonT(40)
<1> QED BY <1>2, ZenonT(40) DEF PolicyStep, Following, server_disconnect, db_vars

LEMMA LeavingFollows ==
    ASSUME PolicyInv, NEW x \in Clients, NEW y \in Clients, NEW c \in Channels,
           \/ command_part(x, c) /\ y = x
           \/ command_kick(x, c, y)
           \/ command_sapart(x, c, y)
    PROVE  PolicyStep
<1>1. Sound(World, connected) /\ World.channel = channel
  BY ZenonT(40) DEF PolicyInv, IInv, World
<1>2. /\ channel[c] # None /\ channel' = Leave(World, c, y).channel
      /\ UNCHANGED <<account, registration, access, stored>>
  BY DEF command_part, command_kick, command_sapart, SetWorld, db_vars
<1>3. Following(channel, registration, access, stored, account)
  BY ZenonT(40) DEF PolicyInv
<1>4. Follows(channel[c], registration[c], access[c], stored[c], account)
  BY <1>2, <1>3, Zenon DEF Following
<1>5. \A d \in Channels \ {c} : channel'[d] = channel[d]
  BY <1>1, <1>2, LeaveShape, ZenonT(40)
<1>6. channel'[c] # None => Follows(channel'[c], registration[c], access[c], stored[c], account)
  BY <1>1, <1>2, <1>4, LeaveFollows, Zenon
<1> QED BY <1>2, <1>3, <1>5, <1>6, OneFollows, ZenonT(40) DEF PolicyStep

LEMMA InviteFollows ==
    ASSUME PolicyInv, NEW x, NEW y, NEW c \in Channels, command_invite(x, c, y)
    PROVE  PolicyStep
<1> DEFINE n == [channel[c] EXCEPT !.invites = @ \cup {y}]
<1>1. channel[c] \in Channel /\ channel \in [Channels -> Channel \cup {None}] /\ channel[c] # None
  BY ChannelsNow DEF PolicyInv, command_invite, ChannelsOK
<1>2. channel' = [channel EXCEPT ![c] = n] /\ UNCHANGED <<account, registration, access, stored>>
  BY DEF command_invite, db_vars
<1>3. SamePolicy(n, channel[c]) /\ SameGrants(n, channel[c])
  BY <1>1, Zenon DEF Channel, SamePolicy, SameCache, SameGrants
<1> HIDE DEF n
<1>4. Follows(channel[c], registration[c], access[c], stored[c], account)
  BY <1>1, Zenon DEF PolicyInv, Following
<1>5. Follows(n, registration[c], access[c], stored[c], account)
  <2>1. Policy(n, registration[c], stored[c])
    BY <1>3, <1>4, SamePolicyHolds, Zenon DEF Follows
  <2> QED BY <1>3, <1>4, <2>1, ZenonT(40) DEF Follows, Holds, SamePolicy, SameCache, SameGrants
<1>6. channel'[c] = n /\ \A d \in Channels \ {c} : channel'[d] = channel[d]
  BY <1>1, <1>2, Zenon
<1> QED BY <1>2, <1>5, <1>6, OneFollows, ZenonT(40) DEF PolicyStep, PolicyInv

LEMMA JoinFollows ==
    ASSUME PolicyInv, NEW x \in Clients, NEW c \in Channels, NEW key, NEW e, Tame(e), command_join(x, c, key, e)
    PROVE  PolicyStep
<1> DEFINE v == JoinChain(c, x, key, e)
<1>1. TablesOK /\ Sound(World, connected) /\ x \in connected
      /\ Following(channel, registration, access, stored, account)
  BY DEF PolicyInv, IInv, command_join
<1>2. channel' = v.channel /\ UNCHANGED <<account, registration, access, stored>>
  BY DEF command_join, SetWorld, db_vars
<1>3. \/ Before(v, connected, e)
      \/ \E w : \E d \in Channels : Admission(v, w, d, x, connected, e)
  BY <1>1, ChainReaches, Zenon
<1> HIDE DEF v
<1>4. CASE Before(v, connected, e)
  BY <1>1, <1>2, <1>4, ZenonT(40) DEF Before, PolicyStep
<1>5. CASE \E w : \E d \in Channels : Admission(v, w, d, x, connected, e)
  <2>1. PICK w : \E d \in Channels : Admission(v, w, d, x, connected, e)
    BY <1>5
  <2>2. PICK d \in Channels : Admission(v, w, d, x, connected, e)
    BY <2>1, Zenon
  <2>3. Following(v.channel, registration, access, stored, account)
    BY <1>1, <2>2, AdmissionFollows, ZenonT(40)
  <2> QED BY <1>2, <2>3, Zenon DEF PolicyStep
<1> QED BY <1>3, <1>4, <1>5, Zenon


-----------------------------------------------------------------------------
(* MODE, SAMODE and REGISTER save the channel.                             *)

(* The record of a live channel is n and its stored runtime st.            *)
LEMMA SavingFollows ==
    ASSUME PolicyInv, NEW c \in Channels, NEW n, NEW st, NEW regs, regs \in [Channels -> RegistrationRow \cup {None}],
           \A d \in Channels \ {c} : regs[d] = registration[d],
           Follows(n, regs[c], access[c], st, account),
           channel' = [channel EXCEPT ![c] = n], stored' = [stored EXCEPT ![c] = st],
           registration' = regs, UNCHANGED <<account, access>>
    PROVE  PolicyStep
<1>1. channel \in [Channels -> Channel \cup {None}] /\ stored \in [Channels -> Runtime]
  BY ChannelsNow, Zenon DEF PolicyInv, IInv, TablesOK, ChannelsOK
<1>2. channel'[c] = n /\ stored'[c] = st
  BY <1>1, ZenonT(40)
<1>3. \A d \in Channels \ {c} : channel'[d] = channel[d] /\ stored'[d] = stored[d]
  BY <1>1
<1> QED BY <1>2, <1>3, OneFollows, ZenonT(40) DEF PolicyStep, PolicyInv

LEMMA ModeFollows ==
    ASSUME PolicyInv, NEW x \in Clients, NEW c \in Channels, NEW line \in ModeLines, NEW e, Tame(e),
           command_mode(x, c, line, e)
    PROVE  PolicyStep
<1> DEFINE ch == channel[c]
           after == mode_channel(ch, c, x, line, e)
           st == chanserv_persist_channel(after, stored[c], e)
<1>1. RightBut(ch, {}) /\ ch # None
  BY ChannelsNow, Zenon DEF PolicyInv, command_mode
<1>2. Follows(ch, registration[c], access[c], stored[c], account)
  BY <1>1, Zenon DEF PolicyInv, Following
<1>3. LockAllows(registration[c], line[1]) /\ LockAllows(registration[c], line[2])
  <2>1. check_mlock(ch, line[1]) /\ check_mlock(ch, line[2])
    BY DEF command_mode
  <2> QED BY <1>2, <2>1, ZenonT(40) DEF LockAllows, check_mlock, Follows, Policy, Cached
<1>4. Follows(ch, registration[c], access[c], ch.runtime, account)
  BY <1>2, Zenon DEF Follows, Policy
<1>5. Follows(after, registration[c], access[c], after.runtime, account)
  BY <1>1, <1>3, <1>4, LineFollows, ZenonT(40) DEF Tame
<1>6. Follows(after, registration[c], access[c], st, account)
  <2>1. SamePolicy(after, after)
    BY Zenon DEF SamePolicy, SameCache
  <2> HIDE DEF after
  <2> QED BY <1>5, <2>1, SaveFollows, ZenonT(40)
<1>7. channel' = [channel EXCEPT ![c] = after] /\ stored' = [stored EXCEPT ![c] = st]
      /\ UNCHANGED <<account, access, registration>>
  BY DEF command_mode
<1> HIDE DEF after, st
<1> QED BY <1>6, <1>7, SavingFollows, ZenonT(40) DEF PolicyInv, IInv, TablesOK

KeptRight(n, ch, X) == RightBut(n, X) /\ n.members = ch.members

LEMMA LineKeepsRight ==
    ASSUME NEW X, NEW ch, RightBut(ch, X), NEW c, NEW x, NEW line \in ModeLines, NEW e
    PROVE  KeptRight(mode_channel(ch, c, x, line, e), ch, X)
BY LineRight DEF KeptRight

LEMMA SamodeFollows ==
    ASSUME PolicyInv, NEW x \in Clients, NEW c \in Channels, NEW line \in ModeLines, NEW e, Tame(e),
           command_samode(x, c, line, e)
    PROVE  PolicyStep
<1> DEFINE ch == channel[c]
           acting == [ch EXCEPT !.members = @ \cup {x}, !.privileges[x] = @ \cup Ownership]
           after == mode_channel(acting, c, x, line, e)
           n == EndOverride(after, ch, x)
           st == chanserv_persist_channel(after, stored[c], e)
<1>1. RightBut(ch, {}) /\ ch # None /\ ch \in Channel
  BY ChannelsNow, ZenonT(40) DEF PolicyInv, command_samode
<1>2. Follows(ch, registration[c], access[c], stored[c], account)
  BY <1>1 DEF PolicyInv, Following
<1>3. LockAllows(registration[c], line[1]) /\ LockAllows(registration[c], line[2])
  BY ZenonT(40) DEF command_samode, LockAllows, LocksChecked
<1>4. Follows(ch, registration[c], access[c], ch.runtime, account)
  BY <1>2, Zenon DEF Follows, Policy
<1>5. /\ RightBut(acting, {x}) /\ acting.members = ch.members \cup {x}
      /\ Follows(acting, registration[c], access[c], acting.runtime, account)
  BY <1>1, <1>4, ActingFollows, Zenon
<1>6. channel' = [channel EXCEPT ![c] = n] /\ stored' = [stored EXCEPT ![c] = st]
      /\ UNCHANGED <<account, access, registration>>
  BY Zenon DEF command_samode
<1> HIDE DEF acting
<1>7. Follows(after, registration[c], access[c], after.runtime, account)
  BY <1>3, <1>5, LineFollows, Zenon DEF Tame
<1>8. after \in Channel /\ after.members = ch.members \cup {x}
  <2>1. KeptRight(after, acting, {x})
    BY <1>5, LineKeepsRight, Zenon
  <2> HIDE DEF after
  <2> QED BY <1>5, <2>1, Zenon DEF RightBut, KeptRight
<1> HIDE DEF after
<1>9. SamePolicy(n, after) /\ Follows(n, registration[c], access[c], n.runtime, account)
  BY <1>1, <1>4, <1>7, <1>8, EndOverrideFollows, ZenonT(40)
<1> HIDE DEF n
<1>10. Follows(n, registration[c], access[c], st, account)
  BY <1>9, SaveFollows, Zenon
<1> HIDE DEF st
<1> QED BY <1>6, <1>10, SavingFollows, ZenonT(40) DEF PolicyInv, IInv, TablesOK
=============================================================================
