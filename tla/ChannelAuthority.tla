-------------------------- MODULE ChannelAuthority --------------------------
(***************************************************************************)
(* Channels and who holds authority in them: membership, JOIN admission,   *)
(* MODE, KICK, INVITE, the operators' SAJOIN/SAPART/SAMODE, and ChanServ's *)
(* registered channels with the SQLite rows behind them.                   *)
(*                                                                         *)
(* A live channel caches what its registration row says and a member's     *)
(* privileges come from two places, what members granted (manual) and what *)
(* ChanServ grants the member's account (service).  The rows, the cache    *)
(* and the live state change in different handlers; the properties are     *)
(* about their staying in agreement.  Every handler runs to completion in  *)
(* the event loop, so it is one step.                                      *)
(*                                                                         *)
(* A client is one registered connection: its id is never used again while *)
(* the server runs.  nick!user@host masks are abstract, related to the     *)
(* clients they match by MaskMatches; topics, greetings, wire replies and  *)
(* the length of the +j window are left out.                               *)
(***************************************************************************)
EXTENDS Naturals, FiniteSets

CONSTANTS
    Clients, Accounts, Channels, Masks, Keys, None,
    MaskMatches,            \* the pairs <<mask, client>> that match
    MaxLimit,               \* the largest +l a peer sets
    Opers, NetAdmins,       \* clients with user mode +o, +N
    Overrides,              \* clients with OPER_PERMISSION_OVERRIDE
    SecureClients,          \* clients connected over TLS
    MaxChannels,            \* config.max_channels
    MaxChannelsPerClient,   \* IRC_MAX_CHANNELS_PER_CLIENT
    MaxInvites,             \* IRC_CHANNEL_INVITE_MAX
    MaxMasks,               \* the longest mask list
    ModeLines,              \* the mode changes peers send, two to a line
    Locks,                  \* the mode locks founders set
    AccessLevels,           \* the access levels founders give
    Commands,               \* the commands peers send
    Faults                  \* what may fail inside a handler, see FaultKinds

Privileges == {"q", "a", "o", "h", "v"}
Ownership  == {"q", "o"}        \* CHANNEL_PRIV_OWNER | CHANNEL_PRIV_OPERATOR
Levels     == {"OWNER", "PROTECTED", "OP", "HALFOP", "VOICE"}

BooleanModes == {"A", "c", "i", "K", "M", "m", "n", "O", "p", "R", "S", "s", "t", "T", "V", "z"}

(* alloc: channel_add_client() cannot allocate; open: chanserv_db_open()   *)
(* fails; ready, restore: chanserv_persist_restore() fails before, after   *)
(* it cleared the live state; save: chanserv_persist_save() rolls back;    *)
(* successor: chanserv_db_set_successor() fails once set_founder() has     *)
(* written the row; throttled: the +j window of the channel is full.       *)
FaultKinds == {"alloc", "open", "ready", "restore", "save", "successor", "throttled"}

Change ==
         [letter : BooleanModes, add : BOOLEAN, arg : {None}]
    \cup [letter : Privileges, add : BOOLEAN, arg : Clients]
    \cup [letter : {"k"}, add : BOOLEAN, arg : Keys]
    \cup [letter : {"l"}, add : BOOLEAN, arg : 1..MaxLimit]
    \cup [letter : {"j"}, add : BOOLEAN, arg : {None}]
    \cup [letter : {"L", "B"}, add : BOOLEAN, arg : Channels]
    \cup [letter : {"b", "e", "I"}, add : BOOLEAN, arg : Masks]

ASSUME NoneIsNothing ==
    /\ None \notin Clients /\ None \notin Accounts /\ None \notin Channels
    /\ None \notin Keys /\ None \notin Levels /\ None \notin Change
ASSUME ClientSets ==
    /\ IsFiniteSet(Clients) /\ IsFiniteSet(Channels)
    /\ Opers \subseteq Clients /\ NetAdmins \subseteq Clients
    /\ Overrides \subseteq Clients /\ SecureClients \subseteq Clients
    /\ MaskMatches \subseteq Masks \X Clients
ASSUME Bounds ==
    /\ MaxLimit \in Nat /\ MaxChannels \in Nat /\ MaxChannelsPerClient \in Nat
    /\ MaxInvites \in Nat /\ MaxMasks \in Nat
ASSUME Inputs ==
    /\ ModeLines \subseteq (Change \cup {None}) \X (Change \cup {None})
    /\ Locks \subseteq SUBSET BooleanModes
    /\ AccessLevels \subseteq Levels
    /\ Faults \subseteq FaultKinds

VARIABLES
    fresh,          \* clients that have not connected yet
    connected,      \* registered clients
    account,        \* client->account_name
    joined,         \* client->channels: the client's side of its memberships
    channel,        \* server->channels_by_name; None when not live
    registration,   \* ChanServ's channels table
    access,         \* ChanServ's access table
    stored,         \* ChanServ's channel_runtime and channel_masks tables
    accounts        \* NickServ's accounts table

live_vars == <<fresh, connected, account, joined, channel>>
db_vars   == <<registration, access, stored, accounts>>
vars      == <<fresh, connected, account, joined, channel, registration, access, stored, accounts>>

-----------------------------------------------------------------------------
(* Records.                                                                *)

(* The part of a channel that chanserv_persist_save() writes.              *)
Runtime == [key : Keys \cup {None}, user_limit : 0..MaxLimit, join_throttle : BOOLEAN,
            limit_redirect : Channels \cup {None}, ban_redirect : Channels \cup {None},
            ban_list : SUBSET [mask : Masks, authorized : BOOLEAN],
            exception_list : SUBSET Masks, invite_exception_list : SUBSET Masks]

EmptyRuntime == [key |-> None, user_limit |-> 0, join_throttle |-> FALSE,
                 limit_redirect |-> None, ban_redirect |-> None,
                 ban_list |-> {}, exception_list |-> {}, invite_exception_list |-> {}]

Channel == [modes : SUBSET (BooleanModes \cup {"r"}), runtime : Runtime, invites : SUBSET Clients,
            loaded : BOOLEAN, valid : BOOLEAN, founder : Accounts \cup {None},
            mode_lock : SUBSET BooleanModes, secure_ops : BOOLEAN,
            members : SUBSET Clients,
            manual : [Clients -> SUBSET Privileges], service : [Clients -> SUBSET Privileges],
            privileges : [Clients -> SUBSET Privileges]]

NoPrivileges == [x \in Clients |-> {}]

channel_create == [modes |-> {}, runtime |-> EmptyRuntime, invites |-> {},
                   loaded |-> FALSE, valid |-> FALSE, founder |-> None,
                   mode_lock |-> {}, secure_ops |-> FALSE, members |-> {},
                   manual |-> NoPrivileges, service |-> NoPrivileges, privileges |-> NoPrivileges]

RegistrationRow == [founder : Accounts, enabled : BOOLEAN, mode_lock : SUBSET BooleanModes,
                    secure_ops : BOOLEAN, successor : Accounts \cup {None}]

ASSUME NoneIsNoRecord == None \notin Channel /\ None \notin RegistrationRow

NoAccess == [a \in Accounts |-> None]

Init ==
    /\ fresh = Clients
    /\ connected = {}
    /\ account = [x \in Clients |-> None]
    /\ joined = [x \in Clients |-> {}]
    /\ channel = [c \in Channels |-> None]
    /\ registration = [c \in Channels |-> None]
    /\ access = [c \in Channels |-> NoAccess]
    /\ stored = [c \in Channels |-> EmptyRuntime]
    /\ accounts = [a \in Accounts |-> "enabled"]

-----------------------------------------------------------------------------
(* Privileges and membership.                                              *)

channel_privilege_rank(p) ==
    IF "q" \in p THEN 5 ELSE IF "a" \in p THEN 4 ELSE IF "o" \in p THEN 3
    ELSE IF "h" \in p THEN 2 ELSE IF "v" \in p THEN 1 ELSE 0

SetPrivileges(ch, x, manual, service) ==
    [ch EXCEPT !.manual[x] = manual, !.service[x] = service, !.privileges[x] = manual \cup service]

channel_add_privileges(ch, x, p)           == SetPrivileges(ch, x, ch.manual[x] \cup p, ch.service[x])
channel_remove_manual_privileges(ch, x, p) == SetPrivileges(ch, x, ch.manual[x] \ p, ch.service[x])
channel_set_service_privileges(ch, x, p)   == SetPrivileges(ch, x, ch.manual[x], p)

(* Both sides of a membership, as the pair of tables every handler of it   *)
(* changes together.                                                       *)
World == [channel |-> channel, joined |-> joined]

(* A member's record starts, and leaves, with no privileges.               *)
WithMembers(ch, members, x) == SetPrivileges([ch EXCEPT !.members = members], x, {}, {})

channel_add_client(w, c, x) ==
    [w EXCEPT !.channel[c] = WithMembers(@, @.members \cup {x}, x), !.joined[x] = @ \cup {c}]

Mut_channel_remove_client(w, c, x) ==
    [w EXCEPT !.channel[c] = WithMembers(@, @.members \ {x}, x)]

channel_remove_client(w, c, x) ==
    [w EXCEPT !.channel[c] = WithMembers(@, @.members \ {x}, x), !.joined[x] = @ \ {c}]

server_remove_channel_if_empty(w, c) ==
    IF w.channel[c].members = {} THEN [w EXCEPT !.channel[c] = None] ELSE w

(* PART, KICK and SAPART end in these two calls.                           *)
Leave(w, c, x) == server_remove_channel_if_empty(channel_remove_client(w, c, x), c)

LiveChannels(w) == {c \in Channels : w.channel[c] # None}

server_get_or_create_channel(w, c) ==
    IF w.channel[c] = None THEN [w EXCEPT !.channel[c] = channel_create] ELSE w

(* A channel that is live, or may be created.                              *)
Obtainable(w, c) == w.channel[c] # None \/ Cardinality(LiveChannels(w)) < MaxChannels

SetWorld(w) == channel' = w.channel /\ joined' = w.joined

-----------------------------------------------------------------------------
(* ChanServ: the cached policy, the stored runtime, service privileges.    *)
(* reg, acc and st are the channel's rows of the three tables, who gives   *)
(* the account of every client, e the faults met in this step.             *)

LevelPrivileges(level) ==
    CASE level = "OWNER"     -> Ownership
      [] level = "PROTECTED" -> {"a", "o"}
      [] level = "OP"        -> {"o"}
      [] level = "HALFOP"    -> {"h"}
      [] level = "VOICE"     -> {"v"}
      [] OTHER               -> {}

Enabled(reg) == reg # None /\ reg.enabled

(* The founder in the cache once the policy is loaded, in the row before.  *)
chanserv_client_privileges(ch, reg, acc, a, e) ==
    IF a = None \/ (ch.loaded /\ ~ch.valid) THEN {}
    ELSE IF ch.loaded /\ ch.founder = a THEN Ownership
    ELSE IF "open" \in e \/ (~ch.loaded /\ ~Enabled(reg)) THEN {}
    ELSE IF ~ch.loaded /\ reg.founder = a THEN Ownership
    ELSE LevelPrivileges(acc[a])

(* The privileges SecureOps lets an account of that rank hold.             *)
Eligible(p) ==
    LET rank == channel_privilege_rank(p)
    IN {"v"} \cup (IF rank >= 5 THEN {"q"} ELSE {}) \cup (IF rank >= 4 THEN {"a"} ELSE {})
             \cup (IF rank >= 3 THEN {"o"} ELSE {}) \cup (IF rank >= 2 THEN {"h"} ELSE {})

ServiceOf(ch, reg, acc, a, e) ==
    IF "r" \in ch.modes THEN chanserv_client_privileges(ch, reg, acc, a, e) ELSE {}

(* sync_member_privileges() for the members in set.                        *)
SyncMembers(ch, reg, acc, who, set, e) ==
    LET desired(x) == ServiceOf(ch, reg, acc, who[x], e)
        kept(x) == IF ch.secure_ops THEN ch.manual[x] \cap Eligible(desired(x)) ELSE ch.manual[x]
        synced == ch.members \cap set
    IN [ch EXCEPT
          !.manual     = [x \in Clients |-> IF x \in synced THEN kept(x) ELSE ch.manual[x]],
          !.service    = [x \in Clients |-> IF x \in synced THEN desired(x) ELSE ch.service[x]],
          !.privileges = [x \in Clients |-> IF x \in synced THEN kept(x) \cup desired(x)
                                                            ELSE ch.privileges[x]]]

(* channel_forget_service_privileges() keeps what members have now.        *)
clear_cached_policy(ch) ==
    [ch EXCEPT !.manual = [x \in Clients |-> ch.manual[x] \cup ch.service[x]],
               !.service = NoPrivileges,
               !.privileges = [x \in Clients |-> ch.manual[x] \cup ch.service[x]],
               !.loaded = TRUE, !.valid = FALSE, !.founder = None, !.mode_lock = {},
               !.secure_ops = FALSE, !.modes = @ \ {"r"}]

chanserv_persist_restore(runtime, st, e) ==
    IF "ready" \in e THEN runtime ELSE IF "restore" \in e THEN EmptyRuntime ELSE st

Mut_RestoreFails(e) == FALSE

RestoreFails(e) == "ready" \in e \/ "restore" \in e

cache_policy(ch, reg) ==
    [ch EXCEPT !.loaded = TRUE, !.valid = TRUE, !.founder = reg.founder,
               !.mode_lock = reg.mode_lock, !.secure_ops = reg.secure_ops]

Mut_chanserv_refresh_channel(ch, reg, st, e) ==
    IF "open" \in e THEN ch
    ELSE IF Enabled(reg) THEN [cache_policy(ch, reg) EXCEPT !.modes = reg.mode_lock \cup {"r"}]
    ELSE clear_cached_policy(ch)

(* load_channel_policy() with force; the result of the restore is ignored. *)
chanserv_refresh_channel(ch, reg, st, e) ==
    IF "open" \in e THEN ch
    ELSE IF Enabled(reg)
    THEN [cache_policy(ch, reg) EXCEPT !.modes = reg.mode_lock \cup {"r"},
                                       !.runtime = chanserv_persist_restore(@, st, e)]
    ELSE clear_cached_policy(ch)

chanserv_restore_channel(ch, reg, st, e) ==
    IF ch.loaded THEN ch ELSE chanserv_refresh_channel(ch, reg, st, e)

(* refresh_and_broadcast_registration() and refresh_chanserv_channel().    *)
Refresh(ch, reg, acc, st, who, e) ==
    IF ch = None THEN None
    ELSE LET r == chanserv_refresh_channel(ch, reg, st, e)
         IN IF "r" \in r.modes THEN SyncMembers(r, reg, acc, who, Clients, e) ELSE r

(* chanserv_persist_channel(): the row after the save.                     *)
chanserv_persist_channel(ch, st, e) ==
    IF "r" \in ch.modes /\ "save" \notin e THEN ch.runtime ELSE st

Mut_SyncClients(chs, who, set, e) == chs

(* chanserv_sync_client_privileges(): along the client's own channel list. *)
SyncClients(chs, who, set, e) ==
    [c \in Channels |->
        IF \E x \in set : c \in joined[x]
        THEN SyncMembers(chs[c], registration[c], access[c], who, {x \in set : c \in joined[x]}, e)
        ELSE chs[c]]

-----------------------------------------------------------------------------
(* JOIN.                                                                   *)

Matches(mask, x) == <<mask, x>> \in MaskMatches

Excepted(rt, x) == \E mask \in rt.exception_list : Matches(mask, x)

channel_client_is_banned(rt, x) ==
    ~Excepted(rt, x) /\ \E b \in rt.ban_list : Matches(b.mask, x)

channel_client_is_banned_protected(rt, x) ==
    ~Excepted(rt, x) /\ \E b \in rt.ban_list : b.authorized /\ Matches(b.mask, x)

channel_client_is_invex(rt, x) == \E mask \in rt.invite_exception_list : Matches(mask, x)

(* An owner's account is never banned, a protected one only by a ban an    *)
(* owner or a protected member authorized.                                 *)
Banned(rt, x, service) ==
    /\ "q" \notin service
    /\ IF "a" \in service THEN channel_client_is_banned_protected(rt, x)
                          ELSE channel_client_is_banned(rt, x)

Full(ch) == ch.runtime.user_limit # 0 /\ Cardinality(ch.members) >= ch.runtime.user_limit

(* The boolean modes that turn a client away, and the join throttle.       *)
ModesRefuse(ch, x, e) ==
    \/ "R" \in ch.modes /\ account[x] = None
    \/ "O" \in ch.modes /\ x \notin Opers \cup NetAdmins
    \/ "A" \in ch.modes /\ x \notin NetAdmins
    \/ "z" \in ch.modes /\ x \notin SecureClients
    \/ "i" \in ch.modes /\ x \notin ch.invites /\ ~channel_client_is_invex(ch.runtime, x)
    \/ ch.runtime.join_throttle /\ "throttled" \in e

Mut_channel_invite_consume(ch, x) == ch

channel_invite_consume(ch, x) == [ch EXCEPT !.invites = @ \ {x}]

(* What an admitted client receives, and what its JOIN does to the others. *)
Admit(w, c, x, e) ==
    LET first == w.channel[c].members = {}
        added == channel_add_client(w, c, x)
        ch == channel_invite_consume(added.channel[c], x)
        entered == IF "r" \in ch.modes THEN SyncMembers(ch, registration[c], access[c], account, Clients, e)
                   ELSE IF first THEN channel_add_privileges(ch, x, Ownership)
                   ELSE ch
    IN [added EXCEPT !.channel[c] = entered]

Mut_RestoredForJoin(ch, c, e) == ch

(* chanserv_restore_channel() and the second restore of a +r channel.      *)
RestoredForJoin(ch, c, e) ==
    LET r == chanserv_restore_channel(ch, registration[c], stored[c], e)
    IN IF "r" \in r.modes THEN [r EXCEPT !.runtime = chanserv_persist_restore(@, stored[c], e)] ELSE r

(* One level of join_one(): the world after it, and the channel it sends   *)
(* the client on to.                                                       *)
join_one(w, c, x, key, e) ==
    LET created == w.channel[c] = None
        opened == server_get_or_create_channel(w, c)
        ch == RestoredForJoin(opened.channel[c], c, e)
        ready == [opened EXCEPT !.channel[c] = ch]
        service == chanserv_client_privileges(ch, registration[c], access[c], account[x], e)
        Result(v, next) == [world |-> v, next |-> next]
    IN IF \/ Cardinality(w.joined[x]) >= MaxChannelsPerClient
          \/ ~Obtainable(w, c)
          \/ x \in opened.channel[c].members
       THEN Result(w, None)
       ELSE IF "r" \in ch.modes /\ RestoreFails(e)
       THEN Result(IF created THEN server_remove_channel_if_empty(ready, c) ELSE ready, None)
       ELSE IF ch.runtime.key # None /\ ch.runtime.key # key THEN Result(ready, None)
       ELSE IF Banned(ch.runtime, x, service) THEN Result(ready, ch.runtime.ban_redirect)
       ELSE IF Full(ch) THEN Result(ready, ch.runtime.limit_redirect)
       ELSE IF ModesRefuse(ch, x, e) \/ "alloc" \in e THEN Result(ready, None)
       ELSE Result(Admit(ready, c, x, e), None)

FollowRedirect(r, x, e) ==
    IF r.next = None THEN r ELSE join_one(r.world, r.next, x, None, e)

(* IRC_JOIN_REDIRECT_MAX = 4: the fifth channel's redirect is not followed.*)
JoinChain(c, x, key, e) ==
    LET r0 == join_one(World, c, x, key, e)
        r1 == FollowRedirect(r0, x, e)
        r2 == FollowRedirect(r1, x, e)
        r3 == FollowRedirect(r2, x, e)
        r4 == FollowRedirect(r3, x, e)
    IN r4.world

command_join(x, c, key, e) ==
    /\ x \in connected
    /\ SetWorld(JoinChain(c, x, key, e))
    /\ UNCHANGED <<fresh, connected, account, db_vars>>

command_part(x, c) ==
    /\ "PART" \in Commands
    /\ x \in connected
    /\ channel[c] # None
    /\ x \in channel[c].members
    /\ SetWorld(Leave(World, c, x))
    /\ UNCHANGED <<fresh, connected, account, db_vars>>

-----------------------------------------------------------------------------
(* MODE.                                                                   *)

may_change_channel(ch, x)  == x \in ch.members /\ ch.privileges[x] \cap {"q", "a", "o"} # {}
may_manage_protected(ch, x) == x \in ch.members /\ ch.privileges[x] \cap {"q", "a"} # {}

(* The protected members who are not owners and whom the mask matches.     *)
ban_mask_targets_protected(ch, mask) ==
    \E y \in ch.members : "a" \in ch.privileges[y] /\ "q" \notin ch.privileges[y] /\ Matches(mask, y)

channel_mask_add_authorized(list, mask, authorized) ==
    IF \E b \in list : b.mask = mask
    THEN {IF b.mask = mask THEN [b EXCEPT !.authorized = @ \/ authorized] ELSE b : b \in list}
    ELSE IF Cardinality(list) >= MaxMasks THEN list
    ELSE list \cup {[mask |-> mask, authorized |-> authorized]}

channel_mask_add(list, mask) ==
    IF mask \in list \/ Cardinality(list) < MaxMasks THEN list \cup {mask} ELSE list

Mut_secureops_allows(ch, c, y, letter, e) == TRUE

secureops_allows(ch, c, y, letter, e) ==
    \/ ~ch.secure_ops
    \/ letter \in Eligible(chanserv_client_privileges(ch, registration[c], access[c], account[y], e))

(* A privilege letter: +q, -q, +a, ... of the member d.arg.                *)
ModePrivilege(ch, c, x, d, e) ==
    IF \/ d.arg \notin ch.members
       \/ d.add /\ ~secureops_allows(ch, c, d.arg, d.letter, e)
       \/ d.letter = "a" /\ ~may_manage_protected(ch, x)
    THEN ch
    ELSE IF d.add THEN channel_add_privileges(ch, d.arg, {d.letter})
    ELSE channel_remove_manual_privileges(ch, d.arg, {d.letter})

(* +b, +e, +I and their removal.                                           *)
ModeMask(ch, x, d) ==
    LET authorized == may_manage_protected(ch, x)
    IN CASE d.letter = "b" /\ d.add ->
              IF ~authorized /\ ban_mask_targets_protected(ch, d.arg) THEN ch
              ELSE [ch EXCEPT !.runtime.ban_list = channel_mask_add_authorized(@, d.arg, authorized)]
         [] d.letter = "b" /\ ~d.add ->
              [ch EXCEPT !.runtime.ban_list = {b \in @ : b.mask # d.arg}]
         [] d.letter = "e" ->
              [ch EXCEPT !.runtime.exception_list = IF d.add THEN channel_mask_add(@, d.arg) ELSE @ \ {d.arg}]
         [] OTHER ->
              [ch EXCEPT !.runtime.invite_exception_list =
                  IF d.add THEN channel_mask_add(@, d.arg) ELSE @ \ {d.arg}]

Mut_ModeParameter(ch, d) ==
    CASE d.letter = "l" -> [ch EXCEPT !.runtime.user_limit = IF d.add THEN d.arg ELSE 0]
      [] d.letter = "j" -> [ch EXCEPT !.runtime.join_throttle = d.add]
      [] d.letter = "L" -> [ch EXCEPT !.runtime.limit_redirect = IF d.add THEN d.arg ELSE None]
      [] OTHER          -> [ch EXCEPT !.runtime.key = IF d.add THEN d.arg ELSE None]

(* +k, +l, +j, +L, +B and their removal.                                   *)
ModeParameter(ch, d) ==
    CASE d.letter = "k" -> [ch EXCEPT !.runtime.key = IF d.add THEN d.arg ELSE None]
      [] d.letter = "l" -> [ch EXCEPT !.runtime.user_limit = IF d.add THEN d.arg ELSE 0]
      [] d.letter = "j" -> [ch EXCEPT !.runtime.join_throttle = d.add]
      [] d.letter = "L" -> [ch EXCEPT !.runtime.limit_redirect = IF d.add THEN d.arg ELSE None]
      [] OTHER          -> [ch EXCEPT !.runtime.ban_redirect = IF d.add THEN d.arg ELSE None]

ModeChange(ch, c, x, d, e) ==
    IF d = None THEN ch
    ELSE IF d.letter \in BooleanModes
    THEN [ch EXCEPT !.modes = IF d.add THEN @ \cup {d.letter} ELSE @ \ {d.letter}]
    ELSE IF d.letter \in Privileges THEN ModePrivilege(ch, c, x, d, e)
    ELSE IF d.letter \in {"b", "e", "I"} THEN ModeMask(ch, x, d)
    ELSE ModeParameter(ch, d)

(* mode_channel(): whether the actor may change the channel is decided     *)
(* once, before the first letter.                                          *)
mode_channel(ch, c, x, line, e) ==
    IF may_change_channel(ch, x)
    THEN ModeChange(ModeChange(ch, c, x, line[1], e), c, x, line[2], e)
    ELSE ch

Mut_check_mlock(ch, d) ==
    (d # None /\ d.letter \in BooleanModes /\ "r" \in ch.modes) => ch.valid

(* chanserv_mode_change_allowed() for every boolean letter of the line.    *)
check_mlock(ch, d) ==
    (d # None /\ d.letter \in BooleanModes /\ "r" \in ch.modes) =>
        ch.valid /\ (d.letter \in ch.mode_lock) = d.add

(* A redirect of a channel to itself is refused.                           *)
validate_channel_mode_params(c, d) ==
    (d # None /\ d.letter \in {"L", "B"} /\ d.add) => d.arg # c

(* The whole line is checked first; the channel is saved whatever the line *)
(* changed, and whoever sent it.                                           *)
command_mode(x, c, line, e) ==
    LET ch == channel[c]
        after == mode_channel(ch, c, x, line, e)
    IN /\ "MODE" \in Commands
       /\ x \in connected
       /\ ch # None
       /\ \A i \in 1..2 : check_mlock(ch, line[i]) /\ validate_channel_mode_params(c, line[i])
       /\ channel' = [channel EXCEPT ![c] = after]
       /\ stored' = [stored EXCEPT ![c] = chanserv_persist_channel(after, @, e)]
       /\ UNCHANGED <<fresh, connected, account, joined, registration, access, accounts>>

-----------------------------------------------------------------------------
(* KICK, INVITE and the operators' overrides.                              *)

KickAllowed(actor, target) ==
    IF "a" \in target /\ "q" \notin target
    THEN actor \cap {"a", "q"} # {}
    ELSE channel_privilege_rank(target) < channel_privilege_rank(actor)

command_kick(x, c, y) ==
    /\ "KICK" \in Commands
    /\ x \in connected /\ y \in connected
    /\ channel[c] # None
    /\ x \in channel[c].members /\ y \in channel[c].members
    /\ channel_privilege_rank(channel[c].privileges[x]) >= 2
    /\ y = x \/ KickAllowed(channel[c].privileges[x], channel[c].privileges[y])
    /\ SetWorld(Leave(World, c, y))
    /\ UNCHANGED <<fresh, connected, account, db_vars>>

command_invite(x, c, y) ==
    /\ "INVITE" \in Commands
    /\ x \in connected /\ y \in connected
    /\ channel[c] # None
    /\ x \in channel[c].members /\ y \notin channel[c].members
    /\ channel[c].privileges[x] \cap {"q", "a", "o", "h"} # {}
    /\ "V" \notin channel[c].modes
    /\ Cardinality(channel[c].invites) < MaxInvites
    /\ channel' = [channel EXCEPT ![c].invites = @ \cup {y}]
    /\ UNCHANGED <<fresh, connected, account, joined, db_vars>>

(* SAJOIN checks no mode and does not load a registered channel's policy.  *)
SajoinAdmit(w, c, y, e) ==
    LET first == w.channel[c].members = {}
        added == channel_add_client(w, c, y)
        ch == added.channel[c]
        service == chanserv_client_privileges(ch, registration[c], access[c], account[y], e)
        entered == IF "r" \in ch.modes THEN channel_set_service_privileges(ch, y, service)
                   ELSE IF first THEN channel_add_privileges(ch, y, Ownership)
                   ELSE ch
    IN [added EXCEPT !.channel[c] = entered]

command_sajoin(x, c, y, e) ==
    LET opened == server_get_or_create_channel(World, c)
    IN /\ "SAJOIN" \in Commands
       /\ x \in connected \cap Overrides /\ y \in connected
       /\ Cardinality(joined[y]) < MaxChannelsPerClient
       /\ Obtainable(World, c)
       /\ y \notin opened.channel[c].members
       /\ SetWorld(IF "alloc" \in e THEN opened ELSE SajoinAdmit(opened, c, y, e))
       /\ UNCHANGED <<fresh, connected, account, db_vars>>

command_sapart(x, c, y) ==
    /\ "SAPART" \in Commands
    /\ x \in connected \cap Overrides /\ y \in connected
    /\ channel[c] # None
    /\ y \in channel[c].members
    /\ SetWorld(Leave(World, c, y))
    /\ UNCHANGED <<fresh, connected, account, db_vars>>

Mut_EndOverride(after, ch, x) ==
    [after EXCEPT !.members = ch.members, !.manual[x] = ch.manual[x], !.service[x] = ch.service[x]]

EndOverride(after, ch, x) ==
    [after EXCEPT !.members = ch.members, !.manual[x] = ch.manual[x],
                  !.service[x] = ch.service[x], !.privileges[x] = ch.privileges[x]]

(* The operator is a member with ownership while the line is applied, and  *)
(* afterwards exactly what it was before; the mode lock is not consulted.  *)
command_samode(x, c, line, e) ==
    LET ch == channel[c]
        acting == [ch EXCEPT !.members = @ \cup {x}, !.privileges[x] = @ \cup Ownership]
        after == mode_channel(acting, c, x, line, e)
    IN /\ "SAMODE" \in Commands
       /\ x \in connected \cap Overrides
       /\ ch # None
       /\ x \in ch.members \/ "alloc" \notin e
       /\ channel' = [channel EXCEPT ![c] = EndOverride(after, ch, x)]
       /\ stored' = [stored EXCEPT ![c] = chanserv_persist_channel(after, @, e)]
       /\ UNCHANGED <<fresh, connected, account, joined, registration, access, accounts>>

-----------------------------------------------------------------------------
(* NickServ accounts, as far as channels see them.                         *)

(* A client completes registration, with an account if SASL gave it one.   *)
Connect(x, a) ==
    /\ x \in fresh
    /\ a # None => accounts[a] = "enabled"
    /\ fresh' = fresh \ {x}
    /\ connected' = connected \cup {x}
    /\ account' = [account EXCEPT ![x] = a]
    /\ UNCHANGED <<joined, channel, db_vars>>

(* server_disconnect(): along the client's own channel list.               *)
server_disconnect(x) ==
    /\ x \in connected
    /\ connected' = connected \ {x}
    /\ account' = [account EXCEPT ![x] = None]
    /\ joined' = [joined EXCEPT ![x] = {}]
    /\ channel' = [c \in Channels |-> IF c \in joined[x] THEN Leave(World, c, x).channel[c] ELSE channel[c]]
    /\ UNCHANGED <<fresh, db_vars>>

(* IDENTIFY, its aliases and SASL after registration.                      *)
nickserv_identify(x, a, e) ==
    LET who == [account EXCEPT ![x] = a]
    IN /\ "IDENTIFY" \in Commands
       /\ x \in connected
       /\ account[x] = None
       /\ accounts[a] = "enabled"
       /\ account' = who
       /\ channel' = SyncClients(channel, who, {x}, e)
       /\ UNCHANGED <<fresh, connected, joined, db_vars>>

(* NICKSERV REGISTER: a new account, identified at once.                   *)
nickserv_register(x, a, e) ==
    LET who == [account EXCEPT ![x] = a]
    IN /\ "IDENTIFY" \in Commands
       /\ x \in connected
       /\ account[x] = None
       /\ accounts[a] = "absent"
       /\ accounts' = [accounts EXCEPT ![a] = "enabled"]
       /\ account' = who
       /\ channel' = SyncClients(channel, who, {x}, e)
       /\ UNCHANGED <<fresh, connected, joined, registration, access, stored>>

command_logout(x, e) ==
    LET who == [account EXCEPT ![x] = None]
    IN /\ "LOGOUT" \in Commands
       /\ x \in connected
       /\ account[x] # None
       /\ account' = who
       /\ channel' = SyncClients(channel, who, {x}, e)
       /\ UNCHANGED <<fresh, connected, joined, db_vars>>

-----------------------------------------------------------------------------
(* ChanServ's own commands.                                                *)

(* REGISTER is for network administrators; it fails when a row exists.     *)
command_register(x, c, e) ==
    LET ch == channel[c]
        registered == [ch EXCEPT !.loaded = TRUE, !.valid = TRUE, !.founder = account[x],
                                 !.mode_lock = {}, !.modes = @ \cup {"r"}]
        after == channel_set_service_privileges(registered, x, Ownership)
    IN /\ "REGISTER" \in Commands
       /\ x \in connected \cap NetAdmins
       /\ account[x] # None
       /\ ch # None
       /\ x \in ch.members
       /\ ch.privileges[x] \cap Ownership # {}
       /\ registration[c] = None
       /\ registration' = [registration EXCEPT ![c] =
             [founder |-> account[x], enabled |-> TRUE, mode_lock |-> {}, secure_ops |-> FALSE,
              successor |-> None]]
       /\ channel' = [channel EXCEPT ![c] = after]
       /\ stored' = [stored EXCEPT ![c] = chanserv_persist_channel(after, @, e)]
       /\ UNCHANGED <<fresh, connected, account, joined, access, accounts>>

(* load_founder_channel(): the founder in the row, whatever the cache says.*)
load_founder_channel(x, c) ==
    /\ x \in connected
    /\ account[x] # None
    /\ Enabled(registration[c])
    /\ registration[c].founder = account[x]

(* ACCESS ADD, and with level None ACCESS DEL.                             *)
command_access(x, c, a, level, e) ==
    LET acc == [access[c] EXCEPT ![a] = level]
        holders == {y \in Clients : account[y] = a}
    IN /\ "ACCESS" \in Commands
       /\ load_founder_channel(x, c)
       /\ a # registration[c].founder
       /\ level # None => accounts[a] = "enabled"
       /\ level = None => access[c][a] # None
       /\ access' = [access EXCEPT ![c] = acc]
       /\ channel' = [channel EXCEPT ![c] =
             IF @ = None THEN None ELSE SyncMembers(@, registration[c], acc, account, holders, e)]
       /\ UNCHANGED <<fresh, connected, account, joined, registration, stored, accounts>>

(* persistent_mode_mask(): the modes SET MLOCK takes off a live channel.   *)
persistent_mode_mask == BooleanModes \ {"s"}

(* A live channel becomes +r with a valid policy, but its cached founder   *)
(* and its runtime stay what they are.                                     *)
Locked(ch, lock) ==
    [ch EXCEPT !.loaded = TRUE, !.valid = TRUE, !.mode_lock = lock,
               !.modes = (@ \ persistent_mode_mask) \cup lock \cup {"r"}]

SetMlock(x, c, lock) ==
    /\ "MLOCK" \in Commands
    /\ load_founder_channel(x, c)
    /\ registration' = [registration EXCEPT ![c].mode_lock = lock]
    /\ channel' = [channel EXCEPT ![c] = IF @ = None THEN None ELSE Locked(@, lock)]
    /\ UNCHANGED <<fresh, connected, account, joined, access, stored, accounts>>

SetTopicLock(x, c, on) ==
    LET with(modes) == IF on THEN modes \cup {"t"} ELSE modes \ {"t"}
        lock == with(registration[c].mode_lock)
        locked(ch) == [ch EXCEPT !.mode_lock = lock, !.modes = with(@)]
    IN /\ "TOPICLOCK" \in Commands
       /\ load_founder_channel(x, c)
       /\ registration' = [registration EXCEPT ![c].mode_lock = lock]
       /\ channel' = [channel EXCEPT ![c] = IF @ = None THEN None ELSE locked(@)]
       /\ UNCHANGED <<fresh, connected, account, joined, access, stored, accounts>>

SetSecureOps(x, c, on, e) ==
    LET reg == [registration[c] EXCEPT !.secure_ops = on]
    IN /\ "SECUREOPS" \in Commands
       /\ load_founder_channel(x, c)
       /\ registration' = [registration EXCEPT ![c] = reg]
       /\ channel' = [channel EXCEPT ![c] =
             IF @ = None THEN None
             ELSE SyncMembers([@ EXCEPT !.secure_ops = on], reg, access[c], account, Clients, e)]
       /\ UNCHANGED <<fresh, connected, account, joined, access, stored, accounts>>

SetSuccessor(x, c, a) ==
    /\ "SUCCESSOR" \in Commands
    /\ load_founder_channel(x, c)
    /\ a # None => accounts[a] = "enabled" /\ a # registration[c].founder
    /\ registration' = [registration EXCEPT ![c].successor = a]
    /\ UNCHANGED <<live_vars, access, stored, accounts>>

-----------------------------------------------------------------------------
(* The network administrators' service commands.                           *)

NetAdminSends(command) == command \in Commands /\ connected \cap NetAdmins # {}

(* CSSET ENABLED 0 and 1; 1 needs an enabled founder account.              *)
CssetEnabled(c, on, e) ==
    LET reg == [registration[c] EXCEPT !.enabled = on]
    IN /\ NetAdminSends("CSSET")
       /\ registration[c] # None
       /\ on => accounts[reg.founder] = "enabled"
       /\ registration' = [registration EXCEPT ![c] = reg]
       /\ channel' = [channel EXCEPT ![c] = Refresh(@, reg, access[c], stored[c], account, e)]
       /\ UNCHANGED <<fresh, connected, account, joined, access, stored, accounts>>

(* A founder who was the successor stops being it, in a second write; when *)
(* that fails the new founder is in the row and nothing is refreshed.      *)
CssetFounder(c, a, e) ==
    LET half == registration[c].successor = a /\ "successor" \in e
        reg == [registration[c] EXCEPT !.founder = a,
                                       !.successor = IF @ = a /\ ~half THEN None ELSE @]
    IN /\ NetAdminSends("CSSET")
       /\ registration[c] # None
       /\ accounts[a] = "enabled"
       /\ registration' = [registration EXCEPT ![c] = reg]
       /\ channel' = [channel EXCEPT ![c] =
             IF half THEN @ ELSE Refresh(@, reg, access[c], stored[c], account, e)]
       /\ UNCHANGED <<fresh, connected, account, joined, access, stored, accounts>>

(* The row's access list, runtime and masks go with it (ON DELETE CASCADE).*)
command_csdrop(c, e) ==
    /\ NetAdminSends("CSDROP")
    /\ registration[c] # None
    /\ registration' = [registration EXCEPT ![c] = None]
    /\ access' = [access EXCEPT ![c] = NoAccess]
    /\ stored' = [stored EXCEPT ![c] = EmptyRuntime]
    /\ channel' = [channel EXCEPT ![c] = Refresh(@, None, NoAccess, EmptyRuntime, account, e)]
    /\ UNCHANGED <<fresh, connected, account, joined, accounts>>

(* clear_live_account(): everybody identified to it is logged out.         *)
LoggedOut(a) == [x \in Clients |-> IF account[x] = a THEN None ELSE account[x]]

Promotes(reg, a, accts) ==
    reg.successor # None /\ reg.successor # a /\ accts[reg.successor] = "enabled"

PromoteOrDisable(reg, a, accts, e) ==
    IF Promotes(reg, a, accts)
    THEN [reg EXCEPT !.founder = reg.successor,
                     !.successor = IF "successor" \in e THEN @ ELSE None]
    ELSE [reg EXCEPT !.enabled = FALSE]

(* handle_chanserv_founder_account_removed(): its rows and its refreshes.  *)
Founded(a, e) == {c \in Channels : "open" \notin e /\ Enabled(registration[c]) /\ registration[c].founder = a}

Orphaned(a, accts, e) ==
    [c \in Channels |-> IF c \in Founded(a, e) THEN PromoteOrDisable(registration[c], a, accts, e)
                                               ELSE registration[c]]

(* The channels whose row was written whole are refreshed.                 *)
Rewritten(a, accts, e) ==
    {c \in Founded(a, e) : "successor" \in e => ~Promotes(registration[c], a, accts)}

RefreshAll(chs, set, reg, acc, who, e) ==
    [c \in Channels |-> IF c \in set THEN Refresh(chs[c], reg[c], acc[c], stored[c], who, e) ELSE chs[c]]

AccountRemoved(a, accts, e) ==
    RefreshAll(SyncClients(channel, LoggedOut(a), {x \in Clients : account[x] = a}, e),
               Rewritten(a, accts, e), Orphaned(a, accts, e), access, LoggedOut(a), e)

(* NSSET ENABLED 0.                                                        *)
NssetDisable(a, e) ==
    LET accts == [accounts EXCEPT ![a] = "disabled"]
    IN /\ NetAdminSends("NSSET")
       /\ accounts[a] = "enabled"
       /\ accounts' = accts
       /\ account' = LoggedOut(a)
       /\ registration' = Orphaned(a, accts, e)
       /\ channel' = AccountRemoved(a, accts, e)
       /\ UNCHANGED <<fresh, connected, joined, access, stored>>

NssetEnable(a) ==
    /\ NetAdminSends("NSSET")
    /\ accounts[a] = "disabled"
    /\ accounts' = [accounts EXCEPT ![a] = "enabled"]
    /\ UNCHANGED <<live_vars, registration, access, stored>>

(* NSDROP goes on to remove_chanserv_account_references().                 *)
command_nsdrop(a, e) ==
    LET accts == [accounts EXCEPT ![a] = "absent"]
        reg == Orphaned(a, accts, e)
        refs == {c \in Channels : "open" \notin e /\ reg[c] # None /\ (reg[c].successor = a \/ access[c][a] # None)}
        reg2 == [c \in Channels |-> IF c \in refs /\ reg[c].successor = a
                                    THEN [reg[c] EXCEPT !.successor = None] ELSE reg[c]]
        acc2 == [c \in Channels |-> IF c \in refs THEN [access[c] EXCEPT ![a] = None] ELSE access[c]]
    IN /\ NetAdminSends("NSDROP")
       /\ accounts[a] # "absent"
       /\ accounts' = accts
       /\ account' = LoggedOut(a)
       /\ registration' = reg2
       /\ access' = acc2
       /\ channel' = RefreshAll(AccountRemoved(a, accts, e), refs, reg2, acc2, LoggedOut(a), e)
       /\ UNCHANGED <<fresh, connected, joined, stored>>

(* The process restarts, by command or after a crash: only the databases   *)
(* survive, and connection ids start again.                                *)
Restart ==
    /\ "RESTART" \in Commands
    /\ fresh' = Clients
    /\ connected' = {}
    /\ account' = [x \in Clients |-> None]
    /\ joined' = [x \in Clients |-> {}]
    /\ channel' = [c \in Channels |-> None]
    /\ UNCHANGED db_vars

-----------------------------------------------------------------------------
(* The steps in which nothing can fail, and those that may meet a fault.   *)
PlainClientStep(x) ==
    \/ \E a \in Accounts \cup {None} : Connect(x, a)
    \/ server_disconnect(x)

PlainChannelStep(x, c) ==
    \/ command_part(x, c)
    \/ \E y \in Clients : command_kick(x, c, y) \/ command_invite(x, c, y) \/ command_sapart(x, c, y)
    \/ \E lock \in Locks : SetMlock(x, c, lock)
    \/ \E on \in BOOLEAN : SetTopicLock(x, c, on)
    \/ \E a \in Accounts \cup {None} : SetSuccessor(x, c, a)

JoinStep(x, c, e) ==
    \/ \E key \in Keys \cup {None} : command_join(x, c, key, e)
    \/ \E y \in Clients : command_sajoin(x, c, y, e)

SavingStep(x, c, e) ==
    \/ \E line \in ModeLines : command_mode(x, c, line, e) \/ command_samode(x, c, line, e)
    \/ command_register(x, c, e)

SyncStep(x, c, e) ==
    \/ \E a \in Accounts : nickserv_identify(x, a, e) \/ nickserv_register(x, a, e)
    \/ command_logout(x, e)
    \/ \E a \in Accounts, level \in AccessLevels \cup {None} : command_access(x, c, a, level, e)
    \/ \E on \in BOOLEAN : SetSecureOps(x, c, on, e)

AdminStep(c, e) ==
    \/ \E on \in BOOLEAN : CssetEnabled(c, on, e)
    \/ \E a \in Accounts : CssetFounder(c, a, e)
    \/ command_csdrop(c, e)
    \/ \E a \in Accounts : NssetDisable(a, e) \/ command_nsdrop(a, e)

Next ==
    \/ \E x \in Clients : PlainClientStep(x)
    \/ \E a \in Accounts : NssetEnable(a)
    \/ Restart
    \/ \E x \in Clients, c \in Channels :
          \/ PlainChannelStep(x, c)
          \/ \E e \in SUBSET (Faults \ {"save"}) : JoinStep(x, c, e)
          \/ \E e \in SUBSET (Faults \cap {"alloc", "open", "save"}) : SavingStep(x, c, e)
          \/ \E e \in SUBSET (Faults \cap {"open"}) : SyncStep(x, c, e)
    \/ \E c \in Channels, e \in SUBSET (Faults \cap {"open", "ready", "restore", "successor"}) :
          AdminStep(c, e)

Spec == Init /\ [][Next]_vars

-----------------------------------------------------------------------------
(* Properties.                                                             *)

(* Every variable holds what the C types and the tables' columns allow.    *)
TypeOK ==
    /\ fresh \subseteq Clients
    /\ connected \subseteq Clients
    /\ account \in [Clients -> Accounts \cup {None}]
    /\ joined \in [Clients -> SUBSET Channels]
    /\ channel \in [Channels -> Channel \cup {None}]
    /\ registration \in [Channels -> RegistrationRow \cup {None}]
    /\ access \in [Channels -> [Accounts -> Levels \cup {None}]]
    /\ stored \in [Channels -> Runtime]
    /\ accounts \in [Accounts -> {"enabled", "disabled", "absent"}]

Live(c) == channel[c] # None

(* The two linked lists of a membership agree: a channel lists a client    *)
(* exactly when the client lists the channel, and only connected clients   *)
(* and live channels are listed, so neither list outlives what it points   *)
(* to when server_disconnect() or server_remove_channel_if_empty() frees   *)
(* it.                                                                     *)
MembershipTwoSided ==
    /\ \A c \in Channels, x \in Clients :
          c \in joined[x] <=> Live(c) /\ x \in channel[c].members
    /\ \A x \in Clients : joined[x] # {} => x \in connected

(* Between handlers a member's effective privileges are exactly what was   *)
(* granted by hand and what ChanServ grants: the ownership SAMODE lends    *)
(* its operator is gone, and who left the channel left nothing behind.     *)
PrivilegesAreTheUnion ==
    \A c \in Channels : Live(c) =>
        \A x \in Clients :
            /\ channel[c].privileges[x] = channel[c].manual[x] \cup channel[c].service[x]
            /\ x \notin channel[c].members => channel[c].privileges[x] = {}

(* What the tables grant an account now.                                   *)
Granted(c, a) ==
    IF a = None \/ ~Enabled(registration[c]) THEN {}
    ELSE IF registration[c].founder = a THEN Ownership
    ELSE LevelPrivileges(access[c][a])

(* No member holds service privileges its account is no longer granted:    *)
(* every change of the tables or of who is identified reaches the live     *)
(* members in the same handler.                                            *)
NoStaleAuthority ==
    \A c \in Channels : Live(c) =>
        \A x \in channel[c].members : channel[c].service[x] \subseteq Granted(c, account[x])

(* With SecureOps on, no member holds by hand a +q, +a, +o or +h that its  *)
(* account's access does not reach, whichever of grant, login, logout,     *)
(* access change or founder change came last.                              *)
SecureOpsHolds ==
    \A c \in Channels : (Live(c) /\ channel[c].secure_ops) =>
        \A x \in channel[c].members :
            channel[c].manual[x] \subseteq Eligible(Granted(c, account[x]))

(* A registered live channel has every mode of its mode lock, and caches   *)
(* the lock and the founder of its row.                                    *)
MlockHolds ==
    \A c \in Channels : (Live(c) /\ "r" \in channel[c].modes) =>
        /\ Enabled(registration[c])
        /\ channel[c].mode_lock = registration[c].mode_lock
        /\ channel[c].founder = registration[c].founder
        /\ channel[c].mode_lock \subseteq channel[c].modes

(* What a registered live channel enforces is what a restart would restore:*)
(* its key, limits, redirects and mask lists are the stored ones.          *)
LiveIsStored ==
    \A c \in Channels : (Live(c) /\ "r" \in channel[c].modes) => channel[c].runtime = stored[c]

(* The step in which x becomes a member of c.                              *)
Enters(c, x) == c \notin joined[x] /\ c \in joined'[x]

(* Whoever enters a registered channel by JOIN passed the stored policy:   *)
(* not banned by the stored masks, within the stored limit, and, when the  *)
(* mode lock has +i, invited or excepted.  Redirects, a channel that was   *)
(* not live and a restore that failed make no difference.                  *)
JoinHonoursStoredPolicy ==
    [][\A c \in Channels, x \in Clients : (Enters(c, x) /\ Enabled(registration[c])) =>
          /\ ~Banned(stored[c], x, Granted(c, account[x]))
          /\ stored[c].user_limit # 0 =>
                Cardinality({y \in Clients : c \in joined'[y]}) <= stored[c].user_limit
          /\ "i" \in registration[c].mode_lock =>
                \/ Live(c) /\ x \in channel[c].invites
                \/ channel_client_is_invex(stored[c], x)]_vars

(* JOIN gives nobody authority by hand in a registered channel: the first  *)
(* member to arrive owns it only if its account does.                      *)
RegisteredOwnershipByAccount ==
    [][\A c \in Channels, x \in Clients : (Enters(c, x) /\ Enabled(registration[c])) =>
          channel'[c].manual[x] = {} /\ channel'[c].service[x] = Granted(c, account[x])]_vars

(* An invitation admits once: who enters a +i channel without an exception *)
(* was on its invitation list and no longer is.                            *)
InviteAdmitsOnce ==
    [][\A c \in Channels, x \in Clients :
          (Enters(c, x) /\ "i" \in channel'[c].modes /\ ~channel_client_is_invex(channel'[c].runtime, x)) =>
              /\ Live(c) /\ x \in channel[c].invites
              /\ x \notin channel'[c].invites]_vars

(* "This prevents a corrupted or unreadable runtime/mask persistence layer *)
(* from silently turning a registered channel permissive": a stored ban    *)
(* goes only with the registration or when a member lifts it; here no      *)
(* peer's mode line lifts one.                                             *)
StoredBansSurvive ==
    [][\A c \in Channels :
          (Enabled(registration[c]) /\ Enabled(registration'[c])) =>
              stored[c].ban_list \subseteq stored'[c].ban_list]_vars
=============================================================================
