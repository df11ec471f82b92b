---------------------------- MODULE Registration ----------------------------
(***************************************************************************)
(* The life of a connection in the ScratchIRCd event loop, from accept()   *)
(* to server_disconnect(): the four indexes the server keeps over its      *)
(* clients, the two resolver workers (forward-confirmed reverse DNS and    *)
(* DNSBL) that answer its lookups, the WEBIRC identity change, the gates   *)
(* of command_maybe_register(), the timeouts, and the operators' bans.     *)
(*                                                                         *)
(* The event loop is single threaded, so each handler is one atomic step;  *)
(* the steps of the workers, of the peers and of the clock interleave with *)
(* them.  Deadlines are abstracted to "the deadline may have passed": an   *)
(* expiry step is possible whenever the thing it expires is outstanding.   *)
(***************************************************************************)
EXTENDS Naturals, FiniteSets

CONSTANTS
    Slots,              \* the Client objects (and their sockets)
    Nicks, Ips,         \* valid nicknames; canonical numeric addresses
    None,               \* an empty string field, an absent index entry
    MaxId,              \* UINT64_MAX, the last client id
    MaxPerIp,           \* max_connections_per_ip; 0 disables the limit
    Gateways,           \* addresses of the configured WEBIRC gateways
    ExemptIps,          \* connection_limit_exempt_ips
    ListedIps,          \* addresses the configured DNSBL zones list
    ServerPassword,     \* a server password is configured
    NospoofEnabled,     \* the PING-cookie check is configured
    DnsblConfigured,    \* dnsbl_count > 0
    TlsListeners,       \* which values of use_tls the listeners have
    BanSpace,           \* the bans operators may set: <<kind, address>>
    ElineSpace,         \* the exceptions operators may set
    Commands,           \* the registration commands the peers send
    Faults              \* what may fail inside a handler, see FaultKinds

(* KLINE user@host, KLINE user@ip, ZLINE and GEOBAN entries, and the five  *)
(* ELINE letters.  A host name is identified with the address it was       *)
(* forward-confirmed for, a GeoIP region with an address inside it.        *)
BanKinds   == {"khost", "kip", "z", "g"}
ElineKinds == {"k", "z", "m", "B", "G"}

(* alloc: a hash entry cannot be allocated; submit: the resolver pipe is   *)
(* full; bandb, geodb: that database cannot be read; rand: no random bytes *)
FaultKinds == {"alloc", "submit", "bandb", "geodb", "rand"}

ASSUME SlotsAssumption == IsFiniteSet(Slots)
ASSUME NoneAssumption  == None \notin Slots /\ None \notin Nicks /\ None \notin Ips
ASSUME BoundAssumption == MaxId \in Nat /\ MaxPerIp \in Nat
ASSUME PolicyAssumption ==
    /\ Gateways \subseteq Ips
    /\ ListedIps \subseteq Ips
    /\ BanSpace \subseteq BanKinds \X Ips
    /\ ElineSpace \subseteq ElineKinds \X Ips
    /\ TlsListeners \subseteq BOOLEAN
    /\ Faults \subseteq FaultKinds
ASSUME ConfigAssumption ==
    /\ ServerPassword \in BOOLEAN
    /\ NospoofEnabled \in BOOLEAN
    /\ DnsblConfigured \in BOOLEAN

VARIABLES
    live,                       \* the slots in server->clients[]
    client,                     \* the Client record of every slot
    next_client_id,             \* the last id handed out
    clients_by_id,              \* hash: id -> slot
    clients_by_nick,            \* hash: nick -> slot
    connection_counts_by_ip,    \* hash: address -> number of connections
    dns_lookups, dnsbl_lookups, \* lookups the two resolver workers owe
    bans, elines                \* the ban database

index == <<clients_by_id, clients_by_nick, connection_counts_by_ip>>
lookups == <<dns_lookups, dnsbl_lookups>>
policy == <<bans, elines>>
vars == <<live, client, next_client_id, index, lookups, policy>>

Ids == 1 .. MaxId
DnsStates   == {"NONE", "PENDING", "VERIFIED", "FAILED", "TIMEOUT"}
DnsblStates == {"NONE", "PENDING", "CLEAR", "LISTED", "TIMEOUT", "ERROR"}
NospoofStates == {"NONE", "STARTED", "VERIFIED"}

(* The part of Client that registration reads or writes.  user and geoip   *)
(* keep only whether they are set, geoip also for which address; shut is   *)
(* shutdown(fd) after a refusal; handshake is CLIENT_TLS_HANDSHAKE.        *)
ClientRecord ==
    [id : Ids, nick : Nicks \cup {None}, user : BOOLEAN,
     cap_negotiating : BOOLEAN, pass_accepted : BOOLEAN,
     nospoof : NospoofStates, dns_state : DnsStates, dnsbl_state : DnsblStates,
     real_ip : Ips, real_host : Ips \cup {None}, geoip : Ips \cup {None},
     webirc : BOOLEAN, registered : BOOLEAN, shut : BOOLEAN, handshake : BOOLEAN]

(* What client_create() and accept_clients() put in a fresh Client.        *)
NewClient(id, ip, use_tls, dns) ==
    [id |-> id, nick |-> None, user |-> FALSE,
     cap_negotiating |-> FALSE, pass_accepted |-> FALSE,
     nospoof |-> "NONE", dns_state |-> dns, dnsbl_state |-> "NONE",
     real_ip |-> ip, real_host |-> None, geoip |-> None,
     webirc |-> FALSE, registered |-> FALSE, shut |-> FALSE, handshake |-> use_tls]

TypeOK ==
    /\ live \subseteq Slots
    /\ client \in [Slots -> ClientRecord \cup {None}]
    /\ \A s \in live : client[s] \in ClientRecord
    /\ next_client_id \in 0 .. MaxId
    /\ clients_by_id \in [Ids -> Slots \cup {None}]
    /\ clients_by_nick \in [Nicks -> Slots \cup {None}]
    /\ connection_counts_by_ip \in [Ips -> Nat]
    /\ dns_lookups \subseteq [id : Ids, ip : Ips]
    /\ dnsbl_lookups \subseteq [id : Ids, ip : Ips]
    /\ bans \subseteq BanKinds \X Ips
    /\ elines \subseteq ElineKinds \X Ips

Init ==
    /\ live = {}
    /\ client = [s \in Slots |-> None]
    /\ next_client_id = 0
    /\ clients_by_id = [i \in Ids |-> None]
    /\ clients_by_nick = [n \in Nicks |-> None]
    /\ connection_counts_by_ip = [ip \in Ips |-> 0]
    /\ dns_lookups = {} /\ dnsbl_lookups = {}
    /\ bans \in SUBSET BanSpace /\ elines \in SUBSET ElineSpace
-----------------------------------------------------------------------------
(* Per-address limit.                                                      *)

server_connection_limit_ip_exempt(ip) ==
    ip \in ExemptIps \/ ip \in Gateways \/ <<"m", ip>> \in elines

(* The clients of ip that count against it: all but the excluded one.      *)
ConnectionsFrom(ip, exclude) ==
    IF exclude # None /\ connection_counts_by_ip[ip] > 0 /\ client[exclude].real_ip = ip
    THEN connection_counts_by_ip[ip] - 1
    ELSE connection_counts_by_ip[ip]

Mut_limit_off_by_one(ip, exclude) ==
    /\ MaxPerIp # 0
    /\ ~server_connection_limit_ip_exempt(ip)
    /\ ConnectionsFrom(ip, exclude) > MaxPerIp

(* exclude is the slot that is moving to ip, or None.                      *)
server_connection_limit_reached(ip, exclude) ==
    /\ MaxPerIp # 0
    /\ ~server_connection_limit_ip_exempt(ip)
    /\ ConnectionsFrom(ip, exclude) >= MaxPerIp

connection_count_remove(counts, ip, n) ==
    [counts EXCEPT ![ip] = IF @ > n THEN @ - n ELSE 0]

Mut_move_adds_only(old, new) ==
    IF old = new THEN connection_counts_by_ip
    ELSE [connection_counts_by_ip EXCEPT ![new] = @ + 1]

server_connection_count_move(old, new) ==
    IF old = new THEN connection_counts_by_ip
    ELSE connection_count_remove([connection_counts_by_ip EXCEPT ![new] = @ + 1], old, 1)

(* The id index without the clients that go.                               *)
Mut_ids_kept(gone) == clients_by_id

IdsWithout(gone) ==
    LET ids == {client[s].id : s \in gone}
    IN  [i \in Ids |-> IF i \in ids THEN None ELSE clients_by_id[i]]

(* server_disconnect() of every slot in gone: out of clients[], of the     *)
(* three indexes, and freed.  Nothing else refers to the slot afterwards   *)
(* except lookups in flight, which carry the id.                           *)
server_disconnect(gone) ==
    LET nicks == {client[s].nick : s \in gone}
        from(ip) == Cardinality({s \in gone : client[s].real_ip = ip})
    IN  /\ live' = live \ gone
        /\ client' = [s \in Slots |-> IF s \in gone THEN None ELSE client[s]]
        /\ clients_by_nick' = [n \in Nicks |-> IF n \in nicks THEN None ELSE clients_by_nick[n]]
        /\ clients_by_id' = IdsWithout(gone)
        /\ connection_counts_by_ip' =
              [ip \in Ips |-> connection_count_remove(connection_counts_by_ip, ip, from(ip))[ip]]

-----------------------------------------------------------------------------
(* The gates of registration.                                              *)

registration_geo_banned(r, e) ==
    /\ "geodb" \notin e
    /\ <<"g", r.geoip>> \in bans
    /\ "bandb" \in e \/ <<"G", r.real_ip>> \notin elines

KlineMatches(r) ==
    \/ <<"kip", r.real_ip>> \in bans
    \/ r.real_host # None /\ <<"khost", r.real_host>> \in bans

registration_banned(r, e) ==
    \/ "bandb" \in e
    \/ <<"z", r.real_ip>> \in bans /\ <<"z", r.real_ip>> \notin elines
    \/ KlineMatches(r) /\ <<"k", r.real_ip>> \notin elines

Mut_dns_not_awaited(r) ==
    \/ r.registered
    \/ r.nick = None
    \/ ~r.user
    \/ r.cap_negotiating
    \/ ServerPassword /\ ~r.pass_accepted
    \/ NospoofEnabled /\ r.nospoof # "VERIFIED"

(* The early returns at the top of command_maybe_register().               *)
Gated(r) ==
    \/ r.registered
    \/ r.nick = None
    \/ ~r.user
    \/ r.cap_negotiating
    \/ r.dns_state \in {"PENDING", "NONE"}
    \/ ServerPassword /\ ~r.pass_accepted
    \/ NospoofEnabled /\ r.nospoof # "VERIFIED"

(* geoip_lookup(), once per address.                                       *)
WithGeoip(r) == [r EXCEPT !.geoip = IF @ = None THEN r.real_ip ELSE @]

(* The first pass asks the DNSBLs, if there are any; a full pipe is an     *)
(* error, which does not stop the registration.                            *)
WithDnsbl(r, e) ==
    [r EXCEPT !.dnsbl_state = IF @ # "NONE" THEN @
                              ELSE IF ~DnsblConfigured THEN "CLEAR"
                              ELSE IF "submit" \notin e THEN "PENDING" ELSE "ERROR"]

(* The record command_maybe_register() leaves, e being the faults it meets *)
command_maybe_register(r, e) ==
    LET geo == WithGeoip(r)
        bl  == WithDnsbl(geo, e)
    IN  IF Gated(r) THEN r
        ELSE IF registration_geo_banned(geo, e) THEN [geo EXCEPT !.shut = TRUE]
        ELSE IF bl.dnsbl_state \in {"PENDING", "LISTED"} THEN bl
        ELSE IF registration_banned(bl, e) THEN [bl EXCEPT !.shut = TRUE]
        ELSE [bl EXCEPT !.registered = TRUE]

(* A handler that sets the record of s to r and ends in a call of          *)
(* command_maybe_register(), which may submit a DNSBL lookup; owed are the *)
(* lookups still open before that.                                         *)
Register(s, r, e, owed) ==
    LET after == command_maybe_register(r, e)
    IN  /\ client' = [client EXCEPT ![s] = after]
        /\ dnsbl_lookups' =
              IF r.dnsbl_state # "PENDING" /\ after.dnsbl_state = "PENDING"
              THEN owed \cup {[id |-> r.id, ip |-> r.real_ip]}
              ELSE owed

-----------------------------------------------------------------------------
(* Connections.                                                            *)

Mut_ids_unchecked == TRUE

(* next_client_id != UINT64_MAX                                            *)
IdAvailable == next_client_id < MaxId

accept_clients(s, ip, use_tls, e) ==
    LET id == next_client_id + 1 IN
    /\ s \notin live
    /\ IdAvailable
    /\ ~server_connection_limit_reached(ip, None)
    /\ next_client_id' = id
    /\ IF "alloc" \in e
       THEN UNCHANGED <<live, client, index, dns_lookups>>
       ELSE /\ live' = live \cup {s}
            /\ client' = [client EXCEPT ![s] =
                  NewClient(id, ip, use_tls, IF "submit" \in e THEN "FAILED" ELSE "PENDING")]
            /\ clients_by_id' = [clients_by_id EXCEPT ![id] = s]
            /\ connection_counts_by_ip' = [connection_counts_by_ip EXCEPT ![ip] = @ + 1]
            /\ dns_lookups' = IF "submit" \in e THEN dns_lookups
                              ELSE dns_lookups \cup {[id |-> id, ip |-> ip]}
            /\ UNCHANGED clients_by_nick
    /\ UNCHANGED <<dnsbl_lookups, policy>>

advance_tls_handshake(s) ==
    /\ s \in live /\ client[s].handshake
    /\ client' = [client EXCEPT ![s].handshake = FALSE]
    /\ UNCHANGED <<live, next_client_id, index, lookups, policy>>

(* A command line of s can reach its handler: lines already buffered are   *)
(* still dispatched after shutdown(fd).                                    *)
CanSend(s) == s \in live /\ ~client[s].handshake

(* POLLHUP, POLLERR or a failed read, of a peer that left or of a socket   *)
(* the server shut down; QUIT, KILL, SendQ, flood and input errors.        *)
Hangup(s) ==
    /\ s \in live
    /\ server_disconnect({s})
    /\ UNCHANGED <<next_client_id, lookups, policy>>

-----------------------------------------------------------------------------
(* Registration commands.                                                  *)

nospoof_start(r, e) ==
    IF NospoofEnabled /\ r.nospoof = "NONE" /\ "rand" \notin e
    THEN [r EXCEPT !.nospoof = "STARTED"] ELSE r

Mut_old_nick_kept(r) == clients_by_nick

(* hash_remove() of the nickname the client had.                           *)
NickReleased(r) ==
    IF r.nick = None THEN clients_by_nick ELSE [clients_by_nick EXCEPT ![r.nick] = None]

command_nick(s, n, e) ==
    LET r       == client[s]
        removed == NickReleased(r)
        named   == [r EXCEPT !.nick = n]
    IN  /\ CanSend(s)
        /\ clients_by_nick[n] \in {None, s}
        /\ IF "alloc" \in e
           THEN /\ clients_by_nick' = removed
                /\ client' = [client EXCEPT ![s].nick = None]
                /\ UNCHANGED dnsbl_lookups
           ELSE /\ clients_by_nick' = [removed EXCEPT ![n] = s]
                /\ Register(s, IF r.registered THEN named ELSE nospoof_start(named, e), e, dnsbl_lookups)
        /\ UNCHANGED <<live, next_client_id, clients_by_id, connection_counts_by_ip,
                       dns_lookups, policy>>

(* The handlers that change nothing but the record of the client.          *)
Update(s, r, e) ==
    /\ Register(s, r, e, dnsbl_lookups)
    /\ UNCHANGED <<live, next_client_id, index, dns_lookups, policy>>

command_user(s, e) ==
    /\ CanSend(s) /\ ~client[s].registered /\ ~client[s].user
    /\ Update(s, [client[s] EXCEPT !.user = TRUE], e)

command_pass(s, accepted, e) ==
    /\ CanSend(s) /\ ~client[s].registered
    /\ IF accepted \/ ~ServerPassword
       THEN Update(s, [client[s] EXCEPT !.pass_accepted = TRUE], e)
       ELSE /\ client' = [client EXCEPT ![s].pass_accepted = FALSE]
            /\ UNCHANGED <<live, next_client_id, index, lookups, policy>>

(* CAP LS and CAP REQ open the negotiation, at any time.                   *)
command_cap_begin(s) ==
    /\ CanSend(s)
    /\ client' = [client EXCEPT ![s].cap_negotiating = TRUE]
    /\ UNCHANGED <<live, next_client_id, index, lookups, policy>>

Mut_cap_end_does_not_register(s, e) ==
    /\ CanSend(s)
    /\ client' = [client EXCEPT ![s].cap_negotiating = FALSE]
    /\ UNCHANGED <<live, next_client_id, index, lookups, policy>>

command_cap_end(s, e) ==
    /\ CanSend(s)
    /\ Update(s, [client[s] EXCEPT !.cap_negotiating = FALSE], e)

(* PONG with the cookie of the no-spoof PING.                              *)
nospoof_handle_pong(s, e) ==
    /\ CanSend(s) /\ client[s].nospoof = "STARTED"
    /\ Update(s, [client[s] EXCEPT !.nospoof = "VERIFIED"], e)

(* server_reassign_client_id(): lookups submitted under the old id can no  *)
(* longer find the client.                                                 *)
Mut_id_kept(old) == old

ReassignedId(old) == next_client_id + 1

Mut_host_kept(r, id, ip, dns) ==
    [r EXCEPT !.id = id, !.webirc = TRUE, !.real_ip = ip, !.geoip = None,
              !.dnsbl_state = "NONE", !.dns_state = dns]

Mut_geoip_kept(r, id, ip, dns) ==
    [r EXCEPT !.id = id, !.webirc = TRUE, !.real_ip = ip, !.real_host = None,
              !.dnsbl_state = "NONE", !.dns_state = dns]

(* The end user's identity replaces everything known about the gateway.    *)
WebircIdentity(r, id, ip, dns) ==
    [r EXCEPT !.id = id, !.webirc = TRUE, !.real_ip = ip, !.real_host = None,
              !.geoip = None, !.dnsbl_state = "NONE", !.dns_state = dns]

WebircRefused(s, ip) ==
    \/ client[s].registered
    \/ client[s].webirc
    \/ client[s].real_ip \notin Gateways
    \/ server_connection_limit_reached(ip, s)
    \/ ~IdAvailable

(* WEBIRC: a fresh id, then the counts move, then the identity is replaced *)
(* and looked up again.  Every refusal disconnects; an allocation failure  *)
(* may come before or after the new id was taken.                          *)
command_webirc(s, ip, e) ==
    LET r  == client[s]
        id == ReassignedId(r.id)
    IN  /\ CanSend(s)
        /\ IF WebircRefused(s, ip)
           THEN /\ server_disconnect({s})
                /\ UNCHANGED <<next_client_id, lookups>>
           ELSE IF "alloc" \in e
           THEN /\ server_disconnect({s})
                /\ next_client_id' \in {next_client_id, id}
                /\ UNCHANGED lookups
           ELSE /\ next_client_id' = id
                /\ clients_by_id' = [clients_by_id EXCEPT ![r.id] = None, ![id] = s]
                /\ connection_counts_by_ip' = server_connection_count_move(r.real_ip, ip)
                /\ client' = [client EXCEPT ![s] =
                      WebircIdentity(r, id, ip, IF "submit" \in e THEN "FAILED" ELSE "PENDING")]
                /\ dns_lookups' = IF "submit" \in e THEN dns_lookups
                                  ELSE dns_lookups \cup {[id |-> id, ip |-> ip]}
                /\ UNCHANGED <<live, clients_by_nick, dnsbl_lookups>>
        /\ UNCHANGED policy

-----------------------------------------------------------------------------
(* Answers of the resolver workers.  A lookup stays in dns_lookups or      *)
(* dnsbl_lookups from the submission to the read of its answer; one whose  *)
(* answer a congested pipe drops, or whose worker hangs, stays for ever.   *)

Mut_find_any_client(id) == IF live = {} THEN None ELSE CHOOSE s \in live : TRUE

server_find_client_by_id(id) == clients_by_id[id]

(* FCrDNS confirms a name for the address that was asked about, or not.    *)
handle_dns_result(q, verified, e) ==
    LET s == server_find_client_by_id(q.id) IN
    /\ dns_lookups' = dns_lookups \ {q}
    /\ IF s = None THEN UNCHANGED <<client, dnsbl_lookups>>
       ELSE IF client[s].dns_state # "PENDING" THEN UNCHANGED <<client, dnsbl_lookups>>
       ELSE Register(s, [client[s] EXCEPT
                           !.dns_state = IF verified THEN "VERIFIED" ELSE "FAILED",
                           !.real_host = IF verified THEN q.ip ELSE None], e, dnsbl_lookups)
    /\ UNCHANGED <<live, next_client_id, index, policy>>

(* listed: a configured zone lists the address that was asked about; the   *)
(* result carries only the id.  A listed client is exempted by an ELINE   *)
(* or gets a ZLINE on its current address and a shutdown, and stays in the *)
(* table until poll() reports it.                                          *)
handle_dnsbl_result(q, listed, e) ==
    LET s  == server_find_client_by_id(q.id)
        ip == client[s].real_ip
        exempt == "bandb" \notin e /\ <<"B", ip>> \in elines
    IN  /\ listed => q.ip \in ListedIps
        /\ IF s = None THEN UNCHANGED <<client, bans>> /\ dnsbl_lookups' = dnsbl_lookups \ {q}
           ELSE IF client[s].dnsbl_state # "PENDING"
           THEN UNCHANGED <<client, bans>> /\ dnsbl_lookups' = dnsbl_lookups \ {q}
           ELSE IF ~listed \/ exempt
           THEN /\ Register(s, [client[s] EXCEPT !.dnsbl_state = "CLEAR"], e, dnsbl_lookups \ {q})
                /\ UNCHANGED bans
           ELSE /\ client' = [client EXCEPT ![s].dnsbl_state = "LISTED", ![s].shut = TRUE]
                /\ bans' = IF "bandb" \in e THEN bans ELSE bans \cup {<<"z", ip>>}
                /\ dnsbl_lookups' = dnsbl_lookups \ {q}
        /\ UNCHANGED <<live, next_client_id, index, dns_lookups, elines>>

-----------------------------------------------------------------------------
(* expire_connection_lookups(), one client and one branch at a time: each  *)
(* branch has its own deadline.                                            *)

RegistrationTimeout(s) ==
    /\ s \in live /\ ~client[s].registered
    /\ server_disconnect({s})
    /\ UNCHANGED <<next_client_id, lookups, policy>>

NospoofTimeout(s) ==
    /\ s \in live /\ NospoofEnabled /\ client[s].nospoof = "STARTED"
    /\ server_disconnect({s})
    /\ UNCHANGED <<next_client_id, lookups, policy>>

Mut_dns_timeout_does_not_register(s, e) ==
    /\ s \in live /\ client[s].dns_state = "PENDING"
    /\ client' = [client EXCEPT ![s].dns_state = "TIMEOUT", ![s].real_host = None]
    /\ UNCHANGED <<live, next_client_id, index, lookups, policy>>

DnsTimeout(s, e) ==
    /\ s \in live /\ client[s].dns_state = "PENDING"
    /\ Update(s, [client[s] EXCEPT !.dns_state = "TIMEOUT", !.real_host = None], e)

DnsblTimeout(s, e) ==
    /\ s \in live /\ client[s].dnsbl_state = "PENDING"
    /\ Update(s, [client[s] EXCEPT !.dnsbl_state = "TIMEOUT"], e)

-----------------------------------------------------------------------------
(* Operators.  s is the registered operator who types the command; the ban *)
(* is stored, then every stored ban of that kind is enforced on everyone   *)
(* but s.                                                                  *)

kline_disconnect_row(t, stored) ==
    /\ \/ <<"kip", client[t].real_ip>> \in stored
       \/ client[t].real_host # None /\ <<"khost", client[t].real_host>> \in stored
    /\ <<"k", client[t].real_ip>> \notin elines

zline_disconnect_row(t, stored) ==
    <<"z", client[t].real_ip>> \in stored /\ <<"z", client[t].real_ip>> \notin elines

geoban_disconnect_match(t, stored) == client[t].registered /\ <<"g", client[t].geoip>> \in stored

command_kline(s, b) ==
    /\ s \in live /\ client[s].registered
    /\ bans' = bans \cup {b}
    /\ server_disconnect({t \in live \ {s} : kline_disconnect_row(t, bans')})
    /\ UNCHANGED <<next_client_id, lookups, elines>>

command_zline(s, b) ==
    /\ s \in live /\ client[s].registered
    /\ bans' = bans \cup {b}
    /\ server_disconnect({t \in live \ {s} : zline_disconnect_row(t, bans')})
    /\ UNCHANGED <<next_client_id, lookups, elines>>

command_geoban(s, b) ==
    /\ s \in live /\ client[s].registered
    /\ bans' = bans \cup {b}
    /\ server_disconnect({t \in live \ {s} : geoban_disconnect_match(t, bans')})
    /\ UNCHANGED <<next_client_id, lookups, elines>>

(* KLINE -mask, ZLINE -mask, UNGEOBAN, or the ban runs out.                *)
DropBan(b) ==
    /\ bans' = bans \ {b}
    /\ UNCHANGED <<live, client, next_client_id, index, lookups, elines>>

(* An operator's ELINE adds an exception, ELINE -mask or expiry drops it.  *)
command_eline(x, add) ==
    /\ add => \E s \in live : client[s].registered
    /\ elines' = IF add THEN elines \cup {x} ELSE elines \ {x}
    /\ UNCHANGED <<live, client, next_client_id, index, lookups, bans>>

-----------------------------------------------------------------------------
Connection(s) ==
    \/ \E ip \in Ips, use_tls \in TlsListeners, e \in SUBSET Faults : accept_clients(s, ip, use_tls, e)
    \/ advance_tls_handshake(s)
    \/ Hangup(s)

Command(s) ==
    \/ "NICK" \in Commands /\ \E n \in Nicks, e \in SUBSET Faults : command_nick(s, n, e)
    \/ "USER" \in Commands /\ \E e \in SUBSET Faults : command_user(s, e)
    \/ "PASS" \in Commands /\ \E a \in BOOLEAN, e \in SUBSET Faults : command_pass(s, a, e)
    \/ "CAP"  \in Commands /\ command_cap_begin(s)
    \/ "CAP"  \in Commands /\ \E e \in SUBSET Faults : command_cap_end(s, e)
    \/ "PONG" \in Commands /\ \E e \in SUBSET Faults : nospoof_handle_pong(s, e)
    \/ "WEBIRC" \in Commands /\ \E ip \in Ips, e \in SUBSET Faults : command_webirc(s, ip, e)

Answer ==
    \/ \E q \in dns_lookups, v \in BOOLEAN, e \in SUBSET Faults : handle_dns_result(q, v, e)
    \/ \E q \in dnsbl_lookups, l \in BOOLEAN, e \in SUBSET Faults : handle_dnsbl_result(q, l, e)

LookupTimeout(s) ==
    \/ \E e \in SUBSET Faults : DnsTimeout(s, e)
    \/ \E e \in SUBSET Faults : DnsblTimeout(s, e)

Operator(s) ==
    \/ \E b \in {b \in BanSpace : b[1] \in {"kip", "khost"}} : command_kline(s, b)
    \/ \E b \in {b \in BanSpace : b[1] = "z"} : command_zline(s, b)
    \/ \E b \in {b \in BanSpace : b[1] = "g"} : command_geoban(s, b)

Next ==
    \/ \E s \in Slots : Connection(s) \/ Command(s) \/ LookupTimeout(s) \/ Operator(s)
    \/ \E s \in Slots : RegistrationTimeout(s) \/ NospoofTimeout(s)
    \/ Answer
    \/ \E b \in bans : DropBan(b)
    \/ \E x \in ElineSpace, add \in BOOLEAN : command_eline(x, add)

Spec == Init /\ [][Next]_vars

(* expire_connection_lookups() runs every second of the event loop, so a   *)
(* deadline that has passed is acted on.  Peers and resolvers owe nothing. *)
FairSpec == Spec /\ \A s \in Slots : WF_vars(LookupTimeout(s))

-----------------------------------------------------------------------------
(* clients_by_id holds exactly the live clients under their current ids,   *)
(* through accept failures, WEBIRC re-identification and every disconnect  *)
(* (server.c accept_clients and server_disconnect, webirc.c                *)
(* server_reassign_client_id).                                             *)
IdIndexCoherent ==
    /\ \A s \in live : clients_by_id[client[s].id] = s /\ client[s].id <= next_client_id
    /\ \A i \in Ids : clients_by_id[i] # None =>
          clients_by_id[i] \in live /\ client[clients_by_id[i]].id = i

(* clients_by_nick holds exactly the named live clients, so a nickname has *)
(* at most one owner and no entry points at a freed Client, whatever NICK  *)
(* changes, allocation failures and disconnects happened (command_nick).   *)
NickIndexCoherent ==
    /\ \A s \in live : client[s].nick # None => clients_by_nick[client[s].nick] = s
    /\ \A n \in Nicks : clients_by_nick[n] # None =>
          clients_by_nick[n] \in live /\ client[clients_by_nick[n]].nick = n

(* connection_counts_by_ip counts the live clients of every address: no    *)
(* count leaks when WEBIRC moves a client and no disconnect takes one from *)
(* another address (connection_count_add, _remove, _move).                 *)
CountsExact ==
    \A ip \in Ips : connection_counts_by_ip[ip] =
        Cardinality({s \in live : client[s].real_ip = ip})

(* An open lookup that still finds a client by its id was asked about the  *)
(* address that client has now, so no answer can be credited to another    *)
(* one (server_find_client_by_id, server_reassign_client_id).              *)
LookupsOwned ==
    \A q \in dns_lookups \cup dnsbl_lookups :
        /\ q.id <= next_client_id
        /\ \A s \in live : client[s].id = q.id => client[s].real_ip = q.ip

(* A late or stale resolver answer never lands on another identity: the    *)
(* host name and the GeoIP data a client carries were looked up for the    *)
(* address it has now (handle_dns_result, command_webirc).                 *)
IdentityCurrent ==
    \A s \in live : /\ client[s].real_host \in {None, client[s].real_ip}
                   /\ client[s].geoip \in {None, client[s].real_ip}

(* A registered client has passed every configured gate and no lookup of   *)
(* its address is still open or positive (command_maybe_register); it has  *)
(* a nickname unless an allocation failed in NICK.                         *)
Vetted ==
    \A s \in live : client[s].registered =>
        /\ client[s].user
        /\ client[s].nick # None \/ "alloc" \in Faults
        /\ client[s].dns_state \in {"VERIFIED", "FAILED", "TIMEOUT"}
        /\ client[s].dnsbl_state \in {"CLEAR", "TIMEOUT", "ERROR"}
        /\ client[s].geoip = client[s].real_ip
        /\ ServerPassword => client[s].pass_accepted
        /\ NospoofEnabled => client[s].nospoof = "VERIFIED"

(* No wake-up is lost: a client for which nothing is missing any more has  *)
(* been registered or refused by the handler that supplied the last piece. *)
(* The one exception in the code is a WEBIRC sent after NICK and USER      *)
(* whose DNS submission failed (webirc.c:172): nothing then retries.       *)
NotStranded ==
    \A s \in live :
        \/ Gated(client[s])
        \/ client[s].dnsbl_state \in {"PENDING", "LISTED"}
        \/ client[s].shut
        \/ client[s].webirc /\ client[s].dns_state = "FAILED"

(* A client that has sent everything and is not refused does not wait for  *)
(* ever, even if both resolvers never answer: the DNS and DNSBL deadlines  *)
(* carry it into service (expire_connection_lookups; dns.c:164 and         *)
(* dnsbl.c:143 rely on this to drop answers).  The exception is the one of *)
(* NotStranded.                                                            *)
Waiting(s) ==
    /\ s \in live
    /\ ~client[s].registered /\ ~client[s].shut
    /\ client[s].nick # None /\ client[s].user /\ ~client[s].cap_negotiating
    /\ ServerPassword => client[s].pass_accepted
    /\ NospoofEnabled => client[s].nospoof = "VERIFIED"
    /\ ~(client[s].webirc /\ client[s].dns_state = "FAILED")
LookupsNeverBlock == \A s \in Slots : Waiting(s) ~> ~Waiting(s)

(* An automatic ZLINE only ever hits an address a DNSBL lists, not one     *)
(* that took over the connection in the meantime (handle_dnsbl_result).    *)
AutoZlineJustified ==
    [][\A ip \in Ips : <<"z", ip>> \in bans' \ bans =>
          ip \in ListedIps \/ \E s \in live : command_zline(s, <<"z", ip>>)]_vars

(* Nobody enters service under an active, unexempted ban on the address    *)
(* and host name it has at that moment, whichever handler completes the    *)
(* registration (registration_geo_banned, registration_banned).            *)
Refused(r) ==
    \/ <<"g", r.real_ip>> \in bans /\ <<"G", r.real_ip>> \notin elines /\ "geodb" \notin Faults
    \/ <<"z", r.real_ip>> \in bans /\ <<"z", r.real_ip>> \notin elines
    \/ /\ \/ <<"kip", r.real_ip>> \in bans
          \/ r.real_host # None /\ <<"khost", r.real_host>> \in bans
       /\ <<"k", r.real_ip>> \notin elines
NoEntryUnderBan ==
    [][\A s \in live \cap live' :
          ~client[s].registered /\ client'[s].registered => ~Refused(client'[s])]_vars

(* No step raises the number of clients of an address above the per-IP     *)
(* limit unless the address is exempt, also when WEBIRC moves a client     *)
(* (server_connection_limit_reached).                                      *)
PerIpLimit ==
    [][\A ip \in Ips :
          LET now == Cardinality({s \in live' : client'[s].real_ip = ip})
          IN  now > Cardinality({s \in live : client[s].real_ip = ip}) =>
                \/ MaxPerIp = 0
                \/ server_connection_limit_ip_exempt(ip)
                \/ now <= MaxPerIp]_vars

(* An ELINE of type G keeps a connected client through a GEOBAN.           *)
GeobanSparesExempt ==
    [][\A s \in live, b \in BanSpace : command_geoban(s, b) =>
          \A t \in live : <<"G", client[t].real_ip>> \in elines => t \in live']_vars
=============================================================================
