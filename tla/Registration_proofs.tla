------------------------ MODULE Registration_proofs ------------------------
(***************************************************************************)
(* Proofs about Registration for every number of clients, nicknames and    *)
(* addresses and every configuration.                                      *)
(***************************************************************************)
EXTENDS Registration, TLAPS

(* The invariants that speak of one client record at a time.               *)
IdentityOf(r) == r.real_host \in {None, r.real_ip} /\ r.geoip \in {None, r.real_ip}

VettedOf(r) ==
    r.registered =>
        /\ r.user
        /\ r.nick # None \/ "alloc" \in Faults
        /\ r.dns_state \in {"VERIFIED", "FAILED", "TIMEOUT"}
        /\ r.dnsbl_state \in {"CLEAR", "TIMEOUT", "ERROR"}
        /\ r.geoip = r.real_ip
        /\ ServerPassword => r.pass_accepted
        /\ NospoofEnabled => r.nospoof = "VERIFIED"

NotStrandedOf(r) ==
    \/ Gated(r)
    \/ r.dnsbl_state \in {"PENDING", "LISTED"}
    \/ r.shut
    \/ r.webirc /\ r.dns_state = "FAILED"

LEMMA IdsAreNumbers ==
    ASSUME NEW i \in Ids
    PROVE  i \in Nat /\ i \in 0 .. MaxId
  BY BoundAssumption DEF Ids

(* What the handlers rely on about the clients and the open lookups.       *)
IInv ==
    /\ TypeOK
    /\ IdIndexCoherent
    /\ NickIndexCoherent
    /\ LookupsOwned
    /\ IdentityCurrent
    /\ Vetted
    /\ NotStranded

(* What a step may do to the clients and addresses the limit counts: keep  *)
(* them, let some clients go, let one arrive, or move one to the address   *)
(* its gateway names.                                                      *)
SameAddresses ==
    /\ live' = live
    /\ \A s \in live : client'[s].real_ip = client[s].real_ip
    /\ connection_counts_by_ip' = connection_counts_by_ip

Departure == \E gone \in SUBSET live : server_disconnect(gone)

Arrival(s, ip) ==
    /\ s \notin live /\ live' = live \cup {s}
    /\ client'[s].real_ip = ip
    /\ \A u \in live : client'[u].real_ip = client[u].real_ip
    /\ connection_counts_by_ip' = [connection_counts_by_ip EXCEPT ![ip] = @ + 1]
    /\ ~server_connection_limit_reached(ip, None)

Move(s, ip) ==
    /\ s \in live /\ live' = live
    /\ client'[s].real_ip = ip
    /\ \A u \in live : u # s => client'[u].real_ip = client[u].real_ip
    /\ connection_counts_by_ip' = server_connection_count_move(client[s].real_ip, ip)
    /\ ~server_connection_limit_reached(ip, s)

AddressStep ==
    \/ SameAddresses
    \/ Departure
    \/ \E s \in Slots, ip \in Ips : Arrival(s, ip) \/ Move(s, ip)

(* Nobody enters service in this step under a ban.                         *)
EntryStep ==
    \A s \in live \cap live' :
        ~client[s].registered /\ client'[s].registered => ~Refused(client'[s])

Kept == IInv' /\ AddressStep /\ EntryStep

-----------------------------------------------------------------------------
(* geoip_lookup() and the DNSBL submission change one field each.          *)
LEMMA LookupFields ==
    ASSUME NEW r \in ClientRecord, NEW e
    PROVE  /\ WithGeoip(r) \in ClientRecord
           /\ WithGeoip(r) = [r EXCEPT !.geoip = WithGeoip(r).geoip]
           /\ WithGeoip(r).geoip = IF r.geoip = None THEN r.real_ip ELSE r.geoip
           /\ \E d \in DnsblStates \ {"NONE"} : WithDnsbl(r, e) = [r EXCEPT !.dnsbl_state = d]
<1>1. WithGeoip(r).geoip = IF r.geoip = None THEN r.real_ip ELSE r.geoip
  BY DEF WithGeoip, ClientRecord
<1>2. WithGeoip(r) \in ClientRecord /\ WithGeoip(r) = [r EXCEPT !.geoip = WithGeoip(r).geoip]
  BY DEF WithGeoip, ClientRecord
<1>3. \E d \in DnsblStates \ {"NONE"} : WithDnsbl(r, e) = [r EXCEPT !.dnsbl_state = d]
  BY SMT, SMTT(30) DEF WithDnsbl, ClientRecord, DnsblStates
<1> QED
  BY <1>1, <1>2, <1>3

(* The five ways out of command_maybe_register().                          *)
LEMMA MaybeRegisterOutcomes ==
    ASSUME NEW r \in ClientRecord, NEW e, NEW t, t = command_maybe_register(r, e)
    PROVE  \/ Gated(r) /\ t = r
           \/ ~Gated(r) /\ t = [WithGeoip(r) EXCEPT !.shut = TRUE]
           \/ /\ ~Gated(r) /\ t = WithDnsbl(WithGeoip(r), e)
              /\ t.dnsbl_state \in {"PENDING", "LISTED"}
           \/ ~Gated(r) /\ t = [WithDnsbl(WithGeoip(r), e) EXCEPT !.shut = TRUE]
           \/ /\ ~Gated(r) /\ t = [WithDnsbl(WithGeoip(r), e) EXCEPT !.registered = TRUE]
              /\ WithDnsbl(WithGeoip(r), e).dnsbl_state \notin {"PENDING", "LISTED"}
              /\ ~registration_geo_banned(WithGeoip(r), e)
              /\ ~registration_banned(WithDnsbl(WithGeoip(r), e), e)
  BY DEF command_maybe_register

(* command_maybe_register() leaves the identity of the client alone, and a *)
(* record whose data is about its own address comes out vetted if it comes *)
(* out registered, and never stranded.                                     *)
LEMMA MaybeRegisterSound ==
    ASSUME NEW r \in ClientRecord, NEW e \in SUBSET Faults, NEW t, t = command_maybe_register(r, e),
           IdentityOf(r), VettedOf(r)
    PROVE  /\ t \in ClientRecord
           /\ t.id = r.id /\ t.nick = r.nick /\ t.real_ip = r.real_ip
           /\ IdentityOf(t) /\ VettedOf(t) /\ NotStrandedOf(t)
           /\ ~r.registered /\ t.registered => ~Refused(t)
<1> DEFINE g == WithGeoip(r)
           b == WithDnsbl(g, e)
<1>1. /\ g \in ClientRecord
      /\ g = [r EXCEPT !.geoip = r.real_ip]
  BY LookupFields, ZenonT(40) DEF IdentityOf, ClientRecord
<1>2. PICK d \in DnsblStates \ {"NONE"} : b = [g EXCEPT !.dnsbl_state = d]
  BY <1>1, LookupFields, Zenon
<1> HIDE DEF g, b
<1>3. CASE Gated(r) /\ t = r
  BY <1>3 DEF NotStrandedOf
<1>4. CASE t = [g EXCEPT !.shut = TRUE] /\ ~Gated(r)
  <2>1. /\ t \in ClientRecord /\ t.shut /\ t.registered = r.registered
        /\ t.id = r.id /\ t.nick = r.nick /\ t.real_ip = r.real_ip
        /\ t.real_host = r.real_host /\ t.geoip = r.real_ip
    BY <1>1, <1>4, ZenonT(40) DEF ClientRecord
  <2> QED BY <2>1, <1>4 DEF IdentityOf, VettedOf, NotStrandedOf, Gated
<1>5. CASE t = b /\ ~Gated(r) /\ t.dnsbl_state \in {"PENDING", "LISTED"}
  <2>1. /\ t \in ClientRecord /\ t.registered = r.registered
        /\ t.id = r.id /\ t.nick = r.nick /\ t.real_ip = r.real_ip
        /\ t.real_host = r.real_host /\ t.geoip = r.real_ip
    <3>1. /\ b \in ClientRecord /\ b.registered = g.registered
          /\ b.id = g.id /\ b.nick = g.nick /\ b.real_ip = g.real_ip
          /\ b.real_host = g.real_host /\ b.geoip = g.geoip
      BY <1>1, <1>2, Zenon DEF ClientRecord
    <3>2. /\ g.registered = r.registered /\ g.id = r.id /\ g.nick = r.nick /\ g.real_ip = r.real_ip
          /\ g.real_host = r.real_host /\ g.geoip = r.real_ip
      BY <1>1 DEF ClientRecord
    <3> QED BY <1>5, <3>1, <3>2
  <2> QED BY <2>1, <1>5 DEF IdentityOf, VettedOf, NotStrandedOf, Gated
<1>6. CASE t = [b EXCEPT !.shut = TRUE] /\ ~Gated(r)
  <2>1. /\ t \in ClientRecord /\ t.shut /\ t.registered = r.registered
        /\ t.id = r.id /\ t.nick = r.nick /\ t.real_ip = r.real_ip
        /\ t.real_host = r.real_host /\ t.geoip = r.real_ip
    BY <1>1, <1>2, <1>6, ZenonT(40) DEF ClientRecord
  <2> QED BY <2>1, <1>6 DEF IdentityOf, VettedOf, NotStrandedOf, Gated
<1>7. CASE /\ t = [b EXCEPT !.registered = TRUE] /\ ~Gated(r)
           /\ b.dnsbl_state \notin {"PENDING", "LISTED"}
           /\ ~registration_geo_banned(g, e) /\ ~registration_banned(b, e)
  <2>1. /\ t \in ClientRecord /\ t.registered
        /\ t.id = r.id /\ t.nick = r.nick /\ t.real_ip = r.real_ip
        /\ t.real_host = r.real_host /\ t.geoip = r.real_ip
        /\ t.user = r.user /\ t.dns_state = r.dns_state
        /\ t.pass_accepted = r.pass_accepted /\ t.nospoof = r.nospoof
        /\ t.dnsbl_state = b.dnsbl_state
    BY <1>1, <1>2, <1>7, ZenonT(40) DEF ClientRecord
  <2>2. t.dnsbl_state \in {"CLEAR", "TIMEOUT", "ERROR"}
    BY <1>1, <1>2, <1>7, <2>1 DEF ClientRecord, DnsblStates
  <2>3. r.dns_state \in {"VERIFIED", "FAILED", "TIMEOUT"}
    BY <1>7 DEF Gated, ClientRecord, DnsStates
  <2>4. /\ g.geoip = t.real_ip /\ g.real_ip = t.real_ip
        /\ b.real_ip = t.real_ip /\ b.real_host = t.real_host
    BY <1>1, <1>2, <2>1 DEF ClientRecord
  <2>5. ~Refused(t)
    BY <1>7, <2>4 DEF Refused, registration_geo_banned, registration_banned, KlineMatches
  <2> QED BY <2>1, <2>2, <2>3, <2>5, <1>7 DEF IdentityOf, VettedOf, NotStrandedOf, Gated
<1> QED
  BY <1>3, <1>4, <1>5, <1>6, <1>7, MaybeRegisterOutcomes DEF g, b

(* The record invariants of every live client.                             *)
LEMMA RecordInvariants ==
    (IdentityCurrent /\ Vetted /\ NotStranded) <=>
        \A s \in live : IdentityOf(client[s]) /\ VettedOf(client[s]) /\ NotStrandedOf(client[s])
  BY DEF IdentityCurrent, Vetted, NotStranded, IdentityOf, VettedOf, NotStrandedOf

-----------------------------------------------------------------------------
(* A handler that replaces one record by t, under the same id and address, *)
(* and may submit one DNSBL lookup for it.                                 *)
LEMMA OneRecord ==
    ASSUME IInv,
           NEW s \in live, NEW t \in ClientRecord,
           client' = [client EXCEPT ![s] = t],
           t.id = client[s].id, t.real_ip = client[s].real_ip,
           IdentityOf(t), VettedOf(t), NotStrandedOf(t),
           ~client[s].registered /\ t.registered => ~Refused(t),
           UNCHANGED <<live, next_client_id, clients_by_id, connection_counts_by_ip>>,
           clients_by_nick' \in [Nicks -> Slots \cup {None}],
           NickIndexCoherent',
           dns_lookups' \subseteq dns_lookups,
           dnsbl_lookups' \subseteq dnsbl_lookups \cup {[id |-> t.id, ip |-> t.real_ip]},
           bans' \subseteq BanKinds \X Ips, elines' \subseteq ElineKinds \X Ips
    PROVE  Kept
<1>1. /\ s \in Slots
      /\ client' \in [Slots -> ClientRecord \cup {None}]
      /\ client'[s] = t
      /\ \A u \in Slots : u # s => client'[u] = client[u]
  BY DEF IInv, TypeOK
<1>2. \A u \in live : /\ client'[u] \in ClientRecord
                      /\ client'[u].id = client[u].id
                      /\ client'[u].real_ip = client[u].real_ip
  BY <1>1 DEF IInv, TypeOK
<1>3. t.id \in Ids /\ t.real_ip \in Ips
  BY DEF ClientRecord
<1>4. TypeOK'
  BY <1>1, <1>2, <1>3 DEF IInv, TypeOK
<1>5. IdIndexCoherent'
  BY <1>1, <1>2 DEF IInv, TypeOK, IdIndexCoherent
<1>6. LookupsOwned'
  <2> SUFFICES ASSUME NEW q \in dns_lookups' \cup dnsbl_lookups'
               PROVE  /\ q.id <= next_client_id
                      /\ \A u \in live : client'[u].id = q.id => client'[u].real_ip = q.ip
    BY DEF LookupsOwned
  <2>1. CASE q \in dns_lookups \cup dnsbl_lookups
    BY <2>1, <1>2 DEF IInv, LookupsOwned
  <2>2. CASE q = [id |-> t.id, ip |-> t.real_ip]
    <3>1. q.id = t.id /\ q.ip = t.real_ip
      BY <2>2
    <3>2. t.id <= next_client_id
      BY DEF IInv, IdIndexCoherent
    <3>3. ASSUME NEW u \in live, client'[u].id = q.id
          PROVE  u = s
      BY <3>1, <3>3, <1>2 DEF IInv, IdIndexCoherent
    <3> QED BY <3>1, <3>2, <3>3, <1>1
  <2> QED BY <2>1, <2>2
<1>7. \A u \in live' : IdentityOf(client'[u]) /\ VettedOf(client'[u]) /\ NotStrandedOf(client'[u])
  BY <1>1, RecordInvariants, Zenon DEF IInv, TypeOK
<1>8. (IdentityCurrent /\ Vetted /\ NotStranded)'
  BY <1>7 DEF IdentityCurrent, Vetted, NotStranded, IdentityOf, VettedOf, NotStrandedOf
<1>9. AddressStep /\ EntryStep
  BY <1>1, <1>2 DEF AddressStep, SameAddresses, EntryStep
<1> QED
  BY <1>4, <1>5, <1>6, <1>8, <1>9 DEF IInv, Kept

(* ... in particular one that keeps the nickname,                          *)
LEMMA SameNickStep ==
    ASSUME IInv,
           NEW s \in live, NEW t \in ClientRecord,
           client' = [client EXCEPT ![s] = t],
           t.id = client[s].id, t.real_ip = client[s].real_ip, t.nick = client[s].nick,
           IdentityOf(t), VettedOf(t), NotStrandedOf(t),
           ~client[s].registered /\ t.registered => ~Refused(t),
           UNCHANGED <<live, next_client_id, index>>,
           dns_lookups' \subseteq dns_lookups,
           dnsbl_lookups' \subseteq dnsbl_lookups \cup {[id |-> t.id, ip |-> t.real_ip]},
           bans' \subseteq BanKinds \X Ips, elines' \subseteq ElineKinds \X Ips
    PROVE  Kept
<1>1. \A u \in live : client'[u].nick = client[u].nick
  BY DEF IInv, TypeOK
<1>2. NickIndexCoherent'
  BY <1>1 DEF IInv, TypeOK, NickIndexCoherent, index
<1>3. clients_by_nick' \in [Nicks -> Slots \cup {None}]
  BY DEF IInv, TypeOK, index
<1> QED
  BY <1>2, <1>3, OneRecord, Zenon DEF index

(* ... and one that ends in command_maybe_register().                      *)
LEMMA RegisterStep ==
    ASSUME IInv,
           NEW s \in live, NEW r \in ClientRecord, NEW e \in SUBSET Faults, NEW owed,
           Register(s, r, e, owed), owed \subseteq dnsbl_lookups,
           r.id = client[s].id, r.real_ip = client[s].real_ip, r.nick = client[s].nick,
           r.registered = client[s].registered, IdentityOf(r), VettedOf(r),
           UNCHANGED <<live, next_client_id, index>>,
           dns_lookups' \subseteq dns_lookups,
           bans' \subseteq BanKinds \X Ips, elines' \subseteq ElineKinds \X Ips
    PROVE  Kept
<1> DEFINE t == command_maybe_register(r, e)
<1>1. /\ t \in ClientRecord
      /\ t.id = r.id /\ t.nick = r.nick /\ t.real_ip = r.real_ip
      /\ IdentityOf(t) /\ VettedOf(t) /\ NotStrandedOf(t)
      /\ ~r.registered /\ t.registered => ~Refused(t)
  BY MaybeRegisterSound
<1>2. client' = [client EXCEPT ![s] = t]
  BY DEF Register
<1>3. dnsbl_lookups' \subseteq dnsbl_lookups \cup {[id |-> t.id, ip |-> t.real_ip]}
  BY <1>1 DEF Register
<1> HIDE DEF t
<1> QED
  BY <1>1, <1>2, <1>3, SameNickStep, Zenon

-----------------------------------------------------------------------------
(* The handlers one by one.                                                *)

(* accept_clients(): the new client enters the id index and the count of  *)
(* its address together, or is refused and enters neither.                  *)
LEMMA AcceptStep ==
    ASSUME IInv, NEW s \in Slots, NEW ip \in Ips, NEW use_tls \in BOOLEAN, NEW e \in SUBSET Faults,
           accept_clients(s, ip, use_tls, e)
    PROVE  Kept
<1> DEFINE id == next_client_id + 1
           dns == IF "submit" \in e THEN "FAILED" ELSE "PENDING"
           t == NewClient(id, ip, use_tls, dns)
<1>1. id \in Ids /\ next_client_id' = id /\ next_client_id \in Nat /\ id \in Nat
  BY BoundAssumption DEF IInv, TypeOK, accept_clients, IdAvailable, Ids
<1>2. \A u \in live : client[u].id \in Nat /\ client[u].id <= next_client_id
  BY DEF IInv, TypeOK, ClientRecord, IdIndexCoherent, Ids
<1>3. \A q \in dns_lookups \cup dnsbl_lookups : q.id \in Nat /\ q.id <= next_client_id
  BY DEF IInv, TypeOK, LookupsOwned, Ids
<1>4. CASE "alloc" \in e
  <2>1. UNCHANGED <<live, client, index, lookups, policy>>
    BY <1>4 DEF accept_clients, lookups
  <2>2. TypeOK'
    BY <1>1, <2>1 DEF IInv, TypeOK, index, lookups, policy, Ids
  <2>3. IdIndexCoherent' /\ LookupsOwned'
    BY <1>1, <1>2, <1>3, <2>1 DEF IInv, IdIndexCoherent, LookupsOwned, index, lookups
  <2>4. (NickIndexCoherent /\ IdentityCurrent /\ Vetted /\ NotStranded)'
    BY <2>1 DEF IInv, NickIndexCoherent, IdentityCurrent, Vetted, NotStranded, index
  <2>5. AddressStep /\ EntryStep
    BY <2>1 DEF AddressStep, SameAddresses, EntryStep, index
  <2> QED BY <2>2, <2>3, <2>4, <2>5 DEF IInv, Kept
<1>5. CASE "alloc" \notin e
  <2>1. /\ s \notin live
        /\ live' = live \cup {s}
        /\ client' = [client EXCEPT ![s] = t]
        /\ clients_by_id' = [clients_by_id EXCEPT ![id] = s]
        /\ connection_counts_by_ip' = [connection_counts_by_ip EXCEPT ![ip] = @ + 1]
        /\ dns_lookups' \subseteq dns_lookups \cup {[id |-> id, ip |-> ip]}
        /\ UNCHANGED <<clients_by_nick, dnsbl_lookups, bans, elines>>
    BY <1>5, Zenon DEF accept_clients, policy
  <2>2. /\ t \in ClientRecord /\ t.id = id /\ t.real_ip = ip /\ t.nick = None
        /\ IdentityOf(t) /\ VettedOf(t) /\ NotStrandedOf(t)
    BY <1>1 DEF NewClient, ClientRecord, IdentityOf, VettedOf, NotStrandedOf, Gated,
                NospoofStates, DnsStates, DnsblStates
  <2> HIDE DEF t, dns
  <2>3. /\ client' \in [Slots -> ClientRecord \cup {None}]
        /\ client'[s] = t
        /\ \A u \in live : u # s /\ client'[u] = client[u]
    BY <2>1, <2>2, Zenon DEF IInv, TypeOK
  <2>4. TypeOK'
    <3>1. next_client_id' \in 0 .. MaxId
      BY <1>1 DEF Ids
    <3>2. /\ clients_by_id' \in [Ids -> Slots \cup {None}]
          /\ connection_counts_by_ip' \in [Ips -> Nat]
      BY <1>1, <2>1 DEF IInv, TypeOK
    <3>3. dns_lookups' \subseteq [id : Ids, ip : Ips]
      BY <1>1, <2>1 DEF IInv, TypeOK
    <3> QED BY <2>1, <2>2, <2>3, <3>1, <3>2, <3>3 DEF IInv, TypeOK
  <2>5. IdIndexCoherent'
    <3>1. \A i \in Ids : clients_by_id'[i] = IF i = id THEN s ELSE clients_by_id[i]
      BY <1>1, <2>1 DEF IInv, TypeOK
    <3>2. \A u \in live : client[u].id \in Ids /\ client[u].id # id
      <4>1. \A u \in live : client[u].id \in Ids
        BY DEF IInv, TypeOK, ClientRecord
      <4>2. \A u \in live : client[u].id # id
        BY <1>1, <1>2
      <4> QED BY <4>1, <4>2
    <3>3. ASSUME NEW u \in live'
          PROVE  clients_by_id'[client'[u].id] = u /\ client'[u].id <= next_client_id'
      <4>1. CASE u = s
        BY <4>1, <1>1, <2>2, <2>3, <3>1
      <4>2. CASE u \in live
        BY <4>2, <1>1, <1>2, <2>3, <3>1, <3>2 DEF IInv, IdIndexCoherent
      <4> QED BY <4>1, <4>2, <2>1
    <3>4. ASSUME NEW i \in Ids, clients_by_id'[i] # None
          PROVE  clients_by_id'[i] \in live' /\ client'[clients_by_id'[i]].id = i
      <4>1. CASE i = id
        <5>1. clients_by_id'[i] = s
          BY <3>1, <4>1
        <5> QED BY <2>1, <2>2, <2>3, <4>1, <5>1
      <4>2. CASE i # id
        <5>1. clients_by_id'[i] = clients_by_id[i]
          BY <3>1, <4>2, Zenon
        <5>2. clients_by_id[i] \in live /\ client[clients_by_id[i]].id = i
          BY <3>4, <5>1 DEF IInv, IdIndexCoherent
        <5> QED BY <2>1, <2>3, <5>1, <5>2
      <4> QED BY <4>1, <4>2
    <3> QED BY <3>3, <3>4 DEF IdIndexCoherent
  <2>6. NickIndexCoherent'
    <3>1. ASSUME NEW u \in live', client'[u].nick # None
          PROVE  clients_by_nick'[client'[u].nick] = u
      <4>1. u \in live /\ client'[u] = client[u]
        BY <2>1, <2>2, <2>3, <3>1, Zenon
      <4> QED BY <2>1, <3>1, <4>1 DEF IInv, NickIndexCoherent
    <3>2. ASSUME NEW m \in Nicks, clients_by_nick'[m] # None
          PROVE  clients_by_nick'[m] \in live' /\ client'[clients_by_nick'[m]].nick = m
      <4>1. clients_by_nick'[m] = clients_by_nick[m]
        BY <2>1
      <4>2. clients_by_nick[m] \in live /\ client[clients_by_nick[m]].nick = m
        BY <3>2, <4>1 DEF IInv, NickIndexCoherent
      <4> QED BY <2>1, <2>3, <4>1, <4>2
    <3> QED BY <3>1, <3>2, Zenon DEF NickIndexCoherent
  <2>7. LookupsOwned'
    <3> SUFFICES ASSUME NEW q \in dns_lookups' \cup dnsbl_lookups'
                 PROVE  /\ q.id <= next_client_id'
                        /\ \A u \in live' : client'[u].id = q.id => client'[u].real_ip = q.ip
      BY DEF LookupsOwned
    <3>1. CASE q \in dns_lookups \cup dnsbl_lookups
      <4>1. q.id \in Nat /\ q.id <= next_client_id
        BY <1>3, <3>1
      <4>2. q.id <= next_client_id' /\ q.id # id
        BY <1>1, <4>1
      <4>3. ASSUME NEW u \in live', client'[u].id = q.id
            PROVE  client'[u].real_ip = q.ip
        <5>1. u \in live /\ client'[u] = client[u]
          BY <2>1, <2>2, <2>3, <4>2, <4>3
        <5> QED BY <3>1, <4>3, <5>1, Zenon DEF IInv, LookupsOwned
      <4> QED BY <4>2, <4>3
    <3>2. CASE q = [id |-> id, ip |-> ip]
      <4>1. q.id = id /\ q.ip = ip /\ q.id <= next_client_id'
        BY <1>1, <3>2
      <4>2. \A u \in live : client[u].id # id
        BY <1>1, <1>2, SMT, SMTT(30)
      <4> HIDE DEF id
      <4> QED BY <2>1, <2>2, <2>3, <4>1, <4>2
    <3> QED BY <3>1, <3>2, <2>1
  <2>8. (IdentityCurrent /\ Vetted /\ NotStranded)'
    <3>1. \A u \in live' : IdentityOf(client'[u]) /\ VettedOf(client'[u]) /\ NotStrandedOf(client'[u])
      BY <2>1, <2>2, <2>3, RecordInvariants, Zenon DEF IInv
    <3> QED
      BY <3>1 DEF IdentityCurrent, Vetted, NotStranded, IdentityOf, VettedOf, NotStrandedOf
  <2>9. Arrival(s, ip)
    BY <2>1, <2>2, <2>3 DEF Arrival, accept_clients
  <2>10. EntryStep
    BY <2>3 DEF EntryStep
  <2> QED BY <2>4, <2>5, <2>6, <2>7, <2>8, <2>9, <2>10 DEF IInv, Kept, AddressStep
<1> QED BY <1>4, <1>5

(* command_nick(): the old name leaves the nick index before the new one    *)
(* enters it; if that insertion fails the client is left without a name.    *)
LEMMA NickStep ==
    ASSUME IInv, NEW s \in Slots, NEW n \in Nicks, NEW e \in SUBSET Faults, command_nick(s, n, e)
    PROVE  Kept
<1> DEFINE r == client[s]
           named == [r EXCEPT !.nick = n]
           started == IF r.registered THEN named ELSE nospoof_start(named, e)
<1>1. /\ s \in live /\ r \in ClientRecord
      /\ clients_by_nick[n] \in {None, s}
      /\ UNCHANGED <<live, next_client_id, clients_by_id, connection_counts_by_ip,
                     dns_lookups, bans, elines>>
  BY DEF IInv, TypeOK, command_nick, CanSend, policy
<1>2. IdentityOf(r) /\ VettedOf(r) /\ NotStrandedOf(r)
  BY <1>1, RecordInvariants, ZenonT(40) DEF IInv
<1>3. /\ NickReleased(r) \in [Nicks -> Slots \cup {None}]
      /\ \A m \in Nicks : NickReleased(r)[m] = IF m = r.nick THEN None ELSE clients_by_nick[m]
  BY <1>1, NoneAssumption DEF NickReleased, IInv, TypeOK, ClientRecord
<1>4. bans' \subseteq BanKinds \X Ips /\ elines' \subseteq ElineKinds \X Ips
  BY <1>1 DEF IInv, TypeOK
<1>5. CASE "alloc" \in e
  <2> DEFINE t == [r EXCEPT !.nick = None]
  <2>1. /\ clients_by_nick' = NickReleased(r) /\ client' = [client EXCEPT ![s] = t]
        /\ UNCHANGED dnsbl_lookups
    BY <1>5 DEF command_nick
  <2>2. t \in ClientRecord /\ t.id = r.id /\ t.real_ip = r.real_ip /\ t.nick = None
        /\ t.registered = r.registered
    BY <1>1 DEF ClientRecord
  <2>3. IdentityOf(t) /\ VettedOf(t) /\ NotStrandedOf(t)
    BY <1>1, <1>2, <1>5 DEF ClientRecord, IdentityOf, VettedOf, NotStrandedOf, Gated
  <2> HIDE DEF t
  <2>4. client'[s] = t /\ \A u \in live : u # s => client'[u] = client[u]
    BY <1>1, <2>1, Zenon DEF IInv, TypeOK
  <2>5. NickIndexCoherent'
    <3>1. ASSUME NEW u \in live, client'[u].nick # None
          PROVE  clients_by_nick'[client'[u].nick] = u
      <4>1. u # s /\ client'[u] = client[u] /\ client[u].nick \in Nicks
        BY <3>1, <2>2, <2>4 DEF IInv, TypeOK, ClientRecord
      <4>2. clients_by_nick[client[u].nick] = u
        BY <3>1, <4>1, Zenon DEF IInv, NickIndexCoherent
      <4>3. client[u].nick # r.nick
        <5> SUFFICES ASSUME client[u].nick = r.nick
                     PROVE  FALSE
          BY Zenon
        <5>1. clients_by_nick[r.nick] = s
          BY <1>1, <3>1, <4>1, Zenon DEF IInv, NickIndexCoherent
        <5> QED BY <4>1, <4>2, <5>1
      <4>4. NickReleased(r)[client[u].nick] = u
        BY <1>3, <4>1, <4>2, <4>3
      <4> QED BY <2>1, <4>1, <4>4, Zenon
    <3>2. ASSUME NEW m \in Nicks, clients_by_nick'[m] # None
          PROVE  clients_by_nick'[m] \in live /\ client'[clients_by_nick'[m]].nick = m
      <4>1. m # r.nick /\ clients_by_nick'[m] = clients_by_nick[m] /\ clients_by_nick[m] # None
        BY <3>2, <1>3, <2>1
      <4>2. clients_by_nick[m] \in live /\ client[clients_by_nick[m]].nick = m
        BY <4>1 DEF IInv, NickIndexCoherent
      <4>3. clients_by_nick[m] # s
        BY <4>1, <4>2
      <4> QED BY <2>4, <4>1, <4>2, <4>3, Zenon
    <3> QED BY <1>1, <3>1, <3>2 DEF NickIndexCoherent
  <2> QED
    BY <1>1, <1>3, <1>4, <2>1, <2>2, <2>3, <2>5, OneRecord, Zenon
<1>6. CASE "alloc" \notin e
  <2> DEFINE t == command_maybe_register(started, e)
  <2>1. /\ clients_by_nick' = [NickReleased(r) EXCEPT ![n] = s]
        /\ Register(s, started, e, dnsbl_lookups)
    BY <1>6 DEF command_nick
  <2>2. /\ started \in ClientRecord
        /\ started.id = r.id /\ started.real_ip = r.real_ip /\ started.nick = n
        /\ started.registered = r.registered /\ IdentityOf(started) /\ VettedOf(started)
    BY <1>1, <1>2, NoneAssumption, ZenonT(40) DEF ClientRecord, NospoofStates, nospoof_start, IdentityOf, VettedOf
  <2> HIDE DEF started
  <2>3. /\ t \in ClientRecord /\ t.id = r.id /\ t.real_ip = r.real_ip /\ t.nick = n
        /\ IdentityOf(t) /\ VettedOf(t) /\ NotStrandedOf(t)
        /\ ~r.registered /\ t.registered => ~Refused(t)
    <3>1. /\ t \in ClientRecord
          /\ t.id = started.id /\ t.nick = started.nick /\ t.real_ip = started.real_ip
          /\ IdentityOf(t) /\ VettedOf(t) /\ NotStrandedOf(t)
          /\ ~started.registered /\ t.registered => ~Refused(t)
      BY <2>2, MaybeRegisterSound, ZenonT(30)
    <3> HIDE DEF t
    <3> QED BY <2>2, <3>1
  <2>4. /\ client' = [client EXCEPT ![s] = t]
        /\ dnsbl_lookups' \subseteq dnsbl_lookups \cup {[id |-> t.id, ip |-> t.real_ip]}
    BY <2>1, <2>2, <2>3, Zenon DEF Register
  <2> HIDE DEF t
  <2>5. client'[s] = t /\ \A u \in live : u # s => client'[u] = client[u]
    BY <1>1, <2>4, Zenon DEF IInv, TypeOK
  <2>6. /\ clients_by_nick' \in [Nicks -> Slots \cup {None}]
        /\ \A m \in Nicks : clients_by_nick'[m] =
              IF m = n THEN s ELSE IF m = r.nick THEN None ELSE clients_by_nick[m]
    BY <1>1, <1>3, <2>1
  <2>7. NickIndexCoherent'
    <3>1. ASSUME NEW u \in live, client'[u].nick # None
          PROVE  clients_by_nick'[client'[u].nick] = u
      <4>1. CASE u = s
        BY <4>1, <2>3, <2>5, <2>6
      <4>2. CASE u # s
        <5>1. client'[u] = client[u] /\ client[u].nick \in Nicks /\ clients_by_nick[client[u].nick] = u
          BY <3>1, <4>2, <2>5, Zenon DEF IInv, TypeOK, ClientRecord, NickIndexCoherent
        <5>2. client[u].nick # n
          BY <5>1, <4>2, <1>1, NoneAssumption, Zenon DEF IInv, TypeOK
        <5>3. client[u].nick # r.nick
          BY <5>1, <4>2, <1>1, NoneAssumption, ZenonT(40) DEF IInv, NickIndexCoherent
        <5> QED BY <5>1, <5>2, <5>3, <2>6, Zenon
      <4> QED BY <4>1, <4>2, Zenon
    <3>2. ASSUME NEW m \in Nicks, clients_by_nick'[m] # None
          PROVE  clients_by_nick'[m] \in live /\ client'[clients_by_nick'[m]].nick = m
      <4>1. CASE m = n
        BY <4>1, <1>1, <2>3, <2>5, <2>6, Zenon
      <4>2. CASE m # n
        <5>1. m # r.nick /\ clients_by_nick'[m] = clients_by_nick[m]
          BY <4>2, <3>2, <2>6, Zenon
        <5>2. clients_by_nick[m] \in live /\ client[clients_by_nick[m]].nick = m
          BY <5>1, <3>2 DEF IInv, NickIndexCoherent
        <5> QED BY <5>1, <5>2, <2>5, Zenon
      <4> QED BY <4>1, <4>2, Zenon
    <3> QED BY <1>1, <3>1, <3>2 DEF NickIndexCoherent
  <2> QED
    BY <1>1, <1>4, <2>3, <2>4, <2>6, <2>7, OneRecord, Zenon
<1> QED BY <1>5, <1>6

(* A step that changes neither the clients nor the indexes, and opens no   *)
(* lookup.                                                                 *)
LEMMA QuietStep ==
    ASSUME IInv, UNCHANGED <<live, client, next_client_id, index>>,
           dns_lookups' \subseteq dns_lookups, dnsbl_lookups' \subseteq dnsbl_lookups,
           bans' \subseteq BanKinds \X Ips, elines' \subseteq ElineKinds \X Ips
    PROVE  Kept
<1>1. TypeOK'
  BY Zenon DEF IInv, TypeOK, index
<1>2. IdIndexCoherent' /\ NickIndexCoherent'
  BY DEF IInv, IdIndexCoherent, NickIndexCoherent, index
<1>3. LookupsOwned'
  BY ZenonT(40) DEF IInv, LookupsOwned
<1>4. (IdentityCurrent /\ Vetted /\ NotStranded)'
  BY DEF IInv, IdentityCurrent, Vetted, NotStranded
<1>5. AddressStep /\ EntryStep
  BY DEF AddressStep, SameAddresses, EntryStep, index
<1> QED BY <1>1, <1>2, <1>3, <1>4, <1>5 DEF IInv, Kept

(* A lookup that finds a client finds one with the address it was asked    *)
(* about.                                                                  *)
LEMMA AnswerFinds ==
    ASSUME IInv, NEW q \in dns_lookups \cup dnsbl_lookups, NEW s,
           s = server_find_client_by_id(q.id), s # None
    PROVE  /\ s \in live /\ client[s] \in ClientRecord
           /\ client[s].id = q.id /\ client[s].real_ip = q.ip
           /\ IdentityOf(client[s]) /\ VettedOf(client[s])
<1>1. q.id \in Ids
  BY DEF IInv, TypeOK
<1>2. s \in live /\ client[s].id = q.id
  BY <1>1 DEF IInv, IdIndexCoherent, server_find_client_by_id
<1> QED
  BY <1>2, RecordInvariants DEF IInv, TypeOK, LookupsOwned

(* handle_dns_result(): an answer whose id is not in the index is dropped, one*)
(* that is there belongs to the client it was asked for.                    *)
LEMMA DnsResultStep ==
    ASSUME IInv, NEW q \in dns_lookups, NEW verified \in BOOLEAN, NEW e \in SUBSET Faults,
           handle_dns_result(q, verified, e)
    PROVE  Kept
<1> DEFINE s == server_find_client_by_id(q.id)
           r == [client[s] EXCEPT !.dns_state = IF verified THEN "VERIFIED" ELSE "FAILED",
                                  !.real_host = IF verified THEN q.ip ELSE None]
<1>1. /\ UNCHANGED <<live, next_client_id, index>>
      /\ dns_lookups' \subseteq dns_lookups
      /\ bans' \subseteq BanKinds \X Ips /\ elines' \subseteq ElineKinds \X Ips
  BY DEF handle_dns_result, IInv, TypeOK, policy
<1>2. CASE s = None
  <2>1. UNCHANGED <<client, dnsbl_lookups>>
    BY <1>2 DEF handle_dns_result
  <2> QED BY <1>1, <2>1, QuietStep
<1>3. CASE s # None /\ client[s].dns_state # "PENDING"
  <2>1. UNCHANGED <<client, dnsbl_lookups>>
    BY <1>3, ZenonT(40) DEF handle_dns_result
  <2> QED BY <1>1, <2>1, QuietStep
<1>4. CASE s # None /\ client[s].dns_state = "PENDING"
  <2>1. Register(s, r, e, dnsbl_lookups)
    BY <1>4, ZenonT(40) DEF handle_dns_result
  <2>2. /\ s \in live /\ client[s] \in ClientRecord
        /\ client[s].id = q.id /\ client[s].real_ip = q.ip
        /\ IdentityOf(client[s]) /\ VettedOf(client[s])
    BY <1>4, AnswerFinds
  <2>3. q.ip \in Ips
    BY DEF IInv, TypeOK
  <2> HIDE DEF s
  <2>4. /\ r \in ClientRecord
        /\ r.id = client[s].id /\ r.real_ip = client[s].real_ip /\ r.nick = client[s].nick
        /\ r.registered = client[s].registered
        /\ IdentityOf(r) /\ VettedOf(r)
    BY <1>4, <2>2, <2>3, Zenon DEF ClientRecord, DnsStates, IdentityOf, VettedOf
  <2> HIDE DEF r
  <2> QED BY <1>1, <2>1, <2>2, <2>4, RegisterStep
<1> QED BY <1>2, <1>3, <1>4

(* handle_dnsbl_result(): the same for the DNSBL answer, which may instead end*)
(* the connection and leave a ZLINE on the address that was looked up.      *)
LEMMA DnsblResultStep ==
    ASSUME IInv, NEW q \in dnsbl_lookups, NEW listed \in BOOLEAN, NEW e \in SUBSET Faults,
           handle_dnsbl_result(q, listed, e)
    PROVE  Kept
<1> DEFINE s == server_find_client_by_id(q.id)
           ip == client[s].real_ip
           exempt == "bandb" \notin e /\ <<"B", ip>> \in elines
<1>1. /\ UNCHANGED <<live, next_client_id, index, dns_lookups, elines>>
      /\ elines' \subseteq ElineKinds \X Ips
  BY DEF handle_dnsbl_result, IInv, TypeOK
<1>2. CASE s = None \/ client[s].dnsbl_state # "PENDING"
  <2>1. UNCHANGED <<client, bans>> /\ dnsbl_lookups' \subseteq dnsbl_lookups
    BY <1>2 DEF handle_dnsbl_result
  <2>2. bans' \subseteq BanKinds \X Ips
    BY <2>1 DEF IInv, TypeOK
  <2> QED BY <1>1, <2>1, <2>2, QuietStep
<1>3. CASE s # None /\ client[s].dnsbl_state = "PENDING"
  <2>1. /\ s \in live /\ client[s] \in ClientRecord
        /\ IdentityOf(client[s]) /\ VettedOf(client[s])
    BY <1>3, AnswerFinds
  <2>2. CASE ~listed \/ exempt
    <3> DEFINE r == [client[s] EXCEPT !.dnsbl_state = "CLEAR"]
    <3>1. Register(s, r, e, dnsbl_lookups \ {q}) /\ UNCHANGED bans
      BY <1>3, <2>2 DEF handle_dnsbl_result
    <3>2. bans' \subseteq BanKinds \X Ips
      BY <3>1 DEF IInv, TypeOK
    <3> HIDE DEF s
    <3>3. /\ r \in ClientRecord
          /\ r.id = client[s].id /\ r.real_ip = client[s].real_ip /\ r.nick = client[s].nick
          /\ r.registered = client[s].registered
          /\ IdentityOf(r) /\ VettedOf(r)
      BY <1>3, <2>1 DEF ClientRecord, DnsblStates, IdentityOf, VettedOf
    <3> HIDE DEF r
    <3> QED BY <1>1, <2>1, <3>1, <3>2, <3>3, RegisterStep
  <2>3. CASE listed /\ ~exempt
    <3> DEFINE t == [client[s] EXCEPT !.dnsbl_state = "LISTED", !.shut = TRUE]
    <3>1. /\ client' = [client EXCEPT ![s].dnsbl_state = "LISTED", ![s].shut = TRUE]
          /\ bans' \subseteq bans \cup {<<"z", ip>>}
          /\ dnsbl_lookups' \subseteq dnsbl_lookups
      BY <1>3, <2>3 DEF handle_dnsbl_result
    <3>2. bans' \subseteq BanKinds \X Ips
      BY <2>1, <3>1 DEF IInv, TypeOK, ClientRecord, BanKinds
    <3> HIDE DEF s
    <3>3. client' = [client EXCEPT ![s] = t]
      BY <2>1, <3>1, Zenon DEF IInv, TypeOK
    <3>4. /\ t \in ClientRecord
          /\ t.id = client[s].id /\ t.real_ip = client[s].real_ip /\ t.nick = client[s].nick
        /\ t.registered = client[s].registered
          /\ IdentityOf(t) /\ VettedOf(t) /\ NotStrandedOf(t)
      BY <1>3, <2>1, Zenon DEF ClientRecord, DnsblStates, IdentityOf, VettedOf, NotStrandedOf
    <3> HIDE DEF t
    <3> QED BY <1>1, <2>1, <3>1, <3>2, <3>3, <3>4, SameNickStep, Zenon DEF index
  <2> QED BY <2>2, <2>3, Zenon
<1> QED BY <1>2, <1>3

(* The handlers that change fields of one record and then try to register. *)
LEMMA UpdateStep ==
    ASSUME IInv, NEW s \in live, NEW r \in ClientRecord, NEW e \in SUBSET Faults, Update(s, r, e),
           r.id = client[s].id, r.real_ip = client[s].real_ip, r.nick = client[s].nick,
           r.registered = client[s].registered, IdentityOf(r), VettedOf(r)
    PROVE  Kept
<1>1. /\ Register(s, r, e, dnsbl_lookups)
      /\ UNCHANGED <<live, next_client_id, index, dns_lookups, bans, elines>>
  BY DEF Update, policy
<1>2. bans' \subseteq BanKinds \X Ips /\ elines' \subseteq ElineKinds \X Ips
  BY <1>1 DEF IInv, TypeOK
<1> QED BY <1>1, <1>2, RegisterStep, Zenon

-----------------------------------------------------------------------------
(* Handlers that may disconnect: the clients that go are counted.          *)

INSTANCE FiniteSetTheorems

(* Disconnecting any set of clients keeps everything.                      *)
LEMMA DisconnectStep ==
    ASSUME IInv, NEW gone \in SUBSET live, server_disconnect(gone),
           next_client_id' \in next_client_id .. MaxId, UNCHANGED lookups,
           bans' \subseteq BanKinds \X Ips, elines' \subseteq ElineKinds \X Ips
    PROVE  Kept
<1>1. /\ live' = live \ gone
      /\ \A u \in live' : client'[u] = client[u]
      /\ client' \in [Slots -> ClientRecord \cup {None}]
  BY DEF IInv, TypeOK, server_disconnect
<1>2. next_client_id' \in Nat /\ next_client_id' >= next_client_id /\ next_client_id' \in 0 .. MaxId
  BY BoundAssumption, SMT, SMTT(30) DEF IInv, TypeOK
<1>3. connection_counts_by_ip' \in [Ips -> Nat]
  <2>1. ASSUME NEW ip \in Ips
        PROVE  Cardinality({s \in gone : client[s].real_ip = ip}) \in Nat
    <3>1. IsFiniteSet({s \in gone : client[s].real_ip = ip})
      BY SlotsAssumption, FS_Subset, Zenon DEF IInv, TypeOK
    <3> QED BY <3>1, FS_CardinalityType, Zenon
  <2> QED
    BY <2>1 DEF IInv, TypeOK, server_disconnect, connection_count_remove
<1>4. /\ clients_by_id' \in [Ids -> Slots \cup {None}]
      /\ clients_by_nick' \in [Nicks -> Slots \cup {None}]
  BY Zenon DEF IInv, TypeOK, server_disconnect, IdsWithout
<1>5. TypeOK'
  BY <1>1, <1>2, <1>3, <1>4, Zenon DEF IInv, TypeOK, lookups
<1>6. IdIndexCoherent'
  <2>1. \A i \in Ids : clients_by_id'[i] =
            IF i \in {client[s].id : s \in gone} THEN None ELSE clients_by_id[i]
    BY Zenon DEF server_disconnect, IdsWithout
  <2>2. \A u \in live : client[u].id \in Ids
    BY ZenonT(40) DEF IInv, TypeOK, ClientRecord
  <2>3. ASSUME NEW u \in live'
        PROVE  clients_by_id'[client'[u].id] = u /\ client'[u].id <= next_client_id'
    <3>1. client[u].id \notin {client[s].id : s \in gone}
      BY <1>1, <2>2, Zenon DEF IInv, IdIndexCoherent
    <3>2. client[u].id \in Nat /\ next_client_id \in Nat /\ client[u].id <= next_client_id
      BY <1>1, <2>2, SMT, SMTT(30) DEF IInv, TypeOK, IdIndexCoherent, Ids
    <3> QED BY <1>1, <1>2, <2>1, <2>2, <3>1, <3>2 DEF IInv, IdIndexCoherent
  <2>4. ASSUME NEW i \in Ids, clients_by_id'[i] # None
        PROVE  clients_by_id'[i] \in live' /\ client'[clients_by_id'[i]].id = i
    <3>1. i \notin {client[s].id : s \in gone} /\ clients_by_id'[i] = clients_by_id[i]
      BY <2>1, <2>4, Zenon
    <3> QED BY <3>1, <2>4, <1>1 DEF IInv, IdIndexCoherent
  <2> QED BY <2>3, <2>4, Zenon DEF IdIndexCoherent
<1>7. NickIndexCoherent'
  <2>1. \A n \in Nicks : clients_by_nick'[n] =
            IF n \in {client[s].nick : s \in gone} THEN None ELSE clients_by_nick[n]
    BY Zenon DEF server_disconnect
  <2>2. \A u \in live : client[u].nick \in Nicks \cup {None}
    BY Zenon DEF IInv, TypeOK, ClientRecord
  <2>3. ASSUME NEW u \in live', client'[u].nick # None
        PROVE  clients_by_nick'[client'[u].nick] = u
    <3>1. client[u].nick \notin {client[s].nick : s \in gone}
      BY <1>1, <2>2, <2>3, SMT, SMTT(30) DEF IInv, NickIndexCoherent
    <3> QED BY <1>1, <2>1, <2>2, <2>3, <3>1, SMT, SMTT(30) DEF IInv, NickIndexCoherent
  <2>4. ASSUME NEW n \in Nicks, clients_by_nick'[n] # None
        PROVE  clients_by_nick'[n] \in live' /\ client'[clients_by_nick'[n]].nick = n
    <3>1. n \notin {client[s].nick : s \in gone} /\ clients_by_nick'[n] = clients_by_nick[n]
      BY <2>1, <2>4, Zenon
    <3> QED BY <3>1, <2>4, <1>1 DEF IInv, NickIndexCoherent
  <2> QED BY <2>3, <2>4, Zenon DEF NickIndexCoherent
<1>8. LookupsOwned'
  <2>1. \A q \in dns_lookups \cup dnsbl_lookups : q.id \in Nat
    BY IdsAreNumbers, Zenon DEF IInv, TypeOK
  <2> QED
    BY <1>1, <1>2, <2>1 DEF IInv, TypeOK, LookupsOwned, lookups
<1>9. (IdentityCurrent /\ Vetted /\ NotStranded)'
  <2>1. \A u \in live' : u \in live /\ client'[u] = client[u]
    BY <1>1, Zenon
  <2>2. IdentityCurrent'
    BY <2>1, Zenon DEF IInv, IdentityCurrent
  <2>3. Vetted'
    BY <2>1, ZenonT(40) DEF IInv, Vetted
  <2>4. NotStranded'
    BY <2>1, Zenon DEF IInv, NotStranded, Gated
  <2> QED BY <2>2, <2>3, <2>4, Zenon
<1>10. AddressStep /\ EntryStep
  BY <1>1 DEF AddressStep, Departure, EntryStep
<1> QED
  BY <1>5, <1>6, <1>7, <1>8, <1>9, <1>10, ZenonT(40) DEF IInv, Kept

(* server_connection_count_remove() saturates at zero, so a count stays a   *)
(* natural number whatever is removed from it.                              *)
LEMMA CountRemoveType ==
    ASSUME NEW counts \in [Ips -> Nat], NEW ip \in Ips, NEW n \in Nat
    PROVE  connection_count_remove(counts, ip, n) \in [Ips -> Nat]
<1>1. (IF counts[ip] > n THEN counts[ip] - n ELSE 0) \in Nat
  OBVIOUS
<1> QED BY <1>1 DEF connection_count_remove

(* command_webirc(): the identity change re-keys the id index, moves one unit*)
(* of count to the new address and restarts the lookups under the new id.   *)
LEMMA WebircStep ==
    ASSUME IInv, NEW s \in Slots, NEW ip \in Ips, NEW e \in SUBSET Faults, command_webirc(s, ip, e)
    PROVE  Kept
<1> DEFINE r == client[s]
           id == next_client_id + 1
           dns == IF "submit" \in e THEN "FAILED" ELSE "PENDING"
           t == WebircIdentity(r, id, ip, dns)
<1>1. /\ s \in live /\ r \in ClientRecord
      /\ UNCHANGED <<bans, elines>>
      /\ bans' \subseteq BanKinds \X Ips /\ elines' \subseteq ElineKinds \X Ips
  BY Zenon DEF IInv, TypeOK, command_webirc, CanSend, policy
<1>2. next_client_id \in Nat /\ id \in Nat
  BY DEF IInv, TypeOK
<1>3. CASE WebircRefused(s, ip)
  <2>1. server_disconnect({s}) /\ UNCHANGED <<next_client_id, lookups>>
    BY <1>3 DEF command_webirc
  <2>2. next_client_id' \in next_client_id .. MaxId
    BY <2>1, BoundAssumption DEF IInv, TypeOK
  <2> QED BY <1>1, <2>1, <2>2, DisconnectStep, ZenonT(40)
<1>4. CASE ~WebircRefused(s, ip) /\ "alloc" \in e
  <2>1. /\ server_disconnect({s}) /\ UNCHANGED lookups
        /\ next_client_id' \in {next_client_id, id}
    BY <1>4 DEF command_webirc, ReassignedId
  <2>2. next_client_id' \in next_client_id .. MaxId
    <3>1. next_client_id \in 0 .. MaxId /\ (next_client_id' = id => next_client_id < MaxId)
      BY <1>4, Zenon DEF command_webirc, ReassignedId, IInv, TypeOK, WebircRefused, IdAvailable
    <3>2. next_client_id' \in {next_client_id, id}
      BY <2>1
    <3> QED BY <3>1, <3>2, BoundAssumption, SMT, SMTT(30)
  <2> QED BY <1>1, <2>1, <2>2, DisconnectStep, ZenonT(40)
<1>5. CASE ~WebircRefused(s, ip) /\ "alloc" \notin e
  <2>1. /\ next_client_id' = id
        /\ clients_by_id' = [clients_by_id EXCEPT ![r.id] = None, ![id] = s]
        /\ connection_counts_by_ip' = server_connection_count_move(r.real_ip, ip)
        /\ client' = [client EXCEPT ![s] = t]
        /\ dns_lookups' \subseteq dns_lookups \cup {[id |-> id, ip |-> ip]}
        /\ UNCHANGED <<live, clients_by_nick, dnsbl_lookups>>
    BY <1>5, Zenon DEF command_webirc, ReassignedId
  <2>2. id \in Ids /\ ~r.registered
    BY <1>2, <1>5, BoundAssumption DEF WebircRefused, IdAvailable, Ids, IInv, TypeOK
  <2>3. /\ t \in ClientRecord /\ t.id = id /\ t.real_ip = ip /\ t.nick = r.nick /\ ~t.registered
        /\ IdentityOf(t) /\ VettedOf(t) /\ NotStrandedOf(t)
    BY <1>1, <2>2, ZenonT(40) DEF WebircIdentity, ClientRecord, IdentityOf, VettedOf, NotStrandedOf, Gated,
                      DnsStates, DnsblStates
  <2> HIDE DEF t, dns
  <2>4. /\ client' \in [Slots -> ClientRecord \cup {None}]
        /\ client'[s] = t
        /\ \A u \in live : u # s => client'[u] = client[u]
    BY <1>1, <2>1, <2>3, ZenonT(40) DEF IInv, TypeOK
  <2>5. \A u \in live : /\ client[u].id \in Ids /\ client[u].id \in Nat
                        /\ client[u].id <= next_client_id /\ client[u].id # id
    <3>1. \A u \in live : client[u] \in ClientRecord
      BY Zenon DEF IInv, TypeOK
    <3>2. \A u \in live : client[u].id \in Ids
      BY <3>1, Zenon DEF ClientRecord
    <3>3. \A u \in live : client[u].id <= next_client_id
      BY DEF IInv, IdIndexCoherent
    <3>4. \A i \in Ids : i \in Nat /\ (i <= next_client_id => i # id)
      BY <1>2, BoundAssumption DEF Ids
    <3> QED BY <3>2, <3>3, <3>4, Zenon
  <2>order. /\ id <= next_client_id'
            /\ \A i \in Nat : i <= next_client_id => i # id /\ i <= next_client_id'
    <3>1. next_client_id' = id
      BY <2>1, Zenon
    <3> QED BY <1>2, <3>1
  <2>6. \A i \in Ids : clients_by_id'[i] =
            IF i = id THEN s ELSE IF i = r.id THEN None ELSE clients_by_id[i]
    BY <2>1, <2>2, <2>5, <1>1, ZenonT(40) DEF IInv, TypeOK
  <2>7. TypeOK'
    <3>1. next_client_id' \in 0 .. MaxId
      BY <2>1, <2>2, IdsAreNumbers, Zenon
    <3>2. clients_by_id' \in [Ids -> Slots \cup {None}]
      BY <2>1, <2>2 DEF IInv, TypeOK
    <3>3. connection_counts_by_ip' \in [Ips -> Nat]
      <4> DEFINE added == [connection_counts_by_ip EXCEPT ![ip] = @ + 1]
      <4>1. added \in [Ips -> Nat] /\ connection_counts_by_ip \in [Ips -> Nat]
        BY DEF IInv, TypeOK
      <4>2. connection_counts_by_ip' \in
                {connection_counts_by_ip, connection_count_remove(added, r.real_ip, 1)}
        BY <2>1, Zenon DEF server_connection_count_move
      <4> HIDE DEF added
      <4>3. connection_count_remove(added, r.real_ip, 1) \in [Ips -> Nat]
        BY <1>1, <4>1, CountRemoveType, ZenonT(40) DEF ClientRecord
      <4> QED BY <4>1, <4>2, <4>3, Zenon
    <3>4. dns_lookups' \subseteq [id : Ids, ip : Ips]
      <4>1. [id |-> id, ip |-> ip] \in [id : Ids, ip : Ips]
        BY <2>2
      <4>2. dns_lookups \subseteq [id : Ids, ip : Ips]
        BY Zenon DEF IInv, TypeOK
      <4> QED BY <2>1, <4>1, <4>2, SMT, SMTT(30)
    <3>5. \A u \in live' : client'[u] \in ClientRecord
      BY <2>1, <2>3, <2>4, Zenon DEF IInv, TypeOK
    <3> QED BY <1>1, <2>1, <2>4, <3>1, <3>2, <3>3, <3>4, <3>5, ZenonT(40) DEF IInv, TypeOK
  <2>8. IdIndexCoherent'
    <3>1. ASSUME NEW u \in live
          PROVE  clients_by_id'[client'[u].id] = u /\ client'[u].id <= next_client_id'
      <4>1. CASE u = s
        <5>1. client'[u].id = id /\ id <= next_client_id'
          BY <4>1, <2>order, <2>3, <2>4, Zenon
        <5> HIDE DEF id
        <5>2. clients_by_id'[id] = s
          BY <2>2, <2>6, Zenon
        <5> QED BY <4>1, <5>1, <5>2, Zenon
      <4>2. CASE u # s
        <5>1. client'[u] = client[u] /\ client[u].id # r.id
          BY <4>2, <1>1, <2>4, Zenon DEF IInv, IdIndexCoherent
        <5>2. client[u].id <= next_client_id'
          BY <2>order, <2>5, Zenon
        <5> HIDE DEF id
        <5>3. clients_by_id'[client[u].id] = clients_by_id[client[u].id]
          BY <5>1, <2>5, <2>6, Zenon
        <5> QED BY <5>1, <5>2, <5>3, Zenon DEF IInv, IdIndexCoherent
      <4> QED BY <4>1, <4>2
    <3>2. ASSUME NEW i \in Ids, clients_by_id'[i] # None
          PROVE  clients_by_id'[i] \in live /\ client'[clients_by_id'[i]].id = i
      <4>1. CASE i = id
        BY <4>1, <1>1, <2>3, <2>4, <2>6, Zenon
      <4>2. CASE i # id
        <5>1. i # r.id /\ clients_by_id'[i] = clients_by_id[i]
          BY <4>2, <3>2, <2>6, Zenon
        <5>2. clients_by_id[i] \in live /\ client[clients_by_id[i]].id = i
          BY <5>1, <3>2, Zenon DEF IInv, IdIndexCoherent
        <5> QED BY <5>1, <5>2, <2>4, Zenon
      <4> QED BY <4>1, <4>2, Zenon
    <3> QED BY <2>1, <3>1, <3>2, ZenonT(40) DEF IdIndexCoherent
  <2>9. NickIndexCoherent'
    <3>1. \A u \in live : client'[u].nick = client[u].nick
      BY <2>3, <2>4, Zenon
    <3> QED BY <2>1, <3>1, Zenon DEF IInv, NickIndexCoherent
  <2>10. LookupsOwned'
    <3> SUFFICES ASSUME NEW q \in dns_lookups' \cup dnsbl_lookups'
                 PROVE  /\ q.id <= next_client_id'
                        /\ \A u \in live : client'[u].id = q.id => client'[u].real_ip = q.ip
      BY <2>1, Zenon DEF LookupsOwned
    <3>1. CASE q \in dns_lookups \cup dnsbl_lookups
      <4>1. /\ q.id <= next_client_id
            /\ \A u \in live : client[u].id = q.id => client[u].real_ip = q.ip
        BY <3>1, Zenon DEF IInv, LookupsOwned
      <4>2. q \in [id : Ids, ip : Ips]
        BY <3>1 DEF IInv, TypeOK
      <4>3. q.id \in Nat
        BY <4>2, BoundAssumption, SMT, SMTT(30) DEF Ids
      <4>4. q.id # id /\ q.id <= next_client_id'
        BY <2>order, <4>1, <4>3, Zenon
      <4> HIDE DEF id
      <4>5. client'[s].id # q.id
        BY <2>3, <2>4, <4>4, ZenonT(40)
      <4> QED BY <2>4, <4>1, <4>4, <4>5, Zenon
    <3>2. CASE q = [id |-> id, ip |-> ip]
      <4>1. q.id = id /\ q.ip = ip /\ q.id <= next_client_id'
        BY <3>2, <2>order, Zenon
      <4>2. \A u \in live : u # s => client'[u].id # id
        BY <2>4, <2>5, Zenon
      <4> HIDE DEF id
      <4> QED BY <2>3, <2>4, <4>1, <4>2, Zenon
    <3> QED BY <3>1, <3>2, <2>1, Zenon
  <2>11. (IdentityCurrent /\ Vetted /\ NotStranded)'
    <3>1. \A u \in live' : IdentityOf(client'[u]) /\ VettedOf(client'[u]) /\ NotStrandedOf(client'[u])
      BY <2>1, <2>3, <2>4, RecordInvariants, Zenon DEF IInv
    <3> QED
      BY <3>1, Zenon DEF IdentityCurrent, Vetted, NotStranded, IdentityOf, VettedOf, NotStrandedOf
  <2>12. Move(s, ip)
    BY <1>1, <1>5, <2>1, <2>3, <2>4, Zenon DEF Move, WebircRefused
  <2>13. EntryStep
    BY <2>2, <2>3, <2>4, Zenon DEF EntryStep
  <2> QED BY <2>7, <2>8, <2>9, <2>10, <2>11, <2>12, <2>13, ZenonT(40) DEF IInv, Kept, AddressStep
<1> QED BY <1>3, <1>4, <1>5, ZenonT(40)

(* The commands of a peer.                                                 *)
LEMMA CommandStep ==
    ASSUME IInv, NEW s \in Slots, Command(s)
    PROVE  Kept
<1> DEFINE r == client[s]
<1>1. \/ \E n \in Nicks, e \in SUBSET Faults : command_nick(s, n, e)
      \/ \E e \in SUBSET Faults : command_user(s, e)
      \/ \E a \in BOOLEAN, e \in SUBSET Faults : command_pass(s, a, e)
      \/ command_cap_begin(s)
      \/ \E e \in SUBSET Faults : command_cap_end(s, e)
      \/ \E e \in SUBSET Faults : nospoof_handle_pong(s, e)
      \/ \E ip \in Ips, e \in SUBSET Faults : command_webirc(s, ip, e)
  BY DEF Command
<1>2. ASSUME s \in live
      PROVE  r \in ClientRecord /\ IdentityOf(r) /\ VettedOf(r) /\ NotStrandedOf(r)
  BY <1>2, RecordInvariants DEF IInv, TypeOK
<1>3. ASSUME NEW t \in ClientRecord, s \in live, client' = [client EXCEPT ![s] = t],
             t.id = r.id, t.real_ip = r.real_ip, t.nick = r.nick, t.registered = r.registered,
             IdentityOf(t), VettedOf(t), NotStrandedOf(t),
             UNCHANGED <<live, next_client_id, index, lookups, policy>>
      PROVE  Kept
  <2>1. UNCHANGED <<dns_lookups, dnsbl_lookups, bans, elines>>
    BY <1>3, Zenon DEF lookups, policy
  <2>2. bans' \subseteq BanKinds \X Ips /\ elines' \subseteq ElineKinds \X Ips
    BY <2>1 DEF IInv, TypeOK
  <2> QED BY <1>3, <2>1, <2>2, SameNickStep, Zenon
<1>4. CASE \E n \in Nicks, e \in SUBSET Faults : command_nick(s, n, e)
  BY <1>4, NickStep, ZenonT(40)
<1>5. ASSUME NEW e \in SUBSET Faults, command_user(s, e)
      PROVE  Kept
  <2> DEFINE t == [r EXCEPT !.user = TRUE]
  <2>1. s \in live /\ ~r.registered /\ Update(s, t, e)
    BY <1>5 DEF command_user, CanSend
  <2>2. t \in ClientRecord /\ t.id = r.id /\ t.real_ip = r.real_ip /\ t.nick = r.nick
        /\ t.registered = r.registered
        /\ IdentityOf(t) /\ VettedOf(t)
    BY <2>1, <1>2, Zenon DEF ClientRecord, IdentityOf, VettedOf
  <2> HIDE DEF t
  <2> QED BY <2>1, <2>2, UpdateStep
<1>6. ASSUME NEW a \in BOOLEAN, NEW e \in SUBSET Faults, command_pass(s, a, e)
      PROVE  Kept
  <2> DEFINE t == [r EXCEPT !.pass_accepted = TRUE]
             f == [r EXCEPT !.pass_accepted = FALSE]
  <2>1. s \in live /\ ~r.registered
    BY <1>6, ZenonT(40) DEF command_pass, CanSend
  <2>2. CASE a \/ ~ServerPassword
    <3>1. Update(s, t, e)
      BY <1>6, <2>2 DEF command_pass
    <3>2. t \in ClientRecord /\ t.id = r.id /\ t.real_ip = r.real_ip /\ t.nick = r.nick
        /\ t.registered = r.registered
          /\ IdentityOf(t) /\ VettedOf(t)
      BY <2>1, <1>2, Zenon DEF ClientRecord, IdentityOf, VettedOf
    <3> HIDE DEF t
    <3> QED BY <2>1, <3>1, <3>2, UpdateStep
  <2>3. CASE ~a /\ ServerPassword
    <3>1. /\ client' = [client EXCEPT ![s] = f]
          /\ UNCHANGED <<live, next_client_id, index, lookups, policy>>
      BY <1>6, <2>3 DEF command_pass
    <3>2. f \in ClientRecord /\ f.id = r.id /\ f.real_ip = r.real_ip /\ f.nick = r.nick
        /\ f.registered = r.registered
          /\ IdentityOf(f) /\ VettedOf(f) /\ NotStrandedOf(f)
      BY <2>1, <2>3, <1>2, Zenon DEF ClientRecord, IdentityOf, VettedOf, NotStrandedOf, Gated
    <3> HIDE DEF f
    <3> QED BY <2>1, <3>1, <3>2, <1>3, Zenon
  <2> QED BY <2>2, <2>3
<1>7. CASE command_cap_begin(s)
  <2> DEFINE t == [r EXCEPT !.cap_negotiating = TRUE]
  <2>1. /\ s \in live /\ client' = [client EXCEPT ![s] = t]
        /\ UNCHANGED <<live, next_client_id, index, lookups, policy>>
    BY <1>7 DEF command_cap_begin, CanSend
  <2>2. t \in ClientRecord /\ t.id = r.id /\ t.real_ip = r.real_ip /\ t.nick = r.nick
        /\ t.registered = r.registered
        /\ IdentityOf(t) /\ VettedOf(t) /\ NotStrandedOf(t)
    BY <2>1, <1>2, ZenonT(40) DEF ClientRecord, IdentityOf, VettedOf, NotStrandedOf, Gated
  <2> HIDE DEF t
  <2> QED BY <2>1, <2>2, <1>3, Zenon
<1>8. ASSUME NEW e \in SUBSET Faults, command_cap_end(s, e)
      PROVE  Kept
  <2> DEFINE t == [r EXCEPT !.cap_negotiating = FALSE]
  <2>1. s \in live /\ Update(s, t, e)
    BY <1>8 DEF command_cap_end, CanSend
  <2>2. t \in ClientRecord /\ t.id = r.id /\ t.real_ip = r.real_ip /\ t.nick = r.nick
        /\ t.registered = r.registered
        /\ IdentityOf(t) /\ VettedOf(t)
    BY <2>1, <1>2, ZenonT(40) DEF ClientRecord, IdentityOf, VettedOf
  <2> HIDE DEF t
  <2> QED BY <2>1, <2>2, UpdateStep
<1>9. ASSUME NEW e \in SUBSET Faults, nospoof_handle_pong(s, e)
      PROVE  Kept
  <2> DEFINE t == [r EXCEPT !.nospoof = "VERIFIED"]
  <2>1. s \in live /\ Update(s, t, e)
    BY <1>9 DEF nospoof_handle_pong, CanSend
  <2>2. t \in ClientRecord /\ t.id = r.id /\ t.real_ip = r.real_ip /\ t.nick = r.nick
        /\ t.registered = r.registered
        /\ IdentityOf(t) /\ VettedOf(t)
    BY <2>1, <1>2, Zenon DEF ClientRecord, NospoofStates, IdentityOf, VettedOf
  <2> HIDE DEF t
  <2> QED BY <2>1, <2>2, UpdateStep
<1>10. CASE \E ip \in Ips, e \in SUBSET Faults : command_webirc(s, ip, e)
  BY <1>10, WebircStep
<1> QED BY <1>1, <1>4, <1>5, <1>6, <1>7, <1>8, <1>9, <1>10, ZenonT(40)

(* accept(), the TLS handshake and the end of a connection.                *)
LEMMA ConnectionStep ==
    ASSUME IInv, NEW s \in Slots, Connection(s)
    PROVE  Kept
<1> DEFINE r == client[s]
           t == [r EXCEPT !.handshake = FALSE]
<1>1. CASE \E ip \in Ips, use_tls \in TlsListeners, e \in SUBSET Faults : accept_clients(s, ip, use_tls, e)
  BY <1>1, AcceptStep, PolicyAssumption
<1>2. CASE advance_tls_handshake(s)
  <2>1. /\ s \in live /\ client' = [client EXCEPT ![s] = t]
        /\ UNCHANGED <<live, next_client_id, index, dns_lookups, dnsbl_lookups, bans, elines>>
    BY <1>2 DEF advance_tls_handshake, lookups, policy
  <2>2. r \in ClientRecord /\ IdentityOf(r) /\ VettedOf(r) /\ NotStrandedOf(r)
    BY <2>1, RecordInvariants DEF IInv, TypeOK
  <2>3. t \in ClientRecord /\ t.id = r.id /\ t.real_ip = r.real_ip /\ t.nick = r.nick
        /\ t.registered = r.registered
        /\ IdentityOf(t) /\ VettedOf(t) /\ NotStrandedOf(t)
    BY <2>2, ZenonT(40) DEF ClientRecord, IdentityOf, VettedOf, NotStrandedOf, Gated
  <2>4. bans' \subseteq BanKinds \X Ips /\ elines' \subseteq ElineKinds \X Ips
    BY <2>1 DEF IInv, TypeOK
  <2> HIDE DEF t
  <2> QED BY <2>1, <2>3, <2>4, SameNickStep, Zenon
<1>3. CASE Hangup(s)
  <2>1. /\ server_disconnect({s}) /\ {s} \in SUBSET live
        /\ UNCHANGED <<next_client_id, lookups, bans, elines>>
    BY <1>3, Zenon DEF Hangup, policy
  <2>2. /\ next_client_id' \in next_client_id .. MaxId
        /\ bans' \subseteq BanKinds \X Ips /\ elines' \subseteq ElineKinds \X Ips
    BY <2>1, BoundAssumption DEF IInv, TypeOK
  <2> QED BY <2>1, <2>2, DisconnectStep
<1> QED BY <1>1, <1>2, <1>3 DEF Connection

(* The four deadlines of expire_connection_lookups().                      *)
LEMMA TimeoutStep ==
    ASSUME IInv, NEW s \in Slots,
           LookupTimeout(s) \/ RegistrationTimeout(s) \/ NospoofTimeout(s)
    PROVE  Kept
<1> DEFINE r == client[s]
<1>1. ASSUME NEW e \in SUBSET Faults, DnsTimeout(s, e)
      PROVE  Kept
  <2> DEFINE t == [r EXCEPT !.dns_state = "TIMEOUT", !.real_host = None]
  <2>1. s \in live /\ r.dns_state = "PENDING" /\ Update(s, t, e)
    BY <1>1 DEF DnsTimeout
  <2>2. r \in ClientRecord /\ IdentityOf(r) /\ VettedOf(r)
    BY <2>1, RecordInvariants DEF IInv, TypeOK
  <2>3. t \in ClientRecord /\ t.id = r.id /\ t.real_ip = r.real_ip /\ t.nick = r.nick
        /\ t.registered = r.registered
        /\ IdentityOf(t) /\ VettedOf(t)
    BY <2>1, <2>2, ZenonT(40) DEF ClientRecord, DnsStates, IdentityOf, VettedOf
  <2> HIDE DEF t
  <2> QED BY <2>1, <2>3, UpdateStep
<1>2. ASSUME NEW e \in SUBSET Faults, DnsblTimeout(s, e)
      PROVE  Kept
  <2> DEFINE t == [r EXCEPT !.dnsbl_state = "TIMEOUT"]
  <2>1. s \in live /\ r.dnsbl_state = "PENDING" /\ Update(s, t, e)
    BY <1>2 DEF DnsblTimeout
  <2>2. r \in ClientRecord /\ IdentityOf(r) /\ VettedOf(r)
    BY <2>1, RecordInvariants DEF IInv, TypeOK
  <2>3. t \in ClientRecord /\ t.id = r.id /\ t.real_ip = r.real_ip /\ t.nick = r.nick
        /\ t.registered = r.registered
        /\ IdentityOf(t) /\ VettedOf(t)
    BY <2>1, <2>2, Zenon DEF ClientRecord, DnsblStates, IdentityOf, VettedOf
  <2> HIDE DEF t
  <2> QED BY <2>1, <2>3, UpdateStep
<1>3. CASE RegistrationTimeout(s) \/ NospoofTimeout(s)
  <2>1. /\ server_disconnect({s}) /\ {s} \in SUBSET live
        /\ UNCHANGED <<next_client_id, lookups, bans, elines>>
    BY <1>3, Zenon DEF RegistrationTimeout, NospoofTimeout, policy
  <2>2. /\ next_client_id' \in next_client_id .. MaxId
        /\ bans' \subseteq BanKinds \X Ips /\ elines' \subseteq ElineKinds \X Ips
    BY <2>1, BoundAssumption DEF IInv, TypeOK
  <2> QED BY <2>1, <2>2, DisconnectStep, Zenon
<1> QED BY <1>1, <1>2, <1>3, Zenon DEF LookupTimeout

(* A ban command disconnects some of the others.                           *)
LEMMA OperatorStep ==
    ASSUME IInv, NEW s \in Slots, Operator(s)
    PROVE  Kept
<1>1. PICK b \in BanSpace, gone \in SUBSET live :
          /\ bans' = bans \cup {b} /\ server_disconnect(gone)
          /\ UNCHANGED <<next_client_id, lookups, elines>>
  <2>1. PICK b \in BanSpace : command_kline(s, b) \/ command_zline(s, b) \/ command_geoban(s, b)
    BY Zenon DEF Operator
  <2>2. bans' = bans \cup {b} /\ UNCHANGED <<next_client_id, lookups, elines>>
    BY <2>1 DEF command_kline, command_zline, command_geoban
  <2>3. \E gone \in SUBSET live : server_disconnect(gone)
    <3>1. CASE command_kline(s, b)
      <4>1. {t \in live \ {s} : kline_disconnect_row(t, bans')} \in SUBSET live
        OBVIOUS
      <4> QED BY <3>1, <4>1 DEF command_kline
    <3>2. CASE command_zline(s, b)
      <4>1. {t \in live \ {s} : zline_disconnect_row(t, bans')} \in SUBSET live
        BY Zenon
      <4> QED BY <3>2, <4>1 DEF command_zline
    <3>3. CASE command_geoban(s, b)
      <4>1. {t \in live \ {s} : geoban_disconnect_match(t, bans')} \in SUBSET live
        OBVIOUS
      <4> QED BY <3>3, <4>1 DEF command_geoban
    <3> QED BY <2>1, <3>1, <3>2, <3>3, Zenon
  <2> QED BY <2>2, <2>3
<1>2. /\ next_client_id' \in next_client_id .. MaxId
      /\ bans' \subseteq BanKinds \X Ips /\ elines' \subseteq ElineKinds \X Ips
  BY <1>1, BoundAssumption, PolicyAssumption DEF IInv, TypeOK
<1> QED BY <1>1, <1>2, DisconnectStep, Zenon

-----------------------------------------------------------------------------
(* Every step keeps IInv, treats the addresses as AddressStep says, and    *)
(* lets nobody in under a ban.                                             *)
LEMMA EveryStep ==
    ASSUME IInv, [Next]_vars
    PROVE  Kept
<1>1. CASE \E s \in Slots : Connection(s) \/ Command(s) \/ Operator(s)
  BY <1>1, ConnectionStep, CommandStep, OperatorStep
<1>2. CASE \E s \in Slots : LookupTimeout(s) \/ RegistrationTimeout(s) \/ NospoofTimeout(s)
  BY <1>2, TimeoutStep
<1>3. CASE Answer
  BY <1>3, DnsResultStep, DnsblResultStep, Zenon DEF Answer
<1>4. CASE (\E b \in bans : DropBan(b))
           \/ (\E x \in ElineSpace, add \in BOOLEAN : command_eline(x, add))
  <2>1. /\ UNCHANGED <<live, client, next_client_id, index, lookups>>
        /\ bans' \subseteq bans /\ elines' \subseteq elines \cup ElineSpace
    BY <1>4, Zenon DEF DropBan, command_eline
  <2>2. bans' \subseteq BanKinds \X Ips /\ elines' \subseteq ElineKinds \X Ips
    BY <2>1, PolicyAssumption, Zenon DEF IInv, TypeOK
  <2> QED BY <2>1, <2>2, QuietStep, Zenon DEF lookups
<1>5. CASE UNCHANGED vars
  <2>1. bans' \subseteq BanKinds \X Ips /\ elines' \subseteq ElineKinds \X Ips
    BY <1>5 DEF IInv, TypeOK, vars, policy
  <2> QED BY <1>5, <2>1, QuietStep, Zenon DEF vars, lookups, policy
<1> QED BY <1>1, <1>2, <1>3, <1>4, <1>5, Zenon DEF Next

(* IInv is an invariant: the indexes, the open lookups and the client      *)
(* records stay consistent through every handler, answer, timeout and ban. *)
THEOREM Invariance == Spec => []IInv
<1>1. Init => IInv
  <2> SUFFICES ASSUME Init PROVE IInv
    BY Zenon
  <2>1. TypeOK
    BY BoundAssumption, PolicyAssumption DEF Init, TypeOK
  <2>2. IdIndexCoherent /\ NickIndexCoherent
    BY Zenon DEF Init, IdIndexCoherent, NickIndexCoherent
  <2>3. LookupsOwned /\ IdentityCurrent /\ Vetted /\ NotStranded
    BY DEF Init, LookupsOwned, IdentityCurrent, Vetted, NotStranded
  <2> QED BY <2>1, <2>2, <2>3 DEF IInv
<1>2. IInv /\ [Next]_vars => IInv'
  BY EveryStep DEF Kept
<1> QED BY <1>1, <1>2, PTL DEF Spec

-----------------------------------------------------------------------------
(* The connection counts.                                                  *)

From(ip) == {s \in live : client[s].real_ip = ip}

(* The clients of one address are finitely many: they can be counted.       *)
LEMMA FromFinite ==
    ASSUME IInv, NEW ip
    PROVE  IsFiniteSet(From(ip)) /\ Cardinality(From(ip)) \in Nat
<1>1. From(ip) \subseteq Slots
  BY DEF From, IInv, TypeOK
<1> QED BY <1>1, SlotsAssumption, FS_Subset, FS_CardinalityType, Zenon

(* The arithmetic of the counts, which never go below zero.                *)
LEMMA CappedDifference ==
    ASSUME NEW m \in Nat, NEW n \in Nat, n <= m
    PROVE  (IF m > n THEN m - n ELSE 0) = m - n
  OBVIOUS

LEMMA Grown ==
    ASSUME NEW m \in Nat, NEW n \in Nat, m > n
    PROVE  m # n /\ ~(m <= n)
  OBVIOUS

LEMMA CappedDecrement ==
    ASSUME NEW m \in Nat
    PROVE  (IF m > 1 THEN m - 1 ELSE 0) <= m
  OBVIOUS

LEMMA RoomForOne ==
    ASSUME NEW m \in Nat, NEW k \in Nat, ~(m >= k)
    PROVE  m + 1 <= k
  OBVIOUS

(* How the clients of an address change with a step.                       *)
LEMMA CountsStep ==
    ASSUME IInv, CountsExact, AddressStep, NEW ip \in Ips
    PROVE  connection_counts_by_ip'[ip] = Cardinality(From(ip)')
<1>1. connection_counts_by_ip[ip] = Cardinality(From(ip))
  BY DEF CountsExact, From
<1>2. CASE SameAddresses
  <2>1. From(ip)' = From(ip)
    BY <1>2 DEF SameAddresses, From
  <2> QED BY <1>1, <1>2, <2>1, Zenon DEF SameAddresses
<1>3. ASSUME NEW gone \in SUBSET live, server_disconnect(gone)
      PROVE  connection_counts_by_ip'[ip] = Cardinality(From(ip)')
  <2> DEFINE G == {s \in gone : client[s].real_ip = ip}
  <2>1. From(ip)' = From(ip) \ G /\ G \subseteq From(ip)
    BY <1>3 DEF server_disconnect, From, IInv, TypeOK
  <2>2. From(ip) \cap G = G
    BY <2>1
  <2>3. /\ IsFiniteSet(G) /\ Cardinality(G) \in Nat /\ Cardinality(G) <= Cardinality(From(ip))
        /\ Cardinality(From(ip) \ G) = Cardinality(From(ip)) - Cardinality(G)
    <3> HIDE DEF G
    <3>1. IsFiniteSet(G) /\ Cardinality(G) <= Cardinality(From(ip))
      BY <2>1, FromFinite, FS_Subset
    <3>2. Cardinality(G) \in Nat
      BY <3>1, FS_CardinalityType
    <3>3. Cardinality(From(ip) \ G) = Cardinality(From(ip)) - Cardinality(From(ip) \cap G)
      BY FromFinite, FS_Difference, ZenonT(40)
    <3> QED BY <2>2, <3>1, <3>2, <3>3, Zenon
  <2>4. connection_counts_by_ip'[ip] =
            IF connection_counts_by_ip[ip] > Cardinality(G)
            THEN connection_counts_by_ip[ip] - Cardinality(G) ELSE 0
    BY <1>3 DEF server_disconnect, connection_count_remove, IInv, TypeOK
  <2> HIDE DEF G
  <2>5. Cardinality(From(ip)) \in Nat
    BY FromFinite
  <2>6. connection_counts_by_ip'[ip] = Cardinality(From(ip)) - Cardinality(G)
    <3>1. connection_counts_by_ip[ip] = Cardinality(From(ip))
      BY <1>1
    <3>2. Cardinality(G) \in Nat /\ Cardinality(G) <= Cardinality(From(ip))
      BY <2>3
    <3> QED BY <2>4, <2>5, <3>1, <3>2, CappedDifference, ZenonT(30)
  <2> QED BY <2>1, <2>3, <2>6, ZenonT(40)
<1>4. ASSUME NEW s \in Slots, NEW to \in Ips, Arrival(s, to)
      PROVE  connection_counts_by_ip'[ip] = Cardinality(From(ip)')
  <2>1. CASE ip = to
    <3>1. From(ip)' = From(ip) \cup {s} /\ s \notin From(ip)
      BY <1>4, <2>1, Zenon DEF Arrival, From
    <3>2. connection_counts_by_ip'[ip] = connection_counts_by_ip[ip] + 1
      BY <1>4, <2>1, Zenon DEF Arrival, IInv, TypeOK
    <3> QED BY <1>1, <3>1, <3>2, FromFinite, FS_AddElement, ZenonT(40)
  <2>2. CASE ip # to
    <3>1. From(ip)' = From(ip)
      BY <1>4, <2>2, Zenon DEF Arrival, From
    <3>2. connection_counts_by_ip'[ip] = connection_counts_by_ip[ip]
      BY <1>4, <2>2, Zenon DEF Arrival, IInv, TypeOK
    <3> QED BY <1>1, <3>1, <3>2, Zenon
  <2> QED BY <2>1, <2>2
<1>5. ASSUME NEW s \in Slots, NEW to \in Ips, Move(s, to)
      PROVE  connection_counts_by_ip'[ip] = Cardinality(From(ip)')
  <2> DEFINE old == client[s].real_ip
             added == [connection_counts_by_ip EXCEPT ![to] = @ + 1]
  <2>1. s \in live /\ old \in Ips /\ connection_counts_by_ip \in [Ips -> Nat]
    BY <1>5, ZenonT(40) DEF Move, IInv, TypeOK, ClientRecord
  <2>2. CASE old = to
    <3>1. From(ip)' = From(ip)
      BY <1>5, <2>2, Zenon DEF Move, From
    <3> QED BY <1>1, <1>5, <2>2, <3>1, ZenonT(40) DEF Move, server_connection_count_move
  <2>3. CASE old # to
    <3>1. connection_counts_by_ip' = connection_count_remove(added, old, 1)
      BY <1>5, <2>3 DEF Move, server_connection_count_move
    <3>2. added[ip] = IF ip = to THEN connection_counts_by_ip[ip] + 1 ELSE connection_counts_by_ip[ip]
      BY <2>1
    <3>3. added \in [Ips -> Nat]
      BY <2>1
    <3> HIDE DEF added
    <3>4. connection_counts_by_ip'[ip] =
              IF ip = old THEN IF added[ip] > 1 THEN added[ip] - 1 ELSE 0 ELSE added[ip]
      BY <3>1, <3>3, Zenon DEF connection_count_remove
    <3>5. CASE ip = to
      <4>1. From(ip)' = From(ip) \cup {s} /\ s \notin From(ip)
        <5>1. /\ live' = live /\ s \in live /\ client'[s].real_ip = ip /\ client[s].real_ip # ip
              /\ \A u \in live : u # s => client'[u].real_ip = client[u].real_ip
          BY <1>5, <2>3, <3>5, Zenon DEF Move
        <5> HIDE DEF old
        <5> QED BY <5>1, Zenon DEF From
      <4>2. connection_counts_by_ip'[ip] = connection_counts_by_ip[ip] + 1
        BY <2>3, <3>2, <3>4, <3>5, Zenon
      <4>3. Cardinality(From(ip)') = Cardinality(From(ip)) + 1
        BY <4>1, FromFinite, FS_AddElement, Zenon
      <4> QED BY <1>1, <4>2, <4>3, Zenon
    <3>6. CASE ip = old
      <4>1. From(ip)' = From(ip) \ {s} /\ s \in From(ip)
        <5>1. /\ live' = live /\ s \in live /\ client'[s].real_ip = to /\ to # ip /\ client[s].real_ip = ip
              /\ \A u \in live : u # s => client'[u].real_ip = client[u].real_ip
          BY <1>5, <2>3, <3>6, Zenon DEF Move
        <5> HIDE DEF old
        <5> QED BY <5>1, SMT, SMTT(30) DEF From
      <4>2. /\ Cardinality(From(ip)') = Cardinality(From(ip)) - 1
            /\ Cardinality(From(ip)') \in Nat
        BY <4>1, FromFinite, FS_RemoveElement, FS_CardinalityType, ZenonT(40)
      <4>3. connection_counts_by_ip'[ip] =
                IF connection_counts_by_ip[ip] > 1 THEN connection_counts_by_ip[ip] - 1 ELSE 0
        <5>1. added[ip] = connection_counts_by_ip[ip]
          BY <2>3, <3>2, <3>6, Zenon
        <5> QED BY <3>4, <3>6, <5>1, ZenonT(30)
      <4> QED BY <1>1, <4>2, <4>3, FromFinite, SMT, SMTT(30)
    <3>7. CASE ip # to /\ ip # old
      <4>1. From(ip)' = From(ip)
        BY <1>5, <2>3, <3>7 DEF Move, From
      <4> QED BY <1>1, <3>2, <3>4, <3>7, <4>1, Zenon
    <3> QED BY <3>5, <3>6, <3>7, Zenon
  <2> QED BY <2>2, <2>3, Zenon
<1> QED BY <1>2, <1>3, <1>4, <1>5, Zenon DEF AddressStep, Departure

(* The per-address counts are exact whatever arrives, moves and leaves.    *)
THEOREM CountsAreExact == Spec => []CountsExact
<1>1. Init => CountsExact
  <2>1. ASSUME Init, NEW ip \in Ips
        PROVE  connection_counts_by_ip[ip] = Cardinality({s \in live : client[s].real_ip = ip})
    BY <2>1, FS_EmptySet DEF Init
  <2> QED BY <2>1, Zenon DEF CountsExact
<1>2. IInv /\ CountsExact /\ [Next]_vars => CountsExact'
  BY EveryStep, CountsStep, Zenon DEF Kept, CountsExact, From
<1> QED BY <1>1, <1>2, Invariance, PTL DEF Spec

(* An arrival or a WEBIRC move never takes an address over the limit.      *)
THEOREM LimitHolds == Spec => PerIpLimit
<1> DEFINE Limited(ip) ==
             LET now == Cardinality({s \in live' : client'[s].real_ip = ip})
             IN  now > Cardinality({s \in live : client[s].real_ip = ip}) =>
                   \/ MaxPerIp = 0
                   \/ server_connection_limit_ip_exempt(ip)
                   \/ now <= MaxPerIp
<1>1. ASSUME IInv, CountsExact, [Next]_vars, NEW ip \in Ips
      PROVE  Limited(ip)
  <2>1. AddressStep /\ IInv'
    BY <1>1, EveryStep DEF Kept
  <2>2. /\ connection_counts_by_ip[ip] = Cardinality(From(ip))
        /\ connection_counts_by_ip'[ip] = Cardinality(From(ip)')
    BY <1>1, <2>1, CountsStep, ZenonT(40) DEF CountsExact, From
  <2>3. connection_counts_by_ip[ip] \in Nat /\ connection_counts_by_ip'[ip] \in Nat
    BY <1>1, <2>1, Zenon DEF IInv, TypeOK
  <2>4. SUFFICES ASSUME connection_counts_by_ip'[ip] > connection_counts_by_ip[ip],
                        MaxPerIp # 0, ~server_connection_limit_ip_exempt(ip)
                 PROVE  connection_counts_by_ip'[ip] <= MaxPerIp
    BY <2>2 DEF From
  <2>5. CASE SameAddresses
    <3>1. connection_counts_by_ip'[ip] = connection_counts_by_ip[ip]
      BY <2>5 DEF SameAddresses
    <3> QED BY <2>3, <2>4, <3>1, Grown, ZenonT(30)
  <2>6. CASE Departure
    <3>1. PICK gone \in SUBSET live : server_disconnect(gone)
      BY <2>6, Zenon DEF Departure
    <3>2. From(ip)' \subseteq From(ip)
      BY <1>1, <3>1, ZenonT(40) DEF server_disconnect, From, IInv, TypeOK
    <3>3. connection_counts_by_ip'[ip] <= connection_counts_by_ip[ip]
      BY <1>1, <2>2, <3>2, FromFinite, FS_Subset, Zenon
    <3> QED BY <2>3, <2>4, <3>3, Grown, ZenonT(30)
  <2>7. ASSUME NEW s \in Slots, NEW to \in Ips, Arrival(s, to)
        PROVE  connection_counts_by_ip'[ip] <= MaxPerIp
    <3>1. ip = to /\ connection_counts_by_ip'[ip] = connection_counts_by_ip[ip] + 1
      <4>1. connection_counts_by_ip'[ip] =
                IF ip = to THEN connection_counts_by_ip[ip] + 1 ELSE connection_counts_by_ip[ip]
        BY <1>1, <2>7, ZenonT(40) DEF Arrival, IInv, TypeOK
      <4> QED BY <2>3, <2>4, <4>1, Grown, ZenonT(30)
    <3>2. ~(connection_counts_by_ip[ip] >= MaxPerIp)
      BY <2>4, <2>7, <3>1, Zenon DEF Arrival, server_connection_limit_reached, ConnectionsFrom
    <3> QED BY <2>3, <3>1, <3>2, BoundAssumption, RoomForOne, ZenonT(30)
  <2>8. ASSUME NEW s \in Slots, NEW to \in Ips, Move(s, to)
        PROVE  connection_counts_by_ip'[ip] <= MaxPerIp
    <3> DEFINE old == client[s].real_ip
               added == [connection_counts_by_ip EXCEPT ![to] = @ + 1]
    <3>1. old \in Ips /\ old # to
      <4>1. old \in Ips
        BY <1>1, <2>8, Zenon DEF Move, IInv, TypeOK, ClientRecord
      <4>2. ASSUME old = to
            PROVE  FALSE
        <5>1. connection_counts_by_ip' = connection_counts_by_ip
          BY <2>8, <4>2, Zenon DEF Move, server_connection_count_move
        <5> QED BY <2>3, <2>4, <5>1, Grown, ZenonT(30)
      <4> QED BY <4>1, <4>2, Zenon
    <3>2. /\ added \in [Ips -> Nat]
          /\ added[ip] = IF ip = to THEN connection_counts_by_ip[ip] + 1 ELSE connection_counts_by_ip[ip]
      BY <1>1, SMT, SMTT(30) DEF IInv, TypeOK
    <3>3. connection_counts_by_ip' = connection_count_remove(added, old, 1)
      BY <2>8, <3>1, Zenon DEF Move, server_connection_count_move
    <3> HIDE DEF added
    <3>4. connection_counts_by_ip'[ip] =
              IF ip = old THEN IF added[ip] > 1 THEN added[ip] - 1 ELSE 0 ELSE added[ip]
      BY <3>2, <3>3, Zenon DEF connection_count_remove
    <3>5. ip = to /\ connection_counts_by_ip'[ip] = connection_counts_by_ip[ip] + 1
      <4>1. CASE ip = to
        BY <3>1, <3>2, <3>4, <4>1, ZenonT(30)
      <4>2. CASE ip # to
        <5>1. added[ip] = connection_counts_by_ip[ip]
          BY <3>2, <4>2
        <5>2. \/ connection_counts_by_ip'[ip] = connection_counts_by_ip[ip]
              \/ connection_counts_by_ip'[ip] <= connection_counts_by_ip[ip]
          BY <2>3, <3>4, <5>1, CappedDecrement, ZenonT(30)
        <5> QED BY <2>3, <2>4, <5>2, Grown, ZenonT(30)
      <4> QED BY <4>1, <4>2
    <3>6. ~(connection_counts_by_ip[ip] >= MaxPerIp)
      BY <2>4, <2>8, <3>1, <3>5, Zenon DEF Move, server_connection_limit_reached, ConnectionsFrom
    <3> QED BY <2>3, <3>5, <3>6, BoundAssumption, RoomForOne, ZenonT(30)
  <2> QED BY <2>1, <2>5, <2>6, <2>7, <2>8, Zenon DEF AddressStep
<1>2. IInv /\ CountsExact /\ [Next]_vars => [\A ip \in Ips : Limited(ip)]_vars
  BY <1>1
<1> QED BY <1>2, Invariance, CountsAreExact, PTL DEF Spec, PerIpLimit

(* Nobody enters service under a ban that applies to the identity it has   *)
(* at that moment.                                                         *)
THEOREM BansHoldAtEntry == Spec => NoEntryUnderBan
<1>1. IInv /\ [Next]_vars => [EntryStep]_vars
  BY EveryStep DEF Kept
<1> QED BY <1>1, Invariance, PTL DEF Spec, NoEntryUnderBan, EntryStep

(* An automatic ZLINE hits the listed address and no other.                *)
THEOREM AutoZlineHitsListed == Spec => AutoZlineJustified
<1> DEFINE Justified(ip) ==
             <<"z", ip>> \in bans' \ bans =>
                 ip \in ListedIps \/ \E s \in live : command_zline(s, <<"z", ip>>)
<1>1. ASSUME IInv, Next, NEW ip \in Ips, <<"z", ip>> \in bans', <<"z", ip>> \notin bans
      PROVE  ip \in ListedIps \/ \E s \in live : command_zline(s, <<"z", ip>>)
  <2>1. CASE \E s \in Slots : Connection(s)
    <3>1. bans' = bans
      BY <2>1 DEF Connection, accept_clients, advance_tls_handshake, Hangup, policy
    <3> QED BY <1>1, <3>1
  <2>2. CASE \E s \in Slots : Command(s)
    <3>1. bans' = bans
      BY <2>2, ZenonT(40) DEF Command, command_nick, command_user, command_pass, command_cap_begin,
                  command_cap_end, nospoof_handle_pong, command_webirc, Update, policy
    <3> QED BY <1>1, <3>1
  <2>3. CASE \E s \in Slots : LookupTimeout(s) \/ RegistrationTimeout(s) \/ NospoofTimeout(s)
    <3>1. bans' = bans
      BY <2>3 DEF LookupTimeout, DnsTimeout, DnsblTimeout, RegistrationTimeout, NospoofTimeout,
                  Update, policy
    <3> QED BY <1>1, <3>1
  <2>4. ASSUME NEW s \in Slots, Operator(s)
        PROVE  \E t \in live : command_zline(t, <<"z", ip>>)
    <3>1. ASSUME NEW b \in BanSpace, bans' = bans \cup {b}
          PROVE  b = <<"z", ip>>
      BY <1>1, <3>1
    <3>2. <<"z", ip>>[1] \notin {"kip", "khost", "g"}
      OBVIOUS
    <3>3. PICK b \in BanSpace : command_zline(s, b)
      BY <2>4, <3>1, <3>2, Zenon DEF Operator, command_kline, command_geoban
    <3> QED BY <3>1, <3>3, Zenon DEF command_zline
  <2>5. CASE Answer
    <3>1. CASE \E q \in dns_lookups, v \in BOOLEAN, e \in SUBSET Faults : handle_dns_result(q, v, e)
      <4>1. bans' = bans
        BY <3>1, Zenon DEF handle_dns_result, policy
      <4> QED BY <1>1, <4>1
    <3>2. ASSUME NEW q \in dnsbl_lookups, NEW l \in BOOLEAN, NEW e \in SUBSET Faults,
                 handle_dnsbl_result(q, l, e)
          PROVE  ip \in ListedIps
      <4> DEFINE s == server_find_client_by_id(q.id)
      <4>1. s # None /\ l /\ bans' = bans \cup {<<"z", client[s].real_ip>>}
        BY <1>1, <3>2, ZenonT(40) DEF handle_dnsbl_result
      <4>2. client[s].real_ip = q.ip
        BY <1>1, <4>1, AnswerFinds
      <4>3. q.ip \in ListedIps
        BY <3>2, <4>1, Zenon DEF handle_dnsbl_result
      <4>4. ip = client[s].real_ip
        BY <1>1, <4>1
      <4> QED BY <4>2, <4>3, <4>4
    <3> QED BY <2>5, <3>1, <3>2, Zenon DEF Answer
  <2>6. CASE (\E b \in bans : DropBan(b))
             \/ (\E x \in ElineSpace, add \in BOOLEAN : command_eline(x, add))
    <3>1. bans' \subseteq bans
      BY <2>6 DEF DropBan, command_eline
    <3> QED BY <1>1, <3>1, Zenon
  <2> QED BY <1>1, <2>1, <2>2, <2>3, <2>4, <2>5, <2>6, Zenon DEF Next
<1>2. IInv /\ [Next]_vars => [\A ip \in Ips : Justified(ip)]_vars
  BY <1>1
<1> QED BY <1>2, Invariance, PTL DEF Spec, AutoZlineJustified

-----------------------------------------------------------------------------
(* The model's variables keep their types for every instance.              *)
THEOREM TypeCorrect == Spec => []TypeOK
  BY Invariance, PTL DEF IInv

(* Looking a client up by its id finds exactly the live clients, so a late *)
(* answer never reaches a slot that was reused.                            *)
THEOREM IdsAreCoherent == Spec => []IdIndexCoherent
  BY Invariance, PTL DEF IInv

(* The nickname index holds exactly the live clients that have a nickname. *)
THEOREM NicknamesAreCoherent == Spec => []NickIndexCoherent
  BY Invariance, PTL DEF IInv

(* No resolver answer can reach a client whose address it is not about.    *)
THEOREM AnswersReachTheirOwner == Spec => []LookupsOwned
  BY Invariance, PTL DEF IInv

(* No client carries another address's host name or GeoIP data.            *)
THEOREM IdentitiesAreCurrent == Spec => []IdentityCurrent
  BY Invariance, PTL DEF IInv

(* Whoever is registered passed every configured gate.                     *)
THEOREM RegisteredAreVetted == Spec => []Vetted
  BY Invariance, PTL DEF IInv

(* Whoever has supplied everything has been registered or refused.         *)
THEOREM NobodyIsStranded == Spec => []NotStranded
  BY Invariance, PTL DEF IInv
=============================================================================
