-------------------------- MODULE DnsServerProofs --------------------------
(***************************************************************************)
(* Theorems about the DNS responder, for any tailnets, zones, queries and  *)
(* hosts: it implements the registry's specification, and a connection     *)
(* reaches the host that was asked for.                                    *)
(***************************************************************************)
EXTENDS DnsServer, RegistryProofs, FiniteSetTheorems

Connected == {"answered", "dialing", "proxied"}

(* What the client holds at each place.                                    *)
LEMMA ClientFields ==
  ASSUME client \in Client
  PROVE  /\ client.at \in {"matched", "exists"} => client.q \in Query /\ client.m \in Matching
         /\ client.at = "exists" => client.blind \in BOOLEAN
         /\ client.at \in Connected =>
              client \in [at : Connected, q : Query, blind : BOOLEAN, ip : Nat, host : FQDN,
                          current : BOOLEAN, via : {<<>>} \cup (Name \X FQDN)]
  BY DEF Client, Connected

(* match gives a host name of FQDN, and a name it calls canonical is under *)
(* a suffix.                                                               *)
LEMMA MatchIsTyped ==
  ASSUME DnsInv, NEW q \in Query, NEW m \in Match(q)
  PROVE  m \in Matching /\ (m.auth => \E s \in Suffix : Under(q, s))
  <1>1. PICK o \in Offers(q) :
          m = [name |-> o[1], auth |-> o[2] = 1,
               real |-> IF o[2] = 1 THEN q
                        ELSE Canonical(q, Zones(o[1])[o[2]], entries[o[1]].suffix)]
    BY DEF Match
  <1>2. /\ o[1] \in DOMAIN entries /\ o[2] \in 1 .. 3
        /\ entries[o[1]].suffix # NoZone /\ Under(q, Zones(o[1])[o[2]])
    BY DEF Offers
  <1>3. o[1] \in Name
    BY <1>2, RegistryAssumption DEF DnsInv, RegInv, RegTypeOK
  <1>4. entries[o[1]].suffix \in Suffix /\ entries[o[1]].domain \in Domain
    BY <1>2 DEF DnsInv, ZonesAreConfigured
  <1>5. CASE o[2] = 1
    <2>1. Zones(o[1])[o[2]] = entries[o[1]].suffix
      BY <1>5 DEF Zones
    <2>. QED BY <1>1, <1>2, <1>3, <1>4, <1>5, <2>1, CanonicalAssumption DEF Matching
  <1>6. CASE o[2] # 1
    <2>1. Zones(o[1])[o[2]] \in Domain \cup {<<n>> : n \in Name}
      <3>1. CASE o[2] = 2 BY <3>1, <1>3 DEF Zones
      <3>2. CASE o[2] = 3 BY <3>2, <1>4 DEF Zones
      <3>. QED BY <3>1, <3>2, <1>2, <1>6
    <2>2. Canonical(q, Zones(o[1])[o[2]], entries[o[1]].suffix) \in FQDN
      BY <1>2, <1>4, <2>1, CanonicalAssumption
    <2>. QED BY <1>1, <1>3, <1>6, <2>2 DEF Matching
  <1>. QED BY <1>5, <1>6
-----------------------------------------------------------------------------
(* A step of the responder is a step of the registry or leaves it alone.   *)
LEMMA StepOfRegistry ==
  ASSUME DnsInv, [DnsNext]_dnsVars
  PROVE  [RegNext]_regVars
  <1>1. ASSUME NEW n \in DOMAIN entries PROVE n \in Name
    BY RegistryAssumption DEF DnsInv, RegInv, RegTypeOK
  <1>2. ASSUME Reply PROVE [RegNext]_regVars
    <2>1. client.at = "exists"
      BY <1>2 DEF Reply
    <2>2. client.m.real \in FQDN
      BY <2>1, ClientFields DEF DnsInv, DnsTypeOK, Matching
    <2>3. CASE Allocate(client.m.name, client.m.real)
      <3>1. client.m.name \in Name
        BY <1>1, <2>3 DEF Allocate, Mint
      <3>. QED BY <2>2, <2>3, <3>1 DEF RegNext
    <2>4. CASE UNCHANGED regVars
      BY <2>4
    <2>. QED BY <1>2, <2>3, <2>4 DEF Reply
  <1>3. ASSUME NEW n \in Name, StartTailnet(n) PROVE RegNext
    BY <1>3, DnsAssumption DEF StartTailnet, RegNext, Start
  <1>4. ASSUME NEW n \in Name, StopTailnet(n) PROVE RegNext
    BY <1>4 DEF StopTailnet, RegNext
  <1>5. ASSUME NEW n \in Name, Background(n) PROVE RegNext
    BY <1>5, DnsAssumption DEF Background, RegNext
  <1>6. ASSUME NEW q \in Query, Ask(q) PROVE UNCHANGED regVars
    BY <1>6 DEF Ask
  <1>7. ASSUME Check \/ Connect \/ Dial \/ Hangup PROVE UNCHANGED regVars
    BY <1>7 DEF Check, Exists, Connect, Dial, Hangup
  <1>8. CASE UNCHANGED dnsVars
    BY <1>8 DEF dnsVars
  <1>. QED BY <1>2, <1>3, <1>4, <1>5, <1>6, <1>7, <1>8 DEF DnsNext

(* A step that changes the client alone keeps the invariant if what it     *)
(* says of the client holds afterwards.                                    *)
LEMMA ClientStep ==
  ASSUME DnsInv, UNCHANGED <<regVars, position>>, client' \in Client,
         AnswerStands', DeniedIsOurs', TakenIsPeer'
  PROVE  DnsInv'
  <1>1. RegInv'
    BY RegInvStep DEF DnsInv
  <1>2. DnsTypeOK'
    BY <1>1 DEF DnsInv, DnsTypeOK, RegInv, regVars
  <1>3. ZonesAreConfigured'
    BY DEF DnsInv, ZonesAreConfigured, regVars
  <1>. QED BY <1>1, <1>2, <1>3 DEF DnsInv

LEMMA AskKeepsInv ==
  ASSUME DnsInv, NEW q \in Query, Ask(q)
  PROVE  DnsInv'
  <1>1. UNCHANGED <<regVars, position>>
    BY DEF Ask
  <1>2. CASE client' = [at |-> "forwarded", q |-> q]
    <2>1. client' \in Client /\ client'.at = "forwarded"
      BY <1>2 DEF Client
    <2>. QED BY <1>1, <2>1, ClientStep DEF AnswerStands, DeniedIsOurs, TakenIsPeer
  <1>3. ASSUME NEW m \in Match(q), client' = [at |-> "matched", q |-> q, m |-> m] PROVE DnsInv'
    <2>1. m \in Matching /\ (m.auth => \E s \in Suffix : Under(q, s))
      BY MatchIsTyped
    <2>2. client' \in Client /\ client'.at = "matched" /\ client'.q = q /\ client'.m = m
      BY <1>3, <2>1 DEF Client
    <2>. QED BY <1>1, <2>1, <2>2, ClientStep DEF AnswerStands, DeniedIsOurs, TakenIsPeer
  <1>. QED BY <1>2, <1>3 DEF Ask

(* A miss under the MagicDNS suffix is denied, and only that.              *)
LEMMA MissKeepsInv ==
  ASSUME DnsInv, UNCHANGED <<regVars, position>>, client.at \in {"matched", "exists"},
         NEW rcode \in {"forwarded", "nxdomain", "empty"}, Miss(rcode),
         rcode = "nxdomain" => client.m.auth
  PROVE  DnsInv'
  <1>1. client.q \in Query
    BY ClientFields DEF DnsInv, DnsTypeOK
  <1>2. client' \in Client /\ client'.at = rcode /\ client'.q = client.q
    BY <1>1 DEF Miss, Client
  <1>. QED BY <1>2, ClientStep DEF DnsInv, AnswerStands, DeniedIsOurs, TakenIsPeer

LEMMA CheckKeepsInv ==
  ASSUME DnsInv, Check
  PROVE  DnsInv'
  <1>1. client.at = "matched" /\ UNCHANGED <<regVars, position>>
    BY DEF Check, Exists
  <1>2. client.q \in Query /\ client.m \in Matching
    BY <1>1, ClientFields DEF DnsInv, DnsTypeOK
  <1>3. ASSUME NEW blind \in BOOLEAN, Found(blind), blind \/ client.m.real \in Peers
        PROVE  DnsInv'
    <2>1. /\ client' \in Client /\ client'.at = "exists" /\ client'.q = client.q
          /\ client'.m = client.m /\ client'.blind = blind
      BY <1>2, <1>3 DEF Found, Client
    <2>. QED BY <1>1, <1>3, <2>1, ClientStep DEF DnsInv, AnswerStands, DeniedIsOurs, TakenIsPeer
  <1>4. ASSUME Miss(IF client.m.auth THEN "nxdomain" ELSE "forwarded") PROVE DnsInv'
    BY <1>1, <1>4, MissKeepsInv
  <1>. QED BY <1>3, <1>4 DEF Check, Exists, IsPeer

(* The registry's step aside, a reply hands out the address that the name  *)
(* is mapped to, before or after it.                                       *)
LEMMA ReplyKeepsInv ==
  ASSUME DnsInv, Reply
  PROVE  DnsInv'
  <1>1. client.at = "exists" /\ UNCHANGED position
    BY DEF Reply
  <1>2. client.q \in Query /\ client.m \in Matching /\ client.blind \in BOOLEAN
    BY <1>1, ClientFields DEF DnsInv, DnsTypeOK
  <1>3. RegInv'
    BY StepOfRegistry, RegInvStep DEF DnsInv, DnsNext
  <1>4. ASSUME NEW ip \in DOMAIN byIP', Answer(ip), byIP'[ip] = client.m.real
        PROVE  client' \in Client /\ AnswerStands' /\ DeniedIsOurs' /\ TakenIsPeer'
    <2>1. ip \in Nat
      BY <1>3 DEF RegInv, RegTypeOK
    <2>2. /\ client' \in Client /\ client'.at = "answered" /\ client'.ip = ip
          /\ client'.host = client.m.real /\ client'.blind = client.blind
      BY <1>2, <1>4, <2>1 DEF Answer, Client, Matching
    <2>. QED BY <1>1, <1>4, <2>2 DEF DnsInv, AnswerStands, DeniedIsOurs, TakenIsPeer
  <1>5. CASE client.m.real \in DOMAIN byName /\ Answer(byName[client.m.real]) /\ UNCHANGED regVars
    <2>1. byName[client.m.real] \in DOMAIN byIP' /\ byIP'[byName[client.m.real]] = client.m.real
      BY <1>5 DEF DnsInv, RegInv, NamesMatchIPs, regVars
    <2>. QED BY <1>1, <1>4, <1>5, <2>1, ClientStep
  <1>6. CASE Allocate(client.m.name, client.m.real) /\ Answer(NextIP(entries[client.m.name]))
    <2>1. /\ client.m.name \in DOMAIN entries
          /\ entries' = [entries EXCEPT ![client.m.name].next = @ + 1]
          /\ byIP' = Put(byIP, NextIP(entries[client.m.name]), client.m.real)
      BY <1>6 DEF Allocate, Mint
    <2>2. client' \in Client /\ AnswerStands' /\ DeniedIsOurs' /\ TakenIsPeer'
      BY <1>4, <1>6, <2>1 DEF Put
    <2>3. /\ DOMAIN entries' = DOMAIN entries
          /\ \A n \in DOMAIN entries : /\ entries'[n].suffix = entries[n].suffix
                                        /\ entries'[n].domain = entries[n].domain
      BY <2>1 DEF DnsInv, RegInv, RegTypeOK, Entry
    <2>4. DnsTypeOK'
      BY <1>1, <1>3, <2>2, <2>3 DEF DnsInv, DnsTypeOK, RegInv
    <2>5. ZonesAreConfigured'
      BY <2>3 DEF DnsInv, ZonesAreConfigured
    <2>. QED BY <1>3, <2>2, <2>4, <2>5 DEF DnsInv
  <1>7. CASE Miss("empty") /\ UNCHANGED regVars
    BY <1>1, <1>7, MissKeepsInv
  <1>. QED BY <1>5, <1>6, <1>7 DEF Reply

(* handle reads the host behind an address that still stands.              *)
LEMMA ConnectKeepsInv ==
  ASSUME DnsInv, Connect
  PROVE  DnsInv'
  <1>1. client.at = "answered" /\ client.ip \in DOMAIN byIP /\ UNCHANGED <<regVars, position>>
    BY DEF Connect
  <1>2. client \in [at : Connected, q : Query, blind : BOOLEAN, ip : Nat, host : FQDN,
                   current : BOOLEAN, via : {<<>>} \cup (Name \X FQDN)]
    BY <1>1, ClientFields DEF DnsInv, DnsTypeOK, Connected
  <1>3. PICK n \in Owner(client.ip) :
          client' = [client EXCEPT !.at = "dialing", !.via = <<n, byIP[client.ip]>>]
    BY DEF Connect
  <1>4. n \in Name /\ byIP[client.ip] \in FQDN
    BY <1>1, RegistryAssumption DEF DnsInv, RegInv, RegTypeOK, Owner
  <1>5. /\ client' \in Client /\ client'.at = "dialing" /\ client'.ip = client.ip
        /\ client'.host = client.host /\ client'.current = client.current
        /\ client'.blind = client.blind /\ client'.via = <<n, byIP[client.ip]>>
    BY <1>2, <1>3, <1>4 DEF Client, Connected
  <1>6. AnswerStands'
    BY <1>1, <1>5 DEF DnsInv, AnswerStands, regVars
  <1>7. DeniedIsOurs' /\ TakenIsPeer'
    BY <1>1, <1>5 DEF DnsInv, DeniedIsOurs, TakenIsPeer
  <1>. QED BY <1>1, <1>5, <1>6, <1>7, ClientStep

LEMMA DialKeepsInv ==
  ASSUME DnsInv, Dial \/ Hangup
  PROVE  DnsInv'
  <1>1. client.at \in {"dialing", "proxied"} /\ UNCHANGED <<regVars, position>>
    BY DEF Dial, Hangup
  <1>2. client \in [at : Connected, q : Query, blind : BOOLEAN, ip : Nat, host : FQDN,
                   current : BOOLEAN, via : {<<>>} \cup (Name \X FQDN)]
    BY <1>1, ClientFields DEF DnsInv, DnsTypeOK, Connected
  <1>3. ASSUME NEW at \in Connected, NEW via \in {<<>>, client.via},
               client' = [client EXCEPT !.at = at, !.via = via],
               at # "answered" => via = client.via
        PROVE  DnsInv'
    <2>1. /\ client' \in Client /\ client'.at = at /\ client'.ip = client.ip
          /\ client'.host = client.host /\ client'.current = client.current
          /\ client'.blind = client.blind /\ client'.via = via
      BY <1>2, <1>3 DEF Client, Connected
    <2>2. AnswerStands'
      BY <1>1, <1>3, <2>1 DEF DnsInv, AnswerStands, Connected, regVars
    <2>3. DeniedIsOurs' /\ TakenIsPeer'
      BY <1>1, <1>3, <2>1 DEF DnsInv, DeniedIsOurs, TakenIsPeer, Connected
    <2>. QED BY <1>1, <2>1, <2>2, <2>3, ClientStep
  <1>4. CASE client' = [client EXCEPT !.at = "proxied"]
    <2>1. client' = [client EXCEPT !.at = "proxied", !.via = client.via]
      BY <1>2, <1>4
    <2>. QED BY <1>3, <2>1 DEF Connected
  <1>5. CASE Disconnected
    BY <1>3, <1>5 DEF Disconnected, Connected
  <1>. QED BY <1>4, <1>5 DEF Dial, Hangup
-----------------------------------------------------------------------------
(* A new tailnet takes the last place and no address.                      *)
LEMMA StartTailnetKeepsInv ==
  ASSUME DnsInv, NEW n \in Name, StartTailnet(n)
  PROVE  DnsInv'
  <1>1. PICK r \in CIDR, d \in Domain, s \in Suffix \cup {NoZone} : Add(n, r, d, s)
    BY DEF StartTailnet
  <1>2. /\ Lower[n] \notin DOMAIN entries
        /\ DOMAIN entries' = DOMAIN entries \cup {Lower[n]}
        /\ entries'[Lower[n]] = [range |-> r, next |-> 1, domain |-> d, suffix |-> s]
        /\ \A m \in DOMAIN entries : entries'[m] = entries[m]
        /\ UNCHANGED <<byName, byIP, client>>
    BY <1>1 DEF Add, Put, StartTailnet
  <1>3. RegInv'
    BY StepOfRegistry, RegInvStep DEF DnsInv, DnsNext
  <1>4. /\ IsFiniteSet(DOMAIN entries')
        /\ Cardinality(DOMAIN entries') = Cardinality(DOMAIN entries) + 1
        /\ Cardinality(DOMAIN entries) \in Nat
    BY <1>2, FS_AddElement, FS_CardinalityType DEF DnsInv, DnsTypeOK
  <1>5. /\ position' \in [DOMAIN entries' -> 1 .. Cardinality(DOMAIN entries')]
        /\ \A k, m \in DOMAIN entries' : position'[k] = position'[m] => k = m
    <2>1. position' = Put(position, Lower[n], Cardinality(DOMAIN entries) + 1)
      BY DEF StartTailnet
    <2>. QED BY <1>2, <1>4, <2>1 DEF DnsInv, DnsTypeOK, Put
  <1>6. DnsTypeOK'
    BY <1>2, <1>3, <1>4, <1>5 DEF DnsInv, DnsTypeOK, RegInv
  <1>7. ZonesAreConfigured'
    BY <1>2 DEF DnsInv, ZonesAreConfigured
  <1>8. AnswerStands' /\ DeniedIsOurs' /\ TakenIsPeer'
    BY <1>2 DEF DnsInv, AnswerStands, DeniedIsOurs, TakenIsPeer
  <1>. QED BY <1>3, <1>6, <1>7, <1>8 DEF DnsInv

(* An answer loses its address only with its tailnet, and then it is no    *)
(* longer current.                                                         *)
LEMMA StopTailnetKeepsInv ==
  ASSUME DnsInv, NEW n \in Name, StopTailnet(n)
  PROVE  DnsInv'
  <1>1. /\ Lower[n] \in DOMAIN entries
        /\ entries' = Restrict(entries, DOMAIN entries \ {Lower[n]})
        /\ byIP' = Restrict(byIP, DOMAIN byIP \ Scrubbed(entries[Lower[n]].range))
    BY DEF StopTailnet, Remove, DropName
  <1>2. /\ DOMAIN entries' = DOMAIN entries \ {Lower[n]}
        /\ \A m \in DOMAIN entries' : entries'[m] = entries[m]
    BY <1>1 DEF Restrict
  <1>3. RegInv'
    BY StepOfRegistry, RegInvStep DEF DnsInv, DnsNext
  <1>4. /\ IsFiniteSet(DOMAIN entries')
        /\ Cardinality(DOMAIN entries') = Cardinality(DOMAIN entries) - 1
        /\ Cardinality(DOMAIN entries) \in Nat
    BY <1>1, <1>2, FS_RemoveElement, FS_CardinalityType DEF DnsInv, DnsTypeOK
  <1>5. /\ position' \in [DOMAIN entries' -> 1 .. Cardinality(DOMAIN entries')]
        /\ \A k, m \in DOMAIN entries' : position'[k] = position'[m] => k = m
    <2>1. position' = [m \in DOMAIN entries' |->
                         IF position[m] > position[Lower[n]] THEN position[m] - 1 ELSE position[m]]
      BY <1>2 DEF StopTailnet, DnsInv, DnsTypeOK
    <2>2. \A m \in DOMAIN entries :
            position[m] \in 1 .. Cardinality(DOMAIN entries)
      BY DEF DnsInv, DnsTypeOK
    <2>3. \A m \in DOMAIN entries' : position[m] # position[Lower[n]]
      BY <1>1, <1>2 DEF DnsInv, DnsTypeOK
    <2>4. ASSUME NEW m \in DOMAIN entries'
          PROVE  position'[m] \in 1 .. Cardinality(DOMAIN entries')
      <3>. DEFINE size == Cardinality(DOMAIN entries)
                  p == position[m]
                  gone == position[Lower[n]]
      <3>1. size \in Nat /\ p \in 1 .. size /\ gone \in 1 .. size /\ p # gone
        BY <1>1, <1>2, <1>4, <2>2, <2>3
      <3>2. position'[m] = IF p > gone THEN p - 1 ELSE p
        BY <2>1
      <3>3. position'[m] \in 1 .. size - 1
        <4>. HIDE DEF size, p, gone
        <4>. QED BY <3>1, <3>2
      <3>. QED BY <1>4, <3>3
    <2>5. ASSUME NEW k \in DOMAIN entries', NEW m \in DOMAIN entries', position'[k] = position'[m]
          PROVE  k = m
      <3>. DEFINE p == position[k]
                  q == position[m]
                  gone == position[Lower[n]]
      <3>1. p \in Nat /\ q \in Nat /\ gone \in Nat /\ p # gone /\ q # gone
        BY <1>1, <1>2, <2>2, <2>3
      <3>2. (IF p > gone THEN p - 1 ELSE p) = (IF q > gone THEN q - 1 ELSE q)
        BY <2>1, <2>5
      <3>3. p = q
        <4>. HIDE DEF p, q, gone
        <4>. QED BY <3>1, <3>2
      <3>. QED BY <1>2, <3>3 DEF DnsInv, DnsTypeOK
    <2>. QED BY <2>1, <2>4, <2>5
  <1>6. \/ client' = client /\ (client.at \in Connected => Lower[n] \notin Owner(client.ip))
        \/ client.at \in Connected /\ client' = [client EXCEPT !.current = FALSE]
    BY DEF StopTailnet, Connected
  <1>7. ASSUME client' = client, client.at \in Connected => Lower[n] \notin Owner(client.ip)
        PROVE  client' \in Client /\ AnswerStands' /\ DeniedIsOurs' /\ TakenIsPeer'
    <2>1. client' \in Client /\ DeniedIsOurs' /\ TakenIsPeer'
      BY <1>7 DEF DnsInv, DnsTypeOK, DeniedIsOurs, TakenIsPeer
    <2>2. AnswerStands'
      BY <1>1, <1>7 DEF DnsInv, AnswerStands, Connected, Owner, Scrubbed, Restrict
    <2>. QED BY <2>1, <2>2
  <1>8. ASSUME client.at \in Connected, client' = [client EXCEPT !.current = FALSE]
        PROVE  client' \in Client /\ AnswerStands' /\ DeniedIsOurs' /\ TakenIsPeer'
    <2>1. /\ client' \in Client /\ client'.at = client.at /\ ~client'.current
          /\ client'.host = client.host /\ client'.blind = client.blind
      BY <1>8, ClientFields DEF DnsInv, DnsTypeOK, Client, Connected
    <2>. QED BY <1>8, <2>1 DEF DnsInv, AnswerStands, DeniedIsOurs, TakenIsPeer, Connected
  <1>9. client' \in Client /\ AnswerStands' /\ DeniedIsOurs' /\ TakenIsPeer'
    BY <1>6, <1>7, <1>8
  <1>10. DnsTypeOK'
    BY <1>3, <1>4, <1>5, <1>9 DEF DnsTypeOK, RegInv
  <1>11. ZonesAreConfigured'
    BY <1>2 DEF DnsInv, ZonesAreConfigured
  <1>. QED BY <1>3, <1>9, <1>10, <1>11 DEF DnsInv

(* The rest of the daemon relabels entries and takes fresh addresses.      *)
LEMMA BackgroundKeepsInv ==
  ASSUME DnsInv, NEW n \in Name, Background(n)
  PROVE  DnsInv'
  <1>1. UNCHANGED <<position, client>>
    BY DEF Background
  <1>2. RegInv'
    BY StepOfRegistry, RegInvStep DEF DnsInv, DnsNext
  <1>3. SUFFICES /\ DOMAIN entries' = DOMAIN entries
                 /\ ZonesAreConfigured'
                 /\ \A ip \in DOMAIN byIP : ip \in DOMAIN byIP' /\ byIP'[ip] = byIP[ip]
    <2>1. DnsTypeOK'
      BY <1>1, <1>2, <1>3 DEF DnsInv, DnsTypeOK, RegInv
    <2>2. AnswerStands' /\ DeniedIsOurs' /\ TakenIsPeer'
      BY <1>1, <1>3 DEF DnsInv, AnswerStands, DeniedIsOurs, TakenIsPeer
    <2>. QED BY <1>2, <1>3, <2>1, <2>2 DEF DnsInv
  <1>4. ASSUME NEW s \in Suffix, RegisterSuffix(n, s)
        PROVE  DOMAIN entries' = DOMAIN entries /\ ZonesAreConfigured' /\ UNCHANGED byIP
    BY <1>4 DEF RegisterSuffix, DnsInv, RegInv, RegTypeOK, Entry, ZonesAreConfigured
  <1>5. ASSUME NEW d \in Domain, RegisterDomain(n, d)
        PROVE  DOMAIN entries' = DOMAIN entries /\ ZonesAreConfigured' /\ UNCHANGED byIP
    BY <1>5 DEF RegisterDomain, DnsInv, RegInv, RegTypeOK, Entry, ZonesAreConfigured
  <1>6. ASSUME RegisterResolver(n)
        PROVE  DOMAIN entries' = DOMAIN entries /\ ZonesAreConfigured' /\ UNCHANGED byIP
    BY <1>6 DEF RegisterResolver, DnsInv, ZonesAreConfigured
  <1>7. ASSUME NEW f \in FQDN, Allocate(n, f)
        PROVE  /\ DOMAIN entries' = DOMAIN entries /\ ZonesAreConfigured'
               /\ \A ip \in DOMAIN byIP : ip \in DOMAIN byIP' /\ byIP'[ip] = byIP[ip]
    <2>1. /\ n \in DOMAIN entries /\ CanTake(entries[n])
          /\ entries' = [entries EXCEPT ![n].next = @ + 1]
          /\ byIP' = Put(byIP, NextIP(entries[n]), f)
      BY <1>7 DEF Allocate, Mint
    <2>2. NextIP(entries[n]) \notin DOMAIN byIP
      BY <2>1, NextIPIsFresh DEF DnsInv
    <2>3. DOMAIN entries' = DOMAIN entries /\ ZonesAreConfigured'
      BY <2>1 DEF DnsInv, RegInv, RegTypeOK, Entry, ZonesAreConfigured
    <2>. QED BY <2>1, <2>2, <2>3 DEF Put
  <1>. QED BY <1>4, <1>5, <1>6, <1>7 DEF Background
-----------------------------------------------------------------------------
LEMMA DnsInvStep ==
  ASSUME DnsInv, [DnsNext]_dnsVars
  PROVE  DnsInv'
  <1>1. CASE UNCHANGED dnsVars
    <2>1. UNCHANGED <<regVars, position>> /\ UNCHANGED client
      BY <1>1 DEF dnsVars
    <2>2. UNCHANGED byIP
      BY <2>1 DEF regVars
    <2>. QED BY <2>1, <2>2, ClientStep
             DEF DnsInv, DnsTypeOK, AnswerStands, DeniedIsOurs, TakenIsPeer
  <1>2. CASE DnsNext
    BY <1>2, AskKeepsInv, CheckKeepsInv, ReplyKeepsInv, ConnectKeepsInv, DialKeepsInv,
       StartTailnetKeepsInv, StopTailnetKeepsInv, BackgroundKeepsInv DEF DnsNext
  <1>. QED BY <1>1, <1>2

(* The responder, the connections and the life of the tailnets keep the    *)
(* invariant, for every set of names, zones, hosts and ranges.             *)
THEOREM DnsInvariant == DnsSpec => []DnsInv
  <1>1. DnsInit => DnsInv
    <2>. SUFFICES ASSUME DnsInit PROVE DnsInv
      OBVIOUS
    <2>1. RegInv
      BY DEF DnsInit, RegInit, RegInv, RegTypeOK, RangesDisjoint, GuardIsRanges,
             EachIPHasOwner, NamesMatchIPs, NoAddressWasted
    <2>2. DOMAIN entries = {} /\ DOMAIN position = {} /\ client = [at |-> "idle"]
      BY DEF DnsInit, RegInit
    <2>3. DnsTypeOK
      <3>1. position \in [DOMAIN entries -> 1 .. Cardinality(DOMAIN entries)]
        BY <2>2 DEF DnsInit
      <3>2. client \in Client
        BY <2>2 DEF Client
      <3>. QED BY <2>1, <2>2, <3>1, <3>2, FS_EmptySet DEF RegInv, DnsTypeOK
    <2>. QED BY <2>1, <2>2, <2>3
             DEF DnsInv, ZonesAreConfigured, AnswerStands, DeniedIsOurs, TakenIsPeer
  <1>2. DnsInv /\ [DnsNext]_dnsVars => DnsInv'
    BY DnsInvStep
  <1>. QED BY <1>1, <1>2, PTL DEF DnsSpec

(* ServeDNS and handle use the registry as its specification says: what is *)
(* proved of RegSpec holds with queries and connections in flight.         *)
THEOREM DnsImplementsRegistry == DnsSpec => RegSpec
  <1>1. DnsInit => RegInit
    BY DEF DnsInit
  <1>2. DnsInv /\ [DnsNext]_dnsVars => [RegNext]_regVars
    BY StepOfRegistry
  <1>. QED BY <1>1, <1>2, DnsInvariant, PTL DEF DnsSpec, RegSpec

(* A connection to an address of a DNS answer reaches the host that was    *)
(* asked for, as long as the tailnet of the answer is there.               *)
THEOREM DnsReachesAsked == DnsSpec => []ReachesAsked
  <1>1. DnsInv => ReachesAsked
    BY DEF DnsInv, AnswerStands, ReachesAsked
  <1>. QED BY <1>1, DnsInvariant, PTL

(* A name under no MagicDNS suffix is never denied, and it is taken over   *)
(* only for a host that exists or before the tailnet has a resolver.       *)
THEOREM DnsKeepsPublicNames == DnsSpec => []PublicNamesKept
  <1>1. DnsInv => PublicNamesKept
    BY DEF DnsInv, DeniedIsOurs, TakenIsPeer, PublicNamesKept
  <1>. QED BY <1>1, DnsInvariant, PTL

(* No address changes hands under a client while its tailnet is there.     *)
THEOREM DnsStable == DnsSpec => StableWhileRegistered
  BY DnsImplementsRegistry, RegistryStable, PTL
=============================================================================
