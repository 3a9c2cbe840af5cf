----------------------------- MODULE DnsServer ------------------------------
(***************************************************************************)
(* The DNS responder of ts-multinet (cmd/ts-multinet/dns.go, ServeDNS) and *)
(* the connection that follows an answer (forwarder.go, handle), composed  *)
(* with the registry they share.  A query takes registry.mu three times:   *)
(* match, exists and allocate; tailnets start and stop in between.         *)
(*                                                                         *)
(* A DNS name is a sequence of labels, so that the longest matching suffix *)
(* is the one with most labels: two suffixes of one name with as many      *)
(* labels are equal.  match folds case and drops the final dot; names here *)
(* are as it leaves them.  One client stands for all of them: what others  *)
(* do to the registry is Allocate.                                         *)
(***************************************************************************)
EXTENDS Registry, FiniteSets, Sequences

CONSTANTS
  Query,      \* names clients ask for
  Domain,     \* friendly domains of the configurations
  Suffix,     \* MagicDNS suffixes of the tailnets
  Peers,      \* canonical names of hosts that exist, over all tailnets
  TailnetIP   \* their tailnet addresses

ASSUME DnsAssumption ==
  /\ Domain \cup Suffix \subseteq Zone
  /\ Peers \subseteq FQDN
  /\ TailnetIP \in [Peers -> Nat]

VARIABLES
  position,   \* place of each tailnet in registry.entries, in the order of add
  client      \* the query being served, then the answer and its connection

dnsVars == <<regVars, position, client>>
-----------------------------------------------------------------------------
Seqs == INSTANCE SequencesExt

Under(name, zone) == Seqs!IsSuffix(zone, name)

(* The part of the name in front of the zone, moved under suffix s.        *)
Canonical(name, zone, s) == SubSeq(name, 1, Len(name) - Len(zone)) \o s

(* The zones of one entry, in the order in which match tries them: its     *)
(* MagicDNS suffix, then its name and its friendly domain, which mean      *)
(* nothing before it has a suffix.                                         *)
Zones(n) == <<entries[n].suffix, <<n>>, entries[n].domain>>

Offers(name) ==
  {o \in (DOMAIN entries) \X (1 .. 3) :
     entries[o[1]].suffix # NoZone /\ Under(name, Zones(o[1])[o[2]])}

Better(o, p) ==
  LET size(x) == Len(Zones(x[1])[x[2]]) IN
  \/ size(o) > size(p)
  \/ /\ size(o) = size(p)
     /\ position[o[1]] < position[p[1]] \/ (o[1] = p[1] /\ o[2] < p[2])

(* match: the longest zone wins, and of two as long the one tried first.   *)
(* A set: empty when the name is none of ours.                             *)
Match(name) ==
  {[name |-> o[1], auth |-> o[2] = 1,
    real |-> IF o[2] = 1 THEN name
             ELSE Canonical(name, Zones(o[1])[o[2]], entries[o[1]].suffix)] :
   o \in {x \in Offers(name) : \A p \in Offers(name) \ {x} : Better(x, p)}}

(* FQDN has every name that match can make of a query.                     *)
ASSUME CanonicalAssumption ==
  \A q \in Query, s \in Suffix :
    /\ Under(q, s) => q \in FQDN
    /\ \A z \in Domain \cup {<<n>> : n \in Name} :
         Under(q, z) => Canonical(q, z, s) \in FQDN

(* newTailnetResolver: the peers of the tailnet that the node has joined,  *)
(* of which it knows none before it knows the suffix.                      *)
IsPeer(n, f) ==
  /\ n \in DOMAIN entries /\ entries[n].suffix # NoZone
  /\ f \in Peers /\ Under(f, entries[n].suffix)

Owner(ip) == {n \in DOMAIN entries : Contains(entries[n].range, ip)}
-----------------------------------------------------------------------------
(* ServeDNS, first hold of the lock.  A name of no tailnet is forwarded to *)
(* the upstream resolver as it is.                                         *)
Ask(q) ==
  /\ client.at \notin {"matched", "exists", "dialing", "proxied"}
  /\ \/ Match(q) = {} /\ client' = [at |-> "forwarded", q |-> q]
     \/ \E m \in Match(q) : client' = [at |-> "matched", q |-> q, m |-> m]
  /\ UNCHANGED <<regVars, position>>

Found(blind) == client' = [at |-> "exists", q |-> client.q, m |-> client.m, blind |-> blind]

Miss(rcode) == client' = [at |-> rcode, q |-> client.q]

Exists(rcode) ==
  /\ client.at = "matched"
  /\ IF client.m.name \notin resolvers THEN Found(TRUE)
     ELSE \/ IsPeer(client.m.name, client.m.real) /\ Found(FALSE)
          \/ Miss(rcode)
  /\ UNCHANGED <<regVars, position>>

(* A slip: every miss is denied. *)
CheckDeniesAll == Exists("nxdomain")

(* exists.  Without a resolver (the tailnet is starting, or was removed    *)
(* since the match) every name is let through; the peer list may fail to   *)
(* answer in time, which counts as a miss.  A miss under the MagicDNS      *)
(* suffix is denied, one under an alias goes to the upstream: an alias     *)
(* like "dev" is also a public top-level domain.                           *)
Check == Exists(IF client.m.auth THEN "nxdomain" ELSE "forwarded")

Answer(ip) == client' = [at |-> "answered", q |-> client.q, blind |-> client.blind,
                         ip |-> ip, host |-> client.m.real, current |-> TRUE,
                         via |-> <<>>]

(* The reply: only an A query has an address synthesized.  A name that has *)
(* one keeps it.  Another type, a range with no address left and a tailnet *)
(* that is gone give an empty answer.                                      *)
Reply ==
  LET n == client.m.name  f == client.m.real IN
  /\ client.at = "exists"
  /\ \/ f \in DOMAIN byName /\ Answer(byName[f]) /\ UNCHANGED regVars
     \/ Allocate(n, f) /\ Answer(NextIP(entries[n]))
     \/ Miss("empty") /\ UNCHANGED regVars
  /\ UNCHANGED position
-----------------------------------------------------------------------------
(* handle, first part: the packet is routed to the TUN of the range, and   *)
(* the name behind the address is looked up there.  An address without a   *)
(* name is answered with a reset, and nothing is left of the attempt.      *)
Connect ==
  /\ client.at = "answered" /\ client.ip \in DOMAIN byIP
  /\ \E n \in Owner(client.ip) :
       client' = [client EXCEPT !.at = "dialing", !.via = <<n, byIP[client.ip]>>]
  /\ UNCHANGED <<regVars, position>>

Disconnected == client' = [client EXCEPT !.at = "answered", !.via = <<>>]

(* dialTailnet: the name as the peer list of this tailnet has it; never an *)
(* address of a synthetic range, which would come back here.               *)
Dial ==
  /\ client.at = "dialing"
  /\ LET host == client.via[2] IN
     \/ /\ IsPeer(client.via[1], host) /\ ~IsSynthetic(TailnetIP[host])
        /\ client' = [client EXCEPT !.at = "proxied"]
     \/ Disconnected
  /\ UNCHANGED <<regVars, position>>

(* The connection ends; the client still has the address.                  *)
Hangup ==
  /\ client.at = "proxied"
  /\ Disconnected
  /\ UNCHANGED <<regVars, position>>
-----------------------------------------------------------------------------
(* startTailnet.  The suffix is NoZone unless the configuration pins it.   *)
StartTailnet(n) ==
  /\ \E r \in CIDR, d \in Domain, s \in Suffix \cup {NoZone} :
       Unclaimed(r) /\ Add(n, r, d, s)
  /\ position' = Put(position, Lower[n], Cardinality(DOMAIN entries) + 1)
  /\ UNCHANGED client

(* An answer whose range loses its tailnet is no longer current.           *)
StopTailnet(n) ==
  /\ Remove(n)
  /\ position' = [m \in DOMAIN position \ {Lower[n]} |->
                    IF position[m] > position[Lower[n]] THEN position[m] - 1 ELSE position[m]]
  /\ client' = IF client.at \in {"answered", "dialing", "proxied"} /\ Lower[n] \in Owner(client.ip)
               THEN [client EXCEPT !.current = FALSE] ELSE client

(* What the start-up and the watcher do to an entry, and what the hosts    *)
(* block and other clients take from its range.                            *)
Background(n) ==
  /\ \/ Lower[n] \in DOMAIN entries /\ entries[Lower[n]].suffix = NoZone
           /\ \E s \in Suffix : RegisterSuffix(n, s)
     \/ \E d \in Domain : RegisterDomain(n, d)
     \/ Lower[n] \in DOMAIN entries /\ RegisterResolver(n)
     \/ \E f \in FQDN : Allocate(n, f)
  /\ UNCHANGED <<position, client>>

DnsInit ==
  /\ RegInit
  /\ position = [n \in {} |-> 0] /\ client = [at |-> "idle"]

DnsNext ==
  \/ \E q \in Query : Ask(q)
  \/ Check \/ Reply
  \/ Connect \/ Dial \/ Hangup
  \/ \E n \in Name : StartTailnet(n) \/ StopTailnet(n) \/ Background(n)

DnsSpec == DnsInit /\ [][DnsNext]_dnsVars
-----------------------------------------------------------------------------
Matching == [name : Name, auth : BOOLEAN, real : FQDN]

Client ==
  [at : {"idle"}]
    \cup [at : {"forwarded", "nxdomain", "empty"}, q : Query]
    \cup [at : {"matched"}, q : Query, m : Matching]
    \cup [at : {"exists"}, q : Query, m : Matching, blind : BOOLEAN]
    \cup [at : {"answered", "dialing", "proxied"}, q : Query, blind : BOOLEAN, ip : Nat,
          host : FQDN, current : BOOLEAN, via : {<<>>} \cup (Name \X FQDN)]

DnsTypeOK ==
  /\ RegTypeOK
  /\ IsFiniteSet(DOMAIN entries)
  /\ position \in [DOMAIN entries -> 1 .. Cardinality(DOMAIN entries)]
  /\ \A m, n \in DOMAIN entries : position[m] = position[n] => m = n
  /\ client \in Client

(* The inductive invariant.  An answer whose tailnet is still there has    *)
(* its address mapped to the host asked for, and so does what handle read; *)
(* a name that was denied, or matched as canonical, is under a suffix; and *)
(* a host is a peer unless it was let through without a resolver.          *)
ZonesAreConfigured ==
  \A n \in DOMAIN entries :
    entries[n].suffix \in Suffix \cup {NoZone} /\ entries[n].domain \in Domain

AnswerStands ==
  (client.at \in {"answered", "dialing", "proxied"} /\ client.current) =>
    /\ client.ip \in DOMAIN byIP /\ byIP[client.ip] = client.host
    /\ client.at # "answered" => client.via[2] = client.host

DeniedIsOurs ==
  (\/ client.at = "nxdomain"
   \/ client.at \in {"matched", "exists"} /\ client.m.auth)
  => \E s \in Suffix : Under(client.q, s)

TakenIsPeer ==
  /\ client.at = "exists" => client.blind \/ client.m.real \in Peers
  /\ client.at \in {"answered", "dialing", "proxied"} => client.blind \/ client.host \in Peers

DnsInv ==
  RegInv /\ DnsTypeOK /\ ZonesAreConfigured /\ AnswerStands /\ DeniedIsOurs /\ TakenIsPeer

(* The host a connection reaches is the one the client asked for, or the   *)
(* tailnet of the answer was removed in the meantime ("a single net.IP     *)
(* uniquely identifies both the tailnet and the original name", dns.go):   *)
(* handle looks the address up long after the answer left.                 *)
ReachesAsked ==
  client.at = "proxied" /\ client.current => client.via[2] = client.host

(* Public names keep resolving: a name under no MagicDNS suffix is never   *)
(* denied, and it is taken over only for a host that exists or before the  *)
(* tailnet has a resolver ("pi.dev must keep resolving", ServeDNS).        *)
PublicNamesKept ==
  (client.at # "idle" /\ \A s \in Suffix : ~Under(client.q, s)) =>
    /\ client.at # "nxdomain"
    /\ client.at = "answered" => client.host \in Peers \/ client.blind
=============================================================================
