------------------------------ MODULE Registry ------------------------------
(***************************************************************************)
(* The shared registry of the ts-multinet daemon (cmd/ts-multinet/dns.go): *)
(* one entry per started tailnet, each with an allocator over its own      *)
(* synthetic IPv4 range, and the two maps between host names and the       *)
(* synthetic addresses they were given.  The DNS responder and the hosts   *)
(* block allocate, the forwarder looks an address up to learn whom to dial *)
(*                                                                         *)
(* Every method of the code runs under registry.mu, so each is one step.   *)
(* An address is a natural number; a range is a record with its network    *)
(* address ("base") and its number of addresses ("size").                  *)
(***************************************************************************)
EXTENDS Naturals, Functions

CONSTANTS
  Name,     \* tailnet names, in the spelling the config file uses
  Lower,    \* strings.ToLower on those names
  CIDR,     \* the synthetic ranges a config may give a tailnet
  FQDN,     \* canonical host names, over all tailnets
  Zone,     \* DNS suffixes
  NoZone    \* the empty suffix: MagicDNS suffix not detected yet

ASSUME RegistryAssumption ==
  /\ Lower \in [Name -> Name]
  /\ \A n \in Name : Lower[Lower[n]] = Lower[n]
  /\ \A r \in CIDR : r.base \in Nat /\ r.size \in Nat \ {0}
  /\ NoZone \notin Zone

VARIABLES
  entries,    \* lower-case name -> entry, for the registered tailnets
  byName,     \* FQDN -> synthetic address
  byIP,       \* synthetic address -> FQDN
  cidrs,      \* the ranges of the loop guard (isSynthetic)
  resolvers   \* lower-case names that have a peer-list resolver

regVars == <<entries, byName, byIP, cidrs, resolvers>>
-----------------------------------------------------------------------------
Contains(r, ip) == r.base <= ip /\ ip < r.base + r.size

Overlap(r, s) == r.base < s.base + s.size /\ s.base < r.base + r.size

Put(f, k, v) == [x \in DOMAIN f \cup {k} |-> IF x = k THEN v ELSE f[x]]

(* isSynthetic: the forwarder refuses to dial these. *)
IsSynthetic(ip) == \E r \in cidrs : Contains(r, ip)

(* A slip: the broadcast address is handed out. *)
CanTakeOffByOne(e) == e.next < e.range.size

(* allocator.take: network and broadcast address are never handed out. *)
CanTake(e) == e.next < e.range.size - 1

NextIP(e) == e.range.base + e.next

RegInit ==
  /\ entries = [n \in {} |-> NoZone]
  /\ byName = [f \in {} |-> 0]
  /\ byIP = [ip \in {} |-> NoZone]
  /\ cidrs = {}
  /\ resolvers = {}

(* A slip: the entry is kept under the name as it is spelled. *)
AddAsSpelled(n, r, domain, suffix) ==
  /\ n \notin DOMAIN entries
  /\ entries' = Put(entries, n, [range |-> r, next |-> 1, domain |-> domain, suffix |-> suffix])
  /\ cidrs' = cidrs \cup {r}
  /\ UNCHANGED <<byName, byIP, resolvers>>

(* add: a name is registered once, in lower case; only the name is checked *)
Add(n, r, domain, suffix) ==
  /\ Lower[n] \notin DOMAIN entries
  /\ entries' = Put(entries, Lower[n],
                    [range |-> r, next |-> 1, domain |-> domain, suffix |-> suffix])
  /\ cidrs' = cidrs \cup {r}
  /\ UNCHANGED <<byName, byIP, resolvers>>

Scrubbed(r) == {ip \in DOMAIN byIP : Contains(r, ip)}

DropName(n) ==
  /\ Lower[n] \in DOMAIN entries
  /\ entries' = Restrict(entries, DOMAIN entries \ {Lower[n]})
  /\ cidrs' = cidrs \ {entries[Lower[n]].range}
  /\ resolvers' = resolvers \ {Lower[n]}

(* A slip: byName is not scrubbed. *)
RemoveKeepsNames(n) ==
  /\ DropName(n)
  /\ byIP' = Restrict(byIP, DOMAIN byIP \ Scrubbed(entries[Lower[n]].range))
  /\ UNCHANGED byName

(* A slip: neither map is scrubbed. *)
RemoveKeepsIPs(n) == DropName(n) /\ UNCHANGED <<byName, byIP>>

(* remove: the entry, its guard range, its resolver and every address in  *)
(* its range.  The names are found through byIP, as in the code.          *)
Remove(n) ==
  LET gone == Scrubbed(entries[Lower[n]].range) IN
  /\ DropName(n)
  /\ byIP' = Restrict(byIP, DOMAIN byIP \ gone)
  /\ byName' = Restrict(byName, DOMAIN byName \ {byIP[ip] : ip \in gone})

RegisterSuffix(n, zone) ==
  /\ Lower[n] \in DOMAIN entries
  /\ entries' = [entries EXCEPT ![Lower[n]].suffix = zone]
  /\ UNCHANGED <<byName, byIP, cidrs, resolvers>>

RegisterDomain(n, zone) ==
  /\ Lower[n] \in DOMAIN entries
  /\ entries' = [entries EXCEPT ![Lower[n]].domain = zone]
  /\ UNCHANGED <<byName, byIP, cidrs, resolvers>>

RegisterResolver(n) ==
  /\ resolvers' = resolvers \cup {Lower[n]}
  /\ UNCHANGED <<entries, byName, byIP, cidrs>>
-----------------------------------------------------------------------------
(* A slip: an exhausted range starts again at its first address. *)
MintRecycles(n, f) ==
  /\ n \in DOMAIN entries
  /\ LET e == IF CanTake(entries[n]) THEN entries[n] ELSE [entries[n] EXCEPT !.next = 1] IN
     /\ entries' = [entries EXCEPT ![n].next = e.next + 1]
     /\ byName' = Put(byName, f, NextIP(e))
     /\ byIP' = Put(byIP, NextIP(e), f)
  /\ UNCHANGED <<cidrs, resolvers>>

(* allocate.  A name that has an address keeps it, whichever tailnet asks; *)
(* otherwise the next address of the entry called n: entries are keyed by  *)
(* the lower-case name, and the argument is compared as it is spelled.     *)
Mint(n, f) ==
  /\ n \in DOMAIN entries
  /\ CanTake(entries[n])
  /\ entries' = [entries EXCEPT ![n].next = @ + 1]
  /\ byName' = Put(byName, f, NextIP(entries[n]))
  /\ byIP' = Put(byIP, NextIP(entries[n]), f)
  /\ UNCHANGED <<cidrs, resolvers>>

(* A slip: an address for every call. *)
AllocateAlwaysMints(n, f) == Mint(n, f)

Allocate(n, f) == f \notin DOMAIN byName /\ Mint(n, f)

(* What allocate(n, f) returns when it mints nothing. *)
AllocFails(n, f) ==
  /\ f \notin DOMAIN byName
  /\ n \in DOMAIN entries => ~CanTake(entries[n])
-----------------------------------------------------------------------------
(* checkCIDR and nextFreeCIDR: the config layer only hands the registry a  *)
(* range that overlaps no other.  add itself does not look.                *)
Unclaimed(r) == \A m \in DOMAIN entries : ~Overlap(entries[m].range, r)

Start(n) ==
  \E r \in CIDR, z \in Zone, s \in Zone \cup {NoZone} :
     Unclaimed(r) /\ Add(n, r, z, s)

RegNext ==
  \E n \in Name :
     \/ Start(n)
     \/ Remove(n)
     \/ \E z \in Zone : RegisterSuffix(n, z)
     \/ \E z \in Zone : RegisterDomain(n, z)
     \/ Lower[n] \in DOMAIN entries /\ RegisterResolver(n)
     \/ \E f \in FQDN : Allocate(n, f)

RegSpec == RegInit /\ [][RegNext]_regVars
-----------------------------------------------------------------------------
Entry == [range : CIDR, next : Nat, domain : Zone, suffix : Zone \cup {NoZone}]

RegTypeOK ==
  /\ entries \in [DOMAIN entries -> Entry]
  /\ DOMAIN entries \subseteq {Lower[n] : n \in Name}
  /\ byName \in [DOMAIN byName -> Nat]
  /\ DOMAIN byName \subseteq FQDN
  /\ byIP \in [DOMAIN byIP -> FQDN]
  /\ DOMAIN byIP \subseteq Nat
  /\ cidrs \subseteq CIDR
  /\ resolvers \subseteq {Lower[n] : n \in Name}

(* One address per name and one name per address: the comment on registry  *)
(* ("a single net.IP uniquely identifies both the tailnet and the original *)
(* name").  The forwarder dials byIP[ip], so a name and an address that    *)
(* disagree send a connection to another host.                             *)
NamesMatchIPs ==
  /\ \A f \in DOMAIN byName : byName[f] \in DOMAIN byIP /\ byIP[byName[f]] = f
  /\ \A ip \in DOMAIN byIP : byIP[ip] \in DOMAIN byName /\ byName[byIP[ip]] = ip

(* remove leaves nothing behind and touches nothing else: every address in *)
(* use lies in the range of exactly one registered tailnet and the loop    *)
(* guard knows it.                                                         *)
NoOrphanIP ==
  \A ip \in DOMAIN byIP :
    /\ \E n \in DOMAIN entries :
         /\ Contains(entries[n].range, ip)
         /\ \A m \in DOMAIN entries \ {n} : ~Contains(entries[m].range, ip)
    /\ IsSynthetic(ip)

(* A range is handed out without a gap: what allocator.next has passed is  *)
(* exactly what is mapped, so "synthetic range exhausted" is reported only *)
(* when every host address of the range names a host; the network and the  *)
(* broadcast address never do.                                             *)
NoAddressWasted ==
  \A n \in DOMAIN entries :
    LET e == entries[n] IN
    /\ \A ip \in DOMAIN byIP :
         Contains(e.range, ip) => e.range.base < ip /\ ip < NextIP(e)
    /\ \A k \in 1 .. e.next - 1 : e.range.base + k \in DOMAIN byIP
    /\ e.next >= 1
    /\ e.next > 1 => e.next < e.range.size

(* The inductive invariant: the ranges in use are disjoint, and the guard  *)
(* holds exactly those ranges.                                             *)
RangesDisjoint ==
  \A m, n \in DOMAIN entries :
     m # n => ~Overlap(entries[m].range, entries[n].range)

GuardIsRanges == cidrs = {entries[n].range : n \in DOMAIN entries}

EachIPHasOwner ==
  \A ip \in DOMAIN byIP : \E n \in DOMAIN entries : Contains(entries[n].range, ip)

RegInv ==
  /\ RegTypeOK
  /\ RangesDisjoint
  /\ GuardIsRanges
  /\ EachIPHasOwner
  /\ NamesMatchIPs
  /\ NoAddressWasted

(* While a tailnet stays registered no name of its range moves and no      *)
(* address of its range changes hands: a client that got an answer keeps   *)
(* reaching the host it asked for.                                         *)
StableWhileRegistered ==
  [][\A ip \in DOMAIN byIP :
       (\E n \in DOMAIN entries \cap DOMAIN entries' :
           Contains(entries[n].range, ip) /\ entries'[n].range = entries[n].range)
       => ip \in DOMAIN byIP' /\ byIP'[ip] = byIP[ip] /\ byName'[byIP[ip]] = ip]_regVars
=============================================================================
