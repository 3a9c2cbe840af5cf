--------------------------- MODULE RegistryProofs ---------------------------
(***************************************************************************)
(* Theorems about the registry, for any set of names, ranges and hosts.    *)
(***************************************************************************)
EXTENDS Registry, TLAPS

(* A range that starts at a natural number holds only natural numbers, and *)
(* two ranges that share an address overlap.                               *)
LEMMA SharedAddressOverlaps ==
  ASSUME NEW r \in CIDR, NEW s \in CIDR, NEW ip \in Nat,
         Contains(r, ip), Contains(s, ip)
  PROVE  Overlap(r, s)
  BY RegistryAssumption DEF Contains, Overlap

LEMMA OverlapSymmetric ==
  ASSUME NEW r, NEW s, Overlap(r, s)
  PROVE  Overlap(s, r)
  BY DEF Overlap

(* A range overlaps itself. *)
LEMMA OverlapReflexive ==
  ASSUME NEW r \in CIDR
  PROVE  Overlap(r, r)
  BY RegistryAssumption DEF Overlap

(* The address an allocator hands out lies strictly inside its range and   *)
(* was never handed out before.                                            *)
LEMMA NextIPIsFresh ==
  ASSUME RegInv, NEW n \in DOMAIN entries, CanTake(entries[n])
  PROVE  /\ NextIP(entries[n]) \in Nat
         /\ Contains(entries[n].range, NextIP(entries[n]))
         /\ NextIP(entries[n]) \notin DOMAIN byIP
  <1>1. entries[n] \in Entry /\ entries[n].range \in CIDR /\ entries[n].next \in Nat
    BY DEF RegInv, RegTypeOK, Entry
  <1>2. entries[n].range.base \in Nat /\ entries[n].range.size \in Nat \ {0}
    BY <1>1, RegistryAssumption
  <1>3. NextIP(entries[n]) \in Nat /\ Contains(entries[n].range, NextIP(entries[n]))
    BY <1>1, <1>2 DEF NextIP, Contains, CanTake
  <1>4. NextIP(entries[n]) \notin DOMAIN byIP
    BY <1>1, <1>2, <1>3 DEF RegInv, NoAddressWasted, NextIP
  <1>. QED BY <1>3, <1>4

(* Type correctness, alone. *)
LEMMA RegTypeStep ==
  ASSUME RegTypeOK, [RegNext]_regVars
  PROVE  RegTypeOK'
  <1>. USE RegistryAssumption
  <1>1. ASSUME NEW n \in Name, Start(n) PROVE RegTypeOK'
    BY <1>1 DEF Start, Add, Put, RegTypeOK, Entry
  <1>2. ASSUME NEW n \in Name, Remove(n) PROVE RegTypeOK'
    BY <1>2 DEF Remove, DropName, Restrict, RegTypeOK, Entry
  <1>3. ASSUME NEW n \in Name, NEW z \in Zone, RegisterSuffix(n, z) PROVE RegTypeOK'
    BY <1>3 DEF RegisterSuffix, RegTypeOK, Entry
  <1>4. ASSUME NEW n \in Name, NEW z \in Zone, RegisterDomain(n, z) PROVE RegTypeOK'
    <2>1. /\ Lower[n] \in DOMAIN entries
          /\ entries' = [entries EXCEPT ![Lower[n]] = [@ EXCEPT !.domain = z]]
          /\ UNCHANGED <<byName, byIP, cidrs, resolvers>>
      BY <1>4 DEF RegisterDomain
    <2>2. [entries[Lower[n]] EXCEPT !.domain = z] \in Entry
      BY <2>1 DEF RegTypeOK, Entry
    <2>. QED
      BY <2>1, <2>2 DEF RegTypeOK
  <1>5. ASSUME NEW n \in Name, RegisterResolver(n) PROVE RegTypeOK'
    BY <1>5 DEF RegisterResolver, RegTypeOK
  <1>6. ASSUME NEW n \in Name, NEW f \in FQDN, Allocate(n, f) PROVE RegTypeOK'
    <2>1. entries[n] \in Entry /\ entries[n].range.base \in Nat /\ entries[n].next \in Nat
      BY <1>6 DEF Allocate, Mint, RegTypeOK, Entry
    <2>2. NextIP(entries[n]) \in Nat
      BY <2>1 DEF NextIP
    <2>3. entries' \in [DOMAIN entries' -> Entry] /\ DOMAIN entries' = DOMAIN entries
      BY <1>6, <2>1 DEF Allocate, Mint, RegTypeOK, Entry
    <2>4. byName' \in [DOMAIN byName' -> Nat] /\ DOMAIN byName' \subseteq FQDN
      BY <1>6, <2>2 DEF Allocate, Mint, Put, RegTypeOK
    <2>5. byIP' \in [DOMAIN byIP' -> FQDN] /\ DOMAIN byIP' \subseteq Nat
      BY <1>6, <2>2 DEF Allocate, Mint, Put, RegTypeOK
    <2>. QED BY <1>6, <2>3, <2>4, <2>5 DEF Allocate, Mint, RegTypeOK
  <1>7. CASE UNCHANGED regVars
    BY <1>7 DEF regVars, RegTypeOK
  <1>. QED BY <1>1, <1>2, <1>3, <1>4, <1>5, <1>6, <1>7 DEF RegNext

(* The registry stays well typed under every operation. *)
THEOREM RegistryTypeCorrect == RegSpec => []RegTypeOK
  <1>1. RegInit => RegTypeOK
    BY DEF RegInit, RegTypeOK
  <1>2. RegTypeOK /\ [RegNext]_regVars => RegTypeOK'
    BY RegTypeStep
  <1>. QED BY <1>1, <1>2, PTL DEF RegSpec
-----------------------------------------------------------------------------
(* Starting a tailnet on a free range keeps the invariant: nothing is      *)
(* mapped in a range no tailnet had.                                       *)
LEMMA StartKeepsInv ==
  ASSUME RegInv, RegTypeOK', NEW n \in Name, Start(n)
  PROVE  RegInv'
  <1>1. PICK r \in CIDR, z \in Zone, s \in Zone \cup {NoZone} :
               Unclaimed(r) /\ Add(n, r, z, s)
    BY DEF Start
  <1>. DEFINE k == Lower[n]
  <1>2. /\ k \notin DOMAIN entries
        /\ DOMAIN entries' = DOMAIN entries \cup {k}
        /\ \A m \in DOMAIN entries : entries'[m] = entries[m]
        /\ entries'[k].range = r /\ entries'[k].next = 1
        /\ cidrs' = cidrs \cup {r}
        /\ byName' = byName /\ byIP' = byIP
    BY <1>1 DEF Add, Put
  <1>3. \A m \in DOMAIN entries : entries[m].range \in CIDR
    BY DEF RegInv, RegTypeOK, Entry
  <1>4. RangesDisjoint'
    <2>. SUFFICES ASSUME NEW i \in DOMAIN entries', NEW j \in DOMAIN entries', i # j
                  PROVE  ~Overlap(entries'[i].range, entries'[j].range)
      BY DEF RangesDisjoint
    <2>1. CASE i # k /\ j # k
      BY <1>2, <2>1 DEF RegInv, RangesDisjoint
    <2>2. CASE j = k
      BY <1>1, <1>2, <2>2 DEF Unclaimed
    <2>3. CASE i = k
      BY <1>1, <1>2, <2>3, OverlapSymmetric DEF Unclaimed
    <2>. QED BY <2>1, <2>2, <2>3
  <1>5. GuardIsRanges'
    BY <1>2 DEF RegInv, GuardIsRanges
  <1>6. EachIPHasOwner'
    BY <1>2 DEF RegInv, EachIPHasOwner
  <1>7. NamesMatchIPs'
    BY <1>2 DEF RegInv, NamesMatchIPs
  <1>8. NoAddressWasted'
    <2>. SUFFICES ASSUME NEW m \in DOMAIN entries'
                  PROVE  /\ \A ip \in DOMAIN byIP : Contains(entries'[m].range, ip) =>
                              entries'[m].range.base < ip /\ ip < NextIP(entries'[m])
                         /\ \A x \in 1 .. entries'[m].next - 1 :
                              entries'[m].range.base + x \in DOMAIN byIP
                         /\ entries'[m].next >= 1
                         /\ entries'[m].next > 1 => entries'[m].next < entries'[m].range.size
      BY <1>2 DEF NoAddressWasted, NextIP
    <2>1. CASE m # k
      BY <1>2, <2>1 DEF RegInv, NoAddressWasted
    <2>2. CASE m = k
      <3>1. ASSUME NEW ip \in DOMAIN byIP, Contains(r, ip) PROVE FALSE
        <4>1. PICK o \in DOMAIN entries : Contains(entries[o].range, ip)
          BY DEF RegInv, EachIPHasOwner
        <4>2. ip \in Nat
          BY DEF RegInv, RegTypeOK
        <4>3. Overlap(entries[o].range, r)
          BY <1>3, <3>1, <4>1, <4>2, SharedAddressOverlaps
        <4>. QED BY <1>1, <4>3 DEF Unclaimed
      <3>. QED BY <1>2, <2>2, <3>1
    <2>. QED BY <2>1, <2>2
  <1>. QED BY <1>4, <1>5, <1>6, <1>7, <1>8 DEF RegInv

(* Removing a tailnet keeps the invariant: the scrubbed addresses and the  *)
(* scrubbed names are each other's, and no other tailnet's.                *)
LEMMA RemoveKeepsInv ==
  ASSUME RegInv, RegTypeOK', NEW n \in Name, Remove(n)
  PROVE  RegInv'
  <1>. DEFINE k == Lower[n]
              r == entries[k].range
              gone == Scrubbed(r)
  <1>1. /\ k \in DOMAIN entries
        /\ DOMAIN entries' = DOMAIN entries \ {k}
        /\ \A m \in DOMAIN entries' : entries'[m] = entries[m]
        /\ cidrs' = cidrs \ {r}
    BY DEF Remove, DropName, Restrict
  <1>2. /\ DOMAIN byIP' = DOMAIN byIP \ gone
        /\ \A ip \in DOMAIN byIP' : byIP'[ip] = byIP[ip]
        /\ DOMAIN byName' = DOMAIN byName \ {byIP[ip] : ip \in gone}
        /\ \A f \in DOMAIN byName' : byName'[f] = byName[f]
    BY DEF Remove, Restrict
  <1>3. \A m \in DOMAIN entries : entries[m].range \in CIDR
    BY DEF RegInv, RegTypeOK, Entry
  <1>4. \A ip \in DOMAIN byIP : ip \in Nat
    BY DEF RegInv, RegTypeOK
  <1>5. RangesDisjoint'
    BY <1>1 DEF RegInv, RangesDisjoint
  <1>6. GuardIsRanges'
    <2>1. \A m \in DOMAIN entries : m # k => entries[m].range # r
      BY <1>1, <1>3, OverlapReflexive DEF RegInv, RangesDisjoint
    <2>. QED BY <1>1, <2>1 DEF RegInv, GuardIsRanges
  <1>7. EachIPHasOwner'
    <2>. SUFFICES ASSUME NEW ip \in DOMAIN byIP'
                  PROVE  \E m \in DOMAIN entries' : Contains(entries'[m].range, ip)
      BY DEF EachIPHasOwner
    <2>1. ip \in DOMAIN byIP /\ ~Contains(r, ip)
      BY <1>2 DEF Scrubbed
    <2>2. PICK m \in DOMAIN entries : Contains(entries[m].range, ip)
      BY <2>1 DEF RegInv, EachIPHasOwner
    <2>. QED BY <1>1, <2>1, <2>2
  <1>8. NamesMatchIPs'
    <2>1. ASSUME NEW f \in DOMAIN byName'
          PROVE  byName'[f] \in DOMAIN byIP' /\ byIP'[byName'[f]] = f
      <3>1. f \in DOMAIN byName /\ byName'[f] = byName[f]
        BY <1>2
      <3>2. byName[f] \in DOMAIN byIP /\ byIP[byName[f]] = f
        BY <3>1 DEF RegInv, NamesMatchIPs
      <3>3. byName[f] \notin gone
        BY <1>2, <3>2
      <3>. QED BY <1>2, <3>1, <3>2, <3>3
    <2>2. ASSUME NEW ip \in DOMAIN byIP'
          PROVE  byIP'[ip] \in DOMAIN byName' /\ byName'[byIP'[ip]] = ip
      <3>1. ip \in DOMAIN byIP /\ ip \notin gone /\ byIP'[ip] = byIP[ip]
        BY <1>2
      <3>2. byIP[ip] \in DOMAIN byName /\ byName[byIP[ip]] = ip
        BY <3>1 DEF RegInv, NamesMatchIPs
      <3>3. ASSUME NEW x \in gone, byIP[x] = byIP[ip] PROVE FALSE
        <4>1. x \in DOMAIN byIP
          BY DEF Scrubbed
        <4>2. byName[byIP[x]] = x
          BY <4>1 DEF RegInv, NamesMatchIPs
        <4>. QED BY <3>1, <3>2, <3>3, <4>2
      <3>. QED BY <1>2, <3>1, <3>2, <3>3
    <2>. QED BY <2>1, <2>2 DEF NamesMatchIPs
  <1>9. NoAddressWasted'
    <2>. SUFFICES ASSUME NEW m \in DOMAIN entries'
                  PROVE  /\ \A ip \in DOMAIN byIP' : Contains(entries[m].range, ip) =>
                              entries[m].range.base < ip /\ ip < NextIP(entries[m])
                         /\ \A x \in 1 .. entries[m].next - 1 :
                              entries[m].range.base + x \in DOMAIN byIP'
                         /\ entries[m].next >= 1
                         /\ entries[m].next > 1 => entries[m].next < entries[m].range.size
      BY <1>1 DEF NoAddressWasted, NextIP
    <2>1. m \in DOMAIN entries /\ m # k
      BY <1>1
    <2>2. entries[m].range.base \in Nat /\ entries[m].range.size \in Nat \ {0} /\ entries[m].next \in Nat
      BY <1>3, <2>1, RegistryAssumption DEF RegInv, RegTypeOK, Entry
    <2>3. ASSUME NEW x \in 1 .. entries[m].next - 1
          PROVE  entries[m].range.base + x \in DOMAIN byIP'
      <3>1. entries[m].range.base + x \in DOMAIN byIP
        BY <2>1 DEF RegInv, NoAddressWasted
      <3>2. x \in Nat /\ 0 < x /\ x < entries[m].range.size
        BY <2>1, <2>2 DEF RegInv, NoAddressWasted
      <3>3. Contains(entries[m].range, entries[m].range.base + x)
        BY <2>2, <3>2 DEF Contains
      <3>4. ~Contains(r, entries[m].range.base + x)
        BY <1>1, <1>3, <1>4, <2>1, <3>1, <3>3, SharedAddressOverlaps DEF RegInv, RangesDisjoint
      <3>. QED BY <1>2, <3>1, <3>4 DEF Scrubbed
    <2>. QED BY <1>2, <2>1, <2>3 DEF RegInv, NoAddressWasted
  <1>. QED BY <1>5, <1>6, <1>7, <1>8, <1>9 DEF RegInv

(* Allocating keeps the invariant: the new address is the next of its      *)
(* range, and it is fresh.                                                 *)
LEMMA AllocateKeepsInv ==
  ASSUME RegInv, RegTypeOK', NEW n \in Name, NEW f \in FQDN, Allocate(n, f)
  PROVE  RegInv'
  <1>. DEFINE e == entries[n]
              ip0 == NextIP(e)
  <1>1. /\ f \notin DOMAIN byName /\ n \in DOMAIN entries /\ CanTake(e)
        /\ entries' = [entries EXCEPT ![n].next = @ + 1]
        /\ byName' = Put(byName, f, ip0)
        /\ byIP' = Put(byIP, ip0, f)
        /\ cidrs' = cidrs
    BY DEF Allocate, Mint
  <1>2. ip0 \in Nat /\ Contains(e.range, ip0) /\ ip0 \notin DOMAIN byIP
    BY <1>1, NextIPIsFresh
  <1>3. \A m \in DOMAIN entries : /\ entries[m] \in Entry
                                  /\ entries[m].range.base \in Nat
                                  /\ entries[m].range.size \in Nat \ {0}
                                  /\ entries[m].next \in Nat
    BY RegistryAssumption DEF RegInv, RegTypeOK, Entry
  <1>4. /\ DOMAIN entries' = DOMAIN entries
        /\ \A m \in DOMAIN entries : entries'[m].range = entries[m].range
        /\ \A m \in DOMAIN entries : m # n => entries'[m].next = entries[m].next
        /\ entries'[n].next = e.next + 1
    BY <1>1, <1>3 DEF Entry
  <1>5. DOMAIN byIP' = DOMAIN byIP \cup {ip0} /\ byIP'[ip0] = f
    BY <1>1 DEF Put
  <1>6. \A ip \in DOMAIN byIP : byIP'[ip] = byIP[ip]
    BY <1>1, <1>2 DEF Put
  <1>7. /\ DOMAIN byName' = DOMAIN byName \cup {f} /\ byName'[f] = ip0
        /\ \A g \in DOMAIN byName : byName'[g] = byName[g]
    BY <1>1 DEF Put
  <1>8. RangesDisjoint'
    BY <1>4 DEF RegInv, RangesDisjoint
  <1>9. GuardIsRanges'
    BY <1>1, <1>4 DEF RegInv, GuardIsRanges
  <1>10. EachIPHasOwner'
    BY <1>1, <1>2, <1>4, <1>5 DEF RegInv, EachIPHasOwner
  <1>11. NamesMatchIPs'
    BY <1>1, <1>2, <1>5, <1>6, <1>7 DEF RegInv, NamesMatchIPs
  <1>12. NoAddressWasted'
    <2>. SUFFICES ASSUME NEW m \in DOMAIN entries
                  PROVE  /\ \A ip \in DOMAIN byIP' : Contains(entries[m].range, ip) =>
                              entries[m].range.base < ip /\ ip < NextIP(entries'[m])
                         /\ \A x \in 1 .. entries'[m].next - 1 :
                              entries[m].range.base + x \in DOMAIN byIP'
                         /\ entries'[m].next >= 1
                         /\ entries'[m].next > 1 => entries'[m].next < entries[m].range.size
      BY <1>4 DEF NoAddressWasted, NextIP
    <2>1. CASE m # n
      <3>1. ~Contains(entries[m].range, ip0)
        <4>1. entries[m].range \in CIDR /\ e.range \in CIDR
          BY <1>1, <1>3 DEF Entry
        <4>. QED BY <1>1, <1>2, <2>1, <4>1, SharedAddressOverlaps DEF RegInv, RangesDisjoint
      <3>2. NextIP(entries'[m]) = NextIP(entries[m]) /\ entries'[m].next = entries[m].next
        BY <1>4, <2>1 DEF NextIP
      <3>. QED BY <1>5, <3>1, <3>2 DEF RegInv, NoAddressWasted
    <2>2. CASE m = n
      <3>1. NextIP(entries'[n]) = ip0 + 1 /\ e.range.base < ip0 + 1
        <4>1. /\ e.range.base \in Nat /\ e.next \in Nat
              /\ entries'[n].range = e.range /\ entries'[n].next = e.next + 1
          BY <1>1, <1>3, <1>4
        <4>2. NextIP(entries'[n]) = e.range.base + (e.next + 1) /\ ip0 = e.range.base + e.next
          BY <4>1 DEF NextIP
        <4>. HIDE DEF ip0, e
        <4>. QED BY <4>1, <4>2
      <3>2. ASSUME NEW ip \in DOMAIN byIP', Contains(e.range, ip)
            PROVE  e.range.base < ip /\ ip < ip0 + 1
        <4>1. CASE ip = ip0
          <5>1. e.next >= 1
            BY <1>1 DEF RegInv, NoAddressWasted
          <5>. QED BY <1>1, <1>3, <4>1, <5>1 DEF NextIP
        <4>2. CASE ip \in DOMAIN byIP
          <5>1. ip \in Nat /\ e.range.base < ip /\ ip < ip0
            BY <1>1, <3>2, <4>2 DEF RegInv, NoAddressWasted, RegTypeOK
          <5>. QED BY <1>2, <5>1
        <4>. QED BY <1>5, <4>1, <4>2
      <3>3. ASSUME NEW x \in 1 .. e.next PROVE e.range.base + x \in DOMAIN byIP'
        <4>1. CASE x = e.next
          BY <1>5, <4>1 DEF NextIP
        <4>2. CASE x # e.next
          <5>1. x \in 1 .. e.next - 1
            BY <1>1, <1>3, <4>2
          <5>. QED BY <1>1, <1>5, <5>1 DEF RegInv, NoAddressWasted
        <4>. QED BY <4>1, <4>2
      <3>4. e.next + 1 >= 1 /\ e.next + 1 < e.range.size
        BY <1>1, <1>3 DEF CanTake
      <3>5. 1 .. entries'[n].next - 1 = 1 .. e.next
        BY <1>1, <1>3, <1>4
      <3>. QED BY <1>4, <2>2, <3>1, <3>2, <3>3, <3>4, <3>5
    <2>. QED BY <2>1, <2>2
  <1>. QED BY <1>8, <1>9, <1>10, <1>11, <1>12 DEF RegInv

(* The remaining operations leave addresses, ranges and allocators alone.  *)
LEMMA RelabelKeepsInv ==
  ASSUME RegInv, RegTypeOK',
         DOMAIN entries' = DOMAIN entries,
         \A m \in DOMAIN entries : /\ entries'[m].range = entries[m].range
                                   /\ entries'[m].next = entries[m].next,
         UNCHANGED <<byName, byIP, cidrs>>
  PROVE  RegInv'
  <1>1. RangesDisjoint'
    BY DEF RegInv, RangesDisjoint
  <1>2. GuardIsRanges'
    BY DEF RegInv, GuardIsRanges
  <1>3. EachIPHasOwner'
    BY DEF RegInv, EachIPHasOwner
  <1>4. NamesMatchIPs'
    BY DEF RegInv, NamesMatchIPs
  <1>5. NoAddressWasted'
    BY DEF RegInv, NoAddressWasted, NextIP
  <1>. QED BY <1>1, <1>2, <1>3, <1>4, <1>5 DEF RegInv

(* The inductive invariant is inductive. *)
LEMMA RegInvStep ==
  ASSUME RegInv, [RegNext]_regVars
  PROVE  RegInv'
  <1>1. RegTypeOK'
    BY RegTypeStep DEF RegInv
  <1>2. ASSUME NEW n \in Name, Start(n) PROVE RegInv'
    BY <1>1, <1>2, StartKeepsInv
  <1>3. ASSUME NEW n \in Name, Remove(n) PROVE RegInv'
    BY <1>1, <1>3, RemoveKeepsInv
  <1>4. ASSUME NEW n \in Name, NEW z \in Zone, RegisterSuffix(n, z) PROVE RegInv'
    <2>1. /\ DOMAIN entries' = DOMAIN entries
          /\ \A m \in DOMAIN entries : /\ entries'[m].range = entries[m].range
                                        /\ entries'[m].next = entries[m].next
          /\ UNCHANGED <<byName, byIP, cidrs>>
      BY <1>4 DEF RegisterSuffix, RegInv, RegTypeOK, Entry
    <2>. QED BY <1>1, <2>1, RelabelKeepsInv
  <1>5. ASSUME NEW n \in Name, NEW z \in Zone, RegisterDomain(n, z) PROVE RegInv'
    <2>1. /\ DOMAIN entries' = DOMAIN entries
          /\ \A m \in DOMAIN entries : /\ entries'[m].range = entries[m].range
                                        /\ entries'[m].next = entries[m].next
          /\ UNCHANGED <<byName, byIP, cidrs>>
      BY <1>5 DEF RegisterDomain, RegInv, RegTypeOK, Entry
    <2>. QED BY <1>1, <2>1, RelabelKeepsInv
  <1>6. ASSUME NEW n \in Name, RegisterResolver(n) PROVE RegInv'
    BY <1>1, <1>6, RelabelKeepsInv DEF RegisterResolver
  <1>7. ASSUME NEW n \in Name, NEW f \in FQDN, Allocate(n, f) PROVE RegInv'
    BY <1>1, <1>7, AllocateKeepsInv
  <1>8. CASE UNCHANGED regVars
    BY <1>1, <1>8, RelabelKeepsInv DEF regVars
  <1>. QED BY <1>2, <1>3, <1>4, <1>5, <1>6, <1>7, <1>8 DEF RegNext

(* The invariant holds in every reachable state. *)
LEMMA RegInvAlways == RegSpec => []RegInv
  <1>1. RegInit => RegInv
    BY DEF RegInit, RegInv, RegTypeOK, RangesDisjoint, GuardIsRanges,
           EachIPHasOwner, NamesMatchIPs, NoAddressWasted
  <1>2. RegInv /\ [RegNext]_regVars => RegInv'
    BY RegInvStep
  <1>. QED BY <1>1, <1>2, PTL DEF RegSpec

(* A name and its synthetic address name each other, always: the forwarder *)
(* dials the host the DNS answer was for.                                  *)
THEOREM RegistryNamesMatchIPs == RegSpec => []NamesMatchIPs
  <1>1. RegInv => NamesMatchIPs
    BY DEF RegInv
  <1>. QED BY <1>1, RegInvAlways, PTL

(* A range never loses an address: exhaustion means every host address of  *)
(* the range is mapped.                                                    *)
THEOREM RegistryNoAddressWasted == RegSpec => []NoAddressWasted
  <1>1. RegInv => NoAddressWasted
    BY DEF RegInv
  <1>. QED BY <1>1, RegInvAlways, PTL

(* Every address in use belongs to exactly one registered tailnet and is   *)
(* known to the loop guard.                                                *)
THEOREM RegistryNoOrphanIP == RegSpec => []NoOrphanIP
  <1>1. RegInv => NoOrphanIP
    <2>. SUFFICES ASSUME RegInv, NEW ip \in DOMAIN byIP
                  PROVE  /\ \E n \in DOMAIN entries :
                              /\ Contains(entries[n].range, ip)
                              /\ \A m \in DOMAIN entries \ {n} : ~Contains(entries[m].range, ip)
                         /\ IsSynthetic(ip)
      BY DEF NoOrphanIP
    <2>1. PICK n \in DOMAIN entries : Contains(entries[n].range, ip)
      BY DEF RegInv, EachIPHasOwner
    <2>2. ip \in Nat /\ \A m \in DOMAIN entries : entries[m].range \in CIDR
      BY DEF RegInv, RegTypeOK, Entry
    <2>3. ASSUME NEW m \in DOMAIN entries \ {n} PROVE ~Contains(entries[m].range, ip)
      BY <2>1, <2>2, SharedAddressOverlaps DEF RegInv, RangesDisjoint
    <2>4. IsSynthetic(ip)
      BY <2>1 DEF RegInv, GuardIsRanges, IsSynthetic
    <2>. QED BY <2>1, <2>3, <2>4
  <1>. QED BY <1>1, RegInvAlways, PTL

(* An address never changes hands while its tailnet stays registered.      *)
THEOREM RegistryStable == RegSpec => StableWhileRegistered
  <1>. DEFINE Stable ==
         \A ip \in DOMAIN byIP :
           (\E n \in DOMAIN entries \cap DOMAIN entries' :
               Contains(entries[n].range, ip) /\ entries'[n].range = entries[n].range)
           => ip \in DOMAIN byIP' /\ byIP'[ip] = byIP[ip] /\ byName'[byIP[ip]] = ip
  <1>1. ASSUME RegInv, RegNext PROVE Stable
    <2>. SUFFICES ASSUME NEW ip \in DOMAIN byIP, NEW n \in DOMAIN entries \cap DOMAIN entries',
                         Contains(entries[n].range, ip), entries'[n].range = entries[n].range
                  PROVE  ip \in DOMAIN byIP' /\ byIP'[ip] = byIP[ip] /\ byName'[byIP[ip]] = ip
      OBVIOUS
    <2>1. byIP[ip] \in DOMAIN byName /\ byName[byIP[ip]] = ip
      BY <1>1 DEF RegInv, NamesMatchIPs
    <2>2. RegInv'
      BY <1>1, RegInvStep
    <2>3. SUFFICES ip \in DOMAIN byIP' /\ byIP'[ip] = byIP[ip]
      BY <2>2, <2>3 DEF RegInv, NamesMatchIPs
    <2>4. ASSUME NEW m \in Name, Remove(m) PROVE ip \in DOMAIN byIP' /\ byIP'[ip] = byIP[ip]
      <3>1. Lower[m] \in DOMAIN entries /\ n # Lower[m]
        BY <2>4 DEF Remove, DropName, Restrict
      <3>2. ~Contains(entries[Lower[m]].range, ip)
        <4>1. ip \in Nat /\ \A k \in DOMAIN entries : entries[k].range \in CIDR
          BY <1>1 DEF RegInv, RegTypeOK, Entry
        <4>. QED BY <1>1, <3>1, <4>1, SharedAddressOverlaps DEF RegInv, RangesDisjoint
      <3>. QED BY <2>4, <3>2 DEF Remove, Restrict, Scrubbed
    <2>5. ASSUME NEW m \in Name, NEW f \in FQDN, Allocate(m, f)
          PROVE  ip \in DOMAIN byIP' /\ byIP'[ip] = byIP[ip]
      <3>1. m \in DOMAIN entries /\ CanTake(entries[m]) /\ byIP' = Put(byIP, NextIP(entries[m]), f)
        BY <2>5 DEF Allocate, Mint
      <3>2. NextIP(entries[m]) \notin DOMAIN byIP
        BY <1>1, <3>1, NextIPIsFresh
      <3>. QED BY <3>1, <3>2 DEF Put
    <2>6. ASSUME NEW m \in Name, Start(m) PROVE byIP' = byIP
      BY <2>6 DEF Start, Add
    <2>7. ASSUME NEW m \in Name, NEW z \in Zone, RegisterSuffix(m, z) \/ RegisterDomain(m, z)
          PROVE  byIP' = byIP
      BY <2>7 DEF RegisterSuffix, RegisterDomain
    <2>8. ASSUME NEW m \in Name, RegisterResolver(m) PROVE byIP' = byIP
      BY <2>8 DEF RegisterResolver
    <2>. QED BY <1>1, <2>4, <2>5, <2>6, <2>7, <2>8 DEF RegNext
  <1>2. RegInv /\ [RegNext]_regVars => [Stable]_regVars
    BY <1>1
  <1>. QED BY <1>2, RegInvAlways, PTL DEF RegSpec, StableWhileRegistered
=============================================================================
