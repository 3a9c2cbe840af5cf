----------------------------- MODULE UnplugProxy ----------------------------
(***************************************************************************)
(* How ts-unplug-proxy finds the host of a request (resolveAddr in         *)
(* cmd/ts-unplug-proxy/ts-unplug-proxy.go): the peers of the tailnet's     *)
(* status, by DNS name and by the host name the machine gives itself, then *)
(* the tailnet's DNS, then tsnet's own dial with the name as it is.        *)
(*                                                                         *)
(* A name is a sequence of labels, in lower case and without a final dot   *)
(* (dnsMapKey).  The status has one record per machine: the tailnet's own, *)
(* this one included, and those under other suffixes, shared into the      *)
(* tailnet or exit nodes of a provider.  Only names are resolved here; an  *)
(* address is dialed as given.                                             *)
(***************************************************************************)
EXTENDS Naturals, SequencesExt

CONSTANTS
  Machine,    \* [dns, host, ip]: DNS name and host name of possible machines
  PSuffix,    \* the MagicDNS suffix
  TsNet,      \* the zone ts.net
  Wanted,     \* the names requests ask for
  DNSAnswer   \* what QueryDNS may bring: addresses, {} for an empty answer

Refused == "refused"
Original == "original"      \* tsnet dials the name as it is

(* A machine's DNS name is a label in a zone: one label under the tailnet's*)
(* suffix, which is a name below ts.net or anywhere else, or a name in     *)
(* some other zone.  What it calls itself is any name or none.             *)
ASSUME ProxyAssumption ==
  /\ PSuffix \in Seq(STRING) \ {<<>>, TsNet} /\ TsNet \in Seq(STRING)
  /\ Wanted \subseteq Seq(STRING) \ {<<>>}
  /\ \A m \in Machine :
       /\ m.dns \in Seq(STRING) /\ Len(m.dns) > 1
       /\ IsSuffix(PSuffix, m.dns) /\ m.dns # PSuffix => Len(m.dns) = 1 + Len(PSuffix)
       /\ m.host \in Seq(STRING)
       /\ m.ip # Original
  /\ \A answer \in DNSAnswer : Original \notin answer

VARIABLES
  machines,   \* the machines of the tailnet now
  request     \* the request being resolved

proxyVars == <<machines, request>>
-----------------------------------------------------------------------------
In(zone, name) == IsSuffix(zone, name)
Below(zone, name) == In(zone, name) /\ name # zone
ShortOf(name, zone) == SubSeq(name, 1, Len(name) - Len(zone))

Shorts(names) == {ShortOf(n, PSuffix) : n \in {x \in names : Below(PSuffix, x)}}

(* One pass of peerDNSNames: for each name what is left of it without the  *)
(* suffix or, of one elsewhere, the machine's host name under it.          *)
Spellings(m, names) ==
  names \cup Shorts(names)
        \cup {m.host \o PSuffix : n \in {x \in names : m.host # <<>> /\ ~Below(PSuffix, x)}}

(* A slip: the DNS name is left out. *)
PeerHostNames(m) == Spellings(m, Spellings(m, {m.host} \ {<<>>}))

(* peerDNSNames: both names, and a pass for each of the two fields of the  *)
(* status that hold the suffix.                                            *)
PeerDNSNames(m) == Spellings(m, Spellings(m, {m.dns, m.host} \ {<<>>}))

(* lookupMagicDNS.                                                         *)
Matching(status, h) == {m \in status : h \in PeerDNSNames(m)}

(* isStrictTailnetHost: a bare name, or one under the suffix if known, or  *)
(* under ts.net.                                                           *)
Strict(known, h) ==
  \/ Len(h) = 1
  \/ known /\ In(PSuffix, h)
  \/ Below(TsNet, h)

(* resolveAddr, the status: it may be unavailable, which leaves no peer    *)
(* and no suffix.                                                          *)
Ask(h) ==
  /\ request.at = "idle"
  /\ \E known \in BOOLEAN :
       request' = [at |-> "asked", host |-> h, known |-> known,
                   status |-> IF known THEN machines ELSE {}]
  /\ UNCHANGED machines

(* The first of the addresses: peers come out of a map, after the machine  *)
(* itself, which may be any of them; so any that matches, and DNS only     *)
(* when no peer matches.  Without an address, a tailnet name is refused    *)
(* and another one left to tsnet.                                          *)
Addresses(status, known, h) ==
  LET peers == Matching(status, h) IN
  IF peers # {} THEN {m.ip : m \in peers}
  ELSE UNION {IF answer # {} THEN answer
              ELSE {IF Strict(known, h) THEN Refused ELSE Original} : answer \in DNSAnswer}

Resolve ==
  /\ request.at = "asked"
  /\ \E t \in Addresses(request.status, request.known, request.host) :
       request' = [at |-> "dialed", host |-> request.host, known |-> request.known,
                   status |-> request.status, dial |-> t]
  /\ UNCHANGED machines

Finish == request.at = "dialed" /\ request' = [at |-> "idle"] /\ UNCHANGED machines

(* A machine joins under a DNS name nobody has, or leaves.                 *)
Join(m) ==
  /\ \A x \in machines : x.dns # m.dns /\ x.ip # m.ip
  /\ machines' = machines \cup {m}
  /\ UNCHANGED request

Part(m) == machines' = machines \ {m} /\ UNCHANGED request

ProxyInit == machines = {} /\ request = [at |-> "idle"]

ProxyNext ==
  \/ \E h \in Wanted : Ask(h)
  \/ Resolve \/ Finish
  \/ \E m \in Machine \ machines : Join(m)
  \/ \E m \in machines : Part(m)
-----------------------------------------------------------------------------
(* The names that the tailnet's DNS gives a machine, and those that follow *)
(* from what it calls itself.                                              *)
TrueNames(m) == {m.dns} \cup Shorts({m.dns})

OwnNames(m) ==
  IF m.host = <<>> THEN {}
  ELSE {m.host, m.host \o PSuffix} \cup Shorts({m.host}) \cup Shorts(Shorts({m.host}))

(* A request for the DNS name of a machine is dialed at that machine       *)
(* ("Resolves MagicDNS peer names from Tailscale status, including short   *)
(* names", docs/ts-unplug-proxy.md), unless another one calls itself so:   *)
(* of two machines with one host name the proxy takes either, although     *)
(* their DNS names differ, and a machine of another tailnet is taken by    *)
(* its host name under the own suffix.                                     *)
RightMachine ==
  request.at = "dialed" =>
    \A m \in request.status :
      (/\ request.host \in TrueNames(m)
       /\ \A x \in request.status \ {m} : request.host \notin OwnNames(x))
      => request.dial = m.ip

(* A name of the tailnet never leaves it: it is not dialed as it is, which *)
(* would ask the system's DNS, except that a suffix outside ts.net is only *)
(* known while the status is.                                              *)
StrictStays ==
  (request.at = "dialed" /\ request.dial = Original) =>
    /\ Len(request.host) > 1
    /\ In(PSuffix, request.host) => ~request.known /\ ~In(TsNet, PSuffix)
=============================================================================
