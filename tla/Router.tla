------------------------------- MODULE Router -------------------------------
(***************************************************************************)
(* ts-router (cmd/ts-router): the configuration groups routes by listener  *)
(* (groupRoutes), the DNS responder answers the routed names with local_ip *)
(* (localNames, handleAddr), and a connection to a listener goes to the    *)
(* upstream of its route, by TLS server name where there are several       *)
(* (serveSNI), unless that is this machine again (pipe).                   *)
(*                                                                         *)
(* Names are model values, without a final dot; Fold lower-cases them.     *)
(* The configuration is read once: nothing here changes after the start.   *)
(***************************************************************************)
EXTENDS Naturals, FiniteSets

CONSTANTS
  RName,      \* names as configurations and clients spell them
  Fold,       \* strings.ToLower on them
  InDomain,   \* the names under the configured domain
  NoSNI,      \* a route without a server name
  Literal,    \* upstreams that are written as addresses
  Configs,    \* sets of routes [listen, sni, host] that a file may hold
  PeerIP,     \* addresses of the tailnet's peers, by canonical name
  RecordIP,   \* further A records that the tailnet's own DNS has
  LocalIP,    \* local_ip
  NoAnswer

(* Folding twice is folding once; local_ip is an address of this machine   *)
(* and no peer's.                                                          *)
ASSUME RouterAssumption ==
  /\ Fold \in [RName -> RName] /\ InDomain \subseteq RName
  /\ \A n \in RName : Fold[Fold[n]] = Fold[n]
  /\ NoSNI \notin RName
  /\ NoAnswer # LocalIP /\ \A n \in DOMAIN PeerIP : PeerIP[n] # LocalIP
  /\ Literal \subseteq RName
  /\ \A rs \in Configs : \A r \in rs : r.sni \in RName \cup {NoSNI} /\ r.host \in RName

VARIABLES
  routes,     \* the configured routes
  visit       \* what the last client asked for and got

routerVars == <<routes, visit>>
-----------------------------------------------------------------------------
Group(rs, listen) == {r \in rs : r.listen = listen}

(* groupRoutes: on one listener either a single plain route or server      *)
(* names, each once.                                                       *)
Accepted(rs) ==
  \A r, s \in rs : r # s /\ r.listen = s.listen =>
     r.sni # NoSNI /\ s.sni # NoSNI /\ r.sni # s.sni

(* localNames: what the responder answers with local_ip.                   *)
LocalName(r) == IF r.sni # NoSNI THEN r.sni ELSE r.host
LocalNames(rs) == {Fold[LocalName(r)] : r \in rs}

(* handleAddr.                                                             *)
Answer(q) ==
  IF Fold[q] \notin InDomain THEN NoAnswer
  ELSE IF Fold[q] \in LocalNames(routes) THEN LocalIP
  ELSE IF Fold[q] \in DOMAIN PeerIP THEN PeerIP[Fold[q]] ELSE NoAnswer

(* serveTCP takes every connection; serveSNI looks the server name up as   *)
(* the configuration spells it.                                            *)
Chosen(listen, sni) ==
  LET group == Group(routes, listen)
  IN IF Cardinality(group) = 1 /\ \A r \in group : r.sni = NoSNI
     THEN group ELSE {r \in group : r.sni = sni}

(* resolveUpstream takes an address as it is; for a name it asks the       *)
(* tailnet, its peers and then its DNS, and never the system resolver.     *)
(* Either may fail to answer.                                              *)
Targets(r) ==
  IF r.host \in Literal THEN {r.host}
  ELSE {NoAnswer} \cup {known[Fold[r.host]] :
                          known \in {f \in {PeerIP, RecordIP} : Fold[r.host] \in DOMAIN f}}
-----------------------------------------------------------------------------
RouterInit ==
  /\ routes \in {rs \in Configs : rs # {} /\ Accepted(rs)}
  /\ visit = [at |-> "idle"]

(* A client looks a name up and, sent to us, connects to a listener with   *)
(* the same name as its server name, in lower case as clients send it.     *)
Lookup(q) ==
  /\ visit.at = "idle"
  /\ visit' = [at |-> "answered", q |-> q, ip |-> Answer(q)]
  /\ UNCHANGED routes

Visit(listen) ==
  /\ visit.at = "answered" /\ visit.ip = LocalIP
  /\ \E r \in routes : r.listen = listen
  /\ visit' = [at |-> "connected", q |-> visit.q, listen |-> listen,
               routes |-> Chosen(listen, Fold[visit.q])]
  /\ UNCHANGED routes

(* pipe hangs up on a client without an address for it, and with local_ip. *)
Dial ==
  /\ visit.at = "connected"
  /\ \E r \in visit.routes : \E t \in Targets(r) \ {NoAnswer} :
       /\ t # LocalIP
       /\ visit' = [at |-> "dialed", q |-> visit.q, listen |-> visit.listen,
                    routes |-> visit.routes, to |-> t]
  /\ UNCHANGED routes

Leave == visit.at # "idle" /\ visit' = [at |-> "idle"] /\ UNCHANGED routes

RouterNext ==
  \/ \E q \in RName : Lookup(q)
  \/ \E r \in routes : Visit(r.listen)
  \/ Dial
  \/ Leave
-----------------------------------------------------------------------------
(* Every name the responder takes over has a listener that serves it: a    *)
(* client that is sent here by DNS is not turned away everywhere.  Server  *)
(* names that are not in lower case are excused: DNS folds them, serveSNI  *)
(* compares them as they are written.                                      *)
LowerCase(sni) == sni # NoSNI => Fold[sni] = sni

RoutedNames ==
  (visit.at = "answered" /\ visit.ip = LocalIP) =>
    \E r \in routes :
      /\ Fold[LocalName(r)] = Fold[visit.q]
      /\ LowerCase(r.sni) => Chosen(r.listen, Fold[visit.q]) = {r}

(* A connection goes to one upstream at most, the one of its name where    *)
(* names are told apart.                                                   *)
OneUpstream ==
  visit.at \in {"connected", "dialed"} =>
    /\ Cardinality(visit.routes) <= 1
    /\ \A r \in visit.routes : r.sni # NoSNI => Fold[r.sni] = Fold[visit.q]

(* No loop: a client that our DNS sent here is passed on to an address of  *)
(* its upstream, and not to the one it was given itself.                   *)
NoFeedback ==
  visit.at = "dialed" =>
    visit.to # Answer(visit.q) /\ \E r \in visit.routes : visit.to \in Targets(r)
=============================================================================
