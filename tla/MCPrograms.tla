----------------------------- MODULE MCPrograms -----------------------------
(***************************************************************************)
(* The small inputs with which TLC checks module Programs.                 *)
(***************************************************************************)
EXTENDS Programs, TLC, FiniteSetsExt

(* Hosts: two hosts called h in two tailnets, with domains of their own    *)
(* and with one they share.                                                *)
Host == {<<"a", "h", "t">>, <<"a", "g", "t">>, <<"b", "h", "u">>}
HostIP == <<"a", "h", "t">> :> 1 @@ <<"a", "g", "t">> :> 2 @@ <<"b", "h", "u">> :> 3
Entry(h, domain, force) ==
  [ip |-> HostIP[h], alias |-> <<h[2]>>, fqdn |-> <<h[2], h[3]>>, tailnet |-> h[1],
   native |-> TRUE, domain |-> domain[h[1]], force |-> force]
OwnDomain == [n \in {"a", "b"} |-> <<n>>]
SharedDomain == [n \in {"a", "b"} |-> <<"corp">>]
MCHostsInputs ==
  {{}, {Entry(h, OwnDomain, FALSE) : h \in Host \ {<<"a", "h", "t">>}},
   {Entry(h, OwnDomain, FALSE) : h \in Host}, {Entry(h, SharedDomain, TRUE) : h \in Host}}

(* Tailnet b has the MagicDNS suffix of a for its domain: with this input  *)
(* NameAppearsOnce fails.                                                  *)
BorrowedDomain == [n \in {"a", "b"} |-> IF n = "b" THEN <<"t">> ELSE <<n>>]
MCBorrowing == {{Entry(h, BorrowedDomain, TRUE) : h \in Host}}

(* ts-router: a name written in capitals, a peer that is no route, an      *)
(* upstream whose DNS record points here, and one that is local_ip.        *)
MCRName == {"git", "GIT", "app", "loop", "away", "127"}
MCLiteral == {"127"}
MCFold == [n \in MCRName |-> IF n = "GIT" THEN "git" ELSE n]
MCInDomain == {"git", "app", "loop"}
MCRoute ==
  [listen : {"443", "22"}, sni : {"git", "GIT", "app", "none"}, host : {"git", "loop"}]
    \cup [listen : {"443"}, sni : {"app", "none"}, host : {"127"}]
MCConfigs == UNION {kSubset(k, MCRoute) : k \in 1 .. 3}
MCPeerIP == "git" :> "100.1" @@ "app" :> "100.2"
MCRecordIP == "loop" :> "127"

(* ts-unplug-proxy: two machines with one host name, which the tailnet     *)
(* tells apart, one whose owner gave it another name, one that calls       *)
(* itself by the DNS name of that one, and one shared in from a tailnet    *)
(* where it has that name.                                                 *)
MCMachine ==
  {[dns |-> <<"pc", "x", "ts", "net">>, host |-> <<"pc">>, ip |-> "1"],
   [dns |-> <<"pc-1", "x", "ts", "net">>, host |-> <<"pc">>, ip |-> "2"],
   [dns |-> <<"nas", "x", "ts", "net">>, host |-> <<"disk">>, ip |-> "3"],
   [dns |-> <<"box", "x", "ts", "net">>, host |-> <<"nas", "x", "ts", "net">>, ip |-> "4"],
   [dns |-> <<"nas", "y", "ts", "net">>, host |-> <<"nas">>, ip |-> "5"]}
MCPSuffix == <<"x", "ts", "net">>
MCTsNet == <<"ts", "net">>
MCWanted ==
  {m.dns : m \in MCMachine} \cup {<<"pc">>, <<"pc-1">>, <<"disk">>, <<"gone", "x", "ts", "net">>,
                                  <<"web", "org">>}
MCDNSAnswer == {{}, {"9"}}
=============================================================================
