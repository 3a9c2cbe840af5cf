---------------------------- MODULE MCDnsServer -----------------------------
EXTENDS DnsServer
MCName == {"a", "B", "b"}
MCLower == [n \in MCName |-> IF n = "B" THEN "b" ELSE n]
MCCIDR == {[base |-> 0, size |-> 3], [base |-> 3, size |-> 4], [base |-> 2, size |-> 3]}
MCSuffix == {<<"t">>}
MCDomain == {<<"corp">>}
MCZone == MCSuffix \cup MCDomain
MCPeers == {<<"h", "t">>, <<"g", "t">>}
MCTailnetIP == [f \in MCPeers |-> IF f = <<"h", "t">> THEN 100 ELSE 4]
MCFQDN == MCPeers \cup {<<"pi", "t">>}
MCQuery == {<<"h", "t">>, <<"h", "corp">>, <<"pi", "corp">>, <<"pi","t">>}
=============================================================================
