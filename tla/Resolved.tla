------------------------------ MODULE Resolved ------------------------------
(***************************************************************************)
(* The registration of one TUN link with systemd-resolved                  *)
(* (cmd/ts-multinet/resolved.go).  The watcher of the tailnet registers    *)
(* with two calls of resolvectl; whoever stops the tailnet reverts with    *)
(* another.  resolvedSync.mu guards the cache only and is held across none *)
(* of the calls, so the three interleave, and systemd-resolved may restart *)
(* at any point and forget the link.                                       *)
(***************************************************************************)
EXTENDS Naturals

CONSTANTS
  Key,        \* the values "suffix domain" takes
  NoKey       \* the link has no routing domains, the cache no entry

VARIABLES
  enabled,    \* host mode, systemd-resolved present, DNS listener up
  link,       \* what the kernel and resolved have: up, routing domains, server
  cache,      \* registered[dev] and whether lastApplied is recent
  key,        \* "suffix domain" of the configuration
  reg,        \* where the watcher is in register, and the key it read
  reverting   \* revert has dropped the cache entry and not yet run resolvectl

resVars == <<enabled, link, cache, key, reg, reverting>>

NoLink == [up |-> FALSE, domains |-> NoKey, server |-> FALSE, torn |-> FALSE]
FreshLink == [NoLink EXCEPT !.up = TRUE]

(* A link whose settings are dropped remembers that it happened between    *)
(* the two calls of a registration.                                        *)
ResetLink == link' = [FreshLink EXCEPT !.torn = (reg.at = "server")]
Uncached == [key |-> NoKey, fresh |-> FALSE]
-----------------------------------------------------------------------------
(* A poll of watch that finds the node Running, its suffix and address     *)
(* known.  What it does then does not look at the context any more.        *)
Poll ==
  /\ enabled /\ reg.at = "poll"
  /\ reg' = [reg EXCEPT !.at = "polled"]
  /\ UNCHANGED <<enabled, link, cache, key, reverting>>

(* register, first hold of the lock: an entry for this key is trusted for  *)
(* resolvedRefresh, then applied again.                                    *)
(* A slip: an entry is never applied again. *)
TrustedForever == cache.key = key
Trusted == cache.key = key /\ cache.fresh

Register ==
  /\ reg.at = "polled"
  /\ reg' = IF Trusted THEN [reg EXCEPT !.at = "poll"] ELSE [at |-> "domain", key |-> key]
  /\ UNCHANGED <<enabled, link, cache, key, reverting>>

AppliesServer(next) ==
  /\ IF link.up THEN /\ link' = [link EXCEPT !.server = TRUE]
                     /\ reg' = [reg EXCEPT !.at = next]
     ELSE reg' = [reg EXCEPT !.at = "poll"] /\ UNCHANGED link
  /\ UNCHANGED <<enabled, cache, key, reverting>>

AppliesDomains(next) ==
  /\ IF link.up THEN /\ link' = [link EXCEPT !.domains = reg.key, !.torn = FALSE]
                     /\ reg' = [reg EXCEPT !.at = next]
     ELSE reg' = [reg EXCEPT !.at = "poll"] /\ UNCHANGED link
  /\ UNCHANGED <<enabled, cache, key, reverting>>

(* resolvectl domain, then resolvectl dns.  Without the link either fails: *)
(* register warns and leaves it to the next poll.                          *)
SetDomains == reg.at = "domain" /\ AppliesDomains("server")

SetServer == reg.at = "server" /\ AppliesServer("record")

Record ==
  /\ reg.at = "record"
  /\ cache' = [key |-> reg.key, fresh |-> TRUE]
  /\ reg' = [reg EXCEPT !.at = "poll"]
  /\ UNCHANGED <<enabled, link, key, reverting>>

(* resolvectl itself fails while the link is there.                        *)
CallFails ==
  /\ reg.at \in {"domain", "server"}
  /\ reg' = [reg EXCEPT !.at = "poll"]
  /\ UNCHANGED <<enabled, link, cache, key, reverting>>

(* resolvedRefresh has passed since lastApplied.                           *)
Age ==
  /\ cache.fresh
  /\ cache' = [cache EXCEPT !.fresh = FALSE]
  /\ UNCHANGED <<enabled, link, key, reg, reverting>>
-----------------------------------------------------------------------------
(* revert and revertAll: a link that is not in the cache is left alone.    *)
Revert ==
  /\ IF enabled /\ cache.key # NoKey
     THEN cache' = Uncached /\ reverting' = TRUE
     ELSE UNCHANGED <<cache, reverting>>
  /\ UNCHANGED <<enabled, link, key, reg>>

RunRevert ==
  /\ reverting
  /\ reverting' = FALSE
  /\ IF link.up THEN ResetLink ELSE UNCHANGED link
  /\ UNCHANGED <<enabled, cache, key, reg>>
-----------------------------------------------------------------------------
(* systemd-resolved restarts; the domain is edited in the configuration.   *)
ResolvedRestarts ==
  /\ link.up
  /\ ResetLink
  /\ UNCHANGED <<enabled, cache, key, reg, reverting>>

EditDomain(k) ==
  /\ key' = k
  /\ UNCHANGED <<enabled, link, cache, reg, reverting>>

Configured == link.domains = key /\ link.server

Links == [up : BOOLEAN, domains : Key \cup {NoKey}, server : BOOLEAN, torn : BOOLEAN]
Caches == [key : Key \cup {NoKey}, fresh : BOOLEAN]
Registrations ==
  [at : {"poll", "polled", "domain", "server", "record", "exited"}, key : Key \cup {NoKey}]

ResTypeOK ==
  /\ enabled \in BOOLEAN /\ reverting \in BOOLEAN /\ key \in Key
  /\ link \in Links /\ cache \in Caches /\ reg \in Registrations

(* The link never has a DNS server without routing domains (the comment in *)
(* register: resolved would take it for a general resolver and loop back), *)
(* unless a revert or a restart of resolved fell between the two calls.    *)
ServerHasDomains == link.server /\ link.domains = NoKey => link.torn

(* What a registration is about to set, and what it has set already.       *)
DomainsFirst ==
  /\ reg.at \in {"domain", "server"} => reg.key \in Key
  /\ reg.at = "server" /\ link.up => link.domains # NoKey \/ link.torn

ResInv == ResTypeOK /\ ServerHasDomains /\ DomainsFirst
=============================================================================
