---------------------------- MODULE MCDNSResolver ----------------------------
(* Two calls, one of them RefreshDNS, over a host, a malformed name and an   *)
(* address.  The retries sleep one tick and two, so that a cached failure    *)
(* outlives the first of them and not the second; in RetriesAskAgain.cfg it   *)
(* outlives both, as 30 s and retries after 1, 2 and 3 s do by default.      *)
EXTENDS DNSResolver

CONSTANTS bad, ip, host

MCNameServers == <<host, bad, ip>>
MCKind == [n \in {bad, ip, host} |->
             CASE n = bad -> "malformed" [] n = ip -> "address" [] n = host -> "host"]
=============================================================================
