------------------------------ MODULE MCOrder ------------------------------
(***************************************************************************)
(* A certificate for a name and its wildcard, which share a TXT name, and  *)
(* two more domains with solvers of other kinds.                           *)
(***************************************************************************)
EXTENDS AcmeOrder, TLC

CONSTANTS dns, web, alone, base, other, fourth

MCKind == (dns :> "dns") @@ (web :> "webroot") @@ (alone :> "standalone")
MCPerDomain == <<dns, dns, web, alone>>
MCTxtName == <<base, base, other, fourth>>
MCZones == (dns :> {base, other, fourth}) @@ (web :> {}) @@ (alone :> {})
MCOffered == <<{"dns-01", "http-01", "tls-alpn-01"}, {"dns-01"}, {"http-01", "tls-alpn-01"},
               {"dns-01", "http-01"}>>

\* The CA lists the authorizations as they were configured, or in any order.
AsConfigured == {<<1, 2, 3, 4>>}
AnyOrder == {s \in [1..4 -> 1..4] : \A a, b \in 1..4 : s[a] = s[b] => a = b}
=============================================================================
