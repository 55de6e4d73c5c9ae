------------------------------ MODULE MCConfig ------------------------------
(***************************************************************************)
(* Five families of configuration files around one that is good: each      *)
(* varies some sections and leaves the others as they are.                 *)
(***************************************************************************)
EXTENDS Config

Zone(labels, chars) == [labels |-> labels, chars |-> chars]
Root == Zone(<< >>, 1)
Org == Zone(<<"org">>, 3)
AOrg == Zone(<<"a", "org">>, 5)
AOrgDot == Zone(<<"a", "org">>, 6)
WwwOrg == Zone(<<"www", "org">>, 7)

Www == <<"www", "a", "org">>
Domain(labels) == [labels |-> labels, ip |-> FALSE, wild |-> FALSE]
Wild == [Domain(<<"a", "org">>) EXCEPT !.wild = TRUE]
Address == [Domain(<<"192.0.2.1">>) EXCEPT !.ip = TRUE]

Client(zones, zone) == [zones |-> zones, zone |-> zone, tsig |-> {"path"}]
Dns01(client) == [type |-> "dns-01", dns |-> client, listen |-> FALSE, webroot |-> FALSE]
Http01(listen, webroot) == [type |-> "http-01", dns |-> None, listen |-> listen, webroot |-> webroot]
Alpn == [type |-> "tls-alpn-01", dns |-> None, listen |-> TRUE, webroot |-> FALSE]

GoodCert ==
    [name |-> "web", domains |-> <<Domain(Www)>>, rsa |-> FALSE, stores |-> {"path"},
     key_mode |-> None, cert_mode |-> None, key_owner |-> None, cert_owner |-> None, solver |-> None, solvers |-> None,
     dane |-> << >>, hooks |-> << >>, inline |-> << >>]
OtherCert == [GoodCert EXCEPT !.name = "mail", !.hooks = <<"h1">>]

Good ==
    [acme |-> [key |-> {"path"}, contact |-> TRUE], default_solver |-> "s1",
     dns |-> [d \in {"d1"} |-> Client(<<AOrg>>, None)],
     solver |-> [s \in {"s1"} |-> Dns01("d1")],
     hook |-> << >>, certificates |-> <<GoodCert>>]

\* References from certificates to solvers to DNS clients.
SolverSections ==
    {[Good EXCEPT !.default_solver = d, !.dns = [x \in c |-> Client(<<AOrg>>, None)],
                  !.solver = v, !.certificates = <<[GoodCert EXCEPT !.domains = n, !.solver = s, !.solvers = ss]>>] :
       d \in {None, "s1", "s2"}, c \in {{}, {"d1"}},
       v \in [{"s1"} -> {Dns01("d1"), Http01(TRUE, FALSE), Http01(TRUE, TRUE), Http01(FALSE, FALSE), Alpn}]
              \cup [{"s1", "s2"} -> {Dns01("d1"), Alpn}],
       n \in {<< >>, <<Domain(Www)>>, <<Domain(Www), Address>>, <<Wild, Domain(Www)>>},
       s \in {None, "s1", "s2"}, ss \in {None, <<"s2">>, <<"s1", "s2">>}}

\* Names and zones.
ZoneSections ==
    {[Good EXCEPT !.dns = [x \in {"d1"} |-> [Client(zs, z) EXCEPT !.tsig = k]],
                  !.certificates = <<[GoodCert EXCEPT !.domains = <<n>>, !.dane = b]>>] :
       zs \in {<< >>, <<Org>>, <<AOrgDot, Org>>, <<Org, WwwOrg>>, <<AOrg, Root, Org>>},
       z \in {None, Root, Org, AOrg, AOrgDot}, k \in {{}, {"credential"}},
       n \in {Domain(Www), Domain(<<"www", "org">>), Wild, Domain(<<"www", "net">>)},
       b \in {<< >>} \cup {<<[dns |-> d, names |-> ns]>> :
                d \in {"d1", "d2"}, ns \in {<< >>, <<Www>>, <<Www, <<"net">> >>, << <<"a", "org">>, <<"org">> >>}}}

\* Hooks, of two certificates.
HookSections ==
    {[Good EXCEPT !.hook = hs,
                  !.certificates = <<[GoodCert EXCEPT !.hooks = h, !.inline = i], [OtherCert EXCEPT !.rsa = r]>>] :
       hs \in UNION {[1..k -> [name: {"h1", "h2"}, empty: BOOLEAN]] : k \in 0..2},
       h \in {<< >>, <<"h1">>, <<"h1", "h2">>}, i \in {<< >>, <<[empty |-> FALSE]>>, <<[empty |-> TRUE]>>},
       r \in BOOLEAN}

\* The options of a certificate and of the account, and two certificates of one name.
OptionSections ==
    {[Good EXCEPT !.acme = a] : a \in [key: {{}, {"path"}}, contact: BOOLEAN]} \cup
    {[Good EXCEPT !.certificates = <<t>> \o o] :
       t \in {[GoodCert EXCEPT !.name = n, !.rsa = r, !.stores = s, !.key_mode = km, !.cert_mode = cm] :
                n \in {"", "web"}, r \in BOOLEAN, s \in SUBSET {"credential", "path"},
                km \in {None, "octal", "not octal"}, cm \in {None, "octal", "not octal"}},
       o \in {<< >>, <<GoodCert>>, <<[OtherCert EXCEPT !.hooks = << >>]>>}}

\* Owners of the files, of a certificate with TLSA records and a hook.
OwnerSections ==
    {[Good EXCEPT !.hook = <<[name |-> "h1", empty |-> FALSE]>>, !.certificates = <<t>> \o o] :
       t \in {[GoodCert EXCEPT !.stores = s, !.key_owner = ko, !.cert_owner = co, !.cert_mode = cm,
                               !.dane = <<[dns |-> "d1", names |-> <<Www>>]>>, !.hooks = <<"h1">>] :
                s \in {{"credential"}, {"path"}}, ko \in {None, "root", "nobody"},
                co \in {None, "root", "nobody"}, cm \in {None, "octal"}},
       o \in {<< >>, <<OtherCert>>}}

MCConfigs ==
    SolverSections \cup ZoneSections \cup HookSections \cup OptionSections \cup OwnerSections
=============================================================================
