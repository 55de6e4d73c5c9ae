------------------------------- MODULE Config -------------------------------
(***************************************************************************)
(* The configuration (config.rs) and its consumers: Config::load checks    *)
(* the references between its sections once, and the run looks solvers,    *)
(* DNS clients, zones, modes and hooks up by name long afterwards          *)
(* (renew.rs, solver/dns01.rs, dane.rs).  Between the two stands only      *)
(* validate: what it lets through fails in the middle of a renewal.        *)
(*                                                                         *)
(* A name is the sequence of its labels, in lower case and without its     *)
(* final dot.  A zone keeps the length of its spelling as well, which      *)
(* find_zone compares.  All certificates are due, and files, DNS servers   *)
(* and the CA answer: every fault is one of the configuration.             *)
(***************************************************************************)
EXTENDS Naturals, Sequences

CONSTANTS
    Configs,   \* configuration files
    Labels,    \* labels of DNS names
    Owners,    \* the users and groups of the machine
    None       \* an option that is not set

VARIABLES
    config,    \* the file
    pc,
    ci,        \* certificate at hand
    bi,        \* its dane block
    ni,        \* its domain, or the name of the block
    built,     \* solvers built for it
    updates,   \* DNS updates sent: client, name and zone
    pending,   \* pending_hooks
    ran,       \* named hooks that have been run, by position
    faults     \* what went wrong: certificate and step

vars == <<config, pc, ci, bi, ni, built, updates, pending, ran, faults>>

-----------------------------------------------------------------------------
Elems(s) == {s[i] : i \in DOMAIN s}

\* ends_with on a label boundary.
Suffix(z, n) ==
    /\ Len(z) <= Len(n)
    /\ \A k \in 1..Len(z) : n[Len(n) - Len(z) + k] = z[k]

\* No name ends with the root zone, whose spelling is empty without its dot.
Matches(z, n) == z = n \/ (z # << >> /\ Suffix(z, n))

AllZones(dns) == Elems(dns.zones) \cup ({dns.zone} \ {None})

\* Mutant: the least specific zone that matches.
ShortestZone(dns, name) ==
    LET found == {z \in AllZones(dns) : Matches(z.labels, name)} IN
    IF found = {} THEN None ELSE CHOOSE z \in found : \A y \in found : z.chars <= y.chars

FindZone(dns, name) ==
    LET found == {z \in AllZones(dns) : Matches(z.labels, name)} IN
    IF found = {} THEN None ELSE CHOOSE z \in found : \A y \in found : y.chars <= z.chars

\* "_acme-challenge." before the domain without its "*.".
ChallengeName(domain) == <<"_acme-challenge">> \o domain.labels

SolverForDomain(c, cert, i) ==
    IF cert.solvers # None
      THEN IF i \in DOMAIN cert.solvers THEN cert.solvers[i] ELSE None
      ELSE IF cert.solver # None THEN cert.solver ELSE c.default_solver

ParseMode(mode) == mode # "not octal"

\* getpwnam and getgrnam, of which a certificate's owner stands for both.
Resolves(owner) == owner \in Owners

LoadSigner(dns) == dns.tsig # {}

MaxName == 255  \* bound on the length of a DNS name

\* What find_zone relies on: of two zones that contain a name, the one with more
\* labels has the longer spelling, with or without a final dot.
ASSUME ZoneSpelling ==
    \A c \in Configs : \A d \in DOMAIN c.dns : \A y, z \in AllZones(c.dns[d]) :
      /\ y # None /\ y.chars \in 0..MaxName /\ y.labels \in Seq(Labels)
      /\ y.labels # << >> /\ Suffix(y.labels, z.labels) /\ Len(y.labels) < Len(z.labels)
           => y.chars < z.chars

\* The types of what is deserialized.
ASSUME ConfigsAssumption ==
    /\ "_acme-challenge" \in Labels
    /\ \A c \in Configs :
         /\ \A s \in DOMAIN c.solver : c.solver[s].type \in {"dns-01", "http-01", "tls-alpn-01"}
         /\ \A t \in Elems(c.certificates) :
              /\ \A d \in Elems(t.domains) : d.labels \in Seq(Labels)
              /\ \A b \in Elems(t.dane) : \A n \in Elems(b.names) : n \in Seq(Labels)

-----------------------------------------------------------------------------
(***************************************************************************)
(* validate, section by section.                                           *)
(***************************************************************************)
ValidAcme(c) == c.acme.key # {} /\ c.acme.contact

ValidDefault(c) == c.default_solver # None => c.default_solver \in DOMAIN c.solver

ValidDns(c) == \A d \in DOMAIN c.dns : c.dns[d].tsig # {} /\ AllZones(c.dns[d]) # {}

ValidHooks(c) ==
    /\ \A i, j \in DOMAIN c.hook : c.hook[i].name = c.hook[j].name => i = j
    /\ \A i \in DOMAIN c.hook : ~c.hook[i].empty

ValidSolvers(c) ==
    \A s \in DOMAIN c.solver :
      CASE c.solver[s].type = "dns-01"  -> c.solver[s].dns \in DOMAIN c.dns
        [] c.solver[s].type = "http-01" ->
                 /\ c.solver[s].listen \/ c.solver[s].webroot
                 /\ ~(c.solver[s].listen /\ c.solver[s].webroot)
        [] OTHER                        -> TRUE

ValidKey(cert) ==
    /\ cert.stores # {}
    /\ cert.key_mode # None => ParseMode(cert.key_mode)
    /\ cert.cert_mode # None => ParseMode(cert.cert_mode)

\* Mutant: the domain itself is looked up, without its solver's zones.
ValidDomainName(c, cert, i) ==
    LET s == SolverForDomain(c, cert, i) IN s # None /\ s \in DOMAIN c.solver

ValidDomain(c, cert, i) ==
    LET s == SolverForDomain(c, cert, i)
        domain == cert.domains[i]
    IN  /\ s # None /\ s \in DOMAIN c.solver
        /\ c.solver[s].type = "dns-01" =>
             /\ ~domain.ip
             /\ c.solver[s].dns \in DOMAIN c.dns =>
                  FindZone(c.dns[c.solver[s].dns], ChallengeName(domain)) # None

ValidDane(c, block) ==
    /\ block.names # << >>
    /\ block.dns \in DOMAIN c.dns
    /\ \A n \in Elems(block.names) : FindZone(c.dns[block.dns], n) # None

\* Mutant: one of the references is enough.
SomeHookRef(c, cert) ==
    cert.hooks # << >> => \E h \in Elems(cert.hooks), i \in DOMAIN c.hook : c.hook[i].name = h

ValidHookRefs(c, cert) == \A h \in Elems(cert.hooks) : \E i \in DOMAIN c.hook : c.hook[i].name = h

ValidCert(c, cert) ==
    /\ cert.name # ""
    /\ cert.domains # << >>
    /\ ValidKey(cert)
    /\ ~(cert.solver # None /\ cert.solvers # None)
    /\ cert.solvers # None => Len(cert.solvers) = Len(cert.domains)
    /\ \A i \in DOMAIN cert.domains : ValidDomain(c, cert, i)
    /\ \A b \in Elems(cert.dane) : ValidDane(c, b)
    /\ ValidHookRefs(c, cert)
    /\ \A h \in Elems(cert.inline) : ~h.empty

Validate(c) ==
    /\ ValidAcme(c) /\ ValidDefault(c) /\ ValidDns(c) /\ ValidHooks(c) /\ ValidSolvers(c)
    /\ \A i, j \in DOMAIN c.certificates : c.certificates[i].name = c.certificates[j].name => i = j
    /\ \A cert \in Elems(c.certificates) : ValidCert(c, cert)

-----------------------------------------------------------------------------
current == config.certificates[ci]
SolverNames == {SolverForDomain(config, current, i) : i \in DOMAIN current.domains}
SolverConfig(i) == config.solver[SolverForDomain(config, current, i)]

\* What the CA offers: an address has no name to put a TXT record at, and a
\* wildcard can be shown by one only.
Offered(domain) ==
    {"dns-01", "http-01", "tls-alpn-01"} \
      (IF domain.ip THEN {"dns-01"} ELSE IF domain.wild THEN {"http-01", "tls-alpn-01"} ELSE {})

Fault(at) == faults' = faults \cup {[cert |-> ci, at |-> at]}

\* renew_certificate returns an error; run() goes on with the next certificate.
Fail(at) ==
    /\ Fault(at)
    /\ pc' = "cert" /\ ci' = ci + 1
    /\ UNCHANGED <<config, bi, ni, built, updates, pending, ran>>

Load ==
    /\ pc = "file"
    /\ pc' = IF Validate(config) THEN "cert" ELSE "rejected"
    /\ UNCHANGED <<config, ci, bi, ni, built, updates, pending, ran, faults>>

Buildable(s) ==
    /\ s \in DOMAIN config.solver
    /\ config.solver[s].type = "dns-01" => config.solver[s].dns \in DOMAIN config.dns
    /\ config.solver[s].type = "http-01" => config.solver[s].webroot \/ config.solver[s].listen

\* solver_for_domain for every domain, then build_solvers.
BuildSolvers ==
    /\ pc = "cert" /\ ci \in DOMAIN config.certificates
    /\ IF None \notin SolverNames /\ \A s \in SolverNames : Buildable(s)
         THEN /\ pc' = "key"
              /\ built' = SolverNames
              /\ UNCHANGED <<config, ci, bi, ni, updates, pending, ran, faults>>
         ELSE Fail("solvers")

\* Keys of the RSA types are neither generated nor loaded.
DetermineKey ==
    /\ pc = "key"
    /\ IF current.rsa
         THEN Fail("key")
         ELSE pc' = "order" /\ UNCHANGED <<config, ci, bi, ni, built, updates, pending, ran, faults>>

\* solver_challenge_type and collect_challenges.
Order ==
    /\ pc = "order"
    /\ IF \A i \in DOMAIN current.domains : SolverConfig(i).type \in Offered(current.domains[i])
         THEN /\ pc' = "present" /\ ni' = 1
              /\ UNCHANGED <<config, ci, bi, built, updates, pending, ran, faults>>
         ELSE Fail("order")

Update(client, name) ==
    updates' = updates \cup
      {[dns |-> client, name |-> name, zone |-> FindZone(config.dns[client], name)]}

\* solvers[solver_name] and Solver::present, for each challenge in turn.
Present ==
    /\ pc = "present" /\ ni \in DOMAIN current.domains
    /\ LET s == SolverForDomain(config, current, ni)
           dns == config.dns[config.solver[s].dns]
           name == ChallengeName(current.domains[ni])
           resolved == FindZone(dns, name) # None /\ LoadSigner(dns)
       IN  IF s \in built /\ (config.solver[s].type = "dns-01" => resolved)
             THEN /\ IF config.solver[s].type = "dns-01" THEN Update(config.solver[s].dns, name)
                                                         ELSE UNCHANGED updates
                  /\ ni' = ni + 1
                  /\ UNCHANGED <<config, pc, ci, bi, built, pending, ran, faults>>
             ELSE Fail("present")

\* The certificate is issued and written with its key; save_key takes the credential
\* before the path and does nothing if there is neither.
Install ==
    /\ pc = "present" /\ ni \notin DOMAIN current.domains
    /\ pc' = "permissions"
    /\ IF current.stores = {} THEN Fault("save_key") ELSE UNCHANGED faults
    /\ UNCHANGED <<config, ci, bi, ni, built, updates, pending, ran>>

\* permissions::apply to a file that exists.
Applies(mode, owner) ==
    /\ mode # None => ParseMode(mode)
    /\ owner # None => Resolves(owner)

\* ensure_permissions, for the key file if there is one and for the certificate.
EnsurePermissions ==
    /\ pc = "permissions"
    /\ IF /\ "path" \in current.stores => Applies(current.key_mode, current.key_owner)
          /\ Applies(current.cert_mode, current.cert_owner)
         THEN /\ pc' = "dane" /\ bi' = 1 /\ ni' = 1
              /\ UNCHANGED <<config, ci, built, updates, pending, ran, faults>>
         ELSE Fail("permissions")

\* An error of a block is logged, and the rest of its names skipped.
PublishTlsa ==
    /\ pc = "dane" /\ bi \in DOMAIN current.dane
    /\ LET block == current.dane[bi]
           more == ni \in DOMAIN block.names
           known == block.dns \in DOMAIN config.dns /\ LoadSigner(config.dns[block.dns])
           found == known /\ (more => FindZone(config.dns[block.dns], block.names[ni]) # None)
       IN  /\ IF found /\ more
                THEN /\ Update(block.dns, block.names[ni])
                     /\ ni' = ni + 1 /\ UNCHANGED bi
                ELSE /\ bi' = bi + 1 /\ ni' = 1 /\ UNCHANGED updates
           /\ IF found THEN UNCHANGED faults ELSE Fault("dane")
    /\ UNCHANGED <<config, pc, ci, built, pending, ran>>

\* The inline hooks, of which a command without words fails; Ok(true).
InlineHooks ==
    /\ pc = "dane" /\ bi \notin DOMAIN current.dane
    /\ IF \E h \in Elems(current.inline) : h.empty THEN Fault("inline") ELSE UNCHANGED faults
    /\ pending' = pending \cup Elems(current.hooks)
    /\ pc' = "cert" /\ ci' = ci + 1
    /\ UNCHANGED <<config, bi, ni, built, updates, ran>>

\* The named hooks in the order of their definition.
RunHooks ==
    /\ pc = "cert" /\ ci \notin DOMAIN config.certificates
    /\ ran' = {i \in DOMAIN config.hook : config.hook[i].name \in pending}
    /\ IF \E i \in ran' : config.hook[i].empty THEN Fault("hook") ELSE UNCHANGED faults
    /\ pc' = "done"
    /\ UNCHANGED <<config, ci, bi, ni, built, updates, pending>>

Init ==
    /\ config \in Configs
    /\ pc = "file"
    /\ ci = 1 /\ bi = 1 /\ ni = 1
    /\ built = {} /\ updates = {} /\ pending = {} /\ ran = {} /\ faults = {}

Next ==
    \/ Load \/ BuildSolvers \/ DetermineKey \/ Order \/ Present \/ Install
    \/ EnsurePermissions \/ PublishTlsa \/ InlineHooks \/ RunHooks

Spec == Init /\ [][Next]_vars

-----------------------------------------------------------------------------
Steps == {"solvers", "key", "order", "present", "save_key", "permissions", "dane", "inline", "hook"}

\* Types; an update names a DNS client that exists and one of its zones.
TypeOK ==
    /\ pc \in {"file", "rejected", "cert", "key", "order", "present", "permissions", "dane", "done"}
    /\ ci \in Nat \ {0} /\ bi \in Nat \ {0} /\ ni \in Nat \ {0}
    /\ pc \in {"key", "order", "present", "permissions", "dane"} => ci \in DOMAIN config.certificates
    /\ \A u \in updates :
         u.dns \in DOMAIN config.dns /\ u.zone \in AllZones(config.dns[u.dns])
    /\ ran \subseteq DOMAIN config.hook
    /\ faults \subseteq [cert: Nat, at: Steps]

Wildcard(t) ==
    \E i \in DOMAIN t.domains :
      t.domains[i].wild /\ config.solver[SolverForDomain(config, t, i)].type # "dns-01"

OwnerMissing(t) == \E owner \in {t.key_owner, t.cert_owner} \ {None} : ~Resolves(owner)

\* Of what validate accepts, a run finds every solver, DNS client, zone, signer, mode
\* and hook it looks up, and every one of these lookups is past validate.  Three things
\* are accepted that a renewal then fails for: RSA keys, wildcards whose solver is not
\* dns-01, and owners or groups that the machine does not have - the last only after
\* the certificate is installed, and before its TLSA records and hooks.
AcceptedWorks ==
    \A f \in faults :
      \/ f.at = "key" /\ config.certificates[f.cert].rsa
      \/ f.at = "order" /\ Wildcard(config.certificates[f.cert])
      \/ f.at = "permissions" /\ OwnerMissing(config.certificates[f.cert])

\* A DNS update goes to the closest zone above its name (README: "the longest
\* matching suffix"), although find_zone compares spellings and not labels.
ClosestZone ==
    \A u \in updates :
      /\ Matches(u.zone.labels, u.name)
      /\ \A z \in AllZones(config.dns[u.dns]) :
           Matches(z.labels, u.name) => Len(z.labels) <= Len(u.zone.labels)

\* Each hook that a renewed certificate names is run, and only one hook by that name.
HooksFound ==
    pc = "done" => \A h \in pending :
      \E i \in ran : config.hook[i].name = h /\ \A j \in ran : config.hook[j].name = h => j = i
=============================================================================
