---------------------------- MODULE ConfigProofs ----------------------------
(***************************************************************************)
(* For every set of configuration files: what validate accepts, the run    *)
(* finds.                                                                  *)
(***************************************************************************)
EXTENDS Config, TLAPS, SequenceTheorems, WellFoundedInduction

-----------------------------------------------------------------------------
(***************************************************************************)
(* find_zone.                                                              *)
(***************************************************************************)
\* A non-empty set of zones has one with the longest spelling.
LEMMA LongestExists ==
    ASSUME NEW S, S # {}, \A z \in S : z.chars \in 0..MaxName
    PROVE  \E z \in S : \A y \in S : y.chars <= z.chars
<1> DEFINE T == {MaxName - z.chars : z \in S}
<1>1. T \subseteq Nat /\ T # {}
  BY DEF MaxName
<1>2. PICK x \in T : \A y \in T : ~(<<y, x>> \in OpToRel(<, Nat))
  BY <1>1, NatLessThanWellFounded, WFMin
<1>3. \A y \in T : ~(y < x)
  BY <1>1, <1>2 DEF OpToRel
<1>4. PICK z \in S : x = MaxName - z.chars
  OBVIOUS
<1>5. \A y \in S : ~(MaxName - y.chars < MaxName - z.chars)
  BY <1>3, <1>4
<1>6. ASSUME NEW y \in S PROVE y.chars <= z.chars
  <2>1. y.chars \in 0..255 /\ z.chars \in 0..255
    BY DEF MaxName
  <2>2. ~(255 - y.chars < 255 - z.chars)
    BY <1>5 DEF MaxName
  <2> QED
    BY <2>1, <2>2
<1> QED
  BY <1>6

\* What find_zone returns is a zone of the client that contains the name, and none
\* that contains it has a longer spelling.
LEMMA FindZoneFinds ==
    ASSUME NEW c \in Configs, NEW d \in DOMAIN c.dns, NEW name, FindZone(c.dns[d], name) # None
    PROVE  LET z == FindZone(c.dns[d], name) IN
           /\ z \in AllZones(c.dns[d]) /\ Matches(z.labels, name)
           /\ \A y \in AllZones(c.dns[d]) : Matches(y.labels, name) => y.chars <= z.chars
<1> DEFINE found == {z \in AllZones(c.dns[d]) : Matches(z.labels, name)}
           longest(z) == \A y \in found : y.chars <= z.chars
<1>1. found # {} /\ FindZone(c.dns[d], name) = CHOOSE z \in found : longest(z)
  BY DEF FindZone
<1>2. \A z \in found : z.chars \in 0..MaxName
  BY ZoneSpelling
<1>3. \E z \in found : longest(z)
  <2> HIDE DEF found
  <2> QED BY <1>1, <1>2, LongestExists
<1>4. FindZone(c.dns[d], name) \in found /\ longest(FindZone(c.dns[d], name))
  <2> HIDE DEF found, longest
  <2> QED BY <1>1, <1>3
<1> QED
  BY <1>4

\* Of two suffixes of a name the shorter is a suffix of the longer.
LEMMA SuffixOfSuffix ==
    ASSUME NEW n \in Seq(Labels), NEW y \in Seq(Labels), NEW z \in Seq(Labels),
           Suffix(y, n), Suffix(z, n), Len(z) < Len(y)
    PROVE  Suffix(z, y)
<1>1. Len(n) \in Nat /\ Len(y) \in Nat /\ Len(z) \in Nat
  OBVIOUS
<1>2. ASSUME NEW k \in 1..Len(z) PROVE y[Len(y) - Len(z) + k] = z[k]
  <2>1. Len(y) - Len(z) + k \in 1..Len(y)
    BY <1>1
  <2>2. n[Len(n) - Len(y) + (Len(y) - Len(z) + k)] = y[Len(y) - Len(z) + k]
    BY <2>1 DEF Suffix
  <2>3. Len(n) - Len(y) + (Len(y) - Len(z) + k) = Len(n) - Len(z) + k
    BY <1>1
  <2>4. n[Len(n) - Len(z) + k] = z[k]
    BY DEF Suffix
  <2> QED
    BY <2>2, <2>3, <2>4
<1> QED
  BY <1>1, <1>2 DEF Suffix

\* A name matches nothing but its suffixes.
LEMMA MatchIsSuffix ==
    ASSUME NEW n \in Seq(Labels), NEW z \in Seq(Labels), Matches(z, n)
    PROVE  Suffix(z, n) /\ (z = << >> => n = << >>)
  BY DEF Matches, Suffix

\* Comparing spellings, find_zone finds the zone with the most labels.
LEMMA FindZoneClosest ==
    ASSUME NEW c \in Configs, NEW d \in DOMAIN c.dns, NEW name \in Seq(Labels),
           FindZone(c.dns[d], name) # None,
           NEW y \in AllZones(c.dns[d]), Matches(y.labels, name)
    PROVE  Len(y.labels) <= Len(FindZone(c.dns[d], name).labels)
<1> DEFINE z == FindZone(c.dns[d], name)
<1>1. z \in AllZones(c.dns[d]) /\ Matches(z.labels, name) /\ y.chars <= z.chars
  BY FindZoneFinds
<1>2. /\ y.labels \in Seq(Labels) /\ z.labels \in Seq(Labels)
      /\ y.chars \in 0..MaxName /\ z.chars \in 0..MaxName
  BY <1>1, ZoneSpelling
<1> HIDE DEF z
<1>3. CASE z.labels = << >>
  <2>1. name = << >>
    BY <1>1, <1>2, <1>3, MatchIsSuffix
  <2>2. Suffix(y.labels, << >>)
    BY <1>2, <2>1, MatchIsSuffix
  <2>3. Len(y.labels) <= Len(z.labels)
    BY <1>3, <2>2 DEF Suffix
  <2> QED
    BY <2>3 DEF z
<1>4. CASE z.labels # << >>
  <2>1. SUFFICES ASSUME Len(z.labels) < Len(y.labels) PROVE FALSE
    BY <1>2 DEF z
  <2>2. Suffix(z.labels, y.labels)
    BY <1>1, <1>2, <2>1, MatchIsSuffix, SuffixOfSuffix
  <2>3. z.chars < y.chars
    BY <1>1, <1>4, <2>1, <2>2, ZoneSpelling
  <2>4. y.chars \in 0..255 /\ z.chars \in 0..255
    BY <1>2 DEF MaxName
  <2>5. \A a, b \in 0..255 : a <= b => ~(b < a)
    OBVIOUS
  <2> QED
    BY <1>1, <2>3, <2>4, <2>5
<1> QED
  BY <1>3, <1>4

-----------------------------------------------------------------------------
(***************************************************************************)
(* The inductive invariant: past Load the file is valid; the solvers built *)
(* are those of the certificate at hand, until its challenges are shown;   *)
(* hooks collected are hooks defined.                                      *)
(***************************************************************************)
Inv ==
    /\ config \in Configs
    /\ TypeOK /\ AcceptedWorks /\ ClosestZone
    /\ pc \notin {"file", "rejected"} => Validate(config)
    /\ pc \in {"key", "order", "present"} => built = SolverNames
    /\ \A h \in pending : \E i \in DOMAIN config.hook : config.hook[i].name = h
    /\ pc = "done" => ran = {i \in DOMAIN config.hook : config.hook[i].name \in pending}

\* The certificate at hand is valid.
LEMMA CurrentValid ==
    ASSUME Inv, pc \notin {"file", "rejected"}, ci \in DOMAIN config.certificates
    PROVE  current \in Elems(config.certificates) /\ ValidCert(config, current)
  BY DEF Inv, Validate, Elems, current

\* A domain of a valid certificate has a solver that exists, can be built, and, if it
\* is a dns-01 one, has a client with a signer and a zone for the challenge.
LEMMA DomainValid ==
    ASSUME NEW c \in Configs, Validate(c), NEW t \in Elems(c.certificates),
           NEW i \in DOMAIN t.domains
    PROVE  LET s == SolverForDomain(c, t, i) IN
           /\ s # None /\ s \in DOMAIN c.solver
           /\ c.solver[s].type = "dns-01" =>
                /\ ~t.domains[i].ip
                /\ c.solver[s].dns \in DOMAIN c.dns
                /\ c.dns[c.solver[s].dns].tsig # {}
                /\ FindZone(c.dns[c.solver[s].dns], ChallengeName(t.domains[i])) # None
           /\ c.solver[s].type = "http-01" => c.solver[s].webroot \/ c.solver[s].listen
<1> DEFINE s == SolverForDomain(c, t, i)
<1>1. ValidDomain(c, t, i) /\ ValidSolvers(c) /\ ValidDns(c)
  BY DEF Validate, ValidCert
<1>2. s # None /\ s \in DOMAIN c.solver
  BY <1>1 DEF ValidDomain
<1>3. CASE c.solver[s].type = "dns-01"
  <2>1. c.solver[s].dns \in DOMAIN c.dns
    BY <1>1, <1>2, <1>3 DEF ValidSolvers
  <2>2. /\ ~t.domains[i].ip
        /\ FindZone(c.dns[c.solver[s].dns], ChallengeName(t.domains[i])) # None
    BY <1>1, <1>3, <2>1 DEF ValidDomain
  <2>3. c.dns[c.solver[s].dns].tsig # {}
    BY <1>1, <2>1 DEF ValidDns
  <2> QED
    BY <1>2, <1>3, <2>1, <2>2, <2>3
<1>4. CASE c.solver[s].type = "http-01"
  <2>1. c.solver[s].webroot \/ c.solver[s].listen
    BY <1>1, <1>2, <1>4 DEF ValidSolvers
  <2> QED
    BY <1>2, <1>4, <2>1
<1> QED
  BY <1>2, <1>3, <1>4

\* An update for a name that has a zone keeps what is known of the updates.
LEMMA UpdateInv ==
    ASSUME Inv, NEW client \in DOMAIN config.dns, NEW name \in Seq(Labels),
           FindZone(config.dns[client], name) # None, Update(client, name), config' = config
    PROVE  /\ \A u \in updates' :
                u.dns \in DOMAIN config.dns /\ u.zone \in AllZones(config.dns[u.dns])
           /\ ClosestZone'
<1> DEFINE new == [dns |-> client, name |-> name, zone |-> FindZone(config.dns[client], name)]
<1>1. updates' = updates \cup {new}
  BY DEF Update
<1>2. config \in Configs
  BY DEF Inv
<1>3. /\ new.zone \in AllZones(config.dns[client]) /\ Matches(new.zone.labels, name)
      /\ \A z \in AllZones(config.dns[client]) :
           Matches(z.labels, name) => Len(z.labels) <= Len(new.zone.labels)
  BY <1>2, FindZoneFinds, FindZoneClosest
<1>4. new.dns = client /\ new.name = name
  OBVIOUS
<1> HIDE DEF new
<1> QED
  BY <1>1, <1>3, <1>4 DEF Inv, TypeOK, ClosestZone

\* A fault that is one of the three gaps keeps AcceptedWorks.
Excused(at) ==
    \/ at = "key" /\ config.certificates[ci].rsa
    \/ at = "order" /\ Wildcard(config.certificates[ci])
    \/ at = "permissions" /\ OwnerMissing(config.certificates[ci])

LEMMA FaultInv ==
    ASSUME Inv, NEW at \in Steps, Fault(at), Excused(at), config' = config
    PROVE  AcceptedWorks' /\ faults' \subseteq [cert: Nat, at: Steps]
<1>1. faults' = faults \cup {[cert |-> ci, at |-> at]}
  BY DEF Fault
<1>2. \A t : Wildcard(t)' <=> Wildcard(t)
  BY DEF Wildcard
<1>3. ci \in Nat
  BY DEF Inv, TypeOK
<1> QED
  BY <1>1, <1>2, <1>3 DEF Inv, TypeOK, AcceptedWorks, Excused

-----------------------------------------------------------------------------
\* Steps that leave the file, the updates and the faults alone.
LEMMA QuietInv ==
    ASSUME Inv, UNCHANGED <<config, updates, faults>>
    PROVE  /\ config' \in Configs /\ AcceptedWorks' /\ ClosestZone'
           /\ Validate(config') <=> Validate(config)
           /\ \A u \in updates' :
                u.dns \in DOMAIN config'.dns /\ u.zone \in AllZones(config'.dns[u.dns])
           /\ faults' \subseteq [cert: Nat, at: Steps]
<1>1. \A t : Wildcard(t)' <=> Wildcard(t)
  BY DEF Wildcard
<1> QED
  BY <1>1 DEF Inv, TypeOK, AcceptedWorks, ClosestZone

\* An error for one of the three gaps, after which the run goes on.
LEMMA FailInv ==
    ASSUME Inv, pc \notin {"file", "rejected"}, NEW at \in Steps, Excused(at), Fail(at)
    PROVE  Inv'
<1>1. AcceptedWorks' /\ faults' \subseteq [cert: Nat, at: Steps]
  BY FaultInv DEF Fail
<1>2. ClosestZone'
  BY DEF Inv, Fail, ClosestZone
<1>3. TypeOK'
  BY <1>1 DEF Inv, TypeOK, Fail
<1> QED
  BY <1>1, <1>2, <1>3 DEF Inv, Fail

\* Only a valid file gets past Load.
LEMMA LoadInv == ASSUME Inv, Load PROVE Inv'
<1>1. UNCHANGED <<config, ci, bi, ni, built, updates, pending, ran, faults>>
  BY DEF Load
<1>2. pc = "file" /\ pc' \in {"cert", "rejected"} /\ (pc' = "cert" => Validate(config))
  BY DEF Load
<1>3. TypeOK'
  BY <1>1, <1>2, QuietInv DEF Inv, TypeOK
<1> QED
  BY <1>1, <1>2, <1>3, QuietInv DEF Inv

\* validate has seen every solver that is built.
LEMMA BuildSolversInv == ASSUME Inv, BuildSolvers PROVE Inv'
<1>1. config \in Configs /\ Validate(config) /\ current \in Elems(config.certificates)
  BY CurrentValid DEF BuildSolvers, Inv
<1>2. None \notin SolverNames /\ \A s \in SolverNames : Buildable(s)
  BY <1>1, DomainValid DEF SolverNames, Buildable
<1>3. /\ pc' = "key" /\ built' = SolverNames
      /\ UNCHANGED <<config, ci, bi, ni, updates, pending, ran, faults>>
      /\ ci \in DOMAIN config.certificates
  BY <1>2 DEF BuildSolvers
<1>4. SolverNames' = SolverNames
  BY <1>3 DEF SolverNames, current
<1>5. TypeOK'
  BY <1>3, QuietInv DEF Inv, TypeOK
<1> QED
  BY <1>1, <1>3, <1>4, <1>5, QuietInv DEF Inv

\* The one reason for a key to fail is its type.
LEMMA DetermineKeyInv == ASSUME Inv, DetermineKey PROVE Inv'
<1>1. CASE current.rsa
  <2>1. Fail("key") /\ Excused("key") /\ "key" \in Steps
    BY <1>1 DEF DetermineKey, Excused, current, Steps
  <2> QED
    BY <2>1, FailInv DEF DetermineKey
<1>2. CASE ~current.rsa
  <2>1. /\ pc = "key" /\ pc' = "order"
        /\ UNCHANGED <<config, ci, bi, ni, built, updates, pending, ran, faults>>
    BY <1>2 DEF DetermineKey
  <2>2. SolverNames' = SolverNames
    BY <2>1 DEF SolverNames, current
  <2>3. TypeOK'
    BY <2>1, QuietInv DEF Inv, TypeOK
  <2> QED
    BY <2>1, <2>2, <2>3, QuietInv DEF Inv
<1> QED
  BY <1>1, <1>2

\* A challenge that is not offered is one for a wildcard.
LEMMA OrderInv == ASSUME Inv, Order PROVE Inv'
<1>1. /\ config \in Configs /\ Validate(config) /\ current \in Elems(config.certificates)
      /\ ci \in DOMAIN config.certificates
  BY CurrentValid DEF Order, Inv, TypeOK
<1>2. CASE \A i \in DOMAIN current.domains : SolverConfig(i).type \in Offered(current.domains[i])
  <2>1. /\ pc = "order" /\ pc' = "present" /\ ni' = 1
        /\ UNCHANGED <<config, ci, bi, built, updates, pending, ran, faults>>
    BY <1>2 DEF Order
  <2>2. SolverNames' = SolverNames
    BY <2>1 DEF SolverNames, current
  <2>3. TypeOK'
    BY <2>1, QuietInv DEF Inv, TypeOK
  <2> QED
    BY <2>1, <2>2, <2>3, QuietInv DEF Inv
<1>3. ASSUME NEW i \in DOMAIN current.domains, SolverConfig(i).type \notin Offered(current.domains[i])
      PROVE  Inv'
  <2>1. Fail("order") /\ "order" \in Steps
    BY <1>3 DEF Order, Steps
  <2> DEFINE s == SolverForDomain(config, current, i)
  <2>2. /\ s \in DOMAIN config.solver
        /\ config.solver[s].type = "dns-01" => ~current.domains[i].ip
    BY <1>1, DomainValid
  <2>3. config.solver[s].type \in {"dns-01", "http-01", "tls-alpn-01"}
    BY <1>1, <2>2, ConfigsAssumption
  <2>4. config.solver[s].type \notin Offered(current.domains[i])
    BY <1>3 DEF SolverConfig
  <2>5. current.domains[i].wild /\ config.solver[s].type # "dns-01"
    <3> HIDE DEF s
    <3> QED BY <2>2, <2>3, <2>4 DEF Offered
  <2>6. Wildcard(current)
    BY <2>5 DEF Wildcard
  <2>7. Excused("order")
    BY <2>6 DEF Excused, current
  <2> QED
    BY <2>1, <2>7, FailInv DEF Order
<1> QED
  BY <1>2, <1>3

\* Every challenge finds its solver, and a dns-01 one its zone and signer.
LEMMA PresentInv == ASSUME Inv, Present PROVE Inv'
<1> DEFINE s == SolverForDomain(config, current, ni)
           client == config.solver[s].dns
           name == ChallengeName(current.domains[ni])
<1>1. /\ config \in Configs /\ Validate(config) /\ current \in Elems(config.certificates)
      /\ ni \in DOMAIN current.domains /\ pc = "present" /\ built = SolverNames
      /\ ci \in DOMAIN config.certificates
  BY CurrentValid DEF Present, Inv, TypeOK
<1>2. /\ s \in built /\ s \in DOMAIN config.solver
      /\ config.solver[s].type = "dns-01" =>
           /\ client \in DOMAIN config.dns /\ LoadSigner(config.dns[client])
           /\ FindZone(config.dns[client], name) # None
  BY <1>1, DomainValid DEF SolverNames, LoadSigner
<1>3. /\ ni' = ni + 1
      /\ UNCHANGED <<config, pc, ci, bi, built, pending, ran, faults>>
      /\ config.solver[s].type = "dns-01" => Update(client, name)
      /\ config.solver[s].type # "dns-01" => updates' = updates
  BY <1>2 DEF Present
<1>4. name \in Seq(Labels)
  <2>1. current.domains[ni].labels \in Seq(Labels)
    BY <1>1, ConfigsAssumption DEF Elems
  <2>2. <<"_acme-challenge">> \in Seq(Labels)
    BY ConfigsAssumption
  <2> QED
    BY <2>1, <2>2, ConcatProperties DEF ChallengeName
<1>5. /\ \A u \in updates' :
           u.dns \in DOMAIN config.dns /\ u.zone \in AllZones(config.dns[u.dns])
      /\ ClosestZone'
  <2>1. CASE config.solver[s].type = "dns-01"
    BY <1>2, <1>3, <1>4, <2>1, UpdateInv
  <2>2. CASE config.solver[s].type # "dns-01"
    <3>1. UNCHANGED <<config, updates, faults>>
      BY <1>3, <2>2
    <3> QED
      BY <1>3, <3>1, QuietInv
  <2> QED
    BY <2>1, <2>2
<1> HIDE DEF s, client, name
<1>6. AcceptedWorks'
  <2>1. \A t : Wildcard(t)' <=> Wildcard(t)
    BY <1>3 DEF Wildcard
  <2> QED
    BY <1>3, <2>1 DEF Inv, AcceptedWorks
<1>7. SolverNames' = SolverNames
  BY <1>3 DEF SolverNames, current
<1>8. TypeOK'
  BY <1>1, <1>3, <1>5 DEF Inv, TypeOK
<1> QED
  BY <1>1, <1>3, <1>5, <1>6, <1>7, <1>8 DEF Inv

\* The key has a place.
LEMMA InstallInv == ASSUME Inv, Install PROVE Inv'
<1>1. /\ Validate(config) /\ ValidCert(config, current) /\ pc = "present"
      /\ ci \in DOMAIN config.certificates
  BY CurrentValid DEF Install, Inv, TypeOK
<1>2. current.stores # {}
  BY <1>1 DEF ValidCert, ValidKey
<1>3. /\ pc' = "permissions"
      /\ UNCHANGED <<config, ci, bi, ni, built, updates, pending, ran, faults>>
  BY <1>2 DEF Install
<1>4. TypeOK'
  BY <1>1, <1>3, QuietInv DEF Inv, TypeOK
<1> QED
  BY <1>1, <1>3, <1>4, QuietInv DEF Inv

\* The modes parse, and so the one reason to fail is an owner.
LEMMA EnsurePermissionsInv == ASSUME Inv, EnsurePermissions PROVE Inv'
<1>1. /\ Validate(config) /\ ValidCert(config, current) /\ pc = "permissions"
      /\ ci \in DOMAIN config.certificates
  BY CurrentValid DEF EnsurePermissions, Inv, TypeOK
<1>2. /\ current.key_mode # None => ParseMode(current.key_mode)
      /\ current.cert_mode # None => ParseMode(current.cert_mode)
  BY <1>1 DEF ValidCert, ValidKey
<1>3. CASE OwnerMissing(current)
  <2>1. Excused("permissions") /\ "permissions" \in Steps
    BY <1>3 DEF Excused, current, Steps
  <2>2. CASE Fail("permissions")
    BY <1>1, <2>1, <2>2, FailInv
  <2>3. CASE ~Fail("permissions")
    <3>1. /\ pc' = "dane" /\ bi' = 1 /\ ni' = 1
          /\ UNCHANGED <<config, ci, built, updates, pending, ran, faults>>
      BY <2>3 DEF EnsurePermissions
    <3>2. TypeOK'
      BY <1>1, <3>1, QuietInv DEF Inv, TypeOK
    <3> QED
      BY <1>1, <3>1, <3>2, QuietInv DEF Inv
  <2> QED
    BY <2>2, <2>3
<1>4. CASE ~OwnerMissing(current)
  <2>1. /\ Applies(current.key_mode, current.key_owner)
        /\ Applies(current.cert_mode, current.cert_owner)
    BY <1>2, <1>4 DEF Applies, OwnerMissing
  <2>2. /\ pc' = "dane" /\ bi' = 1 /\ ni' = 1
        /\ UNCHANGED <<config, ci, built, updates, pending, ran, faults>>
    BY <2>1 DEF EnsurePermissions
  <2>3. TypeOK'
    BY <1>1, <2>2, QuietInv DEF Inv, TypeOK
  <2> QED
    BY <1>1, <2>2, <2>3, QuietInv DEF Inv
<1> QED
  BY <1>3, <1>4

\* Every name of a block finds its client, signer and zone.
LEMMA PublishTlsaInv == ASSUME Inv, PublishTlsa PROVE Inv'
<1> DEFINE block == current.dane[bi]
           more == ni \in DOMAIN block.names
<1>1. /\ config \in Configs /\ Validate(config) /\ ValidCert(config, current)
      /\ current \in Elems(config.certificates)
      /\ bi \in DOMAIN current.dane /\ pc = "dane" /\ ci \in DOMAIN config.certificates
  BY CurrentValid DEF PublishTlsa, Inv, TypeOK
<1>2. block \in Elems(current.dane) /\ ValidDane(config, block)
  BY <1>1 DEF ValidCert, Elems
<1>3. /\ block.dns \in DOMAIN config.dns /\ LoadSigner(config.dns[block.dns])
      /\ more => /\ FindZone(config.dns[block.dns], block.names[ni]) # None
                 /\ block.names[ni] \in Elems(block.names)
  BY <1>1, <1>2 DEF ValidDane, Validate, ValidDns, LoadSigner, Elems
<1>4. more => block.names[ni] \in Seq(Labels)
  BY <1>1, <1>2, <1>3, ConfigsAssumption
<1>5. /\ UNCHANGED <<config, pc, ci, built, pending, ran, faults>>
      /\ more => Update(block.dns, block.names[ni]) /\ ni' = ni + 1 /\ bi' = bi
      /\ ~more => updates' = updates /\ ni' = 1 /\ bi' = bi + 1
  BY <1>3 DEF PublishTlsa
<1>6. /\ \A u \in updates' :
           u.dns \in DOMAIN config.dns /\ u.zone \in AllZones(config.dns[u.dns])
      /\ ClosestZone'
  <2>1. CASE more
    BY <1>3, <1>4, <1>5, <2>1, UpdateInv
  <2>2. CASE ~more
    <3>1. UNCHANGED <<config, updates, faults>>
      BY <1>5, <2>2
    <3> QED
      BY <1>5, <3>1, QuietInv
  <2> QED
    BY <2>1, <2>2
<1> HIDE DEF block, more
<1>7. AcceptedWorks'
  <2>1. \A t : Wildcard(t)' <=> Wildcard(t)
    BY <1>5 DEF Wildcard
  <2> QED
    BY <1>5, <2>1 DEF Inv, AcceptedWorks
<1>8. bi' \in Nat \ {0} /\ ni' \in Nat \ {0}
  BY <1>5 DEF Inv, TypeOK
<1>9. TypeOK'
  BY <1>1, <1>5, <1>6, <1>8 DEF Inv, TypeOK
<1> QED
  BY <1>1, <1>5, <1>6, <1>7, <1>9 DEF Inv

\* The hooks that are collected are defined.
LEMMA InlineHooksInv == ASSUME Inv, InlineHooks PROVE Inv'
<1>1. /\ Validate(config) /\ ValidCert(config, current) /\ pc = "dane"
      /\ ci \in DOMAIN config.certificates
  BY CurrentValid DEF InlineHooks, Inv, TypeOK
<1>2. ~\E h \in Elems(current.inline) : h.empty
  BY <1>1 DEF ValidCert
<1>3. /\ pc' = "cert" /\ ci' = ci + 1 /\ pending' = pending \cup Elems(current.hooks)
      /\ UNCHANGED <<config, bi, ni, built, updates, ran, faults>>
  BY <1>2 DEF InlineHooks
<1>4. \A h \in pending' : \E i \in DOMAIN config.hook : config.hook[i].name = h
  BY <1>1, <1>3 DEF ValidCert, ValidHookRefs, Inv
<1>5. TypeOK'
  BY <1>3, QuietInv DEF Inv, TypeOK
<1> QED
  BY <1>1, <1>3, <1>4, <1>5, QuietInv DEF Inv

\* No named hook is an empty command.
LEMMA RunHooksInv == ASSUME Inv, RunHooks PROVE Inv'
<1>1. Validate(config) /\ pc = "cert"
  BY DEF RunHooks, Inv
<1>2. \A i \in DOMAIN config.hook : ~config.hook[i].empty
  BY <1>1 DEF Validate, ValidHooks
<1>3. /\ pc' = "done" /\ ran' = {i \in DOMAIN config.hook : config.hook[i].name \in pending}
      /\ UNCHANGED <<config, ci, bi, ni, built, updates, pending>>
  BY DEF RunHooks
<1>4. faults' = faults
  BY <1>2, <1>3 DEF RunHooks
<1>5. TypeOK'
  BY <1>3, <1>4, QuietInv DEF Inv, TypeOK
<1> QED
  BY <1>1, <1>3, <1>4, <1>5, QuietInv DEF Inv

\* The invariant holds at first, and every step keeps it.
LEMMA InitInv == ASSUME Init PROVE Inv
  BY DEF Init, Inv, TypeOK, AcceptedWorks, ClosestZone

\* One lemma per action, and stuttering.
LEMMA NextInv == ASSUME Inv, [Next]_vars PROVE Inv'
<1>1. CASE UNCHANGED vars
  <2>1. SolverNames' = SolverNames
    BY <1>1 DEF vars, SolverNames, current
  <2>2. TypeOK'
    BY <1>1 DEF vars, Inv, TypeOK
  <2> QED
    BY <1>1, <2>1, <2>2, QuietInv DEF vars, Inv
<1> QED
  BY <1>1, LoadInv, BuildSolversInv, DetermineKeyInv, OrderInv, PresentInv, InstallInv,
     EnsurePermissionsInv, PublishTlsaInv, InlineHooksInv, RunHooksInv DEF Next

\* Every collected hook is defined, once, and so it is run.
LEMMA InvHooksFound == ASSUME Inv PROVE HooksFound
<1> SUFFICES ASSUME pc = "done", NEW h \in pending
             PROVE  \E i \in ran : /\ config.hook[i].name = h
                                   /\ \A j \in ran : config.hook[j].name = h => j = i
  BY DEF HooksFound
<1>1. PICK i \in DOMAIN config.hook : config.hook[i].name = h
  BY DEF Inv
<1>2. i \in ran /\ ran \subseteq DOMAIN config.hook
  BY <1>1 DEF Inv
<1>3. \A j \in DOMAIN config.hook : config.hook[j].name = h => j = i
  BY <1>1 DEF Inv, Validate, ValidHooks
<1> QED
  BY <1>1, <1>2, <1>3

-----------------------------------------------------------------------------
\* What the other theorems follow from: Inv is an invariant of every run.
THEOREM Invariant == Spec => []Inv
  BY InitInv, NextInv, PTL DEF Spec

\* For every configuration that validate accepts: no lookup of a run fails, except
\* for RSA keys, wildcards without dns-01, and owners that do not exist.
THEOREM AcceptedConfigWorks == Spec => []AcceptedWorks
<1>1. Inv => AcceptedWorks
  BY DEF Inv
<1> QED
  BY <1>1, Invariant, PTL

\* For every set of zones: updates go to the closest zone.
THEOREM UpdatesInClosestZone == Spec => []ClosestZone
<1>1. Inv => ClosestZone
  BY DEF Inv
<1> QED
  BY <1>1, Invariant, PTL

\* For every configuration: the hooks of renewed certificates are run once.
THEOREM NamedHooksRun == Spec => []HooksFound
  BY InvHooksFound, Invariant, PTL
=============================================================================
