------------------------------- MODULE Renew -------------------------------
(***************************************************************************)
(* The renewal engine of certforge (renew.rs, state.rs, dane.rs, and the   *)
(* dane-publish command of main.rs): one process at a time, started by the *)
(* systemd timer or by an operator, working through the configured         *)
(* certificates in order.  What a run leaves behind - state.json, the      *)
(* pending key, the certificate, the key, the TLSA records, the services   *)
(* that have loaded the certificate - is the persistent state; everything  *)
(* else is lost when the process ends, normally or in a crash.             *)
(*                                                                         *)
(* The ACME order is one step here (module AcmeOrder has its details), and *)
(* certificates and keys are identified by model values.  Time is the age  *)
(* of the records and of the pending rotations, saturated at MaxTtl: the   *)
(* code only ever compares an age with a configured TTL.                   *)
(***************************************************************************)
EXTENDS Naturals, Sequences, FiniteSets

CONSTANTS
    NCerts,       \* number of [[certificate]] entries, identified by position
    NHooks,       \* number of [[hook]] entries, identified by position
    Keys,         \* private keys
    Serials,      \* what tells apart two certificates for the same key
    Names,        \* owner names of TLSA records
    MaxTtl,       \* bound: largest TTL configured, in clock ticks
    RotateKey,    \* rotate_key of each certificate
    Dane,         \* the dane blocks of each certificate, a sequence
    NamedHooks,   \* hooks of each certificate, positions in [[hook]]
    InlineHooks,  \* whether the certificate has inline hooks
    Commands,     \* the command lines that may be run
    Faults,       \* the kinds of failure that may happen
    None,         \* absent, or unreadable when it is a certificate or a key
    Corrupt       \* a state.json that does not parse

Certs == 1..NCerts
Ages == 0..MaxTtl

(***************************************************************************)
(* A dane block (DaneConfig); the usage and matching fields and the DNS    *)
(* client do not influence the control flow.                               *)
(***************************************************************************)
DaneBlock == [names: Seq(Names), selector: {"full", "spki"},
              pre_publish: BOOLEAN, ttl: Ages]

(***************************************************************************)
(* A command line: renew (issue is renew with force and a filter) or       *)
(* dane_publish; filter = 0 stands for no --name filter.                   *)
(***************************************************************************)
Command == [op: {"renew", "dane_publish"}, force: BOOLEAN, dry: BOOLEAN,
            filter: 0..NCerts]

FaultKinds == {"crash", "io", "order", "dns", "load_key", "perm", "hook", "acme"}

ASSUME CountsAssumption == NCerts \in Nat /\ NHooks \in Nat /\ MaxTtl \in Nat

ASSUME ConfigAssumption ==
    /\ RotateKey \in [Certs -> BOOLEAN]
    /\ Dane \in [Certs -> Seq(DaneBlock)]
    /\ NamedHooks \in [Certs -> SUBSET (1..NHooks)]
    /\ InlineHooks \in [Certs -> BOOLEAN]
    /\ Commands \subseteq Command
    /\ Faults \subseteq FaultKinds

\* Config::validate rejects a dane block without names.
ASSUME NamesNotEmpty ==
    \A c \in Certs : \A b \in 1..Len(Dane[c]) : Len(Dane[c][b].names) > 0

\* No TLSA name is configured twice, in one certificate or in two.
ASSUME NamesDistinct ==
    \A c1, c2 \in Certs :
      \A b1 \in 1..Len(Dane[c1]), b2 \in 1..Len(Dane[c2]) :
        \A i1 \in 1..Len(Dane[c1][b1].names), i2 \in 1..Len(Dane[c2][b2].names) :
          Dane[c1][b1].names[i1] = Dane[c2][b2].names[i2]
            => c1 = c2 /\ b1 = b2 /\ i1 = i2

ASSUME MarkersAssumption ==
    /\ None \notin Keys
    /\ None \notin Serials
    /\ None \notin [key: Keys, serial: Serials]
    /\ None \notin [elapsed: Ages, old_ttl: Ages]
    /\ None \notin Command
    /\ Corrupt \notin [Certs -> [elapsed: Ages, old_ttl: Ages] \cup {None}]

VARIABLES
    \* on disk, in the DNS and in the services: survives the process
    stateFile,  \* state.json: the pending rotation of each certificate
    pendFile,   \* <state_dir>/pending/<name>.key
    certFile,   \* cert_path
    keyFile,    \* key_path or key_credential
    due,        \* the installed certificate is inside its renewal window
    dns,        \* the TLSA records at each name, each with its age
    owed,       \* hooks that have not run since the certificate was written
    \* the running process
    pc,         \* where it is; "idle" when there is none
    cmd,        \* its command line
    cur,        \* index of the certificate the loop is at
    mem,        \* State in memory
    dirty,      \* state_dirty
    hooksDue,   \* pending_hooks
    hk,         \* index of the next named hook
    key,        \* new_key or key_result.key
    needsSave,  \* key_result.needs_save
    bi, ni,     \* positions in the dane blocks and in a block's names
    maxTtl      \* max_ttl of pre_publish_dane

disk == <<stateFile, pendFile, certFile, keyFile>>
world == <<due, dns, owed>>
run == <<cmd, dirty, hooksDue, hk>>
frame == <<key, needsSave, bi, ni, maxTtl>>
vars == <<stateFile, pendFile, certFile, keyFile, due, dns, owed, pc, cmd, cur,
          mem, dirty, hooksDue, hk, key, needsSave, bi, ni, maxTtl>>

-----------------------------------------------------------------------------
(***************************************************************************)
(* Data.                                                                   *)
(***************************************************************************)
Cert == [key: Keys, serial: Serials]

\* PendingRotation: the time since published_at, and the TTL to wait for.
PendingRotation == [elapsed: Ages, old_ttl: Ages]

\* State: pending_rotations by certificate.
State == [Certs -> PendingRotation \cup {None}]

NoPending == [c \in Certs |-> None]

(***************************************************************************)
(* A TLSA record: the hash of the public key, or that of the certificate,  *)
(* with the time it has been published without interruption.               *)
(***************************************************************************)
Tlsa == [selector: {"spki"}, key: Keys, serial: {None}, age: Ages]
          \cup [selector: {"full"}, key: Keys, serial: Serials, age: Ages]

Inline == 0
HooksOf(c) == NamedHooks[c] \cup (IF InlineHooks[c] THEN {Inline} ELSE {})

Block(c, b) == Dane[c][b]
Blocks(c) == 1..Len(Dane[c])
NamesOf(c, b) == 1..Len(Dane[c][b].names)

\* The blocks determine_key and pre_publish_dane select.
PrePublished(c, b) == Block(c, b).pre_publish /\ Block(c, b).selector = "spki"
NeedsPrePublish(c) == \E b \in Blocks(c) : PrePublished(c, b)

\* CertInfo::load fails, or expires_within_days(renew_before_days).
NeedsRenewal(c) == certFile[c] = None \/ due[c]

\* Mutant: the wait ends one tick early.
TtlExpiredEarly(p) == p.elapsed + 1 >= p.old_ttl

\* PendingRotation::ttl_expired
TtlExpired(p) == p.elapsed >= p.old_ttl

\* Mutant: no filter is taken for a filter that names no certificate.
FilteredUnlessNamed(c) == cmd.filter # c

\* A name_filter that names another certificate.
Filtered(c) == cmd.filter # 0 /\ cmd.filter # c

\* The TLSA names of a certificate.
TlsaNames(c) == UNION {{Block(c, b).names[i] : i \in NamesOf(c, b)} : b \in Blocks(c)}
Published(c) == UNION {dns[n] : n \in TlsaNames(c)}

\* A generated key is none of the keys still in use for the certificate, and a
\* new certificate differs from the old one and from those in TLSA records.
FreshKeys(c) ==
    Keys \ ({keyFile[c], pendFile[c]} \cup {r.key : r \in Published(c)}
             \cup (IF certFile[c] = None THEN {} ELSE {certFile[c].key}))
FreshSerials(c) ==
    Serials \ ({r.serial : r \in Published(c)}
                \cup (IF certFile[c] = None THEN {} ELSE {certFile[c].serial}))

-----------------------------------------------------------------------------
(***************************************************************************)
(* How renew_certificate returns to the loop of run().  Ok(false) and Err  *)
(* are the same to the loop: neither marks the state dirty nor asks for    *)
(* hooks.                                                                  *)
(***************************************************************************)
LeaveCert ==
    /\ pc' = "cert"
    /\ cur' = cur + 1
    /\ key' = None
    /\ needsSave' = FALSE
    /\ bi' = 1
    /\ ni' = 1
    /\ maxTtl' = 0
    /\ UNCHANGED <<cmd, hk>>

\* Mutant: a certificate that was not renewed is tried again.
TryAgain == pc' = "cert" /\ UNCHANGED <<cmd, cur, hk, frame, dirty, hooksDue>>

NotRenewed == LeaveCert /\ UNCHANGED <<dirty, hooksDue>>

\* Mutant: the hooks of the last certificate are run instead of those of all.
LastHooksOnly ==
    /\ LeaveCert
    /\ dirty' = TRUE
    /\ hooksDue' = NamedHooks[cur]

Renewed ==
    /\ LeaveCert
    /\ dirty' = TRUE
    /\ hooksDue' = hooksDue \cup NamedHooks[cur]

\* The process ends; nothing it held in memory survives.
Exit ==
    /\ pc' = "idle"
    /\ cmd' = None
    /\ cur' = 1
    /\ mem' = NoPending
    /\ dirty' = FALSE
    /\ hooksDue' = {}
    /\ hk' = 1
    /\ key' = None
    /\ needsSave' = FALSE
    /\ bi' = 1
    /\ ni' = 1
    /\ maxTtl' = 0

Goto(label) == pc' = label /\ UNCHANGED <<cmd, cur, dirty, hooksDue, hk>>

-----------------------------------------------------------------------------
(***************************************************************************)
(* run(): load the state, then the account, then the loop.                 *)
(***************************************************************************)
Start(cm) ==
    /\ pc = "idle"
    /\ cmd' = cm
    /\ pc' = IF cm.op = "renew" THEN "load" ELSE "dp_cert"
    /\ UNCHANGED <<cur, mem, dirty, hooksDue, hk, frame, disk, world>>

\* State::load: a file that does not parse ends the run.
LoadState ==
    /\ pc = "load"
    /\ IF stateFile = Corrupt
         THEN Exit
         ELSE mem' = stateFile /\ Goto("acme") /\ UNCHANGED frame
    /\ UNCHANGED <<disk, world>>

\* AcmeClient::new
AcmeNew ==
    /\ pc = "acme"
    /\ Goto("cert")
    /\ UNCHANGED <<mem, frame, disk, world>>

AcmeNewFails ==
    /\ pc = "acme"
    /\ "acme" \in Faults
    /\ Exit
    /\ UNCHANGED <<disk, world>>

SkipCert ==
    /\ pc = "cert" /\ cur \in Certs
    /\ Filtered(cur)
    /\ NotRenewed
    /\ UNCHANGED <<mem, disk, world>>

CertsDone ==
    /\ pc = "cert" /\ cur \notin Certs
    /\ Goto("hooks")
    /\ UNCHANGED <<mem, frame, disk, world>>

-----------------------------------------------------------------------------
(***************************************************************************)
(* renew_certificate: the pending rotation, then the expiry.               *)
(***************************************************************************)
\* Mutant: the TTL of a pending rotation is never looked at.
WaitingForEver(c) == mem[c] # None

Waiting(c) == mem[c] # None /\ ~TtlExpired(mem[c])

WaitForTtl ==
    /\ pc = "cert" /\ cur \in Certs /\ ~Filtered(cur)
    /\ Waiting(cur)
    /\ NotRenewed
    /\ UNCHANGED <<mem, disk, world>>

NotDue ==
    /\ pc = "cert" /\ cur \in Certs /\ ~Filtered(cur)
    /\ ~Waiting(cur)
    /\ ~cmd.force /\ ~NeedsRenewal(cur)
    /\ NotRenewed
    /\ UNCHANGED <<mem, disk, world>>

MustRenew ==
    /\ pc = "cert" /\ cur \in Certs /\ ~Filtered(cur)
    /\ ~Waiting(cur)
    /\ cmd.force \/ NeedsRenewal(cur)
    /\ Goto("key")
    /\ UNCHANGED <<mem, frame, disk, world>>

(***************************************************************************)
(* determine_key.  With a key in hand a dry run is over, and counts as     *)
(* renewed.                                                                *)
(***************************************************************************)
UseKey(k, save) ==
    IF cmd.dry
      THEN Renewed
      ELSE /\ key' = k
           /\ needsSave' = save
           /\ Goto("order")
           /\ UNCHANGED <<bi, ni, maxTtl>>

TakePending ==
    /\ pc = "key" /\ mem[cur] # None
    /\ pendFile[cur] # None
    /\ mem' = [mem EXCEPT ![cur] = None]
    /\ UseKey(pendFile[cur], TRUE)
    /\ UNCHANGED <<disk, world>>

TakePendingFails ==
    /\ pc = "key" /\ mem[cur] # None
    /\ pendFile[cur] = None \/ "load_key" \in Faults
    /\ mem' = [mem EXCEPT ![cur] = None]
    /\ NotRenewed
    /\ UNCHANGED <<disk, world>>

\* Mutant: rotate_key is forgotten when there is a key.
RotateUnlessPresent ==
    /\ pc = "key" /\ mem[cur] = None
    /\ RotateKey[cur] /\ ~NeedsPrePublish(cur)
    /\ IF keyFile[cur] # None
         THEN UseKey(keyFile[cur], FALSE)
         ELSE \E k \in FreshKeys(cur) : UseKey(k, TRUE)
    /\ UNCHANGED <<mem, disk, world>>

RotateNow ==
    /\ pc = "key" /\ mem[cur] = None
    /\ RotateKey[cur] /\ ~NeedsPrePublish(cur)
    /\ \E k \in FreshKeys(cur) : UseKey(k, TRUE)
    /\ UNCHANGED <<mem, disk, world>>

PrePublishDry ==
    /\ pc = "key" /\ mem[cur] = None
    /\ RotateKey[cur] /\ NeedsPrePublish(cur) /\ cmd.dry
    /\ NotRenewed
    /\ UNCHANGED <<mem, disk, world>>

\* Mutant: the dry run is not told apart.
PrePublishAlways ==
    /\ pc = "key" /\ mem[cur] = None
    /\ RotateKey[cur] /\ NeedsPrePublish(cur)
    /\ \E k \in FreshKeys(cur) : key' = k
    /\ Goto("write_pending")
    /\ UNCHANGED <<mem, needsSave, bi, ni, maxTtl, disk, world>>

PrePublish ==
    /\ pc = "key" /\ mem[cur] = None
    /\ RotateKey[cur] /\ NeedsPrePublish(cur) /\ ~cmd.dry
    /\ \E k \in FreshKeys(cur) : key' = k
    /\ Goto("write_pending")
    /\ UNCHANGED <<mem, needsSave, bi, ni, maxTtl, disk, world>>

LoadKey ==
    /\ pc = "key" /\ mem[cur] = None
    /\ ~RotateKey[cur]
    /\ keyFile[cur] # None
    /\ UseKey(keyFile[cur], FALSE)
    /\ UNCHANGED <<mem, disk, world>>

\* Mutant: a key is generated although there is one.
GenerateAlways ==
    /\ pc = "key" /\ mem[cur] = None
    /\ ~RotateKey[cur]
    /\ \E k \in FreshKeys(cur) : UseKey(k, TRUE)
    /\ UNCHANGED <<mem, disk, world>>

\* The key is absent, or loading it fails for any other reason.
GenerateKey ==
    /\ pc = "key" /\ mem[cur] = None
    /\ ~RotateKey[cur]
    /\ keyFile[cur] = None \/ "load_key" \in Faults
    /\ \E k \in FreshKeys(cur) : UseKey(k, TRUE)
    /\ UNCHANGED <<mem, disk, world>>

-----------------------------------------------------------------------------
(***************************************************************************)
(* Pre-publication of the new key: the pending key file, the TLSA records  *)
(* block by block and name by name, then the state.                        *)
(***************************************************************************)
WritePendingKey ==
    /\ pc = "write_pending"
    /\ pendFile' = [pendFile EXCEPT ![cur] = key]
    /\ Goto("pre_block")
    /\ UNCHANGED <<mem, frame, stateFile, certFile, keyFile, world>>

\* A failed write leaves the old contents or a torn file, a failed chmod the key.
WritePendingKeyFails ==
    /\ pc = "write_pending"
    /\ "io" \in Faults
    /\ \E kept \in {pendFile[cur], None, key} : pendFile' = [pendFile EXCEPT ![cur] = kept]
    /\ NotRenewed
    /\ UNCHANGED <<mem, stateFile, certFile, keyFile, world>>

\* Mutant: the wait is that of the first block.
FirstTtl(m, n) == IF m > 0 THEN m ELSE n

Larger(m, n) == IF m >= n THEN m ELSE n

PreBlock ==
    /\ pc = "pre_block" /\ bi \in Blocks(cur)
    /\ PrePublished(cur, bi)
    /\ maxTtl' = Larger(maxTtl, Block(cur, bi).ttl)
    /\ ni' = 1
    /\ Goto("add_tlsa")
    /\ UNCHANGED <<mem, key, needsSave, bi, disk, world>>

PreBlockSkip ==
    /\ pc = "pre_block" /\ bi \in Blocks(cur)
    /\ ~PrePublished(cur, bi)
    /\ bi' = bi + 1
    /\ Goto("pre_block")
    /\ UNCHANGED <<mem, key, needsSave, ni, maxTtl, disk, world>>

PreBlocksDone ==
    /\ pc = "pre_block" /\ bi \notin Blocks(cur)
    /\ Goto("save_pending")
    /\ UNCHANGED <<mem, frame, disk, world>>

\* compute_tlsa_from_key and compute_tlsa_records
TlsaFromKey(k) == [selector |-> "spki", key |-> k, serial |-> None, age |-> 0]
TlsaFromCert(cert, selector) ==
    IF selector = "spki"
      THEN TlsaFromKey(cert.key)
      ELSE [selector |-> "full", key |-> cert.key, serial |-> cert.serial, age |-> 0]

SameTlsa(r, s) == r.selector = s.selector /\ r.key = s.key /\ r.serial = s.serial

(***************************************************************************)
(* DnsUpdater::add_tlsa_record: client.create, whose RFC 2136 prerequisite *)
(* is that the name has no TLSA record.                                    *)
(***************************************************************************)
CreateAllowed(n) == dns[n] = {}
Create(n, r) == dns' = [dns EXCEPT ![n] = @ \cup {r}]

\* Mutant: the new record is added to the old ones.
AddOnly(n, r) ==
    dns' = [dns EXCEPT ![n] = @ \cup (IF \E s \in @ : SameTlsa(r, s) THEN {} ELSE {r})]

\* Mutant: the records are deleted and added in two updates.
DeleteThenAdd(n, r) == dns' = [dns EXCEPT ![n] = {r}]

(***************************************************************************)
(* DnsUpdater::replace_tlsa_records: delete all and add one, in one update *)
(* message; a record that was there before has been published all along.   *)
(***************************************************************************)
Replace(n, r) ==
    dns' = [dns EXCEPT ![n] = IF \E s \in @ : SameTlsa(r, s)
                                THEN {s \in @ : SameTlsa(r, s)}
                                ELSE {r}]

\* Mutant: one name too many.
OneNameTooMany(label) ==
    IF ni <= Len(Block(cur, bi).names)
      THEN ni' = ni + 1 /\ bi' = bi /\ Goto(pc)
      ELSE ni' = 1 /\ bi' = bi + 1 /\ Goto(label)

\* Mutant: the record goes to the first name only.
FirstNameOnly(label) == ni' = 1 /\ bi' = bi + 1 /\ Goto(label)

\* The position after name ni of block bi; label is where the next block starts.
NextName(label) ==
    IF ni < Len(Block(cur, bi).names)
      THEN ni' = ni + 1 /\ bi' = bi /\ Goto(pc)
      ELSE ni' = 1 /\ bi' = bi + 1 /\ Goto(label)

AddTlsa ==
    /\ pc = "add_tlsa"
    /\ CreateAllowed(Block(cur, bi).names[ni])
    /\ Create(Block(cur, bi).names[ni], TlsaFromKey(key))
    /\ NextName("pre_block")
    /\ UNCHANGED <<mem, key, needsSave, maxTtl, disk, due, owed>>

\* Mutant: the error is logged and the next name is tried.
AddTlsaErrorLogged ==
    /\ pc = "add_tlsa"
    /\ ~CreateAllowed(Block(cur, bi).names[ni]) \/ "dns" \in Faults
    /\ NextName("pre_block")
    /\ UNCHANGED <<mem, key, needsSave, maxTtl, disk, world>>

\* The name already has a TLSA record, or the server cannot be reached ...
AddTlsaRefused ==
    /\ pc = "add_tlsa"
    /\ ~CreateAllowed(Block(cur, bi).names[ni]) \/ "dns" \in Faults
    /\ NotRenewed
    /\ UNCHANGED <<mem, disk, world>>

\* ... or the update is applied and its answer is lost.
AddTlsaUnanswered ==
    /\ pc = "add_tlsa"
    /\ "dns" \in Faults
    /\ CreateAllowed(Block(cur, bi).names[ni])
    /\ Create(Block(cur, bi).names[ni], TlsaFromKey(key))
    /\ NotRenewed
    /\ UNCHANGED <<mem, disk, due, owed>>

InsertPending ==
    mem' = [mem EXCEPT ![cur] = [elapsed |-> 0, old_ttl |-> maxTtl]]

\* Insert, State::save, and Ok(None) from determine_key: renewal is deferred.
SavePending ==
    /\ pc = "save_pending"
    /\ InsertPending
    /\ stateFile' = mem'
    /\ NotRenewed
    /\ UNCHANGED <<pendFile, certFile, keyFile, world>>

SavePendingFails ==
    /\ pc = "save_pending"
    /\ "io" \in Faults
    /\ InsertPending
    /\ stateFile' \in {stateFile, Corrupt}
    /\ NotRenewed
    /\ UNCHANGED <<pendFile, certFile, keyFile, world>>

-----------------------------------------------------------------------------
(***************************************************************************)
(* The ACME order (CSR, challenges, finalization, download; the cleanup of *)
(* the challenges comes before the result is looked at), then the files.   *)
(***************************************************************************)
Order ==
    /\ pc = "order"
    /\ Goto("write_cert")
    /\ UNCHANGED <<mem, frame, disk, world>>

OrderFails ==
    /\ pc = "order"
    /\ "order" \in Faults
    /\ NotRenewed
    /\ UNCHANGED <<mem, disk, world>>

\* Mutant: the key is not saved.
WriteCertOnly ==
    /\ pc = "write_cert"
    /\ \E s \in FreshSerials(cur) :
         certFile' = [certFile EXCEPT ![cur] = [key |-> key, serial |-> s]]
    /\ due' = [due EXCEPT ![cur] = FALSE]
    /\ owed' = [owed EXCEPT ![cur] = HooksOf(cur)]
    /\ Goto("perms")
    /\ UNCHANGED <<mem, frame, stateFile, pendFile, keyFile, dns>>

WriteCert ==
    /\ pc = "write_cert"
    /\ \E s \in FreshSerials(cur) :
         certFile' = [certFile EXCEPT ![cur] = [key |-> key, serial |-> s]]
    /\ due' = [due EXCEPT ![cur] = FALSE]
    /\ owed' = [owed EXCEPT ![cur] = HooksOf(cur)]
    /\ Goto(IF needsSave THEN "save_key" ELSE "perms")
    /\ UNCHANGED <<mem, frame, stateFile, pendFile, keyFile, dns>>

WriteCertFails ==
    /\ pc = "write_cert"
    /\ "io" \in Faults
    /\ \/ UNCHANGED <<certFile, due>>
       \/ /\ certFile' = [certFile EXCEPT ![cur] = None]
          /\ due' = [due EXCEPT ![cur] = FALSE]
    /\ NotRenewed
    /\ UNCHANGED <<mem, stateFile, pendFile, keyFile, dns, owed>>

SaveKey ==
    /\ pc = "save_key"
    /\ keyFile' = [keyFile EXCEPT ![cur] = key]
    /\ Goto("perms")
    /\ UNCHANGED <<mem, frame, stateFile, pendFile, certFile, world>>

SaveKeyFails ==
    /\ pc = "save_key"
    /\ "io" \in Faults
    /\ \E kept \in {keyFile[cur], None} : keyFile' = [keyFile EXCEPT ![cur] = kept]
    /\ NotRenewed
    /\ UNCHANGED <<mem, stateFile, pendFile, certFile, world>>

\* permissions::ensure_permissions: an error ends the renewal here.
Permissions ==
    /\ pc = "perms"
    /\ Goto("publish")
    /\ UNCHANGED <<mem, frame, disk, world>>

PermissionsFail ==
    /\ pc = "perms"
    /\ "perm" \in Faults
    /\ NotRenewed
    /\ UNCHANGED <<mem, disk, world>>

(***************************************************************************)
(* publish_tlsa for each dane block; a failure gives up the block's        *)
(* remaining names and goes on with the next block.                        *)
(***************************************************************************)
CurrentTlsa == TlsaFromCert(certFile[cur], Block(cur, bi).selector)

PublishTlsa ==
    /\ pc = "publish" /\ bi \in Blocks(cur)
    /\ Replace(Block(cur, bi).names[ni], CurrentTlsa)
    /\ NextName("publish")
    /\ UNCHANGED <<mem, key, needsSave, maxTtl, disk, due, owed>>

\* Mutant: a DNS error ends the renewal before the hooks.
PublishErrorFatal ==
    /\ pc = "publish" /\ bi \in Blocks(cur)
    /\ "dns" \in Faults
    /\ dns' = dns \/ Replace(Block(cur, bi).names[ni], CurrentTlsa)
    /\ NotRenewed
    /\ UNCHANGED <<mem, disk, due, owed>>

PublishTlsaFails ==
    /\ pc = "publish" /\ bi \in Blocks(cur)
    /\ "dns" \in Faults
    /\ dns' = dns \/ Replace(Block(cur, bi).names[ni], CurrentTlsa)
    /\ bi' = bi + 1
    /\ ni' = 1
    /\ Goto("publish")
    /\ UNCHANGED <<mem, key, needsSave, maxTtl, disk, due, owed>>

\* All blocks are done: the inline hooks, and Ok(true).
RunInlineHooks ==
    /\ pc = "publish" /\ bi \notin Blocks(cur)
    /\ owed' = [owed EXCEPT ![cur] = @ \ {Inline}]
    /\ Renewed
    /\ UNCHANGED <<mem, disk, due, dns>>

InlineHooksFail ==
    /\ pc = "publish" /\ bi \notin Blocks(cur)
    /\ "hook" \in Faults
    /\ Renewed
    /\ UNCHANGED <<mem, disk, world>>

-----------------------------------------------------------------------------
(***************************************************************************)
(* The end of run(): the named hooks in definition order, each at most     *)
(* once, then State::save if any certificate was renewed.                  *)
(***************************************************************************)
NextHook ==
    /\ hk' = hk + 1
    /\ UNCHANGED <<pc, cmd, cur, mem, dirty, hooksDue, frame>>

SkipHook ==
    /\ pc = "hooks" /\ hk \in 1..NHooks
    /\ hk \notin hooksDue
    /\ NextHook
    /\ UNCHANGED <<disk, world>>

\* One run of the hook serves every certificate; a dry run only logs it.
RunHook ==
    /\ pc = "hooks" /\ hk \in hooksDue
    /\ owed' = IF cmd.dry THEN owed ELSE [c \in Certs |-> owed[c] \ {hk}]
    /\ NextHook
    /\ UNCHANGED <<disk, due, dns>>

HookFails ==
    /\ pc = "hooks" /\ hk \in hooksDue
    /\ "hook" \in Faults
    /\ NextHook
    /\ UNCHANGED <<disk, world>>

\* Mutant: the state is saved whether or not a certificate was renewed.
SaveAlways ==
    /\ pc = "hooks" /\ hk \notin 1..NHooks
    /\ stateFile' = mem
    /\ Exit
    /\ UNCHANGED <<pendFile, certFile, keyFile, world>>

SaveState ==
    /\ pc = "hooks" /\ hk \notin 1..NHooks
    /\ stateFile' = IF dirty THEN mem ELSE stateFile
    /\ Exit
    /\ UNCHANGED <<pendFile, certFile, keyFile, world>>

SaveStateFails ==
    /\ pc = "hooks" /\ hk \notin 1..NHooks
    /\ dirty /\ "io" \in Faults
    /\ stateFile' \in {stateFile, Corrupt}
    /\ Exit
    /\ UNCHANGED <<pendFile, certFile, keyFile, world>>

-----------------------------------------------------------------------------
(***************************************************************************)
(* The dane-publish command: replaces the records of the selected          *)
(* certificates from the installed certificates; the first error ends it.  *)
(***************************************************************************)
DanePublishSkip ==
    /\ pc = "dp_cert" /\ cur \in Certs
    /\ Filtered(cur) \/ Dane[cur] = <<>>
    /\ cur' = cur + 1
    /\ UNCHANGED <<pc, mem, run, frame, disk, world>>

DanePublishLoad ==
    /\ pc = "dp_cert" /\ cur \in Certs
    /\ ~Filtered(cur) /\ Dane[cur] # <<>>
    /\ IF certFile[cur] = None
         THEN Exit
         ELSE Goto("dp_replace") /\ UNCHANGED <<mem, frame>>
    /\ UNCHANGED <<disk, world>>

DanePublishReplace ==
    /\ pc = "dp_replace" /\ bi \in Blocks(cur)
    /\ IF cmd.dry THEN dns' = dns ELSE Replace(Block(cur, bi).names[ni], CurrentTlsa)
    /\ NextName("dp_replace")
    /\ UNCHANGED <<mem, key, needsSave, maxTtl, disk, due, owed>>

DanePublishFails ==
    /\ pc = "dp_replace" /\ bi \in Blocks(cur)
    /\ ~cmd.dry /\ "dns" \in Faults
    /\ dns' = dns \/ Replace(Block(cur, bi).names[ni], CurrentTlsa)
    /\ Exit
    /\ UNCHANGED <<disk, due, owed>>

DanePublishNext ==
    /\ pc = "dp_replace" /\ bi \notin Blocks(cur)
    /\ cur' = cur + 1
    /\ pc' = "dp_cert"
    /\ bi' = 1
    /\ ni' = 1
    /\ UNCHANGED <<mem, run, key, needsSave, maxTtl, disk, world>>

DanePublishDone ==
    /\ pc = "dp_cert" /\ cur \notin Certs
    /\ Exit
    /\ UNCHANGED <<disk, world>>

-----------------------------------------------------------------------------
(***************************************************************************)
(* The dane-check command reads the zone through query_tlsa and compares   *)
(* it with the installed certificates.  A certificate that cannot be       *)
(* loaded is reported and does not count as a failure.                     *)
(***************************************************************************)
QueryTlsa(n) == dns[n]

CheckName(c, b, n) ==
    IF QueryTlsa(n) = {} THEN "MISSING"
    ELSE IF \E r \in QueryTlsa(n) : SameTlsa(r, TlsaFromCert(certFile[c], Block(c, b).selector))
      THEN "OK"
      ELSE "MISMATCH"

CheckCert(c) ==
    certFile[c] # None =>
      \A b \in Blocks(c) : \A i \in NamesOf(c, b) : CheckName(c, b, Block(c, b).names[i]) = "OK"

\* all_ok of a dane-check with the filter f, where no query fails.
DaneCheck(f) == \A c \in Certs : (f = 0 \/ f = c) => CheckCert(c)

-----------------------------------------------------------------------------
(***************************************************************************)
(* The environment: the process dies between two steps or in the middle of *)
(* a file write, time passes, a certificate enters its renewal window.     *)
(***************************************************************************)
Crash ==
    /\ pc # "idle"
    /\ "crash" \in Faults
    /\ Exit
    /\ UNCHANGED <<disk, world>>

CrashInWrite ==
    /\ "crash" \in Faults
    /\ \/ /\ pc = "save_pending" \/ (pc = "hooks" /\ hk \notin 1..NHooks /\ dirty)
          /\ stateFile' = Corrupt
          /\ UNCHANGED <<pendFile, certFile, keyFile, due>>
       \/ /\ pc = "write_pending"
          /\ pendFile' = [pendFile EXCEPT ![cur] = None]
          /\ UNCHANGED <<stateFile, certFile, keyFile, due>>
       \/ /\ pc = "write_cert"
          /\ certFile' = [certFile EXCEPT ![cur] = None]
          /\ due' = [due EXCEPT ![cur] = FALSE]
          /\ UNCHANGED <<stateFile, pendFile, keyFile>>
       \/ /\ pc = "save_key"
          /\ keyFile' = [keyFile EXCEPT ![cur] = None]
          /\ UNCHANGED <<stateFile, pendFile, certFile, due>>
    /\ Exit
    /\ UNCHANGED <<dns, owed>>

Older(a) == IF a < MaxTtl THEN a + 1 ELSE a
OlderState(s) ==
    [c \in Certs |-> IF s[c] = None THEN None ELSE [s[c] EXCEPT !.elapsed = Older(@)]]

Tick ==
    /\ stateFile' = IF stateFile = Corrupt THEN Corrupt ELSE OlderState(stateFile)
    /\ mem' = OlderState(mem)
    /\ dns' = [n \in Names |-> {[r EXCEPT !.age = Older(@)] : r \in dns[n]}]
    /\ UNCHANGED <<pendFile, certFile, keyFile, due, owed, pc, cur, run, frame>>

BecomesDue(c) ==
    /\ certFile[c] # None /\ ~due[c]
    /\ due' = [due EXCEPT ![c] = TRUE]
    /\ UNCHANGED <<disk, dns, owed, pc, cur, mem, run, frame>>

-----------------------------------------------------------------------------
\* Records that have been there for long.
InstalledTlsa == {r \in Tlsa : r.age = MaxTtl}

\* A host before its first run, or one whose certificates were installed by hand
\* with or without their TLSA records.
Init ==
    /\ stateFile = NoPending
    /\ pendFile = [c \in Certs |-> None]
    /\ certFile \in [Certs -> Cert \cup {None}]
    /\ keyFile = [c \in Certs |-> IF certFile[c] = None THEN None ELSE certFile[c].key]
    /\ due = [c \in Certs |-> FALSE]
    /\ dns \in [Names -> {{}} \cup {{r} : r \in InstalledTlsa}]
    /\ \A n \in Names : \A r \in dns[n] :
         \E c \in Certs : \E b \in Blocks(c) :
           /\ \E i \in NamesOf(c, b) : n = Block(c, b).names[i]
           /\ certFile[c] # None
           /\ SameTlsa(r, TlsaFromCert(certFile[c], Block(c, b).selector))
    /\ owed = [c \in Certs |-> {}]
    /\ pc = "idle"
    /\ cmd = None
    /\ cur = 1
    /\ mem = NoPending
    /\ dirty = FALSE
    /\ hooksDue = {}
    /\ hk = 1
    /\ key = None
    /\ needsSave = FALSE
    /\ bi = 1
    /\ ni = 1
    /\ maxTtl = 0

DetermineKey ==
    \/ TakePending \/ TakePendingFails \/ RotateNow \/ PrePublishDry \/ PrePublish
    \/ LoadKey \/ GenerateKey

PrePublishSteps ==
    \/ WritePendingKey \/ WritePendingKeyFails
    \/ PreBlock \/ PreBlockSkip \/ PreBlocksDone
    \/ AddTlsa \/ AddTlsaRefused \/ AddTlsaUnanswered
    \/ SavePending \/ SavePendingFails

IssueSteps ==
    \/ Order \/ OrderFails \/ WriteCert \/ WriteCertFails \/ SaveKey \/ SaveKeyFails
    \/ Permissions \/ PermissionsFail \/ PublishTlsa \/ PublishTlsaFails
    \/ RunInlineHooks \/ InlineHooksFail

RunSteps ==
    \/ LoadState \/ AcmeNew \/ AcmeNewFails \/ SkipCert \/ CertsDone
    \/ WaitForTtl \/ NotDue \/ MustRenew
    \/ SkipHook \/ RunHook \/ HookFails \/ SaveState \/ SaveStateFails

DanePublishSteps ==
    \/ DanePublishSkip \/ DanePublishLoad \/ DanePublishReplace \/ DanePublishFails
    \/ DanePublishNext \/ DanePublishDone

\* What the running process does by itself.
Process == RunSteps \/ DetermineKey \/ PrePublishSteps \/ IssueSteps \/ DanePublishSteps

Next ==
    \/ \E cm \in Commands : Start(cm)
    \/ Process
    \/ Crash
    \/ CrashInWrite
    \/ Tick
    \/ \E c \in Certs : BecomesDue(c)

Spec == Init /\ [][Next]_vars

(***************************************************************************)
(* The timer starts a plain renew again and again, whatever an operator    *)
(* runs in between (it does not ask whether another certforge is running); *)
(* a process that runs goes on (requests and commands are taken to end),   *)
(* and time passes.                                                        *)
(***************************************************************************)
Timer == [op |-> "renew", force |-> FALSE, dry |-> FALSE, filter |-> 0]

Fairness ==
    /\ SF_vars(Start(Timer))
    /\ WF_vars(Process)
    /\ WF_vars(Tick)

FairSpec == Spec /\ Fairness

-----------------------------------------------------------------------------
(***************************************************************************)
(* Properties.                                                             *)
(***************************************************************************)
Labels ==
    {"idle", "load", "acme", "cert", "key", "write_pending", "pre_block", "add_tlsa",
     "save_pending", "order", "write_cert", "save_key", "perms", "publish", "hooks",
     "dp_cert", "dp_replace"}

DiskOK ==
    /\ stateFile \in State \cup {Corrupt}
    /\ pendFile \in [Certs -> Keys \cup {None}]
    /\ certFile \in [Certs -> Cert \cup {None}]
    /\ keyFile \in [Certs -> Keys \cup {None}]
    /\ due \in [Certs -> BOOLEAN]
    /\ dns \in [Names -> SUBSET Tlsa]
    /\ owed \in [Certs -> SUBSET (0..NHooks)]

ProcessOK ==
    /\ pc \in Labels
    /\ cmd \in Command \cup {None}
    /\ cur \in 1..(NCerts + 1)
    /\ mem \in State
    /\ dirty \in BOOLEAN
    /\ hooksDue \in SUBSET (1..NHooks)
    /\ hk \in 1..(NHooks + 1)
    /\ key \in Keys \cup {None}
    /\ needsSave \in BOOLEAN
    /\ bi \in Nat \ {0}
    /\ ni \in Nat \ {0}
    /\ maxTtl \in Ages

PositionOK ==
    /\ pc # "idle" => cmd # None
    /\ pc \notin {"idle", "load", "acme", "cert", "hooks", "dp_cert"} => cur \in Certs
    /\ pc \in {"write_pending", "pre_block", "add_tlsa", "save_pending", "order",
               "write_cert", "save_key"} => key # None
    /\ pc \in {"save_key", "perms", "publish", "dp_replace"} => certFile[cur] # None
    /\ pc \in {"pre_block", "publish", "dp_replace"} => bi \in 1..(Len(Dane[cur]) + 1)
    /\ pc \in {"publish", "dp_replace"} /\ bi \in Blocks(cur) => ni \in NamesOf(cur, bi)
    /\ pc = "add_tlsa" =>
         bi \in Blocks(cur) /\ ni \in NamesOf(cur, bi) /\ PrePublished(cur, bi)
    /\ pc \in {"idle", "load", "acme", "cert", "key", "write_pending", "order",
               "write_cert", "save_key", "perms", "hooks", "dp_cert"} => bi = 1 /\ ni = 1
    /\ pc = "pre_block" => ni = 1

\* The variables hold what the code's types allow, and a process that is inside
\* a certificate or inside a dane block is at one that exists: no index of the
\* code is out of range, no absent key or certificate is used.
TypeOK == DiskOK /\ ProcessOK /\ PositionOK

\* In the records d, the name n announces the public key k, and has done so for
\* at least a ticks.
PublishedFor(d, n, k, a) ==
    \E r \in d[n] : r.selector = "spki" /\ r.key = k /\ r.age >= a

\* Every pre-published name of c has announced the key k for its whole TTL.
AgedFor(d, k, c) ==
    \A b \in Blocks(c) : PrePublished(c, b) =>
      \A i \in NamesOf(c, b) :
        PublishedFor(d, Block(c, b).names[i], k, Block(c, b).ttl)

\* A certificate that rotates its key with pre-publication is only ever replaced
\* by one whose key has been in the TLSA records of every pre-published name for
\* the whole TTL of that name: the wait of PendingRotation::ttl_expired, across
\* runs, crashes, failed writes and failed DNS updates.
RotationSafe ==
    [][\A c \in Certs :
         RotateKey[c] /\ certFile'[c] # certFile[c] /\ certFile'[c] # None
           => AgedFor(dns, certFile'[c].key, c)]_vars

\* A pending rotation p of c is backed by the records d: the pending key k exists,
\* every pre-published name has announced it since the clock of p started, and
\* the wait is at least as long as the TTL.
BackedBy(d, k, c, p) ==
    /\ k # None
    /\ \A b \in Blocks(c) : PrePublished(c, b) =>
         /\ p.old_ttl >= Block(c, b).ttl
         /\ \A i \in NamesOf(c, b) : PublishedFor(d, Block(c, b).names[i], k, p.elapsed)

\* Every pending rotation that state.json records, or the running process holds,
\* is backed: determine_key saves the state last, after the file and the records.
PendingBacked ==
    \A c \in Certs :
      /\ stateFile # Corrupt /\ stateFile[c] # None
           => BackedBy(dns, pendFile[c], c, stateFile[c])
      /\ mem[c] # None => BackedBy(dns, pendFile[c], c, mem[c])

Preparing == pc \in {"write_pending", "pre_block", "add_tlsa", "save_pending"}
Issuing == pc \in {"order", "write_cert", "save_key", "perms", "publish"}

\* A certificate the loop has still to decide about.
Unreached(c) ==
    \/ pc \in {"acme", "cert", "key"} /\ c >= cur
    \/ Preparing /\ c >= cur
    \/ Issuing /\ c > cur

\* The names before position (b0, i0) announce the key k, and t is no less than
\* the TTLs of their blocks.
AnnouncedUpTo(d, k, c, t, b0, i0) ==
    \A b \in Blocks(c) : PrePublished(c, b) =>
      \A i \in NamesOf(c, b) :
        (b < b0 \/ (b = b0 /\ i < i0)) =>
          t >= Block(c, b).ttl /\ PublishedFor(d, Block(c, b).names[i], k, 0)

\* What makes PendingBacked and RotationSafe inductive: memory and state.json
\* agree on the certificates still to come, the pre-publication has announced
\* what it has gone through, and a key on its way into a certificate is the
\* pending one, announced for long enough.
RotationInv ==
    /\ PendingBacked
    /\ stateFile # Corrupt =>
         \A c \in Certs : Unreached(c) /\ mem[c] = None => stateFile[c] = None
    /\ pc = "key" /\ mem[cur] # None => TtlExpired(mem[cur])
    /\ Preparing \/ Issuing => mem[cur] = None
    /\ pc \in {"pre_block", "add_tlsa", "save_pending"} =>
         pendFile[cur] = key /\ AnnouncedUpTo(dns, key, cur, maxTtl, bi, ni)
    /\ pc = "add_tlsa" => maxTtl >= Block(cur, bi).ttl
    /\ pc = "save_pending" => \A b \in Blocks(cur) : b < bi
    /\ Issuing /\ stateFile # Corrupt /\ stateFile[cur] # None => key = pendFile[cur]
    /\ Issuing /\ RotateKey[cur] => AgedFor(dns, key, cur)
    /\ pc \in {"save_key", "perms", "publish"} => certFile[cur].key = key

DryRun == cmd # None /\ cmd.dry

\* A pending rotation leaves state.json only once the certificate for its key is
\* installed (run() saves the state at its end, and only after a success); dry
\* runs have a property of their own.  This is a property of a run over one certificate:
\* with several, determine_key takes the rotation of one out of the memory, its order
\* fails, and the success of another saves the state without it.
PendingKept ==
    [][\A c \in Certs :
         /\ ~DryRun
         /\ stateFile # Corrupt /\ stateFile[c] # None
         /\ stateFile' # Corrupt /\ stateFile'[c] = None
         => certFile[c] # None /\ certFile[c].key = pendFile[c]]_vars

\* The installed certificate is for the installed key, except between the two
\* writes of renew_certificate.
KeyMatchesCert ==
    \A c \in Certs :
      (certFile[c] # None /\ ~(pc = "save_key" /\ c = cur)) => certFile[c].key = keyFile[c]

\* When no process runs, every hook of every certificate has run since its
\* certificate was written: failed orders, a dead DNS server or the failure of
\* another certificate do not keep a service from loading its certificate.
HooksSettled == pc = "idle" => \A c \in Certs : owed[c] = {}

\* When no process runs, a name that is not pre-published does not announce
\* another certificate than the installed one.
DaneSettled ==
    pc = "idle" =>
      \A c \in Certs : \A b \in Blocks(c) : \A i \in NamesOf(c, b) :
        (certFile[c] # None /\ ~PrePublished(c, b)) =>
          \A r \in dns[Block(c, b).names[i]] :
            SameTlsa(r, TlsaFromCert(certFile[c], Block(c, b).selector))

\* dane-check finds nothing to complain about where dane-publish has come to its
\* end, and where a renewal has published: both reach every name of every block,
\* with the record that dane-check computes from the certificate on disk.
CheckAgrees ==
    /\ pc = "dp_cert" /\ cur \notin Certs /\ ~cmd.dry => DaneCheck(cmd.filter)
    /\ pc = "publish" /\ bi \notin Blocks(cur) => CheckCert(cur)

\* At every moment, also in the middle of a run, an spki name of a certificate that
\* keeps its key announces the key of the installed certificate or nothing at all.
ZeroDowntime ==
    \A c \in Certs : \A b \in Blocks(c) :
      (/\ certFile[c] # None
       /\ Block(c, b).selector = "spki"
       /\ ~RotateKey[c])
      => \A i \in NamesOf(c, b) :
           \/ dns[Block(c, b).names[i]] = {}
           \/ PublishedFor(dns, Block(c, b).names[i], certFile[c].key, 0)

\* The same of a certificate that pre-publishes its next key: src/README.md:12 has the
\* new records published alongside the old ones.  pre_publish_dane does not publish the
\* old ones: at a name without records (a dane block that is new, or whose publication
\* failed) the new key is announced alone, next to a service that runs with the old one.
PrePublishedZeroDowntime ==
    \A c \in Certs : \A b \in Blocks(c) :
      (/\ certFile[c] # None
       /\ RotateKey[c] /\ PrePublished(c, b))
      => \A i \in NamesOf(c, b) :
           \/ dns[Block(c, b).names[i]] = {}
           \/ PublishedFor(dns, Block(c, b).names[i], certFile[c].key, 0)

\* A renewed certificate has another key exactly when rotate_key asks for it.
KeyRotation ==
    [][\A c \in Certs :
         certFile[c] # None /\ certFile'[c] # None /\ certFile'[c] # certFile[c]
         => (RotateKey[c] <=> certFile'[c].key # certFile[c].key)]_vars

\* The records without their ages.
Announced == [n \in Names |-> {[r EXCEPT !.age = 0] : r \in dns[n]}]

\* A dry run touches no certificate, no key, no TLSA record and no service.
DryRunHarmless ==
    [][DryRun => UNCHANGED <<pendFile, certFile, keyFile, owed, Announced>>]_vars

\* Every run ends.
RunEnds == pc # "idle" ~> pc = "idle"

\* A certificate that is absent or inside its renewal window is renewed.
DueRenewed == \A c \in Certs : NeedsRenewal(c) ~> ~NeedsRenewal(c)

\* The same for the certificates that do not pre-publish their key: renew_certificate
\* gets to them, and renews them, whatever becomes of the others of the run.
OthersRenewed ==
    \A c \in {x \in Certs : RotateKey[x] => ~NeedsPrePublish(x)} : NeedsRenewal(c) ~> ~NeedsRenewal(c)

\* A pre-published rotation is completed: the certificate for its key is installed.
PendingCompletes ==
    \A c \in Certs :
      stateFile[c] # None ~> (certFile[c] # None /\ certFile[c].key = pendFile[c])

-----------------------------------------------------------------------------
(***************************************************************************)
(* What the DANE clients see of the certificates that rotate their key.    *)
(***************************************************************************)
Rotating == {c \in Certs : RotateKey[c]}
InstalledKey == [c \in Rotating |-> IF certFile[c] = None THEN None ELSE certFile[c].key]
KnownKeys == [c \in Rotating |-> {k \in Keys : AgedFor(dns, k, c)}]

Roll == INSTANCE Rollover
          WITH Certs <- Rotating, installed <- InstalledKey, known <- KnownKeys

\* The renewal engine keeps what Rollover promises: a rotating certificate switches
\* only to a key that every cache knows, and no pre-publication, replacement,
\* failure or crash withdraws the known key of an installed certificate.
ImplementsRollover == Roll!Spec
=============================================================================
