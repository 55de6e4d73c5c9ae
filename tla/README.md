# certforge in TLA+

TLA+ models of [certforge](../src/README.md), an ACME client that obtains
certificates, installs them, publishes their DANE TLSA records by RFC 2136
updates and reloads the services that use them. The models are translated from
`src/src/*.rs`; `PROJECT.json` maps every definition to the lines it models.

## The system

certforge has no daemon. A systemd timer starts `certforge renew` once a day; an
operator may start any command. A run is one asynchronous process that handles
the configured certificates one after the other and ends. What matters is what
survives it: four kinds of files, TLSA and TXT records in the DNS, the account
and the orders at the CA, and the certificate each service has loaded.

| Part | State it keeps | Operations | Talks to |
| --- | --- | --- | --- |
| renewal engine (`renew.rs`) | in memory: `State`, `state_dirty`, `pending_hooks`, the key in hand | `run`, `renew_certificate`, `determine_key`, `pre_publish_dane`, `save_key` | all other parts |
| rotation state (`state.rs`) | `state.json`, `pending/<name>.key` | `load`, `save`, `ttl_expired` | the file system |
| DANE (`dane.rs`, `main.rs`) | none | `publish_tlsa`, `add_tlsa`, `compute_*`, commands `dane-publish`, `dane-check` | DNS |
| DNS updates (`dns/*.rs`) | the zone, at the server | `add_txt_record`, `delete_txt_record`, `add_tlsa_record`, `replace_tlsa_records` | the DNS server |
| order flow (`acme.rs`, `renew.rs`) | the order, at the CA | `create_order`, `collect_challenges`, `set_challenges_ready`, `finalize_order`, `download_certificate` | the CA, the solvers |
| solvers (`solver/*.rs`) | TXT records, token files, maps inside server tasks | `present`, `cleanup` | DNS, webroot, listen addresses |
| account (`acme.rs`, `main.rs`) | the credentials file, the account at the CA | `new`, `load`, `create`, `deactivate` | the CA |
| expiry (`certs.rs`) | none | `days_until_expiry`, `expires_within_days` | |
| configuration (`config.rs`) | none | `load`, `validate`, `solver_for_domain`, `find_zone` | |
| keys, secrets (`keys.rs`, `credentials.rs`) | `key_path`, `key_credential` | generate, load, encode; `systemd-creds` | |
| hooks (`hooks.rs`) | what each service has loaded | `run_hooks`, `run_hook` | systemd over D-Bus, commands |
| permissions (`permissions.rs`) | mode and owner of files | `apply`, `ensure_permissions` | the file system |

What is hard about it:

- **One step of several fails, or the process is killed between two.** A rotation
  writes a key file, updates several names in the DNS, and writes `state.json`;
  an installation writes two files, changes permissions, updates the DNS and
  runs hooks. No step is undone; whether the result is sound depends on the order.
- **Time.** A rotation spans runs: the new key is announced, and the certificate
  is replaced only when the old records have left the caches of the resolvers.
- **State taken out of memory early and saved late** (`determine_key` and the end of
  `run`), with the other certificates of the run in between.
- **A CA and a DNS server with a will of their own**: they refuse, do not answer, or
  do what was asked and lose the answer; the CA looks at challenges when it likes.
- **Concurrency inside the process**: server tasks that are spawned, notified and
  never joined.
- **Boundaries**: TTLs, retries, rounding to days.

Correct means: a service never runs with a certificate whose key its TLSA names do
not announce; key and certificate match; every service is told of its new
certificate; runs end and due certificates get renewed; challenges are there while
the CA looks and gone afterwards; the account survives.

## Modules

| Module | Models | State and actions |
| --- | --- | --- |
| `Renew` | `renew.rs`, `state.rs`, `dane.rs`, `dane-publish`, `dane-check`, the TLSA part of `dns/*.rs`, hooks, key and permission handling | Persistent variables (`stateFile`, `pendFile`, `certFile`, `keyFile`, `due`, `dns`, `owed`) and the process (`pc` and the local variables of `run`). One action for each effect on the outside, with a failing variant; `Crash` is possible everywhere, `CrashInWrite` leaves a torn file. `dane-check` changes nothing and is an operator (`DaneCheck`) on the records and the certificates. |
| `Rollover` | what a rotation promises to DANE clients | The key in use and the keys every cache knows; `Switch`, `Lose`, `Publish`. |
| `TwoRuns` | `renew.rs` and `state.rs` in several processes at once | The files and the zone are shared; each process has its copy of the state. A save is two steps (truncate, write). One process' failures are in `Renew`. |
| `AcmeOrder` | the order flow, DNS-01, webroot and standalone solvers as places where a challenge is shown | The loops of `renew_certificate` step by step against a CA that validates, issues, refuses, or does nothing. Attempts follow each other. |
| `Issuance` | what an order promises to the renewal engine | Which challenges are exposed, what the CA has accepted, the result. |
| `Standalone` | `solver/http01.rs` (standalone) and the server side of `solver/tls_alpn01.rs` | Binding, `Notified`, `spawn`, the `OnceCell`, the map, detached tasks, and another program on the same addresses. |
| `Account` | the account commands and `AcmeClient::new` | The credentials file against the CA's list of accounts. |
| `Expiry` | `certs.rs` and the timer | Exact integer arithmetic in seconds. |
| `Config` | `config.rs` (`validate`, `find_zone`, `solver_for_domain`) and the lookups a run makes | A file is chosen, checked, and, if accepted, used by a run in which everything else works: whatever fails then is a fault of the configuration. |
| `Hooks` | `hooks.rs` | `GetUnit`, `ActiveState` and the call are three messages; systemd queues jobs; operators start, stop and reload units in between. systemd and the services are external and modelled from this use. |
| `RenewProofs`, `TwoRunsProofs`, `OrderProofs`, `StandaloneProofs`, `AccountProofs`, `ExpiryProofs`, `ConfigProofs`, `HooksProofs` | proofs | |
| `MCRotate`, `MCHosts`, `MCTwoRuns`, `MCOrder`, `MCStandalone`, `MCAccount`, `MCExpiry`, `MCConfig`, `MCHooks` | values of the constants | |

Certificates are positions in the configuration; keys, serial numbers, names and
accounts are model values. Time is the age of a record or of a pending rotation in
ticks, saturated at the largest TTL, because the code compares an age only with a
TTL. A TLSA record is what its hash identifies: the key for `spki`, the
certificate for `full`. The constant `Faults` selects the kinds of failure that may
happen; a kind that is in it may happen at every step where the code can meet it,
any number of times. The ACME order is one step of `Renew` (it succeeds or fails)
and the whole of `AcmeOrder`, joined by `Issuance`; the hooks are one step each of
`Renew` and the whole of `Hooks`. A DNS name in `Config` is its sequence of labels, and a
zone also has the length of its spelling, which is what `find_zone` compares.
`mutant` operators in the modules are variations of the definition that follows
them, used to see that the properties can fail.

Some variables are history: they record what has happened (`raced`, `stale`, `own`
and `saved` of `TwoRuns`; `uncleaned` of `AcmeOrder`; `flowed` of `Standalone`;
`missed` and `stopped` of `Hooks`; `faults` of `Config`) so that a property can name the exact circumstances
in which the code does not keep its promise. No guard depends on them.

## Runs

| Run | Set-up | Shows |
| --- | --- | --- |
| `rotate_safety` | one rotating certificate; two pre-published blocks with TTL 1 and 2 and one that is not pre-published; forced and dry runs; all eight kinds of failure | `TypeOK`; `PendingBacked` and `RotationInv`: a pending rotation is backed by its key file and its records, whenever and wherever a run stops; `RotationSafe`: no certificate before its key has been announced for the TTL at every name; `PendingKept`: with one certificate, a rotation is dropped only when it is complete; `DryRunHarmless`; `ImplementsRollover` |
| `hosts_dane` | two certificates that share a hook, the first keeps its key and has TLSA blocks, the second rotates; failing orders and accounts; an operator with `issue` and `dane-publish` | `KeyMatchesCert`; `HooksSettled`: between runs no service is left with an old certificate, whichever of the two failed; `ZeroDowntime` of the certificate that keeps its key, at every moment; `DaneSettled` between runs; `KeyRotation`: a new key exactly when configured; `CheckAgrees`: `dane-check` finds every name in order where `dane-publish` or a renewal has come to its end |
| `hosts_live` | two certificates, one pre-publishes; DNS servers may fail at every update; an operator with `dane-publish`; fairness | `HooksSettled`: no failed TLSA update keeps a hook from running; `RunEnds`; `PendingCompletes`: a rotation is completed; `OthersRenewed`: the certificate that does not pre-publish is renewed whatever becomes of the other |
| `two_runs` | the timer's process and an operator's `renew --force` over a rotating certificate and one that keeps its key | `RotationSafe`, `PendingBacked`: hold for a rotation but where two processes were at its certificate at once, saved at once, or one saved a copy read before the rotation; `PendingKept`: these, and the completed rotation, are the only ways a rotation leaves `state.json`; `KeptKeySafe`: an installed certificate that keeps its key goes on matching key and record, once no process has another key for it in hand (two first issues at once do) |
| `order_clean` | four domains: two with one `dns-01` solver, one with a webroot, one with a standalone server that is served; a first attempt with every kind of failure, a second without; a CA that may never move; fairness | `TypeOK`, `ChallengeAvailable`, `NothingLeft`, `StaleHarmless`: leftovers never make a later attempt fail, `AttemptEnds`, `ImplementsIssuance` |
| `standalone_shared` | two certificates, two addresses, another program, presentations that fail; fairness | `AvailableWhereBound`: a challenge under validation is answered at every bound address that accepts connections, and the others only lack their accept loop; `NoStaleAnswer`: nothing is answered after an order all of whose challenges had been presented; `RunEnds`: the notification of the server task is never missed |
| `account` | any sequence of commands; failing loads, lost answers, failed requests and writes, crashes | `UsableAccount`: a renewal works with a valid account, unless a deactivation was cut off; `AccountStored`: and with the one in the credentials file, so that no half-registered account is used. Neither says that a good account is never replaced: `acme.rs:34` does so when loading fails |
| `expiry` | daily runs with delays around the boundaries, up to five failures in a row | `Boundary`: the second at which the window opens, as the code rounds (not where `CHANGELOG.md:28` has it, see below); `StillValid` |
| `config` | 4628 files: references between sections, zones and names, hooks of two certificates, options, owners of which one exists on the machine | `AcceptedWorks`: what `validate` accepts is found by every lookup of a run, but for three gaps it names; `ClosestZone`; `HooksFound` |
| `hooks` | two services and three hooks (reload, restart, command), two renewals; others start, stop and reload the units; failing calls, crashes; fairness | `Served`: running services have the new certificate when the hooks and jobs are through; `NotStarted`: stopped ones are not started; `Converges` |
| `rotate_stuck` | one rotating certificate, no failures, fairness | *violated*: `DueRenewed` |
| `rotate_downtime` | the same without fairness | *violated*: `PrePublishedZeroDowntime` |

### Bounds

- `MaxTtl` is 2 where two blocks have different TTLs (so that the maximum matters
  and one tick too early is visible) and 1 elsewhere.
- Keys and serial numbers are reused once nothing refers to them; four and three
  (two where no block is `full`) are enough that a fresh one always exists (a run out of keys would stop the
  process, and `RunEnds` would fail).
- `two_runs` has five keys; with six there are 0.1% more states and the same result.
  Two processes are the timer's and one operator.
- `Retries` is 20, as in the code. Two attempts are enough for leftovers: an
  attempt number is used again as soon as nothing of it is in place.
- Two certificates of a run suffice for what one does to the next; two names and
  three blocks for the loops of `pre_publish_dane` to stop at a first, middle and
  last position.
- Five accounts: the initial one, three replacements and one lost.
- `expiry` has delays up to the 30 minutes of `examples/certforge.timer` and the
  longest delay below half a day, and a lifetime with which runs look at the second
  where the rounding changes and at those before and after it.
- `config` has five families of files around a good one; each varies the sections
  that refer to each other (solvers and DNS clients; zones and names; hooks; options;
  owners and stores) together and leaves the others alone, because no rule of `validate` spans two
  families. The proofs lift the bound.
- `hooks` has two renewals: a job of the first may still be queued when the second
  one's hooks run.

Deadlock is checked in every run but `config`, whose run ends.

### Fairness

`FairSpec` of `Renew`: the timer starts a run again and again, whatever an operator
starts in between (strong fairness: the `Persistent=true` timer does not ask whether
another certforge runs), a running process takes its next step (DNS updates time
out after 10 seconds, both polling loops count down; requests to the CA and hook
commands have no timeout in the code and are assumed to end), and the clock moves. Failures never
have to stop for safety; in the liveness run only the DNS servers fail, for as long as
they like: no fairness makes an unreachable CA answer. `FairSpec` of `AcmeOrder`: the process moves; nothing is
assumed of the CA. `FairSpec` of `Standalone`: the main task moves and the
scheduler eventually polls the spawned server task; nothing waits for an accept loop, and
none is assumed to start. `Spec` of `Hooks`: certforge moves and
systemd works off the jobs of each unit; nothing is assumed of the operators.

### Refinement

`Renew!ImplementsRollover` maps `Renew` to `Rollover`: the key of each installed
certificate, and the keys that every pre-published name has announced for its TTL.
`AcmeOrder!ImplementsIssuance` maps an attempt to `Issuance`: its phase is that of
`renew_certificate` (open until the result of the order is known, then
the cleanup), a challenge is exposed when some solver shows it, a domain is
proved when the CA has validated it. Both are checked by TLC and proved. Both abstract
specifications are safety specifications; the liveness properties are stated on the detailed modules.

## Where the code and its documentation disagree

Two disagreements have a run and an entry under `findings`:

- `rotate_stuck`: `add_tlsa_record` uses `client.create`, which fails when the name has a
  TLSA record, so a certificate that pre-publishes cannot be renewed again once its records
  exist ("new TLSA records are published alongside the old ones", `README.md:12`).
- `rotate_downtime`: the first pre-publication at a name without records announces only the
  key that is not yet in use (`renew.rs:454`), for the whole wait, although the same line
  has the new records alongside the old, and `README.md:11` promises zero downtime.

The other runs stay clear of the following, by a constant or by an exception in the
property, and change their result when that is changed as shown:

| Code | What happens | Seen by |
| --- | --- | --- |
| `renew.rs:337` | `determine_key` takes the pending rotation out of the state before the order; if the order fails and another certificate of the run succeeds, the saved state no longer has it | `PendingKept` of `Renew` with the constants of `hosts_live` and `"order"` in `Faults` |
| `main.rs:192` | `dane-publish` during the wait of a rotation removes the pre-published record | `rotate_safety`, `RotationSafe`, with `dane_publish` among `Commands` |
| `renew.rs:396` | any failure to load a key replaces it, also with `rotate_key = false` | `hosts_dane`, `KeyRotation`, with `"load_key"` in `Faults` |
| `renew.rs:194` | a dry run that meets an expired rotation drops it from `state.json` | `PendingKept` without its exception for dry runs |
| `renew.rs:274`, `renew.rs:284` | an I/O failure between certificate and key, or in the permissions, is not repaired: no later run retries the key, the records or the hooks | `hosts_dane`, `KeyMatchesCert` with `"io"` and `HooksSettled` with `"perm"` in `Faults` |
| `renew.rs:388` | two processes that issue a certificate for the first time each generate a key; the later `save_key` may put its key next to the other one's certificate, with a key that is to be kept from then on | `KeptKeySafe` of `two_runs` without its condition on keys in hand |
| `state.rs:38` | without a lock, two processes that meet at a certificate lose, repeat or cut short its rotation, and a process that never touches it (filtered to another certificate) undoes it by saving an older copy | the properties of `two_runs` without `raced`, `PendingKept` without its exceptions |
| `main.rs:224` | `dane-check` skips a certificate that is not there and ends with success | by reading; `CheckCert` |
| `renew.rs:236` | a failing `present` returns before the cleanup of the earlier ones: TXT records and files stay, and a standalone server goes on answering them until the process ends | `order_clean`, `NothingLeft`, without `uncleaned`; `standalone_shared`, `NoStaleAnswer`, over all certificates instead of `flowed` |
| `solver/http01.rs:68` | the server task notifies before it has spawned the accept loops, so `present` returns while nobody accepts; the kernel's backlog hides it | `AvailableWhereBound` with `Answered` for every bound address |
| `renew.rs:234` | challenges are paired with solvers by position, in the order of the CA's authorizations | `order_clean`, `ChallengeAvailable`, with `AuthOrders <- AnyOrder` |
| `solver/http01.rs:36` | the server task of the first certificate keeps the addresses, the second one's bind error is dropped and nobody serves its challenges | `Available` in `standalone_shared`, also with `Intruder = FALSE`; `order_clean` with `Served = {}` |
| `solver/tls_alpn01.rs:123` | `blocking_read` inside the runtime: no handshake is answered | `standalone_shared`, `AvailableWhereBound`, with `Server = "tls"`; a `tls-alpn-01` solver is never `Reachable` in `AcmeOrder` |
| `acme.rs:34` | any failure to load the account, a transient one too, registers another and writes it over the good credentials | by reading; `LoadFails` followed by `Create` and `Save` with a valid account in `file` |
| `certs.rs:67` | with `renew_before_days = 3` a certificate with 3 days and 23 hours left is not renewed: the days are rounded to the nearest, 4; `CHANGELOG.md:28` lists just this as fixed | `Boundary`, which states what the code does |
| `permissions.rs:47` | an owner or group that does not exist is found out only after the certificate is installed: the run fails before TLSA records and hooks; `validate` does not look | `AcceptedWorks` without its third exception |
| `main.rs:96` | a deactivation cut off before the credentials are removed leaves them in use | `UsableAccount` without `halfway` |
| `hooks.rs:106` | a unit that is stopped between the test and `RestartUnit` is started ("don't start a stopped service") | `NotStarted` without `stopped` |
| `hooks.rs:106` | a unit in a start or reload that has already read the old certificate is not "active" and is skipped | `Served` without `missed` |
| `keys.rs:34` | RSA key types are accepted by `validate` and cannot be generated | `AcceptedWorks` without its first exception |
| `config.rs` | a wildcard with an `http-01` or `tls-alpn-01` solver is accepted and no order for it succeeds | `AcceptedWorks` without its second exception |
| `config.rs` | an empty `listen` list and a TLSA name in two blocks are accepted | by reading; `NamesDistinct` of `Renew` assumes the second away |
| `permissions.rs` | a mode above `0o7777` is accepted and set again on every run | by reading |

## Proofs

`tlapm` checks all of them; nothing is assumed but the named assumptions of the
modules (the shape of the configuration, that a TLSA block has names and no name is
configured twice, that the markers are no keys; the types of a configuration file).

- `RenewProofs!TypeCorrect`: `Spec => []TypeOK`, for every configuration, set of
  commands and set of failures. `TypeOK` is inductive as it stands because its
  last part, `PositionOK`, ties the program counter to the loop indices and to the
  presence of the key and the certificate in hand. The lemmas go group by group
  (`RunSteps`, `DetermineKey`, `PrePublishSteps`, `IssueSteps`, `DanePublishSteps`,
  environment).
- `RenewProofs!RotationInvariant`, `PendingIsBacked`, `RotationIsSafe`: the
  rotation protocol is safe for any number of certificates, blocks, names and any
  TTLs, under any failures. `RotationSafe` is an action property and
  `PendingBacked` is not inductive: between the announcement and the save nothing
  on disk says what has been announced, and between the removal from memory
  and the installation nothing says the key was announced long enough. `RotationInv`
  adds just that (memory and `state.json` agree on the certificates still to come,
  `AnnouncedUpTo` for the loop of `pre_publish_dane`, `AgedFor` for a key on its way
  into a certificate). The central lemmas are about the zone: `Keeps` says what an
  update must not lose, and `client.create`, the replacement of another
  certificate's records and the clock all keep. The assumption `OnlyRenewals` (no
  `dane-publish`) is needed: see the table above.
- `RenewProofs!RenewImplementsRollover`: under the same assumption every step of
  `Renew` is a step of `Rollover` or a stutter. The invariant is the one above:
  it gives the guard of `Switch`. `KnownKept` gives that of `Publish`: only three kinds
  of step touch the records, and each keeps what is announced about an installed key.
- `RenewProofs!PendingIsKept`: a rotation leaves `state.json` only when it is
  complete: with one certificate under every failure, and with several only where no order,
  write or key load fails. `LossInv` follows a rotation that `determine_key` has taken out of the
  memory: behind the position of the loop it is either complete or, with a single
  certificate, nothing will save the state. The hypothesis `NothingLost` (one certificate, or no failing
  orders, writes and key files) is the first line of the table above.
- `RenewProofs`, the host as the operator sees it, for any number of certificates, blocks,
  names, keys and hooks. Each theorem names the failures under which it does *not* hold
  and lets all others happen; `SafeWrites` says that no write fails and no process
  dies, since nothing repairs what is cut off between two writes (`renew.rs:274`).

  | Theorem | Property | Does not survive | Inductive invariant |
  | --- | --- | --- | --- |
  | `DryRunsAreHarmless` | `DryRunHarmless` | nothing: holds under all failures | `DryInv`: a dry run never gets past `determine_key` |
  | `KeysMatchCerts` | `KeyMatchesCert` | failed writes, crashes | `KeyInv`: a key that is not to be saved is the installed one |
  | `KeysRotate` | `KeyRotation` | these, unreadable keys, failed permissions | `RotatesInv`, `KeptInv`, `NewInv`: who may have a pending rotation, and that a pending key is never the installed one |
  | `NoDowntime` | `ZeroDowntime` | failed writes, crashes, unreadable keys | `ZeroInv`: an spki name of a certificate that keeps its key is empty or announces the installed key |
  | `RecordsSettle` | `DaneSettled` | failed writes, crashes, DNS updates and permissions | `SettledInv`: only the names that the loop of `publish_tlsa` has still to reach are behind |
  | `PublishedIsChecked` | `CheckAgrees` | failed DNS updates | `CheckInv`: certificates and names before the position are announced |
  | `HooksSettle` | `HooksSettled` | failed writes, crashes, permissions and hooks | `HookInv`: what is owed is ahead of the hook loop or belongs to the certificate just written |

  The lemmas `RunFacts` to `TickFacts` say once what each group of steps leaves alone;
  `ZoneSteps`, `ReplaceHere`, `AnnouncesKept` and `OnlyWantedKept` say the same of the TLSA records.
- `TwoRunsProofs`, for any number of processes without a lock, of certificates and of keys.
  `BackedWithoutLock`, `SafeWithoutLock` and `KeptWithoutLock` are `PendingBacked`,
  `RotationSafe` and `PendingKept`: without a lock a rotation can be disturbed, and these say by
  what: a meeting or an overlapping or older save (`raced`, which counts all three), and, for
  `PendingKept`, spelled out as `CarelessSave`. They do not say that it is kept from a process
  that is filtered to another certificate: it is not (`state.rs:38`).
  None is inductive, since each is about the files and the damage would come from a copy.
  `BaseInv` says where a process can be and that only rotating certificates have
  rotations. `Meeting(c)`, for a certificate that has met nobody, adds what makes the lock
  unnecessary: every copy agrees with what was saved last, but for the changes the history
  variables `own` and `stale` record (`CopyInv`); one process at a time is inside, with the
  pending key (`InsideInv`); a rotation in the file is announced, and whoever has
  crossed it out in memory has installed it (`SavedInv`). `DecidesAlone` and
  `WriteAlone` use the definition of a meeting: a decision is taken on the saved state,
  and a save adds to it only what the process did itself. `KeptKeyIsSafe` is
  `KeptKeySafe` and needs `BaseInv` only, since `Settled` has everyone inside hold the installed
  key: true of any renewal, and not of a first issue by two processes (`renew.rs:388`).
- `OrderProofs`: the order flow for any domains, solvers, attempts and failures.
  `OrderImplementsIssuance` is the refinement, `ChallengesRemoved` is `NothingLeft`, both
  without hypotheses. `ChallengesAvailable` and `LeftoversHarmless` need that
  every solver is one the CA can reach (`AllReachable`: `dns-01`, a webroot, or a standalone
  http server on an address that it has; not `tls-alpn-01`, which never answers), that
  the CA lists the authorizations so that each meets the solver of its own domain
  (`Paired`, see `renew.rs:234`), that a domain the CA spells differently uses `dns-01`
  (`Spelled`: `Desired` is `dns-01` for a name that is not found), and that the CA offers the challenge type
  (`Offering`). `OrderInv` relates the loop index to the challenges in place
  (`ShownInv`, `LeftInv`) and the CA's answers to its validations (`StatusInv`).
- `StandaloneProofs!ServedWhereBound`, `NothingStale`: for any certificates, domains and
  addresses. `StartInv` is the hand-over of `notify.notified()`, `HolderInv` ties the
  bound addresses to running servers, `MapInv` the map to the loops over the domains.
  The first is for the http server (`Server = "http"`); that of `tls_alpn01.rs` never answers.
  Neither hides the two windows of the code: an address whose accept loop has not started
  (`AcceptLoop` is a step of its own, after the notification), and the answers left by a
  `present` that failed (`flowed` has the certificates for which none did).
- `AccountProofs!AccountIsUsable`, `AccountIsStored`: `AccountInv` follows an account from
  registration through the file into memory, under every failure, that of loading the
  credentials included (`acme.rs:34`).
- `HooksProofs!ServicesServed`, `StoppedStaysStopped`: for any hooks, units and renewals.
  `ServedInv`: a service that runs with an older certificate and has no job has a hook ahead of it.
- `ConfigProofs!AcceptedConfigWorks`, `UpdatesInClosestZone`, `NamedHooksRun`: for
  every set of configuration files and of owners that exist. `AcceptedWorks` has three
  exceptions (RSA keys, wildcards without `dns-01`, owners that do not exist), each named with the
  step it breaks. The invariant says that the indices of the run are
  inside an accepted configuration (so `validate`'s rules hold of what is at hand),
  and what has been sent, run and gone wrong so far. `FindZoneClosest` shows that the
  longest spelling is the closest zone: two zones that contain a name are suffixes
  of each other, and `ZoneSpelling` says that more labels are spelled longer. A longest
  zone exists (`LongestExists`) because spellings are bounded by `MaxName`, the
  protocol's limit of 255, and a set of natural numbers has a least element.
- `ExpiryProofs!WindowBoundary`, `ScheduleKept`, `OutlivesFailures`: for every
  `renew_before_days`, lifetime and delays below half a day, a run renews exactly when less than
  `renew_before_days` and a half are left, and that many failed runs leave a valid
  certificate. The invariant is `Schedule`: time left plus delay, since a late run
  is followed by a shorter interval.

Only model-checked: all liveness properties (the prover does not reason about
fairness: `RunEnds`, `OthersRenewed`, `PendingCompletes`, `AttemptEnds`, `Converges`).

## Not modelled

- `status` and `check`: they read and print. The warnings of `validate`.
- Parsing and encoding (X.509, PEM, DER, TOML, DNS messages, TSIG keys), the hashing of
  TLSA data, the acmeIdentifier certificate, and the dialogue with `systemd-creds`:
  conversions by libraries or for them, without state, whose failure is a fault of the
  step that uses them.
- File modes and owners as such: `ensure_permissions` succeeds or fails, in `Config` for the
  modes and owners that make it fail. It sets them
  from the configuration on every run and keeps nothing from one run to the next.
- The composition of two processes with failures: `TwoRuns` has no failing orders or DNS
  servers, and `Renew` has one process; together they are out of TLC's reach.

## Plan

1. (done) `Renew` with its failures and crashes; type and rotation proofs.
2. (done) `AcmeOrder`, `Standalone`, `Account`, `Expiry`.
3. (done) `Rollover` and `Issuance` with their refinements.
4. (done) `TwoRuns`.
5. (done) `Config` with its proofs, `Hooks`, `dane-check`.
6. (done) The invariants and action properties of `Renew`, `TwoRuns`, `AcmeOrder`,
   `Standalone`, `Account` and `Hooks`, and the second refinement, as theorems.
