----------------------------- MODULE AcmeOrder -----------------------------
(***************************************************************************)
(* One ACME order of renew_certificate (renew.rs, acme.rs) together with   *)
(* the solvers (solver/*.rs): the order is created, the challenges are     *)
(* collected, presented one by one, set ready, the order is polled,        *)
(* finalized, the certificate is downloaded, the challenges are cleaned    *)
(* up.  The CA moves on its own: it validates, issues, refuses, or never   *)
(* gets anywhere.  Attempts follow each other, each in a process of its    *)
(* own; what a DNS-01 or webroot solver has put in place survives them.    *)
(*                                                                         *)
(* The certificate's domains are identified by their position in the       *)
(* configuration, a challenge by its domain and the number of its attempt, *)
(* which is used again once nothing of it is left.  The steps and answers  *)
(* of the CA are external.                                                 *)
(***************************************************************************)
EXTENDS Naturals, Sequences, FiniteSets

CONSTANTS
    NDomains,        \* number of domains of the certificate
    Solvers,         \* [solver.*] names
    Kind,            \* of each solver: dns, webroot, standalone or tls
    Served,          \* the standalone solvers whose server has got an address
    PerDomain,       \* the certificate's solvers list, or <<>>
    CertSolver,      \* the certificate's solver, or None
    DefaultSolver,   \* default_solver, or None
    TxtName,         \* the _acme-challenge name of each domain
    Zones,           \* the TXT names inside the zones of each dns solver
    Respelled,       \* domains that the CA does not spell as configured
    Offered,         \* the challenge types the CA offers for each domain
    AuthOrders,      \* the orders in which the CA may list the authorizations
    Retries,         \* bound: polls after the first one (20 in the code)
    MaxAttempts,     \* bound: attempts that are told apart
    FaultyAttempts,  \* the attempts during which faults happen
    Faults,          \* the kinds of failure
    None

Domains == 1..NDomains
Attempts == 1..MaxAttempts
Challenges == [attempt: Attempts, domain: Domains]
FaultKinds == {"net", "present", "cleanup", "crash", "ca"}

ASSUME OrderBounds ==
    NDomains \in Nat /\ Retries \in Nat /\ MaxAttempts \in Nat \ {0}

ASSUME OrderConfig ==
    /\ None \notin Solvers
    /\ Kind \in [Solvers -> {"dns", "webroot", "standalone", "tls"}]
    /\ Served \subseteq {s \in Solvers : Kind[s] = "standalone"}
    /\ PerDomain = <<>> \/ PerDomain \in [Domains -> Solvers]
    /\ CertSolver \in Solvers \cup {None}
    /\ DefaultSolver \in Solvers \cup {None}
    /\ Respelled \subseteq Domains
    /\ AuthOrders \subseteq [Domains -> Domains]
    /\ Faults \subseteq FaultKinds

\* The absence of a result or of an order is none of the results and states.
ASSUME OrderMarker ==
    /\ None \notin {"issued", "refused", "timeout", "error"}
    /\ None \notin {"pending", "ready", "processing", "valid", "invalid"}

VARIABLES
    shown,    \* per solver, the challenges that are in place
    \* the process
    attempt,  \* number of the attempt
    pc,
    i,        \* position in the loop over the challenges
    retries,  \* of finalize_order or download_certificate
    outcome,  \* how the attempt ended, or is going to end after the cleanup
    \* the CA
    status,   \* OrderStatus
    auths,    \* the order's authorizations: a domain at each position
    readied,  \* domains whose challenge is set ready
    valid,    \* domains the CA has validated
    \* history
    uncleaned \* attempts that did not, or not in full, come through the cleanup

process == <<attempt, pc, i, retries, outcome>>
ca == <<status, auths, readied, valid>>
vars == <<shown, attempt, pc, i, retries, outcome, status, auths, readied, valid, uncleaned>>

-----------------------------------------------------------------------------
\* CertificateConfig::solver_for_domain; Config::validate sees that it is a solver.
SolverFor(d) ==
    IF PerDomain # <<>> THEN PerDomain[d]
    ELSE IF CertSolver # None THEN CertSolver
    ELSE DefaultSolver

ASSUME EveryDomainHasSolver ==
    \A d \in Domains : /\ SolverFor(d) \in Solvers
                       /\ Kind[SolverFor(d)] = "dns" => TxtName[d] \in Zones[SolverFor(d)]

\* solver_challenge_type
ChallengeType(s) ==
    CASE Kind[s] = "dns" -> "dns-01"
      [] Kind[s] = "tls" -> "tls-alpn-01"
      [] OTHER -> "http-01"

\* The challenge type that collect_challenges and set_challenges_ready look up by
\* the identifier's text, DNS-01 when the text is not found.
Desired(d) == IF d \in Respelled THEN "dns-01" ELSE ChallengeType(SolverFor(d))

\* Entry j of the collected challenges ...
Challenge(j) == [attempt |-> attempt, domain |-> auths[j]]

\* Mutant: every domain is left to the first domain's solver.
FirstSolver(j) == SolverFor(1)

\* ... and the solver that presents and cleans it up: the zip pairs it with
\* the solver of the j-th configured domain.
SolverAt(j) == SolverFor(j)

\* Mutant: create instead of append, which needs an empty name.
PresentableOnce(s, ch) ==
    Kind[s] = "dns" =>
      /\ TxtName[ch.domain] \in Zones[s]
      /\ \A o \in shown[s] : o.attempt # ch.attempt => TxtName[o.domain] # TxtName[ch.domain]

\* A dns solver needs a zone for the TXT name (find_zone); the record is appended:
\* what is already at the name does not matter.
Presentable(s, ch) == Kind[s] = "dns" => TxtName[ch.domain] \in Zones[s]

\* What a solver holds is not always shown to the CA: a standalone solver whose bind
\* errors were dropped has no server (see module Standalone), and the resolver of the
\* tls-alpn-01 server panics in every handshake.
Reachable(s) ==
    \/ Kind[s] \in {"dns", "webroot"}
    \/ s \in Served

\* Does the CA find the challenge of d where the solver of d puts it?
Found(d) ==
    /\ Reachable(SolverFor(d))
    /\ [attempt |-> attempt, domain |-> d] \in shown[SolverFor(d)]
    /\ Desired(d) = ChallengeType(SolverFor(d))

Fault(kind) == kind \in Faults /\ attempt \in FaultyAttempts

-----------------------------------------------------------------------------
\* The attempt goes to its next stage ...
Goto(label) ==
    /\ pc' = label
    /\ i' = 1
    /\ retries' = Retries
    /\ UNCHANGED <<attempt, outcome>>

\* Mutant: an error returns before the cleanup.
CleanUpOnSuccess(result) ==
    /\ pc' = IF result = "issued" THEN "cleanup" ELSE "idle"
    /\ i' = 1
    /\ outcome' = result
    /\ UNCHANGED <<attempt, retries>>

\* ... or leaves the flow with a result and cleans up ...
CleanUp(result) ==
    /\ pc' = "cleanup"
    /\ i' = 1
    /\ outcome' = result
    /\ UNCHANGED <<attempt, retries>>

\* ... or ends; what a standalone or tls solver serves ends with the process.
Vanish(sh) == [s \in Solvers |-> IF Kind[s] \in {"dns", "webroot"} THEN sh[s] ELSE {}]

End(result, sh) ==
    /\ pc' = "idle"
    /\ i' = 1
    /\ outcome' = result
    /\ shown' = Vanish(sh)
    /\ UNCHANGED <<attempt, retries>>

\* The tokens of a new order are none of those still in place.
StartAttempt ==
    /\ pc = "idle"
    /\ attempt' \in Attempts \ {ch.attempt : ch \in UNION {shown[s] : s \in Solvers}}
    /\ pc' = "create"
    /\ i' = 1
    /\ outcome' = None
    /\ status' = None
    /\ readied' = {}
    /\ valid' = {}
    /\ UNCHANGED <<shown, retries, auths>>

\* The CA may have valid authorizations for all domains from an earlier order.
CreateOrder ==
    /\ pc = "create"
    /\ auths' \in AuthOrders
    /\ status' \in {"pending", "ready"}
    /\ valid' = IF status' = "ready" THEN Domains ELSE {}
    /\ Goto("collect")
    /\ UNCHANGED <<shown, readied>>

CreateOrderFails ==
    /\ pc = "create" /\ Fault("net")
    /\ End("error", shown)
    /\ UNCHANGED ca

Collect ==
    /\ pc = "collect"
    /\ \A d \in Domains : Desired(d) \in Offered[d]
    /\ Goto("present")
    /\ UNCHANGED <<shown, ca>>

CollectFails ==
    /\ pc = "collect"
    /\ Fault("net") \/ \E d \in Domains : Desired(d) \notin Offered[d]
    /\ End("error", shown)
    /\ UNCHANGED ca

-----------------------------------------------------------------------------
Put(j) == [shown EXCEPT ![SolverAt(j)] = @ \cup {Challenge(j)}]
Take(j) == [shown EXCEPT ![SolverAt(j)] = @ \ {Challenge(j)}]

Present ==
    /\ pc = "present" /\ i \in Domains
    /\ Presentable(SolverAt(i), Challenge(i))
    /\ shown' = Put(i)
    /\ i' = i + 1
    /\ UNCHANGED <<attempt, pc, retries, outcome, ca>>

\* The error of a present ends the attempt on the spot; a DNS update may have
\* been applied, a token file written, nevertheless.
PresentFails ==
    /\ pc = "present" /\ i \in Domains
    /\ Fault("present") \/ ~Presentable(SolverAt(i), Challenge(i))
    /\ \E sh \in {shown} \cup (IF Fault("present") THEN {Put(i)} ELSE {}) : End("error", sh)
    /\ UNCHANGED ca

\* The propagation delay follows.
AllPresented ==
    /\ pc = "present" /\ i \notin Domains
    /\ Goto("ready")
    /\ UNCHANGED <<shown, ca>>

SetReady ==
    /\ pc = "ready" /\ i \in Domains
    /\ readied' = readied \cup {auths[i]}
    /\ i' = i + 1
    /\ UNCHANGED <<shown, attempt, pc, retries, outcome, status, auths, valid>>

SetReadyFails ==
    /\ pc = "ready" /\ i \in Domains /\ Fault("net")
    /\ CleanUp("error")
    /\ UNCHANGED <<shown, ca>>

\* Mutant: the challenges are cleaned up once they are set ready.
AllReadyThenCleaned ==
    /\ pc = "ready" /\ i \notin Domains
    /\ shown' = [s \in Solvers |-> {ch \in shown[s] : ch.attempt # attempt}]
    /\ Goto("poll")
    /\ UNCHANGED ca

AllReady ==
    /\ pc = "ready" /\ i \notin Domains
    /\ Goto("poll")
    /\ UNCHANGED <<shown, ca>>

-----------------------------------------------------------------------------
\* Mutant: the countdown goes below zero.
RefreshBelowZero(label, waiting, done) ==
    /\ pc = label
    /\ \/ status \in done /\ Goto(IF label = "poll" THEN "finalize" ELSE "fetch")
       \/ status = waiting
          /\ retries' = retries - 1 /\ UNCHANGED <<attempt, pc, i, outcome>>
       \/ status \notin done \cup {waiting} /\ CleanUp("refused")
    /\ UNCHANGED <<shown, ca>>

\* Mutant: the loop does not count down.
RefreshForEver(label, waiting, done) ==
    /\ pc = label
    /\ \/ status \in done /\ Goto(IF label = "poll" THEN "finalize" ELSE "fetch")
       \/ status = waiting /\ UNCHANGED process
       \/ status \notin done \cup {waiting} /\ CleanUp("refused")
    /\ UNCHANGED <<shown, ca>>

(***************************************************************************)
(* finalize_order and download_certificate: refresh until the order gets   *)
(* somewhere, at most Retries more times.                                  *)
(***************************************************************************)
Refresh(label, waiting, done) ==
    /\ pc = label
    /\ \/ status \in done /\ Goto(IF label = "poll" THEN "finalize" ELSE "fetch")
       \/ status = waiting /\ retries > 0
          /\ retries' = retries - 1 /\ UNCHANGED <<attempt, pc, i, outcome>>
       \/ status = waiting /\ retries = 0 /\ CleanUp("timeout")
       \/ status \notin done \cup {waiting} /\ CleanUp("refused")
    /\ UNCHANGED <<shown, ca>>

PollOrder == Refresh("poll", "pending", {"ready", "processing", "valid"})
PollCertificate == Refresh("download", "processing", {"valid"})

Finalize ==
    /\ pc = "finalize" /\ status = "ready"
    /\ status' \in {"processing", "valid"}
    /\ Goto("download")
    /\ UNCHANGED <<shown, auths, readied, valid>>

FinalizeRefused ==
    /\ pc = "finalize" /\ status # "ready"
    /\ CleanUp("refused")
    /\ UNCHANGED <<shown, ca>>

Fetch ==
    /\ pc = "fetch"
    /\ CleanUp("issued")
    /\ UNCHANGED <<shown, ca>>

\* A request of the flow fails, and may or may not have reached the CA.
RequestFails ==
    /\ pc \in {"poll", "finalize", "download", "fetch"} /\ Fault("net")
    /\ CleanUp("error")
    /\ \/ UNCHANGED ca
       \/ pc = "finalize" /\ status = "ready" /\ status' = "processing"
          /\ UNCHANGED <<auths, readied, valid>>
    /\ UNCHANGED shown

-----------------------------------------------------------------------------
CleanUpOne ==
    /\ pc = "cleanup" /\ i \in Domains
    /\ shown' = Take(i)
    /\ i' = i + 1
    /\ UNCHANGED <<attempt, pc, retries, outcome, ca>>

\* A failed cleanup is logged.
CleanUpFails ==
    /\ pc = "cleanup" /\ i \in Domains /\ Fault("cleanup")
    /\ i' = i + 1
    /\ UNCHANGED <<shown, attempt, pc, retries, outcome, ca>>

Finish ==
    /\ pc = "cleanup" /\ i \notin Domains
    /\ End(outcome, shown)
    /\ UNCHANGED ca

Crash ==
    /\ pc # "idle" /\ Fault("crash")
    /\ End("error", shown)
    /\ UNCHANGED ca

-----------------------------------------------------------------------------
\* The CA looks at a challenge that is set ready: the last valid one makes the
\* order ready, a missing one makes it invalid.
CaValidates(d) ==
    /\ pc # "idle" /\ status = "pending" /\ d \in readied \ valid
    /\ valid' = IF Found(d) THEN valid \cup {d} ELSE valid
    /\ status' = IF ~Found(d) THEN "invalid"
                 ELSE IF valid' = Domains THEN "ready" ELSE status
    /\ UNCHANGED <<shown, process, auths, readied>>

CaIssues ==
    /\ pc # "idle" /\ status = "processing"
    /\ status' = "valid"
    /\ UNCHANGED <<shown, process, auths, readied, valid>>

CaRefuses ==
    /\ pc # "idle" /\ status \in {"pending", "ready", "processing"} /\ Fault("ca")
    /\ status' = "invalid"
    /\ UNCHANGED <<shown, process, auths, readied, valid>>

Init ==
    /\ shown = [s \in Solvers |-> {}]
    /\ attempt = 1
    /\ pc = "idle"
    /\ i = 1
    /\ retries = Retries
    /\ outcome = None
    /\ status = None
    /\ auths = [d \in Domains |-> d]
    /\ readied = {}
    /\ valid = {}
    /\ uncleaned = {}

\* The steps on the way through the cleanup, and those off it.
Proper ==
    \/ CreateOrder \/ CreateOrderFails \/ Collect \/ CollectFails
    \/ Present \/ AllPresented
    \/ SetReady \/ SetReadyFails \/ AllReady
    \/ PollOrder \/ Finalize \/ FinalizeRefused \/ PollCertificate \/ Fetch \/ RequestFails
    \/ CleanUpOne \/ Finish
Spoiling == PresentFails \/ CleanUpFails

CaSteps == CaIssues \/ CaRefuses \/ \E d \in Domains : CaValidates(d)

Process ==
    \/ Proper /\ UNCHANGED uncleaned
    \/ Spoiling /\ uncleaned' = uncleaned \cup {attempt}

Next ==
    \/ StartAttempt /\ uncleaned' = uncleaned \ {attempt'}
    \/ Process
    \/ Crash /\ uncleaned' = uncleaned \cup {attempt}
    \/ CaSteps /\ UNCHANGED uncleaned

Spec == Init /\ [][Next]_vars

\* Every request, sleep and loop step of the process ends; nothing is assumed
\* of the CA.
FairSpec == Spec /\ WF_vars(Process)

-----------------------------------------------------------------------------
\* The variables have the types of the code's variables.
TypeOK ==
    /\ shown \in [Solvers -> SUBSET Challenges]
    /\ attempt \in Attempts
    /\ pc \in {"idle", "create", "collect", "present", "ready", "poll", "finalize",
               "download", "fetch", "cleanup"}
    /\ i \in 1..(NDomains + 1)
    /\ retries \in 0..Retries
    /\ outcome \in {None, "issued", "refused", "timeout", "error"}
    /\ status \in {None, "pending", "ready", "processing", "valid", "invalid"}
    /\ auths \in [Domains -> Domains]
    /\ readied \subseteq Domains
    /\ valid \subseteq Domains
    /\ uncleaned \subseteq Attempts

\* When an attempt is over, a challenge is left in place only by an attempt in which
\* a present failed, a cleanup failed or the process died: "always clean up
\* challenges" covers every other way out of the flow.
NothingLeft ==
    pc = "idle" => \A s \in Solvers : \A ch \in shown[s] : ch.attempt \in uncleaned

\* From the moment a challenge is set ready until the flow has its result, the CA
\* can find the challenge where the solver configured for its domain puts it.  (Not
\* of a domain whose solver is not Reachable: present succeeds all the same.)
ChallengeAvailable ==
    \A d \in readied : pc \in {"ready", "poll", "finalize", "download", "fetch"} => Found(d)

\* What earlier attempts left behind does not make a later attempt fail: without
\* a fault an attempt only ends because the CA issues or is too slow.
StaleHarmless == attempt \notin FaultyAttempts => outcome \notin {"error", "refused"}

\* Every attempt ends, also when the CA leaves the order pending or processing
\* for ever: both loops count down.
AttemptEnds == pc # "idle" ~> pc = "idle"

-----------------------------------------------------------------------------
(***************************************************************************)
(* What the renewal engine sees of an attempt.                             *)
(***************************************************************************)
Phase == IF pc = "idle" THEN "idle" ELSE IF pc = "cleanup" THEN "closing" ELSE "open"
Result == IF outcome \in {None, "issued"} THEN outcome ELSE "failed"
Exposed == {d \in Domains : \E s \in Solvers : [attempt |-> attempt, domain |-> d] \in shown[s]}

Promise == INSTANCE Issuance
             WITH phase <- Phase, result <- Result, exposed <- Exposed, proved <- valid

\* The order flow keeps what Issuance promises to renew_certificate: it returns a
\* certificate only when the CA has accepted every domain, accepts none whose
\* challenge is not in place, and withdraws nothing before the result is known.
ImplementsIssuance == Promise!Spec
=============================================================================
