----------------------------- MODULE Standalone -----------------------------
(***************************************************************************)
(* The solvers that answer challenges themselves (solver/http01.rs in its  *)
(* standalone mode, and solver/tls_alpn01.rs, which is built the same      *)
(* way), in one run of certforge: each certificate of the run gets a       *)
(* solver instance of its own (build_solvers), all with the same listen    *)
(* addresses.  The server is started by the first present.  Its task is    *)
(* detached: it keeps its addresses and its map until the process exits.   *)
(*                                                                         *)
(* Another program may hold or release the addresses meanwhile.  The       *)
(* scheduler may run the server task at any time after it is spawned, and  *)
(* each accept loop at any time after the task has sent its notification:  *)
(* until then a connection to the address waits in the kernel's backlog.   *)
(***************************************************************************)
EXTENDS Naturals, Sequences, FiniteSets

CONSTANTS
    Server,    \* "http" or "tls"
    NCerts,    \* certificates of the run that use the solver
    NDomains,  \* domains of each
    Addrs,     \* addresses
    Listen,    \* the solver's listen addresses, a sequence
    Intruder,  \* whether another program uses the addresses
    Free,      \* an address nobody holds ...
    Other      \* ... or another program

Certs == 1..NCerts
Domains == 1..NDomains

ASSUME StandaloneBounds ==
    /\ NCerts \in Nat \ {0} /\ NDomains \in Nat
    /\ Server \in {"http", "tls"} /\ Intruder \in BOOLEAN
    /\ Listen \in Seq(Addrs)
    /\ Free \notin Certs /\ Other \notin Certs /\ Free # Other

VARIABLES
    holder,     \* of each address: Free, Other, or the instance listening on it
    answers,    \* per instance, the domains in its tokens or certs map
    server,     \* per instance: "none", "spawned" or "notified"
    accepting,  \* the addresses whose accept loop runs
    cell,       \* per instance, whether the OnceCell is initialized
    pc,
    cur,        \* the certificate whose challenges are handled
    i,          \* position in the loop over its challenges
    a,          \* position in the listen addresses
    registered, \* the Notified future exists
    woken,      \* ... and has been notified
    flowed      \* history: the certificates whose challenges were all presented

vars == <<holder, answers, server, accepting, cell, pc, cur, i, a, registered, woken, flowed>>

Bound(c) == {x \in Addrs : holder[x] = c}

-----------------------------------------------------------------------------
(***************************************************************************)
(* present: ensure_server_running, then the map.                           *)
(***************************************************************************)
\* get_or_try_init runs the initializer unless an earlier present has.
EnsureServerRunning ==
    /\ pc = "present" /\ i \in Domains
    /\ pc' = IF cell[cur] THEN "insert" ELSE "bind"
    /\ a' = 1
    /\ UNCHANGED <<holder, answers, server, accepting, cell, cur, i, registered, woken, flowed>>

Bind ==
    /\ pc = "bind" /\ a \in 1..Len(Listen)
    /\ holder' = IF holder[Listen[a]] = Free THEN [holder EXCEPT ![Listen[a]] = cur]
                                             ELSE holder
    /\ a' = a + 1
    /\ UNCHANGED <<answers, server, accepting, cell, pc, cur, i, registered, woken, flowed>>

\* Mutant: the task is spawned before the Notified future exists.
SpawnFirst == <<"spawn", "register">>

\* The Notified future is created before the task is spawned.
StartOrder == <<"register", "spawn">>

\* No address could be bound: the error of the initializer is dropped.
NothingBound ==
    /\ pc = "bind" /\ a \notin 1..Len(Listen)
    /\ Bound(cur) = {}
    /\ pc' = "insert"
    /\ UNCHANGED <<holder, answers, server, accepting, cell, cur, i, a, registered, woken, flowed>>

SomeBound ==
    /\ pc = "bind" /\ a \notin 1..Len(Listen)
    /\ Bound(cur) # {}
    /\ pc' = StartOrder[1]
    /\ UNCHANGED <<holder, answers, server, accepting, cell, cur, i, a, registered, woken, flowed>>

After(label) == IF label = StartOrder[1] THEN StartOrder[2] ELSE "await"

Register ==
    /\ pc = "register"
    /\ registered' = TRUE
    /\ pc' = After("register")
    /\ UNCHANGED <<holder, answers, server, accepting, cell, cur, i, a, woken, flowed>>

Spawn ==
    /\ pc = "spawn"
    /\ server' = [server EXCEPT ![cur] = "spawned"]
    /\ pc' = After("spawn")
    /\ UNCHANGED <<holder, answers, accepting, cell, cur, i, a, registered, woken, flowed>>

\* Mutant: present does not wait for the task.
DontAwait ==
    /\ pc = "await"
    /\ cell' = [cell EXCEPT ![cur] = TRUE]
    /\ registered' = FALSE
    /\ woken' = FALSE
    /\ pc' = "insert"
    /\ UNCHANGED <<holder, answers, server, accepting, cur, i, a, flowed>>

AwaitNotified ==
    /\ pc = "await" /\ woken
    /\ cell' = [cell EXCEPT ![cur] = TRUE]
    /\ registered' = FALSE
    /\ woken' = FALSE
    /\ pc' = "insert"
    /\ UNCHANGED <<holder, answers, server, accepting, cur, i, a, flowed>>

\* The task: notify_waiters wakes who is registered at that moment ...
ServerTask(c) ==
    /\ server[c] = "spawned"
    /\ server' = [server EXCEPT ![c] = "notified"]
    /\ woken' = (woken \/ registered)
    /\ UNCHANGED <<holder, answers, accepting, cell, pc, cur, i, a, registered, flowed>>

\* ... and only then is a loop spawned for each bound address, which runs for ever
\* once the scheduler starts it.
AcceptLoop(c, x) ==
    /\ server[c] = "notified" /\ holder[x] = c /\ x \notin accepting
    /\ accepting' = accepting \cup {x}
    /\ UNCHANGED <<holder, answers, server, cell, pc, cur, i, a, registered, woken, flowed>>

Insert ==
    /\ pc = "insert"
    /\ answers' = [answers EXCEPT ![cur] = @ \cup {i}]
    /\ i' = i + 1
    /\ pc' = "present"
    /\ UNCHANGED <<holder, server, accepting, cell, cur, a, registered, woken, flowed>>

\* A domain of another solver cannot be presented, or the certificate that answers
\* a tls-alpn-01 challenge cannot be generated: the error leaves renew_certificate
\* before the flow, and what was presented is not removed.
PresentFails ==
    /\ \/ pc = "present"
       \/ pc = "insert" /\ Server = "tls"
    /\ pc' = "failed"
    /\ UNCHANGED <<holder, answers, server, accepting, cell, cur, i, a, registered, woken, flowed>>

\* The flow of module AcmeOrder, at the end of which the challenges are removed.
AllPresented ==
    /\ pc = "present" /\ i \notin Domains
    /\ pc' = "flow"
    /\ flowed' = flowed \cup {cur}
    /\ UNCHANGED <<holder, answers, server, accepting, cell, cur, i, a, registered, woken>>

FlowEnds ==
    /\ pc = "flow"
    /\ pc' = "cleanup"
    /\ i' = 1
    /\ UNCHANGED <<holder, answers, server, accepting, cell, cur, a, registered, woken, flowed>>

\* Mutant: the answers stay in the map.
CleanupNothing ==
    /\ pc = "cleanup" /\ i \in Domains
    /\ i' = i + 1
    /\ UNCHANGED <<holder, answers, server, accepting, cell, pc, cur, a, registered, woken, flowed>>

Cleanup ==
    /\ pc = "cleanup" /\ i \in Domains
    /\ answers' = [answers EXCEPT ![cur] = @ \ {i}]
    /\ i' = i + 1
    /\ UNCHANGED <<holder, server, accepting, cell, pc, cur, a, registered, woken, flowed>>

\* The certificate is done with, or given up: its solvers are dropped, their tasks
\* are not.
Over == pc = "failed" \/ (pc = "cleanup" /\ i \notin Domains)

NextCert ==
    /\ Over /\ cur < NCerts
    /\ cur' = cur + 1
    /\ i' = 1
    /\ pc' = "present"
    /\ UNCHANGED <<holder, answers, server, accepting, cell, a, registered, woken, flowed>>

Reset(h) ==
    /\ holder' = h
    /\ answers' = [c \in Certs |-> {}]
    /\ server' = [c \in Certs |-> "none"]
    /\ accepting' = {}
    /\ cell' = [c \in Certs |-> FALSE]
    /\ cur' = 1
    /\ i' = 1
    /\ a' = 1
    /\ registered' = FALSE
    /\ woken' = FALSE
    /\ flowed' = {}

ProcessExits ==
    /\ Over /\ cur = NCerts
    /\ pc' = "idle"
    /\ Reset([x \in Addrs |-> IF holder[x] = Other THEN Other ELSE Free])

ProcessStarts ==
    /\ pc = "idle"
    /\ pc' = "present"
    /\ Reset(holder)

-----------------------------------------------------------------------------
\* The other program takes a free address, or releases it.
OtherBinds(x) ==
    /\ Intruder /\ holder[x] \in {Free, Other}
    /\ holder' = [holder EXCEPT ![x] = IF @ = Free THEN Other ELSE Free]
    /\ UNCHANGED <<answers, server, accepting, cell, pc, cur, i, a, registered, woken, flowed>>

(***************************************************************************)
(* What the CA gets when it asks address x about domain d of certificate   *)
(* c and is accepted.  handle_request looks the token up in the map of the *)
(* instance that is listening.  The resolver of the tls server calls blocking_read from  *)
(* the handshake, which tokio refuses inside a runtime by a panic: the     *)
(* connection's task dies without an answer.                               *)
(***************************************************************************)
HandleRequest(x, c, d) ==
    holder[x] = c /\ x \in accepting /\ d \in answers[c]
Resolve(x, c, d) == FALSE

Answered(x, c, d) ==
    IF Server = "http" THEN HandleRequest(x, c, d) ELSE Resolve(x, c, d)

Init ==
    /\ holder \in [Addrs -> IF Intruder THEN {Free, Other} ELSE {Free}]
    /\ answers = [c \in Certs |-> {}]
    /\ server = [c \in Certs |-> "none"]
    /\ accepting = {}
    /\ cell = [c \in Certs |-> FALSE]
    /\ pc = "idle"
    /\ cur = 1
    /\ i = 1
    /\ a = 1
    /\ registered = FALSE
    /\ woken = FALSE
    /\ flowed = {}

Process ==
    \/ EnsureServerRunning \/ Bind \/ NothingBound \/ SomeBound \/ Register \/ Spawn \/ AwaitNotified
    \/ Insert \/ PresentFails \/ AllPresented \/ FlowEnds \/ Cleanup \/ NextCert \/ ProcessExits

Next ==
    \/ ProcessStarts
    \/ Process
    \/ \E c \in Certs : ServerTask(c)
    \/ \E c \in Certs, x \in Addrs : AcceptLoop(c, x)
    \/ \E x \in Addrs : OtherBinds(x)

Spec == Init /\ [][Next]_vars

\* The main task goes on, and the scheduler runs the server task once it is spawned.
\* Nothing in the run waits for an accept loop, so none is owed a step.
FairSpec == Spec /\ WF_vars(Process) /\ \A c \in Certs : WF_vars(ServerTask(c))

-----------------------------------------------------------------------------
\* The variables have the types of the code's variables.
TypeOK ==
    /\ holder \in [Addrs -> Certs \cup {Free, Other}]
    /\ answers \in [Certs -> SUBSET Domains]
    /\ server \in [Certs -> {"none", "spawned", "notified"}]
    /\ accepting \in SUBSET Addrs
    /\ cell \in [Certs -> BOOLEAN]
    /\ pc \in {"idle", "present", "bind", "register", "spawn", "await", "insert", "flow",
              "cleanup", "failed"}
    /\ cur \in Certs
    /\ i \in 1..(NDomains + 1)
    /\ a \in 1..(Len(Listen) + 1)
    /\ registered \in BOOLEAN /\ woken \in BOOLEAN
    /\ flowed \in SUBSET Certs

\* While the order is under way, every presented challenge is answered at some
\* address.
Available ==
    pc = "flow" => \A d \in Domains : \E x \in Addrs : Answered(x, cur, d)

\* The same on every address the instance has bound (one is enough to present): an
\* address where connections are accepted answers, and where they still wait in the
\* backlog the task has at least sent its notification, so that nothing but the start
\* of the address's own loop stands between the CA and the answer.  That present does
\* not wait for the loops is in the code: notify_waiters comes before they are spawned.
AvailableWhereBound ==
    pc = "flow" => \A d \in Domains : \A x \in Bound(cur) :
        IF x \in accepting THEN Answered(x, cur, d) ELSE server[cur] = "notified"

\* Once the order of a certificate is over, none of its challenges is answered if they
\* had all been presented: the tasks that outlive their solver have nothing left to
\* serve.  (After an error before that, the challenges presented so far stay answered
\* until the process exits.)
NoStaleAnswer ==
    \A c \in flowed : c < cur =>
      \A d \in Domains : \A x \in Addrs : ~Answered(x, c, d)

\* The start of the server never hangs: the notification of the task is not
\* missed, whenever the scheduler runs it.
RunEnds == pc # "idle" ~> pc = "idle"
=============================================================================
