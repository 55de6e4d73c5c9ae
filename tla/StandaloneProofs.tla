-------------------------- MODULE StandaloneProofs --------------------------
(***************************************************************************)
(* The standalone servers: for any number of certificates, domains and     *)
(* addresses, and whatever another program does with the addresses.        *)
(***************************************************************************)
EXTENDS Standalone, TLAPS

\* The start of a server: whoever is inside it is the current certificate, the
\* Notified future exists before the task does, and so nothing that the task sends is
\* missed.
StartInv ==
    /\ \A c \in Certs : server[c] = "spawned" => c = cur /\ pc = "await"
    /\ pc \in {"register", "spawn", "await"} => ~cell[cur]
    /\ pc \in {"spawn", "await"} => registered
    /\ pc = "await" => server[cur] # "none" /\ (woken <=> server[cur] = "notified")
    /\ pc # "await" => ~woken
    /\ \A c \in Certs : cell[c] => server[c] = "notified"

\* Outside the start, an instance that holds an address has its server running.
HolderInv ==
    /\ pc = "idle" => \A c \in Certs : Bound(c) = {}
    /\ \A c \in Certs : c > cur => Bound(c) = {} /\ ~cell[c]
    /\ pc \in {"present", "insert", "flow", "cleanup", "failed"} =>
         cell[cur] \/ Bound(cur) = {}
    /\ pc = "bind" => ~cell[cur]

\* The map of the current instance is filled and emptied in the order of the
\* domains.  Those of the instances to come are empty, and those of the instances
\* that are done with if all their challenges had been presented.
MapInv ==
    /\ \A c \in Certs : c > cur \/ pc = "idle" => answers[c] = {}
    /\ \A c \in flowed : c < cur => answers[c] = {}
    /\ \A c \in flowed : c <= cur
    /\ cur \in flowed <=> pc \in {"flow", "cleanup"}
    /\ pc \in {"present", "bind", "register", "spawn", "await", "insert"} =>
         answers[cur] = {d \in Domains : d < i}
    /\ pc \in {"bind", "register", "spawn", "await", "insert"} => i \in Domains
    /\ pc = "flow" => answers[cur] = Domains
    /\ pc = "cleanup" => answers[cur] = {d \in Domains : d >= i}

StandaloneInv == TypeOK /\ StartInv /\ HolderInv /\ MapInv

-----------------------------------------------------------------------------
\* The listen addresses are addresses, and an instance is neither marker.
LEMMA ListenType ==
    /\ Len(Listen) \in Nat
    /\ \A j \in 1..Len(Listen) : Listen[j] \in Addrs
    /\ \A c \in Certs : c \in Nat /\ c # Free /\ c # Other
  BY StandaloneBounds DEF Certs

\* The order of the start: first the Notified future, then the task.
LEMMA Starting ==
    StartOrder[1] = "register" /\ After("register") = "spawn" /\ After("spawn") = "await"
  BY DEF StartOrder, After

\* Before the first run.
LEMMA StandaloneInit == Init => StandaloneInv
<1> SUFFICES ASSUME Init PROVE StandaloneInv
  OBVIOUS
<1>1. 1 \in Certs /\ 1 \in 1..(NDomains + 1) /\ 1 \in 1..(Len(Listen) + 1)
  BY StandaloneBounds, ListenType DEF Certs
<1>2. \A c \in Certs : Bound(c) = {}
  BY ListenType DEF Init, Bound
<1>3. TypeOK
  BY <1>1 DEF Init, TypeOK
<1> QED
  BY <1>2, <1>3 DEF Init, StandaloneInv, StartInv, HolderInv, MapInv

\* The start of the server inside present.
LEMMA PresentInv ==
    ASSUME StandaloneInv,
           EnsureServerRunning \/ Bind \/ NothingBound \/ SomeBound \/ Register \/ Spawn
             \/ AwaitNotified
    PROVE  StandaloneInv'
<1> USE DEF StandaloneInv
<1>0. cur \in Certs /\ Len(Listen) \in Nat
  BY ListenType DEF TypeOK
<1>1. CASE EnsureServerRunning
  <2>1. TypeOK'
    BY <1>0, <1>1 DEF EnsureServerRunning, TypeOK
  <2> QED
    BY <1>1, <2>1 DEF EnsureServerRunning, StartInv, HolderInv, MapInv, Bound, TypeOK
<1>2. CASE Bind
  <2>1. /\ pc = "bind" /\ a \in 1..Len(Listen) /\ a' = a + 1
        /\ UNCHANGED <<answers, server, accepting, cell, pc, cur, i, registered, woken, flowed>>
        /\ holder' = IF holder[Listen[a]] = Free THEN [holder EXCEPT ![Listen[a]] = cur]
                                                 ELSE holder
    BY <1>2 DEF Bind
  <2>2. TypeOK'
    BY <1>0, <2>1, ListenType DEF TypeOK
  <2>3. \A c \in Certs : c # cur => Bound(c)' = Bound(c)
    BY <1>0, <2>1, ListenType DEF Bound, TypeOK
  <2>4. StartInv' /\ MapInv'
    BY <2>1 DEF StartInv, MapInv
  <2>5. HolderInv'
    BY <1>0, <2>1, <2>3, ListenType DEF HolderInv
  <2> QED
    BY <2>2, <2>4, <2>5
<1>3. CASE NothingBound
  BY <1>3 DEF NothingBound, TypeOK, StartInv, HolderInv, MapInv, Bound
<1>4. CASE SomeBound
  BY <1>4, Starting DEF SomeBound, TypeOK, StartInv, HolderInv, MapInv, Bound
<1>5. CASE Register
  BY <1>5, Starting DEF Register, TypeOK, StartInv, HolderInv, MapInv, Bound
<1>6. CASE Spawn
  <2>1. /\ pc = "spawn" /\ pc' = "await" /\ server' = [server EXCEPT ![cur] = "spawned"]
        /\ UNCHANGED <<holder, answers, accepting, cell, cur, i, a, registered, woken, flowed>>
    BY <1>6, Starting DEF Spawn
  <2>2. TypeOK'
    BY <2>1 DEF TypeOK
  <2>3. server'[cur] = "spawned" /\ \A c \in Certs : c # cur => server'[c] = server[c]
    BY <1>0, <2>1 DEF TypeOK
  <2>4. StartInv'
    BY <1>0, <2>1, <2>3 DEF StartInv
  <2> QED
    BY <2>1, <2>2, <2>4 DEF HolderInv, MapInv, Bound
<1>7. CASE AwaitNotified
  <2>1. /\ pc = "await" /\ pc' = "insert" /\ cell' = [cell EXCEPT ![cur] = TRUE]
        /\ woken /\ woken' = FALSE /\ registered' = FALSE
        /\ UNCHANGED <<holder, answers, server, accepting, cur, i, a, flowed>>
    BY <1>7 DEF AwaitNotified
  <2>2. cell'[cur] /\ (\A c \in Certs : c # cur => cell'[c] = cell[c]) /\ TypeOK'
    BY <1>0, <2>1 DEF TypeOK
  <2>3. server[cur] = "notified"
    BY <2>1 DEF StartInv
  <2>4. StartInv'
    BY <2>1, <2>2, <2>3 DEF StartInv
  <2>5. HolderInv'
    BY <1>0, <2>1, <2>2, ListenType DEF HolderInv, Bound
  <2> QED
    BY <2>1, <2>2, <2>4, <2>5 DEF MapInv
<1> QED
  BY <1>1, <1>2, <1>3, <1>4, <1>5, <1>6, <1>7

\* The map, the order and the way from one certificate to the next.
LEMMA MapStepsInv ==
    ASSUME StandaloneInv, Insert \/ PresentFails \/ AllPresented \/ FlowEnds \/ Cleanup \/ NextCert
    PROVE  StandaloneInv'
<1> USE DEF StandaloneInv
<1>0. /\ cur \in Certs /\ cur \in Nat /\ NDomains \in Nat /\ NCerts \in Nat /\ i \in Nat
      /\ Domains = 1..NDomains /\ Certs = 1..NCerts /\ i \in 1..(NDomains + 1)
  BY ListenType, StandaloneBounds DEF TypeOK, Domains, Certs
<1>1. CASE Insert
  <2>1. /\ pc = "insert" /\ pc' = "present" /\ i' = i + 1
        /\ answers' = [answers EXCEPT ![cur] = @ \cup {i}]
        /\ UNCHANGED <<holder, server, accepting, cell, cur, a, registered, woken, flowed>>
    BY <1>1 DEF Insert
  <2>2. /\ i \in Domains /\ answers[cur] = {d \in Domains : d < i}
        /\ answers'[cur] = answers[cur] \cup {i}
        /\ \A c \in Certs : c # cur => answers'[c] = answers[c]
    BY <1>0, <2>1 DEF MapInv, TypeOK
  <2>3. answers'[cur] = {d \in Domains : d < i'}
    BY <1>0, <2>1, <2>2
  <2>4. TypeOK'
    BY <1>0, <2>1, <2>2 DEF TypeOK
  <2>5. MapInv'
    BY <1>0, <2>1, <2>2, <2>3 DEF MapInv, TypeOK
  <2> QED
    BY <2>1, <2>4, <2>5 DEF StartInv, HolderInv, Bound
<1>2. CASE AllPresented
  <2>1. /\ pc = "present" /\ i \notin Domains /\ pc' = "flow"
        /\ flowed' = flowed \cup {cur}
        /\ UNCHANGED <<holder, answers, server, accepting, cell, cur, i, a, registered, woken>>
    BY <1>2 DEF AllPresented
  <2>2. answers[cur] = {d \in Domains : d < i} /\ \A d \in Domains : d < i
    BY <1>0, <2>1 DEF MapInv
  <2>3. answers[cur] = Domains
    BY <2>2
  <2> QED
    BY <2>1, <2>3 DEF TypeOK, StartInv, HolderInv, MapInv, Bound
<1>3. CASE FlowEnds
  <2>1. /\ pc = "flow" /\ pc' = "cleanup" /\ i' = 1
        /\ UNCHANGED <<holder, answers, server, accepting, cell, cur, a, registered, woken, flowed>>
    BY <1>3 DEF FlowEnds
  <2>2. answers'[cur'] = {d \in Domains : d >= i'}
    BY <1>0, <2>1 DEF MapInv
  <2> QED
    BY <1>0, <2>1, <2>2 DEF TypeOK, StartInv, HolderInv, MapInv, Bound
<1>4. CASE Cleanup
  <2>1. /\ pc = "cleanup" /\ i \in Domains /\ i' = i + 1 /\ pc' = pc
        /\ answers' = [answers EXCEPT ![cur] = @ \ {i}]
        /\ UNCHANGED <<holder, server, accepting, cell, cur, a, registered, woken, flowed>>
    BY <1>4 DEF Cleanup
  <2>2. /\ answers[cur] = {d \in Domains : d >= i} /\ answers'[cur] = answers[cur] \ {i}
        /\ \A c \in Certs : c # cur => answers'[c] = answers[c]
    BY <1>0, <2>1 DEF MapInv, TypeOK
  <2>3. answers'[cur] = {d \in Domains : d >= i'}
    BY <1>0, <2>1, <2>2
  <2>4. TypeOK'
    BY <1>0, <2>1, <2>2 DEF TypeOK
  <2>5. MapInv'
    BY <1>0, <2>1, <2>2, <2>3 DEF MapInv, TypeOK
  <2> QED
    BY <2>1, <2>4, <2>5 DEF StartInv, HolderInv, Bound
<1>5. CASE NextCert
  <2>1. /\ Over /\ cur < NCerts /\ cur' = cur + 1 /\ i' = 1 /\ pc' = "present"
        /\ UNCHANGED <<holder, answers, server, accepting, cell, a, registered, woken, flowed>>
    BY <1>5 DEF NextCert
  <2>2. (cur \in flowed => answers[cur] = {}) /\ cur' \in Certs /\ cur' > cur
    BY <1>0, <2>1 DEF MapInv, Over
  <2>3. answers'[cur'] = {d \in Domains : d < i'}
    BY <1>0, <2>1, <2>2 DEF MapInv
  <2>4. MapInv'
    BY <1>0, <2>1, <2>2, <2>3 DEF MapInv, TypeOK
  <2>5. HolderInv'
    BY <1>0, <2>1, <2>2 DEF HolderInv, Bound, Over
  <2>6. TypeOK' /\ StartInv'
    BY <1>0, <2>1, <2>2 DEF TypeOK, StartInv, Over
  <2> QED
    BY <2>4, <2>5, <2>6
<1>6. CASE PresentFails
  BY <1>6 DEF PresentFails, TypeOK, StartInv, HolderInv, MapInv, Bound
<1> QED
  BY <1>1, <1>2, <1>3, <1>4, <1>5, <1>6

\* The process starts and ends with nothing of its own.
LEMMA ProcessInv == ASSUME StandaloneInv, ProcessExits \/ ProcessStarts PROVE StandaloneInv'
<1> USE DEF StandaloneInv
<1>1. \E h \in [Addrs -> {Free, Other}] : Reset(h)
  <2>1. CASE ProcessExits
    BY <2>1 DEF ProcessExits
  <2>2. CASE ProcessStarts
    <3>1. \A x \in Addrs : holder[x] \in {Free, Other}
      BY <2>2 DEF ProcessStarts, HolderInv, Bound, TypeOK
    <3> QED
      BY <2>2, <3>1 DEF ProcessStarts, TypeOK
  <2> QED
    BY <2>1, <2>2
<1>2. PICK h \in [Addrs -> {Free, Other}] : Reset(h)
  BY <1>1
<1>3. pc' \in {"idle", "present"}
  BY DEF ProcessExits, ProcessStarts
<1>4. \A c \in Certs : Bound(c)' = {}
  BY <1>2, ListenType DEF Reset, Bound
<1>5. 1 \in Certs /\ 1 \in 1..(NDomains + 1) /\ 1 \in 1..(Len(Listen) + 1)
  BY StandaloneBounds, ListenType DEF Certs
<1>6. TypeOK'
  BY <1>2, <1>3, <1>5 DEF Reset, TypeOK
<1>7. {d \in Domains : d < 1} = {}
  BY DEF Domains
<1> QED
  BY <1>2, <1>3, <1>4, <1>5, <1>6, <1>7 DEF Reset, StartInv, HolderInv, MapInv

\* The server task runs, at any time after it was spawned.
LEMMA ServerTaskInv == ASSUME StandaloneInv, NEW c \in Certs, ServerTask(c) PROVE StandaloneInv'
<1> USE DEF StandaloneInv
<1>1. /\ server[c] = "spawned" /\ server' = [server EXCEPT ![c] = "notified"]
      /\ woken' = (woken \/ registered)
      /\ UNCHANGED <<holder, answers, accepting, cell, pc, cur, i, a, registered, flowed>>
  BY DEF ServerTask
<1>2. c = cur /\ pc = "await" /\ registered
  BY <1>1 DEF StartInv
<1>3. server'[c] = "notified" /\ \A d \in Certs : d # c => server'[d] = server[d]
  BY <1>1 DEF TypeOK
<1>4. woken' = TRUE
  BY <1>1, <1>2, Zenon
<1>5. TypeOK'
  BY <1>1, <1>4 DEF TypeOK
<1>6. StartInv'
  BY <1>1, <1>2, <1>3, <1>4 DEF StartInv
<1> QED
  BY <1>1, <1>5, <1>6 DEF HolderInv, MapInv, Bound

\* An accept loop starts: nothing else changes.
LEMMA AcceptLoopInv ==
    ASSUME StandaloneInv, NEW c \in Certs, NEW x \in Addrs, AcceptLoop(c, x)
    PROVE  StandaloneInv'
  BY DEF AcceptLoop, StandaloneInv, TypeOK, StartInv, HolderInv, MapInv, Bound

\* Another program takes or releases an address that no instance holds.
LEMMA OtherBindsInv == ASSUME StandaloneInv, NEW x \in Addrs, OtherBinds(x) PROVE StandaloneInv'
<1> USE DEF StandaloneInv
<1>1. /\ holder[x] \in {Free, Other}
      /\ holder' = [holder EXCEPT ![x] = IF @ = Free THEN Other ELSE Free]
      /\ UNCHANGED <<answers, server, accepting, cell, pc, cur, i, a, registered, woken, flowed>>
  BY DEF OtherBinds
<1>2. TypeOK'
  BY <1>1 DEF TypeOK
<1>3. \A c \in Certs : Bound(c)' = Bound(c)
  BY <1>1, ListenType DEF Bound, TypeOK
<1>4. cur \in Certs
  BY DEF TypeOK
<1>5. StartInv' /\ MapInv'
  BY <1>1 DEF StartInv, MapInv
<1>6. HolderInv'
  BY <1>1, <1>3, <1>4 DEF HolderInv
<1> QED
  BY <1>2, <1>5, <1>6

-----------------------------------------------------------------------------
\* The inductive step.
LEMMA StandaloneNext == ASSUME StandaloneInv, [Next]_vars PROVE StandaloneInv'
<1>1. CASE UNCHANGED vars
  BY <1>1 DEF vars, StandaloneInv, TypeOK, StartInv, HolderInv, MapInv, Bound
<1> QED
  BY <1>1, PresentInv, MapStepsInv, ProcessInv, ServerTaskInv, AcceptLoopInv, OtherBindsInv
     DEF Next, Process

\* The inductive invariant.
THEOREM StandaloneInvariant == Spec => []StandaloneInv
<1>1. StandaloneInv /\ [Next]_vars => StandaloneInv'
  BY StandaloneNext
<1> QED
  BY <1>1, StandaloneInit, PTL DEF Spec

\* While an order is under way, each of its http-01 challenges is answered at every
\* address that the certificate's solver has bound and where connections are accepted
\* already; where they are not, the server task has run and the loop is all that is to
\* come.
THEOREM ServedWhereBound == Server = "http" => (Spec => []AvailableWhereBound)
<1> SUFFICES ASSUME Server = "http" PROVE Spec => []AvailableWhereBound
  OBVIOUS
<1>1. StandaloneInv => AvailableWhereBound
  <2> SUFFICES ASSUME StandaloneInv, pc = "flow", NEW d \in Domains, NEW x \in Bound(cur)
               PROVE  IF x \in accepting THEN HandleRequest(x, cur, d) ELSE server[cur] = "notified"
    BY DEF AvailableWhereBound, Answered
  <2>1. cell[cur] /\ cur \in Certs /\ d \in answers[cur]
    BY DEF StandaloneInv, HolderInv, MapInv, TypeOK
  <2>2. server[cur] = "notified"
    BY <2>1 DEF StandaloneInv, StartInv
  <2> QED
    BY <2>1, <2>2 DEF HandleRequest, Bound
<1> QED
  BY <1>1, StandaloneInvariant, PTL

\* The server tasks that outlive a certificate have nothing left to serve, unless an
\* error ended it before all its challenges were presented.
THEOREM NothingStale == Spec => []NoStaleAnswer
<1>1. StandaloneInv => NoStaleAnswer
  <2> SUFFICES ASSUME StandaloneInv, NEW c \in flowed, c < cur, NEW d \in Domains, NEW x \in Addrs
               PROVE  ~Answered(x, c, d)
    BY DEF NoStaleAnswer
  <2>1. answers[c] = {}
    BY DEF StandaloneInv, MapInv
  <2> QED
    BY <2>1 DEF Answered, HandleRequest, Resolve
<1> QED
  BY <1>1, StandaloneInvariant, PTL
=============================================================================
