--------------------------- MODULE TwoRunsProofs ---------------------------
(***************************************************************************)
(* Several processes without a lock, for any number of processes and       *)
(* certificates: a rotation is disturbed only where two of them meet, or   *)
(* by a save from an older copy or next to another save; a certificate     *)
(* that is installed and keeps its key is not disturbed by its renewals.   *)
(***************************************************************************)
EXTENDS TwoRuns, TLAPS

Working == {"announce", "save", "save_write", "order", "write_key", "publish"}

\* Where a process is, and what it has in hand there.
ProcInv(p) ==
    /\ pc[p] \in Working => cur[p] \in Certs /\ key[p] # None
    /\ pc[p] \in {"announce", "save", "save_write"} => cur[p] \in Rotates /\ pendFile[cur[p]] # None
    /\ pc[p] = "idle" => own[p] = {} /\ stale[p] = {}
    /\ pc[p] = "final_write" => cur[p] \notin Certs
    /\ \A c \in own[p] : c < cur[p] \/ Inside(p, c)

\* Only certificates with rotate_key have rotations, and each has its key file.
PendInv(c) ==
    /\ saved[c] # None => c \in Rotates /\ pendFile[c] # None
    /\ stateFile # Torn /\ stateFile[c] # None => c \in Rotates /\ pendFile[c] # None
    /\ \A p \in Procs : mem[p][c] # None => c \in Rotates /\ pendFile[c] # None

BaseInv == TypeOK /\ (\A p \in Procs : ProcInv(p)) /\ (\A c \in Certs : PendInv(c))

-----------------------------------------------------------------------------
\* The constants.
LEMMA Bounds ==
    /\ NCerts \in Nat /\ MaxTtl \in Nat /\ 0 \in Ages /\ Rotates \subseteq Certs
    /\ None \notin Keys /\ None \notin Ages /\ Torn \notin State
    /\ \A c \in Certs : c \in Nat /\ c >= 1 /\ c <= NCerts
    /\ NoPending \in State
  BY RunsAssumption DEF Ages, Certs, NoPending, State

\* A process leaves the variables of the others alone.
LEMMA Others ==
    ASSUME TypeOK, NEW p \in Procs, Step(p), NEW q \in Procs, q # p
    PROVE  /\ pc'[q] = pc[q] /\ cur'[q] = cur[q] /\ mem'[q] = mem[q] /\ key'[q] = key[q]
           /\ dirty'[q] = dirty[q] /\ needsSave'[q] = needsSave[q] /\ own'[q] = own[q]
           /\ pc[q] = "idle" => stale'[q] = stale[q] \/ stale'[q] = {}
           /\ stale'[q] = stale[q] \/ stale'[q] = stale[q] \cup own[p] \cup stale[p] \/ stale'[q] = {}
<1>1. CASE Load(p) \/ Pass(p) \/ Announce(p)
  BY <1>1 DEF Load, Pass, Announce, NextCert, SetLocal, Goto, TypeOK, history
<1>2. CASE TakePending(p) \/ PrePublish(p) \/ LoadOrGenerateKey(p)
  BY <1>2 DEF TakePending, PrePublish, LoadOrGenerateKey, UseKey, SetLocal, Goto, TypeOK
<1>3. CASE WriteCert(p) \/ SaveKey(p) \/ Publish(p)
  BY <1>3 DEF WriteCert, SaveKey, Publish, NextCert, SetLocal, Goto, TypeOK, history
<1>4. CASE SavePending(p)
  BY <1>4 DEF SavePending, SetLocal, Goto, TypeOK
<1>5. CASE SavePendingWrite(p)
  BY <1>5 DEF SavePendingWrite, Write, NextCert, SetLocal, Goto, TypeOK
<1>6. CASE Finish(p)
  BY <1>6 DEF Finish, Exit, SetLocal, Goto, TypeOK
<1>7. CASE FinalWrite(p)
  BY <1>7 DEF FinalWrite, Write, SetLocal, Goto, TypeOK
<1> QED
  BY <1>1, <1>2, <1>3, <1>4, <1>5, <1>6, <1>7 DEF Step

\* What a save does.
LEMMA WriteFacts ==
    ASSUME TypeOK, NEW p \in Procs, Write(p)
    PROVE  /\ stateFile' \in {mem[p], Torn} /\ saved' \in {mem[p], saved}
           /\ stateFile' \in State \cup {Torn} /\ saved' \in State
           /\ own' = [own EXCEPT ![p] = {}] /\ own' \in [Procs -> SUBSET Certs]
           /\ stale' \in [Procs -> SUBSET Certs] /\ stale'[p] = {}
           /\ raced \subseteq raced' /\ raced' \subseteq Certs
           /\ UNCHANGED <<pendFile, certFile, keyFile, zone, due>>
<1>1. mem[p] \in State /\ saved \in State /\ stale[p] \subseteq Certs /\ own[p] \subseteq Certs
  BY DEF TypeOK
<1>2. stateFile' \in {mem[p], Torn}
  BY DEF Write
<1>3. saved' \in {mem[p], saved}
  BY <1>2 DEF Write
<1>4. own' = [own EXCEPT ![p] = {}] /\ UNCHANGED <<pendFile, certFile, keyFile, zone, due>>
  BY DEF Write, SetLocal
<1>5. stale' \in [Procs -> SUBSET Certs] /\ stale'[p] = {}
  BY <1>1 DEF Write, TypeOK
<1>6. raced \subseteq raced' /\ raced' \subseteq Certs
  BY <1>1 DEF Write, TypeOK
<1>7. own' \in [Procs -> SUBSET Certs]
  BY <1>4 DEF TypeOK
<1> QED
  BY <1>1, <1>2, <1>3, <1>4, <1>5, <1>6, <1>7

\* What is left of the invariant for the other processes, and for the files.
LEMMA OthersInv ==
    ASSUME BaseInv, NEW p \in Procs, Step(p), NEW q \in Procs, q # p,
           \A c \in Certs : pendFile[c] # None => pendFile'[c] # None
    PROVE  ProcInv(q)'
<1>1. /\ pc'[q] = pc[q] /\ cur'[q] = cur[q] /\ key'[q] = key[q] /\ own'[q] = own[q]
      /\ pc[q] = "idle" => stale'[q] = stale[q] \/ stale'[q] = {}
  BY Others DEF BaseInv
<1>2. ProcInv(q)
  BY DEF BaseInv
<1>3. cur[q] \in Rotates => cur[q] \in Certs
  BY Bounds
<1> QED
  BY <1>1, <1>2, <1>3 DEF ProcInv, Inside

PendAll == \A c \in Certs : PendInv(c)

\* Starting.
LEMMA BaseLoad ==
    ASSUME BaseInv, NEW p \in Procs, Load(p)
    PROVE  TypeOK' /\ ProcInv(p)' /\ PendAll'
<1>1. TypeOK'
  BY DEF BaseInv, TypeOK, Load, SetLocal, Goto, At, shared, history
<1>2. ProcInv(p)'
  BY DEF BaseInv, TypeOK, ProcInv, Inside, Working, Load, SetLocal, Goto, At, shared, history
<1>3. PendAll'
  BY DEF BaseInv, TypeOK, PendInv, PendAll, Load, SetLocal, Goto, At, shared, history
<1> QED
  BY <1>1, <1>2, <1>3

\* Passing over a certificate.
LEMMA BasePass ==
    ASSUME BaseInv, NEW p \in Procs, Pass(p)
    PROVE  TypeOK' /\ ProcInv(p)' /\ PendAll'
<1>1. cur[p] \in Nat /\ cur[p] + 1 \in 1..(NCerts + 1)
  BY Bounds DEF Pass, Certs
<1>2. TypeOK'
  BY <1>1 DEF BaseInv, TypeOK, Pass, NextCert, SetLocal, Goto, At, shared, history
<1>3. ProcInv(p)'
  <2>1. /\ ProcInv(p) /\ own[p] \subseteq Nat /\ ~(pc[p] \in Working)
        /\ pc'[p] = "cert" /\ cur'[p] = cur[p] + 1 /\ own'[p] = own[p]
    BY Bounds DEF BaseInv, TypeOK, Pass, NextCert, SetLocal, Goto, At, shared, history, Working
  <2> QED
    BY <2>1, <1>1 DEF ProcInv, Inside, Working
<1>4. PendAll'
  BY DEF BaseInv, PendInv, PendAll, Pass, shared, history
<1> QED
  BY <1>2, <1>3, <1>4

\* The pending key is taken.
LEMMA BaseTakePending ==
    ASSUME BaseInv, NEW p \in Procs, TakePending(p)
    PROVE  TypeOK' /\ ProcInv(p)' /\ PendAll'
<1>1. /\ cur[p] \in Certs /\ mem[p][cur[p]] # None
      /\ pendFile[cur[p]] \in Keys /\ pendFile[cur[p]] # None /\ raced' \subseteq Certs
  BY Bounds DEF BaseInv, TypeOK, PendInv, TakePending, Decides, Meets
<1>2. TypeOK'
  <2>1. mem' \in [Procs -> State]
    BY <1>1 DEF BaseInv, TypeOK, TakePending, State
  <2> QED
    BY <1>1, <2>1 DEF BaseInv, TypeOK, TakePending, UseKey, SetLocal, Goto, shared
<1>3. ProcInv(p)'
  BY <1>1 DEF BaseInv, TypeOK, ProcInv, Inside, Working, TakePending, UseKey, SetLocal, Goto, shared
<1>4. PendAll'
  BY <1>1 DEF BaseInv, TypeOK, State, PendInv, PendAll, TakePending, UseKey, SetLocal, shared
<1> QED
  BY <1>2, <1>3, <1>4

\* A new pending key.
LEMMA BasePrePublish ==
    ASSUME BaseInv, NEW p \in Procs, PrePublish(p)
    PROVE  TypeOK' /\ ProcInv(p)' /\ PendAll' /\ \A c \in Certs : pendFile[c] # None => pendFile'[c] # None
<1>1. cur[p] \in Certs /\ cur[p] \in Rotates /\ raced' \subseteq Certs
  BY Bounds DEF BaseInv, TypeOK, PrePublish, Decides, Meets
<1>2. PICK k \in FreshKeys(cur[p]) : pendFile' = [pendFile EXCEPT ![cur[p]] = k] /\ key' = SetLocal(key, p, k)
  BY DEF PrePublish
<1>3. k \in Keys /\ k # None
  BY Bounds DEF FreshKeys
<1>4. TypeOK'
  BY <1>1, <1>2, <1>3 DEF BaseInv, TypeOK, PrePublish, SetLocal, Goto
<1>5. ProcInv(p)'
  BY <1>1, <1>2, <1>3 DEF BaseInv, TypeOK, ProcInv, Inside, Working, PrePublish, Decides, At, SetLocal, Goto
<1>6. \A c \in Certs : pendFile[c] # None => pendFile'[c] # None
  BY <1>1, <1>2, <1>3 DEF BaseInv, TypeOK
<1>7. PendAll'
  BY <1>6 DEF BaseInv, PendInv, PendAll, PrePublish
<1> QED
  BY <1>4, <1>5, <1>6, <1>7

\* The key in place, or a first one.
LEMMA BaseLoadOrGenerateKey ==
    ASSUME BaseInv, NEW p \in Procs, LoadOrGenerateKey(p)
    PROVE  TypeOK' /\ ProcInv(p)' /\ PendAll'
<1>1. cur[p] \in Certs /\ raced' \subseteq Certs
  BY Bounds DEF BaseInv, TypeOK, LoadOrGenerateKey, Decides, Meets
<1>2. \E k \in Keys, b \in BOOLEAN : UseKey(p, k, b)
  <2>1. CASE keyFile[cur[p]] # None
    <3>1. keyFile[cur[p]] \in Keys /\ UseKey(p, keyFile[cur[p]], FALSE)
      BY <1>1, <2>1 DEF BaseInv, TypeOK, LoadOrGenerateKey
    <3> QED
      BY <3>1
  <2>2. CASE keyFile[cur[p]] = None
    <3>1. \E k \in FreshKeys(cur[p]) : UseKey(p, k, TRUE)
      BY <2>2 DEF LoadOrGenerateKey
    <3> QED
      BY <3>1 DEF FreshKeys
  <2> QED
    BY <2>1, <2>2
<1>3. PICK k \in Keys, b \in BOOLEAN : UseKey(p, k, b)
  BY <1>2
<1>7. k # None
  BY Bounds
<1>4. TypeOK'
  BY <1>1, <1>3 DEF BaseInv, TypeOK, LoadOrGenerateKey, UseKey, SetLocal, Goto, shared
<1>5. ProcInv(p)'
  BY <1>1, <1>3, <1>7 DEF BaseInv, TypeOK, ProcInv, Inside, Working, LoadOrGenerateKey,
     Decides, At, UseKey, SetLocal, Goto, shared
<1>6. PendAll'
  BY <1>3 DEF BaseInv, PendInv, PendAll, LoadOrGenerateKey, UseKey, shared
<1> QED
  BY <1>4, <1>5, <1>6

\* The announcement.
LEMMA BaseAnnounce ==
    ASSUME BaseInv, NEW p \in Procs, Announce(p)
    PROVE  TypeOK' /\ ProcInv(p)' /\ PendAll'
<1>1. cur[p] \in Certs /\ key[p] \in Keys /\ key[p] # None /\ cur[p] \in Nat /\ cur[p] + 1 \in 1..(NCerts + 1)
  BY Bounds DEF BaseInv, TypeOK, ProcInv, Working, Announce, At, Certs
<1>2. TypeOK'
  <2>1. [key |-> key[p], age |-> 0] \in [key: Keys, age: Ages]
    BY <1>1, Bounds
  <2>2. zone' \in [Certs -> SUBSET [key: Keys, age: Ages]]
    BY <2>1, <1>1 DEF BaseInv, TypeOK, Announce
  <2> QED
    BY <1>1, <2>2 DEF BaseInv, TypeOK, Announce, NextCert, SetLocal, Goto, history
<1>3. ProcInv(p)'
  <2>1. own[p] \subseteq Nat
    BY Bounds DEF BaseInv, TypeOK
  <2> QED
    BY <1>1, <2>1 DEF BaseInv, TypeOK, ProcInv, Inside, Working, Announce, NextCert, SetLocal, Goto, At, history
<1>4. PendAll'
  BY DEF BaseInv, PendInv, PendAll, Announce, history
<1> QED
  BY <1>2, <1>3, <1>4

\* The new rotation enters the copy.
LEMMA BaseSavePending ==
    ASSUME BaseInv, NEW p \in Procs, SavePending(p)
    PROVE  TypeOK' /\ ProcInv(p)' /\ PendAll'
<1>1. cur[p] \in Certs /\ cur[p] \in Rotates /\ pendFile[cur[p]] # None
  BY Bounds DEF BaseInv, TypeOK, ProcInv, Working, SavePending, At
<1>2. TypeOK'
  <2>1. mem' \in [Procs -> State]
    BY <1>1, Bounds DEF BaseInv, TypeOK, SavePending, State
  <2> QED
    BY <1>1, <2>1 DEF BaseInv, TypeOK, SavePending, Truncate, SetLocal, Goto
<1>3. ProcInv(p)'
  BY <1>1 DEF BaseInv, TypeOK, ProcInv, Inside, Working, SavePending, Truncate, SetLocal, Goto, At
<1>4. PendAll'
  BY <1>1 DEF BaseInv, TypeOK, State, PendInv, PendAll, SavePending, Truncate, SetLocal
<1> QED
  BY <1>2, <1>3, <1>4

\* The copy is written.
LEMMA BaseSavePendingWrite ==
    ASSUME BaseInv, NEW p \in Procs, SavePendingWrite(p)
    PROVE  TypeOK' /\ ProcInv(p)' /\ PendAll'
<1>1. cur[p] \in Certs /\ cur[p] \in Nat /\ cur[p] + 1 \in 1..(NCerts + 1)
  BY Bounds DEF BaseInv, TypeOK, ProcInv, Working, SavePendingWrite, At, Certs
<1>2. /\ stateFile' \in {mem[p], Torn} /\ saved' \in {mem[p], saved}
      /\ stateFile' \in State \cup {Torn} /\ saved' \in State
      /\ own' = [own EXCEPT ![p] = {}] /\ own' \in [Procs -> SUBSET Certs]
      /\ stale' \in [Procs -> SUBSET Certs] /\ stale'[p] = {}
      /\ raced' \subseteq Certs
      /\ UNCHANGED <<pendFile, certFile, keyFile, zone, due>>
  BY WriteFacts DEF BaseInv, SavePendingWrite
<1>3. TypeOK'
  BY <1>1, <1>2 DEF BaseInv, TypeOK, SavePendingWrite, NextCert, SetLocal, Goto
<1>4. ProcInv(p)'
  BY <1>1, <1>2 DEF BaseInv, TypeOK, ProcInv, Inside, Working, SavePendingWrite, NextCert, SetLocal, Goto
<1>5. PendAll'
  BY <1>2 DEF BaseInv, PendInv, PendAll, SavePendingWrite
<1> QED
  BY <1>3, <1>4, <1>5

\* The certificate and its key.
LEMMA BaseInstall ==
    ASSUME BaseInv, NEW p \in Procs, WriteCert(p) \/ SaveKey(p)
    PROVE  TypeOK' /\ ProcInv(p)' /\ PendAll'
<1>1. cur[p] \in Certs /\ key[p] \in Keys /\ key[p] # None
  BY Bounds DEF BaseInv, TypeOK, ProcInv, Working, WriteCert, SaveKey, At
<1>2. TypeOK'
  BY <1>1 DEF BaseInv, TypeOK, WriteCert, SaveKey, SetLocal, Goto, history
<1>3. ProcInv(p)'
  BY <1>1 DEF BaseInv, TypeOK, ProcInv, Inside, Working, WriteCert, SaveKey, SetLocal, Goto, At, history
<1>4. PendAll'
  BY DEF BaseInv, PendInv, PendAll, WriteCert, SaveKey, history
<1> QED
  BY <1>2, <1>3, <1>4

\* The record of the new certificate.
LEMMA BasePublish ==
    ASSUME BaseInv, NEW p \in Procs, Publish(p)
    PROVE  TypeOK' /\ ProcInv(p)' /\ PendAll'
<1>1. cur[p] \in Certs /\ key[p] \in Keys /\ key[p] # None /\ cur[p] \in Nat /\ cur[p] + 1 \in 1..(NCerts + 1)
  BY Bounds DEF BaseInv, TypeOK, ProcInv, Working, Publish, At, Certs
<1>2. TypeOK'
  <2>1. [key |-> key[p], age |-> 0] \in [key: Keys, age: Ages]
    BY <1>1, Bounds
  <2>2. zone' \in [Certs -> SUBSET [key: Keys, age: Ages]]
    BY <2>1, <1>1 DEF BaseInv, TypeOK, Publish
  <2> QED
    BY <1>1, <2>2 DEF BaseInv, TypeOK, Publish, NextCert, SetLocal, Goto, history
<1>3. ProcInv(p)'
  <2>1. own[p] \subseteq Nat
    BY Bounds DEF BaseInv, TypeOK
  <2> QED
    BY <1>1, <2>1 DEF BaseInv, TypeOK, ProcInv, Inside, Working, Publish, NextCert, SetLocal, Goto, At, history
<1>4. PendAll'
  BY DEF BaseInv, PendInv, PendAll, Publish, history
<1> QED
  BY <1>2, <1>3, <1>4

\* The end of a run.
LEMMA BaseFinish ==
    ASSUME BaseInv, NEW p \in Procs, Finish(p)
    PROVE  TypeOK' /\ ProcInv(p)' /\ PendAll'
<1>1. NoPending \in State /\ 1 \in 1..(NCerts + 1)
  BY Bounds
<1>2. CASE dirty[p]
  <2>1. /\ Truncate(p) /\ Goto(p, "final_write")
        /\ UNCHANGED <<cur, mem, dirty, key, needsSave, own, stale, saved, raced>>
    BY <1>2 DEF Finish
  <2>2. TypeOK'
    BY <2>1 DEF BaseInv, TypeOK, Truncate, Goto
  <2>3. ProcInv(p)'
    BY <2>1 DEF BaseInv, TypeOK, ProcInv, Inside, Working, Finish, At, Truncate, Goto
  <2>4. PendAll'
    BY <2>1 DEF BaseInv, PendInv, PendAll, Truncate
  <2> QED
    BY <2>2, <2>3, <2>4
<1>3. CASE ~dirty[p]
  <2>1. Exit(p) /\ UNCHANGED <<shared, saved, raced>>
    BY <1>3 DEF Finish
  <2>2. key[p] = None
    BY DEF BaseInv, TypeOK, Finish
  <2>3. TypeOK'
    BY <1>1, <2>1, <2>2 DEF BaseInv, TypeOK, Exit, Goto, SetLocal, shared
  <2>4. ProcInv(p)'
    BY <2>1 DEF BaseInv, TypeOK, ProcInv, Working, Exit, Goto, SetLocal
  <2>5. PendAll'
    BY <2>1 DEF BaseInv, TypeOK, PendInv, PendAll, Exit, SetLocal, NoPending, shared
  <2> QED
    BY <2>3, <2>4, <2>5
<1> QED
  BY <1>2, <1>3

\* The last save of a run.
LEMMA BaseFinalWrite ==
    ASSUME BaseInv, NEW p \in Procs, FinalWrite(p)
    PROVE  TypeOK' /\ ProcInv(p)' /\ PendAll'
<1>1. /\ NoPending \in State /\ 1 \in 1..(NCerts + 1) /\ key[p] = None
  BY Bounds DEF BaseInv, TypeOK, ProcInv, FinalWrite, At
<1>2. /\ stateFile' \in {mem[p], Torn} /\ saved' \in {mem[p], saved}
      /\ stateFile' \in State \cup {Torn} /\ saved' \in State
      /\ own' = [own EXCEPT ![p] = {}] /\ own' \in [Procs -> SUBSET Certs]
      /\ stale' \in [Procs -> SUBSET Certs] /\ stale'[p] = {}
      /\ raced' \subseteq Certs
      /\ UNCHANGED <<pendFile, certFile, keyFile, zone, due>>
  BY WriteFacts DEF BaseInv, FinalWrite
<1>3. TypeOK'
  BY <1>1, <1>2 DEF BaseInv, TypeOK, FinalWrite, SetLocal, Goto
<1>4. ProcInv(p)'
  BY <1>1, <1>2 DEF BaseInv, TypeOK, ProcInv, Inside, Working, FinalWrite, SetLocal, Goto
<1>5. PendAll'
  BY <1>2 DEF BaseInv, TypeOK, PendInv, PendAll, FinalWrite, SetLocal, NoPending
<1> QED
  BY <1>3, <1>4, <1>5

-----------------------------------------------------------------------------
\* The clock keeps the order of ages, and nothing else ends or starts a rotation.
LEMMA OlderFacts ==
    /\ \A a \in Ages \cup {None} : Older(a) \in Ages \cup {None} /\ (Older(a) = None <=> a = None)
    /\ \A a \in Ages : Older(a) \in Ages /\ Older(a) >= a
    /\ \A a, v \in Ages : a >= v => Older(a) >= Older(v)
  BY Bounds DEF Older, Ages

\* The clock, cell by cell.
LEMMA TickFacts ==
    ASSUME BaseInv, Tick
    PROVE  /\ stateFile' \in State \cup {Torn} /\ saved' \in State /\ mem' \in [Procs -> State]
           /\ zone' \in [Certs -> SUBSET [key: Keys, age: Ages]]
           /\ stateFile' = Torn <=> stateFile = Torn
           /\ \A c \in Certs : saved'[c] = Older(saved[c])
           /\ \A c \in Certs : stateFile # Torn => stateFile'[c] = Older(stateFile[c])
           /\ \A p \in Procs, c \in Certs : mem'[p][c] = Older(mem[p][c])
           /\ \A c \in Certs : \A r \in zone[c] : \E s \in zone'[c] : s.key = r.key /\ s.age = Older(r.age)
<1>1. \A s \in State : OlderState(s) \in State
  BY OlderFacts DEF State, OlderState
<1>2. saved' \in State /\ mem' \in [Procs -> State] /\ stateFile' \in State \cup {Torn}
  BY <1>1 DEF BaseInv, TypeOK, Tick
<1>3. stateFile' = Torn <=> stateFile = Torn
  BY <1>1, Bounds DEF BaseInv, TypeOK, Tick
<1>4. \A c \in Certs : saved'[c] = Older(saved[c])
  BY DEF Tick, OlderState
<1>5. \A c \in Certs : stateFile # Torn => stateFile'[c] = Older(stateFile[c])
  BY DEF Tick, OlderState
<1>6. \A p \in Procs, c \in Certs : mem'[p][c] = Older(mem[p][c])
  BY DEF Tick, OlderState
<1>7. ASSUME NEW c \in Certs, NEW r \in zone[c]
      PROVE  /\ [r EXCEPT !.age = Older(@)] \in [key: Keys, age: Ages]
             /\ [r EXCEPT !.age = Older(@)].key = r.key /\ [r EXCEPT !.age = Older(@)].age = Older(r.age)
  <2>1. r \in [key: Keys, age: Ages]
    BY DEF BaseInv, TypeOK
  <2> QED
    BY <2>1, OlderFacts
<1>8. zone' \in [Certs -> SUBSET [key: Keys, age: Ages]]
  BY <1>7 DEF Tick
<1>9. \A c \in Certs : \A r \in zone[c] : \E s \in zone'[c] : s.key = r.key /\ s.age = Older(r.age)
  <2>1. SUFFICES ASSUME NEW c \in Certs, NEW r \in zone[c]
                 PROVE  \E s \in zone'[c] : s.key = r.key /\ s.age = Older(r.age)
    OBVIOUS
  <2>2. [r EXCEPT !.age = Older(@)] \in zone'[c]
    BY DEF Tick
  <2> QED
    BY <2>2, <1>7
<1> QED
  BY <1>2, <1>3, <1>4, <1>5, <1>6, <1>8, <1>9

\* The clock.
LEMMA BaseTick ==
    ASSUME BaseInv, Tick
    PROVE  BaseInv'
<1> USE TickFacts
<1>1. UNCHANGED <<pendFile, certFile, keyFile, due, pc, cur, dirty, key, needsSave, own, stale, raced>>
  BY DEF Tick
<1>2. TypeOK'
  BY <1>1 DEF BaseInv, TypeOK
<1>3. \A p \in Procs : ProcInv(p)'
  BY <1>1 DEF BaseInv, ProcInv, Inside
<1>4. ASSUME NEW c \in Certs PROVE PendInv(c)'
  <2>1. /\ saved[c] \in Ages \cup {None} /\ (stateFile # Torn => stateFile[c] \in Ages \cup {None})
        /\ \A p \in Procs : mem[p][c] \in Ages \cup {None}
    BY DEF BaseInv, TypeOK, State
  <2>2. /\ saved'[c] # None => saved[c] # None
        /\ stateFile' # Torn /\ stateFile'[c] # None => stateFile # Torn /\ stateFile[c] # None
        /\ \A p \in Procs : mem'[p][c] # None => mem[p][c] # None
    BY <2>1, OlderFacts
  <2> QED
    BY <1>1, <2>2 DEF BaseInv, PendInv
<1> QED
  BY <1>2, <1>3, <1>4 DEF BaseInv

\* The pending keys are replaced, never removed.
LEMMA PendFileKept ==
    ASSUME BaseInv, NEW p \in Procs, Step(p), NEW c \in Certs, pendFile[c] # None
    PROVE  pendFile'[c] # None
<1>1. CASE PrePublish(p)
  BY <1>1, BasePrePublish
<1>2. CASE ~PrePublish(p)
  <2>1. Write(p) => UNCHANGED pendFile
    BY DEF Write
  <2> QED
    BY <1>2, <2>1 DEF Step, Load, Pass, TakePending, LoadOrGenerateKey, UseKey, Announce, SavePending, Truncate,
       SavePendingWrite, WriteCert, SaveKey, Publish, Finish, FinalWrite, shared
<1> QED
  BY <1>1, <1>2

\* The first part of the invariant holds at the start,
LEMMA BaseInit ==
    Init => BaseInv
<1> SUFFICES ASSUME Init PROVE BaseInv
  OBVIOUS
<1>1. TypeOK
  BY Bounds DEF Init, TypeOK
<1>2. \A p \in Procs : ProcInv(p)
  BY DEF Init, ProcInv, Working
<1>3. \A c \in Certs : PendInv(c)
  BY DEF Init, PendInv, NoPending
<1> QED
  BY <1>1, <1>2, <1>3 DEF BaseInv

\* and is kept by every step.
LEMMA BaseNext ==
    ASSUME BaseInv, [Next]_vars
    PROVE  BaseInv'
<1>1. ASSUME NEW p \in Procs, Step(p) PROVE BaseInv'
  <2>1. TypeOK' /\ ProcInv(p)' /\ PendAll'
    BY <1>1, BaseLoad, BasePass, BaseTakePending, BasePrePublish, BaseLoadOrGenerateKey, BaseAnnounce,
       BaseSavePending, BaseSavePendingWrite, BaseInstall, BasePublish, BaseFinish, BaseFinalWrite DEF Step
  <2>2. \A c \in Certs : pendFile[c] # None => pendFile'[c] # None
    BY <1>1, PendFileKept
  <2>3. \A q \in Procs : q # p => ProcInv(q)'
    BY <1>1, <2>2, OthersInv
  <2> QED
    BY <2>1, <2>3 DEF BaseInv, PendAll
<1>2. CASE Tick
  BY <1>2, BaseTick
<1>3. CASE \E c \in Certs : BecomesDue(c)
  <2>1. /\ UNCHANGED <<stateFile, pendFile, certFile, keyFile, zone, local, history>>
        /\ due' \in [Certs -> BOOLEAN]
    BY <1>3 DEF BecomesDue, BaseInv, TypeOK
  <2>2. TypeOK'
    BY <2>1 DEF BaseInv, TypeOK, local, history
  <2>3. (\A p \in Procs : ProcInv(p)') /\ (\A c \in Certs : PendInv(c)')
    BY <2>1 DEF BaseInv, ProcInv, PendInv, Inside, local, history
  <2> QED
    BY <2>2, <2>3 DEF BaseInv
<1>4. CASE UNCHANGED vars
  <2>1. TypeOK'
    BY <1>4 DEF BaseInv, TypeOK, vars
  <2>2. (\A p \in Procs : ProcInv(p)') /\ (\A c \in Certs : PendInv(c)')
    BY <1>4 DEF BaseInv, ProcInv, PendInv, Inside, vars
  <2> QED
    BY <2>1, <2>2 DEF BaseInv
<1> QED
  BY <1>1, <1>2, <1>3, <1>4 DEF Next

-----------------------------------------------------------------------------
(***************************************************************************)
(* The certificates whose handling has met no other process.               *)
(***************************************************************************)
\* The pending key is announced, and for at least v.
Backed(c, v) == \E r \in zone[c] : r.key = pendFile[c] /\ r.age >= v

\* Every copy that is not stale agrees with the file, but for the process' own changes.
CopyInv(c) ==
    /\ stateFile # Torn => stateFile[c] = saved[c]
    /\ \A p \in Procs : pc[p] # "idle" /\ c \notin stale[p] /\ c \notin own[p] => mem[p][c] = saved[c]
    /\ \A p \in Procs : c \in own[p] => mem[p][c] = None \/ (pc[p] = "save_write" /\ cur[p] = c)

\* One process at a time is inside, with the pending key, and it works from what the
\* zone and the certificate show.
InsideInv(c) ==
    \A p \in Procs : Inside(p, c) =>
      /\ \A q \in Procs : Inside(q, c) => p = q
      /\ pendFile[c] = key[p]
      /\ pc[p] \in {"announce", "save", "save_write"} => saved[c] = None
      /\ pc[p] = "save" => Backed(c, 0)
      /\ pc[p] = "save_write" => mem[p][c] # None /\ Backed(c, mem[p][c])
      /\ pc[p] \in {"order", "write_key", "publish"} => Aged(c, key[p])
      /\ pc[p] \in {"write_key", "publish"} => certFile[c] = key[p]

\* A rotation in the file is announced; who has crossed it out has used its key.
SavedInv(c) ==
    saved[c] # None =>
      /\ Backed(c, saved[c])
      /\ \A p \in Procs : c \in own[p] /\ c \notin stale[p] /\ ~Inside(p, c) => certFile[c] = pendFile[c]

Meeting(c) == CopyInv(c) /\ InsideInv(c) /\ SavedInv(c)

\* A start reads what was saved last.
LEMMA MeetLoad ==
    ASSUME BaseInv, NEW p \in Procs, Load(p), NEW c \in Certs, Meeting(c)
    PROVE  Meeting(c)'
<1>1. /\ own[p] = {} /\ stale[p] = {} /\ pc[p] = "idle" /\ stateFile # Torn
      /\ pc' = [pc EXCEPT ![p] = "cert"] /\ mem' = [mem EXCEPT ![p] = stateFile]
      /\ UNCHANGED <<stateFile, pendFile, certFile, zone, cur, key, saved, own, stale>>
  BY DEF BaseInv, ProcInv, Load, At, Goto, SetLocal, shared, history
<1>2. DOMAIN pc = Procs /\ mem \in [Procs -> State]
  BY DEF BaseInv, TypeOK
<1>3. CopyInv(c)'
  BY <1>1, <1>2 DEF Meeting, CopyInv
<1>4. \A q \in Procs : Inside(q, c)' <=> Inside(q, c)
  BY <1>1, <1>2 DEF Inside
<1>5. InsideInv(c)'
  BY <1>1, <1>2, <1>4 DEF Meeting, InsideInv, Inside, Backed, Aged
<1>6. SavedInv(c)'
  BY <1>1, <1>4 DEF Meeting, SavedInv, Backed
<1> QED
  BY <1>3, <1>5, <1>6 DEF Meeting

\* Passing over a certificate changes no rotation.
LEMMA MeetPass ==
    ASSUME BaseInv, NEW p \in Procs, Pass(p), NEW c \in Certs, Meeting(c)
    PROVE  Meeting(c)'
<1>1. /\ pc[p] = "cert"
      /\ pc' = [pc EXCEPT ![p] = "cert"] /\ cur' = [cur EXCEPT ![p] = cur[p] + 1]
      /\ key' = [key EXCEPT ![p] = None]
      /\ UNCHANGED <<stateFile, pendFile, certFile, zone, mem, saved, own, stale>>
  BY DEF Pass, NextCert, At, Goto, SetLocal, shared, history
<1>2. DOMAIN pc = Procs /\ cur \in [Procs -> 1..(NCerts + 1)] /\ key \in [Procs -> Keys \cup {None}]
  BY DEF BaseInv, TypeOK
<1>3. CopyInv(c)'
  BY <1>1, <1>2 DEF Meeting, CopyInv
<1>4. \A q \in Procs : Inside(q, c)' <=> Inside(q, c)
  BY <1>1, <1>2 DEF Inside
<1>5. InsideInv(c)'
  BY <1>1, <1>2, <1>4 DEF Meeting, InsideInv, Inside, Backed, Aged
<1>6. SavedInv(c)'
  BY <1>1, <1>4 DEF Meeting, SavedInv, Backed
<1> QED
  BY <1>3, <1>5, <1>6 DEF Meeting

\* A decision about a certificate nobody has met at is taken alone, on the saved state.
LEMMA DecidesAlone ==
    ASSUME BaseInv, NEW p \in Procs, Decides(p), NEW c \in Certs, Meeting(c), c \notin raced', cur[p] = c
    PROVE  /\ c \notin stale[p] /\ c \notin own[p] /\ mem[p][c] = saved[c] /\ pc[p] = "cert"
           /\ \A q \in Procs : ~Inside(q, c)
<1>1. pc[p] = "cert" /\ c \notin stale[p] /\ \A q \in Procs \ {p} : ~Inside(q, c)
  BY DEF Decides, Meets, At
<1>2. ~Inside(p, c)
  BY <1>1 DEF Inside
<1>3. c \notin own[p]
  <2>1. c \in Nat
    BY Bounds
  <2> QED
    BY <1>2, <2>1 DEF BaseInv, ProcInv
<1>4. mem[p][c] = saved[c]
  BY <1>1, <1>3 DEF Meeting, CopyInv
<1> QED
  BY <1>1, <1>2, <1>3, <1>4

\* A decision about another certificate.
LEMMA MeetElsewhere ==
    ASSUME BaseInv, NEW p \in Procs, TakePending(p) \/ PrePublish(p) \/ LoadOrGenerateKey(p),
           NEW c \in Certs, Meeting(c), cur[p] # c
    PROVE  Meeting(c)'
<1>1. /\ \A q \in Procs : pc'[q] # "idle" <=> pc[q] # "idle"
      /\ \A q \in Procs : q # p => pc'[q] = pc[q] /\ key'[q] = key[q]
      /\ pc[p] = "cert" /\ cur' = cur
      /\ \A q \in Procs : mem'[q][c] = mem[q][c] /\ (c \in own'[q] <=> c \in own[q])
      /\ pendFile'[c] = pendFile[c]
      /\ UNCHANGED <<stateFile, certFile, zone, saved, stale>>
  <2>1. /\ DOMAIN pc = Procs /\ key \in [Procs -> Keys \cup {None}] /\ own \in [Procs -> SUBSET Certs]
        /\ mem \in [Procs -> State] /\ pendFile \in [Certs -> Keys \cup {None}]
        /\ \A q \in Procs : DOMAIN mem[q] = Certs
    BY DEF BaseInv, TypeOK, State
  <2>2. pc[p] = "cert" /\ cur[p] \in Certs
    BY DEF TakePending, PrePublish, LoadOrGenerateKey, Decides, At
  <2>3. CASE TakePending(p)
    BY <2>1, <2>2, <2>3 DEF TakePending, UseKey, Goto, SetLocal, shared
  <2>4. CASE PrePublish(p)
    BY <2>1, <2>2, <2>4 DEF PrePublish, Goto, SetLocal
  <2>5. CASE LoadOrGenerateKey(p)
    <3>1. PICK k, b : UseKey(p, k, b)
      BY <2>5 DEF LoadOrGenerateKey
    <3> QED
      BY <2>1, <2>2, <2>5, <3>1 DEF LoadOrGenerateKey, UseKey, Goto, SetLocal, shared
  <2> QED
    BY <2>3, <2>4, <2>5
<1>2. \A q \in Procs : Inside(q, c)' <=> Inside(q, c)
  BY <1>1 DEF Inside
<1>3. CopyInv(c)'
  BY <1>1 DEF Meeting, CopyInv
<1>4. InsideInv(c)'
  BY <1>1, <1>2 DEF Meeting, InsideInv, Inside, Backed, Aged
<1>5. SavedInv(c)'
  BY <1>1, <1>2 DEF Meeting, SavedInv, Backed
<1> QED
  BY <1>3, <1>4, <1>5 DEF Meeting

\* The pending key is taken after the TTL.
LEMMA MeetTakePending ==
    ASSUME BaseInv, NEW p \in Procs, TakePending(p), NEW c \in Certs, Meeting(c), c \notin raced', cur[p] = c
    PROVE  Meeting(c)'
<1>1. /\ c \notin stale[p] /\ c \notin own[p] /\ mem[p][c] = saved[c] /\ pc[p] = "cert"
      /\ \A q \in Procs : ~Inside(q, c)
  BY DecidesAlone DEF TakePending
<1>2. /\ saved[c] # None /\ saved[c] >= MaxTtl
      /\ pc' = [pc EXCEPT ![p] = "order"] /\ cur' = cur /\ key' = [key EXCEPT ![p] = pendFile[c]]
      /\ mem' = [mem EXCEPT ![p][c] = None] /\ own' = [own EXCEPT ![p] = @ \cup {c}]
      /\ UNCHANGED <<stateFile, pendFile, certFile, zone, saved, stale>>
  BY <1>1 DEF TakePending, Decides, UseKey, Goto, SetLocal, shared
<1>3. /\ DOMAIN pc = Procs /\ key \in [Procs -> Keys \cup {None}] /\ own \in [Procs -> SUBSET Certs]
      /\ mem \in [Procs -> State] /\ saved[c] \in Nat /\ MaxTtl \in Nat
      /\ \A r \in zone[c] : r.age \in Nat
  BY <1>2, Bounds DEF BaseInv, TypeOK, State, Ages
<1>4. Aged(c, pendFile[c])
  BY <1>2, <1>3 DEF Meeting, SavedInv, Backed, Aged
<1>5. CopyInv(c)'
  BY <1>1, <1>2, <1>3 DEF Meeting, CopyInv, State
<1>6. \A q \in Procs : Inside(q, c)' <=> q = p
  BY <1>1, <1>2, <1>3 DEF Inside
<1>7. InsideInv(c)'
  BY <1>2, <1>3, <1>4, <1>6 DEF InsideInv, Aged
<1>8. SavedInv(c)'
  BY <1>1, <1>2, <1>3, <1>6 DEF Meeting, SavedInv, Backed
<1> QED
  BY <1>5, <1>7, <1>8 DEF Meeting

\* A new key becomes the pending one only where no rotation is saved.
LEMMA MeetPrePublish ==
    ASSUME BaseInv, NEW p \in Procs, PrePublish(p), NEW c \in Certs, Meeting(c), c \notin raced', cur[p] = c
    PROVE  Meeting(c)'
<1>1. /\ c \notin stale[p] /\ c \notin own[p] /\ mem[p][c] = saved[c] /\ pc[p] = "cert"
      /\ \A q \in Procs : ~Inside(q, c)
  BY DecidesAlone DEF PrePublish
<1>2. PICK k : pendFile' = [pendFile EXCEPT ![c] = k] /\ key' = [key EXCEPT ![p] = k]
  BY DEF PrePublish, SetLocal
<1>3. /\ saved[c] = None /\ pc' = [pc EXCEPT ![p] = "announce"]
      /\ UNCHANGED <<stateFile, certFile, zone, cur, mem, saved, own, stale>>
  BY <1>1 DEF PrePublish, Goto
<1>4. /\ DOMAIN pc = Procs /\ key \in [Procs -> Keys \cup {None}] /\ pendFile \in [Certs -> Keys \cup {None}]
  BY DEF BaseInv, TypeOK
<1>5. CopyInv(c)'
  BY <1>1, <1>3, <1>4 DEF Meeting, CopyInv
<1>6. \A q \in Procs : Inside(q, c)' <=> q = p
  BY <1>1, <1>3, <1>4 DEF Inside
<1>7. InsideInv(c)'
  BY <1>2, <1>3, <1>4, <1>6 DEF InsideInv
<1>8. SavedInv(c)'
  BY <1>3 DEF SavedInv
<1> QED
  BY <1>5, <1>7, <1>8 DEF Meeting

\* The announcement makes the pending key the one in the zone.
LEMMA MeetAnnounce ==
    ASSUME BaseInv, NEW p \in Procs, Announce(p), NEW c \in Certs, Meeting(c)
    PROVE  Meeting(c)'
<1>1. /\ DOMAIN pc = Procs /\ DOMAIN cur = Procs /\ DOMAIN zone = Certs /\ key \in [Procs -> Keys \cup {None}]
      /\ cur[p] \in Nat /\ cur[p] + 1 # cur[p]
  BY Bounds DEF BaseInv, TypeOK
<1>2. /\ pc[p] = "announce" /\ cur[p] \in Certs
      /\ UNCHANGED <<stateFile, pendFile, certFile, mem, saved, own, stale>>
  BY DEF BaseInv, ProcInv, Working, Announce, At, history
<1>3. /\ \A q \in Procs : q # p => pc'[q] = pc[q] /\ key'[q] = key[q] /\ cur'[q] = cur[q]
      /\ \/ pc'[p] = "cert"
         \/ pc'[p] = "save" /\ cur'[p] = cur[p] /\ key'[p] = key[p]
      /\ \A q \in Procs : pc'[q] # "idle" <=> pc[q] # "idle"
      /\ \A q \in Procs : pc'[q] = "save_write" <=> pc[q] = "save_write"
      /\ \A q \in Procs : Inside(q, c)' => Inside(q, c)
  BY <1>1, <1>2 DEF Announce, NextCert, Goto, SetLocal, Inside
<1>4. CopyInv(c)'
  BY <1>2, <1>3 DEF Meeting, CopyInv
<1>5. CASE cur[p] = c
  <2>1. Inside(p, c)
    BY <1>2, <1>5 DEF Inside
  <2>2. saved[c] = None /\ pendFile[c] = key[p] /\ \A q \in Procs : Inside(q, c) => p = q
    BY <1>2, <2>1 DEF Meeting, InsideInv
  <2>3. pc'[p] = "save" => [key |-> key[p], age |-> 0] \in zone'[c]
    BY <1>1, <1>2, <1>5 DEF Announce, NextCert, Goto, SetLocal
  <2>4. pc'[p] = "save" => Backed(c, 0)'
    BY <2>2, <2>3, <1>2 DEF Backed
  <2>5. InsideInv(c)'
    BY <1>2, <1>3, <2>2, <2>4 DEF InsideInv, Inside
  <2>6. SavedInv(c)'
    BY <1>2, <2>2 DEF SavedInv
  <2> QED
    BY <1>4, <2>5, <2>6 DEF Meeting
<1>6. CASE cur[p] # c
  <2>1. zone'[c] = zone[c]
    BY <1>1, <1>6 DEF Announce
  <2>2. ~Inside(p, c) /\ ~Inside(p, c)'
    BY <1>2, <1>3, <1>6 DEF Inside
  <2>3. \A q \in Procs : Inside(q, c)' <=> Inside(q, c)
    BY <1>3, <2>2 DEF Inside
  <2>4. InsideInv(c)'
    BY <1>2, <1>3, <2>1, <2>2, <2>3 DEF Meeting, InsideInv, Backed, Aged
  <2>5. SavedInv(c)'
    BY <1>2, <2>1, <2>3 DEF Meeting, SavedInv, Backed
  <2> QED
    BY <1>4, <2>4, <2>5 DEF Meeting
<1> QED
  BY <1>5, <1>6

\* The rotation starts in the process' copy.
LEMMA MeetSavePending ==
    ASSUME BaseInv, NEW p \in Procs, SavePending(p), NEW c \in Certs, Meeting(c)
    PROVE  Meeting(c)'
<1>1. /\ DOMAIN pc = Procs /\ DOMAIN mem = Procs /\ DOMAIN own = Procs /\ \A q \in Procs : DOMAIN mem[q] = Certs
      /\ 0 # None
  BY Bounds DEF BaseInv, TypeOK, State
<1>2. /\ pc[p] = "save" /\ cur[p] \in Certs /\ stateFile' = Torn
      /\ pc' = [pc EXCEPT ![p] = "save_write"] /\ mem' = [mem EXCEPT ![p][cur[p]] = 0]
      /\ own' = [own EXCEPT ![p] = @ \cup {cur[p]}]
      /\ UNCHANGED <<pendFile, certFile, zone, cur, key, saved, stale>>
  BY DEF BaseInv, ProcInv, Working, SavePending, Truncate, At, Goto
<1>3. \A q \in Procs : Inside(q, c)' <=> Inside(q, c)
  BY <1>1, <1>2 DEF Inside
<1>4. CopyInv(c)'
  BY <1>1, <1>2 DEF Meeting, CopyInv
<1>5. CASE cur[p] = c
  <2>1. Inside(p, c)
    BY <1>2, <1>5 DEF Inside
  <2>2. saved[c] = None /\ pendFile[c] = key[p] /\ Backed(c, 0) /\ \A q \in Procs : Inside(q, c) => p = q
    BY <1>2, <2>1 DEF Meeting, InsideInv
  <2>3. mem'[p][c] = 0 /\ pc'[p] = "save_write" /\ Backed(c, 0)'
    BY <1>1, <1>2, <1>5, <2>2 DEF Backed
  <2>4. InsideInv(c)'
    <3>1. SUFFICES ASSUME NEW q \in Procs, Inside(q, c)' PROVE q = p /\ InsideInv(c)'
      BY DEF InsideInv
    <3>2. q = p /\ \A r \in Procs : Inside(r, c)' => p = r
      BY <1>3, <2>2, <3>1
    <3>3. Backed(c, mem[p][c])'
      BY <2>3 DEF Backed
    <3> QED
      BY <1>1, <1>2, <2>2, <2>3, <3>2, <3>3 DEF InsideInv
  <2>5. SavedInv(c)'
    BY <1>2, <2>2 DEF SavedInv
  <2> QED
    BY <1>4, <2>4, <2>5 DEF Meeting
<1>6. CASE cur[p] # c
  <2>1. \A q \in Procs : mem'[q][c] = mem[q][c] /\ (c \in own'[q] <=> c \in own[q])
    BY <1>1, <1>2, <1>6
  <2>2. ~Inside(p, c) /\ \A q \in Procs : q # p => pc'[q] = pc[q]
    BY <1>1, <1>2, <1>6 DEF Inside
  <2>3. InsideInv(c)'
    BY <1>2, <1>3, <2>1, <2>2 DEF Meeting, InsideInv, Backed, Aged
  <2>4. SavedInv(c)'
    BY <1>2, <1>3, <2>1 DEF Meeting, SavedInv, Backed
  <2> QED
    BY <1>4, <2>3, <2>4 DEF Meeting
<1> QED
  BY <1>5, <1>6

\* A save that meets no other one writes what the process changed over what was
\* saved, and tells the running processes.
LEMMA WriteAlone ==
    ASSUME BaseInv, NEW p \in Procs, Write(p), NEW c \in Certs, Meeting(c), c \notin raced', pc[p] # "idle"
    PROVE  /\ c \notin stale[p] /\ stateFile' = mem[p] /\ saved' = mem[p]
           /\ c \notin own[p] => mem[p][c] = saved[c]
           /\ \A q \in Procs : q # p => pc[q] \notin {"save_write", "final_write"}
           /\ \A q \in Procs : q # p /\ pc[q] # "idle" => stale'[q] = stale[q] \cup own[p] \cup stale[p]
           /\ own' = [own EXCEPT ![p] = {}] /\ stale'[p] = {}
           /\ UNCHANGED <<pendFile, certFile, zone>>
<1>1. /\ stateFile = Torn /\ c \notin stale[p]
      /\ \A q \in Procs : q # p => pc[q] \notin {"save_write", "final_write"}
  <2>1. ~Overlaps(p) /\ c \notin stale[p]
    BY DEF Write
  <2> QED
    BY <2>1 DEF Overlaps, Saving
<1>2. mem[p] # Torn
  BY Bounds DEF BaseInv, TypeOK
<1>3. stateFile' = mem[p] /\ saved' = mem[p]
  BY <1>1, <1>2 DEF Write
<1>4. c \notin own[p] => mem[p][c] = saved[c]
  BY <1>1 DEF Meeting, CopyInv
<1>5. /\ \A q \in Procs : q # p /\ pc[q] # "idle" => stale'[q] = stale[q] \cup own[p] \cup stale[p]
      /\ own' = [own EXCEPT ![p] = {}] /\ stale'[p] = {}
      /\ UNCHANGED <<pendFile, certFile, zone>>
  BY DEF Write, SetLocal
<1> QED
  BY <1>1, <1>3, <1>4, <1>5

\* After a save.
LEMMA MeetWrite ==
    ASSUME BaseInv, NEW p \in Procs, SavePendingWrite(p) \/ FinalWrite(p),
           NEW c \in Certs, Meeting(c), c \notin raced'
    PROVE  Meeting(c)'
<1>1. Write(p) /\ pc[p] \in {"save_write", "final_write"}
  BY DEF SavePendingWrite, FinalWrite, At
<1>2. /\ c \notin stale[p] /\ stateFile' = mem[p] /\ saved' = mem[p]
      /\ c \notin own[p] => mem[p][c] = saved[c]
      /\ \A q \in Procs : q # p => pc[q] \notin {"save_write", "final_write"}
      /\ \A q \in Procs : q # p /\ pc[q] # "idle" => stale'[q] = stale[q] \cup own[p] \cup stale[p]
      /\ own' = [own EXCEPT ![p] = {}] /\ stale'[p] = {}
      /\ UNCHANGED <<pendFile, certFile, zone>>
  BY <1>1, WriteAlone
<1>3. DOMAIN pc = Procs /\ DOMAIN cur = Procs /\ DOMAIN mem = Procs /\ DOMAIN key = Procs /\ DOMAIN own = Procs
  BY DEF BaseInv, TypeOK
<1>4. /\ \A q \in Procs : q # p =>
           /\ pc'[q] = pc[q] /\ cur'[q] = cur[q] /\ mem'[q] = mem[q]
           /\ key'[q] = key[q] /\ own'[q] = own[q]
      /\ own'[p] = {} /\ pc'[p] \in {"cert", "idle"}
      /\ pc'[p] # "idle" => mem'[p] = mem[p]
  BY <1>2, <1>3 DEF SavePendingWrite, FinalWrite, NextCert, Goto, SetLocal
<1>5. ~Inside(p, c)' /\ \A q \in Procs : q # p => (Inside(q, c)' <=> Inside(q, c))
  BY <1>4 DEF Inside
<1>6. \A q \in Procs : pc[q] = "idle" => own[q] = {}
  BY DEF BaseInv, ProcInv
<1>7. c \in own[p] => mem[p][c] = None \/ (pc[p] = "save_write" /\ Inside(p, c))
  BY DEF Meeting, CopyInv, Inside
<1>8. CopyInv(c)'
  <2>1. \A q \in Procs : q # p /\ pc[q] # "idle" /\ c \notin stale'[q] /\ c \notin own[q]
          => mem[q][c] = mem[p][c]
    BY <1>2 DEF Meeting, CopyInv
  <2>2. \A q \in Procs : q # p /\ c \in own[q] => mem[q][c] = None
    BY <1>2 DEF Meeting, CopyInv
  <2> QED
    BY <1>2, <1>4, <2>1, <2>2 DEF CopyInv
<1>9. InsideInv(c)'
  <2>1. SUFFICES ASSUME NEW q \in Procs, Inside(q, c)'
                 PROVE  /\ \A s \in Procs : Inside(s, c)' => q = s
                        /\ pendFile'[c] = key'[q]
                        /\ pc'[q] \in {"announce", "save", "save_write"} => saved'[c] = None
                        /\ pc'[q] = "save" => Backed(c, 0)'
                        /\ pc'[q] # "save_write"
                        /\ pc'[q] \in {"order", "write_key", "publish"} => Aged(c, key[q])'
                        /\ pc'[q] \in {"write_key", "publish"} => certFile'[c] = key'[q]
    BY DEF InsideInv
  <2>2. q # p /\ Inside(q, c) /\ pc[q] # "save_write" /\ ~Inside(p, c)
    BY <2>1, <1>2, <1>5 DEF Meeting, InsideInv
  <2>3. /\ \A s \in Procs : Inside(s, c) => q = s
        /\ pendFile[c] = key[q]
        /\ pc[q] \in {"announce", "save", "save_write"} => saved[c] = None
        /\ pc[q] = "save" => Backed(c, 0)
        /\ pc[q] \in {"order", "write_key", "publish"} => Aged(c, key[q])
        /\ pc[q] \in {"write_key", "publish"} => certFile[c] = key[q]
    BY <2>2 DEF Meeting, InsideInv
  <2>4. saved'[c] = None \/ saved'[c] = saved[c]
    BY <1>2, <1>7, <2>2
  <2> QED
    BY <1>2, <1>4, <1>5, <2>2, <2>3, <2>4 DEF Backed, Aged
<1>10. SavedInv(c)'
  <2>1. SUFFICES ASSUME mem[p][c] # None PROVE SavedInv(c)'
    BY <1>2 DEF SavedInv
  <2>2. CASE c \in own[p]
    <3>1. Backed(c, mem[p][c])
      BY <1>7, <2>1, <2>2 DEF Meeting, InsideInv
    <3>2. \A q \in Procs : c \notin own'[q] \/ c \in stale'[q]
      BY <1>2, <1>4, <1>6, <2>2
    <3> QED
      BY <1>2, <3>1, <3>2 DEF SavedInv, Backed
  <2>3. CASE c \notin own[p]
    <3>1. saved'[c] = saved[c] /\ saved[c] # None
      BY <1>2, <2>1, <2>3
    <3>2. /\ Backed(c, saved[c])
          /\ \A q \in Procs : c \in own[q] /\ c \notin stale[q] /\ ~Inside(q, c) => certFile[c] = pendFile[c]
      BY <3>1 DEF Meeting, SavedInv
    <3>3. \A q \in Procs : c \in own'[q] /\ c \notin stale'[q] => q # p /\ c \in own[q] /\ c \notin stale[q]
      BY <1>2, <1>4, <1>6
    <3> QED
      BY <1>2, <1>5, <3>1, <3>2, <3>3 DEF SavedInv, Backed
  <2> QED
    BY <2>2, <2>3
<1> QED
  BY <1>8, <1>9, <1>10 DEF Meeting

\* The certificate is that of the pending key from here on.
LEMMA MeetInstall ==
    ASSUME BaseInv, NEW p \in Procs, WriteCert(p) \/ SaveKey(p), NEW c \in Certs, Meeting(c)
    PROVE  Meeting(c)'
<1>1. DOMAIN pc = Procs /\ DOMAIN certFile = Certs
  BY DEF BaseInv, TypeOK
<1>2. /\ pc[p] \in {"order", "write_key"} /\ pc'[p] \in {"write_key", "publish"}
      /\ \A q \in Procs : q # p => pc'[q] = pc[q]
      /\ UNCHANGED <<stateFile, pendFile, zone, cur, mem, key, saved, own, stale>>
  BY <1>1 DEF WriteCert, SaveKey, At, Goto, history
<1>3. \A q \in Procs : Inside(q, c)' <=> Inside(q, c)
  BY <1>2 DEF Inside
<1>4. CopyInv(c)'
  <2>1. \A q \in Procs : pc'[q] # "idle" => pc[q] # "idle"
    BY <1>2
  <2>2. \A q \in Procs : pc[q] = "save_write" => pc'[q] = "save_write"
    BY <1>2
  <2> QED
    BY <1>2, <2>1, <2>2 DEF Meeting, CopyInv
<1>5. CASE cur[p] = c
  <2>1. Inside(p, c)
    BY <1>2, <1>5 DEF Inside
  <2>2. pendFile[c] = key[p] /\ Aged(c, key[p]) /\ \A q \in Procs : Inside(q, c) => p = q
    BY <1>2, <2>1 DEF Meeting, InsideInv
  <2>3. certFile'[c] = key[p]
    BY <1>1, <1>5, <2>1 DEF WriteCert, SaveKey, At, Meeting, InsideInv
  <2>4. InsideInv(c)'
    BY <1>2, <1>3, <2>2, <2>3 DEF InsideInv, Aged
  <2>5. SavedInv(c)'
    BY <1>2, <2>2, <2>3 DEF Meeting, SavedInv, Backed
  <2> QED
    BY <1>4, <2>4, <2>5 DEF Meeting
<1>6. CASE cur[p] # c
  <2>1. certFile'[c] = certFile[c] /\ ~Inside(p, c)
    BY <1>1, <1>6 DEF WriteCert, SaveKey, Inside
  <2>2. InsideInv(c)'
    BY <1>2, <1>3, <2>1 DEF Meeting, InsideInv, Backed, Aged
  <2>3. SavedInv(c)'
    BY <1>2, <1>3, <2>1 DEF Meeting, SavedInv, Backed
  <2> QED
    BY <1>4, <2>2, <2>3 DEF Meeting
<1> QED
  BY <1>5, <1>6

\* Publishing removes no record of the pending key.
LEMMA MeetPublish ==
    ASSUME BaseInv, NEW p \in Procs, Publish(p), NEW c \in Certs, Meeting(c)
    PROVE  Meeting(c)'
<1>1. DOMAIN pc = Procs /\ DOMAIN cur = Procs /\ DOMAIN key = Procs /\ DOMAIN zone = Certs
  BY DEF BaseInv, TypeOK
<1>2. /\ pc[p] = "publish" /\ pc'[p] = "cert"
      /\ \A q \in Procs : q # p => pc'[q] = pc[q] /\ cur'[q] = cur[q] /\ key'[q] = key[q]
      /\ UNCHANGED <<stateFile, pendFile, certFile, mem, saved, own, stale>>
  BY <1>1 DEF Publish, NextCert, At, Goto, SetLocal, history
<1>3. ~Inside(p, c)' /\ \A q \in Procs : q # p => (Inside(q, c)' <=> Inside(q, c))
  BY <1>2 DEF Inside
<1>4. CopyInv(c)'
  <2>1. \A q \in Procs : pc'[q] # "idle" => pc[q] # "idle"
    BY <1>2
  <2>2. \A q \in Procs : pc[q] = "save_write" => pc'[q] = "save_write" /\ cur'[q] = cur[q]
    BY <1>2
  <2> QED
    BY <1>2, <2>1, <2>2 DEF Meeting, CopyInv
<1>5. CASE cur[p] = c
  <2>1. Inside(p, c)
    BY <1>2, <1>5 DEF Inside
  <2>2. /\ pendFile[c] = key[p] /\ Aged(c, key[p]) /\ certFile[c] = key[p]
        /\ \A q \in Procs : Inside(q, c) => p = q
    BY <1>2, <2>1 DEF Meeting, InsideInv
  <2>3. \A r \in zone[c] : r.key = pendFile[c] => r \in zone'[c]
    BY <1>1, <1>5, <2>2 DEF Publish
  <2>4. InsideInv(c)'
    BY <1>3, <2>2 DEF InsideInv
  <2>5. SavedInv(c)'
    BY <1>2, <2>2, <2>3 DEF Meeting, SavedInv, Backed
  <2> QED
    BY <1>4, <2>4, <2>5 DEF Meeting
<1>6. CASE cur[p] # c
  <2>1. zone'[c] = zone[c] /\ ~Inside(p, c)
    BY <1>1, <1>6 DEF Publish, Inside
  <2>2. InsideInv(c)'
    BY <1>2, <1>3, <2>1 DEF Meeting, InsideInv, Backed, Aged
  <2>3. SavedInv(c)'
    BY <1>2, <1>3, <2>1 DEF Meeting, SavedInv, Backed
  <2> QED
    BY <1>4, <2>2, <2>3 DEF Meeting
<1> QED
  BY <1>5, <1>6

\* The end of a run.
LEMMA MeetFinish ==
    ASSUME BaseInv, NEW p \in Procs, Finish(p), NEW c \in Certs, Meeting(c)
    PROVE  Meeting(c)'
<1>1. /\ DOMAIN pc = Procs /\ DOMAIN cur = Procs /\ DOMAIN mem = Procs
      /\ DOMAIN own = Procs /\ DOMAIN stale = Procs
  BY DEF BaseInv, TypeOK
<1>2. /\ pc[p] = "cert" /\ pc'[p] \in {"idle", "final_write"}
      /\ \A q \in Procs : q # p =>
           /\ pc'[q] = pc[q] /\ cur'[q] = cur[q] /\ mem'[q] = mem[q]
           /\ own'[q] = own[q] /\ stale'[q] = stale[q]
      /\ pc'[p] = "idle" => own'[p] = {}
      /\ pc'[p] = "final_write" => mem'[p] = mem[p] /\ own'[p] = own[p] /\ stale'[p] = stale[p]
      /\ stateFile' \in {stateFile, Torn}
      /\ UNCHANGED <<pendFile, certFile, zone, key, saved>>
  BY <1>1 DEF Finish, Exit, Truncate, At, Goto, SetLocal, shared
<1>3. \A q \in Procs : Inside(q, c)' <=> Inside(q, c)
  BY <1>2 DEF Inside
<1>4. CopyInv(c)'
  BY <1>2 DEF Meeting, CopyInv
<1>5. ~Inside(p, c)
  BY <1>2 DEF Inside
<1>6. InsideInv(c)'
  BY <1>2, <1>3, <1>5 DEF Meeting, InsideInv, Backed, Aged
<1>7. SavedInv(c)'
  BY <1>2, <1>3 DEF Meeting, SavedInv, Backed
<1> QED
  BY <1>4, <1>6, <1>7 DEF Meeting

\* The clock.
LEMMA MeetTick ==
    ASSUME BaseInv, Tick, NEW c \in Certs, Meeting(c)
    PROVE  Meeting(c)'
<1>1. UNCHANGED <<pendFile, certFile, keyFile, due, pc, cur, dirty, key, needsSave, own, stale, raced>>
  BY DEF Tick
<1>2. /\ stateFile' = Torn <=> stateFile = Torn
      /\ saved'[c] = Older(saved[c])
      /\ stateFile # Torn => stateFile'[c] = Older(stateFile[c])
      /\ \A p \in Procs : mem'[p][c] = Older(mem[p][c])
      /\ \A r \in zone[c] : \E s \in zone'[c] : s.key = r.key /\ s.age = Older(r.age)
  BY TickFacts
<1>3. /\ saved[c] \in Ages \cup {None} /\ (\A p \in Procs : mem[p][c] \in Ages \cup {None})
      /\ \A r \in zone[c] : r.age \in Ages
  BY DEF BaseInv, TypeOK, State
<1>4. Older(None) = None
  BY DEF Older
<1>5. /\ saved'[c] # None <=> saved[c] # None
      /\ \A p \in Procs : mem'[p][c] # None <=> mem[p][c] # None
  BY <1>2, <1>3, OlderFacts
<1>6. ASSUME NEW v \in Ages, Backed(c, v) PROVE \E s \in zone'[c] : s.key = pendFile'[c] /\ s.age >= Older(v)
  <2>1. PICK r \in zone[c] : r.key = pendFile[c] /\ r.age >= v
    BY <1>6 DEF Backed
  <2>2. PICK s \in zone'[c] : s.key = r.key /\ s.age = Older(r.age)
    BY <1>2
  <2>3. Older(r.age) >= Older(v)
    BY <1>3, <2>1, OlderFacts
  <2> QED
    BY <1>1, <2>1, <2>2, <2>3
<1>7. ASSUME NEW k, Aged(c, k) PROVE \E s \in zone'[c] : s.key = k /\ s.age >= MaxTtl
  <2>1. PICK r \in zone[c] : r.key = k /\ r.age >= MaxTtl
    BY <1>7 DEF Aged
  <2>2. PICK s \in zone'[c] : s.key = r.key /\ s.age = Older(r.age)
    BY <1>2
  <2>3. Older(r.age) = r.age
    BY <1>3, <2>1, Bounds DEF Older, Ages
  <2> QED
    BY <2>1, <2>2, <2>3
<1>8. \A p \in Procs : Inside(p, c)' <=> Inside(p, c)
  BY <1>1 DEF Inside
<1>9. CopyInv(c)'
  BY <1>1, <1>2, <1>4 DEF Meeting, CopyInv
<1>10. InsideInv(c)'
  <2>1. SUFFICES ASSUME NEW p \in Procs, Inside(p, c)
                 PROVE  /\ \A q \in Procs : Inside(q, c)' => p = q
                        /\ pendFile'[c] = key'[p]
                        /\ pc'[p] \in {"announce", "save", "save_write"} => saved'[c] = None
                        /\ pc'[p] = "save" => Backed(c, 0)'
                        /\ pc'[p] = "save_write" => mem'[p][c] # None /\ Backed(c, mem[p][c])'
                        /\ pc'[p] \in {"order", "write_key", "publish"} => Aged(c, key[p])'
                        /\ pc'[p] \in {"write_key", "publish"} => certFile'[c] = key'[p]
    BY <1>8 DEF InsideInv
  <2>2. /\ \A q \in Procs : Inside(q, c)' => p = q
        /\ pendFile'[c] = key'[p]
        /\ pc'[p] \in {"announce", "save", "save_write"} => saved'[c] = None
        /\ pc'[p] \in {"write_key", "publish"} => certFile'[c] = key'[p]
    BY <1>1, <1>5, <1>8, <2>1 DEF Meeting, InsideInv
  <2>3. ASSUME pc'[p] = "save" PROVE Backed(c, 0)'
    <3>1. Backed(c, 0) /\ 0 \in Ages /\ 0 \in Nat
      BY <1>1, <2>1, <2>3, Bounds DEF Meeting, InsideInv
    <3>2. PICK s \in zone'[c] : s.key = pendFile'[c] /\ s.age >= Older(0)
      BY <3>1, <1>6
    <3>3. s.age >= 0
      <4>1. s.age \in Ages
        BY TickFacts
      <4> QED
        BY <4>1, Bounds DEF Ages
    <3> QED
      BY <3>2, <3>3 DEF Backed
  <2>4. ASSUME pc'[p] = "save_write" PROVE mem'[p][c] # None /\ Backed(c, mem[p][c])'
    <3>1. mem[p][c] # None /\ Backed(c, mem[p][c])
      BY <1>1, <2>1, <2>4 DEF Meeting, InsideInv
    <3>2. mem[p][c] \in Ages
      BY <1>3, <3>1
    <3>3. \E s \in zone'[c] : s.key = pendFile'[c] /\ s.age >= mem'[p][c]
      BY <1>2, <1>6, <3>1, <3>2
    <3> QED
      BY <1>5, <3>1, <3>3 DEF Backed
  <2>5. ASSUME pc'[p] \in {"order", "write_key", "publish"} PROVE Aged(c, key[p])'
    <3>1. Aged(c, key[p])
      BY <1>1, <2>1, <2>5 DEF Meeting, InsideInv
    <3> QED
      BY <1>1, <1>7, <3>1 DEF Aged
  <2> QED
    BY <2>2, <2>3, <2>4, <2>5
<1>11. SavedInv(c)'
  <2>1. SUFFICES ASSUME saved[c] # None PROVE SavedInv(c)'
    BY <1>5 DEF SavedInv
  <2>2. saved[c] \in Ages /\ Backed(c, saved[c])
    BY <1>3, <2>1 DEF Meeting, SavedInv
  <2>3. Backed(c, saved[c])'
    BY <1>2, <1>6, <2>2 DEF Backed
  <2> QED
    BY <1>1, <1>8, <2>1, <2>3 DEF Meeting, SavedInv
<1> QED
  BY <1>9, <1>10, <1>11 DEF Meeting

-----------------------------------------------------------------------------
\* Whatever has not met another process is in order.
MeetInv == \A c \in Rotates \ raced : Meeting(c)

RunsInv == BaseInv /\ MeetInv

\* A meeting is not forgotten.
LEMMA RacedGrows ==
    ASSUME [Next]_vars
    PROVE  raced \subseteq raced'
<1>1. ASSUME NEW p \in Procs, Step(p) PROVE raced \subseteq raced'
  <2>1. Decides(p) \/ Write(p) => raced \subseteq raced'
    BY DEF Decides, Meets, Write
  <2> QED
    BY <1>1, <2>1 DEF Step, Load, Pass, TakePending, PrePublish, LoadOrGenerateKey, Announce, SavePending,
       SavePendingWrite, WriteCert, SaveKey, Publish, Finish, FinalWrite, history
<1> QED
  BY <1>1 DEF Next, Tick, BecomesDue, vars, history

\* The whole invariant holds at the start,
LEMMA RunsInit ==
    Init => RunsInv
<1> SUFFICES ASSUME Init PROVE RunsInv
  OBVIOUS
<1>1. BaseInv
  BY BaseInit
<1>2. ASSUME NEW c \in Certs PROVE Meeting(c)
  <2>1. CopyInv(c) /\ SavedInv(c)
    BY DEF Init, CopyInv, SavedInv, NoPending
  <2>2. InsideInv(c)
    BY DEF Init, InsideInv, Inside
  <2> QED
    BY <2>1, <2>2 DEF Meeting
<1> QED
  BY <1>1, <1>2, Bounds DEF RunsInv, MeetInv

\* is kept by every step,
LEMMA RunsNext ==
    ASSUME RunsInv, [Next]_vars
    PROVE  RunsInv'
<1>1. BaseInv /\ BaseInv'
  BY BaseNext DEF RunsInv
<1>2. SUFFICES ASSUME NEW c \in Rotates, c \notin raced' PROVE Meeting(c)'
  BY <1>1 DEF RunsInv, MeetInv
<1>3. c \in Certs /\ Meeting(c)
  BY <1>2, RacedGrows, Bounds DEF RunsInv, MeetInv
<1>4. ASSUME NEW p \in Procs, Step(p) PROVE Meeting(c)'
  <2>1. CASE Load(p) \/ Pass(p)
    BY <1>1, <1>3, <2>1, MeetLoad, MeetPass
  <2>2. CASE TakePending(p) \/ PrePublish(p) \/ LoadOrGenerateKey(p)
    <3>1. CASE cur[p] # c
      BY <1>1, <1>3, <2>2, <3>1, MeetElsewhere
    <3>2. CASE cur[p] = c
      <4>1. ~LoadOrGenerateKey(p)
        BY <1>2, <3>2 DEF LoadOrGenerateKey
      <4> QED
        BY <1>1, <1>2, <1>3, <2>2, <3>2, <4>1, MeetTakePending, MeetPrePublish
    <3> QED
      BY <3>1, <3>2
  <2>3. CASE Announce(p) \/ SavePending(p)
    BY <1>1, <1>3, <2>3, MeetAnnounce, MeetSavePending
  <2>4. CASE SavePendingWrite(p) \/ FinalWrite(p)
    BY <1>1, <1>2, <1>3, <2>4, MeetWrite
  <2>5. CASE WriteCert(p) \/ SaveKey(p)
    BY <1>1, <1>3, <2>5, MeetInstall
  <2>6. CASE Publish(p) \/ Finish(p)
    BY <1>1, <1>3, <2>6, MeetPublish, MeetFinish
  <2> QED
    BY <1>4, <2>1, <2>2, <2>3, <2>4, <2>5, <2>6 DEF Step
<1>5. CASE Tick
  BY <1>1, <1>3, <1>5, MeetTick
<1>6. CASE (\E d \in Certs : BecomesDue(d)) \/ UNCHANGED vars
  <2>1. UNCHANGED <<stateFile, pendFile, certFile, zone, pc, cur, mem, key, saved, own, stale>>
    BY <1>6 DEF BecomesDue, local, history, vars
  <2>2. CopyInv(c)' /\ SavedInv(c)'
    BY <1>3, <2>1 DEF Meeting, CopyInv, SavedInv, Inside, Backed
  <2>3. InsideInv(c)'
    BY <1>3, <2>1 DEF Meeting, InsideInv, Inside, Backed, Aged
  <2> QED
    BY <2>2, <2>3 DEF Meeting
<1> QED
  BY <1>4, <1>5, <1>6 DEF Next

\* and so holds throughout.
LEMMA RunsAlways ==
    Spec => []RunsInv
  BY RunsInit, RunsNext, PTL DEF Spec

-----------------------------------------------------------------------------
\* Types, for any number of processes.
THEOREM TwoRunsTypeCorrect ==
    Spec => []TypeOK
<1>1. RunsInv => TypeOK
  BY DEF RunsInv, BaseInv
<1> QED
  BY <1>1, RunsAlways, PTL

\* However many processes run without a lock, a rotation in state.json has its key
\* file announced at least as long as it says, unless two of them have met at it or a
\* save has undone what another process had saved of it.
THEOREM BackedWithoutLock ==
    Spec => []PendingBacked
<1>1. RunsInv => PendingBacked
  BY DEF RunsInv, MeetInv, Meeting, CopyInv, SavedInv, Backed, PendingBacked
<1> QED
  BY <1>1, RunsAlways, PTL

\* Under the same conditions no certificate goes live before its key has been
\* announced for the TTL.
THEOREM SafeWithoutLock ==
    Spec => RotationSafe
<1>1. ASSUME RunsInv, [Next]_vars
      PROVE  [\A c \in Rotates : certFile'[c] # certFile[c] /\ c \notin raced => Aged(c, certFile'[c])]_vars
  <2>1. SUFFICES ASSUME NEW c \in Rotates, certFile'[c] # certFile[c], c \notin raced
                 PROVE  Aged(c, certFile'[c])
    OBVIOUS
  <2>2. PICK p \in Procs : WriteCert(p)
    <3>1. \A p \in Procs : Write(p) => UNCHANGED certFile
      BY DEF Write
    <3> QED
      BY <1>1, <2>1, <3>1 DEF Next, Step, Load, Pass, TakePending, PrePublish, LoadOrGenerateKey, UseKey, Announce,
         SavePending, SavePendingWrite, SaveKey, Publish, Finish, Truncate, FinalWrite, Tick, BecomesDue, shared, vars
  <2>3. cur[p] = c /\ certFile'[c] = key[p]
    <3>1. DOMAIN certFile = Certs /\ c \in Certs
      BY <1>1, Bounds DEF RunsInv, BaseInv, TypeOK
    <3> QED
      BY <2>1, <2>2, <3>1 DEF WriteCert
  <2>4. Inside(p, c) /\ pc[p] = "order"
    BY <2>2, <2>3 DEF WriteCert, At, Inside
  <2>5. InsideInv(c)
    BY <1>1, <2>1 DEF RunsInv, MeetInv, Meeting
  <2> QED
    BY <2>3, <2>4, <2>5 DEF InsideInv
<1> QED
  BY <1>1, RunsAlways, PTL DEF Spec, RotationSafe

\* However many processes run without a lock, a rotation leaves state.json only when
\* the certificate of its key is installed, where two of them have met at it, or by a
\* save from a copy read before the rotation was saved, or next to another save.
THEOREM KeptWithoutLock ==
    Spec => PendingKept
<1>1. ASSUME RunsInv, [Next]_vars
      PROVE  [\A c \in Rotates :
                saved[c] # None /\ saved'[c] = None
                  => certFile[c] = pendFile[c] \/ c \in raced \/ CarelessSave(c)]_vars
  <2>1. SUFFICES ASSUME NEW c \in Rotates, saved[c] # None, saved'[c] = None, c \notin raced,
                        ~CarelessSave(c)
                 PROVE  certFile[c] = pendFile[c]
    OBVIOUS
  <2>2. BaseInv /\ c \in Certs /\ Meeting(c)
    BY <1>1, <2>1, Bounds DEF RunsInv, MeetInv
  <2>3. ~Tick
    <3>1. saved[c] \in Ages \cup {None}
      BY <2>2 DEF BaseInv, TypeOK, State
    <3> QED
      BY <2>1, <2>2, <3>1, TickFacts, OlderFacts
  <2>4. PICK p \in Procs : SavePendingWrite(p) \/ FinalWrite(p)
    BY <1>1, <2>1, <2>3 DEF Next, Step, Load, Pass, TakePending, PrePublish, LoadOrGenerateKey, UseKey, Announce,
         SavePending, WriteCert, SaveKey, Publish, Finish, BecomesDue, history, vars
  <2>5. Write(p) /\ pc[p] \in {"save_write", "final_write"}
    BY <2>4 DEF SavePendingWrite, FinalWrite, At
  <2>6. c \notin raced'
    <3>1. p \in Saving
      BY <2>5 DEF Saving
    <3>2. pc'[p] # pc[p]
      BY <2>2, <2>4 DEF SavePendingWrite, FinalWrite, NextCert, Goto, At, BaseInv, TypeOK
    <3>3. c \notin stale[p] /\ ~Overlaps(p)
      BY <2>1, <3>1, <3>2 DEF CarelessSave
    <3> QED
      BY <2>1, <2>5, <3>3 DEF Write
  <2>7. c \notin stale[p] /\ saved' = mem[p] /\ (c \notin own[p] => mem[p][c] = saved[c])
    BY <2>1, <2>2, <2>5, <2>6, WriteAlone
  <2>8. c \in own[p]
    BY <2>1, <2>7
  <2>9. ~Inside(p, c)
    BY <2>1, <2>2, <2>5 DEF Meeting, InsideInv, Inside
  <2> QED
    BY <2>1, <2>2, <2>7, <2>8, <2>9 DEF Meeting, SavedInv
<1> QED
  BY <1>1, RunsAlways, PTL DEF Spec, PendingKept

-----------------------------------------------------------------------------
\* Where the certificate keeps its key, a process works on it with that key.
LEMMA SettledKept ==
    ASSUME BaseInv, [Next]_vars, NEW c \in Certs, c \notin Rotates, Settled(c)
    PROVE  Settled(c)'
<1>1. /\ keyFile[c] # None /\ certFile[c] = keyFile[c] /\ (\A r \in zone[c] : r.key = keyFile[c])
      /\ \A p \in Procs : Inside(p, c) => key[p] = keyFile[c]
  BY DEF Settled
<1>2. /\ DOMAIN pc = Procs /\ DOMAIN cur = Procs /\ DOMAIN key = Procs
      /\ DOMAIN zone = Certs /\ DOMAIN keyFile = Certs /\ DOMAIN certFile = Certs
  BY DEF BaseInv, TypeOK
<1>3. ASSUME NEW p \in Procs, Step(p) PROVE Settled(c)'
  <2>1. \A q \in Procs : q # p => key'[q] = key[q] /\ (Inside(q, c)' <=> Inside(q, c))
    BY <1>3, Others DEF BaseInv, Inside
  <2>2. SUFFICES /\ keyFile'[c] = keyFile[c] /\ certFile'[c] = keyFile[c]
                 /\ \A r \in zone'[c] : r.key = keyFile[c]
                 /\ Inside(p, c)' => key'[p] = keyFile[c]
    BY <1>1, <2>1 DEF Settled
  <2>3. CASE Load(p) \/ Pass(p)
    BY <1>1, <1>2, <2>3 DEF Load, Pass, NextCert, Goto, SetLocal, Inside, shared
  <2>4. CASE TakePending(p)
    <3>1. cur[p] # c
      BY <2>4 DEF TakePending, BaseInv, PendInv
    <3> QED
      BY <1>1, <2>4, <3>1 DEF TakePending, UseKey, Inside, shared
  <2>5. CASE PrePublish(p)
    BY <1>1, <2>5 DEF PrePublish, Inside
  <2>6. CASE LoadOrGenerateKey(p)
    <3>1. PICK k, b : UseKey(p, k, b)
      BY <2>6 DEF LoadOrGenerateKey
    <3>2. cur[p] = c => key'[p] = keyFile[c]
      BY <1>1, <1>2, <2>6 DEF LoadOrGenerateKey, UseKey, SetLocal
    <3> QED
      BY <1>1, <3>1, <3>2 DEF UseKey, Inside, shared
  <2>7. CASE Announce(p) \/ SavePending(p)
    <3>1. cur[p] # c
      BY <2>7 DEF Announce, SavePending, At, BaseInv, ProcInv
    <3> QED
      BY <1>1, <1>2, <2>7, <3>1 DEF Announce, SavePending, Truncate, NextCert, Goto, SetLocal, Inside
  <2>8. CASE SavePendingWrite(p) \/ FinalWrite(p)
    <3>1. UNCHANGED <<certFile, keyFile, zone>>
      BY <2>8 DEF SavePendingWrite, FinalWrite, Write
    <3> QED
      BY <1>1, <1>2, <2>8, <3>1 DEF SavePendingWrite, FinalWrite, NextCert, Goto, Inside
  <2>9. CASE WriteCert(p) \/ SaveKey(p)
    <3>1. Inside(p, c)' <=> Inside(p, c)
      BY <1>2, <2>9 DEF WriteCert, SaveKey, At, Goto, Inside
    <3>2. cur[p] = c => key[p] = keyFile[c]
      BY <1>1, <2>9 DEF WriteCert, SaveKey, At, Inside
    <3> QED
      BY <1>1, <1>2, <2>9, <3>1, <3>2 DEF WriteCert, SaveKey
  <2>10. CASE Publish(p)
    <3>1. cur[p] = c => key[p] = keyFile[c]
      BY <1>1, <2>10 DEF Publish, At, Inside
    <3>2. \A r \in zone'[c] : r.key = keyFile[c]
      BY <1>1, <1>2, <2>10, <3>1 DEF Publish
    <3>3. ~Inside(p, c)'
      BY <1>2, <2>10 DEF Publish, NextCert, Goto, Inside
    <3> QED
      BY <1>1, <2>10, <3>2, <3>3 DEF Publish
  <2>11. CASE Finish(p)
    BY <1>1, <1>2, <2>11 DEF Finish, Exit, Truncate, Goto, Inside, shared
  <2> QED
    BY <1>3, <2>3, <2>4, <2>5, <2>6, <2>7, <2>8, <2>9, <2>10, <2>11 DEF Step
<1>4. CASE Tick
  <2>1. ASSUME NEW s \in zone'[c] PROVE s.key = keyFile[c]
    <3>1. PICK r \in zone[c] : s = [r EXCEPT !.age = Older(@)]
      BY <1>4 DEF Tick
    <3>2. r \in [key: Keys, age: Ages]
      BY DEF BaseInv, TypeOK
    <3> QED
      BY <1>1, <3>1, <3>2
  <2> QED
    BY <1>1, <1>4, <2>1 DEF Tick, Settled, Inside
<1>5. CASE (\E d \in Certs : BecomesDue(d)) \/ UNCHANGED vars
  BY <1>1, <1>5 DEF BecomesDue, Settled, Inside, local, vars
<1> QED
  BY <1>3, <1>4, <1>5 DEF Next

\* A certificate that is installed with its key and its TLSA record, while no process
\* has another key for it in hand, may be renewed by any number of processes at once:
\* certificate, key file and TLSA name go on matching.  The first issue by two
\* processes at once is not such a state.
THEOREM KeptKeyIsSafe ==
    Spec => KeptKeySafe
<1>1. ASSUME RunsInv, [Next]_vars
      PROVE  [\A c \in Certs \ Rotates : Settled(c) => Settled(c)']_vars
  BY <1>1, SettledKept DEF RunsInv
<1> QED
  BY <1>1, RunsAlways, PTL DEF Spec, KeptKeySafe
=============================================================================
