------------------------------ MODULE TwoRuns ------------------------------
(***************************************************************************)
(* Several certforge processes at once: the timer's run and the ones an    *)
(* operator starts (renew.rs, state.rs).  There is no lock.  Each process  *)
(* reads state.json when it starts, works through its certificates with    *)
(* its own copy, and writes the whole copy back: in determine_key after a  *)
(* pre-publication, and at its end if it has renewed anything.  The        *)
(* pending keys, certificates, keys and TLSA records are shared as well.   *)
(*                                                                         *)
(* Module Renew has the failures, the dane blocks and the hooks of a       *)
(* single process; here every certificate has one TLSA name with an spki   *)
(* record, a certificate stands for its key, and orders succeed.           *)
(***************************************************************************)
EXTENDS Naturals, FiniteSets

CONSTANTS
    Procs,     \* processes
    NCerts,    \* number of certificates
    Rotates,   \* those with rotate_key and pre-publication; the others keep their key
    Selected,  \* the certificates each process' --name filter lets through
    Forced,    \* whether each process is an issue or a renew --force
    MaxTtl,    \* bound and TTL of the records, in clock ticks
    Keys,
    None,      \* absent
    Torn       \* a state.json that does not parse

Certs == 1..NCerts
Ages == 0..MaxTtl
State == [Certs -> Ages \cup {None}]
NoPending == [c \in Certs |-> None]

ASSUME RunsAssumption ==
    /\ NCerts \in Nat /\ MaxTtl \in Nat
    /\ Rotates \subseteq Certs
    /\ Selected \in [Procs -> SUBSET Certs]
    /\ Forced \in [Procs -> BOOLEAN]
    /\ None \notin Keys /\ None \notin Ages
    /\ Torn \notin State

VARIABLES
    \* shared by the processes
    stateFile,  \* state.json: the time since published_at of each pending rotation
    pendFile,   \* pending/<name>.key
    certFile,   \* the key of the certificate at cert_path
    keyFile,    \* key_path
    zone,       \* the keys at the TLSA name of each certificate, with their ages
    due,        \* inside the renewal window
    \* of each process
    pc, cur, mem, dirty, key, needsSave,
    \* history
    saved,      \* the last state written to state.json in full
    own,        \* of each process: rotations it has changed in memory only
    stale,      \* of each process: rotations others have changed in state.json only
    raced       \* certificates at which two processes have met, or whose rotation the
                \* save of an older copy, or two saves at once, may have undone

shared == <<stateFile, pendFile, certFile, keyFile, zone, due>>
history == <<saved, own, stale, raced>>
local == <<pc, cur, mem, dirty, key, needsSave>>
vars == <<stateFile, pendFile, certFile, keyFile, zone, due, pc, cur, mem, dirty, key,
          needsSave, saved, own, stale, raced>>

-----------------------------------------------------------------------------
At(p, label) == pc[p] = label
Goto(p, label) == pc' = [pc EXCEPT ![p] = label]
SetLocal(v, p, x) == [v EXCEPT ![p] = x]

\* Between its decision about a certificate and the last effect on it.
Inside(p, c) ==
    cur[p] = c /\ pc[p] \in {"announce", "save", "save_write", "order", "write_key", "publish"}

\* A process decides about a certificate another one is inside of, or whose
\* rotation another one has changed behind its back.
Meets(p) ==
    raced' = raced \cup {c \in {cur[p]} : c \in stale[p] \/ \E q \in Procs \ {p} : Inside(q, c)}

NextCert(p) ==
    /\ Goto(p, "cert")
    /\ cur' = SetLocal(cur, p, cur[p] + 1)
    /\ key' = SetLocal(key, p, None)
    /\ needsSave' = SetLocal(needsSave, p, FALSE)

Exit(p) ==
    /\ Goto(p, "idle")
    /\ cur' = SetLocal(cur, p, 1)
    /\ mem' = SetLocal(mem, p, NoPending)
    /\ dirty' = SetLocal(dirty, p, FALSE)
    /\ own' = SetLocal(own, p, {})
    /\ stale' = SetLocal(stale, p, {})
    /\ UNCHANGED <<key, needsSave>>

-----------------------------------------------------------------------------
\* Mutant: a state.json that does not parse is taken for an empty one.
LoadTornAsEmpty(p) ==
    /\ At(p, "idle")
    /\ mem' = SetLocal(mem, p, IF stateFile = Torn THEN NoPending ELSE stateFile)
    /\ Goto(p, "cert")
    /\ UNCHANGED <<shared, cur, dirty, key, needsSave, history>>

\* A process starts.  State::load fails on a file that is just being written, which
\* ends the process at once.
Load(p) ==
    /\ At(p, "idle")
    /\ stateFile # Torn
    /\ mem' = SetLocal(mem, p, stateFile)
    /\ Goto(p, "cert")
    /\ UNCHANGED <<shared, cur, dirty, key, needsSave, history>>

\* Filtered out, waiting for the TTL, or not due.
Pass(p) ==
    /\ At(p, "cert") /\ cur[p] \in Certs
    /\ LET c == cur[p] IN
         \/ c \notin Selected[p]
         \/ mem[p][c] # None /\ mem[p][c] < MaxTtl
         \/ ~Forced[p] /\ certFile[c] # None /\ ~due[c]
    /\ NextCert(p)
    /\ UNCHANGED <<shared, mem, dirty, history>>

\* Mutant: a renewal that is due does not wait for the TTL.
DecidesEarly(p) ==
    /\ At(p, "cert") /\ cur[p] \in Certs
    /\ cur[p] \in Selected[p]
    /\ Forced[p] \/ certFile[cur[p]] = None \/ due[cur[p]]
    /\ Meets(p)

Decides(p) ==
    /\ At(p, "cert") /\ cur[p] \in Certs
    /\ cur[p] \in Selected[p]
    /\ mem[p][cur[p]] # None => mem[p][cur[p]] >= MaxTtl
    /\ Forced[p] \/ certFile[cur[p]] = None \/ due[cur[p]]
    /\ Meets(p)

\* A generated key is none of those in use for the certificate.
FreshKeys(c) ==
    Keys \ ({pendFile[c], certFile[c], keyFile[c]} \cup {r.key : r \in zone[c]}
             \cup {key[p] : p \in {q \in Procs : cur[q] = c}})

UseKey(p, k, save) ==
    /\ key' = SetLocal(key, p, k)
    /\ needsSave' = SetLocal(needsSave, p, save)
    /\ Goto(p, "order")
    /\ UNCHANGED <<shared, cur, dirty, saved, stale>>

TakePending(p) ==
    /\ Decides(p)
    /\ mem[p][cur[p]] # None
    /\ UseKey(p, pendFile[cur[p]], TRUE)
    /\ mem' = [mem EXCEPT ![p][cur[p]] = None]
    /\ own' = [own EXCEPT ![p] = @ \cup {cur[p]}]

PrePublish(p) ==
    /\ Decides(p)
    /\ mem[p][cur[p]] = None /\ cur[p] \in Rotates
    /\ \E k \in FreshKeys(cur[p]) :
         /\ pendFile' = [pendFile EXCEPT ![cur[p]] = k]
         /\ key' = SetLocal(key, p, k)
    /\ Goto(p, "announce")
    /\ UNCHANGED <<stateFile, certFile, keyFile, zone, due, cur, mem, dirty, needsSave, saved, own, stale>>

\* Mutant: the key is generated anew on every renewal.
GenerateKey(p) ==
    /\ Decides(p)
    /\ mem[p][cur[p]] = None /\ cur[p] \notin Rotates
    /\ \E k \in FreshKeys(cur[p]) : UseKey(p, k, TRUE)
    /\ UNCHANGED <<mem, own>>

LoadOrGenerateKey(p) ==
    /\ Decides(p)
    /\ mem[p][cur[p]] = None /\ cur[p] \notin Rotates
    /\ IF keyFile[cur[p]] # None
         THEN UseKey(p, keyFile[cur[p]], FALSE)
         ELSE \E k \in FreshKeys(cur[p]) : UseKey(p, k, TRUE)
    /\ UNCHANGED <<mem, own>>

\* Mutant: the refusal of the DNS server is only logged.
AnnounceAnyway(p) ==
    /\ At(p, "announce")
    /\ zone' = [zone EXCEPT ![cur[p]] = IF @ = {} THEN {[key |-> key[p], age |-> 0]} ELSE @]
    /\ Goto(p, "save")
    /\ UNCHANGED <<stateFile, pendFile, certFile, keyFile, due, cur, key, needsSave, mem, dirty, history>>

\* client.create: the name must have no TLSA record; if it has, the renewal fails.
Announce(p) ==
    /\ At(p, "announce")
    /\ IF zone[cur[p]] = {}
         THEN /\ zone' = [zone EXCEPT ![cur[p]] = {[key |-> key[p], age |-> 0]}]
              /\ Goto(p, "save")
              /\ UNCHANGED <<cur, key, needsSave>>
         ELSE NextCert(p) /\ UNCHANGED zone
    /\ UNCHANGED <<stateFile, pendFile, certFile, keyFile, due, mem, dirty, history>>

-----------------------------------------------------------------------------
(***************************************************************************)
(* State::save: std::fs::write truncates the file, then writes it.  What   *)
(* another process wrote in between is overwritten from the start; if it   *)
(* was longer, its end remains.                                            *)
(***************************************************************************)
Pending(s) == {c \in Certs : s[c] # None}
Shorter(s, t) == Cardinality(Pending(s)) < Cardinality(Pending(t))

Truncate(p) ==
    /\ stateFile' = Torn
    /\ UNCHANGED <<pendFile, certFile, keyFile, zone, due>>

Saving == {p \in Procs : pc[p] \in {"save_write", "final_write"}}

\* Another save is going on, or has come to its end since the file was truncated.
Overlaps(p) == stateFile # Torn \/ Saving # {p}

\* Two saves at once are a race for every certificate; a save from a stale copy is
\* one for the certificates it undoes.
Write(p) ==
    /\ stateFile' \in {mem[p]}
         \cup (IF stateFile # Torn /\ ~Shorter(stateFile, mem[p]) /\ stateFile # mem[p]
                 THEN {Torn} ELSE {})
    /\ raced' = raced \cup (IF Overlaps(p) THEN Certs ELSE stale[p])
    /\ saved' = IF stateFile' = Torn THEN saved ELSE stateFile'
    /\ own' = SetLocal(own, p, {})
    /\ stale' = [q \in Procs |-> IF q = p \/ pc[q] = "idle" THEN {}
                                ELSE stale[q] \cup own[p] \cup stale[p]]
    /\ UNCHANGED <<pendFile, certFile, keyFile, zone, due>>

SavePending(p) ==
    /\ At(p, "save")
    /\ mem' = [mem EXCEPT ![p][cur[p]] = 0]
    /\ Truncate(p)
    /\ Goto(p, "save_write")
    /\ own' = [own EXCEPT ![p] = @ \cup {cur[p]}]
    /\ UNCHANGED <<cur, dirty, key, needsSave, saved, stale, raced>>

SavePendingWrite(p) ==
    /\ At(p, "save_write")
    /\ Write(p)
    /\ NextCert(p)
    /\ UNCHANGED <<mem, dirty>>

-----------------------------------------------------------------------------
\* The order succeeds and the certificate is written.
WriteCert(p) ==
    /\ At(p, "order")
    /\ certFile' = [certFile EXCEPT ![cur[p]] = key[p]]
    /\ due' = [due EXCEPT ![cur[p]] = FALSE]
    /\ Goto(p, IF needsSave[p] THEN "write_key" ELSE "publish")
    /\ UNCHANGED <<stateFile, pendFile, keyFile, zone, cur, mem, dirty, key, needsSave, history>>

SaveKey(p) ==
    /\ At(p, "write_key")
    /\ keyFile' = [keyFile EXCEPT ![cur[p]] = key[p]]
    /\ Goto(p, "publish")
    /\ UNCHANGED <<stateFile, pendFile, certFile, zone, due, cur, mem, dirty, key, needsSave, history>>

\* Replaces the records by that of the certificate just issued; Ok(true).
Publish(p) ==
    /\ At(p, "publish")
    /\ zone' = [zone EXCEPT ![cur[p]] =
         IF \E r \in @ : r.key = key[p] THEN {r \in @ : r.key = key[p]}
                                        ELSE {[key |-> key[p], age |-> 0]}]
    /\ NextCert(p)
    /\ dirty' = SetLocal(dirty, p, TRUE)
    /\ UNCHANGED <<stateFile, pendFile, certFile, keyFile, due, mem, history>>

\* The end of run(); the hooks come before it.
Finish(p) ==
    /\ At(p, "cert") /\ cur[p] \notin Certs
    /\ IF dirty[p]
         THEN Truncate(p) /\ Goto(p, "final_write") /\ UNCHANGED <<cur, mem, dirty, key, needsSave, own, stale>>
         ELSE Exit(p) /\ UNCHANGED shared
    /\ UNCHANGED <<saved, raced>>

FinalWrite(p) ==
    /\ At(p, "final_write")
    /\ Write(p)
    /\ Goto(p, "idle")
    /\ cur' = SetLocal(cur, p, 1)
    /\ mem' = SetLocal(mem, p, NoPending)
    /\ dirty' = SetLocal(dirty, p, FALSE)
    /\ UNCHANGED <<key, needsSave>>

-----------------------------------------------------------------------------
Older(a) == IF a # None /\ a < MaxTtl THEN a + 1 ELSE a
OlderState(s) == [c \in Certs |-> Older(s[c])]

Tick ==
    /\ stateFile' = IF stateFile = Torn THEN Torn ELSE OlderState(stateFile)
    /\ mem' = [p \in Procs |-> OlderState(mem[p])]
    /\ saved' = OlderState(saved)
    /\ zone' = [c \in Certs |-> {[r EXCEPT !.age = Older(@)] : r \in zone[c]}]
    /\ UNCHANGED <<pendFile, certFile, keyFile, due, pc, cur, dirty, key, needsSave, own, stale, raced>>

BecomesDue(c) ==
    /\ certFile[c] # None /\ ~due[c]
    /\ due' = [due EXCEPT ![c] = TRUE]
    /\ UNCHANGED <<stateFile, pendFile, certFile, keyFile, zone, local, history>>

\* Nothing is installed, or a certificate with its key and without records.
Init ==
    /\ stateFile = NoPending
    /\ pendFile = [c \in Certs |-> None]
    /\ keyFile \in [Certs -> Keys \cup {None}]
    /\ certFile = keyFile
    /\ zone = [c \in Certs |-> {}]
    /\ due = [c \in Certs |-> FALSE]
    /\ pc = [p \in Procs |-> "idle"]
    /\ cur = [p \in Procs |-> 1]
    /\ mem = [p \in Procs |-> NoPending]
    /\ dirty = [p \in Procs |-> FALSE]
    /\ key = [p \in Procs |-> None]
    /\ needsSave = [p \in Procs |-> FALSE]
    /\ saved = NoPending
    /\ own = [p \in Procs |-> {}]
    /\ stale = [p \in Procs |-> {}]
    /\ raced = {}

Step(p) ==
    \/ Load(p) \/ Pass(p) \/ TakePending(p) \/ PrePublish(p) \/ LoadOrGenerateKey(p)
    \/ Announce(p) \/ SavePending(p) \/ SavePendingWrite(p)
    \/ WriteCert(p) \/ SaveKey(p) \/ Publish(p)
    \/ Finish(p) \/ FinalWrite(p)

Next ==
    \/ \E p \in Procs : Step(p)
    \/ Tick
    \/ \E c \in Certs : BecomesDue(c)

Spec == Init /\ [][Next]_vars

-----------------------------------------------------------------------------
\* Types; a process that has a key in hand is at a certificate.
TypeOK ==
    /\ stateFile \in State \cup {Torn}
    /\ pendFile \in [Certs -> Keys \cup {None}]
    /\ certFile \in [Certs -> Keys \cup {None}]
    /\ keyFile \in [Certs -> Keys \cup {None}]
    /\ zone \in [Certs -> SUBSET [key: Keys, age: Ages]]
    /\ due \in [Certs -> BOOLEAN]
    /\ pc \in [Procs -> {"idle", "cert", "announce", "save", "save_write", "order",
                         "write_key", "publish", "final_write"}]
    /\ cur \in [Procs -> 1..(NCerts + 1)]
    /\ mem \in [Procs -> State]
    /\ dirty \in [Procs -> BOOLEAN]
    /\ key \in [Procs -> Keys \cup {None}]
    /\ needsSave \in [Procs -> BOOLEAN]
    /\ saved \in State
    /\ own \in [Procs -> SUBSET Certs]
    /\ stale \in [Procs -> SUBSET Certs]
    /\ raced \subseteq Certs
    /\ \A p \in Procs : key[p] # None => cur[p] \in Certs

Aged(c, k) == \E r \in zone[c] : r.key = k /\ r.age >= MaxTtl

\* There is no lock, so two processes can disturb a rotation: by meeting at its
\* certificate (one decides about it while another is inside it, or has changed it
\* since state.json was read), or at any certificate by a save: every save writes
\* back the rotations of all certificates, as they were when the process read them,
\* and two saves may overlap.  A certificate that none of this has happened to is
\* replaced only by one whose key has been announced for the TTL.
RotationSafe ==
    [][\A c \in Rotates :
         certFile'[c] # certFile[c] /\ c \notin raced => Aged(c, certFile'[c])]_vars

\* Under the same condition the pending rotation is backed: the key file is the
\* announced key.  (A crossed-out rotation may be in the copy of a process that
\* will not look at it again.)
PendingBacked ==
    stateFile # Torn =>
      \A c \in Rotates \ raced : stateFile[c] # None =>
        \E r \in zone[c] : r.key = pendFile[c] /\ r.age >= stateFile[c]

\* A save from a copy that the saves of others have outdated at c, or that overlaps
\* with another save: by any process, also one filtered to another certificate.
CarelessSave(c) ==
    \E p \in Saving : pc'[p] # pc[p] /\ (c \in stale[p] \/ Overlaps(p))

\* A pending rotation leaves state.json only when its certificate is installed, where
\* two processes have met at the certificate, or by the save of a process that read
\* state.json before the rotation was there (or saves while another does): no other
\* sequence of saves loses it.
PendingKept ==
    [][\A c \in Rotates :
         saved[c] # None /\ saved'[c] = None
           => certFile[c] = pendFile[c] \/ c \in raced \/ CarelessSave(c)]_vars

Settled(c) ==
    /\ keyFile[c] # None /\ certFile[c] = keyFile[c]
    /\ \A r \in zone[c] : r.key = keyFile[c]
    /\ \A p \in Procs : Inside(p, c) => key[p] = keyFile[c]

\* Once a certificate that keeps its key is installed, with key and TLSA name, and no
\* process is about to install another key, any number of processes may renew it at
\* once and the three go on matching.  (Before that they need not: two processes that
\* issue it for the first time generate a key each, and the second key is written over
\* that of a certificate already installed.)
KeptKeySafe == [][\A c \in Certs \ Rotates : Settled(c) => Settled(c)']_vars
=============================================================================
