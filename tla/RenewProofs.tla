---------------------------- MODULE RenewProofs ----------------------------
(***************************************************************************)
(* Proofs about the renewal engine, for every configuration, set of keys,  *)
(* set of command lines and set of faults that satisfies the assumptions   *)
(* of module Renew.                                                        *)
(***************************************************************************)
EXTENDS Renew, TLAPS

-----------------------------------------------------------------------------
(***************************************************************************)
(* Facts about the configuration.                                          *)
(***************************************************************************)
\* The blocks of a certificate are DaneConfig values, each with at least one
\* name (Config::validate), and every name is one of Names.
LEMMA ConfigFacts ==
    \A c \in Certs :
      /\ RotateKey[c] \in BOOLEAN
      /\ NamedHooks[c] \in SUBSET (1..NHooks)
      /\ Len(Dane[c]) \in Nat
      /\ \A b \in Blocks(c) :
           /\ Block(c, b).ttl \in Ages
           /\ Block(c, b).selector \in {"full", "spki"}
           /\ Len(Block(c, b).names) \in Nat \ {0}
           /\ \A i \in NamesOf(c, b) : Block(c, b).names[i] \in Names
<1> SUFFICES ASSUME NEW c \in Certs
             PROVE  /\ RotateKey[c] \in BOOLEAN
                    /\ NamedHooks[c] \in SUBSET (1..NHooks)
                    /\ Len(Dane[c]) \in Nat
                    /\ \A b \in Blocks(c) :
                         /\ Block(c, b).ttl \in Ages
                         /\ Block(c, b).selector \in {"full", "spki"}
                         /\ Len(Block(c, b).names) \in Nat \ {0}
                         /\ \A i \in NamesOf(c, b) : Block(c, b).names[i] \in Names
  OBVIOUS
<1>1. /\ RotateKey[c] \in BOOLEAN
      /\ NamedHooks[c] \in SUBSET (1..NHooks)
      /\ Dane[c] \in Seq(DaneBlock)
  BY ConfigAssumption
<1>2. ASSUME NEW b \in Blocks(c)
      PROVE  /\ Block(c, b).ttl \in Ages
             /\ Block(c, b).selector \in {"full", "spki"}
             /\ Len(Block(c, b).names) \in Nat \ {0}
             /\ \A i \in NamesOf(c, b) : Block(c, b).names[i] \in Names
  <2>1. Block(c, b) \in DaneBlock
    BY <1>1 DEF Blocks, Block
  <2>2. Block(c, b).names \in Seq(Names)
    BY <2>1 DEF DaneBlock
  <2>3. Len(Block(c, b).names) > 0
    BY NamesNotEmpty DEF Blocks, Block
  <2> QED
    BY <2>1, <2>2, <2>3 DEF DaneBlock, NamesOf, Block
<1> QED
  BY <1>1, <1>2

-----------------------------------------------------------------------------
(***************************************************************************)
(* Type correctness.  Leaving a certificate and ending the process are the *)
(* two ways most actions finish.                                           *)
(***************************************************************************)
\* Returning from renew_certificate leaves the process at the head of the loop.
LEMMA LeaveCertType ==
    ASSUME ProcessOK, PositionOK, pc # "idle", cur \in Certs, LeaveCert,
           mem' \in State, dirty' \in BOOLEAN, hooksDue' \in SUBSET (1..NHooks)
    PROVE  ProcessOK' /\ PositionOK'
<1>1. pc' \in Labels /\ cmd' \in Command \cup {None} /\ key' \in Keys \cup {None}
  BY DEF ProcessOK, LeaveCert, Labels
<1>2. cur' \in 1..(NCerts + 1)
  BY CountsAssumption DEF LeaveCert, Certs
<1>3. hk' \in 1..(NHooks + 1)
  BY DEF ProcessOK, LeaveCert
<1>4. needsSave' \in BOOLEAN
  BY DEF LeaveCert
<1>5. bi' \in Nat \ {0} /\ ni' \in Nat \ {0} /\ maxTtl' \in Ages
  BY CountsAssumption DEF LeaveCert, Ages
<1>6. PositionOK'
  BY DEF PositionOK, LeaveCert
<1> QED
  BY <1>1, <1>2, <1>3, <1>4, <1>5, <1>6 DEF ProcessOK

\* A process that has ended has the state it will have when it starts again.
LEMMA ExitType ==
    ASSUME Exit
    PROVE  ProcessOK' /\ PositionOK'
<1>1. mem' \in State
  BY DEF Exit, NoPending, State
<1>2. pc' \in Labels /\ cmd' \in Command \cup {None} /\ key' \in Keys \cup {None}
  BY DEF Exit, Labels
<1>3. cur' \in 1..(NCerts + 1) /\ hk' \in 1..(NHooks + 1)
  BY CountsAssumption DEF Exit
<1>4. dirty' \in BOOLEAN /\ needsSave' \in BOOLEAN /\ hooksDue' \in SUBSET (1..NHooks)
  BY DEF Exit
<1>5. bi' \in Nat \ {0} /\ ni' \in Nat \ {0} /\ maxTtl' \in Ages
  BY CountsAssumption DEF Exit, Ages
<1>6. PositionOK'
  BY DEF PositionOK, Exit
<1> QED
  BY <1>1, <1>2, <1>3, <1>4, <1>5, <1>6 DEF ProcessOK

\* NotRenewed leaves dirty and pending_hooks alone.
LEMMA NotRenewedType ==
    ASSUME ProcessOK, PositionOK, pc # "idle", cur \in Certs, NotRenewed, mem' \in State
    PROVE  ProcessOK' /\ PositionOK'
  BY LeaveCertType DEF NotRenewed, ProcessOK

\* Renewed adds the certificate's named hooks to pending_hooks.
LEMMA RenewedType ==
    ASSUME ProcessOK, PositionOK, pc # "idle", cur \in Certs, Renewed, mem' \in State
    PROVE  ProcessOK' /\ PositionOK'
  BY LeaveCertType, ConfigFacts DEF Renewed, ProcessOK

\* Removing or inserting the pending rotation of the certificate.
LEMMA UpdateType ==
    ASSUME mem \in State, cur \in Certs, NEW p \in PendingRotation \cup {None}
    PROVE  [mem EXCEPT ![cur] = p] \in State
  BY DEF State

\* Init
LEMMA InitType == Init => TypeOK
<1> SUFFICES ASSUME Init PROVE TypeOK
  OBVIOUS
<1>1. NoPending \in State
  BY DEF NoPending, State
<1>2. InstalledTlsa \subseteq Tlsa
  BY DEF InstalledTlsa
<1>3. dns \in [Names -> SUBSET Tlsa]
  BY <1>2 DEF Init
<1>4. keyFile \in [Certs -> Keys \cup {None}]
  BY DEF Init, Cert
<1>5. DiskOK
  BY <1>1, <1>3, <1>4, CountsAssumption DEF Init, DiskOK
<1>6. /\ pc \in Labels /\ cmd \in Command \cup {None} /\ key \in Keys \cup {None}
      /\ dirty \in BOOLEAN /\ needsSave \in BOOLEAN /\ hooksDue \in SUBSET (1..NHooks)
  BY DEF Init, Labels
<1>7. /\ cur \in 1..(NCerts + 1) /\ hk \in 1..(NHooks + 1)
      /\ bi \in Nat \ {0} /\ ni \in Nat \ {0} /\ maxTtl \in Ages
  BY CountsAssumption DEF Init, Ages
<1>8. mem \in State
  BY <1>1 DEF Init
<1>9. PositionOK
  BY DEF Init, PositionOK
<1> QED
  BY <1>5, <1>6, <1>7, <1>8, <1>9 DEF TypeOK, ProcessOK

\* A jump inside the certificate loop keeps the run's own variables.
LEMMA GotoType ==
    ASSUME ProcessOK, NEW l \in Labels, Goto(l), mem' \in State,
           key' \in Keys \cup {None}, needsSave' \in BOOLEAN,
           bi' \in Nat \ {0}, ni' \in Nat \ {0}, maxTtl' \in Ages
    PROVE  ProcessOK'
  BY DEF ProcessOK, Goto

\* A jump that leaves the local variables of the certificate alone.
LEMMA GotoSameFrameType ==
    ASSUME ProcessOK, NEW l \in Labels, Goto(l), mem' \in State, UNCHANGED frame
    PROVE  ProcessOK'
<1>1. /\ key' \in Keys \cup {None} /\ needsSave' \in BOOLEAN
      /\ bi' \in Nat \ {0} /\ ni' \in Nat \ {0} /\ maxTtl' \in Ages
  BY DEF ProcessOK, frame
<1> QED
  BY <1>1, GotoType

\* A step that leaves the disk alone leaves its type alone.
LEMMA SameDisk ==
    ASSUME DiskOK, UNCHANGED <<disk, world>>
    PROVE  DiskOK'
  BY DEF DiskOK, disk, world

\* The steps of run() outside the certificates.
LEMMA RunStepsType == TypeOK /\ RunSteps => TypeOK'
<1> SUFFICES ASSUME TypeOK, RunSteps PROVE TypeOK'
  OBVIOUS
<1> USE DEF TypeOK
<1>0. mem \in State
  BY DEF ProcessOK
<1>1. CASE LoadState
  <2>1. DiskOK'
    BY <1>1, SameDisk DEF LoadState
  <2>2. CASE stateFile = Corrupt
    BY <1>1, <2>1, <2>2, ExitType DEF LoadState
  <2>3. CASE stateFile # Corrupt
    <3>1. mem' \in State /\ Goto("acme") /\ UNCHANGED frame /\ pc = "load"
      BY <1>1, <2>3 DEF LoadState, DiskOK
    <3>2. ProcessOK'
      BY <3>1, GotoSameFrameType DEF Labels
    <3>3. PositionOK'
      BY <3>1 DEF PositionOK, Goto, frame
    <3> QED
      BY <2>1, <3>2, <3>3
  <2> QED
    BY <2>2, <2>3
<1>2. CASE AcmeNew
  <2>1. DiskOK'
    BY <1>2, SameDisk DEF AcmeNew
  <2>2. ProcessOK'
    BY <1>0, <1>2, GotoSameFrameType DEF AcmeNew, Labels
  <2>3. PositionOK'
    BY <1>2 DEF AcmeNew, PositionOK, Goto, frame
  <2> QED
    BY <2>1, <2>2, <2>3
<1>3. CASE AcmeNewFails
  BY <1>3, SameDisk, ExitType DEF AcmeNewFails
<1>4. CASE SkipCert \/ WaitForTtl \/ NotDue
  BY <1>0, <1>4, SameDisk, NotRenewedType DEF SkipCert, WaitForTtl, NotDue
<1>5. CASE CertsDone
  <2>1. DiskOK'
    BY <1>5, SameDisk DEF CertsDone
  <2>2. ProcessOK'
    BY <1>0, <1>5, GotoSameFrameType DEF CertsDone, Labels
  <2>3. PositionOK'
    BY <1>5 DEF CertsDone, PositionOK, Goto, frame
  <2> QED
    BY <2>1, <2>2, <2>3
<1>6. CASE MustRenew
  <2>1. DiskOK'
    BY <1>6, SameDisk DEF MustRenew
  <2>2. ProcessOK'
    BY <1>0, <1>6, GotoSameFrameType DEF MustRenew, Labels
  <2>3. PositionOK'
    BY <1>6 DEF MustRenew, PositionOK, Goto, frame
  <2> QED
    BY <2>1, <2>2, <2>3
<1>7. CASE SkipHook \/ RunHook \/ HookFails
  <2>1. hk \in 1..NHooks /\ pc = "hooks" /\ NextHook
    BY <1>7 DEF SkipHook, RunHook, HookFails, ProcessOK
  <2>2. owed' \in [Certs -> SUBSET (0..NHooks)]
    BY <1>7 DEF SkipHook, RunHook, HookFails, DiskOK, world
  <2>3. DiskOK'
    BY <1>7, <2>2 DEF SkipHook, RunHook, HookFails, DiskOK, disk, world
  <2>4. hk' \in 1..(NHooks + 1)
    BY <2>1, CountsAssumption DEF NextHook
  <2>5. ProcessOK'
    BY <2>1, <2>4 DEF ProcessOK, NextHook, frame
  <2>6. PositionOK'
    BY <2>1 DEF PositionOK, NextHook, frame
  <2> QED
    BY <2>3, <2>5, <2>6
<1>8. CASE SaveState \/ SaveStateFails
  <2>1. stateFile' \in State \cup {Corrupt}
    BY <1>8 DEF SaveState, SaveStateFails, DiskOK, ProcessOK
  <2>2. DiskOK'
    BY <1>8, <2>1 DEF SaveState, SaveStateFails, DiskOK, world
  <2> QED
    BY <1>8, <2>2, ExitType DEF SaveState, SaveStateFails
<1> QED
  BY <1>1, <1>2, <1>3, <1>4, <1>5, <1>6, <1>7, <1>8 DEF RunSteps

\* A generated key is one of Keys.
LEMMA FreshKeysType == \A c \in Certs : FreshKeys(c) \subseteq Keys
  BY DEF FreshKeys

\* With a key in hand the process goes on to the order, or ends its dry run.
LEMMA UseKeyType ==
    ASSUME ProcessOK, PositionOK, pc = "key", mem' \in State,
           NEW k \in Keys, NEW save \in BOOLEAN, UseKey(k, save)
    PROVE  ProcessOK' /\ PositionOK'
<1>1. cur \in Certs /\ k # None
  BY MarkersAssumption DEF PositionOK
<1>2. CASE cmd.dry
  BY <1>1, <1>2, RenewedType DEF UseKey
<1>3. CASE ~cmd.dry
  <2>1. /\ key' = k /\ needsSave' = save /\ Goto("order")
        /\ bi' = bi /\ ni' = ni /\ maxTtl' = maxTtl
    BY <1>3 DEF UseKey
  <2>2. /\ key' \in Keys \cup {None} /\ needsSave' \in BOOLEAN
        /\ bi' \in Nat \ {0} /\ ni' \in Nat \ {0} /\ maxTtl' \in Ages
    BY <2>1 DEF ProcessOK
  <2>3. ProcessOK'
    BY <2>1, <2>2, GotoType DEF Labels
  <2>4. PositionOK'
    BY <1>1, <2>1 DEF PositionOK, Goto
  <2> QED
    BY <2>3, <2>4
<1> QED
  BY <1>2, <1>3

\* determine_key up to the pre-publication.
LEMMA DetermineKeyType == TypeOK /\ DetermineKey => TypeOK'
<1> SUFFICES ASSUME TypeOK, DetermineKey PROVE TypeOK'
  OBVIOUS
<1> USE DEF TypeOK
<1>0. pc = "key" /\ cur \in Certs /\ mem \in State /\ DiskOK'
  BY SameDisk DEF DetermineKey, TakePending, TakePendingFails, RotateNow, PrePublishDry,
                  PrePublish, LoadKey, GenerateKey, PositionOK, ProcessOK
<1>1. CASE TakePending
  <2>1. pendFile[cur] \in Keys
    BY <1>0, <1>1 DEF TakePending, DiskOK
  <2>2. mem' \in State
    BY <1>0, <1>1, UpdateType DEF TakePending
  <2> QED
    BY <1>0, <1>1, <2>1, <2>2, UseKeyType DEF TakePending
<1>2. CASE TakePendingFails
  <2>1. mem' \in State
    BY <1>0, <1>2, UpdateType DEF TakePendingFails
  <2> QED
    BY <1>0, <1>2, <2>1, NotRenewedType DEF TakePendingFails
<1>3. CASE RotateNow \/ GenerateKey
  <2>1. PICK k \in FreshKeys(cur) : UseKey(k, TRUE) /\ mem' = mem
    BY <1>3 DEF RotateNow, GenerateKey
  <2> QED
    BY <1>0, <2>1, FreshKeysType, UseKeyType
<1>4. CASE PrePublishDry
  BY <1>0, <1>4, NotRenewedType DEF PrePublishDry
<1>5. CASE PrePublish
  <2>1. PICK k \in FreshKeys(cur) : key' = k
    BY <1>5 DEF PrePublish
  <2>2. k \in Keys /\ k # None
    BY <1>0, <2>1, FreshKeysType, MarkersAssumption
  <2>3. Goto("write_pending") /\ UNCHANGED <<mem, needsSave, bi, ni, maxTtl>>
    BY <1>5 DEF PrePublish
  <2>4. ProcessOK'
    BY <2>1, <2>2, <2>3, GotoType DEF ProcessOK, Labels
  <2>5. PositionOK'
    BY <1>0, <2>1, <2>2, <2>3 DEF PositionOK, Goto
  <2> QED
    BY <1>0, <2>4, <2>5
<1>6. CASE LoadKey
  <2>1. keyFile[cur] \in Keys
    BY <1>0, <1>6 DEF LoadKey, DiskOK
  <2> QED
    BY <1>0, <1>6, <2>1, UseKeyType DEF LoadKey
<1> QED
  BY <1>1, <1>2, <1>3, <1>4, <1>5, <1>6 DEF DetermineKey

\* TLSA records made from a key or a certificate are TLSA records.
LEMMA TlsaType ==
    /\ \A k \in Keys : TlsaFromKey(k) \in Tlsa
    /\ \A x \in Cert, sel \in {"full", "spki"} : TlsaFromCert(x, sel) \in Tlsa
  BY CountsAssumption DEF TlsaFromKey, TlsaFromCert, Tlsa, Cert, Ages

\* client.create keeps the zone a function from names to sets of records.
LEMMA CreateType ==
    ASSUME dns \in [Names -> SUBSET Tlsa], NEW n \in Names, NEW r \in Tlsa, Create(n, r)
    PROVE  dns' \in [Names -> SUBSET Tlsa]
  BY DEF Create

\* replace_tlsa_records keeps the zone a function from names to sets of records.
LEMMA ReplaceType ==
    ASSUME dns \in [Names -> SUBSET Tlsa], NEW n \in Names, NEW r \in Tlsa, Replace(n, r)
    PROVE  dns' \in [Names -> SUBSET Tlsa]
  BY DEF Replace

\* The first name of a block exists.
LEMMA FirstName == \A c \in Certs : \A b \in Blocks(c) : 1 \in NamesOf(c, b)
<1> SUFFICES ASSUME NEW c \in Certs, NEW b \in Blocks(c)
             PROVE  1 \in NamesOf(c, b)
  OBVIOUS
<1>1. Len(Block(c, b).names) \in Nat \ {0}
  BY ConfigFacts
<1> QED
  BY <1>1 DEF NamesOf, Block

\* The loops over the blocks and names stay inside them.
LEMMA NextNameType ==
    ASSUME cur \in Certs, bi \in Blocks(cur), ni \in NamesOf(cur, bi),
           NEW l, NextName(l)
    PROVE  /\ \/ /\ ni < Len(Block(cur, bi).names)
                 /\ ni' = ni + 1 /\ bi' = bi /\ Goto(pc)
                 /\ ni' \in NamesOf(cur, bi)
              \/ /\ ni = Len(Block(cur, bi).names)
                 /\ ni' = 1 /\ bi' = bi + 1 /\ Goto(l)
                 /\ bi' \in 1..(Len(Dane[cur]) + 1)
           /\ bi' \in Blocks(cur) => ni' \in NamesOf(cur, bi')
           /\ bi' \in Nat \ {0} /\ ni' \in Nat \ {0}
<1>1. Len(Block(cur, bi).names) \in Nat \ {0} /\ Len(Dane[cur]) \in Nat
  BY ConfigFacts
<1>2. bi \in Nat /\ bi >= 1 /\ ni \in Nat /\ ni >= 1
      /\ bi <= Len(Dane[cur]) /\ ni <= Len(Block(cur, bi).names)
  BY <1>1 DEF Blocks, NamesOf, Block
<1>3. CASE ni < Len(Block(cur, bi).names)
  <2>1. ni' = ni + 1 /\ bi' = bi /\ Goto(pc)
    BY <1>3 DEF NextName
  <2>2. ni' \in NamesOf(cur, bi)
    BY <1>1, <1>2, <1>3, <2>1 DEF NamesOf, Block
  <2> QED
    BY <1>2, <1>3, <2>1, <2>2
<1>4. CASE ~(ni < Len(Block(cur, bi).names))
  <2>1. ni' = 1 /\ bi' = bi + 1 /\ Goto(l)
    BY <1>4 DEF NextName
  <2>2. bi' \in 1..(Len(Dane[cur]) + 1) /\ ni = Len(Block(cur, bi).names)
    BY <1>1, <1>2, <1>4, <2>1
  <2>3. bi' \in Blocks(cur) => ni' \in NamesOf(cur, bi')
    BY <2>1, FirstName
  <2> QED
    BY <1>2, <2>1, <2>2, <2>3
<1> QED
  BY <1>3, <1>4

\* The steps of the pre-publication.
LEMMA PrePublishStepsType == TypeOK /\ PrePublishSteps => TypeOK'
<1> SUFFICES ASSUME TypeOK, PrePublishSteps PROVE TypeOK'
  OBVIOUS
<1> USE DEF TypeOK
<1>0. /\ pc \in {"write_pending", "pre_block", "add_tlsa", "save_pending"}
      /\ cur \in Certs /\ key \in Keys /\ mem \in State
  BY DEF PrePublishSteps, WritePendingKey, WritePendingKeyFails, PreBlock, PreBlockSkip,
         PreBlocksDone, AddTlsa, AddTlsaRefused, AddTlsaUnanswered, SavePending,
         SavePendingFails, PositionOK, ProcessOK
<1>1. CASE WritePendingKey
  <2>1. DiskOK'
    BY <1>0, <1>1 DEF WritePendingKey, DiskOK, world
  <2>2. ProcessOK'
    BY <1>0, <1>1, GotoSameFrameType DEF WritePendingKey, Labels
  <2>3. bi' = 1 /\ Len(Dane[cur]) \in Nat
    BY <1>0, <1>1, ConfigFacts DEF WritePendingKey, PositionOK, frame
  <2>4. PositionOK'
    BY <1>0, <1>1, <2>3 DEF WritePendingKey, PositionOK, Goto, frame
  <2> QED
    BY <2>1, <2>2, <2>4
<1>2. CASE WritePendingKeyFails
  <2>1. pendFile' \in [Certs -> Keys \cup {None}]
    BY <1>0, <1>2 DEF WritePendingKeyFails, DiskOK
  <2>2. DiskOK'
    BY <1>2, <2>1 DEF WritePendingKeyFails, DiskOK, world
  <2> QED
    BY <1>0, <1>2, <2>2, NotRenewedType DEF WritePendingKeyFails
<1>3. CASE PreBlock
  <2>1. bi \in Blocks(cur) /\ 1 \in NamesOf(cur, bi) /\ Block(cur, bi).ttl \in Ages
    BY <1>0, <1>3, FirstName, ConfigFacts DEF PreBlock
  <2>2. maxTtl' \in Ages
    BY <1>3, <2>1, CountsAssumption DEF PreBlock, Larger, Ages, ProcessOK
  <2>3. ProcessOK'
    BY <1>0, <1>3, <2>2, GotoType DEF PreBlock, Labels, ProcessOK
  <2>4. PositionOK'
    BY <1>0, <1>3, <2>1 DEF PreBlock, PositionOK, Goto, PrePublished
  <2> QED
    BY <1>3, <2>3, <2>4, SameDisk DEF PreBlock
<1>4. CASE PreBlockSkip
  <2>1. bi' \in 1..(Len(Dane[cur]) + 1)
    BY <1>0, <1>4, ConfigFacts DEF PreBlockSkip, Blocks
  <2>2. bi' \in Nat \ {0}
    BY <1>4 DEF PreBlockSkip, ProcessOK
  <2>3. ProcessOK'
    BY <1>0, <1>4, <2>2, GotoType DEF PreBlockSkip, Labels, ProcessOK
  <2>4. PositionOK'
    BY <1>0, <1>4, <2>1 DEF PreBlockSkip, PositionOK, Goto
  <2> QED
    BY <1>4, <2>3, <2>4, SameDisk DEF PreBlockSkip
<1>5. CASE PreBlocksDone
  <2>1. ProcessOK'
    BY <1>0, <1>5, GotoSameFrameType DEF PreBlocksDone, Labels
  <2>2. PositionOK'
    BY <1>0, <1>5 DEF PreBlocksDone, PositionOK, Goto, frame
  <2> QED
    BY <1>5, <2>1, <2>2, SameDisk DEF PreBlocksDone
<1>6. CASE AddTlsa \/ AddTlsaRefused \/ AddTlsaUnanswered
  <2>0. /\ pc = "add_tlsa" /\ bi \in Blocks(cur) /\ ni \in NamesOf(cur, bi)
        /\ PrePublished(cur, bi) /\ Block(cur, bi).names[ni] \in Names
    BY <1>0, <1>6, ConfigFacts
       DEF AddTlsa, AddTlsaRefused, AddTlsaUnanswered, PositionOK
  <2>1. dns' \in [Names -> SUBSET Tlsa]
    BY <1>0, <1>6, <2>0, TlsaType, CreateType
       DEF AddTlsa, AddTlsaRefused, AddTlsaUnanswered, DiskOK, world
  <2>2. DiskOK'
    BY <1>6, <2>1 DEF AddTlsa, AddTlsaRefused, AddTlsaUnanswered, DiskOK, disk, world
  <2>3. CASE AddTlsa
    <3>1. NextName("pre_block") /\ UNCHANGED <<mem, key, needsSave, maxTtl, certFile>>
      BY <2>3 DEF AddTlsa, disk
    <3>2. ProcessOK'
      BY <1>0, <2>0, <3>1, NextNameType, GotoType DEF Labels, ProcessOK
    <3>3. PositionOK'
      BY <1>0, <2>0, <3>1, NextNameType DEF Goto, PositionOK, PrePublished
    <3> QED
      BY <2>2, <3>2, <3>3
  <2>4. CASE AddTlsaRefused \/ AddTlsaUnanswered
    BY <1>0, <2>0, <2>2, <2>4, NotRenewedType DEF AddTlsaRefused, AddTlsaUnanswered
  <2> QED
    BY <1>6, <2>3, <2>4
<1>7. CASE SavePending \/ SavePendingFails
  <2>0. [elapsed |-> 0, old_ttl |-> maxTtl] \in PendingRotation
    BY CountsAssumption DEF PendingRotation, ProcessOK, Ages
  <2>1. mem' \in State
    BY <1>0, <1>7, <2>0, UpdateType DEF SavePending, SavePendingFails, InsertPending
  <2>2. stateFile' \in State \cup {Corrupt}
    BY <1>7, <2>1 DEF SavePending, SavePendingFails, DiskOK
  <2>3. DiskOK'
    BY <1>7, <2>2 DEF SavePending, SavePendingFails, DiskOK, world
  <2> QED
    BY <1>0, <1>7, <2>1, <2>3, NotRenewedType DEF SavePending, SavePendingFails
<1> QED
  BY <1>1, <1>2, <1>3, <1>4, <1>5, <1>6, <1>7 DEF PrePublishSteps

\* A new certificate has a serial of Serials.
LEMMA FreshSerialsType == \A c \in Certs : FreshSerials(c) \subseteq Serials
  BY DEF FreshSerials

\* The hooks of a certificate are its named hooks and the inline hook.
LEMMA HooksType == \A c \in Certs : HooksOf(c) \subseteq 0..NHooks
  BY ConfigFacts, CountsAssumption DEF HooksOf, Inline

\* The record of the installed certificate for a block.
LEMMA CurrentTlsaType ==
    ASSUME DiskOK, cur \in Certs, bi \in Blocks(cur), certFile[cur] # None
    PROVE  CurrentTlsa \in Tlsa
<1>1. certFile[cur] \in Cert /\ Block(cur, bi).selector \in {"full", "spki"}
  BY ConfigFacts DEF DiskOK
<1> QED
  BY <1>1, TlsaType DEF CurrentTlsa

\* The steps from the order to the end of renew_certificate.
LEMMA IssueStepsType == TypeOK /\ IssueSteps => TypeOK'
<1> SUFFICES ASSUME TypeOK, IssueSteps PROVE TypeOK'
  OBVIOUS
<1> USE DEF TypeOK
<1>0. pc \notin {"idle", "load", "acme", "cert", "hooks", "dp_cert"}
      /\ cur \in Certs /\ mem \in State
  BY DEF IssueSteps, Order, OrderFails, WriteCert, WriteCertFails, SaveKey, SaveKeyFails,
         Permissions, PermissionsFail, PublishTlsa, PublishTlsaFails, RunInlineHooks,
         InlineHooksFail, PositionOK, ProcessOK
<1>1. CASE Order
  <2>1. ProcessOK'
    BY <1>0, <1>1, GotoSameFrameType DEF Order, Labels
  <2>2. PositionOK'
    BY <1>0, <1>1 DEF Order, PositionOK, Goto, frame
  <2> QED
    BY <1>1, <2>1, <2>2, SameDisk DEF Order
<1>2. CASE OrderFails \/ PermissionsFail
  BY <1>0, <1>2, SameDisk, NotRenewedType DEF OrderFails, PermissionsFail
<1>3. CASE WriteCert
  <2>1. pc = "write_cert" /\ key \in Keys /\ bi = 1 /\ ni = 1
    BY <1>3 DEF WriteCert, PositionOK, ProcessOK
  <2>2. PICK s \in FreshSerials(cur) :
          certFile' = [certFile EXCEPT ![cur] = [key |-> key, serial |-> s]]
    BY <1>3 DEF WriteCert
  <2>3. s \in Serials /\ [key |-> key, serial |-> s] \in Cert
    BY <1>0, <2>1, <2>2, FreshSerialsType DEF Cert
  <2>4. certFile' \in [Certs -> Cert \cup {None}] /\ certFile'[cur] # None
    BY <1>0, <2>2, <2>3, MarkersAssumption DEF DiskOK, Cert
  <2>5. owed' \in [Certs -> SUBSET (0..NHooks)] /\ due' \in [Certs -> BOOLEAN]
    BY <1>0, <1>3, HooksType DEF WriteCert, DiskOK
  <2>6. DiskOK'
    BY <1>3, <2>4, <2>5 DEF WriteCert, DiskOK
  <2>7. ProcessOK'
    BY <1>0, <1>3, GotoSameFrameType DEF WriteCert, Labels
  <2>8. PositionOK'
    BY <1>0, <1>3, <2>1, <2>4 DEF WriteCert, PositionOK, Goto, frame
  <2> QED
    BY <2>6, <2>7, <2>8
<1>4. CASE WriteCertFails
  <2>1. certFile' \in [Certs -> Cert \cup {None}] /\ due' \in [Certs -> BOOLEAN]
    BY <1>0, <1>4 DEF WriteCertFails, DiskOK
  <2>2. DiskOK'
    BY <1>4, <2>1 DEF WriteCertFails, DiskOK
  <2> QED
    BY <1>0, <1>4, <2>2, NotRenewedType DEF WriteCertFails
<1>5. CASE SaveKey
  <2>1. keyFile' \in [Certs -> Keys \cup {None}]
    BY <1>0, <1>5 DEF SaveKey, DiskOK, ProcessOK
  <2>2. DiskOK'
    BY <1>5, <2>1 DEF SaveKey, DiskOK, world
  <2>3. ProcessOK'
    BY <1>0, <1>5, GotoSameFrameType DEF SaveKey, Labels
  <2>4. PositionOK'
    BY <1>0, <1>5 DEF SaveKey, PositionOK, Goto, frame
  <2> QED
    BY <2>2, <2>3, <2>4
<1>6. CASE SaveKeyFails
  <2>1. keyFile' \in [Certs -> Keys \cup {None}]
    BY <1>0, <1>6 DEF SaveKeyFails, DiskOK
  <2>2. DiskOK'
    BY <1>6, <2>1 DEF SaveKeyFails, DiskOK, world
  <2> QED
    BY <1>0, <1>6, <2>2, NotRenewedType DEF SaveKeyFails
<1>7. CASE Permissions
  <2>1. ProcessOK'
    BY <1>0, <1>7, GotoSameFrameType DEF Permissions, Labels
  <2>2. pc = "perms" /\ bi = 1 /\ ni = 1 /\ Len(Dane[cur]) \in Nat /\ certFile[cur] # None
    BY <1>0, <1>7, ConfigFacts DEF Permissions, PositionOK
  <2>3. PositionOK'
    BY <1>0, <1>7, <2>2, FirstName DEF Permissions, PositionOK, Goto, frame, disk
  <2> QED
    BY <1>7, <2>1, <2>3, SameDisk DEF Permissions
<1>8. CASE PublishTlsa \/ PublishTlsaFails
  <2>0. /\ pc = "publish" /\ bi \in Blocks(cur) /\ ni \in NamesOf(cur, bi)
        /\ certFile[cur] # None /\ Block(cur, bi).names[ni] \in Names
    BY <1>0, <1>8, ConfigFacts DEF PublishTlsa, PublishTlsaFails, PositionOK
  <2>1. dns' \in [Names -> SUBSET Tlsa]
    BY <1>0, <1>8, <2>0, CurrentTlsaType, ReplaceType
       DEF PublishTlsa, PublishTlsaFails, DiskOK
  <2>2. DiskOK'
    BY <1>8, <2>1 DEF PublishTlsa, PublishTlsaFails, DiskOK, disk
  <2>3. UNCHANGED <<mem, key, needsSave, maxTtl, certFile>>
    BY <1>8 DEF PublishTlsa, PublishTlsaFails, disk
  <2>4. CASE PublishTlsa
    <3>1. NextName("publish")
      BY <2>4 DEF PublishTlsa
    <3>2. /\ bi' \in Nat \ {0} /\ ni' \in Nat \ {0}
          /\ bi' \in 1..(Len(Dane[cur]) + 1)
          /\ bi' \in Blocks(cur) => ni' \in NamesOf(cur, bi')
          /\ Goto("publish")
      BY <1>0, <2>0, <3>1, NextNameType, ConfigFacts DEF Blocks
    <3>3. ProcessOK'
      BY <1>0, <2>3, <3>2, GotoType DEF Labels, ProcessOK
    <3>4. PositionOK'
      BY <1>0, <2>0, <2>3, <3>2 DEF PositionOK, Goto
    <3> QED
      BY <2>2, <3>3, <3>4
  <2>5. CASE PublishTlsaFails
    <3>1. bi' = bi + 1 /\ ni' = 1 /\ Goto("publish")
      BY <2>5 DEF PublishTlsaFails
    <3>2. /\ bi' \in Nat \ {0} /\ ni' \in Nat \ {0}
          /\ bi' \in 1..(Len(Dane[cur]) + 1)
          /\ bi' \in Blocks(cur) => ni' \in NamesOf(cur, bi')
      BY <1>0, <2>0, <3>1, FirstName, ConfigFacts DEF Blocks
    <3>3. ProcessOK'
      BY <1>0, <2>3, <3>1, <3>2, GotoType DEF Labels, ProcessOK
    <3>4. PositionOK'
      BY <1>0, <2>0, <2>3, <3>1, <3>2 DEF PositionOK, Goto
    <3> QED
      BY <2>2, <3>3, <3>4
  <2> QED
    BY <1>8, <2>4, <2>5
<1>9. CASE RunInlineHooks \/ InlineHooksFail
  <2>1. owed' \in [Certs -> SUBSET (0..NHooks)]
    BY <1>0, <1>9 DEF RunInlineHooks, InlineHooksFail, DiskOK, world
  <2>2. DiskOK'
    BY <1>9, <2>1 DEF RunInlineHooks, InlineHooksFail, DiskOK, disk, world
  <2> QED
    BY <1>0, <1>9, <2>2, RenewedType DEF RunInlineHooks, InlineHooksFail
<1> QED
  BY <1>1, <1>2, <1>3, <1>4, <1>5, <1>6, <1>7, <1>8, <1>9 DEF IssueSteps

\* The dane-publish command.
LEMMA DanePublishStepsType == TypeOK /\ DanePublishSteps => TypeOK'
<1> SUFFICES ASSUME TypeOK, DanePublishSteps PROVE TypeOK'
  OBVIOUS
<1> USE DEF TypeOK
<1>1. CASE DanePublishSkip
  <2>1. cur' \in 1..(NCerts + 1) /\ bi = 1 /\ ni = 1
    BY <1>1, CountsAssumption DEF DanePublishSkip, Certs, PositionOK
  <2>2. ProcessOK'
    BY <1>1, <2>1 DEF DanePublishSkip, ProcessOK, run, frame
  <2>3. PositionOK'
    BY <1>1, <2>1 DEF DanePublishSkip, PositionOK, run, frame
  <2> QED
    BY <1>1, <2>2, <2>3, SameDisk DEF DanePublishSkip
<1>2. CASE DanePublishLoad
  <2>1. CASE certFile[cur] = None
    BY <1>2, <2>1, SameDisk, ExitType DEF DanePublishLoad
  <2>2. CASE certFile[cur] # None
    <3>1. /\ pc = "dp_cert" /\ cur \in Certs /\ bi = 1 /\ ni = 1
          /\ Goto("dp_replace") /\ UNCHANGED <<mem, frame, certFile>>
          /\ Len(Dane[cur]) \in Nat
      BY <1>2, <2>2, ConfigFacts DEF DanePublishLoad, PositionOK, disk
    <3>2. ProcessOK'
      BY <3>1, GotoSameFrameType DEF Labels, ProcessOK
    <3>3. PositionOK'
      BY <2>2, <3>1, FirstName DEF PositionOK, Goto, frame
    <3> QED
      BY <1>2, <3>2, <3>3, SameDisk DEF DanePublishLoad
  <2> QED
    BY <2>1, <2>2
<1>3. CASE DanePublishReplace \/ DanePublishFails
  <2>0. /\ pc = "dp_replace" /\ cur \in Certs /\ bi \in Blocks(cur)
        /\ ni \in NamesOf(cur, bi) /\ certFile[cur] # None
        /\ Block(cur, bi).names[ni] \in Names
    BY <1>3, ConfigFacts DEF DanePublishReplace, DanePublishFails, PositionOK
  <2>1. dns' \in [Names -> SUBSET Tlsa]
    BY <1>3, <2>0, CurrentTlsaType, ReplaceType
       DEF DanePublishReplace, DanePublishFails, DiskOK
  <2>2. DiskOK'
    BY <1>3, <2>1 DEF DanePublishReplace, DanePublishFails, DiskOK, disk
  <2>3. CASE DanePublishReplace
    <3>1. NextName("dp_replace") /\ UNCHANGED <<mem, key, needsSave, maxTtl, certFile>>
      BY <2>3 DEF DanePublishReplace, disk
    <3>2. /\ bi' \in Nat \ {0} /\ ni' \in Nat \ {0}
          /\ bi' \in 1..(Len(Dane[cur]) + 1)
          /\ bi' \in Blocks(cur) => ni' \in NamesOf(cur, bi')
          /\ Goto("dp_replace")
      BY <2>0, <3>1, NextNameType, ConfigFacts DEF Blocks
    <3>3. ProcessOK'
      BY <3>1, <3>2, GotoType DEF Labels, ProcessOK
    <3>4. PositionOK'
      BY <2>0, <3>1, <3>2 DEF PositionOK, Goto
    <3> QED
      BY <2>2, <3>3, <3>4
  <2>4. CASE DanePublishFails
    BY <2>2, <2>4, ExitType DEF DanePublishFails
  <2> QED
    BY <1>3, <2>3, <2>4
<1>4. CASE DanePublishNext
  <2>1. cur' \in 1..(NCerts + 1) /\ bi' \in Nat \ {0} /\ ni' \in Nat \ {0}
    BY <1>4, CountsAssumption DEF DanePublishNext, Certs, PositionOK
  <2>2. ProcessOK'
    BY <1>4, <2>1 DEF DanePublishNext, ProcessOK, run, Labels
  <2>3. PositionOK'
    BY <1>4 DEF DanePublishNext, PositionOK, run
  <2> QED
    BY <1>4, <2>2, <2>3, SameDisk DEF DanePublishNext
<1>5. CASE DanePublishDone
  BY <1>5, SameDisk, ExitType DEF DanePublishDone
<1> QED
  BY <1>1, <1>2, <1>3, <1>4, <1>5 DEF DanePublishSteps

\* Ageing keeps ages within the bound.
LEMMA OlderType ==
    /\ \A a \in Ages : Older(a) \in Ages
    /\ \A s \in State : OlderState(s) \in State
<1>1. \A a \in Ages : Older(a) \in Ages
  BY CountsAssumption DEF Older, Ages
<1>2. ASSUME NEW s \in State PROVE OlderState(s) \in State
  <2>1. ASSUME NEW c \in Certs, s[c] # None
        PROVE  [s[c] EXCEPT !.elapsed = Older(@)] \in PendingRotation
    BY <1>1, <2>1 DEF State, PendingRotation
  <2> QED
    BY <2>1 DEF State, OlderState
<1> QED
  BY <1>1, <1>2

\* The start of a process, crashes and the passing of time.
LEMMA EnvironmentType ==
    ASSUME TypeOK,
           \/ \E cm \in Commands : Start(cm)
           \/ Crash \/ CrashInWrite \/ Tick
           \/ \E c \in Certs : BecomesDue(c)
    PROVE  TypeOK'
<1> USE DEF TypeOK
<1>1. ASSUME NEW cm \in Commands, Start(cm) PROVE TypeOK'
  <2>1. cm \in Command /\ cm # None
    BY ConfigAssumption, MarkersAssumption
  <2>2. pc' \in {"load", "dp_cert"}
    BY <1>1 DEF Start
  <2>3. ProcessOK'
    BY <1>1, <2>1, <2>2 DEF Start, ProcessOK, Labels, frame
  <2>4. PositionOK'
    BY <1>1, <2>1, <2>2 DEF Start, PositionOK, frame
  <2> QED
    BY <1>1, <2>3, <2>4, SameDisk DEF Start
<1>2. CASE Crash
  BY <1>2, SameDisk, ExitType DEF Crash
<1>3. CASE CrashInWrite
  <2>1. stateFile' \in State \cup {Corrupt}
    BY <1>3 DEF CrashInWrite, DiskOK
  <2>2. pendFile' \in [Certs -> Keys \cup {None}]
    BY <1>3 DEF CrashInWrite, DiskOK
  <2>3. certFile' \in [Certs -> Cert \cup {None}]
    BY <1>3 DEF CrashInWrite, DiskOK
  <2>4. keyFile' \in [Certs -> Keys \cup {None}]
    BY <1>3 DEF CrashInWrite, DiskOK
  <2>5. due' \in [Certs -> BOOLEAN]
    BY <1>3 DEF CrashInWrite, DiskOK
  <2>6. DiskOK'
    BY <1>3, <2>1, <2>2, <2>3, <2>4, <2>5 DEF CrashInWrite, DiskOK
  <2> QED
    BY <1>3, <2>6, ExitType DEF CrashInWrite
<1>4. CASE Tick
  <2>1. stateFile' \in State \cup {Corrupt} /\ mem' \in State
    BY <1>4, OlderType DEF Tick, DiskOK, ProcessOK
  <2>2. ASSUME NEW n \in Names, NEW r \in dns[n]
        PROVE  [r EXCEPT !.age = Older(@)] \in Tlsa
    <3>1. r \in Tlsa
      BY <2>2 DEF DiskOK
    <3> QED
      BY <3>1, OlderType DEF Tlsa
  <2>3. dns' \in [Names -> SUBSET Tlsa]
    BY <1>4, <2>2 DEF Tick
  <2>4. DiskOK'
    BY <1>4, <2>1, <2>3 DEF Tick, DiskOK
  <2>5. ProcessOK'
    BY <1>4, <2>1 DEF Tick, ProcessOK, run, frame
  <2>6. PositionOK'
    BY <1>4 DEF Tick, PositionOK, run, frame
  <2> QED
    BY <2>4, <2>5, <2>6
<1>5. ASSUME NEW c \in Certs, BecomesDue(c) PROVE TypeOK'
  <2>1. DiskOK'
    BY <1>5 DEF BecomesDue, DiskOK, disk
  <2>2. ProcessOK'
    BY <1>5 DEF BecomesDue, ProcessOK, run, frame
  <2>3. PositionOK'
    BY <1>5 DEF BecomesDue, PositionOK, run, frame, disk
  <2> QED
    BY <2>1, <2>2, <2>3
<1> QED
  BY <1>1, <1>2, <1>3, <1>4, <1>5

\* Every step, and every stutter, of renew, dane-publish and their environment keeps the types.
LEMMA NextType == TypeOK /\ [Next]_vars => TypeOK'
<1> SUFFICES ASSUME TypeOK, [Next]_vars PROVE TypeOK'
  OBVIOUS
<1>1. CASE Process
  BY <1>1, RunStepsType, DetermineKeyType, PrePublishStepsType, IssueStepsType,
     DanePublishStepsType DEF Process
<1>2. CASE UNCHANGED vars
  BY <1>2 DEF vars, TypeOK, DiskOK, ProcessOK, PositionOK
<1>3. CASE Next /\ ~Process
  BY <1>3, EnvironmentType DEF Next
<1> QED
  BY <1>1, <1>2, <1>3

\* Type correctness: in every configuration and under every combination of
\* faults, no step of the engine uses a key or a certificate that is not there
\* or an index outside the configuration.
THEOREM TypeCorrect == Spec => []TypeOK
  BY InitType, NextType, PTL DEF Spec

-----------------------------------------------------------------------------
(***************************************************************************)
(* What the groups of steps leave alone.                                   *)
(***************************************************************************)
\* After the certificate is written, until its records and hooks are done.
Written == pc \in {"save_key", "perms", "publish"}

\* run() around the certificates touches state.json and the hooks only.
LEMMA RunFacts ==
    ASSUME TypeOK, RunSteps
    PROVE  /\ pc \in {"load", "acme", "cert", "hooks"}
           /\ pc' \in {"idle", "acme", "cert", "key", "hooks"}
           /\ UNCHANGED <<pendFile, certFile, keyFile, dns>>
  BY DEF RunSteps, LoadState, AcmeNew, AcmeNewFails, SkipCert, CertsDone, WaitForTtl, NotDue,
         MustRenew, SkipHook, RunHook, HookFails, SaveState, SaveStateFails, NextHook, Exit, Goto,
         NotRenewed, LeaveCert, disk, world

\* determine_key decides; it writes nothing before the pre-publication.
LEMMA DetermineFacts ==
    ASSUME TypeOK, DetermineKey
    PROVE  /\ pc = "key" /\ pc' \in {"cert", "order", "write_pending"}
           /\ UNCHANGED <<disk, world, cmd>>
           /\ cur \in Certs
           /\ pc' = "cert" \/ (cur' = cur /\ ~cmd.dry)
           /\ pc' = "cert" => LeaveCert /\ (Renewed \/ NotRenewed)
  BY DEF DetermineKey, TakePending, TakePendingFails, RotateNow, PrePublishDry, PrePublish, LoadKey,
         GenerateKey, UseKey, Renewed, NotRenewed, LeaveCert, Goto, TypeOK, PositionOK

\* The pre-publication writes the pending key, records and state.json.
LEMMA PreFacts ==
    ASSUME TypeOK, PrePublishSteps
    PROVE  /\ Preparing /\ cur \in Certs
           /\ UNCHANGED <<certFile, keyFile, due, owed, cmd>>
           /\ \/ NotRenewed
              \/ Preparing' /\ UNCHANGED <<cur, key, needsSave, dirty, hooksDue, hk>>
  BY DEF PrePublishSteps, WritePendingKey, WritePendingKeyFails, PreBlock, PreBlockSkip,
         PreBlocksDone, AddTlsa, AddTlsaRefused, AddTlsaUnanswered, SavePending, SavePendingFails,
         NextName, NotRenewed, LeaveCert, Goto, Preparing, frame, disk, world, TypeOK, PositionOK

\* dane-publish touches records only.
LEMMA DaneFacts ==
    ASSUME TypeOK, DanePublishSteps
    PROVE  /\ pc \in {"dp_cert", "dp_replace"}
           /\ UNCHANGED <<disk, due, owed>>
           /\ Exit \/ (pc' \in {"dp_cert", "dp_replace"} /\ UNCHANGED <<run, mem, key, needsSave>>)
  BY DEF DanePublishSteps, DanePublishSkip, DanePublishLoad, DanePublishReplace, DanePublishFails,
         DanePublishNext, DanePublishDone, NextName, Goto, run, frame, disk, world

\* The steps that issue and install a certificate.
LEMMA IssueFacts ==
    ASSUME TypeOK, IssueSteps
    PROVE  /\ Issuing /\ cur \in Certs
           /\ UNCHANGED <<mem, stateFile, pendFile, cmd>>
           /\ \/ NotRenewed
              \/ Renewed /\ pc = "publish" /\ bi \notin Blocks(cur)
              \/ Issuing' /\ UNCHANGED <<cur, key, needsSave, dirty, hooksDue, hk>>
  BY DEF IssueSteps, Order, OrderFails, WriteCert, WriteCertFails, SaveKey, SaveKeyFails,
         Permissions, PermissionsFail, PublishTlsa, PublishTlsaFails, RunInlineHooks, InlineHooksFail,
         NextName, NotRenewed, Renewed, LeaveCert, Goto, Issuing, frame, disk, world, TypeOK, PositionOK

\* A process starts, or the renewal window of a certificate opens.
LEMMA WorldFacts ==
    ASSUME (\E cm \in Commands : Start(cm)) \/ (\E c \in Certs : BecomesDue(c)) \/ UNCHANGED vars
    PROVE  /\ UNCHANGED <<disk, dns, owed, cur, mem, dirty, hooksDue, hk, frame>>
           /\ UNCHANGED <<pc, cmd>> \/ (pc = "idle" /\ pc' \in {"load", "dp_cert"})
  BY DEF Start, BecomesDue, vars, run, frame, disk, world

\* Time changes nothing but ages.
LEMMA TickFacts ==
    ASSUME Tick
    PROVE  UNCHANGED <<pendFile, certFile, keyFile, due, owed, pc, cur, run, frame>>
  BY DEF Tick

\* The groups are all the steps there are.
LEMMA Groups ==
    ASSUME [Next]_vars
    PROVE  \/ RunSteps \/ DetermineKey \/ PrePublishSteps \/ IssueSteps \/ DanePublishSteps
           \/ Crash \/ CrashInWrite \/ Tick
           \/ (\E cm \in Commands : Start(cm)) \/ (\E c \in Certs : BecomesDue(c)) \/ UNCHANGED vars
  BY DEF Next, Process

-----------------------------------------------------------------------------
(***************************************************************************)
(* Dry runs, and who rotates.                                              *)
(***************************************************************************)
\* A dry run writes nothing: it does not get past determine_key.
DryInv == Preparing \/ Issuing => ~cmd.dry

\* Only a certificate with rotate_key has a pending rotation, and only one that also
\* has a pre-published block gets a new one.
RotatesInv ==
    /\ \A c \in Certs : mem[c] # None => RotateKey[c]
    /\ stateFile # Corrupt => \A c \in Certs : stateFile[c] # None => RotateKey[c]
    /\ Preparing => RotateKey[cur] /\ NeedsPrePublish(cur)

\* Every step keeps this.
LEMMA DryNext == ASSUME TypeOK, DryInv, [Next]_vars PROVE DryInv'
<1>1. CASE RunSteps \/ DanePublishSteps
  BY <1>1, RunFacts, DaneFacts DEF DryInv, Preparing, Issuing, Exit
<1>2. CASE DetermineKey
  BY <1>2, DetermineFacts DEF DryInv, Preparing, Issuing
<1>3. CASE PrePublishSteps \/ IssueSteps
  BY <1>3, PreFacts, IssueFacts DEF DryInv, NotRenewed, Renewed, LeaveCert, Preparing, Issuing
<1>4. CASE Crash \/ CrashInWrite
  BY <1>4 DEF Crash, CrashInWrite, Exit, DryInv, Preparing, Issuing
<1>5. CASE Tick
  BY <1>5, TickFacts DEF DryInv, Preparing, Issuing, run
<1>6. CASE (\E cm \in Commands : Start(cm)) \/ (\E c \in Certs : BecomesDue(c)) \/ UNCHANGED vars
  BY <1>6, WorldFacts DEF DryInv, Preparing, Issuing
<1> QED
  BY Groups, <1>1, <1>2, <1>3, <1>4, <1>5, <1>6

\* The records without their ages are the same after a tick.
LEMMA TickAnnounced == ASSUME TypeOK, Tick PROVE Announced' = Announced
<1>1. ASSUME NEW n \in Names
      PROVE  {[r EXCEPT !.age = 0] : r \in dns'[n]} = {[r EXCEPT !.age = 0] : r \in dns[n]}
  <2>1. dns'[n] = {[r EXCEPT !.age = Older(@)] : r \in dns[n]}
    BY DEF Tick
  <2>2. \A r \in dns[n] : [[r EXCEPT !.age = Older(@)] EXCEPT !.age = 0] = [r EXCEPT !.age = 0]
    <3>1. \A r \in dns[n] : r \in Tlsa
      BY DEF TypeOK, DiskOK
    <3> QED
      BY <3>1 DEF Tlsa
  <2> DEFINE Aged(r) == [r EXCEPT !.age = Older(@)]
             Bare(r) == [r EXCEPT !.age = 0]
  <2>3. dns'[n] = {Aged(r) : r \in dns[n]} /\ \A r \in dns[n] : Bare(Aged(r)) = Bare(r)
    BY <2>1, <2>2
  <2> HIDE DEF Aged, Bare
  <2>4. {Bare(r) : r \in dns'[n]} = {Bare(r) : r \in dns[n]}
    BY <2>3
  <2> QED
    BY <2>4 DEF Bare
<1> QED
  BY <1>1 DEF Announced

\* What one step of a dry run may touch.
LEMMA DryStep ==
    ASSUME TypeOK, DryInv, DryRun, [Next]_vars
    PROVE  UNCHANGED <<pendFile, certFile, keyFile, owed, Announced>>
<1>0. ~Preparing /\ ~Issuing /\ cmd.dry
  BY DEF DryInv, DryRun
<1>1. CASE RunSteps
  <2>1. owed' = owed
    BY <1>0, <1>1 DEF RunSteps, LoadState, AcmeNew, AcmeNewFails, SkipCert, CertsDone, WaitForTtl,
       NotDue, MustRenew, SkipHook, RunHook, HookFails, SaveState, SaveStateFails, world
  <2> QED
    BY <1>1, <2>1, RunFacts DEF Announced
<1>2. CASE DetermineKey
  BY <1>2, DetermineFacts DEF Announced, disk, world
<1>3. ~PrePublishSteps /\ ~IssueSteps
  BY <1>0, PreFacts, IssueFacts
<1>4. CASE DanePublishSteps
  <2>1. dns' = dns
    BY <1>0, <1>4 DEF DanePublishSteps, DanePublishSkip, DanePublishLoad, DanePublishReplace,
       DanePublishFails, DanePublishNext, DanePublishDone, world
  <2> QED
    BY <1>4, <2>1, DaneFacts DEF Announced, disk
<1>5. CASE Crash
  BY <1>5 DEF Crash, Announced, disk, world
<1>6. CASE CrashInWrite
  BY <1>0, <1>6 DEF CrashInWrite, Announced, Preparing, Issuing
<1>7. CASE Tick
  BY <1>7, TickFacts, TickAnnounced
<1>8. CASE (\E cm \in Commands : Start(cm)) \/ (\E c \in Certs : BecomesDue(c)) \/ UNCHANGED vars
  BY <1>8, WorldFacts DEF Announced, disk
<1> QED
  BY Groups, <1>1, <1>2, <1>3, <1>4, <1>5, <1>6, <1>7, <1>8

\* A dry run touches no certificate, no key, no TLSA record and no service, with
\* every configuration, whatever fails, and whichever command it is.
THEOREM DryRunsAreHarmless == Spec => DryRunHarmless
<1>1. Init => DryInv
  BY DEF Init, DryInv, Preparing, Issuing
<1>2. TypeOK /\ DryInv /\ [Next]_vars => DryInv'
  BY DryNext
<1>3. TypeOK /\ DryInv /\ [Next]_vars
        => [DryRun => UNCHANGED <<pendFile, certFile, keyFile, owed, Announced>>]_vars
  BY DryStep
<1> QED
  BY <1>1, <1>2, <1>3, TypeCorrect, PTL DEF Spec, DryRunHarmless

-----------------------------------------------------------------------------
(***************************************************************************)
(* Keys and certificates.  The two files are written one after the other:  *)
(* what follows needs that no write fails and no process dies in between.  *)
(***************************************************************************)
SafeWrites == "io" \notin Faults /\ "crash" \notin Faults

\* The steps that are then impossible.
LEMMA Unbroken ==
    ASSUME SafeWrites
    PROVE  /\ ~WritePendingKeyFails /\ ~SavePendingFails /\ ~WriteCertFails /\ ~SaveKeyFails
           /\ ~SaveStateFails /\ ~Crash /\ ~CrashInWrite
  BY DEF SafeWrites, WritePendingKeyFails, SavePendingFails, WriteCertFails, SaveKeyFails,
         SaveStateFails, Crash, CrashInWrite

\* A key that is not to be saved is the one that is installed, and the certificate
\* is for the key in hand while that is still to be saved.
KeyInv ==
    /\ KeyMatchesCert
    /\ pc \in {"order", "write_cert"} /\ ~needsSave => key = keyFile[cur]
    /\ pc = "save_key" => certFile[cur].key = key

\* Every step keeps this.
LEMMA KeyNext == ASSUME SafeWrites, TypeOK, KeyInv, [Next]_vars PROVE KeyInv'
<1>1. CASE RunSteps
  BY <1>1, RunFacts DEF KeyInv, KeyMatchesCert
<1>2. CASE DetermineKey
  <2>1. pc = "key" /\ pc' # "write_cert" /\ pc' # "save_key" /\ UNCHANGED <<certFile, keyFile>>
    BY <1>2, DetermineFacts DEF disk
  <2>2. pc' = "order" /\ ~needsSave' => key' = keyFile[cur] /\ cur' = cur
    BY <1>2 DEF DetermineKey, TakePending, TakePendingFails, RotateNow, PrePublishDry, PrePublish,
       LoadKey, GenerateKey, UseKey, Renewed, NotRenewed, LeaveCert, Goto
  <2> QED
    BY <2>1, <2>2 DEF KeyInv, KeyMatchesCert
<1>3. CASE PrePublishSteps
  BY <1>3, PreFacts DEF KeyInv, KeyMatchesCert, Preparing, NotRenewed, LeaveCert
<1>4. CASE IssueSteps
  <2>0. ~WriteCertFails /\ ~SaveKeyFails
    BY Unbroken
  <2>1. CASE WriteCert
    <3>1. PICK s \in FreshSerials(cur) :
            certFile' = [certFile EXCEPT ![cur] = [key |-> key, serial |-> s]]
      BY <2>1 DEF WriteCert
    <3>2. /\ pc = "write_cert" /\ UNCHANGED <<cur, key, keyFile>> /\ cur \in Certs
          /\ pc' = IF needsSave THEN "save_key" ELSE "perms"
      BY <2>1, <1>4, IssueFacts DEF WriteCert, Goto, frame
    <3>3. certFile'[cur].key = key /\ \A c \in Certs : c # cur => certFile'[c] = certFile[c]
      BY <3>1, <3>2 DEF TypeOK, DiskOK
    <3>4. CASE needsSave
      BY <3>2, <3>3, <3>4 DEF KeyInv, KeyMatchesCert
    <3>5. CASE ~needsSave
      BY <3>2, <3>3, <3>5 DEF KeyInv, KeyMatchesCert
    <3> QED
      BY <3>4, <3>5
  <2>2. CASE SaveKey
    <3>1. /\ pc = "save_key" /\ pc' = "perms" /\ UNCHANGED <<cur, key, certFile>> /\ cur \in Certs
          /\ keyFile' = [keyFile EXCEPT ![cur] = key]
      BY <2>2, <1>4, IssueFacts DEF SaveKey, Goto, frame
    <3>2. keyFile'[cur] = key /\ \A c \in Certs : c # cur => keyFile'[c] = keyFile[c]
      BY <3>1 DEF TypeOK, DiskOK
    <3> QED
      BY <3>1, <3>2 DEF KeyInv, KeyMatchesCert
  <2>3. CASE Order \/ OrderFails
    BY <2>3 DEF Order, OrderFails, KeyInv, KeyMatchesCert, Goto, NotRenewed, LeaveCert, frame, disk
  <2>4. CASE Permissions \/ PermissionsFail \/ PublishTlsa \/ PublishTlsaFails \/ RunInlineHooks
             \/ InlineHooksFail
    <3>1. /\ pc \in {"perms", "publish"} /\ pc' \in {"perms", "publish", "cert"}
          /\ UNCHANGED <<certFile, keyFile>>
      BY <2>4 DEF Permissions, PermissionsFail, PublishTlsa, PublishTlsaFails, RunInlineHooks,
         InlineHooksFail, Goto, NextName, NotRenewed, Renewed, LeaveCert, disk
    <3> QED
      BY <3>1 DEF KeyInv, KeyMatchesCert
  <2> QED
    BY <1>4, <2>0, <2>1, <2>2, <2>3, <2>4 DEF IssueSteps
<1>5. CASE DanePublishSteps
  BY <1>5, DaneFacts DEF KeyInv, KeyMatchesCert, Exit, disk
<1>6. CASE Tick
  BY <1>6, TickFacts DEF KeyInv, KeyMatchesCert, frame
<1>7. CASE (\E cm \in Commands : Start(cm)) \/ (\E c \in Certs : BecomesDue(c)) \/ UNCHANGED vars
  BY <1>7, WorldFacts DEF KeyInv, KeyMatchesCert, frame, disk
<1> QED
  BY Groups, Unbroken, <1>1, <1>2, <1>3, <1>4, <1>5, <1>6, <1>7

\* Initially the installed keys are those of the installed certificates.
LEMMA KeyInit == Init => KeyInv
<1> SUFFICES ASSUME Init PROVE KeyInv
  OBVIOUS
<1>1. pc = "idle" /\ keyFile = [c \in Certs |-> IF certFile[c] = None THEN None ELSE certFile[c].key]
  BY DEF Init
<1> QED
  BY <1>1 DEF KeyInv, KeyMatchesCert

\* The installed certificate is for the installed key in every state but the one
\* between the two writes of renew_certificate, as long as no write fails and no
\* process dies; orders, DNS servers, permissions and hooks may fail.
THEOREM KeysMatchCerts == SafeWrites => (Spec => []KeyMatchesCert)
<1> SUFFICES ASSUME SafeWrites PROVE Spec => []KeyMatchesCert
  OBVIOUS
<1>1. TypeOK /\ KeyInv /\ [Next]_vars => KeyInv'
  BY KeyNext
<1>2. KeyInv => KeyMatchesCert
  BY DEF KeyInv
<1> QED
  BY <1>1, <1>2, KeyInit, TypeCorrect, PTL DEF Spec

-----------------------------------------------------------------------------
(***************************************************************************)
(* New keys for the certificates that rotate, and only for those.          *)
(***************************************************************************)
\* determine_key and the pending rotations in memory.
LEMMA DetermineMem ==
    ASSUME TypeOK, DetermineKey
    PROVE  /\ \A c \in Certs : c # cur => mem'[c] = mem[c]
           /\ mem'[cur] = None \/ mem'[cur] = mem[cur]
           /\ pc' # "cert" => mem'[cur] = None
<1>1. cur \in Certs /\ mem \in State
  BY DetermineFacts DEF TypeOK, ProcessOK
<1>2. mem' = [mem EXCEPT ![cur] = None] \/ (mem' = mem /\ mem[cur] = None)
  BY DEF DetermineKey, TakePending, TakePendingFails, RotateNow, PrePublishDry, PrePublish,
       LoadKey, GenerateKey
<1> QED
  BY <1>1, <1>2 DEF State

\* Time passes over the pending rotations.
LEMMA TickMem ==
    ASSUME TypeOK, Tick
    PROVE  /\ \A c \in Certs : mem'[c] # None => mem[c] # None
           /\ stateFile' # Corrupt =>
                stateFile # Corrupt /\ \A c \in Certs : stateFile'[c] # None => stateFile[c] # None
           /\ \A c \in Certs : mem[c] = None => mem'[c] = None
<1>1. \A c \in Certs : OlderState(mem)[c] # None => mem[c] # None
  BY DEF OlderState
<1>2. \A c \in Certs : OlderState(stateFile)[c] # None => stateFile[c] # None
  BY DEF OlderState
<1>3. \A c \in Certs : mem[c] = None => OlderState(mem)[c] = None
  BY DEF OlderState
<1> QED
  BY <1>1, <1>2, <1>3 DEF Tick

\* The pending rotations that a step of run() leaves.
LEMMA RunMem ==
    ASSUME TypeOK, RunSteps
    PROVE  /\ \/ pc = "load" /\ pc' = "acme" /\ mem' = stateFile /\ stateFile # Corrupt
                /\ stateFile' = stateFile /\ dirty' = dirty
              \/ pc # "load" /\ mem' = mem /\ stateFile' = stateFile /\ pc' # "idle" /\ dirty' = dirty
              \/ Exit /\ stateFile' \in {stateFile, Corrupt} /\ pc \in {"load", "acme", "hooks"}
                /\ (pc = "hooks" /\ dirty => SaveStateFails)
              \/ Exit /\ stateFile' = mem
  BY DEF RunSteps, LoadState, AcmeNew, AcmeNewFails, SkipCert, CertsDone, WaitForTtl, NotDue,
         MustRenew, SkipHook, RunHook, HookFails, SaveState, SaveStateFails, NextHook, Goto,
         NotRenewed, LeaveCert, disk

\* Only rotating certificates have pending rotations, whatever fails.
LEMMA RotatesNext == ASSUME TypeOK, RotatesInv, [Next]_vars PROVE RotatesInv'
<1>0. ASSUME Exit PROVE (\A c \in Certs : mem'[c] = None) /\ pc' = "idle"
  BY <1>0 DEF Exit, NoPending
<1>1. CASE RunSteps
  <2>1. ~Preparing'
    BY <1>1, RunFacts DEF Preparing
  <2> QED
    BY <1>0, <1>1, <2>1, RunMem DEF RotatesInv
<1>2. CASE DetermineKey
  <2>1. stateFile' = stateFile /\ (Preparing' => PrePublish /\ cur' = cur)
    BY <1>2, DetermineFacts DEF disk, DetermineKey, TakePending, TakePendingFails, RotateNow, PrePublishDry,
       PrePublish, LoadKey, GenerateKey, UseKey, Renewed, NotRenewed, LeaveCert, Goto, Preparing
  <2>2. Preparing' => RotateKey[cur'] /\ NeedsPrePublish(cur')
    BY <2>1 DEF PrePublish, NeedsPrePublish
  <2>3. \A c \in Certs : mem'[c] # None => mem[c] # None
    BY <1>2, DetermineMem
  <2> QED
    BY <2>1, <2>2, <2>3 DEF RotatesInv, NeedsPrePublish
<1>3. CASE PrePublishSteps
  <2>1. Preparing /\ cur \in Certs /\ (~Preparing' \/ cur' = cur)
    BY <1>3, PreFacts DEF NotRenewed, LeaveCert, Preparing
  <2>2. mem' = mem \/ \E v : mem' = [mem EXCEPT ![cur] = v]
    BY <1>3 DEF PrePublishSteps, WritePendingKey, WritePendingKeyFails, PreBlock, PreBlockSkip,
         PreBlocksDone, AddTlsa, AddTlsaRefused, AddTlsaUnanswered, SavePending, SavePendingFails,
         InsertPending
  <2>3. \A c \in Certs : mem'[c] = mem[c] \/ c = cur
    BY <2>1, <2>2 DEF TypeOK, ProcessOK, State
  <2>4. stateFile' \in {stateFile, Corrupt, mem'}
    BY <1>3 DEF PrePublishSteps, WritePendingKey, WritePendingKeyFails, PreBlock, PreBlockSkip,
         PreBlocksDone, AddTlsa, AddTlsaRefused, AddTlsaUnanswered, SavePending, SavePendingFails, disk
  <2> QED
    BY <2>1, <2>3, <2>4 DEF RotatesInv, NeedsPrePublish
<1>4. CASE IssueSteps
  BY <1>4, IssueFacts DEF RotatesInv, NotRenewed, Renewed, LeaveCert, Preparing, Issuing
<1>5. CASE DanePublishSteps
  BY <1>0, <1>5, DaneFacts DEF RotatesInv, Preparing, disk
<1>6. CASE Crash \/ CrashInWrite
  <2>1. Exit /\ stateFile' \in {stateFile, Corrupt}
    BY <1>6 DEF Crash, CrashInWrite, disk
  <2> QED
    BY <1>0, <2>1 DEF RotatesInv, Preparing
<1>7. CASE Tick
  BY <1>7, TickFacts, TickMem DEF RotatesInv, Preparing, NeedsPrePublish
<1>8. CASE (\E cm \in Commands : Start(cm)) \/ (\E c \in Certs : BecomesDue(c)) \/ UNCHANGED vars
  BY <1>8, WorldFacts DEF RotatesInv, Preparing, disk, NeedsPrePublish
<1> QED
  BY Groups, <1>1, <1>2, <1>3, <1>4, <1>5, <1>6, <1>7, <1>8

\* A certificate that keeps its key gets the installed one.
KeptInv ==
    pc \in {"order", "write_cert"} /\ ~RotateKey[cur] /\ certFile[cur] # None
      => key = certFile[cur].key

\* Every step keeps this, unless a key cannot be loaded.
LEMMA KeptNext ==
    ASSUME SafeWrites, "load_key" \notin Faults, TypeOK, KeyInv, RotatesInv, KeptInv, [Next]_vars
    PROVE  KeptInv'
<1>1. CASE RunSteps \/ DanePublishSteps
  BY <1>1, RunFacts, DaneFacts DEF KeptInv, Exit
<1>2. CASE DetermineKey
  <2> SUFFICES ASSUME pc' = "order", ~RotateKey[cur], certFile[cur] # None
               PROVE  key' = certFile[cur].key
    BY <1>2, DetermineFacts DEF KeptInv, disk
  <2>1. cur \in Certs /\ mem[cur] = None /\ pc = "key"
    BY <1>2, DetermineFacts DEF RotatesInv
  <2>2. certFile[cur].key = keyFile[cur] /\ certFile[cur].key \in Keys
    BY <2>1 DEF KeyInv, KeyMatchesCert, TypeOK, DiskOK, Cert
  <2>3. keyFile[cur] # None
    BY <2>2, MarkersAssumption
  <2>4. LoadKey
    BY <1>2, <2>1, <2>3 DEF DetermineKey, TakePending, TakePendingFails, RotateNow, PrePublishDry,
       PrePublish, GenerateKey
  <2> QED
    BY <2>2, <2>4 DEF LoadKey, UseKey, Renewed, LeaveCert
<1>3. CASE PrePublishSteps
  BY <1>3, PreFacts DEF KeptInv, Preparing, NotRenewed, LeaveCert
<1>4. CASE IssueSteps
  <2>1. CASE Order
    BY <2>1 DEF Order, KeptInv, Goto, frame, disk
  <2>2. CASE ~Order
    <3>1. pc' \notin {"order", "write_cert"}
      BY <1>4, <2>2 DEF IssueSteps, OrderFails, WriteCert, WriteCertFails, SaveKey, SaveKeyFails,
         Permissions, PermissionsFail, PublishTlsa, PublishTlsaFails, RunInlineHooks, InlineHooksFail,
         NextName, NotRenewed, Renewed, LeaveCert, Goto
    <3> QED
      BY <3>1 DEF KeptInv
  <2> QED
    BY <2>1, <2>2
<1>5. CASE Tick
  BY <1>5, TickFacts DEF KeptInv, frame
<1>6. CASE (\E cm \in Commands : Start(cm)) \/ (\E c \in Certs : BecomesDue(c)) \/ UNCHANGED vars
  BY <1>6, WorldFacts DEF KeptInv, frame, disk
<1> QED
  BY Groups, Unbroken, <1>1, <1>2, <1>3, <1>4, <1>5, <1>6

NotInstalled(c, k) == certFile[c] # None => certFile[c].key # k

\* A certificate that rotates gets a key that is not installed: the pending keys are
\* not, as long as the state that is going to be loaded again is up to date.
NewInv ==
    /\ pc \in {"idle", "load", "acme", "dp_cert", "dp_replace"} => ~dirty
    /\ \A c \in Certs : mem[c] # None => NotInstalled(c, pendFile[c])
    /\ ~dirty /\ stateFile # Corrupt =>
         \A c \in Certs : stateFile[c] # None /\ ~(Written /\ c = cur) => NotInstalled(c, pendFile[c])
    /\ Preparing \/ Issuing => mem[cur] = None
    /\ Preparing => NotInstalled(cur, key)
    /\ pc \in {"pre_block", "add_tlsa", "save_pending"} => pendFile[cur] = key
    /\ pc \in {"order", "write_cert"} /\ RotateKey[cur] => NotInstalled(cur, key)

\* A generated key is not the installed one.
LEMMA FreshKey == \A c \in Certs : \A k \in FreshKeys(c) : NotInstalled(c, k)
  BY DEF FreshKeys, NotInstalled

\* The steps of determine_key keep this.
LEMMA NewDetermine == ASSUME TypeOK, NewInv, DetermineKey PROVE NewInv'
<1>0. /\ pc = "key" /\ cur \in Certs /\ pc' \in {"cert", "order", "write_pending"}
      /\ UNCHANGED <<stateFile, pendFile, certFile>>
  BY DetermineFacts DEF disk
<1>1. \A c, k : NotInstalled(c, k)' <=> NotInstalled(c, k)
  BY <1>0 DEF NotInstalled
<1>2. CASE pc' = "cert"
  <2>1. dirty' = dirty \/ dirty'
    BY <1>2, DetermineFacts DEF Renewed, NotRenewed
  <2>2. /\ \A c \in Certs : mem'[c] # None => mem[c] # None
        /\ ~Written /\ ~Written' /\ ~Preparing' /\ ~Issuing'
    BY <1>0, <1>2, DetermineMem DEF Written, Preparing, Issuing
  <2> QED
    BY <1>0, <1>1, <1>2, <2>1, <2>2 DEF NewInv
<1>3. CASE pc' # "cert"
  <2>1. /\ cur' = cur /\ dirty' = dirty /\ mem'[cur] = None
        /\ \A c \in Certs : mem'[c] # None => mem[c] # None
    <3>1. cur' = cur /\ dirty' = dirty
      BY <1>3 DEF DetermineKey, TakePending, TakePendingFails, RotateNow, PrePublishDry, PrePublish,
         LoadKey, GenerateKey, UseKey, Renewed, NotRenewed, LeaveCert, Goto
    <3> QED
      BY <1>3, <3>1, DetermineMem
  <2>2. Preparing' \/ RotateKey[cur] => NotInstalled(cur, key')
    <3>1. CASE TakePending
      <4>1. key' = pendFile[cur] /\ mem[cur] # None /\ ~Preparing'
        BY <1>3, <3>1 DEF TakePending, UseKey, Renewed, LeaveCert, Goto, Preparing
      <4> QED
        BY <1>0, <4>1 DEF NewInv
    <3>2. CASE RotateNow \/ PrePublish
      <4>1. key' \in FreshKeys(cur)
        BY <1>3, <3>2 DEF RotateNow, PrePublish, UseKey, Renewed, LeaveCert
      <4> QED
        BY <1>0, <4>1, FreshKey
    <3>3. CASE LoadKey \/ GenerateKey
      BY <1>3, <3>3 DEF LoadKey, GenerateKey, UseKey, Renewed, LeaveCert, Goto, Preparing
    <3> QED
      BY <1>3, <3>1, <3>2, <3>3 DEF DetermineKey, TakePendingFails, PrePublishDry, NotRenewed, LeaveCert
  <2>3. ~Written /\ ~Written' /\ pc' \in {"order", "write_pending"}
    BY <1>0, <1>3 DEF Written
  <2> QED
    BY <1>0, <1>1, <2>1, <2>2, <2>3 DEF NewInv
<1> QED
  BY <1>2, <1>3

\* The steps of the pre-publication keep this.
LEMMA NewPrePublish == ASSUME SafeWrites, TypeOK, NewInv, PrePublishSteps PROVE NewInv'
<1>0. /\ Preparing /\ cur \in Certs /\ certFile' = certFile /\ dirty' = dirty
      /\ ~Written /\ ~Written' /\ ~Issuing'
      /\ pc' = "cert" \/ (Preparing' /\ cur' = cur /\ key' = key)
      /\ pc' = "cert" => ~Preparing'
  BY PreFacts DEF Preparing, Issuing, Written, NotRenewed, LeaveCert
<1>1. \A c, k : NotInstalled(c, k)' <=> NotInstalled(c, k)
  BY <1>0 DEF NotInstalled
<1>2. CASE WritePendingKey
  <2>1. /\ pendFile'[cur] = key /\ \A c \in Certs : c # cur => pendFile'[c] = pendFile[c]
        /\ UNCHANGED <<mem, stateFile>> /\ pc' = "pre_block"
    BY <1>0, <1>2 DEF WritePendingKey, Goto, TypeOK, DiskOK
  <2>2. \A c \in Certs : NotInstalled(c, pendFile[c]) => NotInstalled(c, pendFile'[c])
    BY <1>0, <2>1 DEF NewInv
  <2>3. Preparing'
    BY <2>1 DEF Preparing
  <2> QED
    BY <1>0, <1>1, <2>1, <2>2, <2>3 DEF NewInv
<1>3. CASE SavePending
  <2>1. /\ pc = "save_pending" /\ pc' = "cert" /\ stateFile' = mem' /\ pendFile' = pendFile
        /\ \A c \in Certs : c # cur => mem'[c] = mem[c]
    BY <1>0, <1>3 DEF SavePending, InsertPending, NotRenewed, LeaveCert, TypeOK, ProcessOK, State
  <2>2. \A c \in Certs : mem'[c] # None => NotInstalled(c, pendFile[c])
    BY <1>0, <2>1 DEF NewInv
  <2> QED
    BY <1>0, <1>1, <2>1, <2>2 DEF NewInv
<1>4. CASE ~WritePendingKey /\ ~SavePending
  <2>1. UNCHANGED <<mem, stateFile, pendFile>> /\ (Preparing' => pc # "write_pending")
    BY <1>4, Unbroken DEF PrePublishSteps, PreBlock, PreBlockSkip, PreBlocksDone, AddTlsa,
       AddTlsaRefused, AddTlsaUnanswered, disk
  <2>2. Preparing' => pendFile[cur] = key
    BY <1>0, <2>1 DEF NewInv, Preparing
  <2> QED
    BY <1>0, <1>1, <2>1, <2>2 DEF NewInv, Preparing
<1> QED
  BY <1>2, <1>3, <1>4

\* The steps of the issuance keep this, unless the permissions cannot be set.
LEMMA NewIssue == ASSUME SafeWrites, "perm" \notin Faults, TypeOK, NewInv, IssueSteps PROVE NewInv'
<1>0. /\ Issuing /\ cur \in Certs /\ UNCHANGED <<mem, stateFile, pendFile>> /\ ~Preparing'
      /\ pc' = "cert" \/ (Issuing' /\ cur' = cur /\ key' = key /\ dirty' = dirty)
      /\ pc' = "cert" => ~Issuing' /\ ~Written'
      /\ pc' \notin {"idle", "load", "acme", "dp_cert", "dp_replace"}
  BY IssueFacts DEF Preparing, Issuing, Written, NotRenewed, Renewed, LeaveCert
<1>1. CASE WriteCert
  <2>1. PICK s \in FreshSerials(cur) :
          certFile' = [certFile EXCEPT ![cur] = [key |-> key, serial |-> s]]
    BY <1>1 DEF WriteCert
  <2>2. \A c \in Certs : c # cur => certFile'[c] = certFile[c]
    BY <2>1 DEF TypeOK, DiskOK
  <2>3. pc = "write_cert" /\ pc' \in {"save_key", "perms"} /\ Written' /\ ~Written
    BY <1>1 DEF WriteCert, Goto, Written
  <2>4. \A c \in Certs : c # cur => \A k : NotInstalled(c, k) => NotInstalled(c, k)'
    BY <2>2 DEF NotInstalled
  <2> QED
    BY <1>0, <2>3, <2>4 DEF NewInv
<1>2. CASE OrderFails
  <2>1. certFile' = certFile /\ dirty' = dirty /\ pc' = "cert" /\ ~Written /\ ~Written' /\ ~Issuing'
    BY <1>2 DEF OrderFails, NotRenewed, LeaveCert, Written, Issuing, disk
  <2>2. \A c, k : NotInstalled(c, k)' <=> NotInstalled(c, k)
    BY <2>1 DEF NotInstalled
  <2> QED
    BY <1>0, <2>1, <2>2 DEF NewInv
<1>3. CASE RunInlineHooks \/ InlineHooksFail
  <2>1. certFile' = certFile /\ dirty' /\ pc' = "cert"
    BY <1>3 DEF RunInlineHooks, InlineHooksFail, Renewed, LeaveCert, disk
  <2>2. \A c, k : NotInstalled(c, k)' <=> NotInstalled(c, k)
    BY <2>1 DEF NotInstalled
  <2> QED
    BY <1>0, <2>1, <2>2 DEF NewInv
<1>4. CASE Order \/ SaveKey \/ Permissions \/ PublishTlsa \/ PublishTlsaFails
  <2>1. /\ certFile' = certFile /\ pc' # "cert" /\ (Written' <=> Written)
        /\ pc' \in {"order", "write_cert"} => pc \in {"order", "write_cert"}
    BY <1>4 DEF Order, SaveKey, Permissions, PublishTlsa, PublishTlsaFails, NextName, Goto, Written, disk
  <2>2. \A c, k : NotInstalled(c, k)' <=> NotInstalled(c, k)
    BY <2>1 DEF NotInstalled
  <2>3. /\ cur' = cur /\ key' = key /\ dirty' = dirty
        /\ pc' \notin {"pre_block", "add_tlsa", "save_pending"}
    BY <1>0, <2>1 DEF Preparing
  <2> QED
    BY <1>0, <2>1, <2>2, <2>3 DEF NewInv
<1>5. ~PermissionsFail
  BY DEF PermissionsFail
<1> QED
  BY Unbroken, <1>1, <1>2, <1>3, <1>4, <1>5 DEF IssueSteps

\* Every step keeps this.
LEMMA NewNext ==
    ASSUME SafeWrites, "perm" \notin Faults, TypeOK, NewInv, [Next]_vars
    PROVE  NewInv'
<1>1. CASE RunSteps
  <2>0. /\ UNCHANGED <<pendFile, certFile>> /\ ~Written /\ ~Written' /\ ~Preparing' /\ ~Issuing'
        /\ pc' \notin {"pre_block", "add_tlsa", "save_pending", "order", "write_cert", "dp_cert", "dp_replace"}
    BY <1>1, RunFacts DEF Written, Preparing, Issuing
  <2>1. \A c, k : NotInstalled(c, k)' <=> NotInstalled(c, k)
    BY <2>0 DEF NotInstalled
  <2>2. CASE pc = "load" /\ pc' = "acme" /\ mem' = stateFile /\ stateFile # Corrupt
             /\ stateFile' = stateFile /\ dirty' = dirty
    BY <2>0, <2>1, <2>2 DEF NewInv
  <2>3. CASE pc # "load" /\ mem' = mem /\ stateFile' = stateFile /\ pc' # "idle" /\ dirty' = dirty
    <3>1. pc' \in {"idle", "load", "acme"} => pc \in {"idle", "load", "acme"}
      BY <1>1, <2>3 DEF RunSteps, LoadState, AcmeNew, AcmeNewFails, SkipCert, CertsDone, WaitForTtl,
         NotDue, MustRenew, SkipHook, RunHook, HookFails, SaveState, SaveStateFails, NextHook, Goto,
         NotRenewed, LeaveCert, Exit
    <3> QED
      BY <2>0, <2>1, <2>3, <3>1 DEF NewInv
  <2>4. CASE Exit /\ stateFile' \in {stateFile, Corrupt, mem} /\ (dirty => stateFile' = mem)
    <3>1. \A c \in Certs : mem'[c] = None
      BY <2>4 DEF Exit, NoPending
    <3>2. ~dirty'
      BY <2>4 DEF Exit
    <3>3. stateFile' # Corrupt => \A c \in Certs : stateFile'[c] # None => NotInstalled(c, pendFile[c])
      BY <2>0, <2>4 DEF NewInv
    <3> QED
      BY <2>0, <2>1, <3>1, <3>2, <3>3 DEF NewInv
  <2>5. dirty /\ pc \in {"load", "acme", "hooks"} => pc = "hooks"
    BY DEF NewInv
  <2> QED
    BY <1>1, <2>2, <2>3, <2>4, <2>5, RunMem, Unbroken
<1>2. CASE DanePublishSteps
  <2>0. /\ UNCHANGED <<pendFile, certFile, stateFile>> /\ ~Written /\ ~Written' /\ ~Preparing' /\ ~Issuing'
        /\ pc' \notin {"pre_block", "add_tlsa", "save_pending", "order", "write_cert"} /\ ~dirty
    BY <1>2, DaneFacts DEF Written, Preparing, Issuing, disk, Exit, NewInv
  <2>1. \A c, k : NotInstalled(c, k)' <=> NotInstalled(c, k)
    BY <2>0 DEF NotInstalled
  <2>2. ~dirty' /\ \A c \in Certs : mem'[c] # None => mem[c] # None
    <3>1. CASE Exit
      BY <3>1 DEF Exit, NoPending
    <3>2. CASE UNCHANGED <<run, mem, key, needsSave>>
      <4>1. dirty' = dirty /\ mem' = mem
        BY <3>2 DEF run
      <4> QED
        BY <2>0, <4>1
    <3> QED
      BY <1>2, <3>1, <3>2, DaneFacts
  <2> QED
    BY <2>0, <2>1, <2>2 DEF NewInv
<1>3. CASE Tick
  <2>0. UNCHANGED <<pendFile, certFile, pc, cur, dirty, key>>
    BY <1>3, TickFacts DEF run, frame
  <2>1. \A c, k : NotInstalled(c, k)' <=> NotInstalled(c, k)
    BY <2>0 DEF NotInstalled
  <2>2. /\ Written' <=> Written
        /\ Preparing' <=> Preparing
        /\ Issuing' <=> Issuing
        /\ Preparing \/ Issuing => cur \in Certs
    BY <2>0 DEF Written, Preparing, Issuing, TypeOK, PositionOK
  <2> QED
    BY <1>3, <2>0, <2>1, <2>2, TickMem DEF NewInv
<1>4. CASE (\E cm \in Commands : Start(cm)) \/ (\E c \in Certs : BecomesDue(c)) \/ UNCHANGED vars
  <2>0. /\ UNCHANGED <<pendFile, certFile, stateFile, mem, cur, dirty, key>>
        /\ pc' = pc \/ (pc = "idle" /\ pc' \in {"load", "dp_cert"})
    BY <1>4, WorldFacts DEF frame, disk
  <2>1. \A c, k : NotInstalled(c, k)' <=> NotInstalled(c, k)
    BY <2>0 DEF NotInstalled
  <2>2. /\ Written' <=> Written
        /\ Preparing' <=> Preparing
        /\ Issuing' <=> Issuing
    BY <2>0 DEF Written, Preparing, Issuing
  <2> QED
    BY <2>0, <2>1, <2>2 DEF NewInv
<1> QED
  BY Groups, Unbroken, NewDetermine, NewPrePublish, NewIssue, <1>1, <1>2, <1>3, <1>4

\* Initially nothing is pending.
LEMMA NewInit == Init => RotatesInv /\ KeptInv /\ NewInv
  BY DEF Init, NoPending, RotatesInv, KeptInv, NewInv, Preparing, Issuing

\* The certificate file changes by WriteCert, and is lost in a failed write.
LEMMA Installs ==
    ASSUME TypeOK, [Next]_vars, NEW c \in Certs, certFile'[c] # certFile[c], certFile'[c] # None
    PROVE  WriteCert /\ c = cur /\ certFile'[c].key = key
<1>1. ~RunSteps /\ ~DetermineKey /\ ~PrePublishSteps /\ ~DanePublishSteps /\ ~Tick /\ ~Crash
  BY RunFacts, DetermineFacts, PreFacts, DaneFacts, TickFacts DEF disk, Crash
<1>2. ~((\E cm \in Commands : Start(cm)) \/ (\E d \in Certs : BecomesDue(d)) \/ UNCHANGED vars)
  BY WorldFacts DEF disk
<1>3. ~CrashInWrite
  BY DEF CrashInWrite, TypeOK, DiskOK
<1>4. IssueSteps
  BY Groups, <1>1, <1>2, <1>3
<1>5. WriteCert
  BY <1>4 DEF IssueSteps, Order, OrderFails, WriteCertFails, SaveKey, SaveKeyFails, Permissions,
     PermissionsFail, PublishTlsa, PublishTlsaFails, RunInlineHooks, InlineHooksFail, disk, TypeOK, DiskOK
<1>6. PICK s \in FreshSerials(cur) :
        certFile' = [certFile EXCEPT ![cur] = [key |-> key, serial |-> s]]
  BY <1>5 DEF WriteCert
<1>7. c = cur
  BY <1>6 DEF TypeOK, DiskOK
<1>8. certFile'[c] = [key |-> key, serial |-> s]
  BY <1>6, <1>7 DEF TypeOK, DiskOK
<1> QED
  BY <1>5, <1>7, <1>8

\* A renewed certificate has another key exactly when rotate_key asks for it, with any
\* number of certificates and pending rotations, as long as files can be written and
\* read, permissions set and no process dies; orders, DNS and hooks may fail.
THEOREM KeysRotate ==
    SafeWrites /\ "load_key" \notin Faults /\ "perm" \notin Faults => (Spec => KeyRotation)
<1> SUFFICES ASSUME SafeWrites, "load_key" \notin Faults, "perm" \notin Faults
             PROVE  Spec => KeyRotation
  OBVIOUS
<1> DEFINE All == KeyInv /\ RotatesInv /\ KeptInv /\ NewInv
<1>1. TypeOK /\ All /\ [Next]_vars => All'
  BY KeyNext, RotatesNext, KeptNext, NewNext
<1>2. ASSUME TypeOK, All, [Next]_vars, NEW c \in Certs,
             certFile[c] # None, certFile'[c] # None, certFile'[c] # certFile[c]
      PROVE  RotateKey[c] <=> certFile'[c].key # certFile[c].key
  <2>1. pc = "write_cert" /\ c = cur /\ certFile'[c].key = key
    BY <1>2, Installs DEF WriteCert
  <2> QED
    BY <1>2, <2>1 DEF KeptInv, NewInv, NotInstalled
<1>3. TypeOK /\ All /\ [Next]_vars =>
        [\A c \in Certs : certFile[c] # None /\ certFile'[c] # None /\ certFile'[c] # certFile[c]
           => (RotateKey[c] <=> certFile'[c].key # certFile[c].key)]_vars
  BY <1>2
<1>4. Init => All
  BY KeyInit, NewInit
<1> QED
  BY <1>1, <1>3, <1>4, TypeCorrect, PTL DEF Spec, KeyRotation

-----------------------------------------------------------------------------
(***************************************************************************)
(* The TLSA records and the installed certificates.                        *)
(***************************************************************************)
\* The record dane-check looks for, at the name i of the block b of c.
Wanted(c, b) == TlsaFromCert(certFile[c], Block(c, b).selector)
Announces(c, b, i) == \E r \in dns[Block(c, b).names[i]] : SameTlsa(r, Wanted(c, b))
OnlyWanted(c, b, i) == \A r \in dns[Block(c, b).names[i]] : SameTlsa(r, Wanted(c, b))

\* No TLSA name is configured twice.
LEMMA UniqueName ==
    ASSUME NEW c \in Certs, NEW b \in Blocks(c), NEW i \in NamesOf(c, b),
           NEW d \in Certs, NEW e \in Blocks(d), NEW j \in NamesOf(d, e),
           Block(c, b).names[i] = Block(d, e).names[j]
    PROVE  c = d /\ b = e /\ i = j
<1>1. /\ b \in 1..Len(Dane[c]) /\ i \in 1..Len(Dane[c][b].names)
      /\ e \in 1..Len(Dane[d]) /\ j \in 1..Len(Dane[d][e].names)
      /\ Dane[c][b].names[i] = Dane[d][e].names[j]
  BY DEF Blocks, NamesOf, Block
<1>2. \A b1 \in 1..Len(Dane[c]), b2 \in 1..Len(Dane[d]) :
        \A i1 \in 1..Len(Dane[c][b1].names), i2 \in 1..Len(Dane[d][b2].names) :
          Dane[c][b1].names[i1] = Dane[d][b2].names[i2] => c = d /\ b1 = b2 /\ i1 = i2
  BY NamesDistinct
<1>3. \A i1 \in 1..Len(Dane[c][b].names), i2 \in 1..Len(Dane[d][e].names) :
        Dane[c][b].names[i1] = Dane[d][e].names[i2] => c = d /\ b = e /\ i1 = i2
  BY <1>1, <1>2
<1> QED
  BY <1>1, <1>3

\* One update replaces the records of one name.
LEMMA ReplaceFacts ==
    ASSUME TypeOK, NEW n \in Names, NEW r, Replace(n, r)
    PROVE  /\ \A m \in Names : m # n => dns'[m] = dns[m]
           /\ dns'[n] # {}
           /\ \A s \in dns'[n] : SameTlsa(s, r)
<1>1. dns'[n] = IF \E s \in dns[n] : SameTlsa(r, s) THEN {s \in dns[n] : SameTlsa(r, s)} ELSE {r}
  BY DEF Replace, TypeOK, DiskOK
<1>2. \A m \in Names : m # n => dns'[m] = dns[m]
  BY DEF Replace, TypeOK, DiskOK
<1> QED
  BY <1>1, <1>2 DEF SameTlsa

\* Time changes no record but its age.
LEMMA TickRecords ==
    ASSUME TypeOK, Tick, NEW n \in Names
    PROVE  /\ \A r \in dns[n] : \E s \in dns'[n] : SameTlsa(s, r)
           /\ \A s \in dns'[n] : \E r \in dns[n] : SameTlsa(s, r)
<1> DEFINE Aged(r) == [r EXCEPT !.age = Older(@)]
<1>1. dns'[n] = {Aged(r) : r \in dns[n]}
  BY DEF Tick
<1>2. ASSUME NEW r \in dns[n] PROVE SameTlsa(Aged(r), r)
  <2>1. r \in Tlsa
    BY DEF TypeOK, DiskOK
  <2> QED
    BY <2>1 DEF Tlsa, SameTlsa
<1> HIDE DEF Aged
<1> QED
  BY <1>1, <1>2

\* The name that the process is at.
Here == cur \in Certs /\ bi \in Blocks(cur) /\ ni \in NamesOf(cur, bi)

\* The steps that touch the records.
LEMMA ZoneSteps ==
    ASSUME TypeOK, [Next]_vars
    PROVE  \/ dns' = dns
           \/ /\ pc = "add_tlsa" /\ Here /\ PrePublished(cur, bi) /\ certFile' = certFile
              /\ Create(Block(cur, bi).names[ni], TlsaFromKey(key))
           \/ /\ pc \in {"publish", "dp_replace"} /\ Here /\ certFile[cur] # None
              /\ certFile' = certFile /\ Replace(Block(cur, bi).names[ni], CurrentTlsa)
           \/ Tick /\ certFile' = certFile
<1>1. CASE RunSteps \/ DetermineKey
  BY <1>1, RunFacts, DetermineFacts DEF world
<1>2. CASE PrePublishSteps
  BY <1>2 DEF PrePublishSteps, WritePendingKey, WritePendingKeyFails, PreBlock, PreBlockSkip,
     PreBlocksDone, AddTlsa, AddTlsaRefused, AddTlsaUnanswered, SavePending, SavePendingFails, world,
     disk, Here, TypeOK, PositionOK
<1>3. CASE IssueSteps
  BY <1>3 DEF IssueSteps, Order, OrderFails, WriteCert, WriteCertFails, SaveKey, SaveKeyFails,
     Permissions, PermissionsFail, PublishTlsa, PublishTlsaFails, RunInlineHooks, InlineHooksFail,
     world, disk, Here, TypeOK, PositionOK
<1>4. CASE DanePublishSteps
  BY <1>4 DEF DanePublishSteps, DanePublishSkip, DanePublishLoad, DanePublishReplace, DanePublishFails,
     DanePublishNext, DanePublishDone, world, disk, Here, TypeOK, PositionOK
<1>5. CASE Crash \/ CrashInWrite
  BY <1>5 DEF Crash, CrashInWrite, world
<1>6. CASE Tick
  BY <1>6, TickFacts
<1>7. CASE (\E cm \in Commands : Start(cm)) \/ (\E c \in Certs : BecomesDue(c)) \/ UNCHANGED vars
  BY <1>7, WorldFacts
<1> QED
  BY Groups, <1>1, <1>2, <1>3, <1>4, <1>5, <1>6, <1>7

\* What a replacement leaves at a name: its own record at the current one, and the
\* records of the others.
LEMMA ReplaceHere ==
    ASSUME TypeOK, Here, certFile' = certFile, Replace(Block(cur, bi).names[ni], CurrentTlsa),
           NEW c \in Certs, NEW b \in Blocks(c), NEW i \in NamesOf(c, b)
    PROVE  \/ /\ c = cur /\ b = bi /\ i = ni
              /\ Announces(c, b, i)' /\ OnlyWanted(c, b, i)'
           \/ /\ ~(c = cur /\ b = bi /\ i = ni)
              /\ dns'[Block(c, b).names[i]] = dns[Block(c, b).names[i]]
<1>1. Block(cur, bi).names[ni] \in Names /\ Block(c, b).names[i] \in Names
  BY ConfigFacts DEF Here
<1>2. CASE Block(c, b).names[i] = Block(cur, bi).names[ni]
  <2>1. c = cur /\ b = bi /\ i = ni
    BY <1>2, UniqueName DEF Here
  <2>2. CurrentTlsa = Wanted(c, b)'
    BY <2>1 DEF CurrentTlsa, Wanted, TlsaFromCert, TlsaFromKey, Block
  <2>3. /\ dns'[Block(c, b).names[i]] # {}
        /\ \A s \in dns'[Block(c, b).names[i]] : SameTlsa(s, CurrentTlsa)
    BY <1>1, <1>2, ReplaceFacts
  <2> QED
    BY <2>1, <2>2, <2>3 DEF Announces, OnlyWanted, Block, SameTlsa
<1>3. CASE Block(c, b).names[i] # Block(cur, bi).names[ni]
  BY <1>1, <1>3, ReplaceFacts
<1> QED
  BY <1>2, <1>3

\* What is announced about an installed certificate stays announced.
LEMMA AnnouncesKept ==
    ASSUME TypeOK, [Next]_vars, NEW c \in Certs, NEW b \in Blocks(c), NEW i \in NamesOf(c, b),
           certFile'[c] = certFile[c], Announces(c, b, i)
    PROVE  Announces(c, b, i)'
<1>0. Wanted(c, b)' = Wanted(c, b) /\ Block(c, b).names[i] \in Names
  BY ConfigFacts DEF Wanted, TlsaFromCert, TlsaFromKey, Block
<1> DEFINE n == Block(c, b).names[i]
<1>1. CASE dns' = dns
  BY <1>0, <1>1 DEF Announces, Block, SameTlsa
<1>2. CASE Here /\ Create(Block(cur, bi).names[ni], TlsaFromKey(key))
  <2>1. dns[n] \subseteq dns'[n]
    BY <1>0, <1>2 DEF Create, TypeOK, DiskOK
  <2> QED
    BY <1>0, <2>1 DEF Announces, Block, SameTlsa
<1>3. CASE Here /\ certFile' = certFile /\ Replace(Block(cur, bi).names[ni], CurrentTlsa)
  BY <1>0, <1>3, ReplaceHere DEF Announces, Block, SameTlsa
<1>4. CASE Tick
  BY <1>0, <1>4, TickRecords DEF Announces, Block, SameTlsa
<1> QED
  BY <1>1, <1>2, <1>3, <1>4, ZoneSteps

\* At a name that is not pre-published nothing is announced but by a replacement.
LEMMA OnlyWantedKept ==
    ASSUME TypeOK, [Next]_vars, NEW c \in Certs, NEW b \in Blocks(c), NEW i \in NamesOf(c, b),
           certFile'[c] = certFile[c], OnlyWanted(c, b, i), ~PrePublished(c, b)
    PROVE  OnlyWanted(c, b, i)'
<1>0. Wanted(c, b)' = Wanted(c, b) /\ Block(c, b).names[i] \in Names
  BY ConfigFacts DEF Wanted, TlsaFromCert, TlsaFromKey, Block
<1> DEFINE n == Block(c, b).names[i]
<1>1. CASE dns' = dns
  BY <1>0, <1>1 DEF OnlyWanted, Block, SameTlsa
<1>2. CASE Here /\ PrePublished(cur, bi) /\ Create(Block(cur, bi).names[ni], TlsaFromKey(key))
  <2>1. Block(cur, bi).names[ni] # n
    BY <1>2, UniqueName DEF Here
  <2>2. dns'[n] = dns[n]
    BY <1>0, <1>2, <2>1 DEF Create, TypeOK, DiskOK
  <2> QED
    BY <1>0, <2>2 DEF OnlyWanted, Block, SameTlsa
<1>3. CASE Here /\ certFile' = certFile /\ Replace(Block(cur, bi).names[ni], CurrentTlsa)
  BY <1>0, <1>3, ReplaceHere DEF OnlyWanted, Block, SameTlsa
<1>4. CASE Tick
  BY <1>0, <1>4, TickRecords DEF OnlyWanted, Block, SameTlsa
<1> QED
  BY <1>1, <1>2, <1>3, <1>4, ZoneSteps

-----------------------------------------------------------------------------
(***************************************************************************)
(* Zero downtime.                                                          *)
(***************************************************************************)
\* A certificate file is lost only in a write that fails or is interrupted.
LEMMA NotLost ==
    ASSUME SafeWrites, TypeOK, [Next]_vars, NEW c \in Certs, certFile[c] # None
    PROVE  certFile'[c] # None
<1>1. CASE RunSteps \/ DetermineKey \/ PrePublishSteps \/ DanePublishSteps \/ Tick
  BY <1>1, RunFacts, DetermineFacts, PreFacts, DaneFacts, TickFacts DEF disk
<1>2. CASE (\E cm \in Commands : Start(cm)) \/ (\E d \in Certs : BecomesDue(d)) \/ UNCHANGED vars
  BY <1>2, WorldFacts DEF disk
<1>3. CASE IssueSteps
  <2>1. CASE WriteCert
    <3>1. PICK s \in FreshSerials(cur) :
            certFile' = [certFile EXCEPT ![cur] = [key |-> key, serial |-> s]]
      BY <2>1 DEF WriteCert
    <3>2. [key |-> key, serial |-> s] \in Cert
      BY <2>1, FreshSerialsType DEF WriteCert, Cert, TypeOK, PositionOK, ProcessOK
    <3>3. certFile'[c] = certFile[c] \/ certFile'[c] = [key |-> key, serial |-> s]
      BY <3>1 DEF TypeOK, DiskOK
    <3> QED
      BY <3>2, <3>3, MarkersAssumption DEF Cert
  <2>2. ~WriteCert /\ ~WriteCertFails => certFile' = certFile
    BY <1>3 DEF IssueSteps, Order, OrderFails, SaveKey, SaveKeyFails, Permissions,
       PermissionsFail, PublishTlsa, PublishTlsaFails, RunInlineHooks, InlineHooksFail, disk
  <2> QED
    BY <2>1, <2>2, Unbroken
<1> QED
  BY Groups, Unbroken, <1>1, <1>2, <1>3

\* An spki name of a certificate that keeps its key announces nothing, or the key of
\* the certificate that is installed.
ZeroInv ==
    \A c \in Certs : \A b \in Blocks(c) : \A i \in NamesOf(c, b) :
      ~RotateKey[c] /\ Block(c, b).selector = "spki" =>
        \/ dns[Block(c, b).names[i]] = {}
        \/ certFile[c] # None /\ Announces(c, b, i)

\* An empty name of a certificate that does not rotate is filled by a replacement only.
LEMMA EmptyNext ==
    ASSUME TypeOK, RotatesInv, [Next]_vars, NEW c \in Certs, NEW b \in Blocks(c), NEW i \in NamesOf(c, b),
           ~RotateKey[c], dns[Block(c, b).names[i]] = {}
    PROVE  \/ dns'[Block(c, b).names[i]] = {}
           \/ certFile' = certFile /\ certFile[c] # None /\ Announces(c, b, i)'
<1> DEFINE n == Block(c, b).names[i]
<1>0. n \in Names
  BY ConfigFacts
<1>1. CASE pc = "add_tlsa" /\ Here /\ Create(Block(cur, bi).names[ni], TlsaFromKey(key))
  <2>1. RotateKey[cur]
    BY <1>1 DEF RotatesInv, Preparing
  <2>2. Block(cur, bi).names[ni] # n
    BY <1>1, <2>1, UniqueName DEF Here
  <2> QED
    BY <1>0, <1>1, <2>2 DEF Create, TypeOK, DiskOK
<1>2. CASE Here /\ certFile[cur] # None /\ certFile' = certFile
           /\ Replace(Block(cur, bi).names[ni], CurrentTlsa)
  BY <1>2, ReplaceHere
<1>3. CASE Tick
  BY <1>0, <1>3, TickRecords
<1> QED
  BY <1>1, <1>2, <1>3, ZoneSteps

\* Every step keeps this.
LEMMA ZeroNext ==
    ASSUME SafeWrites, TypeOK, RotatesInv, KeptInv, ZeroInv, [Next]_vars
    PROVE  ZeroInv'
<1> SUFFICES ASSUME NEW c \in Certs, NEW b \in Blocks(c), NEW i \in NamesOf(c, b),
                    ~RotateKey[c], Block(c, b).selector = "spki"
             PROVE  \/ dns'[Block(c, b).names[i]] = {}
                    \/ certFile'[c] # None /\ Announces(c, b, i)'
  BY DEF ZeroInv, Block, Blocks, NamesOf
<1>1. CASE dns[Block(c, b).names[i]] = {}
  BY <1>1, EmptyNext
<1>2. CASE certFile[c] # None /\ Announces(c, b, i)
  <2>1. certFile'[c] # None
    BY <1>2, NotLost
  <2>2. CASE certFile'[c] = certFile[c]
    BY <1>2, <2>1, <2>2, AnnouncesKept
  <2>3. CASE certFile'[c] # certFile[c]
    <3>1. pc = "write_cert" /\ c = cur /\ certFile'[c].key = key /\ dns' = dns
      BY <2>1, <2>3, Installs DEF WriteCert
    <3>2. certFile'[c].key = certFile[c].key
      BY <1>2, <3>1 DEF KeptInv
    <3>3. Wanted(c, b)' = Wanted(c, b)
      BY <3>2 DEF Wanted, TlsaFromCert, TlsaFromKey, Block
    <3> QED
      BY <1>2, <2>1, <3>1, <3>3 DEF Announces, Block, SameTlsa
  <2> QED
    BY <2>2, <2>3
<1> QED
  BY <1>1, <1>2 DEF ZeroInv

\* Initially the records are those of the installed certificates.
LEMMA RecordsInit ==
    ASSUME Init, NEW c \in Certs, NEW b \in Blocks(c), NEW i \in NamesOf(c, b)
    PROVE  \A r \in dns[Block(c, b).names[i]] : certFile[c] # None /\ SameTlsa(r, Wanted(c, b))
<1> SUFFICES ASSUME NEW r \in dns[Block(c, b).names[i]]
             PROVE  certFile[c] # None /\ SameTlsa(r, Wanted(c, b))
  OBVIOUS
<1>0. Block(c, b).names[i] \in Names
  BY ConfigFacts
<1>1. PICK d \in Certs : \E e \in Blocks(d) :
           /\ \E j \in NamesOf(d, e) : Block(c, b).names[i] = Block(d, e).names[j]
           /\ certFile[d] # None
           /\ SameTlsa(r, TlsaFromCert(certFile[d], Block(d, e).selector))
  BY <1>0 DEF Init
<1>2. PICK e \in Blocks(d) :
           /\ \E j \in NamesOf(d, e) : Block(c, b).names[i] = Block(d, e).names[j]
           /\ certFile[d] # None
           /\ SameTlsa(r, TlsaFromCert(certFile[d], Block(d, e).selector))
  BY <1>1
<1>3. PICK j \in NamesOf(d, e) : Block(c, b).names[i] = Block(d, e).names[j]
  BY <1>2
<1>4. c = d /\ b = e
  BY <1>3, UniqueName
<1> QED
  BY <1>2, <1>4 DEF Wanted

\* Initially this holds.
LEMMA ZeroInit == Init => ZeroInv
  BY RecordsInit DEF ZeroInv, Announces

\* At every moment, also in the middle of a run, an spki name of a certificate that keeps
\* its key announces that key or nothing, with any number of certificates, blocks and
\* names, whatever orders, DNS updates, permissions and hooks fail.
THEOREM NoDowntime ==
    SafeWrites /\ "load_key" \notin Faults => (Spec => []ZeroDowntime)
<1> SUFFICES ASSUME SafeWrites, "load_key" \notin Faults
             PROVE  Spec => []ZeroDowntime
  OBVIOUS
<1> DEFINE All == KeyInv /\ RotatesInv /\ KeptInv /\ ZeroInv
<1>1. TypeOK /\ All /\ [Next]_vars => All'
  BY KeyNext, RotatesNext, KeptNext, ZeroNext
<1>2. Init => All
  BY KeyInit, NewInit, ZeroInit
<1>3. TypeOK /\ All => ZeroDowntime
  <2> SUFFICES ASSUME TypeOK, All, NEW c \in Certs, NEW b \in Blocks(c), NEW i \in NamesOf(c, b),
                      Block(c, b).selector = "spki", ~RotateKey[c]
               PROVE  \/ dns[Block(c, b).names[i]] = {}
                      \/ PublishedFor(dns, Block(c, b).names[i], certFile[c].key, 0)
    BY DEF ZeroDowntime
  <2>1. CASE Announces(c, b, i)
    <3>1. PICK r \in dns[Block(c, b).names[i]] : SameTlsa(r, Wanted(c, b))
      BY <2>1 DEF Announces
    <3>2. r.selector = "spki" /\ r.key = certFile[c].key
      BY <3>1 DEF Wanted, TlsaFromCert, TlsaFromKey, SameTlsa
    <3>3. r.age \in Nat
      <4>1. Block(c, b).names[i] \in Names
        BY ConfigFacts
      <4>2. r \in Tlsa
        BY <4>1 DEF TypeOK, DiskOK
      <4> QED
        BY <4>2, CountsAssumption DEF Tlsa, Ages
    <3> QED
      BY <3>1, <3>2, <3>3 DEF PublishedFor
  <2> QED
    BY <2>1 DEF ZeroInv
<1> QED
  BY <1>1, <1>2, <1>3, TypeCorrect, PTL DEF Spec

-----------------------------------------------------------------------------
(***************************************************************************)
(* The names a process has gone through.                                   *)
(***************************************************************************)
\* The name i of the block b comes before the position of the process.
Before(b, i) == b < bi \/ (b = bi /\ i < ni)

\* The loops over blocks and names leave none out.
LEMMA NextBefore ==
    ASSUME TypeOK, Here, NEW l, NextName(l), NEW b \in Blocks(cur), NEW i \in NamesOf(cur, b), Before(b, i)'
    PROVE  Before(b, i) \/ (b = bi /\ i = ni)
<1>1. Len(Dane[cur]) \in Nat /\ Len(Block(cur, bi).names) \in Nat /\ Len(Block(cur, b).names) \in Nat
  BY ConfigFacts DEF Here
<1>2. b \in Nat /\ i \in Nat /\ i >= 1 /\ i <= Len(Block(cur, b).names)
  BY <1>1 DEF Blocks, NamesOf, Block
<1>3. bi \in Nat /\ ni \in Nat /\ ni <= Len(Block(cur, bi).names)
  BY <1>1 DEF Here, Blocks, NamesOf, Block
<1>4. \/ ni' = ni + 1 /\ bi' = bi
      \/ ni' = 1 /\ bi' = bi + 1 /\ ~(ni < Len(Block(cur, bi).names))
  BY DEF NextName
<1>5. b < bi' \/ (b = bi' /\ i < ni')
  BY DEF Before
<1>6. b = bi => Len(Block(cur, b).names) = Len(Block(cur, bi).names)
  OBVIOUS
<1> QED
  BY <1>1, <1>2, <1>3, <1>4, <1>5, <1>6 DEF Before

\* At the first name of the first block nothing is before, past the last block all is.
LEMMA Ends ==
    ASSUME TypeOK, NEW c \in Certs, NEW b \in Blocks(c), NEW i \in NamesOf(c, b)
    PROVE  /\ bi = 1 /\ ni = 1 => ~Before(b, i)
           /\ pc \in {"publish", "dp_replace"} /\ bi \notin Blocks(cur) /\ c = cur => Before(b, i)
<1>1. Len(Dane[c]) \in Nat /\ Len(Dane[c][b].names) \in Nat
  BY ConfigFacts DEF Block
<1>2. b \in Nat /\ b >= 1 /\ i \in Nat /\ i >= 1 /\ b <= Len(Dane[c])
  BY <1>1 DEF Blocks, NamesOf
<1>3. bi = 1 /\ ni = 1 => ~Before(b, i)
  BY <1>2 DEF Before
<1>4. pc \in {"publish", "dp_replace"} /\ bi \notin Blocks(cur) /\ c = cur => bi = Len(Dane[c]) + 1
  BY <1>1 DEF TypeOK, PositionOK, Blocks
<1> QED
  BY <1>1, <1>2, <1>3, <1>4 DEF Before

-----------------------------------------------------------------------------
(***************************************************************************)
(* After a run, the records are those of the installed certificates.       *)
(***************************************************************************)
\* While a certificate is being written and published, the names that are still to come
\* may announce the old one.
SettledInv ==
    \A c \in Certs : \A b \in Blocks(c) : \A i \in NamesOf(c, b) :
      (/\ certFile[c] # None /\ ~PrePublished(c, b)
       /\ Written /\ c = cur => pc = "publish" /\ Before(b, i))
      => OnlyWanted(c, b, i)

\* Every step keeps this.
LEMMA SettledNext ==
    ASSUME SafeWrites, "dns" \notin Faults, "perm" \notin Faults, TypeOK, SettledInv, [Next]_vars
    PROVE  SettledInv'
<1> SUFFICES ASSUME NEW c \in Certs, NEW b \in Blocks(c), NEW i \in NamesOf(c, b),
                    certFile'[c] # None, ~PrePublished(c, b),
                    Written' /\ c = cur' => pc' = "publish" /\ Before(b, i)'
             PROVE  OnlyWanted(c, b, i)'
  BY DEF SettledInv, Block, Blocks, NamesOf, PrePublished
<1>1. CASE certFile'[c] # certFile[c]
  <2>1. WriteCert /\ c = cur
    BY <1>1, Installs
  <2>2. cur' = cur /\ pc' \in {"save_key", "perms"}
    BY <2>1 DEF WriteCert, Goto
  <2> QED
    BY <2>1, <2>2 DEF Written
<1>2. CASE certFile'[c] = certFile[c] /\ (Written /\ c = cur => pc = "publish" /\ Before(b, i))
  <2>1. OnlyWanted(c, b, i)
    BY <1>2 DEF SettledInv
  <2> QED
    BY <1>2, <2>1, OnlyWantedKept
<1>3. CASE Written /\ c = cur /\ ~(pc = "publish" /\ Before(b, i))
  <2>1. CASE IssueSteps
    <3>1. CASE PublishTlsa
      <4>1. /\ Here /\ certFile' = certFile /\ cur' = cur /\ pc = "publish" /\ pc' = "publish"
            /\ Replace(Block(cur, bi).names[ni], CurrentTlsa) /\ NextName("publish")
        BY <3>1 DEF PublishTlsa, NextName, Goto, disk, Here, TypeOK, PositionOK
      <4>2. Before(b, i)'
        BY <1>3, <4>1 DEF Written
      <4>3. b = bi /\ i = ni
        BY <1>3, <4>1, <4>2, NextBefore
      <4> QED
        BY <1>3, <4>1, <4>3, ReplaceHere
    <3>2. ~SaveKey
      BY <1>3 DEF SaveKey, Goto, Written
    <3>3. ~Permissions
      <4>1. Permissions => pc' = "publish" /\ cur' = cur /\ bi' = 1 /\ ni' = 1
        BY DEF Permissions, Goto, frame, TypeOK, PositionOK
      <4>2. Permissions => ~Before(b, i)'
        BY <4>1, Ends DEF Before, Permissions, frame
      <4> QED
        BY <1>3, <4>1, <4>2 DEF Written
    <3>4. ~RunInlineHooks /\ ~InlineHooksFail
      BY <1>3, Ends DEF RunInlineHooks, InlineHooksFail
    <3>5. ~Order /\ ~OrderFails /\ ~WriteCert /\ ~PermissionsFail /\ ~PublishTlsaFails
      BY <1>3 DEF Order, OrderFails, WriteCert, PermissionsFail, PublishTlsaFails, Written
    <3> QED
      BY <2>1, <3>1, <3>2, <3>3, <3>4, <3>5, Unbroken DEF IssueSteps
  <2>2. ~RunSteps /\ ~DetermineKey /\ ~PrePublishSteps /\ ~DanePublishSteps
    BY <1>3, RunFacts, DetermineFacts, PreFacts, DaneFacts DEF Written, Preparing
  <2>3. CASE Tick \/ (\E cm \in Commands : Start(cm)) \/ (\E d \in Certs : BecomesDue(d)) \/ UNCHANGED vars
    <3>1. UNCHANGED <<pc, cur, bi, ni>>
      BY <1>3, <2>3, TickFacts, WorldFacts DEF Written, frame
    <3> QED
      BY <1>3, <3>1 DEF Written, Before
  <2> QED
    BY <2>1, <2>2, <2>3, Groups, Unbroken
<1> QED
  BY <1>1, <1>2, <1>3

\* Initially the records are those of the installed certificates.
LEMMA SettledInit == Init => SettledInv
  BY RecordsInit DEF SettledInv, OnlyWanted

\* When no process runs, a name that is not pre-published announces the installed
\* certificate and no other, with any number of certificates, blocks and names: a run
\* that gets past the files reaches every name of the certificate.  Orders, keys and
\* hooks may fail.
THEOREM RecordsSettle ==
    SafeWrites /\ "dns" \notin Faults /\ "perm" \notin Faults => (Spec => []DaneSettled)
<1> SUFFICES ASSUME SafeWrites, "dns" \notin Faults, "perm" \notin Faults
             PROVE  Spec => []DaneSettled
  OBVIOUS
<1>1. TypeOK /\ SettledInv /\ [Next]_vars => SettledInv'
  BY SettledNext
<1>2. SettledInv => DaneSettled
  BY DEF SettledInv, DaneSettled, OnlyWanted, Wanted, Written
<1> QED
  BY <1>1, <1>2, SettledInit, TypeCorrect, PTL DEF Spec

-----------------------------------------------------------------------------
(***************************************************************************)
(* dane-check after dane-publish, and after a renewal.                     *)
(***************************************************************************)
\* dane-check is content with a certificate when every name announces it.
LEMMA CheckCertMeans ==
    ASSUME NEW c \in Certs
    PROVE  CheckCert(c) <=>
             (certFile[c] # None => \A b \in Blocks(c) : \A i \in NamesOf(c, b) : Announces(c, b, i))
  BY DEF CheckCert, CheckName, QueryTlsa, Announces, Wanted

\* It stays content for as long as the certificate is the same.
LEMMA CheckCertKept ==
    ASSUME TypeOK, [Next]_vars, NEW c \in Certs, certFile' = certFile, CheckCert(c)
    PROVE  CheckCert(c)'
<1>1. CASE certFile[c] = None
  BY <1>1 DEF CheckCert
<1>2. CASE certFile[c] # None
  <2>1. \A b \in Blocks(c) : \A i \in NamesOf(c, b) : Announces(c, b, i)'
    BY <1>2, CheckCertMeans, AnnouncesKept
  <2> QED
    BY <1>2, <2>1 DEF CheckCert, CheckName, QueryTlsa, Announces, Wanted, Block, Blocks, NamesOf,
       TlsaFromCert, TlsaFromKey, SameTlsa
<1> QED
  BY <1>1, <1>2

\* The process is publishing the records of the certificate that it is at.
Publishing == pc = "publish" \/ (pc = "dp_replace" /\ ~cmd.dry)

\* dane-publish has done the certificates before the current one, and it or a renewal
\* has done the names before the current one.
CheckInv ==
    /\ pc = "idle" => cur = 1
    /\ pc \in {"dp_cert", "dp_replace"} /\ ~cmd.dry =>
         \A c \in Certs : c < cur /\ ~Filtered(c) => CheckCert(c)
    /\ Publishing =>
         \A b \in Blocks(cur) : \A i \in NamesOf(cur, b) : Before(b, i) => Announces(cur, b, i)

\* Time and new windows change nothing of this.
LEMMA CheckSame ==
    ASSUME TypeOK, CheckInv, [Next]_vars, UNCHANGED <<pc, cmd, cur, bi, ni, certFile>>
    PROVE  CheckInv'
<1>1. pc' = "idle" => cur' = 1
  BY DEF CheckInv
<1>2. ASSUME pc \in {"dp_cert", "dp_replace"}, ~cmd.dry, NEW c \in Certs, c < cur, ~Filtered(c)
      PROVE  CheckCert(c)'
  BY <1>2, CheckCertKept DEF CheckInv
<1>3. ASSUME Publishing, NEW b \in Blocks(cur), NEW i \in NamesOf(cur, b), Before(b, i)
      PROVE  Announces(cur, b, i)'
  <2>1. cur \in Certs
    BY <1>3 DEF Publishing, TypeOK, PositionOK
  <2>2. certFile'[cur] = certFile[cur] /\ Announces(cur, b, i)
    BY <1>3 DEF CheckInv
  <2> QED
    BY <1>3, <2>1, <2>2, AnnouncesKept
<1>4. Publishing' => \A b \in Blocks(cur') : \A i \in NamesOf(cur', b) :
                       Before(b, i)' => Announces(cur, b, i)'
  BY <1>3 DEF Publishing, Before, Blocks, NamesOf
<1>5. Publishing' => (\A b \in Blocks(cur) : \A i \in NamesOf(cur, b) :
                       Before(b, i) => Announces(cur, b, i))'
  BY <1>4 DEF Announces, Wanted, Blocks, NamesOf
<1> QED
  BY <1>1, <1>2, <1>5 DEF CheckInv, Filtered

\* A replacement and the step to the next name.
LEMMA CheckReplace ==
    ASSUME TypeOK, CheckInv, [Next]_vars, Publishing, Here, certFile' = certFile, cur' = cur, NEW l,
           NextName(l), Replace(Block(cur, bi).names[ni], CurrentTlsa)
    PROVE  \A b \in Blocks(cur) : \A i \in NamesOf(cur, b) : Before(b, i)' => Announces(cur, b, i)'
<1> SUFFICES ASSUME NEW b \in Blocks(cur), NEW i \in NamesOf(cur, b), Before(b, i)'
             PROVE  Announces(cur, b, i)'
  OBVIOUS
<1>0. cur \in Certs
  BY DEF Here
<1>1. Before(b, i) \/ (b = bi /\ i = ni)
  BY NextBefore
<1>2. CASE Before(b, i)
  <2>1. Announces(cur, b, i) /\ certFile'[cur] = certFile[cur]
    BY <1>2 DEF CheckInv
  <2> QED
    BY <1>0, <2>1, AnnouncesKept
<1>3. CASE b = bi /\ i = ni
  BY <1>0, <1>3, ReplaceHere
<1> QED
  BY <1>1, <1>2, <1>3

\* The steps of dane-publish.
LEMMA CheckDane ==
    ASSUME "dns" \notin Faults, TypeOK, CheckInv, [Next]_vars, DanePublishSteps
    PROVE  CheckInv'
<1>0. certFile' = certFile
  BY DaneFacts DEF disk
<1>1. CASE Exit
  BY <1>1 DEF Exit, CheckInv, Publishing
<1>2. CASE DanePublishReplace
  <2>1. /\ pc = "dp_replace" /\ pc' = "dp_replace" /\ UNCHANGED <<cur, cmd>> /\ Here
        /\ NextName("dp_replace")
        /\ ~cmd.dry => Replace(Block(cur, bi).names[ni], CurrentTlsa)
    BY <1>2 DEF DanePublishReplace, NextName, Goto, Here, TypeOK, PositionOK
  <2>2. ASSUME ~cmd.dry, NEW c \in Certs, c < cur, ~Filtered(c)
        PROVE  CheckCert(c)'
    BY <1>0, <2>1, <2>2, CheckCertKept DEF CheckInv
  <2>3. ASSUME ~cmd.dry
        PROVE  \A b \in Blocks(cur) : \A i \in NamesOf(cur, b) : Before(b, i)' => Announces(cur, b, i)'
    BY <1>0, <2>1, <2>3, CheckReplace DEF Publishing
  <2>4. ~cmd.dry => (\A b \in Blocks(cur) : \A i \in NamesOf(cur, b) :
                       Before(b, i) => Announces(cur, b, i))'
    BY <2>1, <2>3 DEF Announces, Wanted, Blocks, NamesOf
  <2> QED
    BY <2>1, <2>2, <2>4 DEF CheckInv, Filtered, Publishing
<1>3. CASE DanePublishSkip \/ DanePublishNext
  <2>1. /\ cur \in Certs /\ cur' = cur + 1 /\ pc' = "dp_cert" /\ cmd' = cmd /\ pc \in {"dp_cert", "dp_replace"}
    BY <1>3 DEF DanePublishSkip, DanePublishNext, run, TypeOK, PositionOK
  <2>2. ASSUME ~cmd.dry, ~Filtered(cur) PROVE CheckCert(cur)
    <3>1. CASE DanePublishSkip
      <4>1. Dane[cur] = <<>>
        BY <2>2, <3>1 DEF DanePublishSkip
      <4>2. Blocks(cur) = {}
        BY <4>1 DEF Blocks
      <4> QED
        BY <4>2 DEF CheckCert
    <3>2. CASE DanePublishNext
      <4>1. pc = "dp_replace" /\ bi \notin Blocks(cur)
        BY <3>2 DEF DanePublishNext
      <4>2. \A b \in Blocks(cur) : \A i \in NamesOf(cur, b) : Before(b, i)
        BY <2>1, <4>1, Ends
      <4>3. \A b \in Blocks(cur) : \A i \in NamesOf(cur, b) : Announces(cur, b, i)
        BY <2>2, <4>1, <4>2 DEF CheckInv, Publishing
      <4> QED
        BY <2>1, <4>3, CheckCertMeans
    <3> QED
      BY <1>3, <3>1, <3>2
  <2>3. ASSUME ~cmd.dry, NEW c \in Certs, c < cur + 1, ~Filtered(c)
        PROVE  CheckCert(c)'
    <3>1. c < cur \/ c = cur
      BY <2>1, <2>3, CountsAssumption DEF Certs
    <3>2. CheckCert(c)
      BY <2>1, <2>2, <2>3, <3>1 DEF CheckInv
    <3> QED
      BY <1>0, <3>2, CheckCertKept
  <2> QED
    BY <2>1, <2>3 DEF CheckInv, Filtered, Publishing
<1>4. CASE DanePublishLoad /\ ~Exit
  <2>1. /\ pc = "dp_cert" /\ pc' = "dp_replace" /\ UNCHANGED <<cur, cmd, dns>> /\ cur \in Certs
        /\ bi = 1 /\ ni = 1 /\ bi' = 1 /\ ni' = 1
    BY <1>4 DEF DanePublishLoad, Goto, frame, world, TypeOK, PositionOK
  <2>2. ASSUME ~cmd.dry, NEW c \in Certs, c < cur, ~Filtered(c)
        PROVE  CheckCert(c)'
    BY <1>0, <2>1, <2>2, CheckCertKept DEF CheckInv
  <2>3. \A b \in Blocks(cur) : \A i \in NamesOf(cur, b) : ~Before(b, i)'
    <3>1. \A b \in Blocks(cur) : \A i \in NamesOf(cur, b) : ~Before(b, i)
      BY <2>1, Ends
    <3> QED
      BY <2>1, <3>1 DEF Before
  <2>4. (\A b \in Blocks(cur) : \A i \in NamesOf(cur, b) : Before(b, i) => Announces(cur, b, i))'
    BY <2>1, <2>3 DEF Blocks, NamesOf
  <2> QED
    BY <2>1, <2>2, <2>4 DEF CheckInv, Filtered, Publishing
<1>5. ~DanePublishFails
  BY DEF DanePublishFails
<1> QED
  BY <1>1, <1>2, <1>3, <1>4, <1>5 DEF DanePublishSteps, DanePublishDone

\* The steps that publish the records of a new certificate.
LEMMA CheckIssue ==
    ASSUME "dns" \notin Faults, TypeOK, CheckInv, [Next]_vars, IssueSteps
    PROVE  CheckInv'
<1>0. cur \in Certs /\ pc' # "idle" /\ pc' \notin {"dp_cert", "dp_replace"}
  BY IssueFacts DEF Issuing, NotRenewed, Renewed, LeaveCert
<1>1. CASE pc' # "publish"
  BY <1>0, <1>1 DEF CheckInv, Publishing
<1>2. CASE Permissions
  <2>1. UNCHANGED <<cur, bi, ni>> /\ bi = 1 /\ ni = 1
    BY <1>2 DEF Permissions, Goto, frame, TypeOK, PositionOK
  <2>2. \A b \in Blocks(cur) : \A i \in NamesOf(cur, b) : ~Before(b, i)
    BY <1>0, <2>1, Ends
  <2>3. (\A b \in Blocks(cur) : \A i \in NamesOf(cur, b) : Before(b, i) => Announces(cur, b, i))'
    BY <2>1, <2>2 DEF Blocks, NamesOf, Before
  <2> QED
    BY <1>0, <2>3 DEF CheckInv, Publishing
<1>3. CASE PublishTlsa
  <2>1. /\ Here /\ certFile' = certFile /\ cur' = cur /\ Publishing
        /\ Replace(Block(cur, bi).names[ni], CurrentTlsa) /\ NextName("publish")
    BY <1>3 DEF PublishTlsa, NextName, Goto, disk, Here, TypeOK, PositionOK, Publishing
  <2>2. \A b \in Blocks(cur) : \A i \in NamesOf(cur, b) : Before(b, i)' => Announces(cur, b, i)'
    BY <2>1, CheckReplace
  <2>3. (\A b \in Blocks(cur) : \A i \in NamesOf(cur, b) : Before(b, i) => Announces(cur, b, i))'
    BY <2>1, <2>2 DEF Announces, Wanted, Blocks, NamesOf
  <2> QED
    BY <1>0, <2>3 DEF CheckInv, Publishing
<1>4. pc' = "publish" => Permissions \/ PublishTlsa
  BY DEF IssueSteps, Order, OrderFails, WriteCert, WriteCertFails, SaveKey, SaveKeyFails,
     PermissionsFail, PublishTlsaFails, RunInlineHooks, InlineHooksFail,
     Goto, NotRenewed, Renewed, LeaveCert
<1> QED
  BY <1>1, <1>2, <1>3, <1>4

\* Every step keeps this.
LEMMA CheckNext ==
    ASSUME "dns" \notin Faults, TypeOK, CheckInv, [Next]_vars
    PROVE  CheckInv'
<1>1. CASE RunSteps \/ DetermineKey \/ PrePublishSteps \/ Crash \/ CrashInWrite
  <2>1. pc' \notin {"dp_cert", "dp_replace", "publish"}
    BY <1>1, RunFacts, DetermineFacts, PreFacts
       DEF Preparing, NotRenewed, LeaveCert, Crash, CrashInWrite, Exit
  <2>2. pc' = "idle" => Exit
    BY <1>1, DetermineFacts, PreFacts DEF Preparing, NotRenewed, LeaveCert, Crash, CrashInWrite,
       RunSteps, LoadState, AcmeNew, AcmeNewFails, SkipCert, CertsDone, WaitForTtl, NotDue,
       MustRenew, SkipHook, RunHook, HookFails, SaveState, SaveStateFails, NextHook, Goto
  <2> QED
    BY <2>1, <2>2 DEF CheckInv, Publishing, Exit
<1>2. CASE \E cm \in Commands : Start(cm)
  <2>1. cur = 1 /\ cur' = 1 /\ pc' \in {"load", "dp_cert"}
    BY <1>2 DEF Start, CheckInv
  <2>2. \A c \in Certs : ~(c < 1)
    BY CountsAssumption DEF Certs
  <2> QED
    BY <2>1, <2>2 DEF CheckInv, Publishing
<1>3. CASE Tick \/ (\E c \in Certs : BecomesDue(c)) \/ UNCHANGED vars
  <2>1. UNCHANGED <<pc, cmd, cur, bi, ni, certFile>>
    BY <1>3, TickFacts DEF run, frame, BecomesDue, vars, disk
  <2> QED
    BY <2>1, CheckSame
<1> QED
  BY Groups, CheckDane, CheckIssue, <1>1, <1>2, <1>3

\* dane-check finds nothing to complain about where dane-publish has come to its end,
\* and where a renewal has published, with any number of certificates, blocks and names,
\* whatever crashes and whichever writes, orders and hooks fail, as long as the DNS
\* servers answer.
THEOREM PublishedIsChecked == "dns" \notin Faults => (Spec => []CheckAgrees)
<1> SUFFICES ASSUME "dns" \notin Faults PROVE Spec => []CheckAgrees
  OBVIOUS
<1>1. TypeOK /\ CheckInv /\ [Next]_vars => CheckInv'
  BY CheckNext
<1>2. TypeOK /\ CheckInv => CheckAgrees
  <2> SUFFICES ASSUME TypeOK, CheckInv PROVE CheckAgrees
    OBVIOUS
  <2>1. ASSUME pc = "dp_cert", cur \notin Certs, ~cmd.dry PROVE DaneCheck(cmd.filter)
    <3>1. \A c \in Certs : c < cur
      BY <2>1, CountsAssumption DEF Certs, TypeOK, ProcessOK
    <3> QED
      BY <2>1, <3>1 DEF CheckInv, DaneCheck, Filtered
  <2>2. ASSUME pc = "publish", bi \notin Blocks(cur) PROVE CheckCert(cur)
    <3>1. cur \in Certs
      BY <2>2 DEF TypeOK, PositionOK
    <3>2. \A b \in Blocks(cur) : \A i \in NamesOf(cur, b) : Before(b, i)
      BY <2>2, <3>1, Ends
    <3>3. \A b \in Blocks(cur) : \A i \in NamesOf(cur, b) : Announces(cur, b, i)
      BY <2>2, <3>2 DEF CheckInv, Publishing
    <3> QED
      BY <3>1, <3>3, CheckCertMeans
  <2> QED
    BY <2>1, <2>2 DEF CheckAgrees
<1>3. Init => CheckInv
  BY DEF Init, CheckInv, Publishing
<1> QED
  BY <1>1, <1>2, <1>3, TypeCorrect, PTL DEF Spec

-----------------------------------------------------------------------------
(***************************************************************************)
(* After a run, the hooks have run.                                        *)
(***************************************************************************)
\* A hook that c still waits for is one that the loop of run() will come to, or one of a
\* certificate that was just written.
Waited(c) ==
    \A h \in owed[c] : (h \in hooksDue /\ h >= hk) \/ (Written /\ c = cur /\ h \in HooksOf(c))

\* Nothing is waited for before the loop over the certificates and in a dry run.
HookInv ==
    /\ pc # "hooks" => hk = 1
    /\ pc \in {"idle", "load", "acme", "dp_cert", "dp_replace"} \/ DryRun => \A c \in Certs : owed[c] = {}
    /\ \A c \in Certs : Waited(c)

\* A step that leaves the hooks alone, outside the writing of a certificate.
LEMMA HookSame ==
    ASSUME HookInv, owed' = owed, hooksDue \subseteq hooksDue', hk' = hk, ~Written,
           pc' # "hooks" => pc # "hooks",
           DryRun' => DryRun,
           pc' \in {"idle", "load", "acme", "dp_cert", "dp_replace"} =>
             pc \in {"idle", "load", "acme", "dp_cert", "dp_replace"}
    PROVE  HookInv'
<1>1. \A c \in Certs : Waited(c)'
  BY DEF HookInv, Waited
<1> QED
  BY <1>1 DEF HookInv

\* The steps of run().
LEMMA HookRun ==
    ASSUME "io" \notin Faults, "hook" \notin Faults, TypeOK, HookInv, RunSteps
    PROVE  HookInv'
<1>0. ~Written /\ ~Written' /\ hooksDue \subseteq 1..NHooks /\ hk \in 1..(NHooks + 1) /\ NHooks \in Nat
  BY RunFacts, CountsAssumption DEF Written, TypeOK, ProcessOK
<1>1. CASE SkipHook \/ RunHook
  <2>1. pc = "hooks" /\ pc' = "hooks" /\ hk' = hk + 1 /\ UNCHANGED <<cmd, cur, hooksDue>>
    BY <1>1 DEF SkipHook, RunHook, NextHook
  <2>2. \A c \in Certs : owed'[c] \subseteq owed[c]
    BY <1>1 DEF SkipHook, RunHook, world
  <2>3. ASSUME NEW c \in Certs, NEW h \in owed'[c] PROVE h \in hooksDue /\ h >= hk + 1
    <3>1. h \in hooksDue /\ h >= hk
      BY <1>0, <2>2, <2>3 DEF HookInv, Waited
    <3>2. h # hk
      <4>1. CASE SkipHook
        BY <3>1, <4>1 DEF SkipHook
      <4>2. CASE RunHook /\ cmd.dry
        BY <2>1, <2>2, <2>3, <4>2 DEF HookInv, DryRun, TypeOK, PositionOK
      <4>3. CASE RunHook /\ ~cmd.dry
        BY <2>3, <4>3 DEF RunHook
      <4> QED
        BY <1>1, <4>1, <4>2, <4>3
    <3>3. h \in Nat /\ hk \in Nat
      BY <1>0, <3>1
    <3> QED
      BY <3>1, <3>2, <3>3
  <2>4. DryRun' => \A c \in Certs : owed'[c] = {}
    BY <2>1, <2>2 DEF HookInv, DryRun
  <2> QED
    BY <2>1, <2>3, <2>4 DEF HookInv, Waited
<1>2. CASE SaveState
  <2>1. Exit /\ owed' = owed /\ hk \notin 1..NHooks
    BY <1>2 DEF SaveState, world
  <2>2. \A c \in Certs : \A h \in owed[c] : h \in hooksDue /\ h >= hk
    BY <1>0 DEF HookInv, Waited
  <2>3. \A h \in hooksDue : ~(h >= hk)
    <3>1. hk = NHooks + 1
      BY <1>0, <2>1
    <3>2. \A h \in hooksDue : h \in 1..NHooks
      BY <1>0
    <3> QED
      BY <1>0, <3>1, <3>2
  <2>4. \A c \in Certs : owed[c] = {}
    BY <2>2, <2>3
  <2> QED
    BY <2>1, <2>4 DEF HookInv, Waited, Exit, DryRun
<1>3. CASE (LoadState \/ AcmeNewFails) /\ Exit
  <2>1. owed' = owed /\ \A c \in Certs : owed[c] = {}
    BY <1>3 DEF LoadState, AcmeNewFails, world, HookInv
  <2> QED
    BY <1>3, <2>1 DEF HookInv, Waited, Exit
<1>4. CASE (LoadState /\ ~Exit) \/ AcmeNew
  BY <1>0, <1>4, HookSame DEF LoadState, AcmeNew, Goto, world, DryRun
<1>5. CASE SkipCert \/ CertsDone \/ WaitForTtl \/ NotDue \/ MustRenew
  <2>1. /\ pc = "cert" /\ pc' \in {"cert", "key", "hooks"} /\ UNCHANGED <<owed, hooksDue, hk, cmd>>
    BY <1>5 DEF SkipCert, CertsDone, WaitForTtl, NotDue, MustRenew, Goto, NotRenewed, LeaveCert, world
  <2> QED
    BY <1>0, <2>1, HookSame DEF DryRun
<1>6. ~HookFails /\ ~SaveStateFails
  BY DEF HookFails, SaveStateFails
<1> QED
  BY <1>1, <1>2, <1>3, <1>4, <1>5, <1>6 DEF RunSteps, AcmeNewFails

\* The steps that issue and install a certificate.
LEMMA HookIssue ==
    ASSUME SafeWrites, "perm" \notin Faults, "hook" \notin Faults, TypeOK, DryInv, HookInv, IssueSteps
    PROVE  HookInv'
<1>0. /\ cur \in Certs /\ cmd' = cmd /\ ~DryRun /\ ~DryRun' /\ hk = 1 /\ hk' = hk
      /\ pc' \notin {"idle", "load", "acme", "hooks", "dp_cert", "dp_replace"}
  BY IssueFacts DEF DryInv, DryRun, HookInv, Issuing, NotRenewed, Renewed, LeaveCert
<1>1. CASE OrderFails
  BY <1>0, <1>1, HookSame DEF OrderFails, NotRenewed, Written, world
<1>2. CASE Order
  BY <1>0, <1>2, HookSame DEF Order, Goto, Written, world
<1>3. CASE WriteCert
  <2>1. /\ owed' = [owed EXCEPT ![cur] = HooksOf(cur)] /\ hooksDue' = hooksDue
        /\ Written' /\ ~Written /\ cur' = cur
    BY <1>3 DEF WriteCert, Goto, Written
  <2>2. \A c \in Certs : Waited(c)'
    <3>1. SUFFICES ASSUME NEW c \in Certs PROVE Waited(c)'
      OBVIOUS
    <3>2. CASE c = cur
      <4>1. owed'[c] = HooksOf(c)
        BY <2>1, <3>2 DEF TypeOK, DiskOK
      <4> QED
        BY <2>1, <3>2, <4>1 DEF Waited, HooksOf
    <3>3. CASE c # cur
      <4>1. owed'[c] = owed[c]
        BY <2>1, <3>3 DEF TypeOK, DiskOK
      <4> QED
        BY <1>0, <2>1, <3>3, <4>1 DEF HookInv, Waited
    <3> QED
      BY <3>2, <3>3
  <2> QED
    BY <1>0, <2>2 DEF HookInv
<1>4. CASE SaveKey \/ Permissions \/ PublishTlsa \/ PublishTlsaFails
  <2>1. UNCHANGED <<owed, hooksDue, cur>> /\ Written /\ Written'
    BY <1>4 DEF SaveKey, Permissions, PublishTlsa, PublishTlsaFails, NextName, Goto, Written, world
  <2>2. \A c \in Certs : Waited(c)'
    BY <1>0, <2>1 DEF HookInv, Waited, HooksOf
  <2> QED
    BY <1>0, <2>2 DEF HookInv
<1>5. CASE RunInlineHooks
  <2>1. /\ owed' = [owed EXCEPT ![cur] = @ \ {Inline}] /\ hooksDue' = hooksDue \cup NamedHooks[cur]
        /\ ~Written'
    BY <1>5 DEF RunInlineHooks, Renewed, LeaveCert, Written
  <2>2. ASSUME NEW c \in Certs, NEW h \in owed'[c] PROVE h \in hooksDue' /\ h >= hk'
    <3>1. h \in owed[c] /\ (c = cur => h # Inline)
      BY <1>0, <2>1, <2>2 DEF TypeOK, DiskOK
    <3>2. (h \in hooksDue /\ h >= hk) \/ (c = cur /\ h \in HooksOf(c))
      <4>1. Waited(c)
        BY DEF HookInv
      <4> QED
        BY <3>1, <4>1 DEF Waited
    <3>3. CASE c = cur /\ h \in HooksOf(c)
      <4>1. h \in NamedHooks[cur]
        BY <3>1, <3>3 DEF HooksOf
      <4>2. h >= 1
        BY <1>0, <4>1, ConfigFacts, CountsAssumption
      <4> QED
        BY <1>0, <2>1, <4>1, <4>2
    <3> QED
      BY <1>0, <2>1, <3>2, <3>3
  <2>3. \A c \in Certs : Waited(c)'
    BY <2>2 DEF Waited
  <2> QED
    BY <1>0, <2>3 DEF HookInv
<1>6. ~PermissionsFail /\ ~InlineHooksFail
  BY DEF PermissionsFail, InlineHooksFail
<1> QED
  BY Unbroken, <1>1, <1>2, <1>3, <1>4, <1>5, <1>6 DEF IssueSteps

\* Every step keeps this.
LEMMA HookNext ==
    ASSUME SafeWrites, "perm" \notin Faults, "hook" \notin Faults, TypeOK, DryInv, HookInv, [Next]_vars
    PROVE  HookInv'
<1>1. CASE RunSteps
  BY <1>1, HookRun DEF SafeWrites
<1>2. CASE DetermineKey
  <2>1. /\ pc = "key" /\ pc' \in {"cert", "order", "write_pending"} /\ UNCHANGED <<owed, cmd>>
    BY <1>2, DetermineFacts DEF world
  <2>2. hooksDue \subseteq hooksDue' /\ hk' = hk
    BY <1>2 DEF DetermineKey, TakePending, TakePendingFails, RotateNow, PrePublishDry, PrePublish,
       LoadKey, GenerateKey, UseKey, Renewed, NotRenewed, LeaveCert, Goto
  <2> QED
    BY <2>1, <2>2, HookSame DEF Written, DryRun
<1>3. CASE PrePublishSteps
  <2>1. /\ UNCHANGED <<owed, cmd, hooksDue, hk>> /\ ~Written /\ pc # "hooks"
        /\ pc' \notin {"idle", "load", "acme", "dp_cert", "dp_replace", "hooks"}
    BY <1>3, PreFacts DEF Preparing, NotRenewed, LeaveCert, Written
  <2> QED
    BY <2>1, HookSame DEF DryRun
<1>4. CASE IssueSteps
  BY <1>4, HookIssue
<1>5. CASE DanePublishSteps
  <2>1. owed' = owed /\ \A c \in Certs : owed[c] = {}
    BY <1>5, DaneFacts DEF HookInv
  <2>2. hk' = 1
    BY <1>5, DaneFacts DEF HookInv, Exit, run
  <2> QED
    BY <2>1, <2>2 DEF HookInv, Waited
<1>6. CASE Tick \/ (\E cm \in Commands : Start(cm)) \/ (\E c \in Certs : BecomesDue(c)) \/ UNCHANGED vars
  <2>1. CASE UNCHANGED <<owed, hooksDue, hk, pc, cmd, cur>>
    BY <2>1 DEF HookInv, Waited, Written, DryRun, HooksOf
  <2>2. CASE UNCHANGED <<owed, hooksDue, hk>> /\ pc = "idle" /\ pc' \in {"load", "dp_cert"}
    <3>1. \A c \in Certs : owed[c] = {}
      BY <2>2 DEF HookInv
    <3> QED
      BY <2>2, <3>1 DEF HookInv, Waited
  <2> QED
    BY <1>6, <2>1, <2>2, TickFacts, WorldFacts DEF run
<1> QED
  BY Groups, Unbroken, <1>1, <1>2, <1>3, <1>4, <1>5, <1>6

\* When no process runs, every hook of every certificate has run since the certificate
\* was written, with any number of certificates and hooks: failed orders, a dead DNS
\* server or the failure of another certificate do not keep a service from loading its
\* certificate.  Writes, permissions and the hooks themselves must not fail, and no
\* process may die: nothing makes up for a hook that was missed.
THEOREM HooksSettle ==
    SafeWrites /\ "perm" \notin Faults /\ "hook" \notin Faults => (Spec => []HooksSettled)
<1> SUFFICES ASSUME SafeWrites, "perm" \notin Faults, "hook" \notin Faults
             PROVE  Spec => []HooksSettled
  OBVIOUS
<1> DEFINE All == DryInv /\ HookInv
<1>1. TypeOK /\ All /\ [Next]_vars => All'
  BY DryNext, HookNext
<1>2. All => HooksSettled
  BY DEF HookInv, HooksSettled
<1>3. Init => All
  BY DEF Init, DryInv, Preparing, Issuing, HookInv, Waited, DryRun
<1> QED
  BY <1>1, <1>2, <1>3, TypeCorrect, PTL DEF Spec

-----------------------------------------------------------------------------
(***************************************************************************)
(* Key rotation with pre-publication is safe: for every configuration and  *)
(* every combination of crashes, failed writes, failed DNS updates, failed *)
(* orders and renew commands, a rotated certificate is installed only when *)
(* its key has been announced for the whole TTL.  The dane-publish command *)
(* is excluded (OnlyRenewals): with it the property does not hold.         *)
(***************************************************************************)

OnlyRenewals == \A cm \in Commands : cm.op = "renew"

Inv == TypeOK /\ RotationInv /\ pc \notin {"dp_cert", "dp_replace"}

-----------------------------------------------------------------------------
(***************************************************************************)
(* Records.  Keeps(d1, d2, c, k): going from d1 to d2, the pre-published   *)
(* names of c lose nothing of what they announce about the key k.          *)
(***************************************************************************)
Keeps(d1, d2, c, k) ==
    \A b \in Blocks(c) : PrePublished(c, b) =>
      \A i \in NamesOf(c, b) : \A a :
        PublishedFor(d1, Block(c, b).names[i], k, a)
          => PublishedFor(d2, Block(c, b).names[i], k, a)

\* A zone keeps what it announces when it does not change.
LEMMA KeepsSame == \A d, c, k : Keeps(d, d, c, k)
  BY DEF Keeps

\* What a zone keeps, the pending rotation it backs keeps too.
LEMMA KeepsBacked ==
    ASSUME NEW d1, NEW d2, NEW c, NEW k, NEW p,
           Keeps(d1, d2, c, k), BackedBy(d1, k, c, p)
    PROVE  BackedBy(d2, k, c, p)
  BY DEF Keeps, BackedBy

\* A key that every pre-published name has announced for its TTL stays so.
LEMMA KeepsAged ==
    ASSUME NEW d1, NEW d2, NEW c, NEW k, Keeps(d1, d2, c, k), AgedFor(d1, k, c)
    PROVE  AgedFor(d2, k, c)
  BY DEF Keeps, AgedFor

\* What the pre-publication has announced so far stays announced.
LEMMA KeepsAnnounced ==
    ASSUME NEW d1, NEW d2, NEW c, NEW k, NEW t, NEW b0, NEW i0,
           Keeps(d1, d2, c, k), AnnouncedUpTo(d1, k, c, t, b0, i0)
    PROVE  AnnouncedUpTo(d2, k, c, t, b0, i0)
  BY DEF Keeps, AnnouncedUpTo

\* client.create only adds.
LEMMA CreateKeeps ==
    ASSUME DiskOK, NEW n \in Names, NEW r, Create(n, r)
    PROVE  /\ \A c \in Certs : \A k : Keeps(dns, dns', c, k)
           /\ r \in dns'[n]
<1>1. \A m \in Names : dns[m] \subseteq dns'[m]
  BY DEF DiskOK, Create
<1>2. r \in dns'[n]
  BY DEF DiskOK, Create
<1>3. ASSUME NEW c \in Certs, NEW k PROVE Keeps(dns, dns', c, k)
  BY <1>1, ConfigFacts DEF Keeps, PublishedFor
<1> QED
  BY <1>2, <1>3

\* Replacing the records of a name of the current certificate by the one of the
\* key k keeps what is announced about k, and touches no other certificate.
LEMMA ReplaceKeeps ==
    ASSUME DiskOK, cur \in Certs, bi \in Blocks(cur), ni \in NamesOf(cur, bi),
           certFile[cur] # None,
           Replace(Block(cur, bi).names[ni], CurrentTlsa)
    PROVE  /\ \A c \in Certs : c # cur => \A k : Keeps(dns, dns', c, k)
           /\ Keeps(dns, dns', cur, certFile[cur].key)
<1> DEFINE n == Block(cur, bi).names[ni]
<1>1. n \in Names /\ CurrentTlsa \in Tlsa /\ certFile[cur] \in Cert
  BY ConfigFacts, CurrentTlsaType DEF DiskOK
<1>2. \A m \in Names : m # n => dns'[m] = dns[m]
  BY <1>1 DEF Replace, DiskOK
<1>3. ASSUME NEW c \in Certs, NEW b \in Blocks(c), NEW i \in NamesOf(c, b),
             Block(c, b).names[i] = n
      PROVE  c = cur /\ b = bi /\ i = ni
  BY <1>3, NamesDistinct DEF Blocks, NamesOf, Block
<1>4. ASSUME NEW c \in Certs, c # cur, NEW k PROVE Keeps(dns, dns', c, k)
  BY <1>2, <1>3, <1>4, ConfigFacts DEF Keeps, PublishedFor
<1>5. ASSUME NEW b \in Blocks(cur), PrePublished(cur, b), NEW i \in NamesOf(cur, b),
             NEW a, PublishedFor(dns, Block(cur, b).names[i], certFile[cur].key, a)
      PROVE  PublishedFor(dns', Block(cur, b).names[i], certFile[cur].key, a)
  <2>1. CASE Block(cur, b).names[i] # n
    BY <1>2, <1>5, <2>1, ConfigFacts DEF PublishedFor
  <2>2. CASE Block(cur, b).names[i] = n
    <3>1. b = bi /\ i = ni
      BY <1>3, <2>2
    <3>2. CurrentTlsa = TlsaFromKey(certFile[cur].key)
      BY <1>5, <3>1 DEF CurrentTlsa, TlsaFromCert, PrePublished
    <3>3. PICK s \in dns[n] : s.selector = "spki" /\ s.key = certFile[cur].key /\ s.age >= a
      BY <1>5, <2>2 DEF PublishedFor
    <3>4. s \in Tlsa
      BY <1>1, <3>3 DEF DiskOK
    <3>5. SameTlsa(CurrentTlsa, s)
      BY <3>2, <3>3, <3>4 DEF SameTlsa, TlsaFromKey, Tlsa
    <3>6. s \in dns'[n]
      BY <1>1, <3>3, <3>5 DEF Replace, DiskOK
    <3> QED
      BY <2>2, <3>3, <3>6 DEF PublishedFor
  <2> QED
    BY <2>1, <2>2
<1>6. Keeps(dns, dns', cur, certFile[cur].key)
  BY <1>5 DEF Keeps
<1> QED
  BY <1>4, <1>6

\* Time only adds to the ages, and not less than to the clock of a rotation.
LEMMA TickKeeps ==
    ASSUME DiskOK, Tick
    PROVE  \A k : \A n \in Names, a \in Ages :
             PublishedFor(dns, n, k, a) =>
               PublishedFor(dns', n, k, a) /\ PublishedFor(dns', n, k, Older(a))
<1> SUFFICES ASSUME NEW n \in Names, NEW k, NEW a \in Ages, PublishedFor(dns, n, k, a)
             PROVE  PublishedFor(dns', n, k, a) /\ PublishedFor(dns', n, k, Older(a))
  OBVIOUS
<1>1. PICK r \in dns[n] : r.selector = "spki" /\ r.key = k /\ r.age >= a
  BY DEF PublishedFor
<1>2. r \in Tlsa /\ r.age \in Ages
  BY <1>1 DEF DiskOK, Tlsa
<1> DEFINE s == [r EXCEPT !.age = Older(@)]
<1>3. s \in dns'[n]
  BY <1>1 DEF Tick
<1>4. s.selector = "spki" /\ s.key = k /\ s.age = Older(r.age)
  BY <1>1, <1>2 DEF Tlsa
<1>5. Older(r.age) >= a /\ Older(r.age) >= Older(a)
  BY <1>1, <1>2, CountsAssumption DEF Older, Ages
<1> QED
  BY <1>3, <1>4, <1>5 DEF PublishedFor

-----------------------------------------------------------------------------
(***************************************************************************)
(* RotationInv at the ends of the certificate and of the process.          *)
(***************************************************************************)
\* The process ends: only what is on disk and in the DNS is left to show.
LEMMA ExitInv ==
    ASSUME Exit,
           \A c \in Certs : stateFile' # Corrupt /\ stateFile'[c] # None
             => BackedBy(dns', pendFile'[c], c, stateFile'[c])
    PROVE  RotationInv' /\ pc' \notin {"dp_cert", "dp_replace"}
<1>1. PendingBacked'
  BY DEF PendingBacked, Exit, NoPending
<1> QED
  BY <1>1 DEF RotationInv, Exit, Unreached, Preparing, Issuing

\* The loop goes on to the next certificate.
LEMMA LeaveCertInv ==
    ASSUME TypeOK, RotationInv, LeaveCert, cur \in Certs,
           pc \in {"cert", "key"} \/ Preparing \/ Issuing,
           \/ stateFile' = stateFile /\ \A c \in Certs : c > cur => mem'[c] = mem[c]
           \/ stateFile' = Corrupt
           \/ stateFile' = mem',
           PendingBacked'
    PROVE  RotationInv' /\ pc' \notin {"dp_cert", "dp_replace"}
<1>1. ASSUME stateFile' # Corrupt, NEW c \in Certs, Unreached(c)', mem'[c] = None
      PROVE  stateFile'[c] = None
  <2>1. c > cur
    BY <1>1, CountsAssumption DEF Unreached, Preparing, Issuing, LeaveCert, Certs
  <2>2. Unreached(c)
    BY <2>1, CountsAssumption DEF Unreached, Certs
  <2> QED
    BY <1>1, <2>1, <2>2 DEF RotationInv
<1> QED
  BY <1>1 DEF RotationInv, LeaveCert, Preparing, Issuing

\* A step that leaves the disk and the records alone and forgets at most the
\* pending rotation of the current certificate keeps the others backed.
LEMMA SameBacked ==
    ASSUME PendingBacked, UNCHANGED <<stateFile, pendFile, dns>>,
           \A c \in Certs : mem'[c] \in {mem[c], None}
    PROVE  PendingBacked'
  BY DEF PendingBacked

\* The steps of run() around the certificates keep the invariant: loading and saving state.json, skipping, hooks, exit.
LEMMA RunStepsInv == ASSUME Inv, RunSteps PROVE Inv'
<1> USE DEF Inv
<1>0. TypeOK' /\ DiskOK /\ mem \in State
  BY RunStepsType DEF TypeOK, ProcessOK
<1>1. CASE LoadState
  <2>1. CASE stateFile = Corrupt
    BY <1>0, <1>1, <2>1, ExitInv DEF LoadState, disk
  <2>2. CASE stateFile # Corrupt
    <3>1. /\ pc' = "acme" /\ mem' = stateFile
          /\ UNCHANGED <<stateFile, pendFile, dns>>
      BY <1>1, <2>2 DEF LoadState, Goto, disk, world
    <3>2. PendingBacked'
      BY <2>2, <3>1 DEF RotationInv, PendingBacked
    <3> QED
      BY <1>0, <3>1, <3>2 DEF RotationInv, Preparing, Issuing
  <2> QED
    BY <2>1, <2>2
<1>2. CASE AcmeNew \/ CertsDone \/ MustRenew
  <2>1. /\ pc \in {"acme", "cert"} /\ cur' = cur /\ mem' = mem
        /\ UNCHANGED <<stateFile, pendFile, dns>>
        /\ pc' \in {"cert", "key", "hooks"}
    BY <1>2 DEF AcmeNew, CertsDone, MustRenew, Goto, disk, world
  <2>2. PendingBacked'
    BY <2>1 DEF RotationInv, PendingBacked
  <2>3. \A c \in Certs : Unreached(c)' => Unreached(c)
    BY <2>1 DEF Unreached, Preparing, Issuing
  <2>4. pc' = "key" /\ mem[cur] # None => TtlExpired(mem[cur])
    BY <1>2 DEF AcmeNew, CertsDone, MustRenew, Goto, Waiting
  <2> QED
    BY <1>0, <2>1, <2>2, <2>3, <2>4 DEF RotationInv, Preparing, Issuing
<1>3. CASE AcmeNewFails
  BY <1>0, <1>3, ExitInv DEF AcmeNewFails, disk, world, RotationInv, PendingBacked
<1>4. CASE SkipCert \/ WaitForTtl \/ NotDue
  <2>1. /\ LeaveCert /\ pc = "cert" /\ cur \in Certs
        /\ UNCHANGED <<mem, stateFile, pendFile, dns>>
    BY <1>4 DEF SkipCert, WaitForTtl, NotDue, NotRenewed, disk, world
  <2>2. PendingBacked'
    BY <2>1 DEF RotationInv, PendingBacked
  <2> QED
    BY <1>0, <2>1, <2>2, LeaveCertInv
<1>5. CASE SkipHook \/ RunHook \/ HookFails
  <2>1. /\ pc = "hooks" /\ pc' = "hooks" /\ mem' = mem
        /\ UNCHANGED <<stateFile, pendFile, dns>>
    BY <1>5 DEF SkipHook, RunHook, HookFails, NextHook, disk, world
  <2>2. PendingBacked'
    BY <2>1 DEF RotationInv, PendingBacked
  <2> QED
    BY <1>0, <2>1, <2>2 DEF RotationInv, Unreached, Preparing, Issuing
<1>6. CASE SaveState \/ SaveStateFails
  <2>1. /\ Exit /\ stateFile' \in {stateFile, mem, Corrupt}
        /\ UNCHANGED <<pendFile, dns>>
    BY <1>6 DEF SaveState, SaveStateFails, world
  <2> QED
    BY <1>0, <2>1, ExitInv DEF RotationInv, PendingBacked
<1> QED
  BY <1>1, <1>2, <1>3, <1>4, <1>5, <1>6 DEF RunSteps

\* What determine_key does before the first write: the pending rotation it takes
\* is one whose TTL has expired (WaitForTtl), so its key is announced for long
\* enough; without one, a rotating certificate that needs it is pre-published.
LEMMA DetermineKeyInv ==
    ASSUME Inv, DetermineKey
    PROVE  Inv'
<1> USE DEF Inv
<1>0. /\ TypeOK' /\ DiskOK /\ mem \in State /\ pc = "key" /\ cur \in Certs
      /\ UNCHANGED <<stateFile, pendFile, dns>>
  BY DetermineKeyType
     DEF TypeOK, ProcessOK, PositionOK, DetermineKey, TakePending, TakePendingFails,
         RotateNow, PrePublishDry, PrePublish, LoadKey, GenerateKey, disk, world
<1>1. /\ \A c \in Certs : mem'[c] \in {mem[c], None}
      /\ \A c \in Certs : c > cur => mem'[c] = mem[c]
  <2>1. mem' \in {mem, [mem EXCEPT ![cur] = None]}
    BY DEF DetermineKey, TakePending, TakePendingFails, RotateNow, PrePublishDry,
           PrePublish, LoadKey, GenerateKey
  <2> QED
    BY <1>0, <2>1, CountsAssumption DEF State, Certs
<1>2. PendingBacked'
  BY <1>0, <1>1, SameBacked DEF RotationInv
<1>3. CASE LeaveCert
  BY <1>0, <1>1, <1>2, <1>3, LeaveCertInv
<1>4. CASE PrePublish
  <2>1. pc' = "write_pending" /\ cur' = cur /\ mem' = mem /\ mem[cur] = None
    BY <1>4 DEF PrePublish, Goto
  <2>2. \A c \in Certs : Unreached(c)' => Unreached(c)
    BY <1>0, <2>1 DEF Unreached, Preparing, Issuing
  <2> QED
    BY <1>0, <1>2, <2>1, <2>2 DEF RotationInv, Preparing, Issuing
<1>5. CASE \E k \in Keys, save \in BOOLEAN : UseKey(k, save) /\ ~LeaveCert
  <2>1. PICK k \in Keys : key' = k /\ Goto("order")
    BY <1>5 DEF UseKey, Renewed
  <2>2. pc' = "order" /\ cur' = cur
    BY <2>1 DEF Goto
  <2>3. \A c \in Certs : Unreached(c)' => c > cur /\ Unreached(c)
    BY <1>0, <2>2, CountsAssumption DEF Unreached, Preparing, Issuing, Certs
  <2>4. stateFile' # Corrupt =>
          \A c \in Certs : Unreached(c)' /\ mem'[c] = None => stateFile'[c] = None
    BY <1>0, <1>1, <2>3 DEF RotationInv
  <2>5. CASE mem[cur] # None
    <3>1. TakePending
      BY <1>5, <2>1, <2>2, <2>5
         DEF DetermineKey, TakePending, TakePendingFails, RotateNow, PrePublishDry,
             PrePublish, LoadKey, GenerateKey, NotRenewed
    <3>2. key' = pendFile[cur] /\ mem'[cur] = None
      BY <1>0, <2>2, <3>1 DEF TakePending, UseKey, Renewed, LeaveCert, State
    <3>3. BackedBy(dns, pendFile[cur], cur, mem[cur])
      BY <1>0, <2>5 DEF RotationInv, PendingBacked
    <3>4. AgedFor(dns, pendFile[cur], cur)
      <4> SUFFICES ASSUME NEW b \in Blocks(cur), PrePublished(cur, b),
                          NEW i \in NamesOf(cur, b)
                   PROVE  PublishedFor(dns, Block(cur, b).names[i], pendFile[cur],
                                       Block(cur, b).ttl)
        BY DEF AgedFor
      <4>1. mem[cur].elapsed >= mem[cur].old_ttl /\ mem[cur].old_ttl >= Block(cur, b).ttl
        BY <1>0, <2>5, <3>3 DEF RotationInv, TtlExpired, BackedBy
      <4>2. mem[cur].elapsed \in Nat /\ mem[cur].old_ttl \in Nat /\ Block(cur, b).ttl \in Nat
        BY <1>0, <2>5, ConfigFacts, CountsAssumption DEF State, PendingRotation, Ages
      <4>3. PICK r \in dns[Block(cur, b).names[i]] :
              r.selector = "spki" /\ r.key = pendFile[cur] /\ r.age >= mem[cur].elapsed
        BY <3>3 DEF BackedBy, PublishedFor
      <4>4. r.age \in Nat
        BY <1>0, <4>3, ConfigFacts, CountsAssumption DEF DiskOK, Tlsa, Ages
      <4> QED
        BY <4>1, <4>2, <4>3, <4>4 DEF PublishedFor
    <3> QED
      BY <1>0, <1>2, <2>2, <2>4, <3>2, <3>4 DEF RotationInv, Preparing, Issuing
  <2>6. CASE mem[cur] = None
    <3>1. stateFile # Corrupt => stateFile[cur] = None
      BY <1>0, <2>6, CountsAssumption DEF RotationInv, Unreached, Certs
    <3>2. RotateKey[cur] => ~NeedsPrePublish(cur)
      BY <1>5, <2>2, <2>6
         DEF DetermineKey, TakePending, TakePendingFails, RotateNow, PrePublishDry,
             PrePublish, LoadKey, GenerateKey, NotRenewed, Goto
    <3>3. RotateKey[cur] => AgedFor(dns, key', cur)
      BY <3>2 DEF AgedFor, NeedsPrePublish
    <3>4. mem'[cur] = None
      BY <1>0, <1>1, <2>6
    <3> QED
      BY <1>0, <1>2, <2>2, <2>4, <3>1, <3>3, <3>4 DEF RotationInv, Preparing, Issuing
  <2> QED
    BY <2>5, <2>6
<1>6. LeaveCert \/ PrePublish \/ \E k \in Keys, save \in BOOLEAN : UseKey(k, save)
  <2>1. pendFile[cur] # None => pendFile[cur] \in Keys
    BY <1>0 DEF DiskOK
  <2>2. keyFile[cur] # None => keyFile[cur] \in Keys
    BY <1>0 DEF DiskOK
  <2>3. FreshKeys(cur) \subseteq Keys
    BY <1>0, FreshKeysType
  <2> QED
    BY <2>1, <2>2, <2>3
       DEF DetermineKey, TakePending, TakePendingFails, RotateNow, PrePublishDry,
           PrePublish, LoadKey, GenerateKey, NotRenewed
<1> QED
  BY <1>3, <1>4, <1>5, <1>6

\* While a key is being pre-published, neither memory nor state.json has a pending
\* rotation of the certificate that could refer to the old pending file.
LEMMA PreparingFacts ==
    ASSUME Inv, Preparing
    PROVE  /\ cur \in Certs /\ mem[cur] = None /\ key \in Keys
           /\ stateFile # Corrupt => stateFile[cur] = None
<1>1. cur \in Certs /\ key \in Keys
  BY DEF Inv, TypeOK, ProcessOK, PositionOK, Preparing
<1>2. mem[cur] = None
  BY DEF Inv, RotationInv
<1>3. Unreached(cur)
  BY <1>1, CountsAssumption DEF Unreached, Certs
<1> QED
  BY <1>1, <1>2, <1>3 DEF Inv, RotationInv

\* The steps of determine_key and pre_publish_dane keep the invariant.
LEMMA PrePublishStepsInv == ASSUME Inv, PrePublishSteps PROVE Inv'
<1> USE DEF Inv
<1>0. /\ TypeOK' /\ DiskOK /\ mem \in State /\ Preparing
      /\ cur \in Certs /\ mem[cur] = None /\ key \in Keys
      /\ stateFile # Corrupt => stateFile[cur] = None
  <2>1. Preparing
    BY DEF Preparing, PrePublishSteps, WritePendingKey, WritePendingKeyFails, PreBlock,
           PreBlockSkip, PreBlocksDone, AddTlsa, AddTlsaRefused, AddTlsaUnanswered,
           SavePending, SavePendingFails
  <2> QED
    BY <2>1, PreparingFacts, PrePublishStepsType DEF TypeOK, ProcessOK
<1>1. CASE WritePendingKey \/ WritePendingKeyFails
  <2>1. /\ UNCHANGED <<mem, stateFile, dns>>
        /\ \A c \in Certs : c # cur => pendFile'[c] = pendFile[c]
    BY <1>0, <1>1 DEF WritePendingKey, WritePendingKeyFails, DiskOK, world
  <2>2. PendingBacked'
    BY <1>0, <2>1 DEF RotationInv, PendingBacked
  <2>3. CASE WritePendingKey
    <3>1. /\ pc = "write_pending" /\ pc' = "pre_block" /\ cur' = cur
          /\ pendFile'[cur] = key /\ UNCHANGED <<key, maxTtl, bi, ni>>
      BY <1>0, <2>3 DEF WritePendingKey, Goto, frame, DiskOK
    <3>2. bi = 1 /\ ni = 1
      BY <3>1 DEF TypeOK, PositionOK
    <3>3. AnnouncedUpTo(dns', key', cur', maxTtl', bi', ni')
      BY <3>1, <3>2 DEF AnnouncedUpTo, Blocks, NamesOf
    <3>4. \A c \in Certs : Unreached(c)' => Unreached(c)
      BY <3>1 DEF Unreached, Preparing, Issuing
    <3> QED
      BY <1>0, <2>1, <2>2, <3>1, <3>3, <3>4 DEF RotationInv, Preparing, Issuing
  <2>4. CASE WritePendingKeyFails
    BY <1>0, <2>1, <2>2, <2>4, LeaveCertInv DEF WritePendingKeyFails, NotRenewed
  <2> QED
    BY <1>1, <2>3, <2>4
<1>2. CASE PreBlock \/ PreBlockSkip \/ PreBlocksDone
  <2>1. /\ UNCHANGED <<mem, stateFile, pendFile, dns, key, cur>>
        /\ pc = "pre_block" /\ pc' \in {"pre_block", "add_tlsa", "save_pending"}
        /\ ni = 1 /\ ni' = 1
    BY <1>2 DEF PreBlock, PreBlockSkip, PreBlocksDone, Goto, frame, disk, world, TypeOK,
                PositionOK
  <2>2. PendingBacked'
    BY <2>1 DEF RotationInv, PendingBacked
  <2>3. \A c \in Certs : Unreached(c)' => Unreached(c)
    BY <2>1 DEF Unreached, Preparing, Issuing
  <2>4. /\ pendFile[cur] = key /\ AnnouncedUpTo(dns, key, cur, maxTtl, bi, ni)
        /\ bi \in 1..(Len(Dane[cur]) + 1) /\ maxTtl \in Nat /\ Len(Dane[cur]) \in Nat
    BY <1>0, <2>1, ConfigFacts, CountsAssumption
       DEF RotationInv, TypeOK, PositionOK, ProcessOK, Ages
  <2>5. CASE PreBlock
    <3>1. /\ bi' = bi /\ maxTtl' = Larger(maxTtl, Block(cur, bi).ttl)
          /\ bi \in Blocks(cur) /\ Block(cur, bi).ttl \in Nat /\ pc' = "add_tlsa"
      BY <1>0, <2>5, ConfigFacts, CountsAssumption DEF PreBlock, Goto, Ages
    <3>2. maxTtl' >= maxTtl /\ maxTtl' >= Block(cur, bi).ttl /\ maxTtl' \in Nat
      BY <2>4, <3>1 DEF Larger
    <3>3. \A b \in Blocks(cur) : Block(cur, b).ttl \in Nat
      BY <1>0, ConfigFacts, CountsAssumption DEF Ages
    <3>4. AnnouncedUpTo(dns, key, cur, maxTtl', bi, 1)
      BY <2>1, <2>4, <3>2, <3>3 DEF AnnouncedUpTo
    <3> QED
      BY <1>0, <2>1, <2>2, <2>3, <2>4, <3>1, <3>2, <3>4 DEF RotationInv, Preparing, Issuing
  <2>6. CASE PreBlockSkip
    <3>1. bi' = bi + 1 /\ maxTtl' = maxTtl /\ ~PrePublished(cur, bi) /\ pc' = "pre_block"
      BY <2>6 DEF PreBlockSkip, Goto
    <3>2. AnnouncedUpTo(dns, key, cur, maxTtl, bi + 1, 1)
      <4>1. \A b \in Blocks(cur) : b \in Nat
        BY <2>4 DEF Blocks
      <4>2. \A b \in Blocks(cur) : \A i \in NamesOf(cur, b) : ~(i < 1)
        BY DEF NamesOf
      <4> QED
        BY <2>4, <3>1, <4>1, <4>2 DEF AnnouncedUpTo
    <3> QED
      BY <1>0, <2>1, <2>2, <2>3, <2>4, <3>1, <3>2 DEF RotationInv, Preparing, Issuing
  <2>7. CASE PreBlocksDone
    <3>1. bi' = bi /\ maxTtl' = maxTtl /\ bi \notin Blocks(cur) /\ pc' = "save_pending"
      BY <2>7 DEF PreBlocksDone, Goto, frame
    <3>2. \A b \in Blocks(cur) : b < bi
      BY <2>4, <3>1 DEF Blocks
    <3> QED
      BY <1>0, <2>1, <2>2, <2>3, <2>4, <3>1, <3>2 DEF RotationInv, Preparing, Issuing
  <2> QED
    BY <1>2, <2>5, <2>6, <2>7
<1>3. CASE AddTlsa \/ AddTlsaUnanswered
  <2> DEFINE n == Block(cur, bi).names[ni]
  <2>0. /\ pc = "add_tlsa" /\ bi \in Blocks(cur) /\ ni \in NamesOf(cur, bi) /\ n \in Names
        /\ Create(n, TlsaFromKey(key)) /\ UNCHANGED <<mem, stateFile, pendFile>>
    BY <1>0, <1>3, ConfigFacts DEF AddTlsa, AddTlsaUnanswered, TypeOK, PositionOK, disk
  <2>1. /\ \A c \in Certs : \A k : Keeps(dns, dns', c, k)
        /\ TlsaFromKey(key) \in dns'[n]
    BY <1>0, <2>0, CreateKeeps
  <2>2. PendingBacked'
    BY <2>0, <2>1, KeepsBacked DEF RotationInv, PendingBacked
  <2>3. CASE AddTlsaUnanswered
    BY <1>0, <2>0, <2>2, <2>3, LeaveCertInv DEF AddTlsaUnanswered, NotRenewed
  <2>4. CASE AddTlsa
    <3>1. NextName("pre_block") /\ UNCHANGED <<key, maxTtl>>
      BY <2>4 DEF AddTlsa
    <3>2. /\ cur' = cur /\ pc' \in {"add_tlsa", "pre_block"}
          /\ pc' = "add_tlsa" => bi' = bi
          /\ bi' \in Nat /\ ni' \in Nat
          /\ \/ bi' = bi /\ ni' = ni + 1
             \/ bi' = bi + 1 /\ ni' = 1 /\ ni = Len(Block(cur, bi).names)
      BY <1>0, <2>0, <3>1, NextNameType DEF Goto
    <3>3. AnnouncedUpTo(dns', key, cur, maxTtl, bi, ni)
      BY <1>0, <2>0, <2>1, KeepsAnnounced DEF RotationInv
    <3>4. PublishedFor(dns', n, key, 0) /\ maxTtl >= Block(cur, bi).ttl
      BY <2>0, <2>1 DEF PublishedFor, TlsaFromKey, RotationInv
    <3>5. AnnouncedUpTo(dns', key, cur, maxTtl, bi', ni')
      <4> SUFFICES ASSUME NEW b \in Blocks(cur), PrePublished(cur, b),
                          NEW i \in NamesOf(cur, b),
                          b < bi' \/ (b = bi' /\ i < ni')
                   PROVE  /\ maxTtl >= Block(cur, b).ttl
                          /\ PublishedFor(dns', Block(cur, b).names[i], key, 0)
        BY DEF AnnouncedUpTo
      <4>1. b \in Nat /\ i \in Nat /\ i >= 1 /\ bi \in Nat /\ ni \in Nat
        BY <2>0 DEF Blocks, NamesOf
      <4>2. b = bi => i <= Len(Block(cur, bi).names)
        BY DEF NamesOf, Block
      <4>3. Len(Block(cur, bi).names) \in Nat
        BY <1>0, <2>0, ConfigFacts
      <4>4. b < bi \/ (b = bi /\ i < ni) \/ (b = bi /\ i = ni)
        BY <3>2, <4>1, <4>2, <4>3
      <4> QED
        BY <3>3, <3>4, <4>4 DEF AnnouncedUpTo
    <3>6. \A c \in Certs : Unreached(c)' => Unreached(c)
      BY <2>0, <3>2 DEF Unreached, Preparing, Issuing
    <3> QED
      BY <1>0, <2>0, <2>2, <3>1, <3>2, <3>4, <3>5, <3>6
         DEF RotationInv, Preparing, Issuing
  <2> QED
    BY <1>3, <2>3, <2>4
<1>4. CASE AddTlsaRefused
  <2>1. LeaveCert /\ UNCHANGED <<mem, stateFile, pendFile, dns>>
    BY <1>4 DEF AddTlsaRefused, NotRenewed, disk, world
  <2>2. PendingBacked'
    BY <2>1 DEF RotationInv, PendingBacked
  <2> QED
    BY <1>0, <2>1, <2>2, LeaveCertInv
<1>5. CASE SavePending \/ SavePendingFails
  <2> DEFINE p == [elapsed |-> 0, old_ttl |-> maxTtl]
  <2>1. /\ LeaveCert /\ UNCHANGED <<pendFile, dns>> /\ pc = "save_pending"
        /\ mem' = [mem EXCEPT ![cur] = p] /\ stateFile' \in {stateFile, mem', Corrupt}
    BY <1>5 DEF SavePending, SavePendingFails, InsertPending, NotRenewed, world
  <2>2. /\ pendFile[cur] = key /\ AnnouncedUpTo(dns, key, cur, maxTtl, bi, ni)
        /\ \A b \in Blocks(cur) : b < bi
    BY <2>1 DEF RotationInv
  <2>3. BackedBy(dns, pendFile[cur], cur, p)
    BY <1>0, <2>2, FirstName, MarkersAssumption DEF BackedBy, AnnouncedUpTo
  <2>4. /\ \A c \in Certs : c # cur => mem'[c] = mem[c]
        /\ mem'[cur] = p
    BY <1>0, <2>1 DEF State
  <2>5. PendingBacked'
    BY <1>0, <2>1, <2>3, <2>4 DEF RotationInv, PendingBacked
  <2> QED
    BY <1>0, <2>1, <2>4, <2>5, LeaveCertInv, CountsAssumption DEF Certs
<1> QED
  BY <1>1, <1>2, <1>3, <1>4, <1>5 DEF PrePublishSteps

\* A step of the issuance that leaves the pending rotations and the records alone
\* and stays with the certificate and its key.
LEMMA IssueSameInv ==
    ASSUME Inv, Issuing, Issuing', cur \in Certs,
           UNCHANGED <<mem, stateFile, pendFile, dns, cur, key>>,
           pc' \in {"save_key", "perms", "publish"} => certFile'[cur].key = key,
           TypeOK'
    PROVE  Inv'
<1> USE DEF Inv
<1>1. PendingBacked'
  BY DEF RotationInv, PendingBacked
<1>2. \A c \in Certs : Unreached(c)' => Unreached(c)
  BY DEF Unreached, Preparing, Issuing
<1>3. ~Preparing' /\ pc' \notin {"key", "pre_block", "add_tlsa", "save_pending"}
  BY DEF Preparing, Issuing
<1> QED
  BY <1>1, <1>2, <1>3 DEF RotationInv, Issuing

\* The order, the two writes and the publication of the new certificate keep the invariant.
LEMMA IssueStepsInv == ASSUME Inv, IssueSteps PROVE Inv'
<1> USE DEF Inv
<1>0. TypeOK' /\ DiskOK /\ mem \in State /\ Issuing /\ cur \in Certs
  BY IssueStepsType
     DEF TypeOK, ProcessOK, PositionOK, IssueSteps, Order, OrderFails, WriteCert,
         WriteCertFails, SaveKey, SaveKeyFails, Permissions, PermissionsFail, PublishTlsa,
         PublishTlsaFails, RunInlineHooks, InlineHooksFail, Issuing
<1>1. CASE Order \/ SaveKey \/ Permissions
  <2>1. /\ UNCHANGED <<mem, stateFile, pendFile, certFile, dns, cur, key>> /\ Issuing'
        /\ pc' \in {"save_key", "perms", "publish"} => pc \in {"save_key", "perms"}
    BY <1>1 DEF Order, SaveKey, Permissions, Goto, disk, world, frame, Issuing
  <2>2. pc' \in {"save_key", "perms", "publish"} => certFile'[cur].key = key
    BY <2>1 DEF RotationInv
  <2> QED
    BY <1>0, <2>1, <2>2, IssueSameInv
<1>2. CASE WriteCert
  <2>1. PICK s \in FreshSerials(cur) :
          certFile' = [certFile EXCEPT ![cur] = [key |-> key, serial |-> s]]
    BY <1>2 DEF WriteCert
  <2>2. certFile'[cur].key = key
    BY <1>0, <2>1 DEF DiskOK
  <2>3. UNCHANGED <<mem, stateFile, pendFile, dns, cur, key>> /\ Issuing'
    BY <1>2 DEF WriteCert, Goto, frame, Issuing
  <2> QED
    BY <1>0, <2>2, <2>3, IssueSameInv
<1>3. CASE \/ OrderFails \/ WriteCertFails \/ SaveKeyFails \/ PermissionsFail
           \/ RunInlineHooks \/ InlineHooksFail
  <2>1. LeaveCert /\ UNCHANGED <<mem, stateFile, pendFile, dns>>
    BY <1>3 DEF OrderFails, WriteCertFails, SaveKeyFails, PermissionsFail, RunInlineHooks,
                InlineHooksFail, NotRenewed, Renewed, disk, world
  <2>2. PendingBacked'
    BY <2>1 DEF RotationInv, PendingBacked
  <2> QED
    BY <1>0, <2>1, <2>2, LeaveCertInv
<1>4. CASE PublishTlsa \/ PublishTlsaFails
  <2>1. /\ pc = "publish" /\ bi \in Blocks(cur) /\ ni \in NamesOf(cur, bi)
        /\ certFile[cur] # None /\ certFile[cur].key = key
    BY <1>4 DEF PublishTlsa, PublishTlsaFails, RotationInv, TypeOK, PositionOK
  <2>2. /\ UNCHANGED <<mem, stateFile, pendFile, certFile, cur, key>>
        /\ dns' = dns \/ Replace(Block(cur, bi).names[ni], CurrentTlsa)
        /\ pc' = "publish"
    BY <1>4, <2>1 DEF PublishTlsa, PublishTlsaFails, NextName, Goto, disk
  <2>3. /\ \A c \in Certs : c # cur => \A k : Keeps(dns, dns', c, k)
        /\ Keeps(dns, dns', cur, key)
    BY <1>0, <2>1, <2>2, KeepsSame, ReplaceKeeps
  <2>4. /\ mem[cur] = None
        /\ stateFile # Corrupt /\ stateFile[cur] # None => pendFile[cur] = key
    BY <1>0 DEF RotationInv
  <2>5. PendingBacked'
    BY <1>0, <2>2, <2>3, <2>4, KeepsBacked DEF RotationInv, PendingBacked
  <2>6. RotateKey[cur] => AgedFor(dns', key, cur)
    BY <1>0, <2>3, KeepsAged DEF RotationInv
  <2>7. \A c \in Certs : Unreached(c)' => Unreached(c)
    BY <2>1, <2>2 DEF Unreached, Preparing, Issuing
  <2> QED
    BY <1>0, <2>1, <2>2, <2>5, <2>6, <2>7 DEF RotationInv, Preparing, Issuing
<1> QED
  BY <1>1, <1>2, <1>3, <1>4 DEF IssueSteps

\* Ageing a pending rotation keeps it backed, and expired if it was.
LEMMA TickBacked ==
    ASSUME DiskOK, Tick, NEW c \in Certs, NEW k, NEW p \in PendingRotation,
           BackedBy(dns, k, c, p)
    PROVE  BackedBy(dns', k, c, [p EXCEPT !.elapsed = Older(@)])
<1>1. /\ [p EXCEPT !.elapsed = Older(@)].elapsed = Older(p.elapsed)
      /\ [p EXCEPT !.elapsed = Older(@)].old_ttl = p.old_ttl
      /\ p.elapsed \in Ages
  BY DEF PendingRotation
<1> QED
  BY <1>1, TickKeeps, ConfigFacts DEF BackedBy

\* The passing of time ages the records and the pending rotation alike.
LEMMA TickInv == ASSUME Inv, Tick PROVE Inv'
<1> USE DEF Inv
<1>0. TypeOK' /\ DiskOK /\ mem \in State
  BY EnvironmentType DEF TypeOK, ProcessOK
<1>1. /\ UNCHANGED <<pendFile, certFile, pc, cur, key, bi, ni, maxTtl>>
      /\ stateFile' = (IF stateFile = Corrupt THEN Corrupt ELSE OlderState(stateFile))
      /\ mem' = OlderState(mem)
  BY DEF Tick, frame
<1>2. /\ stateFile # Corrupt => stateFile \in State
      /\ OlderState(mem) \in State
      /\ stateFile # Corrupt => OlderState(stateFile) \in State
  BY <1>0, OlderType DEF DiskOK
<1>3. stateFile' = Corrupt <=> stateFile = Corrupt
  BY <1>1, <1>2, MarkersAssumption DEF State, PendingRotation
<1>4. \A s \in State : \A c \in Certs :
        /\ OlderState(s)[c] = None <=> s[c] = None
        /\ s[c] # None => /\ s[c] \in PendingRotation
                          /\ OlderState(s)[c] = [s[c] EXCEPT !.elapsed = Older(@)]
  <2> SUFFICES ASSUME NEW s \in State, NEW c \in Certs
               PROVE  /\ OlderState(s)[c] = None <=> s[c] = None
                      /\ s[c] # None =>
                           /\ s[c] \in PendingRotation
                           /\ OlderState(s)[c] = [s[c] EXCEPT !.elapsed = Older(@)]
    OBVIOUS
  <2>1. s[c] # None => s[c] \in PendingRotation
    BY DEF State
  <2>2. OlderState(s)[c] = IF s[c] = None THEN None
                                          ELSE [s[c] EXCEPT !.elapsed = Older(@)]
    BY DEF OlderState
  <2>3. s[c] # None => [s[c] EXCEPT !.elapsed = Older(@)] \in PendingRotation
    BY <2>1, OlderType DEF PendingRotation
  <2> QED
    BY <2>1, <2>2, <2>3, MarkersAssumption DEF PendingRotation
<1>5. PendingBacked'
  <2> SUFFICES ASSUME NEW c \in Certs
               PROVE  /\ stateFile' # Corrupt /\ stateFile'[c] # None
                           => BackedBy(dns', pendFile'[c], c, stateFile'[c])
                      /\ mem'[c] # None => BackedBy(dns', pendFile'[c], c, mem'[c])
    BY DEF PendingBacked
  <2>1. ASSUME mem'[c] # None PROVE BackedBy(dns', pendFile'[c], c, mem'[c])
    <3>1. /\ mem[c] \in PendingRotation /\ BackedBy(dns, pendFile[c], c, mem[c])
          /\ mem'[c] = [mem[c] EXCEPT !.elapsed = Older(@)] /\ pendFile' = pendFile
      BY <1>0, <1>1, <1>4, <2>1 DEF RotationInv, PendingBacked
    <3>2. BackedBy(dns', pendFile[c], c, [mem[c] EXCEPT !.elapsed = Older(@)])
      BY <1>0, <3>1, TickBacked
    <3> QED
      BY <3>1, <3>2
  <2>2. ASSUME stateFile' # Corrupt, stateFile'[c] # None
        PROVE  BackedBy(dns', pendFile'[c], c, stateFile'[c])
    <3>1. /\ stateFile[c] \in PendingRotation
          /\ BackedBy(dns, pendFile[c], c, stateFile[c])
          /\ stateFile'[c] = [stateFile[c] EXCEPT !.elapsed = Older(@)]
          /\ pendFile' = pendFile
      BY <1>1, <1>2, <1>3, <1>4, <2>2 DEF RotationInv, PendingBacked
    <3>2. BackedBy(dns', pendFile[c], c, [stateFile[c] EXCEPT !.elapsed = Older(@)])
      BY <1>0, <3>1, TickBacked
    <3> QED
      BY <3>1, <3>2
  <2> QED
    BY <2>1, <2>2
<1>6. \A c \in Certs : Unreached(c)' => Unreached(c)
  BY <1>1 DEF Unreached, Preparing, Issuing
<1>7. pc = "key" /\ mem'[cur] # None => TtlExpired(mem'[cur])
  <2> SUFFICES ASSUME pc = "key", mem'[cur] # None PROVE TtlExpired(mem'[cur])
    OBVIOUS
  <2>1. cur \in Certs
    BY DEF TypeOK, PositionOK
  <2>2. mem[cur] \in PendingRotation /\ mem'[cur] = [mem[cur] EXCEPT !.elapsed = Older(@)]
        /\ TtlExpired(mem[cur])
    BY <1>0, <1>1, <1>4, <2>1 DEF RotationInv
  <2>3. /\ mem'[cur].elapsed = Older(mem[cur].elapsed)
        /\ mem'[cur].old_ttl = mem[cur].old_ttl
        /\ mem[cur].elapsed \in Nat /\ mem[cur].old_ttl \in Nat
    BY <2>2, CountsAssumption DEF PendingRotation, Ages
  <2> QED
    BY <2>2, <2>3, CountsAssumption DEF TtlExpired, Older
<1>8. pc \in {"pre_block", "add_tlsa", "save_pending"} =>
        AnnouncedUpTo(dns', key, cur, maxTtl, bi, ni)
  <2> SUFFICES ASSUME pc \in {"pre_block", "add_tlsa", "save_pending"}
               PROVE  AnnouncedUpTo(dns', key, cur, maxTtl, bi, ni)
    OBVIOUS
  <2>1. cur \in Certs /\ 0 \in Ages /\ AnnouncedUpTo(dns, key, cur, maxTtl, bi, ni)
    BY CountsAssumption DEF TypeOK, PositionOK, Ages, RotationInv
  <2> QED
    BY <1>0, <2>1, TickKeeps, ConfigFacts DEF AnnouncedUpTo
<1>9. Issuing /\ RotateKey[cur] => AgedFor(dns', key, cur)
  <2> SUFFICES ASSUME Issuing, RotateKey[cur] PROVE AgedFor(dns', key, cur)
    OBVIOUS
  <2>1. cur \in Certs /\ AgedFor(dns, key, cur)
    BY DEF Issuing, TypeOK, PositionOK, RotationInv
  <2> QED
    BY <1>0, <2>1, TickKeeps, ConfigFacts DEF AgedFor
<1>10. cur \notin Certs => ~Preparing /\ ~Issuing
  BY DEF TypeOK, PositionOK, Preparing, Issuing
<1>11. Preparing' = Preparing /\ Issuing' = Issuing
  BY <1>1 DEF Preparing, Issuing
<1>12. stateFile' # Corrupt =>
         \A c \in Certs : Unreached(c)' /\ mem'[c] = None => stateFile'[c] = None
  BY <1>0, <1>1, <1>2, <1>3, <1>4, <1>6 DEF RotationInv
<1>13. Preparing \/ Issuing => mem'[cur] = None
  BY <1>0, <1>1, <1>4, <1>10 DEF RotationInv
<1>14. Issuing /\ stateFile' # Corrupt /\ stateFile'[cur] # None => key = pendFile[cur]
  BY <1>1, <1>2, <1>3, <1>4, <1>10 DEF RotationInv
<1> QED
  BY <1>0, <1>1, <1>5, <1>7, <1>8, <1>9, <1>11, <1>12, <1>13, <1>14 DEF RotationInv

-----------------------------------------------------------------------------
\* The inductive step.
LEMMA NextInv == ASSUME OnlyRenewals, Inv, [Next]_vars PROVE Inv'
<1>0. TypeOK'
  BY NextType DEF Inv
<1>1. ASSUME NEW cm \in Commands, Start(cm) PROVE Inv'
  <2>1. /\ pc = "idle" /\ pc' = "load"
        /\ UNCHANGED <<mem, stateFile, pendFile, dns>>
    BY <1>1 DEF OnlyRenewals, Start, disk, world
  <2>2. PendingBacked'
    BY <2>1 DEF Inv, RotationInv, PendingBacked
  <2> QED
    BY <1>0, <2>1, <2>2 DEF Inv, RotationInv, Unreached, Preparing, Issuing
<1>2. CASE Process
  <2>1. ~DanePublishSteps
    BY DEF Inv, DanePublishSteps, DanePublishSkip, DanePublishLoad, DanePublishReplace,
           DanePublishFails, DanePublishNext, DanePublishDone
  <2> QED
    BY <1>2, <2>1, RunStepsInv, DetermineKeyInv, PrePublishStepsInv, IssueStepsInv
       DEF Process
<1>3. CASE Crash
  BY <1>0, <1>3, ExitInv DEF Crash, disk, world, Inv, RotationInv, PendingBacked
<1>4. CASE CrashInWrite
  <2>1. /\ Exit /\ dns' = dns /\ stateFile' \in {stateFile, Corrupt}
        /\ pendFile' = pendFile \/ (Preparing /\ pendFile' = [pendFile EXCEPT ![cur] = None])
    BY <1>4 DEF CrashInWrite, Preparing
  <2>2. CASE pendFile' = pendFile
    BY <1>0, <2>1, <2>2, ExitInv DEF Inv, RotationInv, PendingBacked
  <2>3. CASE Preparing /\ pendFile' = [pendFile EXCEPT ![cur] = None]
    <3>1. /\ stateFile # Corrupt => stateFile[cur] = None
          /\ \A c \in Certs : c # cur => pendFile'[c] = pendFile[c]
      BY <2>3, PreparingFacts DEF Inv, TypeOK, DiskOK
    <3> QED
      BY <1>0, <2>1, <3>1, ExitInv DEF Inv, RotationInv, PendingBacked
  <2> QED
    BY <2>1, <2>2, <2>3
<1>5. CASE Tick
  BY <1>5, TickInv
<1>6. ASSUME NEW c \in Certs, BecomesDue(c) PROVE Inv'
  BY <1>0, <1>6 DEF BecomesDue, disk, frame, Inv, RotationInv, PendingBacked, Unreached,
                    Preparing, Issuing
<1>7. CASE UNCHANGED vars
  BY <1>0, <1>7 DEF vars, Inv, RotationInv, PendingBacked, Unreached, Preparing, Issuing
<1> QED
  BY <1>1, <1>2, <1>3, <1>4, <1>5, <1>6, <1>7 DEF Next

\* The invariant holds before the first run.
LEMMA InitInv == Init => Inv
  BY InitType DEF Init, Inv, RotationInv, PendingBacked, NoPending, Unreached, Preparing,
                  Issuing

\* The inductive invariant of the rotation protocol.
THEOREM RotationInvariant == OnlyRenewals => (Spec => []RotationInv)
<1> SUFFICES ASSUME OnlyRenewals PROVE Spec => []RotationInv
  OBVIOUS
<1>1. Inv /\ [Next]_vars => Inv'
  BY NextInv
<1>2. Inv => RotationInv
  BY DEF Inv
<1> QED
  BY <1>1, <1>2, InitInv, PTL DEF Spec

\* Every pending rotation in memory or in state.json is backed by its key file and
\* by the records, whatever fails and wherever the process is killed.
THEOREM PendingIsBacked == OnlyRenewals => (Spec => []PendingBacked)
<1> SUFFICES ASSUME OnlyRenewals PROVE Spec => []PendingBacked
  OBVIOUS
<1>1. RotationInv => PendingBacked
  BY DEF RotationInv
<1> QED
  BY <1>1, RotationInvariant, PTL

\* Only the writes of the certificate file change it.
LEMMA CertFileSame ==
    ASSUME [Next]_vars, ~WriteCert, ~WriteCertFails, ~CrashInWrite
    PROVE  certFile' = certFile
<1>1. CASE UNCHANGED vars
  BY <1>1 DEF vars
<1>2. CASE RunSteps \/ DetermineKey
  BY <1>2 DEF RunSteps, DetermineKey, LoadState, AcmeNew, AcmeNewFails, SkipCert,
       CertsDone, WaitForTtl, NotDue, MustRenew, SkipHook, RunHook, HookFails,
       SaveState, SaveStateFails, TakePending, TakePendingFails, RotateNow,
       PrePublishDry, PrePublish, LoadKey, GenerateKey, disk
<1>3. CASE PrePublishSteps \/ IssueSteps \/ DanePublishSteps
  BY <1>3 DEF PrePublishSteps, IssueSteps, DanePublishSteps, WritePendingKey,
       WritePendingKeyFails, PreBlock, PreBlockSkip, PreBlocksDone, AddTlsa,
       AddTlsaRefused, AddTlsaUnanswered, SavePending, SavePendingFails, Order,
       OrderFails, SaveKey, SaveKeyFails, Permissions, PermissionsFail,
       PublishTlsa, PublishTlsaFails, RunInlineHooks, InlineHooksFail,
       DanePublishSkip, DanePublishLoad, DanePublishReplace, DanePublishFails,
       DanePublishNext, DanePublishDone, disk
<1>4. CASE (\E cm \in Commands : Start(cm)) \/ Crash \/ Tick
           \/ (\E c \in Certs : BecomesDue(c))
  BY <1>4 DEF Start, Crash, Tick, BecomesDue, disk
<1> QED
  BY <1>1, <1>2, <1>3, <1>4 DEF Next, Process

\* A rotated certificate is installed only with a key that every pre-published
\* name has announced for its whole TTL.
THEOREM RotationIsSafe == OnlyRenewals => (Spec => RotationSafe)
<1> SUFFICES ASSUME OnlyRenewals PROVE Spec => RotationSafe
  OBVIOUS
<1> DEFINE Safe == \A c \in Certs :
                     RotateKey[c] /\ certFile'[c] # certFile[c] /\ certFile'[c] # None
                       => AgedFor(dns, certFile'[c].key, c)
<1>1. ASSUME Inv, [Next]_vars PROVE [Safe]_vars
  <2>1. CASE WriteCert
    <3>1. PICK s \in FreshSerials(cur) :
            certFile' = [certFile EXCEPT ![cur] = [key |-> key, serial |-> s]]
      BY <2>1 DEF WriteCert
    <3>2. /\ certFile'[cur].key = key
          /\ \A c \in Certs : c # cur => certFile'[c] = certFile[c]
      BY <1>1, <2>1, <3>1 DEF Inv, TypeOK, DiskOK, PositionOK, WriteCert
    <3>3. RotateKey[cur] => AgedFor(dns, key, cur)
      BY <1>1, <2>1 DEF Inv, RotationInv, Issuing, WriteCert
    <3> QED
      BY <3>2, <3>3
  <2>2. CASE WriteCertFails \/ CrashInWrite
    <3>1. certFile' = certFile \/ certFile' = [certFile EXCEPT ![cur] = None]
      BY <2>2 DEF WriteCertFails, CrashInWrite
    <3>2. \A c \in Certs : certFile'[c] \in {certFile[c], None}
      BY <1>1, <3>1 DEF Inv, TypeOK, DiskOK
    <3> QED
      BY <3>2
  <2>3. CASE ~WriteCert /\ ~WriteCertFails /\ ~CrashInWrite
    <3>1. certFile' = certFile
      BY <1>1, <2>3, CertFileSame
    <3> QED
      BY <3>1
  <2> QED
    BY <2>1, <2>2, <2>3
<1>2. Inv /\ [Next]_vars => Inv'
  BY NextInv
<1> QED
  BY <1>1, <1>2, InitInv, PTL DEF Spec, RotationSafe

-----------------------------------------------------------------------------
(***************************************************************************)
(* The renewal engine implements Rollover, if only renewals are run: every *)
(* step of Renew is a Switch, a Lose, a Publish or a stutter of Rollover.  *)
(***************************************************************************)
\* The records change by client.create in a pre-publication, by the replacement
\* after an installation, and by getting older.
LEMMA RecordSteps ==
    ASSUME Inv, [Next]_vars
    PROVE  \/ dns' = dns
           \/ AddTlsa \/ AddTlsaUnanswered \/ PublishTlsa \/ PublishTlsaFails \/ Tick
<1>1. CASE UNCHANGED vars
  BY <1>1 DEF vars
<1>2. CASE RunSteps \/ DetermineKey
  BY <1>2 DEF RunSteps, DetermineKey, LoadState, AcmeNew, AcmeNewFails, SkipCert,
       CertsDone, WaitForTtl, NotDue, MustRenew, SkipHook, RunHook, HookFails,
       SaveState, SaveStateFails, TakePending, TakePendingFails, RotateNow,
       PrePublishDry, PrePublish, LoadKey, GenerateKey, world
<1>3. CASE PrePublishSteps
  BY <1>3 DEF PrePublishSteps, WritePendingKey, WritePendingKeyFails, PreBlock,
       PreBlockSkip, PreBlocksDone, AddTlsaRefused, SavePending, SavePendingFails, world
<1>4. CASE IssueSteps
  BY <1>4 DEF IssueSteps, Order, OrderFails, WriteCert, WriteCertFails, SaveKey,
       SaveKeyFails, Permissions, PermissionsFail, RunInlineHooks, InlineHooksFail, world
<1>5. ~DanePublishSteps
  BY DEF Inv, DanePublishSteps, DanePublishSkip, DanePublishLoad, DanePublishReplace,
         DanePublishFails, DanePublishNext, DanePublishDone
<1>6. CASE (\E cm \in Commands : Start(cm)) \/ Crash \/ CrashInWrite
           \/ (\E c \in Certs : BecomesDue(c))
  BY <1>6 DEF Start, Crash, CrashInWrite, BecomesDue, world
<1> QED
  BY <1>1, <1>2, <1>3, <1>4, <1>5, <1>6 DEF Next, Process

\* No step withdraws the known key of an installed certificate: pre-publication
\* adds, time only makes records older, and the replacement after an installation
\* publishes the installed key.
LEMMA KnownKept ==
    ASSUME Inv, [Next]_vars, NEW c \in Certs, certFile[c] # None,
           AgedFor(dns, certFile[c].key, c)
    PROVE  AgedFor(dns', certFile[c].key, c)
<1>0. DiskOK
  BY DEF Inv, TypeOK
<1>1. CASE dns' = dns
  BY <1>1
<1>2. CASE AddTlsa \/ AddTlsaUnanswered
  <2>1. /\ cur \in Certs /\ bi \in Blocks(cur) /\ ni \in NamesOf(cur, bi)
        /\ Create(Block(cur, bi).names[ni], TlsaFromKey(key))
    BY <1>2 DEF AddTlsa, AddTlsaUnanswered, Inv, TypeOK, PositionOK
  <2>2. Block(cur, bi).names[ni] \in Names
    BY <2>1, ConfigFacts
  <2> QED
    BY <1>0, <2>1, <2>2, CreateKeeps, KeepsAged
<1>3. CASE PublishTlsa \/ PublishTlsaFails
  <2>1. /\ pc = "publish" /\ cur \in Certs /\ bi \in Blocks(cur) /\ ni \in NamesOf(cur, bi)
        /\ certFile[cur] # None
        /\ dns' = dns \/ Replace(Block(cur, bi).names[ni], CurrentTlsa)
    BY <1>3 DEF PublishTlsa, PublishTlsaFails, Inv, TypeOK, PositionOK
  <2>2. Keeps(dns, dns', c, certFile[c].key)
    BY <1>0, <2>1, ReplaceKeeps, KeepsSame
  <2> QED
    BY <2>2, KeepsAged
<1>4. CASE Tick
  <2> SUFFICES ASSUME NEW b \in Blocks(c), PrePublished(c, b), NEW i \in NamesOf(c, b)
               PROVE  PublishedFor(dns', Block(c, b).names[i], certFile[c].key,
                                   Block(c, b).ttl)
    BY DEF AgedFor
  <2>1. Block(c, b).names[i] \in Names /\ Block(c, b).ttl \in Ages
    BY ConfigFacts
  <2>2. PublishedFor(dns, Block(c, b).names[i], certFile[c].key, Block(c, b).ttl)
    BY DEF AgedFor
  <2> QED
    BY <1>0, <1>4, <2>1, <2>2, TickKeeps
<1> QED
  BY <1>1, <1>2, <1>3, <1>4, RecordSteps

-----------------------------------------------------------------------------
\* The abstract state is well-formed and any such state may be the initial one.
LEMMA RollInit == Init => Roll!Init
<1> SUFFICES ASSUME Init PROVE Roll!Init
  OBVIOUS
<1>1. DiskOK
  BY InitType DEF TypeOK
<1>2. InstalledKey \in [Rotating -> Keys \cup {None}]
  BY <1>1 DEF InstalledKey, Rotating, DiskOK, Cert
<1>3. KnownKeys \in [Rotating -> SUBSET Keys]
  BY DEF KnownKeys
<1> QED
  BY <1>2, <1>3 DEF Roll!Init

\* The installation of a certificate is a Switch, a torn certificate file a Lose,
\* and everything else at most a Publish.
LEMMA RollNext == ASSUME Inv, Inv', [Next]_vars PROVE [Roll!Next]_(Roll!vars)
<1>0. DiskOK
  BY DEF Inv, TypeOK
<1>1. CASE WriteCert
  <2>1. PICK s \in FreshSerials(cur) :
          certFile' = [certFile EXCEPT ![cur] = [key |-> key, serial |-> s]]
    BY <1>1 DEF WriteCert
  <2>2. cur \in Certs /\ key \in Keys /\ dns' = dns /\ pc = "write_cert"
    BY <1>1 DEF WriteCert, Inv, TypeOK, ProcessOK, PositionOK
  <2>3. KnownKeys' = KnownKeys
    BY <2>2 DEF KnownKeys
  <2>4. CASE cur \in Rotating
    <3>1. key \in KnownKeys[cur]
      BY <2>2, <2>4 DEF Inv, RotationInv, Issuing, KnownKeys, Rotating
    <3>2. InstalledKey' = [InstalledKey EXCEPT ![cur] = key]
      <4> DEFINE new == [key |-> key, serial |-> s]
      <4>1. new # None /\ new.key = key
        BY <2>2, FreshSerialsType, MarkersAssumption
      <4>2. certFile'[cur] = new /\ \A c \in Certs : c # cur => certFile'[c] = certFile[c]
        BY <1>0, <2>1, <2>2 DEF DiskOK
      <4> HIDE DEF new
      <4> QED
        BY <2>4, <4>1, <4>2 DEF InstalledKey, Rotating
    <3> QED
      BY <2>3, <2>4, <3>1, <3>2 DEF Roll!Next, Roll!Switch
  <2>5. CASE cur \notin Rotating
    <3>1. InstalledKey' = InstalledKey
      BY <1>0, <2>1, <2>2, <2>5 DEF InstalledKey, Rotating, DiskOK
    <3> QED
      BY <2>3, <3>1 DEF Roll!vars
  <2> QED
    BY <2>4, <2>5
<1>2. CASE certFile' = [certFile EXCEPT ![cur] = None] /\ dns' = dns /\ cur \in Certs
  <2>1. KnownKeys' = KnownKeys
    BY <1>2 DEF KnownKeys
  <2>2. CASE cur \in Rotating
    <3>1. InstalledKey' = [InstalledKey EXCEPT ![cur] = None]
      BY <1>0, <1>2, <2>2 DEF InstalledKey, Rotating, DiskOK
    <3> QED
      BY <2>1, <2>2, <3>1 DEF Roll!Next, Roll!Lose
  <2>3. CASE cur \notin Rotating
    <3>1. InstalledKey' = InstalledKey
      BY <1>0, <1>2, <2>3 DEF InstalledKey, Rotating, DiskOK
    <3> QED
      BY <2>1, <3>1 DEF Roll!vars
  <2> QED
    BY <2>2, <2>3
<1>3. CASE certFile' = certFile
  <2>1. InstalledKey' = InstalledKey
    BY <1>3 DEF InstalledKey
  <2>2. KnownKeys' \in [Rotating -> SUBSET Keys]
    BY DEF KnownKeys
  <2>3. ASSUME NEW c \in Rotating, InstalledKey[c] \in KnownKeys[c]
        PROVE  InstalledKey[c] \in KnownKeys'[c]
    <3>1. c \in Certs /\ InstalledKey[c] \in Keys /\ AgedFor(dns, InstalledKey[c], c)
      BY <2>3 DEF KnownKeys, Rotating
    <3>2. certFile[c] # None /\ InstalledKey[c] = certFile[c].key
      BY <2>3, <3>1, MarkersAssumption DEF InstalledKey
    <3>3. AgedFor(dns', InstalledKey[c], c)
      BY <3>1, <3>2, KnownKept
    <3> QED
      BY <2>3, <3>1, <3>3 DEF KnownKeys
  <2> QED
    BY <2>1, <2>2, <2>3 DEF Roll!Next, Roll!Publish
<1>4. CASE WriteCertFails \/ CrashInWrite
  <2>1. dns' = dns /\ (certFile' = certFile \/ certFile' = [certFile EXCEPT ![cur] = None])
    BY <1>4 DEF WriteCertFails, CrashInWrite
  <2>2. certFile' = certFile \/ cur \in Certs
    BY <1>4 DEF WriteCertFails, CrashInWrite, Inv, TypeOK, PositionOK
  <2> QED
    BY <1>2, <1>3, <2>1, <2>2
<1> QED
  BY <1>1, <1>3, <1>4, CertFileSame

\* The renewal engine implements the abstract rollover: publish, wait, switch.
THEOREM RenewImplementsRollover == OnlyRenewals => (Spec => ImplementsRollover)
<1> SUFFICES ASSUME OnlyRenewals PROVE Spec => ImplementsRollover
  OBVIOUS
<1>1. Inv /\ [Next]_vars => Inv'
  BY NextInv
<1>2. Inv /\ Inv' /\ [Next]_vars => [Roll!Next]_(Roll!vars)
  BY RollNext
<1> QED
  BY <1>1, <1>2, InitInv, RollInit, PTL DEF Spec, ImplementsRollover, Roll!Spec

-----------------------------------------------------------------------------
(***************************************************************************)
(* A rotation is dropped from state.json only when it is complete.         *)
(* determine_key takes it out of the memory before the order, so that a    *)
(* failure after that loses it as soon as another certificate makes the    *)
(* run save its state: with several certificates, orders, writes and key   *)
(* files must not fail.                                                    *)
(***************************************************************************)
NothingLost == NCerts = 1 \/ ("order" \notin Faults /\ "io" \notin Faults /\ "load_key" \notin Faults)

\* The process no longer holds a rotation that state.json has.
Lost(c) == stateFile # Corrupt /\ stateFile[c] # None /\ mem[c] = None

\* The loop over the certificates is past c.
Gone(c) == pc = "hooks" \/ ((pc \in {"cert", "key"} \/ Preparing \/ Issuing) /\ c < cur)

\* The certificate for the pending key is installed.
Done(c) == certFile[c] # None /\ certFile[c].key = pendFile[c]

\* A rotation that the process does not hold any more is complete, or nothing makes the
\* only certificate of the run save the state.
LossInv ==
    /\ cur = 1 => ~dirty
    /\ pc \in {"idle", "load", "acme"} => cur = 1
    /\ pc = "hooks" => cur \notin Certs
    /\ ~DryRun => \A c \in Certs : Lost(c) /\ Gone(c) => Done(c) \/ (NCerts = 1 /\ ~dirty)

\* A certificate that the loop is still to decide about is not lost.
LEMMA UnreachedKept ==
    ASSUME Inv, NEW c \in Certs, Unreached(c)
    PROVE  ~Lost(c)
  BY DEF Inv, RotationInv, Lost

\* After the certificate is written, its rotation is complete.
LEMMA WrittenDone ==
    ASSUME Inv, pc \in {"save_key", "perms", "publish"}, Lost(cur)
    PROVE  Done(cur)
  BY DEF Inv, RotationInv, Lost, Done, Issuing, TypeOK, PositionOK

\* How the loop goes on to the next certificate.
LEMMA LossLeave ==
    ASSUME Inv, LossInv, cur \in Certs, LeaveCert, cmd' = cmd,
           pc \in {"cert", "key"} \/ Preparing \/ Issuing,
           \A c \in Certs : c # cur =>
             (Lost(c)' => Lost(c)) /\ certFile'[c] = certFile[c] /\ pendFile'[c] = pendFile[c],
           \A c \in Certs : c = cur /\ Lost(c)' /\ ~DryRun => Done(c)' \/ (NCerts = 1 /\ ~dirty')
    PROVE  LossInv'
<1>1. cur \in Nat /\ cur >= 1 /\ cur' = cur + 1 /\ pc' = "cert" /\ NCerts \in Nat /\ cur <= NCerts
  BY CountsAssumption DEF LeaveCert, Certs
<1>2. ASSUME ~DryRun, NEW c \in Certs, Lost(c)', c < cur + 1
      PROVE  Done(c)' \/ (NCerts = 1 /\ ~dirty')
  <2>1. c \in Nat /\ c >= 1
    BY CountsAssumption DEF Certs
  <2>2. CASE c < cur
    <3>1. c # cur /\ NCerts # 1
      BY <1>1, <2>1, <2>2
    <3>2. Lost(c) /\ Gone(c)
      BY <1>2, <2>2, <3>1 DEF Gone
    <3>3. Done(c)
      BY <1>2, <3>1, <3>2 DEF LossInv
    <3> QED
      BY <3>1, <3>3 DEF Done
  <2>3. CASE c = cur
    BY <1>2, <2>3
  <2> QED
    BY <1>1, <1>2, <2>1, <2>2, <2>3
<1> QED
  BY <1>1, <1>2 DEF LossInv, Gone, DryRun, Preparing, Issuing

\* A step that stays at the certificate.
LEMMA LossStay ==
    ASSUME Inv, LossInv, cur \in Certs, UNCHANGED <<cur, cmd, dirty>>,
           pc \in {"cert", "key"} \/ Preparing \/ Issuing,
           pc' = "key" \/ Preparing' \/ Issuing',
           \A c \in Certs : c # cur =>
             (Lost(c)' => Lost(c)) /\ certFile'[c] = certFile[c] /\ pendFile'[c] = pendFile[c]
    PROVE  LossInv'
<1>1. pc' \notin {"idle", "load", "acme", "hooks", "cert"}
  BY DEF Preparing, Issuing
<1>2. ASSUME ~DryRun, NEW c \in Certs, Lost(c)', c < cur
      PROVE  Done(c)'
  <2>1. c # cur /\ NCerts # 1
    BY <1>2, CountsAssumption DEF Certs
  <2>2. Lost(c) /\ Gone(c)
    BY <1>2, <2>1 DEF Gone
  <2>3. Done(c)
    BY <1>2, <2>1, <2>2 DEF LossInv
  <2> QED
    BY <2>1, <2>3 DEF Done
<1> QED
  BY <1>1, <1>2 DEF LossInv, Gone, DryRun

\* The first certificate is the only one, or what may lose a rotation does not happen.
LEMMA FirstClean ==
    ASSUME NothingLost, LossInv, cur \in Certs,
           "order" \in Faults \/ "io" \in Faults \/ "load_key" \in Faults
    PROVE  NCerts = 1 /\ ~dirty
<1>1. NCerts = 1
  BY DEF NothingLost
<1>2. cur = 1
  BY <1>1 DEF Certs
<1> QED
  BY <1>1, <1>2 DEF LossInv

\* The steps of run().
LEMMA LossRun == ASSUME Inv, LossInv, RunSteps PROVE LossInv'
<1>1. CASE Exit
  BY <1>1 DEF Exit, LossInv, Gone, Preparing, Issuing
<1>2. CASE (LoadState /\ ~Exit) \/ AcmeNew
  <2>1. pc \in {"load", "acme"} /\ pc' \in {"acme", "cert"} /\ UNCHANGED <<cur, dirty>> /\ cur = 1
    BY <1>2 DEF LoadState, AcmeNew, Goto, LossInv
  <2>2. \A c \in Certs : ~Gone(c)'
    BY <2>1, CountsAssumption DEF Gone, Certs
  <2> QED
    BY <2>1, <2>2 DEF LossInv
<1>3. CASE SkipCert \/ WaitForTtl \/ NotDue
  <2>1. /\ pc = "cert" /\ cur \in Certs /\ LeaveCert /\ UNCHANGED <<cmd, mem, stateFile, certFile, pendFile>>
    BY <1>3 DEF SkipCert, WaitForTtl, NotDue, NotRenewed, LeaveCert, disk
  <2>2. ~Lost(cur)
    <3>1. Unreached(cur)
      BY <2>1, CountsAssumption DEF Unreached, Certs
    <3> QED
      BY <2>1, <3>1, UnreachedKept
  <2>3. \A c \in Certs : Lost(c)' => Lost(c)
    BY <2>1 DEF Lost
  <2> QED
    BY <2>1, <2>2, <2>3, LossLeave
<1>4. CASE MustRenew
  <2>1. /\ pc = "cert" /\ pc' = "key" /\ cur \in Certs
        /\ UNCHANGED <<cur, cmd, dirty, mem, stateFile, certFile, pendFile>>
    BY <1>4 DEF MustRenew, Goto, disk
  <2>2. \A c \in Certs : Lost(c)' => Lost(c)
    BY <2>1 DEF Lost
  <2> QED
    BY <2>1, <2>2, LossStay
<1>5. CASE CertsDone
  <2>1. /\ pc = "cert" /\ pc' = "hooks" /\ cur \notin Certs
        /\ UNCHANGED <<cur, cmd, dirty, mem, stateFile, certFile, pendFile>>
    BY <1>5 DEF CertsDone, Goto, disk
  <2>2. \A c \in Certs : Gone(c)
    BY <2>1, CountsAssumption DEF Gone, Certs, Inv, TypeOK, ProcessOK
  <2> QED
    BY <2>1, <2>2 DEF LossInv, Lost, Done, DryRun
<1>6. CASE SkipHook \/ RunHook \/ HookFails
  <2>1. UNCHANGED <<pc, cur, cmd, dirty, mem, stateFile, certFile, pendFile>>
    BY <1>6 DEF SkipHook, RunHook, HookFails, NextHook, disk
  <2> QED
    BY <2>1 DEF LossInv, Lost, Done, DryRun, Gone, Preparing, Issuing
<1> QED
  BY <1>1, <1>2, <1>3, <1>4, <1>5, <1>6 DEF RunSteps, AcmeNewFails, SaveState, SaveStateFails

\* The steps of determine_key.
LEMMA LossDetermine == ASSUME NothingLost, Inv, LossInv, DetermineKey PROVE LossInv'
<1>0. TypeOK
  BY DEF Inv
<1>1. /\ pc = "key" /\ cur \in Certs /\ UNCHANGED <<stateFile, pendFile, certFile, cmd>>
      /\ pc' \in {"cert", "order", "write_pending"}
  BY <1>0, DetermineFacts DEF disk
<1>2. \A c \in Certs : c # cur => (Lost(c)' => Lost(c))
  BY <1>0, <1>1, DetermineMem DEF Lost
<1>3. CASE pc' = "cert"
  <2>1. LeaveCert
    BY <1>0, <1>3, DetermineFacts
  <2>2. ASSUME ~DryRun PROVE NCerts = 1 /\ ~dirty'
    <3>1. ~cmd.dry
      BY <1>0, <1>1, <2>2 DEF DryRun, TypeOK, PositionOK
    <3>2. TakePendingFails
      BY <1>3, <3>1 DEF DetermineKey, TakePending, RotateNow, PrePublishDry, PrePublish,
         LoadKey, GenerateKey, UseKey, Goto
    <3>3. pendFile[cur] # None
      BY <1>1, <3>2 DEF TakePendingFails, Inv, RotationInv, PendingBacked, BackedBy
    <3>4. "load_key" \in Faults /\ dirty' = dirty
      BY <3>2, <3>3 DEF TakePendingFails, NotRenewed
    <3> QED
      BY <1>1, <3>4, FirstClean
  <2> QED
    BY <1>1, <1>2, <2>1, <2>2, LossLeave
<1>4. CASE pc' # "cert"
  <2>1. UNCHANGED <<cur, dirty>>
    BY <1>4 DEF DetermineKey, TakePending, TakePendingFails, RotateNow, PrePublishDry, PrePublish,
       LoadKey, GenerateKey, UseKey, Goto, Renewed, NotRenewed, LeaveCert
  <2>2. Preparing' \/ Issuing'
    BY <1>1, <1>4 DEF Preparing, Issuing
  <2> QED
    BY <1>1, <1>2, <2>1, <2>2, LossStay
<1> QED
  BY <1>3, <1>4

\* The steps of the pre-publication, which is for a certificate without a rotation.
LEMMA LossPrePublish == ASSUME Inv, LossInv, PrePublishSteps PROVE LossInv'
<1>0. TypeOK
  BY DEF Inv
<1>1. Preparing /\ cur \in Certs /\ UNCHANGED <<certFile, cmd>>
  BY <1>0, PreFacts
<1>2. /\ mem' = mem \/ \E v : mem' = [mem EXCEPT ![cur] = v]
      /\ pendFile' = pendFile \/ \E v : pendFile' = [pendFile EXCEPT ![cur] = v]
      /\ stateFile' \in {stateFile, Corrupt, mem'}
  BY DEF PrePublishSteps, WritePendingKey, WritePendingKeyFails, PreBlock, PreBlockSkip,
     PreBlocksDone, AddTlsa, AddTlsaRefused, AddTlsaUnanswered, SavePending, SavePendingFails,
     InsertPending, disk
<1>3. \A c \in Certs : c # cur => mem'[c] = mem[c] /\ pendFile'[c] = pendFile[c]
  BY <1>0, <1>1, <1>2 DEF TypeOK, ProcessOK, DiskOK, State
<1>4. \A c \in Certs : c # cur => (Lost(c)' => Lost(c))
  BY <1>2, <1>3 DEF Lost
<1>5. \A c \in Certs : c = cur => ~Lost(c)'
  BY <1>1, <1>2, PreparingFacts DEF Lost
<1>6. CASE NotRenewed
  BY <1>1, <1>3, <1>4, <1>5, <1>6, LossLeave DEF NotRenewed
<1>7. CASE Preparing' /\ UNCHANGED <<cur, dirty>>
  BY <1>1, <1>3, <1>4, <1>7, LossStay
<1> QED
  BY <1>0, <1>6, <1>7, PreFacts

\* The steps that issue and install a certificate.
LEMMA LossIssue == ASSUME NothingLost, Inv, LossInv, IssueSteps PROVE LossInv'
<1>0. TypeOK
  BY DEF Inv
<1>1. Issuing /\ cur \in Certs /\ UNCHANGED <<mem, stateFile, pendFile, cmd>>
  BY <1>0, IssueFacts
<1>2. \A c \in Certs : Lost(c)' => Lost(c)
  BY <1>1 DEF Lost
<1>3. certFile' = certFile \/ \E v : certFile' = [certFile EXCEPT ![cur] = v]
  BY DEF IssueSteps, Order, OrderFails, WriteCert, WriteCertFails, SaveKey, SaveKeyFails,
     Permissions, PermissionsFail, PublishTlsa, PublishTlsaFails, RunInlineHooks, InlineHooksFail, disk
<1>4. \A c \in Certs : c # cur => certFile'[c] = certFile[c]
  BY <1>0, <1>1, <1>3 DEF TypeOK, DiskOK
<1>5. CASE Issuing' /\ UNCHANGED <<cur, dirty>>
  BY <1>1, <1>2, <1>4, <1>5, LossStay
<1>6. CASE OrderFails \/ WriteCertFails \/ SaveKeyFails
  <2>1. NotRenewed /\ ("order" \in Faults \/ "io" \in Faults)
    BY <1>6 DEF OrderFails, WriteCertFails, SaveKeyFails
  <2>2. NCerts = 1 /\ ~dirty'
    BY <1>1, <2>1, FirstClean DEF NotRenewed
  <2> QED
    BY <1>1, <1>2, <1>4, <2>1, <2>2, LossLeave DEF NotRenewed
<1>7. CASE PermissionsFail \/ RunInlineHooks \/ InlineHooksFail
  <2>1. LeaveCert /\ pc \in {"perms", "publish"} /\ certFile' = certFile
    BY <1>7 DEF PermissionsFail, RunInlineHooks, InlineHooksFail, NotRenewed, Renewed, disk
  <2>2. \A c \in Certs : c = cur /\ Lost(c)' => Done(c)'
    BY <1>1, <1>2, <2>1, WrittenDone DEF Done
  <2> QED
    BY <1>1, <1>2, <1>4, <2>1, <2>2, LossLeave
<1>8. IssueSteps => \/ Issuing' /\ UNCHANGED <<cur, dirty>>
                    \/ OrderFails \/ WriteCertFails \/ SaveKeyFails
                    \/ PermissionsFail \/ RunInlineHooks \/ InlineHooksFail
  BY DEF IssueSteps, Order, WriteCert, SaveKey, Permissions, PublishTlsa, PublishTlsaFails,
     NextName, Goto, Issuing
<1> QED
  BY <1>5, <1>6, <1>7, <1>8

\* Time does not drop a rotation from memory.
LEMMA TickLost == ASSUME TypeOK, Tick, NEW c \in Certs, Lost(c)' PROVE Lost(c)
<1>1. mem[c] # None => mem'[c] # None
  <2> SUFFICES ASSUME mem[c] # None PROVE mem'[c] # None
    OBVIOUS
  <2>1. mem[c] \in PendingRotation
    BY DEF TypeOK, ProcessOK, State
  <2>2. mem'[c] = [mem[c] EXCEPT !.elapsed = Older(@)]
    BY DEF Tick, OlderState
  <2>3. mem'[c] \in PendingRotation
    BY <2>1, <2>2, OlderType DEF PendingRotation
  <2> QED
    BY <2>3, MarkersAssumption DEF PendingRotation
<1> QED
  BY <1>1, TickMem DEF Lost

\* Every step keeps this.
LEMMA LossNext == ASSUME NothingLost, Inv, LossInv, [Next]_vars PROVE LossInv'
<1>1. CASE Crash \/ CrashInWrite
  BY <1>1 DEF Crash, CrashInWrite, Exit, LossInv, Gone, Preparing, Issuing
<1>2. CASE Tick
  <2>1. UNCHANGED <<pc, cur, cmd, dirty, certFile, pendFile>>
    BY <1>2, TickFacts DEF run
  <2>2. \A c \in Certs : Lost(c)' => Lost(c)
    BY <1>2, TickLost DEF Inv
  <2> QED
    BY <2>1, <2>2 DEF LossInv, Done, DryRun, Gone, Preparing, Issuing
<1>3. CASE (\E cm \in Commands : Start(cm)) \/ (\E c \in Certs : BecomesDue(c)) \/ UNCHANGED vars
  <2>1. /\ UNCHANGED <<cur, dirty, mem, stateFile, certFile, pendFile>>
        /\ UNCHANGED <<pc, cmd>> \/ (pc = "idle" /\ pc' \in {"load", "dp_cert"})
    BY <1>3, WorldFacts DEF disk
  <2>2. CASE UNCHANGED <<pc, cmd>>
    BY <2>1, <2>2 DEF LossInv, Lost, Done, DryRun, Gone, Preparing, Issuing
  <2>3. CASE pc = "idle" /\ pc' \in {"load", "dp_cert"}
    BY <2>1, <2>3 DEF LossInv, Gone, Preparing, Issuing
  <2> QED
    BY <2>1, <2>2, <2>3
<1>4. ~DanePublishSteps
  BY DaneFacts DEF Inv
<1> QED
  BY Groups, LossRun, LossDetermine, LossPrePublish, LossIssue, <1>1, <1>2, <1>3, <1>4

\* The steps that drop a rotation from state.json.
LEMMA DropSteps ==
    ASSUME Inv, [Next]_vars, NEW c \in Certs, stateFile # Corrupt, stateFile[c] # None,
           stateFile' # Corrupt, stateFile'[c] = None
    PROVE  \/ pc = "hooks" /\ dirty /\ Lost(c)
           \/ Preparing /\ c # cur /\ cur \in Certs /\ Lost(c)
<1>0. TypeOK
  BY DEF Inv
<1>1. CASE RunSteps
  <2>1. pc = "hooks" /\ dirty /\ stateFile' = mem
    BY <1>1 DEF RunSteps, LoadState, AcmeNew, AcmeNewFails, SkipCert, CertsDone, WaitForTtl, NotDue,
       MustRenew, SkipHook, RunHook, HookFails, SaveState, SaveStateFails, disk
  <2> QED
    BY <2>1 DEF Lost
<1>2. CASE PrePublishSteps
  <2>1. /\ Preparing /\ cur \in Certs /\ stateFile' = mem'
        /\ mem' = [mem EXCEPT ![cur] = [elapsed |-> 0, old_ttl |-> maxTtl]]
    BY <1>0, <1>2, PreFacts DEF PrePublishSteps, WritePendingKey, WritePendingKeyFails, PreBlock, PreBlockSkip,
       PreBlocksDone, AddTlsa, AddTlsaRefused, AddTlsaUnanswered, SavePending, SavePendingFails,
       InsertPending, disk
  <2>2. c # cur
    BY <2>1, PreparingFacts
  <2>3. mem[c] = None
    BY <1>0, <2>1, <2>2 DEF TypeOK, ProcessOK, State
  <2> QED
    BY <2>1, <2>2, <2>3 DEF Lost
<1>3. ~Tick
  <2> SUFFICES ASSUME Tick PROVE FALSE
    OBVIOUS
  <2>1. stateFile[c] \in PendingRotation
    BY <1>0 DEF TypeOK, DiskOK, State
  <2>2. stateFile'[c] = [stateFile[c] EXCEPT !.elapsed = Older(@)]
    BY DEF Tick, OlderState
  <2>3. stateFile'[c] \in PendingRotation
    BY <2>1, <2>2, OlderType DEF PendingRotation
  <2> QED
    BY <2>3, MarkersAssumption DEF PendingRotation
<1>4. ~DetermineKey /\ ~IssueSteps /\ ~DanePublishSteps
  BY <1>0, DetermineFacts, IssueFacts, DaneFacts DEF disk
<1>5. ~Crash /\ ~CrashInWrite
  BY DEF Crash, CrashInWrite, disk
<1>6. ~((\E cm \in Commands : Start(cm)) \/ (\E d \in Certs : BecomesDue(d)) \/ UNCHANGED vars)
  BY WorldFacts DEF disk
<1> QED
  BY Groups, <1>1, <1>2, <1>3, <1>4, <1>5, <1>6

\* A pending rotation leaves state.json only once the certificate for its key is
\* installed: with one certificate whatever fails and wherever the process is killed,
\* with several as long as orders, writes and the loading of keys succeed.
THEOREM PendingIsKept == OnlyRenewals /\ NothingLost => (Spec => PendingKept)
<1> SUFFICES ASSUME OnlyRenewals, NothingLost PROVE Spec => PendingKept
  OBVIOUS
<1>1. Inv /\ LossInv /\ [Next]_vars => Inv' /\ LossInv'
  BY NextInv, LossNext
<1>2. Init => Inv /\ LossInv
  <2>1. Init => LossInv
    BY DEF Init, LossInv, Gone, Preparing, Issuing
  <2> QED
    BY <2>1, InitInv
<1>3. ASSUME Inv, LossInv, [Next]_vars, NEW c \in Certs, ~DryRun, stateFile # Corrupt,
             stateFile[c] # None, stateFile' # Corrupt, stateFile'[c] = None
      PROVE  Done(c)
  <2>1. CASE pc = "hooks" /\ dirty /\ Lost(c)
    BY <1>3, <2>1 DEF LossInv, Gone
  <2>2. CASE Preparing /\ c # cur /\ cur \in Certs /\ Lost(c)
    <3>1. ~(c >= cur)
      BY <1>3, <2>2, UnreachedKept DEF Unreached
    <3>2. c < cur /\ NCerts # 1
      BY <2>2, <3>1, CountsAssumption DEF Certs
    <3> QED
      BY <1>3, <2>2, <3>2 DEF LossInv, Gone
  <2> QED
    BY <1>3, <2>1, <2>2, DropSteps
<1>4. Inv /\ LossInv /\ [Next]_vars =>
        [\A c \in Certs :
           /\ ~DryRun
           /\ stateFile # Corrupt /\ stateFile[c] # None
           /\ stateFile' # Corrupt /\ stateFile'[c] = None
           => certFile[c] # None /\ certFile[c].key = pendFile[c]]_vars
  BY <1>3 DEF Done
<1> QED
  BY <1>1, <1>2, <1>4, PTL DEF Spec, PendingKept
=============================================================================
