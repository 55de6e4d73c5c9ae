---------------------------- MODULE OrderProofs ----------------------------
(***************************************************************************)
(* The ACME order flow, for any number of domains, solvers and attempts,   *)
(* any configuration and any failures: it implements Issuance, leaves no   *)
(* challenge behind, shows the challenges while the CA may look, and is    *)
(* not disturbed by what earlier attempts have left.                       *)
(***************************************************************************)
EXTENDS AcmeOrder, TLAPS

\* From the first challenge that is set ready to the result.
Flow == {"ready", "poll", "finalize", "download", "fetch"}

\* What the CA's answers say: an order that is ready or further has all its domains
\* validated, and a certificate is fetched only for a valid order.
StatusInv ==
    /\ pc = "create" => valid = {}
    /\ pc \in {"create", "collect", "present"} => readied = {}
    /\ status \in {"ready", "processing", "valid"} => valid = Domains
    /\ pc = "fetch" => status = "valid"

\* The challenges presented so far are in place until the cleanup.
ShownInv ==
    /\ pc = "present" => \A j \in Domains : j < i => Challenge(j) \in shown[SolverAt(j)]
    /\ pc \in Flow => \A j \in Domains : Challenge(j) \in shown[SolverAt(j)]
    /\ readied \subseteq {auths[j] : j \in Domains}

\* A challenge of the running attempt that the cleanup has still to come to.
Mine(s, ch) ==
    /\ pc \in {"present", "cleanup"} \cup Flow
    /\ \E j \in Domains : /\ s = SolverAt(j) /\ ch = Challenge(j)
                          /\ pc = "present" => j < i
                          /\ pc = "cleanup" => j >= i

LeftInv == \A s \in Solvers : \A ch \in shown[s] : ch.attempt \in uncleaned \/ Mine(s, ch)

OrderInv == TypeOK /\ StatusInv /\ ShownInv /\ LeftInv

(***************************************************************************)
(* What the configuration and the CA have to grant for a challenge to be   *)
(* where the CA looks: the zip of set_challenges_ready pairs by position,  *)
(* a text that is not found stands for DNS-01, and a solver that answers   *)
(* itself may have no address, or no answer.                               *)
(***************************************************************************)
Paired == \A o \in AuthOrders : \A j \in Domains : SolverFor(o[j]) = SolverFor(j)
Spelled == \A d \in Respelled : ChallengeType(SolverFor(d)) = "dns-01"
Offering == \A d \in Domains : Desired(d) \in Offered[d]
AllReachable == \A d \in Domains : Reachable(SolverFor(d))

\* The authorizations are paired with the solvers of their own domains.
PairedInv == \A j \in Domains : SolverFor(auths[j]) = SolverFor(j)

\* An attempt without faults is never refused: an order of it does not get invalid.
CalmInv ==
    attempt \notin FaultyAttempts =>
      /\ StaleHarmless
      /\ pc \in {"collect", "present", "ready", "poll"} => status \in {"pending", "ready"}
      /\ pc = "finalize" => status = "ready"
      /\ pc = "download" => status \in {"processing", "valid"}

-----------------------------------------------------------------------------
\* The solver of a domain exists, and a challenge is one.
LEMMA SolverFacts ==
    /\ \A d \in Domains : SolverFor(d) \in Solvers /\ SolverAt(d) = SolverFor(d)
    /\ Domains = 1..NDomains /\ NDomains \in Nat /\ Retries \in Nat /\ 1 \in Attempts
    /\ \A d \in Domains : d \in Nat
<1>1. \A d \in Domains : SolverFor(d) \in Solvers /\ SolverAt(d) = SolverFor(d)
  BY EveryDomainHasSolver DEF SolverAt
<1> QED
  BY <1>1, OrderBounds DEF Domains, Attempts

\* The challenge at a position, by its fields.
LEMMA ChallengeFacts ==
    ASSUME TypeOK, NEW j \in Domains
    PROVE  /\ Challenge(j) \in Challenges
           /\ Challenge(j).attempt = attempt /\ Challenge(j).domain = auths[j]
           /\ auths[j] \in Domains
  BY DEF TypeOK, Challenge, Challenges

\* What present adds and cleanup removes.
LEMMA PutTake ==
    ASSUME TypeOK, NEW j \in Domains
    PROVE  /\ Put(j) \in [Solvers -> SUBSET Challenges]
           /\ Take(j) \in [Solvers -> SUBSET Challenges]
           /\ \A s \in Solvers : s # SolverAt(j) => Put(j)[s] = shown[s] /\ Take(j)[s] = shown[s]
           /\ Put(j)[SolverAt(j)] = shown[SolverAt(j)] \cup {Challenge(j)}
           /\ Take(j)[SolverAt(j)] = shown[SolverAt(j)] \ {Challenge(j)}
<1>1. SolverAt(j) \in Solvers /\ Challenge(j) \in Challenges
  BY SolverFacts, ChallengeFacts
<1> QED
  BY <1>1 DEF Put, Take, TypeOK

\* What is served by the process ends with it; nothing is added.
LEMMA VanishFacts ==
    ASSUME NEW sh \in [Solvers -> SUBSET Challenges]
    PROVE  /\ Vanish(sh) \in [Solvers -> SUBSET Challenges]
           /\ \A s \in Solvers : Vanish(sh)[s] \subseteq sh[s]
  BY DEF Vanish

-----------------------------------------------------------------------------
(***************************************************************************)
(* Types.                                                                  *)
(***************************************************************************)
\* The initial state.
LEMMA OrderInit == Init => OrderInv
<1> SUFFICES ASSUME Init PROVE OrderInv
  OBVIOUS
<1>1. TypeOK
  BY SolverFacts DEF Init, TypeOK
<1> QED
  BY <1>1, OrderMarker DEF Init, OrderInv, StatusInv, ShownInv, LeftInv, Flow

\* The end of an attempt.
LEMMA EndType ==
    ASSUME TypeOK, NEW r \in {None, "issued", "refused", "timeout", "error"},
           NEW sh \in [Solvers -> SUBSET Challenges], End(r, sh)
    PROVE  /\ shown' \in [Solvers -> SUBSET Challenges] /\ attempt' = attempt
           /\ pc' = "idle" /\ i' \in 1..(NDomains + 1) /\ retries' = retries /\ outcome' = r
           /\ \A s \in Solvers : shown'[s] \subseteq sh[s]
  BY SolverFacts, VanishFacts DEF End

\* Every step keeps the types.
LEMMA OrderType == ASSUME TypeOK, [Next]_vars PROVE TypeOK'
<1>0. /\ 1 \in 1..(NDomains + 1) /\ Retries \in 0..Retries
      /\ \A d \in Domains : d + 1 \in 1..(NDomains + 1)
  BY SolverFacts
<1>1. CASE StartAttempt /\ uncleaned' = uncleaned \ {attempt'}
  BY <1>0, <1>1 DEF StartAttempt, TypeOK
<1>2. CASE CreateOrder /\ UNCHANGED uncleaned
  BY <1>0, <1>2, OrderConfig DEF CreateOrder, Goto, TypeOK
<1>3. CASE (CreateOrderFails \/ CollectFails) /\ UNCHANGED uncleaned
  BY <1>3, EndType DEF CreateOrderFails, CollectFails, TypeOK, ca
<1>4. CASE (Collect \/ AllPresented \/ AllReady) /\ UNCHANGED uncleaned
  BY <1>0, <1>4 DEF Collect, AllPresented, AllReady, Goto, TypeOK, ca
<1>5. CASE Present /\ UNCHANGED uncleaned
  BY <1>0, <1>5, PutTake DEF Present, TypeOK, ca
<1>6. CASE PresentFails /\ uncleaned' = uncleaned \cup {attempt}
  <2>1. PICK sh \in {shown} \cup (IF Fault("present") THEN {Put(i)} ELSE {}) : End("error", sh)
    BY <1>6 DEF PresentFails
  <2>2. sh \in [Solvers -> SUBSET Challenges]
    BY <1>6, <2>1, PutTake DEF PresentFails, TypeOK
  <2> QED
    BY <1>6, <2>1, <2>2, EndType DEF PresentFails, TypeOK, ca
<1>7. CASE SetReady /\ UNCHANGED uncleaned
  BY <1>0, <1>7 DEF SetReady, TypeOK
<1>8. CASE (SetReadyFails \/ FinalizeRefused \/ Fetch) /\ UNCHANGED uncleaned
  BY <1>0, <1>8 DEF SetReadyFails, FinalizeRefused, Fetch, CleanUp, TypeOK, ca
<1>9. CASE (PollOrder \/ PollCertificate) /\ UNCHANGED uncleaned
  <2>1. /\ UNCHANGED <<shown, ca, uncleaned, attempt>>
        /\ pc' \in {"poll", "download", "finalize", "fetch", "cleanup"}
        /\ i' = 1 \/ i' = i
        /\ outcome' = outcome \/ outcome' = "timeout" \/ outcome' = "refused"
    BY <1>9 DEF PollOrder, PollCertificate, Refresh, Goto, CleanUp
  <2>2. retries' \in {retries, Retries} \/ (retries > 0 /\ retries' = retries - 1)
    BY <1>9 DEF PollOrder, PollCertificate, Refresh, Goto, CleanUp
  <2>3. retries' \in 0..Retries
    BY <2>2, SolverFacts DEF TypeOK
  <2> QED
    BY <1>0, <2>1, <2>3 DEF TypeOK, ca
<1>10. CASE Finalize /\ UNCHANGED uncleaned
  BY <1>0, <1>10 DEF Finalize, Goto, TypeOK
<1>11. CASE RequestFails /\ UNCHANGED uncleaned
  BY <1>0, <1>11 DEF RequestFails, CleanUp, TypeOK, ca
<1>12. CASE CleanUpOne /\ UNCHANGED uncleaned
  BY <1>0, <1>12, PutTake DEF CleanUpOne, TypeOK, ca
<1>13. CASE CleanUpFails /\ uncleaned' = uncleaned \cup {attempt}
  BY <1>0, <1>13 DEF CleanUpFails, TypeOK, ca
<1>14. CASE Finish /\ UNCHANGED uncleaned
  BY <1>14, EndType DEF Finish, TypeOK, ca
<1>15. CASE Crash /\ uncleaned' = uncleaned \cup {attempt}
  BY <1>15, EndType DEF Crash, TypeOK, ca
<1>16. CASE CaSteps /\ UNCHANGED uncleaned
  BY <1>16 DEF CaSteps, CaIssues, CaRefuses, CaValidates, TypeOK, process
<1>17. CASE UNCHANGED vars
  BY <1>17 DEF vars, TypeOK
<1> QED
  BY <1>1, <1>2, <1>3, <1>4, <1>5, <1>6, <1>7, <1>8, <1>9, <1>10, <1>11, <1>12, <1>13,
     <1>14, <1>15, <1>16, <1>17 DEF Next, Process, Proper, Spoiling

-----------------------------------------------------------------------------
(***************************************************************************)
(* The steps by what they do to the challenges in place.                   *)
(***************************************************************************)
\* The steps of the flow that leave the challenges alone.
Quiet ==
    \/ CreateOrder \/ Collect \/ AllPresented
    \/ SetReady \/ SetReadyFails \/ AllReady
    \/ PollOrder \/ Finalize \/ FinalizeRefused \/ PollCertificate \/ Fetch \/ RequestFails

\* The ways an attempt ends before the result.
Aborts == CreateOrderFails \/ CollectFails

\* Every step is one of these.
LEMMA Steps ==
    ASSUME [Next]_vars
    PROVE  \/ StartAttempt /\ uncleaned' = uncleaned \ {attempt'}
           \/ Quiet /\ UNCHANGED uncleaned
           \/ Aborts /\ UNCHANGED uncleaned
           \/ Present /\ UNCHANGED uncleaned
           \/ PresentFails /\ uncleaned' = uncleaned \cup {attempt}
           \/ CleanUpOne /\ UNCHANGED uncleaned
           \/ CleanUpFails /\ uncleaned' = uncleaned \cup {attempt}
           \/ Finish /\ UNCHANGED uncleaned
           \/ Crash /\ uncleaned' = uncleaned \cup {attempt}
           \/ CaSteps /\ UNCHANGED uncleaned
           \/ UNCHANGED vars
  BY DEF Next, Process, Proper, Spoiling, Quiet, Aborts

\* The quiet steps: where they lead, and when.
LEMMA QuietFacts ==
    ASSUME TypeOK, Quiet
    PROVE  /\ shown' = shown /\ attempt' = attempt
           /\ \/ pc = "create" /\ pc' = "collect" /\ readied' = readied
              \/ pc = "collect" /\ pc' = "present" /\ i' = 1 /\ UNCHANGED ca
              \/ pc = "present" /\ pc' = "ready" /\ i \notin Domains /\ UNCHANGED ca
              \/ pc = "ready" /\ pc' = "ready" /\ i \in Domains /\ readied' = readied \cup {auths[i]}
                 /\ UNCHANGED <<status, auths, valid, outcome>>
              \/ pc = "ready" /\ pc' = "poll" /\ UNCHANGED <<ca, outcome>>
              \/ pc \in Flow /\ pc' = "cleanup" /\ i' = 1 /\ UNCHANGED <<auths, readied, valid>>
              \/ pc \in Flow \ {"ready"} /\ pc' \in Flow \ {"ready"}
                 /\ UNCHANGED <<auths, readied, valid, outcome>>
<1>1. CASE CreateOrder \/ Collect \/ AllPresented
  BY <1>1 DEF CreateOrder, Collect, AllPresented, Goto
<1>2. CASE SetReady \/ SetReadyFails \/ AllReady
  BY <1>2 DEF SetReady, SetReadyFails, AllReady, Goto, CleanUp, Flow, ca
<1>3. CASE PollOrder \/ PollCertificate
  BY <1>3 DEF PollOrder, PollCertificate, Refresh, Goto, CleanUp, Flow, ca
<1>4. CASE Finalize \/ FinalizeRefused \/ Fetch
  BY <1>4 DEF Finalize, FinalizeRefused, Fetch, Goto, CleanUp, Flow, ca
<1>5. CASE RequestFails
  BY <1>5 DEF RequestFails, CleanUp, Flow, ca
<1> QED
  BY Quiet, <1>1, <1>2, <1>3, <1>4, <1>5 DEF Quiet

\* The steps that end an attempt leave nothing in place that was not there, or
\* was being put there, and nothing else changes but the result.
LEMMA EndFacts ==
    ASSUME TypeOK, Aborts \/ PresentFails \/ Finish \/ Crash
    PROVE  /\ pc # "idle" /\ pc' = "idle" /\ attempt' = attempt /\ UNCHANGED ca
           /\ outcome' = "error" \/ (Finish /\ outcome' = outcome)
           /\ \A s \in Solvers : \A ch \in shown'[s] :
                 ch \in shown[s] \/ (PresentFails /\ s = SolverAt(i) /\ ch = Challenge(i))
<1>1. CASE Aborts \/ Finish \/ Crash
  <2>1. \E r \in {None, "issued", "refused", "timeout", "error"} :
          End(r, shown) /\ (r = "error" \/ (Finish /\ r = outcome))
    BY <1>1 DEF Aborts, CreateOrderFails, CollectFails, Finish, Crash, TypeOK
  <2>2. PICK r \in {None, "issued", "refused", "timeout", "error"} :
          End(r, shown) /\ (r = "error" \/ (Finish /\ r = outcome))
    BY <2>1
  <2>3. pc # "idle" /\ UNCHANGED ca
    BY <1>1 DEF Aborts, CreateOrderFails, CollectFails, Finish, Crash
  <2>4. shown \in [Solvers -> SUBSET Challenges]
    BY DEF TypeOK
  <2> QED
    BY <2>2, <2>3, <2>4, EndType
<1>2. CASE PresentFails
  <2>1. PICK sh \in {shown} \cup (IF Fault("present") THEN {Put(i)} ELSE {}) : End("error", sh)
    BY <1>2 DEF PresentFails
  <2>2. i \in Domains /\ pc # "idle" /\ UNCHANGED ca
    BY <1>2 DEF PresentFails
  <2>3. sh = shown \/ sh = Put(i)
    BY <2>1
  <2>4. sh \in [Solvers -> SUBSET Challenges]
    BY <2>2, <2>3, PutTake DEF TypeOK
  <2>5. \A s \in Solvers : \A ch \in sh[s] :
          ch \in shown[s] \/ (s = SolverAt(i) /\ ch = Challenge(i))
    BY <2>2, <2>3, PutTake
  <2>6. /\ pc' = "idle" /\ attempt' = attempt /\ outcome' = "error"
        /\ \A s \in Solvers : shown'[s] \subseteq sh[s]
    BY <2>1, <2>4, EndType
  <2> QED
    BY <1>2, <2>2, <2>5, <2>6
<1> QED
  BY <1>1, <1>2
-----------------------------------------------------------------------------
(***************************************************************************)
(* The inductive invariant.                                                *)
(***************************************************************************)
\* Every step keeps what the CA's answers say.
LEMMA StatusNext == ASSUME TypeOK, StatusInv, [Next]_vars PROVE StatusInv'
<1>1. CASE StartAttempt
  BY <1>1, OrderMarker DEF StartAttempt, StatusInv
<1>2. CASE CreateOrder
  BY <1>2 DEF CreateOrder, Goto, StatusInv
<1>3. CASE Collect \/ AllPresented \/ SetReady \/ SetReadyFails \/ AllReady
  BY <1>3 DEF Collect, AllPresented, SetReady, SetReadyFails, AllReady, Goto, CleanUp, StatusInv, ca
<1>4. CASE PollOrder \/ PollCertificate
  BY <1>4 DEF PollOrder, PollCertificate, Refresh, Goto, CleanUp, StatusInv, ca
<1>5. CASE Finalize \/ FinalizeRefused \/ Fetch \/ RequestFails
  BY <1>5 DEF Finalize, FinalizeRefused, Fetch, RequestFails, Goto, CleanUp, StatusInv, ca
<1>6. CASE Aborts \/ PresentFails \/ Finish \/ Crash
  BY <1>6, EndFacts DEF StatusInv, ca
<1>7. CASE Present \/ CleanUpOne \/ CleanUpFails
  BY <1>7 DEF Present, CleanUpOne, CleanUpFails, StatusInv, ca
<1>8. CASE CaIssues \/ CaRefuses
  BY <1>8 DEF CaIssues, CaRefuses, StatusInv, process
<1>9. ASSUME NEW d \in Domains, CaValidates(d) PROVE StatusInv'
  BY <1>9 DEF CaValidates, StatusInv, process
<1>10. CASE UNCHANGED vars
  BY <1>10 DEF vars, StatusInv
<1> QED
  BY Steps, <1>1, <1>2, <1>3, <1>4, <1>5, <1>6, <1>7, <1>8, <1>9, <1>10 DEF Quiet, CaSteps

\* Every step keeps the challenges in place that the CA may still look at.
LEMMA ShownNext == ASSUME TypeOK, StatusInv, ShownInv, [Next]_vars PROVE ShownInv'
<1>0. "present" \notin Flow /\ "cleanup" \notin Flow /\ "idle" \notin Flow /\ "create" \notin Flow
      /\ "collect" \notin Flow /\ "ready" \in Flow /\ "poll" \in Flow
  BY DEF Flow
<1>1. CASE StartAttempt
  BY <1>0, <1>1 DEF StartAttempt, ShownInv
<1>2. CASE Quiet
  <2> USE <1>0
  <2>1. CASE pc = "create"
    BY <1>2, <2>1, QuietFacts DEF StatusInv, ShownInv
  <2>2. CASE pc = "collect"
    <3>1. pc' = "present" /\ i' = 1 /\ UNCHANGED ca
      BY <1>2, <2>2, QuietFacts
    <3>2. \A j \in Domains : ~(j < 1)
      BY SolverFacts
    <3> QED
      BY <2>2, <3>1, <3>2 DEF StatusInv, ShownInv, ca
  <2>3. CASE pc = "present"
    <3>1. /\ pc' = "ready" /\ i \notin Domains /\ UNCHANGED ca
          /\ shown' = shown /\ attempt' = attempt
      BY <1>2, <2>3, QuietFacts
    <3>2. \A j \in Domains : j < i
      BY <3>1, SolverFacts DEF TypeOK
    <3> QED
      BY <2>3, <3>1, <3>2 DEF ShownInv, ca, Challenge
  <2>4. CASE pc \in Flow
    <3>1. /\ pc' \in Flow \/ pc' = "cleanup"
          /\ shown' = shown /\ attempt' = attempt /\ auths' = auths
          /\ readied' = readied \/ (i \in Domains /\ readied' = readied \cup {auths[i]})
      BY <1>2, <2>4, QuietFacts DEF ca
    <3> QED
      BY <2>4, <3>1 DEF ShownInv, Challenge
  <2> QED
    BY <1>2, <2>1, <2>2, <2>3, <2>4, QuietFacts
<1>3. CASE Aborts \/ PresentFails \/ Finish \/ Crash
  BY <1>0, <1>3, EndFacts DEF ShownInv, ca
<1>4. CASE Present
  <2>1. /\ i \in Domains /\ pc = "present" /\ pc' = "present" /\ i' = i + 1
        /\ shown' = Put(i) /\ UNCHANGED <<attempt, auths, readied>>
    BY <1>4 DEF Present, ca
  <2>2. \A j \in Domains : j < i' => j < i \/ j = i
    BY <2>1, SolverFacts DEF TypeOK
  <2>3. \A j \in Domains : j < i' => Challenge(j) \in Put(i)[SolverAt(j)]
    BY <2>1, <2>2, SolverFacts, PutTake DEF ShownInv
  <2> QED
    BY <1>0, <2>1, <2>3 DEF ShownInv, Challenge
<1>5. CASE CleanUpOne \/ CleanUpFails
  BY <1>0, <1>5 DEF CleanUpOne, CleanUpFails, ShownInv, ca
<1>6. CASE CaSteps
  BY <1>6 DEF CaSteps, CaIssues, CaRefuses, CaValidates, ShownInv, process, Challenge
<1>7. CASE UNCHANGED vars
  BY <1>7 DEF vars, ShownInv, Challenge
<1> QED
  BY Steps, <1>1, <1>2, <1>3, <1>4, <1>5, <1>6, <1>7

\* Every step keeps the account of what is still to be cleaned up: only a failed
\* present, a failed cleanup or the end of the process takes a challenge off it.
LEMMA LeftNext == ASSUME TypeOK, LeftInv, [Next]_vars PROVE LeftInv'
<1>0. "idle" \notin {"present", "cleanup"} \cup Flow
  BY DEF Flow
<1>m. \A s, ch : Mine(s, ch) => ch.attempt = attempt
  BY ChallengeFacts DEF Mine
<1>1. CASE StartAttempt /\ uncleaned' = uncleaned \ {attempt'}
  <2>1. \A s \in Solvers : \A ch \in shown[s] : ch.attempt \in uncleaned
    BY <1>0, <1>1 DEF StartAttempt, LeftInv, Mine
  <2>2. \A s \in Solvers : \A ch \in shown[s] : ch.attempt # attempt'
    BY <1>1 DEF StartAttempt
  <2> QED
    BY <1>1, <2>1, <2>2 DEF StartAttempt, LeftInv
<1>2. CASE Quiet /\ UNCHANGED uncleaned
  <2>1. shown' = shown /\ attempt' = attempt
    BY <1>2, QuietFacts
  <2>2. ASSUME NEW s \in Solvers, NEW ch \in shown[s], Mine(s, ch) PROVE Mine(s, ch)'
    <3>1. PICK j \in Domains : /\ s = SolverAt(j) /\ ch = Challenge(j)
                               /\ pc = "present" => j < i
                               /\ pc = "cleanup" => j >= i
      BY <2>2 DEF Mine
    <3>2. pc \in {"present", "cleanup"} \cup Flow
      BY <2>2 DEF Mine
    <3>3. /\ auths' = auths
          /\ pc' \in Flow \/ (pc' = "cleanup" /\ i' = 1)
          /\ pc' # "present"
      BY <1>2, <3>2, QuietFacts DEF Flow, ca
    <3>4. j >= 1
      BY SolverFacts
    <3>5. Challenge(j)' = Challenge(j)
      BY <2>1, <3>3 DEF Challenge
    <3>6. pc' = "cleanup" => j >= i'
      BY <3>3, <3>4 DEF Flow
    <3> QED
      BY <3>1, <3>3, <3>5, <3>6 DEF Mine
  <2> QED
    BY <1>2, <2>1, <2>2 DEF LeftInv
<1>3. CASE Aborts /\ UNCHANGED uncleaned
  <2>1. \A s, ch : ~Mine(s, ch)
    BY <1>3 DEF Aborts, CreateOrderFails, CollectFails, Mine, Flow
  <2>2. ~PresentFails
    BY <1>3 DEF Aborts, CreateOrderFails, CollectFails, PresentFails
  <2> QED
    BY <1>3, <2>1, <2>2, EndFacts DEF LeftInv
<1>4. CASE Present /\ UNCHANGED uncleaned
  <2>1. /\ i \in Domains /\ pc = "present" /\ pc' = "present" /\ i' = i + 1
        /\ shown' = Put(i) /\ UNCHANGED <<attempt, auths, uncleaned>>
    BY <1>4 DEF Present, ca
  <2>2. \A j \in Domains : j < i \/ j = i => j < i'
    BY <2>1, SolverFacts DEF TypeOK
  <2>3. \A j \in Domains : Challenge(j)' = Challenge(j)
    BY <2>1 DEF Challenge
  <2>4. ASSUME NEW s \in Solvers, NEW ch \in shown'[s]
        PROVE  ch \in shown[s] \/ (s = SolverAt(i) /\ ch = Challenge(i))
    BY <2>1, <2>4, PutTake
  <2>5. \A s, ch : Mine(s, ch) => Mine(s, ch)'
    BY <2>1, <2>2, <2>3 DEF Mine
  <2>6. \A s, ch : s = SolverAt(i) /\ ch = Challenge(i) => Mine(s, ch)'
    BY <2>1, <2>2, <2>3 DEF Mine
  <2> QED
    BY <2>1, <2>4, <2>5, <2>6 DEF LeftInv
<1>5. CASE (PresentFails \/ Crash) /\ uncleaned' = uncleaned \cup {attempt}
  <2>1. PresentFails => Challenge(i).attempt = attempt
    BY ChallengeFacts DEF PresentFails
  <2> QED
    BY <1>m, <1>5, <2>1, EndFacts DEF LeftInv
<1>6. CASE CleanUpOne /\ UNCHANGED uncleaned
  <2>1. /\ i \in Domains /\ pc = "cleanup" /\ pc' = "cleanup" /\ i' = i + 1
        /\ shown' = Take(i) /\ UNCHANGED <<attempt, auths, uncleaned>>
    BY <1>6 DEF CleanUpOne, ca
  <2>2. \A j \in Domains : j >= i => j = i \/ j >= i'
    BY <2>1, SolverFacts DEF TypeOK
  <2>3. \A j \in Domains : Challenge(j)' = Challenge(j)
    BY <2>1 DEF Challenge
  <2>4. ASSUME NEW s \in Solvers, NEW ch \in shown'[s]
        PROVE  ch \in shown[s] /\ ~(s = SolverAt(i) /\ ch = Challenge(i))
    BY <2>1, <2>4, PutTake
  <2>5. \A s, ch : Mine(s, ch) /\ ~(s = SolverAt(i) /\ ch = Challenge(i)) => Mine(s, ch)'
    BY <2>1, <2>2, <2>3 DEF Mine
  <2> QED
    BY <2>1, <2>4, <2>5 DEF LeftInv
<1>7. CASE CleanUpFails /\ uncleaned' = uncleaned \cup {attempt}
  BY <1>m, <1>7 DEF CleanUpFails, LeftInv
<1>8. CASE Finish /\ UNCHANGED uncleaned
  <2>1. pc = "cleanup" /\ \A j \in Domains : ~(j >= i)
    BY <1>8, SolverFacts DEF Finish, TypeOK
  <2>2. \A s, ch : ~Mine(s, ch)
    BY <2>1 DEF Mine
  <2>3. ~PresentFails
    BY <2>1 DEF PresentFails
  <2> QED
    BY <1>8, <2>2, <2>3, EndFacts DEF LeftInv
<1>9. CASE CaSteps /\ UNCHANGED uncleaned
  <2>1. UNCHANGED <<shown, pc, i, attempt, auths>>
    BY <1>9 DEF CaSteps, CaIssues, CaRefuses, CaValidates, process
  <2> QED
    BY <1>9, <2>1 DEF LeftInv, Mine, Challenge
<1>10. CASE UNCHANGED vars
  BY <1>10 DEF vars, LeftInv, Mine, Challenge
<1> QED
  BY Steps, <1>1, <1>2, <1>3, <1>4, <1>5, <1>6, <1>7, <1>8, <1>9, <1>10

\* Every step keeps the invariant.
LEMMA OrderNext == OrderInv /\ [Next]_vars => OrderInv'
  BY OrderType, StatusNext, ShownNext, LeftNext DEF OrderInv

\* The inductive invariant of the order flow holds in every reachable state.
THEOREM OrderInvariant == Spec => []OrderInv
  BY OrderInit, OrderNext, PTL DEF Spec

\* The variables keep their types: both countdowns of the poll loops stay at or
\* above zero, and the loops over the challenges within the list.
THEOREM OrderTypeCorrect == Spec => []TypeOK
<1>1. OrderInv => TypeOK
  BY DEF OrderInv
<1> QED
  BY <1>1, OrderInvariant, PTL

\* Whatever fails and in whatever order the CA lists the authorizations, an attempt
\* leaves a challenge in place only if one of its presents or cleanups failed or its
\* process died: renew_certificate's "always clean up challenges".
THEOREM ChallengesRemoved == Spec => []NothingLeft
<1>1. OrderInv => NothingLeft
  BY DEF OrderInv, LeftInv, Mine, Flow, NothingLeft
<1> QED
  BY <1>1, OrderInvariant, PTL

-----------------------------------------------------------------------------
(***************************************************************************)
(* The challenges are found where the CA looks for them.                   *)
(***************************************************************************)
\* The pairing, from the order in which the CA lists the authorizations.
LEMMA PairedInit == Init => PairedInv
  BY DEF Init, PairedInv

\* The pairing is kept.
LEMMA PairedNext == ASSUME Paired, TypeOK, PairedInv, [Next]_vars PROVE PairedInv'
<1>1. CASE CreateOrder
  BY <1>1 DEF CreateOrder, Paired, PairedInv, SolverFor
<1>2. CASE UNCHANGED auths
  BY <1>2 DEF PairedInv, SolverFor
<1>3. CreateOrder \/ UNCHANGED auths
  <2>1. CASE StartAttempt \/ Present \/ CleanUpOne \/ CleanUpFails
    BY <2>1 DEF StartAttempt, Present, CleanUpOne, CleanUpFails, ca
  <2>2. CASE Quiet
    <3>1. CASE pc = "create"
      BY <2>2, <3>1 DEF Quiet, Collect, AllPresented, SetReady, SetReadyFails, AllReady,
         PollOrder, PollCertificate, Refresh, Finalize, FinalizeRefused, Fetch, RequestFails
    <3> QED
      BY <2>2, <3>1, QuietFacts DEF ca
  <2>3. CASE Aborts \/ PresentFails \/ Finish \/ Crash
    BY <2>3, EndFacts DEF ca
  <2>4. CASE CaSteps
    BY <2>4 DEF CaSteps, CaIssues, CaRefuses, CaValidates
  <2>5. CASE UNCHANGED vars
    BY <2>5 DEF vars
  <2> QED
    BY Steps, <2>1, <2>2, <2>3, <2>4, <2>5
<1> QED
  BY <1>1, <1>2, <1>3

\* A challenge that is set ready is found, until the flow has its result.
LEMMA Available ==
    ASSUME Spelled, AllReachable, OrderInv, PairedInv, NEW d \in readied, pc \in Flow
    PROVE  Found(d)
<1>1. PICK j \in Domains : d = auths[j]
  BY DEF OrderInv, ShownInv
<1>2. SolverFor(d) = SolverFor(j) /\ d \in Domains
  BY <1>1 DEF PairedInv, OrderInv, TypeOK
<1>3. [attempt |-> attempt, domain |-> d] \in shown[SolverFor(d)]
  BY <1>1, <1>2, SolverFacts DEF OrderInv, ShownInv, Challenge
<1>4. Desired(d) = ChallengeType(SolverFor(d))
  BY DEF Desired, Spelled
<1>5. Reachable(SolverFor(d))
  BY <1>2 DEF AllReachable
<1> QED
  BY <1>3, <1>4, <1>5 DEF Found

\* From the moment a challenge is set ready until the result, the CA finds it at the
\* solver of its domain, given that the authorizations come in an order that pairs each
\* with the solver of its own domain, that only dns-01 domains are respelled, and that
\* the solvers are dns-01 or webroot ones, or standalone ones with a server.
THEOREM ChallengesAvailable ==
    Paired /\ Spelled /\ AllReachable => (Spec => []ChallengeAvailable)
<1> SUFFICES ASSUME Paired, Spelled, AllReachable PROVE Spec => []ChallengeAvailable
  OBVIOUS
<1>1. TypeOK /\ PairedInv /\ [Next]_vars => PairedInv'
  BY PairedNext
<1>2. OrderInv => TypeOK
  BY DEF OrderInv
<1>3. Spec => []PairedInv
  BY <1>1, <1>2, PairedInit, OrderInvariant, PTL DEF Spec
<1>4. OrderInv /\ PairedInv => ChallengeAvailable
  BY Available DEF ChallengeAvailable, Flow
<1> QED
  BY <1>3, <1>4, OrderInvariant, PTL

-----------------------------------------------------------------------------
(***************************************************************************)
(* What earlier attempts leave behind does not matter.                     *)
(***************************************************************************)
\* Every solver can present what it is handed.
LEMMA Presents ==
    ASSUME TypeOK, PairedInv, NEW j \in Domains
    PROVE  Presentable(SolverAt(j), Challenge(j))
<1>1. auths[j] \in Domains /\ Challenge(j).domain = auths[j]
  BY ChallengeFacts
<1>2. SolverAt(j) = SolverFor(auths[j])
  BY SolverFacts DEF PairedInv
<1> QED
  BY <1>1, <1>2, EveryDomainHasSolver DEF Presentable

\* Initially there is no result.
LEMMA CalmInit == Init => CalmInv
  BY OrderMarker DEF Init, CalmInv, StaleHarmless

\* An attempt without faults stays one whose order cannot be refused.
LEMMA CalmNext ==
    ASSUME Spelled, Offering, AllReachable, OrderInv, PairedInv, CalmInv, [Next]_vars
    PROVE  CalmInv'
<1>0. TypeOK /\ StatusInv
  BY DEF OrderInv
<1>1. CASE StartAttempt
  BY <1>1, OrderMarker DEF StartAttempt, CalmInv, StaleHarmless
<1>2. SUFFICES ASSUME attempt \notin FaultyAttempts, attempt' = attempt, ~StartAttempt PROVE CalmInv'
  <2>1. ~StartAttempt => attempt' = attempt
    <3>1. CASE Present \/ CleanUpOne \/ CleanUpFails
      BY <3>1 DEF Present, CleanUpOne, CleanUpFails
    <3>2. CASE CaSteps
      BY <3>2 DEF CaSteps, CaIssues, CaRefuses, CaValidates, process
    <3>3. CASE UNCHANGED vars
      BY <3>3 DEF vars
    <3> QED
      BY <1>0, Steps, <3>1, <3>2, <3>3, QuietFacts, EndFacts
  <2>2. CASE attempt' \in FaultyAttempts
    BY <2>2 DEF CalmInv
  <2> QED
    BY <1>1, <1>2, <2>1, <2>2
<1>3. \A k : ~Fault(k)
  BY <1>2 DEF Fault
<1>4. CASE CreateOrder \/ Collect \/ AllPresented \/ SetReady \/ AllReady
  BY <1>2, <1>4 DEF CreateOrder, Collect, AllPresented, SetReady, AllReady, Goto, CalmInv,
     StaleHarmless, ca
<1>5. CASE PollOrder \/ PollCertificate
  BY <1>2, <1>5 DEF PollOrder, PollCertificate, Refresh, Goto, CleanUp, CalmInv, StaleHarmless, ca
<1>6. CASE Finalize \/ FinalizeRefused \/ Fetch
  BY <1>2, <1>6 DEF Finalize, FinalizeRefused, Fetch, Goto, CleanUp, CalmInv, StaleHarmless, ca
<1>7. ~(SetReadyFails \/ RequestFails \/ Aborts \/ Crash \/ CleanUpFails \/ CaRefuses)
  BY <1>3 DEF SetReadyFails, RequestFails, Aborts, CreateOrderFails, CollectFails, Offering, Crash,
     CleanUpFails, CaRefuses
<1>8. ~PresentFails
  BY <1>0, <1>3, Presents DEF PresentFails
<1>9. CASE Present \/ CleanUpOne
  BY <1>2, <1>9 DEF Present, CleanUpOne, CalmInv, StaleHarmless, ca
<1>10. CASE Finish
  BY <1>2, <1>10 DEF Finish, End, CalmInv, StaleHarmless, ca
<1>11. CASE CaIssues
  BY <1>2, <1>11 DEF CaIssues, CalmInv, StaleHarmless, process
<1>12. ASSUME NEW d \in Domains, CaValidates(d) PROVE CalmInv'
  <2>1. d \in readied /\ status = "pending" /\ UNCHANGED <<pc, outcome>>
    BY <1>12 DEF CaValidates, process
  <2>2. CASE pc \in Flow
    <3>1. Found(d)
      BY <2>1, <2>2, Available
    <3>2. status' \in {"pending", "ready"}
      BY <1>12, <2>1, <3>1 DEF CaValidates
    <3> QED
      BY <1>2, <2>1, <3>2 DEF CalmInv, StaleHarmless
  <2>3. CASE pc \notin Flow
    BY <1>0, <1>2, <2>1, <2>3 DEF Flow, CalmInv, StaleHarmless, StatusInv
  <2> QED
    BY <2>2, <2>3
<1>13. CASE UNCHANGED vars
  BY <1>2, <1>13 DEF vars, CalmInv, StaleHarmless
<1> QED
  BY Steps, <1>1, <1>2, <1>4, <1>5, <1>6, <1>7, <1>8, <1>9, <1>10, <1>11, <1>12, <1>13 DEF Quiet, CaSteps

\* An attempt without a fault of its own ends with a certificate or because the CA is
\* too slow, whatever challenges earlier attempts have left in place, given the same
\* pairing, spelling and solvers, and a CA that offers the challenge types asked for.
THEOREM LeftoversHarmless ==
    Paired /\ Spelled /\ Offering /\ AllReachable => (Spec => []StaleHarmless)
<1> SUFFICES ASSUME Paired, Spelled, Offering, AllReachable PROVE Spec => []StaleHarmless
  OBVIOUS
<1>1. OrderInv /\ PairedInv /\ [Next]_vars => PairedInv'
  BY PairedNext DEF OrderInv
<1>2. OrderInv /\ PairedInv /\ CalmInv /\ [Next]_vars => CalmInv'
  BY CalmNext
<1>3. CalmInv => StaleHarmless
  BY DEF CalmInv, StaleHarmless
<1> QED
  BY <1>1, <1>2, <1>3, PairedInit, CalmInit, OrderInvariant, PTL DEF Spec

-----------------------------------------------------------------------------
(***************************************************************************)
(* The refinement: a step of the order flow is a step of Issuance or none. *)
(***************************************************************************)
\* Nothing that the renewal engine sees changes.
LEMMA Stutter ==
    ASSUME UNCHANGED <<shown, attempt, valid>>, Phase' = Phase, Result' = Result
    PROVE  UNCHANGED Promise!vars
<1>1. Exposed' = Exposed
  BY DEF Exposed
<1> QED
  BY <1>1 DEF Promise!vars

\* The flow has a result, and the cleanup begins.
LEMMA Concludes ==
    ASSUME OrderInv, CleanUp("issued") \/ CleanUp("refused") \/ CleanUp("timeout") \/ CleanUp("error"),
           CleanUp("issued") => valid = Domains, pc \in Flow, UNCHANGED <<shown, valid>>
    PROVE  Promise!Conclude
<1>1. Phase = "open" /\ Phase' = "closing"
  BY DEF Phase, CleanUp, Flow
<1>2. Exposed' = Exposed
  BY DEF Exposed, CleanUp
<1>3. Result' \in {"failed"} \cup (IF valid = Domains THEN {"issued"} ELSE {})
  BY OrderMarker DEF Result, CleanUp
<1> QED
  BY <1>1, <1>2, <1>3 DEF Promise!Conclude

\* The initial state.
LEMMA PromiseInit == Init => Promise!Init
<1> SUFFICES ASSUME Init PROVE Promise!Init
  OBVIOUS
<1>1. Exposed = {}
  BY DEF Init, Exposed
<1>2. Phase = "idle" /\ Result = None /\ valid = {}
  BY DEF Init, Phase, Result
<1> QED
  BY <1>1, <1>2 DEF Promise!Init

\* Every step of the flow, of the CA, and every failure.
LEMMA PromiseNext == ASSUME OrderInv, [Next]_vars PROVE [Promise!Next]_(Promise!vars)
<1>0. TypeOK /\ StatusInv
  BY DEF OrderInv
<1>1. CASE StartAttempt
  <2>1. Phase = "idle" /\ Phase' = "open" /\ Result' = None /\ valid' = {}
    BY <1>1 DEF StartAttempt, Phase, Result
  <2>2. \A s \in Solvers : \A ch \in shown[s] : ch.attempt # attempt'
    BY <1>1 DEF StartAttempt
  <2>3. \A s \in Solvers : \A d \in Domains : [attempt |-> attempt', domain |-> d] \notin shown[s]
    BY <2>2
  <2>4. Exposed' = {}
    BY <1>1, <2>3 DEF StartAttempt, Exposed
  <2> QED
    BY <2>1, <2>4 DEF Promise!Next, Promise!Begin
<1>2. CASE CreateOrder
  <2>1. /\ Phase = "open" /\ Phase' = "open" /\ Result' = Result /\ valid = {}
        /\ UNCHANGED <<shown, attempt>>
        /\ valid' = Domains \/ valid' = {}
    BY <1>0, <1>2 DEF CreateOrder, Goto, Phase, Result, StatusInv
  <2>2. Exposed' = Exposed
    BY <2>1 DEF Exposed
  <2> QED
    BY <2>1, <2>2 DEF Promise!Next, Promise!Reuse, Promise!vars
<1>3. CASE Collect \/ AllPresented \/ SetReady \/ AllReady \/ Finalize \/ CleanUpFails
  BY <1>3, Stutter DEF Collect, AllPresented, SetReady, AllReady, Finalize, CleanUpFails, Goto,
     Phase, Result, ca
<1>4. CASE SetReadyFails \/ FinalizeRefused \/ RequestFails
  <2>1. CleanUp("error") \/ CleanUp("refused")
    BY <1>4 DEF SetReadyFails, FinalizeRefused, RequestFails
  <2>2. pc \in Flow /\ UNCHANGED <<shown, valid>> /\ ~CleanUp("issued")
    BY <1>4, <2>1 DEF SetReadyFails, FinalizeRefused, RequestFails, Flow, ca, CleanUp
  <2> QED
    BY <2>1, <2>2, Concludes DEF Promise!Next
<1>5. CASE Fetch
  <2>1. CleanUp("issued") /\ pc \in Flow /\ UNCHANGED <<shown, valid>> /\ valid = Domains
    BY <1>0, <1>5 DEF Fetch, Flow, ca, StatusInv
  <2> QED
    BY <2>1, Concludes DEF Promise!Next
<1>6. CASE PollOrder \/ PollCertificate
  <2>1. pc \in Flow /\ UNCHANGED <<shown, valid>> /\ pc # "idle" /\ pc # "cleanup"
    BY <1>6 DEF PollOrder, PollCertificate, Refresh, Flow, ca
  <2>2. \/ CleanUp("timeout") \/ CleanUp("refused")
        \/ UNCHANGED <<attempt, outcome>> /\ pc' # "idle" /\ pc' # "cleanup"
    BY <1>6 DEF PollOrder, PollCertificate, Refresh, Goto
  <2>3. CASE CleanUp("timeout") \/ CleanUp("refused")
    <3>1. ~CleanUp("issued")
      BY <2>3 DEF CleanUp
    <3> QED
      BY <2>1, <2>3, <3>1, Concludes DEF Promise!Next
  <2>4. CASE UNCHANGED <<attempt, outcome>> /\ pc' # "idle" /\ pc' # "cleanup"
    BY <2>1, <2>4, Stutter DEF Phase, Result
  <2> QED
    BY <2>2, <2>3, <2>4
<1>7. CASE Aborts \/ PresentFails \/ Crash
  <2>1. Phase # "idle" /\ Phase' = "idle" /\ valid' = valid /\ outcome' = "error"
    <3>1. ~Finish \/ outcome' = "error"
      BY <1>7 DEF Aborts, CreateOrderFails, CollectFails, PresentFails, Crash, Finish, End
    <3> QED
      BY <1>0, <1>7, <3>1, EndFacts DEF Phase, ca
  <2>2. Result' = "failed"
    BY <2>1, OrderMarker DEF Result
  <2>3. Exposed' \in SUBSET Domains
    BY DEF Exposed
  <2> QED
    BY <2>1, <2>2, <2>3 DEF Promise!Next, Promise!Abort
<1>8. CASE Present
  <2>1. /\ i \in Domains /\ pc = "present" /\ UNCHANGED <<attempt, pc, outcome, valid>>
        /\ shown' = Put(i)
    BY <1>8 DEF Present, ca
  <2>2. auths[i] \in Domains /\ SolverAt(i) \in Solvers
        /\ Challenge(i) = [attempt |-> attempt, domain |-> auths[i]]
    BY <1>0, <2>1, ChallengeFacts, SolverFacts DEF Challenge
  <2>3. \A s \in Solvers : \A ch : ch \in shown'[s] <=>
          ch \in shown[s] \/ (s = SolverAt(i) /\ ch = Challenge(i))
    BY <1>0, <2>1, PutTake
  <2>4. \A d \in Domains : [attempt |-> attempt, domain |-> d] = Challenge(i) <=> d = auths[i]
    BY <2>2
  <2>5. \A d \in Domains : d \in Exposed' <=> d \in Exposed \/ d = auths[i]
    BY <2>1, <2>2, <2>3, <2>4 DEF Exposed
  <2>6. Exposed' = Exposed \cup {auths[i]}
    BY <2>2, <2>5 DEF Exposed
  <2>7. Phase = "open" /\ UNCHANGED <<Phase, Result, valid>>
    BY <2>1 DEF Phase, Result
  <2> QED
    BY <2>2, <2>6, <2>7 DEF Promise!Next, Promise!Expose
<1>9. CASE CleanUpOne
  <2>1. /\ i \in Domains /\ pc = "cleanup" /\ UNCHANGED <<attempt, pc, outcome, valid>>
        /\ shown' = Take(i)
    BY <1>9 DEF CleanUpOne, ca
  <2>2. auths[i] \in Domains
        /\ Challenge(i) = [attempt |-> attempt, domain |-> auths[i]]
    BY <1>0, <2>1, ChallengeFacts DEF Challenge
  <2>3. \A s \in Solvers : \A ch : ch \in shown'[s] <=>
          ch \in shown[s] /\ ~(s = SolverAt(i) /\ ch = Challenge(i))
    BY <1>0, <2>1, PutTake
  <2>4. \A d \in Domains : [attempt |-> attempt, domain |-> d] = Challenge(i) => d = auths[i]
    BY <2>2
  <2>5. \A d \in Domains : /\ d \in Exposed' => d \in Exposed
                           /\ d \in Exposed /\ d # auths[i] => d \in Exposed'
    BY <2>1, <2>3, <2>4 DEF Exposed
  <2>6. Exposed' = Exposed \/ Exposed' = Exposed \ {auths[i]}
    <3>0. Exposed \subseteq Domains /\ Exposed' \subseteq Domains
      BY DEF Exposed
    <3>1. CASE auths[i] \in Exposed'
      BY <2>5, <3>0, <3>1
    <3>2. CASE auths[i] \notin Exposed'
      BY <2>5, <3>0, <3>2
    <3> QED
      BY <3>1, <3>2
  <2>7. Phase = "closing" /\ UNCHANGED <<Phase, Result, valid>>
    BY <2>1 DEF Phase, Result
  <2> QED
    BY <2>2, <2>6, <2>7 DEF Promise!Next, Promise!Withdraw, Promise!vars
<1>10. CASE Finish
  <2>1. Phase = "closing" /\ Phase' = "idle" /\ UNCHANGED <<outcome, valid, attempt>>
    BY <1>10 DEF Finish, End, Phase, ca
  <2>2. Result' = Result
    BY <2>1 DEF Result
  <2>3. ~PresentFails
    BY <1>10 DEF Finish, PresentFails
  <2>4. Exposed' \subseteq Exposed
    BY <1>0, <1>10, <2>1, <2>3, EndFacts DEF Exposed
  <2> QED
    BY <2>1, <2>2, <2>4 DEF Promise!Next, Promise!Close
<1>11. CASE CaIssues \/ CaRefuses
  BY <1>11, Stutter DEF CaIssues, CaRefuses, process, Phase, Result
<1>12. ASSUME NEW d \in Domains, CaValidates(d) PROVE [Promise!Next]_(Promise!vars)
  <2>1. /\ UNCHANGED <<shown, attempt, pc, outcome>> /\ pc # "idle"
        /\ valid' = IF Found(d) THEN valid \cup {d} ELSE valid
    BY <1>12 DEF CaValidates, process
  <2>2. Phase # "idle" /\ Phase' = Phase /\ Result' = Result
    BY <2>1 DEF Phase, Result
  <2>3. CASE Found(d)
    <3>1. d \in Exposed
      BY <2>3, SolverFacts DEF Found, Exposed
    <3>2. Exposed' = Exposed
      BY <2>1 DEF Exposed
    <3> QED
      BY <2>1, <2>2, <2>3, <3>1, <3>2 DEF Promise!Next, Promise!Prove
  <2>4. CASE ~Found(d)
    BY <2>1, <2>2, <2>4, Stutter
  <2> QED
    BY <2>3, <2>4
<1>13. CASE UNCHANGED vars
  BY <1>13, Stutter DEF vars, Phase, Result
<1> QED
  BY Steps, <1>1, <1>2, <1>3, <1>4, <1>5, <1>6, <1>7, <1>8, <1>9, <1>10, <1>11, <1>12, <1>13
     DEF Quiet, CaSteps

\* The order flow keeps what it promises to renew_certificate, whatever fails and
\* however the CA lists the domains: it returns a certificate only when the CA has
\* accepted every domain, and withdraws nothing before the result is known.
THEOREM OrderImplementsIssuance == Spec => ImplementsIssuance
  BY PromiseInit, PromiseNext, OrderInvariant, PTL DEF Spec, ImplementsIssuance, Promise!Spec
=============================================================================
